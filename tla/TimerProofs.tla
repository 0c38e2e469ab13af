---------------------------- MODULE TimerProofs ----------------------------
(***************************************************************************)
(* Timer for every length of a second, every duration, handlers and waits   *)
(* of any length, and every sequence of ticks.                              *)
(***************************************************************************)
EXTENDS Timer, TLAPS

ProperTimespec == [sec : Nat, nsec : 0 .. (Nano - 1)]

LEMMA DivMod ==
    ASSUME NEW m \in Nat, m > 0, NEW y \in Int
    PROVE  /\ y \div m \in Int /\ y % m \in 0 .. (m - 1)
           /\ y = m * (y \div m) + (y % m)
BY SMT

LEMMA NegMultiple ==
    ASSUME NEW m \in Nat, NEW k \in Int, k <= -1
    PROVE  m * k <= -m
BY SMT

\* No multiple of m lies strictly between -m and m but zero.
LEMMA SmallMultiple ==
    ASSUME NEW m \in Nat, m > 0, NEW k \in Int, -m < m * k, m * k < m
    PROVE  k = 0
<1>1. CASE k >= 1
  <2>1. m * k >= m
    BY <1>1, SMT
  <2> QED  BY <2>1, SMT
<1>2. CASE k <= -1
  <2>1. m * k <= -m
    BY <1>2, NegMultiple
  <2> QED  BY <2>1, SMT
<1> QED  BY <1>1, <1>2, SMT

\* The C quotient and remainder: the remainder is less than a second.
LEMMA CDivRem ==
    ASSUME NEW x \in Int
    PROVE  /\ CDiv(x) \in Int /\ Nano * CDiv(x) \in Int
           /\ CRem(x) = x - Nano * CDiv(x)
           /\ -Nano < CRem(x) /\ CRem(x) < Nano
<1> USE TimerAssumption
<1>1. CASE x >= 0
  <2>1. CDiv(x) = x \div Nano
    BY <1>1 DEF CDiv
  <2> QED  BY <2>1, DivMod DEF CRem
<1>2. CASE x < 0
  <2>1. CDiv(x) = -((-x) \div Nano)
    BY <1>2 DEF CDiv
  <2>2. -x \in Int
    OBVIOUS
  <2>3. /\ (-x) \div Nano \in Int /\ (-x) % Nano \in 0 .. (Nano - 1)
        /\ -x = Nano * ((-x) \div Nano) + ((-x) % Nano)
    BY <2>2, DivMod
  <2>4. Nano * (-((-x) \div Nano)) = -(Nano * ((-x) \div Nano))
    BY <2>3
  <2>5. Nano * ((-x) \div Nano) \in Int
    BY <2>3
  <2> QED  BY <2>1, <2>3, <2>4, <2>5 DEF CRem
<1> QED  BY <1>1, <1>2

\* A difference of less than a second has no quotient.
LEMMA CDivSmall ==
    ASSUME NEW x \in Int, -Nano < x, x < Nano
    PROVE  CDiv(x) = 0 /\ CRem(x) = x
<1> USE TimerAssumption
<1>1. ASSUME NEW y \in Nat, y < Nano PROVE y \div Nano = 0
  <2>1. y \div Nano \in Int /\ y % Nano \in 0 .. (Nano - 1)
        /\ y = Nano * (y \div Nano) + (y % Nano)
    BY DivMod
  <2>2. Nano * (y \div Nano) \in Int
    BY <2>1
  <2>3. -Nano < Nano * (y \div Nano) /\ Nano * (y \div Nano) < Nano
    BY <1>1, <2>1, <2>2
  <2> QED  BY <2>1, <2>3, SmallMultiple
<1>2. CDiv(x) = 0
  BY <1>1 DEF CDiv
<1> QED  BY <1>2 DEF CRem

LEMMA LaterIs ==
    ASSUME NEW c \in ProperTimespec, NEW d \in Nat
    PROVE  LET b == Later(c, d)
           IN  /\ b \in ProperTimespec
               /\ Nano * (b.sec - c.sec) \in Int
               /\ Nano * (b.sec - c.sec) + (b.nsec - c.nsec) = d
<1> USE TimerAssumption
<1> DEFINE y == c.nsec + d
<1>1. c.sec \in Nat /\ c.nsec \in 0 .. (Nano - 1)
  BY DEF ProperTimespec
<1>2. y \in Nat /\ y \in Int
  BY <1>1
<1>3. PICK z \in Int, w \in 0 .. (Nano - 1) :
        y \div Nano = z /\ y % Nano = w /\ y = Nano * z + w
  <2> HIDE DEF y
  <2> QED  BY <1>2, DivMod
<1>4. Later(c, d) = [sec |-> c.sec + z, nsec |-> w]
  BY <1>3 DEF Later
<1> HIDE DEF y
<1>5. Nano * z \in Int
  BY <1>3
<1>6. z >= 0
  <2>1. CASE z <= -1
    <3>1. Nano * z <= -Nano
      BY <1>3, <2>1, NegMultiple
    <3> QED  BY <3>1, <1>2, <1>3, <1>5
  <2> QED  BY <2>1, <1>3
<1>7. Later(c, d) \in ProperTimespec
  BY <1>1, <1>3, <1>4, <1>6 DEF ProperTimespec
<1>8. (c.sec + z) - c.sec = z
  BY <1>1, <1>3
<1>9. Nano * z + (w - c.nsec) = d
  <2>1. Nano * z + w = c.nsec + d
    BY <1>3 DEF y
  <2> QED  BY <2>1, <1>1, <1>3, <1>5
<1> QED  BY <1>4, <1>5, <1>7, <1>8, <1>9

\* One tick: the quotient q of the nanoseconds goes into the seconds with the
\* wrong sign, which costs twice its value.
LEMMA TickIs ==
    ASSUME NEW l \in Timespec, NEW e \in Timespec
    PROVE  LET q == CDiv(l.nsec - e.nsec)
               r == TimerSub(l, e)
           IN  /\ q \in Int /\ Nano * q \in Int
               /\ r \in Timespec
               /\ r.nsec = l.nsec - e.nsec - Nano * q
               /\ -Nano < r.nsec /\ r.nsec < Nano
               /\ Total(l) \in Int /\ Total(e) \in Int
               /\ Total(r) = Total(l) - Total(e) - 2 * (Nano * q)
<1> USE TimerAssumption
<1> DEFINE n == l.nsec - e.nsec
           q == CDiv(n)
           r == TimerSub(l, e)
<1>1. l.sec \in Int /\ l.nsec \in Int /\ e.sec \in Int /\ e.nsec \in Int /\ n \in Int
  BY DEF Timespec
<1>2. /\ q \in Int /\ Nano * q \in Int
      /\ CRem(n) = n - Nano * q /\ -Nano < CRem(n) /\ CRem(n) < Nano
  BY <1>1, CDivRem
<1>3. r = [sec |-> l.sec - e.sec - q, nsec |-> CRem(n)]
  BY DEF TimerSub
<1> HIDE DEF q, r
<1>4. r \in Timespec /\ r.nsec = l.nsec - e.nsec - Nano * q
  BY <1>1, <1>2, <1>3 DEF Timespec
<1>5. /\ l.sec * Nano \in Int /\ e.sec * Nano \in Int
      /\ (l.sec - e.sec - q) * Nano = l.sec * Nano - e.sec * Nano - Nano * q
  BY <1>1, <1>2
<1>6. Total(r) = (l.sec - e.sec - q) * Nano + (n - Nano * q)
  BY <1>2, <1>3 DEF Total
<1>7. Total(r) = Total(l) - Total(e) - 2 * (Nano * q)
  BY <1>1, <1>2, <1>5, <1>6 DEF Total
<1>8. Total(l) \in Int /\ Total(e) \in Int
  BY <1>1, <1>5 DEF Total
<1> QED  BY <1>2, <1>3, <1>4, <1>7, <1>8 DEF q, r

\* What select() waited, as the loop measures it.
LEMMA ElapsedIs ==
    ASSUME NEW b \in ProperTimespec, NEW d \in Nat
    PROVE  LET a == Later(b, d)
               e == TimerSub(a, b)
           IN  /\ e \in Timespec /\ e.nsec = a.nsec - b.nsec
               /\ Total(e) = d
<1> USE TimerAssumption
<1> DEFINE a == Later(b, d)
           e == TimerSub(a, b)
<1>1. /\ a \in ProperTimespec /\ Nano * (a.sec - b.sec) \in Int
      /\ Nano * (a.sec - b.sec) + (a.nsec - b.nsec) = d
  BY LaterIs
<1> HIDE DEF a
<1>2. /\ a.sec \in Nat /\ b.sec \in Nat
      /\ a.nsec \in 0 .. (Nano - 1) /\ b.nsec \in 0 .. (Nano - 1)
  BY <1>1 DEF ProperTimespec
<1>3. CDiv(a.nsec - b.nsec) = 0 /\ CRem(a.nsec - b.nsec) = a.nsec - b.nsec
  BY <1>2, CDivSmall
<1>4. e = [sec |-> a.sec - b.sec, nsec |-> a.nsec - b.nsec]
  BY <1>2, <1>3 DEF TimerSub
<1>5. e \in Timespec
  BY <1>2, <1>4 DEF Timespec
<1>6. (a.sec - b.sec) * Nano = Nano * (a.sec - b.sec)
  BY <1>2
<1>7. Total(e) = d
  BY <1>1, <1>2, <1>4, <1>6 DEF Total
<1> QED  BY <1>4, <1>5, <1>7 DEF a

---------------------------------------------------------------------------
\* The inductive invariant.  Telescopes in terms of the number of borrows, the
\* range of the nsec that patty_timer_sub() keeps, and the case of handlers
\* that take no time.
WholeBorrows == \E k \in Int : Error = 2 * (Nano * k)

Within ==
    running =>
        /\ WholeBorrows
        /\ 2 * t.nsec = 2 * (Frac + phase - clock.nsec + spent - Nano * crossed) + Error
        /\ -Nano < t.nsec /\ t.nsec < Nano

Idle == running /\ spent = 0 => crossed = 0 /\ (Frac = 0 => Error = 0)

Inv == TypeOK /\ Within /\ Idle

LEMMA ErrorInt ==
    ASSUME TypeOK
    PROVE  Error \in Int /\ Total(t) \in Int /\ Secs * Nano \in Int /\ Nano * crossed \in Int
<1> USE TimerAssumption
<1>1. t.sec * Nano \in Int /\ t.nsec \in Int /\ Secs * Nano \in Int /\ Nano * crossed \in Int
  BY DEF TypeOK, Timespec
<1> QED  BY <1>1 DEF TypeOK, Total, Error

\* The nsec of the timer after a tick, where nc and nb are the seconds crossed
\* so far and now, in units, and nq those of the borrow.
LEMMA NsecStep ==
    ASSUME NEW n \in Int, NEW ph \in Int, NEW c \in Int, NEW b \in Int, NEW a \in Int,
           NEW sp \in Int, NEW h \in Int, NEW nc \in Int, NEW nb \in Int,
           NEW nq \in Int, NEW er \in Int, NEW f \in Int,
           nb + (b - c) = h,
           2 * n = 2 * (f + ph - c + sp - nc) + er
    PROVE  2 * (n - (a - b) - nq)
             = 2 * (f + ph - a + (sp + h) - (nc + nb)) + (er - 2 * nq)
BY SMT

\* patty_timer_start() sets out with no error.
LEMMA StartInv ==
    ASSUME Inv, Start
    PROVE  Inv'
<1> USE TimerAssumption
<1>1. TypeOK'
  BY DEF Inv, TypeOK, Start, Timespec
<1>2. t'.nsec = Frac /\ crossed' = 0 /\ spent' = 0 /\ phase' = clock.nsec /\ clock' = clock
  BY DEF Start
<1>3. Total(t') = Secs * Nano + Frac /\ Secs * Nano \in Int
  BY DEF Start, Total
<1>4. Error' = 0
  BY <1>3 DEF Start, Error, Total
<1>5. Nano * 0 = 0
  OBVIOUS
<1>6. Within'
  <2>1. WholeBorrows'
    BY <1>4, <1>5 DEF WholeBorrows
  <2>2. clock.nsec \in Int
    BY DEF Inv, TypeOK
  <2> QED  BY <1>2, <1>4, <1>5, <2>1, <2>2 DEF Within
<1>7. Idle'
  BY <1>2, <1>4 DEF Idle
<1> QED  BY <1>1, <1>6, <1>7 DEF Inv

\* One iteration of the loop.
LEMMA EventHandleInv ==
    ASSUME Inv, NEW h \in 0 .. MaxHandler, NEW d \in 0 .. MaxSelect, EventHandle(h, d)
    PROVE  Inv'
<1> USE TimerAssumption
<1> DEFINE before == Later(clock, h)
           after  == Later(before, d)
           e      == TimerSub(after, before)
           bs     == before.sec - clock.sec
           q      == CDiv(t.nsec - e.nsec)
<1>1. /\ clock \in ProperTimespec /\ h \in Nat /\ d \in Nat /\ t \in Timespec
      /\ spent \in Nat /\ crossed \in Nat /\ waited \in Nat /\ phase \in Nat
      /\ phase < Nano /\ running \in BOOLEAN
  BY DEF Inv, TypeOK, ProperTimespec
<1>2. /\ before \in ProperTimespec /\ Nano * bs \in Int
      /\ Nano * bs + (before.nsec - clock.nsec) = h
  BY <1>1, LaterIs
<1>3. after \in ProperTimespec
  <2> HIDE DEF before
  <2> QED  BY <1>1, <1>2, LaterIs
<1>4. e \in Timespec /\ e.nsec = after.nsec - before.nsec /\ Total(e) = d
  <2> HIDE DEF before
  <2> QED  BY <1>1, <1>2, ElapsedIs
<1>5. /\ clock' = after /\ TimerTick(e)
      /\ waited' = waited + d /\ spent' = spent + h /\ crossed' = crossed + bs
      /\ UNCHANGED <<running, phase>>
  BY DEF EventHandle
<1> HIDE DEF before, after, e
<1>6. /\ clock.sec \in Nat /\ before.sec \in Nat /\ bs \in Int
      /\ clock.nsec \in 0 .. (Nano - 1) /\ before.nsec \in 0 .. (Nano - 1)
      /\ after.nsec \in 0 .. (Nano - 1) /\ t.nsec \in Int
  BY <1>1, <1>2, <1>3 DEF ProperTimespec, Timespec
<1>7. bs >= 0
  <2>1. CASE bs <= -1
    <3>1. Nano * bs <= -Nano
      BY <1>6, <2>1
    <3> QED  BY <1>1, <1>2, <1>6, <3>1
  <2> QED  BY <1>6, <2>1
<1>8. /\ q \in Int /\ Nano * q \in Int
      /\ TimerSub(t, e) \in Timespec
      /\ TimerSub(t, e).nsec = t.nsec - e.nsec - Nano * q
      /\ -Nano < TimerSub(t, e).nsec /\ TimerSub(t, e).nsec < Nano
      /\ Total(t) \in Int
      /\ Total(TimerSub(t, e)) = Total(t) - Total(e) - 2 * (Nano * q)
  BY <1>1, <1>4, TickIs
<1>9. TypeOK'
  <2>1. t' \in Timespec
    BY <1>1, <1>5, <1>8 DEF TimerTick
  <2>2. waited' \in Nat /\ spent' \in Nat /\ crossed' \in Nat
    BY <1>1, <1>5, <1>6, <1>7
  <2> HIDE DEF bs
  <2> QED  BY <1>1, <1>3, <1>5, <2>1, <2>2 DEF TypeOK, ProperTimespec, Inv
<1>10. CASE ~running
  BY <1>5, <1>9, <1>10 DEF Inv, Within, Idle
<1>11. CASE running
  <2> HIDE DEF q
  <2>1. t' = TimerSub(t, e)
    BY <1>5, <1>11 DEF TimerTick
  <2>2. /\ Error \in Int /\ Secs * Nano \in Int /\ Nano * crossed \in Int
    BY ErrorInt DEF Inv
  <2>3. Total(t') = Total(t) - d - 2 * (Nano * q)
    BY <1>4, <1>8, <2>1
  <2>4. Error' = Error - 2 * (Nano * q)
    <3>1. Error' = Total(t') - (Secs * Nano + Frac - waited')
      BY DEF Error, Total
    <3>2. Error = Total(t) - (Secs * Nano + Frac - waited)
      BY DEF Error
    <3> QED  BY <1>1, <1>5, <1>8, <2>2, <2>3, <3>1, <3>2
  <2>5. Nano * crossed' = Nano * crossed + Nano * bs
    <3>1. Nano * (crossed + bs) = Nano * crossed + Nano * bs
      BY <1>1, <1>6
    <3> QED  BY <1>5, <3>1
  <2>6. /\ 2 * t.nsec = 2 * (Frac + phase - clock.nsec + spent - Nano * crossed) + Error
        /\ -Nano < t.nsec /\ t.nsec < Nano
    BY <1>11 DEF Inv, Within
  <2>7. t'.nsec = t.nsec - (after.nsec - before.nsec) - Nano * q
    BY <1>4, <1>8, <2>1
  <2>8. 2 * t'.nsec
          = 2 * (Frac + phase' - clock'.nsec + spent' - Nano * crossed') + Error'
    <3>1. phase' = phase /\ clock'.nsec = after.nsec /\ spent' = spent + h
      BY <1>5
    <3>2. 2 * (t.nsec - (after.nsec - before.nsec) - Nano * q)
            = 2 * (Frac + phase - after.nsec + (spent + h) - (Nano * crossed + Nano * bs))
              + (Error - 2 * (Nano * q))
      <4>1. /\ t.nsec \in Int /\ phase \in Int /\ clock.nsec \in Int /\ before.nsec \in Int
            /\ after.nsec \in Int /\ spent \in Int /\ h \in Int /\ Frac \in Int
        BY <1>1, <1>6
      <4> DEFINE nc == Nano * crossed
                 nb == Nano * bs
                 nq == Nano * q
      <4>2. nc \in Int /\ nb \in Int /\ nq \in Int /\ Error \in Int
        BY <1>2, <1>8, <2>2
      <4>3. nb + (before.nsec - clock.nsec) = h
        BY <1>2
      <4>4. 2 * t.nsec = 2 * (Frac + phase - clock.nsec + spent - nc) + Error
        BY <2>6
      <4> HIDE DEF nc, nb, nq
      <4>5. 2 * (t.nsec - (after.nsec - before.nsec) - nq)
              = 2 * (Frac + phase - after.nsec + (spent + h) - (nc + nb)) + (Error - 2 * nq)
        BY ONLY <4>1, <4>2, <4>3, <4>4, NsecStep, SMT
      <4> QED  BY <4>5 DEF nc, nb, nq
    <3> HIDE DEF bs
    <3> QED  BY <2>4, <2>5, <2>7, <3>1, <3>2
  <2>9. WholeBorrows'
    <3>1. PICK k \in Int : Error = 2 * (Nano * k)
      BY <1>11 DEF Inv, Within, WholeBorrows
    <3>2. /\ Nano * (k - q) = Nano * k - Nano * q /\ Nano * k \in Int
          /\ k - q \in Int
      BY <1>8, <3>1
    <3>3. Error' = 2 * (Nano * (k - q))
      BY <1>8, <2>4, <3>1, <3>2
    <3>4. \E j \in Int : Error' = 2 * (Nano * j)
      BY <3>2, <3>3
    <3> QED  BY <3>4 DEF WholeBorrows
  <2>10. Within'
    <3>1. -Nano < t'.nsec /\ t'.nsec < Nano
      BY <1>8, <2>1
    <3> QED  BY <2>8, <2>9, <3>1 DEF Within
  <2>11. Idle'
    <3> SUFFICES ASSUME spent' = 0
                 PROVE  crossed' = 0 /\ (Frac = 0 => Error' = 0)
      BY DEF Idle
    <3>1. h = 0 /\ spent = 0
      BY <1>1, <1>5
    <3>2. bs = 0
      <4>1. Nano * bs = clock.nsec - before.nsec
        BY <1>2, <1>6, <3>1
      <4> HIDE DEF bs
      <4> QED  BY <1>6, <4>1, SmallMultiple
    <3>3. crossed = 0 /\ (Frac = 0 => Error = 0)
      BY <1>11, <3>1 DEF Inv, Idle
    <3>4. crossed' = 0
      BY <1>5, <3>2, <3>3
    <3>5. ASSUME Frac = 0 PROVE Error' = 0
      <4>1. before.nsec = clock.nsec
        <5>1. Nano * bs = 0
          BY <3>2
        <5> HIDE DEF bs
        <5>2. before.nsec \in Int /\ clock.nsec \in Int
          BY <1>6
        <5> QED  BY <1>2, <3>1, <5>1, <5>2
      <4>2. t.nsec = phase - clock.nsec
        <5>1. Nano * crossed = 0
          BY <3>3
        <5>2. 2 * t.nsec = 2 * (0 + phase - clock.nsec + 0 - 0) + 0
          BY <2>6, <3>1, <3>3, <3>5, <5>1
        <5>3. phase \in Int /\ clock.nsec \in Int /\ t.nsec \in Int
          BY <1>1, <1>6
        <5> QED  BY <5>2, <5>3
      <4>3. t.nsec - e.nsec = phase - after.nsec
        BY <1>1, <1>4, <1>6, <4>1, <4>2
      <4>4. q = 0
        <5>1. /\ phase - after.nsec \in Int
              /\ -Nano < phase - after.nsec /\ phase - after.nsec < Nano
          BY <1>1, <1>6
        <5> QED  BY <4>3, <5>1, CDivSmall DEF q
      <4>5. Nano * q = 0
        BY <4>4
      <4> QED  BY <2>4, <3>3, <3>5, <4>5
    <3> QED  BY <3>4, <3>5
  <2> QED  BY <1>9, <2>10, <2>11 DEF Inv
<1> QED  BY <1>1, <1>10, <1>11

LEMMA InvHolds == Spec => []Inv
<1> USE TimerAssumption
<1>1. Init => Inv
  <2> SUFFICES ASSUME Init PROVE Inv
    OBVIOUS
  <2>1. PICK p \in 0 .. (Nano - 1) : clock = [sec |-> 0, nsec |-> p]
    BY DEF Init
  <2>2. t \in Timespec
    BY DEF Init, Timespec
  <2> QED  BY <2>1, <2>2 DEF Init, Inv, TypeOK, Within, Idle
<1>2. Inv /\ [Next]_vars => Inv'
  <2> SUFFICES ASSUME Inv, [Next]_vars PROVE Inv'
    OBVIOUS
  <2>1. CASE Start
    BY <2>1, StartInv
  <2>2. CASE Stop
    BY <2>2 DEF Stop, Inv, TypeOK, Within, Idle
  <2>3. ASSUME NEW h \in 0 .. MaxHandler, NEW d \in 0 .. MaxSelect, EventHandle(h, d)
        PROVE  Inv'
    BY <2>3, EventHandleInv
  <2>4. CASE UNCHANGED vars
    BY <2>4 DEF vars, Inv, TypeOK, Within, Idle, WholeBorrows, Error, Total
  <2> QED  BY <2>1, <2>2, <2>3, <2>4 DEF Next
<1> QED  BY <1>1, <1>2, PTL DEF Spec

---------------------------------------------------------------------------
\* For every length of a second, duration, wait and handler: a timer has
\* expired when the loop has waited in select() for its duration and the error
\* of patty_timer_sub(), neither before nor after, and a timer of whole seconds
\* has no error while the handlers have taken no time since its start.
THEOREM TimerExact == Spec => []Exact
<1> USE TimerAssumption
<1>1. Inv => Exact
  <2> SUFFICES ASSUME Inv, running
               PROVE  /\ Expired <=> waited >= Secs * Nano + Frac + Error
                      /\ spent = 0 /\ Frac = 0 => Error = 0
    BY DEF Exact
  <2>1. /\ t.sec \in Int /\ t.nsec \in Int /\ -Nano < t.nsec /\ t.nsec < Nano
        /\ waited \in Nat
    BY DEF Inv, TypeOK, Within, Timespec
  <2>2. Error \in Int /\ Total(t) \in Int /\ Secs * Nano \in Int
    BY ErrorInt DEF Inv
  <2>3. Total(t) <= 0 <=> waited >= Secs * Nano + Frac + Error
    BY <2>1, <2>2 DEF Error
  <2>4. Total(t) = t.sec * Nano + t.nsec
    BY DEF Total
  <2>5. Expired <=> Total(t) <= 0
    <3>1. CASE t.sec < 0
      <4>1. t.sec * Nano <= -Nano
        BY <2>1, <3>1
      <4> QED  BY <2>1, <2>4, <3>1, <4>1 DEF Expired
    <3>2. CASE t.sec = 0
      BY <2>1, <2>4, <3>2 DEF Expired
    <3>3. CASE t.sec > 0
      <4>1. t.sec * Nano >= Nano
        BY <2>1, <3>3
      <4> QED  BY <2>1, <2>4, <3>3, <4>1 DEF Expired
    <3> QED  BY <2>1, <3>1, <3>2, <3>3
  <2>6. spent = 0 /\ Frac = 0 => Error = 0
    BY DEF Inv, Idle
  <2> QED  BY <2>3, <2>5, <2>6
<1> QED  BY <1>1, InvHolds, PTL

\* However long handlers and waits are: the nsec of a running timer is where
\* the clock, the handlers' time and the wrong borrows have moved it, and the
\* borrows put its expiry off or bring it forward by whole pairs of seconds.
THEOREM TimerTelescopes == Spec => []Telescopes
<1> USE TimerAssumption
<1>1. Inv => Telescopes
  <2> SUFFICES ASSUME Inv, running PROVE Telescopes
    BY DEF Telescopes
  <2> DEFINE m == 2 * Nano
  <2>1. PICK k \in Int : Error = 2 * (Nano * k)
    BY DEF Inv, Within, WholeBorrows
  <2>2. m \in Nat /\ m > 0
    OBVIOUS
  <2>3. Error \in Int /\ m * k = Error
    <3>1. Error \in Int
      BY ErrorInt DEF Inv
    <3>2. m * k = 2 * (Nano * k)
      BY <2>1
    <3> QED  BY <2>1, <3>1, <3>2
  <2> HIDE DEF m
  <2>4. /\ Error \div m \in Int /\ Error % m \in 0 .. (m - 1)
        /\ Error = m * (Error \div m) + (Error % m)
    BY <2>2, <2>3, DivMod
  <2>5. m * (k - (Error \div m)) = m * k - m * (Error \div m)
    BY <2>1, <2>2, <2>4
  <2>6. m * (Error \div m) \in Int
    BY <2>2, <2>4
  <2>7. m * (k - (Error \div m)) = Error % m
    BY <2>2, <2>3, <2>4, <2>5, <2>6
  <2>8. k - (Error \div m) = 0
    BY <2>1, <2>2, <2>4, <2>7, SmallMultiple
  <2>9. m * 0 = 0
    BY <2>2
  <2>10. Error % m = 0
    BY <2>7, <2>8, <2>9
  <2> QED  BY <2>10 DEF Inv, Within, Telescopes, m
<1> QED  BY <1>1, InvHolds, PTL

\* However long handlers and waits are: the error of a timer stays within a
\* few seconds of twice what the handlers crossed beyond the time they took.
THEOREM TimerDrift == Spec => []Drift
<1> USE TimerAssumption
<1>1. Inv => Drift
  <2> SUFFICES ASSUME Inv, running PROVE Drift
    BY DEF Drift
  <2>1. /\ 2 * t.nsec = 2 * (Frac + phase - clock.nsec + spent - Nano * crossed) + Error
        /\ -Nano < t.nsec /\ t.nsec < Nano
    BY DEF Inv, Within
  <2>2. /\ t.nsec \in Int /\ phase \in 0 .. (Nano - 1) /\ clock.nsec \in 0 .. (Nano - 1)
        /\ spent \in Nat
    BY DEF Inv, TypeOK, Timespec
  <2>3. Error \in Int /\ Nano * crossed \in Int
    BY ErrorInt DEF Inv
  <2> QED  BY <2>1, <2>2, <2>3 DEF Drift
<1> QED  BY <1>1, InvHolds, PTL

=============================================================================
