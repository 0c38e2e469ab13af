--------------------------- MODULE SegmentProofs ---------------------------
(***************************************************************************)
(* The assembler of src/src/sock.c, for every n_maxlen_rx of at least two,  *)
(* every length of a message and any number of faults: it stays within its  *)
(* memory (Fits), gives out only runs of segments that count down to zero   *)
(* (CountsDown), ends the daemon for no other reason than a segment that is *)
(* longer than N1 (Survives), and loses at most one message to each fault   *)
(* of a stream (DamageBounded).                                             *)
(***************************************************************************)
EXTENDS Segment, FiniteSetTheorems, TLAPS

---------------------------------------------------------------------------
(***************************************************************************)
(* The inductive invariant.  Fits needs no strengthening but the types;     *)
(* CountsDown needs that the segments saved so far count down, and that     *)
(* their number and the segments still to come make up the total.           *)
(***************************************************************************)
AsmFits(a) == type = "STREAM" => a.offset + a.remaining * (Rx - 1) <= a.room

Counting(a) ==
    a.total # 0 =>
        /\ Len(a.saved) + a.remaining = a.total
        /\ \A k \in 1 .. Len(a.saved) : a.saved[k].rem = a.total - k
        /\ Len(a.saved) > 0 => a.saved[1].kind = "first"

Begins(a) == a.total # 0 => Len(a.saved) > 0

Whole(p) == \/ \E f \in Range(p) : f.kind = "plain" /\ p = <<f>>
            \/ /\ p # <<>> /\ p[1].kind = "first"
               /\ \A k \in DOMAIN p : p[k].rem = Len(p) - k

Sound(a) == a \in Assembler /\ AsmFits(a) /\ Counting(a)

IInv == /\ TypeOK
        /\ Sound(asm) /\ Begins(asm)
        /\ CountsDown
        /\ \A i \in 1 .. Len(chan) : chan[i].len <= Rx
        /\ Survives

---------------------------------------------------------------------------
(***************************************************************************)
(* The operations of the assembler.                                         *)
(***************************************************************************)
LEMMA Product ==
    ASSUME NEW r \in Nat, NEW n \in Nat
    PROVE  /\ r * n \in Nat
           /\ r # 0 => r * n = (r - 1) * n + n
<1>1. r * n \in Nat
  OBVIOUS
<1>2. (r - 1) * n + n = r * n
  OBVIOUS
<1> QED  BY <1>1, <1>2

LEMMA RxNat == Rx \in Nat /\ Rx - 1 \in Nat /\ Rx >= 2
BY SegmentAssumption

LEMMA AsmType ==
    ASSUME NEW a \in Assembler
    PROVE  /\ a.total \in 0 .. 128 /\ a.remaining \in 0 .. 128
           /\ a.total \in Nat /\ a.remaining \in Nat
           /\ a.offset \in Nat /\ a.room \in Nat
<1>1. a.total \in 0 .. 128 /\ a.remaining \in 0 .. 128 /\ a.offset \in Nat /\ a.room \in Nat
  BY DEF Assembler
<1> QED  BY <1>1

LEMMA AsmSaved ==
    ASSUME NEW a \in Assembler
    PROVE  a.saved \in Seq(Segment) /\ Len(a.saved) \in Nat
<1>1. a.saved \in Seq(Segment)
  BY DEF Assembler
<1> QED  BY <1>1

LEMMA SegType ==
    ASSUME NEW f \in Segment
    PROVE  /\ f.rem \in 0 .. 127 /\ f.rem \in Nat /\ f.rem + 1 \in 0 .. 128
           /\ f.len \in Nat /\ f.kind \in {"plain", "first", "next"}
<1>1. f.rem \in 0 .. 127 /\ f.len \in Nat /\ f.kind \in {"plain", "first", "next"}
  BY DEF Segment
<1> QED  BY <1>1

\* A new assembler has room for the segments of its message.
LEMMA BegunSound ==
    ASSUME TypeOK, Sound(asm), Begins(asm), NEW f \in Segment
    PROVE  /\ Sound(Begun(f))
           /\ f.kind = "next" => Begun(f) = asm
           /\ Begun(f).total # 0 /\ Len(Begun(f).saved) = 0 => f.kind = "first"
<1>1. CASE f.kind # "first" \/ asm.total >= f.rem + 1
  <2>1. Begun(f) = asm
    <3>1. asm.total \in Nat /\ f.rem \in Nat
      BY AsmType, SegType DEF Sound
    <3> QED  BY <1>1, <3>1 DEF Begun, AssemblerInit
  <2> QED  BY <2>1 DEF Begins, Sound, Assembler
<1>2. CASE f.kind = "first" /\ asm.total < f.rem + 1
  <2> DEFINE t == f.rem + 1
             a == [total |-> t, remaining |-> t, offset |-> 0,
                   room |-> t * MaxlenRx, saved |-> <<>>]
  <2>1. Begun(f) = a
    BY <1>2 DEF Begun, AssemblerInit
  <2>2. t \in 0 .. 128 /\ t \in Nat
    BY SegType
  <2>3. MaxlenRx \in Nat
    BY RxNat DEF MaxlenRx
  <2>4. a \in Assembler
    <3> HIDE DEF t
    <3>1. t * MaxlenRx \in Nat
      BY <2>2, <2>3, Product
    <3> QED  BY <2>2, <3>1 DEF Assembler
  <2>5. AsmFits(a)
    <3> SUFFICES ASSUME type = "STREAM"
                 PROVE  0 + t * (Rx - 1) <= t * Rx
      BY DEF AsmFits, MaxlenRx
    <3> HIDE DEF t
    <3>1. t * Rx = t * (Rx - 1) + t
      BY <2>2, RxNat
    <3>2. t * (Rx - 1) \in Nat
      BY <2>2, RxNat, Product
    <3> QED  BY <3>1, <3>2, <2>2
  <2>6. Counting(a)
    BY <2>2 DEF Counting
  <2> QED  BY <2>1, <2>4, <2>5, <2>6, <1>2 DEF Sound
<1> QED
  <2>1. asm.total \in Nat /\ f.rem \in Nat
    BY AsmType, SegType DEF Sound
  <2> QED  BY <1>1, <1>2, <2>1

LEMMA StopSound ==
    ASSUME NEW a, Sound(a)
    PROVE  Sound(AssemblerStop(a)) /\ Begins(AssemblerStop(a))
<1>1. AssemblerStop(a) \in Assembler
  <2>1. a \in Assembler /\ 0 \in 0 .. 128
    BY DEF Sound
  <2> QED  BY <2>1 DEF Assembler, AssemblerStop
<1>2. AsmFits(AssemblerStop(a))
  <2> SUFFICES ASSUME type = "STREAM"
               PROVE  a.offset + 0 * (Rx - 1) <= a.room
    BY DEF Sound, Assembler, AssemblerStop, AsmFits
  <2>1. a.remaining * (Rx - 1) \in Nat
    <3>1. a.remaining \in Nat
      BY AsmType DEF Sound
    <3> QED  BY <3>1, RxNat, Product
  <2>2. a.offset + a.remaining * (Rx - 1) <= a.room
    BY DEF Sound, AsmFits
  <2>3. 0 * (Rx - 1) = 0
    BY RxNat
  <2> QED  BY <2>1, <2>2, <2>3 DEF Sound, Assembler
<1>3. AssemblerStop(a).total = 0
  BY DEF Sound, Assembler, AssemblerStop
<1> QED  BY <1>1, <1>2, <1>3 DEF Sound, Counting, Begins

\* A segment that is expected and not too long leaves room for the others.
LEMMA SaveSound ==
    ASSUME NEW a, Sound(a), NEW f \in Segment, AssemblerPending(a, f.rem), ~Overlong(f),
           f.len >= 2, type \in {"STREAM", "DGRAM"},
           Len(a.saved) = 0 => f.kind = "first"
    PROVE  /\ Sound(AssemblerSave(a, f)) /\ Begins(AssemblerSave(a, f))
           /\ f.rem = 0 => Whole(AssemblerSave(a, f).saved)
           /\ type = "STREAM" => AssemblerSave(a, f).offset <= AssemblerSave(a, f).room
<1> DEFINE b == AssemblerSave(a, f)
<1>1. /\ b.total = a.total /\ b.room = a.room
      /\ b.offset = a.offset + (f.len - 1)
      /\ b.remaining = a.remaining - 1
      /\ b.saved = Append(a.saved, f)
  BY DEF Sound, Assembler, AssemblerSave
<1>2. /\ a.total \in Nat /\ a.total # 0 /\ a.remaining \in 1 .. 128 /\ a.remaining \in Nat
      /\ a.remaining = f.rem + 1 /\ a.offset \in Nat /\ a.room \in Nat
      /\ f.len \in Nat /\ f.rem \in Nat
  <2>1. a \in Assembler /\ a.total # 0 /\ f.rem + 1 = a.remaining
    BY DEF Sound, AssemblerPending
  <2>2. a.total \in Nat /\ a.remaining \in Nat /\ a.offset \in Nat /\ a.room \in Nat
    BY <2>1, AsmType
  <2>3. a.remaining \in 0 .. 128
    BY <2>1, AsmType
  <2>4. f.len \in Nat /\ f.rem \in Nat
    BY SegType
  <2> QED  BY <2>1, <2>2, <2>3, <2>4
<1>s. a.saved \in Seq(Segment)
  BY AsmSaved DEF Sound
<1>3. b \in Assembler
  <2>1. a.remaining - 1 \in 0 .. 128 /\ a.offset + (f.len - 1) \in Nat
    BY <1>2
  <2>2. Append(a.saved, f) \in Seq(Segment)
    BY <1>s
  <2> QED  BY <2>1, <2>2 DEF Sound, Assembler, AssemblerSave
<1>4. AsmFits(b) /\ (type = "STREAM" => b.offset <= b.room)
  <2> SUFFICES ASSUME type = "STREAM"
               PROVE  /\ a.offset + (f.len - 1) + (a.remaining - 1) * (Rx - 1) <= a.room
                      /\ a.offset + (f.len - 1) <= a.room
    BY <1>1 DEF AsmFits
  <2>1. f.len - 1 <= Rx - 1
    BY <1>2, RxNat DEF Overlong, MaxlenRx
  <2>2. a.remaining * (Rx - 1) = (a.remaining - 1) * (Rx - 1) + (Rx - 1)
    <3>1. a.remaining \in Nat /\ a.remaining # 0
      BY <1>2
    <3> QED  BY <3>1, RxNat, Product
  <2>3. (a.remaining - 1) * (Rx - 1) \in Nat
    <3>1. a.remaining - 1 \in Nat
      BY <1>2
    <3> QED  BY <3>1, RxNat, Product
  <2>4. a.offset + a.remaining * (Rx - 1) <= a.room
    BY DEF Sound, AsmFits
  <2> DEFINE m == a.remaining * (Rx - 1)
             p == (a.remaining - 1) * (Rx - 1)
  <2>5. m = p + (Rx - 1) /\ p \in Nat /\ a.offset + m <= a.room
    BY <2>2, <2>3, <2>4
  <2>6. a.offset \in Nat /\ a.room \in Nat /\ f.len \in Nat
    BY <1>2
  <2> HIDE DEF m, p
  <2>7. a.offset + (f.len - 1) + p <= a.room /\ a.offset + (f.len - 1) <= a.room
    BY <2>1, <2>5, <2>6, RxNat
  <2> QED  BY <2>7 DEF p
<1>5. /\ Len(b.saved) = Len(a.saved) + 1
      /\ \A k \in 1 .. Len(a.saved) : b.saved[k] = a.saved[k]
      /\ b.saved[Len(a.saved) + 1] = f
      /\ Len(a.saved) \in Nat
  BY <1>1, <1>s
<1>6. /\ Len(b.saved) + b.remaining = b.total
      /\ \A k \in 1 .. Len(b.saved) : b.saved[k].rem = b.total - k
      /\ Len(b.saved) > 0 /\ b.saved[1].kind = "first"
  <2>1. /\ Len(a.saved) + a.remaining = a.total
        /\ \A k \in 1 .. Len(a.saved) : a.saved[k].rem = a.total - k
        /\ Len(a.saved) > 0 => a.saved[1].kind = "first"
    BY <1>2 DEF Sound, Counting
  <2>2. Len(b.saved) + b.remaining = b.total
    <3>1. a.remaining \in Nat /\ a.total \in Nat
      BY <1>2
    <3> HIDE DEF b
    <3> QED  BY <2>1, <1>1, <1>5, <3>1
  <2>3. ASSUME NEW k \in 1 .. Len(b.saved) PROVE b.saved[k].rem = b.total - k
    <3>1. CASE k \in 1 .. Len(a.saved)
      BY <3>1, <2>1, <1>1, <1>5
    <3>2. CASE k = Len(a.saved) + 1
      <4>1. a.remaining = f.rem + 1 /\ f.rem \in Nat /\ a.total \in Nat
        BY <1>2
      <4> HIDE DEF b
      <4> QED  BY SMTT(30), <3>2, <2>1, <1>1, <1>5, <4>1
    <3> QED  BY <3>1, <3>2, <1>5
  <2>4. Len(b.saved) > 0 /\ b.saved[1].kind = "first"
    BY <2>1, <1>5
  <2> QED  BY <2>2, <2>3, <2>4
<1>7. ASSUME f.rem = 0 PROVE Whole(b.saved)
  <2>1. Len(b.saved) = b.total
    BY <1>7, <1>1, <1>2, <1>5, <1>6
  <2>2. b.saved \in Seq(Segment)
    BY <1>1, <1>s
  <2>3. DOMAIN b.saved = 1 .. Len(b.saved) /\ b.saved # <<>>
    BY <2>2, <1>6
  <2> HIDE DEF b
  <2> QED  BY <1>6, <2>1, <2>3 DEF Whole
<1> QED  BY <1>3, <1>4, <1>6, <1>7 DEF Sound, Counting, Begins

---------------------------------------------------------------------------
(***************************************************************************)
(* A frame: it leaves the assembler sound, writes a whole piece or nothing, *)
(* and on a stream ends the daemon only when it is too long.                *)
(***************************************************************************)
FrameStep(f) ==
    /\ Sound(asm) /\ Begins(asm)
    /\ alive \in BOOLEAN
    /\ type = "STREAM" /\ ~alive => f.len > Rx

Writes == out' = out \/ \E p \in Seq(Segment) : Whole(p) /\ out' = Append(out, p)

LEMMA HandleSegmentStep ==
    ASSUME IInv, alive, type' = type, NEW f \in Segment, HandleSegment(f)
    PROVE  FrameStep(f)' /\ Writes
<1> DEFINE a == Begun(f)
           b == AssemblerSave(a, f)
<1>1. TypeOK /\ Sound(asm) /\ Begins(asm) /\ type \in {"STREAM", "DGRAM"}
  BY DEF IInv, TypeOK
<1>2. /\ Sound(a)
      /\ a.total # 0 /\ Len(a.saved) = 0 => f.kind = "first"
  BY <1>1, BegunSound
<1>3. ASSUME NEW c, Sound(c), Begins(c), asm' = c PROVE Sound(asm)' /\ Begins(asm)'
  BY <1>3 DEF Sound, Begins, AsmFits, Counting
<1>4. alive = TRUE
  BY <1>1 DEF TypeOK
<1>5. f.len \in Nat /\ f.rem \in Nat
  BY SegType
<1>6. CASE Refused(f) /\ UNCHANGED <<asm, alive, out>>
  BY <1>6, <1>1, <1>3, <1>4 DEF FrameStep, Writes
<1>7. CASE ~Refused(f) /\ Fails(f) /\ alive' = FALSE /\ UNCHANGED <<asm, out>>
  <2>1. ASSUME type = "STREAM" PROVE f.len > Rx
    <3>1. ~TooFew(f)
      BY <1>7, <1>5 DEF Refused, TooFew
    <3>2. Overlong(f)
      BY <1>7, <3>1 DEF Fails
    <3> QED  BY <2>1, <3>2, <1>5, RxNat DEF Overlong, MaxlenRx
  <2> QED  BY <1>7, <1>1, <1>3, <2>1 DEF FrameStep, Writes
<1>8. CASE /\ ~Refused(f) /\ ~Fails(f) /\ ~AssemblerPending(a, f.rem)
           /\ asm' = AssemblerStop(a) /\ UNCHANGED <<alive, out>>
  <2>1. Sound(AssemblerStop(a)) /\ Begins(AssemblerStop(a))
    BY <1>2, StopSound
  <2> QED  BY <1>8, <1>3, <1>4, <2>1 DEF FrameStep, Writes
<1>9. CASE /\ ~Refused(f) /\ ~Fails(f) /\ AssemblerPending(a, f.rem)
           /\ asm' = IF f.rem = 0 THEN AssemblerStop(b) ELSE b
           /\ out' = IF f.rem = 0 THEN Append(out, b.saved) ELSE out
           /\ alive' \in IF b.offset > b.room THEN BOOLEAN ELSE {TRUE}
  <2>1. f.len >= 2 /\ ~Overlong(f)
    BY <1>9, <1>5 DEF Refused, Fails
  <2>2. a.total # 0
    BY <1>9 DEF AssemblerPending
  <2>3. /\ Sound(b) /\ Begins(b)
        /\ f.rem = 0 => Whole(b.saved)
        /\ type = "STREAM" => b.offset <= b.room
    <3> HIDE DEF a
    <3> QED  BY <1>1, <1>2, <1>9, <2>1, <2>2, SaveSound
  <2>4. Sound(AssemblerStop(b)) /\ Begins(AssemblerStop(b))
    BY <2>3, StopSound
  <2>5. Sound(asm)' /\ Begins(asm)'
    BY <1>3, <1>9, <2>3, <2>4
  <2>6. b.saved \in Seq(Segment)
    BY <2>3, AsmSaved DEF Sound
  <2>7. Writes
    BY <1>9, <2>3, <2>6 DEF Writes
  <2>8. b.offset \in Nat /\ b.room \in Nat
    BY <2>3, AsmType DEF Sound
  <2>9. alive' \in BOOLEAN /\ (type = "STREAM" => alive' = TRUE)
    <3> HIDE DEF b
    <3>1. type = "STREAM" => ~(b.offset > b.room)
      BY <2>3, <2>8
    <3> QED  BY <3>1, <1>9
  <2> QED  BY <2>5, <2>7, <2>9 DEF FrameStep
<1> QED  BY <1>6, <1>7, <1>8, <1>9 DEF HandleSegment

LEMMA HandleFrameStep ==
    ASSUME IInv, alive, type' = type, NEW f \in Segment, HandleFrame(f)
    PROVE  FrameStep(f)' /\ Writes
<1>1. CASE f.kind # "plain"
  BY <1>1, HandleSegmentStep DEF HandleFrame
<1>2. CASE f.kind = "plain"
  <2>1. out' = Append(out, <<f>>) /\ UNCHANGED <<asm, alive>>
    BY <1>2 DEF HandleFrame, HandlePlain
  <2>2. <<f>> \in Seq(Segment) /\ f \in Range(<<f>>)
    BY DEF Range
  <2>3. Whole(<<f>>)
    BY <1>2, <2>2 DEF Whole
  <2>4. Writes
    BY <2>1, <2>2, <2>3 DEF Writes
  <2>5. Sound(asm)' /\ Begins(asm)'
    BY <2>1 DEF IInv, Sound, Begins, AsmFits, Counting
  <2> QED  BY <2>1, <2>4, <2>5 DEF IInv, TypeOK, FrameStep
<1> QED  BY <1>1, <1>2

LEMMA WritesWhole ==
    ASSUME IInv, Writes
    PROVE  out' \in Seq(Seq(Segment)) /\ CountsDown'
<1>1. out \in Seq(Seq(Segment)) /\ \A j \in DOMAIN out : Whole(out[j])
  BY DEF IInv, TypeOK, CountsDown, Whole
<1>2. out' \in Seq(Seq(Segment)) /\ \A j \in DOMAIN out' : Whole(out'[j])
  <2>1. CASE out' = out
    BY <2>1, <1>1
  <2>2. ASSUME NEW p \in Seq(Segment), Whole(p), out' = Append(out, p)
        PROVE  out' \in Seq(Seq(Segment)) /\ \A j \in DOMAIN out' : Whole(out'[j])
    <3>1. /\ out' \in Seq(Seq(Segment)) /\ DOMAIN out' = 1 .. (Len(out) + 1)
          /\ DOMAIN out = 1 .. Len(out) /\ Len(out) \in Nat
          /\ \A j \in 1 .. Len(out) : out'[j] = out[j]
          /\ out'[Len(out) + 1] = p
      BY <2>2, <1>1
    <3>2. ASSUME NEW j \in DOMAIN out' PROVE Whole(out'[j])
      <4>1. j \in 1 .. Len(out) \/ j = Len(out) + 1
        BY <3>1
      <4>2. CASE j \in 1 .. Len(out)
        BY <4>2, <3>1, <1>1
      <4>3. CASE j = Len(out) + 1
        BY <4>3, <3>1, <2>2
      <4> QED  BY <4>1, <4>2, <4>3
    <3> QED  BY <3>1, <3>2
  <2> QED  BY <2>1, <2>2 DEF Writes
<1> QED  BY <1>2 DEF CountsDown, Whole

---------------------------------------------------------------------------
(***************************************************************************)
(* The steps.                                                               *)
(***************************************************************************)
Fault == {"big", "stray", "lost", "reset"}

LEMMA FaultsGrow ==
    ASSUME faults \in Seq(Fault), NEW x \in Fault, faults' = Append(faults, x)
    PROVE  /\ faults' \in Seq(Fault)
           /\ "big" \in Range(faults) => "big" \in Range(faults')
           /\ x \in Range(faults')
<1>1. /\ faults' \in Seq(Fault) /\ DOMAIN faults' = 1 .. (Len(faults) + 1)
      /\ DOMAIN faults = 1 .. Len(faults) /\ Len(faults) \in Nat
      /\ \A j \in 1 .. Len(faults) : faults'[j] = faults[j]
      /\ faults'[Len(faults) + 1] = x
  BY DEF Fault
<1>2. DOMAIN faults \subseteq DOMAIN faults' /\ Len(faults) + 1 \in DOMAIN faults'
  BY <1>1
<1> QED  BY <1>1, <1>2 DEF Range

LEMMA FramesFit ==
    ASSUME NEW i \in Nat, NEW n \in Lengths
    PROVE  /\ Frames(i, n) \in Seq(Segment)
           /\ \A j \in 1 .. Len(Frames(i, n)) : Frames(i, n)[j].len <= Rx
<1>1. n \in 1 .. 128
  BY SegmentAssumption
<1>2. CASE n = 1
  <2> DEFINE g == [msg |-> i, kind |-> "plain", rem |-> 0, len |-> Rx]
  <2>1. g \in Segment
    BY RxNat DEF Segment
  <2>2. Frames(i, n) = <<g>>
    BY <1>2 DEF Frames
  <2>3. g.len <= Rx
    BY RxNat
  <2> HIDE DEF g
  <2> QED  BY <2>1, <2>2, <2>3
<1>3. CASE n # 1
  <2> DEFINE g(j) == [msg  |-> i,
                      kind |-> IF j = 1 THEN "first" ELSE "next",
                      rem  |-> n - j,
                      len  |-> IF j = n THEN 2 ELSE Rx]
  <2>1. ASSUME NEW j \in 1 .. n PROVE g(j) \in Segment /\ g(j).len <= Rx
    <3>1. n - j \in 0 .. 127
      BY <1>1
    <3> QED  BY <3>1, RxNat DEF Segment
  <2>2. Frames(i, n) = [j \in 1 .. n |-> g(j)]
    BY <1>3 DEF Frames
  <2> HIDE DEF g
  <2>3. Frames(i, n) \in [1 .. n -> Segment]
    BY <2>1, <2>2
  <2>4. n \in Nat
    BY <1>1
  <2>5. Frames(i, n) \in Seq(Segment) /\ Len(Frames(i, n)) = n
    BY <2>3, <2>4, <2>2
  <2> QED  BY <2>1, <2>2, <2>5
<1> QED  BY <1>2, <1>3

LEMMA InitInv == Init => IInv
<1> SUFFICES ASSUME Init PROVE IInv
  OBVIOUS
<1>1. NoAssembler \in Assembler
  BY DEF NoAssembler, Assembler
<1>2. TypeOK
  BY <1>1 DEF Init, TypeOK
<1>3. Sound(asm) /\ Begins(asm)
  <2>1. asm.offset = 0 /\ asm.remaining = 0 /\ asm.room = 0 /\ asm.total = 0
    BY DEF Init, NoAssembler
  <2>2. AsmFits(asm)
    BY <2>1, RxNat DEF AsmFits
  <2> QED  BY <1>1, <2>1, <2>2 DEF Init, Sound, Counting, Begins
<1>4. CountsDown /\ Survives /\ \A i \in 1 .. Len(chan) : chan[i].len <= Rx
  BY DEF Init, CountsDown, Survives
<1> QED  BY <1>2, <1>3, <1>4 DEF IInv

LEMMA PutStep == ASSUME IInv, NEW n \in Lengths, Put(n) PROVE IInv'
<1>1. /\ sent' = Append(sent, n) /\ chan' = chan \o Frames(Len(sent'), n)
      /\ UNCHANGED <<type, asm, alive, cut, out, faults>>
  BY DEF Put
<1>2. sent \in Seq(Lengths) /\ chan \in Seq(Segment)
  BY DEF IInv, TypeOK
<1>3. sent' \in Seq(Lengths) /\ Len(sent') \in Nat
  BY <1>1, <1>2
<1> DEFINE g == Frames(Len(sent'), n)
<1>4. g \in Seq(Segment) /\ \A j \in 1 .. Len(g) : g[j].len <= Rx
  BY <1>3, FramesFit
<1> HIDE DEF g
<1>5. chan' = chan \o g
  BY <1>1 DEF g
<1>6. /\ chan' \in Seq(Segment) /\ Len(chan') = Len(chan) + Len(g)
      /\ \A i \in 1 .. Len(chan) : chan'[i] = chan[i]
      /\ \A i \in Len(chan) + 1 .. Len(chan') : chan'[i] = g[i - Len(chan)]
      /\ Len(chan) \in Nat /\ Len(g) \in Nat
  BY <1>2, <1>4, <1>5
<1>7. ASSUME NEW i \in 1 .. Len(chan') PROVE chan'[i].len <= Rx
  <2>1. CASE i \in 1 .. Len(chan)
    BY <2>1, <1>6 DEF IInv
  <2>2. CASE i \in Len(chan) + 1 .. Len(chan')
    <3>1. i - Len(chan) \in 1 .. Len(g)
      BY <2>2, <1>6
    <3> QED  BY <2>2, <3>1, <1>4, <1>6
  <2> QED  BY <2>1, <2>2, <1>6
<1>8. TypeOK'
  BY <1>1, <1>3, <1>6 DEF IInv, TypeOK
<1>9. (Sound(asm) /\ Begins(asm) /\ CountsDown /\ Survives)'
  BY <1>1 DEF IInv, Sound, Begins, AsmFits, Counting, CountsDown, Survives
<1> QED  BY <1>7, <1>8, <1>9 DEF IInv

LEMMA TailFits ==
    ASSUME chan \in Seq(Segment), \A i \in 1 .. Len(chan) : chan[i].len <= Rx, chan # <<>>
    PROVE  /\ Head(chan) \in Segment /\ Head(chan).len <= Rx
           /\ Tail(chan) \in Seq(Segment)
           /\ \A i \in 1 .. Len(Tail(chan)) : Tail(chan)[i].len <= Rx
<1>1. Len(chan) \in Nat /\ Len(chan) >= 1 /\ Head(chan) = chan[1]
  OBVIOUS
<1>2. Tail(chan) \in Seq(Segment) /\ Len(Tail(chan)) = Len(chan) - 1
  BY <1>1
<1>3. \A i \in 1 .. Len(Tail(chan)) : Tail(chan)[i] = chan[i + 1] /\ i + 1 \in 1 .. Len(chan)
  BY <1>1, <1>2
<1>4. 1 \in 1 .. Len(chan) /\ chan[1] \in Segment
  BY <1>1
<1> QED  BY <1>1, <1>2, <1>3, <1>4

LEMMA ReceiveStep == ASSUME IInv, Receive PROVE IInv'
<1>1. /\ alive /\ chan # <<>> /\ HandleFrame(Head(chan)) /\ chan' = Tail(chan)
      /\ UNCHANGED <<type, sent, cut, faults>>
  BY DEF Receive
<1>2. chan \in Seq(Segment) /\ \A i \in 1 .. Len(chan) : chan[i].len <= Rx
  BY DEF IInv, TypeOK
<1>3. /\ Head(chan) \in Segment /\ Head(chan).len <= Rx /\ chan' \in Seq(Segment)
      /\ \A i \in 1 .. Len(chan') : chan'[i].len <= Rx
  BY <1>1, <1>2, TailFits
<1>4. PICK f \in Segment : f.len <= Rx /\ HandleFrame(f)
  BY <1>1, <1>3
<1>5. FrameStep(f)' /\ Writes
  BY <1>1, <1>4, HandleFrameStep
<1>6. out' \in Seq(Seq(Segment)) /\ CountsDown'
  BY <1>5, WritesWhole
<1>7. (Sound(asm) /\ Begins(asm))' /\ alive' \in BOOLEAN /\ asm' \in Assembler
  BY <1>5 DEF FrameStep, Sound
<1>8. Survives'
  <2> SUFFICES ASSUME type' = "STREAM", ~alive' PROVE FALSE
    BY DEF Survives
  <2>1. f.len > Rx
    BY <1>5 DEF FrameStep
  <2> QED  BY <2>1, <1>4, SegType, RxNat
<1>9. TypeOK'
  BY <1>1, <1>3, <1>6, <1>7 DEF IInv, TypeOK
<1> QED  BY <1>3, <1>6, <1>7, <1>8, <1>9 DEF IInv

LEMMA ReceiveStrayStep == ASSUME IInv, NEW f \in Stray, ReceiveStray(f) PROVE IInv'
<1> DEFINE x == IF f.len > Rx THEN "big" ELSE "stray"
<1>1. /\ alive /\ HandleFrame(f) /\ faults' = Append(faults, x)
      /\ UNCHANGED <<type, chan, sent, cut>>
  BY DEF ReceiveStray
<1>2. f \in Segment
  <2>1. 0 .. 3 \subseteq 0 .. 127 /\ {1, Rx, Rx + 1} \subseteq Nat /\ 0 \in Nat
    BY RxNat
  <2> QED  BY <2>1 DEF Stray, Segment
<1>3. FrameStep(f)' /\ Writes
  BY <1>1, <1>2, HandleFrameStep
<1>4. out' \in Seq(Seq(Segment)) /\ CountsDown'
  BY <1>3, WritesWhole
<1>5. (Sound(asm) /\ Begins(asm))' /\ alive' \in BOOLEAN /\ asm' \in Assembler
  BY <1>3 DEF FrameStep, Sound
<1>6. faults' \in Seq(Fault) /\ x \in Range(faults')
  <2>1. faults \in Seq(Fault) /\ x \in Fault
    BY DEF IInv, TypeOK, Fault
  <2> HIDE DEF x
  <2> QED  BY <1>1, <2>1, FaultsGrow
<1>7. Survives'
  <2> SUFFICES ASSUME type' = "STREAM", ~alive' PROVE "big" \in Range(faults')
    BY DEF Survives
  <2>1. f.len > Rx
    BY <1>3 DEF FrameStep
  <2> QED  BY <2>1, <1>6
<1>8. TypeOK'
  BY <1>1, <1>4, <1>5, <1>6 DEF IInv, TypeOK, Fault
<1>9. (\A i \in 1 .. Len(chan) : chan[i].len <= Rx)'
  BY <1>1 DEF IInv
<1> QED  BY <1>4, <1>5, <1>7, <1>8, <1>9 DEF IInv

LEMMA LoseStep == ASSUME IInv, Lose PROVE IInv'
<1>1. /\ chan # <<>> /\ chan' = Tail(chan) /\ faults' = Append(faults, "lost")
      /\ UNCHANGED <<type, asm, alive, sent, cut, out>>
  BY DEF Lose
<1>2. chan \in Seq(Segment) /\ faults \in Seq(Fault) /\ "lost" \in Fault
  BY DEF IInv, TypeOK, Fault
<1>3. chan' \in Seq(Segment) /\ \A i \in 1 .. Len(chan') : chan'[i].len <= Rx
  BY <1>1, <1>2, TailFits DEF IInv
<1>4. faults' \in Seq(Fault) /\ ("big" \in Range(faults) => "big" \in Range(faults'))
  BY <1>1, <1>2, FaultsGrow
<1>5. TypeOK'
  BY <1>1, <1>3, <1>4 DEF IInv, TypeOK, Fault
<1>6. (Sound(asm) /\ Begins(asm) /\ CountsDown)'
  BY <1>1 DEF IInv, Sound, Begins, AsmFits, Counting, CountsDown
<1>7. Survives'
  BY <1>1, <1>4 DEF IInv, Survives
<1> QED  BY <1>3, <1>5, <1>6, <1>7 DEF IInv

LEMMA ResetStep == ASSUME IInv, Reset PROVE IInv'
<1>1. /\ chan' = <<>> /\ faults' = Append(faults, "reset")
      /\ cut' = cut \cup {chan[i].msg : i \in DOMAIN chan}
      /\ UNCHANGED <<type, asm, alive, sent, out>>
  BY DEF Reset
<1>2. chan \in Seq(Segment) /\ faults \in Seq(Fault) /\ "reset" \in Fault
  BY DEF IInv, TypeOK, Fault
<1>3. cut' \subseteq Nat
  <2>1. \A i \in DOMAIN chan : chan[i] \in Segment
    BY <1>2
  <2>2. \A g \in Segment : g.msg \in Nat
    BY DEF Segment
  <2> QED  BY <1>1, <2>1, <2>2 DEF IInv, TypeOK
<1>4. faults' \in Seq(Fault) /\ ("big" \in Range(faults) => "big" \in Range(faults'))
  BY <1>1, <1>2, FaultsGrow
<1>5. chan' \in Seq(Segment) /\ \A i \in 1 .. Len(chan') : chan'[i].len <= Rx
  BY <1>1
<1>6. TypeOK'
  BY <1>1, <1>3, <1>4, <1>5 DEF IInv, TypeOK, Fault
<1>7. (Sound(asm) /\ Begins(asm) /\ CountsDown)'
  BY <1>1 DEF IInv, Sound, Begins, AsmFits, Counting, CountsDown
<1>8. Survives'
  BY <1>1, <1>4 DEF IInv, Survives
<1> QED  BY <1>5, <1>6, <1>7, <1>8 DEF IInv

LEMMA NextInv == IInv /\ [Next]_vars => IInv'
<1> SUFFICES ASSUME IInv, [Next]_vars PROVE IInv'
  OBVIOUS
<1>1. CASE UNCHANGED vars
  BY <1>1 DEF vars, IInv, TypeOK, Sound, Begins, AsmFits, Counting, CountsDown, Survives
<1>2. ASSUME NEW n \in Lengths, Put(n) PROVE IInv'
  BY <1>2, PutStep
<1>3. CASE Receive
  BY <1>3, ReceiveStep
<1>4. ASSUME NEW f \in Stray, ReceiveStray(f) PROVE IInv'
  BY <1>4, ReceiveStrayStep
<1>5. CASE Lose
  BY <1>5, LoseStep
<1>6. CASE Reset
  BY <1>6, ResetStep
<1> QED  BY <1>1, <1>2, <1>3, <1>4, <1>5, <1>6 DEF Next

---------------------------------------------------------------------------
(***************************************************************************)
(* What is on its way: the rest of one message, then whole ones.           *)
(***************************************************************************)
\* Frame j of message i, which has n
FrameAt(f, i, n, j) ==
    /\ f.msg = i /\ f.rem = n - j
    /\ f.len = (IF n # 1 /\ j = n THEN 2 ELSE Rx)
    /\ f.kind = (IF n = 1 THEN "plain" ELSE IF j = 1 THEN "first" ELSE "next")

MsgFrame(s, f) ==
    /\ f.msg \in 1 .. Len(s) /\ f.rem \in 0 .. (s[f.msg] - 1)
    /\ f = Frames(f.msg, s[f.msg])[s[f.msg] - f.rem]

Before(f, g) == f.msg < g.msg \/ (f.msg = g.msg /\ g.rem < f.rem)

\* What comes behind frame p
Follows(c, p) ==
    IF c[p].rem > 0
    THEN p + 1 <= Len(c) /\ c[p + 1].msg = c[p].msg /\ c[p + 1].rem = c[p].rem - 1
    ELSE p + 1 <= Len(c) => c[p + 1].kind # "next"

InLine(c, s) ==
    /\ c \in Seq(Segment) /\ s \in Seq(Lengths)
    /\ \A p \in 1 .. Len(c) : MsgFrame(s, c[p]) /\ Follows(c, p)
    /\ \A p, q \in 1 .. Len(c) : p < q => Before(c[p], c[q])

\* The next frame goes on with a message.
UnderWay == chan # <<>> /\ chan[1].kind = "next"

\* The assembler has what came before frame f of a message of n.
Intact(a, f, n) ==
    /\ a.total = n /\ a.remaining = f.rem + 1 /\ Len(a.saved) = n - 1 - f.rem
    /\ \A k \in 1 .. Len(a.saved) : a.saved[k] = Frames(f.msg, n)[k]

\* A message will be damaged by a fault that has been: the one under way, or the
\* next one.
Owes == IF UnderWay THEN ~Intact(asm, chan[1], sent[chan[1].msg]) ELSE asm.total # 0

Owed == IF Owes THEN 1 ELSE 0

Credit == type = "STREAM" /\ alive => Cardinality(Damaged) + Owed <= Len(faults)

LEMMA FramesAre ==
    ASSUME NEW i \in Nat, NEW n \in 1 .. 128
    PROVE  /\ Frames(i, n) \in Seq(Segment) /\ Len(Frames(i, n)) = n
           /\ \A j \in 1 .. n : FrameAt(Frames(i, n)[j], i, n, j) /\ Frames(i, n)[j] \in Segment
<1>1. CASE n = 1
  <2> DEFINE g == [msg |-> i, kind |-> "plain", rem |-> 0, len |-> Rx]
  <2>1. g \in Segment /\ FrameAt(g, i, n, 1)
    BY <1>1, RxNat DEF Segment, FrameAt
  <2>2. Frames(i, n) = <<g>>
    BY <1>1 DEF Frames
  <2> HIDE DEF g
  <2>3. <<g>> \in Seq(Segment) /\ Len(<<g>>) = 1 /\ <<g>>[1] = g
    BY <2>1
  <2>4. \A j \in 1 .. n : j = 1
    BY <1>1
  <2> QED  BY <1>1, <2>1, <2>2, <2>3, <2>4
<1>2. CASE n # 1
  <2> DEFINE g(j) == [msg  |-> i,
                      kind |-> IF j = 1 THEN "first" ELSE "next",
                      rem  |-> n - j,
                      len  |-> IF j = n THEN 2 ELSE Rx]
  <2>1. ASSUME NEW j \in 1 .. n PROVE g(j) \in Segment /\ FrameAt(g(j), i, n, j)
    <3>1. n - j \in 0 .. 127
      OBVIOUS
    <3> QED  BY <1>2, <3>1, RxNat DEF Segment, FrameAt
  <2>2. Frames(i, n) = [j \in 1 .. n |-> g(j)]
    BY <1>2 DEF Frames
  <2> HIDE DEF g
  <2>3. Frames(i, n) \in [1 .. n -> Segment]
    BY <2>1, <2>2
  <2>4. Frames(i, n) \in Seq(Segment) /\ Len(Frames(i, n)) = n
    BY <2>3, <2>2
  <2>5. \A j \in 1 .. n : Frames(i, n)[j] = g(j)
    BY <2>2
  <2> QED  BY <2>1, <2>4, <2>5
<1> QED  BY <1>1, <1>2

\* What is said of a frame on its way
Described(s, f, n) ==
    /\ n = s[f.msg] /\ f.msg \in 1 .. Len(s) /\ f.msg \in Nat /\ n \in Lengths /\ n \in 1 .. 128
    /\ f.rem \in 0 .. (n - 1) /\ f = Frames(f.msg, n)[n - f.rem] /\ f \in Segment
    /\ f.len = (IF n # 1 /\ f.rem = 0 THEN 2 ELSE Rx)
    /\ f.kind = (IF n = 1 THEN "plain" ELSE IF f.rem = n - 1 THEN "first" ELSE "next")

LEMMA FrameOf ==
    ASSUME NEW s \in Seq(Lengths), NEW f, MsgFrame(s, f) PROVE Described(s, f, s[f.msg])
<1> DEFINE i == f.msg
           n == s[i]
           j == n - f.rem
<1>1. i \in 1 .. Len(s) /\ f.rem \in 0 .. (n - 1) /\ f = Frames(i, n)[j]
  BY DEF MsgFrame
<1>2. i \in Nat /\ n \in Lengths
  <2>1. Len(s) \in Nat
    OBVIOUS
  <2> QED  BY <1>1, <2>1
<1>3. n \in 1 .. 128
  BY <1>2, SegmentAssumption
<1> HIDE DEF i, n
<1>4. j \in 1 .. n /\ f.rem = n - j
  BY <1>1, <1>3
<1>5. \A k \in 1 .. n : FrameAt(Frames(i, n)[k], i, n, k) /\ Frames(i, n)[k] \in Segment
  BY <1>2, <1>3, FramesAre
<1>6. f \in Segment /\ FrameAt(f, i, n, j)
  <2> HIDE DEF j
  <2> QED  BY <1>1, <1>4, <1>5
<1>8. (j = n <=> f.rem = 0) /\ (j = 1 <=> f.rem = n - 1)
  <2> DEFINE r == f.rem
  <2>1. r \in 0 .. (n - 1) /\ n \in 1 .. 128 /\ j = n - r
    BY <1>1, <1>3
  <2> HIDE DEF r, j
  <2>2. (j = n <=> r = 0) /\ (j = 1 <=> r = n - 1)
    BY <2>1
  <2> QED  BY <2>2 DEF r
<1>7. /\ f.len = (IF n # 1 /\ j = n THEN 2 ELSE Rx)
      /\ f.kind = (IF n = 1 THEN "plain" ELSE IF j = 1 THEN "first" ELSE "next")
  BY <1>6 DEF FrameAt
<1>9. /\ f.len = (IF n # 1 /\ f.rem = 0 THEN 2 ELSE Rx)
      /\ f.kind = (IF n = 1 THEN "plain" ELSE IF f.rem = n - 1 THEN "first" ELSE "next")
  <2> HIDE DEF j
  <2> QED  BY <1>7, <1>8
<1> QED  BY <1>1, <1>2, <1>3, <1>6, <1>9 DEF i, n, Described

LEMMA TailInLine ==
    ASSUME NEW c, NEW s, InLine(c, s), c # <<>> PROVE InLine(Tail(c), s)
<1> DEFINE d == Tail(c)
<1>1. /\ d \in Seq(Segment) /\ Len(d) = Len(c) - 1 /\ Len(c) \in Nat /\ Len(d) \in Nat
      /\ \A p \in 1 .. Len(d) : d[p] = c[p + 1] /\ p + 1 \in 1 .. Len(c)
  <2>1. c \in Seq(Segment)
    BY DEF InLine
  <2> QED  BY <2>1
<1> HIDE DEF d
<1>2. \A p \in 1 .. Len(d) : MsgFrame(s, d[p])
  BY <1>1 DEF InLine
<1>3. ASSUME NEW p \in 1 .. Len(d), NEW q \in 1 .. Len(d), p < q PROVE Before(d[p], d[q])
  <2>1. p + 1 \in 1 .. Len(c) /\ q + 1 \in 1 .. Len(c) /\ p + 1 < q + 1
    BY <1>1, <1>3
  <2> QED  BY <1>1, <2>1 DEF InLine
<1>4. ASSUME NEW p \in 1 .. Len(d) PROVE Follows(d, p)
  <2> DEFINE r == p + 1
  <2>1. r \in 1 .. Len(c) /\ d[p] = c[r]
    BY <1>1
  <2>2. r + 1 <= Len(c) <=> p + 1 <= Len(d)
    BY <1>1
  <2>3. p + 1 <= Len(d) => d[p + 1] = c[r + 1]
    BY <1>1
  <2>4. Follows(c, r)
    BY <2>1 DEF InLine
  <2> HIDE DEF r
  <2> QED  BY <2>1, <2>2, <2>3, <2>4 DEF Follows
<1> QED  BY <1>1, <1>2, <1>3, <1>4 DEF InLine, d

LEMMA PutInLine ==
    ASSUME NEW c, NEW s, InLine(c, s), NEW n \in Lengths
    PROVE  InLine(c \o Frames(Len(s) + 1, n), Append(s, n))
<1> DEFINE i == Len(s) + 1
           g == Frames(i, n)
           d == c \o g
           t == Append(s, n)
           l == Len(c)
<1>0. n \in 1 .. 128
  BY SegmentAssumption
<1>1. /\ t \in Seq(Lengths) /\ Len(t) = i /\ i \in Nat /\ t[i] = n /\ i \in 1 .. Len(t)
      /\ \A k \in 1 .. Len(s) : t[k] = s[k] /\ k \in 1 .. Len(t) /\ k < i
  BY DEF InLine
<1> HIDE DEF t, i
<1>2. g \in Seq(Segment) /\ Len(g) = n /\ \A j \in 1 .. n : FrameAt(g[j], i, n, j)
  BY <1>0, <1>1, FramesAre
<1>3. /\ d \in Seq(Segment) /\ Len(d) = l + n /\ l \in Nat
      /\ \A p \in 1 .. l : d[p] = c[p]
      /\ \A j \in 1 .. n : d[l + j] = g[j]
  <2>1. c \in Seq(Segment)
    BY DEF InLine
  <2> HIDE DEF g
  <2> QED  BY <1>0, <1>2, <2>1
<1>9. Len(c) = l
  OBVIOUS
<1> HIDE DEF d, g, l
<1>10. l \in Nat /\ n \in Nat /\ n >= 1
  BY <1>0, <1>3
<1>4. ASSUME NEW p \in 1 .. Len(d)
      PROVE  p \in 1 .. l \/ \E j \in 1 .. n : p = l + j
  <2>1. p \in 1 .. (l + n)
    BY <1>3
  <2>2. p \in 1 .. l \/ (p - l \in 1 .. n /\ p = l + (p - l))
    BY <1>10, <2>1
  <2> QED  BY <2>2
<1>5. ASSUME NEW p \in 1 .. l
      PROVE  /\ MsgFrame(t, d[p]) /\ Follows(d, p) /\ d[p].msg \in 1 .. Len(s)
  <2>1. MsgFrame(s, c[p]) /\ Follows(c, p) /\ d[p] = c[p]
    BY <1>3, <1>9 DEF InLine
  <2>2. MsgFrame(t, c[p]) /\ c[p].msg \in 1 .. Len(s)
    BY <1>1, <2>1 DEF MsgFrame
  <2>3. CASE p + 1 <= l
    <3>1. p + 1 \in 1 .. l /\ p + 1 <= l + n
      BY <1>10, <2>3
    <3>3. d[p + 1] = c[p + 1] /\ p + 1 <= Len(d) /\ p + 1 <= Len(c)
      BY <1>3, <1>9, <3>1, <2>3
    <3> QED  BY <2>1, <2>2, <3>3 DEF Follows
  <2>4. CASE p = l
    <3>1. ~(c[p].rem > 0)
      <4>1. ~(p + 1 <= Len(c))
        BY <1>9, <1>10, <2>4
      <4> QED  BY <2>1, <4>1 DEF Follows
    <3>2. d[p + 1] = g[1] /\ FrameAt(g[1], i, n, 1)
      <4>1. 1 \in 1 .. n
        BY <1>10
      <4>2. d[l + 1] = g[1]
        BY <1>3, <4>1
      <4> QED  BY <1>2, <2>4, <4>1, <4>2
    <3>3. g[1].kind # "next"
      BY <3>2 DEF FrameAt
    <3> QED  BY <2>1, <2>2, <3>1, <3>2, <3>3 DEF Follows
  <2>5. p + 1 <= l \/ p = l
    BY <1>10
  <2> QED  BY <2>3, <2>4, <2>5
<1>6. ASSUME NEW j \in 1 .. n
      PROVE  /\ MsgFrame(t, d[l + j]) /\ Follows(d, l + j) /\ d[l + j].msg = i
             /\ d[l + j].rem = n - j
  <2>1. d[l + j] = g[j] /\ g[j].msg = i /\ g[j].rem = n - j
    BY <1>2, <1>3 DEF FrameAt
  <2>2. n - j \in 0 .. (n - 1) /\ n - (n - j) = j
    BY <1>0
  <2>3. MsgFrame(t, g[j])
    <3>1. t[g[j].msg] = n /\ g[j].msg \in 1 .. Len(t) /\ g[j].rem \in 0 .. (n - 1)
      BY <1>1, <2>1, <2>2
    <3>2. g[j] = Frames(i, n)[n - g[j].rem]
      BY <2>1, <2>2 DEF g
    <3> QED  BY <2>1, <3>1, <3>2 DEF MsgFrame
  <2>4. CASE j + 1 <= n
    <3>1. j + 1 \in 1 .. n /\ l + (j + 1) = (l + j) + 1 /\ n - (j + 1) = (n - j) - 1
          /\ (l + j) + 1 <= l + n /\ n - j > 0
      BY <1>10, <2>4
    <3>3. (l + j) + 1 <= Len(d)
      BY <1>3, <3>1
    <3>2. d[(l + j) + 1] = g[j + 1] /\ g[j + 1].msg = i /\ g[j + 1].rem = (n - j) - 1
      BY <1>2, <1>3, <3>1 DEF FrameAt
    <3> QED  BY <2>1, <2>3, <3>1, <3>2, <3>3 DEF Follows
  <2>5. CASE j = n
    <3>1. ~(n - j > 0) /\ ~((l + j) + 1 <= Len(d))
      <4>1. ~(n - j > 0) /\ ~((l + j) + 1 <= l + n)
        BY <1>10, <2>5
      <4> QED  BY <1>3, <4>1
    <3> QED  BY <2>1, <2>3, <3>1 DEF Follows
  <2> QED  BY <1>0, <2>4, <2>5
<1>7. ASSUME NEW p \in 1 .. Len(d), NEW q \in 1 .. Len(d), p < q PROVE Before(d[p], d[q])
  <2>1. CASE p \in 1 .. l /\ q \in 1 .. l
    BY <1>3, <1>7, <1>9, <2>1 DEF InLine
  <2>2. ASSUME p \in 1 .. l, NEW j \in 1 .. n, q = l + j PROVE Before(d[p], d[q])
    <3>1. d[p].msg < i /\ d[q].msg = i
      BY <1>1, <1>5, <1>6, <2>2
    <3> QED  BY <3>1 DEF Before
  <2>3. ASSUME NEW j \in 1 .. n, NEW k \in 1 .. n, p = l + j, q = l + k PROVE Before(d[p], d[q])
    <3>1. d[p].msg = i /\ d[q].msg = i /\ d[p].rem = n - j /\ d[q].rem = n - k
      BY <1>6, <2>3
    <3>2. n - k < n - j
      BY <1>10, <1>7, <2>3
    <3> QED  BY <3>1, <3>2 DEF Before
  <2>4. ASSUME NEW j \in 1 .. n, p = l + j, q \in 1 .. l PROVE FALSE
    BY <1>10, <1>7, <2>4
  <2> QED  BY <1>4, <2>1, <2>2, <2>3, <2>4
<1>8. \A p \in 1 .. Len(d) : MsgFrame(t, d[p]) /\ Follows(d, p)
  BY <1>4, <1>5, <1>6
<1> QED  BY <1>1, <1>3, <1>7, <1>8 DEF InLine, d, t, i, g

\* The first frame on its way
LEMMA HeadOf ==
    ASSUME NEW c, NEW s, InLine(c, s), c # <<>>
    PROVE  /\ c[1] = Head(c) /\ Described(s, c[1], s[c[1].msg])
           /\ \A p \in 1 .. Len(Tail(c)) :
                 c[1].rem = 0 => Tail(c)[p].msg # c[1].msg
           /\ \A p \in 1 .. Len(c) : c[p].msg = c[1].msg \/ \E q \in 1 .. Len(Tail(c)) : Tail(c)[q].msg = c[p].msg
           /\ c[1].rem > 0 => /\ Tail(c) # <<>> /\ Tail(c)[1].msg = c[1].msg
                              /\ Tail(c)[1].rem = c[1].rem - 1
           /\ c[1].rem = 0 => (Tail(c) # <<>> => Tail(c)[1].kind # "next")
<1> DEFINE d == Tail(c)
           f == c[1]
<1>1. /\ d \in Seq(Segment) /\ Len(d) = Len(c) - 1 /\ Len(c) \in Nat /\ Len(d) \in Nat
      /\ \A p \in 1 .. Len(d) : d[p] = c[p + 1] /\ p + 1 \in 1 .. Len(c) /\ 1 < p + 1
      /\ c[1] = Head(c) /\ 1 \in 1 .. Len(c) /\ (d # <<>> <=> Len(c) > 1)
      /\ (2 <= Len(c) => d[1] = c[2] /\ d # <<>>)
  <2>1. c \in Seq(Segment)
    BY DEF InLine
  <2> QED  BY <2>1
<1>2. Described(s, f, s[f.msg])
  <2>1. MsgFrame(s, f) /\ s \in Seq(Lengths)
    BY <1>1 DEF InLine
  <2> QED  BY <2>1, FrameOf
<1> HIDE DEF d
<1>3. ASSUME NEW p \in 1 .. Len(d), f.rem = 0 PROVE d[p].msg # f.msg
  <2>1. Before(f, c[p + 1]) /\ d[p] = c[p + 1] /\ MsgFrame(s, c[p + 1])
    BY <1>1 DEF InLine
  <2>2. c[p + 1].rem \in Nat /\ c[p + 1].msg \in Nat /\ f.msg \in Nat
    <3>1. Described(s, c[p + 1], s[c[p + 1].msg])
      BY <2>1, FrameOf DEF InLine
    <3> QED  BY <1>2, <3>1 DEF Described
  <2> QED  BY <1>3, <2>1, <2>2 DEF Before
<1>4. ASSUME NEW p \in 1 .. Len(c), p # 1 PROVE \E q \in 1 .. Len(d) : d[q].msg = c[p].msg
  <2>1. p - 1 \in 1 .. Len(d) /\ (p - 1) + 1 = p
    BY <1>1, <1>4
  <2>2. d[p - 1] = c[p]
    BY <1>1, <2>1
  <2> QED  BY <2>1, <2>2
<1>5. Follows(c, 1) /\ 1 + 1 = 2
  BY <1>1 DEF InLine
<1>6. f.rem > 0 => d # <<>> /\ d[1].msg = f.msg /\ d[1].rem = f.rem - 1
  BY <1>1, <1>5 DEF Follows
<1>7. f.rem = 0 => (d # <<>> => d[1].kind # "next")
  <2> SUFFICES ASSUME f.rem = 0, d # <<>> PROVE d[1].kind # "next"
    OBVIOUS
  <2>1. 2 <= Len(c) /\ d[1] = c[2] /\ ~(f.rem > 0)
    BY <1>1
  <2> QED  BY <1>5, <2>1 DEF Follows
<1> QED  BY <1>1, <1>2, <1>3, <1>4, <1>6, <1>7 DEF d

LEMMA InLineInit == Init => InLine(chan, sent)
<1> SUFFICES ASSUME Init PROVE InLine(chan, sent)
  OBVIOUS
<1>1. chan = <<>> /\ sent = <<>> /\ chan \in Seq(Segment) /\ sent \in Seq(Lengths)
  BY DEF Init
<1> QED  BY <1>1 DEF InLine

LEMMA InLineNext == IInv /\ InLine(chan, sent) /\ [Next]_vars => InLine(chan', sent')
<1> SUFFICES ASSUME IInv, InLine(chan, sent), [Next]_vars PROVE InLine(chan', sent')
  OBVIOUS
<1>1. ASSUME UNCHANGED <<chan, sent>> PROVE InLine(chan', sent')
  BY <1>1
<1>2. ASSUME chan # <<>>, chan' = Tail(chan), sent' = sent PROVE InLine(chan', sent')
  BY <1>2, TailInLine
<1>3. ASSUME NEW n \in Lengths, Put(n) PROVE InLine(chan', sent')
  <2>1. sent' = Append(sent, n) /\ chan' = chan \o Frames(Len(sent'), n)
    BY <1>3 DEF Put
  <2>2. Len(sent') = Len(sent) + 1
    BY <2>1 DEF InLine
  <2> QED  BY <2>1, <2>2, PutInLine
<1>4. CASE Reset
  <2>1. chan' = <<>> /\ sent' = sent /\ chan' \in Seq(Segment) /\ Len(chan') = 0
    BY <1>4 DEF Reset
  <2> QED  BY <2>1 DEF InLine
<1>5. CASE Receive \/ Lose
  BY <1>2, <1>5 DEF Receive, Lose
<1>6. CASE UNCHANGED vars \/ \E f \in Stray : ReceiveStray(f)
  BY <1>1, <1>6 DEF ReceiveStray, vars
<1> QED  BY <1>3, <1>4, <1>5, <1>6 DEF Next

---------------------------------------------------------------------------
(***************************************************************************)
(* The messages that are damaged.                                           *)
(***************************************************************************)
LEMMA Counted ==
    ASSUME NEW A, NEW B, NEW x, IsFiniteSet(B), A \subseteq B \cup {x}
    PROVE  /\ Cardinality(A) \in Nat /\ Cardinality(B) \in Nat
           /\ Cardinality(A) <= Cardinality(B) + 1
           /\ A \subseteq B => Cardinality(A) <= Cardinality(B)
<1>1. Cardinality(B) \in Nat
  BY FS_CardinalityType
<1>2. /\ IsFiniteSet(B \cup {x})
      /\ Cardinality(B \cup {x}) = IF x \in B THEN Cardinality(B) ELSE Cardinality(B) + 1
  BY FS_AddElement
<1>3. IsFiniteSet(A) /\ Cardinality(A) <= Cardinality(B \cup {x})
  BY <1>2, FS_Subset
<1>4. Cardinality(A) \in Nat
  BY <1>3, FS_CardinalityType
<1>5. A \subseteq B => Cardinality(A) <= Cardinality(B)
  BY FS_Subset
<1> QED  BY <1>1, <1>2, <1>3, <1>4, <1>5

LEMMA DamagedFinite == ASSUME InLine(chan, sent) PROVE IsFiniteSet(Damaged)
<1>1. Len(sent) \in Nat /\ DOMAIN sent = 1 .. Len(sent)
  BY DEF InLine
<1>2. IsFiniteSet(1 .. Len(sent))
  BY <1>1, FS_Interval
<1>3. Damaged \subseteq 1 .. Len(sent)
  BY <1>1 DEF Damaged
<1> QED  BY <1>2, <1>3, FS_Subset

\* What is written stays written.
LEMMA WrittenStays ==
    ASSUME IInv, Writes, NEW i, NEW n
    PROVE  (\E j \in DOMAIN out : out[j] = Frames(i, n)) => \E j \in DOMAIN out' : out'[j] = Frames(i, n)
<1>1. out \in Seq(Seq(Segment))
  BY DEF IInv, TypeOK
<1>2. ASSUME NEW p \in Seq(Segment), out' = Append(out, p), NEW j \in DOMAIN out
      PROVE  j \in DOMAIN out' /\ out'[j] = out[j]
  BY <1>1, <1>2
<1> QED  BY <1>2 DEF Writes

\* A step that leaves the messages alone: only those of E come through.
LEMMA DamagedStep ==
    ASSUME IInv, Writes, sent' = sent, NEW E,
           \A i : Through(i)' => Through(i) \/ i \in E \/ \E j \in DOMAIN out' : out'[j] = Frames(i, sent[i])
    PROVE  Damaged' \subseteq Damaged \cup E
<1> SUFFICES ASSUME NEW i \in Damaged', i \notin E PROVE i \in Damaged
  OBVIOUS
<1>1. i \in DOMAIN sent /\ Through(i)' /\ ~\E j \in DOMAIN out' : out'[j] = Frames(i, sent[i])
  BY DEF Damaged, Written
<1>2. Through(i)
  BY <1>1
<1>3. ~\E j \in DOMAIN out : out[j] = Frames(i, sent[i])
  BY <1>1, WrittenStays
<1> QED  BY <1>1, <1>2, <1>3 DEF Damaged, Written

LEMMA OwedIs == Owed \in {0, 1} /\ (Owed = 1 <=> Owes)
BY DEF Owed

\* The account of a step that is no fault
LEMMA CreditKept ==
    ASSUME Credit, InLine(chan, sent), type' = type, faults' = faults,
           faults \in Seq(Fault), alive' => alive, NEW x, Damaged' \subseteq Damaged \cup {x},
           type = "STREAM" /\ alive' =>
               \/ Damaged' \subseteq Damaged /\ (Owes' => Owes)
               \/ Owes /\ ~Owes'
    PROVE  Credit'
<1> DEFINE o  == Owed
           o1 == Owed'
           k  == Cardinality(Damaged)
           k1 == Cardinality(Damaged')
<1> SUFFICES ASSUME type = "STREAM", alive' PROVE k1 + o1 <= Len(faults)
  BY DEF Credit
<1>1. k + o <= Len(faults)
  BY DEF Credit
<1>2. /\ k \in Nat /\ k1 \in Nat /\ k1 <= k + 1
      /\ (Damaged' \subseteq Damaged => k1 <= k)
  BY DamagedFinite, Counted
<1>3. Len(faults) \in Nat
  OBVIOUS
<1>4. o \in {0, 1} /\ o1 \in {0, 1} /\ (o = 1 <=> Owes) /\ (o1 = 1 <=> Owes')
  BY DEF Owed
<1> HIDE DEF o, o1, k, k1
<1>5. \/ k1 <= k /\ (o1 = 1 => o = 1)
      \/ o = 1 /\ o1 = 0
  BY <1>2, <1>4
<1> QED  BY <1>1, <1>2, <1>3, <1>4, <1>5

\* That of a fault
LEMMA CreditFault ==
    ASSUME Credit, InLine(chan, sent), type' = type, faults \in Seq(Fault),
           NEW y \in Fault, faults' = Append(faults, y),
           alive' => alive, Damaged' \subseteq Damaged
    PROVE  Credit'
<1> DEFINE o  == Owed
           o1 == Owed'
           k  == Cardinality(Damaged)
           k1 == Cardinality(Damaged')
           m  == Len(faults)
           m1 == Len(faults')
<1> SUFFICES ASSUME type = "STREAM", alive' PROVE k1 + o1 <= m1
  BY DEF Credit
<1>1. k + o <= m
  BY DEF Credit
<1>2. k \in Nat /\ k1 \in Nat /\ k1 <= k
  BY DamagedFinite, Counted
<1>3. m \in Nat /\ m1 = m + 1
  OBVIOUS
<1>4. o \in {0, 1} /\ o1 \in {0, 1}
  BY DEF Owed
<1> HIDE DEF o, o1, k, k1, m, m1
<1> QED  BY <1>1, <1>2, <1>3, <1>4

LEMMA CreditInit == Init => Credit
<1> SUFFICES ASSUME Init PROVE Cardinality(Damaged) + Owed <= Len(faults)
  BY DEF Credit
<1>1. DOMAIN sent = {} /\ Len(faults) = 0 /\ chan = <<>> /\ asm.total = 0
  BY DEF Init, NoAssembler
<1>2. Damaged = {}
  BY <1>1 DEF Damaged
<1>3. Cardinality(Damaged) = 0
  BY <1>2, FS_EmptySet
<1>4. Owed = 0
  BY <1>1 DEF Owed, Owes, UnderWay
<1> QED  BY <1>1, <1>3, <1>4

LEMMA CreditPut ==
    ASSUME IInv, InLine(chan, sent), Credit, NEW n \in Lengths, Put(n) PROVE Credit'
<1> DEFINE i == Len(sent) + 1
           g == Frames(i, n)
           l == Len(chan)
<1>1. sent' = Append(sent, n) /\ UNCHANGED <<type, asm, alive, cut, out, faults>>
  BY DEF Put
<1>2. sent \in Seq(Lengths) /\ chan \in Seq(Segment) /\ n \in 1 .. 128
  BY SegmentAssumption DEF InLine
<1>3. /\ Len(sent') = i /\ i \in Nat
      /\ \A k \in 1 .. Len(sent) : sent'[k] = sent[k] /\ k # i
      /\ DOMAIN sent = 1 .. Len(sent) /\ DOMAIN sent' = 1 .. i /\ Len(sent) \in Nat
      /\ \A k \in 1 .. i : k = i \/ k \in 1 .. Len(sent)
  BY <1>1, <1>2
<1>4. g \in Seq(Segment) /\ Len(g) = n /\ g[1].msg = i /\ g[1].kind # "next"
  <2>1. FrameAt(g[1], i, n, 1) /\ g \in Seq(Segment) /\ Len(g) = n
    <3>1. 1 \in 1 .. n
      BY <1>2
    <3> QED  BY <1>2, <1>3, <3>1, FramesAre
  <2> QED  BY <2>1 DEF FrameAt
<1>5. chan' = chan \o g
  BY <1>3 DEF Put
<1> HIDE DEF g
<1>6. /\ DOMAIN chan' = 1 .. (l + n) /\ DOMAIN chan = 1 .. l /\ l \in Nat
      /\ \A j \in 1 .. l : chan'[j] = chan[j]
      /\ chan'[l + 1] = g[1] /\ chan' # <<>> /\ (chan = <<>> <=> l = 0)
  <2>1. 1 \in 1 .. n
    BY <1>2
  <2>2. 1 \in 1 .. Len(g)
    BY <1>4, <2>1
  <2> QED  BY <1>2, <1>4, <1>5, <2>2
<1> HIDE DEF i, l
<1>7. 1 .. l \subseteq 1 .. (l + n) /\ l + 1 \in 1 .. (l + n)
  BY <1>2, <1>6
<1>8. Damaged' \subseteq Damaged
  <2> SUFFICES ASSUME NEW k \in Damaged' PROVE k \in Damaged
    OBVIOUS
  <2>1. /\ k \in DOMAIN sent' /\ k \notin cut /\ \A j \in DOMAIN chan' : chan'[j].msg # k
        /\ \A j \in DOMAIN out : out[j] # Frames(k, sent'[k])
    BY <1>1 DEF Damaged, Through, Written
  <2>2. k # i
    BY <1>4, <1>6, <1>7, <2>1
  <2>3. k \in DOMAIN sent /\ sent'[k] = sent[k]
    BY <1>3, <2>1, <2>2
  <2>4. \A j \in DOMAIN chan : chan[j].msg # k
    BY <1>6, <1>7, <2>1
  <2> QED  BY <2>1, <2>3, <2>4 DEF Damaged, Through, Written
<1>9. Owes' => Owes
  <2>1. CASE l = 0
    <3>1. ~UnderWay /\ ~UnderWay'
      BY <1>4, <1>6, <2>1 DEF UnderWay
    <3> QED  BY <1>1, <3>1 DEF Owes
  <2>2. CASE l # 0
    <3>1. 1 \in 1 .. l /\ chan # <<>>
      BY <1>6, <2>2
    <3>2. chan'[1] = chan[1]
      BY <1>6, <3>1
    <3>3. sent'[chan[1].msg] = sent[chan[1].msg]
      <4>1. MsgFrame(sent, chan[1])
        BY <1>6, <3>1 DEF InLine
      <4> QED  BY <1>3, <4>1 DEF MsgFrame
    <3>4. UnderWay' <=> UnderWay
      BY <1>6, <3>1, <3>2 DEF UnderWay
    <3> QED  BY <1>1, <3>2, <3>3, <3>4 DEF Owes, Intact
  <2> QED  BY <2>1, <2>2
<1> QED  BY <1>1, <1>8, <1>9, CreditKept DEF IInv, TypeOK, Fault

LEMMA CreditStray ==
    ASSUME IInv, InLine(chan, sent), Credit, NEW f \in Stray, ReceiveStray(f) PROVE Credit'
<1>1. /\ alive /\ HandleFrame(f) /\ UNCHANGED <<type, chan, sent, cut>>
      /\ faults' = Append(faults, IF f.len > Rx THEN "big" ELSE "stray")
  BY DEF ReceiveStray
<1>2. f \in Segment
  <2>1. 0 .. 3 \subseteq 0 .. 127 /\ {1, Rx, Rx + 1} \subseteq Nat /\ 0 \in Nat
    BY RxNat
  <2> QED  BY <2>1 DEF Stray, Segment
<1>3. Writes
  BY <1>1, <1>2, HandleFrameStep
<1>4. \A i : Through(i)' => Through(i)
  BY <1>1 DEF Through
<1>5. Damaged' \subseteq Damaged \cup {}
  BY <1>1, <1>3, <1>4, DamagedStep
<1>6. PICK y \in Fault : faults' = Append(faults, y)
  BY <1>1 DEF Fault
<1>7. faults \in Seq(Fault)
  BY DEF IInv, TypeOK, Fault
<1> QED  BY <1>1, <1>5, <1>6, <1>7, CreditFault

LEMMA CreditReset ==
    ASSUME IInv, InLine(chan, sent), Credit, Reset PROVE Credit'
<1>1. /\ cut' = cut \cup {chan[i].msg : i \in DOMAIN chan}
      /\ faults' = Append(faults, "reset") /\ UNCHANGED <<type, asm, alive, sent, out>>
  BY DEF Reset
<1>2. \A i : Through(i)' => Through(i)
  BY <1>1 DEF Through
<1>3. Damaged' \subseteq Damaged \cup {}
  BY <1>1, <1>2, DamagedStep DEF Writes
<1>4. "reset" \in Fault /\ faults \in Seq(Fault)
  BY DEF IInv, TypeOK, Fault
<1> QED  BY <1>1, <1>3, <1>4, CreditFault

LEMMA CreditLose == ASSUME Lose PROVE Credit'
BY DEF Lose, Credit

---------------------------------------------------------------------------
(***************************************************************************)
(* A frame of a message is received.                                        *)
(***************************************************************************)
Taken(f) ==
    IF AssemblerPending(Begun(f), f.rem)
    THEN /\ asm' = (IF f.rem = 0 THEN AssemblerStop(AssemblerSave(Begun(f), f))
                                 ELSE AssemblerSave(Begun(f), f))
         /\ out' = (IF f.rem = 0 THEN Append(out, AssemblerSave(Begun(f), f).saved) ELSE out)
    ELSE asm' = AssemblerStop(Begun(f)) /\ out' = out

\* A segment that is not refused, of which the daemon does not end
LEMMA SegmentTaken ==
    ASSUME NEW f, f.kind # "plain", HandleFrame(f), ~Refused(f), alive' PROVE Taken(f)
<1>1. HandleSegment(f)
  BY DEF HandleFrame
<1> QED  BY <1>1 DEF HandleSegment, Taken

LEMMA NotRefused ==
    ASSUME NEW s, NEW f, NEW n, Described(s, f, n), type = "STREAM" PROVE ~Refused(f)
<1>1. /\ n \in 1 .. 128 /\ f.rem \in 0 .. (n - 1) /\ f.rem \in Nat
      /\ f.len = (IF n # 1 /\ f.rem = 0 THEN 2 ELSE Rx)
      /\ f.kind = (IF n = 1 THEN "plain" ELSE IF f.rem = n - 1 THEN "first" ELSE "next")
  BY DEF Described
<1>2. f.len >= 2 /\ f.len <= Rx /\ (f.rem # 0 \/ n = 1 => f.len = Rx)
  BY <1>1, RxNat
<1>3. ~(f.kind = "first" /\ f.rem = 0)
  BY <1>1
<1>4. f.len \in Nat
  BY <1>1, RxNat
<1> DEFINE l == f.len
           r == f.rem
<1>5. ~(l < 2) /\ ~(l > Rx) /\ (r > 0 => l = Rx)
  BY <1>1, <1>2, <1>4, RxNat
<1> HIDE DEF l, r
<1> QED  BY <1>3, <1>5 DEF l, r, Refused, MaxlenRx

OneMore(a, f, b) ==
    /\ b.total = a.total /\ b.remaining = a.remaining - 1 /\ b.saved \in Seq(Segment)
    /\ Len(b.saved) = Len(a.saved) + 1 /\ Len(a.saved) \in Nat
    /\ b.saved[Len(a.saved) + 1] = f
    /\ \A k \in 1 .. Len(a.saved) : b.saved[k] = a.saved[k]

LEMMA SavedOne ==
    ASSUME NEW a \in Assembler, NEW f \in Segment PROVE OneMore(a, f, AssemblerSave(a, f))
<1> DEFINE p == Append(a.saved, f)
           b == AssemblerSave(a, f)
<1>1. a.saved \in Seq(Segment)
  BY DEF Assembler
<1>2. a = [x \in {"total", "remaining", "offset", "room", "saved"} |-> a[x]]
  BY DEF Assembler
<1>3. b.total = a.total /\ b.remaining = a.remaining - 1 /\ b.saved = p
  BY <1>2 DEF AssemblerSave
<1>4. /\ Len(p) = Len(a.saved) + 1 /\ Len(a.saved) \in Nat /\ p \in Seq(Segment)
      /\ p[Len(a.saved) + 1] = f /\ \A k \in 1 .. Len(a.saved) : p[k] = a.saved[k]
  BY <1>1
<1> HIDE DEF p, b
<1> QED  BY <1>3, <1>4 DEF b, OneMore

LEMMA Stopped ==
    ASSUME NEW a \in Assembler PROVE AssemblerStop(a).total = 0
BY DEF Assembler, AssemblerStop

\* The assembler has frame f, too.
IntactWith(b, f, n) ==
    /\ b.total = n /\ b.remaining = f.rem /\ Len(b.saved) = n - f.rem
    /\ \A k \in 1 .. Len(b.saved) : b.saved[k] = Frames(f.msg, n)[k]

\* One more segment of a message that is intact
LEMMA IntactSave ==
    ASSUME NEW s, NEW a \in Assembler, NEW f, NEW n, Described(s, f, n), Intact(a, f, n)
    PROVE  /\ a.total # 0 /\ AssemblerPending(a, f.rem)
           /\ IntactWith(AssemblerSave(a, f), f, n)
<1> DEFINE b == AssemblerSave(a, f)
           m == Len(a.saved)
           r == f.rem
<1>1. n \in 1 .. 128 /\ r \in 0 .. (n - 1) /\ f = Frames(f.msg, n)[n - r] /\ f \in Segment
  BY DEF Described
<1>2. /\ a.total = n /\ a.remaining = r + 1 /\ m = n - 1 - r
      /\ \A k \in 1 .. m : a.saved[k] = Frames(f.msg, n)[k]
  BY DEF Intact
<1>3. /\ b.total = n /\ b.remaining = a.remaining - 1 /\ b.saved \in Seq(Segment)
      /\ Len(b.saved) = m + 1 /\ m \in Nat /\ b.saved[m + 1] = f
      /\ \A k \in 1 .. m : b.saved[k] = a.saved[k]
  <2>1. OneMore(a, f, b)
    BY <1>1, SavedOne
  <2> HIDE DEF b
  <2> QED  BY <1>2, <2>1 DEF OneMore
<1>4. a.total # 0 /\ AssemblerPending(a, r)
  BY <1>1, <1>2 DEF AssemblerPending
<1> HIDE DEF b, m, r
<1>5. m + 1 = n - r /\ (r + 1) - 1 = r
  BY <1>1, <1>2
<1>6. ASSUME NEW k \in 1 .. (m + 1) PROVE b.saved[k] = Frames(f.msg, n)[k]
  <2>1. k \in 1 .. m \/ k = m + 1
    BY <1>3
  <2> QED  BY <1>1, <1>2, <1>3, <1>5, <2>1
<1> QED  BY <1>2, <1>3, <1>4, <1>5, <1>6 DEF b, r, IntactWith

\* What a received frame changes on the line, and which messages come through
LEMMA HeadGone ==
    ASSUME IInv, InLine(chan, sent), Receive,
           NEW f, f = chan[1], NEW n, n = sent[f.msg]
    PROVE  /\ alive /\ HandleFrame(f) /\ Described(sent, f, n)
           /\ UNCHANGED <<type, sent, cut, faults>>
           /\ UnderWay <=> f.kind = "next"
           /\ Damaged' \subseteq Damaged \cup {f.msg}
           /\ f.rem > 0 => Damaged' \subseteq Damaged
           /\ (\E j \in DOMAIN out' : out'[j] = Frames(f.msg, n)) => Damaged' \subseteq Damaged
           /\ f.rem = 0 => ~UnderWay'
           /\ f.rem > 0 => /\ UnderWay'
                           /\ chan'[1].msg = f.msg /\ chan'[1].rem = f.rem - 1
<1> DEFINE i == f.msg
           d == Tail(chan)
<1>1. /\ alive /\ chan # <<>> /\ HandleFrame(Head(chan)) /\ chan' = d
      /\ UNCHANGED <<type, sent, cut, faults>>
  BY DEF Receive
<1>2. /\ f = Head(chan) /\ Described(sent, f, n)
      /\ \A p \in 1 .. Len(chan) : chan[p].msg = i \/ \E q \in 1 .. Len(d) : d[q].msg = chan[p].msg
      /\ f.rem > 0 => d # <<>> /\ d[1].msg = i /\ d[1].rem = f.rem - 1
      /\ f.rem = 0 => (d # <<>> => d[1].kind # "next")
  BY <1>1, HeadOf
<1>3. Writes
  BY <1>1, <1>2, HandleFrameStep DEF Described
<1>4. InLine(d, sent)
  BY <1>1, TailInLine
<1> HIDE DEF d
<1>5. /\ DOMAIN chan = 1 .. Len(chan) /\ DOMAIN d = 1 .. Len(d)
      /\ d # <<>> => 1 \in 1 .. Len(d)
  <2>1. chan \in Seq(Segment) /\ d \in Seq(Segment)
    BY <1>4 DEF InLine
  <2> QED  BY <2>1
<1>6. \A k : Through(k)' => Through(k) \/ k = i
  <2> SUFFICES ASSUME NEW k, Through(k)', k # i PROVE Through(k)
    OBVIOUS
  <2>1. k \notin cut /\ \A q \in 1 .. Len(d) : d[q].msg # k
    BY <1>1, <1>5 DEF Through
  <2>2. \A p \in 1 .. Len(chan) : chan[p].msg # k
    BY <1>2, <2>1
  <2> QED  BY <1>5, <2>1, <2>2 DEF Through
<1>7. ASSUME f.rem > 0 PROVE ~Through(i)'
  BY <1>1, <1>2, <1>5, <1>7 DEF Through
<1>8. Damaged' \subseteq Damaged \cup {i}
  <2>1. \A k : Through(k)' => Through(k) \/ k \in {i}
    BY <1>6
  <2> QED  BY <1>1, <1>3, <2>1, DamagedStep
<1>9. ASSUME f.rem > 0 PROVE Damaged' \subseteq Damaged
  <2>1. \A k : Through(k)' => Through(k)
    BY <1>6, <1>7, <1>9
  <2>2. Damaged' \subseteq Damaged \cup {}
    BY <1>1, <1>3, <2>1, DamagedStep
  <2> QED  BY <2>2
<1>10. ASSUME \E j \in DOMAIN out' : out'[j] = Frames(i, n) PROVE Damaged' \subseteq Damaged
  <2>1. \A k : Through(k)' => Through(k) \/ \E j \in DOMAIN out' : out'[j] = Frames(k, sent[k])
    BY <1>6, <1>10
  <2>2. Damaged' \subseteq Damaged \cup {}
    BY <1>1, <1>3, <2>1, DamagedStep
  <2> QED  BY <2>2
<1>11. f.rem = 0 => ~UnderWay'
  BY <1>1, <1>2 DEF UnderWay
<1>12. ASSUME f.rem > 0 PROVE UnderWay' /\ chan'[1].msg = i /\ chan'[1].rem = f.rem - 1
  <2>1. d # <<>> /\ d[1].msg = i /\ d[1].rem = f.rem - 1
    BY <1>2, <1>12
  <2>2. Described(sent, d[1], n)
    <3>1. MsgFrame(sent, d[1]) /\ sent \in Seq(Lengths)
      BY <1>4, <1>5, <2>1 DEF InLine
    <3> QED  BY <2>1, <3>1, FrameOf
  <2>3. d[1].kind = (IF n = 1 THEN "plain" ELSE IF d[1].rem = n - 1 THEN "first" ELSE "next")
    BY <2>2 DEF Described
  <2>4. n # 1 /\ f.rem - 1 # n - 1
    <3>1. f.rem \in 0 .. (n - 1) /\ n \in 1 .. 128
      BY <1>2 DEF Described
    <3> DEFINE r == f.rem
    <3> HIDE DEF r
    <3>2. r \in 0 .. (n - 1) /\ r > 0 => n # 1 /\ r - 1 # n - 1
      BY <3>1
    <3> QED  BY <1>12, <3>1, <3>2 DEF r
  <2> QED  BY <1>1, <2>1, <2>3, <2>4 DEF UnderWay
<1>13. UnderWay <=> f.kind = "next"
  BY <1>1 DEF UnderWay
<1> QED  BY <1>1, <1>2, <1>8, <1>9, <1>10, <1>11, <1>12, <1>13

\* Another segment of a message that is intact
LEMMA StaysIntact ==
    ASSUME NEW s, NEW a \in Assembler, NEW f, NEW g, NEW n, Described(s, f, n), Intact(a, f, n),
           g.msg = f.msg, g.rem = f.rem - 1, f.rem > 0
    PROVE  Intact(AssemblerSave(a, f), g, n)
<1> DEFINE b == AssemblerSave(a, f)
           r == f.rem
<1>1. /\ b.total = n /\ b.remaining = r /\ Len(b.saved) = n - r
      /\ \A k \in 1 .. Len(b.saved) : b.saved[k] = Frames(g.msg, n)[k]
  <2>1. IntactWith(b, f, n)
    BY IntactSave
  <2> HIDE DEF b
  <2> QED  BY <2>1 DEF IntactWith
<1>2. r \in 0 .. (n - 1) /\ n \in 1 .. 128
  BY DEF Described
<1> HIDE DEF b, r
<1>3. (r - 1) + 1 = r /\ (n - 1) - (r - 1) = n - r
  BY <1>2
<1>4. g.rem = r - 1
  BY DEF r
<1> QED  BY <1>1, <1>3, <1>4 DEF Intact, b

\* The last one
LEMMA ComesWhole ==
    ASSUME NEW s, NEW a \in Assembler, NEW f, NEW n, Described(s, f, n), Intact(a, f, n), f.rem = 0
    PROVE  AssemblerSave(a, f).saved = Frames(f.msg, n)
<1> DEFINE p == AssemblerSave(a, f).saved
           q == Frames(f.msg, n)
<1>1. n \in 1 .. 128 /\ f \in Segment /\ f.msg \in Nat
  BY DEF Described
<1>2. Len(p) = n - f.rem /\ \A k \in 1 .. Len(p) : p[k] = q[k]
  <2> DEFINE b == AssemblerSave(a, f)
  <2>1. IntactWith(b, f, n)
    BY IntactSave
  <2> HIDE DEF b
  <2> QED  BY <2>1 DEF IntactWith, b
<1>3. p \in Seq(Segment)
  BY <1>1, SavedOne DEF OneMore
<1>4. q \in Seq(Segment) /\ Len(q) = n
  BY <1>1, FramesAre
<1>5. Len(p) = n
  BY <1>1, <1>2
<1> HIDE DEF p, q
<1> QED  BY <1>2, <1>3, <1>4, <1>5 DEF p, q

LEMMA CreditReceive ==
    ASSUME IInv, InLine(chan, sent), Credit, Receive PROVE Credit'
<1> DEFINE f == chan[1]
           i == f.msg
           n == sent[i]
           a == Begun(f)
           b == AssemblerSave(a, f)
<1>1. /\ alive /\ HandleFrame(f) /\ Described(sent, f, n)
      /\ UNCHANGED <<type, sent, cut, faults>>
      /\ UnderWay <=> f.kind = "next"
      /\ Damaged' \subseteq Damaged \cup {i}
      /\ f.rem > 0 => Damaged' \subseteq Damaged
      /\ (\E j \in DOMAIN out' : out'[j] = Frames(i, n)) => Damaged' \subseteq Damaged
      /\ f.rem = 0 => ~UnderWay'
      /\ f.rem > 0 => UnderWay' /\ chan'[1].msg = i /\ chan'[1].rem = f.rem - 1
  BY HeadGone
<1>2. /\ f \in Segment /\ n \in 1 .. 128 /\ f.rem \in 0 .. (n - 1) /\ i \in Nat
      /\ f = Frames(i, n)[n - f.rem]
      /\ f.kind = (IF n = 1 THEN "plain" ELSE IF f.rem = n - 1 THEN "first" ELSE "next")
  BY <1>1 DEF Described
<1>3. UnderWay => (Owes <=> ~Intact(asm, f, n))
  BY DEF Owes
<1>4. ~UnderWay => (Owes <=> asm.total # 0)
  BY DEF Owes
<1>5. f.rem > 0 => (Owes' <=> ~Intact(asm', chan'[1], n))
  BY <1>1 DEF Owes
<1>6. f.rem = 0 => (Owes' <=> asm'.total # 0)
  BY <1>1 DEF Owes
<1>7. asm \in Assembler /\ a \in Assembler /\ (f.kind # "first" => a = asm)
  <2>1. TypeOK /\ Sound(asm) /\ Begins(asm)
    BY DEF IInv
  <2> QED  BY <1>2, <2>1, BegunSound DEF Sound, Begun
<1>8. out \in Seq(Seq(Segment)) /\ faults \in Seq(Fault)
  BY DEF IInv, TypeOK, Fault
<1>9. ASSUME NEW p, out' = Append(out, p), p = Frames(i, n) PROVE Damaged' \subseteq Damaged
  <2>1. p \in Seq(Segment)
    BY <1>2, <1>9, FramesAre
  <2>2. Len(out) + 1 \in DOMAIN out' /\ out'[Len(out) + 1] = p
    BY <1>8, <1>9, <2>1
  <2> QED  BY <1>1, <1>9, <2>2
<1> HIDE DEF f, i, n, a, b
<1> SUFFICES ASSUME type = "STREAM", alive'
             PROVE  \/ Damaged' \subseteq Damaged /\ (Owes' => Owes)
                    \/ Owes /\ ~Owes'
  BY <1>1, <1>8, CreditKept
<1>10. CASE f.kind = "plain"
  <2>1. n = 1 /\ f.rem = 0
    BY <1>2, <1>10
  <2>2. out' = Append(out, <<f>>) /\ asm' = asm
    BY <1>1, <1>10 DEF HandleFrame, HandlePlain
  <2>3. <<f>> = Frames(i, n)
    <3>1. Frames(i, n) = <<[msg |-> i, kind |-> "plain", rem |-> 0, len |-> Rx]>>
      BY <2>1 DEF Frames
    <3> DEFINE g == [msg |-> i, kind |-> "plain", rem |-> 0, len |-> Rx]
    <3>2. Frames(i, n) = <<g>>
      BY <3>1
    <3> HIDE DEF g
    <3>3. f = <<g>>[1]
      BY <1>2, <2>1, <3>2
    <3> QED  BY <3>2, <3>3
  <2>4. Damaged' \subseteq Damaged
    BY <1>9, <2>2, <2>3
  <2> QED  BY <1>1, <1>4, <1>6, <1>10, <2>1, <2>2, <2>4
<1>11. ASSUME f.kind # "plain"
       PROVE  /\ AssemblerPending(a, f.rem) => /\ asm' = (IF f.rem = 0 THEN AssemblerStop(b) ELSE b)
                                               /\ f.rem = 0 => out' = Append(out, b.saved)
              /\ ~AssemblerPending(a, f.rem) => asm' = AssemblerStop(a)
  <2>1. ~Refused(f)
    BY <1>1, NotRefused
  <2>2. Taken(f)
    BY <1>1, <1>11, <2>1, SegmentTaken
  <2> QED  BY <2>2 DEF Taken, a, b
<1>12. ASSUME f.kind # "plain", Intact(a, f, n), f.rem > 0
       PROVE  Damaged' \subseteq Damaged /\ ~Owes'
  <2>1. asm' = b
    <3>1. AssemblerPending(a, f.rem)
      BY <1>1, <1>7, <1>12, IntactSave
    <3> QED  BY <1>2, <1>11, <1>12, <3>1
  <2>2. Intact(b, chan'[1], n)
    BY <1>1, <1>7, <1>12, StaysIntact DEF b, i
  <2> QED  BY <1>1, <1>5, <1>12, <2>1, <2>2
<1>13. CASE f.kind = "first"
  <2>1. n > 1 /\ f.rem = n - 1 /\ f.rem > 0 /\ ~UnderWay
    BY <1>1, <1>2, <1>13
  <2>2. CASE asm.total # 0
    BY <1>1, <1>4, <2>1, <2>2
  <2>3. CASE asm.total = 0
    <3> DEFINE t == f.rem + 1
    <3>1. t = n /\ asm.total < t
      BY <1>2, <2>1, <2>3
    <3>2. a = [total |-> n, remaining |-> n, offset |-> 0, room |-> n * MaxlenRx, saved |-> <<>>]
      <4>1. a = AssemblerInit(asm, n)
        BY <1>13, <3>1 DEF a, Begun
      <4> QED  BY <3>1, <4>1 DEF AssemblerInit
    <3>3. a.total = n /\ a.remaining = n /\ a.saved = <<>>
      BY <3>2
    <3>4. Len(a.saved) = 0 /\ n - 1 - f.rem = 0
      <4>1. n - 1 - f.rem = 0
        BY <1>2, <2>1
      <4> QED  BY <3>3, <4>1
    <3>5. Intact(a, f, n)
      BY <3>1, <3>3, <3>4 DEF Intact
    <3> QED  BY <1>12, <1>13, <2>1, <3>5
  <2> QED  BY <2>2, <2>3
<1>14. CASE f.kind = "next" /\ f.rem > 0
  <2>1. CASE Intact(asm, f, n)
    BY <1>7, <1>12, <1>14, <2>1
  <2>2. CASE ~Intact(asm, f, n)
    BY <1>1, <1>3, <1>14, <2>2
  <2> QED  BY <2>1, <2>2
<1>15. CASE f.kind = "next" /\ f.rem = 0
  <2>1. ~Owes'
    <3>2. AssemblerStop(b).total = 0
      <4>1. b = [a EXCEPT !.offset = @ + (f.len - 1), !.remaining = @ - 1, !.saved = Append(@, f)]
        BY DEF b, AssemblerSave
      <4> QED  BY <1>7, <4>1 DEF AssemblerStop, Assembler
    <3>3. AssemblerStop(a).total = 0
      BY <1>7, Stopped
    <3>4. asm'.total = 0
      BY <1>11, <1>15, <3>2, <3>3
    <3> QED  BY <1>6, <1>15, <3>4
  <2>2. CASE Intact(asm, f, n)
    <3>1. Intact(a, f, n)
      BY <1>7, <1>15, <2>2
    <3>2. AssemblerPending(a, f.rem)
      BY <1>1, <1>7, <3>1, IntactSave
    <3>3. out' = Append(out, b.saved)
      BY <1>11, <1>15, <3>2
    <3>4. b.saved = Frames(i, n)
      BY <1>1, <1>7, <1>15, <3>1, ComesWhole DEF b, i
    <3>5. Damaged' \subseteq Damaged
      BY <1>9, <3>3, <3>4
    <3> QED  BY <2>1, <3>5
  <2>3. CASE ~Intact(asm, f, n)
    BY <1>1, <1>3, <1>15, <2>1, <2>3
  <2> QED  BY <2>2, <2>3
<1>16. f.kind \in {"plain", "first", "next"} /\ (f.rem > 0 \/ f.rem = 0)
  BY <1>2
<1> QED  BY <1>10, <1>13, <1>14, <1>15, <1>16

LEMMA CreditNext == IInv /\ InLine(chan, sent) /\ Credit /\ [Next]_vars => Credit'
<1> SUFFICES ASSUME IInv, InLine(chan, sent), Credit, [Next]_vars PROVE Credit'
  OBVIOUS
<1>1. ASSUME NEW n \in Lengths, Put(n) PROVE Credit'
  BY <1>1, CreditPut
<1>2. CASE Receive
  BY <1>2, CreditReceive
<1>3. ASSUME NEW f \in Stray, ReceiveStray(f) PROVE Credit'
  BY <1>3, CreditStray
<1>4. CASE Lose
  BY <1>4, CreditLose
<1>5. CASE Reset
  BY <1>5, CreditReset
<1>6. CASE UNCHANGED vars
  BY <1>6 DEF vars, Credit, Damaged, Through, Written, Owed, Owes, UnderWay, Intact
<1> QED  BY <1>1, <1>2, <1>3, <1>4, <1>5, <1>6 DEF Next

---------------------------------------------------------------------------
\* The assembler of a stream socket (patty_ax25_sock_assembler_init, save and
\* stop) always has room left for the segments that it waits for.
THEOREM AlwaysFits == Spec => []Fits
<1>1. IInv => Fits
  BY DEF IInv, Sound, AsmFits, Fits
<1> QED  BY <1>1, InitInv, NextInv, PTL DEF Spec

\* handle_segment() writes to the client only segments whose counters run down
\* from a first one to zero without a gap, whatever the peer sends.
THEOREM AlwaysCountsDown == Spec => []CountsDown
<1>1. IInv => CountsDown
  BY DEF IInv
<1> QED  BY <1>1, InitInv, NextInv, PTL DEF Spec

\* Only a segment longer than N1 makes handle_segment() of a stream fail and so
\* ends the daemon.
THEOREM AlwaysSurvives == Spec => []Survives
<1>1. IInv => Survives
  BY DEF IInv
<1> QED  BY <1>1, InitInv, NextInv, PTL DEF Spec

\* A fault on a stream costs at most one of the messages that came complete,
\* for every number of faults and messages of every length: the assembler that a
\* stray segment or a reset leaves behind (patty_ax25_sock_reset() keeps it)
\* spoils the message under way or the next one, and no other.
THEOREM AlwaysDamageBounded == Spec => []DamageBounded
<1>1. Credit /\ InLine(chan, sent) /\ IInv => DamageBounded
  <2> SUFFICES ASSUME Credit, InLine(chan, sent), IInv, type = "STREAM", alive
               PROVE  Cardinality(Damaged) <= Len(faults)
    BY DEF DamageBounded
  <2> DEFINE k == Cardinality(Damaged)
             o == Owed
             m == Len(faults)
  <2>1. k + o <= m
    BY DEF Credit
  <2>2. o \in {0, 1}
    BY OwedIs
  <2>3. k \in Nat
    BY DamagedFinite, FS_CardinalityType
  <2>4. m \in Nat
    BY DEF IInv, TypeOK
  <2> HIDE DEF k, o, m
  <2>5. k <= m
    BY <2>1, <2>2, <2>3, <2>4
  <2> QED  BY <2>5 DEF k, m
<1> DEFINE OnLine == InLine(chan, sent)
<1>2. Init => OnLine
  BY InLineInit
<1>3. IInv /\ OnLine /\ [Next]_vars => OnLine'
  BY InLineNext
<1>4. IInv /\ OnLine /\ Credit /\ [Next]_vars => Credit'
  BY CreditNext
<1>5. Credit /\ OnLine /\ IInv => DamageBounded
  BY <1>1
<1> HIDE DEF OnLine
<1> QED  BY <1>2, <1>3, <1>4, <1>5, InitInv, NextInv, CreditInit, PTL DEF Spec
=============================================================================
