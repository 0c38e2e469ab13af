------------------------------- MODULE Timer -------------------------------
(***************************************************************************)
(* One timer of a socket (src/src/timer.c) driven by the event loop of      *)
(* patty_ax25_server_event_handle(): the clock is read before and after     *)
(* select(), the difference is subtracted from every running timer, and the *)
(* handlers that start and stop timers run in between.                      *)
(*                                                                          *)
(* A timespec is a record.  A second has Nano units; the model keeps the C  *)
(* arithmetic on them, whose division and remainder round toward zero.      *)
(***************************************************************************)
EXTENDS Integers

CONSTANTS
    Nano,        \* units of a second: 1000000000
    Secs,        \* ms / 1000 of the timer: 3 (T1, T2) or 30 (T3)
    Frac,        \* (ms % 1000) in units: 0 for the defaults, any for a T1 by XID
    MaxSelect,   \* how long select() waits: 1 s, its timeout, and any delay
    MaxHandler,  \* how long the handlers of one iteration take
    MaxSec       \* bound: the clock stops at this second

ASSUME TimerAssumption ==
    /\ Nano \in Nat /\ Nano > 0
    /\ Secs \in Nat
    /\ Frac \in 0 .. (Nano - 1)
    /\ MaxSelect \in Nat
    /\ MaxHandler \in Nat
    /\ MaxSec \in Nat

VARIABLES
    clock,       \* CLOCK_MONOTONIC, as a timespec
    t,           \* the time the timer has left, as a timespec
    running,     \* PATTY_TIMER_RUNNING
    \* History of a timer since it was started, for the properties only:
    waited,      \* units spent in select(), which the ticks account for
    spent,       \* units spent in handlers, which no tick accounts for
    crossed,     \* seconds of the clock that began during handlers
    phase        \* the clock's nsec at the start

vars == <<clock, t, running, waited, spent, crossed, phase>>

Timespec == [sec : Int, nsec : Int]

\* The units in a timespec.
Total(a) == a.sec * Nano + a.nsec

---------------------------------------------------------------------------
\* The C operators / and % with divisor 1000000000.
CDiv(x) == IF x >= 0 THEN x \div Nano ELSE -((-x) \div Nano)
CRem(x) == x - Nano * CDiv(x)

\* Mutant: the nanoseconds are subtracted the wrong way round.
TimerSubSwapped(a, b) ==
    LET n == b.nsec - a.nsec
    IN  [sec |-> a.sec - b.sec - CDiv(n), nsec |-> CRem(n)]

\* Mutant: the nanoseconds are not reduced to less than a second.
TimerSubUnreduced(a, b) ==
    LET n == a.nsec - b.nsec
    IN  [sec |-> a.sec - b.sec - CDiv(n), nsec |-> n]

\* patty_timer_sub()
TimerSub(a, b) ==
    LET n == a.nsec - b.nsec
    IN  [sec |-> a.sec - b.sec - CDiv(n), nsec |-> CRem(n)]

\* Mutant: the nanoseconds are not looked at.
ExpiredEarly == running /\ t.sec <= 0

\* patty_timer_expired()
Expired == running /\ (t.sec < 0 \/ (t.sec = 0 /\ t.nsec <= 0))

\* The clock d units later.
Later(c, d) == [sec  |-> c.sec + (c.nsec + d) \div Nano,
                nsec |-> (c.nsec + d) % Nano]

---------------------------------------------------------------------------
Init ==
    /\ clock \in {[sec |-> 0, nsec |-> p] : p \in 0 .. (Nano - 1)}
    /\ t = [sec |-> 0, nsec |-> 0]
    /\ running = FALSE
    /\ waited = 0 /\ spent = 0 /\ crossed = 0
    /\ phase = clock.nsec

\* patty_timer_start(), in a handler
Start ==
    /\ t' = [sec |-> Secs, nsec |-> Frac]
    /\ running' = TRUE
    /\ waited' = 0 /\ spent' = 0 /\ crossed' = 0
    /\ phase' = clock.nsec
    /\ UNCHANGED clock

\* patty_timer_stop(), in a handler
Stop ==
    /\ running
    /\ running' = FALSE
    /\ UNCHANGED <<clock, t, waited, spent, crossed, phase>>

\* patty_timer_tick()
TimerTick(elapsed) == t' = IF running THEN TimerSub(t, elapsed) ELSE t

\* One iteration: the handlers of the last one take h, select() takes d.
EventHandle(h, d) ==
    LET before == Later(clock, h)
        after  == Later(before, d)
    IN  /\ clock.sec < MaxSec
        /\ clock' = after
        /\ TimerTick(TimerSub(after, before))
        /\ waited' = waited + d
        /\ spent' = spent + h
        /\ crossed' = crossed + (before.sec - clock.sec)
        /\ UNCHANGED <<running, phase>>

Next == Start \/ Stop \/ \E h \in 0 .. MaxHandler, d \in 0 .. MaxSelect : EventHandle(h, d)

Spec == Init /\ [][Next]_vars

---------------------------------------------------------------------------
TypeOK ==
    /\ clock \in [sec : Nat, nsec : 0 .. (Nano - 1)]
    /\ t \in Timespec
    /\ running \in BOOLEAN
    /\ waited \in Nat /\ spent \in Nat /\ crossed \in Nat
    /\ phase \in 0 .. (Nano - 1)

\* What the timer has left beyond its duration less the time waited: the sum
\* of the wrong borrows patty_timer_sub() took since the start.
Error == Total(t) - (Secs * Nano + Frac - waited)

\* Where the nsec of a running timer is: its own, moved by the clock's since
\* the start, less the time spent in handlers and what the borrows moved.  A
\* borrow has the wrong sign (timer.c:42 subtracts a negative quotient), so
\* each one moves the expiry by two seconds instead of leaving it alone.
Telescopes ==
    running =>
        /\ 2 * t.nsec = 2 * (Frac + phase - clock.nsec + spent - Nano * crossed) + Error
        /\ Error % (2 * Nano) = 0

\* A running timer has expired when, and not before, the loop has waited for
\* its duration and the error; and a timer of whole seconds has no error while
\* the handlers have taken no time since its start.
Exact ==
    running => /\ Expired <=> waited >= Secs * Nano + Frac + Error
               /\ spent = 0 /\ Frac = 0 => Error = 0

\* How far the error can go: twice what the handlers crossed beyond the time
\* they took, within the few seconds the phases of clock and timer add.  Short
\* handlers that keep meeting the end of a second put the expiry off by two
\* seconds each; long ones that do not bring it forward.
Drift ==
    running => LET gained == Nano * crossed - spent
               IN  /\ Error < 2 * (gained + 2 * Nano)
                   /\ Error > 2 * (gained - 3 * Nano)

=============================================================================
