------------------------------- MODULE Pipe -------------------------------
(***************************************************************************)
(* What a link promises to the clients at its two ends: a pipe from the     *)
(* pty of each to the pty of the other, which delivers what was written in  *)
(* the order in which it was written, each item once and without a gap,     *)
(* until one end is released.  Neither end need hear of the other's end,    *)
(* and what was written and not delivered by then may be lost; what an end  *)
(* knows to be delivered is delivered.                                      *)
(*                                                                          *)
(* There are no frames, sequence numbers or timers here.  Link.tla          *)
(* implements it (ImplementsPipe).                                          *)
(***************************************************************************)
EXTENDS Integers

VARIABLES
    open,        \* the ends that are not released
    sent,        \* how many items have been written at each end
    got,         \* the items that have been delivered at each end
    known        \* those of its own items an end knows to be delivered

vars == <<open, sent, got, known>>

Ends     == {1, 2}
Other(n) == 3 - n

\* A link that is up; what was written before has been delivered.
Init ==
    /\ open = [n \in Ends |-> TRUE]
    /\ sent \in [Ends -> Nat]
    /\ got = [n \in Ends |-> 1 .. sent[Other(n)]]
    /\ known = [n \in Ends |-> 1 .. sent[n]]

\* A client writes the next item.
Write(n) ==
    /\ open[n]
    /\ sent' = [sent EXCEPT ![n] = @ + 1]
    /\ UNCHANGED <<open, got, known>>

\* The next item that the other end has written is delivered.
Deliver(n) ==
    /\ open[n]
    /\ \E m \in 0 .. (sent[Other(n)] - 1) :
          /\ got[n] = 1 .. m
          /\ got' = [got EXCEPT ![n] = 1 .. (m + 1)]
    /\ UNCHANGED <<open, sent, known>>

\* An end hears that items of its own have been delivered, and forgets none.
Learn(n) ==
    /\ \E more \in SUBSET got[Other(n)] : known' = [known EXCEPT ![n] = @ \cup more]
    /\ UNCHANGED <<open, sent, got>>

\* An end is released for good, now or later with all that it knows.
Release(n) ==
    /\ open' = [open EXCEPT ![n] = FALSE]
    /\ \E kept \in {known[n], {}} : known' = [known EXCEPT ![n] = kept]
    /\ UNCHANGED <<sent, got>>

Next == \E n \in Ends : Write(n) \/ Deliver(n) \/ Learn(n) \/ Release(n)

Spec == Init /\ [][Next]_vars

=============================================================================
