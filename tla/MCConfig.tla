------------------------------ MODULE MCConfig ------------------------------
(***************************************************************************)
(* Two interfaces and two stations.  The keys of one station and of the     *)
(* default route share their lowest digit, so that one of them goes to a    *)
(* second bucket.                                                           *)
(***************************************************************************)
EXTENDS Config

Names    == {"kiss0", "kiss1"}
Stations == {"A", "B"}
Binary   == {0, 1}

Hashes == [a \in Stations \cup {"zeros"} |->
              [i \in 0 .. 2 |-> IF a = "A" \/ (a = "B" /\ i = 1) THEN 1 ELSE 0]]
=============================================================================
