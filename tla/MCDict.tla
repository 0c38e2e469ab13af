------------------------------- MODULE MCDict -------------------------------
(***************************************************************************)
(* A dictionary with two digits and two levels for the sixteen and seven of *)
(* the code.  All the keys of three digits whose lowest is 0, which share   *)
(* one or two of the digits that are looked at, and one key of another      *)
(* class.                                                                   *)
(***************************************************************************)
EXTENDS Dict, TLC

Binary   == {0, 1}
SomeKeys == {k \in [0 .. 2 -> Binary] : k[0] = 1 => k[1] = 1 /\ k[2] = 1}
Values   == Permutations(Value)
=============================================================================
