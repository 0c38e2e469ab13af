------------------------------ MODULE MCLink ------------------------------
(***************************************************************************)
(* Instances of Link for TLC, scaled down: 4 and 8 or 8 and 10 sequence     *)
(* numbers for the 8 and 128 of SABM and SABME links, a window of 2 for the *)
(* default of 4.  As in the code the caller's window is well below the      *)
(* number of slots of a SABME link, and the listener's, which an XID has    *)
(* raised, is one less than that number (in the runs between two patties).  *)
(***************************************************************************)
EXTENDS Link

\* How many items the clients of stations 1 and 2 write.
Send1 == <<1, 0>>
Send3 == <<3, 0>>
Send4 == <<4, 0>>
Send5 == <<5, 0>>

(***************************************************************************)
(* The frames of a station that does not run patty: each type; supervisory  *)
(* commands and responses whose N(R) acknowledges nothing or one frame, and *)
(* an SREJ for a slot that only the larger ring has; I frames in and out of *)
(* order, without information, and of the other format.                     *)
(***************************************************************************)
S(t, cr, nr) == [type |-> t, cr |-> cr, pf |-> TRUE, ns |-> 0, nr |-> nr,
                 ext |-> TRUE, data |-> NoData]

I(ns, ext, d) == [type |-> "I", cr |-> "C", pf |-> ns # 0, ns |-> ns, nr |-> 0,
                  ext |-> ext, data |-> d]

AnyFrame ==
    {S("RR", "C", 0), S("RR", "R", 0), S("RR", "R", 1)}
    \cup {S("RNR", "R", 0), S("REJ", "R", 1), S("SREJ", "R", 1)}
    \cup {I(0, TRUE, 1), I(2, TRUE, 1), I(0, TRUE, NoData), I(0, FALSE, 1)}
    \cup {UFrame(t) : t \in UType}

=============================================================================
