----------------------------- MODULE MCSegment -----------------------------
(***************************************************************************)
(* The assembler for TLC: messages of two to four segments and plain frames.*)
(***************************************************************************)
EXTENDS Segment

MCLengths == 1 .. 4
=============================================================================
