------------------------------- MODULE MCApi -------------------------------
(***************************************************************************)
(* The client library for TLC: numbers of descriptors that are used again.  *)
(***************************************************************************)
EXTENDS Api

MCFd    == {4, 5}
MCTypes == {"STREAM", "DGRAM"}
=============================================================================
