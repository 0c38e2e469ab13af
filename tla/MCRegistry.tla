---------------------------- MODULE MCRegistry ----------------------------
(***************************************************************************)
(* Two clients, two sockets at a time and two other stations.               *)
(***************************************************************************)
EXTENDS Registry, TLC

Stations == Permutations(Remote)
=============================================================================
