---------------------------- MODULE MCConnection ----------------------------
(***************************************************************************)
(* Two variables, two ports, and descriptors for two clients and one call  *)
(* in between.                                                             *)
(***************************************************************************)
EXTENDS Connection, TLC

MCDescriptors == 0..4
Interchangeable == Permutations(Clients) \cup Permutations(Ports)
=============================================================================
