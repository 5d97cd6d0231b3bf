------------------------------- MODULE MCChat -------------------------------
(* The instances of the chat that TLC checks.                              *)
EXTENDS ChatOrder

ClientSymmetry == Permutations(Clients)
=============================================================================
