----------------------------- MODULE MCElection -----------------------------
(* The instance of the election that TLC checks for its tables: a line of  *)
(* the first leader or a fault, not both.                                  *)
EXTENDS Election

OneDisturbance == Len(printed[Leader]) + lost + early <= 1
=============================================================================
