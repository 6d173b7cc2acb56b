------------------------------ MODULE MCClaim ------------------------------
(***************************************************************************)
(* Claim for TLC: nodes and names are model values, and interchangeable.   *)
(* The times are numbers, so that the claimed name chosen is the same one  *)
(* each time.                                                              *)
(***************************************************************************)
EXTENDS Claim, TLC

Symmetric == Permutations(Nodes) \cup Permutations(Names)

=============================================================================
