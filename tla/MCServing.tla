----------------------------- MODULE MCServing -----------------------------
(***************************************************************************)
(* Serving for TLC: connections as model values.  They are not symmetric:  *)
(* some peers say more than others.                                        *)
(***************************************************************************)
EXTENDS Serving

CONSTANTS c1, c2, c3

=============================================================================
