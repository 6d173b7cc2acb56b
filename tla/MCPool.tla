------------------------------- MODULE MCPool -------------------------------
(***************************************************************************)
(* Pool for TLC: threads and keys as model values, threads interchangeable. *)
(***************************************************************************)
EXTENDS Pool, TLC

CONSTANTS t1, t2, a, b

Symmetric == Permutations(Threads)

=============================================================================
