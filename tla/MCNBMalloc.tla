------------------------------ MODULE MCNBMalloc ------------------------------
(* Small instances of NBMalloc for TLC. *)
EXTENDS NBMalloc, TLC

Symmetry == Permutations(Threads)
=============================================================================
