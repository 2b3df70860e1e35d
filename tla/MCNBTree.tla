------------------------------- MODULE MCNBTree -------------------------------
(* Small instances of NBTree for TLC. *)
EXTENDS NBTree, TLC

Symmetry == Permutations(Threads)
=============================================================================
