------------------------------ MODULE MCNB4Lvl ------------------------------
(* NB4Lvl on small sets of threads. *)
EXTENDS NB4Lvl, TLC

Symmetry == Permutations(Threads)
=============================================================================
