----------------------------- MODULE MCBenchmarks -----------------------------
(* Benchmarks with few workers, short loops, an arena they fill up, and a    *)
(* system call table of five entries: exactly the four called are unused,    *)
(* all are, or too few.                                                      *)
EXTENDS Benchmarks

MCEntries == 0 .. 4
MCUnusedSets == {{0, 2, 3, 4}, {0, 1, 2, 3, 4}, {0, 2}, {}}
MCNR == [LS |-> 0, TT |-> 2, CO |-> 3, CA |-> 4]
=============================================================================
