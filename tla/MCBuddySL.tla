------------------------------ MODULE MCBuddySL ------------------------------
(* BuddySL on an arena of eight cells of four bytes: requests of less than   *)
(* a cell, one cell, sizes rounded up, the arena and more than the arena.    *)
(* With 0 among the requests NullJustified is violated by the first call.    *)
EXTENDS BuddySL
=============================================================================
