------------------------------- MODULE Allocator -------------------------------
(***************************************************************************)
(* What bd_xx_malloc and bd_xx_free promise: a classic buddy allocator.    *)
(* The arena is a row of minimum-size cells; a region is a power-of-two    *)
(* number of cells, aligned to its own size, and regions are disjoint.     *)
(***************************************************************************)
EXTENDS Naturals

CONSTANTS
  Cells,        (* Number of minimum-size cells of the arena.              *)
  Sizes         (* Region sizes that can be handed out, in cells.          *)

VARIABLE given  (* The regions callers have, as records [addr, size].      *)

CellsOf(r) == r.addr .. (r.addr + r.size - 1)

Init == given = {}

Malloc(size) ==
  \E addr \in 0 .. (Cells - size) :
    LET r == [addr |-> addr, size |-> size]
    IN /\ addr % size = 0
       /\ \A q \in given : CellsOf(q) \cap CellsOf(r) = {}
       /\ given' = given \cup {r}

Free(r) == given' = given \ {r}

Next ==
  \/ \E size \in Sizes : Malloc(size)
  \/ \E r \in given : Free(r)

Spec == Init /\ [][Next]_given
=============================================================================
