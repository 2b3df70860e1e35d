------------------------------ MODULE BuddyTree ------------------------------
(***************************************************************************)
(* The static tree of the one-level buddy system (allocators/1lvl-nb): an  *)
(* implicit binary heap whose nodes are the blocks a request may be given, *)
(* with the root (the whole arena) at index 1 and a dummy at index 0, and  *)
(* the status bits every node carries.  A node's word is the SET of the    *)
(* bits that are on, so `|` is a union and `& ~mask` a set difference.     *)
(***************************************************************************)
EXTENDS Naturals, FiniteSets

CONSTANTS
  NUM_LEVELS,   (* Height of the tree: leaves are at level NUM_LEVELS.     *)
  MAX_ORDER     (* log2_(MAX_ALLOCABLE_BYTES / MIN_ALLOCABLE_BYTES).       *)

(* init() aborts when the arena is smaller than MAX_ALLOCABLE_BYTES. *)
ASSUME LevelsAssumption ==
  /\ NUM_LEVELS \in Nat \ {0}
  /\ MAX_ORDER \in 0 .. (NUM_LEVELS - 1)

(* What the proofs need to know of the powers of two, at the exponents a   *)
(* tree of this height uses.                                               *)
ASSUME PowersAssumption == \A k \in 0 .. (NUM_LEVELS - 1) : 2^(k + 1) = 2 * 2^k

(***************************************************************************)
(* Indexes.                                                                *)
(***************************************************************************)
number_of_nodes == 2^NUM_LEVELS - 1

Nodes == 1 .. number_of_nodes

(* The indexes of the array, the dummy included. *)
Indexes == Nodes \cup {0}

(* The lowest level (closest to the root) whose blocks may be allocated.   *)
max_level == NUM_LEVELS - MAX_ORDER

parent_idx_by_idx(n) == n \div 2

lchild_idx_by_idx(n) == 2 * n

is_left_by_idx(n) == n % 2 = 0

(* n and the nodes above it: what climbing from n to the root passes.      *)
Path[n \in Indexes] == IF n = 0 THEN {} ELSE {n} \cup Path[parent_idx_by_idx(n)]

(* 1 + log2_(n): 1 for the root, NUM_LEVELS for a leaf, counted as the     *)
(* nodes passed on the way to the root.  The dummy gets 0, the value the   *)
(* counters that walk up beside an index hold when they reach it.          *)
Level == [n \in Indexes |-> Cardinality(Path[n])]

level_by_idx(n) == Level[n]

(* The nodes a request can be served with: init() sets max_level, and      *)
(* bd_xx_malloc refuses what is larger than a block of that level.         *)
Allocable == {n \in Nodes : level_by_idx(n) >= max_level}

(***************************************************************************)
(* The bits of a node.                                                     *)
(***************************************************************************)
Bits == {"OCCUPY", "OCCUPY_LEFT", "OCCUPY_RIGHT", "LEFT_COALESCE", "RIGHT_COALESCE"}

FREE_BLOCK == {}

OCCUPY_BLOCK == {"OCCUPY", "OCCUPY_LEFT", "OCCUPY_RIGHT"}

(* The bits that stand, in the parent of n, for n and for its buddy. *)
OwnOcc(n)    == IF is_left_by_idx(n) THEN "OCCUPY_LEFT"    ELSE "OCCUPY_RIGHT"
OwnCoal(n)   == IF is_left_by_idx(n) THEN "LEFT_COALESCE"  ELSE "RIGHT_COALESCE"
BuddyOcc(n)  == IF is_left_by_idx(n) THEN "OCCUPY_RIGHT"   ELSE "OCCUPY_LEFT"
BuddyCoal(n) == IF is_left_by_idx(n) THEN "RIGHT_COALESCE" ELSE "LEFT_COALESCE"

(***************************************************************************)
(* Blocks.                                                                 *)
(***************************************************************************)

(* The block of m is the block of n or was split to get it. *)
Contains(m, n) == m \in Path[n]

(* The blocks of nodes a and b share memory. *)
Overlap(a, b) == Contains(a, b) \/ Contains(b, a)

(* The block of n, and the blocks it can be split into. *)
Subtree(n) == {m \in Nodes : Contains(n, m)}
=============================================================================
