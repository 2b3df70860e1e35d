------------------------------- MODULE BuddySL -------------------------------
(***************************************************************************)
(* The classic buddy system under one lock (allocators/buddy-sl/nballoc.c):*)
(* a complete binary tree of node states, searched from the root for the   *)
(* first free node of the size wanted, split on the way down and combined  *)
(* on release.  bd_xx_malloc and bd_xx_free hold the lock from their first *)
(* to their last access, so at most one operation is under way; it has the *)
(* local variables below, and each step is one iteration of a loop.        *)
(***************************************************************************)
EXTENDS Integers

CONSTANTS
  NUM_LEVELS,
  MIN_ALLOCABLE_BYTES,
  Requests              (* Byte counts callers ask for. *)

(* With units of fewer than four bytes the wrapped size of a request of 0  *)
(* bytes would not be a large positive long.                               *)
ASSUME BuddySLAssumption ==
  /\ NUM_LEVELS \in Nat \ {0}
  /\ MIN_ALLOCABLE_BYTES \in Nat /\ MIN_ALLOCABLE_BYTES >= 4
  /\ Requests \subseteq Nat

(* What the proofs need to know of the powers of two. *)
ASSUME BuddyPowersAssumption == \A k \in 0 .. NUM_LEVELS : 2^(k + 1) = 2 * 2^k

VARIABLES
  tree,           (* The state of every node; the root is node 0.          *)
  pc,             (* "idle": the lock is free.                             *)
  size,           (* malloc: what is wanted, in minimum-size cells.        *)
  offset,         (* free: the first cell of the region.                   *)
  index,          (* The node the operation is at.                         *)
  level,          (* Its level.                                            *)
  length,         (* Its size in cells.                                    *)
  left,           (* free: its first cell.                                 *)
  runner,         (* _mark_parent: how far up the walk is.                 *)
  request,        (* Ghost: the bytes the present malloc was asked for.    *)
  given           (* Ghost: the regions callers have, [addr, size].        *)

cursor == <<index, level, length>>
vars == <<tree, pc, size, offset, cursor, left, runner, request, given>>

max_level == NUM_LEVELS - 1

Cells == 2^max_level

NodeIndexes == 0 .. (2 * Cells - 2)

States == {"UNUSED", "USED", "SPLIT", "FULL"}

ParentOf(i) == (i + 1) \div 2 - 1

IsOdd(i) == i % 2 = 1

(* index - 1 + (index & 1) * 2: -1 for the root. *)
BuddyOf(i) == i - 1 + (i % 2) * 2

OffsetInLevel(i, l) == (i + 1) - 2^l   \* Mutant: not scaled to cells.

_index_offset(i, l) == ((i + 1) - 2^l) * 2^(max_level - l)

next_pow_of_2(x) == CHOOSE p \in {2^k : k \in 0 .. max_level} : x <= p /\ p < 2 * x

CellsAsked(s) == (s - 1) \div MIN_ALLOCABLE_BYTES + 1

(* Beyond the arena, rounded up or not.  So is a request of 0 bytes: the 1 *)
(* it is raised to is overwritten, and s - 1 wraps.                        *)
TooLarge(s) == s = 0 \/ CellsAsked(s) > Cells

(* Mutant: not rounded to a power of two. *)
CellsUnrounded(s) == CellsAsked(s)
CellsFor(s)       == next_pow_of_2(CellsAsked(s))

TypeOK ==
  /\ tree \in [NodeIndexes -> States]
  /\ pc \in {"idle", "search", "climb", "mark", "null", "locate", "combine", "unfull", "aborted"}
  /\ size \in 0 .. Cells
  /\ offset \in 0 .. (Cells - 1)
  /\ index \in NodeIndexes \cup {-1}
  /\ level \in 0 .. max_level
  /\ length \in {2^k : k \in 0 .. max_level}
  /\ left \in 0 .. (Cells - 1)
  /\ runner \in NodeIndexes
  /\ request \in Requests \cup {0}

Init ==
  /\ tree = [i \in NodeIndexes |-> "UNUSED"]
  /\ pc = "idle"
  /\ size = 0
  /\ offset = 0
  /\ index = 0
  /\ level = 0
  /\ length = Cells
  /\ left = 0
  /\ runner = 0
  /\ request = 0
  /\ given = {}

AtRoot == index' = 0 /\ level' = 0 /\ length' = Cells

Return ==
  /\ pc' = "idle"
  /\ size' = 0
  /\ offset' = 0
  /\ AtRoot
  /\ left' = 0
  /\ runner' = 0
  /\ request' = 0

(***************************************************************************)
(* bd_bd_malloc.                                                           *)
(***************************************************************************)

(* The lock is taken in the same step. *)
MallocCall(s) ==
  /\ pc = "idle"
  /\ IF TooLarge(s)
     THEN pc' = "null" /\ UNCHANGED size
     ELSE pc' = "search" /\ size' = CellsFor(s)
  /\ request' = s
  /\ AtRoot
  /\ UNCHANGED <<tree, offset, left, runner, given>>

TakesUnused(i) == tree[i] # "USED"   \* Mutant: a split node is taken whole.
Takes(i)       == tree[i] = "UNUSED"

Take ==
  /\ pc = "search"
  /\ size = length
  /\ Takes(index)
  /\ tree' = [tree EXCEPT ![index] = "USED"]
  /\ runner' = index
  /\ pc' = "mark"
  /\ UNCHANGED <<size, offset, cursor, left, request, given>>

(* Mutant: the children keep the states an earlier split left. *)
SplitNode(i) == [tree EXCEPT ![i] = "SPLIT"]

(* An unused node is split, with two unused children, on the way down. *)
Split(i) ==
  IF tree[i] = "UNUSED"
  THEN [tree EXCEPT ![i] = "SPLIT", ![2 * i + 1] = "UNUSED", ![2 * i + 2] = "UNUSED"]
  ELSE tree

Descend ==
  /\ pc = "search"
  /\ size # length
  /\ tree[index] \in {"UNUSED", "SPLIT"}
  /\ tree' = Split(index)
  /\ index' = index * 2 + 1
  /\ length' = length \div 2
  /\ level' = level + 1
  /\ UNCHANGED <<pc, size, offset, left, runner, request, given>>

StaysAt(i) == i   \* Mutant: the brother is not stepped to.
RightOf(i) == i + 1

(* The node is no use: its right brother is next, or the search climbs. *)
Skip ==
  /\ pc = "search"
  /\ IF size = length THEN ~Takes(index) ELSE tree[index] \in {"USED", "FULL"}
  /\ IF IsOdd(index)
     THEN index' = RightOf(index) /\ UNCHANGED pc
     ELSE pc' = "climb" /\ UNCHANGED index
  /\ UNCHANGED <<tree, size, offset, level, length, left, runner, request, given>>

(* Up to the first ancestor that is a left child, and to its brother; NULL *)
(* above the root.                                                         *)
Climb ==
  LET up == ParentOf(index)
  IN /\ pc = "climb"
     /\ IF up < 0
        THEN pc' = "null" /\ UNCHANGED cursor
        ELSE /\ level' = level - 1
             /\ length' = length * 2
             /\ index' = IF IsOdd(up) THEN RightOf(up) ELSE up
             /\ pc' = IF IsOdd(up) THEN "search" ELSE "climb"
     /\ UNCHANGED <<tree, size, offset, left, runner, request, given>>

(* _mark_parent: FULL as far up as both halves are taken. *)
TakenUsed(i) == tree[i] = "USED"   \* Mutant: a full brother does not count.
Taken(i)     == tree[i] \in {"USED", "FULL"}

MarkParent ==
  /\ pc = "mark"
  /\ BuddyOf(runner) > 0
  /\ Taken(BuddyOf(runner))
  /\ runner' = ParentOf(runner)
  /\ tree' = [tree EXCEPT ![ParentOf(runner)] = "FULL"]
  /\ UNCHANGED <<pc, size, offset, cursor, left, request, given>>

MallocReturn ==
  /\ pc = "mark"
  /\ ~(BuddyOf(runner) > 0 /\ Taken(BuddyOf(runner)))
  /\ given' = given \cup {[addr |-> _index_offset(index, level), size |-> size]}
  /\ Return
  /\ UNCHANGED tree

MallocReturnNull ==
  /\ pc = "null"
  /\ Return
  /\ UNCHANGED <<tree, given>>

(***************************************************************************)
(* bd_bd_free.                                                             *)
(***************************************************************************)

(* The lock is taken and the offset asserted to be in the arena. *)
FreeCall(r) ==
  /\ pc = "idle"
  /\ given' = given \ {r}
  /\ offset' = r.addr
  /\ pc' = IF r.addr < Cells THEN "locate" ELSE "aborted"
  /\ AtRoot
  /\ UNCHANGED <<tree, size, left, runner, request>>

(* Down to the used node that contains the offset; two more assertions. *)
Locate ==
  LET half == length \div 2
  IN /\ pc = "locate"
     /\ CASE tree[index] = "USED" ->
               /\ pc' = IF offset = left THEN "combine" ELSE "aborted"
               /\ UNCHANGED <<index, length, left>>
          [] tree[index] = "UNUSED" ->
               pc' = "aborted" /\ UNCHANGED <<index, length, left>>
          [] OTHER ->
               /\ length' = half
               /\ index' = index * 2 + (IF offset < left + half THEN 1 ELSE 2)
               /\ left' = IF offset < left + half THEN left ELSE left + half
               /\ UNCHANGED pc
     /\ UNCHANGED <<tree, size, offset, level, runner, request, given>>

MergesNever(i) == FALSE   \* Mutant: buddies are not combined.
Merges(i) == BuddyOf(i) >= 0 /\ tree[BuddyOf(i)] = "UNUSED"

Combine ==
  /\ pc = "combine"
  /\ IF Merges(index)
     THEN index' = ParentOf(index) /\ UNCHANGED <<tree, pc>>
     ELSE /\ tree' = [tree EXCEPT ![index] = "UNUSED"]
          /\ index' = ParentOf(index)
          /\ pc' = "unfull"
  /\ UNCHANGED <<size, offset, level, length, left, runner, request, given>>

(* The ancestors that were full are split again. *)
Unfull ==
  /\ pc = "unfull"
  /\ index >= 0
  /\ tree[index] = "FULL"
  /\ tree' = [tree EXCEPT ![index] = "SPLIT"]
  /\ index' = ParentOf(index)
  /\ UNCHANGED <<pc, size, offset, level, length, left, runner, request, given>>

FreeReturn ==
  /\ pc = "unfull"
  /\ ~(index >= 0 /\ tree[index] = "FULL")
  /\ Return
  /\ UNCHANGED <<tree, given>>

(***************************************************************************)
(* What buddy_size and buddy_dump tell of the tree, without the lock.      *)
(***************************************************************************)

LevelOf(i) == CHOOSE l \in 0 .. max_level : 2^l <= i + 1 /\ i + 1 < 2^(l + 1)

RegionOf(i) == [addr |-> _index_offset(i, LevelOf(i)), size |-> 2^(max_level - LevelOf(i))]

(* The size of the region at cell o, found as bd_bd_free finds it, or 0    *)
(* where an assertion fails; At[d] is the node after d turns of the loop.  *)
buddy_size(o) ==
  LET Onward(i) == IF tree[i] \in {"UNUSED", "USED"} THEN i
                 ELSE 2 * i + (IF o < RegionOf(2 * i + 2).addr THEN 1 ELSE 2)
      At[d \in 0 .. max_level] == IF d = 0 THEN 0 ELSE Onward(At[d - 1])
      found == At[max_level]
  IN IF tree[found] = "USED" /\ RegionOf(found).addr = o THEN RegionOf(found).size ELSE 0

(* Mutant: the right half is looked for at the level of the node. *)
HalvesAskew(i, l) == {<<2 * i + 1, l + 1>>, <<2 * i + 2, l>>}
Halves(i, l)      == {<<2 * i + 1, l + 1>>, <<2 * i + 2, l + 1>>}

(* The calls of _dump, [index, level], that are d deep.                    *)
_dump[d \in 0 .. max_level] ==
  IF d = 0 THEN {<<0, 0>>}
  ELSE UNION {Halves(n[1], n[2]) : n \in {m \in _dump[d - 1] : tree[m[1]] \in {"SPLIT", "FULL"}}}

(* The regions printed in brackets (used) and in parentheses (unused).     *)
buddy_dump(state) ==
  {[addr |-> _index_offset(n[1], n[2]), size |-> 2^(max_level - n[2])] :
     n \in {m \in UNION {_dump[d] : d \in 0 .. max_level} : tree[m[1]] = state}}

Step ==
  \/ Take \/ Descend \/ Skip \/ Climb \/ MarkParent \/ MallocReturn \/ MallocReturnNull
  \/ Locate \/ Combine \/ Unfull \/ FreeReturn

Next ==
  \/ \E s \in Requests : MallocCall(s)
  \/ \E r \in given : FreeCall(r)
  \/ Step

Spec == Init /\ [][Next]_vars

(* The thread that has the lock keeps running. *)
FairSpec == Spec /\ WF_vars(Step)

(***************************************************************************)
(* Properties.                                                             *)
(***************************************************************************)

CellsOf(r) == r.addr .. (r.addr + r.size - 1)

InUse == UNION {CellsOf(r) : r \in given}

(* The state of node i that the regions in use call for. *)
ExactState(i) ==
  IF RegionOf(i) \in given THEN "USED"
  ELSE IF CellsOf(RegionOf(i)) \cap InUse = {} THEN "UNUSED"
  ELSE IF CellsOf(RegionOf(i)) \subseteq InUse THEN "FULL"
  ELSE "SPLIT"

(* Between operations the tree is the unique buddy tree of the regions in  *)
(* use: every pair of free buddies has been combined, a node is FULL       *)
(* exactly when no cell below it is left, and nothing else is reachable.   *)
(* States below a used or unused node are stale and never consulted.       *)
TreeIsExact ==
  pc = "idle" =>
    \A i \in NodeIndexes :
      (\A a \in NodeIndexes :
         a < i /\ CellsOf(RegionOf(i)) \subseteq CellsOf(RegionOf(a))
           => tree[a] \in {"SPLIT", "FULL"})
      => tree[i] = ExactState(i)

(* Between operations buddy_size knows every region given, and buddy_dump  *)
(* prints them and, for the rest of the arena, the free regions.           *)
InspectionExact ==
  pc = "idle" =>
    /\ \A r \in given : buddy_size(r.addr) = r.size
    /\ buddy_dump("USED") = given
    /\ UNION {CellsOf(r) : r \in buddy_dump("UNUSED")} = (0 .. Cells - 1) \ InUse

(* None of the three assertions of bd_bd_free fails for an address that    *)
(* was given.                                                              *)
NoAbort == pc # "aborted"

FreeNodes(cells) ==
  {i \in NodeIndexes : RegionOf(i).size = cells /\ CellsOf(RegionOf(i)) \cap InUse = {}}

(* The cells a request of s bytes is for; 0 is to count as 1, lines 118    *)
(* and 119.                                                                *)
CellsMeant(s) == CellsAsked(IF s = 0 THEN 1 ELSE s)

(* malloc returns NULL only to a request that exceeds the arena or when no *)
(* aligned free region of its size exists: a full or used node on the way  *)
(* is never wrongly skipped.  False of requests of 0 bytes, which get NULL *)
(* from an empty arena.                                                    *)
NullJustified ==
  [][pc = "null" /\ pc' = "idle"
       => \/ CellsMeant(request) > Cells
          \/ FreeNodes(next_pow_of_2(CellsMeant(request))) = {}]_vars

(* First fit: malloc grants the free region with the lowest address.       *)
FirstFit ==
  [][\A r \in given' \ given :
       \A i \in FreeNodes(r.size) : r.addr <= RegionOf(i).addr]_vars

(* Callers see aligned, disjoint, power-of-two regions. *)
Buddy == INSTANCE Allocator WITH Sizes <- {2^k : k \in 0 .. max_level}

ImplementsAllocator == Buddy!Spec

(* Every operation ends: no search or walk goes round in the tree. *)
OperationEnds == pc # "idle" ~> pc = "idle"
=============================================================================
