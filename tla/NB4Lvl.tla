-------------------------------- MODULE NB4Lvl --------------------------------
(***************************************************************************)
(* The allocation and release protocol of the bunch-based buddy system     *)
(* (allocators/4lvl-nb/nballoc.c): four levels of the tree share a         *)
(* container, one word updated by a CAS.  With BD_SPIN_LOCK the same file  *)
(* is 4lvl-sl.                                                             *)
(*                                                                         *)
(* A retry loop that recomputes the new word from a fresh read is ONE      *)
(* step: its CAS succeeds only if the word is still the one it read, and a *)
(* failed attempt changes nothing.  smarca's loop is not of that kind (its *)
(* p_pos is not reset by a retry), so its read and its CAS are two steps.  *)
(***************************************************************************)
EXTENDS NodeProtocol, Integers

(* init_tree leaves the bunch_root of the first container NULL and a       *)
(* release follows it: requests have to stay below the first four levels.  *)
ASSUME BunchAssumption == max_level > 4

(***************************************************************************)
(* Nodes and containers.                                                   *)
(***************************************************************************)

LEVEL_PER_CONTAINER == 4

(* How many levels node n is below the root of its bunch. *)
DepthInBunch(n) == (level_by_idx(n) - 1) % LEVEL_PER_CONTAINER

BUNCHROOT(n) == n \div 2^DepthInBunch(n)

(* 1 for the root of the bunch, 8 .. 15 for its lowest level. *)
container_pos(n) == 2^DepthInBunch(n) + (n % 2^DepthInBunch(n))

br_level(n) == level_by_idx(BUNCHROOT(n))

(* The containers (named by their roots) an operation on a target touches. *)
Bunches ==
  {BUNCHROOT(a) : a \in Allocable \cap UNION {Path[n] : n \in Targets}}

(***************************************************************************)
(* The word of a container: the SET of the bits that are on.  Positions 1  *)
(* to 7 have one bit, 8 to 15 have five.  The leaf macros shift by         *)
(* 7 + 5 * (pos - 8); x86 takes the count modulo 64, which only matters    *)
(* for the positions above the leaves that smarca may retry with, and what *)
(* is shifted out is lost.                                                 *)
(***************************************************************************)
WordBits == 0 .. 63

RIGHT      == 0
LEFT       == 1
COAL_RIGHT == 2
COAL_LEFT  == 3
OCCUPIED   == 4

LOCK_LEAF      == {OCCUPIED, LEFT, RIGHT}
LEAF_FULL_MASK == {OCCUPIED, COAL_LEFT, COAL_RIGHT, LEFT, RIGHT}

LEAF_START_POSITION == 8

LeafMask(bits, pos) ==
  {b + ((7 + 5 * (pos - LEAF_START_POSITION)) % 64) : b \in bits} \cap WordBits

NodeMask(pos) == {(pos - 1) % 64}

(* IS_OCCUPIED_LEFT, IS_COALESCING_LEFT, ...: val == (val | mask). *)
IsSet(word, bit, pos) == LeafMask({bit}, pos) \subseteq word

IS_OCCUPIED(word, pos) == IsSet(word, OCCUPIED, pos)

(* Mutant: only leaves are tested. *)
AllocableInner(word, pos) ==
  pos < LEAF_START_POSITION \/ word \cap LeafMask(LEAF_FULL_MASK, pos) = {}

(* No bit of the node is set, coalescing bits included. *)
IS_ALLOCABLE(word, pos) ==
  word \cap (IF pos < LEAF_START_POSITION THEN NodeMask(pos) ELSE LeafMask(LEAF_FULL_MASK, pos)) = {}

(* The bits the parent leaf of bunch root b keeps for b, and for its buddy. *)
OwnSide(b)   == IF is_left_by_idx(b) THEN LEFT ELSE RIGHT
OwnCoalBit(b) == IF is_left_by_idx(b) THEN COAL_LEFT ELSE COAL_RIGHT
BuddySide(b) == IF is_left_by_idx(b) THEN RIGHT ELSE LEFT

(* Positions strictly above pos; pos and what is below it. *)
Above(pos)   == {pos \div 2^k : k \in 1 .. 3} \ {0}
AtOrBelow(pos) == {q \in 1 .. 15 : q = pos \/ pos \in Above(q)}

NodeMasks(positions) ==
  UNION {IF q < LEAF_START_POSITION THEN NodeMask(q) ELSE {} : q \in positions}

LeafMasks(positions) ==
  UNION {IF q >= LEAF_START_POSITION THEN LeafMask(LOCK_LEAF, q) ELSE {} : q \in positions}

(* Mutant: the blocks below pos stay free. *)
OccupiesBranch(pos, word) == word \cup NodeMasks({pos} \cup Above(pos)) \cup LeafMasks({pos})

(* The branch of pos in its container and everything below pos, all set. *)
occupa_container(pos, word) ==
  word \cup NodeMasks(Above(pos) \cup AtOrBelow(pos)) \cup LeafMasks(AtOrBelow(pos))

(* CHECK_BROTHER_OCCUPIED stops a walk upwards. *)
Brother(pos) == IF is_left_by_idx(pos) THEN pos + 1 ELSE pos - 1

Blocked(word, pos) ==
  {q \in {pos} \cup Above(pos) : q > 1 /\ ~IS_ALLOCABLE(word, Brother(q))}

CleanableAll(word, pos) == Above(pos)   \* Mutant: the walk is not stopped.

(* The ancestors a walk from pos reaches before it is stopped. *)
Cleanable(word, pos) == {a \in Above(pos) : \A q \in Blocked(word, pos) : q <= a}

(* Where the walk ends, p_pos. *)
WalkEnd(word, pos) ==
  CHOOSE q \in {pos} \cup Above(pos) \cup {1} :
    IF Blocked(word, pos) = {} THEN q = 1
    ELSE q \in Blocked(word, pos) /\ \A r \in Blocked(word, pos) : r <= q

ClearAbove(pos, word) == word \ NodeMasks(Cleanable(word, pos))

(* Mutant: the leaves stay locked. *)
LiberaInner(pos, word) == ClearAbove(pos, word) \ NodeMasks(AtOrBelow(pos))

(* The node itself is freed even when the walk is stopped; coalescing bits *)
(* of its leaves stay.                                                     *)
libera_container(pos, word) ==
  (ClearAbove(pos, word) \ NodeMasks(AtOrBelow(pos))) \ LeafMasks(AtOrBelow(pos))

(***************************************************************************)
(* The system.                                                             *)
(***************************************************************************)
VARIABLES
  nodes,          (* The word of every container.                          *)
  br,             (* The bunch root whose parent leaf is next.             *)
  p_pos,          (* smarca: the position its loop works on.               *)
  old_val,        (* smarca: the word read before the CAS.                 *)
  new_val,        (* smarca: the word to be written.                       *)
  do_exit         (* smarca: the walk was stopped by a busy brother.       *)

smarca_locals == <<p_pos, old_val, new_val, do_exit>>
vars == <<nodes, glock, pc, target, br, upper_bound, failed_at, smarca_locals, held>>

Locations ==
  {"idle", "check_parent", "alloc_done",
   "marca", "libera", "smarca", "smarca_cas", "free_done", "endless"}

TypeOK ==
  /\ nodes \in [Bunches -> SUBSET WordBits]
  /\ CallersTypeOK
  /\ pc \in [Threads -> Locations]
  /\ br \in [Threads -> Bunches \cup {0}]
  /\ p_pos \in [Threads -> 0 .. 15]
  /\ old_val \in [Threads -> SUBSET WordBits]
  /\ new_val \in [Threads -> SUBSET WordBits]
  /\ do_exit \in [Threads -> BOOLEAN]

Init ==
  /\ nodes = [b \in Bunches |-> {}]
  /\ CallersInit
  /\ br = [t \in Threads |-> 0]
  /\ p_pos = [t \in Threads |-> 0]
  /\ old_val = [t \in Threads |-> {}]
  /\ new_val = [t \in Threads |-> {}]
  /\ do_exit = [t \in Threads |-> FALSE]

At(t, loc) == pc[t] = loc

(***************************************************************************)
(* alloc and check_parent.                                                 *)
(***************************************************************************)
AllocStart(t, n) ==
  LET b == BUNCHROOT(n)
  IN /\ At(t, "idle")
     /\ BD_LOCK(t)
     /\ target' = [target EXCEPT ![t] = n]
     /\ IF ~IS_ALLOCABLE(nodes[b], container_pos(n))
        THEN /\ failed_at' = [failed_at EXCEPT ![t] = n]
             /\ Goto(t, "alloc_done")
             /\ UNCHANGED <<nodes, br>>
        ELSE /\ nodes' = [nodes EXCEPT ![b] = occupa_container(container_pos(n), @)]
             /\ br' = [br EXCEPT ![t] = b]
             /\ Goto(t, IF br_level(n) <= max_level THEN "alloc_done" ELSE "check_parent")
             /\ UNCHANGED failed_at
     /\ UNCHANGED <<upper_bound, smarca_locals, held>>

(* Mutant: the nodes above the leaf are not marked. *)
FragmentedLeaf(word, b) ==
  LET pos == container_pos(parent_idx_by_idx(b))
  IN (word \ LeafMask({OwnCoalBit(b)}, pos)) \cup LeafMask({OwnSide(b)}, pos)

(* The branch of the parent leaf of bunch root b, marked for b. *)
Fragmented(word, b) ==
  LET pos == container_pos(parent_idx_by_idx(b))
  IN (word \ LeafMask({OwnCoalBit(b)}, pos))
       \cup LeafMask({OwnSide(b)}, pos) \cup NodeMasks(Above(pos))

(* Mutant: the walk starts from the node, not from the root of its bunch. *)
ReleaseFromNode(t, n, bound) ==
  /\ upper_bound' = [upper_bound EXCEPT ![t] = bound]
  /\ br' = [br EXCEPT ![t] = n]
  /\ Goto(t, IF br_level(n) > bound THEN "marca" ELSE "libera")

(* internal_free_node skips marca when the bound is in the bunch of n. *)
ReleaseFrom(t, n, bound) ==
  /\ upper_bound' = [upper_bound EXCEPT ![t] = bound]
  /\ br' = [br EXCEPT ![t] = BUNCHROOT(n)]
  /\ Goto(t, IF br_level(n) > bound THEN "marca" ELSE "libera")

(* A busy parent leaf starts the rollback up to the level below it. *)
CheckParent(t) ==
  LET b == br[t]
      p == parent_idx_by_idx(b)
      c == BUNCHROOT(p)
  IN /\ At(t, "check_parent")
     /\ IF IS_OCCUPIED(nodes[c], container_pos(p))
        THEN /\ failed_at' = [failed_at EXCEPT ![t] = p]
             /\ ReleaseFrom(t, target[t], level_by_idx(b))
             /\ UNCHANGED nodes
        ELSE /\ nodes' = [nodes EXCEPT ![c] = Fragmented(@, b)]
             /\ br' = [br EXCEPT ![t] = c]
             /\ Goto(t, IF level_by_idx(c) <= max_level THEN "alloc_done" ELSE "check_parent")
             /\ UNCHANGED <<upper_bound, failed_at>>
     /\ UNCHANGED <<glock, target, smarca_locals, held>>

ForgetLocals(t) ==
  /\ Leave(t)
  /\ br' = [br EXCEPT ![t] = 0]
  /\ p_pos' = [p_pos EXCEPT ![t] = 0]
  /\ old_val' = [old_val EXCEPT ![t] = {}]
  /\ new_val' = [new_val EXCEPT ![t] = {}]
  /\ do_exit' = [do_exit EXCEPT ![t] = FALSE]

AllocReturn(t) ==
  /\ At(t, "alloc_done")
  /\ held' = held \cup Granted(t)
  /\ BD_UNLOCK(t)
  /\ ForgetLocals(t)
  /\ UNCHANGED nodes

(***************************************************************************)
(* internal_free_node: marca, libera_container, smarca.                    *)
(***************************************************************************)
FreeStart(t, n) ==
  /\ At(t, "idle")
  /\ n \in held
  /\ BD_LOCK(t)
  /\ held' = held \ {n}
  /\ target' = [target EXCEPT ![t] = n]
  /\ ReleaseFrom(t, n, max_level)
  /\ UNCHANGED <<nodes, failed_at, smarca_locals>>

(* A leaf that is coalescing already ends the marking. *)
Marca(t) ==
  LET b == br[t]
      p == parent_idx_by_idx(b)
      c == BUNCHROOT(p)
  IN /\ At(t, "marca")
     /\ IF IsSet(nodes[c], OwnCoalBit(b), container_pos(p))
        THEN Goto(t, "libera") /\ UNCHANGED <<nodes, br>>
        ELSE /\ nodes' = [nodes EXCEPT ![c] = @ \cup LeafMask({OwnCoalBit(b)}, container_pos(p))]
             /\ br' = [br EXCEPT ![t] = c]
             /\ Goto(t, IF level_by_idx(c) > upper_bound[t] THEN "marca" ELSE "libera")
     /\ UNCHANGED <<glock, target, upper_bound, failed_at, smarca_locals, held>>

(* smarca goes on from bunch root b, or the release is over. *)
SmarcaFrom(t, b, goes_on) ==
  IF goes_on
  THEN /\ br' = [br EXCEPT ![t] = b]
       /\ p_pos' = [p_pos EXCEPT ![t] = container_pos(parent_idx_by_idx(b))]
       /\ Goto(t, "smarca")
  ELSE Goto(t, FreeDone(t)) /\ UNCHANGED <<br, p_pos>>

Libera(t) ==
  LET n == target[t]
      b == BUNCHROOT(n)
      pos == container_pos(n)
  IN /\ At(t, "libera")
     /\ nodes' = [nodes EXCEPT ![b] = libera_container(pos, @)]
     /\ SmarcaFrom(t, b, br_level(n) > upper_bound[t] /\ Blocked(nodes[b], pos) = {})
     /\ UNCHANGED <<glock, target, upper_bound, failed_at, old_val, new_val, do_exit, held>>

(* The new word is computed from position p_pos.  If the buddy is busy the *)
(* walk is skipped.  A walk from position 1 or 0 runs past the root: it    *)
(* ends only if the root of the container is busy.                         *)
SmarcaRead(t) ==
  LET b == br[t]
      pos == p_pos[t]
      word == nodes[BUNCHROOT(parent_idx_by_idx(b))]
      clean == word \ LeafMask({OwnCoalBit(b), OwnSide(b)}, pos)
      Writes(new, end, exit) ==
        /\ old_val' = [old_val EXCEPT ![t] = word]
        /\ new_val' = [new_val EXCEPT ![t] = new]
        /\ p_pos' = [p_pos EXCEPT ![t] = end]
        /\ do_exit' = [do_exit EXCEPT ![t] = exit]
        /\ Goto(t, "smarca_cas")
  IN /\ At(t, "smarca")
     /\ \/ /\ ~IsSet(word, OwnCoalBit(b), pos)
           /\ Goto(t, FreeDone(t))
           /\ UNCHANGED smarca_locals
        \/ /\ IsSet(word, OwnCoalBit(b), pos)
           /\ IsSet(clean, BuddySide(b), pos)
           /\ Writes(clean, pos, TRUE)
        \/ /\ IsSet(word, OwnCoalBit(b), pos)
           /\ ~IsSet(clean, BuddySide(b), pos)
           /\ IF pos > 1
              THEN Writes(ClearAbove(pos, clean), WalkEnd(clean, pos), Blocked(clean, pos) # {})
              ELSE IF IS_ALLOCABLE(clean, 1)
              THEN Goto(t, "endless") /\ UNCHANGED smarca_locals
              ELSE Writes(clean, 0, TRUE)
     /\ UNCHANGED <<nodes, glock, target, br, upper_bound, failed_at, held>>

(* A failed CAS goes back to the read, with p_pos as the walk left it. *)
SmarcaCAS(t) ==
  LET c == BUNCHROOT(parent_idx_by_idx(br[t]))
  IN /\ At(t, "smarca_cas")
     /\ IF new_val[t] = old_val[t] \/ nodes[c] = old_val[t]
        THEN /\ nodes' = [nodes EXCEPT ![c] = IF new_val[t] = old_val[t] THEN @ ELSE new_val[t]]
             /\ SmarcaFrom(t, c, level_by_idx(c) > upper_bound[t] /\ ~do_exit[t])
        ELSE Goto(t, "smarca") /\ UNCHANGED <<nodes, br, p_pos>>
     /\ old_val' = [old_val EXCEPT ![t] = {}]
     /\ new_val' = [new_val EXCEPT ![t] = {}]
     /\ do_exit' = [do_exit EXCEPT ![t] = FALSE]
     /\ UNCHANGED <<glock, target, upper_bound, failed_at, held>>

FreeReturn(t) ==
  /\ At(t, "free_done")
  /\ BD_UNLOCK(t)
  /\ ForgetLocals(t)
  /\ UNCHANGED <<nodes, held>>

(* What t does on its own between the call of an operation and its return. *)
Inside(t) ==
  \/ CheckParent(t) \/ Marca(t) \/ Libera(t) \/ SmarcaRead(t) \/ SmarcaCAS(t)

Step(t) == Inside(t) \/ AllocReturn(t) \/ FreeReturn(t)

Next ==
  \E t \in Threads :
    \/ \E n \in Targets : AllocStart(t, n)
    \/ \E n \in Targets : FreeStart(t, n)
    \/ Step(t)

Spec == Init /\ [][Next]_vars

(***************************************************************************)
(* Properties of both builds.                                              *)
(***************************************************************************)

(* The node at position q of bunch b, or the leaf of the tree above a      *)
(* position that is lower than the tree.                                   *)
NodeAt(b, q) ==
  LET d == CHOOSE k \in 0 .. 3 : 2^k <= q /\ q < 2^(k + 1)
      way == {(b * 2^d + (q - 2^d)) \div 2^k : k \in 0 .. d} \cap Nodes
  IN CHOOSE n \in way : \A m \in way : m <= n

(* What the word of bunch b says when exactly `blocks` are in use: an inner*)
(* node is busy if a block in the bunch or below it shares memory with it; *)
(* a leaf tells a block that covers it from blocks in its two halves.      *)
(* Blocks in a bunch above b leave no trace in b.                          *)
ExactWord(b, blocks) ==
  LET below == {n \in blocks : Contains(b, n)}
      LeafStatus(m) ==
        IF \E n \in below : Contains(n, m) THEN LOCK_LEAF
        ELSE {side \in {LEFT, RIGHT} :
                \E n \in below : Contains(lchild_idx_by_idx(m) + (IF side = LEFT THEN 0 ELSE 1), n)}
      InnerPart == UNION {IF \E n \in below : Overlap(NodeAt(b, q), n) THEN NodeMask(q) ELSE {} : q \in 1 .. 7}
      LeafPart == UNION {LeafMask(LeafStatus(NodeAt(b, q)), q) : q \in 8 .. 15}
  IN InnerPart \cup LeafPart

(* t has set target[t] busy and has not freed it yet. *)
Owns(t) ==
  \/ pc[t] \in {"check_parent", "marca", "libera"}
  \/ pc[t] = "alloc_done" /\ failed_at[t] = 0

Owned == held \cup {target[t] : t \in {u \in Threads : Owns(u)}}

IsBottom(b) == \A c \in Bunches \ {b} : ~Contains(b, c)

(* A container with no bunch below it is changed by the allocations and    *)
(* releases of its own nodes only, one CAS each: its word says at every    *)
(* moment exactly which of its nodes have an owner.                        *)
BottomExact == \A b \in Bunches : IsBottom(b) => nodes[b] = ExactWord(b, Owned)

(* Two operations never own overlapping nodes of such a container, and no  *)
(* thread owns a node that a caller holds.                                 *)
BottomDisjoint ==
  LET InBottom(n) == IsBottom(BUNCHROOT(n))
  IN /\ \A m, n \in Owned :
          InBottom(m) /\ BUNCHROOT(m) = BUNCHROOT(n) /\ m # n => ~Overlap(m, n)
     /\ \A t \in Threads : Owns(t) /\ InBottom(target[t]) =>
          /\ target[t] \notin held
          /\ \A u \in Threads \ {t} : Owns(u) => target[u] # target[t]

CoalescingBits == UNION {LeafMask({COAL_LEFT, COAL_RIGHT}, pos) : pos \in 8 .. 15}

(* When nothing is allocated and nobody is inside, at most coalescing bits *)
(* are left in the words, as the comment on smarca says.                   *)
OnlyCoalescingLeft ==
  Quiescent /\ held = {} => \A b \in Bunches : nodes[b] \subseteq CoalescingBits

(***************************************************************************)
(* Properties of the blocking build.                                       *)
(***************************************************************************)

(* Whenever the lock is free the words of all bunches say exactly which    *)
(* blocks are held.  A release whose walk was stopped leaves its           *)
(* coalescing bits behind, but only beside the bit of a half still in use: *)
(* no free leaf looks busy, and the next release finds its marks.          *)
TreeReflectsHeld ==
  glock = NoOwner =>
    \A b \in Bunches :
      /\ nodes[b] \ CoalescingBits = ExactWord(b, held)
      /\ \A pos \in 8 .. 15 :
           /\ IsSet(nodes[b], COAL_LEFT, pos)  => IsSet(nodes[b], LEFT, pos)
           /\ IsSet(nodes[b], COAL_RIGHT, pos) => IsSet(nodes[b], RIGHT, pos)
=============================================================================
