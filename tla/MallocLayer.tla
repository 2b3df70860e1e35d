----------------------------- MODULE MallocLayer -----------------------------
(***************************************************************************)
(* bd_xx_malloc and bd_xx_free, the same text in allocators/1lvl-nb and    *)
(* allocators/4lvl-nb: rounding of the request, the thread's starting node *)
(* (its cache, or an even spread by thread id), the search of the level,   *)
(* the table that translates an address back to its node.  The actions     *)
(* here say what a step does to the layer's own variables; NBMalloc and    *)
(* NB4Malloc join each with the step of their node protocol it comes with. *)
(***************************************************************************)
EXTENDS NodeProtocol, Integers

CONSTANTS
  MIN_ALLOCABLE_BYTES,
  Requests,           (* Byte counts callers ask for.                      *)
  MaxRequests         (* Bound on the requests made, all threads together. *)

ASSUME MallocAssumption ==
  /\ \E k \in 0 .. 20 : MIN_ALLOCABLE_BYTES = 2^k /\ k + MAX_ORDER <= 30
  /\ Requests \subseteq Nat
  /\ MaxRequests \in Nat

(* Byte counts are powers of two below 2^31: upper_power_of_two rounds in  *)
(* 32 bits.                                                                *)
ASSUME BytePowersAssumption == \A k \in 0 .. 29 : 2^(k + 1) = 2 * 2^k

VARIABLES
  tid,                (* Thread id, -1 until the first request.            *)
  partecipants,       (* Threads that have made a request.                 *)
  freemap,            (* Per thread and level: where to start searching.   *)
  free_tree,          (* First leaf of a block -> the allocated node.      *)
  phase,              (* Where each thread is in malloc or free.           *)
  byte,               (* The rounded request.                              *)
  actual,             (* The node the search is at.                        *)
  started_at,         (* The node the search began with.                   *)
  restarted,          (* The search has wrapped to the start of the level. *)
  requests,           (* Requests made so far, for the bound.              *)
  checked,            (* Ghost: the nodes that made the attempts fail.     *)
  given               (* Ghost: regions callers have, [addr, size].        *)

search == <<byte, actual, started_at, restarted, checked>>
mvars  == <<tid, partecipants, freemap, free_tree, phase, search, requests, given>>

number_of_leaves    == 2^(NUM_LEVELS - 1)
overall_memory_size == MIN_ALLOCABLE_BYTES * number_of_leaves
MAX_ALLOCABLE_BYTES == MIN_ALLOCABLE_BYTES * 2^MAX_ORDER

(* The smallest power of two not below v; v-- wraps at 0 and v++ wraps it  *)
(* back to 0.                                                              *)
upper_power_of_two(v) ==
  IF v = 0 THEN 0
  ELSE CHOOSE p \in {2^k : k \in 0 .. 30} : v <= p /\ p < 2 * v

Rounded(request) ==
  LET b == upper_power_of_two(request)
  IN IF b < MIN_ALLOCABLE_BYTES THEN MIN_ALLOCABLE_BYTES ELSE b

starting_node(b) == overall_memory_size \div b
last_node(b)     == lchild_idx_by_idx(starting_node(b)) - 1
searched_lvl(b)  == level_by_idx(starting_node(b))
LevelNodes(b)    == starting_node(b) .. last_node(b)

(* The cells of node n, as a region. *)
RegionOf(n) ==
  LET size == 2^(NUM_LEVELS - level_by_idx(n))
  IN [addr |-> size * (n - number_of_leaves \div size), size |-> size]

MallocTypeOK ==
  /\ tid \in [Threads -> Nat \cup {-1}]
  /\ partecipants \in Nat
  /\ freemap \in [Threads -> [1 .. NUM_LEVELS -> Indexes]]
  /\ free_tree \in [0 .. (number_of_leaves - 1) -> Indexes]
  /\ phase \in [Threads -> {"out", "start", "try", "allocating", "freeing"}]
  /\ byte \in [Threads -> Nat]
  /\ actual \in [Threads -> Indexes]
  /\ started_at \in [Threads -> Indexes]
  /\ restarted \in [Threads -> BOOLEAN]
  /\ checked \in [Threads -> SUBSET Nodes]
  /\ requests \in 0 .. MaxRequests

MallocInit ==
  /\ tid = [t \in Threads |-> -1]
  /\ partecipants = 0
  /\ freemap = [t \in Threads |-> [l \in 1 .. NUM_LEVELS |-> 0]]
  /\ free_tree = [leaf \in 0 .. (number_of_leaves - 1) |-> 0]
  /\ phase = [t \in Threads |-> "out"]
  /\ byte = [t \in Threads |-> 0]
  /\ actual = [t \in Threads |-> 0]
  /\ started_at = [t \in Threads |-> 0]
  /\ restarted = [t \in Threads |-> FALSE]
  /\ checked = [t \in Threads |-> {}]
  /\ requests = 0
  /\ given = {}

To(t, from, to) ==
  /\ phase[t] = from
  /\ phase' = [phase EXCEPT ![t] = to]

ForgetSearch(t) ==
  /\ byte' = [byte EXCEPT ![t] = 0]
  /\ actual' = [actual EXCEPT ![t] = 0]
  /\ started_at' = [started_at EXCEPT ![t] = 0]
  /\ restarted' = [restarted EXCEPT ![t] = FALSE]
  /\ checked' = [checked EXCEPT ![t] = {}]

(***************************************************************************)
(* bd_xx_malloc.                                                           *)
(***************************************************************************)

(* Register on the first request. *)
Register(t) ==
  IF tid[t] = -1
  THEN /\ tid' = [tid EXCEPT ![t] = partecipants]
       /\ partecipants' = partecipants + 1
  ELSE UNCHANGED <<tid, partecipants>>

(* 1lvl also compares with overall_memory_size, which is no smaller: init   *)
(* aborts otherwise.                                                       *)
TooLarge(request) == request > MAX_ALLOCABLE_BYTES

MallocCall(t, request) ==
  /\ ~TooLarge(request)
  /\ requests < MaxRequests
  /\ requests' = requests + 1
  /\ To(t, "out", "start")
  /\ Register(t)
  /\ byte' = [byte EXCEPT ![t] = Rounded(request)]
  /\ UNCHANGED <<freemap, free_tree, actual, started_at, restarted, checked, given>>

(* The request is refused, the thread stays registered. *)
MallocTooLarge(t, request) ==
  /\ TooLarge(request)
  /\ phase[t] = "out"
  /\ Register(t)
  /\ UNCHANGED <<freemap, free_tree, phase, search, requests, given>>

(* get_freemap takes the cached node and moves the cache to the next one,  *)
(* or empties it before the last node of the level.                        *)
AdvancedPastEnd(cached, max) == IF cached # 0 THEN cached + 1 ELSE 0  \* Mutant.
Advanced(cached, max) == IF cached # 0 /\ cached + 1 < max THEN cached + 1 ELSE 0

(* partecipants is read here, after the registration: others may have      *)
(* registered in between.                                                  *)
Width(b)          == last_node(b) - starting_node(b) + 1
SpreadByThread(t) == starting_node(byte[t]) + tid[t] * Width(byte[t])   \* Mutant: not divided.
Spread(t)         == starting_node(byte[t]) + tid[t] * (Width(byte[t]) \div partecipants)

ChooseStart(t) ==
  LET b == byte[t]
      cached == freemap[t][searched_lvl(b)]
      start == IF cached # 0 THEN cached ELSE Spread(t)
  IN /\ To(t, "start", "try")
     /\ freemap' = [freemap EXCEPT ![t][searched_lvl(b)] = Advanced(cached, last_node(b))]
     /\ actual' = [actual EXCEPT ![t] = start]
     /\ started_at' = [started_at EXCEPT ![t] = start]
     /\ UNCHANGED <<tid, partecipants, free_tree, byte, restarted, checked, requests, given>>

TryNode(t) ==
  /\ To(t, "try", "allocating")
  /\ UNCHANGED <<tid, partecipants, freemap, free_tree, search, requests, given>>

LeafUnscaled(t)  == actual[t] - starting_node(byte[t])   \* Mutant: in blocks.
leaf_position(t) ==
  (byte[t] * (actual[t] - starting_node(byte[t]))) \div MIN_ALLOCABLE_BYTES

(* Mutant: an entry of the table, once set, is kept. *)
TranslatedOnce(t) ==
  [free_tree EXCEPT ![leaf_position(t)] = IF @ = 0 THEN actual[t] ELSE @]
Translated(t) == [free_tree EXCEPT ![leaf_position(t)] = actual[t]]

(* The translation table, the cache and the address are written before the *)
(* caller knows the block, so no other thread can tell when.               *)
MallocReturn(t) ==
  LET b == byte[t]
      s == starting_node(b)
  IN /\ failed_at[t] = 0
     /\ To(t, "allocating", "out")
     /\ free_tree' = Translated(t)
     /\ freemap' = [freemap EXCEPT ![t][searched_lvl(b)] = s + ((actual[t] + 1) % s)]
     /\ given' = given \cup {[addr |-> leaf_position(t), size |-> b \div MIN_ALLOCABLE_BYTES]}
     /\ ForgetSearch(t)
     /\ UNCHANGED <<tid, partecipants, requests>>

(* The next node to try: past everything inside the node that failed. *)
Beyond(failed, b) == (failed + 1) * 2^(searched_lvl(b) - level_by_idx(failed))

(* The attempt failed: go on behind it, wrap, or give up and return NULL.  *)
Wrap(t)        == Beyond(failed_at[t], byte[t]) > last_node(byte[t])
NextActual(t)  == IF Wrap(t) THEN starting_node(byte[t]) ELSE Beyond(failed_at[t], byte[t])
EndsAtWrap(t)  == Wrap(t) \* Mutant: one pass, whatever the first node was.
SearchEnded(t) == (restarted[t] \/ Wrap(t)) /\ NextActual(t) >= started_at[t]

NowChecked(t) == checked[t] \cup {failed_at[t]}

MallocNextNode(t) ==
  /\ failed_at[t] # 0
  /\ ~SearchEnded(t)
  /\ To(t, "allocating", "try")
  /\ actual' = [actual EXCEPT ![t] = NextActual(t)]
  /\ restarted' = [restarted EXCEPT ![t] = @ \/ Wrap(t)]
  /\ checked' = [checked EXCEPT ![t] = NowChecked(t)]
  /\ UNCHANGED <<tid, partecipants, freemap, free_tree, byte, started_at, requests, given>>

MallocReturnNull(t) ==
  /\ failed_at[t] # 0
  /\ SearchEnded(t)
  /\ To(t, "allocating", "out")
  /\ ForgetSearch(t)
  /\ UNCHANGED <<tid, partecipants, freemap, free_tree, requests, given>>

(***************************************************************************)
(* bd_xx_free of a region a caller has, from any thread.                   *)
(***************************************************************************)
FreeCall(t, r) ==
  LET pos == free_tree[r.addr]
  IN /\ To(t, "out", "freeing")
     /\ freemap' = [freemap EXCEPT ![t][level_by_idx(pos)] = pos]
     /\ given' = given \ {r}
     /\ UNCHANGED <<tid, partecipants, free_tree, search, requests>>

FreeEnds(t) ==
  /\ To(t, "freeing", "out")
  /\ UNCHANGED <<tid, partecipants, freemap, free_tree, search, requests, given>>

(***************************************************************************)
(* Properties.                                                             *)
(***************************************************************************)

(* The table translates the address of every outstanding region to the     *)
(* node that was allocated for it, and exactly those nodes are busy: a     *)
(* release finds its own block, of the size promised, whatever was         *)
(* allocated at other sizes at the same address before.                    *)
FreeFindsBlock ==
  /\ \A r \in given : RegionOf(free_tree[r.addr]) = r
  /\ {free_tree[r.addr] : r \in given} = held

(* A search never leaves its level, wherever the cache, the spread by      *)
(* thread id, or the jump behind a failed node send it.                    *)
SearchStaysInLevel ==
  /\ \A t \in Threads : phase[t] \in {"try", "allocating"}
       => {actual[t], started_at[t]} \subseteq LevelNodes(byte[t])
  /\ \A t \in Threads : \A l \in 1 .. NUM_LEVELS :
       freemap[t][l] # 0 => level_by_idx(freemap[t][l]) = l

(* NULL is returned only when every node of the level was found busy, or   *)
(* was skipped because it lies in a node that was.                         *)
NullAfterAllChecked ==
  [][\A t \in Threads :
       phase[t] = "allocating" /\ phase'[t] = "out" /\ failed_at[t] # 0
         => \A n \in LevelNodes(byte[t]) : \E m \in NowChecked(t) : Contains(m, n)]_<<mvars, failed_at>>

(* Callers see a buddy allocator: aligned, disjoint, power-of-two regions. *)
Buddy == INSTANCE Allocator
           WITH Cells <- number_of_leaves, Sizes <- {2^k : k \in 0 .. MAX_ORDER}

ImplementsAllocator == Buddy!Spec

(* The same of the steps alone, wherever they start. *)
AllocatorSteps == [][Buddy!Next]_given

(* The search of a level ends, with a block or with NULL, once all nodes   *)
(* have been checked.                                                      *)
SearchEnds == \A t \in Threads : phase[t] = "try" ~> phase[t] = "out"
=============================================================================
