-------------------------------- MODULE NBTree --------------------------------
(***************************************************************************)
(* The allocation and release protocol of the one-level buddy system       *)
(* (allocators/1lvl-nb/nballoc.c: alloc, internal_free_node, unmark), step *)
(* by step: one action per access to a shared word.  With BD_SPIN_LOCK the *)
(* same file is the blocking allocator (1lvl-sl): every attempt and every  *)
(* release run under glock.                                                *)
(*                                                                         *)
(* Each thread runs at most one operation.  An allocation sets its target  *)
(* busy and then marks the branch up to max_level; when it meets a busy    *)
(* ancestor it releases its target again (rollback).  A release marks the  *)
(* branch as coalescing, frees the target, and cleans the branch.          *)
(***************************************************************************)
EXTENDS NodeProtocol

VARIABLES
  tree,           (* The shared word of every node; tree[0] is the dummy.  *)
  cur,            (* actual / runner: how far the walk upwards has gone.   *)
  seen,           (* actual_value: the word read before a CAS.             *)
  abandoned       (* Ghost: the nodes a release left busy, see FreeCheck.  *)

vars ==
  <<tree, glock, pc, target, cur, seen, upper_bound, failed_at, held, abandoned>>

Locations ==
  {"idle", "climb", "climb_cas", "alloc_done",
   "free_enter", "free_check", "mark", "release", "unmark", "unmark_cas", "free_done",
   "aborted"}

TypeOK ==
  /\ tree \in [Indexes -> SUBSET Bits]
  /\ CallersTypeOK
  /\ pc \in [Threads -> Locations]
  /\ cur \in [Threads -> Indexes]
  /\ seen \in [Threads -> SUBSET Bits]
  /\ abandoned \subseteq Targets

(* init_tree zeroes every word; nobody is inside the allocator. *)
Init ==
  /\ tree = [n \in Indexes |-> FREE_BLOCK]
  /\ CallersInit
  /\ cur = [t \in Threads |-> 0]
  /\ seen = [t \in Threads |-> {}]
  /\ abandoned = {}

(* t is about to execute loc.  An assertion that fails aborts the whole    *)
(* process: no thread moves afterwards.                                    *)
At(t, loc) ==
  /\ pc[t] = loc
  /\ \A u \in Threads : pc[u] # "aborted"

(* The word a CAS of t on node p replaces is the one t read.  The blocking *)
(* build stores without comparing.                                         *)
CASAlways(t, p)   == TRUE   \* Mutant: the comparison is dropped.
CASSucceeds(t, p) == BD_SPIN_LOCK \/ tree[p] = seen[t]

(***************************************************************************)
(* alloc.                                                                  *)
(***************************************************************************)

NotBusy(word)         == "OCCUPY" \notin word   \* Mutant: ignores the children.
AlwaysAvailable(word) == TRUE                  \* Mutant: no test at all.

(* alloc only takes a node with no bit set. *)
Available(word) == word = FREE_BLOCK

(* The read of the target and the CAS from 0 are one step: both failures   *)
(* return n, and the read changes nothing when the CAS succeeds.  The lock *)
(* of the caller is taken in the same step.                                *)
AllocStart(t, n) ==
  /\ At(t, "idle")
  /\ BD_LOCK(t)
  /\ target' = [target EXCEPT ![t] = n]
  /\ IF ~Available(tree[n])
     THEN /\ failed_at' = [failed_at EXCEPT ![t] = n]
          /\ Goto(t, "alloc_done")
          /\ UNCHANGED <<tree, cur>>
     ELSE /\ tree' = [tree EXCEPT ![n] = OCCUPY_BLOCK]
          /\ cur' = [cur EXCEPT ![t] = n]
          /\ Goto(t, IF level_by_idx(n) = max_level THEN "alloc_done" ELSE "climb")
          /\ UNCHANGED failed_at
  /\ UNCHANGED <<seen, upper_bound, held, abandoned>>

Climbed(t, p) ==
  /\ cur' = [cur EXCEPT ![t] = p]
  /\ Goto(t, IF level_by_idx(p) = max_level THEN "alloc_done" ELSE "climb")

(* Mutant: the occupancy bit is not set. *)
OnlyUncoalesced(word, c) == word \ {OwnCoal(c)}

(* The word the allocation wants in the parent of node c. *)
Fragmented(word, c) == (word \ {OwnCoal(c)}) \cup {OwnOcc(c)}

(* Read the parent.  A busy parent starts the rollback up to the level     *)
(* below it; a word that needs no change is stepped over without a CAS.    *)
ClimbRead(t) ==
  LET c == cur[t]
      p == parent_idx_by_idx(c)
  IN /\ At(t, "climb")
     /\ \/ /\ "OCCUPY" \in tree[p]
           /\ failed_at' = [failed_at EXCEPT ![t] = p]
           /\ upper_bound' = [upper_bound EXCEPT ![t] = level_by_idx(p) + 1]
           /\ Goto(t, "free_enter")
           /\ UNCHANGED <<cur, seen>>
        \/ /\ "OCCUPY" \notin tree[p]
           /\ Fragmented(tree[p], c) = tree[p]
           /\ Climbed(t, p)
           /\ UNCHANGED <<seen, upper_bound, failed_at>>
        \/ /\ "OCCUPY" \notin tree[p]
           /\ Fragmented(tree[p], c) # tree[p]
           /\ seen' = [seen EXCEPT ![t] = tree[p]]
           /\ Goto(t, "climb_cas")
           /\ UNCHANGED <<cur, upper_bound, failed_at>>
     /\ UNCHANGED <<tree, glock, target, held, abandoned>>

(* Mutant: the word is not read again after a failed CAS. *)
ClimbCASNoReload(t) ==
  LET c == cur[t]
      p == parent_idx_by_idx(c)
  IN /\ At(t, "climb_cas")
     /\ CASSucceeds(t, p)
     /\ tree' = [tree EXCEPT ![p] = Fragmented(seen[t], c)]
     /\ Climbed(t, p)
     /\ seen' = [seen EXCEPT ![t] = {}]
     /\ UNCHANGED <<glock, target, upper_bound, failed_at, held, abandoned>>

ClimbCAS(t) ==
  LET c == cur[t]
      p == parent_idx_by_idx(c)
  IN /\ At(t, "climb_cas")
     /\ IF CASSucceeds(t, p)
        THEN /\ tree' = [tree EXCEPT ![p] = Fragmented(seen[t], c)]
             /\ Climbed(t, p)
        ELSE Goto(t, "climb") /\ UNCHANGED <<tree, cur>>
     /\ seen' = [seen EXCEPT ![t] = {}]
     /\ UNCHANGED <<glock, target, upper_bound, failed_at, held, abandoned>>

ForgetLocals(t) ==
  /\ Leave(t)
  /\ cur' = [cur EXCEPT ![t] = 0]
  /\ UNCHANGED seen

(* alloc returns 0 and the caller holds the node, or returns failed_at. *)
AllocReturn(t) ==
  /\ At(t, "alloc_done")
  /\ held' = held \cup Granted(t)
  /\ BD_UNLOCK(t)
  /\ ForgetLocals(t)
  /\ UNCHANGED <<tree, abandoned>>

(***************************************************************************)
(* internal_free_node and unmark.  failed_at # 0 tells a rollback, which   *)
(* continues in alloc, from a release requested by a caller.               *)
(***************************************************************************)
FreeStart(t, n) ==
  /\ At(t, "idle")
  /\ n \in held
  /\ BD_LOCK(t)
  /\ held' = held \ {n}
  /\ target' = [target EXCEPT ![t] = n]
  /\ upper_bound' = [upper_bound EXCEPT ![t] = max_level]
  /\ Goto(t, "free_enter")
  /\ UNCHANGED <<tree, cur, seen, failed_at, abandoned>>

(* assert(tree[n].val == OCCUPY_BLOCK). *)
FreeEnter(t) ==
  /\ At(t, "free_enter")
  /\ Goto(t, IF tree[target[t]] = OCCUPY_BLOCK THEN "free_check" ELSE "aborted")
  /\ UNCHANGED <<tree, glock, target, cur, seen, upper_bound, failed_at, held, abandoned>>

(* The word is read and tested once more.  When it has changed since the   *)
(* assertion, the release or the rollback returns and leaves the node busy,*)
(* with nobody to free it.                                                 *)
FreeCheck(t) ==
  /\ At(t, "free_check")
  /\ IF tree[target[t]] = OCCUPY_BLOCK
     THEN /\ cur' = [cur EXCEPT ![t] = target[t]]
          /\ Goto(t, IF level_by_idx(target[t]) = upper_bound[t]
                     THEN "release" ELSE "mark")
          /\ UNCHANGED abandoned
     ELSE /\ abandoned' = abandoned \cup {target[t]}
          /\ Goto(t, FreeDone(t))
          /\ UNCHANGED cur
  /\ UNCHANGED <<tree, glock, target, seen, upper_bound, failed_at, held>>

(* Phase 1, one fetch_and_or: announce the release in the parent, and stop *)
(* below an ancestor that the buddy keeps in use.                          *)
NeverInUse(word, c) == FALSE   \* Mutant: the walk is not stopped.
BuddyInUse(word, c) == BuddyOcc(c) \in word /\ BuddyCoal(c) \notin word

Mark(t) ==
  LET c == cur[t]
      p == parent_idx_by_idx(c)
  IN /\ At(t, "mark")
     /\ tree' = [tree EXCEPT ![p] = @ \cup {OwnCoal(c)}]
     /\ IF BuddyInUse(tree[p], c)
        THEN Goto(t, "release") /\ UNCHANGED cur
        ELSE /\ cur' = [cur EXCEPT ![t] = p]
             /\ Goto(t, IF level_by_idx(p) = upper_bound[t] THEN "release" ELSE "mark")
     /\ UNCHANGED <<glock, target, seen, upper_bound, failed_at, held, abandoned>>

(* Phase 2, a plain store.  The guard of phase 3 compares the INDEX of the *)
(* node with the LEVEL of the bound, as the code does.                     *)
Release(t) ==
  /\ At(t, "release")
  /\ tree' = [tree EXCEPT ![target[t]] = FREE_BLOCK]
  /\ cur' = [cur EXCEPT ![t] = target[t]]
  /\ Goto(t, IF target[t] # upper_bound[t] THEN "unmark" ELSE FreeDone(t))
  /\ UNCHANGED <<glock, target, seen, upper_bound, failed_at, held, abandoned>>

(* Phase 3, unmark: clean the bits of the branch in the parent.  A missing *)
(* coalescing bit means that a concurrent allocation has taken the branch. *)
CleanedBuddy(word, c) == word \ {OwnCoal(c), BuddyOcc(c)}  \* Mutant: wrong mask.
CleanedCoal(word, c)  == word \ {OwnCoal(c)}               \* Mutant: bit kept.
Cleaned(word, c) == word \ {OwnCoal(c), OwnOcc(c)}

UnmarkRead(t) ==
  LET c == cur[t]
      p == parent_idx_by_idx(c)
  IN /\ At(t, "unmark")
     /\ IF OwnCoal(c) \notin tree[p]
        THEN Goto(t, FreeDone(t)) /\ UNCHANGED seen
        ELSE /\ seen' = [seen EXCEPT ![t] = tree[p]]
             /\ Goto(t, "unmark_cas")
     /\ UNCHANGED <<tree, glock, target, cur, upper_bound, failed_at, held, abandoned>>

UnmarkCAS(t) ==
  LET c == cur[t]
      p == parent_idx_by_idx(c)
  IN /\ At(t, "unmark_cas")
     /\ IF CASSucceeds(t, p)
        THEN /\ tree' = [tree EXCEPT ![p] = Cleaned(seen[t], c)]
             /\ cur' = [cur EXCEPT ![t] = p]
             /\ Goto(t, IF /\ level_by_idx(p) # upper_bound[t]
                           /\ BuddyOcc(c) \notin Cleaned(seen[t], c)
                        THEN "unmark" ELSE FreeDone(t))
        ELSE Goto(t, "unmark") /\ UNCHANGED <<tree, cur>>
     /\ seen' = [seen EXCEPT ![t] = {}]
     /\ UNCHANGED <<glock, target, upper_bound, failed_at, held, abandoned>>

FreeReturn(t) ==
  /\ At(t, "free_done")
  /\ BD_UNLOCK(t)
  /\ ForgetLocals(t)
  /\ UNCHANGED <<tree, held, abandoned>>

(***************************************************************************)
(* The system.                                                             *)
(***************************************************************************)

(* What t does on its own between the call of an operation and its return. *)
Inside(t) ==
  \/ ClimbRead(t) \/ ClimbCAS(t)
  \/ FreeEnter(t) \/ FreeCheck(t) \/ Mark(t) \/ Release(t)
  \/ UnmarkRead(t) \/ UnmarkCAS(t)

Step(t) == Inside(t) \/ AllocReturn(t) \/ FreeReturn(t)

Next ==
  \E t \in Threads :
    \/ \E n \in Targets : AllocStart(t, n)
    \/ \E n \in Targets : FreeStart(t, n)
    \/ Step(t)

Spec == Init /\ [][Next]_vars

(***************************************************************************)
(* Properties of both builds.                                              *)
(***************************************************************************)

(* t has set target[t] busy and has not freed it yet. *)
Owns(t) ==
  \/ pc[t] \in {"climb", "climb_cas", "free_enter", "free_check", "mark",
                "release", "aborted"}
  \/ pc[t] = "alloc_done" /\ failed_at[t] = 0

(* A busy node has exactly one owner, and only an owned node is busy: the  *)
(* caller it was handed to, the one thread that is allocating or releasing *)
(* it, or nobody any more when a release gave up on it.  No CAS or         *)
(* fetch_and_or on a branch may raise, drop or duplicate the OCCUPY bit of *)
(* a node it passes.                                                       *)
OneOwner ==
  /\ \A n \in Nodes :
       "OCCUPY" \in tree[n] <=>
         n \in held \cup abandoned \/ \E t \in Threads : Owns(t) /\ target[t] = n
  /\ held \cap abandoned = {}
  /\ \A t \in Threads : Owns(t) => target[t] \notin held \cup abandoned
  /\ \A t, u \in Threads : Owns(t) /\ Owns(u) /\ target[t] = target[u] => t = u

(* The branch above a held block shows, up to max_level, that it is in     *)
(* use: the bits are all that stops an allocation of an enclosing block.   *)
(* A release or a rollback of another thread that cleans the branch keeps  *)
(* them in a tree of three levels and two threads, and in the blocking     *)
(* build of every height; in a taller tree of the lock-free build a late   *)
(* CAS of unmark clears one, which is how blocks come to overlap there.    *)
HeldBranchMarked ==
  \A n \in held : \A c \in Path[n] :
    LET p == parent_idx_by_idx(c)
    IN p >= 1 /\ level_by_idx(p) >= max_level
         => OwnOcc(c) \in tree[p] /\ "OCCUPY" \notin tree[p]

(* internal_free_node only ever runs on a node whose word is OCCUPY_BLOCK. *)
(* Of the blocking build: in the other one the late mark of a release below*)
(* can reach the word of a block that has been handed out since.           *)
NoAbort == \A t \in Threads : pc[t] # "aborted"

(* A node stops being busy in one way only: the thread that releases or    *)
(* rolls it back stores 0.  No other word update of any thread does it.    *)
OnlyOwnerFrees ==
  [][\A n \in Nodes :
       "OCCUPY" \in tree[n] /\ "OCCUPY" \notin tree'[n]
         => \E t \in Threads : pc[t] = "release" /\ pc'[t] # "release" /\ target[t] = n]_vars

(* t makes a step of an operation, its call included. *)
Operate(t) ==
  \/ \E n \in Targets : AllocStart(t, n) \/ FreeStart(t, n)
  \/ Step(t)

(* Lock freedom: as long as one thread goes on running, operations complete*)
(* again and again, even if all the others are stopped for ever in the     *)
(* middle of theirs.  The code never waits for a thread: a failed CAS of   *)
(* the one is the progress of another.  (The blocking build has no such    *)
(* property: the holder of the lock may be the one that is stopped.)       *)
LockFree ==
  \A t \in Threads :
    WF_vars(Operate(t)) =>
      \/ <>~NoAbort
      \/ []<><<\E u \in Threads : AllocReturn(u) \/ FreeReturn(u)>>_vars

(***************************************************************************)
(* Properties of the blocking build.                                       *)
(***************************************************************************)

(* The word of n when `blocks` are allocated and no operation is running.  *)
ExactWord(n, blocks) ==
  LET split == level_by_idx(n) >= max_level
      l == lchild_idx_by_idx(n)
  IN IF n \in blocks THEN OCCUPY_BLOCK
     ELSE (IF split /\ Subtree(l)     \cap blocks # {} THEN {"OCCUPY_LEFT"}  ELSE {})
     \cup (IF split /\ Subtree(l + 1) \cap blocks # {} THEN {"OCCUPY_RIGHT"} ELSE {})

(* Whenever the lock is free the words say exactly which blocks are held:  *)
(* no occupancy bit is missing, none is left over, and no coalescing bit   *)
(* outlives its release or rollback.                                       *)
TreeReflectsHeld ==
  glock = NoOwner => \A n \in Nodes : tree[n] = ExactWord(n, held)
=============================================================================
