----------------------------- MODULE NodeProtocol -----------------------------
(***************************************************************************)
(* What the one-level and the bunch-based buddy system have in common: the *)
(* tree, the threads that allocate and release its nodes, the global lock  *)
(* of their blocking builds, the outcome of an attempt, and what callers   *)
(* are promised.  A thread runs at most one operation at a time.           *)
(***************************************************************************)
EXTENDS BuddyTree

CONSTANTS
  Threads,        (* Threads that call the allocator.                      *)
  NoOwner,        (* glock is free.                                        *)
  Targets,        (* Nodes the callers ask for.                            *)
  BD_SPIN_LOCK    (* TRUE for 1lvl-sl and 4lvl-sl, FALSE for the nb builds.*)

ASSUME TreeAssumption ==
  /\ NoOwner \notin Threads
  /\ Targets \subseteq Allocable
  /\ BD_SPIN_LOCK \in BOOLEAN

VARIABLES
  glock,          (* Holder of the lock, unused when BD_SPIN_LOCK = FALSE. *)
  pc,             (* Where each thread is.                                 *)
  target,         (* n: the node being allocated or released.              *)
  upper_bound,    (* The level at which a release stops marking.           *)
  failed_at,      (* failed_at_node: the node that made alloc fail, or 0.  *)
  held            (* Ghost: the nodes handed to callers, not yet released. *)

CallersTypeOK ==
  /\ glock \in Threads \cup {NoOwner}
  /\ target \in [Threads -> Indexes]
  /\ upper_bound \in [Threads -> Nat]
  /\ failed_at \in [Threads -> Indexes]
  /\ held \subseteq Targets

CallersInit ==
  /\ glock = NoOwner
  /\ pc = [t \in Threads |-> "idle"]
  /\ target = [t \in Threads |-> 0]
  /\ upper_bound = [t \in Threads |-> 0]
  /\ failed_at = [t \in Threads |-> 0]
  /\ held = {}

Goto(t, loc) == pc' = [pc EXCEPT ![t] = loc]

NoLock(t) == UNCHANGED glock   \* Mutant: BD_LOCK forgotten.

BD_LOCK(t) ==
  IF BD_SPIN_LOCK THEN glock = NoOwner /\ glock' = t ELSE UNCHANGED glock

BD_UNLOCK(t) ==
  IF BD_SPIN_LOCK THEN glock' = NoOwner ELSE UNCHANGED glock

(* Mutant: the return value of alloc is taken for the node. *)
GrantedReturnValue(t) == {failed_at[t]}

(* alloc returns 0 and the caller holds the node, or the node it failed at.*)
Granted(t) == IF failed_at[t] = 0 THEN {target[t]} ELSE {}

(* The operation of t is over. *)
Leave(t) ==
  /\ target' = [target EXCEPT ![t] = 0]
  /\ upper_bound' = [upper_bound EXCEPT ![t] = 0]
  /\ failed_at' = [failed_at EXCEPT ![t] = 0]
  /\ Goto(t, "idle")

(* Where a release ends: failed_at # 0 tells a rollback, which continues   *)
(* in alloc, from a release requested by a caller.                         *)
FreeDone(t) == IF failed_at[t] = 0 THEN "free_done" ELSE "alloc_done"

(***************************************************************************)
(* Properties.                                                             *)
(***************************************************************************)

Quiescent == \A t \in Threads : pc[t] = "idle"

(* Blocks handed to callers are disjoint: no two of them are the same node *)
(* or an ancestor and its descendant.                                      *)
NoOverlap == \A a, b \in held : a # b => ~Overlap(a, b)

(* A block of S leaves no room for n: it overlaps n, or, when an ancestor  *)
(* f is named, it contains f, so that nothing below f is free either.      *)
NoRoomFor(S, n, f) ==
  /\ Contains(f, n)
  /\ \E m \in S : Contains(m, f) \/ (f = n /\ Overlap(m, n))

(* An attempt is refused only if a held block overlaps the node asked for  *)
(* and every node that bd_xx_malloc skips on the way out of the ancestor   *)
(* the attempt names.                                                      *)
RefusalJustified ==
  [][\A t \in Threads :
       pc[t] = "alloc_done" /\ failed_at[t] # 0 /\ pc'[t] = "idle"
         => NoRoomFor(held, target[t], failed_at[t])]_<<pc, target, failed_at, held>>

(* What callers see is an allocator of disjoint blocks. *)
Blocks == INSTANCE BlockAllocator

ImplementsBlocks == Blocks!Spec
=============================================================================
