---------------------------- MODULE BlockAllocator ----------------------------
(***************************************************************************)
(* What the node-level allocator promises its callers: blocks of the arena *)
(* are handed out whole, a block is free before it is handed out, nothing  *)
(* inside it or around it is, and only a held block is handed back.        *)
(***************************************************************************)
EXTENDS BuddyTree

CONSTANT Targets    (* The blocks callers ask for. *)

VARIABLE held       (* The blocks callers have.    *)

Init == held = {}

Acquire(n) ==
  /\ \A m \in held : ~Overlap(m, n)
  /\ held' = held \cup {n}

HandBack(n) ==
  /\ n \in held
  /\ held' = held \ {n}

Next == \E n \in Targets : Acquire(n) \/ HandBack(n)

Spec == Init /\ [][Next]_held
=============================================================================
