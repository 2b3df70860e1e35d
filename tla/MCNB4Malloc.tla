------------------------------ MODULE MCNB4Malloc ------------------------------
(* Small instances of NB4Malloc for TLC. *)
EXTENDS NB4Malloc, TLC

MCTargets == Allocable

Symmetry == Permutations(Threads)

(* A thread outside Threads, the first to register, has been given all the *)
(* largest blocks but the last, and keeps them.                            *)
FirstLargest == 2^(max_level - 1)

TenantNodes == FirstLargest .. (2 * FirstLargest - 2)

TenantRegions == {RegionOf(n) : n \in TenantNodes}

FullWord == occupa_container(1, {})

(* What its requests left behind. *)
TenantStart ==
  /\ nodes = [b \in Bunches |-> IF b \in TenantNodes THEN FullWord ELSE {}]
  /\ held = TenantNodes
  /\ given = TenantRegions
  /\ free_tree = [leaf \in 0 .. (number_of_leaves - 1) |->
                    LET n == FirstLargest + leaf \div 2^MAX_ORDER
                    IN IF leaf % 2^MAX_ORDER = 0 /\ n \in TenantNodes THEN n ELSE 0]
  /\ tid = [t \in Threads |-> -1]
  /\ partecipants = 1
  /\ freemap = [t \in Threads |-> [l \in 1 .. NUM_LEVELS |-> 0]]
  /\ requests = 0
  /\ glock = NoOwner
  /\ pc = [t \in Threads |-> "idle"]
  /\ phase = [t \in Threads |-> "out"]
  /\ do_exit = [t \in Threads |-> FALSE]
  /\ restarted = [t \in Threads |-> FALSE]
  /\ target = [t \in Threads |-> 0]
  /\ upper_bound = [t \in Threads |-> 0]
  /\ failed_at = [t \in Threads |-> 0]
  /\ br = [t \in Threads |-> 0]
  /\ p_pos = [t \in Threads |-> 0]
  /\ byte = [t \in Threads |-> 0]
  /\ actual = [t \in Threads |-> 0]
  /\ started_at = [t \in Threads |-> 0]
  /\ old_val = [t \in Threads |-> {}]
  /\ new_val = [t \in Threads |-> {}]
  /\ checked = [t \in Threads |-> {}]

(* Empty, or full but for one block of the largest size. *)
MCSpec == (MallocStart \/ TenantStart) /\ [][MallocNext]_allvars

HasTenant == partecipants > 0 /\ \A t \in Threads : tid[t] # 0

(* Next to the tenant only largest blocks are asked for: a search for      *)
(* another size would pass every block the tenant keeps.                   *)
TenantStays ==
  HasTenant =>
    /\ TenantRegions \subseteq given
    /\ \A t \in Threads : byte[t] \in {0, MAX_ALLOCABLE_BYTES}
=============================================================================
