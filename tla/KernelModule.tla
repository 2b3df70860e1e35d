----------------------------- MODULE KernelModule -----------------------------
(***************************************************************************)
(* The kernel module bd_api (kernel-bd-api/bd_api.c): init_module looks    *)
(* for unused entries of the system call table and stores its four calls   *)
(* there, one at a time; cleanup_module stores sys_ni_syscall back.  The   *)
(* programs of the kernel build reach the calls by the numbers of          *)
(* syscall_numbers.h, which nothing compares with the entries taken.       *)
(***************************************************************************)
EXTENDS Integers, FiniteSets

CONSTANTS
  Entries,      (* The entries init_module scans: 0 .. 255.                *)
  UnusedSets,   (* Which of them the kernel may leave unused.              *)
  NR            (* The number by which a program calls its benchmark.      *)

(* The calls, in the order in which they are installed. *)
Calls == <<"LS", "TT", "CO", "CA">>

ASSUME KernelAssumption ==
  /\ Entries \subseteq Nat
  /\ UnusedSets \subseteq SUBSET Entries
  /\ \A U \in UnusedSets : IsFiniteSet(U)
  /\ \A k \in 1 .. 4 : NR[Calls[k]] \in Entries

VARIABLES
  unused,       (* The entries that were sys_ni_syscall at boot.           *)
  table,        (* The table, and the word before it, at index -1.         *)
  restore,      (* The entries found.                                      *)
  module,       (* "absent", "loading", "loaded" or "unloading".           *)
  stored        (* Stores made so far by the loading or unloading.         *)

kernel == <<unused, table, restore, module, stored>>

NUM_BENCHMARKS == 5

NoneFound == [k \in 0 .. NUM_BENCHMARKS - 1 |-> IF k <= 1 THEN -1 ELSE 0]

Original == [n \in Entries \cup {-1} |-> IF n \in unused THEN "ni" ELSE "used"]

KernelInit ==
  /\ unused \in UnusedSets
  /\ table = Original
  /\ restore = NoneFound
  /\ module = "absent"
  /\ stored = 0

(* Mutant: the index is moved on before the first store. *)
FoundFromOne(k, U) == {n \in U : Cardinality({m \in U : m < n}) = k - 1}

(* The entry found in round k, if there are so many: the k-th smallest.    *)
Found(k, U) == {n \in U : Cardinality({m \in U : m < n}) = k}

Scan ==
  /\ module = "absent"
  /\ LET U == {n \in Entries : table[n] = "ni"}
     IN restore' = [k \in DOMAIN restore |->
                      IF Found(k, U) = {} THEN restore[k] ELSE CHOOSE n \in Found(k, U) : TRUE]
  /\ module' = "loading"
  /\ UNCHANGED <<unused, table, stored>>

(* One of the four stores, the last of which ends the phase. *)
Store(phase, word, next) ==
  /\ module = phase
  /\ table' = [table EXCEPT ![restore[stored]] = word]
  /\ stored' = (stored + 1) % 4
  /\ module' = IF stored = 3 THEN next ELSE phase

Install == Store("loading", Calls[stored + 1], "loaded") /\ UNCHANGED <<unused, restore>>

Rmmod ==
  /\ module = "loaded"
  /\ module' = "unloading"
  /\ UNCHANGED <<unused, table, restore, stored>>

(* A module that is loaded again starts with its data as compiled. *)
Remove ==
  /\ Store("unloading", "ni", "absent")
  /\ restore' = IF stored = 3 THEN NoneFound ELSE restore
  /\ UNCHANGED unused

KernelNext == Scan \/ Install \/ Rmmod \/ Remove

KernelSpec == KernelInit /\ [][KernelNext]_kernel

(***************************************************************************)
(* Properties.                                                             *)
(***************************************************************************)

(* After cleanup_module the table is what it was: no entry in use is lost, *)
(* none keeps pointing into the module.  With fewer than four unused       *)
(* entries the indexes restore[] is compiled with are stored to, -1 and 0: *)
(* those two words may be lost, but no other.                              *)
TableRestored ==
  module = "absent" =>
    \A n \in Entries \cup {-1} :
      table[n] = Original[n] \/ (Cardinality(unused) < 4 /\ n \in {-1, 0})

(* The programs call the entries the module takes: the numbers compiled    *)
(* into them are the first four unused ones, in the order of installation. *)
NumbersMatch == \A k \in 1 .. 4 : Found(k - 1, unused) = {NR[Calls[k]]}
=============================================================================
