----------------------------- MODULE NBTreeProofs -----------------------------
(***************************************************************************)
(* Proofs about NBTree, for any height, any range of allocable levels, any *)
(* set of threads and targets.                                             *)
(*                                                                         *)
(* Part 1, both builds: types, and one owner per busy node.                *)
(* Part 2: the words of the tree when no operation runs (ExactWord), and   *)
(* what allocating or releasing one node changes in them.                  *)
(* Part 3, the blocking build (1lvl-sl): between two operations the words  *)
(* say exactly which blocks are held, so blocks never overlap, no          *)
(* assertion fails, and a refusal is always justified.  In short, it       *)
(* implements BlockAllocator.                                              *)
(***************************************************************************)
EXTENDS NBTree, TreeFacts

(***************************************************************************)
(* PART 1. Both builds.                                                    *)
(***************************************************************************)

(***************************************************************************)
(* Facts about indexes and bits.                                           *)
(***************************************************************************)

(* The parent of an index is an index. *)
LEMMA IndexFacts ==
  /\ Indexes \subseteq Nat
  /\ \A n \in Indexes : parent_idx_by_idx(n) \in Indexes
BY IndexInterval

(* Levels are natural numbers. *)
LEMMA LevelType ==
  /\ max_level \in Nat
  /\ \A n \in Indexes : level_by_idx(n) \in Nat
BY LevelFacts, LevelsAssumption DEF max_level

(* The bits that stand for a child are not the OCCUPY bit. *)
LEMMA ChildBits ==
  ASSUME NEW n
  PROVE  /\ OwnOcc(n) \in Bits \ {"OCCUPY"}
         /\ OwnCoal(n) \in Bits \ {"OCCUPY"}
BY DEF OwnOcc, OwnCoal, Bits

(* Targets are nodes. *)
LEMMA TargetsAreNodes == Targets \subseteq Nodes
BY TreeAssumption DEF Allocable

(***************************************************************************)
(* Type correctness.  A thread inside the allocator works on a target, so  *)
(* what it hands to its caller is a target.                                *)
(***************************************************************************)
TargetInv == \A t \in Threads : pc[t] # "idle" => target[t] \in Targets

TypeInv == TypeOK /\ TargetInv

LEMMA TypeInit == Init => TypeInv
BY DEF Init, CallersInit, TypeInv, TargetInv, TypeOK, CallersTypeOK, Indexes, Locations, FREE_BLOCK, Bits

(* The target of a thread changes when an operation starts or ends. *)
LEMMA TargetStep == TypeInv /\ [Next]_vars => TargetInv'
<1> SUFFICES ASSUME TypeInv, [Next]_vars
             PROVE  TargetInv'
  OBVIOUS
<1> USE DEF TypeInv, TypeOK, CallersTypeOK, TargetInv
<1>1. ASSUME NEW t \in Threads, NEW n \in Targets, AllocStart(t, n)
      PROVE  TargetInv'
  BY <1>1 DEF AllocStart, Goto
<1>2. ASSUME NEW t \in Threads, NEW n \in Targets, FreeStart(t, n)
      PROVE  TargetInv'
  BY <1>2 DEF FreeStart, Goto
<1>3. ASSUME NEW t \in Threads, Inside(t)
      PROVE  TargetInv'
  <2>1. target' = target /\ pc[t] # "idle"
    BY <1>3 DEF Inside, ClimbRead, ClimbCAS, FreeEnter, FreeCheck, Mark, Release,
                UnmarkRead, UnmarkCAS, At
  <2>2. \A u \in Threads \ {t} : pc'[u] = pc[u]
    BY <1>3 DEF Inside, ClimbRead, ClimbCAS, FreeEnter, FreeCheck, Mark, Release,
                UnmarkRead, UnmarkCAS, Climbed, Goto
  <2> QED
    BY <2>1, <2>2
<1>4. ASSUME NEW t \in Threads, AllocReturn(t) \/ FreeReturn(t)
      PROVE  TargetInv'
  BY <1>4 DEF AllocReturn, FreeReturn, ForgetLocals, Leave, Goto
<1>5. CASE UNCHANGED vars
  BY <1>5 DEF vars
<1> QED
  BY <1>1, <1>2, <1>3, <1>4, <1>5 DEF Next, Step

LEMMA TypeStep == TypeInv /\ [Next]_vars => TypeOK'
<1> SUFFICES ASSUME TypeInv, [Next]_vars
             PROVE  TypeOK'
  OBVIOUS
<1> USE DEF TypeInv, TypeOK, CallersTypeOK
<1>1. ASSUME NEW t \in Threads, NEW n \in Targets, AllocStart(t, n)
      PROVE  TypeOK'
  <2>1. n \in Indexes
    BY TargetsAreNodes DEF Indexes
  <2>2. OCCUPY_BLOCK \subseteq Bits
    BY DEF OCCUPY_BLOCK, Bits
  <2>3. tree' \in [Indexes -> SUBSET Bits]
    BY <1>1, <2>1, <2>2 DEF AllocStart
  <2>4. glock' \in Threads \cup {NoOwner}
    BY <1>1 DEF AllocStart, BD_LOCK
  <2>5. pc' \in [Threads -> Locations]
    BY <1>1 DEF AllocStart, Goto, Locations
  <2> QED
    BY <1>1, <2>1, <2>3, <2>4, <2>5 DEF AllocStart
<1>2. ASSUME NEW t \in Threads, NEW n \in Targets, FreeStart(t, n)
      PROVE  TypeOK'
  <2>1. n \in Indexes
    BY TargetsAreNodes DEF Indexes
  <2>2. glock' \in Threads \cup {NoOwner}
    BY <1>2 DEF FreeStart, BD_LOCK
  <2>3. pc' \in [Threads -> Locations]
    BY <1>2 DEF FreeStart, Goto, Locations
  <2> QED
    BY <1>2, <2>1, <2>2, <2>3, LevelType DEF FreeStart
<1>3. ASSUME NEW t \in Threads, ClimbRead(t)
      PROVE  TypeOK'
  <2> DEFINE p == parent_idx_by_idx(cur[t])
  <2>1. p \in Indexes /\ tree[p] \in SUBSET Bits
    BY IndexFacts
  <2>4. level_by_idx(p) + 1 \in Nat
    BY <2>1, LevelType
  <2>2. pc' \in [Threads -> Locations]
    BY <1>3 DEF ClimbRead, Climbed, Goto, Locations
  <2>3. /\ cur' \in [Threads -> Indexes]
        /\ seen' \in [Threads -> SUBSET Bits]
        /\ upper_bound' \in [Threads -> Nat]
        /\ failed_at' \in [Threads -> Indexes]
    BY <1>3, <2>1, <2>4 DEF ClimbRead, Climbed
  <2> QED
    BY <1>3, <2>2, <2>3 DEF ClimbRead
<1>4. ASSUME NEW t \in Threads, ClimbCAS(t)
      PROVE  TypeOK'
  <2> DEFINE c == cur[t]
             p == parent_idx_by_idx(c)
  <2>1. p \in Indexes /\ Fragmented(seen[t], c) \in SUBSET Bits
    BY IndexFacts, ChildBits DEF Fragmented
  <2>2. tree' \in [Indexes -> SUBSET Bits] /\ cur' \in [Threads -> Indexes]
    BY <1>4, <2>1 DEF ClimbCAS, Climbed
  <2>3. pc' \in [Threads -> Locations]
    BY <1>4 DEF ClimbCAS, Climbed, Goto, Locations
  <2> QED
    BY <1>4, <2>2, <2>3 DEF ClimbCAS
<1>5. ASSUME NEW t \in Threads, AllocReturn(t) \/ FreeReturn(t)
      PROVE  TypeOK'
  <2>1. 0 \in Indexes
    BY DEF Indexes
  <2>2. pc' \in [Threads -> Locations]
    BY <1>5 DEF AllocReturn, FreeReturn, ForgetLocals, Leave, Goto, Locations
  <2>3. glock' \in Threads \cup {NoOwner}
    BY <1>5 DEF AllocReturn, FreeReturn, BD_UNLOCK
  <2>4. held' \subseteq Targets
    <3>1. CASE FreeReturn(t)
      BY <3>1 DEF FreeReturn
    <3>2. CASE AllocReturn(t)
      BY <3>2 DEF AllocReturn, Granted, At, TargetInv
    <3> QED
      BY <1>5, <3>1, <3>2
  <2> QED
    BY <1>5, <2>1, <2>2, <2>3, <2>4 DEF AllocReturn, FreeReturn, ForgetLocals, Leave
<1>6. ASSUME NEW t \in Threads, FreeEnter(t)
      PROVE  TypeOK'
  <2>1. pc' \in [Threads -> Locations]
    BY <1>6 DEF FreeEnter, Goto, Locations
  <2> QED
    BY <1>6, <2>1 DEF FreeEnter
<1>12. ASSUME NEW t \in Threads, FreeCheck(t)
       PROVE  TypeOK'
  <2>1. pc' \in [Threads -> Locations]
    BY <1>12 DEF FreeCheck, FreeDone, Goto, Locations
  <2>2. cur' \in [Threads -> Indexes]
    BY <1>12 DEF FreeCheck
  <2>3. abandoned' \subseteq Targets
    BY <1>12 DEF FreeCheck, At, TargetInv
  <2> QED
    BY <1>12, <2>1, <2>2, <2>3 DEF FreeCheck
<1>7. ASSUME NEW t \in Threads, Mark(t)
      PROVE  TypeOK'
  <2> DEFINE c == cur[t]
             p == parent_idx_by_idx(c)
  <2>1. p \in Indexes /\ tree[p] \cup {OwnCoal(c)} \in SUBSET Bits
    BY IndexFacts, ChildBits
  <2>2. tree' \in [Indexes -> SUBSET Bits] /\ cur' \in [Threads -> Indexes]
    BY <1>7, <2>1 DEF Mark
  <2>3. pc' \in [Threads -> Locations]
    BY <1>7 DEF Mark, Goto, Locations
  <2> QED
    BY <1>7, <2>2, <2>3 DEF Mark
<1>8. ASSUME NEW t \in Threads, Release(t)
      PROVE  TypeOK'
  <2>1. tree' \in [Indexes -> SUBSET Bits] /\ cur' \in [Threads -> Indexes]
    BY <1>8 DEF Release, FREE_BLOCK
  <2>2. pc' \in [Threads -> Locations]
    BY <1>8 DEF Release, FreeDone, Goto, Locations
  <2> QED
    BY <1>8, <2>1, <2>2 DEF Release
<1>9. ASSUME NEW t \in Threads, UnmarkRead(t)
      PROVE  TypeOK'
  <2>1. seen' \in [Threads -> SUBSET Bits]
    BY <1>9, IndexFacts DEF UnmarkRead
  <2>2. pc' \in [Threads -> Locations]
    BY <1>9 DEF UnmarkRead, FreeDone, Goto, Locations
  <2> QED
    BY <1>9, <2>1, <2>2 DEF UnmarkRead
<1>10. ASSUME NEW t \in Threads, UnmarkCAS(t)
       PROVE  TypeOK'
  <2> DEFINE c == cur[t]
             p == parent_idx_by_idx(c)
  <2>1. p \in Indexes /\ Cleaned(seen[t], c) \in SUBSET Bits
    BY IndexFacts DEF Cleaned
  <2>2. tree' \in [Indexes -> SUBSET Bits] /\ cur' \in [Threads -> Indexes]
    BY <1>10, <2>1 DEF UnmarkCAS
  <2>3. pc' \in [Threads -> Locations]
    BY <1>10 DEF UnmarkCAS, FreeDone, Goto, Locations
  <2> QED
    BY <1>10, <2>2, <2>3 DEF UnmarkCAS
<1>11. CASE UNCHANGED vars
  BY <1>11 DEF vars
<1> QED
  BY <1>1, <1>2, <1>3, <1>4, <1>5, <1>6, <1>7, <1>8, <1>9, <1>10, <1>11, <1>12
     DEF Next, Step, Inside

(* Every variable keeps its type, in every reachable state of either       *)
(* build.                                                                  *)
THEOREM TypeCorrect == Spec => []TypeOK
<1>1. TypeInv /\ [Next]_vars => TypeInv'
  BY TypeStep, TargetStep DEF TypeInv
<1>2. TypeInv => TypeOK
  BY DEF TypeInv
<1> QED
  BY TypeInit, <1>1, <1>2, PTL DEF Spec

(***************************************************************************)
(* One owner per busy node.                                                *)
(*                                                                         *)
(* OneOwner is not inductive: what keeps a CAS from writing a stale        *)
(* OCCUPY bit is the comparison in the non-blocking build and, in the      *)
(* blocking one, which stores without comparing, that the word read is     *)
(* still there because only the lock holder is inside.                     *)
(***************************************************************************)

(* Only the holder of the lock is inside the blocking allocator. *)
LockInv == BD_SPIN_LOCK => \A t \in Threads : pc[t] # "idle" => glock = t

(* There, a word read before a store is still in the tree. *)
SeenInv ==
  BD_SPIN_LOCK => \A t \in Threads :
    pc[t] \in {"climb_cas", "unmark_cas"} => seen[t] = tree[parent_idx_by_idx(cur[t])]

(* An allocation that is still climbing has not failed. *)
NotFailedInv ==
  \A t \in Threads : pc[t] \in {"idle", "climb", "climb_cas"} => failed_at[t] = 0

OwnerInv == TypeInv /\ LockInv /\ SeenInv /\ NotFailedInv /\ OneOwner

LEMMA OwnerInit == Init => OwnerInv
<1> SUFFICES ASSUME Init
             PROVE  OwnerInv
  OBVIOUS
<1>1. OneOwner
  BY DEF Init, CallersInit, OneOwner, Owns, FREE_BLOCK, Indexes
<1>2. LockInv /\ SeenInv /\ NotFailedInv
  BY DEF Init, CallersInit, LockInv, SeenInv, NotFailedInv
<1> QED
  BY <1>1, <1>2, TypeInit DEF OwnerInv

(* In the blocking build, when a thread moves the others are outside. *)
LEMMA OthersOutside ==
  ASSUME LockInv, BD_SPIN_LOCK, NEW t \in Threads,
         \/ \E n \in Targets : AllocStart(t, n) \/ FreeStart(t, n)
         \/ Step(t)
  PROVE  \A u \in Threads \ {t} : pc[u] = "idle"
<1>1. CASE \E n \in Targets : AllocStart(t, n) \/ FreeStart(t, n)
  <2>1. glock = NoOwner
    BY <1>1 DEF AllocStart, FreeStart, BD_LOCK
  <2> QED
    BY <2>1, TreeAssumption DEF LockInv
<1>2. CASE Step(t)
  <2>1. pc[t] # "idle"
    BY <1>2 DEF Step, Inside, ClimbRead, ClimbCAS, FreeEnter, FreeCheck, Mark, Release,
                UnmarkRead, UnmarkCAS, AllocReturn, FreeReturn, At
  <2> QED
    BY <2>1 DEF LockInv
<1> QED
  BY <1>1, <1>2

(* A step of t leaves the other threads where they are. *)
LEMMA OthersStay ==
  ASSUME TypeOK, NEW t \in Threads,
         \/ \E n \in Targets : AllocStart(t, n) \/ FreeStart(t, n)
         \/ Step(t)
  PROVE  \A u \in Threads \ {t} :
           /\ pc'[u] = pc[u] /\ target'[u] = target[u] /\ cur'[u] = cur[u]
           /\ seen'[u] = seen[u] /\ failed_at'[u] = failed_at[u]
<1> USE DEF TypeOK, CallersTypeOK
<1>1. CASE \E n \in Targets : AllocStart(t, n) \/ FreeStart(t, n)
  BY <1>1 DEF AllocStart, FreeStart, Goto
<1>2. CASE ClimbRead(t) \/ ClimbCAS(t)
  BY <1>2 DEF ClimbRead, ClimbCAS, Climbed, Goto
<1>3. CASE FreeEnter(t) \/ FreeCheck(t) \/ Mark(t) \/ Release(t)
  BY <1>3 DEF FreeEnter, FreeCheck, Mark, Release, FreeDone, Goto
<1>4. CASE UnmarkRead(t) \/ UnmarkCAS(t)
  BY <1>4 DEF UnmarkRead, UnmarkCAS, Goto
<1>5. CASE AllocReturn(t) \/ FreeReturn(t)
  BY <1>5 DEF AllocReturn, FreeReturn, ForgetLocals, Leave, Goto
<1> QED
  BY <1>1, <1>2, <1>3, <1>4, <1>5 DEF Step, Inside

LEMMA LockStep == TypeOK /\ LockInv /\ [Next]_vars => LockInv'
<1> SUFFICES ASSUME TypeOK, LockInv, [Next]_vars, BD_SPIN_LOCK
             PROVE  \A u \in Threads : pc'[u] # "idle" => glock' = u
  BY DEF LockInv
<1> USE DEF TypeOK, CallersTypeOK
<1>1. ASSUME NEW t \in Threads, NEW n \in Targets, AllocStart(t, n) \/ FreeStart(t, n)
      PROVE  \A u \in Threads : pc'[u] # "idle" => glock' = u
  <2>1. glock' = t
    BY <1>1 DEF AllocStart, FreeStart, BD_LOCK
  <2>2. \A u \in Threads \ {t} : pc'[u] = "idle"
    BY <1>1, OthersOutside, OthersStay
  <2> QED
    BY <2>1, <2>2
<1>2. ASSUME NEW t \in Threads, Inside(t)
      PROVE  \A u \in Threads : pc'[u] # "idle" => glock' = u
  <2>1. glock' = glock /\ pc[t] # "idle"
    BY <1>2 DEF Inside, ClimbRead, ClimbCAS, FreeEnter, FreeCheck, Mark, Release,
                UnmarkRead, UnmarkCAS, At
  <2>2. \A u \in Threads \ {t} : pc'[u] = pc[u]
    BY <1>2, OthersStay DEF Step
  <2> QED
    BY <2>1, <2>2 DEF LockInv
<1>3. ASSUME NEW t \in Threads, AllocReturn(t) \/ FreeReturn(t)
      PROVE  \A u \in Threads : pc'[u] # "idle" => glock' = u
  <2>1. pc'[t] = "idle"
    BY <1>3 DEF AllocReturn, FreeReturn, ForgetLocals, Leave, Goto
  <2>2. \A u \in Threads \ {t} : pc'[u] = "idle"
    BY <1>3, OthersOutside, OthersStay DEF Step
  <2> QED
    BY <2>1, <2>2
<1>4. CASE UNCHANGED vars
  BY <1>4 DEF vars, LockInv
<1> QED
  BY <1>1, <1>2, <1>3, <1>4 DEF Next, Step

LEMMA SeenStep == TypeOK /\ LockInv /\ SeenInv /\ [Next]_vars => SeenInv'
<1> DEFINE Current(u) == seen[u] = tree[parent_idx_by_idx(cur[u])]
           AtCAS(u) == pc[u] \in {"climb_cas", "unmark_cas"}
<1> SUFFICES ASSUME TypeOK, LockInv, SeenInv, [Next]_vars, BD_SPIN_LOCK
             PROVE  \A u \in Threads : AtCAS(u)' => Current(u)'
  BY DEF SeenInv
<1> USE DEF TypeOK, CallersTypeOK
<1>1. ASSUME NEW t \in Threads,
             \/ \E n \in Targets : AllocStart(t, n) \/ FreeStart(t, n)
             \/ Step(t)
      PROVE  \A u \in Threads : AtCAS(u)' => Current(u)'
  <2>1. \A u \in Threads \ {t} : ~AtCAS(u)'
    BY <1>1, OthersOutside, OthersStay
  <2>2. AtCAS(t)' => Current(t)'
    <3>1. CASE ClimbRead(t) \/ UnmarkRead(t)
      BY <3>1 DEF ClimbRead, UnmarkRead, Climbed, FreeDone, Goto
    <3>2. CASE \E n \in Targets : AllocStart(t, n) \/ FreeStart(t, n)
      BY <3>2 DEF AllocStart, FreeStart, Goto
    <3>3. CASE ClimbCAS(t) \/ FreeEnter(t) \/ FreeCheck(t) \/ Mark(t)
      BY <3>3 DEF ClimbCAS, FreeEnter, FreeCheck, Mark, Climbed, FreeDone, Goto
    <3>4. CASE Release(t) \/ UnmarkCAS(t)
      BY <3>4 DEF Release, UnmarkCAS, FreeDone, Goto
    <3>5. CASE AllocReturn(t) \/ FreeReturn(t)
      BY <3>5 DEF AllocReturn, FreeReturn, ForgetLocals, Leave, Goto
    <3> QED
      BY <1>1, <3>1, <3>2, <3>3, <3>4, <3>5 DEF Step, Inside
  <2> QED
    BY <2>1, <2>2
<1>2. CASE UNCHANGED vars
  BY <1>2 DEF vars, SeenInv
<1> QED
  BY <1>1, <1>2 DEF Next

LEMMA NotFailedStep == TypeOK /\ NotFailedInv /\ [Next]_vars => NotFailedInv'
<1> DEFINE Fine(u) == pc[u] \in {"idle", "climb", "climb_cas"} => failed_at[u] = 0
<1> SUFFICES ASSUME TypeOK, NotFailedInv, [Next]_vars
             PROVE  \A u \in Threads : Fine(u)'
  BY DEF NotFailedInv
<1> USE DEF TypeOK, CallersTypeOK
<1>1. ASSUME NEW t \in Threads,
             \/ \E n \in Targets : AllocStart(t, n) \/ FreeStart(t, n)
             \/ Step(t)
      PROVE  \A u \in Threads : Fine(u)'
  <2>1. \A u \in Threads \ {t} : Fine(u)'
    BY <1>1, OthersStay DEF NotFailedInv
  <2>2. Fine(t)'
    <3>1. CASE ClimbRead(t) \/ ClimbCAS(t)
      BY <3>1 DEF ClimbRead, ClimbCAS, Climbed, Goto, At, NotFailedInv
    <3>2. CASE \E n \in Targets : AllocStart(t, n) \/ FreeStart(t, n)
      BY <3>2 DEF AllocStart, FreeStart, Goto, At, NotFailedInv
    <3>3. CASE FreeEnter(t) \/ FreeCheck(t) \/ Mark(t) \/ Release(t)
      BY <3>3 DEF FreeEnter, FreeCheck, Mark, Release, FreeDone, Goto
    <3>4. CASE UnmarkRead(t) \/ UnmarkCAS(t)
      BY <3>4 DEF UnmarkRead, UnmarkCAS, FreeDone, Goto
    <3>5. CASE AllocReturn(t) \/ FreeReturn(t)
      BY <3>5 DEF AllocReturn, FreeReturn, ForgetLocals, Leave, Goto
    <3> QED
      BY <1>1, <3>1, <3>2, <3>3, <3>4, <3>5 DEF Step, Inside
  <2> QED
    BY <2>1, <2>2
<1>2. CASE UNCHANGED vars
  BY <1>2 DEF vars, NotFailedInv
<1> QED
  BY <1>1, <1>2 DEF Next

(* A CAS that succeeds replaces the word that was read. *)
LEMMA CASReplacesSeen ==
  ASSUME SeenInv, NEW t \in Threads, pc[t] \in {"climb_cas", "unmark_cas"},
         CASSucceeds(t, parent_idx_by_idx(cur[t]))
  PROVE  tree[parent_idx_by_idx(cur[t])] = seen[t]
BY TreeAssumption DEF SeenInv, CASSucceeds

(* What OneOwner is about: which nodes are busy, and who owns them. *)
Busy(n) == "OCCUPY" \in tree[n]

Owner(t, n) == Owns(t) /\ target[t] = n

(* A step that changes neither keeps OneOwner. *)
LEMMA OneOwnerUnchanged ==
  ASSUME OneOwner, held' = held, abandoned' = abandoned,
         \A n \in Nodes : Busy(n)' <=> Busy(n),
         \A t \in Threads : Owns(t)' <=> Owns(t),
         \A t \in Threads : target'[t] = target[t]
  PROVE  OneOwner'
BY DEF OneOwner, Busy

LEMMA OneOwnerStep == OwnerInv /\ [Next]_vars => OneOwner'
<1> SUFFICES ASSUME OwnerInv, [Next]_vars
             PROVE  OneOwner'
  OBVIOUS
<1> USE DEF OwnerInv, TypeInv, TypeOK, CallersTypeOK
(* An allocation becomes the owner of a node that was free. *)
<1>1. ASSUME NEW t \in Threads, NEW n \in Targets, AllocStart(t, n)
      PROVE  OneOwner'
  <2>1. n \in Nodes /\ n \in Indexes
    BY TargetsAreNodes DEF Indexes
  <2>2. \A u \in Threads \ {t} : (Owns(u)' <=> Owns(u)) /\ target'[u] = target[u]
    BY <1>1, OthersStay DEF Owns
  <2>3. ~Owns(t) /\ failed_at[t] = 0 /\ target'[t] = n /\ held' = held
        /\ abandoned' = abandoned
    BY <1>1 DEF AllocStart, Owns, At, NotFailedInv
  <2>4. CASE ~Available(tree[n])
    <3>1. tree' = tree
      BY <1>1, <2>4 DEF AllocStart
    <3>2. n # 0
      BY <2>1 DEF Nodes
    <3>3. ~Owns(t)'
      BY <1>1, <2>4, <3>2 DEF AllocStart, Goto, Owns
    <3> QED
      BY <2>2, <2>3, <3>1, <3>3 DEF OneOwner
  <2>5. CASE Available(tree[n])
    <3>1. tree' = [tree EXCEPT ![n] = OCCUPY_BLOCK]
      BY <1>1, <2>5 DEF AllocStart
    <3>2. /\ Busy(n)' /\ ~Busy(n)
          /\ \A m \in Nodes \ {n} : Busy(m)' <=> Busy(m)
      BY <2>1, <2>5, <3>1 DEF Available, Busy, OCCUPY_BLOCK, FREE_BLOCK, Indexes
    <3>3. Owns(t)'
      BY <1>1, <2>3, <2>5 DEF AllocStart, Goto, Owns
    <3>4. n \notin held \cup abandoned /\ \A u \in Threads : Owns(u) => target[u] # n
      BY <2>1, <3>2 DEF OneOwner, Busy
    <3> QED
      BY <2>1, <2>2, <2>3, <3>2, <3>3, <3>4 DEF OneOwner, Busy
  <2> QED
    BY <2>4, <2>5
(* The releasing thread takes the node over from the caller. *)
<1>2. ASSUME NEW t \in Threads, NEW n \in Targets, FreeStart(t, n)
      PROVE  OneOwner'
  <2>1. \A u \in Threads \ {t} : (Owns(u)' <=> Owns(u)) /\ target'[u] = target[u]
    BY <1>2, OthersStay DEF Owns
  <2>2. /\ ~Owns(t) /\ Owns(t)' /\ target'[t] = n
        /\ n \in held /\ held' = held \ {n} /\ tree' = tree /\ abandoned' = abandoned
    BY <1>2 DEF FreeStart, Owns, At, Goto
  <2>3. n \in Nodes
    BY TargetsAreNodes
  <2> QED
    BY <2>1, <2>2, <2>3 DEF OneOwner
(* Climbing and marking change words of ancestors, never their OCCUPY bit. *)
<1>3. ASSUME NEW t \in Threads,
             ClimbRead(t) \/ ClimbCAS(t) \/ FreeEnter(t) \/ Mark(t)
      PROVE  OneOwner'
  <2> DEFINE c == cur[t]
             p == parent_idx_by_idx(c)
  <2>1. target' = target /\ held' = held /\ abandoned' = abandoned
    BY <1>3 DEF ClimbRead, ClimbCAS, FreeEnter, Mark, Climbed
  <2>2. Owns(t) /\ Owns(t)'
    <3>1. CASE ClimbRead(t)
      BY <3>1 DEF ClimbRead, Climbed, Goto, At, Owns, NotFailedInv
    <3>2. CASE ClimbCAS(t)
      BY <3>2 DEF ClimbCAS, Climbed, Goto, At, Owns, NotFailedInv
    <3>3. CASE FreeEnter(t)
      BY <3>3 DEF FreeEnter, Goto, At, Owns
    <3>4. CASE Mark(t)
      BY <3>4 DEF Mark, Goto, At, Owns
    <3> QED
      BY <1>3, <3>1, <3>2, <3>3, <3>4
  <2>3. \A u \in Threads \ {t} : Owns(u)' <=> Owns(u)
    BY <1>3, OthersStay DEF Step, Inside, Owns
  <2>4. \A n \in Nodes : Busy(n)' <=> Busy(n)
    <3>1. p \in Indexes
      BY IndexFacts
    <3>2. CASE ClimbRead(t) \/ FreeEnter(t)
      BY <3>2 DEF ClimbRead, FreeEnter, Busy
    <3>3. CASE Mark(t)
      BY <3>1, <3>3, ChildBits DEF Mark, Busy
    <3>4. CASE ClimbCAS(t)
      <4>1. CASE tree' = tree
        BY <4>1 DEF Busy
      <4>2. CASE tree' # tree
        <5>1. /\ tree' = [tree EXCEPT ![p] = Fragmented(seen[t], c)]
              /\ pc[t] = "climb_cas" /\ CASSucceeds(t, p)
          BY <3>4, <4>2 DEF ClimbCAS, At
        <5>2. tree[p] = seen[t]
          BY <5>1, CASReplacesSeen
        <5>3. "OCCUPY" \in Fragmented(seen[t], c) <=> "OCCUPY" \in seen[t]
          BY ChildBits DEF Fragmented
        <5> QED
          BY <3>1, <5>1, <5>2, <5>3 DEF Busy
      <4> QED
        BY <4>1, <4>2
    <3> QED
      BY <1>3, <3>2, <3>3, <3>4
  <2> QED
    BY <2>1, <2>2, <2>3, <2>4, OneOwnerUnchanged
(* The owner frees its node and stops being the owner. *)
<1>4. ASSUME NEW t \in Threads, Release(t)
      PROVE  OneOwner'
  <2> DEFINE n == target[t]
  <2>1. \A u \in Threads \ {t} : (Owns(u)' <=> Owns(u)) /\ target'[u] = target[u]
    BY <1>4, OthersStay DEF Step, Inside, Owns
  <2>2. /\ Owns(t) /\ target' = target /\ held' = held /\ abandoned' = abandoned
        /\ tree' = [tree EXCEPT ![n] = FREE_BLOCK]
    BY <1>4 DEF Release, At, Owns
  <2>3. ~Owns(t)'
    BY <1>4 DEF Release, FreeDone, Goto, Owns
  <2>4. n \notin held \cup abandoned /\ \A u \in Threads \ {t} : Owns(u) => target[u] # n
    BY <2>2 DEF OneOwner
  <2>5. /\ ~Busy(n)'
        /\ \A m \in Nodes \ {n} : Busy(m)' <=> Busy(m)
    BY <2>2 DEF Busy, FREE_BLOCK, Indexes
  <2> QED
    BY <2>1, <2>2, <2>3, <2>4, <2>5 DEF OneOwner, Busy
(* Cleaning changes words of ancestors, never their OCCUPY bit. *)
<1>5. ASSUME NEW t \in Threads, UnmarkRead(t) \/ UnmarkCAS(t)
      PROVE  OneOwner'
  <2> DEFINE c == cur[t]
             p == parent_idx_by_idx(c)
  <2>1. target' = target /\ held' = held /\ abandoned' = abandoned
    BY <1>5 DEF UnmarkRead, UnmarkCAS
  <2>2. ~Owns(t) /\ ~Owns(t)'
    BY <1>5 DEF UnmarkRead, UnmarkCAS, FreeDone, Goto, At, Owns
  <2>3. \A u \in Threads \ {t} : Owns(u)' <=> Owns(u)
    BY <1>5, OthersStay DEF Step, Inside, Owns
  <2>4. \A n \in Nodes : Busy(n)' <=> Busy(n)
    <3>1. CASE tree' = tree
      BY <3>1 DEF Busy
    <3>2. CASE tree' # tree
      <4>1. /\ tree' = [tree EXCEPT ![p] = Cleaned(seen[t], c)]
            /\ pc[t] = "unmark_cas" /\ CASSucceeds(t, p)
        BY <1>5, <3>2 DEF UnmarkRead, UnmarkCAS, At
      <4>2. tree[p] = seen[t] /\ p \in Indexes
        BY <4>1, CASReplacesSeen, IndexFacts
      <4>3. "OCCUPY" \in Cleaned(seen[t], c) <=> "OCCUPY" \in seen[t]
        BY ChildBits DEF Cleaned
      <4> QED
        BY <4>1, <4>2, <4>3 DEF Busy
    <3> QED
      BY <3>1, <3>2
  <2> QED
    BY <2>1, <2>2, <2>3, <2>4, OneOwnerUnchanged
(* The allocated node passes from the thread to its caller. *)
<1>6. ASSUME NEW t \in Threads, AllocReturn(t)
      PROVE  OneOwner'
  <2>1. \A u \in Threads \ {t} : (Owns(u)' <=> Owns(u)) /\ target'[u] = target[u]
    BY <1>6, OthersStay DEF Step, Owns
  <2>2. /\ tree' = tree /\ abandoned' = abandoned /\ ~Owns(t)'
        /\ held' = IF failed_at[t] = 0 THEN held \cup {target[t]} ELSE held
    BY <1>6 DEF AllocReturn, Granted, ForgetLocals, Leave, Goto, Owns
  <2>3. CASE failed_at[t] # 0
    <3>1. ~Owns(t)
      BY <1>6, <2>3 DEF AllocReturn, At, Owns
    <3> QED
      BY <2>1, <2>2, <2>3, <3>1 DEF OneOwner
  <2>4. CASE failed_at[t] = 0
    <3>1. Owns(t) /\ target[t] \in Nodes
      BY <1>6, <2>4, TargetsAreNodes DEF AllocReturn, At, Owns, TargetInv
    <3> QED
      BY <2>1, <2>2, <2>4, <3>1 DEF OneOwner
  <2> QED
    BY <2>3, <2>4
<1>7. ASSUME NEW t \in Threads, FreeReturn(t)
      PROVE  OneOwner'
  <2>1. \A u \in Threads \ {t} : (Owns(u)' <=> Owns(u)) /\ target'[u] = target[u]
    BY <1>7, OthersStay DEF Step, Owns
  <2>2. tree' = tree /\ held' = held /\ abandoned' = abandoned /\ ~Owns(t) /\ ~Owns(t)'
    BY <1>7 DEF FreeReturn, ForgetLocals, Leave, Goto, At, Owns
  <2> QED
    BY <2>1, <2>2 DEF OneOwner
(* A release that finds its word changed gives the node up. *)
<1>9. ASSUME NEW t \in Threads, FreeCheck(t)
      PROVE  OneOwner'
  <2> DEFINE n == target[t]
  <2>1. \A u \in Threads \ {t} : (Owns(u)' <=> Owns(u)) /\ target'[u] = target[u]
    BY <1>9, OthersStay DEF Step, Inside, Owns
  <2>2. Owns(t) /\ tree' = tree /\ target' = target /\ held' = held
    BY <1>9 DEF FreeCheck, At, Owns
  <2>3. CASE tree[n] = OCCUPY_BLOCK
    <3>1. Owns(t)' /\ abandoned' = abandoned
      BY <1>9, <2>3 DEF FreeCheck, Goto, Owns
    <3>2. \A m \in Nodes : Busy(m)' <=> Busy(m)
      BY <2>2 DEF Busy
    <3>3. \A u \in Threads : Owns(u)' <=> Owns(u)
      BY <2>1, <2>2, <3>1
    <3> QED
      BY <2>2, <3>1, <3>2, <3>3, OneOwnerUnchanged
  <2>4. CASE tree[n] # OCCUPY_BLOCK
    <3>1. ~Owns(t)' /\ abandoned' = abandoned \cup {n}
      BY <1>9, <2>4 DEF FreeCheck, FreeDone, Goto, Owns
    <3>2. n \notin held \cup abandoned /\ \A u \in Threads \ {t} : Owns(u) => target[u] # n
      BY <2>2 DEF OneOwner
    <3>3. held' \cap abandoned' = {}
      BY <2>2, <3>1, <3>2 DEF OneOwner
    <3>4. \A u \in Threads : Owns(u)' => u # t /\ Owns(u) /\ target'[u] = target[u]
      BY <2>1, <3>1
    <3>5. \A u \in Threads : Owns(u)' => target'[u] \notin held' \cup abandoned'
      BY <2>2, <3>1, <3>2, <3>4 DEF OneOwner
    <3>6. \A m \in Nodes : Busy(m)' <=>
            m \in held' \cup abandoned' \/ \E u \in Threads : Owns(u)' /\ target'[u] = m
      <4> SUFFICES ASSUME NEW m \in Nodes
                   PROVE  Busy(m)' <=>
                     m \in held' \cup abandoned' \/ \E u \in Threads : Owns(u)' /\ target'[u] = m
        OBVIOUS
      <4>1. Busy(m)' <=> m \in held \cup abandoned \/ \E u \in Threads : Owns(u) /\ target[u] = m
        BY <2>2 DEF OneOwner, Busy
      <4>2. (\E u \in Threads : Owns(u) /\ target[u] = m)
              <=> m = n \/ \E u \in Threads : Owns(u)' /\ target'[u] = m
        BY <2>1, <2>2, <3>1, <3>4
      <4> QED
        BY <2>2, <3>1, <4>1, <4>2
    <3> QED
      BY <3>3, <3>4, <3>5, <3>6 DEF OneOwner, Busy
  <2> QED
    BY <2>3, <2>4
<1>8. CASE UNCHANGED vars
  BY <1>8, OneOwnerUnchanged DEF vars, Busy, Owns
<1> QED
  BY <1>1, <1>2, <1>3, <1>4, <1>5, <1>6, <1>7, <1>8, <1>9 DEF Next, Step, Inside

LEMMA OwnerInvariant == Spec => []OwnerInv
<1>1. OwnerInv /\ [Next]_vars => OwnerInv'
  BY TypeStep, TargetStep, LockStep, SeenStep, NotFailedStep, OneOwnerStep
     DEF OwnerInv, TypeInv
<1> QED
  BY OwnerInit, <1>1, PTL DEF Spec

(* Every busy node has exactly one owner and every owned node is busy, for *)
(* any number of threads and any height, with the lock or without.         *)
THEOREM OneOwnerAlways == Spec => []OneOwner
<1>1. OwnerInv => OneOwner
  BY DEF OwnerInv
<1> QED
  BY OwnerInvariant, <1>1, PTL

(***************************************************************************)
(* Who may free a node.                                                    *)
(***************************************************************************)
LEMMA BusyCleared ==
  ASSUME OwnerInv, [Next]_vars, NEW n \in Nodes, Busy(n), ~Busy(n)'
  PROVE  \E t \in Threads : pc[t] = "release" /\ pc'[t] # "release" /\ target[t] = n
<1> USE DEF OwnerInv, TypeInv, TypeOK, CallersTypeOK
<1>1. n \in Indexes
  BY DEF Indexes
<1>2. tree' # tree
  BY DEF Busy
<1>3. ASSUME NEW t \in Threads, NEW m \in Targets, AllocStart(t, m)
      PROVE  FALSE
  <2>1. tree' = [tree EXCEPT ![m] = OCCUPY_BLOCK]
    BY <1>2, <1>3 DEF AllocStart
  <2>2. m \in Indexes
    BY TargetsAreNodes DEF Indexes
  <2> QED
    BY <1>1, <2>1, <2>2 DEF Busy, OCCUPY_BLOCK
<1>4. ASSUME NEW t \in Threads, ClimbCAS(t) \/ UnmarkCAS(t)
      PROVE  FALSE
  <2> DEFINE c == cur[t]
             p == parent_idx_by_idx(c)
  <2>1. /\ pc[t] \in {"climb_cas", "unmark_cas"} /\ CASSucceeds(t, p)
        /\ \/ tree' = [tree EXCEPT ![p] = Fragmented(seen[t], c)]
           \/ tree' = [tree EXCEPT ![p] = Cleaned(seen[t], c)]
    BY <1>2, <1>4 DEF ClimbCAS, UnmarkCAS, At
  <2>2. tree[p] = seen[t] /\ p \in Indexes
    BY <2>1, CASReplacesSeen, IndexFacts
  <2>3. "OCCUPY" \in seen[t] =>
          "OCCUPY" \in Fragmented(seen[t], c) /\ "OCCUPY" \in Cleaned(seen[t], c)
    BY ChildBits DEF Fragmented, Cleaned
  <2> QED
    BY <1>1, <2>1, <2>2, <2>3 DEF Busy
<1>5. ASSUME NEW t \in Threads, Mark(t)
      PROVE  FALSE
  <2>1. parent_idx_by_idx(cur[t]) \in Indexes
    BY IndexFacts
  <2> QED
    BY <1>1, <1>5, <2>1 DEF Mark, Busy
<1>6. ASSUME NEW t \in Threads, Release(t)
      PROVE  pc[t] = "release" /\ pc'[t] # "release" /\ target[t] = n
  <2>1. pc[t] = "release" /\ tree' = [tree EXCEPT ![target[t]] = FREE_BLOCK]
    BY <1>6 DEF Release, At
  <2>2. target[t] = n
    BY <1>1, <2>1 DEF Busy
  <2>3. pc'[t] # "release"
    BY <1>6 DEF Release, FreeDone, Goto
  <2> QED
    BY <2>1, <2>2, <2>3
<1>7. ASSUME NEW t \in Threads, NEW m \in Targets, FreeStart(t, m)
      PROVE  FALSE
  BY <1>2, <1>7 DEF FreeStart
<1>8. ASSUME NEW t \in Threads,
             ClimbRead(t) \/ FreeEnter(t) \/ FreeCheck(t) \/ UnmarkRead(t)
             \/ AllocReturn(t) \/ FreeReturn(t)
      PROVE  FALSE
  BY <1>2, <1>8 DEF ClimbRead, FreeEnter, FreeCheck, UnmarkRead, AllocReturn, FreeReturn
<1>9. CASE UNCHANGED vars
  BY <1>2, <1>9 DEF vars
<1> QED
  BY <1>3, <1>4, <1>5, <1>6, <1>7, <1>8, <1>9 DEF Next, Step, Inside

(* A node stops being busy only when its owner releases or rolls it back.  *)
THEOREM OnlyOwnerFreesAlways == Spec => OnlyOwnerFrees
<1>1. OwnerInv /\ [Next]_vars
        => [\A n \in Nodes :
              "OCCUPY" \in tree[n] /\ "OCCUPY" \notin tree'[n]
                => \E t \in Threads :
                     pc[t] = "release" /\ pc'[t] # "release" /\ target[t] = n]_vars
  BY BusyCleared DEF Busy
<1> QED
  BY OwnerInvariant, <1>1, PTL DEF Spec, OnlyOwnerFrees

(***************************************************************************)
(* PART 2. The words of the tree between two operations.                   *)
(***************************************************************************)

(* A block of S lies in the block of m. *)
Used(m, S) == Subtree(m) \cap S # {}

Sibling(c) == IF is_left_by_idx(c) THEN c + 1 ELSE c - 1

(***************************************************************************)
(* Parents, children and levels.                                           *)
(***************************************************************************)

(* A node other than the root and its sibling are the children of a node. *)
LEMMA Children ==
  ASSUME NEW c \in Nodes, c # 1
  PROVE  LET p == parent_idx_by_idx(c)
         IN /\ p \in Nodes
            /\ p \in Path[c]
            /\ IF is_left_by_idx(c) THEN c = 2 * p /\ Sibling(c) = 2 * p + 1
                                    ELSE c = 2 * p + 1 /\ Sibling(c) = 2 * p
<1> DEFINE p == parent_idx_by_idx(c)
<1>1. c \in Nat /\ c # 0
  BY IndexInterval DEF Indexes, Nodes
<1>2. p \in Nat /\ (c = 2 * p \/ c = 2 * p + 1) /\ p # 0
  BY <1>1 DEF parent_idx_by_idx
<1>3. c % 2 = 0 <=> c = 2 * p
  BY <1>1, <1>2
<1>4. p \in Nodes /\ p \in Path[c]
  BY <1>2, ParentOnPath
<1> HIDE DEF p
<1>5. IF is_left_by_idx(c) THEN c = 2 * p /\ Sibling(c) = 2 * p + 1
                           ELSE c = 2 * p + 1 /\ Sibling(c) = 2 * p
  BY <1>1, <1>2, <1>3 DEF is_left_by_idx, Sibling
<1> QED
  BY <1>4, <1>5 DEF p

(* The root is at level 1, and only the root. *)
LEMMA RootLevel == \A m \in Nodes : level_by_idx(m) >= 1 /\ (m = 1 <=> level_by_idx(m) = 1)
<1> SUFFICES ASSUME NEW m \in Nodes
             PROVE  level_by_idx(m) >= 1 /\ (m = 1 <=> level_by_idx(m) = 1)
  OBVIOUS
<1> DEFINE p == parent_idx_by_idx(m)
<1>1. m \in Nat /\ m # 0 /\ p \in Indexes
  BY IndexInterval DEF Indexes, Nodes
<1>2. level_by_idx(m) = level_by_idx(p) + 1 /\ level_by_idx(p) \in Nat
  BY <1>1, LevelFacts
<1>3. CASE m = 1
  <2>1. p = 0
    BY <1>3 DEF parent_idx_by_idx
  <2> QED
    BY <1>2, <1>3, <2>1, LevelFacts
<1>4. CASE m # 1
  <2>1. p \in Nodes
    BY <1>4, Children
  <2>2. level_by_idx(p) = level_by_idx(parent_idx_by_idx(p)) + 1
        /\ level_by_idx(parent_idx_by_idx(p)) \in Nat
    BY <2>1, <1>1, LevelFacts, IndexInterval
  <2> HIDE DEF p
  <2> QED
    BY <1>2, <1>4, <2>2
<1> QED
  BY <1>3, <1>4

(* A path has one node per level. *)
LEMMA LevelUnique ==
  ASSUME NEW n \in Nodes, NEW a \in Path[n], NEW b \in Path[n], level_by_idx(a) = level_by_idx(b)
  PROVE  a = b
<1>1. a \in Nodes /\ b \in Nodes /\ level_by_idx(a) \in Nat
  BY PathFacts, LevelFacts DEF Indexes
<1>2. a \in Path[b]
  BY <1>1, PathLinear
<1> QED
  BY <1>1, <1>2, LevelOnPath

(* Climbing from a node of a path: the parent is the next node of the path. *)
LEMMA PathStep ==
  ASSUME NEW n \in Nodes, NEW c \in Path[n], level_by_idx(c) > max_level \/ c # 1
  PROVE  LET p == parent_idx_by_idx(c)
         IN /\ c \in Nodes /\ c # 1
            /\ p \in Nodes /\ p \in Path[n] /\ p # n /\ p # c
            /\ level_by_idx(c) = level_by_idx(p) + 1
            /\ level_by_idx(p) \in Nat
            /\ level_by_idx(c) <= level_by_idx(n)
            /\ Path[c] \subseteq Path[n] /\ Path[c] = {c} \cup Path[p]
            /\ \A d \in Path[n] : parent_idx_by_idx(d) = p => d = c
<1> DEFINE p == parent_idx_by_idx(c)
<1>1. c \in Nodes /\ Path[c] \subseteq Path[n]
  BY PathFacts DEF Indexes
<1>2. c # 1
  <2>1. max_level \in Nat /\ max_level >= 1
    BY LevelsAssumption DEF max_level
  <2> QED
    BY <1>1, <2>1, RootLevel
<1>3. p \in Nodes /\ p \in Path[c]
  BY <1>1, <1>2, Children
<1>4. level_by_idx(c) = level_by_idx(p) + 1 /\ level_by_idx(p) \in Nat
      /\ level_by_idx(c) \in Nat /\ level_by_idx(n) \in Nat
  BY <1>1, <1>3, LevelFacts DEF Indexes
<1>5. level_by_idx(c) <= level_by_idx(n)
  BY <1>4, LevelOnPath
<1>6. p # n /\ p # c
  BY <1>4, <1>5
<1>7. ASSUME NEW d \in Path[n], parent_idx_by_idx(d) = p
      PROVE  d = c
  <2>1. d \in Nodes
    BY PathFacts DEF Indexes
  <2>2. level_by_idx(d) = level_by_idx(c)
    BY <1>4, <1>7, <2>1, LevelFacts
  <2> QED
    BY <2>2, LevelUnique
<1>8. Path[c] = {c} \cup Path[p]
  BY <1>1, SelfOnPath
<1> QED
  BY <1>1, <1>2, <1>3, <1>4, <1>5, <1>6, <1>7, <1>8

(***************************************************************************)
(* Which blocks are in use.                                                *)
(***************************************************************************)

(* A block is in use if it is allocated or one of its halves is in use. *)
LEMMA UsedSplit ==
  ASSUME NEW p \in Nodes, NEW S \in SUBSET Nodes
  PROVE  Used(p, S) <=> p \in S \/ Used(2 * p, S) \/ Used(2 * p + 1, S)
BY ChildOnPath DEF Used, Subtree, Contains

(* What encloses a block in use is in use. *)
LEMMA UsedAbove ==
  ASSUME NEW S, NEW c \in Nodes, NEW d \in Path[c], Used(c, S)
  PROVE  Used(d, S)
<1>1. PICK m \in Nodes : c \in Path[m] /\ m \in S
  BY DEF Used, Subtree, Contains
<1>2. Path[c] \subseteq Path[m]
  BY <1>1, PathFacts DEF Indexes
<1> QED
  BY <1>1, <1>2 DEF Used, Subtree, Contains

(* Adding n puts into use exactly what encloses n. *)
LEMMA UsedAdded ==
  ASSUME NEW n \in Nodes, NEW S, NEW m
  PROVE  Used(m, S \cup {n}) <=> Used(m, S) \/ m \in Path[n]
BY DEF Used, Subtree, Contains

(***************************************************************************)
(* Words.                                                                  *)
(***************************************************************************)

(* Whether the bits of a word are on. *)
LEMMA WordBits ==
  ASSUME NEW m, NEW S
  PROVE  LET W == ExactWord(m, S)
         IN /\ W \subseteq OCCUPY_BLOCK
            /\ "OCCUPY" \in W <=> m \in S
            /\ m \in S => W = OCCUPY_BLOCK
            /\ OwnCoal(m) \notin W /\ BuddyCoal(m) \notin W
BY DEF ExactWord, OCCUPY_BLOCK, OwnCoal, BuddyCoal

(* The word of the parent of c, as c sees it. *)
LEMMA WordAtParent ==
  ASSUME NEW c \in Nodes, c # 1, NEW S, parent_idx_by_idx(c) \notin S,
         level_by_idx(parent_idx_by_idx(c)) >= max_level
  PROVE  ExactWord(parent_idx_by_idx(c), S)
           = (IF Used(c, S) THEN {OwnOcc(c)} ELSE {})
             \cup (IF Used(Sibling(c), S) THEN {BuddyOcc(c)} ELSE {})
<1> DEFINE p == parent_idx_by_idx(c)
<1>1. ExactWord(p, S) = (IF Used(2 * p, S) THEN {"OCCUPY_LEFT"} ELSE {})
                        \cup (IF Used(2 * p + 1, S) THEN {"OCCUPY_RIGHT"} ELSE {})
  BY DEF ExactWord, Used, lchild_idx_by_idx
<1>2. CASE is_left_by_idx(c)
  <2>1. c = 2 * p /\ Sibling(c) = 2 * p + 1
    BY <1>2, Children
  <2> QED
    BY <1>1, <1>2, <2>1 DEF OwnOcc, BuddyOcc
<1>3. CASE ~is_left_by_idx(c)
  <2>1. c = 2 * p + 1 /\ Sibling(c) = 2 * p
    BY <1>3, Children
  <2> HIDE DEF p
  <2> QED
    BY <1>1, <1>3, <2>1 DEF OwnOcc, BuddyOcc, p
<1> QED
  BY <1>2, <1>3

(* A word is 0 exactly when nothing in the block is allocated. *)
LEMMA WordFree ==
  ASSUME NEW m \in Nodes, NEW S \in SUBSET Nodes, level_by_idx(m) >= max_level
  PROVE  ExactWord(m, S) = FREE_BLOCK <=> ~Used(m, S)
<1>1. Used(m, S) <=> m \in S \/ Used(2 * m, S) \/ Used(2 * m + 1, S)
  BY UsedSplit
<1>2. CASE m \in S
  BY <1>1, <1>2 DEF ExactWord, OCCUPY_BLOCK, FREE_BLOCK
<1>3. CASE m \notin S
  <2>1. ExactWord(m, S) = (IF Used(2 * m, S) THEN {"OCCUPY_LEFT"} ELSE {})
                          \cup (IF Used(2 * m + 1, S) THEN {"OCCUPY_RIGHT"} ELSE {})
    BY <1>3 DEF ExactWord, Used, lchild_idx_by_idx
  <2> QED
    BY <1>1, <1>3, <2>1 DEF FREE_BLOCK
<1> QED
  BY <1>2, <1>3

(* Allocating n changes no word away from its path. *)
LEMMA WordFar ==
  ASSUME NEW n \in Nodes, NEW S, NEW m \in Nodes, m \notin Path[n]
  PROVE  ExactWord(m, S \cup {n}) = ExactWord(m, S)
<1>1. m # n /\ 2 * m \notin Path[n] /\ 2 * m + 1 \notin Path[n]
  BY ChildOnPath
<1>2. /\ m \in S \cup {n} <=> m \in S
      /\ Subtree(2 * m) \cap (S \cup {n}) = Subtree(2 * m) \cap S
      /\ Subtree(2 * m + 1) \cap (S \cup {n}) = Subtree(2 * m + 1) \cap S
  BY <1>1 DEF Subtree, Contains
<1> QED
  BY <1>2 DEF ExactWord, lchild_idx_by_idx

(* Above max_level every word is 0. *)
LEMMA WordHigh ==
  ASSUME NEW m \in Nodes, NEW S \in SUBSET Allocable, level_by_idx(m) < max_level
  PROVE  ExactWord(m, S) = {}
<1>1. level_by_idx(m) \in Nat /\ max_level \in Nat
  BY LevelType DEF Indexes
<1>2. m \notin S /\ ~(level_by_idx(m) >= max_level)
  BY <1>1 DEF Allocable
<1> QED
  BY <1>2 DEF ExactWord

(* Allocating n adds, on its path, the bit that stands for the lower node. *)
LEMMA WordAdded ==
  ASSUME NEW n \in Nodes, NEW c \in Path[n], c # 1, NEW S \in SUBSET Nodes,
         parent_idx_by_idx(c) \notin S,
         level_by_idx(parent_idx_by_idx(c)) >= max_level
  PROVE  LET p == parent_idx_by_idx(c)
         IN /\ ExactWord(p, S \cup {n}) = ExactWord(p, S) \cup {OwnOcc(c)}
            /\ Used(c, S) => ExactWord(p, S \cup {n}) = ExactWord(p, S)
            /\ BuddyOcc(c) \in ExactWord(p, S \cup {n}) <=> Used(Sibling(c), S)
            /\ BuddyOcc(c) \in ExactWord(p, S) <=> Used(Sibling(c), S)
            /\ "OCCUPY" \notin ExactWord(p, S \cup {n})
<1> DEFINE p == parent_idx_by_idx(c)
           s == Sibling(c)
           W(R) == ExactWord(p, R)
<1>1. c \in Nodes /\ p \in Nodes /\ p # n
  BY PathStep
<1>2. W(S) = (IF Used(c, S) THEN {OwnOcc(c)} ELSE {})
             \cup (IF Used(s, S) THEN {BuddyOcc(c)} ELSE {})
  BY <1>1, WordAtParent
<1>3. W(S \cup {n}) = (IF Used(c, S \cup {n}) THEN {OwnOcc(c)} ELSE {})
                      \cup (IF Used(s, S \cup {n}) THEN {BuddyOcc(c)} ELSE {})
  BY <1>1, WordAtParent
<1>4. Used(c, S \cup {n})
  BY UsedAdded
<1>5. s \notin Path[n]
  <2>1. s \in {2 * p, 2 * p + 1} /\ c \in {2 * p, 2 * p + 1} /\ s # c
    <3>1. p \in Nat
      BY <1>1, IndexInterval DEF Indexes
    <3> QED
      BY <1>1, <3>1, Children
  <2> QED
    BY <1>1, <2>1, ChildrenApart
<1>6. Used(s, S \cup {n}) <=> Used(s, S)
  BY <1>5, UsedAdded
<1>7. OwnOcc(c) # BuddyOcc(c) /\ OwnOcc(c) # "OCCUPY" /\ BuddyOcc(c) # "OCCUPY"
  BY DEF OwnOcc, BuddyOcc
<1> HIDE DEF p, s
<1> QED
  BY <1>2, <1>3, <1>4, <1>6, <1>7 DEF p, s

(* Releasing n removes that bit, where nothing else below it is allocated. *)
LEMMA WordRemoved ==
  ASSUME NEW n \in Nodes, NEW c \in Path[n], c # 1, NEW S \in SUBSET Nodes,
         parent_idx_by_idx(c) \notin S,
         level_by_idx(parent_idx_by_idx(c)) >= max_level,
         ~Used(c, S)
  PROVE  ExactWord(parent_idx_by_idx(c), S)
           = ExactWord(parent_idx_by_idx(c), S \cup {n}) \ {OwnOcc(c)}
<1> DEFINE p == parent_idx_by_idx(c)
<1>1. c \in Nodes /\ p \in Nodes
  BY PathStep
<1>2. ExactWord(p, S \cup {n}) = ExactWord(p, S) \cup {OwnOcc(c)}
  BY WordAdded
<1>3. ExactWord(p, S) = IF Used(Sibling(c), S) THEN {BuddyOcc(c)} ELSE {}
  BY <1>1, WordAtParent
<1>4. OwnOcc(c) # BuddyOcc(c)
  BY DEF OwnOcc, BuddyOcc
<1> HIDE DEF p
<1> QED
  BY <1>2, <1>3, <1>4 DEF p

(***************************************************************************)
(* PART 3. The blocking build.                                             *)
(***************************************************************************)

(* One thread is inside at a time.  The invariant says what the words are  *)
(* at each of its locations, by comparison with those of the held blocks:  *)
(* the branch of the target is marked (or cleaned) up to the level the     *)
(* thread has reached and is exact above it.                               *)

(* The tree T says that exactly the blocks of S are allocated. *)
Reflects(T, S) == \A m \in Nodes : T[m] = ExactWord(m, S)

(* No block of S overlaps n, as far up as level l. *)
Clear(S, n, l) == ~Used(n, S) /\ \A d \in Path[n] : level_by_idx(d) >= l => d \notin S

(* The branch of n is marked as if n were allocated, up to level l. *)
Marked(T, S, n, l) ==
  \A m \in Nodes :
    T[m] = ExactWord(m, IF m \in Path[n] /\ level_by_idx(m) >= l THEN S \cup {n} ELSE S)

Climbing(T, S, n, c) ==
  /\ c \in Path[n] /\ level_by_idx(c) > max_level
  /\ Clear(S, n, level_by_idx(c)) /\ Marked(T, S, n, level_by_idx(c))

(* The word above node d of the branch is marked, and coalescing if so told. *)
WordAbove(T, S, n, d, coalescing) ==
  T[parent_idx_by_idx(d)] =
    ExactWord(parent_idx_by_idx(d), S \cup {n}) \cup (IF coalescing THEN {OwnCoal(d)} ELSE {})

(* Outside the part of the branch between low and high the tree is that of S. *)
ExactAway(T, S, n, low, high) ==
  \A m \in Nodes :
    ~(m \in Path[n] /\ level_by_idx(m) >= low /\ level_by_idx(m) < high) => T[m] = ExactWord(m, S)

(* Phase 1 of a release has reached c. *)
Marking(T, S, n, c, b) ==
  /\ c \in Path[n] /\ level_by_idx(c) > b /\ ~Used(c, S)
  /\ T[n] = OCCUPY_BLOCK
  /\ ExactAway(T, S, n, b, level_by_idx(n) + 1)
  /\ \A d \in Path[n] :
       level_by_idx(d) > b => WordAbove(T, S, n, d, level_by_idx(d) > level_by_idx(c))

(* After phase 1 a node of the branch is coalescing unless the block of the
   child it is reached from is in use. *)
Releasing(T, S, n, b) ==
  /\ T[n] = OCCUPY_BLOCK
  /\ ExactAway(T, S, n, b, level_by_idx(n) + 1)
  /\ \A d \in Path[n] : level_by_idx(d) > b => WordAbove(T, S, n, d, ~Used(d, S))

(* Phase 3 has cleaned the branch up to c. *)
Unmarking(T, S, n, c, b) ==
  /\ c \in Path[n] /\ level_by_idx(c) >= b /\ c # 1 /\ ~Used(c, S)
  /\ ExactAway(T, S, n, b, level_by_idx(c))
  /\ \A d \in Path[n] :
       level_by_idx(d) > b /\ level_by_idx(d) <= level_by_idx(c)
         => WordAbove(T, S, n, d, ~Used(d, S))

(* A release works between n and level b, below any allocated block. *)
Bounded(S, n, b) == b \in max_level .. level_by_idx(n) /\ Clear(S, n, b)

(* A node is refused at f when the allocated blocks leave no room for it. *)
Refusable(S, n, f) == f # 0 => NoRoomFor(S, n, f)

(***************************************************************************)
(* Operations, word by word.                                               *)
(***************************************************************************)

(* A path does not pass an allocable node's level twice, and what is at    *)
(* level l or below on the path of n is n itself when l is its level.      *)
LEMMA PathLevels ==
  ASSUME NEW n \in Nodes, NEW m \in Path[n]
  PROVE  /\ m \in Nodes /\ level_by_idx(m) \in Nat /\ level_by_idx(n) \in Nat
         /\ level_by_idx(m) <= level_by_idx(n)
         /\ level_by_idx(m) >= level_by_idx(n) => m = n
<1>1. m \in Nodes /\ level_by_idx(m) \in Nat /\ level_by_idx(n) \in Nat
  BY PathFacts, LevelFacts DEF Indexes
<1> QED
  BY <1>1, LevelOnPath

(* A word that is not 0 is that of a node some allocated block overlaps. *)
LEMMA NotFree ==
  ASSUME NEW S \in SUBSET Nodes, NEW n \in Allocable, ExactWord(n, S) # FREE_BLOCK
  PROVE  n # 0 /\ \E m \in S : Overlap(m, n)
<1>1. n \in Nodes /\ level_by_idx(n) >= max_level
  BY DEF Allocable
<1>2. Used(n, S)
  BY <1>1, WordFree
<1> QED
  BY <1>1, <1>2, IndexInterval DEF Used, Subtree, Overlap, Contains, Nodes

(* The CAS that takes the target. *)
LEMMA Taken ==
  ASSUME NEW S \in SUBSET Allocable, NEW n \in Allocable, NEW T, NEW U,
         Reflects(T, S), T[n] = FREE_BLOCK,
         \A m \in Nodes : U[m] = IF m = n THEN OCCUPY_BLOCK ELSE T[m]
  PROVE  Clear(S, n, level_by_idx(n)) /\ Marked(U, S, n, level_by_idx(n))
<1>1. n \in Nodes /\ level_by_idx(n) >= max_level /\ S \subseteq Nodes
  BY DEF Allocable
<1>2. ~Used(n, S)
  BY <1>1, WordFree DEF Reflects
<1>3. \A m \in Path[n] : level_by_idx(m) >= level_by_idx(n) => m = n
  BY <1>1, PathLevels
<1>4. n \notin S
  BY <1>1, <1>2, UsedSplit
<1>5. Clear(S, n, level_by_idx(n))
  BY <1>2, <1>3, <1>4 DEF Clear
<1>6. \A m \in Nodes : m \in Path[n] /\ level_by_idx(m) >= level_by_idx(n) <=> m = n
  <2>1. n \in Path[n] /\ level_by_idx(n) \in Nat
    BY <1>1, SelfOnPath, PathLevels
  <2> QED
    BY <1>3, <2>1
<1>7. ExactWord(n, S \cup {n}) = OCCUPY_BLOCK
  BY WordBits
<1> QED
  BY <1>5, <1>6, <1>7 DEF Marked, Reflects

(* One step of the climb. *)
LEMMA ClimbedTo ==
  ASSUME NEW S \in SUBSET Allocable, NEW n \in Allocable, NEW T, NEW U, NEW c,
         Climbing(T, S, n, c), parent_idx_by_idx(c) \notin S,
         \A m \in Nodes : U[m] = IF m = parent_idx_by_idx(c) THEN Fragmented(T[m], c) ELSE T[m]
  PROVE  LET p == parent_idx_by_idx(c)
         IN /\ p \in Path[n] /\ level_by_idx(p) >= max_level
            /\ Clear(S, n, level_by_idx(p)) /\ Marked(U, S, n, level_by_idx(p))
<1> DEFINE p == parent_idx_by_idx(c)
<1>1. n \in Nodes /\ S \subseteq Nodes /\ c \in Path[n] /\ max_level \in Nat
  BY LevelType DEF Allocable, Climbing
<1>2. /\ c \in Nodes /\ c # 1 /\ p \in Nodes /\ p \in Path[n]
      /\ level_by_idx(c) = level_by_idx(p) + 1 /\ level_by_idx(p) \in Nat
  BY <1>1, PathStep DEF Climbing
<1>3. level_by_idx(p) >= max_level
  BY <1>1, <1>2 DEF Climbing
<1>4. \A m \in Path[n] : level_by_idx(m) >= level_by_idx(p) <=> m = p \/ level_by_idx(m) >= level_by_idx(c)
  BY <1>1, <1>2, PathLevels, LevelUnique
<1>5. Clear(S, n, level_by_idx(p))
  BY <1>4 DEF Climbing, Clear
<1>6. ASSUME NEW m \in Nodes
      PROVE  U[m] = ExactWord(m, IF m \in Path[n] /\ level_by_idx(m) >= level_by_idx(p)
                                 THEN S \cup {n} ELSE S)
  <2>1. CASE m = p
    <3>1. T[p] = ExactWord(p, S)
      BY <1>2 DEF Climbing, Marked
    <3>2. ExactWord(p, S \cup {n}) = ExactWord(p, S) \cup {OwnOcc(c)}
      BY <1>1, <1>2, <1>3, WordAdded
    <3>3. OwnCoal(c) \notin ExactWord(p, S)
      BY WordBits DEF OCCUPY_BLOCK, OwnCoal
    <3>4. Fragmented(T[p], c) = ExactWord(p, S \cup {n})
      BY <3>1, <3>2, <3>3 DEF Fragmented
    <3> HIDE DEF p
    <3> QED
      BY <2>1, <3>4, <1>2 DEF p
  <2>2. CASE m # p
    <3>1. U[m] = T[m]
      BY <2>2
    <3> QED
      BY <2>2, <3>1, <1>4 DEF Climbing, Marked
  <2> QED
    BY <2>1, <2>2
<1> QED
  BY <1>2, <1>3, <1>5, <1>6 DEF Marked

(* A branch marked up to max_level is that of an allocated node. *)
LEMMA MarkedIsHeld ==
  ASSUME NEW S \in SUBSET Allocable, NEW n \in Allocable, NEW T
  PROVE  Marked(T, S, n, max_level) <=> Reflects(T, S \cup {n})
<1>1. n \in Nodes /\ S \cup {n} \subseteq Allocable
  BY DEF Allocable
<1>2. ASSUME NEW m \in Nodes
      PROVE  ExactWord(m, IF m \in Path[n] /\ level_by_idx(m) >= max_level
                          THEN S \cup {n} ELSE S)
             = ExactWord(m, S \cup {n})
  <2>1. CASE m \notin Path[n]
    BY <1>1, <2>1, WordFar
  <2>2. CASE ~(level_by_idx(m) >= max_level)
    <3>1. level_by_idx(m) < max_level
      BY <2>2, LevelType DEF Indexes
    <3>2. ExactWord(m, S) = {} /\ ExactWord(m, S \cup {n}) = {}
      BY <1>1, <3>1, WordHigh
    <3> QED
      BY <3>2
  <2> QED
    BY <2>1, <2>2
<1> QED
  BY <1>2 DEF Marked, Reflects

(* Entering a release: the target is busy and nothing is coalescing yet. *)
LEMMA ReleaseEntered ==
  ASSUME NEW S \in SUBSET Allocable, NEW n \in Allocable, NEW T, NEW b,
         Bounded(S, n, b), Marked(T, S, n, b)
  PROVE  /\ T[n] = OCCUPY_BLOCK
         /\ level_by_idx(n) = b => Releasing(T, S, n, b)
         /\ level_by_idx(n) # b => Marking(T, S, n, n, b)
<1>1. n \in Nodes /\ n \in Path[n] /\ max_level \in Nat /\ b \in Nat
      /\ b >= max_level /\ b <= level_by_idx(n)
  BY SelfOnPath, LevelType DEF Allocable, Bounded, Indexes
<1>2. level_by_idx(n) \in Nat
  BY <1>1, PathLevels
<1>3. T[n] = OCCUPY_BLOCK
  <2>1. T[n] = ExactWord(n, S \cup {n})
    BY <1>1, <1>2 DEF Marked
  <2> QED
    BY <2>1, WordBits
<1>4. ExactAway(T, S, n, b, level_by_idx(n) + 1)
  <2> SUFFICES ASSUME NEW m \in Nodes,
                      ~(m \in Path[n] /\ level_by_idx(m) >= b /\ level_by_idx(m) < level_by_idx(n) + 1)
               PROVE  T[m] = ExactWord(m, S)
    BY DEF ExactAway
  <2>1. ~(m \in Path[n] /\ level_by_idx(m) >= b)
    BY <1>1, <1>2, PathLevels
  <2> QED
    BY <2>1 DEF Marked
<1>5. ASSUME NEW d \in Path[n], level_by_idx(d) > b
      PROVE  WordAbove(T, S, n, d, FALSE) /\ ~(level_by_idx(d) > level_by_idx(n))
  <2>1. level_by_idx(d) > max_level /\ ~(level_by_idx(d) > level_by_idx(n))
    BY <1>1, <1>5, PathLevels
  <2> DEFINE p == parent_idx_by_idx(d)
  <2>2. p \in Nodes /\ p \in Path[n] /\ level_by_idx(p) >= b
    <3>1. p \in Nodes /\ p \in Path[n] /\ level_by_idx(d) = level_by_idx(p) + 1 /\ level_by_idx(p) \in Nat
      BY <1>1, <2>1, PathStep
    <3> HIDE DEF p
    <3> QED
      BY <3>1, <1>1, <1>5
  <2> QED
    BY <2>1, <2>2 DEF Marked, WordAbove
<1>6. CASE level_by_idx(n) = b
  <2>1. \A d \in Path[n] : ~(level_by_idx(d) > b)
    BY <1>5, <1>6
  <2> QED
    BY <1>3, <1>4, <1>6, <2>1 DEF Releasing
<1>7. CASE level_by_idx(n) # b
  <2>1. level_by_idx(n) > b /\ ~Used(n, S)
    BY <1>1, <1>2, <1>7 DEF Bounded, Clear
  <2>2. \A d \in Path[n] :
          level_by_idx(d) > b => WordAbove(T, S, n, d, level_by_idx(d) > level_by_idx(n))
    BY <1>5 DEF WordAbove
  <2> QED
    BY <1>1, <1>3, <1>4, <1>7, <2>1, <2>2 DEF Marking
<1> QED
  BY <1>3, <1>6, <1>7

(* The bounds of a release at node c of its branch. *)
LEMMA InsideBranch ==
  ASSUME NEW S \in SUBSET Allocable, NEW n \in Allocable, NEW b, NEW c \in Path[n],
         Bounded(S, n, b), level_by_idx(c) > b
  PROVE  LET p == parent_idx_by_idx(c)
         IN /\ n \in Nodes /\ S \subseteq Nodes
            /\ b \in Nat /\ b >= max_level /\ max_level \in Nat /\ max_level >= 1
            /\ b <= level_by_idx(n) /\ level_by_idx(n) \in Nat
            /\ c \in Nodes /\ c # 1 /\ p \in Nodes /\ p \in Path[n] /\ p # n /\ p # c
            /\ level_by_idx(c) = level_by_idx(p) + 1 /\ level_by_idx(p) \in Nat
            /\ level_by_idx(c) \in Nat
            /\ level_by_idx(c) <= level_by_idx(n)
            /\ level_by_idx(p) >= b /\ level_by_idx(p) >= max_level /\ p \notin S
            /\ Path[c] = {c} \cup Path[p] /\ Path[p] \subseteq Path[n]
            /\ \A d \in Path[n] : parent_idx_by_idx(d) = p => d = c
<1> DEFINE p == parent_idx_by_idx(c)
<1>1. n \in Nodes /\ S \subseteq Nodes /\ max_level \in Nat /\ max_level >= 1 /\ b \in Nat
      /\ b >= max_level /\ b <= level_by_idx(n) /\ level_by_idx(n) \in Nat
  BY LevelsAssumption, LevelType DEF max_level, Allocable, Bounded, Indexes
<1>2. level_by_idx(c) \in Nat /\ level_by_idx(c) > max_level
  BY <1>1, PathLevels
<1>3. /\ c \in Nodes /\ c # 1 /\ p \in Nodes /\ p \in Path[n] /\ p # n /\ p # c
      /\ level_by_idx(c) = level_by_idx(p) + 1 /\ level_by_idx(p) \in Nat
      /\ level_by_idx(c) <= level_by_idx(n)
      /\ Path[c] \subseteq Path[n] /\ Path[c] = {c} \cup Path[p]
      /\ \A d \in Path[n] : parent_idx_by_idx(d) = p => d = c
  BY <1>1, <1>2, PathStep
<1> HIDE DEF p
<1>4. level_by_idx(p) >= b /\ level_by_idx(p) >= max_level
  BY <1>1, <1>2, <1>3
<1>5. p \notin S
  BY <1>3, <1>4 DEF Bounded, Clear
<1> QED
  BY <1>1, <1>2, <1>3, <1>4, <1>5 DEF p

(* A block with a half that is not in use is in use if the other half is. *)
LEMMA UsedByBuddy ==
  ASSUME NEW S \in SUBSET Nodes, NEW c \in Nodes, c # 1, parent_idx_by_idx(c) \notin S, ~Used(c, S)
  PROVE  Used(parent_idx_by_idx(c), S) <=> Used(Sibling(c), S)
<1> DEFINE p == parent_idx_by_idx(c)
<1>1. Used(p, S) <=> Used(2 * p, S) \/ Used(2 * p + 1, S)
  BY Children, UsedSplit
<1>2. {c, Sibling(c)} = {2 * p, 2 * p + 1}
  BY Children
<1> HIDE DEF p
<1> QED
  BY <1>1, <1>2 DEF p

(* One fetch_and_or of phase 1: it stops below a block that is in use. *)
LEMMA MarkedOne ==
  ASSUME NEW S \in SUBSET Allocable, NEW n \in Allocable, NEW T, NEW U, NEW c, NEW b,
         Bounded(S, n, b), Marking(T, S, n, c, b),
         \A m \in Nodes : U[m] = IF m = parent_idx_by_idx(c) THEN T[m] \cup {OwnCoal(c)} ELSE T[m]
  PROVE  LET p == parent_idx_by_idx(c)
         IN /\ BuddyInUse(T[p], c) => Releasing(U, S, n, b)
            /\ ~BuddyInUse(T[p], c) /\ level_by_idx(p) = b => Releasing(U, S, n, b)
            /\ ~BuddyInUse(T[p], c) /\ level_by_idx(p) # b => Marking(U, S, n, p, b)
<1> DEFINE p == parent_idx_by_idx(c)
<1>1. c \in Path[n] /\ level_by_idx(c) > b /\ ~Used(c, S)
  BY DEF Marking
<1>2. /\ n \in Nodes /\ S \subseteq Nodes /\ b \in Nat
      /\ c \in Nodes /\ c # 1 /\ p \in Nodes /\ p \in Path[n] /\ p # n
      /\ level_by_idx(c) = level_by_idx(p) + 1 /\ level_by_idx(p) \in Nat
      /\ level_by_idx(c) <= level_by_idx(n) /\ level_by_idx(n) \in Nat /\ level_by_idx(c) \in Nat
      /\ level_by_idx(p) >= b /\ level_by_idx(p) >= max_level /\ p \notin S
      /\ \A d \in Path[n] : parent_idx_by_idx(d) = p => d = c
  <2>1. n \in Nodes /\ S \subseteq Nodes /\ b \in Nat
    BY <1>1, InsideBranch
  <2>2. c # 1
    BY <1>1, InsideBranch
  <2>6. c \in Nodes /\ p \in Nodes /\ p \in Path[n] /\ p # n
    BY <1>1, <2>1, <2>2, PathStep
  <2>3. /\ level_by_idx(c) = level_by_idx(p) + 1 /\ level_by_idx(p) \in Nat
        /\ level_by_idx(c) <= level_by_idx(n) /\ level_by_idx(n) \in Nat /\ level_by_idx(c) \in Nat
    BY <1>1, InsideBranch
  <2>4. level_by_idx(p) >= b /\ level_by_idx(p) >= max_level /\ p \notin S
    BY <1>1, InsideBranch
  <2>5. \A d \in Path[n] : parent_idx_by_idx(d) = p => d = c
    BY <1>1, <2>1, <2>2, PathStep
  <2> QED
    BY <2>1, <2>2, <2>3, <2>4, <2>5, <2>6
<1>3. T[p] = ExactWord(p, S \cup {n})
  <2>1. ~(level_by_idx(c) > level_by_idx(c))
    BY <1>2
  <2>2. WordAbove(T, S, n, c, level_by_idx(c) > level_by_idx(c))
    BY <1>1 DEF Marking
  <2> HIDE DEF p
  <2> QED
    BY <2>1, <2>2 DEF WordAbove, p
<1>4. BuddyInUse(T[p], c) <=> Used(p, S)
  <2>1. BuddyCoal(c) \notin T[p]
    BY <1>3, WordBits DEF OCCUPY_BLOCK, BuddyCoal
  <2>2. BuddyOcc(c) \in T[p] <=> Used(Sibling(c), S)
    BY <1>1, <1>2, <1>3, WordAdded
  <2>3. Used(p, S) <=> Used(Sibling(c), S)
    BY <1>1, <1>2, UsedByBuddy
  <2> QED
    BY <2>1, <2>2, <2>3 DEF BuddyInUse
<1>5. U[n] = OCCUPY_BLOCK
  BY <1>2 DEF Marking
<1>6. ExactAway(U, S, n, b, level_by_idx(n) + 1)
  <2>1. level_by_idx(p) < level_by_idx(n) + 1
    BY <1>2
  <2>2. ASSUME NEW m \in Nodes,
               ~(m \in Path[n] /\ level_by_idx(m) >= b /\ level_by_idx(m) < level_by_idx(n) + 1)
        PROVE  m # p
    BY <1>2, <2>1, <2>2
  <2> HIDE DEF p
  <2> QED
    BY <2>2 DEF Marking, ExactAway, p
<1>7. ASSUME NEW d \in Path[n], level_by_idx(d) > b
      PROVE  WordAbove(U, S, n, d, level_by_idx(d) > level_by_idx(p))
  <2>0. level_by_idx(d) \in Nat
    BY <1>2, PathLevels
  <2>1. CASE d = c
    <3>1. U[p] = T[p] \cup {OwnCoal(c)}
      BY <1>2
    <3>2. WordAbove(U, S, n, c, TRUE)
      BY <1>3, <3>1 DEF WordAbove
    <3> HIDE DEF p
    <3>3. level_by_idx(c) > level_by_idx(p)
      BY <1>2
    <3> QED
      BY <2>1, <3>2, <3>3
  <2>2. CASE d # c
    <3>1. level_by_idx(d) # level_by_idx(c)
      BY <1>1, <1>2, <2>2, LevelUnique
    <3>2. level_by_idx(d) > level_by_idx(p) <=> level_by_idx(d) > level_by_idx(c)
      BY <1>2, <2>0, <3>1
    <3>3. WordAbove(T, S, n, d, level_by_idx(d) > level_by_idx(p))
      BY <1>7, <3>2 DEF Marking
    <3>4. parent_idx_by_idx(d) \in Nodes /\ parent_idx_by_idx(d) # p
      BY <1>2, <1>7, <2>2, InsideBranch
    <3> QED
      BY <3>3, <3>4 DEF WordAbove
  <2> QED
    BY <2>1, <2>2
<1>8. CASE ~Used(p, S) /\ level_by_idx(p) # b
  BY <1>2, <1>4, <1>5, <1>6, <1>7, <1>8 DEF Marking
<1>9. CASE Used(p, S) \/ level_by_idx(p) = b
  <2>1. ASSUME NEW d \in Path[n], level_by_idx(d) > b
        PROVE  ~Used(d, S) <=> level_by_idx(d) > level_by_idx(p)
    <3>0. d \in Nodes /\ level_by_idx(d) \in Nat
      BY <1>2, PathLevels
    <3>1. CASE level_by_idx(d) > level_by_idx(p)
      <4>1. c \in Path[d]
        BY <1>1, <1>2, <3>0, <3>1, PathLinear
      <4> QED
        BY <1>1, <3>0, <3>1, <4>1, UsedAbove
    <3>2. CASE ~(level_by_idx(d) > level_by_idx(p))
      <4>1. level_by_idx(p) # b
        BY <2>1, <3>0, <3>2
      <4>2. d \in Path[p]
        BY <1>2, <3>0, <3>2, PathLinear
      <4> QED
        BY <1>2, <1>9, <3>2, <4>1, <4>2, UsedAbove
    <3> QED
      BY <3>1, <3>2
  <2>2. Releasing(U, S, n, b)
    BY <1>5, <1>6, <1>7, <2>1 DEF Releasing
  <2>3. ~BuddyInUse(T[p], c) => level_by_idx(p) = b
    BY <1>4, <1>9
  <2> QED
    BY <2>2, <2>3
<1> QED
  BY <1>8, <1>9

(* Outside a branch of no height the tree is that of S. *)
LEMMA NothingLeft ==
  ASSUME NEW T, NEW S, NEW n \in Nodes, NEW b \in Nat, ExactAway(T, S, n, b, b)
  PROVE  Reflects(T, S)
BY PathLevels DEF ExactAway, Reflects

(* Phase 2: the target is free and the branch above it is to be cleaned,   *)
(* unless the release is bounded by the level of the target.               *)
LEMMA Released ==
  ASSUME NEW S \in SUBSET Allocable, NEW n \in Allocable, NEW T, NEW U, NEW b,
         Bounded(S, n, b), Releasing(T, S, n, b),
         \A m \in Nodes : U[m] = IF m = n THEN FREE_BLOCK ELSE T[m]
  PROVE  /\ n # b => Unmarking(U, S, n, n, b)
         /\ n = b => Reflects(U, S)
<1>1. n \in Nodes /\ n \in Path[n] /\ S \subseteq Nodes /\ max_level \in Nat /\ max_level >= 1
      /\ b \in Nat /\ b >= max_level /\ b <= level_by_idx(n) /\ level_by_idx(n) \in Nat
      /\ level_by_idx(n) >= max_level /\ ~Used(n, S)
  BY SelfOnPath, LevelsAssumption, LevelType DEF max_level, Allocable, Bounded, Clear, Indexes
<1>2. ExactWord(n, S) = FREE_BLOCK
  BY <1>1, WordFree
<1>3. ExactAway(U, S, n, b, level_by_idx(n))
  <2> SUFFICES ASSUME NEW m \in Nodes,
                      ~(m \in Path[n] /\ level_by_idx(m) >= b /\ level_by_idx(m) < level_by_idx(n))
               PROVE  U[m] = ExactWord(m, S)
    BY DEF ExactAway
  <2>1. CASE m = n
    BY <1>2, <2>1
  <2>2. CASE m # n
    <3>1. ~(m \in Path[n] /\ level_by_idx(m) >= b /\ level_by_idx(m) < level_by_idx(n) + 1)
      BY <1>1, <2>2, PathLevels
    <3> QED
      BY <2>2, <3>1 DEF Releasing, ExactAway
  <2> QED
    BY <2>1, <2>2
<1>4. CASE n = b
  <2>1. level_by_idx(n) <= n /\ n \in Nat
    BY <1>1, LevelBound, IndexInterval DEF Indexes
  <2>2. level_by_idx(n) = b
    BY <1>1, <1>4, <2>1
  <2> QED
    BY <1>1, <1>3, <1>4, <2>2, NothingLeft
<1>5. CASE n # b
  <2>1. n # 1
    BY <1>1, <1>5, RootLevel
  <2>2. ASSUME NEW d \in Path[n], level_by_idx(d) > b
        PROVE  WordAbove(U, S, n, d, ~Used(d, S))
    <3>1. level_by_idx(d) > max_level
      BY <1>1, <2>2, PathLevels
    <3>2. parent_idx_by_idx(d) \in Nodes /\ parent_idx_by_idx(d) # n
      BY <1>1, <3>1, PathStep
    <3> QED
      BY <2>2, <3>2 DEF Releasing, WordAbove
  <2> QED
    BY <1>1, <1>3, <1>5, <2>1, <2>2 DEF Unmarking
<1> QED
  BY <1>4, <1>5

(* The first read of phase 3 that finds no coalescing bit ends the release *)
(* with an exact tree; below the bound there always is one.                *)
LEMMA UnmarkEnds ==
  ASSUME NEW S \in SUBSET Allocable, NEW n \in Allocable, NEW T, NEW c, NEW b,
         Bounded(S, n, b), Unmarking(T, S, n, c, b)
  PROVE  /\ OwnCoal(c) \notin T[parent_idx_by_idx(c)] => Reflects(T, S)
         /\ OwnCoal(c) \in T[parent_idx_by_idx(c)] => level_by_idx(c) > b
<1> DEFINE p == parent_idx_by_idx(c)
<1>1. c \in Path[n] /\ c # 1 /\ level_by_idx(c) >= b /\ ~Used(c, S) /\ n \in Nodes
      /\ b \in Nat
  BY LevelType DEF Unmarking, Bounded, Allocable, Indexes
<1>2. level_by_idx(c) \in Nat /\ p \in Nodes
  BY <1>1, PathLevels, PathStep
<1>3. CASE level_by_idx(c) = b
  <2>1. Reflects(T, S)
    BY <1>1, <1>3, NothingLeft DEF Unmarking
  <2>2. T[p] = ExactWord(p, S)
    BY <1>2, <2>1 DEF Reflects
  <2>3. OwnCoal(c) \notin T[p]
    BY <2>2, WordBits DEF OCCUPY_BLOCK, OwnCoal
  <2> QED
    BY <2>1, <2>3
<1>4. CASE level_by_idx(c) # b
  <2>1. level_by_idx(c) > b /\ level_by_idx(c) <= level_by_idx(c)
    BY <1>1, <1>2, <1>4
  <2>2. WordAbove(T, S, n, c, ~Used(c, S))
    BY <1>1, <2>1 DEF Unmarking
  <2>3. OwnCoal(c) \in T[p]
    BY <1>1, <2>2 DEF WordAbove
  <2> QED
    BY <2>1, <2>3
<1> QED
  BY <1>3, <1>4

(* A node of a path other than its end is the parent of a node of it. *)
LEMMA ChildOfPath ==
  ASSUME NEW p \in Nodes, NEW m \in Path[p], m # p
  PROVE  \E d \in Path[p] : d # 1 /\ parent_idx_by_idx(d) = m
<1>1. m \in Nodes /\ m \in Nat /\ m # 0
  BY PathFacts, IndexInterval DEF Indexes, Nodes
<1>2. PICK d \in {2 * m, 2 * m + 1} : d \in Path[p]
  BY <1>1, ChildOnPath
<1>3. parent_idx_by_idx(d) = m /\ d # 1
  BY <1>1, <1>2 DEF parent_idx_by_idx
<1> QED
  BY <1>2, <1>3

(* One CAS of phase 3: the walk ends at the bound, or below a block that   *)
(* is in use and whose branch, up to the bound, has not been marked.       *)
LEMMA UnmarkedOne ==
  ASSUME NEW S \in SUBSET Allocable, NEW n \in Allocable, NEW T, NEW U, NEW c, NEW b,
         Bounded(S, n, b), Unmarking(T, S, n, c, b), level_by_idx(c) > b,
         \A m \in Nodes : U[m] = IF m = parent_idx_by_idx(c) THEN Cleaned(T[m], c) ELSE T[m]
  PROVE  LET p == parent_idx_by_idx(c)
             goes_on == level_by_idx(p) # b /\ BuddyOcc(c) \notin Cleaned(T[p], c)
         IN /\ goes_on => Unmarking(U, S, n, p, b)
            /\ ~goes_on => Reflects(U, S)
<1> DEFINE p == parent_idx_by_idx(c)
<1>1. c \in Path[n] /\ c # 1 /\ ~Used(c, S)
  BY DEF Unmarking
<1>2. /\ n \in Nodes /\ S \subseteq Nodes /\ b \in Nat /\ b >= 1
      /\ c \in Nodes /\ p \in Nodes /\ p \in Path[n] /\ p # n
      /\ level_by_idx(c) = level_by_idx(p) + 1 /\ level_by_idx(p) \in Nat
      /\ level_by_idx(c) <= level_by_idx(n) /\ level_by_idx(n) \in Nat /\ level_by_idx(c) \in Nat
      /\ level_by_idx(p) >= b /\ level_by_idx(p) >= max_level /\ p \notin S
      /\ \A d \in Path[n] : parent_idx_by_idx(d) = p => d = c
  <2>1. n \in Nodes /\ S \subseteq Nodes /\ b \in Nat
    BY <1>1, InsideBranch
  <2>2. c \in Nodes /\ p \in Nodes /\ p \in Path[n] /\ p # n
    BY <1>1, <2>1, PathStep
  <2>3. /\ level_by_idx(c) = level_by_idx(p) + 1 /\ level_by_idx(p) \in Nat
        /\ level_by_idx(c) <= level_by_idx(n) /\ level_by_idx(n) \in Nat /\ level_by_idx(c) \in Nat
    BY <1>1, InsideBranch
  <2>4. level_by_idx(p) >= b /\ level_by_idx(p) >= max_level /\ p \notin S
    BY <1>1, InsideBranch
  <2>5. b >= max_level /\ max_level >= 1 /\ max_level \in Nat
    BY <1>1, InsideBranch
  <2>6. \A d \in Path[n] : parent_idx_by_idx(d) = p => d = c
    BY <1>1, <2>1, PathStep
  <2> QED
    BY <2>1, <2>2, <2>3, <2>4, <2>5, <2>6
<1>3. Cleaned(T[p], c) = ExactWord(p, S)
  <2>1. WordAbove(T, S, n, c, ~Used(c, S))
    BY <1>1, <1>2 DEF Unmarking
  <2>2. T[p] = ExactWord(p, S \cup {n}) \cup {OwnCoal(c)}
    BY <1>1, <2>1 DEF WordAbove
  <2>3. ExactWord(p, S) = ExactWord(p, S \cup {n}) \ {OwnOcc(c)}
    BY <1>1, <1>2, WordRemoved
  <2>4. OwnCoal(c) \notin ExactWord(p, S)
    BY WordBits DEF OCCUPY_BLOCK, OwnCoal
  <2> HIDE DEF p
  <2> QED
    BY <2>2, <2>3, <2>4 DEF Cleaned
<1>4. BuddyOcc(c) \in Cleaned(T[p], c) <=> Used(p, S)
  <2>1. BuddyOcc(c) \in ExactWord(p, S) <=> Used(Sibling(c), S)
    BY <1>1, <1>2, WordAdded
  <2>2. Used(p, S) <=> Used(Sibling(c), S)
    BY <1>1, <1>2, UsedByBuddy
  <2> QED
    BY <1>3, <2>1, <2>2
<1>5. ExactAway(U, S, n, b, level_by_idx(p))
  <2> SUFFICES ASSUME NEW m \in Nodes,
                      ~(m \in Path[n] /\ level_by_idx(m) >= b /\ level_by_idx(m) < level_by_idx(p))
               PROVE  U[m] = ExactWord(m, S)
    BY DEF ExactAway
  <2>1. CASE m = p
    BY <1>2, <1>3, <2>1
  <2>2. CASE m # p
    <3>1. U[m] = T[m]
      BY <2>2
    <3>2. m \in Path[n] => level_by_idx(m) # level_by_idx(p) /\ level_by_idx(m) \in Nat
      BY <1>2, <2>2, LevelUnique, PathLevels
    <3>3. ~(m \in Path[n] /\ level_by_idx(m) >= b /\ level_by_idx(m) < level_by_idx(c))
      BY <1>2, <3>2
    <3> QED
      BY <3>1, <3>3 DEF Unmarking, ExactAway
  <2> QED
    BY <2>1, <2>2
<1>6. ASSUME NEW d \in Path[n], level_by_idx(d) > b, level_by_idx(d) <= level_by_idx(p)
      PROVE  /\ parent_idx_by_idx(d) \in Nodes
             /\ WordAbove(U, S, n, d, ~Used(d, S))
  <2>1. d # 1 /\ d # c /\ level_by_idx(d) \in Nat
    BY <1>2, <1>6, PathLevels, RootLevel
  <2>2. parent_idx_by_idx(d) \in Nodes /\ parent_idx_by_idx(d) # p
    BY <1>2, <2>1, PathStep
  <2>3. level_by_idx(d) <= level_by_idx(c)
    BY <1>2, <1>6, <2>1
  <2>4. WordAbove(T, S, n, d, ~Used(d, S))
    BY <1>6, <2>3 DEF Unmarking
  <2> QED
    BY <2>2, <2>4 DEF WordAbove
<1>7. CASE level_by_idx(p) # b /\ ~Used(p, S)
  <2>1. p # 1
    BY <1>2, <1>7, RootLevel
  <2>2. Unmarking(U, S, n, p, b)
    BY <1>2, <1>5, <1>6, <1>7, <2>1 DEF Unmarking
  <2> QED
    BY <1>4, <1>7, <2>2
<1>8. CASE level_by_idx(p) = b
  <2>1. Reflects(U, S)
    BY <1>2, <1>5, <1>8, NothingLeft
  <2> QED
    BY <1>8, <2>1
<1>9. CASE level_by_idx(p) # b /\ Used(p, S)
  <2>1. ASSUME NEW m \in Nodes, m \in Path[n], level_by_idx(m) >= b, level_by_idx(m) < level_by_idx(p)
        PROVE  U[m] = ExactWord(m, S)
    <3>1. m \in Path[p] /\ m # p /\ level_by_idx(m) \in Nat
      BY <1>2, <2>1, PathLinear, PathLevels
    <3>2. PICK d \in Path[p] : d # 1 /\ parent_idx_by_idx(d) = m
      BY <1>2, <3>1, ChildOfPath
    <3>3. d \in Path[n] /\ level_by_idx(d) <= level_by_idx(p) /\ level_by_idx(d) = level_by_idx(m) + 1
      <4>1. d \in Path[n]
        BY <1>2, PathFacts DEF Indexes
      <4>2. level_by_idx(d) <= level_by_idx(p)
        BY <1>2, PathLevels
      <4>3. level_by_idx(d) = level_by_idx(m) + 1
        BY <1>2, <3>2, <4>1, PathStep
      <4> QED
        BY <4>1, <4>2, <4>3
    <3>4. level_by_idx(d) > b
      BY <1>2, <2>1, <3>1, <3>3
    <3>5. Used(d, S)
      BY <1>2, <1>9, UsedAbove
    <3>6. U[m] = ExactWord(m, S \cup {n})
      BY <1>6, <3>2, <3>3, <3>4, <3>5 DEF WordAbove
    <3>7. m \notin S /\ level_by_idx(m) >= max_level
      <4>1. max_level \in Nat /\ b >= max_level
        BY LevelType DEF Bounded
      <4>2. level_by_idx(m) >= max_level
        BY <1>2, <2>1, <3>1, <4>1
      <4> QED
        BY <2>1, <4>2 DEF Bounded, Clear
    <3>8. ExactWord(m, S \cup {n}) = ExactWord(m, S)
      BY <1>2, <3>2, <3>3, <3>5, <3>7, WordAdded
    <3> QED
      BY <3>6, <3>8
  <2>2. Reflects(U, S)
    BY <1>5, <2>1 DEF ExactAway, Reflects
  <2> QED
    BY <1>4, <1>9, <2>2
<1> QED
  BY <1>7, <1>8, <1>9

(***************************************************************************)
(* The invariant.                                                          *)
(***************************************************************************)

(* What the words are at every location of the thread inside. *)
OperationInv(t) ==
  LET n == target[t]
      c == cur[t]
      b == upper_bound[t]
      f == failed_at[t]
  IN /\ pc[t] # "aborted"
     /\ Refusable(held, n, f)
     /\ pc[t] = "climb" => Climbing(tree, held, n, c)
     /\ pc[t] = "climb_cas" => Climbing(tree, held, n, c) /\ parent_idx_by_idx(c) \notin held
     /\ pc[t] = "alloc_done" /\ f = 0 => Clear(held, n, max_level) /\ Marked(tree, held, n, max_level)
     /\ pc[t] = "alloc_done" /\ f # 0 => Reflects(tree, held)
     /\ pc[t] \in {"free_enter", "free_check"} => Bounded(held, n, b) /\ Marked(tree, held, n, b)
     /\ pc[t] = "mark" => Bounded(held, n, b) /\ Marking(tree, held, n, c, b)
     /\ pc[t] = "release" => Bounded(held, n, b) /\ Releasing(tree, held, n, b)
     /\ pc[t] = "unmark" => Bounded(held, n, b) /\ Unmarking(tree, held, n, c, b)
     /\ pc[t] = "unmark_cas" =>
          Bounded(held, n, b) /\ Unmarking(tree, held, n, c, b) /\ level_by_idx(c) > b
     /\ pc[t] = "free_done" => Reflects(tree, held)

TreeInv ==
  /\ NoOverlap
  /\ Quiescent => Reflects(tree, held)
  /\ \A t \in Threads : pc[t] # "idle" => OperationInv(t)

(* No release gives its node up. *)
NothingAbandoned == abandoned = {}

SLInv == OwnerInv /\ TreeInv /\ NothingAbandoned

LEMMA TreeInit == Init => TreeInv
<1> SUFFICES ASSUME Init
             PROVE  TreeInv
  OBVIOUS
<1>1. held = {} /\ \A m \in Nodes : tree[m] = {}
  BY DEF Init, CallersInit, FREE_BLOCK, Indexes
<1>2. \A m \in Nodes : ExactWord(m, {}) = {}
  BY DEF ExactWord
<1> QED
  BY <1>1, <1>2 DEF TreeInv, NoOverlap, Reflects, Init, CallersInit

(* A step of t concerns t alone: the others are outside. *)
LEMMA OnlyMover ==
  ASSUME SLInv, BD_SPIN_LOCK, NEW t \in Threads,
         \/ \E n \in Targets : AllocStart(t, n) \/ FreeStart(t, n)
         \/ Step(t),
         NoOverlap',
         pc'[t] = "idle" => Reflects(tree', held'),
         pc'[t] # "idle" => OperationInv(t)'
  PROVE  TreeInv'
<1>1. \A u \in Threads \ {t} : pc'[u] = "idle"
  BY OthersOutside, OthersStay DEF SLInv, OwnerInv, TypeInv
<1> QED
  BY <1>1 DEF TreeInv, Quiescent

(* An operation starts on an exact tree. *)
LEMMA StartsExact ==
  ASSUME SLInv, BD_SPIN_LOCK, NEW t \in Threads,
         \E n \in Targets : AllocStart(t, n) \/ FreeStart(t, n)
  PROVE  Reflects(tree, held) /\ failed_at[t] = 0 /\ pc[t] = "idle"
<1>1. pc[t] = "idle"
  BY DEF AllocStart, FreeStart, At
<1>2. \A u \in Threads \ {t} : pc[u] = "idle"
  BY OthersOutside DEF SLInv, OwnerInv
<1> QED
  BY <1>1, <1>2 DEF SLInv, OwnerInv, NotFailedInv, TreeInv, Quiescent

(* What a thread inside may rely on. *)
LEMMA InsideFacts ==
  ASSUME SLInv, NEW t \in Threads, pc[t] # "idle"
  PROVE  /\ OperationInv(t)
         /\ target[t] \in Allocable /\ target[t] \in Targets
         /\ held \in SUBSET Allocable /\ held \in SUBSET Nodes
         /\ NoOverlap
BY TreeAssumption DEF SLInv, OwnerInv, TypeInv, TypeOK, CallersTypeOK, TargetInv, TreeInv, Allocable

(* A store to the word of m. *)
LEMMA Stored ==
  ASSUME TypeOK, NEW m \in Indexes, NEW w, tree' = [tree EXCEPT ![m] = w]
  PROVE  \A k \in Nodes : tree'[k] = IF k = m THEN w ELSE tree[k]
BY DEF TypeOK, Indexes

LEMMA AllocStartTree ==
  ASSUME SLInv, BD_SPIN_LOCK, NEW t \in Threads, NEW n \in Targets, AllocStart(t, n)
  PROVE  TreeInv'
<1> USE DEF SLInv, OwnerInv, TypeInv, TypeOK, CallersTypeOK
<1>1. Reflects(tree, held) /\ failed_at[t] = 0 /\ held' = held /\ target'[t] = n
      /\ n \in Allocable /\ n \in Nodes /\ n \in Indexes
      /\ held \in SUBSET Allocable /\ held \in SUBSET Nodes
  BY StartsExact, TreeAssumption DEF AllocStart, Allocable, Indexes
<1>2. NoOverlap'
  BY <1>1 DEF TreeInv, NoOverlap
<1>3. CASE ~Available(tree[n])
  <2>1. pc'[t] = "alloc_done" /\ failed_at'[t] = n /\ tree' = tree
    BY <1>3 DEF AllocStart, Goto
  <2>2. n # 0 /\ \E m \in held : Overlap(m, n)
    BY <1>1, <1>3, NotFree DEF Available, Reflects
  <2>3. OperationInv(t)'
    <3>1. NoRoomFor(held, n, n)
      BY <1>1, <2>2, SelfOnPath DEF NoRoomFor, Contains
    <3> QED
      BY <1>1, <2>1, <2>2, <3>1 DEF OperationInv, Refusable
  <2> QED
    BY <1>2, <2>1, <2>3, OnlyMover
<1>4. CASE Available(tree[n])
  <2>1. /\ tree' = [tree EXCEPT ![n] = OCCUPY_BLOCK] /\ cur'[t] = n
        /\ pc'[t] = IF level_by_idx(n) = max_level THEN "alloc_done" ELSE "climb"
        /\ failed_at'[t] = 0
    BY <1>1, <1>4 DEF AllocStart, Goto
  <2>2. Clear(held, n, level_by_idx(n)) /\ Marked(tree', held, n, level_by_idx(n))
    <3>1. tree[n] = FREE_BLOCK
      BY <1>4 DEF Available
    <3>2. \A m \in Nodes : tree'[m] = IF m = n THEN OCCUPY_BLOCK ELSE tree[m]
      BY <1>1, <2>1, Stored
    <3> QED
      BY <1>1, <3>1, <3>2, Taken
  <2>3. Refusable(held', target'[t], failed_at'[t])
    BY <2>1 DEF Refusable
  <2>4. CASE level_by_idx(n) = max_level
    <3>1. pc'[t] = "alloc_done"
      BY <2>1, <2>4
    <3>2. OperationInv(t)'
      BY <1>1, <2>1, <2>2, <2>3, <2>4, <3>1 DEF OperationInv
    <3> QED
      BY <1>2, <3>1, <3>2, OnlyMover
  <2>5. CASE level_by_idx(n) # max_level
    <3>1. pc'[t] = "climb"
      BY <2>1, <2>5
    <3>2. level_by_idx(n) > max_level /\ n \in Path[n]
      BY <1>1, <2>5, SelfOnPath, LevelType DEF Allocable
    <3>3. Climbing(tree', held', target'[t], cur'[t])
      BY <1>1, <2>1, <2>2, <3>2 DEF Climbing
    <3>4. OperationInv(t)'
      BY <2>3, <3>1, <3>3 DEF OperationInv
    <3> QED
      BY <1>2, <3>1, <3>4, OnlyMover
  <2> QED
    BY <2>4, <2>5
<1> QED
  BY <1>3, <1>4

LEMMA ClimbReadTree ==
  ASSUME SLInv, BD_SPIN_LOCK, NEW t \in Threads, ClimbRead(t)
  PROVE  TreeInv'
<1> USE DEF OwnerInv, TypeInv, TypeOK, CallersTypeOK
<1> DEFINE c == cur[t]
           p == parent_idx_by_idx(c)
           n == target[t]
<1>1. pc[t] = "climb" /\ tree' = tree /\ held' = held /\ target'[t] = n
  BY DEF ClimbRead, At, SLInv
<1>2. /\ Climbing(tree, held, n, c) /\ Refusable(held, n, failed_at[t])
      /\ n \in Allocable /\ held \in SUBSET Allocable /\ held \in SUBSET Nodes
  BY <1>1, InsideFacts DEF OperationInv
<1>3. NoOverlap'
  BY <1>1 DEF TreeInv, NoOverlap, SLInv
<1>4. /\ n \in Nodes /\ c \in Path[n] /\ c \in Nodes /\ c # 1 /\ p \in Nodes /\ p \in Path[n]
      /\ level_by_idx(c) = level_by_idx(p) + 1 /\ level_by_idx(p) \in Nat
      /\ level_by_idx(c) <= level_by_idx(n) /\ level_by_idx(c) > max_level /\ max_level \in Nat
  <2>1. n \in Nodes /\ c \in Path[n] /\ level_by_idx(c) > max_level /\ max_level \in Nat
    BY <1>2, LevelType DEF Climbing, Allocable
  <2> QED
    BY <2>1, PathStep
<1>5. tree[p] = ExactWord(p, held)
  BY <1>2, <1>4 DEF Climbing, Marked
<1>6. "OCCUPY" \in tree[p] <=> p \in held
  BY <1>5, WordBits
<1>7. CASE "OCCUPY" \in tree[p]
  <2>1. pc'[t] = "free_enter" /\ failed_at'[t] = p /\ upper_bound'[t] = level_by_idx(c)
    BY <1>4, <1>7 DEF ClimbRead, Goto, SLInv
  <2>2. Refusable(held, n, p)
    BY <1>4, <1>6, <1>7, SelfOnPath DEF Refusable, NoRoomFor, Contains
  <2>3. Bounded(held, n, level_by_idx(c)) /\ Marked(tree, held, n, level_by_idx(c))
    <3>1. level_by_idx(c) \in max_level .. level_by_idx(n)
      BY <1>4, PathLevels
    <3> QED
      BY <1>2, <3>1 DEF Climbing, Bounded
  <2>4. OperationInv(t)'
    BY <1>1, <2>1, <2>2, <2>3 DEF OperationInv
  <2>5. pc'[t] # "idle"
    BY <2>1
  <2> QED
    BY <1>3, <2>4, <2>5, OnlyMover DEF Step, Inside
<1>8. CASE "OCCUPY" \notin tree[p] /\ Fragmented(tree[p], c) = tree[p]
  <2>1. cur'[t] = p /\ failed_at' = failed_at
        /\ pc'[t] = IF level_by_idx(p) = max_level THEN "alloc_done" ELSE "climb"
    BY <1>8 DEF ClimbRead, Climbed, Goto, SLInv
  <2>2. /\ level_by_idx(p) >= max_level
        /\ Clear(held, n, level_by_idx(p)) /\ Marked(tree, held, n, level_by_idx(p))
    <3>1. \A m \in Nodes : tree[m] = IF m = p THEN Fragmented(tree[m], c) ELSE tree[m]
      BY <1>8
    <3> HIDE DEF n, c
    <3> QED
      BY <1>2, <1>6, <1>8, <3>1, ClimbedTo
  <2>3. failed_at[t] = 0
    BY <1>1 DEF SLInv, NotFailedInv
  <2>4. OperationInv(t)'
    <3>1. CASE level_by_idx(p) = max_level
      BY <1>1, <1>2, <2>1, <2>2, <2>3, <3>1 DEF OperationInv
    <3>2. CASE level_by_idx(p) # max_level
      <4>1. level_by_idx(p) > max_level
        BY <1>4, <2>2, <3>2
      <4>2. Climbing(tree', held', target'[t], cur'[t])
        BY <1>1, <1>4, <2>1, <2>2, <4>1 DEF Climbing
      <4> QED
        BY <1>1, <1>2, <2>1, <3>2, <4>2 DEF OperationInv
    <3> QED
      BY <3>1, <3>2
  <2>5. pc'[t] # "idle"
    BY <2>1
  <2> QED
    BY <1>3, <2>4, <2>5, OnlyMover DEF Step, Inside
<1>9. CASE "OCCUPY" \notin tree[p] /\ Fragmented(tree[p], c) # tree[p]
  <2>1. pc'[t] = "climb_cas" /\ cur' = cur /\ failed_at' = failed_at
    BY <1>9 DEF ClimbRead, Goto, SLInv
  <2>2. OperationInv(t)'
    BY <1>1, <1>2, <1>6, <1>9, <2>1 DEF OperationInv
  <2>3. pc'[t] # "idle"
    BY <2>1
  <2> QED
    BY <1>3, <2>2, <2>3, OnlyMover DEF Step, Inside
<1> QED
  BY <1>7, <1>8, <1>9

LEMMA ClimbCASTree ==
  ASSUME SLInv, BD_SPIN_LOCK, NEW t \in Threads, ClimbCAS(t)
  PROVE  TreeInv'
<1> USE DEF OwnerInv, TypeInv, TypeOK, CallersTypeOK
<1> DEFINE c == cur[t]
           p == parent_idx_by_idx(c)
           n == target[t]
<1>1. pc[t] = "climb_cas" /\ held' = held /\ target'[t] = n /\ failed_at' = failed_at
      /\ CASSucceeds(t, p)
  BY DEF ClimbCAS, At, SLInv, CASSucceeds
<1>2. /\ Climbing(tree, held, n, c) /\ Refusable(held, n, failed_at[t]) /\ p \notin held
      /\ n \in Allocable /\ held \in SUBSET Allocable /\ held \in SUBSET Nodes
  BY <1>1, InsideFacts DEF OperationInv
<1>3. NoOverlap'
  BY <1>1 DEF TreeInv, NoOverlap, SLInv
<1>4. n \in Nodes /\ p \in Nodes /\ p \in Path[n] /\ level_by_idx(p) \in Nat /\ p \in Indexes
      /\ max_level \in Nat
  <2>1. n \in Nodes /\ c \in Path[n] /\ level_by_idx(c) > max_level
    BY <1>2 DEF Climbing, Allocable
  <2> QED
    BY <2>1, PathStep, LevelType DEF Indexes
<1>5. seen[t] = tree[p] /\ failed_at[t] = 0
  BY <1>1 DEF SLInv, SeenInv, NotFailedInv
<1>6. /\ tree' = [tree EXCEPT ![p] = Fragmented(tree[p], c)] /\ cur'[t] = p
      /\ pc'[t] = IF level_by_idx(p) = max_level THEN "alloc_done" ELSE "climb"
  BY <1>1, <1>5 DEF ClimbCAS, Climbed, Goto, SLInv
<1>7. /\ level_by_idx(p) >= max_level
      /\ Clear(held, n, level_by_idx(p)) /\ Marked(tree', held, n, level_by_idx(p))
  <2>1. \A m \in Nodes : tree'[m] = IF m = p THEN Fragmented(tree[m], c) ELSE tree[m]
    BY <1>4, <1>6, Stored DEF SLInv
  <2> HIDE DEF n, c
  <2> QED
    BY <1>2, <2>1, ClimbedTo
<1>8. OperationInv(t)'
  <2>1. CASE level_by_idx(p) = max_level
    BY <1>1, <1>2, <1>5, <1>6, <1>7, <2>1 DEF OperationInv
  <2>2. CASE level_by_idx(p) # max_level
    <3>1. level_by_idx(p) > max_level
      BY <1>4, <1>7, <2>2
    <3>2. Climbing(tree', held', target'[t], cur'[t])
      BY <1>1, <1>4, <1>6, <1>7, <3>1 DEF Climbing
    <3> QED
      BY <1>1, <1>2, <1>6, <2>2, <3>2 DEF OperationInv
  <2> QED
    BY <2>1, <2>2
<1>9. pc'[t] # "idle"
  BY <1>6
<1> QED
  BY <1>3, <1>8, <1>9, OnlyMover DEF Step, Inside

(* A block that is clear up to max_level can join the held ones. *)
LEMMA JoinsDisjoint ==
  ASSUME NEW S \in SUBSET Allocable, NEW n \in Allocable, Clear(S, n, max_level), NEW m \in S
  PROVE  ~Overlap(m, n) /\ ~Overlap(n, m)
<1>1. m \in Nodes /\ level_by_idx(m) >= max_level
  BY DEF Allocable
<1>2. m \notin Path[n]
  BY <1>1 DEF Clear
<1>3. n \notin Path[m]
  BY <1>1 DEF Clear, Used, Subtree, Contains
<1> QED
  BY <1>2, <1>3 DEF Overlap, Contains

LEMMA AllocReturnTree ==
  ASSUME SLInv, BD_SPIN_LOCK, NEW t \in Threads, AllocReturn(t)
  PROVE  TreeInv'
<1> USE DEF OwnerInv, TypeInv, TypeOK, CallersTypeOK
<1> DEFINE n == target[t]
<1>1. pc[t] = "alloc_done" /\ tree' = tree /\ held' = held \cup Granted(t) /\ pc'[t] = "idle"
  BY DEF AllocReturn, At, ForgetLocals, Leave, Goto, SLInv
<1>2. OperationInv(t) /\ n \in Allocable /\ held \in SUBSET Allocable /\ NoOverlap
  BY <1>1, InsideFacts
<1>3. CASE failed_at[t] = 0
  <2>1. held' = held \cup {n}
    BY <1>1, <1>3 DEF Granted
  <2>2. Clear(held, n, max_level) /\ Marked(tree, held, n, max_level)
    BY <1>1, <1>2, <1>3 DEF OperationInv
  <2>3. Reflects(tree', held')
    BY <1>1, <1>2, <2>1, <2>2, MarkedIsHeld
  <2>4. NoOverlap'
    BY <1>2, <2>1, <2>2, JoinsDisjoint DEF NoOverlap
  <2> QED
    BY <1>1, <2>3, <2>4, OnlyMover DEF Step
<1>4. CASE failed_at[t] # 0
  <2>1. held' = held
    BY <1>1, <1>4 DEF Granted
  <2>2. Reflects(tree', held')
    BY <1>1, <1>2, <1>4, <2>1 DEF OperationInv
  <2>3. NoOverlap'
    BY <1>2, <2>1 DEF NoOverlap
  <2> QED
    BY <1>1, <2>2, <2>3, OnlyMover DEF Step
<1> QED
  BY <1>3, <1>4

LEMMA FreeStartTree ==
  ASSUME SLInv, BD_SPIN_LOCK, NEW t \in Threads, NEW n \in Targets, FreeStart(t, n)
  PROVE  TreeInv'
<1> USE DEF OwnerInv, TypeInv, TypeOK, CallersTypeOK
<1>1. /\ tree' = tree /\ held' = held \ {n} /\ n \in held /\ target'[t] = n
      /\ upper_bound'[t] = max_level /\ failed_at' = failed_at /\ pc'[t] = "free_enter"
  BY DEF FreeStart, Goto, SLInv
<1>2. /\ Reflects(tree, held) /\ failed_at[t] = 0 /\ NoOverlap
      /\ n \in Allocable /\ held' \in SUBSET Allocable /\ held = held' \cup {n}
  BY <1>1, StartsExact, TreeAssumption DEF SLInv, TreeInv
<1>3. Marked(tree, held', n, max_level)
  BY <1>2, MarkedIsHeld
<1>4. Clear(held', n, max_level)
  BY <1>1, <1>2 DEF NoOverlap, Overlap, Contains, Clear, Used, Subtree
<1>5. Bounded(held', n, max_level)
  <2>1. n \in Indexes /\ level_by_idx(n) >= max_level
    BY <1>2 DEF Allocable, Indexes
  <2>2. level_by_idx(n) \in Nat /\ max_level \in Nat
    BY <2>1, LevelType
  <2> QED
    BY <1>4, <2>1, <2>2 DEF Bounded
<1>6. OperationInv(t)'
  BY <1>1, <1>2, <1>3, <1>5 DEF OperationInv, Refusable
<1>7. NoOverlap'
  BY <1>1, <1>2 DEF NoOverlap
<1> QED
  BY <1>1, <1>6, <1>7, OnlyMover

LEMMA FreeEnterTree ==
  ASSUME SLInv, BD_SPIN_LOCK, NEW t \in Threads, FreeEnter(t)
  PROVE  TreeInv'
<1> USE DEF OwnerInv, TypeInv, TypeOK, CallersTypeOK
<1> DEFINE n == target[t]
           b == upper_bound[t]
<1>1. /\ pc[t] = "free_enter" /\ tree' = tree /\ held' = held /\ target' = target
      /\ upper_bound' = upper_bound /\ failed_at' = failed_at
  BY DEF FreeEnter, At, SLInv
<1>2. /\ Bounded(held, n, b) /\ Marked(tree, held, n, b) /\ Refusable(held, n, failed_at[t])
      /\ n \in Allocable /\ held \in SUBSET Allocable /\ NoOverlap
  BY <1>1, InsideFacts DEF OperationInv
<1>3. tree[n] = OCCUPY_BLOCK
  <2> HIDE DEF n, b
  <2> QED
    BY <1>2, ReleaseEntered
<1>4. pc'[t] = "free_check"
  BY <1>3 DEF FreeEnter, Goto, SLInv
<1>5. OperationInv(t)'
  BY <1>1, <1>2, <1>4 DEF OperationInv
<1>6. NoOverlap' /\ pc'[t] # "idle"
  BY <1>1, <1>2, <1>4 DEF NoOverlap
<1> QED
  BY <1>5, <1>6, OnlyMover DEF Step, Inside

LEMMA FreeCheckTree ==
  ASSUME SLInv, BD_SPIN_LOCK, NEW t \in Threads, FreeCheck(t)
  PROVE  TreeInv'
<1> USE DEF OwnerInv, TypeInv, TypeOK, CallersTypeOK
<1> DEFINE n == target[t]
           b == upper_bound[t]
<1>1. /\ pc[t] = "free_check" /\ tree' = tree /\ held' = held /\ target' = target
      /\ upper_bound' = upper_bound /\ failed_at' = failed_at
  BY DEF FreeCheck, At, SLInv
<1>2. /\ Bounded(held, n, b) /\ Marked(tree, held, n, b) /\ Refusable(held, n, failed_at[t])
      /\ n \in Allocable /\ held \in SUBSET Allocable /\ NoOverlap
  BY <1>1, InsideFacts DEF OperationInv
<1>3. /\ tree[n] = OCCUPY_BLOCK
      /\ level_by_idx(n) = b => Releasing(tree, held, n, b)
      /\ level_by_idx(n) # b => Marking(tree, held, n, n, b)
  <2> HIDE DEF n, b
  <2> QED
    BY <1>2, ReleaseEntered
<1>4. cur'[t] = n /\ pc'[t] = IF level_by_idx(n) = b THEN "release" ELSE "mark"
  BY <1>3 DEF FreeCheck, Goto, SLInv
<1>5. OperationInv(t)'
  BY <1>1, <1>2, <1>3, <1>4 DEF OperationInv
<1>6. NoOverlap' /\ pc'[t] # "idle"
  BY <1>1, <1>2, <1>4 DEF NoOverlap
<1> QED
  BY <1>5, <1>6, OnlyMover DEF Step, Inside

LEMMA MarkTree ==
  ASSUME SLInv, BD_SPIN_LOCK, NEW t \in Threads, Mark(t)
  PROVE  TreeInv'
<1> USE DEF OwnerInv, TypeInv, TypeOK, CallersTypeOK
<1> DEFINE n == target[t]
           b == upper_bound[t]
           c == cur[t]
           p == parent_idx_by_idx(c)
<1>1. /\ pc[t] = "mark" /\ held' = held /\ target' = target
      /\ upper_bound' = upper_bound /\ failed_at' = failed_at
  BY DEF Mark, At, SLInv
<1>2. /\ Bounded(held, n, b) /\ Marking(tree, held, n, c, b) /\ Refusable(held, n, failed_at[t])
      /\ n \in Allocable /\ held \in SUBSET Allocable /\ NoOverlap
  BY <1>1, InsideFacts DEF OperationInv
<1>3. p \in Indexes /\ \A m \in Nodes : tree'[m] = IF m = p THEN tree[m] \cup {OwnCoal(c)} ELSE tree[m]
  <2>0. c \in Indexes
    BY DEF SLInv
  <2>1. p \in Indexes
    BY <2>0, IndexFacts
  <2>2. tree' = [tree EXCEPT ![p] = tree[p] \cup {OwnCoal(c)}]
    BY DEF Mark, SLInv
  <2>3. \A m \in Nodes : tree'[m] = IF m = p THEN tree[p] \cup {OwnCoal(c)} ELSE tree[m]
    BY <2>1, <2>2, Stored DEF SLInv
  <2> HIDE DEF p
  <2> QED
    BY <2>1, <2>3
<1>4. /\ BuddyInUse(tree[p], c) => Releasing(tree', held, n, b)
      /\ ~BuddyInUse(tree[p], c) /\ level_by_idx(p) = b => Releasing(tree', held, n, b)
      /\ ~BuddyInUse(tree[p], c) /\ level_by_idx(p) # b => Marking(tree', held, n, p, b)
  <2> HIDE DEF n, b, c
  <2> QED
    BY <1>2, <1>3, MarkedOne
<1>5. NoOverlap'
  BY <1>1, <1>2 DEF NoOverlap
<1>6. CASE BuddyInUse(tree[p], c) \/ level_by_idx(p) = b
  <2>1. pc'[t] = "release"
    BY <1>6 DEF Mark, Goto, SLInv
  <2>2. Releasing(tree', held, n, b)
    BY <1>4, <1>6
  <2>3. OperationInv(t)'
    BY <1>1, <1>2, <2>1, <2>2 DEF OperationInv
  <2>4. pc'[t] # "idle"
    BY <2>1
  <2> QED
    BY <1>5, <2>3, <2>4, OnlyMover DEF Step, Inside
<1>7. CASE ~BuddyInUse(tree[p], c) /\ level_by_idx(p) # b
  <2>1. pc'[t] = "mark" /\ cur'[t] = p
    BY <1>7 DEF Mark, Goto, SLInv
  <2>2. Marking(tree', held, n, p, b)
    BY <1>4, <1>7
  <2>3. OperationInv(t)'
    BY <1>1, <1>2, <2>1, <2>2 DEF OperationInv
  <2>4. pc'[t] # "idle"
    BY <2>1
  <2> QED
    BY <1>5, <2>3, <2>4, OnlyMover DEF Step, Inside
<1> QED
  BY <1>6, <1>7

LEMMA ReleaseTree ==
  ASSUME SLInv, BD_SPIN_LOCK, NEW t \in Threads, Release(t)
  PROVE  TreeInv'
<1> USE DEF OwnerInv, TypeInv, TypeOK, CallersTypeOK
<1> DEFINE n == target[t]
           b == upper_bound[t]
<1>1. /\ pc[t] = "release" /\ held' = held /\ target' = target /\ cur'[t] = n
      /\ upper_bound' = upper_bound /\ failed_at' = failed_at
      /\ tree' = [tree EXCEPT ![n] = FREE_BLOCK]
      /\ pc'[t] = IF n # b THEN "unmark" ELSE FreeDone(t)
  BY DEF Release, At, Goto, SLInv
<1>2. /\ Bounded(held, n, b) /\ Releasing(tree, held, n, b) /\ Refusable(held, n, failed_at[t])
      /\ n \in Allocable /\ held \in SUBSET Allocable /\ NoOverlap
  BY <1>1, InsideFacts DEF OperationInv
<1>3. /\ n # b => Unmarking(tree', held, n, n, b)
      /\ n = b => Reflects(tree', held)
  <2>1. \A m \in Nodes : tree'[m] = IF m = n THEN FREE_BLOCK ELSE tree[m]
    BY <1>1, Stored DEF SLInv
  <2> HIDE DEF n, b
  <2> QED
    BY <1>2, <2>1, Released
<1>4. NoOverlap'
  BY <1>1, <1>2 DEF NoOverlap
<1>5. OperationInv(t)' /\ pc'[t] # "idle"
  <2>1. CASE n # b
    BY <1>1, <1>2, <1>3, <2>1 DEF OperationInv
  <2>2. CASE n = b
    BY <1>1, <1>2, <1>3, <2>2 DEF OperationInv, FreeDone
  <2> QED
    BY <2>1, <2>2
<1> QED
  BY <1>4, <1>5, OnlyMover DEF Step, Inside

LEMMA UnmarkReadTree ==
  ASSUME SLInv, BD_SPIN_LOCK, NEW t \in Threads, UnmarkRead(t)
  PROVE  TreeInv'
<1> USE DEF OwnerInv, TypeInv, TypeOK, CallersTypeOK
<1> DEFINE n == target[t]
           b == upper_bound[t]
           c == cur[t]
           p == parent_idx_by_idx(c)
<1>1. /\ pc[t] = "unmark" /\ held' = held /\ target' = target /\ cur' = cur
      /\ upper_bound' = upper_bound /\ failed_at' = failed_at /\ tree' = tree
      /\ pc'[t] = IF OwnCoal(c) \notin tree[p] THEN FreeDone(t) ELSE "unmark_cas"
  BY DEF UnmarkRead, At, Goto, SLInv
<1>2. /\ Bounded(held, n, b) /\ Unmarking(tree, held, n, c, b) /\ Refusable(held, n, failed_at[t])
      /\ n \in Allocable /\ held \in SUBSET Allocable /\ NoOverlap
  BY <1>1, InsideFacts DEF OperationInv
<1>3. /\ OwnCoal(c) \notin tree[p] => Reflects(tree, held)
      /\ OwnCoal(c) \in tree[p] => level_by_idx(c) > b
  <2> HIDE DEF n, b, c
  <2> QED
    BY <1>2, UnmarkEnds
<1>4. NoOverlap'
  BY <1>1, <1>2 DEF NoOverlap
<1>5. OperationInv(t)' /\ pc'[t] # "idle"
  <2>1. CASE OwnCoal(c) \in tree[p]
    BY <1>1, <1>2, <1>3, <2>1 DEF OperationInv
  <2>2. CASE OwnCoal(c) \notin tree[p]
    BY <1>1, <1>2, <1>3, <2>2 DEF OperationInv, FreeDone
  <2> QED
    BY <2>1, <2>2
<1> QED
  BY <1>4, <1>5, OnlyMover DEF Step, Inside

LEMMA UnmarkCASTree ==
  ASSUME SLInv, BD_SPIN_LOCK, NEW t \in Threads, UnmarkCAS(t)
  PROVE  TreeInv'
<1> USE DEF OwnerInv, TypeInv, TypeOK, CallersTypeOK
<1> DEFINE n == target[t]
           b == upper_bound[t]
           c == cur[t]
           p == parent_idx_by_idx(c)
           goes_on == level_by_idx(p) # b /\ BuddyOcc(c) \notin Cleaned(tree[p], c)
<1>1. /\ pc[t] = "unmark_cas" /\ held' = held /\ target' = target
      /\ upper_bound' = upper_bound /\ failed_at' = failed_at /\ CASSucceeds(t, p)
  BY DEF UnmarkCAS, At, CASSucceeds, SLInv
<1>2. /\ Bounded(held, n, b) /\ Unmarking(tree, held, n, c, b) /\ level_by_idx(c) > b
      /\ Refusable(held, n, failed_at[t])
      /\ n \in Allocable /\ held \in SUBSET Allocable /\ NoOverlap
  BY <1>1, InsideFacts DEF OperationInv
<1>3. seen[t] = tree[p]
  BY <1>1 DEF SLInv, SeenInv
<1>4. /\ tree' = [tree EXCEPT ![p] = Cleaned(tree[p], c)] /\ cur'[t] = p
      /\ pc'[t] = IF goes_on THEN "unmark" ELSE FreeDone(t)
  BY <1>1, <1>3 DEF UnmarkCAS, Goto, SLInv
<1>5. /\ goes_on => Unmarking(tree', held, n, p, b)
      /\ ~goes_on => Reflects(tree', held)
  <2>0. c \in Indexes
    BY DEF SLInv
  <2>1. p \in Indexes
    BY <2>0, IndexFacts
  <2>2. \A m \in Nodes : tree'[m] = IF m = p THEN Cleaned(tree[m], c) ELSE tree[m]
    BY <1>4, <2>1, Stored DEF SLInv
  <2> HIDE DEF n, b, c
  <2> QED
    BY <1>2, <2>2, UnmarkedOne
<1>6. NoOverlap'
  BY <1>1, <1>2 DEF NoOverlap
<1>7. OperationInv(t)' /\ pc'[t] # "idle"
  <2>1. CASE goes_on
    BY <1>1, <1>2, <1>4, <1>5, <2>1 DEF OperationInv
  <2>2. CASE ~goes_on
    BY <1>1, <1>2, <1>4, <1>5, <2>2 DEF OperationInv, FreeDone
  <2> QED
    BY <2>1, <2>2
<1> QED
  BY <1>6, <1>7, OnlyMover DEF Step, Inside

LEMMA FreeReturnTree ==
  ASSUME SLInv, BD_SPIN_LOCK, NEW t \in Threads, FreeReturn(t)
  PROVE  TreeInv'
<1> USE DEF OwnerInv, TypeInv, TypeOK, CallersTypeOK
<1>1. pc[t] = "free_done" /\ tree' = tree /\ held' = held /\ pc'[t] = "idle"
  BY DEF FreeReturn, At, ForgetLocals, Leave, Goto, SLInv
<1>2. Reflects(tree, held) /\ NoOverlap
  BY <1>1, InsideFacts DEF OperationInv
<1>3. NoOverlap'
  BY <1>1, <1>2 DEF NoOverlap
<1>4. Reflects(tree', held')
  BY <1>1, <1>2
<1> QED
  BY <1>1, <1>3, <1>4, OnlyMover DEF Step

LEMMA SLStep == SLInv /\ BD_SPIN_LOCK /\ [Next]_vars => SLInv'
<1> SUFFICES ASSUME SLInv, BD_SPIN_LOCK, [Next]_vars
             PROVE  SLInv'
  OBVIOUS
<1>1. OwnerInv'
  BY TypeStep, TargetStep, LockStep, SeenStep, NotFailedStep, OneOwnerStep
     DEF SLInv, OwnerInv, TypeInv
<1>4. NothingAbandoned'
  <2>1. ASSUME NEW t \in Threads, FreeCheck(t)
        PROVE  abandoned' = {}
    <3>1. pc[t] = "free_check"
      BY <2>1 DEF FreeCheck, At
    <3>2. /\ Bounded(held, target[t], upper_bound[t])
          /\ Marked(tree, held, target[t], upper_bound[t])
          /\ target[t] \in Allocable /\ held \in SUBSET Allocable
      BY <3>1, InsideFacts DEF OperationInv
    <3>3. tree[target[t]] = OCCUPY_BLOCK
      BY <3>2, ReleaseEntered
    <3> QED
      BY <2>1, <3>3 DEF FreeCheck, SLInv, NothingAbandoned
  <2> QED
    BY <2>1 DEF SLInv, NothingAbandoned, vars, Next, Step, Inside, AllocStart, FreeStart,
                ClimbRead, ClimbCAS, FreeEnter, Mark, Release, UnmarkRead, UnmarkCAS,
                AllocReturn, FreeReturn
<1>2. CASE Next
  <2>1. PICK t \in Threads :
          \/ \E n \in Targets : AllocStart(t, n)
          \/ \E n \in Targets : FreeStart(t, n)
          \/ Step(t)
    BY <1>2 DEF Next
  <2>2. CASE \E n \in Targets : AllocStart(t, n) \/ FreeStart(t, n)
    BY <1>1, <1>4, <2>2, AllocStartTree, FreeStartTree DEF SLInv
  <2>3. CASE Step(t)
    BY <1>1, <1>4, <2>3, ClimbReadTree, ClimbCASTree, AllocReturnTree, FreeEnterTree, FreeCheckTree,
       MarkTree,
       ReleaseTree, UnmarkReadTree, UnmarkCASTree, FreeReturnTree DEF SLInv, Step, Inside
  <2> QED
    BY <2>1, <2>2, <2>3
<1>3. CASE UNCHANGED vars
  <2>1. TreeInv'
    BY <1>3 DEF SLInv, TreeInv, OperationInv, NoOverlap, Quiescent, vars
  <2> QED
    BY <1>1, <1>4, <2>1 DEF SLInv
<1> QED
  BY <1>2, <1>3

LEMMA SLInvariant == ASSUME BD_SPIN_LOCK PROVE Spec => []SLInv
<1>1. Init => SLInv
  BY OwnerInit, TreeInit DEF SLInv, NothingAbandoned, Init
<1>2. SLInv /\ [Next]_vars => SLInv'
  BY SLStep
<1> QED
  BY <1>1, <1>2, PTL DEF Spec

(***************************************************************************)
(* What callers of the blocking build are promised.                        *)
(***************************************************************************)

(* Blocks handed to callers are disjoint, whatever the interleaving of     *)
(* allocations, rollbacks and releases.                                    *)
THEOREM NoOverlapBlocking == ASSUME BD_SPIN_LOCK PROVE Spec => []NoOverlap
<1>1. SLInv => NoOverlap
  BY DEF SLInv, TreeInv
<1> QED
  BY SLInvariant, <1>1, PTL

(* Whenever the lock is free, the words are those of the held blocks: what *)
(* rollbacks and releases leave behind is nothing.                         *)
THEOREM TreeReflectsHeldBlocking == ASSUME BD_SPIN_LOCK PROVE Spec => []TreeReflectsHeld
<1>1. SLInv => TreeReflectsHeld
  <2> SUFFICES ASSUME SLInv, glock = NoOwner
               PROVE  \A n \in Nodes : tree[n] = ExactWord(n, held)
    BY DEF TreeReflectsHeld
  <2>1. \A t \in Threads : pc[t] = "idle"
    BY TreeAssumption DEF SLInv, OwnerInv, LockInv
  <2> QED
    BY <2>1 DEF SLInv, TreeInv, Quiescent, Reflects
<1> QED
  BY SLInvariant, <1>1, PTL

(* The assertion at the start of a release never fails. *)
THEOREM NoAbortBlocking == ASSUME BD_SPIN_LOCK PROVE Spec => []NoAbort
<1>1. SLInv => NoAbort
  BY DEF SLInv, TreeInv, OperationInv, NoAbort
<1> QED
  BY SLInvariant, <1>1, PTL

(* alloc refuses a node only when a held block overlaps it and every node  *)
(* that is skipped with it because of the ancestor alloc names.            *)
THEOREM RefusalJustifiedBlocking == ASSUME BD_SPIN_LOCK PROVE Spec => RefusalJustified
<1>1. SLInv
        => [\A t \in Threads :
              pc[t] = "alloc_done" /\ failed_at[t] # 0 /\ pc'[t] = "idle"
                => NoRoomFor(held, target[t], failed_at[t])]_<<pc, target, failed_at, held>>
  BY DEF SLInv, TreeInv, OperationInv, Refusable
<1> QED
  BY SLInvariant, <1>1, PTL DEF RefusalJustified

(***************************************************************************)
(* The branches above held blocks.                                         *)
(***************************************************************************)

(* Every word shows at least what is allocated in S, or in S and n, or     *)
(* that the node is taken whole.                                           *)
Shows(T, S, n) ==
  \A m \in Nodes :
    \/ ExactWord(m, S) \subseteq T[m]
    \/ ExactWord(m, S \cup {n}) \subseteq T[m]
    \/ T[m] = OCCUPY_BLOCK

LEMMA WordShows ==
  ASSUME NEW T, NEW S, NEW n
  PROVE  /\ Reflects(T, S) => Shows(T, S, n)
         /\ \A l : Marked(T, S, n, l) => Shows(T, S, n)
<1>1. \A m \in Nodes : \A A : T[m] = ExactWord(m, A) => ExactWord(m, A) \subseteq T[m]
  OBVIOUS
<1> QED
  BY <1>1 DEF Reflects, Marked, Shows

(* In a release the words between the bound and the node reached are those *)
(* of the branch, coalescing or not.                                       *)
LEMMA ReleaseShows ==
  ASSUME NEW T, NEW S, NEW n \in Nodes, NEW b \in Nat, NEW h \in Nat,
         h <= level_by_idx(n) \/ T[n] = OCCUPY_BLOCK, h <= level_by_idx(n) + 1,
         ExactAway(T, S, n, b, h),
         \A d \in Path[n] : level_by_idx(d) > b /\ level_by_idx(d) <= h
                              => \E coalescing \in BOOLEAN : WordAbove(T, S, n, d, coalescing)
  PROVE  Shows(T, S, n)
<1> SUFFICES ASSUME NEW m \in Nodes
             PROVE  \/ ExactWord(m, S) \subseteq T[m]
                    \/ ExactWord(m, S \cup {n}) \subseteq T[m]
                    \/ T[m] = OCCUPY_BLOCK
  BY DEF Shows
<1>1. CASE ~(m \in Path[n] /\ level_by_idx(m) >= b /\ level_by_idx(m) < h)
  BY <1>1 DEF ExactAway
<1>2. CASE m \in Path[n] /\ level_by_idx(m) >= b /\ level_by_idx(m) < h /\ m # n
  <2>1. PICK d \in Path[n] : d # 1 /\ parent_idx_by_idx(d) = m
    BY <1>2, ChildOfPath
  <2>2. level_by_idx(d) = level_by_idx(m) + 1 /\ level_by_idx(m) \in Nat
    BY <2>1, PathStep
  <2>3. level_by_idx(d) > b /\ level_by_idx(d) <= h
    BY <1>2, <2>2
  <2>4. PICK coalescing \in BOOLEAN : WordAbove(T, S, n, d, coalescing)
    BY <2>3
  <2> QED
    BY <2>1, <2>4 DEF WordAbove
<1>3. CASE m = n /\ level_by_idx(m) < h
  BY <1>3, LevelType DEF Indexes
<1> QED
  BY <1>1, <1>2, <1>3

(* So whatever the operation under way has done, nothing of the blocks held*)
(* by others is missing in the words.                                      *)
LEMMA InsideShows ==
  ASSUME SLInv, NEW t \in Threads, pc[t] # "idle"
  PROVE  Shows(tree, held, target[t])
<1> DEFINE n == target[t]
           c == cur[t]
           b == upper_bound[t]
<1>1. OperationInv(t) /\ n \in Allocable /\ n \in Nodes /\ pc[t] \in Locations
  BY InsideFacts DEF Allocable, SLInv, OwnerInv, TypeInv, TypeOK
<1>2. b \in Nat /\ level_by_idx(n) \in Nat
  BY <1>1, LevelType DEF Indexes, SLInv, OwnerInv, TypeInv, TypeOK, CallersTypeOK
<1> HIDE DEF n, c, b
<1>3. CASE pc[t] \in {"climb", "climb_cas", "alloc_done", "free_enter", "free_check", "free_done"}
  BY <1>1, <1>3, WordShows DEF OperationInv, Climbing, n, c, b
<1>4. CASE pc[t] \in {"mark", "release"}
  <2>1. tree[n] = OCCUPY_BLOCK /\ ExactAway(tree, held, n, b, level_by_idx(n) + 1)
    BY <1>1, <1>4 DEF OperationInv, Marking, Releasing, n, c, b
  <2>2. \A d \in Path[n] : level_by_idx(d) > b
          => \E coalescing \in BOOLEAN : WordAbove(tree, held, n, d, coalescing)
    <3> SUFFICES ASSUME NEW d \in Path[n], level_by_idx(d) > b
                 PROVE  \E coalescing \in BOOLEAN : WordAbove(tree, held, n, d, coalescing)
      OBVIOUS
    <3>1. CASE pc[t] = "mark"
      <4>1. Marking(tree, held, n, c, b)
        BY <1>1, <3>1 DEF OperationInv, n, c, b
      <4>2. WordAbove(tree, held, n, d, level_by_idx(d) > level_by_idx(c))
        BY <4>1 DEF Marking
      <4>3. (level_by_idx(d) > level_by_idx(c)) \in BOOLEAN
        OBVIOUS
      <4> QED
        BY <4>2, <4>3
    <3>2. CASE pc[t] = "release"
      <4>1. Releasing(tree, held, n, b)
        BY <1>1, <3>2 DEF OperationInv, n, c, b
      <4>2. WordAbove(tree, held, n, d, ~Used(d, held))
        BY <4>1 DEF Releasing
      <4>3. (~Used(d, held)) \in BOOLEAN
        OBVIOUS
      <4> QED
        BY <4>2, <4>3
    <3> QED
      BY <1>4, <3>1, <3>2
  <2> QED
    BY <1>1, <1>2, <2>1, <2>2, ReleaseShows DEF n
<1>5. CASE pc[t] \in {"unmark", "unmark_cas"}
  <2>1. Unmarking(tree, held, n, c, b)
    BY <1>1, <1>5 DEF OperationInv, n, c, b
  <2>2. /\ ExactAway(tree, held, n, b, level_by_idx(c))
        /\ level_by_idx(c) \in Nat /\ level_by_idx(c) <= level_by_idx(n)
    BY <1>1, <2>1, PathLevels DEF Unmarking
  <2>3. \A d \in Path[n] : level_by_idx(d) > b /\ level_by_idx(d) <= level_by_idx(c)
          => \E coalescing \in BOOLEAN : WordAbove(tree, held, n, d, coalescing)
    BY <2>1 DEF Unmarking
  <2> QED
    BY <1>1, <1>2, <2>2, <2>3, ReleaseShows DEF n
<1> QED
  BY <1>1, <1>3, <1>4, <1>5 DEF Locations, OperationInv

(* The bit that stands for c is on where a block of c is allocated. *)
LEMMA BitShown ==
  ASSUME NEW c \in Nodes, c # 1, NEW S, Used(c, S),
         level_by_idx(parent_idx_by_idx(c)) >= max_level
  PROVE  OwnOcc(c) \in ExactWord(parent_idx_by_idx(c), S) /\ OwnOcc(c) \in OCCUPY_BLOCK
<1>1. OwnOcc(c) \in OCCUPY_BLOCK
  BY DEF OwnOcc, OCCUPY_BLOCK
<1>2. CASE parent_idx_by_idx(c) \in S
  BY <1>1, <1>2, WordBits
<1>3. CASE parent_idx_by_idx(c) \notin S
  BY <1>1, <1>3, WordAtParent
<1> QED
  BY <1>1, <1>2, <1>3

(* No block around a held one has an owner. *)
LEMMA NotBusyAbove ==
  ASSUME SLInv, NEW n \in held, NEW p \in Path[n], p # n
  PROVE  "OCCUPY" \notin tree[p]
<1>1. n \in Nodes /\ p \in Nodes
  BY TargetsAreNodes, PathFacts DEF SLInv, OwnerInv, TypeInv, TypeOK, CallersTypeOK, Indexes
<1>2. p \notin held
  BY DEF SLInv, TreeInv, NoOverlap, Overlap, Contains
<1>3. Used(p, held)
  BY <1>1 DEF Used, Subtree, Contains
<1>4. ASSUME NEW t \in Threads, Owns(t), target[t] = p
      PROVE  FALSE
  <2>1. pc[t] # "idle" /\ OperationInv(t)
    BY <1>4 DEF Owns, SLInv, TreeInv
  <2>2. ~Used(target[t], held)
    BY <1>4, <2>1 DEF Owns, OperationInv, Climbing, Bounded, Clear
  <2> QED
    BY <1>3, <1>4, <2>2
<1> QED
  BY <1>1, <1>2, <1>4 DEF SLInv, OwnerInv, OneOwner, NothingAbandoned

(* The branch above a held block always shows that it is in use, and only  *)
(* that: at every step of every operation of the others.                   *)
THEOREM HeldBranchMarkedBlocking == ASSUME BD_SPIN_LOCK PROVE Spec => []HeldBranchMarked
<1>1. ASSUME SLInv
      PROVE  HeldBranchMarked
  <2> SUFFICES ASSUME NEW n \in held, NEW c \in Path[n],
                      parent_idx_by_idx(c) >= 1, level_by_idx(parent_idx_by_idx(c)) >= max_level
               PROVE  /\ OwnOcc(c) \in tree[parent_idx_by_idx(c)]
                      /\ "OCCUPY" \notin tree[parent_idx_by_idx(c)]
    BY DEF HeldBranchMarked
  <2> DEFINE p == parent_idx_by_idx(c)
  <2>1. n \in Nodes /\ c \in Nodes
    BY <1>1, TargetsAreNodes, PathFacts
       DEF SLInv, OwnerInv, TypeInv, TypeOK, CallersTypeOK, Indexes
  <2>2. c # 1
    BY DEF parent_idx_by_idx
  <2>3. p \in Path[n] /\ p # n /\ p \in Nodes
    BY <2>1, <2>2, PathStep
  <2>4. \A x : Used(c, held) /\ Used(c, held \cup {x})
    BY <2>1 DEF Used, Subtree, Contains
  <2>5. \A x : /\ OwnOcc(c) \in ExactWord(p, held) /\ OwnOcc(c) \in ExactWord(p, held \cup {x})
               /\ OwnOcc(c) \in OCCUPY_BLOCK
    BY <2>1, <2>2, <2>4, BitShown
  <2> HIDE DEF p
  <2>6. OwnOcc(c) \in tree[p]
    <3>1. CASE Quiescent
      BY <1>1, <2>3, <2>5, <3>1 DEF SLInv, TreeInv, Reflects
    <3>2. CASE ~Quiescent
      <4>1. PICK t \in Threads : pc[t] # "idle"
        BY <3>2 DEF Quiescent
      <4>2. Shows(tree, held, target[t])
        BY <1>1, <4>1, InsideShows
      <4> QED
        BY <2>3, <2>5, <4>2 DEF Shows
    <3> QED
      BY <3>1, <3>2
  <2> QED
    BY <1>1, <2>3, <2>6, NotBusyAbove DEF p
<1> QED
  BY SLInvariant, <1>1, PTL

(***************************************************************************)
(* The abstract allocator.                                                 *)
(***************************************************************************)

(* The abstract allocator works on the same tree. *)
LEMMA SameOverlap == ASSUME NEW a, NEW b PROVE Blocks!Overlap(a, b) <=> Overlap(a, b)
BY DEF Blocks!Overlap, Blocks!Contains, Blocks!Path, Blocks!Indexes, Blocks!Nodes,
       Blocks!number_of_nodes, Blocks!parent_idx_by_idx,
       Overlap, Contains, Path, Indexes, Nodes, number_of_nodes, parent_idx_by_idx

(* A step of the tree is a step, or a stutter, of the abstract allocator.  *)
LEMMA StepIsBlockStep == ASSUME SLInv, BD_SPIN_LOCK, [Next]_vars PROVE [Blocks!Next]_held
<1> USE DEF SLInv, OwnerInv, TypeInv, TypeOK, CallersTypeOK
<1>1. ASSUME NEW t \in Threads, AllocReturn(t)
      PROVE  [Blocks!Next]_held
  <2>1. OperationInv(t) /\ target[t] \in Allocable /\ target[t] \in Targets
        /\ held \in SUBSET Allocable /\ pc[t] = "alloc_done"
    BY <1>1, InsideFacts DEF AllocReturn, At
  <2>2. CASE failed_at[t] = 0
    <3>1. Clear(held, target[t], max_level)
      BY <2>1, <2>2 DEF OperationInv
    <3>2. \A m \in held : ~Overlap(m, target[t])
      BY <2>1, <3>1, JoinsDisjoint
    <3>3. held' = held \cup {target[t]}
      BY <1>1, <2>2 DEF AllocReturn, Granted
    <3>4. Blocks!Acquire(target[t])
      BY <3>2, <3>3, SameOverlap DEF Blocks!Acquire
    <3> QED
      BY <2>1, <3>4 DEF Blocks!Next
  <2>3. CASE failed_at[t] # 0
    BY <1>1, <2>3 DEF AllocReturn, Granted
  <2> QED
    BY <2>2, <2>3
<1>2. ASSUME NEW t \in Threads, NEW n \in Targets, FreeStart(t, n)
      PROVE  [Blocks!Next]_held
  BY <1>2 DEF FreeStart, Blocks!Next, Blocks!HandBack
<1>3. ASSUME NEW t \in Threads,
             (\E n \in Targets : AllocStart(t, n)) \/ Inside(t) \/ FreeReturn(t)
      PROVE  held' = held
  BY <1>3 DEF AllocStart, Inside, ClimbRead, ClimbCAS, FreeEnter, FreeCheck, Mark, Release,
              UnmarkRead, UnmarkCAS, FreeReturn
<1> QED
  BY <1>1, <1>2, <1>3 DEF Next, Step, vars

(* The blocking build is an allocator of disjoint blocks: it hands out a   *)
(* block only when nothing inside it or around it is held.                 *)
THEOREM BlockingImplementsBlocks == ASSUME BD_SPIN_LOCK PROVE Spec => ImplementsBlocks
<1>1. Init => Blocks!Init
  BY DEF Init, CallersInit, Blocks!Init
<1>2. SLInv /\ [Next]_vars => [Blocks!Next]_held
  BY StepIsBlockStep
<1> QED
  BY SLInvariant, <1>1, <1>2, PTL DEF Spec, ImplementsBlocks, Blocks!Spec
===============================================================================
