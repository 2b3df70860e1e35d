---------------------------- MODULE NBMallocProofs ----------------------------
(***************************************************************************)
(* Proofs about the one-level allocator as its callers use it (NBMalloc),  *)
(* for any height, byte unit, set of threads and requests.                 *)
(*                                                                         *)
(* The malloc layer may ask the tree for any allocable node, so Targets    *)
(* has to contain them all.  Of the blocking build everything is proved;   *)
(* of the non-blocking one, whose blocks may overlap, what does not depend *)
(* on that, and what the layer adds on top of disjoint blocks.             *)
(***************************************************************************)
EXTENDS NBMalloc, NBTreeProofs, MallocFacts

(***************************************************************************)
(* The climb of an allocation, in both builds.                             *)
(***************************************************************************)

(* An allocation climbs the branch of its target, below max_level, and the *)
(* node it fails at is on that branch.                                     *)
WalkInv ==
  \A t \in Threads :
    /\ pc[t] \in {"climb", "climb_cas"}
         => cur[t] \in Path[target[t]] /\ level_by_idx(cur[t]) > max_level
    /\ failed_at[t] # 0 => failed_at[t] \in Path[target[t]]

LEMMA WalkInit == Init => WalkInv
BY DEF Init, CallersInit, WalkInv

(* The parent of a node that a climb has reached is on the branch too, and *)
(* not above max_level.                                                    *)
LEMMA WalkUp ==
  ASSUME TypeInv, WalkInv, NEW t \in Threads, pc[t] \in {"climb", "climb_cas"}
  PROVE  LET p == parent_idx_by_idx(cur[t])
         IN /\ p \in Path[target[t]]
            /\ level_by_idx(p) \in Nat /\ level_by_idx(p) >= max_level
<1> DEFINE c == cur[t]
           p == parent_idx_by_idx(c)
           n == target[t]
<1>1. /\ n \in Nodes /\ n \in Indexes /\ c \in Path[n] /\ level_by_idx(c) > max_level
      /\ pc[t] # "idle"
  BY TargetsAreNodes DEF TypeInv, TargetInv, WalkInv, Indexes
<1>2. c \in Nodes /\ c \in Indexes
  BY <1>1, PathFacts DEF Indexes
<1>3. max_level \in Nat /\ max_level >= 1 /\ level_by_idx(c) \in Nat
  BY <1>2, LevelType, LevelsAssumption DEF max_level
<1>4. c # 1
  BY <1>1, <1>2, <1>3, RootLevel
<1>5. p \in Nodes /\ p \in Path[c]
  BY <1>2, <1>4, Children
<1>6. p \in Path[n]
  BY <1>1, <1>5, PathFacts
<1>7. level_by_idx(c) = level_by_idx(p) + 1 /\ level_by_idx(p) \in Nat
  BY <1>2, <1>5, LevelFacts, LevelType DEF Indexes
<1> QED
  BY <1>1, <1>3, <1>6, <1>7

LEMMA WalkStep == TypeInv /\ NotFailedInv /\ WalkInv /\ [Next]_vars => WalkInv'
<1> DEFINE Walks(u) ==
      /\ pc[u] \in {"climb", "climb_cas"}
           => cur[u] \in Path[target[u]] /\ level_by_idx(cur[u]) > max_level
      /\ failed_at[u] # 0 => failed_at[u] \in Path[target[u]]
<1> SUFFICES ASSUME TypeInv, NotFailedInv, WalkInv, [Next]_vars
             PROVE  \A u \in Threads : Walks(u)'
  BY DEF WalkInv
<1> USE DEF TypeInv, TypeOK, CallersTypeOK
<1>1. ASSUME NEW t \in Threads,
             \/ \E n \in Targets : AllocStart(t, n) \/ FreeStart(t, n)
             \/ Step(t)
      PROVE  \A u \in Threads : Walks(u)'
  <2>1. \A u \in Threads \ {t} : Walks(u)'
    BY <1>1, OthersStay DEF WalkInv
  <2>2. Walks(t)'
    <3>1. ASSUME NEW n \in Targets, AllocStart(t, n)
          PROVE  Walks(t)'
      <4>1. /\ n \in Nodes /\ n \in Path[n] /\ level_by_idx(n) \in Nat
            /\ max_level \in Nat /\ level_by_idx(n) >= max_level
        BY TargetsAreNodes, SelfOnPath, LevelType, TreeAssumption DEF Allocable, Indexes
      <4>2. target'[t] = n /\ failed_at[t] = 0
        BY <3>1 DEF AllocStart, At, NotFailedInv
      <4>3. CASE ~Available(tree[n])
        <5>1. failed_at'[t] = n /\ pc'[t] = "alloc_done"
          BY <3>1, <4>3 DEF AllocStart, Goto
        <5> QED BY <4>1, <4>2, <5>1
      <4>4. CASE Available(tree[n])
        <5>1. /\ failed_at' = failed_at /\ cur'[t] = n
              /\ pc'[t] = IF level_by_idx(n) = max_level THEN "alloc_done" ELSE "climb"
          BY <3>1, <4>4 DEF AllocStart, Goto
        <5> QED BY <4>1, <4>2, <5>1
      <4> QED BY <4>3, <4>4
    <3>2. ASSUME NEW n \in Targets, FreeStart(t, n)
          PROVE  Walks(t)'
      BY <3>2 DEF FreeStart, Goto, At, NotFailedInv
    <3>3. CASE ClimbRead(t)
      <4>1. pc[t] = "climb" /\ target' = target
        BY <3>3 DEF ClimbRead, At
      <4> DEFINE p == parent_idx_by_idx(cur[t])
      <4>2. /\ p \in Path[target[t]] /\ level_by_idx(p) \in Nat
            /\ level_by_idx(p) >= max_level /\ max_level \in Nat
        BY <4>1, WalkUp, LevelType
      <4>3. \/ failed_at'[t] = p /\ pc'[t] = "free_enter"
            \/ /\ failed_at' = failed_at /\ cur'[t] = p
               /\ pc'[t] = IF level_by_idx(p) = max_level THEN "alloc_done" ELSE "climb"
            \/ failed_at' = failed_at /\ cur' = cur /\ pc'[t] = "climb_cas"
        BY <3>3 DEF ClimbRead, Climbed, Goto
      <4> HIDE DEF p
      <4> QED BY <4>1, <4>2, <4>3 DEF WalkInv
    <3>4. CASE ClimbCAS(t)
      <4>1. pc[t] = "climb_cas" /\ target' = target /\ failed_at' = failed_at
        BY <3>4 DEF ClimbCAS, At
      <4> DEFINE p == parent_idx_by_idx(cur[t])
      <4>2. /\ p \in Path[target[t]] /\ level_by_idx(p) \in Nat
            /\ level_by_idx(p) >= max_level /\ max_level \in Nat
        BY <4>1, WalkUp, LevelType
      <4>3. \/ /\ cur'[t] = p
               /\ pc'[t] = IF level_by_idx(p) = max_level THEN "alloc_done" ELSE "climb"
            \/ cur' = cur /\ pc'[t] = "climb"
        BY <3>4 DEF ClimbCAS, Climbed, Goto
      <4> HIDE DEF p
      <4> QED BY <4>1, <4>2, <4>3 DEF WalkInv
    <3>5. CASE FreeEnter(t) \/ FreeCheck(t) \/ Mark(t) \/ Release(t)
      BY <3>5 DEF FreeEnter, FreeCheck, Mark, Release, FreeDone, Goto, WalkInv
    <3>6. CASE UnmarkRead(t) \/ UnmarkCAS(t)
      BY <3>6 DEF UnmarkRead, UnmarkCAS, FreeDone, Goto, WalkInv
    <3>7. CASE AllocReturn(t) \/ FreeReturn(t)
      BY <3>7 DEF AllocReturn, FreeReturn, ForgetLocals, Leave, Goto
    <3> QED
      BY <1>1, <3>1, <3>2, <3>3, <3>4, <3>5, <3>6, <3>7 DEF Step, Inside
  <2> QED
    BY <2>1, <2>2
<1>2. CASE UNCHANGED vars
  BY <1>2 DEF vars, WalkInv
<1> QED
  BY <1>1, <1>2 DEF Next

(***************************************************************************)
(* The layer over the tree.                                                *)
(***************************************************************************)

(* A thread is inside the tree in two phases only, and then an allocation  *)
(* works on the node the search is at.                                     *)
LinkInv ==
  \A t \in Threads :
    /\ phase[t] \in {"out", "start", "try"} => pc[t] = "idle"
    /\ phase[t] = "allocating" => pc[t] # "idle" /\ target[t] = actual[t]

MallocInv == OwnerInv /\ WalkInv /\ LayerInv /\ LinkInv

LEMMA MallocInvInit == MallocStart => MallocInv
<1> SUFFICES ASSUME MallocStart
             PROVE  MallocInv
  OBVIOUS
<1>1. Init /\ MallocInit
  BY DEF MallocStart
<1>2. LinkInv
  BY <1>1 DEF Init, CallersInit, MallocInit, LinkInv
<1> QED
  BY <1>1, <1>2, OwnerInit, WalkInit, LayerInit DEF MallocInv

(* What the search tries is a block callers may be given. *)
LEMMA TriesTargets ==
  ASSUME Allocable \subseteq Targets, LayerInv, NEW t \in Threads, InSearch(t)
  PROVE  actual[t] \in Targets
<1>1. BlockSize(byte[t]) /\ actual[t] \in LevelNodes(byte[t])
  BY DEF LayerInv, SearchInv, InSearch
<1> QED
  BY <1>1, SizeLevel DEF BlockSize

(* Every step of the allocator is a step of the tree or leaves it alone.   *)
LEMMA MallocIsTreeStep ==
  ASSUME Allocable \subseteq Targets, MallocInv, [MallocNext]_allvars
  PROVE  [Next]_vars
<1>1. ASSUME NEW t \in Threads, MallocStep(t)
      PROVE  [Next]_vars
  <2>1. CASE TryNode(t) /\ AllocStart(t, actual[t])
    <3>1. InSearch(t)
      BY <2>1 DEF TryNode, To, InSearch
    <3>2. actual[t] \in Targets
      BY <3>1, TriesTargets DEF MallocInv
    <3> QED BY <2>1, <3>2 DEF Next
  <2>2. CASE ChooseStart(t) /\ Outside(t)
    BY <2>2 DEF Outside
  <2>3. CASE AllocReturn(t) \/ FreeReturn(t) \/ Inside(t)
    BY <2>3 DEF Next, Step
  <2> QED BY <1>1, <2>1, <2>2, <2>3 DEF MallocStep
<1>2. ASSUME NEW t \in Threads, NEW r \in given, FreeStart(t, free_tree[r.addr])
      PROVE  [Next]_vars
  <2>1. free_tree[r.addr] \in Targets
    BY <1>2 DEF FreeStart, MallocInv, OwnerInv, TypeInv, TypeOK, CallersTypeOK
  <2> QED BY <1>2, <2>1 DEF Next
<1>3. CASE UNCHANGED allvars
  BY <1>3 DEF allvars
<1> QED
  BY <1>1, <1>2, <1>3 DEF MallocNext, Outside

LEMMA LayerStep ==
  ASSUME MallocInv, [MallocNext]_allvars
  PROVE  LayerInv'
<1>0. LayerInv /\ MallocTypeOK
  BY DEF MallocInv, LayerInv
<1>1. ASSUME NEW t \in Threads, NEW request \in Requests,
             MallocCall(t, request) \/ MallocTooLarge(t, request)
      PROVE  LayerInv'
  BY <1>0, <1>1, MallocCallKeeps, MallocTooLargeKeeps
<1>2. ASSUME NEW t \in Threads, NEW r \in given, FreeCall(t, r), FreeStart(t, free_tree[r.addr])
      PROVE  LayerInv'
  <2>1. free_tree[r.addr] \in Nodes
    BY <1>2, TargetsAreNodes DEF FreeStart, MallocInv, OwnerInv, TypeInv, TypeOK, CallersTypeOK
  <2> QED BY <1>0, <1>2, <2>1, FreeCallKeeps
<1>3. ASSUME NEW t \in Threads, ChooseStart(t) \/ TryNode(t)
      PROVE  LayerInv'
  BY <1>0, <1>3, ChooseStartKeeps, TryNodeKeeps
<1>4. ASSUME NEW t \in Threads, MallocReturn(t) \/ MallocReturnNull(t) \/ FreeEnds(t)
      PROVE  LayerInv'
  BY <1>0, <1>4, MallocReturnKeeps, MallocReturnNullKeeps, FreeEndsKeeps
<1>5. ASSUME NEW t \in Threads, MallocNextNode(t)
      PROVE  LayerInv'
  <2>1. failed_at[t] \in Path[actual[t]]
    BY <1>5 DEF MallocNextNode, To, MallocInv, LinkInv, WalkInv
  <2> QED BY <1>0, <1>5, <2>1, MallocNextNodeKeeps
<1>6. CASE UNCHANGED mvars
  BY <1>0, <1>6 DEF mvars, search, LayerInv, MallocTypeOK, SearchInv, InSearch, Passed
<1> QED
  BY <1>1, <1>2, <1>3, <1>4, <1>5, <1>6 DEF MallocNext, MallocStep, allvars

LEMMA LinkStep ==
  ASSUME MallocInv, [MallocNext]_allvars
  PROVE  LinkInv'
<1> DEFINE Linked(u) ==
      /\ phase[u] \in {"out", "start", "try"} => pc[u] = "idle"
      /\ phase[u] = "allocating" => pc[u] # "idle" /\ target[u] = actual[u]
<1> SUFFICES \A u \in Threads : Linked(u)'
  BY DEF LinkInv
<1>0. /\ \A u \in Threads : Linked(u)
      /\ phase \in [Threads -> {"out", "start", "try", "allocating", "freeing"}]
      /\ actual \in [Threads -> Indexes]
      /\ pc \in [Threads -> Locations] /\ target \in [Threads -> Indexes]
  BY DEF MallocInv, LinkInv, LayerInv, MallocTypeOK, OwnerInv, TypeInv, TypeOK, CallersTypeOK
<1> HIDE DEF Linked
<1>1. ASSUME NEW t \in Threads, NEW request \in Requests,
             MallocCall(t, request) \/ MallocTooLarge(t, request), Outside(t)
      PROVE  \A u \in Threads : Linked(u)'
  <2>1. pc' = pc /\ target' = target /\ actual' = actual /\ pc[t] = "idle"
    BY <1>1 DEF Outside, vars, At, MallocCall, MallocTooLarge, search
  <2>2. phase' = phase \/ phase' = [phase EXCEPT ![t] = "start"]
    BY <1>1 DEF MallocCall, MallocTooLarge, To
  <2> QED BY <1>0, <2>1, <2>2 DEF Linked
<1>2. ASSUME NEW t \in Threads, NEW n, FreeStart(t, n), phase' = [phase EXCEPT ![t] = "freeing"],
             actual' = actual
      PROVE  \A u \in Threads : Linked(u)'
  BY <1>0, <1>2 DEF FreeStart, Goto, Linked
<1>3. ASSUME NEW t \in Threads, ChooseStart(t), Outside(t)
      PROVE  \A u \in Threads : Linked(u)'
  <2>1. pc' = pc /\ target' = target /\ pc[t] = "idle"
    BY <1>3 DEF Outside, vars, At
  <2>2. /\ phase' = [phase EXCEPT ![t] = "try"]
        /\ \A u \in Threads \ {t} : actual'[u] = actual[u]
    BY <1>0, <1>3 DEF ChooseStart, To
  <2> QED BY <1>0, <2>1, <2>2 DEF Linked
<1>4. ASSUME NEW t \in Threads, TryNode(t), AllocStart(t, actual[t])
      PROVE  \A u \in Threads : Linked(u)'
  <2>1. phase' = [phase EXCEPT ![t] = "allocating"] /\ actual' = actual
    BY <1>4 DEF TryNode, To, search
  <2>2. /\ target' = [target EXCEPT ![t] = actual[t]] /\ pc'[t] # "idle"
        /\ \A u \in Threads \ {t} : pc'[u] = pc[u]
    BY <1>0, <1>4 DEF AllocStart, Goto
  <2> QED BY <1>0, <2>1, <2>2 DEF Linked
<1>5. ASSUME NEW t \in Threads, AllocReturn(t) \/ FreeReturn(t),
             \A u \in Threads \ {t} : phase'[u] = phase[u] /\ actual'[u] = actual[u],
             phase'[t] \in {"out", "try"}
      PROVE  \A u \in Threads : Linked(u)'
  <2>1. /\ pc'[t] = "idle"
        /\ \A u \in Threads \ {t} : pc'[u] = pc[u] /\ target'[u] = target[u]
    BY <1>0, <1>5 DEF AllocReturn, FreeReturn, ForgetLocals, Leave, Goto
  <2> QED BY <1>0, <1>5, <2>1 DEF Linked
<1>6. ASSUME NEW t \in Threads,
             MallocReturn(t) \/ MallocNextNode(t) \/ MallocReturnNull(t) \/ FreeEnds(t)
      PROVE  /\ \A u \in Threads \ {t} : phase'[u] = phase[u] /\ actual'[u] = actual[u]
             /\ phase'[t] \in {"out", "try"}
  BY <1>0, <1>6 DEF MallocReturn, MallocNextNode, MallocReturnNull, FreeEnds, To, ForgetSearch, search
<1>7. ASSUME NEW t \in Threads, Inside(t), UNCHANGED mvars
      PROVE  \A u \in Threads : Linked(u)'
  <2>1. target' = target /\ phase' = phase /\ actual' = actual
    BY <1>7 DEF Inside, ClimbRead, ClimbCAS, FreeEnter, FreeCheck, Mark, Release, UnmarkRead, UnmarkCAS,
                mvars, search
  <2>2. pc[t] # "idle" /\ pc'[t] # "idle" /\ \A u \in Threads \ {t} : pc'[u] = pc[u]
    <3>1. CASE ClimbRead(t) \/ ClimbCAS(t)
      BY <1>0, <3>1 DEF ClimbRead, ClimbCAS, Climbed, Goto, At
    <3>2. CASE FreeEnter(t) \/ FreeCheck(t) \/ Mark(t) \/ Release(t)
      BY <1>0, <3>2 DEF FreeEnter, FreeCheck, Mark, Release, FreeDone, Goto, At
    <3>3. CASE UnmarkRead(t) \/ UnmarkCAS(t)
      BY <1>0, <3>3 DEF UnmarkRead, UnmarkCAS, FreeDone, Goto, At
    <3> QED BY <1>7, <3>1, <3>2, <3>3 DEF Inside
  <2> QED BY <1>0, <2>1, <2>2 DEF Linked
<1>8. CASE UNCHANGED allvars
  BY <1>0, <1>8 DEF allvars, vars, mvars, search, Linked
<1>9. ASSUME NEW t \in Threads, NEW r \in given, FreeCall(t, r), FreeStart(t, free_tree[r.addr])
      PROVE  \A u \in Threads : Linked(u)'
  BY <1>2, <1>9 DEF FreeCall, To, search
<1> QED
  BY <1>1, <1>3, <1>4, <1>5, <1>6, <1>7, <1>8, <1>9 DEF MallocNext, MallocStep

LEMMA MallocInvStep ==
  ASSUME Allocable \subseteq Targets, MallocInv, [MallocNext]_allvars
  PROVE  MallocInv' /\ [Next]_vars
<1>1. [Next]_vars
  BY MallocIsTreeStep
<1>2. OwnerInv' /\ WalkInv'
  BY <1>1, TypeStep, TargetStep, LockStep, SeenStep, NotFailedStep, OneOwnerStep, WalkStep
     DEF MallocInv, OwnerInv, TypeInv
<1> QED
  BY <1>1, <1>2, LayerStep, LinkStep DEF MallocInv

LEMMA MallocInvariant ==
  ASSUME Allocable \subseteq Targets PROVE MallocSpec => []MallocInv
<1>1. MallocInv /\ [MallocNext]_allvars => MallocInv'
  BY MallocInvStep
<1> QED
  BY MallocInvInit, <1>1, PTL DEF MallocSpec

(***************************************************************************)
(* Both builds.                                                            *)
(***************************************************************************)

(* The allocator drives the tree the way NBTree says callers do, so what   *)
(* is proved of the tree holds below malloc and free.                      *)
THEOREM MallocDrivesTree == ASSUME Allocable \subseteq Targets PROVE MallocSpec => Spec
<1>1. MallocStart => Init
  BY DEF MallocStart
<1>2. MallocInv /\ [MallocNext]_allvars => [Next]_vars
  BY MallocIsTreeStep
<1> QED
  BY MallocInvariant, <1>1, <1>2, PTL DEF MallocSpec, Spec

(* Every variable of the layer keeps its type: the translation table and   *)
(* the caches are indexed within bounds and hold indexes of the tree.      *)
THEOREM MallocTypeCorrect ==
  ASSUME Allocable \subseteq Targets PROVE MallocSpec => []MallocTypeOK
<1>1. MallocInv => MallocTypeOK
  BY DEF MallocInv, LayerInv
<1> QED
  BY MallocInvariant, <1>1, PTL

(* A search stays in its level, wherever the cache, the spread by thread   *)
(* number (with any number of threads) or the jump behind a failed node    *)
(* send it.                                                                *)
THEOREM SearchStaysInLevelAlways ==
  ASSUME Allocable \subseteq Targets PROVE MallocSpec => []SearchStaysInLevel
<1>1. MallocInv => SearchStaysInLevel
  BY StaysInLevel DEF MallocInv
<1> QED
  BY MallocInvariant, <1>1, PTL

(* malloc returns NULL only when it has a reason for every node of the     *)
(* level, wherever its search started and however often it jumped.         *)
THEOREM NullAfterAllCheckedAlways ==
  ASSUME Allocable \subseteq Targets PROVE MallocSpec => NullAfterAllChecked
<1> DEFINE Justified ==
      \A t \in Threads :
        phase[t] = "allocating" /\ phase'[t] = "out" /\ failed_at[t] # 0
          => \A n \in LevelNodes(byte[t]) : \E m \in NowChecked(t) : Contains(m, n)
<1>1. ASSUME MallocInv, [MallocNext]_allvars
      PROVE  [Justified]_<<mvars, failed_at>>
  <2> SUFFICES ASSUME NEW t \in Threads, phase[t] = "allocating", phase'[t] = "out",
                      failed_at[t] # 0
               PROVE  \A n \in LevelNodes(byte[t]) : \E m \in NowChecked(t) : Contains(m, n)
    OBVIOUS
  <2>1. phase \in [Threads -> {"out", "start", "try", "allocating", "freeing"}]
    BY <1>1 DEF MallocInv, LayerInv, MallocTypeOK
  <2>2. MallocReturnNull(t)
    <3>1. ASSUME NEW u \in Threads, NEW request \in Requests,
                 MallocCall(u, request) \/ MallocTooLarge(u, request)
          PROVE  FALSE
      BY <2>1, <3>1 DEF MallocCall, MallocTooLarge, To
    <3>2. ASSUME NEW u \in Threads, NEW r \in given, FreeCall(u, r)
          PROVE  FALSE
      BY <2>1, <3>2 DEF FreeCall, To
    <3>3. ASSUME NEW u \in Threads, MallocStep(u)
          PROVE  MallocReturnNull(t)
      BY <2>1, <3>3 DEF MallocStep, ChooseStart, TryNode, MallocReturn, MallocNextNode,
                        MallocReturnNull, FreeEnds, To, mvars
    <3>4. CASE UNCHANGED allvars
      BY <3>4 DEF allvars, mvars
    <3> QED BY <1>1, <3>1, <3>2, <3>3, <3>4 DEF MallocNext
  <2>3. failed_at[t] \in Path[actual[t]] /\ SearchEnded(t)
    BY <1>1, <2>2 DEF MallocReturnNull, MallocInv, LinkInv, WalkInv
  <2> QED BY <1>1, <2>3, AllChecked DEF MallocInv
<1> QED
  BY MallocInvariant, <1>1, PTL DEF MallocSpec, NullAfterAllChecked

(***************************************************************************)
(* What the layer makes of disjoint blocks.                                *)
(***************************************************************************)

(* Where blocks are disjoint, a step keeps the table and is a step of the  *)
(* abstract allocator or changes no region.                                *)
LEMMA RegionStep ==
  ASSUME MallocInv, FreeFindsBlock, NoOverlap', [MallocNext]_allvars
  PROVE  FreeFindsBlock' /\ [Buddy!Next]_given
<1>1. held \subseteq Nodes
  BY TargetsAreNodes DEF MallocInv, OwnerInv, TypeInv, TypeOK, CallersTypeOK
<1>2. ASSUME NEW t \in Threads, MallocReturn(t), AllocReturn(t)
      PROVE  FreeFindsBlock' /\ [Buddy!Next]_given
  <2>1. failed_at[t] = 0 /\ phase[t] = "allocating" /\ pc[t] = "alloc_done"
    BY <1>2 DEF MallocReturn, To, AllocReturn, At
  <2>2. target[t] = actual[t] /\ held' = held \cup {actual[t]}
    BY <1>2, <2>1 DEF AllocReturn, Granted, MallocInv, LinkInv
  <2>3. actual[t] \notin held
    BY <2>1, <2>2 DEF MallocInv, OwnerInv, OneOwner, Owns
  <2> QED BY <1>1, <1>2, <2>2, <2>3, HandedOut DEF MallocInv
<1>3. ASSUME NEW t \in Threads, NEW r \in given, FreeCall(t, r), FreeStart(t, free_tree[r.addr])
      PROVE  FreeFindsBlock' /\ [Buddy!Next]_given
  BY <1>3, TakenBack DEF FreeStart
<1>4. ASSUME given' = given, free_tree' = free_tree, held' = held
      PROVE  FreeFindsBlock' /\ [Buddy!Next]_given
  BY <1>4 DEF FreeFindsBlock
<1>5. ASSUME NEW t \in Threads, MallocStep(t), ~(MallocReturn(t) /\ AllocReturn(t))
      PROVE  given' = given /\ free_tree' = free_tree /\ held' = held
  <2>1. CASE ChooseStart(t) /\ Outside(t)
    BY <2>1 DEF ChooseStart, Outside, vars
  <2>2. CASE TryNode(t) /\ AllocStart(t, actual[t])
    BY <2>2 DEF TryNode, AllocStart
  <2>3. CASE (MallocNextNode(t) \/ MallocReturnNull(t)) /\ AllocReturn(t)
    BY <2>3 DEF MallocNextNode, MallocReturnNull, AllocReturn, Granted
  <2>4. CASE FreeEnds(t) /\ FreeReturn(t)
    BY <2>4 DEF FreeEnds, FreeReturn
  <2>5. CASE Inside(t) /\ UNCHANGED mvars
    BY <2>5 DEF Inside, ClimbRead, ClimbCAS, FreeEnter, FreeCheck, Mark, Release, UnmarkRead, UnmarkCAS, mvars
  <2> QED BY <1>5, <2>1, <2>2, <2>3, <2>4, <2>5 DEF MallocStep
<1>6. ASSUME NEW t \in Threads, NEW request \in Requests,
             MallocCall(t, request) \/ MallocTooLarge(t, request), Outside(t)
      PROVE  given' = given /\ free_tree' = free_tree /\ held' = held
  BY <1>6 DEF MallocCall, MallocTooLarge, Outside, vars
<1>7. CASE UNCHANGED allvars
  BY <1>4, <1>7 DEF allvars, vars, mvars
<1> QED
  BY <1>2, <1>3, <1>4, <1>5, <1>6, <1>7 DEF MallocNext

LEMMA NothingGiven == MallocStart => FreeFindsBlock /\ Buddy!Init
BY DEF MallocStart, Init, CallersInit, MallocInit, FreeFindsBlock, Buddy!Init

(* The layer adds no error of its own: as long as the tree hands out       *)
(* disjoint blocks, in either build, a release finds the block it was      *)
(* given the address of, whatever had been allocated there before.         *)
THEOREM LayerFindsBlocks ==
  ASSUME Allocable \subseteq Targets
  PROVE  MallocSpec /\ []NoOverlap => []FreeFindsBlock
<1>1. MallocInv /\ FreeFindsBlock /\ NoOverlap' /\ [MallocNext]_allvars => FreeFindsBlock'
  BY RegionStep
<1>2. MallocStart => FreeFindsBlock
  BY NothingGiven
<1> QED
  BY MallocInvariant, <1>1, <1>2, PTL DEF MallocSpec

(* And callers then see a buddy allocator: aligned, disjoint, power-of-two *)
(* regions inside the arena, each taken back as it was given.              *)
THEOREM LayerImplementsAllocator ==
  ASSUME Allocable \subseteq Targets
  PROVE  MallocSpec /\ []NoOverlap => ImplementsAllocator
<1>1. MallocInv /\ FreeFindsBlock /\ NoOverlap' /\ [MallocNext]_allvars => [Buddy!Next]_given
  BY RegionStep
<1>2. MallocStart => Buddy!Init
  BY NothingGiven
<1> QED
  BY MallocInvariant, LayerFindsBlocks, <1>1, <1>2, PTL
     DEF MallocSpec, ImplementsAllocator, Buddy!Spec

(***************************************************************************)
(* The blocking build.                                                     *)
(***************************************************************************)

(* In the blocking build a release always finds its own block.             *)
THEOREM FreeFindsBlockBlocking ==
  ASSUME Allocable \subseteq Targets, BD_SPIN_LOCK
  PROVE  MallocSpec => []FreeFindsBlock
<1>1. MallocSpec => []NoOverlap
  BY MallocDrivesTree, NoOverlapBlocking, PTL
<1> QED
  BY <1>1, LayerFindsBlocks, PTL

(* The blocking allocator is a buddy allocator, from malloc to free, with  *)
(* any number of threads.                                                  *)
THEOREM BlockingImplementsAllocator ==
  ASSUME Allocable \subseteq Targets, BD_SPIN_LOCK
  PROVE  MallocSpec => ImplementsAllocator
<1>1. MallocSpec => []NoOverlap
  BY MallocDrivesTree, NoOverlapBlocking, PTL
<1> QED
  BY <1>1, LayerImplementsAllocator, PTL
=============================================================================
