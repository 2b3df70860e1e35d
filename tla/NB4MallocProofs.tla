---------------------------- MODULE NB4MallocProofs ----------------------------
(***************************************************************************)
(* Proofs about the bunch-based allocator as its callers use it            *)
(* (NB4Malloc), for any height, byte unit, set of threads and requests,    *)
(* and for both builds.  The malloc layer may ask for any allocable node,  *)
(* so Targets has to contain them all.                                     *)
(***************************************************************************)
EXTENDS NB4Malloc, NB4LvlProofs, MallocFacts

(***************************************************************************)
(* The climb of an allocation.                                             *)
(***************************************************************************)

(* The node an allocation fails at is on the branch of its target. *)
WalkInv == \A t \in Threads : failed_at[t] # 0 => failed_at[t] \in Path[target[t]]

LEMMA WalkInit == Init => WalkInv
BY DEF Init, CallersInit, WalkInv

(* It is the target or a leaf above the bunch the climb has reached. *)
LEMMA WalkStep == TypeInv /\ WalkInv /\ [Next]_vars => WalkInv'
<1> DEFINE Walks(u) == failed_at[u] # 0 => failed_at[u] \in Path[target[u]]
<1> SUFFICES ASSUME TypeInv, WalkInv, [Next]_vars
             PROVE  \A u \in Threads : Walks(u)'
  BY DEF WalkInv
<1>0. \A u \in Threads : Walks(u)
  BY DEF WalkInv
<1> USE DEF TypeInv, TypeOK, CallersTypeOK
<1>1. ASSUME NEW t \in Threads, NEW n \in Targets, AllocStart(t, n)
      PROVE  \A u \in Threads : Walks(u)'
  <2>1. n \in Path[n] /\ failed_at[t] = 0
    BY <1>1, TargetFacts DEF AllocStart, At, BranchInv, ThreadInv
  <2>2. /\ target' = [target EXCEPT ![t] = n]
        /\ failed_at' = failed_at \/ failed_at' = [failed_at EXCEPT ![t] = n]
    BY <1>1 DEF AllocStart
  <2> QED BY <1>0, <2>1, <2>2
<1>2. ASSUME NEW t \in Threads, NEW n \in Targets, FreeStart(t, n)
      PROVE  \A u \in Threads : Walks(u)'
  <2>1. failed_at[t] = 0
    BY <1>2 DEF FreeStart, At, BranchInv, ThreadInv
  <2>2. target' = [target EXCEPT ![t] = n] /\ failed_at' = failed_at
    BY <1>2 DEF FreeStart
  <2> QED BY <1>0, <2>1, <2>2
<1>3. ASSUME NEW t \in Threads, CheckParent(t)
      PROVE  \A u \in Threads : Walks(u)'
  <2> DEFINE b == br[t]
             p == parent_idx_by_idx(b)
             n == target[t]
  <2>1. n \in Targets /\ b \in Bunches /\ b \in Path[n] /\ level_by_idx(b) > max_level
    BY <1>3 DEF CheckParent, At, BranchInv, ThreadInv, OnBranch
  <2>2. p \in Nodes /\ p # 0
    BY <2>1, UpOneBunch
  <2>3. b \in Nodes /\ n \in Nodes
    BY <2>1, BunchesAreNodes, TargetFacts
  <2>4. p \in Path[b]
    BY <2>2, <2>3, ParentOnPath
  <2>5. p \in Path[n]
    BY <2>1, <2>3, <2>4, PathFacts DEF Indexes
  <2>6. /\ target' = target
        /\ failed_at' = failed_at \/ failed_at' = [failed_at EXCEPT ![t] = p]
    BY <1>3 DEF CheckParent
  <2> HIDE DEF p
  <2> QED BY <1>0, <2>5, <2>6
<1>4. ASSUME NEW t \in Threads, Marca(t) \/ Libera(t) \/ SmarcaRead(t) \/ SmarcaCAS(t)
      PROVE  \A u \in Threads : Walks(u)'
  <2>1. target' = target /\ failed_at' = failed_at
    BY <1>4 DEF Marca, Libera, SmarcaRead, SmarcaCAS
  <2> QED BY <1>0, <2>1
<1>5. ASSUME NEW t \in Threads, AllocReturn(t) \/ FreeReturn(t)
      PROVE  \A u \in Threads : Walks(u)'
  BY <1>0, <1>5 DEF AllocReturn, FreeReturn, ForgetLocals, Leave
<1>6. CASE UNCHANGED vars
  BY <1>0, <1>6 DEF vars
<1> QED
  BY <1>1, <1>2, <1>3, <1>4, <1>5, <1>6 DEF Next, Step, Inside

(***************************************************************************)
(* The layer over the tree.                                                *)
(***************************************************************************)

(* A thread is inside the tree in two phases only, and then an allocation  *)
(* works on the node the search is at.                                     *)
LinkInv ==
  \A t \in Threads :
    /\ phase[t] \in {"out", "start", "try"} => pc[t] = "idle"
    /\ phase[t] = "allocating" => pc[t] # "idle" /\ target[t] = actual[t]

MallocInv == TypeInv /\ WalkInv /\ LayerInv /\ LinkInv

LEMMA MallocInvInit == MallocStart => MallocInv
<1> SUFFICES ASSUME MallocStart
             PROVE  MallocInv
  OBVIOUS
<1>1. Init /\ MallocInit
  BY DEF MallocStart
<1>2. LinkInv
  BY <1>1 DEF Init, CallersInit, MallocInit, LinkInv
<1> QED
  BY <1>1, <1>2, TypeInit, WalkInit, LayerInit DEF MallocInv

(* What the search tries is a block callers may be given. *)
LEMMA TriesTargets ==
  ASSUME Allocable \subseteq Targets, LayerInv, NEW t \in Threads, InSearch(t)
  PROVE  actual[t] \in Targets
<1>1. BlockSize(byte[t]) /\ actual[t] \in LevelNodes(byte[t])
  BY DEF LayerInv, SearchInv, InSearch
<1> QED
  BY <1>1, SizeLevel DEF BlockSize

(* Every step of the allocator is a step of the tree or leaves it alone.   *)
LEMMA MallocIsTreeStep ==
  ASSUME Allocable \subseteq Targets, MallocInv, [MallocNext]_allvars
  PROVE  [Next]_vars
<1>1. ASSUME NEW t \in Threads, MallocStep(t)
      PROVE  [Next]_vars
  <2>1. CASE TryNode(t) /\ AllocStart(t, actual[t])
    <3>1. InSearch(t)
      BY <2>1 DEF TryNode, To, InSearch
    <3>2. actual[t] \in Targets
      BY <3>1, TriesTargets DEF MallocInv
    <3> QED BY <2>1, <3>2 DEF Next
  <2>2. CASE ChooseStart(t) /\ Outside(t)
    BY <2>2 DEF Outside
  <2>3. CASE AllocReturn(t) \/ FreeReturn(t) \/ Inside(t)
    BY <2>3 DEF Next, Step
  <2> QED BY <1>1, <2>1, <2>2, <2>3 DEF MallocStep
<1>2. ASSUME NEW t \in Threads, NEW r \in given, FreeStart(t, free_tree[r.addr])
      PROVE  [Next]_vars
  <2>1. free_tree[r.addr] \in Targets
    BY <1>2 DEF FreeStart, MallocInv, TypeInv, TypeOK, CallersTypeOK
  <2> QED BY <1>2, <2>1 DEF Next
<1>3. CASE UNCHANGED allvars
  BY <1>3 DEF allvars
<1> QED
  BY <1>1, <1>2, <1>3 DEF MallocNext, Outside

LEMMA LayerStep ==
  ASSUME MallocInv, [MallocNext]_allvars
  PROVE  LayerInv'
<1>0. LayerInv /\ MallocTypeOK
  BY DEF MallocInv, LayerInv
<1>1. ASSUME NEW t \in Threads, NEW request \in Requests,
             MallocCall(t, request) \/ MallocTooLarge(t, request)
      PROVE  LayerInv'
  BY <1>0, <1>1, MallocCallKeeps, MallocTooLargeKeeps
<1>2. ASSUME NEW t \in Threads, NEW r \in given, FreeCall(t, r), FreeStart(t, free_tree[r.addr])
      PROVE  LayerInv'
  <2>1. free_tree[r.addr] \in Nodes
    BY <1>2, TargetFacts DEF FreeStart, MallocInv, TypeInv, TypeOK, CallersTypeOK
  <2> QED BY <1>0, <1>2, <2>1, FreeCallKeeps
<1>3. ASSUME NEW t \in Threads, ChooseStart(t) \/ TryNode(t)
      PROVE  LayerInv'
  BY <1>0, <1>3, ChooseStartKeeps, TryNodeKeeps
<1>4. ASSUME NEW t \in Threads, MallocReturn(t) \/ MallocReturnNull(t) \/ FreeEnds(t)
      PROVE  LayerInv'
  BY <1>0, <1>4, MallocReturnKeeps, MallocReturnNullKeeps, FreeEndsKeeps
<1>5. ASSUME NEW t \in Threads, MallocNextNode(t)
      PROVE  LayerInv'
  <2>1. failed_at[t] \in Path[actual[t]]
    BY <1>5 DEF MallocNextNode, To, MallocInv, LinkInv, WalkInv
  <2> QED BY <1>0, <1>5, <2>1, MallocNextNodeKeeps
<1>6. CASE UNCHANGED mvars
  BY <1>0, <1>6 DEF mvars, search, LayerInv, MallocTypeOK, SearchInv, InSearch, Passed
<1> QED
  BY <1>1, <1>2, <1>3, <1>4, <1>5, <1>6 DEF MallocNext, MallocStep, allvars

LEMMA LinkStep ==
  ASSUME MallocInv, [MallocNext]_allvars
  PROVE  LinkInv'
<1> DEFINE Follows(u) ==
      /\ phase[u] \in {"out", "start", "try"} => pc[u] = "idle"
      /\ phase[u] = "allocating" => pc[u] # "idle" /\ target[u] = actual[u]
<1> SUFFICES \A u \in Threads : Follows(u)'
  BY DEF LinkInv
<1>0. /\ \A u \in Threads : Follows(u)
      /\ phase \in [Threads -> {"out", "start", "try", "allocating", "freeing"}]
      /\ actual \in [Threads -> Indexes]
      /\ pc \in [Threads -> Locations] /\ target \in [Threads -> Indexes]
  BY DEF MallocInv, LinkInv, LayerInv, MallocTypeOK, TypeInv, TypeOK, CallersTypeOK
<1> HIDE DEF Follows
<1>1. ASSUME NEW t \in Threads, NEW request \in Requests,
             MallocCall(t, request) \/ MallocTooLarge(t, request), Outside(t)
      PROVE  \A u \in Threads : Follows(u)'
  <2>1. pc' = pc /\ target' = target /\ actual' = actual /\ pc[t] = "idle"
    BY <1>1 DEF Outside, vars, At, MallocCall, MallocTooLarge, search
  <2>2. phase' = phase \/ phase' = [phase EXCEPT ![t] = "start"]
    BY <1>1 DEF MallocCall, MallocTooLarge, To
  <2> QED BY <1>0, <2>1, <2>2 DEF Follows
<1>2. ASSUME NEW t \in Threads, NEW n, FreeStart(t, n), phase' = [phase EXCEPT ![t] = "freeing"],
             actual' = actual
      PROVE  \A u \in Threads : Follows(u)'
  BY <1>0, <1>2 DEF FreeStart, ReleaseFrom, Goto, Follows
<1>3. ASSUME NEW t \in Threads, ChooseStart(t), Outside(t)
      PROVE  \A u \in Threads : Follows(u)'
  <2>1. pc' = pc /\ target' = target /\ pc[t] = "idle"
    BY <1>3 DEF Outside, vars, At
  <2>2. /\ phase' = [phase EXCEPT ![t] = "try"]
        /\ \A u \in Threads \ {t} : actual'[u] = actual[u]
    BY <1>0, <1>3 DEF ChooseStart, To
  <2> QED BY <1>0, <2>1, <2>2 DEF Follows
<1>4. ASSUME NEW t \in Threads, TryNode(t), AllocStart(t, actual[t])
      PROVE  \A u \in Threads : Follows(u)'
  <2>1. phase' = [phase EXCEPT ![t] = "allocating"] /\ actual' = actual
    BY <1>4 DEF TryNode, To, search
  <2>2. /\ target' = [target EXCEPT ![t] = actual[t]] /\ pc'[t] # "idle"
        /\ \A u \in Threads \ {t} : pc'[u] = pc[u]
    BY <1>0, <1>4 DEF AllocStart, Goto
  <2> QED BY <1>0, <2>1, <2>2 DEF Follows
<1>5. ASSUME NEW t \in Threads, AllocReturn(t) \/ FreeReturn(t),
             \A u \in Threads \ {t} : phase'[u] = phase[u] /\ actual'[u] = actual[u],
             phase'[t] \in {"out", "try"}
      PROVE  \A u \in Threads : Follows(u)'
  <2>1. /\ pc'[t] = "idle"
        /\ \A u \in Threads \ {t} : pc'[u] = pc[u] /\ target'[u] = target[u]
    BY <1>0, <1>5 DEF AllocReturn, FreeReturn, ForgetLocals, Leave, Goto
  <2> QED BY <1>0, <1>5, <2>1 DEF Follows
<1>6. ASSUME NEW t \in Threads,
             MallocReturn(t) \/ MallocNextNode(t) \/ MallocReturnNull(t) \/ FreeEnds(t)
      PROVE  /\ \A u \in Threads \ {t} : phase'[u] = phase[u] /\ actual'[u] = actual[u]
             /\ phase'[t] \in {"out", "try"}
  BY <1>0, <1>6 DEF MallocReturn, MallocNextNode, MallocReturnNull, FreeEnds, To, ForgetSearch, search
<1>7. ASSUME NEW t \in Threads, Inside(t), UNCHANGED mvars
      PROVE  \A u \in Threads : Follows(u)'
  <2>1. target' = target /\ phase' = phase /\ actual' = actual
    BY <1>7 DEF Inside, CheckParent, Marca, Libera, SmarcaRead, SmarcaCAS, mvars, search
  <2>2. pc[t] # "idle" /\ pc'[t] # "idle" /\ \A u \in Threads \ {t} : pc'[u] = pc[u]
    <3>1. CASE CheckParent(t)
      BY <1>0, <3>1 DEF CheckParent, ReleaseFrom, Goto, At
    <3>2. CASE Marca(t) \/ Libera(t)
      BY <1>0, <3>2 DEF Marca, Libera, SmarcaFrom, FreeDone, Goto, At
    <3>3. CASE SmarcaRead(t) \/ SmarcaCAS(t)
      BY <1>0, <3>3 DEF SmarcaRead, SmarcaCAS, SmarcaFrom, FreeDone, Goto, At
    <3> QED BY <1>7, <3>1, <3>2, <3>3 DEF Inside
  <2> QED BY <1>0, <2>1, <2>2 DEF Follows
<1>8. CASE UNCHANGED allvars
  BY <1>0, <1>8 DEF allvars, vars, mvars, search, Follows
<1>9. ASSUME NEW t \in Threads, NEW r \in given, FreeCall(t, r), FreeStart(t, free_tree[r.addr])
      PROVE  \A u \in Threads : Follows(u)'
  BY <1>2, <1>9 DEF FreeCall, To, search
<1> QED
  BY <1>1, <1>3, <1>4, <1>5, <1>6, <1>7, <1>8, <1>9 DEF MallocNext, MallocStep

LEMMA MallocInvStep ==
  ASSUME Allocable \subseteq Targets, MallocInv, [MallocNext]_allvars
  PROVE  MallocInv' /\ [Next]_vars
<1>1. [Next]_vars
  BY MallocIsTreeStep
<1>2. TypeInv' /\ WalkInv'
  BY <1>1, TypeStep, WalkStep DEF MallocInv
<1> QED
  BY <1>1, <1>2, LayerStep, LinkStep DEF MallocInv

LEMMA MallocInvariant ==
  ASSUME Allocable \subseteq Targets PROVE MallocSpec => []MallocInv
<1>1. MallocInv /\ [MallocNext]_allvars => MallocInv'
  BY MallocInvStep
<1> QED
  BY MallocInvInit, <1>1, PTL DEF MallocSpec

(***************************************************************************)
(* Both builds.                                                            *)
(***************************************************************************)

(* The allocator drives the tree the way NB4Lvl says callers do, so what   *)
(* is proved of the tree holds below malloc and free.                      *)
THEOREM MallocDrivesTree == ASSUME Allocable \subseteq Targets PROVE MallocSpec => Spec
<1>1. MallocStart => Init
  BY DEF MallocStart
<1>2. MallocInv /\ [MallocNext]_allvars => [Next]_vars
  BY MallocIsTreeStep
<1> QED
  BY MallocInvariant, <1>1, <1>2, PTL DEF MallocSpec, Spec

(* Every variable of the layer keeps its type: the translation table and   *)
(* the caches are indexed within bounds and hold indexes of the tree.      *)
THEOREM MallocTypeCorrect ==
  ASSUME Allocable \subseteq Targets PROVE MallocSpec => []MallocTypeOK
<1>1. MallocInv => MallocTypeOK
  BY DEF MallocInv, LayerInv
<1> QED
  BY MallocInvariant, <1>1, PTL

(* A search stays in its level, wherever the cache, the spread by thread   *)
(* number (with any number of threads) or the jump behind a failed node    *)
(* send it.                                                                *)
THEOREM SearchStaysInLevelAlways ==
  ASSUME Allocable \subseteq Targets PROVE MallocSpec => []SearchStaysInLevel
<1>1. MallocInv => SearchStaysInLevel
  BY StaysInLevel DEF MallocInv
<1> QED
  BY MallocInvariant, <1>1, PTL

(* malloc returns NULL only when it has a reason for every node of the     *)
(* level, wherever its search started and however often it jumped.         *)
THEOREM NullAfterAllCheckedAlways ==
  ASSUME Allocable \subseteq Targets PROVE MallocSpec => NullAfterAllChecked
<1> DEFINE Justified ==
      \A t \in Threads :
        phase[t] = "allocating" /\ phase'[t] = "out" /\ failed_at[t] # 0
          => \A n \in LevelNodes(byte[t]) : \E m \in NowChecked(t) : Contains(m, n)
<1>1. ASSUME MallocInv, [MallocNext]_allvars
      PROVE  [Justified]_<<mvars, failed_at>>
  <2> SUFFICES ASSUME NEW t \in Threads, phase[t] = "allocating", phase'[t] = "out",
                      failed_at[t] # 0
               PROVE  \A n \in LevelNodes(byte[t]) : \E m \in NowChecked(t) : Contains(m, n)
    OBVIOUS
  <2>1. phase \in [Threads -> {"out", "start", "try", "allocating", "freeing"}]
    BY <1>1 DEF MallocInv, LayerInv, MallocTypeOK
  <2>2. MallocReturnNull(t)
    <3>1. ASSUME NEW u \in Threads, NEW request \in Requests,
                 MallocCall(u, request) \/ MallocTooLarge(u, request)
          PROVE  FALSE
      BY <2>1, <3>1 DEF MallocCall, MallocTooLarge, To
    <3>2. ASSUME NEW u \in Threads, NEW r \in given, FreeCall(u, r)
          PROVE  FALSE
      BY <2>1, <3>2 DEF FreeCall, To
    <3>3. ASSUME NEW u \in Threads, MallocStep(u)
          PROVE  MallocReturnNull(t)
      BY <2>1, <3>3 DEF MallocStep, ChooseStart, TryNode, MallocReturn, MallocNextNode,
                        MallocReturnNull, FreeEnds, To, mvars
    <3>4. CASE UNCHANGED allvars
      BY <3>4 DEF allvars, mvars
    <3> QED BY <1>1, <3>1, <3>2, <3>3, <3>4 DEF MallocNext
  <2>3. failed_at[t] \in Path[actual[t]] /\ SearchEnded(t)
    BY <1>1, <2>2 DEF MallocReturnNull, MallocInv, LinkInv, WalkInv
  <2> QED BY <1>1, <2>3, AllChecked DEF MallocInv
<1> QED
  BY MallocInvariant, <1>1, PTL DEF MallocSpec, NullAfterAllChecked

(***************************************************************************)
(* What the layer makes of disjoint blocks.                                *)
(***************************************************************************)

(* What alloc is about to return shares no memory with what callers hold.  *)
GrantsFree ==
  \A t \in Threads :
    pc[t] = "alloc_done" /\ failed_at[t] = 0 => \A m \in held : ~Overlap(m, target[t])

(* Then blocks stay disjoint, and a step keeps the table and is a step of  *)
(* the abstract allocator or changes no region.                            *)
LEMMA RegionStep ==
  ASSUME MallocInv, FreeFindsBlock, NoOverlap, GrantsFree, [MallocNext]_allvars
  PROVE  FreeFindsBlock' /\ [Buddy!Next]_given /\ NoOverlap'
<1>1. held \subseteq Nodes
  BY TargetFacts DEF MallocInv, TypeInv, TypeOK, CallersTypeOK
<1>2. ASSUME NEW t \in Threads, MallocReturn(t), AllocReturn(t)
      PROVE  FreeFindsBlock' /\ [Buddy!Next]_given /\ NoOverlap'
  <2>1. failed_at[t] = 0 /\ phase[t] = "allocating" /\ pc[t] = "alloc_done"
    BY <1>2 DEF MallocReturn, To, AllocReturn, At
  <2>2. target[t] = actual[t] /\ held' = held \cup {actual[t]}
    BY <1>2, <2>1 DEF AllocReturn, Granted, MallocInv, LinkInv
  <2>3. \A m \in held : ~Overlap(m, actual[t])
    BY <2>1, <2>2 DEF GrantsFree
  <2>4. actual[t] \notin held
    BY <1>1, <2>3, PathUse DEF Overlap, Contains
  <2>5. NoOverlap'
    BY <2>2, <2>3 DEF NoOverlap, Overlap
  <2> QED BY <1>1, <1>2, <2>2, <2>4, <2>5, HandedOut DEF MallocInv
<1>3. ASSUME NEW t \in Threads, NEW r \in given, FreeCall(t, r), FreeStart(t, free_tree[r.addr])
      PROVE  FreeFindsBlock' /\ [Buddy!Next]_given /\ NoOverlap'
  <2>1. held' = held \ {free_tree[r.addr]}
    BY <1>3 DEF FreeStart
  <2>2. NoOverlap'
    BY <2>1 DEF NoOverlap
  <2> QED BY <1>3, <2>1, <2>2, TakenBack
<1>4. ASSUME given' = given, free_tree' = free_tree, held' = held
      PROVE  FreeFindsBlock' /\ [Buddy!Next]_given /\ NoOverlap'
  BY <1>4 DEF FreeFindsBlock, NoOverlap
<1>5. ASSUME NEW t \in Threads, MallocStep(t), ~(MallocReturn(t) /\ AllocReturn(t))
      PROVE  given' = given /\ free_tree' = free_tree /\ held' = held
  <2>1. CASE ChooseStart(t) /\ Outside(t)
    BY <2>1 DEF ChooseStart, Outside, vars
  <2>2. CASE TryNode(t) /\ AllocStart(t, actual[t])
    BY <2>2 DEF TryNode, AllocStart
  <2>3. CASE (MallocNextNode(t) \/ MallocReturnNull(t)) /\ AllocReturn(t)
    BY <2>3 DEF MallocNextNode, MallocReturnNull, AllocReturn, Granted
  <2>4. CASE FreeEnds(t) /\ FreeReturn(t)
    BY <2>4 DEF FreeEnds, FreeReturn
  <2>5. CASE Inside(t) /\ UNCHANGED mvars
    BY <2>5 DEF Inside, CheckParent, Marca, Libera, SmarcaRead, SmarcaCAS, mvars
  <2> QED BY <1>5, <2>1, <2>2, <2>3, <2>4, <2>5 DEF MallocStep
<1>6. ASSUME NEW t \in Threads, NEW request \in Requests,
             MallocCall(t, request) \/ MallocTooLarge(t, request), Outside(t)
      PROVE  given' = given /\ free_tree' = free_tree /\ held' = held
  BY <1>6 DEF MallocCall, MallocTooLarge, Outside, vars
<1>7. CASE UNCHANGED allvars
  BY <1>4, <1>7 DEF allvars, vars, mvars
<1> QED
  BY <1>2, <1>3, <1>4, <1>5, <1>6, <1>7 DEF MallocNext

LEMMA NothingGiven == MallocStart => FreeFindsBlock /\ NoOverlap /\ Buddy!Init
BY DEF MallocStart, Init, CallersInit, MallocInit, FreeFindsBlock, NoOverlap, Buddy!Init

LEMMA RegionInvariant ==
  ASSUME Allocable \subseteq Targets
  PROVE  MallocSpec /\ []GrantsFree => [](MallocInv /\ FreeFindsBlock /\ NoOverlap)
<1> DEFINE Inv == MallocInv /\ FreeFindsBlock /\ NoOverlap
<1>1. Inv /\ GrantsFree /\ [MallocNext]_allvars => Inv'
  BY MallocInvStep, RegionStep
<1>2. MallocStart => Inv
  BY MallocInvInit, NothingGiven
<1> QED
  BY <1>1, <1>2, PTL DEF MallocSpec

(* The layer adds no error of its own: as long as the bunches grant no     *)
(* memory in use, in either build, a release finds the block it was given  *)
(* the address of, whatever had been allocated there before.               *)
THEOREM LayerFindsBlocks ==
  ASSUME Allocable \subseteq Targets
  PROVE  MallocSpec /\ []GrantsFree => []FreeFindsBlock
BY RegionInvariant, PTL

(* And every step callers see is then one of a buddy allocator: aligned,   *)
(* disjoint, power-of-two regions, each taken back as it was given.        *)
THEOREM LayerTakesAllocatorSteps ==
  ASSUME Allocable \subseteq Targets
  PROVE  MallocSpec /\ []GrantsFree => AllocatorSteps
<1>1. (MallocInv /\ FreeFindsBlock /\ NoOverlap) /\ GrantsFree /\ [MallocNext]_allvars
        => [Buddy!Next]_given
  BY RegionStep
<1> QED
  BY RegionInvariant, <1>1, PTL DEF MallocSpec, AllocatorSteps

(***************************************************************************)
(* The blocking build.                                                     *)
(***************************************************************************)

(* 4lvl-sl grants no memory in use. *)
LEMMA BlockingGrantsFree ==
  ASSUME Allocable \subseteq Targets, BD_SPIN_LOCK
  PROVE  MallocSpec => []GrantsFree
<1>1. SLInv => GrantsFree
  BY DEF SLInv, TreeInv, OperationInv, GrantInv, GrantsFree
<1> QED
  BY MallocDrivesTree, SLInvariant, <1>1, PTL

(* In 4lvl-sl a release always finds its own block, although blocks of a   *)
(* parent bunch and of the bunches below it share addresses.               *)
THEOREM FreeFindsBlockBlocking ==
  ASSUME Allocable \subseteq Targets, BD_SPIN_LOCK
  PROVE  MallocSpec => []FreeFindsBlock
BY BlockingGrantsFree, LayerFindsBlocks, PTL

(* 4lvl-sl is a buddy allocator, from malloc to free, with any number of   *)
(* threads, requests and levels. *)
THEOREM BlockingImplementsAllocator ==
  ASSUME Allocable \subseteq Targets, BD_SPIN_LOCK
  PROVE  MallocSpec => AllocatorSteps /\ ImplementsAllocator
<1>1. MallocSpec => AllocatorSteps
  BY BlockingGrantsFree, LayerTakesAllocatorSteps, PTL
<1>2. MallocStart => Buddy!Init
  BY NothingGiven
<1> QED
  BY <1>1, <1>2, PTL DEF MallocSpec, AllocatorSteps, ImplementsAllocator, Buddy!Spec
=============================================================================
