------------------------------ MODULE MallocFacts ------------------------------
(***************************************************************************)
(* Facts about the malloc layer (MallocLayer), whichever node protocol is  *)
(* below it, for every height, byte unit, set of threads and requests:     *)
(* what a rounded request is, which nodes serve it, where the search may   *)
(* go, and how regions, nodes and the translation table correspond.        *)
(***************************************************************************)
EXTENDS MallocLayer, TreeFacts

(***************************************************************************)
(* Sizes.                                                                  *)
(***************************************************************************)

(* b is 2^d units, d an order that can be allocated. *)
HasOrder(b, d) == d \in 0 .. MAX_ORDER /\ b = MIN_ALLOCABLE_BYTES * 2^d

BlockSize(b) == \E d \in 0 .. MAX_ORDER : HasOrder(b, d)

LEMMA BytePowers ==
  /\ Doubling(29)
  /\ \A k \in 0 .. 30 : 2^k \in Nat /\ 2^k >= 1
  /\ \A k \in 0 .. 29 : 2^(k + 1) = 2 * 2^k
<1>1. Doubling(29) /\ 29 \in Nat /\ 29 + 1 = 30
  BY BytePowersAssumption DEF Doubling
<1> QED
  BY <1>1, PowersPositive, BytePowersAssumption

LEMMA UnitIsPositive == MIN_ALLOCABLE_BYTES \in Nat /\ MIN_ALLOCABLE_BYTES >= 1
<1>1. PICK a \in 0 .. 20 : MIN_ALLOCABLE_BYTES = 2^a
  BY MallocAssumption
<1>2. a \in 0 .. 30
  OBVIOUS
<1> QED
  BY <1>1, <1>2, BytePowers

(* The least power of two not below v exists. *)
LEMMA PowerAbove ==
  ASSUME NEW v \in Nat, v # 0, v <= 2^30
  PROVE  \E k \in 0 .. 30 : /\ upper_power_of_two(v) = 2^k
                            /\ v <= 2^k /\ 2^k < 2 * v
<1> DEFINE T == {k \in 0 .. 30 : v <= 2^k}
<1>1. 30 \in T /\ T \subseteq Nat
  OBVIOUS
<1>2. PICK k \in T : \A j \in T : ~(j < k)
  BY <1>1, LeastElement
<1>3. k \in 0 .. 30 /\ v <= 2^k
  OBVIOUS
<1>4. 2^k < 2 * v
  <2>1. CASE k = 0
    <3>1. 2^k = 1
      BY <2>1
    <3> QED BY <3>1
  <2>2. CASE k # 0
    <3>1. k - 1 \in 0 .. 29 /\ (k - 1) + 1 = k /\ k - 1 \in 0 .. 30 /\ k - 1 < k
      BY <1>3, <2>2
    <3>2. 2^k = 2 * 2^(k - 1) /\ 2^(k - 1) \in Nat
      BY <3>1, BytePowers
    <3>3. ~(v <= 2^(k - 1))
      BY <3>1, <1>2
    <3> QED BY <3>2, <3>3
  <2> QED BY <2>1, <2>2
<1> DEFINE P == {2^j : j \in 0 .. 30}
<1>5. 2^k \in P
  BY <1>3
<1>6. \E p \in P : v <= p /\ p < 2 * v
  BY <1>3, <1>4, <1>5
<1>7. upper_power_of_two(v) \in P /\ v <= upper_power_of_two(v) /\ upper_power_of_two(v) < 2 * v
  BY <1>6 DEF upper_power_of_two
<1> QED
  BY <1>7

(* A request that is not refused is rounded to the size of an order. *)
LEMMA RoundedIsBlockSize ==
  ASSUME NEW request \in Nat, ~TooLarge(request)
  PROVE  BlockSize(Rounded(request))
<1>1. PICK a \in 0 .. 20 : MIN_ALLOCABLE_BYTES = 2^a /\ a + MAX_ORDER <= 30
  BY MallocAssumption
<1>2. MAX_ORDER \in Nat /\ 0 \in 0 .. MAX_ORDER /\ a \in Nat /\ a \in 0 .. 30
  BY LevelsAssumption
<1>3. MIN_ALLOCABLE_BYTES \in Nat /\ MIN_ALLOCABLE_BYTES >= 1
  BY UnitIsPositive
<1>4. MAX_ALLOCABLE_BYTES = 2^(a + MAX_ORDER) /\ a + MAX_ORDER \in 0 .. 30
  <2>1. 2^(a + MAX_ORDER) = 2^a * 2^MAX_ORDER
    BY <1>1, <1>2, BytePowers, PowersMultiply
  <2> QED BY <2>1, <1>1, <1>2 DEF MAX_ALLOCABLE_BYTES
<1>5. BlockSize(MIN_ALLOCABLE_BYTES)
  <2>1. MIN_ALLOCABLE_BYTES = MIN_ALLOCABLE_BYTES * 2^0
    BY <1>3
  <2> QED BY <2>1, <1>2 DEF BlockSize, HasOrder
<1>6. request <= MAX_ALLOCABLE_BYTES /\ MAX_ALLOCABLE_BYTES \in Nat
  BY <1>4, BytePowers DEF TooLarge
<1>7. CASE request = 0
  <2>1. upper_power_of_two(request) = 0
    BY <1>7 DEF upper_power_of_two
  <2>2. Rounded(request) = MIN_ALLOCABLE_BYTES
    BY <2>1, <1>3 DEF Rounded
  <2> QED BY <2>2, <1>5
<1>8. CASE request # 0
  <2>1. 2^(a + MAX_ORDER) <= 2^30
    <3>1. \A j, k \in Nat : k <= 29 + 1 /\ j <= k => 2^j <= 2^k
      BY BytePowers, PowersGrow
    <3>2. a + MAX_ORDER \in Nat /\ 30 \in Nat /\ 30 <= 29 + 1 /\ a + MAX_ORDER <= 30
      BY <1>1, <1>2
    <3> QED BY <3>1, <3>2
  <2>2. request <= 2^30
    BY <2>1, <1>4, <1>6, BytePowers
  <2>3. PICK k \in 0 .. 30 : upper_power_of_two(request) = 2^k /\ request <= 2^k /\ 2^k < 2 * request
    BY <2>2, <1>8, PowerAbove
  <2>4. k <= a + MAX_ORDER
    <3> SUFFICES ASSUME a + MAX_ORDER < k PROVE FALSE
      BY <1>4
    <3>1. 2 * 2^(a + MAX_ORDER) <= 2^k
      BY <1>4, BytePowers, PowersGrow
    <3> QED BY <3>1, <2>3, <1>4, <1>6, BytePowers
  <2>5. CASE k < a
    <3>1. 2 * 2^k <= 2^a
      BY <2>5, <1>1, <1>2, BytePowers, PowersGrow
    <3>2. 2^k < MIN_ALLOCABLE_BYTES
      BY <3>1, <1>1, <1>3, BytePowers
    <3> QED BY <3>2, <2>3, <1>5 DEF Rounded
  <2>6. CASE a <= k
    <3>1. 2^a <= 2^k
      BY <2>6, <1>1, <1>2, BytePowers, PowersGrow
    <3>2. Rounded(request) = 2^k
      BY <3>1, <2>3, <1>1, <1>2, BytePowers DEF Rounded
    <3>3. k - a \in 0 .. MAX_ORDER /\ a + (k - a) = k /\ k - a \in Nat
      BY <2>4, <2>6, <1>1, <1>2
    <3>4. 2^k = 2^a * 2^(k - a)
      BY <3>3, <1>2, BytePowers, PowersMultiply
    <3> QED BY <3>2, <3>3, <3>4, <1>1 DEF BlockSize, HasOrder
  <2> QED BY <2>5, <2>6, <1>2
<1> QED BY <1>7, <1>8

(***************************************************************************)
(* The level of a size.                                                    *)
(***************************************************************************)

(* A positive factor cancels. *)
LEMMA FactorCancels ==
  ASSUME NEW x \in Nat, x >= 1, NEW y \in Nat
  PROVE  (x * y) \div x = y
OBVIOUS

(* Requests of order d are served by the nodes of level NUM_LEVELS - d. *)
LEMMA SizeLevel ==
  ASSUME NEW b, NEW d, HasOrder(b, d)
  PROVE  LET l == NUM_LEVELS - d
         IN /\ l \in 1 .. NUM_LEVELS /\ d \in Nat
            /\ starting_node(b) = 2^(l - 1) /\ starting_node(b) \in Nat /\ starting_node(b) >= 1
            /\ last_node(b) = 2 * starting_node(b) - 1
            /\ 2^l = 2 * starting_node(b)
            /\ searched_lvl(b) = l
            /\ LevelNodes(b) = {n \in Nodes : level_by_idx(n) = l}
            /\ LevelNodes(b) \subseteq Allocable
            /\ b \in Nat /\ b >= 1
<1> DEFINE l == NUM_LEVELS - d
           s == 2^(l - 1)
<1>1. /\ d \in 0 .. (NUM_LEVELS - 1) /\ d \in Nat /\ d \in 0 .. NUM_LEVELS /\ MAX_ORDER \in Nat
      /\ l \in 1 .. NUM_LEVELS /\ l - 1 \in 0 .. (NUM_LEVELS - 1) /\ l - 1 \in 0 .. NUM_LEVELS
      /\ (l - 1) + 1 = l /\ d + (l - 1) = NUM_LEVELS - 1 /\ l - 1 \in Nat
      /\ l >= max_level
  BY LevelsAssumption, TreePowers DEF HasOrder, max_level
<1>2. s \in Nat /\ s >= 1 /\ 2^l = 2 * s /\ 2^d \in Nat /\ 2^d >= 1
  BY <1>1, TreePowers
<1>3. MIN_ALLOCABLE_BYTES \in Nat /\ MIN_ALLOCABLE_BYTES >= 1
  BY UnitIsPositive
<1>4. b \in Nat /\ b >= 1
  <2>1. \A x, y \in Nat : x >= 1 /\ y >= 1 => x * y \in Nat /\ x * y >= 1
    OBVIOUS
  <2> QED BY <2>1, <1>2, <1>3 DEF HasOrder
<1>5. starting_node(b) = s
  <2>1. 2^(NUM_LEVELS - 1) = 2^d * s
    BY <1>1, TreePowers, PowersMultiply
  <2>2. overall_memory_size = MIN_ALLOCABLE_BYTES * (2^d * s)
    BY <2>1 DEF overall_memory_size, number_of_leaves
  <2>3. \A x, y, z \in Nat : x * (y * z) = (x * y) * z
    OBVIOUS
  <2>4. overall_memory_size = b * s
    BY <2>2, <2>3, <1>2, <1>3 DEF HasOrder
  <2> QED BY <2>4, <1>2, <1>4, FactorCancels DEF starting_node
<1> HIDE DEF s
<1>6. last_node(b) = 2 * s - 1
  BY <1>5 DEF last_node, lchild_idx_by_idx
<1>7. s \in Nodes /\ level_by_idx(s) = l
  <2>1. 2^(l - 1) <= s /\ s < 2^l
    BY <1>2 DEF s
  <2> QED BY <2>1, <1>1, <1>2, LevelOfRange
<1>8. searched_lvl(b) = l
  BY <1>5, <1>7 DEF searched_lvl
<1>9. LevelNodes(b) = {n \in Nodes : level_by_idx(n) = l}
  <2>1. ASSUME NEW n \in LevelNodes(b)
        PROVE  n \in Nodes /\ level_by_idx(n) = l
    <3>1. n \in Nat /\ s <= n /\ n < 2^l
      BY <1>2, <1>5, <1>6 DEF LevelNodes
    <3> QED BY <3>1, <1>1, LevelOfRange DEF s
  <2>2. ASSUME NEW n \in Nodes, level_by_idx(n) = l
        PROVE  n \in LevelNodes(b)
    <3>1. 2^(l - 1) <= n /\ n < 2^l /\ n \in Nat
      BY <2>2, LevelRange, IndexInterval DEF Indexes
    <3> QED BY <3>1, <1>2, <1>5, <1>6 DEF LevelNodes, s
  <2> QED BY <2>1, <2>2
<1>10. LevelNodes(b) \subseteq Allocable
  BY <1>1, <1>9 DEF Allocable
<1> QED
  BY <1>1, <1>2, <1>4, <1>5, <1>6, <1>8, <1>9, <1>10 DEF s

(***************************************************************************)
(* The invariant of the layer.                                             *)
(***************************************************************************)
InSearch(t) == phase[t] \in {"try", "allocating"}

(* The search of t has gone past node n of its level. *)
Passed(t, n) ==
  IF restarted[t] THEN started_at[t] <= n \/ n < actual[t]
  ELSE started_at[t] <= n /\ n < actual[t]

(* A registered thread has a number below the count, it searches for the   *)
(* size of an order, never leaves the level, and has found a reason for    *)
(* every node it has gone past; its cache holds nodes of the right level.  *)
SearchInv(t) ==
  /\ tid[t] = -1 \/ tid[t] \in 0 .. (partecipants - 1)
  /\ phase[t] \in {"start", "try", "allocating"} => BlockSize(byte[t]) /\ tid[t] # -1
  /\ InSearch(t) =>
       /\ {actual[t], started_at[t]} \subseteq LevelNodes(byte[t])
       /\ \A n \in LevelNodes(byte[t]) : Passed(t, n) => \E m \in checked[t] : Contains(m, n)
  /\ ~InSearch(t) => ~restarted[t]
  /\ \A l \in 1 .. NUM_LEVELS : freemap[t][l] # 0 => level_by_idx(freemap[t][l]) = l

LayerInv == MallocTypeOK /\ \A t \in Threads : SearchInv(t)

(* Threads other than t have not moved. *)
OnlyThread(t) ==
  /\ partecipants' \in Nat /\ partecipants' >= partecipants
  /\ \A u \in Threads \ {t} :
       /\ tid'[u] = tid[u] /\ phase'[u] = phase[u] /\ byte'[u] = byte[u]
       /\ actual'[u] = actual[u] /\ started_at'[u] = started_at[u]
       /\ restarted'[u] = restarted[u] /\ checked'[u] = checked[u]
       /\ freemap'[u] = freemap[u]

LEMMA OthersKept ==
  ASSUME LayerInv, NEW t \in Threads, OnlyThread(t), MallocTypeOK', SearchInv(t)'
  PROVE  LayerInv'
<1> SUFFICES ASSUME NEW u \in Threads \ {t}
             PROVE  SearchInv(u)'
  BY DEF LayerInv
<1>1. SearchInv(u) /\ partecipants \in Nat /\ tid[u] \in Nat \cup {-1}
  BY DEF LayerInv, MallocTypeOK
<1>2. /\ tid'[u] = tid[u] /\ phase'[u] = phase[u] /\ byte'[u] = byte[u]
      /\ actual'[u] = actual[u] /\ started_at'[u] = started_at[u]
      /\ restarted'[u] = restarted[u] /\ checked'[u] = checked[u]
      /\ freemap'[u] = freemap[u] /\ partecipants' \in Nat /\ partecipants' >= partecipants
  BY DEF OnlyThread
<1>3. InSearch(u)' <=> InSearch(u)
  BY <1>2 DEF InSearch
<1>4. \A n : Passed(u, n)' <=> Passed(u, n)
  BY <1>2 DEF Passed
<1>5. (tid[u] = -1 \/ tid[u] \in 0 .. (partecipants - 1))'
  BY <1>1, <1>2 DEF SearchInv
<1> QED
  BY <1>1, <1>2, <1>3, <1>4, <1>5 DEF SearchInv

LEMMA LayerInit == MallocInit => LayerInv
<1> SUFFICES ASSUME MallocInit PROVE LayerInv
  OBVIOUS
<1>1. 0 \in Indexes /\ MaxRequests \in Nat
  BY MallocAssumption DEF Indexes
<1>2. MallocTypeOK
  BY <1>1 DEF MallocInit, MallocTypeOK
<1>3. ASSUME NEW t \in Threads PROVE SearchInv(t)
  BY DEF MallocInit, SearchInv, InSearch
<1> QED BY <1>2, <1>3 DEF LayerInv

(***************************************************************************)
(* The steps of the layer.                                                 *)
(***************************************************************************)
LEMMA RegisterKeeps ==
  ASSUME LayerInv, NEW t \in Threads, Register(t)
  PROVE  /\ tid' \in [Threads -> Nat \cup {-1}] /\ partecipants' \in Nat
         /\ partecipants' >= partecipants
         /\ tid'[t] \in 0 .. (partecipants' - 1)
         /\ \A u \in Threads \ {t} : tid'[u] = tid[u]
<1>1. tid \in [Threads -> Nat \cup {-1}] /\ partecipants \in Nat /\ SearchInv(t)
  BY DEF LayerInv, MallocTypeOK
<1>2. CASE tid[t] = -1
  BY <1>1, <1>2 DEF Register
<1>3. CASE tid[t] # -1
  BY <1>1, <1>3 DEF Register, SearchInv
<1> QED BY <1>2, <1>3

LEMMA MallocCallKeeps ==
  ASSUME LayerInv, NEW t \in Threads, NEW request \in Requests, MallocCall(t, request)
  PROVE  LayerInv'
<1>1. request \in Nat
  BY MallocAssumption
<1>2. BlockSize(Rounded(request))
  BY <1>1, RoundedIsBlockSize DEF MallocCall
<1>3. Rounded(request) \in Nat
  BY <1>2, SizeLevel DEF BlockSize
<1>4. /\ tid' \in [Threads -> Nat \cup {-1}] /\ partecipants' \in Nat
      /\ partecipants' >= partecipants
      /\ tid'[t] \in 0 .. (partecipants' - 1)
      /\ \A u \in Threads \ {t} : tid'[u] = tid[u]
  BY RegisterKeeps DEF MallocCall
<1>5. MallocTypeOK /\ MaxRequests \in Nat
  BY MallocAssumption DEF LayerInv
<1>6. MallocTypeOK'
  BY <1>3, <1>4, <1>5 DEF MallocTypeOK, MallocCall, To
<1>7. OnlyThread(t)
  BY <1>4, <1>5 DEF MallocTypeOK, OnlyThread, MallocCall, To
<1>8. phase[t] = "out" /\ phase'[t] = "start" /\ byte'[t] = Rounded(request)
      /\ restarted'[t] = restarted[t] /\ freemap'[t] = freemap[t]
  BY <1>5 DEF MallocTypeOK, MallocCall, To
<1>9. SearchInv(t)'
  BY <1>2, <1>4, <1>8 DEF LayerInv, SearchInv, InSearch
<1> QED BY <1>6, <1>7, <1>9, OthersKept

LEMMA MallocTooLargeKeeps ==
  ASSUME LayerInv, NEW t \in Threads, NEW request \in Requests, MallocTooLarge(t, request)
  PROVE  LayerInv'
<1>1. /\ tid' \in [Threads -> Nat \cup {-1}] /\ partecipants' \in Nat
      /\ partecipants' >= partecipants
      /\ tid'[t] \in 0 .. (partecipants' - 1)
      /\ \A u \in Threads \ {t} : tid'[u] = tid[u]
  BY RegisterKeeps DEF MallocTooLarge
<1>2. MallocTypeOK
  BY DEF LayerInv
<1>3. MallocTypeOK'
  BY <1>1, <1>2 DEF MallocTypeOK, MallocTooLarge, search
<1>4. OnlyThread(t)
  BY <1>1 DEF OnlyThread, MallocTooLarge, search
<1>5. phase'[t] = "out" /\ phase[t] = "out" /\ restarted'[t] = restarted[t] /\ freemap'[t] = freemap[t]
  BY DEF MallocTooLarge, search
<1>6. SearchInv(t)'
  BY <1>1, <1>5 DEF LayerInv, SearchInv, InSearch
<1> QED BY <1>3, <1>4, <1>6, OthersKept

(* The nodes of a level shared among the registered threads: the share of  *)
(* a thread starts within the level, however many have registered since.   *)
LEMMA ShareInLevel ==
  ASSUME NEW w \in Nat, w >= 1, NEW p \in Nat, NEW i \in 0 .. (p - 1)
  PROVE  i * (w \div p) \in 0 .. (w - 1)
<1> DEFINE q == w \div p
<1>1. p >= 1 /\ i \in Nat /\ i + 1 <= p
  OBVIOUS
<1>2. q \in Nat /\ p * q <= w
  BY <1>1
<1> HIDE DEF q
<1>3. i * q \in Nat /\ (i + 1) * q \in Nat /\ (i + 1) * q = i * q + q
  BY <1>1, <1>2
<1>4. (i + 1) * q <= p * q /\ p * q \in Nat
  BY <1>1, <1>2
<1>5. i * q + q <= w
  BY <1>2, <1>3, <1>4
<1>6. CASE q = 0
  <2>1. i * q = 0
    BY <1>1, <1>6
  <2> QED BY <2>1 DEF q
<1>7. CASE q # 0
  <2>1. i * q <= w - 1
    BY <1>2, <1>3, <1>5, <1>7
  <2> QED BY <2>1, <1>3 DEF q
<1> QED BY <1>6, <1>7

LEMMA ChooseStartKeeps ==
  ASSUME LayerInv, NEW t \in Threads, ChooseStart(t)
  PROVE  LayerInv'
<1> DEFINE b == byte[t]
           l == searched_lvl(b)
           cached == freemap[t][l]
           start == IF cached # 0 THEN cached ELSE Spread(t)
           s == starting_node(b)
<1>1. MallocTypeOK /\ SearchInv(t) /\ phase[t] = "start"
  BY DEF LayerInv, ChooseStart, To
<1>2. BlockSize(b) /\ tid[t] \in 0 .. (partecipants - 1) /\ partecipants \in Nat
  BY <1>1 DEF SearchInv, MallocTypeOK
<1>3. /\ l \in 1 .. NUM_LEVELS /\ s \in Nat /\ s >= 1 /\ last_node(b) = 2 * s - 1
      /\ LevelNodes(b) = {n \in Nodes : level_by_idx(n) = l}
  BY <1>2, SizeLevel DEF BlockSize
<1>4. LevelNodes(b) = s .. (2 * s - 1)
  BY <1>3 DEF LevelNodes
<1>5. cached \in Indexes /\ (cached # 0 => cached \in LevelNodes(b))
  <2>1. freemap[t] \in [1 .. NUM_LEVELS -> Indexes]
    BY <1>1 DEF MallocTypeOK
  <2>2. cached \in Indexes
    BY <2>1, <1>3
  <2>3. cached # 0 => cached \in Nodes /\ level_by_idx(cached) = l
    BY <2>2, <1>1, <1>3 DEF SearchInv, Indexes
  <2> QED BY <2>2, <2>3, <1>3
<1>6. start \in LevelNodes(b)
  <2>1. CASE cached # 0
    BY <2>1, <1>5
  <2>2. CASE cached = 0
    <3>1. Width(b) = s
      BY <1>3 DEF Width
    <3>2. tid[t] * (s \div partecipants) \in 0 .. (s - 1)
      BY <1>2, <1>3, ShareInLevel
    <3>3. Spread(t) = s + tid[t] * (s \div partecipants)
      BY <3>1 DEF Spread
    <3>4. Spread(t) \in s .. (2 * s - 1)
      BY <3>2, <3>3, <1>3
    <3> QED BY <2>2, <3>4, <1>4
  <2> QED BY <2>1, <2>2
<1> DEFINE next == Advanced(cached, last_node(b))
<1>7. next = 0 \/ next \in LevelNodes(b)
  BY <1>3, <1>4, <1>5 DEF Advanced
<1>8. next \in Indexes /\ start \in Indexes
  BY <1>3, <1>6, <1>7 DEF Indexes
<1>9. /\ freemap' = [freemap EXCEPT ![t][l] = next]
      /\ actual' = [actual EXCEPT ![t] = start]
      /\ started_at' = [started_at EXCEPT ![t] = start]
      /\ phase' = [phase EXCEPT ![t] = "try"]
      /\ UNCHANGED <<tid, partecipants, free_tree, byte, restarted, checked, requests, given>>
  BY DEF ChooseStart, To
<1> HIDE DEF start, next, cached, l, s
<1>10. MallocTypeOK'
  <2>1. freemap \in [Threads -> [1 .. NUM_LEVELS -> Indexes]]
    BY <1>1 DEF MallocTypeOK
  <2>2. [freemap[t] EXCEPT ![l] = next] \in [1 .. NUM_LEVELS -> Indexes]
    BY <2>1, <1>3, <1>8
  <2>3. freemap' = [freemap EXCEPT ![t] = [freemap[t] EXCEPT ![l] = next]]
    BY <1>9
  <2>4. freemap' \in [Threads -> [1 .. NUM_LEVELS -> Indexes]]
    BY <2>1, <2>2, <2>3
  <2> QED BY <2>4, <1>1, <1>8, <1>9 DEF MallocTypeOK
<1>11. OnlyThread(t)
  BY <1>1, <1>2, <1>9 DEF OnlyThread, MallocTypeOK
<1>12. /\ phase'[t] = "try" /\ byte'[t] = b /\ actual'[t] = start /\ started_at'[t] = start
       /\ restarted'[t] = restarted[t] /\ tid'[t] = tid[t] /\ partecipants' = partecipants
       /\ freemap'[t] = [freemap[t] EXCEPT ![l] = next]
  BY <1>1, <1>9 DEF MallocTypeOK
<1>13. \A n \in LevelNodes(b) : ~Passed(t, n)'
  <2>1. ~restarted[t]
    BY <1>1 DEF SearchInv, InSearch
  <2>2. start \in Nat /\ LevelNodes(b) \subseteq Nat
    BY <1>3, <1>4, <1>6
  <2> QED BY <2>1, <2>2, <1>12 DEF Passed
<1>14. \A k \in 1 .. NUM_LEVELS : freemap'[t][k] # 0 => level_by_idx(freemap'[t][k]) = k
  <2> SUFFICES ASSUME NEW k \in 1 .. NUM_LEVELS, freemap'[t][k] # 0
               PROVE  level_by_idx(freemap'[t][k]) = k
    OBVIOUS
  <2>1. freemap[t] \in [1 .. NUM_LEVELS -> Indexes]
    BY <1>1 DEF MallocTypeOK
  <2>2. CASE k = l
    BY <2>1, <2>2, <1>3, <1>7, <1>12
  <2>3. CASE k # l
    BY <2>1, <2>3, <1>1, <1>12 DEF SearchInv
  <2> QED BY <2>2, <2>3
<1>15. SearchInv(t)'
  <2>1. (phase[t] \in {"start", "try", "allocating"} => BlockSize(byte[t]) /\ tid[t] # -1)'
    BY <1>2, <1>12
  <2>2. (InSearch(t) => {actual[t], started_at[t]} \subseteq LevelNodes(byte[t]))'
    BY <1>6, <1>12
  <2>3. InSearch(t)'
    BY <1>12 DEF InSearch
  <2>4. (tid[t] = -1 \/ tid[t] \in 0 .. (partecipants - 1))'
    BY <1>2, <1>12
  <2> QED BY <2>1, <2>2, <2>3, <2>4, <1>12, <1>13, <1>14 DEF SearchInv
<1> QED BY <1>10, <1>11, <1>15, OthersKept

LEMMA TryNodeKeeps ==
  ASSUME LayerInv, NEW t \in Threads, TryNode(t)
  PROVE  LayerInv'
<1>1. MallocTypeOK /\ SearchInv(t) /\ phase[t] = "try"
  BY DEF LayerInv, TryNode, To
<1>2. /\ phase' = [phase EXCEPT ![t] = "allocating"]
      /\ UNCHANGED <<tid, partecipants, freemap, free_tree, byte, actual, started_at,
                     restarted, checked, requests, given>>
  BY DEF TryNode, To, search
<1>3. MallocTypeOK'
  BY <1>1, <1>2 DEF MallocTypeOK
<1>4. OnlyThread(t)
  BY <1>1, <1>2 DEF OnlyThread, MallocTypeOK
<1>5. phase'[t] = "allocating"
  BY <1>1, <1>2 DEF MallocTypeOK
<1>6. \A n : Passed(t, n)' <=> Passed(t, n)
  BY <1>2 DEF Passed
<1>7. SearchInv(t)'
  BY <1>1, <1>2, <1>5, <1>6 DEF SearchInv, InSearch
<1> QED BY <1>3, <1>4, <1>7, OthersKept

(* The cache is set to the next node of the level, the first one after the *)
(* last: what is left of the division by s is below s.                     *)
LEMMA MallocReturnKeeps ==
  ASSUME LayerInv, NEW t \in Threads, MallocReturn(t)
  PROVE  LayerInv'
<1> DEFINE b == byte[t]
           l == searched_lvl(b)
           s == starting_node(b)
           next == s + ((actual[t] + 1) % s)
<1>1. MallocTypeOK /\ SearchInv(t) /\ phase[t] = "allocating"
  BY DEF LayerInv, MallocReturn, To
<1>2. BlockSize(b) /\ actual[t] \in LevelNodes(b) /\ tid[t] \in 0 .. (partecipants - 1)
      /\ partecipants \in Nat
  BY <1>1 DEF SearchInv, MallocTypeOK, InSearch
<1>3. /\ l \in 1 .. NUM_LEVELS /\ s \in Nat /\ s >= 1 /\ last_node(b) = 2 * s - 1
      /\ LevelNodes(b) = {n \in Nodes : level_by_idx(n) = l}
  BY <1>2, SizeLevel DEF BlockSize
<1>4. LevelNodes(b) = s .. (2 * s - 1)
  BY <1>3 DEF LevelNodes
<1>5. next \in LevelNodes(b)
  <2>1. actual[t] \in Nat
    BY <1>2, <1>3, <1>4
  <2>2. (actual[t] + 1) % s \in 0 .. (s - 1)
    BY <2>1, <1>3
  <2> QED BY <2>2, <1>3, <1>4
<1>6. next \in Indexes /\ actual[t] \in Indexes /\ 0 \in Indexes
  BY <1>2, <1>3, <1>5 DEF Indexes
<1>7. /\ freemap' = [freemap EXCEPT ![t][l] = next]
      /\ free_tree' = [free_tree EXCEPT ![leaf_position(t)] = actual[t]]
      /\ phase' = [phase EXCEPT ![t] = "out"]
      /\ byte' = [byte EXCEPT ![t] = 0]
      /\ actual' = [actual EXCEPT ![t] = 0]
      /\ started_at' = [started_at EXCEPT ![t] = 0]
      /\ restarted' = [restarted EXCEPT ![t] = FALSE]
      /\ checked' = [checked EXCEPT ![t] = {}]
      /\ UNCHANGED <<tid, partecipants, requests>>
  BY DEF MallocReturn, To, ForgetSearch, Translated
<1> HIDE DEF next, l, s
<1>8. freemap' \in [Threads -> [1 .. NUM_LEVELS -> Indexes]]
  <2>1. freemap \in [Threads -> [1 .. NUM_LEVELS -> Indexes]]
    BY <1>1 DEF MallocTypeOK
  <2>2. [freemap[t] EXCEPT ![l] = next] \in [1 .. NUM_LEVELS -> Indexes]
    BY <2>1, <1>3, <1>6
  <2>3. freemap' = [freemap EXCEPT ![t] = [freemap[t] EXCEPT ![l] = next]]
    BY <1>7
  <2> QED BY <2>1, <2>2, <2>3
<1>9. MallocTypeOK'
  <2>1. free_tree' \in [0 .. (number_of_leaves - 1) -> Indexes]
    BY <1>1, <1>6, <1>7 DEF MallocTypeOK
  <2> QED BY <2>1, <1>1, <1>6, <1>7, <1>8 DEF MallocTypeOK
<1>10. OnlyThread(t)
  BY <1>1, <1>2, <1>7 DEF OnlyThread, MallocTypeOK
<1>11. /\ phase'[t] = "out" /\ restarted'[t] = FALSE /\ tid'[t] = tid[t]
       /\ partecipants' = partecipants
       /\ freemap'[t] = [freemap[t] EXCEPT ![l] = next]
  BY <1>1, <1>7 DEF MallocTypeOK
<1>12. \A k \in 1 .. NUM_LEVELS : freemap'[t][k] # 0 => level_by_idx(freemap'[t][k]) = k
  <2> SUFFICES ASSUME NEW k \in 1 .. NUM_LEVELS, freemap'[t][k] # 0
               PROVE  level_by_idx(freemap'[t][k]) = k
    OBVIOUS
  <2>1. freemap[t] \in [1 .. NUM_LEVELS -> Indexes]
    BY <1>1 DEF MallocTypeOK
  <2>2. CASE k = l
    BY <2>1, <2>2, <1>3, <1>5, <1>11
  <2>3. CASE k # l
    BY <2>1, <2>3, <1>1, <1>11 DEF SearchInv
  <2> QED BY <2>2, <2>3
<1>13. SearchInv(t)'
  BY <1>2, <1>11, <1>12 DEF SearchInv, InSearch
<1> QED BY <1>9, <1>10, <1>13, OthersKept

(* What a failed attempt at `actual` tells about the nodes behind it: those *)
(* in the block of the node that failed are skipped, no others.            *)
LEMMA Skipped ==
  ASSUME LayerInv, NEW t \in Threads, phase[t] = "allocating",
         failed_at[t] \in Path[actual[t]]
  PROVE  LET b == byte[t]
             f == failed_at[t]
         IN /\ f \in Nodes /\ Beyond(f, b) \in Nat /\ actual[t] < Beyond(f, b)
            /\ \A n \in LevelNodes(b) :
                 actual[t] <= n /\ n < Beyond(f, b) => Contains(f, n)
<1> DEFINE b == byte[t]
           f == failed_at[t]
           a == actual[t]
           l == searched_lvl(b)
<1>1. SearchInv(t)
  BY DEF LayerInv
<1>2. BlockSize(b) /\ a \in LevelNodes(b)
  BY <1>1 DEF SearchInv, InSearch
<1>3. l \in 1 .. NUM_LEVELS /\ LevelNodes(b) = {n \in Nodes : level_by_idx(n) = l}
  BY <1>2, SizeLevel DEF BlockSize
<1>4. a \in Nodes /\ level_by_idx(a) = l
  BY <1>2, <1>3
<1>5. f \in Nodes
  BY <1>4, PathFacts DEF Indexes
<1> DEFINE d == l - level_by_idx(f)
<1>6. d \in Nat /\ f * 2^d <= a /\ a < (f + 1) * 2^d
  BY <1>4, <1>5, Descendants
<1>7. Beyond(f, b) = (f + 1) * 2^d
  BY DEF Beyond
<1>8. 2^d \in Nat /\ f \in Nat
  <2>1. level_by_idx(f) \in Nat
    BY <1>5, LevelFacts DEF Indexes
  <2>2. d \in 0 .. NUM_LEVELS
    <3>1. d \in Nat
      BY <1>6
    <3>2. l \in 1 .. NUM_LEVELS
      BY <1>3
    <3> HIDE DEF l
    <3> QED BY <3>1, <3>2, <2>1, TreePowers
  <2>3. f \in Nat
    BY <1>5, IndexInterval DEF Indexes
  <2>4. \A k \in 0 .. NUM_LEVELS : 2^k \in Nat
    BY TreePowers
  <2> HIDE DEF d
  <2> QED BY <2>2, <2>3, <2>4
<1> HIDE DEF d
<1>9. Beyond(f, b) \in Nat /\ f * 2^d \in Nat
  BY <1>7, <1>8
<1>10. ASSUME NEW n \in LevelNodes(b), a <= n, n < Beyond(f, b)
       PROVE  Contains(f, n)
  <2>1. n \in Nodes /\ level_by_idx(n) = l /\ n \in Nat /\ a \in Nat
    BY <1>3, <1>4, IndexInterval DEF Indexes
  <2>2. f * 2^d <= n /\ n < (f + 1) * 2^d
    BY <2>1, <1>6, <1>7, <1>9, <1>10
  <2>3. f \in Path[n]
    BY <2>1, <2>2, <1>5, <1>6, Descendants DEF d
  <2> QED BY <2>3 DEF Contains
<1> QED BY <1>5, <1>6, <1>7, <1>9, <1>10

(* So there is a reason for every node the search leaves behind. *)
LEMMA NowCovered ==
  ASSUME LayerInv, NEW t \in Threads, phase[t] = "allocating",
         failed_at[t] \in Path[actual[t]], NEW n \in LevelNodes(byte[t]),
         Passed(t, n) \/ (actual[t] <= n /\ n < Beyond(failed_at[t], byte[t]))
  PROVE  \E m \in NowChecked(t) : Contains(m, n)
<1>1. CASE Passed(t, n)
  BY <1>1 DEF LayerInv, SearchInv, InSearch, NowChecked
<1>2. CASE actual[t] <= n /\ n < Beyond(failed_at[t], byte[t])
  BY <1>2, Skipped DEF NowChecked
<1> QED BY <1>1, <1>2

LEMMA MallocNextNodeKeeps ==
  ASSUME LayerInv, NEW t \in Threads, MallocNextNode(t), failed_at[t] \in Path[actual[t]]
  PROVE  LayerInv'
<1> DEFINE b == byte[t]
           f == failed_at[t]
           a == actual[t]
           s == starting_node(b)
           next == NextActual(t)
<1>1. MallocTypeOK /\ SearchInv(t) /\ phase[t] = "allocating" /\ ~SearchEnded(t)
  BY DEF LayerInv, MallocNextNode, To
<1>2. BlockSize(b) /\ {a, started_at[t]} \subseteq LevelNodes(b) /\ tid[t] # -1
  BY <1>1 DEF SearchInv, InSearch
<1>3. /\ s \in Nat /\ s >= 1 /\ last_node(b) = 2 * s - 1
      /\ LevelNodes(b) \subseteq Nodes
  BY <1>2, SizeLevel DEF BlockSize
<1>4. LevelNodes(b) = s .. (2 * s - 1) /\ a \in Nat /\ started_at[t] \in Nat
  BY <1>2, <1>3 DEF LevelNodes
<1>5. f \in Nodes /\ Beyond(f, b) \in Nat /\ a < Beyond(f, b)
  BY <1>1, Skipped
<1>6. next = IF Wrap(t) THEN s ELSE Beyond(f, b)
  BY DEF NextActual
<1>7. Wrap(t) <=> Beyond(f, b) > 2 * s - 1
  BY <1>3 DEF Wrap
<1>8. next \in LevelNodes(b) /\ next \in Nat
  BY <1>2, <1>3, <1>4, <1>5, <1>6, <1>7
<1>9. /\ actual' = [actual EXCEPT ![t] = next]
      /\ phase' = [phase EXCEPT ![t] = "try"]
      /\ restarted' = [restarted EXCEPT ![t] = restarted[t] \/ Wrap(t)]
      /\ checked' = [checked EXCEPT ![t] = NowChecked(t)]
      /\ UNCHANGED <<tid, partecipants, freemap, free_tree, byte, started_at, requests, given>>
  BY DEF MallocNextNode, To
<1> HIDE DEF next, s
<1>10. NowChecked(t) \in SUBSET Nodes /\ next \in Indexes
  BY <1>1, <1>3, <1>5, <1>8 DEF MallocTypeOK, NowChecked, Indexes
<1>11. MallocTypeOK'
  <2>1. restarted' \in [Threads -> BOOLEAN]
    <3>1. restarted[t] \in BOOLEAN /\ Wrap(t) \in BOOLEAN
      BY <1>1 DEF MallocTypeOK, Wrap
    <3> QED BY <3>1, <1>1, <1>9 DEF MallocTypeOK
  <2> QED BY <2>1, <1>1, <1>9, <1>10 DEF MallocTypeOK
<1>12. OnlyThread(t)
  BY <1>1, <1>9 DEF OnlyThread, MallocTypeOK
<1>13. /\ phase'[t] = "try" /\ byte'[t] = b /\ actual'[t] = next
       /\ started_at'[t] = started_at[t] /\ checked'[t] = NowChecked(t)
       /\ freemap' = freemap /\ tid' = tid /\ partecipants' = partecipants
  BY <1>1, <1>9 DEF MallocTypeOK
<1>14. restarted'[t] <=> restarted[t] \/ Wrap(t)
  BY <1>1, <1>9 DEF MallocTypeOK
<1>15. ASSUME NEW n \in LevelNodes(b), Passed(t, n)'
       PROVE  \E m \in NowChecked(t) : Contains(m, n)
  <2>1. n \in s .. (2 * s - 1) /\ n \in Nat
    BY <1>3, <1>4
  <2>2. Passed(t, n) \/ (a <= n /\ n < Beyond(f, b))
    <3>1. CASE Wrap(t)
      <4>1. started_at[t] <= n \/ n < s
        BY <3>1, <1>6, <1>13, <1>14, <1>15 DEF Passed
      <4>2. started_at[t] <= n /\ n < Beyond(f, b)
        BY <4>1, <3>1, <2>1, <1>3, <1>4, <1>5, <1>7
      <4> QED BY <4>2, <2>1, <1>4 DEF Passed
    <3>2. CASE ~Wrap(t) /\ restarted[t]
      <4>1. started_at[t] <= n \/ n < Beyond(f, b)
        BY <3>2, <1>6, <1>13, <1>14, <1>15 DEF Passed
      <4> QED BY <4>1, <3>2, <2>1, <1>4 DEF Passed
    <3>3. CASE ~Wrap(t) /\ ~restarted[t]
      <4>1. started_at[t] <= n /\ n < Beyond(f, b)
        BY <3>3, <1>6, <1>13, <1>14, <1>15 DEF Passed
      <4> QED BY <4>1, <3>3, <2>1, <1>4 DEF Passed
    <3> QED BY <3>1, <3>2, <3>3
  <2> QED BY <2>2, <1>1, NowCovered
<1>16. SearchInv(t)'
  <2>1. InSearch(t)'
    BY <1>13 DEF InSearch
  <2>2. (\A n \in LevelNodes(byte[t]) : Passed(t, n) => \E m \in checked[t] : Contains(m, n))'
    BY <1>13, <1>15
  <2>3. ({actual[t], started_at[t]} \subseteq LevelNodes(byte[t]))'
    BY <1>2, <1>8, <1>13
  <2>4. (tid[t] = -1 \/ tid[t] \in 0 .. (partecipants - 1))'
        /\ (\A l \in 1 .. NUM_LEVELS : freemap[t][l] # 0 => level_by_idx(freemap[t][l]) = l)'
    BY <1>1, <1>13 DEF SearchInv
  <2>5. (BlockSize(byte[t]) /\ tid[t] # -1)'
    BY <1>2, <1>13
  <2> QED BY <2>1, <2>2, <2>3, <2>4, <2>5 DEF SearchInv
<1> QED BY <1>11, <1>12, <1>16, OthersKept

LEMMA MallocReturnNullKeeps ==
  ASSUME LayerInv, NEW t \in Threads, MallocReturnNull(t)
  PROVE  LayerInv'
<1>1. MallocTypeOK /\ SearchInv(t) /\ 0 \in Indexes
  BY DEF LayerInv, Indexes
<1>2. /\ phase' = [phase EXCEPT ![t] = "out"]
      /\ byte' = [byte EXCEPT ![t] = 0]
      /\ actual' = [actual EXCEPT ![t] = 0]
      /\ started_at' = [started_at EXCEPT ![t] = 0]
      /\ restarted' = [restarted EXCEPT ![t] = FALSE]
      /\ checked' = [checked EXCEPT ![t] = {}]
      /\ UNCHANGED <<tid, partecipants, freemap, free_tree, requests, given>>
  BY DEF MallocReturnNull, To, ForgetSearch
<1>3. MallocTypeOK'
  BY <1>1, <1>2 DEF MallocTypeOK
<1>4. OnlyThread(t)
  BY <1>1, <1>2 DEF OnlyThread, MallocTypeOK
<1>5. phase'[t] = "out" /\ restarted'[t] = FALSE
  BY <1>1, <1>2 DEF MallocTypeOK
<1>6. SearchInv(t)'
  BY <1>1, <1>2, <1>5 DEF SearchInv, InSearch
<1> QED BY <1>3, <1>4, <1>6, OthersKept

LEMMA FreeCallKeeps ==
  ASSUME LayerInv, NEW t \in Threads, NEW r \in given, FreeCall(t, r),
         free_tree[r.addr] \in Nodes
  PROVE  LayerInv'
<1> DEFINE pos == free_tree[r.addr]
           l == level_by_idx(pos)
<1>1. MallocTypeOK /\ SearchInv(t) /\ phase[t] = "out" /\ phase' = [phase EXCEPT ![t] = "freeing"]
  BY DEF LayerInv, FreeCall, To
<1>2. l \in 1 .. NUM_LEVELS /\ pos \in Indexes
  BY LevelRange DEF Indexes
<1>3. /\ freemap' = [freemap EXCEPT ![t][l] = pos]
      /\ UNCHANGED <<tid, partecipants, free_tree, byte, actual, started_at, restarted,
                     checked, requests>>
  BY DEF FreeCall, search
<1> HIDE DEF l, pos
<1>4. freemap \in [Threads -> [1 .. NUM_LEVELS -> Indexes]]
  BY <1>1 DEF MallocTypeOK
<1>5. freemap' = [freemap EXCEPT ![t] = [freemap[t] EXCEPT ![l] = pos]]
      /\ [freemap[t] EXCEPT ![l] = pos] \in [1 .. NUM_LEVELS -> Indexes]
  BY <1>2, <1>3, <1>4
<1>6. freemap' \in [Threads -> [1 .. NUM_LEVELS -> Indexes]]
  BY <1>4, <1>5
<1>7. MallocTypeOK'
  BY <1>1, <1>3, <1>6 DEF MallocTypeOK
<1>8. OnlyThread(t)
  BY <1>1, <1>3 DEF OnlyThread, MallocTypeOK
<1>9. phase'[t] = "freeing" /\ freemap'[t] = [freemap[t] EXCEPT ![l] = pos]
  BY <1>1, <1>4, <1>5 DEF MallocTypeOK
<1>10. \A k \in 1 .. NUM_LEVELS : freemap'[t][k] # 0 => level_by_idx(freemap'[t][k]) = k
  <2> SUFFICES ASSUME NEW k \in 1 .. NUM_LEVELS, freemap'[t][k] # 0
               PROVE  level_by_idx(freemap'[t][k]) = k
    OBVIOUS
  <2>1. CASE k = l
    BY <2>1, <1>4, <1>9 DEF l
  <2>2. CASE k # l
    BY <2>2, <1>1, <1>4, <1>9 DEF SearchInv
  <2> QED BY <2>1, <2>2
<1>11. SearchInv(t)'
  BY <1>1, <1>3, <1>9, <1>10 DEF SearchInv, InSearch
<1> QED BY <1>7, <1>8, <1>11, OthersKept

LEMMA FreeEndsKeeps ==
  ASSUME LayerInv, NEW t \in Threads, FreeEnds(t)
  PROVE  LayerInv'
<1>1. MallocTypeOK /\ SearchInv(t) /\ phase[t] = "freeing" /\ phase' = [phase EXCEPT ![t] = "out"]
      /\ UNCHANGED <<tid, partecipants, freemap, free_tree, byte, actual, started_at,
                     restarted, checked, requests, given>>
  BY DEF LayerInv, FreeEnds, To, search
<1>2. MallocTypeOK'
  BY <1>1 DEF MallocTypeOK
<1>3. OnlyThread(t)
  BY <1>1 DEF OnlyThread, MallocTypeOK
<1>4. phase'[t] = "out"
  BY <1>1 DEF MallocTypeOK
<1>5. SearchInv(t)'
  BY <1>1, <1>4 DEF SearchInv, InSearch
<1> QED BY <1>2, <1>3, <1>5, OthersKept

(***************************************************************************)
(* What the invariant gives.                                               *)
(***************************************************************************)
LEMMA StaysInLevel == LayerInv => SearchStaysInLevel
BY DEF LayerInv, SearchInv, InSearch, SearchStaysInLevel

(* A search that gives up has a reason for every node of its level.        *)
LEMMA AllChecked ==
  ASSUME LayerInv, NEW t \in Threads, phase[t] = "allocating",
         failed_at[t] \in Path[actual[t]], SearchEnded(t), NEW n \in LevelNodes(byte[t])
  PROVE  \E m \in NowChecked(t) : Contains(m, n)
<1> DEFINE b == byte[t]
           f == failed_at[t]
           a == actual[t]
           s == starting_node(b)
<1>1. MallocTypeOK /\ SearchInv(t)
  BY DEF LayerInv
<1>2. BlockSize(b) /\ {a, started_at[t]} \subseteq LevelNodes(b)
  BY <1>1 DEF SearchInv, InSearch
<1>3. s \in Nat /\ s >= 1 /\ last_node(b) = 2 * s - 1
  BY <1>2, SizeLevel DEF BlockSize
<1>4. LevelNodes(b) = s .. (2 * s - 1)
  BY <1>3 DEF LevelNodes
<1>5. Beyond(f, b) \in Nat
  BY Skipped
<1>6. Wrap(t) <=> Beyond(f, b) > 2 * s - 1
  BY <1>3 DEF Wrap
<1>7. NextActual(t) = IF Wrap(t) THEN s ELSE Beyond(f, b)
  BY DEF NextActual
<1>8. (restarted[t] \/ Wrap(t)) /\ NextActual(t) >= started_at[t]
  BY DEF SearchEnded
<1> HIDE DEF s
<1>9. n \in s .. (2 * s - 1) /\ a \in Nat /\ started_at[t] \in s .. (2 * s - 1)
  BY <1>2, <1>3, <1>4
<1>10. Passed(t, n) \/ (a <= n /\ n < Beyond(f, b))
  <2>1. CASE Wrap(t)
    BY <2>1, <1>3, <1>5, <1>6, <1>7, <1>8, <1>9 DEF Passed
  <2>2. CASE ~Wrap(t)
    BY <2>2, <1>3, <1>5, <1>6, <1>7, <1>8, <1>9 DEF Passed
  <2> QED BY <2>1, <2>2
<1> QED BY <1>10, NowCovered

(***************************************************************************)
(* Regions.                                                                *)
(***************************************************************************)

(* The leaf of the tree over cell x. *)
LeafOver(x) == x + number_of_leaves

(* The region of a node: a power of two of cells, aligned, in the arena,   *)
(* and its cells are those whose leaves lie below the node.                *)
LEMMA RegionFacts ==
  ASSUME NEW n \in Nodes
  PROVE  LET l == level_by_idx(n)
             r == RegionOf(n)
             q == 2^(NUM_LEVELS - l)
         IN /\ r = [addr |-> r.addr, size |-> q] /\ q \in Nat /\ q >= 1
            /\ r.addr = q * (n - 2^(l - 1)) /\ r.addr \in Nat
            /\ r.addr + number_of_leaves = n * q
            /\ r.addr + q <= number_of_leaves
            /\ r.addr % q = 0
            /\ number_of_leaves \in Nat
<1> DEFINE l == level_by_idx(n)
           h == NUM_LEVELS - l
           q == 2^h
           w == 2^(l - 1)
           r == RegionOf(n)
<1>1. l \in 1 .. NUM_LEVELS /\ w <= n /\ n < 2^l /\ n \in Nat
  BY LevelRange, IndexInterval DEF Indexes
<1>2. /\ h \in 0 .. NUM_LEVELS /\ h \in Nat /\ l - 1 \in 0 .. (NUM_LEVELS - 1) /\ l - 1 \in Nat
      /\ (l - 1) + 1 = l /\ h + (l - 1) = NUM_LEVELS - 1 /\ l - 1 \in 0 .. NUM_LEVELS
      /\ NUM_LEVELS - 1 \in 0 .. NUM_LEVELS
  BY <1>1, TreePowers
<1>3. q \in Nat /\ q >= 1 /\ w \in Nat /\ w >= 1 /\ 2^l = 2 * w
  BY <1>2, TreePowers
<1>4. number_of_leaves = q * w /\ number_of_leaves \in Nat
  <2>1. 2^(NUM_LEVELS - 1) = q * w
    BY <1>2, TreePowers, PowersMultiply
  <2>2. 2^(NUM_LEVELS - 1) \in Nat
    BY <1>2, TreePowers
  <2> QED BY <2>1, <2>2 DEF number_of_leaves
<1>5. number_of_leaves \div q = w
  BY <1>3, <1>4, FactorCancels
<1>6. r = [addr |-> q * (n - w), size |-> q]
  BY <1>5 DEF RegionOf
<1>7. r.addr = q * (n - w) /\ r.size = q
  BY <1>6
<1> HIDE DEF q, w, h, l, r
<1>8. n - w \in 0 .. (w - 1)
  BY <1>1, <1>3
<1>9. q * (n - w) \in Nat /\ q * (n - w) + q * w = n * q /\ q * (n - w) + q <= q * w
  <2> DEFINE k == n - w
  <2>1. k \in Nat /\ k + 1 <= w /\ n = k + w
    BY <1>1, <1>3, <1>8
  <2> HIDE DEF k
  <2>2. q * k \in Nat /\ (k + w) * q = q * k + q * w
    BY <2>1, <1>3
  <2>3. q * k + q = q * (k + 1) /\ q * (k + 1) <= q * w
    BY <2>1, <1>3
  <2> QED BY <2>1, <2>2, <2>3 DEF k
<1>10. (q * (n - w)) % q = 0
  <2>1. \A x, y \in Nat : x >= 1 => (x * y) % x = 0
    OBVIOUS
  <2> QED BY <2>1, <1>3, <1>8
<1> QED
  BY <1>3, <1>4, <1>6, <1>7, <1>9, <1>10 DEF l, h, q, w, r

LEMMA CellBelowNode ==
  ASSUME NEW n \in Nodes, NEW x \in RegionOf(n).addr .. (RegionOf(n).addr + RegionOf(n).size - 1)
  PROVE  LeafOver(x) \in Nodes /\ n \in Path[LeafOver(x)]
<1> DEFINE l == level_by_idx(n)
           q == 2^(NUM_LEVELS - l)
           r == RegionOf(n)
           leaf == LeafOver(x)
<1>1. /\ r = [addr |-> r.addr, size |-> q] /\ q \in Nat /\ q >= 1 /\ r.addr \in Nat
      /\ r.addr + number_of_leaves = n * q /\ r.addr + q <= number_of_leaves
      /\ number_of_leaves \in Nat
  BY RegionFacts
<1>2. r.size = q
  BY <1>1
<1> HIDE DEF q
<1>3. x \in Nat /\ r.addr <= x /\ x < r.addr + q
  BY <1>1, <1>2
<1>4. leaf \in Nat /\ n * q <= leaf /\ leaf < n * q + q /\ leaf < 2 * number_of_leaves
      /\ number_of_leaves <= leaf
  BY <1>1, <1>3 DEF LeafOver
<1>5. n \in Nat /\ l \in 1 .. NUM_LEVELS
  BY LevelRange, IndexInterval DEF Indexes
<1>6. (n + 1) * q = n * q + q
  BY <1>1, <1>5
<1>7. leaf \in Nodes /\ level_by_idx(leaf) = NUM_LEVELS
  <2>1. NUM_LEVELS \in 1 .. NUM_LEVELS /\ NUM_LEVELS - 1 \in 0 .. (NUM_LEVELS - 1)
        /\ (NUM_LEVELS - 1) + 1 = NUM_LEVELS
    BY TreePowers
  <2>2. 2^NUM_LEVELS = 2 * number_of_leaves
    BY <2>1, TreePowers DEF number_of_leaves
  <2>3. 2^(NUM_LEVELS - 1) <= leaf /\ leaf < 2^NUM_LEVELS
    BY <2>2, <1>4 DEF number_of_leaves
  <2> QED BY <2>1, <2>3, <1>4, LevelOfRange
<1> HIDE DEF leaf
<1>8. NUM_LEVELS - l \in Nat
  BY <1>5, TreePowers
<1>9. n \in Path[leaf]
  BY <1>4, <1>6, <1>7, <1>8, Descendants DEF q
<1> QED BY <1>7, <1>9 DEF leaf

(* Regions that share a cell are those of overlapping nodes. *)
LEMMA RegionsApart ==
  ASSUME NEW m \in Nodes, NEW n \in Nodes, ~Overlap(m, n)
  PROVE  /\ (RegionOf(m).addr .. (RegionOf(m).addr + RegionOf(m).size - 1))
              \cap (RegionOf(n).addr .. (RegionOf(n).addr + RegionOf(n).size - 1)) = {}
         /\ RegionOf(m).addr # RegionOf(n).addr
<1>1. ASSUME NEW x \in RegionOf(m).addr .. (RegionOf(m).addr + RegionOf(m).size - 1),
             x \in RegionOf(n).addr .. (RegionOf(n).addr + RegionOf(n).size - 1)
      PROVE  FALSE
  <2>1. LeafOver(x) \in Nodes /\ m \in Path[LeafOver(x)] /\ n \in Path[LeafOver(x)]
    BY <1>1, CellBelowNode
  <2>2. level_by_idx(m) \in Nat /\ level_by_idx(n) \in Nat
    BY LevelFacts DEF Indexes
  <2>3. m \in Path[n] \/ n \in Path[m]
    BY <2>1, <2>2, PathLinear
  <2> QED BY <2>3 DEF Overlap, Contains
<1>2. RegionOf(m).addr # RegionOf(n).addr
  <2>1. /\ RegionOf(m).addr \in Nat /\ RegionOf(m).size \in Nat /\ RegionOf(m).size >= 1
        /\ RegionOf(n).addr \in Nat /\ RegionOf(n).size \in Nat /\ RegionOf(n).size >= 1
    <3>1. ASSUME NEW k \in Nodes
          PROVE  RegionOf(k).addr \in Nat /\ RegionOf(k).size \in Nat /\ RegionOf(k).size >= 1
      <4> DEFINE q == 2^(NUM_LEVELS - level_by_idx(k))
      <4>1. RegionOf(k) = [addr |-> RegionOf(k).addr, size |-> q] /\ q \in Nat /\ q >= 1
            /\ RegionOf(k).addr \in Nat
        BY RegionFacts
      <4> HIDE DEF q
      <4> QED BY <4>1
    <3> QED BY <3>1
  <2>2. /\ RegionOf(m).addr \in RegionOf(m).addr .. (RegionOf(m).addr + RegionOf(m).size - 1)
        /\ RegionOf(n).addr \in RegionOf(n).addr .. (RegionOf(n).addr + RegionOf(n).size - 1)
    BY <2>1
  <2> QED BY <2>2, <1>1
<1> QED BY <1>1, <1>2

(***************************************************************************)
(* What callers have.                                                      *)
(***************************************************************************)

(* The address and the size that malloc returns are those of the node.     *)
LEMMA ReturnedRegion ==
  ASSUME LayerInv, NEW t \in Threads, phase[t] = "allocating"
  PROVE  LET n == actual[t]
         IN /\ n \in Nodes
            /\ RegionOf(n) = [addr |-> leaf_position(t),
                              size |-> byte[t] \div MIN_ALLOCABLE_BYTES]
            /\ RegionOf(n).size \in {2^k : k \in 0 .. MAX_ORDER}
<1> DEFINE b == byte[t]
           n == actual[t]
           s == starting_node(b)
<1>1. BlockSize(b) /\ n \in LevelNodes(b)
  BY DEF LayerInv, SearchInv, InSearch
<1>2. PICK d \in 0 .. MAX_ORDER : HasOrder(b, d)
  BY <1>1 DEF BlockSize
<1> DEFINE l == NUM_LEVELS - d
           q == 2^d
<1>3. /\ l \in 1 .. NUM_LEVELS /\ d \in Nat /\ s = 2^(l - 1) /\ s \in Nat
      /\ LevelNodes(b) = {m \in Nodes : level_by_idx(m) = l}
  BY <1>2, SizeLevel
<1>4. n \in Nodes /\ level_by_idx(n) = l /\ n \in s .. last_node(b)
  BY <1>1, <1>3 DEF LevelNodes
<1>5. NUM_LEVELS - l = d /\ NUM_LEVELS \in Nat
  BY <1>3, LevelsAssumption
<1>6. /\ RegionOf(n) = [addr |-> RegionOf(n).addr, size |-> q] /\ q \in Nat /\ q >= 1
      /\ RegionOf(n).addr = q * (n - s)
  BY <1>3, <1>4, <1>5, RegionFacts
<1>7. MIN_ALLOCABLE_BYTES \in Nat /\ MIN_ALLOCABLE_BYTES >= 1
  BY UnitIsPositive
<1>8. n \in Nat /\ n - s \in Nat /\ b = MIN_ALLOCABLE_BYTES * q
  BY <1>2, <1>3, <1>4, IndexInterval DEF HasOrder, Indexes
<1> HIDE DEF b, n, s, q, l
<1>9. leaf_position(t) = q * (n - s)
  <2>1. \A x, y, z \in Nat : (x * y) * z = x * (y * z) /\ y * z \in Nat
    OBVIOUS
  <2>2. b * (n - s) = MIN_ALLOCABLE_BYTES * (q * (n - s)) /\ q * (n - s) \in Nat
    BY <2>1, <1>6, <1>7, <1>8
  <2>3. (b * (n - s)) \div MIN_ALLOCABLE_BYTES = q * (n - s)
    BY <2>2, <1>7, FactorCancels
  <2> QED BY <2>3 DEF leaf_position, b, n, s
<1>10. b \div MIN_ALLOCABLE_BYTES = q
  BY <1>6, <1>7, <1>8, FactorCancels
<1> QED
  BY <1>2, <1>4, <1>6, <1>9, <1>10 DEF b, n, q

(* An entry of the table that callers' regions rely on is not overwritten: *)
(* the address of a block that overlaps no held block is not theirs.       *)
LEMMA HandedOut ==
  ASSUME LayerInv, FreeFindsBlock, NEW t \in Threads, MallocReturn(t),
         held \subseteq Nodes, actual[t] \notin held,
         held' = held \cup {actual[t]}, NoOverlap'
  PROVE  FreeFindsBlock' /\ Buddy!Next
<1> DEFINE n == actual[t]
           new == RegionOf(n)
<1>1. phase[t] = "allocating" /\ MallocTypeOK
  BY DEF MallocReturn, To, LayerInv
<1>2. /\ n \in Nodes /\ new.size \in {2^k : k \in 0 .. MAX_ORDER}
      /\ new = [addr |-> leaf_position(t), size |-> byte[t] \div MIN_ALLOCABLE_BYTES]
  BY <1>1, ReturnedRegion
<1>3. given' = given \cup {new} /\ free_tree' = [free_tree EXCEPT ![new.addr] = n]
  BY <1>2 DEF MallocReturn, Translated
<1>4. /\ new = [addr |-> new.addr, size |-> new.size]
      /\ new.addr \in Nat /\ new.size \in Nat /\ new.size >= 1
      /\ new.addr + new.size <= number_of_leaves /\ new.addr % new.size = 0
      /\ number_of_leaves \in Nat
  <2>1. new.size = 2^(NUM_LEVELS - level_by_idx(n))
    BY DEF RegionOf
  <2> QED BY <2>1, <1>2, RegionFacts
<1>5. new.addr \in DOMAIN free_tree
  BY <1>1, <1>4 DEF MallocTypeOK
<1>6. ASSUME NEW r \in given
      PROVE  LET m == free_tree[r.addr]
             IN /\ m \in Nodes /\ m \in held /\ RegionOf(m) = r
                /\ r.addr # new.addr
                /\ (r.addr .. (r.addr + r.size - 1)) \cap (new.addr .. (new.addr + new.size - 1)) = {}
                /\ free_tree'[r.addr] = m
  <2> DEFINE m == free_tree[r.addr]
  <2>1. m \in held /\ m \in Nodes /\ RegionOf(m) = r /\ m # n
    BY DEF FreeFindsBlock
  <2>2. ~Overlap(m, n)
    BY <2>1 DEF NoOverlap
  <2>3. /\ (r.addr .. (r.addr + r.size - 1)) \cap (new.addr .. (new.addr + new.size - 1)) = {}
        /\ r.addr # new.addr
    BY <2>1, <2>2, <1>2, RegionsApart
  <2>4. free_tree'[r.addr] = m
    <3> HIDE DEF new, n
    <3>1. free_tree \in [0 .. (number_of_leaves - 1) -> Indexes]
      BY <1>1 DEF MallocTypeOK
    <3>2. r.addr \in DOMAIN free_tree
      <4>1. RegionOf(m).addr \in Nat /\ RegionOf(m).addr + RegionOf(m).size <= number_of_leaves
            /\ RegionOf(m).size \in Nat /\ RegionOf(m).size >= 1
        <5>1. RegionOf(m).size = 2^(NUM_LEVELS - level_by_idx(m))
          BY DEF RegionOf
        <5> QED BY <5>1, <2>1, RegionFacts
      <4> QED BY <4>1, <2>1, <3>1, <1>4
    <3> QED BY <3>1, <3>2, <2>3, <1>3
  <2> QED BY <2>1, <2>3, <2>4
<1>7. free_tree'[new.addr] = n
  BY <1>3, <1>5
<1> HIDE DEF new
<1>8. \A r \in given' : RegionOf(free_tree'[r.addr]) = r
  BY <1>3, <1>6, <1>7 DEF new
<1>9. {free_tree'[r.addr] : r \in given'} = held'
  <2>1. {free_tree[r.addr] : r \in given} = held
    BY DEF FreeFindsBlock
  <2> QED BY <2>1, <1>3, <1>6, <1>7
<1>10. FreeFindsBlock'
  BY <1>8, <1>9 DEF FreeFindsBlock
<1>11. Buddy!Malloc(new.size)
  <2>1. new.addr \in 0 .. (number_of_leaves - new.size)
    BY <1>4
  <2>2. \A q \in given : Buddy!CellsOf(q) \cap Buddy!CellsOf(new) = {}
    BY <1>6 DEF Buddy!CellsOf
  <2> QED BY <2>1, <2>2, <1>3, <1>4 DEF Buddy!Malloc
<1> QED
  BY <1>2, <1>10, <1>11 DEF Buddy!Next, new

(* Two regions of callers are the blocks of two nodes.                     *)
LEMMA TakenBack ==
  ASSUME FreeFindsBlock, NEW t \in Threads, NEW r \in given, FreeCall(t, r),
         held' = held \ {free_tree[r.addr]}
  PROVE  FreeFindsBlock' /\ Buddy!Next
<1>1. given' = given \ {r} /\ free_tree' = free_tree
  BY DEF FreeCall
<1>2. \A q \in given : RegionOf(free_tree[q.addr]) = q
  BY DEF FreeFindsBlock
<1>3. {free_tree[q.addr] : q \in given} = held
  BY DEF FreeFindsBlock
<1>4. \A q \in given' : free_tree[q.addr] # free_tree[r.addr]
  BY <1>1, <1>2
<1>5. {free_tree[q.addr] : q \in given'} = held'
  BY <1>1, <1>3, <1>4
<1>6. \A q \in given' : RegionOf(free_tree'[q.addr]) = q
  BY <1>1, <1>2
<1> QED
  BY <1>1, <1>5, <1>6 DEF FreeFindsBlock, Buddy!Next, Buddy!Free
=============================================================================
