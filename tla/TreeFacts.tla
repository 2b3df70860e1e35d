------------------------------ MODULE TreeFacts ------------------------------
(***************************************************************************)
(* Facts about the tree of BuddyTree, for every height: what the paths to  *)
(* the root, the levels and the subtrees of an implicit binary heap have   *)
(* in common.  Inductions over the indexes are made by taking the least    *)
(* index at which a statement fails.                                       *)
(***************************************************************************)
EXTENDS BuddyTree, FiniteSetTheorems, TLAPS

(* A non-empty set of natural numbers has a least element. *)
LEMMA LeastElement ==
  ASSUME NEW T, T \subseteq Nat, T # {}
  PROVE  \E x \in T : \A y \in T : ~(y < x)
<1> DEFINE R == {ss \in Nat \X Nat : ss[1] < ss[2]}
<1>1. IsWellFoundedOn(R, Nat)
  BY NatLessThanWellFounded DEF OpToRel
<1>2. PICK x \in T : \A y \in T : ~(<<y, x>> \in R)
  BY <1>1, WFMin
<1> QED
  BY <1>2

(* A set with 0 and the successor of each of its numbers has them all. *)
LEMMA SetInduction ==
  ASSUME NEW S, 0 \in S, \A n \in Nat : n \in S => n + 1 \in S
  PROVE  Nat \subseteq S
<1> SUFFICES ASSUME Nat \ S # {}
             PROVE  FALSE
  OBVIOUS
<1> DEFINE T == Nat \ S
<1>1. PICK x \in T : \A y \in T : ~(y < x)
  BY LeastElement
<1>2. x # 0 /\ x \in Nat
  BY <1>1
<1>3. x - 1 \in Nat /\ x - 1 < x /\ (x - 1) + 1 = x
  BY <1>2
<1> HIDE DEF T
<1>5. x - 1 \notin T
  BY <1>1, <1>3
<1> QED
  BY <1>2, <1>3, <1>5, <1>1 DEF T

(* The last index. *)
last_index == IF number_of_nodes \in Nat THEN number_of_nodes ELSE 0

(* The indexes are an interval from 0; a parent is a smaller index. *)
LEMMA IndexInterval ==
  /\ last_index \in Nat
  /\ Indexes = 0 .. last_index
  /\ Indexes \subseteq Nat
  /\ \A n \in Indexes : parent_idx_by_idx(n) \in Indexes
  /\ \A n \in Nodes : parent_idx_by_idx(n) < n
<1>1. number_of_nodes \in Int
  BY LevelsAssumption DEF number_of_nodes
<1> QED
  BY <1>1 DEF Indexes, Nodes, parent_idx_by_idx, last_index

(* The recursion that defines Path has a solution. *)
LEMMA PathExists ==
  \E f : f = [n \in Indexes |-> IF n = 0 THEN {} ELSE {n} \cup f[parent_idx_by_idx(n)]]
<1> DEFINE Good(f, k) == f = [n \in 0 .. k |-> IF n = 0 THEN {} ELSE {n} \cup f[n \div 2]]
           S == {k \in Nat : \E f : Good(f, k)}
<1>1. 0 \in S
  <2> DEFINE f == [n \in 0 .. 0 |-> {}]
  <2>1. Good(f, 0)
    OBVIOUS
  <2> QED BY <2>1
<1>2. ASSUME NEW k \in Nat, k \in S PROVE k + 1 \in S
  <2>1. PICK f : Good(f, k)
    BY <1>2
  <2> DEFINE g == [n \in 0 .. (k + 1) |-> IF n = k + 1 THEN {k + 1} \cup f[(k + 1) \div 2] ELSE f[n]]
  <2>2. ASSUME NEW n \in 0 .. (k + 1)
        PROVE  g[n] = IF n = 0 THEN {} ELSE {n} \cup g[n \div 2]
    <3>1. CASE n = k + 1
      BY <3>1
    <3>2. CASE n # k + 1
      <4>1. n \in 0 .. k /\ n \div 2 \in 0 .. k
        BY <3>2
      <4>2. f[n] = IF n = 0 THEN {} ELSE {n} \cup f[n \div 2]
        BY <4>1, <2>1
      <4>3. g[n] = f[n] /\ g[n \div 2] = f[n \div 2]
        BY <4>1, <3>2
      <4> QED BY <4>2, <4>3
    <3> QED BY <3>1, <3>2
  <2> HIDE DEF g
  <2>3. g = [n \in 0 .. (k + 1) |-> g[n]]
    BY DEF g
  <2>4. Good(g, k + 1)
    BY <2>2, <2>3
  <2> QED BY <2>4
<1> HIDE DEF S
<1>3. Nat \subseteq S
  BY <1>1, <1>2, SetInduction
<1>4. last_index \in S
  BY <1>3, IndexInterval
<1>5. PICK f : Good(f, last_index)
  BY <1>4 DEF S
<1> QED BY <1>5, IndexInterval DEF parent_idx_by_idx

(* Path is that solution: an index and the path of its parent. *)
LEMMA PathDef ==
  \A n \in Indexes : Path[n] = IF n = 0 THEN {} ELSE {n} \cup Path[parent_idx_by_idx(n)]
<1>1. Path = [n \in Indexes |-> IF n = 0 THEN {} ELSE {n} \cup Path[parent_idx_by_idx(n)]]
  BY PathExists DEF Path
<1> QED BY <1>1

(* A path is finite, never goes up in index, and contains the paths of
   its nodes. *)
LEMMA PathFacts ==
  \A n \in Indexes :
    /\ Path[n] \subseteq Nodes
    /\ \A a \in Path[n] : a <= n /\ Path[a] \subseteq Path[n]
    /\ IsFiniteSet(Path[n])
<1> DEFINE Fine(n) == n \in Indexes =>
             /\ Path[n] \subseteq Nodes
             /\ \A a \in Path[n] : a <= n /\ Path[a] \subseteq Path[n]
             /\ IsFiniteSet(Path[n])
           T == {n \in Nat : ~Fine(n)}
<1> SUFFICES ASSUME T # {}
             PROVE  FALSE
  BY IndexInterval
<1>1. PICK n \in T : \A m \in T : ~(m < n)
  BY LeastElement
<1>2. n \in Indexes /\ ~Fine(n)
  OBVIOUS
<1>3. \A m \in Indexes : m < n => Fine(m)
  BY <1>1, IndexInterval
<1>4. CASE n = 0
  <2>1. Path[n] = {}
    BY <1>2, <1>4, PathDef
  <2> QED BY <1>2, <2>1, FS_EmptySet
<1>5. CASE n # 0
  <2> DEFINE p == parent_idx_by_idx(n)
  <2>1. n \in Nodes /\ p \in Indexes /\ p < n /\ n \in Nat /\ p \in Nat
    BY <1>2, <1>5, IndexInterval DEF Indexes
  <2>2. Fine(p)
    BY <1>3, <2>1
  <2>3. Path[n] = {n} \cup Path[p]
    BY <1>2, <1>5, PathDef
  <2>4. IsFiniteSet(Path[n])
    BY <2>1, <2>2, <2>3, FS_AddElement
  <2>5. Path[n] \subseteq Nodes
    BY <2>1, <2>2, <2>3
  <2>6. ASSUME NEW a \in Path[n] PROVE a <= n /\ Path[a] \subseteq Path[n]
    <3>1. CASE a = n
      BY <3>1, <2>1
    <3>2. CASE a \in Path[p]
      <4>1. a <= p /\ Path[a] \subseteq Path[p] /\ a \in Nat
        BY <3>2, <2>1, <2>2, <2>5, IndexInterval DEF Indexes
      <4> QED BY <4>1, <2>1, <2>3
    <3> QED BY <2>3, <3>1, <3>2
  <2> QED BY <1>2, <2>4, <2>5, <2>6
<1> QED BY <1>4, <1>5

(* The dummy is at level 0 and a node one level below its parent. *)
LEMMA LevelFacts ==
  /\ level_by_idx(0) = 0
  /\ \A n \in Indexes : level_by_idx(n) \in Nat
  /\ \A n \in Nodes : level_by_idx(n) = level_by_idx(parent_idx_by_idx(n)) + 1
<1>1. level_by_idx(0) = 0
  BY PathDef, FS_EmptySet DEF level_by_idx, Level, Indexes
<1>2. ASSUME NEW n \in Indexes PROVE level_by_idx(n) \in Nat
  BY PathFacts, FS_CardinalityType DEF level_by_idx, Level
<1>3. ASSUME NEW n \in Nodes PROVE level_by_idx(n) = level_by_idx(parent_idx_by_idx(n)) + 1
  <2> DEFINE p == parent_idx_by_idx(n)
  <2>1. n \in Indexes /\ p \in Indexes /\ p < n /\ n # 0 /\ n \in Nat /\ p \in Nat
    BY IndexInterval DEF Indexes, Nodes
  <2>2. Path[n] = Path[p] \cup {n}
    BY <2>1, PathDef
  <2>3. n \notin Path[p]
    BY <2>1, PathFacts
  <2>4. IsFiniteSet(Path[p])
    BY <2>1, PathFacts
  <2>5. Cardinality(Path[n]) = Cardinality(Path[p]) + 1
    BY <2>2, <2>3, <2>4, FS_AddElement
  <2> QED BY <2>1, <2>5 DEF level_by_idx, Level
<1> QED BY <1>1, <1>2, <1>3

(* A path starts at its node. *)
LEMMA SelfOnPath == \A n \in Nodes : n \in Path[n] /\ parent_idx_by_idx(n) \in Indexes
                                     /\ Path[n] = {n} \cup Path[parent_idx_by_idx(n)]
<1> SUFFICES ASSUME NEW n \in Nodes
             PROVE  n \in Path[n] /\ parent_idx_by_idx(n) \in Indexes
                                     /\ Path[n] = {n} \cup Path[parent_idx_by_idx(n)]
  OBVIOUS
<1>1. n \in Indexes /\ n # 0
  BY DEF Indexes, Nodes
<1>2. parent_idx_by_idx(n) \in Indexes
  BY <1>1, IndexInterval
<1>3. Path[n] = {n} \cup Path[parent_idx_by_idx(n)]
  BY <1>1, PathDef
<1> QED BY <1>2, <1>3

(* A level never exceeds the index. *)
LEMMA LevelBound == \A n \in Indexes : level_by_idx(n) <= n
<1> DEFINE Fine(n) == n \in Indexes => level_by_idx(n) <= n
           T == {n \in Nat : ~Fine(n)}
<1> SUFFICES ASSUME T # {}
             PROVE  FALSE
  BY IndexInterval
<1>1. PICK n \in T : \A m \in T : ~(m < n)
  BY LeastElement
<1>2. n \in Indexes /\ ~Fine(n) /\ n \in Nat
  OBVIOUS
<1>3. n # 0 /\ n \in Nodes
  BY <1>2, LevelFacts DEF Indexes
<1> DEFINE p == parent_idx_by_idx(n)
<1>4. p \in Indexes /\ p < n /\ p \in Nat
  BY <1>3, IndexInterval DEF Indexes
<1>5. level_by_idx(p) <= p
  BY <1>1, <1>4
<1>6. level_by_idx(n) = level_by_idx(p) + 1 /\ level_by_idx(p) \in Nat
  BY <1>3, <1>4, LevelFacts
<1> HIDE DEF p
<1> QED BY <1>2, <1>4, <1>5, <1>6

(* The nodes above a node have smaller levels. *)
LEMMA LevelOnPath ==
  \A n \in Nodes : \A a \in Path[n] : a # n => level_by_idx(a) < level_by_idx(n)
<1> DEFINE Fine(n) == \A a \in Path[n] : a # n => level_by_idx(a) < level_by_idx(n)
           T == {n \in Nodes : ~Fine(n)}
<1> SUFFICES ASSUME T # {}
             PROVE  FALSE
  OBVIOUS
<1>0. T \subseteq Nat
  BY IndexInterval DEF Indexes
<1>1. PICK n \in T : \A m \in T : ~(m < n)
  BY <1>0, LeastElement
<1>2. n \in Nodes /\ ~Fine(n) /\ n \in Indexes
  BY DEF Indexes
<1> DEFINE p == parent_idx_by_idx(n)
<1>4. p \in Indexes /\ p < n
  BY <1>2, IndexInterval
<1>3. PICK a \in Path[n] : a # n /\ ~(level_by_idx(a) < level_by_idx(n))
  BY <1>2
<1>5. a \in Path[p] /\ a \in Nodes
  BY <1>2, <1>3, SelfOnPath, PathFacts, IndexInterval DEF Indexes
<1>6. p \in Nodes
  BY <1>4, <1>5, PathDef DEF Indexes
<1>7. Fine(p)
  BY <1>1, <1>4, <1>6
<1>8. level_by_idx(n) = level_by_idx(p) + 1
  BY <1>2, LevelFacts
<1>9. level_by_idx(a) \in Nat /\ level_by_idx(p) \in Nat
  BY <1>4, <1>5, LevelFacts DEF Indexes
<1>10. level_by_idx(a) <= level_by_idx(p)
  BY <1>5, <1>7, <1>9
<1> HIDE DEF p
<1> QED BY <1>3, <1>8, <1>9, <1>10

(* Of two nodes on one path the higher is on the path of the lower. *)
LEMMA PathLinear ==
  \A n \in Nodes : \A a, b \in Path[n] :
    level_by_idx(a) <= level_by_idx(b) => a \in Path[b]
<1> DEFINE Fine(n) == \A a, b \in Path[n] : level_by_idx(a) <= level_by_idx(b) => a \in Path[b]
           T == {n \in Nodes : ~Fine(n)}
<1> SUFFICES ASSUME T # {}
             PROVE  FALSE
  OBVIOUS
<1>0. T \subseteq Nat
  BY IndexInterval DEF Indexes
<1>1. PICK n \in T : \A m \in T : ~(m < n)
  BY <1>0, LeastElement
<1>2. n \in Nodes /\ ~Fine(n) /\ n \in Indexes
  BY DEF Indexes
<1> DEFINE p == parent_idx_by_idx(n)
<1>3. PICK a \in Path[n], b \in Path[n] : level_by_idx(a) <= level_by_idx(b) /\ a \notin Path[b]
  BY <1>2
<1>4. p \in Indexes /\ p < n /\ Path[n] = {n} \cup Path[p]
  BY <1>2, IndexInterval, SelfOnPath
<1>5. a \in Nodes /\ b \in Nodes /\ level_by_idx(a) \in Nat /\ level_by_idx(b) \in Nat
      /\ level_by_idx(n) \in Nat
  BY <1>2, PathFacts, LevelFacts DEF Indexes
<1>6. CASE b = n
  BY <1>3, <1>6
<1>7. CASE b # n /\ a = n
  <2>1. level_by_idx(b) < level_by_idx(n)
    BY <1>2, <1>7, LevelOnPath
  <2> QED BY <2>1, <1>3, <1>5, <1>7
<1>8. CASE b # n /\ a # n
  <2>1. a \in Path[p] /\ b \in Path[p]
    BY <1>4, <1>8
  <2>2. p \in Nodes
    BY <1>4, <2>1, PathDef DEF Indexes
  <2>3. Fine(p)
    BY <1>1, <1>4, <2>2
  <2> QED BY <1>3, <2>1, <2>3
<1> QED BY <1>6, <1>7, <1>8

(* The parent is on the path, unless it is the dummy. *)
LEMMA ParentOnPath ==
  \A c \in Nodes : parent_idx_by_idx(c) # 0 =>
     /\ parent_idx_by_idx(c) \in Nodes
     /\ parent_idx_by_idx(c) \in Path[c]
BY IndexInterval, SelfOnPath DEF Indexes

(* Below a node lie the node itself and what is below its two children. *)
LEMMA ChildOnPath ==
  ASSUME NEW p \in Nodes, NEW m \in Nodes
  PROVE  p \in Path[m] <=> m = p \/ 2 * p \in Path[m] \/ 2 * p + 1 \in Path[m]
<1>0. p \in Nat /\ p # 0
  BY IndexInterval DEF Indexes, Nodes
<1>1. ASSUME NEW c \in {2 * p, 2 * p + 1}, c \in Path[m]
      PROVE  p \in Path[m]
  <2>1. c \in Nodes /\ Path[c] \subseteq Path[m]
    BY <1>1, PathFacts DEF Indexes
  <2>2. parent_idx_by_idx(c) = p
    BY <1>0 DEF parent_idx_by_idx
  <2> QED BY <1>0, <2>1, <2>2, ParentOnPath
<1>2. m = p => p \in Path[m]
  BY SelfOnPath
<1>3. \A k \in Nodes : p \in Path[k] => k = p \/ 2 * p \in Path[k] \/ 2 * p + 1 \in Path[k]
  <2> DEFINE Fine(k) == p \in Path[k] => k = p \/ 2 * p \in Path[k] \/ 2 * p + 1 \in Path[k]
             T == {k \in Nodes : ~Fine(k)}
  <2> SUFFICES ASSUME T # {}
               PROVE  FALSE
    OBVIOUS
  <2>0. T \subseteq Nat
    BY IndexInterval DEF Indexes
  <2>1. PICK n \in T : \A k \in T : ~(k < n)
    BY <2>0, LeastElement
  <2>2. n \in Nodes /\ ~Fine(n) /\ n \in Nat
    BY <2>0
  <2> DEFINE q == parent_idx_by_idx(n)
  <2>3. q \in Indexes /\ q < n /\ Path[n] = {n} \cup Path[q]
    BY <2>2, IndexInterval, SelfOnPath
  <2>4. p \in Path[q] /\ q \in Nodes
    BY <2>2, <2>3, PathDef DEF Indexes
  <2>5. q = p \/ 2 * p \in Path[q] \/ 2 * p + 1 \in Path[q]
    BY <2>1, <2>3, <2>4
  <2>6. q = p
    BY <2>2, <2>3, <2>5
  <2>7. n = 2 * p \/ n = 2 * p + 1
    BY <2>2, <2>6, <1>0 DEF parent_idx_by_idx
  <2> QED BY <2>2, <2>3, <2>7
<1> QED BY <1>1, <1>2, <1>3

(* No node is below both children. *)
LEMMA ChildrenApart ==
  ASSUME NEW p \in Nodes, NEW m \in Nodes
  PROVE  ~(2 * p \in Path[m] /\ 2 * p + 1 \in Path[m])
<1> SUFFICES ASSUME 2 * p \in Path[m], 2 * p + 1 \in Path[m]
             PROVE  FALSE
  OBVIOUS
<1>0. p \in Nat
  BY IndexInterval DEF Indexes
<1>1. 2 * p \in Nodes /\ 2 * p + 1 \in Nodes
  BY PathFacts DEF Indexes
<1>2. parent_idx_by_idx(2 * p) = p /\ parent_idx_by_idx(2 * p + 1) = p
  BY <1>0 DEF parent_idx_by_idx
<1>3. level_by_idx(2 * p) = level_by_idx(2 * p + 1) /\ level_by_idx(2 * p) \in Nat
  BY <1>1, <1>2, LevelFacts DEF Indexes
<1>4. 2 * p \in Path[2 * p + 1]
  BY <1>3, PathLinear
<1> QED BY <1>0, <1>1, <1>3, <1>4, LevelOnPath

(***************************************************************************)
(* Powers of two and levels.                                               *)
(***************************************************************************)

(* The powers up to 2^(N + 1) are what they should be. *)
Doubling(N) == \A k \in 0 .. N : 2^(k + 1) = 2 * 2^k

(* Powers of two are positive. *)
LEMMA PowersPositive ==
  ASSUME NEW N \in Nat, Doubling(N)
  PROVE  \A k \in 0 .. (N + 1) : 2^k \in Nat /\ 2^k >= 1
<1> DEFINE S == {k \in Nat : k <= N + 1 => 2^k \in Nat /\ 2^k >= 1}
<1>1. 0 \in S
  <2>1. 2^0 = 1
    OBVIOUS
  <2> QED BY <2>1
<1>2. ASSUME NEW k \in Nat, k \in S PROVE k + 1 \in S
  <2> SUFFICES ASSUME k + 1 <= N + 1 PROVE 2^(k + 1) \in Nat /\ 2^(k + 1) >= 1
    OBVIOUS
  <2>1. k \in 0 .. N /\ k <= N + 1
    OBVIOUS
  <2>2. 2^k \in Nat /\ 2^k >= 1
    BY <1>2, <2>1
  <2>3. 2^(k + 1) = 2 * 2^k
    BY <2>1 DEF Doubling
  <2> QED BY <2>2, <2>3
<1> HIDE DEF S
<1>3. Nat \subseteq S
  BY <1>1, <1>2, SetInduction
<1> QED BY <1>3 DEF S

(* 2^(j + k) = 2^j * 2^k. *)
LEMMA PowersMultiply ==
  ASSUME NEW N \in Nat, Doubling(N), NEW j \in Nat
  PROVE  \A k \in Nat : j + k <= N + 1 => 2^(j + k) = 2^j * 2^k
<1> DEFINE S == {k \in Nat : j + k <= N + 1 => 2^(j + k) = 2^j * 2^k}
<1>0. \A k \in 0 .. (N + 1) : 2^k \in Nat
  BY PowersPositive
<1>1. 0 \in S
  <2> SUFFICES ASSUME j + 0 <= N + 1 PROVE 2^(j + 0) = 2^j * 2^0
    OBVIOUS
  <2>1. 2^0 = 1 /\ j + 0 = j /\ 2^j \in Nat
    BY <1>0
  <2> QED BY <2>1
<1>2. ASSUME NEW k \in Nat, k \in S PROVE k + 1 \in S
  <2> SUFFICES ASSUME j + (k + 1) <= N + 1 PROVE 2^(j + (k + 1)) = 2^j * 2^(k + 1)
    OBVIOUS
  <2>1. k \in 0 .. N /\ j + k \in 0 .. N /\ j + (k + 1) = (j + k) + 1 /\ j \in 0 .. (N + 1)
    OBVIOUS
  <2>2. 2^(k + 1) = 2 * 2^k /\ 2^((j + k) + 1) = 2 * 2^(j + k)
    BY <2>1 DEF Doubling
  <2>3. 2^(j + k) = 2^j * 2^k
    BY <1>2, <2>1
  <2>4. 2^j \in Nat /\ 2^k \in Nat
    BY <1>0, <2>1
  <2>5. \A a, b \in Nat : 2 * (a * b) = a * (2 * b)
    OBVIOUS
  <2> QED BY <2>1, <2>2, <2>3, <2>4, <2>5
<1> HIDE DEF S
<1>3. Nat \subseteq S
  BY <1>1, <1>2, SetInduction
<1> QED BY <1>3 DEF S

(* A larger exponent gives at least twice the power. *)
LEMMA PowersGrow ==
  ASSUME NEW N \in Nat, Doubling(N), NEW j \in Nat, NEW k \in Nat, k <= N + 1
  PROVE  /\ j <= k => 2^j <= 2^k
         /\ j < k  => 2 * 2^j <= 2^k
<1>0. \A i \in 0 .. (N + 1) : 2^i \in Nat /\ 2^i >= 1
  BY PowersPositive
<1> DEFINE S == {i \in Nat : j + i <= N + 1 =>
                    2^j <= 2^(j + i) /\ (i > 0 => 2 * 2^j <= 2^(j + i))}
<1>1. 0 \in S
  <2> SUFFICES ASSUME j + 0 <= N + 1 PROVE 2^j <= 2^(j + 0)
    OBVIOUS
  <2>1. j + 0 = j /\ 2^j \in Nat
    BY <1>0
  <2> QED BY <2>1
<1>2. ASSUME NEW i \in Nat, i \in S PROVE i + 1 \in S
  <2> SUFFICES ASSUME j + (i + 1) <= N + 1
               PROVE  2^j <= 2^(j + (i + 1)) /\ 2 * 2^j <= 2^(j + (i + 1))
    OBVIOUS
  <2>1. j + i \in 0 .. N /\ j + (i + 1) = (j + i) + 1 /\ j \in 0 .. (N + 1)
    OBVIOUS
  <2>2. 2^((j + i) + 1) = 2 * 2^(j + i)
    BY <2>1 DEF Doubling
  <2>3. 2^j <= 2^(j + i)
    BY <1>2, <2>1
  <2>4. 2^j \in Nat /\ 2^(j + i) \in Nat
    BY <1>0, <2>1
  <2> QED BY <2>1, <2>2, <2>3, <2>4
<1> HIDE DEF S
<1>3. Nat \subseteq S
  BY <1>1, <1>2, SetInduction
<1>4. ASSUME j <= k PROVE k - j \in S /\ j + (k - j) = k
  BY <1>3, <1>4
<1> QED BY <1>4 DEF S

(* The powers a tree of this height uses. *)
LEMMA TreePowers ==
  /\ NUM_LEVELS \in Nat /\ NUM_LEVELS >= 1
  /\ NUM_LEVELS - 1 \in Nat /\ Doubling(NUM_LEVELS - 1)
  /\ \A k \in 0 .. NUM_LEVELS : 2^k \in Nat /\ 2^k >= 1
  /\ \A k \in 0 .. (NUM_LEVELS - 1) : 2^(k + 1) = 2 * 2^k
  /\ number_of_nodes \in Nat /\ number_of_nodes = 2^NUM_LEVELS - 1
<1>1. NUM_LEVELS \in Nat /\ NUM_LEVELS >= 1 /\ NUM_LEVELS - 1 \in Nat
  BY LevelsAssumption
<1>2. Doubling(NUM_LEVELS - 1)
  BY PowersAssumption DEF Doubling
<1>3. \A k \in 0 .. NUM_LEVELS : 2^k \in Nat /\ 2^k >= 1
  <2>1. (NUM_LEVELS - 1) + 1 = NUM_LEVELS
    BY <1>1
  <2> QED BY <1>1, <1>2, <2>1, PowersPositive
<1>4. 2^NUM_LEVELS \in Nat /\ 2^NUM_LEVELS >= 1
  BY <1>1, <1>3
<1> QED BY <1>1, <1>2, <1>3, <1>4, PowersAssumption DEF number_of_nodes

(* The nodes of level l are 2^(l - 1) .. 2^l - 1. *)
LEMMA LevelRange ==
  ASSUME NEW n \in Nodes
  PROVE  /\ level_by_idx(n) \in 1 .. NUM_LEVELS
         /\ 2^(level_by_idx(n) - 1) <= n /\ n < 2^level_by_idx(n)
<1> DEFINE Fine(m) == /\ level_by_idx(m) \in 1 .. NUM_LEVELS
                      /\ 2^(level_by_idx(m) - 1) <= m /\ m < 2^level_by_idx(m)
           T == {m \in Nodes : ~Fine(m)}
<1> SUFFICES ASSUME T # {}
             PROVE  FALSE
  OBVIOUS
<1>0. T \subseteq Nat /\ Nodes \subseteq Nat
  BY IndexInterval DEF Indexes
<1>1. PICK m \in T : \A k \in T : ~(k < m)
  BY <1>0, LeastElement
<1>2. m \in Nodes /\ ~Fine(m) /\ m \in Nat /\ m >= 1 /\ m < 2^NUM_LEVELS
  BY <1>0, TreePowers DEF Nodes
<1> DEFINE p == parent_idx_by_idx(m)
<1>3. p \in Indexes /\ p < m /\ level_by_idx(m) = level_by_idx(p) + 1
  BY <1>2, IndexInterval, LevelFacts DEF Indexes
<1>4. p \in Nat /\ (m = 2 * p \/ m = 2 * p + 1)
  BY <1>2 DEF parent_idx_by_idx
<1> HIDE DEF Fine, p
<1>5. CASE p = 0
  <2>1. m = 1 /\ level_by_idx(m) = 1
    BY <1>2, <1>3, <1>4, <1>5, LevelFacts
  <2>2. 2^0 = 1 /\ 2^1 = 2 /\ 1 - 1 = 0
    OBVIOUS
  <2>3. level_by_idx(m) - 1 = 0 /\ 1 \in 1 .. NUM_LEVELS
    BY <2>1, TreePowers
  <2>4. 2^level_by_idx(m) = 2 /\ 2^(level_by_idx(m) - 1) = 1
    BY <2>1, <2>2, <2>3
  <2>5. Fine(m)
    BY <2>1, <2>3, <2>4 DEF Fine
  <2> QED BY <2>5, <1>2
<1>6. CASE p # 0
  <2> DEFINE l == level_by_idx(p)
  <2>1. p \in Nodes
    BY <1>3, <1>6 DEF Indexes
  <2>2. Fine(p)
    BY <1>1, <1>3, <2>1
  <2>3. l \in 1 .. NUM_LEVELS /\ 2^(l - 1) <= p /\ p < 2^l
    BY <2>2 DEF Fine
  <2>4. l # NUM_LEVELS
    <3> SUFFICES ASSUME l = NUM_LEVELS PROVE FALSE
      OBVIOUS
    <3>1. NUM_LEVELS - 1 \in 0 .. (NUM_LEVELS - 1) /\ (NUM_LEVELS - 1) + 1 = NUM_LEVELS
      BY TreePowers
    <3>2. 2^NUM_LEVELS = 2 * 2^(NUM_LEVELS - 1) /\ 2^(NUM_LEVELS - 1) \in Nat
      BY <3>1, TreePowers
    <3>3. 2^(NUM_LEVELS - 1) <= p
      BY <2>3
    <3> QED BY <3>2, <3>3, <1>2, <1>4
  <2>5. l - 1 \in 0 .. (NUM_LEVELS - 1) /\ l \in 0 .. (NUM_LEVELS - 1) /\ (l - 1) + 1 = l
    BY <2>3, <2>4, TreePowers
  <2> HIDE DEF l
  <2>6. 2^l = 2 * 2^(l - 1) /\ 2^(l + 1) = 2 * 2^l /\ 2^l \in Nat /\ 2^(l - 1) \in Nat
    BY <2>5, TreePowers
  <2>7. level_by_idx(m) = l + 1 /\ (l + 1) - 1 = l
    BY <1>3, <2>5 DEF l
  <2>8. 2^l <= m /\ m < 2^(l + 1)
    BY <1>4, <2>3, <2>6, <1>2
  <2>9. l + 1 \in 1 .. NUM_LEVELS /\ level_by_idx(m) - 1 = l
    BY <2>5, <2>7, TreePowers
  <2>10. Fine(m)
    BY <2>7, <2>8, <2>9 DEF Fine
  <2> QED BY <2>10, <1>2
<1> QED BY <1>5, <1>6

(* That range belongs to the level. *)
LEMMA LevelOfRange ==
  ASSUME NEW l \in 1 .. NUM_LEVELS, NEW n \in Nat, 2^(l - 1) <= n, n < 2^l
  PROVE  n \in Nodes /\ level_by_idx(n) = l
<1>1. l - 1 \in 0 .. NUM_LEVELS /\ l \in 0 .. NUM_LEVELS /\ l \in Nat /\ l - 1 \in Nat
  BY TreePowers
<1>2. 2^l \in Nat /\ 2^(l - 1) \in Nat /\ 2^(l - 1) >= 1
  BY <1>1, TreePowers
<1>3. 2^l <= 2^NUM_LEVELS
  BY <1>1, TreePowers, PowersGrow
<1>4. n \in Nodes
  BY <1>2, <1>3, TreePowers DEF Nodes
<1> DEFINE k == level_by_idx(n)
<1>5. k \in 1 .. NUM_LEVELS /\ 2^(k - 1) <= n /\ n < 2^k
  BY <1>4, LevelRange
<1> HIDE DEF k
<1>6. k - 1 \in 0 .. NUM_LEVELS /\ k \in 0 .. NUM_LEVELS /\ k \in Nat /\ k - 1 \in Nat
  BY <1>5, TreePowers
<1>7. 2^k \in Nat /\ 2^(k - 1) \in Nat
  BY <1>6, TreePowers
<1>8. CASE k < l
  <2>1. 2^k <= 2^(l - 1)
    BY <1>1, <1>6, <1>8, TreePowers, PowersGrow
  <2> QED BY <2>1, <1>2, <1>5, <1>7
<1>9. CASE l < k
  <2>1. 2^l <= 2^(k - 1)
    BY <1>1, <1>6, <1>9, TreePowers, PowersGrow
  <2> QED BY <2>1, <1>2, <1>5, <1>7
<1> QED BY <1>1, <1>4, <1>6, <1>8, <1>9 DEF k

(* The nodes d levels below m are m * 2^d .. (m + 1) * 2^d - 1. *)
LEMMA Descendants ==
  ASSUME NEW m \in Nodes, NEW n \in Nodes
  PROVE  m \in Path[n] <=>
           LET d == level_by_idx(n) - level_by_idx(m)
           IN d \in Nat /\ m * 2^d <= n /\ n < (m + 1) * 2^d
<1> DEFINE D(k) == level_by_idx(k) - level_by_idx(m)
           Fine(k) == m \in Path[k] <=> D(k) \in Nat /\ m * 2^D(k) <= k /\ k < (m + 1) * 2^D(k)
           T == {k \in Nodes : ~Fine(k)}
<1> SUFFICES ASSUME T # {}
             PROVE  FALSE
  OBVIOUS
<1>0. T \subseteq Nat /\ Nodes \subseteq Nat
  BY IndexInterval DEF Indexes
<1>1. PICK k \in T : \A j \in T : ~(j < k)
  BY <1>0, LeastElement
<1>2. k \in Nodes /\ ~Fine(k) /\ k \in Nat /\ m \in Nat /\ m >= 1
  BY <1>0 DEF Nodes
<1> DEFINE p == parent_idx_by_idx(k)
<1>3. p \in Indexes /\ p < k /\ Path[k] = {k} \cup Path[p] /\ level_by_idx(k) = level_by_idx(p) + 1
  BY <1>2, IndexInterval, SelfOnPath, LevelFacts
<1>4. p \in Nat /\ (k = 2 * p \/ k = 2 * p + 1)
  BY <1>2 DEF parent_idx_by_idx
<1>5. /\ level_by_idx(k) \in 1 .. NUM_LEVELS /\ level_by_idx(m) \in 1 .. NUM_LEVELS
      /\ level_by_idx(p) \in Nat
  BY <1>2, <1>3, LevelRange, LevelFacts
<1>6. 2^0 = 1
  OBVIOUS
<1>7. CASE k = m
  <2>1. D(k) = 0 /\ m \in Path[k]
    BY <1>2, <1>5, <1>7, SelfOnPath
  <2>2. m * 2^D(k) = m /\ (m + 1) * 2^D(k) = m + 1
    <3>1. 2^D(k) = 1
      BY <2>1, <1>6
    <3> HIDE DEF D
    <3> QED BY <3>1, <1>2
  <2> HIDE DEF D
  <2>3. D(k) \in Nat /\ m * 2^D(k) <= k /\ k < (m + 1) * 2^D(k)
    BY <2>1, <2>2, <1>2, <1>7
  <2> QED BY <2>1, <2>3, <1>2
<1>8. CASE k # m /\ ~(level_by_idx(m) < level_by_idx(k))
  <2>1. m \notin Path[k]
    BY <1>2, <1>8, LevelOnPath
  <2>2. D(k) \in Nat => D(k) = 0
    BY <1>5, <1>8
  <2>3. ASSUME D(k) = 0, m * 2^D(k) <= k, k < (m + 1) * 2^D(k)
        PROVE  k = m
    <3>1. 2^D(k) = 1
      BY <2>3, <1>6
    <3> HIDE DEF D
    <3>2. m * 2^D(k) = m /\ (m + 1) * 2^D(k) = m + 1
      BY <3>1, <1>2
    <3> QED BY <2>3, <3>2, <1>2
  <2> QED BY <2>1, <2>2, <2>3, <1>2, <1>8
<1>9. CASE k # m /\ level_by_idx(m) < level_by_idx(k)
  <2>1. D(k) = D(p) + 1 /\ D(p) \in Nat /\ D(p) \in 0 .. (NUM_LEVELS - 1)
    BY <1>3, <1>5, <1>9, TreePowers
  <2>2. p # 0 /\ p \in Nodes
    <3>1. level_by_idx(p) # 0
      BY <1>3, <1>5, <1>9
    <3> QED BY <3>1, <1>3, LevelFacts DEF Indexes
  <2>3. Fine(p)
    BY <1>1, <1>3, <2>2
  <2> DEFINE x == 2^D(p)
             y == 2^D(k)
  <2>4. y = 2 * x /\ x \in Nat
    BY <2>1, TreePowers
  <2>5. m \in Path[k] <=> m \in Path[p]
    BY <1>3, <1>9
  <2>6. m \in Path[p] <=> m * x <= p /\ p < (m + 1) * x
    BY <2>1, <2>3
  <2>7. ~(m \in Path[k] <=> m * y <= k /\ k < (m + 1) * y)
    BY <1>2, <2>1
  <2> HIDE DEF x, y, D, Fine, T, p
  <2>8. m * y = 2 * (m * x) /\ (m + 1) * y = 2 * ((m + 1) * x)
    <3>1. \A a, b \in Nat : a * (2 * b) = 2 * (a * b)
      OBVIOUS
    <3> QED BY <3>1, <2>4, <1>2
  <2>9. m * x \in Nat /\ (m + 1) * x \in Nat
    BY <2>4, <1>2
  <2> DEFINE a == m * x
             c == (m + 1) * x
  <2>10. a \in Nat /\ c \in Nat /\ m * y = 2 * a /\ (m + 1) * y = 2 * c
    BY <2>8, <2>9
  <2>11. (a <= p /\ p < c) <=> (2 * a <= k /\ k < 2 * c)
    <3> HIDE DEF a, c
    <3> QED BY <2>10, <1>4
  <2> QED BY <2>5, <2>6, <2>7, <2>10, <2>11
<1> QED BY <1>5, <1>7, <1>8, <1>9
=============================================================================
