----------------------------- MODULE BuddySLProofs -----------------------------
(***************************************************************************)
(* Proofs about BuddySL, for an arena of any number of levels and any      *)
(* requests.                                                               *)
(***************************************************************************)
EXTENDS BuddySL, NaturalsInduction, WellFoundedInduction, TLAPS

(***************************************************************************)
(* Part 1.  The nodes and their cells.                                     *)
(***************************************************************************)

(* A non-empty set of natural numbers has a least element. *)
LEMMA Least ==
  ASSUME NEW U, U \subseteq Nat, U # {}
  PROVE  \E x \in U : \A y \in U : x <= y
<1> DEFINE R == {ss \in Nat \X Nat : ss[1] < ss[2]}
<1>1. IsWellFoundedOn(R, Nat)
  BY NatLessThanWellFounded DEF OpToRel
<1>2. PICK x \in U : \A y \in U : ~(<<y, x>> \in R)
  BY <1>1, WFMin
<1>3. ASSUME NEW y \in U
      PROVE  x <= y
  <2>1. x \in Nat /\ y \in Nat /\ ~(<<y, x>> \in R)
    BY <1>2
  <2> QED
    BY <2>1
<1> QED
  BY <1>3

LEMMA MaxLevel == max_level \in Nat /\ NUM_LEVELS = max_level + 1
BY BuddySLAssumption DEF max_level

(* The powers of two grow. *)
LEMMA PowersGrow == \A k \in 0 .. NUM_LEVELS + 1 : 2^k \in Nat /\ 2^k >= 1
<1> DEFINE Bad == {k \in 0 .. NUM_LEVELS + 1 : ~(2^k \in Nat /\ 2^k >= 1)}
<1>1. Bad \subseteq Nat /\ 0 \notin Bad
  <2>1. 2^0 = 1
    OBVIOUS
  <2> QED
    BY <2>1
<1> HIDE DEF Bad
<1> SUFFICES ASSUME Bad # {}
             PROVE  FALSE
  BY DEF Bad
<1>2. PICK k \in Bad : \A l \in Bad : k <= l
  BY <1>1, Least
<1>3. k # 0 /\ k \in 0 .. NUM_LEVELS + 1 /\ NUM_LEVELS \in Nat
  BY <1>1, <1>2, BuddySLAssumption DEF Bad
<1>4. k - 1 \in 0 .. NUM_LEVELS /\ k - 1 \in 0 .. NUM_LEVELS + 1 /\ ~(k <= k - 1)
  BY <1>3
<1>5. 2^(k - 1) \in Nat /\ 2^(k - 1) >= 1
  BY <1>2, <1>4 DEF Bad
<1>6. 2^((k - 1) + 1) = 2 * 2^(k - 1) /\ (k - 1) + 1 = k
  BY <1>3, <1>4, BuddyPowersAssumption
<1>7. 2^k \in Nat /\ 2^k >= 1
  BY <1>5, <1>6
<1> QED
  BY <1>2, <1>7 DEF Bad

LEMMA PowerStep ==
  ASSUME NEW k \in 0 .. NUM_LEVELS
  PROVE  /\ k \in Nat /\ k + 1 \in 0 .. NUM_LEVELS + 1
         /\ 2^k \in Nat /\ 2^k >= 1 /\ 2^(k + 1) = 2 * 2^k /\ 2^(k + 1) \in Nat
<1>1. NUM_LEVELS \in Nat
  BY BuddySLAssumption
<1>2. k \in Nat /\ k \in 0 .. NUM_LEVELS + 1 /\ k + 1 \in 0 .. NUM_LEVELS + 1
  BY <1>1
<1> QED
  BY <1>2, PowersGrow, BuddyPowersAssumption

LEMMA PowersApart ==
  ASSUME NEW k \in 0 .. NUM_LEVELS, NEW l \in 0 .. NUM_LEVELS, k < l
  PROVE  2 * 2^k <= 2^l
<1>1. NUM_LEVELS \in Nat /\ k \in Nat
  BY BuddySLAssumption
<1> DEFINE Bad == {m \in 0 .. NUM_LEVELS : k < m /\ ~(2 * 2^k <= 2^m)}
<1>2. Bad \subseteq Nat
  BY <1>1
<1> HIDE DEF Bad
<1> SUFFICES ASSUME Bad # {}
             PROVE  FALSE
  BY DEF Bad
<1>3. PICK m \in Bad : \A j \in Bad : m <= j
  BY <1>2, Least
<1>4. m \in 0 .. NUM_LEVELS /\ k < m /\ ~(2 * 2^k <= 2^m)
  BY <1>3 DEF Bad
<1>5. m - 1 \in 0 .. NUM_LEVELS /\ (m - 1) + 1 = m /\ ~(m <= m - 1)
  BY <1>1, <1>4
<1>6. m - 1 \notin Bad
  BY <1>3, <1>5
<1>7. /\ 2^m = 2 * 2^(m - 1) /\ 2^(m - 1) \in Nat
      /\ 2^k \in Nat /\ 2^(k + 1) = 2 * 2^k
  BY <1>5, PowerStep
<1>8. CASE k = m - 1
  BY <1>4, <1>7, <1>8
<1>9. CASE k < m - 1
  <2>1. 2 * 2^k <= 2^(m - 1)
    BY <1>5, <1>6, <1>9 DEF Bad
  <2>2. 2 * 2^k <= 2^m
    BY <1>7, <2>1
  <2> QED
    BY <1>4, <2>2
<1> QED
  BY <1>1, <1>4, <1>8, <1>9

(* A row of the tree times the size of its nodes is the arena. *)
LEMMA RowsFill == \A l \in 0 .. max_level : 2^l * 2^(max_level - l) = Cells
<1>1. max_level \in Nat /\ NUM_LEVELS = max_level + 1
  BY MaxLevel
<1> DEFINE Bad == {l \in 0 .. max_level : 2^l * 2^(max_level - l) # Cells}
<1>2. Bad \subseteq Nat
  BY <1>1
<1>3. 0 \notin Bad
  <2>1. 2^0 = 1 /\ max_level - 0 = max_level
    BY <1>1
  <2>2. Cells \in Nat
    BY <1>1, PowerStep DEF Cells
  <2> QED
    BY <2>1, <2>2 DEF Cells
<1> HIDE DEF Bad
<1> SUFFICES ASSUME Bad # {}
             PROVE  FALSE
  BY DEF Bad
<1>4. PICK l \in Bad : \A k \in Bad : l <= k
  BY <1>2, Least
<1>5. l \in 0 .. max_level /\ l # 0
  BY <1>3, <1>4 DEF Bad
<1>6. l - 1 \in 0 .. max_level /\ (l - 1) + 1 = l /\ ~(l <= l - 1)
  BY <1>1, <1>5
<1>7. 2^(l - 1) * 2^(max_level - (l - 1)) = Cells
  BY <1>4, <1>6 DEF Bad
<1>8. 2^l = 2 * 2^(l - 1) /\ 2^(l - 1) \in Nat
  BY <1>1, <1>6, PowerStep
<1>9. /\ max_level - l \in 0 .. NUM_LEVELS
      /\ max_level - (l - 1) = (max_level - l) + 1
  BY <1>1, <1>5
<1>10. /\ 2^(max_level - l) \in Nat
       /\ 2^((max_level - l) + 1) = 2 * 2^(max_level - l)
  BY <1>9, PowerStep
<1>11. 2^(l - 1) * (2 * 2^(max_level - l)) = Cells
  BY <1>7, <1>9, <1>10
<1>12. \A a, b \in Nat : a * (2 * b) = (2 * a) * b
  OBVIOUS
<1>13. 2^l * 2^(max_level - l) = Cells
  BY <1>8, <1>10, <1>11, <1>12
<1> QED
  BY <1>4, <1>13 DEF Bad

(* The level of a node. *)
LEMMA LevelFacts ==
  ASSUME NEW i \in NodeIndexes
  PROVE  /\ LevelOf(i) \in 0 .. max_level
         /\ 2^LevelOf(i) <= i + 1 /\ i + 1 < 2 * 2^LevelOf(i)
<1>1. max_level \in Nat /\ NUM_LEVELS = max_level + 1
  BY MaxLevel
<1>2. 2^NUM_LEVELS = 2 * Cells /\ Cells \in Nat /\ Cells >= 1
  BY <1>1, PowerStep DEF Cells
<1>3. i \in Nat /\ i + 1 < 2^NUM_LEVELS
  BY <1>2 DEF NodeIndexes
<1> DEFINE Beyond == {l \in 0 .. max_level : i + 1 < 2^(l + 1)}
<1>4. Beyond \subseteq Nat /\ max_level \in Beyond
  BY <1>1, <1>3
<1> HIDE DEF Beyond
<1>5. PICK l \in Beyond : \A k \in Beyond : l <= k
  BY <1>4, Least
<1>6. l \in 0 .. max_level /\ i + 1 < 2^(l + 1)
  BY <1>5 DEF Beyond
<1>7. 2^l <= i + 1
  <2>1. CASE l = 0
    <3>1. 2^0 = 1
      OBVIOUS
    <3> QED
      BY <1>3, <2>1, <3>1
  <2>2. CASE l # 0
    <3>1. l - 1 \in 0 .. max_level /\ (l - 1) + 1 = l /\ ~(l <= l - 1)
      BY <1>1, <1>6, <2>2
    <3>2. ~(i + 1 < 2^l)
      <4>1. l - 1 \notin Beyond
        BY <1>5, <3>1
      <4> QED
        BY <3>1, <4>1 DEF Beyond
    <3>3. 2^l \in Nat
      BY <1>1, <1>6, PowerStep
    <3> QED
      BY <1>3, <3>2, <3>3
  <2> QED
    BY <2>1, <2>2
<1>8. /\ LevelOf(i) \in 0 .. max_level
      /\ 2^LevelOf(i) <= i + 1 /\ i + 1 < 2^(LevelOf(i) + 1)
  BY <1>6, <1>7 DEF LevelOf
<1>9. LevelOf(i) \in 0 .. NUM_LEVELS
  BY <1>1, <1>8
<1> QED
  BY <1>8, <1>9, PowerStep

LEMMA LevelUnique ==
  ASSUME NEW i \in NodeIndexes, NEW l \in 0 .. max_level, 2^l <= i + 1, i + 1 < 2 * 2^l
  PROVE  LevelOf(i) = l
<1> DEFINE k == LevelOf(i)
<1>1. k \in 0 .. max_level /\ 2^k <= i + 1 /\ i + 1 < 2 * 2^k
  BY LevelFacts
<1>2. i \in Nat
  BY DEF NodeIndexes
<1>3. max_level \in Nat /\ NUM_LEVELS = max_level + 1
  BY MaxLevel
<1> HIDE DEF k
<1>4. k \in 0 .. NUM_LEVELS /\ l \in 0 .. NUM_LEVELS
  BY <1>1, <1>3
<1>5. 2^k \in Nat /\ 2^l \in Nat
  BY <1>4, PowerStep
<1>6. ~(k < l)
  BY <1>1, <1>2, <1>4, <1>5, PowersApart
<1>7. ~(l < k)
  BY <1>1, <1>2, <1>4, <1>5, PowersApart
<1> QED
  BY <1>4, <1>6, <1>7 DEF k

(* Later nodes are not on earlier levels. *)
LEMMA LevelsAscend ==
  ASSUME NEW a \in NodeIndexes, NEW i \in NodeIndexes, a < i
  PROVE  LevelOf(a) <= LevelOf(i)
<1> DEFINE k == LevelOf(a)
           l == LevelOf(i)
<1>1. /\ k \in 0 .. max_level /\ 2^k <= a + 1
      /\ l \in 0 .. max_level /\ i + 1 < 2 * 2^l
  BY LevelFacts
<1>2. i \in Nat /\ a \in Nat /\ max_level \in Nat /\ NUM_LEVELS = max_level + 1
  BY MaxLevel DEF NodeIndexes
<1> HIDE DEF k, l
<1>3. k \in 0 .. NUM_LEVELS /\ l \in 0 .. NUM_LEVELS
  BY <1>1, <1>2
<1>4. 2^k \in Nat /\ 2^l \in Nat
  BY <1>3, PowerStep
<1>5. ~(l < k)
  BY <1>1, <1>2, <1>3, <1>4, PowersApart
<1> QED
  BY <1>3, <1>5 DEF k, l

(***************************************************************************)
(* Part 2.  The invariant.                                                 *)
(***************************************************************************)

CellsAt(i) == CellsOf(RegionOf(i))

Above(i) == {a \in NodeIndexes : a < i /\ CellsAt(i) \subseteq CellsAt(a)}

OnPath(i, n) == i = n \/ i \in Above(n)

Reachable(i) == \A a \in Above(i) : tree[a] \in {"SPLIT", "FULL"}

(* Cells and states, for the regions of a set G.                           *)
CellsIn(G) == UNION {CellsOf(r) : r \in G}

Free(i, G) == CellsAt(i) \cap CellsIn(G) = {}

Covered(i, G) == CellsAt(i) \subseteq CellsIn(G)

StateFor(i, G) ==
  IF RegionOf(i) \in G THEN "USED"
  ELSE IF Free(i, G) THEN "UNUSED"
  ELSE IF Covered(i, G) THEN "FULL"
  ELSE "SPLIT"

Shows(i, G) == Reachable(i) => tree[i] = StateFor(i, G)

ExactFor(G) == \A i \in NodeIndexes : Shows(i, G)

With(n) == given \cup {RegionOf(n)}

GivenInv ==
  /\ \A r \in given : \E n \in NodeIndexes : r = RegionOf(n)
  /\ \A q, r \in given : q # r => CellsOf(q) \cap CellsOf(r) = {}

SizeInv == size \in {2^k : k \in 0 .. max_level}

(* The search has been everywhere on the left in vain.  The nodes split on *)
(* the way down to the present one are free.                               *)
Looking ==
  /\ index \in NodeIndexes /\ Reachable(index)
  /\ level = LevelOf(index) /\ length = RegionOf(index).size
  /\ SizeInv /\ size <= length

SearchInv ==
  /\ Looking
  /\ \A m \in FreeNodes(size) : RegionOf(m).addr >= RegionOf(index).addr
  /\ \A i \in NodeIndexes :
       \/ Shows(i, given)
       \/ (i \in Above(index) /\ tree[i] = "SPLIT" /\ Free(i, given))

ClimbInv ==
  /\ Looking /\ ~IsOdd(index)
  /\ \A m \in FreeNodes(size) : RegionOf(m).addr >= RegionOf(index).addr + length
  /\ ExactFor(given)

(* The block is taken; the nodes above runner do not show it yet. *)
MarkInv ==
  /\ Looking /\ size = length /\ Free(index, given)
  /\ \A m \in FreeNodes(size) : RegionOf(m).addr >= RegionOf(index).addr
  /\ runner \in NodeIndexes /\ OnPath(runner, index) /\ Covered(runner, With(index))
  /\ \A a \in Above(runner) : tree[a] = "SPLIT"
  /\ \A i \in NodeIndexes \ Above(runner) : Shows(i, With(index))

NullInv == ExactFor(given) /\ (size = 0 \/ FreeNodes(size) = {})

(* A release: n is the node of the region. *)
LocateInv(n) ==
  /\ Free(n, given) /\ ExactFor(With(n))
  /\ offset = RegionOf(n).addr
  /\ index \in NodeIndexes /\ OnPath(index, n)
  /\ left = RegionOf(index).addr /\ length = RegionOf(index).size

CombineInv(n) ==
  /\ ExactFor(With(n))
  /\ index \in NodeIndexes /\ OnPath(index, n) /\ Free(index, given)

(* The nodes from index to the root still show the region released.        *)
UnfullInv(n) ==
  /\ Free(n, given)
  /\ index # -1 => index \in Above(n) /\ Reachable(index) /\ ~Free(index, given)
  /\ \A i \in NodeIndexes :
       IF index # -1 /\ OnPath(i, index) THEN Shows(i, With(n)) ELSE Shows(i, given)

BuddyInv ==
  /\ TypeOK /\ GivenInv
  /\ pc = "idle" => ExactFor(given) /\ size = 0 /\ left = 0
  /\ pc = "search" => SearchInv
  /\ pc = "climb" => ClimbInv
  /\ pc = "mark" => MarkInv
  /\ pc = "null" => NullInv
  /\ pc = "locate" => \E n \in NodeIndexes : LocateInv(n)
  /\ pc = "combine" => \E n \in NodeIndexes : CombineInv(n)
  /\ pc = "unfull" => \E n \in NodeIndexes : UnfullInv(n)
  /\ pc # "aborted"

(***************************************************************************)
(* Part 3.  Where the nodes lie.                                           *)
(***************************************************************************)

LEMMA Products ==
  /\ \A x, y, z \in Nat : x + 1 <= y => x * z + z <= y * z
  /\ \A x, z \in Nat : x * (2 * z) = (2 * x) * z
  /\ \A x, z \in Nat : (x + 1) * z = x * z + z
  /\ \A x, z \in Nat : x * z \in Nat
<1>1. \A x, z \in Nat : x * z \in Nat
  OBVIOUS
<1>2. \A x, z \in Nat : x * (2 * z) = (2 * x) * z
  OBVIOUS
<1>3. \A x, z \in Nat : (x + 1) * z = x * z + z
  OBVIOUS
<1>4. ASSUME NEW x \in Nat, NEW y \in Nat, NEW z \in Nat, x + 1 <= y
      PROVE  x * z + z <= y * z
  <2> DEFINE d == y - (x + 1)
  <2>1. d \in Nat /\ y = (x + 1) + d
    BY <1>4
  <2> HIDE DEF d
  <2>2. y * z = (x + 1) * z + d * z
    BY <2>1
  <2>3. d * z \in Nat /\ x * z \in Nat /\ (x + 1) * z = x * z + z
    BY <1>1, <1>3, <2>1
  <2> QED
    BY <2>2, <2>3
<1> QED
  BY <1>1, <1>2, <1>3, <1>4

LEMMA NodeFacts ==
  ASSUME NEW i \in NodeIndexes
  PROVE  /\ i \in Nat
         /\ RegionOf(i).size = 2^(max_level - LevelOf(i))
         /\ RegionOf(i).addr = ((i + 1) - 2^LevelOf(i)) * 2^(max_level - LevelOf(i))
         /\ (i + 1) - 2^LevelOf(i) \in Nat /\ 2^LevelOf(i) \in Nat
         /\ RegionOf(i).size \in Nat /\ RegionOf(i).size >= 1
         /\ RegionOf(i).addr \in Nat /\ RegionOf(i).addr + RegionOf(i).size <= Cells
         /\ RegionOf(i).size \in {2^k : k \in 0 .. max_level}
<1> DEFINE l == LevelOf(i)
           s == 2^(max_level - l)
           x == (i + 1) - 2^l
<1>1. /\ l \in 0 .. max_level /\ 2^l <= i + 1 /\ i + 1 < 2 * 2^l
  BY LevelFacts
<1>2. i \in Nat /\ max_level \in Nat /\ NUM_LEVELS = max_level + 1
  BY MaxLevel DEF NodeIndexes
<1>3. RegionOf(i).size = s /\ RegionOf(i).addr = x * s
  BY DEF RegionOf, _index_offset
<1>4. 2^l * s = Cells
  BY <1>1, RowsFill
<1> HIDE DEF l
<1>5. l \in 0 .. NUM_LEVELS /\ max_level - l \in 0 .. NUM_LEVELS /\ max_level - l \in 0 .. max_level
  BY <1>1, <1>2
<1>6. 2^l \in Nat /\ s \in Nat /\ s >= 1 /\ s \in {2^k : k \in 0 .. max_level}
  BY <1>5, PowerStep
<1>7. x \in Nat /\ x + 1 <= 2^l
  BY <1>1, <1>2, <1>6
<1> HIDE DEF s, x
<1>8. x * s \in Nat /\ x * s + s <= 2^l * s
  BY <1>6, <1>7, Products
<1> QED
  BY <1>2, <1>3, <1>4, <1>6, <1>7, <1>8 DEF l, s, x

LEMMA CellsFacts ==
  ASSUME NEW i \in NodeIndexes
  PROVE  /\ CellsAt(i) = RegionOf(i).addr .. (RegionOf(i).addr + RegionOf(i).size - 1)
         /\ RegionOf(i).addr \in CellsAt(i)
         /\ CellsAt(i) \subseteq 0 .. (Cells - 1)
         /\ CellsAt(i) # {}
         /\ RegionOf(i) = [addr |-> RegionOf(i).addr, size |-> RegionOf(i).size]
<1>1. CellsAt(i) = RegionOf(i).addr .. (RegionOf(i).addr + RegionOf(i).size - 1)
  BY DEF CellsAt, CellsOf
<1>2. /\ RegionOf(i).size \in Nat /\ RegionOf(i).size >= 1
      /\ RegionOf(i).addr \in Nat /\ RegionOf(i).addr + RegionOf(i).size <= Cells
  BY NodeFacts
<1>3. Cells \in Nat
  BY MaxLevel, PowerStep DEF Cells
<1>4. RegionOf(i) = [addr |-> RegionOf(i).addr, size |-> RegionOf(i).size]
  BY DEF RegionOf
<1>5. RegionOf(i).addr \in CellsAt(i)
  BY <1>1, <1>2
<1> QED
  BY <1>1, <1>2, <1>3, <1>4, <1>5

LEMMA Root ==
  /\ 0 \in NodeIndexes /\ LevelOf(0) = 0
  /\ RegionOf(0) = [addr |-> 0, size |-> Cells] /\ Cells \in Nat /\ Cells >= 1
  /\ CellsAt(0) = 0 .. (Cells - 1)
  /\ Above(0) = {}
<1>1. max_level \in Nat /\ NUM_LEVELS = max_level + 1 /\ max_level \in 0 .. NUM_LEVELS
  BY MaxLevel
<1>2. Cells \in Nat /\ Cells >= 1
  BY <1>1, PowerStep DEF Cells
<1>3. 0 \in NodeIndexes
  BY <1>2 DEF NodeIndexes
<1>4. 2^0 = 1
  OBVIOUS
<1>5. LevelOf(0) = 0
  <2>1. 0 \in 0 .. max_level /\ 2^0 <= 0 + 1 /\ 0 + 1 < 2 * 2^0
    BY <1>1, <1>4
  <2> QED
    BY <1>3, <2>1, LevelUnique
<1>6. RegionOf(0).size = 2^(max_level - 0) /\ RegionOf(0).addr = ((0 + 1) - 2^0) * 2^(max_level - 0)
  BY <1>3, <1>5, NodeFacts
<1>7. max_level - 0 = max_level
  BY <1>1
<1>8. RegionOf(0).size = Cells
  BY <1>6, <1>7 DEF Cells
<1>9. RegionOf(0).addr = 0
  <2>1. RegionOf(0).addr = ((0 + 1) - 2^0) * Cells
    BY <1>6, <1>7 DEF Cells
  <2> QED
    BY <1>2, <1>4, <2>1
<1>10. RegionOf(0) = [addr |-> 0, size |-> Cells]
  BY <1>3, <1>8, <1>9, CellsFacts
<1>11. CellsAt(0) = 0 .. (Cells - 1)
  BY <1>2, <1>3, <1>8, <1>9, CellsFacts
<1>12. Above(0) = {}
  BY DEF Above, NodeIndexes
<1> QED
  BY <1>2, <1>3, <1>5, <1>10, <1>11, <1>12

(* The two halves of a node that is not a leaf. *)
LEMMA ChildFacts ==
  ASSUME NEW i \in NodeIndexes, LevelOf(i) < max_level
  PROVE  /\ 2 * i + 1 \in NodeIndexes /\ 2 * i + 2 \in NodeIndexes
         /\ LevelOf(2 * i + 1) = LevelOf(i) + 1 /\ LevelOf(2 * i + 2) = LevelOf(i) + 1
         /\ RegionOf(i).size = 2 * RegionOf(2 * i + 1).size
         /\ RegionOf(2 * i + 2).size = RegionOf(2 * i + 1).size
         /\ RegionOf(2 * i + 1).addr = RegionOf(i).addr
         /\ RegionOf(2 * i + 2).addr = RegionOf(i).addr + RegionOf(2 * i + 1).size
<1> DEFINE l == LevelOf(i)
           h == 2^(max_level - (l + 1))
           x == (i + 1) - 2^l
<1>1. /\ l \in 0 .. max_level /\ 2^l <= i + 1 /\ i + 1 < 2 * 2^l /\ l < max_level
  BY LevelFacts
<1>2. i \in Nat /\ max_level \in Nat /\ NUM_LEVELS = max_level + 1
  BY MaxLevel DEF NodeIndexes
<1>3. RegionOf(i).size = 2^(max_level - l) /\ RegionOf(i).addr = x * 2^(max_level - l) /\ x \in Nat
  BY NodeFacts
<1> HIDE DEF l
<1>4. /\ l \in 0 .. NUM_LEVELS /\ l + 1 \in 0 .. max_level /\ l + 1 \in 0 .. NUM_LEVELS
      /\ max_level - (l + 1) \in 0 .. NUM_LEVELS
      /\ (max_level - (l + 1)) + 1 = max_level - l
      /\ max_level \in 0 .. NUM_LEVELS
  BY <1>1, <1>2
<1>5. 2^l \in Nat /\ 2^(l + 1) = 2 * 2^l /\ 2^(l + 1) \in Nat
  BY <1>4, PowerStep
<1>6. h \in Nat /\ 2^(max_level - l) = 2 * h
  <2>1. h \in Nat /\ 2^((max_level - (l + 1)) + 1) = 2 * h
    BY <1>4, PowerStep
  <2> QED
    BY <1>4, <2>1
<1>7. 2^(l + 1) <= Cells
  <2>1. Cells \in Nat
    BY <1>4, PowerStep DEF Cells
  <2>2. l < max_level => 2 * 2^l <= 2^max_level
    BY <1>4, PowersApart
  <2> QED
    BY <1>1, <1>5, <2>2 DEF Cells
<1>8. 2 * i + 1 \in NodeIndexes /\ 2 * i + 2 \in NodeIndexes
  <2>1. Cells \in Nat
    BY <1>4, PowerStep DEF Cells
  <2>2. i + 2 <= Cells
    BY <1>1, <1>2, <1>5, <1>7, <2>1
  <2> QED
    BY <1>2, <2>1, <2>2 DEF NodeIndexes
<1>9. LevelOf(2 * i + 1) = l + 1
  <2>1. 2^(l + 1) <= (2 * i + 1) + 1 /\ (2 * i + 1) + 1 < 2 * 2^(l + 1)
    BY <1>1, <1>2, <1>5
  <2> QED
    BY <1>4, <1>8, <2>1, LevelUnique
<1>10. LevelOf(2 * i + 2) = l + 1
  <2>1. 2^(l + 1) <= (2 * i + 2) + 1 /\ (2 * i + 2) + 1 < 2 * 2^(l + 1)
    BY <1>1, <1>2, <1>5
  <2> QED
    BY <1>4, <1>8, <2>1, LevelUnique
<1>11. RegionOf(2 * i + 1).size = h /\ RegionOf(2 * i + 1).addr = ((2 * i + 1 + 1) - 2^(l + 1)) * h
  BY <1>8, <1>9, NodeFacts
<1>12. RegionOf(2 * i + 2).size = h /\ RegionOf(2 * i + 2).addr = ((2 * i + 2 + 1) - 2^(l + 1)) * h
  BY <1>8, <1>10, NodeFacts
<1>13. (2 * i + 1 + 1) - 2^(l + 1) = 2 * x /\ (2 * i + 2 + 1) - 2^(l + 1) = 2 * x + 1
  BY <1>2, <1>5
<1>14. RegionOf(i).size = 2 * h /\ RegionOf(i).addr = x * (2 * h)
  BY <1>3, <1>6
<1> HIDE DEF x, h
<1>15. x * (2 * h) = (2 * x) * h /\ (2 * x + 1) * h = (2 * x) * h + h
  <2>1. 2 * x \in Nat
    BY <1>3
  <2> QED
    BY <1>3, <1>6, <2>1, Products
<1>16. RegionOf(2 * i + 1).addr = RegionOf(i).addr
  BY <1>11, <1>13, <1>14, <1>15
<1>17. RegionOf(2 * i + 2).addr = RegionOf(i).addr + h
  BY <1>12, <1>13, <1>14, <1>15
<1> QED
  BY <1>8, <1>9, <1>10, <1>11, <1>12, <1>14, <1>16, <1>17 DEF l

LEMMA ParentFacts ==
  ASSUME NEW i \in NodeIndexes, i # 0
  PROVE  /\ ParentOf(i) \in NodeIndexes /\ ParentOf(i) \in Nat /\ ParentOf(i) < i
         /\ IsOdd(i) => i = 2 * ParentOf(i) + 1
         /\ ~IsOdd(i) => i = 2 * ParentOf(i) + 2
         /\ LevelOf(ParentOf(i)) < max_level
         /\ LevelOf(i) = LevelOf(ParentOf(i)) + 1
<1> DEFINE p == ParentOf(i)
           k == LevelOf(p)
<1>1. i \in Nat /\ max_level \in Nat /\ NUM_LEVELS = max_level + 1 /\ Cells \in Nat
  BY MaxLevel, PowerStep DEF NodeIndexes, Cells
<1>2. /\ p \in Nat /\ p < i
      /\ i % 2 = 1 => i = 2 * p + 1
      /\ i % 2 # 1 => i = 2 * p + 2
  BY <1>1 DEF ParentOf
<1>3. i <= 2 * Cells - 2
  BY DEF NodeIndexes
<1> HIDE DEF p
<1>4. p \in NodeIndexes
  BY <1>1, <1>2, <1>3 DEF NodeIndexes
<1>5. k \in 0 .. max_level /\ 2^k <= p + 1
  BY <1>4, LevelFacts
<1>6. k # max_level
  <2>1. 2 * p + 2 < 2 * Cells
    BY <1>1, <1>2, <1>3
  <2>2. p + 1 < Cells
    BY <1>1, <1>2, <2>1
  <2> HIDE DEF k
  <2>3. 2^k \in Nat
    BY <1>1, <1>5, PowerStep
  <2> QED
    BY <1>1, <1>2, <1>5, <2>2, <2>3 DEF Cells
<1>7. k < max_level
  BY <1>1, <1>5, <1>6
<1>8. LevelOf(2 * p + 1) = k + 1 /\ LevelOf(2 * p + 2) = k + 1
  BY <1>4, <1>7, ChildFacts
<1> QED
  BY <1>2, <1>4, <1>7, <1>8 DEF p, IsOdd

(* The halves cover their node and do not overlap. *)
LEMMA HalvesOf ==
  ASSUME NEW i \in NodeIndexes, LevelOf(i) < max_level
  PROVE  /\ CellsAt(i) = CellsAt(2 * i + 1) \cup CellsAt(2 * i + 2)
         /\ CellsAt(2 * i + 1) \cap CellsAt(2 * i + 2) = {}
<1> DEFINE l == 2 * i + 1
           r == 2 * i + 2
           h == RegionOf(l).size
           o == RegionOf(i).addr
<1>1. /\ l \in NodeIndexes /\ r \in NodeIndexes
      /\ RegionOf(i).size = 2 * h
      /\ RegionOf(r).size = h
      /\ RegionOf(l).addr = o
      /\ RegionOf(r).addr = o + h
  BY ChildFacts
<1>2. o \in Nat /\ h \in Nat /\ h >= 1
  BY <1>1, NodeFacts
<1>3. /\ CellsAt(i) = o .. (o + 2 * h - 1)
      /\ CellsAt(l) = o .. (o + h - 1)
      /\ CellsAt(r) = (o + h) .. (o + h + h - 1)
  BY <1>1, CellsFacts
<1> HIDE DEF l, r, h, o
<1>4. /\ o .. (o + 2 * h - 1) = (o .. (o + h - 1)) \cup ((o + h) .. (o + h + h - 1))
      /\ (o .. (o + h - 1)) \cap ((o + h) .. (o + h + h - 1)) = {}
  BY <1>2
<1>5. CellsAt(i) = CellsAt(l) \cup CellsAt(r) /\ CellsAt(l) \cap CellsAt(r) = {}
  BY <1>3, <1>4
<1> QED
  BY <1>5 DEF l, r

(* Nodes of one level lie in the order of their indexes. *)
LEMMA LevelOrder ==
  ASSUME NEW i \in NodeIndexes, NEW j \in NodeIndexes, LevelOf(i) = LevelOf(j), i < j
  PROVE  /\ RegionOf(i).size = RegionOf(j).size
         /\ RegionOf(i).addr + RegionOf(i).size <= RegionOf(j).addr
         /\ CellsAt(i) \cap CellsAt(j) = {}
         /\ j = i + 1 => RegionOf(j).addr = RegionOf(i).addr + RegionOf(i).size
<1> DEFINE h == RegionOf(i).size
           x == (i + 1) - 2^LevelOf(i)
           y == (j + 1) - 2^LevelOf(i)
<1>1. h \in Nat /\ h >= 1 /\ x \in Nat /\ y \in Nat /\ i \in Nat /\ j \in Nat /\ 2^LevelOf(i) \in Nat
  BY NodeFacts
<1>2. RegionOf(j).size = h /\ RegionOf(i).addr = x * h /\ RegionOf(j).addr = y * h
  BY NodeFacts
<1>3. x + 1 <= y
  BY <1>1
<1>4. j = i + 1 => y = x + 1
  BY <1>1
<1> HIDE DEF h, x, y
<1>5. x * h + h <= y * h /\ (x + 1) * h = x * h + h /\ x * h \in Nat /\ y * h \in Nat
  BY <1>1, <1>3, Products
<1>6. RegionOf(i).addr + h <= RegionOf(j).addr
  BY <1>2, <1>5
<1>7. j = i + 1 => RegionOf(j).addr = RegionOf(i).addr + h
  BY <1>2, <1>4, <1>5
<1>8. CellsAt(i) \cap CellsAt(j) = {}
  <2>1. /\ CellsAt(i) = x * h .. (x * h + h - 1)
        /\ CellsAt(j) = y * h .. (y * h + h - 1)
    BY <1>2, CellsFacts DEF h
  <2> QED
    BY <1>1, <1>5, <2>1
<1> QED
  BY <1>2, <1>6, <1>7, <1>8 DEF h

LEMMA LevelTypes ==
  ASSUME NEW i \in NodeIndexes
  PROVE  LevelOf(i) \in 0 .. max_level /\ LevelOf(i) \in Nat /\ max_level \in Nat
<1>1. LevelOf(i) \in 0 .. max_level /\ max_level \in Nat
  BY LevelFacts, MaxLevel
<1> QED
  BY <1>1

(* The level of a node is known from its size. *)
LEMMA SizesApart ==
  ASSUME NEW i \in NodeIndexes, NEW j \in NodeIndexes, LevelOf(i) < LevelOf(j)
  PROVE  2 * RegionOf(j).size <= RegionOf(i).size
<1> DEFINE k == LevelOf(i)
           l == LevelOf(j)
<1>1. k \in 0 .. max_level /\ l \in 0 .. max_level /\ k < l
  BY LevelTypes
<1>2. max_level \in Nat /\ NUM_LEVELS = max_level + 1
  BY MaxLevel
<1>3. RegionOf(i).size = 2^(max_level - k) /\ RegionOf(j).size = 2^(max_level - l)
  BY NodeFacts
<1> HIDE DEF k, l
<1>4. /\ max_level - l \in 0 .. NUM_LEVELS /\ max_level - k \in 0 .. NUM_LEVELS
      /\ max_level - l < max_level - k
  BY <1>1, <1>2
<1>5. 2 * 2^(max_level - l) <= 2^(max_level - k)
  BY <1>4, PowersApart
<1> QED
  BY <1>3, <1>5

LEMMA SameSize ==
  ASSUME NEW i \in NodeIndexes, NEW j \in NodeIndexes, RegionOf(i).size = RegionOf(j).size
  PROVE  LevelOf(i) = LevelOf(j)
<1>1. RegionOf(i).size \in Nat /\ RegionOf(i).size >= 1
  BY NodeFacts
<1>2. ~(2 * RegionOf(i).size <= RegionOf(i).size)
  BY <1>1
<1>3. ~(LevelOf(i) < LevelOf(j)) /\ ~(LevelOf(j) < LevelOf(i))
  BY <1>2, SizesApart
<1> QED
  BY <1>3, LevelTypes

LEMMA RegionsDiffer ==
  ASSUME NEW i \in NodeIndexes, NEW j \in NodeIndexes,
         RegionOf(i).size = RegionOf(j).size, RegionOf(i).addr = RegionOf(j).addr
  PROVE  i = j
<1>1. LevelOf(i) = LevelOf(j)
  BY SameSize
<1>2. /\ RegionOf(i).size \in Nat /\ RegionOf(i).size >= 1 /\ RegionOf(i).addr \in Nat
      /\ i \in Nat /\ j \in Nat
  BY NodeFacts
<1>3. ~(RegionOf(i).addr + RegionOf(i).size <= RegionOf(i).addr)
  BY <1>2
<1>4. ~(i < j) /\ ~(j < i)
  BY <1>1, <1>3, LevelOrder
<1> QED
  BY <1>2, <1>4

(* Of two nodes whose cells meet, the earlier contains the later. *)
LEMMA Nested ==
  ASSUME NEW a \in NodeIndexes, NEW i \in NodeIndexes, a < i,
         CellsAt(a) \cap CellsAt(i) # {}
  PROVE  CellsAt(i) \subseteq CellsAt(a)
<1> DEFINE Bad == {n \in NodeIndexes : /\ a < n
                                       /\ CellsAt(a) \cap CellsAt(n) # {}
                                       /\ ~(CellsAt(n) \subseteq CellsAt(a))}
<1>1. Bad \subseteq Nat
  BY DEF NodeIndexes
<1> HIDE DEF Bad
<1> SUFFICES ASSUME Bad # {}
             PROVE  FALSE
  BY DEF Bad
<1>2. PICK n \in Bad : \A m \in Bad : n <= m
  BY <1>1, Least
<1>3. /\ n \in NodeIndexes /\ a < n
      /\ CellsAt(a) \cap CellsAt(n) # {}
      /\ ~(CellsAt(n) \subseteq CellsAt(a))
  BY <1>2 DEF Bad
<1>4. n \in Nat /\ a \in Nat /\ n # 0
  BY <1>3 DEF NodeIndexes
<1> DEFINE p == ParentOf(n)
<1>5. /\ p \in NodeIndexes /\ p \in Nat /\ p < n
      /\ IsOdd(n) => n = 2 * p + 1
      /\ ~IsOdd(n) => n = 2 * p + 2
      /\ LevelOf(p) < max_level
      /\ LevelOf(n) = LevelOf(p) + 1
  BY <1>3, <1>4, ParentFacts
<1> HIDE DEF p
<1>6. CellsAt(n) \subseteq CellsAt(p)
  <2>1. CellsAt(2 * p + 1) \subseteq CellsAt(p) /\ CellsAt(2 * p + 2) \subseteq CellsAt(p)
    BY <1>5, HalvesOf
  <2> QED
    BY <1>5, <2>1
<1>7. CellsAt(a) \cap CellsAt(p) # {}
  BY <1>3, <1>6
<1>8. CASE p = a
  BY <1>3, <1>6, <1>8
<1>9. CASE a < p
  <2>1. p \notin Bad
    BY <1>2, <1>4, <1>5
  <2>2. CellsAt(p) \subseteq CellsAt(a)
    BY <1>5, <1>7, <1>9, <2>1 DEF Bad
  <2> QED
    BY <1>3, <1>6, <2>2
<1>10. CASE p < a
  <2>1. LevelOf(p) <= LevelOf(a) /\ LevelOf(a) <= LevelOf(n)
    BY <1>3, <1>5, <1>10, LevelsAscend
  <2>2. LevelOf(a) = LevelOf(p) \/ LevelOf(a) = LevelOf(n)
    <3>1. LevelOf(a) \in Nat /\ LevelOf(p) \in Nat
      BY <1>5, LevelTypes
    <3> QED
      BY <1>5, <2>1, <3>1
  <2>3. LevelOf(a) # LevelOf(p)
    BY <1>5, <1>7, <1>10, LevelOrder
  <2>4. LevelOf(a) # LevelOf(n)
    BY <1>3, LevelOrder
  <2> QED
    BY <2>2, <2>3, <2>4
<1> QED
  BY <1>4, <1>5, <1>8, <1>9, <1>10

LEMMA AboveFacts ==
  ASSUME NEW a, NEW i \in NodeIndexes
  PROVE  a \in Above(i) <=> a \in NodeIndexes /\ a < i /\ CellsAt(a) \cap CellsAt(i) # {}
<1>1. CellsAt(i) # {}
  BY CellsFacts
<1> QED
  BY <1>1, Nested DEF Above

(* The nodes above a node are its parent and those above its parent. *)
LEMMA AboveStep ==
  ASSUME NEW i \in NodeIndexes, i # 0
  PROVE  /\ Above(i) = {ParentOf(i)} \cup Above(ParentOf(i))
         /\ ParentOf(i) \in NodeIndexes /\ ParentOf(i) \notin Above(ParentOf(i))
         /\ CellsAt(i) \subseteq CellsAt(ParentOf(i))
<1> DEFINE p == ParentOf(i)
<1>1. /\ p \in NodeIndexes /\ p \in Nat /\ p < i
      /\ IsOdd(i) => i = 2 * p + 1
      /\ ~IsOdd(i) => i = 2 * p + 2
      /\ LevelOf(p) < max_level
      /\ LevelOf(i) = LevelOf(p) + 1
  BY ParentFacts
<1>2. i \in Nat
  BY DEF NodeIndexes
<1> HIDE DEF p
<1>3. CellsAt(i) \subseteq CellsAt(p)
  <2>1. CellsAt(2 * p + 1) \subseteq CellsAt(p) /\ CellsAt(2 * p + 2) \subseteq CellsAt(p)
    BY <1>1, HalvesOf
  <2> QED
    BY <1>1, <2>1
<1>4. ASSUME NEW a \in Above(p)
      PROVE  a \in Above(i)
  <2>1. a \in NodeIndexes /\ a < p /\ CellsAt(p) \subseteq CellsAt(a) /\ a \in Nat
    BY DEF Above, NodeIndexes
  <2>2. a < i
    BY <1>1, <1>2, <2>1
  <2> QED
    BY <1>3, <2>1, <2>2 DEF Above
<1>5. ASSUME NEW a \in Above(i), a # p
      PROVE  a \in Above(p)
  <2>1. a \in NodeIndexes /\ a < i /\ CellsAt(i) \subseteq CellsAt(a) /\ a \in Nat
    BY DEF Above, NodeIndexes
  <2>2. CellsAt(i) # {}
    BY CellsFacts
  <2>3. CellsAt(a) \cap CellsAt(p) # {}
    BY <1>3, <2>1, <2>2
  <2>4. ~(p < a)
    <3>1. SUFFICES ASSUME p < a
                   PROVE  FALSE
      OBVIOUS
    <3>2. LevelOf(p) <= LevelOf(a) /\ LevelOf(a) <= LevelOf(i)
      BY <1>1, <2>1, <3>1, LevelsAscend
    <3>3. LevelOf(a) \in Nat /\ LevelOf(p) \in Nat
      BY <1>1, <2>1, LevelTypes
    <3>4. LevelOf(a) = LevelOf(p) \/ LevelOf(a) = LevelOf(i)
      BY <1>1, <3>2, <3>3
    <3>5. LevelOf(a) # LevelOf(p)
      BY <1>1, <2>1, <2>3, <3>1, LevelOrder
    <3>6. LevelOf(a) # LevelOf(i)
      <4>1. CellsAt(a) \cap CellsAt(i) # {}
        BY <2>1, <2>2
      <4> QED
        BY <2>1, <4>1, LevelOrder
    <3> QED
      BY <3>4, <3>5, <3>6
  <2>5. a < p
    BY <1>1, <1>5, <2>1, <2>4
  <2> QED
    BY <1>1, <2>1, <2>3, <2>5, AboveFacts
<1>6. p \in Above(i)
  BY <1>1, <1>3 DEF Above
<1>7. p \notin Above(p)
  BY <1>1 DEF Above
<1> QED
  BY <1>1, <1>3, <1>4, <1>5, <1>6, <1>7 DEF p

(* Two nodes whose cells meet are the same, or one is above the other. *)
LEMMA Meeting ==
  ASSUME NEW i \in NodeIndexes, NEW j \in NodeIndexes, CellsAt(i) \cap CellsAt(j) # {}
  PROVE  i = j \/ i \in Above(j) \/ j \in Above(i)
<1>1. i \in Nat /\ j \in Nat
  BY DEF NodeIndexes
<1>2. i < j => i \in Above(j)
  BY AboveFacts
<1>3. j < i => j \in Above(i)
  BY AboveFacts
<1> QED
  BY <1>1, <1>2, <1>3

LEMMA AboveOrder ==
  ASSUME NEW i \in NodeIndexes, NEW a \in Above(i)
  PROVE  /\ a \in NodeIndexes /\ a < i /\ a \in Nat /\ CellsAt(i) \subseteq CellsAt(a)
         /\ LevelOf(a) < LevelOf(i) /\ 2 * RegionOf(i).size <= RegionOf(a).size
         /\ \A b \in Above(a) : b \in Above(i)
         /\ \A b \in Above(i) : b < a => b \in Above(a)
         /\ \A b \in Above(i) : b = a \/ b \in Above(a) \/ a \in Above(b)
<1>1. a \in NodeIndexes /\ a < i /\ CellsAt(i) \subseteq CellsAt(a)
  BY DEF Above
<1>2. CellsAt(i) # {} /\ a \in Nat /\ i \in Nat
  BY <1>1, CellsFacts DEF NodeIndexes
<1>3. LevelOf(a) < LevelOf(i)
  <2>1. LevelOf(a) <= LevelOf(i)
    BY <1>1, LevelsAscend
  <2>2. LevelOf(a) # LevelOf(i)
    BY <1>1, <1>2, LevelOrder
  <2> QED
    BY <1>1, <2>1, <2>2, LevelTypes
<1>4. 2 * RegionOf(i).size <= RegionOf(a).size
  BY <1>1, <1>3, SizesApart
<1>5. ASSUME NEW b \in Above(a)
      PROVE  b \in Above(i)
  <2>1. b \in NodeIndexes /\ b \in Nat /\ b < a /\ CellsAt(a) \subseteq CellsAt(b)
    BY DEF Above, NodeIndexes
  <2>2. b < i
    BY <1>1, <1>2, <2>1
  <2> QED
    BY <1>1, <2>1, <2>2 DEF Above
<1>6. ASSUME NEW b \in Above(i)
      PROVE  b = a \/ b \in Above(a) \/ a \in Above(b)
  <2>1. b \in NodeIndexes /\ CellsAt(i) \subseteq CellsAt(b)
    BY DEF Above
  <2>2. CellsAt(b) \cap CellsAt(a) # {}
    BY <1>1, <1>2, <2>1
  <2> QED
    BY <1>1, <2>1, <2>2, Meeting
<1>7. ASSUME NEW b \in Above(i), b < a
      PROVE  b \in Above(a)
  <2>1. b \in NodeIndexes /\ b \in Nat
    BY DEF Above, NodeIndexes
  <2>2. a \notin Above(b)
    BY <1>2, <1>7, <2>1 DEF Above
  <2>3. b # a
    BY <1>2, <1>7, <2>1
  <2> QED
    BY <1>6, <2>2, <2>3
<1> QED
  BY <1>1, <1>2, <1>3, <1>4, <1>5, <1>6, <1>7

(* A node, its brother and their parent. *)
LEMMA BuddyFacts ==
  ASSUME NEW i \in NodeIndexes, i # 0
  PROVE  /\ BuddyOf(i) \in NodeIndexes /\ BuddyOf(i) # 0 /\ BuddyOf(i) \in Nat /\ BuddyOf(i) # i
         /\ ParentOf(BuddyOf(i)) = ParentOf(i)
         /\ IsOdd(i) => BuddyOf(i) = i + 1
         /\ CellsAt(ParentOf(i)) = CellsAt(i) \cup CellsAt(BuddyOf(i))
         /\ CellsAt(i) \cap CellsAt(BuddyOf(i)) = {}
         /\ Above(BuddyOf(i)) = Above(i)
         /\ LevelOf(BuddyOf(i)) = LevelOf(i)
         /\ RegionOf(ParentOf(i)).size = 2 * RegionOf(i).size
<1> DEFINE p == ParentOf(i)
           b == BuddyOf(i)
<1>1. /\ p \in NodeIndexes /\ p \in Nat /\ p < i
      /\ IsOdd(i) => i = 2 * p + 1
      /\ ~IsOdd(i) => i = 2 * p + 2
      /\ LevelOf(p) < max_level
      /\ LevelOf(i) = LevelOf(p) + 1
  BY ParentFacts
<1>2. i \in Nat
  BY DEF NodeIndexes
<1>3. i % 2 = 1 \/ i % 2 = 0
  BY <1>2
<1>4. (IsOdd(i) => b = i + 1) /\ (~IsOdd(i) => b = i - 1)
  BY <1>2, <1>3 DEF BuddyOf, IsOdd
<1> HIDE DEF p, b
<1>5. (IsOdd(i) => b = 2 * p + 2) /\ (~IsOdd(i) => b = 2 * p + 1)
  BY <1>1, <1>4
<1>6. /\ 2 * p + 1 \in NodeIndexes /\ 2 * p + 2 \in NodeIndexes
      /\ LevelOf(2 * p + 1) = LevelOf(p) + 1 /\ LevelOf(2 * p + 2) = LevelOf(p) + 1
      /\ RegionOf(p).size = 2 * RegionOf(2 * p + 1).size
      /\ RegionOf(2 * p + 2).size = RegionOf(2 * p + 1).size
  BY <1>1, ChildFacts
<1>7. /\ CellsAt(p) = CellsAt(2 * p + 1) \cup CellsAt(2 * p + 2)
      /\ CellsAt(2 * p + 1) \cap CellsAt(2 * p + 2) = {}
  BY <1>1, HalvesOf
<1>8. b \in NodeIndexes /\ b # 0 /\ b \in Nat /\ b # i
  BY <1>1, <1>2, <1>5, <1>6
<1>9. ParentOf(b) = p
  BY <1>1, <1>5 DEF ParentOf
<1>10. CellsAt(p) = CellsAt(i) \cup CellsAt(b) /\ CellsAt(i) \cap CellsAt(b) = {}
  BY <1>1, <1>5, <1>7
<1>11. Above(b) = Above(i)
  BY <1>8, <1>9, AboveStep DEF p
<1>12. LevelOf(b) = LevelOf(i) /\ RegionOf(p).size = 2 * RegionOf(i).size
  BY <1>1, <1>5, <1>6
<1> QED
  BY <1>4, <1>8, <1>9, <1>10, <1>11, <1>12 DEF p, b

(***************************************************************************)
(* Part 4.  The states of the nodes.                                       *)
(***************************************************************************)

LEMMA StateFacts ==
  ASSUME NEW i \in NodeIndexes, NEW G
  PROVE  /\ StateFor(i, G) = "USED" <=> RegionOf(i) \in G
         /\ StateFor(i, G) = "UNUSED" <=> Free(i, G)
         /\ StateFor(i, G) \in {"USED", "FULL"} <=> Covered(i, G)
         /\ RegionOf(i) \notin G => (StateFor(i, G) = "FULL" <=> Covered(i, G))
         /\ StateFor(i, G) = "SPLIT" <=> (~Free(i, G) /\ ~Covered(i, G))
         /\ ~(Free(i, G) /\ Covered(i, G))
<1>1. CellsAt(i) # {}
  BY CellsFacts
<1>2. ~(Free(i, G) /\ Covered(i, G))
  BY <1>1 DEF Free, Covered
<1>3. RegionOf(i) \in G => Covered(i, G)
  BY DEF CellsAt, Covered, CellsIn
<1> QED
  BY <1>2, <1>3 DEF StateFor

(* What contains a node in use is in use, and the converse.                *)
LEMMA Within ==
  ASSUME NEW a, NEW i, NEW G, CellsAt(i) \subseteq CellsAt(a)
  PROVE  /\ Free(a, G) => Free(i, G)
         /\ Covered(a, G) => Covered(i, G)
BY DEF Free, Covered

LEMMA HalvesStates ==
  ASSUME NEW i \in NodeIndexes, i # 0, NEW G
  PROVE  /\ Free(ParentOf(i), G) <=> (Free(i, G) /\ Free(BuddyOf(i), G))
         /\ Covered(ParentOf(i), G) <=> (Covered(i, G) /\ Covered(BuddyOf(i), G))
<1>1. CellsAt(ParentOf(i)) = CellsAt(i) \cup CellsAt(BuddyOf(i))
  BY BuddyFacts
<1> QED
  BY <1>1 DEF Free, Covered

(* The cells of one region more. *)
LEMMA WithFacts ==
  ASSUME NEW n \in NodeIndexes
  PROVE  /\ CellsIn(With(n)) = CellsIn(given) \cup CellsAt(n)
         /\ RegionOf(n) \in With(n)
         /\ Covered(n, With(n))
         /\ \A i \in NodeIndexes : Free(i, With(n)) => Free(i, given)
         /\ \A i \in NodeIndexes : Covered(i, given) => Covered(i, With(n))
<1>1. CellsIn(With(n)) = CellsIn(given) \cup CellsAt(n)
  BY DEF CellsIn, With, CellsAt
<1>2. RegionOf(n) \in With(n)
  BY DEF With
<1> QED
  BY <1>1, <1>2 DEF Free, Covered

(* A node apart from n is in the same state with the region of n. *)
LEMMA Elsewhere ==
  ASSUME NEW n \in NodeIndexes, NEW i \in NodeIndexes, CellsAt(i) \cap CellsAt(n) = {}
  PROVE  /\ StateFor(i, With(n)) = StateFor(i, given)
         /\ Free(i, With(n)) <=> Free(i, given)
         /\ Covered(i, With(n)) <=> Covered(i, given)
<1>1. CellsIn(With(n)) = CellsIn(given) \cup CellsAt(n)
  BY WithFacts
<1>2. CellsAt(n) # {}
  BY CellsFacts
<1>3. i # n
  BY <1>2
<1>4. RegionOf(i) # RegionOf(n)
  BY <1>3, RegionsDiffer
<1>5. RegionOf(i) \in With(n) <=> RegionOf(i) \in given
  BY <1>4 DEF With
<1>6. Free(i, With(n)) <=> Free(i, given)
  BY <1>1 DEF Free
<1>7. Covered(i, With(n)) <=> Covered(i, given)
  BY <1>1 DEF Covered
<1> QED
  BY <1>5, <1>6, <1>7 DEF StateFor

(* The nodes above a free node n: neither is a region, with n or without.  *)
LEMMA AboveFree ==
  ASSUME NEW n \in NodeIndexes, Free(n, given), NEW a \in Above(n)
  PROVE  /\ StateFor(a, given) = IF Free(a, given) THEN "UNUSED" ELSE "SPLIT"
         /\ StateFor(a, With(n)) = IF Covered(a, With(n)) THEN "FULL" ELSE "SPLIT"
         /\ ~Covered(a, given) /\ ~Free(a, With(n))
<1>1. a \in NodeIndexes /\ a # n /\ CellsAt(n) \subseteq CellsAt(a)
  BY DEF Above, NodeIndexes
<1>2. CellsAt(n) # {}
  BY CellsFacts
<1>3. ~Covered(a, given) /\ ~Free(a, With(n))
  <2>1. CellsIn(With(n)) = CellsIn(given) \cup CellsAt(n)
    BY WithFacts
  <2> QED
    BY <1>1, <1>2, <2>1 DEF Free, Covered
<1>4. RegionOf(a) \notin given
  BY <1>1, <1>3, StateFacts
<1>5. RegionOf(a) \notin With(n)
  <2>1. RegionOf(a) # RegionOf(n)
    BY <1>1, RegionsDiffer
  <2> QED
    BY <1>4, <2>1 DEF With
<1> QED
  BY <1>3, <1>4, <1>5 DEF StateFor

(* All the nodes above a region show it, and so does its own node. *)
LEMMA PathShown ==
  ASSUME NEW n \in NodeIndexes, Free(n, given), ExactFor(With(n))
  PROVE  /\ Reachable(n) /\ tree[n] = "USED"
         /\ \A a \in Above(n) : /\ Reachable(a)
                                /\ tree[a] = StateFor(a, With(n))
                                /\ tree[a] \in {"SPLIT", "FULL"}
<1> DEFINE Bad == {a \in Above(n) : tree[a] \notin {"SPLIT", "FULL"}}
<1>1. Bad \subseteq Nat
  BY AboveOrder
<1>2. Bad = {}
  <2> HIDE DEF Bad
  <2> SUFFICES ASSUME Bad # {}
               PROVE  FALSE
    OBVIOUS
  <2>1. PICK a \in Bad : \A b \in Bad : a <= b
    BY <1>1, Least
  <2>2. a \in Above(n) /\ tree[a] \notin {"SPLIT", "FULL"}
    BY <2>1 DEF Bad
  <2>3. a \in NodeIndexes /\ a \in Nat
    BY <2>2, AboveOrder
  <2>4. ASSUME NEW b \in Above(a)
        PROVE  tree[b] \in {"SPLIT", "FULL"}
    <3>1. b \in Above(n) /\ b \in Nat /\ b < a
      BY <2>2, <2>3, AboveOrder
    <3>2. b \notin Bad
      BY <2>1, <2>3, <3>1
    <3> QED
      BY <3>1, <3>2 DEF Bad
  <2>5. tree[a] = StateFor(a, With(n))
    BY <2>3, <2>4 DEF ExactFor, Shows, Reachable
  <2> QED
    BY <2>2, <2>5, AboveFree
<1>3. Reachable(n)
  BY <1>2 DEF Reachable
<1>4. tree[n] = "USED"
  BY <1>3, WithFacts, StateFacts DEF ExactFor, Shows
<1>5. ASSUME NEW a \in Above(n)
      PROVE  /\ Reachable(a)
             /\ tree[a] = StateFor(a, With(n))
             /\ tree[a] \in {"SPLIT", "FULL"}
  <2>1. a \in NodeIndexes /\ \A b \in Above(a) : b \in Above(n)
    BY AboveOrder
  <2>2. Reachable(a)
    BY <1>3, <2>1 DEF Reachable
  <2> QED
    BY <1>3, <2>1, <2>2 DEF ExactFor, Shows, Reachable
<1> QED
  BY <1>3, <1>4, <1>5

(* Nodes apart, above, below. *)
LEMMA Apart ==
  ASSUME NEW n \in NodeIndexes, NEW i \in NodeIndexes,
         i # n, i \notin Above(n), n \notin Above(i)
  PROVE  CellsAt(i) \cap CellsAt(n) = {}
BY Meeting

(* The powers of two up to the arena. *)
LEMMA SizeFacts ==
  ASSUME NEW k \in 0 .. max_level
  PROVE  2^k \in Nat /\ 2^k >= 1 /\ 2^k <= Cells /\ 2^k \in 0 .. Cells
<1>1. max_level \in Nat /\ NUM_LEVELS = max_level + 1 /\ k \in Nat
  BY MaxLevel
<1>2. k \in 0 .. NUM_LEVELS /\ max_level \in 0 .. NUM_LEVELS
  BY <1>1
<1>3. 2^k \in Nat /\ 2^k >= 1 /\ Cells \in Nat
  BY <1>2, PowerStep DEF Cells
<1>4. CASE k = max_level
  BY <1>3, <1>4 DEF Cells
<1>5. CASE k < max_level
  <2>1. 2 * 2^k <= Cells
    BY <1>2, <1>5, PowersApart DEF Cells
  <2> QED
    BY <1>3, <2>1
<1> QED
  BY <1>1, <1>3, <1>4, <1>5

LEMMA SizeOrder ==
  ASSUME NEW k \in 0 .. max_level, NEW l \in 0 .. max_level, 2^k < 2^l
  PROVE  2 * 2^k <= 2^l
<1>1. max_level \in Nat /\ NUM_LEVELS = max_level + 1 /\ k \in Nat /\ l \in Nat
  BY MaxLevel
<1>2. k \in 0 .. NUM_LEVELS /\ l \in 0 .. NUM_LEVELS
  BY <1>1
<1>3. 2^k \in Nat /\ 2^l \in Nat
  BY <1>2, PowerStep
<1>4. ~(l < k)
  <2>1. l < k => 2 * 2^l <= 2^k
    BY <1>2, PowersApart
  <2> QED
    BY <1>3, <2>1
<1>5. l # k
  BY <1>3
<1>6. k < l
  BY <1>1, <1>4, <1>5
<1> QED
  BY <1>2, <1>6, PowersApart

(* A request that is not too large is rounded to a size of the tree. *)
LEMMA Rounded ==
  ASSUME NEW s \in Nat, ~TooLarge(s)
  PROVE  CellsFor(s) \in {2^k : k \in 0 .. max_level}
<1> DEFINE x == CellsAsked(s)
<1>1. s # 0 /\ ~(x > Cells)
  BY DEF TooLarge
<1>2. x \in Nat /\ x >= 1
  <2>1. MIN_ALLOCABLE_BYTES \in Nat /\ MIN_ALLOCABLE_BYTES > 0 /\ s - 1 \in Nat
    BY <1>1, BuddySLAssumption
  <2>2. (s - 1) \div MIN_ALLOCABLE_BYTES \in Nat
    BY <2>1
  <2> QED
    BY <2>2 DEF CellsAsked
<1>3. max_level \in Nat /\ max_level \in 0 .. max_level /\ NUM_LEVELS = max_level + 1
  BY MaxLevel
<1>4. Cells \in Nat /\ x <= Cells
  BY <1>1, <1>2, Root
<1> HIDE DEF x
<1> DEFINE Enough == {k \in 0 .. max_level : x <= 2^k}
<1>5. Enough \subseteq Nat /\ max_level \in Enough
  BY <1>3, <1>4 DEF Cells
<1> HIDE DEF Enough
<1>6. PICK k \in Enough : \A l \in Enough : k <= l
  BY <1>5, Least
<1>7. k \in 0 .. max_level /\ x <= 2^k
  BY <1>6 DEF Enough
<1>8. 2^k < 2 * x
  <2>1. CASE k = 0
    <3>1. 2^0 = 1
      OBVIOUS
    <3> QED
      BY <1>2, <2>1, <3>1
  <2>2. CASE k # 0
    <3>1. k - 1 \in 0 .. max_level /\ (k - 1) + 1 = k /\ ~(k <= k - 1)
      BY <1>3, <1>7, <2>2
    <3>2. k - 1 \notin Enough
      BY <1>6, <3>1
    <3>3. ~(x <= 2^(k - 1))
      BY <3>1, <3>2 DEF Enough
    <3>4. k - 1 \in 0 .. NUM_LEVELS
      BY <1>3, <3>1
    <3>5. 2^(k - 1) \in Nat /\ 2^((k - 1) + 1) = 2 * 2^(k - 1)
      BY <3>4, PowerStep
    <3>6. 2^k = 2 * 2^(k - 1)
      BY <3>1, <3>5
    <3> QED
      BY <1>2, <3>3, <3>5, <3>6
  <2> QED
    BY <2>1, <2>2
<1> DEFINE P == {2^j : j \in 0 .. max_level}
<1>9. \E p \in P : x <= p /\ p < 2 * x
  BY <1>7, <1>8
<1> HIDE DEF P
<1>10. (CHOOSE p \in P : x <= p /\ p < 2 * x) \in P
  BY <1>9
<1>11. CellsFor(s) = CHOOSE p \in P : x <= p /\ p < 2 * x
  BY DEF CellsFor, next_pow_of_2, x, P
<1>12. CellsFor(s) \in P
  BY <1>10, <1>11
<1> QED
  BY <1>12 DEF P

(***************************************************************************)
(* Part 5.  Every step keeps the invariant: the search.                    *)
(***************************************************************************)

LEMMA FreeNodesFacts ==
  ASSUME NEW c
  PROVE  FreeNodes(c) = {m \in NodeIndexes : RegionOf(m).size = c /\ Free(m, given)}
BY DEF FreeNodes, Free, CellsAt, InUse, CellsIn

LEMMA InitBuddyInv == Init => BuddyInv
<1> SUFFICES ASSUME Init
             PROVE  BuddyInv
  OBVIOUS
<1>1. TypeOK
  <2>1. Cells \in {2^k : k \in 0 .. max_level} /\ max_level \in Nat
    BY MaxLevel DEF Cells
  <2>2. 0 \in NodeIndexes /\ Cells \in Nat /\ Cells >= 1
    BY Root
  <2>3. /\ 0 \in 0 .. Cells /\ 0 \in 0 .. (Cells - 1) /\ 0 \in 0 .. max_level
    BY <2>1, <2>2
  <2> QED
    BY <2>1, <2>2, <2>3 DEF Init, TypeOK, States
<1>2. GivenInv
  BY DEF Init, GivenInv
<1>3. ExactFor(given)
  <2>1. ASSUME NEW i \in NodeIndexes
        PROVE  Shows(i, given)
    <3>1. Free(i, given)
      BY DEF Init, Free, CellsIn
    <3>2. tree[i] = "UNUSED"
      BY DEF Init
    <3> QED
      BY <3>1, <3>2, StateFacts DEF Shows
  <2> QED
    BY <2>1 DEF ExactFor
<1> QED
  BY <1>1, <1>2, <1>3 DEF BuddyInv, Init

LEMMA MallocCallKeeps ==
  ASSUME BuddyInv, NEW s \in Requests, MallocCall(s)
  PROVE  BuddyInv'
<1>1. /\ pc = "idle" /\ TypeOK /\ GivenInv
      /\ ExactFor(given) /\ size = 0
  BY DEF BuddyInv, MallocCall
<1>2. /\ tree' = tree /\ given' = given /\ offset' = offset /\ left' = left /\ runner' = runner
      /\ index' = 0 /\ level' = 0 /\ length' = Cells /\ request' \in Requests
  BY DEF MallocCall, AtRoot
<1>3. s \in Nat
  BY BuddySLAssumption
<1>4. /\ 0 \in NodeIndexes /\ LevelOf(0) = 0 /\ RegionOf(0).size = Cells /\ RegionOf(0).addr = 0
      /\ Above(0) = {} /\ Cells \in Nat /\ max_level \in Nat
  BY Root, MaxLevel
<1>5. length' \in {2^k : k \in 0 .. max_level} /\ level' \in 0 .. max_level
  BY <1>2, <1>4 DEF Cells
<1>6. ExactFor(given)' /\ GivenInv'
  BY <1>1, <1>2 DEF ExactFor, Shows, Reachable, GivenInv
<1>7. CASE TooLarge(s)
  <2>1. pc' = "null" /\ size' = size
    BY <1>7 DEF MallocCall
  <2>2. TypeOK'
    BY <1>1, <1>2, <1>4, <1>5, <2>1 DEF TypeOK
  <2>3. NullInv'
    BY <1>1, <1>6, <2>1 DEF NullInv
  <2> QED
    BY <1>6, <2>1, <2>2, <2>3 DEF BuddyInv
<1>8. CASE ~TooLarge(s)
  <2>1. pc' = "search" /\ size' = CellsFor(s)
    BY <1>8 DEF MallocCall
  <2>2. PICK k \in 0 .. max_level : size' = 2^k
    BY <1>3, <1>8, <2>1, Rounded
  <2>3. size' \in 0 .. Cells /\ size' <= Cells
    BY <2>2, SizeFacts
  <2>4. TypeOK'
    BY <1>1, <1>2, <1>4, <1>5, <2>1, <2>3 DEF TypeOK
  <2>5. Looking'
    BY <1>2, <1>4, <2>2, <2>3 DEF Looking, Reachable, SizeInv
  <2>6. SearchInv'
    <3>1. ASSUME NEW m \in FreeNodes(size)'
          PROVE  RegionOf(m).addr >= 0
      <4>1. m \in NodeIndexes
        BY DEF FreeNodes
      <4> QED
        BY <4>1, NodeFacts
    <3>2. \A i \in NodeIndexes : Shows(i, given)'
      BY <1>6 DEF ExactFor
    <3> QED
      BY <1>2, <1>4, <2>5, <3>1, <3>2 DEF SearchInv
  <2> QED
    BY <1>6, <2>1, <2>4, <2>6 DEF BuddyInv
<1> QED
  BY <1>7, <1>8

(* The node the search is at shows its state.                              *)
LEMMA SearchShows ==
  ASSUME SearchInv
  PROVE  /\ index \in NodeIndexes /\ Reachable(index)
         /\ tree[index] = StateFor(index, given)
         /\ level = LevelOf(index) /\ length = RegionOf(index).size
         /\ size <= length /\ size \in Nat /\ size >= 1 /\ length \in Nat
<1>1. /\ index \in NodeIndexes /\ Reachable(index)
      /\ level = LevelOf(index) /\ length = RegionOf(index).size
      /\ SizeInv /\ size <= length
  BY DEF SearchInv, Looking
<1>2. index \notin Above(index)
  BY <1>1 DEF Above, NodeIndexes
<1>3. tree[index] = StateFor(index, given)
  BY <1>1, <1>2 DEF SearchInv, Shows
<1>4. size \in Nat /\ size >= 1
  BY <1>1, SizeFacts DEF SizeInv
<1>5. length \in Nat
  BY <1>1, NodeFacts
<1> QED
  BY <1>1, <1>3, <1>4, <1>5

LEMMA TakeKeeps ==
  ASSUME BuddyInv, Take
  PROVE  BuddyInv'
<1>1. pc = "search" /\ TypeOK /\ GivenInv /\ SearchInv
  BY DEF BuddyInv, Take
<1>2. /\ size = length /\ tree[index] = "UNUSED"
      /\ tree' = [tree EXCEPT ![index] = "USED"]
      /\ runner' = index /\ pc' = "mark"
      /\ size' = size /\ offset' = offset /\ index' = index /\ level' = level
      /\ length' = length /\ left' = left /\ given' = given /\ request' = request
  BY DEF Take, Takes, cursor
<1>3. /\ index \in NodeIndexes /\ Reachable(index)
      /\ tree[index] = StateFor(index, given)
      /\ Free(index, given)
  BY <1>1, <1>2, SearchShows, StateFacts
<1>4. tree \in [NodeIndexes -> States] /\ tree' \in [NodeIndexes -> States]
  BY <1>1, <1>2 DEF TypeOK, States
<1>5. /\ tree'[index] = "USED"
      /\ \A i \in NodeIndexes : i # index => tree'[i] = tree[i]
  BY <1>2, <1>3, <1>4
<1>6. TypeOK'
  BY <1>1, <1>2, <1>3, <1>4 DEF TypeOK
<1>7. GivenInv'
  BY <1>1, <1>2 DEF GivenInv
<1>8. ASSUME NEW a \in Above(index)
      PROVE  tree'[a] = "SPLIT"
  <2>1. /\ a \in NodeIndexes /\ a # index
        /\ \A b \in Above(a) : b \in Above(index)
    BY <1>3, AboveOrder
  <2>2. Reachable(a) /\ tree[a] \in {"SPLIT", "FULL"}
    BY <1>3, <2>1 DEF Reachable
  <2>3. CASE Shows(a, given)
    <3>1. tree[a] = IF Free(a, given) THEN "UNUSED" ELSE "SPLIT"
      BY <1>3, <2>2, <2>3, AboveFree DEF Shows
    <3>2. tree[a] = "SPLIT"
      BY <2>2, <3>1
    <3> QED
      BY <1>5, <2>1, <3>2
  <2>4. CASE tree[a] = "SPLIT"
    BY <1>5, <2>1, <2>4
  <2> QED
    BY <1>1, <2>1, <2>3, <2>4 DEF SearchInv
<1>9. ASSUME NEW i \in NodeIndexes, i \notin Above(index)
      PROVE  Shows(i, With(index))'
  <2>1. With(index)' = With(index)
    BY <1>2 DEF With
  <2>2. CASE i = index
    <3>1. StateFor(index, With(index)) = "USED"
      BY <1>3, WithFacts, StateFacts
    <3> QED
      BY <1>5, <2>1, <2>2, <3>1 DEF Shows
  <2>3. CASE index \in Above(i)
    BY <1>5, <2>3 DEF Shows, Reachable
  <2>4. CASE i # index /\ index \notin Above(i)
    <3>1. StateFor(i, With(index)) = StateFor(i, given)
      BY <1>3, <1>9, <2>4, Apart, Elsewhere
    <3>2. Shows(i, given)
      BY <1>1, <1>9 DEF SearchInv
    <3>3. tree'[i] = tree[i] /\ \A a \in Above(i) : tree'[a] = tree[a]
      BY <1>5, <2>4 DEF Above
    <3> QED
      BY <2>1, <3>1, <3>2, <3>3 DEF Shows, Reachable
  <2> QED
    BY <2>2, <2>3, <2>4
<1>10. Looking'
  <2>1. Reachable(index)'
    BY <1>2, <1>8 DEF Reachable
  <2> QED
    BY <1>1, <1>2, <2>1 DEF SearchInv, Looking, SizeInv
<1>11. MarkInv'
  <2>1. /\ OnPath(index, index) /\ Covered(index, With(index)) /\ Free(index, given)
    BY <1>3, WithFacts DEF OnPath
  <2>2. \A m \in FreeNodes(size)' : RegionOf(m).addr >= RegionOf(index).addr
    BY <1>1, <1>2 DEF SearchInv, FreeNodes, InUse
  <2>3. With(index)' = With(index)
    BY <1>2 DEF With
  <2>4. \A i \in NodeIndexes \ Above(index) : Shows(i, With(index))'
    BY <1>9
  <2> QED
    BY <1>2, <1>3, <1>8, <1>10, <2>1, <2>2, <2>3, <2>4 DEF MarkInv
<1> QED
  BY <1>2, <1>6, <1>7, <1>11 DEF BuddyInv

LEMMA DescendKeeps ==
  ASSUME BuddyInv, Descend
  PROVE  BuddyInv'
<1> DEFINE l == 2 * index + 1
           r == 2 * index + 2
<1>1. pc = "search" /\ TypeOK /\ GivenInv /\ SearchInv
  BY DEF BuddyInv, Descend
<1>2. /\ size # length /\ tree[index] \in {"UNUSED", "SPLIT"}
      /\ tree' = Split(index)
      /\ pc' = pc /\ size' = size /\ offset' = offset /\ left' = left
      /\ runner' = runner /\ given' = given /\ request' = request
      /\ index' = index * 2 + 1 /\ level' = level + 1 /\ length' = length \div 2
  BY DEF Descend
<1>3. /\ index \in NodeIndexes /\ index \in Nat /\ Reachable(index)
      /\ tree[index] = StateFor(index, given)
      /\ level = LevelOf(index) /\ length = RegionOf(index).size
      /\ size <= length /\ size \in Nat /\ size >= 1 /\ length \in Nat
  BY <1>1, SearchShows DEF NodeIndexes
<1>4. /\ size \in {2^k : k \in 0 .. max_level} /\ length \in {2^k : k \in 0 .. max_level}
      /\ 2 * size <= length
  <2>1. PICK k \in 0 .. max_level : size = 2^k
    BY <1>1 DEF SearchInv, Looking, SizeInv
  <2>2. PICK j \in 0 .. max_level : length = 2^j
    BY <1>3, NodeFacts
  <2>3. size < length
    BY <1>2, <1>3
  <2> QED
    BY <2>1, <2>2, <2>3, SizeOrder
<1>5. LevelOf(index) < max_level
  <2>1. LevelOf(index) # max_level
    <3>1. SUFFICES ASSUME LevelOf(index) = max_level
                   PROVE  FALSE
      OBVIOUS
    <3>2. max_level - max_level = 0 /\ 2^0 = 1
      BY MaxLevel
    <3>3. length = 2^(max_level - max_level)
      BY <1>3, <3>1, NodeFacts
    <3>4. length = 1
      BY <3>2, <3>3
    <3> QED
      BY <1>3, <1>4, <3>4
  <2> QED
    BY <1>3, <2>1, LevelTypes
<1>6. /\ l \in NodeIndexes /\ r \in NodeIndexes /\ l # 0 /\ r # 0 /\ l # index /\ r # index /\ l # r
      /\ l > index /\ r > index
      /\ LevelOf(l) = LevelOf(index) + 1
      /\ RegionOf(index).size = 2 * RegionOf(l).size
      /\ RegionOf(l).addr = RegionOf(index).addr
  BY <1>3, <1>5, ChildFacts
<1>7. /\ CellsAt(index) = CellsAt(l) \cup CellsAt(r)
  BY <1>3, <1>5, HalvesOf
<1>8. ParentOf(l) = index /\ ParentOf(r) = index
  BY <1>3 DEF ParentOf
<1>9. Above(l) = {index} \cup Above(index) /\ Above(r) = {index} \cup Above(index)
  BY <1>6, <1>8, AboveStep
<1>10. index' = l
  BY <1>2, <1>3
<1>11. RegionOf(l).size \in Nat /\ length' = RegionOf(l).size
  <2>1. RegionOf(l).size \in Nat
    BY <1>6, NodeFacts
  <2>2. length' = (2 * RegionOf(l).size) \div 2
    BY <1>2, <1>3, <1>6
  <2> QED
    BY <2>1, <2>2
<1> HIDE DEF l, r
<1>12. tree \in [NodeIndexes -> States]
  BY <1>1 DEF TypeOK
<1>13. /\ tree' \in [NodeIndexes -> States] /\ tree'[index] = "SPLIT"
       /\ \A i \in NodeIndexes : i \notin {index, l, r} => tree'[i] = tree[i]
       /\ tree[index] = "SPLIT" => tree' = tree
       /\ tree[index] = "UNUSED" => tree'[l] = "UNUSED" /\ tree'[r] = "UNUSED"
  <2>1. CASE tree[index] = "SPLIT"
    BY <1>2, <1>12, <2>1 DEF Split, States
  <2>2. CASE tree[index] = "UNUSED"
    <3>1. tree' = [tree EXCEPT ![index] = "SPLIT", ![l] = "UNUSED", ![r] = "UNUSED"]
      BY <1>2, <2>2 DEF Split, l, r
    <3> QED
      BY <1>3, <1>6, <1>12, <2>2, <3>1 DEF States
  <2> QED
    BY <1>2, <2>1, <2>2
<1>14. \A a \in Above(index) : a \in NodeIndexes /\ a \notin {index, l, r} /\ tree'[a] = tree[a]
  <2>1. ASSUME NEW a \in Above(index)
        PROVE  a \in NodeIndexes /\ a \notin {index, l, r}
    <3>1. a \in NodeIndexes /\ a \in Nat /\ a < index
      BY <1>3, AboveOrder
    <3> QED
      BY <1>3, <1>6, <3>1 DEF NodeIndexes
  <2> QED
    BY <1>13, <2>1
<1>15. TypeOK'
  <2>1. LevelOf(l) \in 0 .. max_level
    BY <1>6, LevelTypes
  <2>2. length' \in {2^k : k \in 0 .. max_level}
    BY <1>6, <1>11, NodeFacts
  <2>3. level' \in 0 .. max_level
    BY <1>2, <1>3, <1>6, <2>1
  <2> QED
    BY <1>1, <1>2, <1>6, <1>10, <1>13, <2>2, <2>3 DEF TypeOK
<1>16. Looking'
  <2>1. \A a \in Above(l) : tree'[a] \in {"SPLIT", "FULL"}
    BY <1>3, <1>9, <1>13, <1>14 DEF Reachable
  <2>2. Reachable(index)'
    BY <1>10, <2>1 DEF Reachable
  <2>3. size <= RegionOf(l).size
    BY <1>3, <1>4, <1>6, <1>11
  <2>4. level' = LevelOf(index') /\ length' = RegionOf(index').size
    BY <1>2, <1>3, <1>6, <1>10, <1>11
  <2>5. SizeInv' /\ size' <= length' /\ index' \in NodeIndexes
    BY <1>2, <1>4, <1>6, <1>10, <1>11, <2>3 DEF SizeInv
  <2> QED
    BY <2>2, <2>4, <2>5 DEF Looking
(* A node that is neither index nor below it is as it was. *)
<1>17. ASSUME NEW i \in NodeIndexes, i # index, index \notin Above(i)
       PROVE  tree'[i] = tree[i] /\ (Reachable(i)' <=> Reachable(i))
  <2>1. \A j \in NodeIndexes : l \in Above(j) => index \in Above(j)
    BY <1>9, AboveOrder
  <2>2. \A j \in NodeIndexes : r \in Above(j) => index \in Above(j)
    BY <1>9, AboveOrder
  <2>3. i # l /\ i # r
    BY <1>9, <1>17
  <2>4. \A a \in Above(i) : a \in NodeIndexes /\ a \notin {index, l, r}
    BY <1>17, <2>1, <2>2, AboveOrder
  <2> QED
    BY <1>13, <1>17, <2>3, <2>4 DEF Reachable
<1>18. ASSUME NEW i \in NodeIndexes
       PROVE  \/ Shows(i, given)'
              \/ (i \in Above(l) /\ tree'[i] = "SPLIT" /\ Free(i, given)')
  <2>1. Shows(i, given) \/ (i \in Above(index) /\ tree[i] = "SPLIT" /\ Free(i, given))
    BY <1>1 DEF SearchInv
  <2>2. CASE tree[index] = "SPLIT"
    <3>1. tree' = tree
      BY <1>13, <2>2
    <3> QED
      BY <1>2, <1>9, <2>1, <3>1 DEF Shows, Reachable
  <2>3. CASE tree[index] = "UNUSED"
    <3>1. Free(index, given)
      BY <1>3, <2>3, StateFacts
    <3>2. CASE i = index
      BY <1>2, <1>9, <1>13, <3>1, <3>2
    <3>3. CASE i # index /\ index \notin Above(i)
      <4>1. tree'[i] = tree[i] /\ (Reachable(i)' <=> Reachable(i))
        BY <1>17, <3>3
      <4> QED
        BY <1>2, <1>9, <2>1, <4>1 DEF Shows
    <3>4. CASE index \in Above(i)
      <4>1. CASE i = l \/ i = r
        <5>1. tree'[i] = "UNUSED" /\ CellsAt(i) \subseteq CellsAt(index)
          BY <1>7, <1>13, <2>3, <4>1
        <5>2. Free(i, given)
          BY <3>1, <5>1, Within
        <5>3. StateFor(i, given) = "UNUSED"
          BY <5>2, StateFacts
        <5> QED
          BY <1>2, <5>1, <5>3 DEF Shows
      <4>2. CASE i # l /\ i # r
        <5>1. CellsAt(i) \subseteq CellsAt(l) \cup CellsAt(r) /\ CellsAt(i) # {}
          BY <1>7, <3>4, AboveOrder, CellsFacts
        <5>2. i \notin Above(index)
          <6>1. index < i /\ i \in Nat
            BY <3>4, AboveOrder DEF NodeIndexes
          <6> QED
            BY <1>3, <6>1, AboveOrder
        <5>3. PICK c \in {l, r} : CellsAt(i) \cap CellsAt(c) # {}
          BY <5>1
        <5>4. c \in NodeIndexes /\ i # c /\ i \notin Above(c)
          BY <1>6, <1>9, <3>4, <4>2, <5>2, <5>3 DEF Above, NodeIndexes
        <5>5. c \in Above(i)
          BY <5>3, <5>4, Meeting
        <5>6. tree'[c] = "UNUSED"
          BY <1>13, <2>3, <5>3
        <5> QED
          BY <5>5, <5>6 DEF Shows, Reachable
      <4> QED
        BY <4>1, <4>2
    <3> QED
      BY <3>2, <3>3, <3>4
  <2> QED
    BY <1>2, <2>2, <2>3
<1>19. SearchInv'
  <2>1. \A m \in FreeNodes(size)' : RegionOf(m).addr >= RegionOf(l).addr
    BY <1>1, <1>2, <1>6 DEF SearchInv, FreeNodes, InUse
  <2> QED
    BY <1>10, <1>16, <1>18, <2>1 DEF SearchInv
<1>20. GivenInv'
  BY <1>1, <1>2 DEF GivenInv
<1> QED
  BY <1>1, <1>2, <1>15, <1>19, <1>20 DEF BuddyInv

(* Where the search finds no use for a node, no node of the size wanted is *)
(* free in it, and no node above was split for nothing.                    *)
LEMMA SkipInVain ==
  ASSUME SearchInv,
         IF size = length THEN ~Takes(index) ELSE tree[index] \in {"USED", "FULL"}
  PROVE  /\ ExactFor(given)
         /\ \A m \in FreeNodes(size) : RegionOf(m).addr >= RegionOf(index).addr + length
<1>1. /\ index \in NodeIndexes /\ index \in Nat /\ Reachable(index)
      /\ tree[index] = StateFor(index, given)
      /\ length = RegionOf(index).size
      /\ size <= length /\ size \in Nat /\ size >= 1 /\ length \in Nat
  BY SearchShows DEF NodeIndexes
<1>2. tree[index] # "UNUSED"
  BY DEF Takes
<1>3. ~Free(index, given)
  BY <1>1, <1>2, StateFacts
<1>4. ASSUME NEW i \in NodeIndexes
      PROVE  Shows(i, given)
  <2>1. ~(i \in Above(index) /\ Free(i, given))
    BY <1>1, <1>3, AboveOrder, Within
  <2> QED
    BY <2>1 DEF SearchInv
<1>5. ASSUME NEW m \in FreeNodes(size)
      PROVE  RegionOf(m).addr >= RegionOf(index).addr + length
  <2>1. m \in NodeIndexes /\ RegionOf(m).size = size /\ Free(m, given)
    BY FreeNodesFacts
  <2>2. /\ RegionOf(m).addr \in Nat /\ RegionOf(m).addr \in CellsAt(m)
        /\ RegionOf(index).addr \in Nat
        /\ CellsAt(index) = RegionOf(index).addr .. (RegionOf(index).addr + length - 1)
    BY <1>1, <2>1, NodeFacts, CellsFacts
  <2>3. RegionOf(m).addr >= RegionOf(index).addr
    BY <1>5 DEF SearchInv
  <2>4. SUFFICES ASSUME ~(RegionOf(m).addr >= RegionOf(index).addr + length)
                 PROVE  FALSE
    OBVIOUS
  <2>5. RegionOf(m).addr \in CellsAt(index)
    BY <1>1, <2>2, <2>3, <2>4
  <2>6. m = index \/ m \in Above(index) \/ index \in Above(m)
    BY <1>1, <2>1, <2>2, <2>5, Meeting
  <2>7. m # index
    BY <1>3, <2>1
  <2>8. m \notin Above(index)
    BY <1>1, <1>3, <2>1, AboveOrder, Within
  <2>9. index \in Above(m)
    BY <2>6, <2>7, <2>8
  <2>10. 2 * size <= length /\ CellsAt(m) \subseteq CellsAt(index)
    BY <1>1, <2>1, <2>9, AboveOrder
  <2>11. tree[index] \in {"USED", "FULL"}
    BY <1>1, <2>10
  <2>12. Covered(m, given)
    BY <1>1, <2>10, <2>11, StateFacts, Within
  <2> QED
    BY <2>1, <2>12, StateFacts
<1> QED
  BY <1>4, <1>5 DEF ExactFor

LEMMA SkipKeeps ==
  ASSUME BuddyInv, Skip
  PROVE  BuddyInv'
<1>1. pc = "search" /\ TypeOK /\ GivenInv /\ SearchInv
  BY DEF BuddyInv, Skip
<1>2. /\ IF size = length THEN ~Takes(index) ELSE tree[index] \in {"USED", "FULL"}
      /\ tree' = tree /\ size' = size /\ offset' = offset /\ left' = left
      /\ runner' = runner /\ given' = given /\ request' = request /\ level' = level /\ length' = length
  BY DEF Skip
<1>3. /\ ExactFor(given)
      /\ \A m \in FreeNodes(size) : RegionOf(m).addr >= RegionOf(index).addr + length
  BY <1>1, <1>2, SkipInVain
<1>4. /\ index \in NodeIndexes /\ Reachable(index)
      /\ level = LevelOf(index) /\ length = RegionOf(index).size
      /\ size <= length /\ SizeInv
  BY <1>1 DEF SearchInv, Looking
<1>5. ExactFor(given)' /\ GivenInv'
  BY <1>1, <1>2, <1>3 DEF ExactFor, Shows, Reachable, GivenInv
<1>6. CASE IsOdd(index)
  <2>1. index' = index + 1 /\ pc' = pc
    BY <1>6 DEF Skip, RightOf
  <2>2. index # 0
    BY <1>6 DEF IsOdd
  <2>3. /\ index + 1 \in NodeIndexes /\ index < index + 1
        /\ LevelOf(index + 1) = LevelOf(index) /\ Above(index + 1) = Above(index)
    <3>1. index \in Nat
      BY <1>4 DEF NodeIndexes
    <3> QED
      BY <1>4, <1>6, <2>2, <3>1, BuddyFacts
  <2>4. /\ RegionOf(index + 1).size = length
        /\ RegionOf(index + 1).addr = RegionOf(index).addr + length
    BY <1>4, <2>3, LevelOrder
  <2>5. Looking'
    BY <1>2, <1>4, <2>1, <2>3, <2>4 DEF Looking, Reachable, SizeInv
  <2>6. SearchInv'
    <3>1. \A m \in FreeNodes(size)' : RegionOf(m).addr >= RegionOf(index + 1).addr
      BY <1>2, <1>3, <2>4 DEF FreeNodes, InUse
    <3> QED
      BY <1>5, <2>1, <2>5, <3>1 DEF SearchInv, ExactFor
  <2>7. TypeOK'
    BY <1>1, <1>2, <2>1, <2>3 DEF TypeOK
  <2> QED
    BY <1>1, <1>5, <2>1, <2>6, <2>7 DEF BuddyInv
<1>7. CASE ~IsOdd(index)
  <2>1. index' = index /\ pc' = "climb"
    BY <1>7 DEF Skip
  <2>2. Looking'
    BY <1>2, <1>4, <2>1 DEF Looking, Reachable, SizeInv
  <2>3. ClimbInv'
    <3>1. \A m \in FreeNodes(size)' : RegionOf(m).addr >= RegionOf(index).addr + length
      BY <1>2, <1>3 DEF FreeNodes, InUse
    <3> QED
      BY <1>2, <1>5, <1>7, <2>1, <2>2, <3>1 DEF ClimbInv
  <2>4. TypeOK'
    BY <1>1, <1>2, <2>1 DEF TypeOK
  <2> QED
    BY <1>5, <2>1, <2>3, <2>4 DEF BuddyInv
<1> QED
  BY <1>6, <1>7

LEMMA ClimbKeeps ==
  ASSUME BuddyInv, Climb
  PROVE  BuddyInv'
<1> DEFINE up == ParentOf(index)
<1>1. pc = "climb" /\ TypeOK /\ GivenInv /\ ClimbInv
  BY DEF BuddyInv, Climb
<1>2. /\ tree' = tree /\ size' = size /\ offset' = offset /\ left' = left
      /\ runner' = runner /\ given' = given /\ request' = request
  BY DEF Climb
<1>3. /\ index \in NodeIndexes /\ index \in Nat /\ Reachable(index) /\ ~IsOdd(index)
      /\ level = LevelOf(index) /\ length = RegionOf(index).size
      /\ size <= length /\ SizeInv /\ ExactFor(given)
      /\ \A m \in FreeNodes(size) : RegionOf(m).addr >= RegionOf(index).addr + length
  BY <1>1 DEF ClimbInv, Looking, NodeIndexes
<1>4. ExactFor(given)' /\ GivenInv'
  BY <1>1, <1>2, <1>3 DEF ExactFor, Shows, Reachable, GivenInv
<1>5. size \in Nat /\ size >= 1 /\ length \in Nat
  <2>1. size \in Nat /\ size >= 1
    BY <1>3, SizeFacts DEF SizeInv
  <2> QED
    BY <1>3, <2>1, NodeFacts
<1>6. CASE index = 0
  <2>1. up < 0
    BY <1>6 DEF ParentOf
  <2>2. pc' = "null" /\ cursor' = cursor
    BY <2>1 DEF Climb
  <2>3. ASSUME NEW m \in FreeNodes(size)
        PROVE  FALSE
    <3>1. m \in NodeIndexes /\ RegionOf(m).size = size
      BY FreeNodesFacts
    <3>2. RegionOf(m).addr \in Nat /\ RegionOf(m).addr + size <= Cells
      BY <3>1, NodeFacts
    <3>3. RegionOf(m).addr >= 0 + Cells /\ Cells \in Nat
      BY <1>3, <1>6, <2>3, Root
    <3> QED
      BY <1>5, <3>2, <3>3
  <2>4. NullInv'
    BY <1>2, <1>4, <2>3 DEF NullInv, FreeNodes, InUse
  <2>5. TypeOK'
    BY <1>1, <1>2, <2>2 DEF TypeOK, cursor
  <2> QED
    BY <1>4, <2>2, <2>4, <2>5 DEF BuddyInv
<1>7. CASE index # 0
  <2>1. /\ up \in NodeIndexes /\ up \in Nat /\ index = 2 * up + 2
        /\ LevelOf(up) < max_level /\ LevelOf(index) = LevelOf(up) + 1
    BY <1>3, <1>7, ParentFacts
  <2>2. ~(up < 0)
    BY <2>1
  <2>3. /\ level' = level - 1 /\ length' = length * 2
        /\ index' = IF IsOdd(up) THEN RightOf(up) ELSE up
        /\ pc' = IF IsOdd(up) THEN "search" ELSE "climb"
    BY <2>2 DEF Climb
  <2> HIDE DEF up
  <2>4. /\ RegionOf(up).size = 2 * RegionOf(2 * up + 1).size
        /\ RegionOf(index).size = RegionOf(2 * up + 1).size
        /\ RegionOf(index).addr = RegionOf(up).addr + RegionOf(2 * up + 1).size
    BY <2>1, ChildFacts
  <2>5. /\ RegionOf(up).addr \in Nat /\ RegionOf(up).size \in Nat /\ LevelOf(up) \in Nat
        /\ LevelOf(up) \in 0 .. max_level /\ RegionOf(up).size \in {2^k : k \in 0 .. max_level}
    BY <2>1, NodeFacts, LevelTypes
  <2>6. /\ level' = LevelOf(up) /\ length' = RegionOf(up).size
        /\ RegionOf(up).addr + length' = RegionOf(index).addr + length
        /\ size <= length'
    BY <1>3, <1>5, <2>1, <2>3, <2>4, <2>5
  <2>7. Reachable(up)
    <3>1. ParentOf(index) = up
      BY DEF up
    <3>2. Above(up) \subseteq Above(index)
      BY <1>3, <1>7, <3>1, AboveStep
    <3> QED
      BY <1>3, <3>2 DEF Reachable
  <2>8. CASE IsOdd(up)
    <3>1. index' = up + 1 /\ pc' = "search" /\ up # 0 /\ up < up + 1
      BY <2>1, <2>3, <2>8 DEF RightOf, IsOdd
    <3>2. /\ up + 1 \in NodeIndexes
          /\ LevelOf(up + 1) = LevelOf(up) /\ Above(up + 1) = Above(up)
      BY <2>1, <2>8, <3>1, BuddyFacts
    <3>3. /\ RegionOf(up + 1).size = RegionOf(up).size
          /\ RegionOf(up + 1).addr = RegionOf(up).addr + RegionOf(up).size
      BY <2>1, <3>1, <3>2, LevelOrder
    <3>4. Looking'
      BY <1>2, <1>3, <2>6, <2>7, <3>1, <3>2, <3>3 DEF Looking, Reachable, SizeInv
    <3>5. SearchInv'
      <4>1. \A m \in FreeNodes(size)' : RegionOf(m).addr >= RegionOf(up + 1).addr
        BY <1>2, <1>3, <2>6, <3>3 DEF FreeNodes, InUse
      <4> QED
        BY <1>4, <3>1, <3>4, <4>1 DEF SearchInv, ExactFor
    <3>6. TypeOK'
      BY <1>1, <1>2, <2>5, <2>6, <3>1, <3>2 DEF TypeOK
    <3> QED
      BY <1>4, <3>1, <3>5, <3>6 DEF BuddyInv
  <2>9. CASE ~IsOdd(up)
    <3>1. index' = up /\ pc' = "climb"
      BY <2>3, <2>9
    <3>2. Looking'
      BY <1>2, <1>3, <2>1, <2>6, <2>7, <3>1 DEF Looking, Reachable, SizeInv
    <3>3. ClimbInv'
      <4>1. \A m \in FreeNodes(size)' : RegionOf(m).addr >= RegionOf(up).addr + length'
        BY <1>2, <1>3, <2>6 DEF FreeNodes, InUse
      <4> QED
        BY <1>4, <2>9, <3>1, <3>2, <4>1 DEF ClimbInv
    <3>4. TypeOK'
      BY <1>1, <1>2, <2>1, <2>5, <2>6, <3>1 DEF TypeOK
    <3> QED
      BY <1>4, <3>1, <3>3, <3>4 DEF BuddyInv
  <2> QED
    BY <2>8, <2>9
<1> QED
  BY <1>6, <1>7

(***************************************************************************)
(* Part 6.  Every step keeps the invariant: marking.                       *)
(***************************************************************************)

LEMMA RootHasNoBuddy == BuddyOf(0) = -1 /\ ParentOf(0) = -1
<1>1. 0 % 2 = 0 /\ (0 + 1) \div 2 = 0
  OBVIOUS
<1> QED
  BY <1>1 DEF BuddyOf, ParentOf

(* While marking, the buddy of runner shows its state.                     *)
LEMMA MarkShows ==
  ASSUME MarkInv
  PROVE  /\ index \in NodeIndexes /\ runner \in NodeIndexes
         /\ runner # 0 =>
              /\ BuddyOf(runner) > 0 /\ BuddyOf(runner) \in NodeIndexes
              /\ tree[BuddyOf(runner)] = StateFor(BuddyOf(runner), With(index))
         /\ Above(runner) \subseteq Above(index)
<1>1. /\ index \in NodeIndexes /\ runner \in NodeIndexes /\ OnPath(runner, index)
      /\ \A a \in Above(runner) : tree[a] = "SPLIT"
      /\ \A i \in NodeIndexes \ Above(runner) : Shows(i, With(index))
  BY DEF MarkInv, Looking
<1>2. ASSUME runner # 0
      PROVE  /\ BuddyOf(runner) > 0 /\ BuddyOf(runner) \in NodeIndexes
             /\ tree[BuddyOf(runner)] = StateFor(BuddyOf(runner), With(index))
  <2>1. /\ BuddyOf(runner) \in NodeIndexes /\ BuddyOf(runner) # 0 /\ BuddyOf(runner) \in Nat
        /\ Above(BuddyOf(runner)) = Above(runner)
    BY <1>1, <1>2, BuddyFacts
  <2>2. BuddyOf(runner) \notin Above(runner)
    <3>1. BuddyOf(runner) \notin Above(BuddyOf(runner))
      BY <2>1 DEF Above
    <3> QED
      BY <2>1, <3>1
  <2>3. Reachable(BuddyOf(runner))
    BY <1>1, <2>1 DEF Reachable
  <2> QED
    BY <1>1, <2>1, <2>2, <2>3 DEF Shows
<1>3. Above(runner) \subseteq Above(index)
  BY <1>1, AboveOrder DEF OnPath
<1> QED
  BY <1>1, <1>2, <1>3

LEMMA MarkParentKeeps ==
  ASSUME BuddyInv, MarkParent
  PROVE  BuddyInv'
<1> DEFINE p == ParentOf(runner)
           b == BuddyOf(runner)
<1>1. pc = "mark" /\ TypeOK /\ GivenInv /\ MarkInv
  BY DEF BuddyInv, MarkParent
<1>2. /\ b > 0 /\ tree[b] \in {"USED", "FULL"}
      /\ runner' = p /\ tree' = [tree EXCEPT ![p] = "FULL"]
      /\ pc' = pc /\ size' = size /\ offset' = offset /\ left' = left /\ given' = given /\ request' = request
      /\ index' = index /\ level' = level /\ length' = length
  BY DEF MarkParent, Taken, cursor
<1>3. /\ index \in NodeIndexes /\ runner \in NodeIndexes /\ runner # 0
      /\ b \in NodeIndexes /\ tree[b] = StateFor(b, With(index))
      /\ Above(runner) \subseteq Above(index)
  <2>1. runner # 0
    BY <1>2, RootHasNoBuddy
  <2> QED
    BY <1>1, <2>1, MarkShows
<1>4. /\ Looking /\ size = length /\ Free(index, given)
      /\ OnPath(runner, index) /\ Covered(runner, With(index))
      /\ \A a \in Above(runner) : tree[a] = "SPLIT"
      /\ \A i \in NodeIndexes \ Above(runner) : Shows(i, With(index))
  BY <1>1 DEF MarkInv
<1>5. /\ p \in NodeIndexes /\ p \notin Above(p) /\ Above(runner) = {p} \cup Above(p)
  BY <1>3, AboveStep
<1>6. p \in Above(index) /\ tree[p] = "SPLIT"
  BY <1>3, <1>4, <1>5
<1>7. Covered(p, With(index))
  <2>1. Covered(b, With(index))
    BY <1>2, <1>3, StateFacts
  <2> QED
    BY <1>3, <1>4, <2>1, HalvesStates
<1>8. StateFor(p, With(index)) = "FULL"
  BY <1>3, <1>4, <1>6, <1>7, AboveFree
<1> HIDE DEF p, b
<1>9. tree \in [NodeIndexes -> States]
  BY <1>1 DEF TypeOK
<1>10. /\ tree' \in [NodeIndexes -> States] /\ tree'[p] = "FULL"
       /\ \A i \in NodeIndexes : i # p => tree'[i] = tree[i]
  BY <1>2, <1>5, <1>9 DEF States
<1>11. \A i \in NodeIndexes : Reachable(i)' <=> Reachable(i)
  <2>1. ASSUME NEW i \in NodeIndexes, NEW a \in Above(i)
        PROVE  tree'[a] \in {"SPLIT", "FULL"} <=> tree[a] \in {"SPLIT", "FULL"}
    BY <1>6, <1>10 DEF Above
  <2> QED
    BY <2>1 DEF Reachable
<1>12. TypeOK'
  BY <1>1, <1>2, <1>5, <1>10 DEF TypeOK
<1>13. GivenInv'
  BY <1>1, <1>2 DEF GivenInv
<1>14. Looking'
  <2>1. Reachable(index)
    BY <1>4 DEF Looking
  <2>2. Reachable(index)'
    BY <1>2, <1>3, <1>11, <2>1 DEF Reachable
  <2> QED
    BY <1>2, <1>4, <2>2 DEF Looking, SizeInv
<1>15. \A a \in Above(p) : tree'[a] = "SPLIT"
  BY <1>4, <1>5, <1>10 DEF Above
<1>16. ASSUME NEW i \in NodeIndexes \ Above(p)
       PROVE  Reachable(i)' => tree'[i] = StateFor(i, With(index))
  <2>1. CASE i = p
    BY <1>8, <1>10, <2>1
  <2>2. CASE i # p
    <3>1. Shows(i, With(index))
      BY <1>4, <1>5, <2>2
    <3> QED
      BY <1>10, <1>11, <2>2, <3>1 DEF Shows
  <2> QED
    BY <2>1, <2>2
<1>17. MarkInv'
  <2>1. With(index)' = With(index)
    BY <1>2 DEF With
  <2>2. \A i \in NodeIndexes \ Above(p) : Shows(i, With(index))'
    BY <1>16, <2>1 DEF Shows
  <2>3. \A m \in FreeNodes(size)' : RegionOf(m).addr >= RegionOf(index).addr
    BY <1>1, <1>2 DEF MarkInv, FreeNodes, InUse
  <2>4. OnPath(p, index)
    BY <1>6 DEF OnPath
  <2> QED
    BY <1>2, <1>4, <1>5, <1>7, <1>14, <1>15, <2>1, <2>2, <2>3, <2>4 DEF MarkInv
<1> QED
  BY <1>1, <1>2, <1>12, <1>13, <1>17 DEF BuddyInv

(* The initial values of the local variables are of their types. *)
LEMMA ReturnTypes ==
  ASSUME Return
  PROVE  /\ size' \in 0 .. Cells /\ offset' \in 0 .. (Cells - 1)
         /\ index' \in NodeIndexes \cup {-1} /\ level' \in 0 .. max_level
         /\ length' \in {2^k : k \in 0 .. max_level} /\ left' \in 0 .. (Cells - 1)
         /\ runner' \in NodeIndexes /\ pc' = "idle" /\ size' = 0 /\ left' = 0
         /\ request' = 0
<1>1. /\ pc' = "idle" /\ size' = 0 /\ offset' = 0 /\ left' = 0 /\ runner' = 0 /\ request' = 0
      /\ index' = 0 /\ level' = 0 /\ length' = Cells
  BY DEF Return, AtRoot
<1>2. 0 \in NodeIndexes /\ Cells \in Nat /\ Cells >= 1 /\ max_level \in Nat
  BY Root, MaxLevel
<1>3. 0 \in 0 .. Cells /\ 0 \in 0 .. (Cells - 1) /\ 0 \in 0 .. max_level /\ max_level \in 0 .. max_level
  BY <1>2
<1> QED
  BY <1>1, <1>2, <1>3 DEF Cells

LEMMA MallocReturnGives ==
  ASSUME BuddyInv, MallocReturn
  PROVE  /\ pc = "mark" /\ MarkInv
         /\ given' = With(index) /\ Return /\ tree' = tree
<1>1. pc = "mark" /\ MarkInv /\ Return /\ tree' = tree
  BY DEF BuddyInv, MallocReturn
<1>2. given' = given \cup {[addr |-> _index_offset(index, level), size |-> size]}
  BY DEF MallocReturn
<1>3. index \in NodeIndexes /\ level = LevelOf(index) /\ size = RegionOf(index).size
  BY <1>1 DEF MarkInv, Looking
<1>4. [addr |-> _index_offset(index, level), size |-> size] = RegionOf(index)
  BY <1>3 DEF RegionOf
<1> QED
  BY <1>1, <1>2, <1>4 DEF With

LEMMA MallocReturnKeeps ==
  ASSUME BuddyInv, MallocReturn
  PROVE  BuddyInv'
<1>1. pc = "mark" /\ TypeOK /\ GivenInv /\ MarkInv
  BY DEF BuddyInv, MallocReturn
<1>2. given' = With(index) /\ Return /\ tree' = tree
  BY MallocReturnGives
<1>3. /\ index \in NodeIndexes /\ runner \in NodeIndexes
      /\ runner # 0 =>
           /\ BuddyOf(runner) > 0 /\ BuddyOf(runner) \in NodeIndexes
           /\ tree[BuddyOf(runner)] = StateFor(BuddyOf(runner), With(index))
      /\ Above(runner) \subseteq Above(index)
  BY <1>1, MarkShows
<1>4. /\ Free(index, given)
      /\ \A a \in Above(runner) : tree[a] = "SPLIT"
      /\ \A i \in NodeIndexes \ Above(runner) : Shows(i, With(index))
  BY <1>1 DEF MarkInv
(* The nodes above runner keep a free cell: the walk stopped.              *)
<1>5. ASSUME NEW a \in Above(runner)
      PROVE  tree[a] = StateFor(a, With(index))
  <2>1. runner # 0
    BY <1>5, Root
  <2>2. ~Covered(BuddyOf(runner), With(index))
    <3>1. ~(BuddyOf(runner) > 0 /\ Taken(BuddyOf(runner)))
      BY DEF MallocReturn
    <3> QED
      BY <1>3, <2>1, <3>1, StateFacts DEF Taken
  <2>3. /\ Above(BuddyOf(runner)) = Above(runner)
    BY <1>3, <2>1, BuddyFacts
  <2>4. CellsAt(BuddyOf(runner)) \subseteq CellsAt(a)
    BY <1>3, <2>1, <2>3, AboveOrder
  <2>5. ~Covered(a, With(index))
    BY <2>2, <2>4, Within
  <2>6. StateFor(a, With(index)) = "SPLIT"
    BY <1>3, <1>4, <2>5, AboveFree
  <2> QED
    BY <1>4, <2>6
<1>6. ExactFor(With(index))
  <2>1. \A i \in NodeIndexes : Shows(i, With(index))
    BY <1>4, <1>5 DEF Shows
  <2> QED
    BY <2>1 DEF ExactFor
<1>7. ExactFor(given)'
  BY <1>2, <1>6 DEF ExactFor, Shows, Reachable
<1>8. GivenInv'
  <2>1. \A r \in With(index) : \E n \in NodeIndexes : r = RegionOf(n)
    BY <1>1, <1>3 DEF With, GivenInv
  <2>2. \A r \in given : CellsOf(r) \cap CellsOf(RegionOf(index)) = {}
    BY <1>4 DEF Free, CellsIn, CellsAt
  <2>3. ASSUME NEW q \in With(index), NEW r \in With(index), q # r
        PROVE  CellsOf(q) \cap CellsOf(r) = {}
    <3>1. CASE q \in given /\ r \in given
      BY <1>1, <2>3, <3>1 DEF GivenInv
    <3>2. CASE q = RegionOf(index) \/ r = RegionOf(index)
      BY <2>2, <2>3, <3>2 DEF With
    <3> QED
      BY <3>1, <3>2 DEF With
  <2> QED
    BY <1>2, <2>1, <2>3 DEF GivenInv
<1>9. TypeOK'
  BY <1>1, <1>2, ReturnTypes DEF TypeOK
<1> QED
  BY <1>2, <1>7, <1>8, <1>9, ReturnTypes DEF BuddyInv

LEMMA MallocReturnNullKeeps ==
  ASSUME BuddyInv, MallocReturnNull
  PROVE  BuddyInv'
<1>1. pc = "null" /\ TypeOK /\ GivenInv /\ NullInv /\ Return /\ tree' = tree /\ given' = given
  BY DEF BuddyInv, MallocReturnNull
<1>2. ExactFor(given)' /\ GivenInv'
  BY <1>1 DEF NullInv, ExactFor, Shows, Reachable, GivenInv
<1>3. TypeOK'
  BY <1>1, ReturnTypes DEF TypeOK
<1> QED
  BY <1>1, <1>2, <1>3, ReturnTypes DEF BuddyInv

(***************************************************************************)
(* Part 7.  Every step keeps the invariant: releasing.                     *)
(***************************************************************************)

LEMMA FreeCallKeeps ==
  ASSUME BuddyInv, NEW r \in given, FreeCall(r)
  PROVE  BuddyInv'
<1>1. pc = "idle" /\ TypeOK /\ GivenInv /\ ExactFor(given) /\ left = 0
  BY DEF BuddyInv, FreeCall
<1>3. PICK n \in NodeIndexes : r = RegionOf(n)
  BY <1>1 DEF GivenInv
(* The address is in the arena: the first assertion. *)
<1>0. r.addr < Cells
  <2>1. /\ RegionOf(n).addr \in Nat /\ RegionOf(n).size \in Nat /\ RegionOf(n).size >= 1
        /\ RegionOf(n).addr + RegionOf(n).size <= Cells /\ Cells \in Nat
    BY NodeFacts, Root
  <2> QED
    BY <1>3, <2>1
<1>2. /\ given' = given \ {r} /\ offset' = r.addr /\ pc' = "locate"
      /\ index' = 0 /\ level' = 0 /\ length' = Cells /\ request' = request
      /\ tree' = tree /\ size' = size /\ left' = left /\ runner' = runner
  BY <1>0 DEF FreeCall, AtRoot
<1>4. /\ 0 \in NodeIndexes /\ LevelOf(0) = 0 /\ RegionOf(0).size = Cells /\ RegionOf(0).addr = 0
      /\ Above(0) = {} /\ Cells \in Nat /\ max_level \in Nat /\ CellsAt(0) = 0 .. (Cells - 1)
  BY Root, MaxLevel
<1>5. With(n)' = given
  BY <1>2, <1>3 DEF With
<1>6. Free(n, given)'
  <2>1. \A q \in given \ {r} : CellsOf(q) \cap CellsAt(n) = {}
    BY <1>1, <1>3 DEF GivenInv, CellsAt
  <2> QED
    BY <1>2, <2>1 DEF Free, CellsIn
<1>7. ExactFor(With(n))'
  BY <1>1, <1>2, <1>5 DEF ExactFor, Shows, Reachable
<1>8. OnPath(0, n)
  <2>1. n # 0 => 0 < n
    BY DEF NodeIndexes
  <2>2. CellsAt(n) \subseteq CellsAt(0)
    BY <1>4, CellsFacts
  <2> QED
    BY <1>4, <2>1, <2>2 DEF OnPath, Above
<1>9. LocateInv(n)'
  BY <1>1, <1>2, <1>3, <1>4, <1>6, <1>7, <1>8 DEF LocateInv
<1>10. TypeOK'
  <2>1. r.addr \in 0 .. (Cells - 1)
    BY <1>3, CellsFacts
  <2>2. Cells \in {2^k : k \in 0 .. max_level} /\ 0 \in 0 .. max_level
    BY <1>4 DEF Cells
  <2> QED
    BY <1>1, <1>2, <1>4, <2>1, <2>2 DEF TypeOK
<1>11. GivenInv'
  BY <1>1, <1>2 DEF GivenInv
<1> QED
  BY <1>2, <1>9, <1>10, <1>11 DEF BuddyInv

LEMMA LocateKeeps ==
  ASSUME BuddyInv, Locate
  PROVE  BuddyInv'
<1>1. pc = "locate" /\ TypeOK /\ GivenInv /\ \E n \in NodeIndexes : LocateInv(n)
  BY DEF BuddyInv, Locate
<1>2. PICK n \in NodeIndexes : LocateInv(n)
  BY <1>1
<1>3. /\ Free(n, given) /\ ExactFor(With(n))
      /\ offset = RegionOf(n).addr
      /\ index \in NodeIndexes /\ index \in Nat /\ OnPath(index, n)
      /\ left = RegionOf(index).addr /\ length = RegionOf(index).size
  BY <1>2 DEF LocateInv, NodeIndexes
<1>4. /\ tree' = tree /\ size' = size /\ offset' = offset /\ level' = level
      /\ runner' = runner /\ given' = given /\ request' = request
  BY DEF Locate
<1>5. /\ Reachable(n) /\ tree[n] = "USED"
      /\ \A a \in Above(n) : tree[a] \in {"SPLIT", "FULL"}
  BY <1>3, PathShown
<1>6. ExactFor(With(n))' /\ GivenInv' /\ Free(n, given)'
  BY <1>1, <1>3, <1>4 DEF ExactFor, Shows, Reachable, GivenInv, With
<1>7. CASE index = n
  <2>1. tree[index] = "USED" /\ offset = left
    BY <1>3, <1>5, <1>7
  <2>2. pc' = "combine" /\ index' = index /\ length' = length /\ left' = left
    BY <2>1 DEF Locate
  <2>3. CombineInv(n)'
    BY <1>3, <1>4, <1>6, <1>7, <2>2 DEF CombineInv, OnPath
  <2>4. TypeOK'
    BY <1>1, <1>4, <2>2 DEF TypeOK
  <2> QED
    BY <1>6, <2>2, <2>3, <2>4 DEF BuddyInv
<1>8. CASE index # n
  <2> DEFINE l == 2 * index + 1
             r == 2 * index + 2
             half == length \div 2
  <2>1. index \in Above(n) /\ tree[index] \in {"SPLIT", "FULL"}
    BY <1>3, <1>5, <1>8 DEF OnPath
  <2>2. ~(tree[index] = "USED") /\ ~(tree[index] = "UNUSED")
    BY <2>1
  <2>3. /\ length' = half
        /\ index' = index * 2 + (IF offset < left + half THEN 1 ELSE 2)
        /\ left' = IF offset < left + half THEN left ELSE left + half
        /\ pc' = pc
    BY <2>2 DEF Locate
  <2>4. LevelOf(index) < max_level
    <3>1. LevelOf(index) < LevelOf(n)
      BY <2>1, AboveOrder
    <3>2. LevelOf(n) \in 0 .. max_level /\ LevelOf(index) \in 0 .. max_level /\ max_level \in Nat
      BY <1>3, LevelTypes
    <3> QED
      BY <3>1, <3>2
  <2>5. /\ l \in NodeIndexes /\ r \in NodeIndexes
        /\ RegionOf(index).size = 2 * RegionOf(l).size
        /\ RegionOf(r).size = RegionOf(l).size
        /\ RegionOf(l).addr = RegionOf(index).addr
        /\ RegionOf(r).addr = RegionOf(index).addr + RegionOf(l).size
    BY <1>3, <2>4, ChildFacts
  <2>6. CellsAt(index) = CellsAt(l) \cup CellsAt(r)
    BY <1>3, <2>4, HalvesOf
  <2>7. RegionOf(l).size \in Nat /\ RegionOf(l).size >= 1 /\ left \in Nat
    BY <1>3, <2>5, NodeFacts
  <2>8. half = RegionOf(l).size
    <3>1. half = (2 * RegionOf(l).size) \div 2
      BY <1>3, <2>5
    <3> QED
      BY <2>7, <3>1
  <2>9. /\ l # 0 /\ r # 0 /\ ParentOf(l) = index /\ ParentOf(r) = index
    BY <1>3 DEF ParentOf
  <2>10. Above(l) = {index} \cup Above(index) /\ Above(r) = {index} \cup Above(index)
    BY <2>5, <2>9, AboveStep
  <2>11. n \notin Above(l) /\ n \notin Above(r)
    <3>1. index < n /\ n \in Nat
      BY <2>1, AboveOrder DEF NodeIndexes
    <3>2. n \notin Above(index)
      BY <1>3, <3>1, AboveOrder
    <3> QED
      BY <1>8, <2>10, <3>2
  <2>12. offset \in CellsAt(n) /\ offset \in CellsAt(index) /\ offset \in Nat
    <3>1. offset \in CellsAt(n) /\ CellsAt(n) \subseteq CellsAt(index)
      BY <1>3, <2>1, CellsFacts, AboveOrder
    <3> QED
      BY <1>3, <3>1, NodeFacts
  <2>13. /\ CellsAt(l) = left .. (left + half - 1)
         /\ CellsAt(r) = (left + half) .. (left + half + half - 1)
    BY <1>3, <2>5, <2>8, CellsFacts
  <2> HIDE DEF l, r, half
  <2>14. CASE offset < left + half
    <3>1. offset \in CellsAt(l)
      BY <2>6, <2>7, <2>8, <2>12, <2>13, <2>14
    <3>2. OnPath(l, n)
      BY <2>5, <2>11, <2>12, <3>1, Meeting DEF OnPath
    <3>3. index' = l /\ left' = RegionOf(l).addr /\ length' = RegionOf(l).size
      BY <1>3, <2>3, <2>5, <2>8, <2>14 DEF l
    <3>4. LocateInv(n)'
      BY <1>3, <1>4, <1>6, <2>5, <3>2, <3>3 DEF LocateInv
    <3>5. RegionOf(l).addr \in 0 .. (Cells - 1) /\ RegionOf(l).size \in {2^k : k \in 0 .. max_level}
      BY <2>5, NodeFacts, CellsFacts
    <3>6. TypeOK'
      BY <1>1, <1>4, <2>3, <2>5, <3>3, <3>5 DEF TypeOK
    <3> QED
      BY <1>1, <1>6, <2>3, <3>4, <3>6 DEF BuddyInv
  <2>15. CASE ~(offset < left + half)
    <3>1. offset \in CellsAt(r)
      BY <2>6, <2>7, <2>8, <2>12, <2>13, <2>15
    <3>2. OnPath(r, n)
      BY <2>5, <2>11, <2>12, <3>1, Meeting DEF OnPath
    <3>3. index' = r /\ left' = RegionOf(r).addr /\ length' = RegionOf(r).size
      BY <1>3, <2>3, <2>5, <2>8, <2>15 DEF r
    <3>4. LocateInv(n)'
      BY <1>3, <1>4, <1>6, <2>5, <3>2, <3>3 DEF LocateInv
    <3>5. RegionOf(r).addr \in 0 .. (Cells - 1) /\ RegionOf(r).size \in {2^k : k \in 0 .. max_level}
      BY <2>5, NodeFacts, CellsFacts
    <3>6. TypeOK'
      BY <1>1, <1>4, <2>3, <2>5, <3>3, <3>5 DEF TypeOK
    <3> QED
      BY <1>1, <1>6, <2>3, <3>4, <3>6 DEF BuddyInv
  <2> QED
    BY <2>14, <2>15
<1> QED
  BY <1>7, <1>8

(* The node a release has come to, its buddy and the states they show.     *)
LEMMA CombineShows ==
  ASSUME NEW n \in NodeIndexes, CombineInv(n)
  PROVE  /\ Free(n, given) /\ index \in NodeIndexes /\ index \in Nat
         /\ CellsAt(n) \subseteq CellsAt(index)
         /\ \A a \in Above(index) : a \in Above(n) /\ tree[a] \in {"SPLIT", "FULL"}
         /\ index # 0 =>
              /\ BuddyOf(index) \in NodeIndexes /\ BuddyOf(index) >= 0
              /\ ParentOf(index) \in Above(n)
              /\ Free(BuddyOf(index), given) <=> tree[BuddyOf(index)] = "UNUSED"
<1>1. /\ ExactFor(With(n)) /\ index \in NodeIndexes /\ index \in Nat
      /\ OnPath(index, n) /\ Free(index, given)
  BY DEF CombineInv, NodeIndexes
<1>2. CellsAt(n) \subseteq CellsAt(index)
  BY <1>1, AboveOrder DEF OnPath
<1>3. Free(n, given)
  BY <1>1, <1>2, Within
<1>4. \A a \in Above(n) : tree[a] \in {"SPLIT", "FULL"}
  BY <1>1, <1>3, PathShown
<1>5. \A a \in Above(index) : a \in Above(n)
  BY <1>1, AboveOrder DEF OnPath
<1>6. ASSUME index # 0
      PROVE  /\ BuddyOf(index) \in NodeIndexes /\ BuddyOf(index) >= 0
             /\ ParentOf(index) \in Above(n)
             /\ Free(BuddyOf(index), given) <=> tree[BuddyOf(index)] = "UNUSED"
  <2>1. /\ BuddyOf(index) \in NodeIndexes /\ BuddyOf(index) \in Nat
        /\ CellsAt(index) \cap CellsAt(BuddyOf(index)) = {}
        /\ Above(BuddyOf(index)) = Above(index)
    BY <1>1, <1>6, BuddyFacts
  <2>2. ParentOf(index) \in Above(n)
    BY <1>1, <1>5, <1>6, AboveStep
  <2>3. Reachable(BuddyOf(index))
    BY <1>4, <1>5, <2>1 DEF Reachable
  <2>4. tree[BuddyOf(index)] = StateFor(BuddyOf(index), With(n))
    BY <1>1, <2>1, <2>3 DEF ExactFor, Shows
  <2>5. CellsAt(BuddyOf(index)) \cap CellsAt(n) = {}
    BY <1>2, <2>1
  <2>6. tree[BuddyOf(index)] = StateFor(BuddyOf(index), given)
    BY <2>1, <2>4, <2>5, Elsewhere
  <2> QED
    BY <2>1, <2>2, <2>6, StateFacts
<1> QED
  BY <1>1, <1>2, <1>3, <1>4, <1>5, <1>6

LEMMA CombineKeeps ==
  ASSUME BuddyInv, Combine
  PROVE  BuddyInv'
<1> DEFINE p == ParentOf(index)
<1>1. pc = "combine" /\ TypeOK /\ GivenInv /\ \E n \in NodeIndexes : CombineInv(n)
  BY DEF BuddyInv, Combine
<1>2. PICK n \in NodeIndexes : CombineInv(n)
  BY <1>1
<1>3. /\ ExactFor(With(n)) /\ OnPath(index, n) /\ Free(index, given)
  BY <1>2 DEF CombineInv
<1>4. /\ Free(n, given) /\ index \in NodeIndexes /\ index \in Nat
      /\ CellsAt(n) \subseteq CellsAt(index)
      /\ \A a \in Above(index) : a \in Above(n) /\ tree[a] \in {"SPLIT", "FULL"}
      /\ index # 0 =>
           /\ BuddyOf(index) \in NodeIndexes /\ BuddyOf(index) >= 0
           /\ p \in Above(n)
           /\ Free(BuddyOf(index), given) <=> tree[BuddyOf(index)] = "UNUSED"
  BY <1>2, CombineShows
<1>5. /\ size' = size /\ offset' = offset /\ level' = level /\ length' = length
      /\ left' = left /\ runner' = runner /\ given' = given /\ request' = request /\ index' = p
  BY DEF Combine
<1>6. GivenInv'
  BY <1>1, <1>5 DEF GivenInv
<1>7. With(n)' = With(n)
  BY <1>5 DEF With
<1>8. index # 0 => p \in NodeIndexes /\ Above(index) = {p} \cup Above(p)
  BY <1>4, AboveStep
<1>9. CASE Merges(index)
  <2>1. index # 0
    BY <1>9, RootHasNoBuddy DEF Merges
  <2>2. tree' = tree /\ pc' = pc
    BY <1>9 DEF Combine
  <2>3. Free(p, given)
    BY <1>3, <1>4, <1>9, <2>1, HalvesStates DEF Merges
  <2>4. CombineInv(n)'
    <3>1. OnPath(p, n)
      BY <1>4, <2>1 DEF OnPath
    <3>2. ExactFor(With(n))'
      BY <1>3, <1>7, <2>2 DEF ExactFor, Shows, Reachable
    <3> QED
      BY <1>5, <1>8, <2>1, <2>3, <3>1, <3>2 DEF CombineInv
  <2>5. TypeOK'
    BY <1>1, <1>5, <1>8, <2>1, <2>2 DEF TypeOK
  <2> QED
    BY <1>1, <1>6, <2>2, <2>4, <2>5 DEF BuddyInv
<1>10. CASE ~Merges(index)
  <2>1. tree' = [tree EXCEPT ![index] = "UNUSED"] /\ pc' = "unfull"
    BY <1>10 DEF Combine
  <2>2. tree \in [NodeIndexes -> States]
    BY <1>1 DEF TypeOK
  <2>3. /\ tree' \in [NodeIndexes -> States] /\ tree'[index] = "UNUSED"
        /\ \A i \in NodeIndexes : i # index => tree'[i] = tree[i]
    BY <1>4, <2>1, <2>2 DEF States
  <2>4. p # -1 => index # 0
    BY RootHasNoBuddy
  <2>5. index # 0 => ~Free(p, given)
    <3>1. SUFFICES ASSUME index # 0
                   PROVE  ~Free(p, given)
      OBVIOUS
    <3>2. ~Free(BuddyOf(index), given)
      BY <1>4, <1>10, <3>1 DEF Merges
    <3> QED
      BY <1>4, <3>1, <3>2, HalvesStates
(* Neither the nodes above index nor those beside it change.               *)
  <2>6. ASSUME NEW i \in NodeIndexes, i # index, index \notin Above(i)
        PROVE  tree'[i] = tree[i] /\ (Reachable(i)' <=> Reachable(i))
    <3>1. \A a \in Above(i) : tree'[a] = tree[a]
      BY <2>3, <2>6 DEF Above
    <3> QED
      BY <2>3, <2>6, <3>1 DEF Reachable
  <2>7. \A i \in Above(index) : i \in NodeIndexes /\ i # index /\ index \notin Above(i)
    <3>1. ASSUME NEW i \in Above(index)
          PROVE  i \in NodeIndexes /\ i # index /\ index \notin Above(i)
      <4>1. i \in NodeIndexes /\ i \in Nat /\ i < index
        BY <1>4, AboveOrder
      <4>2. index \notin Above(i)
        BY <1>4, <4>1 DEF Above
      <4> QED
        BY <1>4, <4>1, <4>2
    <3> QED
      BY <3>1
  <2>8. ASSUME NEW i \in NodeIndexes, i \in Above(index)
        PROVE  Reachable(i)' => tree'[i] = StateFor(i, With(n))
    <3>1. tree'[i] = tree[i] /\ (Reachable(i)' <=> Reachable(i))
      BY <2>6, <2>7, <2>8
    <3> QED
      BY <1>3, <3>1 DEF ExactFor, Shows
  <2>9. ASSUME NEW i \in NodeIndexes, i \notin Above(index)
        PROVE  Reachable(i)' => tree'[i] = StateFor(i, given)
    <3>1. CASE i = index
      BY <1>3, <1>4, <2>3, <3>1, StateFacts
    <3>2. CASE index \in Above(i)
      BY <2>3, <3>2 DEF Reachable
    <3>3. CASE i # index /\ index \notin Above(i)
      <4>1. tree'[i] = tree[i] /\ (Reachable(i)' <=> Reachable(i))
        BY <2>6, <3>3
      <4>2. CellsAt(i) \cap CellsAt(index) = {}
        BY <1>4, <2>9, <3>3, Apart
      <4>3. StateFor(i, With(n)) = StateFor(i, given)
        BY <1>4, <4>2, Elsewhere
      <4> QED
        BY <1>3, <4>1, <4>3 DEF ExactFor, Shows
    <3> QED
      BY <3>1, <3>2, <3>3
  <2>10. ASSUME NEW i \in NodeIndexes
         PROVE  (p # -1 /\ OnPath(i, p)) <=> i \in Above(index)
    <3>1. CASE index = 0
      BY <2>4, <3>1, Root
    <3>2. CASE index # 0
      <4>1. p # -1
        BY <1>8, <3>2 DEF NodeIndexes
      <4> QED
        BY <1>8, <3>2, <4>1 DEF OnPath
    <3> QED
      BY <3>1, <3>2
  <2> HIDE DEF p
  <2>11. UnfullInv(n)'
    <3>1. ASSUME p # -1
          PROVE  /\ p \in Above(n) /\ ~Free(p, given)
                 /\ \A a \in Above(p) : tree'[a] \in {"SPLIT", "FULL"}
      <4>1. index # 0
        BY <2>4, <3>1
      <4>2. p \in Above(index) /\ \A a \in Above(p) : a \in Above(index)
        BY <1>8, <4>1
      <4>3. \A a \in Above(p) : tree'[a] \in {"SPLIT", "FULL"}
        BY <1>4, <2>3, <2>7, <4>2
      <4> QED
        BY <1>4, <2>5, <4>1, <4>3
    <3>2. index' # -1 => index' \in Above(n) /\ Reachable(index)' /\ ~Free(index', given')
      BY <1>5, <3>1 DEF Reachable
    <3>3. ASSUME NEW i \in NodeIndexes
          PROVE  IF index' # -1 /\ OnPath(i, index') THEN Shows(i, With(n))' ELSE Shows(i, given)'
      <4>1. index' # -1 /\ OnPath(i, index') <=> i \in Above(index)
        BY <1>5, <2>10
      <4>2. i \in Above(index) => Shows(i, With(n))'
        BY <1>7, <2>8 DEF Shows
      <4>3. i \notin Above(index) => Shows(i, given)'
        BY <1>5, <2>9 DEF Shows
      <4> QED
        BY <4>1, <4>2, <4>3
    <3> QED
      BY <1>4, <1>5, <3>2, <3>3 DEF UnfullInv
  <2>12. TypeOK'
    <3>1. p \in NodeIndexes \cup {-1}
      BY <1>8, RootHasNoBuddy DEF p
    <3> QED
      BY <1>1, <1>5, <2>1, <2>3, <3>1 DEF TypeOK
  <2> QED
    BY <1>6, <2>1, <2>11, <2>12 DEF BuddyInv
<1> QED
  BY <1>9, <1>10

LEMMA UnfullKeeps ==
  ASSUME BuddyInv, Unfull
  PROVE  BuddyInv'
<1> DEFINE p == ParentOf(index)
<1>1. pc = "unfull" /\ TypeOK /\ GivenInv /\ \E n \in NodeIndexes : UnfullInv(n)
  BY DEF BuddyInv, Unfull
<1>2. PICK n \in NodeIndexes : UnfullInv(n)
  BY <1>1
<1>3. /\ index >= 0 /\ tree[index] = "FULL"
      /\ tree' = [tree EXCEPT ![index] = "SPLIT"] /\ index' = p
      /\ pc' = pc /\ size' = size /\ offset' = offset /\ level' = level
      /\ length' = length /\ left' = left /\ runner' = runner /\ given' = given /\ request' = request
  BY DEF Unfull
<1>4. /\ Free(n, given) /\ index # -1
      /\ index \in Above(n) /\ Reachable(index) /\ ~Free(index, given)
      /\ \A i \in NodeIndexes :
           IF OnPath(i, index) THEN Shows(i, With(n)) ELSE Shows(i, given)
  <2>1. index # -1
    BY <1>3
  <2> QED
    BY <1>2, <2>1 DEF UnfullInv
<1>5. index \in NodeIndexes /\ index \in Nat
  BY <1>4, AboveOrder
<1>6. tree \in [NodeIndexes -> States]
  BY <1>1 DEF TypeOK
<1>7. /\ tree' \in [NodeIndexes -> States] /\ tree'[index] = "SPLIT"
      /\ \A i \in NodeIndexes : i # index => tree'[i] = tree[i]
  BY <1>3, <1>5, <1>6 DEF States
<1>8. \A i \in NodeIndexes : Reachable(i)' <=> Reachable(i)
  <2>1. ASSUME NEW i \in NodeIndexes, NEW a \in Above(i)
        PROVE  tree'[a] \in {"SPLIT", "FULL"} <=> tree[a] \in {"SPLIT", "FULL"}
    BY <1>3, <1>7 DEF Above
  <2> QED
    BY <2>1 DEF Reachable
<1>9. With(n)' = With(n)
  BY <1>3 DEF With
<1>10. StateFor(index, given) = "SPLIT"
  BY <1>4, AboveFree
<1>11. index # 0 => p \in NodeIndexes /\ Above(index) = {p} \cup Above(p) /\ CellsAt(index) \subseteq CellsAt(p)
  BY <1>5, AboveStep
<1>12. p # -1 => index # 0
  BY RootHasNoBuddy
<1>13. TypeOK'
  <2>1. p \in NodeIndexes \cup {-1}
    BY <1>11, RootHasNoBuddy
  <2> QED
    BY <1>1, <1>3, <1>7, <2>1 DEF TypeOK
<1> HIDE DEF p
<1>14. ASSUME p # -1
       PROVE  /\ p \in Above(n) /\ ~Free(p, given)
              /\ \A a \in Above(p) : tree'[a] \in {"SPLIT", "FULL"}
  <2>1. /\ p \in NodeIndexes /\ p \in Above(index) /\ CellsAt(index) \subseteq CellsAt(p)
        /\ Above(p) \subseteq Above(index)
    BY <1>11, <1>12, <1>14
  <2>2. p \in Above(n)
    BY <1>4, <2>1, AboveOrder
  <2>3. Reachable(p)
    BY <1>4, <2>1 DEF Reachable
  <2>4. Reachable(p) => \A a \in Above(p) : tree'[a] \in {"SPLIT", "FULL"}
    <3>1. \A a \in Above(p) : a \in NodeIndexes
      BY DEF Above
    <3> QED
      BY <1>7, <3>1 DEF Reachable
  <2> QED
    BY <1>4, <2>1, <2>2, <2>3, <2>4, Within
<1>15. ASSUME NEW i \in NodeIndexes
       PROVE  IF p # -1 /\ OnPath(i, p) THEN Reachable(i)' => tree'[i] = StateFor(i, With(n))
              ELSE Reachable(i)' => tree'[i] = StateFor(i, given)
  <2>1. CASE p # -1 /\ OnPath(i, p)
    <3>1. i \in Above(index)
      BY <1>11, <1>12, <2>1 DEF OnPath
    <3>2. i # index
      BY <1>5, <3>1 DEF Above
    <3>3. Shows(i, With(n))
      BY <1>4, <3>1 DEF OnPath
    <3> QED
      BY <1>7, <1>8, <2>1, <3>2, <3>3 DEF Shows
  <2>2. CASE i = index
    <3>1. ~(p # -1 /\ OnPath(i, p))
      <4>1. SUFFICES ASSUME p # -1, OnPath(i, p)
                     PROVE  FALSE
        OBVIOUS
      <4>2. i \in Above(index)
        BY <1>11, <1>12, <4>1 DEF OnPath
      <4> QED
        BY <1>5, <2>2, <4>2 DEF Above
    <3> QED
      BY <1>7, <1>10, <2>2, <3>1
  <2>3. CASE i # index /\ ~(p # -1 /\ OnPath(i, p))
    <3>1. ~OnPath(i, index)
      <4>1. SUFFICES ASSUME i \in Above(index)
                     PROVE  FALSE
        BY <2>3 DEF OnPath
      <4>2. index # 0
        BY <4>1, Root
      <4>3. p # -1
        BY <1>11, <4>2 DEF NodeIndexes
      <4> QED
        BY <1>11, <2>3, <4>1, <4>2, <4>3 DEF OnPath
    <3>2. Shows(i, given)
      BY <1>4, <3>1
    <3> QED
      BY <1>7, <1>8, <2>3, <3>2 DEF Shows
  <2> QED
    BY <2>1, <2>2, <2>3
<1>16. UnfullInv(n)'
  <2>1. index' # -1 => index' \in Above(n) /\ Reachable(index)' /\ ~Free(index', given')
    BY <1>3, <1>14 DEF Reachable
  <2>2. ASSUME NEW i \in NodeIndexes
        PROVE  IF index' # -1 /\ OnPath(i, index') THEN Shows(i, With(n))' ELSE Shows(i, given)'
    BY <1>3, <1>9, <1>15 DEF Shows
  <2> QED
    BY <1>3, <1>4, <2>1, <2>2 DEF UnfullInv
<1>17. GivenInv'
  BY <1>1, <1>3 DEF GivenInv
<1> QED
  BY <1>1, <1>3, <1>13, <1>16, <1>17 DEF BuddyInv

LEMMA FreeReturnKeeps ==
  ASSUME BuddyInv, FreeReturn
  PROVE  BuddyInv'
<1>1. /\ pc = "unfull" /\ TypeOK /\ GivenInv /\ \E n \in NodeIndexes : UnfullInv(n)
      /\ ~(index >= 0 /\ tree[index] = "FULL")
      /\ Return /\ tree' = tree /\ given' = given
  BY DEF BuddyInv, FreeReturn
<1>2. PICK n \in NodeIndexes : UnfullInv(n)
  BY <1>1
<1>3. Free(n, given)
  BY <1>2 DEF UnfullInv
<1>4. ExactFor(given)
  <2>1. CASE index = -1
    BY <1>2, <2>1 DEF UnfullInv, ExactFor
  <2>2. CASE index # -1
    <3>1. /\ index \in Above(n) /\ Reachable(index) /\ ~Free(index, given)
          /\ \A i \in NodeIndexes :
               IF OnPath(i, index) THEN Shows(i, With(n)) ELSE Shows(i, given)
      BY <1>2, <2>2 DEF UnfullInv
    <3>2. index \in NodeIndexes /\ index \in Nat
      BY <3>1, AboveOrder
    <3>3. tree[index] # "FULL"
      BY <1>1, <3>2
    <3>4. tree[index] = StateFor(index, With(n))
      BY <3>1, <3>2 DEF OnPath, Shows
    <3>5. ~Covered(index, With(n))
      BY <1>3, <3>1, <3>3, <3>4, AboveFree
    <3>6. ASSUME NEW i \in NodeIndexes, OnPath(i, index)
          PROVE  StateFor(i, With(n)) = StateFor(i, given)
      <4>1. i \in Above(n) /\ CellsAt(index) \subseteq CellsAt(i)
        BY <3>1, <3>2, <3>6, AboveOrder DEF OnPath
      <4>2. ~Covered(i, With(n)) /\ ~Free(i, given)
        BY <3>1, <3>5, <4>1, Within
      <4> QED
        BY <1>3, <4>1, <4>2, AboveFree
    <3> QED
      BY <3>1, <3>6 DEF ExactFor, Shows
  <2> QED
    BY <2>1, <2>2
<1>5. ExactFor(given)' /\ GivenInv'
  BY <1>1, <1>4 DEF ExactFor, Shows, Reachable, GivenInv
<1>6. TypeOK'
  BY <1>1, ReturnTypes DEF TypeOK
<1> QED
  BY <1>1, <1>5, <1>6, ReturnTypes DEF BuddyInv

LEMMA NextKeeps == BuddyInv /\ [Next]_vars => BuddyInv'
<1> SUFFICES ASSUME BuddyInv, [Next]_vars
             PROVE  BuddyInv'
  OBVIOUS
<1>1. ASSUME NEW s \in Requests, MallocCall(s)
      PROVE  BuddyInv'
  BY <1>1, MallocCallKeeps
<1>2. ASSUME NEW r \in given, FreeCall(r)
      PROVE  BuddyInv'
  BY <1>2, FreeCallKeeps
<1>3. CASE Take
  BY <1>3, TakeKeeps
<1>4. CASE Descend
  BY <1>4, DescendKeeps
<1>5. CASE Skip
  BY <1>5, SkipKeeps
<1>6. CASE Climb
  BY <1>6, ClimbKeeps
<1>7. CASE MarkParent
  BY <1>7, MarkParentKeeps
<1>8. CASE MallocReturn
  BY <1>8, MallocReturnKeeps
<1>9. CASE MallocReturnNull
  BY <1>9, MallocReturnNullKeeps
<1>10. CASE Locate
  BY <1>10, LocateKeeps
<1>11. CASE Combine
  BY <1>11, CombineKeeps
<1>12. CASE Unfull
  BY <1>12, UnfullKeeps
<1>13. CASE FreeReturn
  BY <1>13, FreeReturnKeeps
<1>14. CASE UNCHANGED vars
  <2>1. /\ tree' = tree /\ pc' = pc /\ size' = size /\ offset' = offset /\ index' = index
        /\ level' = level /\ length' = length /\ left' = left /\ runner' = runner /\ given' = given
        /\ request' = request
    BY <1>14 DEF vars, cursor
  <2>2. \A i : (Reachable(i)' <=> Reachable(i)) /\ (Shows(i, given)' <=> Shows(i, given))
    BY <2>1 DEF Shows, Reachable
  <2>3. \A n : /\ With(n)' = With(n)
               /\ \A i : Shows(i, With(n))' <=> Shows(i, With(n))
    BY <2>1 DEF With, Shows, Reachable
  <2>4. \A i, n : Shows(i, With(n))' <=> Shows(i, With(n))
    BY <2>3
  <2>5. TypeOK' /\ GivenInv' /\ (ExactFor(given)' <=> ExactFor(given))
    BY <2>1, <2>2 DEF BuddyInv, TypeOK, GivenInv, ExactFor
  <2>6. Looking => Looking'
    BY <2>1, <2>2 DEF Looking, SizeInv, Reachable
  <2>7. FreeNodes(size)' = FreeNodes(size)
    BY <2>1 DEF FreeNodes, InUse
  <2>8. SearchInv => SearchInv'
    BY <2>1, <2>2, <2>6, <2>7 DEF SearchInv
  <2>9. ClimbInv => ClimbInv'
    BY <2>1, <2>5, <2>6, <2>7 DEF ClimbInv
  <2>10. With(index)' = With(index) /\ \A i : Shows(i, With(index))' <=> Shows(i, With(index))
    BY <2>1 DEF With, Shows, Reachable
  <2>11. MarkInv => MarkInv'
    BY <2>1, <2>6, <2>7, <2>10 DEF MarkInv
  <2>12. NullInv => NullInv'
    BY <2>1, <2>5, <2>7 DEF NullInv
  <2>13. \A n \in NodeIndexes : ExactFor(With(n))' <=> ExactFor(With(n))
    BY <2>4 DEF ExactFor
  <2>14. \A n \in NodeIndexes : LocateInv(n) => LocateInv(n)'
    BY <2>1, <2>13 DEF LocateInv
  <2>15. \A n \in NodeIndexes : CombineInv(n) => CombineInv(n)'
    BY <2>1, <2>13 DEF CombineInv
  <2>16. \A n \in NodeIndexes : UnfullInv(n) => UnfullInv(n)'
    <3>1. Reachable(index)' <=> Reachable(index)
      BY <2>1 DEF Reachable
    <3> QED
      BY <2>1, <2>2, <2>4, <3>1 DEF UnfullInv
  <2> QED
    BY <2>1, <2>5, <2>8, <2>9, <2>11, <2>12, <2>14, <2>15, <2>16 DEF BuddyInv
<1> QED
  BY <1>1, <1>2, <1>3, <1>4, <1>5, <1>6, <1>7, <1>8, <1>9, <1>10, <1>11, <1>12, <1>13, <1>14
     DEF Next, Step

(***************************************************************************)
(* Part 8.  What callers may rely on.                                      *)
(***************************************************************************)

LEMMA InvariantHolds == Spec => []BuddyInv
BY InitBuddyInv, NextKeeps, PTL DEF Spec

(* Every variable keeps to its type.                                       *)
THEOREM TypeCorrect == Spec => []TypeOK
<1>1. BuddyInv => TypeOK
  BY DEF BuddyInv
<1> QED
  BY InvariantHolds, <1>1, PTL

(* The assertions of bd_bd_free never fail for an address that was given:  *)
(* the walk from the root always comes to the node of the region.          *)
THEOREM NoAbortAlways == Spec => []NoAbort
<1>1. BuddyInv => NoAbort
  BY DEF BuddyInv, NoAbort
<1> QED
  BY InvariantHolds, <1>1, PTL

(* Between operations the tree is the unique buddy tree of the regions in  *)
(* use: splitting, combining and the marks of full nodes leave nothing     *)
(* behind, whatever calls were made.                                       *)
THEOREM TreeIsExactAlways == Spec => []TreeIsExact
<1>1. BuddyInv => TreeIsExact
  <2> SUFFICES ASSUME BuddyInv, pc = "idle",
                      NEW i \in NodeIndexes,
                      \A a \in NodeIndexes :
                        a < i /\ CellsOf(RegionOf(i)) \subseteq CellsOf(RegionOf(a))
                          => tree[a] \in {"SPLIT", "FULL"}
               PROVE  tree[i] = ExactState(i)
    BY DEF TreeIsExact
  <2>1. Reachable(i)
    BY DEF Reachable, Above, CellsAt
  <2>2. tree[i] = StateFor(i, given)
    BY <2>1 DEF BuddyInv, ExactFor, Shows
  <2>3. StateFor(i, given) = ExactState(i)
    BY DEF StateFor, ExactState, Free, Covered, CellsAt, CellsIn, InUse
  <2> QED
    BY <2>2, <2>3
<1> QED
  BY InvariantHolds, <1>1, PTL

(* The size looked for is the request's, unless that is too large. *)
AskInv ==
  pc \in {"search", "climb", "null"} =>
    /\ request \in Requests
    /\ IF TooLarge(request) THEN pc = "null" ELSE size = CellsFor(request)

LEMMA InitAskInv == Init => AskInv
BY DEF Init, AskInv

LEMMA AskKept == AskInv /\ [Next]_vars => AskInv'
<1> SUFFICES ASSUME AskInv, [Next]_vars
             PROVE  AskInv'
  OBVIOUS
<1>1. ASSUME NEW s \in Requests, MallocCall(s)
      PROVE  AskInv'
  BY <1>1 DEF MallocCall, AskInv
<1>2. ASSUME Descend \/ Skip \/ Climb
      PROVE  AskInv'
  <2>1. /\ pc \in {"search", "climb"} /\ pc' \in {"search", "climb", "null"}
        /\ request' = request /\ size' = size
    BY <1>2 DEF Descend, Skip, Climb
  <2>2. request \in Requests /\ ~TooLarge(request) /\ size = CellsFor(request)
    BY <2>1 DEF AskInv
  <2> QED
    BY <2>1, <2>2 DEF AskInv
<1>3. ASSUME \/ Take \/ MarkParent \/ Locate \/ Combine \/ Unfull
             \/ \E r \in given : FreeCall(r)
      PROVE  AskInv'
  <2>1. pc' \notin {"search", "climb", "null"}
    BY <1>3 DEF Take, MarkParent, Locate, Combine, Unfull, FreeCall
  <2> QED
    BY <2>1 DEF AskInv
<1>4. ASSUME MallocReturn \/ MallocReturnNull \/ FreeReturn
      PROVE  AskInv'
  BY <1>4 DEF MallocReturn, MallocReturnNull, FreeReturn, Return, AskInv
<1>5. CASE UNCHANGED vars
  BY <1>5 DEF vars, AskInv
<1> QED
  BY <1>1, <1>2, <1>3, <1>4, <1>5 DEF Next, Step

(* malloc gives up only when the request exceeds the arena or there is no  *)
(* aligned free region of its size, if nobody asks for 0 bytes.            *)
THEOREM NullJustifiedAlways ==
  ASSUME 0 \notin Requests
  PROVE  Spec => NullJustified
<1> DEFINE Justified == \/ CellsMeant(request) > Cells
                        \/ FreeNodes(next_pow_of_2(CellsMeant(request))) = {}
<1>1. ASSUME BuddyInv, AskInv, pc = "null"
      PROVE  Justified
  <2>1. request \in Requests /\ request \in Nat /\ request # 0
    BY <1>1, BuddySLAssumption DEF AskInv
  <2>2. CellsMeant(request) = CellsAsked(request)
    BY <2>1 DEF CellsMeant
  <2>3. CASE TooLarge(request)
    BY <2>1, <2>2, <2>3 DEF TooLarge
  <2>4. CASE ~TooLarge(request)
    <3>1. size = CellsFor(request) /\ size \in {2^k : k \in 0 .. max_level}
      BY <1>1, <2>1, <2>4, Rounded DEF AskInv
    <3>2. size # 0
      <4>1. PICK k \in 0 .. max_level : size = 2^k
        BY <3>1
      <4>2. k \in 0 .. NUM_LEVELS
        BY <4>1, MaxLevel
      <4> QED
        BY <4>1, <4>2, PowerStep
    <3>3. FreeNodes(size) = {}
      BY <1>1, <3>2 DEF BuddyInv, NullInv
    <3> QED
      BY <2>2, <3>1, <3>3 DEF CellsFor
  <2> QED
    BY <2>3, <2>4
<1>2. BuddyInv /\ AskInv /\ [Next]_vars => [pc = "null" /\ pc' = "idle" => Justified]_vars
  BY <1>1
<1> QED
  BY InvariantHolds, InitAskInv, AskKept, <1>2, PTL DEF Spec, NullJustified

(* Only the end of a malloc gives a region. *)
LEMMA RegionsGiven ==
  ASSUME BuddyInv, [Next]_vars
  PROVE  \/ MallocReturn /\ MarkInv /\ given' = With(index)
         \/ \E r \in given : given' = given \ {r}
         \/ given' = given
<1>1. CASE MallocReturn
  BY <1>1, MallocReturnGives
<1>2. ASSUME NEW r \in given, FreeCall(r)
      PROVE  given' = given \ {r}
  BY <1>2 DEF FreeCall
<1>3. ASSUME NEW s \in Requests, MallocCall(s)
      PROVE  given' = given
  BY <1>3 DEF MallocCall
<1>4. CASE Take \/ Descend \/ Skip \/ Climb \/ MarkParent \/ MallocReturnNull
  BY <1>4 DEF Take, Descend, Skip, Climb, MarkParent, MallocReturnNull
<1>5. CASE Locate \/ Combine \/ Unfull \/ FreeReturn
  BY <1>5 DEF Locate, Combine, Unfull, FreeReturn
<1>6. CASE UNCHANGED vars
  BY <1>6 DEF vars
<1> QED
  BY <1>1, <1>2, <1>3, <1>4, <1>5, <1>6 DEF Next, Step

(* First fit: malloc grants the free region with the lowest address.       *)
THEOREM FirstFitAlways == Spec => FirstFit
<1> DEFINE Lowest == \A r \in given' \ given :
                       \A i \in FreeNodes(r.size) : r.addr <= RegionOf(i).addr
<1>1. ASSUME BuddyInv, [Next]_vars
      PROVE  Lowest
  <2>1. CASE MarkInv /\ given' = With(index)
    <3>1. /\ index \in NodeIndexes /\ size = RegionOf(index).size
          /\ \A m \in FreeNodes(size) : RegionOf(m).addr >= RegionOf(index).addr
      BY <2>1 DEF MarkInv, Looking
    <3>2. given' \ given \subseteq {RegionOf(index)}
      BY <2>1 DEF With
    <3>3. ASSUME NEW r \in given' \ given, NEW i \in FreeNodes(r.size)
          PROVE  r.addr <= RegionOf(i).addr
      <4>1. r = RegionOf(index) /\ i \in FreeNodes(size)
        BY <3>1, <3>2, <3>3
      <4>2. i \in NodeIndexes
        BY <3>3 DEF FreeNodes
      <4>3. RegionOf(i).addr \in Nat /\ RegionOf(index).addr \in Nat
        BY <3>1, <4>2, NodeFacts
      <4> QED
        BY <3>1, <4>1, <4>3
    <3> QED
      BY <3>3
  <2>2. CASE \E r \in given : given' = given \ {r}
    BY <2>2
  <2>3. CASE given' = given
    BY <2>3
  <2> QED
    BY <1>1, <2>1, <2>2, <2>3, RegionsGiven
<1>2. BuddyInv /\ [Next]_vars => [Lowest]_vars
  BY <1>1
<1> QED
  BY InvariantHolds, <1>2, PTL DEF Spec, FirstFit

(* A region begins at a multiple of its size. *)
LEMMA Aligned ==
  ASSUME NEW i \in NodeIndexes
  PROVE  RegionOf(i).addr % RegionOf(i).size = 0
<1> DEFINE x == (i + 1) - 2^LevelOf(i)
           z == RegionOf(i).size
<1>1. x \in Nat /\ z \in Nat /\ z >= 1 /\ RegionOf(i).addr = x * z
  BY NodeFacts
<1> HIDE DEF x, z
<1>2. \A a, b \in Nat : a >= 1 => (a * b) % a = 0
  OBVIOUS
<1>3. x * z = z * x
  BY <1>1
<1>4. (z * x) % z = 0
  BY <1>1, <1>2
<1> QED
  BY <1>1, <1>3, <1>4 DEF z

(* Callers see a buddy allocator: aligned, disjoint, power-of-two regions  *)
(* inside the arena, each taken back as it was given.                      *)
THEOREM ImplementsAllocatorAlways == Spec => ImplementsAllocator
<1>1. Init => Buddy!Init
  BY DEF Init, Buddy!Init
<1>2. ASSUME BuddyInv, [Next]_vars
      PROVE  [Buddy!Next]_given
  <2>1. CASE MarkInv /\ given' = With(index)
    <3> DEFINE a == RegionOf(index).addr
    <3>1. /\ index \in NodeIndexes /\ size = RegionOf(index).size /\ Free(index, given)
      BY <2>1 DEF MarkInv, Looking
    <3>2. /\ size \in {2^k : k \in 0 .. max_level} /\ size \in Nat
          /\ a \in Nat /\ a + size <= Cells /\ a % size = 0
          /\ RegionOf(index) = [addr |-> a, size |-> size]
      BY <3>1, NodeFacts, CellsFacts, Aligned
    <3> HIDE DEF a
    <3>3. a \in 0 .. (Cells - size)
      BY <3>2, Root
    <3>4. \A q \in given : Buddy!CellsOf(q) \cap Buddy!CellsOf([addr |-> a, size |-> size]) = {}
      BY <3>1, <3>2 DEF Free, CellsIn, CellsAt, CellsOf, Buddy!CellsOf
    <3>5. given' = given \cup {[addr |-> a, size |-> size]}
      BY <2>1, <3>2 DEF With
    <3>6. Buddy!Malloc(size)
      BY <3>2, <3>3, <3>4, <3>5 DEF Buddy!Malloc
    <3> QED
      BY <3>2, <3>6 DEF Buddy!Next
  <2>2. CASE \E r \in given : given' = given \ {r}
    BY <2>2 DEF Buddy!Next, Buddy!Free
  <2>3. CASE given' = given
    BY <2>3
  <2> QED
    BY <1>2, <2>1, <2>2, <2>3, RegionsGiven
<1>3. BuddyInv /\ [Next]_vars => [Buddy!Next]_given
  BY <1>2
<1> QED
  BY InvariantHolds, <1>1, <1>3, PTL DEF Spec, ImplementsAllocator, Buddy!Spec

(***************************************************************************)
(* Part 9.  buddy_size and buddy_dump.                                     *)
(***************************************************************************)

(* A turn of the loop of buddy_size, and the node after each turn.         *)
Onward(o, i) ==
  IF tree[i] \in {"UNUSED", "USED"} THEN i
  ELSE 2 * i + (IF o < RegionOf(2 * i + 2).addr THEN 1 ELSE 2)

Turns(o) == CHOOSE f : f = [d \in 0 .. max_level |-> IF d = 0 THEN 0 ELSE Onward(o, f[d - 1])]

LEMMA SizeFound ==
  ASSUME NEW o, NEW i, Turns(o)[max_level] = i
  PROVE  buddy_size(o) =
           IF tree[i] = "USED" /\ RegionOf(i).addr = o THEN RegionOf(i).size ELSE 0
BY DEF buddy_size, Turns, Onward

LEMMA TurnsExist ==
  ASSUME NEW o
  PROVE  \E f : f = [d \in 0 .. max_level |-> IF d = 0 THEN 0 ELSE Onward(o, f[d - 1])]
<1> DEFINE Good(f, k) == f = [d \in 0 .. k |-> IF d = 0 THEN 0 ELSE Onward(o, f[d - 1])]
           Bad == {k \in Nat : \A f : ~Good(f, k)}
<1>1. max_level \in Nat
  BY MaxLevel
<1>2. 0 \notin Bad
  <2>1. Good([d \in 0 .. 0 |-> 0], 0)
    OBVIOUS
  <2> QED
    BY <2>1
<1>3. ASSUME Bad # {}
      PROVE  FALSE
  <2> DEFINE B == Bad
  <2>1. B \subseteq Nat /\ B # {} /\ 0 \notin B
    BY <1>2, <1>3
  <2> HIDE DEF B, Bad
  <2>2. PICK k \in B : \A l \in B : k <= l
    BY <2>1, Least
  <2>3. k \in Nat /\ k # 0 /\ k - 1 \in Nat /\ k - 1 \notin B
    <3>1. k \in Nat /\ k # 0 /\ k - 1 \in Nat
      BY <2>1
    <3>2. ~(k <= k - 1)
      BY <3>1
    <3> QED
      BY <2>2, <3>1, <3>2
  <2>4. PICK f : Good(f, k - 1)
    BY <2>3 DEF B, Bad
  <2> DEFINE g == [d \in 0 .. k |-> IF d = k THEN Onward(o, f[k - 1]) ELSE f[d]]
  <2>5. ASSUME NEW d \in 0 .. k
        PROVE  g[d] = IF d = 0 THEN 0 ELSE Onward(o, g[d - 1])
    <3>1. CASE d = k
      <4>1. g[d] = Onward(o, f[k - 1]) /\ g[k - 1] = f[k - 1]
        BY <2>3, <3>1
      <4> QED
        BY <2>3, <3>1, <4>1
    <3>2. CASE d # k
      <4>1. d \in 0 .. (k - 1) /\ g[d] = f[d]
        BY <2>3, <3>2
      <4>2. f[d] = IF d = 0 THEN 0 ELSE Onward(o, f[d - 1])
        BY <2>4, <4>1
      <4>3. d # 0 => g[d - 1] = f[d - 1]
        BY <2>3, <4>1
      <4> QED
        BY <4>1, <4>2, <4>3
    <3> QED
      BY <3>1, <3>2
  <2>6. g = [d \in 0 .. k |-> g[d]]
    OBVIOUS
  <2> HIDE DEF g
  <2>7. Good(g, k)
    BY <2>5, <2>6
  <2> QED
    BY <2>2, <2>3, <2>7 DEF B, Bad
<1>4. \E f : Good(f, max_level)
  <2>1. max_level \notin Bad
    BY <1>3
  <2> HIDE DEF Good
  <2> QED
    BY <1>1, <2>1
<1> QED
  BY <1>4

LEMMA TurnsAre ==
  ASSUME NEW o, NEW d \in 0 .. max_level
  PROVE  Turns(o)[d] = IF d = 0 THEN 0 ELSE Onward(o, Turns(o)[d - 1])
<1>1. Turns(o) = [e \in 0 .. max_level |-> IF e = 0 THEN 0 ELSE Onward(o, Turns(o)[e - 1])]
  BY TurnsExist DEF Turns
<1> QED
  BY <1>1

(* The same for the calls of _dump. *)
Deeper(N) == UNION {Halves(n[1], n[2]) : n \in {m \in N : tree[m[1]] \in {"SPLIT", "FULL"}}}

LEMMA CallsExist ==
  \E f : f = [d \in 0 .. max_level |-> IF d = 0 THEN {<<0, 0>>} ELSE Deeper(f[d - 1])]
<1> DEFINE Good(f, k) == f = [d \in 0 .. k |-> IF d = 0 THEN {<<0, 0>>} ELSE Deeper(f[d - 1])]
           Bad == {k \in Nat : \A f : ~Good(f, k)}
<1>1. max_level \in Nat
  BY MaxLevel
<1>2. 0 \notin Bad
  <2>1. Good([d \in 0 .. 0 |-> {<<0, 0>>}], 0)
    OBVIOUS
  <2> QED
    BY <2>1
<1>3. ASSUME Bad # {}
      PROVE  FALSE
  <2> DEFINE B == Bad
  <2>1. B \subseteq Nat /\ B # {} /\ 0 \notin B
    BY <1>2, <1>3
  <2> HIDE DEF B, Bad
  <2>2. PICK k \in B : \A l \in B : k <= l
    BY <2>1, Least
  <2>3. k \in Nat /\ k # 0 /\ k - 1 \in Nat /\ k - 1 \notin B
    <3>1. k \in Nat /\ k # 0 /\ k - 1 \in Nat
      BY <2>1
    <3>2. ~(k <= k - 1)
      BY <3>1
    <3> QED
      BY <2>2, <3>1, <3>2
  <2>4. PICK f : Good(f, k - 1)
    BY <2>3 DEF B, Bad
  <2> DEFINE g == [d \in 0 .. k |-> IF d = k THEN Deeper(f[k - 1]) ELSE f[d]]
  <2>5. ASSUME NEW d \in 0 .. k
        PROVE  g[d] = IF d = 0 THEN {<<0, 0>>} ELSE Deeper(g[d - 1])
    <3>1. CASE d = k
      <4>1. g[d] = Deeper(f[k - 1]) /\ g[k - 1] = f[k - 1]
        BY <2>3, <3>1
      <4> QED
        BY <2>3, <3>1, <4>1
    <3>2. CASE d # k
      <4>1. d \in 0 .. (k - 1) /\ g[d] = f[d]
        BY <2>3, <3>2
      <4>2. f[d] = IF d = 0 THEN {<<0, 0>>} ELSE Deeper(f[d - 1])
        BY <2>4, <4>1
      <4>3. d # 0 => g[d - 1] = f[d - 1]
        BY <2>3, <4>1
      <4> QED
        BY <4>1, <4>2, <4>3
    <3> QED
      BY <3>1, <3>2
  <2>6. g = [d \in 0 .. k |-> g[d]]
    OBVIOUS
  <2> HIDE DEF g
  <2>7. Good(g, k)
    BY <2>5, <2>6
  <2> QED
    BY <2>2, <2>3, <2>7 DEF B, Bad
<1>4. \E f : Good(f, max_level)
  <2>1. max_level \notin Bad
    BY <1>3
  <2> HIDE DEF Good
  <2> QED
    BY <1>1, <2>1
<1> QED
  BY <1>4

LEMMA CallsAre ==
  ASSUME NEW d \in 0 .. max_level
  PROVE  _dump[d] = IF d = 0 THEN {<<0, 0>>} ELSE Deeper(_dump[d - 1])
<1>1. _dump = [e \in 0 .. max_level |-> IF e = 0 THEN {<<0, 0>>} ELSE Deeper(_dump[e - 1])]
  BY CallsExist DEF _dump, Deeper
<1> QED
  BY <1>1

(* The node of a region in use is reached. *)
LEMMA GivenShown ==
  ASSUME GivenInv, ExactFor(given), NEW n \in NodeIndexes, RegionOf(n) \in given
  PROVE  Reachable(n) /\ tree[n] = "USED"
<1> DEFINE Bad == {a \in Above(n) : tree[a] \notin {"SPLIT", "FULL"}}
<1>1. Bad \subseteq Nat
  BY AboveOrder
<1>2. ASSUME Bad # {}
      PROVE  FALSE
  <2> HIDE DEF Bad
  <2>1. PICK a \in Bad : \A b \in Bad : a <= b
    BY <1>1, <1>2, Least
  <2>2. a \in Above(n) /\ tree[a] \notin {"SPLIT", "FULL"}
    BY <2>1 DEF Bad
  <2>3. a \in NodeIndexes /\ a \in Nat /\ CellsAt(n) \subseteq CellsAt(a)
    BY <2>2, AboveOrder
  <2>4. ASSUME NEW b \in Above(a)
        PROVE  tree[b] \in {"SPLIT", "FULL"}
    <3>1. b \in Above(n) /\ b \in Nat /\ b < a
      BY <2>2, <2>3, AboveOrder
    <3>2. b \notin Bad
      BY <2>1, <2>3, <3>1
    <3> QED
      BY <3>1, <3>2 DEF Bad
  <2>5. tree[a] = StateFor(a, given)
    BY <2>3, <2>4 DEF ExactFor, Shows, Reachable
  <2>6. CellsAt(n) # {} /\ CellsAt(n) \subseteq CellsIn(given)
    BY CellsFacts DEF CellsIn, CellsAt
  <2>7. ~Free(a, given)
    BY <2>3, <2>6 DEF Free
  <2>8. RegionOf(a) \notin given
    <3>1. RegionOf(a) # RegionOf(n)
      <4>1. 2 * RegionOf(n).size <= RegionOf(a).size /\ RegionOf(n).size \in Nat /\ RegionOf(n).size >= 1
        BY <2>2, AboveOrder, NodeFacts
      <4> QED
        BY <4>1
    <3>2. CellsAt(a) \cap CellsAt(n) # {}
      BY <2>3, <2>6
    <3> QED
      BY <3>1, <3>2 DEF GivenInv, CellsAt
  <2> QED
    BY <2>2, <2>3, <2>5, <2>7, <2>8 DEF StateFor
<1>3. Reachable(n)
  BY <1>2 DEF Reachable
<1>4. tree[n] = "USED"
  BY <1>3, StateFacts DEF ExactFor, Shows
<1> QED
  BY <1>3, <1>4

(* A turn of the loop goes down towards the node at the address. *)
LEMMA OnwardStep ==
  ASSUME NEW n \in NodeIndexes, NEW a \in Above(n), tree[a] \in {"SPLIT", "FULL"}
  PROVE  LET b == Onward(RegionOf(n).addr, a)
         IN b \in NodeIndexes /\ OnPath(b, n) /\ LevelOf(b) = LevelOf(a) + 1
<1> DEFINE o == RegionOf(n).addr
           l == 2 * a + 1
           r == 2 * a + 2
           h == RegionOf(l).size
<1>1. /\ a \in NodeIndexes /\ a \in Nat /\ a < n /\ n \in Nat
      /\ CellsAt(n) \subseteq CellsAt(a) /\ LevelOf(a) < LevelOf(n)
  BY AboveOrder DEF NodeIndexes
<1>2. LevelOf(a) < max_level
  BY <1>1, LevelTypes
<1>3. /\ l \in NodeIndexes /\ r \in NodeIndexes
      /\ LevelOf(l) = LevelOf(a) + 1 /\ LevelOf(r) = LevelOf(a) + 1
      /\ RegionOf(r).size = h
      /\ RegionOf(r).addr = RegionOf(l).addr + h
  BY <1>1, <1>2, ChildFacts
<1>4. CellsAt(a) = CellsAt(l) \cup CellsAt(r)
  BY <1>1, <1>2, HalvesOf
<1>5. o \in CellsAt(n) /\ o \in CellsAt(a) /\ o \in Nat
  BY <1>1, CellsFacts, NodeFacts
<1>6. h \in Nat /\ h >= 1 /\ RegionOf(l).addr \in Nat
  BY <1>3, NodeFacts
<1>7. /\ CellsAt(l) = RegionOf(l).addr .. (RegionOf(l).addr + h - 1)
      /\ CellsAt(r) = (RegionOf(l).addr + h) .. (RegionOf(l).addr + h + h - 1)
  BY <1>3, CellsFacts
<1>8. ParentOf(l) = a /\ ParentOf(r) = a /\ l # 0 /\ r # 0
  BY <1>1 DEF ParentOf
<1>9. Above(l) = {a} \cup Above(a) /\ Above(r) = {a} \cup Above(a)
  BY <1>3, <1>8, AboveStep
<1>10. n \notin Above(l) /\ n \notin Above(r)
  <2>1. n \notin Above(a) /\ n # a
    BY <1>1, AboveOrder
  <2> QED
    BY <1>9, <2>1
<1>11. Onward(o, a) = IF o < RegionOf(r).addr THEN l ELSE r
  <2>1. ~(tree[a] \in {"UNUSED", "USED"})
    OBVIOUS
  <2> QED
    BY <2>1 DEF Onward
<1> HIDE DEF o, l, r, h
<1>12. CASE o < RegionOf(r).addr
  <2>1. o \in CellsAt(l)
    BY <1>3, <1>4, <1>5, <1>6, <1>7, <1>12
  <2>2. OnPath(l, n)
    BY <1>3, <1>5, <1>10, <2>1, Meeting DEF OnPath
  <2> QED
    BY <1>3, <1>11, <1>12, <2>2 DEF o
<1>13. CASE ~(o < RegionOf(r).addr)
  <2>1. o \in CellsAt(r)
    BY <1>3, <1>4, <1>5, <1>6, <1>7, <1>13
  <2>2. OnPath(r, n)
    BY <1>3, <1>5, <1>10, <2>1, Meeting DEF OnPath
  <2> QED
    BY <1>3, <1>11, <1>13, <2>2 DEF o
<1> QED
  BY <1>12, <1>13

(* buddy_size comes to the node of the region and tells its size. *)
LEMMA SizeTold ==
  ASSUME GivenInv, ExactFor(given), NEW n \in NodeIndexes, RegionOf(n) \in given
  PROVE  buddy_size(RegionOf(n).addr) = RegionOf(n).size
<1> DEFINE o == RegionOf(n).addr
           On(d) == \/ Turns(o)[d] = n
                    \/ Turns(o)[d] \in Above(n) /\ LevelOf(Turns(o)[d]) = d
           Bad == {d \in 0 .. max_level : ~On(d)}
<1>1. max_level \in Nat /\ Reachable(n) /\ tree[n] = "USED"
  BY MaxLevel, GivenShown
<1>2. Bad \subseteq Nat /\ 0 \notin Bad
  <2>1. Turns(o)[0] = 0
    BY <1>1, TurnsAre
  <2>2. n # 0 => 0 \in Above(n)
    <3>1. CellsAt(n) \subseteq CellsAt(0) /\ 0 \in NodeIndexes /\ n \in Nat
      BY Root, CellsFacts DEF NodeIndexes
    <3> QED
      BY <3>1 DEF Above
  <2> QED
    BY <1>1, <2>1, <2>2, Root
<1>3. ASSUME Bad # {}
      PROVE  FALSE
  <2> HIDE DEF Bad
  <2>1. PICK d \in Bad : \A e \in Bad : d <= e
    BY <1>2, <1>3, Least
  <2>2. d \in 0 .. max_level /\ d # 0 /\ ~On(d)
    BY <1>2, <2>1 DEF Bad
  <2>3. d - 1 \in 0 .. max_level /\ ~(d <= d - 1) /\ d \in Nat
    BY <1>1, <2>2
  <2>4. On(d - 1)
    BY <2>1, <2>3 DEF Bad
  <2>5. Turns(o)[d] = Onward(o, Turns(o)[d - 1])
    BY <2>2, TurnsAre
  <2>6. CASE Turns(o)[d - 1] = n
    BY <1>1, <2>2, <2>5, <2>6 DEF Onward
  <2>7. CASE Turns(o)[d - 1] \in Above(n) /\ LevelOf(Turns(o)[d - 1]) = d - 1
    <3> DEFINE a == Turns(o)[d - 1]
    <3>1. a \in Above(n) /\ tree[a] \in {"SPLIT", "FULL"} /\ LevelOf(a) = d - 1
      BY <1>1, <2>7 DEF Reachable
    <3>2. Turns(o)[d] = Onward(o, a)
      BY <2>5
    <3> HIDE DEF a
    <3>3. OnPath(Onward(o, a), n) /\ LevelOf(Onward(o, a)) = d
      BY <2>3, <3>1, OnwardStep
    <3> QED
      BY <2>2, <3>2, <3>3 DEF OnPath
  <2> QED
    BY <2>4, <2>6, <2>7
<1>4. Turns(o)[max_level] = n
  <2>1. On(max_level)
    BY <1>1, <1>3
  <2>2. ASSUME Turns(o)[max_level] \in Above(n) /\ LevelOf(Turns(o)[max_level]) = max_level
        PROVE  FALSE
    <3>1. max_level < LevelOf(n)
      BY <2>2, AboveOrder
    <3> QED
      BY <3>1, LevelTypes
  <2> QED
    BY <2>1, <2>2
<1> QED
  BY <1>1, <1>4, SizeFound

(* The calls of _dump that are d deep are those for the nodes reached at   *)
(* level d.                                                                *)
ReachedAt(d) == {i \in NodeIndexes : LevelOf(i) = d /\ Reachable(i)}

LEMMA ChildReached ==
  ASSUME NEW i \in NodeIndexes, i # 0
  PROVE  Reachable(i) <=> Reachable(ParentOf(i)) /\ tree[ParentOf(i)] \in {"SPLIT", "FULL"}
BY AboveStep DEF Reachable

LEMMA DeeperReached ==
  ASSUME NEW d \in 0 .. max_level, d # 0
  PROVE  Deeper({<<i, d - 1>> : i \in ReachedAt(d - 1)}) = {<<i, d>> : i \in ReachedAt(d)}
<1>1. d \in Nat /\ max_level \in Nat /\ (d - 1) + 1 = d
  BY MaxLevel
<1> DEFINE Before == {<<i, d - 1>> : i \in ReachedAt(d - 1)}
           Parents == {m \in Before : tree[m[1]] \in {"SPLIT", "FULL"}}
           After == {<<i, d>> : i \in ReachedAt(d)}
<1>2. ASSUME NEW x \in Deeper(Before)
      PROVE  x \in After
  <2>1. PICK n \in Parents : x \in Halves(n[1], n[2])
    BY DEF Deeper
  <2>2. PICK p \in ReachedAt(d - 1) : n = <<p, d - 1>>
    BY <2>1
  <2>3. /\ p \in NodeIndexes /\ LevelOf(p) = d - 1 /\ Reachable(p) /\ p \in Nat
        /\ tree[p] \in {"SPLIT", "FULL"}
    BY <2>1, <2>2 DEF ReachedAt, NodeIndexes
  <2>4. PICK c \in {2 * p + 1, 2 * p + 2} : x = <<c, d>>
    BY <1>1, <2>1, <2>2 DEF Halves
  <2>5. LevelOf(p) < max_level
    BY <1>1, <2>3
  <2>6. c \in NodeIndexes /\ LevelOf(c) = d
    BY <1>1, <2>3, <2>4, <2>5, ChildFacts
  <2>7. c # 0 /\ ParentOf(c) = p
    BY <2>3, <2>4 DEF ParentOf
  <2>8. Reachable(c)
    BY <2>3, <2>6, <2>7, ChildReached
  <2> QED
    BY <2>4, <2>6, <2>8 DEF ReachedAt
<1>3. ASSUME NEW x \in After
      PROVE  x \in Deeper(Before)
  <2>1. PICK c \in ReachedAt(d) : x = <<c, d>>
    OBVIOUS
  <2>2. c \in NodeIndexes /\ LevelOf(c) = d /\ Reachable(c) /\ c # 0
    BY <2>1, Root DEF ReachedAt
  <2> DEFINE p == ParentOf(c)
  <2>3. /\ p \in NodeIndexes /\ c \in {2 * p + 1, 2 * p + 2} /\ LevelOf(c) = LevelOf(p) + 1
    BY <2>2, ParentFacts
  <2>4. LevelOf(p) = d - 1
    BY <1>1, <2>2, <2>3, LevelTypes
  <2>5. Reachable(p) /\ tree[p] \in {"SPLIT", "FULL"}
    BY <2>2, ChildReached
  <2> HIDE DEF p
  <2>6. <<p, d - 1>> \in Parents
    BY <2>3, <2>4, <2>5 DEF ReachedAt
  <2>7. x \in Halves(p, d - 1)
    BY <1>1, <2>1, <2>3 DEF Halves
  <2> QED
    BY <2>6, <2>7 DEF Deeper
<1> QED
  BY <1>2, <1>3

LEMMA CallsReach == \A d \in 0 .. max_level : _dump[d] = {<<i, d>> : i \in ReachedAt(d)}
<1> DEFINE Bad == {d \in 0 .. max_level : _dump[d] # {<<i, d>> : i \in ReachedAt(d)}}
<1>1. max_level \in Nat /\ 0 \in 0 .. max_level
  BY MaxLevel
<1>2. Bad \subseteq Nat /\ 0 \notin Bad
  <2>1. ReachedAt(0) = {0}
    <3>1. 0 \in ReachedAt(0)
      BY Root DEF ReachedAt, Reachable
    <3>2. ASSUME NEW i \in ReachedAt(0), i # 0
          PROVE  FALSE
      <4>1. i \in NodeIndexes /\ LevelOf(i) = 0
        BY DEF ReachedAt
      <4>2. ParentOf(i) \in NodeIndexes /\ LevelOf(i) = LevelOf(ParentOf(i)) + 1
        BY <3>2, <4>1, ParentFacts
      <4>3. LevelOf(ParentOf(i)) \in Nat
        BY <4>2, LevelTypes
      <4> QED
        BY <4>1, <4>2, <4>3
    <3> QED
      BY <3>1, <3>2
  <2>2. _dump[0] = {<<0, 0>>}
    BY <1>1, CallsAre
  <2> QED
    BY <2>1, <2>2
<1>3. ASSUME Bad # {}
      PROVE  FALSE
  <2> HIDE DEF Bad
  <2>1. PICK d \in Bad : \A e \in Bad : d <= e
    BY <1>2, <1>3, Least
  <2>2. d \in 0 .. max_level /\ d # 0 /\ _dump[d] # {<<i, d>> : i \in ReachedAt(d)}
    BY <1>2, <2>1 DEF Bad
  <2>3. d - 1 \in 0 .. max_level /\ ~(d <= d - 1) /\ d \in Nat
    BY <1>1, <2>2
  <2>4. _dump[d - 1] = {<<i, d - 1>> : i \in ReachedAt(d - 1)}
    BY <2>1, <2>3 DEF Bad
  <2>5. _dump[d] = Deeper(_dump[d - 1])
    BY <2>2, CallsAre
  <2> QED
    BY <2>2, <2>4, <2>5, DeeperReached
<1> QED
  BY <1>3

(* What is printed: the regions of the nodes reached, by their states. *)
LEMMA Printed ==
  ASSUME NEW state
  PROVE  buddy_dump(state) =
           {RegionOf(i) : i \in {j \in NodeIndexes : Reachable(j) /\ tree[j] = state}}
<1> DEFINE Calls == UNION {_dump[d] : d \in 0 .. max_level}
           Nodes == {j \in NodeIndexes : Reachable(j) /\ tree[j] = state}
           Show(n) == [addr |-> _index_offset(n[1], n[2]), size |-> 2^(max_level - n[2])]
<1>1. \A j \in NodeIndexes : Show(<<j, LevelOf(j)>>) = RegionOf(j)
  BY DEF RegionOf
<1>2. ASSUME NEW r \in buddy_dump(state)
      PROVE  r \in {RegionOf(i) : i \in Nodes}
  <2>1. PICK n \in Calls : tree[n[1]] = state /\ r = Show(n)
    BY DEF buddy_dump
  <2>2. PICK d \in 0 .. max_level : n \in _dump[d]
    BY <2>1
  <2>3. PICK j \in ReachedAt(d) : n = <<j, d>>
    BY <2>2, CallsReach
  <2>4. j \in NodeIndexes /\ LevelOf(j) = d /\ Reachable(j)
    BY <2>3 DEF ReachedAt
  <2>5. r = RegionOf(j) /\ j \in Nodes
    <3>1. n = <<j, LevelOf(j)>> /\ n[1] = j
      BY <2>3, <2>4
    <3>2. r = RegionOf(j)
      <4> HIDE DEF Show
      <4> QED
        BY <1>1, <2>1, <2>4, <3>1
    <3> QED
      BY <2>1, <2>4, <3>1, <3>2
  <2> QED
    BY <2>5
<1>3. ASSUME NEW j \in Nodes
      PROVE  RegionOf(j) \in buddy_dump(state)
  <2> DEFINE n == <<j, LevelOf(j)>>
  <2>1. LevelOf(j) \in 0 .. max_level /\ j \in ReachedAt(LevelOf(j))
    BY LevelTypes DEF ReachedAt
  <2>2. n \in _dump[LevelOf(j)]
    BY <2>1, CallsReach
  <2>3. n \in Calls /\ tree[n[1]] = state
    BY <2>1, <2>2
  <2>4. Show(n) \in buddy_dump(state)
    BY <2>3 DEF buddy_dump
  <2> HIDE DEF Show
  <2> QED
    BY <1>1, <2>4
<1> QED
  BY <1>2, <1>3

(* Every cell that is not in use is in a reached node that is unused. *)
LEMMA FreeCellShown ==
  ASSUME ExactFor(given), NEW c \in 0 .. (Cells - 1), c \notin CellsIn(given)
  PROVE  \E i \in NodeIndexes : Reachable(i) /\ tree[i] = "UNUSED" /\ c \in CellsAt(i)
<1> DEFINE top == 2 * Cells - 2
           Down == {k \in Nat : \E i \in NodeIndexes :
                                  k = top - i /\ Reachable(i) /\ c \in CellsAt(i)}
<1>1. Cells \in Nat /\ Cells >= 1
  BY Root
<1>2. Down # {} /\ Down \subseteq Nat
  <2>1. top \in Nat /\ top = top - 0
    BY <1>1
  <2>2. 0 \in NodeIndexes /\ Reachable(0) /\ c \in CellsAt(0)
    BY Root DEF Reachable
  <2>3. top \in Down
    BY <2>1, <2>2
  <2> QED
    BY <2>3
<1> HIDE DEF Down
<1>3. PICK k \in Down : \A m \in Down : k <= m
  BY <1>2, Least
<1>4. PICK i \in NodeIndexes : k = top - i /\ Reachable(i) /\ c \in CellsAt(i)
  BY <1>3 DEF Down
<1>5. ASSUME NEW j \in NodeIndexes, i < j, Reachable(j), c \in CellsAt(j)
      PROVE  FALSE
  <2>1. i \in Nat /\ j \in Nat /\ j <= top
    BY <1>1 DEF NodeIndexes
  <2>2. top - j \in Nat /\ ~(k <= top - j)
    BY <1>1, <1>4, <1>5, <2>1
  <2>3. top - j \in Down
    BY <1>5, <2>2 DEF Down
  <2> QED
    BY <1>3, <2>2, <2>3
<1>6. tree[i] = StateFor(i, given) /\ ~Covered(i, given)
  BY <1>4 DEF ExactFor, Shows, Covered
<1>7. tree[i] \in {"UNUSED", "SPLIT"}
  BY <1>6, StateFacts DEF StateFor, Covered, CellsAt, CellsIn
<1>8. ASSUME tree[i] = "SPLIT"
      PROVE  FALSE
  <2>1. LevelOf(i) < max_level
    <3>1. SUFFICES ASSUME LevelOf(i) = max_level
                   PROVE  FALSE
      BY LevelTypes
    <3>2. RegionOf(i).size = 1
      <4>1. RegionOf(i).size = 2^(max_level - LevelOf(i)) /\ max_level - LevelOf(i) = 0
        BY <3>1, NodeFacts, LevelTypes
      <4>2. 2^0 = 1
        OBVIOUS
      <4> QED
        BY <4>1, <4>2
    <3>3. CellsAt(i) = {c}
      <4>1. CellsAt(i) = RegionOf(i).addr .. (RegionOf(i).addr + RegionOf(i).size - 1) /\ RegionOf(i).addr \in Nat
        BY CellsFacts, NodeFacts
      <4> QED
        BY <1>4, <3>2, <4>1
    <3>4. Free(i, given)
      BY <3>3 DEF Free
    <3> QED
      BY <1>6, <1>8, <3>4, StateFacts
  <2> DEFINE l == 2 * i + 1
             r == 2 * i + 2
  <2>2. l \in NodeIndexes /\ r \in NodeIndexes /\ CellsAt(i) = CellsAt(l) \cup CellsAt(r)
    BY <2>1, ChildFacts, HalvesOf
  <2>3. /\ i < l /\ i < r /\ l # 0 /\ r # 0
        /\ ParentOf(l) = i /\ ParentOf(r) = i
    <3>1. i \in Nat
      BY DEF NodeIndexes
    <3> QED
      BY <3>1 DEF ParentOf
  <2> HIDE DEF l, r
  <2>4. Reachable(l) /\ Reachable(r)
    BY <1>4, <1>8, <2>2, <2>3, ChildReached
  <2> QED
    BY <1>4, <1>5, <2>2, <2>3, <2>4
<1> QED
  BY <1>4, <1>7, <1>8

(* What can be asked without the lock between operations is right:         *)
(* buddy_size knows every region in use, and buddy_dump prints these and,  *)
(* for all other cells, the free regions.                                  *)
THEOREM InspectionExactAlways == Spec => []InspectionExact
<1>1. ASSUME BuddyInv, pc = "idle"
      PROVE  /\ \A r \in given : buddy_size(r.addr) = r.size
             /\ buddy_dump("USED") = given
             /\ UNION {CellsOf(r) : r \in buddy_dump("UNUSED")} = (0 .. Cells - 1) \ InUse
  <2>1. GivenInv /\ ExactFor(given)
    BY <1>1 DEF BuddyInv
  <2>2. \A r \in given : \E n \in NodeIndexes : r = RegionOf(n)
    BY <2>1 DEF GivenInv
  <2>3. \A i \in NodeIndexes : Reachable(i) => tree[i] = StateFor(i, given)
    BY <2>1 DEF ExactFor, Shows
  <2>4. \A r \in given : buddy_size(r.addr) = r.size
    BY <2>1, <2>2, SizeTold
  <2>5. buddy_dump("USED") = given
    <3>1. ASSUME NEW i \in NodeIndexes, Reachable(i), tree[i] = "USED"
          PROVE  RegionOf(i) \in given
      BY <2>3, <3>1, StateFacts
    <3>2. ASSUME NEW r \in given
          PROVE  \E i \in NodeIndexes : Reachable(i) /\ tree[i] = "USED" /\ r = RegionOf(i)
      BY <2>1, <2>2, GivenShown
    <3> QED
      BY <3>1, <3>2, Printed
  <2>6. CellsIn(given) = InUse
    BY DEF CellsIn, InUse
  <2> DEFINE Unused == {i \in NodeIndexes : Reachable(i) /\ tree[i] = "UNUSED"}
  <2>7. UNION {CellsOf(r) : r \in buddy_dump("UNUSED")} = UNION {CellsAt(i) : i \in Unused}
    BY Printed DEF CellsAt
  <2>8. ASSUME NEW i \in Unused
        PROVE  CellsAt(i) \subseteq (0 .. Cells - 1) \ InUse
    <3>1. Free(i, given)
      BY <2>3, StateFacts
    <3> QED
      BY <2>6, <3>1, CellsFacts DEF Free
  <2>9. ASSUME NEW c \in (0 .. Cells - 1) \ InUse
        PROVE  \E i \in Unused : c \in CellsAt(i)
    BY <2>1, <2>6, FreeCellShown
  <2> QED
    BY <2>4, <2>5, <2>7, <2>8, <2>9
<1>2. BuddyInv => InspectionExact
  BY <1>1 DEF InspectionExact
<1> QED
  BY InvariantHolds, <1>2, PTL
=============================================================================
