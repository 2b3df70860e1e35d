----------------------------- MODULE NB4LvlProofs -----------------------------
(***************************************************************************)
(* Proofs about NB4Lvl, for every height, any set of threads and targets,  *)
(* and for both builds.                                                    *)
(***************************************************************************)
EXTENDS NB4Lvl, TreeFacts

(***************************************************************************)
(* Part 1.  Containers: the fifteen positions of a bunch, which of its     *)
(* nodes they stand for, and the bits of its word.                         *)
(***************************************************************************)

(***************************************************************************)
(* Positions.                                                              *)
(***************************************************************************)
Positions == 1 .. 15

(* The powers of two within a bunch. *)
LEMMA Powers == 2^0 = 1 /\ 2^1 = 2 /\ 2^2 = 4 /\ 2^3 = 8
OBVIOUS

(* What is above a position, in numbers. *)
LEMMA AboveIs ==
  ASSUME NEW p \in 0 .. 15
  PROVE  Above(p) = {p \div 2, p \div 4, p \div 8} \ {0}
<1>1. \A x : x \in {p \div 2^k : k \in 1 .. 3} <=> x \in {p \div 2, p \div 4, p \div 8}
  <2>1. 1 .. 3 = {1, 2, 3}
    OBVIOUS
  <2>2. {p \div 2^k : k \in {1, 2, 3}} = {p \div 2^1, p \div 2^2, p \div 2^3}
    OBVIOUS
  <2> QED
    BY <2>1, <2>2, Powers
<1> QED
  BY <1>1 DEF Above

AtOrAbove(p) == {p} \cup Above(p)

(* The nodes at p and q share memory. *)
PosOverlap(p, q) == p \in AtOrAbove(q) \/ q \in AtOrAbove(p)

(* What is above a position: inner, smaller, a chain. *)
LEMMA AboveFacts ==
  ASSUME NEW p \in Positions
  PROVE  /\ AtOrAbove(p) \subseteq Positions
         /\ \A q \in Above(p) : q < p /\ q < 8 /\ Above(q) \subseteq Above(p)
         /\ \A q \in AtOrAbove(p), r \in AtOrAbove(p) : q < r => q \in Above(r)
         /\ AtOrBelow(p) = {q \in Positions : p \in AtOrAbove(q)}
<1>1. p \in 0 .. 15 /\ p \in Int
  BY DEF Positions
<1>2. Above(p) = {p \div 2, p \div 4, p \div 8} \ {0}
  BY <1>1, AboveIs
<1>3. \A q \in Positions : Above(q) = {q \div 2, q \div 4, q \div 8} \ {0}
  BY AboveIs DEF Positions
<1>4. AtOrAbove(p) \subseteq Positions
  BY <1>2 DEF AtOrAbove, Positions
<1>5. ASSUME NEW q \in Above(p)
      PROVE  q < p /\ q < 8 /\ Above(q) \subseteq Above(p)
  <2>1. q \in Positions /\ q < p /\ q < 8
    BY <1>5, <1>2 DEF Positions
  <2>2. Above(q) = {q \div 2, q \div 4, q \div 8} \ {0}
    BY <2>1, <1>3
  <2> QED
    BY <2>1, <2>2, <1>2, <1>5 DEF Positions
<1>6. ASSUME NEW q \in AtOrAbove(p), NEW r \in AtOrAbove(p), q < r
      PROVE  q \in Above(r)
  <2>1. q \in Positions /\ r \in Positions
    BY <1>4
  <2>2. Above(r) = {r \div 2, r \div 4, r \div 8} \ {0}
    BY <2>1, <1>3
  <2>3. q \in {p, p \div 2, p \div 4, p \div 8} /\ r \in {p, p \div 2, p \div 4, p \div 8} /\ q # 0
    BY <1>2, <2>1 DEF AtOrAbove, Positions
  <2> QED
    BY <2>2, <2>3, <1>6 DEF Positions
<1>7. AtOrBelow(p) = {q \in Positions : p \in AtOrAbove(q)}
  BY DEF AtOrBelow, AtOrAbove, Positions
<1> QED
  BY <1>4, <1>5, <1>6, <1>7

(* Blocks above the same position share memory; so do a block and those    *)
(* below one that it shares none with but is not below.                    *)
LEMMA OverlapFacts ==
  ASSUME NEW p \in Positions, NEW r \in Positions, NEW q \in Positions
  PROVE  /\ PosOverlap(p, r) <=> PosOverlap(r, p)
         /\ p \in AtOrAbove(q) /\ r \in AtOrAbove(q) => PosOverlap(p, r)
         /\ q \in AtOrAbove(r) /\ p \in AtOrAbove(q) => p \in AtOrAbove(r)
         /\ p \in AtOrAbove(q) /\ PosOverlap(q, r) => PosOverlap(p, r)
<1>1. p \in AtOrAbove(q) /\ r \in AtOrAbove(q) => PosOverlap(p, r)
  <2> SUFFICES ASSUME p \in AtOrAbove(q), r \in AtOrAbove(q)
               PROVE  PosOverlap(p, r)
    OBVIOUS
  <2>1. p < r \/ r < p \/ p = r
    BY DEF Positions
  <2>2. p < r => p \in Above(r)
    BY AboveFacts
  <2>3. r < p => r \in Above(p)
    BY AboveFacts
  <2> QED
    BY <2>1, <2>2, <2>3 DEF PosOverlap, AtOrAbove
<1>2. q \in AtOrAbove(r) /\ p \in AtOrAbove(q) => p \in AtOrAbove(r)
  BY AboveFacts DEF AtOrAbove
<1>3. r \in AtOrAbove(q) /\ p \in AtOrAbove(q) => PosOverlap(p, r)
  BY <1>1
<1> QED
  BY <1>1, <1>2, <1>3 DEF PosOverlap

(***************************************************************************)
(* Bits.                                                                   *)
(***************************************************************************)
InnerBits == 0 .. 6
LeafBits  == 7 .. 46

(* The leaf whose status bit x is part of, and the bits of LOCK_LEAF.      *)
LeafOf(x) == LEAF_START_POSITION + (x - 7) \div 5
LocksLeaf(x) == (x - 7) % 5 \in {0, 1, 4}

(* An inner position has the bit before its number. *)
LEMMA NodeMaskBits ==
  ASSUME NEW p \in Positions, p < LEAF_START_POSITION
  PROVE  NodeMask(p) = {p - 1} /\ p - 1 \in InnerBits
BY DEF NodeMask, Positions, LEAF_START_POSITION, InnerBits

(* A leaf has the five bits LeafOf gives it, three of which lock it. *)
LEMMA LeafMaskBits ==
  ASSUME NEW p \in Positions, p >= LEAF_START_POSITION
  PROVE  /\ LeafMask(LOCK_LEAF, p) = {x \in LeafBits : LeafOf(x) = p /\ LocksLeaf(x)}
         /\ LeafMask(LEAF_FULL_MASK, p) = {x \in LeafBits : LeafOf(x) = p}
<1> DEFINE s == 7 + 5 * (p - 8)
<1>1. p \in 8 .. 15 /\ s \in 7 .. 42 /\ s % 64 = s
  BY DEF Positions, LEAF_START_POSITION
<1>2. ASSUME NEW B \in SUBSET (0 .. 4)
      PROVE  LeafMask(B, p) = {b + s : b \in B}
  <2>1. LeafMask(B, p) = {b + s : b \in B} \cap WordBits
    BY <1>1 DEF LeafMask, LEAF_START_POSITION
  <2>2. \A b \in B : b + s \in WordBits
    BY <1>1 DEF WordBits
  <2> QED
    BY <2>1, <2>2
<1>3. \A x \in LeafBits : LeafOf(x) = p <=> x - s \in 0 .. 4
  BY <1>1 DEF LeafBits, LeafOf, LEAF_START_POSITION
<1>4. \A x \in LeafBits : LeafOf(x) = p => (x - 7) % 5 = x - s
  BY <1>1 DEF LeafBits, LeafOf, LEAF_START_POSITION
<1>5. \A b \in 0 .. 4 : b + s \in LeafBits /\ LeafOf(b + s) = p /\ ((b + s) - 7) % 5 = b
  BY <1>1 DEF LeafBits, LeafOf, LEAF_START_POSITION
<1>6. LOCK_LEAF = {0, 1, 4} /\ LEAF_FULL_MASK = 0 .. 4
  BY DEF LOCK_LEAF, LEAF_FULL_MASK, OCCUPIED, LEFT, RIGHT, COAL_LEFT, COAL_RIGHT
<1>7. LeafMask(LEAF_FULL_MASK, p) = {x \in LeafBits : LeafOf(x) = p}
  <2>1. LeafMask(LEAF_FULL_MASK, p) = {b + s : b \in 0 .. 4}
    BY <1>2, <1>6
  <2>2. \A x \in LeafBits : LeafOf(x) = p => \E b \in 0 .. 4 : x = b + s
    <3> SUFFICES ASSUME NEW x \in LeafBits, LeafOf(x) = p
                 PROVE  \E b \in 0 .. 4 : x = b + s
      OBVIOUS
    <3>1. x - s \in 0 .. 4 /\ x = (x - s) + s
      BY <1>1, <1>3 DEF LeafBits
    <3> QED
      BY <3>1
  <2> HIDE DEF s
  <2> QED
    BY <2>1, <2>2, <1>5
<1>8. LeafMask(LOCK_LEAF, p) = {x \in LeafBits : LeafOf(x) = p /\ LocksLeaf(x)}
  <2>1. LeafMask(LOCK_LEAF, p) = {b + s : b \in {0, 1, 4}}
    BY <1>2, <1>6
  <2>2. \A x \in LeafBits : LeafOf(x) = p /\ LocksLeaf(x) => \E b \in {0, 1, 4} : x = b + s
    <3> SUFFICES ASSUME NEW x \in LeafBits, LeafOf(x) = p, LocksLeaf(x)
                 PROVE  \E b \in {0, 1, 4} : x = b + s
      OBVIOUS
    <3>1. x - s \in {0, 1, 4} /\ x = (x - s) + s
      BY <1>1, <1>4 DEF LeafBits, LocksLeaf
    <3> QED
      BY <3>1
  <2>3. \A b \in {0, 1, 4} : b + s \in LeafBits /\ LeafOf(b + s) = p /\ LocksLeaf(b + s)
    <3> SUFFICES ASSUME NEW b \in {0, 1, 4}
                 PROVE  b + s \in LeafBits /\ LeafOf(b + s) = p /\ LocksLeaf(b + s)
      OBVIOUS
    <3>1. b \in 0 .. 4
      OBVIOUS
    <3>2. b + s \in LeafBits /\ LeafOf(b + s) = p /\ ((b + s) - 7) % 5 = b
      BY <3>1, <1>5
    <3>3. ((b + s) - 7) % 5 \in {0, 1, 4}
      BY <3>2
    <3>4. LocksLeaf(b + s)
      BY <3>3 DEF LocksLeaf
    <3> QED
      BY <3>2, <3>4
  <2> HIDE DEF s
  <2> QED
    BY <2>1, <2>2, <2>3
<1> QED
  BY <1>7, <1>8

(* The masks of a set of positions, as sets of bits. *)
LEMMA MasksBits ==
  ASSUME NEW A \in SUBSET Positions
  PROVE  /\ NodeMasks(A) = {x \in InnerBits : x + 1 \in A}
         /\ LeafMasks(A) = {x \in LeafBits : LeafOf(x) \in A /\ LocksLeaf(x)}
<1>1. NodeMasks(A) = {x \in InnerBits : x + 1 \in A}
  <2>1. ASSUME NEW x \in NodeMasks(A)
        PROVE  x \in InnerBits /\ x + 1 \in A
    <3>1. PICK q \in A : q < LEAF_START_POSITION /\ x \in NodeMask(q)
      BY <2>1 DEF NodeMasks
    <3>2. x = q - 1 /\ x \in InnerBits /\ q \in Positions
      BY <3>1, NodeMaskBits
    <3>3. x + 1 = q
      BY <3>2 DEF Positions
    <3> QED
      BY <3>2, <3>3
  <2>2. ASSUME NEW x \in InnerBits, x + 1 \in A
        PROVE  x \in NodeMasks(A)
    <3>1. x + 1 \in Positions /\ x + 1 < LEAF_START_POSITION /\ (x + 1) - 1 = x
      BY <2>2 DEF InnerBits, LEAF_START_POSITION
    <3>2. x \in NodeMask(x + 1)
      BY <3>1, NodeMaskBits
    <3> QED
      BY <2>2, <3>1, <3>2 DEF NodeMasks
  <2> QED
    BY <2>1, <2>2
<1>2. LeafMasks(A) = {x \in LeafBits : LeafOf(x) \in A /\ LocksLeaf(x)}
  <2>1. ASSUME NEW x \in LeafMasks(A)
        PROVE  x \in LeafBits /\ LeafOf(x) \in A /\ LocksLeaf(x)
    <3>1. PICK q \in A : q >= LEAF_START_POSITION /\ x \in LeafMask(LOCK_LEAF, q)
      BY <2>1 DEF LeafMasks
    <3> QED
      BY <3>1, LeafMaskBits
  <2>2. ASSUME NEW x \in LeafBits, LeafOf(x) \in A, LocksLeaf(x)
        PROVE  x \in LeafMasks(A)
    <3>1. LeafOf(x) \in Positions /\ LeafOf(x) >= LEAF_START_POSITION
      BY <2>2 DEF LeafBits, LeafOf, LEAF_START_POSITION
    <3>2. x \in LeafMask(LOCK_LEAF, LeafOf(x))
      BY <3>1, <2>2, LeafMaskBits
    <3> QED
      BY <2>2, <3>1, <3>2 DEF LeafMasks
  <2> QED
    BY <2>1, <2>2
<1> QED
  BY <1>1, <1>2

(***************************************************************************)
(* The word of a container that only blocks at the positions Q are in.     *)
(***************************************************************************)
WordOf(Q) ==
  {x \in InnerBits : \E r \in Q : PosOverlap(x + 1, r)}
  \cup {x \in LeafBits : LocksLeaf(x) /\ \E r \in Q : r \in AtOrAbove(LeafOf(x))}

(* Every bit is the bit of a node or of a leaf. *)
LEMMA BitFacts ==
  /\ InnerBits \cap LeafBits = {}
  /\ \A x \in InnerBits : x + 1 \in Positions /\ x + 1 < LEAF_START_POSITION
  /\ \A x \in LeafBits : LeafOf(x) \in Positions /\ LeafOf(x) >= LEAF_START_POSITION
  /\ InnerBits \subseteq WordBits /\ LeafBits \subseteq WordBits
BY DEF InnerBits, LeafBits, LeafOf, Positions, LEAF_START_POSITION, WordBits

(* Only what is above a leaf, or the leaf, shares memory with it. *)
LEMMA LeafOverlap ==
  ASSUME NEW p \in Positions, p >= LEAF_START_POSITION, NEW r \in Positions
  PROVE  PosOverlap(p, r) <=> r \in AtOrAbove(p)
BY AboveFacts DEF PosOverlap, AtOrAbove, LEAF_START_POSITION, Positions

(* A position is found allocable exactly if no block shares memory with it.*)
LEMMA AllocableInWord ==
  ASSUME NEW p \in Positions, NEW Q \in SUBSET Positions
  PROVE  IS_ALLOCABLE(WordOf(Q), p) <=> \A r \in Q : ~PosOverlap(p, r)
<1>1. CASE p < LEAF_START_POSITION
  <2>1. NodeMask(p) = {p - 1} /\ p - 1 \in InnerBits /\ (p - 1) + 1 = p
    BY <1>1, NodeMaskBits DEF Positions
  <2>2. p - 1 \in WordOf(Q) <=> \E r \in Q : PosOverlap(p, r)
    BY <2>1, BitFacts DEF WordOf
  <2> QED
    BY <1>1, <2>1, <2>2 DEF IS_ALLOCABLE
<1>2. CASE p >= LEAF_START_POSITION
  <2>1. LeafMask(LEAF_FULL_MASK, p) = {x \in LeafBits : LeafOf(x) = p}
    BY <1>2, LeafMaskBits
  <2> DEFINE x == 7 + 5 * (p - 8)
  <2>2. x \in LeafBits /\ LeafOf(x) = p /\ LocksLeaf(x)
    BY <1>2 DEF LeafBits, LeafOf, LocksLeaf, LEAF_START_POSITION, Positions
  <2> HIDE DEF x
  <2>3. \A r \in Q : PosOverlap(p, r) <=> r \in AtOrAbove(p)
    BY <1>2, LeafOverlap
  <2>4. (\E r \in Q : r \in AtOrAbove(p)) => x \in WordOf(Q) \cap LeafMask(LEAF_FULL_MASK, p)
    BY <2>1, <2>2 DEF WordOf
  <2>5. ASSUME NEW y \in WordOf(Q) \cap LeafMask(LEAF_FULL_MASK, p)
        PROVE  \E r \in Q : r \in AtOrAbove(p)
    BY <2>1, BitFacts DEF WordOf
  <2>6. ~(p < LEAF_START_POSITION)
    BY <1>2 DEF LEAF_START_POSITION, Positions
  <2> QED
    BY <2>3, <2>4, <2>5, <2>6 DEF IS_ALLOCABLE
<1> QED
  BY <1>1, <1>2 DEF LEAF_START_POSITION, Positions

(* An allocation adds its position. *)
LEMMA WordOccupied ==
  ASSUME NEW p \in Positions, NEW Q \in SUBSET Positions
  PROVE  occupa_container(p, WordOf(Q)) = WordOf(Q \cup {p})
<1>1. Above(p) \subseteq Positions /\ AtOrBelow(p) \subseteq Positions
  BY AboveFacts DEF AtOrAbove
<1>2. NodeMasks(Above(p) \cup AtOrBelow(p)) = {x \in InnerBits : x + 1 \in Above(p) \cup AtOrBelow(p)}
  BY <1>1, MasksBits
<1>3. LeafMasks(AtOrBelow(p)) = {x \in LeafBits : LeafOf(x) \in AtOrBelow(p) /\ LocksLeaf(x)}
  BY <1>1, MasksBits
<1>4. \A q \in Positions : q \in AtOrBelow(p) <=> p \in AtOrAbove(q)
  BY AboveFacts
<1>5. \A x \in InnerBits : x + 1 \in Above(p) \cup AtOrBelow(p) <=> PosOverlap(x + 1, p)
  BY <1>4, BitFacts DEF PosOverlap, AtOrAbove
<1>6. \A x \in LeafBits : LeafOf(x) \in AtOrBelow(p) <=> p \in AtOrAbove(LeafOf(x))
  BY <1>4, BitFacts
<1> QED
  BY <1>2, <1>3, <1>5, <1>6 DEF occupa_container, WordOf

(* The brother of a position, where the walks of a release look, is below  *)
(* the same positions.                                                     *)
LEMMA BrotherFacts ==
  ASSUME NEW q \in Positions, q > 1
  PROVE  /\ Brother(q) \in Positions
         /\ Above(Brother(q)) = Above(q)
         /\ q \notin AtOrAbove(Brother(q)) /\ Brother(q) \notin AtOrAbove(q)
<1>1. Brother(q) \in Positions /\ Brother(q) # q /\ Brother(q) \div 2 = q \div 2
      /\ Brother(q) > 1
  BY DEF Brother, is_left_by_idx, Positions
<1>2. Brother(q) \div 4 = q \div 4 /\ Brother(q) \div 8 = q \div 8
  BY DEF Brother, is_left_by_idx, Positions
<1>3. Above(q) = {q \div 2, q \div 4, q \div 8} \ {0}
  BY AboveIs DEF Positions
<1>4. Above(Brother(q)) = Above(q)
  BY <1>1, <1>2, <1>3, AboveIs DEF Positions
<1>5. q \notin Above(q) /\ Brother(q) \notin Above(Brother(q))
  BY <1>1, AboveFacts DEF Positions
<1> QED
  BY <1>1, <1>4, <1>5 DEF AtOrAbove

(* Where the ways up from two positions meet, they come from brothers.     *)
LEMMA Meet ==
  ASSUME NEW p \in Positions, NEW r \in Positions, ~PosOverlap(p, r),
         NEW a \in Above(p), a \in Above(r)
  PROVE  \E q \in AtOrAbove(p) : q > a /\ Brother(q) \in AtOrAbove(r)
<1>1. Above(p) = {p \div 2, p \div 4, p \div 8} \ {0}
  BY AboveIs DEF Positions
<1>2. Above(r) = {r \div 2, r \div 4, r \div 8} \ {0}
  BY AboveIs DEF Positions
<1>3. p \notin {r, r \div 2, r \div 4, r \div 8} /\ r \notin {p, p \div 2, p \div 4, p \div 8}
  BY <1>1, <1>2 DEF PosOverlap, AtOrAbove, Positions
<1>4. \E q \in {p, p \div 2, p \div 4, p \div 8} \ {0} :
        q > a /\ Brother(q) \in {r, r \div 2, r \div 4, r \div 8} \ {0}
  BY <1>1, <1>2, <1>3 DEF Brother, is_left_by_idx, Positions
<1> QED
  BY <1>1, <1>2, <1>4 DEF AtOrAbove, Positions

(* A walk from p, in a word of blocks apart from p, stops below the first  *)
(* ancestor that another block is below.                                   *)
LEMMA CleanableInWord ==
  ASSUME NEW p \in Positions, NEW Q \in SUBSET Positions,
         \A r \in Q : ~PosOverlap(p, r)
  PROVE  \A a \in Above(p) :
           a \in Cleanable(WordOf(Q \cup {p}), p) <=> \A r \in Q : ~PosOverlap(a, r)
<1> DEFINE W == WordOf(Q \cup {p})
<1>0. Q \cup {p} \in SUBSET Positions /\ AtOrAbove(p) \subseteq Positions
  BY AboveFacts
<1>1. ASSUME NEW q \in AtOrAbove(p), q > 1
      PROVE  q \in Blocked(W, p) <=> \E r \in Q : PosOverlap(Brother(q), r)
  <2>1. q \in Positions /\ Brother(q) \in Positions
    BY <1>0, <1>1, BrotherFacts
  <2>2. ~PosOverlap(Brother(q), p)
    <3>1. Brother(q) \notin AtOrAbove(p)
      <4> SUFFICES ASSUME Brother(q) \in AtOrAbove(p)
                   PROVE  FALSE
        OBVIOUS
      <4>1. q \in AtOrAbove(Brother(q)) \/ Brother(q) \in AtOrAbove(q)
        BY <2>1, <1>1, OverlapFacts DEF PosOverlap
      <4> QED
        BY <4>1, <2>1, <1>1, BrotherFacts
    <3>2. p \notin AtOrAbove(Brother(q))
      BY <2>1, <1>0, <1>1, OverlapFacts, BrotherFacts
    <3> QED
      BY <3>1, <3>2 DEF PosOverlap
  <2>3. IS_ALLOCABLE(W, Brother(q)) <=> \A r \in Q \cup {p} : ~PosOverlap(Brother(q), r)
    BY <1>0, <2>1, AllocableInWord
  <2> QED
    BY <2>2, <2>3, <1>1 DEF Blocked, AtOrAbove
<1> HIDE DEF W
<1> SUFFICES ASSUME NEW a \in Above(p)
             PROVE  a \in Cleanable(W, p) <=> \A r \in Q : ~PosOverlap(a, r)
  BY DEF W
<1>2. a \in Positions /\ a < p
  BY <1>0, AboveFacts DEF AtOrAbove
<1>3. ASSUME NEW r \in Q, PosOverlap(a, r)
      PROVE  a \notin Cleanable(W, p)
  <2>1. r \notin AtOrAbove(a) /\ a \in AtOrAbove(p)
    BY <1>2, OverlapFacts DEF PosOverlap, AtOrAbove
  <2>2. a \in Above(r)
    BY <2>1, <1>3 DEF PosOverlap, AtOrAbove
  <2>3. PICK q \in AtOrAbove(p) : q > a /\ Brother(q) \in AtOrAbove(r)
    BY <2>2, Meet
  <2>4. q > 1
    BY <2>3, <1>0, <1>2 DEF Positions
  <2>5. q \in Blocked(W, p)
    BY <1>1, <2>3, <2>4 DEF PosOverlap
  <2> QED
    BY <2>3, <2>5, <1>0, <1>2 DEF Cleanable, Positions
<1>4. ASSUME a \notin Cleanable(W, p)
      PROVE  \E r \in Q : PosOverlap(a, r)
  <2>1. PICK q \in Blocked(W, p) : ~(q <= a)
    BY <1>4 DEF Cleanable
  <2>2. q \in AtOrAbove(p) /\ q > 1 /\ q \in Positions
    BY <1>0 DEF Blocked, AtOrAbove
  <2>3. PICK r \in Q : PosOverlap(Brother(q), r)
    BY <1>1, <2>1, <2>2
  <2>4. a \in Above(q)
    BY <1>2, <2>1, <2>2, AboveFacts DEF AtOrAbove, Positions
  <2>5. Brother(q) \in Positions /\ a \in AtOrAbove(Brother(q))
    BY <2>2, <2>4, BrotherFacts DEF AtOrAbove
  <2> QED
    BY <2>3, <2>5, <1>2, OverlapFacts
<1> QED
  BY <1>3, <1>4

(* A release takes its position out. *)
LEMMA WordFreed ==
  ASSUME NEW p \in Positions, NEW Q \in SUBSET Positions,
         \A r \in Q : ~PosOverlap(p, r)
  PROVE  libera_container(p, WordOf(Q \cup {p})) = WordOf(Q)
<1> DEFINE W == WordOf(Q \cup {p})
           C == Cleanable(W, p)
<1>1. Above(p) \subseteq Positions /\ AtOrBelow(p) \subseteq Positions /\ C \subseteq Positions
  BY AboveFacts DEF AtOrAbove, Cleanable
<1>2. NodeMasks(C) = {x \in InnerBits : x + 1 \in C}
  BY <1>1, MasksBits
<1>3. NodeMasks(AtOrBelow(p)) = {x \in InnerBits : x + 1 \in AtOrBelow(p)}
  BY <1>1, MasksBits
<1>4. LeafMasks(AtOrBelow(p)) = {x \in LeafBits : LeafOf(x) \in AtOrBelow(p) /\ LocksLeaf(x)}
  BY <1>1, MasksBits
<1>5. \A q \in Positions : q \in AtOrBelow(p) <=> p \in AtOrAbove(q)
  BY AboveFacts
<1>6. \A q \in Positions : q \in C => q \in Above(p)
  BY DEF Cleanable
<1>7. \A a \in Above(p) : a \in C <=> \A r \in Q : ~PosOverlap(a, r)
  BY CleanableInWord
<1>8. libera_container(p, W) = ((W \ NodeMasks(C)) \ NodeMasks(AtOrBelow(p))) \ LeafMasks(AtOrBelow(p))
  BY DEF libera_container, ClearAbove
<1>9. ASSUME NEW x \in InnerBits
      PROVE  x \in libera_container(p, W) <=> \E r \in Q : PosOverlap(x + 1, r)
  <2> DEFINE q == x + 1
  <2>1. q \in Positions
    BY BitFacts
  <2>2. x \in W <=> \E r \in Q \cup {p} : PosOverlap(q, r)
    BY <1>9, BitFacts DEF WordOf
  <2>3. x \notin LeafMasks(AtOrBelow(p))
    BY <1>4, BitFacts
  <2>4. x \in libera_container(p, W) <=> x \in W /\ q \notin C /\ q \notin AtOrBelow(p)
    BY <1>2, <1>3, <1>8, <2>3
  <2> HIDE DEF q, W, C
  <2>5. CASE p \in AtOrAbove(q)
    BY <2>1, <2>4, <2>5, <1>5, OverlapFacts DEF q
  <2>6. CASE q \in Above(p)
    <3>1. p \notin AtOrAbove(q)
      BY <2>6, <2>1, AboveFacts DEF AtOrAbove, Positions
    <3>2. x \in W
      BY <2>2, <2>6 DEF PosOverlap, AtOrAbove
    <3> QED
      BY <3>1, <3>2, <2>1, <2>4, <2>6, <1>5, <1>7 DEF q
  <2>7. CASE p \notin AtOrAbove(q) /\ q \notin Above(p)
    <3>1. ~PosOverlap(q, p)
      BY <2>7 DEF PosOverlap, AtOrAbove
    <3> QED
      BY <3>1, <2>1, <2>2, <2>4, <2>7, <1>5, <1>6 DEF q
  <2> QED
    BY <2>5, <2>6, <2>7 DEF q
<1>10. ASSUME NEW x \in LeafBits
       PROVE  x \in libera_container(p, W)
                <=> LocksLeaf(x) /\ \E r \in Q : r \in AtOrAbove(LeafOf(x))
  <2> DEFINE q == LeafOf(x)
  <2>1. q \in Positions
    BY BitFacts
  <2>2. x \in W <=> LocksLeaf(x) /\ \E r \in Q \cup {p} : r \in AtOrAbove(q)
    BY <1>10, BitFacts DEF WordOf
  <2>3. x \notin NodeMasks(AtOrBelow(p)) /\ x \notin NodeMasks(C)
    BY <1>2, <1>3, BitFacts
  <2>4. x \in libera_container(p, W) <=> x \in W /\ ~(q \in AtOrBelow(p) /\ LocksLeaf(x))
    BY <1>4, <1>8, <2>3
  <2> HIDE DEF q, W, C
  <2>5. CASE p \in AtOrAbove(q)
    BY <2>1, <2>2, <2>4, <2>5, <1>5, OverlapFacts DEF q
  <2>6. CASE p \notin AtOrAbove(q)
    BY <2>1, <2>2, <2>4, <2>6, <1>5 DEF q
  <2> QED
    BY <2>5, <2>6
<1>11. libera_container(p, W) \subseteq InnerBits \cup LeafBits
  BY <1>8 DEF WordOf
<1> HIDE DEF W
<1>12. libera_container(p, W) = WordOf(Q)
  BY <1>9, <1>10, <1>11, BitFacts DEF WordOf
<1> QED
  BY <1>12 DEF W

(***************************************************************************)
(* The nodes of a bunch.                                                   *)
(***************************************************************************)

(* The root of a bunch has position 1; below it, the positions of the two  *)
(* children of a node are twice its own, and one more.                     *)
LEMMA BunchStep ==
  ASSUME NEW n \in Nodes
  PROVE  LET p == parent_idx_by_idx(n)
         IN /\ DepthInBunch(n) \in 0 .. 3
            /\ DepthInBunch(n) = 0 => BUNCHROOT(n) = n /\ container_pos(n) = 1
            /\ DepthInBunch(n) # 0 =>
                 /\ p \in Nodes /\ DepthInBunch(p) = DepthInBunch(n) - 1
                 /\ BUNCHROOT(n) = BUNCHROOT(p)
                 /\ container_pos(n) = 2 * container_pos(p) + (n % 2)
<1> DEFINE p == parent_idx_by_idx(n)
<1>1. n \in Nat /\ n # 0 /\ p = n \div 2 /\ p \in Indexes
  BY IndexInterval DEF Nodes, Indexes, parent_idx_by_idx
<1>2. level_by_idx(p) \in Nat /\ level_by_idx(n) = level_by_idx(p) + 1
  BY <1>1, LevelFacts
<1>3. DepthInBunch(n) = level_by_idx(p) % 4
  <2>1. level_by_idx(n) - 1 = level_by_idx(p)
    BY <1>2
  <2> QED
    BY <2>1 DEF DepthInBunch, LEVEL_PER_CONTAINER
<1>4. DepthInBunch(n) \in 0 .. 3
  BY <1>2, <1>3
<1>5. CASE DepthInBunch(n) = 0
  <2>1. BUNCHROOT(n) = n \div 1 /\ container_pos(n) = 1 + (n % 1)
    BY <1>5, Powers DEF BUNCHROOT, container_pos
  <2> QED
    BY <1>1, <1>5, <2>1
<1>6. CASE DepthInBunch(n) # 0
  <2>1. p # 0
    BY <1>2, <1>3, <1>6, LevelFacts
  <2>2. p \in Nodes
    BY <2>1, <1>1 DEF Indexes
  <2>3. DepthInBunch(p) = (level_by_idx(p) - 1) % 4
    BY DEF DepthInBunch, LEVEL_PER_CONTAINER
  <2>4. DepthInBunch(p) = DepthInBunch(n) - 1
    BY <1>2, <1>3, <1>6, <2>3
  <2> HIDE DEF p
  <2>5. CASE DepthInBunch(n) = 1
    <3>1. BUNCHROOT(n) = n \div 2 /\ container_pos(n) = 2 + (n % 2)
      BY <2>5, Powers DEF BUNCHROOT, container_pos
    <3>2. BUNCHROOT(p) = p \div 1 /\ container_pos(p) = 1 + (p % 1)
      BY <2>4, <2>5, Powers DEF BUNCHROOT, container_pos
    <3> QED
      BY <1>1, <1>4, <1>6, <2>2, <2>4, <3>1, <3>2 DEF p
  <2>6. CASE DepthInBunch(n) = 2
    <3>1. BUNCHROOT(n) = n \div 4 /\ container_pos(n) = 4 + (n % 4)
      BY <2>6, Powers DEF BUNCHROOT, container_pos
    <3>2. BUNCHROOT(p) = p \div 2 /\ container_pos(p) = 2 + (p % 2)
      BY <2>4, <2>6, Powers DEF BUNCHROOT, container_pos
    <3> QED
      BY <1>1, <1>4, <1>6, <2>2, <2>4, <3>1, <3>2 DEF p
  <2>7. CASE DepthInBunch(n) = 3
    <3>1. BUNCHROOT(n) = n \div 8 /\ container_pos(n) = 8 + (n % 8)
      BY <2>7, Powers DEF BUNCHROOT, container_pos
    <3>2. BUNCHROOT(p) = p \div 4 /\ container_pos(p) = 4 + (p % 4)
      BY <2>4, <2>7, Powers DEF BUNCHROOT, container_pos
    <3> QED
      BY <1>1, <1>4, <1>6, <2>2, <2>4, <3>1, <3>2 DEF p
  <2> QED
    BY <1>4, <1>6, <2>5, <2>6, <2>7
<1> QED
  BY <1>4, <1>5, <1>6

(* A node is below the root of its bunch, and has one of the positions of  *)
(* its level in the bunch.                                                 *)
LEMMA InBunch ==
  ASSUME NEW n \in Nodes
  PROVE  /\ BUNCHROOT(n) \in Path[n]
         /\ DepthInBunch(BUNCHROOT(n)) = 0
         /\ level_by_idx(n) = level_by_idx(BUNCHROOT(n)) + DepthInBunch(n)
         /\ container_pos(n) \in 2^DepthInBunch(n) .. (2 * 2^DepthInBunch(n) - 1)
<1> DEFINE Fine(x) ==
             /\ BUNCHROOT(x) \in Path[x]
             /\ DepthInBunch(BUNCHROOT(x)) = 0
             /\ level_by_idx(x) = level_by_idx(BUNCHROOT(x)) + DepthInBunch(x)
             /\ container_pos(x) \in 2^DepthInBunch(x) .. (2 * 2^DepthInBunch(x) - 1)
           All(d) == \A x \in Nodes : DepthInBunch(x) = d => Fine(x)
<1>1. \A x \in Nodes : x \in Path[x] /\ Path[x] \subseteq Nodes /\ level_by_idx(x) \in Nat /\ x \in Nat
  BY SelfOnPath, PathFacts, LevelFacts, IndexInterval DEF Indexes
<1>2. All(0)
  <2> SUFFICES ASSUME NEW x \in Nodes, DepthInBunch(x) = 0
               PROVE  Fine(x)
    OBVIOUS
  <2>1. BUNCHROOT(x) = x /\ container_pos(x) = 1
    BY BunchStep
  <2> QED
    BY <1>1, <2>1, Powers
<1>3. ASSUME NEW d \in 0 .. 2, All(d), 2^(d + 1) = 2 * 2^d, 2^d \in Nat
      PROVE  All(d + 1)
  <2> SUFFICES ASSUME NEW x \in Nodes, DepthInBunch(x) = d + 1
               PROVE  Fine(x)
    OBVIOUS
  <2> DEFINE p == parent_idx_by_idx(x)
  <2>1. /\ p \in Nodes /\ DepthInBunch(p) = d
        /\ BUNCHROOT(x) = BUNCHROOT(p)
        /\ container_pos(x) = 2 * container_pos(p) + (x % 2)
    <3>1. DepthInBunch(x) # 0 /\ DepthInBunch(x) - 1 = d
      OBVIOUS
    <3> QED
      BY <3>1, BunchStep
  <2>2. Fine(p)
    BY <1>3, <2>1
  <2>3. p \in Path[x] /\ Path[p] \subseteq Path[x] /\ level_by_idx(x) = level_by_idx(p) + 1
    BY <2>1, SelfOnPath, LevelFacts
  <2>4. BUNCHROOT(x) \in Path[x] /\ DepthInBunch(BUNCHROOT(x)) = 0
    BY <2>1, <2>2, <2>3
  <2>5. level_by_idx(x) = level_by_idx(BUNCHROOT(x)) + DepthInBunch(x)
    <3>1. level_by_idx(BUNCHROOT(x)) \in Nat
      BY <2>4, <1>1
    <3> QED
      BY <3>1, <2>1, <2>2, <2>3, <1>1
  <2> HIDE DEF p
  <2>6. container_pos(x) \in 2^DepthInBunch(x) .. (2 * 2^DepthInBunch(x) - 1)
    <3> DEFINE w == 2^d
    <3>1. w \in Nat /\ 2^DepthInBunch(x) = 2 * w
      BY <1>3
    <3>2. container_pos(p) \in w .. (2 * w - 1)
      BY <2>1, <2>2
    <3> HIDE DEF w
    <3> QED
      BY <3>1, <3>2, <2>1, <1>1
  <2> QED
    BY <2>4, <2>5, <2>6
<1> HIDE DEF All
<1>4. All(1)
  <2>1. All(0 + 1)
    BY <1>2, <1>3, Powers
  <2> QED
    BY <2>1
<1>5. All(2)
  <2>1. All(1 + 1)
    BY <1>4, <1>3, Powers
  <2> QED
    BY <2>1
<1>6. All(3)
  <2>1. All(2 + 1)
    BY <1>5, <1>3, Powers
  <2> QED
    BY <2>1
<1>7. DepthInBunch(n) \in {0, 1, 2, 3}
  BY BunchStep
<1> QED
  BY <1>2, <1>4, <1>5, <1>6, <1>7 DEF All

(* The position of a node is one of the fifteen. *)
LEMMA PositionOf ==
  ASSUME NEW n \in Nodes
  PROVE  container_pos(n) \in Positions
<1>1. DepthInBunch(n) \in {0, 1, 2, 3}
  BY BunchStep
<1> DEFINE w == 2^DepthInBunch(n)
<1>2. container_pos(n) \in w .. (2 * w - 1)
  BY InBunch
<1>3. w \in {1, 2, 4, 8}
  <2>1. w \in {2^0, 2^1, 2^2, 2^3}
    BY <1>1
  <2> QED
    BY <2>1, Powers
<1> HIDE DEF w
<1> QED
  BY <1>2, <1>3 DEF Positions

(* Above a node, in its bunch, are nodes at the positions above its own.   *)
LEMMA AboveInBunch ==
  ASSUME NEW n \in Nodes, NEW m \in Path[n], BUNCHROOT(m) = BUNCHROOT(n)
  PROVE  container_pos(m) \in AtOrAbove(container_pos(n))
<1> DEFINE Fine(x) == \A y \in Path[x] : BUNCHROOT(y) = BUNCHROOT(x)
                        => container_pos(y) \in AtOrAbove(container_pos(x))
           T == {x \in Nodes : ~Fine(x)}
<1>1. \A x \in Nodes : x \in Path[x] /\ Path[x] \subseteq Nodes /\ level_by_idx(x) \in Nat /\ x \in Nat
  BY SelfOnPath, PathFacts, LevelFacts, IndexInterval DEF Indexes
<1> SUFFICES ASSUME T # {}
             PROVE  FALSE
  OBVIOUS
<1>2. PICK x \in T : \A y \in T : ~(y < x)
  BY <1>1, LeastElement
<1>3. PICK y \in Path[x] : BUNCHROOT(y) = BUNCHROOT(x) /\ container_pos(y) \notin AtOrAbove(container_pos(x))
  BY <1>2
<1>4. x \in Nodes /\ y \in Nodes /\ y # x
  BY <1>1, <1>3 DEF AtOrAbove
<1>5. DepthInBunch(x) # 0
  <2> SUFFICES ASSUME DepthInBunch(x) = 0
               PROVE  FALSE
    OBVIOUS
  <2>1. BUNCHROOT(y) = x
    BY <1>3, <1>4, BunchStep
  <2>2. x \in Path[y]
    BY <1>4, <2>1, InBunch
  <2>3. level_by_idx(y) < level_by_idx(x) /\ level_by_idx(x) < level_by_idx(y)
    BY <1>3, <1>4, <2>2, LevelOnPath
  <2> QED
    BY <2>3, <1>1, <1>4
<1> DEFINE p == parent_idx_by_idx(x)
<1>6. /\ p \in Nodes /\ BUNCHROOT(p) = BUNCHROOT(x)
      /\ container_pos(x) = 2 * container_pos(p) + (x % 2)
  BY <1>4, <1>5, BunchStep
<1>7. p < x /\ y \in Path[p]
  BY <1>3, <1>4, IndexInterval, SelfOnPath
<1>8. container_pos(y) \in AtOrAbove(container_pos(p))
  BY <1>2, <1>3, <1>6, <1>7
<1> HIDE DEF p
<1>9. container_pos(p) \in Positions /\ container_pos(x) \in Positions
  BY <1>4, <1>6, PositionOf
<1>10. container_pos(p) \in Above(container_pos(x))
  <2>1. container_pos(x) \div 2 = container_pos(p)
    BY <1>1, <1>4, <1>6, <1>9 DEF Positions
  <2>2. Above(container_pos(x)) = {container_pos(x) \div 2, container_pos(x) \div 4, container_pos(x) \div 8} \ {0}
    BY <1>9, AboveIs DEF Positions
  <2> QED
    BY <2>1, <2>2, <1>9 DEF Positions
<1>11. container_pos(y) \in AtOrAbove(container_pos(x))
  BY <1>8, <1>9, <1>10, AboveFacts DEF AtOrAbove
<1> QED
  BY <1>3, <1>11

(* Nodes of a bunch that share memory are at positions that do.            *)
LEMMA OverlapInBunch ==
  ASSUME NEW m \in Nodes, NEW n \in Nodes, BUNCHROOT(m) = BUNCHROOT(n), Overlap(m, n)
  PROVE  PosOverlap(container_pos(m), container_pos(n))
BY AboveInBunch DEF Overlap, Contains, PosOverlap

(***************************************************************************)
(* What NodeAt names.                                                      *)
(***************************************************************************)

(* The levels within a bunch, each with the positions it has.              *)
LEMMA BunchLevels ==
  ASSUME NEW n \in Nodes
  PROVE  LET b == BUNCHROOT(n)
             q == container_pos(n)
         IN /\ b \in Nat /\ q \in Nat
            /\ \/ DepthInBunch(n) = 0 /\ q = 1 /\ n = b
               \/ DepthInBunch(n) = 1 /\ q \in 2 .. 3 /\ n = 2 * b + (q - 2)
               \/ DepthInBunch(n) = 2 /\ q \in 4 .. 7 /\ n = 4 * b + (q - 4)
               \/ DepthInBunch(n) = 3 /\ q \in 8 .. 15 /\ n = 8 * b + (q - 8)
<1>1. n \in Nat /\ DepthInBunch(n) \in {0, 1, 2, 3}
  BY IndexInterval, BunchStep DEF Indexes
<1>2. CASE DepthInBunch(n) = 0
  <2>1. BUNCHROOT(n) = n \div 1 /\ container_pos(n) = 1 + (n % 1)
    BY <1>2, Powers DEF BUNCHROOT, container_pos
  <2> QED
    BY <1>1, <1>2, <2>1
<1>3. CASE DepthInBunch(n) = 1
  <2>1. BUNCHROOT(n) = n \div 2 /\ container_pos(n) = 2 + (n % 2)
    BY <1>3, Powers DEF BUNCHROOT, container_pos
  <2> QED
    BY <1>1, <1>3, <2>1
<1>4. CASE DepthInBunch(n) = 2
  <2>1. BUNCHROOT(n) = n \div 4 /\ container_pos(n) = 4 + (n % 4)
    BY <1>4, Powers DEF BUNCHROOT, container_pos
  <2> QED
    BY <1>1, <1>4, <2>1
<1>5. CASE DepthInBunch(n) = 3
  <2>1. BUNCHROOT(n) = n \div 8 /\ container_pos(n) = 8 + (n % 8)
    BY <1>5, Powers DEF BUNCHROOT, container_pos
  <2> QED
    BY <1>1, <1>5, <2>1
<1> QED
  BY <1>1, <1>2, <1>3, <1>4, <1>5

(* A position of a bunch is that of one node. *)
LEMMA OneNodeAt ==
  ASSUME NEW m \in Nodes, NEW n \in Nodes,
         BUNCHROOT(m) = BUNCHROOT(n), container_pos(m) = container_pos(n)
  PROVE  m = n
BY BunchLevels

(* A child in its parent's bunch. *)
LEMMA ChildInBunch ==
  ASSUME NEW m \in Nodes, container_pos(m) < LEAF_START_POSITION,
         NEW c \in Nodes, parent_idx_by_idx(c) = m
  PROVE  BUNCHROOT(c) = BUNCHROOT(m) /\ container_pos(c) = 2 * container_pos(m) + (c % 2)
<1>1. level_by_idx(c) = level_by_idx(m) + 1 /\ level_by_idx(m) \in Nat /\ c \in Nat /\ m # 0
  BY LevelFacts, IndexInterval DEF Indexes, Nodes
<1>2. level_by_idx(m) # 0
  <2>1. parent_idx_by_idx(m) \in Indexes
    BY IndexInterval DEF Indexes
  <2> QED
    BY <2>1, LevelFacts
<1>3. DepthInBunch(m) = (level_by_idx(m) - 1) % 4 /\ DepthInBunch(c) = (level_by_idx(c) - 1) % 4
  BY DEF DepthInBunch, LEVEL_PER_CONTAINER
<1>4. DepthInBunch(m) \in 0 .. 2
  BY BunchLevels DEF LEAF_START_POSITION
<1>5. DepthInBunch(c) # 0
  <2> DEFINE l == level_by_idx(m)
  <2>1. l \in Nat /\ l # 0 /\ (l - 1) % 4 \in 0 .. 2
    BY <1>1, <1>2, <1>3, <1>4
  <2>2. DepthInBunch(c) = l % 4
    <3>1. level_by_idx(c) - 1 = l
      BY <1>1
    <3> QED
      BY <1>3, <3>1
  <2> HIDE DEF l
  <2> QED
    BY <2>1, <2>2
<1> QED
  BY <1>5, BunchStep

(* Every position above that of a node is the position of a node above it. *)
LEMMA NodeAbove ==
  ASSUME NEW n \in Nodes, NEW q \in AtOrAbove(container_pos(n))
  PROVE  \E m \in Path[n] : BUNCHROOT(m) = BUNCHROOT(n) /\ container_pos(m) = q
<1> DEFINE Fine(x) == \A r \in AtOrAbove(container_pos(x)) :
             \E y \in Path[x] : BUNCHROOT(y) = BUNCHROOT(x) /\ container_pos(y) = r
           T == {x \in Nodes : ~Fine(x)}
<1>1. \A x \in Nodes : x \in Path[x] /\ x \in Nat
  BY SelfOnPath, IndexInterval DEF Indexes
<1> SUFFICES ASSUME T # {}
             PROVE  FALSE
  OBVIOUS
<1>2. PICK x \in T : \A y \in T : ~(y < x)
  BY <1>1, LeastElement
<1>3. PICK r \in AtOrAbove(container_pos(x)) :
        ~\E y \in Path[x] : BUNCHROOT(y) = BUNCHROOT(x) /\ container_pos(y) = r
  BY <1>2
<1>4. x \in Nodes /\ r # container_pos(x)
  BY <1>1, <1>3
<1>5. container_pos(x) \in Positions
  BY <1>4, PositionOf
<1>6. r \in Above(container_pos(x))
  BY <1>3, <1>4 DEF AtOrAbove
<1>7. Above(container_pos(x)) = {container_pos(x) \div 2, container_pos(x) \div 4, container_pos(x) \div 8} \ {0}
  BY <1>5, AboveIs DEF Positions
<1>8. DepthInBunch(x) # 0
  BY <1>4, <1>6, <1>7, BunchLevels
<1> DEFINE p == parent_idx_by_idx(x)
<1>9. /\ p \in Nodes /\ BUNCHROOT(p) = BUNCHROOT(x)
      /\ container_pos(x) = 2 * container_pos(p) + (x % 2)
  BY <1>4, <1>8, BunchStep
<1>10. p < x /\ Path[p] \subseteq Path[x]
  BY <1>4, IndexInterval, SelfOnPath
<1>11. Fine(p)
  BY <1>2, <1>9, <1>10
<1> HIDE DEF p
<1>12. container_pos(p) \in Positions
  BY <1>9, PositionOf
<1>13. r \in AtOrAbove(container_pos(p))
  <2>1. Above(container_pos(p)) = {container_pos(p) \div 2, container_pos(p) \div 4, container_pos(p) \div 8} \ {0}
    BY <1>12, AboveIs DEF Positions
  <2>2. container_pos(x) \div 2 = container_pos(p)
    BY <1>1, <1>4, <1>9, <1>12 DEF Positions
  <2>3. r \in {container_pos(p), container_pos(p) \div 2, container_pos(p) \div 4} \ {0}
    BY <1>5, <1>6, <1>7, <2>2, <1>12 DEF Positions
  <2> QED
    BY <2>1, <2>3 DEF AtOrAbove
<1>14. PICK y \in Path[p] : BUNCHROOT(y) = BUNCHROOT(p) /\ container_pos(y) = r
  BY <1>11, <1>13
<1> QED
  BY <1>3, <1>9, <1>10, <1>14

(* So the positions of two nodes of a bunch tell which is above the other. *)
LEMMA PathInBunch ==
  ASSUME NEW m \in Nodes, NEW n \in Nodes, BUNCHROOT(m) = BUNCHROOT(n)
  PROVE  m \in Path[n] <=> container_pos(m) \in AtOrAbove(container_pos(n))
<1>1. ASSUME container_pos(m) \in AtOrAbove(container_pos(n))
      PROVE  m \in Path[n]
  <2>1. PICK y \in Path[n] : BUNCHROOT(y) = BUNCHROOT(n) /\ container_pos(y) = container_pos(m)
    BY <1>1, NodeAbove
  <2>2. y \in Nodes
    BY PathFacts DEF Indexes
  <2> QED
    BY <2>1, <2>2, OneNodeAt
<1> QED
  BY <1>1, AboveInBunch

(* The node of a position, if the tree has it. *)
LEMMA NodeOfPosition ==
  ASSUME NEW b \in Nodes, DepthInBunch(b) = 0
  PROVE  /\ \A r \in 2 .. 3 : 2 * b + (r - 2) \in Nodes =>
              BUNCHROOT(2 * b + (r - 2)) = b /\ container_pos(2 * b + (r - 2)) = r
         /\ \A r \in 4 .. 7 : 4 * b + (r - 4) \in Nodes =>
              BUNCHROOT(4 * b + (r - 4)) = b /\ container_pos(4 * b + (r - 4)) = r
         /\ \A r \in 8 .. 15 : 8 * b + (r - 8) \in Nodes =>
              BUNCHROOT(8 * b + (r - 8)) = b /\ container_pos(8 * b + (r - 8)) = r
<1>1. b \in Nat /\ b # 0 /\ BUNCHROOT(b) = b /\ container_pos(b) = 1
  BY BunchStep, IndexInterval DEF Indexes, Nodes
<1>2. ASSUME NEW c \in Nodes, NEW p \in Nat, c \div 2 = p, p # 0
      PROVE  p \in Nodes /\ parent_idx_by_idx(c) = p
  BY <1>2, IndexInterval DEF Indexes, parent_idx_by_idx
<1>3. ASSUME NEW r \in 2 .. 3, NEW c \in Nodes, c = 2 * b + (r - 2)
      PROVE  BUNCHROOT(c) = b /\ container_pos(c) = r
  <2>1. c \div 2 = b /\ c % 2 = r - 2
    BY <1>1, <1>3
  <2>2. parent_idx_by_idx(c) = b
    BY <1>1, <1>2, <2>1
  <2> QED
    BY <1>1, <2>1, <2>2, ChildInBunch DEF LEAF_START_POSITION
<1>4. ASSUME NEW r \in 4 .. 7, NEW c \in Nodes, c = 4 * b + (r - 4)
      PROVE  BUNCHROOT(c) = b /\ container_pos(c) = r
  <2> DEFINE s == r \div 2
             p == 2 * b + (s - 2)
  <2>1. s \in 2 .. 3 /\ p \in Nat /\ p # 0 /\ c \div 2 = p /\ 2 * s + (c % 2) = r
    BY <1>1, <1>4
  <2> HIDE DEF s
  <2>2. p \in Nodes /\ parent_idx_by_idx(c) = p
    BY <1>2, <2>1
  <2>3. BUNCHROOT(p) = b /\ container_pos(p) = s
    BY <1>3, <2>1, <2>2
  <2> HIDE DEF p
  <2> QED
    BY <2>1, <2>2, <2>3, ChildInBunch DEF LEAF_START_POSITION
<1>5. ASSUME NEW r \in 8 .. 15, NEW c \in Nodes, c = 8 * b + (r - 8)
      PROVE  BUNCHROOT(c) = b /\ container_pos(c) = r
  <2> DEFINE s == r \div 2
             p == 4 * b + (s - 4)
  <2>1. s \in 4 .. 7 /\ p \in Nat /\ p # 0 /\ c \div 2 = p /\ 2 * s + (c % 2) = r
    BY <1>1, <1>5
  <2> HIDE DEF s
  <2>2. p \in Nodes /\ parent_idx_by_idx(c) = p
    BY <1>2, <2>1
  <2>3. BUNCHROOT(p) = b /\ container_pos(p) = s
    BY <1>4, <2>1, <2>2
  <2> HIDE DEF p
  <2> QED
    BY <2>1, <2>2, <2>3, ChildInBunch DEF LEAF_START_POSITION
<1> QED
  BY <1>3, <1>4, <1>5

(* The node at a position is the lowest node of the tree at or above it. *)
LEMMA LowestNode ==
  ASSUME NEW b \in Nodes, DepthInBunch(b) = 0, NEW q \in Positions
  PROVE  LET m == NodeAt(b, q)
         IN /\ m \in Nodes /\ BUNCHROOT(m) = b /\ container_pos(m) \in AtOrAbove(q)
            /\ \A n \in Nodes : BUNCHROOT(n) = b /\ container_pos(n) \in AtOrAbove(q) => n \in Path[m]
<1> DEFINE d == CHOOSE k \in 0 .. 3 : 2^k <= q /\ q < 2^(k + 1)
           way == {(b * 2^d + (q - 2^d)) \div 2^k : k \in 0 .. d} \cap Nodes
           m == NodeAt(b, q)
<1>1. m = CHOOSE n \in way : \A l \in way : l <= n
  BY DEF NodeAt
<1>2. b \in Nat /\ b # 0 /\ BUNCHROOT(b) = b /\ container_pos(b) = 1 /\ Nodes \subseteq Nat
  BY BunchStep, IndexInterval DEF Indexes, Nodes
<1>3. \/ d = 0 /\ q = 1
      \/ d = 1 /\ q \in 2 .. 3
      \/ d = 2 /\ q \in 4 .. 7
      \/ d = 3 /\ q \in 8 .. 15
  <2> DEFINE w == [k \in 0 .. 4 |-> 2^k]
  <2>1. w[0] = 1 /\ w[1] = 2 /\ w[2] = 4 /\ w[3] = 8 /\ w[4] = 16
    OBVIOUS
  <2>2. \A k \in 0 .. 3 : w[k] = 2^k /\ w[k + 1] = 2^(k + 1)
    OBVIOUS
  <2> HIDE DEF w
  <2>3. \E k \in 0 .. 3 : w[k] <= q /\ q < w[k + 1]
    BY <2>1 DEF Positions
  <2>4. d \in 0 .. 3 /\ 2^d <= q /\ q < 2^(d + 1)
    BY <2>2, <2>3
  <2>5. w[d] <= q /\ q < w[d + 1]
    BY <2>2, <2>4
  <2> HIDE DEF d
  <2> QED
    BY <2>1, <2>4, <2>5 DEF Positions
<1> DEFINE x == b * 2^d + (q - 2^d)
<1>4. \A y : y \in way <=> y \in Nodes /\ \E k \in 0 .. d : y = x \div 2^k
  OBVIOUS
<1>5. Above(q) = {q \div 2, q \div 4, q \div 8} \ {0}
  BY AboveIs DEF Positions
<1> HIDE DEF d, way
<1>6. x = IF d = 0 THEN b ELSE IF d = 1 THEN 2 * b + (q - 2) ELSE IF d = 2 THEN 4 * b + (q - 4)
          ELSE 8 * b + (q - 8)
  <2>1. CASE d = 0
    BY <2>1, <1>2, <1>3, Powers
  <2>2. CASE d = 1
    BY <2>2, <1>2, <1>3, Powers
  <2>3. CASE d = 2
    BY <2>3, <1>2, <1>3, Powers
  <2>4. CASE d = 3
    BY <2>4, <1>2, <1>3, Powers
  <2> QED
    BY <2>1, <2>2, <2>3, <2>4, <1>3
<1>7. \A y : y \in way <=>
        /\ y \in Nodes
        /\ y = x \/ (d >= 1 /\ y = x \div 2) \/ (d >= 2 /\ y = x \div 4) \/ (d = 3 /\ y = x \div 8)
  <2>1. x \in Nat /\ x \div 1 = x
    BY <1>2, <1>3, <1>6
  <2> HIDE DEF x
  <2> DEFINE y(k) == x \div 2^k
  <2>2. y(0) = x /\ y(1) = x \div 2 /\ y(2) = x \div 4 /\ y(3) = x \div 8
    BY <2>1, Powers
  <2>3. \A k : k \in 0 .. d <=> k = 0 \/ (d >= 1 /\ k = 1) \/ (d >= 2 /\ k = 2) \/ (d = 3 /\ k = 3)
    BY <1>3
  <2> HIDE DEF y
  <2>4. \A z : (\E k \in 0 .. d : z = y(k)) <=>
          z = y(0) \/ (d >= 1 /\ z = y(1)) \/ (d >= 2 /\ z = y(2)) \/ (d = 3 /\ z = y(3))
    BY <2>3
  <2> QED
    BY <1>4, <2>2, <2>4 DEF y
<1>8. ASSUME NEW y \in way
      PROVE  BUNCHROOT(y) = b /\ container_pos(y) \in AtOrAbove(q)
  <2>1. y \in Nodes /\ (y = x \/ (d >= 1 /\ y = x \div 2) \/ (d >= 2 /\ y = x \div 4) \/ (d = 3 /\ y = x \div 8))
    BY <1>7
  <2>2. \/ y = b
        \/ \E r \in 2 .. 3 : y = 2 * b + (r - 2) /\ r \in AtOrAbove(q)
        \/ \E r \in 4 .. 7 : y = 4 * b + (r - 4) /\ r \in AtOrAbove(q)
        \/ \E r \in 8 .. 15 : y = 8 * b + (r - 8) /\ r \in AtOrAbove(q)
    <3>1. CASE d = 0
      BY <3>1, <2>1, <1>2, <1>3, <1>6
    <3>2. CASE d = 1
      BY <3>2, <2>1, <1>2, <1>3, <1>5, <1>6 DEF AtOrAbove
    <3>3. CASE d = 2
      BY <3>3, <2>1, <1>2, <1>3, <1>5, <1>6 DEF AtOrAbove
    <3>4. CASE d = 3
      BY <3>4, <2>1, <1>2, <1>3, <1>5, <1>6 DEF AtOrAbove
    <3> QED
      BY <3>1, <3>2, <3>3, <3>4, <1>3
  <2>3. 1 \in AtOrAbove(q)
    BY <1>3, <1>5 DEF AtOrAbove
  <2> QED
    BY <2>1, <2>2, <2>3, <1>2, NodeOfPosition
<1>9. ASSUME NEW n \in Nodes, BUNCHROOT(n) = b, container_pos(n) \in AtOrAbove(q)
      PROVE  n \in way
  <2>1. \/ container_pos(n) = 1 /\ n = b
        \/ container_pos(n) \in 2 .. 3 /\ n = 2 * b + (container_pos(n) - 2)
        \/ container_pos(n) \in 4 .. 7 /\ n = 4 * b + (container_pos(n) - 4)
        \/ container_pos(n) \in 8 .. 15 /\ n = 8 * b + (container_pos(n) - 8)
    BY <1>9, BunchLevels
  <2>2. container_pos(n) \in {q} \cup ({q \div 2, q \div 4, q \div 8} \ {0})
    BY <1>5, <1>9 DEF AtOrAbove
  <2>3. n = x \/ (d >= 1 /\ n = x \div 2) \/ (d >= 2 /\ n = x \div 4) \/ (d = 3 /\ n = x \div 8)
    <3>1. CASE d = 0
      BY <3>1, <2>1, <2>2, <1>2, <1>3, <1>6
    <3>2. CASE d = 1
      BY <3>2, <2>1, <2>2, <1>2, <1>3, <1>6
    <3>3. CASE d = 2
      BY <3>3, <2>1, <2>2, <1>2, <1>3, <1>6
    <3>4. CASE d = 3
      BY <3>4, <2>1, <2>2, <1>2, <1>3, <1>6
    <3> QED
      BY <3>1, <3>2, <3>3, <3>4, <1>3
  <2> QED
    BY <1>7, <2>3
<1>10. m \in way /\ \A l \in way : l <= m
  <2>1. b \in way
    <3>1. 1 \in AtOrAbove(q)
      BY <1>3, <1>5 DEF AtOrAbove
    <3> QED
      BY <1>2, <1>9, <3>1
  <2>2. \E n \in way : \A l \in way : l <= n
    <3>1. x \in Nat /\ x \div 2 <= x /\ x \div 4 <= x \div 2 /\ x \div 8 <= x \div 4
      BY <1>2, <1>3, <1>6
    <3>2. way \subseteq {x, x \div 2, x \div 4, x \div 8}
      BY <1>7
    <3> HIDE DEF x
    <3>3. x \div 2 \in Nat /\ x \div 4 \in Nat /\ x \div 8 \in Nat
      BY <3>1
    <3> QED
      BY <2>1, <3>1, <3>2, <3>3
  <2> QED
    BY <1>1, <2>2
<1>11. m \in Nodes /\ BUNCHROOT(m) = b /\ container_pos(m) \in AtOrAbove(q)
  BY <1>7, <1>8, <1>10
<1>12. ASSUME NEW n \in Nodes, BUNCHROOT(n) = b, container_pos(n) \in AtOrAbove(q)
       PROVE  n \in Path[m]
  <2>1. n \in way /\ n <= m
    BY <1>9, <1>10, <1>12
  <2> HIDE DEF m
  <2>2. container_pos(m) \in Positions /\ container_pos(n) \in Positions
    BY <1>11, PositionOf
  <2>3. container_pos(n) \in AtOrAbove(container_pos(m)) \/ container_pos(m) \in AtOrAbove(container_pos(n))
    BY <1>11, <1>12, <2>2, OverlapFacts DEF PosOverlap
  <2>4. m \in Path[n] => m = n
    <3>1. m \in Path[n] => m <= n
      BY PathFacts DEF Indexes
    <3> QED
      BY <2>1, <3>1, <1>2, <1>11
  <2> QED
    BY <1>11, <1>12, <2>3, <2>4, PathInBunch
<1> QED
  BY <1>11, <1>12

(* The tree is full: its number of nodes is odd. *)
LEMMA FullTree == number_of_nodes % 2 = 1
<1>1. NUM_LEVELS - 1 \in 0 .. (NUM_LEVELS - 1) /\ NUM_LEVELS - 1 \in 0 .. NUM_LEVELS
      /\ (NUM_LEVELS - 1) + 1 = NUM_LEVELS
  BY TreePowers
<1>2. 2^NUM_LEVELS = 2 * 2^(NUM_LEVELS - 1) /\ 2^(NUM_LEVELS - 1) \in Nat
  BY <1>1, TreePowers
<1> QED
  BY <1>2, TreePowers

(* A parent of one node of a full tree has two children. *)
LEMMA Siblings ==
  ASSUME NEW m \in Nodes, NEW c \in Nodes, parent_idx_by_idx(c) = m
  PROVE  2 * m \in Nodes /\ 2 * m + 1 \in Nodes
<1>1. number_of_nodes \in Int
  BY LevelsAssumption DEF number_of_nodes
<1> QED
  BY <1>1, FullTree DEF Nodes, parent_idx_by_idx

(* If the lowest node at or above a position is not at the position, it is *)
(* a leaf of the tree.                                                     *)
LEMMA LowestIsLeaf ==
  ASSUME NEW b \in Nodes, DepthInBunch(b) = 0, NEW q \in Positions,
         NEW n \in Nodes, NodeAt(b, q) \in Path[n], n # NodeAt(b, q)
  PROVE  container_pos(NodeAt(b, q)) = q
<1> DEFINE m == NodeAt(b, q)
<1>1. /\ m \in Nodes /\ BUNCHROOT(m) = b /\ container_pos(m) \in AtOrAbove(q)
      /\ \A k \in Nodes : BUNCHROOT(k) = b /\ container_pos(k) \in AtOrAbove(q) => k \in Path[m]
  BY LowestNode
<1> HIDE DEF m
<1> SUFFICES ASSUME container_pos(m) # q, m \in Path[n], n # m
             PROVE  FALSE
  BY DEF m
<1>2. m \in Nat /\ m # 0 /\ container_pos(m) \in Positions
  BY <1>1, IndexInterval, PositionOf DEF Indexes, Nodes
<1>3. PICK c \in {2 * m, 2 * m + 1} : c \in Path[n]
  BY <1>1, ChildOnPath
<1>4. c \in Nodes /\ parent_idx_by_idx(c) = m
  BY <1>2, <1>3, PathFacts DEF Indexes, parent_idx_by_idx
<1>5. 2 * m \in Nodes /\ 2 * m + 1 \in Nodes
  BY <1>1, <1>4, Siblings
<1>6. container_pos(m) \in Above(q) /\ container_pos(m) < LEAF_START_POSITION
  BY <1>1, AboveFacts DEF AtOrAbove, LEAF_START_POSITION
<1>7. Above(q) = {q \div 2, q \div 4, q \div 8} \ {0}
  BY AboveIs DEF Positions
<1>8. PICK r \in AtOrAbove(q) : r \div 2 = container_pos(m)
  <2> DEFINE p == container_pos(m)
  <2>1. p \in {q \div 2, q \div 4, q \div 8} /\ p # 0
    BY <1>6, <1>7
  <2> HIDE DEF p
  <2>2. CASE p = q \div 2
    BY <2>2 DEF AtOrAbove, p
  <2>3. CASE p = q \div 4
    <3>1. q \div 2 # 0 /\ (q \div 2) \div 2 = p
      BY <2>1, <2>3 DEF Positions
    <3> QED
      BY <1>7, <3>1 DEF AtOrAbove, p
  <2>4. CASE p = q \div 8
    <3>1. q \div 4 # 0 /\ (q \div 4) \div 2 = p
      BY <2>1, <2>4 DEF Positions
    <3> QED
      BY <1>7, <3>1 DEF AtOrAbove, p
  <2> QED
    BY <2>1, <2>2, <2>3, <2>4
<1>9. r \in Positions
  BY AboveFacts
<1> DEFINE k == 2 * m + (r % 2)
<1>10. k \in Nodes /\ parent_idx_by_idx(k) = m /\ k % 2 = r % 2 /\ m < k
  BY <1>2, <1>5, <1>9 DEF parent_idx_by_idx, Positions
<1> HIDE DEF k
<1>11. BUNCHROOT(k) = b /\ container_pos(k) = 2 * container_pos(m) + (k % 2)
  BY <1>1, <1>6, <1>10, ChildInBunch
<1>12. container_pos(k) = r
  BY <1>2, <1>8, <1>9, <1>10, <1>11 DEF Positions
<1>13. k \in Path[m]
  BY <1>1, <1>10, <1>11, <1>12
<1>14. k <= m /\ k \in Nat
  BY <1>1, <1>10, <1>13, PathFacts, IndexInterval DEF Indexes
<1> QED
  BY <1>2, <1>10, <1>14

(* A position of a bunch and a node in it share memory exactly if the node *)
(* NodeAt names does with it.                                              *)
LEMMA OverlapAtPosition ==
  ASSUME NEW b \in Nodes, DepthInBunch(b) = 0, NEW q \in Positions,
         NEW n \in Nodes, BUNCHROOT(n) = b
  PROVE  /\ Overlap(NodeAt(b, q), n) <=> PosOverlap(q, container_pos(n))
         /\ Contains(n, NodeAt(b, q)) <=> container_pos(n) \in AtOrAbove(q)
<1> DEFINE m == NodeAt(b, q)
           pos == container_pos(n)
<1>1. /\ m \in Nodes /\ BUNCHROOT(m) = b /\ container_pos(m) \in AtOrAbove(q)
      /\ \A k \in Nodes : BUNCHROOT(k) = b /\ container_pos(k) \in AtOrAbove(q) => k \in Path[m]
  BY LowestNode
<1>2. m \in Path[n] /\ m # n => container_pos(m) = q
  BY LowestIsLeaf
<1> HIDE DEF m
<1>3. container_pos(m) \in Positions /\ pos \in Positions
  BY <1>1, PositionOf
<1>4. n \in Path[m] <=> pos \in AtOrAbove(q)
  <2>1. n \in Path[m] => pos \in AtOrAbove(container_pos(m))
    BY <1>1, PathInBunch
  <2>2. pos \in AtOrAbove(container_pos(m)) => pos \in AtOrAbove(q)
    BY <1>1, <1>3, OverlapFacts
  <2> QED
    BY <1>1, <2>1, <2>2
<1>5. ASSUME q \in AtOrAbove(pos)
      PROVE  Overlap(m, n)
  <2>1. PICK k \in Path[n] : BUNCHROOT(k) = b /\ container_pos(k) = q
    BY <1>5, NodeAbove
  <2>2. k \in Nodes
    BY PathFacts DEF Indexes
  <2>3. k \in Path[m]
    BY <1>1, <2>1, <2>2 DEF AtOrAbove
  <2>4. container_pos(m) = q
    <3>1. q \in AtOrAbove(container_pos(m))
      BY <1>1, <2>1, <2>2, <2>3, PathInBunch
    <3> QED
      BY <1>1, <1>3, <3>1, AboveFacts DEF AtOrAbove, Positions
  <2>5. m = k
    BY <1>1, <2>1, <2>2, <2>4, OneNodeAt
  <2> QED
    BY <2>1, <2>5 DEF Overlap, Contains
<1>6. m \in Path[n] => PosOverlap(q, pos)
  <2>1. CASE m = n
    BY <1>1, <2>1 DEF PosOverlap
  <2>2. CASE m # n
    BY <1>1, <1>2, <2>2, PathInBunch DEF PosOverlap
  <2> QED
    BY <2>1, <2>2
<1>7. Overlap(m, n) <=> PosOverlap(q, pos)
  BY <1>4, <1>5, <1>6 DEF Overlap, Contains, PosOverlap
<1> QED
  BY <1>4, <1>7 DEF Contains, m

(***************************************************************************)
(* Part 2.  The invariant of both builds.                                  *)
(***************************************************************************)

(***************************************************************************)
(* Branches.                                                               *)
(***************************************************************************)
LEMMA TargetFacts ==
  ASSUME NEW n \in Targets
  PROVE  /\ n \in Nodes /\ n \in Path[n] /\ n # 0 /\ n \in Indexes
         /\ level_by_idx(n) >= max_level
         /\ BUNCHROOT(n) \in Bunches /\ BUNCHROOT(n) \in Path[n]
         /\ container_pos(n) \in Positions
<1>1. n \in Nodes /\ n \in Allocable /\ level_by_idx(n) >= max_level /\ n \in Indexes
  BY TreeAssumption DEF Allocable, Indexes
<1>2. n \in Path[n] /\ n # 0
  BY <1>1, SelfOnPath, IndexInterval DEF Nodes
<1>3. BUNCHROOT(n) \in Bunches
  BY <1>1, <1>2 DEF Bunches
<1> QED
  BY <1>1, <1>2, <1>3, InBunch, PositionOf

(* A container is named by a node. *)
LEMMA BunchesAreNodes == Bunches \subseteq Nodes /\ Bunches \subseteq Indexes
<1> SUFFICES ASSUME NEW b \in Bunches
             PROVE  b \in Nodes
  BY DEF Indexes
<1>1. PICK a \in Allocable : b = BUNCHROOT(a)
  BY DEF Bunches
<1>2. a \in Nodes
  BY DEF Allocable
<1> QED
  BY <1>1, <1>2, InBunch, PathFacts DEF Indexes

(* The highest allocable level is below the root bunch. *)
LEMMA MaxLevel == max_level \in Nat /\ max_level > 4
BY LevelsAssumption, BunchAssumption DEF max_level

(* From the root of a bunch that is not the highest of the branch, up to   *)
(* the bunch of its parent: that one is not a bottom bunch.                *)
LEMMA UpOneBunch ==
  ASSUME NEW n \in Targets, NEW b \in Bunches, b \in Path[n], level_by_idx(b) > max_level
  PROVE  LET p == parent_idx_by_idx(b)
         IN /\ p \in Nodes /\ p \in Indexes /\ p # 0
            /\ container_pos(p) \in Positions
            /\ BUNCHROOT(p) \in Bunches /\ BUNCHROOT(p) \in Path[n]
            /\ ~IsBottom(BUNCHROOT(p))
<1> DEFINE p == parent_idx_by_idx(b)
<1>1. b \in Nodes /\ level_by_idx(b) \in Nat /\ n \in Nodes
  BY BunchesAreNodes, LevelFacts, TargetFacts DEF Indexes
<1>2. p \in Indexes /\ level_by_idx(p) \in Nat /\ level_by_idx(b) = level_by_idx(p) + 1
  BY <1>1, LevelFacts, IndexInterval DEF Indexes
<1>3. level_by_idx(p) >= max_level
  BY <1>1, <1>2, MaxLevel
<1>4. p # 0
  BY <1>3, MaxLevel, LevelFacts
<1>5. p \in Nodes /\ p \in Path[b] /\ p \in Allocable
  BY <1>1, <1>2, <1>3, <1>4, ParentOnPath DEF Indexes, Allocable
<1>6. Path[b] \subseteq Path[n] /\ Path[p] \subseteq Path[b]
  BY <1>1, <1>5, PathFacts DEF Indexes
<1> HIDE DEF p
<1>7. BUNCHROOT(p) \in Bunches
  BY <1>5, <1>6 DEF Bunches
<1>8. BUNCHROOT(p) \in Path[p] /\ container_pos(p) \in Positions
  BY <1>5, InBunch, PositionOf
<1>9. BUNCHROOT(p) # b
  <2> SUFFICES ASSUME b \in Path[p]
               PROVE  FALSE
    BY <1>8
  <2>1. b # p
    BY <1>2
  <2>2. level_by_idx(b) < level_by_idx(p)
    BY <2>1, <1>5, LevelOnPath
  <2> QED
    BY <2>2, <1>1, <1>2
<1>10. ~IsBottom(BUNCHROOT(p))
  BY <1>6, <1>8, <1>9 DEF IsBottom, Contains
<1> QED
  BY <1>2, <1>4, <1>5, <1>6, <1>7, <1>8, <1>10 DEF p

(***************************************************************************)
(* Words.                                                                  *)
(***************************************************************************)
LEMMA MasksInWord ==
  /\ \A p \in Int : NodeMask(p) \subseteq WordBits
  /\ \A bits, p : LeafMask(bits, p) \subseteq WordBits
  /\ \A A \in SUBSET Int : NodeMasks(A) \subseteq WordBits /\ LeafMasks(A) \subseteq WordBits
<1>1. \A p \in Int : NodeMask(p) \subseteq WordBits
  BY DEF NodeMask, WordBits
<1>2. \A bits, p : LeafMask(bits, p) \subseteq WordBits
  BY DEF LeafMask
<1> QED
  BY <1>1, <1>2 DEF NodeMasks, LeafMasks

(* No operation on a word leaves the 64 bits. *)
LEMMA WordsStayWords ==
  ASSUME NEW W \in SUBSET WordBits, NEW p \in 0 .. 15
  PROVE  /\ p \in Positions => occupa_container(p, W) \subseteq WordBits
         /\ libera_container(p, W) \subseteq WordBits
         /\ ClearAbove(p, W) \subseteq WordBits
         /\ WalkEnd(W, p) \in 0 .. 15
<1>1. ASSUME p \in Positions
      PROVE  occupa_container(p, W) \subseteq WordBits
  <2>1. Above(p) \cup AtOrBelow(p) \in SUBSET Int /\ AtOrBelow(p) \in SUBSET Int
    BY <1>1, AboveFacts DEF AtOrAbove, Positions
  <2> QED
    BY <2>1, MasksInWord DEF occupa_container
<1>2. WalkEnd(W, p) \in 0 .. 15
  <2> DEFINE B == Blocked(W, p)
             Ends(q) == IF B = {} THEN q = 1 ELSE q \in B /\ \A r \in B : r <= q
  <2>1. Above(p) = {p \div 2, p \div 4, p \div 8} \ {0}
    BY AboveIs
  <2>2. B \subseteq {p, p \div 2, p \div 4, p \div 8} /\ B \subseteq {p} \cup Above(p)
    BY <2>1 DEF Blocked
  <2> HIDE DEF B
  <2>3. \E q \in {p} \cup Above(p) \cup {1} : Ends(q)
    <3>1. CASE B = {}
      BY <3>1
    <3>2. CASE B # {}
      <4>1. \E q \in B : \A r \in B : r <= q
        <5>1. /\ p \div 8 <= p \div 4 /\ p \div 8 <= p \div 2 /\ p \div 8 <= p
              /\ p \div 4 <= p \div 2 /\ p \div 4 <= p /\ p \div 2 <= p
          OBVIOUS
        <5>2. p \div 8 <= p \div 8 /\ p \div 4 <= p \div 4 /\ p \div 2 <= p \div 2 /\ p <= p
          OBVIOUS
        <5>3. CASE p \in B
          BY <5>1, <5>2, <5>3, <2>2
        <5>4. CASE p \notin B /\ p \div 2 \in B
          BY <5>1, <5>2, <5>4, <2>2
        <5>5. CASE p \notin B /\ p \div 2 \notin B /\ p \div 4 \in B
          BY <5>1, <5>2, <5>5, <2>2
        <5>6. CASE p \notin B /\ p \div 2 \notin B /\ p \div 4 \notin B
          BY <5>2, <5>6, <2>2, <3>2
        <5> QED
          BY <5>3, <5>4, <5>5, <5>6
      <4> QED
        BY <4>1, <2>2, <3>2
    <3> QED
      BY <3>1, <3>2
  <2>4. WalkEnd(W, p) = CHOOSE q \in {p} \cup Above(p) \cup {1} : Ends(q)
    BY DEF WalkEnd, B
  <2> HIDE DEF Ends
  <2>5. WalkEnd(W, p) \in {p} \cup Above(p) \cup {1}
    BY <2>3, <2>4
  <2> QED
    BY <2>1, <2>5
<1> QED
  BY <1>1, <1>2 DEF libera_container, ClearAbove

(***************************************************************************)
(* Type correctness.  What a thread inside works on lies on the branch of  *)
(* its target, below the levels that nobody allocates.                     *)
(***************************************************************************)
OnBranch(t) ==
  br[t] \in Bunches /\ br[t] \in Path[target[t]] /\ level_by_idx(br[t]) > max_level

ThreadInv(t) ==
  /\ pc[t] # "idle" => target[t] \in Targets
  /\ pc[t] \in {"check_parent", "marca", "smarca", "smarca_cas"} => OnBranch(t)
  /\ pc[t] \in {"marca", "libera", "smarca", "smarca_cas"} => upper_bound[t] >= max_level
  /\ pc[t] \in {"idle", "check_parent"} => failed_at[t] = 0

BranchInv == \A t \in Threads : ThreadInv(t)

TypeInv == TypeOK /\ BranchInv

(* Initially no thread is anywhere. *)
LEMMA TypeInit == Init => TypeInv
BY DEF Init, CallersInit, TypeInv, BranchInv, ThreadInv, TypeOK, CallersTypeOK, Indexes, Locations

(* A step of t leaves the locals of the others alone. *)
OthersKeep(t) ==
  \A u \in Threads \ {t} :
    /\ pc'[u] = pc[u] /\ target'[u] = target[u] /\ br'[u] = br[u]
    /\ upper_bound'[u] = upper_bound[u] /\ failed_at'[u] = failed_at[u]

(* A step of t keeps what the invariant says of the other threads. *)
LEMMA ThreadStep ==
  ASSUME TypeInv, NEW t \in Threads, OthersKeep(t), ThreadInv(t)'
  PROVE  BranchInv'
BY DEF TypeInv, BranchInv, ThreadInv, OnBranch, OthersKeep

(* How a release begins. *)
LEMMA ReleaseStarts ==
  ASSUME TypeOK, NEW t \in Threads, NEW n \in Targets, NEW bound \in Nat, bound >= max_level,
         ReleaseFrom(t, n, bound)
  PROVE  /\ upper_bound' = [upper_bound EXCEPT ![t] = bound]
         /\ br' = [br EXCEPT ![t] = BUNCHROOT(n)]
         /\ \E loc \in {"marca", "libera"} :
              /\ pc' = [pc EXCEPT ![t] = loc]
              /\ loc = "marca" => level_by_idx(BUNCHROOT(n)) > max_level
         /\ br' \in [Threads -> Bunches \cup {0}]
         /\ upper_bound' \in [Threads -> Nat]
         /\ pc' \in [Threads -> Locations]
<1>1. BUNCHROOT(n) \in Bunches /\ level_by_idx(BUNCHROOT(n)) \in Nat
  BY TargetFacts, BunchesAreNodes, LevelFacts
<1> DEFINE loc == IF level_by_idx(BUNCHROOT(n)) > bound THEN "marca" ELSE "libera"
<1>2. /\ upper_bound' = [upper_bound EXCEPT ![t] = bound]
      /\ br' = [br EXCEPT ![t] = BUNCHROOT(n)]
      /\ pc' = [pc EXCEPT ![t] = loc]
  BY DEF ReleaseFrom, Goto, br_level
<1>3. loc = "marca" => level_by_idx(BUNCHROOT(n)) > max_level
  BY <1>1, MaxLevel
<1>4. loc \in {"marca", "libera"}
  OBVIOUS
<1> HIDE DEF loc
<1> QED
  BY <1>1, <1>2, <1>3, <1>4 DEF TypeOK, CallersTypeOK, Locations

(* A climb starts at the bunch of the target. *)
LEMMA AllocStartType ==
  ASSUME TypeInv, NEW t \in Threads, NEW n \in Targets, AllocStart(t, n)
  PROVE  TypeInv'
<1> DEFINE b == BUNCHROOT(n)
<1> USE DEF TypeInv, TypeOK, CallersTypeOK
<1>1. b \in Bunches /\ b \in Path[n] /\ container_pos(n) \in Positions /\ n \in Indexes
  BY TargetFacts
<1>2. level_by_idx(b) \in Nat
  BY <1>1, BunchesAreNodes, LevelFacts
<1>3. occupa_container(container_pos(n), nodes[b]) \subseteq WordBits
  BY <1>1, WordsStayWords DEF Positions
<1>4. target' = [target EXCEPT ![t] = n] /\ UNCHANGED <<upper_bound, smarca_locals, held>>
      /\ glock' \in Threads \cup {NoOwner}
  BY DEF AllocStart, BD_LOCK
<1> HIDE DEF b
<1>5. CASE ~IS_ALLOCABLE(nodes[b], container_pos(n))
  <2>1. /\ failed_at' = [failed_at EXCEPT ![t] = n]
        /\ pc' = [pc EXCEPT ![t] = "alloc_done"] /\ UNCHANGED <<nodes, br>>
    BY <1>5 DEF AllocStart, b, Goto
  <2>2. TypeOK'
    BY <1>1, <1>4, <2>1 DEF smarca_locals, Locations
  <2>3. OthersKeep(t) /\ ThreadInv(t)'
    BY <1>1, <1>4, <2>1 DEF OthersKeep, ThreadInv
  <2> QED
    BY <2>2, <2>3, ThreadStep
<1>6. CASE IS_ALLOCABLE(nodes[b], container_pos(n))
  <2>1. PICK loc \in {"alloc_done", "check_parent"} :
          /\ pc' = [pc EXCEPT ![t] = loc]
          /\ loc = "check_parent" => level_by_idx(b) > max_level
    BY <1>2, <1>6, MaxLevel DEF AllocStart, b, Goto, br_level
  <2>2. /\ nodes' = [nodes EXCEPT ![b] = occupa_container(container_pos(n), @)]
        /\ br' = [br EXCEPT ![t] = b] /\ UNCHANGED failed_at
    BY <1>6 DEF AllocStart, b
  <2>3. TypeOK'
    BY <1>1, <1>3, <1>4, <2>1, <2>2 DEF smarca_locals, Locations
  <2>4. pc[t] = "idle"
    BY DEF AllocStart, At
  <2>5. OthersKeep(t) /\ ThreadInv(t)'
    BY <1>1, <1>4, <2>1, <2>2, <2>4 DEF OthersKeep, ThreadInv, OnBranch, BranchInv
  <2> QED
    BY <2>3, <2>5, ThreadStep
<1> QED
  BY <1>5, <1>6

(* check_parent climbs one bunch, or starts the rollback. *)
LEMMA CheckParentType ==
  ASSUME TypeInv, NEW t \in Threads, CheckParent(t)
  PROVE  TypeInv'
<1> DEFINE b == br[t]
           p == parent_idx_by_idx(b)
           c == BUNCHROOT(p)
<1> USE DEF TypeInv, TypeOK, CallersTypeOK
<1>1. pc[t] = "check_parent" /\ OnBranch(t) /\ target[t] \in Targets /\ failed_at[t] = 0
  BY DEF CheckParent, At, BranchInv, ThreadInv
<1>2. b \in Bunches /\ b \in Path[target[t]] /\ level_by_idx(b) > max_level
  BY <1>1 DEF OnBranch
<1>3. /\ p \in Indexes /\ p # 0 /\ container_pos(p) \in Positions
      /\ c \in Bunches /\ c \in Path[target[t]]
  BY <1>1, <1>2, UpOneBunch
<1>4. level_by_idx(b) \in Nat /\ level_by_idx(c) \in Nat
  BY <1>2, <1>3, BunchesAreNodes, LevelFacts
<1>5. UNCHANGED <<glock, target, smarca_locals, held>>
  BY DEF CheckParent
<1> HIDE DEF b, p, c
<1>6. CASE IS_OCCUPIED(nodes[c], container_pos(p))
  <2>1. /\ failed_at' = [failed_at EXCEPT ![t] = p]
        /\ ReleaseFrom(t, target[t], level_by_idx(b)) /\ UNCHANGED nodes
    BY <1>6 DEF CheckParent, b, p, c
  <2>2. level_by_idx(b) >= max_level
    BY <1>2, <1>4, MaxLevel
  <2>3. PICK loc \in {"marca", "libera"} :
          /\ pc' = [pc EXCEPT ![t] = loc]
          /\ loc = "marca" => level_by_idx(BUNCHROOT(target[t])) > max_level
    BY <1>1, <1>4, <2>1, <2>2, ReleaseStarts
  <2>4. /\ upper_bound' = [upper_bound EXCEPT ![t] = level_by_idx(b)]
        /\ br' = [br EXCEPT ![t] = BUNCHROOT(target[t])]
        /\ br' \in [Threads -> Bunches \cup {0}]
        /\ upper_bound' \in [Threads -> Nat]
        /\ pc' \in [Threads -> Locations]
    BY <1>1, <1>4, <2>1, <2>2, ReleaseStarts
  <2>5. TypeOK'
    BY <1>3, <1>5, <2>1, <2>4 DEF smarca_locals
  <2>6. OthersKeep(t) /\ ThreadInv(t)'
    BY <1>1, <1>5, <2>1, <2>2, <2>3, <2>4, TargetFacts DEF OthersKeep, ThreadInv, OnBranch
  <2> QED
    BY <2>5, <2>6, ThreadStep
<1>7. CASE ~IS_OCCUPIED(nodes[c], container_pos(p))
  <2>1. PICK loc \in {"alloc_done", "check_parent"} :
          /\ pc' = [pc EXCEPT ![t] = loc]
          /\ loc = "check_parent" => level_by_idx(c) > max_level
    BY <1>4, <1>7, MaxLevel DEF CheckParent, b, p, c, Goto
  <2>2. /\ nodes' = [nodes EXCEPT ![c] = Fragmented(@, b)]
        /\ br' = [br EXCEPT ![t] = c] /\ UNCHANGED <<upper_bound, failed_at>>
    BY <1>7 DEF CheckParent, b, p, c
  <2>3. Fragmented(nodes[c], b) \subseteq WordBits
    <3>1. Above(container_pos(p)) \in SUBSET Int
      BY <1>3, AboveFacts DEF AtOrAbove, Positions
    <3> QED
      BY <1>3, <3>1, MasksInWord DEF Fragmented, p
  <2>4. TypeOK'
    BY <1>3, <1>5, <2>1, <2>2, <2>3 DEF smarca_locals, Locations
  <2>5. OthersKeep(t) /\ ThreadInv(t)'
    BY <1>1, <1>3, <1>5, <2>1, <2>2 DEF OthersKeep, ThreadInv, OnBranch
  <2> QED
    BY <2>4, <2>5, ThreadStep
<1> QED
  BY <1>6, <1>7

(* A release starts at the bunch of the target. *)
LEMMA FreeStartType ==
  ASSUME TypeInv, NEW t \in Threads, NEW n \in Targets, FreeStart(t, n)
  PROVE  TypeInv'
<1> USE DEF TypeInv, TypeOK, CallersTypeOK
<1>1. /\ target' = [target EXCEPT ![t] = n] /\ held' = held \ {n}
      /\ ReleaseFrom(t, n, max_level) /\ UNCHANGED <<nodes, failed_at, smarca_locals>>
      /\ glock' \in Threads \cup {NoOwner}
  BY DEF FreeStart, BD_LOCK
<1>2. PICK loc \in {"marca", "libera"} :
        /\ pc' = [pc EXCEPT ![t] = loc]
        /\ loc = "marca" => level_by_idx(BUNCHROOT(n)) > max_level
  BY <1>1, MaxLevel, ReleaseStarts
<1>3. /\ upper_bound' = [upper_bound EXCEPT ![t] = max_level]
      /\ br' = [br EXCEPT ![t] = BUNCHROOT(n)]
      /\ br' \in [Threads -> Bunches \cup {0}]
      /\ upper_bound' \in [Threads -> Nat]
      /\ pc' \in [Threads -> Locations]
  BY <1>1, MaxLevel, ReleaseStarts
<1>4. TypeOK'
  BY <1>1, <1>3, TargetFacts DEF smarca_locals
<1>5. OthersKeep(t) /\ ThreadInv(t)'
  BY <1>1, <1>2, <1>3, MaxLevel, TargetFacts DEF OthersKeep, ThreadInv, OnBranch
<1> QED
  BY <1>4, <1>5, ThreadStep

(* marca climbs one bunch. *)
LEMMA MarcaType ==
  ASSUME TypeInv, NEW t \in Threads, Marca(t)
  PROVE  TypeInv'
<1> DEFINE b == br[t]
           p == parent_idx_by_idx(b)
           c == BUNCHROOT(p)
<1> USE DEF TypeInv, TypeOK, CallersTypeOK
<1>1. pc[t] = "marca" /\ OnBranch(t) /\ target[t] \in Targets /\ upper_bound[t] >= max_level
  BY DEF Marca, At, BranchInv, ThreadInv
<1>2. c \in Bunches /\ c \in Path[target[t]]
  BY <1>1, UpOneBunch DEF OnBranch
<1>3. level_by_idx(c) \in Nat
  BY <1>2, BunchesAreNodes, LevelFacts
<1>4. UNCHANGED <<glock, target, upper_bound, failed_at, smarca_locals, held>>
  BY DEF Marca
<1>5. LeafMask({OwnCoalBit(b)}, container_pos(p)) \subseteq WordBits
  BY MasksInWord
<1> HIDE DEF b, p, c
<1>6. CASE IsSet(nodes[c], OwnCoalBit(b), container_pos(p))
  <2>1. pc' = [pc EXCEPT ![t] = "libera"] /\ UNCHANGED <<nodes, br>>
    BY <1>6 DEF Marca, b, p, c, Goto
  <2>2. TypeOK'
    BY <1>4, <2>1 DEF smarca_locals, Locations
  <2>3. OthersKeep(t) /\ ThreadInv(t)'
    BY <1>1, <1>4, <2>1 DEF OthersKeep, ThreadInv
  <2> QED
    BY <2>2, <2>3, ThreadStep
<1>7. CASE ~IsSet(nodes[c], OwnCoalBit(b), container_pos(p))
  <2>1. PICK loc \in {"marca", "libera"} :
          pc' = [pc EXCEPT ![t] = loc] /\ (loc = "marca" => level_by_idx(c) > upper_bound[t])
    BY <1>7 DEF Marca, b, p, c, Goto
  <2>2. /\ nodes' = [nodes EXCEPT ![c] = @ \cup LeafMask({OwnCoalBit(b)}, container_pos(p))]
        /\ br' = [br EXCEPT ![t] = c]
    BY <1>7 DEF Marca, b, p, c
  <2>3. TypeOK'
    BY <1>2, <1>4, <1>5, <2>1, <2>2 DEF smarca_locals, Locations
  <2>4. loc = "marca" => level_by_idx(c) > max_level
    BY <1>1, <1>3, <2>1, MaxLevel
  <2>5. OthersKeep(t) /\ ThreadInv(t)'
    BY <1>1, <1>2, <1>4, <2>1, <2>2, <2>4 DEF OthersKeep, ThreadInv, OnBranch
  <2> QED
    BY <2>3, <2>5, ThreadStep
<1> QED
  BY <1>6, <1>7

(* How smarca begins, or the release ends. *)
LEMMA SmarcaStarts ==
  ASSUME TypeInv, NEW t \in Threads, target[t] \in Targets,
         NEW b \in Bunches, b \in Path[target[t]], NEW on \in BOOLEAN,
         on => level_by_idx(b) > max_level,
         SmarcaFrom(t, b, on)
  PROVE  /\ br' \in [Threads -> Bunches \cup {0}] /\ p_pos' \in [Threads -> 0 .. 15]
         /\ pc' \in [Threads -> Locations]
         /\ \A u \in Threads \ {t} : br'[u] = br[u] /\ pc'[u] = pc[u]
         /\ IF on THEN pc'[t] = "smarca" /\ br'[t] = b
            ELSE pc'[t] = FreeDone(t) /\ pc'[t] \in {"alloc_done", "free_done"}
<1> USE DEF TypeInv, TypeOK
<1>1. CASE on
  <2>1. container_pos(parent_idx_by_idx(b)) \in 0 .. 15
    BY <1>1, UpOneBunch DEF Positions
  <2> QED
    BY <1>1, <2>1 DEF SmarcaFrom, Goto, Locations
<1>2. CASE ~on
  BY <1>2 DEF SmarcaFrom, Goto, Locations, FreeDone
<1> QED
  BY <1>1, <1>2

(* libera starts the cleaning at the bunch of the target. *)
LEMMA LiberaType ==
  ASSUME TypeInv, NEW t \in Threads, Libera(t)
  PROVE  TypeInv'
<1> DEFINE n == target[t]
           b == BUNCHROOT(n)
           pos == container_pos(n)
           on == br_level(n) > upper_bound[t] /\ Blocked(nodes[b], pos) = {}
<1> USE DEF TypeInv, TypeOK, CallersTypeOK
<1>1. pc[t] = "libera" /\ n \in Targets /\ upper_bound[t] >= max_level
  BY DEF Libera, At, BranchInv, ThreadInv
<1>2. b \in Bunches /\ b \in Path[n] /\ pos \in Positions
  BY <1>1, TargetFacts
<1>3. level_by_idx(b) \in Nat
  BY <1>2, BunchesAreNodes, LevelFacts
<1>4. on => level_by_idx(b) > max_level
  BY <1>1, <1>3, MaxLevel DEF br_level
<1>5. /\ nodes' = [nodes EXCEPT ![b] = libera_container(pos, @)] /\ SmarcaFrom(t, b, on)
      /\ UNCHANGED <<glock, target, upper_bound, failed_at, old_val, new_val, do_exit, held>>
  BY DEF Libera
<1>6. libera_container(pos, nodes[b]) \subseteq WordBits
  BY <1>2, WordsStayWords DEF Positions
<1> HIDE DEF n, b, pos, on
<1>7. on \in BOOLEAN
  BY DEF on
<1>8. /\ br' \in [Threads -> Bunches \cup {0}] /\ p_pos' \in [Threads -> 0 .. 15]
      /\ pc' \in [Threads -> Locations]
      /\ \A u \in Threads \ {t} : br'[u] = br[u] /\ pc'[u] = pc[u]
      /\ IF on THEN pc'[t] = "smarca" /\ br'[t] = b
         ELSE pc'[t] = FreeDone(t) /\ pc'[t] \in {"alloc_done", "free_done"}
  BY <1>1, <1>2, <1>4, <1>5, <1>7, SmarcaStarts DEF n
<1>9. TypeOK'
  BY <1>2, <1>5, <1>6, <1>8
<1>10. OthersKeep(t) /\ ThreadInv(t)'
  BY <1>1, <1>2, <1>4, <1>5, <1>8 DEF OthersKeep, ThreadInv, OnBranch, n
<1> QED
  BY <1>9, <1>10, ThreadStep

(* Wherever the walk ends is a position, or 0. *)
LEMMA SmarcaReadType ==
  ASSUME TypeInv, NEW t \in Threads, SmarcaRead(t)
  PROVE  TypeInv'
<1> DEFINE b == br[t]
           pos == p_pos[t]
           word == nodes[BUNCHROOT(parent_idx_by_idx(b))]
           clean == word \ LeafMask({OwnCoalBit(b), OwnSide(b)}, pos)
<1> USE DEF TypeInv, TypeOK, CallersTypeOK
<1>1. /\ pc[t] = "smarca" /\ OnBranch(t) /\ target[t] \in Targets
      /\ upper_bound[t] >= max_level
  BY DEF SmarcaRead, At, BranchInv, ThreadInv
<1>2. BUNCHROOT(parent_idx_by_idx(b)) \in Bunches
  BY <1>1, UpOneBunch DEF OnBranch
<1>3. word \in SUBSET WordBits /\ clean \in SUBSET WordBits /\ pos \in 0 .. 15
  BY <1>2
<1>4. UNCHANGED <<nodes, glock, target, br, upper_bound, failed_at, held>>
  BY DEF SmarcaRead
<1>5. ClearAbove(pos, clean) \in SUBSET WordBits /\ WalkEnd(clean, pos) \in 0 .. 15
  BY <1>3, WordsStayWords
<1>6. (Blocked(clean, pos) # {}) \in BOOLEAN
  OBVIOUS
<1>7. \/ /\ pc' \in {[pc EXCEPT ![t] = FreeDone(t)], [pc EXCEPT ![t] = "endless"]}
         /\ UNCHANGED smarca_locals
      \/ \E new \in SUBSET WordBits, end \in 0 .. 15, exit \in BOOLEAN :
           /\ old_val' = [old_val EXCEPT ![t] = word]
           /\ new_val' = [new_val EXCEPT ![t] = new]
           /\ p_pos' = [p_pos EXCEPT ![t] = end]
           /\ do_exit' = [do_exit EXCEPT ![t] = exit]
           /\ pc' = [pc EXCEPT ![t] = "smarca_cas"]
  <2> DEFINE Writes(new, end, exit) ==
               /\ old_val' = [old_val EXCEPT ![t] = word]
               /\ new_val' = [new_val EXCEPT ![t] = new]
               /\ p_pos' = [p_pos EXCEPT ![t] = end]
               /\ do_exit' = [do_exit EXCEPT ![t] = exit]
               /\ Goto(t, "smarca_cas")
  <2>1. \/ Goto(t, FreeDone(t)) /\ UNCHANGED smarca_locals
        \/ Goto(t, "endless") /\ UNCHANGED smarca_locals
        \/ Writes(clean, pos, TRUE)
        \/ Writes(ClearAbove(pos, clean), WalkEnd(clean, pos), Blocked(clean, pos) # {})
        \/ Writes(clean, 0, TRUE)
    BY DEF SmarcaRead
  <2> HIDE DEF b, pos, word, clean
  <2>2. 0 \in 0 .. 15 /\ TRUE \in BOOLEAN
    OBVIOUS
  <2> QED
    BY <1>3, <1>5, <1>6, <2>1, <2>2 DEF Goto
<1> HIDE DEF b, pos, word, clean
<1>8. CASE /\ pc' \in {[pc EXCEPT ![t] = FreeDone(t)], [pc EXCEPT ![t] = "endless"]}
           /\ UNCHANGED smarca_locals
  <2>1. PICK loc \in {"alloc_done", "free_done", "endless"} : pc' = [pc EXCEPT ![t] = loc]
    BY <1>8 DEF FreeDone
  <2>2. TypeOK'
    BY <1>4, <1>8, <2>1 DEF smarca_locals, Locations
  <2>3. OthersKeep(t) /\ ThreadInv(t)'
    BY <1>1, <1>4, <2>1 DEF OthersKeep, ThreadInv
  <2> QED
    BY <2>2, <2>3, ThreadStep
<1>9. CASE \E new \in SUBSET WordBits, end \in 0 .. 15, exit \in BOOLEAN :
             /\ old_val' = [old_val EXCEPT ![t] = word]
             /\ new_val' = [new_val EXCEPT ![t] = new]
             /\ p_pos' = [p_pos EXCEPT ![t] = end]
             /\ do_exit' = [do_exit EXCEPT ![t] = exit]
             /\ pc' = [pc EXCEPT ![t] = "smarca_cas"]
  <2>1. TypeOK'
    BY <1>3, <1>4, <1>9 DEF Locations
  <2>2. OthersKeep(t) /\ ThreadInv(t)'
    BY <1>1, <1>4, <1>9 DEF OthersKeep, ThreadInv, OnBranch
  <2> QED
    BY <2>1, <2>2, ThreadStep
<1> QED
  BY <1>7, <1>8, <1>9

(* smarca climbs one bunch, retries, or ends. *)
LEMMA SmarcaCASType ==
  ASSUME TypeInv, NEW t \in Threads, SmarcaCAS(t)
  PROVE  TypeInv'
<1> DEFINE c == BUNCHROOT(parent_idx_by_idx(br[t]))
           on == level_by_idx(c) > upper_bound[t] /\ ~do_exit[t]
<1> USE DEF TypeInv, TypeOK, CallersTypeOK
<1>1. /\ pc[t] = "smarca_cas" /\ OnBranch(t) /\ target[t] \in Targets
      /\ upper_bound[t] >= max_level
  BY DEF SmarcaCAS, At, BranchInv, ThreadInv
<1>2. c \in Bunches /\ c \in Path[target[t]]
  BY <1>1, UpOneBunch DEF OnBranch
<1>3. level_by_idx(c) \in Nat
  BY <1>2, BunchesAreNodes, LevelFacts
<1>4. /\ old_val' = [old_val EXCEPT ![t] = {}] /\ new_val' = [new_val EXCEPT ![t] = {}]
      /\ do_exit' = [do_exit EXCEPT ![t] = FALSE]
      /\ UNCHANGED <<glock, target, upper_bound, failed_at, held>>
  BY DEF SmarcaCAS
<1>5. on => level_by_idx(c) > max_level
  BY <1>1, <1>3, MaxLevel
<1>6. CASE new_val[t] = old_val[t] \/ nodes[c] = old_val[t]
  <2>1. /\ nodes' = [nodes EXCEPT ![c] = IF new_val[t] = old_val[t] THEN @ ELSE new_val[t]]
        /\ SmarcaFrom(t, c, on)
    BY <1>6 DEF SmarcaCAS
  <2> HIDE DEF c, on
  <2>2. on \in BOOLEAN
    BY DEF on
  <2>3. /\ br' \in [Threads -> Bunches \cup {0}] /\ p_pos' \in [Threads -> 0 .. 15]
        /\ pc' \in [Threads -> Locations]
        /\ \A u \in Threads \ {t} : br'[u] = br[u] /\ pc'[u] = pc[u]
        /\ IF on THEN pc'[t] = "smarca" /\ br'[t] = c
           ELSE pc'[t] = FreeDone(t) /\ pc'[t] \in {"alloc_done", "free_done"}
    BY <1>1, <1>2, <1>5, <2>1, <2>2, SmarcaStarts
  <2>4. TypeOK'
    BY <1>2, <1>4, <2>1, <2>3
  <2>5. OthersKeep(t) /\ ThreadInv(t)'
    BY <1>1, <1>2, <1>4, <1>5, <2>1, <2>3 DEF OthersKeep, ThreadInv, OnBranch
  <2> QED
    BY <2>4, <2>5, ThreadStep
<1>7. CASE ~(new_val[t] = old_val[t] \/ nodes[c] = old_val[t])
  <2>1. pc' = [pc EXCEPT ![t] = "smarca"] /\ UNCHANGED <<nodes, br, p_pos>>
    BY <1>7 DEF SmarcaCAS, Goto
  <2>2. TypeOK'
    BY <1>4, <2>1 DEF Locations
  <2>3. OthersKeep(t) /\ ThreadInv(t)'
    BY <1>1, <1>4, <2>1 DEF OthersKeep, ThreadInv, OnBranch
  <2> QED
    BY <2>2, <2>3, ThreadStep
<1> QED
  BY <1>6, <1>7

(* A return forgets the locals. *)
LEMMA ReturnType ==
  ASSUME TypeInv, NEW t \in Threads, AllocReturn(t) \/ FreeReturn(t)
  PROVE  TypeInv'
<1> USE DEF TypeInv, TypeOK, CallersTypeOK
<1>1. /\ target' = [target EXCEPT ![t] = 0] /\ upper_bound' = [upper_bound EXCEPT ![t] = 0]
      /\ failed_at' = [failed_at EXCEPT ![t] = 0] /\ pc' = [pc EXCEPT ![t] = "idle"]
      /\ br' = [br EXCEPT ![t] = 0] /\ p_pos' = [p_pos EXCEPT ![t] = 0]
      /\ old_val' = [old_val EXCEPT ![t] = {}] /\ new_val' = [new_val EXCEPT ![t] = {}]
      /\ do_exit' = [do_exit EXCEPT ![t] = FALSE]
      /\ nodes' = nodes /\ glock' \in Threads \cup {NoOwner}
  BY DEF AllocReturn, FreeReturn, ForgetLocals, Leave, Goto, BD_UNLOCK
<1>2. held' \subseteq Targets
  <2>1. CASE AllocReturn(t)
    <3>1. target[t] \in Targets
      BY <2>1 DEF AllocReturn, At, BranchInv, ThreadInv
    <3> QED
      BY <2>1, <3>1 DEF AllocReturn, Granted
  <2>2. CASE FreeReturn(t)
    BY <2>2 DEF FreeReturn
  <2> QED
    BY <2>1, <2>2
<1>3. TypeOK'
  BY <1>1, <1>2 DEF Indexes, Locations
<1>4. OthersKeep(t) /\ ThreadInv(t)'
  BY <1>1 DEF OthersKeep, ThreadInv
<1> QED
  BY <1>3, <1>4, ThreadStep

(* So every step keeps the type invariant. *)
LEMMA TypeStep == TypeInv /\ [Next]_vars => TypeInv'
<1> SUFFICES ASSUME TypeInv, [Next]_vars
             PROVE  TypeInv'
  OBVIOUS
<1>1. ASSUME NEW t \in Threads, Inside(t)
      PROVE  TypeInv'
  BY <1>1, CheckParentType, MarcaType, LiberaType, SmarcaReadType, SmarcaCASType DEF Inside
<1>2. CASE UNCHANGED vars
  BY <1>2 DEF vars, smarca_locals, TypeInv, TypeOK, CallersTypeOK, BranchInv, ThreadInv, OnBranch
<1> QED
  BY <1>1, <1>2, AllocStartType, FreeStartType, ReturnType DEF Next, Step

(* Every reachable state is well typed: whatever smarca's retries make of  *)
(* p_pos, it stays a position, and words and bunches stay in their range.  *)
THEOREM TypeCorrect == Spec => []TypeOK
<1>1. TypeInv => TypeOK
  BY DEF TypeInv
<1> QED
  BY <1>1, TypeInit, TypeStep, PTL DEF Spec

(***************************************************************************)
(* Bottom bunches.  Only allocations and releases of their own nodes write *)
(* their words: climbs, marks and walks write the bunch above another one. *)
(***************************************************************************)
OwnersIn(b) == {n \in Owned : BUNCHROOT(n) = b}

PositionsIn(b) == {container_pos(n) : n \in OwnersIn(b)}

(* The word of b tells its owned nodes, *)
Told(b) == nodes[b] = WordOf(PositionsIn(b))

(* which are apart, *)
Apart(b) ==
  \A m, n \in OwnersIn(b) : m # n => ~PosOverlap(container_pos(m), container_pos(n))

(* and each has one owner. *)
Single(b) ==
  \A t \in Threads : Owns(t) /\ BUNCHROOT(target[t]) = b =>
    /\ target[t] \notin held
    /\ \A u \in Threads \ {t} : Owns(u) => target[u] # target[t]

BottomInv == \A b \in Bunches : IsBottom(b) => Told(b) /\ Apart(b) /\ Single(b)

BunchInv == TypeInv /\ BottomInv

(* What is owned has been asked for. *)
LEMMA OwnedAreTargets ==
  ASSUME TypeInv
  PROVE  /\ Owned \subseteq Targets
         /\ \A t \in Threads : Owns(t) => target[t] \in Targets
         /\ \A b : PositionsIn(b) \subseteq Positions
<1>1. \A t \in Threads : Owns(t) => target[t] \in Targets
  BY DEF TypeInv, BranchInv, ThreadInv, Owns
<1>2. Owned \subseteq Targets
  BY <1>1 DEF Owned, TypeInv, TypeOK, CallersTypeOK
<1> QED
  BY <1>1, <1>2, TargetFacts DEF PositionsIn, OwnersIn

(* Initially nothing is owned and every word is empty. *)
LEMMA BottomInit == Init => BottomInv
<1> SUFFICES ASSUME Init
             PROVE  BottomInv
  OBVIOUS
<1>1. Owned = {} /\ \A t \in Threads : ~Owns(t)
  BY DEF Init, CallersInit, Owned, Owns
<1>2. \A b : PositionsIn(b) = {} /\ OwnersIn(b) = {}
  BY <1>1 DEF PositionsIn, OwnersIn
<1>3. WordOf({}) = {}
  BY DEF WordOf
<1> QED
  BY <1>1, <1>2, <1>3 DEF BottomInv, Told, Apart, Single, Init

(* Steps that change neither owners nor the words of bottom bunches. *)
LEMMA BottomUnchanged ==
  ASSUME BottomInv,
         \A b \in Bunches : IsBottom(b) => nodes'[b] = nodes[b],
         \A u \in Threads : Owns(u)' <=> Owns(u),
         \A u \in Threads : Owns(u) => target'[u] = target[u],
         held' = held
  PROVE  BottomInv'
<1>1. Owned' = Owned
  BY DEF Owned
<1>2. \A b : OwnersIn(b)' = OwnersIn(b) /\ PositionsIn(b)' = PositionsIn(b)
  BY <1>1 DEF OwnersIn, PositionsIn
<1>3. ASSUME NEW b \in Bunches, IsBottom(b)
      PROVE  Told(b)' /\ Apart(b)' /\ Single(b)'
  <2>1. Told(b) /\ Apart(b) /\ Single(b)
    BY <1>3 DEF BottomInv
  <2> QED
    BY <1>2, <1>3, <2>1 DEF Told, Apart, Single
<1> QED
  BY <1>3 DEF BottomInv

(* The CAS of alloc enters an owner where the word says there is room. *)
LEMMA AllocStartBottom ==
  ASSUME BunchInv, NEW t \in Threads, NEW n \in Targets, AllocStart(t, n)
  PROVE  BottomInv'
<1> DEFINE b == BUNCHROOT(n)
           pos == container_pos(n)
<1> USE DEF BunchInv
<1>1. b \in Bunches /\ pos \in Positions /\ n # 0 /\ n \in Nodes
  BY TargetFacts
<1>2. pc[t] = "idle" /\ failed_at[t] = 0 /\ ~Owns(t)
  BY DEF AllocStart, At, TypeInv, BranchInv, ThreadInv, Owns
<1>3. target' = [target EXCEPT ![t] = n] /\ held' = held
  BY DEF AllocStart
<1> USE DEF TypeInv, TypeOK, CallersTypeOK
<1>4. CASE ~IS_ALLOCABLE(nodes[b], pos)
  <2>1. /\ failed_at' = [failed_at EXCEPT ![t] = n]
        /\ pc' = [pc EXCEPT ![t] = "alloc_done"] /\ nodes' = nodes
    BY <1>4 DEF AllocStart, Goto
  <2>2. \A u \in Threads : Owns(u)' <=> Owns(u)
    BY <1>1, <1>2, <2>1 DEF Owns
  <2>3. \A u \in Threads : Owns(u) => target'[u] = target[u]
    BY <1>2, <1>3
  <2> QED
    BY <1>3, <2>1, <2>2, <2>3, BottomUnchanged
<1>5. CASE IS_ALLOCABLE(nodes[b], pos)
  <2>1. PICK loc \in {"alloc_done", "check_parent"} : pc' = [pc EXCEPT ![t] = loc]
    BY <1>5 DEF AllocStart, Goto
  <2>2. nodes' = [nodes EXCEPT ![b] = occupa_container(pos, @)] /\ failed_at' = failed_at
    BY <1>5 DEF AllocStart
  <2>3. \A u \in Threads : Owns(u)' <=> u = t \/ Owns(u)
    BY <1>2, <2>1, <2>2 DEF Owns
  <2>4. \A u \in Threads : target'[u] = IF u = t THEN n ELSE target[u]
    BY <1>3
  <2>5. Owned' = Owned \cup {n}
    BY <1>2, <1>3, <2>3, <2>4 DEF Owned
  <2>6. ASSUME NEW c \in Bunches, IsBottom(c), c # b
        PROVE  Told(c)' /\ Apart(c)' /\ Single(c)'
    <3>1. Told(c) /\ Apart(c) /\ Single(c)
      BY <2>6 DEF BottomInv
    <3>2. OwnersIn(c)' = OwnersIn(c)
      BY <2>5, <2>6 DEF OwnersIn
    <3>3. PositionsIn(c)' = PositionsIn(c)
      BY <3>2 DEF PositionsIn
    <3>4. Told(c)'
      BY <3>1, <3>3, <2>2, <2>6 DEF Told
    <3>5. Single(c)'
      BY <3>1, <1>2, <1>3, <2>3, <2>4, <2>6 DEF Single
    <3> QED
      BY <3>1, <3>2, <3>4, <3>5 DEF Apart
  <2>7. ASSUME IsBottom(b)
        PROVE  Told(b)' /\ Apart(b)' /\ Single(b)'
    <3>1. Told(b) /\ Apart(b) /\ Single(b)
      BY <1>1, <2>7 DEF BottomInv
    <3>2. PositionsIn(b) \in SUBSET Positions
      BY OwnedAreTargets
    <3>3. \A q \in PositionsIn(b) : ~PosOverlap(pos, q)
      BY <1>1, <1>5, <3>1, <3>2, AllocableInWord DEF Told
    <3>4. \A m \in OwnersIn(b) : ~PosOverlap(pos, container_pos(m))
      BY <3>3 DEF PositionsIn
    <3>5. n \notin Owned
      BY <3>4 DEF OwnersIn, PosOverlap, AtOrAbove
    <3>6. OwnersIn(b)' = OwnersIn(b) \cup {n}
      BY <2>5 DEF OwnersIn
    <3>7. PositionsIn(b)' = PositionsIn(b) \cup {pos}
      BY <3>6 DEF PositionsIn
    <3>8. Told(b)'
      BY <1>1, <2>2, <3>1, <3>2, <3>7, WordOccupied DEF Told
    <3>9. Apart(b)'
      BY <3>1, <3>4, <3>6 DEF Apart, PosOverlap
    <3>10. Single(b)'
      BY <3>1, <3>5, <1>2, <1>3, <2>3, <2>4 DEF Single, Owned
    <3> QED
      BY <3>8, <3>9, <3>10
  <2> QED
    BY <2>6, <2>7 DEF BottomInv
<1> QED
  BY <1>4, <1>5

(* A climb writes the bunch above. *)
LEMMA CheckParentBottom ==
  ASSUME BunchInv, NEW t \in Threads, CheckParent(t)
  PROVE  BottomInv'
<1> DEFINE p == parent_idx_by_idx(br[t])
           c == BUNCHROOT(p)
<1> USE DEF BunchInv, TypeInv, TypeOK, CallersTypeOK
<1>1. pc[t] = "check_parent" /\ OnBranch(t) /\ target[t] \in Targets /\ failed_at[t] = 0
  BY DEF CheckParent, At, BranchInv, ThreadInv
<1>2. c \in Bunches /\ ~IsBottom(c)
  BY <1>1, UpOneBunch DEF OnBranch
<1>3. target' = target /\ held' = held
  BY DEF CheckParent
<1>4. \A b \in Bunches : IsBottom(b) => nodes'[b] = nodes[b]
  BY <1>2 DEF CheckParent
<1>5. \/ \E loc \in {"marca", "libera", "check_parent"} :
           pc' = [pc EXCEPT ![t] = loc] /\ \A u \in Threads \ {t} : failed_at'[u] = failed_at[u]
      \/ pc' = [pc EXCEPT ![t] = "alloc_done"] /\ failed_at' = failed_at
  BY DEF CheckParent, ReleaseFrom, Goto
<1>6. \A u \in Threads : Owns(u)' <=> Owns(u)
  BY <1>1, <1>5 DEF Owns
<1> QED
  BY <1>3, <1>4, <1>6, BottomUnchanged

(* Marking writes the bunch above. *)
LEMMA MarcaBottom ==
  ASSUME BunchInv, NEW t \in Threads, Marca(t)
  PROVE  BottomInv'
<1> DEFINE c == BUNCHROOT(parent_idx_by_idx(br[t]))
<1> USE DEF BunchInv, TypeInv, TypeOK, CallersTypeOK
<1>1. pc[t] = "marca" /\ OnBranch(t) /\ target[t] \in Targets
  BY DEF Marca, At, BranchInv, ThreadInv
<1>2. c \in Bunches /\ ~IsBottom(c)
  BY <1>1, UpOneBunch DEF OnBranch
<1>3. target' = target /\ held' = held /\ failed_at' = failed_at
  BY DEF Marca
<1>4. \A b \in Bunches : IsBottom(b) => nodes'[b] = nodes[b]
  BY <1>2 DEF Marca
<1>5. \E loc \in {"marca", "libera"} : pc' = [pc EXCEPT ![t] = loc]
  BY DEF Marca, Goto
<1>6. \A u \in Threads : Owns(u)' <=> Owns(u)
  BY <1>1, <1>3, <1>5 DEF Owns
<1> QED
  BY <1>3, <1>4, <1>6, BottomUnchanged

(* Once a node is free, its release has no owner's rights any more. *)
LEMMA Disowned ==
  ASSUME NEW t \in Threads, pc \in [Threads -> Locations], failed_at' = failed_at,
         \/ \E loc \in {"smarca", "smarca_cas", "endless"} : pc' = [pc EXCEPT ![t] = loc]
         \/ pc' = [pc EXCEPT ![t] = FreeDone(t)]
  PROVE  ~Owns(t)' /\ \A u \in Threads \ {t} : Owns(u)' <=> Owns(u)
BY DEF Owns, FreeDone

(* Cleaning writes the bunch above, and its thread owns nothing any more. *)
LEMMA SmarcaBottom ==
  ASSUME BunchInv, NEW t \in Threads, SmarcaRead(t) \/ SmarcaCAS(t)
  PROVE  BottomInv'
<1> DEFINE c == BUNCHROOT(parent_idx_by_idx(br[t]))
<1> USE DEF BunchInv, TypeInv, TypeOK, CallersTypeOK
<1>1. pc[t] \in {"smarca", "smarca_cas"} /\ OnBranch(t) /\ target[t] \in Targets
  BY DEF SmarcaRead, SmarcaCAS, At, BranchInv, ThreadInv
<1>2. c \in Bunches /\ ~IsBottom(c)
  BY <1>1, UpOneBunch DEF OnBranch
<1>3. target' = target /\ held' = held /\ failed_at' = failed_at
  BY DEF SmarcaRead, SmarcaCAS
<1>4. \A b \in Bunches : IsBottom(b) => nodes'[b] = nodes[b]
  BY <1>2 DEF SmarcaRead, SmarcaCAS
<1>5. \/ \E loc \in {"smarca", "smarca_cas", "endless"} : pc' = [pc EXCEPT ![t] = loc]
      \/ pc' = [pc EXCEPT ![t] = FreeDone(t)]
  <2>1. CASE SmarcaRead(t)
    BY <2>1 DEF SmarcaRead, Goto
  <2>2. CASE SmarcaCAS(t)
    BY <2>2 DEF SmarcaCAS, SmarcaFrom, Goto
  <2> QED
    BY <2>1, <2>2
<1>6. \A u \in Threads : Owns(u)' <=> Owns(u)
  BY <1>1, <1>3, <1>5, Disowned DEF Owns
<1> QED
  BY <1>3, <1>4, <1>6, BottomUnchanged

(* A release takes the node over from the caller. *)
LEMMA FreeStartBottom ==
  ASSUME BunchInv, NEW t \in Threads, NEW n \in Targets, FreeStart(t, n)
  PROVE  BottomInv'
<1> USE DEF BunchInv, TypeInv, TypeOK, CallersTypeOK
<1>1. /\ pc[t] = "idle" /\ n \in held /\ held' = held \ {n} /\ ~Owns(t)
      /\ target' = [target EXCEPT ![t] = n] /\ nodes' = nodes /\ failed_at' = failed_at
  BY DEF FreeStart, At, Owns
<1>2. \E loc \in {"marca", "libera"} : pc' = [pc EXCEPT ![t] = loc]
  BY DEF FreeStart, ReleaseFrom, Goto
<1>3. \A u \in Threads : Owns(u)' <=> u = t \/ Owns(u)
  BY <1>1, <1>2 DEF Owns
<1>4. \A u \in Threads : target'[u] = IF u = t THEN n ELSE target[u]
  BY <1>1
<1>5. Owned' = Owned
  BY <1>1, <1>3, <1>4 DEF Owned
<1>6. \A b : OwnersIn(b)' = OwnersIn(b) /\ PositionsIn(b)' = PositionsIn(b)
  BY <1>5 DEF OwnersIn, PositionsIn
<1>7. ASSUME NEW b \in Bunches, IsBottom(b)
      PROVE  Told(b)' /\ Apart(b)' /\ Single(b)'
  <2>1. Told(b) /\ Apart(b) /\ Single(b)
    BY <1>7 DEF BottomInv
  <2>2. Told(b)' /\ Apart(b)'
    BY <2>1, <1>1, <1>6 DEF Told, Apart
  <2>3. Single(b)'
    BY <2>1, <1>1, <1>3, <1>4 DEF Single
  <2> QED
    BY <2>2, <2>3
<1> QED
  BY <1>7 DEF BottomInv

(* libera takes out of the word just what its owner had there. *)
LEMMA LiberaBottom ==
  ASSUME BunchInv, NEW t \in Threads, Libera(t)
  PROVE  BottomInv'
<1> USE DEF BunchInv, TypeInv, TypeOK, CallersTypeOK
<1>0. PICK n \in Targets : n = target[t]
  BY DEF Libera, At, BranchInv, ThreadInv
<1> DEFINE b == BUNCHROOT(n)
           pos == container_pos(n)
<1>1. pc[t] = "libera" /\ Owns(t)
  BY DEF Libera, At, Owns
<1>2. b \in Bunches /\ pos \in Positions
  BY <1>1, TargetFacts
<1>3. /\ nodes' = [nodes EXCEPT ![b] = libera_container(pos, @)]
      /\ target' = target /\ held' = held /\ failed_at' = failed_at
  BY <1>0 DEF Libera
<1>4. \/ \E loc \in {"smarca", "smarca_cas", "endless"} : pc' = [pc EXCEPT ![t] = loc]
      \/ pc' = [pc EXCEPT ![t] = FreeDone(t)]
  BY DEF Libera, SmarcaFrom, Goto
<1>5. ~Owns(t)' /\ \A u \in Threads \ {t} : Owns(u)' <=> Owns(u)
  BY <1>3, <1>4, Disowned
<1>6. Owned = Owned' \cup {n}
  BY <1>0, <1>1, <1>3, <1>5 DEF Owned
<1>7. ASSUME NEW c \in Bunches, IsBottom(c), c # b
      PROVE  Told(c)' /\ Apart(c)' /\ Single(c)'
  <2>1. Told(c) /\ Apart(c) /\ Single(c)
    BY <1>7 DEF BottomInv
  <2>2. OwnersIn(c)' = OwnersIn(c)
    BY <1>6, <1>7 DEF OwnersIn
  <2>3. PositionsIn(c)' = PositionsIn(c)
    BY <2>2 DEF PositionsIn
  <2>4. Single(c)'
    BY <2>1, <1>3, <1>5 DEF Single
  <2> QED
    BY <2>1, <2>2, <2>3, <2>4, <1>3, <1>7 DEF Told, Apart
<1>8. ASSUME IsBottom(b)
      PROVE  Told(b)' /\ Apart(b)' /\ Single(b)'
  <2>1. Told(b) /\ Apart(b) /\ Single(b)
    BY <1>2, <1>8 DEF BottomInv
  <2>2. n \notin Owned'
    <3>1. n \notin held /\ \A u \in Threads \ {t} : Owns(u) => target[u] # n
      BY <2>1, <1>0, <1>1 DEF Single
    <3>2. \A u \in Threads : Owns(u)' => u \in Threads \ {t} /\ Owns(u)
      BY <1>5
    <3>3. \A u \in Threads : Owns(u)' => target[u] # n
      BY <3>1, <3>2
    <3> QED
      BY <3>1, <3>3, <1>3 DEF Owned
  <2>3. OwnersIn(b) = OwnersIn(b)' \cup {n} /\ n \notin OwnersIn(b)'
    BY <1>6, <2>2 DEF OwnersIn
  <2>4. \A m \in OwnersIn(b)' : ~PosOverlap(pos, container_pos(m))
    BY <2>1, <2>3 DEF Apart
  <2>5. PositionsIn(b) = PositionsIn(b)' \cup {pos}
    BY <2>3 DEF PositionsIn
  <2>6. \A q \in PositionsIn(b)' : ~PosOverlap(pos, q)
    BY <2>4 DEF PositionsIn
  <2>7. PositionsIn(b)' \in SUBSET Positions
    BY <2>5, OwnedAreTargets
  <2>8. nodes[b] = WordOf(PositionsIn(b)' \cup {pos})
    BY <2>1, <2>5 DEF Told
  <2>9. nodes'[b] = libera_container(pos, nodes[b])
    BY <1>2, <1>3
  <2> DEFINE Q == PositionsIn(b)'
  <2>10. libera_container(pos, WordOf(Q \cup {pos})) = WordOf(Q)
    <3> HIDE DEF Q, pos
    <3> QED
      BY <1>2, <2>6, <2>7, WordFreed DEF Q
  <2>11. Told(b)'
    BY <2>8, <2>9, <2>10 DEF Told
  <2>12. Apart(b)'
    BY <2>1, <2>3 DEF Apart
  <2>13. Single(b)'
    BY <2>1, <1>3, <1>5 DEF Single
  <2> QED
    BY <2>11, <2>12, <2>13
<1> QED
  BY <1>7, <1>8 DEF BottomInv

(* A granted node passes from the thread to the caller. *)
LEMMA AllocReturnBottom ==
  ASSUME BunchInv, NEW t \in Threads, AllocReturn(t)
  PROVE  BottomInv'
<1> DEFINE n == target[t]
<1> USE DEF BunchInv, TypeInv, TypeOK, CallersTypeOK
<1>1. /\ pc[t] = "alloc_done" /\ pc' = [pc EXCEPT ![t] = "idle"]
      /\ failed_at' = [failed_at EXCEPT ![t] = 0] /\ target' = [target EXCEPT ![t] = 0]
      /\ held' = held \cup Granted(t) /\ nodes' = nodes
  BY DEF AllocReturn, ForgetLocals, Leave, Goto, At
<1>2. ~Owns(t)' /\ \A u \in Threads \ {t} : (Owns(u)' <=> Owns(u)) /\ target'[u] = target[u]
  BY <1>1 DEF Owns
<1>3. CASE failed_at[t] # 0
  <2>1. held' = held /\ ~Owns(t)
    BY <1>1, <1>3 DEF Granted, Owns
  <2> QED
    BY <1>1, <1>2, <2>1, BottomUnchanged
<1>4. CASE failed_at[t] = 0
  <2>1. held' = held \cup {n} /\ Owns(t)
    BY <1>1, <1>4 DEF Granted, Owns
  <2>2. Owned' = Owned
    BY <1>2, <2>1 DEF Owned
  <2>3. \A b : OwnersIn(b)' = OwnersIn(b) /\ PositionsIn(b)' = PositionsIn(b)
    BY <2>2 DEF OwnersIn, PositionsIn
  <2>4. ASSUME NEW b \in Bunches, IsBottom(b)
        PROVE  Told(b)' /\ Apart(b)' /\ Single(b)'
    <3>1. Told(b) /\ Apart(b) /\ Single(b)
      BY <2>4 DEF BottomInv
    <3>2. Told(b)' /\ Apart(b)'
      BY <1>1, <2>3, <3>1 DEF Told, Apart
    <3>3. Single(b)'
      BY <1>2, <2>1, <3>1 DEF Single
    <3> QED
      BY <3>2, <3>3
  <2> QED
    BY <2>4 DEF BottomInv
<1> QED
  BY <1>3, <1>4

(* A finished release owns nothing. *)
LEMMA FreeReturnBottom ==
  ASSUME BunchInv, NEW t \in Threads, FreeReturn(t)
  PROVE  BottomInv'
<1> USE DEF BunchInv, TypeInv, TypeOK, CallersTypeOK
<1>1. /\ pc[t] = "free_done" /\ pc' = [pc EXCEPT ![t] = "idle"]
      /\ failed_at' = [failed_at EXCEPT ![t] = 0] /\ target' = [target EXCEPT ![t] = 0]
      /\ held' = held /\ nodes' = nodes
  BY DEF FreeReturn, ForgetLocals, Leave, Goto, At
<1>2. ~Owns(t) /\ ~Owns(t)' /\ \A u \in Threads \ {t} : (Owns(u)' <=> Owns(u)) /\ target'[u] = target[u]
  BY <1>1 DEF Owns
<1> QED
  BY <1>1, <1>2, BottomUnchanged

(* So every step keeps the invariant of the bottom bunches. *)
LEMMA BottomStep == BunchInv /\ [Next]_vars => BottomInv'
<1> SUFFICES ASSUME BunchInv, [Next]_vars
             PROVE  BottomInv'
  OBVIOUS
<1>1. ASSUME NEW t \in Threads, Inside(t)
      PROVE  BottomInv'
  BY <1>1, CheckParentBottom, MarcaBottom, LiberaBottom, SmarcaBottom DEF Inside
<1>2. CASE UNCHANGED vars
  <2>1. \A u \in Threads : (Owns(u)' <=> Owns(u)) /\ target'[u] = target[u]
    BY <1>2 DEF vars, Owns
  <2>2. nodes' = nodes /\ held' = held
    BY <1>2 DEF vars
  <2> QED
    BY <2>1, <2>2, BottomUnchanged DEF BunchInv
<1> QED
  BY <1>1, <1>2, AllocStartBottom, FreeStartBottom, AllocReturnBottom, FreeReturnBottom
  DEF Next, Step

(* The inductive invariant. *)
LEMMA BunchInvariant == Spec => []BunchInv
<1>1. Init => BunchInv
  BY TypeInit, BottomInit DEF BunchInv
<1>2. BunchInv /\ [Next]_vars => BunchInv'
  BY TypeStep, BottomStep DEF BunchInv
<1> QED
  BY <1>1, <1>2, PTL DEF Spec

(* Positions apart are nodes apart. *)
LEMMA BottomsDisjoint == BunchInv => BottomDisjoint
<1> SUFFICES ASSUME BunchInv
             PROVE  BottomDisjoint
  OBVIOUS
<1>1. \A m \in Owned : m \in Nodes /\ BUNCHROOT(m) \in Bunches
  BY OwnedAreTargets, TargetFacts DEF BunchInv
<1>2. ASSUME NEW m \in Owned, NEW n \in Owned, IsBottom(BUNCHROOT(m)),
             BUNCHROOT(m) = BUNCHROOT(n), m # n
      PROVE  ~Overlap(m, n)
  <2>1. Apart(BUNCHROOT(m))
    BY <1>1, <1>2 DEF BunchInv, BottomInv
  <2>2. ~PosOverlap(container_pos(m), container_pos(n))
    BY <1>2, <2>1 DEF Apart, OwnersIn
  <2> QED
    BY <1>1, <1>2, <2>2, OverlapInBunch
<1>3. ASSUME NEW t \in Threads, Owns(t), IsBottom(BUNCHROOT(target[t]))
      PROVE  target[t] \notin held /\ \A u \in Threads \ {t} : Owns(u) => target[u] # target[t]
  <2>1. target[t] \in Owned
    BY <1>3 DEF Owned
  <2> QED
    BY <1>1, <1>3, <2>1 DEF BunchInv, BottomInv, Single
<1> QED
  BY <1>2, <1>3 DEF BottomDisjoint

(* In a bunch that no other lies below, no two operations or callers ever  *)
(* own overlapping nodes: what the CAS on its word is for, in alloc, holds *)
(* whatever happens above, for any number of threads and without a lock.   *)
THEOREM BottomDisjointAlways == Spec => []BottomDisjoint
BY BunchInvariant, BottomsDisjoint, PTL

(* A bunch that no other lies below has the blocks in it below it only.    *)
LEMMA BelowBottom ==
  ASSUME NEW b \in Bunches, IsBottom(b), NEW n \in Targets
  PROVE  Contains(b, n) <=> BUNCHROOT(n) = b
<1> DEFINE c == BUNCHROOT(n)
<1>1. n \in Nodes /\ c \in Bunches /\ c \in Path[n] /\ b \in Nodes /\ c \in Nodes
  BY TargetFacts, BunchesAreNodes
<1>2. ASSUME b \in Path[n], c # b
      PROVE  FALSE
  <2>1. level_by_idx(b) \in Nat /\ level_by_idx(c) \in Nat /\ level_by_idx(n) \in Nat
    BY <1>1, LevelFacts DEF Indexes
  <2>2. CASE level_by_idx(b) <= level_by_idx(c)
    BY <1>1, <1>2, <2>2, PathLinear DEF IsBottom, Contains
  <2>3. CASE level_by_idx(c) < level_by_idx(b)
    <3>1. /\ level_by_idx(n) = level_by_idx(c) + DepthInBunch(n) /\ DepthInBunch(n) \in 0 .. 3
          /\ DepthInBunch(c) = 0
      BY <1>1, InBunch, BunchStep
    <3>2. DepthInBunch(b) = 0
      <4>1. PICK a \in Allocable : b = BUNCHROOT(a)
        BY DEF Bunches
      <4> QED
        BY <4>1, InBunch DEF Allocable
    <3>3. level_by_idx(b) <= level_by_idx(n)
      <4>1. b # n => level_by_idx(b) < level_by_idx(n)
        BY <1>1, <1>2, LevelOnPath
      <4> QED
        BY <4>1, <2>1
    <3>4. (level_by_idx(b) - 1) % 4 = 0 /\ (level_by_idx(c) - 1) % 4 = 0
      BY <3>1, <3>2 DEF DepthInBunch, LEVEL_PER_CONTAINER
    <3>5. level_by_idx(n) <= level_by_idx(c) + 3
      BY <2>1, <3>1
    <3> HIDE DEF c
    <3> QED
      BY <2>1, <2>3, <3>3, <3>4, <3>5
  <2> QED
    BY <2>1, <2>2, <2>3
<1> QED
  BY <1>1, <1>2 DEF Contains

(* For such a bunch ExactWord is the word of the positions of its blocks.  *)
LEMMA ExactInBottom ==
  ASSUME NEW b \in Bunches, IsBottom(b), NEW blocks \in SUBSET Targets
  PROVE  ExactWord(b, blocks) = WordOf({container_pos(n) : n \in {m \in blocks : BUNCHROOT(m) = b}})
<1> DEFINE below == {n \in blocks : Contains(b, n)}
           Q == {container_pos(n) : n \in below}
           LeafStatus(m) ==
             IF \E n \in below : Contains(n, m) THEN LOCK_LEAF
             ELSE {side \in {LEFT, RIGHT} :
                     \E n \in below : Contains(lchild_idx_by_idx(m) + (IF side = LEFT THEN 0 ELSE 1), n)}
<1>1. below = {n \in blocks : BUNCHROOT(n) = b}
  BY BelowBottom
<1> DEFINE inner ==
             UNION {IF \E n \in below : Overlap(NodeAt(b, q), n) THEN NodeMask(q) ELSE {} : q \in 1 .. 7}
           leaves == UNION {LeafMask(LeafStatus(NodeAt(b, q)), q) : q \in 8 .. 15}
<1>2. ExactWord(b, blocks) = inner \cup leaves
  BY DEF ExactWord
<1>3. \A n \in below : n \in Nodes /\ BUNCHROOT(n) = b
  BY <1>1, TargetFacts
<1>4. b \in Nodes /\ DepthInBunch(b) = 0
  <2>1. PICK a \in Allocable : b = BUNCHROOT(a)
    BY DEF Bunches
  <2> QED
    BY <2>1, InBunch, BunchesAreNodes DEF Allocable
<1> HIDE DEF below
<1>5. ASSUME NEW q \in Positions
      PROVE  (\E n \in below : Overlap(NodeAt(b, q), n)) <=> (\E r \in Q : PosOverlap(q, r))
  BY <1>3, <1>4, OverlapAtPosition
<1>6. ASSUME NEW q \in Positions, q >= LEAF_START_POSITION
      PROVE  LeafStatus(NodeAt(b, q)) = IF \E r \in Q : r \in AtOrAbove(q) THEN LOCK_LEAF ELSE {}
  <2> DEFINE m == NodeAt(b, q)
  <2>1. (\E n \in below : Contains(n, m)) <=> (\E r \in Q : r \in AtOrAbove(q))
    BY <1>3, <1>4, OverlapAtPosition
  <2>2. ASSUME NEW n \in below, NEW i \in {0, 1}, Contains(lchild_idx_by_idx(m) + i, n)
        PROVE  FALSE
    <3>1. m \in Nodes /\ m \in Nat /\ m # 0 /\ n \in Nat
      BY <1>3, <1>4, LowestNode, IndexInterval DEF Indexes, Nodes
    <3>2. 2 * m \in Path[n] \/ 2 * m + 1 \in Path[n]
      <4>1. i = 0 \/ i = 1
        OBVIOUS
      <4>2. 2 * m + 0 = 2 * m
        BY <3>1
      <4> QED
        BY <2>2, <4>1, <4>2 DEF Contains, lchild_idx_by_idx
    <3>3. m \in Path[n]
      BY <1>3, <3>1, <3>2, ChildOnPath
    <3>4. m # n
      BY <1>3, <3>1, <3>2, PathFacts DEF Indexes
    <3>5. container_pos(m) = q
      BY <1>3, <1>4, <3>3, <3>4, LowestIsLeaf
    <3>6. q \in AtOrAbove(container_pos(n)) /\ BUNCHROOT(m) = b
      BY <1>3, <1>4, <3>1, <3>3, <3>5, PathInBunch, LowestNode
    <3>7. container_pos(n) \in Positions
      BY <1>3, PositionOf
    <3>8. container_pos(n) = q
      BY <1>6, <3>6, <3>7, AboveFacts DEF AtOrAbove, LEAF_START_POSITION, Positions
    <3> QED
      BY <1>3, <3>1, <3>4, <3>5, <3>6, <3>8, OneNodeAt
  <2>3. ASSUME NEW side \in {LEFT, RIGHT}
        PROVE  ~\E n \in below : Contains(lchild_idx_by_idx(m) + (IF side = LEFT THEN 0 ELSE 1), n)
    BY <2>2
  <2> HIDE DEF m
  <2>4. LeafStatus(m) = IF \E n \in below : Contains(n, m) THEN LOCK_LEAF ELSE {}
    BY <2>3
  <2> QED
    BY <2>1, <2>4 DEF m
<1> HIDE DEF LeafStatus
<1>7. Q \in SUBSET Positions
  BY <1>3, PositionOf
<1> HIDE DEF Q
<1>8. inner = {x \in InnerBits : \E r \in Q : PosOverlap(x + 1, r)}
  <2>1. \A q \in 1 .. 7 : q \in Positions /\ NodeMask(q) = {q - 1} /\ q - 1 \in InnerBits /\ (q - 1) + 1 = q
    BY NodeMaskBits DEF Positions, LEAF_START_POSITION
  <2>2. \A x \in InnerBits : x + 1 \in 1 .. 7 /\ (x + 1) - 1 = x
    BY DEF InnerBits
  <2> DEFINE Part(q) == IF \E n \in below : Overlap(NodeAt(b, q), n) THEN NodeMask(q) ELSE {}
  <2>3. \A q \in 1 .. 7 : Part(q) = IF \E r \in Q : PosOverlap(q, r) THEN {q - 1} ELSE {}
    BY <1>5, <2>1
  <2> HIDE DEF Part
  <2>4. UNION {Part(q) : q \in 1 .. 7} = {x \in InnerBits : \E r \in Q : PosOverlap(x + 1, r)}
    <3>1. ASSUME NEW q \in 1 .. 7, NEW x \in Part(q)
          PROVE  x \in InnerBits /\ \E r \in Q : PosOverlap(x + 1, r)
      BY <2>1, <2>3
    <3>2. ASSUME NEW x \in InnerBits, \E r \in Q : PosOverlap(x + 1, r)
          PROVE  x + 1 \in 1 .. 7 /\ x \in Part(x + 1)
      BY <2>2, <2>3, <3>2
    <3> QED
      BY <3>1, <3>2
  <2> QED
    BY <2>4 DEF Part
<1>9. leaves = {x \in LeafBits : LocksLeaf(x) /\ \E r \in Q : r \in AtOrAbove(LeafOf(x))}
  <2>1. \A q \in 8 .. 15 : q \in Positions /\ q >= LEAF_START_POSITION
    BY DEF Positions, LEAF_START_POSITION
  <2>2. \A q : LeafMask({}, q) = {}
    BY DEF LeafMask
  <2>3. \A q \in 8 .. 15 : LeafMask(LOCK_LEAF, q) = {x \in LeafBits : LeafOf(x) = q /\ LocksLeaf(x)}
    BY <2>1, LeafMaskBits
  <2>4. \A x \in LeafBits : LeafOf(x) \in 8 .. 15
    BY DEF LeafBits, LeafOf, LEAF_START_POSITION
  <2> DEFINE Part(q) == LeafMask(LeafStatus(NodeAt(b, q)), q)
  <2>5. \A q \in 8 .. 15 :
          Part(q) = IF \E r \in Q : r \in AtOrAbove(q)
                    THEN {x \in LeafBits : LeafOf(x) = q /\ LocksLeaf(x)} ELSE {}
    BY <1>6, <2>1, <2>2, <2>3
  <2> HIDE DEF Part
  <2>6. UNION {Part(q) : q \in 8 .. 15}
          = {x \in LeafBits : LocksLeaf(x) /\ \E r \in Q : r \in AtOrAbove(LeafOf(x))}
    <3>1. ASSUME NEW q \in 8 .. 15, NEW x \in Part(q)
          PROVE  x \in LeafBits /\ LocksLeaf(x) /\ \E r \in Q : r \in AtOrAbove(LeafOf(x))
      BY <2>5
    <3>2. ASSUME NEW x \in LeafBits, LocksLeaf(x), \E r \in Q : r \in AtOrAbove(LeafOf(x))
          PROVE  x \in Part(LeafOf(x)) /\ LeafOf(x) \in 8 .. 15
      BY <2>4, <2>5, <3>2
    <3> QED
      BY <3>1, <3>2
  <2> QED
    BY <2>6 DEF Part
<1> HIDE DEF inner, leaves
<1>10. ExactWord(b, blocks) = WordOf(Q)
  BY <1>2, <1>8, <1>9 DEF WordOf
<1>11. Q = {container_pos(n) : n \in {m \in blocks : BUNCHROOT(m) = b}}
  BY <1>1 DEF Q
<1> QED
  BY <1>10, <1>11

(* The word of a bottom bunch says at every moment which of its nodes have *)
(* an owner: an allocation enters all its bits with its CAS, a release     *)
(* takes them out with another, and nothing else ever touches them.        *)
THEOREM BottomExactAlways == Spec => []BottomExact
<1>1. BunchInv => BottomExact
  <2> SUFFICES ASSUME BunchInv, NEW b \in Bunches, IsBottom(b)
               PROVE  nodes[b] = ExactWord(b, Owned)
    BY DEF BottomExact
  <2>1. Owned \in SUBSET Targets
    BY OwnedAreTargets DEF BunchInv
  <2>2. nodes[b] = WordOf(PositionsIn(b))
    BY DEF BunchInv, BottomInv, Told
  <2>3. ExactWord(b, Owned) = WordOf({container_pos(n) : n \in {m \in Owned : BUNCHROOT(m) = b}})
    BY <2>1, ExactInBottom
  <2> QED
    BY <2>2, <2>3 DEF PositionsIn, OwnersIn
<1> QED
  BY <1>1, BunchInvariant, PTL

(***************************************************************************)
(* Part 3.  The blocking build.                                            *)
(*                                                                         *)
(* Under the lock the words are a function of the blocks: each word shows  *)
(* the spots of the blocks below it, and coalescing bits only beside the   *)
(* bits of such spots (Shows).  The bits alone are not inductive: smarca   *)
(* stops at the first leaf without its coalescing bit, so a bunch all of   *)
(* whose bits are marked for release has to be marked above, too (Linked). *)
(* The inductive invariant (SLInv) says where the operation that holds the *)
(* lock has departed from that, at each of its locations.                  *)
(***************************************************************************)

(***************************************************************************)
(* Words with bunches below.                                               *)
(***************************************************************************)

(* Blocks leave a trace in a word at a spot: a block of the bunch at its   *)
(* position, a block of a bunch below at a half of a leaf.  The halves of  *)
(* the leaf at p are numbered 2 * p and 2 * p + 1.                         *)
Halves == 16 .. 31
Spots  == Positions \cup Halves

PosOf(r) == IF r \in Halves THEN r \div 2 ELSE r

(* What bit x of a leaf says, and of which half. *)
IsOcc(x)  == (x - 7) % 5 = OCCUPIED
IsSide(x) == (x - 7) % 5 \in {LEFT, RIGHT}
IsCoal(x) == (x - 7) % 5 \in {COAL_LEFT, COAL_RIGHT}
HalfOf(x) == 2 * LeafOf(x) + (IF (x - 7) % 5 \in {LEFT, COAL_LEFT} THEN 0 ELSE 1)

SideMask(h) == {x \in LeafBits : IsSide(x) /\ HalfOf(x) = h}
CoalMask(h) == {x \in LeafBits : IsCoal(x) /\ HalfOf(x) = h}

(* A block of the bunch covers the leaf at q. *)
Covered(q, Q) == \E r \in Q : r \in AtOrAbove(q)

(* The word with blocks at the spots Q and coalescing bits at K. *)
Word(Q, K) ==
  {x \in InnerBits : \E r \in Q : PosOverlap(x + 1, PosOf(r))}
  \cup {x \in LeafBits : IsOcc(x) /\ Covered(LeafOf(x), Q)}
  \cup {x \in LeafBits : IsSide(x) /\ (HalfOf(x) \in Q \/ Covered(LeafOf(x), Q))}
  \cup {x \in LeafBits : IsCoal(x) /\ HalfOf(x) \in K}

(* The halves whose coalescing bit is set. *)
Coal(w) == {h \in Halves : CoalMask(h) \subseteq w}

(* A bit of a leaf is of one kind, and of a half of its leaf. *)
LEMMA LeafBitKinds ==
  ASSUME NEW x \in LeafBits
  PROVE  /\ IsOcc(x) \/ IsSide(x) \/ IsCoal(x)
         /\ ~(IsOcc(x) /\ IsSide(x)) /\ ~(IsOcc(x) /\ IsCoal(x)) /\ ~(IsSide(x) /\ IsCoal(x))
         /\ LocksLeaf(x) <=> IsOcc(x) \/ IsSide(x)
         /\ HalfOf(x) \in Halves /\ HalfOf(x) \div 2 = LeafOf(x)
         /\ HalfOf(x) \in {2 * LeafOf(x), 2 * LeafOf(x) + 1}
<1>1. x \in 7 .. 46 /\ (x - 7) % 5 \in 0 .. 4 /\ LeafOf(x) \in 8 .. 15
  BY DEF LeafBits, LeafOf, LEAF_START_POSITION
<1> DEFINE k == (x - 7) % 5
<1>2. k = 0 \/ k = 1 \/ k = 2 \/ k = 3 \/ k = 4
  BY <1>1
<1> HIDE DEF k
<1>3. /\ IsOcc(x) <=> k = 4
      /\ IsSide(x) <=> k = 1 \/ k = 0
      /\ IsCoal(x) <=> k = 3 \/ k = 2
      /\ LocksLeaf(x) <=> k = 0 \/ k = 1 \/ k = 4
  BY DEF k, IsOcc, IsSide, IsCoal, LocksLeaf, OCCUPIED, LEFT, RIGHT, COAL_LEFT, COAL_RIGHT
<1>4. HalfOf(x) = 2 * LeafOf(x) \/ HalfOf(x) = 2 * LeafOf(x) + 1
  <2>1. HalfOf(x) = 2 * LeafOf(x) + 0 \/ HalfOf(x) = 2 * LeafOf(x) + 1
    BY DEF HalfOf
  <2> QED
    BY <2>1, <1>1
<1>5. HalfOf(x) \in Halves /\ HalfOf(x) \div 2 = LeafOf(x)
  BY <1>1, <1>4 DEF Halves
<1> QED
  BY <1>2, <1>3, <1>4, <1>5

(* Every half has its two bits. *)
LEMMA HalfBits ==
  ASSUME NEW h \in Halves
  PROVE  /\ h \div 2 \in Positions /\ h \div 2 >= LEAF_START_POSITION
         /\ h = 2 * (h \div 2) \/ h = 2 * (h \div 2) + 1
         /\ \E x \in LeafBits : x \in SideMask(h)
         /\ \E x \in LeafBits : x \in CoalMask(h)
<1> DEFINE p == h \div 2
<1>1. p \in 8 .. 15 /\ (h = 2 * p \/ h = 2 * p + 1)
  BY DEF Halves
<1>2. p \in Positions /\ p >= LEAF_START_POSITION
  BY <1>1 DEF Positions, LEAF_START_POSITION
<1> HIDE DEF p
<1>3. \A k \in 0 .. 4 : LET x == 7 + 5 * (p - 8) + k
                        IN x \in LeafBits /\ (x - 7) % 5 = k /\ LeafOf(x) = p
  BY <1>1 DEF LeafBits, LeafOf, LEAF_START_POSITION
<1>4. CASE h = 2 * p
  <2> DEFINE x == 7 + 5 * (p - 8) + 1
             y == 7 + 5 * (p - 8) + 3
  <2>1. /\ x \in LeafBits /\ (x - 7) % 5 = 1 /\ LeafOf(x) = p
        /\ y \in LeafBits /\ (y - 7) % 5 = 3 /\ LeafOf(y) = p
    BY <1>3
  <2> HIDE DEF x, y
  <2>2. HalfOf(x) = h /\ HalfOf(y) = h
    BY <1>1, <1>4, <2>1 DEF HalfOf, LEFT, COAL_LEFT
  <2>3. IsSide(x) /\ IsCoal(y)
    BY <2>1 DEF IsSide, IsCoal, LEFT, RIGHT, COAL_LEFT, COAL_RIGHT
  <2>4. x \in SideMask(h) /\ y \in CoalMask(h)
    BY <2>1, <2>2, <2>3 DEF SideMask, CoalMask
  <2> QED
    BY <1>1, <1>2, <2>1, <2>4 DEF p
<1>5. CASE h = 2 * p + 1
  <2> DEFINE x == 7 + 5 * (p - 8) + 0
             y == 7 + 5 * (p - 8) + 2
  <2>1. /\ x \in LeafBits /\ (x - 7) % 5 = 0 /\ LeafOf(x) = p
        /\ y \in LeafBits /\ (y - 7) % 5 = 2 /\ LeafOf(y) = p
    BY <1>3
  <2> HIDE DEF x, y
  <2>2. HalfOf(x) = h /\ HalfOf(y) = h
    BY <1>1, <1>5, <2>1 DEF HalfOf, LEFT, COAL_LEFT
  <2>3. IsSide(x) /\ IsCoal(y)
    BY <2>1 DEF IsSide, IsCoal, LEFT, RIGHT, COAL_LEFT, COAL_RIGHT
  <2>4. x \in SideMask(h) /\ y \in CoalMask(h)
    BY <2>1, <2>2, <2>3 DEF SideMask, CoalMask
  <2> QED
    BY <1>1, <1>2, <2>1, <2>4 DEF p
<1> QED
  BY <1>1, <1>4, <1>5

(* The bits of a word, read one by one. *)
LEMMA WordBit ==
  ASSUME NEW Q, NEW K, NEW x
  PROVE  /\ x \in Word(Q, K) => x \in InnerBits \/ x \in LeafBits
         /\ x \in InnerBits => (x \in Word(Q, K) <=> \E r \in Q : PosOverlap(x + 1, PosOf(r)))
         /\ x \in LeafBits =>
              /\ IsOcc(x)  => (x \in Word(Q, K) <=> Covered(LeafOf(x), Q))
              /\ IsSide(x) => (x \in Word(Q, K) <=> HalfOf(x) \in Q \/ Covered(LeafOf(x), Q))
              /\ IsCoal(x) => (x \in Word(Q, K) <=> HalfOf(x) \in K)
<1>1. x \in LeafBits => x \notin InnerBits
  BY BitFacts
<1> QED
  BY <1>1, LeafBitKinds DEF Word

(* Two words are the same if they agree on the inner bits and on those of  *)
(* the leaves. *)
LEMMA SameWord ==
  ASSUME NEW w, w \subseteq InnerBits \cup LeafBits, NEW Q, NEW K,
         \A x \in InnerBits : x \in w <=> \E r \in Q : PosOverlap(x + 1, PosOf(r)),
         \A x \in LeafBits :
           /\ IsOcc(x)  => (x \in w <=> Covered(LeafOf(x), Q))
           /\ IsSide(x) => (x \in w <=> HalfOf(x) \in Q \/ Covered(LeafOf(x), Q))
           /\ IsCoal(x) => (x \in w <=> HalfOf(x) \in K)
  PROVE  w = Word(Q, K)
<1>1. ASSUME NEW x
      PROVE  x \in w <=> x \in Word(Q, K)
  <2>1. CASE x \in InnerBits
    BY <2>1, WordBit
  <2>2. CASE x \in LeafBits
    BY <2>2, WordBit, LeafBitKinds
  <2> QED
    BY <2>1, <2>2, WordBit
<1> QED
  BY <1>1

(* The coalescing bits of a word. *)
LEMMA CoalOfWord ==
  ASSUME NEW Q, NEW K \in SUBSET Halves
  PROVE  Coal(Word(Q, K)) = K
<1>1. ASSUME NEW h \in Halves
      PROVE  CoalMask(h) \subseteq Word(Q, K) <=> h \in K
  <2>1. PICK y \in LeafBits : y \in CoalMask(h)
    BY HalfBits
  <2>2. y \in Word(Q, K) <=> h \in K
    BY <2>1, WordBit DEF CoalMask
  <2>3. h \in K => \A x \in CoalMask(h) : x \in Word(Q, K)
    BY WordBit DEF CoalMask
  <2> QED
    BY <2>1, <2>2, <2>3
<1> QED
  BY <1>1 DEF Coal

(* The side bit of a half. *)
LEMMA SideInWord ==
  ASSUME NEW Q, NEW K, NEW h \in Halves
  PROVE  SideMask(h) \subseteq Word(Q, K) <=> h \in Q \/ Covered(h \div 2, Q)
<1>1. PICK y \in LeafBits : y \in SideMask(h)
  BY HalfBits
<1>2. \A x \in SideMask(h) : x \in Word(Q, K) <=> h \in Q \/ Covered(h \div 2, Q)
  BY WordBit, LeafBitKinds DEF SideMask
<1> QED
  BY <1>1, <1>2

(* The positions the spots Q take up. *)
PositionsOf(Q) == {PosOf(r) : r \in Q}

LEMMA SpotPositions ==
  ASSUME NEW Q \in SUBSET Spots
  PROVE  /\ \A r \in Q : PosOf(r) \in Positions
         /\ \A r \in Q : r \in Positions => PosOf(r) = r
         /\ \A r \in Q : r \notin Positions => r \in Halves /\ PosOf(r) = r \div 2 /\ PosOf(r) >= LEAF_START_POSITION
         /\ PositionsOf(Q) \in SUBSET Positions
<1>1. \A r \in Positions : r \notin Halves
  BY DEF Positions, Halves
<1>2. \A r \in Q : r \in Positions \/ r \in Halves
  BY DEF Spots
<1>3. \A r \in Q : r \in Positions => PosOf(r) = r
  BY <1>1 DEF PosOf
<1>4. \A r \in Q : r \notin Positions =>
         r \in Halves /\ PosOf(r) = r \div 2 /\ PosOf(r) >= LEAF_START_POSITION /\ PosOf(r) \in Positions
  BY <1>2, HalfBits DEF PosOf
<1> QED
  BY <1>3, <1>4 DEF PositionsOf

(* A leaf shares memory with the blocks that cover it and those in its     *)
(* halves. *)
LEMMA SpotAtLeaf ==
  ASSUME NEW Q \in SUBSET Spots, NEW p \in Positions, p >= LEAF_START_POSITION, NEW r \in Q
  PROVE  PosOverlap(p, PosOf(r)) <=> r \in AtOrAbove(p) \/ (r \in Halves /\ r \div 2 = p)
<1>1. PosOf(r) \in Positions /\ (PosOverlap(p, PosOf(r)) <=> PosOf(r) \in AtOrAbove(p))
  BY SpotPositions, LeafOverlap
<1>2. AtOrAbove(p) \subseteq Positions
  BY AboveFacts
<1>3. CASE r \in Positions
  <2>1. r \notin Halves /\ PosOf(r) = r
    BY <1>3, SpotPositions DEF Positions, Halves
  <2> QED
    BY <2>1, <1>1
<1>4. CASE r \notin Positions
  <2>1. r \in Halves /\ PosOf(r) = r \div 2 /\ PosOf(r) >= LEAF_START_POSITION
    BY <1>4, SpotPositions
  <2>2. PosOf(r) \in AtOrAbove(p) <=> PosOf(r) = p
    <3>1. \A q \in Above(p) : q < 8
      BY AboveFacts
    <3> QED
      BY <3>1, <2>1, <1>1 DEF AtOrAbove, LEAF_START_POSITION, Positions
  <2> QED
    BY <2>1, <2>2, <1>1, <1>2, <1>4
<1> QED
  BY <1>3, <1>4

(* A position is found allocable exactly if nothing shares memory with it. *)
LEMMA AllocableAtSpots ==
  ASSUME NEW Q \in SUBSET Spots, NEW K \in SUBSET Halves, K \subseteq Q, NEW p \in Positions
  PROVE  IS_ALLOCABLE(Word(Q, K), p) <=> \A r \in Q : ~PosOverlap(p, PosOf(r))
<1>1. CASE p < LEAF_START_POSITION
  <2>1. NodeMask(p) = {p - 1} /\ p - 1 \in InnerBits /\ (p - 1) + 1 = p
    BY <1>1, NodeMaskBits DEF Positions
  <2>2. p - 1 \in Word(Q, K) <=> \E r \in Q : PosOverlap(p, PosOf(r))
    BY <2>1, WordBit
  <2> QED
    BY <1>1, <2>1, <2>2 DEF IS_ALLOCABLE
<1>2. CASE p >= LEAF_START_POSITION
  <2>1. LeafMask(LEAF_FULL_MASK, p) = {x \in LeafBits : LeafOf(x) = p}
    BY <1>2, LeafMaskBits
  <2>2. ~(p < LEAF_START_POSITION)
    BY <1>2 DEF LEAF_START_POSITION, Positions
  <2>3. IS_ALLOCABLE(Word(Q, K), p) <=> \A x \in LeafBits : LeafOf(x) = p => x \notin Word(Q, K)
    BY <2>1, <2>2 DEF IS_ALLOCABLE
  <2>4. \A r \in Q : PosOverlap(p, PosOf(r)) <=> r \in AtOrAbove(p) \/ (r \in Halves /\ r \div 2 = p)
    BY <1>2, SpotAtLeaf
  <2>5. ASSUME NEW x \in LeafBits, LeafOf(x) = p, x \in Word(Q, K)
        PROVE  \E r \in Q : PosOverlap(p, PosOf(r))
    <3>1. Covered(p, Q) \/ HalfOf(x) \in Q
      BY <2>5, WordBit, LeafBitKinds
    <3>2. HalfOf(x) \in Halves /\ HalfOf(x) \div 2 = p
      BY <2>5, LeafBitKinds
    <3> QED
      BY <3>1, <3>2, <2>4 DEF Covered
  <2>6. ASSUME NEW r \in Q, r \in AtOrAbove(p)
        PROVE  \E x \in LeafBits : LeafOf(x) = p /\ x \in Word(Q, K)
    <3> DEFINE x == 7 + 5 * (p - 8) + 4
    <3>1. x \in LeafBits /\ LeafOf(x) = p /\ IsOcc(x)
      BY <1>2 DEF LeafBits, LeafOf, IsOcc, OCCUPIED, LEAF_START_POSITION, Positions
    <3> HIDE DEF x
    <3>2. x \in Word(Q, K)
      BY <3>1, <2>6, WordBit DEF Covered
    <3> QED
      BY <3>1, <3>2
  <2>7. ASSUME NEW r \in Q, r \in Halves, r \div 2 = p
        PROVE  \E x \in LeafBits : LeafOf(x) = p /\ x \in Word(Q, K)
    <3>1. PICK x \in LeafBits : x \in SideMask(r)
      BY <2>7, HalfBits
    <3>2. IsSide(x) /\ HalfOf(x) = r /\ LeafOf(x) = p
      BY <3>1, <2>7, LeafBitKinds DEF SideMask
    <3> QED
      BY <3>1, <3>2, WordBit
  <2> QED
    BY <2>3, <2>4, <2>5, <2>6, <2>7
<1> QED
  BY <1>1, <1>2 DEF LEAF_START_POSITION, Positions

(* ... as in the word with a block at each of the positions.               *)
LEMMA AllocableAtPositions ==
  ASSUME NEW Q \in SUBSET Spots, NEW K \in SUBSET Halves, K \subseteq Q, NEW p \in Positions
  PROVE  IS_ALLOCABLE(Word(Q, K), p) <=> IS_ALLOCABLE(WordOf(PositionsOf(Q)), p)
<1>1. PositionsOf(Q) \in SUBSET Positions
  BY SpotPositions
<1>2. IS_ALLOCABLE(WordOf(PositionsOf(Q)), p) <=> \A r \in PositionsOf(Q) : ~PosOverlap(p, r)
  BY <1>1, AllocableInWord
<1> QED
  BY <1>2, AllocableAtSpots DEF PositionsOf

(* Walks in words that agree on the brothers end alike. *)
LEMMA SameWalk ==
  ASSUME NEW p \in Positions, NEW v, NEW w,
         \A q \in AtOrAbove(p) : q > 1 => (IS_ALLOCABLE(v, Brother(q)) <=> IS_ALLOCABLE(w, Brother(q)))
  PROVE  Blocked(v, p) = Blocked(w, p) /\ Cleanable(v, p) = Cleanable(w, p)
<1>1. Blocked(v, p) = Blocked(w, p)
  BY DEF Blocked, AtOrAbove
<1> QED
  BY <1>1 DEF Cleanable

(* The root is above every position. *)
LEMMA RootAbove ==
  ASSUME NEW p \in Positions
  PROVE  1 \in AtOrAbove(p) /\ (p # 1 => 1 \in Above(p)) /\ 1 \in Positions
<1>1. Above(p) = {p \div 2, p \div 4, p \div 8} \ {0}
  BY AboveIs DEF Positions
<1>2. p = 1 \/ p \div 2 = 1 \/ p \div 4 = 1 \/ p \div 8 = 1
  BY DEF Positions
<1> QED
  BY <1>1, <1>2 DEF AtOrAbove, Positions

(* A walk reaches the root of the container exactly if nothing else is in. *)
LEMMA WalkFree ==
  ASSUME NEW p \in Positions, NEW P \in SUBSET Positions,
         \A r \in P : ~PosOverlap(p, r)
  PROVE  Blocked(WordOf(P \cup {p}), p) = {} <=> P = {}
<1> DEFINE W == WordOf(P \cup {p})
<1>1. \A r \in P : PosOverlap(1, r)
  BY RootAbove DEF PosOverlap
<1>2. CASE p = 1
  <2>1. Above(p) = {}
    BY <1>2, AboveFacts DEF AtOrAbove, Positions
  <2>2. Blocked(W, p) = {}
    BY <1>2, <2>1 DEF Blocked
  <2> QED
    BY <1>1, <1>2, <2>2
<1>3. CASE p # 1
  <2>1. 1 \in Above(p)
    BY <1>3, RootAbove
  <2>2. 1 \in Cleanable(W, p) <=> \A r \in P : ~PosOverlap(1, r)
    BY <2>1, CleanableInWord
  <2>3. 1 \in Cleanable(W, p) <=> P = {}
    BY <1>1, <2>2
  <2>4. 1 \in Cleanable(W, p) <=> \A q \in Blocked(W, p) : q <= 1
    BY <2>1 DEF Cleanable
  <2>5. \A q \in Blocked(W, p) : q \in Positions /\ q > 1
    BY AboveFacts DEF Blocked, AtOrAbove
  <2> HIDE DEF W
  <2>6. (\A q \in Blocked(W, p) : q <= 1) <=> Blocked(W, p) = {}
    BY <2>5 DEF Positions
  <2> QED
    BY <2>3, <2>4, <2>6 DEF W
<1> QED
  BY <1>2, <1>3

(* The bits a set of kinds selects in a leaf. *)
LEMMA KindBits ==
  ASSUME NEW p \in Positions, p >= LEAF_START_POSITION, NEW B \in SUBSET (0 .. 4)
  PROVE  LeafMask(B, p) = {x \in LeafBits : LeafOf(x) = p /\ (x - 7) % 5 \in B}
<1> DEFINE s == 7 + 5 * (p - 8)
<1>1. p \in 8 .. 15 /\ s \in 7 .. 42 /\ s % 64 = s
  BY DEF Positions, LEAF_START_POSITION
<1>2. LeafMask(B, p) = {b + s : b \in B} \cap WordBits
  BY <1>1 DEF LeafMask, LEAF_START_POSITION
<1>3. \A b \in 0 .. 4 : b + s \in LeafBits /\ LeafOf(b + s) = p /\ ((b + s) - 7) % 5 = b
  BY <1>1 DEF LeafBits, LeafOf, LEAF_START_POSITION
<1>4. \A x \in LeafBits : LeafOf(x) = p => (x - 7) % 5 = x - s /\ x = (x - s) + s
  BY <1>1 DEF LeafBits, LeafOf, LEAF_START_POSITION
<1> HIDE DEF s
<1>5. \A b \in B : b \in 0 .. 4
  OBVIOUS
<1>6. ASSUME NEW x \in LeafMask(B, p)
      PROVE  x \in LeafBits /\ LeafOf(x) = p /\ (x - 7) % 5 \in B
  <2>1. PICK b \in B : x = b + s
    BY <1>2
  <2> QED
    BY <2>1, <1>3, <1>5
<1>7. ASSUME NEW x \in LeafBits, LeafOf(x) = p, (x - 7) % 5 \in B
      PROVE  x \in LeafMask(B, p)
  <2>1. x - s \in B /\ x = (x - s) + s /\ x \in WordBits
    BY <1>4, <1>7, BitFacts
  <2> QED
    BY <2>1, <1>2
<1> QED
  BY <1>6, <1>7

(* The bits a leaf keeps for each of its halves. *)
LEMMA HalfMasks ==
  ASSUME NEW p \in Positions, p >= LEAF_START_POSITION
  PROVE  /\ LeafMask({LEFT}, p) = SideMask(2 * p)
         /\ LeafMask({RIGHT}, p) = SideMask(2 * p + 1)
         /\ LeafMask({COAL_LEFT}, p) = CoalMask(2 * p)
         /\ LeafMask({COAL_RIGHT}, p) = CoalMask(2 * p + 1)
         /\ LeafMask({COAL_LEFT, LEFT}, p) = SideMask(2 * p) \cup CoalMask(2 * p)
         /\ LeafMask({COAL_RIGHT, RIGHT}, p) = SideMask(2 * p + 1) \cup CoalMask(2 * p + 1)
         /\ LeafMask({OCCUPIED}, p) = {x \in LeafBits : IsOcc(x) /\ LeafOf(x) = p}
<1> USE DEF LEFT, RIGHT, COAL_LEFT, COAL_RIGHT, OCCUPIED
<1>1. /\ {LEFT} \in SUBSET (0 .. 4) /\ {RIGHT} \in SUBSET (0 .. 4) /\ {OCCUPIED} \in SUBSET (0 .. 4)
      /\ {COAL_LEFT} \in SUBSET (0 .. 4) /\ {COAL_RIGHT} \in SUBSET (0 .. 4)
      /\ {COAL_LEFT, LEFT} \in SUBSET (0 .. 4) /\ {COAL_RIGHT, RIGHT} \in SUBSET (0 .. 4)
  OBVIOUS
<1>2. ASSUME NEW x \in LeafBits
      PROVE  /\ (LeafOf(x) = p /\ (x - 7) % 5 \in {LEFT}) <=> x \in SideMask(2 * p)
             /\ (LeafOf(x) = p /\ (x - 7) % 5 \in {RIGHT}) <=> x \in SideMask(2 * p + 1)
             /\ (LeafOf(x) = p /\ (x - 7) % 5 \in {COAL_LEFT}) <=> x \in CoalMask(2 * p)
             /\ (LeafOf(x) = p /\ (x - 7) % 5 \in {COAL_RIGHT}) <=> x \in CoalMask(2 * p + 1)
  <2>1. p \in Int /\ LeafOf(x) \in Int /\ (x - 7) % 5 \in 0 .. 4
    BY BitFacts DEF Positions, LeafBits
  <2> DEFINE k == (x - 7) % 5
             l == LeafOf(x)
  <2>2. HalfOf(x) = 2 * l + (IF k \in {LEFT, COAL_LEFT} THEN 0 ELSE 1)
    BY DEF HalfOf
  <2>3. k = 0 \/ k = 1 \/ k = 2 \/ k = 3 \/ k = 4
    BY <2>1
  <2>4. /\ x \in SideMask(2 * p) <=> k \in {LEFT, RIGHT} /\ HalfOf(x) = 2 * p
        /\ x \in SideMask(2 * p + 1) <=> k \in {LEFT, RIGHT} /\ HalfOf(x) = 2 * p + 1
        /\ x \in CoalMask(2 * p) <=> k \in {COAL_LEFT, COAL_RIGHT} /\ HalfOf(x) = 2 * p
        /\ x \in CoalMask(2 * p + 1) <=> k \in {COAL_LEFT, COAL_RIGHT} /\ HalfOf(x) = 2 * p + 1
    BY DEF SideMask, CoalMask, IsSide, IsCoal
  <2> HIDE DEF k, l
  <2>5. k = 1 \/ k = 3 => HalfOf(x) = 2 * l
    BY <2>1, <2>2 DEF l
  <2>6. k = 0 \/ k = 2 => HalfOf(x) = 2 * l + 1
    BY <2>1, <2>2 DEF l
  <2>7. /\ (l = p /\ k = 1) <=> x \in SideMask(2 * p)
        /\ (l = p /\ k = 0) <=> x \in SideMask(2 * p + 1)
        /\ (l = p /\ k = 3) <=> x \in CoalMask(2 * p)
        /\ (l = p /\ k = 2) <=> x \in CoalMask(2 * p + 1)
    BY <2>1, <2>3, <2>4, <2>5, <2>6 DEF l
  <2> QED
    BY <2>7 DEF k, l
<1>3. \A h : SideMask(h) \subseteq LeafBits /\ CoalMask(h) \subseteq LeafBits
  BY DEF SideMask, CoalMask
<1>4. /\ LeafMask({LEFT}, p) = SideMask(2 * p)
      /\ LeafMask({RIGHT}, p) = SideMask(2 * p + 1)
      /\ LeafMask({COAL_LEFT}, p) = CoalMask(2 * p)
      /\ LeafMask({COAL_RIGHT}, p) = CoalMask(2 * p + 1)
  <2>1. LeafMask({LEFT}, p) = SideMask(2 * p)
    <3>1. LeafMask({LEFT}, p) = {x \in LeafBits : LeafOf(x) = p /\ (x - 7) % 5 \in {LEFT}}
      BY <1>1, KindBits
    <3> QED
      BY <3>1, <1>2, <1>3
  <2>2. LeafMask({RIGHT}, p) = SideMask(2 * p + 1)
    <3>1. LeafMask({RIGHT}, p) = {x \in LeafBits : LeafOf(x) = p /\ (x - 7) % 5 \in {RIGHT}}
      BY <1>1, KindBits
    <3> QED
      BY <3>1, <1>2, <1>3
  <2>3. LeafMask({COAL_LEFT}, p) = CoalMask(2 * p)
    <3>1. LeafMask({COAL_LEFT}, p) = {x \in LeafBits : LeafOf(x) = p /\ (x - 7) % 5 \in {COAL_LEFT}}
      BY <1>1, KindBits
    <3> QED
      BY <3>1, <1>2, <1>3
  <2>4. LeafMask({COAL_RIGHT}, p) = CoalMask(2 * p + 1)
    <3>1. LeafMask({COAL_RIGHT}, p) = {x \in LeafBits : LeafOf(x) = p /\ (x - 7) % 5 \in {COAL_RIGHT}}
      BY <1>1, KindBits
    <3> QED
      BY <3>1, <1>2, <1>3
  <2> QED
    BY <2>1, <2>2, <2>3, <2>4
<1>5. ASSUME NEW B, NEW C, NEW q
      PROVE  LeafMask(B \cup C, q) = LeafMask(B, q) \cup LeafMask(C, q)
  BY DEF LeafMask
<1>6. /\ LeafMask({COAL_LEFT, LEFT}, p) = SideMask(2 * p) \cup CoalMask(2 * p)
      /\ LeafMask({COAL_RIGHT, RIGHT}, p) = SideMask(2 * p + 1) \cup CoalMask(2 * p + 1)
  <2>1. {COAL_LEFT, LEFT} = {LEFT} \cup {COAL_LEFT} /\ {COAL_RIGHT, RIGHT} = {RIGHT} \cup {COAL_RIGHT}
    OBVIOUS
  <2>2. LeafMask({LEFT} \cup {COAL_LEFT}, p) = LeafMask({LEFT}, p) \cup LeafMask({COAL_LEFT}, p)
    BY <1>5
  <2>3. LeafMask({RIGHT} \cup {COAL_RIGHT}, p) = LeafMask({RIGHT}, p) \cup LeafMask({COAL_RIGHT}, p)
    BY <1>5
  <2> QED
    BY <2>1, <2>2, <2>3, <1>4
<1>7. LeafMask({OCCUPIED}, p) = {x \in LeafBits : IsOcc(x) /\ LeafOf(x) = p}
  <2>1. LeafMask({OCCUPIED}, p) = {x \in LeafBits : LeafOf(x) = p /\ (x - 7) % 5 \in {OCCUPIED}}
    BY <1>1, KindBits
  <2> QED
    BY <2>1 DEF IsOcc
<1> QED
  BY <1>4, <1>6, <1>7

(* A leaf is marked OCCUPIED exactly if a block of the bunch covers it.    *)
LEMMA OccupiedInWord ==
  ASSUME NEW Q, NEW K, NEW p \in Positions, p >= LEAF_START_POSITION
  PROVE  IS_OCCUPIED(Word(Q, K), p) <=> Covered(p, Q)
<1>1. LeafMask({OCCUPIED}, p) = {x \in LeafBits : IsOcc(x) /\ LeafOf(x) = p}
  BY HalfMasks
<1> DEFINE y == 7 + 5 * (p - 8) + 4
<1>2. y \in LeafBits /\ LeafOf(y) = p /\ IsOcc(y)
  BY DEF LeafBits, LeafOf, IsOcc, OCCUPIED, LEAF_START_POSITION, Positions
<1> HIDE DEF y
<1>3. \A x \in LeafMask({OCCUPIED}, p) : x \in Word(Q, K) <=> Covered(p, Q)
  BY <1>1, WordBit
<1>4. y \in LeafMask({OCCUPIED}, p)
  BY <1>1, <1>2
<1> QED
  BY <1>3, <1>4 DEF IS_OCCUPIED, IsSet

(* An allocation in the bunch adds its position. *)
LEMMA WordTakes ==
  ASSUME NEW Q \in SUBSET Spots, NEW K \in SUBSET Halves, NEW p \in Positions
  PROVE  occupa_container(p, Word(Q, K)) = Word(Q \cup {p}, K)
<1>1. Above(p) \subseteq Positions /\ AtOrBelow(p) \subseteq Positions
  BY AboveFacts DEF AtOrAbove
<1>2. NodeMasks(Above(p) \cup AtOrBelow(p)) = {x \in InnerBits : x + 1 \in Above(p) \cup AtOrBelow(p)}
  BY <1>1, MasksBits
<1>3. LeafMasks(AtOrBelow(p)) = {x \in LeafBits : LeafOf(x) \in AtOrBelow(p) /\ LocksLeaf(x)}
  BY <1>1, MasksBits
<1>4. \A q \in Positions : q \in AtOrBelow(p) <=> p \in AtOrAbove(q)
  BY AboveFacts
<1>5. \A x \in InnerBits : x + 1 \in Above(p) \cup AtOrBelow(p) <=> PosOverlap(x + 1, p)
  BY <1>4, BitFacts DEF PosOverlap, AtOrAbove
<1>6. \A x \in LeafBits : LeafOf(x) \in AtOrBelow(p) <=> p \in AtOrAbove(LeafOf(x))
  BY <1>4, BitFacts
<1> DEFINE w == occupa_container(p, Word(Q, K))
<1>7. w = Word(Q, K) \cup NodeMasks(Above(p) \cup AtOrBelow(p)) \cup LeafMasks(AtOrBelow(p))
  BY DEF occupa_container
<1> HIDE DEF w
<1>8. PosOf(p) = p /\ p \notin Halves
  BY DEF PosOf, Positions, Halves
<1>9. ASSUME NEW x \in InnerBits
      PROVE  x \in w <=> \E r \in Q \cup {p} : PosOverlap(x + 1, PosOf(r))
  <2>1. x \notin LeafMasks(AtOrBelow(p))
    BY <1>3, BitFacts
  <2>2. x \in Word(Q, K) <=> \E r \in Q : PosOverlap(x + 1, PosOf(r))
    BY WordBit
  <2> QED
    BY <1>2, <1>5, <1>7, <1>8, <2>1, <2>2
<1>10. ASSUME NEW x \in LeafBits
       PROVE  /\ IsOcc(x)  => (x \in w <=> Covered(LeafOf(x), Q \cup {p}))
              /\ IsSide(x) => (x \in w <=> HalfOf(x) \in Q \cup {p} \/ Covered(LeafOf(x), Q \cup {p}))
              /\ IsCoal(x) => (x \in w <=> HalfOf(x) \in K)
  <2>1. x \notin NodeMasks(Above(p) \cup AtOrBelow(p))
    BY <1>2, BitFacts
  <2>2. Covered(LeafOf(x), Q \cup {p}) <=> Covered(LeafOf(x), Q) \/ LeafOf(x) \in AtOrBelow(p)
    BY <1>6 DEF Covered
  <2>3. HalfOf(x) # p
    BY <1>8, LeafBitKinds
  <2>4. x \in LeafMasks(AtOrBelow(p)) <=> LeafOf(x) \in AtOrBelow(p) /\ ~IsCoal(x)
    BY <1>3, LeafBitKinds
  <2> QED
    BY <1>7, <2>1, <2>2, <2>3, <2>4, WordBit, LeafBitKinds
<1>11. w \subseteq InnerBits \cup LeafBits
  BY <1>2, <1>3, <1>7, WordBit
<1>12. w = Word(Q \cup {p}, K)
  BY <1>9, <1>10, <1>11, SameWord
<1> QED
  BY <1>12 DEF w

(* Marking a half of a leaf adds the half, and takes its coalescing bit.   *)
LEMMA WordMarks ==
  ASSUME NEW Q \in SUBSET Spots, NEW K \in SUBSET Halves, NEW h \in Halves
  PROVE  (Word(Q, K) \ CoalMask(h)) \cup SideMask(h) \cup NodeMasks(Above(h \div 2))
           = Word(Q \cup {h}, K \ {h})
<1> DEFINE p == h \div 2
           w == (Word(Q, K) \ CoalMask(h)) \cup SideMask(h) \cup NodeMasks(Above(p))
<1>1. p \in Positions /\ p >= LEAF_START_POSITION /\ PosOf(h) = p
  BY HalfBits DEF PosOf
<1> HIDE DEF p
<1>2. Above(p) \subseteq Positions /\ \A q \in Above(p) : q < 8
  BY <1>1, AboveFacts DEF AtOrAbove
<1>3. NodeMasks(Above(p)) = {x \in InnerBits : x + 1 \in Above(p)}
  BY <1>2, MasksBits
<1>4. ASSUME NEW x \in InnerBits
      PROVE  PosOverlap(x + 1, p) <=> x + 1 \in Above(p)
  <2>1. x + 1 \in Positions /\ x + 1 < LEAF_START_POSITION
    BY BitFacts
  <2>2. x + 1 # p
    BY <1>1, <2>1 DEF Positions, LEAF_START_POSITION
  <2>3. PosOverlap(p, x + 1) <=> x + 1 \in AtOrAbove(p)
    BY <1>1, <2>1, LeafOverlap
  <2> QED
    BY <1>1, <2>1, <2>2, <2>3, OverlapFacts DEF AtOrAbove
<1>5. ASSUME NEW x \in InnerBits
      PROVE  x \in w <=> \E r \in Q \cup {h} : PosOverlap(x + 1, PosOf(r))
  <2>1. x \notin CoalMask(h) /\ x \notin SideMask(h)
    BY BitFacts DEF CoalMask, SideMask
  <2>2. x \in w <=> x \in Word(Q, K) \/ x + 1 \in Above(p)
    BY <1>3, <2>1
  <2> HIDE DEF w
  <2>3. x \in Word(Q, K) <=> \E r \in Q : PosOverlap(x + 1, PosOf(r))
    BY WordBit
  <2> QED
    BY <2>2, <2>3, <1>1, <1>4
<1>6. ASSUME NEW x \in LeafBits
      PROVE  /\ IsOcc(x)  => (x \in w <=> Covered(LeafOf(x), Q \cup {h}))
             /\ IsSide(x) => (x \in w <=> HalfOf(x) \in Q \cup {h} \/ Covered(LeafOf(x), Q \cup {h}))
             /\ IsCoal(x) => (x \in w <=> HalfOf(x) \in K \ {h})
  <2>1. x \notin NodeMasks(Above(p))
    BY <1>3, BitFacts
  <2>2. h \notin Positions
    BY DEF Halves, Positions
  <2>3. AtOrAbove(LeafOf(x)) \subseteq Positions
    BY AboveFacts, BitFacts
  <2>4. Covered(LeafOf(x), Q \cup {h}) <=> Covered(LeafOf(x), Q)
    BY <2>2, <2>3 DEF Covered
  <2>5. /\ x \in CoalMask(h) <=> IsCoal(x) /\ HalfOf(x) = h
        /\ x \in SideMask(h) <=> IsSide(x) /\ HalfOf(x) = h
    BY DEF CoalMask, SideMask
  <2>6. x \in w <=> (x \in Word(Q, K) /\ ~(IsCoal(x) /\ HalfOf(x) = h)) \/ (IsSide(x) /\ HalfOf(x) = h)
    BY <2>1, <2>5
  <2> HIDE DEF w
  <2> QED
    BY <2>4, <2>6, WordBit, LeafBitKinds
<1>7. w \subseteq InnerBits \cup LeafBits
  BY <1>3, WordBit DEF CoalMask, SideMask
<1> HIDE DEF w
<1>8. w = Word(Q \cup {h}, K \ {h})
  BY <1>5, <1>6, <1>7, SameWord
<1> QED
  BY <1>8 DEF w, p

(* Setting a coalescing bit.  *)
LEMMA WordCoalesces ==
  ASSUME NEW Q, NEW K, NEW h \in Halves
  PROVE  Word(Q, K) \cup CoalMask(h) = Word(Q, K \cup {h})
<1>1. ASSUME NEW x
      PROVE  x \in Word(Q, K) \cup CoalMask(h) <=> x \in Word(Q, K \cup {h})
  <2>1. x \in CoalMask(h) <=> x \in LeafBits /\ IsCoal(x) /\ HalfOf(x) = h
    BY DEF CoalMask
  <2>2. x \in InnerBits => x \notin LeafBits
    BY BitFacts
  <2> QED
    BY <2>1, <2>2, WordBit, LeafBitKinds
<1> QED
  BY <1>1

(* A release takes its position out, and its walk reaches the root of the  *)
(* container exactly if nothing else is in. *)
LEMMA WordReleases ==
  ASSUME NEW p \in Positions, NEW Q \in SUBSET Spots, NEW K \in SUBSET Halves, K \subseteq Q,
         \A r \in Q : ~PosOverlap(p, PosOf(r))
  PROVE  /\ libera_container(p, Word(Q \cup {p}, K)) = Word(Q, K)
         /\ Blocked(Word(Q \cup {p}, K), p) = {} <=> Q = {}
<1> DEFINE P == PositionsOf(Q)
           V == WordOf(P \cup {p})
           W == Word(Q \cup {p}, K)
           C == Cleanable(W, p)
           w == libera_container(p, W)
<1>1. P \in SUBSET Positions /\ PosOf(p) = p /\ p \notin Halves
  BY SpotPositions DEF PosOf, Positions, Halves
<1>2. \A r \in P : ~PosOverlap(p, r)
  BY DEF PositionsOf
<1>3. Blocked(W, p) = Blocked(V, p) /\ C = Cleanable(V, p)
  <2>1. Q \cup {p} \in SUBSET Spots /\ K \subseteq Q \cup {p}
    BY DEF Spots
  <2>2. PositionsOf(Q \cup {p}) = P \cup {p}
    BY <1>1 DEF PositionsOf
  <2>3. \A q \in Positions : IS_ALLOCABLE(W, q) <=> IS_ALLOCABLE(V, q)
    BY <2>1, <2>2, AllocableAtPositions
  <2>4. \A q \in AtOrAbove(p) : q > 1 => Brother(q) \in Positions
    BY AboveFacts, BrotherFacts
  <2> HIDE DEF W, V
  <2> QED
    BY <2>3, <2>4, SameWalk
<1>4. Blocked(W, p) = {} <=> Q = {}
  <2>1. Blocked(V, p) = {} <=> P = {}
    BY <1>1, <1>2, WalkFree
  <2> QED
    BY <1>3, <2>1 DEF PositionsOf
<1>5. Above(p) \subseteq Positions /\ AtOrBelow(p) \subseteq Positions /\ C \subseteq Positions
  BY AboveFacts DEF AtOrAbove, Cleanable
<1>6. NodeMasks(C) = {x \in InnerBits : x + 1 \in C}
  BY <1>5, MasksBits
<1>7. NodeMasks(AtOrBelow(p)) = {x \in InnerBits : x + 1 \in AtOrBelow(p)}
  BY <1>5, MasksBits
<1>8. LeafMasks(AtOrBelow(p)) = {x \in LeafBits : LeafOf(x) \in AtOrBelow(p) /\ LocksLeaf(x)}
  BY <1>5, MasksBits
<1>9. \A q \in Positions : q \in AtOrBelow(p) <=> p \in AtOrAbove(q)
  BY AboveFacts
<1>10. \A q \in C : q \in Above(p)
  BY DEF Cleanable
<1>11. \A a \in Above(p) : a \in C <=> \A r \in Q : ~PosOverlap(a, PosOf(r))
  <2>1. \A a \in Above(p) : a \in C <=> \A r \in P : ~PosOverlap(a, r)
    BY <1>1, <1>2, <1>3, CleanableInWord
  <2> QED
    BY <2>1 DEF PositionsOf
<1>12. w = ((W \ NodeMasks(C)) \ NodeMasks(AtOrBelow(p))) \ LeafMasks(AtOrBelow(p))
  BY DEF libera_container, ClearAbove
<1> HIDE DEF w, C, P, V
<1>13. ASSUME NEW x \in InnerBits
       PROVE  x \in w <=> \E r \in Q : PosOverlap(x + 1, PosOf(r))
  <2> DEFINE q == x + 1
  <2>1. q \in Positions
    BY BitFacts
  <2>2. x \in W <=> \E r \in Q \cup {p} : PosOverlap(q, PosOf(r))
    BY WordBit
  <2>3. x \notin LeafMasks(AtOrBelow(p))
    BY <1>8, BitFacts
  <2>4. x \in w <=> x \in W /\ q \notin C /\ q \notin AtOrBelow(p)
    BY <1>6, <1>7, <1>12, <2>3
  <2>5. \A r \in Q : PosOf(r) \in Positions
    BY SpotPositions
  <2> HIDE DEF q, W
  <2>6. CASE p \in AtOrAbove(q)
    <3>1. \A r \in Q : ~PosOverlap(q, PosOf(r))
      BY <2>1, <2>5, <2>6, OverlapFacts
    <3> QED
      BY <3>1, <2>1, <2>4, <2>6, <1>9 DEF q
  <2>7. CASE q \in Above(p)
    <3>1. p \notin AtOrAbove(q)
      BY <2>7, <2>1, AboveFacts DEF AtOrAbove, Positions
    <3>2. PosOverlap(q, p)
      BY <2>7 DEF PosOverlap, AtOrAbove
    <3>3. x \in W
      BY <2>2, <3>2, <1>1
    <3> QED
      BY <3>1, <3>3, <2>1, <2>4, <2>7, <1>9, <1>11 DEF q
  <2>8. CASE p \notin AtOrAbove(q) /\ q \notin Above(p)
    <3>1. ~PosOverlap(q, p)
      BY <2>8 DEF PosOverlap, AtOrAbove
    <3> QED
      BY <3>1, <2>1, <2>2, <2>4, <2>8, <1>1, <1>9, <1>10 DEF q
  <2> QED
    BY <2>6, <2>7, <2>8
<1>14. ASSUME NEW x \in LeafBits
       PROVE  /\ IsOcc(x)  => (x \in w <=> Covered(LeafOf(x), Q))
              /\ IsSide(x) => (x \in w <=> HalfOf(x) \in Q \/ Covered(LeafOf(x), Q))
              /\ IsCoal(x) => (x \in w <=> HalfOf(x) \in K)
  <2> DEFINE q == LeafOf(x)
  <2>1. q \in Positions /\ q >= LEAF_START_POSITION
    BY BitFacts
  <2>2. /\ IsOcc(x)  => (x \in W <=> Covered(q, Q \cup {p}))
        /\ IsSide(x) => (x \in W <=> HalfOf(x) \in Q \cup {p} \/ Covered(q, Q \cup {p}))
        /\ IsCoal(x) => (x \in W <=> HalfOf(x) \in K)
    BY WordBit
  <2>3. x \notin NodeMasks(AtOrBelow(p)) /\ x \notin NodeMasks(C)
    BY <1>6, <1>7, BitFacts
  <2>4. x \in w <=> x \in W /\ ~(q \in AtOrBelow(p) /\ ~IsCoal(x))
    BY <1>8, <1>12, <2>3, LeafBitKinds
  <2>5. Covered(q, Q \cup {p}) <=> Covered(q, Q) \/ p \in AtOrAbove(q)
    BY DEF Covered
  <2>6. HalfOf(x) # p /\ HalfOf(x) \in Halves /\ HalfOf(x) \div 2 = q
    BY <1>1, LeafBitKinds
  <2> HIDE DEF W
  <2>7. CASE p \in AtOrAbove(q)
    <3>1. q \in AtOrBelow(p)
      BY <2>1, <2>7, <1>9
    <3>2. \A r \in Q : PosOf(r) \in Positions /\ ~PosOverlap(q, PosOf(r))
      BY <2>1, <2>7, OverlapFacts, SpotPositions
    <3>3. \A r \in Q : r \notin AtOrAbove(q) /\ ~(r \in Halves /\ r \div 2 = q)
      BY <2>1, <3>2, SpotAtLeaf
    <3>4. ~Covered(q, Q) /\ HalfOf(x) \notin Q
      BY <2>6, <3>3 DEF Covered
    <3> QED
      BY <2>2, <2>4, <3>1, <3>4, LeafBitKinds
  <2>8. CASE p \notin AtOrAbove(q)
    <3>1. q \notin AtOrBelow(p)
      BY <2>1, <2>8, <1>9
    <3> QED
      BY <2>2, <2>4, <2>5, <2>6, <2>8, <3>1
  <2> QED
    BY <2>7, <2>8
<1>15. w \subseteq InnerBits \cup LeafBits
  BY <1>12, WordBit
<1> HIDE DEF W
<1>16. w = Word(Q, K)
  BY <1>13, <1>14, <1>15, SameWord
<1> QED
  BY <1>4, <1>16 DEF w, W

(* The other half of the leaf. *)
OtherHalf(h) == IF h % 2 = 0 THEN h + 1 ELSE h - 1

LEMMA HalvesOfLeaf ==
  ASSUME NEW h \in Halves
  PROVE  /\ OtherHalf(h) \in Halves /\ OtherHalf(h) # h /\ OtherHalf(h) \div 2 = h \div 2
         /\ \A g \in Halves : g \div 2 = h \div 2 => g = h \/ g = OtherHalf(h)
BY DEF OtherHalf, Halves

(* smarca's new word: without the half and its coalescing bit.  Its walk   *)
(* is skipped if the other half is busy, and reaches the root of the       *)
(* container exactly if nothing else is in. *)
LEMMA WordCleans ==
  ASSUME NEW h \in Halves, NEW Q \in SUBSET Spots, NEW K \in SUBSET Halves,
         K \subseteq Q \cup {h}, h \notin Q, ~Covered(h \div 2, Q)
  PROVE  LET p == h \div 2
             clean == Word(Q \cup {h}, K) \ (SideMask(h) \cup CoalMask(h))
         IN /\ SideMask(OtherHalf(h)) \subseteq clean => clean = Word(Q, K \ {h}) /\ Q # {}
            /\ ~(SideMask(OtherHalf(h)) \subseteq clean) =>
                 /\ ClearAbove(p, clean) = Word(Q, K \ {h})
                 /\ Blocked(clean, p) = {} <=> Q = {}
<1> DEFINE p == h \div 2
           g == OtherHalf(h)
           W == Word(Q \cup {h}, K)
           clean == W \ (SideMask(h) \cup CoalMask(h))
<1>1. /\ p \in Positions /\ p >= LEAF_START_POSITION /\ PosOf(h) = p /\ h \notin Positions
      /\ g \in Halves /\ g # h /\ g \div 2 = p /\ PosOf(g) = p
      /\ \A k \in Halves : k \div 2 = p => k = h \/ k = g
      /\ \A q \in Positions : q \notin Halves
      /\ Q \cup {h} \in SUBSET Spots
  <2>1. \A q \in Positions : q \notin Halves
    BY DEF Positions, Halves
  <2> QED
    BY <2>1, HalfBits, HalvesOfLeaf DEF PosOf, Spots
<1> HIDE DEF p, g
<1>2. \A q \in Positions : Covered(q, Q \cup {h}) <=> Covered(q, Q)
  <2>1. \A q \in Positions : h \notin AtOrAbove(q)
    BY <1>1, AboveFacts
  <2> QED
    BY <2>1 DEF Covered
<1>3. ~Covered(p, Q)
  BY DEF p
<1>4. ASSUME NEW x \in LeafBits
      PROVE  /\ IsOcc(x)  => (x \in clean <=> Covered(LeafOf(x), Q))
             /\ IsSide(x) => (x \in clean <=> HalfOf(x) \in Q \/ Covered(LeafOf(x), Q))
             /\ IsCoal(x) => (x \in clean <=> HalfOf(x) \in K \ {h})
  <2>1. LeafOf(x) \in Positions
    BY BitFacts
  <2>2. /\ x \in CoalMask(h) <=> IsCoal(x) /\ HalfOf(x) = h
        /\ x \in SideMask(h) <=> IsSide(x) /\ HalfOf(x) = h
    BY DEF CoalMask, SideMask
  <2>3. HalfOf(x) = h => LeafOf(x) = p
    BY LeafBitKinds DEF p
  <2>4. HalfOf(x) = h => ~Covered(LeafOf(x), Q)
    BY <1>3, <2>3
  <2>5. Covered(LeafOf(x), Q \cup {h}) <=> Covered(LeafOf(x), Q)
    BY <1>2, <2>1
  <2>6. /\ IsOcc(x)  => (x \in W <=> Covered(LeafOf(x), Q))
        /\ IsSide(x) => (x \in W <=> HalfOf(x) \in Q \cup {h} \/ Covered(LeafOf(x), Q))
        /\ IsCoal(x) => (x \in W <=> HalfOf(x) \in K)
    BY <2>5, WordBit
  <2>7. /\ IsOcc(x) => x \notin SideMask(h) /\ x \notin CoalMask(h)
        /\ IsSide(x) => (x \in clean <=> x \in W /\ HalfOf(x) # h)
        /\ IsCoal(x) => (x \in clean <=> x \in W /\ HalfOf(x) # h)
    BY <2>2, LeafBitKinds
  <2> HIDE DEF W
  <2>8. CASE HalfOf(x) = h
    BY <2>4, <2>6, <2>7, <2>8
  <2>9. CASE HalfOf(x) # h
    BY <2>6, <2>7, <2>9
  <2> QED
    BY <2>8, <2>9
<1>5. clean \subseteq InnerBits \cup LeafBits
  BY WordBit
<1>6. ASSUME NEW x \in InnerBits
      PROVE  x \in clean <=> \E r \in Q \cup {h} : PosOverlap(x + 1, PosOf(r))
  <2>1. x \notin CoalMask(h) /\ x \notin SideMask(h)
    BY BitFacts DEF CoalMask, SideMask
  <2>2. x \in W <=> \E r \in Q \cup {h} : PosOverlap(x + 1, PosOf(r))
    BY WordBit
  <2> HIDE DEF W
  <2> QED
    BY <2>1, <2>2
<1>7. SideMask(g) \subseteq clean <=> g \in Q
  <2>1. \A x \in SideMask(g) : x \in LeafBits /\ IsSide(x) /\ HalfOf(x) = g /\ LeafOf(x) = p
    BY <1>1, LeafBitKinds DEF SideMask
  <2>2. \A x \in SideMask(g) : x \in clean <=> g \in Q
    BY <1>3, <1>4, <2>1
  <2>3. \E x : x \in SideMask(g)
    BY <1>1, HalfBits
  <2> HIDE DEF clean
  <2> QED
    BY <2>2, <2>3
<1> HIDE DEF clean
<1>8. CASE g \in Q
  <2>1. \A x \in InnerBits : x \in clean <=> \E r \in Q : PosOverlap(x + 1, PosOf(r))
    BY <1>1, <1>6, <1>8
  <2>2. clean = Word(Q, K \ {h})
    BY <2>1, <1>4, <1>5, SameWord
  <2> QED
    BY <1>7, <1>8, <2>2 DEF clean, W, p, g
<1>9. CASE g \notin Q
  <2> DEFINE P == PositionsOf(Q)
             V == WordOf(P \cup {p})
             C == Cleanable(clean, p)
             w == ClearAbove(p, clean)
  <2>1. P \in SUBSET Positions /\ \A r \in Q : PosOf(r) \in Positions
    BY SpotPositions
  <2>2. \A r \in Q : ~PosOverlap(p, PosOf(r))
    BY <1>1, <1>3, <1>9, SpotAtLeaf DEF Covered
  <2>3. \A r \in P : ~PosOverlap(p, r)
    BY <2>2 DEF PositionsOf
  <2>4. ASSUME NEW q \in Positions, q # p
        PROVE  IS_ALLOCABLE(clean, q) <=> IS_ALLOCABLE(V, q)
    <3>1. PositionsOf(Q \cup {h}) = P \cup {p}
      BY <1>1 DEF PositionsOf
    <3>2. IS_ALLOCABLE(V, q) <=> \A r \in P \cup {p} : ~PosOverlap(q, r)
      BY <2>1, <1>1, AllocableInWord
    <3>3. IS_ALLOCABLE(V, q) <=> \A r \in Q \cup {h} : ~PosOverlap(q, PosOf(r))
      BY <3>1, <3>2 DEF PositionsOf
    <3>4. IS_ALLOCABLE(W, q) <=> IS_ALLOCABLE(V, q)
      BY <1>1, <3>3, AllocableAtSpots
    <3>5. IS_ALLOCABLE(clean, q) <=> IS_ALLOCABLE(W, q)
      <4>1. CASE q < LEAF_START_POSITION
        <5>1. NodeMask(q) = {q - 1} /\ q - 1 \in InnerBits
          BY <4>1, NodeMaskBits
        <5>2. q - 1 \in clean <=> q - 1 \in W
          BY <5>1, BitFacts DEF clean, SideMask, CoalMask
        <5> QED
          BY <4>1, <5>1, <5>2 DEF IS_ALLOCABLE
      <4>2. CASE q >= LEAF_START_POSITION
        <5>1. LeafMask(LEAF_FULL_MASK, q) = {x \in LeafBits : LeafOf(x) = q}
          BY <4>2, LeafMaskBits
        <5>2. \A x \in LeafBits : LeafOf(x) = q => HalfOf(x) # h
          BY <2>4, LeafBitKinds DEF p
        <5>3. \A x \in LeafBits : LeafOf(x) = q => (x \in clean <=> x \in W)
          BY <5>2 DEF clean, SideMask, CoalMask
        <5>4. ~(q < LEAF_START_POSITION)
          BY <4>2 DEF LEAF_START_POSITION, Positions
        <5> QED
          BY <5>1, <5>3, <5>4 DEF IS_ALLOCABLE
      <4> QED
        BY <4>1, <4>2 DEF LEAF_START_POSITION, Positions
    <3> QED
      BY <3>4, <3>5
  <2>5. \A q \in AtOrAbove(p) : q > 1 => Brother(q) \in Positions /\ Brother(q) # p
    <3> SUFFICES ASSUME NEW q \in AtOrAbove(p), q > 1
                 PROVE  Brother(q) \in Positions /\ Brother(q) # p
      OBVIOUS
    <3>1. q \in Positions
      BY <1>1, AboveFacts
    <3>2. Brother(q) \in Positions /\ q \notin AtOrAbove(Brother(q))
      BY <3>1, BrotherFacts
    <3> QED
      BY <3>2
  <2>6. Blocked(clean, p) = Blocked(V, p) /\ C = Cleanable(V, p)
    <3> HIDE DEF V
    <3> QED
      BY <1>1, <2>4, <2>5, SameWalk
  <2>7. Blocked(clean, p) = {} <=> Q = {}
    <3>1. Blocked(V, p) = {} <=> P = {}
      BY <1>1, <2>1, <2>3, WalkFree
    <3> QED
      BY <2>6, <3>1 DEF PositionsOf
  <2>8. C \subseteq Above(p) /\ Above(p) \subseteq Positions
    BY <1>1, AboveFacts DEF Cleanable, AtOrAbove
  <2>9. NodeMasks(C) = {x \in InnerBits : x + 1 \in C}
    BY <2>8, MasksBits
  <2>10. \A a \in Above(p) : a \in C <=> \A r \in Q : ~PosOverlap(a, PosOf(r))
    <3>1. \A a \in Above(p) : a \in C <=> \A r \in P : ~PosOverlap(a, r)
      BY <1>1, <2>1, <2>3, <2>6, CleanableInWord
    <3> QED
      BY <3>1 DEF PositionsOf
  <2>11. w = clean \ NodeMasks(C)
    BY DEF ClearAbove
  <2> HIDE DEF w, C, P, V
  <2>12. ASSUME NEW x \in InnerBits
         PROVE  x \in w <=> \E r \in Q : PosOverlap(x + 1, PosOf(r))
    <3> DEFINE q == x + 1
    <3>1. q \in Positions /\ q < LEAF_START_POSITION
      BY BitFacts
    <3>2. PosOverlap(q, p) <=> q \in Above(p)
      <4>1. PosOverlap(p, q) <=> q \in AtOrAbove(p)
        BY <1>1, <3>1, LeafOverlap
      <4>2. q # p
        BY <1>1, <3>1 DEF Positions, LEAF_START_POSITION
      <4>3. PosOverlap(q, p) <=> PosOverlap(p, q)
        BY <1>1, <3>1, OverlapFacts
      <4> QED
        BY <4>1, <4>2, <4>3 DEF AtOrAbove
    <3>3. x \in clean <=> q \in Above(p) \/ \E r \in Q : PosOverlap(q, PosOf(r))
      BY <1>1, <1>6, <3>2
    <3>4. x \in w <=> x \in clean /\ q \notin C
      BY <2>9, <2>11
    <3> HIDE DEF q
    <3>5. CASE q \in Above(p)
      BY <3>3, <3>4, <3>5, <2>10 DEF q
    <3>6. CASE q \notin Above(p)
      BY <3>3, <3>4, <3>6, <2>8 DEF q
    <3> QED
      BY <3>5, <3>6
  <2>13. \A x \in LeafBits : x \in w <=> x \in clean
    BY <2>9, <2>11, BitFacts
  <2>14. \A x \in LeafBits :
           /\ IsOcc(x)  => (x \in w <=> Covered(LeafOf(x), Q))
           /\ IsSide(x) => (x \in w <=> HalfOf(x) \in Q \/ Covered(LeafOf(x), Q))
           /\ IsCoal(x) => (x \in w <=> HalfOf(x) \in K \ {h})
    BY <2>13, <1>4
  <2>15. w \subseteq InnerBits \cup LeafBits
    BY <2>11, <1>5
  <2>16. w = Word(Q, K \ {h})
    BY <2>12, <2>14, <2>15, SameWord
  <2> QED
    BY <1>7, <1>9, <2>7, <2>16 DEF clean, W, p, g, w
<1> QED
  BY <1>8, <1>9

(***************************************************************************)
(* Bunches below bunches.                                                  *)
(***************************************************************************)
Roots == {b \in Nodes : DepthInBunch(b) = 0}

(* The bunch above bunch root c, and the half of a leaf it keeps for c.    *)
Up(c)   == BUNCHROOT(parent_idx_by_idx(c))
Half(c) == 2 * container_pos(parent_idx_by_idx(c)) + (c % 2)

SubBunches(b) == {c \in Roots : c # 1 /\ Up(c) = b}

(* Where a block below b leaves a trace in the word of b. *)
Spot(b, n) ==
  IF BUNCHROOT(n) = b THEN container_pos(n) ELSE Half(CHOOSE c \in SubBunches(b) : Contains(c, n))

SpotsOf(b, S) == {Spot(b, n) : n \in {m \in S : Contains(b, m)}}

(* Paths, as the proofs below use them. *)
LEMMA PathUse ==
  ASSUME NEW n \in Nodes
  PROVE  /\ n \in Path[n] /\ n \in Nat /\ level_by_idx(n) \in Nat /\ level_by_idx(n) >= 1
         /\ \A a \in Path[n] :
              /\ a \in Nodes /\ Path[a] \subseteq Path[n] /\ level_by_idx(a) \in Nat
              /\ level_by_idx(a) <= level_by_idx(n)
              /\ a # n => level_by_idx(a) < level_by_idx(n)
         /\ \A a, b \in Path[n] : level_by_idx(a) <= level_by_idx(b) => a \in Path[b]
<1>1. n \in Indexes /\ n \in Path[n] /\ n \in Nat
  BY SelfOnPath, IndexInterval DEF Indexes
<1>2. \A a \in Path[n] : a \in Nodes /\ Path[a] \subseteq Path[n]
  BY <1>1, PathFacts
<1>3. \A a \in Nodes : level_by_idx(a) \in Nat
  BY LevelFacts DEF Indexes
<1>4. \A a \in Path[n] : a # n => level_by_idx(a) < level_by_idx(n)
  BY LevelOnPath
<1>5. \A a, b \in Path[n] : level_by_idx(a) <= level_by_idx(b) => a \in Path[b]
  BY PathLinear
<1>6. level_by_idx(n) \in 1 .. NUM_LEVELS
  BY LevelRange
<1>7. level_by_idx(n) \in Nat /\ level_by_idx(n) >= 1
  BY <1>6
<1>8. \A a \in Path[n] : level_by_idx(a) <= level_by_idx(n)
  BY <1>2, <1>3, <1>4, <1>7
<1> QED
  BY <1>1, <1>2, <1>3, <1>4, <1>5, <1>7, <1>8

(* The roots of bunches are four levels apart. *)
LEMMA RootLevel ==
  ASSUME NEW b \in Roots
  PROVE  /\ b \in Nodes /\ BUNCHROOT(b) = b /\ container_pos(b) = 1
         /\ level_by_idx(b) \in Nat /\ level_by_idx(b) >= 1 /\ level_by_idx(b) % 4 = 1
<1>1. b \in Nodes /\ DepthInBunch(b) = 0
  BY DEF Roots
<1>2. level_by_idx(b) \in Nat /\ level_by_idx(b) >= 1 /\ (level_by_idx(b) - 1) % 4 = 0
  BY <1>1, PathUse DEF DepthInBunch, LEVEL_PER_CONTAINER
<1> QED
  BY <1>1, <1>2, BunchStep

LEMMA RootOf ==
  ASSUME NEW n \in Nodes
  PROVE  /\ BUNCHROOT(n) \in Roots /\ BUNCHROOT(n) \in Path[n]
         /\ level_by_idx(n) - level_by_idx(BUNCHROOT(n)) \in 0 .. 3
<1>1. /\ BUNCHROOT(n) \in Path[n] /\ DepthInBunch(BUNCHROOT(n)) = 0
      /\ level_by_idx(n) = level_by_idx(BUNCHROOT(n)) + DepthInBunch(n)
      /\ DepthInBunch(n) \in 0 .. 3
  BY InBunch, BunchStep
<1>2. BUNCHROOT(n) \in Nodes /\ level_by_idx(BUNCHROOT(n)) \in Nat
  BY <1>1, PathUse
<1> QED
  BY <1>1, <1>2 DEF Roots

(* The leaf above a bunch root. *)
LEMMA UpFacts ==
  ASSUME NEW c \in Roots, c # 1
  PROVE  LET p == parent_idx_by_idx(c)
         IN /\ p \in Nodes /\ p \in Path[c] /\ p # c
            /\ Up(c) \in Roots /\ Up(c) \in Path[c] /\ Up(c) \in Path[p] /\ BUNCHROOT(p) = Up(c)
            /\ Up(c) # c
            /\ level_by_idx(c) = level_by_idx(Up(c)) + 4 /\ level_by_idx(p) = level_by_idx(Up(c)) + 3
            /\ container_pos(p) \in Positions /\ container_pos(p) >= LEAF_START_POSITION
            /\ Half(c) \in Halves /\ Half(c) \div 2 = container_pos(p) /\ Half(c) % 2 = c % 2
            /\ c = 2 * p + (c % 2)
<1> DEFINE p == parent_idx_by_idx(c)
<1>1. c \in Nodes /\ c \in Nat /\ c # 0 /\ c # 1 /\ level_by_idx(c) % 4 = 1
  BY RootLevel, PathUse, IndexInterval DEF Nodes
<1>2. p # 0 /\ p = c \div 2
  BY <1>1 DEF parent_idx_by_idx
<1>3. p \in Nodes /\ p \in Path[c] /\ p < c
  BY <1>1, <1>2, ParentOnPath, IndexInterval
<1>4. level_by_idx(c) = level_by_idx(p) + 1 /\ level_by_idx(p) \in Nat /\ level_by_idx(p) >= 1
  BY <1>1, <1>3, LevelFacts, PathUse
<1>5. p # c
  BY <1>1, <1>3, <1>4
<1> HIDE DEF p
<1>6. DepthInBunch(p) = 3
  BY <1>1, <1>4 DEF DepthInBunch, LEVEL_PER_CONTAINER
<1>7. /\ Up(c) \in Path[p] /\ DepthInBunch(Up(c)) = 0
      /\ level_by_idx(p) = level_by_idx(Up(c)) + 3 /\ container_pos(p) \in 8 .. 15
  <2>1. /\ Up(c) \in Path[p] /\ DepthInBunch(Up(c)) = 0
        /\ level_by_idx(p) = level_by_idx(Up(c)) + 3
        /\ container_pos(p) \in 2^3 .. (2 * 2^3 - 1)
    BY <1>3, <1>6, InBunch DEF Up, p
  <2> QED
    BY <2>1, Powers
<1>8. Up(c) \in Roots /\ Up(c) \in Path[c] /\ level_by_idx(Up(c)) \in Nat
  BY <1>1, <1>3, <1>7, PathUse DEF Roots
<1>9. level_by_idx(c) = level_by_idx(Up(c)) + 4
  BY <1>4, <1>7, <1>8
<1>10. Up(c) # c
  BY <1>8, <1>9
<1>11. container_pos(p) \in Positions /\ container_pos(p) >= LEAF_START_POSITION
  BY <1>7 DEF Positions, LEAF_START_POSITION
<1>12. Half(c) \in Halves /\ Half(c) \div 2 = container_pos(p) /\ Half(c) % 2 = c % 2
  <2>1. Half(c) = 2 * container_pos(p) + (c % 2)
    BY DEF Half, p
  <2> DEFINE q == container_pos(p)
             i == c % 2
  <2>2. q \in 8 .. 15 /\ i \in 0 .. 1
    BY <1>1, <1>7
  <2> HIDE DEF q, i
  <2>3. 2 * q + i \in 16 .. 31 /\ (2 * q + i) \div 2 = q /\ (2 * q + i) % 2 = i
    BY <2>2
  <2> QED
    BY <2>1, <2>3 DEF q, i, Halves
<1>13. c = 2 * p + (c % 2)
  BY <1>1, <1>2
<1> QED
  BY <1>3, <1>5, <1>7, <1>8, <1>9, <1>10, <1>11, <1>12, <1>13 DEF p, Up

(* Roots on one branch. *)
LEMMA RootsOnPath ==
  ASSUME NEW b \in Roots, NEW c \in Roots, b \in Path[c], b # c
  PROVE  c # 1 /\ b \in Path[Up(c)] /\ level_by_idx(b) + 4 <= level_by_idx(c)
<1>1. b \in Nodes /\ c \in Nodes
  BY RootLevel
<1>2. level_by_idx(b) < level_by_idx(c)
  BY <1>1, PathUse
<1>3. level_by_idx(b) + 4 <= level_by_idx(c)
  BY <1>2, RootLevel
<1>4. c # 1
  <2>1. level_by_idx(1) <= 1
    <3>1. c = 1 => level_by_idx(c) <= c
      BY <1>1, LevelBound DEF Indexes
    <3>2. b \in Nodes => level_by_idx(b) >= 1
      BY RootLevel
    <3>3. 1 \in Nodes
      <4>1. 1 <= c /\ c <= number_of_nodes /\ number_of_nodes \in Int
        BY <1>1, TreePowers DEF Nodes
      <4> QED
        BY <4>1, <1>1, TreePowers DEF Nodes
    <3> QED
      BY <3>3, LevelBound DEF Indexes
  <2> QED
    BY <1>3, <2>1, RootLevel
<1>5. Up(c) \in Path[c] /\ level_by_idx(c) = level_by_idx(Up(c)) + 4 /\ Up(c) \in Roots
  BY <1>4, UpFacts
<1>6. level_by_idx(b) <= level_by_idx(Up(c))
  BY <1>3, <1>5, RootLevel
<1> QED
  BY <1>1, <1>3, <1>4, <1>5, <1>6, PathUse

(* A bunch root above a node is above, or is, the root of its bunch. *)
LEMMA RootAboveNode ==
  ASSUME NEW n \in Nodes, NEW b \in Roots, b \in Path[n]
  PROVE  b \in Path[BUNCHROOT(n)]
<1>1. /\ BUNCHROOT(n) \in Roots /\ BUNCHROOT(n) \in Path[n]
      /\ level_by_idx(n) - level_by_idx(BUNCHROOT(n)) \in 0 .. 3
  BY RootOf
<1>2. level_by_idx(b) <= level_by_idx(n) /\ level_by_idx(n) \in Nat
  BY PathUse
<1> DEFINE l == level_by_idx(b)
           k == level_by_idx(BUNCHROOT(n))
<1>3. l \in Nat /\ k \in Nat /\ l % 4 = 1 /\ k % 4 = 1
  BY <1>1, RootLevel
<1>4. l <= k
  <2> DEFINE m == level_by_idx(n)
  <2>1. m \in Nat /\ l <= m /\ m - k \in 0 .. 3
    BY <1>1, <1>2
  <2> HIDE DEF l, k, m
  <2> QED
    BY <2>1, <1>3
<1> QED
  BY <1>1, <1>4, PathUse

(* A node below a bunch and not in it is below one of its sub-bunches... *)
LEMMA SubBunchAbove ==
  ASSUME NEW b \in Roots, NEW n \in Nodes, b \in Path[n], BUNCHROOT(n) # b
  PROVE  \E c \in SubBunches(b) : c \in Path[n]
<1> DEFINE T == {c \in Roots : c \in Path[n] /\ b \in Path[c] /\ c # b}
<1>1. BUNCHROOT(n) \in T
  BY RootOf, RootAboveNode
<1>2. T \subseteq Nat
  BY RootLevel, PathUse
<1>3. PICK c \in T : \A d \in T : ~(d < c)
  <2> HIDE DEF T
  <2> QED
    BY <1>1, <1>2, LeastElement
<1>4. c # 1 /\ b \in Path[Up(c)]
  BY <1>3, RootsOnPath
<1>5. /\ Up(c) \in Roots /\ Up(c) \in Path[c] /\ Up(c) # c
  BY <1>3, <1>4, UpFacts
<1>6. Up(c) \in Path[n]
  BY <1>3, <1>5, PathUse
<1>7. Up(c) < c
  <2>1. c \in Indexes /\ c \in Nat /\ Up(c) \in Nat
    BY <1>3, <1>5, <1>2, RootLevel, PathUse DEF Indexes
  <2>2. Up(c) <= c
    BY <2>1, <1>5, PathFacts
  <2> QED
    BY <2>1, <2>2, <1>5
<1>8. Up(c) = b
  BY <1>3, <1>4, <1>5, <1>6, <1>7
<1> QED
  BY <1>3, <1>4, <1>8 DEF SubBunches

(* ... and of one only, as its half tells. *)
LEMMA SubBunchesApart ==
  ASSUME NEW b \in Roots, NEW c \in SubBunches(b), NEW d \in SubBunches(b)
  PROVE  /\ Half(c) = Half(d) => c = d
         /\ \A n \in Nodes : c \in Path[n] /\ d \in Path[n] => c = d
<1>1. c \in Roots /\ c # 1 /\ Up(c) = b /\ d \in Roots /\ d # 1 /\ Up(d) = b
  BY DEF SubBunches
<1>2. ASSUME Half(c) = Half(d)
      PROVE  c = d
  <2> DEFINE p == parent_idx_by_idx(c)
             q == parent_idx_by_idx(d)
  <2>1. /\ p \in Nodes /\ BUNCHROOT(p) = b /\ container_pos(p) = Half(c) \div 2
        /\ c = 2 * p + (c % 2) /\ c % 2 = Half(c) % 2
    BY <1>1, UpFacts
  <2>2. /\ q \in Nodes /\ BUNCHROOT(q) = b /\ container_pos(q) = Half(d) \div 2
        /\ d = 2 * q + (d % 2) /\ d % 2 = Half(d) % 2
    BY <1>1, UpFacts
  <2>3. p = q
    BY <2>1, <2>2, <1>2, OneNodeAt
  <2> QED
    BY <2>1, <2>2, <2>3, <1>2
<1>3. ASSUME NEW n \in Nodes, c \in Path[n], d \in Path[n]
      PROVE  c = d
  <2>1. level_by_idx(c) = level_by_idx(d) /\ level_by_idx(c) \in Nat /\ d \in Nodes
    BY <1>1, UpFacts, RootLevel
  <2>2. c \in Path[d]
    BY <2>1, <1>3, PathUse
  <2> QED
    BY <2>1, <2>2, PathUse
<1> QED
  BY <1>2, <1>3

(* The spot of a block below a bunch. *)
LEMMA SpotFacts ==
  ASSUME NEW b \in Roots, NEW n \in Nodes, b \in Path[n]
  PROVE  /\ Spot(b, n) \in Spots
         /\ BUNCHROOT(n) = b => Spot(b, n) = container_pos(n) /\ Spot(b, n) \in Positions /\ Spot(b, n) \notin Halves
         /\ BUNCHROOT(n) # b => Spot(b, n) \in Halves /\ Spot(b, n) \notin Positions
         /\ \A c \in SubBunches(b) : c \in Path[n] <=> Spot(b, n) = Half(c)
<1>1. \A r \in Positions : r \notin Halves
  BY DEF Positions, Halves
<1>2. \A c \in SubBunches(b) : c \in Roots /\ c # 1 /\ Up(c) = b /\ Half(c) \in Halves
  BY UpFacts DEF SubBunches
<1>3. CASE BUNCHROOT(n) = b
  <2>1. Spot(b, n) = container_pos(n) /\ Spot(b, n) \in Positions
    BY <1>3, PositionOf DEF Spot
  <2>2. ASSUME NEW c \in SubBunches(b), c \in Path[n]
        PROVE  FALSE
    <3>1. c \in Path[b]
      BY <1>2, <1>3, <2>2, RootAboveNode
    <3>2. b \in Nodes /\ level_by_idx(c) = level_by_idx(b) + 4 /\ level_by_idx(b) \in Nat
      BY <1>2, <2>2, UpFacts, RootLevel
    <3> QED
      BY <3>1, <3>2, PathUse
  <2> QED
    BY <1>1, <1>2, <1>3, <2>1, <2>2 DEF Spots
<1>4. CASE BUNCHROOT(n) # b
  <2> DEFINE d == CHOOSE c \in SubBunches(b) : Contains(c, n)
  <2>1. d \in SubBunches(b) /\ d \in Path[n]
    BY <1>4, SubBunchAbove DEF Contains
  <2>2. Spot(b, n) = Half(d)
    BY <1>4 DEF Spot
  <2> HIDE DEF d
  <2>3. \A c \in SubBunches(b) : c \in Path[n] <=> Half(d) = Half(c)
    BY <2>1, SubBunchesApart
  <2>4. Half(d) \in Halves
    BY <1>2, <2>1
  <2> QED
    BY <1>1, <1>4, <2>2, <2>3, <2>4 DEF Spots
<1> QED
  BY <1>3, <1>4

(* The spots of a set of blocks. *)
LEMMA SpotsFacts ==
  ASSUME NEW b \in Roots, NEW S \in SUBSET Nodes
  PROVE  /\ SpotsOf(b, S) \in SUBSET Spots
         /\ SpotsOf(b, S) = {} <=> \A m \in S : b \notin Path[m]
         /\ \A n \in Nodes :
              /\ b \in Path[n] => SpotsOf(b, S \cup {n}) = SpotsOf(b, S) \cup {Spot(b, n)}
              /\ b \notin Path[n] => SpotsOf(b, S \cup {n}) = SpotsOf(b, S)
         /\ \A c \in SubBunches(b) : Half(c) \in SpotsOf(b, S) <=> \E m \in S : c \in Path[m]
<1>1. \A c \in SubBunches(b), m \in Nodes : c \in Path[m] => b \in Path[m]
  <2> SUFFICES ASSUME NEW c \in SubBunches(b), NEW m \in Nodes, c \in Path[m]
               PROVE  b \in Path[m]
    OBVIOUS
  <2>1. b \in Path[c]
    BY UpFacts DEF SubBunches
  <2> QED
    BY <2>1, PathUse
<1>2. SpotsOf(b, S) \in SUBSET Spots
  BY SpotFacts DEF SpotsOf, Contains
<1>3. SpotsOf(b, S) = {} <=> \A m \in S : b \notin Path[m]
  BY DEF SpotsOf, Contains
<1>4. ASSUME NEW n \in Nodes
      PROVE  /\ b \in Path[n] => SpotsOf(b, S \cup {n}) = SpotsOf(b, S) \cup {Spot(b, n)}
             /\ b \notin Path[n] => SpotsOf(b, S \cup {n}) = SpotsOf(b, S)
  BY DEF SpotsOf, Contains
<1>5. ASSUME NEW c \in SubBunches(b)
      PROVE  Half(c) \in SpotsOf(b, S) <=> \E m \in S : c \in Path[m]
  <2>1. \A m \in S : b \in Path[m] => (c \in Path[m] <=> Spot(b, m) = Half(c))
    BY SpotFacts
  <2>2. \A m \in S : c \in Path[m] => b \in Path[m]
    BY <1>1
  <2> QED
    BY <2>1, <2>2 DEF SpotsOf, Contains
<1> QED
  BY <1>2, <1>3, <1>4, <1>5

(* A node of a bunch overlaps a block below the bunch exactly if the       *)
(* position of the one overlaps that of the spot of the other. *)
LEMMA OverlapAtSpot ==
  ASSUME NEW a \in Nodes, NEW b \in Roots, BUNCHROOT(a) = b, NEW n \in Nodes, b \in Path[n]
  PROVE  Overlap(a, n) <=> PosOverlap(container_pos(a), PosOf(Spot(b, n)))
<1>0. \A r \in Positions : PosOf(r) = r
  BY DEF PosOf, Positions, Halves
<1>1. CASE BUNCHROOT(n) = b
  <2>1. Spot(b, n) = container_pos(n) /\ container_pos(n) \in Positions
    BY <1>1, SpotFacts
  <2>2. /\ a \in Path[n] <=> container_pos(a) \in AtOrAbove(container_pos(n))
        /\ n \in Path[a] <=> container_pos(n) \in AtOrAbove(container_pos(a))
    BY <1>1, PathInBunch
  <2> QED
    BY <1>0, <2>1, <2>2 DEF Overlap, Contains, PosOverlap
<1>2. CASE BUNCHROOT(n) # b
  <2>1. PICK c \in SubBunches(b) : c \in Path[n]
    BY <1>2, SubBunchAbove
  <2> DEFINE p == parent_idx_by_idx(c)
             l == container_pos(p)
  <2>2. c \in Roots /\ c # 1 /\ Up(c) = b
    BY DEF SubBunches
  <2>3. /\ p \in Nodes /\ p \in Path[c] /\ BUNCHROOT(p) = b
        /\ level_by_idx(c) = level_by_idx(b) + 4 /\ level_by_idx(p) = level_by_idx(b) + 3
        /\ l \in Positions /\ l >= LEAF_START_POSITION
        /\ Half(c) \in Halves /\ Half(c) \div 2 = l
    BY <2>2, UpFacts
  <2>4. PosOf(Spot(b, n)) = l
    BY <2>1, <2>3, SpotFacts DEF PosOf
  <2> HIDE DEF p, l
  <2>5. level_by_idx(a) <= level_by_idx(b) + 3 /\ level_by_idx(b) \in Nat /\ level_by_idx(a) \in Nat
    BY RootOf, RootLevel, PathUse
  <2>6. n \notin Path[a]
    <3>1. level_by_idx(c) <= level_by_idx(n) /\ level_by_idx(n) \in Nat
      BY <2>1, PathUse
    <3>2. n \in Path[a] => level_by_idx(n) <= level_by_idx(a)
      BY PathUse
    <3> QED
      BY <3>1, <3>2, <2>3, <2>5
  <2>7. p \in Path[n]
    BY <2>1, <2>2, <2>3, PathUse
  <2>8. a \in Path[n] <=> a \in Path[p]
    <3>1. a \in Path[p] => a \in Path[n]
      BY <2>7, PathUse
    <3>2. a \in Path[n] => a \in Path[p]
      BY <2>3, <2>5, <2>7, PathUse
    <3> QED
      BY <3>1, <3>2
  <2>9. a \in Path[p] <=> container_pos(a) \in AtOrAbove(l)
    BY <2>3, PathInBunch DEF l
  <2>10. container_pos(a) \in Positions
    BY PositionOf
  <2>11. PosOverlap(container_pos(a), l) <=> container_pos(a) \in AtOrAbove(l)
    BY <2>3, <2>10, LeafOverlap, OverlapFacts
  <2> QED
    BY <2>4, <2>6, <2>8, <2>9, <2>11 DEF Overlap, Contains
<1> QED
  BY <1>1, <1>2

(* The leaf above a sub-bunch is covered by a block above the leaf. *)
LEMMA CoveredSpots ==
  ASSUME NEW b \in Roots, NEW S \in SUBSET Nodes, NEW c \in SubBunches(b)
  PROVE  Covered(container_pos(parent_idx_by_idx(c)), SpotsOf(b, S))
           <=> \E m \in S : BUNCHROOT(m) = b /\ m \in Path[parent_idx_by_idx(c)]
<1> DEFINE p == parent_idx_by_idx(c)
<1>1. p \in Nodes /\ BUNCHROOT(p) = b /\ container_pos(p) \in Positions
  BY UpFacts DEF SubBunches
<1> HIDE DEF p
<1>2. ASSUME NEW r \in SpotsOf(b, S), r \in AtOrAbove(container_pos(p))
      PROVE  \E m \in S : BUNCHROOT(m) = b /\ m \in Path[p]
  <2>1. PICK m \in S : b \in Path[m] /\ r = Spot(b, m)
    BY DEF SpotsOf, Contains
  <2>2. r \in Positions
    BY <1>1, <1>2, AboveFacts
  <2>3. BUNCHROOT(m) = b /\ r = container_pos(m)
    BY <2>1, <2>2, SpotFacts
  <2>4. m \in Path[p]
    BY <1>1, <1>2, <2>3, PathInBunch
  <2> QED
    BY <2>3, <2>4
<1>3. ASSUME NEW m \in S, BUNCHROOT(m) = b, m \in Path[p]
      PROVE  \E r \in SpotsOf(b, S) : r \in AtOrAbove(container_pos(p))
  <2>1. b \in Path[m]
    BY <1>3, RootOf
  <2>2. Spot(b, m) = container_pos(m) /\ Spot(b, m) \in SpotsOf(b, S)
    BY <1>3, <2>1, SpotFacts DEF SpotsOf, Contains
  <2>3. container_pos(m) \in AtOrAbove(container_pos(p))
    BY <1>1, <1>3, PathInBunch
  <2> QED
    BY <2>2, <2>3
<1> QED
  BY <1>2, <1>3 DEF Covered, p

(* Blocks below one bunch have one spot in every bunch above it. *)
LEMMA SharedSpot ==
  ASSUME NEW b \in Roots, NEW e \in Roots, e \in Path[b], e # b,
         NEW n \in Nodes, b \in Path[n]
  PROVE  \E c \in SubBunches(e) : Spot(e, n) = Half(c) /\ c \in Path[b]
<1>1. b \in Nodes /\ BUNCHROOT(b) = b
  BY RootLevel
<1>2. PICK c \in SubBunches(e) : c \in Path[b]
  BY <1>1, SubBunchAbove
<1>3. c \in Path[n] /\ e \in Path[n]
  BY <1>2, PathUse
<1> QED
  BY <1>2, <1>3, SpotFacts

(***************************************************************************)
(* What the words W say of the blocks S.                                   *)
(***************************************************************************)

(* The word of e has the bits of S, and coalescing bits only beside them.  *)
Shows(W, e, S) ==
  W[e] = Word(SpotsOf(e, S), Coal(W[e])) /\ Coal(W[e]) \subseteq SpotsOf(e, S)

(* The coalescing bit that the bunch above e keeps for e is set.           *)
Marked(W, e) == Half(e) \in Coal(W[Up(e)])

(* The marks of a release reach beyond e if only marked bits are in e.     *)
Linked(W, e, S) ==
  SpotsOf(e, S) # {} /\ SpotsOf(e, S) \subseteq Coal(W[e]) => Marked(W, e)

ExactTree(W, S) ==
  \A e \in Bunches : Shows(W, e, S) /\ (level_by_idx(e) > max_level => Linked(W, e, S))

BlocksApart(S) == \A m, k \in S : m # k => ~Overlap(m, k)

(* An allocation of n has marked the branch up to bunch b. *)
ClimbInv(W, S, n, b) ==
  /\ n \notin S
  /\ \A m \in S : b \in Path[m] => ~Overlap(m, n)
  /\ \A e \in Bunches :
       IF b \in Path[e] /\ e \in Path[n]
       THEN /\ Shows(W, e, S \cup {n})
            /\ \A c \in SubBunches(e) : c \in Path[n] => ~Marked(W, c)
       ELSE Shows(W, e, S) /\ (level_by_idx(e) > max_level => Linked(W, e, S))

GrantInv(W, S, n) == (\A m \in S : ~Overlap(m, n)) /\ ExactTree(W, S \cup {n})

(* The bunches a release of n up to level u writes. *)
ReleaseBunches(n, u) == {e \in Bunches : e \in Path[n] /\ level_by_idx(e) + 4 > u}

(* f # 0: a rollback, below which nothing is held. *)
ReleaseInv(S, n, u, f) ==
  /\ n \notin S /\ BUNCHROOT(n) \in ReleaseBunches(n, u)
  /\ u \in Nat /\ u >= max_level /\ (f = 0 => u = max_level)
  /\ \A e \in ReleaseBunches(n, u), m \in S : e \in Path[m] => ~Overlap(m, n) /\ f = 0

Shown(S, n, u, e) == IF e \in ReleaseBunches(n, u) THEN S \cup {n} ELSE S

(* The marking has reached b. *)
MarcaInv(W, S, n, u, b) ==
  /\ level_by_idx(b) > u
  /\ b # BUNCHROOT(n) => Marked(W, BUNCHROOT(n))
  /\ \A e \in Bunches :
       /\ Shows(W, e, Shown(S, n, u, e))
       /\ level_by_idx(e) > max_level /\ e # b /\ ~(e \in ReleaseBunches(n, u) /\ level_by_idx(e) <= u)
            => Linked(W, e, Shown(S, n, u, e))

LiberaInv(W, S, n, u) ==
  /\ level_by_idx(BUNCHROOT(n)) > u => Marked(W, BUNCHROOT(n))
  /\ \A e \in Bunches :
       /\ Shows(W, e, Shown(S, n, u, e))
       /\ level_by_idx(e) > max_level /\ ~(e \in ReleaseBunches(n, u) /\ level_by_idx(e) <= u)
            => Linked(W, e, Shown(S, n, u, e))

(* The bits of n are out of the bunches up to b. *)
Cleared(S, n, u, b, e) == IF e \in ReleaseBunches(n, u) /\ b \notin Path[e] THEN S \cup {n} ELSE S

Swept(W, S, n, u, b) ==
  \A e \in Bunches :
    /\ Shows(W, e, Cleared(S, n, u, b, e))
    /\ level_by_idx(e) > max_level /\ ~(e \in ReleaseBunches(n, u) /\ level_by_idx(e) <= u)
         => Linked(W, e, Cleared(S, n, u, b, e))

SmarcaInv(W, S, n, u, b) ==
  /\ level_by_idx(b) > u /\ Marked(W, b)
  /\ \A m \in S : b \notin Path[m]
  /\ Swept(W, S, n, u, b)

(***************************************************************************)
(* The bunches of a branch.                                                *)
(***************************************************************************)
LEMMA BunchFacts ==
  ASSUME NEW e \in Bunches
  PROVE  /\ e \in Roots /\ e \in Nodes /\ BUNCHROOT(e) = e
         /\ level_by_idx(e) \in Nat /\ level_by_idx(e) + 4 > max_level
         /\ level_by_idx(e) > max_level =>
              e # 1 /\ Up(e) \in Bunches /\ Up(e) # e /\ e \in SubBunches(Up(e)) /\ Up(e) \in Path[e]
<1>1. PICK a \in Allocable, n \in Targets : a \in Path[n] /\ e = BUNCHROOT(a)
  BY DEF Bunches
<1>2. a \in Nodes /\ level_by_idx(a) >= max_level /\ level_by_idx(a) \in Nat /\ n \in Nodes
  BY <1>1, PathUse, TargetFacts DEF Allocable
<1>3. e \in Roots /\ e \in Path[a] /\ level_by_idx(a) - level_by_idx(e) \in 0 .. 3
  BY <1>1, <1>2, RootOf
<1>4. e \in Nodes /\ BUNCHROOT(e) = e /\ level_by_idx(e) \in Nat /\ e \in Path[n]
  BY <1>1, <1>2, <1>3, RootLevel, PathUse
<1>5. level_by_idx(e) + 4 > max_level
  BY <1>2, <1>3, <1>4, MaxLevel
<1>6. ASSUME level_by_idx(e) > max_level
      PROVE  e # 1 /\ Up(e) \in Bunches /\ Up(e) # e /\ e \in SubBunches(Up(e)) /\ Up(e) \in Path[e]
  <2>1. parent_idx_by_idx(e) # 0 /\ Up(e) \in Bunches
    BY <1>4, <1>6, UpOneBunch DEF Up
  <2>2. e # 1
    BY <2>1 DEF parent_idx_by_idx
  <2> QED
    BY <2>1, <2>2, <1>3, UpFacts DEF SubBunches
<1> QED
  BY <1>3, <1>4, <1>5, <1>6

(* Two bunches of a branch are one above the other. *)
LEMMA OneAbove ==
  ASSUME NEW n \in Nodes, NEW b \in Bunches, b \in Path[n], NEW e \in Bunches, e \in Path[n]
  PROVE  /\ e \in Path[b] \/ b \in Path[e]
         /\ e \in Path[b] /\ b \in Path[e] => e = b
         /\ e \in Path[b] /\ e # b => /\ level_by_idx(e) + 4 <= level_by_idx(b)
                                      /\ e \in Path[Up(b)] /\ b \notin Path[e]
         /\ e \in Path[b] /\ level_by_idx(b) <= max_level => e = b
<1>1. /\ b \in Roots /\ e \in Roots /\ b \in Nodes /\ e \in Nodes
      /\ level_by_idx(b) \in Nat /\ level_by_idx(e) \in Nat /\ level_by_idx(e) + 4 > max_level
  BY BunchFacts
<1>2. e \in Path[b] \/ b \in Path[e]
  <2>1. level_by_idx(e) <= level_by_idx(b) \/ level_by_idx(b) <= level_by_idx(e)
    BY <1>1
  <2> QED
    BY <2>1, PathUse
<1>3. e \in Path[b] /\ e # b => level_by_idx(e) + 4 <= level_by_idx(b) /\ e \in Path[Up(b)]
  BY <1>1, RootsOnPath
<1>4. b \in Path[e] /\ e # b => level_by_idx(b) + 4 <= level_by_idx(e)
  BY <1>1, RootsOnPath
<1>5. e \in Path[b] /\ b \in Path[e] => e = b
  BY <1>1, <1>3, <1>4
<1>6. e \in Path[b] /\ level_by_idx(b) <= max_level => e = b
  BY <1>1, <1>3, MaxLevel
<1> QED
  BY <1>2, <1>3, <1>5, <1>6

(* The bunch of a node is the lowest of its branch. *)
LEMMA LowestBunch ==
  ASSUME NEW n \in Targets, NEW e \in Bunches, e \in Path[n]
  PROVE  /\ n \in Nodes /\ BUNCHROOT(n) \in Bunches /\ BUNCHROOT(n) \in Path[n]
         /\ e \in Path[BUNCHROOT(n)]
         /\ BUNCHROOT(n) \in Path[e] => e = BUNCHROOT(n)
<1>1. n \in Nodes /\ BUNCHROOT(n) \in Bunches /\ BUNCHROOT(n) \in Path[n] /\ e \in Roots
  BY TargetFacts, BunchFacts
<1>2. e \in Path[BUNCHROOT(n)]
  BY <1>1, RootAboveNode
<1> QED
  BY <1>1, <1>2, OneAbove

(* A block outside a bunch leaves no trace in it. *)
LEMMA OutsideBunch ==
  ASSUME NEW S \in SUBSET Targets, NEW n \in Targets, NEW e \in Bunches
  PROVE  /\ e \notin Path[n] => SpotsOf(e, S \cup {n}) = SpotsOf(e, S)
         /\ e \in Path[n] => SpotsOf(e, S \cup {n}) = SpotsOf(e, S) \cup {Spot(e, n)}
         /\ SpotsOf(e, S) \in SUBSET Spots
         /\ SpotsOf(e, S) = {} <=> \A m \in S : e \notin Path[m]
<1>1. S \in SUBSET Nodes /\ n \in Nodes /\ e \in Roots
  BY TargetFacts, BunchFacts
<1> QED
  BY <1>1, SpotsFacts

(* The bits of a word shown are where they have to be. *)
LEMMA ShownWord ==
  ASSUME NEW W, NEW S \in SUBSET Targets, NEW e \in Bunches, Shows(W, e, S)
  PROVE  /\ W[e] = Word(SpotsOf(e, S), Coal(W[e]))
         /\ SpotsOf(e, S) \in SUBSET Spots
         /\ Coal(W[e]) \in SUBSET Halves /\ Coal(W[e]) \subseteq SpotsOf(e, S)
<1>1. SpotsOf(e, S) \in SUBSET Spots
  <2>1. S \in SUBSET Nodes /\ e \in Roots
    BY TargetFacts, BunchFacts
  <2> QED
    BY <2>1, SpotsFacts
<1> QED
  BY <1>1 DEF Shows, Coal

(***************************************************************************)
(* The steps of an allocation.                                             *)
(***************************************************************************)

(* A node is found allocable exactly if no block below its bunch overlaps  *)
(* it. *)
LEMMA TakeTest ==
  ASSUME NEW W, NEW S \in SUBSET Targets, NEW n \in Targets, Shows(W, BUNCHROOT(n), S)
  PROVE  IS_ALLOCABLE(W[BUNCHROOT(n)], container_pos(n))
           <=> \A m \in S : BUNCHROOT(n) \in Path[m] => ~Overlap(m, n)
<1> DEFINE b == BUNCHROOT(n)
           Q == SpotsOf(b, S)
           K == Coal(W[b])
<1>1. n \in Nodes /\ b \in Bunches /\ b \in Roots /\ container_pos(n) \in Positions
  BY TargetFacts, BunchFacts
<1>2. W[b] = Word(Q, K) /\ Q \in SUBSET Spots /\ K \in SUBSET Halves /\ K \subseteq Q
  BY <1>1, ShownWord
<1>3. \A m \in S : b \in Path[m] => (Overlap(n, m) <=> PosOverlap(container_pos(n), PosOf(Spot(b, m))))
  BY <1>1, OverlapAtSpot, TargetFacts
<1> HIDE DEF K
<1>4. IS_ALLOCABLE(W[b], container_pos(n)) <=> \A r \in Q : ~PosOverlap(container_pos(n), PosOf(r))
  <2> HIDE DEF Q
  <2> QED
    BY <1>1, <1>2, AllocableAtSpots
<1>5. (\A r \in Q : ~PosOverlap(container_pos(n), PosOf(r)))
        <=> \A m \in S : b \in Path[m] => ~PosOverlap(container_pos(n), PosOf(Spot(b, m)))
  BY DEF SpotsOf, Contains
<1> QED
  BY <1>3, <1>4, <1>5 DEF Overlap

(* The CAS of alloc starts the climb. *)
LEMMA TakeStep ==
  ASSUME NEW W \in [Bunches -> SUBSET WordBits], NEW S \in SUBSET Targets, NEW n \in Targets,
         ExactTree(W, S), IS_ALLOCABLE(W[BUNCHROOT(n)], container_pos(n)),
         NEW V, V = [W EXCEPT ![BUNCHROOT(n)] = occupa_container(container_pos(n), @)]
  PROVE  ClimbInv(V, S, n, BUNCHROOT(n))
<1> DEFINE b == BUNCHROOT(n)
           pos == container_pos(n)
           K == Coal(W[b])
<1>1. n \in Nodes /\ n \in Path[n] /\ b \in Bunches /\ b \in Path[n] /\ b \in Roots /\ pos \in Positions
  BY TargetFacts, BunchFacts
<1>2. Shows(W, b, S)
  BY <1>1 DEF ExactTree
<1>3. \A m \in S : b \in Path[m] => ~Overlap(m, n)
  BY <1>2, TakeTest
<1>4. n \notin S
  BY <1>1, <1>3 DEF Overlap, Contains
<1>5. V[b] = occupa_container(pos, W[b]) /\ \A e \in Bunches : e # b => V[e] = W[e]
  BY <1>1
<1>6. Spot(b, n) = pos /\ SpotsOf(b, S \cup {n}) = SpotsOf(b, S) \cup {pos}
  BY <1>1, SpotFacts, OutsideBunch
<1>7. /\ W[b] = Word(SpotsOf(b, S), K) /\ SpotsOf(b, S) \in SUBSET Spots
      /\ K \in SUBSET Halves /\ K \subseteq SpotsOf(b, S)
  BY <1>1, <1>2, ShownWord
<1>8. Shows(V, b, S \cup {n}) /\ Coal(V[b]) = K
  <2>1. V[b] = Word(SpotsOf(b, S \cup {n}), K) /\ K \subseteq SpotsOf(b, S \cup {n})
    <3> HIDE DEF K, pos
    <3> QED
      BY <1>1, <1>5, <1>6, <1>7, WordTakes
  <2>2. K \in SUBSET Halves
    BY <1>7
  <2> HIDE DEF K, b
  <2>3. Coal(V[b]) = K
    BY <2>1, <2>2, CoalOfWord
  <2> QED
    BY <2>1, <2>3 DEF Shows
<1>9. \A e \in Bunches : Coal(V[e]) = Coal(W[e])
  BY <1>5, <1>8
<1>10. ASSUME NEW e \in Bunches, b \in Path[e], e \in Path[n]
       PROVE  /\ Shows(V, e, S \cup {n})
              /\ \A c \in SubBunches(e) : c \in Path[n] => ~Marked(V, c)
  <2>1. e = b
    BY <1>10, LowestBunch
  <2>2. \A c \in SubBunches(b) : c \notin Path[n]
    <3> SUFFICES ASSUME NEW c \in SubBunches(b), c \in Path[n]
                 PROVE  FALSE
      OBVIOUS
    <3>1. Spot(b, n) = Half(c) /\ Half(c) \in Halves
      BY <1>1, SpotFacts, UpFacts DEF SubBunches
    <3>2. Spot(b, n) \notin Halves
      BY <1>1, SpotFacts
    <3> QED
      BY <3>1, <3>2
  <2> QED
    BY <1>8, <2>1, <2>2
<1>11. ASSUME NEW e \in Bunches, ~(b \in Path[e] /\ e \in Path[n])
       PROVE  Shows(V, e, S) /\ (level_by_idx(e) > max_level => Linked(V, e, S))
  <2>1. b \in Path[b]
    BY <1>1, PathUse
  <2>2. e # b
    BY <1>1, <1>11, <2>1
  <2>3. Shows(W, e, S) /\ (level_by_idx(e) > max_level => Linked(W, e, S))
    BY DEF ExactTree
  <2>4. Shows(V, e, S)
    BY <1>5, <2>2, <2>3 DEF Shows
  <2>5. level_by_idx(e) > max_level => Linked(V, e, S)
    BY <2>3, <1>9, BunchFacts DEF Linked, Marked
  <2> QED
    BY <2>4, <2>5
<1> HIDE DEF b
<1>12. ClimbInv(V, S, n, b)
  BY <1>3, <1>4, <1>10, <1>11 DEF ClimbInv
<1> QED
  BY <1>12 DEF b

(* What a climb has marked has no coalescing bit. *)
LEMMA ReachedLinked ==
  ASSUME NEW W, NEW S \in SUBSET Targets, NEW n \in Targets, NEW b \in Bunches, ClimbInv(W, S, n, b),
         NEW e \in Bunches, b \in Path[e], e \in Path[n]
  PROVE  Shows(W, e, S \cup {n}) /\ Linked(W, e, S \cup {n})
<1>1. n \in Nodes /\ e \in Roots
  BY TargetFacts, BunchFacts
<1>2. Shows(W, e, S \cup {n}) /\ \A c \in SubBunches(e) : c \in Path[n] => ~Marked(W, c)
  BY DEF ClimbInv
<1>3. Spot(e, n) \in SpotsOf(e, S \cup {n})
  BY OutsideBunch
<1>4. Spot(e, n) \notin Coal(W[e])
  <2>1. CASE BUNCHROOT(n) = e
    BY <1>1, <2>1, SpotFacts DEF Coal
  <2>2. CASE BUNCHROOT(n) # e
    <3>1. PICK c \in SubBunches(e) : c \in Path[n]
      BY <1>1, <2>2, SubBunchAbove
    <3>2. Spot(e, n) = Half(c) /\ Up(c) = e
      BY <1>1, <3>1, SpotFacts DEF SubBunches
    <3> QED
      BY <1>2, <3>1, <3>2 DEF Marked
  <2> QED
    BY <2>1, <2>2
<1> QED
  BY <1>2, <1>3, <1>4 DEF Linked

(* The climb ends in a bunch that no other lies above. *)
LEMMA ClimbOver ==
  ASSUME NEW W, NEW S \in SUBSET Targets, NEW n \in Targets, NEW b \in Bunches, b \in Path[n],
         level_by_idx(b) <= max_level, ClimbInv(W, S, n, b)
  PROVE  GrantInv(W, S, n)
<1>1. n \in Nodes /\ b \in Nodes /\ level_by_idx(b) \in Nat
  BY TargetFacts, BunchFacts
<1>2. ASSUME NEW m \in S
      PROVE  ~Overlap(m, n)
  <2> SUFFICES ASSUME Overlap(m, n)
               PROVE  FALSE
    OBVIOUS
  <2>1. m \in Nodes /\ level_by_idx(m) >= max_level /\ level_by_idx(m) \in Nat /\ m \in Path[m]
    BY TargetFacts, PathUse
  <2>2. b \notin Path[m]
    BY <1>2 DEF ClimbInv
  <2>3. n \notin Path[m]
    BY <2>1, <2>2, PathUse
  <2>4. m \in Path[n]
    BY <2>3 DEF Overlap, Contains
  <2>5. level_by_idx(b) <= level_by_idx(m)
    BY <1>1, <2>1, MaxLevel
  <2> QED
    BY <1>1, <2>2, <2>4, <2>5, PathUse
<1>3. ASSUME NEW e \in Bunches
      PROVE  Shows(W, e, S \cup {n}) /\ (level_by_idx(e) > max_level => Linked(W, e, S \cup {n}))
  <2>1. CASE e \in Path[n]
    <3>1. b \in Path[e]
      <4>1. e \in Path[b] => e = b
        BY <1>1, <2>1, OneAbove
      <4>2. e \in Path[b] \/ b \in Path[e]
        BY <1>1, <2>1, OneAbove
      <4> QED
        BY <1>1, <4>1, <4>2, PathUse
    <3> QED
      BY <2>1, <3>1, ReachedLinked
  <2>2. CASE e \notin Path[n]
    <3>1. SpotsOf(e, S \cup {n}) = SpotsOf(e, S)
      BY <2>2, OutsideBunch
    <3>2. Shows(W, e, S) /\ (level_by_idx(e) > max_level => Linked(W, e, S))
      BY <2>2 DEF ClimbInv
    <3> QED
      BY <3>1, <3>2 DEF Shows, Linked
  <2> QED
    BY <2>1, <2>2
<1> QED
  BY <1>2, <1>3 DEF GrantInv, ExactTree

(* The bits the leaf above a bunch root keeps for it. *)
LEMMA OwnMasks ==
  ASSUME NEW b \in Roots, b # 1
  PROVE  LET pos == container_pos(parent_idx_by_idx(b))
         IN /\ LeafMask({OwnCoalBit(b)}, pos) = CoalMask(Half(b))
            /\ LeafMask({OwnSide(b)}, pos) = SideMask(Half(b))
            /\ LeafMask({OwnCoalBit(b), OwnSide(b)}, pos) = SideMask(Half(b)) \cup CoalMask(Half(b))
            /\ LeafMask({BuddySide(b)}, pos) = SideMask(OtherHalf(Half(b)))
<1> DEFINE pos == container_pos(parent_idx_by_idx(b))
<1>1. /\ pos \in Positions /\ pos >= LEAF_START_POSITION /\ Half(b) \in Halves
      /\ Half(b) \div 2 = pos /\ Half(b) % 2 = b % 2
  BY UpFacts
<1>2. Half(b) = 2 * pos + (b % 2)
  BY DEF Half
<1>3. b \in Nat
  BY RootLevel, PathUse
<1> HIDE DEF pos
<1>4. /\ LeafMask({LEFT}, pos) = SideMask(2 * pos)
      /\ LeafMask({RIGHT}, pos) = SideMask(2 * pos + 1)
      /\ LeafMask({COAL_LEFT}, pos) = CoalMask(2 * pos)
      /\ LeafMask({COAL_RIGHT}, pos) = CoalMask(2 * pos + 1)
      /\ LeafMask({COAL_LEFT, LEFT}, pos) = SideMask(2 * pos) \cup CoalMask(2 * pos)
      /\ LeafMask({COAL_RIGHT, RIGHT}, pos) = SideMask(2 * pos + 1) \cup CoalMask(2 * pos + 1)
  BY <1>1, HalfMasks
<1>5. CASE b % 2 = 0
  <2>1. OwnCoalBit(b) = COAL_LEFT /\ OwnSide(b) = LEFT /\ BuddySide(b) = RIGHT
    BY <1>5 DEF OwnCoalBit, OwnSide, BuddySide, is_left_by_idx
  <2>2. Half(b) = 2 * pos /\ OtherHalf(Half(b)) = 2 * pos + 1
    BY <1>1, <1>2, <1>5 DEF OtherHalf, Positions
  <2> QED
    BY <1>4, <2>1, <2>2 DEF pos
<1>6. CASE b % 2 # 0
  <2>1. OwnCoalBit(b) = COAL_RIGHT /\ OwnSide(b) = RIGHT /\ BuddySide(b) = LEFT
    BY <1>6 DEF OwnCoalBit, OwnSide, BuddySide, is_left_by_idx
  <2>2. b % 2 = 1
    BY <1>3, <1>6
  <2>3. Half(b) = 2 * pos + 1 /\ OtherHalf(Half(b)) = 2 * pos
    BY <1>1, <1>2, <2>2 DEF OtherHalf, Positions
  <2> QED
    BY <1>4, <2>1, <2>3 DEF pos
<1> QED
  BY <1>5, <1>6

(* One bunch up from b. *)
LEMMA OneUp ==
  ASSUME NEW n \in Targets, NEW b \in Bunches, b \in Path[n], level_by_idx(b) > max_level
  PROVE  LET c == Up(b)
             p == parent_idx_by_idx(b)
         IN /\ n \in Nodes /\ b \in Roots /\ b # 1 /\ c \in Bunches /\ c \in Roots /\ c # b
            /\ c \in Path[b] /\ c \in Path[n] /\ b \notin Path[c]
            /\ level_by_idx(b) = level_by_idx(c) + 4
            /\ b \in SubBunches(c) /\ p \in Nodes /\ p \in Path[b] /\ p \in Path[n] /\ p # b
            /\ BUNCHROOT(p) = c /\ level_by_idx(p) = level_by_idx(c) + 3
            /\ Half(b) \in Halves /\ Half(b) \div 2 = container_pos(p)
            /\ Spot(c, n) = Half(b)
            /\ \A e \in Bunches : e \in Path[n] /\ e \in Path[b] /\ e # b => e \in Path[c]
            /\ \A e \in Bunches : e \in Path[n] /\ c \in Path[e] /\ e # c => b \in Path[e]
            /\ \A e \in Bunches : level_by_idx(e) > max_level /\ Up(e) = c /\ Half(e) = Half(b) => e = b
<1> DEFINE c == Up(b)
           p == parent_idx_by_idx(b)
<1>1. n \in Nodes /\ b \in Roots /\ b \in Nodes /\ b # 1 /\ c \in Bunches /\ b \in SubBunches(c)
  BY TargetFacts, BunchFacts
<1>2. /\ c \in Roots /\ c # b /\ c \in Path[b] /\ level_by_idx(b) = level_by_idx(c) + 4
      /\ p \in Nodes /\ p \in Path[b] /\ p # b
      /\ BUNCHROOT(p) = c /\ level_by_idx(p) = level_by_idx(c) + 3
      /\ Half(b) \in Halves /\ Half(b) \div 2 = container_pos(p)
  BY <1>1, UpFacts
<1> HIDE DEF p
<1>3. c \in Path[n] /\ p \in Path[n]
  BY <1>1, <1>2, PathUse
<1>4. b \notin Path[c]
  BY <1>1, <1>2, <1>3, OneAbove
<1>5. Spot(c, n) = Half(b)
  BY <1>1, <1>2, <1>3, SpotFacts
<1>6. ASSUME NEW e \in Bunches, e \in Path[n], e \in Path[b], e # b
      PROVE  e \in Path[c]
  BY <1>1, <1>6, OneAbove
<1>7. ASSUME NEW e \in Bunches, e \in Path[n], c \in Path[e], e # c
      PROVE  b \in Path[e]
  <2>1. e \in Path[b] \/ b \in Path[e]
    BY <1>1, <1>7, OneAbove
  <2>2. e \in Path[b] /\ e # b => e \in Path[c]
    BY <1>6, <1>7
  <2>3. e \in Path[c] => e = c
    BY <1>1, <1>3, <1>7, OneAbove
  <2>4. b \in Path[b]
    BY <1>1, PathUse
  <2> QED
    BY <1>7, <2>1, <2>2, <2>3, <2>4
<1>8. ASSUME NEW e \in Bunches, level_by_idx(e) > max_level, Up(e) = c, Half(e) = Half(b)
      PROVE  e = b
  <2>1. e \in SubBunches(c)
    BY <1>8, BunchFacts
  <2> QED
    BY <1>1, <1>2, <1>8, <2>1, SubBunchesApart
<1> QED
  BY <1>1, <1>2, <1>3, <1>4, <1>5, <1>6, <1>7, <1>8 DEF p

(* The parent leaf of a bunch looks occupied exactly if a block of the     *)
(* bunch above covers it. *)
LEMMA LeafTest ==
  ASSUME NEW W, NEW S \in SUBSET Targets, NEW b \in Bunches, level_by_idx(b) > max_level,
         Shows(W, Up(b), S)
  PROVE  LET p == parent_idx_by_idx(b)
         IN /\ IS_OCCUPIED(W[Up(b)], container_pos(p)) <=> Covered(container_pos(p), SpotsOf(Up(b), S))
            /\ Covered(container_pos(p), SpotsOf(Up(b), S))
                 <=> \E m \in S : BUNCHROOT(m) = Up(b) /\ m \in Path[p]
<1> DEFINE c == Up(b)
           p == parent_idx_by_idx(b)
<1>1. b \in Roots /\ b # 1 /\ c \in Bunches /\ b \in SubBunches(c) /\ c \in Roots
  BY BunchFacts
<1>2. container_pos(p) \in Positions /\ container_pos(p) >= LEAF_START_POSITION
  BY <1>1, UpFacts
<1>3. W[c] = Word(SpotsOf(c, S), Coal(W[c]))
  BY DEF Shows
<1>4. IS_OCCUPIED(W[c], container_pos(p)) <=> Covered(container_pos(p), SpotsOf(c, S))
  <2>1. IS_OCCUPIED(Word(SpotsOf(c, S), Coal(W[c])), container_pos(p)) <=> Covered(container_pos(p), SpotsOf(c, S))
    BY <1>2, OccupiedInWord
  <2> QED
    BY <1>3, <2>1
<1>5. S \in SUBSET Nodes
  BY TargetFacts
<1> QED
  BY <1>1, <1>4, <1>5, CoveredSpots

(* check_parent marks the leaf above. *)
LEMMA ClimbStep ==
  ASSUME NEW W \in [Bunches -> SUBSET WordBits], NEW S \in SUBSET Targets, NEW n \in Targets,
         NEW b \in Bunches, b \in Path[n], level_by_idx(b) > max_level,
         ClimbInv(W, S, n, b),
         ~IS_OCCUPIED(W[Up(b)], container_pos(parent_idx_by_idx(b))),
         NEW V, V = [W EXCEPT ![Up(b)] = Fragmented(@, b)]
  PROVE  ClimbInv(V, S, n, Up(b))
<1> DEFINE c == Up(b)
           p == parent_idx_by_idx(b)
           h == Half(b)
           K == Coal(W[c])
           Q == SpotsOf(c, S)
<1>1. /\ n \in Nodes /\ b \in Roots /\ b # 1 /\ c \in Bunches /\ c \in Roots /\ c # b
      /\ c \in Path[b] /\ c \in Path[n] /\ b \notin Path[c]
      /\ b \in SubBunches(c) /\ p \in Nodes /\ p \in Path[b] /\ p \in Path[n] /\ p # b
      /\ BUNCHROOT(p) = c /\ level_by_idx(b) = level_by_idx(c) + 4 /\ level_by_idx(p) = level_by_idx(c) + 3
      /\ h \in Halves /\ h \div 2 = container_pos(p) /\ Spot(c, n) = h
  BY OneUp
<1>2. /\ \A e \in Bunches : e \in Path[n] /\ c \in Path[e] /\ e # c => b \in Path[e]
      /\ \A e \in Bunches : level_by_idx(e) > max_level /\ Up(e) = c /\ Half(e) = h => e = b
  BY OneUp
<1>3. Shows(W, c, S) /\ (level_by_idx(c) > max_level => Linked(W, c, S))
  BY <1>1 DEF ClimbInv
<1>4. ~Covered(container_pos(p), Q) /\ \A m \in S : ~(BUNCHROOT(m) = c /\ m \in Path[p])
  BY <1>3, LeafTest
<1>5. W[c] = Word(Q, K) /\ Q \in SUBSET Spots /\ K \in SUBSET Halves /\ K \subseteq Q
  BY <1>1, <1>3, ShownWord
<1>6. SpotsOf(c, S \cup {n}) = Q \cup {h}
  BY <1>1, OutsideBunch
<1>7. V[c] = Fragmented(W[c], b) /\ \A e \in Bunches : e # c => V[e] = W[e]
  BY <1>1
<1>8. Fragmented(W[c], b) = Word(Q \cup {h}, K \ {h})
  <2>1. Fragmented(W[c], b) = (W[c] \ CoalMask(h)) \cup SideMask(h) \cup NodeMasks(Above(h \div 2))
    BY <1>1, OwnMasks DEF Fragmented
  <2>2. h \in Halves
    BY <1>1
  <2> HIDE DEF K, Q, h, c
  <2>3. (Word(Q, K) \ CoalMask(h)) \cup SideMask(h) \cup NodeMasks(Above(h \div 2)) = Word(Q \cup {h}, K \ {h})
    BY <2>2, <1>5, WordMarks
  <2> QED
    BY <2>1, <2>3, <1>5
<1>9. Shows(V, c, S \cup {n}) /\ Coal(V[c]) = K \ {h}
  <2>1. K \ {h} \in SUBSET Halves /\ K \ {h} \subseteq Q \cup {h}
    BY <1>5
  <2>2. V[c] = Word(SpotsOf(c, S \cup {n}), K \ {h})
    BY <1>6, <1>7, <1>8
  <2> HIDE DEF K, Q, h, c
  <2>3. Coal(V[c]) = K \ {h}
    BY <2>1, <2>2, CoalOfWord
  <2> QED
    BY <1>6, <2>1, <2>2, <2>3 DEF Shows
<1>10. n \notin S
  BY DEF ClimbInv
<1>11. ASSUME NEW m \in S, c \in Path[m], Overlap(m, n)
       PROVE  FALSE
  <2>1. m \in Nodes /\ m \in Path[m] /\ level_by_idx(m) \in Nat
    BY TargetFacts, PathUse
  <2>2. b \notin Path[m]
    BY <1>11 DEF ClimbInv
  <2>3. n \notin Path[m]
    BY <2>1, <2>2, PathUse
  <2>4. m \in Path[n]
    BY <1>11, <2>3 DEF Overlap, Contains
  <2>5. level_by_idx(m) < level_by_idx(b) /\ level_by_idx(b) \in Nat /\ level_by_idx(c) \in Nat
    <3>1. level_by_idx(b) \in Nat /\ level_by_idx(c) \in Nat
      BY <1>1, BunchFacts
    <3>2. ~(level_by_idx(b) <= level_by_idx(m))
      BY <1>1, <2>2, <2>4, PathUse
    <3> QED
      BY <2>1, <3>1, <3>2
  <2>6. m \in Path[p]
    <3>1. level_by_idx(m) <= level_by_idx(p)
      BY <1>1, <2>1, <2>5
    <3> QED
      BY <1>1, <2>4, <3>1, PathUse
  <2>7. BUNCHROOT(m) = c
    <3>1. /\ BUNCHROOT(m) \in Bunches /\ BUNCHROOT(m) \in Path[m]
          /\ level_by_idx(m) - level_by_idx(BUNCHROOT(m)) \in 0 .. 3
      BY <2>1, RootOf, TargetFacts
    <3>2. c \in Path[BUNCHROOT(m)]
      BY <1>1, <1>11, <2>1, RootAboveNode
    <3>3. BUNCHROOT(m) \in Path[p]
      BY <1>1, <2>6, <3>1, PathUse
    <3>4. BUNCHROOT(m) \in Path[c]
      BY <1>1, <3>1, <3>3, BunchFacts, RootAboveNode
    <3> QED
      BY <1>1, <2>1, <3>1, <3>2, <3>4, <1>11, OneAbove
  <2> QED
    BY <1>4, <2>6, <2>7
<1>12. ASSUME NEW e \in Bunches, c \in Path[e], e \in Path[n]
       PROVE  /\ Shows(V, e, S \cup {n})
              /\ \A d \in SubBunches(e) : d \in Path[n] => ~Marked(V, d)
  <2>1. CASE e = c
    <3>1. ASSUME NEW d \in SubBunches(c), d \in Path[n]
          PROVE  ~Marked(V, d)
      <4>1. d = b
        BY <1>1, <3>1, SubBunchesApart
      <4>2. Half(d) = h /\ Up(d) = c
        BY <4>1
      <4> QED
        BY <4>2, <1>9 DEF Marked
    <3> QED
      BY <1>9, <2>1, <3>1
  <2>2. CASE e # c
    <3>1. b \in Path[e]
      BY <1>2, <1>12, <2>2
    <3>2. Shows(W, e, S \cup {n}) /\ \A d \in SubBunches(e) : d \in Path[n] => ~Marked(W, d)
      BY <1>12, <3>1 DEF ClimbInv
    <3>3. V[e] = W[e]
      BY <1>7, <2>2
    <3> QED
      BY <3>2, <3>3 DEF Shows, Marked, SubBunches
  <2> QED
    BY <2>1, <2>2
<1>13. ASSUME NEW e \in Bunches, ~(c \in Path[e] /\ e \in Path[n])
       PROVE  Shows(V, e, S) /\ (level_by_idx(e) > max_level => Linked(V, e, S))
  <2>1. c \in Path[c] /\ b \in Path[b]
    BY <1>1, BunchFacts, PathUse
  <2>2. e # c
    BY <1>1, <1>13, <2>1
  <2>3. b \in Path[e] => c \in Path[e]
    BY <1>1, BunchFacts, PathUse
  <2>4. Shows(W, e, S) /\ (level_by_idx(e) > max_level => Linked(W, e, S))
    BY <1>13, <2>3 DEF ClimbInv
  <2>5. V[e] = W[e]
    BY <1>7, <2>2
  <2>6. Shows(V, e, S)
    BY <2>4, <2>5 DEF Shows
  <2>7. ASSUME level_by_idx(e) > max_level
        PROVE  Linked(V, e, S)
    <3>1. Marked(W, e) => Marked(V, e)
      <4>1. Up(e) \in Bunches
        BY <2>7, BunchFacts
      <4>2. CASE Up(e) # c
        BY <4>1, <4>2, <1>7 DEF Marked
      <4>3. CASE Up(e) = c
        <5>1. e # b
          BY <1>13, <2>1, <1>1
        <5>2. Half(e) # h
          BY <1>2, <2>7, <4>3, <5>1
        <5> QED
          BY <4>3, <5>2, <1>9 DEF Marked
      <4> QED
        BY <4>2, <4>3
    <3> QED
      BY <2>4, <2>5, <2>7, <3>1 DEF Linked
  <2> QED
    BY <2>6, <2>7
<1> HIDE DEF c
<1>14. ClimbInv(V, S, n, c)
  BY <1>10, <1>11, <1>12, <1>13 DEF ClimbInv
<1> QED
  BY <1>14 DEF c

(***************************************************************************)
(* A failed allocation turns into a release up to the level below the      *)
(* block that stopped it.                                                  *)
(***************************************************************************)
LEMMA ClimbFails ==
  ASSUME NEW W, NEW S \in SUBSET Targets, BlocksApart(S), NEW n \in Targets,
         NEW b \in Bunches, b \in Path[n], level_by_idx(b) > max_level,
         ClimbInv(W, S, n, b),
         NEW p, p = parent_idx_by_idx(b),
         IS_OCCUPIED(W[Up(b)], container_pos(p)),
         NEW u, u = level_by_idx(b)
  PROVE  /\ NoRoomFor(S, n, p)
         /\ ReleaseInv(S, n, u, p)
         /\ level_by_idx(BUNCHROOT(n)) > u => MarcaInv(W, S, n, u, BUNCHROOT(n))
         /\ ~(level_by_idx(BUNCHROOT(n)) > u) => LiberaInv(W, S, n, u)
<1> DEFINE c == Up(b)
           B == BUNCHROOT(n)
<1>1. /\ n \in Nodes /\ b \in Roots /\ b # 1 /\ c \in Bunches /\ c \in Path[n]
      /\ p \in Nodes /\ p \in Path[b] /\ p # b
  BY OneUp
<1>2. Shows(W, c, S)
  <2>1. b \notin Path[c]
    BY OneUp
  <2> QED
    BY <1>1, <2>1 DEF ClimbInv
<1>3. PICK k \in S : BUNCHROOT(k) = c /\ k \in Path[p]
  BY <1>2, LeafTest
<1>4. b \in Nodes /\ b \in Path[b] /\ k \in Nodes /\ k \in Path[k] /\ k \in Path[b] /\ b \notin Path[k]
  <2>1. b \in Nodes /\ b \in Path[b] /\ k \in Nodes /\ k \in Path[k] /\ k \in Path[b]
    BY <1>1, <1>3, BunchFacts, PathUse, TargetFacts
  <2>2. /\ level_by_idx(p) < level_by_idx(b) /\ level_by_idx(k) <= level_by_idx(p)
        /\ level_by_idx(p) \in Nat /\ level_by_idx(k) \in Nat /\ level_by_idx(b) \in Nat
    BY <1>1, <1>3, <2>1, PathUse
  <2>3. b \notin Path[k]
    BY <2>1, <2>2, PathUse
  <2> QED
    BY <2>1, <2>3
<1>5. \A e \in Bunches : e \in Path[n] => (e \in ReleaseBunches(n, u) <=> b \in Path[e])
  <2> SUFFICES ASSUME NEW e \in Bunches, e \in Path[n]
               PROVE  level_by_idx(e) + 4 > u <=> b \in Path[e]
    BY DEF ReleaseBunches
  <2>1. level_by_idx(e) \in Nat /\ level_by_idx(b) \in Nat /\ e \in Nodes
    BY BunchFacts
  <2>2. b \in Path[e] => level_by_idx(b) <= level_by_idx(e)
    BY <2>1, PathUse
  <2>3. b \notin Path[e] => level_by_idx(e) + 4 <= level_by_idx(b)
    <3>1. e \in Path[b] \/ b \in Path[e]
      BY <1>1, OneAbove
    <3>2. e \in Path[b] /\ e # b => level_by_idx(e) + 4 <= level_by_idx(b)
      BY <1>1, OneAbove
    <3> QED
      BY <1>4, <3>1, <3>2
  <2> QED
    BY <2>1, <2>2, <2>3
<1>6. \A e \in ReleaseBunches(n, u) : e \in Bunches /\ e \in Path[n]
  BY DEF ReleaseBunches
<1>7. ASSUME NEW e \in ReleaseBunches(n, u), NEW m \in S, e \in Path[m]
      PROVE  FALSE
  <2>1. b \in Path[e] /\ m \in Nodes
    BY <1>5, <1>6, TargetFacts
  <2>2. b \in Path[m]
    BY <1>7, <2>1, PathUse
  <2>3. k \in Path[m]
    BY <1>4, <2>1, <2>2, PathUse
  <2>4. k = m
    BY <2>3 DEF BlocksApart, Overlap, Contains
  <2> QED
    BY <1>4, <2>2, <2>4
<1>8. B \in Bunches /\ B \in Path[n] /\ b \in Path[B]
  BY LowestBunch
<1>9. ReleaseInv(S, n, u, p)
  <2>1. n \notin S /\ B \in ReleaseBunches(n, u)
    BY <1>5, <1>8 DEF ClimbInv
  <2>2. p # 0
    BY <1>1 DEF Nodes
  <2>3. u \in Nat /\ u >= max_level
    BY BunchFacts, MaxLevel
  <2> QED
    BY <1>7, <2>1, <2>2, <2>3 DEF ReleaseInv
<1>10. ASSUME NEW e \in Bunches
       PROVE  /\ Shows(W, e, Shown(S, n, u, e))
              /\ level_by_idx(e) > max_level => Linked(W, e, Shown(S, n, u, e))
  <2>1. CASE e \in ReleaseBunches(n, u)
    <3>1. b \in Path[e] /\ e \in Path[n]
      BY <1>5, <1>6, <2>1
    <3> QED
      BY <2>1, <3>1, ReachedLinked DEF Shown
  <2>2. CASE e \notin ReleaseBunches(n, u)
    <3>1. ~(b \in Path[e] /\ e \in Path[n])
      BY <1>5, <2>2
    <3> QED
      BY <2>2, <3>1 DEF Shown, ClimbInv
  <2> QED
    BY <2>1, <2>2
<1>11. NoRoomFor(S, n, p)
  <2>1. p \in Path[n]
    BY <1>1, PathUse
  <2> QED
    BY <1>3, <2>1 DEF NoRoomFor, Contains
<1> HIDE DEF B
<1>12. level_by_idx(B) > u => MarcaInv(W, S, n, u, B)
  BY <1>10 DEF MarcaInv, B
<1>13. ~(level_by_idx(B) > u) => LiberaInv(W, S, n, u)
  BY <1>10 DEF LiberaInv, B
<1> QED
  BY <1>9, <1>11, <1>12, <1>13 DEF B

(***************************************************************************)
(* The steps of a release.                                                 *)
(***************************************************************************)
LEMMA ReleaseBegins ==
  ASSUME NEW W, NEW S \in SUBSET Targets, BlocksApart(S), NEW n \in S, ExactTree(W, S),
         NEW T, T = S \ {n}
  PROVE  /\ ReleaseInv(T, n, max_level, 0)
         /\ level_by_idx(BUNCHROOT(n)) > max_level => MarcaInv(W, T, n, max_level, BUNCHROOT(n))
         /\ ~(level_by_idx(BUNCHROOT(n)) > max_level) => LiberaInv(W, T, n, max_level)
<1> DEFINE B == BUNCHROOT(n)
<1>1. n \in Targets /\ n \in Nodes /\ B \in Bunches /\ B \in Path[n] /\ S = T \cup {n} /\ T \in SUBSET Targets
  BY TargetFacts
<1>2. \A e \in Bunches : e \in ReleaseBunches(n, max_level) <=> e \in Path[n]
  BY BunchFacts DEF ReleaseBunches
<1>3. ReleaseInv(T, n, max_level, 0)
  <2>1. \A m \in T : ~Overlap(m, n)
    BY DEF BlocksApart
  <2> QED
    BY <1>1, <1>2, <2>1, MaxLevel DEF ReleaseInv
<1>4. ASSUME NEW e \in Bunches
      PROVE  /\ Shows(W, e, Shown(T, n, max_level, e))
             /\ level_by_idx(e) > max_level => Linked(W, e, Shown(T, n, max_level, e))
  <2>1. Shows(W, e, S) /\ (level_by_idx(e) > max_level => Linked(W, e, S))
    BY DEF ExactTree
  <2>2. SpotsOf(e, Shown(T, n, max_level, e)) = SpotsOf(e, S)
    <3>1. CASE e \in Path[n]
      <4>1. Shown(T, n, max_level, e) = S
        BY <1>1, <1>2, <3>1 DEF Shown
      <4> QED
        BY <4>1
    <3>2. CASE e \notin Path[n]
      <4>1. Shown(T, n, max_level, e) = T
        BY <1>1, <1>2, <3>2 DEF Shown
      <4>2. SpotsOf(e, T \cup {n}) = SpotsOf(e, T)
        BY <1>1, <3>2, OutsideBunch
      <4> QED
        BY <1>1, <4>1, <4>2
    <3> QED
      BY <3>1, <3>2
  <2> QED
    BY <2>1, <2>2 DEF Shows, Linked
<1> HIDE DEF B
<1>5. level_by_idx(B) > max_level => MarcaInv(W, T, n, max_level, B)
  BY <1>4 DEF MarcaInv, B
<1>6. ~(level_by_idx(B) > max_level) => LiberaInv(W, T, n, max_level)
  BY <1>4 DEF LiberaInv, B
<1> QED
  BY <1>3, <1>5, <1>6 DEF B

(* A mark that is there already stands for all those above. *)
LEMMA MarcaStops ==
  ASSUME NEW W, NEW S, NEW n, NEW u, NEW b, MarcaInv(W, S, n, u, b), Marked(W, b)
  PROVE  LiberaInv(W, S, n, u)
<1>1. Marked(W, BUNCHROOT(n))
  BY DEF MarcaInv
<1>2. \A T : Linked(W, b, T)
  BY DEF Linked
<1> QED
  BY <1>1, <1>2 DEF MarcaInv, LiberaInv

LEMMA MarcaStep ==
  ASSUME NEW W \in [Bunches -> SUBSET WordBits], NEW S \in SUBSET Targets, NEW n \in Targets,
         NEW u, NEW f, ReleaseInv(S, n, u, f),
         NEW b \in Bunches, b \in ReleaseBunches(n, u), MarcaInv(W, S, n, u, b),
         NEW V, V = [W EXCEPT ![Up(b)] = @ \cup CoalMask(Half(b))]
  PROVE  /\ Up(b) \in ReleaseBunches(n, u)
         /\ level_by_idx(Up(b)) > u => MarcaInv(V, S, n, u, Up(b))
         /\ ~(level_by_idx(Up(b)) > u) => LiberaInv(V, S, n, u)
<1> DEFINE c == Up(b)
           h == Half(b)
           B == BUNCHROOT(n)
           T == S \cup {n}
           K == Coal(W[c])
<1>1. b \in Path[n] /\ level_by_idx(b) > max_level /\ level_by_idx(b) \in Nat /\ u \in Nat /\ level_by_idx(b) > u
  BY BunchFacts, MaxLevel DEF ReleaseBunches, ReleaseInv, MarcaInv
<1>2. /\ n \in Nodes /\ c \in Bunches /\ c # b /\ c \in Path[n] /\ h \in Halves /\ Spot(c, n) = h
      /\ level_by_idx(b) = level_by_idx(c) + 4
  BY <1>1, OneUp
<1>3. c \in ReleaseBunches(n, u) /\ T \in SUBSET Targets
  BY <1>1, <1>2 DEF ReleaseBunches
<1>4. Shows(W, c, T) /\ h \in SpotsOf(c, T)
  <2>1. Shown(S, n, u, c) = T
    BY <1>3 DEF Shown
  <2>2. SpotsOf(c, T) = SpotsOf(c, S) \cup {h}
    BY <1>2, OutsideBunch
  <2> QED
    BY <1>2, <2>1, <2>2 DEF MarcaInv
<1>5. W[c] = Word(SpotsOf(c, T), K) /\ K \in SUBSET Halves /\ K \subseteq SpotsOf(c, T)
  BY <1>2, <1>3, <1>4, ShownWord
<1>6. V[c] = W[c] \cup CoalMask(h) /\ \A e \in Bunches : e # c => V[e] = W[e]
  BY <1>2
<1>7. Shows(V, c, T) /\ Coal(V[c]) = K \cup {h}
  <2>1. K \cup {h} \in SUBSET Halves /\ K \cup {h} \subseteq SpotsOf(c, T)
    BY <1>2, <1>4, <1>5
  <2>2. h \in Halves
    BY <1>2
  <2> HIDE DEF K, h, c
  <2>3. Word(SpotsOf(c, T), K) \cup CoalMask(h) = Word(SpotsOf(c, T), K \cup {h})
    BY <2>2, WordCoalesces
  <2>4. V[c] = Word(SpotsOf(c, T), K \cup {h})
    BY <1>5, <1>6, <2>3
  <2>5. Coal(V[c]) = K \cup {h}
    BY <2>1, <2>4, CoalOfWord
  <2> QED
    BY <2>1, <2>4, <2>5 DEF Shows
<1>8. /\ \A e \in Bunches : Coal(W[e]) \subseteq Coal(V[e])
      /\ \A e \in Bunches : e # c => Coal(V[e]) = Coal(W[e])
  BY <1>6, <1>7
<1>9. \A e \in Bunches : level_by_idx(e) > max_level /\ Marked(W, e) => Marked(V, e)
  BY <1>8, BunchFacts DEF Marked
<1>10. Marked(V, b)
  BY <1>7 DEF Marked
<1>11. Marked(V, B)
  <2>1. CASE b = B
    BY <1>10, <2>1
  <2>2. CASE b # B
    <3>1. B \in Bunches /\ B \in Nodes /\ b \in Path[B] /\ level_by_idx(B) \in Nat
      BY <1>1, LowestBunch, BunchFacts
    <3>2. level_by_idx(b) <= level_by_idx(B)
      BY <3>1, PathUse
    <3>3. level_by_idx(B) > max_level
      BY <1>1, <3>1, <3>2, MaxLevel
    <3> QED
      BY <1>9, <2>2, <3>1, <3>3 DEF MarcaInv
  <2> QED
    BY <2>1, <2>2
<1>12. ASSUME NEW e \in Bunches
       PROVE  /\ Shows(V, e, Shown(S, n, u, e))
              /\ level_by_idx(e) > max_level /\ e # c /\ ~(e \in ReleaseBunches(n, u) /\ level_by_idx(e) <= u)
                   => Linked(V, e, Shown(S, n, u, e))
  <2>1. CASE e = c
    <3>1. Shown(S, n, u, c) = T
      BY <1>3 DEF Shown
    <3> QED
      BY <1>7, <2>1, <3>1
  <2>2. CASE e # c
    <3>1. /\ Shows(W, e, Shown(S, n, u, e))
          /\ level_by_idx(e) > max_level /\ e # b /\ ~(e \in ReleaseBunches(n, u) /\ level_by_idx(e) <= u)
               => Linked(W, e, Shown(S, n, u, e))
      BY DEF MarcaInv
    <3>2. Shows(V, e, Shown(S, n, u, e))
      BY <1>6, <2>2, <3>1 DEF Shows
    <3>3. ASSUME level_by_idx(e) > max_level, ~(e \in ReleaseBunches(n, u) /\ level_by_idx(e) <= u)
          PROVE  Linked(V, e, Shown(S, n, u, e))
      <4>1. CASE e = b
        BY <1>10, <4>1 DEF Linked
      <4>2. CASE e # b
        <5>1. Linked(W, e, Shown(S, n, u, e))
          BY <3>1, <3>3, <4>2
        <5>2. Coal(V[e]) = Coal(W[e]) /\ (Marked(W, e) => Marked(V, e))
          BY <1>8, <1>9, <2>2, <3>3
        <5> QED
          BY <5>1, <5>2 DEF Linked
      <4> QED
        BY <4>1, <4>2
    <3> QED
      BY <3>2, <3>3
  <2> QED
    BY <2>1, <2>2
<1> HIDE DEF c
<1>13. level_by_idx(c) > u => MarcaInv(V, S, n, u, c)
  BY <1>11, <1>12 DEF MarcaInv
<1>14. level_by_idx(c) \in Nat
  BY <1>2, BunchFacts
<1>15. ~(level_by_idx(c) > u) => LiberaInv(V, S, n, u)
  <2> SUFFICES ASSUME ~(level_by_idx(c) > u)
               PROVE  LiberaInv(V, S, n, u)
    OBVIOUS
  <2>1. level_by_idx(c) <= u
    BY <1>1, <1>14
  <2> QED
    BY <1>3, <1>11, <1>12, <2>1 DEF LiberaInv
<1> QED
  BY <1>3, <1>13, <1>15 DEF c

(* Nothing held overlaps the node that is released where it is recorded. *)
LEMMA LiberaStep ==
  ASSUME NEW W \in [Bunches -> SUBSET WordBits], NEW S \in SUBSET Targets, NEW n \in Targets,
         NEW u, NEW f, ReleaseInv(S, n, u, f), LiberaInv(W, S, n, u),
         NEW V, V = [W EXCEPT ![BUNCHROOT(n)] = libera_container(container_pos(n), @)]
  PROVE  LET B == BUNCHROOT(n)
         IN /\ B \in ReleaseBunches(n, u)
            /\ Swept(V, S, n, u, B)
            /\ level_by_idx(B) > u => Marked(V, B)
            /\ Blocked(W[B], container_pos(n)) = {} <=> SpotsOf(B, S) = {}
<1> DEFINE B == BUNCHROOT(n)
           pos == container_pos(n)
           Q == SpotsOf(B, S)
           K == Coal(W[B])
<1>1. /\ n \in Nodes /\ B \in Bunches /\ B \in Roots /\ B \in Path[n] /\ B \in Path[B] /\ pos \in Positions
      /\ B \in ReleaseBunches(n, u) /\ u \in Nat /\ u >= max_level
  BY TargetFacts, BunchFacts, PathUse DEF ReleaseInv
<1>2. Shows(W, B, S \cup {n})
  <2>1. Shown(S, n, u, B) = S \cup {n}
    BY <1>1 DEF Shown
  <2> QED
    BY <1>1, <2>1 DEF LiberaInv
<1>3. Spot(B, n) = pos /\ pos \notin Halves /\ SpotsOf(B, S \cup {n}) = Q \cup {pos} /\ Q \in SUBSET Spots
  BY <1>1, SpotFacts, OutsideBunch
<1>4. W[B] = Word(Q \cup {pos}, K) /\ K \in SUBSET Halves /\ K \subseteq Q
  <2>1. W[B] = Word(SpotsOf(B, S \cup {n}), K) /\ K \in SUBSET Halves /\ K \subseteq SpotsOf(B, S \cup {n})
    BY <1>1, <1>2, ShownWord
  <2> QED
    BY <1>3, <2>1
<1>5. \A r \in Q : ~PosOverlap(pos, PosOf(r))
  <2> SUFFICES ASSUME NEW m \in S, B \in Path[m]
               PROVE  ~PosOverlap(pos, PosOf(Spot(B, m)))
    BY DEF SpotsOf, Contains
  <2>1. m \in Nodes
    BY TargetFacts
  <2>2. ~Overlap(m, n)
    BY <1>1 DEF ReleaseInv
  <2> QED
    BY <1>1, <2>1, <2>2, OverlapAtSpot DEF Overlap
<1>6. libera_container(pos, W[B]) = Word(Q, K) /\ (Blocked(W[B], pos) = {} <=> Q = {})
  <2>0. pos \in Positions /\ Q \in SUBSET Spots
    BY <1>1, <1>3
  <2> HIDE DEF K, Q, pos, B
  <2>1. /\ libera_container(pos, Word(Q \cup {pos}, K)) = Word(Q, K)
        /\ Blocked(Word(Q \cup {pos}, K), pos) = {} <=> Q = {}
    BY <2>0, <1>4, <1>5, WordReleases
  <2> QED
    BY <1>4, <2>1
<1>7. V[B] = Word(Q, K) /\ \A e \in Bunches : e # B => V[e] = W[e]
  BY <1>1, <1>6
<1>8. Shows(V, B, S) /\ Coal(V[B]) = K
  <2> HIDE DEF K, B
  <2>1. Coal(V[B]) = K
    BY <1>4, <1>7, CoalOfWord
  <2> QED
    BY <1>4, <1>7, <2>1 DEF Shows
<1>9. \A e \in Bunches : Coal(V[e]) = Coal(W[e])
  BY <1>7, <1>8
<1>10. level_by_idx(B) > u => Marked(V, B)
  <2> SUFFICES ASSUME level_by_idx(B) > u
               PROVE  Marked(V, B)
    OBVIOUS
  <2>1. Marked(W, B) /\ level_by_idx(B) \in Nat
    BY <1>1, BunchFacts DEF LiberaInv
  <2>2. Up(B) \in Bunches
    BY <1>1, <2>1, BunchFacts, MaxLevel
  <2> QED
    BY <1>9, <2>1, <2>2 DEF Marked
<1>11. ASSUME NEW e \in Bunches
       PROVE  /\ Shows(V, e, Cleared(S, n, u, B, e))
              /\ level_by_idx(e) > max_level /\ ~(e \in ReleaseBunches(n, u) /\ level_by_idx(e) <= u)
                   => Linked(V, e, Cleared(S, n, u, B, e))
  <2>1. CASE e = B
    <3>1. Cleared(S, n, u, B, B) = S
      BY <1>1 DEF Cleared
    <3>2. ASSUME ~(level_by_idx(B) <= u)
          PROVE  Linked(V, B, S)
      <4>1. level_by_idx(B) > u
        BY <1>1, <3>2, BunchFacts
      <4> QED
        BY <1>10, <4>1 DEF Linked
    <3> QED
      BY <1>1, <1>8, <2>1, <3>1, <3>2
  <2>2. CASE e # B
    <3>1. Cleared(S, n, u, B, e) = Shown(S, n, u, e)
      BY <2>2, LowestBunch DEF Cleared, Shown, ReleaseBunches
    <3>2. /\ Shows(W, e, Shown(S, n, u, e))
          /\ level_by_idx(e) > max_level /\ ~(e \in ReleaseBunches(n, u) /\ level_by_idx(e) <= u)
               => Linked(W, e, Shown(S, n, u, e))
      BY DEF LiberaInv
    <3>3. Shows(V, e, Shown(S, n, u, e))
      BY <1>7, <2>2, <3>2 DEF Shows
    <3>4. level_by_idx(e) > max_level => (Marked(W, e) => Marked(V, e))
      BY <1>9, BunchFacts DEF Marked
    <3> QED
      BY <1>9, <3>1, <3>2, <3>3, <3>4 DEF Linked
  <2> QED
    BY <2>1, <2>2
<1> QED
  BY <1>1, <1>6, <1>10, <1>11 DEF Swept

(* The release is over in the bunch where its bound is, or in one that is  *)
(* still in use: the bunches above have the bit for the rest.              *)
LEMMA SweptOver ==
  ASSUME NEW W, NEW S \in SUBSET Targets, NEW n \in Targets, NEW u, NEW f, ReleaseInv(S, n, u, f),
         NEW c \in ReleaseBunches(n, u), Swept(W, S, n, u, c),
         ~(level_by_idx(c) > u /\ SpotsOf(c, S) = {})
  PROVE  ExactTree(W, S)
<1>1. c \in Bunches /\ c \in Path[n] /\ c \in Roots /\ c \in Nodes /\ n \in Nodes /\ u \in Nat /\ level_by_idx(c) \in Nat
  BY BunchFacts, TargetFacts DEF ReleaseBunches, ReleaseInv
<1> SUFFICES ASSUME NEW e \in Bunches
             PROVE  Shows(W, e, S) /\ (level_by_idx(e) > max_level => Linked(W, e, S))
  BY DEF ExactTree
<1>2. level_by_idx(e) \in Nat /\ e \in Roots
  BY BunchFacts
<1>3. /\ Shows(W, e, Cleared(S, n, u, c, e))
      /\ level_by_idx(e) > max_level /\ ~(e \in ReleaseBunches(n, u) /\ level_by_idx(e) <= u)
           => Linked(W, e, Cleared(S, n, u, c, e))
  BY DEF Swept
<1>4. CASE e \in ReleaseBunches(n, u) /\ c \notin Path[e]
  <2>1. e \in Path[n] /\ level_by_idx(e) + 4 > u
    BY <1>4 DEF ReleaseBunches
  <2>2. e \in Path[c] /\ e # c
    <3>1. e \in Path[c] \/ c \in Path[e]
      BY <1>1, <2>1, OneAbove
    <3>2. c \in Path[c]
      BY <1>1, PathUse
    <3> QED
      BY <1>4, <3>1, <3>2
  <2>3. level_by_idx(e) + 4 <= level_by_idx(c)
    BY <1>1, <2>1, <2>2, OneAbove
  <2>4. level_by_idx(c) > u
    BY <1>1, <1>2, <2>1, <2>3
  <2>5. PICK m \in S : c \in Path[m]
    BY <1>1, <2>4, OutsideBunch
  <2>6. f = 0 /\ u = max_level
    BY <2>5 DEF ReleaseInv
  <2>7. m \in Nodes /\ e \in Path[m]
    BY <1>1, <2>2, <2>5, PathUse, TargetFacts
  <2>8. Spot(e, m) = Spot(e, n)
    <3>1. PICK d \in SubBunches(e) : Spot(e, n) = Half(d) /\ d \in Path[c]
      BY <1>1, <1>2, <2>2, SharedSpot
    <3>2. d \in Path[m]
      BY <2>5, <2>7, <3>1, PathUse
    <3> QED
      BY <1>2, <2>7, <3>1, <3>2, SpotFacts
  <2>9. SpotsOf(e, S \cup {n}) = SpotsOf(e, S)
    <3>1. SpotsOf(e, S \cup {n}) = SpotsOf(e, S) \cup {Spot(e, n)}
      BY <2>1, OutsideBunch
    <3>2. Spot(e, m) \in SpotsOf(e, S)
      BY <2>7 DEF SpotsOf, Contains
    <3> QED
      BY <2>8, <3>1, <3>2
  <2>10. Cleared(S, n, u, c, e) = S \cup {n}
    BY <1>4 DEF Cleared
  <2>11. level_by_idx(e) > max_level => ~(level_by_idx(e) <= u)
    BY <1>1, <1>2, <2>6
  <2> QED
    BY <1>3, <2>9, <2>10, <2>11 DEF Shows, Linked
<1>5. CASE ~(e \in ReleaseBunches(n, u) /\ c \notin Path[e])
  <2>1. Cleared(S, n, u, c, e) = S
    BY <1>5 DEF Cleared
  <2>2. ASSUME level_by_idx(e) > max_level, e \in ReleaseBunches(n, u), level_by_idx(e) <= u
        PROVE  Linked(W, e, S)
    <3>1. f # 0
      BY <1>1, <1>2, <2>2, MaxLevel DEF ReleaseInv
    <3>2. \A m \in S : e \notin Path[m]
      BY <2>2, <3>1 DEF ReleaseInv
    <3>3. SpotsOf(e, S) = {}
      BY <3>2, OutsideBunch
    <3> QED
      BY <3>3 DEF Linked
  <2> QED
    BY <1>3, <2>1, <2>2
<1> QED
  BY <1>4, <1>5

(* The leaf above b still has the bits for n, and no other block's.        *)
LEMMA LeafToClean ==
  ASSUME NEW W, NEW S \in SUBSET Targets, NEW n \in Targets,
         NEW u, NEW f, ReleaseInv(S, n, u, f),
         NEW b \in Bunches, b \in ReleaseBunches(n, u), SmarcaInv(W, S, n, u, b)
  PROVE  /\ level_by_idx(b) > max_level /\ Up(b) \in ReleaseBunches(n, u)
         /\ SpotsOf(Up(b), S \cup {n}) = SpotsOf(Up(b), S) \cup {Half(b)}
         /\ Shows(W, Up(b), S \cup {n})
         /\ SpotsOf(Up(b), S) \in SUBSET Spots
         /\ Coal(W[Up(b)]) \in SUBSET Halves /\ Coal(W[Up(b)]) \subseteq SpotsOf(Up(b), S) \cup {Half(b)}
         /\ Half(b) \in Coal(W[Up(b)]) /\ Half(b) \notin SpotsOf(Up(b), S)
         /\ ~Covered(Half(b) \div 2, SpotsOf(Up(b), S))
<1> DEFINE p == parent_idx_by_idx(b)
           c == Up(b)
           h == Half(b)
           Q == SpotsOf(c, S)
           K == Coal(W[c])
<1>1. /\ b \in Path[n] /\ level_by_idx(b) > max_level /\ level_by_idx(b) \in Nat /\ u \in Nat
      /\ level_by_idx(b) > u /\ u >= max_level
  BY BunchFacts, MaxLevel DEF ReleaseBunches, ReleaseInv, SmarcaInv
<1>2. /\ n \in Nodes /\ b \in Roots /\ b # 1 /\ c \in Bunches /\ c \in Roots /\ c # b
      /\ c \in Path[n] /\ b \notin Path[c] /\ b \in SubBunches(c)
      /\ p \in Nodes /\ p \in Path[n]
      /\ level_by_idx(b) = level_by_idx(c) + 4
      /\ h \in Halves /\ h \div 2 = container_pos(p) /\ Spot(c, n) = h
  BY <1>1, OneUp
<1>3. c \in ReleaseBunches(n, u)
  BY <1>1, <1>2 DEF ReleaseBunches
<1>4. Shows(W, c, S \cup {n})
  <2>1. Cleared(S, n, u, b, c) = S \cup {n}
    BY <1>2, <1>3 DEF Cleared
  <2> QED
    BY <1>2, <2>1 DEF SmarcaInv, Swept
<1>5. SpotsOf(c, S \cup {n}) = Q \cup {h} /\ Q \in SUBSET Spots
  <2>1. c \in Bunches /\ c \in Path[n] /\ Spot(c, n) = h
    BY <1>2
  <2>2. SpotsOf(c, S \cup {n}) = Q \cup {h}
    BY <2>1, OutsideBunch
  <2>3. Q \in SUBSET Spots
    BY <2>1, OutsideBunch
  <2> QED
    BY <2>2, <2>3
<1>6. W[c] = Word(Q \cup {h}, K) /\ K \in SUBSET Halves /\ K \subseteq Q \cup {h}
  BY <1>2, <1>4, <1>5, ShownWord
<1>7. h \in K
  BY DEF SmarcaInv, Marked
<1>8. S \in SUBSET Nodes
  BY TargetFacts
<1>9. h \notin Q
  <2>1. \A m \in S : b \notin Path[m]
    BY DEF SmarcaInv
  <2> QED
    BY <1>2, <1>8, <2>1, SpotsFacts
<1>10. ~Covered(h \div 2, Q)
  <2> SUFFICES ASSUME NEW m \in S, BUNCHROOT(m) = c, m \in Path[p]
               PROVE  FALSE
    BY <1>2, <1>8, CoveredSpots
  <2>1. m \in Path[n]
    BY <1>2, PathUse
  <2>2. c \in Path[m]
    BY TargetFacts
  <2> QED
    BY <1>3, <2>1, <2>2 DEF ReleaseInv, Overlap, Contains
<1> QED
  BY <1>1, <1>3, <1>4, <1>5, <1>6, <1>7, <1>9, <1>10

(* What smarca finds there, and what it writes. *)
Cleans(W, S, b) ==
  LET c == Up(b)
      pos == container_pos(parent_idx_by_idx(b))
      clean == W[c] \ LeafMask({OwnCoalBit(b), OwnSide(b)}, pos)
      new == Word(SpotsOf(c, S), Coal(W[c]) \ {Half(b)})
  IN /\ pos > 1
     /\ IsSet(W[c], OwnCoalBit(b), pos)
     /\ IsSet(clean, BuddySide(b), pos) => clean = new /\ SpotsOf(c, S) # {}
     /\ ~IsSet(clean, BuddySide(b), pos) =>
          /\ ClearAbove(pos, clean) = new
          /\ Blocked(clean, pos) = {} <=> SpotsOf(c, S) = {}

LEMMA CleanWord ==
  ASSUME NEW W, NEW S \in SUBSET Targets, NEW n \in Targets,
         NEW u, NEW f, ReleaseInv(S, n, u, f),
         NEW b \in Bunches, b \in ReleaseBunches(n, u), SmarcaInv(W, S, n, u, b)
  PROVE  Cleans(W, S, b)
<1> DEFINE c == Up(b)
           pos == container_pos(parent_idx_by_idx(b))
           clean == W[c] \ LeafMask({OwnCoalBit(b), OwnSide(b)}, pos)
           h == Half(b)
           Q == SpotsOf(c, S)
           K == Coal(W[c])
           w == Word(Q \cup {h}, K) \ (SideMask(h) \cup CoalMask(h))
<1>1. /\ W[c] = Word(Q \cup {h}, K) /\ Q \in SUBSET Spots
      /\ K \in SUBSET Halves /\ K \subseteq Q \cup {h}
      /\ h \in K /\ h \notin Q /\ ~Covered(h \div 2, Q) /\ level_by_idx(b) > max_level
  <2>1. W[c] = Word(Q \cup {h}, K)
    <3>1. Shows(W, c, S \cup {n}) /\ SpotsOf(c, S \cup {n}) = Q \cup {h}
      BY LeafToClean
    <3> QED
      BY <3>1 DEF Shows
  <2>2. Q \in SUBSET Spots
    BY LeafToClean
  <2>3. K \in SUBSET Halves
    BY LeafToClean
  <2>4. K \subseteq Q \cup {h}
    BY LeafToClean
  <2>5. h \in K /\ h \notin Q
    BY LeafToClean
  <2>6. ~Covered(h \div 2, Q) /\ level_by_idx(b) > max_level
    BY LeafToClean
  <2> QED
    BY <2>1, <2>2, <2>3, <2>4, <2>5, <2>6
<1>2. b \in Roots /\ b # 1
  BY <1>1, BunchFacts
<1>3. h \in Halves /\ h \div 2 = pos /\ pos \in Positions /\ pos >= LEAF_START_POSITION
  BY <1>2, UpFacts
<1>4. /\ LeafMask({OwnCoalBit(b)}, pos) = CoalMask(h)
      /\ LeafMask({OwnCoalBit(b), OwnSide(b)}, pos) = SideMask(h) \cup CoalMask(h)
      /\ LeafMask({BuddySide(b)}, pos) = SideMask(OtherHalf(h))
  BY <1>2, OwnMasks
<1> HIDE DEF pos, h, c
<1>5. IsSet(W[c], OwnCoalBit(b), pos)
  BY <1>1, <1>4 DEF IsSet, Coal
<1>6. pos > 1
  BY <1>3 DEF Positions, LEAF_START_POSITION
<1> HIDE DEF K, Q
<1>7. clean = w
  BY <1>1, <1>4
<1> HIDE DEF clean
<1>8. IsSet(clean, BuddySide(b), pos) <=> SideMask(OtherHalf(h)) \subseteq w
  BY <1>4, <1>7 DEF IsSet
<1>9. /\ SideMask(OtherHalf(h)) \subseteq w => w = Word(Q, K \ {h}) /\ Q # {}
      /\ ~(SideMask(OtherHalf(h)) \subseteq w) =>
           /\ ClearAbove(h \div 2, w) = Word(Q, K \ {h})
           /\ Blocked(w, h \div 2) = {} <=> Q = {}
  BY <1>1, <1>3, WordCleans
<1> HIDE DEF w
<1>10. /\ IsSet(clean, BuddySide(b), pos) => clean = Word(Q, K \ {h}) /\ Q # {}
       /\ ~IsSet(clean, BuddySide(b), pos) =>
            /\ ClearAbove(pos, clean) = Word(Q, K \ {h})
            /\ Blocked(clean, pos) = {} <=> Q = {}
  BY <1>3, <1>7, <1>8, <1>9
<1> QED
  BY <1>5, <1>6, <1>10 DEF Cleans, clean, pos, Q, K, h, c

(* The CAS of smarca takes the bits for n out of the bunch above b. *)
LEMMA CleanStep ==
  ASSUME NEW W \in [Bunches -> SUBSET WordBits], NEW S \in SUBSET Targets, NEW n \in Targets,
         NEW u, NEW f, ReleaseInv(S, n, u, f),
         NEW b \in Bunches, b \in ReleaseBunches(n, u), SmarcaInv(W, S, n, u, b),
         NEW V, V = [W EXCEPT ![Up(b)] = Word(SpotsOf(Up(b), S), Coal(W[Up(b)]) \ {Half(b)})]
  PROVE  /\ Up(b) \in ReleaseBunches(n, u)
         /\ Swept(V, S, n, u, Up(b))
         /\ level_by_idx(Up(b)) > u /\ SpotsOf(Up(b), S) = {} => SmarcaInv(V, S, n, u, Up(b))
<1> DEFINE c == Up(b)
           h == Half(b)
           Q == SpotsOf(c, S)
           K == Coal(W[c])
<1>1. /\ b \in Path[n] /\ level_by_idx(b) > max_level /\ level_by_idx(b) \in Nat /\ u \in Nat
      /\ level_by_idx(b) > u /\ u >= max_level
  BY BunchFacts, MaxLevel DEF ReleaseBunches, ReleaseInv, SmarcaInv
<1>2. /\ n \in Nodes /\ b \in Roots /\ b # 1 /\ c \in Bunches /\ c \in Roots /\ c \in Nodes /\ c # b
      /\ c \in Path[n] /\ c \in Path[b] /\ b \notin Path[c] /\ b \in SubBunches(c)
      /\ h \in Halves /\ Spot(c, n) = h /\ level_by_idx(c) \in Nat
      /\ \A e \in Bunches : e \in Path[n] /\ c \in Path[e] /\ e # c => b \in Path[e]
      /\ \A e \in Bunches : level_by_idx(e) > max_level /\ Up(e) = c /\ Half(e) = h => e = b
  BY <1>1, OneUp, BunchFacts
<1>3. /\ c \in ReleaseBunches(n, u)
      /\ Shows(W, c, S \cup {n}) /\ h \in K /\ h \notin Q
      /\ K \in SUBSET Halves /\ K \subseteq Q \cup {h}
      /\ SpotsOf(c, S \cup {n}) = Q \cup {h}
  <2>1. c \in ReleaseBunches(n, u)
    BY LeafToClean
  <2>2. Shows(W, c, S \cup {n})
    BY LeafToClean
  <2>3. h \in K /\ h \notin Q
    BY LeafToClean
  <2>4. K \in SUBSET Halves
    BY LeafToClean
  <2>5. K \subseteq Q \cup {h}
    BY LeafToClean
  <2>6. SpotsOf(c, S \cup {n}) = Q \cup {h}
    BY LeafToClean
  <2> QED
    BY <2>1, <2>2, <2>3, <2>4, <2>5, <2>6
<1>4. Cleared(S, n, u, b, c) = S \cup {n}
  BY <1>2, <1>3 DEF Cleared
<1>5. level_by_idx(c) > u => Linked(W, c, S \cup {n})
  <2>1. level_by_idx(c) > u => level_by_idx(c) > max_level /\ ~(level_by_idx(c) <= u)
    BY <1>1, <1>2, MaxLevel
  <2> QED
    BY <1>2, <1>4, <2>1 DEF SmarcaInv, Swept
<1>7. V[c] = Word(Q, K \ {h}) /\ \A e \in Bunches : e # c => V[e] = W[e]
  BY <1>2
<1>8. Shows(V, c, S) /\ Coal(V[c]) = K \ {h}
  <2>1. K \ {h} \in SUBSET Halves /\ K \ {h} \subseteq Q
    BY <1>3
  <2> HIDE DEF K, h, c
  <2>2. Coal(V[c]) = K \ {h}
    BY <1>7, <2>1, CoalOfWord
  <2> QED
    BY <1>7, <2>1, <2>2 DEF Shows
<1>9. ASSUME NEW e \in Bunches, level_by_idx(e) > max_level, e # b, Marked(W, e)
      PROVE  Marked(V, e)
  <2>1. Up(e) \in Bunches
    BY <1>9, BunchFacts
  <2>2. CASE Up(e) # c
    BY <1>7, <1>9, <2>1, <2>2 DEF Marked
  <2>3. CASE Up(e) = c
    <3>1. Half(e) # h
      BY <1>2, <1>9, <2>3
    <3> QED
      BY <1>8, <1>9, <2>3, <3>1 DEF Marked
  <2> QED
    BY <2>2, <2>3
<1>10. ASSUME level_by_idx(c) > u
       PROVE  /\ Linked(V, c, S)
              /\ Q = {} => Marked(V, c)
  <2>1. Q \cup {h} \subseteq K => Marked(W, c)
    BY <1>3, <1>5, <1>10 DEF Linked
  <2>2. Q \subseteq K \ {h} => Q \cup {h} \subseteq K
    BY <1>3
  <2>3. Marked(W, c) => Marked(V, c)
    <3>1. level_by_idx(c) > max_level /\ c # b
      BY <1>1, <1>2, <1>10, MaxLevel
    <3> QED
      BY <1>2, <1>9, <3>1
  <2> QED
    BY <1>8, <2>1, <2>2, <2>3 DEF Linked
<1>11. ASSUME NEW e \in Bunches
       PROVE  /\ Shows(V, e, Cleared(S, n, u, c, e))
              /\ level_by_idx(e) > max_level /\ ~(e \in ReleaseBunches(n, u) /\ level_by_idx(e) <= u)
                   => Linked(V, e, Cleared(S, n, u, c, e))
  <2>1. CASE e = c
    <3>1. Cleared(S, n, u, c, c) = S
      BY <1>2, PathUse DEF Cleared
    <3>2. ~(level_by_idx(c) <= u) => level_by_idx(c) > u
      BY <1>1, <1>2
    <3> QED
      BY <1>3, <1>8, <1>10, <2>1, <3>1, <3>2
  <2>2. CASE e # c
    <3>1. Cleared(S, n, u, c, e) = Cleared(S, n, u, b, e)
      <4>1. e \in ReleaseBunches(n, u) => (b \in Path[e] <=> c \in Path[e])
        BY <1>2, <2>2, BunchFacts, PathUse DEF ReleaseBunches
      <4> QED
        BY <4>1 DEF Cleared
    <3>2. /\ Shows(W, e, Cleared(S, n, u, c, e))
          /\ level_by_idx(e) > max_level /\ ~(e \in ReleaseBunches(n, u) /\ level_by_idx(e) <= u)
               => Linked(W, e, Cleared(S, n, u, c, e))
      BY <3>1 DEF SmarcaInv, Swept
    <3>3. Shows(V, e, Cleared(S, n, u, c, e))
      BY <1>7, <2>2, <3>2 DEF Shows
    <3>4. ASSUME level_by_idx(e) > max_level, ~(e \in ReleaseBunches(n, u) /\ level_by_idx(e) <= u)
          PROVE  Linked(V, e, Cleared(S, n, u, c, e))
      <4>1. CASE e = b
        <5>1. Cleared(S, n, u, c, b) = S
          BY <1>2 DEF Cleared
        <5>2. SpotsOf(b, S) = {}
          BY OutsideBunch DEF SmarcaInv
        <5> QED
          BY <4>1, <5>1, <5>2 DEF Linked
      <4>2. CASE e # b
        <5>1. Marked(W, e) => Marked(V, e)
          BY <1>9, <3>4, <4>2
        <5>2. Coal(V[e]) = Coal(W[e])
          BY <1>7, <2>2
        <5> QED
          BY <3>2, <3>4, <5>1, <5>2 DEF Linked
      <4> QED
        BY <4>1, <4>2
    <3> QED
      BY <3>3, <3>4
  <2> QED
    BY <2>1, <2>2
<1> HIDE DEF c
<1>12. Swept(V, S, n, u, c)
  BY <1>11 DEF Swept
<1>13. ASSUME level_by_idx(c) > u, Q = {}
       PROVE  SmarcaInv(V, S, n, u, c)
  <2>1. \A m \in S : c \notin Path[m]
    BY <1>2, <1>13, OutsideBunch
  <2> QED
    BY <1>10, <1>12, <1>13, <2>1 DEF SmarcaInv
<1> QED
  BY <1>3, <1>12, <1>13 DEF c

(***************************************************************************)
(* The lock.                                                               *)
(***************************************************************************)

(* Only the holder of the lock is inside the blocking allocator. *)
LockInv == BD_SPIN_LOCK => \A t \in Threads : pc[t] # "idle" => glock = t

(* When a thread moves there, the others are outside, *)
LEMMA OthersOutside ==
  ASSUME LockInv, BD_SPIN_LOCK, NEW t \in Threads,
         \/ \E n \in Targets : AllocStart(t, n) \/ FreeStart(t, n)
         \/ Step(t)
  PROVE  \A u \in Threads \ {t} : pc[u] = "idle"
<1>1. CASE \E n \in Targets : AllocStart(t, n) \/ FreeStart(t, n)
  <2>1. glock = NoOwner
    BY <1>1 DEF AllocStart, FreeStart, BD_LOCK
  <2> QED
    BY <2>1, TreeAssumption DEF LockInv
<1>2. CASE Step(t)
  <2>1. pc[t] # "idle"
    BY <1>2 DEF Step, Inside, CheckParent, Marca, Libera, SmarcaRead, SmarcaCAS, AllocReturn, FreeReturn, At
  <2> QED
    BY <2>1 DEF LockInv
<1> QED
  BY <1>1, <1>2

(* and stay where they are. *)
LEMMA OthersStay ==
  ASSUME TypeOK, NEW t \in Threads,
         \/ \E n \in Targets : AllocStart(t, n) \/ FreeStart(t, n)
         \/ Step(t)
  PROVE  \A u \in Threads \ {t} : pc'[u] = pc[u]
<1> USE DEF TypeOK, Goto
<1>1. CASE \E n \in Targets : AllocStart(t, n) \/ FreeStart(t, n)
  BY <1>1 DEF AllocStart, FreeStart, ReleaseFrom
<1>2. CASE CheckParent(t) \/ Marca(t)
  BY <1>2 DEF CheckParent, Marca, ReleaseFrom
<1>3. CASE Libera(t) \/ SmarcaCAS(t)
  BY <1>3 DEF Libera, SmarcaCAS, SmarcaFrom
<1>4. CASE SmarcaRead(t)
  BY <1>4 DEF SmarcaRead
<1>5. CASE AllocReturn(t) \/ FreeReturn(t)
  BY <1>5 DEF AllocReturn, FreeReturn, ForgetLocals, Leave
<1> QED
  BY <1>1, <1>2, <1>3, <1>4, <1>5 DEF Step, Inside

LEMMA LockStep == TypeOK /\ LockInv /\ [Next]_vars => LockInv'
<1> SUFFICES ASSUME TypeOK, LockInv, [Next]_vars, BD_SPIN_LOCK
             PROVE  \A u \in Threads : pc'[u] # "idle" => glock' = u
  BY DEF LockInv
<1> USE DEF TypeOK
<1>1. ASSUME NEW t \in Threads, NEW n \in Targets, AllocStart(t, n) \/ FreeStart(t, n)
      PROVE  \A u \in Threads : pc'[u] # "idle" => glock' = u
  <2>1. glock' = t
    BY <1>1 DEF AllocStart, FreeStart, BD_LOCK
  <2>2. \A u \in Threads \ {t} : pc'[u] = "idle"
    BY <1>1, OthersOutside, OthersStay
  <2> QED
    BY <2>1, <2>2
<1>2. ASSUME NEW t \in Threads, Inside(t)
      PROVE  \A u \in Threads : pc'[u] # "idle" => glock' = u
  <2>1. glock' = glock /\ pc[t] # "idle"
    BY <1>2 DEF Inside, CheckParent, Marca, Libera, SmarcaRead, SmarcaCAS, At
  <2>2. \A u \in Threads \ {t} : pc'[u] = pc[u]
    BY <1>2, OthersStay DEF Step
  <2> QED
    BY <2>1, <2>2 DEF LockInv
<1>3. ASSUME NEW t \in Threads, AllocReturn(t) \/ FreeReturn(t)
      PROVE  \A u \in Threads : pc'[u] # "idle" => glock' = u
  <2>1. pc'[t] = "idle"
    BY <1>3 DEF AllocReturn, FreeReturn, ForgetLocals, Leave, Goto
  <2>2. \A u \in Threads \ {t} : pc'[u] = "idle"
    BY <1>3, OthersOutside, OthersStay DEF Step
  <2> QED
    BY <2>1, <2>2
<1>4. CASE UNCHANGED vars
  BY <1>4 DEF vars, LockInv
<1> QED
  BY <1>1, <1>2, <1>3, <1>4 DEF Next, Step

(***************************************************************************)
(* The inductive invariant of the blocking build.                          *)
(***************************************************************************)

(* An allocation fails when the held blocks leave no room for its target. *)
Reason(t) == failed_at[t] # 0 => NoRoomFor(held, target[t], failed_at[t])

ReleasingInv(t) == ReleaseInv(held, target[t], upper_bound[t], failed_at[t]) /\ Reason(t)

(* What smarca has computed from the word it read. *)
WrittenInv(t) ==
  LET c == Up(br[t])
  IN /\ old_val[t] = nodes[c]
     /\ new_val[t] = Word(SpotsOf(c, held), Coal(nodes[c]) \ {Half(br[t])})
     /\ do_exit[t] <=> SpotsOf(c, held) # {}

OperationInv(t) ==
  LET n == target[t]
      b == br[t]
      u == upper_bound[t]
  IN /\ pc[t] # "endless"
     /\ pc[t] = "check_parent" => ClimbInv(nodes, held, n, b)
     /\ pc[t] = "alloc_done" /\ failed_at[t] = 0 => GrantInv(nodes, held, n)
     /\ pc[t] = "alloc_done" /\ failed_at[t] # 0 => ExactTree(nodes, held) /\ Reason(t)
     /\ pc[t] = "marca" => ReleasingInv(t) /\ MarcaInv(nodes, held, n, u, b)
     /\ pc[t] = "libera" => ReleasingInv(t) /\ LiberaInv(nodes, held, n, u)
     /\ pc[t] = "smarca" =>
          /\ ReleasingInv(t) /\ SmarcaInv(nodes, held, n, u, b)
          /\ p_pos[t] = container_pos(parent_idx_by_idx(b))
     /\ pc[t] = "smarca_cas" => ReleasingInv(t) /\ SmarcaInv(nodes, held, n, u, b) /\ WrittenInv(t)
     /\ pc[t] = "free_done" => ExactTree(nodes, held)

TreeInv ==
  /\ NoOverlap
  /\ Quiescent => ExactTree(nodes, held)
  /\ \A t \in Threads : pc[t] # "idle" => OperationInv(t)

SLInv == TypeInv /\ LockInv /\ TreeInv

LEMMA EmptyTree == ExactTree([e \in Bunches |-> {}], {})
<1> DEFINE W == [e \in Bunches |-> {}]
<1> SUFFICES ASSUME NEW e \in Bunches
             PROVE  Shows(W, e, {}) /\ Linked(W, e, {})
  BY DEF ExactTree
<1>1. SpotsOf(e, {}) = {}
  BY DEF SpotsOf
<1>2. Coal({}) = {}
  BY HalfBits DEF Coal
<1>3. Word({}, {}) = {}
  <2>1. \A p : ~Covered(p, {})
    BY DEF Covered
  <2>2. ASSUME NEW x
        PROVE  x \notin Word({}, {})
    BY <2>1, WordBit, LeafBitKinds
  <2> QED
    BY <2>2
<1>4. W[e] = {}
  OBVIOUS
<1> QED
  BY <1>1, <1>2, <1>3, <1>4 DEF Shows, Linked

LEMMA SLInit == Init => SLInv
<1> SUFFICES ASSUME Init
             PROVE  SLInv
  OBVIOUS
<1>1. TypeInv
  BY TypeInit
<1>2. LockInv
  BY DEF Init, CallersInit, LockInv
<1>3. ExactTree(nodes, held)
  BY EmptyTree DEF Init, CallersInit
<1>4. NoOverlap /\ \A t \in Threads : pc[t] = "idle"
  BY DEF Init, CallersInit, NoOverlap
<1> QED
  BY <1>1, <1>2, <1>3, <1>4 DEF SLInv, TreeInv

(* A step of t concerns t alone: the others are outside. *)
LEMMA OnlyMover ==
  ASSUME SLInv, BD_SPIN_LOCK, NEW t \in Threads,
         \/ \E n \in Targets : AllocStart(t, n) \/ FreeStart(t, n)
         \/ Step(t),
         NoOverlap',
         pc'[t] = "idle" => ExactTree(nodes', held'),
         pc'[t] # "idle" => OperationInv(t)'
  PROVE  TreeInv'
<1>1. \A u \in Threads \ {t} : pc'[u] = "idle"
  BY OthersOutside, OthersStay DEF SLInv, TypeInv
<1> QED
  BY <1>1 DEF TreeInv, Quiescent

(* An operation starts on an exact tree. *)
LEMMA StartsExact ==
  ASSUME SLInv, BD_SPIN_LOCK, NEW t \in Threads,
         \E n \in Targets : AllocStart(t, n) \/ FreeStart(t, n)
  PROVE  ExactTree(nodes, held) /\ failed_at[t] = 0 /\ pc[t] = "idle"
<1>1. pc[t] = "idle"
  BY DEF AllocStart, FreeStart, At
<1>2. \A u \in Threads \ {t} : pc[u] = "idle"
  BY OthersOutside DEF SLInv
<1> QED
  BY <1>1, <1>2 DEF SLInv, TypeInv, BranchInv, ThreadInv, TreeInv, Quiescent

(* What a thread inside may rely on. *)
LEMMA InsideFacts ==
  ASSUME SLInv, NEW t \in Threads, pc[t] # "idle"
  PROVE  /\ OperationInv(t) /\ ThreadInv(t)
         /\ target[t] \in Targets /\ held \in SUBSET Targets
         /\ nodes \in [Bunches -> SUBSET WordBits]
         /\ NoOverlap /\ BlocksApart(held)
<1>1. held \in SUBSET Targets /\ nodes \in [Bunches -> SUBSET WordBits]
  BY DEF SLInv, TypeInv, TypeOK, CallersTypeOK
<1>2. ThreadInv(t) /\ target[t] \in Targets
  BY DEF SLInv, TypeInv, BranchInv, ThreadInv
<1> QED
  BY <1>1, <1>2 DEF SLInv, TreeInv, NoOverlap, BlocksApart

(* How a release begins. *)
LEMMA ReleaseOpens ==
  ASSUME TypeOK, NEW t \in Threads, NEW n \in Targets, NEW u \in Nat, ReleaseFrom(t, n, u),
         target'[t] = n, ReleaseInv(held', n, u, failed_at'[t]), Reason(t)',
         level_by_idx(BUNCHROOT(n)) > u => MarcaInv(nodes', held', n, u, BUNCHROOT(n)),
         ~(level_by_idx(BUNCHROOT(n)) > u) => LiberaInv(nodes', held', n, u)
  PROVE  OperationInv(t)' /\ pc'[t] # "idle"
<1>1. upper_bound'[t] = u /\ br'[t] = BUNCHROOT(n)
  BY DEF ReleaseFrom, TypeOK, CallersTypeOK
<1>2. ReleasingInv(t)'
  BY <1>1 DEF ReleasingInv
<1>3. CASE level_by_idx(BUNCHROOT(n)) > u
  <2>1. pc'[t] = "marca"
    BY <1>3 DEF ReleaseFrom, TypeOK, Goto, br_level
  <2> QED
    BY <1>1, <1>2, <1>3, <2>1 DEF OperationInv
<1>4. CASE ~(level_by_idx(BUNCHROOT(n)) > u)
  <2>1. pc'[t] = "libera"
    BY <1>4 DEF ReleaseFrom, TypeOK, Goto, br_level
  <2> QED
    BY <1>1, <1>2, <1>4, <2>1 DEF OperationInv
<1> QED
  BY <1>3, <1>4

(* How it ends. *)
LEMMA ReleaseCloses ==
  ASSUME NEW t \in Threads, pc'[t] = FreeDone(t), failed_at' = failed_at, held' = held,
         target' = target, ExactTree(nodes', held), Reason(t)
  PROVE  OperationInv(t)' /\ pc'[t] # "idle"
<1>1. Reason(t)'
  BY DEF Reason
<1> QED
  BY <1>1 DEF OperationInv, FreeDone

LEMMA AllocStartTree ==
  ASSUME SLInv, BD_SPIN_LOCK, NEW t \in Threads, NEW n \in Targets, AllocStart(t, n)
  PROVE  TreeInv'
<1> USE DEF SLInv, TypeInv, TypeOK, CallersTypeOK
<1> DEFINE b == BUNCHROOT(n)
           pos == container_pos(n)
<1>1. ExactTree(nodes, held) /\ failed_at[t] = 0 /\ held' = held /\ target'[t] = n
      /\ held \in SUBSET Targets /\ b \in Bunches /\ n \in Indexes /\ n # 0
  BY StartsExact, TargetFacts DEF AllocStart
<1>2. NoOverlap'
  BY <1>1 DEF TreeInv, NoOverlap
<1>3. CASE ~IS_ALLOCABLE(nodes[b], pos)
  <2>1. pc'[t] = "alloc_done" /\ failed_at'[t] = n /\ nodes' = nodes
    BY <1>3 DEF AllocStart, Goto
  <2>2. \E m \in held : Overlap(m, n)
    <3>1. Shows(nodes, b, held)
      BY <1>1 DEF ExactTree
    <3> QED
      BY <1>1, <1>3, <3>1, TakeTest
  <2>3. OperationInv(t)'
    <3>1. NoRoomFor(held, n, n)
      BY <1>1, <2>2, TargetFacts, SelfOnPath DEF NoRoomFor, Contains
    <3> QED
      BY <1>1, <2>1, <3>1 DEF OperationInv, Reason
  <2> QED
    BY <1>2, <2>1, <2>3, OnlyMover
<1>4. CASE IS_ALLOCABLE(nodes[b], pos)
  <2>1. /\ nodes' = [nodes EXCEPT ![b] = occupa_container(pos, @)] /\ br'[t] = b
        /\ pc'[t] = IF br_level(n) <= max_level THEN "alloc_done" ELSE "check_parent"
        /\ failed_at'[t] = 0
    BY <1>1, <1>4 DEF AllocStart, Goto
  <2>2. ClimbInv(nodes', held, n, b)
    BY <1>1, <1>4, <2>1, TakeStep
  <2>3. CASE br_level(n) <= max_level
    <3>1. pc'[t] = "alloc_done"
      BY <2>1, <2>3
    <3>2. GrantInv(nodes', held, n)
      BY <1>1, <2>2, <2>3, ClimbOver, TargetFacts DEF br_level
    <3>3. OperationInv(t)'
      BY <1>1, <2>1, <3>1, <3>2 DEF OperationInv
    <3> QED
      BY <1>2, <3>1, <3>3, OnlyMover
  <2>4. CASE ~(br_level(n) <= max_level)
    <3>1. pc'[t] = "check_parent"
      BY <2>1, <2>4
    <3>2. OperationInv(t)'
      BY <1>1, <2>1, <2>2, <3>1 DEF OperationInv
    <3> QED
      BY <1>2, <3>1, <3>2, OnlyMover
  <2> QED
    BY <2>3, <2>4
<1> QED
  BY <1>3, <1>4

LEMMA CheckParentTree ==
  ASSUME SLInv, BD_SPIN_LOCK, NEW t \in Threads, CheckParent(t)
  PROVE  TreeInv'
<1> DEFINE n == target[t]
           b == br[t]
           p == parent_idx_by_idx(b)
           c == BUNCHROOT(p)
<1>1. pc[t] = "check_parent"
  BY DEF CheckParent, At
<1>2. /\ OperationInv(t) /\ ThreadInv(t) /\ n \in Targets /\ held \in SUBSET Targets
      /\ nodes \in [Bunches -> SUBSET WordBits] /\ NoOverlap /\ BlocksApart(held)
  BY <1>1, InsideFacts
<1>3. ClimbInv(nodes, held, n, b)
  BY <1>1, <1>2 DEF OperationInv
<1>4. b \in Bunches /\ b \in Path[n] /\ level_by_idx(b) > max_level /\ failed_at[t] = 0
  BY <1>1, <1>2 DEF ThreadInv, OnBranch
<1>5. c = Up(b) /\ c \in Bunches /\ c \in Path[n] /\ p \in Indexes
  BY <1>2, <1>4, UpOneBunch DEF Up
<1>6. TypeOK
  BY DEF SLInv, TypeInv
<1>7. held' = held /\ target' = target
  BY DEF CheckParent
<1>8. NoOverlap'
  BY <1>2, <1>7 DEF NoOverlap
<1>9. CASE IS_OCCUPIED(nodes[c], container_pos(p))
  <2> DEFINE u == level_by_idx(b)
  <2>1. failed_at' = [failed_at EXCEPT ![t] = p] /\ ReleaseFrom(t, n, u) /\ nodes' = nodes
    BY <1>9 DEF CheckParent
  <2>2. failed_at'[t] = p
    BY <1>6, <2>1 DEF TypeOK, CallersTypeOK
  <2>3. /\ NoRoomFor(held, n, p)
        /\ ReleaseInv(held, n, u, p)
        /\ level_by_idx(BUNCHROOT(n)) > u => MarcaInv(nodes, held, n, u, BUNCHROOT(n))
        /\ ~(level_by_idx(BUNCHROOT(n)) > u) => LiberaInv(nodes, held, n, u)
    <3> HIDE DEF p, u
    <3> QED
      BY <1>2, <1>3, <1>4, <1>5, <1>9, ClimbFails DEF p, u
  <2>4. u \in Nat
    BY <1>4, BunchFacts
  <2>5. Reason(t)'
    BY <1>7, <2>2, <2>3 DEF Reason
  <2> HIDE DEF u, p, n
  <2>6. target'[t] = n
    BY <1>7 DEF n
  <2>7. OperationInv(t)' /\ pc'[t] # "idle"
    BY <1>2, <1>6, <1>7, <2>1, <2>2, <2>3, <2>4, <2>5, <2>6, ReleaseOpens
  <2> QED
    BY <1>8, <2>7, OnlyMover DEF Step, Inside
<1>10. CASE ~IS_OCCUPIED(nodes[c], container_pos(p))
  <2>1. /\ nodes' = [nodes EXCEPT ![c] = Fragmented(@, b)] /\ br' = [br EXCEPT ![t] = c]
        /\ Goto(t, IF level_by_idx(c) <= max_level THEN "alloc_done" ELSE "check_parent")
        /\ failed_at' = failed_at
    BY <1>10 DEF CheckParent
  <2>2. /\ br'[t] = c /\ failed_at'[t] = 0 /\ target'[t] = n
        /\ pc'[t] = IF level_by_idx(c) <= max_level THEN "alloc_done" ELSE "check_parent"
    BY <1>4, <1>6, <1>7, <2>1 DEF TypeOK, CallersTypeOK, Goto
  <2>3. ClimbInv(nodes', held, n, c)
    <3>1. nodes' = [nodes EXCEPT ![Up(b)] = Fragmented(@, b)]
      BY <1>5, <2>1
    <3>2. ~IS_OCCUPIED(nodes[Up(b)], container_pos(parent_idx_by_idx(b)))
      BY <1>5, <1>10
    <3>3. ClimbInv(nodes', held, n, Up(b))
      <4> HIDE DEF b, n
      <4> QED
        BY <1>2, <1>3, <1>4, <3>1, <3>2, ClimbStep
    <3> QED
      BY <1>5, <3>3
  <2>4. OperationInv(t)' /\ pc'[t] # "idle"
    <3>1. CASE level_by_idx(c) <= max_level
      <4>1. GrantInv(nodes', held, n)
        BY <1>2, <1>5, <2>3, <3>1, ClimbOver
      <4> QED
        BY <1>7, <2>2, <3>1, <4>1 DEF OperationInv
    <3>2. CASE ~(level_by_idx(c) <= max_level)
      BY <1>7, <2>2, <2>3, <3>2 DEF OperationInv
    <3> QED
      BY <3>1, <3>2
  <2> QED
    BY <1>8, <2>4, OnlyMover DEF Step, Inside
<1> QED
  BY <1>9, <1>10

LEMMA AllocReturnTree ==
  ASSUME SLInv, BD_SPIN_LOCK, NEW t \in Threads, AllocReturn(t)
  PROVE  TreeInv'
<1> DEFINE n == target[t]
<1>1. pc[t] = "alloc_done" /\ nodes' = nodes /\ held' = held \cup Granted(t) /\ pc'[t] = "idle"
  BY DEF AllocReturn, At, ForgetLocals, Leave, Goto, SLInv, TypeInv, TypeOK
<1>2. OperationInv(t) /\ NoOverlap
  BY <1>1, InsideFacts
<1>3. CASE failed_at[t] = 0
  <2>1. held' = held \cup {n}
    BY <1>1, <1>3 DEF Granted
  <2>2. GrantInv(nodes, held, n)
    BY <1>1, <1>2, <1>3 DEF OperationInv
  <2>3. ExactTree(nodes', held')
    BY <1>1, <2>1, <2>2 DEF GrantInv
  <2>4. NoOverlap'
    BY <1>2, <2>1, <2>2 DEF GrantInv, NoOverlap, Overlap
  <2> QED
    BY <1>1, <2>3, <2>4, OnlyMover DEF Step
<1>4. CASE failed_at[t] # 0
  <2>1. held' = held
    BY <1>1, <1>4 DEF Granted
  <2>2. ExactTree(nodes', held')
    BY <1>1, <1>2, <1>4, <2>1 DEF OperationInv
  <2>3. NoOverlap'
    BY <1>2, <2>1 DEF NoOverlap
  <2> QED
    BY <1>1, <2>2, <2>3, OnlyMover DEF Step
<1> QED
  BY <1>3, <1>4

LEMMA FreeStartTree ==
  ASSUME SLInv, BD_SPIN_LOCK, NEW t \in Threads, NEW n \in Targets, FreeStart(t, n)
  PROVE  TreeInv'
<1>1. ExactTree(nodes, held) /\ failed_at[t] = 0 /\ NoOverlap /\ TypeOK /\ held \in SUBSET Targets
  BY StartsExact DEF SLInv, TypeInv, TypeOK, CallersTypeOK, TreeInv
<1>2. /\ n \in held /\ held' = held \ {n} /\ target'[t] = n /\ nodes' = nodes /\ failed_at' = failed_at
      /\ ReleaseFrom(t, n, max_level)
  BY <1>1 DEF FreeStart, TypeOK, CallersTypeOK
<1>3. NoOverlap'
  BY <1>1, <1>2 DEF NoOverlap
<1>4. /\ ReleaseInv(held', n, max_level, 0)
      /\ level_by_idx(BUNCHROOT(n)) > max_level => MarcaInv(nodes, held', n, max_level, BUNCHROOT(n))
      /\ ~(level_by_idx(BUNCHROOT(n)) > max_level) => LiberaInv(nodes, held', n, max_level)
  <2>1. BlocksApart(held)
    BY <1>1 DEF NoOverlap, BlocksApart
  <2> QED
    BY <1>1, <1>2, <2>1, ReleaseBegins
<1>5. Reason(t)'
  BY <1>1, <1>2 DEF Reason
<1>6. OperationInv(t)' /\ pc'[t] # "idle"
  BY <1>1, <1>2, <1>4, <1>5, MaxLevel, ReleaseOpens
<1> QED
  BY <1>3, <1>6, OnlyMover

(* A bunch a release works on. *)
LEMMA InRelease ==
  ASSUME NEW t \in Threads, ThreadInv(t), target[t] \in Targets,
         pc[t] \in {"marca", "smarca", "smarca_cas"},
         level_by_idx(br[t]) > upper_bound[t], upper_bound[t] \in Nat
  PROVE  /\ br[t] \in ReleaseBunches(target[t], upper_bound[t])
         /\ br[t] \in Bunches /\ br[t] \in Path[target[t]] /\ level_by_idx(br[t]) > max_level
         /\ Up(br[t]) \in Bunches /\ BUNCHROOT(parent_idx_by_idx(br[t])) = Up(br[t])
         /\ br[t] \in Roots /\ br[t] # 1
<1>1. br[t] \in Bunches /\ br[t] \in Path[target[t]] /\ level_by_idx(br[t]) > max_level
  BY DEF ThreadInv, OnBranch
<1>2. level_by_idx(br[t]) \in Nat /\ Up(br[t]) \in Bunches /\ br[t] \in Roots /\ br[t] # 1
  BY <1>1, BunchFacts
<1> QED
  BY <1>1, <1>2 DEF ReleaseBunches, Up

LEMMA MarcaTree ==
  ASSUME SLInv, BD_SPIN_LOCK, NEW t \in Threads, Marca(t)
  PROVE  TreeInv'
<1> DEFINE n == target[t]
           b == br[t]
           u == upper_bound[t]
           c == Up(b)
           pos == container_pos(parent_idx_by_idx(b))
<1>1. pc[t] = "marca"
  BY DEF Marca, At
<1>2. /\ OperationInv(t) /\ ThreadInv(t) /\ n \in Targets /\ held \in SUBSET Targets
      /\ nodes \in [Bunches -> SUBSET WordBits] /\ NoOverlap
  BY <1>1, InsideFacts
<1>3. ReleasingInv(t) /\ MarcaInv(nodes, held, n, u, b)
  BY <1>1, <1>2 DEF OperationInv
<1>4. TypeOK /\ u \in Nat
  BY DEF SLInv, TypeInv, TypeOK, CallersTypeOK
<1>5. /\ b \in ReleaseBunches(n, u) /\ b \in Bunches /\ c \in Bunches
      /\ BUNCHROOT(parent_idx_by_idx(b)) = c /\ b \in Roots /\ b # 1
  BY <1>1, <1>2, <1>3, <1>4, InRelease DEF MarcaInv
<1>6. LeafMask({OwnCoalBit(b)}, pos) = CoalMask(Half(b))
  BY <1>5, OwnMasks
<1>7. held' = held /\ target' = target /\ upper_bound' = upper_bound /\ failed_at' = failed_at
  BY DEF Marca
<1>8. NoOverlap' /\ ReleasingInv(t)'
  BY <1>2, <1>3, <1>7 DEF NoOverlap, ReleasingInv, Reason
<1>9. CASE IsSet(nodes[c], OwnCoalBit(b), pos)
  <2>1. pc'[t] = "libera" /\ nodes' = nodes
    BY <1>4, <1>5, <1>9 DEF Marca, Goto, TypeOK
  <2>2. Half(b) \in Halves
    BY <1>5, UpFacts
  <2>3. Marked(nodes, b)
    BY <1>6, <1>9, <2>2 DEF IsSet, Marked, Coal
  <2>4. LiberaInv(nodes, held, n, u)
    BY <1>3, <2>3, MarcaStops
  <2>5. OperationInv(t)'
    BY <1>7, <1>8, <2>1, <2>4 DEF OperationInv
  <2> QED
    BY <1>8, <2>1, <2>5, OnlyMover DEF Step, Inside
<1>10. CASE ~IsSet(nodes[c], OwnCoalBit(b), pos)
  <2>1. /\ nodes' = [nodes EXCEPT ![c] = @ \cup LeafMask({OwnCoalBit(b)}, pos)]
        /\ br' = [br EXCEPT ![t] = c]
        /\ Goto(t, IF level_by_idx(c) > upper_bound[t] THEN "marca" ELSE "libera")
    BY <1>5, <1>10 DEF Marca
  <2>2. nodes' = [nodes EXCEPT ![Up(b)] = @ \cup CoalMask(Half(b))]
    BY <1>6, <2>1
  <2>3. br'[t] = c /\ pc'[t] = IF level_by_idx(c) > u THEN "marca" ELSE "libera"
    BY <1>4, <2>1 DEF TypeOK, Goto
  <2>4. /\ level_by_idx(c) > u => MarcaInv(nodes', held, n, u, c)
        /\ ~(level_by_idx(c) > u) => LiberaInv(nodes', held, n, u)
    <3>1. ReleaseInv(held, n, u, failed_at[t])
      BY <1>3 DEF ReleasingInv
    <3> HIDE DEF n, u, b
    <3> QED
      BY <1>2, <1>3, <1>5, <2>2, <3>1, MarcaStep
  <2>5. OperationInv(t)' /\ pc'[t] # "idle"
    <3>1. CASE level_by_idx(c) > u
      BY <1>7, <1>8, <2>3, <2>4, <3>1 DEF OperationInv
    <3>2. CASE ~(level_by_idx(c) > u)
      BY <1>7, <1>8, <2>3, <2>4, <3>2 DEF OperationInv
    <3> QED
      BY <3>1, <3>2
  <2> QED
    BY <1>8, <2>5, OnlyMover DEF Step, Inside
<1> QED
  BY <1>9, <1>10

LEMMA LiberaTree ==
  ASSUME SLInv, BD_SPIN_LOCK, NEW t \in Threads, Libera(t)
  PROVE  TreeInv'
<1> DEFINE n == target[t]
           b == BUNCHROOT(n)
           u == upper_bound[t]
           pos == container_pos(n)
           on == br_level(n) > u /\ Blocked(nodes[b], pos) = {}
<1>1. pc[t] = "libera"
  BY DEF Libera, At
<1>2. /\ OperationInv(t) /\ ThreadInv(t) /\ n \in Targets /\ held \in SUBSET Targets
      /\ nodes \in [Bunches -> SUBSET WordBits] /\ NoOverlap
  BY <1>1, InsideFacts
<1>3. ReleasingInv(t) /\ LiberaInv(nodes, held, n, u)
  BY <1>1, <1>2 DEF OperationInv
<1>4. TypeOK
  BY DEF SLInv, TypeInv
<1>5. ReleaseInv(held, n, u, failed_at[t]) /\ Reason(t)
  BY <1>3 DEF ReleasingInv
<1>6. /\ nodes' = [nodes EXCEPT ![b] = libera_container(pos, @)] /\ SmarcaFrom(t, b, on)
      /\ held' = held /\ target' = target /\ upper_bound' = upper_bound /\ failed_at' = failed_at
  BY DEF Libera
<1>7. NoOverlap' /\ ReleasingInv(t)'
  BY <1>2, <1>3, <1>6 DEF NoOverlap, ReleasingInv, Reason
<1>8. /\ b \in ReleaseBunches(n, u)
      /\ Swept(nodes', held, n, u, b)
      /\ level_by_idx(b) > u => Marked(nodes', b)
      /\ Blocked(nodes[b], pos) = {} <=> SpotsOf(b, held) = {}
  <2> HIDE DEF n, u
  <2> QED
    BY <1>2, <1>3, <1>5, <1>6, LiberaStep
<1>9. on <=> level_by_idx(b) > u /\ SpotsOf(b, held) = {}
  BY <1>8 DEF br_level
<1> HIDE DEF on
<1>10. CASE on
  <2>1. /\ br'[t] = b /\ p_pos'[t] = container_pos(parent_idx_by_idx(b)) /\ pc'[t] = "smarca"
    BY <1>4, <1>6, <1>10 DEF SmarcaFrom, TypeOK, Goto
  <2>2. \A m \in held : b \notin Path[m]
    <3>1. b \in Bunches /\ SpotsOf(b, held) = {}
      BY <1>2, <1>9, <1>10, TargetFacts
    <3> HIDE DEF b
    <3> QED
      BY <1>2, <3>1, OutsideBunch
  <2>3. SmarcaInv(nodes', held, n, u, b)
    BY <1>8, <1>9, <1>10, <2>2 DEF SmarcaInv
  <2>4. OperationInv(t)'
    BY <1>6, <1>7, <2>1, <2>3 DEF OperationInv
  <2> QED
    BY <1>7, <2>1, <2>4, OnlyMover DEF Step, Inside
<1>11. CASE ~on
  <2>1. pc'[t] = FreeDone(t)
    BY <1>4, <1>6, <1>11 DEF SmarcaFrom, TypeOK, Goto
  <2>2. ExactTree(nodes', held)
    <3> HIDE DEF n, u, b
    <3> QED
      BY <1>2, <1>5, <1>8, <1>9, <1>11, SweptOver
  <2>3. OperationInv(t)' /\ pc'[t] # "idle"
    BY <1>5, <1>6, <2>1, <2>2, ReleaseCloses
  <2> QED
    BY <1>7, <2>3, OnlyMover DEF Step, Inside
<1> QED
  BY <1>10, <1>11

(* The leaf is coalescing, so smarca goes on to its CAS. *)
LEMMA SmarcaReadTree ==
  ASSUME SLInv, BD_SPIN_LOCK, NEW t \in Threads, SmarcaRead(t)
  PROVE  TreeInv'
<1> DEFINE n == target[t]
           b == br[t]
           u == upper_bound[t]
           c == Up(b)
           pos == container_pos(parent_idx_by_idx(b))
           clean == nodes[c] \ LeafMask({OwnCoalBit(b), OwnSide(b)}, pos)
           new == Word(SpotsOf(c, held), Coal(nodes[c]) \ {Half(b)})
<1>1. pc[t] = "smarca"
  BY DEF SmarcaRead, At
<1>2. /\ OperationInv(t) /\ ThreadInv(t) /\ n \in Targets /\ held \in SUBSET Targets
      /\ nodes \in [Bunches -> SUBSET WordBits] /\ NoOverlap
  BY <1>1, InsideFacts
<1>3. ReleasingInv(t) /\ SmarcaInv(nodes, held, n, u, b) /\ p_pos[t] = pos
  BY <1>1, <1>2 DEF OperationInv
<1>4. TypeOK /\ u \in Nat
  BY DEF SLInv, TypeInv, TypeOK, CallersTypeOK
<1>5. b \in ReleaseBunches(n, u) /\ b \in Bunches /\ BUNCHROOT(parent_idx_by_idx(b)) = c
  BY <1>1, <1>2, <1>3, <1>4, InRelease DEF SmarcaInv
<1>6. /\ pos > 1 /\ IsSet(nodes[c], OwnCoalBit(b), pos)
      /\ IsSet(clean, BuddySide(b), pos) => clean = new /\ SpotsOf(c, held) # {}
      /\ ~IsSet(clean, BuddySide(b), pos) =>
           /\ ClearAbove(pos, clean) = new
           /\ Blocked(clean, pos) = {} <=> SpotsOf(c, held) = {}
  <2>1. ReleaseInv(held, n, u, failed_at[t])
    BY <1>3 DEF ReleasingInv
  <2> HIDE DEF n, u, b
  <2>2. Cleans(nodes, held, b)
    BY <1>2, <1>3, <1>5, <2>1, CleanWord
  <2> QED
    BY <2>2 DEF Cleans
<1>7. /\ held' = held /\ target' = target /\ upper_bound' = upper_bound /\ failed_at' = failed_at
      /\ nodes' = nodes /\ br' = br
  BY DEF SmarcaRead
<1>8. NoOverlap' /\ ReleasingInv(t)'
  BY <1>2, <1>3, <1>7 DEF NoOverlap, ReleasingInv, Reason
<1>9. /\ pc'[t] = "smarca_cas" /\ old_val'[t] = nodes[c] /\ new_val'[t] = new
      /\ do_exit'[t] <=> SpotsOf(c, held) # {}
  <2>1. CASE IsSet(clean, BuddySide(b), pos)
    <3>1. /\ old_val' = [old_val EXCEPT ![t] = nodes[c]] /\ new_val' = [new_val EXCEPT ![t] = clean]
          /\ do_exit' = [do_exit EXCEPT ![t] = TRUE] /\ Goto(t, "smarca_cas")
      <4> HIDE DEF c, pos, b
      <4> QED
        BY <1>3, <1>5, <1>6, <2>1 DEF SmarcaRead, b
    <3> QED
      BY <1>4, <1>6, <2>1, <3>1 DEF TypeOK, Goto
  <2>2. CASE ~IsSet(clean, BuddySide(b), pos)
    <3>1. /\ old_val' = [old_val EXCEPT ![t] = nodes[c]]
          /\ new_val' = [new_val EXCEPT ![t] = ClearAbove(pos, clean)]
          /\ do_exit' = [do_exit EXCEPT ![t] = Blocked(clean, pos) # {}] /\ Goto(t, "smarca_cas")
      <4> HIDE DEF c, pos, b
      <4> QED
        BY <1>3, <1>5, <1>6, <2>2 DEF SmarcaRead, b
    <3>2. (Blocked(clean, pos) # {}) \in BOOLEAN
      OBVIOUS
    <3> QED
      BY <1>4, <1>6, <2>2, <3>1, <3>2 DEF TypeOK, Goto
  <2> QED
    BY <2>1, <2>2
<1>10. WrittenInv(t)'
  BY <1>7, <1>9 DEF WrittenInv
<1>11. OperationInv(t)'
  BY <1>3, <1>7, <1>8, <1>9, <1>10 DEF OperationInv
<1> QED
  BY <1>8, <1>9, <1>11, OnlyMover DEF Step, Inside

(* Nobody else has written the word. *)
LEMMA SmarcaCASTree ==
  ASSUME SLInv, BD_SPIN_LOCK, NEW t \in Threads, SmarcaCAS(t)
  PROVE  TreeInv'
<1> DEFINE n == target[t]
           b == br[t]
           u == upper_bound[t]
           c == Up(b)
           on == level_by_idx(c) > u /\ ~do_exit[t]
<1>1. pc[t] = "smarca_cas"
  BY DEF SmarcaCAS, At
<1>2. /\ OperationInv(t) /\ ThreadInv(t) /\ n \in Targets /\ held \in SUBSET Targets
      /\ nodes \in [Bunches -> SUBSET WordBits] /\ NoOverlap
  BY <1>1, InsideFacts
<1>3. ReleasingInv(t) /\ SmarcaInv(nodes, held, n, u, b) /\ WrittenInv(t)
  BY <1>1, <1>2 DEF OperationInv
<1>4. TypeOK /\ u \in Nat
  BY DEF SLInv, TypeInv, TypeOK, CallersTypeOK
<1>5. b \in ReleaseBunches(n, u) /\ b \in Bunches /\ BUNCHROOT(parent_idx_by_idx(b)) = c
  BY <1>1, <1>2, <1>3, <1>4, InRelease DEF SmarcaInv
<1>6. ReleaseInv(held, n, u, failed_at[t]) /\ Reason(t)
  BY <1>3 DEF ReleasingInv
<1>7. /\ held' = held /\ target' = target /\ upper_bound' = upper_bound /\ failed_at' = failed_at
  BY DEF SmarcaCAS
<1>8. NoOverlap' /\ ReleasingInv(t)'
  BY <1>2, <1>3, <1>7 DEF NoOverlap, ReleasingInv, Reason
<1>9. /\ nodes' = [nodes EXCEPT ![Up(b)] = Word(SpotsOf(Up(b), held), Coal(nodes[Up(b)]) \ {Half(b)})]
      /\ SmarcaFrom(t, c, on)
  <2>1. old_val[t] = nodes[c] /\ new_val[t] = Word(SpotsOf(Up(b), held), Coal(nodes[Up(b)]) \ {Half(b)})
    BY <1>3 DEF WrittenInv
  <2>2. /\ nodes' = [nodes EXCEPT ![c] = IF new_val[t] = old_val[t] THEN @ ELSE new_val[t]]
        /\ SmarcaFrom(t, c, on)
    BY <1>5, <2>1 DEF SmarcaCAS
  <2>3. nodes' = [nodes EXCEPT ![c] = new_val[t]]
    BY <2>1, <2>2
  <2> QED
    BY <2>1, <2>2, <2>3
<1>10. /\ c \in ReleaseBunches(n, u)
       /\ Swept(nodes', held, n, u, c)
       /\ level_by_idx(c) > u /\ SpotsOf(c, held) = {} => SmarcaInv(nodes', held, n, u, c)
  <2> HIDE DEF n, u, b
  <2> QED
    BY <1>2, <1>3, <1>5, <1>6, <1>9, CleanStep
<1>11. on <=> level_by_idx(c) > u /\ SpotsOf(c, held) = {}
  BY <1>3 DEF WrittenInv
<1> HIDE DEF on
<1>12. CASE on
  <2>1. /\ br'[t] = c /\ p_pos'[t] = container_pos(parent_idx_by_idx(c)) /\ pc'[t] = "smarca"
    BY <1>4, <1>9, <1>12 DEF SmarcaFrom, TypeOK, Goto
  <2>2. OperationInv(t)'
    BY <1>7, <1>8, <1>10, <1>11, <1>12, <2>1 DEF OperationInv
  <2> QED
    BY <1>8, <2>1, <2>2, OnlyMover DEF Step, Inside
<1>13. CASE ~on
  <2>1. pc'[t] = FreeDone(t)
    BY <1>4, <1>9, <1>13 DEF SmarcaFrom, TypeOK, Goto
  <2>2. ExactTree(nodes', held)
    <3> HIDE DEF n, u, c
    <3> QED
      BY <1>2, <1>6, <1>10, <1>11, <1>13, SweptOver
  <2>3. OperationInv(t)' /\ pc'[t] # "idle"
    BY <1>6, <1>7, <2>1, <2>2, ReleaseCloses
  <2> QED
    BY <1>8, <2>3, OnlyMover DEF Step, Inside
<1> QED
  BY <1>12, <1>13

LEMMA FreeReturnTree ==
  ASSUME SLInv, BD_SPIN_LOCK, NEW t \in Threads, FreeReturn(t)
  PROVE  TreeInv'
<1>1. pc[t] = "free_done" /\ nodes' = nodes /\ held' = held /\ pc'[t] = "idle"
  BY DEF FreeReturn, At, ForgetLocals, Leave, Goto, SLInv, TypeInv, TypeOK
<1>2. ExactTree(nodes, held) /\ NoOverlap
  BY <1>1, InsideFacts DEF OperationInv
<1>3. NoOverlap'
  BY <1>1, <1>2 DEF NoOverlap
<1>4. ExactTree(nodes', held')
  BY <1>1, <1>2
<1> QED
  BY <1>1, <1>3, <1>4, OnlyMover DEF Step

LEMMA SLStep == SLInv /\ BD_SPIN_LOCK /\ [Next]_vars => SLInv'
<1> SUFFICES ASSUME SLInv, BD_SPIN_LOCK, [Next]_vars
             PROVE  SLInv'
  OBVIOUS
<1>1. TypeInv' /\ LockInv'
  BY TypeStep, LockStep DEF SLInv, TypeInv
<1>2. CASE Next
  <2>1. PICK t \in Threads :
          \/ \E n \in Targets : AllocStart(t, n)
          \/ \E n \in Targets : FreeStart(t, n)
          \/ Step(t)
    BY <1>2 DEF Next
  <2>2. CASE \E n \in Targets : AllocStart(t, n) \/ FreeStart(t, n)
    BY <1>1, <2>2, AllocStartTree, FreeStartTree DEF SLInv
  <2>3. CASE Step(t)
    BY <1>1, <2>3, CheckParentTree, AllocReturnTree, MarcaTree, LiberaTree,
       SmarcaReadTree, SmarcaCASTree, FreeReturnTree DEF SLInv, Step, Inside
  <2> QED
    BY <2>1, <2>2, <2>3
<1>3. CASE UNCHANGED vars
  <2>1. TreeInv'
    BY <1>3 DEF SLInv, TreeInv, OperationInv, WrittenInv, ReleasingInv, Reason, NoOverlap, Quiescent,
                vars, smarca_locals
  <2> QED
    BY <1>1, <2>1 DEF SLInv
<1> QED
  BY <1>2, <1>3

LEMMA SLInvariant == ASSUME BD_SPIN_LOCK PROVE Spec => []SLInv
<1>1. SLInv /\ [Next]_vars => SLInv'
  BY SLStep
<1> QED
  BY <1>1, SLInit, PTL DEF Spec

(* No two blocks handed out share memory: where alloc finds the words of   *)
(* its branch free, nothing inside the block or around it is held.         *)
THEOREM NoOverlapBlocking == ASSUME BD_SPIN_LOCK PROVE Spec => []NoOverlap
<1>1. SLInv => NoOverlap
  BY DEF SLInv, TreeInv
<1> QED
  BY SLInvariant, <1>1, PTL

(* alloc refuses a node only when a held block overlaps it or, if a leaf of*)
(* a bunch above is named, contains that leaf and all that lies below.     *)
THEOREM RefusalJustifiedBlocking == ASSUME BD_SPIN_LOCK PROVE Spec => RefusalJustified
<1>1. SLInv
        => [\A t \in Threads :
              pc[t] = "alloc_done" /\ failed_at[t] # 0 /\ pc'[t] = "idle"
                => NoRoomFor(held, target[t], failed_at[t])]_<<pc, target, failed_at, held>>
  BY DEF SLInv, TreeInv, OperationInv, Reason
<1> QED
  BY SLInvariant, <1>1, PTL DEF RefusalJustified

(* With the lock held, smarca's walk never runs past the root of a         *)
(* container: the loop that would not end is not entered.                  *)
LEMMA NeverEndless == SLInv => \A t \in Threads : pc[t] # "endless"
BY DEF SLInv, TreeInv, OperationInv

(***************************************************************************)
(* The abstract allocator.                                                 *)
(***************************************************************************)

(* The abstract allocator works on the same tree. *)
LEMMA SameOverlap == ASSUME NEW a, NEW b PROVE Blocks!Overlap(a, b) <=> Overlap(a, b)
BY DEF Blocks!Overlap, Blocks!Contains, Blocks!Path, Blocks!Indexes, Blocks!Nodes,
       Blocks!number_of_nodes, Blocks!parent_idx_by_idx,
       Overlap, Contains, Path, Indexes, Nodes, number_of_nodes, parent_idx_by_idx

(* A step of the bunches is a step, or a stutter, of the abstract          *)
(* allocator.                                                              *)
LEMMA StepIsBlockStep == ASSUME SLInv, BD_SPIN_LOCK, [Next]_vars PROVE [Blocks!Next]_held
<1>1. ASSUME NEW t \in Threads, AllocReturn(t)
      PROVE  [Blocks!Next]_held
  <2>1. pc[t] = "alloc_done" /\ held' = held \cup Granted(t)
    BY <1>1 DEF AllocReturn, At
  <2>2. OperationInv(t) /\ target[t] \in Targets
    BY <2>1, InsideFacts
  <2>3. CASE failed_at[t] = 0
    <3>1. \A m \in held : ~Overlap(m, target[t])
      BY <2>1, <2>2, <2>3 DEF OperationInv, GrantInv
    <3>2. Blocks!Acquire(target[t])
      BY <2>1, <2>3, <3>1, SameOverlap DEF Blocks!Acquire, Granted
    <3> QED
      BY <2>2, <3>2 DEF Blocks!Next
  <2>4. CASE failed_at[t] # 0
    BY <2>1, <2>4 DEF Granted
  <2> QED
    BY <2>3, <2>4
<1>2. ASSUME NEW t \in Threads, NEW n \in Targets, FreeStart(t, n)
      PROVE  [Blocks!Next]_held
  BY <1>2 DEF FreeStart, Blocks!Next, Blocks!HandBack
<1>3. ASSUME NEW t \in Threads,
             (\E n \in Targets : AllocStart(t, n)) \/ Inside(t) \/ FreeReturn(t)
      PROVE  held' = held
  BY <1>3 DEF AllocStart, Inside, CheckParent, Marca, Libera, SmarcaRead, SmarcaCAS, FreeReturn
<1> QED
  BY <1>1, <1>2, <1>3 DEF Next, Step, vars

(* The blocking build is an allocator of disjoint blocks: it hands out a   *)
(* block only when nothing inside it or around it is held.                 *)
THEOREM BlockingImplementsBlocks == ASSUME BD_SPIN_LOCK PROVE Spec => ImplementsBlocks
<1>1. Init => Blocks!Init
  BY DEF Init, CallersInit, Blocks!Init
<1>2. SLInv /\ [Next]_vars => [Blocks!Next]_held
  BY StepIsBlockStep
<1> QED
  BY SLInvariant, <1>1, <1>2, PTL DEF Spec, ImplementsBlocks, Blocks!Spec

(***************************************************************************)
(* What ExactWord says, spot by spot.                                      *)
(***************************************************************************)

(* No node of a bunch is below its lowest level. *)
LEMMA LevelInBunch ==
  ASSUME NEW b \in Roots, NEW m \in Nodes, BUNCHROOT(m) = b
  PROVE  /\ level_by_idx(m) \in Nat /\ level_by_idx(m) <= level_by_idx(b) + 3
         /\ container_pos(m) >= LEAF_START_POSITION => level_by_idx(m) = level_by_idx(b) + 3
         /\ \A p \in Path[m] : level_by_idx(p) = level_by_idx(b) + 3 => p = m
<1> DEFINE d == DepthInBunch(m)
<1>1. /\ level_by_idx(m) = level_by_idx(b) + d /\ d \in 0 .. 3
      /\ container_pos(m) \in 2^d .. (2 * 2^d - 1)
  BY InBunch, BunchStep
<1>2. level_by_idx(b) \in Nat /\ level_by_idx(m) \in Nat
  BY RootLevel, PathUse
<1> HIDE DEF d
<1>3. container_pos(m) >= 8 => d = 3
  <2>1. d = 0 \/ d = 1 \/ d = 2 \/ d = 3
    BY <1>1
  <2> QED
    <3>1. container_pos(m) >= 8 => ~(d = 0 \/ d = 1 \/ d = 2)
      <4>1. d = 0 => container_pos(m) \in 1 .. 1
        BY <1>1, Powers
      <4>2. d = 1 => container_pos(m) \in 2 .. 3
        BY <1>1, Powers
      <4>3. d = 2 => container_pos(m) \in 4 .. 7
        BY <1>1, Powers
      <4> QED
        BY <4>1, <4>2, <4>3
    <3> QED
      BY <2>1, <3>1
<1>4. ASSUME NEW p \in Path[m], level_by_idx(p) = level_by_idx(b) + 3
      PROVE  p = m
  <2>1. p # m => level_by_idx(p) < level_by_idx(m)
    BY PathUse
  <2> QED
    BY <1>1, <1>2, <1>4, <2>1
<1> QED
  BY <1>1, <1>2, <1>3, <1>4 DEF LEAF_START_POSITION

(* A position of a bunch and a block below the bunch, whether or not it is *)
(* in the bunch, share memory exactly if the node that NodeAt names does   *)
(* with the block; the children of a leaf of the bunch are its halves.     *)
LEMMA SpotAtPosition ==
  ASSUME NEW b \in Roots, NEW q \in Positions, NEW n \in Nodes, b \in Path[n]
  PROVE  LET m == NodeAt(b, q)
         IN /\ Overlap(m, n) <=> PosOverlap(q, PosOf(Spot(b, n)))
            /\ Contains(n, m) <=> Spot(b, n) \in AtOrAbove(q)
            /\ q >= LEAF_START_POSITION =>
                 \A i \in {0, 1} : Contains(2 * m + i, n) <=> Spot(b, n) = 2 * q + i
<1> DEFINE m == NodeAt(b, q)
           r == Spot(b, n)
<1>1. b \in Nodes /\ DepthInBunch(b) = 0
  BY DEF Roots
<1>2. /\ m \in Nodes /\ BUNCHROOT(m) = b /\ container_pos(m) \in AtOrAbove(q)
      /\ \A k \in Nodes : BUNCHROOT(k) = b /\ container_pos(k) \in AtOrAbove(q) => k \in Path[m]
  BY <1>1, LowestNode
<1>3. /\ m \in Nat /\ m # 0 /\ n \in Nat /\ n # 0 /\ n \in Indexes
  BY <1>2, IndexInterval DEF Indexes, Nodes
<1>4. m \in Path[n] /\ m # n => container_pos(m) = q
  BY <1>1, LowestIsLeaf
<1>5. AtOrAbove(q) \subseteq Positions
  BY AboveFacts
<1>6. ASSUME NEW i \in {0, 1}, Contains(2 * m + i, n)
      PROVE  /\ 2 * m + i \in Path[n] /\ 2 * m + i \in Nodes
             /\ m \in Path[n] /\ m # n /\ container_pos(m) = q
  <2>1. i = 0 \/ i = 1
    OBVIOUS
  <2>2. 2 * m + 0 = 2 * m
    BY <1>3
  <2>3. 2 * m + i \in Path[n]
    BY <1>6 DEF Contains
  <2>4. m \in Path[n]
    BY <2>1, <2>2, <2>3, <1>2, <1>3, ChildOnPath
  <2>5. 2 * m + i \in Nodes /\ 2 * m + i <= n
    BY <2>3, <1>3, PathFacts
  <2>6. m # n
    BY <2>1, <2>5, <1>3
  <2> QED
    BY <2>3, <2>4, <2>5, <2>6, <1>4
<1> HIDE DEF m
<1>7. CASE BUNCHROOT(n) = b
  <2>1. r = container_pos(n) /\ r \in Positions /\ r \notin Halves /\ PosOf(r) = r
    BY <1>7, SpotFacts DEF PosOf
  <2>2. Overlap(m, n) <=> PosOverlap(q, PosOf(r))
    BY <1>1, <1>7, <2>1, OverlapAtPosition DEF m
  <2>3. Contains(n, m) <=> r \in AtOrAbove(q)
    BY <1>1, <1>7, <2>1, OverlapAtPosition DEF m
  <2>4. ASSUME q >= LEAF_START_POSITION, NEW i \in {0, 1}
        PROVE  ~Contains(2 * m + i, n) /\ r # 2 * q + i
    <3>1. r # 2 * q + i
      BY <2>1, <2>4 DEF Positions, LEAF_START_POSITION
    <3>2. ASSUME Contains(2 * m + i, n)
          PROVE  FALSE
      <4>1. m \in Path[n] /\ m # n /\ container_pos(m) = q
        BY <1>6, <3>2
      <4>2. q \in AtOrAbove(container_pos(n))
        BY <1>2, <1>7, <4>1, PathInBunch
      <4>3. container_pos(n) = q
        BY <2>1, <2>4, <4>2, AboveFacts DEF AtOrAbove, LEAF_START_POSITION, Positions
      <4> QED
        BY <1>2, <1>7, <4>1, <4>3, OneNodeAt
    <3> QED
      BY <3>1, <3>2
  <2> QED
    BY <2>2, <2>3, <2>4 DEF m
<1>8. CASE BUNCHROOT(n) # b
  <2>1. PICK c \in SubBunches(b) : c \in Path[n]
    BY <1>8, SubBunchAbove
  <2> DEFINE p == parent_idx_by_idx(c)
             l == container_pos(p)
  <2>2. c \in Roots /\ c # 1 /\ Up(c) = b
    BY DEF SubBunches
  <2>3. /\ p \in Nodes /\ p \in Path[c] /\ BUNCHROOT(p) = b
        /\ level_by_idx(c) = level_by_idx(b) + 4 /\ level_by_idx(p) = level_by_idx(b) + 3
        /\ l \in Positions /\ l >= LEAF_START_POSITION
        /\ Half(c) \in Halves /\ Half(c) \div 2 = l /\ Half(c) % 2 = c % 2
        /\ c = 2 * p + (c % 2)
    BY <2>2, UpFacts
  <2>4. Half(c) = 2 * l + (c % 2)
    BY DEF Half
  <2> HIDE DEF p
  <2>5. r = Half(c) /\ r \notin Positions /\ PosOf(r) = l
    BY <1>8, <2>1, <2>3, SpotFacts DEF PosOf
  <2>6. p \in Path[n] /\ c \in Nodes
    BY <2>1, <2>2, <2>3, PathUse, RootLevel
  <2>7. /\ level_by_idx(m) \in Nat /\ level_by_idx(m) <= level_by_idx(b) + 3
        /\ container_pos(m) >= LEAF_START_POSITION => level_by_idx(m) = level_by_idx(b) + 3
        /\ \A k \in Path[m] : level_by_idx(k) = level_by_idx(b) + 3 => k = m
        /\ level_by_idx(b) \in Nat
    BY <1>2, LevelInBunch, RootLevel
  <2>8. n \notin Path[m]
    <3>1. ASSUME n \in Path[m]
          PROVE  FALSE
      <4>1. c \in Path[m]
        BY <1>2, <2>1, <3>1, PathUse
      <4>2. level_by_idx(c) <= level_by_idx(m)
        BY <1>2, <4>1, PathUse
      <4> QED
        BY <2>3, <2>7, <4>2
    <3> QED
      BY <3>1
  <2>9. Contains(n, m) <=> r \in AtOrAbove(q)
    BY <1>5, <2>5, <2>8 DEF Contains
  <2>10. m \in Path[n] <=> m \in Path[p]
    <3>1. m \in Path[n] => m \in Path[p]
      BY <2>3, <2>6, <2>7, PathUse
    <3>2. m \in Path[p] => m \in Path[n]
      BY <2>6, PathUse
    <3> QED
      BY <3>1, <3>2
  <2>11. p \in Path[m] => p = m
    BY <2>3, <2>7
  <2>12. Overlap(m, n) <=> Overlap(m, p)
    BY <2>6, <2>8, <2>10, <2>11 DEF Overlap, Contains
  <2>13. Overlap(m, p) <=> PosOverlap(q, l)
    BY <1>1, <2>3, OverlapAtPosition DEF m
  <2>14. ASSUME q >= LEAF_START_POSITION, NEW i \in {0, 1}, Contains(2 * m + i, n)
         PROVE  r = 2 * q + i
    <3>1. 2 * m + i \in Path[n] /\ 2 * m + i \in Nodes /\ m \in Path[n] /\ container_pos(m) = q
      BY <1>6, <2>14
    <3>2. level_by_idx(m) = level_by_idx(p)
      BY <2>3, <2>7, <2>14, <3>1
    <3>3. p = m
      BY <2>3, <2>6, <2>7, <2>11, <3>1, <3>2, PathUse
    <3>4. parent_idx_by_idx(2 * m + i) = m /\ (2 * m + i) % 2 = i
      BY <1>3 DEF parent_idx_by_idx
    <3>5. level_by_idx(2 * m + i) = level_by_idx(m) + 1
      BY <1>2, <1>3, <3>1, <3>4, LevelFacts
    <3>6. 2 * m + i = c
      <4>1. level_by_idx(2 * m + i) = level_by_idx(c) /\ level_by_idx(c) \in Nat
        BY <2>3, <2>7, <3>2, <3>5
      <4>2. c \in Path[2 * m + i]
        BY <2>1, <3>1, <4>1, PathUse
      <4> QED
        BY <3>1, <4>1, <4>2, PathUse
    <3> QED
      BY <2>4, <2>5, <3>1, <3>3, <3>4, <3>6
  <2>15. ASSUME NEW i \in {0, 1}, r = 2 * q + i
         PROVE  Contains(2 * m + i, n)
    <3>1. l = q /\ c % 2 = i
      <4>1. c \in Nat /\ l \in Nat /\ q \in Nat
        BY <2>3, <2>6, PathUse DEF Positions
      <4>2. (2 * q + i) \div 2 = q /\ (2 * q + i) % 2 = i
        BY <4>1
      <4> QED
        BY <2>3, <2>5, <2>15, <4>2
    <3>2. p \in Path[m]
      BY <1>2, <2>3, <3>1 DEF AtOrAbove
    <3> QED
      BY <2>1, <2>3, <2>11, <3>1, <3>2 DEF Contains
  <2> QED
    BY <2>5, <2>9, <2>12, <2>13, <2>14, <2>15 DEF m
<1> QED
  BY <1>7, <1>8

(* The leaf statuses of ExactWord are sets of kinds of bits. *)
LEMMA SideKinds ==
  /\ LOCK_LEAF \in SUBSET (0 .. 4)
  /\ \A S : {side \in {LEFT, RIGHT} : side \in S} \in SUBSET (0 .. 4)
  /\ \A x \in LeafBits :
       /\ IsOcc(x)  => (x - 7) % 5 \in LOCK_LEAF /\ (x - 7) % 5 \notin {LEFT, RIGHT}
       /\ IsSide(x) => (x - 7) % 5 \in LOCK_LEAF /\ (x - 7) % 5 \in {LEFT, RIGHT}
       /\ IsCoal(x) => (x - 7) % 5 \notin LOCK_LEAF /\ (x - 7) % 5 \notin {LEFT, RIGHT}
       /\ IsSide(x) => HalfOf(x) = 2 * LeafOf(x) + (IF (x - 7) % 5 = LEFT THEN 0 ELSE 1)
BY DEF LOCK_LEAF, IsOcc, IsSide, IsCoal, HalfOf, OCCUPIED, LEFT, RIGHT, COAL_LEFT, COAL_RIGHT

(* ExactWord is the word of the spots, without coalescing bits. *)
LEMMA ExactWordSpots ==
  ASSUME NEW b \in Bunches, NEW S \in SUBSET Targets
  PROVE  ExactWord(b, S) = Word(SpotsOf(b, S), {})
<1> DEFINE below == {n \in S : Contains(b, n)}
           Q == SpotsOf(b, S)
           LeafStatus(m) ==
             IF \E n \in below : Contains(n, m) THEN LOCK_LEAF
             ELSE {side \in {LEFT, RIGHT} :
                     \E n \in below : Contains(lchild_idx_by_idx(m) + (IF side = LEFT THEN 0 ELSE 1), n)}
           InnerPart(q) == IF \E n \in below : Overlap(NodeAt(b, q), n) THEN NodeMask(q) ELSE {}
           LeafPart(q) == LeafMask(LeafStatus(NodeAt(b, q)), q)
           inner == UNION {InnerPart(q) : q \in 1 .. 7}
           leaves == UNION {LeafPart(q) : q \in 8 .. 15}
<1>1. ExactWord(b, S) = inner \cup leaves
  BY DEF ExactWord
<1>2. b \in Roots /\ \A n \in below : n \in Nodes /\ b \in Path[n]
  BY BunchFacts, TargetFacts DEF Contains
<1>3. Q = {Spot(b, n) : n \in below}
  BY DEF SpotsOf
<1> HIDE DEF below, Q
<1>4. ASSUME NEW q \in Positions
      PROVE  /\ (\E n \in below : Overlap(NodeAt(b, q), n)) <=> \E r \in Q : PosOverlap(q, PosOf(r))
             /\ (\E n \in below : Contains(n, NodeAt(b, q))) <=> Covered(q, Q)
             /\ q >= LEAF_START_POSITION =>
                  \A i \in {0, 1} : (\E n \in below : Contains(2 * NodeAt(b, q) + i, n)) <=> 2 * q + i \in Q
  <2>1. ASSUME NEW n \in below
        PROVE  /\ Overlap(NodeAt(b, q), n) <=> PosOverlap(q, PosOf(Spot(b, n)))
               /\ Contains(n, NodeAt(b, q)) <=> Spot(b, n) \in AtOrAbove(q)
               /\ q >= LEAF_START_POSITION =>
                    \A i \in {0, 1} : Contains(2 * NodeAt(b, q) + i, n) <=> Spot(b, n) = 2 * q + i
    BY <1>2, SpotAtPosition
  <2> QED
    BY <2>1, <1>3 DEF Covered
<1>5. ASSUME NEW q \in Positions, q >= LEAF_START_POSITION
      PROVE  LeafStatus(NodeAt(b, q)) =
               IF Covered(q, Q) THEN LOCK_LEAF
               ELSE {side \in {LEFT, RIGHT} : 2 * q + (IF side = LEFT THEN 0 ELSE 1) \in Q}
  <2>1. \A side : (IF side = LEFT THEN 0 ELSE 1) \in {0, 1}
    OBVIOUS
  <2>2. ASSUME NEW side
        PROVE  (\E n \in below : Contains(lchild_idx_by_idx(NodeAt(b, q)) + (IF side = LEFT THEN 0 ELSE 1), n))
                 <=> 2 * q + (IF side = LEFT THEN 0 ELSE 1) \in Q
    BY <1>4, <1>5, <2>1 DEF lchild_idx_by_idx
  <2>3. {side \in {LEFT, RIGHT} :
           \E n \in below : Contains(lchild_idx_by_idx(NodeAt(b, q)) + (IF side = LEFT THEN 0 ELSE 1), n)}
          = {side \in {LEFT, RIGHT} : 2 * q + (IF side = LEFT THEN 0 ELSE 1) \in Q}
    BY <2>2
  <2> QED
    BY <1>4, <2>3
<1> HIDE DEF LeafStatus
<1>6. ASSUME NEW x
      PROVE  x \in inner <=> x \in InnerBits /\ \E r \in Q : PosOverlap(x + 1, PosOf(r))
  <2>1. \A q \in 1 .. 7 : q \in Positions /\ NodeMask(q) = {q - 1} /\ q - 1 \in InnerBits /\ (q - 1) + 1 = q
    BY NodeMaskBits DEF Positions, LEAF_START_POSITION
  <2>2. \A y \in InnerBits : y + 1 \in 1 .. 7 /\ (y + 1) - 1 = y
    BY DEF InnerBits
  <2>3. \A q \in 1 .. 7 : InnerPart(q) = IF \E r \in Q : PosOverlap(q, PosOf(r)) THEN {q - 1} ELSE {}
    BY <1>4, <2>1
  <2> HIDE DEF InnerPart
  <2>4. ASSUME NEW q \in 1 .. 7, x \in InnerPart(q)
        PROVE  x \in InnerBits /\ \E r \in Q : PosOverlap(x + 1, PosOf(r))
    BY <2>1, <2>3, <2>4
  <2>5. ASSUME x \in InnerBits, \E r \in Q : PosOverlap(x + 1, PosOf(r))
        PROVE  x + 1 \in 1 .. 7 /\ x \in InnerPart(x + 1)
    BY <2>2, <2>3, <2>5
  <2> QED
    BY <2>4, <2>5
<1>7. ASSUME NEW x
      PROVE  x \in leaves <=> x \in LeafBits /\ x \in LeafPart(LeafOf(x))
  <2>1. ASSUME NEW q \in 8 .. 15, x \in LeafPart(q)
        PROVE  x \in LeafBits /\ LeafOf(x) = q
    <3>1. q \in Positions /\ q >= LEAF_START_POSITION
      BY DEF Positions, LEAF_START_POSITION
    <3>2. LeafStatus(NodeAt(b, q)) \in SUBSET (0 .. 4)
      BY <1>5, <3>1 DEF LOCK_LEAF, OCCUPIED, LEFT, RIGHT
    <3> QED
      BY <2>1, <3>1, <3>2, KindBits
  <2>2. x \in LeafBits => LeafOf(x) \in 8 .. 15
    BY DEF LeafBits, LeafOf, LEAF_START_POSITION
  <2> HIDE DEF LeafPart
  <2> QED
    BY <2>1, <2>2
<1>8. ASSUME NEW x \in LeafBits
      PROVE  x \in LeafPart(LeafOf(x)) <=>
               IF Covered(LeafOf(x), Q) THEN (x - 7) % 5 \in LOCK_LEAF
               ELSE /\ (x - 7) % 5 \in {LEFT, RIGHT}
                    /\ 2 * LeafOf(x) + (IF (x - 7) % 5 = LEFT THEN 0 ELSE 1) \in Q
  <2> DEFINE q == LeafOf(x)
  <2>1. q \in Positions /\ q >= LEAF_START_POSITION
    BY BitFacts DEF LeafBits, LeafOf, Positions, LEAF_START_POSITION
  <2> HIDE DEF q
  <2>2. LeafStatus(NodeAt(b, q)) =
          IF Covered(q, Q) THEN LOCK_LEAF
          ELSE {side \in {LEFT, RIGHT} : 2 * q + (IF side = LEFT THEN 0 ELSE 1) \in Q}
    BY <1>5, <2>1
  <2>3. LeafStatus(NodeAt(b, q)) \in SUBSET (0 .. 4)
    BY <2>2 DEF LOCK_LEAF, OCCUPIED, LEFT, RIGHT
  <2>4. LeafPart(q) = {y \in LeafBits : LeafOf(y) = q /\ (y - 7) % 5 \in LeafStatus(NodeAt(b, q))}
    BY <2>1, <2>3, KindBits
  <2>5. x \in LeafPart(q) <=> (x - 7) % 5 \in LeafStatus(NodeAt(b, q))
    BY <2>4 DEF q
  <2> HIDE DEF LeafPart
  <2> QED
    BY <2>2, <2>5 DEF q
<1> HIDE DEF inner, leaves, LeafPart
<1>9. ASSUME NEW x \in InnerBits
      PROVE  x \in inner \cup leaves <=> \E r \in Q : PosOverlap(x + 1, PosOf(r))
  BY <1>6, <1>7, BitFacts
<1>10. ASSUME NEW x \in LeafBits
       PROVE  /\ IsOcc(x)  => (x \in inner \cup leaves <=> Covered(LeafOf(x), Q))
              /\ IsSide(x) => (x \in inner \cup leaves <=> HalfOf(x) \in Q \/ Covered(LeafOf(x), Q))
              /\ IsCoal(x) => (x \in inner \cup leaves <=> HalfOf(x) \in {})
  <2>1. x \in inner \cup leaves <=> x \in LeafPart(LeafOf(x))
    BY <1>6, <1>7, BitFacts
  <2> QED
    BY <1>8, <2>1, SideKinds
<1>11. inner \cup leaves \subseteq InnerBits \cup LeafBits
  BY <1>6, <1>7
<1>12. inner \cup leaves = Word(Q, {})
  <2> DEFINE w == inner \cup leaves
             K == {}
  <2>1. \A x \in InnerBits : x \in w <=> \E r \in Q : PosOverlap(x + 1, PosOf(r))
    BY <1>9
  <2>2. \A x \in LeafBits :
          /\ IsOcc(x)  => (x \in w <=> Covered(LeafOf(x), Q))
          /\ IsSide(x) => (x \in w <=> HalfOf(x) \in Q \/ Covered(LeafOf(x), Q))
          /\ IsCoal(x) => (x \in w <=> HalfOf(x) \in K)
    BY <1>10
  <2>3. w \subseteq InnerBits \cup LeafBits
    BY <1>11
  <2> HIDE DEF w, K
  <2>4. w = Word(Q, K)
    BY <2>1, <2>2, <2>3, SameWord
  <2> QED
    BY <2>4 DEF w, K
<1> QED
  BY <1>1, <1>12 DEF Q

(* Without its coalescing bits, a word is that of its spots. *)
LEMMA WithoutCoalescing ==
  ASSUME NEW Q, NEW K
  PROVE  Word(Q, K) \ CoalescingBits = Word(Q, {})
<1> DEFINE B == {COAL_LEFT, COAL_RIGHT}
<1>1. B \in SUBSET (0 .. 4)
  BY DEF COAL_LEFT, COAL_RIGHT
<1>2. \A p \in 8 .. 15 : p \in Positions /\ p >= LEAF_START_POSITION
  BY DEF Positions, LEAF_START_POSITION
<1>3. \A p \in 8 .. 15 : LeafMask(B, p) = {x \in LeafBits : LeafOf(x) = p /\ (x - 7) % 5 \in B}
  BY <1>1, <1>2, KindBits
<1>4. \A x \in LeafBits : LeafOf(x) \in 8 .. 15
  BY DEF LeafBits, LeafOf, LEAF_START_POSITION
<1>5. ASSUME NEW x
      PROVE  x \in CoalescingBits <=> x \in LeafBits /\ IsCoal(x)
  BY <1>3, <1>4 DEF CoalescingBits, IsCoal
<1>6. ASSUME NEW x
      PROVE  x \in Word(Q, K) \ CoalescingBits <=> x \in Word(Q, {})
  <2>1. CASE x \in InnerBits
    BY <2>1, <1>5, WordBit, BitFacts
  <2>2. CASE x \in LeafBits
    BY <2>2, <1>5, WordBit, LeafBitKinds
  <2> QED
    BY <2>1, <2>2, WordBit
<1> QED
  BY <1>6

(* An exact word is what TreeReflectsHeld says of it. *)
LEMMA ExactReflects ==
  ASSUME NEW W, NEW S \in SUBSET Targets, NEW b \in Bunches, Shows(W, b, S)
  PROVE  /\ W[b] \ CoalescingBits = ExactWord(b, S)
         /\ \A pos \in 8 .. 15 :
              /\ IsSet(W[b], COAL_LEFT, pos)  => IsSet(W[b], LEFT, pos)
              /\ IsSet(W[b], COAL_RIGHT, pos) => IsSet(W[b], RIGHT, pos)
<1> DEFINE Q == SpotsOf(b, S)
           K == Coal(W[b])
<1>1. W[b] = Word(Q, K) /\ K \subseteq Q
  BY DEF Shows
<1>2. W[b] \ CoalescingBits = ExactWord(b, S)
  BY <1>1, ExactWordSpots, WithoutCoalescing
<1>3. ASSUME NEW h \in Halves, CoalMask(h) \subseteq W[b]
      PROVE  SideMask(h) \subseteq W[b]
  <2>1. h \in K
    BY <1>3 DEF Coal
  <2> HIDE DEF K, Q
  <2>2. SideMask(h) \subseteq Word(Q, K)
    BY <1>1, <2>1, SideInWord
  <2> QED
    BY <1>1, <2>2
<1>4. ASSUME NEW pos \in 8 .. 15
      PROVE  /\ IsSet(W[b], COAL_LEFT, pos)  => IsSet(W[b], LEFT, pos)
             /\ IsSet(W[b], COAL_RIGHT, pos) => IsSet(W[b], RIGHT, pos)
  <2>1. pos \in Positions /\ pos >= LEAF_START_POSITION
    BY DEF Positions, LEAF_START_POSITION
  <2>2. 2 * pos \in Halves /\ 2 * pos + 1 \in Halves
    BY DEF Halves
  <2> QED
    BY <1>3, <2>1, <2>2, HalfMasks DEF IsSet
<1> QED
  BY <1>2, <1>4

(* Whenever the lock is free, the words of all bunches are those of the    *)
(* held blocks: what climbs and rollbacks leave behind is nothing, and     *)
(* what a release whose walk was stopped leaves is a coalescing bit beside *)
(* the bit of a half in use.                                               *)
THEOREM TreeReflectsHeldBlocking == ASSUME BD_SPIN_LOCK PROVE Spec => []TreeReflectsHeld
<1>1. ASSUME SLInv
      PROVE  TreeReflectsHeld
  <2> SUFFICES ASSUME glock = NoOwner, NEW b \in Bunches
               PROVE  /\ nodes[b] \ CoalescingBits = ExactWord(b, held)
                      /\ \A pos \in 8 .. 15 :
                           /\ IsSet(nodes[b], COAL_LEFT, pos)  => IsSet(nodes[b], LEFT, pos)
                           /\ IsSet(nodes[b], COAL_RIGHT, pos) => IsSet(nodes[b], RIGHT, pos)
    BY DEF TreeReflectsHeld
  <2>1. \A t \in Threads : pc[t] = "idle"
    BY <1>1, TreeAssumption DEF SLInv, LockInv
  <2>2. Shows(nodes, b, held)
    BY <1>1, <2>1 DEF SLInv, TreeInv, Quiescent, ExactTree
  <2>3. held \in SUBSET Targets
    BY <1>1 DEF SLInv, TypeInv, TypeOK, CallersTypeOK
  <2> QED
    BY <2>2, <2>3, ExactReflects
<1> QED
  BY SLInvariant, <1>1, PTL
=============================================================================
