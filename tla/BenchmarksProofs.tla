--------------------------- MODULE BenchmarksProofs ---------------------------
(***************************************************************************)
(* Proofs about KernelModule and Benchmarks, for any number of workers,    *)
(* any arena, any bounds of the loops and any system call table.           *)
(***************************************************************************)
EXTENDS Benchmarks, FiniteSetTheorems, NaturalsInduction, WellFoundedInduction, TLAPS

(***************************************************************************)
(* Part 1.  The module bd_api leaves the system call table as it found it, *)
(* if that has at least four unused entries, and loses no entry but 0 and  *)
(* the word before the table otherwise.                                    *)
(***************************************************************************)

(* A non-empty set of natural numbers has a least element. *)
LEMMA Least ==
  ASSUME NEW U, U \subseteq Nat, U # {}
  PROVE  \E x \in U : \A y \in U : x <= y
<1> DEFINE R == {ss \in Nat \X Nat : ss[1] < ss[2]}
<1>1. IsWellFoundedOn(R, Nat)
  BY NatLessThanWellFounded DEF OpToRel
<1>2. PICK x \in U : \A y \in U : ~(<<y, x>> \in R)
  BY <1>1, WFMin
<1>3. ASSUME NEW y \in U
      PROVE  x <= y
  <2>1. x \in Nat /\ y \in Nat
    OBVIOUS
  <2>2. ~(<<y, x>> \in R)
    BY <1>2
  <2> QED
    BY <2>1, <2>2
<1> QED
  BY <1>3

(* The scan finds the least entry first... *)
LEMMA FirstFound ==
  ASSUME NEW U, U \subseteq Nat, IsFiniteSet(U), U # {}
  PROVE  Found(0, U) # {}
<1>1. PICK x \in U : \A y \in U : x <= y
  BY Least
<1>2. ASSUME NEW m \in U, m < x
      PROVE  FALSE
  <2>1. m \in Nat /\ x \in Nat /\ x <= m
    BY <1>1
  <2> QED
    BY <2>1, <1>2
<1>3. {m \in U : m < x} = {}
  BY <1>2
<1> QED
  BY <1>3, FS_EmptySet DEF Found

(* ... and then what it finds without that one. *)
LEMMA NextFound ==
  ASSUME NEW U, U \subseteq Nat, IsFiniteSet(U), NEW k \in Nat,
         NEW x \in U, \A y \in U : x <= y,
         Found(k, U \ {x}) # {}
  PROVE  Found(k + 1, U) # {}
<1>1. PICK n \in U \ {x} : Cardinality({m \in U \ {x} : m < n}) = k
  BY DEF Found
<1> DEFINE A == {m \in U \ {x} : m < n}
<1>2. {m \in U : m < n} = A \cup {x} /\ x \notin A
  BY <1>1
<1>3. IsFiniteSet(A)
  BY FS_Subset
<1>4. Cardinality(A \cup {x}) = k + 1
  BY <1>1, <1>2, <1>3, FS_AddElement
<1> QED
  BY <1>1, <1>2, <1>4 DEF Found

(* With four unused entries, one is found in each of the first four rounds.*)
LEMMA FourFound ==
  ASSUME NEW U, U \subseteq Nat, IsFiniteSet(U), Cardinality(U) >= 4
  PROVE  \A k \in 0 .. 3 : Found(k, U) # {}
<1> DEFINE Rounds(V, c) == \A k \in 0 .. c - 1 : Found(k, V) # {}
<1>1. ASSUME NEW V \in SUBSET U, NEW c \in Nat, Cardinality(V) >= c + 1,
             \A W \in SUBSET U : Cardinality(W) >= c => Rounds(W, c)
      PROVE  Rounds(V, c + 1)
  <2>1. IsFiniteSet(V) /\ V \subseteq Nat
    BY FS_Subset
  <2>2. V # {}
    BY <1>1, FS_EmptySet
  <2>3. PICK x \in V : \A y \in V : x <= y
    BY <2>1, <2>2, Least
  <2>4. Cardinality(V \ {x}) = Cardinality(V) - 1 /\ Cardinality(V) \in Nat
    BY <2>1, FS_RemoveElement, FS_CardinalityType
  <2>5. Rounds(V \ {x}, c)
    BY <1>1, <2>4
  <2>6. ASSUME NEW k \in 0 .. c
        PROVE  Found(k, V) # {}
    <3>1. CASE k = 0
      BY <3>1, <2>1, <2>2, FirstFound
    <3>2. CASE k # 0
      <4>1. k - 1 \in Nat /\ k - 1 \in 0 .. c - 1 /\ (k - 1) + 1 = k
        BY <3>2
      <4>2. Found((k - 1) + 1, V) # {}
        BY <4>1, <2>1, <2>3, <2>5, NextFound
      <4> QED
        BY <4>1, <4>2
    <3> QED
      BY <3>1, <3>2
  <2> QED
    BY <2>6
<1> DEFINE All(c) == \A V \in SUBSET U : Cardinality(V) >= c => Rounds(V, c)
<1>2. All(0)
  OBVIOUS
<1>3. ASSUME NEW c \in Nat, All(c)
      PROVE  All(c + 1)
  BY <1>1, <1>3
<1> HIDE DEF All
<1>4. All(1)
  BY <1>2, <1>3
<1>5. All(2)
  BY <1>3, <1>4
<1>6. All(3)
  BY <1>3, <1>5
<1>7. All(4)
  BY <1>3, <1>6
<1> QED
  BY <1>7 DEF All

(***************************************************************************)
(* The invariant: outside the entries found, which were all unused, the    *)
(* table is the original; the stores of cleanup_module restore those one   *)
(* after the other.  If the scan may have found too few, all this is said  *)
(* of the words that restore[] does not name to begin with.                *)
(***************************************************************************)
Enough == Cardinality(unused) >= 4

(* The words that may be lost. *)
Lost == IF Enough THEN {} ELSE {-1, 0}

(* The entries overwritten so far, and all of them. *)
Taken(c) == {restore[k] : k \in 0 .. c - 1}

RestoreInv ==
  /\ unused \in UnusedSets
  /\ table = [n \in Entries \cup {-1} |-> table[n]]
  /\ restore = [k \in 0 .. NUM_BENCHMARKS - 1 |-> restore[k]]
  /\ module \in {"absent", "loading", "loaded", "unloading"}
  /\ stored \in 0 .. 3
  /\ module \in {"absent", "loaded"} => stored = 0
  /\ module = "absent" => restore = NoneFound
  /\ module = "absent" => \A n \in (Entries \cup {-1}) \ Lost : table[n] = Original[n]
  /\ module # "absent" => Taken(4) \subseteq unused \cup Lost
  /\ module # "absent" => \A n \in (Entries \cup {-1}) \ (Taken(4) \cup Lost) : table[n] = Original[n]
  /\ module = "unloading" => \A n \in Taken(stored) \ Lost : table[n] = Original[n]

LEMMA RestoreInit == KernelInit => RestoreInv
BY DEF KernelInit, RestoreInv, Original, NoneFound, NUM_BENCHMARKS, Taken

LEMMA RestoreStep == RestoreInv /\ [KernelNext]_kernel => RestoreInv'
<1> SUFFICES ASSUME RestoreInv, [KernelNext]_kernel
             PROVE  RestoreInv'
  OBVIOUS
<1> USE DEF RestoreInv, NUM_BENCHMARKS
<1>1. /\ Original' = Original /\ (Enough' <=> Enough) /\ Lost' = Lost
      /\ unused' = unused /\ NoneFound' = NoneFound
  BY DEF Original, Enough, Lost, NoneFound, KernelNext, Scan, Install, Rmmod, Remove, Store, kernel
<1>2. unused \subseteq Entries /\ Entries \subseteq Nat /\ IsFiniteSet(unused)
  BY KernelAssumption
<1>3. CASE Scan
  <2>1. stored = 0 /\ stored' = stored /\ table' = table /\ module = "absent" /\ module' = "loading"
    BY <1>3 DEF Scan
  <2>2. restore' = [k \in 0 .. 4 |-> restore'[k]]
    BY <1>3 DEF Scan
  <2> DEFINE U == {n \in Entries : table[n] = "ni"}
  <2>3. U \subseteq unused \cup Lost /\ (Enough => U = unused)
    BY <2>1, <1>2 DEF Original, Lost
  <2>4. restore' = [k \in DOMAIN restore |->
                     IF Found(k, U) = {} THEN restore[k] ELSE CHOOSE n \in Found(k, U) : TRUE]
    BY <1>3 DEF Scan
  <2> HIDE DEF U
  <2>5. ASSUME NEW k \in 0 .. 3
        PROVE  restore'[k] \in unused \cup Lost
    <3>1. CASE Found(k, U) = {}
      <4>1. ~Enough
        BY <1>2, <2>3, <3>1, FourFound DEF Enough
      <4>2. restore'[k] = restore[k] /\ restore[k] \in {-1, 0}
        BY <2>1, <2>4, <3>1 DEF NoneFound
      <4> QED
        BY <4>1, <4>2 DEF Lost
    <3>2. CASE Found(k, U) # {}
      <4>1. restore'[k] \in Found(k, U)
        BY <2>4, <3>2
      <4> QED
        BY <2>3, <4>1 DEF Found
    <3> QED
      BY <3>1, <3>2
  <2>6. Taken(4)' \subseteq unused \cup Lost
    BY <2>5 DEF Taken
  <2> QED
    BY <1>1, <2>1, <2>2, <2>6
<1>4. CASE Install
  <2>1. /\ module = "loading" /\ restore' = restore
        /\ table' = [table EXCEPT ![restore[stored]] = Calls[stored + 1]]
        /\ stored' = (stored + 1) % 4
        /\ module' = IF stored = 3 THEN "loaded" ELSE "loading"
    BY <1>4 DEF Install, Store
  <2>2. stored' \in 0 .. 3 /\ (stored = 3 => stored' = 0)
    BY <2>1
  <2>3. Taken(4)' = Taken(4)
    BY <2>1 DEF Taken
  <2>4. restore[stored] \in Taken(4)
    BY DEF Taken
  <2>5. \A n \in (Entries \cup {-1}) \ (Taken(4) \cup Lost) : table'[n] = Original[n]
    BY <2>1, <2>4
  <2>6. table' = [n \in Entries \cup {-1} |-> table'[n]]
    BY <2>1
  <2> QED
    BY <1>1, <2>1, <2>2, <2>3, <2>5, <2>6
<1>5. CASE Rmmod
  <2>1. /\ module = "loaded" /\ module' = "unloading" /\ stored = 0
        /\ restore' = restore /\ table' = table /\ stored' = stored
    BY <1>5 DEF Rmmod
  <2>2. Taken(4)' = Taken(4) /\ Taken(stored)' = {}
    BY <2>1 DEF Taken
  <2> QED
    BY <1>1, <2>1, <2>2
<1>6. CASE Remove
  <2>1. /\ module = "unloading"
        /\ restore' = IF stored = 3 THEN NoneFound ELSE restore
        /\ table' = [table EXCEPT ![restore[stored]] = "ni"]
        /\ stored' = (stored + 1) % 4
        /\ module' = IF stored = 3 THEN "absent" ELSE "unloading"
    BY <1>6 DEF Remove, Store
  <2>2. stored' \in 0 .. 3 /\ (stored = 3 => stored' = 0) /\ (stored # 3 => stored' = stored + 1)
    BY <2>1
  <2>3. restore[stored] \in Taken(4)
    BY DEF Taken
  <2>4. table' = [n \in Entries \cup {-1} |-> table'[n]]
    BY <2>1
  <2>5. /\ \A n \in (Entries \cup {-1}) \ (Taken(4) \cup Lost) : table'[n] = Original[n]
        /\ \A n \in Taken(stored + 1) \ Lost : table'[n] = Original[n]
    <3>1. \A n \in Taken(4) \ Lost : n \in Entries /\ Original[n] = "ni"
      BY <2>1, <1>2 DEF Original
    <3>2. Taken(stored + 1) = Taken(stored) \cup {restore[stored]}
      BY DEF Taken
    <3>3. Taken(stored) \subseteq Taken(4)
      BY DEF Taken
    <3> QED
      BY <2>1, <2>3, <3>1, <3>2, <3>3
  <2>6. CASE stored = 3
    <3>1. \A n \in (Entries \cup {-1}) \ Lost : table'[n] = Original[n]
      <4>1. Taken(stored + 1) = Taken(4)
        BY <2>6
      <4> QED
        BY <2>5, <4>1
    <3>2. restore' = NoneFound /\ restore' = [k \in 0 .. 4 |-> restore'[k]]
      BY <2>1, <2>6 DEF NoneFound
    <3>3. module' = "absent" /\ stored' = 0
      BY <2>1, <2>2, <2>6
    <3> QED
      BY <1>1, <2>4, <3>1, <3>2, <3>3
  <2>7. CASE stored # 3
    <3>1. restore' = restore /\ module' = "unloading" /\ stored' = stored + 1
      BY <2>1, <2>2, <2>7
    <3>2. Taken(4)' = Taken(4) /\ Taken(stored)' = Taken(stored + 1)
      BY <3>1 DEF Taken
    <3> QED
      BY <1>1, <2>1, <2>2, <2>4, <2>5, <3>1, <3>2
  <2> QED
    BY <2>6, <2>7
<1>7. CASE UNCHANGED kernel
  <2>1. table' = table /\ restore' = restore /\ module' = module /\ stored' = stored
    BY <1>7 DEF kernel
  <2>2. Taken(4)' = Taken(4) /\ Taken(stored)' = Taken(stored)
    BY <2>1 DEF Taken
  <2> QED
    BY <1>1, <2>1, <2>2
<1> QED
  BY <1>3, <1>4, <1>5, <1>6, <1>7 DEF KernelNext

LEMMA RestoreIs == RestoreInv => TableRestored
<1>1. ASSUME RestoreInv
      PROVE  ~Enough => Cardinality(unused) < 4
  <2>1. Cardinality(unused) \in Nat
    BY <1>1, KernelAssumption, FS_CardinalityType DEF RestoreInv
  <2> QED
    BY <2>1 DEF Enough
<1> QED
  BY <1>1 DEF RestoreInv, TableRestored, Lost

(* Loaded and removed any number of times, the module leaves the table as  *)
(* it found it, if there were four unused entries, and has lost nothing    *)
(* but entry 0 and the word before the table otherwise.                    *)
THEOREM ModuleRestoresTable == KernelSpec => []TableRestored
BY RestoreInit, RestoreStep, RestoreIs, PTL DEF KernelSpec

(***************************************************************************)
(* Part 2.  Arithmetic of the loops.                                       *)
(***************************************************************************)

(* The exponents used, up to m: the powers grow faster than the exponent.  *)
LEMMA PowersGrow ==
  ASSUME NEW m \in {ArenaCells, CO_LEVELS} \cup {Asked(size) : size \in FixedSizes}, m \in Nat
  PROVE  \A k \in 0 .. m + 1 : 2^k \in Nat /\ 2^k >= k + 1
<1> DEFINE Bad == {k \in 0 .. m + 1 : ~(2^k \in Nat /\ 2^k >= k + 1)}
<1> SUFFICES ASSUME Bad # {}
             PROVE  FALSE
  OBVIOUS
<1>0. Bad \subseteq Nat /\ 0 \notin Bad
  <2>1. 2^0 = 1
    OBVIOUS
  <2> QED
    BY <2>1
<1> HIDE DEF Bad
<1>1. PICK k \in Bad : \A l \in Bad : k <= l
  BY <1>0, Least
<1>2. k # 0 /\ k \in 0 .. m + 1
  BY <1>0, <1>1 DEF Bad
<1>3. k - 1 \in 0 .. m /\ k \in Nat /\ k - 1 \in 0 .. m + 1
  BY <1>2
<1>4. k - 1 \notin Bad
  BY <1>1, <1>3
<1>5. 2^(k - 1) \in Nat /\ 2^(k - 1) >= (k - 1) + 1
  BY <1>3, <1>4 DEF Bad
<1>6. 2^((k - 1) + 1) = 2 * 2^(k - 1)
  BY <1>3, BenchmarkPowersAssumption
<1>7. (k - 1) + 1 = k
  BY <1>3
<1>8. 2^k = 2 * 2^(k - 1)
  BY <1>6, <1>7
<1>9. 2^k \in Nat /\ 2^k >= k + 1
  BY <1>3, <1>5, <1>8
<1> QED
  BY <1>1, <1>9 DEF Bad

(* Powers are positive. *)
LEMMA PowersPositive == \A p \in Powers : p \in Nat \ {0}
<1> SUFFICES ASSUME NEW k \in 0 .. ArenaCells
             PROVE  2^k \in Nat \ {0}
  BY DEF Powers
<1>1. ArenaCells \in Nat
  BY BenchmarkAssumption
<1> QED
  BY <1>1, PowersGrow

(* The chunks of CO have places, and so have the attempts of a burst and   *)
(* the block of CA.                                                        *)
LEMMA PlacesFacts ==
  /\ blocchi \in Nat
  /\ 1 .. blocchi \subseteq Places
  /\ 1 .. LS_ITERATIONS \subseteq Places
  /\ 1 .. TT_OBJS \subseteq Places
  /\ 1 \in Places
  /\ Places \subseteq Nat
<1>1. CO_LEVELS \in Nat /\ LS_ITERATIONS \in Nat \ {0} /\ TT_OBJS \in Nat
  BY BenchmarkAssumption
<1>2. 2^CO_LEVELS \in Nat /\ 2^CO_LEVELS >= CO_LEVELS + 1
  BY <1>1, PowersGrow
<1>3. blocchi \in Nat
  BY <1>1, <1>2 DEF blocchi
<1> DEFINE M == Max({blocchi, LS_ITERATIONS, TT_OBJS})
<1>4. \E x \in {blocchi, LS_ITERATIONS, TT_OBJS} : \A y \in {blocchi, LS_ITERATIONS, TT_OBJS} : x >= y
  BY <1>1, <1>3
<1>5. /\ M \in {blocchi, LS_ITERATIONS, TT_OBJS}
      /\ M >= blocchi /\ M >= LS_ITERATIONS /\ M >= TT_OBJS
  BY <1>4 DEF Max
<1>6. M \in Nat
  BY <1>1, <1>3, <1>5
<1> HIDE DEF M
<1> QED
  BY <1>1, <1>3, <1>5, <1>6 DEF Places, M

(* The arguments of a run. *)
RunTypeOK ==
  /\ build \in Builds
  /\ benchmark \in {"LS", "TT", "CA", "CO"}
  /\ fixed_size \in FixedSizes

(* convert_to_level finds an order. *)
LEMMA OrderFound ==
  ASSUME RunTypeOK
  PROVE  /\ fixed_order \in Nat
         /\ 2^fixed_order \in Nat /\ 2^fixed_order >= fixed_order + 1
<1> DEFINE a == Asked(fixed_size)
<1>1. fixed_size \in Nat \ {0} /\ BASE \in Nat \ {0}
  BY BenchmarkAssumption DEF RunTypeOK
<1>2. a \in Nat /\ a >= 1
  BY <1>1 DEF Asked
<1>3. \A k \in 0 .. a + 1 : 2^k \in Nat /\ 2^k >= k + 1
  BY <1>2, PowersGrow DEF RunTypeOK
<1> HIDE DEF a
<1> DEFINE Above == {k \in 0 .. a : a < 2^(k + 1)}
<1>4. a \in Above /\ Above \subseteq Nat
  BY <1>2, <1>3
<1> HIDE DEF Above
<1>5. PICK k \in Above : \A l \in Above : k <= l
  BY <1>4, Least
<1>6. 2^k <= a
  <2>0. k \in 0 .. a /\ k \in 0 .. a + 1
    BY <1>2, <1>5 DEF Above
  <2>1. CASE k = 0
    <3>1. 2^0 = 1
      OBVIOUS
    <3> QED
      BY <1>2, <2>1, <3>1
  <2>2. CASE k # 0
    <3>1. k - 1 \in 0 .. a /\ (k - 1) + 1 = k /\ ~(k <= k - 1)
      BY <1>2, <2>0, <2>2
    <3>2. k - 1 \notin Above
      BY <1>5, <3>1
    <3>3. ~(a < 2^k)
      BY <3>1, <3>2 DEF Above
    <3>4. 2^k \in Nat
      BY <1>3, <2>0
    <3> QED
      BY <1>2, <3>3, <3>4
  <2> QED
    BY <2>1, <2>2
<1>7. fixed_order \in 0 .. a
  BY <1>5, <1>6 DEF fixed_order, a, Above
<1>8. fixed_order \in 0 .. a + 1
  BY <1>2, <1>7
<1> QED
  BY <1>2, <1>3, <1>7, <1>8

LEMMA PagesFacts ==
  ASSUME RunTypeOK
  PROVE  /\ pages \in Nat
         /\ pages = 0 /\ UserBuild => fixed_size < BASE
         /\ pages = 0 /\ ~UserBuild => fixed_order >= 1
<1>1. fixed_size \in Nat \ {0} /\ BASE \in Nat \ {0}
  BY BenchmarkAssumption DEF RunTypeOK
<1>2. CASE UserBuild
  <2>1. pages = fixed_size \div BASE
    BY <1>2 DEF pages
  <2> QED
    BY <1>1, <1>2, <2>1
<1>3. CASE ~UserBuild
  <2>1. pages = 1 \div 2^fixed_order
    BY <1>3 DEF pages
  <2>2. fixed_order \in Nat /\ 2^fixed_order \in Nat \ {0}
    BY OrderFound
  <2>3. fixed_order = 0 => pages = 1
    BY <2>1
  <2>4. pages \in Nat
    BY <2>1, <2>2
  <2> QED
    BY <1>3, <2>2, <2>3, <2>4
<1> QED
  BY <1>2, <1>3

LEMMA Quotient ==
  ASSUME NEW a \in Nat, NEW b \in Nat \ {0}
  PROVE  a \div b \in 0 .. a
OBVIOUS

(* Every attempt of a loop has a place. *)
LEMMA AttemptsFit ==
  ASSUME RunTypeOK, benchmark \in Bursts, ~DividesByZero, Threads # {}
  PROVE  tentativi \in Nat /\ 1 .. tentativi \subseteq Places
<1>1. pages \in Nat \ {0}
  BY PagesFacts DEF DividesByZero
<1>2. number_of_processes \in Nat \ {0}
  BY BenchmarkAssumption
<1>3. LS_ITERATIONS \in Nat /\ TT_OBJS \in Nat
  BY BenchmarkAssumption
<1>4. CASE benchmark = "LS"
  <2>1. tentativi = LS_ITERATIONS \div pages
    BY <1>4 DEF tentativi, LS_tentativi
  <2>2. tentativi \in 0 .. LS_ITERATIONS
    BY <1>1, <1>3, <2>1, Quotient
  <2> QED
    BY <1>3, <2>2, PlacesFacts
<1>5. CASE benchmark = "TT"
  <2>1. tentativi = (TT_OBJS \div number_of_processes) \div pages
    BY <1>5 DEF tentativi, TT_tentativi
  <2>2. TT_OBJS \div number_of_processes \in 0 .. TT_OBJS
    BY <1>2, <1>3, Quotient
  <2>3. tentativi \in 0 .. (TT_OBJS \div number_of_processes)
    BY <1>1, <2>1, <2>2, Quotient
  <2>4. tentativi \in 0 .. TT_OBJS
    BY <1>3, <2>2, <2>3
  <2> QED
    BY <1>3, <2>4, PlacesFacts
<1> QED
  BY <1>4, <1>5 DEF Bursts

(***************************************************************************)
(* Part 3.  Types, and where the workers are.                              *)
(***************************************************************************)
Outside == {"none", "register", "spin", "syscall", "loop"}

WorkerInv(t) ==
  /\ i[t] >= 1
  /\ pc[t] = "syscall" => ~UserBuild
  /\ pc[t] = "loop" /\ ~UserBuild => OrderAccepted
  /\ pc[t] \in Outside => i[t] = 1 /\ \A k \in Places : addrs[t][k] = NULL
  /\ pc[t] \in {"malloc", "free"} => benchmark # "CO"
  /\ pc[t] \in {"malloc", "free"} /\ benchmark \in Bursts =>
       ~DividesByZero /\ i[t] <= tentativi + 1
  /\ pc[t] \in {"fill", "choose", "refill"} => benchmark = "CO"
  /\ pc[t] = "fill" => \A k \in Places : k >= i[t] => addrs[t][k] = NULL
  /\ pc[t] = "refill" => j[t] \in 1 .. blocchi

Registered == {t \in Threads : pc[t] \notin {"none", "register"}}

TypeInv ==
  /\ RunTypeOK
  /\ TypeOK
  /\ main = "create" => start = 0
  /\ pcount = Cardinality(Registered)
  /\ \A t \in Threads : WorkerInv(t)

(* The arguments do not change, nor what is computed from them. *)
LEMMA SameRun ==
  ASSUME run' = run
  PROVE  /\ build' = build /\ benchmark' = benchmark /\ fixed_size' = fixed_size
         /\ UserBuild' = UserBuild /\ OrderAccepted' = OrderAccepted
         /\ tentativi' = tentativi /\ DividesByZero' = DividesByZero
         /\ RunTypeOK' = RunTypeOK
<1>1. build' = build /\ benchmark' = benchmark /\ fixed_size' = fixed_size
  BY DEF run
<1>2. UserBuild' = UserBuild /\ fixed_order' = fixed_order
  BY <1>1 DEF UserBuild, fixed_order
<1>3. pages' = pages
  BY <1>1, <1>2 DEF pages
<1> QED
  BY <1>1, <1>2, <1>3
     DEF OrderAccepted, tentativi, LS_tentativi, TT_tentativi, CO_tentativi, DividesByZero, RunTypeOK

(* A place of a worker is written. *)
LEMMA PlaceWritten ==
  ASSUME addrs \in [Threads -> [Places -> Regions \cup {NULL}]],
         NEW t \in Threads, NEW k \in Places, NEW r \in Regions \cup {NULL},
         addrs' = [addrs EXCEPT ![t][k] = r]
  PROVE  /\ addrs' \in [Threads -> [Places -> Regions \cup {NULL}]]
         /\ addrs'[t][k] = r
         /\ \A u \in Threads : \A l \in Places : u # t \/ l # k => addrs'[u][l] = addrs[u][l]
         /\ \A u \in Threads \ {t} : addrs'[u] = addrs[u]
<1>1. addrs' = [addrs EXCEPT ![t] = [addrs[t] EXCEPT ![k] = r]]
  OBVIOUS
<1>2. [addrs[t] EXCEPT ![k] = r] \in [Places -> Regions \cup {NULL}]
  OBVIOUS
<1> QED
  BY <1>1, <1>2

(* A request granted: a region that nobody has. *)
LEMMA Granted ==
  ASSUME given \subseteq Regions, addrs \in [Threads -> [Places -> Regions \cup {NULL}]],
         NEW t \in Threads, NEW k \in Places, NEW size, Grant(t, size, k)
  PROVE  \E r \in Regions :
           /\ r \notin given /\ given' = given \cup {r}
           /\ addrs' = [addrs EXCEPT ![t][k] = r]
<1>1. PICK p \in Powers : Arena!Malloc(p)
  BY DEF Grant
<1>2. PICK a \in 0 .. (ArenaCells - p) :
        LET r == [addr |-> a, size |-> p]
        IN /\ \A q \in given : Arena!CellsOf(q) \cap Arena!CellsOf(r) = {}
           /\ given' = given \cup {r}
  BY <1>1 DEF Arena!Malloc
<1> DEFINE r == [addr |-> a, size |-> p]
<1>3. p \in Nat \ {0} /\ ArenaCells \in Nat
  BY PowersPositive, BenchmarkAssumption
<1>4. a \in 0 .. ArenaCells - 1
  BY <1>3
<1>5. r \in Regions
  BY <1>4 DEF Regions
<1>6. a \in Arena!CellsOf(r)
  BY <1>3, <1>4 DEF Arena!CellsOf
<1>7. r \notin given
  BY <1>2, <1>6
<1>8. given' = given \cup {r}
  BY <1>2
<1> HIDE DEF r
<1>9. (CHOOSE x \in given' : x \notin given) = r
  BY <1>7, <1>8
<1> QED
  BY <1>5, <1>7, <1>8, <1>9 DEF Grant

(* Granted or refused, the place is written and a region is a new one. *)
LEMMA Answered ==
  ASSUME given \subseteq Regions, addrs \in [Threads -> [Places -> Regions \cup {NULL}]],
         NEW t \in Threads, NEW k \in Places, NEW size, Grant(t, size, k) \/ Refuse(t, k)
  PROVE  /\ addrs' \in [Threads -> [Places -> Regions \cup {NULL}]]
         /\ given' \subseteq Regions
         /\ \A u \in Threads : \A l \in Places : u # t \/ l # k => addrs'[u][l] = addrs[u][l]
         /\ \A u \in Threads \ {t} : addrs'[u] = addrs[u]
         /\ \/ addrs'[t][k] = NULL /\ given' = given
            \/ /\ addrs'[t][k] \in Regions /\ addrs'[t][k] \notin given
               /\ given' = given \cup {addrs'[t][k]}
<1>1. CASE Grant(t, size, k)
  <2>1. PICK r \in Regions : /\ r \notin given /\ given' = given \cup {r}
                             /\ addrs' = [addrs EXCEPT ![t][k] = r]
    BY <1>1, Granted
  <2> QED
    BY <2>1, PlaceWritten
<1>2. CASE Refuse(t, k)
  BY <1>2, PlaceWritten DEF Refuse
<1> QED
  BY <1>1, <1>2

LEMMA TypeInit == Start => TypeInv
<1> SUFFICES ASSUME Start
             PROVE  TypeInv
  OBVIOUS
<1> USE DEF Start, Init
<1>1. RunTypeOK
  BY DEF RunTypeOK
<1>2. number_of_processes \in Nat /\ Threads = 1 .. number_of_processes
  BY BenchmarkAssumption
<1>3. TypeOK
  <2>1. \A t \in Threads : 0 \in Slots
    BY <1>2 DEF Slots
  <2> QED
    BY <1>2, <2>1 DEF TypeOK
<1>4. pcount = Cardinality(Registered)
  <2>1. Registered = {}
    BY DEF Registered
  <2> QED
    BY <2>1, FS_EmptySet
<1>5. \A t \in Threads : WorkerInv(t)
  BY DEF WorkerInv
<1> QED
  BY <1>1, <1>3, <1>4, <1>5 DEF TypeInv

(* A step of a worker that is beyond its registration concerns the worker  *)
(* alone.                                                                  *)
LEMMA WorkerStep ==
  ASSUME TypeInv, NEW t \in Threads, run' = run, main' = main, start' = start, pcount' = pcount,
         pc[t] \notin {"none", "register"}, pc'[t] \notin {"none", "register"},
         \A u \in Threads \ {t} :
           pc'[u] = pc[u] /\ i'[u] = i[u] /\ j'[u] = j[u] /\ addrs'[u] = addrs[u],
         TypeOK', WorkerInv(t)'
  PROVE  TypeInv'
<1>1. RunTypeOK'
  BY SameRun DEF TypeInv
<1>2. Registered' = Registered
  BY DEF Registered
<1>3. ASSUME NEW u \in Threads \ {t}
      PROVE  WorkerInv(u)'
  BY <1>3, SameRun DEF TypeInv, WorkerInv
<1> QED
  BY <1>1, <1>2, <1>3 DEF TypeInv

LEMMA CountsOfTypes ==
  ASSUME TypeInv, NEW t \in Threads
  PROVE  /\ myid[t] \in Slots
         /\ Incremented(allocs, t) \in [Slots -> Nat]
         /\ Incremented(failures, t) \in [Slots -> Nat]
         /\ Incremented(frees, t) \in [Slots -> Nat]
BY DEF TypeInv, TypeOK, Incremented

LEMMA MovedTo ==
  ASSUME TypeInv, NEW t \in Threads, NEW label, pc' = [pc EXCEPT ![t] = label]
  PROVE  pc'[t] = label /\ \A u \in Threads \ {t} : pc'[u] = pc[u]
<1>1. pc = [u \in Threads |-> pc[u]]
  BY DEF TypeInv, TypeOK
<1> QED
  BY <1>1

(* The main thread. *)
LEMMA MainTypes == ASSUME TypeInv, Main PROVE TypeInv'
<1>1. CASE Create
  <2>1. PICK t \in Threads : pc[t] = "none" /\ pc' = [pc EXCEPT ![t] = "register"]
    BY <1>1 DEF Create
  <2>2. /\ run' = run /\ main' = main /\ start' = start /\ pcount' = pcount
        /\ i' = i /\ j' = j /\ addrs' = addrs
    BY <1>1 DEF Create
  <2>3. TypeOK'
    BY <1>1, <2>1 DEF Create, TypeInv, TypeOK, counters
  <2>4. Registered' = Registered
    BY <2>1 DEF Registered, TypeInv, TypeOK
  <2>5. ASSUME NEW u \in Threads
        PROVE  WorkerInv(u)'
    <3>1. pc'[u] = pc[u] \/ (pc[u] = "none" /\ pc'[u] = "register")
      <4>1. pc'[t] = "register" /\ \A v \in Threads \ {t} : pc'[v] = pc[v]
        BY <2>1, MovedTo
      <4> QED
        BY <2>1, <4>1
    <3>2. WorkerInv(u)
      BY DEF TypeInv
    <3> QED
      BY <2>2, <3>1, <3>2, SameRun DEF WorkerInv, Outside
  <2> QED
    BY <2>2, <2>3, <2>4, <2>5, SameRun DEF TypeInv
<1>2. CASE Open
  <2>1. /\ run' = run /\ pc' = pc /\ pcount' = pcount /\ i' = i /\ j' = j /\ addrs' = addrs
        /\ main' = "join" /\ start' = 1
    BY <1>2 DEF Open, Opened, TypeInv
  <2>2. TypeOK'
    BY <1>2, <2>1 DEF Open, TypeInv, TypeOK, counters
  <2>3. Registered' = Registered
    BY <2>1 DEF Registered
  <2>4. \A u \in Threads : WorkerInv(u)'
    BY <2>1, SameRun DEF TypeInv, WorkerInv
  <2> QED
    BY <2>1, <2>2, <2>3, <2>4, SameRun DEF TypeInv
<1>3. CASE JoinAll
  <2>1. /\ run' = run /\ pc' = pc /\ pcount' = pcount /\ i' = i /\ j' = j /\ addrs' = addrs
        /\ main' = "report" /\ start' = start
    BY <1>3 DEF JoinAll
  <2>2. TypeOK'
    BY <1>3, <2>1 DEF JoinAll, TypeInv, TypeOK, counters
  <2>3. Registered' = Registered
    BY <2>1 DEF Registered
  <2>4. \A u \in Threads : WorkerInv(u)'
    BY <2>1, SameRun DEF TypeInv, WorkerInv
  <2> QED
    BY <2>1, <2>2, <2>3, <2>4, SameRun DEF TypeInv
<1> QED
  BY <1>1, <1>2, <1>3 DEF Main

LEMMA EndTypes ==
  ASSUME TypeInv, NEW end \in {"crashed", "misdirected"}, EndsAs(end)
  PROVE  TypeInv'
<1>1. /\ run' = run /\ pc' = pc /\ pcount' = pcount /\ i' = i /\ j' = j /\ addrs' = addrs
      /\ main' = end /\ start' = start
  BY DEF EndsAs
<1>2. TypeOK'
  BY <1>1 DEF EndsAs, TypeInv, TypeOK, counters
<1>3. Registered' = Registered
  BY <1>1 DEF Registered
<1>4. \A u \in Threads : WorkerInv(u)'
  BY <1>1, SameRun DEF TypeInv, WorkerInv
<1> QED
  BY <1>1, <1>2, <1>3, <1>4, SameRun DEF TypeInv

(* Fewer workers have a slot than there are slots while one has none.      *)
LEMMA SlotFree ==
  ASSUME TypeInv, NEW t \in Threads, pc[t] = "register"
  PROVE  /\ pcount \in Slots
         /\ Cardinality(Registered \cup {t}) = pcount + 1
         /\ pcount + 1 \in 0 .. number_of_processes
<1>1. number_of_processes \in Nat /\ Threads = 1 .. number_of_processes /\ IsFiniteSet(Threads)
  <2>1. number_of_processes \in Nat /\ Threads = 1 .. number_of_processes
    BY BenchmarkAssumption
  <2>2. IsFiniteSet(1 .. number_of_processes)
    BY <2>1, FS_Interval
  <2> QED
    BY <2>1, <2>2
<1>2. Registered \subseteq Threads /\ t \notin Registered
  BY DEF Registered
<1>3. IsFiniteSet(Registered)
  BY <1>1, <1>2, FS_Subset
<1>4. Cardinality(Registered \cup {t}) = pcount + 1
  BY <1>2, <1>3, FS_AddElement DEF TypeInv
<1>5. Cardinality(Registered \cup {t}) <= number_of_processes
  BY <1>1, <1>2, FS_Subset DEF number_of_processes
<1>6. pcount \in Nat
  BY DEF TypeInv, TypeOK
<1> QED
  BY <1>1, <1>4, <1>5, <1>6 DEF Slots

LEMMA RegisterTypes == ASSUME TypeInv, NEW t \in Threads, Register(t) PROVE TypeInv'
<1>1. /\ pc[t] = "register" /\ pc' = [pc EXCEPT ![t] = "spin"]
      /\ myid' = [myid EXCEPT ![t] = pcount] /\ pcount' = pcount + 1
      /\ run' = run /\ main' = main /\ start' = start
      /\ i' = i /\ j' = j /\ addrs' = addrs /\ counters' = counters /\ ops' = ops /\ given' = given
  BY DEF Register, At, Goto, Slot, SlotTaken
<1>2. /\ pcount \in Slots /\ Cardinality(Registered \cup {t}) = pcount + 1
      /\ pcount + 1 \in 0 .. number_of_processes
  BY <1>1, SlotFree
<1>3. TypeOK'
  BY <1>1, <1>2 DEF TypeInv, TypeOK, counters
<1>4. Registered' = Registered \cup {t}
  BY <1>1 DEF Registered, TypeInv, TypeOK
<1>5. ASSUME NEW u \in Threads
      PROVE  WorkerInv(u)'
  <2>1. pc'[u] = pc[u] \/ (pc[u] = "register" /\ pc'[u] = "spin")
    <3>1. pc'[t] = "spin" /\ \A v \in Threads \ {t} : pc'[v] = pc[v]
      BY <1>1, MovedTo
    <3> QED
      BY <1>1, <3>1
  <2>2. WorkerInv(u)
    BY DEF TypeInv
  <2> QED
    BY <1>1, <2>1, <2>2, SameRun DEF WorkerInv, Outside
<1> QED
  BY <1>1, <1>2, <1>3, <1>4, <1>5, SameRun DEF TypeInv

(* What a step of a loop leaves alone. *)
LEMMA LoopFrame ==
  Constant' = Constant =>
    run' = run /\ main' = main /\ start' = start /\ pcount' = pcount /\ myid' = myid /\ ops' = ops
BY DEF Constant

LEMMA EntryTypes ==
  ASSUME TypeInv, NEW t \in Threads, PassBarrier(t) \/ Syscall(t) \/ EnterLoop(t)
  PROVE  TypeInv'
<1>1. CASE PassBarrier(t)
  <2>1. /\ pc[t] = "spin" /\ pc' = [pc EXCEPT ![t] = IF UserBuild THEN "loop" ELSE "syscall"]
        /\ ops' = IF UserBuild THEN [ops EXCEPT ![myid[t]] = announced] ELSE ops
        /\ run' = run /\ main' = main /\ start' = start /\ pcount' = pcount /\ myid' = myid
        /\ i' = i /\ j' = j /\ addrs' = addrs /\ counters' = counters /\ given' = given
    BY <1>1 DEF PassBarrier, At, Goto
  <2>2. UserBuild => announced \in Nat
    <3>1. /\ number_of_processes \in Nat \ {0} /\ LS_ITERATIONS \in Nat /\ TT_ITERATIONS \in Nat
          /\ TT_OBJS \in Nat /\ CA_ITERATIONS \in Nat /\ CO_ITERATIONS \in Nat
      BY BenchmarkAssumption
    <3>2. TT_ITERATIONS * TT_OBJS \in Nat
      BY <3>1
    <3>3. /\ (TT_ITERATIONS * TT_OBJS) \div number_of_processes \in Nat
          /\ CO_ITERATIONS \div number_of_processes \in Nat
      BY <3>1, <3>2, Quotient
    <3> QED
      BY <3>1, <3>3
         DEF announced, LS_announced, TT_announced, CA_announced, CO_announced, TypeInv, RunTypeOK
  <2>3. TypeOK'
    BY <2>1, <2>2 DEF TypeInv, TypeOK, counters
  <2>4. /\ pc'[t] = IF UserBuild THEN "loop" ELSE "syscall"
        /\ \A u \in Threads \ {t} : pc'[u] = pc[u]
    BY <2>1, MovedTo
  <2>5. WorkerInv(t)'
    BY <2>1, <2>4, SameRun DEF TypeInv, WorkerInv, Outside
  <2> QED
    BY <2>1, <2>3, <2>4, <2>5, WorkerStep
<1>2. CASE Syscall(t)
  <2>1. CASE EndsAs("misdirected")
    BY <2>1, EndTypes
  <2>2. CASE ~EndsAs("misdirected")
    <3>1. PICK label \in {"loop", "exited"} :
            /\ pc[t] = "syscall" /\ pc' = [pc EXCEPT ![t] = label]
            /\ label = "loop" => OrderAccepted
            /\ Constant' = Constant /\ i' = i /\ j' = j /\ addrs' = addrs
            /\ counters' = counters /\ given' = given
      BY <1>2, <2>2 DEF Syscall, At, Goto
    <3>2. TypeOK'
      BY <3>1, LoopFrame DEF TypeInv, TypeOK, counters
    <3>3. pc'[t] = label /\ \A u \in Threads \ {t} : pc'[u] = pc[u]
      BY <3>1, MovedTo
    <3>4. WorkerInv(t)'
      BY <3>1, <3>3, LoopFrame, SameRun DEF TypeInv, WorkerInv, Outside
    <3> QED
      BY <3>1, <3>2, <3>3, <3>4, LoopFrame, WorkerStep
  <2> QED
    BY <2>1, <2>2
<1>3. CASE EnterLoop(t)
  <2>1. CASE EndsAs("crashed")
    BY <2>1, EndTypes
  <2>2. CASE ~EndsAs("crashed")
    <3>1. /\ pc[t] = "loop" /\ pc' = [pc EXCEPT ![t] = LoopEntry] /\ ~DividesByZero
          /\ Constant' = Constant /\ i' = i /\ j' = j /\ addrs' = addrs
          /\ counters' = counters /\ given' = given
      BY <1>3, <2>2 DEF EnterLoop, At, Goto
    <3>2. TypeOK'
      BY <3>1, LoopFrame DEF TypeInv, TypeOK, counters, LoopEntry
    <3>3. pc'[t] = LoopEntry /\ \A u \in Threads \ {t} : pc'[u] = pc[u]
      BY <3>1, MovedTo
    <3>4. benchmark \in Bursts => tentativi \in Nat
      BY <3>1, AttemptsFit DEF TypeInv
    <3>5. WorkerInv(t)'
      BY <3>1, <3>3, <3>4, LoopFrame, SameRun DEF TypeInv, WorkerInv, Outside, LoopEntry, Bursts
    <3> QED
      BY <3>1, <3>2, <3>3, <3>5, LoopFrame, WorkerStep DEF LoopEntry
  <2> QED
    BY <2>1, <2>2
<1> QED
  BY <1>1, <1>2, <1>3

(* A counted request. *)
LEMMA CountedTypes ==
  ASSUME TypeInv, NEW t \in Threads, NEW k \in Places, NEW size, CountedMalloc(t, size, k)
  PROVE  /\ allocs' \in [Slots -> Nat] /\ failures' \in [Slots -> Nat]
         /\ addrs' \in [Threads -> [Places -> Regions \cup {NULL}]]
         /\ given' \subseteq Regions
         /\ \A u \in Threads : \A l \in Places : u # t \/ l # k => addrs'[u][l] = addrs[u][l]
         /\ \A u \in Threads \ {t} : addrs'[u] = addrs[u]
<1>1. Grant(t, size, k) \/ Refuse(t, k)
  BY DEF CountedMalloc
<1>2. given \subseteq Regions /\ addrs \in [Threads -> [Places -> Regions \cup {NULL}]]
      /\ allocs \in [Slots -> Nat] /\ failures \in [Slots -> Nat]
  BY DEF TypeInv, TypeOK
<1>3. allocs' \in [Slots -> Nat] /\ failures' \in [Slots -> Nat]
  BY <1>2, CountsOfTypes DEF CountedMalloc
<1> QED
  BY <1>1, <1>2, <1>3, Answered

(* A release: nothing but the region goes. *)
LEMMA FreedTypes ==
  ASSUME TypeInv, NEW r, Arena!Free(r)
  PROVE  given' = given \ {r} /\ given' \subseteq Regions
BY DEF TypeInv, TypeOK, Arena!Free

(* An index or a loop counter moves on, or starts again. *)
LEMMA Counted ==
  ASSUME TypeInv, NEW t \in Threads
  PROVE  /\ Following(i, t) \in [Threads -> Nat] /\ Following(i, t)[t] = i[t] + 1
         /\ [i EXCEPT ![t] = 1] \in [Threads -> Nat] /\ [i EXCEPT ![t] = 1][t] = 1
         /\ Following(j, t) \in [Threads -> Nat]
         /\ \A u \in Threads \ {t} :
              Following(i, t)[u] = i[u] /\ [i EXCEPT ![t] = 1][u] = i[u] /\ Following(j, t)[u] = j[u]
         /\ i[t] \in Nat /\ i[t] >= 1
<1>1. i \in [Threads -> Nat] /\ j \in [Threads -> Nat] /\ WorkerInv(t)
  BY DEF TypeInv, TypeOK
<1> QED
  BY <1>1 DEF Following, WorkerInv

BurstStep(t) == BurstMalloc(t) \/ BurstTurn(t) \/ BurstSkip(t) \/ BurstFree(t) \/ BurstNext(t)

LEMMA BurstTypes == ASSUME TypeInv, NEW t \in Threads, BurstStep(t) PROVE TypeInv'
<1>1. /\ pc[t] \in {"malloc", "free"} /\ benchmark \in Bursts /\ benchmark # "CO"
      /\ ~DividesByZero /\ i[t] \in Nat /\ i[t] >= 1 /\ i[t] <= tentativi + 1
  BY DEF BurstStep, BurstMalloc, BurstTurn, BurstSkip, BurstFree, BurstNext, At, Bursts,
         TypeInv, TypeOK, WorkerInv
<1>2. tentativi \in Nat /\ 1 .. tentativi \subseteq Places
  BY <1>1, AttemptsFit DEF TypeInv
<1>3. CASE BurstMalloc(t)
  <2>1. /\ i[t] <= tentativi /\ pc[t] = "malloc" /\ CountedMalloc(t, block, i[t])
        /\ i' = Following(i, t) /\ Constant' = Constant /\ pc' = pc /\ j' = j /\ frees' = frees
    BY <1>3 DEF BurstMalloc, At
  <2>2. i[t] \in Places
    BY <1>1, <1>2, <2>1
  <2>3. TypeOK'
    BY <2>1, <2>2, CountedTypes, Counted, LoopFrame DEF TypeInv, TypeOK
  <2>4. i'[t] = i[t] + 1 /\ \A u \in Threads \ {t} : i'[u] = i[u]
    BY <2>1, Counted
  <2>5. WorkerInv(t)'
    BY <1>1, <1>2, <2>1, <2>4, LoopFrame, SameRun DEF WorkerInv, Outside
  <2>6. \A u \in Threads \ {t} : addrs'[u] = addrs[u]
    BY <2>1, <2>2, CountedTypes
  <2> QED
    BY <2>1, <2>3, <2>4, <2>5, <2>6, LoopFrame, WorkerStep
<1>4. CASE BurstTurn(t)
  <2>1. /\ pc' = [pc EXCEPT ![t] = "free"] /\ i' = [i EXCEPT ![t] = 1]
        /\ Constant' = Constant /\ j' = j /\ addrs' = addrs /\ counters' = counters /\ given' = given
    BY <1>4 DEF BurstTurn, Goto
  <2>2. pc'[t] = "free" /\ \A u \in Threads \ {t} : pc'[u] = pc[u]
    BY <2>1, MovedTo
  <2>3. TypeOK'
    BY <2>1, Counted, LoopFrame DEF TypeInv, TypeOK, counters
  <2>4. i'[t] = 1 /\ \A u \in Threads \ {t} : i'[u] = i[u]
    BY <2>1, Counted
  <2>5. WorkerInv(t)'
    BY <1>1, <1>2, <2>1, <2>2, <2>4, LoopFrame, SameRun DEF WorkerInv, Outside
  <2> QED
    BY <1>1, <2>1, <2>2, <2>3, <2>4, <2>5, LoopFrame, WorkerStep
<1>5. CASE BurstSkip(t)
  <2>1. /\ pc[t] = "free" /\ i[t] <= tentativi /\ i' = Following(i, t) /\ pc' = pc
        /\ Constant' = Constant /\ j' = j /\ addrs' = addrs /\ counters' = counters /\ given' = given
    BY <1>5 DEF BurstSkip, At
  <2>3. TypeOK'
    BY <2>1, Counted, LoopFrame DEF TypeInv, TypeOK, counters
  <2>4. i'[t] = i[t] + 1 /\ \A u \in Threads \ {t} : i'[u] = i[u]
    BY <2>1, Counted
  <2>5. WorkerInv(t)'
    BY <1>1, <1>2, <2>1, <2>4, LoopFrame, SameRun DEF WorkerInv, Outside
  <2> QED
    BY <2>1, <2>3, <2>4, <2>5, LoopFrame, WorkerStep
<1>6. CASE BurstFree(t)
  <2>1. CASE EndsAs("crashed")
    BY <2>1, EndTypes
  <2>2. CASE ~EndsAs("crashed")
    <3>1. /\ pc[t] = "free" /\ i[t] <= tentativi /\ i' = Following(i, t) /\ pc' = pc
          /\ Arena!Free(addrs[t][i[t]]) /\ frees' = Incremented(frees, t)
          /\ Constant' = Constant /\ j' = j /\ addrs' = addrs
          /\ allocs' = allocs /\ failures' = failures
      BY <1>6, <2>2 DEF BurstFree, At
    <3>3. TypeOK'
      BY <3>1, Counted, CountsOfTypes, FreedTypes, LoopFrame DEF TypeInv, TypeOK
    <3>4. i'[t] = i[t] + 1 /\ \A u \in Threads \ {t} : i'[u] = i[u]
      BY <3>1, Counted
    <3>5. WorkerInv(t)'
      BY <1>1, <1>2, <3>1, <3>4, LoopFrame, SameRun DEF WorkerInv, Outside
    <3> QED
      BY <3>1, <3>3, <3>4, <3>5, LoopFrame, WorkerStep
  <2> QED
    BY <2>1, <2>2
<1>7. CASE BurstNext(t)
  <2>1. PICK label \in {"malloc", "exited"} :
          /\ pc[t] = "free" /\ pc' = [pc EXCEPT ![t] = label] /\ j' = Following(j, t)
          /\ IF label = "malloc" THEN i' = [i EXCEPT ![t] = 1] ELSE i' = i
          /\ Constant' = Constant /\ addrs' = addrs /\ counters' = counters /\ given' = given
    BY <1>7 DEF BurstNext, Goto, At
  <2>2. pc'[t] = label /\ \A u \in Threads \ {t} : pc'[u] = pc[u]
    BY <2>1, MovedTo
  <2>3. i' \in [Threads -> Nat] /\ j' \in [Threads -> Nat]
    <3>1. i \in [Threads -> Nat] /\ j' \in [Threads -> Nat]
      BY <2>1, Counted DEF TypeInv, TypeOK
    <3>2. CASE label = "malloc"
      <4>1. i' = [i EXCEPT ![t] = 1]
        BY <2>1, <3>2
      <4> QED
        BY <3>1, <4>1
    <3>3. CASE label # "malloc"
      BY <2>1, <3>1, <3>3
    <3> QED
      BY <3>1, <3>2, <3>3
  <2>4. /\ label = "malloc" => i'[t] = 1
        /\ i'[t] >= 1 /\ \A u \in Threads \ {t} : i'[u] = i[u] /\ j'[u] = j[u]
    BY <1>1, <2>1, Counted
  <2>6. TypeOK'
    BY <2>1, <2>3, LoopFrame DEF TypeInv, TypeOK, counters
  <2>5. WorkerInv(t)'
    BY <1>1, <1>2, <2>1, <2>2, <2>4, LoopFrame, SameRun DEF WorkerInv, Outside
  <2> QED
    BY <1>1, <2>1, <2>2, <2>4, <2>5, <2>6, LoopFrame, WorkerStep
<1> QED
  BY <1>3, <1>4, <1>5, <1>6, <1>7 DEF BurstStep

CacheStep(t) == CacheMalloc(t) \/ CacheFree(t) \/ CacheEnd(t)

LEMMA CacheTypes == ASSUME TypeInv, NEW t \in Threads, CacheStep(t) PROVE TypeInv'
<1>1. pc[t] \in {"malloc", "free"} /\ benchmark = "CA" /\ benchmark \notin Bursts /\ benchmark # "CO"
  BY DEF CacheStep, CacheMalloc, CacheFree, CacheEnd, At, Bursts
<1>2. CASE CacheMalloc(t)
  <2>1. PICK label \in {"malloc", "free"} :
          /\ CountedMalloc(t, block, 1) /\ pc[t] = "malloc"
          /\ IF label = "malloc" THEN i' = Following(i, t) /\ pc' = pc
                                 ELSE i' = i /\ pc' = [pc EXCEPT ![t] = "free"]
          /\ Constant' = Constant /\ j' = j /\ frees' = frees
    BY <1>2 DEF CacheMalloc, At, Goto
  <2>2. 1 \in Places
    BY PlacesFacts
  <2>3. /\ pc'[t] \in {"malloc", "free"} /\ \A u \in Threads \ {t} : pc'[u] = pc[u]
        /\ i' \in [Threads -> Nat] /\ i'[t] >= 1 /\ \A u \in Threads \ {t} : i'[u] = i[u]
    <3>1. CASE label = "malloc"
      BY <1>1, <2>1, <3>1, Counted DEF TypeInv, TypeOK
    <3>2. CASE label = "free"
      BY <2>1, <3>2, Counted, MovedTo DEF TypeInv, TypeOK
    <3> QED
      BY <3>1, <3>2
  <2>4. TypeOK'
    BY <2>1, <2>2, <2>3, CountedTypes, LoopFrame DEF TypeInv, TypeOK
  <2>5. WorkerInv(t)'
    BY <1>1, <2>1, <2>3, LoopFrame, SameRun DEF WorkerInv, Outside
  <2>6. \A u \in Threads \ {t} : addrs'[u] = addrs[u]
    BY <2>1, <2>2, CountedTypes
  <2> QED
    BY <1>1, <2>1, <2>3, <2>4, <2>5, <2>6, LoopFrame, WorkerStep
<1>3. CASE CacheFree(t)
  <2>1. /\ pc' = [pc EXCEPT ![t] = "malloc"] /\ i' = Following(i, t)
        /\ Arena!Free(addrs[t][1]) /\ frees' = Incremented(frees, t)
        /\ Constant' = Constant /\ j' = j /\ addrs' = addrs /\ allocs' = allocs /\ failures' = failures
    BY <1>3 DEF CacheFree, Goto
  <2>2. pc'[t] = "malloc" /\ \A u \in Threads \ {t} : pc'[u] = pc[u]
    BY <2>1, MovedTo
  <2>3. TypeOK'
    BY <2>1, Counted, CountsOfTypes, FreedTypes, LoopFrame DEF TypeInv, TypeOK
  <2>4. i'[t] >= 1 /\ \A u \in Threads \ {t} : i'[u] = i[u]
    BY <2>1, Counted
  <2>5. WorkerInv(t)'
    BY <1>1, <2>1, <2>2, <2>4, LoopFrame, SameRun DEF WorkerInv, Outside
  <2> QED
    BY <1>1, <2>1, <2>2, <2>3, <2>4, <2>5, LoopFrame, WorkerStep
<1>4. CASE CacheEnd(t)
  <2>1. /\ pc' = [pc EXCEPT ![t] = "exited"] /\ Constant' = Constant /\ i' = i /\ j' = j
        /\ addrs' = addrs /\ counters' = counters /\ given' = given
    BY <1>4 DEF CacheEnd, Goto
  <2>2. pc'[t] = "exited" /\ \A u \in Threads \ {t} : pc'[u] = pc[u]
    BY <2>1, MovedTo
  <2>3. TypeOK'
    BY <2>1, LoopFrame DEF TypeInv, TypeOK, counters
  <2>5. WorkerInv(t)'
    BY <1>1, <2>1, <2>2, LoopFrame, SameRun DEF TypeInv, WorkerInv, Outside
  <2> QED
    BY <1>1, <2>1, <2>2, <2>3, <2>5, LoopFrame, WorkerStep
<1> QED
  BY <1>2, <1>3, <1>4 DEF CacheStep

ReplaceStep(t) == Fill(t) \/ Filled(t) \/ Release(t) \/ Refill(t) \/ ReplaceEnd(t)

LEMMA ReplaceTypes == ASSUME TypeInv, NEW t \in Threads, ReplaceStep(t) PROVE TypeInv'
<1>1. /\ pc[t] \in {"fill", "choose", "refill"} /\ benchmark = "CO" /\ benchmark \notin Bursts
      /\ i[t] \in Nat /\ i[t] >= 1 /\ blocchi \in Nat /\ 1 .. blocchi \subseteq Places
  BY PlacesFacts
     DEF ReplaceStep, Fill, Filled, Release, Refill, ReplaceEnd, At, TypeInv, TypeOK, WorkerInv, Bursts
<1>2. given \subseteq Regions /\ addrs \in [Threads -> [Places -> Regions \cup {NULL}]]
  BY DEF TypeInv, TypeOK
<1>3. CASE Fill(t)
  <2>1. /\ pc[t] = "fill" /\ i[t] <= blocchi
        /\ Grant(t, sizes(i[t]), i[t]) \/ Refuse(t, i[t])
        /\ i' = Following(i, t) /\ Constant' = Constant /\ pc' = pc /\ j' = j /\ counters' = counters
    BY <1>3 DEF Fill, At
  <2>2. i[t] \in Places
    BY <1>1, <2>1
  <2>3. /\ addrs' \in [Threads -> [Places -> Regions \cup {NULL}]]
        /\ given' \subseteq Regions
        /\ \A l \in Places : l # i[t] => addrs'[t][l] = addrs[t][l]
        /\ \A u \in Threads \ {t} : addrs'[u] = addrs[u]
    BY <1>2, <2>1, <2>2, Answered
  <2>4. TypeOK'
    BY <2>1, <2>3, Counted, LoopFrame DEF TypeInv, TypeOK, counters
  <2>5. i'[t] = i[t] + 1 /\ \A u \in Threads \ {t} : i'[u] = i[u]
    BY <2>1, Counted
  <2>6. \A k \in Places : k >= i[t] + 1 => k # i[t] /\ k >= i[t]
    BY <1>1, PlacesFacts
  <2>7. WorkerInv(t)
    BY DEF TypeInv
  <2>8. WorkerInv(t)'
    BY <1>1, <2>1, <2>3, <2>5, <2>6, <2>7, LoopFrame, SameRun DEF WorkerInv, Outside
  <2> QED
    BY <2>1, <2>3, <2>4, <2>5, <2>8, LoopFrame, WorkerStep
<1>4. CASE Filled(t)
  <2>1. /\ pc' = [pc EXCEPT ![t] = "choose"] /\ i' = [i EXCEPT ![t] = 1]
        /\ Constant' = Constant /\ j' = j /\ addrs' = addrs /\ counters' = counters /\ given' = given
    BY <1>4 DEF Filled, Goto
  <2>2. pc'[t] = "choose" /\ \A u \in Threads \ {t} : pc'[u] = pc[u]
    BY <2>1, MovedTo
  <2>3. TypeOK'
    BY <2>1, Counted, LoopFrame DEF TypeInv, TypeOK, counters
  <2>4. i'[t] = 1 /\ \A u \in Threads \ {t} : i'[u] = i[u]
    BY <2>1, Counted
  <2>5. WorkerInv(t)'
    BY <1>1, <2>1, <2>2, <2>4, LoopFrame, SameRun DEF WorkerInv, Outside
  <2> QED
    BY <1>1, <2>1, <2>2, <2>3, <2>4, <2>5, LoopFrame, WorkerStep
<1>5. CASE Release(t)
  <2>1. CASE EndsAs("crashed")
    BY <2>1, EndTypes
  <2>2. CASE ~EndsAs("crashed")
    <3>1. PICK k \in 1 .. blocchi :
            /\ Arena!Free(addrs[t][k]) \/ given' = given
            /\ j' = [j EXCEPT ![t] = k] /\ pc' = [pc EXCEPT ![t] = "refill"]
            /\ Constant' = Constant /\ i' = i /\ addrs' = addrs /\ counters' = counters
      BY <1>5, <2>2 DEF Release, Goto
    <3>2. pc'[t] = "refill" /\ \A u \in Threads \ {t} : pc'[u] = pc[u]
      BY <3>1, MovedTo
    <3>3. /\ j' \in [Threads -> Nat] /\ j'[t] = k /\ \A u \in Threads \ {t} : j'[u] = j[u]
      BY <1>1, <3>1 DEF TypeInv, TypeOK
    <3>4. given' \subseteq Regions
      BY <1>2, <3>1, FreedTypes
    <3>5. TypeOK'
      BY <3>1, <3>3, <3>4, LoopFrame DEF TypeInv, TypeOK, counters
    <3>6. WorkerInv(t)'
      BY <1>1, <3>1, <3>2, <3>3, LoopFrame, SameRun DEF WorkerInv, Outside
    <3> QED
      BY <1>1, <3>1, <3>2, <3>3, <3>5, <3>6, LoopFrame, WorkerStep
  <2> QED
    BY <2>1, <2>2
<1>6. CASE Refill(t)
  <2>1. /\ pc[t] = "refill" /\ pc' = [pc EXCEPT ![t] = "choose"] /\ i' = Following(i, t)
        /\ Grant(t, sizes(j[t]), j[t]) \/ Refuse(t, j[t])
        /\ Constant' = Constant /\ j' = j
        /\ {allocs', failures', frees'} \subseteq [Slots -> Nat]
    BY <1>6, CountsOfTypes DEF Refill, Refilled, At, Goto, TypeInv, TypeOK
  <2>2. j[t] \in Places
    BY <1>1, <2>1 DEF TypeInv, WorkerInv
  <2>3. /\ addrs' \in [Threads -> [Places -> Regions \cup {NULL}]]
        /\ given' \subseteq Regions /\ \A u \in Threads \ {t} : addrs'[u] = addrs[u]
    BY <1>2, <2>1, <2>2, Answered
  <2>4. pc'[t] = "choose" /\ \A u \in Threads \ {t} : pc'[u] = pc[u]
    BY <2>1, MovedTo
  <2>8. i' \in [Threads -> Nat]
    BY <2>1, Counted
  <2>5. TypeOK'
    BY <2>1, <2>3, <2>8, LoopFrame DEF TypeInv, TypeOK
  <2>6. i'[t] >= 1 /\ \A u \in Threads \ {t} : i'[u] = i[u]
    BY <2>1, Counted
  <2>7. WorkerInv(t)'
    BY <1>1, <2>1, <2>4, <2>6, LoopFrame, SameRun DEF WorkerInv, Outside
  <2> QED
    BY <1>1, <2>1, <2>3, <2>4, <2>5, <2>6, <2>7, LoopFrame, WorkerStep
<1>7. CASE ReplaceEnd(t)
  <2>1. /\ pc' = [pc EXCEPT ![t] = "exited"] /\ Constant' = Constant /\ i' = i /\ j' = j
        /\ addrs' = addrs /\ counters' = counters /\ given' = given
    BY <1>7 DEF ReplaceEnd, Goto
  <2>2. pc'[t] = "exited" /\ \A u \in Threads \ {t} : pc'[u] = pc[u]
    BY <2>1, MovedTo
  <2>3. TypeOK'
    BY <2>1, LoopFrame DEF TypeInv, TypeOK, counters
  <2>5. WorkerInv(t)'
    BY <1>1, <2>1, <2>2, LoopFrame, SameRun DEF TypeInv, WorkerInv, Outside
  <2> QED
    BY <1>1, <2>1, <2>2, <2>3, <2>5, LoopFrame, WorkerStep
<1> QED
  BY <1>3, <1>4, <1>5, <1>6, <1>7 DEF ReplaceStep

LEMMA TypeStep == TypeInv /\ [Next]_<<vars, kernel>> => TypeInv'
<1> SUFFICES ASSUME TypeInv, [Next]_<<vars, kernel>>
             PROVE  TypeInv'
  OBVIOUS
<1>1. CASE Program
  <2>1. CASE Main
    BY <2>1, MainTypes
  <2>2. ASSUME NEW t \in Threads, Worker(t)
        PROVE  TypeInv'
    BY <2>2, RegisterTypes, EntryTypes, BurstTypes, CacheTypes, ReplaceTypes
       DEF Worker, BurstStep, CacheStep, ReplaceStep
  <2> QED
    BY <1>1, <2>1, <2>2 DEF Program
<1>2. CASE UNCHANGED vars
  <2>1. run' = run /\ UNCHANGED <<main, start, pcount, myid, pc, i, j, addrs, counters, ops, given>>
    BY <1>2 DEF vars
  <2>2. TypeOK' = TypeOK
    BY <2>1 DEF TypeOK, counters
  <2>3. Registered' = Registered
    BY <2>1 DEF Registered
  <2>4. \A u \in Threads : WorkerInv(u)'
    BY <2>1, SameRun DEF TypeInv, WorkerInv
  <2> QED
    BY <2>1, <2>2, <2>3, <2>4, SameRun DEF TypeInv
<1> QED
  BY <1>1, <1>2 DEF Next, Module

(* The counters, the slots and what the workers keep are what they should  *)
(* be: no worker takes a slot that is not there.                           *)
THEOREM TypeCorrect == Spec => []TypeOK
<1>1. TypeInv => TypeOK
  BY DEF TypeInv
<1> QED
  BY TypeInit, TypeStep, <1>1, PTL DEF Spec

(***************************************************************************)
(* Part 4.  Who has which region.                                          *)
(***************************************************************************)

(* RegionsOwned, without the union of sets. *)
Owned ==
  /\ \A r : r \in given <=> \E t \in Threads : \E k \in Live(t) : r = addrs[t][k]
  /\ \A t, u \in Threads : \A k \in Live(t), l \in Live(u) :
       addrs[t][k] = addrs[u][l] => t = u /\ k = l

LEMMA OwnedIs == Owned <=> RegionsOwned
<1>1. \A r : r \in UNION {{addrs[t][k] : k \in Live(t)} : t \in Threads}
               <=> \E t \in Threads : \E k \in Live(t) : r = addrs[t][k]
  OBVIOUS
<1> QED
  BY <1>1 DEF Owned, RegionsOwned

(* A worker that does not move keeps what it has. *)
LEMMA OthersLive ==
  ASSUME NEW t \in Threads, run' = run,
         \A u \in Threads \ {t} :
           pc'[u] = pc[u] /\ i'[u] = i[u] /\ j'[u] = j[u] /\ addrs'[u] = addrs[u]
  PROVE  \A u \in Threads \ {t} : Live(u)' = Live(u)
BY SameRun DEF Live

(* The live places and what is there stay as they are... *)
LEMMA OwnedSame ==
  ASSUME Owned, given' = given,
         \A u \in Threads : Live(u)' = Live(u) /\ \A k \in Live(u) : addrs'[u][k] = addrs[u][k]
  PROVE  Owned'
BY DEF Owned

(* ... or one place becomes live, with a region nobody had... *)
LEMMA OwnedMore ==
  ASSUME Owned, NEW t \in Threads, NEW k, k \notin Live(t),
         Live(t)' = Live(t) \cup {k}, \A u \in Threads \ {t} : Live(u)' = Live(u),
         \A u \in Threads : \A l \in Live(u) : u # t \/ l # k => addrs'[u][l] = addrs[u][l],
         addrs'[t][k] \notin given, given' = given \cup {addrs'[t][k]}
  PROVE  Owned'
<1>1. ASSUME NEW r
      PROVE  r \in given' <=> \E u \in Threads : \E l \in Live(u)' : r = addrs'[u][l]
  <2>1. CASE r = addrs'[t][k]
    BY <2>1
  <2>2. CASE r # addrs'[t][k]
    <3>1. r \in given' <=> r \in given
      BY <2>2
    <3>2. ASSUME NEW u \in Threads, NEW l \in Live(u), r = addrs[u][l]
          PROVE  l \in Live(u)' /\ r = addrs'[u][l]
      BY <3>2
    <3>3. ASSUME NEW u \in Threads, NEW l \in Live(u)', r = addrs'[u][l]
          PROVE  l \in Live(u) /\ r = addrs[u][l]
      BY <2>2, <3>3
    <3> QED
      BY <3>1, <3>2, <3>3 DEF Owned
  <2> QED
    BY <2>1, <2>2
<1>2. ASSUME NEW u \in Threads, NEW l \in Live(u)', ~(u = t /\ l = k)
      PROVE  l \in Live(u) /\ addrs'[u][l] = addrs[u][l] /\ addrs'[u][l] # addrs'[t][k]
  BY <1>2 DEF Owned
<1>3. ASSUME NEW u \in Threads, NEW v \in Threads, NEW l \in Live(u)', NEW m \in Live(v)',
             addrs'[u][l] = addrs'[v][m]
      PROVE  u = v /\ l = m
  <2>1. CASE u = t /\ l = k
    BY <1>2, <1>3, <2>1
  <2>2. CASE v = t /\ m = k
    BY <1>2, <1>3, <2>2
  <2>3. CASE ~(u = t /\ l = k) /\ ~(v = t /\ m = k)
    BY <1>2, <1>3, <2>3 DEF Owned
  <2> QED
    BY <2>1, <2>2, <2>3
<1> QED
  BY <1>1, <1>3 DEF Owned

(* ... or one place is live no more, and its region is released. *)
LEMMA OwnedLess ==
  ASSUME Owned, NEW t \in Threads, NEW k \in Live(t),
         Live(t)' = Live(t) \ {k}, \A u \in Threads \ {t} : Live(u)' = Live(u),
         addrs' = addrs, given' = given \ {addrs[t][k]}
  PROVE  Owned'
<1>1. ASSUME NEW u \in Threads, NEW l \in Live(u), ~(u = t /\ l = k)
      PROVE  l \in Live(u)' /\ addrs[u][l] # addrs[t][k]
  BY <1>1 DEF Owned
<1>2. \A u \in Threads : Live(u)' \subseteq Live(u)
  OBVIOUS
<1>3. ASSUME NEW r
      PROVE  r \in given' <=> \E u \in Threads : \E l \in Live(u)' : r = addrs[u][l]
  <2>1. ASSUME r \in given'
        PROVE  \E u \in Threads : \E l \in Live(u)' : r = addrs[u][l]
    <3>1. PICK u \in Threads : \E l \in Live(u) : r = addrs[u][l]
      BY <2>1 DEF Owned
    <3>2. PICK l \in Live(u) : r = addrs[u][l]
      BY <3>1
    <3> QED
      BY <1>1, <2>1, <3>2
  <2>2. ASSUME NEW u \in Threads, NEW l \in Live(u)', r = addrs[u][l]
        PROVE  r \in given'
    <3>1. l \in Live(u) /\ ~(u = t /\ l = k)
      BY <1>2
    <3>2. r # addrs[t][k] /\ r \in given
      BY <1>1, <2>2, <3>1 DEF Owned
    <3> QED
      BY <3>2
  <2> QED
    BY <2>1, <2>2
<1>4. \A u, v \in Threads : \A l \in Live(u)', m \in Live(v)' :
        addrs[u][l] = addrs[v][m] => u = v /\ l = m
  BY <1>2 DEF Owned
<1> QED
  BY <1>3, <1>4 DEF Owned

(* A request answered at place k of t, which was not live and is now if it *)
(* was granted.                                                            *)
LEMMA OwnedAnswered ==
  ASSUME TypeInv, Owned, NEW t \in Threads, NEW k \in Places, NEW size,
         Grant(t, size, k) \/ Refuse(t, k), k \notin Live(t), run' = run,
         \A u \in Threads \ {t} : pc'[u] = pc[u] /\ i'[u] = i[u] /\ j'[u] = j[u],
         Live(t)' = Live(t) \cup (IF addrs'[t][k] = NULL THEN {} ELSE {k})
  PROVE  Owned'
<1>1. given \subseteq Regions /\ addrs \in [Threads -> [Places -> Regions \cup {NULL}]]
  BY DEF TypeInv, TypeOK
<1>2. /\ \A u \in Threads : \A l \in Places : u # t \/ l # k => addrs'[u][l] = addrs[u][l]
      /\ \A u \in Threads \ {t} : addrs'[u] = addrs[u]
      /\ \/ addrs'[t][k] = NULL /\ given' = given
         \/ /\ addrs'[t][k] \in Regions /\ addrs'[t][k] \notin given
            /\ given' = given \cup {addrs'[t][k]}
  BY <1>1, Answered
<1>3. \A u \in Threads \ {t} : Live(u)' = Live(u)
  BY <1>2, OthersLive
<1>4. \A u \in Threads : \A l \in Live(u) : l \in Places /\ (u # t \/ l # k)
  BY DEF Live
<1>5. \A u \in Threads : \A l \in Live(u) : addrs'[u][l] = addrs[u][l]
  BY <1>2, <1>4
<1>6. CASE addrs'[t][k] = NULL /\ given' = given
  BY <1>3, <1>5, <1>6, OwnedSame
<1>7. CASE /\ addrs'[t][k] \in Regions /\ addrs'[t][k] \notin given
           /\ given' = given \cup {addrs'[t][k]}
  <2>1. addrs'[t][k] # NULL
    BY <1>7, NullAssumption
  <2> QED
    BY <1>3, <1>5, <1>7, <2>1, OwnedMore
<1> QED
  BY <1>2, <1>6, <1>7

(* Before its loop a worker has nothing. *)
LEMMA OutsideOwned ==
  ASSUME TypeInv, Owned, NEW t \in Threads, pc[t] \in Outside,
         run' = run, i' = i, j' = j, addrs' = addrs, given' = given,
         \A u \in Threads \ {t} : pc'[u] = pc[u],
         pc'[t] \in Outside \cup {"malloc", "fill", "exited"}
  PROVE  Owned'
<1>1. i[t] = 1 /\ \A k \in Places : addrs[t][k] = NULL
  BY DEF TypeInv, WorkerInv
<1>2. Live(t) = {} /\ Live(t)' = {}
  BY <1>1 DEF Live
<1>3. \A u \in Threads \ {t} : Live(u)' = Live(u)
  BY OthersLive
<1> QED
  BY <1>2, <1>3, OwnedSame

(* Nothing changes hands where no worker moves. *)
LEMMA NoMoveOwned ==
  ASSUME Owned, run' = run, pc' = pc, i' = i, j' = j, addrs' = addrs, given' = given
  PROVE  Owned'
<1>1. \A u \in Threads : Live(u)' = Live(u)
  BY SameRun DEF Live
<1> QED
  BY <1>1, OwnedSame

LEMMA EndOwned == ASSUME Owned, NEW end, EndsAs(end) PROVE Owned'
BY NoMoveOwned DEF EndsAs

(* The live places in a turn of a burst. *)
LEMMA BurstFacts ==
  ASSUME TypeInv, NEW t \in Threads, BurstStep(t)
  PROVE  /\ pc[t] \in {"malloc", "free"} /\ benchmark \in Bursts /\ benchmark \notin {"CA", "CO"}
         /\ ~DividesByZero /\ i[t] \in Nat /\ i[t] >= 1 /\ i[t] <= tentativi + 1
         /\ tentativi \in Nat /\ 1 .. tentativi \subseteq Places /\ Places \subseteq Nat
<1>1. /\ pc[t] \in {"malloc", "free"} /\ benchmark \in Bursts /\ benchmark \notin {"CA", "CO"}
      /\ ~DividesByZero /\ i[t] \in Nat /\ i[t] >= 1 /\ i[t] <= tentativi + 1
  BY DEF BurstStep, BurstMalloc, BurstTurn, BurstSkip, BurstFree, BurstNext, At, Bursts,
         TypeInv, TypeOK, WorkerInv
<1> QED
  BY <1>1, AttemptsFit, PlacesFacts DEF TypeInv

LEMMA BurstMallocLive ==
  ASSUME TypeInv, NEW t \in Threads, BurstMalloc(t)
  PROVE  /\ i[t] \in Places /\ i[t] \notin Live(t)
         /\ Live(t)' = Live(t) \cup (IF addrs'[t][i[t]] = NULL THEN {} ELSE {i[t]})
<1>1. /\ pc[t] \in {"malloc", "free"} /\ benchmark \in Bursts /\ benchmark \notin {"CA", "CO"}
      /\ ~DividesByZero /\ i[t] \in Nat /\ i[t] >= 1 /\ i[t] <= tentativi + 1
      /\ tentativi \in Nat /\ 1 .. tentativi \subseteq Places /\ Places \subseteq Nat
  BY BurstFacts DEF BurstStep
<1>2. /\ i[t] <= tentativi /\ pc[t] = "malloc" /\ CountedMalloc(t, block, i[t])
      /\ i' = Following(i, t) /\ run' = run /\ pc' = pc /\ j' = j
  BY LoopFrame DEF BurstMalloc, At
<1>3. i[t] \in Places
  BY <1>1, <1>2
<1>4. i'[t] = i[t] + 1
  BY <1>2, Counted
<1>5. \A k \in Places : k < i[t] + 1 <=> k < i[t] \/ k = i[t]
  BY <1>1
<1>6. \A k \in Places : k # i[t] => addrs'[t][k] = addrs[t][k]
  BY <1>2, <1>3, CountedTypes
<1>7. Live(t) = {k \in Places : addrs[t][k] # NULL /\ k < i[t]}
  BY <1>1, <1>2 DEF Live
<1>8. Live(t)' = {k \in Places : addrs'[t][k] # NULL /\ k < i[t] + 1}
  BY <1>1, <1>2, <1>4, SameRun DEF Live
<1>9. i[t] \notin Live(t)
  BY <1>1, <1>7
<1>10. Live(t)' = Live(t) \cup (IF addrs'[t][i[t]] = NULL THEN {} ELSE {i[t]})
  <2>1. \A k \in Places : k < i[t] => k # i[t]
    BY <1>1
  <2> DEFINE x == i[t]
             new == addrs'[t]
             old == addrs[t]
  <2>2. /\ x \in Places /\ \A k \in Places : (k < x + 1 <=> k < x \/ k = x) /\ (k < x => k # x)
        /\ \A k \in Places : k # x => new[k] = old[k]
        /\ Live(t) = {k \in Places : old[k] # NULL /\ k < x}
        /\ Live(t)' = {k \in Places : new[k] # NULL /\ k < x + 1}
    BY <1>3, <1>5, <1>6, <1>7, <1>8, <2>1
  <2> HIDE DEF x, new, old
  <2>3. Live(t)' = Live(t) \cup (IF new[x] = NULL THEN {} ELSE {x})
    BY <2>2
  <2> QED
    BY <2>3 DEF x, new
<1> QED
  BY <1>3, <1>9, <1>10

LEMMA BurstTurnLive ==
  ASSUME TypeInv, NEW t \in Threads, BurstTurn(t)
  PROVE  Live(t)' = Live(t)
<1>1. /\ benchmark \in Bursts /\ benchmark \notin {"CA", "CO"}
      /\ i[t] \in Nat /\ i[t] >= 1 /\ i[t] <= tentativi + 1
      /\ tentativi \in Nat /\ Places \subseteq Nat
  BY BurstFacts DEF BurstStep
<1>2. /\ pc' = [pc EXCEPT ![t] = "free"] /\ i' = [i EXCEPT ![t] = 1]
      /\ run' = run /\ addrs' = addrs /\ pc[t] = "malloc" /\ i[t] > tentativi
  BY LoopFrame DEF BurstTurn, Goto, At
<1>3. pc'[t] = "free" /\ i'[t] = 1
  BY <1>2, MovedTo, Counted
<1>4. \A k \in Places : k < i[t] <=> k >= 1 /\ k <= tentativi
  <2>1. i[t] = tentativi + 1
    BY <1>1, <1>2
  <2>2. \A k \in Places : k \in Nat /\ k >= 1
    BY DEF Places
  <2> QED
    BY <1>1, <2>1, <2>2
<1>5. Live(t) = {k \in Places : addrs[t][k] # NULL /\ k < i[t]}
  BY <1>1, <1>2 DEF Live
<1>6. Live(t)' = {k \in Places : addrs[t][k] # NULL /\ k >= 1 /\ k <= tentativi}
  BY <1>1, <1>2, <1>3, SameRun DEF Live
<1> QED
  BY <1>4, <1>5, <1>6

LEMMA BurstReleaseLive ==
  ASSUME TypeInv, NEW t \in Threads, BurstSkip(t) \/ BurstFree(t), ~EndsAs("crashed")
  PROVE  /\ Live(t)' = Live(t) \ {i[t]}
         /\ addrs[t][i[t]] # NULL <=> i[t] \in Live(t)
<1>1. /\ benchmark \in Bursts /\ benchmark \notin {"CA", "CO"}
      /\ i[t] \in Nat /\ i[t] >= 1
      /\ tentativi \in Nat /\ 1 .. tentativi \subseteq Places /\ Places \subseteq Nat
  BY BurstFacts DEF BurstStep
<1>2. /\ pc[t] = "free" /\ i[t] <= tentativi /\ i' = Following(i, t) /\ pc' = pc
      /\ run' = run /\ j' = j /\ addrs' = addrs
  BY LoopFrame DEF BurstFree, BurstSkip, At
<1>3. i'[t] = i[t] + 1 /\ i[t] \in Places
  BY <1>1, <1>2, Counted
<1>4. Live(t) = {k \in Places : addrs[t][k] # NULL /\ k >= i[t] /\ k <= tentativi}
  BY <1>1, <1>2 DEF Live
<1>5. Live(t)' = {k \in Places : addrs[t][k] # NULL /\ k >= i[t] + 1 /\ k <= tentativi}
  BY <1>1, <1>2, <1>3, SameRun DEF Live
<1>6. \A k \in Places : k >= i[t] + 1 <=> k >= i[t] /\ k # i[t]
  BY <1>1
<1>7. Live(t)' = Live(t) \ {i[t]}
  BY <1>4, <1>5, <1>6
<1>8. addrs[t][i[t]] # NULL <=> i[t] \in Live(t)
  <2>1. i[t] >= i[t] /\ i[t] <= tentativi
    BY <1>1, <1>2
  <2> QED
    BY <1>3, <1>4, <2>1
<1> QED
  BY <1>7, <1>8

LEMMA BurstNextLive ==
  ASSUME TypeInv, NEW t \in Threads, BurstNext(t)
  PROVE  Live(t) = {} /\ Live(t)' = {}
<1>1. /\ benchmark \in Bursts /\ benchmark \notin {"CA", "CO"}
      /\ i[t] \in Nat /\ tentativi \in Nat /\ Places \subseteq Nat
  BY BurstFacts DEF BurstStep
<1>2. PICK label \in {"malloc", "exited"} :
        /\ pc[t] = "free" /\ pc' = [pc EXCEPT ![t] = label]
        /\ IF label = "malloc" THEN i' = [i EXCEPT ![t] = 1] ELSE i' = i
        /\ run' = run /\ i[t] > tentativi
  BY LoopFrame DEF BurstNext, Goto, At
<1>3. pc'[t] = label /\ (label = "malloc" => i'[t] = 1)
  BY <1>2, MovedTo, Counted
<1>4. \A k \in Places : ~(k >= i[t] /\ k <= tentativi) /\ ~(k < 1)
  <2>1. \A k \in Places : k \in Nat /\ k >= 1
    BY DEF Places
  <2> QED
    BY <1>1, <1>2, <2>1
<1>5. Live(t) = {}
  BY <1>1, <1>2, <1>4 DEF Live
<1>6. Live(t)' = {}
  BY <1>1, <1>2, <1>3, <1>4, SameRun DEF Live
<1> QED
  BY <1>5, <1>6

LEMMA BurstOwned == ASSUME TypeInv, Owned, NEW t \in Threads, BurstStep(t) PROVE Owned'
<1>1. CASE BurstMalloc(t)
  <2>1. /\ CountedMalloc(t, block, i[t])
        /\ i' = Following(i, t) /\ run' = run /\ pc' = pc /\ j' = j
    BY <1>1, LoopFrame DEF BurstMalloc
  <2>2. Grant(t, block, i[t]) \/ Refuse(t, i[t])
    BY <2>1 DEF CountedMalloc
  <2>3. \A u \in Threads \ {t} : i'[u] = i[u]
    BY <2>1, Counted
  <2> QED
    BY <1>1, <2>1, <2>2, <2>3, BurstMallocLive, OwnedAnswered
<1>2. CASE BurstTurn(t)
  <2>1. /\ pc' = [pc EXCEPT ![t] = "free"] /\ i' = [i EXCEPT ![t] = 1]
        /\ run' = run /\ j' = j /\ addrs' = addrs /\ given' = given
    BY <1>2, LoopFrame DEF BurstTurn, Goto
  <2>2. \A u \in Threads \ {t} : pc'[u] = pc[u] /\ i'[u] = i[u]
    BY <2>1, MovedTo, Counted
  <2>3. \A u \in Threads : Live(u)' = Live(u)
    BY <1>2, <2>1, <2>2, BurstTurnLive, OthersLive
  <2> QED
    BY <2>1, <2>3, OwnedSame
<1>3. CASE BurstSkip(t) \/ BurstFree(t)
  <2>1. CASE EndsAs("crashed")
    BY <2>1, EndOwned
  <2>2. CASE ~EndsAs("crashed")
    <3>1. /\ i' = Following(i, t) /\ pc' = pc /\ run' = run /\ j' = j /\ addrs' = addrs
          /\ IF addrs[t][i[t]] = NULL THEN given' = given ELSE given' = given \ {addrs[t][i[t]]}
      BY <1>3, <2>2, LoopFrame DEF BurstFree, BurstSkip, Skipped, Arena!Free
    <3>2. \A u \in Threads \ {t} : i'[u] = i[u]
      BY <3>1, Counted
    <3>3. /\ Live(t)' = Live(t) \ {i[t]}
          /\ addrs[t][i[t]] # NULL <=> i[t] \in Live(t)
      BY <1>3, <2>2, BurstReleaseLive
    <3>4. \A u \in Threads \ {t} : Live(u)' = Live(u)
      BY <3>1, <3>2, OthersLive
    <3>5. CASE addrs[t][i[t]] = NULL
      <4>1. Live(t)' = Live(t)
        BY <3>3, <3>5
      <4> QED
        BY <3>1, <3>4, <3>5, <4>1, OwnedSame
    <3>6. CASE addrs[t][i[t]] # NULL
      BY <3>1, <3>3, <3>4, <3>6, OwnedLess
    <3> QED
      BY <3>5, <3>6
  <2> QED
    BY <2>1, <2>2
<1>4. CASE BurstNext(t)
  <2>1. PICK label \in {"malloc", "exited"} :
          /\ pc' = [pc EXCEPT ![t] = label] /\ j' = Following(j, t)
          /\ IF label = "malloc" THEN i' = [i EXCEPT ![t] = 1] ELSE i' = i
          /\ run' = run /\ addrs' = addrs /\ given' = given
    BY <1>4, LoopFrame DEF BurstNext, Goto
  <2>2. \A u \in Threads \ {t} : pc'[u] = pc[u] /\ i'[u] = i[u] /\ j'[u] = j[u]
    BY <2>1, MovedTo, Counted
  <2>3. \A u \in Threads : Live(u)' = Live(u)
    BY <1>4, <2>1, <2>2, BurstNextLive, OthersLive
  <2> QED
    BY <2>1, <2>3, OwnedSame
<1> QED
  BY <1>1, <1>2, <1>3, <1>4 DEF BurstStep

LEMMA CacheOwned == ASSUME TypeInv, Owned, NEW t \in Threads, CacheStep(t) PROVE Owned'
<1>1. benchmark = "CA" /\ benchmark \notin Bursts /\ benchmark # "CO" /\ 1 \in Places
  BY PlacesFacts DEF CacheStep, CacheMalloc, CacheFree, CacheEnd, At, Bursts
<1>2. Live(t) = {k \in Places : addrs[t][k] # NULL /\ pc[t] = "free" /\ k = 1}
  BY <1>1 DEF Live
<1>3. run' = run => Live(t)' = {k \in Places : addrs'[t][k] # NULL /\ pc'[t] = "free" /\ k = 1}
  BY <1>1, SameRun DEF Live
<1>4. CASE CacheMalloc(t)
  <2>1. /\ CountedMalloc(t, block, 1) /\ pc[t] = "malloc" /\ run' = run /\ j' = j
        /\ IF addrs'[t][1] = NULL THEN i' = Following(i, t) /\ pc' = pc
                                  ELSE i' = i /\ pc' = [pc EXCEPT ![t] = "free"]
    BY <1>4, LoopFrame DEF CacheMalloc, At, Goto
  <2>2. Grant(t, block, 1) \/ Refuse(t, 1)
    BY <2>1 DEF CountedMalloc
  <2>3. \A u \in Threads \ {t} : pc'[u] = pc[u] /\ i'[u] = i[u] /\ j'[u] = j[u]
    <3>1. CASE addrs'[t][1] = NULL
      BY <2>1, <3>1, Counted
    <3>2. CASE addrs'[t][1] # NULL
      BY <2>1, <3>2, MovedTo
    <3> QED
      BY <3>1, <3>2
  <2>4. addrs'[t][1] # NULL => pc'[t] = "free"
    BY <2>1, MovedTo
  <2>5. addrs'[t][1] = NULL => pc'[t] = "malloc"
    BY <2>1
  <2>6. Live(t) = {}
    BY <1>2, <2>1
  <2>7. Live(t)' = IF addrs'[t][1] = NULL THEN {} ELSE {1}
    BY <1>1, <1>3, <2>1, <2>4, <2>5
  <2> QED
    BY <1>1, <2>1, <2>2, <2>3, <2>6, <2>7, OwnedAnswered
<1>5. CASE CacheFree(t)
  <2>1. /\ pc[t] = "free" /\ pc' = [pc EXCEPT ![t] = "malloc"] /\ i' = Following(i, t)
        /\ addrs[t][1] \in given /\ given' = given \ {addrs[t][1]}
        /\ run' = run /\ j' = j /\ addrs' = addrs
    BY <1>5, LoopFrame DEF CacheFree, At, Goto, Arena!Free
  <2>2. /\ pc'[t] = "malloc"
        /\ \A u \in Threads \ {t} : pc'[u] = pc[u] /\ i'[u] = i[u] /\ j'[u] = j[u]
    BY <2>1, MovedTo, Counted
  <2>3. addrs[t][1] # NULL
    BY <2>1, NullAssumption DEF TypeInv, TypeOK
  <2>4. Live(t) = {1} /\ Live(t)' = {}
    BY <1>1, <1>2, <1>3, <2>1, <2>2, <2>3
  <2>5. \A u \in Threads \ {t} : Live(u)' = Live(u)
    BY <2>1, <2>2, OthersLive
  <2>6. 1 \in Live(t) /\ Live(t)' = Live(t) \ {1}
    BY <2>4
  <2> QED
    BY <2>1, <2>5, <2>6, OwnedLess
<1>6. CASE CacheEnd(t)
  <2>1. /\ pc[t] = "malloc" /\ pc' = [pc EXCEPT ![t] = "exited"]
        /\ run' = run /\ i' = i /\ j' = j /\ addrs' = addrs /\ given' = given
    BY <1>6, LoopFrame DEF CacheEnd, At, Goto
  <2>2. pc'[t] = "exited" /\ \A u \in Threads \ {t} : pc'[u] = pc[u]
    BY <2>1, MovedTo
  <2>3. Live(t) = {} /\ Live(t)' = {}
    BY <1>2, <1>3, <2>1, <2>2
  <2>4. \A u \in Threads : Live(u)' = Live(u)
    BY <2>1, <2>2, <2>3, OthersLive
  <2> QED
    BY <2>1, <2>4, OwnedSame
<1> QED
  BY <1>4, <1>5, <1>6 DEF CacheStep

LEMMA ReplaceOwned == ASSUME TypeInv, Owned, NEW t \in Threads, ReplaceStep(t) PROVE Owned'
<1>1. /\ pc[t] \in {"fill", "choose", "refill"} /\ benchmark = "CO" /\ benchmark \notin Bursts
      /\ i[t] \in Nat /\ i[t] >= 1 /\ blocchi \in Nat /\ 1 .. blocchi \subseteq Places
  BY PlacesFacts
     DEF ReplaceStep, Fill, Filled, Release, Refill, ReplaceEnd, At, TypeInv, TypeOK, WorkerInv, Bursts
<1>2. Live(t) = {k \in Places : addrs[t][k] # NULL /\ ~(pc[t] = "refill" /\ k = j[t])}
  BY <1>1 DEF Live
<1>3. run' = run /\ pc'[t] \in {"fill", "choose", "refill", "exited"} =>
        Live(t)' = {k \in Places : addrs'[t][k] # NULL /\ ~(pc'[t] = "refill" /\ k = j'[t])}
  BY <1>1, SameRun DEF Live
<1>4. given \subseteq Regions /\ addrs \in [Threads -> [Places -> Regions \cup {NULL}]]
  BY DEF TypeInv, TypeOK
<1>5. CASE Fill(t)
  <2>1. /\ pc[t] = "fill" /\ i[t] <= blocchi
        /\ Grant(t, sizes(i[t]), i[t]) \/ Refuse(t, i[t])
        /\ i' = Following(i, t) /\ run' = run /\ pc' = pc /\ j' = j
    BY <1>5, LoopFrame DEF Fill, At
  <2>2. i[t] \in Places /\ addrs[t][i[t]] = NULL
    <3>1. i[t] \in Places /\ i[t] >= i[t]
      BY <1>1, <2>1
    <3> QED
      BY <2>1, <3>1 DEF TypeInv, WorkerInv
  <2>3. \A l \in Places : l # i[t] => addrs'[t][l] = addrs[t][l]
    BY <1>4, <2>1, <2>2, Answered
  <2>4. i[t] \notin Live(t)
    BY <1>2, <2>2
  <2>5. Live(t)' = Live(t) \cup (IF addrs'[t][i[t]] = NULL THEN {} ELSE {i[t]})
    BY <1>2, <1>3, <2>1, <2>2, <2>3
  <2>6. \A u \in Threads \ {t} : pc'[u] = pc[u] /\ i'[u] = i[u] /\ j'[u] = j[u]
    BY <2>1, Counted
  <2> QED
    BY <2>1, <2>2, <2>4, <2>5, <2>6, OwnedAnswered
<1>6. CASE Filled(t) \/ ReplaceEnd(t)
  <2>1. PICK label \in {"choose", "exited"} :
          /\ pc[t] \in {"fill", "choose"} /\ pc' = [pc EXCEPT ![t] = label]
          /\ i' = [i EXCEPT ![t] = 1] \/ i' = i
          /\ run' = run /\ j' = j /\ addrs' = addrs /\ given' = given
    BY <1>6, LoopFrame DEF Filled, ReplaceEnd, At, Goto
  <2>2. pc'[t] = label /\ \A u \in Threads \ {t} : pc'[u] = pc[u] /\ i'[u] = i[u]
    BY <2>1, MovedTo, Counted
  <2>3. Live(t)' = Live(t)
    BY <1>2, <1>3, <2>1, <2>2
  <2>4. \A u \in Threads : Live(u)' = Live(u)
    BY <2>1, <2>2, <2>3, OthersLive
  <2> QED
    BY <2>1, <2>4, OwnedSame
<1>7. CASE Release(t)
  <2>1. CASE EndsAs("crashed")
    BY <2>1, EndOwned
  <2>2. CASE ~EndsAs("crashed")
    <3>1. PICK k \in 1 .. blocchi :
            /\ \/ addrs[t][k] \in given /\ given' = given \ {addrs[t][k]}
               \/ addrs[t][k] = NULL /\ given' = given
            /\ pc[t] = "choose" /\ j' = [j EXCEPT ![t] = k] /\ pc' = [pc EXCEPT ![t] = "refill"]
            /\ run' = run /\ i' = i /\ addrs' = addrs
      BY <1>7, <2>2, LoopFrame DEF Release, At, Goto, Arena!Free
    <3>2. pc'[t] = "refill" /\ \A u \in Threads \ {t} : pc'[u] = pc[u]
      BY <3>1, MovedTo
    <3>3. j'[t] = k /\ \A u \in Threads \ {t} : j'[u] = j[u]
      BY <1>1, <3>1 DEF TypeInv, TypeOK
    <3>4. k \in Places
      BY <1>1
    <3>5. Live(t)' = Live(t) \ {k}
      BY <1>2, <1>3, <3>1, <3>2, <3>3
    <3>6. \A u \in Threads \ {t} : Live(u)' = Live(u)
      BY <3>1, <3>2, <3>3, OthersLive
    <3>7. CASE addrs[t][k] \in given /\ given' = given \ {addrs[t][k]}
      <4>1. k \in Live(t)
        BY <1>2, <1>4, <3>1, <3>4, <3>7, NullAssumption
      <4> QED
        BY <3>1, <3>5, <3>6, <3>7, <4>1, OwnedLess
    <3>8. CASE addrs[t][k] = NULL /\ given' = given
      <4>1. Live(t)' = Live(t)
        BY <1>2, <3>5, <3>8
      <4> QED
        BY <3>1, <3>6, <3>8, <4>1, OwnedSame
    <3> QED
      BY <3>1, <3>7, <3>8
  <2> QED
    BY <2>1, <2>2
<1>8. CASE Refill(t)
  <2>1. /\ pc[t] = "refill" /\ pc' = [pc EXCEPT ![t] = "choose"] /\ i' = Following(i, t)
        /\ Grant(t, sizes(j[t]), j[t]) \/ Refuse(t, j[t])
        /\ run' = run /\ j' = j
    BY <1>8, LoopFrame DEF Refill, Refilled, At, Goto
  <2>2. j[t] \in Places
    BY <1>1, <2>1 DEF TypeInv, WorkerInv
  <2>3. \A l \in Places : l # j[t] => addrs'[t][l] = addrs[t][l]
    BY <1>4, <2>1, <2>2, Answered
  <2>4. pc'[t] = "choose" /\ \A u \in Threads \ {t} : pc'[u] = pc[u] /\ i'[u] = i[u]
    BY <2>1, MovedTo, Counted
  <2>5. j[t] \notin Live(t)
    BY <1>2, <2>1
  <2>6. Live(t)' = Live(t) \cup (IF addrs'[t][j[t]] = NULL THEN {} ELSE {j[t]})
    BY <1>2, <1>3, <2>1, <2>2, <2>3, <2>4
  <2> QED
    BY <2>1, <2>2, <2>4, <2>5, <2>6, OwnedAnswered
<1> QED
  BY <1>5, <1>6, <1>7, <1>8 DEF ReplaceStep

LEMMA OwnedStep == TypeInv /\ Owned /\ [Next]_<<vars, kernel>> => Owned'
<1> SUFFICES ASSUME TypeInv, Owned, [Next]_<<vars, kernel>>
             PROVE  Owned'
  OBVIOUS
<1>1. CASE Create
  <2>1. PICK t \in Threads : pc[t] = "none" /\ pc' = [pc EXCEPT ![t] = "register"]
    BY <1>1 DEF Create
  <2>2. pc'[t] = "register" /\ \A u \in Threads \ {t} : pc'[u] = pc[u]
    BY <2>1, MovedTo
  <2> QED
    BY <1>1, <2>1, <2>2, OutsideOwned DEF Create, Outside
<1>2. CASE Open \/ JoinAll
  BY <1>2, NoMoveOwned DEF Open, JoinAll
<1>3. ASSUME NEW t \in Threads, Register(t) \/ PassBarrier(t) \/ Syscall(t) \/ EnterLoop(t)
      PROVE  Owned'
  <2>1. CASE EndsAs("crashed") \/ EndsAs("misdirected")
    BY <2>1, EndOwned
  <2>2. CASE ~(EndsAs("crashed") \/ EndsAs("misdirected"))
    <3>1. PICK label \in Outside \cup {"malloc", "fill", "exited"} :
            /\ pc[t] \in Outside /\ pc' = [pc EXCEPT ![t] = label]
            /\ run' = run /\ i' = i /\ j' = j /\ addrs' = addrs /\ given' = given
      <4>1. CASE Register(t)
        BY <4>1 DEF Register, At, Goto, Outside
      <4>2. CASE PassBarrier(t)
        BY <4>2 DEF PassBarrier, At, Goto, Outside
      <4>3. CASE Syscall(t)
        BY <2>2, <4>3, LoopFrame DEF Syscall, At, Goto, Outside
      <4>4. CASE EnterLoop(t)
        BY <2>2, <4>4, LoopFrame DEF EnterLoop, At, Goto, Outside, LoopEntry
      <4> QED
        BY <1>3, <4>1, <4>2, <4>3, <4>4
    <3>2. pc'[t] = label /\ \A u \in Threads \ {t} : pc'[u] = pc[u]
      BY <3>1, MovedTo
    <3> QED
      BY <3>1, <3>2, OutsideOwned
  <2> QED
    BY <2>1, <2>2
<1>4. ASSUME NEW t \in Threads, BurstStep(t) \/ CacheStep(t) \/ ReplaceStep(t)
      PROVE  Owned'
  BY <1>4, BurstOwned, CacheOwned, ReplaceOwned
<1>5. CASE UNCHANGED vars
  BY <1>5, NoMoveOwned DEF vars
<1> QED
  BY <1>1, <1>2, <1>3, <1>4, <1>5
     DEF Next, Program, Module, Main, Worker, BurstStep, CacheStep, ReplaceStep

LEMMA OwnedInit == Start => Owned
<1>1. Start => \A t \in Threads : Live(t) = {}
  BY DEF Start, Init, Live
<1> QED
  BY <1>1 DEF Start, Init, Owned

(* No block is lost by a worker, and none is in two hands: whatever was    *)
(* refused, overwritten or released in whatever order.                     *)
THEOREM RegionsOwnedAlways == Spec => []RegionsOwned
<1>1. TypeInv /\ Owned => RegionsOwned
  BY OwnedIs
<1>2. TypeInv /\ Owned /\ [Next]_<<vars, kernel>> => (TypeInv /\ Owned)'
  BY TypeStep, OwnedStep
<1>3. Start => TypeInv /\ Owned
  BY TypeInit, OwnedInit
<1> QED
  BY <1>1, <1>2, <1>3, PTL DEF Spec

(***************************************************************************)
(* Part 5.  The system call table, and what ends the process early.        *)
(***************************************************************************)

LEMMA KernelSteps == [Next]_<<vars, kernel>> => [KernelNext]_kernel
BY DEF Next, Module, KernelNext

LEMMA RestoreAlways == Spec => []RestoreInv
<1>1. Start => KernelInit
  BY DEF Start
<1> QED
  BY <1>1, KernelSteps, RestoreInit, RestoreStep, PTL DEF Spec

(* The same with the programs of the benchmarks running. *)
THEOREM TableRestoredAlways == Spec => []TableRestored
BY RestoreAlways, RestoreIs, PTL

(* Where the numbers match, they are four different unused entries. *)
LEMMA NumbersFacts ==
  ASSUME RestoreInv, NumbersMatch
  PROVE  /\ Enough
         /\ \A k \in 1 .. 4 : NR[Calls[k]] \in unused
         /\ \A k, l \in 1 .. 4 : k # l => NR[Calls[k]] # NR[Calls[l]]
<1>1. unused \subseteq Nat /\ IsFiniteSet(unused)
  BY KernelAssumption DEF RestoreInv
<1>2. \A k \in 1 .. 4 : /\ NR[Calls[k]] \in unused
                        /\ Cardinality({m \in unused : m < NR[Calls[k]]}) = k - 1
  BY DEF NumbersMatch, Found
<1>3. \A k, l \in 1 .. 4 : k # l => NR[Calls[k]] # NR[Calls[l]]
  BY <1>2
<1>4. Enough
  <2> DEFINE n == NR[Calls[4]]
             A == {m \in unused : m < n}
  <2>1. n \in unused /\ Cardinality(A) = 3
    BY <1>2
  <2>2. IsFiniteSet(A) /\ n \notin A /\ A \cup {n} \subseteq unused
    <3>1. A \subseteq unused
      OBVIOUS
    <3>2. IsFiniteSet(A)
      BY <1>1, <3>1, FS_Subset
    <3>3. n \notin A
      <4>1. n \in Nat
        BY <1>1, <2>1
      <4> HIDE DEF n
      <4>2. ~(n < n)
        BY <4>1
      <4> QED
        BY <4>2
    <3> QED
      BY <2>1, <3>1, <3>2, <3>3
  <2> HIDE DEF n, A
  <2>3. Cardinality(A \cup {n}) = 4
    BY <2>1, <2>2, FS_AddElement
  <2>4. Cardinality(A \cup {n}) <= Cardinality(unused)
    BY <1>1, <2>2, FS_Subset
  <2>5. Cardinality(unused) \in Nat
    BY <1>1, FS_CardinalityType
  <2> QED
    BY <2>3, <2>4, <2>5 DEF Enough
<1> QED
  BY <1>2, <1>3, <1>4

(* Then a program finds its own call there, or none. *)
NumbersInv ==
  NumbersMatch =>
    /\ module # "absent" => \A k \in 0 .. 3 : restore[k] = NR[Calls[k + 1]]
    /\ \A k \in 1 .. 4 : table[NR[Calls[k]]] \in {Calls[k], "ni"}

LEMMA NumbersInit == KernelInit => NumbersInv
<1> SUFFICES ASSUME KernelInit, NumbersMatch
             PROVE  \A k \in 1 .. 4 : table[NR[Calls[k]]] = "ni"
  BY DEF KernelInit, NumbersInv
<1>1. \A k \in 1 .. 4 : NR[Calls[k]] \in unused
  BY RestoreInit, NumbersFacts
<1> QED
  BY <1>1, KernelAssumption DEF KernelInit, Original

LEMMA NumbersStep == RestoreInv /\ NumbersInv /\ [KernelNext]_kernel => NumbersInv'
<1> SUFFICES ASSUME RestoreInv, NumbersInv, [KernelNext]_kernel, NumbersMatch'
             PROVE  NumbersInv'
  BY DEF NumbersInv
<1>1. unused' = unused /\ NumbersMatch
  BY DEF KernelNext, Scan, Install, Rmmod, Remove, Store, kernel, NumbersMatch
<1>2. /\ Enough /\ \A k \in 1 .. 4 : NR[Calls[k]] \in unused
      /\ \A k, l \in 1 .. 4 : k # l => NR[Calls[k]] # NR[Calls[l]]
  BY <1>1, NumbersFacts
<1>3. \A k \in 1 .. 4 : table[NR[Calls[k]]] \in {Calls[k], "ni"}
  BY <1>1 DEF NumbersInv
<1>4. /\ unused \subseteq Entries /\ stored \in 0 .. 3
      /\ table = [n \in Entries \cup {-1} |-> table[n]] /\ DOMAIN restore = 0 .. 4
  BY KernelAssumption DEF RestoreInv, NUM_BENCHMARKS
<1>5. CASE Scan
  <2> DEFINE U == {n \in Entries : table[n] = "ni"}
  <2>1. /\ module = "absent" /\ table' = table
        /\ restore' = [k \in 0 .. 4 |-> IF Found(k, U) = {} THEN restore[k]
                                        ELSE CHOOSE n \in Found(k, U) : TRUE]
    BY <1>4, <1>5 DEF Scan
  <2>2. U = unused
    BY <1>2, <1>4, <2>1 DEF RestoreInv, Original, Lost
  <2> HIDE DEF U
  <2>3. ASSUME NEW k \in 0 .. 3
        PROVE  restore'[k] = NR[Calls[k + 1]]
    <3>1. k + 1 \in 1 .. 4 /\ (k + 1) - 1 = k
      OBVIOUS
    <3>2. Found(k, U) = {NR[Calls[k + 1]]}
      BY <1>1, <2>2, <3>1 DEF NumbersMatch
    <3> QED
      BY <2>1, <3>2
  <2> QED
    BY <1>3, <2>1, <2>3 DEF NumbersInv
<1>6. CASE Install
  <2>1. /\ module = "loading" /\ restore' = restore
        /\ table' = [table EXCEPT ![restore[stored]] = Calls[stored + 1]]
    BY <1>6 DEF Install, Store
  <2>2. stored + 1 \in 1 .. 4 /\ restore[stored] = NR[Calls[stored + 1]]
    BY <1>1, <1>4, <2>1 DEF NumbersInv
  <2>3. ASSUME NEW k \in 1 .. 4
        PROVE  table'[NR[Calls[k]]] \in {Calls[k], "ni"}
    <3>1. NR[Calls[k]] \in Entries
      BY <1>2, <1>4
    <3>2. CASE k = stored + 1
      BY <1>4, <2>1, <2>2, <3>1, <3>2
    <3>3. CASE k # stored + 1
      <4>1. NR[Calls[k]] # restore[stored]
        BY <1>2, <2>2, <3>3
      <4> QED
        BY <1>3, <1>4, <2>1, <3>1, <4>1
    <3> QED
      BY <3>2, <3>3
  <2> QED
    BY <1>1, <2>1, <2>3 DEF NumbersInv
<1>7. CASE Rmmod
  BY <1>1, <1>7 DEF Rmmod, NumbersInv
<1>8. CASE Remove
  <2>1. /\ module = "unloading" /\ table' = [table EXCEPT ![restore[stored]] = "ni"]
        /\ IF stored = 3 THEN module' = "absent" ELSE restore' = restore
    BY <1>8 DEF Remove, Store
  <2>2. ASSUME NEW k \in 1 .. 4
        PROVE  table'[NR[Calls[k]]] \in {Calls[k], "ni"}
    <3>1. NR[Calls[k]] \in Entries
      BY <1>2, <1>4
    <3> QED
      BY <1>3, <1>4, <2>1, <3>1
  <2> QED
    BY <1>1, <2>1, <2>2 DEF NumbersInv
<1>9. CASE UNCHANGED kernel
  BY <1>1, <1>9 DEF NumbersInv, kernel
<1> QED
  BY <1>5, <1>6, <1>7, <1>8, <1>9 DEF KernelNext

(* A worker finds its own call or none, where the numbers match. *)
LEMMA OwnCallFound ==
  ASSUME TypeInv, NumbersInv, NumbersMatch
  PROVE  table[NR[benchmark]] \in {benchmark, "ni"}
<1>1. \A k \in 1 .. 4 : table[NR[Calls[k]]] \in {Calls[k], "ni"}
  BY DEF NumbersInv
<1>2. table[NR[Calls[1]]] \in {Calls[1], "ni"} /\ table[NR[Calls[2]]] \in {Calls[2], "ni"}
      /\ table[NR[Calls[3]]] \in {Calls[3], "ni"} /\ table[NR[Calls[4]]] \in {Calls[4], "ni"}
  BY <1>1
<1>3. Calls[1] = "LS" /\ Calls[2] = "TT" /\ Calls[3] = "CO" /\ Calls[4] = "CA"
  BY DEF Calls
<1> QED
  BY <1>2, <1>3 DEF TypeInv, RunTypeOK

LEMMA CrashStep ==
  TypeInv /\ Owned /\ NumbersInv /\ CrashesJustified /\ [Next]_<<vars, kernel>>
    => CrashesJustified'
<1> SUFFICES ASSUME TypeInv, Owned, NumbersInv, CrashesJustified, [Next]_<<vars, kernel>>
             PROVE  CrashesJustified'
  OBVIOUS
<1>1. unused' = unused
  BY KernelSteps DEF KernelNext, Scan, Install, Rmmod, Remove, Store, kernel
<1>2. NumbersMatch' = NumbersMatch
  BY <1>1 DEF NumbersMatch
<1>3. /\ run' = run
      /\ \/ UNCHANGED <<main, pc, addrs>>
         \/ main' \notin {"crashed", "misdirected"}
         \/ \E t \in Threads :
              \/ PassBarrier(t) \/ Syscall(t) \/ EnterLoop(t)
              \/ BurstStep(t) \/ CacheStep(t) \/ ReplaceStep(t)
  <2>1. CASE Main
    BY <2>1 DEF Main, Create, Open, JoinAll
  <2>2. ASSUME NEW t \in Threads, Worker(t)
        PROVE  run' = run
    BY <2>2, LoopFrame
       DEF Worker, Register, PassBarrier, Syscall, EnterLoop, BurstMalloc, BurstTurn, BurstSkip,
           BurstFree, BurstNext, CacheMalloc, CacheFree, CacheEnd, Fill, Filled, Release, Refill,
           ReplaceEnd, EndsAs
  <2>3. ASSUME NEW t \in Threads, Register(t)
        PROVE  main' \notin {"crashed", "misdirected"}
    BY <2>3 DEF Register, At
  <2>4. CASE UNCHANGED vars
    BY <2>4 DEF vars
  <2> QED
    BY <2>1, <2>2, <2>3, <2>4
       DEF Next, Program, Module, Worker, BurstStep, CacheStep, ReplaceStep
<1>4. /\ benchmark' = benchmark /\ fixed_size' = fixed_size /\ UserBuild' = UserBuild
      /\ OrderAccepted' = OrderAccepted /\ fixed_order' = fixed_order
  BY <1>3, SameRun DEF run, fixed_order
<1>5. CASE UNCHANGED <<main, pc, addrs>>
  BY <1>2, <1>4, <1>5 DEF CrashesJustified
<1>6. CASE main' \notin {"crashed", "misdirected"}
  BY <1>6 DEF CrashesJustified
<1>7. ASSUME NEW t \in Threads,
             \/ PassBarrier(t) \/ Syscall(t) \/ EnterLoop(t)
             \/ BurstStep(t) \/ CacheStep(t) \/ ReplaceStep(t),
             main' \in {"crashed", "misdirected"}
      PROVE  CrashesJustified'
  <2>1. main \notin {"crashed", "misdirected"}
    BY <1>7
       DEF PassBarrier, Syscall, EnterLoop, BurstStep, BurstMalloc, BurstTurn, BurstSkip,
           BurstFree, BurstNext, CacheStep, CacheMalloc, CacheFree, CacheEnd, ReplaceStep, Fill,
           Filled, Release, Refill, ReplaceEnd, At
  <2>2. main' # main
    BY <1>7, <2>1
  <2>3. \/ EndsAs("misdirected") /\ Syscall(t)
        \/ EndsAs("crashed") /\ EnterLoop(t)
        \/ EndsAs("crashed") /\ BurstFree(t)
        \/ EndsAs("crashed") /\ Release(t)
    BY <1>7, <2>2, LoopFrame
       DEF PassBarrier, Syscall, EnterLoop, BurstStep, BurstMalloc, BurstTurn, BurstSkip,
           BurstFree, BurstNext, CacheStep, CacheMalloc, CacheFree, CacheEnd, ReplaceStep, Fill,
           Filled, Release, Refill, ReplaceEnd
  <2>4. CASE EndsAs("misdirected") /\ Syscall(t)
    <3>1. main' = "misdirected" /\ pc[t] = "syscall" /\ ~UserBuild
      BY <2>4 DEF EndsAs, Syscall, At, TypeInv, WorkerInv
    <3>2. table[NR[benchmark]] \notin {benchmark, "ni"}
      BY <2>2, <2>4, LoopFrame DEF Syscall
    <3> QED
      BY <1>2, <1>4, <3>1, <3>2, OwnCallFound DEF CrashesJustified
  <2>5. CASE EndsAs("crashed") /\ EnterLoop(t)
    <3>1. main' = "crashed" /\ pc[t] = "loop"
      BY <2>5 DEF EndsAs, EnterLoop, At
    <3>2. DividesByZero
      BY <2>2, <2>5, LoopFrame DEF EnterLoop
    <3>3. benchmark \in Bursts /\ pages = 0
      BY <3>2 DEF DividesByZero
    <3>4. /\ UserBuild => fixed_size < BASE
          /\ ~UserBuild => fixed_order \in 1 .. MAX_BD_ORDER
      <4>1. RunTypeOK /\ WorkerInv(t)
        BY DEF TypeInv
      <4>2. fixed_order \in Nat /\ MAX_BD_ORDER \in Nat
        BY <4>1, OrderFound, BenchmarkAssumption
      <4> QED
        BY <3>1, <3>3, <4>1, <4>2, PagesFacts DEF WorkerInv, OrderAccepted
    <3> QED
      BY <1>4, <3>1, <3>3, <3>4 DEF CrashesJustified
  <2>6. CASE EndsAs("crashed") /\ BurstFree(t)
    <3>1. /\ pc[t] = "free" /\ benchmark \in Bursts /\ i[t] <= tentativi /\ addrs[t][i[t]] # NULL
      BY <2>6 DEF BurstFree, At, Skipped
    <3>2. addrs[t][i[t]] \notin given
      BY <2>2, <2>6, LoopFrame DEF BurstFree
    <3>3. i[t] \in Nat /\ i[t] >= 1 /\ ~DividesByZero
      BY <3>1 DEF TypeInv, TypeOK, WorkerInv
    <3>4. tentativi \in Nat /\ 1 .. tentativi \subseteq Places
      BY <3>1, <3>3, AttemptsFit DEF TypeInv
    <3>5. i[t] \in Live(t)
      BY <3>1, <3>3, <3>4 DEF Live
    <3> QED
      BY <3>2, <3>5 DEF Owned
  <2>7. CASE EndsAs("crashed") /\ Release(t)
    <3>1. main' = "crashed" /\ pc' = pc /\ addrs' = addrs /\ pc[t] = "choose" /\ benchmark = "CO"
      BY <2>7 DEF EndsAs, Release, At, TypeInv, WorkerInv
    <3>2. PICK k \in 1 .. blocchi : addrs[t][k] \notin given /\ UserBuild
      BY <2>2, <2>7, LoopFrame DEF Release
    <3>3. k \in Places
      BY PlacesFacts
    <3>4. addrs[t][k] = NULL
      <4>1. ASSUME addrs[t][k] # NULL
            PROVE  k \in Live(t)
        BY <3>1, <3>3, <4>1 DEF Live
      <4> QED
        BY <3>2, <4>1 DEF Owned
    <3> QED
      BY <1>4, <3>1, <3>2, <3>4 DEF CrashesJustified
  <2> QED
    BY <2>3, <2>4, <2>5, <2>6, <2>7
<1> QED
  BY <1>3, <1>5, <1>6, <1>7

(* The process ends early for four reasons and no other: the loops survive *)
(* every refusal, and nothing that was not given is released.              *)
THEOREM CrashesJustifiedAlways == Spec => []CrashesJustified
<1>1. Start => CrashesJustified
  BY DEF Start, Init, CrashesJustified
<1>2. Start => KernelInit
  BY DEF Start
<1> DEFINE AllInv == TypeInv /\ Owned /\ RestoreInv /\ NumbersInv /\ CrashesJustified
<1>3. Start => AllInv
  BY <1>1, <1>2, TypeInit, OwnedInit, RestoreInit, NumbersInit
<1>4. AllInv /\ [Next]_<<vars, kernel>> => AllInv'
  BY TypeStep, OwnedStep, KernelSteps, RestoreStep, NumbersStep, CrashStep
<1>5. AllInv => CrashesJustified
  OBVIOUS
<1> HIDE DEF AllInv
<1> QED
  BY <1>3, <1>4, <1>5, PTL DEF Spec

(***************************************************************************)
(* Part 6.  Sums over the slots.                                           *)
(***************************************************************************)

(* The sums of a counter over the sets of slots.                           *)
Chosen(s) == CHOOSE x \in s : TRUE

SumsOf(c) == CHOOSE f : f = [s \in SUBSET Slots |->
                                IF s = {} THEN 0 ELSE c[Chosen(s)] + f[s \ {Chosen(s)}]]

LEMMA TotalIsSum == ASSUME NEW c PROVE Total(c) = SumsOf(c)[Slots]
BY DEF Total, MapThenSumSet, MapThenFoldSet, SumsOf, Chosen

LEMMA SlotsFinite == IsFiniteSet(Slots)
<1>1. number_of_processes \in Nat
  BY BenchmarkAssumption
<1> QED
  BY <1>1, FS_Interval DEF Slots

LEMMA OneLess ==
  ASSUME NEW s \in SUBSET Slots, s # {}
  PROVE  /\ Chosen(s) \in s /\ Chosen(s) \in Slots /\ s \ {Chosen(s)} \in SUBSET Slots
         /\ Cardinality(s) \in Nat /\ Cardinality(s) >= 1
         /\ Cardinality(s \ {Chosen(s)}) = Cardinality(s) - 1
<1>1. Chosen(s) \in s
  BY DEF Chosen
<1>2. IsFiniteSet(s)
  BY SlotsFinite, FS_Subset
<1>3. Cardinality(s \ {Chosen(s)}) = Cardinality(s) - 1 /\ Cardinality(s) \in Nat
  BY <1>1, <1>2, FS_RemoveElement, FS_CardinalityType
<1>4. Cardinality(s) # 0
  BY <1>1, <1>2, FS_EmptySet
<1> QED
  BY <1>1, <1>3, <1>4

(* The recursion has a solution: on sets of at most n slots, for every n.  *)
LEMMA SumsExist ==
  ASSUME NEW c
  PROVE  \E f : f = [s \in SUBSET Slots |-> IF s = {} THEN 0 ELSE c[Chosen(s)] + f[s \ {Chosen(s)}]]
<1> DEFINE Small(n) == {s \in SUBSET Slots : Cardinality(s) <= n}
           Good(f, n) == f = [s \in Small(n) |->
                                IF s = {} THEN 0 ELSE c[Chosen(s)] + f[s \ {Chosen(s)}]]
           Bad == {n \in Nat : \A f : ~Good(f, n)}
<1>1. \A s \in SUBSET Slots : Cardinality(s) \in Nat /\ (Cardinality(s) = 0 <=> s = {})
  BY SlotsFinite, FS_Subset, FS_CardinalityType, FS_EmptySet
<1>2. 0 \notin Bad
  <2>1. Small(0) = {{}}
    BY <1>1
  <2> DEFINE f == [s \in {{}} |-> 0]
  <2>2. f = [s \in {{}} |-> IF s = {} THEN 0 ELSE c[Chosen(s)] + f[s \ {Chosen(s)}]]
    OBVIOUS
  <2>3. Good(f, 0)
    BY <2>1, <2>2
  <2> QED
    BY <2>3
<1>3. ASSUME Bad # {}
      PROVE  FALSE
  <2> DEFINE B == Bad
  <2>1. B \subseteq Nat /\ B # {} /\ 0 \notin B
    BY <1>2, <1>3
  <2> HIDE DEF B, Bad
  <2>2. PICK n \in B : \A m \in B : n <= m
    BY <2>1, Least
  <2>3. n \in Nat /\ n # 0 /\ n - 1 \in Nat /\ n - 1 \notin B
    <3>1. n \in Nat /\ n # 0 /\ n - 1 \in Nat
      BY <2>1
    <3>2. ~(n <= n - 1)
      BY <3>1
    <3> QED
      BY <2>2, <3>1, <3>2
  <2>4. PICK f : Good(f, n - 1)
    BY <2>3 DEF B, Bad
  <2> DEFINE g == [s \in Small(n) |-> IF s = {} THEN 0 ELSE c[Chosen(s)] + f[s \ {Chosen(s)}]]
  <2>5. ASSUME NEW s \in Small(n - 1)
        PROVE  g[s] = f[s]
    <3>1. s \in Small(n)
      BY <1>1, <2>3
    <3> HIDE DEF Small
    <3>2. f[s] = IF s = {} THEN 0 ELSE c[Chosen(s)] + f[s \ {Chosen(s)}]
      BY <2>4
    <3> QED
      BY <3>1, <3>2
  <2>6. ASSUME NEW s \in Small(n)
        PROVE  g[s] = IF s = {} THEN 0 ELSE c[Chosen(s)] + g[s \ {Chosen(s)}]
    <3>1. CASE s = {}
      BY <3>1
    <3>2. CASE s # {}
      <4>1. s \ {Chosen(s)} \in Small(n - 1)
        BY <1>1, <2>3, <3>2, OneLess
      <4> HIDE DEF Small
      <4>2. g[s] = c[Chosen(s)] + f[s \ {Chosen(s)}]
        BY <3>2
      <4>3. g[s \ {Chosen(s)}] = f[s \ {Chosen(s)}]
        BY <2>5, <4>1
      <4> QED
        BY <3>2, <4>2, <4>3
    <3> QED
      BY <3>1, <3>2
  <2>7. g = [s \in Small(n) |-> g[s]]
    OBVIOUS
  <2> HIDE DEF g, Small
  <2>8. g = [s \in Small(n) |-> IF s = {} THEN 0 ELSE c[Chosen(s)] + g[s \ {Chosen(s)}]]
    BY <2>6, <2>7
  <2> QED
    BY <2>2, <2>3, <2>8 DEF B, Bad
<1>4. Cardinality(Slots) \in Nat /\ Small(Cardinality(Slots)) = SUBSET Slots
  BY SlotsFinite, FS_Subset, FS_CardinalityType
<1> HIDE DEF Small
<1>5. PICK f : Good(f, Cardinality(Slots))
  BY <1>3, <1>4
<1> QED
  BY <1>4, <1>5

LEMMA SumsAre ==
  ASSUME NEW c, NEW s \in SUBSET Slots
  PROVE  SumsOf(c)[s] = IF s = {} THEN 0 ELSE c[Chosen(s)] + SumsOf(c)[s \ {Chosen(s)}]
<1>1. SumsOf(c) = [z \in SUBSET Slots |->
                     IF z = {} THEN 0 ELSE c[Chosen(z)] + SumsOf(c)[z \ {Chosen(z)}]]
  BY SumsExist DEF SumsOf
<1> QED
  BY <1>1

(* What holds of every slot holds of the totals. *)
LEMMA TotalsBounded ==
  ASSUME NEW a \in [Slots -> Nat], NEW b \in [Slots -> Nat], NEW c \in [Slots -> Nat],
         NEW m \in Nat, \A s \in Slots : a[s] + b[s] <= c[s] * m
  PROVE  Total(a) + Total(b) <= Total(c) * m
<1> DEFINE Fine(s) == /\ SumsOf(a)[s] \in Nat /\ SumsOf(b)[s] \in Nat /\ SumsOf(c)[s] \in Nat
                      /\ SumsOf(a)[s] + SumsOf(b)[s] <= SumsOf(c)[s] * m
           Bad == {n \in Nat : \E s \in SUBSET Slots : Cardinality(s) = n /\ ~Fine(s)}
<1>1. ASSUME Bad # {}
      PROVE  FALSE
  <2>1. Bad \subseteq Nat
    OBVIOUS
  <2> DEFINE B == Bad
  <2>2. B \subseteq Nat /\ B # {}
    BY <1>1, <2>1
  <2> HIDE DEF B, Bad
  <2>3. PICK n \in B : \A k \in B : n <= k
    BY <2>2, Least
  <2>4. PICK s \in SUBSET Slots : Cardinality(s) = n /\ ~Fine(s)
    BY <2>3 DEF B, Bad
  <2>5. CASE s = {}
    <3>1. SumsOf(a)[s] = 0 /\ SumsOf(b)[s] = 0 /\ SumsOf(c)[s] = 0
      BY <2>5, SumsAre
    <3>2. 0 * m = 0
      OBVIOUS
    <3> QED
      BY <2>4, <3>1, <3>2
  <2>6. CASE s # {}
    <3> DEFINE x == Chosen(s)
               z == s \ {x}
    <3>1. /\ x \in Slots /\ z \in SUBSET Slots /\ n \in Nat /\ n >= 1 /\ Cardinality(z) = n - 1
      BY <2>4, <2>6, OneLess
    <3>2. n - 1 \notin B
      <4>1. ~(n <= n - 1)
        BY <3>1
      <4> QED
        BY <2>3, <4>1
    <3>3. Fine(z)
      <4>1. n - 1 \in Nat
        BY <3>1
      <4> HIDE DEF Fine, z
      <4> QED
        BY <3>1, <3>2, <4>1 DEF B, Bad
    <3>4. /\ SumsOf(a)[s] = a[x] + SumsOf(a)[z]
          /\ SumsOf(b)[s] = b[x] + SumsOf(b)[z]
          /\ SumsOf(c)[s] = c[x] + SumsOf(c)[z]
      BY <2>6, SumsAre
    <3>5. a[x] \in Nat /\ b[x] \in Nat /\ c[x] \in Nat /\ a[x] + b[x] <= c[x] * m
      BY <3>1
    <3> HIDE DEF x, z
    <3> DEFINE p == c[x]
               q == SumsOf(c)[z]
    <3>6. (p + q) * m = p * m + q * m /\ p * m \in Nat /\ q * m \in Nat
      <4>1. p \in Nat /\ q \in Nat
        BY <3>3, <3>5
      <4> HIDE DEF p, q
      <4> QED
        BY <4>1
    <3>7. SumsOf(a)[s] + SumsOf(b)[s] <= SumsOf(c)[s] * m
      <4> DEFINE pm == p * m
                 qm == q * m
      <4>1. SumsOf(c)[s] * m = pm + qm /\ pm \in Nat /\ qm \in Nat
        BY <3>4, <3>6
      <4>2. a[x] + b[x] <= pm /\ SumsOf(a)[z] + SumsOf(b)[z] <= qm
        BY <3>3, <3>5
      <4> HIDE DEF pm, qm
      <4> QED
        BY <3>3, <3>4, <3>5, <4>1, <4>2
    <3> QED
      BY <2>4, <3>3, <3>4, <3>5, <3>7
  <2> QED
    BY <2>5, <2>6
<1>2. Fine(Slots)
  <2>1. Cardinality(Slots) \in Nat
    BY SlotsFinite, FS_CardinalityType
  <2> HIDE DEF Fine
  <2> QED
    BY <1>1, <2>1
<1> QED
  BY <1>2, TotalIsSum

(***************************************************************************)
(* Part 7.  What is counted is what was announced.                         *)
(***************************************************************************)

LEMMA Divided ==
  ASSUME NEW x \in Nat, NEW n \in Nat \ {0}
  PROVE  /\ x \div n \in Nat /\ (x \div n) * n <= x
         /\ \A m \in Nat : m * n <= x => m <= x \div n
<1> DEFINE q == x \div n
<1>1. q \in Nat /\ x = n * q + (x % n) /\ x % n \in 0 .. n - 1
  OBVIOUS
<1>2. q * n = n * q /\ n * q \in Nat
  <2>1. \A a, b \in Nat : a * b = b * a /\ a * b \in Nat
    OBVIOUS
  <2> HIDE DEF q
  <2> QED
    BY <1>1, <2>1
<1> HIDE DEF q
<1>3. q * n <= x
  <2> DEFINE p == n * q
  <2>1. p \in Nat /\ x = p + (x % n) /\ q * n = p
    BY <1>1, <1>2
  <2> HIDE DEF p
  <2> QED
    BY <1>1, <2>1
<1>4. ASSUME NEW m \in Nat, m * n <= x, q < m
      PROVE  FALSE
  <2>1. q + 1 <= m
    BY <1>1, <1>4
  <2>2. (q + 1) * n <= m * n /\ m * n \in Nat
    <3> DEFINE d == m - (q + 1)
    <3>1. d \in Nat /\ m = (q + 1) + d
      BY <1>1, <2>1
    <3>2. \A a, b, c \in Nat : (a + b) * c = a * c + b * c /\ a * c \in Nat /\ b * c \in Nat
      OBVIOUS
    <3>3. q + 1 \in Nat /\ n \in Nat
      BY <1>1
    <3> HIDE DEF d
    <3> QED
      BY <3>1, <3>2, <3>3
  <2>3. (q + 1) * n = q * n + n
    <3>1. \A a, c \in Nat : (a + 1) * c = a * c + c
      OBVIOUS
    <3> QED
      BY <1>1, <3>1
  <2> DEFINE p == n * q
             mn == m * n
  <2>4. p \in Nat /\ x = p + (x % n) /\ p + n <= mn /\ mn <= x /\ mn \in Nat
    BY <1>1, <1>2, <1>4, <2>2, <2>3
  <2> HIDE DEF p, mn
  <2> QED
    BY <1>1, <2>4
<1> QED
  BY <1>1, <1>3, <1>4 DEF q

(* Rounding down in the divisor first gives no more.                       *)
LEMMA DividedFirst ==
  ASSUME NEW a \in Nat, NEW x \in Nat, NEW n \in Nat \ {0}
  PROVE  (x \div n) * a <= (a * x) \div n
<1> DEFINE q == x \div n
<1>1. q \in Nat /\ q * n <= x
  BY Divided
<1> HIDE DEF q
<1>2. (q * a) * n <= a * x
  <2> DEFINE p == q * n
             d == x - p
  <2>1. p \in Nat /\ d \in Nat /\ x = p + d
    <3>1. p \in Nat
      BY <1>1
    <3> QED
      BY <1>1, <3>1
  <2>2. (q * a) * n = a * p
    <3>1. \A u, v, w \in Nat : (u * v) * w = v * (u * w)
      OBVIOUS
    <3> QED
      BY <1>1, <3>1
  <2> HIDE DEF p, d
  <2>3. a * x = a * p + a * d /\ a * p \in Nat /\ a * d \in Nat
    <3>1. \A u, v, w \in Nat : u * (v + w) = u * v + u * w /\ u * v \in Nat /\ u * w \in Nat
      OBVIOUS
    <3> QED
      BY <2>1, <3>1
  <2> QED
    BY <2>2, <2>3
<1>3. q * a \in Nat /\ a * x \in Nat
  BY <1>1
<1> QED
  BY <1>2, <1>3, Divided DEF q

(* The attempts of a worker that runs its loop to the end. *)
attempts == tentativi * (IF benchmark \in Bursts THEN iterations ELSE 1)

factor == IF benchmark = "LS" THEN 2 ELSE 1

LEMMA LoopNumbers ==
  ASSUME RunTypeOK, ~DividesByZero, Threads # {}
  PROVE  /\ tentativi \in Nat /\ attempts \in Nat
         /\ benchmark \in Bursts => iterations \in Nat /\ iterations >= 1
         /\ benchmark \notin Bursts => attempts = tentativi
         /\ announced \in Nat /\ attempts <= announced * factor
<1>1. /\ number_of_processes \in Nat \ {0}
      /\ LS_ITERATIONS \in Nat /\ TT_ITERATIONS \in Nat \ {0} /\ TT_OBJS \in Nat
      /\ CA_ITERATIONS \in Nat /\ CO_ITERATIONS \in Nat
  BY BenchmarkAssumption
<1>2. \A x, y \in Nat : x * y \in Nat
  OBVIOUS
<1>3. \A x \in Nat : x * 1 = x
  OBVIOUS
<1>4. CASE benchmark = "LS"
  <2>1. pages \in Nat \ {0}
    BY <1>4, PagesFacts DEF DividesByZero, Bursts
  <2> DEFINE q == LS_ITERATIONS \div pages
  <2>2. tentativi = q /\ iterations = pages * 2 /\ announced = LS_ITERATIONS
        /\ benchmark \in Bursts /\ attempts = q * (pages * 2) /\ factor = 2
    BY <1>4 DEF tentativi, LS_tentativi, iterations, announced, LS_announced, Bursts, attempts, factor
  <2>3. q \in Nat /\ q * pages <= LS_ITERATIONS
    BY <1>1, <2>1, Divided
  <2> HIDE DEF q
  <2>4. q * (pages * 2) = (q * pages) * 2 /\ q * pages \in Nat
    <3>1. \A u, v \in Nat : u * (v * 2) = (u * v) * 2 /\ u * v \in Nat
      OBVIOUS
    <3> QED
      BY <2>1, <2>3, <3>1
  <2> DEFINE p == q * pages
  <2>5. p \in Nat /\ p <= LS_ITERATIONS /\ attempts = p * 2
    BY <2>2, <2>3, <2>4
  <2> HIDE DEF p
  <2> QED
    BY <1>1, <2>1, <2>2, <2>3, <2>5
<1>5. CASE benchmark = "TT"
  <2>1. pages \in Nat \ {0}
    BY <1>5, PagesFacts DEF DividesByZero, Bursts
  <2> DEFINE x == TT_OBJS \div number_of_processes
             q == x \div pages
             p == q * pages
  <2>2. tentativi = q /\ iterations = pages * TT_ITERATIONS
        /\ announced = (TT_ITERATIONS * TT_OBJS) \div number_of_processes
        /\ benchmark \in Bursts /\ attempts = q * (pages * TT_ITERATIONS) /\ factor = 1
    BY <1>5 DEF tentativi, TT_tentativi, iterations, announced, TT_announced, Bursts, attempts, factor
  <2>3. x \in Nat /\ x * TT_ITERATIONS <= (TT_ITERATIONS * TT_OBJS) \div number_of_processes
    BY <1>1, Divided, DividedFirst
  <2>4. TT_ITERATIONS * TT_OBJS \in Nat
    BY <1>1, <1>2
  <2>5. (TT_ITERATIONS * TT_OBJS) \div number_of_processes \in Nat
    BY <1>1, <2>4, Divided
  <2> HIDE DEF x
  <2>6. q \in Nat /\ p <= x /\ p \in Nat
    BY <1>2, <2>1, <2>3, Divided
  <2> HIDE DEF q
  <2>7. attempts = p * TT_ITERATIONS
    <3>1. \A u, v, w \in Nat : u * (v * w) = (u * v) * w
      OBVIOUS
    <3> QED
      BY <1>1, <2>1, <2>2, <2>6, <3>1
  <2> HIDE DEF p
  <2>8. p * TT_ITERATIONS <= x * TT_ITERATIONS /\ p * TT_ITERATIONS \in Nat /\ x * TT_ITERATIONS \in Nat
    <3> DEFINE d == x - p
    <3>1. d \in Nat /\ x = p + d
      BY <2>3, <2>6
    <3>2. \A u, v, w \in Nat : (u + v) * w = u * w + v * w /\ u * w \in Nat /\ v * w \in Nat
      OBVIOUS
    <3> HIDE DEF d
    <3> QED
      BY <1>1, <2>6, <3>1, <3>2
  <2>9. iterations \in Nat /\ iterations >= 1
    <3>1. \A u, v \in Nat : u >= 1 /\ v >= 1 => u * v \in Nat /\ u * v >= 1
      OBVIOUS
    <3> QED
      BY <1>1, <2>1, <2>2, <3>1
  <2>10. announced \in Nat /\ attempts <= announced /\ attempts \in Nat
    <3> DEFINE z == (TT_ITERATIONS * TT_OBJS) \div number_of_processes
               y == x * TT_ITERATIONS
               w == p * TT_ITERATIONS
    <3>1. announced = z /\ z \in Nat /\ y <= z /\ y \in Nat /\ w <= y /\ w \in Nat /\ attempts = w
      BY <2>2, <2>3, <2>5, <2>7, <2>8
    <3> HIDE DEF z, y, w
    <3> QED
      BY <3>1
  <2> QED
    BY <1>3, <2>2, <2>6, <2>9, <2>10
<1>6. CASE benchmark = "CA"
  <2>1. /\ tentativi = CA_ITERATIONS /\ announced = CA_ITERATIONS /\ factor = 1
        /\ benchmark \notin Bursts /\ attempts = tentativi * 1
    BY <1>6 DEF tentativi, announced, CA_announced, Bursts, attempts, factor
  <2> QED
    BY <1>1, <1>3, <2>1
<1>7. CASE benchmark = "CO"
  <2>1. /\ tentativi = CO_ITERATIONS \div number_of_processes
        /\ announced = CO_ITERATIONS \div number_of_processes /\ factor = 1
        /\ benchmark \notin Bursts /\ attempts = tentativi * 1
    BY <1>7 DEF tentativi, CO_tentativi, announced, CO_announced, Bursts, attempts, factor
  <2>2. CO_ITERATIONS \div number_of_processes \in Nat
    BY <1>1, Divided
  <2> QED
    BY <1>3, <2>1, <2>2
<1> QED
  BY <1>4, <1>5, <1>6, <1>7 DEF RunTypeOK

(***************************************************************************)
(* Part 8.  The report of the main thread.                                 *)
(***************************************************************************)

(* The counters of a slot, and those of no worker.                         *)
Tried(s) == allocs[s] + failures[s]

Clear(s) == allocs[s] = 0 /\ failures[s] = 0 /\ frees[s] = 0

(* Every slot taken is the slot of one worker; the others are untouched.   *)
SlotsInv ==
  /\ \A s \in Slots : IF s < pcount THEN \E t \in Registered : myid[t] = s ELSE Clear(s)
  /\ \A t \in Registered : myid[t] < pcount
  /\ \A t, u \in Registered : myid[t] = myid[u] => t = u

(* What worker t has counted at each point of its loop.                    *)
CountInv(t) ==
  LET s == myid[t]
  IN /\ pc[t] \in Outside => j[t] = 1
     /\ pc[t] \in {"spin", "syscall", "loop", "fill"} => Clear(s)
     /\ pc[t] \notin {"none", "register", "spin"} /\ UserBuild => ops[s] = announced
     /\ pc[t] \notin Outside \cup {"exited"} => ~DividesByZero
     /\ pc[t] = "malloc" /\ benchmark \in Bursts =>
          /\ j[t] \in 1 .. iterations
          /\ Tried(s) = (j[t] - 1) * tentativi + (i[t] - 1)
          /\ allocs[s] = frees[s] + Cardinality(Live(t))
     /\ pc[t] = "free" /\ benchmark \in Bursts =>
          /\ j[t] \in 1 .. iterations
          /\ Tried(s) = j[t] * tentativi
          /\ allocs[s] = frees[s] + Cardinality(Live(t))
     /\ pc[t] = "malloc" /\ benchmark = "CA" =>
          i[t] <= tentativi + 1 /\ Tried(s) = i[t] - 1 /\ allocs[s] = frees[s]
     /\ pc[t] = "free" /\ benchmark = "CA" =>
          i[t] <= tentativi /\ Tried(s) = i[t] /\ allocs[s] = frees[s] + 1
     /\ pc[t] = "choose" =>
          i[t] <= tentativi + 1 /\ Tried(s) = i[t] - 1 /\ allocs[s] = frees[s]
     /\ pc[t] = "refill" =>
          i[t] <= tentativi /\ Tried(s) = i[t] - 1 /\ allocs[s] = frees[s]
     /\ pc[t] = "exited" =>
          /\ allocs[s] = frees[s]
          /\ \/ ~UserBuild /\ Tried(s) = 0
             \/ ~DividesByZero /\ Tried(s) = attempts

ReportInv ==
  /\ SlotsInv
  /\ \A t \in Threads : CountInv(t)
  /\ main = "report" => \A t \in Threads : pc[t] = "exited"

LEMMA SameNumbers ==
  ASSUME run' = run
  PROVE  announced' = announced /\ iterations' = iterations /\ attempts' = attempts
<1>1. /\ build' = build /\ benchmark' = benchmark /\ fixed_size' = fixed_size
      /\ UserBuild' = UserBuild /\ tentativi' = tentativi
  BY SameRun
<1>2. pages' = pages
  BY <1>1 DEF pages, fixed_order
<1>3. announced' = announced
  BY <1>1 DEF announced, LS_announced, TT_announced, CA_announced, CO_announced
<1>4. iterations' = iterations
  BY <1>1, <1>2 DEF iterations
<1> QED
  BY <1>1, <1>3, <1>4 DEF attempts

(* What the condition of a worker depends on. *)
LEMMA CountSame ==
  ASSUME NEW u \in Threads, CountInv(u), run' = run, myid'[u] = myid[u],
         pc'[u] = pc[u], i'[u] = i[u], j'[u] = j[u], Live(u)' = Live(u),
         LET s == myid[u]
         IN /\ allocs'[s] = allocs[s] /\ failures'[s] = failures[s]
            /\ frees'[s] = frees[s] /\ ops'[s] = ops[s]
  PROVE  CountInv(u)'
BY SameRun, SameNumbers DEF CountInv, Clear, Tried

(* A step of a worker that has its slot changes no slot but this.          *)
LEMMA CountStep ==
  ASSUME TypeInv, ReportInv, NEW t \in Threads, run' = run, main' = main, pcount' = pcount, myid' = myid,
         pc[t] \notin {"none", "register", "exited"}, pc'[t] \notin {"none", "register"},
         \A u \in Threads \ {t} :
           pc'[u] = pc[u] /\ i'[u] = i[u] /\ j'[u] = j[u] /\ addrs'[u] = addrs[u],
         \A s \in Slots \ {myid[t]} :
           /\ allocs'[s] = allocs[s] /\ failures'[s] = failures[s]
           /\ frees'[s] = frees[s] /\ ops'[s] = ops[s],
         CountInv(t)'
  PROVE  ReportInv'
<1>1. Registered' = Registered /\ t \in Registered
  BY DEF Registered
<1>2. \A u \in Threads : myid[u] \in Slots
  BY DEF TypeInv, TypeOK
<1>3. ASSUME NEW u \in Threads \ {t}
      PROVE  CountInv(u)'
  <2>1. CASE u \in Registered
    <3>1. myid[u] \in Slots \ {myid[t]}
      BY <1>1, <1>2, <2>1 DEF ReportInv, SlotsInv
    <3>2. Live(u)' = Live(u)
      BY OthersLive
    <3> QED
      BY <3>1, <3>2, CountSame DEF ReportInv
  <2>2. CASE u \notin Registered
    <3>1. pc'[u] \in {"none", "register"} /\ j'[u] = 1
      BY <2>2 DEF Registered, ReportInv, CountInv, Outside
    <3> QED
      BY <3>1 DEF CountInv, Outside
  <2> QED
    BY <2>1, <2>2
<1>4. SlotsInv'
  <2>1. myid[t] < pcount /\ SlotsInv
    BY <1>1 DEF ReportInv, SlotsInv
  <2>2. \A s \in Slots : IF s < pcount THEN \E u \in Registered : myid[u] = s ELSE Clear(s)'
    BY <2>1 DEF SlotsInv, Clear
  <2> QED
    BY <1>1, <2>1, <2>2 DEF SlotsInv
<1>5. main' # "report"
  BY DEF ReportInv
<1> QED
  BY <1>3, <1>4, <1>5 DEF ReportInv

(* Nothing is counted and no worker moves. *)
LEMMA NoMoveReport ==
  ASSUME TypeInv, ReportInv, run' = run, pcount' = pcount, myid' = myid, pc' = pc, i' = i, j' = j,
         addrs' = addrs, counters' = counters, ops' = ops,
         main' = "report" => \A t \in Threads : pc[t] = "exited"
  PROVE  ReportInv'
<1>1. allocs' = allocs /\ failures' = failures /\ frees' = frees
  BY DEF counters
<1>2. Registered' = Registered
  BY DEF Registered
<1>3. \A u \in Threads : Live(u)' = Live(u)
  BY SameRun DEF Live
<1>4. \A u \in Threads : CountInv(u)'
  BY <1>1, <1>3, CountSame DEF ReportInv
<1>5. SlotsInv'
  BY <1>1, <1>2 DEF ReportInv, SlotsInv, Clear
<1> QED
  BY <1>4, <1>5 DEF ReportInv

LEMMA EndReport ==
  ASSUME TypeInv, ReportInv, NEW end \in {"crashed", "misdirected"}, EndsAs(end)
  PROVE  ReportInv'
BY NoMoveReport DEF EndsAs

LEMMA ReportInit == Start => ReportInv
<1> SUFFICES ASSUME Start
             PROVE  ReportInv
  OBVIOUS
<1> USE DEF Start, Init
<1>1. Registered = {}
  BY DEF Registered
<1>2. \A s \in Slots : Clear(s) /\ ~(s < pcount)
  <2>1. \A s \in Slots : ~(s < 0)
    BY BenchmarkAssumption DEF Slots
  <2> QED
    BY <2>1 DEF Clear
<1>3. \A t \in Threads : CountInv(t)
  BY DEF CountInv, Outside
<1> QED
  BY <1>1, <1>2, <1>3 DEF ReportInv, SlotsInv

LEMMA MainReport == ASSUME TypeInv, ReportInv, Main PROVE ReportInv'
<1>1. CASE Create
  <2>1. PICK t \in Threads : pc[t] = "none" /\ pc' = [pc EXCEPT ![t] = "register"]
    BY <1>1 DEF Create
  <2>2. /\ run' = run /\ main' = "create" /\ pcount' = pcount /\ myid' = myid /\ i' = i /\ j' = j
        /\ addrs' = addrs /\ allocs' = allocs /\ failures' = failures /\ frees' = frees /\ ops' = ops
    BY <1>1 DEF Create, counters
  <2>3. pc'[t] = "register" /\ \A u \in Threads \ {t} : pc'[u] = pc[u]
    BY <2>1, MovedTo
  <2>4. Registered' = Registered
    BY <2>1, <2>3 DEF Registered
  <2>5. CountInv(t)'
    BY <2>1, <2>2, <2>3 DEF CountInv, ReportInv, Outside
  <2>6. ASSUME NEW u \in Threads \ {t}
        PROVE  CountInv(u)'
    <3>1. Live(u)' = Live(u)
      BY <2>2, <2>3, OthersLive
    <3> QED
      BY <2>2, <2>3, <3>1, CountSame DEF ReportInv
  <2>7. SlotsInv'
    BY <2>2, <2>4 DEF ReportInv, SlotsInv, Clear
  <2> QED
    BY <2>2, <2>5, <2>6, <2>7 DEF ReportInv
<1>2. CASE Open
  BY <1>2, NoMoveReport DEF Open
<1>3. CASE JoinAll
  BY <1>3, NoMoveReport DEF JoinAll
<1> QED
  BY <1>1, <1>2, <1>3 DEF Main

LEMMA RegisterReport == ASSUME TypeInv, ReportInv, NEW t \in Threads, Register(t) PROVE ReportInv'
<1>1. /\ pc[t] = "register" /\ pc' = [pc EXCEPT ![t] = "spin"]
      /\ myid' = [myid EXCEPT ![t] = pcount] /\ pcount' = pcount + 1
      /\ run' = run /\ main' = main /\ i' = i /\ j' = j /\ addrs' = addrs
      /\ allocs' = allocs /\ failures' = failures /\ frees' = frees /\ ops' = ops
  BY DEF Register, At, Goto, Slot, SlotTaken, counters
<1>2. pcount \in Slots
  BY <1>1, SlotFree
<1>3. /\ pc'[t] = "spin" /\ \A u \in Threads \ {t} : pc'[u] = pc[u]
      /\ myid'[t] = pcount /\ \A u \in Threads \ {t} : myid'[u] = myid[u]
  BY <1>1, MovedTo DEF TypeInv, TypeOK
<1>4. Registered' = Registered \cup {t} /\ t \notin Registered
  BY <1>1, <1>3 DEF Registered
<1>5. \A s \in Slots : s \in Nat /\ pcount \in Nat /\ (s < pcount + 1 <=> s < pcount \/ s = pcount)
  BY <1>2, BenchmarkAssumption DEF Slots
<1>6. Clear(pcount)
  BY <1>2, <1>5 DEF ReportInv, SlotsInv
<1>7. CountInv(t)'
  BY <1>1, <1>3, <1>6 DEF CountInv, Clear, Outside, ReportInv
<1>8. ASSUME NEW u \in Threads \ {t}
      PROVE  CountInv(u)'
  <2>1. Live(u)' = Live(u)
    BY <1>1, <1>3, OthersLive
  <2> QED
    BY <1>1, <1>3, <2>1, CountSame DEF ReportInv
<1>9. SlotsInv'
  <2>1. \A u \in Registered : u \in Threads \ {t} /\ myid'[u] = myid[u] /\ myid[u] < pcount /\ myid[u] \in Slots
    BY <1>3, <1>4 DEF ReportInv, SlotsInv, Registered, TypeInv, TypeOK
  <2>2. \A s \in Slots : IF s < pcount THEN \E u \in Registered : myid[u] = s ELSE Clear(s)
    BY DEF ReportInv, SlotsInv
  <2>3. \A s \in Slots : IF s < pcount + 1 THEN \E u \in Registered' : myid'[u] = s ELSE Clear(s)'
    BY <1>1, <1>3, <1>4, <1>5, <2>1, <2>2 DEF Clear
  <2>4. \A u \in Registered' : myid'[u] < pcount + 1
    <3>1. pcount < pcount + 1 /\ \A s \in Slots : s < pcount => s < pcount + 1
      BY <1>2, <1>5
    <3> QED
      BY <1>3, <1>4, <2>1, <3>1
  <2>5. \A u, v \in Registered' : myid'[u] = myid'[v] => u = v
    <3>1. \A u \in Registered : myid[u] # pcount
      BY <1>5, <2>1
    <3>2. \A u, v \in Registered : myid[u] = myid[v] => u = v
      BY DEF ReportInv, SlotsInv
    <3> QED
      BY <1>3, <1>4, <2>1, <3>1, <3>2
  <2> QED
    BY <1>1, <2>3, <2>4, <2>5 DEF SlotsInv
<1>10. main' = "report" => \A u \in Threads : pc[u] = "exited"
  BY <1>1 DEF ReportInv
<1> QED
  BY <1>1, <1>7, <1>8, <1>9, <1>10 DEF ReportInv

(* What an increment does to the slots. *)
LEMMA Added ==
  ASSUME TypeInv, NEW t \in Threads, NEW c \in [Slots -> Nat]
  PROVE  /\ c[myid[t]] \in Nat /\ Incremented(c, t)[myid[t]] = c[myid[t]] + 1
         /\ \A z \in Slots \ {myid[t]} : Incremented(c, t)[z] = c[z]
<1>1. myid[t] \in Slots
  BY CountsOfTypes
<1> QED
  BY <1>1 DEF Incremented

LEMMA SlotNumbers ==
  ASSUME TypeInv, NEW t \in Threads
  PROVE  allocs[myid[t]] \in Nat /\ failures[myid[t]] \in Nat /\ frees[myid[t]] \in Nat
<1>1. allocs \in [Slots -> Nat] /\ failures \in [Slots -> Nat] /\ frees \in [Slots -> Nat]
  BY DEF TypeInv, TypeOK
<1> QED
  BY <1>1, Added

(* A counted request counts once, for what its place tells. *)
LEMMA CountedAdds ==
  ASSUME TypeInv, NEW t \in Threads, NEW k \in Places, NEW size, CountedMalloc(t, size, k)
  PROVE  LET s == myid[t]
         IN /\ allocs'[s] = allocs[s] + (IF addrs'[t][k] = NULL THEN 0 ELSE 1)
            /\ failures'[s] = failures[s] + (IF addrs'[t][k] = NULL THEN 1 ELSE 0)
            /\ \A z \in Slots \ {s} : allocs'[z] = allocs[z] /\ failures'[z] = failures[z]
<1>1. /\ given \subseteq Regions /\ addrs \in [Threads -> [Places -> Regions \cup {NULL}]]
      /\ allocs \in [Slots -> Nat] /\ failures \in [Slots -> Nat]
  BY DEF TypeInv, TypeOK
<1>2. CASE Grant(t, size, k) /\ allocs' = Incremented(allocs, t) /\ failures' = failures
  <2>1. PICK r \in Regions : addrs' = [addrs EXCEPT ![t][k] = r]
    BY <1>1, <1>2, Granted
  <2>2. addrs'[t][k] = r /\ r # NULL
    BY <1>1, <2>1, PlaceWritten, NullAssumption
  <2> QED
    BY <1>1, <1>2, <2>2, Added
<1>3. CASE Refuse(t, k) /\ failures' = Incremented(failures, t) /\ allocs' = allocs
  <2>1. addrs'[t][k] = NULL
    BY <1>1, <1>3, PlaceWritten DEF Refuse
  <2> QED
    BY <1>1, <1>3, <2>1, Added
<1> QED
  BY <1>2, <1>3 DEF CountedMalloc

LEMMA EntryReport ==
  ASSUME TypeInv, ReportInv, NEW t \in Threads, PassBarrier(t) \/ Syscall(t) \/ EnterLoop(t)
  PROVE  ReportInv'
<1>1. CountInv(t) /\ WorkerInv(t)
  BY DEF ReportInv, TypeInv
<1>2. CASE PassBarrier(t)
  <2>1. /\ pc[t] = "spin" /\ pc' = [pc EXCEPT ![t] = IF UserBuild THEN "loop" ELSE "syscall"]
        /\ ops' = IF UserBuild THEN [ops EXCEPT ![myid[t]] = announced] ELSE ops
        /\ run' = run /\ main' = main /\ pcount' = pcount /\ myid' = myid
        /\ i' = i /\ j' = j /\ addrs' = addrs
        /\ allocs' = allocs /\ failures' = failures /\ frees' = frees
    BY <1>2 DEF PassBarrier, At, Goto, counters
  <2>2. /\ pc'[t] = IF UserBuild THEN "loop" ELSE "syscall"
        /\ \A u \in Threads \ {t} : pc'[u] = pc[u]
    BY <2>1, MovedTo
  <2>3. /\ UserBuild => ops'[myid[t]] = announced
        /\ \A s \in Slots \ {myid[t]} : ops'[s] = ops[s]
    BY <2>1, CountsOfTypes DEF TypeInv, TypeOK
  <2>4. CountInv(t)'
    BY <1>1, <2>1, <2>2, <2>3, SameRun, SameNumbers DEF CountInv, Clear, Outside
  <2> QED
    BY <2>1, <2>2, <2>3, <2>4, CountStep
<1>3. CASE Syscall(t)
  <2>1. CASE EndsAs("misdirected")
    BY <2>1, EndReport
  <2>2. CASE ~EndsAs("misdirected")
    <3>1. PICK label \in {"loop", "exited"} :
            /\ pc[t] = "syscall" /\ pc' = [pc EXCEPT ![t] = label]
            /\ Constant' = Constant /\ i' = i /\ j' = j /\ addrs' = addrs
            /\ allocs' = allocs /\ failures' = failures /\ frees' = frees
      BY <1>3, <2>2 DEF Syscall, At, Goto, counters
    <3>2. pc'[t] = label /\ \A u \in Threads \ {t} : pc'[u] = pc[u]
      BY <3>1, MovedTo
    <3>3. CountInv(t)'
      BY <1>1, <3>1, <3>2, LoopFrame, SameRun, SameNumbers DEF CountInv, WorkerInv, Clear, Tried, Outside
    <3> QED
      BY <3>1, <3>2, <3>3, LoopFrame, CountStep
  <2> QED
    BY <2>1, <2>2
<1>4. CASE EnterLoop(t)
  <2>1. CASE EndsAs("crashed")
    BY <2>1, EndReport
  <2>2. CASE ~EndsAs("crashed")
    <3>1. /\ pc[t] = "loop" /\ pc' = [pc EXCEPT ![t] = LoopEntry] /\ ~DividesByZero
          /\ Constant' = Constant /\ i' = i /\ j' = j /\ addrs' = addrs
          /\ allocs' = allocs /\ failures' = failures /\ frees' = frees
      BY <1>4, <2>2 DEF EnterLoop, At, Goto, counters
    <3>2. pc'[t] = LoopEntry /\ \A u \in Threads \ {t} : pc'[u] = pc[u]
      BY <3>1, MovedTo
    <3>3. /\ Clear(myid[t]) /\ i[t] = 1 /\ j[t] = 1 /\ \A k \in Places : addrs[t][k] = NULL
          /\ UserBuild => ops[myid[t]] = announced
      BY <1>1, <3>1 DEF CountInv, WorkerInv, Outside
    <3>4. /\ tentativi \in Nat
          /\ benchmark \in Bursts => iterations \in Nat /\ iterations >= 1
      BY <3>1, LoopNumbers DEF TypeInv
    <3>5. Live(t)' = {}
      BY <3>1, <3>3 DEF Live
    <3>6. Cardinality(Live(t)') = 0
      BY <3>5, FS_EmptySet
    <3>7. (1 - 1) * tentativi + (1 - 1) = 0
      BY <3>4
    <3>8. /\ Tried(myid[t])' = 0 /\ allocs'[myid'[t]] = 0 /\ frees'[myid'[t]] = 0
          /\ i'[t] = 1 /\ j'[t] = 1 /\ Clear(myid[t])' /\ myid' = myid
          /\ UserBuild' => ops'[myid[t]] = announced'
          /\ tentativi' = tentativi /\ iterations' = iterations /\ benchmark' = benchmark
          /\ DividesByZero' = DividesByZero
      BY <3>1, <3>3, LoopFrame, SameRun, SameNumbers DEF Clear, Tried
    <3>9. CountInv(t)'
      <4>1. CASE benchmark \in Bursts
        <5>1. pc'[t] = "malloc" /\ benchmark \notin {"CA", "CO"}
          BY <3>2, <4>1 DEF LoopEntry, Bursts
        <5>2. 1 \in 1 .. iterations
          BY <3>4, <4>1
        <5> QED
          BY <3>1, <3>4, <3>6, <3>7, <3>8, <4>1, <5>1, <5>2 DEF CountInv, Outside, Tried
      <4>2. CASE benchmark \notin Bursts
        BY <3>1, <3>2, <3>4, <3>8, <4>2 DEF CountInv, Outside, LoopEntry, Tried
      <4> QED
        BY <4>1, <4>2
    <3> QED
      BY <3>1, <3>2, <3>9, LoopFrame, CountStep DEF LoopEntry
  <2> QED
    BY <2>1, <2>2
<1> QED
  BY <1>2, <1>3, <1>4

(* In a burst, the blocks counted in and not out are those at live places. *)
LEMMA LiveFinite ==
  ASSUME TypeInv, NEW t \in Threads, BurstStep(t)
  PROVE  IsFiniteSet(Live(t)) /\ Cardinality(Live(t)) \in Nat
<1>1. /\ pc[t] \in {"malloc", "free"} /\ benchmark \in Bursts /\ benchmark \notin {"CA", "CO"}
      /\ i[t] \in Nat /\ i[t] >= 1 /\ i[t] <= tentativi + 1 /\ tentativi \in Nat
  BY BurstFacts
<1>2. \A k \in Places : k \in Nat /\ k >= 1
  BY PlacesFacts DEF Places
<1>3. Live(t) \subseteq 1 .. tentativi
  <2>1. ASSUME NEW k \in Live(t)
        PROVE  k \in Places /\ (k < i[t] \/ k <= tentativi)
    BY <1>1, <2>1 DEF Live
  <2> QED
    BY <1>1, <1>2, <2>1
<1>4. IsFiniteSet(1 .. tentativi)
  BY <1>1, FS_Interval
<1> QED
  BY <1>3, <1>4, FS_Subset, FS_CardinalityType

LEMMA BurstReport == ASSUME TypeInv, ReportInv, NEW t \in Threads, BurstStep(t) PROVE ReportInv'
<1>1. /\ pc[t] \in {"malloc", "free"} /\ benchmark \in Bursts /\ benchmark \notin {"CA", "CO"}
      /\ ~DividesByZero /\ i[t] \in Nat /\ i[t] >= 1 /\ i[t] <= tentativi + 1
      /\ tentativi \in Nat /\ 1 .. tentativi \subseteq Places
  BY BurstFacts
<1>2. CountInv(t) /\ IsFiniteSet(Live(t)) /\ Cardinality(Live(t)) \in Nat
  BY LiveFinite DEF ReportInv
<1> DEFINE s == myid[t]
           T == tentativi
<1>3. /\ j[t] \in 1 .. iterations /\ allocs[s] = frees[s] + Cardinality(Live(t))
      /\ pc[t] = "malloc" => allocs[s] + failures[s] = (j[t] - 1) * T + (i[t] - 1)
      /\ pc[t] = "free" => allocs[s] + failures[s] = j[t] * T
      /\ UserBuild => ops[s] = announced
  BY <1>1, <1>2 DEF CountInv, Tried, Outside
<1>4. iterations \in Nat /\ iterations >= 1 /\ attempts = iterations * T
  <2>1. iterations \in Nat /\ iterations >= 1
    BY <1>1, LoopNumbers DEF TypeInv
  <2> QED
    BY <1>1, <2>1 DEF attempts
<1>5. /\ allocs[s] \in Nat /\ failures[s] \in Nat /\ frees[s] \in Nat
      /\ j[t] \in Nat /\ j[t] >= 1 /\ j[t] <= iterations
  BY <1>3, <1>4, SlotNumbers
<1>6. /\ (j[t] - 1) * T \in Nat /\ (j[t] - 1) * T + T = j[t] * T /\ ((j[t] + 1) - 1) * T = j[t] * T
  <2>1. j[t] - 1 \in Nat
    BY <1>5
  <2> QED
    BY <1>1, <1>5, <2>1
<1> HIDE DEF T
<1>7. ASSUME NEW label \in {"malloc", "free"}, pc'[t] = label, Constant' = Constant,
             j'[t] \in 1 .. iterations,
             label = "malloc" => (allocs[s] + failures[s])' = (j'[t] - 1) * T + (i'[t] - 1),
             label = "free" => (allocs[s] + failures[s])' = j'[t] * T,
             (allocs[s] = frees[s] + Cardinality(Live(t)))'
      PROVE  CountInv(t)'
  BY <1>1, <1>3, <1>7, LoopFrame, SameRun, SameNumbers DEF CountInv, Tried, Outside, T
<1>8. CASE BurstMalloc(t)
  <2>1. /\ i[t] <= tentativi /\ pc[t] = "malloc" /\ CountedMalloc(t, block, i[t])
        /\ i' = Following(i, t) /\ Constant' = Constant /\ pc' = pc /\ j' = j /\ frees' = frees
    BY <1>8 DEF BurstMalloc, At
  <2>2. /\ i[t] \in Places /\ i[t] \notin Live(t)
        /\ Live(t)' = Live(t) \cup (IF addrs'[t][i[t]] = NULL THEN {} ELSE {i[t]})
    BY <1>8, BurstMallocLive
  <2>3. i'[t] = i[t] + 1 /\ \A u \in Threads \ {t} : i'[u] = i[u]
    BY <2>1, Counted
  <2>4. \A u \in Threads \ {t} : addrs'[u] = addrs[u]
    BY <2>1, <2>2, CountedTypes
  <2>5. /\ allocs'[s] = allocs[s] + (IF addrs'[t][i[t]] = NULL THEN 0 ELSE 1)
        /\ failures'[s] = failures[s] + (IF addrs'[t][i[t]] = NULL THEN 1 ELSE 0)
        /\ \A z \in Slots \ {s} : allocs'[z] = allocs[z] /\ failures'[z] = failures[z]
    BY <2>1, <2>2, CountedAdds
  <2>6. s' = s
    BY <2>1, LoopFrame
  <2> HIDE DEF s
  <2>7. allocs'[s] = frees'[s] + Cardinality(Live(t)')
    <3>1. CASE addrs'[t][i[t]] = NULL
      <4>1. Live(t)' = Live(t)
        BY <2>2, <3>1
      <4> QED
        BY <1>3, <1>5, <2>1, <2>5, <3>1, <4>1
    <3>2. CASE addrs'[t][i[t]] # NULL
      <4>1. Cardinality(Live(t)') = Cardinality(Live(t)) + 1
        BY <1>2, <2>2, <3>2, FS_AddElement
      <4> QED
        BY <1>2, <1>3, <1>5, <2>1, <2>5, <3>2, <4>1
    <3> QED
      BY <3>1, <3>2
  <2>8. allocs'[s] + failures'[s] = (j'[t] - 1) * T + (i'[t] - 1)
    <3>1. allocs'[s] + failures'[s] = (allocs[s] + failures[s]) + 1
      BY <1>5, <2>5
    <3> QED
      BY <1>1, <1>3, <1>6, <2>1, <2>3, <3>1
  <2>9. CountInv(t)'
    BY <1>3, <1>7, <2>1, <2>6, <2>7, <2>8
  <2> QED
    BY <2>1, <2>3, <2>4, <2>5, <2>9, LoopFrame, CountStep DEF s
<1>9. CASE BurstTurn(t)
  <2>1. /\ pc[t] = "malloc" /\ i[t] > tentativi
        /\ pc' = [pc EXCEPT ![t] = "free"] /\ i' = [i EXCEPT ![t] = 1]
        /\ Constant' = Constant /\ j' = j /\ addrs' = addrs
        /\ allocs' = allocs /\ failures' = failures /\ frees' = frees
    BY <1>9 DEF BurstTurn, Goto, At, counters
  <2>2. /\ pc'[t] = "free" /\ \A u \in Threads \ {t} : pc'[u] = pc[u] /\ i'[u] = i[u]
    BY <2>1, MovedTo, Counted
  <2>3. Live(t)' = Live(t) /\ s' = s
    BY <1>9, <2>1, BurstTurnLive, LoopFrame
  <2> HIDE DEF s
  <2>4. allocs[s] + failures[s] = j[t] * T
    <3>1. i[t] - 1 = T
      BY <1>1, <2>1 DEF T
    <3> QED
      BY <1>3, <1>6, <2>1, <3>1
  <2>5. CountInv(t)'
    BY <1>3, <1>7, <2>1, <2>2, <2>3, <2>4
  <2> QED
    BY <1>1, <2>1, <2>2, <2>5, LoopFrame, CountStep
<1>10. CASE (BurstSkip(t) \/ BurstFree(t)) /\ EndsAs("crashed")
  BY <1>10, EndReport
<1>11. CASE (BurstSkip(t) \/ BurstFree(t)) /\ ~EndsAs("crashed")
  <2>1. /\ pc[t] = "free" /\ i' = Following(i, t) /\ pc' = pc /\ Constant' = Constant /\ j' = j
        /\ addrs' = addrs /\ allocs' = allocs /\ failures' = failures
        /\ IF addrs[t][i[t]] = NULL THEN frees' = frees ELSE frees' = Incremented(frees, t)
    BY <1>11 DEF BurstSkip, BurstFree, Skipped, At, counters
  <2>2. Live(t)' = Live(t) \ {i[t]} /\ (addrs[t][i[t]] # NULL <=> i[t] \in Live(t))
    BY <1>11, BurstReleaseLive
  <2>3. \A u \in Threads \ {t} : i'[u] = i[u]
    BY <2>1, Counted
  <2>4. s' = s
    BY <2>1, LoopFrame
  <2>5. frees \in [Slots -> Nat]
    BY DEF TypeInv, TypeOK
  <2>6. /\ allocs[s] = frees'[s] + Cardinality(Live(t)')
        /\ \A z \in Slots \ {s} : frees'[z] = frees[z]
    <3>1. CASE addrs[t][i[t]] = NULL
      <4>1. Live(t)' = Live(t)
        BY <2>2, <3>1
      <4> QED
        BY <1>3, <2>1, <3>1, <4>1
    <3>2. CASE addrs[t][i[t]] # NULL
      <4>1. Cardinality(Live(t)') = Cardinality(Live(t)) - 1
        BY <1>2, <2>2, <3>2, FS_RemoveElement
      <4>2. frees'[s] = frees[s] + 1 /\ \A z \in Slots \ {s} : frees'[z] = frees[z]
        BY <2>1, <2>5, <3>2, Added
      <4> HIDE DEF s
      <4> QED
        BY <1>2, <1>3, <1>5, <4>1, <4>2
    <3> QED
      BY <3>1, <3>2
  <2> HIDE DEF s
  <2>7. CountInv(t)'
    BY <1>3, <1>7, <2>1, <2>4, <2>6
  <2> QED
    BY <1>1, <2>1, <2>3, <2>6, <2>7, LoopFrame, CountStep DEF s
<1>12. CASE BurstNext(t)
  <2>1. PICK label \in {"malloc", "exited"} :
          /\ pc[t] = "free" /\ pc' = [pc EXCEPT ![t] = label] /\ j' = Following(j, t)
          /\ IF label = "malloc" THEN i' = [i EXCEPT ![t] = 1] /\ j[t] < iterations
                                 ELSE i' = i /\ j[t] = iterations
          /\ Constant' = Constant /\ addrs' = addrs
          /\ allocs' = allocs /\ failures' = failures /\ frees' = frees
    BY <1>12 DEF BurstNext, Goto, At, counters
  <2>2. /\ pc'[t] = label /\ j'[t] = j[t] + 1 /\ (label = "malloc" => i'[t] = 1)
        /\ \A u \in Threads \ {t} : pc'[u] = pc[u] /\ i'[u] = i[u] /\ j'[u] = j[u]
    <3>1. j \in [Threads -> Nat]
      BY DEF TypeInv, TypeOK
    <3>2. j'[t] = j[t] + 1
      BY <2>1, <3>1 DEF Following
    <3> QED
      BY <2>1, <3>2, MovedTo, Counted
  <2>3. Cardinality(Live(t)) = 0 /\ Cardinality(Live(t)') = 0 /\ s' = s
    BY <1>12, <2>1, BurstNextLive, FS_EmptySet, LoopFrame
  <2> HIDE DEF s
  <2>4. allocs[s] = frees[s]
    BY <1>3, <1>5, <2>3
  <2>5. CountInv(t)'
    <3>1. CASE label = "malloc"
      <4>1. j'[t] \in 1 .. iterations
        BY <1>4, <1>5, <2>1, <2>2, <3>1
      <4>2. allocs[s] + failures[s] = (j'[t] - 1) * T + (i'[t] - 1)
        <5>1. j[t] * T \in Nat
          BY <1>1, <1>5 DEF T
        <5> QED
          BY <1>3, <1>6, <2>1, <2>2, <3>1, <5>1
      <4>3. allocs'[s] = frees'[s] + Cardinality(Live(t)')
        BY <1>5, <2>1, <2>3, <2>4
      <4> QED
        BY <1>7, <2>1, <2>2, <2>3, <3>1, <4>1, <4>2, <4>3
    <3>2. CASE label = "exited"
      <4>1. allocs[s] + failures[s] = attempts
        BY <1>3, <1>4, <2>1, <3>2
      <4> QED
        BY <1>1, <1>3, <2>1, <2>2, <2>3, <2>4, <3>2, <4>1, LoopFrame, SameRun, SameNumbers
           DEF CountInv, Tried, Outside, s
    <3> QED
      BY <3>1, <3>2
  <2> QED
    BY <1>1, <2>1, <2>2, <2>5, LoopFrame, CountStep
<1> QED
  BY <1>8, <1>9, <1>10, <1>11, <1>12 DEF BurstStep

LEMMA CacheReport == ASSUME TypeInv, ReportInv, NEW t \in Threads, CacheStep(t) PROVE ReportInv'
<1>1. /\ pc[t] \in {"malloc", "free"} /\ benchmark = "CA" /\ benchmark \notin Bursts
      /\ 1 \in Places /\ i[t] \in Nat /\ i[t] >= 1
  BY PlacesFacts, Counted DEF CacheStep, CacheMalloc, CacheFree, CacheEnd, At, Bursts
<1>2. CountInv(t)
  BY DEF ReportInv
<1>3. tentativi \in Nat /\ attempts = tentativi /\ ~DividesByZero
  <2>1. ~DividesByZero
    BY <1>1 DEF DividesByZero
  <2> QED
    BY <1>1, <2>1, LoopNumbers DEF TypeInv
<1> DEFINE s == myid[t]
<1>4. /\ pc[t] = "malloc" =>
           i[t] <= tentativi + 1 /\ allocs[s] + failures[s] = i[t] - 1 /\ allocs[s] = frees[s]
      /\ pc[t] = "free" =>
           i[t] <= tentativi /\ allocs[s] + failures[s] = i[t] /\ allocs[s] = frees[s] + 1
      /\ UserBuild => ops[s] = announced
  BY <1>1, <1>2 DEF CountInv, Tried, Outside
<1>5. allocs[s] \in Nat /\ failures[s] \in Nat /\ frees[s] \in Nat
  BY SlotNumbers
<1>6. ASSUME NEW label \in {"malloc", "free", "exited"}, pc'[t] = label, Constant' = Constant,
             label = "malloc" => /\ i'[t] <= tentativi + 1
                                 /\ (allocs[s] + failures[s])' = i'[t] - 1 /\ (allocs[s] = frees[s])',
             label = "free" => /\ i'[t] <= tentativi
                               /\ (allocs[s] + failures[s])' = i'[t] /\ (allocs[s] = frees[s] + 1)',
             label = "exited" => (allocs[s] = frees[s])' /\ (allocs[s] + failures[s])' = tentativi
      PROVE  CountInv(t)'
  BY <1>1, <1>3, <1>4, <1>6, LoopFrame, SameRun, SameNumbers DEF CountInv, Tried, Outside
<1>7. CASE CacheMalloc(t)
  <2>1. /\ CountedMalloc(t, block, 1) /\ pc[t] = "malloc" /\ Constant' = Constant /\ i[t] <= tentativi
        /\ IF addrs'[t][1] = NULL THEN i' = Following(i, t) /\ pc' = pc
                                  ELSE i' = i /\ pc' = [pc EXCEPT ![t] = "free"]
        /\ j' = j /\ frees' = frees
    BY <1>7 DEF CacheMalloc, At, Goto
  <2>2. /\ allocs'[s] = allocs[s] + (IF addrs'[t][1] = NULL THEN 0 ELSE 1)
        /\ failures'[s] = failures[s] + (IF addrs'[t][1] = NULL THEN 1 ELSE 0)
        /\ \A z \in Slots \ {s} : allocs'[z] = allocs[z] /\ failures'[z] = failures[z]
    BY <1>1, <2>1, CountedAdds
  <2>3. \A u \in Threads \ {t} : addrs'[u] = addrs[u]
    BY <1>1, <2>1, CountedTypes
  <2>4. s' = s
    BY <2>1, LoopFrame
  <2>5. /\ IF addrs'[t][1] = NULL THEN i'[t] = i[t] + 1 /\ pc'[t] = "malloc"
                                  ELSE i'[t] = i[t] /\ pc'[t] = "free"
        /\ \A u \in Threads \ {t} : pc'[u] = pc[u] /\ i'[u] = i[u]
    <3>1. CASE addrs'[t][1] = NULL
      BY <2>1, <3>1, Counted
    <3>2. CASE addrs'[t][1] # NULL
      BY <2>1, <3>2, MovedTo
    <3> QED
      BY <3>1, <3>2
  <2> HIDE DEF s
  <2>6. CountInv(t)'
    <3>1. CASE addrs'[t][1] = NULL
      <4>1. /\ i'[t] <= tentativi + 1 /\ allocs'[s] + failures'[s] = i'[t] - 1
            /\ allocs'[s] = frees'[s]
        BY <1>1, <1>3, <1>4, <1>5, <2>1, <2>2, <2>5, <3>1
      <4> QED
        BY <1>6, <2>1, <2>4, <2>5, <3>1, <4>1
    <3>2. CASE addrs'[t][1] # NULL
      <4>1. /\ i'[t] <= tentativi /\ allocs'[s] + failures'[s] = i'[t]
            /\ allocs'[s] = frees'[s] + 1
        BY <1>1, <1>3, <1>4, <1>5, <2>1, <2>2, <2>5, <3>2
      <4> QED
        BY <1>6, <2>1, <2>4, <2>5, <3>2, <4>1
    <3> QED
      BY <3>1, <3>2
  <2>7. pc'[t] \notin {"none", "register"}
    BY <2>5
  <2> QED
    BY <2>1, <2>2, <2>3, <2>5, <2>6, <2>7, LoopFrame, CountStep DEF s
<1>8. CASE CacheFree(t)
  <2>1. /\ pc[t] = "free" /\ pc' = [pc EXCEPT ![t] = "malloc"] /\ i' = Following(i, t)
        /\ frees' = Incremented(frees, t) /\ allocs' = allocs /\ failures' = failures
        /\ Constant' = Constant /\ j' = j /\ addrs' = addrs
    BY <1>8 DEF CacheFree, At, Goto
  <2>2. /\ pc'[t] = "malloc" /\ i'[t] = i[t] + 1
        /\ \A u \in Threads \ {t} : pc'[u] = pc[u] /\ i'[u] = i[u]
    BY <2>1, MovedTo, Counted
  <2>3. frees \in [Slots -> Nat]
    BY DEF TypeInv, TypeOK
  <2>4. frees'[s] = frees[s] + 1 /\ (\A z \in Slots \ {s} : frees'[z] = frees[z]) /\ s' = s
    BY <2>1, <2>3, Added, LoopFrame
  <2> HIDE DEF s
  <2>5. i'[t] <= tentativi + 1 /\ allocs'[s] + failures'[s] = i'[t] - 1 /\ allocs'[s] = frees'[s]
    BY <1>1, <1>3, <1>4, <1>5, <2>1, <2>2, <2>4
  <2>6. CountInv(t)'
    BY <1>6, <2>1, <2>2, <2>4, <2>5
  <2> QED
    BY <1>1, <2>1, <2>2, <2>4, <2>6, LoopFrame, CountStep DEF s
<1>9. CASE CacheEnd(t)
  <2>1. /\ pc[t] = "malloc" /\ i[t] > tentativi /\ pc' = [pc EXCEPT ![t] = "exited"]
        /\ Constant' = Constant /\ i' = i /\ j' = j /\ addrs' = addrs
        /\ allocs' = allocs /\ failures' = failures /\ frees' = frees
    BY <1>9 DEF CacheEnd, At, Goto, counters
  <2>2. pc'[t] = "exited" /\ (\A u \in Threads \ {t} : pc'[u] = pc[u]) /\ s' = s
    BY <2>1, MovedTo, LoopFrame
  <2> HIDE DEF s
  <2>3. allocs[s] + failures[s] = tentativi /\ allocs[s] = frees[s]
    <3>1. i[t] <= tentativi + 1 /\ allocs[s] + failures[s] = i[t] - 1 /\ allocs[s] = frees[s]
      BY <1>4, <2>1
    <3>2. i[t] - 1 = tentativi
      BY <1>1, <1>3, <2>1, <3>1
    <3> QED
      BY <3>1, <3>2
  <2>4. CountInv(t)'
    BY <1>6, <2>1, <2>2, <2>3
  <2> QED
    BY <1>1, <2>1, <2>2, <2>4, LoopFrame, CountStep
<1> QED
  BY <1>7, <1>8, <1>9 DEF CacheStep

LEMMA ReplaceReport == ASSUME TypeInv, ReportInv, NEW t \in Threads, ReplaceStep(t) PROVE ReportInv'
<1>1. /\ pc[t] \in {"fill", "choose", "refill"} /\ benchmark = "CO" /\ benchmark \notin Bursts
      /\ i[t] \in Nat /\ i[t] >= 1 /\ blocchi \in Nat /\ 1 .. blocchi \subseteq Places
  BY PlacesFacts
     DEF ReplaceStep, Fill, Filled, Release, Refill, ReplaceEnd, At, TypeInv, TypeOK, WorkerInv, Bursts
<1>2. CountInv(t)
  BY DEF ReportInv
<1>3. tentativi \in Nat /\ attempts = tentativi /\ ~DividesByZero
  <2>1. ~DividesByZero
    BY <1>1 DEF DividesByZero
  <2> QED
    BY <1>1, <2>1, LoopNumbers DEF TypeInv
<1> DEFINE s == myid[t]
<1>4. /\ pc[t] = "fill" => Clear(s)
      /\ pc[t] # "fill" =>
           i[t] <= tentativi + 1 /\ allocs[s] + failures[s] = i[t] - 1 /\ allocs[s] = frees[s]
      /\ pc[t] = "refill" => i[t] <= tentativi
      /\ UserBuild => ops[s] = announced
  <2>1. pc[t] = "refill" => i[t] <= tentativi /\ i[t] <= tentativi + 1
    BY <1>1, <1>2, <1>3 DEF CountInv
  <2>2. pc[t] # "fill" =>
           i[t] <= tentativi + 1 /\ allocs[s] + failures[s] = i[t] - 1 /\ allocs[s] = frees[s]
    BY <1>1, <1>2, <2>1 DEF CountInv, Tried
  <2> QED
    BY <1>1, <1>2, <2>1, <2>2 DEF CountInv, Outside
<1>5. allocs[s] \in Nat /\ failures[s] \in Nat /\ frees[s] \in Nat
  BY SlotNumbers
<1>6. ASSUME NEW label \in {"fill", "choose", "refill", "exited"}, pc'[t] = label, Constant' = Constant,
             label = "fill" => Clear(s)',
             label \in {"choose", "refill"} =>
               /\ i'[t] <= tentativi + 1
               /\ (allocs[s] + failures[s])' = i'[t] - 1 /\ (allocs[s] = frees[s])',
             label = "refill" => i'[t] <= tentativi,
             label = "exited" => (allocs[s] = frees[s])' /\ (allocs[s] + failures[s])' = tentativi
      PROVE  CountInv(t)'
  BY <1>1, <1>3, <1>4, <1>6, LoopFrame, SameRun, SameNumbers DEF CountInv, Tried, Outside
<1>7. given \subseteq Regions /\ addrs \in [Threads -> [Places -> Regions \cup {NULL}]]
  BY DEF TypeInv, TypeOK
<1>8. CASE Fill(t)
  <2>1. /\ pc[t] = "fill" /\ i[t] <= blocchi
        /\ Grant(t, sizes(i[t]), i[t]) \/ Refuse(t, i[t])
        /\ i' = Following(i, t) /\ Constant' = Constant /\ pc' = pc /\ j' = j
        /\ allocs' = allocs /\ failures' = failures /\ frees' = frees
    BY <1>8 DEF Fill, At, counters
  <2>2. i[t] \in Places
    BY <1>1, <2>1
  <2>3. \A u \in Threads \ {t} : addrs'[u] = addrs[u] /\ i'[u] = i[u]
    BY <1>7, <2>1, <2>2, Answered, Counted
  <2>4. Clear(s)' /\ s' = s
    BY <1>4, <2>1, LoopFrame DEF Clear
  <2> HIDE DEF s
  <2>5. CountInv(t)'
    BY <1>6, <2>1, <2>4
  <2> QED
    BY <2>1, <2>3, <2>5, LoopFrame, CountStep
<1>9. CASE Filled(t)
  <2>1. /\ pc[t] = "fill" /\ pc' = [pc EXCEPT ![t] = "choose"] /\ i' = [i EXCEPT ![t] = 1]
        /\ Constant' = Constant /\ j' = j /\ addrs' = addrs
        /\ allocs' = allocs /\ failures' = failures /\ frees' = frees
    BY <1>9 DEF Filled, At, Goto, counters
  <2>2. /\ pc'[t] = "choose" /\ i'[t] = 1 /\ s' = s
        /\ \A u \in Threads \ {t} : pc'[u] = pc[u] /\ i'[u] = i[u]
    BY <2>1, MovedTo, Counted, LoopFrame
  <2> HIDE DEF s
  <2>3. i'[t] <= tentativi + 1 /\ allocs[s] + failures[s] = i'[t] - 1 /\ allocs[s] = frees[s]
    BY <1>3, <1>4, <2>1, <2>2 DEF Clear
  <2>4. CountInv(t)'
    BY <1>6, <2>1, <2>2, <2>3
  <2> QED
    BY <1>1, <2>1, <2>2, <2>4, LoopFrame, CountStep
<1>10. CASE Release(t) /\ EndsAs("crashed")
  BY <1>10, EndReport
<1>11. CASE Release(t) /\ ~EndsAs("crashed")
  <2>1. PICK k \in 1 .. blocchi :
          /\ pc[t] = "choose" /\ i[t] <= tentativi
          /\ j' = [j EXCEPT ![t] = k] /\ pc' = [pc EXCEPT ![t] = "refill"]
          /\ Constant' = Constant /\ i' = i /\ addrs' = addrs
          /\ allocs' = allocs /\ failures' = failures /\ frees' = frees
    BY <1>11 DEF Release, At, Goto, counters
  <2>2. /\ pc'[t] = "refill" /\ s' = s
        /\ \A u \in Threads \ {t} : pc'[u] = pc[u] /\ j'[u] = j[u]
    BY <2>1, MovedTo, LoopFrame DEF TypeInv, TypeOK
  <2> HIDE DEF s
  <2>3. CountInv(t)'
    BY <1>4, <1>6, <2>1, <2>2
  <2> QED
    BY <1>1, <2>1, <2>2, <2>3, LoopFrame, CountStep
<1>12. CASE Refill(t)
  <2>1. /\ pc[t] = "refill" /\ pc' = [pc EXCEPT ![t] = "choose"] /\ i' = Following(i, t)
        /\ Grant(t, sizes(j[t]), j[t]) \/ Refuse(t, j[t])
        /\ Constant' = Constant /\ j' = j
        /\ \/ /\ allocs' = Incremented(allocs, t) /\ frees' = Incremented(frees, t)
              /\ failures' = failures
           \/ /\ failures' = Incremented(failures, t)
              /\ allocs' = allocs /\ frees' = frees
    BY <1>12 DEF Refill, Refilled, At, Goto
  <2>2. j[t] \in Places
    BY <1>1, <2>1 DEF TypeInv, WorkerInv
  <2>3. \A u \in Threads \ {t} : addrs'[u] = addrs[u]
    BY <1>7, <2>1, <2>2, Answered
  <2>4. /\ pc'[t] = "choose" /\ i'[t] = i[t] + 1 /\ s' = s
        /\ \A u \in Threads \ {t} : pc'[u] = pc[u] /\ i'[u] = i[u]
    BY <2>1, MovedTo, Counted, LoopFrame
  <2>5. allocs \in [Slots -> Nat] /\ failures \in [Slots -> Nat] /\ frees \in [Slots -> Nat]
    BY DEF TypeInv, TypeOK
  <2>6. /\ \/ /\ allocs'[s] = allocs[s] + 1 /\ frees'[s] = frees[s] + 1
              /\ failures'[s] = failures[s]
           \/ /\ failures'[s] = failures[s] + 1
              /\ allocs'[s] = allocs[s] /\ frees'[s] = frees[s]
        /\ \A z \in Slots \ {s} :
             allocs'[z] = allocs[z] /\ failures'[z] = failures[z] /\ frees'[z] = frees[z]
    BY <2>1, <2>5, Added
  <2> HIDE DEF s
  <2>7. i'[t] <= tentativi + 1 /\ allocs'[s] + failures'[s] = i'[t] - 1 /\ allocs'[s] = frees'[s]
    BY <1>1, <1>3, <1>4, <1>5, <2>1, <2>4, <2>6
  <2>8. CountInv(t)'
    BY <1>6, <2>1, <2>4, <2>7
  <2> QED
    BY <2>1, <2>3, <2>4, <2>6, <2>8, LoopFrame, CountStep DEF s
<1>13. CASE ReplaceEnd(t)
  <2>1. /\ pc[t] = "choose" /\ i[t] > tentativi /\ pc' = [pc EXCEPT ![t] = "exited"]
        /\ Constant' = Constant /\ i' = i /\ j' = j /\ addrs' = addrs
        /\ allocs' = allocs /\ failures' = failures /\ frees' = frees
    BY <1>13 DEF ReplaceEnd, At, Goto, counters
  <2>2. pc'[t] = "exited" /\ (\A u \in Threads \ {t} : pc'[u] = pc[u]) /\ s' = s
    BY <2>1, MovedTo, LoopFrame
  <2> HIDE DEF s
  <2>3. allocs[s] + failures[s] = tentativi /\ allocs[s] = frees[s]
    BY <1>1, <1>3, <1>4, <1>5, <2>1
  <2>4. CountInv(t)'
    BY <1>6, <2>1, <2>2, <2>3
  <2> QED
    BY <1>1, <2>1, <2>2, <2>4, LoopFrame, CountStep
<1> QED
  BY <1>8, <1>9, <1>10, <1>11, <1>12, <1>13 DEF ReplaceStep

LEMMA ReportStep == TypeInv /\ ReportInv /\ [Next]_<<vars, kernel>> => ReportInv'
<1> SUFFICES ASSUME TypeInv, ReportInv, [Next]_<<vars, kernel>>
             PROVE  ReportInv'
  OBVIOUS
<1>1. CASE Main
  BY <1>1, MainReport
<1>2. ASSUME NEW t \in Threads, Worker(t)
      PROVE  ReportInv'
  BY <1>2, RegisterReport, EntryReport, BurstReport, CacheReport, ReplaceReport
     DEF Worker, BurstStep, CacheStep, ReplaceStep
<1>3. CASE UNCHANGED vars
  <2>1. main = "report" => \A t \in Threads : pc[t] = "exited"
    BY DEF ReportInv
  <2> QED
    BY <1>3, <2>1, NoMoveReport DEF vars
<1> QED
  BY <1>1, <1>2, <1>3 DEF Next, Program, Module

(* When all have exited, every slot is one worker's. *)
LEMMA EverySlotTaken ==
  ASSUME TypeInv, SlotsInv, \A t \in Threads : pc[t] = "exited"
  PROVE  \A s \in Slots : \E t \in Threads : myid[t] = s
<1>1. Registered = Threads
  BY DEF Registered
<1>2. pcount = number_of_processes
  BY <1>1 DEF TypeInv, number_of_processes
<1>3. \A s \in Slots : s < pcount
  BY <1>2, BenchmarkAssumption DEF Slots
<1> QED
  BY <1>1, <1>3 DEF SlotsInv

LEMMA ReportIs == TypeInv /\ Owned /\ ReportInv => ReportAddsUp
<1> SUFFICES ASSUME TypeInv, Owned, ReportInv, main = "report"
             PROVE  ReportAddsUp
  BY DEF ReportAddsUp
<1>1. \A t \in Threads : pc[t] = "exited" /\ CountInv(t)
  BY DEF ReportInv
<1>2. ASSUME NEW s \in Slots
      PROVE  \E t \in Threads : myid[t] = s /\ pc[t] = "exited" /\ CountInv(t)
  BY <1>1, EverySlotTaken DEF ReportInv
<1>3. \A s \in Slots :
        /\ allocs[s] = frees[s]
        /\ (~UserBuild /\ allocs[s] + failures[s] = 0) \/ allocs[s] + failures[s] = attempts
  BY <1>2 DEF CountInv, Tried
<1>4. UserBuild => Total(allocs) + Total(failures) <= Total(ops) * factor
  <2> SUFFICES ASSUME UserBuild
               PROVE  Total(allocs) + Total(failures) <= Total(ops) * factor
    OBVIOUS
  <2>1. allocs \in [Slots -> Nat] /\ failures \in [Slots -> Nat] /\ ops \in [Slots -> Nat] /\ factor \in Nat
    BY DEF TypeInv, TypeOK, factor
  <2>2. ASSUME NEW s \in Slots
        PROVE  allocs[s] + failures[s] <= ops[s] * factor
    <3>1. PICK t \in Threads : myid[t] = s /\ pc[t] = "exited" /\ CountInv(t)
      BY <1>2
    <3>2. ops[s] = announced /\ ~DividesByZero /\ allocs[s] + failures[s] = attempts
      BY <3>1 DEF CountInv, Tried
    <3>3. attempts <= announced * factor
      BY <3>2, LoopNumbers DEF TypeInv
    <3> QED
      BY <3>2, <3>3
  <2> QED
    BY <2>1, <2>2, TotalsBounded
<1>5. benchmark # "CO" => given = {}
  <2>1. benchmark # "CO" => \A t \in Threads : Live(t) = {}
    BY <1>1 DEF Live
  <2> QED
    BY <2>1 DEF Owned
<1> QED
  BY <1>3, <1>4, <1>5 DEF ReportAddsUp, attempts, factor

(* The report adds up, whatever was refused: every slot counts the attempts*)
(* of one worker, every block is counted in and out, the totals stay within*)
(* what was announced, and no loop but the one of CO leaves a block behind.*)
THEOREM ReportAddsUpAlways == Spec => []ReportAddsUp
<1> DEFINE AllInv == TypeInv /\ Owned /\ ReportInv
<1>1. Start => AllInv
  BY TypeInit, OwnedInit, ReportInit
<1>2. AllInv /\ [Next]_<<vars, kernel>> => AllInv'
  BY TypeStep, OwnedStep, ReportStep
<1>3. AllInv => ReportAddsUp
  BY ReportIs
<1> HIDE DEF AllInv
<1> QED
  BY <1>1, <1>2, <1>3, PTL DEF Spec
=============================================================================
