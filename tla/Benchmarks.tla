----------------------------- MODULE Benchmarks -----------------------------
(***************************************************************************)
(* The four benchmark programs: a main thread                              *)
(* that creates the workers, opens a spin barrier and joins them, and the  *)
(* workers, each of which takes a slot of the counters with an atomic add  *)
(* and runs one loop against the shared allocator.                         *)
(*                                                                         *)
(*   LS  linux-scalability   bursts of mallocs, then bursts of frees       *)
(*   TT  threadtest          the same, TT_OBJS split among the threads   *)
(*   CA  cached-allocation   malloc and free, one block at a time          *)
(*   CO  fixed-size          fill a set of chunks, then replace one chunk  *)
(*                           chosen at random, over and over               *)
(*                                                                         *)
(* The allocator is its abstract specification, which never grants memory  *)
(* in use, may refuse any request and, in the user build, may not return   *)
(* from one: of the allocators of this repository the blocking ones keep   *)
(* to it, the lock-free ones may also grant overlapping blocks.  In the    *)
(* kernel build (KERNEL_BD) a worker makes one system call, and the same   *)
(* loop runs inside bd_api over the page allocator of the kernel.          *)
(***************************************************************************)
EXTENDS KernelModule, FiniteSetsExt

CONSTANTS
  Threads,          (* The workers, 1 to number_of_processes.              *)
  Builds,           (* Of "user" and "kernel".                             *)
  MAX_BD_ORDER,     (* The largest order bd_api accepts.                   *)
  ArenaCells,       (* Minimum-size cells of the arena.                    *)
  BASE,             (* The page the benchmarks count in, in cells.         *)
  FixedSizes,       (* The <mem size> arguments tried, in cells.           *)
  NULL,             (* What a refused request returns.                     *)
  LS_ITERATIONS, TT_ITERATIONS, TT_OBJS, CA_ITERATIONS, CO_ITERATIONS, CO_LEVELS

number_of_processes == Cardinality(Threads)

ASSUME BenchmarkAssumption ==
  /\ number_of_processes \in Nat /\ Threads = 1 .. number_of_processes
  /\ FixedSizes \subseteq Nat \ {0}
  /\ Builds \subseteq {"user", "kernel"} /\ MAX_BD_ORDER \in Nat
  /\ {ArenaCells, BASE, LS_ITERATIONS, TT_ITERATIONS, TT_OBJS,
      CA_ITERATIONS, CO_ITERATIONS, CO_LEVELS} \subseteq Nat \ {0}

VARIABLES
  build, benchmark, fixed_size,   (* The program and its <mem size>.       *)
  main,      (* "create", "join", "report"; "crashed" or "misdirected" end *)
             (* the whole process.                                         *)
  start,     (* The barrier.                                               *)
  pcount,    (* Slots taken.                                               *)
  myid,      (* Each worker's slot.                                        *)
  pc, i, j,  (* Each worker's step and loop counters.                      *)
  addrs,     (* Each worker's blocks: addrs, obt or chunks.                *)
  allocs, failures, frees, ops,   (* The counters, by slot.                *)
  given      (* The regions handed out.                                    *)

counters == <<allocs, failures, frees>>
run      == <<build, benchmark, fixed_size>>
vars     == <<run, main, start, pcount, myid, pc, i, j, addrs, counters, ops, given>>

Slots == 0 .. number_of_processes - 1

Powers == {2^k : k \in 0 .. ArenaCells}

Regions == [addr : 0 .. ArenaCells - 1, size : Powers]

ASSUME NullAssumption == NULL \notin Regions

Arena == INSTANCE Allocator WITH Cells <- ArenaCells, Sizes <- Powers

(***************************************************************************)
(* How much each loop does.                                                *)
(***************************************************************************)

Bursts == {"LS", "TT"}

UserBuild == build = "user"

(* convert_to_level: the order of the pages asked for, rounded down.       *)
Asked(size) == (size - 1) \div BASE + 1

fixed_order ==
  CHOOSE k \in 0 .. Asked(fixed_size) : 2^k <= Asked(fixed_size) /\ Asked(fixed_size) < 2^(k + 1)

(* What the proofs need to know of the powers of two. *)
ASSUME BenchmarkPowersAssumption ==
  \A m \in {ArenaCells, CO_LEVELS} \cup {Asked(size) : size \in FixedSizes} :
    \A k \in 0 .. m : 2^(k + 1) = 2 * 2^k

(* What is asked of the allocator, in cells. *)
block == IF UserBuild THEN fixed_size ELSE BASE * 2^fixed_order

(* Pages per block: the divisor of the burst loops.  In the kernel BASE is *)
(* one and is shifted by the order.                                        *)
pages == IF UserBuild THEN fixed_size \div BASE ELSE 1 \div 2^fixed_order

(* Attempts in a burst of LS and TT, or in all of CA and CO.               *)
LS_tentativi == LS_ITERATIONS \div pages
TT_tentativi == (TT_OBJS \div number_of_processes) \div pages
CO_tentativi == CO_ITERATIONS \div number_of_processes

tentativi ==
  CASE benchmark = "LS" -> LS_tentativi
    [] benchmark = "TT" -> TT_tentativi
    [] benchmark = "CA" -> CA_ITERATIONS
    [] benchmark = "CO" -> CO_tentativi

iterations == pages * (IF benchmark = "LS" THEN 2 ELSE TT_ITERATIONS)

(* What the worker announces as its number of operations.                  *)
LS_announced == LS_ITERATIONS
TT_announced == (TT_ITERATIONS * TT_OBJS) \div number_of_processes
CA_announced == CA_ITERATIONS
CO_announced == CO_ITERATIONS \div number_of_processes

announced ==
  CASE benchmark = "LS" -> LS_announced
    [] benchmark = "TT" -> TT_announced
    [] benchmark = "CA" -> CA_announced
    [] benchmark = "CO" -> CO_announced

(* The chunks of CO: one of the largest size, two of half that size...     *)
blocchi == 2^CO_LEVELS - 1
sizes(k) ==
  LET row == Max({p \in Powers : p <= k}) IN (block * 2^(CO_LEVELS - 1)) \div row

Places == 1 .. Max({blocchi, LS_ITERATIONS, TT_OBJS})

Init ==
  /\ build \in Builds /\ benchmark \in {"LS", "TT", "CA", "CO"} /\ fixed_size \in FixedSizes
  /\ main = "create" /\ start = 0 /\ pcount = 0
  /\ myid = [t \in Threads |-> 0]
  /\ pc = [t \in Threads |-> "none"]
  /\ i = [t \in Threads |-> 1] /\ j = [t \in Threads |-> 1]
  /\ addrs = [t \in Threads |-> [k \in Places |-> NULL]]
  /\ allocs = [s \in Slots |-> 0] /\ failures = allocs /\ frees = allocs /\ ops = allocs
  /\ given = {}

(***************************************************************************)
(* The main thread.                                                        *)
(***************************************************************************)

(* A line of its report: a counter summed over the slots.                  *)
Total(c) == MapThenSumSet(LAMBDA s : c[s], Slots)

Create ==
  /\ main = "create"
  /\ \E t \in Threads :
       /\ pc[t] = "none" /\ \A u \in 1 .. (t - 1) : pc[u] # "none"
       /\ pc' = [pc EXCEPT ![t] = "register"]
  /\ UNCHANGED <<run, main, start, pcount, myid, i, j, addrs, counters, ops, given>>

NeverOpened(n) == n   \* Mutant: the add on the barrier is forgotten.
Opened(n)      == n + 1

Open ==
  /\ main = "create" /\ \A t \in Threads : pc[t] # "none"
  /\ start' = Opened(start)
  /\ main' = "join"
  /\ UNCHANGED <<run, pcount, myid, pc, i, j, addrs, counters, ops, given>>

JoinAll ==
  /\ main = "join" /\ \A t \in Threads : pc[t] = "exited"
  /\ main' = "report"
  /\ UNCHANGED <<run, start, pcount, myid, pc, i, j, addrs, counters, ops, given>>

(***************************************************************************)
(* A worker: its slot, the barrier, and the loop of its benchmark.         *)
(***************************************************************************)

At(t, label) == main \notin {"crashed", "misdirected"} /\ pc[t] = label

Goto(t, label) == pc' = [pc EXCEPT ![t] = label]

Constant == <<run, main, start, pcount, myid, ops>>

Incremented(c, t) == [c EXCEPT ![myid[t]] = @ + 1]

(* A division by zero, a release of no block, or another system call with  *)
(* these arguments: nothing is said of what follows.                       *)
EndsAs(end) ==
  /\ main' = end
  /\ UNCHANGED <<run, start, pcount, myid, pc, i, j, addrs, counters, ops, given>>

SlotRead(n)  == n       \* Mutant: the slot is read, not taken.
SlotTaken(n) == n + 1
SlotAfter(n) == n + 1   \* Mutant: add-and-fetch for fetch-and-add.
Slot(n)      == n

Register(t) ==
  /\ At(t, "register")
  /\ myid' = [myid EXCEPT ![t] = Slot(pcount)]
  /\ pcount' = SlotTaken(pcount)
  /\ Goto(t, "spin")
  /\ UNCHANGED <<run, main, start, i, j, addrs, counters, ops, given>>

DividesByZero == benchmark \in Bursts /\ pages = 0

LoopEntry == IF benchmark = "CO" THEN "fill" ELSE "malloc"

PassBarrier(t) ==
  /\ At(t, "spin") /\ start # 0
  /\ ops' = IF UserBuild THEN [ops EXCEPT ![myid[t]] = announced] ELSE ops
  /\ Goto(t, IF UserBuild THEN "loop" ELSE "syscall")
  /\ UNCHANGED <<run, main, start, pcount, myid, i, j, addrs, counters, given>>

(* The call finds its own loop, no call, or somebody else's call.  What it *)
(* returns is not tested.                                                  *)
OrderAccepted == fixed_order <= MAX_BD_ORDER

Syscall(t) ==
  /\ At(t, "syscall")
  /\ LET entry == table[NR[benchmark]]
     IN \/ /\ entry = benchmark
           /\ Goto(t, IF OrderAccepted THEN "loop" ELSE "exited")
           /\ UNCHANGED <<Constant, i, j, addrs, counters, given>>
        \/ /\ entry = "ni"
           /\ Goto(t, "exited")
           /\ UNCHANGED <<Constant, i, j, addrs, counters, given>>
        \/ entry \notin {benchmark, "ni"} /\ EndsAs("misdirected")

EnterLoop(t) ==
  /\ At(t, "loop")
  /\ \/ /\ ~DividesByZero
        /\ Goto(t, LoopEntry)
        /\ UNCHANGED <<Constant, i, j, addrs, counters, given>>
     \/ DividesByZero /\ EndsAs("crashed")

(* TO_BE_REPLACED_MALLOC of a size, into place k, which is bd_xx_malloc in *)
(* the user build: a block of the next power of two, or a refusal.         *)
Grant(t, size, k) ==
  /\ \E p \in Powers : size <= p /\ p < 2 * size /\ Arena!Malloc(p)
  /\ addrs' = [addrs EXCEPT ![t][k] = CHOOSE r \in given' : r \notin given]
Refuse(t, k) ==
  /\ addrs' = [addrs EXCEPT ![t][k] = NULL]
  /\ UNCHANGED given

CountedMalloc(t, size, k) ==
  \/ /\ Grant(t, size, k)
     /\ allocs' = Incremented(allocs, t) /\ UNCHANGED failures
  \/ /\ Refuse(t, k)
     /\ failures' = Incremented(failures, t) /\ UNCHANGED allocs

Following(c, t) == [c EXCEPT ![t] = @ + 1]

(* LS and TT: a burst of mallocs and a burst of frees, iterations times.   *)
BurstMalloc(t) ==
  /\ At(t, "malloc") /\ benchmark \in Bursts /\ i[t] <= tentativi
  /\ CountedMalloc(t, block, i[t])
  /\ i' = Following(i, t)
  /\ UNCHANGED <<Constant, pc, j, frees>>

BurstTurn(t) ==
  /\ At(t, "malloc") /\ benchmark \in Bursts /\ i[t] > tentativi
  /\ Goto(t, "free") /\ i' = [i EXCEPT ![t] = 1]
  /\ UNCHANGED <<Constant, j, addrs, counters, given>>

NeverNull(t) == FALSE   \* Mutant: refused requests are not skipped.
Skipped(t)   == addrs[t][i[t]] = NULL

BurstSkip(t) ==
  /\ At(t, "free") /\ benchmark \in Bursts /\ i[t] <= tentativi
  /\ Skipped(t)
  /\ i' = Following(i, t)
  /\ UNCHANGED <<Constant, pc, j, addrs, counters, given>>

BurstFree(t) ==
  /\ At(t, "free") /\ benchmark \in Bursts /\ i[t] <= tentativi
  /\ ~Skipped(t)
  /\ \/ /\ addrs[t][i[t]] \in given
        /\ Arena!Free(addrs[t][i[t]])
        /\ frees' = Incremented(frees, t)
        /\ i' = Following(i, t)
        /\ UNCHANGED <<Constant, pc, j, addrs, allocs, failures>>
     \/ addrs[t][i[t]] \notin given /\ EndsAs("crashed")

BurstNext(t) ==
  /\ At(t, "free") /\ benchmark \in Bursts /\ i[t] > tentativi
  /\ j' = Following(j, t)
  /\ \/ j[t] < iterations /\ Goto(t, "malloc") /\ i' = [i EXCEPT ![t] = 1]
     \/ j[t] = iterations /\ Goto(t, "exited") /\ UNCHANGED i
  /\ UNCHANGED <<Constant, addrs, counters, given>>

(* CA: one block at a time; a refusal only counts.                         *)
CacheMalloc(t) ==
  /\ At(t, "malloc") /\ benchmark = "CA" /\ i[t] <= tentativi
  /\ CountedMalloc(t, block, 1)
  /\ \/ addrs'[t][1] = NULL /\ i' = Following(i, t) /\ UNCHANGED pc
     \/ addrs'[t][1] # NULL /\ Goto(t, "free") /\ UNCHANGED i
  /\ UNCHANGED <<Constant, j, frees>>

CacheFree(t) ==
  /\ At(t, "free") /\ benchmark = "CA" /\ addrs[t][1] \in given
  /\ Arena!Free(addrs[t][1])
  /\ frees' = Incremented(frees, t)
  /\ i' = Following(i, t)
  /\ Goto(t, "malloc")
  /\ UNCHANGED <<Constant, j, addrs, allocs, failures>>

CacheEnd(t) ==
  /\ At(t, "malloc") /\ benchmark = "CA" /\ i[t] > tentativi
  /\ Goto(t, "exited")
  /\ UNCHANGED <<Constant, i, j, addrs, counters, given>>

(* CO: the chunks are filled without counting, then, tentativi times, a    *)
(* chunk is chosen at random, released and requested again.                *)
Fill(t) ==
  /\ At(t, "fill") /\ i[t] <= blocchi
  /\ Grant(t, sizes(i[t]), i[t]) \/ Refuse(t, i[t])
  /\ i' = Following(i, t)
  /\ UNCHANGED <<Constant, pc, j, counters>>

Filled(t) ==
  /\ At(t, "fill") /\ i[t] > blocchi
  /\ Goto(t, "choose") /\ i' = [i EXCEPT ![t] = 1]
  /\ UNCHANGED <<Constant, j, addrs, counters, given>>

Release(t) ==
  /\ At(t, "choose") /\ i[t] <= tentativi
  /\ \E k \in 1 .. blocchi :
       \/ /\ addrs[t][k] \in given
          /\ Arena!Free(addrs[t][k])
          /\ j' = [j EXCEPT ![t] = k]
          /\ Goto(t, "refill")
          /\ UNCHANGED <<Constant, i, addrs, counters>>
       \/ addrs[t][k] \notin given /\ UserBuild /\ EndsAs("crashed")
       \/ /\ addrs[t][k] = NULL /\ ~UserBuild   \* free_pages(0) does nothing.
          /\ j' = [j EXCEPT ![t] = k]
          /\ Goto(t, "refill")
          /\ UNCHANGED <<Constant, i, addrs, counters, given>>

RefilledLast(t) == i[t]   \* Mutant: the loop's index for the chosen one.
Refilled(t)     == j[t]

Refill(t) ==
  /\ At(t, "refill")
  /\ \/ /\ Grant(t, sizes(j[t]), Refilled(t))
        /\ allocs' = Incremented(allocs, t) /\ frees' = Incremented(frees, t)
        /\ UNCHANGED failures
     \/ /\ Refuse(t, Refilled(t))
        /\ failures' = Incremented(failures, t) /\ UNCHANGED <<allocs, frees>>
  /\ i' = Following(i, t)
  /\ Goto(t, "choose")
  /\ UNCHANGED <<Constant, j>>

ReplaceEnd(t) ==
  /\ At(t, "choose") /\ i[t] > tentativi
  /\ Goto(t, "exited")
  /\ UNCHANGED <<Constant, i, j, addrs, counters, given>>

Main == Create \/ Open \/ JoinAll

Worker(t) ==
  \/ Register(t) \/ PassBarrier(t) \/ Syscall(t) \/ EnterLoop(t)
  \/ BurstMalloc(t) \/ BurstTurn(t) \/ BurstSkip(t) \/ BurstFree(t) \/ BurstNext(t)
  \/ CacheMalloc(t) \/ CacheFree(t) \/ CacheEnd(t)
  \/ Fill(t) \/ Filled(t) \/ Release(t) \/ Refill(t) \/ ReplaceEnd(t)

Program == Main \/ \E t \in Threads : Worker(t)

(* The module is there for the kernel build only.  It may come at any time *)
(* and is removed when the program has ended.                              *)
Module ==
  /\ build = "kernel"
  /\ Scan \/ Install \/ (main = "report" /\ Rmmod) \/ Remove

Next ==
  \/ Program /\ UNCHANGED kernel
  \/ Module /\ UNCHANGED vars

(* The table does not matter to the user build, and the kernel build takes *)
(* a size below a page for a page.                                         *)
Start ==
  /\ Init /\ KernelInit
  /\ IF UserBuild THEN unused = {} ELSE fixed_size >= BASE

Spec == Start /\ [][Next]_<<vars, kernel>>

(* Worker t is in a request to an allocator of this repository. *)
Requesting(t) ==
  /\ UserBuild
  /\ \/ pc[t] = "malloc" /\ i[t] <= tentativi
     \/ pc[t] = "fill" /\ i[t] <= blocchi
     \/ pc[t] = "refill"

(* A free block for its request.                                           *)
HasRoom(t) ==
  LET size == CASE pc[t] = "fill" -> sizes(i[t])
                [] pc[t] = "refill" -> sizes(j[t])
                [] OTHER -> block
  IN \E p \in Powers :
       /\ size <= p /\ p < 2 * size
       /\ \E a \in 0 .. (ArenaCells - p) :
            a % p = 0 /\ \A r \in given : Arena!CellsOf(r) \cap (a .. (a + p - 1)) = {}

(* Its steps, but for a request that is not granted, which need not return *)
(* at all: the search of the lock-free builds may wrap for ever in a full  *)
(* arena, as run search shows.                                             *)
Returning(t) == Worker(t) /\ (Requesting(t) => given' # given)

(* The threads are scheduled by the kernel: none is starved for ever.      *)
FairSpec == Spec /\ WF_vars(Main) /\ \A t \in Threads : WF_vars(Returning(t))

(***************************************************************************)
(* Properties.                                                             *)
(***************************************************************************)

TypeOK ==
  /\ main \in {"create", "join", "report", "crashed", "misdirected"}
  /\ start \in {0, 1} /\ pcount \in 0 .. number_of_processes
  /\ myid \in [Threads -> Slots]
  /\ pc \in [Threads -> {"none", "register", "spin", "syscall", "loop", "malloc", "free",
                        "fill", "choose", "refill", "exited"}]
  /\ i \in [Threads -> Nat] /\ j \in [Threads -> Nat]
  /\ addrs \in [Threads -> [Places -> Regions \cup {NULL}]]
  /\ {allocs, failures, frees, ops} \subseteq [Slots -> Nat]
  /\ given \subseteq Regions

(* The places where worker t still has a block to release.                 *)
Live(t) ==
  {k \in Places :
     /\ addrs[t][k] # NULL
     /\ \/ pc[t] = "malloc" /\ benchmark \in Bursts /\ k < i[t]
        \/ pc[t] = "free" /\ benchmark \in Bursts /\ k >= i[t] /\ k <= tentativi
        \/ pc[t] = "free" /\ benchmark = "CA" /\ k = 1
        \/ pc[t] \in {"fill", "choose", "refill", "exited"} /\ benchmark = "CO"
             /\ ~(pc[t] = "refill" /\ k = j[t])}

(* Every region handed out is at exactly one live place of one worker: no  *)
(* block is lost while the benchmark runs, and none is in two hands.       *)
RegionsOwned ==
  /\ given = UNION {{addrs[t][k] : k \in Live(t)} : t \in Threads}
  /\ \A t, u \in Threads : \A k \in Live(t), l \in Live(u) :
       addrs[t][k] = addrs[u][l] => t = u /\ k = l

(* The process ends early only for the reasons the code has: a <mem size>  *)
(* below a page (user) or of two pages or more (kernel) divides by zero, a *)
(* chunk whose request failed is released by fixed-size (user), and the    *)
(* entries the module took are not those whose numbers are called.  The    *)
(* other loops survive every refusal.                                      *)
CrashesJustified ==
  /\ main = "crashed" =>
       \/ benchmark \in Bursts /\ UserBuild /\ fixed_size < BASE
       \/ benchmark \in Bursts /\ ~UserBuild /\ fixed_order \in 1 .. MAX_BD_ORDER
       \/ benchmark = "CO" /\ UserBuild /\ \E t \in Threads : \E k \in 1 .. blocchi :
            pc[t] = "choose" /\ addrs[t][k] = NULL
  /\ main = "misdirected" => ~UserBuild /\ ~NumbersMatch

(* The report of the main thread: whatever was refused, every slot is the  *)
(* count of one worker's attempts, every block counted in is counted out,  *)
(* and the totals stay within what was announced: bursts are rounded down  *)
(* to whole pages, and linux-scalability runs its announced number twice.  *)
(* A kernel program announces nothing, and the slots of calls that were    *)
(* not served stay at zero.                                                *)
ReportAddsUp ==
  main = "report" =>
    /\ \A s \in Slots :
         LET attempts == tentativi * (IF benchmark \in Bursts THEN iterations ELSE 1)
         IN /\ allocs[s] = frees[s]
            /\ \/ ~UserBuild /\ allocs[s] + failures[s] = 0
               \/ allocs[s] + failures[s] = attempts
    /\ UserBuild => Total(allocs) + Total(failures)
                      <= Total(ops) * (IF benchmark = "LS" THEN 2 ELSE 1)
    /\ benchmark # "CO" => given = {}

(* The barrier opens for every worker and every worker is joined, or the   *)
(* process has ended, unless a worker's request finds the arena full for   *)
(* ever: a search that does not return is the only way to hang.            *)
EveryRunEnds ==
  \/ <>(main \in {"report", "crashed", "misdirected"})
  \/ \E t \in Threads : <>[](Requesting(t) /\ ~HasRoom(t))
=============================================================================
