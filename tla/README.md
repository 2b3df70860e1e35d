# Verification of NBBS

TLA+ modules, TLC configurations and TLAPS proofs for the buddy allocators of
NBBS. Paths below are relative to the repository's root.

## The system

| Component | Source | State it keeps | Operations |
|---|---|---|---|
| 1lvl-nb tree protocol | `allocators/1lvl-nb/nballoc.c` 310-443 | `tree[]`, one word of five bits per node of a static binary tree | `alloc`, `internal_free_node`, `unmark` |
| 1lvl-nb malloc layer | `allocators/1lvl-nb/nballoc.c` 228-301, 445-469, `utils/utils.h` | `free_tree[]` (address to node), `freemap` (thread cache), `tid`, `partecipants` | `bd_xx_malloc`, `bd_xx_free` |
| 1lvl-sl | the same file with `BD_SPIN_LOCK` | the same, and `glock` | the same, behind a spin lock |
| 4lvl-nb bunch protocol | `allocators/4lvl-nb/nballoc.c` 304-309, 380-690 | one 64-bit word for every four levels (a bunch) | `alloc`, `check_parent`, `internal_free_node`, `marca`, `smarca` |
| 4lvl-nb malloc layer | `allocators/4lvl-nb/nballoc.c` 317-372, 549-563 | as 1lvl | as 1lvl |
| 4lvl-sl | the same file with `BD_SPIN_LOCK` | the same, and `glock` | the same, behind a spin lock |
| buddy-sl | `allocators/buddy-sl/nballoc.c` | `self->tree`, one of four states per node, and a spin lock | `bd_xx_malloc`, `bd_xx_free`, `buddy_size`, `buddy_dump` |
| initialisation | `init`, `init_tree`, `destroy`, `buddy_new` | `init_phase` | once per process, from a constructor |
| benchmarks | `benchmarks/TB_*` | barrier, slots, counters, each worker's blocks | create, run, join, report |
| kernel module | `kernel-bd-api/bd_api.c` | entries of the system-call table | `init_module`, `cleanup_module`, four calls |
| support | `utils`, `benchmarks/common`, `scripts` | none that matters here | random numbers, timers, plots |

Callers call `bd_xx_malloc`; it picks a level from the size, walks the nodes of
the level from a start that depends on the thread, and calls `alloc` on each
until one is granted. `alloc` sets the node busy with a CAS from 0 and then
climbs to the first level that can be allocated, setting one occupancy bit per
ancestor. If it meets a busy ancestor it undoes what it has done with the
release procedure, bounded by a level. A release first sets coalescing bits up
the branch, then clears the node with a plain store, then climbs again and
cleans coalescing and occupancy bits. Threads meet only in the words of the
tree, in the lock of the blocking builds and in the translation table.

### What is hard here

* Three kinds of climb (allocation, marking, cleaning) of many threads over the
  same ancestors; a CAS compares a value that may have been re-created since.
* An allocation that fails half-way and rolls back while others build on its
  marks.
* A word of 64 bits that holds fifteen nodes, in two formats.
* Search bookkeeping (cache, spread, jumps behind failed ancestors, wrap).
* A translation table that is written by address and never cleared.
* Behind the lock, a release that stops marking at the first ancestor whose other
  half is in use: what it leaves must be exactly the words the held blocks define.
* A kernel module that stores its calls in whatever entries it finds unused,
  while the programs call fixed numbers.

What makes each component correct: blocks held at the same time never overlap;
a held block's branch is marked, so nobody can take an ancestor; when nothing is
held everything can be had again; a refusal has a reason; a release finds the
block its address was given for; and the lock-free builds always let somebody
make progress.

## Modules

| Module | Models | State and actions |
|---|---|---|
| `BuddyTree` | index arithmetic of the static tree | operators only |
| `NodeProtocol` | what both node protocols show: `held`, `pc`, the lock, `failed_at`, the bit names | `glock`, `pc`, `held`, `target`, `upper_bound`, `failed_at` |
| `BlockAllocator` | abstract specification of a node-level allocator | `held`; `Acquire`, `HandBack` |
| `Allocator` | abstract specification of malloc and free | `given`, a set of aligned regions; `Malloc`, `Free` |
| `NBTree` | 1lvl protocol, both builds | `tree`, and per thread the locals of the C functions; one action per shared access |
| `NB4Lvl` | 4lvl protocol, both builds | `nodes` (a word is the set of its bit numbers), and the locals of the C functions |
| `MallocLayer` | `bd_xx_malloc` and `bd_xx_free`, the same text in both allocators | `tid`, `partecipants`, `freemap`, `free_tree`, the locals of the search |
| `NBMalloc`, `NB4Malloc` | the layer composed with `NBTree`, with `NB4Lvl` | each action joins a step of the layer with the step of the protocol it comes with |
| `BuddySL` | buddy-sl | `tree` and the locals of the running call |
| `KernelModule` | `init_module` and `cleanup_module` | the system-call table, the entries found, the store being made |
| `Benchmarks` | the four benchmark programs over `Allocator`, in the user build and over `KernelModule` | barrier, slots, counters, loop indices, each worker's blocks |
| `TreeFacts` | lemmas on the tree, on levels and paths, on paths between levels | |
| `NBTreeProofs` | theorems on `NBTree`: both builds, then the build with the lock, and `BlockAllocator` | |
| `NB4LvlProofs` | lemmas on positions, bits and words of a bunch and on its nodes; theorems on `NB4Lvl` | |
| `MallocFacts` | lemmas on sizes, levels and addresses; the invariant of the search and the table, action by action of `MallocLayer` | |
| `NBMallocProofs`, `NB4MallocProofs` | theorems on the composed modules | |
| `BuddySLProofs` | theorems on `BuddySL` | |
| `BenchmarksProofs` | theorems on `KernelModule` and `Benchmarks` | |
| `MC*` | model-checking entry points (symmetry sets, initial states) | |

`NBTree` and `NB4Lvl` each refine `BlockAllocator` (`ImplementsBlocks`: `held`
of the protocol is `held` of the abstraction); `NBMalloc` and `BuddySL` refine
`Allocator` (`ImplementsAllocator`), and the steps of `NB4Malloc` are its steps
(`AllocatorSteps`); `Benchmarks` is a client of `Allocator`.

### How the models read the code

* One step is one access to shared memory, with the local computation around
  it. In `NBTree` the read and the CAS of a climb are separate steps. A read
  whose failed CAS only starts the same iteration again, with no local variable
  surviving, is joined to its successful CAS: `alloc`'s first CAS in both
  protocols (from 0 in 1lvl; of the word just read in 4lvl), and every CAS loop
  of 4lvl except `smarca`, where `p_pos` survives a failure and the two steps
  are separate.
* In the blocking builds the lock is taken with the first step and dropped with
  the last; the CAS is a plain store, as under `#ifdef BD_SPIN_LOCK`.
* Words are sets of named bits (1lvl) or of bit numbers (4lvl). The leaf macros
  of 4lvl shift by `7 + 5*(pos-8)`; for the positions below 8 that the code
  reaches after a failed CAS the count is taken modulo 64, which is what the
  x86-64 build does.
* An `assert` that fails stops the process (`aborted`). `internal_free_node`
  reads the word once for its assertion (`FreeEnter`, line 417) and again for
  its test (`FreeCheck`): a word that changes in between makes it return with
  the node still busy, which `abandoned` records. The code has no such variable
  and no guard reads it.
* Addresses are counted in cells of `MIN_ALLOCABLE_BYTES`.
* `restarted`, `started_at` and the other locals of a search are reset when the
  call returns, so that states which differ only in dead locals are equal.
* `Release` keeps the comparison of a node's index with a level
  (`if(n != upper_bound)`, 1lvl line 442).
* `checked` in `MallocLayer` records the nodes at which a search's attempts
  failed, and `request` in `BuddySL` the bytes that were asked for, which the
  code forgets once it has computed a size from them; the code has no such
  variables, and no guard reads them.
* `TooLarge` compares with `MAX_ALLOCABLE_BYTES` only. 1lvl also compares with
  `overall_memory_size`, which its `init` makes no smaller; the 4lvl builds are
  assumed to be configured so.
* In `Benchmarks` a request is answered in one step, by a region that overlaps
  none given (`Grant`) or by NULL (`Refuse`). In the user build the request is a
  call of `bd_xx_malloc` of one of the allocators above, in the kernel build of
  the kernel's page allocator. Disjoint regions are what is proved of 1lvl-sl,
  4lvl-sl and buddy-sl, and what the lock-free builds do not guarantee (runs
  `overlap`, `bunch_overlap`); that a request returns is not assumed, see
  Fairness.
* The kernel module stores one entry per step, so that a program may start
  between two stores. The word before the table is entry -1, which is where
  `restore[]` points when nothing was found. A program's system call runs the
  worker's whole loop inside the module; the module is removed after it.
* The benchmarks' barrier is a plain word; the programs are compiled without
  optimisation, so every iteration of the loop reads it.

## Runs

Bounds are the constants in each `.cfg`.

| Run | Instance | Shows |
|---|---|---|
| `nb` | 3 levels, every node, 2 threads | on three levels, two threads never own the same node, every held branch is marked, operations complete as long as any one thread runs, and the protocol refines `BlockAllocator` |
| `sl` | 4 levels of which 3 allocable, 3 threads | with the lock the tree is exactly a function of `held` between operations, a refusal has a held block over the node asked for and every node skipped with it, no assertion fails, no deadlock |
| `malloc` | 3 levels, 2 threads, requests 0, 3, 8, 9 of cells of two bytes, 4 calls | the search, the cache, the table and the addresses; NULL only after every node of the level was found busy |
| `bunch_malloc` | 9 levels of which 5 allocable, 2 threads, requests 1, 32, 33, 3 calls; from an empty arena, and from one with a single largest block left | the same over the bunches, where blocks of two bunch levels share table entries |
| `bunch_sl` | 14 levels of which 10 allocable, 2 threads, twelve blocks over three allocable bunch levels | exact words modulo coalescing bits that stay beside occupied ones, justified refusals |
| `bunch_nb` | 11 levels, 3 threads, five blocks in two bunch levels | the bunches nothing lies below hold exactly their blocks |
| `buddy_sl` | 8 cells of 4 bytes, requests 1, 4, 5, 9, 32, 33 | all sequences of malloc and free; NULL only beyond the arena or without a free region; `buddy_size` and `buddy_dump` tell what is held |
| `benchmarks` | 2 workers, arena of 4 cells, `<mem size>` below, at and above a page; user build and kernel build with enough, exactly four, or too few unused entries | all four programs; a run ends unless a request finds the arena full for ever; the table after the module is removed, with enough entries and with too few |
| `overlap` | 5 levels, 2 threads, blocks 1, 2, 8, 9, 16, 17 | violation, see below |
| `search` | 3 levels | violation, see below |
| `bunch_overlap` | 10 levels, 2 threads, five blocks | violation, see below |
| `bunch_leftover` | 9 levels, 2 threads, three blocks | violation, see below |

Why the bounds are enough to mean something: three levels give a root, an inner
node and leaves, so a climb passes a shared ancestor and a rollback has a bound
between its node and the root, but not for everything two threads can do: run
`overlap` needs five levels; four levels with `MAX_ORDER = 2` put unallocable
levels above. Fourteen levels are the least that have three allocable bunch
levels below the root bunch, so `check_parent`, `marca` and `smarca` loop. The
targets of the 4lvl runs are chosen as node, ancestor in the bunch, ancestor in
the bunch above, brother and cousin. `malloc` holds enough calls (`MaxRequests`,
the only bound on behaviour) to fill a level, wrap, and reuse an address at
another size; the tree protocols and `BuddySL` need no bound, their states are finite.
In `bunch_malloc` three calls cannot fill an arena of sixteen largest blocks, so
it starts a second time next to a tenant, a thread of the past that was given
all of them but the last and keeps them (`TenantStart`, `TenantStays`): searches
jump, wrap and return NULL there. A search at another size would pass every
block of the tenant, and is left to the empty arena. In `benchmarks` the arena holds fewer blocks than the two workers ask
for, and the iteration counts leave a remainder when divided by the size;
`CO_ITERATIONS = 2` lets a chunk that was refused once be released and asked for
again, and 4, which takes too long to run every time, passes as well.

`CHECK_DEADLOCK FALSE` where the system may stop: the process aborts (lock-free
builds after a failed assertion), the calls are used up (`malloc`), or the
program has ended (`benchmarks`). `sl`, `bunch_sl` and `buddy_sl` check it.

### What the violations show

1. **`overlap`** (1lvl, two threads). The CAS of `unmark` succeeds on a word that
   was changed and changed back. A rollback leaves a coalescing bit beside an
   occupied branch (the comment on `unmark` allows it); a later release in the
   brother is therefore not stopped there, and sets again, further up, the bit
   another thread's `unmark` is about to clear together with the occupancy bit.
   The branch above a held block is lost and an overlapping block is handed out.
   Two threads need more than three levels for it (run `nb`). Three threads do
   not: with `NUM_LEVELS = 3`, three threads and `Targets = {1, 2, 4, 5}` in the
   same `.cfg` the bit `unmark` finds may belong to a third release that has
   since marked the branch. The assertion of line 417,
   `assert(tree[n].val == OCCUPY_BLOCK)`, needs less: two threads on three
   levels make it fail, when a release that is still marking comes late and
   marks the word of a block that has been allocated above it meanwhile, and
   that block is then released. `NoAbort` is therefore a property of the
   blocking build, and `LockFree` in run `nb` speaks of behaviours in which no
   assertion has failed.
2. **`search`** (1lvl, one thread is enough). A search that starts in the middle
   of a level, in an arena held as one block, wraps for ever.
3. **`bunch_overlap`** (4lvl, two threads). The CAS of `smarca` succeeds on a
   word that was changed and changed back.
4. **`bunch_leftover`** (4lvl, two threads). After a failed CAS `smarca` retries
   with a `p_pos` that its inner walk has moved, and occupancy bits are left in
   the word of the root bunch when everything has been released.

The lock closes the first: run `sl`, and the theorems on the blocking build.

## Fairness

`NBTree` assumes none. Its property `LockFree` has the assumption inside: as
long as one thread, any one, keeps making steps, operations complete again and
again, even if every other thread is stopped for ever in the middle of an
operation. Fairness of every thread would only say that threads do not undo
each other's work in a circle, and a lock would satisfy it, too; the blocking
build violates `LockFree`, as its lock holder may be the one that is stopped.

`NBMalloc!MallocFairSpec`: weak fairness of each thread's own steps once it is
inside a call: the scheduler runs every thread, and no step of the lock-free
build waits. Starting a call is never required. `BuddySL!FairSpec`: the running
call keeps running.

`Benchmarks!FairSpec`: every thread and the main thread are scheduled, but in the
user build a request that is not granted need not return: `bd_xx_malloc` of the
lock-free builds may search for ever in a full arena (run `search`), and the
programs run on these allocators. A request for which a region stays free is
assumed to return. `EveryRunEnds` therefore says that a run ends or that some
worker is for ever in a request for which the arena has no room; without the
second case it is false (two workers of linux-scalability that hold what the
other waits for). Nothing is required of the kernel module, which may be loaded
late, half, or never.

## Proofs

Theorems hold for every value of the constants that satisfies the modules' named
assumptions. `LevelsAssumption`, `TreeAssumption`, `BunchAssumption`,
`MallocAssumption`, `BuddySLAssumption`, `BenchmarkAssumption` and
`KernelAssumption` say what the constants are (levels and order are naturals in
range, the owner value is no thread, targets are allocable nodes, byte counts fit
in the 31 bits that `upper_power_of_two` and the `unsigned` of a request leave).
`MIN_ALLOCABLE_BYTES >= 4` of `BuddySLAssumption` is what the code needs: with
less, the size that `bd_xx_malloc` computes for a request of 0 bytes is not above
every size of the tree, and the call would not return NULL. `NullAssumption` says
that NULL is no region. The provers know of powers only their values at given
numbers, so `PowersAssumption`, `BytePowersAssumption`, `BuddyPowersAssumption`
and `BenchmarkPowersAssumption` give the one law 2^(k+1) = 2 * 2^k at the
exponents in use; everything else about powers (they are positive, grow,
multiply, are even, where two multiples of them may overlap) is proved from it.

### The 1lvl tree

Both builds (`NBTreeProofs`, parts 1 to 3):

* `TypeCorrect`: `Spec => []TypeOK`. The locals need more than their types: a
  climbing thread is at a node that has a parent, so the inductive invariant
  also says where `cur` may be at each label, and node 0 takes part because the
  code's climbs may step to it.
* `OneOwnerAlways`: `Spec => []OneOwner`. A node is owned by a caller (`held`),
  by a thread that has just taken it, or by one that is rolling it back or
  releasing it; the owners are disjoint and an owned word has its busy bit. The
  step that matters is that no climb, mark or unmark of another thread removes a
  busy bit or sets one: a CAS of theirs writes a word computed from what they
  read, which had the same busy bit. The invariant therefore carries what `seen`
  may hold. It follows that no two callers are ever given the same node, in the
  lock-free build too. Overlap of different nodes is exactly what run `overlap`
  refutes.
* `OnlyOwnerFreesAlways`: the action property, from the same invariant.

The blocking build (every theorem assumes `BD_SPIN_LOCK`): `NoOverlapBlocking`,
`TreeReflectsHeldBlocking`, `NoAbortBlocking`, `RefusalJustifiedBlocking`,
`HeldBranchMarkedBlocking`, `BlockingImplementsBlocks`. They follow from one
invariant, `SLInv`. By `LockInv`, one thread is inside an operation and the
others touch nothing; between operations every word is `ExactWord`, the word that
the held blocks define; and for each location of the thread inside,
`OperationInv` says how the tree differs from that:

* climbing: the branch of the target is marked up to the level reached, as if
  the target were held, and exact above it; nothing held overlaps the target as
  far up as that level;
* marking: the words between the target and the level reached also have the
  coalescing bit of the branch; marking stops at the first ancestor whose other
  half is in use, so afterwards a node is coalescing exactly if nothing else
  below it is held;
* releasing, then unmarking: the branch is cleaned up to the level reached, as
  if the target were not held.

The rollback of a refused allocation is the same release bounded by a level
below the block that refused it. `TypeCorrect` and the lock alone do not give
this: `unmark` trusts the coalescing bits it finds, and only with the exact
words of the rest of the branch can it be shown that they are its own. The
step lemmas are one per action of `Next`. `TreeFacts` proves what is needed of
levels and paths (`PathFacts`, `LevelFacts`, `PathLinear`, by induction over
finite sets of indexes, as the library's induction over naturals takes an
operator parameter), and the first part of `NBTreeProofs` how `ExactWord` changes
at each node of a branch when a block is added to or taken from a set
(`WordAdded`, `WordRemoved`).

`RefusalJustified` says more than that something overlaps the node `alloc`
names. The caller does not try again any node below that one, so the block that
overlaps must cover the node asked for and each of the nodes skipped
(`NoRoomFor`): an ancestor is named only if it is busy itself, and it is then
held. In the blocking build the second read of `FreeCheck` always agrees with
the first (`NothingAbandoned`, part of `SLInv`).

### The 4lvl bunches

`NB4LvlProofs`, both builds:

* `TypeCorrect`. What is not obvious is that every climb stays on the branch of
  its target at a bunch above which there still is one that can be allocated
  (`OnBranch`), and that `p_pos`, wherever `smarca`'s walk leaves it, is in 0 to
  15.
* `BottomDisjointAlways`, `BottomExactAlways`. Climbs, marks and cleaning only
  write the bunch above another one (`UpOneBunch`), so the word of a bottom bunch
  is written by the CAS of `alloc` and by `libera_container` alone. The invariant
  says that this word is `WordOf` the positions of its owned nodes, that these
  positions are apart, and that each owner is alone. The first part of the module
  has the algebra: a position is found allocable exactly if it is apart from all
  positions of the word (`AllocableInWord`); `occupa_container` adds one
  (`WordOccupied`); `libera_container` takes one out, and its walk up, stopped at
  busy brothers, leaves the marks of all others (`WordFreed`); and positions are
  apart exactly if their nodes are (`PathInBunch`, `OverlapAtPosition`, for trees
  that end within a bunch too). The two findings on this protocol
  (`bunch_overlap`, `bunch_leftover`) are about the bunches above.

The blocking build (every theorem assumes `BD_SPIN_LOCK`):
`TreeReflectsHeldBlocking`, `NoOverlapBlocking`, `RefusalJustifiedBlocking`,
`BlockingImplementsBlocks`, from one invariant, `SLInv`. It has three layers.

* Words. A block below a bunch leaves its trace in the word at a `Spot`: its
  position if it lies in the bunch, otherwise the half of the leaf above the
  bunch it lies in or below. `Word(Q, K)` is the word of the spots `Q` with
  coalescing bits at `K`. Each macro of the code is then one operation on the
  two sets: `occupa_container` adds a position (`WordTakes`), `check_parent` adds
  a half and takes its coalescing bit (`WordMarks`), `marca` adds to `K`
  (`WordCoalesces`), `libera_container` and `smarca` take a spot out, and their
  walk reaches the root of the bunch exactly if no other spot is left
  (`WordReleases`, `WordCleans`). `ExactWord` is `Word` of the spots without
  coalescing bits (`ExactWordSpots`).
* Bunches. Between operations each word shows the spots of the held blocks and
  coalescing bits only beside them (`Shows`). That alone is not inductive. A
  release stopped by a busy brother leaves its coalescing bits behind, and the
  next `marca` that meets one stops there; `smarca` later climbs as long as it
  finds the bits. So the marks have to be linked: if all bits of a bunch are
  marked for release, the leaf above it is marked, too (`Linked`). Then the bit
  at which `marca` stops vouches for those above it, and a `smarca` that
  empties a bunch finds the next bit set.
* Operations. `OperationInv` says for each location where the tree departs from
  that: during a climb the branch of the target shows it up to the bunch reached;
  during a release up to level `u` (the top, or where a climb was refused) the
  target is still shown in the bunches `marca` and `smarca` have not come to,
  and the bunch `marca` has reached may lack its link. One lemma per action of
  `Next` carries it over (`AllocStartTree` to `FreeReturnTree`).

That `smarca`'s walk past the root of a bunch is never entered under the lock
(`NeverEndless`) is part of it.

### The malloc layer

`MallocFacts` is about `MallocLayer` alone, whichever protocol is below: what a
request is rounded to and which nodes serve it (`RoundedIsBlockSize`), that a
region and its size determine the node, that regions overlap exactly if nodes do,
and that the first leaf of a node, where `free_tree` is indexed, is in one of two
disjoint blocks at most. `NBMallocProofs` and `NB4MallocProofs` compose it; their
theorems assume `Allocable \subseteq Targets`, that the tree's callers may ask for
every node a request can lead to.

* `MallocDrivesTree`: `MallocSpec => Spec`. The composition uses the protocol as
  its module says callers do, so all its theorems hold below malloc.
* `MallocTypeCorrect`, `SearchStaysInLevelAlways`, `NullAfterAllCheckedAlways`,
  for any number of threads, over both protocols. The search invariant is that
  every node between `started_at` and `actual`, in the order of the search, lies
  below a node in `checked` or is one; a jump behind `failed_at` passes only nodes
  below it. That needs `failed_at` to be on the branch of the node tried, which the
  invariant of the protocol gives (`WalkInv`).
* Over 1lvl, `LayerFindsBlocks` and `LayerImplementsAllocator`: in either build,
  as long as the tree hands out disjoint blocks (`[]NoOverlap`), a release finds
  the block of its address and the callers see `Allocator`. The step that matters
  is that the table entry written by a malloc is not the entry of a region still
  given. In the blocking build the hypothesis is a theorem, hence
  `FreeFindsBlockBlocking` and `BlockingImplementsAllocator`: malloc and free of
  1lvl-sl are a buddy allocator, for any number of threads, heights and requests.
* Over 4lvl the same, from the hypothesis that an allocation about to return
  overlaps nothing held (`[]GrantsFree`). It is stronger than `NoOverlap`: nothing
  proved of the lock-free bunches excludes that a held node is granted again,
  which a set of held nodes would not show. 4lvl-sl satisfies it, hence
  `FreeFindsBlockBlocking` and `BlockingImplementsAllocator` there, too.

### buddy-sl

`BuddySLProofs`, for every height and cell size: `TypeCorrect`, `NoAbortAlways`
(none of the three assertions of `bd_bd_free` fails), `TreeIsExactAlways`,
`NullJustifiedAlways`, `FirstFitAlways`, `ImplementsAllocatorAlways` and
`InspectionExactAlways`. The invariant `BuddyInv` says per location how the tree
relates to the regions given:

* the walk down keeps its target: a free node of the wanted size below `index`,
  and none of a lower address anywhere else;
* splitting and climbing: the nodes split on the way are free, and exact
  otherwise;
* marking: the block is taken, and the nodes above `runner` do not show it yet;
* a release: the nodes from the block to the root are exact for the regions with
  the block, then without it, up to `index`.

`NullJustified` says that NULL is returned only for a request that exceeds the
arena, or when no aligned region of its size is free. It is false of a request
for 0 bytes: lines 118-119 raise it to 1, and `test_alloc(0)` in
`allocators/buddy-sl/test.c` expects a block, but line 121 computes the size from
`s - 1` with the `s` that was not raised, the subtraction wraps, and the call
returns NULL from an empty arena. With 0 in `Requests` run `buddy_sl` shows this
at once. The run leaves 0 out, and `NullJustifiedAlways` assumes
`0 \notin Requests`; no other theorem does. Its invariant also carries that `size`
is the number of cells `request` needs (`AskInv`).

Both walks depend on the geometry of the tree, which is proved first: a row of
nodes fills the arena without gaps (`RowsFill`), the region of a node is inside
those of its ancestors and apart from all others (`Nested`, `AboveStep`).

`InspectionExactAlways` needs no more than the exact tree. The turns of the loop
of `buddy_size` and the calls of `_dump` are functions on `0 .. max_level`, and
that such a function is what its equation says is proved by its least bad argument
(`TurnsExist`, `CallsExist`). The node `buddy_size` is at always has the cell it
was asked for, so it stops at the region given there; the calls of `_dump` are the
nodes below nothing used or unused, which are those the tree is exact at.

### Benchmarks and kernel module

`BenchmarksProofs`: `ModuleRestoresTable`, `KernelSpec => []TableRestored`, for
every table and every set of unused entries. Outside the entries found the table
is the original; those found were unused, so `cleanup_module`, which stores
`sys_ni_syscall` there one by one, restores them; a scan of a restored table
finds the same entries. That the scan finds four different ones needs at
least four unused entries (`FourFound`). With fewer, `restore[]` keeps 0 or -1:
the code writes over entry 0 and the word before the table and never puts them
back. The property then says that nothing else is lost, and the invariant
(`RestoreInv`) carries the words that may be (`Lost`).

On `Benchmarks`, for any number of workers, sizes and iterations: `TypeCorrect`
(the indexes of the slots stay in the arrays of the four programs),
`RegionsOwnedAlways` (the regions given are exactly those in the workers' arrays,
each in one place), `CrashesJustifiedAlways` (a program crashes only by its
division by zero, or by releasing a chunk it never got, and a kernel program calls
something else only if the module took other entries than the fixed numbers) and
`TableRestoredAlways`. They rest on one invariant of the worker (`WorkerInv`), which
says for each program and loop which places are filled.

`ReportAddsUpAlways` rests on a second one, `ReportInv`. A slot below `pcount` is
the slot of exactly one worker and every other slot is zero (`SlotsInv`), so an
increment disturbs the count of nobody else (`CountStep`). At each point of its
loop a worker has tried what its loop counters say, and it has counted in, and not
yet out, the blocks at its live places (`CountInv`): a burst fills and empties
`Live(t)` one by one (`BurstMallocLive`, `BurstReleaseLive`). At the report
every slot is taken (`EverySlotTaken`). That the totals stay within what was
announced takes two facts more: a loop rounded down to whole pages, or to a share of
the threads, never exceeds the announced number (`LoopNumbers`), and a bound on
every slot bounds the sums (`TotalsBounded`).

### Model-checked only

* Liveness (`LockFree`, `OperationEnds`, `EveryRunEnds`): the proofs need
  fairness and ENABLED.
* What the lock-free build of `NBTree` promises to two threads on three levels
  (`HeldBranchMarked`, the refinement). It is false of two threads
  on five levels (run `overlap`), so no theorem states it for every height.
* `FreeFindsBlock` and `AllocatorSteps` over the lock-free bunches of two threads,
  on the heights of run `bunch_malloc`. The protocol alone is refuted with two
  threads on a taller tree (run `bunch_overlap`).

## Not modelled

* The phases of `init` between callers, `destroy`, failing `mmap` and `malloc`:
  the constructor makes the only call of `init`, before any thread, and
  `destroy` has no caller.
* 4lvl arenas smaller than `MAX_ALLOCABLE_BYTES`, or whose largest block is in
  the root bunch (`BunchAssumption`): the default configuration has neither.
* `rmmod` while a call runs in the module's code.
* `buddy_delete`, the DEBUG statistics: no caller, no effect on the allocation
  state.
* Timers, random numbers (a nondeterministic choice), CPU detection, scripts.
* Weak memory: x86-64 orders the plain store of a release before the CAS that
  follows, which is locked; the models are sequentially consistent.

## Plan

Done: `BuddyTree`, `BlockAllocator`, `NBTree` and its runs, `NBMalloc`, `NB4Lvl`,
`BuddySL`, `Benchmarks`; the malloc layer shared by both allocators,
`KernelModule`, the kernel build of the benchmarks, the inspection functions of
buddy-sl; the proofs of `NBTree` and `NB4Lvl`, both builds,
of the malloc layer over both, of `BuddySL` and of `Benchmarks`.

Next:

* For two threads on the lock-free 1lvl tree: whether four levels are still
  safe for every set of blocks (the sets tried so far are).
