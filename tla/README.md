# Verification of the ComputerStructures simulators

The repository holds four independent programs written for a computer architecture course: a branch predictor (HW1), a
two-level cache (HW2, in four versions), a dataflow analyser (HW3) and a multithreaded core (HW4). Each reads a text
file, simulates, and prints a report. They share no code and no state. This directory holds TLA+ models of all of them,
the TLC configurations that check the models on small instances, and TLAPS proofs, for every instance, about the
scheduling loops of HW4 and the driver that runs them, the branch predictor, the cache of `cacheSim.cpp` and what it and
the other cache simulators implement, and the dataflow analyser with the program around it.

## Inventory

| Component | State | Operations | Hard part | What makes it correct |
|---|---|---|---|---|
| HW4 scheduling loops, `core_api.cpp` | `Core`, `Thread[]`: cycle and instruction counters, round-robin index, `rip`, `return_cycle`, registers; the loops' `halt_count` and `idle_count` | `CORE_FinegrainedMT`, `CORE_BlockedMT`, `EXECUTE_inst` | threads interleave by an index and a count that several branches reset; a halted thread is only a large number | the policy is round robin, or switch on wait; no lost cycle while a thread can run; latencies charged in full; nothing after HALT; the loop ends exactly when all threads have halted |
| HW4 memory, `sim_api.c` | `instructions[][]`, `data[]`, parameters | `SIM_MemReset`, `SIM_MemDataRead/Write`, `SIM_MemInstRead` | four loops over one line buffer; allocation size | an image is loaded line by line where it says |
| HW4 driver, `main.c` | the register files and CPI it prints | two simulations and two reports over one memory | the second starts on what the first stored; the CPI call deletes the threads | both reports agree whenever loads see no store |
| HW2 `cacheSim.cpp` | two levels of ways x sets, entries with valid, dirty, tag and time; `pseudo_cycle`; counters | `cacheRead`, `cacheWrite` | inclusion, dirty victims, LRU by timestamps, an entry found and used after others moved | an inclusive write-back LRU hierarchy that loses no write |
| HW2 `cacheSimRoy.cpp`, `cacheSimShellyold.cpp` | two levels of sets of ways with a rank each | one access per trace line | ranks renumbered on use, insertion and eviction | ranks number the valid ways without hole or repetition, and order them as LRU does |
| HW2 `cacheSimShelly.cpp` | per set an array of tags and states and, next to it, a list of blocks | `calc_operation` | two records of one fact; an uninitialised index | both records agree and the list is the LRU order |
| HW3 `dflow_main.c` | latencies, the growing buffer of instructions | two readers, the query loop | growth at a multiple of the quota; comments longer than the line buffer | the program analysed is the one in the file |
| HW3 `dflow_calc.cpp` | nodes with two dependencies and a depth, last writer of each register, exit nodes | `analyzeProg` and three queries | depths computed by a memoised recursion from exit nodes only | dependencies, depths and answers follow from the definition of a dependency chain |
| HW1 `bp.cpp` | BTB entries with tag, target, history and counter table; global history and table; counters | `BP_init`, `BP_predict`, `BP_update`, `BP_GetStats` | aliasing, eviction, local or global history and tables, order of training and shifting | every prediction is the one the trace so far calls for |

The components call each other only inside one program: `main.c` calls the memory and then both loops; the loops call
`EXECUTE_inst`, which calls the memory; `bp_main.c` carries a prediction from `BP_predict` to `BP_update`; `dflow_main.c`
queries the context `analyzeProg` returned. There is no real concurrency: the hard behaviours are simulated interleaving,
order of updates, stale entries, counters at their limit, and undefined reads. `PROJECT.json` lists the hazards with
their lines and the properties that would catch them; where a premise or a bound keeps the case out of every property
(lines out of layout in an image, the wrap of `pseudo_cycle`, the unset `set` of `changeToX`, depths past an `int`), it
names no property and says why.

## Modules

| Module | Models | Correspondence |
|---|---|---|
| `CoreISA` | the instruction set and the word memory | operators `RegsAfter`, `DataAfter` are the switch of `EXECUTE_inst`; `Alone` runs a program without other threads and is a reference, not code |
| `MTCore` | `Core`, `Thread`, `CORE_init`, `EXECUTE_inst`, `SIM_MemInstRead` | one variable per field; `EXECUTE_inst` is one operator used by both loops |
| `FinegrainedMT` | `CORE_FinegrainedMT` | one action per path through the loop body: `Execute`, `Skip`, `IdleCycle`, `Finished` |
| `BlockedMT` | `CORE_BlockedMT` | `loop` says which of the nested loops runs; one action per path: `Execute`, `StartScan`, `ScanNext`, `SwitchContext`, `IdleCycle` |
| `MTPolicy` | the two scheduling policies, abstractly | one step per simulated event: issue, switch, lost cycle; no index, scan or sentinel |
| `SimMain` | `main.c` | extends both loops; between and after them one `CTX` call per thread and the `CORE_CPI` call, which sets `freed`; the image may be missing |
| `MemImage` | `SIM_MemReset` | `loop` says which loop runs (the parameters, the outer loop, a code block, a data block), `line` what is in the shared buffer, `index` is `inst` or `data_i` |
| `CacheLevel`, `CacheSim` | `CacheLevel`, `Cache` of `cacheSim.cpp` | one operator per method on the value of a cache, one action per access with every call it makes |
| `RankedCache` | `cacheSimRoy.cpp` | the same, with a rank in each way; `cacheSimShellyold.cpp` is the same program but for a blank line |
| `VectorCache` | `cacheSimShelly.cpp` | the same, with `data` and `LRU_vector`; `set` is the value the uninitialised variable of `changeToX` happens to have |
| `LRUHierarchy` | the hierarchy, abstractly | each level is the order in which the blocks of each set were last used, a set of pairs; no way, tag, rank or clock; `victimFirst` is the one point where the programs differ |
| `CacheSims` | either alternative next to the hierarchy, on one trace | one action per program, an access of both |
| `DataFlow` | `dflow_calc.cpp` | `Construct` is the call of `analyzeProg`; one action per iteration of the two loops of `InitData`, one per query |
| `DflowMain` | `dflow_main.c`, extending `DataFlow` | `readOpsLatency`, one action per kind of program line, the call of `analyzeProg`, the queries, every exit with its code |
| `BranchPredictor` | `bp.cpp` and the loop of `bp_main.c` | one action per API call; `pending` is the `dst` main holds between two calls |
| `*_proofs` | theorems about the module they are named after; `MTLoops_proofs`: `MTCore` and both loops; `CacheSims_proofs`: `LRUHierarchy` too; `Induction_proofs`: recursive functions | see Proofs |

The `MC*` modules only give constants their values. Definitions introduced by "Faulty variant" are deliberate mistakes
next to the definition they stand in for; `PROJECT.json` pairs each with the property that catches it. `LRUHierarchy` is a
reference: `PROJECT.json` maps it to the lines of `cacheSim.cpp` whose outcome it states, which `CacheSim` translates, and
what ties it to the code is `ImplementsLRU` and the theorem `ImplementsLRUCorrect`.

What is abstracted: the text of lines and reports; byte offsets inside a cache block; in `MemImage`, instruction names
and operands (a line is known by its kind and its position); in `DflowMain`, the text of a line (it is known by the
instruction it holds, or as blank, malformed or a comment); registers and memory words in HW4 have few indices but real
integer values (`CoreISA` states when the arithmetic wraps). Counters of HW4 and of the cache wrap at `UintMax`.

Where the code is undefined the models stop or choose. A code line without an instruction name, a block past its
allocation (`MemImage`), a line with a register or opcode out of range (`WILD` in `DflowMain`) and an unmasked history
used as an index (`BranchPredictor`) end in a stage or loop called "undefined". `changeToX` of `cacheSimShelly.cpp` writes
through a set number it never assigned: `VectorCache` takes any number, and after a wrong one `CacheSims` follows the
program no further (`lucky`). An optimised build of that program does crash there. The two models of the alternative
simulators were compared with the compiled programs on 400 random traces, and agreed on all of them.

## Runs

| Run | Question | Bounds, and why they are enough |
|---|---|---|
| `finegrained`, `blocked` | Does each loop keep its bookkeeping, charge latencies, hide the schedule from race-free threads, implement its policy and end? | three threads, the least for which a scan passes more than one and starts elsewhere than at 0; every combination of five programs per thread (private and shared words, register addressing, no memory, back-to-back loads, immediate HALT), latencies 0, 2, 3 (shorter, equal and longer than a round), overheads 0, 1, 3 in the blocked run (the fine-grained loop has no overhead). Programs have no branches, so every run is explored to its end. The count of live threads and the charged latencies (`HaltCountExact`, `LatencyCharged`) are checked in the fine-grained run; both loops share the code of `MTCore`. |
| `simmain` | What do the two reports have in common? | two threads, all program combinations, from the image to the exit |
| `wrap` (violation) | Is HALT a sentinel at every cycle? | counters of four bits |
| `memimage` | Is an image loaded where it says? | all files of at most eight lines, two of them before the number of threads: one or two threads with a block each, a data block and the blank lines between, blocks at capacity and one over, parameters given twice |
| `memlost`, `memlong` (violations) | Are adjacent sections, and long programs, loaded? | seven lines, one before the number of threads |
| `cachesim` | Does the simulator implement the abstract hierarchy? | every trace of five accesses to five blocks under three values of the write policy; three blocks compete for two ways of one L2 set, so victims in L2 that are dirty in L1, write-backs and re-reads all occur |
| `simulators` | Is the hierarchy coherent, does it keep writes, and do the two other programs implement it? | complete for traces of any length, because everything is finite: five blocks, two ways and two sets in L1, two ways and four sets in L2; three blocks share a set of both levels, one its L1 set only |
| `predictor` | Is every prediction the one the trace calls for? | all twelve configurations, four addresses such that one pair shares entry and tag, one pair shares the entry only, one is elsewhere, and the shared bits differ; four branches, enough to train a counter, evict, and come back |
| `predictor_wild` (violation) | Is a history always an index of the tables? | two branches |
| `dataflow` | Is the program analysed the one in the file, and are dependencies, exit nodes, depths and answers those of the definition? | five files of latencies (complete, short, too long, with a blank line, malformed); every program file of at most four lines and three instructions over two opcodes and two registers: chains, forks and rejoining chains, an instruction that reads what it writes, comments and blank lines in any place; a buffer that grows by two, so the third instruction makes it grow again |

Several properties compare the code with a reference written differently from it. `PredictionExact` looks back through
the log of branches and keeps no table: which updates belong to the entry's present owner, which of them, or of all
branches, trained the counter under the key in use, and where those leave a counter of two bits. `AnswersExact` enumerates the dependency chains. `ProgramRead`
compares the buffer with the list of instructions on the lines read. `ScheduleInvisible` runs each thread alone.
`SecondRunSeesFirst` runs it alone a second time over its own results, for threads that are race-free in both simulations
(`RaceFreeTwice`): what a thread computes the second time, addresses included, differs from the first. `ImplementsRoundRobin`, `ImplementsBlocked` and
`ImplementsLRU` are refinements: the abstract specification, under a mapping, as a property. `RankedMatches` and
`VectorMatches` say the same of the other two cache simulators, side by side with the abstract machine.

The mappings: for the fine-grained loop the last issuer is `idle_count + 1` places before `rr_index`; for the blocked
loop the thread on the core is `idle_count` places before it while the scan runs; a halted thread has no ready cycle, so
the sentinel disappears (`ReadyAt`, `HaltedThreads`); for the cache the valid entries of each set are ordered by their
stamps, for `RankedCache` by their ranks, and for `VectorCache` by their places in the list.

What the comparison of the cache simulators shows: `cacheSim.cpp` and `cacheSimRoy.cpp` touch blocks in the same order;
`cacheSimShelly.cpp` uses the dirty block leaving L1 before the block that was hit in L2, so its L2 victims differ
(`victimFirst`). The dirty bits `cacheSimShelly.cpp` keeps in L2 are read by nothing, and are compared with nothing. The
three programs treat values of `--wr-alloc` other than 0 and 1 differently; `simulators` uses these two, `cachesim` a third
as well.

Fairness: `AllThreadsHalt` assumes weak fairness of the next-state relation of the loop. The loops are sequential code in
one process that waits for nothing, so as long as the program runs its next step is taken. No property assumes
fairness of one action over another: at every state of a loop only one path is enabled.

`CHECK_DEADLOCK FALSE` appears where the program stops: after the statistics of HW1, and at the end of an image or after
undefined behaviour. The other modules have an explicit final step where they stop, so deadlock is checked there.

### What the violations show

- `wrap` (`core_api.cpp:232`): UINT32_MAX marks a halted thread, yet the counter reaches it; from there a thread executes
  past its HALT. The theorems about HALT carry the premise that excludes this.
- `predictor_wild` (`bp.cpp:167`): the global history register is never initialised and is used as an index before it is
  masked. With a heap that is not zero (`MALLOC_PERTURB_=90`) the program crashes on the first branch.
- `memlong` (`sim_api.c:200`): the buffer of a thread has the size of 100 pointers, which is 40 instructions.
  `tests/test1.img` has programs of up to 68; an address-sanitized build stops on it.
- `memlost` (`sim_api.c:220`): a `D@` line right after an instruction ends the inner loop and is then overwritten, so its
  words are lost. The images in the repository all put a comment line there.

One more limit was met and is not a run: depths in HW3 are sums in an `int`. Three chained instructions of latency
2147483647 print `Error -2 for getDepDepth(2)`, the answer of an invalid index. `Int32` in `DataFlow` states the wrap; the
runs stay below it. And a comment longer than the line buffer of `dflow_main.c` comes back from `fgets` in pieces, of
which only the first is skipped; `cut` marks the programs this happened to, and `ProgramRead` claims nothing of them.
`fgets` splits an overlong instruction line in the same way; the model has each instruction on one line that fits.

## Proofs

Every theorem holds for all values of the constants that satisfy the named assumptions of the module. A premise a theorem
adds is named in its statement and listed here; each excludes a counter or an `int` running over, and a run or the source
shows what happens then.

### Recursive definitions

Many references are functions defined by recursion over a program, a trace or a chain, and the library's induction
theorems take the property as an operator, which the provers cannot instantiate. `Induction_proofs` states induction with
the property as a set: a set of numbers that holds 0 and the successor of each of its elements holds all of them
(`Induction`, `InductionTo`, `Upward`, `Downward`, from `LeastNumber`). A proof defines its set and cites the theorem. Twice
per recursive function this is needed: once for the existence of a function that obeys the recursion (the `...Unfold`
lemmas), once for what it computes. The module also has the lemmas about sums over the threads.

### HW4: the loops

`MTLoops_proofs` starts with the lemmas both loops need: what `Uint` returns, that `CORE_init` is well typed, that
`EXECUTE_inst` keeps types, what it does to the set of halted threads, to what a thread has spent and to what it computes,
and what a policy sees of it. It assumes only what the modules declare: at least one thread, natural latencies, well-typed
programs each with a HALT, a counter width that is positive.

Fine-grained loop:

- `TypeCorrect`: `FinegrainedSpec => []TypeOK`.
- `IdleScanCorrect`: the `idle_count` threads before `rr_index` are waiting. It is inductive with `TypeOK`: `Skip` adds the
  thread just looked at and moves the index, every other step empties the count. The step uses arithmetic modulo the
  number of threads.
- `WorkConservation`: a cycle passes without an instruction only when no thread can run. At `IdleCycle` the count is one
  short of a full round; with the thread at `rr_index` that is every thread, which `IdleScan` gives.
- `NothingAfterHalt`, `HaltCountCorrect`: `FinegrainedSpec /\ []CyclesFit => []NeverPastHalt` and `[]HaltCountExact`. Neither is
  inductive: nothing in them says why a halted thread is not run. The strengthening `HaltInv` adds `SentinelExact`: a
  return cycle is UINT32_MAX exactly if the thread has halted. `CyclesFit` (the counter stays a latency away from
  UINT32_MAX) is needed, as `wrap` shows.
- `LatencyCorrect`: a thread waits its latencies in full. `LatencyCharged` speaks of a thread that is available;
  the inductive `ChargedInv` says of every running thread that what it has spent is past, or will be at its return cycle.
- `ScheduleInvisibleCorrect`: a race-free thread computes what it would alone. The registers depend on memory, so `SchedInv`
  adds that every word the thread touches holds what the thread would find there alone; a store of another thread is to
  none of these words.

Blocked loop (same module): `BlockedTypeCorrect`, `ScanCorrect` (the inner scan has passed waiting threads only),
`SwitchCorrect` (the core changes thread only from one that waits to one that does not, and loses a cycle only when all
wait), `HaltCorrect`, `BlockedLatencyCorrect` and `BlockedScheduleInvisibleCorrect`, from the same invariants.

The refinements, in the same module: `ImplementsRoundRobinSafely` and `ImplementsBlockedSafely` prove the initial
condition and the step of `ImplementsRoundRobin` and `ImplementsBlocked` for every instance. Below the sentinel, "ready" of
the policy is "available" of the loop (`ReadyIsAvailable`). The scan invariant says that the threads the cyclic order puts
between the last issuer and the one chosen all wait, so the one chosen is the first ready one (`ScanOrder`); the steps of
the scan leave the mapped last issuer where it was; a lost cycle comes after a full round, while `HaltCountExact` says that
somebody is still to halt. Both carry `CyclesFit`, the blocked one and `BlockedLatencyCorrect` also that a switch does not take
the counter past its end (`CounterFits`): without it the abstract clock, which has no last cycle, and the counter part.

### HW4: the driver

`SimMain_proofs`, where both loops run one after the other:

- `PrintedRegistersAgreeCorrect`: `LoadedInv` says that as long as loads see no store, what is loaded is the image, in either
  simulation, so every thread is where it would be alone on the image.
- `SameInstructionsCorrect`: `CountInv` makes the instruction counter the sum of how far the threads are; at the end of a
  loop each is at its HALT. `SwitchFits` keeps the cycle counter from wrapping at a switch.
- `SecondRunSeesFirstCorrect`: `SecondInv` is `SchedInv` over the memory each simulation starts from. Being race-free in the
  first simulation is not enough: addresses are computed from what is loaded, so a thread may reach other words the second
  time. The property therefore says `RaceFreeTwice`.

### HW4: the image reader

`MemImage_proofs`: `TypeCorrect` and `ImageLoadedCorrect`, without a premise. `ImageLoaded` speaks of the end of the file, so
the invariant `ImageInv` says of every prefix what it means to be loaded so far. A layout that is right is right in each
prefix (`GoodPrefix`), so a step may take it for granted. Until the number of threads is read, nothing is stored and each
parameter is that of its last line. From then on (`Loaded`) the first lines of the file, all of them in the outer loop and
all but the one in the buffer inside a block, are in their cells: cell n of a thread holds the instruction of that thread
with n others before it (`Filled`). Inside a block, `index` is the number of the lines stored of the thread or of the data,
and the last stored line is of the block or its location line; so the line in the buffer belongs to the block or ends it
(`CodeLine`, `DataLine`), which is why no step is undefined. A block starts with nothing stored because a thread has one
block and the data have one (`NewCode`, `NewData`).

### HW1: the branch predictor

`BranchPredictor_proofs`. `TypeCorrect` says that a valid entry has all its fields initialised and that every counter stays
in its four states. The entry an update works on may be stale, reset or new; `EntryForUpdateType` covers the three.
`IndependenceCorrect` proves `EntriesIndependent`. Both rest on `PowersAssumption`, that the powers of two the code shifts by
are positive, because the provers know nothing of exponents but their type; TLC evaluates it.

`PredictionCorrect` and `FlushesCorrect` have no premise. The inductive invariant is `BPInv`: an entry hits exactly if the
log has updates of the branch since its entry last changed hands; its target is that of the last of them, its history
their newest outcomes, and under each history its local table has the counter of those that were trained under it; the
global history and table are the same over the whole log. `NextKey` says that the history in use is the key of the next
branch, so `PredictionRight` follows. One update takes all of this to a longer log:

- nothing the reference says of earlier branches changes (`ResidentKept`, `NewestKept`, `KeyKept`, `TrainedKept`,
  `PredictionKept`);
- the residents of an entry gain the branch, stay, or become none (`ResidentNext`);
- the newest outcomes are shifted by one (`NewestNext`, from an argument about the order of a finite set of numbers);
- the counters of one key move by the outcome (`TrainedNext`, `TableNext`).

`CounterAt` used to fold over the training branches in sorted order, an operator the provers know nothing of; it is now
`Trained`, a function of the position in the log.

### HW2: the cache

`CacheSim_proofs`, for every number of ways and sets and every write policy:

- `CoherentCorrect`, `WritesKeptCorrect`: no two ways of a set hold one block, what L1 holds L2 holds, no access goes
  through a null pointer or an entry that is not there, and the dirty blocks are those newer than memory. What a search
  and a change of one entry do is proved once for a level of any size; each operation of the cache (`Sound`, `Good`) is then
  shown to keep the levels sound, with its effect on the blocks and the dirty blocks of each. Premise `TraceFits`: less than
  a third of UINT32_MAX accesses, because the search for the oldest way starts at that time and finds none older than
  an entry stamped with it.
- `TypeCorrect` and `AccountingCorrect`, without the premise. That no rate divides by zero is said of traces with an
  access: an empty one prints `nan` for all three numbers (`cacheSim.cpp:588`).

- `ImplementsLRUCorrect`: `Spec => ImplementsLRU`, under `TraceFits`. The abstract level is a set of pairs, so the mapping
  (`Recency`) compares stamps and sorts nothing. `CacheInv` is joined by `Timed`: two entries of one set never carry the
  same stamp, unless they are the same entry, and none is from the future. Then "least stamp" is "the block all others
  follow", the way an operation stamps becomes the most recent of its set, and each access is the abstract `Read` or `Write`.

To reason about `fetchToL1` and `fetchBlockFromMemory`, the arms of their CASEs were made exclusive: when the victim's way
was NULL two applied, and TLA+ does not say which is taken.

`CacheSims_proofs`, about the abstract hierarchy and the program run beside it, either of the two, for every number of ways and sets
(`LevelSizes`) and any set of block numbers (`BlockNumbers`):

- `HierarchyCorrect`, and with it `CoherentCorrect` and `WritesKeptCorrect`: inductive is `HierarchyInv`, which says of both
  levels that they are orders of finitely many blocks per set (`Level`). What `Use`, `Without` and `Enter` do to an order is
  proved once, for any level; that at most one block leaves (`LeavingOne`) is where the number of ways comes in.
- `RankedMatchesCorrect`: `cacheSimRoy.cpp` against that hierarchy. From small to large: one row of ways (`SoundRow`: its
  ranks are a numbering of its valid ways, its tags differ) under a use, a mark, a drop and an insertion, where renumbering
  is a counting argument; a level (`SoundLevel`), where each of these is one abstract step (`LevelTouch`, `LevelMark`,
  `LevelDrop`, `LevelInsert`); both levels at once (`Holds`), under each function of the program; an access against each
  kind of step of the hierarchy; and `RoyInv`, the invariant. The program's L2 may have more dirty blocks than the hierarchy
  (`Follows`). Premise: `--wr-alloc` is 0 or 1; the program takes any other number for 0, the hierarchy, like
  `cacheSim.cpp`, does not.
- `VectorConsistentCorrect`, `VectorMatchesCorrect`: `cacheSimShelly.cpp` against it, as long as the set `changeToX` never
  assigns is the right one. The program updates the data and the lists in different functions, so inside an access they
  disagree: `State` says of a level which blocks its data hold, which of them dirty, and, apart from that, which order its
  lists are. What each function does to either is proved once for a level of any size: a list copied but for one block keeps
  its order (`AllButRight`, by induction over the list), one entry changes what the data hold (`DataChanged`), and `AddState`
  shows that the block `add` replaces is the one all others follow and that its return value tells whether it was dirty.
  Then both levels (`Both`), where `EnterL1` and `EnterL2` leave data and lists apart and the use that follows brings them
  together again (`Agree`), and `ShellyInv`. Same premise; this program takes any other number for 1.

### HW3: the dataflow analyser

`DflowMain_proofs`:

- `TypeCorrect`: every variable of the analysis stays in its type, whatever the latencies.
- `LinkedCorrect`: `Spec => []LinkedExact`. The property compares dependencies and exit nodes with the last writers and
  readers in the trace; inductive is `LinkInv`, which adds that `regs` holds the last writer of every register among the
  instructions read so far (`TableExact`) and the shape of the tables.
- `ProgDepthCorrect`, `AnswersCorrect`: the properties take the longest of all dependency chains. Cutting a chain's last
  instruction off, or putting one after it, shows that the longest chain obeys the equation `getDepthRecursive` computes by
  (`LongestUnfold`). `MemoInv` says of the table of depths that what it holds is right, that what an instruction depends on
  has a depth when the instruction has, and that the exit nodes passed have theirs. At the end everybody has: downwards from
  the last instruction, one nobody depends on is an exit node, any other was reached from a later one. Premise `DepthsFit`:
  the longest chain fits an `int`; beyond, depths wrap and a depth of -1 is taken for none.
- `ProgramReadCorrect`: `MainSpec => []ProgramRead`. `ReadInv` says that the buffer has room for the entries in use, that
  these are the instructions listed, that no program is analysed before the latencies were read without an error, and
  that the trace under analysis is the buffer decoded.
- `MainImplementsAnalysis`: `MainSpec => Spec`; the program around the analysis is one of its environments, and
  `MainLinkedCorrect` and `MainAnswersCorrect` follow.

### Only model-checked

Liveness and fairness, so the fairness part of the refinements too: `AllThreadsHalt` and the fairness of
`ImplementsRoundRobin` and `ImplementsBlocked`. Every invariant the runs check is also proved.

## Not modelled

Argument and number parsing, printing, debug output (`bp.cpp:396` is left on and writes to standard output), the
theoretical predictor size, deallocation other than that of the thread array, `freeProgCtx`. In HW2 the hit counters and
access times of the alternative simulators, and their `checkIfDirty` and `LRUprint`, which nothing calls. Builds,
binaries, archives, traces. The reading of command lines and trace lines in HW1 and HW2 is text handling with no state of
its own: the models take any sequence of accesses, or branches, instead. Addresses outside the data block and programs
without HALT are excluded by assumption in HW4, cache geometries with no set in HW2: the programs do not check them, and
what follows is undefined.

## Plan

Done, in this order: the HW4 loops and their policies, with proofs; the driver; the cache and its abstraction; the
dataflow analyser, then the program around it, with proofs of linking and reading; the branch predictor, with its type
invariant and the independence of entries; the image reader with its header; the alternative cache simulators; the
refinement theorems of both loops; then induction for recursive definitions and, with it, the theorems about latencies,
schedules, reports, the cache, depths and answers, predictions and flushes; the refinement of the LRU hierarchy; the
hierarchy itself; `cacheSimRoy.cpp` and `cacheSimShelly.cpp` against it; the image
reader.

Next, by importance:

1. A second cache geometry with a direct-mapped L1, and a run of `DataFlow` with a small `IntMax`.
