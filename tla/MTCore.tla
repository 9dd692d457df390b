-------------------------------- MODULE MTCore --------------------------------
(***************************************************************************)
(* What the two multithreading simulations of HW4/core_api.cpp share: the  *)
(* memory simulator they read (sim_api.c), the Core and Thread structures, *)
(* CORE_init and EXECUTE_inst.  BlockedMT and FinegrainedMT add the        *)
(* scheduling loops.                                                       *)
(*                                                                         *)
(* Bounds: programs have no branches, so every run is finite.  UintMax is  *)
(* the scaled-down width of the counters.                                  *)
(***************************************************************************)
EXTENDS CoreISA, FiniteSets

CONSTANTS
  NumThreads,     \* N{x} of the image
  Programs,       \* Programs[t]: the programs thread t may be given
  Image,          \* the data block of the image
  Latencies,      \* the values L{x} and S{x} may take
  Overheads,      \* the values O{x} may take
  Uninitialised   \* what instruction memory that was never written may hold

Threads == 0 .. NumThreads - 1

(* Sources of every number: the image has at least one thread, and every   *)
(* thread's program ends, at the latest, in a HALT.                        *)
ASSUME ThreadsAssumption == NumThreads \in Nat \ {0}
ASSUME LatencyAssumption == Latencies \subseteq Nat /\ Overheads \subseteq Nat
ASSUME ImageAssumption   == Image \in [Word -> Int]
ASSUME ProgramsAssumption ==
  /\ Uninitialised \subseteq Instruction
  /\ \A t \in Threads : \A p \in Programs[t] :
       /\ p \in Seq(Instruction)
       /\ \E i \in 1 .. Len(p) : p[i].op = "HALT"

VARIABLES
  instructions,             \* instructions[t]: the program of thread t
  data,                     \* data[]
  load_latency,             \* Core.load_latency
  store_latency,            \* Core.store_latency
  context_switch_overhead,  \* Core.context_switch_overhead
  cycle_count,              \* Core.cycle_count
  inst_count,               \* Core.inst_count
  rr_index,                 \* Core.rr_index
  rip,                      \* Thread.rip
  return_cycle,             \* Thread.return_cycle
  regs,                     \* Thread.regs
  halt_count,               \* local of the scheduling loop
  idle_count                \* local of the scheduling loop

imageVars == <<instructions, load_latency, store_latency, context_switch_overhead>>
coreVars  == <<cycle_count, inst_count, rr_index, rip, return_cycle, regs,
               halt_count, idle_count>>
mtVars    == <<imageVars, data, coreVars>>

(* SIM_MemReset and the getters CORE_init reads: any image. *)
SIM_MemReset ==
  /\ instructions \in {p \in [Threads -> UNION {Programs[t] : t \in Threads}] :
                         \A t \in Threads : p[t] \in Programs[t]}
  /\ data = Image
  /\ load_latency \in Latencies
  /\ store_latency \in Latencies
  /\ context_switch_overhead \in Overheads

CORE_init ==
  /\ cycle_count = 0
  /\ inst_count = 0
  /\ rr_index = 0
  /\ rip = [t \in Threads |-> 0]
  /\ return_cycle = [t \in Threads |-> 0]
  /\ regs = [t \in Threads |-> [r \in Reg |-> 0]]
  /\ halt_count = 0
  /\ idle_count = 0

(* Faulty variants: the loop ends while one thread runs; the index leaves  *)
(* the array.                                                              *)
Running_Early    == halt_count < NumThreads - 1
NextIndex_NoWrap == rr_index + 1

Running      == halt_count < NumThreads
Available(t) == cycle_count >= return_cycle[t]
NextIndex    == (rr_index + 1) % NumThreads

(* Faulty variant: every thread reads the program of thread 0.             *)
SIM_MemInstRead_Thread0(line, tid) ==
  IF line < Len(instructions[0]) THEN {instructions[0][line + 1]} ELSE Uninitialised

(* SIM_MemInstRead: past the end of the program lies memory that was       *)
(* allocated and never written.                                            *)
SIM_MemInstRead(line, tid) ==
  IF line < Len(instructions[tid]) THEN {instructions[tid][line + 1]}
                                   ELSE Uninitialised

(* Faulty variants: no sentinel for a HALT; the cycle of the instruction   *)
(* itself forgotten.                                                       *)
ReturnCycleAfter_NoSentinel(inst, current) ==
  CASE inst.op = "LOAD"  -> Uint(cycle_count + 1 + load_latency)
    [] inst.op = "STORE" -> Uint(cycle_count + 1 + store_latency)
    [] OTHER             -> current
ReturnCycleAfter_Short(inst, current) ==
  CASE inst.op = "LOAD"  -> Uint(cycle_count + load_latency)
    [] inst.op = "STORE" -> Uint(cycle_count + store_latency)
    [] inst.op = "HALT"  -> UintMax
    [] OTHER             -> current

(* The cycle at which a thread that executes inst is operational again. *)
ReturnCycleAfter(inst, current) ==
  CASE inst.op = "LOAD"  -> Uint(cycle_count + 1 + load_latency)
    [] inst.op = "STORE" -> Uint(cycle_count + 1 + store_latency)
    [] inst.op = "HALT"  -> UintMax
    [] OTHER             -> current

(* EXECUTE_inst on the thread rr_index names.  idle_count, which it also   *)
(* sets, is left to the caller: both loops overwrite it.                   *)
EXECUTE_inst(inst) ==
  LET t == rr_index IN
  /\ InBounds(inst, regs[t])
  /\ rip' = [rip EXCEPT ![t] = @ + 1]
  /\ regs' = [regs EXCEPT ![t] = RegsAfter(inst, @, data)]
  /\ data' = DataAfter(inst, regs[t], data)
  /\ return_cycle' = [return_cycle EXCEPT ![t] = ReturnCycleAfter(inst, @)]
  /\ halt_count' = IF inst.op = "HALT" THEN halt_count + 1 ELSE halt_count
  /\ cycle_count' = Uint(cycle_count + 1)
  /\ inst_count' = Uint(inst_count + 1)

Fetched == SIM_MemInstRead(rip[rr_index], rr_index)

(* The loop ends when every thread has halted. *)
Finished == ~Running /\ UNCHANGED mtVars
-----------------------------------------------------------------------------
(* Properties that both loops are to keep. *)

Halts(t)  == {i \in 1 .. Len(instructions[t]) : instructions[t][i].op = "HALT"}
Halted(t) == \E i \in Halts(t) : i <= rip[t]

TypeOK ==
  /\ instructions \in [Threads -> Seq(Instruction)]
  /\ data \in [Word -> Int]
  /\ load_latency \in Latencies
  /\ store_latency \in Latencies
  /\ context_switch_overhead \in Overheads
  /\ cycle_count \in 0 .. UintMax
  /\ inst_count \in 0 .. UintMax
  /\ rr_index \in Threads
  /\ rip \in [Threads -> Nat]
  /\ return_cycle \in [Threads -> 0 .. UintMax]
  /\ regs \in [Threads -> [Reg -> Int]]
  /\ halt_count \in Nat
  /\ idle_count \in 0 .. NumThreads

(* "Set return cycle to be infinity to indicate thread has halted"         *)
(* (core_api.cpp:231): a thread executes nothing after its HALT.           *)
NeverPastHalt == \A t \in Threads : \A i \in Halts(t) : rip[t] <= i

(* The loops end by halt_count: it is the number of threads that halted,   *)
(* so the simulation stops neither early nor late.                         *)
HaltCountExact == halt_count = Cardinality({t \in Threads : Halted(t)})

(* Latencies are charged in full: when a thread is available, every        *)
(* instruction it executed has had its cycle and its whole latency.        *)
InstCycles(inst) ==
  1 + CASE inst.op = "LOAD"  -> load_latency
        [] inst.op = "STORE" -> store_latency
        [] OTHER             -> 0

OwnCycles(t) ==
  LET spent[k \in 0 .. rip[t]] ==
        IF k = 0 THEN 0 ELSE spent[k - 1] + InstCycles(instructions[t][k])
  IN  spent[rip[t]]

LatencyCharged == \A t \in Threads : Available(t) => OwnCycles(t) <= cycle_count

(* The words thread t reads or writes, and those it writes, when it runs   *)
(* by itself.                                                              *)
Touches(t, ops) ==
  LET p == instructions[t]
      run == Alone(p, Image)
  IN  {WordOf(p[i], run[i - 1].regs) : i \in {j \in 1 .. Len(p) : p[j].op \in ops}}

RaceFree ==
  \A t, u \in Threads :
    t # u => Touches(t, {"STORE"}) \cap Touches(u, {"LOAD", "STORE"}) = {}

(* Threads whose memory footprints do not conflict cannot observe the      *)
(* schedule: each has exactly the registers it would have running alone.   *)
ScheduleInvisible ==
  RaceFree => \A t \in Threads : regs[t] = Alone(instructions[t], Image)[rip[t]].regs

(* What the sentinel stands for, and the premise of the theorems: a halted *)
(* thread is one whose return cycle is UINT32_MAX, as long as the cycle    *)
(* counter stays below UINT32_MAX with a latency to spare.                 *)
SentinelExact == \A t \in Threads : return_cycle[t] = UintMax <=> Halted(t)
CyclesFit     == /\ cycle_count + 1 + load_latency < UintMax
                 /\ cycle_count + 1 + store_latency < UintMax

(* How the policies of MTPolicy see the threads: a halted thread has no    *)
(* cycle at which it is ready again.                                       *)
HaltedThreads == {t \in Threads : Halted(t)}
ReadyAt       == [t \in Threads |-> IF Halted(t) THEN 0 ELSE return_cycle[t]]
LatencyOf     == [op \in {"LOAD", "STORE"} |->
                    IF op = "LOAD" THEN load_latency ELSE store_latency]

(* Every simulation ends, with every thread halted. *)
AllThreadsHalt == <>[](\A t \in Threads : Halted(t))
=============================================================================
