----------------------------- MODULE FinegrainedMT -----------------------------
(***************************************************************************)
(* CORE_FinegrainedMT: the core issues at most one instruction a cycle and *)
(* moves to the next thread, round robin, after each.  One action per path *)
(* through the body of the scheduling loop.                                *)
(***************************************************************************)
EXTENDS MTCore

FinegrainedInit == SIM_MemReset /\ CORE_init

(* Faulty variants: idle_count is left as EXECUTE_inst sets it, or         *)
(* rr_index where it is.                                                   *)
Execute_KeepsIdle ==
  /\ Running
  /\ Available(rr_index)
  /\ \E inst \in Fetched :
       EXECUTE_inst(inst) /\ idle_count' = IF IsMemoryOp(inst) THEN 1 ELSE 0
  /\ rr_index' = NextIndex
  /\ UNCHANGED imageVars
Execute_Sticky ==
  /\ Running
  /\ Available(rr_index)
  /\ \E inst \in Fetched : EXECUTE_inst(inst)
  /\ idle_count' = 0
  /\ UNCHANGED <<imageVars, rr_index>>

(* The thread rr_index names is available: it executes one instruction. *)
Execute ==
  /\ Running
  /\ Available(rr_index)
  /\ \E inst \in Fetched : EXECUTE_inst(inst)
  /\ idle_count' = 0
  /\ rr_index' = NextIndex
  /\ UNCHANGED imageVars

(* It is not available, and the round robin is not complete. *)
Skip ==
  /\ Running
  /\ ~Available(rr_index)
  /\ idle_count + 1 < NumThreads
  /\ idle_count' = idle_count + 1
  /\ rr_index' = NextIndex
  /\ UNCHANGED <<imageVars, data, cycle_count, inst_count, rip, return_cycle,
                 regs, halt_count>>

(* Faulty variant: the cycle passes one thread too early.                  *)
IdleCycle_Early ==
  /\ Running
  /\ ~Available(rr_index)
  /\ idle_count + 1 >= NumThreads - 1
  /\ cycle_count' = Uint(cycle_count + 1)
  /\ idle_count' = 0
  /\ rr_index' = NextIndex
  /\ UNCHANGED <<imageVars, data, inst_count, rip, return_cycle, regs, halt_count>>

(* It is not available, and neither was any other: a cycle passes. *)
IdleCycle ==
  /\ Running
  /\ ~Available(rr_index)
  /\ idle_count + 1 >= NumThreads
  /\ cycle_count' = Uint(cycle_count + 1)
  /\ idle_count' = 0
  /\ rr_index' = NextIndex
  /\ UNCHANGED <<imageVars, data, inst_count, rip, return_cycle, regs, halt_count>>

FinegrainedNext == Execute \/ Skip \/ IdleCycle \/ Finished

(* The loop is sequential code that nothing suspends. *)
FinegrainedSpec == FinegrainedInit /\ [][FinegrainedNext]_mtVars /\ WF_mtVars(FinegrainedNext)
-----------------------------------------------------------------------------
(* idle_count threads were found waiting in this cycle, and they are the   *)
(* ones just before rr_index.                                              *)
IdleScan ==
  /\ idle_count < NumThreads
  /\ \A k \in 1 .. idle_count : ~Available((rr_index - k) % NumThreads)

(* The core loses a cycle only when no thread can use it, although the     *)
(* loop establishes that one thread at a time.                             *)
WorkConserving ==
  [][(cycle_count' # cycle_count /\ inst_count' = inst_count)
       => \A t \in Threads : ~Available(t)]_mtVars

(* The loop implements the fine-grained policy: the threads passed over    *)
(* since the last issue are the idle_count ones before rr_index, and the   *)
(* sentinel of a halted thread is no cycle at which it is ready.           *)
Policy == INSTANCE MTPolicy WITH
  program  <- instructions,
  latency  <- LatencyOf,
  overhead <- context_switch_overhead,
  now      <- cycle_count,
  last     <- (rr_index - idle_count - 1) % NumThreads,
  issued   <- rip,
  readyAt  <- ReadyAt,
  halted   <- HaltedThreads,
  mem      <- data

ImplementsRoundRobin == Policy!RoundRobinSpec
==============================================================================
