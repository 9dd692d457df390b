------------------------------- MODULE BlockedMT -------------------------------
(***************************************************************************)
(* CORE_BlockedMT: the thread on the core keeps it until it has to wait;   *)
(* then the loop scans the other threads round robin for one that is       *)
(* available.  loop = "thread" at the head of the outer loop, "scan" in    *)
(* the inner one.                                                          *)
(***************************************************************************)
EXTENDS MTCore

VARIABLE loop

blockedVars == <<mtVars, loop>>

BlockedInit == SIM_MemReset /\ CORE_init /\ loop = "thread"

(* The thread on the core is available: it executes one instruction. *)
BlockedExecute ==
  /\ loop = "thread"
  /\ Running
  /\ Available(rr_index)
  /\ \E inst \in Fetched :
       /\ EXECUTE_inst(inst)
       /\ idle_count' = IF IsMemoryOp(inst) THEN 1 ELSE 0
  /\ UNCHANGED <<imageVars, rr_index, loop>>

(* Faulty variant: the scan starts from the idle_count of the last one.    *)
StartScan_NoReset ==
  /\ loop = "thread"
  /\ Running
  /\ ~Available(rr_index)
  /\ loop' = "scan"
  /\ UNCHANGED <<imageVars, data, cycle_count, inst_count, rr_index, rip,
                 return_cycle, regs, halt_count, idle_count>>

(* It is not: look for another. *)
StartScan ==
  /\ loop = "thread"
  /\ Running
  /\ ~Available(rr_index)
  /\ idle_count' = 0
  /\ loop' = "scan"
  /\ UNCHANGED <<imageVars, data, cycle_count, inst_count, rr_index, rip,
                 return_cycle, regs, halt_count>>

(* Faulty variant: a switch costs nothing. *)
SwitchContext_Free ==
  /\ loop = "scan"
  /\ idle_count < NumThreads
  /\ Available(NextIndex)
  /\ rr_index' = NextIndex
  /\ loop' = "thread"
  /\ UNCHANGED <<imageVars, data, cycle_count, inst_count, rip, return_cycle,
                 regs, halt_count, idle_count>>

(* The next thread is available: switch to it and pay the overhead. *)
SwitchContext ==
  /\ loop = "scan"
  /\ idle_count < NumThreads
  /\ Available(NextIndex)
  /\ rr_index' = NextIndex
  /\ cycle_count' = Uint(cycle_count + context_switch_overhead)
  /\ loop' = "thread"
  /\ UNCHANGED <<imageVars, data, inst_count, rip, return_cycle, regs,
                 halt_count, idle_count>>

(* Faulty variant: the index is not taken modulo the number of threads.    *)
ScanNext_NoWrap ==
  /\ loop = "scan"
  /\ idle_count < NumThreads
  /\ ~Available(NextIndex)
  /\ rr_index' = rr_index + 1
  /\ idle_count' = idle_count + 1
  /\ UNCHANGED <<imageVars, data, cycle_count, inst_count, rip, return_cycle,
                 regs, halt_count, loop>>

(* The next thread waits too. *)
ScanNext ==
  /\ loop = "scan"
  /\ idle_count < NumThreads
  /\ ~Available(NextIndex)
  /\ rr_index' = NextIndex
  /\ idle_count' = idle_count + 1
  /\ UNCHANGED <<imageVars, data, cycle_count, inst_count, rip, return_cycle,
                 regs, halt_count, loop>>

(* Faulty variant: the last thread of the round is not looked at. *)
BlockedIdleCycle_Early ==
  /\ loop = "scan"
  /\ idle_count = NumThreads - 1
  /\ cycle_count' = Uint(cycle_count + 1)
  /\ loop' = "thread"
  /\ UNCHANGED <<imageVars, data, inst_count, rr_index, rip, return_cycle, regs,
                 halt_count, idle_count>>

(* A full round robin found nobody: a cycle passes. *)
BlockedIdleCycle ==
  /\ loop = "scan"
  /\ idle_count = NumThreads
  /\ cycle_count' = Uint(cycle_count + 1)
  /\ loop' = "thread"
  /\ UNCHANGED <<imageVars, data, inst_count, rr_index, rip, return_cycle, regs,
                 halt_count, idle_count>>

BlockedNext ==
  \/ BlockedExecute
  \/ StartScan
  \/ SwitchContext
  \/ ScanNext
  \/ BlockedIdleCycle
  \/ loop = "thread" /\ Finished /\ UNCHANGED loop

BlockedSpec == BlockedInit /\ [][BlockedNext]_blockedVars /\ WF_blockedVars(BlockedNext)
-----------------------------------------------------------------------------
(* The thread the core last ran: the scan has moved rr_index away from it  *)
(* by idle_count.                                                          *)
OnCore == IF loop = "scan" THEN (rr_index - idle_count) % NumThreads ELSE rr_index

(* The scan has found every thread from OnCore to rr_index waiting.        *)
ScanInv ==
  loop = "scan" => /\ Running
                   /\ \A k \in 0 .. idle_count :
                        ~Available((rr_index - k) % NumThreads)

(* The core gives up a thread only when that thread waits, and for one     *)
(* that does not; it loses a cycle only when no thread can use it.         *)
SwitchOnlyOnWait ==
  [][/\ OnCore' # OnCore => ~Available(OnCore) /\ Available(OnCore')
     /\ (cycle_count' # cycle_count /\ inst_count' = inst_count /\ OnCore' = OnCore)
          => \A t \in Threads : ~Available(t)]_blockedVars

(* The loop implements the blocked policy.                                 *)
BlockedPolicy == INSTANCE MTPolicy WITH
  program  <- instructions,
  latency  <- LatencyOf,
  overhead <- context_switch_overhead,
  now      <- cycle_count,
  last     <- OnCore,
  issued   <- rip,
  readyAt  <- ReadyAt,
  halted   <- HaltedThreads,
  mem      <- data

ImplementsBlocked == BlockedPolicy!BlockedSpec
==============================================================================
