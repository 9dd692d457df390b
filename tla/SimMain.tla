------------------------------- MODULE SimMain -------------------------------
(***************************************************************************)
(* HW4/main.c: load one image, simulate it blocked, print, simulate it     *)
(* fine-grained, print.  The memory is loaded once: the second simulation  *)
(* starts on the data the first one left.  core_blocked and                *)
(* core_finegrained are never alive together, so one set of core variables *)
(* stands for both.                                                        *)
(***************************************************************************)
EXTENDS BlockedMT, FinegrainedMT, Functions

VARIABLES
  phase,     \* of main: "start", "run", "report", "exited" or "failed"
  policy,    \* the simulation that runs or is reported
  k,         \* the loop over threads of the report
  freed,     \* CORE_CPI has deleted core_threads
  contexts,  \* the register files main prints: blocked[] and finegrained[]
  printed    \* one record per simulation: cycles and instructions of its CPI

mainVars == <<phase, policy, k, freed, contexts, printed>>
vars     == <<mtVars, loop, mainVars>>

Zeros == [r \in Reg |-> 0]

Init ==
  /\ BlockedInit
  /\ phase = "start"
  /\ policy = "blocked"
  /\ k = 0
  /\ freed = FALSE
  /\ contexts = [p \in {"blocked", "finegrained"} |-> [t \in Threads |-> Zeros]]
  /\ printed = << >>

(* The image is there, or main leaves. *)
LoadImage ==
  /\ phase = "start"
  /\ phase' \in {"run", "failed"}
  /\ UNCHANGED <<mtVars, loop, policy, k, freed, contexts, printed>>

RunBlocked ==
  phase = "run" /\ policy = "blocked" /\ Running /\ BlockedNext /\ UNCHANGED mainVars

RunFinegrained ==
  /\ phase = "run" /\ policy = "finegrained" /\ Running
  /\ FinegrainedNext
  /\ UNCHANGED <<loop, mainVars>>

RunEnds ==
  /\ phase = "run"
  /\ ~Running
  /\ policy = "blocked" => loop = "thread"
  /\ phase' = "report"
  /\ k' = 0
  /\ UNCHANGED <<mtVars, loop, policy, freed, contexts, printed>>

(* No register file holds it: what is read from a deleted array. *)
Freed == [r \in Reg |-> UintMax + 1]

(* CORE_BlockedMT_CTX or CORE_FinegrainedMT_CTX of the next thread. *)
CTX ==
  /\ phase = "report"
  /\ k < NumThreads
  /\ contexts' = [contexts EXCEPT ![policy][k] = IF freed THEN Freed ELSE regs[k]]
  /\ k' = k + 1
  /\ UNCHANGED <<mtVars, loop, phase, policy, freed, printed>>

(* Faulty variant: the CPI is printed before the registers. *)
CPIDue_First == TRUE

CPIDue == k = NumThreads

(* CORE_CPI also releases the threads. *)
CORE_CPI ==
  /\ phase = "report"
  /\ CPIDue
  /\ ~freed
  /\ printed' = Append(printed, [cycles |-> cycle_count, insts |-> inst_count])
  /\ freed' = TRUE
  /\ UNCHANGED <<mtVars, loop, phase, policy, k, contexts>>

(* Faulty variant: the second simulation goes on counting instructions.   *)
CORE_initAgain_KeepsCount ==
  /\ cycle_count' = 0
  /\ inst_count' = inst_count
  /\ rr_index' = 0
  /\ rip' = [t \in Threads |-> 0]
  /\ return_cycle' = [t \in Threads |-> 0]
  /\ regs' = [t \in Threads |-> [r \in Reg |-> 0]]
  /\ halt_count' = 0
  /\ idle_count' = 0

(* CORE_init(&core_finegrained). *)
CORE_initAgain ==
  /\ cycle_count' = 0
  /\ inst_count' = 0
  /\ rr_index' = 0
  /\ rip' = [t \in Threads |-> 0]
  /\ return_cycle' = [t \in Threads |-> 0]
  /\ regs' = [t \in Threads |-> [r \in Reg |-> 0]]
  /\ halt_count' = 0
  /\ idle_count' = 0

ReportEnds(ofPolicy) ==
  /\ phase = "report"
  /\ policy = ofPolicy
  /\ k = NumThreads
  /\ freed

(* Faulty variant: the memory image is loaded again. *)
RunSecond_Reloads ==
  /\ ReportEnds("blocked")
  /\ phase' = "run"
  /\ policy' = "finegrained"
  /\ freed' = FALSE
  /\ CORE_initAgain
  /\ data' = Image
  /\ UNCHANGED <<imageVars, loop, k, contexts, printed>>

(* CORE_FinegrainedMT starts, on an array of threads of its own. *)
RunSecond ==
  /\ ReportEnds("blocked")
  /\ phase' = "run"
  /\ policy' = "finegrained"
  /\ freed' = FALSE
  /\ CORE_initAgain
  /\ UNCHANGED <<imageVars, data, loop, k, contexts, printed>>

Exit ==
  /\ ReportEnds("finegrained")
  /\ phase' = "exited"
  /\ UNCHANGED <<mtVars, loop, policy, k, freed, contexts, printed>>

Done == phase \in {"exited", "failed"} /\ UNCHANGED vars

Next ==
  \/ LoadImage
  \/ RunBlocked \/ RunFinegrained \/ RunEnds
  \/ CTX \/ CORE_CPI
  \/ RunSecond \/ Exit \/ Done

Spec == Init /\ [][Next]_vars /\ WF_vars(Next)
-----------------------------------------------------------------------------
(* How many instructions thread t executes: up to its first HALT.          *)
Executes(t) == CHOOSE i \in Halts(t) : \A j \in Halts(t) : i <= j

(* The words thread t stores to, or loads from, before it halts, when it   *)
(* runs by itself on the given memory; and the memory it leaves.           *)
Words(t, image, ops) ==
  LET p == instructions[t]
      run == Alone(p, image)
  IN  {WordOf(p[i], run[i - 1].regs) : i \in {j \in 1 .. Executes(t) : p[j].op \in ops}}

Accesses(t, op) == Words(t, Image, {op})

Leaves(t) == Alone(instructions[t], Image)[Executes(t)].data

(* No thread loads a word that any thread stores to, and no two threads    *)
(* store to the same word.                                                 *)
LoadsNothingStored ==
  \A t, u \in Threads :
    /\ Accesses(t, "STORE") \cap Accesses(u, "LOAD") = {}
    /\ t # u => Accesses(t, "STORE") \cap Accesses(u, "STORE") = {}

(* Both simulations print the same registers for an image whose loads see  *)
(* no store: neither the policy, nor the memory the first simulation left  *)
(* behind, nor the release of its threads shows (main.c:30-53).            *)
PrintedRegistersAgree ==
  phase = "exited" /\ LoadsNothingStored => contexts["blocked"] = contexts["finegrained"]

(* The words thread t accesses in either simulation, and that no other     *)
(* thread stores to any of them in either.                                 *)
WordsTwice(t, ops) == Words(t, Image, ops) \cup Words(t, Leaves(t), ops)

RaceFreeTwice ==
  \A t, u \in Threads :
    t # u => WordsTwice(t, {"STORE"}) \cap WordsTwice(u, {"LOAD", "STORE"}) = {}

(* Without races, the second simulation prints what each thread computes   *)
(* when it runs alone a second time over its own results: the memory is    *)
(* not loaded again (main.c:41).                                           *)
SecondRunSeesFirst ==
  phase = "exited" /\ RaceFreeTwice =>
    \A t \in Threads :
      contexts["finegrained"][t] = Alone(instructions[t], Leaves(t))[Executes(t)].regs

(* Whatever the schedule, both simulations retire every thread's program   *)
(* up to its HALT and nothing else, so their CPI differ by cycles only.    *)
SameInstructions ==
  \A n \in DOMAIN printed :
    /\ printed[n].insts = FoldFunction(+, 0, [t \in Threads |-> Executes(t)])
    /\ printed[n].cycles >= printed[n].insts
=============================================================================
