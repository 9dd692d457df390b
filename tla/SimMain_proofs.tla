----------------------------- MODULE SimMain_proofs -----------------------------
(***************************************************************************)
(* What main.c prints, for every image: theorems about the two simulations *)
(* run one after the other on one memory.                                  *)
(***************************************************************************)
EXTENDS SimMain, MTLoops_proofs

(* What a step of either loop is, in the words of MTCore: an available     *)
(* thread executes an instruction, or nothing but the time and the place   *)
(* of the loop changes.                                                    *)
Waits ==
  /\ UNCHANGED <<imageVars, data, inst_count, rip, return_cycle, regs, halt_count>>
  /\ cycle_count' \in {cycle_count, Uint(cycle_count + 1),
                       Uint(cycle_count + context_switch_overhead)}
  /\ rr_index' \in {rr_index, NextIndex}

Executes1 ==
  /\ Available(rr_index)
  /\ \E inst \in Fetched : EXECUTE_inst(inst)
  /\ UNCHANGED imageVars
  /\ rr_index' \in {rr_index, NextIndex}

LEMMA BlockedStep ==
  ASSUME TypeOK, Running, BlockedNext
  PROVE  (Executes1 \/ Waits) /\ idle_count' \in 0 .. NumThreads
<1>0. idle_count \in 0 .. NumThreads /\ NumThreads \in Nat \ {0}
  BY ThreadsAssumption DEF TypeOK
<1>1. CASE BlockedExecute
  BY <1>0, <1>1 DEF BlockedExecute, Executes1
<1>2. CASE StartScan
  BY <1>0, <1>2 DEF StartScan, Waits
<1>3. CASE SwitchContext
  BY <1>0, <1>3 DEF SwitchContext, Waits
<1>4. CASE ScanNext
  BY <1>0, <1>4 DEF ScanNext, Waits
<1>5. CASE BlockedIdleCycle
  BY <1>0, <1>5 DEF BlockedIdleCycle, Waits
<1>6. CASE Finished
  BY <1>6 DEF Finished
<1> QED
  BY <1>1, <1>2, <1>3, <1>4, <1>5, <1>6 DEF BlockedNext

LEMMA FinegrainedStep ==
  ASSUME TypeOK, Running, FinegrainedNext
  PROVE  (Executes1 \/ Waits) /\ idle_count' \in 0 .. NumThreads
<1>0. idle_count \in 0 .. NumThreads /\ NumThreads \in Nat \ {0}
  BY ThreadsAssumption DEF TypeOK
<1>1. CASE Execute
  BY <1>0, <1>1 DEF Execute, Executes1
<1>2. CASE Skip
  BY <1>0, <1>2 DEF Skip, Waits
<1>3. CASE IdleCycle
  BY <1>0, <1>3 DEF IdleCycle, Waits
<1>4. CASE Finished
  BY <1>4 DEF Finished
<1> QED
  BY <1>1, <1>2, <1>3, <1>4 DEF FinegrainedNext

LEMMA LoopStep ==
  ASSUME TypeOK, RunBlocked \/ RunFinegrained
  PROVE  TypeOK' /\ (Executes1 \/ Waits)
<1>1. (Executes1 \/ Waits) /\ idle_count' \in 0 .. NumThreads
  BY BlockedStep, FinegrainedStep DEF RunBlocked, RunFinegrained
<1>2. NextIndex \in Threads
  BY NextIndexType
<1>3. CASE Executes1
  <2>1. PICK inst \in Fetched : EXECUTE_inst(inst)
    BY <1>3 DEF Executes1
  <2>2. /\ data' \in [Word -> Int]
        /\ cycle_count' \in 0 .. UintMax
        /\ inst_count' \in 0 .. UintMax
        /\ rip' \in [Threads -> Nat]
        /\ return_cycle' \in [Threads -> 0 .. UintMax]
        /\ regs' \in [Threads -> [Reg -> Int]]
        /\ halt_count' \in Nat
    BY <2>1, FetchedType, ExecuteType
  <2> QED
    BY <1>1, <1>2, <1>3, <2>2 DEF Executes1, TypeOK, imageVars
<1>4. CASE Waits
  <2>1. cycle_count' \in 0 .. UintMax
    <3>1. cycle_count + 1 \in Int /\ cycle_count + context_switch_overhead \in Int
      BY LatencyAssumption, WidthAssumption DEF TypeOK
    <3>2. Uint(cycle_count + 1) \in 0 .. UintMax
      BY <3>1, UintRange
    <3>3. Uint(cycle_count + context_switch_overhead) \in 0 .. UintMax
      BY <3>1, UintRange
    <3> QED
      BY <1>4, <3>2, <3>3 DEF Waits, TypeOK
  <2> QED
    BY <1>1, <1>2, <1>4, <2>1 DEF Waits, TypeOK, imageVars
<1> QED
  BY <1>1, <1>3, <1>4

(* How far a thread goes: to its first HALT, once all have halted. *)
LEMMA ExecutesFirst ==
  ASSUME TypeOK, HaltInv, NEW t \in Threads
  PROVE  /\ Executes(t) \in Halts(t)
         /\ \A j \in Halts(t) : Executes(t) <= j
         /\ Halts(t) \subseteq 1 .. Len(instructions[t])
         /\ Len(instructions[t]) \in Nat
<1>1. Len(instructions[t]) \in Nat
  BY DEF TypeOK
<1>2. Halts(t) \subseteq 1 .. Len(instructions[t])
  BY DEF Halts
<1>3. Halts(t) \subseteq Nat /\ Halts(t) # {}
  BY <1>1, <1>2 DEF HaltInv, EveryProgramHalts
<1>4. \E i \in Halts(t) : \A j \in Halts(t) : i <= j
  BY <1>3, LeastNumber
<1> QED
  BY <1>1, <1>2, <1>4 DEF Executes

LEMMA StopsAtHalt ==
  ASSUME TypeOK, HaltInv, NEW t \in Threads
  PROVE  Halted(t) <=> rip[t] = Executes(t)
<1>1. /\ Executes(t) \in Halts(t)
      /\ \A j \in Halts(t) : Executes(t) <= j /\ rip[t] <= j
      /\ Halts(t) \subseteq Nat
      /\ rip[t] \in Nat
  BY ExecutesFirst DEF HaltInv, NeverPastHalt, TypeOK
<1> HIDE DEF Executes
<1> QED
  BY <1>1 DEF Halted

LEMMA AllHalted ==
  ASSUME TypeOK, HaltInv, ~Running
  PROVE  \A t \in Threads : Halted(t) /\ rip[t] = Executes(t)
<1> DEFINE H == {t \in Threads : Halted(t)}
<1>1. IsFiniteSet(Threads) /\ Cardinality(Threads) = NumThreads
  BY ThreadsAssumption, FS_Interval DEF Threads
<1>2. halt_count = Cardinality(H) /\ halt_count \in Nat /\ ~(halt_count < NumThreads)
  BY DEF HaltInv, HaltCountExact, Running, TypeOK
<1>3. H \in SUBSET Threads /\ Cardinality(H) <= Cardinality(Threads)
  BY <1>1, FS_Subset
<1>4. Cardinality(H) = Cardinality(Threads)
  BY <1>1, <1>2, <1>3, ThreadsAssumption
<1>5. H = Threads
  <2> HIDE DEF H
  <2> QED
    BY <1>1, <1>3, <1>4, FS_Subset
<1> QED
  BY <1>5, StopsAtHalt
-----------------------------------------------------------------------------
(* Both simulations print the same.  Why: no word that is loaded is ever   *)
(* stored to, so memory shows every load what the image holds, in the      *)
(* second simulation as in the first.                                      *)
Loaded   == (UNION {Accesses(t, "LOAD") : t \in Threads}) \cap Word
Final(t) == Alone(instructions[t], Image)[Executes(t)].regs

Second(t) == Alone(instructions[t], Leaves(t))[Executes(t)].regs
Reach(t)  == WordsTwice(t, {"LOAD", "STORE"}) \cap Word

FromImage(t) ==
  LET alone == Alone(instructions[t], Image)[rip[t]]
  IN  /\ regs[t] = alone.regs
      /\ alone.data \in [Word -> Int]
      /\ \A w \in Loaded : alone.data[w] = Image[w]

LoadedInv ==
  LoadsNothingStored => /\ \A w \in Loaded : data[w] = Image[w]
                        /\ \A t \in Threads : FromImage(t)

(* All of these are functions of the programs. *)
LEMMA SamePrograms ==
  ASSUME instructions' = instructions
  PROVE  /\ Loaded' = Loaded
         /\ LoadsNothingStored' <=> LoadsNothingStored
         /\ \A t : Final(t)' = Final(t) /\ Executes(t)' = Executes(t)
         /\ \A t : Leaves(t)' = Leaves(t) /\ Second(t)' = Second(t) /\ Reach(t)' = Reach(t)
         /\ RaceFreeTwice' <=> RaceFreeTwice
<1>1. \A t : Executes(t)' = Executes(t)
  BY DEF Executes, Halts
<1>2. \A t, image, ops : Words(t, image, ops)' = Words(t, image, ops)
  BY <1>1 DEF Words
<1>3. \A t, op : Accesses(t, op)' = Accesses(t, op)
  BY <1>2 DEF Accesses
<1>4. Loaded' = Loaded
  BY <1>3 DEF Loaded
<1>5. LoadsNothingStored' <=> LoadsNothingStored
  BY <1>3 DEF LoadsNothingStored
<1>6. \A t : Final(t)' = Final(t) /\ Leaves(t)' = Leaves(t)
  BY <1>1 DEF Final, Leaves
<1>7. \A t : Second(t)' = Second(t)
  BY <1>1, <1>6 DEF Second
<1>8. \A t, ops : WordsTwice(t, ops)' = WordsTwice(t, ops)
  BY <1>1, <1>6 DEF WordsTwice, Words
<1>9. RaceFreeTwice' <=> RaceFreeTwice
  BY <1>8 DEF RaceFreeTwice
<1>10. \A t : Reach(t)' = Reach(t)
  BY <1>8 DEF Reach
<1> QED
  BY <1>1, <1>4, <1>5, <1>6, <1>7, <1>9, <1>10

LEMMA LoadedIdle ==
  ASSUME LoadedInv, UNCHANGED <<instructions, data, rip, regs>> PROVE LoadedInv'
<1>1. Loaded' = Loaded /\ (LoadsNothingStored' <=> LoadsNothingStored)
  BY SamePrograms
<1> QED
  BY <1>1 DEF LoadedInv, FromImage

(* What an available thread executes is its program, up to its first HALT. *)
LEMMA NextBeforeHalt ==
  ASSUME TypeOK, HaltInv, CyclesFit, Executes1, NEW t \in Threads, t = rr_index,
         NEW inst \in Fetched, EXECUTE_inst(inst)
  PROVE  /\ inst = instructions[t][rip[t] + 1]
         /\ rip[t] + 1 \in 1 .. Len(instructions[t])
         /\ rip[t] + 1 \in 1 .. Executes(t)
<1>1. /\ cycle_count \in Nat /\ load_latency \in Nat /\ UintMax \in Nat
      /\ return_cycle[t] \in Nat /\ rip[t] \in Nat /\ Len(instructions[t]) \in Nat
  BY WidthAssumption, LatencyAssumption DEF TypeOK
<1>2. rip[t] < Len(instructions[t]) /\ inst = instructions[t][rip[t] + 1]
  BY ExecuteEffect DEF Executes1, imageVars
<1>3. return_cycle[t] # UintMax
  BY <1>1 DEF Executes1, Available, CyclesFit
<1>4. ~Halted(t)
  BY <1>3 DEF HaltInv, SentinelExact
<1>5. Executes(t) \in Halts(t) /\ Halts(t) \subseteq Nat
  BY <1>1, ExecutesFirst
<1>6. ~(Executes(t) <= rip[t])
  BY <1>4, <1>5 DEF Halted
<1> HIDE DEF Executes
<1> QED
  BY <1>1, <1>2, <1>5, <1>6

(* The words a thread's next instruction loads from or stores to. *)
LEMMA InAccesses ==
  ASSUME NEW t \in Threads, NEW i \in 1 .. Executes(t)
  PROVE  WordOf(instructions[t][i], Alone(instructions[t], Image)[i - 1].regs)
           \in Accesses(t, instructions[t][i].op)
  BY DEF Accesses, Words

LEMMA StoresUnloaded ==
  ASSUME LoadsNothingStored, NEW t \in Threads
  PROVE  Accesses(t, "STORE") \cap Loaded = {}
  BY DEF LoadsNothingStored, Loaded

(* An instruction computes from the image what it computes from memory,    *)
(* and stores to no word that is loaded.                                   *)
LEMMA ExecuteLoaded ==
  ASSUME TypeOK, HaltInv, CyclesFit, LoadedInv, Executes1
  PROVE  LoadedInv'
<1>0. PICK inst \in Fetched : EXECUTE_inst(inst)
  BY DEF Executes1
<1>a. instructions' = instructions /\ Available(rr_index) /\ UNCHANGED imageVars
  BY DEF Executes1, imageVars
<1> SUFFICES ASSUME LoadsNothingStored
             PROVE  /\ \A w \in Loaded : data'[w] = Image[w]
                    /\ \A u \in Threads : FromImage(u)'
  BY <1>a, SamePrograms DEF LoadedInv
<1>b. PICK t \in Threads : t = rr_index
  BY DEF TypeOK
<1> DEFINE p == instructions[t]
           i == rip[t] + 1
           alone == Alone(p, Image)[rip[t]]
<1>1. /\ inst \in Instruction
      /\ regs[t] \in [Reg -> Int] /\ data \in [Word -> Int]
      /\ rip[t] \in Nat /\ Len(p) \in Nat
  BY FetchedType DEF TypeOK
<1>2. inst = p[i]
  BY <1>0, <1>b, NextBeforeHalt
<1>3. i \in 1 .. Executes(t) /\ i \in 1 .. Len(p) /\ i - 1 = rip[t]
  <2>1. i \in 1 .. Executes(t) /\ i \in 1 .. Len(p)
    <3> HIDE DEF Executes
    <3> QED
      BY <1>0, <1>b, NextBeforeHalt
  <2> QED
    BY <1>1, <2>1
<1>4. /\ regs[t] = alone.regs
      /\ alone.data \in [Word -> Int]
      /\ \A w \in Loaded : data[w] = Image[w] /\ alone.data[w] = Image[w]
  BY DEF LoadedInv, FromImage
<1>5. /\ InBounds(inst, regs[t])
      /\ rip' = [rip EXCEPT ![t] = @ + 1]
      /\ regs' = [regs EXCEPT ![t] = RegsAfter(inst, @, data)]
      /\ data' = DataAfter(inst, regs[t], data)
  BY <1>0, <1>b DEF EXECUTE_inst
<1>6. /\ inst.op = "LOAD" => WordOf(inst, regs[t]) \in Loaded
      /\ inst.op = "STORE" => WordOf(inst, regs[t]) \in Word \ Loaded
  <2>1. WordOf(inst, regs[t]) \in Accesses(t, inst.op)
    <3> HIDE DEF Executes
    <3> QED
      BY <1>2, <1>3, <1>4, InAccesses
  <2>2. IsMemoryOp(inst) => WordOf(inst, regs[t]) \in Word
    BY <1>5 DEF InBounds
  <2> QED
    BY <2>1, <2>2, StoresUnloaded DEF Loaded, IsMemoryOp
<1>7. Alone(p, Image)[i] = AloneStep(inst, alone)
  BY <1>1, <1>2, <1>3, AloneUnfold
<1>8. \A mem \in [Word -> Int] : \A w \in Loaded :
        DataAfter(inst, regs[t], mem)[w] = mem[w]
  BY <1>6 DEF DataAfter
<1>9. \A w \in Loaded : data'[w] = Image[w]
  BY <1>1, <1>4, <1>5, <1>8
<1>10. FromImage(t)'
  <2>1. rip'[t] = i /\ regs'[t] = RegsAfter(inst, regs[t], data)
    BY <1>5 DEF TypeOK
  <2>2. RegsAfter(inst, regs[t], data) = RegsAfter(inst, regs[t], alone.data)
    <3>1. inst.op = "LOAD" => data[WordOf(inst, regs[t])] = alone.data[WordOf(inst, regs[t])]
      BY <1>4, <1>6
    <3> QED
      BY <3>1 DEF RegsAfter
  <2>3. /\ Alone(p, Image)[i].regs = RegsAfter(inst, regs[t], alone.data)
        /\ Alone(p, Image)[i].data = DataAfter(inst, regs[t], alone.data)
    BY <1>4, <1>7 DEF AloneStep
  <2>4. Alone(p, Image)[i].data \in [Word -> Int]
    <3>1. DataAfter(inst, regs[t], alone.data) \in [Word -> Int]
      <4> HIDE DEF alone
      <4> QED
        BY <1>1, <1>4, DataAfterType
    <3> QED
      BY <2>3, <3>1, Zenon
  <2>5. \A w \in Loaded : Alone(p, Image)[i].data[w] = Image[w]
    BY <1>4, <1>8, <2>3
  <2> QED
    BY <1>a, <2>1, <2>2, <2>3, <2>4, <2>5, SamePrograms DEF FromImage
<1>11. ASSUME NEW u \in Threads \ {t} PROVE FromImage(u)'
  <2>1. rip'[u] = rip[u] /\ regs'[u] = regs[u]
    BY <1>5 DEF TypeOK
  <2>2. FromImage(u)
    BY DEF LoadedInv
  <2> QED
    BY <1>a, <2>1, <2>2, SamePrograms DEF FromImage
<1> QED
  BY <1>9, <1>10, <1>11
-----------------------------------------------------------------------------
(* CORE_init of the second simulation leaves every thread at its start.    *)
LEMMA AgainInit ==
  ASSUME TypeOK, HaltInv, CORE_initAgain, UNCHANGED <<imageVars, data>>
  PROVE  TypeOK' /\ HaltInv'
<1>1. TypeOK'
  <2>1. /\ rr_index' \in Threads
        /\ regs' \in [Threads -> [Reg -> Int]]
        /\ idle_count' \in 0 .. NumThreads
    BY ThreadsAssumption DEF CORE_initAgain, Threads
  <2> QED
    BY <2>1, WidthAssumption DEF TypeOK, CORE_initAgain, imageVars
<1>2. instructions' = instructions /\ \A t \in Threads : Halts(t)' = Halts(t)
  BY DEF imageVars, Halts
<1>3. ASSUME NEW t \in Threads
      PROVE  ~Halted(t)' /\ rip'[t] = 0 /\ \A i \in Halts(t) : i \in Nat /\ i >= 1
  <2>1. rip'[t] = 0
    BY DEF CORE_initAgain
  <2>2. \A i \in Halts(t) : i \in Nat /\ i >= 1
    <3>1. Len(instructions[t]) \in Nat
      BY DEF TypeOK
    <3> QED
      BY <3>1 DEF Halts
  <2> QED
    BY <1>2, <2>1, <2>2 DEF Halted
<1>4. {t \in Threads : Halted(t)'} = {}
  BY <1>3
<1>5. HaltCountExact'
  BY <1>4, FS_EmptySet DEF HaltCountExact, CORE_initAgain
<1>6. SentinelExact'
  BY <1>3, WidthAssumption DEF SentinelExact, CORE_initAgain
<1>7. NeverPastHalt'
  BY <1>2, <1>3 DEF NeverPastHalt
<1>8. EveryProgramHalts'
  BY <1>2 DEF EveryProgramHalts, HaltInv
<1> QED
  BY <1>1, <1>5, <1>6, <1>7, <1>8 DEF HaltInv

LEMMA AgainLoaded ==
  ASSUME TypeOK, LoadedInv, CORE_initAgain, UNCHANGED <<imageVars, data>>
  PROVE  LoadedInv'
<1>1. instructions' = instructions /\ data' = data
  BY DEF imageVars
<1>2. ASSUME NEW t \in Threads PROVE FromImage(t)'
  <2>1. rip'[t] = 0 /\ regs'[t] = [r \in Reg |-> 0] /\ Len(instructions[t]) \in Nat
    BY DEF CORE_initAgain, TypeOK
  <2>2. Alone(instructions[t], Image)[0] = AloneStart(Image)
    BY <2>1, AloneUnfold
  <2> QED
    BY <1>1, <2>1, <2>2, ImageAssumption DEF FromImage, AloneStart
<1> QED
  BY <1>1, <1>2, SamePrograms DEF LoadedInv

LEMMA FirstLoaded == SIM_MemReset /\ CORE_init => LoadedInv
<1> SUFFICES ASSUME SIM_MemReset, CORE_init PROVE LoadedInv
  OBVIOUS
<1>1. data = Image
  BY DEF SIM_MemReset
<1>2. ASSUME NEW t \in Threads PROVE FromImage(t)
  <2>1. rip[t] = 0 /\ regs[t] = [r \in Reg |-> 0] /\ Len(instructions[t]) \in Nat
    BY InitType DEF CORE_init, TypeOK
  <2>2. Alone(instructions[t], Image)[0] = AloneStart(Image)
    BY <2>1, AloneUnfold
  <2> QED
    BY <2>1, <2>2, ImageAssumption DEF FromImage, AloneStart
<1> QED
  BY <1>1, <1>2 DEF LoadedInv

(* Where main is, and what it has copied into the arrays it prints.        *)
Policies == {"blocked", "finegrained"}

MainType ==
  /\ phase \in {"start", "run", "report", "exited", "failed"}
  /\ policy \in Policies
  /\ k \in 0 .. NumThreads
  /\ freed \in BOOLEAN
  /\ contexts \in [Policies -> [Threads -> [Reg -> Int]]]

(* The registers are copied before the threads are released, and only      *)
(* after the last of them has halted.                                      *)
ReportOrder ==
  /\ phase \in {"start", "run"} => ~freed
  /\ phase = "start" => policy = "blocked"
  /\ phase = "report" => ~Running /\ (freed => k = NumThreads)
  /\ phase = "exited" => policy = "finegrained"

Copied ==
  LoadsNothingStored =>
    /\ phase = "report" => \A t \in Threads : t < k => contexts[policy][t] = Final(t)
    /\ policy = "finegrained" => \A t \in Threads : contexts["blocked"][t] = Final(t)
    /\ phase = "exited" => \A t \in Threads : contexts["finegrained"][t] = Final(t)

CoreInv == TypeOK /\ HaltInv /\ MainType /\ ReportOrder

LEMMA CoreInit == Init => CoreInv
<1> SUFFICES ASSUME Init PROVE CoreInv
  OBVIOUS
<1>1. SIM_MemReset /\ CORE_init
  BY DEF Init, BlockedInit, SIM_MemReset, CORE_init, Threads, Reg
<1>2. MainType
  <2>1. contexts = [p \in Policies |-> [t \in Threads |-> [r \in Reg |-> 0]]]
    BY DEF Init, Policies, Zeros
  <2>2. contexts \in [Policies -> [Threads -> [Reg -> Int]]]
    BY <2>1
  <2>3. k \in 0 .. NumThreads
    BY ThreadsAssumption DEF Init
  <2>4. /\ phase \in {"start", "run", "report", "exited", "failed"}
        /\ policy \in Policies
        /\ freed \in BOOLEAN
    BY Zenon DEF Init, Policies
  <2> QED
    BY <2>2, <2>3, <2>4 DEF MainType
<1>3. ReportOrder
  BY DEF Init, ReportOrder
<1> QED
  BY <1>1, <1>2, <1>3, InitType, InitHaltInv DEF CoreInv

(* What a step of main does besides: it runs a step of a loop, it starts   *)
(* the cores again, or it leaves memory and cores alone.                   *)
Restarts ==
  /\ CORE_initAgain
  /\ UNCHANGED <<imageVars, data>>

LEMMA MainStep ==
  ASSUME TypeOK, [Next]_vars
  PROVE  RunBlocked \/ RunFinegrained \/ Restarts \/ UNCHANGED mtVars
  BY DEF Next, vars, LoadImage, RunEnds, CTX, CORE_CPI, RunSecond, Exit, Done, Restarts

LEMMA CoreStep ==
  ASSUME TypeOK, HaltInv, CyclesFit, [Next]_vars
  PROVE  TypeOK' /\ HaltInv'
<1>1. CASE RunBlocked \/ RunFinegrained
  <2>1. TypeOK' /\ (Executes1 \/ Waits)
    BY <1>1, LoopStep
  <2>2. CASE Executes1
    BY <2>1, <2>2, ExecuteHaltInv DEF Executes1, imageVars
  <2>3. CASE Waits
    BY <2>1, <2>3, HaltInvIdle DEF Waits, imageVars
  <2> QED
    BY <2>1, <2>2, <2>3
<1>2. CASE Restarts
  BY <1>2, AgainInit DEF Restarts
<1>3. CASE UNCHANGED mtVars
  <2>1. HaltInv'
    BY <1>3, HaltInvIdle DEF mtVars, imageVars, coreVars
  <2>2. TypeOK'
    BY <1>3 DEF mtVars, imageVars, coreVars, TypeOK
  <2> QED
    BY <2>1, <2>2
<1> QED
  BY <1>1, <1>2, <1>3, MainStep

LEMMA LoadedStep ==
  ASSUME TypeOK, HaltInv, CyclesFit, LoadedInv, [Next]_vars
  PROVE  LoadedInv'
<1>1. CASE RunBlocked \/ RunFinegrained
  <2>1. Executes1 \/ Waits
    BY <1>1, LoopStep
  <2>2. CASE Waits
    BY <2>2, LoadedIdle DEF Waits, imageVars
  <2> QED
    BY <2>1, <2>2, ExecuteLoaded
<1>2. CASE Restarts
  BY <1>2, AgainLoaded DEF Restarts
<1>3. CASE UNCHANGED mtVars
  BY <1>3, LoadedIdle DEF mtVars, imageVars, coreVars
<1> QED
  BY <1>1, <1>2, <1>3, MainStep

(* No step changes a program. *)
LEMMA SameImage == ASSUME TypeOK, [Next]_vars PROVE instructions' = instructions
<1>1. CASE RunBlocked \/ RunFinegrained
  BY <1>1, LoopStep DEF Executes1, Waits, imageVars
<1>2. CASE Restarts
  BY <1>2 DEF Restarts, imageVars
<1>3. CASE UNCHANGED mtVars
  BY <1>3 DEF mtVars, imageVars
<1> QED
  BY <1>1, <1>2, <1>3, MainStep

LEMMA MainTypeStep == ASSUME CoreInv, [Next]_vars PROVE MainType'
<1>0. MainType /\ regs \in [Threads -> [Reg -> Int]] /\ NumThreads \in Nat \ {0}
  BY ThreadsAssumption DEF CoreInv, TypeOK
<1>1. CASE CTX
  <2>1. Freed \in [Reg -> Int]
    BY WidthAssumption DEF Freed
  <2>2. k \in Threads
    BY <1>0, <1>1 DEF CTX, MainType, Threads
  <2>3. (IF freed THEN Freed ELSE regs[k]) \in [Reg -> Int]
    BY <1>0, <2>1, <2>2
  <2>4. contexts' \in [Policies -> [Threads -> [Reg -> Int]]]
    BY <1>0, <1>1, <2>2, <2>3 DEF CTX, MainType
  <2> QED
    BY <1>0, <1>1, <2>4 DEF CTX, MainType
<1>2. CASE RunEnds
  BY <1>0, <1>2 DEF RunEnds, MainType
<1>3. CASE LoadImage
  BY <1>0, <1>3 DEF LoadImage, MainType
<1>4. CASE RunSecond
  <2>1. contexts' = contexts /\ k' = k /\ phase' = "run"
    BY <1>4 DEF RunSecond
  <2>2. policy' \in Policies /\ freed' \in BOOLEAN
    BY <1>4, Zenon DEF RunSecond, Policies
  <2> QED
    BY <1>0, <2>1, <2>2 DEF MainType
<1>5. CASE Exit
  BY <1>0, <1>5 DEF Exit, MainType
<1>6. CASE CORE_CPI
  <2>1. UNCHANGED <<phase, policy, k, contexts>>
    BY <1>6 DEF CORE_CPI
  <2>2. freed' \in BOOLEAN
    BY <1>6, Zenon DEF CORE_CPI
  <2> QED
    BY <1>0, <2>1, <2>2 DEF MainType
<1>7. CASE UNCHANGED mainVars
  BY <1>0, <1>7 DEF mainVars, MainType
<1> QED
  BY <1>1, <1>2, <1>3, <1>4, <1>5, <1>6, <1>7 DEF Next, vars, RunBlocked, RunFinegrained, Done

LEMMA ReportOrderStep == ASSUME CoreInv, [Next]_vars PROVE ReportOrder'
<1>0. ReportOrder /\ MainType
  BY DEF CoreInv
<1>1. (phase = "report" /\ phase' = "report") => (Running' <=> Running)
  BY DEF Next, vars, mtVars, coreVars, LoadImage, RunBlocked, RunFinegrained, RunEnds, CTX,
         CORE_CPI, RunSecond, Exit, Done, ReportEnds, Running
<1>2. RunEnds => (Running' <=> Running)
  BY DEF RunEnds, mtVars, coreVars, Running
<1> HIDE DEF Running
<1> QED
  BY <1>0, <1>1, <1>2 DEF ReportOrder, MainType, Next, vars, mainVars, LoadImage, RunBlocked,
       RunFinegrained, RunEnds, CTX, CORE_CPI, CPIDue, RunSecond, Exit, Done, ReportEnds

(* The report copies the registers of threads that have halted, before     *)
(* CORE_CPI releases them.                                                 *)
LEMMA CTXCopies ==
  ASSUME CoreInv, CTX
  PROVE  /\ k \in Threads /\ policy \in Policies /\ k' = k + 1
         /\ UNCHANGED <<phase, policy>>
         /\ rip[k] = Executes(k)
         /\ contexts'[policy][k] = regs[k]
         /\ \A q \in Policies, t \in Threads :
              q # policy \/ t # k => contexts'[q][t] = contexts[q][t]
<1>0. MainType /\ ReportOrder /\ TypeOK /\ HaltInv /\ NumThreads \in Nat \ {0}
  BY ThreadsAssumption DEF CoreInv
<1>1. ~freed /\ ~Running /\ k \in Threads /\ policy \in Policies
  BY <1>0 DEF CTX, ReportOrder, MainType, Threads
<1>2. rip[k] = Executes(k)
  BY <1>0, <1>1, AllHalted
<1>3. /\ contexts' = [contexts EXCEPT ![policy][k] = regs[k]]
      /\ k' = k + 1 /\ UNCHANGED <<phase, policy>>
  BY <1>1 DEF CTX
<1>4. contexts'[policy][k] = regs[k]
  BY <1>0, <1>1, <1>3 DEF MainType
<1>5. \A q \in Policies, t \in Threads :
        q # policy \/ t # k => contexts'[q][t] = contexts[q][t]
  BY <1>0, <1>1, <1>3 DEF MainType
<1> QED
  BY <1>1, <1>2, <1>3, <1>4, <1>5

LEMMA CopiedStep ==
  ASSUME CoreInv, LoadedInv, Copied, [Next]_vars
  PROVE  Copied'
<1>0. /\ MainType /\ ReportOrder /\ TypeOK /\ HaltInv
      /\ NumThreads \in Nat \ {0}
      /\ Threads \subseteq 0 .. NumThreads - 1
      /\ k \in Int
      /\ \A t \in Threads : t \in Nat /\ t < NumThreads
  BY ThreadsAssumption DEF CoreInv, Threads, MainType
<1>a. /\ LoadsNothingStored' <=> LoadsNothingStored
      /\ \A t : Final(t)' = Final(t)
  BY <1>0, SameImage, SamePrograms
<1> SUFFICES ASSUME LoadsNothingStored, NEW t \in Threads
             PROVE  /\ phase' = "report" => (t < k' => contexts'[policy'][t] = Final(t))
                    /\ policy' = "finegrained" => contexts'["blocked"][t] = Final(t)
                    /\ phase' = "exited" => contexts'["finegrained"][t] = Final(t)
  BY <1>a DEF Copied
<1>b. /\ phase = "report" => (t < k => contexts[policy][t] = Final(t))
      /\ policy = "finegrained" => contexts["blocked"][t] = Final(t)
      /\ phase = "exited" => contexts["finegrained"][t] = Final(t)
  BY DEF Copied
<1>1. CASE CTX
  <2>1. regs[k] = Final(k)
    BY <1>1, CTXCopies DEF LoadedInv, FromImage, Final
  <2>2. t < k' => t < k \/ t = k
    BY <1>0, <1>1, CTXCopies
  <2>3. "blocked" \in Policies
    BY DEF Policies
  <2>4. phase = "report"
    BY <1>1 DEF CTX
  <2> HIDE DEF Final
  <2>5. t < k' => contexts'[policy][t] = Final(t)
    BY <1>1, <1>b, <2>1, <2>2, <2>4, CTXCopies
  <2>6. policy = "finegrained" => contexts'["blocked"][t] = Final(t)
    BY <1>1, <1>b, <2>3, CTXCopies
  <2> QED
    BY <1>1, <2>4, <2>5, <2>6, CTXCopies
<1>2. CASE RunEnds
  BY <1>0, <1>2, <1>b DEF RunEnds
<1>3. CASE LoadImage
  BY <1>3, <1>b DEF LoadImage
<1>4. CASE RunSecond
  BY <1>0, <1>4, <1>b DEF RunSecond, ReportEnds
<1>5. CASE Exit
  BY <1>0, <1>5, <1>b DEF Exit, ReportEnds
<1>6. CASE CORE_CPI
  BY <1>6, <1>b DEF CORE_CPI
<1>7. CASE UNCHANGED mainVars
  BY <1>7, <1>b DEF mainVars
<1> QED
  BY <1>1, <1>2, <1>3, <1>4, <1>5, <1>6, <1>7 DEF Next, vars, RunBlocked, RunFinegrained, Done

(* The two arrays of registers main prints agree when no load sees a       *)
(* store, as long as the cycle counter stays below its sentinel.           *)
THEOREM PrintedRegistersAgreeCorrect == Spec /\ []CyclesFit => []PrintedRegistersAgree
<1> DEFINE Inv == CoreInv /\ LoadedInv /\ Copied
<1>1. Init => Inv
  <2> SUFFICES ASSUME Init PROVE Inv
    OBVIOUS
  <2>1. SIM_MemReset /\ CORE_init
    BY DEF Init, BlockedInit, SIM_MemReset, CORE_init, Threads, Reg
  <2> QED
    BY <2>1, CoreInit, FirstLoaded DEF Copied, Init
<1>2. Inv /\ CyclesFit /\ [Next]_vars => Inv'
  BY CoreStep, LoadedStep, MainTypeStep, ReportOrderStep, CopiedStep DEF CoreInv
<1>3. Inv => PrintedRegistersAgree
  <2> SUFFICES ASSUME Inv, phase = "exited", LoadsNothingStored
               PROVE  contexts["blocked"] = contexts["finegrained"]
    BY DEF PrintedRegistersAgree
  <2>1. \A t \in Threads : contexts["blocked"][t] = contexts["finegrained"][t]
    BY DEF Copied, CoreInv, ReportOrder
  <2>2. contexts \in [Policies -> [Threads -> [Reg -> Int]]]
    BY DEF CoreInv, MainType
  <2> QED
    BY <2>1, <2>2 DEF Policies
<1> HIDE DEF Inv
<1> QED
  BY <1>1, <1>2, <1>3, PTL DEF Spec
-----------------------------------------------------------------------------
(* The CPI of both simulations is over the same instructions.  Why: the    *)
(* counter is the sum of how far the threads are, and they all go to their *)
(* HALT.  A context switch must not take the cycle counter past its end.   *)
SwitchFits == cycle_count + context_switch_overhead <= UintMax

CountInv ==
  /\ inst_count = SumOf(rip)
  /\ inst_count <= cycle_count

PrintedInv == printed \in Seq([cycles : Int, insts : Int]) /\ SameInstructions

LEMMA CountStart ==
  ASSUME NEW f, f = [t \in Threads |-> 0] PROVE SumOf(f) = 0
<1>1. IsFiniteSet(Threads) /\ 0 \in Threads
  BY ThreadsAssumption, FS_Interval DEF Threads
<1>2. f \in [Threads -> Int] /\ \A t \in Threads : f[t] = 0
  OBVIOUS
<1> QED
  BY <1>1, <1>2, SumByOne

LEMMA CountStep ==
  ASSUME TypeOK, HaltInv, CyclesFit, SwitchFits, CountInv, [Next]_vars
  PROVE  CountInv'
<1>0. /\ inst_count = SumOf(rip)
      /\ cycle_count \in Nat /\ inst_count \in Nat /\ UintMax \in Nat
      /\ load_latency \in Nat /\ context_switch_overhead \in Nat
      /\ inst_count <= cycle_count
      /\ cycle_count + 1 < UintMax
  BY LatencyAssumption, WidthAssumption DEF TypeOK, CountInv, CyclesFit
<1>1. CASE RunBlocked \/ RunFinegrained
  <2>1. CASE Executes1
    <3>1. PICK inst \in Fetched : EXECUTE_inst(inst)
      BY <2>1 DEF Executes1
    <3>2. /\ rip' = [rip EXCEPT ![rr_index] = @ + 1]
          /\ cycle_count' = Uint(cycle_count + 1)
          /\ inst_count' = Uint(inst_count + 1)
      BY <3>1 DEF EXECUTE_inst
    <3>3. cycle_count' = cycle_count + 1 /\ inst_count' = inst_count + 1
      BY <1>0, <3>2, UintSmall
    <3>4. SumOf(rip') = SumOf(rip) + 1
      <4>1. IsFiniteSet(Threads)
        BY ThreadsAssumption, FS_Interval DEF Threads
      <4>2. rip \in [Threads -> Int] /\ rr_index \in Threads
        BY DEF TypeOK
      <4>3. SumOf([rip EXCEPT ![rr_index] = @ + 1]) = SumOf(rip) + 1
        BY <4>1, <4>2, SumByOne
      <4> QED
        BY <3>2, <4>3
    <3> QED
      BY <1>0, <3>3, <3>4 DEF CountInv
  <2>2. CASE Waits
    <3>1. Uint(cycle_count + 1) = cycle_count + 1
      BY <1>0, UintSmall
    <3>2. Uint(cycle_count + context_switch_overhead) = cycle_count + context_switch_overhead
      BY <1>0, UintSmall DEF SwitchFits
    <3>3. inst_count' = inst_count /\ rip' = rip
      BY <2>2 DEF Waits
    <3>4. cycle_count' \in Nat /\ cycle_count' >= cycle_count
      BY <1>0, <2>2, <3>1, <3>2 DEF Waits
    <3> QED
      BY <1>0, <3>3, <3>4 DEF CountInv
  <2> QED
    BY <1>1, <2>1, <2>2, LoopStep
<1>2. CASE Restarts
  BY <1>2, CountStart DEF Restarts, CORE_initAgain, CountInv
<1>3. CASE UNCHANGED mtVars
  BY <1>3 DEF mtVars, coreVars, CountInv
<1> QED
  BY <1>1, <1>2, <1>3, MainStep

PrintsTotals ==
  \A n \in DOMAIN printed : /\ printed[n].insts = SumOf([t \in Threads |-> Executes(t)])
                            /\ printed[n].cycles >= printed[n].insts

LEMMA SameIsSum == SameInstructions <=> PrintsTotals
  BY Zenon DEF SameInstructions, PrintsTotals, SumOf

LEMMA SameIsSumNext == SameInstructions' <=> PrintsTotals'
  BY SameIsSum, PTL

LEMMA PrintedStep ==
  ASSUME CoreInv, CountInv, PrintedInv, [Next]_vars
  PROVE  PrintedInv'
<1> DEFINE total == SumOf([t \in Threads |-> Executes(t)])
<1>1. \A t \in Threads : Executes(t)' = Executes(t)
  BY SameImage, SamePrograms DEF CoreInv
<1>2. SameInstructions' <=> \A n \in DOMAIN printed' :
                              printed'[n].insts = total /\ printed'[n].cycles >= printed'[n].insts
  <2>1. [t \in Threads |-> Executes(t)'] = [t \in Threads |-> Executes(t)]
    BY <1>1
  <2> QED
    BY <2>1, SameIsSumNext, Zenon DEF PrintsTotals
<1>3. SameInstructions <=> \A n \in DOMAIN printed :
                              printed[n].insts = total /\ printed[n].cycles >= printed[n].insts
  BY SameIsSum, Zenon DEF PrintsTotals
<1>4. CASE CORE_CPI
  <2> DEFINE line == [cycles |-> cycle_count, insts |-> inst_count]
  <2>1. TypeOK /\ HaltInv /\ ~Running
    BY <1>4 DEF CoreInv, ReportOrder, CORE_CPI
  <2>2. rip = [t \in Threads |-> Executes(t)]
    <3>1. rip \in [Threads -> Nat] /\ \A t \in Threads : rip[t] = Executes(t)
      BY <2>1, AllHalted DEF TypeOK
    <3> HIDE DEF Executes
    <3> QED
      BY <3>1
  <2>3. line \in [cycles : Int, insts : Int] /\ line.insts = total /\ line.cycles >= line.insts
    <3>1. cycle_count \in Int /\ inst_count \in Int
      BY <2>1 DEF TypeOK
    <3>2. inst_count = total /\ inst_count <= cycle_count
      BY <2>2, Zenon DEF CountInv
    <3> HIDE DEF total
    <3> QED
      BY <3>1, <3>2
  <2>4. printed' = Append(printed, line)
    BY <1>4 DEF CORE_CPI
  <2> HIDE DEF line, total
  <2>5. printed' \in Seq([cycles : Int, insts : Int])
    BY <2>3, <2>4 DEF PrintedInv
  <2>6. \A n \in DOMAIN printed' : (n \in DOMAIN printed /\ printed'[n] = printed[n]) \/ printed'[n] = line
    BY <2>4 DEF PrintedInv
  <2> QED
    BY <1>2, <1>3, <2>3, <2>5, <2>6 DEF PrintedInv
<1>5. CASE UNCHANGED printed
  <2> HIDE DEF total
  <2> QED
    BY <1>2, <1>3, <1>5 DEF PrintedInv
<1> QED
  BY <1>4, <1>5 DEF Next, vars, mainVars, LoadImage, RunBlocked, RunFinegrained, RunEnds, CTX,
       RunSecond, Exit, Done

(* Both simulations print the CPI of the same number of instructions, as   *)
(* long as the cycle counter does not reach its sentinel or wrap.          *)
THEOREM SameInstructionsCorrect ==
  Spec /\ []CyclesFit /\ []SwitchFits => []SameInstructions
<1> DEFINE Inv == CoreInv /\ CountInv /\ PrintedInv
<1>1. Init => Inv
  <2> SUFFICES ASSUME Init PROVE Inv
    OBVIOUS
  <2>1. rip = [t \in Threads |-> 0] /\ inst_count = 0 /\ cycle_count = 0
    BY DEF Init, BlockedInit, CORE_init, Threads
  <2>2. CountInv
    BY <2>1, CountStart DEF CountInv
  <2>3. PrintedInv
    BY SameIsSum DEF Init, PrintedInv, PrintsTotals
  <2> QED
    BY <2>2, <2>3, CoreInit
<1>2. Inv /\ CyclesFit /\ SwitchFits /\ [Next]_vars => Inv'
  BY CoreStep, MainTypeStep, ReportOrderStep, CountStep, PrintedStep DEF CoreInv
<1>3. Inv => SameInstructions
  BY DEF PrintedInv
<1> HIDE DEF Inv
<1> QED
  BY <1>1, <1>2, <1>3, PTL DEF Spec
-----------------------------------------------------------------------------
(* The second simulation sees the first.  The inductive invariant is that  *)
(* of ScheduleInvisible once more, on the memory each simulation starts    *)
(* from and the words either of them reaches.                              *)
AsFrom(t, image) ==
  LET alone == Alone(instructions[t], image)[rip[t]]
  IN  /\ regs[t] = alone.regs
      /\ alone.data \in [Word -> Int]
      /\ \A w \in Reach(t) : data[w] = alone.data[w]

SecondInv ==
  RaceFreeTwice =>
    \A t \in Threads : AsFrom(t, IF policy = "finegrained" THEN Leaves(t) ELSE Image)

LEMMA InReach ==
  ASSUME NEW t \in Threads, NEW i \in 1 .. Executes(t), NEW image,
         image = Image \/ image = Leaves(t),
         instructions[t][i].op \in {"LOAD", "STORE"}
  PROVE  LET w == WordOf(instructions[t][i], Alone(instructions[t], image)[i - 1].regs)
         IN  /\ w \in WordsTwice(t, {"LOAD", "STORE"})
             /\ instructions[t][i].op = "STORE" => w \in WordsTwice(t, {"STORE"})
<1> DEFINE w == WordOf(instructions[t][i], Alone(instructions[t], image)[i - 1].regs)
<1>1. /\ w \in Words(t, image, {"LOAD", "STORE"})
      /\ instructions[t][i].op = "STORE" => w \in Words(t, image, {"STORE"})
  BY DEF Words
<1> HIDE DEF w
<1>2. /\ w \in WordsTwice(t, {"LOAD", "STORE"})
      /\ instructions[t][i].op = "STORE" => w \in WordsTwice(t, {"STORE"})
  BY <1>1 DEF WordsTwice
<1> QED
  BY <1>2 DEF w

LEMMA ExecuteFrom ==
  ASSUME TypeOK, HaltInv, CyclesFit, Executes1, RaceFreeTwice, NEW I,
         \A t \in Threads : (I[t] = Image \/ I[t] = Leaves(t)) /\ AsFrom(t, I[t])
  PROVE  \A t \in Threads : AsFrom(t, I[t])'
<1>0. PICK inst \in Fetched : EXECUTE_inst(inst)
  BY DEF Executes1
<1>a. instructions' = instructions
  BY DEF Executes1, imageVars
<1>b. PICK t \in Threads : t = rr_index
  BY DEF TypeOK
<1> DEFINE p == instructions[t]
           i == rip[t] + 1
           alone == Alone(p, I[t])[rip[t]]
           F == Reach(t)
<1>1. /\ inst \in Instruction
      /\ regs[t] \in [Reg -> Int] /\ data \in [Word -> Int]
      /\ rip[t] \in Nat /\ Len(p) \in Nat
  BY FetchedType DEF TypeOK
<1>2. inst = p[i]
  BY <1>0, <1>b, NextBeforeHalt
<1>3. i \in 1 .. Executes(t) /\ i \in 1 .. Len(p) /\ i - 1 = rip[t]
  <2>1. i \in 1 .. Executes(t) /\ i \in 1 .. Len(p)
    <3> HIDE DEF Executes
    <3> QED
      BY <1>0, <1>b, NextBeforeHalt
  <2> QED
    BY <1>1, <2>1
<1>4. /\ regs[t] = alone.regs
      /\ alone.data \in [Word -> Int]
      /\ \A w \in F : data[w] = alone.data[w]
  BY DEF AsFrom
<1>5. /\ InBounds(inst, regs[t])
      /\ rip' = [rip EXCEPT ![t] = @ + 1]
      /\ regs' = [regs EXCEPT ![t] = RegsAfter(inst, @, data)]
      /\ data' = DataAfter(inst, regs[t], data)
  BY <1>0, <1>b DEF EXECUTE_inst
<1>6. /\ IsMemoryOp(inst) => WordOf(inst, regs[t]) \in F
      /\ inst.op = "STORE" => WordOf(inst, regs[t]) \in WordsTwice(t, {"STORE"})
  <2>1. ASSUME IsMemoryOp(inst)
        PROVE  /\ WordOf(inst, regs[t]) \in WordsTwice(t, {"LOAD", "STORE"})
               /\ inst.op = "STORE" => WordOf(inst, regs[t]) \in WordsTwice(t, {"STORE"})
    <3>1. p[i].op \in {"LOAD", "STORE"} /\ WordOf(inst, regs[t])
                                            = WordOf(p[i], Alone(p, I[t])[i - 1].regs)
      BY <1>2, <1>3, <1>4, <2>1 DEF IsMemoryOp
    <3> HIDE DEF Executes
    <3> QED
      BY <1>2, <1>3, <3>1, InReach
  <2>2. IsMemoryOp(inst) => WordOf(inst, regs[t]) \in Word
    BY <1>5 DEF InBounds
  <2> QED
    BY <2>1, <2>2 DEF IsMemoryOp, Reach
<1>7. Alone(p, I[t])[i] = AloneStep(inst, alone)
  BY <1>1, <1>2, <1>3, AloneUnfold
<1>8. AsFrom(t, I[t])'
  <2>1. rip'[t] = i /\ regs'[t] = RegsAfter(inst, regs[t], data)
    BY <1>5 DEF TypeOK
  <2>2. /\ RegsAfter(inst, regs[t], data) = RegsAfter(inst, regs[t], alone.data)
        /\ \A w \in F : DataAfter(inst, regs[t], data)[w] = DataAfter(inst, regs[t], alone.data)[w]
    <3>1. F \in SUBSET Word
      BY DEF Reach
    <3> HIDE DEF F, alone
    <3> QED
      BY <1>1, <1>4, <1>5, <1>6, <3>1, SameEffect
  <2>3. /\ Alone(p, I[t])[i].regs = RegsAfter(inst, regs[t], alone.data)
        /\ Alone(p, I[t])[i].data = DataAfter(inst, regs[t], alone.data)
    BY <1>4, <1>7 DEF AloneStep
  <2>4. Alone(p, I[t])[i].data \in [Word -> Int]
    <3>1. DataAfter(inst, regs[t], alone.data) \in [Word -> Int]
      <4> HIDE DEF alone
      <4> QED
        BY <1>1, <1>4, DataAfterType
    <3> QED
      BY <2>3, <3>1, Zenon
  <2> QED
    BY <1>a, <1>5, <2>1, <2>2, <2>3, <2>4, SamePrograms DEF AsFrom
<1>9. ASSUME NEW u \in Threads \ {t} PROVE AsFrom(u, I[u])'
  <2>1. rip'[u] = rip[u] /\ regs'[u] = regs[u]
    BY <1>5 DEF TypeOK
  <2>2. \A w \in Reach(u) : data'[w] = data[w]
    <3> TAKE w \in Reach(u)
    <3>1. CASE inst.op = "STORE"
      <4>1. w # WordOf(inst, regs[t])
        BY <1>6, <3>1 DEF RaceFreeTwice, Reach
      <4> QED
        BY <1>1, <1>5, <3>1, <4>1 DEF DataAfter, Reach
    <3>2. CASE inst.op # "STORE"
      BY <1>5, <3>2 DEF DataAfter
    <3> QED
      BY <3>1, <3>2
  <2>3. AsFrom(u, I[u])
    OBVIOUS
  <2> QED
    BY <1>a, <2>1, <2>2, <2>3, SamePrograms DEF AsFrom
<1> QED
  BY <1>8, <1>9

LEMMA AsFromIdle ==
  ASSUME UNCHANGED <<instructions, data, rip, regs>>, NEW t, NEW image, AsFrom(t, image)
  PROVE  AsFrom(t, image)'
  BY SamePrograms DEF AsFrom

LEMMA SecondStep ==
  ASSUME CoreInv, CyclesFit, SecondInv, [Next]_vars
  PROVE  SecondInv'
<1>0. TypeOK /\ HaltInv /\ instructions' = instructions
  BY SameImage DEF CoreInv
<1> SUFFICES ASSUME RaceFreeTwice
             PROVE  \A t \in Threads :
                      AsFrom(t, IF policy = "finegrained" THEN Leaves(t) ELSE Image)'
  BY <1>0, SamePrograms DEF SecondInv
<1>1. PICK I : I = [t \in Threads |-> IF policy = "finegrained" THEN Leaves(t) ELSE Image]
  OBVIOUS
<1>2. \A t \in Threads : (I[t] = Image \/ I[t] = Leaves(t)) /\ AsFrom(t, I[t])
  BY <1>1 DEF SecondInv
<1>3. ASSUME policy' = policy, \A t \in Threads : AsFrom(t, I[t])'
      PROVE  \A t \in Threads :
               AsFrom(t, IF policy = "finegrained" THEN Leaves(t) ELSE Image)'
  <2>1. \A t \in Threads : I[t] = (IF policy = "finegrained" THEN Leaves(t) ELSE Image)'
    BY <1>0, <1>1, <1>3, SamePrograms
  <2> QED
    BY <1>3, <2>1 DEF AsFrom
<1>4. CASE RunBlocked \/ RunFinegrained
  <2>1. policy' = policy
    BY <1>4 DEF RunBlocked, RunFinegrained, mainVars
  <2>2. Executes1 \/ Waits
    BY <1>0, <1>4, LoopStep
  <2>3. CASE Executes1
    BY <1>0, <1>2, <1>3, <2>1, <2>3, ExecuteFrom
  <2>4. CASE Waits
    <3>1. UNCHANGED <<instructions, data, rip, regs>>
      BY <2>4 DEF Waits, imageVars
    <3> QED
      BY <1>2, <1>3, <2>1, <3>1, AsFromIdle
  <2> QED
    BY <2>2, <2>3, <2>4
<1>5. CASE RunSecond
  <2> SUFFICES ASSUME NEW t \in Threads PROVE AsFrom(t, Leaves(t))'
    BY <1>5 DEF RunSecond
  <2>1. rip[t] = Executes(t)
    BY <1>0, <1>5, AllHalted DEF CoreInv, ReportOrder, RunSecond, ReportEnds
  <2>2. AsFrom(t, Image)
    BY <1>5 DEF SecondInv, RunSecond, ReportEnds
  <2>3. Leaves(t) \in [Word -> Int] /\ \A w \in Reach(t) : data[w] = Leaves(t)[w]
    BY <2>1, <2>2 DEF AsFrom, Leaves
  <2>4. /\ rip'[t] = 0 /\ regs'[t] = [r \in Reg |-> 0] /\ data' = data
        /\ Len(instructions[t]) \in Nat
    BY <1>0, <1>5 DEF RunSecond, CORE_initAgain, TypeOK
  <2>5. Alone(instructions[t], Leaves(t))[0] = AloneStart(Leaves(t))
    <3> HIDE DEF Leaves
    <3> QED
      BY <2>4, AloneUnfold
  <2>6. Leaves(t)' = Leaves(t) /\ Reach(t)' = Reach(t)
    BY <1>0, SamePrograms
  <2> HIDE DEF Leaves
  <2>7. Alone(instructions'[t], Leaves(t)')[rip'[t]] = AloneStart(Leaves(t))
    BY <1>0, <2>4, <2>5, <2>6
  <2>8. AloneStart(Leaves(t)).regs = [r \in Reg |-> 0] /\ AloneStart(Leaves(t)).data = Leaves(t)
    BY DEF AloneStart
  <2> QED
    BY <2>3, <2>4, <2>6, <2>7, <2>8 DEF AsFrom
<1>6. CASE UNCHANGED <<mtVars, policy>>
  <2>1. UNCHANGED <<instructions, data, rip, regs>> /\ policy' = policy
    BY <1>6 DEF mtVars, imageVars, coreVars
  <2> QED
    BY <1>2, <1>3, <2>1, AsFromIdle
<1> QED
  BY <1>4, <1>5, <1>6 DEF Next, vars, mainVars, LoadImage, RunEnds, CTX, CORE_CPI, Exit, Done

CopiedTwice ==
  RaceFreeTwice =>
    \A t \in Threads :
      /\ phase = "report" /\ policy = "finegrained" /\ t < k =>
           contexts["finegrained"][t] = Second(t)
      /\ phase = "exited" => contexts["finegrained"][t] = Second(t)

LEMMA CopiedTwiceStep ==
  ASSUME CoreInv, SecondInv, CopiedTwice, [Next]_vars
  PROVE  CopiedTwice'
<1>0. /\ MainType /\ ReportOrder /\ TypeOK
      /\ k \in Int
      /\ \A t \in Threads : t \in Nat /\ t < NumThreads
  BY ThreadsAssumption DEF CoreInv, Threads, MainType
<1>a. /\ RaceFreeTwice' <=> RaceFreeTwice
      /\ \A t : Second(t)' = Second(t)
  BY <1>0, SameImage, SamePrograms
<1> SUFFICES ASSUME RaceFreeTwice, NEW t \in Threads
             PROVE  /\ phase' = "report" /\ policy' = "finegrained" /\ t < k' =>
                         contexts'["finegrained"][t] = Second(t)
                    /\ phase' = "exited" => contexts'["finegrained"][t] = Second(t)
  BY <1>a DEF CopiedTwice
<1>b. /\ phase = "report" /\ policy = "finegrained" /\ t < k =>
           contexts["finegrained"][t] = Second(t)
      /\ phase = "exited" => contexts["finegrained"][t] = Second(t)
  BY DEF CopiedTwice
<1>1. CASE CTX
  <2>1. policy = "finegrained" => regs[k] = Second(k)
    BY <1>1, CTXCopies DEF SecondInv, AsFrom, Second
  <2>2. t < k' => t < k \/ t = k
    BY <1>0, <1>1, CTXCopies
  <2>3. phase = "report"
    BY <1>1 DEF CTX
  <2> HIDE DEF Second
  <2> QED
    BY <1>1, <1>b, <2>1, <2>2, <2>3, CTXCopies
<1>2. CASE RunEnds
  BY <1>0, <1>2, <1>b DEF RunEnds
<1>3. CASE LoadImage
  BY <1>3, <1>b DEF LoadImage
<1>4. CASE RunSecond
  BY <1>0, <1>4, <1>b DEF RunSecond, ReportEnds
<1>5. CASE Exit
  BY <1>0, <1>5, <1>b DEF Exit, ReportEnds
<1>6. CASE CORE_CPI
  BY <1>6, <1>b DEF CORE_CPI
<1>7. CASE UNCHANGED mainVars
  BY <1>7, <1>b DEF mainVars
<1> QED
  BY <1>1, <1>2, <1>3, <1>4, <1>5, <1>6, <1>7 DEF Next, vars, RunBlocked, RunFinegrained, Done

(* The second simulation computes over what the first one left in memory,  *)
(* when no thread's stores reach another's words in either.                *)
THEOREM SecondRunSeesFirstCorrect == Spec /\ []CyclesFit => []SecondRunSeesFirst
<1> DEFINE Inv == CoreInv /\ SecondInv /\ CopiedTwice
<1>1. Init => Inv
  <2> SUFFICES ASSUME Init PROVE Inv
    OBVIOUS
  <2>1. SIM_MemReset /\ CORE_init /\ policy = "blocked" /\ phase = "start"
    BY DEF Init, BlockedInit, SIM_MemReset, CORE_init, Threads, Reg
  <2>2. ASSUME NEW t \in Threads PROVE AsFrom(t, Image)
    <3>1. /\ rip[t] = 0 /\ regs[t] = [r \in Reg |-> 0] /\ data = Image
          /\ Len(instructions[t]) \in Nat
      BY <2>1, InitType DEF SIM_MemReset, CORE_init, TypeOK
    <3>2. Alone(instructions[t], Image)[0] = AloneStart(Image)
      BY <3>1, AloneUnfold
    <3> QED
      BY <3>1, <3>2, ImageAssumption DEF AsFrom, AloneStart
  <2>3. SecondInv
    BY <2>1, <2>2 DEF SecondInv
  <2>4. CopiedTwice
    BY <2>1 DEF CopiedTwice
  <2> QED
    BY <2>3, <2>4, CoreInit
<1>2. Inv /\ CyclesFit /\ [Next]_vars => Inv'
  BY CoreStep, MainTypeStep, ReportOrderStep, SecondStep, CopiedTwiceStep DEF CoreInv
<1>3. Inv => SecondRunSeesFirst
  BY DEF CopiedTwice, SecondRunSeesFirst, Second
<1> HIDE DEF Inv
<1> QED
  BY <1>1, <1>2, <1>3, PTL DEF Spec
=============================================================================
