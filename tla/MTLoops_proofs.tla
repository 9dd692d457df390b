----------------------------- MODULE MTLoops_proofs -----------------------------
(***************************************************************************)
(* Theorems about the two scheduling loops, for every number of threads,   *)
(* every set of programs, every latency and overhead and every width of    *)
(* the counters.  First what both loops share: the arithmetic of the round *)
(* robin, the types of what an instruction computes, the initial state and *)
(* EXECUTE_inst; then the fine-grained loop, then the blocked one.         *)
(***************************************************************************)
EXTENDS FinegrainedMT, BlockedMT, Induction_proofs, FiniteSetTheorems, TLAPS


(* Round-robin arithmetic: the remainder is a residue, and one turn forth  *)
(* or back is all it ever undoes.                                          *)
LEMMA ModRange == ASSUME NEW a \in Int, NEW n \in Nat \ {0} PROVE a % n \in 0 .. n - 1
  OBVIOUS

LEMMA ModSmall == ASSUME NEW n \in Nat \ {0}, NEW a \in 0 .. n - 1 PROVE a % n = a
  OBVIOUS

LEMMA ModTurn ==
  ASSUME NEW n \in Nat \ {0}, NEW a \in 0 .. n - 1 PROVE (a - n) % n = a
  OBVIOUS

(* The remainder of what is at most one turn below zero. *)
LEMMA ModOneTurn ==
  ASSUME NEW n \in Nat \ {0}, NEW a \in -n .. n - 1
  PROVE  a % n = IF a >= 0 THEN a ELSE a + n
<1>1. CASE a >= 0
  BY <1>1, ModSmall
<1>2. CASE a < 0
  <2>1. a + n \in 0 .. n - 1 /\ a = (a + n) - n
    BY <1>2
  <2> QED
    BY <1>2, <2>1, ModTurn
<1> QED
  BY <1>1, <1>2

LEMMA ModFull == ASSUME NEW n \in Nat \ {0} PROVE n % n = 0
  OBVIOUS

(* Counters are unsigned words, registers are integers. *)
LEMMA UintRange == ASSUME NEW v \in Int PROVE Uint(v) \in 0 .. UintMax
  BY WidthAssumption DEF Uint

LEMMA UintSmall == ASSUME NEW v \in 0 .. UintMax PROVE Uint(v) = v
  BY WidthAssumption DEF Uint

(* A counter never keeps its value when it is incremented, not even when   *)
(* it wraps.                                                               *)
LEMMA UintMoves == ASSUME NEW v \in 0 .. UintMax PROVE Uint(v + 1) # v
<1>1. UintMax \in Nat /\ UintMax # 0
  BY WidthAssumption
<1>2. CASE v < UintMax
  BY <1>1, <1>2, UintSmall
<1>3. CASE v = UintMax
  BY <1>1, <1>3, ModFull DEF Uint
<1> QED
  BY <1>1, <1>2, <1>3

LEMMA SintType == ASSUME NEW v \in Int PROVE Sint(v) \in Int
<1> DEFINE half == (UintMax + 1) \div 2
<1>1. half \in Int
  BY WidthAssumption
<1>2. Uint(v + half) \in Int
  BY <1>1, UintRange
<1> QED
  BY <1>1, <1>2 DEF Sint

LEMMA NextIndexType == TypeOK => NextIndex \in Threads
  BY ThreadsAssumption, ModRange DEF TypeOK, Threads, NextIndex

(* Seen from the next index, the thread just passed is one place back and  *)
(* the others are one place further.                                       *)
LEMMA OneBack ==
  ASSUME TypeOK, NEW k \in 1 .. NumThreads
  PROVE  (NextIndex - k) % NumThreads = (rr_index - (k - 1)) % NumThreads
<1> DEFINE N == NumThreads
<1>1. N \in Nat \ {0} /\ rr_index \in 0 .. N - 1
  BY ThreadsAssumption DEF TypeOK, Threads
<1>2. CASE rr_index + 1 < N
  <2>1. NextIndex = rr_index + 1
    BY <1>1, <1>2, ModSmall DEF NextIndex
  <2> QED
    BY <1>1, <2>1
<1>3. CASE rr_index = N - 1
  <2>1. NextIndex = 0
    BY <1>1, <1>3, ModFull DEF NextIndex
  <2>2. N - k \in 0 .. N - 1
    BY <1>1
  <2>3. (0 - k) % N = N - k
    <3>1. 0 - k = (N - k) - N
      BY <1>1
    <3> QED
      BY <1>1, <2>2, <3>1, ModTurn
  <2>4. (rr_index - (k - 1)) % N = N - k
    <3>1. rr_index - (k - 1) = N - k
      BY <1>1, <1>3
    <3> QED
      BY <1>1, <2>2, <3>1, ModSmall
  <2> QED
    BY <2>1, <2>3, <2>4
<1> QED
  BY <1>1, <1>2, <1>3

(* An instruction that stays within data[] keeps the register file and the *)
(* memory what they are.                                                   *)
LEMMA RegsAfterType ==
  ASSUME NEW inst \in Instruction, NEW r \in [Reg -> Int], NEW mem \in [Word -> Int],
         InBounds(inst, r)
  PROVE  RegsAfter(inst, r, mem) \in [Reg -> Int]
<1>1. /\ inst.dst \in Reg
      /\ r[inst.src1] \in Int
      /\ inst.src2 \in Int
      /\ inst.op \in {"ADD", "SUB"} => r[inst.src2] \in Int
  BY DEF Instruction
<1>2. \A v \in Int : Sint(v) \in Int
  BY SintType
<1>3. inst.op = "LOAD" => mem[WordOf(inst, r)] \in Int
  BY DEF InBounds, IsMemoryOp
<1> QED
  BY <1>1, <1>2, <1>3 DEF RegsAfter

LEMMA DataAfterType ==
  ASSUME NEW inst \in Instruction, NEW r \in [Reg -> Int], NEW mem \in [Word -> Int]
  PROVE  DataAfter(inst, r, mem) \in [Word -> Int]
  BY DEF DataAfter, Instruction

LEMMA FetchedType == ASSUME TypeOK, NEW inst \in Fetched PROVE inst \in Instruction
<1> DEFINE p == instructions[rr_index]
           i == rip[rr_index] + 1
<1>1. CASE rip[rr_index] < Len(p)
  <2>1. p \in Seq(Instruction) /\ rip[rr_index] \in Nat
    BY DEF TypeOK
  <2>2. i \in 1 .. Len(p)
    BY <1>1, <2>1
  <2>3. inst = p[i]
    BY <1>1 DEF Fetched, SIM_MemInstRead
  <2> QED
    BY <2>1, <2>2, <2>3
<1>2. CASE ~(rip[rr_index] < Len(p))
  BY <1>2, ProgramsAssumption DEF Fetched, SIM_MemInstRead
<1> QED
  BY <1>1, <1>2

(* The state both loops start from is well typed. *)
LEMMA InitType == SIM_MemReset /\ CORE_init => TypeOK
<1> SUFFICES ASSUME SIM_MemReset, CORE_init PROVE TypeOK
  OBVIOUS
<1>1. instructions \in [Threads -> Seq(Instruction)]
  <2>1. /\ instructions \in [Threads -> UNION {Programs[t] : t \in Threads}]
        /\ \A t \in Threads : instructions[t] \in Programs[t]
    BY DEF SIM_MemReset
  <2> QED
    BY <2>1, ProgramsAssumption
<1>2. /\ data \in [Word -> Int]
      /\ load_latency \in Latencies
      /\ store_latency \in Latencies
      /\ context_switch_overhead \in Overheads
  BY ImageAssumption DEF SIM_MemReset
<1>3. rr_index \in Threads
  BY ThreadsAssumption DEF CORE_init, Threads
<1>4. regs \in [Threads -> [Reg -> Int]]
  BY DEF CORE_init
<1> QED
  BY <1>1, <1>2, <1>3, <1>4, WidthAssumption, ThreadsAssumption DEF TypeOK, CORE_init

(* EXECUTE_inst keeps the types of everything it sets. *)
LEMMA ExecuteType ==
  ASSUME TypeOK, NEW inst \in Instruction, EXECUTE_inst(inst)
  PROVE  /\ data' \in [Word -> Int]
         /\ cycle_count' \in 0 .. UintMax
         /\ inst_count' \in 0 .. UintMax
         /\ rip' \in [Threads -> Nat]
         /\ return_cycle' \in [Threads -> 0 .. UintMax]
         /\ regs' \in [Threads -> [Reg -> Int]]
         /\ halt_count' \in Nat
<1> DEFINE t == rr_index
<1>1. t \in Threads /\ regs[t] \in [Reg -> Int] /\ data \in [Word -> Int]
  BY DEF TypeOK
<1>2. RegsAfter(inst, regs[t], data) \in [Reg -> Int]
  BY <1>1, RegsAfterType DEF EXECUTE_inst
<1>3. DataAfter(inst, regs[t], data) \in [Word -> Int]
  BY <1>1, DataAfterType
<1>4. /\ Uint(cycle_count + 1) \in 0 .. UintMax
      /\ Uint(inst_count + 1) \in 0 .. UintMax
      /\ Uint(cycle_count + 1 + load_latency) \in 0 .. UintMax
      /\ Uint(cycle_count + 1 + store_latency) \in 0 .. UintMax
  <2>1. /\ cycle_count + 1 \in Int
        /\ inst_count + 1 \in Int
        /\ cycle_count + 1 + load_latency \in Int
        /\ cycle_count + 1 + store_latency \in Int
    BY LatencyAssumption DEF TypeOK
  <2> QED
    BY <2>1, UintRange
<1>5. ReturnCycleAfter(inst, return_cycle[t]) \in 0 .. UintMax
  BY <1>1, <1>4, WidthAssumption DEF ReturnCycleAfter, TypeOK
<1> QED
  BY <1>1, <1>2, <1>3, <1>4, <1>5 DEF EXECUTE_inst, TypeOK
(* An instruction that a running thread executes before its HALT is one of *)
(* its program.                                                            *)
LEMMA FetchedIsProgram ==
  ASSUME TypeOK, ~Halted(rr_index), NEW inst \in Fetched,
         Halts(rr_index) # {}
  PROVE  /\ rip[rr_index] + 1 \in 1 .. Len(instructions[rr_index])
         /\ inst = instructions[rr_index][rip[rr_index] + 1]
<1>1. /\ rip[rr_index] \in Nat
      /\ instructions[rr_index] \in Seq(Instruction)
  BY DEF TypeOK
<1>2. PICK i \in Halts(rr_index) : TRUE
  OBVIOUS
<1>3. i \in 1 .. Len(instructions[rr_index]) /\ ~(i <= rip[rr_index])
  BY <1>2 DEF Halts, Halted
<1>4. rip[rr_index] < Len(instructions[rr_index])
  BY <1>1, <1>3
<1> QED
  BY <1>1, <1>4 DEF Fetched, SIM_MemInstRead

(* Every program has a HALT, and no step changes a program.                *)
EveryProgramHalts == \A t \in Threads : Halts(t) # {}

LEMMA InitHalts == SIM_MemReset => EveryProgramHalts
<1> SUFFICES ASSUME SIM_MemReset, NEW t \in Threads PROVE Halts(t) # {}
  BY DEF EveryProgramHalts
<1>1. instructions[t] \in Programs[t]
  BY DEF SIM_MemReset
<1>2. \E i \in 1 .. Len(instructions[t]) : instructions[t][i].op = "HALT"
  BY <1>1, ProgramsAssumption
<1> QED
  BY <1>2 DEF Halts

(* The inductive invariant behind the safety properties: the sentinel      *)
(* tells exactly the halted threads, which is what keeps them off the core.*)
HaltInv ==
  /\ EveryProgramHalts
  /\ SentinelExact
  /\ NeverPastHalt
  /\ HaltCountExact

LEMMA InitHaltInv == SIM_MemReset /\ CORE_init => HaltInv
<1> SUFFICES ASSUME SIM_MemReset, CORE_init PROVE HaltInv
  OBVIOUS
<1>1. ASSUME NEW t \in Threads PROVE ~Halted(t) /\ \A i \in Halts(t) : rip[t] <= i
  <2>1. rip[t] = 0
    BY DEF CORE_init
  <2>2. \A i \in Halts(t) : i \in Nat /\ i >= 1
    <3>1. Len(instructions[t]) \in Nat
      BY InitType DEF TypeOK
    <3> QED
      BY <3>1 DEF Halts
  <2> QED
    BY <2>1, <2>2 DEF Halted
<1>2. {t \in Threads : Halted(t)} = {}
  BY <1>1
<1>3. HaltCountExact
  BY <1>2, FS_EmptySet DEF HaltCountExact, CORE_init
<1>4. SentinelExact
  BY <1>1, WidthAssumption DEF SentinelExact, CORE_init
<1> QED
  BY <1>1, <1>3, <1>4, InitHalts DEF HaltInv, NeverPastHalt

(* A step that executes nothing leaves it all alone.                       *)
LEMMA HaltInvIdle ==
  ASSUME HaltInv, UNCHANGED <<instructions, rip, return_cycle, halt_count>>
  PROVE  HaltInv'
  BY DEF HaltInv, EveryProgramHalts, SentinelExact, NeverPastHalt, HaltCountExact,
         Halted, Halts
(* Executing an instruction of an available thread keeps the invariant:    *)
(* below UINT32_MAX no latency reaches the sentinel, so the thread was not *)
(* halted, and it is afterwards exactly when the instruction is its HALT.  *)
LEMMA ExecuteHaltInv ==
  ASSUME TypeOK, HaltInv, CyclesFit, Available(rr_index), NEW inst \in Fetched,
         EXECUTE_inst(inst), UNCHANGED instructions
  PROVE  HaltInv'
<1>0. PICK t \in Threads : t = rr_index
  BY DEF TypeOK
<1> DEFINE p == instructions[t]
           H == {u \in Threads : Halted(u)}
<1>1. /\ t = rr_index
      /\ rip[t] \in Nat
      /\ cycle_count \in Nat /\ load_latency \in Nat /\ store_latency \in Nat
      /\ UintMax \in Nat
      /\ Len(p) \in Nat
  BY <1>0, WidthAssumption, LatencyAssumption DEF TypeOK
<1>2. return_cycle[t] # UintMax
  BY <1>1 DEF Available, CyclesFit
<1>3. ~Halted(t) /\ \A i \in Halts(t) : rip[t] < i
  BY <1>1, <1>2 DEF HaltInv, SentinelExact, Halted, Halts
<1>4. rip[t] + 1 \in 1 .. Len(p) /\ inst = p[rip[t] + 1]
  BY <1>1, <1>3, FetchedIsProgram DEF HaltInv, EveryProgramHalts
<1>5. /\ rip' = [rip EXCEPT ![t] = @ + 1]
      /\ return_cycle' = [return_cycle EXCEPT ![t] = ReturnCycleAfter(inst, @)]
      /\ halt_count' = IF inst.op = "HALT" THEN halt_count + 1 ELSE halt_count
      /\ instructions' = instructions
  BY <1>1 DEF EXECUTE_inst
<1>6. rip'[t] = rip[t] + 1 /\ \A u \in Threads \ {t} : rip'[u] = rip[u]
  BY <1>1, <1>5 DEF TypeOK
<1>7. \A u \in Threads \ {t} : Halted(u)' <=> Halted(u)
  BY <1>5, <1>6 DEF Halted, Halts
<1>8. Halted(t)' <=> inst.op = "HALT"
  <2>1. Halted(t)' <=> \E i \in Halts(t) : i <= rip[t] + 1
    BY <1>1, <1>5, <1>6 DEF Halted, Halts
  <2>2. \A i \in Halts(t) : i <= rip[t] + 1 <=> i = rip[t] + 1
    BY <1>1, <1>3 DEF Halts
  <2>3. rip[t] + 1 \in Halts(t) <=> inst.op = "HALT"
    BY <1>4 DEF Halts
  <2> QED
    BY <2>1, <2>2, <2>3
<1>9. return_cycle'[t] = UintMax <=> inst.op = "HALT"
  <2>1. return_cycle'[t] = ReturnCycleAfter(inst, return_cycle[t])
    BY <1>1, <1>5 DEF TypeOK
  <2>2. /\ Uint(cycle_count + 1 + load_latency) # UintMax
        /\ Uint(cycle_count + 1 + store_latency) # UintMax
    BY <1>1, UintSmall DEF CyclesFit
  <2> QED
    BY <1>2, <2>1, <2>2 DEF ReturnCycleAfter
<1>10. SentinelExact'
  <2>1. \A u \in Threads \ {t} : return_cycle'[u] = return_cycle[u]
    BY <1>1, <1>5 DEF TypeOK
  <2>2. \A u \in Threads : return_cycle'[u] = UintMax <=> Halted(u)'
    BY <1>7, <1>8, <1>9, <2>1 DEF HaltInv, SentinelExact
  <2> QED
    BY <2>2 DEF SentinelExact
<1>11. NeverPastHalt'
  <2>1. \A u \in Threads : \A i \in Halts(u) : rip'[u] <= i
    BY <1>1, <1>3, <1>6 DEF HaltInv, NeverPastHalt, Halts
  <2> QED
    BY <1>5, <2>1 DEF NeverPastHalt, Halts
<1>12. HaltCountExact'
  <2>1. H \in SUBSET Threads /\ IsFiniteSet(H)
    <3>1. IsFiniteSet(Threads)
      BY FS_Interval, ThreadsAssumption DEF Threads
    <3> QED
      BY <3>1, FS_Subset
  <2>2. {u \in Threads : Halted(u)}' = IF inst.op = "HALT" THEN H \cup {t} ELSE H
    <3>1. ASSUME NEW u \in Threads
          PROVE  Halted(u)' <=> u \in IF inst.op = "HALT" THEN H \cup {t} ELSE H
      BY <1>3, <1>7, <1>8
    <3> QED
      BY <1>1, <3>1
  <2>3. Cardinality(H \cup {t}) = Cardinality(H) + 1
    BY <1>3, <2>1, FS_AddElement
  <2> QED
    BY <1>5, <2>2, <2>3 DEF HaltInv, HaltCountExact
<1>13. EveryProgramHalts'
  BY <1>5 DEF HaltInv, EveryProgramHalts, Halts
<1> QED
  BY <1>10, <1>11, <1>12, <1>13 DEF HaltInv
-----------------------------------------------------------------------------
(* What the policies see of an instruction that an available thread        *)
(* executes: it is the next of its program, the cycle passes, the thread   *)
(* is ready after its latency, and halted when the instruction says so.    *)
LEMMA ExecuteEffect ==
  ASSUME TypeOK, HaltInv, CyclesFit, NEW t \in Threads, t = rr_index, Available(t),
         NEW inst \in Fetched, EXECUTE_inst(inst), UNCHANGED imageVars
  PROVE  /\ rip[t] < Len(instructions[t])
         /\ inst = instructions[t][rip[t] + 1]
         /\ cycle_count' = cycle_count + 1
         /\ HaltedThreads' = IF inst.op = "HALT" THEN HaltedThreads \cup {t}
                                                ELSE HaltedThreads
         /\ ReadyAt' = [ReadyAt EXCEPT ![t] =
                          CASE IsMemoryOp(inst)   -> cycle_count + 1 + LatencyOf[inst.op]
                            [] inst.op = "HALT"   -> 0
                            [] OTHER              -> @]
<1>1. /\ inst \in Instruction
      /\ cycle_count \in Nat /\ load_latency \in Nat /\ store_latency \in Nat
      /\ UintMax \in Nat /\ return_cycle[t] \in Nat
  BY FetchedType, LatencyAssumption, WidthAssumption DEF TypeOK
<1>2. return_cycle[t] # UintMax /\ ~Halted(t)
  BY <1>1 DEF Available, CyclesFit, HaltInv, SentinelExact
<1>3. /\ rip[t] < Len(instructions[t])
      /\ inst = instructions[t][rip[t] + 1]
  <2>1. rip[t] + 1 \in 1 .. Len(instructions[t]) /\ inst = instructions[t][rip[t] + 1]
    BY <1>2, FetchedIsProgram DEF HaltInv, EveryProgramHalts
  <2>2. rip[t] \in Nat /\ Len(instructions[t]) \in Nat
    BY DEF TypeOK
  <2> QED
    BY <2>1, <2>2
<1>4. /\ return_cycle' = [return_cycle EXCEPT ![t] = ReturnCycleAfter(inst, @)]
      /\ cycle_count' = Uint(cycle_count + 1)
  BY DEF EXECUTE_inst
<1>5. /\ cycle_count' = cycle_count + 1
      /\ Uint(cycle_count + 1 + load_latency) = cycle_count + 1 + load_latency
      /\ Uint(cycle_count + 1 + store_latency) = cycle_count + 1 + store_latency
  <2>1. /\ cycle_count + 1 \in 0 .. UintMax
        /\ cycle_count + 1 + load_latency \in 0 .. UintMax
        /\ cycle_count + 1 + store_latency \in 0 .. UintMax
    BY <1>1 DEF CyclesFit
  <2> QED
    BY <1>4, <2>1, UintSmall
<1>6. /\ return_cycle'[t] = ReturnCycleAfter(inst, return_cycle[t])
      /\ \A u \in Threads \ {t} : return_cycle'[u] = return_cycle[u]
  BY <1>4 DEF TypeOK
<1>7. /\ Halted(t)' <=> inst.op = "HALT"
      /\ \A u \in Threads \ {t} : Halted(u)' <=> Halted(u)
  <2>1. SentinelExact'
    BY ExecuteHaltInv DEF HaltInv, imageVars
  <2>2. \A u \in Threads : return_cycle'[u] = UintMax <=> Halted(u)'
    BY <2>1 DEF SentinelExact
  <2>3. return_cycle'[t] = UintMax <=> inst.op = "HALT"
    BY <1>1, <1>2, <1>5, <1>6 DEF ReturnCycleAfter, CyclesFit
  <2> QED
    BY <1>6, <2>2, <2>3 DEF HaltInv, SentinelExact
<1>8. HaltedThreads' = IF inst.op = "HALT" THEN HaltedThreads \cup {t} ELSE HaltedThreads
  <2>1. ASSUME NEW u \in Threads
        PROVE  Halted(u)' <=> Halted(u) \/ (inst.op = "HALT" /\ u = t)
    BY <1>2, <1>7
  <2> QED
    BY <2>1 DEF HaltedThreads
<1>9. ReadyAt' = [ReadyAt EXCEPT ![t] =
                    CASE IsMemoryOp(inst)   -> cycle_count + 1 + LatencyOf[inst.op]
                      [] inst.op = "HALT"   -> 0
                      [] OTHER              -> @]
  <2>1. ReadyAt'[t] = CASE IsMemoryOp(inst)   -> cycle_count + 1 + LatencyOf[inst.op]
                        [] inst.op = "HALT"   -> 0
                        [] OTHER              -> ReadyAt[t]
    <3>1. ReadyAt'[t] = IF inst.op = "HALT" THEN 0
                        ELSE ReturnCycleAfter(inst, return_cycle[t])
      BY <1>6, <1>7 DEF ReadyAt
    <3>2. ReadyAt[t] = return_cycle[t]
      BY <1>2 DEF ReadyAt
    <3>3. /\ inst.op = "LOAD" => LatencyOf[inst.op] = load_latency
          /\ inst.op = "STORE" => LatencyOf[inst.op] = store_latency
      BY DEF LatencyOf
    <3> QED
      BY <1>5, <3>1, <3>2, <3>3 DEF ReturnCycleAfter, IsMemoryOp
  <2>2. \A u \in Threads \ {t} : ReadyAt'[u] = ReadyAt[u]
    BY <1>6, <1>7 DEF ReadyAt
  <2>3. /\ ReadyAt = [u \in Threads |-> ReadyAt[u]]
        /\ ReadyAt' = [u \in Threads |-> ReadyAt'[u]]
    BY DEF ReadyAt
  <2> QED
    BY <2>1, <2>2, <2>3
<1> QED
  BY <1>3, <1>5, <1>8, <1>9

(* While the loop runs, some thread is still to halt.                      *)
LEMMA RunningNotHalted ==
  ASSUME TypeOK, HaltCountExact, Running
  PROVE  HaltedThreads # Threads
<1>1. Cardinality(Threads) = NumThreads
  BY ThreadsAssumption, FS_Interval DEF Threads
<1>2. Cardinality(HaltedThreads) # NumThreads
  BY ThreadsAssumption DEF HaltCountExact, HaltedThreads, Running, TypeOK
<1> QED
  BY <1>1, <1>2
-----------------------------------------------------------------------------
(* A thread running by itself, from the equation that defines it: Alone is *)
(* a function that satisfies its equation because, by induction on the     *)
(* number of instructions, there is one.                                   *)
AloneStart(image) == [regs |-> [r \in Reg |-> 0], data |-> image]
AloneStep(inst, before) ==
  [regs |-> RegsAfter(inst, before.regs, before.data),
   data |-> DataAfter(inst, before.regs, before.data)]

LEMMA AloneUnfold ==
  ASSUME NEW program, NEW image, Len(program) \in Nat
  PROVE  /\ Alone(program, image)[0] = AloneStart(image)
         /\ \A k \in 1 .. Len(program) :
              Alone(program, image)[k]
                = AloneStep(program[k], Alone(program, image)[k - 1])
<1> DEFINE run == CHOOSE g : g = [k \in 0 .. Len(program) |->
                    IF k = 0 THEN AloneStart(image) ELSE AloneStep(program[k], g[k - 1])]
<1>1. Alone(program, image) = run
  BY DEF Alone, AloneStart, AloneStep
<1>2. \E g : g = [k \in 0 .. Len(program) |->
                   IF k = 0 THEN AloneStart(image) ELSE AloneStep(program[k], g[k - 1])]
  <2> DEFINE S == {n \in Nat : \E r : r = [k \in 0 .. n |->
                     IF k = 0 THEN AloneStart(image) ELSE AloneStep(program[k], r[k - 1])]}
  <2>1. 0 \in S
    <3> DEFINE r == [k \in 0 .. 0 |-> AloneStart(image)]
    <3>1. r = [k \in 0 .. 0 |-> IF k = 0 THEN AloneStart(image)
                                ELSE AloneStep(program[k], r[k - 1])]
      OBVIOUS
    <3> QED
      BY <3>1
  <2>2. ASSUME NEW n \in Nat, n \in S PROVE n + 1 \in S
    <3>1. PICK r : r = [k \in 0 .. n |-> IF k = 0 THEN AloneStart(image)
                                             ELSE AloneStep(program[k], r[k - 1])]
      BY <2>2
    <3> DEFINE longer == [k \in 0 .. n + 1 |->
                            IF k = 0 THEN AloneStart(image) ELSE AloneStep(program[k], r[k - 1])]
    <3>2. \A k \in 0 .. n : longer[k] = r[k]
      <4>1. \A k \in 0 .. n : r[k] = IF k = 0 THEN AloneStart(image)
                                       ELSE AloneStep(program[k], r[k - 1])
        BY <3>1
      <4> QED
        BY <4>1
    <3>3. longer = [k \in 0 .. n + 1 |-> IF k = 0 THEN AloneStart(image)
                                         ELSE AloneStep(program[k], longer[k - 1])]
      <4>1. \A k \in 0 .. n + 1 : k # 0 => longer[k - 1] = r[k - 1]
        <5>1. \A k \in 0 .. n + 1 : k # 0 => k - 1 \in 0 .. n
          OBVIOUS
        <5> HIDE DEF longer
        <5> QED
          BY <3>2, <5>1
      <4> QED
        BY <4>1
    <3> HIDE DEF longer
    <3>4. \E run2 : run2 = [k \in 0 .. n + 1 |-> IF k = 0 THEN AloneStart(image)
                                                ELSE AloneStep(program[k], run2[k - 1])]
      BY <3>3
    <3>5. n + 1 \in Nat
      OBVIOUS
    <3> QED
      BY <3>4, <3>5
  <2>3. Nat \subseteq S
    <3> HIDE DEF S
    <3> QED
      BY <2>1, <2>2, Induction
  <2> QED
    BY <2>3
<1>3. run = [k \in 0 .. Len(program) |->
               IF k = 0 THEN AloneStart(image) ELSE AloneStep(program[k], run[k - 1])]
  BY <1>2, Zenon
<1> HIDE DEF run
<1>4. /\ run[0] = AloneStart(image)
      /\ \A k \in 1 .. Len(program) : run[k] = AloneStep(program[k], run[k - 1])
  BY <1>3
<1> QED
  BY <1>1, <1>4

(* The cycles a program's first n instructions take, as OwnCycles adds     *)
(* them up.                                                                *)
CyclesOf(inst, loading, storing) ==
  1 + CASE inst.op = "LOAD"  -> loading
        [] inst.op = "STORE" -> storing
        [] OTHER             -> 0

SpentOf(program, loading, storing, n) ==
  LET spent[k \in 0 .. n] ==
        IF k = 0 THEN 0 ELSE spent[k - 1] + CyclesOf(program[k], loading, storing)
  IN  spent[n]

(* So it starts at zero and grows by each instruction's own cycles.        *)
LEMMA SpentUnfold ==
  ASSUME NEW program, NEW loading \in Nat, NEW storing \in Nat, NEW N \in Nat
  PROVE  /\ SpentOf(program, loading, storing, 0) = 0
         /\ SpentOf(program, loading, storing, N + 1)
              = SpentOf(program, loading, storing, N) + CyclesOf(program[N + 1], loading, storing)
         /\ SpentOf(program, loading, storing, N) \in Nat
<1> DEFINE Cost(k) == CyclesOf(program[k], loading, storing)
           Table(n) == CHOOSE f : f = [k \in 0 .. n |-> IF k = 0 THEN 0 ELSE f[k - 1] + Cost(k)]
<1>0. \A n \in Nat : \E f : f = [k \in 0 .. n |-> IF k = 0 THEN 0 ELSE f[k - 1] + Cost(k)]
  <2> HIDE DEF Cost
  <2> DEFINE S == {n \in Nat : \E f : f = [k \in 0 .. n |-> IF k = 0 THEN 0 ELSE f[k - 1] + Cost(k)]}
  <2>1. 0 \in S
    <3> DEFINE f == [k \in 0 .. 0 |-> 0]
    <3>1. f = [k \in 0 .. 0 |-> IF k = 0 THEN 0 ELSE f[k - 1] + Cost(k)]
      OBVIOUS
    <3> QED
      BY <3>1
  <2>2. ASSUME NEW n \in Nat, n \in S PROVE n + 1 \in S
    <3>1. PICK f : f = [k \in 0 .. n |-> IF k = 0 THEN 0 ELSE f[k - 1] + Cost(k)]
      BY <2>2
    <3> DEFINE g == [k \in 0 .. n + 1 |-> IF k = 0 THEN 0 ELSE f[k - 1] + Cost(k)]
    <3>2. \A k \in 0 .. n : g[k] = f[k]
      <4>1. \A k \in 0 .. n : f[k] = IF k = 0 THEN 0 ELSE f[k - 1] + Cost(k)
        BY <3>1
      <4> QED
        BY <4>1
    <3>3. g = [k \in 0 .. n + 1 |-> IF k = 0 THEN 0 ELSE g[k - 1] + Cost(k)]
      <4>1. \A k \in 0 .. n + 1 : k # 0 => g[k - 1] = f[k - 1]
        <5>1. \A k \in 0 .. n + 1 : k # 0 => k - 1 \in 0 .. n
          OBVIOUS
        <5> HIDE DEF g
        <5> QED
          BY <3>2, <5>1
      <4> QED
        BY <4>1
    <3> HIDE DEF g
    <3>4. \E h : h = [k \in 0 .. n + 1 |-> IF k = 0 THEN 0 ELSE h[k - 1] + Cost(k)]
      BY <3>3
    <3> QED
      BY <3>4
  <2>3. Nat \subseteq S
    <3> HIDE DEF S
    <3> QED
      BY <2>1, <2>2, Induction
  <2> QED
    BY <2>3
<1>1. ASSUME NEW n \in Nat
      PROVE  /\ SpentOf(program, loading, storing, n) = Table(n)[n]
             /\ Table(n)[0] = 0
             /\ \A k \in 1 .. n : Table(n)[k] = Table(n)[k - 1] + Cost(k)
  <2>1. SpentOf(program, loading, storing, n) = Table(n)[n]
    BY DEF SpentOf
  <2>2. \E f : f = [k \in 0 .. n |-> IF k = 0 THEN 0 ELSE f[k - 1] + Cost(k)]
    BY <1>0
  <2>3. Table(n) = [k \in 0 .. n |-> IF k = 0 THEN 0 ELSE Table(n)[k - 1] + Cost(k)]
    <3> HIDE DEF Cost
    <3> QED
      BY <2>2, Zenon
  <2> HIDE DEF Table, Cost
  <2>4. /\ Table(n)[0] = 0
        /\ \A k \in 1 .. n : Table(n)[k] = Table(n)[k - 1] + Cost(k)
    BY <2>3
  <2> QED
    BY <2>1, <2>4
<1>2. \A k : Cost(k) \in Nat
  BY DEF CyclesOf
<1> HIDE DEF Table, Cost
<1>3. \A k \in 0 .. N : Table(N)[k] = Table(N + 1)[k] /\ Table(N)[k] \in Nat
  <2> DEFINE S == {k \in 0 .. N : Table(N)[k] = Table(N + 1)[k] /\ Table(N)[k] \in Nat}
  <2>1. 0 \in S
    BY <1>1
  <2>2. ASSUME NEW k \in 0 .. N - 1, k \in S PROVE k + 1 \in S
    <3>1. k + 1 \in 1 .. N /\ k + 1 \in 1 .. N + 1 /\ (k + 1) - 1 = k
      OBVIOUS
    <3>2. /\ Table(N)[k + 1] = Table(N)[k] + Cost(k + 1)
          /\ Table(N + 1)[k + 1] = Table(N + 1)[k] + Cost(k + 1)
      BY <1>1, <3>1
    <3> QED
      BY <1>2, <2>2, <3>1, <3>2
  <2>3. 0 .. N \subseteq S
    <3> HIDE DEF S
    <3> QED
      BY <2>1, <2>2, InductionTo
  <2> QED
    BY <2>3
<1>4. Table(N + 1)[N + 1] = Table(N + 1)[N] + Cost(N + 1)
  BY <1>1
<1> QED
  BY <1>1, <1>3, <1>4 DEF Cost

(* The inductive invariant behind LatencyCharged: what a running thread    *)
(* has spent is past, or will be when it is available again.               *)
ChargedInv ==
  \A t \in Threads :
    ~Halted(t) => OwnCycles(t) <= cycle_count \/ OwnCycles(t) <= return_cycle[t]

LEMMA OwnIsSpent ==
  ASSUME NEW t
  PROVE  OwnCycles(t) = SpentOf(instructions[t], load_latency, store_latency, rip[t])
  BY DEF OwnCycles, SpentOf, InstCycles, CyclesOf

LEMMA OwnIsSpentNext ==
  ASSUME NEW t
  PROVE  OwnCycles(t)' = SpentOf(instructions'[t], load_latency', store_latency', rip'[t])
  BY DEF OwnCycles, SpentOf, InstCycles, CyclesOf

LEMMA ChargedInit == SIM_MemReset /\ CORE_init => ChargedInv
<1> SUFFICES ASSUME SIM_MemReset, CORE_init, NEW t \in Threads
             PROVE  OwnCycles(t) <= cycle_count
  BY DEF ChargedInv
<1>1. rip[t] = 0 /\ cycle_count = 0 /\ load_latency \in Nat /\ store_latency \in Nat
  BY LatencyAssumption DEF SIM_MemReset, CORE_init
<1>2. OwnCycles(t) = 0
  BY <1>1, OwnIsSpent, SpentUnfold
<1> QED
  BY <1>1, <1>2

(* Time alone takes nothing back. *)
LEMMA ChargedIdle ==
  ASSUME TypeOK, ChargedInv, UNCHANGED <<imageVars, rip, return_cycle>>,
         cycle_count' \in Nat, cycle_count <= cycle_count'
  PROVE  ChargedInv'
<1> SUFFICES ASSUME NEW t \in Threads, ~Halted(t)'
             PROVE  OwnCycles(t)' <= cycle_count' \/ OwnCycles(t)' <= return_cycle'[t]
  BY DEF ChargedInv
<1>1. OwnCycles(t)' = OwnCycles(t) /\ return_cycle'[t] = return_cycle[t]
  BY OwnIsSpent, OwnIsSpentNext DEF imageVars
<1>2. ~Halted(t)
  BY DEF Halted, Halts, imageVars
<1>3. OwnCycles(t) \in Nat
  BY OwnIsSpent, SpentUnfold, LatencyAssumption DEF TypeOK
<1>4. cycle_count \in Nat
  BY DEF TypeOK
<1> QED
  BY <1>1, <1>2, <1>3, <1>4 DEF ChargedInv

(* An instruction is charged its cycle and its latency, in the cycle       *)
(* counter or in the return cycle of its thread.                           *)
LEMMA ExecuteCharged ==
  ASSUME TypeOK, HaltInv, CyclesFit, ChargedInv, Available(rr_index),
         NEW inst \in Fetched, EXECUTE_inst(inst), UNCHANGED imageVars
  PROVE  ChargedInv'
<1>0. PICK t \in Threads : t = rr_index
  BY DEF TypeOK
<1> DEFINE load == load_latency
           store == store_latency
           own == OwnCycles(t)
<1>1. /\ cycle_count \in Nat /\ load \in Nat /\ store \in Nat /\ UintMax \in Nat
      /\ rip[t] \in Nat
      /\ return_cycle[t] \in Nat
  BY LatencyAssumption, WidthAssumption DEF TypeOK
<1>2. return_cycle[t] # UintMax /\ ~Halted(t) /\ return_cycle[t] <= cycle_count
  BY <1>0, <1>1 DEF Available, CyclesFit, HaltInv, SentinelExact
<1>3. /\ inst = instructions[t][rip[t] + 1]
      /\ cycle_count' = cycle_count + 1
  BY <1>0, ExecuteEffect
<1>4. own \in Nat /\ own <= cycle_count
  <2>1. own \in Nat
    BY <1>1, OwnIsSpent, SpentUnfold
  <2> QED
    BY <1>1, <1>2, <2>1 DEF ChargedInv
<1>5. /\ rip'[t] = rip[t] + 1
      /\ return_cycle'[t] = ReturnCycleAfter(inst, return_cycle[t])
      /\ \A u \in Threads \ {t} : rip'[u] = rip[u] /\ return_cycle'[u] = return_cycle[u]
  BY <1>0 DEF EXECUTE_inst, TypeOK
<1>6. OwnCycles(t)' = own + CyclesOf(inst, load, store)
  <2>1. OwnCycles(t)' = SpentOf(instructions[t], load, store, rip[t] + 1)
    BY <1>5, OwnIsSpentNext DEF imageVars
  <2>2. SpentOf(instructions[t], load, store, rip[t] + 1)
          = SpentOf(instructions[t], load, store, rip[t]) + CyclesOf(inst, load, store)
    <3>1. rip[t] \in Nat /\ load \in Nat /\ store \in Nat
      BY <1>1
    <3>2. SpentOf(instructions[t], load, store, rip[t] + 1)
            = SpentOf(instructions[t], load, store, rip[t])
                + CyclesOf(instructions[t][rip[t] + 1], load, store)
      <4> HIDE DEF load, store
      <4> QED
        BY <3>1, SpentUnfold, Zenon
    <3> QED
      BY <1>3, <3>2
  <2> QED
    BY <2>1, <2>2, OwnIsSpent
<1>7. /\ Uint(cycle_count + 1 + load) = cycle_count + 1 + load
      /\ Uint(cycle_count + 1 + store) = cycle_count + 1 + store
  <2>1. cycle_count + 1 + load \in 0 .. UintMax /\ cycle_count + 1 + store \in 0 .. UintMax
    BY <1>1 DEF CyclesFit
  <2> QED
    BY <2>1, UintSmall
<1>8. OwnCycles(t)' <= cycle_count' \/ OwnCycles(t)' <= return_cycle'[t]
  BY <1>1, <1>3, <1>4, <1>5, <1>6, <1>7 DEF CyclesOf, ReturnCycleAfter
<1>9. ASSUME NEW u \in Threads \ {t}, ~Halted(u)'
      PROVE  OwnCycles(u)' <= cycle_count' \/ OwnCycles(u)' <= return_cycle'[u]
  <2>1. OwnCycles(u)' = OwnCycles(u)
    BY <1>5, OwnIsSpent, OwnIsSpentNext DEF imageVars
  <2>2. ~Halted(u)
    BY <1>5, <1>9 DEF Halted, Halts, imageVars
  <2>3. OwnCycles(u) \in Nat
    BY <1>1, OwnIsSpent, SpentUnfold DEF TypeOK
  <2> QED
    BY <1>1, <1>3, <1>5, <2>1, <2>2, <2>3 DEF ChargedInv
<1> QED
  BY <1>8, <1>9 DEF ChargedInv

(* A halted thread is never available, so nothing is owed when one is.     *)
LEMMA ChargedSuffices ==
  ASSUME TypeOK, HaltInv, CyclesFit, ChargedInv
  PROVE  LatencyCharged
<1> SUFFICES ASSUME NEW t \in Threads, Available(t)
             PROVE  OwnCycles(t) <= cycle_count
  BY DEF LatencyCharged
<1>1. /\ cycle_count \in Nat /\ load_latency \in Nat /\ store_latency \in Nat
      /\ UintMax \in Nat /\ rip[t] \in Nat /\ return_cycle[t] \in Nat
  BY LatencyAssumption, WidthAssumption DEF TypeOK
<1>2. ~Halted(t) /\ return_cycle[t] <= cycle_count
  BY <1>1 DEF Available, CyclesFit, HaltInv, SentinelExact
<1>3. OwnCycles(t) \in Nat
  BY <1>1, OwnIsSpent, SpentUnfold
<1> QED
  BY <1>1, <1>2, <1>3 DEF ChargedInv
-----------------------------------------------------------------------------
(* The inductive invariant behind ScheduleInvisible.  The registers of a   *)
(* thread depend on memory through the words it loads, so the invariant    *)
(* must speak of memory too: every word of its footprint is what the       *)
(* thread would find there if it ran alone.                                *)
AsAlone(t) ==
  LET alone == Alone(instructions[t], Image)[rip[t]]
  IN  /\ regs[t] = alone.regs
      /\ alone.data \in [Word -> Int]
      /\ \A w \in Touches(t, {"LOAD", "STORE"}) \cap Word : data[w] = alone.data[w]

SchedInv == RaceFree => \A t \in Threads : AsAlone(t)

LEMMA SchedSuffices == SchedInv => ScheduleInvisible
  BY DEF SchedInv, AsAlone, ScheduleInvisible

LEMMA SchedInit == SIM_MemReset /\ CORE_init => SchedInv
<1> SUFFICES ASSUME SIM_MemReset, CORE_init, NEW t \in Threads PROVE AsAlone(t)
  BY DEF SchedInv
<1>1. Len(instructions[t]) \in Nat /\ rip[t] = 0 /\ data = Image
  BY InitType DEF SIM_MemReset, CORE_init, TypeOK
<1>2. Alone(instructions[t], Image)[rip[t]] = AloneStart(Image)
  BY <1>1, AloneUnfold
<1>3. regs[t] = [r \in Reg |-> 0]
  BY DEF CORE_init
<1> QED
  BY <1>1, <1>2, <1>3, ImageAssumption DEF AsAlone, AloneStart

(* Footprints are those of the programs, and no step changes a program. *)
LEMMA SameFootprint ==
  ASSUME instructions' = instructions
  PROVE  /\ \A t, ops : Touches(t, ops)' = Touches(t, ops)
         /\ RaceFree' <=> RaceFree
<1>1. \A t, ops : Touches(t, ops)' = Touches(t, ops)
  BY DEF Touches
<1>2. RaceFree' <=> RaceFree
  BY <1>1 DEF RaceFree
<1> QED
  BY <1>1, <1>2

LEMMA SchedIdle ==
  ASSUME SchedInv, UNCHANGED <<instructions, data, rip, regs>> PROVE SchedInv'
<1> SUFFICES ASSUME RaceFree, NEW t \in Threads PROVE AsAlone(t)'
  BY SameFootprint DEF SchedInv
<1>1. AsAlone(t)
  BY DEF SchedInv
<1>2. Touches(t, {"LOAD", "STORE"})' = Touches(t, {"LOAD", "STORE"})
  BY SameFootprint
<1> QED
  BY <1>1, <1>2 DEF AsAlone

(* The instruction a thread executes does to its registers, and to the     *)
(* words of its footprint, what it does when the thread runs alone.        *)
LEMMA SameEffect ==
  ASSUME NEW inst \in Instruction, NEW r \in [Reg -> Int],
         NEW mem \in [Word -> Int], NEW mine \in [Word -> Int], NEW F \in SUBSET Word,
         InBounds(inst, r),
         IsMemoryOp(inst) => WordOf(inst, r) \in F,
         \A w \in F : mem[w] = mine[w]
  PROVE  /\ RegsAfter(inst, r, mem) = RegsAfter(inst, r, mine)
         /\ \A w \in F : DataAfter(inst, r, mem)[w] = DataAfter(inst, r, mine)[w]
<1>1. inst.op = "LOAD" => mem[WordOf(inst, r)] = mine[WordOf(inst, r)]
  BY DEF IsMemoryOp
<1>2. RegsAfter(inst, r, mem) = RegsAfter(inst, r, mine)
  BY <1>1 DEF RegsAfter
<1>3. inst.op = "STORE" => WordOf(inst, r) \in Word
  BY DEF InBounds, IsMemoryOp
<1>4. \A w \in F : DataAfter(inst, r, mem)[w] = DataAfter(inst, r, mine)[w]
  <2> DEFINE word == WordOf(inst, r)
  <2>1. CASE inst.op = "STORE"
    <3>1. /\ DataAfter(inst, r, mem) = [mem EXCEPT ![word] = r[inst.src1]]
          /\ DataAfter(inst, r, mine) = [mine EXCEPT ![word] = r[inst.src1]]
      BY <2>1 DEF DataAfter
    <3>2. word \in Word
      BY <1>3, <2>1
    <3> HIDE DEF word
    <3> TAKE w \in F
    <3>3. CASE w = word
      BY <3>1, <3>2, <3>3
    <3>4. CASE w # word
      BY <3>1, <3>2, <3>4
    <3> QED
      BY <3>3, <3>4
  <2>2. CASE inst.op # "STORE"
    BY <2>2 DEF DataAfter
  <2> QED
    BY <2>1, <2>2
<1> QED
  BY <1>2, <1>4

(* The next instruction of a thread is in its footprint. *)
LEMMA InFootprint ==
  ASSUME NEW t, NEW k \in 1 .. Len(instructions[t]),
         instructions[t][k].op \in {"LOAD", "STORE"}
  PROVE  LET w == WordOf(instructions[t][k], Alone(instructions[t], Image)[k - 1].regs)
         IN  /\ w \in Touches(t, {"LOAD", "STORE"})
             /\ instructions[t][k].op = "STORE" => w \in Touches(t, {"STORE"})
  BY DEF Touches

LEMMA ExecuteSched ==
  ASSUME TypeOK, HaltInv, CyclesFit, SchedInv, Available(rr_index),
         NEW inst \in Fetched, EXECUTE_inst(inst), UNCHANGED imageVars
  PROVE  SchedInv'
<1> SUFFICES ASSUME RaceFree, NEW u \in Threads PROVE AsAlone(u)'
  BY SameFootprint DEF SchedInv, imageVars
<1>0. PICK t \in Threads : t = rr_index
  BY DEF TypeOK
<1> DEFINE p == instructions[t]
           k == rip[t] + 1
           F == Touches(t, {"LOAD", "STORE"}) \cap Word
           alone == Alone(p, Image)[rip[t]]
<1>1. /\ inst \in Instruction
      /\ regs[t] \in [Reg -> Int] /\ data \in [Word -> Int]
      /\ rip[t] \in Nat /\ Len(p) \in Nat
  BY FetchedType DEF TypeOK
<1>2. rip[t] < Len(p) /\ inst = p[k]
  BY <1>0, ExecuteEffect
<1>3. k \in 1 .. Len(p) /\ k - 1 = rip[t]
  BY <1>1, <1>2
<1>4. /\ regs[t] = alone.regs
      /\ alone.data \in [Word -> Int]
      /\ \A w \in F : data[w] = alone.data[w]
  BY DEF SchedInv, AsAlone
<1>5. /\ InBounds(inst, regs[t])
      /\ rip' = [rip EXCEPT ![t] = @ + 1]
      /\ regs' = [regs EXCEPT ![t] = RegsAfter(inst, @, data)]
      /\ data' = DataAfter(inst, regs[t], data)
      /\ instructions' = instructions
  BY <1>0 DEF EXECUTE_inst, imageVars
<1>6. IsMemoryOp(inst) => WordOf(inst, regs[t]) \in F
  <2> SUFFICES ASSUME IsMemoryOp(inst) PROVE WordOf(inst, regs[t]) \in F
    OBVIOUS
  <2>1. WordOf(inst, regs[t]) \in Touches(t, {"LOAD", "STORE"})
    BY <1>2, <1>3, <1>4, InFootprint DEF IsMemoryOp
  <2>2. WordOf(inst, regs[t]) \in Word
    BY <1>5 DEF InBounds
  <2> QED
    BY <2>1, <2>2
<1>7. Alone(p, Image)[k] = AloneStep(inst, alone)
  BY <1>1, <1>2, <1>3, AloneUnfold
<1>8. CASE u = t
  <2>1. rip'[t] = k /\ regs'[t] = RegsAfter(inst, regs[t], data)
    BY <1>5 DEF TypeOK
  <2>2. /\ RegsAfter(inst, regs[t], data) = RegsAfter(inst, regs[t], alone.data)
        /\ \A w \in F : DataAfter(inst, regs[t], data)[w] = DataAfter(inst, regs[t], alone.data)[w]
    <3> HIDE DEF F, alone
    <3> QED
      BY <1>1, <1>4, <1>5, <1>6, SameEffect DEF F
  <2>3. /\ Alone(p, Image)[k].regs = RegsAfter(inst, regs[t], alone.data)
        /\ Alone(p, Image)[k].data = DataAfter(inst, regs[t], alone.data)
    BY <1>4, <1>7 DEF AloneStep
  <2>4. Alone(p, Image)[k].data \in [Word -> Int]
    <3>1. DataAfter(inst, regs[t], alone.data) \in [Word -> Int]
      <4> HIDE DEF alone
      <4> QED
        BY <1>1, <1>4, DataAfterType
    <3> QED
      BY <2>3, <3>1, Zenon
  <2>5. Touches(t, {"LOAD", "STORE"})' = Touches(t, {"LOAD", "STORE"})
    BY <1>5, SameFootprint
  <2> QED
    BY <1>5, <1>8, <2>1, <2>2, <2>3, <2>4, <2>5 DEF AsAlone
<1>9. CASE u # t
  <2>1. rip'[u] = rip[u] /\ regs'[u] = regs[u]
    BY <1>5, <1>9 DEF TypeOK
  <2>2. \A w \in Touches(u, {"LOAD", "STORE"}) \cap Word : data'[w] = data[w]
    <3> TAKE w \in Touches(u, {"LOAD", "STORE"}) \cap Word
    <3>1. CASE inst.op = "STORE"
      <4>1. WordOf(inst, regs[t]) \in Touches(t, {"STORE"})
        BY <1>2, <1>3, <1>4, <3>1, InFootprint
      <4>2. w # WordOf(inst, regs[t])
        BY <1>9, <4>1 DEF RaceFree
      <4> QED
        BY <1>1, <1>5, <3>1, <4>2 DEF DataAfter
    <3>2. CASE inst.op # "STORE"
      BY <1>5, <3>2 DEF DataAfter
    <3> QED
      BY <3>1, <3>2
  <2>3. AsAlone(u)
    BY DEF SchedInv
  <2>4. Touches(u, {"LOAD", "STORE"})' = Touches(u, {"LOAD", "STORE"})
    BY <1>5, SameFootprint
  <2> QED
    BY <1>5, <2>1, <2>2, <2>3, <2>4 DEF AsAlone
<1> QED
  BY <1>8, <1>9

-----------------------------------------------------------------------------
(* The fine-grained loop. *)

(* Every step keeps the types. *)
LEMMA TypeStep == TypeOK /\ [FinegrainedNext]_mtVars => TypeOK'
<1> SUFFICES ASSUME TypeOK, [FinegrainedNext]_mtVars PROVE TypeOK'
  OBVIOUS
<1>1. NextIndex \in Threads
  BY NextIndexType
<1>2. CASE Execute
  <2>1. PICK inst \in Fetched : EXECUTE_inst(inst)
    BY <1>2 DEF Execute
  <2>2. inst \in Instruction
    BY <2>1, FetchedType
  <2>3. /\ data' \in [Word -> Int]
        /\ cycle_count' \in 0 .. UintMax
        /\ inst_count' \in 0 .. UintMax
        /\ rip' \in [Threads -> Nat]
        /\ return_cycle' \in [Threads -> 0 .. UintMax]
        /\ regs' \in [Threads -> [Reg -> Int]]
        /\ halt_count' \in Nat
    BY <2>1, <2>2, ExecuteType
  <2> QED
    BY <1>1, <1>2, <2>3, ThreadsAssumption DEF Execute, TypeOK, imageVars
<1>3. CASE Skip
  BY <1>1, <1>3, ThreadsAssumption DEF Skip, TypeOK, imageVars
<1>4. CASE IdleCycle
  <2>1. Uint(cycle_count + 1) \in 0 .. UintMax
    <3>1. cycle_count + 1 \in Int
      BY WidthAssumption DEF TypeOK
    <3> QED
      BY <3>1, UintRange
  <2> QED
    BY <1>1, <1>4, <2>1, ThreadsAssumption DEF IdleCycle, TypeOK, imageVars
<1>5. CASE Finished
  BY <1>5 DEF Finished, TypeOK, mtVars, imageVars, coreVars
<1>6. CASE UNCHANGED mtVars
  BY <1>6 DEF TypeOK, mtVars, imageVars, coreVars
<1> QED
  BY <1>2, <1>3, <1>4, <1>5, <1>6 DEF FinegrainedNext

(* The loop only ever computes well-typed states: rr_index names a thread  *)
(* and every counter is an unsigned word.                                  *)
THEOREM TypeCorrect == FinegrainedSpec => []TypeOK
<1>1. FinegrainedInit => TypeOK
  BY InitType DEF FinegrainedInit
<1> QED
  BY <1>1, TypeStep, PTL DEF FinegrainedSpec

-----------------------------------------------------------------------------
(* The scan: idle_count threads before rr_index are waiting.               *)

LEMMA IdleScanStep == TypeOK /\ IdleScan /\ [FinegrainedNext]_mtVars => IdleScan'
<1> SUFFICES ASSUME TypeOK, IdleScan, [FinegrainedNext]_mtVars PROVE IdleScan'
  OBVIOUS
<1>1. CASE Execute
  BY <1>1, ThreadsAssumption DEF Execute, IdleScan
<1>2. CASE Skip
  <2>1. /\ idle_count' = idle_count + 1
        /\ idle_count' < NumThreads
        /\ rr_index' = NextIndex
        /\ cycle_count' = cycle_count
        /\ return_cycle' = return_cycle
    BY <1>2 DEF Skip
  <2>2. ASSUME NEW k \in 1 .. idle_count'
        PROVE  ~(cycle_count' >= return_cycle'[(rr_index' - k) % NumThreads])
    <3> DEFINE u == (rr_index - (k - 1)) % NumThreads
    <3>1. k \in 1 .. NumThreads /\ k - 1 \in 0 .. idle_count
      BY <2>1, ThreadsAssumption DEF TypeOK
    <3>2. (rr_index' - k) % NumThreads = u
      BY <2>1, <3>1, OneBack
    <3>3. ~Available(u)
      <4>1. CASE k = 1
        <5>1. u = rr_index
          <6>1. rr_index \in 0 .. NumThreads - 1 /\ rr_index - (1 - 1) = rr_index
            BY ThreadsAssumption DEF TypeOK, Threads
          <6> QED
            BY <4>1, <6>1, ModSmall, ThreadsAssumption
        <5> QED
          BY <1>2, <5>1 DEF Skip
      <4>2. CASE k # 1
        <5>1. k - 1 \in 1 .. idle_count
          BY <3>1, <4>2
        <5> QED
          BY <5>1 DEF IdleScan
      <4> QED
        BY <4>1, <4>2
    <3> QED
      BY <2>1, <3>2, <3>3 DEF Available
  <2> QED
    BY <2>1, <2>2 DEF IdleScan, Available
<1>3. CASE IdleCycle
  BY <1>3, ThreadsAssumption DEF IdleCycle, IdleScan
<1>4. CASE UNCHANGED mtVars
  BY <1>4 DEF mtVars, imageVars, coreVars, Available, IdleScan
<1>5. CASE Finished
  BY <1>4, <1>5 DEF Finished
<1> QED
  BY <1>1, <1>2, <1>3, <1>4, <1>5 DEF FinegrainedNext

(* When the scan is one short of a full round and the current thread       *)
(* waits too, every thread waits.                                          *)
LEMMA FullRound ==
  ASSUME TypeOK, IdleScan, ~Available(rr_index), idle_count + 1 >= NumThreads
  PROVE  \A t \in Threads : ~Available(t)
<1> DEFINE N == NumThreads
<1>1. N \in Nat \ {0} /\ rr_index \in 0 .. N - 1 /\ idle_count = N - 1
  BY ThreadsAssumption DEF TypeOK, Threads, IdleScan
<1>2. TAKE t \in Threads
<1>3. t \in 0 .. N - 1
  BY DEF Threads
<1>4. CASE t = rr_index
  BY <1>4
<1>5. CASE t < rr_index
  <2>1. rr_index - t \in 1 .. idle_count /\ (rr_index - (rr_index - t)) % N = t
    BY <1>1, <1>3, <1>5, ModSmall
  <2> QED
    BY <2>1 DEF IdleScan
<1>6. CASE t > rr_index
  <2>1. rr_index - (rr_index - t + N) = t - N
    BY <1>1, <1>3
  <2>2. rr_index - t + N \in 1 .. idle_count /\ (t - N) % N = t
    BY <1>1, <1>3, <1>6, ModTurn
  <2> QED
    BY <2>1, <2>2 DEF IdleScan
<1> QED
  BY <1>1, <1>3, <1>4, <1>5, <1>6

(* The threads that idle_count counts are exactly those before rr_index,   *)
(* and each of them waits.                                                 *)
THEOREM IdleScanCorrect == FinegrainedSpec => []IdleScan
<1>1. FinegrainedInit => IdleScan
  BY ThreadsAssumption DEF FinegrainedInit, CORE_init, IdleScan
<1> QED
  BY <1>1, TypeCorrect, IdleScanStep, PTL DEF FinegrainedSpec

(* The core is work conserving: a cycle passes without an instruction only *)
(* when no thread can use it.                                              *)
THEOREM WorkConservation == FinegrainedSpec => WorkConserving
<1> DEFINE A == (cycle_count' # cycle_count /\ inst_count' = inst_count)
                  => \A t \in Threads : ~Available(t)
<1>1. TypeOK /\ IdleScan /\ [FinegrainedNext]_mtVars => [A]_mtVars
  <2> SUFFICES ASSUME TypeOK, IdleScan, FinegrainedNext, cycle_count' # cycle_count,
                      inst_count' = inst_count
               PROVE  \A t \in Threads : ~Available(t)
    OBVIOUS
  <2>1. CASE Execute
    <3>1. inst_count' = Uint(inst_count + 1)
      BY <2>1 DEF Execute, EXECUTE_inst
    <3> QED
      BY <3>1, UintMoves DEF TypeOK
  <2>2. CASE Skip
    BY <2>2 DEF Skip
  <2>3. CASE IdleCycle
    BY <2>3, FullRound DEF IdleCycle
  <2>4. CASE Finished
    BY <2>4 DEF Finished, mtVars, coreVars
  <2> QED
    BY <2>1, <2>2, <2>3, <2>4 DEF FinegrainedNext
<1> QED
  BY <1>1, TypeCorrect, IdleScanCorrect, PTL DEF FinegrainedSpec, WorkConserving
-----------------------------------------------------------------------------
(* The sentinel, as long as the cycle counter fits. *)

LEMMA HaltInvStep == TypeOK /\ HaltInv /\ CyclesFit /\ [FinegrainedNext]_mtVars => HaltInv'
<1> SUFFICES ASSUME TypeOK, HaltInv, CyclesFit, [FinegrainedNext]_mtVars PROVE HaltInv'
  OBVIOUS
<1>1. CASE Execute
  BY <1>1, ExecuteHaltInv DEF Execute, imageVars
<1>2. CASE Skip
  BY <1>2, HaltInvIdle DEF Skip, imageVars
<1>3. CASE IdleCycle
  BY <1>3, HaltInvIdle DEF IdleCycle, imageVars
<1>4. CASE UNCHANGED mtVars
  BY <1>4, HaltInvIdle DEF mtVars, imageVars, coreVars
<1>5. CASE Finished
  BY <1>4, <1>5 DEF Finished
<1> QED
  BY <1>1, <1>2, <1>3, <1>4, <1>5 DEF FinegrainedNext

THEOREM HaltInvCorrect == FinegrainedSpec /\ []CyclesFit => []HaltInv
<1>1. FinegrainedInit => HaltInv
  BY InitHaltInv DEF FinegrainedInit
<1> QED
  BY <1>1, TypeCorrect, HaltInvStep, PTL DEF FinegrainedSpec

(* As long as the cycle counter stays a latency below UINT32_MAX, no       *)
(* thread executes anything after its HALT.                                *)
THEOREM NothingAfterHalt == FinegrainedSpec /\ []CyclesFit => []NeverPastHalt
<1>1. HaltInv => NeverPastHalt
  BY DEF HaltInv
<1> QED
  BY <1>1, HaltInvCorrect, PTL

(* On the same premise the loop's own count of halted threads is exact: it *)
(* ends when, and only when, every thread has halted.                      *)
THEOREM HaltCountCorrect == FinegrainedSpec /\ []CyclesFit => []HaltCountExact
<1>1. HaltInv => HaltCountExact
  BY DEF HaltInv
<1> QED
  BY <1>1, HaltInvCorrect, PTL
-----------------------------------------------------------------------------
(* Latencies and results. *)

LEMMA ChargedStep ==
  TypeOK /\ HaltInv /\ CyclesFit /\ ChargedInv /\ [FinegrainedNext]_mtVars => ChargedInv'
<1> SUFFICES ASSUME TypeOK, HaltInv, CyclesFit, ChargedInv, [FinegrainedNext]_mtVars PROVE ChargedInv'
  OBVIOUS
<1>0. cycle_count \in Nat
  BY DEF TypeOK
<1>1. CASE Execute
  BY <1>1, ExecuteCharged DEF Execute
<1>2. CASE Skip
  BY <1>0, <1>2, ChargedIdle DEF Skip
<1>3. CASE IdleCycle
  <2>1. cycle_count' = cycle_count + 1
    <3>1. cycle_count + 1 \in 0 .. UintMax
      BY WidthAssumption, LatencyAssumption DEF TypeOK, CyclesFit
    <3> QED
      BY <1>3, <3>1, UintSmall DEF IdleCycle
  <2> QED
    BY <1>0, <1>3, <2>1, ChargedIdle DEF IdleCycle
<1>4. CASE UNCHANGED mtVars
  BY <1>0, <1>4, ChargedIdle DEF mtVars, imageVars, coreVars
<1>5. CASE Finished
  BY <1>4, <1>5 DEF Finished
<1> QED
  BY <1>1, <1>2, <1>3, <1>4, <1>5 DEF FinegrainedNext

(* As long as the cycle counter fits, no thread is on the core before the  *)
(* cycles and the whole latencies of all it executed have passed.          *)
THEOREM LatencyCorrect == FinegrainedSpec /\ []CyclesFit => []LatencyCharged
<1>1. FinegrainedInit => ChargedInv
  BY ChargedInit DEF FinegrainedInit
<1>2. TypeOK /\ HaltInv /\ CyclesFit /\ ChargedInv => LatencyCharged
  BY ChargedSuffices
<1> QED
  BY <1>1, <1>2, TypeCorrect, HaltInvCorrect, ChargedStep, PTL DEF FinegrainedSpec

LEMMA SchedStep ==
  TypeOK /\ HaltInv /\ CyclesFit /\ SchedInv /\ [FinegrainedNext]_mtVars => SchedInv'
<1> SUFFICES ASSUME TypeOK, HaltInv, CyclesFit, SchedInv, [FinegrainedNext]_mtVars PROVE SchedInv'
  OBVIOUS
<1>1. CASE Execute
  BY <1>1, ExecuteSched DEF Execute
<1>2. CASE Skip
  BY <1>2, SchedIdle DEF Skip, imageVars
<1>3. CASE IdleCycle
  BY <1>3, SchedIdle DEF IdleCycle, imageVars
<1>4. CASE UNCHANGED mtVars
  BY <1>4, SchedIdle DEF mtVars, imageVars, coreVars
<1>5. CASE Finished
  BY <1>4, <1>5 DEF Finished
<1> QED
  BY <1>1, <1>2, <1>3, <1>4, <1>5 DEF FinegrainedNext

(* Threads without a data race compute what each computes alone, however   *)
(* many they are and whatever the latencies that decide the schedule.      *)
THEOREM ScheduleInvisibleCorrect == FinegrainedSpec /\ []CyclesFit => []ScheduleInvisible
<1>1. FinegrainedInit => SchedInv
  BY SchedInit DEF FinegrainedInit
<1> QED
  BY <1>1, TypeCorrect, HaltInvCorrect, SchedStep, SchedSuffices, PTL DEF FinegrainedSpec
-----------------------------------------------------------------------------
(***************************************************************************)
(* The fine-grained loop implements the fine-grained policy, for every     *)
(* number of threads, every set of programs and every latency: its first   *)
(* state is one of the policy's, and each of its steps is a step of the    *)
(* policy or none.                                                         *)
(***************************************************************************)

(* The policy's instruction set is the loop's. *)
LEMMA SameThreads == Policy!Threads = Threads
  BY DEF Policy!Threads, Threads

LEMMA SameRegs ==
  ASSUME NEW inst, NEW r, NEW mem
  PROVE  Policy!RegsAfter(inst, r, mem) = RegsAfter(inst, r, mem)
  BY DEF Policy!RegsAfter, RegsAfter, Policy!Sint, Sint, Policy!Uint, Uint,
         Policy!WordOf, WordOf, Policy!DataIndex, DataIndex, Policy!Address, Address,
         Policy!Addend, Addend

LEMMA SameData ==
  ASSUME NEW inst, NEW r, NEW mem
  PROVE  Policy!DataAfter(inst, r, mem) = DataAfter(inst, r, mem)
  BY DEF Policy!DataAfter, DataAfter, Policy!Sint, Sint, Policy!Uint, Uint,
         Policy!WordOf, WordOf, Policy!DataIndex, DataIndex, Policy!Address, Address,
         Policy!Addend, Addend

(* Reading the sentinel as "halted", ready is what the loop calls available. *)
LEMMA ReadyIsAvailable ==
  ASSUME TypeOK, SentinelExact, CyclesFit, NEW t \in Threads
  PROVE  Policy!Ready(t) <=> Available(t)
<1>1. /\ cycle_count \in Nat /\ load_latency \in Nat /\ UintMax \in Nat
      /\ return_cycle[t] \in Nat
  BY WidthAssumption, LatencyAssumption DEF TypeOK
<1>2. Policy!Ready(t)
        <=> ~Halted(t) /\ (IF Halted(t) THEN 0 ELSE return_cycle[t]) <= cycle_count
  BY DEF Policy!Ready, HaltedThreads, ReadyAt
<1>3. CASE Halted(t)
  <2>1. return_cycle[t] = UintMax
    BY <1>3 DEF SentinelExact
  <2> QED
    BY <1>1, <1>2, <1>3, <2>1 DEF Available, CyclesFit
<1>4. CASE ~Halted(t)
  BY <1>1, <1>2, <1>4 DEF Available
<1> QED
  BY <1>3, <1>4
-----------------------------------------------------------------------------
(* The threads the cyclic order puts before rr_index are those the scan    *)
(* has found waiting.                                                      *)
LEMMA ScanOrder ==
  ASSUME TypeOK, IdleScan, NEW u \in Threads, Available(u)
  PROVE  Policy!Distance(rr_index) <= Policy!Distance(u)
<1> DEFINE N == NumThreads
           last == (rr_index - idle_count - 1) % N
           d == (u - last - 1) % N
<1>1. /\ N \in Nat \ {0} /\ rr_index \in 0 .. N - 1 /\ u \in 0 .. N - 1
      /\ idle_count \in 0 .. N - 1
  BY ThreadsAssumption DEF TypeOK, IdleScan, Threads
<1>2. last = IF rr_index - idle_count - 1 >= 0 THEN rr_index - idle_count - 1
                                                ELSE rr_index - idle_count - 1 + N
  <2>1. rr_index - idle_count - 1 \in -N .. N - 1
    BY <1>1
  <2> QED
    BY <1>1, <2>1, ModOneTurn
<1>3. last \in 0 .. N - 1
  BY <1>1, <1>2
<1>4. (rr_index - last - 1) % N = idle_count
  <2>1. rr_index - last - 1 \in -N .. N - 1
    BY <1>1, <1>3
  <2>2. (rr_index - last - 1) % N = IF rr_index - last - 1 >= 0 THEN rr_index - last - 1
                                                             ELSE rr_index - last - 1 + N
    BY <1>1, <2>1, ModOneTurn
  <2> QED
    BY <1>1, <1>2, <2>2
<1>5. d = IF u - last - 1 >= 0 THEN u - last - 1 ELSE u - last - 1 + N
  <2>1. u - last - 1 \in -N .. N - 1
    BY <1>1, <1>3
  <2> QED
    BY <1>1, <2>1, ModOneTurn
<1>6. idle_count <= d
  <2> SUFFICES ASSUME d < idle_count PROVE FALSE
    BY <1>1, <1>3, <1>5
  <2>1. d \in 0 .. N - 1
    BY <1>1, <1>3, <1>5
  <2>2. idle_count - d \in 1 .. idle_count
    BY <1>1, <2>1
  <2>3. rr_index - (idle_count - d) \in -N .. N - 1
    BY <1>1, <2>2
  <2>4. (rr_index - (idle_count - d)) % N = u
    <3>1. (rr_index - (idle_count - d)) % N =
            IF rr_index - (idle_count - d) >= 0 THEN rr_index - (idle_count - d)
                                               ELSE rr_index - (idle_count - d) + N
      BY <1>1, <2>3, ModOneTurn
    <3> QED
      BY <1>1, <1>2, <1>5, <3>1
  <2> QED
    BY <2>2, <2>4 DEF IdleScan
<1> QED
  BY <1>4, <1>6 DEF Policy!Distance

(* The initial states are the policy's: thread NumThreads - 1 issued last. *)
LEMMA RefinesInit == FinegrainedInit => Policy!PolicyInit(NumThreads - 1)
<1> SUFFICES ASSUME FinegrainedInit PROVE Policy!PolicyInit(NumThreads - 1)
  OBVIOUS
<1>1. TypeOK /\ SentinelExact /\ rip = [t \in Threads |-> 0]
  BY InitType, InitHaltInv DEF FinegrainedInit, HaltInv, CORE_init
<1>2. \A t \in Threads : ~Halted(t)
  <2>1. \A t \in Threads : return_cycle[t] # UintMax
    BY WidthAssumption DEF FinegrainedInit, CORE_init
  <2> QED
    BY <1>1, <2>1 DEF SentinelExact
<1>3. (rr_index - idle_count - 1) % NumThreads = NumThreads - 1
  <2>1. rr_index - idle_count - 1 = -1 /\ -1 \in -NumThreads .. NumThreads - 1
    BY ThreadsAssumption DEF FinegrainedInit, CORE_init
  <2> QED
    BY <2>1, ModOneTurn, ThreadsAssumption
<1>4. ReadyAt = [t \in Threads |-> 0] /\ HaltedThreads = {}
  BY <1>2 DEF FinegrainedInit, CORE_init, ReadyAt, HaltedThreads
<1>5. LatencyOf \in [{"LOAD", "STORE"} -> Latencies]
  BY <1>1 DEF TypeOK, LatencyOf
<1> QED
  BY <1>1, <1>3, <1>4, <1>5, SameThreads
  DEF Policy!PolicyInit, Policy!Reg, Reg, FinegrainedInit, SIM_MemReset, CORE_init
-----------------------------------------------------------------------------
(* Skip is no event of the machine: the place of the last issuer, counted  *)
(* back from rr_index, is where it was.                                    *)
LEMMA SkipStutters ==
  ASSUME TypeOK, IdleScan, Skip
  PROVE  UNCHANGED Policy!policyVars
<1>1. /\ idle_count + 2 \in 1 .. NumThreads
      /\ NextIndex \in Int /\ rr_index \in Int /\ idle_count \in Int
  <2>1. NextIndex \in Int
    BY NextIndexType, ThreadsAssumption DEF Threads
  <2>2. rr_index \in Int
    BY ThreadsAssumption DEF TypeOK, Threads
  <2>3. idle_count \in 0 .. NumThreads /\ idle_count + 1 < NumThreads
    BY DEF TypeOK, Skip
  <2> QED
    BY <2>1, <2>2, <2>3, ThreadsAssumption
<1>2. (NextIndex - (idle_count + 2)) % NumThreads = (rr_index - (idle_count + 2 - 1)) % NumThreads
  BY <1>1, OneBack
<1>3. (rr_index' - idle_count' - 1) % NumThreads = (rr_index - idle_count - 1) % NumThreads
  <2>1. rr_index' - idle_count' - 1 = NextIndex - (idle_count + 2)
    BY <1>1 DEF Skip
  <2>2. rr_index - (idle_count + 2 - 1) = rr_index - idle_count - 1
    BY <1>1
  <2> QED
    BY <1>2, <2>1, <2>2
<1> QED
  BY <1>3 DEF Skip, Policy!policyVars, imageVars, HaltedThreads, ReadyAt, LatencyOf, Halted,
               Halts

(* A cycle of the loop that ends without an instruction is a lost cycle of *)
(* the machine: the round is complete, so no thread is ready.              *)
LEMMA IdleLosesCycle ==
  ASSUME TypeOK, IdleScan, HaltInv, CyclesFit, IdleCycle
  PROVE  Policy!RoundRobinNext
<1> DEFINE N == NumThreads
<1>1. /\ N \in Nat \ {0} /\ rr_index \in 0 .. N - 1 /\ idle_count = N - 1
      /\ cycle_count \in Nat /\ load_latency \in Nat
  BY ThreadsAssumption, LatencyAssumption DEF TypeOK, IdleScan, IdleCycle, Threads
<1>2. Policy!NoneReady
  <2>1. \A t \in Threads : ~Available(t)
    BY FullRound DEF IdleCycle
  <2> QED
    BY <2>1, ReadyIsAvailable, SameThreads DEF Policy!NoneReady, HaltInv
<1>3. HaltedThreads # Threads
  BY RunningNotHalted DEF HaltInv, IdleCycle
<1>4. cycle_count' = cycle_count + 1
  <2>1. cycle_count + 1 \in 0 .. UintMax
    BY <1>1, WidthAssumption DEF CyclesFit
  <2> QED
    BY <2>1, UintSmall DEF IdleCycle
<1>5. (rr_index' - idle_count' - 1) % N = (rr_index - idle_count - 1) % N
  <2>1. NextIndex \in Int
    BY NextIndexType, ThreadsAssumption DEF Threads
  <2>2. (NextIndex - 1) % N = (rr_index - (1 - 1)) % N
    BY <1>1, OneBack
  <2>3. rr_index' - idle_count' - 1 = NextIndex - 1 /\ rr_index - (1 - 1) = rr_index
    BY <1>1, <2>1 DEF IdleCycle
  <2>4. rr_index - idle_count - 1 = rr_index - N
    BY <1>1
  <2>5. rr_index % N = rr_index /\ (rr_index - N) % N = rr_index
    BY <1>1, ModSmall, ModTurn
  <2> QED
    BY <2>2, <2>3, <2>4, <2>5
<1>6. Policy!LoseCycle
  BY <1>2, <1>3, <1>4, <1>5, SameThreads
  DEF Policy!LoseCycle, IdleCycle, imageVars, HaltedThreads, ReadyAt, LatencyOf, Halted,
      Halts
<1> QED
  BY <1>6 DEF Policy!RoundRobinNext

(* Executing is issuing: the thread at rr_index is the first ready one     *)
(* after the last issuer, and becomes the last issuer.                     *)
LEMMA ExecuteIssues ==
  ASSUME TypeOK, IdleScan, HaltInv, CyclesFit, Execute
  PROVE  Policy!RoundRobinNext
<1>0. PICK t \in Threads : t = rr_index
  BY DEF TypeOK
<1>1. PICK inst \in Fetched : EXECUTE_inst(inst)
  BY DEF Execute
<1>2. t = rr_index /\ Available(t)
  BY <1>0 DEF Execute
<1>3. /\ rip[t] < Len(instructions[t])
      /\ inst = instructions[t][rip[t] + 1]
      /\ cycle_count' = cycle_count + 1
      /\ HaltedThreads' = IF inst.op = "HALT" THEN HaltedThreads \cup {t}
                                             ELSE HaltedThreads
      /\ ReadyAt' = [ReadyAt EXCEPT ![t] =
                       CASE IsMemoryOp(inst)   -> cycle_count + 1 + LatencyOf[inst.op]
                         [] inst.op = "HALT"   -> 0
                         [] OTHER              -> @]
  BY <1>1, <1>2, ExecuteEffect DEF Execute
<1>4. /\ rip' = [rip EXCEPT ![t] = @ + 1]
      /\ regs' = [regs EXCEPT ![t] = RegsAfter(inst, @, data)]
      /\ data' = DataAfter(inst, regs[t], data)
      /\ UNCHANGED <<instructions, LatencyOf, context_switch_overhead>>
  BY <1>1, <1>2 DEF EXECUTE_inst, Execute, imageVars, LatencyOf
<1>5. Policy!FirstReady(t)
  <2>1. Policy!Ready(t)
    BY <1>2, ReadyIsAvailable DEF HaltInv
  <2>2. \A u \in Threads : Policy!Ready(u) => Policy!Distance(t) <= Policy!Distance(u)
    BY <1>2, ReadyIsAvailable, ScanOrder DEF HaltInv
  <2> QED
    BY <2>1, <2>2, SameThreads DEF Policy!FirstReady
<1>6. (rr_index' - idle_count' - 1) % NumThreads = t
  <2>1. NextIndex \in Int /\ rr_index \in 0 .. NumThreads - 1 /\ 1 \in 1 .. NumThreads
    BY NextIndexType, ThreadsAssumption DEF Threads, TypeOK
  <2>2. (NextIndex - 1) % NumThreads = (rr_index - (1 - 1)) % NumThreads
    BY <2>1, OneBack
  <2>3. rr_index' - idle_count' - 1 = NextIndex - 1 /\ rr_index - (1 - 1) = rr_index
    BY <2>1 DEF Execute
  <2>4. rr_index % NumThreads = rr_index
    BY <2>1, ModSmall, ThreadsAssumption
  <2> QED
    BY <1>2, <2>2, <2>3, <2>4
<1>7. Policy!Issue(t)
  <2>1. Policy!RegsAfter(inst, regs[t], data) = RegsAfter(inst, regs[t], data)
    BY SameRegs
  <2>2. Policy!DataAfter(inst, regs[t], data) = DataAfter(inst, regs[t], data)
    BY SameData
  <2> QED
    BY <1>3, <1>4, <1>6, <2>1, <2>2 DEF Policy!Issue, Policy!IsMemoryOp, IsMemoryOp
<1> QED
  BY <1>5, <1>7, SameThreads DEF Policy!RoundRobinNext

LEMMA RefinesStep ==
  TypeOK /\ IdleScan /\ HaltInv /\ CyclesFit /\ [FinegrainedNext]_mtVars
    => [Policy!RoundRobinNext]_(Policy!policyVars)
<1>1. UNCHANGED mtVars => UNCHANGED Policy!policyVars
  BY DEF mtVars, imageVars, coreVars, Policy!policyVars, HaltedThreads, ReadyAt,
         LatencyOf, Halted, Halts
<1> QED
  BY <1>1, ExecuteIssues, SkipStutters, IdleLosesCycle DEF FinegrainedNext, Finished

(* The fine-grained loop implements the fine-grained policy, as long as    *)
(* the cycle counter stays a latency below UINT32_MAX: every step issues   *)
(* for the first ready thread after the last issuer, or loses a cycle in   *)
(* which none is ready, or is none of the machine's.                       *)
THEOREM ImplementsRoundRobinSafely ==
  FinegrainedSpec /\ []CyclesFit
    => Policy!PolicyInit(NumThreads - 1) /\ [][Policy!RoundRobinNext]_(Policy!policyVars)
<1> QED
  BY RefinesInit, RefinesStep, TypeCorrect, IdleScanCorrect, HaltInvCorrect, PTL DEF FinegrainedSpec
-----------------------------------------------------------------------------
(* The blocked loop.                                                       *)

BlockedTypeOK == TypeOK /\ loop \in {"thread", "scan"}

LEMMA BlockedTypeStep == BlockedTypeOK /\ [BlockedNext]_blockedVars => BlockedTypeOK'
<1> SUFFICES ASSUME BlockedTypeOK, [BlockedNext]_blockedVars PROVE BlockedTypeOK'
  OBVIOUS
<1> USE DEF BlockedTypeOK
<1>1. NextIndex \in Threads
  BY NextIndexType
<1>2. CASE BlockedExecute
  <2>1. PICK inst \in Fetched : /\ EXECUTE_inst(inst)
                                /\ idle_count' = IF IsMemoryOp(inst) THEN 1 ELSE 0
    BY <1>2 DEF BlockedExecute
  <2>2. inst \in Instruction
    BY <2>1, FetchedType
  <2>3. /\ data' \in [Word -> Int]
        /\ cycle_count' \in 0 .. UintMax
        /\ inst_count' \in 0 .. UintMax
        /\ rip' \in [Threads -> Nat]
        /\ return_cycle' \in [Threads -> 0 .. UintMax]
        /\ regs' \in [Threads -> [Reg -> Int]]
        /\ halt_count' \in Nat
    BY <2>1, <2>2, ExecuteType
  <2>4. idle_count' \in 0 .. NumThreads
    BY <2>1, ThreadsAssumption
  <2> QED
    BY <1>2, <2>3, <2>4 DEF BlockedExecute, TypeOK, imageVars
<1>3. CASE StartScan
  BY <1>3, ThreadsAssumption DEF StartScan, TypeOK, imageVars
<1>4. CASE SwitchContext
  <2>1. cycle_count + context_switch_overhead \in Int
    BY WidthAssumption, LatencyAssumption DEF TypeOK
  <2>2. Uint(cycle_count + context_switch_overhead) \in 0 .. UintMax
    BY <2>1, UintRange
  <2> QED
    BY <1>1, <1>4, <2>2 DEF SwitchContext, TypeOK, imageVars
<1>5. CASE ScanNext
  BY <1>1, <1>5, ThreadsAssumption DEF ScanNext, TypeOK, imageVars
<1>6. CASE BlockedIdleCycle
  <2>1. cycle_count + 1 \in Int
    BY WidthAssumption DEF TypeOK
  <2>2. Uint(cycle_count + 1) \in 0 .. UintMax
    BY <2>1, UintRange
  <2> QED
    BY <1>6, <2>2 DEF BlockedIdleCycle, TypeOK, imageVars
<1>7. CASE UNCHANGED blockedVars
  BY <1>7 DEF TypeOK, blockedVars, mtVars, imageVars, coreVars
<1>8. CASE loop = "thread" /\ Finished /\ UNCHANGED loop
  BY <1>7, <1>8 DEF Finished, blockedVars
<1> QED
  BY <1>2, <1>3, <1>4, <1>5, <1>6, <1>7, <1>8 DEF BlockedNext

LEMMA BlockedTypeInv == BlockedSpec => []BlockedTypeOK
<1>1. BlockedInit => BlockedTypeOK
  BY InitType DEF BlockedInit, BlockedTypeOK
<1> QED
  BY <1>1, BlockedTypeStep, PTL DEF BlockedSpec

(* The loop only ever computes well-typed states: rr_index names a thread  *)
(* and every counter is an unsigned word.                                  *)
THEOREM BlockedTypeCorrect == BlockedSpec => []TypeOK
<1>1. BlockedTypeOK => TypeOK
  BY DEF BlockedTypeOK
<1> QED
  BY <1>1, BlockedTypeInv, PTL

-----------------------------------------------------------------------------
(* The scan. *)

LEMMA ScanStep == BlockedTypeOK /\ ScanInv /\ [BlockedNext]_blockedVars => ScanInv'
<1> SUFFICES ASSUME BlockedTypeOK, ScanInv, [BlockedNext]_blockedVars PROVE ScanInv'
  OBVIOUS
<1> DEFINE N == NumThreads
<1>0. N \in Nat \ {0} /\ rr_index \in 0 .. N - 1 /\ TypeOK
  BY ThreadsAssumption DEF BlockedTypeOK, TypeOK, Threads
<1>1. CASE BlockedExecute
  BY <1>1 DEF BlockedExecute, ScanInv
<1>2. CASE StartScan
  <2>1. /\ Running /\ ~Available(rr_index)
        /\ idle_count' = 0 /\ rr_index' = rr_index
        /\ cycle_count' = cycle_count /\ return_cycle' = return_cycle
        /\ halt_count' = halt_count
    BY <1>2 DEF StartScan
  <2>2. \A k \in 0 .. 0 : (rr_index - k) % N = rr_index
    BY <1>0, ModSmall
  <2> QED
    BY <2>1, <2>2 DEF ScanInv, Running, Available
<1>3. CASE SwitchContext
  BY <1>3 DEF SwitchContext, ScanInv
<1>4. CASE ScanNext
  <2>1. /\ loop = "scan" /\ idle_count < N /\ ~Available(NextIndex)
        /\ rr_index' = NextIndex /\ idle_count' = idle_count + 1
        /\ cycle_count' = cycle_count /\ return_cycle' = return_cycle
        /\ halt_count' = halt_count
    BY <1>4 DEF ScanNext
  <2>2. ASSUME NEW k \in 0 .. idle_count'
        PROVE  ~(cycle_count' >= return_cycle'[(rr_index' - k) % N])
    <3>1. CASE k = 0
      <4>1. NextIndex \in 0 .. N - 1
        BY <1>0, NextIndexType DEF Threads
      <4>2. (NextIndex - k) % N = NextIndex
        BY <1>0, <3>1, <4>1, ModSmall
      <4> QED
        BY <2>1, <4>2 DEF Available
    <3>2. CASE k # 0
      <4>1. k \in 1 .. N /\ k - 1 \in 0 .. idle_count
        BY <1>0, <2>1, <3>2 DEF TypeOK
      <4>2. (NextIndex - k) % N = (rr_index - (k - 1)) % N
        BY <1>0, <4>1, OneBack
      <4>3. ~Available((rr_index - (k - 1)) % N)
        BY <2>1, <4>1 DEF ScanInv
      <4> QED
        BY <2>1, <4>2, <4>3 DEF Available
    <3> QED
      BY <3>1, <3>2
  <2> QED
    BY <2>1, <2>2 DEF ScanInv, Running, Available
<1>5. CASE BlockedIdleCycle
  BY <1>5 DEF BlockedIdleCycle, ScanInv
<1>6. CASE UNCHANGED blockedVars
  BY <1>6 DEF blockedVars, mtVars, imageVars, coreVars, ScanInv, Running, Available
<1>7. CASE loop = "thread" /\ Finished /\ UNCHANGED loop
  BY <1>6, <1>7 DEF Finished, blockedVars
<1> QED
  BY <1>1, <1>2, <1>3, <1>4, <1>5, <1>6, <1>7 DEF BlockedNext

(* While the loop scans, every thread from the one on the core to rr_index *)
(* waits, and some thread is still to halt.                                *)
THEOREM ScanCorrect == BlockedSpec => []ScanInv
<1>1. BlockedInit => ScanInv
  BY DEF BlockedInit, ScanInv
<1> QED
  BY <1>1, BlockedTypeInv, ScanStep, PTL DEF BlockedSpec

(* A scan that went round has found every thread waiting. *)
LEMMA BlockedFullRound ==
  ASSUME TypeOK, ScanInv, loop = "scan", idle_count = NumThreads
  PROVE  \A t \in Threads : ~Available(t)
<1> DEFINE N == NumThreads
<1>1. N \in Nat \ {0} /\ rr_index \in 0 .. N - 1
  BY ThreadsAssumption DEF TypeOK, Threads
<1>2. TAKE t \in Threads
<1>3. t \in 0 .. N - 1
  BY DEF Threads
<1>4. CASE t <= rr_index
  <2>1. rr_index - t \in 0 .. idle_count /\ (rr_index - (rr_index - t)) % N = t
    BY <1>1, <1>3, <1>4, ModSmall
  <2> QED
    BY <2>1 DEF ScanInv
<1>5. CASE t > rr_index
  <2>1. rr_index - (rr_index - t + N) = t - N
    BY <1>1, <1>3
  <2>2. rr_index - t + N \in 0 .. idle_count /\ (t - N) % N = t
    BY <1>1, <1>3, <1>5, ModTurn
  <2> QED
    BY <2>1, <2>2 DEF ScanInv
<1> QED
  BY <1>1, <1>3, <1>4, <1>5

(* The core gives up a thread only when it waits and for one that does     *)
(* not, and loses a cycle only when no thread can use it.                  *)
THEOREM SwitchCorrect == BlockedSpec => SwitchOnlyOnWait
<1> DEFINE N == NumThreads
           Lost == cycle_count' # cycle_count /\ inst_count' = inst_count
                     /\ OnCore' = OnCore
           A == /\ OnCore' # OnCore => ~Available(OnCore) /\ Available(OnCore')
                /\ Lost => \A t \in Threads : ~Available(t)
<1>1. BlockedTypeOK /\ ScanInv /\ [BlockedNext]_blockedVars => [A]_blockedVars
  <2> SUFFICES ASSUME BlockedTypeOK, ScanInv, BlockedNext PROVE A
    OBVIOUS
  <2>0. N \in Nat \ {0} /\ rr_index \in 0 .. N - 1 /\ TypeOK /\ idle_count \in 0 .. N
    BY ThreadsAssumption DEF BlockedTypeOK, TypeOK, Threads
  <2>1. CASE BlockedExecute
    <3>1. OnCore' = OnCore
      BY <2>1 DEF BlockedExecute, OnCore
    <3>2. inst_count' # inst_count
      BY <2>0, <2>1, UintMoves DEF BlockedExecute, EXECUTE_inst, TypeOK
    <3> QED
      BY <3>1, <3>2
  <2>2. CASE StartScan
    <3>1. (rr_index - 0) % N = rr_index
      BY <2>0, ModSmall
    <3>2. OnCore' = OnCore /\ cycle_count' = cycle_count
      BY <2>2, <3>1 DEF StartScan, OnCore
    <3> QED
      BY <3>2
  <2>3. CASE SwitchContext
    <3>1. OnCore' = NextIndex /\ Available(NextIndex)
      BY <2>3 DEF SwitchContext, OnCore
    <3>2. ~Available(OnCore)
      BY <2>0, <2>3 DEF SwitchContext, ScanInv, OnCore
    <3> QED
      BY <3>1, <3>2
  <2>4. CASE ScanNext
    <3>1. idle_count + 1 \in 1 .. N /\ idle_count + 1 - 1 = idle_count
      BY <2>0, <2>4 DEF ScanNext
    <3>2. (NextIndex - (idle_count + 1)) % N = (rr_index - idle_count) % N
      BY <2>0, <3>1, OneBack
    <3>3. OnCore' = OnCore /\ cycle_count' = cycle_count
      BY <2>4, <3>2 DEF ScanNext, OnCore
    <3> QED
      BY <3>3
  <2>5. CASE BlockedIdleCycle
    <3>1. (rr_index - N) % N = rr_index
      BY <2>0, ModTurn
    <3>2. OnCore' = OnCore
      BY <2>5, <3>1 DEF BlockedIdleCycle, OnCore
    <3>3. \A t \in Threads : ~Available(t)
      BY <2>0, <2>5, BlockedFullRound DEF BlockedIdleCycle
    <3> QED
      BY <3>2, <3>3
  <2>6. CASE loop = "thread" /\ Finished /\ UNCHANGED loop
    BY <2>6 DEF Finished, mtVars, coreVars, OnCore
  <2> QED
    BY <2>1, <2>2, <2>3, <2>4, <2>5, <2>6 DEF BlockedNext
<1> QED
  BY <1>1, BlockedTypeInv, ScanCorrect, PTL DEF BlockedSpec, SwitchOnlyOnWait

-----------------------------------------------------------------------------
(* The sentinel, as long as the cycle counter fits. *)

LEMMA BlockedHaltInvStep == TypeOK /\ HaltInv /\ CyclesFit /\ [BlockedNext]_blockedVars => HaltInv'
<1> SUFFICES ASSUME TypeOK, HaltInv, CyclesFit, [BlockedNext]_blockedVars PROVE HaltInv'
  OBVIOUS
<1>1. CASE BlockedExecute
  BY <1>1, ExecuteHaltInv DEF BlockedExecute, imageVars
<1>2. CASE StartScan
  BY <1>2, HaltInvIdle DEF StartScan, imageVars
<1>3. CASE SwitchContext
  BY <1>3, HaltInvIdle DEF SwitchContext, imageVars
<1>4. CASE ScanNext
  BY <1>4, HaltInvIdle DEF ScanNext, imageVars
<1>5. CASE BlockedIdleCycle
  BY <1>5, HaltInvIdle DEF BlockedIdleCycle, imageVars
<1>6. CASE UNCHANGED blockedVars
  BY <1>6, HaltInvIdle DEF blockedVars, mtVars, imageVars, coreVars
<1>7. CASE loop = "thread" /\ Finished /\ UNCHANGED loop
  BY <1>6, <1>7 DEF Finished, blockedVars
<1> QED
  BY <1>1, <1>2, <1>3, <1>4, <1>5, <1>6, <1>7 DEF BlockedNext

THEOREM BlockedHaltInvCorrect == BlockedSpec /\ []CyclesFit => []HaltInv
<1>1. BlockedInit => HaltInv
  BY InitHaltInv DEF BlockedInit
<1> QED
  BY <1>1, BlockedTypeCorrect, BlockedHaltInvStep, PTL DEF BlockedSpec

(* As long as the cycle counter stays a latency below UINT32_MAX, no       *)
(* thread executes anything after its HALT, and the loop ends when, and    *)
(* only when, every thread has halted.                                     *)
THEOREM HaltCorrect == BlockedSpec /\ []CyclesFit => [](NeverPastHalt /\ HaltCountExact)
<1>1. HaltInv => NeverPastHalt /\ HaltCountExact
  BY DEF HaltInv
<1> QED
  BY <1>1, BlockedHaltInvCorrect, PTL
-----------------------------------------------------------------------------
(* Latencies and results. *)

(* The premise about the cycle counter: neither a latency nor the overhead *)
(* of a switch takes it past its end.                                      *)
CounterFits == CyclesFit /\ cycle_count + context_switch_overhead <= UintMax

LEMMA BlockedChargedStep ==
  TypeOK /\ HaltInv /\ CounterFits /\ ChargedInv /\ [BlockedNext]_blockedVars => ChargedInv'
<1> SUFFICES ASSUME TypeOK, HaltInv, CounterFits, ChargedInv, [BlockedNext]_blockedVars PROVE ChargedInv'
  OBVIOUS
<1>0. cycle_count \in Nat /\ context_switch_overhead \in Nat
  BY LatencyAssumption DEF TypeOK
<1>1. CASE BlockedExecute
  BY <1>1, ExecuteCharged DEF BlockedExecute, CounterFits
<1>2. CASE StartScan
  BY <1>0, <1>2, ChargedIdle DEF StartScan
<1>3. CASE SwitchContext
  <2>1. cycle_count' = cycle_count + context_switch_overhead
    <3>1. cycle_count + context_switch_overhead \in 0 .. UintMax
      BY <1>0, WidthAssumption DEF CounterFits
    <3> QED
      BY <1>3, <3>1, UintSmall DEF SwitchContext
  <2> QED
    BY <1>0, <1>3, <2>1, ChargedIdle DEF SwitchContext
<1>4. CASE ScanNext
  BY <1>0, <1>4, ChargedIdle DEF ScanNext
<1>5. CASE BlockedIdleCycle
  <2>1. cycle_count' = cycle_count + 1
    <3>1. cycle_count + 1 \in 0 .. UintMax
      BY WidthAssumption, LatencyAssumption DEF TypeOK, CounterFits, CyclesFit
    <3> QED
      BY <1>5, <3>1, UintSmall DEF BlockedIdleCycle
  <2> QED
    BY <1>0, <1>5, <2>1, ChargedIdle DEF BlockedIdleCycle
<1>6. CASE UNCHANGED blockedVars
  BY <1>0, <1>6, ChargedIdle DEF blockedVars, mtVars, imageVars, coreVars
<1>7. CASE loop = "thread" /\ Finished /\ UNCHANGED loop
  BY <1>6, <1>7 DEF Finished, blockedVars
<1> QED
  BY <1>1, <1>2, <1>3, <1>4, <1>5, <1>6, <1>7 DEF BlockedNext

(* As long as the cycle counter fits, no thread is on the core before the  *)
(* cycles and the whole latencies of all it executed have passed.          *)
THEOREM BlockedLatencyCorrect == BlockedSpec /\ []CounterFits => []LatencyCharged
<1>1. BlockedInit => ChargedInv
  BY ChargedInit DEF BlockedInit
<1>2. TypeOK /\ HaltInv /\ CounterFits /\ ChargedInv => LatencyCharged
  BY ChargedSuffices DEF CounterFits
<1>3. CounterFits => CyclesFit
  BY DEF CounterFits
<1> QED
  BY <1>1, <1>2, <1>3, BlockedTypeCorrect, BlockedHaltInvCorrect, BlockedChargedStep, PTL
   DEF BlockedSpec

LEMMA BlockedSchedStep == TypeOK /\ HaltInv /\ CyclesFit /\ SchedInv /\ [BlockedNext]_blockedVars
  => SchedInv'
<1> SUFFICES ASSUME TypeOK, HaltInv, CyclesFit, SchedInv, [BlockedNext]_blockedVars PROVE SchedInv'
  OBVIOUS
<1>1. CASE BlockedExecute
  BY <1>1, ExecuteSched DEF BlockedExecute
<1>2. CASE StartScan
  BY <1>2, SchedIdle DEF StartScan, imageVars
<1>3. CASE SwitchContext
  BY <1>3, SchedIdle DEF SwitchContext, imageVars
<1>4. CASE ScanNext
  BY <1>4, SchedIdle DEF ScanNext, imageVars
<1>5. CASE BlockedIdleCycle
  BY <1>5, SchedIdle DEF BlockedIdleCycle, imageVars
<1>6. CASE UNCHANGED blockedVars
  BY <1>6, SchedIdle DEF blockedVars, mtVars, imageVars, coreVars
<1>7. CASE loop = "thread" /\ Finished /\ UNCHANGED loop
  BY <1>6, <1>7 DEF Finished, blockedVars
<1> QED
  BY <1>1, <1>2, <1>3, <1>4, <1>5, <1>6, <1>7 DEF BlockedNext

(* Threads without a data race compute what each computes alone, whatever  *)
(* the latencies and the overhead that decide when the core switches.      *)
THEOREM BlockedScheduleInvisibleCorrect == BlockedSpec /\ []CyclesFit => []ScheduleInvisible
<1>1. BlockedInit => SchedInv
  BY SchedInit DEF BlockedInit
<1> QED
  BY <1>1, BlockedTypeCorrect, BlockedHaltInvCorrect, BlockedSchedStep, SchedSuffices, PTL
   DEF BlockedSpec
-----------------------------------------------------------------------------
(***************************************************************************)
(* The blocked loop implements the blocked policy, for every number of     *)
(* threads, every set of programs, every latency and overhead: its first   *)
(* state is one of the policy's, and each of its steps is a step of the    *)
(* policy or none.                                                         *)
(***************************************************************************)

(* The policy's instruction set is the loop's. *)
LEMMA BlockedSameThreads == BlockedPolicy!Threads = Threads
  BY DEF BlockedPolicy!Threads, Threads

LEMMA BlockedSameRegs ==
  ASSUME NEW inst, NEW r, NEW mem
  PROVE  BlockedPolicy!RegsAfter(inst, r, mem) = RegsAfter(inst, r, mem)
  BY DEF BlockedPolicy!RegsAfter, RegsAfter, BlockedPolicy!Sint, Sint, BlockedPolicy!Uint, Uint,
         BlockedPolicy!WordOf, WordOf, BlockedPolicy!DataIndex, DataIndex, BlockedPolicy!Address,
            Address,
         BlockedPolicy!Addend, Addend

LEMMA BlockedSameData ==
  ASSUME NEW inst, NEW r, NEW mem
  PROVE  BlockedPolicy!DataAfter(inst, r, mem) = DataAfter(inst, r, mem)
  BY DEF BlockedPolicy!DataAfter, DataAfter, BlockedPolicy!Sint, Sint, BlockedPolicy!Uint, Uint,
         BlockedPolicy!WordOf, WordOf, BlockedPolicy!DataIndex, DataIndex, BlockedPolicy!Address,
            Address,
         BlockedPolicy!Addend, Addend

(* Reading the sentinel as "halted", ready is what the loop calls available. *)
LEMMA BlockedReadyIsAvailable ==
  ASSUME TypeOK, SentinelExact, CyclesFit, NEW t \in Threads
  PROVE  BlockedPolicy!Ready(t) <=> Available(t)
<1>1. /\ cycle_count \in Nat /\ load_latency \in Nat /\ UintMax \in Nat
      /\ return_cycle[t] \in Nat
  BY WidthAssumption, LatencyAssumption DEF TypeOK
<1>2. BlockedPolicy!Ready(t)
        <=> ~Halted(t) /\ (IF Halted(t) THEN 0 ELSE return_cycle[t]) <= cycle_count
  BY DEF BlockedPolicy!Ready, HaltedThreads, ReadyAt
<1>3. CASE Halted(t)
  <2>1. return_cycle[t] = UintMax
    BY <1>3 DEF SentinelExact
  <2> QED
    BY <1>1, <1>2, <1>3, <2>1 DEF Available, CyclesFit
<1>4. CASE ~Halted(t)
  BY <1>1, <1>2, <1>4 DEF Available
<1> QED
  BY <1>3, <1>4
-----------------------------------------------------------------------------
(* The thread the scan looks at next is idle_count places after the one on *)
(* the core, and those in between wait.                                    *)
LEMMA BlockedScanOrder ==
  ASSUME TypeOK, ScanInv, loop = "scan", idle_count < NumThreads,
         NEW u \in Threads, Available(u)
  PROVE  BlockedPolicy!Distance(NextIndex) <= BlockedPolicy!Distance(u)
<1> DEFINE N == NumThreads
           core == (rr_index - idle_count) % N
           d == (u - core - 1) % N
<1>1. /\ N \in Nat \ {0} /\ rr_index \in 0 .. N - 1 /\ u \in 0 .. N - 1
      /\ idle_count \in 0 .. N - 1
  BY ThreadsAssumption DEF TypeOK, Threads
<1>2. core = IF rr_index - idle_count >= 0 THEN rr_index - idle_count
                                           ELSE rr_index - idle_count + N
  <2>1. rr_index - idle_count \in -N .. N - 1
    BY <1>1
  <2> QED
    BY <1>1, <2>1, ModOneTurn
<1>3. core \in 0 .. N - 1
  BY <1>1, <1>2
<1>4. NextIndex = IF rr_index + 1 < N THEN rr_index + 1 ELSE 0
  BY <1>1, ModSmall, ModFull DEF NextIndex
<1>5. (NextIndex - core - 1) % N = idle_count
  <2>1. NextIndex - core - 1 \in -N .. N - 1
    BY <1>1, <1>3, <1>4
  <2>2. (NextIndex - core - 1) % N = IF NextIndex - core - 1 >= 0 THEN NextIndex - core - 1
                                                              ELSE NextIndex - core - 1 + N
    BY <1>1, <2>1, ModOneTurn
  <2> QED
    BY <1>1, <1>2, <1>4, <2>2
<1>6. d = IF u - core - 1 >= 0 THEN u - core - 1 ELSE u - core - 1 + N
  <2>1. u - core - 1 \in -N .. N - 1
    BY <1>1, <1>3
  <2> QED
    BY <1>1, <2>1, ModOneTurn
<1>7. idle_count <= d
  <2> SUFFICES ASSUME d < idle_count PROVE FALSE
    BY <1>1, <1>3, <1>6
  <2>1. d \in 0 .. N - 1
    BY <1>1, <1>3, <1>6
  <2>2. idle_count - 1 - d \in 0 .. idle_count
    BY <1>1, <2>1
  <2>3. rr_index - (idle_count - 1 - d) \in -N .. N - 1
    BY <1>1, <2>2
  <2>4. (rr_index - (idle_count - 1 - d)) % N = u
    <3>1. (rr_index - (idle_count - 1 - d)) % N =
            IF rr_index - (idle_count - 1 - d) >= 0 THEN rr_index - (idle_count - 1 - d)
                                                   ELSE rr_index - (idle_count - 1 - d) + N
      BY <1>1, <2>3, ModOneTurn
    <3> QED
      BY <1>1, <1>2, <1>6, <3>1
  <2> QED
    BY <2>2, <2>4 DEF ScanInv
<1> QED
  BY <1>5, <1>7 DEF BlockedPolicy!Distance, OnCore

(* The initial states are the policy's: thread 0 is on the core. *)
LEMMA BlockedRefinesInit == BlockedInit => BlockedPolicy!PolicyInit(0)
<1> SUFFICES ASSUME BlockedInit PROVE BlockedPolicy!PolicyInit(0)
  OBVIOUS
<1>1. TypeOK /\ SentinelExact /\ rip = [t \in Threads |-> 0]
  BY InitType, InitHaltInv DEF BlockedInit, HaltInv, CORE_init
<1>2. \A t \in Threads : ~Halted(t)
  <2>1. \A t \in Threads : return_cycle[t] # UintMax
    BY WidthAssumption DEF BlockedInit, CORE_init
  <2> QED
    BY <1>1, <2>1 DEF SentinelExact
<1>3. OnCore = 0
  BY DEF BlockedInit, CORE_init, OnCore
<1>4. ReadyAt = [t \in Threads |-> 0] /\ HaltedThreads = {}
  BY <1>2 DEF BlockedInit, CORE_init, ReadyAt, HaltedThreads
<1>5. LatencyOf \in [{"LOAD", "STORE"} -> Latencies]
  BY <1>1 DEF TypeOK, LatencyOf
<1> QED
  BY <1>1, <1>3, <1>4, <1>5, BlockedSameThreads
  DEF BlockedPolicy!PolicyInit, BlockedPolicy!Reg, Reg, BlockedInit, SIM_MemReset, CORE_init
-----------------------------------------------------------------------------
(* The steps of the scan are no events of the machine. *)
LEMMA ScanStutters ==
  ASSUME BlockedTypeOK, StartScan \/ ScanNext
  PROVE  UNCHANGED BlockedPolicy!policyVars
<1>0. /\ TypeOK /\ NumThreads \in Nat \ {0} /\ rr_index \in 0 .. NumThreads - 1
      /\ idle_count \in 0 .. NumThreads
  BY ThreadsAssumption DEF BlockedTypeOK, TypeOK, Threads
<1>1. CASE StartScan
  <2>1. (rr_index - 0) % NumThreads = rr_index
    BY <1>0, ModSmall
  <2>2. OnCore' = OnCore
    BY <1>1, <2>1 DEF StartScan, OnCore
  <2> QED
    BY <1>1, <2>2 DEF StartScan, BlockedPolicy!policyVars, imageVars, HaltedThreads, ReadyAt,
                      LatencyOf, Halted, Halts
<1>2. CASE ScanNext
  <2>1. idle_count + 1 \in 1 .. NumThreads /\ idle_count + 1 - 1 = idle_count
    BY <1>0, <1>2 DEF ScanNext
  <2>2. (NextIndex - (idle_count + 1)) % NumThreads = (rr_index - idle_count) % NumThreads
    BY <1>0, <2>1, OneBack
  <2>3. OnCore' = OnCore
    BY <1>2, <2>2 DEF ScanNext, OnCore
  <2> QED
    BY <1>2, <2>3 DEF ScanNext, BlockedPolicy!policyVars, imageVars, HaltedThreads, ReadyAt,
                      LatencyOf, Halted, Halts
<1> QED
  BY <1>1, <1>2

(* A scan that found nobody loses a cycle, and the thread on the core      *)
(* stays on it.                                                            *)
LEMMA BlockedIdleLosesCycle ==
  ASSUME BlockedTypeOK, ScanInv, HaltInv, CounterFits, BlockedIdleCycle
  PROVE  BlockedPolicy!BlockedNext
<1>0. /\ TypeOK /\ NumThreads \in Nat \ {0} /\ rr_index \in 0 .. NumThreads - 1
      /\ cycle_count \in Nat /\ load_latency \in Nat /\ CyclesFit
  BY ThreadsAssumption, LatencyAssumption DEF BlockedTypeOK, TypeOK, Threads, CounterFits
<1>1. BlockedPolicy!NoneReady
  <2>1. \A t \in Threads : ~Available(t)
    BY <1>0, BlockedFullRound DEF BlockedIdleCycle
  <2> QED
    BY <1>0, <2>1, BlockedReadyIsAvailable, BlockedSameThreads DEF BlockedPolicy!NoneReady, HaltInv
<1>2. HaltedThreads # Threads
  BY <1>0, RunningNotHalted DEF HaltInv, BlockedIdleCycle, ScanInv
<1>3. cycle_count' = cycle_count + 1
  <2>1. cycle_count + 1 \in 0 .. UintMax
    BY <1>0, WidthAssumption DEF CyclesFit
  <2> QED
    BY <2>1, UintSmall DEF BlockedIdleCycle
<1>4. OnCore' = OnCore
  <2>1. (rr_index - NumThreads) % NumThreads = rr_index
    BY <1>0, ModTurn
  <2> QED
    BY <2>1 DEF BlockedIdleCycle, OnCore
<1>5. BlockedPolicy!LoseCycle
  BY <1>1, <1>2, <1>3, <1>4, BlockedSameThreads
  DEF BlockedPolicy!LoseCycle, BlockedIdleCycle, imageVars, HaltedThreads, ReadyAt, LatencyOf,
     Halted,
      Halts
<1> QED
  BY <1>5 DEF BlockedPolicy!BlockedNext

(* A switch takes the first ready thread after the one on the core, which  *)
(* waits, and pays the overhead.                                           *)
LEMMA SwitchSwitches ==
  ASSUME BlockedTypeOK, ScanInv, HaltInv, CounterFits, SwitchContext
  PROVE  BlockedPolicy!BlockedNext
<1>0. /\ TypeOK /\ NumThreads \in Nat \ {0} /\ NextIndex \in Threads
      /\ idle_count \in 0 .. NumThreads - 1 /\ loop = "scan" /\ OnCore \in Threads
      /\ rr_index \in 0 .. NumThreads - 1 /\ CyclesFit
      /\ cycle_count \in Nat /\ context_switch_overhead \in Nat
  <2>1. /\ TypeOK /\ NumThreads \in Nat \ {0} /\ rr_index \in 0 .. NumThreads - 1
        /\ idle_count \in 0 .. NumThreads - 1 /\ loop = "scan" /\ CyclesFit
    BY ThreadsAssumption DEF BlockedTypeOK, TypeOK, Threads, SwitchContext, CounterFits
  <2>2. (rr_index - idle_count) % NumThreads \in 0 .. NumThreads - 1
    BY <2>1, ModRange
  <2>3. cycle_count \in Nat /\ context_switch_overhead \in Nat
    BY <2>1, LatencyAssumption DEF TypeOK
  <2> QED
    BY <2>1, <2>2, <2>3, NextIndexType DEF OnCore, Threads
<1>1. ~BlockedPolicy!Ready(OnCore)
  <2>1. ~Available(OnCore)
    BY <1>0 DEF ScanInv, OnCore
  <2> QED
    BY <1>0, <2>1, BlockedReadyIsAvailable DEF HaltInv
<1>2. BlockedPolicy!FirstReady(NextIndex)
  <2>1. BlockedPolicy!Ready(NextIndex)
    BY <1>0, BlockedReadyIsAvailable DEF HaltInv, SwitchContext
  <2>2. \A u \in Threads :
          BlockedPolicy!Ready(u) => BlockedPolicy!Distance(NextIndex) <= BlockedPolicy!Distance(u)
    BY <1>0, BlockedReadyIsAvailable, BlockedScanOrder DEF HaltInv
  <2> QED
    BY <2>1, <2>2, BlockedSameThreads DEF BlockedPolicy!FirstReady
<1>3. cycle_count' = cycle_count + context_switch_overhead
  <2>1. cycle_count + context_switch_overhead \in 0 .. UintMax
    BY <1>0, WidthAssumption DEF CounterFits
  <2> QED
    BY <2>1, UintSmall DEF SwitchContext
<1>4. OnCore' = NextIndex
  BY DEF SwitchContext, OnCore
<1>5. BlockedPolicy!SwitchTo(NextIndex)
  BY <1>1, <1>2, <1>3, <1>4
  DEF BlockedPolicy!SwitchTo, SwitchContext, imageVars, HaltedThreads, ReadyAt, LatencyOf, Halted,
      Halts
<1> QED
  BY <1>0, <1>5, BlockedSameThreads DEF BlockedPolicy!BlockedNext

(* Executing is issuing for the thread on the core. *)
LEMMA BlockedExecuteIssues ==
  ASSUME BlockedTypeOK, HaltInv, CounterFits, BlockedExecute
  PROVE  BlockedPolicy!BlockedNext
<1>0. /\ TypeOK /\ CyclesFit
      /\ \E u \in Threads : u = rr_index
  BY DEF BlockedTypeOK, TypeOK, CounterFits
<1>1. PICK t \in Threads : t = rr_index
  BY <1>0
<1>2. PICK inst \in Fetched : EXECUTE_inst(inst)
  BY DEF BlockedExecute
<1>3. /\ rip[t] < Len(instructions[t])
      /\ inst = instructions[t][rip[t] + 1]
      /\ cycle_count' = cycle_count + 1
      /\ HaltedThreads' = IF inst.op = "HALT" THEN HaltedThreads \cup {t}
                                             ELSE HaltedThreads
      /\ ReadyAt' = [ReadyAt EXCEPT ![t] =
                       CASE IsMemoryOp(inst)   -> cycle_count + 1 + LatencyOf[inst.op]
                         [] inst.op = "HALT"   -> 0
                         [] OTHER              -> @]
  <2>1. Available(t) /\ UNCHANGED imageVars
    BY <1>1 DEF BlockedExecute
  <2> QED
    BY <1>0, <1>1, <1>2, <2>1, ExecuteEffect
<1>4. /\ rip' = [rip EXCEPT ![t] = @ + 1]
      /\ regs' = [regs EXCEPT ![t] = RegsAfter(inst, @, data)]
      /\ data' = DataAfter(inst, regs[t], data)
      /\ UNCHANGED <<instructions, LatencyOf, context_switch_overhead>>
  BY <1>1, <1>2 DEF EXECUTE_inst, BlockedExecute, imageVars, LatencyOf
<1>5. OnCore = t /\ OnCore' = t
  BY <1>1 DEF BlockedExecute, OnCore
<1>6. BlockedPolicy!Ready(t)
  BY <1>0, <1>1, BlockedReadyIsAvailable DEF HaltInv, BlockedExecute
<1>7. BlockedPolicy!Issue(t)
  <2>1. BlockedPolicy!RegsAfter(inst, regs[t], data) = RegsAfter(inst, regs[t], data)
    BY BlockedSameRegs
  <2>2. BlockedPolicy!DataAfter(inst, regs[t], data) = DataAfter(inst, regs[t], data)
    BY BlockedSameData
  <2> QED
    BY <1>3, <1>4, <1>5, <2>1, <2>2 DEF BlockedPolicy!Issue, BlockedPolicy!IsMemoryOp, IsMemoryOp
<1> QED
  BY <1>5, <1>6, <1>7 DEF BlockedPolicy!BlockedNext

LEMMA BlockedRefinesStep ==
  BlockedTypeOK /\ ScanInv /\ HaltInv /\ CounterFits /\ [BlockedNext]_blockedVars
    => [BlockedPolicy!BlockedNext]_(BlockedPolicy!policyVars)
<1>1. UNCHANGED blockedVars => UNCHANGED BlockedPolicy!policyVars
  BY DEF blockedVars, mtVars, imageVars, coreVars, OnCore, BlockedPolicy!policyVars, HaltedThreads,
         ReadyAt, LatencyOf, Halted, Halts
<1>2. loop = "thread" /\ Finished /\ UNCHANGED loop => UNCHANGED blockedVars
  BY DEF Finished, blockedVars
<1> QED
  BY <1>1, <1>2, BlockedExecuteIssues, ScanStutters, SwitchSwitches, BlockedIdleLosesCycle
   DEF BlockedNext

(* The blocked loop implements the blocked policy, as long as the cycle    *)
(* counter does not reach its end: the thread on the core issues while it  *)
(* is ready, only the first ready thread after it takes the core from it,  *)
(* at the price of the overhead, and a cycle is lost only when no thread   *)
(* is ready.                                                               *)
THEOREM ImplementsBlockedSafely ==
  BlockedSpec /\ []CounterFits
    => BlockedPolicy!PolicyInit(0) /\ [][BlockedPolicy!BlockedNext]_(BlockedPolicy!policyVars)
<1>1. CounterFits => CyclesFit
  BY DEF CounterFits
<1> QED
  BY <1>1, BlockedRefinesInit, BlockedRefinesStep, BlockedTypeInv, ScanCorrect, BlockedHaltInvCorrect, PTL
   DEF BlockedSpec
=============================================================================
