------------------------------- MODULE DataFlow -------------------------------
(***************************************************************************)
(* The dataflow analysis of HW3/dflow_calc.cpp.  analyzeProg reads the     *)
(* trace one instruction at a time, linking each to the last writers of    *)
(* its sources; then it computes depths recursively, from the nodes that   *)
(* nothing depends on; then it answers queries.                            *)
(*                                                                         *)
(* DflowMain is the program around it: it reads the trace and the          *)
(* latencies and asks the queries.                                         *)
(*                                                                         *)
(* Bounds: MaxInsts instructions (main rejects an empty program).          *)
(* IntMax is INT_MAX; an int sum wraps, as in the compiled program.        *)
(***************************************************************************)
EXTENDS Integers, Sequences, FiniteSetsExt

CONSTANTS
  Regs,         \* register indices
  Latencies,    \* the latencies opsLatency may hold
  MaxInsts,
  IntMax

ASSUME RegsAssumption    == Regs \subseteq Nat
ASSUME LatencyAssumption == Latencies \subseteq Nat
ASSUME BoundsAssumption  == MaxInsts \in Nat /\ IntMax \in Nat \ {0}

NONE == -1

VARIABLES
  progTrace,    \* the instructions; opcode is replaced by its latency
  phase,        \* "none" before analyzeProg, then "link", "depth" (the two
                \* loops of InitData), "ready"
  i,            \* loop index
  regs,         \* regs[r]: the last instruction that wrote r
  dep1, dep2,   \* node fields, one per instruction linked so far
  depth,        \* node.max_depth
  exit_nodes,   \* the nodes still connected to the exit
  max_depth,    \* of the program
  answer        \* of the last query

vars == <<progTrace, phase, i, regs, dep1, dep2, depth, exit_nodes, max_depth, answer>>

num_of_insts == Len(progTrace)
Insts == 0 .. num_of_insts - 1

InstInfo == [latency : Latencies, dst : Regs, src1 : Regs, src2 : Regs]

latency(n) == progTrace[n + 1].latency

(* int arithmetic. *)
Int32(v) == ((v + IntMax + 1) % (2 * IntMax + 2)) - IntMax - 1

(* No trace yet. *)
Init ==
  /\ phase = "none"
  /\ progTrace = << >>
  /\ i = 0
  /\ regs = [r \in Regs |-> NONE]
  /\ dep1 = << >>
  /\ dep2 = << >>
  /\ depth = << >>
  /\ exit_nodes = {}
  /\ max_depth = NONE
  /\ answer = << >>

(* analyzeProg constructs the object for a trace; InitData follows.        *)
Construct(trace) ==
  /\ phase = "none"
  /\ phase' = "link"
  /\ progTrace' = trace
  /\ depth' = [n \in 0 .. Len(trace) - 1 |-> NONE]
  /\ exit_nodes' = 0 .. Len(trace) - 1
  /\ UNCHANGED <<i, regs, dep1, dep2, max_depth, answer>>

(* Faulty variant: instructions are numbered from one. *)
Link_OneBased ==
  /\ phase = "link"
  /\ i < num_of_insts
  /\ LET inst == progTrace[i + 1]
     IN  /\ dep1' = [n \in 0 .. i |-> IF n = i THEN regs[inst.src1] ELSE dep1[n]]
         /\ dep2' = [n \in 0 .. i |-> IF n = i THEN regs[inst.src2] ELSE dep2[n]]
         /\ exit_nodes' = exit_nodes \ {regs[inst.src1], regs[inst.src2]}
         /\ regs' = [regs EXCEPT ![inst.dst] = i + 1]
  /\ i' = i + 1
  /\ UNCHANGED <<progTrace, phase, depth, max_depth, answer>>

(* Faulty variant: a second dependency leaves its node connected to exit. *)
Link_OneExit ==
  /\ phase = "link"
  /\ i < num_of_insts
  /\ LET inst == progTrace[i + 1]
     IN  /\ dep1' = [n \in 0 .. i |-> IF n = i THEN regs[inst.src1] ELSE dep1[n]]
         /\ dep2' = [n \in 0 .. i |-> IF n = i THEN regs[inst.src2] ELSE dep2[n]]
         /\ exit_nodes' = exit_nodes \ {regs[inst.src1]}
         /\ regs' = [regs EXCEPT ![inst.dst] = i]
  /\ i' = i + 1
  /\ UNCHANGED <<progTrace, phase, depth, max_depth, answer>>

(* First loop: link instruction i. *)
Link ==
  /\ phase = "link"
  /\ i < num_of_insts
  /\ LET inst == progTrace[i + 1]
     IN  /\ dep1' = [n \in 0 .. i |-> IF n = i THEN regs[inst.src1] ELSE dep1[n]]
         /\ dep2' = [n \in 0 .. i |-> IF n = i THEN regs[inst.src2] ELSE dep2[n]]
         /\ exit_nodes' = exit_nodes \ {regs[inst.src1], regs[inst.src2]}
         /\ regs' = [regs EXCEPT ![inst.dst] = i]
  /\ i' = i + 1
  /\ UNCHANGED <<progTrace, phase, depth, max_depth, answer>>

LinkEnds ==
  /\ phase = "link"
  /\ i = num_of_insts
  /\ phase' = "depth"
  /\ i' = 0
  /\ UNCHANGED <<progTrace, regs, dep1, dep2, depth, exit_nodes, max_depth, answer>>

(* The nodes getDepthRecursive(n) gives a depth to: those it reaches       *)
(* without passing one that has a depth already.                           *)
Visits ==
  LET visits[n \in NONE .. num_of_insts - 1] ==
        IF n = NONE \/ (n # NONE /\ depth[n] # NONE) THEN {}
        ELSE {n} \cup visits[dep1[n]] \cup visits[dep2[n]]
  IN  visits

(* What it returns. *)
getDepthRecursive ==
  LET result[n \in NONE .. num_of_insts - 1] ==
        IF n = NONE THEN 0
        ELSE IF depth[n] # NONE THEN depth[n]
        ELSE Int32(latency(n) + Max({result[dep1[n]], result[dep2[n]]}))
  IN  result

(* Faulty variant: the loop starts from the first node only. *)
Depth_FirstOnly ==
  /\ phase = "depth"
  /\ i < num_of_insts
  /\ i \in exit_nodes
  /\ i = Min(exit_nodes)
  /\ depth' = [n \in Insts |-> IF n \in Visits[i] THEN getDepthRecursive[n] ELSE depth[n]]
  /\ max_depth' = Max({max_depth, getDepthRecursive[i]})
  /\ i' = num_of_insts
  /\ UNCHANGED <<progTrace, phase, regs, dep1, dep2, exit_nodes, answer>>

(* Second loop: a node connected to the exit. *)
Depth ==
  /\ phase = "depth"
  /\ i < num_of_insts
  /\ i \in exit_nodes
  /\ depth' = [n \in Insts |-> IF n \in Visits[i] THEN getDepthRecursive[n] ELSE depth[n]]
  /\ max_depth' = Max({max_depth, getDepthRecursive[i]})
  /\ i' = i + 1
  /\ UNCHANGED <<progTrace, phase, regs, dep1, dep2, exit_nodes, answer>>

NotExit ==
  /\ phase = "depth"
  /\ i < num_of_insts
  /\ i \notin exit_nodes
  /\ i' = i + 1
  /\ UNCHANGED <<progTrace, phase, regs, dep1, dep2, depth, exit_nodes, max_depth, answer>>

DepthEnds ==
  /\ phase = "depth"
  /\ i = num_of_insts
  /\ phase' = "ready"
  /\ UNCHANGED <<progTrace, i, regs, dep1, dep2, depth, exit_nodes, max_depth, answer>>

(* Faulty variant: the instruction's own latency is counted. *)
DepthAnswer_Whole(theInst) == IF theInst >= num_of_insts THEN NONE ELSE depth[theInst]

DepthAnswer(theInst) ==
  CASE theInst >= num_of_insts                           -> NONE
    [] theInst < num_of_insts /\ depth[theInst] = NONE   -> 0
    [] OTHER -> Int32(depth[theInst] - latency(theInst))

(* The queries of main: theInst is any unsigned number. *)
getInstDepth(theInst) ==
  /\ phase = "ready"
  /\ answer' = <<"depth", theInst, DepthAnswer(theInst)>>
  /\ UNCHANGED <<progTrace, phase, i, regs, dep1, dep2, depth, exit_nodes, max_depth>>

getInstDeps(theInst) ==
  /\ phase = "ready"
  /\ answer' = IF theInst >= num_of_insts THEN <<"deps", theInst, NONE>>
               ELSE <<"deps", theInst, dep1[theInst], dep2[theInst]>>
  /\ UNCHANGED <<progTrace, phase, i, regs, dep1, dep2, depth, exit_nodes, max_depth>>

Analysis == Link \/ LinkEnds \/ Depth \/ NotExit \/ DepthEnds

Next ==
  \/ \E trace \in UNION {[1 .. n -> InstInfo] : n \in 1 .. MaxInsts} : Construct(trace)
  \/ Analysis
  \/ \E theInst \in 0 .. MaxInsts : getInstDepth(theInst) \/ getInstDeps(theInst)

Spec == Init /\ [][Next]_vars
-----------------------------------------------------------------------------
TypeOK ==
  /\ phase \in {"none", "link", "depth", "ready"}
  /\ i \in 0 .. num_of_insts
  /\ regs \in [Regs -> NONE .. num_of_insts - 1]
  /\ depth \in [Insts -> -IntMax - 1 .. IntMax]
  /\ exit_nodes \subseteq Insts
  /\ max_depth \in -IntMax - 1 .. IntMax

(* A reference that follows the definitions and no table: the last writer  *)
(* of register r before instruction n.                                     *)
Writers(n, r)    == {w \in 0 .. n - 1 : progTrace[w + 1].dst = r}
LastWriter(n, r) == Max({NONE} \cup Writers(n, r))

DependsOn(n, m) ==
  m \in {LastWriter(n, progTrace[n + 1].src1), LastWriter(n, progTrace[n + 1].src2)}

(* A chain into n: each instruction of S but the first depends on the one  *)
(* before it, and n is the last.                                           *)
IsChain(S, n) ==
  /\ n \in S
  /\ \A m \in S \ {n} : /\ m < n
                        /\ DependsOn(Min({k \in S : k > m}), m)

Chains(n)    == {S \in SUBSET (0 .. n) : IsChain(S, n)}
LongestTo(n) == Max({MapThenSumSet(latency, S) : S \in Chains(n)})

(* Dependencies and exit nodes are those of the definition for the part of *)
(* the trace linked so far.                                                *)
LinkedExact ==
  LET linked == IF phase = "link" THEN 0 .. i - 1 ELSE Insts
  IN  /\ \A n \in linked : /\ dep1[n] = LastWriter(n, progTrace[n + 1].src1)
                           /\ dep2[n] = LastWriter(n, progTrace[n + 1].src2)
      /\ exit_nodes = {m \in Insts : \A n \in linked : ~DependsOn(n, m)}

(* The depth of the program, taken over its exit nodes only, is that of    *)
(* its longest chain (dflow_calc.cpp:119-130).                             *)
ProgDepthExact ==
  phase = "ready" => max_depth = Max({LongestTo(n) : n \in Insts})

(* Depths are computed from the exit nodes only and memoised on the way,   *)
(* yet every instruction has one: a query returns the length of the        *)
(* longest chain it waits for, or the instructions it waits for            *)
(* (dflow_calc.cpp:119-158, 183-217).                                      *)
AnswersExact ==
  answer # << >> =>
    LET n == answer[2] IN
    CASE n >= num_of_insts   -> answer[3] < 0
      [] n < num_of_insts /\ answer[1] = "depth" ->
           answer[3] = LongestTo(n) - latency(n)
      [] OTHER -> \A m \in Insts : DependsOn(n, m) <=> m \in {answer[3], answer[4]}
=============================================================================
