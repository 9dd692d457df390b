---------------------------- MODULE DflowMain_proofs ----------------------------
(***************************************************************************)
(* The analysis of dflow_calc.cpp and the program of dflow_main.c around   *)
(* it.                                                                     *)
(*                                                                         *)
(* Linking is right for programs of every length: each instruction is tied *)
(* to the last writers of its sources, and the exit nodes are those nobody *)
(* depends on.  InitData's table of registers is the key: at instruction i *)
(* it holds the last writer of every register before i.                    *)
(*                                                                         *)
(* Depths are right too.  The definition takes the longest of all chains;  *)
(* cutting the last instruction off a chain, or putting one after it,      *)
(* shows that this obeys the equation getDepthRecursive computes by, and   *)
(* the table of depths holds nothing else: a depth is right, and whatever  *)
(* it was computed from has one.  That every instruction has one at the    *)
(* end goes down from the last: a node nobody depends on is an exit node,  *)
(* which the loop passed, and any other was reached from a later one.      *)
(*                                                                         *)
(* The program hands the analysis what the specification DataFlow starts   *)
(* from, so what is proved of the analysis holds in the program; and what  *)
(* it hands over is what its files say.                                    *)
(***************************************************************************)
EXTENDS DflowMain, Induction_proofs

(* The inductive invariant. *)
Shape ==
  /\ phase \in {"none", "link", "depth", "ready"}
  /\ progTrace \in Seq(InstInfo)
  /\ i \in 0 .. num_of_insts
  /\ phase = "none" => /\ progTrace = << >> /\ i = 0 /\ exit_nodes = {}
                       /\ regs = [r \in Regs |-> NONE]

TableExact ==
  phase = "link" => regs = [r \in Regs |-> LastWriter(i, r)]

LinkInv == Shape /\ TableExact /\ LinkedExact

(* Before the first instruction nothing is written. *)
LEMMA NobodyBefore == \A r : LastWriter(0, r) = NONE
<1> SUFFICES ASSUME NEW r PROVE LastWriter(0, r) = NONE
  OBVIOUS
<1>1. Writers(0, r) = {}
  BY DEF Writers
<1>2. Max({NONE}) = NONE
  BY DEF Max, NONE
<1> QED
  BY <1>1, <1>2 DEF LastWriter

(* One instruction further, the last writer is that instruction or the one *)
(* it was.                                                                 *)
LEMMA OneFurther ==
  ASSUME NEW n \in Nat, NEW r
  PROVE  LastWriter(n + 1, r) = IF progTrace[n + 1].dst = r THEN n ELSE LastWriter(n, r)
<1>1. CASE progTrace[n + 1].dst = r
  <2> DEFINE S == {NONE} \cup Writers(n + 1, r)
  <2>1. n \in S /\ \A y \in S : y \in Int /\ n >= y
    BY <1>1 DEF Writers, NONE
  <2>2. Max(S) = n
    BY <2>1 DEF Max
  <2> QED
    BY <1>1, <2>2 DEF LastWriter
<1>2. CASE progTrace[n + 1].dst # r
  <2>1. Writers(n + 1, r) = Writers(n, r)
    BY <1>2 DEF Writers
  <2> QED
    BY <1>2, <2>1 DEF LastWriter
<1> QED
  BY <1>1, <1>2

(* What the last writers are taken from does not change. *)
LEMMA SameWriters ==
  ASSUME UNCHANGED progTrace
  PROVE  /\ \A n, r : LastWriter(n, r)' = LastWriter(n, r)
         /\ \A n, m : DependsOn(n, m)' = DependsOn(n, m)
         /\ Insts' = Insts /\ num_of_insts' = num_of_insts
  BY DEF LastWriter, Writers, DependsOn, Insts, num_of_insts

LEMMA LinkInvInit == Init => LinkInv
<1> SUFFICES ASSUME Init PROVE LinkInv
  OBVIOUS
<1>1. Shape
  BY DEF Init, Shape, num_of_insts
<1>2. TableExact
  BY DEF Init, TableExact
<1>3. LinkedExact
  BY DEF Init, LinkedExact, Insts, num_of_insts
<1> QED
  BY <1>1, <1>2, <1>3 DEF LinkInv

LEMMA LinkInvConstruct ==
  ASSUME LinkInv, NEW trace \in Seq(InstInfo), Construct(trace)
  PROVE  LinkInv'
<1>1. /\ phase' = "link" /\ progTrace' = trace /\ i' = 0 /\ i = 0
      /\ exit_nodes' = 0 .. Len(trace) - 1
      /\ regs' = [r \in Regs |-> NONE]
  BY DEF LinkInv, Shape, Construct
<1>2. Shape'
  BY <1>1 DEF Shape, num_of_insts
<1>3. TableExact'
  <2>1. (\A r : LastWriter(0, r) = NONE)'
    BY NobodyBefore, PTL
  <2> QED
    BY <1>1, <2>1 DEF TableExact
<1>4. LinkedExact'
  BY <1>1 DEF LinkedExact, Insts, num_of_insts
<1> QED
  BY <1>2, <1>3, <1>4 DEF LinkInv
LEMMA LinkInvLink == LinkInv /\ Link => LinkInv'
<1> SUFFICES ASSUME LinkInv, Link PROVE LinkInv'
  OBVIOUS
<1> DEFINE inst == progTrace[i + 1]
<1>1. /\ phase = "link" /\ phase' = "link" /\ UNCHANGED progTrace
      /\ progTrace \in Seq(InstInfo) /\ i \in 0 .. num_of_insts - 1 /\ i' = i + 1
      /\ num_of_insts \in Nat
  BY DEF LinkInv, Shape, Link, num_of_insts
<1>2. inst.dst \in Regs /\ inst.src1 \in Regs /\ inst.src2 \in Regs
  <2>1. i + 1 \in 1 .. Len(progTrace)
    BY <1>1 DEF num_of_insts
  <2>2. inst \in InstInfo
    BY <1>1, <2>1
  <2> QED
    BY <2>2 DEF InstInfo
<1>3. regs = [r \in Regs |-> LastWriter(i, r)]
  BY <1>1 DEF LinkInv, TableExact
<1>4. Shape'
  BY <1>1 DEF Shape, num_of_insts
<1>5. TableExact'
  <2>1. regs' = [r \in Regs |-> IF inst.dst = r THEN i ELSE LastWriter(i, r)]
    BY <1>2, <1>3 DEF Link
  <2>2. i \in Nat
    BY <1>1
  <2>3. \A r \in Regs : LastWriter(i + 1, r) = IF inst.dst = r THEN i ELSE LastWriter(i, r)
    BY <2>2, OneFurther
  <2>4. regs' = [r \in Regs |-> LastWriter(i + 1, r)]
    BY <2>1, <2>3
  <2> QED
    BY <1>1, <2>4, SameWriters DEF TableExact
<1>6. LinkedExact'
  <2>1. /\ \A n \in 0 .. i - 1 : /\ dep1[n] = LastWriter(n, progTrace[n + 1].src1)
                                /\ dep2[n] = LastWriter(n, progTrace[n + 1].src2)
        /\ exit_nodes = {m \in Insts : \A n \in 0 .. i - 1 : ~DependsOn(n, m)}
    BY <1>1 DEF LinkInv, LinkedExact
  <2>2. \A n \in 0 .. i : /\ dep1'[n] = LastWriter(n, progTrace[n + 1].src1)
                          /\ dep2'[n] = LastWriter(n, progTrace[n + 1].src2)
    BY <1>1, <1>2, <1>3, <2>1 DEF Link
  <2>3. \A m : DependsOn(i, m) <=> m \in {regs[inst.src1], regs[inst.src2]}
    BY <1>2, <1>3 DEF DependsOn
  <2>4. exit_nodes' = {m \in Insts : \A n \in 0 .. i : ~DependsOn(n, m)}
    <3>1. exit_nodes' = exit_nodes \ {regs[inst.src1], regs[inst.src2]}
      BY DEF Link
    <3>2. 0 .. i = (0 .. i - 1) \cup {i}
      BY <1>1
    <3> QED
      BY <2>1, <2>3, <3>1, <3>2
  <2>5. 0 .. i' - 1 = 0 .. i
    BY <1>1
  <2> QED
    BY <1>1, <2>2, <2>4, <2>5, SameWriters DEF LinkedExact
<1> QED
  BY <1>4, <1>5, <1>6 DEF LinkInv

LEMMA LinkInvLinkEnds == LinkInv /\ LinkEnds => LinkInv'
<1> SUFFICES ASSUME LinkInv, LinkEnds PROVE LinkInv'
  OBVIOUS
<1>1. /\ phase = "link" /\ phase' = "depth" /\ UNCHANGED <<progTrace, dep1, dep2, exit_nodes>>
      /\ progTrace \in Seq(InstInfo) /\ i = num_of_insts /\ i' = 0
  BY DEF LinkInv, Shape, LinkEnds
<1>2. 0 .. i - 1 = Insts
  BY <1>1 DEF Insts
<1>3. Shape'
  BY <1>1 DEF Shape, num_of_insts
<1>4. TableExact'
  BY <1>1 DEF TableExact
<1>5. LinkedExact'
  BY <1>1, <1>2, SameWriters DEF LinkInv, LinkedExact
<1> QED
  BY <1>3, <1>4, <1>5 DEF LinkInv

(* What comes after linking leaves it alone. *)
LEMMA LinkInvAfter ==
  ASSUME LinkInv,
         phase \in {"depth", "ready"}, phase' \in {"depth", "ready"},
         i' \in 0 .. num_of_insts,
         UNCHANGED <<progTrace, regs, dep1, dep2, exit_nodes>>
  PROVE  LinkInv'
<1>1. Shape'
  BY DEF LinkInv, Shape, num_of_insts
<1>2. TableExact'
  BY DEF TableExact
<1>3. LinkedExact'
  BY SameWriters DEF LinkInv, LinkedExact
<1> QED
  BY <1>1, <1>2, <1>3 DEF LinkInv

LEMMA LinkInvStutter == LinkInv /\ UNCHANGED vars => LinkInv'
<1> SUFFICES ASSUME LinkInv, UNCHANGED vars PROVE LinkInv'
  OBVIOUS
<1>1. UNCHANGED <<progTrace, phase, i, regs, dep1, dep2, exit_nodes>>
  BY DEF vars
<1>2. Shape'
  BY <1>1 DEF LinkInv, Shape, num_of_insts
<1>3. TableExact'
  BY <1>1, SameWriters DEF LinkInv, TableExact
<1>4. LinkedExact'
  BY <1>1, SameWriters DEF LinkInv, LinkedExact
<1> QED
  BY <1>2, <1>3, <1>4 DEF LinkInv

LEMMA LinkInvNext == LinkInv /\ [Next]_vars => LinkInv'
<1> SUFFICES ASSUME LinkInv, [Next]_vars PROVE LinkInv'
  OBVIOUS
<1>1. ASSUME NEW n \in 1 .. MaxInsts, NEW trace \in [1 .. n -> InstInfo], Construct(trace)
      PROVE  LinkInv'
  <2>1. trace \in Seq(InstInfo)
    OBVIOUS
  <2> QED
    BY <1>1, <2>1, LinkInvConstruct
<1>2. CASE Link
  BY <1>2, LinkInvLink
<1>3. CASE LinkEnds
  BY <1>3, LinkInvLinkEnds
<1>4. CASE Depth
  BY <1>4, LinkInvAfter DEF Depth, LinkInv, Shape, num_of_insts
<1>5. CASE NotExit
  BY <1>5, LinkInvAfter DEF NotExit, LinkInv, Shape, num_of_insts
<1>6. CASE DepthEnds
  BY <1>6, LinkInvAfter DEF DepthEnds, LinkInv, Shape, num_of_insts
<1>7. ASSUME NEW theInst, getInstDepth(theInst) \/ getInstDeps(theInst)
      PROVE  LinkInv'
  BY <1>7, LinkInvAfter DEF getInstDepth, getInstDeps, LinkInv, Shape, num_of_insts
<1>8. CASE UNCHANGED vars
  BY <1>8, LinkInvStutter
<1> QED
  BY <1>1, <1>2, <1>3, <1>4, <1>5, <1>6, <1>7, <1>8 DEF Next, Analysis

(* At any point of the analysis the instructions linked so far depend on   *)
(* the last writers of their sources, and the exit nodes are those none of *)
(* them depends on: for programs of any length and any number of registers *)
(* (dflow_calc.cpp:74-104).                                                *)
THEOREM LinkedCorrect == Spec => []LinkedExact
<1>1. Init => LinkInv
  BY LinkInvInit
<1>2. LinkInv /\ [Next]_vars => LinkInv'
  BY LinkInvNext
<1>3. LinkInv => LinkedExact
  BY DEF LinkInv
<1> QED
  BY <1>1, <1>2, <1>3, PTL DEF Spec
-----------------------------------------------------------------------------
(* The lengths of the chains, as sums over a table.                        *)
LatTable(T) ==
  CHOOSE g : g = [s \in SUBSET T |-> IF s = {} THEN 0 ELSE latency(Pick(s)) + g[s \ {Pick(s)}]]

LatF == [n \in Nat |-> latency(n)]
Span(S) == SumOver(LatF, S)

LEMMA SpanIsSum == ASSUME NEW S, S \subseteq Nat PROVE MapThenSumSet(latency, S) = Span(S)
<1>1. MapThenSumSet(latency, S) = LatTable(S)[S]
  BY DEF MapThenSumSet, MapThenFoldSet, LatTable, Pick
<1>2. LatTable(S) = SumTable(LatF, S)
  <2>1. \A s \in SUBSET S : s # {} => LatF[Pick(s)] = latency(Pick(s))
    <3>1. \A s \in SUBSET S : s # {} => Pick(s) \in Nat
      BY DEF Pick
    <3> QED
      BY <3>1, Zenon DEF LatF
  <2>2. ASSUME NEW g
        PROVE  [s \in SUBSET S |-> IF s = {} THEN 0 ELSE latency(Pick(s)) + g[s \ {Pick(s)}]]
               = [s \in SUBSET S |-> IF s = {} THEN 0 ELSE LatF[Pick(s)] + g[s \ {Pick(s)}]]
    BY <2>1
  <2> QED
    BY <2>2, Zenon DEF LatTable, SumTable
<1> QED
  BY <1>1, <1>2, Zenon DEF Span, SumOver

LEMMA SpanOne ==
  ASSUME progTrace \in Seq(InstInfo), NEW S, S \subseteq Insts
  PROVE  /\ Span(S) \in Int
         /\ Span({}) = 0
         /\ \A x \in S : Span(S) = latency(x) + Span(S \ {x})
<1>1. num_of_insts \in Nat /\ \A n \in Insts : latency(n) \in Nat
  <2>1. Len(progTrace) \in Nat /\ \A k \in 1 .. Len(progTrace) : progTrace[k] \in InstInfo
    OBVIOUS
  <2>2. \A n \in Insts : n + 1 \in 1 .. Len(progTrace)
    BY <2>1 DEF Insts, num_of_insts
  <2>3. \A n \in Insts : latency(n) \in Latencies
    BY <2>1, <2>2 DEF InstInfo, latency
  <2> QED
    BY <2>1, <2>3, LatencyAssumption DEF num_of_insts
<1>2. IsFiniteSet(S)
  <2>1. 0 \in Int /\ num_of_insts - 1 \in Int
    BY <1>1
  <2>2. IsFiniteSet(Insts)
    BY <2>1, FS_Interval, Zenon DEF Insts
  <2> QED
    BY <2>2, FS_Subset, Zenon
<1>3. \A x \in S : LatF[x] = latency(x) /\ LatF[x] \in Int
  BY <1>1 DEF LatF, Insts
<1>4. /\ SumOver(LatF, S) \in Int
      /\ SumOver(LatF, {}) = 0
      /\ \A x \in S : SumOver(LatF, S) = LatF[x] + SumOver(LatF, S \ {x})
  <2>1. Terms(LatF, S)
    BY <1>3 DEF Terms
  <2> QED
    BY <1>2, <2>1, SumOverOne, Zenon
<1> QED
  BY <1>3, <1>4 DEF Span

(* The least element of a set of numbers. *)
LEMMA MinIs ==
  /\ \A T : T \subseteq Nat /\ T # {} => Min(T) \in T /\ \A y \in T : Min(T) <= y
  /\ \A T : T \subseteq Nat => \A x \in T : (\A y \in T : x <= y) => Min(T) = x
<1>1. ASSUME NEW T, T \subseteq Nat, T # {} PROVE Min(T) \in T /\ \A y \in T : Min(T) <= y
  BY <1>1, LeastNumber DEF Min
<1>2. ASSUME NEW T, T \subseteq Nat, NEW x \in T, \A y \in T : x <= y PROVE Min(T) = x
  <2>1. Min(T) \in T /\ Min(T) <= x
    BY <1>1, <1>2
  <2>2. x <= Min(T) /\ Min(T) \in Nat
    BY <1>2, <2>1
  <2> QED
    BY <1>2, <2>1, <2>2
<1> QED
  BY <1>1, <1>2

(* The instruction of a chain after j. *)
After(T, j) == Min({k \in T : k > j})

LEMMA AfterIs ==
  \A T : T \subseteq Nat => \A j \in Nat :
    \A x \in T : j < x /\ (\A y \in T : j < y => x <= y) => After(T, j) = x
<1> SUFFICES ASSUME NEW T, T \subseteq Nat, NEW j \in Nat, NEW x \in T,
                    j < x, \A y \in T : j < y => x <= y
             PROVE  After(T, j) = x
  OBVIOUS
<1> DEFINE A == {k \in T : k > j}
<1>1. A \subseteq Nat /\ x \in A /\ \A y \in A : x <= y
  OBVIOUS
<1> HIDE DEF A
<1>2. Min(A) = x
  BY <1>1, MinIs
<1> QED
  BY <1>2 DEF A, After

LEMMA AfterIn ==
  \A T : T \subseteq Nat => \A j \in Nat :
    \A m \in T : j < m => /\ After(T, j) \in T /\ j < After(T, j)
                          /\ \A y \in T : j < y => After(T, j) <= y
<1> SUFFICES ASSUME NEW T, T \subseteq Nat, NEW j \in Nat, NEW m \in T, j < m
             PROVE  /\ After(T, j) \in T /\ j < After(T, j)
                    /\ \A y \in T : j < y => After(T, j) <= y
  OBVIOUS
<1> DEFINE A == {k \in T : k > j}
<1>1. A \subseteq Nat /\ m \in A
  OBVIOUS
<1>2. Min(A) \in A /\ \A y \in A : Min(A) <= y
  <2> HIDE DEF A
  <2> QED
    BY <1>1, MinIs
<1> QED
  BY <1>1, <1>2 DEF After

(* One more instruction after those of T does not change which is next. *)
Below(T, n) == T \subseteq Nat /\ \A t \in T : t < n

LEMMA SameNext ==
  ASSUME NEW n \in Nat, NEW T, Below(T, n)
  PROVE  \A m, j \in T : j < m => After(T \cup {n}, j) = After(T, j)
<1> SUFFICES ASSUME NEW m \in T, NEW j \in T, j < m
             PROVE  After(T \cup {n}, j) = After(T, j)
  OBVIOUS
<1> DEFINE x == After(T, j)
<1>1. /\ x \in T /\ j < x
      /\ \A y \in T : j < y => x <= y
  BY AfterIn DEF Below
<1> HIDE DEF x
<1>2. T \cup {n} \subseteq Nat /\ j \in Nat /\ x \in T \cup {n} /\ x <= n
  BY <1>1 DEF Below
<1>3. \A y \in T \cup {n} : j < y => x <= y
  BY <1>1, <1>2
<1>4. After(T \cup {n}, j) = x
  BY <1>1, <1>2, <1>3, AfterIs
<1> QED
  BY <1>4 DEF x

LEMMA NextLast ==
  ASSUME NEW n \in Nat, NEW T, Below(T, n)
  PROVE  \A m \in T : (\A t \in T : t <= m) => After(T \cup {n}, m) = n
<1> SUFFICES ASSUME NEW m \in T, \A t \in T : t <= m
             PROVE  After(T \cup {n}, m) = n
  OBVIOUS
<1>1. T \cup {n} \subseteq Nat /\ m \in Nat /\ n \in T \cup {n} /\ m < n
  BY DEF Below
<1>2. \A y \in T : y \in Nat /\ y <= m
  BY DEF Below
<1>3. \A y \in T \cup {n} : m < y => n <= y
  BY <1>1, <1>2
<1> QED
  BY <1>1, <1>3, AfterIs

(* Chains in terms of After. *)
LEMMA ChainIs ==
  \A n \in Nat : \A S :
    S \in Chains(n) <=>
      /\ S \subseteq 0 .. n /\ n \in S
      /\ \A m \in S \ {n} : m < n /\ DependsOn(After(S, m), m)
  BY DEF Chains, IsChain, After

LEMMA ChainGrow ==
  ASSUME NEW n \in Nat, NEW m \in 0 .. n - 1, DependsOn(n, m), NEW T \in Chains(m)
  PROVE  T \cup {n} \in Chains(n) /\ n \notin T
<1>0. m \in Nat
  OBVIOUS
<1>1. T \subseteq 0 .. m /\ m \in T
      /\ \A j \in T \ {m} : j < m /\ DependsOn(After(T, j), j)
  BY <1>0, ChainIs
<1>2. Below(T, n) /\ \A t \in T : t <= m
  BY <1>1 DEF Below
<1>3. ASSUME NEW j \in T PROVE j < n /\ DependsOn(After(T \cup {n}, j), j)
  <2>1. CASE j = m
    <3>1. After(T \cup {n}, j) = n
      BY <1>1, <1>2, <2>1, NextLast, Zenon
    <3> QED
      BY <2>1, <3>1
  <2>2. CASE j # m
    <3>1. j < m /\ DependsOn(After(T, j), j)
      BY <1>1, <2>2
    <3>2. After(T \cup {n}, j) = After(T, j)
      BY <1>1, <1>2, <3>1, SameNext, Zenon
    <3>3. j < n
      BY <1>2 DEF Below
    <3> QED
      BY <3>1, <3>2, <3>3
  <2> QED
    BY <2>1, <2>2
<1>4. n \notin T /\ (T \cup {n}) \ {n} = T /\ T \cup {n} \subseteq 0 .. n /\ n \in T \cup {n}
  BY <1>2 DEF Below
<1>5. \A j \in (T \cup {n}) \ {n} : j < n /\ DependsOn(After(T \cup {n}, j), j)
  BY <1>3, <1>4
<1>6. T \cup {n} \in Chains(n)
  BY <1>4, <1>5, ChainIs
<1> QED
  BY <1>4, <1>6

LEMMA ChainCut ==
  ASSUME NEW n \in Nat, NEW S \in Chains(n), S # {n}
  PROVE  \E m \in 0 .. n - 1 : DependsOn(n, m) /\ S \ {n} \in Chains(m)
<1> DEFINE T == S \ {n}
           U == {n - t : t \in T}
<1>1. /\ S \subseteq 0 .. n /\ n \in S
      /\ \A j \in T : j < n /\ DependsOn(After(S, j), j)
  BY ChainIs
<1>2. T \subseteq 0 .. n - 1 /\ T # {} /\ S = T \cup {n}
  BY <1>1
<1>3. PICK m \in T : \A t \in T : t <= m
  <2>1. U \subseteq Nat /\ U # {}
    BY <1>2
  <2>2. PICK u \in U : \A y \in U : u <= y
    <3> HIDE DEF U
    <3> QED
      BY <2>1, LeastNumber
  <2>3. PICK m \in T : u = n - m
    BY <2>2
  <2>4. \A t \in T : n - m <= n - t
    BY <2>2, <2>3
  <2> QED
    BY <1>2, <2>4
<1> HIDE DEF T, U
<1>4. Below(T, n)
  BY <1>2 DEF Below
<1>5. DependsOn(n, m)
  <2>1. After(S, m) = n
    BY <1>2, <1>3, <1>4, NextLast, Zenon
  <2> QED
    BY <1>1, <2>1
<1>6. ASSUME NEW j \in T \ {m} PROVE j < m /\ DependsOn(After(T, j), j)
  <2>1. j < m
    BY <1>2, <1>3
  <2>2. After(S, j) = After(T, j)
    BY <1>2, <1>4, <2>1, SameNext, Zenon
  <2> QED
    BY <1>1, <2>1, <2>2
<1>7. T \subseteq 0 .. m /\ m \in 0 .. n - 1 /\ m \in Nat
  BY <1>2, <1>3
<1>8. T \in Chains(m)
  BY <1>6, <1>7, ChainIs
<1> QED
  BY <1>5, <1>7, <1>8 DEF T

(* A number that is the length of a chain into n, and of none longer.      *)
Longest(n, v) ==
  /\ v \in Nat
  /\ \E S \in Chains(n) : Span(S) = v
  /\ \A S \in Chains(n) : Span(S) <= v

LEMMA LongestIs ==
  ASSUME NEW n \in Nat, NEW v, Longest(n, v),
         \A S \in Chains(n) : Span(S) \in Int
  PROVE  LongestTo(n) = v
<1> DEFINE L == {MapThenSumSet(latency, S) : S \in Chains(n)}
           M == {Span(S) : S \in Chains(n)}
<1>1. \A S \in Chains(n) : S \subseteq Nat
  BY ChainIs
<1>2. \A S \in Chains(n) : MapThenSumSet(latency, S) = Span(S)
  BY <1>1, SpanIsSum, Zenon
<1>3. L = M
  BY <1>2, Zenon
<1>4. v \in M /\ \A y \in M : y \in Int /\ v >= y
  BY DEF Longest
<1> HIDE DEF L, M
<1>5. Max(M) = v
  BY <1>4 DEF Max
<1>6. LongestTo(n) = Max(L)
  BY Zenon DEF LongestTo, L
<1> QED
  BY <1>3, <1>5, <1>6

LEMMA MaxOfTwo ==
  \A a, b \in Int : Max({a, b}) = IF a >= b THEN a ELSE b
<1> SUFFICES ASSUME NEW a \in Int, NEW b \in Int
             PROVE  Max({a, b}) = IF a >= b THEN a ELSE b
  OBVIOUS
<1> DEFINE m == IF a >= b THEN a ELSE b
<1>1. m \in {a, b} /\ \A y \in {a, b} : m >= y /\ y \in Int
  OBVIOUS
<1> QED
  BY <1>1 DEF Max

LEMMA LastWriterType ==
  \A n \in Nat : \A r : LastWriter(n, r) \in NONE .. n - 1
<1> DEFINE S == {n \in Nat : \A r : LastWriter(n, r) \in NONE .. n - 1}
<1>1. 0 \in S
  BY NobodyBefore DEF NONE
<1>2. ASSUME NEW n \in Nat, n \in S PROVE n + 1 \in S
  <2>1. \A r : LastWriter(n + 1, r) = n \/ LastWriter(n + 1, r) = LastWriter(n, r)
    BY OneFurther
  <2>2. \A r : LastWriter(n, r) \in NONE .. n - 1
    BY <1>2
  <2> QED
    BY <2>1, <2>2 DEF NONE
<1>3. Nat \subseteq S
  <2> HIDE DEF S
  <2> QED
    BY <1>1, <1>2, Induction
<1> QED
  BY <1>3

(* The two instructions that n waits for, and how long. *)
First(n)  == LastWriter(n, progTrace[n + 1].src1)
Second(n) == LastWriter(n, progTrace[n + 1].src2)
Reach(d)  == IF d = NONE THEN 0 ELSE LongestTo(d)
Waits(n)  == Max({Reach(First(n)), Reach(Second(n))})

LEMMA TraceFacts ==
  ASSUME progTrace \in Seq(InstInfo)
  PROVE  /\ num_of_insts \in Nat
         /\ \A n \in Insts : n \in Nat /\ n < num_of_insts /\ latency(n) \in Nat
         /\ \A n \in Insts : 0 .. n \subseteq Insts
         /\ \A n \in Insts : First(n) \in NONE .. n - 1 /\ Second(n) \in NONE .. n - 1
<1>1. Len(progTrace) \in Nat /\ \A k \in 1 .. Len(progTrace) : progTrace[k] \in InstInfo
  OBVIOUS
<1>2. \A n \in Insts : n + 1 \in 1 .. Len(progTrace) /\ n \in Nat /\ n < num_of_insts
  BY <1>1 DEF Insts, num_of_insts
<1>3. \A n \in Insts : latency(n) \in Latencies
  BY <1>1, <1>2 DEF InstInfo, latency
<1>4. \A n \in Insts : 0 .. n \subseteq Insts
  BY <1>1 DEF Insts, num_of_insts
<1>5. \A n \in Insts : First(n) \in NONE .. n - 1 /\ Second(n) \in NONE .. n - 1
  BY <1>2, LastWriterType, Zenon DEF First, Second
<1> QED
  BY <1>1, <1>2, <1>3, <1>4, <1>5, LatencyAssumption DEF num_of_insts

LEMMA ChainSpans ==
  ASSUME progTrace \in Seq(InstInfo), NEW n \in Insts
  PROVE  \A S \in Chains(n) : Span(S) \in Int
                              /\ Span(S) = latency(n) + Span(S \ {n})
<1> TAKE S \in Chains(n)
<1>1. n \in Nat /\ 0 .. n \subseteq Insts
  BY TraceFacts
<1>2. S \subseteq 0 .. n /\ n \in S
  BY <1>1, ChainIs
<1>3. S \subseteq Insts
  BY <1>1, <1>2
<1> QED
  BY <1>2, <1>3, SpanOne, Zenon

(* The longest chain into n adds n to the longest one into an instruction  *)
(* it depends on.                                                          *)
LEMMA LongestStep ==
  ASSUME progTrace \in Seq(InstInfo), NEW n \in Insts,
         \A m \in 0 .. n - 1 : \E v : Longest(m, v)
  PROVE  Longest(n, latency(n) + Waits(n))
<1>1. /\ n \in Nat /\ latency(n) \in Nat /\ 0 .. n \subseteq Insts
      /\ First(n) \in NONE .. n - 1 /\ Second(n) \in NONE .. n - 1
  BY TraceFacts
<1>2. \A m \in 0 .. n - 1 : m \in Insts /\ m \in Nat
  BY <1>1
<1>3. \A m \in 0 .. n - 1 : Longest(m, LongestTo(m))
  BY <1>2, ChainSpans, LongestIs
<1>4. \A m \in 0 .. n - 1 : DependsOn(n, m) <=> m = First(n) \/ m = Second(n)
  BY DEF DependsOn, First, Second
<1>5. Reach(First(n)) \in Nat /\ Reach(Second(n)) \in Nat
  BY <1>1, <1>3 DEF Reach, Longest, NONE
<1>6. /\ Waits(n) \in Nat
      /\ Waits(n) >= Reach(First(n)) /\ Waits(n) >= Reach(Second(n))
      /\ Waits(n) = Reach(First(n)) \/ Waits(n) = Reach(Second(n))
  BY <1>5, MaxOfTwo DEF Waits
<1>7. ASSUME NEW S \in Chains(n) PROVE Span(S) <= latency(n) + Waits(n)
  <2>1. Span(S) = latency(n) + Span(S \ {n}) /\ Span(S) \in Int
    BY ChainSpans
  <2>2. CASE S = {n}
    <3>1. S \ {n} = {}
      BY <2>2
    <3>2. Span({}) = 0
      BY SpanOne, {} \subseteq Insts
    <3>3. Span(S) = latency(n) + 0
      BY <2>1, <3>1, <3>2, Zenon
    <3> QED
      BY <1>1, <1>6, <3>3
  <2>3. CASE S # {n}
    <3>1. PICK m \in 0 .. n - 1 : DependsOn(n, m) /\ S \ {n} \in Chains(m)
      BY <1>1, <2>3, ChainCut
    <3>2. Span(S \ {n}) <= LongestTo(m) /\ LongestTo(m) \in Nat /\ Span(S \ {n}) \in Int
      BY <1>2, <1>3, <3>1, ChainSpans DEF Longest
    <3>3. LongestTo(m) <= Waits(n)
      BY <1>2, <1>4, <1>6, <3>1 DEF Reach, NONE
    <3> QED
      BY <1>1, <1>6, <2>1, <3>2, <3>3
  <2> QED
    BY <2>2, <2>3
<1>8. \E S \in Chains(n) : Span(S) = latency(n) + Waits(n)
  <2>1. CASE Waits(n) = 0
    <3>1. {n} \in Chains(n)
      BY <1>1, ChainIs
    <3>2. {n} \ {n} = {} /\ Span({}) = 0
      BY SpanOne, {} \subseteq Insts
    <3> QED
      BY <1>1, <2>1, <3>1, <3>2, ChainSpans
  <2>2. CASE Waits(n) # 0
    <3>1. PICK m \in 0 .. n - 1 : DependsOn(n, m) /\ Waits(n) = LongestTo(m)
      BY <1>1, <1>4, <1>6, <2>2 DEF Reach, NONE
    <3>2. PICK T \in Chains(m) : Span(T) = LongestTo(m)
      BY <1>3 DEF Longest
    <3>3. T \cup {n} \in Chains(n) /\ n \notin T
      BY <1>1, <3>1, ChainGrow
    <3>4. (T \cup {n}) \ {n} = T
      BY <3>3
    <3>5. Span(T \cup {n}) = latency(n) + Span(T)
      BY <3>3, <3>4, ChainSpans
    <3> QED
      BY <3>1, <3>2, <3>3, <3>5
  <2> QED
    BY <2>1, <2>2
<1>9. latency(n) + Waits(n) \in Nat
  BY <1>1, <1>6
<1> QED
  BY <1>7, <1>8, <1>9 DEF Longest

(* So the length of the longest chain obeys the equation by which the code *)
(* computes it.                                                            *)
LEMMA LongestUnfold ==
  ASSUME progTrace \in Seq(InstInfo)
  PROVE  \A n \in Insts : /\ LongestTo(n) \in Nat
                          /\ LongestTo(n) = latency(n) + Waits(n)
                          /\ Reach(First(n)) \in Nat /\ Reach(Second(n)) \in Nat
<1>1. num_of_insts \in Nat /\ Insts = 0 .. num_of_insts - 1
  BY TraceFacts DEF Insts
<1> DEFINE S == {m \in Insts : \E v : Longest(m, v)}
<1>2. ASSUME NEW m \in Insts, \A j \in 0 .. m - 1 : j \in S PROVE m \in S
  BY <1>2, LongestStep
<1>3. 0 .. num_of_insts - 1 \subseteq S
  <2> HIDE DEF S
  <2> QED
    BY <1>1, <1>2, Upward
<1>4. \A m \in Insts : \E v : Longest(m, v)
  BY <1>1, <1>3
<1>5. \A m \in Insts : Longest(m, LongestTo(m))
  BY <1>4, TraceFacts, ChainSpans, LongestIs
<1> HIDE DEF S
<1> TAKE n \in Insts
<1>6. n \in Nat /\ 0 .. n \subseteq Insts /\ First(n) \in NONE .. n - 1 /\ Second(n) \in NONE .. n - 1
  BY TraceFacts
<1>7. Longest(n, latency(n) + Waits(n))
  <2>1. \A m \in 0 .. n - 1 : \E v : Longest(m, v)
    BY <1>4, <1>6
  <2> QED
    BY <2>1, LongestStep
<1>8. LongestTo(n) = latency(n) + Waits(n)
  BY <1>6, <1>7, ChainSpans, LongestIs
<1>9. LongestTo(n) \in Nat
  BY <1>5 DEF Longest
<1>10. \A d \in NONE .. n - 1 : Reach(d) \in Nat
  <2> TAKE d \in NONE .. n - 1
  <2>1. d # NONE => d \in Insts
    BY <1>6 DEF NONE
  <2> QED
    BY <1>5, <2>1 DEF Reach, Longest
<1> QED
  BY <1>6, <1>8, <1>9, <1>10

(* The dependencies of a node come before it. *)
Backward == \A n \in Insts : dep1[n] \in NONE .. n - 1 /\ dep2[n] \in NONE .. n - 1

(* What one call of getDepthRecursive returns. *)
OneCall(n, a, b) ==
  IF n = NONE THEN 0
  ELSE IF depth[n] # NONE THEN depth[n]
  ELSE Int32(latency(n) + Max({a, b}))

(* The recursion ends, so each of its results unfolds. *)
LEMMA DepthUnfold ==
  ASSUME num_of_insts \in Nat, Backward
  PROVE  \A n \in NONE .. num_of_insts - 1 :
           getDepthRecursive[n] =
             OneCall(n, getDepthRecursive[dep1[n]], getDepthRecursive[dep2[n]])
<1> DEFINE S == {k \in Nat : \E f : f = [n \in NONE .. k - 1 |-> OneCall(n, f[dep1[n]], f[dep2[n]])]}
<1>1. 0 \in S
  <2> DEFINE f == [n \in NONE .. 0 - 1 |-> 0]
  <2>1. \A n \in NONE .. 0 - 1 : n = NONE
    BY DEF NONE
  <2>2. \A n \in NONE .. 0 - 1 : OneCall(n, f[dep1[n]], f[dep2[n]]) = 0
    BY <2>1 DEF OneCall
  <2>3. f = [n \in NONE .. 0 - 1 |-> OneCall(n, f[dep1[n]], f[dep2[n]])]
    BY <2>2, Zenon
  <2> HIDE DEF f
  <2>4. \E g : g = [n \in NONE .. 0 - 1 |-> OneCall(n, g[dep1[n]], g[dep2[n]])]
    BY <2>3, Zenon
  <2> QED
    BY <2>4, Zenon, 0 \in Nat
<1>2. ASSUME NEW k \in 0 .. num_of_insts - 1, k \in S PROVE k + 1 \in S
  <2>1. PICK f : f = [n \in NONE .. k - 1 |-> OneCall(n, f[dep1[n]], f[dep2[n]])]
    BY <1>2
  <2> DEFINE K == NONE .. (k + 1) - 1
             h == [n \in K |-> OneCall(n, f[dep1[n]], f[dep2[n]])]
  <2>2. \A n \in NONE .. k - 1 : n \in K /\ f[n] = OneCall(n, f[dep1[n]], f[dep2[n]])
    BY <2>1 DEF NONE
  <2>3. \A n \in NONE .. k - 1 : h[n] = f[n]
    BY <2>2
  <2>4. \A n \in K : n # NONE => dep1[n] \in NONE .. k - 1 /\ dep2[n] \in NONE .. k - 1
    <3> TAKE n \in K
    <3>1. n # NONE => n \in Insts /\ n <= k
      BY DEF Insts, NONE
    <3> QED
      BY <3>1 DEF Backward, NONE, Insts
  <2>5. \A n \in K : OneCall(n, f[dep1[n]], f[dep2[n]]) = OneCall(n, h[dep1[n]], h[dep2[n]])
    <3> TAKE n \in K
    <3>1. CASE n = NONE
      BY <3>1 DEF OneCall
    <3>2. CASE n # NONE
      <4>1. f[dep1[n]] = h[dep1[n]] /\ f[dep2[n]] = h[dep2[n]]
        <5> HIDE DEF h
        <5> QED
          BY <2>3, <2>4, <3>2
      <4> QED
        BY <4>1, Zenon
    <3> QED
      BY <3>1, <3>2
  <2>6. h = [n \in K |-> OneCall(n, h[dep1[n]], h[dep2[n]])]
    BY <2>5, Zenon
  <2> HIDE DEF h
  <2>7. \E g : g = [n \in K |-> OneCall(n, g[dep1[n]], g[dep2[n]])]
    BY <2>6, Zenon
  <2>8. k + 1 \in Nat
    OBVIOUS
  <2> QED
    BY <2>7, <2>8, Zenon
<1>3. 0 .. num_of_insts \subseteq S
  <2> HIDE DEF S
  <2> QED
    BY <1>1, <1>2, InductionTo
<1>4. num_of_insts \in S
  <2> HIDE DEF S
  <2> QED
    BY <1>3
<1>5. \E f : f = [n \in NONE .. num_of_insts - 1 |-> OneCall(n, f[dep1[n]], f[dep2[n]])]
  BY <1>4, Zenon
<1> HIDE DEF S
<1> DEFINE D == CHOOSE f : f = [n \in NONE .. num_of_insts - 1 |-> OneCall(n, f[dep1[n]], f[dep2[n]])]
<1>6. getDepthRecursive = D
  BY Zenon DEF getDepthRecursive, OneCall
<1>7. D = [n \in NONE .. num_of_insts - 1 |-> OneCall(n, D[dep1[n]], D[dep2[n]])]
  BY <1>5, Zenon
<1> HIDE DEF D
<1>8. \A n \in NONE .. num_of_insts - 1 : D[n] = OneCall(n, D[dep1[n]], D[dep2[n]])
  BY <1>7
<1> QED
  BY <1>6, <1>8, Zenon

(* The nodes one call gives a depth to. *)
OneVisit(n, a, b) ==
  IF n = NONE \/ (n # NONE /\ depth[n] # NONE) THEN {} ELSE {n} \cup a \cup b

LEMMA VisitsUnfold ==
  ASSUME num_of_insts \in Nat, Backward
  PROVE  \A n \in NONE .. num_of_insts - 1 :
           Visits[n] = OneVisit(n, Visits[dep1[n]], Visits[dep2[n]])
<1> DEFINE S == {k \in Nat : \E f : f = [n \in NONE .. k - 1 |-> OneVisit(n, f[dep1[n]], f[dep2[n]])]}
<1>1. 0 \in S
  <2> DEFINE f == [n \in NONE .. 0 - 1 |-> {}]
  <2>1. \A n \in NONE .. 0 - 1 : n = NONE
    BY DEF NONE
  <2>2. \A n \in NONE .. 0 - 1 : OneVisit(n, f[dep1[n]], f[dep2[n]]) = {}
    BY <2>1 DEF OneVisit
  <2>3. f = [n \in NONE .. 0 - 1 |-> OneVisit(n, f[dep1[n]], f[dep2[n]])]
    BY <2>2, Zenon
  <2> HIDE DEF f
  <2>4. \E g : g = [n \in NONE .. 0 - 1 |-> OneVisit(n, g[dep1[n]], g[dep2[n]])]
    BY <2>3, Zenon
  <2> QED
    BY <2>4, Zenon, 0 \in Nat
<1>2. ASSUME NEW k \in 0 .. num_of_insts - 1, k \in S PROVE k + 1 \in S
  <2>1. PICK f : f = [n \in NONE .. k - 1 |-> OneVisit(n, f[dep1[n]], f[dep2[n]])]
    BY <1>2
  <2> DEFINE K == NONE .. (k + 1) - 1
             h == [n \in K |-> OneVisit(n, f[dep1[n]], f[dep2[n]])]
  <2>2. \A n \in NONE .. k - 1 : n \in K /\ f[n] = OneVisit(n, f[dep1[n]], f[dep2[n]])
    BY <2>1 DEF NONE
  <2>3. \A n \in NONE .. k - 1 : h[n] = f[n]
    BY <2>2
  <2>4. \A n \in K : n # NONE => dep1[n] \in NONE .. k - 1 /\ dep2[n] \in NONE .. k - 1
    <3> TAKE n \in K
    <3>1. n # NONE => n \in Insts /\ n <= k
      BY DEF Insts, NONE
    <3> QED
      BY <3>1 DEF Backward, NONE, Insts
  <2>5. \A n \in K : OneVisit(n, f[dep1[n]], f[dep2[n]]) = OneVisit(n, h[dep1[n]], h[dep2[n]])
    <3> TAKE n \in K
    <3>1. CASE n = NONE
      BY <3>1 DEF OneVisit
    <3>2. CASE n # NONE
      <4>1. f[dep1[n]] = h[dep1[n]] /\ f[dep2[n]] = h[dep2[n]]
        <5> HIDE DEF h
        <5> QED
          BY <2>3, <2>4, <3>2
      <4> QED
        BY <4>1, Zenon
    <3> QED
      BY <3>1, <3>2
  <2>6. h = [n \in K |-> OneVisit(n, h[dep1[n]], h[dep2[n]])]
    BY <2>5, Zenon
  <2> HIDE DEF h
  <2>7. \E g : g = [n \in K |-> OneVisit(n, g[dep1[n]], g[dep2[n]])]
    BY <2>6, Zenon
  <2>8. k + 1 \in Nat
    OBVIOUS
  <2> QED
    BY <2>7, <2>8, Zenon
<1>3. 0 .. num_of_insts \subseteq S
  <2> HIDE DEF S
  <2> QED
    BY <1>1, <1>2, InductionTo
<1>4. num_of_insts \in S
  <2> HIDE DEF S
  <2> QED
    BY <1>3
<1>5. \E f : f = [n \in NONE .. num_of_insts - 1 |-> OneVisit(n, f[dep1[n]], f[dep2[n]])]
  BY <1>4, Zenon
<1> HIDE DEF S
<1> DEFINE D == CHOOSE f : f = [n \in NONE .. num_of_insts - 1 |-> OneVisit(n, f[dep1[n]], f[dep2[n]])]
<1>6. Visits = D
  BY Zenon DEF Visits, OneVisit
<1>7. D = [n \in NONE .. num_of_insts - 1 |-> OneVisit(n, D[dep1[n]], D[dep2[n]])]
  BY <1>5, Zenon
<1> HIDE DEF D
<1>8. \A n \in NONE .. num_of_insts - 1 : D[n] = OneVisit(n, D[dep1[n]], D[dep2[n]])
  BY <1>7
<1> QED
  BY <1>6, <1>8, Zenon

(* An int is within its range, and one that is does not change.            *)
LEMMA Int32Type == \A v \in Int : Int32(v) \in -IntMax - 1 .. IntMax
<1>1. \A m \in Nat \ {0} : \A v \in Int : v % m \in 0 .. m - 1
  OBVIOUS
<1>2. 2 * IntMax + 2 \in Nat \ {0} /\ IntMax \in Nat
  BY BoundsAssumption
<1> TAKE v \in Int
<1>3. v + IntMax + 1 \in Int
  BY <1>2
<1>4. (v + IntMax + 1) % (2 * IntMax + 2) \in 0 .. (2 * IntMax + 2) - 1
  BY <1>1, <1>2, <1>3, Zenon
<1> QED
  BY <1>2, <1>4 DEF Int32

LEMMA Int32Same == \A v \in -IntMax - 1 .. IntMax : Int32(v) = v
<1>1. \A m \in Nat \ {0} : \A w \in 0 .. m - 1 : w % m = w
  OBVIOUS
<1>2. 2 * IntMax + 2 \in Nat \ {0} /\ IntMax \in Nat
  BY BoundsAssumption
<1> TAKE v \in -IntMax - 1 .. IntMax
<1>3. v + IntMax + 1 \in 0 .. (2 * IntMax + 2) - 1
  BY <1>2
<1>4. (v + IntMax + 1) % (2 * IntMax + 2) = v + IntMax + 1
  BY <1>1, <1>2, <1>3, Zenon
<1> QED
  BY <1>2, <1>4 DEF Int32

LEMMA LinkedBackward ==
  ASSUME LinkInv, phase \in {"depth", "ready"}
  PROVE  /\ Backward
         /\ \A n \in Insts : dep1[n] = First(n) /\ dep2[n] = Second(n)
<1>1. progTrace \in Seq(InstInfo)
  BY DEF LinkInv, Shape
<1>2. \A n \in Insts : dep1[n] = First(n) /\ dep2[n] = Second(n)
  BY DEF LinkInv, LinkedExact, First, Second
<1> QED
  BY <1>1, <1>2, TraceFacts DEF Backward

Ints == -IntMax - 1 .. IntMax

(* Whatever is in the table, a call returns an int. *)
LEMMA DepthType ==
  ASSUME progTrace \in Seq(InstInfo), Backward, \A n \in Insts : depth[n] \in Ints
  PROVE  \A n \in NONE .. num_of_insts - 1 : getDepthRecursive[n] \in Ints
<1>1. num_of_insts \in Nat /\ Insts = 0 .. num_of_insts - 1
  BY TraceFacts DEF Insts
<1> DEFINE G == getDepthRecursive
           S == {n \in Insts : G[n] \in Ints}
<1>2. \A n \in NONE .. num_of_insts - 1 : G[n] = OneCall(n, G[dep1[n]], G[dep2[n]])
  BY <1>1, DepthUnfold
<1> HIDE DEF G
<1>3. NONE \in NONE .. num_of_insts - 1
  BY <1>1 DEF NONE
<1>4. G[NONE] = 0
  BY <1>2, <1>3 DEF OneCall
<1>5. ASSUME NEW n \in Insts, \A m \in 0 .. n - 1 : m \in S PROVE n \in S
  <2>1. \A d \in NONE .. n - 1 : G[d] \in Ints
    <3>1. 0 \in Ints
      BY BoundsAssumption DEF Ints
    <3> QED
      BY <1>4, <1>5, <3>1 DEF NONE
  <2>2. G[dep1[n]] \in Int /\ G[dep2[n]] \in Int
    <3>1. dep1[n] \in NONE .. n - 1 /\ dep2[n] \in NONE .. n - 1
      BY DEF Backward
    <3>2. \A x \in Ints : x \in Int
      BY BoundsAssumption DEF Ints
    <3> QED
      BY <2>1, <3>1, <3>2
  <2>3. Max({G[dep1[n]], G[dep2[n]]}) \in Int
    BY <2>2, MaxOfTwo
  <2>4. latency(n) + Max({G[dep1[n]], G[dep2[n]]}) \in Int
    BY <2>3, TraceFacts
  <2>5. Int32(latency(n) + Max({G[dep1[n]], G[dep2[n]]})) \in Ints
    BY <2>4, Int32Type DEF Ints
  <2>6. n # NONE /\ n \in NONE .. num_of_insts - 1
    BY <1>1 DEF NONE
  <2>7. OneCall(n, G[dep1[n]], G[dep2[n]]) \in Ints
    BY <2>5, <2>6 DEF OneCall
  <2> QED
    BY <1>2, <2>6, <2>7
<1>6. 0 .. num_of_insts - 1 \subseteq S
  <2> HIDE DEF S
  <2> QED
    BY <1>1, <1>5, Upward
<1>7. 0 \in Ints
  BY BoundsAssumption DEF Ints
<1>8. \A n \in NONE .. num_of_insts - 1 : n = NONE \/ n \in Insts
  BY <1>1 DEF NONE
<1> QED
  BY <1>1, <1>4, <1>6, <1>7, <1>8 DEF G

LEMMA TypeInit == Init => TypeOK
<1> SUFFICES ASSUME Init PROVE TypeOK
  OBVIOUS
<1>1. /\ progTrace = << >> /\ phase = "none" /\ i = 0 /\ regs = [r \in Regs |-> NONE]
      /\ depth = << >> /\ exit_nodes = {} /\ max_depth = NONE
  BY DEF Init
<1>2. num_of_insts = 0 /\ Insts = {}
  BY <1>1 DEF num_of_insts, Insts
<1>3. depth \in [{} -> -IntMax - 1 .. IntMax]
  BY <1>1
<1>4. NONE \in -IntMax - 1 .. IntMax /\ NONE \in NONE .. 0 - 1
  BY BoundsAssumption DEF NONE
<1> QED
  BY <1>1, <1>2, <1>3, <1>4 DEF TypeOK

LEMMA TypeConstruct ==
  ASSUME LinkInv, TypeOK, NEW trace \in Seq(InstInfo), Construct(trace)
  PROVE  TypeOK'
<1>1. /\ phase' = "link" /\ progTrace' = trace /\ i' = 0
      /\ regs' = [r \in Regs |-> NONE]
      /\ depth' = [n \in 0 .. Len(trace) - 1 |-> NONE]
      /\ exit_nodes' = 0 .. Len(trace) - 1 /\ max_depth' = max_depth
  BY DEF Construct, LinkInv, Shape
<1>2. num_of_insts' = Len(trace) /\ Insts' = 0 .. Len(trace) - 1 /\ Len(trace) \in Nat
  BY <1>1 DEF num_of_insts, Insts
<1>3. NONE \in -IntMax - 1 .. IntMax /\ NONE \in NONE .. Len(trace) - 1
  BY <1>2, BoundsAssumption DEF NONE
<1>4. depth' \in [Insts' -> -IntMax - 1 .. IntMax] /\ regs' \in [Regs -> NONE .. num_of_insts' - 1]
  BY <1>1, <1>2, <1>3
<1> QED
  BY <1>1, <1>2, <1>4 DEF TypeOK

LEMMA TypeLink == ASSUME LinkInv, TypeOK, Link PROVE TypeOK'
<1>1. /\ phase = "link" /\ phase' = "link" /\ UNCHANGED <<progTrace, depth, max_depth>>
      /\ progTrace \in Seq(InstInfo) /\ i \in 0 .. num_of_insts - 1 /\ i' = i + 1
      /\ num_of_insts \in Nat
  BY DEF LinkInv, Shape, Link, num_of_insts
<1>2. num_of_insts' = num_of_insts /\ Insts' = Insts
  BY <1>1 DEF num_of_insts, Insts
<1>3. regs' = [regs EXCEPT ![progTrace[i + 1].dst] = i] /\ exit_nodes' \subseteq exit_nodes
  BY DEF Link
<1>4. regs' \in [Regs -> NONE .. num_of_insts - 1]
  <2>1. i \in NONE .. num_of_insts - 1
    BY <1>1 DEF NONE
  <2> QED
    BY <1>3, <2>1 DEF TypeOK
<1>5. i' \in 0 .. num_of_insts
  BY <1>1
<1> QED
  BY <1>1, <1>2, <1>3, <1>4, <1>5 DEF TypeOK

LEMMA TypeDepth == ASSUME LinkInv, TypeOK, Depth PROVE TypeOK'
<1>1. /\ phase = "depth" /\ UNCHANGED <<progTrace, phase, regs, exit_nodes>>
      /\ progTrace \in Seq(InstInfo) /\ i \in 0 .. num_of_insts - 1 /\ i' = i + 1
      /\ num_of_insts \in Nat
      /\ depth' = [n \in Insts |-> IF n \in Visits[i] THEN getDepthRecursive[n] ELSE depth[n]]
      /\ max_depth' = Max({max_depth, getDepthRecursive[i]})
  BY DEF LinkInv, Shape, Depth, num_of_insts
<1>2. num_of_insts' = num_of_insts /\ Insts' = Insts
  BY <1>1 DEF num_of_insts, Insts
<1>3. depth \in [Insts -> Ints] /\ max_depth \in Ints
  BY DEF TypeOK, Ints
<1>4. \A n \in NONE .. num_of_insts - 1 : getDepthRecursive[n] \in Ints
  BY <1>1, <1>3, LinkedBackward, DepthType
<1>5. \A n \in Insts : getDepthRecursive[n] \in Ints
  BY <1>1, <1>4 DEF Insts, NONE
<1>6. depth' \in [Insts -> Ints]
  BY <1>1, <1>3, <1>5
<1>7. max_depth' \in Ints
  <2>1. i \in Insts
    BY <1>1 DEF Insts
  <2>2. max_depth \in Int /\ getDepthRecursive[i] \in Int
    BY <1>3, <1>5, <2>1, BoundsAssumption DEF Ints
  <2>3. max_depth' = max_depth \/ max_depth' = getDepthRecursive[i]
    BY <1>1, <2>2, MaxOfTwo
  <2> QED
    BY <1>3, <1>5, <2>1, <2>3
<1>8. i' \in 0 .. num_of_insts
  BY <1>1
<1> QED
  BY <1>1, <1>2, <1>6, <1>7, <1>8 DEF TypeOK, Ints

LEMMA TypeNext == LinkInv /\ TypeOK /\ [Next]_vars => TypeOK'
<1> SUFFICES ASSUME LinkInv, TypeOK, [Next]_vars PROVE TypeOK'
  OBVIOUS
<1>1. ASSUME NEW n \in 1 .. MaxInsts, NEW trace \in [1 .. n -> InstInfo], Construct(trace)
      PROVE  TypeOK'
  <2>1. trace \in Seq(InstInfo)
    OBVIOUS
  <2> QED
    BY <1>1, <2>1, TypeConstruct
<1>2. num_of_insts \in Nat
  BY DEF LinkInv, Shape, num_of_insts
<1>3. CASE Link
  BY <1>3, TypeLink
<1>4. CASE LinkEnds
  BY <1>2, <1>4 DEF LinkEnds, TypeOK, num_of_insts, Insts
<1>5. CASE Depth
  BY <1>5, TypeDepth
<1>6. CASE NotExit
  BY <1>2, <1>6 DEF NotExit, TypeOK, num_of_insts, Insts
<1>7. CASE DepthEnds
  BY <1>7 DEF DepthEnds, TypeOK, num_of_insts, Insts
<1>8. ASSUME NEW theInst, getInstDepth(theInst) \/ getInstDeps(theInst)
      PROVE  TypeOK'
  BY <1>8 DEF getInstDepth, getInstDeps, TypeOK, num_of_insts, Insts
<1>9. CASE UNCHANGED vars
  BY <1>9 DEF vars, TypeOK, num_of_insts, Insts
<1> QED
  BY <1>1, <1>3, <1>4, <1>5, <1>6, <1>7, <1>8, <1>9 DEF Next, Analysis

(* Every value of the analysis stays in its range, whatever the latencies: *)
(* indices of the table of registers and of the loop are those of          *)
(* instructions, and a depth that overflows wraps to another int           *)
(* (dflow_calc.cpp:74-158).                                                *)
THEOREM TypeCorrect == Spec => []TypeOK
<1>1. Init => LinkInv /\ TypeOK
  BY LinkInvInit, TypeInit
<1>2. LinkInv /\ TypeOK /\ [Next]_vars => LinkInv' /\ TypeOK'
  BY LinkInvNext, TypeNext
<1> QED
  BY <1>1, <1>2, PTL DEF Spec

-----------------------------------------------------------------------------
(* Nothing is longer than an int can hold. *)
DepthsFit == \A n \in Insts : LongestTo(n) <= IntMax

(* The nodes the second loop has passed. *)
Done ==
  CASE phase = "depth" -> 0 .. i - 1
    [] phase = "ready" -> Insts
    [] OTHER           -> {}

(* A depth in the table is right, and there is one for whatever it was     *)
(* computed from.                                                          *)
MemoExact == \A n \in Insts : depth[n] = NONE \/ depth[n] = LongestTo(n)

Known(d, table) == d = NONE \/ table[d] # NONE

MemoClosed ==
  \A n \in Insts : depth[n] # NONE => Known(First(n), depth) /\ Known(Second(n), depth)

ExitsDone ==
  \A n \in exit_nodes \cap Done : depth[n] # NONE /\ LongestTo(n) <= max_depth

MaxReached == max_depth = NONE \/ \E n \in Insts : max_depth = LongestTo(n)

Started == phase # "none" => num_of_insts > 0

LengthsUnfold ==
  \A n \in Insts : \A a, b :
    a = First(n) /\ b = Second(n) => LongestTo(n) = latency(n) + Max({Reach(a), Reach(b)})

LEMMA UnfoldTrace == progTrace \in Seq(InstInfo) => LengthsUnfold
  BY LongestUnfold DEF LengthsUnfold, Waits

LEMMA SameTrace ==
  ASSUME progTrace \in Seq(InstInfo), UNCHANGED progTrace
  PROVE  /\ \A n \in Insts : LongestTo(n)' = LongestTo(n)
         /\ \A n : First(n)' = First(n) /\ Second(n)' = Second(n)
<1>1. \A n : First(n)' = First(n) /\ Second(n)' = Second(n)
  BY SameWriters DEF First, Second
<1>2. /\ num_of_insts \in Nat /\ Insts = 0 .. num_of_insts - 1
      /\ Insts' = Insts /\ num_of_insts' = num_of_insts
      /\ \A n \in Insts : latency(n)' = latency(n)
  BY TraceFacts, SameWriters DEF Insts, latency
<1>3. LengthsUnfold
  BY UnfoldTrace
<1>4. LengthsUnfold'
  <2>1. (progTrace \in Seq(InstInfo) => LengthsUnfold)'
    BY UnfoldTrace, PTL
  <2> QED
    BY <2>1
<1> DEFINE S == {n \in Insts : LongestTo(n)' = LongestTo(n)}
<1>5. ASSUME NEW n \in Insts, \A m \in 0 .. n - 1 : m \in S PROVE n \in S
  <2>1. First(n) \in NONE .. n - 1 /\ Second(n) \in NONE .. n - 1
    BY TraceFacts
  <2>2. \A d \in NONE .. n - 1 : Reach(d)' = Reach(d)
    <3>1. \A d \in NONE .. n - 1 : d = NONE \/ d \in 0 .. n - 1
      BY <1>2 DEF NONE
    <3> QED
      BY <1>5, <3>1 DEF Reach
  <2>3. PICK a, b : a = First(n) /\ b = Second(n)
    OBVIOUS
  <2>4. a = First(n)' /\ b = Second(n)' /\ Reach(a)' = Reach(a) /\ Reach(b)' = Reach(b)
    BY <1>1, <2>1, <2>2, <2>3
  <2>5. LongestTo(n) = latency(n) + Max({Reach(a), Reach(b)})
    BY <1>3, <2>3, Zenon DEF LengthsUnfold
  <2>6. LongestTo(n)' = latency(n)' + Max({Reach(a)', Reach(b)'})
    <3>1. n \in Insts'
      BY <1>2
    <3> QED
      BY <1>4, <2>4, <3>1, Zenon DEF LengthsUnfold
  <2>7. LongestTo(n)' = LongestTo(n)
    BY <1>2, <2>4, <2>5, <2>6, Zenon
  <2> QED
    BY <2>7
<1>6. 0 .. num_of_insts - 1 \subseteq S
  <2> HIDE DEF S
  <2> QED
    BY <1>2, <1>5, Upward
<1> QED
  BY <1>1, <1>2, <1>6

(* A call returns the length of the longest chain. *)
LEMMA DepthIsReach ==
  ASSUME LinkInv, phase = "depth", MemoExact, DepthsFit
  PROVE  \A n \in NONE .. num_of_insts - 1 : getDepthRecursive[n] = Reach(n)
<1>1. /\ progTrace \in Seq(InstInfo) /\ num_of_insts \in Nat
      /\ Insts = 0 .. num_of_insts - 1 /\ Backward
      /\ \A n \in Insts : dep1[n] = First(n) /\ dep2[n] = Second(n)
  BY LinkedBackward, TraceFacts DEF LinkInv, Shape, Insts
<1> DEFINE G == getDepthRecursive
           S == {n \in Insts : G[n] = LongestTo(n)}
<1>2. \A n \in NONE .. num_of_insts - 1 : G[n] = OneCall(n, G[dep1[n]], G[dep2[n]])
  BY <1>1, DepthUnfold
<1> HIDE DEF G
<1>3. NONE \in NONE .. num_of_insts - 1
  BY <1>1 DEF NONE
<1>4. G[NONE] = 0
  BY <1>2, <1>3 DEF OneCall
<1>5. ASSUME NEW n \in Insts, \A m \in 0 .. n - 1 : m \in S PROVE n \in S
  <2>1. \A d \in NONE .. n - 1 : G[d] = Reach(d)
    <3>1. \A d \in NONE .. n - 1 : d = NONE \/ d \in 0 .. n - 1
      BY DEF NONE
    <3> QED
      BY <1>4, <1>5, <3>1 DEF Reach
  <2>2. First(n) \in NONE .. n - 1 /\ Second(n) \in NONE .. n - 1
    BY <1>1, TraceFacts
  <2>3. G[dep1[n]] = Reach(First(n)) /\ G[dep2[n]] = Reach(Second(n))
    BY <1>1, <2>1, <2>2
  <2>4. LongestTo(n) = latency(n) + Max({G[dep1[n]], G[dep2[n]]}) /\ LongestTo(n) \in Nat
    BY <1>1, <2>3, LongestUnfold, Zenon DEF Waits
  <2>5. LongestTo(n) \in -IntMax - 1 .. IntMax
    BY <2>4, BoundsAssumption DEF DepthsFit
  <2>6. Int32(LongestTo(n)) = LongestTo(n)
    BY <2>5, Int32Same
  <2>7. n # NONE /\ n \in NONE .. num_of_insts - 1
    BY <1>1 DEF NONE
  <2>8. OneCall(n, G[dep1[n]], G[dep2[n]]) = LongestTo(n)
    <3>1. CASE depth[n] = NONE
      BY <2>4, <2>6, <2>7, <3>1, Zenon DEF OneCall
    <3>2. CASE depth[n] # NONE
      BY <2>7, <3>2 DEF OneCall, MemoExact
    <3> QED
      BY <3>1, <3>2
  <2> QED
    BY <1>2, <2>7, <2>8
<1>6. 0 .. num_of_insts - 1 \subseteq S
  <2> HIDE DEF S
  <2> QED
    BY <1>1, <1>5, Upward
<1>7. \A n \in NONE .. num_of_insts - 1 : n = NONE \/ n \in Insts
  BY <1>1 DEF NONE
<1>8. \A n \in Insts : n # NONE
  BY <1>1 DEF NONE
<1> QED
  BY <1>1, <1>4, <1>6, <1>7, <1>8 DEF G, Reach

(* A call leaves nothing it needs without a depth. *)
Settled(n) ==
  /\ Visits[n] \subseteq Insts
  /\ \A m \in Visits[n] :
       /\ Known(First(m), depth) \/ First(m) \in Visits[n]
       /\ Known(Second(m), depth) \/ Second(m) \in Visits[n]
  /\ n = NONE \/ depth[n] # NONE \/ n \in Visits[n]

LEMMA VisitsSettled ==
  ASSUME LinkInv, phase = "depth"
  PROVE  \A n \in NONE .. num_of_insts - 1 : Settled(n)
<1>1. /\ progTrace \in Seq(InstInfo) /\ num_of_insts \in Nat
      /\ Insts = 0 .. num_of_insts - 1 /\ Backward
      /\ \A n \in Insts : dep1[n] = First(n) /\ dep2[n] = Second(n)
  BY LinkedBackward, TraceFacts DEF LinkInv, Shape, Insts
<1>2. \A n \in NONE .. num_of_insts - 1 :
        Visits[n] = OneVisit(n, Visits[dep1[n]], Visits[dep2[n]])
  BY <1>1, VisitsUnfold
<1>3. Settled(NONE)
  <2>1. NONE \in NONE .. num_of_insts - 1
    BY <1>1 DEF NONE
  <2>2. Visits[NONE] = {}
    BY <1>2, <2>1 DEF OneVisit
  <2> QED
    BY <2>2 DEF Settled
<1> DEFINE S == {n \in Insts : Settled(n)}
<1>4. ASSUME NEW n \in Insts, \A m \in 0 .. n - 1 : m \in S PROVE n \in S
  <2>1. n # NONE /\ n \in NONE .. num_of_insts - 1
    BY <1>1 DEF NONE
  <2>2. CASE depth[n] # NONE
    <3>1. Visits[n] = {}
      BY <1>2, <2>1, <2>2 DEF OneVisit
    <3> QED
      BY <2>2, <3>1 DEF Settled
  <2>3. CASE depth[n] = NONE
    <3> DEFINE a == First(n)
               b == Second(n)
    <3>1. Visits[n] = {n} \cup Visits[a] \cup Visits[b]
      BY <1>1, <1>2, <2>1, <2>3 DEF OneVisit
    <3>2. a \in NONE .. n - 1 /\ b \in NONE .. n - 1
      BY <1>1, TraceFacts
    <3>3. Settled(a) /\ Settled(b)
      <4>1. \A d \in NONE .. n - 1 : d = NONE \/ d \in 0 .. n - 1
        BY DEF NONE
      <4> QED
        BY <1>3, <1>4, <3>2, <4>1
    <3>4. Visits[n] \subseteq Insts
      BY <3>1, <3>3 DEF Settled
    <3>5. Known(a, depth) \/ a \in Visits[n]
      BY <3>1, <3>3 DEF Settled, Known
    <3>6. Known(b, depth) \/ b \in Visits[n]
      BY <3>1, <3>3 DEF Settled, Known
    <3>7. ASSUME NEW m \in Visits[n]
          PROVE  /\ Known(First(m), depth) \/ First(m) \in Visits[n]
                 /\ Known(Second(m), depth) \/ Second(m) \in Visits[n]
      BY <3>1, <3>3, <3>5, <3>6 DEF Settled
    <3>8. n \in Visits[n]
      BY <3>1
    <3> QED
      BY <3>4, <3>7, <3>8, Zenon DEF Settled
  <2> QED
    BY <2>2, <2>3
<1>5. 0 .. num_of_insts - 1 \subseteq S
  <2> HIDE DEF S
  <2> QED
    BY <1>1, <1>4, Upward
<1>6. \A n \in NONE .. num_of_insts - 1 : n = NONE \/ n \in Insts
  BY <1>1 DEF NONE
<1> QED
  BY <1>1, <1>3, <1>5, <1>6

Blank ==
  phase \in {"none", "link"} => max_depth = NONE /\ \A n \in Insts : depth[n] = NONE

MemoInv == MemoExact /\ MemoClosed /\ ExitsDone /\ MaxReached /\ Started /\ Blank

LEMMA MemoInit == Init => MemoInv
<1> SUFFICES ASSUME Init PROVE MemoInv
  OBVIOUS
<1>1. phase = "none" /\ Insts = {} /\ exit_nodes = {} /\ max_depth = NONE
  BY DEF Init, Insts, num_of_insts
<1> QED
  BY <1>1 DEF MemoInv, MemoExact, MemoClosed, ExitsDone, MaxReached, Started, Blank

LEMMA MemoConstruct ==
  ASSUME NEW trace \in Seq(InstInfo), Len(trace) > 0, MemoInv, Construct(trace)
  PROVE  MemoInv'
<1>1. /\ phase = "none" /\ phase' = "link" /\ progTrace' = trace
      /\ depth' = [n \in 0 .. Len(trace) - 1 |-> NONE] /\ max_depth' = max_depth
  BY DEF Construct
<1>2. num_of_insts' > 0 /\ Insts' = 0 .. Len(trace) - 1
  BY <1>1 DEF num_of_insts, Insts
<1>3. max_depth' = NONE /\ \A n \in Insts' : depth'[n] = NONE
  BY <1>1, <1>2 DEF MemoInv, Blank
<1>4. Done' = {}
  BY <1>1 DEF Done
<1> QED
  BY <1>1, <1>2, <1>3, <1>4
     DEF MemoInv, MemoExact, MemoClosed, ExitsDone, MaxReached, Started, Blank

(* A step that computes nothing. *)
LEMMA MemoSame ==
  ASSUME LinkInv, MemoInv, UNCHANGED <<progTrace, depth, max_depth>>,
         phase # "none",
         phase' \in {"none", "link"} => phase \in {"none", "link"},
         exit_nodes' \cap Done' \subseteq exit_nodes \cap Done
  PROVE  MemoInv'
<1>1. /\ progTrace \in Seq(InstInfo) /\ Insts' = Insts /\ num_of_insts' = num_of_insts
      /\ \A n \in Insts : LongestTo(n)' = LongestTo(n)
      /\ \A n : First(n)' = First(n) /\ Second(n)' = Second(n)
  BY SameTrace, SameWriters DEF LinkInv, Shape
<1>2. MemoExact'
  BY <1>1 DEF MemoInv, MemoExact
<1>3. MemoClosed'
  <2>1. \A d : Known(d, depth') <=> Known(d, depth)
    BY DEF Known
  <2>2. ASSUME NEW n \in Insts, depth[n] # NONE
        PROVE  Known(First(n)', depth') /\ Known(Second(n)', depth')
    <3>1. Known(First(n), depth) /\ Known(Second(n), depth)
      BY <2>2 DEF MemoInv, MemoClosed
    <3> QED
      BY <1>1, <3>1
  <2> QED
    BY <1>1, <2>2 DEF MemoClosed
<1>4. ExitsDone'
  <2> SUFFICES ASSUME NEW n \in exit_nodes' \cap Done'
               PROVE  depth'[n] # NONE /\ LongestTo(n)' <= max_depth'
    BY DEF ExitsDone
  <2>1. n \in exit_nodes \cap Done /\ n \in Insts
    BY DEF LinkInv, LinkedExact
  <2>2. depth[n] # NONE /\ LongestTo(n) <= max_depth
    BY <2>1 DEF MemoInv, ExitsDone
  <2> QED
    BY <1>1, <2>1, <2>2
<1>5. MaxReached'
  BY <1>1 DEF MemoInv, MaxReached
<1>6. Started' /\ Blank'
  BY <1>1 DEF MemoInv, Started, Blank
<1> QED
  BY <1>2, <1>3, <1>4, <1>5, <1>6 DEF MemoInv

(* A call of getDepthRecursive from a node connected to the exit. *)
LEMMA MemoDepth ==
  ASSUME LinkInv, TypeOK, MemoInv, DepthsFit, Depth
  PROVE  MemoInv'
<1>1. /\ phase = "depth" /\ phase' = "depth" /\ UNCHANGED <<progTrace, exit_nodes>>
      /\ progTrace \in Seq(InstInfo) /\ num_of_insts \in Nat
      /\ i \in 0 .. num_of_insts - 1 /\ i' = i + 1 /\ i \in exit_nodes
      /\ depth' = [n \in Insts |-> IF n \in Visits[i] THEN getDepthRecursive[n] ELSE depth[n]]
      /\ max_depth' = Max({max_depth, getDepthRecursive[i]})
  BY DEF LinkInv, Shape, Depth, num_of_insts
<1>2. /\ Insts' = Insts /\ num_of_insts' = num_of_insts
      /\ \A n \in Insts : LongestTo(n)' = LongestTo(n)
      /\ \A n : First(n)' = First(n) /\ Second(n)' = Second(n)
  BY <1>1, SameTrace, SameWriters
<1>3. i \in Insts /\ i \in NONE .. num_of_insts - 1 /\ i # NONE
      /\ \A n \in Insts : n \in NONE .. num_of_insts - 1 /\ n # NONE
  BY <1>1 DEF Insts, NONE
<1>4. \A n \in Insts : getDepthRecursive[n] = LongestTo(n)
  <2>1. \A n \in NONE .. num_of_insts - 1 : getDepthRecursive[n] = Reach(n)
    BY <1>1, DepthIsReach DEF MemoInv
  <2> QED
    BY <1>3, <2>1 DEF Reach
<1>5. \A n \in Insts : depth'[n] = IF n \in Visits[i] THEN LongestTo(n) ELSE depth[n]
  BY <1>1, <1>4
<1>6. \A n \in Insts : LongestTo(n) \in Nat /\ LongestTo(n) # NONE
  BY <1>1, LongestUnfold DEF NONE
<1>7. \A n \in Insts : depth'[n] # NONE <=> depth[n] # NONE \/ n \in Visits[i]
  <2>1. \A n \in Insts : depth[n] = NONE \/ depth[n] = LongestTo(n)
    BY DEF MemoInv, MemoExact
  <2> QED
    BY <1>5, <1>6
<1>8. Settled(i)
  BY <1>1, <1>3, VisitsSettled
<1>9. MemoExact'
  BY <1>2, <1>5 DEF MemoInv, MemoExact
<1>10. MemoClosed'
  <2>1. \A n \in Insts : \A d : d \in NONE .. n - 1 => d = NONE \/ d \in Insts
    BY <1>1 DEF Insts, NONE
  <2>2. \A n \in Insts : /\ First(n) = NONE \/ First(n) \in Insts
                         /\ Second(n) = NONE \/ Second(n) \in Insts
    BY <1>1, <2>1, TraceFacts
  <2>3. ASSUME NEW n \in Insts, depth'[n] # NONE
        PROVE  Known(First(n), depth') /\ Known(Second(n), depth')
    <3>1. CASE depth[n] # NONE
      <4>1. Known(First(n), depth) /\ Known(Second(n), depth)
        BY <3>1 DEF MemoInv, MemoClosed
      <4> QED
        BY <1>7, <2>2, <4>1 DEF Known
    <3>2. CASE n \in Visits[i]
      <4>1. /\ Known(First(n), depth) \/ First(n) \in Visits[i]
            /\ Known(Second(n), depth) \/ Second(n) \in Visits[i]
        BY <1>8, <3>2 DEF Settled
      <4> QED
        BY <1>7, <2>2, <4>1 DEF Known
    <3> QED
      BY <1>7, <2>3, <3>1, <3>2
  <2>4. ASSUME NEW n \in Insts, depth'[n] # NONE
        PROVE  Known(First(n)', depth') /\ Known(Second(n)', depth')
    BY <1>2, <2>3, <2>4
  <2> QED
    BY <1>2, <2>4 DEF MemoClosed
<1>11. /\ max_depth' = max_depth \/ max_depth' = LongestTo(i)
       /\ max_depth' \in Int /\ max_depth \in Int
       /\ max_depth' >= max_depth /\ max_depth' >= LongestTo(i)
  <2>1. max_depth \in Int
    BY BoundsAssumption DEF TypeOK
  <2>2. getDepthRecursive[i] = LongestTo(i) /\ LongestTo(i) \in Int
    BY <1>3, <1>4, <1>6
  <2>3. max_depth' = Max({max_depth, LongestTo(i)})
    BY <1>1, <2>2, Zenon
  <2> QED
    BY <2>1, <2>2, <2>3, MaxOfTwo
<1>12. ExitsDone'
  <2> SUFFICES ASSUME NEW n \in exit_nodes' \cap Done'
               PROVE  depth'[n] # NONE /\ LongestTo(n)' <= max_depth'
    BY DEF ExitsDone
  <2>1. n \in exit_nodes /\ n \in Insts /\ n \in 0 .. i
    <3>1. Done' = 0 .. i
      BY <1>1 DEF Done
    <3> QED
      BY <1>1, <3>1 DEF LinkInv, LinkedExact
  <2>2. CASE n = i
    BY <1>2, <1>3, <1>7, <1>8, <1>11, <2>2 DEF Settled
  <2>3. CASE n # i
    <3>1. n \in exit_nodes \cap Done
      <4>1. Done = 0 .. i - 1
        BY <1>1 DEF Done
      <4> QED
        BY <1>1, <2>1, <2>3, <4>1
    <3>2. depth[n] # NONE /\ LongestTo(n) <= max_depth
      BY <3>1 DEF MemoInv, ExitsDone
    <3> QED
      BY <1>2, <1>6, <1>7, <1>11, <2>1, <3>2
  <2> QED
    BY <2>2, <2>3
<1>13. MaxReached'
  BY <1>2, <1>3, <1>11 DEF MemoInv, MaxReached
<1>14. Started' /\ Blank'
  BY <1>1, <1>2 DEF MemoInv, Started, Blank
<1> QED
  BY <1>9, <1>10, <1>12, <1>13, <1>14 DEF MemoInv

LEMMA MemoNext == LinkInv /\ TypeOK /\ MemoInv /\ DepthsFit /\ [Next]_vars => MemoInv'
<1> SUFFICES ASSUME LinkInv, TypeOK, MemoInv, DepthsFit, [Next]_vars PROVE MemoInv'
  OBVIOUS
<1>1. /\ num_of_insts \in Nat /\ i \in 0 .. num_of_insts /\ exit_nodes \subseteq Insts
      /\ progTrace \in Seq(InstInfo)
      /\ Insts = 0 .. num_of_insts - 1
  BY DEF LinkInv, Shape, num_of_insts, TypeOK, Insts
<1>2. ASSUME NEW n \in 1 .. MaxInsts, NEW trace \in [1 .. n -> InstInfo], Construct(trace)
      PROVE  MemoInv'
  <2>1. trace \in Seq(InstInfo) /\ Len(trace) > 0
    OBVIOUS
  <2> QED
    BY <1>2, <2>1, MemoConstruct
<1>3. CASE Link
  <2>1. phase = "link" /\ phase' = "link" /\ UNCHANGED <<progTrace, depth, max_depth>>
    BY <1>3 DEF Link
  <2>2. Done' = {}
    BY <2>1 DEF Done
  <2> QED
    BY <2>1, <2>2, MemoSame
<1>4. CASE LinkEnds
  <2>1. phase = "link" /\ phase' = "depth" /\ i' = 0
        /\ UNCHANGED <<progTrace, depth, max_depth>>
    BY <1>4 DEF LinkEnds
  <2>2. Done' = 0 .. 0 - 1
    BY <2>1 DEF Done
  <2>3. Done' = {}
    BY <2>2
  <2> QED
    BY <2>1, <2>3, MemoSame
<1>5. CASE Depth
  BY <1>5, MemoDepth
<1>6. CASE NotExit
  <2>1. phase = "depth" /\ phase' = "depth" /\ i' = i + 1 /\ i \notin exit_nodes
        /\ UNCHANGED <<progTrace, depth, max_depth, exit_nodes>>
    BY <1>6 DEF NotExit
  <2>2. Done = 0 .. i - 1 /\ Done' = 0 .. (i + 1) - 1
    BY <2>1 DEF Done
  <2>3. exit_nodes' \cap Done' \subseteq exit_nodes \cap Done
    BY <1>1, <2>1, <2>2
  <2> QED
    BY <2>1, <2>3, MemoSame
<1>7. CASE DepthEnds
  <2>1. phase = "depth" /\ phase' = "ready" /\ i = num_of_insts
        /\ UNCHANGED <<progTrace, depth, max_depth, exit_nodes>>
    BY <1>7 DEF DepthEnds
  <2>2. Done = Insts /\ Done' = Insts
    BY <1>1, <2>1, SameWriters DEF Done
  <2> QED
    BY <2>1, <2>2, MemoSame
<1>8. ASSUME NEW theInst, getInstDepth(theInst) \/ getInstDeps(theInst)
      PROVE  MemoInv'
  <2>1. phase = "ready" /\ UNCHANGED <<progTrace, phase, i, depth, max_depth, exit_nodes>>
    BY <1>8 DEF getInstDepth, getInstDeps
  <2>2. Done = Insts /\ Done' = Insts
    BY <2>1, SameWriters DEF Done
  <2> QED
    BY <2>1, <2>2, MemoSame
<1>9. CASE UNCHANGED vars
  <2>1. UNCHANGED <<progTrace, phase, i, depth, max_depth, exit_nodes>>
    BY <1>9 DEF vars
  <2>2. CASE phase = "none"
    <3>1. num_of_insts = 0 /\ Insts = {} /\ Insts' = {} /\ exit_nodes' = {}
      BY <2>1, <2>2, SameWriters DEF LinkInv, Shape, num_of_insts, Insts
    <3> QED
      BY <2>1, <2>2, <3>1
         DEF MemoInv, MemoExact, MemoClosed, ExitsDone, MaxReached, Started, Blank
  <2>3. CASE phase # "none"
    <3>1. Done' = Done
      BY <2>1, SameWriters DEF Done
    <3> QED
      BY <2>1, <2>3, <3>1, MemoSame
  <2> QED
    BY <2>2, <2>3
<1> QED
  BY <1>2, <1>3, <1>4, <1>5, <1>6, <1>7, <1>8, <1>9 DEF Next, Analysis

(* When the loop ends every instruction has its depth, and none is longer  *)
(* than the program's: an instruction nobody waits for was passed by the   *)
(* loop, any other one was reached from one that comes after it.           *)
LEMMA AllKnown ==
  ASSUME LinkInv, TypeOK, MemoInv, phase = "ready"
  PROVE  \A n \in Insts : depth[n] = LongestTo(n) /\ LongestTo(n) <= max_depth
<1>1. /\ progTrace \in Seq(InstInfo) /\ num_of_insts \in Nat
      /\ Insts = 0 .. num_of_insts - 1
      /\ \A n \in Insts : LongestTo(n) \in Nat /\ LongestTo(n) # NONE
      /\ max_depth \in Int
  <2>1. progTrace \in Seq(InstInfo)
    BY DEF LinkInv, Shape
  <2>2. \A n \in Insts : LongestTo(n) \in Nat
    BY <2>1, LongestUnfold
  <2>3. max_depth \in Int
    BY BoundsAssumption DEF TypeOK
  <2> QED
    BY <2>1, <2>2, <2>3, TraceFacts DEF Insts, NONE
<1> DEFINE S == {n \in Insts : depth[n] # NONE /\ LongestTo(n) <= max_depth}
<1>2. ASSUME NEW n \in Insts, \A m \in n + 1 .. num_of_insts - 1 : m \in S PROVE n \in S
  <2>1. CASE n \in exit_nodes
    <3>1. n \in exit_nodes \cap Done
      BY <2>1 DEF Done
    <3> QED
      BY <3>1 DEF MemoInv, ExitsDone
  <2>2. CASE n \notin exit_nodes
    <3>1. PICK m \in Insts : DependsOn(m, n)
      BY <2>2 DEF LinkInv, LinkedExact
    <3>2. n = First(m) \/ n = Second(m)
      BY <3>1 DEF DependsOn, First, Second
    <3>3. First(m) \in NONE .. m - 1 /\ Second(m) \in NONE .. m - 1
      BY <1>1, TraceFacts
    <3>4. m \in n + 1 .. num_of_insts - 1
      BY <1>1, <3>2, <3>3 DEF NONE
    <3>5. depth[m] # NONE /\ LongestTo(m) <= max_depth
      BY <1>2, <3>4
    <3>6. n # NONE
      BY <1>1 DEF NONE
    <3>7. depth[n] # NONE
      <4>1. Known(First(m), depth) /\ Known(Second(m), depth)
        BY <3>5 DEF MemoInv, MemoClosed
      <4> QED
        BY <3>2, <3>6, <4>1 DEF Known
    <3>8. LongestTo(n) <= LongestTo(m)
      <4>1. LongestTo(m) = latency(m) + Waits(m) /\ latency(m) \in Nat
            /\ Reach(First(m)) \in Nat /\ Reach(Second(m)) \in Nat
        BY <1>1, LongestUnfold, TraceFacts
      <4>2. /\ Waits(m) \in Nat
            /\ Waits(m) >= Reach(First(m)) /\ Waits(m) >= Reach(Second(m))
        BY <4>1, MaxOfTwo DEF Waits
      <4>3. LongestTo(n) = Reach(First(m)) \/ LongestTo(n) = Reach(Second(m))
        BY <3>2, <3>6 DEF Reach
      <4> QED
        BY <4>1, <4>2, <4>3
    <3>9. LongestTo(n) <= max_depth
      BY <1>1, <3>5, <3>8
    <3> QED
      BY <3>7, <3>9
  <2> QED
    BY <2>1, <2>2
<1>3. 0 .. num_of_insts - 1 \subseteq S
  <2> HIDE DEF S
  <2> QED
    BY <1>1, <1>2, Downward
<1>4. \A n \in Insts : depth[n] # NONE /\ LongestTo(n) <= max_depth
  BY <1>1, <1>3
<1> QED
  BY <1>4 DEF MemoInv, MemoExact

LEMMA ProgDepthFollows ==
  LinkInv /\ TypeOK /\ MemoInv => ProgDepthExact
<1> SUFFICES ASSUME LinkInv, TypeOK, MemoInv, phase = "ready"
             PROVE  max_depth = Max({LongestTo(n) : n \in Insts})
  BY DEF ProgDepthExact
<1> DEFINE L == {LongestTo(n) : n \in Insts}
<1>1. progTrace \in Seq(InstInfo) /\ num_of_insts > 0 /\ num_of_insts \in Nat
  BY TraceFacts DEF LinkInv, Shape, MemoInv, Started
<1>2. \A n \in Insts : LongestTo(n) \in Nat /\ LongestTo(n) <= max_depth
  BY <1>1, AllKnown, LongestUnfold
<1>3. 0 \in Insts
  BY <1>1 DEF Insts
<1>4. max_depth # NONE
  BY <1>2, <1>3 DEF NONE
<1>5. max_depth \in L /\ \A y \in L : y \in Nat /\ max_depth >= y
  BY <1>2, <1>4 DEF MemoInv, MaxReached
<1> HIDE DEF L
<1>6. Max(L) = max_depth
  BY <1>5 DEF Max
<1> QED
  BY <1>6 DEF L

(* The program's depth is the length of its longest chain, for programs of *)
(* every length, any latencies and any number of registers, as long as an  *)
(* int holds it (dflow_calc.cpp:119-158).                                  *)
THEOREM ProgDepthCorrect == Spec /\ []DepthsFit => []ProgDepthExact
<1>1. Init => LinkInv /\ TypeOK /\ MemoInv
  BY LinkInvInit, TypeInit, MemoInit
<1>2. LinkInv /\ TypeOK /\ MemoInv /\ DepthsFit /\ [Next]_vars => LinkInv' /\ TypeOK' /\ MemoInv'
  BY LinkInvNext, TypeNext, MemoNext
<1>3. LinkInv /\ TypeOK /\ MemoInv => ProgDepthExact
  BY ProgDepthFollows
<1> QED
  BY <1>1, <1>2, <1>3, PTL DEF Spec

(* An answer is what the tables hold, once they are complete. *)
AnswerOf(a, n) ==
  \/ a = <<"depth", n, DepthAnswer(n)>>
  \/ n >= num_of_insts /\ a = <<"deps", n, NONE>>
  \/ n < num_of_insts /\ a = <<"deps", n, dep1[n], dep2[n]>>

Answered == answer # << >> => phase = "ready" /\ \E n \in Nat : AnswerOf(answer, n)

LEMMA AnsweredNext == LinkInv /\ Answered /\ [Next]_vars => Answered'
<1> SUFFICES ASSUME LinkInv, Answered, [Next]_vars PROVE Answered'
  OBVIOUS
<1>1. ASSUME UNCHANGED answer, phase # "ready" PROVE Answered'
  BY <1>1 DEF Answered
<1>2. ASSUME UNCHANGED <<progTrace, phase, dep1, dep2, depth>>
      PROVE  \A n, a : AnswerOf(a, n) => AnswerOf(a, n)'
  BY <1>2 DEF AnswerOf, DepthAnswer, num_of_insts, latency
<1>3. CASE \E trace \in UNION {[1 .. n -> InstInfo] : n \in 1 .. MaxInsts} : Construct(trace)
  BY <1>1, <1>3 DEF Construct
<1>4. CASE Analysis
  BY <1>1, <1>4 DEF Analysis, Link, LinkEnds, Depth, NotExit, DepthEnds
<1>5. ASSUME NEW n \in Nat, getInstDepth(n) \/ getInstDeps(n) PROVE Answered'
  <2>1. phase = "ready" /\ phase' = "ready" /\ UNCHANGED <<progTrace, phase, dep1, dep2, depth>>
    BY <1>5 DEF getInstDepth, getInstDeps
  <2>2. PICK a : a = answer'
    OBVIOUS
  <2>3. AnswerOf(a, n)
    <3>1. CASE getInstDepth(n)
      BY <2>2, <3>1 DEF getInstDepth, AnswerOf
    <3>2. CASE getInstDeps(n)
      <4>1. num_of_insts \in Nat
        BY DEF LinkInv, Shape, num_of_insts
      <4>2. n >= num_of_insts \/ n < num_of_insts
        BY <4>1
      <4>3. a = IF n >= num_of_insts THEN <<"deps", n, NONE>>
                ELSE <<"deps", n, dep1[n], dep2[n]>>
        BY <2>2, <3>2 DEF getInstDeps
      <4> QED
        BY <4>2, <4>3 DEF AnswerOf
    <3> QED
      BY <1>5, <3>1, <3>2
  <2>4. AnswerOf(a, n)'
    BY <1>2, <2>1, <2>3, Zenon
  <2>5. \E m \in Nat : AnswerOf(answer, m)'
    BY <2>2, <2>4
  <2> QED
    BY <2>1, <2>5 DEF Answered
<1>6. CASE UNCHANGED vars
  <2>1. UNCHANGED <<progTrace, phase, dep1, dep2, depth, answer>>
    BY <1>6 DEF vars
  <2> QED
    BY <1>2, <2>1 DEF Answered
<1>7. \A n \in 0 .. MaxInsts : n \in Nat
  OBVIOUS
<1> QED
  BY <1>3, <1>4, <1>5, <1>6, <1>7 DEF Next

LEMMA AnswersFollow ==
  LinkInv /\ TypeOK /\ MemoInv /\ Answered /\ DepthsFit => AnswersExact
<1> SUFFICES ASSUME LinkInv, TypeOK, MemoInv, Answered, DepthsFit, answer # << >>
             PROVE  LET n == answer[2] IN
                    CASE n >= num_of_insts -> answer[3] < 0
                      [] n < num_of_insts /\ answer[1] = "depth" ->
                           answer[3] = LongestTo(n) - latency(n)
                      [] OTHER -> \A m \in Insts : DependsOn(n, m) <=> m \in {answer[3], answer[4]}
  BY DEF AnswersExact
<1>1. phase = "ready" /\ progTrace \in Seq(InstInfo) /\ num_of_insts \in Nat
  BY DEF Answered, LinkInv, Shape, num_of_insts
<1>2. PICK n \in Nat : AnswerOf(answer, n)
  BY DEF Answered
<1>3. answer[2] = n
  BY <1>2 DEF AnswerOf
<1>4. CASE n >= num_of_insts
  <2>1. ~(n < num_of_insts)
    BY <1>1, <1>4
  <2>2. answer[3] = NONE
    BY <1>2, <1>4, <2>1 DEF AnswerOf, DepthAnswer
  <2>3. answer[3] < 0
    BY <2>2 DEF NONE
  <2> QED
    BY <1>3, <1>4, <2>1, <2>3
<1>5. CASE n < num_of_insts
  <2>1. ~(n >= num_of_insts) /\ n \in Insts
    BY <1>1, <1>5 DEF Insts
  <2>2. CASE answer = <<"depth", n, DepthAnswer(n)>>
    <3>1. depth[n] = LongestTo(n) /\ depth[n] # NONE
      <4>1. LongestTo(n) \in Nat
        BY <1>1, <2>1, LongestUnfold
      <4> QED
        BY <1>1, <2>1, <4>1, AllKnown DEF NONE
    <3>2. DepthAnswer(n) = Int32(LongestTo(n) - latency(n))
      BY <1>5, <2>1, <3>1 DEF DepthAnswer
    <3>3. LongestTo(n) - latency(n) \in -IntMax - 1 .. IntMax
      <4>1. LongestTo(n) = latency(n) + Waits(n) /\ latency(n) \in Nat
            /\ Reach(First(n)) \in Nat /\ Reach(Second(n)) \in Nat
        BY <1>1, <2>1, LongestUnfold, TraceFacts
      <4>2. Waits(n) \in Nat
        BY <4>1, MaxOfTwo DEF Waits
      <4>3. LongestTo(n) <= IntMax
        BY <2>1 DEF DepthsFit
      <4> QED
        BY <4>1, <4>2, <4>3, BoundsAssumption
    <3>4. answer[3] = LongestTo(n) - latency(n)
      BY <2>2, <3>2, <3>3, Int32Same
    <3>5. answer[1] = "depth"
      BY <2>2
    <3> QED
      BY <1>3, <1>5, <2>1, <3>4, <3>5
  <2>3. CASE answer = <<"deps", n, dep1[n], dep2[n]>>
    <3>1. dep1[n] = First(n) /\ dep2[n] = Second(n)
      BY <1>1, <2>1, LinkedBackward
    <3>2. \A m \in Insts : DependsOn(n, m) <=> m \in {answer[3], answer[4]}
      BY <2>3, <3>1 DEF DependsOn, First, Second
    <3>3. answer[1] # "depth"
      BY <2>3
    <3> QED
      BY <1>3, <1>5, <2>1, <3>2, <3>3
  <2> QED
    BY <1>2, <2>1, <2>2, <2>3 DEF AnswerOf
<1> QED
  BY <1>1, <1>4, <1>5

(* A query returns the length of the longest chain the instruction waits   *)
(* for, or the instructions it waits for: every instruction has a depth    *)
(* though the depths are computed from the exit nodes only, and the answer *)
(* is the definition's (dflow_calc.cpp:119-158, 183-217).                  *)
THEOREM AnswersCorrect == Spec /\ []DepthsFit => []AnswersExact
<1>1. Init => LinkInv /\ TypeOK /\ MemoInv /\ Answered
  BY LinkInvInit, TypeInit, MemoInit DEF Init, Answered
<1>2. LinkInv /\ TypeOK /\ MemoInv /\ Answered /\ DepthsFit /\ [Next]_vars
      => LinkInv' /\ TypeOK' /\ MemoInv' /\ Answered'
  BY LinkInvNext, TypeNext, MemoNext, AnsweredNext
<1>3. LinkInv /\ TypeOK /\ MemoInv /\ Answered /\ DepthsFit => AnswersExact
  BY AnswersFollow
<1> QED
  BY <1>1, <1>2, <1>3, PTL DEF Spec

-----------------------------------------------------------------------------
(* The file of latencies has been read, without an error. *)
FileRead ==
  /\ NumOps >= 0
  /\ opsLatency = [op \in Opcode |-> LatencyAt(op)]

(* The buffer is one block of memory, and what is in use of it is what the *)
(* lines said.                                                             *)
BufferInv ==
  /\ \E m \in Nat : DOMAIN progBuf = 0 .. m - 1 /\ lineNum <= m
  /\ lineNum \in 0 .. MaxInsts
  /\ listed \in Seq(Fields \cup {WILD})
  /\ ~cut => /\ lineNum = Len(listed)
             /\ \A k \in 0 .. lineNum - 1 : progBuf[k] = listed[k + 1]

StageInv ==
  /\ opsFile \in OpsFiles
  /\ stage \in {"ops", "program"} => phase = "none"
  /\ stage = "program" => FileRead

(* The analysis works on the buffer, decoded. *)
TraceInv ==
  phase # "none" => /\ FileRead
                    /\ \A k \in 0 .. lineNum - 1 : progBuf[k] \in Fields
                    /\ progTrace = Trace

ReadInv == BufferInv /\ StageInv /\ TraceInv

(* A file read without an error has at most MAX_OPS lines, all of them     *)
(* numbers or blank, so every opcode has a latency.                        *)
LEMMA FileReadFacts ==
  ASSUME opsFile \in OpsFiles, NumOps >= 0
  PROVE  /\ opsFile \in Seq(Latencies \cup {BLANK, MALFORMED})
         /\ Len(opsFile) <= MAX_OPS
         /\ \A l \in DOMAIN opsFile : opsFile[l] # MALFORMED
         /\ \A op \in Opcode : LatencyAt(op) \in Latencies
<1> DEFINE parsed == {k \in DOMAIN opsFile : k <= MAX_OPS}
<1>1. opsFile \in Seq(Latencies \cup {BLANK, MALFORMED}) /\ MAX_OPS \in Nat
  BY OpsFilesAssumption, MainAssumption
<1>2. \A k \in parsed : opsFile[k] # MALFORMED
  BY DEF NumOps
<1>3. Len(opsFile) <= MAX_OPS
  BY <1>1, <1>2 DEF NumOps
<1>4. \A l \in DOMAIN opsFile : opsFile[l] # MALFORMED
  BY <1>1, <1>2, <1>3
<1>5. ASSUME NEW op \in Opcode PROVE LatencyAt(op) \in Latencies
  BY <1>1, <1>4, ZeroAssumption DEF LatencyAt, Opcode
<1> QED
  BY <1>1, <1>3, <1>4, <1>5

(* The size of the buffer. *)
LEMMA BufferSize ==
  ASSUME NEW m \in Nat, DOMAIN progBuf = 0 .. m - 1 PROVE maxInsts = m
  BY FS_Interval DEF maxInsts

(* Before every line there is room for one more instruction, and growing   *)
(* keeps those stored.                                                     *)
LEMMA RoomForOne ==
  ASSUME BufferInv
  PROVE  \E m \in Nat : /\ DOMAIN Grown = 0 .. m - 1
                        /\ lineNum < m
                        /\ \A k \in 0 .. lineNum - 1 : Grown[k] = progBuf[k]
<1>1. PICK m \in Nat : DOMAIN progBuf = 0 .. m - 1 /\ lineNum <= m
  BY DEF BufferInv
<1>2. maxInsts = m /\ lineNum \in Nat /\ PROG_SIZE_QUOTA \in Nat \ {0}
  BY <1>1, BufferSize, MainAssumption DEF BufferInv
<1>3. CASE lineNum = maxInsts
  <2>1. DOMAIN Grown = 0 .. (m + PROG_SIZE_QUOTA) - 1
    BY <1>2, <1>3 DEF Grown
  <2>2. \A k \in 0 .. lineNum - 1 : Grown[k] = progBuf[k]
    BY <1>2, <1>3 DEF Grown
  <2> QED
    BY <1>2, <1>3, <2>1, <2>2
<1>4. CASE lineNum # maxInsts
  BY <1>1, <1>2, <1>4 DEF Grown
<1> QED
  BY <1>3, <1>4

LEMMA ReadInvInit == MainInit => ReadInv
<1> SUFFICES ASSUME MainInit PROVE ReadInv
  OBVIOUS
<1>1. BufferInv
  <2>1. DOMAIN progBuf = 0 .. 0 - 1 /\ lineNum = 0 /\ listed = << >>
    BY DEF MainInit
  <2> QED
    BY <2>1, BoundsAssumption DEF BufferInv
<1>2. StageInv /\ TraceInv
  BY DEF MainInit, Init, StageInv, TraceInv
<1> QED
  BY <1>1, <1>2 DEF ReadInv

(* What the invariant says of a step that leaves the reader alone. *)
LEMMA SameReader ==
  ASSUME UNCHANGED <<opsFile, readVars>>
  PROVE  /\ FileRead' <=> FileRead
         /\ BufferInv' <=> BufferInv
         /\ Trace' = Trace
  BY DEF readVars, NumOps, FileRead, LatencyAt, Opcode, BufferInv, Fields, Trace, Decoded

LEMMA ReadInvOps == ReadInv /\ readOpsLatency => ReadInv'
<1> SUFFICES ASSUME ReadInv, readOpsLatency PROVE ReadInv'
  OBVIOUS
<1>1. stage = "ops" /\ phase = "none" /\ phase' = "none" /\ opsFile' = opsFile
  BY DEF ReadInv, StageInv, readOpsLatency, vars
<1>2. BufferInv'
  BY DEF ReadInv, BufferInv, readOpsLatency, Fields
<1>3. StageInv'
  <2>1. CASE NumOps < 0
    BY <1>1, <2>1 DEF ReadInv, StageInv, readOpsLatency, Exit
  <2>2. CASE ~(NumOps < 0)
    <3>1. NumOps' = NumOps /\ \A op : LatencyAt(op)' = LatencyAt(op)
      BY <1>1 DEF NumOps, LatencyAt
    <3>2. NumOps >= 0
      <4>1. NumOps \in Int
        BY <1>1, OpsFilesAssumption DEF ReadInv, StageInv, NumOps
      <4> QED
        BY <2>2, <4>1
    <3> QED
      BY <1>1, <2>2, <3>1, <3>2 DEF ReadInv, StageInv, readOpsLatency, FileRead, Opcode
  <2> QED
    BY <2>1, <2>2
<1>4. TraceInv'
  BY <1>1 DEF TraceInv
<1> QED
  BY <1>2, <1>3, <1>4 DEF ReadInv

(* Reading a line keeps all but the buffer. *)
LEMMA LineKeeps ==
  ASSUME ReadInv, NextLine, UNCHANGED stage
  PROVE  StageInv' /\ TraceInv'
<1>1. /\ stage = "program" /\ stage' = "program" /\ phase = "none" /\ phase' = "none"
      /\ UNCHANGED <<opsFile, opsLatency>>
  BY DEF ReadInv, StageInv, NextLine, vars
<1>2. FileRead' <=> FileRead
  BY <1>1 DEF FileRead, NumOps, LatencyAt, Opcode
<1> QED
  BY <1>1, <1>2 DEF ReadInv, StageInv, TraceInv

LEMMA ReadInvSkip == ReadInv /\ SkipLine => ReadInv'
<1> SUFFICES ASSUME ReadInv, SkipLine PROVE ReadInv'
  OBVIOUS
<1>1. PICK m \in Nat : /\ DOMAIN Grown = 0 .. m - 1
                       /\ lineNum < m
                       /\ \A k \in 0 .. lineNum - 1 : Grown[k] = progBuf[k]
  BY RoomForOne DEF ReadInv
<1>2. BufferInv'
  BY <1>1 DEF ReadInv, BufferInv, SkipLine, Fields
<1>3. StageInv' /\ TraceInv'
  BY LineKeeps DEF SkipLine
<1> QED
  BY <1>2, <1>3 DEF ReadInv

(* The same for a line that is stored; history says which it is. *)
LEMMA ReadInvStore ==
  ASSUME ReadInv, NextLine, NEW inst, Store(inst),
         \/ inst \in Fields \cup {WILD} /\ listed' = Append(listed, inst) /\ UNCHANGED cut
         \/ cut' = TRUE /\ UNCHANGED listed
  PROVE  ReadInv'
<1>1. PICK m \in Nat : /\ DOMAIN Grown = 0 .. m - 1
                       /\ lineNum < m
                       /\ \A k \in 0 .. lineNum - 1 : Grown[k] = progBuf[k]
  BY RoomForOne DEF ReadInv
<1>2. /\ progBuf' = [Grown EXCEPT ![lineNum] = inst]
      /\ lineNum' = lineNum + 1 /\ lineNum \in Nat /\ lineNum < MaxInsts /\ MaxInsts \in Nat
      /\ listed \in Seq(Fields \cup {WILD})
  BY BoundsAssumption DEF Store, ReadInv, BufferInv
<1>3. DOMAIN progBuf' = 0 .. m - 1 /\ lineNum' <= m /\ lineNum' \in 0 .. MaxInsts
  BY <1>1, <1>2
<1>4. /\ progBuf'[lineNum] = inst
      /\ \A k \in 0 .. lineNum - 1 : progBuf'[k] = progBuf[k]
  BY <1>1, <1>2
<1>5. listed' \in Seq(Fields \cup {WILD})
  BY <1>2
<1>6. ~cut' => /\ lineNum' = Len(listed')
               /\ \A k \in 0 .. lineNum' - 1 : progBuf'[k] = listed'[k + 1]
  <2> SUFFICES ASSUME ~cut'
               PROVE  /\ lineNum' = Len(listed')
                      /\ \A k \in 0 .. lineNum' - 1 : progBuf'[k] = listed'[k + 1]
    OBVIOUS
  <2>1. /\ listed' = Append(listed, inst) /\ lineNum = Len(listed)
        /\ \A k \in 0 .. lineNum - 1 : progBuf[k] = listed[k + 1]
    BY DEF ReadInv, BufferInv
  <2>2. ASSUME NEW k \in 0 .. lineNum' - 1 PROVE progBuf'[k] = listed'[k + 1]
    <3>1. CASE k = lineNum
      BY <1>2, <1>4, <2>1, <3>1
    <3>2. CASE k # lineNum
      <4>1. k \in 0 .. lineNum - 1
        BY <1>2, <3>2
      <4>2. listed'[k + 1] = listed[k + 1]
        BY <1>2, <2>1, <4>1
      <4> QED
        BY <1>4, <2>1, <4>1, <4>2
    <3> QED
      BY <3>1, <3>2
  <2> QED
    BY <1>2, <2>1, <2>2
<1>7. BufferInv'
  BY <1>3, <1>5, <1>6 DEF BufferInv, Fields, Opcode, WILD
<1>8. StageInv' /\ TraceInv'
  BY LineKeeps DEF Store
<1> QED
  BY <1>7, <1>8 DEF ReadInv

(* main leaves, for whatever reason. *)
LEMMA ReadInvExit ==
  ASSUME ReadInv, UNCHANGED <<vars, opsFile, readVars>>,
         stage' \in {"exited", "undefined"} \/ UNCHANGED stage
  PROVE  ReadInv'
<1>1. UNCHANGED <<phase, progTrace>>
  BY DEF vars
<1>2. StageInv'
  BY <1>1, SameReader DEF ReadInv, StageInv
<1>3. TraceInv'
  BY <1>1, SameReader DEF ReadInv, TraceInv, readVars, Fields, Opcode
<1> QED
  BY <1>2, <1>3, SameReader DEF ReadInv

LEMMA ReadInvReadFails == ReadInv /\ ReadFails => ReadInv'
<1> SUFFICES ASSUME ReadInv, ReadFails PROVE ReadInv'
  OBVIOUS
<1>1. /\ stage' = "exited" /\ phase = "none" /\ phase' = "none"
      /\ UNCHANGED <<opsFile, opsLatency, progBuf, lineNum, listed, cut>>
  BY DEF ReadInv, StageInv, ReadFails, NextLine, Exit, vars
<1>2. BufferInv'
  BY <1>1 DEF ReadInv, BufferInv, Fields
<1>3. StageInv' /\ TraceInv'
  BY <1>1 DEF ReadInv, StageInv, TraceInv
<1> QED
  BY <1>2, <1>3 DEF ReadInv

LEMMA ReadInvAnalyze == ReadInv /\ analyzeProg => ReadInv'
<1> SUFFICES ASSUME ReadInv, analyzeProg PROVE ReadInv'
  OBVIOUS
<1>1. UNCHANGED <<opsFile, readVars>> /\ stage = "program"
  BY DEF analyzeProg
<1>2. CASE \E k \in 0 .. lineNum - 1 : progBuf[k] \notin Fields
  BY <1>1, <1>2, ReadInvExit DEF analyzeProg
<1>3. CASE \A k \in 0 .. lineNum - 1 : progBuf[k] \in Fields
  <2>1. stage' = "queries" /\ phase' = "link" /\ progTrace' = Trace
    BY <1>3 DEF analyzeProg, Construct
  <2>2. StageInv'
    BY <1>1, <2>1 DEF ReadInv, StageInv
  <2>3. FileRead
    BY <1>1 DEF ReadInv, StageInv
  <2>4. TraceInv'
    BY <1>1, <1>3, <2>1, <2>3, SameReader DEF TraceInv, readVars, Fields, Opcode
  <2> QED
    BY <1>1, <2>2, <2>4, SameReader DEF ReadInv
<1> QED
  BY <1>2, <1>3

(* The analysis and the queries only read the trace. *)
LEMMA ReadInvAnalysis ==
  ASSUME ReadInv, UNCHANGED <<opsFile, stage, readVars, progTrace>>,
         stage = "queries", phase # "none"
  PROVE  ReadInv'
<1>1. StageInv'
  BY DEF ReadInv, StageInv
<1>2. TraceInv'
  BY SameReader DEF ReadInv, TraceInv, readVars, Fields, Opcode
<1> QED
  BY <1>1, <1>2, SameReader DEF ReadInv

LEMMA ReadInvNext == ReadInv /\ [MainNext]_mainVars => ReadInv'
<1> SUFFICES ASSUME ReadInv, [MainNext]_mainVars PROVE ReadInv'
  OBVIOUS
<1>1. CASE readOpsLatency
  BY <1>1, ReadInvOps
<1>2. CASE SkipLine
  BY <1>2, ReadInvSkip
<1>3. CASE ReadFails
  BY <1>3, ReadInvReadFails
<1>4. ASSUME NEW inst \in Fields \cup {WILD}, ReadInstruction(inst)
      PROVE  ReadInv'
  BY <1>4, ReadInvStore DEF ReadInstruction
<1>5. ASSUME NEW inst \in LongTails, ReadLongComment(inst)
      PROVE  ReadInv'
  BY <1>5, ReadInvStore DEF ReadLongComment
<1>6. CASE analyzeProg
  BY <1>6, ReadInvAnalyze
<1>7. CASE NoProgram \/ AnalysisFails \/ BadQuery \/ Return
  BY <1>7, ReadInvExit DEF NoProgram, AnalysisFails, BadQuery, Return, Exit
<1>8. CASE Analyse
  BY <1>8, ReadInvAnalysis
     DEF Analyse, Analysis, Link, LinkEnds, Depth, NotExit, DepthEnds
<1>9. ASSUME NEW theInst \in 0 .. MaxInsts, Query(theInst)
      PROVE  ReadInv'
  BY <1>9, ReadInvAnalysis DEF Query, getInstDepth, getInstDeps
<1>10. CASE Ended \/ UNCHANGED mainVars
  BY <1>10, ReadInvExit DEF Ended, mainVars
<1> QED
  BY <1>1, <1>2, <1>3, <1>4, <1>5, <1>6, <1>7, <1>8, <1>9, <1>10 DEF MainNext

(* What is analysed is the program the file lists, with the latencies of   *)
(* the other file, for files and buffers of any size                       *)
(* (dflow_main.c:28-81, 87-114).                                           *)
THEOREM ProgramReadCorrect == MainSpec => []ProgramRead
<1>1. MainInit => ReadInv
  BY ReadInvInit
<1>2. ReadInv /\ [MainNext]_mainVars => ReadInv'
  BY ReadInvNext
<1>3. ReadInv => ProgramRead
  <2> SUFFICES ASSUME ReadInv PROVE ProgramRead
    OBVIOUS
  <2>1. lineNum <= maxInsts
    <3>1. PICK m \in Nat : DOMAIN progBuf = 0 .. m - 1 /\ lineNum <= m
      BY DEF ReadInv, BufferInv
    <3> QED
      BY <3>1, BufferSize
  <2>2. ~cut => /\ lineNum = Len(listed)
                /\ \A k \in 0 .. lineNum - 1 : progBuf[k] = listed[k + 1]
    BY DEF ReadInv, BufferInv
  <2>3. ASSUME phase # "none", ~cut
        PROVE  /\ Len(progTrace) = Len(listed)
               /\ \A k \in DOMAIN listed :
                    LET line == listed[k].opcode + 1
                    IN  /\ Len(opsFile) <= MAX_OPS
                        /\ \A l \in DOMAIN opsFile : opsFile[l] # MALFORMED
                        /\ progTrace[k].dst = listed[k].dst
                        /\ progTrace[k].latency =
                             IF line \in DOMAIN opsFile /\ opsFile[line] # BLANK
                             THEN opsFile[line] ELSE 0
    <3>1. /\ opsFile \in OpsFiles /\ FileRead /\ progTrace = Trace
          /\ \A k \in 0 .. lineNum - 1 : progBuf[k] \in Fields
      BY <2>3 DEF ReadInv, StageInv, TraceInv
    <3>2. /\ opsFile \in Seq(Latencies \cup {BLANK, MALFORMED})
          /\ Len(opsFile) <= MAX_OPS
          /\ \A l \in DOMAIN opsFile : opsFile[l] # MALFORMED
      BY <3>1, FileReadFacts DEF FileRead
    <3>3. lineNum = Len(listed) /\ lineNum \in Nat /\ DOMAIN listed = 1 .. lineNum
      BY <2>2, <2>3 DEF ReadInv, BufferInv
    <3>4. Len(progTrace) = lineNum
      BY <3>1, <3>3 DEF Trace
    <3>5. ASSUME NEW k \in DOMAIN listed
          PROVE  LET line == listed[k].opcode + 1
                 IN  /\ progTrace[k].dst = listed[k].dst
                     /\ progTrace[k].latency =
                          IF line \in DOMAIN opsFile /\ opsFile[line] # BLANK
                          THEN opsFile[line] ELSE 0
      <4>1. progBuf[k - 1] = listed[k] /\ listed[k] \in Fields
        <5>1. k - 1 \in 0 .. lineNum - 1 /\ (k - 1) + 1 = k
          BY <3>3
        <5>2. progBuf[k - 1] = listed[(k - 1) + 1]
          BY <2>2, <2>3, <5>1
        <5> QED
          BY <3>1, <5>1, <5>2
      <4>2. progTrace[k] = Decoded(listed[k])
        BY <3>1, <3>3, <4>1 DEF Trace
      <4>3. opsLatency[listed[k].opcode] = LatencyAt(listed[k].opcode)
        BY <3>1, <4>1 DEF FileRead, Fields
      <4>4. listed[k].opcode \in Nat
        BY <4>1, MainAssumption DEF Fields, Opcode
      <4>5. LatencyAt(listed[k].opcode) =
              IF listed[k].opcode + 1 \in DOMAIN opsFile /\ opsFile[listed[k].opcode + 1] # BLANK
              THEN opsFile[listed[k].opcode + 1] ELSE 0
        BY <3>2, <4>4 DEF LatencyAt
      <4> QED
        BY <4>2, <4>3, <4>5 DEF Decoded
    <3> QED
      BY <3>2, <3>3, <3>4, <3>5
  <2> QED
    BY <2>1, <2>2, <2>3 DEF ProgramRead
<1> QED
  BY <1>1, <1>2, <1>3, PTL DEF MainSpec

(* The program implements the analysis: what analyzeProg is handed is a    *)
(* program of the specification DataFlow, and the rest of main leaves the  *)
(* analysis alone.                                                         *)
THEOREM MainImplementsAnalysis == MainSpec => Spec
<1>1. MainInit => Init
  BY DEF MainInit
<1>2. ReadInv /\ [MainNext]_mainVars => [Next]_vars
  <2> SUFFICES ASSUME ReadInv, [MainNext]_mainVars PROVE [Next]_vars
    OBVIOUS
  <2>1. CASE UNCHANGED vars
    BY <2>1
  <2>2. CASE analyzeProg /\ Construct(Trace)
    <3>1. FileRead /\ opsFile \in OpsFiles /\ lineNum \in 1 .. MaxInsts
      BY <2>2, BoundsAssumption DEF ReadInv, BufferInv, StageInv, analyzeProg
    <3>2. \A k \in 0 .. lineNum - 1 : progBuf[k] \in Fields
      BY <2>2 DEF analyzeProg, Construct, vars
    <3>3. \A op \in Opcode : LatencyAt(op) \in Latencies
      BY <3>1, FileReadFacts DEF FileRead
    <3>4. ASSUME NEW k \in 1 .. lineNum PROVE Decoded(progBuf[k - 1]) \in InstInfo
      <4>1. k - 1 \in 0 .. lineNum - 1
        BY <3>1, <3>4
      <4>2. progBuf[k - 1] \in Fields
        BY <3>2, <4>1
      <4> QED
        BY <3>1, <3>3, <4>2 DEF FileRead, Decoded, Fields, InstInfo
    <3>5. Trace \in [1 .. lineNum -> InstInfo]
      BY <3>4 DEF Trace
    <3> QED
      BY <2>2, <3>1, <3>5 DEF Next
  <2>3. CASE Analyse
    BY <2>3 DEF Analyse, Next
  <2>4. ASSUME NEW theInst \in 0 .. MaxInsts, Query(theInst) PROVE [Next]_vars
    BY <2>4 DEF Query, Next
  <2> QED
    BY <2>1, <2>2, <2>3, <2>4
       DEF MainNext, readOpsLatency, SkipLine, ReadFails, ReadInstruction, ReadLongComment,
           NextLine, analyzeProg, NoProgram, AnalysisFails, BadQuery, Return, Ended, mainVars
<1>3. MainSpec => []ReadInv
  BY ReadInvInit, ReadInvNext, PTL DEF MainSpec
<1> QED
  BY <1>1, <1>2, <1>3, PTL DEF MainSpec, Spec

(* Whatever the files hold, the dependencies and the exit nodes of the     *)
(* program that was read are exact (dflow_calc.cpp:74-104).                *)
THEOREM MainLinkedCorrect == MainSpec => []LinkedExact
  BY MainImplementsAnalysis, LinkedCorrect, PTL

(* Whatever the files hold, what main prints is right: the depth of the    *)
(* program and the answers to its queries are those of the definitions, as *)
(* long as an int holds them (dflow_main.c:115-160).                       *)
THEOREM MainAnswersCorrect ==
  MainSpec /\ []DepthsFit => [](ProgDepthExact /\ AnswersExact)
  BY MainImplementsAnalysis, ProgDepthCorrect, AnswersCorrect, PTL
=============================================================================
