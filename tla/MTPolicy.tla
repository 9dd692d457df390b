------------------------------- MODULE MTPolicy -------------------------------
(***************************************************************************)
(* What the two simulations promise, one step per event of the simulated   *)
(* machine and with no loop, index arithmetic or sentinel in sight:        *)
(*                                                                         *)
(*   - fine-grained: every cycle the first ready thread after the last     *)
(*     issuer, in cyclic order, issues; the cycle is lost only when no     *)
(*     thread is ready;                                                    *)
(*   - blocked: the current thread issues as long as it is ready; when it  *)
(*     is not, the first ready thread after it takes the core, which costs *)
(*     the switch overhead; a cycle is lost only when no thread is ready.  *)
(*                                                                         *)
(* Time is a natural number here: the abstract machine has no last cycle.  *)
(***************************************************************************)
EXTENDS CoreISA, FiniteSets

CONSTANTS NumThreads, Programs, Image, Latencies, Overheads

Threads == 0 .. NumThreads - 1

VARIABLES
  program,    \* program[t]: the instructions of thread t
  latency,    \* latency["LOAD"], latency["STORE"]
  overhead,   \* cycles of a context switch
  now,        \* the cycle the machine is about to simulate
  last,       \* the last issuer (fine-grained), the thread on the core (blocked)
  issued,     \* issued[t]: how many instructions t has issued
  readyAt,    \* readyAt[t]: the first cycle at which t may issue again
  halted,     \* the threads that issued their HALT
  regs,
  mem

policyVars == <<program, latency, overhead, now, last, issued, readyAt, halted,
                regs, mem>>

PolicyInit(first) ==
  /\ program \in {p \in [Threads -> UNION {Programs[t] : t \in Threads}] :
                    \A t \in Threads : p[t] \in Programs[t]}
  /\ latency \in [{"LOAD", "STORE"} -> Latencies]
  /\ overhead \in Overheads
  /\ now = 0
  /\ last = first
  /\ issued = [t \in Threads |-> 0]
  /\ readyAt = [t \in Threads |-> 0]
  /\ halted = {}
  /\ regs = [t \in Threads |-> [r \in Reg |-> 0]]
  /\ mem = Image

Ready(t) == t \notin halted /\ readyAt[t] <= now

(* How many threads the cyclic order puts between last and t. *)
Distance(t) == (t - last - 1) % NumThreads

FirstReady(t) ==
  Ready(t) /\ \A u \in Threads : Ready(u) => Distance(t) <= Distance(u)

NoneReady == \A t \in Threads : ~Ready(t)

(* Thread t issues its next instruction, in program order. *)
Issue(t) ==
  /\ issued[t] < Len(program[t])
  /\ LET inst == program[t][issued[t] + 1] IN
       /\ regs' = [regs EXCEPT ![t] = RegsAfter(inst, @, mem)]
       /\ mem' = DataAfter(inst, regs[t], mem)
       /\ halted' = IF inst.op = "HALT" THEN halted \cup {t} ELSE halted
       /\ readyAt' = [readyAt EXCEPT ![t] =
                        CASE IsMemoryOp(inst)   -> now + 1 + latency[inst.op]
                          [] inst.op = "HALT"   -> 0
                          [] OTHER              -> @]
  /\ issued' = [issued EXCEPT ![t] = @ + 1]
  /\ now' = now + 1
  /\ last' = t
  /\ UNCHANGED <<program, latency, overhead>>

(* No thread can issue, and some thread is still to halt. *)
LoseCycle ==
  /\ NoneReady
  /\ halted # Threads
  /\ now' = now + 1
  /\ UNCHANGED <<program, latency, overhead, last, issued, readyAt, halted, regs, mem>>

(* The thread on the core waits, t is the next one that does not. *)
SwitchTo(t) ==
  /\ ~Ready(last)
  /\ FirstReady(t)
  /\ now' = now + overhead
  /\ last' = t
  /\ UNCHANGED <<program, latency, overhead, issued, readyAt, halted, regs, mem>>

RoundRobinNext == LoseCycle \/ \E t \in Threads : FirstReady(t) /\ Issue(t)

BlockedNext ==
  \/ LoseCycle
  \/ Ready(last) /\ Issue(last)
  \/ \E t \in Threads : SwitchTo(t)

(* The fine-grained machine starts with thread 0: its "last issuer" is the *)
(* thread before it.  The blocked machine starts with thread 0 on the core.*)
RoundRobinSpec ==
  PolicyInit(NumThreads - 1) /\ [][RoundRobinNext]_policyVars /\ WF_policyVars(RoundRobinNext)

BlockedSpec ==
  PolicyInit(0) /\ [][BlockedNext]_policyVars /\ WF_policyVars(BlockedNext)
=============================================================================
