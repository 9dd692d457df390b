--------------------------- MODULE BranchPredictor ---------------------------
(***************************************************************************)
(* The branch predictor of HW1/bp.cpp, driven by bp_main.c: each branch of *)
(* the trace is predicted, then the predictor is updated with its outcome; *)
(* at the end of the trace the statistics are read.                        *)
(*                                                                         *)
(* A history record is a function from bit positions (1 is the newest      *)
(* outcome) to bits, so that a shift and an exclusive or are pointwise.    *)
(*                                                                         *)
(* Bounds: MaxBranches branches.                                           *)
(***************************************************************************)
EXTENDS Integers, Sequences, FiniteSetsExt

CONSTANTS
  indexBits,    \* log2(btbSize), rounded down
  historySize,
  tagSize,
  FsmStates,    \* initial counter values tried
  Shares,       \* values of Shared tried: 0 (none), 1 (LSB), 2 (MID)
  PCs,          \* branch addresses in the trace
  Outcomes,     \* what a branch of the trace may do: whether taken, and its target
  HighBits,     \* whether the uninitialised global history may exceed its mask
  MaxBranches

ASSUME SizesAssumption ==
  indexBits \in Nat /\ historySize \in Nat \ {0} /\ tagSize \in Nat
(* A fact of arithmetic, stated here for the provers, which cannot do the  *)
(* induction: every power of two that the code shifts by is positive.      *)
ASSUME PowersAssumption ==
  \A n \in 0 .. 16 + indexBits + historySize + tagSize : 2 ^ n > 0
ASSUME ConfigAssumption ==
  FsmStates \subseteq 0 .. 3 /\ Shares \subseteq 0 .. 2 /\ HighBits \subseteq BOOLEAN
ASSUME TraceAssumption ==
  /\ PCs \subseteq Nat /\ MaxBranches \in Nat
  /\ Outcomes \subseteq [taken : BOOLEAN, targetPc : Nat]

(* Fields the constructors leave uninitialised.                            *)
NoNumber  == -1
NoHistory == << >>

History == [1 .. historySize -> {0, 1}]
Indices == 0 .. 2 ^ indexBits - 1
Tables  == [History -> 0 .. 3]

(* The static configuration, read from the first line of the trace.        *)
Config == [fsmState : FsmStates, isGlobalHist : BOOLEAN,
           isGlobalTable : BOOLEAN, Shared : Shares]

VARIABLES
  config,
  entries,          \* BTB entries, by index
  global_BHR,       \* [bits, high]: high when bits beyond the mask are set
  global_table,
  update_counter, flush_counter,
  pending,          \* the prediction main holds between the two calls
  phase,            \* "running", "done", or "undefined" after a wild access
  startHistory, log \* the first global history and the branches so far:
                    \* history variables, for the properties only

vars == <<config, entries, global_BHR, global_table, update_counter,
          flush_counter, pending, phase, startHistory, log>>

Zeros       == [b \in 1 .. historySize |-> 0]
Bit(taken)  == IF taken THEN 1 ELSE 0
FreshTable(fsmState) == [h \in History |-> fsmState]

Init ==
  /\ config \in Config
  /\ entries = [n \in Indices |->
       [valid |-> FALSE, tag |-> NoNumber, target |-> NoNumber, local_BHR |-> NoHistory,
        local_table |-> FreshTable(config.fsmState)]]
  /\ global_BHR \in [bits : History, high : HighBits]
  /\ global_table = FreshTable(config.fsmState)
  /\ update_counter = 0
  /\ flush_counter = 0
  /\ pending = << >>
  /\ phase = "running"
  /\ startHistory = global_BHR.bits
  /\ log = << >>

(* BHR::update: shift the outcome in and mask.                             *)
Shifted(history, taken) ==
  [b \in 1 .. historySize |-> IF b = 1 THEN Bit(taken) ELSE history[b - 1]]

(* Faulty variant: the state is not capped at ST. *)
Bumped_NoCap(state, taken) == IF taken THEN state + 1 ELSE Max({state - 1, 0})

(* BimodalFSM_p::update. *)
Bumped(state, taken) == IF taken THEN Min({state + 1, 3}) ELSE Max({state - 1, 0})

getTag(pc)          == (pc \div 2 ^ (2 + indexBits)) % 2 ^ tagSize
getEntryByIndex(pc) == (pc \div 4) % 2 ^ indexBits

(* The historySize bits of pc that are mixed into an index.                *)
PcBits(pc) ==
  LET from == IF config.Shared = 1 THEN 2 ELSE 16
  IN  [b \in 1 .. historySize |-> (pc \div 2 ^ (from + b - 1)) % 2]

getSharedHistory(history, pc) ==
  IF config.Shared = 0 THEN history
  ELSE [b \in 1 .. historySize |-> (history[b] + PcBits(pc)[b]) % 2]

Hit(pc) == LET e == entries[getEntryByIndex(pc)] IN e.valid /\ e.tag = getTag(pc)

CurrentHistory(entry) == IF config.isGlobalHist THEN global_BHR.bits ELSE entry.local_BHR

(* The counter that predicts pc, when its entry is present.                *)
Counter(pc) ==
  LET entry == entries[getEntryByIndex(pc)]
      hist  == CurrentHistory(entry)
  IN  IF config.isGlobalTable THEN global_table[getSharedHistory(hist, pc)]
      ELSE entry.local_table[hist]

Prediction(pc) ==
  IF Hit(pc) /\ Counter(pc) >= 2
  THEN [taken |-> TRUE, dst |-> entries[getEntryByIndex(pc)].target]
  ELSE [taken |-> FALSE, dst |-> pc + 4]

BP_predict(pc) ==
  /\ phase = "running"
  /\ pending = << >>
  /\ Len(log) < MaxBranches
  /\ pending' = <<pc, Prediction(pc)>>
  /\ UNCHANGED <<config, entries, global_BHR, global_table, update_counter,
                 flush_counter, phase, startHistory, log>>

(* Faulty variant: an entry is replaced without clearing its table. *)
EntryForUpdate_KeepsTable(pc, targetPc) ==
  LET old == entries[getEntryByIndex(pc)]
  IN  [valid       |-> TRUE,
       tag         |-> getTag(pc),
       target      |-> targetPc,
       local_BHR   |-> IF Hit(pc) THEN old.local_BHR ELSE Zeros,
       local_table |-> old.local_table]

(* The entry update() works on: reset unless it holds this branch.         *)
EntryForUpdate(pc, targetPc) ==
  LET old == entries[getEntryByIndex(pc)]
  IN  [valid       |-> TRUE,
       tag         |-> getTag(pc),
       target      |-> targetPc,
       local_BHR   |-> IF Hit(pc) THEN old.local_BHR ELSE Zeros,
       local_table |-> IF Hit(pc) THEN old.local_table ELSE FreshTable(config.fsmState)]

(* Faulty variant: the local tables of all entries are one table. *)
StoreEntry_OneTable(n, entry) ==
  [k \in Indices |-> IF k = n THEN entry
                     ELSE [entries[k] EXCEPT !.local_table = entry.local_table]]

StoreEntry(n, entry) == [entries EXCEPT ![n] = entry]

(* Faulty variant: only a taken branch can be mispredicted. *)
Flushes_TakenOnly(pc, targetPc, taken, pred_dst) == taken /\ targetPc # pred_dst

Flushes(pc, targetPc, taken, pred_dst) ==
  \/ taken /\ targetPc # pred_dst
  \/ ~taken /\ pred_dst # pc + 4

(* The tables are indexed by a global history not masked yet: the access   *)
(* is outside them and what follows is undefined.                          *)
WildAccess == config.isGlobalHist /\ global_BHR.high

UpdateOutOfTable ==
  /\ phase = "running"
  /\ pending # << >>
  /\ WildAccess
  /\ phase' = "undefined"
  /\ UNCHANGED <<config, entries, global_BHR, global_table, update_counter,
                 flush_counter, pending, startHistory, log>>

(* Faulty variant: the histories are shifted before the tables are used. *)
BP_update_ShiftFirst(targetPc, taken) ==
  /\ phase = "running"
  /\ pending # << >>
  /\ ~WildAccess
  /\ LET pc    == pending[1]
         entry == EntryForUpdate(pc, targetPc)
         hist  == Shifted(CurrentHistory(entry), taken)
         key   == getSharedHistory(hist, pc)
     IN  /\ entries' = StoreEntry(getEntryByIndex(pc),
              [entry EXCEPT !.local_BHR = Shifted(@, taken),
                            !.local_table[hist] = Bumped(@, taken)])
         /\ global_table' = [global_table EXCEPT ![key] = Bumped(@, taken)]
         /\ flush_counter' =
              IF Flushes(pc, targetPc, taken, pending[2].dst)
              THEN flush_counter + 1 ELSE flush_counter
         /\ log' = Append(log, [pc |-> pc, targetPc |-> targetPc, taken |-> taken])
  /\ update_counter' = update_counter + 1
  /\ global_BHR' = [bits |-> Shifted(global_BHR.bits, taken), high |-> FALSE]
  /\ pending' = << >>
  /\ UNCHANGED <<config, phase, startHistory>>

BP_update(targetPc, taken) ==
  /\ phase = "running"
  /\ pending # << >>
  /\ ~WildAccess
  /\ LET pc    == pending[1]
         entry == EntryForUpdate(pc, targetPc)
         hist  == CurrentHistory(entry)
         key   == getSharedHistory(hist, pc)
     IN  /\ entries' = StoreEntry(getEntryByIndex(pc),
              [entry EXCEPT !.local_BHR = Shifted(@, taken),
                            !.local_table[hist] = Bumped(@, taken)])
         /\ global_table' = [global_table EXCEPT ![key] = Bumped(@, taken)]
         /\ flush_counter' =
              IF Flushes(pc, targetPc, taken, pending[2].dst)
              THEN flush_counter + 1 ELSE flush_counter
         /\ log' = Append(log, [pc |-> pc, targetPc |-> targetPc, taken |-> taken])
  /\ update_counter' = update_counter + 1
  /\ global_BHR' = [bits |-> Shifted(global_BHR.bits, taken), high |-> FALSE]
  /\ pending' = << >>
  /\ UNCHANGED <<config, phase, startHistory>>

(* main reads the statistics once, which deletes the predictor.            *)
BP_GetStats ==
  /\ phase = "running"
  /\ pending = << >>
  /\ phase' = "done"
  /\ UNCHANGED <<config, entries, global_BHR, global_table, update_counter,
                 flush_counter, pending, startHistory, log>>

Next ==
  \/ \E pc \in PCs : BP_predict(pc)
  \/ \E o \in Outcomes : BP_update(o.targetPc, o.taken)
  \/ UpdateOutOfTable
  \/ BP_GetStats

Spec == Init /\ [][Next]_vars
-----------------------------------------------------------------------------
(* Every field of a valid entry has been initialised.                      *)
TypeOK ==
  /\ config \in Config
  /\ entries \in [Indices -> [valid : BOOLEAN,
                              tag : NoNumber .. 2 ^ tagSize - 1,
                              target : Nat \cup {NoNumber},
                              local_BHR : History \cup {NoHistory},
                              local_table : Tables]]
  /\ \A n \in Indices : entries[n].valid =>
       /\ NoNumber \notin {entries[n].tag, entries[n].target}
       /\ entries[n].local_BHR # NoHistory
  /\ global_BHR \in [bits : History, high : BOOLEAN]
  /\ global_table \in Tables
  /\ update_counter \in Nat
  /\ flush_counter \in 0 .. update_counter
  /\ pending \in {<< >>} \cup (PCs \X [taken : BOOLEAN, dst : Nat])
  /\ phase \in {"running", "done", "undefined"}

(* A reference predictor that keeps no table: it looks back through the    *)
(* log.  p is the position of the branch in the trace.                     *)
SameEntry(q, pc) == getEntryByIndex(log[q].pc) = getEntryByIndex(pc)
Evictions(p, pc) == {q \in 1 .. p - 1 : SameEntry(q, pc) /\ getTag(log[q].pc) # getTag(pc)}

(* The updates since pc's entry last changed hands.                        *)
Resident(p, pc) ==
  {q \in 1 .. p - 1 : SameEntry(q, pc) /\ \A e \in Evictions(p, pc) : q > e}

(* The newest historySize outcomes of the branches in S, then those of old.*)
Newest(S, old) ==
  LET nth(b) == CHOOSE q \in S : Cardinality({r \in S : r >= q}) = b
  IN  [b \in 1 .. historySize |->
        IF b <= Cardinality(S) THEN Bit(log[nth(b)].taken) ELSE old[b - Cardinality(S)]]

KeyAt(p, pc) ==
  LET hist == IF config.isGlobalHist THEN Newest(1 .. p - 1, startHistory)
              ELSE Newest(Resident(p, pc), Zeros)
  IN  IF config.isGlobalTable THEN getSharedHistory(hist, pc) ELSE hist

(* The earlier branches that trained the counter that predicts pc.         *)
Trainers(p, pc) ==
  {q \in IF config.isGlobalTable THEN 1 .. p - 1 ELSE Resident(p, pc) :
     KeyAt(q, log[q].pc) = KeyAt(p, pc)}

(* A counter of two bits after the first n branches, if those in T train it. *)
Trained(T, n) ==
  LET c[q \in 0 .. n] ==
        IF q = 0 THEN config.fsmState
        ELSE LET before == c[q - 1]
             IN  CASE q \in T /\ log[q].taken /\ before < 3  -> before + 1
                   [] q \in T /\ ~log[q].taken /\ before > 0 -> before - 1
                   [] OTHER                                  -> before
  IN  c[n]

CounterAt(p, pc) == Trained(Trainers(p, pc), p - 1)

PredictionAt(p, pc) ==
  IF Resident(p, pc) # {} /\ CounterAt(p, pc) >= 2
  THEN [taken |-> TRUE, dst |-> log[Max(Resident(p, pc))].targetPc]
  ELSE [taken |-> FALSE, dst |-> pc + 4]

(* Every prediction is the one the whole trace so far calls for: aliased   *)
(* branches, evictions, shared histories and shared tables train exactly   *)
(* the counters they should (bp.cpp:352-433).                              *)
PredictionExact ==
  pending # << >> => pending[2] = PredictionAt(Len(log) + 1, pending[1])

(* The flush counter counts the branches after which the reference would   *)
(* have fetched from the wrong address, whether wrong in direction or only *)
(* in target (bp.cpp:356-362, 455-456).                                    *)
FlushesExact ==
  /\ update_counter = Len(log)
  /\ flush_counter = Cardinality({p \in 1 .. Len(log) :
       PredictionAt(p, log[p].pc).dst #
         IF log[p].taken THEN log[p].targetPc ELSE log[p].pc + 4})

(* With local histories and local tables, a branch changes no prediction   *)
(* but those of branches that share its BTB entry.                         *)
EntriesIndependent ==
  [][~config.isGlobalHist /\ ~config.isGlobalTable =>
       \A pc \in PCs : Prediction(pc)' # Prediction(pc) =>
         pending # << >> /\ getEntryByIndex(pc) = getEntryByIndex(pending[1])]_vars

(* "Mask for keeping history in correct size" (bp.cpp:164): the history is *)
(* always an index of the tables.                                          *)
HistoryIndexesTable == phase # "undefined"
=============================================================================
