------------------------- MODULE BranchPredictor_proofs -------------------------
(***************************************************************************)
(* Theorems about the branch predictor, for every size of its table, of    *)
(* the histories and of the tags, every configuration and every trace.     *)
(*                                                                         *)
(* Types and the independence of entries come first.  Then the reference   *)
(* of PredictionExact: what it says of the branches so far does not change *)
(* when one is added, and how the residents of an entry, the newest        *)
(* outcomes and a counter go on with that one.  The invariant BPInv says   *)
(* that the predictor holds what the reference computes.                   *)
(***************************************************************************)
EXTENDS BranchPredictor, Induction_proofs, TLAPS

(* The powers of two the code shifts by are positive.                      *)
LEMMA Powers ==
  /\ 2 ^ indexBits \in Nat \ {0}
  /\ 2 ^ (2 + indexBits) \in Nat \ {0}
  /\ 2 ^ tagSize \in Nat \ {0}
<1>1. /\ indexBits \in 0 .. 16 + indexBits + historySize + tagSize
      /\ 2 + indexBits \in 0 .. 16 + indexBits + historySize + tagSize
      /\ tagSize \in 0 .. 16 + indexBits + historySize + tagSize
  BY SizesAssumption
<1>2. 2 ^ indexBits > 0 /\ 2 ^ (2 + indexBits) > 0 /\ 2 ^ tagSize > 0
  BY <1>1, PowersAssumption
<1>3. 2 ^ indexBits \in Int /\ 2 ^ (2 + indexBits) \in Int /\ 2 ^ tagSize \in Int
  BY SizesAssumption
<1> QED
  BY <1>2, <1>3

LEMMA BitPowers ==
  ASSUME NEW from \in {2, 16}, NEW b \in 1 .. historySize
  PROVE  2 ^ (from + b - 1) \in Nat \ {0}
<1>1. from + b - 1 \in 0 .. 16 + indexBits + historySize + tagSize
  BY SizesAssumption
<1>2. 2 ^ (from + b - 1) > 0
  BY <1>1, PowersAssumption
<1>3. 2 ^ (from + b - 1) \in Int
  BY <1>1
<1> QED
  BY <1>2, <1>3

(* Remainders and quotients of addresses.                                  *)
LEMMA ModType == ASSUME NEW a \in Int, NEW n \in Nat \ {0} PROVE a % n \in 0 .. n - 1
  OBVIOUS

LEMMA DivType == ASSUME NEW a \in Nat, NEW n \in Nat \ {0} PROVE a \div n \in Nat
  OBVIOUS

(* An address selects an entry, and its tag is one the entry can hold.     *)
LEMMA IndexType == ASSUME NEW pc \in Nat PROVE getEntryByIndex(pc) \in Indices
<1>1. PICK n \in Nat \ {0} : n = 2 ^ indexBits
  BY Powers
<1>2. (pc \div 4) % n \in 0 .. n - 1
  BY DivType, ModType
<1> QED
  BY <1>1, <1>2 DEF getEntryByIndex, Indices

LEMMA TagType == ASSUME NEW pc \in Nat PROVE getTag(pc) \in 0 .. 2 ^ tagSize - 1
<1>1. PICK m \in Nat \ {0} : m = 2 ^ (2 + indexBits)
  BY Powers
<1>2. PICK n \in Nat \ {0} : n = 2 ^ tagSize
  BY Powers
<1>3. (pc \div m) % n \in 0 .. n - 1
  BY DivType, ModType
<1> QED
  BY <1>1, <1>2, <1>3 DEF getTag

(* A history stays one when it is shifted or mixed with an address.        *)
LEMMA ZerosType == Zeros \in History
  BY DEF Zeros, History

LEMMA ShiftedType ==
  ASSUME NEW h \in History, NEW taken \in BOOLEAN
  PROVE  Shifted(h, taken) \in History
<1>1. ASSUME NEW b \in 1 .. historySize
      PROVE  (IF b = 1 THEN Bit(taken) ELSE h[b - 1]) \in {0, 1}
  <2>1. Bit(taken) \in {0, 1}
    BY DEF Bit
  <2>2. b # 1 => b - 1 \in 1 .. historySize
    BY SizesAssumption
  <2>3. b # 1 => h[b - 1] \in {0, 1}
    BY <2>2 DEF History
  <2> QED
    BY <2>1, <2>3
<1> QED
  BY <1>1 DEF Shifted, History

LEMMA SharedType ==
  ASSUME NEW h \in History, NEW pc \in Nat
  PROVE  getSharedHistory(h, pc) \in History
<1>1. ASSUME NEW b \in 1 .. historySize PROVE PcBits(pc)[b] \in {0, 1}
  <2> DEFINE from == IF config.Shared = 1 THEN 2 ELSE 16
  <2>1. from \in {2, 16}
    OBVIOUS
  <2>2. 2 ^ (from + b - 1) \in Nat \ {0}
    BY <2>1, BitPowers
  <2>3. pc \div 2 ^ (from + b - 1) \in Nat
    BY <2>2, DivType
  <2>4. PcBits(pc)[b] = (pc \div 2 ^ (from + b - 1)) % 2
    BY DEF PcBits
  <2> HIDE DEF from
  <2> QED
    BY <2>3, <2>4
<1>2. ASSUME NEW b \in 1 .. historySize PROVE (h[b] + PcBits(pc)[b]) % 2 \in {0, 1}
  <2>1. h[b] \in {0, 1}
    BY DEF History
  <2> QED
    BY <1>1, <2>1
<1> QED
  BY <1>2 DEF getSharedHistory, History

LEMMA NotNoHistory == ASSUME NEW h \in History PROVE h # NoHistory
<1>1. 1 \in DOMAIN h /\ 1 \notin DOMAIN NoHistory
  BY SizesAssumption DEF History, NoHistory
<1> QED
  BY <1>1

LEMMA BumpedType ==
  ASSUME NEW c \in 0 .. 3, NEW taken \in BOOLEAN
  PROVE  Bumped(c, taken) \in 0 .. 3
<1>1. Min({c + 1, 3}) \in 0 .. 3
  BY DEF Min
<1>2. Max({c - 1, 0}) \in 0 .. 3
  BY DEF Max
<1> QED
  BY <1>1, <1>2 DEF Bumped
-----------------------------------------------------------------------------
Entry == [valid : BOOLEAN, tag : NoNumber .. 2 ^ tagSize - 1,
          target : Nat \cup {NoNumber}, local_BHR : History \cup {NoHistory},
          local_table : Tables]

(* An entry whose fields have been initialised. *)
Initialised(e) ==
  /\ NoNumber \notin {e.tag, e.target}
  /\ e.local_BHR # NoHistory

LEMMA FreshTableType == ASSUME NEW c \in 0 .. 3 PROVE FreshTable(c) \in Tables
  BY DEF FreshTable, Tables

LEMMA InitType == Init => TypeOK
<1> SUFFICES ASSUME Init PROVE TypeOK
  OBVIOUS
<1>1. config \in Config /\ config.fsmState \in 0 .. 3
  BY ConfigAssumption DEF Init, Config
<1>2. FreshTable(config.fsmState) \in Tables
  BY <1>1, FreshTableType
<1>3. NoNumber \in NoNumber .. 2 ^ tagSize - 1
  <2>1. PICK n \in Nat \ {0} : n = 2 ^ tagSize
    BY Powers
  <2> QED
    BY <2>1 DEF NoNumber
<1>4. [valid |-> FALSE, tag |-> NoNumber, target |-> NoNumber, local_BHR |-> NoHistory,
       local_table |-> FreshTable(config.fsmState)] \in Entry
  BY <1>2, <1>3 DEF Entry
<1>5. entries \in [Indices -> Entry] /\ \A n \in Indices : ~entries[n].valid
  BY <1>4 DEF Init
<1>6. global_BHR \in [bits : History, high : BOOLEAN]
  BY ConfigAssumption DEF Init
<1> QED
  BY <1>1, <1>2, <1>5, <1>6 DEF Init, TypeOK, Entry

(* A prediction is an address: only an initialised target is predicted.    *)
LEMMA PredictionType ==
  ASSUME TypeOK, NEW pc \in PCs
  PROVE  Prediction(pc) \in [taken : BOOLEAN, dst : Nat]
<1> DEFINE e == entries[getEntryByIndex(pc)]
<1>1. pc \in Nat
  BY TraceAssumption
<1>2. Hit(pc) => e.target \in Nat
  <2>1. getEntryByIndex(pc) \in Indices
    BY <1>1, IndexType
  <2>2. e \in Entry /\ (e.valid => e.target # NoNumber)
    BY <2>1 DEF TypeOK, Entry
  <2> QED
    BY <2>2 DEF Hit, Entry
<1> HIDE DEF e
<1> QED
  BY <1>1, <1>2 DEF Prediction, e

(* What update() works on is initialised, whether it was there or not, and *)
(* so is what it stores.                                                   *)
LEMMA EntryForUpdateType ==
  ASSUME TypeOK, NEW pc \in Nat, NEW targetPc \in Nat
  PROVE  /\ EntryForUpdate(pc, targetPc) \in Entry
         /\ Initialised(EntryForUpdate(pc, targetPc))
         /\ EntryForUpdate(pc, targetPc).local_BHR \in History
         /\ EntryForUpdate(pc, targetPc).valid
<1> DEFINE old == entries[getEntryByIndex(pc)]
           new == EntryForUpdate(pc, targetPc)
<1>1. old \in Entry /\ (old.valid => Initialised(old))
  BY IndexType DEF TypeOK, Entry, Initialised
<1>2. getTag(pc) \in NoNumber .. 2 ^ tagSize - 1 /\ getTag(pc) # NoNumber
  <2>1. PICK n \in Nat \ {0} : n = 2 ^ tagSize
    BY Powers
  <2>2. getTag(pc) \in 0 .. n - 1
    BY <2>1, TagType
  <2> QED
    BY <2>1, <2>2 DEF NoNumber
<1>3. FreshTable(config.fsmState) \in Tables
  <2>1. config.fsmState \in 0 .. 3
    BY ConfigAssumption DEF TypeOK, Config
  <2> QED
    BY <2>1, FreshTableType
<1>4. new.local_BHR \in History
  <2>1. CASE Hit(pc)
    BY <1>1, <2>1 DEF EntryForUpdate, Hit, Initialised, Entry
  <2>2. CASE ~Hit(pc)
    BY <2>2, ZerosType DEF EntryForUpdate
  <2> QED
    BY <2>1, <2>2
<1>5. new.local_table \in Tables
  BY <1>1, <1>3 DEF EntryForUpdate, Entry
<1>6. targetPc # NoNumber
  BY DEF NoNumber
<1> QED
  BY <1>2, <1>4, <1>5, <1>6, NotNoHistory DEF EntryForUpdate, Entry, Initialised

LEMMA UpdateType ==
  ASSUME TypeOK, NEW targetPc \in Nat, NEW taken \in BOOLEAN, BP_update(targetPc, taken)
  PROVE  TypeOK'
<1> DEFINE pc    == pending[1]
           entry == EntryForUpdate(pc, targetPc)
           hist  == CurrentHistory(entry)
           key   == getSharedHistory(hist, pc)
           new   == [entry EXCEPT !.local_BHR = Shifted(@, taken),
                                  !.local_table[hist] = Bumped(@, taken)]
<1>1. pc \in Nat
  BY TraceAssumption DEF TypeOK, BP_update
<1>2. /\ entry \in Entry /\ Initialised(entry) /\ entry.local_BHR \in History
      /\ entry.valid
  BY <1>1, EntryForUpdateType
<1>3. global_BHR.bits \in History
  BY DEF TypeOK
<1>4. hist \in History
  BY <1>2, <1>3 DEF CurrentHistory
<1>5. key \in History
  BY <1>1, <1>4, SharedType
<1> HIDE DEF entry, hist, key
<1>6. Shifted(entry.local_BHR, taken) \in History
  BY <1>2, ShiftedType
<1>7. [entry.local_table EXCEPT ![hist] = Bumped(@, taken)] \in Tables
  <2>1. entry.local_table \in Tables
    BY <1>2 DEF Entry
  <2>2. Bumped(entry.local_table[hist], taken) \in 0 .. 3
    BY <1>4, <2>1, BumpedType DEF Tables
  <2> QED
    BY <2>1, <2>2 DEF Tables
<1>8. new \in Entry /\ Initialised(new) /\ new.valid
  <2>1. new = [entry EXCEPT !.local_BHR = Shifted(entry.local_BHR, taken),
                            !.local_table = [entry.local_table EXCEPT ![hist] = Bumped(@, taken)]]
    BY <1>2 DEF Entry
  <2>2. Shifted(entry.local_BHR, taken) # NoHistory
    BY <1>6, NotNoHistory
  <2> QED
    BY <1>2, <1>6, <1>7, <2>1, <2>2 DEF Entry, Initialised
<1>9. entries' = [entries EXCEPT ![getEntryByIndex(pc)] = new]
  BY DEF BP_update, StoreEntry, entry, hist
<1> HIDE DEF new
<1>10. /\ entries' \in [Indices -> Entry]
       /\ \A n \in Indices : entries'[n].valid => Initialised(entries'[n])
  BY <1>1, <1>8, <1>9, IndexType DEF TypeOK, Entry, Initialised
<1>11. global_table' \in Tables
  <2>1. global_table' = [global_table EXCEPT ![key] = Bumped(@, taken)]
    BY DEF BP_update, entry, hist, key
  <2>2. Bumped(global_table[key], taken) \in 0 .. 3
    BY <1>5, BumpedType DEF TypeOK, Tables
  <2> QED
    BY <2>1, <2>2 DEF TypeOK, Tables
<1>12. global_BHR' \in [bits : History, high : BOOLEAN]
  BY <1>3, ShiftedType DEF BP_update
<1>13. update_counter' \in Nat /\ flush_counter' \in 0 .. update_counter'
  <2>1. flush_counter' \in {flush_counter, flush_counter + 1}
    BY DEF BP_update
  <2> QED
    BY <2>1 DEF BP_update, TypeOK
<1>14. /\ config' = config /\ phase' = phase /\ pending' = << >>
  BY DEF BP_update
<1> QED
  BY <1>10, <1>11, <1>12, <1>13, <1>14 DEF TypeOK, Entry, Initialised

LEMMA TypeStep == TypeOK /\ [Next]_vars => TypeOK'
<1> SUFFICES ASSUME TypeOK, [Next]_vars PROVE TypeOK'
  OBVIOUS
<1>1. ASSUME NEW pc \in PCs, BP_predict(pc) PROVE TypeOK'
  <2>1. pending' \in PCs \X [taken : BOOLEAN, dst : Nat]
    BY <1>1, PredictionType DEF BP_predict
  <2> QED
    BY <1>1, <2>1 DEF BP_predict, TypeOK
<1>2. ASSUME NEW o \in Outcomes, BP_update(o.targetPc, o.taken) PROVE TypeOK'
  <2>1. o.targetPc \in Nat /\ o.taken \in BOOLEAN
    BY TraceAssumption
  <2> QED
    BY <1>2, <2>1, UpdateType
<1>3. CASE UpdateOutOfTable
  BY <1>3 DEF UpdateOutOfTable, TypeOK
<1>4. CASE BP_GetStats
  BY <1>4 DEF BP_GetStats, TypeOK
<1>5. CASE UNCHANGED vars
  BY <1>5 DEF vars, TypeOK
<1> QED
  BY <1>1, <1>2, <1>3, <1>4, <1>5 DEF Next

(* Nothing uninitialised is ever used as a tag, a target or a history: an  *)
(* entry is valid only with all its fields set, however branches alias and *)
(* evict each other (bp.cpp:224-225, 369-378), and every counter stays in  *)
(* its four states.                                                        *)
THEOREM TypeCorrect == Spec => []TypeOK
<1> QED
  BY InitType, TypeStep, PTL DEF Spec
-----------------------------------------------------------------------------
(* With local histories and tables, updating one branch leaves every       *)
(* prediction made from another entry what it was.                         *)
THEOREM IndependenceCorrect == Spec => EntriesIndependent
<1> DEFINE A == ~config.isGlobalHist /\ ~config.isGlobalTable =>
                  \A pc \in PCs : Prediction(pc)' # Prediction(pc) =>
                    pending # << >> /\ getEntryByIndex(pc) = getEntryByIndex(pending[1])
<1>1. TypeOK /\ [Next]_vars => [A]_vars
  <2> SUFFICES ASSUME TypeOK, Next, ~config.isGlobalHist, ~config.isGlobalTable,
                      NEW pc \in PCs, Prediction(pc)' # Prediction(pc)
               PROVE  pending # << >> /\ getEntryByIndex(pc) = getEntryByIndex(pending[1])
    OBVIOUS
  <2> DEFINE n == getEntryByIndex(pc)
  <2>1. config' = config
    BY DEF Next, BP_predict, BP_update, UpdateOutOfTable, BP_GetStats
  <2>2. n \in Indices
    BY IndexType, TraceAssumption
  <2>3. entries'[n] # entries[n]
    <3> SUFFICES ASSUME entries'[n] = entries[n] PROVE FALSE
      OBVIOUS
    <3>1. Hit(pc)' <=> Hit(pc)
      BY DEF Hit, getEntryByIndex, getTag
    <3>2. Counter(pc)' = Counter(pc)
      BY <2>1 DEF Counter, CurrentHistory, getEntryByIndex
    <3> QED
      BY <3>1, <3>2 DEF Prediction, getEntryByIndex
  <2>4. ASSUME NEW o \in Outcomes, BP_update(o.targetPc, o.taken)
        PROVE  pending # << >> /\ n = getEntryByIndex(pending[1])
    BY <2>2, <2>3, <2>4 DEF BP_update, StoreEntry, TypeOK
  <2>5. \E o \in Outcomes : BP_update(o.targetPc, o.taken)
    BY <2>3 DEF Next, BP_predict, UpdateOutOfTable, BP_GetStats
  <2> QED
    BY <2>4, <2>5
<1> QED
  BY <1>1, TypeCorrect, PTL DEF Spec, EntriesIndependent
-----------------------------------------------------------------------------

(* What one outcome makes of a counter. *)
Step(c, taken) ==
  CASE taken /\ c < 3  -> c + 1
    [] ~taken /\ c > 0 -> c - 1
    [] OTHER           -> c

LEMMA StepIsBumped ==
  \A c \in 0 .. 3 : \A taken \in BOOLEAN :
    Bumped(c, taken) = Step(c, taken) /\ Step(c, taken) \in 0 .. 3
<1> SUFFICES ASSUME NEW c \in 0 .. 3, NEW taken \in BOOLEAN
             PROVE  Bumped(c, taken) = Step(c, taken) /\ Step(c, taken) \in 0 .. 3
  OBVIOUS
<1>1. Min({c + 1, 3}) = IF c < 3 THEN c + 1 ELSE 3
  <2> DEFINE m == IF c < 3 THEN c + 1 ELSE 3
  <2>1. m \in {c + 1, 3} /\ \A y \in {c + 1, 3} : m <= y /\ y \in Int
    OBVIOUS
  <2> QED
    BY <2>1 DEF Min
<1>2. Max({c - 1, 0}) = IF c > 0 THEN c - 1 ELSE 0
  <2> DEFINE m == IF c > 0 THEN c - 1 ELSE 0
  <2>1. m \in {c - 1, 0} /\ \A y \in {c - 1, 0} : m >= y /\ y \in Int
    OBVIOUS
  <2> QED
    BY <2>1 DEF Max
<1>3. CASE taken
  BY <1>1, <1>3 DEF Bumped, Step
<1>4. CASE ~taken
  BY <1>2, <1>4 DEF Bumped, Step
<1> QED
  BY <1>3, <1>4

(* The counter after each branch, up to the n-th. *)
Train(T, q, before) ==
  IF q = 0 THEN config.fsmState ELSE IF q \in T THEN Step(before, log[q].taken) ELSE before

Course(T, n) == CHOOSE c : c = [q \in 0 .. n |-> Train(T, q, c[q - 1])]

LEMMA TrainedIs == \A T, n : Trained(T, n) = Course(T, n)[n]
<1> SUFFICES ASSUME NEW T, NEW n PROVE Trained(T, n) = Course(T, n)[n]
  OBVIOUS
<1>1. ASSUME NEW c, NEW q
      PROVE  (IF q = 0 THEN config.fsmState
              ELSE LET before == c[q - 1]
                   IN  CASE q \in T /\ log[q].taken /\ before < 3  -> before + 1
                         [] q \in T /\ ~log[q].taken /\ before > 0 -> before - 1
                         [] OTHER                                  -> before)
             = Train(T, q, c[q - 1])
  <2>1. CASE q \in T
    BY <2>1, Zenon DEF Train, Step
  <2>2. CASE q \notin T
    BY <2>2, Zenon DEF Train, Step
  <2> QED
    BY <2>1, <2>2
<1>2. \A c : [q \in 0 .. n |->
                IF q = 0 THEN config.fsmState
                ELSE LET before == c[q - 1]
                     IN  CASE q \in T /\ log[q].taken /\ before < 3  -> before + 1
                           [] q \in T /\ ~log[q].taken /\ before > 0 -> before - 1
                           [] OTHER                                  -> before]
             = [q \in 0 .. n |-> Train(T, q, c[q - 1])]
  BY <1>1, Zenon
<1> QED
  BY <1>2, Zenon DEF Trained, Course

LEMMA CourseUnfold ==
  \A T : \A n \in Nat : \A q \in 0 .. n :
    Course(T, n)[q] = Train(T, q, Course(T, n)[q - 1])
<1> SUFFICES ASSUME NEW T PROVE \A n \in Nat : \A q \in 0 .. n :
                                  Course(T, n)[q] = Train(T, q, Course(T, n)[q - 1])
  OBVIOUS
<1> DEFINE S == {n \in Nat : \E c : c = [q \in 0 .. n |-> Train(T, q, c[q - 1])]}
<1>1. 0 \in S
  <2> DEFINE c == [q \in 0 .. 0 |-> config.fsmState]
  <2>1. \A q \in 0 .. 0 : Train(T, q, c[q - 1]) = config.fsmState
    BY DEF Train
  <2>2. c = [q \in 0 .. 0 |-> Train(T, q, c[q - 1])]
    BY <2>1, Zenon
  <2> HIDE DEF c
  <2>3. \E d : d = [q \in 0 .. 0 |-> Train(T, q, d[q - 1])]
    BY <2>2, Zenon
  <2> QED
    BY <2>3, Zenon, 0 \in Nat
<1>2. ASSUME NEW n \in Nat, n \in S PROVE n + 1 \in S
  <2>1. PICK c : c = [q \in 0 .. n |-> Train(T, q, c[q - 1])]
    BY <1>2
  <2> DEFINE K == 0 .. n + 1
             d == [q \in K |-> Train(T, q, c[q - 1])]
  <2>2. \A q \in 0 .. n : q \in K /\ c[q] = Train(T, q, c[q - 1])
    BY <2>1
  <2>3. \A q \in 0 .. n : d[q] = c[q]
    BY <2>2
  <2>4. \A q \in K : q # 0 => q - 1 \in 0 .. n
    OBVIOUS
  <2>5. \A q \in K : Train(T, q, c[q - 1]) = Train(T, q, d[q - 1])
    <3> HIDE DEF d
    <3> QED
      BY <2>3, <2>4 DEF Train
  <2>6. d = [q \in K |-> Train(T, q, d[q - 1])]
    BY <2>5, Zenon
  <2> HIDE DEF d
  <2>7. \E g : g = [q \in K |-> Train(T, q, g[q - 1])]
    BY <2>6, Zenon
  <2>8. n + 1 \in Nat
    OBVIOUS
  <2> QED
    BY <2>7, <2>8, Zenon
<1>3. Nat \subseteq S
  <2> HIDE DEF S
  <2> QED
    BY <1>1, <1>2, Induction
<1> TAKE n \in Nat
<1>4. \E c : c = [q \in 0 .. n |-> Train(T, q, c[q - 1])]
  BY <1>3
<1> HIDE DEF S
<1>5. Course(T, n) = [q \in 0 .. n |-> Train(T, q, Course(T, n)[q - 1])]
  BY <1>4, Zenon DEF Course
<1> QED
  BY <1>5

(* One branch after another. *)
LEMMA TrainedStep ==
  \A T : /\ Trained(T, 0) = config.fsmState
         /\ \A n \in Nat : Trained(T, n + 1) =
              IF n + 1 \in T THEN Step(Trained(T, n), log[n + 1].taken) ELSE Trained(T, n)
<1> SUFFICES ASSUME NEW T
             PROVE  /\ Trained(T, 0) = config.fsmState
                    /\ \A n \in Nat : Trained(T, n + 1) =
                         IF n + 1 \in T THEN Step(Trained(T, n), log[n + 1].taken) ELSE Trained(T, n)
  OBVIOUS
<1>1. Trained(T, 0) = config.fsmState
  <2>1. 0 \in Nat /\ 0 \in 0 .. 0
    OBVIOUS
  <2>2. Course(T, 0)[0] = Train(T, 0, Course(T, 0)[0 - 1])
    BY <2>1, CourseUnfold
  <2> QED
    BY <2>2, TrainedIs DEF Train
<1>2. ASSUME NEW n \in Nat
      PROVE  Trained(T, n + 1) =
               IF n + 1 \in T THEN Step(Trained(T, n), log[n + 1].taken) ELSE Trained(T, n)
  <2> DEFINE C == Course(T, n)
             D == Course(T, n + 1)
             S == {q \in 0 .. n : C[q] = D[q]}
  <2>0. n + 1 \in Nat
    OBVIOUS
  <2>1. /\ \A q \in 0 .. n : C[q] = Train(T, q, C[q - 1])
        /\ \A q \in 0 .. n + 1 : D[q] = Train(T, q, D[q - 1])
    BY <2>0, CourseUnfold
  <2> HIDE DEF C, D
  <2>2. ASSUME NEW q \in 0 .. (n + 1) - 1, \A m \in 0 .. q - 1 : m \in S PROVE q \in S
    <3>1. q \in 0 .. n /\ q \in 0 .. n + 1 /\ (q # 0 => q - 1 \in 0 .. q - 1)
      OBVIOUS
    <3> QED
      BY <2>1, <2>2, <3>1 DEF Train
  <2>3. 0 .. (n + 1) - 1 \subseteq S
    <3> HIDE DEF S
    <3> QED
      BY <2>0, <2>2, Upward
  <2>4. C[n] = D[n]
    BY <2>3
  <2>5. D[n + 1] = Train(T, n + 1, D[n])
    BY <2>1
  <2>6. Trained(T, n) = C[n] /\ Trained(T, n + 1) = D[n + 1]
    BY TrainedIs DEF C, D
  <2> QED
    BY <2>4, <2>5, <2>6 DEF Train
<1> QED
  BY <1>1, <1>2

(* The branches so far. *)
Branch == [pc : PCs, targetPc : Nat, taken : BOOLEAN]

LogOK ==
  /\ log \in Seq(Branch)
  /\ startHistory \in History
  /\ config \in Config

LEMMA LogFacts ==
  ASSUME LogOK
  PROVE  /\ Len(log) \in Nat /\ config.fsmState \in 0 .. 3
         /\ \A q \in 1 .. Len(log) : /\ log[q].pc \in PCs /\ log[q].pc \in Nat
                                     /\ log[q].targetPc \in Nat /\ log[q].taken \in BOOLEAN
<1>1. Len(log) \in Nat /\ \A q \in 1 .. Len(log) : log[q] \in Branch
  BY DEF LogOK
<1>2. config.fsmState \in 0 .. 3
  BY ConfigAssumption DEF LogOK, Config
<1>3. PCs \subseteq Nat
  BY TraceAssumption
<1> QED
  BY <1>1, <1>2, <1>3 DEF Branch

LEMMA TrainedType ==
  ASSUME LogOK
  PROVE  \A T : \A n \in 0 .. Len(log) : Trained(T, n) \in 0 .. 3
<1> SUFFICES ASSUME NEW T PROVE \A n \in 0 .. Len(log) : Trained(T, n) \in 0 .. 3
  OBVIOUS
<1> DEFINE S == {n \in Nat : Trained(T, n) \in 0 .. 3}
<1>1. 0 \in S
  BY LogFacts, TrainedStep
<1>2. ASSUME NEW n \in 0 .. Len(log) - 1, n \in S PROVE n + 1 \in S
  <2>1. n \in Nat /\ n + 1 \in Nat /\ n + 1 \in 1 .. Len(log)
    BY LogFacts
  <2>2. Step(Trained(T, n), log[n + 1].taken) \in 0 .. 3
    BY <1>2, <2>1, LogFacts, StepIsBumped
  <2>3. Trained(T, n + 1) \in 0 .. 3
    BY <1>2, <2>1, <2>2, TrainedStep
  <2> QED
    BY <2>1, <2>3
<1>3. Len(log) \in Nat
  BY LogFacts
<1>4. 0 .. Len(log) \subseteq S
  <2> HIDE DEF S
  <2> QED
    BY <1>1, <1>2, <1>3, InductionTo
<1> QED
  BY <1>4

(* Only the branches up to the n-th count. *)
LEMMA TrainedSame ==
  \A T, U : \A n \in Nat :
    (\A q \in 1 .. n : q \in T <=> q \in U) => Trained(T, n) = Trained(U, n)
<1> SUFFICES ASSUME NEW T, NEW U, NEW n \in Nat, \A q \in 1 .. n : q \in T <=> q \in U
             PROVE  Trained(T, n) = Trained(U, n)
  OBVIOUS
<1> DEFINE S == {m \in Nat : Trained(T, m) = Trained(U, m)}
<1>1. 0 \in S
  BY TrainedStep
<1>2. ASSUME NEW m \in 0 .. n - 1, m \in S PROVE m + 1 \in S
  <2>1. m \in Nat /\ m + 1 \in Nat /\ m + 1 \in 1 .. n
    OBVIOUS
  <2>2. Trained(T, m + 1) = Trained(U, m + 1)
    BY <1>2, <2>1, TrainedStep
  <2> QED
    BY <2>1, <2>2
<1>3. 0 .. n \subseteq S
  <2> HIDE DEF S
  <2> QED
    BY <1>1, <1>2, InductionTo
<1> QED
  BY <1>3

(* A branch added to the log is not among those before it. *)
Extended ==
  /\ LogOK
  /\ UNCHANGED <<config, startHistory>>
  /\ \A q \in 1 .. Len(log) : log'[q] = log[q]

Stepwise ==
  \A T : /\ Trained(T, 0) = config.fsmState
         /\ \A n \in Nat : Trained(T, n + 1) =
              IF n + 1 \in T THEN Step(Trained(T, n), log[n + 1].taken) ELSE Trained(T, n)

LEMMA StepwiseHolds == Stepwise
  BY TrainedStep DEF Stepwise

LEMMA TrainedKept ==
  ASSUME Extended
  PROVE  \A T : \A n \in 0 .. Len(log) : Trained(T, n)' = Trained(T, n)
<1> SUFFICES ASSUME NEW T
             PROVE  \A n \in 0 .. Len(log) : Trained(T, n)' = Trained(T, n)
  OBVIOUS
<1> DEFINE S == {n \in Nat : Trained(T, n)' = Trained(T, n)}
<1>0. Len(log) \in Nat
  BY LogFacts DEF Extended
<1>1. /\ Trained(T, 0)' = config.fsmState'
      /\ \A n \in Nat : Trained(T, n + 1)' =
           IF n + 1 \in T THEN Step(Trained(T, n)', log[n + 1].taken') ELSE Trained(T, n)'
  <2>1. Stepwise'
    BY StepwiseHolds, PTL
  <2> QED
    BY <2>1 DEF Stepwise
<1>2. 0 \in S
  BY <1>1, TrainedStep DEF Extended
<1>3. ASSUME NEW n \in 0 .. Len(log) - 1, n \in S PROVE n + 1 \in S
  <2>1. n \in Nat /\ n + 1 \in Nat /\ n + 1 \in 1 .. Len(log)
    BY <1>0
  <2>2. log[n + 1].taken' = log[n + 1].taken
    BY <2>1 DEF Extended
  <2>3. Trained(T, n + 1)' = Trained(T, n + 1)
    BY <1>1, <1>3, <2>1, <2>2, TrainedStep
  <2> QED
    BY <2>1, <2>3
<1>4. 0 .. Len(log) \subseteq S
  <2> HIDE DEF S
  <2> QED
    BY <1>0, <1>2, <1>3, InductionTo
<1> QED
  BY <1>4
-----------------------------------------------------------------------------
(* How many of S are at least q; the b-th of S from the last. *)
Rank(S, q) == Cardinality({r \in S : r >= q})
Nth(S, b)  == CHOOSE q \in S : Rank(S, q) = b

LEMMA NewestIs ==
  \A S, old : Newest(S, old) =
    [b \in 1 .. historySize |->
      IF b <= Cardinality(S) THEN Bit(log[Nth(S, b)].taken) ELSE old[b - Cardinality(S)]]
  BY Zenon DEF Newest, Nth, Rank

(* Each place in the order is taken by one element. *)
Ordered(S) ==
  /\ IsFiniteSet(S)
  /\ \A q \in S : Rank(S, q) \in 1 .. Cardinality(S)
  /\ \A b \in 1 .. Cardinality(S) : \E q \in S : Rank(S, q) = b
  /\ \A q, r \in S : Rank(S, q) = Rank(S, r) => q = r

Later(S, n) == \A q \in S : q \in Nat /\ q < n

LEMMA RankAdd ==
  ASSUME NEW n \in Nat, NEW S, Later(S, n), IsFiniteSet(S)
  PROVE  /\ Rank(S \cup {n}, n) = 1
         /\ \A q \in S : Rank(S \cup {n}, q) = Rank(S, q) + 1
         /\ Cardinality(S \cup {n}) = Cardinality(S) + 1
<1>1. n \notin S
  BY DEF Later
<1>2. {r \in S \cup {n} : r >= n} = {n}
  BY DEF Later
<1>3. Rank(S \cup {n}, n) = 1
  BY <1>2, FS_Singleton DEF Rank
<1>4. ASSUME NEW q \in S PROVE Rank(S \cup {n}, q) = Rank(S, q) + 1
  <2> DEFINE A == {r \in S : r >= q}
  <2>1. {r \in S \cup {n} : r >= q} = A \cup {n}
    BY DEF Later
  <2>2. IsFiniteSet(A) /\ n \notin A
    <3>1. A \subseteq S
      OBVIOUS
    <3> QED
      BY <1>1, <3>1, FS_Subset
  <2> HIDE DEF A
  <2>3. Cardinality(A \cup {n}) = Cardinality(A) + 1
    BY <2>2, FS_AddElement
  <2> QED
    BY <2>1, <2>3 DEF Rank, A
<1>5. Cardinality(S \cup {n}) = Cardinality(S) + 1
  BY <1>1, FS_AddElement
<1> QED
  BY <1>3, <1>4, <1>5

LEMMA OrderedAdd ==
  ASSUME NEW n \in Nat, NEW S, Later(S, n), Ordered(S)
  PROVE  Ordered(S \cup {n})
<1> DEFINE T == S \cup {n}
<1>1. /\ Rank(T, n) = 1
      /\ \A q \in S : Rank(T, q) = Rank(S, q) + 1
      /\ Cardinality(T) = Cardinality(S) + 1
  BY RankAdd DEF Ordered
<1>2. IsFiniteSet(T) /\ Cardinality(S) \in Nat
  BY FS_AddElement, FS_CardinalityType DEF Ordered
<1>3. \A q \in S : Rank(S, q) \in 1 .. Cardinality(S)
  BY DEF Ordered
<1>4. \A q \in T : q = n \/ q \in S
  OBVIOUS
<1>5. ASSUME NEW q \in T PROVE Rank(T, q) \in 1 .. Cardinality(T)
  <2>1. CASE q = n
    BY <1>1, <1>2, <2>1
  <2>2. CASE q \in S
    <3>1. Rank(T, q) = Rank(S, q) + 1 /\ Rank(S, q) \in 1 .. Cardinality(S)
      BY <1>1, <1>3, <2>2
    <3> HIDE DEF T
    <3> QED
      BY <1>1, <1>2, <3>1
  <2> QED
    BY <1>4, <2>1, <2>2
<1>6. ASSUME NEW b \in 1 .. Cardinality(T) PROVE \E q \in T : Rank(T, q) = b
  <2>1. CASE b = 1
    BY <1>1, <2>1
  <2>2. CASE b # 1
    <3>1. b - 1 \in 1 .. Cardinality(S)
      BY <1>1, <1>2, <2>2
    <3>2. PICK q \in S : Rank(S, q) = b - 1
      BY <3>1 DEF Ordered
    <3> QED
      BY <1>1, <3>2
  <2> QED
    BY <2>1, <2>2
<1>7. ASSUME NEW q \in T, NEW r \in T, Rank(T, q) = Rank(T, r) PROVE q = r
  <2>1. CASE q \in S /\ r \in S
    <3>1. Rank(S, q) = Rank(S, r)
      BY <1>1, <1>3, <1>7, <2>1
    <3> QED
      BY <2>1, <3>1 DEF Ordered
  <2>2. CASE q = n /\ r \in S
    BY <1>1, <1>3, <1>7, <2>2
  <2>3. CASE q \in S /\ r = n
    BY <1>1, <1>3, <1>7, <2>3
  <2> QED
    BY <1>4, <2>1, <2>2, <2>3
<1> QED
  BY <1>2, <1>5, <1>6, <1>7 DEF Ordered

LEMMA OrderedPast == \A n \in Nat : \A S : S \subseteq 1 .. n => Ordered(S)
<1> DEFINE P == {n \in Nat : \A S : S \subseteq 1 .. n => Ordered(S)}
<1>1. 0 \in P
  <2>1. Ordered({})
    <3>1. IsFiniteSet({}) /\ Cardinality({}) = 0
      BY FS_EmptySet
    <3> QED
      BY <3>1 DEF Ordered
  <2>2. \A S : S \subseteq 1 .. 0 => S = {}
    OBVIOUS
  <2> QED
    BY <2>1, <2>2
<1>2. ASSUME NEW n \in Nat, n \in P PROVE n + 1 \in P
  <2>1. ASSUME NEW S, S \subseteq 1 .. n + 1 PROVE Ordered(S)
    <3>1. CASE n + 1 \in S
      <4> DEFINE T == S \ {n + 1}
      <4>1. T \subseteq 1 .. n /\ S = T \cup {n + 1} /\ Later(T, n + 1)
        BY <2>1, <3>1 DEF Later
      <4>2. Ordered(T) /\ n + 1 \in Nat
        BY <1>2, <4>1
      <4> QED
        BY <4>1, <4>2, OrderedAdd
    <3>2. CASE n + 1 \notin S
      <4>1. S \subseteq 1 .. n
        BY <2>1, <3>2
      <4> QED
        BY <1>2, <4>1
    <3> QED
      BY <3>1, <3>2
  <2>2. n + 1 \in Nat
    OBVIOUS
  <2> QED
    BY <2>1, <2>2
<1>3. Nat \subseteq P
  <2> HIDE DEF P
  <2> QED
    BY <1>1, <1>2, Induction
<1> QED
  BY <1>3

LEMMA NthIs ==
  ASSUME NEW S, Ordered(S)
  PROVE  /\ \A b \in 1 .. Cardinality(S) : Nth(S, b) \in S /\ Rank(S, Nth(S, b)) = b
         /\ \A q \in S : Nth(S, Rank(S, q)) = q
<1>1. \A b \in 1 .. Cardinality(S) : Nth(S, b) \in S /\ Rank(S, Nth(S, b)) = b
  BY DEF Ordered, Nth
<1>2. \A q \in S : Rank(S, q) \in 1 .. Cardinality(S)
  BY DEF Ordered
<1> QED
  BY <1>1, <1>2 DEF Ordered

(* One more branch shifts the newest outcomes by one. *)
LEMMA NewestAdd ==
  ASSUME NEW n \in Nat, NEW S, Later(S, n), Ordered(S), NEW old
  PROVE  Newest(S \cup {n}, old) = Shifted(Newest(S, old), log[n].taken)
<1> DEFINE T == S \cup {n}
           k == Cardinality(S)
<1>1. /\ Rank(T, n) = 1
      /\ \A q \in S : Rank(T, q) = Rank(S, q) + 1
      /\ Cardinality(T) = k + 1
  BY RankAdd DEF Ordered
<1>2. Ordered(T) /\ k \in Nat
  BY OrderedAdd, FS_CardinalityType DEF Ordered
<1>3. Nth(T, 1) = n
  BY <1>1, <1>2, NthIs
<1>4. ASSUME NEW b \in 1 .. k PROVE Nth(T, b + 1) = Nth(S, b)
  <2>1. Nth(S, b) \in S /\ Rank(S, Nth(S, b)) = b
    BY NthIs
  <2>2. Rank(T, Nth(S, b)) = b + 1 /\ Nth(S, b) \in T
    BY <1>1, <2>1
  <2> QED
    BY <1>2, <2>2, NthIs
<1> HIDE DEF T, k
<1> DEFINE NS(b) == IF b <= k THEN Bit(log[Nth(S, b)].taken) ELSE old[b - k]
           NT(b) == IF b <= k + 1 THEN Bit(log[Nth(T, b)].taken) ELSE old[b - (k + 1)]
<1>5. Newest(S, old) = [b \in 1 .. historySize |-> NS(b)]
  BY NewestIs DEF k
<1>6. Newest(T, old) = [b \in 1 .. historySize |-> NT(b)]
  BY <1>1, NewestIs
<1>7. ASSUME NEW b \in 1 .. historySize
      PROVE  NT(b) = IF b = 1 THEN Bit(log[n].taken) ELSE Newest(S, old)[b - 1]
  <2>1. CASE b = 1
    BY <1>2, <1>3, <2>1
  <2>2. CASE b # 1
    <3>1. b - 1 \in 1 .. historySize /\ b \in Int
      BY <2>2, SizesAssumption
    <3>2. Newest(S, old)[b - 1] = NS(b - 1)
      BY <1>5, <3>1
    <3>3. CASE b <= k + 1
      <4>1. b - 1 \in 1 .. k /\ (b - 1) + 1 = b
        BY <1>2, <2>2, <3>1, <3>3
      <4>2. Nth(T, b) = Nth(S, b - 1)
        BY <1>4, <4>1
      <4> QED
        BY <2>2, <3>2, <3>3, <4>1, <4>2
    <3>4. CASE ~(b <= k + 1)
      <4>1. b - (k + 1) = (b - 1) - k /\ ~(b - 1 <= k)
        BY <1>2, <3>1, <3>4
      <4> QED
        BY <2>2, <3>2, <3>4, <4>1
    <3> QED
      BY <3>3, <3>4
  <2> QED
    BY <2>1, <2>2
<1> HIDE DEF NS, NT
<1>8. Newest(T, old) = Shifted(Newest(S, old), log[n].taken)
  BY <1>6, <1>7, Zenon DEF Shifted
<1> QED
  BY <1>8 DEF T
-----------------------------------------------------------------------------
(* The greatest of some branches. *)
LEMMA LastIs ==
  /\ \A n \in Nat : \A S : S \subseteq 1 .. n /\ S # {} => Max(S) \in S
  /\ \A n \in Nat : \A S : Later(S, n) => Max(S \cup {n}) = n
<1>1. ASSUME NEW n \in Nat, NEW S, S \subseteq 1 .. n, S # {} PROVE Max(S) \in S
  <2> DEFINE U == {n - q : q \in S}
  <2>1. U \subseteq Nat /\ U # {}
    <3>1. \A q \in S : n - q \in Nat
      BY <1>1
    <3> QED
      BY <1>1, <3>1
  <2>2. PICK u \in U : \A y \in U : u <= y
    <3> HIDE DEF U
    <3> QED
      BY <2>1, LeastNumber
  <2>3. PICK m \in S : u = n - m
    BY <2>2
  <2>4. \A q \in S : n - m <= n - q
    BY <2>2, <2>3
  <2>5. \A q \in S : m >= q
    BY <1>1, <2>4
  <2> QED
    BY <2>5 DEF Max
<1>2. ASSUME NEW n \in Nat, NEW S, Later(S, n) PROVE Max(S \cup {n}) = n
  <2> DEFINE T == S \cup {n}
  <2>1. n \in T /\ \A q \in T : q \in Nat /\ n >= q
    BY <1>2 DEF Later
  <2> HIDE DEF T
  <2>2. \A x \in T : (\A y \in T : x >= y) => x = n
    BY <2>1
  <2>3. Max(T) = n
    BY <2>1, <2>2 DEF Max
  <2> QED
    BY <2>3 DEF T
<1> QED
  BY <1>1, <1>2

(* The key a branch of the log was trained under. *)
KeyOf(q) == KeyAt(q, log[q].pc)

(* The reference, with every value it takes from the log named. *)
HistIs(p, o, R, h) ==
  h = IF config.isGlobalHist THEN Newest(1 .. p - 1, o) ELSE Newest(R, Zeros)

KeyIs(p, pc, h) ==
  KeyAt(p, pc) = IF config.isGlobalTable THEN getSharedHistory(h, pc) ELSE h

KeyUnfold ==
  \A p, pc, o, R, h :
    o = startHistory /\ R = Resident(p, pc) /\ HistIs(p, o, R, h) => KeyIs(p, pc, h)

KeyOfUnfold == \A q, a : a = log[q].pc => KeyOf(q) = KeyAt(q, a)

TrainersAre(p, pc, R, k) ==
  Trainers(p, pc) = {q \in IF config.isGlobalTable THEN 1 .. p - 1 ELSE R : KeyOf(q) = k}

TrainersUnfold ==
  \A p, pc, R, k :
    R = Resident(p, pc) /\ k = KeyAt(p, pc) => TrainersAre(p, pc, R, k)

PredictionUnfold ==
  \A p, pc, R, T :
    R = Resident(p, pc) /\ T = Trainers(p, pc)
    => PredictionAt(p, pc) =
         IF R # {} /\ Trained(T, p - 1) >= 2
         THEN [taken |-> TRUE, dst |-> log[Max(R)].targetPc]
         ELSE [taken |-> FALSE, dst |-> pc + 4]

NewestUnfold ==
  \A S, old : Newest(S, old) =
    [b \in 1 .. historySize |->
      IF b <= Cardinality(S) THEN Bit(log[Nth(S, b)].taken) ELSE old[b - Cardinality(S)]]

Reference ==
  KeyUnfold /\ KeyOfUnfold /\ TrainersUnfold /\ PredictionUnfold /\ NewestUnfold

LEMMA ReferenceHolds == Reference
<1>1. KeyUnfold
  BY Zenon DEF KeyUnfold, HistIs, KeyIs, KeyAt
<1>2. KeyOfUnfold
  BY DEF KeyOfUnfold, KeyOf
<1>3. TrainersUnfold
  BY Zenon DEF TrainersUnfold, TrainersAre, Trainers, KeyOf
<1>4. PredictionUnfold
  BY Zenon DEF PredictionUnfold, PredictionAt, CounterAt
<1>5. NewestUnfold
  BY NewestIs DEF NewestUnfold
<1> QED
  BY <1>1, <1>2, <1>3, <1>4, <1>5 DEF Reference

LEMMA PastIs ==
  \A p, pc : Resident(p, pc) \subseteq 1 .. p - 1 /\ Evictions(p, pc) \subseteq 1 .. p - 1
  BY DEF Resident, Evictions

(* A branch added to the log leaves what was said of those before it. *)
LEMMA ResidentKept ==
  ASSUME Extended
  PROVE  \A p \in 1 .. Len(log) + 1 : \A pc : Resident(p, pc)' = Resident(p, pc)
<1>1. Len(log) \in Nat
  BY LogFacts DEF Extended
<1> TAKE p \in 1 .. Len(log) + 1
<1> TAKE pc
<1>2. \A q \in 1 .. p - 1 : log'[q] = log[q]
  BY <1>1 DEF Extended
<1>3. \A q \in 1 .. p - 1 : SameEntry(q, pc)' <=> SameEntry(q, pc)
  BY <1>2 DEF SameEntry, getEntryByIndex
<1>4. Evictions(p, pc)' = Evictions(p, pc)
  BY <1>2, <1>3 DEF Evictions, getTag
<1> QED
  BY <1>3, <1>4 DEF Resident

LEMMA NewestKept ==
  ASSUME Extended
  PROVE  \A S : S \subseteq 1 .. Len(log) => \A old : Newest(S, old)' = Newest(S, old)
<1> SUFFICES ASSUME NEW S, S \subseteq 1 .. Len(log), NEW old
             PROVE  Newest(S, old)' = Newest(S, old)
  OBVIOUS
<1>1. Len(log) \in Nat
  BY LogFacts DEF Extended
<1>2. Ordered(S) /\ Cardinality(S) \in Nat
  BY <1>1, OrderedPast, FS_CardinalityType DEF Ordered
<1>3. ASSUME NEW b \in 1 .. historySize, b <= Cardinality(S)
      PROVE  log'[Nth(S, b)] = log[Nth(S, b)]
  <2>1. b \in 1 .. Cardinality(S)
    BY <1>2, <1>3
  <2>2. Nth(S, b) \in S
    BY <1>2, <2>1, NthIs
  <2> QED
    BY <2>2 DEF Extended
<1>4. Newest(S, old)' =
        [b \in 1 .. historySize |->
          IF b <= Cardinality(S) THEN Bit(log'[Nth(S, b)].taken) ELSE old[b - Cardinality(S)]]
  <2>1. NewestUnfold'
    <3>1. Reference'
      BY ReferenceHolds, PTL
    <3> QED
      BY <3>1 DEF Reference
  <2> QED
    BY <2>1 DEF NewestUnfold
<1> QED
  BY <1>3, <1>4, NewestIs

LEMMA KeyKept ==
  ASSUME Extended
  PROVE  /\ \A p \in 1 .. Len(log) + 1 : \A pc : KeyAt(p, pc)' = KeyAt(p, pc)
         /\ \A q \in 1 .. Len(log) : KeyOf(q)' = KeyOf(q)
<1>0. Len(log) \in Nat
  BY LogFacts DEF Extended
<1>1. Reference /\ Reference'
  BY ReferenceHolds, PTL
<1>2. KeyUnfold /\ KeyUnfold' /\ KeyOfUnfold /\ KeyOfUnfold'
  BY <1>1 DEF Reference
<1>3. ASSUME NEW p \in 1 .. Len(log) + 1, NEW pc PROVE KeyAt(p, pc)' = KeyAt(p, pc)
  <2>1. PICK o, R : o = startHistory /\ R = Resident(p, pc)
    OBVIOUS
  <2>2. o = startHistory' /\ R = Resident(p, pc)' /\ config' = config
    BY <2>1, ResidentKept DEF Extended
  <2>3. 1 .. p - 1 \subseteq 1 .. Len(log) /\ R \subseteq 1 .. Len(log)
    BY <1>0, <2>1, PastIs
  <2>4. Newest(1 .. p - 1, o)' = Newest(1 .. p - 1, o) /\ Newest(R, Zeros)' = Newest(R, Zeros)
    BY <2>3, NewestKept
  <2>5. PICK h : h = IF config.isGlobalHist THEN Newest(1 .. p - 1, o) ELSE Newest(R, Zeros)
    OBVIOUS
  <2>6. HistIs(p, o, R, h)
    BY <2>5 DEF HistIs
  <2>7. HistIs(p, o, R, h)'
    BY <2>2, <2>4, <2>5 DEF HistIs
  <2>8. KeyIs(p, pc, h) /\ KeyIs(p, pc, h)'
    BY <1>2, <2>1, <2>2, <2>6, <2>7, Zenon DEF KeyUnfold
  <2>9. getSharedHistory(h, pc)' = getSharedHistory(h, pc)
    BY <2>2 DEF getSharedHistory, PcBits
  <2> QED
    BY <2>2, <2>8, <2>9, Zenon DEF KeyIs
<1>4. ASSUME NEW q \in 1 .. Len(log) PROVE KeyOf(q)' = KeyOf(q)
  <2>1. PICK a : a = log[q].pc
    OBVIOUS
  <2>2. a = log'[q].pc
    BY <2>1 DEF Extended
  <2>3. KeyOf(q) = KeyAt(q, a) /\ KeyOf(q)' = KeyAt(q, a)'
    BY <1>2, <2>1, <2>2, Zenon DEF KeyOfUnfold
  <2>4. q \in 1 .. Len(log) + 1
    BY <1>0
  <2> QED
    BY <1>3, <2>3, <2>4, Zenon
<1> QED
  BY <1>3, <1>4

LEMMA PredictionKept ==
  ASSUME Extended
  PROVE  \A p \in 1 .. Len(log) + 1 : \A pc : PredictionAt(p, pc)' = PredictionAt(p, pc)
<1> TAKE p \in 1 .. Len(log) + 1
<1> TAKE pc
<1>0. Len(log) \in Nat /\ config' = config
  BY LogFacts DEF Extended
<1>1. Reference /\ Reference'
  BY ReferenceHolds, PTL
<1>2. TrainersUnfold /\ TrainersUnfold' /\ PredictionUnfold /\ PredictionUnfold'
  BY <1>1 DEF Reference
<1>3. PICK R, k : R = Resident(p, pc) /\ k = KeyAt(p, pc)
  OBVIOUS
<1>4. R = Resident(p, pc)' /\ k = KeyAt(p, pc)'
  BY <1>3, ResidentKept, KeyKept
<1> DEFINE D == IF config.isGlobalTable THEN 1 .. p - 1 ELSE R
           T == {q \in D : KeyOf(q) = k}
<1>5. D \subseteq 1 .. Len(log) /\ R \subseteq 1 .. Len(log)
  BY <1>0, <1>3, PastIs
<1>6. TrainersAre(p, pc, R, k) /\ TrainersAre(p, pc, R, k)'
  BY <1>2, <1>3, <1>4, Zenon DEF TrainersUnfold
<1>7. Trainers(p, pc) = T /\ Trainers(p, pc)' = {q \in D : KeyOf(q)' = k}
  BY <1>0, <1>6 DEF TrainersAre
<1>8. {q \in D : KeyOf(q)' = k} = T
  BY <1>5, KeyKept
<1> HIDE DEF D
<1>9. PICK U : U = T
  OBVIOUS
<1>10. U = Trainers(p, pc) /\ U = Trainers(p, pc)'
  BY <1>7, <1>8, <1>9
<1> HIDE DEF T
<1>11. Trained(U, p - 1)' = Trained(U, p - 1)
  <2>1. p - 1 \in 0 .. Len(log)
    BY <1>0
  <2> QED
    BY <2>1, TrainedKept
<1>12. R # {} => log'[Max(R)] = log[Max(R)]
  BY <1>0, <1>5, LastIs DEF Extended
<1>13. PredictionAt(p, pc) =
         IF R # {} /\ Trained(U, p - 1) >= 2
         THEN [taken |-> TRUE, dst |-> log[Max(R)].targetPc]
         ELSE [taken |-> FALSE, dst |-> pc + 4]
  BY <1>2, <1>3, <1>10, Zenon DEF PredictionUnfold
<1>14. PredictionAt(p, pc)' =
         IF R # {} /\ Trained(U, p - 1)' >= 2
         THEN [taken |-> TRUE, dst |-> log'[Max(R)].targetPc]
         ELSE [taken |-> FALSE, dst |-> pc + 4]
  BY <1>2, <1>4, <1>10, Zenon DEF PredictionUnfold
<1> QED
  BY <1>11, <1>12, <1>13, <1>14
-----------------------------------------------------------------------------
(* What one more branch does to the counters, the histories and the        *)
(* entries of the reference.                                               *)
LEMMA TrainedNext ==
  ASSUME Extended, NEW n, n = Len(log), NEW taken \in BOOLEAN, log'[n + 1].taken = taken
  PROVE  \A T : T \subseteq 1 .. n =>
           /\ Trained(T \cup {n + 1}, n + 1)' = Bumped(Trained(T, n), taken)
           /\ Trained(T, n + 1)' = Trained(T, n)
<1> SUFFICES ASSUME NEW T, T \subseteq 1 .. n
             PROVE  /\ Trained(T \cup {n + 1}, n + 1)' = Bumped(Trained(T, n), taken)
                    /\ Trained(T, n + 1)' = Trained(T, n)
  OBVIOUS
<1>1. n \in Nat /\ n \in 0 .. Len(log) /\ LogOK
  BY LogFacts DEF Extended
<1>2. PICK U : U = T \cup {n + 1}
  OBVIOUS
<1>3. n + 1 \in U /\ n + 1 \notin T /\ \A q \in 1 .. n : q \in U <=> q \in T
  BY <1>1, <1>2
<1>4. \A V : Trained(V, n + 1)' =
        IF n + 1 \in V THEN Step(Trained(V, n)', log[n + 1].taken') ELSE Trained(V, n)'
  <2>1. Stepwise'
    BY StepwiseHolds, PTL
  <2> QED
    BY <1>1, <2>1 DEF Stepwise
<1>5. \A V : Trained(V, n)' = Trained(V, n)
  BY <1>1, TrainedKept
<1>6. Trained(U, n) = Trained(T, n) /\ Trained(T, n) \in 0 .. 3
  BY <1>1, <1>3, TrainedSame, TrainedType
<1>7. Step(Trained(T, n), taken) = Bumped(Trained(T, n), taken)
  BY <1>6, StepIsBumped
<1>8. Trained(U, n + 1)' = Step(Trained(U, n), taken) /\ Trained(T, n + 1)' = Trained(T, n)
  BY <1>3, <1>4, <1>5
<1> QED
  BY <1>2, <1>6, <1>7, <1>8, Zenon

AddedIs(n, E, old, v) == Newest(E, old) = Shifted(v, log[n].taken)

AddUnfold ==
  \A n \in Nat : \A S, E, old, v :
    Later(S, n) /\ Ordered(S) /\ E = S \cup {n} /\ v = Newest(S, old) => AddedIs(n, E, old, v)

LEMMA AddUnfoldHolds == AddUnfold
  BY NewestAdd DEF AddUnfold, AddedIs

NewestGrows(n, taken) ==
  \A S, E, old : S \subseteq 1 .. n /\ E = S \cup {n + 1} =>
    Newest(E, old)' = Shifted(Newest(S, old), taken)

LEMMA NewestNext ==
  ASSUME Extended, NEW n, n = Len(log), NEW taken, log'[n + 1].taken = taken
  PROVE  NewestGrows(n, taken)
<1> SUFFICES ASSUME NEW S, NEW E, NEW old, S \subseteq 1 .. n, E = S \cup {n + 1}
             PROVE  Newest(E, old)' = Shifted(Newest(S, old), taken)
  BY DEF NewestGrows
<1>1. n \in Nat /\ n + 1 \in Nat
  BY LogFacts DEF Extended
<1>2. AddUnfold'
  BY AddUnfoldHolds, PTL
<1>3. PICK v : v = Newest(S, old)
  OBVIOUS
<1>4. v = Newest(S, old)'
  BY <1>3, NewestKept
<1>5. Later(S, n + 1) /\ Ordered(S)
  <2>1. Ordered(S)
    BY <1>1, OrderedPast
  <2>2. \A q \in 1 .. n : q \in Nat /\ q < n + 1
    BY <1>1
  <2> QED
    BY <2>1, <2>2 DEF Later
<1>6. AddedIs(n + 1, E, old, v)'
  BY <1>1, <1>2, <1>4, <1>5 DEF AddUnfold
<1> QED
  BY <1>3, <1>6 DEF AddedIs

LEMMA NewestNone == \A old \in History : Newest({}, old) = old
<1> TAKE old \in History
<1>1. Cardinality({}) = 0
  BY FS_EmptySet
<1>2. Newest({}, old) =
        [b \in 1 .. historySize |-> IF b <= 0 THEN Bit(log[Nth({}, b)].taken) ELSE old[b - 0]]
  BY <1>1, NewestIs
<1>3. \A b \in 1 .. historySize : ~(b <= 0) /\ b - 0 = b
  OBVIOUS
<1>4. Newest({}, old) = [b \in 1 .. historySize |-> old[b]]
  BY <1>2, <1>3
<1> QED
  BY <1>4 DEF History

(* Addresses with the same index and tag are one branch to the predictor.  *)
LEMMA ResidentAlias ==
  \A p, a, c : getEntryByIndex(a) = getEntryByIndex(c) /\ getTag(a) = getTag(c)
               => Resident(p, a) = Resident(p, c)
  BY DEF Resident, Evictions, SameEntry

LEMMA ResidentNext ==
  ASSUME Extended, NEW n, n = Len(log), NEW a, log'[n + 1].pc = a, NEW c
  PROVE  Resident(n + 2, c)' =
           IF getEntryByIndex(a) # getEntryByIndex(c) THEN Resident(n + 1, c)
           ELSE IF getTag(a) = getTag(c) THEN Resident(n + 1, c) \cup {n + 1}
           ELSE {}
<1>1. n \in Nat
  BY LogFacts DEF Extended
<1>2. 1 .. (n + 2) - 1 = 1 .. n \cup {n + 1} /\ 1 .. (n + 1) - 1 = 1 .. n
  BY <1>1
<1>3. \A q \in 1 .. n : log'[q] = log[q]
  BY DEF Extended
<1>4. /\ \A q \in 1 .. n : SameEntry(q, c)' <=> SameEntry(q, c)
      /\ SameEntry(n + 1, c)' <=> getEntryByIndex(a) = getEntryByIndex(c)
  BY <1>3 DEF SameEntry, getEntryByIndex
<1>5. Evictions(n + 1, c) = {q \in 1 .. n : SameEntry(q, c) /\ getTag(log[q].pc) # getTag(c)}
  BY <1>2 DEF Evictions
<1>6. Evictions(n + 2, c)' =
        {q \in 1 .. n \cup {n + 1} : SameEntry(q, c)' /\ getTag(log'[q].pc) # getTag(c)}
  BY <1>2 DEF Evictions, getTag
<1>7. Resident(n + 1, c) =
        {q \in 1 .. n : SameEntry(q, c) /\ \A e \in Evictions(n + 1, c) : q > e}
  BY <1>2 DEF Resident
<1>8. Resident(n + 2, c)' =
        {q \in 1 .. n \cup {n + 1} : SameEntry(q, c)' /\ \A e \in Evictions(n + 2, c)' : q > e}
  BY <1>2 DEF Resident
<1>9. CASE getEntryByIndex(a) # getEntryByIndex(c)
  <2>1. Evictions(n + 2, c)' = Evictions(n + 1, c)
    <3>1. \A q \in 1 .. n :
            (SameEntry(q, c)' /\ getTag(log'[q].pc) # getTag(c))
            <=> (SameEntry(q, c) /\ getTag(log[q].pc) # getTag(c))
      BY <1>3, <1>4
    <3>2. ~SameEntry(n + 1, c)'
      BY <1>4, <1>9
    <3> QED
      BY <1>5, <1>6, <3>1, <3>2
  <2> QED
    BY <1>4, <1>7, <1>8, <1>9, <2>1
<1>10. CASE getEntryByIndex(a) = getEntryByIndex(c) /\ getTag(a) = getTag(c)
  <2>1. Evictions(n + 2, c)' = Evictions(n + 1, c)
    BY <1>3, <1>4, <1>5, <1>6, <1>10
  <2>2. \A e \in Evictions(n + 1, c) : n + 1 > e
    BY <1>1, <1>5
  <2> QED
    BY <1>4, <1>7, <1>8, <1>10, <2>1, <2>2
<1>11. CASE getEntryByIndex(a) = getEntryByIndex(c) /\ getTag(a) # getTag(c)
  <2>1. n + 1 \in Evictions(n + 2, c)'
    BY <1>4, <1>6, <1>11
  <2>2. \A q \in 1 .. n \cup {n + 1} : ~(q > n + 1)
    BY <1>1
  <2> QED
    BY <1>8, <1>11, <2>1, <2>2
<1> QED
  BY <1>9, <1>10, <1>11
-----------------------------------------------------------------------------
(* A table holds, under each history, the counter of the branches of D     *)
(* that were trained under it.                                             *)
TableIs(table, D, n) ==
  \A h \in History : \A T : T = {q \in D : KeyOf(q) = h} => table[h] = Trained(T, n)

(* An entry holds the branch R lists the updates of.                       *)
EntryIs(e, R, n) ==
  /\ e.target = log[Max(R)].targetPc
  /\ e.local_BHR = Newest(R, Zeros)
  /\ ~config.isGlobalTable => TableIs(e.local_table, R, n)

EntriesRight ==
  \A c \in PCs : \A n, R, e :
    n = Len(log) /\ R = Resident(n + 1, c) /\ e = entries[getEntryByIndex(c)]
    => (Hit(c) <=> R # {}) /\ (R # {} => EntryIs(e, R, n))

GlobalRight ==
  \A n, o : n = Len(log) /\ o = startHistory =>
    /\ global_BHR.bits = Newest(1 .. n, o)
    /\ config.isGlobalTable => TableIs(global_table, 1 .. n, n)

(* Every table, history and counter of the predictor is what the reference *)
(* makes of the branches so far.                                           *)
BPInv ==
  /\ TypeOK
  /\ LogOK
  /\ EntriesRight
  /\ GlobalRight

(* The history an entry is used with gives the key of the next branch.     *)
LEMMA NextKey ==
  ASSUME BPInv, NEW n, n = Len(log), NEW c, NEW R, R = Resident(n + 1, c),
         NEW e, e.local_BHR = Newest(R, Zeros)
  PROVE  KeyAt(n + 1, c) = IF config.isGlobalTable
                           THEN getSharedHistory(CurrentHistory(e), c)
                           ELSE CurrentHistory(e)
<1>1. n \in Nat
  BY LogFacts DEF BPInv
<1>2. PICK o : o = startHistory
  OBVIOUS
<1>3. global_BHR.bits = Newest(1 .. n, o)
  BY <1>2 DEF BPInv, GlobalRight
<1>4. PICK h : h = CurrentHistory(e)
  OBVIOUS
<1>5. (n + 1) - 1 = n
  BY <1>1
<1>6. HistIs(n + 1, o, R, h)
  BY <1>3, <1>4, <1>5 DEF HistIs, CurrentHistory
<1>7. KeyUnfold
  BY ReferenceHolds DEF Reference
<1>8. KeyIs(n + 1, c, h)
  BY <1>2, <1>6, <1>7, Zenon DEF KeyUnfold
<1> QED
  BY <1>4, <1>8, Zenon DEF KeyIs

(* Every prediction is the reference's.                                    *)
LEMMA PredictionRight ==
  ASSUME BPInv, NEW n, n = Len(log), NEW c \in PCs
  PROVE  Prediction(c) = PredictionAt(n + 1, c)
<1>0. n \in Nat /\ n + 1 - 1 = n /\ c \in Nat
  BY LogFacts, TraceAssumption DEF BPInv
<1>1. PICK R, e : R = Resident(n + 1, c) /\ e = entries[getEntryByIndex(c)]
  OBVIOUS
<1>2. (Hit(c) <=> R # {}) /\ (R # {} => EntryIs(e, R, n))
  BY <1>1 DEF BPInv, EntriesRight
<1>3. TrainersUnfold /\ PredictionUnfold
  BY ReferenceHolds DEF Reference
<1>4. PICK T : T = Trainers(n + 1, c)
  OBVIOUS
<1>5. PredictionAt(n + 1, c) =
        IF R # {} /\ Trained(T, (n + 1) - 1) >= 2
        THEN [taken |-> TRUE, dst |-> log[Max(R)].targetPc]
        ELSE [taken |-> FALSE, dst |-> c + 4]
  BY <1>1, <1>3, <1>4, Zenon DEF PredictionUnfold
<1>6. CASE R = {}
  BY <1>2, <1>5, <1>6 DEF Prediction
<1>7. CASE R # {}
  <2>1. Hit(c) /\ EntryIs(e, R, n)
    BY <1>2, <1>7
  <2>2. e.target = log[Max(R)].targetPc /\ e.local_BHR = Newest(R, Zeros)
    BY <2>1 DEF EntryIs
  <2>3. PICK k, h : k = KeyAt(n + 1, c) /\ h = CurrentHistory(e)
    OBVIOUS
  <2>4. k = IF config.isGlobalTable THEN getSharedHistory(h, c) ELSE h
    BY <1>1, <2>2, <2>3, NextKey
  <2>5. TrainersAre(n + 1, c, R, k)
    BY <1>1, <1>3, <2>3, Zenon DEF TrainersUnfold
  <2>6. h \in History
    <3>1. global_BHR.bits \in History
      BY DEF BPInv, TypeOK
    <3>2. e.local_BHR \in History
      BY <1>0, <1>1, <2>1, IndexType DEF BPInv, TypeOK, Hit
    <3> QED
      BY <2>3, <3>1, <3>2 DEF CurrentHistory
  <2>7. k \in History
    BY <1>0, <2>4, <2>6, SharedType
  <2>8. Counter(c) = Trained(T, n)
    <3>1. CASE config.isGlobalTable
      <4>1. T = {q \in 1 .. n : KeyOf(q) = k}
        BY <1>0, <1>4, <2>5, <3>1 DEF TrainersAre
      <4>2. TableIs(global_table, 1 .. n, n)
        BY <3>1 DEF BPInv, GlobalRight
      <4>3. global_table[k] = Trained(T, n)
        BY <2>7, <4>1, <4>2 DEF TableIs
      <4> QED
        BY <1>1, <2>3, <2>4, <3>1, <4>3 DEF Counter
    <3>2. CASE ~config.isGlobalTable
      <4>1. T = {q \in R : KeyOf(q) = k}
        BY <1>4, <2>5, <3>2 DEF TrainersAre
      <4>2. TableIs(e.local_table, R, n)
        BY <2>1, <3>2 DEF EntryIs
      <4>3. e.local_table[k] = Trained(T, n)
        BY <2>7, <4>1, <4>2 DEF TableIs
      <4> QED
        BY <1>1, <2>3, <2>4, <3>2, <4>3 DEF Counter
    <3> QED
      BY <3>1, <3>2
  <2>9. Prediction(c) = IF Trained(T, n) >= 2
                        THEN [taken |-> TRUE, dst |-> e.target]
                        ELSE [taken |-> FALSE, dst |-> c + 4]
    BY <1>1, <2>1, <2>8 DEF Prediction
  <2> QED
    BY <1>0, <1>5, <1>7, <2>2, <2>9
<1> QED
  BY <1>6, <1>7
-----------------------------------------------------------------------------
(* One more branch, trained under the key k, in a table.                   *)
LEMMA TableNext ==
  ASSUME Extended, NEW n, n = Len(log), NEW taken \in BOOLEAN, log'[n + 1].taken = taken,
         NEW k \in History, KeyOf(n + 1)' = k,
         NEW D, D \subseteq 1 .. n, NEW table \in Tables, TableIs(table, D, n),
         NEW E, E = D \cup {n + 1}
  PROVE  TableIs([table EXCEPT ![k] = Bumped(@, taken)], E, n + 1)'
<1> DEFINE new == [table EXCEPT ![k] = Bumped(@, taken)]
<1>1. ASSUME NEW h \in History, NEW T, T = {q \in E : KeyOf(q)' = h}
      PROVE  new[h] = Trained(T, n + 1)'
  <2>1. PICK U : U = {q \in D : KeyOf(q) = h}
    OBVIOUS
  <2>2. U \subseteq 1 .. n /\ table[h] = Trained(U, n)
    BY <2>1 DEF TableIs
  <2>3. \A q \in D : KeyOf(q)' = KeyOf(q)
    BY KeyKept
  <2>4. CASE h = k
    <3>1. T = U \cup {n + 1}
      BY <1>1, <2>1, <2>3, <2>4
    <3>2. Trained(T, n + 1)' = Bumped(Trained(U, n), taken)
      BY <2>2, <3>1, TrainedNext
    <3>3. new[h] = Bumped(table[h], taken)
      BY <2>4 DEF Tables
    <3> QED
      BY <2>2, <3>2, <3>3, Zenon
  <2>5. CASE h # k
    <3>1. T = U
      BY <1>1, <2>1, <2>3, <2>5
    <3>2. Trained(T, n + 1)' = Trained(U, n)
      BY <2>2, <3>1, TrainedNext
    <3>3. new[h] = table[h]
      BY <2>5 DEF Tables
    <3> QED
      BY <2>2, <3>2, <3>3, Zenon
  <2> QED
    BY <2>4, <2>5
<1> HIDE DEF new
<1>2. TableIs(new, E, n + 1)'
  BY <1>1, Zenon DEF TableIs
<1> QED
  BY <1>2 DEF new

(* A table not trained stays right.                                        *)
LEMMA TableStays ==
  ASSUME Extended, NEW n, n = Len(log), NEW D, D \subseteq 1 .. n,
         NEW table, TableIs(table, D, n),
         NEW m \in {n, n + 1}, m = n + 1 => log'[n + 1].taken \in BOOLEAN
  PROVE  TableIs(table, D, m)'
<1>1. ASSUME NEW h \in History, NEW T, T = {q \in D : KeyOf(q)' = h}
      PROVE  table[h] = Trained(T, m)'
  <2>1. \A q \in D : KeyOf(q)' = KeyOf(q)
    BY KeyKept
  <2>2. T = {q \in D : KeyOf(q) = h} /\ T \subseteq 1 .. n
    BY <1>1, <2>1
  <2>3. table[h] = Trained(T, n)
    BY <2>2 DEF TableIs
  <2>4. CASE m = n + 1
    <3>1. PICK taken \in BOOLEAN : log'[n + 1].taken = taken
      BY <2>4
    <3>2. Trained(T, n + 1)' = Trained(T, n)
      BY <2>2, <3>1, TrainedNext
    <3> QED
      BY <2>3, <2>4, <3>2, Zenon
  <2>5. CASE m = n
    <3>1. n \in 0 .. Len(log)
      BY LogFacts DEF Extended
    <3>2. Trained(T, n)' = Trained(T, n)
      BY <3>1, TrainedKept
    <3> QED
      BY <2>3, <2>5, <3>2, Zenon
  <2> QED
    BY <2>4, <2>5
<1> QED
  BY <1>1, Zenon DEF TableIs

(* A step that adds no branch.                                             *)
LEMMA SameLog ==
  ASSUME BPInv, TypeOK',
         UNCHANGED <<config, entries, global_BHR, global_table, startHistory, log>>
  PROVE  BPInv'
<1>1. Extended /\ Len(log) \in Nat /\ LogOK'
  BY LogFacts DEF Extended, BPInv, LogOK
<1>2. ASSUME NEW c \in PCs, NEW n, NEW R, NEW e,
             n = Len(log), R = Resident(n + 1, c)', e = entries[getEntryByIndex(c)]
      PROVE  (Hit(c)' <=> R # {}) /\ (R # {} => EntryIs(e, R, n)')
  <2>1. R = Resident(n + 1, c)
    BY <1>1, <1>2, ResidentKept
  <2>2. (Hit(c) <=> R # {}) /\ (R # {} => EntryIs(e, R, n))
    BY <1>2, <2>1 DEF BPInv, EntriesRight
  <2>3. Hit(c)' <=> Hit(c)
    BY DEF Hit, getEntryByIndex, getTag
  <2>4. R \subseteq 1 .. n
    BY <1>1, <1>2, <2>1, PastIs
  <2>5. EntryIs(e, R, n) => EntryIs(e, R, n)'
    <3> SUFFICES ASSUME EntryIs(e, R, n) PROVE EntryIs(e, R, n)'
      OBVIOUS
    <3>1. Newest(R, Zeros)' = Newest(R, Zeros)
      BY <1>1, <1>2, <2>4, NewestKept
    <3>2. ~config.isGlobalTable => TableIs(e.local_table, R, n)'
      <4> SUFFICES ASSUME ~config.isGlobalTable PROVE TableIs(e.local_table, R, n)'
        OBVIOUS
      <4>1. TableIs(e.local_table, R, n)
        BY DEF EntryIs
      <4>2. PICK t : t = e.local_table
        OBVIOUS
      <4>3. TableIs(t, R, n)'
        BY <1>1, <1>2, <2>4, <4>1, <4>2, TableStays
      <4> QED
        BY <4>2, <4>3
    <3> QED
      BY <3>1, <3>2 DEF EntryIs
  <2> QED
    BY <2>2, <2>3, <2>5
<1>3. EntriesRight'
  BY <1>2 DEF EntriesRight, getEntryByIndex
<1>4. ASSUME NEW n, NEW o, n = Len(log), o = startHistory
      PROVE  /\ global_BHR.bits = Newest(1 .. n, o)'
             /\ config.isGlobalTable => TableIs(global_table, 1 .. n, n)'
  <2>1. global_BHR.bits = Newest(1 .. n, o)
    BY <1>4 DEF BPInv, GlobalRight
  <2>2. Newest(1 .. n, o)' = Newest(1 .. n, o)
    BY <1>1, <1>4, NewestKept
  <2>3. config.isGlobalTable => TableIs(global_table, 1 .. n, n)'
    <3> SUFFICES ASSUME config.isGlobalTable PROVE TableIs(global_table, 1 .. n, n)'
      OBVIOUS
    <3>1. PICK t, D : t = global_table /\ D = 1 .. n
      OBVIOUS
    <3>2. TableIs(t, D, n)
      BY <1>4, <3>1 DEF BPInv, GlobalRight
    <3>3. TableIs(t, D, n)'
      BY <1>1, <1>4, <3>1, <3>2, TableStays
    <3>4. t = global_table'
      BY <3>1
    <3> QED
      BY <3>1, <3>3, <3>4
  <2> QED
    BY <2>1, <2>2, <2>3
<1>5. GlobalRight'
  BY <1>4 DEF GlobalRight
<1> QED
  BY <1>1, <1>3, <1>5 DEF BPInv
-----------------------------------------------------------------------------
(* The entry update() works on is that of the branch, before it is trained.*)
LEMMA EntryBefore ==
  ASSUME BPInv, NEW n, n = Len(log), NEW c \in PCs, NEW t \in Nat,
         NEW R, R = Resident(n + 1, c), NEW e, e = EntryForUpdate(c, t)
  PROVE  /\ e.local_BHR = Newest(R, Zeros)
         /\ ~config.isGlobalTable => TableIs(e.local_table, R, n)
<1>1. PICK old : old = entries[getEntryByIndex(c)]
  OBVIOUS
<1>2. (Hit(c) <=> R # {}) /\ (R # {} => EntryIs(old, R, n))
  BY <1>1 DEF BPInv, EntriesRight
<1>3. CASE Hit(c)
  <2>1. e.local_BHR = old.local_BHR /\ e.local_table = old.local_table
    BY <1>1, <1>3 DEF EntryForUpdate
  <2> QED
    BY <1>2, <1>3, <2>1 DEF EntryIs
<1>4. CASE ~Hit(c)
  <2>1. e.local_BHR = Zeros /\ e.local_table = FreshTable(config.fsmState) /\ R = {}
    BY <1>2, <1>4 DEF EntryForUpdate
  <2>2. Newest({}, Zeros) = Zeros
    BY ZerosType, NewestNone
  <2>3. n \in Nat
    BY LogFacts DEF BPInv
  <2>4. Trained({}, n) = config.fsmState
    <3> DEFINE S == {m \in Nat : Trained({}, m) = config.fsmState}
    <3>1. 0 \in S
      BY TrainedStep
    <3>2. ASSUME NEW m \in Nat, m \in S PROVE m + 1 \in S
      BY <3>2, TrainedStep
    <3>3. Nat \subseteq S
      <4> HIDE DEF S
      <4> QED
        BY <3>1, <3>2, Induction
    <3> QED
      BY <2>3, <3>3
  <2>5. \A h \in History : FreshTable(config.fsmState)[h] = config.fsmState
    BY DEF FreshTable
  <2>6. TableIs(FreshTable(config.fsmState), {}, n)
    BY <2>4, <2>5 DEF TableIs
  <2> QED
    BY <2>1, <2>2, <2>6
<1> QED
  BY <1>3, <1>4

(* Two addresses of one index and one tag hit alike.                       *)
LEMMA SameAddress ==
  ASSUME NEW a, NEW c, getEntryByIndex(a) = getEntryByIndex(c)
  PROVE  Hit(c) <=> entries[getEntryByIndex(a)].valid
                    /\ entries[getEntryByIndex(a)].tag = getTag(c)
  BY DEF Hit

LEMMA UpdateKeeps ==
  ASSUME BPInv, TypeOK', NEW t \in Nat, NEW taken \in BOOLEAN, BP_update(t, taken)
  PROVE  BPInv'
<1>1. PICK n, pc : n = Len(log) /\ pc = pending[1]
  OBVIOUS
<1>2. pc \in PCs /\ pc \in Nat /\ n \in Nat /\ (n + 1) - 1 = n /\ (n + 1) + 1 = n + 2
  <2>1. pending \in PCs \X [taken : BOOLEAN, dst : Nat]
    BY DEF BPInv, TypeOK, BP_update
  <2>2. pc \in PCs
    BY <1>1, <2>1
  <2>3. n \in Nat
    BY <1>1, LogFacts DEF BPInv
  <2> QED
    BY <2>2, <2>3, TraceAssumption
<1>3. PICK entry : entry = EntryForUpdate(pc, t)
  OBVIOUS
<1>4. PICK hist : hist = CurrentHistory(entry)
  OBVIOUS
<1>5. PICK key : key = getSharedHistory(hist, pc)
  OBVIOUS
<1>6. /\ entries' = [entries EXCEPT ![getEntryByIndex(pc)] =
                       [entry EXCEPT !.local_BHR = Shifted(@, taken),
                                     !.local_table[hist] = Bumped(@, taken)]]
      /\ global_table' = [global_table EXCEPT ![key] = Bumped(@, taken)]
      /\ log' = Append(log, [pc |-> pc, targetPc |-> t, taken |-> taken])
      /\ global_BHR' = [bits |-> Shifted(global_BHR.bits, taken), high |-> FALSE]
      /\ config' = config /\ startHistory' = startHistory
  BY <1>1, <1>3, <1>4, <1>5 DEF BP_update, StoreEntry
<1>7. /\ log' \in Seq(Branch)
      /\ Len(log') = n + 1
      /\ log'[n + 1] = [pc |-> pc, targetPc |-> t, taken |-> taken]
      /\ \A q \in 1 .. n : log'[q] = log[q]
  <2>1. log \in Seq(Branch) /\ [pc |-> pc, targetPc |-> t, taken |-> taken] \in Branch
    BY <1>2 DEF BPInv, LogOK, Branch
  <2> QED
    BY <1>1, <1>6, <2>1
<1>8. Extended /\ LogOK'
  BY <1>1, <1>6, <1>7 DEF Extended, BPInv, LogOK
<1>9. /\ log'[n + 1].pc = pc /\ log'[n + 1].taken = taken /\ log'[n + 1].targetPc = t
  BY <1>7
<1>10. PICK R : R = Resident(n + 1, pc)
  OBVIOUS
<1>11. /\ entry.local_BHR = Newest(R, Zeros)
       /\ ~config.isGlobalTable => TableIs(entry.local_table, R, n)
  BY <1>1, <1>2, <1>3, <1>10, EntryBefore
<1>12. /\ entry \in Entry /\ entry.local_BHR \in History /\ entry.valid
       /\ entry.tag = getTag(pc) /\ entry.target = t
  <2>1. entry \in Entry /\ entry.local_BHR \in History
    BY <1>2, <1>3, EntryForUpdateType DEF BPInv
  <2> QED
    BY <1>3, <2>1 DEF EntryForUpdate
<1>13. hist \in History /\ key \in History
  <2>1. global_BHR.bits \in History
    BY DEF BPInv, TypeOK
  <2>2. hist \in History
    BY <1>4, <1>12, <2>1 DEF CurrentHistory
  <2> QED
    BY <1>2, <1>5, <2>2, SharedType
<1>14. PICK k \in History : k = IF config.isGlobalTable THEN key ELSE hist
  BY <1>13
<1>15. KeyOf(n + 1)' = k
  <2>1. KeyAt(n + 1, pc) = k
    BY <1>1, <1>4, <1>5, <1>10, <1>11, <1>14, NextKey
  <2>2. n + 1 \in 1 .. Len(log) + 1
    BY <1>1, <1>2
  <2>3. KeyAt(n + 1, pc)' = KeyAt(n + 1, pc)
    BY <1>8, <2>2, KeyKept
  <2>4. KeyOfUnfold'
    <3>1. Reference'
      BY ReferenceHolds, PTL
    <3> QED
      BY <3>1 DEF Reference
  <2>5. KeyOf(n + 1)' = KeyAt(n + 1, pc)'
    BY <1>9, <2>4, Zenon DEF KeyOfUnfold
  <2> QED
    BY <2>1, <2>3, <2>5, Zenon
<1>16. R \subseteq 1 .. n
  BY <1>2, <1>10, PastIs
<1>17. GlobalRight'
  <2>1. ASSUME NEW m, NEW o, m = Len(log'), o = startHistory
        PROVE  /\ global_BHR.bits' = Newest(1 .. m, o)'
               /\ config.isGlobalTable => TableIs(global_table, 1 .. m, m)'
    <3>1. m = n + 1 /\ 1 .. m = 1 .. n \cup {n + 1}
      BY <1>2, <1>7, <2>1
    <3>2. global_BHR.bits = Newest(1 .. n, o)
      BY <1>1, <2>1 DEF BPInv, GlobalRight
    <3>3. PICK E : E = 1 .. n \cup {n + 1}
      OBVIOUS
    <3>4. Newest(E, o)' = Shifted(Newest(1 .. n, o), taken)
      <4>1. NewestGrows(n, taken)
        BY <1>1, <1>8, <1>9, NewestNext
      <4> QED
        BY <3>3, <4>1 DEF NewestGrows
    <3>5. Newest(1 .. m, o)' = Newest(E, o)'
      BY <3>1, <3>3
    <3>6. global_BHR.bits' = Newest(1 .. m, o)'
      BY <1>6, <3>2, <3>4, <3>5
    <3>7. ASSUME config.isGlobalTable PROVE TableIs(global_table, 1 .. m, m)'
      <4>1. k = key /\ global_table \in Tables
        BY <1>14, <3>7 DEF BPInv, TypeOK
      <4>2. TableIs(global_table, 1 .. n, n)
        BY <1>1, <3>7 DEF BPInv, GlobalRight
      <4>3. PICK g, D : g = global_table /\ D = 1 .. n
        OBVIOUS
      <4>4. TableIs([g EXCEPT ![k] = Bumped(@, taken)], E, n + 1)'
        BY <1>1, <1>8, <1>9, <1>15, <3>3, <4>1, <4>2, <4>3, TableNext
      <4>5. global_table' = [g EXCEPT ![k] = Bumped(@, taken)] /\ E = 1 .. m
        BY <1>6, <3>1, <3>3, <4>1, <4>3
      <4> QED
        BY <3>1, <4>4, <4>5
    <3> QED
      BY <3>6, <3>7
  <2> QED
    BY <1>6, <2>1 DEF GlobalRight
<1>18. PICK new : new = [entry EXCEPT !.local_BHR = Shifted(@, taken),
                                      !.local_table[hist] = Bumped(@, taken)]
  OBVIOUS
<1>19. /\ new.valid /\ new.tag = getTag(pc) /\ new.target = t
       /\ new.local_BHR = Shifted(entry.local_BHR, taken)
       /\ new.local_table = [entry.local_table EXCEPT ![hist] = Bumped(@, taken)]
  BY <1>12, <1>18 DEF Entry
<1>20. entries' = [entries EXCEPT ![getEntryByIndex(pc)] = new] /\ getEntryByIndex(pc) \in Indices
  BY <1>2, <1>6, <1>18, IndexType
<1>21. PICK S : S = R \cup {n + 1}
  OBVIOUS
<1>22. EntryIs(new, S, n + 1)'
  <2>1. Newest(S, Zeros)' = Shifted(Newest(R, Zeros), taken)
    <3>1. NewestGrows(n, taken)
      BY <1>1, <1>8, <1>9, NewestNext
    <3> QED
      BY <1>16, <1>21, <3>1 DEF NewestGrows
  <2>2. Max(S) = n + 1
    <3>1. Later(R, n + 1)
      BY <1>2, <1>16 DEF Later
    <3> QED
      BY <1>2, <1>21, <3>1, LastIs
  <2>3. ASSUME ~config.isGlobalTable PROVE TableIs(new.local_table, S, n + 1)'
    <3>1. k = hist /\ TableIs(entry.local_table, R, n)
      BY <1>11, <1>14, <2>3
    <3>2. PICK g \in Tables : g = entry.local_table
      BY <1>12 DEF Entry
    <3>3. TableIs([g EXCEPT ![k] = Bumped(@, taken)], S, n + 1)'
      BY <1>1, <1>8, <1>9, <1>15, <1>16, <1>21, <3>1, <3>2, TableNext
    <3> QED
      BY <1>19, <3>1, <3>2, <3>3
  <2> QED
    BY <1>6, <1>9, <1>11, <1>19, <2>1, <2>2, <2>3 DEF EntryIs
<1>23. ASSUME NEW c \in PCs, NEW Q, NEW e, Q = Resident(n + 2, c)',
              e = entries'[getEntryByIndex(c)]
       PROVE  (Hit(c)' <=> Q # {}) /\ (Q # {} => EntryIs(e, Q, n + 1)')
  <2>0. c \in Nat /\ getEntryByIndex(c) \in Indices
    BY TraceAssumption, IndexType
  <2>1. CASE getEntryByIndex(pc) # getEntryByIndex(c)
    <3>1. Q = Resident(n + 1, c)
      BY <1>1, <1>8, <1>9, <1>23, <2>1, ResidentNext
    <3>2. e = entries[getEntryByIndex(c)]
      BY <1>20, <1>23, <2>0, <2>1 DEF BPInv, TypeOK
    <3>3. Hit(c)' <=> Hit(c)
      BY <1>23, <3>2 DEF Hit, getEntryByIndex, getTag
    <3>4. (Hit(c) <=> Q # {}) /\ (Q # {} => EntryIs(e, Q, n))
      BY <1>1, <3>1, <3>2 DEF BPInv, EntriesRight
    <3>5. Q \subseteq 1 .. n
      BY <1>2, <3>1, PastIs
    <3>6. ASSUME Q # {} PROVE EntryIs(e, Q, n + 1)'
      <4>1. EntryIs(e, Q, n)
        BY <3>4, <3>6
      <4>2. Newest(Q, Zeros)' = Newest(Q, Zeros)
        BY <1>1, <1>8, <3>5, NewestKept
      <4>3. log'[Max(Q)] = log[Max(Q)]
        BY <1>2, <1>7, <3>5, <3>6, LastIs
      <4>4. ASSUME ~config.isGlobalTable PROVE TableIs(e.local_table, Q, n + 1)'
        <5>1. PICK g : g = e.local_table
          OBVIOUS
        <5>2. TableIs(g, Q, n)
          BY <4>1, <4>4, <5>1 DEF EntryIs
        <5>3. TableIs(g, Q, n + 1)'
          BY <1>1, <1>8, <1>9, <3>5, <5>2, TableStays
        <5> QED
          BY <5>1, <5>3
      <4> QED
        BY <1>6, <4>1, <4>2, <4>3, <4>4 DEF EntryIs
    <3> QED
      BY <3>3, <3>4, <3>6
  <2>2. CASE getEntryByIndex(pc) = getEntryByIndex(c)
    <3>1. e = new
      BY <1>20, <1>23, <2>2 DEF BPInv, TypeOK
    <3>2. Hit(c)' <=> getTag(pc) = getTag(c)
      BY <1>19, <1>23, <3>1 DEF Hit, getEntryByIndex, getTag
    <3>3. CASE getTag(pc) = getTag(c)
      <4>1. Q = Resident(n + 1, c) \cup {n + 1}
        BY <1>1, <1>8, <1>9, <1>23, <2>2, <3>3, ResidentNext
      <4>2. Resident(n + 1, c) = R
        BY <1>10, <2>2, <3>3, ResidentAlias
      <4>3. Q = S /\ Q # {}
        BY <1>21, <4>1, <4>2
      <4> QED
        BY <1>22, <3>1, <3>2, <3>3, <4>3
    <3>4. CASE getTag(pc) # getTag(c)
      <4>1. Q = {}
        BY <1>1, <1>8, <1>9, <1>23, <2>2, <3>4, ResidentNext
      <4> QED
        BY <3>2, <3>4, <4>1
    <3> QED
      BY <3>3, <3>4
  <2> QED
    BY <2>1, <2>2
<1>24. EntriesRight'
  BY <1>2, <1>7, <1>23 DEF EntriesRight, getEntryByIndex
<1> QED
  BY <1>8, <1>17, <1>24 DEF BPInv
-----------------------------------------------------------------------------
LEMMA BPInit == Init => BPInv
<1> SUFFICES ASSUME Init PROVE BPInv
  OBVIOUS
<1>1. TypeOK
  BY InitType
<1>2. /\ log = << >> /\ startHistory = global_BHR.bits /\ global_BHR.bits \in History
      /\ global_table = FreshTable(config.fsmState)
  BY <1>1 DEF Init, TypeOK
<1>3. LogOK
  <2>1. << >> \in Seq(Branch)
    OBVIOUS
  <2> QED
    BY <1>1, <1>2, <2>1 DEF LogOK, TypeOK
<1>4. Len(log) = 0 /\ 1 .. (0 + 1) - 1 = {} /\ 1 .. 0 = {}
  BY <1>2
<1>5. EntriesRight
  <2>1. \A c : Resident(0 + 1, c) = {}
    BY <1>4, PastIs
  <2>2. ASSUME NEW c \in PCs PROVE ~Hit(c)
    <3>1. getEntryByIndex(c) \in Indices
      BY TraceAssumption, IndexType
    <3> QED
      BY <3>1 DEF Init, Hit
  <2> QED
    BY <1>4, <2>1, <2>2 DEF EntriesRight
<1>6. GlobalRight
  <2>1. Newest({}, startHistory) = startHistory
    BY <1>2, NewestNone
  <2>2. TableIs(global_table, {}, 0)
    <3>1. \A T : Trained(T, 0) = config.fsmState
      BY TrainedStep
    <3>2. \A h \in History : global_table[h] = config.fsmState
      BY <1>2 DEF FreshTable
    <3> QED
      BY <3>1, <3>2 DEF TableIs
  <2> QED
    BY <1>2, <1>4, <2>1, <2>2 DEF GlobalRight
<1> QED
  BY <1>1, <1>3, <1>5, <1>6 DEF BPInv

LEMMA BPStep == BPInv /\ [Next]_vars => BPInv'
<1> SUFFICES ASSUME BPInv, [Next]_vars PROVE BPInv'
  OBVIOUS
<1>1. TypeOK'
  BY TypeStep DEF BPInv
<1>2. ASSUME NEW o \in Outcomes, BP_update(o.targetPc, o.taken) PROVE BPInv'
  <2>1. o.targetPc \in Nat /\ o.taken \in BOOLEAN
    BY TraceAssumption
  <2> QED
    BY <1>1, <1>2, <2>1, UpdateKeeps
<1>3. ASSUME UNCHANGED <<config, entries, global_BHR, global_table, startHistory, log>>
      PROVE  BPInv'
  BY <1>1, <1>3, SameLog
<1>4. \/ \E o \in Outcomes : BP_update(o.targetPc, o.taken)
      \/ UNCHANGED <<config, entries, global_BHR, global_table, startHistory, log>>
  BY DEF Next, BP_predict, UpdateOutOfTable, BP_GetStats, vars
<1> QED
  BY <1>2, <1>3, <1>4

LEMMA BPAlways == Spec => []BPInv
<1> QED
  BY BPInit, BPStep, PTL DEF Spec

(* A step that adds no branch, or one, is an extension of the log.         *)
LEMMA LogGrows == BPInv /\ [Next]_vars => Extended
<1> SUFFICES ASSUME BPInv, [Next]_vars PROVE Extended
  OBVIOUS
<1>1. LogOK
  BY DEF BPInv
<1>2. ASSUME NEW o \in Outcomes, BP_update(o.targetPc, o.taken) PROVE Extended
  <2>1. PICK b : log' = Append(log, b)
    BY <1>2 DEF BP_update
  <2>2. \A q \in 1 .. Len(log) : log'[q] = log[q]
    BY <1>1, <2>1 DEF LogOK
  <2> QED
    BY <1>1, <1>2, <2>2 DEF Extended, BP_update
<1>3. ASSUME UNCHANGED <<config, startHistory, log>> PROVE Extended
  BY <1>1, <1>3 DEF Extended
<1>4. \/ \E o \in Outcomes : BP_update(o.targetPc, o.taken)
      \/ UNCHANGED <<config, startHistory, log>>
  BY DEF Next, BP_predict, UpdateOutOfTable, BP_GetStats, vars
<1> QED
  BY <1>2, <1>3, <1>4

(* The prediction waiting for its outcome is the reference's.              *)
PendingRight ==
  pending # << >> => \A n, c : n = Len(log) + 1 /\ c = pending[1] =>
                       pending[2] = PredictionAt(n, c)

LEMMA PendingStep == BPInv /\ PendingRight /\ [Next]_vars => PendingRight'
<1> SUFFICES ASSUME BPInv, PendingRight, [Next]_vars,
                    pending' # << >>, NEW n, NEW c, n = Len(log') + 1, c = pending'[1]
             PROVE  pending'[2] = PredictionAt(n, c)'
  BY DEF PendingRight
<1>1. Extended /\ Len(log) \in Nat
  BY LogGrows, LogFacts DEF BPInv
<1>2. log' = log
  BY DEF Next, BP_predict, BP_update, UpdateOutOfTable, BP_GetStats, vars
<1>3. n \in 1 .. Len(log) + 1 /\ n = Len(log) + 1
  BY <1>1, <1>2
<1>4. PredictionAt(n, c)' = PredictionAt(n, c)
  BY <1>1, <1>3, PredictionKept
<1>5. CASE pending' = pending
  BY <1>2, <1>4, <1>5 DEF PendingRight
<1>6. CASE pending' # pending
  <2>1. PICK pc \in PCs : BP_predict(pc)
    BY <1>6 DEF Next, BP_update, UpdateOutOfTable, BP_GetStats, vars
  <2>2. c = pc /\ pending'[2] = Prediction(pc)
    BY <2>1 DEF BP_predict
  <2>3. Prediction(pc) = PredictionAt(n, pc)
    <3>1. PICK m : m = Len(log)
      OBVIOUS
    <3> QED
      BY <1>3, <3>1, PredictionRight
  <2> QED
    BY <1>4, <2>2, <2>3
<1> QED
  BY <1>5, <1>6

(* Every prediction is the one the whole trace so far calls for, for every *)
(* size of the table, of the histories and of the tags, every              *)
(* configuration and every trace (bp.cpp:352-433).                         *)
THEOREM PredictionCorrect == Spec => []PredictionExact
<1>1. Init => PendingRight
  BY DEF Init, PendingRight
<1>2. PendingRight => PredictionExact
  BY DEF PendingRight, PredictionExact
<1> QED
  BY <1>1, <1>2, BPAlways, PendingStep, PTL DEF Spec
-----------------------------------------------------------------------------
(* The branches after which the reference would have fetched from the      *)
(* wrong address.                                                          *)
WrongAt(p, a) ==
  PredictionAt(p, a).dst # IF log[p].taken THEN log[p].targetPc ELSE a + 4
Wrong(p) ==
  PredictionAt(p, log[p].pc).dst #
    IF log[p].taken THEN log[p].targetPc ELSE log[p].pc + 4
WrongUnfold == \A p, a : a = log[p].pc => (Wrong(p) <=> WrongAt(p, a))

LEMMA WrongUnfoldHolds == WrongUnfold
  BY Zenon DEF WrongUnfold, Wrong, WrongAt

FlushesRight ==
  \A n, F : n = Len(log) /\ F = {p \in 1 .. n : Wrong(p)} =>
    update_counter = n /\ flush_counter = Cardinality(F)

LEMMA WrongKept ==
  ASSUME Extended
  PROVE  \A p \in 1 .. Len(log) : Wrong(p)' <=> Wrong(p)
<1> TAKE p \in 1 .. Len(log)
<1>1. p \in 1 .. Len(log) + 1
  BY LogFacts DEF Extended
<1>2. PICK a : a = log[p].pc
  OBVIOUS
<1>3. log'[p] = log[p]
  BY DEF Extended
<1>4. WrongAt(p, a)' <=> WrongAt(p, a)
  <2>1. PredictionAt(p, a)' = PredictionAt(p, a)
    BY <1>1, PredictionKept
  <2> QED
    BY <1>3, <2>1 DEF WrongAt
<1>5. WrongUnfold /\ WrongUnfold'
  BY WrongUnfoldHolds, PTL
<1> QED
  BY <1>2, <1>3, <1>4, <1>5 DEF WrongUnfold

LEMMA FlushesStep == BPInv /\ PendingRight /\ FlushesRight /\ [Next]_vars => FlushesRight'
<1> SUFFICES ASSUME BPInv, PendingRight, FlushesRight, [Next]_vars,
                    NEW m, NEW G, m = Len(log'), G = {p \in 1 .. m : Wrong(p)'}
             PROVE  update_counter' = m /\ flush_counter' = Cardinality(G)
  BY DEF FlushesRight
<1>1. PICK n, F : n = Len(log) /\ F = {p \in 1 .. n : Wrong(p)}
  OBVIOUS
<1>2. Extended /\ n \in Nat
  BY <1>1, LogGrows, LogFacts DEF BPInv
<1>3. update_counter = n /\ flush_counter = Cardinality(F)
  BY <1>1 DEF FlushesRight
<1>4. \A p \in 1 .. n : Wrong(p)' <=> Wrong(p)
  BY <1>1, <1>2, WrongKept
<1>5. CASE UNCHANGED <<log, update_counter, flush_counter>>
  <2>1. G = F
    BY <1>1, <1>4, <1>5
  <2> QED
    BY <1>1, <1>3, <1>5, <2>1
<1>6. ASSUME NEW o \in Outcomes, BP_update(o.targetPc, o.taken)
      PROVE  update_counter' = m /\ flush_counter' = Cardinality(G)
  <2>0. o.targetPc \in Nat /\ o.taken \in BOOLEAN
    BY TraceAssumption
  <2>1. PICK pc, d : pc = pending[1] /\ d = pending[2].dst
    OBVIOUS
  <2>2. pending # << >> /\ log' = Append(log, [pc |-> pc, targetPc |-> o.targetPc, taken |-> o.taken])
        /\ update_counter' = update_counter + 1
        /\ flush_counter' = IF Flushes(pc, o.targetPc, o.taken, d)
                            THEN flush_counter + 1 ELSE flush_counter
    BY <1>6, <2>1 DEF BP_update
  <2>3. m = n + 1 /\ log'[n + 1] = [pc |-> pc, targetPc |-> o.targetPc, taken |-> o.taken]
    BY <1>1, <2>2 DEF BPInv, LogOK
  <2>4. d = PredictionAt(n + 1, pc).dst
    BY <1>1, <2>1, <2>2 DEF PendingRight
  <2>5. PredictionAt(n + 1, pc)' = PredictionAt(n + 1, pc)
    <3>1. n + 1 \in 1 .. Len(log) + 1
      BY <1>1, <1>2
    <3> QED
      BY <1>2, <3>1, PredictionKept
  <2>6. Wrong(n + 1)' <=> Flushes(pc, o.targetPc, o.taken, d)
    <3>1. WrongUnfold'
      BY WrongUnfoldHolds, PTL
    <3>2. Wrong(n + 1)' <=> WrongAt(n + 1, pc)'
      BY <2>3, <3>1 DEF WrongUnfold
    <3>3. WrongAt(n + 1, pc)' <=> d # IF o.taken THEN o.targetPc ELSE pc + 4
      BY <2>3, <2>4, <2>5 DEF WrongAt
    <3> QED
      BY <2>0, <3>2, <3>3 DEF Flushes
  <2>7. IsFiniteSet(F) /\ Cardinality(F) \in Nat /\ n + 1 \notin F
    <3>1. F \subseteq 1 .. n
      BY <1>1
    <3>2. IsFiniteSet(F)
      BY <1>2, <3>1, OrderedPast DEF Ordered
    <3> QED
      BY <1>2, <3>1, <3>2, FS_CardinalityType
  <2>8. 1 .. m = 1 .. n \cup {n + 1}
    BY <1>2, <2>3
  <2>9. CASE Wrong(n + 1)'
    <3>1. G = F \cup {n + 1}
      BY <1>1, <1>4, <2>8, <2>9
    <3>2. Cardinality(G) = Cardinality(F) + 1
      BY <2>7, <3>1, FS_AddElement
    <3> QED
      BY <1>3, <2>2, <2>3, <2>6, <2>9, <3>2
  <2>10. CASE ~Wrong(n + 1)'
    <3>1. G = F
      BY <1>1, <1>4, <2>8, <2>10
    <3> QED
      BY <1>3, <2>2, <2>3, <2>6, <2>10, <3>1
  <2> QED
    BY <2>9, <2>10
<1>7. \/ \E o \in Outcomes : BP_update(o.targetPc, o.taken)
      \/ UNCHANGED <<log, update_counter, flush_counter>>
  BY DEF Next, BP_predict, UpdateOutOfTable, BP_GetStats, vars
<1> QED
  BY <1>5, <1>6, <1>7

(* The flush counter counts exactly the branches after which the reference *)
(* would have fetched from the wrong address (bp.cpp:356-362, 455-456).    *)
THEOREM FlushesCorrect == Spec => []FlushesExact
<1>1. Init => PendingRight /\ FlushesRight
  <2> SUFFICES ASSUME Init PROVE PendingRight /\ FlushesRight
    OBVIOUS
  <2>1. Len(log) = 0 /\ 1 .. 0 = {} /\ update_counter = 0 /\ flush_counter = 0
    BY DEF Init
  <2>2. Cardinality({}) = 0
    BY FS_EmptySet
  <2>3. \A n, F : n = Len(log) /\ F = {p \in 1 .. n : Wrong(p)} => n = 0 /\ F = {}
    BY <2>1
  <2> QED
    BY <2>1, <2>2, <2>3 DEF Init, PendingRight, FlushesRight
<1>2. FlushesRight => FlushesExact
  BY DEF FlushesRight, FlushesExact, Wrong
<1> QED
  BY <1>1, <1>2, BPAlways, PendingStep, FlushesStep, PTL DEF Spec
=============================================================================
