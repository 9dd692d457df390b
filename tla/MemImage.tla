------------------------------- MODULE MemImage -------------------------------
(***************************************************************************)
(* How SIM_MemReset (HW4/sim_api.c) reads a memory image: a loop over the  *)
(* parameters, which the number of threads ends, then an outer loop over   *)
(* lines and inside it one loop for a code block and one for a data block, *)
(* all of them reading into the same line buffer.                          *)
(*                                                                         *)
(* A line is known by its kind.  A parameter, an instruction or a word is  *)
(* known by its position in the file, so that every one is different.      *)
(*                                                                         *)
(* Bounds: MaxLines lines, MaxHeader of them before the number of threads, *)
(* MaxThreads threads.                                                     *)
(***************************************************************************)
EXTENDS Integers, Sequences, FiniteSets

CONSTANTS
  MaxThreads,     \* the largest number of threads an image asks for
  InstCapacity,   \* instructions that fit in what is allocated for a thread
  DataCapacity,   \* length of data[]
  MaxLines,
  MaxHeader

ASSUME CapacityAssumption == InstCapacity \in Nat /\ DataCapacity \in Nat
ASSUME LinesAssumption    == MaxLines \in Nat /\ MaxHeader \in Nat /\ MaxThreads \in Nat

Threads == 0 .. MaxThreads - 1       \* the threads a "T" line may name

Parameters == {"L", "S", "O"}
Kinds == {"blank", "I@", "D@", "inst", "word"}    \* "blank": empty or a comment

Lines       == [kind : Kinds] \cup [kind : {"T"}, tid : Threads]
HeaderLines == [kind : Parameters \cup {"blank"}]
NLines      == [kind : {"N"}, threads : 1 .. MaxThreads]
None  == -1

VARIABLES
  file,           \* the lines read so far
  eof,            \* fgets has returned NULL
  loop,           \* "header", "top", "openCode", "openData", "code", "data",
                  \* "done" or "undefined"
  line,           \* the position in file of the line in the buffer
  tid,            \* None until a "T" line is read
  index,          \* inst or data_i
  parameters,     \* load_store_latency and switch_
  threadnumber,
  data_start,     \* the "D@" line it was taken from
  instructions, data

headerVars == <<parameters, threadnumber>>
vars == <<file, eof, loop, line, tid, index, headerVars, data_start, instructions, data>>

Empty == 0        \* a cell no line was stored in

Init ==
  /\ file = << >>
  /\ eof = FALSE
  /\ loop = "header"
  /\ line = 0
  /\ parameters = [p \in Parameters |-> Empty]
  /\ threadnumber = 0
  /\ data_start = Empty
  /\ tid = None
  /\ index = 0
  /\ instructions = [t \in Threads |-> [k \in 0 .. InstCapacity - 1 |-> Empty]]
  /\ data = [k \in 0 .. DataCapacity - 1 |-> Empty]

More == ~eof /\ Len(file) < MaxLines

(* fgets: any line may come next. *)
Fgets(l) == file' = Append(file, l) /\ line' = Len(file) + 1 /\ UNCHANGED eof
FgetsNull == eof' = TRUE /\ UNCHANGED <<file, line>>

(* The loop over the parameters: the last line of a kind counts, and what  *)
(* is no parameter is passed over.                                         *)
Parameter ==
  /\ loop = "header" /\ More /\ Len(file) < MaxHeader
  /\ \E l \in HeaderLines :
       /\ Fgets(l)
       /\ parameters' = IF l.kind \in Parameters THEN [parameters EXCEPT ![l.kind] = line']
                        ELSE parameters
  /\ UNCHANGED <<loop, tid, index, threadnumber, data_start, instructions, data>>

(* "N": room is made for the instructions of every thread. *)
NumberOfThreads ==
  /\ loop = "header" /\ More
  /\ \E l \in NLines : Fgets(l) /\ threadnumber' = l.threads
  /\ loop' = "top"
  /\ UNCHANGED <<tid, index, parameters, data_start, instructions, data>>

NoThreads ==
  /\ loop = "header"
  /\ FgetsNull
  /\ loop' = "top"
  /\ UNCHANGED <<tid, index, headerVars, data_start, instructions, data>>

(* Faulty variant: threads are counted from one. *)
SelectThread_OneBased ==
  /\ loop = "top" /\ More
  /\ \E t \in Threads : Fgets([kind |-> "T", tid |-> t]) /\ tid' = t + 1
  /\ UNCHANGED <<loop, index, headerVars, data_start, instructions, data>>

(* The outer loop reads a line that only selects a thread or is ignored; a *)
(* parameter comes too late.                                               *)
SelectThread ==
  /\ loop = "top" /\ More
  /\ \E t \in Threads : Fgets([kind |-> "T", tid |-> t]) /\ tid' = t
  /\ UNCHANGED <<loop, index, headerVars, data_start, instructions, data>>

Ignore ==
  /\ loop = "top" /\ More
  /\ \E kind \in {"blank", "inst", "word", "L"} : Fgets([kind |-> kind])
  /\ UNCHANGED <<loop, tid, index, headerVars, data_start, instructions, data>>

(* Faulty variant: the position in the block is not reset. *)
OpenCode_KeepsIndex ==
  /\ loop = "top" /\ More
  /\ Fgets([kind |-> "I@"])
  /\ loop' = "openCode"
  /\ UNCHANGED <<tid, index, headerVars, data_start, instructions, data>>

(* A location line starts a block; the block's loop first reads a line.    *)
OpenCode ==
  /\ loop = "top" /\ More
  /\ Fgets([kind |-> "I@"])
  /\ loop' = "openCode"
  /\ index' = 0
  /\ UNCHANGED <<tid, headerVars, data_start, instructions, data>>

OpenData ==
  /\ loop = "top" /\ More
  /\ Fgets([kind |-> "D@"])
  /\ loop' = "openData"
  /\ index' = 0
  /\ data_start' = line'
  /\ UNCHANGED <<tid, headerVars, instructions, data>>

FirstLine ==
  /\ loop \in {"openCode", "openData"} /\ More
  /\ \E l \in Lines : Fgets(l)
  /\ loop' = IF loop = "openCode" THEN "code" ELSE "data"
  /\ UNCHANGED <<tid, index, headerVars, data_start, instructions, data>>

(* The end of file leaves the location line in the buffer. *)
NoFirstLine ==
  /\ loop \in {"openCode", "openData"}
  /\ loop' = IF loop = "openCode" THEN "code" ELSE "data"
  /\ FgetsNull
  /\ UNCHANGED <<tid, index, headerVars, data_start, instructions, data>>

CodeEnds == file[line].kind \in {"blank", "D@"}
DataEnds == file[line].kind \in {"blank", "I@"}

(* A block's loop leaves the line it ended on in the buffer, and the outer *)
(* loop overwrites it.                                                     *)
CloseBlock ==
  /\ \/ loop = "code" /\ CodeEnds
     \/ loop = "data" /\ DataEnds
  /\ loop' = "top"
  /\ UNCHANGED <<file, eof, line, tid, index, headerVars, data_start, instructions, data>>

(* get_inst finds no name for the line, no thread was selected or one past *)
(* the last, or the block is longer than the array: the rest is undefined. *)
BadCode ==
  file[line].kind # "inst" \/ tid \notin 0 .. threadnumber - 1 \/ index >= InstCapacity

StoreInst ==
  /\ loop = "code" /\ ~CodeEnds /\ ~BadCode
  /\ instructions' = [instructions EXCEPT ![tid][index] = line]
  /\ index' = index + 1
  /\ \/ More /\ (\E l \in Lines : Fgets(l)) /\ UNCHANGED loop
     \/ loop' = "top" /\ FgetsNull
  /\ UNCHANGED <<tid, headerVars, data_start, data>>

(* Any text converts to a number, zero if it does not start with digits.   *)
StoreWord ==
  /\ loop = "data" /\ ~DataEnds /\ index < DataCapacity
  /\ data' = [data EXCEPT ![index] = IF file[line].kind = "word" THEN line ELSE Empty]
  /\ index' = index + 1
  /\ \/ More /\ (\E l \in Lines : Fgets(l)) /\ UNCHANGED loop
     \/ loop' = "top" /\ FgetsNull
  /\ UNCHANGED <<tid, headerVars, data_start, instructions>>

Undefined ==
  /\ \/ loop = "code" /\ ~CodeEnds /\ BadCode
     \/ loop = "data" /\ ~DataEnds /\ index >= DataCapacity
  /\ loop' = "undefined"
  /\ UNCHANGED <<file, eof, line, tid, index, headerVars, data_start, instructions, data>>

EndOfFile ==
  /\ loop = "top"
  /\ loop' = "done"
  /\ FgetsNull
  /\ UNCHANGED <<tid, index, headerVars, data_start, instructions, data>>

Next ==
  \/ Parameter \/ NumberOfThreads \/ NoThreads
  \/ SelectThread \/ Ignore \/ OpenCode \/ OpenData
  \/ FirstLine \/ NoFirstLine \/ CloseBlock
  \/ StoreInst \/ StoreWord \/ Undefined \/ EndOfFile

Spec == Init /\ [][Next]_vars
-----------------------------------------------------------------------------
TypeOK ==
  /\ file \in Seq(Lines \cup HeaderLines \cup NLines) /\ Len(file) <= MaxLines
  /\ eof \in BOOLEAN
  /\ loop \in {"header", "top", "openCode", "openData", "code", "data", "done", "undefined"}
  /\ line \in 0 .. Len(file)
  /\ tid \in Threads \cup {None}
  /\ index \in 0 .. MaxLines
  /\ threadnumber \in 0 .. MaxThreads
  /\ parameters \in [Parameters -> 0 .. Len(file)]
  /\ data_start \in 0 .. Len(file)
  /\ instructions \in [Threads -> [0 .. InstCapacity - 1 -> 0 .. Len(file)]]
  /\ data \in [0 .. DataCapacity - 1 -> 0 .. Len(file)]

Kind(k)        == file[k].kind
Follows(k, ks) == k > 1 /\ Kind(k - 1) \in ks

(* Where the header ends: at its "N" line or, without one, with the file.  *)
NLine  == {k \in DOMAIN file : Kind(k) = "N"}
Header == IF NLine = {} THEN DOMAIN file ELSE 1 .. CHOOSE k \in NLine : TRUE
Body   == DOMAIN file \ Header

(* The layout of every image under HW4/tests: comments and parameters, the *)
(* number of threads, then a blank line ends each block, a thread has one  *)
(* block, right after its "T" line, and there is one block of data.        *)
WellLaidOut ==
  /\ \A k \in Body :
       /\ Kind(k) = "inst"  => Follows(k, {"I@", "inst"})
       /\ Kind(k) = "word"  => Follows(k, {"D@", "word"})
       /\ Kind(k) = "I@"    => Follows(k, {"T"})
       /\ Kind(k) = "blank" => ~Follows(k, {"I@", "D@"})
       /\ Kind(k) \in {"T", "D@"} => Follows(k, {"N", "blank"})
       /\ Kind(k) # "L"
  /\ \A k \in Body : Kind(k) = "T" => file[k].tid < threadnumber
  /\ \A j, k \in Body : Kind(j) \in {"T", "D@"} /\ file[j] = file[k] => j = k
  /\ eof => Len(file) = 0 \/ Kind(Len(file)) \notin {"I@", "D@"}

InstLines(t) == {k \in DOMAIN file : Kind(k) = "inst" /\
  \E j \in 1 .. k : /\ file[j] = [kind |-> "T", tid |-> t]
                    /\ \A m \in j + 1 .. k : Kind(m) # "T"}
WordLines    == {k \in DOMAIN file : Kind(k) = "word"}

Fits == /\ \A t \in Threads : Cardinality(InstLines(t)) <= InstCapacity
        /\ Cardinality(WordLines) <= DataCapacity

(* The element of S with n smaller ones. *)
Nth(S, n) ==
  IF n < Cardinality(S) THEN CHOOSE k \in S : Cardinality({m \in S : m < k}) = n
  ELSE Empty

(* An image laid out as the tests are, whose blocks fit, is loaded exactly:*)
(* each line reaches its own thread and place, through the nested loops    *)
(* and their shared buffer, no other cell is touched, and the latencies    *)
(* are those of the header's last line of their kind.                      *)
ImageLoaded ==
  WellLaidOut /\ Fits =>
    /\ loop # "undefined"
    /\ loop = "done" =>
         /\ \A t \in Threads : \A n \in 0 .. InstCapacity - 1 :
              instructions[t][n] = Nth(InstLines(t), n)
         /\ \A n \in 0 .. DataCapacity - 1 : data[n] = Nth(WordLines, n)
         /\ WordLines # {} => data_start = Nth(WordLines, 0) - 1
         /\ \A p \in Parameters :
              LET given == {k \in Header : Kind(k) = p}
              IN  parameters[p] = IF given = {} THEN Empty ELSE Nth(given, Cardinality(given) - 1)

(* "Each subsequent line up to the next "@" line is an instruction ... The *)
(* following lines are data values" (sim_api.h:29,32): a word of a data    *)
(* block is in the data memory, whatever comes before the block.           *)
DataSectionsLoaded ==
  loop = "done" =>
    \A k \in 3 .. Len(file) :
      Kind(k) = "word" /\ Kind(k - 1) = "D@" /\ Kind(k - 2) = "inst" =>
        \E n \in 0 .. DataCapacity - 1 : data[n] = k

(* An image laid out as the tests are is loaded: its blocks may be as long *)
(* as theirs, 68 instructions in tests/test1.img, where the allocation of  *)
(* 100 pointers (sim_api.c:200) leaves room for 40 instructions.           *)
AnyProgramLoads == WellLaidOut => loop # "undefined"
=============================================================================
