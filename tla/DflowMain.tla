------------------------------ MODULE DflowMain ------------------------------
(***************************************************************************)
(* HW3/dflow_main.c around the analysis of DataFlow: it reads the file of  *)
(* latencies, then the program into a buffer that grows as it fills, has   *)
(* it analysed, answers the queries of its command line and exits.  A line *)
(* is the kind of text it holds; the program file is chosen line by line.  *)
(*                                                                         *)
(* Bound: MaxLines lines of the program file.                              *)
(***************************************************************************)
EXTENDS DataFlow

CONSTANTS
  OpsFiles,          \* the files of latencies: sequences of their lines
  LongTails,         \* what the rest of an overlong comment may read as
  MAX_OPS,
  PROG_SIZE_QUOTA,
  MaxLines

(* The lines of a file of latencies that are not a number. *)
BLANK     == -1
MALFORMED == -2

ASSUME OpsFilesAssumption == OpsFiles \subseteq Seq(Latencies \cup {BLANK, MALFORMED})
(* Opcodes that are not in the file take no time.                          *)
ASSUME ZeroAssumption == 0 \in Latencies
ASSUME MainAssumption == {MAX_OPS, PROG_SIZE_QUOTA} \subseteq Nat \ {0} /\ MaxLines \in Nat

VARIABLES
  opsFile,
  stage,         \* "ops", "program", "queries", "exited" or "undefined"
  exit_code,     \* NONE until main exits
  opsLatency,
  lines,         \* lines of the program file read so far
  progBuf,       \* the buffer: as many entries as maxInsts of the code
  lineNum,       \* entries of it in use
  listed,        \* history: the instructions on the lines read
  cut            \* history: a comment did not fit in curLine

readVars == <<opsLatency, lines, progBuf, lineNum, listed, cut>>
mainVars == <<vars, opsFile, stage, exit_code, readVars>>

Opcode == 0 .. MAX_OPS - 1
Fields == [opcode : Opcode, dst : Regs, src1 : Regs, src2 : Regs]

(* An instruction with an opcode past opsLatency or a register past regs.  *)
WILD == [opcode |-> MAX_OPS, dst |-> 0, src1 |-> 0, src2 |-> 0]

UNWRITTEN == [opcode |-> NONE, dst |-> NONE, src1 |-> NONE, src2 |-> NONE]

maxInsts == Cardinality(DOMAIN progBuf)

Exit(code) ==
  /\ stage' = "exited"
  /\ exit_code' = code

MainInit ==
  /\ opsFile \in OpsFiles
  /\ stage = "ops"
  /\ exit_code = NONE
  /\ opsLatency = [op \in Opcode |-> 0]
  /\ lines = 0
  /\ progBuf = [k \in {} |-> UNWRITTEN]
  /\ lineNum = 0
  /\ listed = << >>
  /\ cut = FALSE
  /\ Init

(* What readOpsLatency returns: a line past the last opcode is refused     *)
(* before it is parsed.                                                    *)
NumOps ==
  LET parsed == {k \in DOMAIN opsFile : k <= MAX_OPS}
  IN  CASE \E k \in parsed : opsFile[k] = MALFORMED -> -2
        [] (\A k \in parsed : opsFile[k] # MALFORMED) /\ Len(opsFile) > MAX_OPS -> -3
        [] OTHER -> Len(opsFile)

(* A blank line counts as an opcode, whose latency strtol makes 0. *)
LatencyAt(op) ==
  IF op < Len(opsFile) /\ opsFile[op + 1] # BLANK THEN opsFile[op + 1] ELSE 0

readOpsLatency ==
  /\ stage = "ops"
  /\ IF NumOps < 0 THEN Exit(1) ELSE stage' = "program" /\ UNCHANGED exit_code
  /\ opsLatency' = IF NumOps < 0 THEN opsLatency ELSE [op \in Opcode |-> LatencyAt(op)]
  /\ UNCHANGED <<vars, opsFile, lines, progBuf, lineNum, listed, cut>>

(* Faulty variant: the buffer grows one line late. *)
Grown_Late ==
  IF lineNum = maxInsts + 1 THEN
    [k \in 0 .. maxInsts + PROG_SIZE_QUOTA - 1 |-> IF k < maxInsts THEN progBuf[k] ELSE UNWRITTEN]
  ELSE progBuf

(* The buffer a line finds, whatever the line holds: realloc keeps what is *)
(* in it.                                                                  *)
Grown ==
  IF lineNum = maxInsts THEN
    [k \in 0 .. maxInsts + PROG_SIZE_QUOTA - 1 |-> IF k < maxInsts THEN progBuf[k] ELSE UNWRITTEN]
  ELSE progBuf

NextLine ==
  /\ stage = "program"
  /\ lines < MaxLines
  /\ lines' = lines + 1
  /\ UNCHANGED <<vars, opsFile, opsLatency>>

(* An empty line or a comment. *)
SkipLine ==
  /\ NextLine
  /\ progBuf' = Grown
  /\ UNCHANGED <<stage, exit_code, lineNum, listed, cut>>

Store(inst) ==
  /\ lineNum < MaxInsts
  /\ progBuf' = [Grown EXCEPT ![lineNum] = inst]
  /\ lineNum' = lineNum + 1
  /\ UNCHANGED <<stage, exit_code>>

ReadInstruction(inst) ==
  /\ NextLine
  /\ Store(inst)
  /\ listed' = Append(listed, inst)
  /\ UNCHANGED cut

(* fgets returns a comment longer than curLine in pieces: the first is     *)
(* skipped, the rest is a line like any other.                             *)
ReadLongComment(inst) ==
  /\ NextLine
  /\ Store(inst)
  /\ cut' = TRUE
  /\ UNCHANGED listed

(* Too few fields, or one that is not a number; or realloc fails.          *)
ReadFails ==
  /\ NextLine
  /\ Exit(1)
  /\ UNCHANGED <<progBuf, lineNum, listed, cut>>

(* The first lineNum entries of the buffer, as analyzeProg uses them. *)
Decoded(inst) ==
  [latency |-> opsLatency[inst.opcode], dst |-> inst.dst, src1 |-> inst.src1, src2 |-> inst.src2]

Trace == [k \in 1 .. lineNum |-> Decoded(progBuf[k - 1])]

(* The file ends.  Nobody checks the opcodes and the registers.            *)
analyzeProg ==
  /\ stage = "program"
  /\ lineNum > 0
  /\ IF \E k \in 0 .. lineNum - 1 : progBuf[k] \notin Fields
     THEN stage' = "undefined" /\ UNCHANGED vars
     ELSE stage' = "queries" /\ Construct(Trace)
  /\ UNCHANGED <<opsFile, exit_code, readVars>>

NoProgram ==
  /\ stage = "program"
  /\ lineNum = 0
  /\ Exit(1)
  /\ UNCHANGED <<vars, opsFile, readVars>>

(* analyzeProg could not allocate its tables. *)
AnalysisFails ==
  /\ stage = "program"
  /\ lineNum > 0
  /\ Exit(2)
  /\ UNCHANGED <<vars, opsFile, readVars>>

Analyse ==
  /\ stage = "queries"
  /\ Analysis
  /\ UNCHANGED <<opsFile, stage, exit_code, readVars>>

Query(theInst) ==
  /\ stage = "queries"
  /\ getInstDepth(theInst) \/ getInstDeps(theInst)
  /\ UNCHANGED <<opsFile, stage, exit_code, readVars>>

(* A query of another type, or whose number is not one. *)
BadQuery ==
  /\ stage = "queries"
  /\ phase = "ready"
  /\ Exit(3)
  /\ UNCHANGED <<vars, opsFile, readVars>>

(* No query is left: freeProgCtx, and the buffer is freed. *)
Return ==
  /\ stage = "queries"
  /\ phase = "ready"
  /\ Exit(0)
  /\ UNCHANGED <<vars, opsFile, readVars>>

Ended == stage \in {"exited", "undefined"} /\ UNCHANGED mainVars

MainNext ==
  \/ readOpsLatency
  \/ SkipLine \/ ReadFails
  \/ \E inst \in Fields \cup {WILD} : ReadInstruction(inst)
  \/ \E inst \in LongTails : ReadLongComment(inst)
  \/ analyzeProg \/ NoProgram \/ AnalysisFails
  \/ Analyse
  \/ \E theInst \in 0 .. MaxInsts : Query(theInst)
  \/ BadQuery \/ Return
  \/ Ended

MainSpec == MainInit /\ [][MainNext]_mainVars
-----------------------------------------------------------------------------
(* What is analysed is the program of the file, unless a comment did not   *)
(* fit in a line: the buffer grows before every write past its end and     *)
(* keeps what it has, blank lines and comments leave no hole, and the      *)
(* latency of an opcode is on the line of that number of a file without    *)
(* errors (dflow_main.c:47-80, 87-113).                                    *)
ProgramRead ==
  /\ lineNum <= maxInsts
  /\ ~cut => /\ lineNum = Len(listed)
             /\ \A k \in 0 .. lineNum - 1 : progBuf[k] = listed[k + 1]
  /\ phase # "none" /\ ~cut =>
       /\ Len(progTrace) = Len(listed)
       /\ \A k \in DOMAIN listed :
            LET line == listed[k].opcode + 1
            IN  /\ Len(opsFile) <= MAX_OPS
                /\ \A l \in DOMAIN opsFile : opsFile[l] # MALFORMED
                /\ progTrace[k].dst = listed[k].dst
                /\ progTrace[k].latency =
                     IF line \in DOMAIN opsFile /\ opsFile[line] # BLANK THEN opsFile[line] ELSE 0
=============================================================================
