------------------------------- MODULE CoreISA -------------------------------
(***************************************************************************)
(* The instruction set of the multithreaded core simulator (HW4): what one *)
(* instruction does to the register file of its thread, to the data memory *)
(* and to the cycle at which the thread is available again.  Everything    *)
(* here is a pure operator, so that the two schedulers, their abstract     *)
(* policies and the reference executions used in properties share it.      *)
(***************************************************************************)
EXTENDS Integers, Sequences

CONSTANTS
  RegsCount,     \* REGS_COUNT, 8 in core_api.h
  DataWords,     \* number of words in data[], 100 in sim_api.c
  DataStart,     \* data_start, the byte address of the "D@" block
  UintMax        \* UINT32_MAX: the largest value of the simulator's words

ASSUME WidthAssumption == UintMax \in Nat /\ UintMax % 2 = 1
ASSUME SizeAssumption ==
  RegsCount \in Nat \ {0} /\ DataWords \in Nat \ {0} /\ DataStart \in Nat

Reg     == 0 .. RegsCount - 1
Word    == 0 .. DataWords - 1
Opcodes == {"NOP", "ADD", "SUB", "ADDI", "SUBI", "LOAD", "STORE", "HALT"}

(* Instruction: src2 is a register index or an immediate, as the opcode or *)
(* the isSrc2Imm flag says.                                                *)
Instruction ==
  {i \in [op : Opcodes, dst : Reg, src1 : Reg, src2 : Int, isSrc2Imm : BOOLEAN] :
     (i.op \in {"ADD", "SUB"} \/ (i.op \in {"LOAD", "STORE"} /\ ~i.isSrc2Imm))
        => i.src2 \in Reg}

(* Arithmetic on unsigned int and on (two's complement) int. *)
Uint(v) == v % (UintMax + 1)
Sint(v) == LET half == (UintMax + 1) \div 2 IN Uint(v + half) - half

Addend(inst, r) == IF inst.isSrc2Imm THEN inst.src2 ELSE r[inst.src2]

(* The byte address of a LOAD (src1 + src2) or of a STORE (dst + src2). *)
Address(inst, r) ==
  Sint(r[IF inst.op = "STORE" THEN inst.dst ELSE inst.src1] + Addend(inst, r))

(* The word of data[] behind a byte address: C division, towards zero. *)
DataIndex(addr) ==
  LET addr_i == Sint(addr - DataStart)
  IN  IF addr_i >= 0 THEN addr_i \div 4 ELSE -((-addr_i) \div 4)

IsMemoryOp(inst) == inst.op \in {"LOAD", "STORE"}

(* The word a LOAD or a STORE touches. *)
WordOf(inst, r) == DataIndex(Address(inst, r))

(* data[] is indexed unchecked; an image is assumed not to leave it.  The  *)
(* runs check deadlock, so none of them meets an access outside.           *)
InBounds(inst, r) == IsMemoryOp(inst) => WordOf(inst, r) \in Word

RegsAfter(inst, r, mem) ==
  CASE inst.op = "ADD"  -> [r EXCEPT ![inst.dst] = Sint(r[inst.src1] + r[inst.src2])]
    [] inst.op = "SUB"  -> [r EXCEPT ![inst.dst] = Sint(r[inst.src1] - r[inst.src2])]
    [] inst.op = "ADDI" -> [r EXCEPT ![inst.dst] = Sint(r[inst.src1] + inst.src2)]
    [] inst.op = "SUBI" -> [r EXCEPT ![inst.dst] = Sint(r[inst.src1] - inst.src2)]
    [] inst.op = "LOAD" -> [r EXCEPT ![inst.dst] = mem[WordOf(inst, r)]]
    [] OTHER            -> r

DataAfter(inst, r, mem) ==
  IF inst.op = "STORE" THEN [mem EXCEPT ![WordOf(inst, r)] = r[inst.src1]] ELSE mem

(* A thread running by itself from the loaded image: what its registers    *)
(* and the memory hold after k instructions of its program.                *)
Alone(program, image) ==
  LET run[k \in 0 .. Len(program)] ==
        IF k = 0 THEN [regs |-> [r \in Reg |-> 0], data |-> image]
        ELSE LET before == run[k - 1]
                 inst   == program[k]
             IN  [regs |-> RegsAfter(inst, before.regs, before.data),
                  data |-> DataAfter(inst, before.regs, before.data)]
  IN  run
=============================================================================
