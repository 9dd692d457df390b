------------------------------ MODULE MCPrograms ------------------------------
(***************************************************************************)
(* Small images for the runs of HW4: two registers, four words of data,    *)
(* programs of at most four instructions.                                  *)
(***************************************************************************)
EXTENDS Integers, Sequences

I(op, dst, src1, src2, imm) ==
  [op |-> op, dst |-> dst, src1 |-> src1, src2 |-> src2, isSrc2Imm |-> imm]

Halt == I("HALT", 0, 0, 0, FALSE)
Nop  == I("NOP", 0, 0, 0, FALSE)

(* Byte addresses of the image's data block, which starts at 8. *)
Start   == 8
Data    == <<5, 7, 11, 13>>
MCImage == [w \in 0 .. 3 |-> Data[w + 1]]

(* Increments the word at byte address a. *)
Increment(a) ==
  <<I("LOAD", 0, 1, a, TRUE), I("ADDI", 0, 0, 1, TRUE), I("STORE", 1, 0, a, TRUE), Halt>>

(* Reads one word, writes another, by register addressing; then subtracts. *)
Copy(from, to) ==
  <<I("ADDI", 1, 1, to, TRUE), I("LOAD", 0, 1, from - to, TRUE),
    I("STORE", 1, 0, 0, TRUE), Halt>>

(* No memory access at all; an instruction after the HALT. *)
Compute == <<I("ADDI", 0, 0, 3, TRUE), I("SUB", 1, 1, 0, FALSE), Halt, Nop>>

(* Two loads back to back. *)
LoadTwice(a) ==
  <<I("LOAD", 0, 1, a, TRUE), I("LOAD", 1, 1, a + 4, TRUE), Halt>>

(* Halts at once; an instruction after the HALT that would change r0. *)
Quick == <<Halt, I("ADDI", 0, 0, 1, TRUE)>>

OwnPrograms(t) ==
  {Increment(Start + 4 * t), Copy(Start + 4 * t, Start + 4 * ((t + 1) % 4)), Compute, Quick}

MCPrograms == [t \in 0 .. 2 |-> OwnPrograms(t) \cup {LoadTwice(Start)}]
=============================================================================
