-------------------------------- MODULE MCWrap --------------------------------
(* The fine-grained loop with counters of four bits instead of 32, so that *)
(* two loads of the longest latency that fits in an int last as long as    *)
(* the counter does.                                                       *)
EXTENDS FinegrainedMT, MCPrograms

WrapPrograms == [t \in 0 .. 1 |-> {Quick, LoadTwice(0)}]
WrapImage    == [w \in 0 .. 3 |-> w]
Garbage      == {Nop, Halt, I("ADDI", 0, 0, 1, TRUE)}
=============================================================================
