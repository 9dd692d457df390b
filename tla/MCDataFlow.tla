------------------------------ MODULE MCDataFlow ------------------------------
EXTENDS DflowMain

MCOpsFiles ==
  {<<1, 3>>, <<BLANK, 3>>, <<3>>, <<1, 3, 1>>, <<1, MALFORMED>>}

MCLongTails == {[opcode |-> 1, dst |-> 0, src1 |-> 0, src2 |-> 1]}
=============================================================================
