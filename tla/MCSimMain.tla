------------------------------ MODULE MCSimMain ------------------------------
EXTENDS SimMain, MCPrograms

SimPrograms == [t \in 0 .. 1 |-> OwnPrograms(t) \cup {LoadTwice(Start)}]
=============================================================================
