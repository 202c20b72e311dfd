------------------------------- MODULE MCIpc -------------------------------
EXTENDS Ipc

FiveElements == [k \in 0 .. 4 |-> 2 ^ k]
=============================================================================
