--------------------------- MODULE MCRunVariables ---------------------------
(* Every plan of two nodes, one of three, with two tries each.             *)
EXTENDS RunVariables

Counting == [mode |-> "INCREMENT", type |-> "number"]

TwoWrites == (Write \X Write) \cup {<<Counting, Counting, Counting>>}
=============================================================================
