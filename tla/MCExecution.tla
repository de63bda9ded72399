---------------------------- MODULE MCExecution ----------------------------
(***************************************************************************)
(* A small instance of Execution: two executions, of the same plan or of   *)
(* two, of five small models: a chain with a weight whose inner operand is *)
(* an output too, the same with a constant in place of the weight, which   *)
(* nothing fills, a fork, one with an input that no operation reads, and   *)
(* one with an output that no operation writes.                            *)
(***************************************************************************)
EXTENDS Execution

MCOperation == 1 .. 2
MCOperand == 1 .. 4

Chain == [inputs |-> <<{1, 4}, {2}>>, outputs |-> <<{2}, {3}>>,
          modelIns |-> <<1>>, modelOuts |-> <<2, 3>>, weights |-> {4}]
Unfilled == [Chain EXCEPT !.weights = {}]
Fork == [inputs |-> <<{1}, {1, 4}>>, outputs |-> <<{2}, {3}>>,
         modelIns |-> <<1, 4>>, modelOuts |-> <<3>>, weights |-> {}]
Unread == [inputs |-> <<{1}, {2}>>, outputs |-> <<{2}, {3}>>,
           modelIns |-> <<1, 4>>, modelOuts |-> <<3>>, weights |-> {}]
Stray == [inputs |-> <<{1}, {2}>>, outputs |-> <<{2}, {3}>>,
          modelIns |-> <<1>>, modelOuts |-> <<3, 4>>, weights |-> {}]

MCModels == {Chain, Unfilled, Fork, Unread, Stray}
=============================================================================
