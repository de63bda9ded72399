----------------------------- MODULE MCNNModel -----------------------------
(***************************************************************************)
(* A small instance of NNModel: four operands, of which the last is left   *)
(* for an insertion into a chain of two operations.  The lists hold a      *)
(* missing operand (until it is added), a joint input and a repeated one,  *)
(* and an output list of which the node keeps the first.                   *)
(***************************************************************************)
EXTENDS NNModel

MCInputLists == {<<0>>, <<1>>, <<0, 1>>, <<0, 0>>, <<3>>}
MCOutputLists == {<<1>>, <<2>>, <<1, 2>>}
=============================================================================
