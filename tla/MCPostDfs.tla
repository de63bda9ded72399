------------------------------ MODULE MCPostDfs ------------------------------
(* Every graph of three operations with one output each over three operands, *)
(* cyclic ones, operations reading their own output and operations sharing   *)
(* an output included.                                                       *)
EXTENDS PostDfs
=============================================================================
