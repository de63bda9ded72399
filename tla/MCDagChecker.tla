---------------------------- MODULE MCDagChecker ----------------------------
(* Every graph of three operations with one output each over three operands, *)
(* two operations sharing an output and operations reading their own output  *)
(* included.                                                                 *)
EXTENDS DagChecker
=============================================================================
