-------------------------- MODULE TopologicalOrder --------------------------
(***************************************************************************)
(* What linear::Linear promises to the code generator, without saying how: *)
(* the operations are listed one by one, each after all of its readers     *)
(* when the graph has no cycle, and the finished list is turned around, so *)
(* that every operation then precedes the readers of its outputs.          *)
(***************************************************************************)
EXTENDS Dataflow, Integers, SequencesExt

VARIABLES order,   \* Linear::_operations
          ready    \* the list is complete and in execution order

vars == <<inputs, outputs, order, ready>>

Placed == {order[i] : i \in 1 .. Len(order)}

Init ==
  /\ GraphInit
  /\ order = <<>>
  /\ ready = FALSE

Place(o) ==
  /\ ~ready
  /\ o \notin Placed
  /\ Acyclic => Successors(o) \subseteq Placed
  /\ order' = Append(order, o)
  /\ UNCHANGED <<graph, ready>>

Complete ==
  /\ ~ready
  /\ Placed = Operation
  /\ order' = Reverse(order)
  /\ ready' = TRUE
  /\ UNCHANGED graph

Next == Complete \/ \E o \in Operation : Place(o)

Spec == Init /\ [][Next]_vars
FairSpec == Spec /\ WF_vars(Next)
=============================================================================
