------------------------------ MODULE Dataflow ------------------------------
(***************************************************************************)
(* The dataflow graph of a model: operations that read and write operands  *)
(* (newnnfw/runtimes/neurun/src/graph).  An operation node keeps the set   *)
(* of its input and of its output operands; an edge goes from an operation *)
(* to every operation that reads one of its outputs.                       *)
(*                                                                         *)
(* The traversals of the graph (DagChecker, PostDfs), its compilation and  *)
(* its execution read it and never change it, so they extend this module   *)
(* and freeze its variables.                                               *)
(***************************************************************************)
EXTENDS Integers, FiniteSets

CONSTANTS Operation,   \* the indexes of Graph::_operations
          Operand      \* the indexes of Graph::_operands

ASSUME FiniteAssumption == IsFiniteSet(Operation)   \* an unordered_map

VARIABLES inputs,      \* Node::_inputs, per operation
          outputs      \* Node::_outputs, per operation

graph == <<inputs, outputs>>

GraphTypeOK ==
  /\ inputs \in [Operation -> SUBSET Operand]
  /\ outputs \in [Operation -> SUBSET Operand]

\* Object::_uses, as Graph::initializeUseDef fills it: the operations that
\* have the operand among their inputs.
Uses(x) == {o \in Operation : x \in inputs[o]}

\* The operations that read an output of o.
Successors(o) == UNION {Uses(x) : x \in outputs[o]}

\* The graphs finishBuilding accepts, cyclic ones too; every node has exactly
\* one output, as the constructors of the node types assert.
GraphInit ==
  /\ inputs \in [Operation -> SUBSET Operand]
  /\ outputs \in [Operation -> {{x} : x \in Operand}]

-----------------------------------------------------------------------------
\* No set of operations feeds itself: each non-empty one has a member none of
\* whose outputs is read inside the set.  On a finite graph this says that the
\* graph has no cycle.
WellFounded(S) ==
  \A T \in SUBSET S : T # {} => \E o \in T : Successors(o) \cap T = {}

Acyclic == WellFounded(Operation)

\* What linear::Linear makes of an acyclic graph (DefsBeforeUses and
\* EveryOperationOnce of PostDfs): every operation once, before its readers.
Schedules ==
  {s \in [1 .. Cardinality(Operation) -> Operation] :
     \A i, j \in DOMAIN s : /\ s[i] = s[j] => i = j
                            /\ s[j] \in Successors(s[i]) => i < j}
=============================================================================
