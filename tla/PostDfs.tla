------------------------------ MODULE PostDfs ------------------------------
(***************************************************************************)
(* Graph::PostDfsIterator::iterate, and the linear::Linear constructor     *)
(* that turns its post-order into the order in which the operations are    *)
(* compiled and run.                                                       *)
(*                                                                         *)
(* As in DagChecker the recursion is a state machine over the call stack,  *)
(* and the next call is any of those left: the outermost loop iterates an  *)
(* unordered_map, and the same map's order filled the use lists.           *)
(* Unlike DAGChecker the iterator follows Object::_uses and keeps no       *)
(* on_stack flags, and nothing keeps it from running on a cyclic graph,    *)
(* because Graph::finishBuilding drops the verdict of verify.              *)
(***************************************************************************)
EXTENDS Dataflow, Integers, SequencesExt

VARIABLES roots,     \* operations the outermost iterate has not reached yet
          stack,     \* the operations whose dfs_recursive call is active
          todo,      \* uses an active operation has still to follow
          visited,   \* the vector<bool> visited, as the set of its TRUE entries
          order,     \* Linear::_operations
          ready      \* the Linear constructor has returned

vars == <<inputs, outputs, roots, stack, todo, visited, order, ready>>

Top == Last(stack)

TypeOK ==
  /\ GraphTypeOK
  /\ roots \subseteq Operation
  /\ stack \in Seq(Operation)
  /\ todo \in [Operation -> SUBSET Operation]
  /\ visited \subseteq Operation
  /\ order \in Seq(Operation)
  /\ ready \in BOOLEAN

Init ==
  /\ GraphInit
  /\ roots = Operation
  /\ stack = <<>>
  /\ todo = [o \in Operation |-> {}]
  /\ visited = {}
  /\ order = <<>>
  /\ ready = FALSE

\* A fault that a property below excludes: the body walks operands, not uses.
CallDfsOverOperands(o, calls) ==
  /\ o \notin visited
  /\ visited' = visited \cup {o}
  /\ stack' = Append(stack, o)
  /\ todo' = [calls EXCEPT ![o] = outputs[o]]

\* The head of dfs_recursive(o), where the caller's frame is left with `calls'.
CallDfs(o, calls) ==
  \/ /\ o \in visited
     /\ todo' = calls
     /\ UNCHANGED <<stack, visited>>
  \/ /\ o \notin visited
     /\ visited' = visited \cup {o}
     /\ stack' = Append(stack, o)
     /\ todo' = [calls EXCEPT ![o] = Successors(o)]

\* graph._operations.iterate(dfs_recursive) reaches its next element.
IterateRoot(o) ==
  /\ stack = <<>>
  /\ o \in roots
  /\ roots' = roots \ {o}
  /\ CallDfs(o, todo)
  /\ UNCHANGED <<graph, order, ready>>

\* The active body follows the next use of one of its outputs.
FollowUse(o) ==
  /\ stack # <<>>
  /\ o \in todo[Top]
  /\ CallDfs(o, [todo EXCEPT ![Top] = @ \ {o}])
  /\ UNCHANGED <<graph, roots, order, ready>>

\* A fault: a body ends before it has followed every use.
LeaveDfsEarly ==
  /\ stack # <<>>
  /\ stack' = Front(stack)
  /\ order' = Append(order, Top)
  /\ UNCHANGED <<graph, roots, todo, visited, ready>>

\* The active body has followed every use: fn(node) appends it to the list.
LeaveDfs ==
  /\ stack # <<>>
  /\ todo[Top] = {}
  /\ stack' = Front(stack)
  /\ order' = Append(order, Top)
  /\ UNCHANGED <<graph, roots, todo, visited, ready>>

\* Faults: the post-order is kept; the list is taken before iterate is through.
KeepPostOrder ==
  /\ roots = {} /\ stack = <<>> /\ ~ready
  /\ ready' = TRUE
  /\ UNCHANGED <<graph, roots, stack, todo, visited, order>>

ReverseEarly ==
  /\ stack = <<>> /\ ~ready
  /\ order' = Reverse(order)
  /\ ready' = TRUE
  /\ UNCHANGED <<graph, roots, stack, todo, visited>>

\* iterate has returned: std::reverse.
ReverseOrder ==
  /\ roots = {} /\ stack = <<>> /\ ~ready
  /\ order' = Reverse(order)
  /\ ready' = TRUE
  /\ UNCHANGED <<graph, roots, stack, todo, visited>>

Next ==
  \/ \E o \in Operation : IterateRoot(o) \/ FollowUse(o)
  \/ LeaveDfs
  \/ ReverseOrder

\* The constructor runs to completion on the caller's thread: WF of its steps.
Spec == Init /\ [][Next]_vars
FairSpec == Spec /\ WF_vars(Next)

-----------------------------------------------------------------------------
\* On an acyclic graph every operation comes before the operations that read
\* its outputs, so that it runs after everything it depends on
\* (Linear.cc:31-41: "Linearize with topological sort").
DefsBeforeUses ==
  ready /\ Acyclic =>
    \A i, j \in 1 .. Len(order) : order[j] \in Successors(order[i]) => i < j

\* Every operation is listed, and none twice, on a cyclic graph too: each
\* becomes exactly one stage (Linear.cc:38-41, assertion at Graph.cc:311).
EveryOperationOnce ==
  ready =>
    /\ \A o \in Operation : \E i \in 1 .. Len(order) : order[i] = o
    /\ \A i, j \in 1 .. Len(order) : order[i] = order[j] => i = j

\* The constructor implements the promise made to the code generator, under
\* fairness: the list is completed on every graph.
Abstract == INSTANCE TopologicalOrder
ImplementsTopologicalOrder == Abstract!FairSpec
=============================================================================
