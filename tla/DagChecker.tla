----------------------------- MODULE DagChecker -----------------------------
(***************************************************************************)
(* verifier::DAGChecker::verify: the recursive depth-first search that     *)
(* Graph::finishBuilding and Graph::lower run to tell whether the graph    *)
(* has a cycle.                                                            *)
(*                                                                         *)
(* The recursion is a state machine over the call stack.  A frame is an    *)
(* operation and the calls its body has still to make; both the outermost  *)
(* loop and the loop over candidate readers iterate an unordered_map, so   *)
(* the next call is any of those left.  The body calls dfs_recursive once  *)
(* per matching (output, input) pair; `todo' keeps one call per reader,    *)
(* since a repeated call finds the reader visited and its on_stack flag as *)
(* the first call left it, and returns at once.                            *)
(***************************************************************************)
EXTENDS Dataflow, Integers, SequencesExt

VARIABLES roots,     \* operations the outermost iterate has not reached yet
          stack,     \* the operations whose dfs_recursive call is active
          todo,      \* calls an active operation has still to make
          visited,   \* the vector<bool> visited, as the set of its TRUE entries
          onStack,   \* the vector<bool> on_stack, likewise
          cyclic     \* the local the function returns the negation of

vars == <<inputs, outputs, roots, stack, todo, visited, onStack, cyclic>>

Top == Last(stack)

TypeOK ==
  /\ GraphTypeOK
  /\ roots \subseteq Operation
  /\ stack \in Seq(Operation)
  /\ todo \in [Operation -> SUBSET Operation]
  /\ visited \subseteq Operation
  /\ onStack \subseteq Operation
  /\ cyclic \in BOOLEAN

Init ==
  /\ GraphInit
  /\ roots = Operation
  /\ stack = <<>>
  /\ todo = [o \in Operation |-> {}]
  /\ visited = {}
  /\ onStack = {}
  /\ cyclic = FALSE

\* Faults, each of which one of the properties below excludes: the body walks
\* operands instead of readers; the flag is only looked at on a first visit;
\* any second visit counts as a cycle.
CallDfsOverOperands(o, calls) ==
  /\ o \notin visited
  /\ visited' = visited \cup {o} /\ onStack' = onStack \cup {o}
  /\ stack' = Append(stack, o)
  /\ todo' = [calls EXCEPT ![o] = outputs[o]]
  /\ UNCHANGED cyclic

CallDfsFlagOnFirstVisit(o, calls) ==
  \/ /\ o \in visited
     /\ todo' = calls
     /\ UNCHANGED <<stack, visited, onStack, cyclic>>
  \/ /\ o \notin visited
     /\ cyclic' = (cyclic \/ o \in onStack)
     /\ visited' = visited \cup {o} /\ onStack' = onStack \cup {o}
     /\ stack' = Append(stack, o)
     /\ todo' = [calls EXCEPT ![o] = Successors(o)]

CallDfsVisitedIsCycle(o, calls) ==
  /\ cyclic' = (cyclic \/ o \in visited)
  /\ \/ /\ o \in visited
        /\ todo' = calls
        /\ UNCHANGED <<stack, visited, onStack>>
     \/ /\ o \notin visited
        /\ visited' = visited \cup {o} /\ onStack' = onStack \cup {o}
        /\ stack' = Append(stack, o)
        /\ todo' = [calls EXCEPT ![o] = Successors(o)]

\* The head of dfs_recursive(o), where the caller's frame is left with
\* `calls': flag a cycle if o is active, return if o was visited, else enter.
CallDfs(o, calls) ==
  /\ cyclic' = (cyclic \/ o \in onStack)
  /\ \/ /\ o \in visited
        /\ todo' = calls
        /\ UNCHANGED <<stack, visited, onStack>>
     \/ /\ o \notin visited
        /\ visited' = visited \cup {o}
        /\ onStack' = onStack \cup {o}
        /\ stack' = Append(stack, o)
        /\ todo' = [calls EXCEPT ![o] = Successors(o)]

\* operations.iterate(dfs_recursive) reaches its next element.
IterateRoot(o) ==
  /\ stack = <<>>
  /\ o \in roots
  /\ roots' = roots \ {o}
  /\ CallDfs(o, todo)
  /\ UNCHANGED graph

\* The active body reaches the next reader of its outputs.
VisitReader(o) ==
  /\ stack # <<>>
  /\ o \in todo[Top]
  /\ CallDfs(o, [todo EXCEPT ![Top] = @ \ {o}])
  /\ UNCHANGED <<graph, roots>>

\* Faults: the flag stays set; the call does not return.
LeaveDfsKeepFlag ==
  /\ stack # <<>> /\ todo[Top] = {}
  /\ stack' = Front(stack)
  /\ UNCHANGED <<graph, roots, todo, visited, onStack, cyclic>>

LeaveDfsNoReturn ==
  /\ stack # <<>> /\ todo[Top] = {}
  /\ onStack' = onStack \ {Top}
  /\ UNCHANGED <<graph, roots, stack, todo, visited, cyclic>>

\* The active body ends and clears its on_stack flag.
LeaveDfs ==
  /\ stack # <<>>
  /\ todo[Top] = {}
  /\ stack' = Front(stack)
  /\ onStack' = onStack \ {Top}
  /\ UNCHANGED <<graph, roots, todo, visited, cyclic>>

Next ==
  \/ \E o \in Operation : IterateRoot(o) \/ VisitReader(o)
  \/ LeaveDfs

\* verify runs to completion on the caller's thread: WF of its steps.
Spec == Init /\ [][Next]_vars
FairSpec == Spec /\ WF_vars(Next)

-----------------------------------------------------------------------------
Done == roots = {} /\ stack = <<>>

\* The verdict is exact: when verify returns, `cyclic' holds just when the
\* operations have a cycle, whatever order the unordered_map gave them in and
\* however many operands they share (IVerifier.cc:37-67).
VerdictExact == Done => (cyclic <=> ~Acyclic)

\* A cycle is never reported before it is real: during the whole search the
\* flag is only raised on a graph that has a cycle.
NoFalseAlarm == cyclic => ~Acyclic

\* on_stack, which is cleared one call after the recursion is left, marks the
\* active calls and no others, each once, although entry and exit are far
\* apart and early returns pass between them (IVerifier.cc:37-42, 62).
OnStackIsTheCallStack ==
  /\ onStack = {stack[i] : i \in 1 .. Len(stack)}
  /\ \A i, j \in 1 .. Len(stack) : stack[i] = stack[j] => i = j

\* The search always returns, also on a graph with cycles.
Terminates == <>Done
=============================================================================
