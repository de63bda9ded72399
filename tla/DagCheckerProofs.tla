-------------------------- MODULE DagCheckerProofs --------------------------
(***************************************************************************)
(* The verdict of DAGChecker::verify is exact on every graph, finite or    *)
(* not, for every order in which the operations are iterated.              *)
(***************************************************************************)
EXTENDS DagChecker, DataflowProofs

Active == {stack[i] : i \in 1 .. Len(stack)}
Finished == visited \ onStack

\* The stack is a path of the graph.
StackIsPath ==
  \A i \in 1 .. Len(stack) :
    i < Len(stack) => stack[i + 1] \in Successors(stack[i])

Injective ==
  \A i, j \in 1 .. Len(stack) : stack[i] = stack[j] => i = j

\* What an active operation has still to call is among its readers.
TodoAreReaders ==
  \A i \in 1 .. Len(stack) : todo[stack[i]] \subseteq Successors(stack[i])

\* While no cycle was flagged, the readers of a finished operation are all
\* finished, and those of an active one are finished, the next operation on
\* the stack, or still to be called.
ReadersAccounted ==
  /\ \A o \in Finished : Successors(o) \subseteq Finished
  /\ \A i \in 1 .. Len(stack) : \A p \in Successors(stack[i]) :
       \/ p \in todo[stack[i]]
       \/ p \in Finished
       \/ i < Len(stack) /\ p = stack[i + 1]

IInv ==
  /\ TypeOK
  /\ onStack = Active
  /\ Injective
  /\ onStack \subseteq visited
  /\ roots \cup visited = Operation
  /\ StackIsPath
  /\ TodoAreReaders
  /\ ~cyclic => ReadersAccounted /\ WellFounded(Finished)
  /\ cyclic => ~Acyclic

-----------------------------------------------------------------------------
\* The search starts in the invariant.
LEMMA InitInv == Init => IInv
<1> SUFFICES ASSUME Init PROVE IInv
  OBVIOUS
<1>0. outputs \in [Operation -> SUBSET Operand]
  BY DEF Init, GraphInit
<1>1. TypeOK
  <2>1. GraphTypeOK
    BY <1>0 DEF Init, GraphInit, GraphTypeOK
  <2>2. stack \in Seq(Operation)
    BY DEF Init
  <2> QED
    BY <2>1, <2>2 DEF Init, TypeOK
<1>2. Len(stack) = 0
  BY DEF Init
<1>3. WellFounded(Finished)
  BY DEF Init, Finished, WellFounded
<1> QED
  BY <1>1, <1>2, <1>3 DEF Init, IInv, Active, Injective, StackIsPath, TodoAreReaders,
                          ReadersAccounted, Finished

\* The outermost loop reaches an operation: nothing is active, so no flag can be
\* raised, and the operation is entered unless it was visited.
LEMMA IterateRootInv ==
  ASSUME IInv, NEW o \in Operation, IterateRoot(o)
  PROVE  IInv'
<1> USE GraphFrozen DEF IterateRoot
<1>1. onStack = {} /\ Len(stack) = 0 /\ cyclic' = cyclic
  BY DEF IInv, Active, CallDfs, TypeOK
<1>2. CASE o \in visited
  <2>1. UNCHANGED <<graph, stack, todo, visited, onStack, cyclic>>
    BY <1>1, <1>2 DEF CallDfs
  <2>2. TypeOK'
    BY <2>1 DEF IInv, TypeOK, GraphTypeOK, graph
  <2>3. (roots \cup visited = Operation)'
    BY <2>1, <1>2 DEF IInv
  <2> QED
    BY <2>1, <2>2, <2>3 DEF IInv, Active, Injective, StackIsPath, TodoAreReaders,
                            ReadersAccounted, Finished
<1>3. CASE o \notin visited
  <2>1. /\ visited' = visited \cup {o} /\ onStack' = {o}
        /\ stack' = Append(stack, o) /\ todo' = [todo EXCEPT ![o] = Successors(o)]
    BY <1>1, <1>3 DEF CallDfs
  <2>2. /\ stack' \in Seq(Operation) /\ Len(stack') = 1 /\ stack'[1] = o
    BY <2>1, <1>1, PushFrame DEF IInv, TypeOK
  <2>3. todo'[o] = Successors(o)
    BY <2>1 DEF IInv, TypeOK
  <2>4. TypeOK'
    BY <2>1, <2>2, <1>1, ReadersAreOperations DEF IInv, TypeOK, GraphTypeOK, graph
  <2>5. Active' = {o}
    BY <2>2 DEF Active
  <2>6. Finished' = Finished
    BY <1>1, <1>3, <2>1 DEF Finished
  <2>7. (roots \cup visited = Operation)'
    BY <2>1 DEF IInv
  <2>8. (~cyclic => ReadersAccounted)'
    BY <1>1, <2>2, <2>3, <2>6 DEF IInv, ReadersAccounted
  <2> QED
    BY <1>1, <2>1, <2>2, <2>3, <2>4, <2>5, <2>6, <2>7, <2>8
       DEF IInv, Injective, StackIsPath, TodoAreReaders
<1> QED
  BY <1>2, <1>3

\* What holds of the top of a non-empty stack.
LEMMA TopFacts ==
  ASSUME IInv, stack # <<>>
  PROVE  /\ Len(stack) \in Nat \ {0}
         /\ Top = stack[Len(stack)]
         /\ Top \in Operation /\ Top \in onStack /\ Top \in visited
         /\ \A i \in 1 .. Len(stack) : i # Len(stack) => stack[i] # Top
<1>1. /\ Len(stack) \in Nat \ {0}
      /\ Top \in Operation /\ Top = stack[Len(stack)]
  BY TopFrame DEF IInv, TypeOK, Top
<1> QED
  BY <1>1 DEF IInv, Active, Injective

\* The active operation calls a reader: one that is active closes a cycle, one
\* that finished was accounted for, a new one is pushed.
LEMMA VisitReaderInv ==
  ASSUME IInv, NEW o \in Operation, VisitReader(o)
  PROVE  IInv'
<1> USE GraphFrozen DEF VisitReader
<1>0. /\ Len(stack) \in Nat \ {0}
      /\ Top = stack[Len(stack)]
      /\ Top \in Operation /\ Top \in onStack /\ Top \in visited
      /\ \A i \in 1 .. Len(stack) : i # Len(stack) => stack[i] # Top
  BY TopFacts
<1> USE <1>0
<1> DEFINE calls == [todo EXCEPT ![Top] = @ \ {o}]
<1>1. /\ calls \in [Operation -> SUBSET Operation]
      /\ calls[Top] = todo[Top] \ {o}
      /\ \A p \in Operation : p # Top => calls[p] = todo[p]
  BY DEF IInv, TypeOK
<1>2. o \in Successors(Top)
  BY DEF IInv, TodoAreReaders
<1>3. \A i \in 1 .. Len(stack) : stack[i] \in Operation
  BY DEF IInv, TypeOK
<1>4. CASE o \in visited
  <2>1. /\ UNCHANGED <<graph, roots, stack, visited, onStack>>
        /\ todo' = calls /\ cyclic' = (cyclic \/ o \in onStack)
    BY <1>4 DEF CallDfs
  <2>2. TypeOK'
    BY <1>1, <2>1 DEF IInv, TypeOK, GraphTypeOK, graph
  <2>3. TodoAreReaders'
    BY <1>1, <1>3, <2>1 DEF IInv, TodoAreReaders
  <2>4. Finished' = Finished /\ Active' = Active
    BY <2>1 DEF Finished, Active
  <2>5. ASSUME ~cyclic' PROVE ReadersAccounted'
    <3>1. ~cyclic /\ o \in Finished /\ ReadersAccounted
      BY <1>4, <2>1, <2>5 DEF IInv, Finished
    <3>2. ASSUME NEW i \in 1 .. Len(stack), NEW p \in Successors(stack[i])
          PROVE  \/ p \in calls[stack[i]]
                 \/ p \in Finished
                 \/ i < Len(stack) /\ p = stack[i + 1]
      <4>1. CASE i = Len(stack)
        BY <4>1, <3>1, <1>1 DEF ReadersAccounted
      <4>2. CASE i # Len(stack)
        BY <4>2, <3>1, <1>1, <1>3 DEF ReadersAccounted
      <4> QED
        BY <4>1, <4>2
    <3> QED
      BY <2>1, <2>4, <3>1, <3>2 DEF ReadersAccounted
  <2>6. (cyclic => ~Acyclic)'
    <3>1. CASE o \in onStack
      <4>1. PICK k \in 1 .. Len(stack) : stack[k] = o
        BY <3>1 DEF IInv, Active
      <4>2. ~Acyclic
        BY <1>2, <4>1, BackCallClosesCycle DEF IInv, TypeOK, StackIsPath, Top
      <4> QED
        BY <4>2
    <3>2. CASE o \notin onStack
      BY <2>1, <3>2 DEF IInv
    <3> QED
      BY <3>1, <3>2
  <2>7. (Injective /\ StackIsPath)'
    BY <2>1 DEF IInv, Injective, StackIsPath
  <2> QED
    BY <2>1, <2>2, <2>3, <2>4, <2>5, <2>6, <2>7 DEF IInv
<1>5. CASE o \notin visited
  <2>1. o \notin onStack /\ o # Top
    BY <1>5 DEF IInv
  <2>2. /\ UNCHANGED <<graph, roots, cyclic>> /\ visited' = visited \cup {o}
        /\ onStack' = onStack \cup {o} /\ stack' = Append(stack, o)
        /\ todo' = [calls EXCEPT ![o] = Successors(o)]
    BY <1>5, <2>1 DEF CallDfs, IInv, TypeOK
  <2>3. /\ stack' \in Seq(Operation) /\ Len(stack') = Len(stack) + 1
        /\ stack'[Len(stack) + 1] = o
        /\ \A i \in 1 .. Len(stack) : stack'[i] = stack[i]
    BY <2>2, PushFrame DEF IInv, TypeOK
  <2>4. /\ todo' \in [Operation -> SUBSET Operation] /\ todo'[o] = Successors(o)
        /\ \A p \in Operation : p # o => todo'[p] = calls[p]
    BY <1>1, <2>2, ReadersAreOperations
  <2>5. TypeOK'
    BY <2>2, <2>3, <2>4 DEF IInv, TypeOK, GraphTypeOK, graph
  <2>6. \A i \in 1 .. Len(stack) : stack[i] # o
    BY <2>1 DEF IInv, Active
  <2>7. 1 .. Len(stack') = (1 .. Len(stack)) \cup {Len(stack) + 1}
    BY <2>3
  <2>8. onStack' = Active'
    BY <2>2, <2>3, <2>7 DEF IInv, Active
  <2>9. Injective'
    BY <2>3, <2>6, <2>7 DEF IInv, Injective
  <2>10. StackIsPath'
    BY <1>2, <2>2, <2>3 DEF IInv, StackIsPath
  <2>11. TodoAreReaders'
    BY <1>1, <1>3, <2>2, <2>3, <2>4, <2>6, <2>7 DEF IInv, TodoAreReaders
  <2>12. Finished' = Finished
    BY <2>1, <2>2, <1>5 DEF Finished
  <2>13. ASSUME ~cyclic' PROVE ReadersAccounted'
    <3>1. ReadersAccounted
      BY <2>2, <2>13 DEF IInv
    <3>2. ASSUME NEW i \in 1 .. Len(stack'), NEW p \in Successors(stack'[i])
          PROVE  \/ p \in todo'[stack'[i]]
                 \/ p \in Finished
                 \/ i < Len(stack') /\ p = stack'[i + 1]
      <4>1. CASE i = Len(stack) + 1
        BY <4>1, <2>3, <2>4
      <4>2. CASE i = Len(stack)
        BY <4>2, <3>1, <1>1, <2>1, <2>3, <2>4 DEF ReadersAccounted
      <4>3. CASE i \in 1 .. Len(stack) /\ i # Len(stack)
        <5>1. todo'[stack'[i]] = todo[stack[i]]
          BY <4>3, <1>1, <1>3, <2>3, <2>4, <2>6
        <5>2. stack'[i + 1] = stack[i + 1]
          BY <4>3, <2>3
        <5> QED
          BY <4>3, <5>1, <5>2, <3>1, <2>3 DEF ReadersAccounted
      <4> QED
        BY <4>1, <4>2, <4>3, <2>7
    <3>3. \A p \in Finished : Successors(p) \subseteq Finished
      BY <3>1 DEF ReadersAccounted
    <3>4. \A p : Successors(p)' = Successors(p)
      BY <2>2
    <3> QED
      BY <2>12, <3>2, <3>3, <3>4 DEF ReadersAccounted
  <2>14. (roots \cup visited = Operation)' /\ (onStack \subseteq visited)'
    BY <2>2 DEF IInv
  <2> QED
    BY <2>2, <2>5, <2>8, <2>9, <2>10, <2>11, <2>12, <2>13, <2>14 DEF IInv
<1> QED
  BY <1>4, <1>5

\* The active operation returns: with no cycle flagged all its readers have
\* finished, so it joins a well-founded set.
LEMMA LeaveDfsInv ==
  ASSUME IInv, LeaveDfs
  PROVE  IInv'
<1> USE GraphFrozen DEF LeaveDfs
<1>0. /\ Len(stack) \in Nat \ {0}
      /\ Top = stack[Len(stack)]
      /\ Top \in Operation /\ Top \in onStack /\ Top \in visited
      /\ \A i \in 1 .. Len(stack) : i # Len(stack) => stack[i] # Top
  BY TopFacts
<1> USE <1>0
<1>1. /\ stack' \in Seq(Operation) /\ Len(stack') = Len(stack) - 1
      /\ \A i \in 1 .. Len(stack') : stack'[i] = stack[i]
  <2>1. stack \in Seq(Operation) /\ stack # <<>> /\ stack' = Front(stack)
    BY DEF IInv, TypeOK
  <2>2. /\ Front(stack) \in Seq(Operation) /\ Len(Front(stack)) = Len(stack) - 1
        /\ \A i \in 1 .. Len(stack) - 1 : Front(stack)[i] = stack[i]
    BY <2>1, PopFrame
  <2> QED
    BY <2>1, <2>2
<1>2. 1 .. Len(stack) = (1 .. Len(stack')) \cup {Len(stack)}
  BY <1>1
<1>3. TypeOK'
  BY <1>1 DEF IInv, TypeOK, GraphTypeOK, graph
<1>4. onStack' = Active'
  <2>0. Active' = {stack[i] : i \in 1 .. Len(stack')}
    BY <1>1 DEF Active
  <2>1. Active = Active' \cup {Top}
    BY <2>0, <1>2 DEF Active
  <2>2. Top \notin Active'
    BY <2>0, <1>1, <1>2
  <2> QED
    BY <2>1, <2>2 DEF IInv
<1>5. (Injective /\ StackIsPath /\ TodoAreReaders)'
  <2>1. Injective'
    BY <1>1, <1>2 DEF IInv, Injective
  <2>2. StackIsPath'
    <3>1. StackIsPath /\ \A p : Successors(p)' = Successors(p)
      BY DEF IInv
    <3> QED
      BY <3>1, <1>1, <1>2 DEF StackIsPath
  <2>3. TodoAreReaders'
    <3>1. TodoAreReaders /\ todo' = todo /\ \A p : Successors(p)' = Successors(p)
      BY DEF IInv
    <3> QED
      BY <3>1, <1>1, <1>2 DEF TodoAreReaders
  <2> QED
    BY <2>1, <2>2, <2>3
<1>6. Finished' = Finished \cup {Top} /\ Top \notin Finished
  BY DEF IInv, Finished
<1>7. ASSUME ~cyclic' PROVE (ReadersAccounted /\ WellFounded(Finished))'
  <2>1. ReadersAccounted /\ WellFounded(Finished)
    BY <1>7 DEF IInv
  <2>2. Successors(Top) \subseteq Finished
    BY <2>1 DEF ReadersAccounted
  <2>3. WellFounded(Finished \cup {Top})
    BY <2>1, <2>2, <1>6, WellFoundedGrows DEF ReadersAccounted
  <2>4. WellFounded(Finished)'
    BY <2>3, <1>6, \A o : Successors(o)' = Successors(o) DEF WellFounded
  <2>5. ReadersAccounted'
    BY <1>1, <1>2, <1>6, <2>1, <2>2 DEF ReadersAccounted
  <2> QED
    BY <2>4, <2>5
<1>8. (onStack \subseteq visited /\ roots \cup visited = Operation)'
  BY DEF IInv
<1>9. (cyclic => ~Acyclic)'
  BY DEF IInv
<1> QED
  BY <1>3, <1>4, <1>5, <1>7, <1>8, <1>9 DEF IInv

-----------------------------------------------------------------------------
\* Type correctness and the inductive invariant of the search.
THEOREM SearchInvariant == Spec => []IInv
<1>1. IInv /\ [Next]_vars => IInv'
  <2> SUFFICES ASSUME IInv, [Next]_vars PROVE IInv'
    OBVIOUS
  <2>1. ASSUME NEW o \in Operation, IterateRoot(o) PROVE IInv'
    BY <2>1, IterateRootInv
  <2>2. ASSUME NEW o \in Operation, VisitReader(o) PROVE IInv'
    BY <2>2, VisitReaderInv
  <2>3. CASE LeaveDfs
    BY <2>3, LeaveDfsInv
  <2>4. CASE UNCHANGED vars
    BY <2>4 DEF vars, IInv, TypeOK, GraphTypeOK, Active, Injective, StackIsPath,
                TodoAreReaders, ReadersAccounted, Finished, WellFounded, Acyclic,
                Successors, Uses
  <2> QED
    BY <2>1, <2>2, <2>3, <2>4 DEF Next
<1> QED
  BY <1>1, InitInv, PTL DEF Spec

\* Every variable of verify keeps its type.
THEOREM TypeCorrect == Spec => []TypeOK
<1>1. IInv => TypeOK
  BY DEF IInv
<1> QED
  BY <1>1, SearchInvariant, PTL

\* The flag is raised only on a graph that has a cycle.
THEOREM NoFalseAlarmHolds == Spec => []NoFalseAlarm
<1>1. IInv => NoFalseAlarm
  BY DEF IInv, NoFalseAlarm
<1> QED
  BY <1>1, SearchInvariant, PTL

\* on_stack marks the active calls, each once.
THEOREM OnStackHolds == Spec => []OnStackIsTheCallStack
<1>1. IInv => OnStackIsTheCallStack
  BY DEF IInv, OnStackIsTheCallStack, Active, Injective
<1> QED
  BY <1>1, SearchInvariant, PTL

\* When verify returns, its verdict is exact, for every graph and every
\* iteration order of the unordered_map.
THEOREM VerdictHolds == Spec => []VerdictExact
<1>1. IInv => VerdictExact
  <2> SUFFICES ASSUME IInv, Done, ~cyclic PROVE Acyclic
    BY DEF IInv, VerdictExact
  <2>1. Finished = Operation
    BY DEF IInv, Done, Finished, Active, TypeOK
  <2> QED
    BY <2>1 DEF IInv, Acyclic
<1> QED
  BY <1>1, SearchInvariant, PTL
=============================================================================
