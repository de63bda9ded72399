--------------------------- MODULE PostDfsProofs ---------------------------
(***************************************************************************)
(* The linear order is topological on every acyclic graph and lists every  *)
(* operation once on any graph, for every order in which the operations    *)
(* and the uses are iterated; and PostDfs implements TopologicalOrder.     *)
(***************************************************************************)
EXTENDS PostDfs, DataflowProofs

Active == {stack[i] : i \in 1 .. Len(stack)}
Placed == {order[i] : i \in 1 .. Len(order)}

StackIsPath ==
  \A i \in 1 .. Len(stack) :
    i < Len(stack) => stack[i + 1] \in Successors(stack[i])

NoRepeat(s) == \A i, j \in 1 .. Len(s) : s[i] = s[j] => i = j

\* What an active operation has still to follow is among its readers.
TodoAreReaders ==
  \A i \in 1 .. Len(stack) : todo[stack[i]] \subseteq Successors(stack[i])

\* On an acyclic graph the readers of a listed operation are listed, and those
\* of an active one are listed, next on the stack, or still to be followed.
ReadersAccounted ==
  /\ \A o \in Placed : Successors(o) \subseteq Placed
  /\ \A i \in 1 .. Len(stack) : \A p \in Successors(stack[i]) :
       \/ p \in todo[stack[i]]
       \/ p \in Placed
       \/ i < Len(stack) /\ p = stack[i + 1]

\* Until it is reversed the list has readers before what they read.
ReadersFirst ==
  \A i, j \in 1 .. Len(order) : order[j] \in Successors(order[i]) => j < i

ReadersLast ==
  \A i, j \in 1 .. Len(order) : order[j] \in Successors(order[i]) => i < j

IInv ==
  /\ TypeOK
  /\ NoRepeat(stack) /\ NoRepeat(order)
  /\ Active \cap Placed = {}
  /\ visited = Active \cup Placed
  /\ roots \cup visited = Operation
  /\ StackIsPath
  /\ TodoAreReaders
  /\ ready => roots = {} /\ stack = <<>>
  /\ Acyclic /\ ~ready => ReadersAccounted /\ ReadersFirst
  /\ Acyclic /\ ready => ReadersLast

-----------------------------------------------------------------------------
\* Reversing a list keeps its length and mirrors its positions.
LEMMA ReverseList ==
  ASSUME NEW S, NEW s \in Seq(S)
  PROVE  /\ Reverse(s) \in Seq(S)
         /\ Len(Reverse(s)) = Len(s)
         /\ \A i \in 1 .. Len(s) :
              Reverse(s)[i] = s[Len(s) - i + 1] /\ Len(s) - i + 1 \in 1 .. Len(s)
         /\ \A i \in 1 .. Len(s) : \E j \in 1 .. Len(s) : Reverse(s)[j] = s[i]
<1>1. \A i \in 1 .. Len(s) : Len(s) - i + 1 \in 1 .. Len(s)
  OBVIOUS
<1>2. Reverse(s) = [i \in 1 .. Len(s) |-> s[Len(s) - i + 1]]
  BY DEF Reverse
<1>3. Reverse(s) \in Seq(S) /\ Len(Reverse(s)) = Len(s)
  BY <1>1, <1>2
<1>4. ASSUME NEW i \in 1 .. Len(s)
      PROVE  \E j \in 1 .. Len(s) : Reverse(s)[j] = s[i]
  <2>1. Reverse(s)[Len(s) - i + 1] = s[Len(s) - (Len(s) - i + 1) + 1]
    BY <1>1, <1>2
  <2>2. Len(s) - (Len(s) - i + 1) + 1 = i
    OBVIOUS
  <2> QED
    BY <1>1, <2>1, <2>2
<1> QED
  BY <1>1, <1>2, <1>3, <1>4

\* The traversal starts in the invariant.
LEMMA InitInv == Init => IInv
<1> SUFFICES ASSUME Init PROVE IInv
  OBVIOUS
<1>1. GraphTypeOK
  <2>1. outputs \in [Operation -> SUBSET Operand]
    BY DEF Init, GraphInit
  <2> QED
    BY <2>1 DEF Init, GraphInit, GraphTypeOK
<1>2. stack \in Seq(Operation) /\ order \in Seq(Operation)
  BY DEF Init
<1>3. TypeOK
  BY <1>1, <1>2 DEF Init, TypeOK
<1>4. Len(stack) = 0 /\ Len(order) = 0
  BY DEF Init
<1>5. Active = {} /\ Placed = {}
  BY <1>4 DEF Active, Placed
<1> QED
  BY <1>3, <1>4, <1>5 DEF Init, IInv, NoRepeat, StackIsPath, TodoAreReaders,
                          ReadersAccounted, ReadersFirst

\* The outermost loop reaches an operation: it is entered unless it was visited.
LEMMA IterateRootInv ==
  ASSUME IInv, NEW o \in Operation, IterateRoot(o)
  PROVE  IInv'
<1> USE GraphFrozen DEF IterateRoot
<1>1. /\ Active = {} /\ Len(stack) = 0 /\ ~ready
      /\ UNCHANGED <<graph, order, ready>> /\ Placed' = Placed
  BY DEF IInv, Active, Placed
<1>2. CASE o \in visited
  <2>1. UNCHANGED <<graph, stack, todo, visited, order, ready>>
    BY <1>1, <1>2 DEF CallDfs
  <2>2. TypeOK'
    BY <2>1 DEF IInv, TypeOK, GraphTypeOK, graph
  <2>3. (roots \cup visited = Operation)'
    BY <2>1, <1>2 DEF IInv
  <2> QED
    BY <1>1, <2>1, <2>2, <2>3 DEF IInv, Active, NoRepeat, StackIsPath, TodoAreReaders,
                                  ReadersAccounted, ReadersFirst
<1>3. CASE o \notin visited
  <2>1. /\ visited' = visited \cup {o} /\ stack' = Append(stack, o)
        /\ todo' = [todo EXCEPT ![o] = Successors(o)]
    BY <1>1, <1>3 DEF CallDfs
  <2>2. /\ stack' \in Seq(Operation) /\ Len(stack') = 1 /\ stack'[1] = o
    BY <2>1, <1>1, PushFrame DEF IInv, TypeOK
  <2>3. todo'[o] = Successors(o)
    BY <2>1 DEF IInv, TypeOK
  <2>4. TypeOK'
    BY <2>1, <2>2, <1>1, ReadersAreOperations DEF IInv, TypeOK, GraphTypeOK, graph
  <2>5. Active' = {o}
    BY <2>2 DEF Active
  <2>6. (roots \cup visited = Operation)'
    BY <2>1 DEF IInv
  <2>7. NoRepeat(stack') /\ NoRepeat(order')
    BY <2>2, <1>1 DEF IInv, NoRepeat
  <2>8. (StackIsPath /\ TodoAreReaders)'
    BY <2>2, <2>3 DEF StackIsPath, TodoAreReaders
  <2>9. (Acyclic => ReadersAccounted /\ ReadersFirst)'
    <3>1. Acyclic' => ReadersAccounted /\ ReadersFirst
      BY <1>1 DEF IInv
    <3>2. \A p : Successors(p)' = Successors(p)
      BY <1>1
    <3>3. ReadersFirst => ReadersFirst'
      BY <1>1, <3>2 DEF ReadersFirst
    <3>4. ReadersAccounted => ReadersAccounted'
      BY <1>1, <2>2, <2>3, <3>2 DEF ReadersAccounted
    <3> QED
      BY <3>1, <3>3, <3>4
  <2>10. (Active \cap Placed = {} /\ visited = Active \cup Placed)'
    BY <1>1, <1>3, <2>1, <2>5 DEF IInv
  <2> QED
    BY <1>1, <2>4, <2>6, <2>7, <2>8, <2>9, <2>10 DEF IInv
<1> QED
  BY <1>2, <1>3

\* What holds of the top of a non-empty stack.
LEMMA TopFacts ==
  ASSUME IInv, stack # <<>>
  PROVE  /\ Len(stack) \in Nat \ {0}
         /\ Top = stack[Len(stack)]
         /\ Top \in Operation /\ Top \in Active /\ Top \in visited
         /\ \A i \in 1 .. Len(stack) : i # Len(stack) => stack[i] # Top
<1>1. /\ Len(stack) \in Nat \ {0}
      /\ Top \in Operation /\ Top = stack[Len(stack)]
  BY TopFrame DEF IInv, TypeOK, Top
<1> QED
  BY <1>1 DEF IInv, Active, NoRepeat

\* The active operation follows a use: one that was visited is listed, because
\* on an acyclic graph it cannot be active; a new one is pushed.
LEMMA FollowUseInv ==
  ASSUME IInv, NEW o \in Operation, FollowUse(o)
  PROVE  IInv'
<1> USE DEF FollowUse
<1>0. /\ Len(stack) \in Nat \ {0}
      /\ Top = stack[Len(stack)]
      /\ Top \in Operation /\ Top \in Active /\ Top \in visited
      /\ \A i \in 1 .. Len(stack) : i # Len(stack) => stack[i] # Top
  BY TopFacts
<1> USE <1>0
<1> DEFINE calls == [todo EXCEPT ![Top] = @ \ {o}]
<1>1. /\ calls \in [Operation -> SUBSET Operation]
      /\ calls[Top] = todo[Top] \ {o}
      /\ \A p \in Operation : p # Top => calls[p] = todo[p]
  BY DEF IInv, TypeOK
<1>2. o \in Successors(Top)
  BY DEF IInv, TodoAreReaders
<1>3. \A i \in 1 .. Len(stack) : stack[i] \in Operation
  BY DEF IInv, TypeOK
<1>4. /\ \A p : Successors(p)' = Successors(p)
      /\ Acyclic' = Acyclic
  BY GraphFrozen
<1>5. /\ UNCHANGED <<graph, roots, order, ready>> /\ ~ready
      /\ Placed' = Placed
      /\ Acyclic => ReadersAccounted /\ ReadersFirst
  BY DEF IInv, Placed
<1>6. ReadersFirst => ReadersFirst'
  BY <1>4, <1>5 DEF ReadersFirst
<1>7. CASE o \in visited
  <2>1. UNCHANGED <<stack, visited>> /\ todo' = calls
    BY <1>7 DEF CallDfs
  <2>2. TypeOK'
    BY <1>1, <1>5, <2>1 DEF IInv, TypeOK, GraphTypeOK, graph
  <2>3. TodoAreReaders'
    BY <1>1, <1>3, <1>4, <2>1 DEF IInv, TodoAreReaders
  <2>4. Active' = Active
    BY <2>1 DEF Active
  <2>5. ASSUME Acyclic PROVE ReadersAccounted'
    <3>1. o \notin Active
      <4>1. SUFFICES ASSUME NEW k \in 1 .. Len(stack), o = stack[k] PROVE FALSE
        BY DEF Active
      <4> QED
        BY <1>2, <2>5, <4>1, BackCallClosesCycle DEF IInv, TypeOK, StackIsPath, Top
    <3>2. o \in Placed
      BY <3>1, <1>7 DEF IInv
    <3>3. ASSUME NEW i \in 1 .. Len(stack), NEW p \in Successors(stack[i])
          PROVE  \/ p \in calls[stack[i]]
                 \/ p \in Placed
                 \/ i < Len(stack) /\ p = stack[i + 1]
      <4>1. CASE i = Len(stack)
        BY <4>1, <3>2, <1>1, <1>5, <2>5 DEF ReadersAccounted
      <4>2. CASE i # Len(stack)
        BY <4>2, <1>1, <1>3, <1>5, <2>5 DEF ReadersAccounted
      <4> QED
        BY <4>1, <4>2
    <3>4. \A p \in Placed : Successors(p) \subseteq Placed
      BY <1>5, <2>5 DEF ReadersAccounted
    <3> QED
      BY <1>4, <1>5, <2>1, <3>3, <3>4 DEF ReadersAccounted
  <2>6. StackIsPath'
    BY <1>4, <2>1 DEF IInv, StackIsPath
  <2> QED
    BY <1>4, <1>5, <1>6, <2>1, <2>2, <2>3, <2>4, <2>5, <2>6 DEF IInv
<1>8. CASE o \notin visited
  <2>1. o \notin Active /\ o \notin Placed /\ o # Top
    BY <1>8 DEF IInv
  <2>2. /\ visited' = visited \cup {o} /\ stack' = Append(stack, o)
        /\ todo' = [calls EXCEPT ![o] = Successors(o)]
    BY <1>8 DEF CallDfs
  <2>3. /\ stack' \in Seq(Operation) /\ Len(stack') = Len(stack) + 1
        /\ stack'[Len(stack) + 1] = o
        /\ \A i \in 1 .. Len(stack) : stack'[i] = stack[i]
    BY <2>2, PushFrame DEF IInv, TypeOK
  <2>4. /\ todo' \in [Operation -> SUBSET Operation] /\ todo'[o] = Successors(o)
        /\ \A p \in Operation : p # o => todo'[p] = calls[p]
    BY <1>1, <2>2, ReadersAreOperations
  <2>5. TypeOK'
    BY <1>5, <2>2, <2>3, <2>4 DEF IInv, TypeOK, GraphTypeOK, graph
  <2>6. \A i \in 1 .. Len(stack) : stack[i] # o
    BY <2>1 DEF Active
  <2>7. 1 .. Len(stack') = (1 .. Len(stack)) \cup {Len(stack) + 1}
    BY <2>3
  <2>8. Active' = Active \cup {o}
    BY <2>3, <2>7 DEF Active
  <2>9. NoRepeat(stack')
    BY <2>3, <2>6, <2>7 DEF IInv, NoRepeat
  <2>10. StackIsPath'
    BY <1>2, <1>4, <2>3 DEF IInv, StackIsPath
  <2>11. TodoAreReaders'
    BY <1>1, <1>3, <1>4, <2>3, <2>4, <2>6, <2>7 DEF IInv, TodoAreReaders
  <2>12. ASSUME Acyclic PROVE ReadersAccounted'
    <3>1. ReadersAccounted
      BY <1>5, <2>12
    <3>2. ASSUME NEW i \in 1 .. Len(stack'), NEW p \in Successors(stack'[i])
          PROVE  \/ p \in todo'[stack'[i]]
                 \/ p \in Placed
                 \/ i < Len(stack') /\ p = stack'[i + 1]
      <4>1. CASE i = Len(stack) + 1
        BY <4>1, <2>3, <2>4
      <4>2. CASE i = Len(stack)
        BY <4>2, <3>1, <1>1, <2>1, <2>3, <2>4 DEF ReadersAccounted
      <4>3. CASE i \in 1 .. Len(stack) /\ i # Len(stack)
        <5>1. todo'[stack'[i]] = todo[stack[i]]
          BY <4>3, <1>1, <1>3, <2>3, <2>4, <2>6
        <5>2. stack'[i + 1] = stack[i + 1]
          BY <4>3, <2>3
        <5> QED
          BY <4>3, <5>1, <5>2, <3>1, <2>3 DEF ReadersAccounted
      <4> QED
        BY <4>1, <4>2, <4>3, <2>7
    <3>3. \A p \in Placed : Successors(p) \subseteq Placed
      BY <3>1 DEF ReadersAccounted
    <3> QED
      BY <1>4, <1>5, <3>2, <3>3 DEF ReadersAccounted
  <2>13. (roots \cup visited = Operation)'
    BY <1>5, <2>2 DEF IInv
  <2>14. (Active \cap Placed = {} /\ visited = Active \cup Placed)'
    BY <1>5, <2>1, <2>2, <2>8 DEF IInv
  <2> QED
    BY <1>4, <1>5, <1>6, <2>5, <2>9, <2>10, <2>11, <2>12, <2>13, <2>14 DEF IInv
<1> QED
  BY <1>7, <1>8

\* The active operation returns and is listed: on an acyclic graph all its
\* readers are listed, so it comes after them.
LEMMA LeaveDfsInv ==
  ASSUME IInv, LeaveDfs
  PROVE  /\ IInv'
         /\ Top \in Operation /\ Top \notin Placed
         /\ Acyclic => Successors(Top) \subseteq Placed
<1> USE DEF LeaveDfs
<1>0. /\ Len(stack) \in Nat \ {0}
      /\ Top = stack[Len(stack)]
      /\ Top \in Operation /\ Top \in Active /\ Top \in visited
      /\ \A i \in 1 .. Len(stack) : i # Len(stack) => stack[i] # Top
  BY TopFacts
<1> USE <1>0
<1>1. /\ stack' \in Seq(Operation) /\ Len(stack') = Len(stack) - 1
      /\ \A i \in 1 .. Len(stack') : stack'[i] = stack[i]
  <2>1. stack \in Seq(Operation) /\ stack # <<>> /\ stack' = Front(stack)
    BY DEF IInv, TypeOK
  <2>2. /\ Front(stack) \in Seq(Operation) /\ Len(Front(stack)) = Len(stack) - 1
        /\ \A i \in 1 .. Len(stack) - 1 : Front(stack)[i] = stack[i]
    BY <2>1, PopFrame
  <2> QED
    BY <2>1, <2>2
<1>2. 1 .. Len(stack) = (1 .. Len(stack')) \cup {Len(stack)}
  BY <1>1
<1>3. /\ order' \in Seq(Operation) /\ Len(order') = Len(order) + 1
      /\ order'[Len(order) + 1] = Top
      /\ \A i \in 1 .. Len(order) : order'[i] = order[i]
      /\ Len(order) \in Nat
  BY PushFrame DEF IInv, TypeOK
<1>4. 1 .. Len(order') = (1 .. Len(order)) \cup {Len(order) + 1}
  BY <1>3
<1>5. /\ \A p : Successors(p)' = Successors(p)
      /\ Acyclic' = Acyclic
  BY GraphFrozen
<1>6. Placed' = Placed \cup {Top}
  BY <1>3, <1>4 DEF Placed
<1>7. Active = Active' \cup {Top} /\ Top \notin Active'
  <2>1. Active' = {stack[i] : i \in 1 .. Len(stack')}
    BY <1>1 DEF Active
  <2>2. Active = Active' \cup {Top}
    BY <2>1, <1>2 DEF Active
  <2>3. Top \notin Active'
    BY <2>1, <1>1, <1>2
  <2> QED
    BY <2>2, <2>3
<1>8. Top \notin Placed
  BY DEF IInv
<1>9. TypeOK'
  BY <1>1, <1>3 DEF IInv, TypeOK, GraphTypeOK, graph
<1>10. NoRepeat(stack')
  BY <1>1, <1>2 DEF IInv, NoRepeat
<1>11. NoRepeat(order')
  <2>1. \A i \in 1 .. Len(order) : order[i] # Top
    BY <1>8 DEF Placed
  <2> QED
    BY <2>1, <1>3, <1>4 DEF IInv, NoRepeat
<1>12. StackIsPath'
  BY <1>1, <1>2, <1>5 DEF IInv, StackIsPath
<1>13. TodoAreReaders'
  BY <1>1, <1>2, <1>5 DEF IInv, TodoAreReaders
<1>14. (Active \cap Placed = {} /\ visited = Active \cup Placed)'
  BY <1>6, <1>7, <1>8 DEF IInv
<1>15. (roots \cup visited = Operation)'
  BY DEF IInv
<1>16. ~ready /\ ~ready'
  BY DEF IInv
<1>17. ASSUME Acyclic
       PROVE  Successors(Top) \subseteq Placed /\ ReadersAccounted' /\ ReadersFirst'
  <2>1. ReadersAccounted /\ ReadersFirst
    BY <1>16, <1>17 DEF IInv
  <2>2. Successors(Top) \subseteq Placed
    BY <2>1 DEF ReadersAccounted
  <2>3. ReadersAccounted'
    BY <1>1, <1>2, <1>5, <1>6, <2>1, <2>2 DEF ReadersAccounted
  <2>4. ASSUME NEW i \in 1 .. Len(order'), NEW j \in 1 .. Len(order'),
               order'[j] \in Successors(order'[i])
        PROVE  j < i
    <3>1. CASE i = Len(order) + 1
      BY <3>1, <1>3, <1>4, <1>8, <2>2, <2>4
    <3>2. CASE i \in 1 .. Len(order)
      <4>1. order'[j] \in Placed
        BY <3>2, <1>3, <2>1, <2>4 DEF ReadersAccounted, Placed
      <4>2. j \in 1 .. Len(order)
        BY <4>1, <1>3, <1>4, <1>8
      <4> QED
        BY <3>2, <4>2, <1>3, <2>1, <2>4 DEF ReadersFirst
    <3> QED
      BY <3>1, <3>2, <1>4
  <2> QED
    BY <2>2, <2>3, <2>4, <1>5 DEF ReadersFirst
<1> QED
  BY <1>5, <1>8, <1>9, <1>10, <1>11, <1>12, <1>13, <1>14, <1>15, <1>16, <1>17 DEF IInv

\* Reversing the complete list puts every operation before its readers.
LEMMA ReverseOrderInv ==
  ASSUME IInv, ReverseOrder
  PROVE  IInv' /\ Placed = Operation
<1> USE DEF ReverseOrder
<1>1. order \in Seq(Operation)
  BY DEF IInv, TypeOK
<1>2. /\ order' \in Seq(Operation) /\ Len(order') = Len(order)
      /\ \A i \in 1 .. Len(order) :
           order'[i] = order[Len(order) - i + 1] /\ Len(order) - i + 1 \in 1 .. Len(order)
      /\ \A i \in 1 .. Len(order) : \E j \in 1 .. Len(order) : order'[j] = order[i]
  BY <1>1, ReverseList
<1>3. /\ \A p : Successors(p)' = Successors(p)
      /\ Acyclic' = Acyclic
  BY GraphFrozen
<1>4. Placed' = Placed
  <2>1. Placed' = {order'[i] : i \in 1 .. Len(order)}
    BY <1>2 DEF Placed
  <2>2. ASSUME NEW i \in 1 .. Len(order) PROVE order'[i] \in Placed
    BY <1>2 DEF Placed
  <2>3. ASSUME NEW i \in 1 .. Len(order) PROVE order[i] \in Placed'
    <3>1. PICK j \in 1 .. Len(order) : order'[j] = order[i]
      BY <1>2
    <3> QED
      BY <2>1, <3>1
  <2> QED
    BY <2>1, <2>2, <2>3 DEF Placed
<1>5. Active = {} /\ Active' = {}
  BY DEF Active
<1>6. TypeOK'
  BY <1>2 DEF IInv, TypeOK, GraphTypeOK, graph
<1>7. NoRepeat(order')
  <2>1. SUFFICES ASSUME NEW i \in 1 .. Len(order), NEW j \in 1 .. Len(order),
                        order'[i] = order'[j]
                 PROVE  i = j
    BY <1>2 DEF NoRepeat
  <2>2. Len(order) - i + 1 = Len(order) - j + 1
    <3>1. \A k, l \in 1 .. Len(order) : order[k] = order[l] => k = l
      BY DEF IInv, NoRepeat
    <3>2. order[Len(order) - i + 1] = order[Len(order) - j + 1]
      BY <2>1, <1>2
    <3>3. Len(order) - i + 1 \in 1 .. Len(order) /\ Len(order) - j + 1 \in 1 .. Len(order)
      BY <1>2
    <3> QED
      BY <3>1, <3>2, <3>3
  <2> QED
    BY <2>2, <1>1
<1>8. ASSUME Acyclic PROVE ReadersLast'
  <2>1. ReadersFirst
    BY <1>8 DEF IInv
  <2>2. SUFFICES ASSUME NEW i \in 1 .. Len(order), NEW j \in 1 .. Len(order),
                        order'[j] \in Successors(order'[i])
                 PROVE  i < j
    BY <1>2, <1>3 DEF ReadersLast
  <2>3. Len(order) - j + 1 < Len(order) - i + 1
    BY <2>1, <2>2, <1>2 DEF ReadersFirst
  <2> QED
    BY <2>3, <1>1
<1>9. Placed = Operation
  BY <1>5 DEF IInv, TypeOK
<1>10. NoRepeat(stack') /\ StackIsPath' /\ TodoAreReaders'
  BY <1>3 DEF IInv, NoRepeat, StackIsPath, TodoAreReaders
<1> QED
  BY <1>3, <1>4, <1>5, <1>6, <1>7, <1>8, <1>9, <1>10 DEF IInv

-----------------------------------------------------------------------------
\* Every variable of the traversal keeps its type, and the inductive invariant.
THEOREM TraversalInvariant == Spec => []IInv
<1>1. IInv /\ [Next]_vars => IInv'
  <2> SUFFICES ASSUME IInv, [Next]_vars PROVE IInv'
    OBVIOUS
  <2>1. ASSUME NEW o \in Operation, IterateRoot(o) PROVE IInv'
    BY <2>1, IterateRootInv
  <2>2. ASSUME NEW o \in Operation, FollowUse(o) PROVE IInv'
    BY <2>2, FollowUseInv
  <2>3. CASE LeaveDfs
    BY <2>3, LeaveDfsInv
  <2>4. CASE ReverseOrder
    BY <2>4, ReverseOrderInv
  <2>5. CASE UNCHANGED vars
    <3>1. TypeOK'
      BY <2>5 DEF vars, IInv, TypeOK, GraphTypeOK
    <3>2. Active' = Active /\ Placed' = Placed
      BY <2>5 DEF vars, Active, Placed
    <3>3. \A p : Successors(p)' = Successors(p)
      BY <2>5, GraphFrozen DEF vars, graph
    <3>4. Acyclic' = Acyclic
      BY <2>5, GraphFrozen DEF vars, graph
    <3>5. UNCHANGED <<roots, stack, todo, visited, order, ready>>
      BY <2>5 DEF vars
    <3>6. (StackIsPath /\ TodoAreReaders)'
      BY <3>3, <3>5 DEF IInv, StackIsPath, TodoAreReaders
    <3>7. ReadersAccounted => ReadersAccounted'
      BY <3>2, <3>3, <3>5 DEF ReadersAccounted
    <3>8. (ReadersFirst => ReadersFirst') /\ (ReadersLast => ReadersLast')
      BY <3>3, <3>5 DEF ReadersFirst, ReadersLast
    <3> QED
      BY <3>1, <3>2, <3>4, <3>5, <3>6, <3>7, <3>8 DEF IInv
  <2> QED
    BY <2>1, <2>2, <2>3, <2>4, <2>5 DEF Next
<1> QED
  BY <1>1, InitInv, PTL DEF Spec

\* Every variable of the traversal keeps its type.
THEOREM TypeCorrect == Spec => []TypeOK
<1>1. IInv => TypeOK
  BY DEF IInv
<1> QED
  BY <1>1, TraversalInvariant, PTL

\* On an acyclic graph every operation precedes the readers of its outputs in
\* the list that is compiled and run.
THEOREM DefsBeforeUsesHolds == Spec => []DefsBeforeUses
<1>1. IInv => DefsBeforeUses
  BY DEF IInv, DefsBeforeUses, ReadersLast
<1> QED
  BY <1>1, TraversalInvariant, PTL

\* The list holds every operation exactly once, on any graph.
THEOREM EveryOperationOnceHolds == Spec => []EveryOperationOnce
<1>1. IInv => EveryOperationOnce
  <2> SUFFICES ASSUME IInv, ready PROVE EveryOperationOnce
    BY DEF EveryOperationOnce
  <2>0. Active = {}
    BY DEF IInv, Active
  <2>1. Placed = Operation
    BY <2>0 DEF IInv, TypeOK
  <2> QED
    BY <2>1 DEF EveryOperationOnce, IInv, NoRepeat, Placed
<1> QED
  BY <1>1, TraversalInvariant, PTL

\* The traversal and the reversal implement the promise of Linear: each step
\* lists an operation whose readers are listed, turns the complete list
\* around, or does neither.
THEOREM ImplementsSafely == Spec => Abstract!Spec
<1>1. Init => Abstract!Init
  BY DEF Init, Abstract!Init, GraphInit, Abstract!GraphInit
<1>2. IInv /\ [Next]_vars => [Abstract!Next]_Abstract!vars
  <2> SUFFICES ASSUME IInv, [Next]_vars PROVE [Abstract!Next]_Abstract!vars
    OBVIOUS
  <2>1. ASSUME NEW o \in Operation, IterateRoot(o) \/ FollowUse(o)
        PROVE  UNCHANGED Abstract!vars
    BY <2>1 DEF IterateRoot, FollowUse, graph, Abstract!vars
  <2>2. CASE LeaveDfs
    <3>1. /\ Top \in Operation /\ Top \notin Placed
          /\ Acyclic => Successors(Top) \subseteq Placed
      BY <2>2, LeaveDfsInv
    <3>2. ~ready
      BY <2>2 DEF IInv, LeaveDfs
    <3>3. Abstract!Place(Top)
      BY <2>2, <3>1, <3>2
         DEF LeaveDfs, graph, Abstract!Place, Abstract!graph, Abstract!Placed, Placed,
             Abstract!Acyclic, Abstract!WellFounded, Abstract!Successors, Abstract!Uses,
             Acyclic, WellFounded, Successors, Uses
    <3> QED
      BY <3>1, <3>3 DEF Abstract!Next
  <2>3. CASE ReverseOrder
    <3>1. Placed = Operation
      BY <2>3, ReverseOrderInv
    <3>2. Abstract!Complete
      BY <2>3, <3>1 DEF ReverseOrder, Reverse, Abstract!Reverse, Placed, graph,
                        Abstract!Complete, Abstract!Placed, Abstract!graph
    <3> QED
      BY <3>2 DEF Abstract!Next
  <2>4. CASE UNCHANGED vars
    BY <2>4 DEF vars, Abstract!vars
  <2> QED
    BY <2>1, <2>2, <2>3, <2>4 DEF Next
<1> QED
  BY <1>1, <1>2, TraversalInvariant, PTL DEF Spec, Abstract!Spec

-----------------------------------------------------------------------------
(* What the compilation starts from (Linearize of Compilation, Init of        *)
(* Execution: any member of Schedules) is what the traversal ends with: the   *)
(* list it hands over is a schedule of the graph, if that has no cycle.       *)
THEOREM OrderIsASchedule == Spec => [](ready /\ Acyclic => order \in Schedules)
<1>1. IInv /\ DefsBeforeUses /\ EveryOperationOnce => (ready /\ Acyclic => order \in Schedules)
  <2> SUFFICES ASSUME IInv, DefsBeforeUses, EveryOperationOnce, ready, Acyclic
               PROVE  order \in Schedules
    OBVIOUS
  <2>1. order \in Seq(Operation)
    BY DEF IInv, TypeOK
  <2>2. {order[i] : i \in 1 .. Len(order)} = Operation
    BY <2>1 DEF EveryOperationOnce
  <2> QED
    BY <2>1, <2>2, ListsAreSchedules DEF EveryOperationOnce, DefsBeforeUses
<1> QED
  BY <1>1, TraversalInvariant, DefsBeforeUsesHolds, EveryOperationOnceHolds, PTL
=============================================================================
