--------------------------- MODULE DataflowProofs ---------------------------
(***************************************************************************)
(* Lemmas shared by the proofs about the two depth-first searches, the     *)
(* compilation and the execution: the call stack as a sequence,            *)
(* well-founded sets of operations, and what a schedule holds.             *)
(***************************************************************************)
EXTENDS Dataflow, Integers, SequencesExt, SequenceTheorems, FiniteSetTheorems, TLAPS

\* Pushing an operation keeps the frames below it.
LEMMA PushFrame ==
  ASSUME NEW S, NEW s \in Seq(S), NEW e \in S
  PROVE  /\ Append(s, e) \in Seq(S)
         /\ Len(Append(s, e)) = Len(s) + 1
         /\ Append(s, e)[Len(s) + 1] = e
         /\ \A i \in 1 .. Len(s) : Append(s, e)[i] = s[i]
OBVIOUS

\* The top of a non-empty stack.
LEMMA TopFrame ==
  ASSUME NEW S, NEW s \in Seq(S), s # <<>>
  PROVE  /\ Len(s) \in Nat \ {0}
         /\ Last(s) \in S
         /\ Last(s) = s[Len(s)]
BY DEF Last

\* Popping the top keeps the frames below it.
LEMMA PopFrame ==
  ASSUME NEW S, NEW s \in Seq(S), s # <<>>
  PROVE  /\ Front(s) \in Seq(S)
         /\ Len(Front(s)) = Len(s) - 1
         /\ \A i \in 1 .. Len(s) - 1 : Front(s)[i] = s[i]
<1> DEFINE n == Len(s) - 1
<1>1. n \in Nat /\ 1 \in Int /\ \A i \in 1 .. n : s[i] \in S
  OBVIOUS
<1> HIDE DEF n
<1>2. /\ SubSeq(s, 1, n) \in Seq(S)
      /\ Len(SubSeq(s, 1, n)) = IF 1 <= n THEN n - 1 + 1 ELSE 0
      /\ \A i \in 1 .. n - 1 + 1 : SubSeq(s, 1, n)[i] = s[1 + i - 1]
  BY <1>1, SubSeqProperties
<1>3. Len(SubSeq(s, 1, n)) = n /\ \A i \in 1 .. n : SubSeq(s, 1, n)[i] = s[i]
  BY <1>1, <1>2
<1> QED
  BY <1>2, <1>3 DEF Front, n

\* The readers of an operation are operations.
LEMMA ReadersAreOperations ==
  ASSUME NEW o \in Operation
  PROVE  Successors(o) \subseteq Operation
BY DEF Successors, Uses

\* Calling back into the stack closes a cycle: the operations from the callee
\* up to the top each have a reader among them.
LEMMA BackCallClosesCycle ==
  ASSUME NEW s \in Seq(Operation), s # <<>>,
         \A i \in 1 .. Len(s) : i < Len(s) => s[i + 1] \in Successors(s[i]),
         NEW k \in 1 .. Len(s), s[k] \in Successors(Last(s))
  PROVE  ~Acyclic
<1> DEFINE T == {s[i] : i \in k .. Len(s)}
<1>1. Len(s) \in Nat \ {0}
  BY TopFrame
<1>2. T \in SUBSET Operation /\ s[k] \in T
  BY <1>1
<1>3. ASSUME NEW p \in T PROVE Successors(p) \cap T # {}
  <2>1. PICK i \in k .. Len(s) : p = s[i]
    OBVIOUS
  <2>2. CASE i = Len(s)
    BY <2>1, <2>2, <1>2 DEF Last
  <2>3. CASE i # Len(s)
    <3>1. i \in 1 .. Len(s) /\ i < Len(s) /\ i + 1 \in k .. Len(s)
      BY <2>1, <2>3, <1>1
    <3>2. s[i + 1] \in Successors(p)
      BY <3>1, <2>1
    <3> QED
      BY <3>1, <3>2
  <2> QED
    BY <2>2, <2>3
<1> QED
  BY <1>2, <1>3 DEF Acyclic, WellFounded

\* An operation whose readers all finished before it can join a well-founded
\* set of finished operations.
LEMMA WellFoundedGrows ==
  ASSUME NEW S, NEW o, o \notin S, WellFounded(S), Successors(o) \subseteq S,
         \A p \in S : Successors(p) \subseteq S
  PROVE  WellFounded(S \cup {o})
<1> SUFFICES ASSUME NEW T \in SUBSET (S \cup {o}), T # {}
             PROVE  \E p \in T : Successors(p) \cap T = {}
  BY DEF WellFounded
<1>1. CASE T \cap S = {}
  BY <1>1
<1>2. CASE T \cap S # {}
  <2>1. PICK p \in T \cap S : Successors(p) \cap (T \cap S) = {}
    BY <1>2 DEF WellFounded
  <2>2. Successors(p) \cap T = {}
    BY <2>1
  <2> QED
    BY <2>1, <2>2
<1> QED
  BY <1>1, <1>2

\* The graph, and so its readers and its cycles, does not change.
LEMMA GraphFrozen ==
  ASSUME UNCHANGED graph
  PROVE  /\ \A o : Successors(o)' = Successors(o)
         /\ \A S : WellFounded(S)' = WellFounded(S)
         /\ Acyclic' = Acyclic
BY DEF graph, Successors, Uses, WellFounded, Acyclic

\* A schedule lists every operation, and each only once.
LEMMA ScheduleCovers ==
  ASSUME NEW s \in Schedules
  PROVE  /\ s \in Seq(Operation) /\ Len(s) \in Nat /\ DOMAIN s = 1 .. Len(s)
         /\ \A i \in 1 .. Len(s) : s[i] \in Operation
         /\ IsInjective(s)
         /\ {s[i] : i \in 1 .. Len(s)} = Operation
<1> DEFINE n == Cardinality(Operation)
<1>1. n \in Nat /\ IsFiniteSet(Operation)
  BY FiniteAssumption, FS_CardinalityType
<1>2. s \in [1 .. n -> Operation] /\ \A i, j \in 1 .. n : s[i] = s[j] => i = j
  BY DEF Schedules
<1>3. s \in Seq(Operation) /\ Len(s) = n /\ DOMAIN s = 1 .. n
  BY <1>1, <1>2
<1>4. IsInjective(s)
  BY <1>2, <1>3 DEF IsInjective
<1>5. IsFiniteSet(1 .. n) /\ Cardinality(1 .. n) = n
  BY <1>1, FS_Interval
<1>6. s \in Injection(1 .. n, Operation)
  BY <1>2, <1>4 DEF Injection
<1>7. s \in Surjection(1 .. n, Operation)
  BY <1>1, <1>5, <1>6, FS_Injection
<1>8. \A o \in Operation : \E i \in 1 .. n : s[i] = o
  BY <1>7 DEF Surjection
<1>9. {s[i] : i \in 1 .. n} = Operation
  BY <1>2, <1>8
<1> QED
  BY <1>1, <1>2, <1>3, <1>4, <1>9

\* The other way around: a list of every operation, once each and before its
\* readers, is a schedule.
LEMMA ListsAreSchedules ==
  ASSUME NEW s \in Seq(Operation), {s[i] : i \in 1 .. Len(s)} = Operation,
         \A i, j \in 1 .. Len(s) : /\ s[i] = s[j] => i = j
                                   /\ s[j] \in Successors(s[i]) => i < j
  PROVE  s \in Schedules
<1>1. s \in [1 .. Len(s) -> Operation] /\ DOMAIN s = 1 .. Len(s) /\ Len(s) \in Nat
  OBVIOUS
<1>2. s \in Bijection(1 .. Len(s), Operation)
  BY <1>1 DEF Bijection, Injection, Surjection, IsInjective
<1> DEFINE n == Len(s)
<1>3. IsFiniteSet(1 .. n) /\ Cardinality(1 .. n) = n
  <2>1. n \in Nat /\ n \in Int /\ 1 \in Int
    BY <1>1
  <2> HIDE DEF n
  <2>2. IsFiniteSet(1 .. n) /\ Cardinality(1 .. n) = IF 1 > n THEN 0 ELSE n - 1 + 1
    BY <2>1, FS_Interval
  <2> QED
    BY <2>1, <2>2
<1>4. ExistsBijection(1 .. Len(s), Operation)
  BY <1>2 DEF ExistsBijection
<1>5. Cardinality(Operation) = Len(s)
  BY <1>3, <1>4, FS_Bijection
<1> QED
  BY <1>1, <1>5 DEF Schedules
=============================================================================
