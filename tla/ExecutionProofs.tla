-------------------------- MODULE ExecutionProofs --------------------------
(***************************************************************************)
(* An execution that meets no other on its plan or in the scratch buffer   *)
(* is right when none of its functions gave up: for any number of          *)
(* executions and plans, any models, backends and schedules.               *)
(*                                                                         *)
(* The tensors still hold what earlier executions left in them.  The       *)
(* invariant says which of them e has made its own so far: the objects of  *)
(* the inputs it has pushed and of the outputs of the operations it has    *)
(* run, in the order of the schedule, so that an operation finds its       *)
(* inputs replaced before it reads them.                                   *)
(***************************************************************************)
EXTENDS Execution, DataflowProofs, FiniteSetTheorems, WellFoundedInduction

\* What the promise for e depends on.
Clean(e) == BackendsAgree /\ ConstantsAreFilled /\ ~Disturbed(e) /\ e \notin lost

Own(e, x, b) == buffer[planOf[e]][<<x, b>>] \subseteq {e}

\* The inputs e has pushed, the operations it has run and the sinks it has
\* filled, the first and the last as positions in their lists.
Pushed(e) == IF stage[e] = "push" THEN 1 .. at[e] ELSE 1 .. Len(modelIns)
Ran(e) == IF stage[e] = "push" THEN {}
          ELSE IF stage[e] \in {"run", "gemm"} THEN {order[i] : i \in 1 .. at[e]}
          ELSE Operation
Pulled(e) == IF stage[e] = "pull" THEN 1 .. at[e]
             ELSE IF stage[e] = "done" THEN 1 .. Len(modelOuts) ELSE {}

OwnSoFar(e) ==
  /\ e \in Running =>
       /\ \A i \in Pushed(e) : \A b \in ObjectsOf(modelIns[i]) : Own(e, modelIns[i], b)
       /\ \A o \in Ran(e) : \A x \in outputs[o] : Own(e, x, backendOf[o])
  /\ stage[e] = "gemm" => scratch \subseteq {e}
  /\ \A i \in Pulled(e) : sinks[e][modelOuts[i]] \subseteq {e}

UndisturbedInv == \A e \in Executions : Clean(e) => OwnSoFar(e)

ModelInv ==
  order \in Schedules /\ pullOrder \in SetToSeqs(Backend) /\ weights \subseteq Constant

WeightInv == \A p \in Plan, x \in weights, b \in Backend : buffer[p][<<x, b>>] = {}

\* Two executions that run have met each other.
MetInv == \A e, f \in Running : e # f => f \in met[e]

AtInv ==
  \A e \in Executions :
    /\ stage[e] = "ready" => at[e] = 0
    /\ stage[e] = "push" => at[e] <= Len(modelIns)
    /\ stage[e] = "run" => at[e] <= Len(order)
    /\ stage[e] = "gemm" => at[e] < Len(order) /\ order[at[e] + 1] \in convolutions
    /\ stage[e] = "pull" => at[e] <= Len(modelOuts)

Inv ==
  /\ TypeOK /\ ModelInv /\ WeightInv /\ MetInv /\ AtInv /\ UndisturbedInv
-----------------------------------------------------------------------------
\* An order of a finite set lists each of its elements.
LEMMA OrderCovers ==
  ASSUME NEW S, IsFiniteSet(S), NEW s \in SetToSeqs(S)
  PROVE  /\ s \in Seq(S) /\ DOMAIN s = 1 .. Len(s) /\ Len(s) \in Nat
         /\ \A b \in S : \E i \in DOMAIN s : s[i] = b
<1> DEFINE n == Cardinality(S)
<1>1. n \in Nat
  BY FS_CardinalityType
<1>2. s \in [1 .. n -> S] /\ \A i, j \in 1 .. n : i # j => s[i] # s[j]
  BY DEF SetToSeqs
<1>3. s \in Seq(S) /\ Len(s) = n /\ DOMAIN s = 1 .. n
  BY <1>1, <1>2
<1>4. IsInjective(s)
  BY <1>2, <1>3 DEF IsInjective
<1>5. IsFiniteSet(1 .. n) /\ Cardinality(1 .. n) = n
  BY <1>1, FS_Interval
<1>6. s \in Injection(1 .. n, S)
  BY <1>2, <1>4 DEF Injection
<1>7. s \in Surjection(1 .. n, S)
  BY <1>1, <1>5, <1>6, FS_Injection
<1>8. \A b \in S : \E i \in 1 .. n : s[i] = b
  BY <1>7 DEF Surjection
<1> QED
  BY <1>1, <1>3, <1>8

\* A non-empty set of positions has a last one.
LEMMA LastPosition ==
  ASSUME NEW n \in Nat, NEW S \in SUBSET (1 .. n), S # {}
  PROVE  Max(S) \in S
<1> DEFINE T == {n - i : i \in S}
<1>1. T \subseteq Nat /\ T # {}
  <2>1. \A i \in S : n - i \in Nat
    OBVIOUS
  <2> QED
    BY <2>1
<1>2. PICK m \in T : \A k \in T : ~(<<k, m>> \in OpToRel(<, Nat))
  BY <1>1, NatLessThanWellFounded, WFMin
<1>3. \A k \in T : ~(k < m)
  BY <1>1, <1>2 DEF OpToRel
<1>4. PICK i \in S : m = n - i
  BY <1>2
<1>5. \A j \in S : n - j \in T /\ j \in Int
  OBVIOUS
<1>6. \A j \in S : i >= j
  BY <1>3, <1>4, <1>5
<1> QED
  BY <1>6 DEF Max

\* The object that is pulled last is an object of the output.
LEMMA LastObjectExists ==
  ASSUME TypeOK, ModelInv, NEW x, ObjectsOf(x) # {}
  PROVE  LastObject(x) \in ObjectsOf(x)
<1> DEFINE S == {i \in DOMAIN pullOrder : pullOrder[i] \in ObjectsOf(x)}
<1>1. ObjectsOf(x) \subseteq Backend
  BY DEF TypeOK, ObjectsOf
<1>2. /\ DOMAIN pullOrder = 1 .. Len(pullOrder) /\ Len(pullOrder) \in Nat
      /\ \A b \in Backend : \E i \in DOMAIN pullOrder : pullOrder[i] = b
  BY ExecutionAssumption, OrderCovers DEF ModelInv
<1>3. S \in SUBSET (1 .. Len(pullOrder)) /\ S # {}
  BY <1>1, <1>2
<1>4. Max(S) \in S
  BY <1>2, <1>3, LastPosition
<1> QED
  BY <1>4 DEF LastObject

\* The model, its plans and what they say of operands and backends are fixed.
LEMMA ModelFrozen ==
  ASSUME UNCHANGED model
  PROVE  /\ UNCHANGED <<inputs, outputs, modelIns, modelOuts, weights, backendOf,
                        convolutions, failing, planOf, order, pullOrder>>
         /\ \A x : ObjectsOf(x)' = ObjectsOf(x)
         /\ BackendsAgree' = BackendsAgree
         /\ ConstantsAreFilled' = ConstantsAreFilled
         /\ ModelInv' = ModelInv
<1>1. UNCHANGED <<inputs, outputs, modelIns, modelOuts, weights, backendOf,
                  convolutions, failing, planOf, order, pullOrder>>
  BY DEF model
<1>2. Constant' = Constant
  BY <1>1 DEF Constant
<1>3. Schedules' = Schedules
  BY <1>1 DEF Schedules, Successors, Uses
<1> QED
  BY <1>1, <1>2, <1>3 DEF ObjectsOf, BackendsAgree, ConstantsAreFilled, ModelInv

LEMMA InitInv == Init => Inv
<1> SUFFICES ASSUME Init PROVE Inv
  OBVIOUS
<1> USE DEF Init
<1>1. /\ inputs \in [Operation -> SUBSET Operand] /\ outputs \in [Operation -> SUBSET Operand]
      /\ modelIns \in Seq(Operand) /\ modelOuts \in Seq(Operand)
      /\ weights \subseteq Operand
  BY ModelsAssumption
<1>2. order \in Seq(Operation) /\ pullOrder \in Seq(Backend)
  BY ScheduleCovers, ExecutionAssumption, OrderCovers
<1>3. buffer \in [Plan -> [Operand \X Backend -> Origin]] /\ scratch \in Origin
  BY DEF Origin
<1>4. sinks \in [Executions -> [Operand -> Origin]]
  BY DEF Origin
<1>5. TypeOK
  BY <1>1, <1>2, <1>3, <1>4 DEF TypeOK, GraphTypeOK
<1>6. WeightInv
  BY <1>1 DEF WeightInv
<1>7. MetInv /\ AtInv /\ UndisturbedInv
  BY DEF MetInv, AtInv, UndisturbedInv, OwnSoFar, Running, Pulled
<1> QED
  BY <1>5, <1>6, <1>7 DEF Inv, ModelInv

-----------------------------------------------------------------------------
\* A step of f leaves every other execution where it is, and what is not f's
\* alone: the tensors of the other plans and, without convolutions, the
\* scratch buffer.
OthersLeft(f) ==
  /\ \A e \in Executions \ {f} : UNCHANGED <<at[e], stage[e], sinks[e]>>
  /\ \A p \in Plan \ {planOf[f]} : UNCHANGED buffer[p]
  /\ convolutions = {} => UNCHANGED scratch
  /\ lost' \in {lost, lost \cup {f}}

\* So the others keep what they have made their own.
LEMMA OthersKeep ==
  ASSUME Inv, UNCHANGED <<model, met>>, NEW f \in Running, OthersLeft(f),
         NEW e \in Executions \ {f}, Clean(e)
  PROVE  OwnSoFar(e)'
<1>1. OwnSoFar(e)
  BY DEF Inv, UndisturbedInv
<1>2. /\ UNCHANGED <<inputs, outputs, modelIns, modelOuts, backendOf, convolutions, planOf, order>>
      /\ \A x : ObjectsOf(x)' = ObjectsOf(x)
  BY ModelFrozen
<1>3. UNCHANGED <<at[e], stage[e], sinks[e]>>
  BY DEF OthersLeft
<1>4. Pushed(e)' = Pushed(e) /\ Ran(e)' = Ran(e) /\ Pulled(e)' = Pulled(e)
  BY <1>2, <1>3 DEF Pushed, Ran, Pulled
<1>5. (e \in Running)' <=> e \in Running
  BY <1>3 DEF Running
<1>6. ASSUME e \in Running
      PROVE  UNCHANGED scratch /\ UNCHANGED buffer[planOf[e]]
  <2>1. f \in met[e]
    BY <1>6 DEF Inv, MetInv
  <2>2. planOf[f] # planOf[e] /\ convolutions = {}
    BY <2>1 DEF Clean, Disturbed
  <2>3. planOf[e] \in Plan
    BY DEF Inv, TypeOK
  <2> QED
    BY <1>2, <2>2, <2>3 DEF OthersLeft
<1>7. ASSUME e \in Running
      PROVE  \A x, b : Own(e, x, b)' = Own(e, x, b)
  BY <1>2, <1>6, <1>7 DEF Own
<1>8. stage[e] = "gemm" => e \in Running
  BY DEF Running
<1>9. CASE e \in Running
  BY <1>1, <1>2, <1>3, <1>4, <1>5, <1>6, <1>7, <1>9 DEF OwnSoFar
<1>10. CASE e \notin Running
  BY <1>1, <1>2, <1>3, <1>4, <1>5, <1>8, <1>10 DEF OwnSoFar
<1> QED
  BY <1>9, <1>10

\* What a step of a running execution has to keep.
LEMMA StepKeeps ==
  ASSUME Inv, UNCHANGED <<model, met>>, NEW f \in Running, OthersLeft(f),
         TypeOK', WeightInv', AtInv',
         Clean(f) => OwnSoFar(f)' \/ f \in lost'
  PROVE  Inv'
<1>1. /\ ModelInv' /\ UNCHANGED <<planOf, convolutions>>
      /\ BackendsAgree' = BackendsAgree /\ ConstantsAreFilled' = ConstantsAreFilled
  BY ModelFrozen DEF Inv
<1>2. \A e : Disturbed(e)' = Disturbed(e)
  BY <1>1 DEF Disturbed
<1>3. UndisturbedInv'
  <2> SUFFICES ASSUME NEW e \in Executions, Clean(e)'
               PROVE  OwnSoFar(e)'
    BY DEF UndisturbedInv
  <2>1. Clean(e) /\ e \notin lost'
    BY <1>1, <1>2 DEF Clean, OthersLeft
  <2> QED
    BY <2>1, OthersKeep
<1>4. Running' \subseteq Running
  BY DEF Running, OthersLeft
<1>5. MetInv'
  BY <1>4 DEF Inv, MetInv
<1> QED
  BY <1>1, <1>3, <1>5 DEF Inv

LEMMA StartComputeInv ==
  ASSUME Inv, NEW f \in Executions, StartCompute(f)
  PROVE  Inv'
<1>1. /\ stage[f] = "ready" /\ stage' = [stage EXCEPT ![f] = "push"]
      /\ met' = [e \in Executions |-> IF e = f THEN Running
                                      ELSE IF e \in Running THEN met[e] \cup {f} ELSE met[e]]
      /\ UNCHANGED <<model, buffer, scratch, at, sinks, lost>>
  BY DEF StartCompute
<1>2. /\ UNCHANGED <<inputs, outputs, modelIns, modelOuts, weights, backendOf, convolutions,
                    failing, planOf, order, pullOrder>>
      /\ \A x : ObjectsOf(x)' = ObjectsOf(x)
      /\ BackendsAgree' = BackendsAgree /\ ConstantsAreFilled' = ConstantsAreFilled
      /\ ModelInv' = ModelInv
  BY <1>1, ModelFrozen
<1>3. TypeOK
  BY DEF Inv
<1>4. stage'[f] = "push" /\ at[f] = 0 /\ \A e \in Executions \ {f} : stage'[e] = stage[e]
  BY <1>1, <1>3 DEF Inv, AtInv, TypeOK
<1>5. Running' = Running \cup {f} /\ f \notin Running
  BY <1>1, <1>4 DEF Running
<1>6. TypeOK'
  <2>1. stage' \in [Executions -> {"ready", "push", "run", "gemm", "pull", "done", "threw"}]
    BY <1>1, <1>3 DEF TypeOK
  <2>2. met' \in [Executions -> SUBSET Executions]
    BY <1>1, <1>3 DEF TypeOK, Running
  <2> QED
    BY <1>1, <1>2, <1>3, <2>1, <2>2 DEF TypeOK, GraphTypeOK, Origin
<1>7. WeightInv'
  BY <1>1, <1>2 DEF Inv, WeightInv
<1>8. MetInv'
  BY <1>1, <1>5 DEF Inv, MetInv, Running
<1>9. AtInv'
  <2>1. Len(modelIns) \in Nat
    BY <1>3 DEF TypeOK
  <2> QED
    BY <1>1, <1>2, <1>4, <2>1 DEF Inv, AtInv
<1>10. UndisturbedInv'
  <2> SUFFICES ASSUME NEW e \in Executions, Clean(e)'
               PROVE  OwnSoFar(e)'
    BY DEF UndisturbedInv
  <2>1. CASE e = f
    <3>1. Pushed(e)' = {} /\ Ran(e)' = {} /\ Pulled(e)' = {}
      BY <1>1, <1>4, <2>1 DEF Pushed, Ran, Pulled
    <3> QED
      BY <1>4, <2>1, <3>1 DEF OwnSoFar
  <2>2. CASE e # f
    <3>1. met[e] \subseteq met'[e]
      BY <1>1, <2>2
    <3>2. OwnSoFar(e)
      BY <1>1, <1>2, <3>1 DEF Inv, UndisturbedInv, Clean, Disturbed
    <3>3. Pushed(e)' = Pushed(e) /\ Ran(e)' = Ran(e) /\ Pulled(e)' = Pulled(e)
      BY <1>1, <1>2, <1>4, <2>2 DEF Pushed, Ran, Pulled
    <3>4. (e \in Running)' <=> e \in Running
      BY <1>5, <2>2
    <3> QED
      BY <1>1, <1>2, <1>4, <2>2, <3>2, <3>3, <3>4 DEF OwnSoFar, Own
  <2> QED
    BY <2>1, <2>2
<1> QED
  BY <1>2, <1>6, <1>7, <1>8, <1>9, <1>10 DEF Inv

\* An execution that throws leaves everything else as it is.
LEMMA ThrowingInv ==
  ASSUME Inv, NEW f \in Running, stage' = [stage EXCEPT ![f] = "threw"],
         UNCHANGED <<model, buffer, scratch, at, sinks, met, lost>>
  PROVE  Inv'
<1>1. TypeOK /\ f \in Executions
  BY DEF Inv, Running
<1>2. /\ UNCHANGED <<inputs, outputs, modelIns, modelOuts, weights, backendOf, convolutions,
                    failing, planOf, order, pullOrder>>
  BY ModelFrozen
<1>3. stage'[f] = "threw" /\ \A e \in Executions \ {f} : stage'[e] = stage[e]
  BY <1>1 DEF TypeOK
<1>4. TypeOK'
  BY <1>1, <1>2 DEF TypeOK, GraphTypeOK, Origin
<1>5. WeightInv'
  BY <1>2 DEF Inv, WeightInv
<1>6. AtInv'
  BY <1>2, <1>3 DEF Inv, AtInv
<1>7. OthersLeft(f)
  BY <1>3 DEF OthersLeft
<1>8. OwnSoFar(f)'
  BY <1>3 DEF OwnSoFar, Running, Pulled
<1> QED
  BY <1>4, <1>5, <1>6, <1>7, <1>8, StepKeeps

LEMMA OperandMissingInv ==
  ASSUME Inv, NEW f \in Executions, OperandMissing(f)
  PROVE  Inv'
<1>1. /\ f \in Running /\ stage' = [stage EXCEPT ![f] = "threw"]
      /\ UNCHANGED <<model, buffer, scratch, at, sinks, met, lost>>
  BY DEF OperandMissing, Running
<1> QED
  BY <1>1, ThrowingInv

-----------------------------------------------------------------------------
\* A step of f to the stage `following` at the position k, in the lists and
\* the objects that stay the same.
Moves(f, following, k) ==
  /\ stage'[f] = following /\ at'[f] = k
  /\ \A e \in Executions \ {f} : stage'[e] = stage[e] /\ at'[e] = at[e]
  /\ at' \in [Executions -> Nat]
  /\ stage' \in [Executions -> {"ready", "push", "run", "gemm", "pull", "done", "threw"}]

LEMMA Moving ==
  ASSUME TypeOK, NEW f \in Executions
  PROVE  /\ Step(f) => Moves(f, stage[f], at[f] + 1)
         /\ \A following \in {"run", "pull", "done"} :
              Leave(f, following) => Moves(f, following, 0)
         /\ \A following \in {"run", "gemm"} :
              stage' = [stage EXCEPT ![f] = following] /\ UNCHANGED at
                => Moves(f, following, at[f])
<1>1. /\ at \in [Executions -> Nat]
      /\ stage \in [Executions -> {"ready", "push", "run", "gemm", "pull", "done", "threw"}]
  BY DEF TypeOK
<1>2. at[f] + 1 \in Nat
  BY <1>1
<1>3. Step(f) => Moves(f, stage[f], at[f] + 1)
  BY <1>1, <1>2 DEF Step, Moves
<1> QED
  BY <1>1, <1>3 DEF Leave, Moves

LEMMA Listed ==
  ASSUME NEW S, NEW s \in Seq(S), NEW x \in ToSet(s)
  PROVE  \E i \in 1 .. Len(s) : x = s[i]
BY DEF ToSet

LEMMA Typed ==
  ASSUME Inv, NEW f \in Executions
  PROVE  /\ TypeOK
         /\ Len(modelIns) \in Nat /\ Len(order) \in Nat /\ Len(modelOuts) \in Nat
         /\ planOf[f] \in Plan /\ at[f] \in Nat
<1>1. /\ modelIns \in Seq(Operand) /\ modelOuts \in Seq(Operand) /\ order \in Seq(Operation)
      /\ planOf \in [Executions -> Plan] /\ at \in [Executions -> Nat]
  BY DEF Inv, TypeOK
<1>2. Len(modelIns) \in Nat /\ Len(order) \in Nat /\ Len(modelOuts) \in Nat
  BY <1>1
<1> QED
  BY <1>1, <1>2 DEF Inv

\* The position of f stays in the list it goes through.
LEMMA AtKept ==
  ASSUME Inv, UNCHANGED model, NEW f \in Executions, NEW s, s # "ready", NEW k \in Nat,
         Moves(f, s, k),
         s = "push" => k <= Len(modelIns),
         s = "run" => k <= Len(order),
         s = "gemm" => k < Len(order) /\ order[k + 1] \in convolutions,
         s = "pull" => k <= Len(modelOuts)
  PROVE  AtInv'
<1>1. UNCHANGED <<modelIns, modelOuts, order, convolutions>>
  BY DEF model
<1> SUFFICES ASSUME NEW e \in Executions
             PROVE  /\ stage'[e] = "ready" => at'[e] = 0
                    /\ stage'[e] = "push" => at'[e] <= Len(modelIns)
                    /\ stage'[e] = "run" => at'[e] <= Len(order)
                    /\ stage'[e] = "gemm" => at'[e] < Len(order) /\ order[at'[e] + 1] \in convolutions
                    /\ stage'[e] = "pull" => at'[e] <= Len(modelOuts)
  BY <1>1 DEF AtInv
<1>2. CASE e = f
  BY <1>2 DEF Moves
<1>3. CASE e # f
  BY <1>3 DEF Moves, Inv, AtInv
<1> QED
  BY <1>2, <1>3

\* The weights of a plan keep their values.
LEMMA WeightsKept ==
  ASSUME Inv, UNCHANGED model, NEW f \in Executions,
         \A p \in Plan \ {planOf[f]} : buffer'[p] = buffer[p],
         \A x \in weights, b \in Backend :
           buffer'[planOf[f]][<<x, b>>] = buffer[planOf[f]][<<x, b>>]
  PROVE  WeightInv'
<1>1. weights' = weights
  BY ModelFrozen
<1> SUFFICES ASSUME NEW p \in Plan, NEW x \in weights, NEW b \in Backend
             PROVE  buffer'[p][<<x, b>>] = {}
  BY <1>1 DEF WeightInv
<1>2. buffer[p][<<x, b>>] = {}
  BY DEF Inv, WeightInv
<1> QED
  BY <1>2

LEMMA PushInputInv ==
  ASSUME Inv, NEW f \in Executions, PushInput(f)
  PROVE  Inv'
<1>1. /\ f \in Running /\ stage[f] = "push"
      /\ UNCHANGED <<model, scratch, sinks, met, lost>>
  BY DEF PushInput, Running
<1>2. /\ TypeOK
      /\ Len(modelIns) \in Nat /\ Len(order) \in Nat /\ Len(modelOuts) \in Nat
      /\ planOf[f] \in Plan /\ at[f] \in Nat
  BY Typed
<1>3. /\ UNCHANGED <<inputs, outputs, modelIns, modelOuts, weights, backendOf, convolutions,
                    failing, planOf, order, pullOrder>>
      /\ \A x : ObjectsOf(x)' = ObjectsOf(x)
  BY <1>1, ModelFrozen
<1>4. CASE at[f] = Len(modelIns)
  <2>1. Moves(f, "run", 0) /\ UNCHANGED buffer
    BY <1>2, <1>4, Moving DEF PushInput
  <2>2. TypeOK'
    BY <1>1, <1>2, <1>3, <2>1 DEF TypeOK, GraphTypeOK, Origin, Moves
  <2>3. WeightInv'
    BY <1>3, <2>1 DEF Inv, WeightInv
  <2>4. AtInv'
    BY <1>1, <1>2, <2>1, AtKept
  <2>5. OthersLeft(f)
    BY <1>1, <2>1 DEF OthersLeft, Moves
  <2>6. ASSUME Clean(f)
        PROVE  OwnSoFar(f)'
    <3>1. OwnSoFar(f)
      BY <2>6 DEF Inv, UndisturbedInv
    <3>2. Pushed(f)' = Pushed(f) /\ Ran(f)' = {} /\ Pulled(f)' = {}
      BY <1>1, <1>3, <1>4, <2>1 DEF Pushed, Ran, Pulled, Moves
    <3>3. stage'[f] # "gemm"
      BY <2>1 DEF Moves
    <3> QED
      BY <1>1, <1>3, <2>1, <3>1, <3>2, <3>3 DEF OwnSoFar, Own
  <2> QED
    BY <1>1, <2>2, <2>3, <2>4, <2>5, <2>6, StepKeeps
<1>5. CASE at[f] # Len(modelIns)
  <2>1. PICK x : x = modelIns[at[f] + 1]
    OBVIOUS
  <2>2. /\ buffer' = [buffer EXCEPT ![planOf[f]] =
                       [xb \in DOMAIN @ |-> IF xb[1] = x /\ xb[2] \in ObjectsOf(x)
                                            THEN {f} ELSE @[xb]]]
        /\ Moves(f, "push", at[f] + 1)
    BY <1>1, <1>2, <1>5, <2>1, Moving DEF PushInput
  <2>3. at[f] + 1 \in 1 .. Len(modelIns) /\ x \in Operand /\ x \in ToSet(modelIns)
    BY <1>1, <1>2, <1>5, <2>1 DEF Inv, AtInv, TypeOK, ToSet
  <2>4. /\ buffer'[planOf[f]] = [xb \in Operand \X Backend |->
                                   IF xb[1] = x /\ xb[2] \in ObjectsOf(x)
                                   THEN {f} ELSE buffer[planOf[f]][xb]]
        /\ \A p \in Plan \ {planOf[f]} : buffer'[p] = buffer[p]
        /\ buffer' \in [Plan -> [Operand \X Backend -> Origin]]
    <3>1. PICK g : g = [xb \in Operand \X Backend |->
                          IF xb[1] = x /\ xb[2] \in ObjectsOf(x)
                          THEN {f} ELSE buffer[planOf[f]][xb]]
      OBVIOUS
    <3>2. buffer[planOf[f]] \in [Operand \X Backend -> Origin]
      BY <1>2 DEF TypeOK
    <3>3. {f} \in Origin
      BY DEF Origin
    <3>4. g \in [Operand \X Backend -> Origin]
      BY <3>1, <3>2, <3>3
    <3>5. buffer' = [buffer EXCEPT ![planOf[f]] = g]
      BY <2>2, <3>1, <3>2
    <3> QED
      BY <1>2, <3>1, <3>4, <3>5 DEF TypeOK
  <2>5. TypeOK'
    BY <1>1, <1>2, <1>3, <2>2, <2>4 DEF TypeOK, GraphTypeOK, Moves, Origin
  <2>6. WeightInv'
    <3>1. x \notin weights /\ weights \subseteq Operand
      BY <2>3 DEF Inv, ModelInv, Constant
    <3>2. \A z \in weights, b \in Backend : buffer'[planOf[f]][<<z, b>>] = buffer[planOf[f]][<<z, b>>]
      BY <2>4, <3>1
    <3> QED
      BY <1>1, <2>4, <3>2, WeightsKept
  <2>7. AtInv'
    BY <1>1, <1>2, <2>2, <2>3, AtKept
  <2>8. OthersLeft(f)
    BY <1>1, <2>2, <2>4 DEF OthersLeft, Moves
  <2>9. ASSUME Clean(f)
        PROVE  OwnSoFar(f)'
    <3>1. OwnSoFar(f)
      BY <2>9 DEF Inv, UndisturbedInv
    <3>2. Pushed(f)' = Pushed(f) \cup {at[f] + 1} /\ Ran(f)' = {} /\ Pulled(f)' = {}
      BY <1>1, <1>2, <2>2 DEF Pushed, Ran, Pulled, Moves
    <3>3. \A z, b : ObjectsOf(z) \subseteq Backend
      BY <1>2 DEF ObjectsOf, TypeOK
    <3>4. \A i \in Pushed(f) : modelIns[i] \in Operand
      BY <1>1, <1>2 DEF Pushed, Inv, AtInv, TypeOK
    <3>5. \A i \in Pushed(f) : \A b \in ObjectsOf(modelIns[i]) : Own(f, modelIns[i], b)'
      BY <1>1, <1>3, <2>4, <3>1, <3>3, <3>4 DEF OwnSoFar, Own
    <3>6. \A b \in ObjectsOf(x) : Own(f, x, b)'
      BY <1>3, <2>3, <2>4, <3>3 DEF Own
    <3>7. \A i \in Pushed(f)' : \A b \in ObjectsOf(modelIns[i])' : Own(f, modelIns[i], b)'
      BY <1>3, <2>1, <3>2, <3>5, <3>6
    <3> QED
      BY <1>3, <2>2, <3>2, <3>7 DEF OwnSoFar, Moves
  <2> QED
    BY <1>1, <2>5, <2>6, <2>7, <2>8, <2>9, StepKeeps
<1> QED
  BY <1>4, <1>5

\* What an operation reads when its turn comes is f's own.
LEMMA InputsAreOwn ==
  ASSUME Inv, NEW f \in Executions, stage[f] = "run", at[f] < Len(order),
         Clean(f)
  PROVE  ReadInputs(f, order[at[f] + 1]) \subseteq {f}
<1> DEFINE o == order[at[f] + 1]
<1>1. /\ TypeOK /\ Len(order) \in Nat /\ at[f] \in Nat /\ planOf[f] \in Plan
      /\ at[f] + 1 \in 1 .. Len(order)
  BY Typed
<1>2. order \in Schedules /\ o \in Operation /\ {order[i] : i \in 1 .. Len(order)} = Operation
      /\ DOMAIN order = 1 .. Len(order)
  BY <1>1, ScheduleCovers DEF Inv, ModelInv
<1>3. OwnSoFar(f) /\ f \in Running
  BY DEF Inv, UndisturbedInv, Running
<1> SUFFICES ASSUME NEW x \in inputs[o]
             PROVE  Own(f, x, backendOf[o])
  BY DEF ReadInputs, Own
<1>4. /\ x \in Operand /\ backendOf[o] \in Backend /\ backendOf[o] \in ObjectsOf(x)
  BY <1>1, <1>2 DEF TypeOK, GraphTypeOK, ObjectsOf
<1>5. CASE x \in Constant
  BY <1>1, <1>2, <1>4, <1>5 DEF Clean, ConstantsAreFilled, Inv, WeightInv, Own
<1>6. CASE x \in ToSet(modelIns)
  <2>1. PICK i \in 1 .. Len(modelIns) : x = modelIns[i]
    <3>1. modelIns \in Seq(Operand)
      BY <1>1 DEF TypeOK
    <3> QED
      BY <1>6, <3>1, Listed
  <2>2. i \in Pushed(f)
    BY <2>1 DEF Pushed
  <2> QED
    BY <1>3, <1>4, <2>1, <2>2 DEF OwnSoFar
<1>7. CASE x \in UNION {outputs[p] : p \in Operation}
  <2>1. PICK p \in Operation : x \in outputs[p]
    BY <1>7
  <2>2. PICK i \in 1 .. Len(order) : order[i] = p
    BY <1>2
  <2>3. o \in Successors(p)
    BY <1>2, <2>1 DEF Successors, Uses
  <2>4. i < at[f] + 1
    BY <1>1, <1>2, <2>2, <2>3 DEF Schedules
  <2>5. p \in Ran(f)
    BY <1>1, <2>2, <2>4 DEF Ran
  <2>6. backendOf[p] = backendOf[o]
    BY <1>2, <2>1 DEF Clean, BackendsAgree
  <2> QED
    BY <1>3, <2>1, <2>5, <2>6 DEF OwnSoFar
<1> QED
  BY <1>4, <1>5, <1>6, <1>7 DEF Constant

LEMMA ReadInputsTyped ==
  ASSUME Inv, NEW f \in Executions, at[f] < Len(order)
  PROVE  ReadInputs(f, order[at[f] + 1]) \in Origin
<1> DEFINE o == order[at[f] + 1]
<1>1. TypeOK /\ planOf[f] \in Plan /\ at[f] + 1 \in 1 .. Len(order)
  BY Typed
<1>2. o \in Operation
  BY <1>1 DEF TypeOK
<1>3. \A x \in inputs[o] : <<x, backendOf[o]>> \in Operand \X Backend
  BY <1>1, <1>2 DEF TypeOK, GraphTypeOK
<1>4. \A x \in inputs[o] : buffer[planOf[f]][<<x, backendOf[o]>>] \in Origin
  BY <1>1, <1>3 DEF TypeOK
<1> QED
  BY <1>4 DEF ReadInputs, Origin

\* Writing the outputs of the operation at hand adds it to those that have run.
LEMMA WritingInv ==
  ASSUME Inv, NEW f \in Executions, UNCHANGED <<model, scratch, sinks, met, lost>>,
         stage[f] \in {"run", "gemm"}, at[f] < Len(order), Moves(f, "run", at[f] + 1),
         NEW origin \in Origin, WriteOutputs(f, order[at[f] + 1], origin),
         Clean(f) => origin \subseteq {f}
  PROVE  Inv'
<1>1. PICK o : o = order[at[f] + 1]
  OBVIOUS
<1>2. /\ TypeOK /\ Len(order) \in Nat /\ at[f] \in Nat /\ planOf[f] \in Plan
      /\ at[f] + 1 \in 1 .. Len(order) /\ f \in Running
  BY Typed DEF Running
<1>3. /\ UNCHANGED <<inputs, outputs, modelIns, modelOuts, weights, backendOf, convolutions,
                    failing, planOf, order, pullOrder>>
      /\ \A x : ObjectsOf(x)' = ObjectsOf(x)
  BY ModelFrozen
<1>4. o \in Operation /\ outputs[o] \subseteq Operand /\ backendOf[o] \in Backend
  BY <1>1, <1>2 DEF TypeOK, GraphTypeOK
<1>5. /\ buffer'[planOf[f]] = [xb \in Operand \X Backend |->
                                 IF xb[1] \in outputs[o] /\ xb[2] = backendOf[o]
                                 THEN origin ELSE buffer[planOf[f]][xb]]
      /\ \A p \in Plan \ {planOf[f]} : buffer'[p] = buffer[p]
      /\ buffer' \in [Plan -> [Operand \X Backend -> Origin]]
  <2>1. PICK g : g = [xb \in Operand \X Backend |->
                        IF xb[1] \in outputs[o] /\ xb[2] = backendOf[o]
                        THEN origin ELSE buffer[planOf[f]][xb]]
    OBVIOUS
  <2>2. buffer[planOf[f]] \in [Operand \X Backend -> Origin]
    BY <1>2 DEF TypeOK
  <2>3. g \in [Operand \X Backend -> Origin]
    BY <2>1, <2>2
  <2>4. buffer' = [buffer EXCEPT ![planOf[f]] = g]
    BY <1>1, <2>1, <2>2 DEF WriteOutputs
  <2> QED
    BY <1>2, <2>1, <2>3, <2>4 DEF TypeOK
<1>6. TypeOK'
  BY <1>2, <1>3, <1>5 DEF TypeOK, GraphTypeOK, Moves, Origin
<1>7. WeightInv'
  <2>1. \A x \in weights : x \in Operand /\ x \notin outputs[o]
    BY <1>4 DEF Inv, ModelInv, Constant
  <2>2. \A x \in weights, b \in Backend :
          buffer'[planOf[f]][<<x, b>>] = buffer[planOf[f]][<<x, b>>]
    BY <1>5, <2>1
  <2> QED
    BY <1>5, <2>2, WeightsKept
<1>8. AtInv'
  BY <1>2, AtKept
<1>9. OthersLeft(f)
  BY <1>5 DEF OthersLeft, Moves
<1>10. ASSUME Clean(f)
       PROVE  OwnSoFar(f)'
  <2>1. OwnSoFar(f) /\ origin \subseteq {f}
    BY <1>10 DEF Inv, UndisturbedInv
  <2>2. Pushed(f)' = Pushed(f) /\ Pulled(f)' = {}
    BY <1>3 DEF Pushed, Pulled, Moves
  <2>3. Ran(f)' = Ran(f) \cup {o}
    <3>1. 1 .. at[f] + 1 = (1 .. at[f]) \cup {at[f] + 1}
      BY <1>2
    <3>2. Ran(f)' = {order[i] : i \in 1 .. at[f] + 1}
      BY <1>3 DEF Ran, Moves
    <3>3. Ran(f) = {order[i] : i \in 1 .. at[f]}
      BY DEF Ran
    <3> QED
      BY <1>1, <3>1, <3>2, <3>3
  <2>4. ASSUME NEW x \in Operand, NEW b \in Backend
        PROVE  /\ Own(f, x, b) => Own(f, x, b)'
               /\ x \in outputs[o] /\ b = backendOf[o] => Own(f, x, b)'
    BY <1>3, <1>5, <2>1, <2>4 DEF Own
  <2>5. \A i \in Pushed(f) : modelIns[i] \in Operand /\ ObjectsOf(modelIns[i]) \subseteq Backend
    BY <1>2 DEF Pushed, ObjectsOf, TypeOK
  <2>6. Ran(f) \subseteq Operation
    <3>1. \A i \in 1 .. at[f] : i \in 1 .. Len(order)
      BY <1>2
    <3> QED
      BY <1>2, <3>1 DEF Ran, TypeOK
  <2>7. \A p \in Ran(f) : outputs[p] \subseteq Operand /\ backendOf[p] \in Backend
    BY <1>2, <2>6 DEF TypeOK, GraphTypeOK
  <2>8. \A i \in Pushed(f) : \A b \in ObjectsOf(modelIns[i]) : Own(f, modelIns[i], b)'
    BY <1>2, <1>3, <2>1, <2>4, <2>5 DEF OwnSoFar
  <2>9. \A p \in Ran(f) : \A x \in outputs[p] : Own(f, x, backendOf[p])'
    BY <1>2, <1>3, <2>1, <2>4, <2>7 DEF OwnSoFar
  <2>10. \A x \in outputs[o] : Own(f, x, backendOf[o])'
    BY <1>3, <1>4, <2>4
  <2>11. stage'[f] # "gemm"
    BY DEF Moves
  <2>12. \A p \in Ran(f)' : \A x \in outputs[p] : Own(f, x, backendOf[p])'
    BY <2>3, <2>9, <2>10
  <2> QED
    BY <1>3, <2>2, <2>8, <2>11, <2>12 DEF OwnSoFar
<1> QED
  BY <1>2, <1>6, <1>7, <1>8, <1>9, <1>10, StepKeeps

LEMMA RunFunctionInv ==
  ASSUME Inv, NEW f \in Executions, RunFunction(f)
  PROVE  Inv'
<1>1. /\ stage[f] = "run" /\ at[f] < Len(order) /\ Step(f)
      /\ WriteOutputs(f, order[at[f] + 1], ReadInputs(f, order[at[f] + 1]))
      /\ UNCHANGED <<model, scratch, sinks, met, lost>>
  BY DEF RunFunction
<1>2. ReadInputs(f, order[at[f] + 1]) \in Origin
  BY <1>1, ReadInputsTyped
<1>3. Moves(f, "run", at[f] + 1)
  BY <1>1, Typed, Moving
<1> QED
  BY <1>1, <1>2, <1>3, InputsAreOwn, WritingInv

\* A function that gives up leaves its outputs as they are, and its execution
\* is no longer clean.
LEMMA LoseFunctionInv ==
  ASSUME Inv, NEW f \in Executions, LoseFunction(f)
  PROVE  Inv'
<1>1. /\ stage[f] = "run" /\ at[f] < Len(order) /\ f \in Running /\ Step(f)
      /\ lost' = lost \cup {f}
      /\ UNCHANGED <<model, buffer, scratch, sinks, met>>
  BY DEF LoseFunction, Running
<1>2. TypeOK /\ at[f] \in Nat /\ Len(order) \in Nat
  BY Typed
<1>3. UNCHANGED <<inputs, outputs, modelIns, modelOuts, weights, backendOf, convolutions,
                  failing, planOf, order, pullOrder>>
  BY <1>1, ModelFrozen
<1>4. Moves(f, "run", at[f] + 1)
  BY <1>1, <1>2, Moving
<1>5. TypeOK'
  BY <1>1, <1>2, <1>3, <1>4 DEF TypeOK, GraphTypeOK, Moves, Origin
<1>6. WeightInv'
  BY <1>1, <1>3 DEF Inv, WeightInv
<1>7. AtInv'
  BY <1>1, <1>2, <1>4, AtKept
<1>8. OthersLeft(f)
  BY <1>1, <1>4 DEF OthersLeft, Moves
<1>9. f \in lost'
  BY <1>1
<1> QED
  BY <1>1, <1>5, <1>6, <1>7, <1>8, <1>9, StepKeeps

\* An execution out of which a function threw promises nothing.
LEMMA ThrowFunctionInv ==
  ASSUME Inv, NEW f \in Executions, ThrowFunction(f)
  PROVE  Inv'
<1>1. /\ f \in Running /\ stage' = [stage EXCEPT ![f] = "threw"]
      /\ UNCHANGED <<model, buffer, scratch, at, sinks, met, lost>>
  BY DEF ThrowFunction, Running
<1> QED
  BY <1>1, ThrowingInv

LEMMA GemmInv ==
  ASSUME Inv, NEW f \in Executions, Gemm(f)
  PROVE  Inv'
<1>1. /\ stage[f] = "gemm" /\ WriteOutputs(f, order[at[f] + 1], scratch)
      /\ stage' = [stage EXCEPT ![f] = "run"] /\ at' = [at EXCEPT ![f] = @ + 1]
      /\ UNCHANGED <<model, scratch, sinks, met, lost>>
  BY DEF Gemm
<1>2. at[f] < Len(order) /\ scratch \in Origin /\ at[f] + 1 \in Nat
  BY <1>1, Typed DEF Inv, AtInv, TypeOK
<1>3. Moves(f, "run", at[f] + 1)
  BY <1>1, <1>2 DEF Moves, Inv, TypeOK
<1>4. Clean(f) => scratch \subseteq {f}
  BY <1>1 DEF Inv, UndisturbedInv, OwnSoFar
<1> QED
  BY <1>1, <1>2, <1>3, <1>4, WritingInv

LEMMA Im2colInv ==
  ASSUME Inv, NEW f \in Executions, Im2col(f)
  PROVE  Inv'
<1>1. /\ stage[f] = "run" /\ at[f] < Len(order) /\ f \in Running
      /\ order[at[f] + 1] \in convolutions
      /\ scratch' = ReadInputs(f, order[at[f] + 1])
      /\ stage' = [stage EXCEPT ![f] = "gemm"]
      /\ UNCHANGED <<model, buffer, at, sinks, met, lost>>
  BY DEF Im2col, Running
<1>2. TypeOK /\ at[f] \in Nat
  BY Typed
<1>3. /\ UNCHANGED <<inputs, outputs, modelIns, modelOuts, weights, backendOf, convolutions,
                    failing, planOf, order, pullOrder>>
      /\ \A x : ObjectsOf(x)' = ObjectsOf(x)
  BY <1>1, ModelFrozen
<1>4. Moves(f, "gemm", at[f])
  BY <1>1, <1>2, Moving
<1>5. ReadInputs(f, order[at[f] + 1]) \in Origin
  BY <1>1, ReadInputsTyped
<1>6. TypeOK'
  BY <1>1, <1>2, <1>3, <1>4, <1>5 DEF TypeOK, GraphTypeOK, Moves, Origin
<1>7. WeightInv'
  BY <1>1, <1>3 DEF Inv, WeightInv
<1>8. AtInv'
  BY <1>1, <1>2, <1>4, AtKept
<1>9. OthersLeft(f)
  BY <1>1, <1>4 DEF OthersLeft, Moves
<1>10. ASSUME Clean(f)
       PROVE  OwnSoFar(f)'
  <2>1. OwnSoFar(f) /\ scratch' \subseteq {f}
    BY <1>1, <1>10, InputsAreOwn DEF Inv, UndisturbedInv
  <2>2. Pushed(f)' = Pushed(f) /\ Ran(f)' = Ran(f) /\ Pulled(f)' = {}
    BY <1>1, <1>3, <1>4 DEF Pushed, Ran, Pulled, Moves
  <2> QED
    BY <1>1, <1>3, <2>1, <2>2 DEF OwnSoFar, Own
<1> QED
  BY <1>1, <1>6, <1>7, <1>8, <1>9, <1>10, StepKeeps

LEMMA EndRunInv ==
  ASSUME Inv, NEW f \in Executions, EndRun(f)
  PROVE  Inv'
<1>1. /\ stage[f] = "run" /\ at[f] = Len(order) /\ f \in Running /\ Leave(f, "pull")
      /\ UNCHANGED <<model, buffer, scratch, sinks, met, lost>>
  BY DEF EndRun, Running
<1>2. TypeOK /\ Len(modelOuts) \in Nat /\ at[f] \in Nat
  BY Typed
<1>3. /\ UNCHANGED <<inputs, outputs, modelIns, modelOuts, weights, backendOf, convolutions,
                    failing, planOf, order, pullOrder>>
      /\ \A x : ObjectsOf(x)' = ObjectsOf(x)
  BY <1>1, ModelFrozen
<1>4. Moves(f, "pull", 0)
  BY <1>1, <1>2, Moving
<1>5. TypeOK'
  BY <1>1, <1>2, <1>3, <1>4 DEF TypeOK, GraphTypeOK, Moves, Origin
<1>6. WeightInv'
  BY <1>1, <1>3 DEF Inv, WeightInv
<1>7. AtInv'
  BY <1>1, <1>2, <1>4, AtKept
<1>8. OthersLeft(f)
  BY <1>1, <1>4 DEF OthersLeft, Moves
<1>9. ASSUME Clean(f)
      PROVE  OwnSoFar(f)'
  <2>1. OwnSoFar(f)
    BY <1>9 DEF Inv, UndisturbedInv
  <2>2. Ran(f) = Operation
    BY <1>1, ScheduleCovers DEF Ran, Inv, ModelInv
  <2>3. Pushed(f)' = Pushed(f) /\ Ran(f)' = Operation /\ Pulled(f)' = {}
    BY <1>1, <1>3, <1>4, <1>2 DEF Pushed, Ran, Pulled, Moves
  <2>4. stage'[f] # "gemm"
    BY <1>4 DEF Moves
  <2> QED
    BY <1>1, <1>3, <2>1, <2>2, <2>3, <2>4 DEF OwnSoFar, Own
<1> QED
  BY <1>1, <1>5, <1>6, <1>7, <1>8, <1>9, StepKeeps

\* Once every operation has run, an output is f's own in each of its objects.
LEMMA OutputIsOwn ==
  ASSUME Inv, NEW f \in Executions, stage[f] = "pull", Clean(f),
         NEW x \in Operand, NEW b \in ObjectsOf(x)
  PROVE  Own(f, x, b)
<1>1. /\ TypeOK /\ planOf[f] \in Plan /\ OwnSoFar(f) /\ f \in Running
  BY Typed DEF Inv, UndisturbedInv, Running
<1>2. PICK o \in Operation : b = backendOf[o] /\ x \in inputs[o] \cup outputs[o]
  BY DEF ObjectsOf
<1>3. CASE x \in Constant
  <2>1. x \in inputs[o]
    BY <1>2, <1>3 DEF Constant
  <2>2. x \in weights
    BY <1>3, <2>1 DEF Clean, ConstantsAreFilled
  <2> QED
    BY <1>1, <1>2, <2>2 DEF Inv, TypeOK, WeightInv, Own
<1>4. CASE x \in ToSet(modelIns)
  <2>1. PICK i \in 1 .. Len(modelIns) : x = modelIns[i]
    <3>1. modelIns \in Seq(Operand)
      BY <1>1 DEF TypeOK
    <3> QED
      BY <1>4, <3>1, Listed
  <2> QED
    BY <1>1, <2>1 DEF OwnSoFar, Pushed
<1>5. CASE x \in UNION {outputs[p] : p \in Operation}
  <2>1. \A p \in Operation : x \in outputs[p] => Own(f, x, backendOf[p])
    BY <1>1 DEF OwnSoFar, Ran
  <2>2. CASE x \in outputs[o]
    BY <1>2, <2>1, <2>2
  <2>3. CASE x \in inputs[o]
    <3>1. PICK p \in Operation : x \in outputs[p]
      BY <1>5
    <3>2. backendOf[p] = b
      BY <1>2, <2>3, <3>1 DEF Clean, BackendsAgree
    <3> QED
      BY <2>1, <3>1, <3>2
  <2> QED
    BY <1>2, <2>2, <2>3
<1> QED
  BY <1>3, <1>4, <1>5 DEF Constant

LEMMA PullOutputInv ==
  ASSUME Inv, NEW f \in Executions, PullOutput(f)
  PROVE  Inv'
<1>1. /\ f \in Running /\ stage[f] = "pull"
      /\ UNCHANGED <<model, buffer, scratch, met, lost>>
  BY DEF PullOutput, Running
<1>2. /\ TypeOK
      /\ Len(modelIns) \in Nat /\ Len(order) \in Nat /\ Len(modelOuts) \in Nat
      /\ planOf[f] \in Plan /\ at[f] \in Nat
  BY Typed
<1>3. /\ UNCHANGED <<inputs, outputs, modelIns, modelOuts, weights, backendOf, convolutions,
                    failing, planOf, order, pullOrder>>
      /\ \A x : ObjectsOf(x)' = ObjectsOf(x)
  BY <1>1, ModelFrozen
<1>4. WeightInv'
  BY <1>1, <1>3 DEF Inv, WeightInv
<1>5. CASE at[f] = Len(modelOuts)
  <2>1. Moves(f, "done", 0) /\ UNCHANGED sinks
    BY <1>2, <1>5, Moving DEF PullOutput
  <2>2. TypeOK'
    BY <1>1, <1>2, <1>3, <2>1 DEF TypeOK, GraphTypeOK, Origin, Moves
  <2>3. AtInv'
    BY <1>1, <1>2, <2>1, AtKept
  <2>4. OthersLeft(f)
    BY <1>1, <2>1 DEF OthersLeft, Moves
  <2>5. ASSUME Clean(f)
        PROVE  OwnSoFar(f)'
    <3>1. OwnSoFar(f)
      BY <2>5 DEF Inv, UndisturbedInv
    <3>2. Pulled(f)' = Pulled(f) /\ f \notin Running' /\ stage'[f] # "gemm"
      BY <1>1, <1>3, <1>5, <2>1 DEF Pulled, Moves, Running
    <3> QED
      BY <1>3, <2>1, <3>1, <3>2 DEF OwnSoFar
  <2> QED
    BY <1>1, <1>4, <2>2, <2>3, <2>4, <2>5, StepKeeps
<1>6. CASE at[f] # Len(modelOuts)
  <2>1. PICK x : x = modelOuts[at[f] + 1]
    OBVIOUS
  <2>2. PICK b : b = LastObject(x)
    OBVIOUS
  <2>3. /\ ObjectsOf(x) # {}
        /\ sinks' = [sinks EXCEPT ![f][x] = buffer[planOf[f]][<<x, b>>]]
        /\ Moves(f, "pull", at[f] + 1)
    BY <1>1, <1>2, <1>6, <2>1, <2>2, Moving DEF PullOutput
  <2>4. at[f] + 1 \in 1 .. Len(modelOuts) /\ x \in Operand
    BY <1>1, <1>2, <1>6, <2>1 DEF Inv, AtInv, TypeOK
  <2>5. b \in ObjectsOf(x) /\ b \in Backend
    <3>1. b \in ObjectsOf(x)
      BY <1>2, <2>2, <2>3, LastObjectExists DEF Inv
    <3>2. ObjectsOf(x) \subseteq Backend
      BY <1>2 DEF ObjectsOf, TypeOK
    <3> QED
      BY <3>1, <3>2
  <2>6. buffer[planOf[f]][<<x, b>>] \in Origin
    BY <1>2, <2>4, <2>5 DEF TypeOK
  <2>7. /\ sinks' \in [Executions -> [Operand -> Origin]]
        /\ sinks'[f][x] = buffer[planOf[f]][<<x, b>>]
        /\ \A z \in Operand \ {x} : sinks'[f][z] = sinks[f][z]
        /\ \A e \in Executions \ {f} : sinks'[e] = sinks[e]
    <3>1. PICK g : g = [sinks[f] EXCEPT ![x] = buffer[planOf[f]][<<x, b>>]]
      OBVIOUS
    <3>2. sinks[f] \in [Operand -> Origin]
      BY <1>2 DEF TypeOK
    <3>3. /\ g \in [Operand -> Origin] /\ g[x] = buffer[planOf[f]][<<x, b>>]
          /\ \A z \in Operand \ {x} : g[z] = sinks[f][z]
      BY <2>4, <2>6, <3>1, <3>2
    <3>4. sinks' = [sinks EXCEPT ![f] = g]
      BY <2>3, <3>1
    <3> QED
      BY <1>2, <3>3, <3>4 DEF TypeOK
  <2>8. TypeOK'
    BY <1>1, <1>2, <1>3, <2>3, <2>7 DEF TypeOK, GraphTypeOK, Origin, Moves
  <2>9. AtInv'
    BY <1>1, <1>2, <2>3, <2>4, AtKept
  <2>10. OthersLeft(f)
    BY <1>1, <2>3, <2>7 DEF OthersLeft, Moves
  <2>11. ASSUME Clean(f)
         PROVE  OwnSoFar(f)'
    <3>1. OwnSoFar(f)
      BY <2>11 DEF Inv, UndisturbedInv
    <3>2. Pushed(f)' = Pushed(f) /\ Ran(f)' = Ran(f)
      BY <1>1, <1>3, <2>3 DEF Pushed, Ran, Moves
    <3>3. Pulled(f)' = Pulled(f) \cup {at[f] + 1}
      BY <1>1, <1>2, <2>3 DEF Pulled, Moves
    <3>4. buffer[planOf[f]][<<x, b>>] \subseteq {f}
      BY <1>1, <1>2, <2>1, <2>4, <2>5, <2>11, OutputIsOwn DEF Own
    <3>5. \A i \in Pulled(f) : modelOuts[i] \in Operand
      BY <1>1, <1>2, <2>4 DEF Pulled, TypeOK
    <3>6. \A i \in Pulled(f)' : sinks'[f][modelOuts[i]] \subseteq {f}
      BY <2>1, <2>7, <3>1, <3>3, <3>4, <3>5 DEF OwnSoFar
    <3>7. stage'[f] # "gemm"
      BY <2>3 DEF Moves
    <3> QED
      BY <1>1, <1>3, <3>1, <3>2, <3>6, <3>7 DEF OwnSoFar, Own
  <2> QED
    BY <1>1, <1>4, <2>8, <2>9, <2>10, <2>11, StepKeeps
<1> QED
  BY <1>5, <1>6

-----------------------------------------------------------------------------
LEMMA NextInv == Inv /\ [Next]_vars => Inv'
<1> SUFFICES ASSUME Inv, [Next]_vars PROVE Inv'
  OBVIOUS
<1>1. ASSUME NEW e \in Executions, StartCompute(e) PROVE Inv'
  BY <1>1, StartComputeInv
<1>2. ASSUME NEW e \in Executions, OperandMissing(e) PROVE Inv'
  BY <1>2, OperandMissingInv
<1>3. ASSUME NEW e \in Executions, PushInput(e) PROVE Inv'
  BY <1>3, PushInputInv
<1>4. ASSUME NEW e \in Executions, RunFunction(e) PROVE Inv'
  BY <1>4, RunFunctionInv
<1>5. ASSUME NEW e \in Executions, Im2col(e) PROVE Inv'
  BY <1>5, Im2colInv
<1>6. ASSUME NEW e \in Executions, Gemm(e) PROVE Inv'
  BY <1>6, GemmInv
<1>7. ASSUME NEW e \in Executions, EndRun(e) PROVE Inv'
  BY <1>7, EndRunInv
<1>8. ASSUME NEW e \in Executions, PullOutput(e) PROVE Inv'
  BY <1>8, PullOutputInv
<1>9. ASSUME NEW e \in Executions, LoseFunction(e) PROVE Inv'
  BY <1>9, LoseFunctionInv
<1>10. ASSUME NEW e \in Executions, ThrowFunction(e) PROVE Inv'
  BY <1>10, ThrowFunctionInv
<1>11. CASE UNCHANGED vars
  <2>1. UNCHANGED <<model, buffer, scratch, at, sinks, stage, met, lost>>
    BY <1>11 DEF vars
  <2>2. /\ UNCHANGED <<inputs, outputs, modelIns, modelOuts, weights, backendOf, convolutions,
                      failing, planOf, order, pullOrder>>
        /\ \A x : ObjectsOf(x)' = ObjectsOf(x)
        /\ BackendsAgree' = BackendsAgree /\ ConstantsAreFilled' = ConstantsAreFilled
        /\ ModelInv' = ModelInv
    BY <2>1, ModelFrozen
  <2>3. TypeOK'
    BY <2>1, <2>2 DEF Inv, TypeOK, GraphTypeOK, Origin
  <2>4. (WeightInv /\ MetInv /\ AtInv)'
    BY <2>1, <2>2 DEF Inv, WeightInv, MetInv, AtInv, Running
  <2>5. UndisturbedInv'
    BY <2>1, <2>2 DEF Inv, UndisturbedInv, Clean, Disturbed, OwnSoFar, Own, Running, Pushed, Ran, Pulled
  <2> QED
    BY <2>2, <2>3, <2>4, <2>5 DEF Inv
<1> QED
  BY <1>1, <1>2, <1>3, <1>4, <1>5, <1>6, <1>7, <1>8, <1>9, <1>10, <1>11 DEF Next, Compute

\* The invariant of every interleaving of the executions.
THEOREM ExecutionInvariant == Spec => []Inv
BY InitInv, NextInv, PTL DEF Spec

\* Every variable stays in its type: no list is read past its end, and no
\* tensor is looked up that the plan does not have.
THEOREM ExecutionTypeCorrect == Spec => []TypeOK
<1>1. Inv => TypeOK
  BY DEF Inv
<1> QED
  BY <1>1, ExecutionInvariant, PTL

\* On one backend and with every constant filled, an execution that met no other
\* on its plan or in the scratch buffer, and none of whose functions gave up,
\* leaves in its sinks what was computed from its own inputs, whatever earlier
\* ones left in the tensors (execution.cc:145-203).
THEOREM UndisturbedIsRightHolds == Spec => []UndisturbedIsRight
<1>1. Inv => UndisturbedIsRight
  <2> SUFFICES ASSUME Inv, BackendsAgree, ConstantsAreFilled, NEW e \in Executions,
                      ~Disturbed(e), e \notin lost, stage[e] = "done", NEW x \in ToSet(modelOuts)
               PROVE  sinks[e][x] \subseteq {e}
    BY DEF UndisturbedIsRight, OutputsAreOwn
  <2>1. PICK i \in 1 .. Len(modelOuts) : x = modelOuts[i]
    <3>1. modelOuts \in Seq(Operand)
      BY DEF Inv, TypeOK
    <3> QED
      BY <3>1, Listed
  <2>2. i \in Pulled(e)
    BY <2>1 DEF Pulled
  <2> QED
    BY <2>1, <2>2 DEF Inv, UndisturbedInv, Clean, OwnSoFar
<1> QED
  BY <1>1, ExecutionInvariant, PTL
=============================================================================
