------------------------- MODULE CompilationProofs -------------------------
(***************************************************************************)
(* Compilation keeps its promises on every finite model, with any number   *)
(* of backends and compilations.                                           *)
(*                                                                         *)
(* The loops of finish are over one list, and what each of them leaves     *)
(* behind is a function of the operations it has done.  The invariant says *)
(* so for every loop and thereby joins the three passes: the tensors a     *)
(* stage looks up were prepared since they were marked, and could be since *)
(* they were given shapes, all by the same operations.                     *)
(***************************************************************************)
EXTENDS Compilation, DataflowProofs, FiniteSetTheorems

\* The operations that the loop of finish which is running has done.
Done == {order[i] : i \in 1 .. at}

\* The operations whose operands the active compilation has marked, and those
\* it has planned.
MarkedOps == IF step = "mark" THEN Done
             ELSE IF step \in {"lower", "linearize"} THEN {} ELSE Operation
PlannedOps == IF step = "plan" THEN Done
              ELSE IF step = "mark" THEN {} ELSE Operation

BeforePrepare == {"lower", "linearize", "mark", "plan"}
Linearized == {"mark", "plan", "prepare", "stages", "allocate", "fill"}
Looping == {"mark", "plan", "prepare", "stages"}
Prepared == {"stages", "allocate", "fill"}

\* What finishBuilding and the constructors of the node types leave, for good.
ModelInv ==
  \A o \in Operation : /\ WellFormed(o)
                       /\ inputs[o] = {ins[o][i] : i \in DOMAIN ins[o]}

CallInv ==
  /\ active = None <=> step = None
  /\ active # None => result[active] = None

\* A compilation that has not started has touched no builder.
FreshInv ==
  \A c \in Compilations : result[c] = None /\ c # active =>
    /\ functions[c] = <<>>
    /\ \A b \in Backend : marked[<<c, b>>] = {} /\ tensors[<<c, b>>] = {}

\* The model leaves its first phase in a call, and that call succeeds.
PhaseInv ==
  Accepted /\ phase # "MODEL" /\ active = None => \E d \in Compilations : Compiled(d)

LoweredInv ==
  active # None =>
    \A o \in Operation : step = "lower" => o \in left \/ lowered[o] = active

LowerDoneInv ==
  active # None /\ step # "lower" => \A o \in Operation : lowered[o] = active

OrderInv ==
  /\ step \in Linearized => order \in Schedules
  /\ step \in Looping => order # <<>>
  /\ step \in {"mark", "plan", "stages"} => at < Len(order)
  /\ step = "prepare" => at = 0

MarkInv ==
  active # None =>
    \A b \in Backend :
      marked[<<active, b>>] = UNION {Marked(o) : o \in {p \in MarkedOps : backendOf[p] = b}}

ShapeInv == step \in Linearized => shapes = UNION {Shaped(o) : o \in PlannedOps}

InitializerInv ==
  step \in Linearized =>
    \A x \in Operand :
      /\ initializers[x] # None =>
           \E o \in PlannedOps : x \in Weights(o) /\ initializers[x] = backendOf[o]
      /\ \A o \in PlannedOps : x \in Weights(o) => initializers[x] # None

StagesInv ==
  step \in Looping =>
    /\ Len(stages) = IF step = "mark" THEN 0 ELSE IF step = "plan" THEN at ELSE Len(order)
    /\ \A i \in 1 .. Len(stages) : stages[i] = <<order[i], <<active, backendOf[order[i]]>>>>

TensorInv ==
  active # None =>
    \A b \in Backend :
      /\ tensors[<<active, b>>] \in {{}, marked[<<active, b>>]}
      /\ step \in BeforePrepare => tensors[<<active, b>>] = {}
      /\ step \in Prepared => tensors[<<active, b>>] = marked[<<active, b>>]

\* The objects of an operand are one for each builder that has a tensor of it.
ObjectInv ==
  \A c \in Compilations, x \in Operand :
    /\ IsInjective(objects[c][x])
    /\ ToSet(objects[c][x]) = {d \in Builder : d[1] = c /\ x \in tensors[d]}

FunctionInv ==
  active # None =>
    LET f == functions[active] IN
      /\ Len(f) = IF step \in {"allocate", "fill"} THEN Len(order)
                  ELSE IF step = "stages" THEN at ELSE 0
      /\ \A i \in 1 .. Len(f) : f[i] = order[i]

AllocatedInv ==
  step = "fill" => \A o \in Operation : <<active, backendOf[o]>> \in allocated

Inv ==
  /\ TypeOK /\ ModelInv
  /\ CallInv /\ FreshInv /\ PhaseInv /\ LoweredInv /\ LowerDoneInv /\ OrderInv
  /\ MarkInv /\ ShapeInv /\ InitializerInv /\ StagesInv /\ TensorInv /\ ObjectInv
  /\ FunctionInv /\ AllocatedInv
  /\ AcceptedModelsCompile /\ PlanRunsTheGraph /\ TensorsArePrivate /\ WeightsAreFilled
-----------------------------------------------------------------------------
\* A turn of a loop adds the current operation to those it has done; when it
\* was the last one, they are all done.
LEMMA Turn ==
  ASSUME TypeOK, order \in Schedules, at < Len(order), order' = order,
         NEW following, Advance(following)
  PROVE  /\ Current \in Operation /\ Current = order[at + 1] /\ at + 1 \in 1 .. Len(order)
         /\ \/ /\ at + 1 < Len(order) /\ at' = at + 1 /\ step' = step
               /\ Done' = Done \cup {Current}
            \/ /\ at + 1 = Len(order) /\ at' = 0 /\ step' = following
               /\ Done \cup {Current} = Operation
<1>1. order \in Seq(Operation) /\ Len(order) \in Nat /\ at \in Nat
  BY ScheduleCovers DEF TypeOK
<1>2. at + 1 \in 1 .. Len(order) /\ Current = order[at + 1] /\ Current \in Operation
  BY <1>1 DEF Current
<1>3. Done \cup {Current} = {order[i] : i \in 1 .. at + 1}
  <2>1. 1 .. at + 1 = (1 .. at) \cup {at + 1}
    BY <1>1
  <2> QED
    BY <2>1, <1>2 DEF Done
<1>4. CASE at + 1 < Len(order)
  <2>1. at' = at + 1 /\ step' = step
    BY <1>4 DEF Advance
  <2>2. Done' = {order[i] : i \in 1 .. at + 1}
    BY <2>1 DEF Done
  <2> QED
    BY <1>2, <1>3, <1>4, <2>1, <2>2
<1>5. CASE ~(at + 1 < Len(order))
  <2>1. at + 1 = Len(order)
    BY <1>1, <1>2, <1>5
  <2>2. at' = 0 /\ step' = following
    BY <1>5 DEF Advance
  <2>3. Done \cup {Current} = Operation
    BY <1>3, <2>1, ScheduleCovers
  <2> QED
    BY <1>2, <2>1, <2>2, <2>3
<1> QED
  BY <1>4, <1>5

\* The passes name the same operands of an operation, each in its own way.
LEMMA PassesAgree ==
  ASSUME ModelInv, NEW o \in Operation
  PROVE  Shaped(o) = Marked(o) /\ LookedUp(o) = Marked(o) /\ Weights(o) \subseteq Marked(o)
<1>1. WellFormed(o) /\ inputs[o] = {ins[o][i] : i \in DOMAIN ins[o]}
  BY DEF ModelInv
<1>2. CASE kind[o] \in Weighted
  <2>1. DOMAIN ins[o] = 1 .. 3 /\ kind[o] # "Concat"
    BY <1>1, <1>2 DEF WellFormed, Weighted
  <2>2. inputs[o] = {ins[o][1], ins[o][2], ins[o][3]}
    BY <1>1, <2>1
  <2> QED
    BY <1>1, <1>2, <2>1, <2>2 DEF Shaped, LookedUp, Marked, Weights
<1>3. CASE kind[o] = "Concat"
  BY <1>1, <1>3 DEF Shaped, LookedUp, Marked, Weights, Weighted, ToSet
<1>4. CASE kind[o] \notin Weighted \cup {"Concat"}
  <2>1. DOMAIN ins[o] = {1}
    BY <1>1, <1>4 DEF WellFormed
  <2> QED
    BY <1>1, <1>4, <2>1 DEF Shaped, LookedUp, Marked, Weights
<1> QED
  BY <1>2, <1>3, <1>4

\* The plans stay as they are where no compilation succeeds.
LEMMA PlansKept ==
  ASSUME Inv, UNCHANGED <<model, functions, objects, filled>>,
         \A c \in Compilations : result'[c] = "ok" <=> result[c] = "ok"
  PROVE  (PlanRunsTheGraph /\ TensorsArePrivate /\ WeightsAreFilled)'
<1>1. PlanRunsTheGraph'
  BY DEF Inv, PlanRunsTheGraph, Compiled, model, Successors, Uses
<1>2. TensorsArePrivate'
  BY DEF Inv, TensorsArePrivate, Compiled, model, Marked
<1>3. WeightsAreFilled'
  BY DEF Inv, WeightsAreFilled, Compiled, model, Weights
<1> QED
  BY <1>1, <1>2, <1>3

\* A step that ends no call leaves the plans of the others as they are.
LEMMA ResultsKept ==
  ASSUME Inv, UNCHANGED <<model, result, functions, objects, filled>>
  PROVE  (AcceptedModelsCompile /\ PlanRunsTheGraph /\ TensorsArePrivate /\ WeightsAreFilled)'
<1>1. AcceptedModelsCompile'
  BY DEF Inv, AcceptedModelsCompile, Compiled, model, Accepted
<1> QED
  BY <1>1, PlansKept

LEMMA InitInv == Init => Inv
<1> SUFFICES ASSUME Init PROVE Inv
  OBVIOUS
<1>1. TypeOK
  <2>1. marked \in [Builder -> SUBSET Operand] /\ tensors \in [Builder -> SUBSET Operand]
    BY DEF Init
  <2>2. /\ objects \in [Compilations -> [Operand -> Seq(Builder)]]
        /\ functions \in [Compilations -> Seq(Operation)]
        /\ filled \in [Compilations -> SUBSET (Operand \X Builder \X Backend)]
        /\ result \in [Compilations -> {None, "ok", "threw", "aborted"}]
    BY DEF Init
  <2>3. /\ lowered \in [Operation -> Compilations \cup {None}]
        /\ initializers \in [Operand -> Backend \cup {None}]
    BY DEF Init
  <2>4. /\ GraphTypeOK
        /\ kind \in [Operation -> Kind] /\ ins \in [Operation -> Seq(Operand)]
    <3>1. PICK m \in Models : kind = m.kind /\ ins = m.ins /\ outputs = m.outputs
      BY DEF Init, ModelInit
    <3>2. /\ kind \in [Operation -> Kind] /\ ins \in [Operation -> Seq(Operand)]
          /\ outputs \in [Operation -> {{x} : x \in Operand}]
      BY <3>1, ModelsAssumption
    <3>3. inputs = [o \in Operation |-> ToSet(ins[o])]
      BY DEF Init, ModelInit
    <3>4. \A o \in Operation : ToSet(ins[o]) \subseteq Operand
      BY <3>2 DEF ToSet
    <3>5. inputs \in [Operation -> SUBSET Operand]
      BY <3>3, <3>4
    <3>6. outputs \in [Operation -> SUBSET Operand]
      BY <3>2
    <3> QED
      BY <3>2, <3>5, <3>6 DEF GraphTypeOK
  <2>5. at \in 0 .. Len(order) /\ order \in Seq(Operation) /\ stages \in Seq(Operation \X Builder)
    BY DEF Init
  <2> QED
    BY <2>1, <2>2, <2>3, <2>4, <2>5 DEF Init, ModelInit, TypeOK
<1>2. ModelInv
  <2>1. /\ inputs = [o \in Operation |-> ToSet(ins[o])]
        /\ \A o \in Operation : WellFormed(o)
    BY DEF Init, ModelInit
  <2> QED
    BY <2>1 DEF ModelInv, ToSet
<1>3. CallInv /\ PhaseInv /\ LoweredInv /\ LowerDoneInv /\ FreshInv
  BY DEF Init, CallInv, PhaseInv, LoweredInv, LowerDoneInv, FreshInv, Builder
<1>4. step = None /\ None \notin Linearized /\ None \notin Looping /\ None # "fill"
      /\ None \notin {"mark", "plan", "stages"} /\ None # "prepare"
  BY DEF Init, None, Linearized, Looping
<1>5. OrderInv /\ MarkInv /\ ShapeInv /\ InitializerInv /\ StagesInv /\ TensorInv
      /\ FunctionInv /\ AllocatedInv
  BY <1>4 DEF Init, OrderInv, MarkInv, ShapeInv, InitializerInv, StagesInv, TensorInv,
              FunctionInv, AllocatedInv
<1>6. ObjectInv
  <2> SUFFICES ASSUME NEW c \in Compilations, NEW x \in Operand
               PROVE  /\ IsInjective(objects[c][x])
                      /\ ToSet(objects[c][x]) = {d \in Builder : d[1] = c /\ x \in tensors[d]}
    BY DEF ObjectInv
  <2>1. objects[c][x] = <<>> /\ \A d \in Builder : tensors[d] = {}
    BY DEF Init
  <2> QED
    BY <2>1 DEF IsInjective, ToSet
<1>7. \A c \in Compilations : result[c] = None
  BY DEF Init
<1>8. AcceptedModelsCompile /\ PlanRunsTheGraph /\ TensorsArePrivate /\ WeightsAreFilled
  BY <1>7 DEF None, AcceptedModelsCompile, PlanRunsTheGraph, TensorsArePrivate,
              WeightsAreFilled, Compiled
<1> QED
  BY <1>1, <1>2, <1>3, <1>5, <1>6, <1>8 DEF Inv

\* What every step inside finish can rely on.
LEMMA CallFacts ==
  ASSUME Inv, active # None
  PROVE  /\ active \in Compilations /\ result[active] = None /\ step # None
         /\ \A b \in Backend : <<active, b>> \in Builder
         /\ \A o \in Operation : backendOf[o] \in Backend
BY DEF Inv, TypeOK, CallInv, Builder

\* What every step after the lowering can rely on.
LEMMA LoweredFacts ==
  ASSUME Inv, step \in Linearized
  PROVE  /\ active \in Compilations /\ result[active] = None /\ step # "lower"
         /\ order \in Schedules /\ order \in Seq(Operation) /\ Len(order) \in Nat
         /\ \A o \in Operation : /\ BuilderOf(o) = <<active, backendOf[o]>>
                                 /\ backendOf[o] \in Backend
                                 /\ BuilderOf(o) \in Builder
                                 /\ Marked(o) \subseteq Operand
<1>1. step # None /\ step # "lower"
  BY DEF None, Linearized
<1>2. active \in Compilations /\ active # None /\ result[active] = None
  BY <1>1 DEF Inv, TypeOK, CallInv
<1>3. order \in Schedules
  BY DEF Inv, OrderInv
<1>4. order \in Seq(Operation) /\ Len(order) \in Nat
  BY <1>3, ScheduleCovers
<1>5. \A o \in Operation : lowered[o] = active /\ backendOf[o] \in Backend
  BY <1>1, <1>2 DEF Inv, TypeOK, LowerDoneInv
<1>6. \A o \in Operation : Marked(o) \subseteq Operand
  BY DEF Inv, TypeOK, GraphTypeOK, Marked
<1> QED
  BY <1>1, <1>2, <1>3, <1>4, <1>5, <1>6 DEF BuilderOf, Builder

\* The parts about what the running call has built, when it built nothing.
LEMMA BuildsKept ==
  ASSUME Inv, UNCHANGED <<model, active, step, order, at, builder, marked, tensors,
                          allocated, functions>>
  PROVE  (MarkInv /\ ShapeInv /\ InitializerInv /\ StagesInv /\ TensorInv
            /\ FunctionInv /\ AllocatedInv /\ OrderInv)'
<1>1. (MarkInv /\ TensorInv)'
  BY DEF Inv, MarkInv, TensorInv, MarkedOps, Done, Marked, model
<1>2. (ShapeInv /\ InitializerInv)'
  BY DEF Inv, ShapeInv, InitializerInv, PlannedOps, Done, model, builder, Shaped, Weights
<1>3. (StagesInv /\ FunctionInv /\ AllocatedInv)'
  BY DEF Inv, StagesInv, FunctionInv, AllocatedInv, model, builder
<1>4. OrderInv'
  BY DEF Inv, OrderInv, Schedules, Successors, Uses, model
<1> QED
  BY <1>1, <1>2, <1>3, <1>4

\* The same before the loops and after the call, where there is little to say.
LEMMA NothingBuilt ==
  ASSUME Inv, UNCHANGED <<model, marked, tensors, functions>>,
         \/ active' = None /\ step' = None
         \/ /\ active' # None /\ step' \in {"lower", "linearize"}
            /\ functions[active'] = <<>>
            /\ \A b \in Backend : marked[<<active', b>>] = {} /\ tensors[<<active', b>>] = {}
  PROVE  (MarkInv /\ ShapeInv /\ InitializerInv /\ StagesInv /\ TensorInv
            /\ FunctionInv /\ AllocatedInv /\ OrderInv)'
<1>1. step' \notin Linearized /\ step' \notin Looping /\ step' # "fill"
      /\ step' \notin {"mark", "plan", "stages"} /\ step' # "prepare"
      /\ step' \notin Prepared /\ step' \notin {"allocate", "fill"}
  BY DEF None, Linearized, Looping, Prepared
<1>2. (ShapeInv /\ InitializerInv /\ StagesInv /\ AllocatedInv /\ OrderInv)'
  BY <1>1 DEF ShapeInv, InitializerInv, StagesInv, AllocatedInv, OrderInv
<1>3. active' # None => MarkedOps' = {}
  BY <1>1 DEF MarkedOps
<1>4. (MarkInv /\ TensorInv /\ FunctionInv)'
  <2>1. CASE active' = None
    BY <2>1 DEF MarkInv, TensorInv, FunctionInv
  <2>2. CASE active' # None
    <3>1. MarkInv'
      BY <1>3, <2>2 DEF MarkInv, None
    <3>2. TensorInv'
      BY <1>1, <2>2 DEF TensorInv, None
    <3>3. FunctionInv'
      BY <1>1, <2>2 DEF FunctionInv, None
    <3> QED
      BY <3>1, <3>2, <3>3
  <2> QED
    BY <2>1, <2>2
<1> QED
  BY <1>2, <1>4

LEMMA StartFinishInv ==
  ASSUME Inv, NEW c \in Compilations, StartFinish(c)
  PROVE  Inv'
<1> USE DEF StartFinish
<1>1. TypeOK' /\ ModelInv'
  <2>1. TypeOK'
    BY DEF Inv, TypeOK, GraphTypeOK, model, builder, plan, Steps
  <2> QED
    BY <2>1 DEF Inv, ModelInv, WellFormed, model
<1>2. ObjectInv'
  BY DEF Inv, ObjectInv, plan
<1>3. active = None /\ result[c] = None /\ step = None /\ c # None
  BY NoneAssumption DEF Inv, CallInv
<1>4. CASE asserts /\ phase # "MODEL"
  <2>1. result' = [result EXCEPT ![c] = "aborted"] /\ UNCHANGED <<active, step, left>>
    BY <1>4
  <2>2. result'[c] = "aborted" /\ (Accepted' <=> Accepted)
    BY <2>1 DEF Inv, TypeOK, Accepted, model
  <2>3. ASSUME Accepted
        PROVE  \E d \in Compilations \ {c} : result'[d] = "ok"
    <3>1. PICK d \in Compilations : result[d] = "ok"
      BY <1>3, <1>4, <2>3 DEF Inv, PhaseInv, Compiled
    <3>2. d # c /\ result'[d] = "ok"
      BY <1>3, <2>1, <3>1 DEF None, Inv, TypeOK
    <3> QED
      BY <3>2
  <2>4. \A e \in Compilations : result'[e] = "ok" <=> result[e] = "ok"
    BY <1>3, <2>1 DEF None, Inv, TypeOK
  <2>5. (CallInv /\ FreshInv /\ LoweredInv /\ LowerDoneInv)'
    BY <1>3, <2>1 DEF Inv, TypeOK, CallInv, FreshInv, LoweredInv, LowerDoneInv, plan, None
  <2>6. PhaseInv'
    BY <2>2, <2>3 DEF PhaseInv, Compiled
  <2>7. AcceptedModelsCompile'
    <3> SUFFICES ASSUME Accepted, NEW e \in Compilations
                 PROVE  /\ result'[e] # "threw"
                        /\ result'[e] = "aborted" =>
                             asserts' /\ \E f \in Compilations \ {e} : result'[f] = "ok"
      BY <2>2 DEF AcceptedModelsCompile, Compiled
    <3>1. CASE e = c
      BY <1>4, <2>2, <2>3, <3>1 DEF model
    <3>2. CASE e # c
      BY <2>1, <2>4, <3>2 DEF Inv, AcceptedModelsCompile, Compiled, TypeOK, model
    <3> QED
      BY <3>1, <3>2
  <2>8. (PlanRunsTheGraph /\ TensorsArePrivate /\ WeightsAreFilled)'
    BY <2>4, PlansKept DEF plan
  <2>9. (MarkInv /\ ShapeInv /\ InitializerInv /\ StagesInv /\ TensorInv
           /\ FunctionInv /\ AllocatedInv /\ OrderInv)'
    BY <1>3, <2>1, NothingBuilt DEF plan
  <2> QED
    BY <1>1, <1>2, <2>5, <2>6, <2>7, <2>8, <2>9 DEF Inv
<1>5. CASE /\ ~(asserts /\ phase # "MODEL") /\ resolved
          /\ active' = c /\ step' = "lower" /\ left' = Operation /\ UNCHANGED result
  <2>1. active' = c /\ step' = "lower" /\ left' = Operation /\ UNCHANGED result
    BY <1>5
  <2>2. (CallInv /\ FreshInv /\ LoweredInv /\ LowerDoneInv /\ PhaseInv)'
    <3>1. \A e \in Compilations : e # None
      BY NoneAssumption
    <3>2. (CallInv /\ LoweredInv /\ LowerDoneInv /\ PhaseInv)'
      BY <1>3, <2>1 DEF CallInv, LoweredInv, LowerDoneInv, PhaseInv, None
    <3>3. FreshInv'
      BY <1>3, <2>1, <3>1 DEF Inv, FreshInv, plan
    <3> QED
      BY <3>2, <3>3
  <2>3. functions[c] = <<>> /\ \A b \in Backend : marked[<<c, b>>] = {} /\ tensors[<<c, b>>] = {}
    BY <1>3 DEF Inv, FreshInv
  <2>4. (MarkInv /\ ShapeInv /\ InitializerInv /\ StagesInv /\ TensorInv
           /\ FunctionInv /\ AllocatedInv /\ OrderInv)'
    BY <1>3, <2>1, <2>3, NothingBuilt DEF plan
  <2>5. (AcceptedModelsCompile /\ PlanRunsTheGraph /\ TensorsArePrivate /\ WeightsAreFilled)'
    BY <2>1, ResultsKept DEF plan
  <2> QED
    BY <1>1, <1>2, <2>2, <2>4, <2>5 DEF Inv
<1>6. CASE /\ ~resolved /\ result' = [result EXCEPT ![c] = "threw"]
          /\ UNCHANGED <<active, step, left>>
  <2>1. ~Accepted'
    BY <1>6 DEF Accepted, model
  <2>2. (PhaseInv /\ AcceptedModelsCompile)'
    BY <2>1 DEF PhaseInv, AcceptedModelsCompile
  <2>3. (CallInv /\ FreshInv /\ LoweredInv /\ LowerDoneInv)'
    BY <1>3, <1>6 DEF Inv, TypeOK, CallInv, FreshInv, LoweredInv, LowerDoneInv, plan, None
  <2>4. \A e \in Compilations : result'[e] = "ok" <=> result[e] = "ok"
    BY <1>3, <1>6 DEF None, Inv, TypeOK
  <2>5. (PlanRunsTheGraph /\ TensorsArePrivate /\ WeightsAreFilled)'
    BY <2>4, PlansKept DEF plan
  <2>6. (MarkInv /\ ShapeInv /\ InitializerInv /\ StagesInv /\ TensorInv
           /\ FunctionInv /\ AllocatedInv /\ OrderInv)'
    BY <1>3, <1>6, NothingBuilt DEF plan
  <2> QED
    BY <1>1, <1>2, <2>2, <2>3, <2>5, <2>6 DEF Inv
<1> QED
  BY <1>4, <1>5, <1>6

\* A call that fails keeps what is said of the others; only a model that is not
\* accepted makes one fail.
LEMMA FailInv ==
  ASSUME Inv, active # None, ~Accepted, NEW how \in {"threw", "aborted"}, Fail(how)
  PROVE  Inv'
<1> USE DEF Fail
<1>1. active \in Compilations /\ result[active] = None
  BY CallFacts
<1>2. /\ result'[active] = how
      /\ \A c \in Compilations : c # active => result'[c] = result[c]
  BY <1>1 DEF Inv, TypeOK
<1>3. TypeOK' /\ ModelInv' /\ ObjectInv'
  <2>1. result' \in [Compilations -> {None, "ok", "threw", "aborted"}]
    BY DEF Inv, TypeOK
  <2>2. TypeOK'
    BY <2>1 DEF Inv, TypeOK, GraphTypeOK, model, builder, plan
  <2> QED
    BY <2>2 DEF Inv, ModelInv, WellFormed, model, ObjectInv, plan
<1>4. ~Accepted'
  BY DEF Accepted, model
<1>5. (PhaseInv /\ AcceptedModelsCompile)'
  BY <1>4 DEF PhaseInv, AcceptedModelsCompile
<1>6. (CallInv /\ LoweredInv /\ LowerDoneInv)'
  BY DEF CallInv, LoweredInv, LowerDoneInv
<1>7. FreshInv'
  BY <1>2 DEF Inv, FreshInv, plan, None
<1>8. \A c \in Compilations : result'[c] = "ok" <=> result[c] = "ok"
  BY <1>1, <1>2 DEF None
<1>9. (PlanRunsTheGraph /\ TensorsArePrivate /\ WeightsAreFilled)'
  BY <1>8, PlansKept DEF plan
<1>10. (MarkInv /\ ShapeInv /\ InitializerInv /\ StagesInv /\ TensorInv
          /\ FunctionInv /\ AllocatedInv /\ OrderInv)'
  BY NothingBuilt DEF plan
<1> QED
  BY <1>3, <1>5, <1>6, <1>7, <1>9, <1>10 DEF Inv

\* A node type without a backend, or a visit that refuses an operation.
LEMMA RefusalInv ==
  ASSUME Inv, LowerUnresolved \/ Refuse
  PROVE  Inv'
<1>1. CASE LowerUnresolved
  <2>1. PICK o \in left : kind[o] \notin Resolvable
    BY <1>1 DEF LowerUnresolved
  <2>2. ~Accepted
    BY <2>1 DEF Inv, TypeOK, Accepted
  <2>3. active # None
    BY <1>1 DEF LowerUnresolved, Inv, CallInv, None
  <2> QED
    BY <1>1, <2>2, <2>3, FailInv DEF LowerUnresolved
<1>2. CASE Refuse
  <2>1. step = "plan" /\ step \in Linearized
    BY <1>2 DEF Refuse, Linearized
  <2>2. at < Len(order) /\ at \in Nat /\ order \in Seq(Operation) /\ Len(order) \in Nat
    BY <2>1, LoweredFacts DEF Inv, OrderInv, TypeOK
  <2>3. Current \in Operation
    BY <2>2 DEF Current
  <2>4. ~Accepted
    BY <1>2, <2>3 DEF Refuse, Accepted, None
  <2>5. active # None
    BY <2>1, LoweredFacts, NoneAssumption
  <2>6. Fail("aborted") \/ Fail("threw")
    BY <1>2 DEF Refuse
  <2> QED
    BY <2>4, <2>5, <2>6, FailInv
<1> QED
  BY <1>1, <1>2

LEMMA LowerOperationInv ==
  ASSUME Inv, NEW o \in Operation, LowerOperation(o)
  PROVE  Inv'
<1> USE DEF LowerOperation
<1>1. active # None /\ active \in Compilations /\ step = "lower"
  BY DEF Inv, TypeOK, CallInv, None
<1>2. TypeOK' /\ ModelInv'
  <2>1. TypeOK'
    BY <1>1 DEF Inv, TypeOK, GraphTypeOK, model, builder, plan
  <2> QED
    BY <2>1 DEF Inv, ModelInv, WellFormed, model
<1>3. (CallInv /\ FreshInv /\ PhaseInv /\ LoweredInv /\ LowerDoneInv)'
  BY <1>1 DEF Inv, TypeOK, CallInv, FreshInv, PhaseInv, Compiled, LoweredInv, LowerDoneInv, plan
<1>4. ObjectInv'
  BY DEF Inv, ObjectInv, plan
<1>5. (MarkInv /\ ShapeInv /\ InitializerInv /\ StagesInv /\ TensorInv
         /\ FunctionInv /\ AllocatedInv /\ OrderInv)'
  BY BuildsKept DEF plan
<1>6. (AcceptedModelsCompile /\ PlanRunsTheGraph /\ TensorsArePrivate /\ WeightsAreFilled)'
  BY ResultsKept DEF plan
<1> QED
  BY <1>2, <1>3, <1>4, <1>5, <1>6 DEF Inv

LEMMA EndLowerInv ==
  ASSUME Inv, EndLower
  PROVE  Inv'
<1> USE DEF EndLower
<1>1. active # None /\ active \in Compilations /\ step = "lower" /\ step' = "linearize"
  BY DEF Inv, TypeOK, CallInv, None
<1>2. TypeOK' /\ ModelInv'
  <2>1. TypeOK'
    BY <1>1 DEF Inv, TypeOK, GraphTypeOK, model, builder, plan, Steps
  <2> QED
    BY <2>1 DEF Inv, ModelInv, WellFormed, model
<1>3. (CallInv /\ FreshInv /\ PhaseInv /\ LoweredInv /\ LowerDoneInv)'
  BY <1>1 DEF Inv, TypeOK, CallInv, FreshInv, PhaseInv, LoweredInv, LowerDoneInv, plan, None
<1>4. ObjectInv'
  BY DEF Inv, ObjectInv, plan
<1>5. functions[active] = <<>>
      /\ \A b \in Backend : marked[<<active, b>>] = {} /\ tensors[<<active, b>>] = {}
  <2>1. MarkedOps = {}
    BY <1>1 DEF MarkedOps
  <2>2. \A b \in Backend : marked[<<active, b>>] = {} /\ tensors[<<active, b>>] = {}
    BY <1>1, <2>1 DEF Inv, MarkInv, TensorInv, BeforePrepare
  <2>3. Len(functions[active]) = 0 /\ functions[active] \in Seq(Operation)
    BY <1>1 DEF Inv, FunctionInv, TypeOK
  <2> QED
    BY <2>2, <2>3
<1>6. (MarkInv /\ ShapeInv /\ InitializerInv /\ StagesInv /\ TensorInv
         /\ FunctionInv /\ AllocatedInv /\ OrderInv)'
  BY <1>1, <1>5, NothingBuilt DEF plan
<1>7. (AcceptedModelsCompile /\ PlanRunsTheGraph /\ TensorsArePrivate /\ WeightsAreFilled)'
  BY ResultsKept DEF plan
<1> QED
  BY <1>2, <1>3, <1>4, <1>6, <1>7 DEF Inv

LEMMA LinearizeInv ==
  ASSUME Inv, Linearize
  PROVE  Inv'
<1> USE DEF Linearize
<1>1. active # None /\ active \in Compilations /\ step = "linearize"
  BY DEF Inv, TypeOK, CallInv, None
<1>2. /\ step' \in {"mark", "allocate"}
      /\ step' = "mark" <=> order' # <<>>
  OBVIOUS
<1>3. /\ order' \in Schedules' /\ order' \in Seq(Operation) /\ Len(order') \in Nat
      /\ {order'[i] : i \in 1 .. Len(order')} = Operation
      /\ step' = "mark" => Len(order') # 0
  <2>1. order' \in Schedules /\ Schedules' = Schedules
    BY DEF Schedules, Successors, Uses, model
  <2>2. /\ order' \in Seq(Operation) /\ Len(order') \in Nat
        /\ {order'[i] : i \in 1 .. Len(order')} = Operation
    BY <2>1, ScheduleCovers
  <2> QED
    BY <1>2, <2>1, <2>2
<1>4. MarkedOps' = {} /\ PlannedOps' = {}
  <2>1. CASE step' = "mark"
    <3>1. Done' = {}
      BY DEF Done
    <3> QED
      BY <2>1, <3>1 DEF MarkedOps, PlannedOps
  <2>2. CASE step' = "allocate"
    <3>1. Len(order') = 0
      BY <1>2, <2>2
    <3>2. Operation = {}
      BY <1>3, <3>1
    <3> QED
      BY <2>2, <3>2 DEF MarkedOps, PlannedOps
  <2> QED
    BY <1>2, <2>1, <2>2
<1>5. functions[active] = <<>>
      /\ \A b \in Backend : marked[<<active, b>>] = {} /\ tensors[<<active, b>>] = {}
  <2>1. MarkedOps = {}
    BY <1>1 DEF MarkedOps
  <2>2. \A b \in Backend : marked[<<active, b>>] = {} /\ tensors[<<active, b>>] = {}
    BY <1>1, <2>1 DEF Inv, MarkInv, TensorInv, BeforePrepare
  <2>3. Len(functions[active]) = 0 /\ functions[active] \in Seq(Operation)
    BY <1>1 DEF Inv, FunctionInv, TypeOK
  <2> QED
    BY <2>2, <2>3
<1>6. TypeOK' /\ ModelInv'
  <2>1. GraphTypeOK'
    BY DEF Inv, TypeOK, GraphTypeOK, model
  <2>2. at' \in 0 .. Len(order') /\ order' \in Seq(Operation)
    BY <1>3
  <2>3. initializers' \in [Operand -> Backend \cup {None}] /\ shapes' \subseteq Operand
        /\ stages' \in Seq(Operation \X Builder)
    OBVIOUS
  <2>4. TypeOK'
    BY <1>2, <2>1, <2>2, <2>3 DEF Inv, TypeOK, model, plan, Steps
  <2> QED
    BY <2>4 DEF Inv, ModelInv, WellFormed, model
<1>7. (CallInv /\ FreshInv /\ PhaseInv /\ LoweredInv /\ LowerDoneInv)'
  BY <1>1, <1>2
     DEF Inv, TypeOK, CallInv, FreshInv, PhaseInv, LoweredInv, LowerDoneInv, plan, None
<1>8. OrderInv'
  BY <1>2, <1>3 DEF OrderInv, Linearized, Looping
<1>9. (MarkInv /\ TensorInv)'
  BY <1>2, <1>4, <1>5 DEF MarkInv, TensorInv, plan, None
<1>10. (ShapeInv /\ InitializerInv)'
  <2>1. shapes' = {} /\ initializers' = [x \in Operand |-> None]
    OBVIOUS
  <2>2. ShapeInv'
    BY <1>4, <2>1 DEF ShapeInv
  <2>3. InitializerInv'
    BY <1>4, <2>1 DEF InitializerInv, None
  <2> QED
    BY <2>2, <2>3
<1>11. (StagesInv /\ FunctionInv /\ AllocatedInv)'
  <2>1. Len(stages') = 0 /\ Len(functions'[active']) = 0 /\ (step' = "allocate" => Len(order') = 0)
    BY <1>1, <1>2, <1>5 DEF plan
  <2>2. StagesInv'
    BY <1>2, <2>1 DEF StagesInv, Looping
  <2>3. FunctionInv'
    BY <1>2, <2>1 DEF FunctionInv
  <2> QED
    BY <1>2, <2>2, <2>3 DEF AllocatedInv
<1>12. ObjectInv'
  BY DEF Inv, ObjectInv, plan
<1>13. (AcceptedModelsCompile /\ PlanRunsTheGraph /\ TensorsArePrivate /\ WeightsAreFilled)'
  BY ResultsKept DEF plan
<1> QED
  BY <1>6, <1>7, <1>8, <1>9, <1>10, <1>11, <1>12, <1>13 DEF Inv

LEMMA MarkTensorsInv ==
  ASSUME Inv, MarkTensors
  PROVE  Inv'
<1> DEFINE b == BuilderOf(Current)
<1>1. step = "mark" /\ step \in Linearized /\ step \in Looping /\ step \in BeforePrepare
  BY DEF MarkTensors, Linearized, Looping, BeforePrepare
<1>2. /\ active \in Compilations /\ active # None /\ result[active] = None
      /\ order \in Schedules /\ order \in Seq(Operation) /\ Len(order) \in Nat
      /\ at < Len(order) /\ at \in Nat
  BY <1>1, LoweredFacts, NoneAssumption DEF Inv, OrderInv, TypeOK
<1>3. Current \in Operation
  BY <1>2 DEF Current
<1>4. b = <<active, backendOf[Current]>> /\ b \in Builder /\ Marked(Current) \subseteq Operand
      /\ backendOf[Current] \in Backend
  BY <1>1, <1>3, LoweredFacts
<1>5. tensors[b] = {}
  BY <1>1, <1>2, <1>4 DEF Inv, TensorInv
<1>6. /\ marked' = [marked EXCEPT ![b] = @ \cup Marked(Current)]
      /\ Advance("plan")
      /\ UNCHANGED <<model, phase, lowered, active, left, order, builder,
                     tensors, allocated, objects, functions, filled, result>>
  BY <1>5 DEF MarkTensors
<1>7. /\ step' \in {"mark", "plan"} /\ at' \in 0 .. Len(order)
      /\ MarkedOps' = MarkedOps \cup {Current} /\ PlannedOps' = {} /\ PlannedOps = {}
      /\ step' = "mark" => at' < Len(order)
      /\ step' = "plan" => at' = 0
  <2>1. \/ /\ at + 1 < Len(order) /\ at' = at + 1 /\ step' = step
           /\ Done' = Done \cup {Current}
        \/ /\ at + 1 = Len(order) /\ at' = 0 /\ step' = "plan"
           /\ Done \cup {Current} = Operation
    BY <1>2, <1>6, Turn DEF Inv
  <2>2. at' = 0 => Done' = {}
    BY DEF Done
  <2> QED
    BY <1>1, <1>2, <2>1, <2>2 DEF MarkedOps, PlannedOps
<1>8. TypeOK' /\ ModelInv'
  <2>1. GraphTypeOK'
    BY <1>6 DEF Inv, TypeOK, GraphTypeOK, model
  <2>2. marked' \in [Builder -> SUBSET Operand]
    BY <1>4, <1>6 DEF Inv, TypeOK
  <2>3. TypeOK'
    BY <1>6, <1>7, <2>1, <2>2 DEF Inv, TypeOK, model, builder, Steps
  <2> QED
    BY <2>3, <1>6 DEF Inv, ModelInv, WellFormed, model
<1>9. (CallInv /\ FreshInv /\ PhaseInv /\ LoweredInv /\ LowerDoneInv)'
  <2>1. (CallInv /\ PhaseInv /\ LoweredInv /\ LowerDoneInv)'
    BY <1>1, <1>2, <1>6, <1>7
       DEF Inv, CallInv, PhaseInv, LoweredInv, LowerDoneInv, None
  <2>2. \A c \in Compilations, d \in Backend :
          c # active => <<c, d>> \in Builder /\ marked'[<<c, d>>] = marked[<<c, d>>]
    BY <1>4, <1>6 DEF Inv, TypeOK, Builder
  <2>3. FreshInv'
    BY <1>6, <2>2 DEF Inv, FreshInv
  <2> QED
    BY <2>1, <2>3
<1>10. OrderInv'
  BY <1>1, <1>2, <1>6, <1>7
     DEF Inv, OrderInv, Linearized, Looping, Schedules, Successors, Uses, model
<1>11. MarkInv'
  <2> SUFFICES ASSUME NEW d \in Backend
               PROVE  marked'[<<active, d>>] =
                        UNION {Marked(o) : o \in {p \in MarkedOps' : backendOf[p] = d}}
    BY <1>6 DEF MarkInv, Marked, model
  <2>1. marked[<<active, d>>] =
          UNION {Marked(o) : o \in {p \in MarkedOps : backendOf[p] = d}}
    BY <1>2 DEF Inv, MarkInv
  <2>2. CASE d = backendOf[Current]
    <3>1. marked'[<<active, d>>] = marked[<<active, d>>] \cup Marked(Current)
      BY <1>4, <1>6, <2>2 DEF Inv, TypeOK
    <3>2. {p \in MarkedOps' : backendOf[p] = d} = {p \in MarkedOps : backendOf[p] = d} \cup {Current}
      BY <1>7, <2>2
    <3> QED
      BY <2>1, <3>1, <3>2
  <2>3. CASE d # backendOf[Current]
    <3>1. marked'[<<active, d>>] = marked[<<active, d>>]
      BY <1>2, <1>4, <1>6, <2>3 DEF Inv, TypeOK, Builder
    <3>2. {p \in MarkedOps' : backendOf[p] = d} = {p \in MarkedOps : backendOf[p] = d}
      BY <1>7, <2>3
    <3> QED
      BY <2>1, <3>1, <3>2
  <2> QED
    BY <2>2, <2>3
<1>12. (ShapeInv /\ InitializerInv)'
  BY <1>1, <1>6, <1>7 DEF Inv, ShapeInv, InitializerInv, builder, model, Shaped, Weights
<1>13. (StagesInv /\ FunctionInv /\ AllocatedInv)'
  BY <1>1, <1>6, <1>7 DEF Inv, StagesInv, FunctionInv, AllocatedInv, builder, model
<1>14. TensorInv'
  <2>1. \A d \in Backend : tensors'[<<active, d>>] = {}
    BY <1>1, <1>2, <1>6 DEF Inv, TensorInv
  <2> QED
    BY <1>6, <1>7, <2>1 DEF TensorInv, Prepared
<1>15. ObjectInv'
  BY <1>6 DEF Inv, ObjectInv
<1>16. (AcceptedModelsCompile /\ PlanRunsTheGraph /\ TensorsArePrivate /\ WeightsAreFilled)'
  BY <1>6, ResultsKept
<1> QED
  BY <1>8, <1>9, <1>10, <1>11, <1>12, <1>13, <1>14, <1>15, <1>16 DEF Inv

LEMMA PlanOperationInv ==
  ASSUME Inv, PlanOperation
  PROVE  Inv'
<1> USE DEF PlanOperation, AddStage
<1>1. step = "plan" /\ step \in Linearized /\ step \in Looping /\ step \in BeforePrepare
  BY DEF Linearized, Looping, BeforePrepare
<1>2. /\ active \in Compilations /\ active # None /\ result[active] = None
      /\ order \in Schedules /\ order \in Seq(Operation) /\ Len(order) \in Nat
      /\ at < Len(order) /\ at \in Nat
  BY <1>1, LoweredFacts, NoneAssumption DEF Inv, OrderInv, TypeOK
<1>3. Current \in Operation /\ Current = order[at + 1]
  BY <1>2 DEF Current
<1>4. /\ BuilderOf(Current) = <<active, backendOf[Current]>> /\ BuilderOf(Current) \in Builder
      /\ Shaped(Current) \subseteq Operand
      /\ backendOf[Current] \in Backend /\ backendOf[Current] # None
  BY <1>1, <1>3, LoweredFacts, PassesAgree, NoneAssumption DEF Inv
<1>5. /\ step' \in {"plan", "prepare"} /\ at' \in 0 .. Len(order)
      /\ MarkedOps' = Operation /\ MarkedOps = Operation
      /\ PlannedOps' = PlannedOps \cup {Current}
      /\ step' = "plan" => at' = at + 1 /\ at' < Len(order)
      /\ step' = "prepare" => at' = 0 /\ at + 1 = Len(order)
  <2>1. \/ /\ at + 1 < Len(order) /\ at' = at + 1 /\ step' = step
           /\ Done' = Done \cup {Current}
        \/ /\ at + 1 = Len(order) /\ at' = 0 /\ step' = "prepare"
           /\ Done \cup {Current} = Operation
    BY <1>2, Turn DEF Inv
  <2> QED
    BY <1>1, <1>2, <2>1 DEF MarkedOps, PlannedOps
<1>6. TypeOK' /\ ModelInv'
  <2>1. GraphTypeOK'
    BY DEF Inv, TypeOK, GraphTypeOK, model
  <2>2. shapes' \subseteq Operand
    BY <1>4 DEF Inv, TypeOK
  <2>3. initializers' \in [Operand -> Backend \cup {None}]
    BY <1>4 DEF Inv, TypeOK
  <2>4. stages' \in Seq(Operation \X Builder)
    <3>1. stages \in Seq(Operation \X Builder)
      BY DEF Inv, TypeOK
    <3>2. <<Current, BuilderOf(Current)>> \in Operation \X Builder
      BY <1>3, <1>4
    <3>3. stages' = Append(stages, <<Current, BuilderOf(Current)>>)
      OBVIOUS
    <3> HIDE DEF PlanOperation, AddStage
    <3> QED
      BY <3>1, <3>2, <3>3
  <2>5. TypeOK'
    BY <1>5, <2>1, <2>2, <2>3, <2>4 DEF Inv, TypeOK, model, plan, Steps
  <2> QED
    BY <2>5 DEF Inv, ModelInv, WellFormed, model
<1>7. (CallInv /\ FreshInv /\ PhaseInv /\ LoweredInv /\ LowerDoneInv)'
  BY <1>1, <1>2, <1>5
     DEF Inv, CallInv, FreshInv, PhaseInv, LoweredInv, LowerDoneInv, None, plan
<1>8. OrderInv'
  BY <1>1, <1>2, <1>5
     DEF Inv, OrderInv, Linearized, Looping, Schedules, Successors, Uses, model
<1>9. MarkInv'
  BY <1>2, <1>5 DEF Inv, MarkInv, Marked, model, plan
<1>10. ShapeInv'
  <2>1. shapes = UNION {Shaped(o) : o \in PlannedOps}
    BY <1>1 DEF Inv, ShapeInv
  <2>2. shapes' = UNION {Shaped(o) : o \in PlannedOps'}
    BY <1>5, <2>1
  <2> QED
    BY <2>2 DEF ShapeInv, model, Shaped
<1>11. InitializerInv'
  <2>1. \A x \in Operand : initializers'[x] = IF x \in Weights(Current) THEN backendOf[Current]
                                            ELSE initializers[x]
    OBVIOUS
  <2>2. \A x \in Operand :
          /\ initializers[x] # None =>
               \E o \in PlannedOps : x \in Weights(o) /\ initializers[x] = backendOf[o]
          /\ \A o \in PlannedOps : x \in Weights(o) => initializers[x] # None
    BY <1>1 DEF Inv, InitializerInv
  <2>3. \A x \in Operand :
          /\ initializers'[x] # None =>
               \E o \in PlannedOps' : x \in Weights(o) /\ initializers'[x] = backendOf[o]
          /\ \A o \in PlannedOps' : x \in Weights(o) => initializers'[x] # None
    BY <1>4, <1>5, <2>1, <2>2
  <2> QED
    BY <2>3 DEF InitializerInv, model, Weights
<1>12. StagesInv'
  <2>1. /\ Len(stages) = at /\ stages \in Seq(Operation \X Builder)
        /\ \A i \in 1 .. at : stages[i] = <<order[i], <<active, backendOf[order[i]]>>>>
    BY <1>1 DEF Inv, StagesInv, TypeOK
  <2>2. /\ Len(stages') = at + 1
        /\ \A i \in 1 .. at + 1 : stages'[i] = <<order[i], <<active, backendOf[order[i]]>>>>
    BY <1>2, <1>3, <1>4, <2>1
  <2>3. Len(stages') = IF step' = "plan" THEN at' ELSE Len(order)
    BY <1>5, <2>2
  <2> QED
    BY <1>5, <2>2, <2>3 DEF StagesInv, model
<1>13. (TensorInv /\ FunctionInv /\ AllocatedInv)'
  BY <1>1, <1>5 DEF Inv, TensorInv, FunctionInv, AllocatedInv, Prepared, model, plan
<1>14. ObjectInv'
  BY DEF Inv, ObjectInv, plan
<1>15. (AcceptedModelsCompile /\ PlanRunsTheGraph /\ TensorsArePrivate /\ WeightsAreFilled)'
  BY ResultsKept DEF plan
<1> QED
  BY <1>6, <1>7, <1>8, <1>9, <1>10, <1>11, <1>12, <1>13, <1>14, <1>15 DEF Inv

\* Appending an element that is not listed.
LEMMA AppendNew ==
  ASSUME NEW S, NEW s \in Seq(S), NEW e \in S
  PROVE  /\ ToSet(Append(s, e)) = ToSet(s) \cup {e}
         /\ IsInjective(s) /\ e \notin ToSet(s) => IsInjective(Append(s, e))
<1>1. /\ Append(s, e) \in Seq(S) /\ Len(Append(s, e)) = Len(s) + 1 /\ Len(s) \in Nat
      /\ DOMAIN s = 1 .. Len(s) /\ DOMAIN Append(s, e) = 1 .. Len(s) + 1
      /\ \A i \in 1 .. Len(s) : Append(s, e)[i] = s[i]
      /\ Append(s, e)[Len(s) + 1] = e
  OBVIOUS
<1>2. \A i \in 1 .. Len(s) + 1 : i \in 1 .. Len(s) \/ i = Len(s) + 1
  BY <1>1
<1>3. \A i \in 1 .. Len(s) : i \in 1 .. Len(s) + 1
  BY <1>1
<1>4. Len(s) + 1 \in 1 .. Len(s) + 1
  BY <1>1
<1>5. ToSet(Append(s, e)) = ToSet(s) \cup {e}
  BY <1>1, <1>2, <1>3, <1>4 DEF ToSet
<1>6. ASSUME IsInjective(s), e \notin ToSet(s)
      PROVE  IsInjective(Append(s, e))
  <2>1. \A i \in 1 .. Len(s) : s[i] # e
    BY <1>1, <1>6 DEF ToSet
  <2>2. \A i, j \in 1 .. Len(s) : s[i] = s[j] => i = j
    BY <1>1, <1>6 DEF IsInjective
  <2> QED
    BY <1>1, <1>2, <2>1, <2>2 DEF IsInjective
<1> QED
  BY <1>5, <1>6

LEMMA PrepareTensorsInv ==
  ASSUME Inv, NEW b \in Builder, PrepareTensors(b)
  PROVE  Inv'
<1>1. step = "prepare" /\ step \in Linearized /\ step \in Looping /\ tensors[b] = {}
  BY DEF PrepareTensors, Linearized, Looping
<1>2. /\ active \in Compilations /\ active # None /\ result[active] = None
      /\ order \in Schedules /\ order \in Seq(Operation) /\ Len(order) \in Nat
      /\ at = 0 /\ 0 < Len(order)
  BY <1>1, LoweredFacts, NoneAssumption DEF Inv, OrderInv
<1>3. PICK o \in Operation : b = <<active, backendOf[o]>> /\ backendOf[o] \in Backend
  BY <1>1, LoweredFacts DEF PrepareTensors, TensorBuilders
<1>4. MarkedOps = Operation /\ PlannedOps = Operation
  BY <1>1 DEF MarkedOps, PlannedOps
<1>5. \A d \in Backend :
        marked[<<active, d>>] = UNION {Marked(p) : p \in {q \in Operation : backendOf[q] = d}}
  BY <1>2, <1>4 DEF Inv, MarkInv
<1>6. marked[b] \subseteq shapes
  <2>1. shapes = UNION {Shaped(p) : p \in Operation}
    BY <1>1, <1>4 DEF Inv, ShapeInv
  <2>2. \A p \in Operation : Shaped(p) = Marked(p)
    BY PassesAgree DEF Inv
  <2> QED
    BY <1>3, <1>5, <2>1, <2>2
<1>7. /\ tensors' = [tensors EXCEPT ![b] = marked[b]]
      /\ objects' = [objects EXCEPT ![active] =
           [x \in Operand |-> IF x \in marked[b] THEN Append(@[x], b) ELSE @[x]]]
      /\ step' = IF \E d \in TensorBuilders \ {b} : tensors[d] = {} THEN step ELSE "stages"
      /\ UNCHANGED <<model, phase, lowered, active, left, order, at, builder,
                     marked, allocated, functions, filled, result>>
  BY <1>6 DEF PrepareTensors
<1>8. step' \in {"prepare", "stages"}
  BY <1>1, <1>7
<1>9. MarkedOps' = Operation /\ PlannedOps' = Operation
  BY <1>8 DEF MarkedOps, PlannedOps
<1>10. TypeOK' /\ ModelInv'
  <2>1. GraphTypeOK'
    BY <1>7 DEF Inv, TypeOK, GraphTypeOK, model
  <2>2. tensors' \in [Builder -> SUBSET Operand]
    BY <1>7 DEF Inv, TypeOK
  <2>3. objects' \in [Compilations -> [Operand -> Seq(Builder)]]
    <3>1. objects[active] \in [Operand -> Seq(Builder)]
      BY <1>2 DEF Inv, TypeOK
    <3>2. [x \in Operand |-> IF x \in marked[b] THEN Append(objects[active][x], b)
                             ELSE objects[active][x]] \in [Operand -> Seq(Builder)]
      BY <3>1
    <3> QED
      BY <1>7, <3>2 DEF Inv, TypeOK
  <2>4. TypeOK'
    BY <1>7, <1>8, <2>1, <2>2, <2>3 DEF Inv, TypeOK, model, builder, Steps
  <2> QED
    BY <1>7, <2>4 DEF Inv, ModelInv, WellFormed, model
<1>11. (CallInv /\ FreshInv /\ PhaseInv /\ LoweredInv /\ LowerDoneInv)'
  <2>1. (CallInv /\ PhaseInv /\ LoweredInv /\ LowerDoneInv)'
    BY <1>1, <1>2, <1>7, <1>8
       DEF Inv, CallInv, PhaseInv, LoweredInv, LowerDoneInv, None
  <2>2. \A c \in Compilations, d \in Backend :
          c # active => <<c, d>> \in Builder /\ tensors'[<<c, d>>] = tensors[<<c, d>>]
    BY <1>3, <1>7 DEF Inv, TypeOK, Builder
  <2>3. FreshInv'
    BY <1>7, <2>2 DEF Inv, FreshInv
  <2> QED
    BY <2>1, <2>3
<1>12. OrderInv'
  BY <1>1, <1>2, <1>7, <1>8
     DEF Inv, OrderInv, Linearized, Looping, Schedules, Successors, Uses, model
<1>13. MarkInv'
  BY <1>5, <1>7, <1>9 DEF MarkInv, Marked, model
<1>14. (ShapeInv /\ InitializerInv)'
  BY <1>1, <1>4, <1>7, <1>9 DEF Inv, ShapeInv, InitializerInv, builder, model, Shaped, Weights
<1>15. (StagesInv /\ FunctionInv /\ AllocatedInv)'
  BY <1>1, <1>2, <1>7, <1>8 DEF Inv, StagesInv, FunctionInv, AllocatedInv, builder, model
<1>16. TensorInv'
  <2> SUFFICES ASSUME NEW d \in Backend
               PROVE  /\ tensors'[<<active, d>>] \in {{}, marked[<<active, d>>]}
                      /\ step' = "stages" => tensors'[<<active, d>>] = marked[<<active, d>>]
    BY <1>7, <1>8 DEF TensorInv, BeforePrepare, Prepared
  <2>1. tensors[<<active, d>>] \in {{}, marked[<<active, d>>]} /\ <<active, d>> \in Builder
    BY <1>2 DEF Inv, TensorInv, Builder
  <2>2. CASE <<active, d>> = b
    BY <1>7, <2>1, <2>2 DEF Inv, TypeOK
  <2>3. CASE <<active, d>> # b
    <3>1. tensors'[<<active, d>>] = tensors[<<active, d>>]
      BY <1>7, <2>1, <2>3 DEF Inv, TypeOK
    <3>2. ASSUME step' = "stages", marked[<<active, d>>] # {}
          PROVE  tensors[<<active, d>>] # {}
      <4>1. PICK p \in Operation : backendOf[p] = d
        BY <1>5, <3>2
      <4>2. <<active, d>> \in TensorBuilders \ {b}
        BY <1>1, <2>3, <4>1, LoweredFacts DEF TensorBuilders
      <4> QED
        BY <1>1, <1>7, <3>2, <4>2
    <3> QED
      BY <2>1, <3>1, <3>2
  <2> QED
    BY <2>2, <2>3
<1>17. ObjectInv'
  <2> SUFFICES ASSUME NEW c \in Compilations, NEW x \in Operand
               PROVE  /\ IsInjective(objects'[c][x])
                      /\ ToSet(objects'[c][x]) = {d \in Builder : d[1] = c /\ x \in tensors'[d]}
    BY DEF ObjectInv
  <2>1. /\ IsInjective(objects[c][x]) /\ objects[c][x] \in Seq(Builder)
        /\ ToSet(objects[c][x]) = {d \in Builder : d[1] = c /\ x \in tensors[d]}
    BY DEF Inv, ObjectInv, TypeOK
  <2>2. \A d \in Builder : tensors'[d] = IF d = b THEN marked[b] ELSE tensors[d]
    BY <1>7 DEF Inv, TypeOK
  <2>3. objects'[c][x] = IF c = active /\ x \in marked[b] THEN Append(objects[c][x], b)
                                                          ELSE objects[c][x]
    BY <1>7 DEF Inv, TypeOK
  <2>4. b[1] = active
    BY <1>3
  <2>5. CASE c = active /\ x \in marked[b]
    <3>1. b \notin ToSet(objects[c][x])
      BY <1>1, <2>1
    <3>2. /\ IsInjective(objects'[c][x])
          /\ ToSet(objects'[c][x]) = ToSet(objects[c][x]) \cup {b}
      BY <2>1, <2>3, <2>5, <3>1, AppendNew
    <3>3. {d \in Builder : d[1] = c /\ x \in tensors'[d]}
            = {d \in Builder : d[1] = c /\ x \in tensors[d]} \cup {b}
      BY <2>2, <2>4, <2>5
    <3> QED
      BY <2>1, <3>2, <3>3
  <2>6. CASE ~(c = active /\ x \in marked[b])
    <3>1. objects'[c][x] = objects[c][x]
      BY <2>3, <2>6
    <3>2. {d \in Builder : d[1] = c /\ x \in tensors'[d]}
            = {d \in Builder : d[1] = c /\ x \in tensors[d]}
      BY <1>1, <2>2, <2>4, <2>6
    <3> QED
      BY <2>1, <3>1, <3>2
  <2> QED
    BY <2>5, <2>6
<1>18. (AcceptedModelsCompile /\ PlanRunsTheGraph /\ TensorsArePrivate /\ WeightsAreFilled)'
  <2>1. AcceptedModelsCompile'
    BY <1>7 DEF Inv, AcceptedModelsCompile, Compiled, model, Accepted
  <2>2. PlanRunsTheGraph'
    BY <1>7 DEF Inv, PlanRunsTheGraph, Compiled, model, Successors, Uses
  <2>3. WeightsAreFilled'
    BY <1>7 DEF Inv, WeightsAreFilled, Compiled, model, Weights
  <2>4. TensorsArePrivate'
    <3>1. ~Compiled(active) /\ \A c \in Compilations : Compiled(c)' = Compiled(c)
      BY <1>2, <1>7 DEF Compiled, None
    <3>2. \A c \in Compilations, x \in Operand : c # active => objects'[c][x] = objects[c][x]
      BY <1>7 DEF Inv, TypeOK
    <3> QED
      BY <1>7, <3>1, <3>2 DEF Inv, TensorsArePrivate, model, Marked
  <2> QED
    BY <2>1, <2>2, <2>3, <2>4
<1> QED
  BY <1>10, <1>11, <1>12, <1>13, <1>14, <1>15, <1>16, <1>17, <1>18 DEF Inv

LEMMA RunStageInv ==
  ASSUME Inv, RunStage
  PROVE  Inv'
<1> DEFINE o == order[at + 1]
<1>1. step = "stages" /\ step \in Linearized /\ step \in Looping /\ step \in Prepared
  BY DEF RunStage, Linearized, Looping, Prepared
<1>2. /\ active \in Compilations /\ active # None /\ result[active] = None
      /\ order \in Schedules /\ order \in Seq(Operation) /\ Len(order) \in Nat
      /\ at < Len(order) /\ at \in Nat
  BY <1>1, LoweredFacts, NoneAssumption DEF Inv, OrderInv, TypeOK
<1>3. MarkedOps = Operation /\ PlannedOps = Operation
  BY <1>1 DEF MarkedOps, PlannedOps
<1>4. /\ order[at + 1] \in Operation
      /\ stages[at + 1] = <<order[at + 1], <<active, backendOf[order[at + 1]]>>>>
  BY <1>1, <1>2 DEF Inv, StagesInv
<1>5. LookedUp(o) \subseteq tensors[<<active, backendOf[o]>>]
  <2>1. backendOf[o] \in Backend
    BY <1>4 DEF Inv, TypeOK
  <2>2. tensors[<<active, backendOf[o]>>] = marked[<<active, backendOf[o]>>]
    BY <1>1, <1>2, <2>1 DEF Inv, TensorInv
  <2>3. marked[<<active, backendOf[o]>>] =
          UNION {Marked(p) : p \in {q \in Operation : backendOf[q] = backendOf[o]}}
    BY <1>2, <1>3, <2>1 DEF Inv, MarkInv
  <2>4. LookedUp(o) = Marked(o)
    BY <1>4, PassesAgree DEF Inv
  <2> QED
    BY <1>4, <2>2, <2>3, <2>4
<1>0. CASE fault[o] = "stage"
  <2>1. ~Accepted
    BY <1>0, <1>4 DEF Accepted, None
  <2>2. Fail("threw")
    BY <1>0, <1>4 DEF RunStage
  <2> QED
    BY <1>2, <2>1, <2>2, FailInv
<1> SUFFICES ASSUME fault[o] # "stage" PROVE Inv'
  BY <1>0
<1>6. /\ functions' = [functions EXCEPT ![active] = Append(@, order[at + 1])]
      /\ Advance("allocate")
      /\ UNCHANGED <<model, phase, lowered, active, left, order, builder,
                     marked, tensors, allocated, objects, filled, result>>
  BY <1>4, <1>5 DEF RunStage
<1>7. /\ step' \in {"stages", "allocate"} /\ at' \in 0 .. Len(order)
      /\ step' = "stages" => at' = at + 1 /\ at' < Len(order)
      /\ step' = "allocate" => at' = 0 /\ at + 1 = Len(order)
  BY <1>1, <1>2, <1>6 DEF Advance
<1>8. MarkedOps' = Operation /\ PlannedOps' = Operation
  BY <1>7 DEF MarkedOps, PlannedOps
<1>9. TypeOK' /\ ModelInv'
  <2>1. GraphTypeOK'
    BY <1>6 DEF Inv, TypeOK, GraphTypeOK, model
  <2>2. functions' \in [Compilations -> Seq(Operation)]
    BY <1>2, <1>4, <1>6 DEF Inv, TypeOK
  <2>3. TypeOK'
    BY <1>6, <1>7, <2>1, <2>2 DEF Inv, TypeOK, model, builder, Steps
  <2> QED
    BY <1>6, <2>3 DEF Inv, ModelInv, WellFormed, model
<1>10. (CallInv /\ FreshInv /\ PhaseInv /\ LoweredInv /\ LowerDoneInv)'
  <2>1. (CallInv /\ PhaseInv /\ LoweredInv /\ LowerDoneInv)'
    BY <1>1, <1>2, <1>6, <1>7
       DEF Inv, CallInv, PhaseInv, LoweredInv, LowerDoneInv, None
  <2>2. \A c \in Compilations : c # active => functions'[c] = functions[c]
    BY <1>6 DEF Inv, TypeOK
  <2>3. FreshInv'
    BY <1>6, <2>2 DEF Inv, FreshInv
  <2> QED
    BY <2>1, <2>3
<1>11. OrderInv'
  BY <1>1, <1>2, <1>6, <1>7
     DEF Inv, OrderInv, Linearized, Looping, Schedules, Successors, Uses, model
<1>12. (MarkInv /\ ShapeInv /\ InitializerInv)'
  <2>1. MarkInv'
    BY <1>3, <1>6, <1>8 DEF Inv, MarkInv, Marked, model
  <2>2. (ShapeInv /\ InitializerInv)'
    BY <1>1, <1>3, <1>6, <1>8 DEF Inv, ShapeInv, InitializerInv, builder, model, Shaped, Weights
  <2> QED
    BY <2>1, <2>2
<1>13. (StagesInv /\ AllocatedInv)'
  BY <1>1, <1>6, <1>7 DEF Inv, StagesInv, AllocatedInv, builder, model
<1>14. FunctionInv'
  <2> DEFINE f == functions[active]
  <2>1. f \in Seq(Operation) /\ Len(f) = at /\ \A i \in 1 .. at : f[i] = order[i]
    BY <1>1, <1>2 DEF Inv, FunctionInv, TypeOK
  <2>2. functions'[active] = Append(f, order[at + 1])
    BY <1>2, <1>6 DEF Inv, TypeOK
  <2>3. /\ Len(functions'[active]) = at + 1
        /\ \A i \in 1 .. at + 1 : functions'[active][i] = order[i]
    BY <1>2, <1>4, <2>1, <2>2
  <2>4. Len(functions'[active]) = IF step' \in {"allocate", "fill"} THEN Len(order) ELSE at'
    BY <1>7, <2>3
  <2> QED
    BY <1>6, <1>7, <2>3, <2>4 DEF FunctionInv
<1>15. TensorInv'
  BY <1>1, <1>2, <1>6, <1>7 DEF Inv, TensorInv, BeforePrepare, Prepared
<1>16. ObjectInv'
  BY <1>6 DEF Inv, ObjectInv
<1>17. (AcceptedModelsCompile /\ PlanRunsTheGraph /\ TensorsArePrivate /\ WeightsAreFilled)'
  <2>1. AcceptedModelsCompile'
    BY <1>6 DEF Inv, AcceptedModelsCompile, Compiled, model, Accepted
  <2>2. TensorsArePrivate'
    BY <1>6 DEF Inv, TensorsArePrivate, Compiled, model, Marked
  <2>3. WeightsAreFilled'
    BY <1>6 DEF Inv, WeightsAreFilled, Compiled, model, Weights
  <2>4. PlanRunsTheGraph'
    <3>1. ~Compiled(active) /\ \A c \in Compilations : Compiled(c)' = Compiled(c)
      BY <1>2, <1>6 DEF Compiled, None
    <3>2. \A c \in Compilations : c # active => functions'[c] = functions[c]
      BY <1>6 DEF Inv, TypeOK
    <3> QED
      BY <1>6, <3>1, <3>2 DEF Inv, PlanRunsTheGraph, model, Successors, Uses
  <2> QED
    BY <2>1, <2>2, <2>3, <2>4
<1> QED
  BY <1>9, <1>10, <1>11, <1>12, <1>13, <1>14, <1>15, <1>16, <1>17 DEF Inv

LEMMA AllocateTensorsInv ==
  ASSUME Inv, AllocateTensors
  PROVE  Inv'
<1> USE DEF AllocateTensors
<1>1. step = "allocate" /\ step \in Linearized /\ step' = "fill" /\ step \in Prepared
  BY DEF Linearized, Prepared
<1>2. active \in Compilations /\ active # None /\ result[active] = None
  BY <1>1, LoweredFacts, NoneAssumption
<1>3. /\ MarkedOps = Operation /\ PlannedOps = Operation
      /\ MarkedOps' = Operation /\ PlannedOps' = Operation
  BY <1>1 DEF MarkedOps, PlannedOps
<1>4. \A o \in Operation : BuilderOf(o) = <<active, backendOf[o]>> /\ BuilderOf(o) \in Builder
  BY <1>1, LoweredFacts
<1>5. TypeOK' /\ ModelInv'
  <2>1. GraphTypeOK'
    BY DEF Inv, TypeOK, GraphTypeOK, model
  <2>2. TypeOK'
    BY <1>1, <1>4, <2>1 DEF Inv, TypeOK, TensorBuilders, model, builder, Steps
  <2> QED
    BY <2>2 DEF Inv, ModelInv, WellFormed, model
<1>6. (CallInv /\ FreshInv /\ PhaseInv /\ LoweredInv /\ LowerDoneInv)'
  BY <1>1, <1>2
     DEF Inv, CallInv, FreshInv, PhaseInv, LoweredInv, LowerDoneInv, None
<1>7. OrderInv'
  BY <1>1 DEF Inv, OrderInv, Linearized, Looping, Schedules, Successors, Uses, model
<1>8. (MarkInv /\ ShapeInv /\ InitializerInv)'
  <2>1. MarkInv'
    BY <1>3 DEF Inv, MarkInv, Marked, model
  <2>2. (ShapeInv /\ InitializerInv)'
    BY <1>1, <1>3 DEF Inv, ShapeInv, InitializerInv, builder, model, Shaped, Weights
  <2> QED
    BY <2>1, <2>2
<1>9. StagesInv'
  BY <1>1 DEF StagesInv, Looping
<1>10. (FunctionInv /\ TensorInv)'
  BY <1>1, <1>2 DEF Inv, FunctionInv, TensorInv, BeforePrepare, Prepared
<1>11. AllocatedInv'
  BY <1>4 DEF AllocatedInv, TensorBuilders, model
<1>12. ObjectInv'
  BY DEF Inv, ObjectInv
<1>13. (AcceptedModelsCompile /\ PlanRunsTheGraph /\ TensorsArePrivate /\ WeightsAreFilled)'
  BY ResultsKept
<1> QED
  BY <1>5, <1>6, <1>7, <1>8, <1>9, <1>10, <1>11, <1>12, <1>13 DEF Inv

\* Lists are equal that have the same elements at the same places.
LEMMA SameList ==
  ASSUME NEW S, NEW s \in Seq(S), NEW t \in Seq(S),
         Len(s) = Len(t), \A i \in 1 .. Len(s) : s[i] = t[i]
  PROVE  s = t
OBVIOUS

LEMMA FillWeightsInv ==
  ASSUME Inv, FillWeights
  PROVE  Inv'
<1>0. /\ result' = [result EXCEPT ![active] = "ok"] /\ active' = None /\ step' = None
      /\ UNCHANGED <<model, phase, lowered, left, order, at, builder,
                     marked, tensors, allocated, objects, functions>>
  BY DEF FillWeights
<1>1. step = "fill" /\ step \in Linearized /\ step \in Prepared
  BY DEF FillWeights, Linearized, Prepared
<1>2. /\ active \in Compilations /\ active # None /\ result[active] = None
      /\ order \in Schedules
      /\ \A o \in Operation : backendOf[o] \in Backend /\ Marked(o) \subseteq Operand
  BY <1>1, LoweredFacts, NoneAssumption
<1>3. MarkedOps = Operation /\ PlannedOps = Operation
  BY <1>1 DEF MarkedOps, PlannedOps
<1>4. /\ result'[active] = "ok"
      /\ \A c \in Compilations : c # active => result'[c] = result[c]
  BY <1>0, <1>2 DEF Inv, TypeOK
<1>5. TypeOK' /\ ModelInv'
  <2>1. GraphTypeOK'
    BY <1>0 DEF Inv, TypeOK, GraphTypeOK, model
  <2>2. filled' \in [Compilations -> SUBSET (Operand \X Builder \X Backend)]
    <3>1. allocated \subseteq Builder /\ filled[active] \subseteq Operand \X Builder \X Backend
      BY <1>2 DEF Inv, TypeOK
    <3> DEFINE S == {t \in Operand \X allocated \X Backend :
                       /\ t[2] \in ToSet(objects[active][t[1]])
                       /\ t[3] = initializers[t[1]]}
    <3>2. S \subseteq Operand \X Builder \X Backend
      BY <3>1
    <3>3. filled' = [filled EXCEPT ![active] = @ \cup S]
      BY DEF FillWeights
    <3> HIDE DEF S
    <3> QED
      BY <3>1, <3>2, <3>3 DEF Inv, TypeOK
  <2>3. result' \in [Compilations -> {None, "ok", "threw", "aborted"}]
    BY <1>0 DEF Inv, TypeOK
  <2>4. TypeOK'
    BY <1>0, <2>1, <2>2, <2>3 DEF Inv, TypeOK, model, builder
  <2> QED
    BY <1>0, <2>4 DEF Inv, ModelInv, WellFormed, model
<1>6. (CallInv /\ FreshInv /\ PhaseInv /\ LoweredInv /\ LowerDoneInv)'
  <2>1. (CallInv /\ LoweredInv /\ LowerDoneInv)'
    BY <1>0 DEF CallInv, LoweredInv, LowerDoneInv
  <2>2. PhaseInv'
    BY <1>2, <1>4 DEF PhaseInv, Compiled
  <2>3. FreshInv'
    BY <1>0, <1>2, <1>4 DEF Inv, FreshInv, None
  <2> QED
    BY <2>1, <2>2, <2>3
<1>7. (MarkInv /\ ShapeInv /\ InitializerInv /\ StagesInv /\ TensorInv
         /\ FunctionInv /\ AllocatedInv /\ OrderInv)'
  BY <1>0, NothingBuilt
<1>8. ObjectInv'
  BY <1>0 DEF Inv, ObjectInv
<1>9. AcceptedModelsCompile'
  BY <1>0, <1>2, <1>4 DEF Inv, AcceptedModelsCompile, Compiled, model, None, Accepted
<1>10. PlanRunsTheGraph'
  <2> DEFINE f == functions[active]
  <2>1. f \in Seq(Operation) /\ Len(f) = Len(order) /\ \A i \in 1 .. Len(f) : f[i] = order[i]
    BY <1>1, <1>2 DEF Inv, FunctionInv, TypeOK
  <2>2. /\ order \in Seq(Operation) /\ IsInjective(order) /\ DOMAIN order = 1 .. Len(order)
        /\ {order[i] : i \in 1 .. Len(order)} = Operation
    BY <1>2, ScheduleCovers
  <2>3. f = order
    BY <2>1, <2>2, SameList
  <2>4. ToSet(f) = Operation /\ IsInjective(f)
    BY <2>2, <2>3 DEF ToSet
  <2>5. \A i, j \in DOMAIN f : f[j] \in Successors(f[i]) => i < j
    BY <1>2, <2>3 DEF Schedules
  <2>6. \A o : Successors(o)' = Successors(o)
    BY <1>0 DEF Successors, Uses, model
  <2>7. \A c \in Compilations : c # active => Compiled(c)' = Compiled(c)
    BY <1>4 DEF Compiled
  <2> QED
    BY <1>0, <2>4, <2>5, <2>6, <2>7 DEF Inv, PlanRunsTheGraph
<1>11. TensorsArePrivate'
  <2> SUFFICES ASSUME NEW c \in Compilations, NEW x \in Operand, result'[c] = "ok"
               PROVE  /\ IsInjective(objects[c][x])
                      /\ ToSet(objects[c][x]) =
                           {<<c, backendOf[o]>> : o \in {p \in Operation : x \in Marked(p)}}
    BY <1>0 DEF TensorsArePrivate, Compiled, Marked, model
  <2>1. CASE c # active
    BY <1>4, <2>1 DEF Inv, TensorsArePrivate, Compiled
  <2>2. CASE c = active
    <3>1. \A b \in Backend :
            tensors[<<active, b>>] =
              UNION {Marked(p) : p \in {q \in Operation : backendOf[q] = b}}
      BY <1>1, <1>2, <1>3 DEF Inv, TensorInv, MarkInv
    <3>2. /\ IsInjective(objects[c][x])
          /\ ToSet(objects[c][x]) = {d \in Builder : d[1] = c /\ x \in tensors[d]}
      BY DEF Inv, ObjectInv
    <3>3. ASSUME NEW d \in Builder, d[1] = c, x \in tensors[d]
          PROVE  \E o \in Operation : x \in Marked(o) /\ d = <<c, backendOf[o]>>
      <4>1. PICK b \in Backend : d = <<active, b>>
        BY <2>2, <3>3 DEF Builder
      <4>2. PICK o \in Operation : backendOf[o] = b /\ x \in Marked(o)
        BY <3>1, <3>3, <4>1
      <4> QED
        BY <2>2, <4>1, <4>2
    <3>4. ASSUME NEW o \in Operation, x \in Marked(o)
          PROVE  /\ <<c, backendOf[o]>> \in Builder /\ <<c, backendOf[o]>>[1] = c
                 /\ x \in tensors[<<c, backendOf[o]>>]
      BY <1>2, <2>2, <3>1, <3>4 DEF Builder
    <3> QED
      BY <3>2, <3>3, <3>4
  <2> QED
    BY <2>1, <2>2
<1>12. WeightsAreFilled'
  <2> SUFFICES ASSUME NEW c \in Compilations, NEW o \in Operation, result'[c] = "ok",
                      NEW x \in Weights(o),
                      \A p \in Operation : x \in Weights(p) => backendOf[p] = backendOf[o]
               PROVE  <<x, <<c, backendOf[o]>>, backendOf[o]>> \in filled'[c]
    BY <1>0 DEF WeightsAreFilled, Compiled, model, Weights
  <2>1. CASE c # active
    <3>1. filled'[c] = filled[c]
      BY <2>1 DEF FillWeights, Inv, TypeOK
    <3> QED
      BY <1>4, <2>1, <3>1 DEF Inv, WeightsAreFilled, Compiled
  <2>2. CASE c = active
    <3>1. x \in Marked(o) /\ x \in Operand
      BY <1>2, PassesAgree DEF Inv
    <3>2. <<active, backendOf[o]>> \in ToSet(objects[active][x])
      <4>1. ToSet(objects[active][x]) =
              {<<active, backendOf[p]>> : p \in {q \in Operation : x \in Marked(q)}}
        BY <1>0, <1>2, <1>4, <1>11, <3>1 DEF TensorsArePrivate, Compiled, Marked, model
      <4> QED
        BY <3>1, <4>1
    <3>3. <<active, backendOf[o]>> \in allocated
      BY <1>1 DEF Inv, AllocatedInv
    <3>4. initializers[x] = backendOf[o]
      BY <1>1, <1>3, <3>1 DEF Inv, InitializerInv
    <3>5. filled'[active] = filled[active] \cup
            {t \in Operand \X allocated \X Backend : /\ t[2] \in ToSet(objects[active][t[1]])
                                                     /\ t[3] = initializers[t[1]]}
      BY <1>2 DEF FillWeights, Inv, TypeOK
    <3> QED
      BY <1>2, <2>2, <3>1, <3>2, <3>3, <3>4, <3>5
  <2> QED
    BY <2>1, <2>2
<1> QED
  BY <1>5, <1>6, <1>7, <1>8, <1>9, <1>10, <1>11, <1>12 DEF Inv

-----------------------------------------------------------------------------
\* Every step keeps the invariant, and so does a stutter.
LEMMA NextInv == Inv /\ [Next]_vars => Inv'
<1> SUFFICES ASSUME Inv, [Next]_vars
             PROVE  Inv'
  OBVIOUS
<1>1. ASSUME NEW c \in Compilations, StartFinish(c)
      PROVE  Inv'
  BY <1>1, StartFinishInv
<1>2. ASSUME NEW o \in Operation, LowerOperation(o)
      PROVE  Inv'
  BY <1>2, LowerOperationInv
<1>3. ASSUME NEW b \in Builder, PrepareTensors(b)
      PROVE  Inv'
  BY <1>3, PrepareTensorsInv
<1>4. CASE UNCHANGED vars
  <2>1. TypeOK'
    BY <1>4 DEF Inv, TypeOK, GraphTypeOK, vars, model, builder, plan
  <2>2. (ModelInv /\ CallInv /\ FreshInv /\ PhaseInv /\ LoweredInv /\ LowerDoneInv
           /\ ObjectInv)'
    BY <1>4 DEF Inv, ModelInv, WellFormed, CallInv, FreshInv, PhaseInv, Compiled, LoweredInv,
                LowerDoneInv, ObjectInv, vars, model, plan, Accepted
  <2>3. UNCHANGED <<model, active, step, order, at, builder, marked, tensors, allocated,
                    functions, objects, filled, result>>
    BY <1>4 DEF vars, plan
  <2> QED
    BY <2>1, <2>2, <2>3, BuildsKept, ResultsKept DEF Inv
<1> QED
  BY <1>1, <1>2, <1>3, <1>4, RefusalInv, EndLowerInv, LinearizeInv, MarkTensorsInv, PlanOperationInv,
     RunStageInv, AllocateTensorsInv, FillWeightsInv DEF Next

\* The invariant holds in every reachable state of every instance.
THEOREM CompilationInvariant == Spec => []Inv
BY InitInv, NextInv, PTL DEF Spec

\* Every variable keeps its type.
THEOREM CompilationTypeCorrect == Spec => []TypeOK
<1>1. Inv => TypeOK
  BY DEF Inv
<1> QED
  BY <1>1, CompilationInvariant, PTL

\* Where the passes find nothing wrong with an operation itself, a first
\* compilation succeeds on every model, backend and schedule: no tensor lacks a
\* shape and no stage a tensor, whichever of the passes named it.  A later one
\* fails only with the assertions compiled in.
THEOREM AcceptedModelsCompileHolds == Spec => []AcceptedModelsCompile
<1>1. Inv => AcceptedModelsCompile
  BY DEF Inv
<1> QED
  BY <1>1, CompilationInvariant, PTL

\* Every plan runs all the operations, once each and in dataflow order.
THEOREM PlanRunsTheGraphHolds == Spec => []PlanRunsTheGraph
<1>1. Inv => PlanRunsTheGraph
  BY DEF Inv
<1> QED
  BY <1>1, CompilationInvariant, PTL

\* No two plans, and no two backends of a plan, share a tensor.
THEOREM TensorsArePrivateHolds == Spec => []TensorsArePrivate
<1>1. Inv => TensorsArePrivate
  BY DEF Inv
<1> QED
  BY <1>1, CompilationInvariant, PTL

\* A weight that operations of one backend read is in its tensor, and in that
\* backend's layout.
THEOREM WeightsAreFilledHolds == Spec => []WeightsAreFilled
<1>1. Inv => WeightsAreFilled
  BY DEF Inv
<1> QED
  BY <1>1, CompilationInvariant, PTL

-----------------------------------------------------------------------------
\* The plan of a compilation is one that Execution starts from: its functions
\* are in the order of a schedule, and an operand has an object for just the
\* backends that ObjectsOf of Execution names.
ReadyToExecute ==
  \A c \in Compilations : Compiled(c) =>
    /\ functions[c] \in Schedules
    /\ \A x \in Operand :
         {b \in Backend : <<c, b>> \in ToSet(objects[c][x])}
           = {backendOf[o] : o \in {p \in Operation : x \in inputs[p] \cup outputs[p]}}

(* Every plan that a compilation ends with is one that Execution starts from. *)
THEOREM PlansAreReadyToExecute == Spec => []ReadyToExecute
<1>1. Inv => ReadyToExecute
  <2> SUFFICES ASSUME Inv, NEW c \in Compilations, Compiled(c)
               PROVE  /\ functions[c] \in Schedules
                      /\ \A x \in Operand :
                           {b \in Backend : <<c, b>> \in ToSet(objects[c][x])}
                             = {backendOf[o] : o \in {p \in Operation : x \in Marked(p)}}
    BY DEF ReadyToExecute, Marked
  <2>1. functions[c] \in Seq(Operation) /\ backendOf \in [Operation -> Backend]
    BY DEF Inv, TypeOK
  <2>2. functions[c] \in Schedules
    <3> DEFINE f == functions[c]
    <3>1. /\ ToSet(f) = Operation /\ IsInjective(f)
          /\ \A i, j \in DOMAIN f : f[j] \in Successors(f[i]) => i < j
      BY DEF Inv, PlanRunsTheGraph
    <3>2. DOMAIN f = 1 .. Len(f)
      BY <2>1
    <3>3. {f[i] : i \in 1 .. Len(f)} = Operation
      BY <3>1, <3>2 DEF ToSet
    <3>4. \A i, j \in 1 .. Len(f) : /\ f[i] = f[j] => i = j
                                    /\ f[j] \in Successors(f[i]) => i < j
      BY <3>1, <3>2 DEF IsInjective
    <3> QED
      BY <2>1, <3>3, <3>4, ListsAreSchedules
  <2>3. ASSUME NEW x \in Operand
        PROVE  {b \in Backend : <<c, b>> \in ToSet(objects[c][x])}
                 = {backendOf[o] : o \in {p \in Operation : x \in Marked(p)}}
    BY <2>1 DEF Inv, TensorsArePrivate
  <2> QED
    BY <2>2, <2>3
<1> QED
  BY <1>1, CompilationInvariant, PTL
=============================================================================
