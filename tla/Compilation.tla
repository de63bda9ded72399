---------------------------- MODULE Compilation ----------------------------
(***************************************************************************)
(* ANeuralNetworksCompilation::finish: the finished graph of a model is    *)
(* lowered onto backends, linearized, and turned into a plan, first as     *)
(* marks, shapes and stage generators, then (PlanBuilder::finalize) as     *)
(* tensors, functions and weights.                                         *)
(*                                                                         *)
(* All compilations of a model share its one Graph, whose phase and        *)
(* lowering each of them rewrites.  The calls are made one after the       *)
(* other: two at a time race on the unique_ptrs of Node and Object.        *)
(*                                                                         *)
(* A tensor builder belongs to the BackendManager that one run of          *)
(* Graph::lower creates, so it is a pair of a compilation and a backend.   *)
(* The list of operations is any that PostDfs can produce.  Weights are    *)
(* constants, as the initializer generators take for granted.              *)
(*                                                                         *)
(* Four passes name the operands of an operation, each in its own way:     *)
(* Marked, Shaped, Weights and LookedUp, by the kind of the operation.     *)
(* What is wrong with an operation's shapes, types and parameters is       *)
(* abstracted to how the code finds it out.                                *)
(***************************************************************************)
EXTENDS Dataflow, SequencesExt

CONSTANTS Compilations,   \* the compilations created from the model
          Backend,        \* the backends of BackendManager
          Models          \* the models considered

None == "none"
ASSUME NoneAssumption == None \notin Compilations \cup Backend

\* The node types.  The last two are not in Op.lst, so that BackendResolver has
\* no backend for them; only Graph::insertOperation brings them in.
Kind == {"Conv2D", "FullyConnected", "MaxPool2D", "AvgPool2D", "Concat", "Reshape",
         "Softmax", "NOP", "Permute"}
Weighted == {"Conv2D", "FullyConnected"}
Resolvable == Kind \ {"NOP", "Permute"}

ASSUME ModelsAssumption ==
  Models \subseteq [kind : [Operation -> Kind], ins : [Operation -> Seq(Operand)],
                    outputs : [Operation -> {{x} : x \in Operand}]]

VARIABLES
  kind,         \* the type of each node
  ins,          \* Node::_inputs in order; `inputs' is the set of its members
  asserts,      \* the build evaluates assert (no NDEBUG)
  resolved,     \* the operands have at most four dimensions, and the OP_BACKEND
                \* variables of the environment name backends that there are
  backendOf,    \* BackendResolver::_gen_map: the backend of each operation's type
  fault,        \* what is wrong with an operation: the planner's visit asserts
                \* against it, or throws; or the stage it makes throws; or nothing
  phase,        \* Graph::_phase
  lowered,      \* Node::_lower_info: the compilation whose backends it names
  active,       \* the compilation whose finish is running
  step,         \* the part of finish it is in
  left,         \* the operations the iteration in lower has not reached
  order,        \* Linear::_operations
  at,           \* how many of them the accept, mark or stage loop has done
  shapes,       \* PlanBuilder::_tensor_info_ctx
  initializers, \* PlanBuilder::_initializer_ctx: the backend whose generator made it
  stages,       \* PlanBuilder::_stages: operation and builder of each
  marked,       \* TensorBuilder::_inds, per builder
  tensors,      \* TensorBuilder::_tensors, per builder
  allocated,    \* the builders whose tensors have memory
  objects,      \* Plan::_operands: the builders of an operand's objects, in order
  functions,    \* Plan::_ops: the operations
  filled,       \* the tensors that hold their weights, and in which backend's layout
  result        \* how the finish of each compilation ended

model == <<inputs, outputs, kind, ins, asserts, resolved, backendOf, fault>>
builder == <<shapes, initializers, stages>>
plan == <<marked, tensors, allocated, objects, functions, filled>>
vars == <<model, phase, lowered, active, step, left, order, at, builder, plan, result>>

Builder == Compilations \X Backend

\* The node types keep three inputs, one, or (Concat) all but the axis.
WellFormed(o) ==
  /\ kind[o] \in Weighted => Len(ins[o]) = 3
  /\ kind[o] \notin Weighted \cup {"Concat"} => Len(ins[o]) = 1

\* Linear::markTensors: all the operands a node keeps.
Marked(o) == inputs[o] \cup outputs[o]

\* A fault that a property below excludes: no shape for the bias.
ShapedWithoutBias(o) ==
  outputs[o] \cup CASE kind[o] \in Weighted  -> {ins[o][1], ins[o][2]}
                    [] kind[o] = "Concat"    -> ToSet(ins[o])
                    [] OTHER                 -> {ins[o][1]}

\* The operands that Planner::visit gives shapes to, input by input.
Shaped(o) ==
  outputs[o] \cup CASE kind[o] \in Weighted  -> {ins[o][1], ins[o][2], ins[o][3]}
                    [] kind[o] = "Concat"    -> ToSet(ins[o])
                    [] OTHER                 -> {ins[o][1]}

\* Those it adds initializers for: kernel or weight, and bias.
Weights(o) == IF kind[o] \in Weighted THEN {ins[o][2], ins[o][3]} ELSE {}

\* Those a stage captures and later asks its tensor builder for.
LookedUp(o) ==
  {ins[o][i] : i \in IF kind[o] \in Weighted THEN 1 .. 3
                     ELSE IF kind[o] = "Concat" THEN DOMAIN ins[o] ELSE {1}}
    \cup outputs[o]

Steps == {"lower", "linearize", "mark", "plan", "prepare", "stages", "allocate", "fill"}

TypeOK ==
  /\ GraphTypeOK
  /\ kind \in [Operation -> Kind]
  /\ ins \in [Operation -> Seq(Operand)]
  /\ asserts \in BOOLEAN /\ resolved \in BOOLEAN
  /\ backendOf \in [Operation -> Backend]
  /\ fault \in [Operation -> {None, "assert", "throw", "stage"}]
  /\ phase \in {"MODEL", "LOWERED", "LINEARIZED"}
  /\ lowered \in [Operation -> Compilations \cup {None}]
  /\ active \in Compilations \cup {None}
  /\ step \in Steps \cup {None}
  /\ left \subseteq Operation
  /\ order \in Seq(Operation)
  /\ at \in 0 .. Len(order)
  /\ shapes \subseteq Operand
  /\ initializers \in [Operand -> Backend \cup {None}]
  /\ stages \in Seq(Operation \X Builder)
  /\ marked \in [Builder -> SUBSET Operand]
  /\ tensors \in [Builder -> SUBSET Operand]
  /\ allocated \subseteq Builder
  /\ objects \in [Compilations -> [Operand -> Seq(Builder)]]
  /\ functions \in [Compilations -> Seq(Operation)]
  /\ filled \in [Compilations -> SUBSET (Operand \X Builder \X Backend)]
  /\ result \in [Compilations -> {None, "ok", "threw", "aborted"}]

\* A model that finishBuilding accepted: acyclic, every operand written by at
\* most one operation, weights written by none.
ModelInit ==
  /\ \E m \in Models : kind = m.kind /\ ins = m.ins /\ outputs = m.outputs
  /\ inputs = [o \in Operation |-> ToSet(ins[o])]
  /\ Acyclic
  /\ \A o \in Operation : WellFormed(o)
  /\ \A o, p \in Operation : outputs[o] \cap outputs[p] # {} => o = p
  /\ \A o, p \in Operation : Weights(o) \cap outputs[p] = {}
  /\ asserts \in BOOLEAN /\ resolved \in BOOLEAN
  /\ backendOf \in [Operation -> Backend]
  /\ fault \in [Operation -> {None, "assert", "throw", "stage"}]

Init ==
  /\ ModelInit
  /\ phase = "MODEL"
  /\ lowered = [o \in Operation |-> None]
  /\ active = None /\ step = None
  /\ left = {} /\ order = <<>> /\ at = 0
  /\ shapes = {} /\ initializers = [x \in Operand |-> None] /\ stages = <<>>
  /\ marked = [b \in Builder |-> {}] /\ tensors = marked /\ allocated = {}
  /\ objects = [c \in Compilations |-> [x \in Operand |-> <<>>]]
  /\ functions = [c \in Compilations |-> <<>>]
  /\ filled = [c \in Compilations |-> {}]
  /\ result = [c \in Compilations |-> None]

-----------------------------------------------------------------------------
\* The builder an operation's LowerInfo leads to.
BuilderOf(o) == <<lowered[o], backendOf[o]>>

\* TensorBuilderSet: what markTensors returns.
TensorBuilders == {BuilderOf(o) : o \in Operation}

Fail(how) ==
  /\ result' = [result EXCEPT ![active] = how]
  /\ active' = None /\ step' = None
  /\ UNCHANGED <<model, phase, lowered, left, order, at, builder, plan>>

\* Graph::lower begins.  An assertion that fails ends the process; asShape4D
\* throws for an operand of more dimensions, BackendManager::get for a name.
StartFinish(c) ==
  /\ active = None /\ result[c] = None
  /\ \A d \in Compilations : result[d] # "aborted"
  /\ \/ /\ asserts /\ phase # "MODEL"
        /\ result' = [result EXCEPT ![c] = "aborted"]
        /\ UNCHANGED <<active, step, left>>
     \/ /\ ~(asserts /\ phase # "MODEL") /\ ~resolved
        /\ result' = [result EXCEPT ![c] = "threw"]
        /\ UNCHANGED <<active, step, left>>
     \/ /\ ~(asserts /\ phase # "MODEL") /\ resolved
        /\ active' = c /\ step' = "lower" /\ left' = Operation
        /\ UNCHANGED result
  /\ UNCHANGED <<model, phase, lowered, order, at, builder, plan>>

\* A fault that a property below excludes: the LowerInfo names the backend only.
LowerToBackend(o) ==
  /\ step = "lower" /\ o \in left /\ kind[o] \in Resolvable
  /\ left' = left \ {o}
  /\ lowered' = [lowered EXCEPT ![o] = backendOf[o]]
  /\ UNCHANGED <<model, phase, active, step, order, at, builder, plan, result>>

\* The operation gets a LowerInfo with a backend of the resolver of this run.
LowerOperation(o) ==
  /\ step = "lower" /\ o \in left /\ kind[o] \in Resolvable
  /\ left' = left \ {o}
  /\ lowered' = [lowered EXCEPT ![o] = active]
  /\ UNCHANGED <<model, phase, active, step, order, at, builder, plan, result>>

\* Without a backend the layouts are asked of a config that is a null pointer,
\* which ends the process: Planner's "NYI" for Permute is never reached.
LowerUnresolved ==
  /\ step = "lower" /\ \E o \in left : kind[o] \notin Resolvable
  /\ Fail("aborted")

EndLower ==
  /\ step = "lower" /\ left = {}
  /\ phase' = "LOWERED" /\ step' = "linearize"
  /\ UNCHANGED <<model, lowered, active, left, order, at, builder, plan, result>>

\* linearize, and the PlanBuilder of this run.  Without an operation there is
\* no builder either, and none of the loops up to AllocateTensors has a turn.
Linearize ==
  /\ step = "linearize"
  /\ order' \in Schedules
  /\ step' = IF order' = <<>> THEN "allocate" ELSE "mark"
  /\ phase' = "LINEARIZED" /\ at' = 0
  /\ shapes' = {} /\ initializers' = [x \in Operand |-> None] /\ stages' = <<>>
  /\ UNCHANGED <<model, lowered, active, left, plan, result>>
-----------------------------------------------------------------------------
\* The loops over the list; a stage loop visits the list through `stages'.
Current == order[at + 1]
Advance(following) ==
  IF at + 1 < Len(order) THEN at' = at + 1 /\ UNCHANGED step
                         ELSE at' = 0 /\ step' = following

\* Linear::markTensors.
MarkTensors ==
  /\ step = "mark"
  /\ LET b == BuilderOf(Current) IN
       IF asserts /\ tensors[b] # {} THEN Fail("aborted")
       ELSE /\ marked' = [marked EXCEPT ![b] = @ \cup Marked(Current)]
            /\ Advance("plan")
            /\ UNCHANGED <<model, phase, lowered, active, left, order, builder,
                           tensors, allocated, objects, functions, filled, result>>

\* A fault: a stage is put before the others.
AddStageFirst(o) == stages' = <<<<o, BuilderOf(o)>>>> \o stages

\* A stage captures its backend's tensor builder.
AddStage(o) == stages' = Append(stages, <<o, BuilderOf(o)>>)

\* The visit finds a rank, size, type or parameter it does not take.  Without
\* its assertions it may still throw where a dimension is missing (Shape::dim).
Refuse ==
  /\ step = "plan"
  /\ \/ fault[Current] = "assert" /\ asserts /\ Fail("aborted")
     \/ fault[Current] = "assert" /\ ~asserts /\ Fail("threw")
     \/ fault[Current] = "throw" /\ Fail("threw")

\* Planner::visit: shapes, initializers, over any that an earlier operation
\* left for the same operands, and a stage.
PlanOperation ==
  /\ step = "plan"
  /\ fault[Current] # "throw" /\ ~(fault[Current] = "assert" /\ asserts)
  /\ shapes' = shapes \cup Shaped(Current)
  /\ initializers' = [x \in Operand |-> IF x \in Weights(Current) THEN backendOf[Current]
                                       ELSE initializers[x]]
  /\ AddStage(Current)
  /\ Advance("prepare")
  /\ UNCHANGED <<model, phase, lowered, active, left, order, plan, result>>

\* Faults: a builder enters objects for operands it was not asked to build; the
\* loop over the builders does not end.
PrepareEveryShape(b) ==
  /\ step = "prepare" /\ b \in TensorBuilders /\ tensors[b] = {}
  /\ tensors' = [tensors EXCEPT ![b] = shapes]
  /\ objects' = [objects EXCEPT ![active] =
       [x \in Operand |-> IF x \in shapes THEN Append(@[x], b) ELSE @[x]]]
  /\ step' = IF \E d \in TensorBuilders \ {b} : tensors[d] = {} THEN step ELSE "stages"
  /\ UNCHANGED <<model, phase, lowered, active, left, order, at, builder,
                 marked, allocated, functions, filled, result>>

PrepareForever(b) ==
  /\ step = "prepare" /\ b \in TensorBuilders /\ tensors[b] = {}
  /\ tensors' = [tensors EXCEPT ![b] = marked[b]]
  /\ objects' = [objects EXCEPT ![active] =
       [x \in Operand |-> IF x \in marked[b] THEN Append(@[x], b) ELSE @[x]]]
  /\ step' = IF \E d \in TensorBuilders : tensors[d] = {} THEN step ELSE "stages"
  /\ UNCHANGED <<model, phase, lowered, active, left, order, at, builder,
                 marked, allocated, functions, filled, result>>

\* TensorBuilder::prepare, for one builder of the set.
PrepareTensors(b) ==
  /\ step = "prepare" /\ b \in TensorBuilders /\ tensors[b] = {}
  /\ IF ~(marked[b] \subseteq shapes) THEN Fail("threw")
     ELSE /\ tensors' = [tensors EXCEPT ![b] = marked[b]]
          /\ objects' = [objects EXCEPT ![active] =
               [x \in Operand |-> IF x \in marked[b] THEN Append(@[x], b) ELSE @[x]]]
          /\ step' = IF \E d \in TensorBuilders \ {b} : tensors[d] = {}
                     THEN step ELSE "stages"
          /\ UNCHANGED <<model, phase, lowered, active, left, order, at, builder,
                         marked, allocated, functions, filled, result>>

\* A stage looks its tensors up in the builder it captured, and throws for an
\* activation that its backend does not have.
RunStage ==
  /\ step = "stages"
  /\ LET o == stages[at + 1][1]
         b == stages[at + 1][2]
     IN IF ~(LookedUp(o) \subseteq tensors[b]) \/ fault[o] = "stage" THEN Fail("threw")
        ELSE /\ functions' = [functions EXCEPT ![active] = Append(@, o)]
             /\ Advance("allocate")
             /\ UNCHANGED <<model, phase, lowered, active, left, order, builder,
                            marked, tensors, allocated, objects, filled, result>>

AllocateTensors ==
  /\ step = "allocate"
  /\ allocated' = allocated \cup TensorBuilders
  /\ step' = "fill"
  /\ UNCHANGED <<model, phase, lowered, active, left, order, at, builder,
                 marked, tensors, objects, functions, filled, result>>

\* A fault: only the first object of an operand is filled.
FillFirstObject ==
  /\ step = "fill"
  /\ filled' = [filled EXCEPT ![active] = @ \cup
       {<<x, Head(objects[active][x]), initializers[x]>> :
          x \in {y \in Operand : initializers[y] # None}}]
  /\ result' = [result EXCEPT ![active] = "ok"]
  /\ active' = None /\ step' = None
  /\ UNCHANGED <<model, phase, lowered, left, order, at, builder,
                 marked, tensors, allocated, objects, functions>>

\* The weights, in every object of their operand and all in the layout of the
\* one initializer; then finish returns.
FillWeights ==
  /\ step = "fill"
  /\ filled' = [filled EXCEPT ![active] = @ \cup
       {t \in Operand \X allocated \X Backend : /\ t[2] \in ToSet(objects[active][t[1]])
                                                /\ t[3] = initializers[t[1]]}]
  /\ result' = [result EXCEPT ![active] = "ok"]
  /\ active' = None /\ step' = None
  /\ UNCHANGED <<model, phase, lowered, left, order, at, builder,
                 marked, tensors, allocated, objects, functions>>

Next ==
  \/ \E c \in Compilations : StartFinish(c)
  \/ \E o \in Operation : LowerOperation(o)
  \/ LowerUnresolved \/ EndLower \/ Linearize \/ MarkTensors \/ Refuse \/ PlanOperation
  \/ \E b \in Builder : PrepareTensors(b)
  \/ RunStage \/ AllocateTensors \/ FillWeights

\* A call that has started runs on: WF of the steps inside finish.
Spec == Init /\ [][Next]_vars
FairSpec == Spec /\ WF_vars(active # None /\ Next)

-----------------------------------------------------------------------------
Compiled(c) == result[c] = "ok"

\* The backends know the kinds of its operations, and neither the planner nor a
\* stage finds anything wrong with one of them.
Accepted ==
  resolved /\ \A o \in Operation : kind[o] \in Resolvable /\ fault[o] = None

\* Of a model that is accepted operation by operation, a first compilation
\* succeeds: every tensor that prepare makes has a shape and every stage finds
\* the tensors it asks its own backend's builder for, although marks, shapes
\* and look-ups are made in three places that name the operands each in its own
\* way (Linear.cc:52-70, Planner.cc, StageGenerator.cc).  A later compilation
\* never throws, and aborts only where assertions are evaluated.
AcceptedModelsCompile ==
  \A c \in Compilations : Accepted =>
    /\ result[c] # "threw"
    /\ result[c] = "aborted" => asserts /\ \E d \in Compilations \ {c} : Compiled(d)

\* A plan runs every operation once, after those whose outputs it reads.
PlanRunsTheGraph ==
  \A c \in Compilations : Compiled(c) =>
    LET f == functions[c] IN
      /\ ToSet(f) = Operation /\ IsInjective(f)
      /\ \A i, j \in DOMAIN f : f[j] \in Successors(f[i]) => i < j

\* An operand has one tensor, listed once, for each backend that works on it,
\* and all of them are the compilation's own: no plan shares memory with
\* another (PlanBuilder.cc:41-44, TensorBuilder.cc:42-56).
TensorsArePrivate ==
  \A c \in Compilations, x \in Operand : Compiled(c) =>
    /\ IsInjective(objects[c][x])
    /\ ToSet(objects[c][x]) = {<<c, backendOf[o]>> : o \in {p \in Operation : x \in Marked(p)}}

\* The tensor an operation reads a weight from holds it, in the layout of the
\* operation's backend, unless operations of several backends read the weight
\* (PlanBuilder.cc:62-71; the one initializer then fills the tensors of all).
WeightsAreFilled ==
  \A c \in Compilations, o \in Operation : Compiled(c) =>
    \A x \in Weights(o) :
      (\A p \in Operation : x \in Weights(p) => backendOf[p] = backendOf[o])
        => <<x, <<c, backendOf[o]>>, backendOf[o]>> \in filled[c]

\* finish returns, or fails, whatever the backends and the order.
FinishEnds == \A c \in Compilations : active = c ~> result[c] # None

\* What NeuralNetworks.h:1842-1843 promises of a finished model: "It is however
\* safe for more than one thread to use the model".  Each compiles it once, and
\* nothing is wrong with it.
ModelMayBeReused == Accepted => \A c \in Compilations : result[c] # "aborted"
=============================================================================
