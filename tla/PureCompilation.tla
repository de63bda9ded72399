-------------------------- MODULE PureCompilation --------------------------
(***************************************************************************)
(* The pure_arm_compute runtime up to a plan: the client builds a model    *)
(* through the NN API (model.cc), creates a compilation of it and finishes *)
(* that, which visits the operations, makes the tensors and the views      *)
(* among them, configures the functions and fills the constants            *)
(* (compilation.cc).  The client issues the calls of a script in order;    *)
(* those left after ANeuralNetworksModel_finish may come at any time       *)
(* between its other calls.  Operands are numbered from 1.                 *)
(*                                                                         *)
(* An assertion that fails, an exception and a missing tensor all end the  *)
(* client ("aborted").                                                     *)
(*                                                                         *)
(* Memory holds values: element at of operand of, as computed in a run,    *)
(* with left steps of its operation still to work on it; a constant comes  *)
(* from run 0.                                                             *)
(***************************************************************************)
EXTENDS PurePlanner, FiniteSets

CONSTANT Clients   \* the clients: the calls each issues to build its model
                   \* and its bounds, how often it may finish the compilation,
                   \* start a compute and call the profiler

\* The calls that build a model, with the arguments they take.
OperandType == [type : STRING, shape : Seq(Nat), scale : Int, zeroPoint : Int]
OperationCall ==
  [call : {"addOperation", "addOperationEx"}, type : STRING, ins : Seq(Nat), outs : Seq(Nat)]
Call ==
  OperationCall
    \cup [call : {"addOperand"}, type : OperandType]
    \cup [call : {"setOperandValue"}, operand : Nat, value : Seq(Int)]
    \cup [call : {"identify"}, ins : Seq(Nat), outs : Seq(Nat)]
    \cup [call : {"finish"}]

ASSUME ClientsAssumption ==
  Clients \subseteq [calls : Seq(Call), finishes : Nat, computes : Nat, switches : Nat]

VARIABLES
  bounds,      \* the client's bounds
  todo,        \* the calls of the script still to be issued
  operands, operations, inputs, outputs, \* the Model
  modelDone,   \* ANeuralNetworksModel::_isFinished
  gpu,         \* isGpuMode(), from the environment
  phase,       \* where the client is in the calls on its compilation
  finishes,    \* how often finish was called
  builder,     \* the PlanBuilder of the finish in progress
  k, stack,    \* its cursor, and the stack of the loop over the views
  objects,     \* Plan::operands(): the tensors and views
  steps,       \* Plan::operations(): the functions
  mem,         \* what each tensor holds
  changed,     \* the model was changed since finish last began (history)
  drifted      \* the operands that a broadcast laid out anew after an earlier
               \* operation was visited with them (history)

model == <<bounds, todo, operands, operations, inputs, outputs, modelDone, changed>>
plan == <<objects, steps, mem>>
compilationVars == <<model, gpu, phase, finishes, builder, k, stack, plan, drifted>>

Value(x, i, r, l) == [of |-> x, at |-> i, run |-> r, left |-> l]
Junk == Value(0, 0, 0, 0)

ScalarTypes == {"scalar"}
TensorTypes == {"float32", "int32", "quant8"}

Idle == {"none", "created", "finished"}     \* no call is in progress

NoBuilder == [infos |-> <<>>, subs |-> <<>>, fills |-> {}, stages |-> <<>>, fresh |-> {}]

CompilationInit ==
  /\ \E c \in Clients : /\ todo = c.calls
                        /\ bounds = [finishes |-> c.finishes, computes |-> c.computes,
                                     switches |-> c.switches]
  /\ operands = <<>> /\ operations = <<>> /\ inputs = <<>> /\ outputs = <<>>
  /\ modelDone = FALSE /\ changed = FALSE /\ drifted = {}
  /\ gpu \in BOOLEAN
  /\ phase = "none" /\ finishes = 0
  /\ builder = NoBuilder /\ k = 0 /\ stack = <<>>
  /\ objects = <<>> /\ steps = <<>> /\ mem = <<>>

-----------------------------------------------------------------------------
(* model.cc                                                                  *)

Issue(call) ==
  /\ phase \in Idle /\ todo # <<>> /\ Head(todo).call = call
  /\ todo' = Tail(todo)
  /\ UNCHANGED <<bounds, gpu, finishes, builder, k, stack, plan, drifted>>

\* The client goes on with its script, or is stopped by an assertion or a throw.
Goes == phase' = phase
Aborts == phase' = "aborted" /\ UNCHANGED <<operands, operations, changed>>

BadOperandType(t) ==
  \/ t.type = "quant8" /\ (t.scale <= 0 \/ t.zeroPoint \notin 0 .. 255)
  \/ t.type \in ScalarTypes /\ t.shape # <<>>

AddOperand ==
  /\ Issue("addOperand")
  /\ LET t == Head(todo).type
     IN  IF modelDone \/ BadOperandType(t)
         THEN Goes /\ UNCHANGED operands
         ELSE IF t.shape # <<>> /\ t.type \notin TensorTypes
         THEN phase' = "aborted" /\ UNCHANGED operands
         ELSE /\ Goes
              /\ operands' = Append(operands, [shape |-> t.shape, type |-> t.type,
                                               scale |-> t.scale, data |-> FALSE, value |-> <<>>])
  /\ UNCHANGED <<operations, inputs, outputs, modelDone, changed>>

\* It does not ask whether the model is finished.
SetOperandValue ==
  /\ Issue("setOperandValue")
  /\ IF Head(todo).operand \notin DOMAIN operands THEN Aborts
     ELSE /\ Goes
          /\ operands' = [operands EXCEPT ![Head(todo).operand].data = TRUE,
                                          ![Head(todo).operand].value = Head(todo).value]
          /\ changed' = TRUE
          /\ UNCHANGED operations
  /\ UNCHANGED <<inputs, outputs, modelDone>>

Emplace(c) ==
  IF ~WellFormed(c) THEN Aborts
  ELSE /\ Goes
       /\ operations' = Append(operations, NodeOf(c))
       /\ changed' = TRUE
       /\ UNCHANGED operands

\* The types of the two entry points.  The switch of addOperation has no case
\* for the other types between ADD and TRANSPOSE.
ApiTypes == DOMAIN PlainKinds \cup
  {"CONV_2D", "DEPTHWISE_CONV_2D", "MAX_POOL_2D", "AVERAGE_POOL_2D", "L2_POOL_2D",
   "CONCATENATION", "SQUEEZE", "LOCAL_RESPONSE_NORMALIZATION"}
ExTypes == DOMAIN ExKinds \cup {"SPLIT_EX"}

AddOperation ==
  /\ Issue("addOperation")
  /\ IF modelDone \/ Head(todo).type \notin ApiTypes
     THEN Goes /\ UNCHANGED <<operands, operations, changed>>
     ELSE Emplace(Head(todo))
  /\ UNCHANGED <<inputs, outputs, modelDone>>

\* It does not ask whether the model is finished either.
AddOperationEx ==
  /\ Issue("addOperationEx")
  /\ IF Head(todo).type \notin ExTypes THEN Aborts ELSE Emplace(Head(todo))
  /\ UNCHANGED <<inputs, outputs, modelDone>>

IdentifyInputsAndOutputs ==
  /\ Issue("identify")
  /\ Goes
  /\ IF modelDone THEN UNCHANGED <<inputs, outputs>>
     ELSE inputs' = inputs \o Head(todo).ins /\ outputs' = outputs \o Head(todo).outs
  /\ UNCHANGED <<operands, operations, modelDone, changed>>

FinishModel ==
  /\ Issue("finish")
  /\ Goes
  /\ modelDone' = TRUE
  /\ UNCHANGED <<operands, operations, inputs, outputs, changed>>

BuildModel ==
  \/ AddOperand \/ SetOperandValue \/ AddOperation \/ AddOperationEx
  \/ IdentifyInputsAndOutputs \/ FinishModel

-----------------------------------------------------------------------------
(* compilation.cc: finish, in the order of its loops.                        *)

CreateCompilation ==
  /\ phase = "none" /\ modelDone
  /\ phase' = "created"
  /\ UNCHANGED <<model, gpu, finishes, builder, k, stack, plan, drifted>>

StartFinish ==
  /\ phase \in {"created", "finished"} /\ finishes < bounds.finishes
  /\ phase' = "plan" /\ finishes' = finishes + 1
  /\ builder' = NoBuilder /\ k' = 1 /\ stack' = <<>>
  /\ changed' = FALSE
  /\ UNCHANGED <<bounds, todo, operands, operations, inputs, outputs, modelDone, gpu, plan,
                 drifted>>

GoTo(next) == phase' = next /\ k' = 1
Abort == phase' = "aborted" /\ k' = k

\* What finish changes besides the phase and the cursor, and what it leaves.
Leaves == UNCHANGED <<bounds, todo, operations, inputs, outputs, modelDone, changed, gpu,
                      finishes>>
Keeps == Leaves /\ UNCHANGED <<operands, drifted>>

OperandsOf(node) ==
  {node.param[r] : r \in DOMAIN node.param} \cup ToSet(node.list)

Extended(m, broadcast) ==
  LET rank == CHOOSE r \in {Rank(m, x) : x \in broadcast} :
                \A x \in broadcast : Rank(m, x) <= r
  IN  [x \in DOMAIN m |-> IF x \in broadcast
                          THEN [m[x] EXCEPT !.shape = ExtendRank(m[x].shape, rank)]
                          ELSE m[x]]

\* Two shapes lay an operand out alike.
Layout(shape) == [a \in Box(AsTensorShape(shape)) |-> ElementAt(shape, a)]
SameLayout(s, t) == Layout(s) = Layout(t)

ShapesOf(m, xs) == [x \in xs |-> m[x].shape]

\* The view of each operand, the last one when it is in several; g over f.
Over(g, f) == [x \in DOMAIN g \cup DOMAIN f |-> IF x \in DOMAIN g THEN g[x] ELSE f[x]]
Placed(views) ==
  [x \in {views[i].of : i \in DOMAIN views} |->
     views[CHOOSE i \in DOMAIN views :
             views[i].of = x /\ \A j \in DOMAIN views : views[j].of = x => j <= i]]

VisitNode ==
  /\ phase = "plan" /\ k <= Len(operations)
  /\ LET node == operations[k]
         known == OperandsOf(node) \subseteq DOMAIN operands
         visit == Accept(operands, node)
         m == Extended(operands, visit.broadcast)
         staged == [i \in DOMAIN visit.stages |->
                      [stage |-> visit.stages[i], operation |-> k,
                       seen |-> ShapesOf(m, visit.stages[i].lookups)]]
     IN  IF ~known \/ ~visit.fits THEN Abort /\ UNCHANGED <<operands, builder, drifted>>
         ELSE /\ operands' = m
              /\ drifted' = drifted \cup
                   {x \in UNION {OperandsOf(operations[i]) : i \in 1 .. k - 1} :
                      ~SameLayout(operands[x].shape, m[x].shape)}
              /\ builder' = [builder EXCEPT !.infos = Over(ShapesOf(m, visit.shapes), @),
                                            !.subs = Over(Placed(visit.views), @),
                                            !.fills = @ \cup visit.fills,
                                            !.stages = @ \o staged]
              /\ phase' = phase /\ k' = k + 1
  /\ Leaves /\ UNCHANGED <<stack, plan>>

EndVisits ==
  /\ phase = "plan" /\ k > Len(operations)
  /\ GoTo("views")
  /\ Keeps /\ UNCHANGED <<builder, stack, plan>>

IsAllocated(x) == x \in DOMAIN objects

\* setCLTensor, setNETensor
SetTensor(x) ==
  /\ objects' = Over([y \in {x} |-> [owner |-> x, at |-> <<0, 0, 0, 0>>,
                                     shape |-> builder.infos[x]]], objects)
  /\ builder' = [builder EXCEPT !.fresh = @ \cup {x}]

\* setCLSubTensor, setNESubTensor
SetSubTensor(x) ==
  LET sub == builder.subs[x]
      base == objects[sub.base]
  IN  /\ objects' = Over([y \in {x} |-> [owner |-> base.owner,
                                         at |-> Offset(base.at, sub.offset),
                                         shape |-> sub.shape]], objects)
      /\ UNCHANGED builder

InViews == phase = "views" /\ Keeps /\ UNCHANGED <<steps, mem>>

\* The keys of the map of views, in ascending order.
NextView ==
  /\ InViews /\ stack = <<>> /\ k <= Len(operands)
  /\ stack' = IF k \in DOMAIN builder.subs THEN <<k>> ELSE <<>>
  /\ k' = k + 1
  /\ UNCHANGED <<phase, builder, objects>>

\* Fault: it is not taken from the stack
SkipWithoutPop ==
  /\ InViews /\ stack # <<>> /\ IsAllocated(Last(stack))
  /\ UNCHANGED <<phase, k, stack, builder, objects>>

SkipAllocated ==
  /\ InViews /\ stack # <<>> /\ IsAllocated(Last(stack))
  /\ stack' = Front(stack)
  /\ UNCHANGED <<phase, k, builder, objects>>

OwnTensor ==
  /\ InViews /\ stack # <<>>
  /\ LET x == Last(stack)
     IN  /\ ~IsAllocated(x) /\ x \notin DOMAIN builder.subs
         /\ IF x \in DOMAIN builder.infos THEN SetTensor(x) /\ UNCHANGED <<phase, k>>
            ELSE Abort /\ UNCHANGED <<builder, objects>>
  /\ stack' = Front(stack)

PartOfBase ==
  /\ InViews /\ stack # <<>>
  /\ LET x == Last(stack)
     IN  /\ ~IsAllocated(x) /\ x \in DOMAIN builder.subs
         /\ IsAllocated(builder.subs[x].base)
         /\ SetSubTensor(x)
  /\ stack' = Front(stack)
  /\ UNCHANGED <<phase, k>>

BaseFirst ==
  /\ InViews /\ stack # <<>>
  /\ LET x == Last(stack)
     IN  /\ ~IsAllocated(x) /\ x \in DOMAIN builder.subs
         /\ ~IsAllocated(builder.subs[x].base)
         /\ stack' = Append(stack, builder.subs[x].base)
  /\ UNCHANGED <<phase, k, builder, objects>>

EndViews ==
  /\ InViews /\ stack = <<>> /\ k > Len(operands)
  /\ GoTo("tensors")
  /\ UNCHANGED <<stack, builder, objects>>

\* Fault: a tensor that exists is made again
AddEveryTensor ==
  /\ phase = "tensors"
  /\ IF k > Len(operands) THEN GoTo("stages") /\ UNCHANGED <<builder, objects>>
     ELSE /\ phase' = phase /\ k' = k + 1
          /\ IF k \in DOMAIN builder.infos
             THEN /\ objects' = [y \in DOMAIN objects \cup {k} |->
                                  IF y = k THEN [owner |-> k, at |-> <<0, 0, 0, 0>>,
                                                 shape |-> builder.infos[k]]
                                  ELSE objects[y]]
                  /\ builder' = [builder EXCEPT !.fresh = @ \cup {k}]
             ELSE UNCHANGED <<builder, objects>>
  /\ Keeps /\ UNCHANGED <<stack, steps, mem>>

AddTensor ==
  /\ phase = "tensors"
  /\ IF k > Len(operands) THEN GoTo("stages") /\ UNCHANGED <<builder, objects>>
     ELSE /\ phase' = phase /\ k' = k + 1
          /\ IF k \in DOMAIN builder.infos /\ ~IsAllocated(k) THEN SetTensor(k)
             ELSE UNCHANGED <<builder, objects>>
  /\ Keeps /\ UNCHANGED <<stack, steps, mem>>

\* A stage runs: it throws when the mode cannot do it or the activation is
\* not known.  Casting to an OpenCL tensor in NEON mode has no defined outcome.
Throwing(stage) == (stage.on = "gpu" /\ ~gpu) \/ stage.fused \notin FusedCodes
Undefined(stage) == stage.on = "cast" /\ ~gpu

\* Operand x is complete after so many steps of the stage have worked on it;
\* of a stage that begins to, the steps after step i have the rest to do.
Passes(stage, x) ==
  Cardinality({i \in DOMAIN stage.steps : x \in stage.steps[i].writes})
    + (IF stage.fused # 0 /\ x = stage.ofm THEN 1 ELSE 0)

Functions(planned) ==
  LET stage == planned.stage
      all == stage.steps \o ActivationSteps(stage)
      left(i, x) ==
        LET done == Cardinality({j \in 1 .. i : x \in all[j].writes})
        IN  IF done = 0 THEN 0 ELSE Passes(stage, x) - done
  IN  [i \in DOMAIN all |->
         [reads |-> [x \in all[i].reads |-> left(i - 1, x)],
          writes |-> [x \in all[i].writes |-> left(i, x)],
          operation |-> planned.operation,
          op_idx |-> k - 1,
          sound |-> /\ ~Undefined(stage)
                    /\ \A x \in stage.lookups :
                         SameLayout(planned.seen[x], objects[x].shape)]]

\* Fault: the functions are numbered, not the stages
RunStageNumberingSteps ==
  /\ phase = "stages" /\ k <= Len(builder.stages)
  /\ LET planned == builder.stages[k]
         stage == planned.stage
         found == stage.lookups \subseteq DOMAIN objects
         made == Functions(planned)
     IN  \/ /\ ~found \/ Throwing(stage) \/ Undefined(stage)
            /\ Abort /\ UNCHANGED steps
         \/ /\ found /\ ~Throwing(stage)
            /\ steps' = steps \o [i \in DOMAIN made |-> [made[i] EXCEPT !.op_idx = Len(steps)]]
            /\ phase' = phase /\ k' = k + 1
  /\ Keeps /\ UNCHANGED <<builder, stack, objects, mem>>

RunStage ==
  /\ phase = "stages" /\ k <= Len(builder.stages)
  /\ LET planned == builder.stages[k]
         stage == planned.stage
         found == stage.lookups \subseteq DOMAIN objects
     IN  \/ /\ ~found \/ Throwing(stage) \/ Undefined(stage)
            /\ Abort /\ UNCHANGED steps
         \/ /\ found /\ ~Throwing(stage)
            /\ steps' = steps \o Functions(planned)
            /\ phase' = phase /\ k' = k + 1
  /\ Keeps /\ UNCHANGED <<builder, stack, objects, mem>>

EndStages ==
  /\ phase = "stages" /\ k > Len(builder.stages)
  /\ GoTo("allocate")
  /\ Keeps /\ UNCHANGED <<builder, stack, plan>>

\* The tensors made by this finish, not the views, get their memory.
AllocateTensors ==
  /\ phase = "allocate"
  /\ mem' = Over([x \in builder.fresh |->
                    [a \in Box(AsTensorShape(objects[x].shape)) |-> Junk]], mem)
  /\ GoTo("fill")
  /\ Keeps /\ UNCHANGED <<builder, stack, objects, steps>>

\* Every element of operand x is set: element i to f[i].
Cells(x) == Box(AsTensorShape(objects[x].shape))
Written(store, x, f(_)) ==
  [store EXCEPT ![objects[x].owner] =
     [b \in DOMAIN @ |->
        IF \E a \in Cells(x) : Offset(objects[x].at, a) = b
        THEN f(CHOOSE a \in Cells(x) : Offset(objects[x].at, a) = b) ELSE @[b]]]

\* The init... functions go through the operand in its shape, which must be
\* the one its tensor was made with.
Filled(x, r) ==
  Written(mem, x, LAMBDA a : IF SameLayout(operands[x].shape, objects[x].shape)
                             THEN Value(x, ElementAt(operands[x].shape, a), r, 0) ELSE Junk)

FillWeights ==
  /\ phase = "fill"
  /\ CASE k > Len(operands)         -> GoTo("constants") /\ UNCHANGED mem
       [] k \in builder.fills       -> IF IsAllocated(k)
                                       THEN phase' = phase /\ k' = k + 1 /\ mem' = Filled(k, 0)
                                       ELSE Abort /\ UNCHANGED mem
       [] OTHER                     -> phase' = phase /\ k' = k + 1 /\ UNCHANGED mem
  /\ Keeps /\ UNCHANGED <<builder, stack, objects, steps>>

\* Fault: the data of a rank 4 operand is left out
FillConstantsBelowRank4 ==
  /\ phase = "constants"
  /\ IF k > Len(operands) THEN GoTo("finished") /\ UNCHANGED mem
     ELSE /\ phase' = phase /\ k' = k + 1
          /\ mem' = IF IsAllocated(k) /\ operands[k].data /\ k \notin builder.fills
                       /\ Rank(operands, k) < 4
                    THEN Filled(k, 0) ELSE mem
  /\ Keeps /\ UNCHANGED <<builder, stack, objects, steps>>

Initializable(x) ==
  /\ Rank(operands, x) <= MaxRank
  /\ operands[x].type \in (IF Rank(operands, x) = 0 THEN ScalarTypes ELSE {}) \cup TensorTypes

FillConstants ==
  /\ phase = "constants"
  /\ IF k > Len(operands) THEN GoTo("finished") /\ UNCHANGED mem
     ELSE IF IsAllocated(k) /\ operands[k].data /\ k \notin builder.fills
     THEN IF Initializable(k) THEN phase' = phase /\ k' = k + 1 /\ mem' = Filled(k, 0)
          ELSE Abort /\ UNCHANGED mem
     ELSE phase' = phase /\ k' = k + 1 /\ UNCHANGED mem
  /\ Keeps /\ UNCHANGED <<builder, stack, objects, steps>>

\* The code of finish, which runs on once it was called.
FinishStep ==
  \/ VisitNode \/ EndVisits
  \/ NextView \/ SkipAllocated \/ OwnTensor \/ PartOfBase \/ BaseFirst \/ EndViews
  \/ AddTensor \/ RunStage \/ EndStages \/ AllocateTensors \/ FillWeights \/ FillConstants

Finishing == phase \in {"plan", "views", "tensors", "stages", "allocate", "fill", "constants"}
=============================================================================
