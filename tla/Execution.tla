----------------------------- MODULE Execution -----------------------------
(***************************************************************************)
(* ANeuralNetworksExecution_startCompute on the calling thread: push the   *)
(* sources into the tensors of the plan, run its functions, pull the sinks *)
(* out of its tensors.  The tensors belong to the plan, so that all its    *)
(* executions share them, and the kernels of the CPU backend's convolution *)
(* share one scratch buffer across all plans.  No lock is taken.           *)
(*                                                                         *)
(* What a buffer holds is abstracted to where it comes from: the set of    *)
(* the executions whose inputs it was computed from, with Garbage in it if *)
(* memory that nobody wrote had a part in it.  A weight comes from nobody; *)
(* a constant that the planner made no initializer for is such memory.     *)
(* An execution is started once, with every source and sink set.           *)
(***************************************************************************)
EXTENDS Dataflow, SequencesExt

CONSTANTS Executions,   \* the executions, each started by a thread of its own
          Plan,         \* the plans they were created from, of the same model
          Backend, Cpu, \* the backends; the one with the convolution kernel
          Models        \* the models considered, with their input and output lists

Garbage == "garbage"
ASSUME ExecutionAssumption ==
  Cpu \in Backend /\ IsFiniteSet(Backend) /\ Garbage \notin Executions

ASSUME ModelsAssumption ==
  Models \subseteq [inputs : [Operation -> SUBSET Operand],
                    outputs : [Operation -> SUBSET Operand],
                    modelIns : Seq(Operand), modelOuts : Seq(Operand),
                    weights : SUBSET Operand]

VARIABLES
  modelIns, modelOuts,  \* Graph::_inputs and Graph::_outputs
  weights,      \* the operands with an initializer: the constants that are the
                \* kernel, weight or bias of a convolution or a fully connected layer
  backendOf,    \* the backend each operation was lowered to
  convolutions, \* the operations that go through im2col in the static buffer
                \* (need_im2col, and at most kStaticBufferSize bytes)
  failing,      \* the operations whose function may give up: an im2col buffer of
                \* 2 GB or that the allocator has no memory for, another rank or
                \* input type than the kernel's
  planOf,       \* the plan of each execution
  order,        \* Plan::_ops, as operations
  pullOrder,    \* the order of the builders in a TensorBuilderSet
  buffer,       \* the tensors of each plan, operand and backend
  scratch,      \* static_scratch_buffer
  at,           \* how far each execution is in the loop it is in
  sinks,        \* what the sinks of each execution were given
  stage,        \* the part of startCompute each execution is in
  met,          \* the executions that were running while each was (history)
  lost          \* those one of whose functions wrote nothing (history)

model == <<inputs, outputs, modelIns, modelOuts, weights, backendOf, convolutions,
           failing, planOf, order, pullOrder>>
vars == <<model, buffer, scratch, at, sinks, stage, met, lost>>

Origin == SUBSET (Executions \cup {Garbage})

TypeOK ==
  /\ GraphTypeOK
  /\ modelIns \in Seq(Operand) /\ modelOuts \in Seq(Operand)
  /\ weights \subseteq Operand
  /\ backendOf \in [Operation -> Backend]
  /\ convolutions \subseteq Operation /\ failing \subseteq Operation
  /\ planOf \in [Executions -> Plan]
  /\ order \in Seq(Operation)
  /\ pullOrder \in Seq(Backend)
  /\ buffer \in [Plan -> [Operand \X Backend -> Origin]]
  /\ scratch \in Origin
  /\ at \in [Executions -> Nat]
  /\ sinks \in [Executions -> [Operand -> Origin]]
  /\ stage \in [Executions -> {"ready", "push", "run", "gemm", "pull", "done", "threw"}]
  /\ met \in [Executions -> SUBSET Executions]
  /\ lost \subseteq Executions

\* The backends that have a tensor for the operand (PrepareTensors of Compilation).
ObjectsOf(x) == {backendOf[o] : o \in {p \in Operation : x \in inputs[p] \cup outputs[p]}}

\* The first and the last of them in the order of the builders.
FirstObject(x) == pullOrder[Min({i \in DOMAIN pullOrder : pullOrder[i] \in ObjectsOf(x)})]
LastObject(x) == pullOrder[Max({i \in DOMAIN pullOrder : pullOrder[i] \in ObjectsOf(x)})]

\* The operands that are neither model inputs nor written.
Constant == Operand \ (ToSet(modelIns) \cup UNION {outputs[o] : o \in Operation})

Init ==
  /\ \E m \in Models : /\ inputs = m.inputs /\ outputs = m.outputs
                       /\ modelIns = m.modelIns /\ modelOuts = m.modelOuts
                       /\ weights = m.weights
  /\ weights \subseteq Constant
  /\ backendOf \in [Operation -> Backend]
  /\ convolutions \in SUBSET {o \in Operation : backendOf[o] = Cpu}
  /\ failing \in SUBSET {o \in Operation : backendOf[o] = Cpu /\ o \notin convolutions}
  /\ planOf \in [Executions -> Plan]
  /\ order \in Schedules
  /\ pullOrder \in SetToSeqs(Backend)
  /\ buffer = [p \in Plan |-> [xb \in Operand \X Backend |->
                                 IF xb[1] \in weights THEN {} ELSE {Garbage}]]
  /\ scratch = {Garbage}
  /\ at = [e \in Executions |-> 0]
  /\ sinks = [e \in Executions |-> [x \in Operand |-> {Garbage}]]
  /\ stage = [e \in Executions |-> "ready"]
  /\ met = [e \in Executions |-> {}]
  /\ lost = {}

-----------------------------------------------------------------------------
Running == {e \in Executions : stage[e] \in {"push", "run", "gemm", "pull"}}

StartCompute(e) ==
  /\ stage[e] = "ready"
  /\ stage' = [stage EXCEPT ![e] = "push"]
  /\ met' = [f \in Executions |-> IF f = e THEN Running
                                  ELSE IF f \in Running THEN met[f] \cup {e} ELSE met[f]]
  /\ UNCHANGED <<model, buffer, scratch, at, sinks, lost>>

\* Plan::_operands.at throws: no operation works on the operand.
Missing(e, xs) == at[e] < Len(xs) /\ ObjectsOf(xs[at[e] + 1]) = {}

OperandMissing(e) ==
  /\ \/ stage[e] = "push" /\ Missing(e, modelIns)
     \/ stage[e] = "pull" /\ Missing(e, modelOuts)
  /\ stage' = [stage EXCEPT ![e] = "threw"]
  /\ UNCHANGED <<model, buffer, scratch, at, sinks, met, lost>>

\* A fault that a property below excludes: the loop counts down.
StepBack(e) == at' = [at EXCEPT ![e] = @ - 1] /\ UNCHANGED stage

\* The loop of e goes on with its next element, or e with its next loop.
Step(e) == at' = [at EXCEPT ![e] = @ + 1] /\ UNCHANGED stage
Leave(e, following) == at' = [at EXCEPT ![e] = 0] /\ stage' = [stage EXCEPT ![e] = following]

\* A fault: only the first object of an input is written.
PushFirstObject(e) ==
  /\ stage[e] = "push"
  /\ IF at[e] = Len(modelIns) THEN Leave(e, "run") /\ UNCHANGED buffer
     ELSE LET x == modelIns[at[e] + 1] IN
            /\ ObjectsOf(x) # {}
            /\ buffer' = [buffer EXCEPT ![planOf[e]][<<x, FirstObject(x)>>] = {e}]
            /\ Step(e)
  /\ UNCHANGED <<model, scratch, sinks, met, lost>>

\* source(n).push, into every object of the n-th input.
PushInput(e) ==
  /\ stage[e] = "push"
  /\ IF at[e] = Len(modelIns) THEN Leave(e, "run") /\ UNCHANGED buffer
     ELSE LET x == modelIns[at[e] + 1] IN
            /\ ObjectsOf(x) # {}
            /\ buffer' = [buffer EXCEPT ![planOf[e]] =
                 [xb \in DOMAIN @ |-> IF xb[1] = x /\ xb[2] \in ObjectsOf(x)
                                      THEN {e} ELSE @[xb]]]
            /\ Step(e)
  /\ UNCHANGED <<model, scratch, sinks, met, lost>>

\* What o reads in its own backend's tensors of e's plan, and what it writes.
ReadInputs(e, o) == UNION {buffer[planOf[e]][<<x, backendOf[o]>>] : x \in inputs[o]}
WriteOutputs(e, o, origin) ==
  buffer' = [buffer EXCEPT ![planOf[e]] =
    [xb \in DOMAIN @ |-> IF xb[1] \in outputs[o] /\ xb[2] = backendOf[o]
                         THEN origin ELSE @[xb]]]

RunFunction(e) ==
  /\ stage[e] = "run" /\ at[e] < Len(order)
  /\ LET o == order[at[e] + 1] IN
       /\ o \notin convolutions
       /\ WriteOutputs(e, o, ReadInputs(e, o))
  /\ Step(e)
  /\ UNCHANGED <<model, scratch, sinks, met, lost>>

\* The function gives up before it writes, and run drops what it returned.
LoseFunction(e) ==
  /\ stage[e] = "run" /\ at[e] < Len(order)
  /\ order[at[e] + 1] \in failing
  /\ lost' = lost \cup {e}
  /\ Step(e)
  /\ UNCHANGED <<model, buffer, scratch, sinks, met>>

\* Or it throws, out of startCompute.
ThrowFunction(e) ==
  /\ stage[e] = "run" /\ at[e] < Len(order)
  /\ order[at[e] + 1] \in failing
  /\ stage' = [stage EXCEPT ![e] = "threw"]
  /\ UNCHANGED <<model, buffer, scratch, at, sinks, met, lost>>

\* convFloat32: im2col into the scratch buffer, then the product of it.
Im2col(e) ==
  /\ stage[e] = "run" /\ at[e] < Len(order)
  /\ LET o == order[at[e] + 1] IN
       /\ o \in convolutions
       /\ scratch' = ReadInputs(e, o)
  /\ stage' = [stage EXCEPT ![e] = "gemm"]
  /\ UNCHANGED <<model, buffer, at, sinks, met, lost>>

\* A fault: the convolution is run over and over.
GemmAgain(e) ==
  /\ stage[e] = "gemm"
  /\ WriteOutputs(e, order[at[e] + 1], scratch)
  /\ stage' = [stage EXCEPT ![e] = "run"]
  /\ UNCHANGED <<model, scratch, at, sinks, met, lost>>

Gemm(e) ==
  /\ stage[e] = "gemm"
  /\ WriteOutputs(e, order[at[e] + 1], scratch)
  /\ stage' = [stage EXCEPT ![e] = "run"]
  /\ at' = [at EXCEPT ![e] = @ + 1]
  /\ UNCHANGED <<model, scratch, sinks, met, lost>>

EndRun(e) ==
  /\ stage[e] = "run" /\ at[e] = Len(order)
  /\ Leave(e, "pull")
  /\ UNCHANGED <<model, buffer, scratch, sinks, met, lost>>

\* sink(n).pull, from every object of the n-th output: the last one stays.
PullOutput(e) ==
  /\ stage[e] = "pull"
  /\ IF at[e] = Len(modelOuts) THEN Leave(e, "done") /\ UNCHANGED sinks
     ELSE LET x == modelOuts[at[e] + 1] IN
            /\ ObjectsOf(x) # {}
            /\ sinks' = [sinks EXCEPT ![e][x] = buffer[planOf[e]][<<x, LastObject(x)>>]]
            /\ Step(e)
  /\ UNCHANGED <<model, buffer, scratch, met, lost>>

Compute(e) ==
  OperandMissing(e) \/ PushInput(e) \/ RunFunction(e) \/ LoseFunction(e)
    \/ ThrowFunction(e) \/ Im2col(e) \/ Gemm(e) \/ EndRun(e) \/ PullOutput(e)

Next == \E e \in Executions : StartCompute(e) \/ Compute(e)

\* Each call runs on its own thread until it returns: WF of its steps.
Spec == Init /\ [][Next]_vars
FairSpec == Spec /\ \A e \in Executions : WF_vars(Compute(e))

-----------------------------------------------------------------------------
\* The outputs of e were computed from the inputs of e, of no other execution,
\* and from memory that was written.
OutputsAreOwn(e) ==
  stage[e] = "done" => \A x \in ToSet(modelOuts) : sinks[e][x] \subseteq {e}

\* Every operation reads what it reads on the backend that wrote it.
BackendsAgree ==
  \A o, p \in Operation : outputs[o] \cap inputs[p] # {} => backendOf[o] = backendOf[p]

\* Every constant that is read has an initializer.
ConstantsAreFilled == \A o \in Operation : inputs[o] \cap Constant \subseteq weights

\* e overlapped an execution of its own plan, or one that also convolves.
Disturbed(e) == \E f \in met[e] : planOf[f] = planOf[e] \/ convolutions # {}

\* An execution that met no other on its plan or in the scratch buffer is
\* right, after any number of others on the same tensors, even of some that
\* threw or lost a function: none of their data, and nothing stale, reaches its
\* outputs (execution.cc:145-203).  Not so where one of its own functions gave
\* up, as ConvolutionLayer.cc:189 keeps to itself, where an operand is written
\* on one backend and read on another, or where a constant was never filled.
UndisturbedIsRight ==
  BackendsAgree /\ ConstantsAreFilled =>
    \A e \in Executions : ~Disturbed(e) /\ e \notin lost => OutputsAreOwn(e)

\* An execution that started returns, or throws, whatever the others do.
ComputeEnds == \A e \in Executions : stage[e] = "push" ~> stage[e] \in {"done", "threw"}

\* NeuralNetworks.h:2535: "Multiple executions can be scheduled and evaluated
\* concurrently."  (On one backend, with every constant filled, without the scratch
\* buffer and without functions that give up.)
ConcurrentIsRight ==
  BackendsAgree /\ ConstantsAreFilled /\ convolutions = {} /\ failing = {} =>
    \A e \in Executions : OutputsAreOwn(e)

\* ConvolutionLayer.cc:145: "Prevent concurrent executions that may access the
\* scratch buffer".  An execution that has filled it finds it as it left it.
ScratchIsKept ==
  [][\A e \in Executions : stage[e] = "gemm" /\ stage'[e] = "gemm" => scratch' = scratch]_vars

\* 2018_high_level_design.md:63-66: the planner decides on the backend
\* "depending on operations", and inference finishes "on CPU or GPU (or on
\* both)".  Executions one after the other, under the same conditions.
MixedBackendsAreRight ==
  ConstantsAreFilled /\ convolutions = {} /\ failing = {} =>
    \A e \in Executions : met[e] = {} => OutputsAreOwn(e)
=============================================================================
