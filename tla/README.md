# Tizen NN runtimes: a TLA+ verification project

This directory holds a formal model of the two NN API runtimes of this
repository and of what they compute with: **neurun**
(`src/newnnfw/runtimes/neurun`), **pure_arm_compute**
(`src/newnnfw/runtimes/pure_arm_compute`, "PAC" below), the OpenCL functions of
**ARMComputeEx** (`src/newnnfw/libs/ARMComputeEx`) and the profile buffer
(`src/newnnfw/include/util/profiling`): how a model is built, checked for cycles,
scheduled, compiled onto tensors and functions, executed, profiled, and what the
functions write into their tensors. TLC checks the modules on small instances;
TLAPS proves, for models, graphs and clients of any size, what the graph traversals,
the building of a model, neurun's compilation and execution, the profile buffer and
PAC's compilation promise, and that the three ways of `TOPK_V2`, with its parallel radix
sort, give the top k (section 4).

Paths below are relative to `src/newnnfw`; those of neurun to
`src/newnnfw/runtimes/neurun/src`.

## 1. The system

An application drives a runtime through the C functions of
`include/NeuralNetworks.h`. A call sequence is: build an
`ANeuralNetworksModel`, `finish` it, create an `ANeuralNetworksCompilation` from
it and `finish` that, create `ANeuralNetworksExecution`s from the compilation,
set their inputs and outputs and `startCompute` each. Both runtimes export the same
functions; an application links one of them. Everything runs on the
calling thread; the runtimes have no threads of their own in this path and, but for
one mutex in a kernel, no locks. The OpenCL kernels run on the device, in the order of
one command queue, each as many work items at a time.

| Component | State it keeps | Operations | Interacts with | Hard behaviour |
|---|---|---|---|---|
| Model building (`frontend/model.cc`, `graph/operand`) | operand set, usage and data of each operand, operation set, model inputs and outputs, phase | addOperand, setOperandValue(FromMemory), addOperation(Ex), identifyInputsAndOutputs, finish | owns the `graph::Graph` | calls that fail half-way leave their marks; assertions are only in debug builds |
| Dataflow graph (`graph/Graph.cc`, `graph/operation`) | operand lists of each node, use and definition lists of each operand | initializeUseDef, insertOperation, iterate | read by verifier, scheduler, planner | three copies of one relation (node lists, uses, defs) kept in step by hand |
| Cycle check (`graph/verifier/IVerifier.cc`) | visited and on_stack flags, verdict | verify | called by finishBuilding and lower, which both drop its verdict | recursion in hash order with early returns |
| Scheduler (`Graph::PostDfsIterator`, `linear/Linear.cc`) | visited flags, operation list | the Linear constructor, accept, markTensors | called by compilation | order depends on hash order; cyclic graphs reach it |
| Compilation (`frontend/wrapper/compilation.cc`, `codegen`, `backend/*/TensorBuilder.cc`) | lowering of each node, marks, shapes, initializers, stages, tensors, functions | lower, linearize, mark, plan, finalize | shares the model's graph with other compilations; owns a `Plan` | marks, shapes, initializers and look-ups name the operands in four places that must agree; visits assert or throw half-way; a second compilation finds the graph changed |
| Execution (`frontend/execution.cc`, `exec`) | sources and sinks; the tensors are the plan's | create, setInput, setOutput, startCompute, free | shares the plan's tensors with other executions | concurrent calls on shared tensors without a lock; functions that give up or throw half-way |
| CPU convolution (`kernel/cpu/ConvolutionLayer.cc`) | a static scratch buffer of the process | configure, run | called by the plan's functions | the buffer is shared by all plans; the lock is on the variant that is never run |
| Stages, initializers, layers, sources and sinks (`codegen`, `backend`, `kernel`, `exec`, `internal`) | tensors, parameters of the functions, weights | plan, stage, fill, push, run, pull | between the client's NHWC buffers and the backend's layout | layouts, padded rows, paddings of windows, weights freed too early |
| Events (`event.cc`) | none | wait | | |
| PAC: model (`runtimes/pure_arm_compute/src/model.cc`, `internal/op`) | operands, operations with the operand in each role | the model calls | read by compilation and execution at any later time | calls are not refused on a finished model |
| PAC: compilation (`compilation.cc`) | constraints, initializers, stages, tensors, views, steps | `Planner::visit` of each of 45 kinds of operation, finalize | writes the shapes of the model in a broadcast | each visit names its operands twice, before and after the tensors exist; views of views |
| PAC: execution (`execution.cc`, `internal/Sinks.h`, `internal/*Source.h`) | sources, sinks; the tensors are the plan's | create, set, startCompute | shares the tensors and the profiler | one tensor may be part of another; memory of the run before |
| PAC: layers and copies (`internal/layers`, `internal/arm_compute`, sources, sinks) | parameters | configure, run | on tensors that other functions padded | rows are longer than their extent, vectors cross their end |
| ARMComputeEx (`libs/ARMComputeEx`) | buffers on the device | configure, run | used by the layers of PAC | work items, barriers, local memory, borders, uninitialized cells |
| Profiling (`include/util/profiling`) | a ring buffer of events | BeginEvent, EndEvent, Reset, At | PAC's execution and tools | handles after a wrap-around |
| `template`, `logging` runtimes; `libs` for TFLite and tests; `tools`, `tests`, `contrib`, `benchmark` | | | | not part of a runtime |

What makes each part correct:

* cycle check: the verdict is that of the graph, in every iteration order;
* scheduler: each operation once, each after everything it reads from;
* model building: an operand has one role whatever calls failed, the use-def
  lists agree with the nodes, a model that follows the header's rules finishes;
* insertion: it splits one dependency and keeps the others;
* compilation: what the passes collect fits together, so that a model whose operations
  are accepted one by one compiles; each plan runs the whole graph in order on tensors of its own, with its weights filled in;
* execution: the outputs of an execution are computed from its inputs and no
  one else's;
* stages, layers, sources and sinks: the outputs hold what the operations mean for
  the client's data, whatever the layouts and paddings in between;
* PAC: what a visit collects is what its stage looks up; a view lies in its base,
  constants survive, outputs are what the operations mean in every run, tensors that
  functions were configured with are never replaced;
* ARMComputeEx: the result does not depend on the order of the work items, on the
  padding, or on what the memory held before;
* profiling: the ring shows the last events recorded, each under its operation;
* all of them: every call ends.

## 2. The modules

| Module | Stands for | Composition |
|---|---|---|
| `Dataflow` | the graph as functions from operations to operand sets, readers of an operation, acyclicity, `Schedules` | extended by the four below |
| `DagChecker` | `DAGChecker::verify` as a state machine over its call stack | |
| `TopologicalOrder` | abstract: what `linear::Linear` promises | implemented by `PostDfs` |
| `PostDfs` | `PostDfsIterator::iterate` and the `Linear` constructor | refines `TopologicalOrder` (`INSTANCE`, all variables by name) |
| `Compilation` | `ANeuralNetworksCompilation::finish` of neurun, for several compilations of one model | takes its operation order from `Schedules`, what `PostDfs` guarantees |
| `NNModel` | neurun's model-building calls, `finishBuilding` with `initializeUseDef`, `insertOperation` | self-contained; the use and definition lists are sets of entries |
| `Execution` | concurrent `startCompute` calls over the tensors of plans, and the convolution's scratch buffer | takes its plans as `Compilation` leaves them |
| `EventWindow` | abstract: what a profile buffer promises | implemented by `ProfileBuffer` |
| `ProfileBuffer` | the ring of profile events | |
| `PureLayout` | PAC's axes, shapes and masks between NHWC and a tensor | extended by `PurePlanner` and `Transfer` |
| `PureParams` | `internal/op`: the `Param` and the node of each kind of operation | |
| `PurePlanner` | `Planner::visit` for each of them | `PureLayout`, `PureParams` |
| `PureCompilation` | PAC's model calls and `finish` of a compilation | `PurePlanner` |
| `PureExecution` | a PAC client from the model to the outputs, under the profiler | `PureCompilation` and `ProfileBuffer` side by side, `EventWindow` as a property |
| `Tensors` | the Compute Library's tensor: a buffer with borders and padded rows | extended by `Transfer` and `NeurunInference` |
| `Transfer` | PAC's sources, sinks and initializers, by rank | `PureLayout`, `Tensors` |
| `TopKV2` | `CLTopKV2`: heap, quicksort and radix sort | dense arrays of its own |
| `ClKernels` | the other functions of ARMComputeEx and PAC's own layers | `Transfer` |
| `NeurunInference` | a neurun model from operands to outputs on each backend, with data | `Tensors` |
| `DataflowProofs` | lemmas on stacks, well-founded sets and schedules | extended by the next four |
| `DagCheckerProofs`, `PostDfsProofs`, `CompilationProofs`, `ExecutionProofs` | theorems over the graph | each extends what it proves about |
| `NNModelProofs`, `TopKProofs` | theorems about one module | the same |
| `PureProofs` | theorems about PAC, from `PureParams` to `PureExecution`, and about its profiler | extends `PureExecution` |
| `MC...` | instances for TLC; `MCKernels` puts `TopKV2`, `ClKernels` and `NeurunInference` into one run as alternative programs | |

**Traversals.** A recursive lambda becomes an explicit `stack`, with in `todo`
the calls each active body has still to make. `CallDfs` is the head of the
lambda (flag, early return, entry), `IterateRoot` the outermost loop,
`VisitReader` / `FollowUse` the inner one, `LeaveDfs` what follows it. The next
element of a loop over an `unordered_map` is any that is left. A repeated call
for a reader that shares two operands with its producer has the effect of
nothing and is merged with the first.

**NNModel.** One action per call; calls that return an error without changing
anything (null pointers, wrong sizes, a finished model) have no step. The marking
loops are modelled with their early exit (`Marked`, `Accepted`), so a refused
call leaves the operands before the refused one marked. An operand is its index;
types, shapes and operation kinds are left out. A call that lists several inputs or
outputs to identify is several actions. `finish` is a sequence of steps: an
operation is visited (`VisitOperation`, any order) and each entry made or
refused (`AppendLink`, `UnknownOperand`, `AssertFails`). The variable
`asserts` is a build with or without assertions, chosen in `Init`.

**Compilation.** `finish` of one compilation is the chain `StartFinish`,
`LowerOperation`..., `EndLower`, `Linearize`, `MarkTensors`..., `PlanOperation`...,
`PrepareTensors`..., `RunStage`..., `AllocateTensors`, `FillWeights`, in the order of
`wrapper/compilation.cc:45-66` and `PlanBuilder.cc:38-72`, with a step for every
iteration of its loops. A tensor builder is a pair (compilation, backend), since
`Graph::lower` makes a new `BackendManager` each time; LowerInfo of the shared
nodes names the compilation that lowered them last. `phase` is shared, as in the
code.

Four places of the code name the operands of an operation, and the model has each by itself, by
the kind of the operation: `Marked` (`Linear::markTensors`, all that the node keeps), `Shaped`
(`Planner::visit`, input by input), `Weights` (the initializers) and `LookedUp` (the stage). The
shapes, types and parameters an operation has are abstracted to how the code finds fault
with them (`fault`): the planner's visit asserts against it, which a release build passes
over or turns into a throw further on (`Shape::dim` is an `at`); or it throws; or the stage it makes
does, when it runs (`Refuse`, `RunStage`). `resolved` is what `StartFinish` meets before any
operation: operands of more than four dimensions (`asShape4D`), a backend of the environment that
does not exist (`BackendManager::get`). A `Permute` or `NOP` node never reaches the
`throw "NYI"` of the planner: `BackendResolver` has no entry for it, `_gen_map[type]`
(`BackendResolver.h:73`) makes one with a null configuration, and `Graph::lower` asks that for
a layout (`LowerUnresolved`). Failing look-ups (`std::map::at`) and throws end the call as
"threw", failing assertions and that null pointer end the process as "aborted".

**Execution.** A buffer holds the set of executions whose inputs its contents
were computed from, and `Garbage` if memory that nobody wrote took part. So
"the result is right" becomes "it stems from this execution only", and staleness,
mixing and uninitialized reads all show. A function reads and writes the tensors
of its own backend; a convolution that uses the static buffer takes two steps,
`Im2col` and `Gemm`. `failing` are the operations whose function may give up before it writes
anything (`LoseFunction`: a convolution without memory for its im2col buffer, whose result `run`
drops) or throw (`ThrowFunction`); `lost` are the executions that had such a function. `weights`
are the constants that have an initializer, as the kernels, weights and biases do; any other
operand that is neither input nor written holds `Garbage`.

**ProfileBuffer.** `current` counts all events, as `current_index_` does; the slot is
its remainder. Time stamps are left out but for whether an end was stamped. The
abstract window is the read-out of the ring through `At`: the refinement mapping is
`window <- the events At returns`, so that `LogsTheLastEvents` checks the ring
arithmetic of each record and each `Reset`. `EndEvent` compares two different
counters (section 3), and is modelled as it is.

**PAC.** A client issues the model calls of a script; those after the model's finish may
come at any later time, since the code does not refuse them all. `PureParams` gives
every position of an operation its role, as the `Param` constructors do, with the
assertions on the counts; `NodeOf` makes the node of a call, one `XNode` per kind. A
visit (`Accept`) returns what it tells the plan builder: shape constraints, views,
initializers and at most one stage, and may extend the shapes of the model.
`finish` is a step for every iteration of its loops: `VisitNode`..., the views with their explicit
stack, the tensors, `RunStage`..., the initializers and the constants nobody filled,
in the order of `compilation.cc`. A look-up or an assertion that fails ends the client
("aborted"). Memory holds values that say which element of which operand they are, of
which run, and how many in-place steps they still lack; so wrong offsets of a view, a
constant overwritten, an input of the run before and a missing activation all show,
and no arithmetic is done. `startCompute` pushes (`PushInput`), runs a step at a time
between `BeginEvent` and `EndEvent`, and pulls.

**Tensors and copies.** A tensor is a function from cells to values, with the border and
the unused cells at the end of each row that some function asked for. Nobody's memory
holds `Junk`. Every copy of `Transfer` goes through offsets as the code does, so that
`memcpy` of a row, a flat index and a coordinate differ on a padded tensor.

**TopKV2.** A work item is a process: it goes through the segments between the barriers of
the kernel, one step each, and enters a segment when its group has left the one
before; a kernel starts when the one before has ended. The nine kernels of the radix
sort, the quicksort with its stack in a buffer and the CPU's heap are step by step.
Keys are small floats: a sign bit and a magnitude (`Number`), so that -0 exists.

**ClKernels.** A function is a sequence of launches; a launch is a set of work items
taken in any order, each in a single step. An item writes `VecSize` cells
from its place on when the kernel is a vector kernel. Functions of the CPU are launches of
one item. A client configures, allocates, and then pushes, runs and pulls up to
`MaxRounds` times, on tensors with and without unused cells.

**NeurunInference.** `addOperation` (parameters), `Visit` (planner), `RunStage`,
`Initialize` (weights), `PushInput`, `RunFunction`, `PullOutput`: one step per
operation, operand or function, on the CPU backend or `acl_cl`. Numbers are whole;
`Meaning` evaluates the model on the client's data as the header defines the
operations and is what the outputs are compared with. `FreeMemory` unmaps an
`ANeuralNetworksMemory` at any time. The mathematics of TFLite's and ACL's functions is
external: what they are given (operands, windows, paddings, axes, limits) is the code's.

PROJECT.json's `map` names the lines of every definition.

## 3. The runs

| Run | Question | Instance | Result |
|---|---|---|---|
| `dag_checker` | is the verdict exact in every order, are the flags in step, does it end | all graphs of 3 operations with one output each over 3 operands (13824), cyclic ones, shared outputs and self-readers included | holds |
| `post_dfs` | is the list complete, duplicate-free and ordered; does the scheduler implement its promise | the same graphs | holds |
| `nn_model` | roles, use-def lists, which models finish, what an insertion does | 4 operands, 2 added operations, 1 insertion, 2 identified operands, both builds | holds |
| `nn_model_repeated` | does every model that follows the header's rules finish | same | violated: an operation that reads an operand twice |
| `compilation` | does every accepted model compile, that is, does finalize find what the four passes collected; are plans complete, ordered, private, filled; does finish end | 24 models of 2 operations over 5 operands, any fault, 2 backends, 2 compilations, both builds | holds |
| `compilation_twice` | may a finished model be compiled by two users | same | violated: assertion on the phase |
| `execution` | is an undisturbed execution right, does every started one end | 2 executions, 2 plans, 2 backends, 5 models, any functions that fail | holds |
| `execution_concurrent` | may executions of one compilation overlap | same | violated: shared tensors |
| `execution_scratch` | is the scratch buffer exclusive | same | violated: lock not taken |
| `execution_mixed` | may the operations be on different backends | same | violated: no copy between tensors |
| `pac` | does each look-up find what the visits collected; do views lie in their bases; do constants survive; are outputs what the operations mean, in every run; is the profile the events that ran, and of the right operation; do finish and startCompute end | one client per kind and form of operation, and clients with several operations, twice finished or computed | holds |
| `kernels` | does every function give what its operation means, whatever the order of work items, the layout, the padding and the contents of memory; does none get stuck | top k in its three modes, each function on dense and padded tensors, neurun models on both backends | holds |

Why the bounds are enough. A cycle check can go wrong through a self-loop, a
cycle of two or more, a shared reader (diamond) or a root in the middle of a
graph; three operations with every wiring have them all, and the theorems cover
the rest. `NNModel` needs two operations to share operands, a repeated input, a
missing index, an output that already has a role, one insertion into the
dependency of the two and one more operand for it; `MaxOperands`,
`MaxOperations`, `MaxInserted`, `MaxIdentified` and the lists `MCInputLists`,
`MCOutputLists` name exactly that. Compilation's hazards need a producer and a
reader, on one backend or two, a kernel and a bias of one or shared by both, and a second
compilation; the 24 models of `MCModels` (212 480 states) pair an operation of each class of
operand list (three inputs, two of them weights; all inputs; one input) with one of each after it or
beside it, or with a `Permute`. Execution's need two executions and up to two plans; its five
models (355 892 states) are a chain whose intermediate operand is an output too, the same with a
constant that nothing fills, a fork, one with an input that no operation reads and one with an
output that none writes. No symmetry is used. Deadlock checking is
off because those modules describe calls that finish.

`pac` (89 609 states): each kind of operation is visited, staged and run by a client of
its own (finish and compute once), which is what the hazards of a single visit need.
Those between operations have clients with several: cuts and joins with a view in a view
and a part in two views (two computes, so that a run meets the memory of the one before),
chains, operations out of order, a broadcast after another use, calls on a finished
model (two finishes), and a Split between profiled operations (three computes and three
calls of the profiler). `MaxEntries` is 3 instead of 1024, so that the ring wraps in
the second compute; `MaxRank` 4 is the largest rank the sources and sinks know. Both
modes, OpenCL and NEON, are in `Init`.

`kernels` (66 524 states): `Items` 2, `Groups` 2, `Bits` 1 and `TotalBits` 4 instead of 16, 4, 4 and
32 keep the shape of the radix sort: several items and groups, a scan with an up-sweep and a
down-sweep of two levels in two groups, several passes, two keys for every item. As the code asks, the
number of keys is a multiple of `Items * Groups`. `VecSize` 2 instead of 8 or 16: rows
shorter than a vector, as long, and longer. `MaxRounds` and `MaxComputes` 2: a second
run on used memory. `StaticBuffer` 35 cells: one of the convolutions does not fit. A
work item of `ClKernels` is a single step: where items of one launch share cells,
`KernelDeviates` says so.
In this run deadlock is checked: a client that rests may stutter (`AtRest`), and any other
state must have a step, which is how the straight-line programs show that they end.

Each property of a passing run has a mutant in PROJECT.json: a plausible fault
of the code, written next to the operator it replaces and marked as a fault
there, which makes the property fail under the same configuration.

**Fairness.** The calls run to completion on the thread that made them and wait
for nothing, so the steps inside a call are weakly fair (`FairSpec` of each module);
that a call is made at all is never assumed (`Compilation`'s fairness requires
`active # None`, `Execution`'s leaves out `StartCompute`). The traversals are one
call each. `NNModel` needs no liveness and has no fairness. `pac` assumes weak
fairness of the steps of `finish` and of `startCompute` once called, `kernels` of the
steps of a top k once run: the loops of the code on one thread, and work items
that the device runs to their end. That a client calls anything, finishes twice or
turns the profiler on is never assumed.

**Disagreements found.** The five `violation` runs each check a sentence of the
header, a comment or the design document that the code does not keep; the
findings in PROJECT.json quote them. In short: a repeated input aborts `finish`;
a model can be compiled once; overlapping executions of a compilation mix data;
the convolution's scratch buffer is unprotected; tensors are not copied between
backends. `execution` shows that nothing else disturbs an execution: its
`UndisturbedIsRight` assumes the absence of the last three, overlaps on a plan and in the scratch
buffer (`Disturbed`) and mixed backends (`BackendsAgree`), and of two things that no run of
its own is about: constants that nothing fills (`ConstantsAreFilled`) and, for the execution
itself but not for those before it, functions that gave up (`lost`). It needs each of the five:
without any one of them TLC finds it violated on the same instance.

**What the properties except.** The properties name these cases and hold for everything
else. The first four go against what a document says, as quoted here. No run is spent on them: TLC
refutes the property without the exception (for `changed`, that a finished model keeps its
operations) on the same instance. Of the others no document of the repository says what they
should give.

* neurun, `ConstantsAreFilled` in `UndisturbedIsRight`: the planner makes initializers for the
  kernels, weights and biases of convolutions and fully connected layers only
  (`codegen/Planner.cc:55-58`, `175-176`); any other constant has a tensor that nothing fills.
  `include/NeuralNetworks.h:2129` has `setOperandValue` set "an operand to a constant value".
* neurun, `lost` in `UndisturbedIsRight` and `InferenceIsRight`: a convolution whose im2col
  buffer cannot be had prints a line and returns, `run` drops its result
  (`kernel/cpu/ConvolutionLayer.cc:67-83`, `189`), and `startCompute` returns
  `ANEURALNETWORKS_NO_ERROR`, which `include/NeuralNetworks.h:2550` has mean "if
  successful"; the output stays what it was. In `InferenceIsRight` also weights read
  after `ANeuralNetworksMemory_free` (`frontend/model.cc:197`), about which it says nothing.
* PAC, `changed`: the model was changed after its finish, which `addOperationEx` and
  `setOperandValue` do not refuse. The header says that a finished model cannot be modified
  (`include/NeuralNetworks.h:1838`) and that to try "will return an error"
  (`include/NeuralNetworksEx.h:51`).
* Profiling, `EndedUntilTheRingWraps`: after the first wrap no end is stamped any more
  (`include/util/profiling/profile_buffer.h:118` compares the count with a slot), although the
  comment above it (109-111) excepts only events that were overwritten.
* PAC, `Unshared` in `RightWhenUnshared`: an operand that is a part of two others (the
  operand of two CONCATENATIONs, `compilation.cc:4015`): the later view replaces the
  earlier, and the first result is never written.
* PAC, `drifted` (also in `PlanIsCurrent`): a broadcast extends the shape of an operand
  (`const_cast`, `compilation.cc:539`) after an earlier operation has used the old one.
* PAC, `EndsAreSet`: a source or sink set before finish has captured the shape of before a
  broadcast; one never set is a null pointer.
* PAC, NEON mode: `Pad` (`compilation.cc:3495`) and `Transpose` (3254) cast to an OpenCL
  tensor without asking.
* PAC, `ProfiledByOperation`: a Split adds no stage, so the numbers after it are shifted
  (`compilation.cc:4160`).
* `TopKV2`: the GPU modes handle one row only, and take any type for float;
  `topkv2_find_first_negative` misses the first negative (`FindsFirstNegative`) when it is the
  last key, when a zero stands before it or when no key is positive. The quicksort sorts
  the input in place, and its stack of `n` integers is too short for one key.
* `KernelDeviates`: gather of rank 3 and more enqueues nothing, of a one-row table takes it
  as a vector, and copies the padding of longer rows into its neighbours; mean's local memory is
  neither set nor exclusive, and the errors for other axes are created and not returned;
  the maximum, space to depth, pad and strided slice take rows as if they were dense; the masks of a
  strided slice are reordered wrongly for rank 4 (`Swizzle.h:71`), and an axis it
  shrinks loses the order of the others; a reshape to rank 4 keeps the order NHWC; the
  quantized simple addition adds the raw bytes; a quantized cast does not
  saturate; an embedding lookup of rank 3 and more copies rows as if both tensors were padded alike.
* neurun, `Deviates`: `acl_cl` drops the activation of a pool, fills the weights of a fully
  connected layer as if the rows were dense, and reshapes in the order NCHW unless an
  assertion stops it.

## 4. The proofs

All theorems are about the modules as they are above, with the constants they
declare. For each module TLAPS checks an inductive invariant (`Init => Inv`,
`Inv /\ [Next]_vars => Inv'`) and derives the properties from it. None of the
properties is inductive as it stands: each speaks of the end of a call, and what holds
then has to be said of every step on the way.

Assumptions on the constants, each named in the module that declares them:

| Assumption | What it says | Why the code has it |
|---|---|---|
| `Dataflow!FiniteAssumption` | a graph has finitely many operations | they are the entries of an `unordered_map` |
| `Compilation!NoneAssumption` | `None` is no compilation and no backend | a name of the model |
| `Execution!ExecutionAssumption` | the CPU backend is a backend, there are finitely many, `Garbage` is no execution | `BackendManager` makes two |
| `Compilation!ModelsAssumption` | an operation has a kind, a list of inputs and one output | the node types, whose constructors assert it |
| `Execution!ModelsAssumption` | a model has operand sets for its operations, lists of inputs and outputs, and a set of weights | the members of `Graph` |
| `NNModel!BoundsAssumption` | the bounds are natural numbers, the lists of a call consist of indexes, no output list is empty | indexes are unsigned; the nodes assert that there is an output, and a release build would read past the list |
| `ProfileBuffer!MaxEntriesAssumption`, `OpIndexAssumption` | the ring has a slot, events are initialized with operation 0 | `Profiler` makes it with 1024 slots, and the vector that holds them sets them to zero |
| `PureCompilation!ClientsAssumption` | a client's calls pass lists of indexes | their types in `NeuralNetworks.h` |
| `TopKV2!GroupAssumption` | the work items of all groups are a power of two, at least four | `_ITEMS` is 16 and `_GROUPS` 4 (`CLTopKV2Kernel.h:26`); the up-sweep and down-sweep of the scan halve and double |
| `TopKV2!BitsAssumption` | a key has a whole and even number of digits | `configure` asks for a whole number, its defaults are 32 and 4 and no caller gives others; after an even number of passes the keys are back in the buffer that the next run's `topkv2_init` writes |
| `TopKV2!InputsAssumption` | `k` is at most `n`, a row is full of keys, and for the radix sort `n` is a multiple of the work items | the shapes of `TOPK_V2`; the last is asserted by `configure` (`CLTopKV2.cpp:77`) |

The proofs about the traversals do not use `FiniteAssumption`.

**Cycle check** (`DagCheckerProofs!SearchInvariant`). That the verdict is right at the
end needs to know where the search stands. `IInv` says that the stack is a path of the
graph without repetition and is what on_stack marks; that every operation is visited
or still a root; and, as long as no cycle was flagged, that the readers of a
finished operation are finished (`ReadersAccounted`) and the finished ones
contain no cycle (`WellFounded(Finished)`). A call of an active operation closes
a cycle along the stack (`BackCallClosesCycle`); leaving an operation adds one
to the finished set whose readers are all in it (`WellFoundedGrows`).
From it: `TypeCorrect`, `NoFalseAlarmHolds`, `OnStackHolds`, `VerdictHolds`.

**Scheduler** (`PostDfsProofs!TraversalInvariant`). Visited is
the disjoint union of the active and the listed operations, and on an acyclic
graph the list has readers first until it is reversed. From it:
`TypeCorrect`, `DefsBeforeUsesHolds`, `EveryOperationOnceHolds`, and
`ImplementsSafely`: the initial states are those of `TopologicalOrder` and each
step is a step of it or a stutter.

Acyclicity is stated without paths: every non-empty set of operations has a member
that feeds none of the set. On a finite graph that is the absence of cycles, and it
needs no recursion and no induction over paths.

**Model building** (`NNModelProofs!NNModelInvariant`). While `finish` runs, the use list of
an operand and the entries still to be made in it (`Coming`) are together the visited
operations that read it, and the same for definitions (`LinkInv`); an entry that is still
to come has not been made, unless its operation repeats an input (`OnceInv`), which is
what the assertion of a repeated input turns on. From it: `OneRolePerOperandHolds`
for every order of successful and failing calls, `UseDefConsistentHolds`, and
`WellReferencedModelsFinishHolds`, whose exception is the finding of
`nn_model_repeated`. `InsertKeepsDependenciesHolds` is an action property: the
insertion at any point of any finished model, also one after the other, keeps every
dependency, directly or through the new operation, and adds none.
`FinishedModelsAreDataflow`: what `finish` accepts, and what insertions make of it, are the
operand sets and use lists that the traversals and `Compilation` take as their constants.

**Compilation** (`CompilationProofs!CompilationInvariant`). Each loop of `finish` leaves
something behind that is a function of the operations it has done (`Done`,
`MarkedOps`, `PlannedOps`): the marks of a backend, the shapes, the initializers, the
stages, the functions. All the loops are over one schedule, and for a node as the constructors
make it the four operand sets fit together (`PassesAgree`: what is marked is shaped, what is looked
up is marked, what has an initializer is looked up), so the tensors a stage looks up were
marked, shaped and prepared before. `RefusalInv` says why a compilation failed: something is
wrong with the model, or another compilation had it first. `FreshInv` keeps the
compilations apart: one that has not started has touched no builder. From it:
`AcceptedModelsCompileHolds` (of a model in which nothing is wrong with any one operation no
look-up fails, and an assertion only for a second compilation), `PlanRunsTheGraphHolds`,
`TensorsArePrivateHolds`,
`WeightsAreFilledHolds`, for any number of operations, backends and compilations.
What the order of the operations needs is `Schedules`: `PostDfsProofs!OrderIsASchedule`
proves that the list of the `Linear` constructor is one, so the two modules compose. And
`PlansAreReadyToExecute` composes the next two: a finished plan is one of those that
`Execution` starts from.

**Execution** (`ExecutionProofs!ExecutionInvariant`). The buffers of a plan hold what
earlier executions left in them, also those that threw in the middle or lost a function.
`OwnSoFar` says which of them an execution that is undisturbed and has lost no function
(`Clean`) has made its own: those of the inputs it has pushed and of the outputs of the
operations it has run. An operation reads inputs of the model, constants and outputs of
operations before it in the schedule, so its inputs are its own when it runs if the constants
are filled (`ConstantsAreFilled`, a condition of the theorem as of the property); `MetInv` shows
that nobody else writes in between. From it `UndisturbedIsRightHolds`, for any
number of threads and any model whose constants are filled.

**Profile buffer** (`PureProofs!ProfileInvariant`). `LogsTheLastEventsHolds`: the
ring implements the safety part of the window of the last `MaxEntries` events. The mapping
reads the ring through `At`, so a record maps to an append before the ring is full and to
a shift after; the arithmetic is that of remainders by a capacity that is not fixed
(`NextSlot`, `WrapOnce`). `EndedUntilTheRingWrapsHolds`: until the wrap every event is
stamped.

**PAC** (`PureProofs!Invariant`). The first half of its proof is about the planner, kind by kind: for
any call of the client, any operands and any contents of them, `VisitsAreSound`: the
visit asks for operands of its own node only, for all the results of the node, and
adds one stage (none for a Split) that looks up nothing it has not asked for. The second
half is the invariant of `finish`: the stages up to the cursor look up asked operands
(`StageInv`), the results of the visited operations were asked for (`VisitInv`), the views
and then the tensors up to the cursor exist (`MadeInv`; the view that the stack was begun
with is the one that does not yet), and after a finish every result has its tensor until the
model changes (`ReadyInv`). From it:

* `StagesFind`: a stage finds its tensors, so that finalize never fails in a look-up;
* `ReadyToCompute`: a compute with everything set does not end in the middle;
* `Profiling`: a function runs under the number of its operation if no Split came before;
* `TensorsAreNeverReplaced`, which needs no invariant;
* `ViewsShareATensor`: the memory of a view, of a view of a view and so on, is that of one
  tensor that owns itself (`OwnersOwn`, inductive by itself);
* `ClientProfiles`: a client implements the specification of the profiler, so that the
  two theorems about the profiler hold of a client (`ClientsLog`). They take the numbers of
  operations to be all natural numbers; the instance for TLC has a few.

**Top k** (`TopKProofs!TopKStays`, `TopKIsRight`, `StackFits`). `TopKOfEachRow` holds for every length of
the rows, every `k`, every number of work items and bits of a digit, and every
interleaving of the work items between two barriers. Each mode has its invariant:

* the heap: with the spare element at the back it is the best of the columns seen so far, in the strict
  order of the container, which breaks ties by the place (`HeapInv`);
* the quicksort: the ranges on the stack do not meet (`StackOK`), and two places that no range
  holds both of are in order already (`Partitioned`); the loop of partition keeps what it has
  passed on the sides of the pivot. Only ranges of two places or more are pushed (`Wide`);
  as no two meet, their ends are as many different places of the row, so that the stack
  fits into its buffer of `n` cells if the row has two keys at least (`StackFits`);
* the radix sort: before each pass the keys are a permutation of the input, sorted by the digits
  below, equal ones in their first order (`SortedBy`). In a pass the histogram counts the
  keys of a part with a digit. A scan is `2 * Log2(size)` sweeps over the cells of its group
  (`GroupAt`): after `t` of them a cell holds what `ScanValue` says, a sum over the block of
  cells below it going up, the sum before its block going down; items of one segment touch
  different cells, so the cells of the items that have not taken the step are those of the
  level before. The scans and the pasting make the exclusive prefix sums of all columns;
  together with the count within a part that is the `Rank` of a key by its digit and then its
  place, so that the new places are a permutation and sorted by one more digit. After the last
  pass the first negative is written by one item at most, and turning the negatives round gives
  the order of the numbers from that of the bits.

The variables are finite functions over ranges given by constants; the sums are cardinalities
and values of recursive functions, and the induction is by a least counterexample
(`Least`). The proof found an error of the model that the instance for TLC hides: the list of the
work items' progress was sized by the histogram only, too short for the kernels with an item
per key once a row is longer than that.

**Left to TLC.**

* Liveness: `Terminates`, `FinishEnds`, `ComputeEnds`, `TopKEnds`, and the fairness part of
  `ImplementsTopologicalOrder` and of the other `FairSpec`s. The prover has no ENABLED.
* `PureExecution!TypeOK`: the shapes of views come from offsets along an axis of operands
  whose ranks the code does not compare, and from sums along a list; the bounds that TLC sees
  hold of the clients of the run only.
* `ViewsLieInTheirBase`, `ConstantsSurvive`, `RightWhenUnshared`: `Meaning`, offsets and
  depths are defined by recursion over the operations, the axes and the parts of an operand.
  The library's induction theorems take an operator, which the provers cannot instantiate;
  a least counterexample does instead, but these definitions recur over records and lists whose
  types no check of the code bounds (see `TypeOK`).
* `ClKernels`, `NeurunInference`: what a kernel gives is a sum or a choice over its cells, of
  45 kinds of function, each against a meaning of its own.
* `TopKV2!TopKTypeOK` (in `MCKernels!TypeOK`) bounds the counts of a histogram by the length
  of the row in every state, also where what the kernel left behind is not read again; the
  invariants of `TopKProofs` do not need it. Its bound of the stack is `StackFits`.

## 5. What is not modelled, and why

* The mathematics of the functions of TFLite and of the Compute Library: they are not in
  this repository. What they are configured with is modelled; numbers are whole.
* The quantized variants of neurun's CPU layers, which `run` refuses with an exception,
  and the two TensorConvert layers, which no plan contains.
* Null checks and argument checks that change nothing.
* Two compilations of one neurun model at the same time: a data race on the nodes'
  LowerInfo pointers, undefined behaviour. In `Compilation` a second `finish` of the same
  compilation is not made; in PAC's it is.
* Execution from memory: neurun's calls set nothing and return no error, PAC's assert false,
  as does PAC's `setOperandValueFromMemory`.
* Concurrent executions of PAC: one client on one thread; concurrency over the
  tensors of a plan is `Execution`'s question.
* Insertions during a compilation of neurun: only tests insert. A `Permute` that was inserted before
  is in `Compilation`, and ends it.
* Shapes, types and parameters in `Compilation`: `fault` is any, for each operation; which shapes
  the planner accepts is in `NeurunInference`.
* ARMComputeEx's assertion that no dimension of a strided slice comes out negative
  (`CLStridedSliceKernel.cpp:176`): no job of the instance has one.
* The `USE_SIMPLE_*` environment switches of PAC's planner, which replace a function by
  another; the replacements themselves are in `ClKernels`.
* ARMComputeEx: `CLKernelLibrary` and the helpers, which load and build programs;
  `fixed_point.h`, arithmetic for types that no operand has; the OpenCL maximum
  (a macro turns it off, and the CPU's is modelled).
* Items of one launch interleaved cell by cell, but for `TopKV2`, whose kernels have
  barriers.
* `ANeuralNetworksEvent`: `startCompute` has ended when it returns, and `wait` does nothing.
* The `template` and `logging` runtimes, stubs with no state; the TFLite interpreter
  glue (`libs/support`), tools, tests, examples and benchmarks.
* Everything listed as `not_modelled` in PROJECT.json, with its reason there.

## 6. Plan

Done: neurun from the model to the outputs; PAC from the model to the outputs; the
functions of ARMComputeEx; the profile buffer; the proofs of section 4. Next:

1. Theorems. `ConstantsSurvive` and `RightWhenUnshared` of a PAC client whose operands have
   the shapes that their operations document.
2. An abstract specification of an execution (inputs in, outputs of the same inputs out)
   that `Execution` implements when undisturbed.
3. The work items of `ClKernels` cell by cell, where a launch shares cells.
4. `libs/support/tflite/src/nnapi_delegate.cpp`: the translation of a TFLite graph into
   model calls, as one more client of `PureCompilation`.
