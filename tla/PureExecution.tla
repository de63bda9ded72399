--------------------------- MODULE PureExecution ---------------------------
(***************************************************************************)
(* One client of the pure_arm_compute runtime: it compiles a model         *)
(* (PureCompilation), creates an execution, sets its sources and sinks,    *)
(* and computes, under a profiler (ProfileBuffer) that it switches on and  *)
(* off (execution.cc).  All of it runs on the client's thread.             *)
(***************************************************************************)
EXTENDS PureCompilation, ProfileBuffer

VARIABLES
  opened,     \* there is an execution
  sources,    \* what each source was set up with, or Null
  sinks,      \* the same for each sink
  computes,   \* how often startCompute was called: the number of the run
  got,        \* what the buffer behind each sink holds
  switches    \* how often the profiler was called

executionVars == <<opened, sources, sinks, computes, got, switches>>
vars == <<compilationVars, profile, executionVars>>

Null == [shape |-> <<>>, set |-> -1]

Init ==
  /\ CompilationInit
  /\ ProfileInit
  /\ opened = FALSE
  /\ sources = <<>> /\ sinks = <<>> /\ got = <<>>
  /\ computes = 0 /\ switches = 0

\* Fault: the ends are counted the other way around
CreateExecutionExchanged ==
  /\ phase \in {"created", "finished"} /\ ~opened
  /\ opened' = TRUE
  /\ sources' = [n \in DOMAIN outputs |-> Null]
  /\ sinks' = [n \in DOMAIN inputs |-> Null]
  /\ got' = [n \in DOMAIN outputs |-> <<>>]
  /\ UNCHANGED <<compilationVars, profile, computes, switches>>

CreateExecution ==
  /\ phase \in {"created", "finished"} /\ ~opened
  /\ opened' = TRUE
  /\ sources' = [n \in DOMAIN inputs |-> Null]
  /\ sinks' = [n \in DOMAIN outputs |-> Null]
  /\ got' = [n \in DOMAIN outputs |-> <<>>]
  /\ UNCHANGED <<compilationVars, profile, computes, switches>>

\* A source or a sink takes the shape its operand has when it is set.  The
\* client sets them in order, and once more after each finish (a bound).
Unset(ends, n) == ends[n].set < finishes
Settable(ends, n) ==
  /\ opened /\ phase \in {"created", "finished"}
  /\ Unset(ends, n) /\ \A i \in 1 .. n - 1 : ~Unset(ends, i)
End(x) == [shape |-> operands[x].shape, set |-> finishes]

\* The class of the end is chosen by the rank and the type of the operand.
SourceOf(n) == End(inputs[n])
SinkOf(n) == End(outputs[n])

SetInput(n) ==
  /\ Settable(sources, n)
  /\ sources' = [sources EXCEPT ![n] = SourceOf(n)]
  /\ UNCHANGED <<compilationVars, profile, opened, sinks, computes, got, switches>>

SetOutput(n) ==
  /\ Settable(sinks, n)
  /\ sinks' = [sinks EXCEPT ![n] = SinkOf(n)]
  /\ UNCHANGED <<compilationVars, profile, opened, sources, computes, got, switches>>

-----------------------------------------------------------------------------
(* startCompute                                                              *)

\* What is left as it is while startCompute runs.
Running == UNCHANGED <<model, gpu, finishes, builder, stack, objects, steps, drifted,
                       opened, sources, sinks, switches>>

StartCompute ==
  /\ opened /\ phase \in {"created", "finished"} /\ computes < bounds.computes
  /\ computes' = computes + 1
  /\ phase' = "push" /\ k' = 1
  /\ Running /\ UNCHANGED <<mem, got, profile>>

\* An input that no function takes has no tensor.  A source that was never set
\* is a null pointer.
\* Faults: every input must have a tensor; one that has none is not passed over
PushEveryInput ==
  /\ phase = "push"
  /\ IF k > Len(inputs) THEN GoTo("run") /\ UNCHANGED mem
     ELSE IF ~IsAllocated(inputs[k]) \/ sources[k] = Null THEN Abort /\ UNCHANGED mem
     ELSE /\ mem' = Written(mem, inputs[k], LAMBDA a :
                             Value(inputs[k], ElementAt(sources[k].shape, a), computes, 0))
          /\ phase' = phase /\ k' = k + 1
  /\ Running /\ UNCHANGED <<computes, got, profile>>

PushWithoutAdvance ==
  /\ phase = "push"
  /\ IF k > Len(inputs) THEN GoTo("run") /\ UNCHANGED mem
     ELSE IF ~IsAllocated(inputs[k]) THEN UNCHANGED <<phase, k, mem>>
     ELSE phase' = phase /\ k' = k + 1 /\ UNCHANGED mem
  /\ Running /\ UNCHANGED <<computes, got, profile>>

PushInput ==
  /\ phase = "push"
  /\ IF k > Len(inputs) THEN GoTo("run") /\ UNCHANGED mem
     ELSE LET x == inputs[k]
          IN  IF ~IsAllocated(x) THEN phase' = phase /\ k' = k + 1 /\ UNCHANGED mem
              ELSE IF sources[k] = Null THEN Abort /\ UNCHANGED mem
              ELSE /\ mem' = Written(mem, x, LAMBDA a :
                        IF SameLayout(sources[k].shape, objects[x].shape)
                        THEN Value(x, ElementAt(sources[k].shape, a),
                                   computes, 0)
                        ELSE Junk)
                   /\ phase' = phase /\ k' = k + 1
  /\ Running /\ UNCHANGED <<computes, got, profile>>

\* What the operation of operand x means each element to hold in this run:
\* its own value, or that of the element it is a part of (Split) or that is a
\* part of it (Concat).
Size4(shape) == LET f[i \in 0 .. Len(shape)] == IF i = 0 THEN 1 ELSE f[i - 1] * shape[i]
                IN  f[Len(shape)]
IndexOf(shape, i) ==
  LET below[a \in 1 .. Len(shape) + 1] ==
        IF a = Len(shape) + 1 THEN 1 ELSE below[a + 1] * shape[a]
  IN  [a \in 1 .. Len(shape) |-> (i \div below[a + 1]) % shape[a]]

Meaning ==
  LET shape(x) == operands[x].shape
      joins(x) == {o \in DOMAIN operations :
                     operations[o].kind = "Concat" /\ operations[o].param.ofm = x}
      cuts(x) == {o \in DOMAIN operations :
                     operations[o].kind = "Split" /\ x \in ToSet(operations[o].list)}
      own(x, i) == Value(x, i, IF operands[x].data THEN 0 ELSE computes, 0)
      axis(o, x) == 1 + AxisOf(operands, operations[o].param.axis, Len(shape(x)))
      from(parts, a, p) ==
        LET f[j \in 1 .. Len(parts)] == IF j = 1 THEN 0 ELSE f[j - 1] + shape(parts[j - 1])[a]
        IN  f[p]
      f[d \in 0 .. Len(operations)] ==
        [x \in DOMAIN operands |-> [i \in 0 .. Size4(shape(x)) - 1 |->
           IF d > 0 /\ joins(x) # {} THEN
             LET o == CHOOSE o \in joins(x) : TRUE
                 parts == operations[o].list
                 a == axis(o, x)
                 c == IndexOf(shape(x), i)
                 p == CHOOSE p \in DOMAIN parts :
                        c[a] \in from(parts, a, p) .. from(parts, a, p) + shape(parts[p])[a] - 1
             IN  f[d - 1][parts[p]][Position(shape(parts[p]), [c EXCEPT ![a] = @ - from(parts, a, p)])]
           ELSE IF d > 0 /\ cuts(x) # {} THEN
             LET o == CHOOSE o \in cuts(x) : TRUE
                 whole == operations[o].param.ifm
                 a == axis(o, whole)
                 p == CHOOSE p \in DOMAIN operations[o].list : operations[o].list[p] = x
             IN  f[d - 1][whole][Position(shape(whole),
                   [IndexOf(shape(x), i) EXCEPT ![a] = @ + (p - 1) * shape(x)[a]])]
           ELSE own(x, i)]]
  IN  f[Len(operations)]

\* The tensor or view of x holds the operand, with left steps still to come.
Holds(x, left, meaning) ==
  LET object == objects[x]
  IN  \A a \in Cells(x) :
        LET i == ElementAt(object.shape, a)
        IN  mem[object.owner][Offset(object.at, a)]
              = IF left = 0 THEN meaning[x][i] ELSE Value(x, i, computes, left)

\* A function that finds what it was configured for computes its outputs; one
\* that does not leaves junk in them.
RunFunction ==
  /\ phase = "run"
  /\ IF k > Len(steps) THEN GoTo("pull") /\ UNCHANGED <<mem, profile>>
     ELSE LET step == steps[k]
              meaning == Meaning
              right == /\ step.sound
                       /\ \A x \in DOMAIN step.reads : Holds(x, step.reads[x], meaning)
              write[left \in SUBSET DOMAIN step.writes] ==
                IF left = {} THEN mem
                ELSE LET x == CHOOSE x \in left : TRUE
                     IN  Written(write[left \ {x}], x, LAMBDA a :
                           IF right THEN Value(x, ElementAt(objects[x].shape, a), computes,
                                               step.writes[x])
                           ELSE Junk)
          IN  /\ mem' = write[DOMAIN step.writes]
              /\ phase' = phase /\ k' = k + 1
              /\ Profiled(step.op_idx) \/ NotProfiled
  /\ Running /\ UNCHANGED <<computes, got>>

\* An output without a tensor makes at throw, a sink that was never set is null.
PullOutput ==
  /\ phase = "pull"
  /\ IF k > Len(outputs)
     THEN phase' = (IF finishes = 0 THEN "created" ELSE "finished") /\ k' = 1 /\ UNCHANGED got
     ELSE LET x == outputs[k]
          IN  IF ~IsAllocated(x) \/ sinks[k] = Null THEN Abort /\ UNCHANGED got
              ELSE /\ got' = [got EXCEPT ![k] =
                        [i \in 0 .. Size4(operands[x].shape) - 1 |->
                           IF SameLayout(sinks[k].shape, objects[x].shape)
                           THEN mem[objects[x].owner]
                                  [Offset(objects[x].at,
                                          CHOOSE a \in Cells(x) :
                                            ElementAt(sinks[k].shape, a) = i)]
                           ELSE Junk]]
                   /\ phase' = phase /\ k' = k + 1
  /\ Running /\ UNCHANGED <<computes, mem, profile>>

ComputeStep == PushInput \/ RunFunction \/ PullOutput
Computing == phase \in {"push", "run", "pull"}

-----------------------------------------------------------------------------
SwitchProfiler ==
  /\ phase = "finished" /\ switches < bounds.switches
  /\ switches' = switches + 1
  /\ SetEnabled(TRUE) \/ SetEnabled(FALSE) \/ Reset
  /\ UNCHANGED <<compilationVars, opened, sources, sinks, computes, got>>

Next ==
  \/ (BuildModel \/ CreateCompilation \/ StartFinish \/ FinishStep)
       /\ UNCHANGED <<profile, executionVars>>
  \/ CreateExecution
  \/ \E n \in DOMAIN sources : SetInput(n)
  \/ \E n \in DOMAIN sinks : SetOutput(n)
  \/ StartCompute \/ ComputeStep
  \/ SwitchProfiler

Spec == Init /\ [][Next]_vars

\* A call, once made, runs on to its end or to an abort; nobody is bound to
\* make a call.
FairSpec ==
  /\ Spec
  /\ WF_vars(FinishStep /\ UNCHANGED <<profile, executionVars>>)
  /\ WF_vars(ComputeStep)

-----------------------------------------------------------------------------
IsShape(s) == s \in Seq(Nat) /\ Len(s) <= MaxRank
IsObject(o) == o.owner \in DOMAIN operands /\ IsShape(o.shape) /\ o.at \in Seq(Nat)

(* The types of the client's state, of the plan and of the execution.        *)
TypeOK ==
  /\ ProfileTypeOK
  /\ \A x \in DOMAIN operands : IsShape(operands[x].shape) /\ operands[x].data \in BOOLEAN
  /\ phase \in Idle \cup {"plan", "views", "tensors", "stages", "allocate", "fill",
                          "constants", "push", "run", "pull", "aborted"}
  /\ {modelDone, gpu, changed, opened} \subseteq BOOLEAN
  /\ finishes \in 0 .. bounds.finishes /\ computes \in 0 .. bounds.computes
  /\ switches \in 0 .. bounds.switches
  /\ drifted \subseteq DOMAIN operands
  /\ \A x \in DOMAIN objects : x \in DOMAIN operands /\ IsObject(objects[x])
  /\ \A i \in DOMAIN steps : steps[i].op_idx \in OpIndex /\ steps[i].sound \in BOOLEAN
  /\ \A i \in DOMAIN stack : stack[i] \in DOMAIN operands
  /\ opened => Len(sources) = Len(inputs) /\ Len(sinks) = Len(outputs)

(* What the NN API asks of a model (NeuralNetworks.h): an operand is a       *)
(* constant, a model input, or a result of one operation, and here also that *)
(* an operation follows those whose results it takes, as the runtime runs    *)
(* them in the order they were added.                                        *)
InsOf(node) == OperandsOf(node) \ node.outs

Before(o) == UNION {operations[i].outs : i \in 1 .. o - 1}
Constants0 == {x \in DOMAIN operands : operands[x].data}
WellDefined ==
  /\ Constants0 \cap ToSet(inputs) = {}
  /\ \A o \in DOMAIN operations :
       /\ InsOf(operations[o]) \subseteq Constants0 \cup ToSet(inputs) \cup Before(o)
       /\ operations[o].outs \cap (Constants0 \cup ToSet(inputs) \cup Before(o)) = {}

(* No operand is a part of two others.                                       *)
PartsOf(node) == IF node.kind \in {"Concat", "Split"} THEN ToSet(node.list) ELSE {}
Unshared ==
  \A i, j \in DOMAIN operations :
    i # j => PartsOf(operations[i]) \cap PartsOf(operations[j]) = {}

(* The plan is of the model as it is now, and each tensor is laid out as the *)
(* operations that use it were told.                                         *)
PlanIsCurrent == finishes > 0 /\ ~changed /\ drifted = {}
EndsAreSet ==
  /\ \A n \in DOMAIN sources : sources[n].set = finishes
  /\ \A n \in DOMAIN sinks : sinks[n].set = finishes

(* finalize calls a stage when every tensor it looks up exists: each visit   *)
(* asks for all the tensors that its stage takes from the context            *)
(* (compilation.cc:4151), or another visit has placed them.                  *)
StagesFindTheirTensors ==
  phase = "stages" /\ k <= Len(builder.stages) =>
    builder.stages[k].stage.lookups \subseteq DOMAIN objects

(* A view lies in the tensor it is a part of, however deep the views nest    *)
(* and in whatever order they were made (compilation.cc:4086).               *)
ViewsLieInTheirBase ==
  drifted = {} =>
    \A x \in DOMAIN objects :
      LET base == objects[objects[x].owner]
      IN  /\ base.owner = objects[x].owner
          /\ \A a \in Cells(x) : Offset(objects[x].at, a) \in Box(AsTensorShape(base.shape))

(* Once filled, a constant stays what the client gave, through a second      *)
(* finish, the pushes of the inputs and the functions that work in place     *)
(* (compilation.cc:4179, 4188).                                              *)
ConstantsSurvive ==
  /\ phase \in {"finished", "push", "run", "pull"}
  /\ PlanIsCurrent /\ WellDefined /\ Unshared
  => LET meaning == Meaning
     IN  \A x \in DOMAIN objects \cap Constants0 : Holds(x, 0, meaning)

(* A compute gives every output what its operation means it to hold, from    *)
(* the inputs of this run: provided no operand is a part of two others, the  *)
(* sources and sinks were set after the finish, and, in NEON mode, no        *)
(* operation casts to an OpenCL tensor.                                      *)
RightWhenUnshared ==
  /\ phase = "pull" /\ k = Len(outputs) + 1
  /\ PlanIsCurrent /\ WellDefined /\ Unshared /\ EndsAreSet
  /\ gpu \/ \A o \in DOMAIN operations : operations[o].kind \notin {"Pad", "Transpose"}
  => LET meaning == Meaning
     IN  \A n \in DOMAIN outputs : got[n] = meaning[outputs[n]]

(* A function is profiled under the number of its operation, unless a Split, *)
(* which adds no stage, was visited before it (compilation.cc:4160).         *)
ProfiledByOperation ==
  \A i \in DOMAIN steps :
    (\A o \in 1 .. steps[i].operation : operations[o].kind # "Split")
      => steps[i].op_idx = steps[i].operation - 1

(* A compute of a model whose outputs are results, with everything set, runs *)
(* to its end: inputs without a tensor are passed over, outputs have one     *)
(* (execution.cc:520, 545).                                                  *)
ReadyComputes ==
  [][/\ Computing /\ phase' = "aborted"
     => ~(/\ PlanIsCurrent /\ WellDefined /\ EndsAreSet
          /\ ToSet(outputs) \subseteq Before(Len(operations) + 1))]_vars

(* A tensor or view that functions were configured with is never replaced,   *)
(* also when the compilation is finished again (compilation.cc:4035).        *)
TensorsStay ==
  [][\A x \in DOMAIN objects : x \in DOMAIN objects' /\ objects'[x] = objects[x]]_vars

(* finish comes to an end: the loop over the views in particular, which      *)
(* keeps its own stack (compilation.cc:4092), for views without a cycle.     *)
FinishEnds == Finishing ~> ~Finishing

(* startCompute comes to an end.                                             *)
ComputeEnds == Computing ~> ~Computing
=============================================================================
