---------------------------- MODULE PurePlanner ----------------------------
(***************************************************************************)
(* What Planner::visit does with each kind of operation                    *)
(* (pure_arm_compute/src/compilation.cc).  m is the operand table, p the   *)
(* operand in each role.  A visit gives the plan builder                   *)
(*   shapes  the operands with a shape constraint,                         *)
(*   views   the operands placed inside another one, in order,             *)
(*   fills   the operands with an initializer,                             *)
(*   stages  the closure that finalize calls later, if there is one,       *)
(* and it may prepend extents of 1 to the shapes of the model's operands   *)
(* in broadcast.  fits tells whether it comes to its end: an assertion, an *)
(* exception or a null pointer stops it (a build with assertions).         *)
(*                                                                         *)
(* A stage looks its tensors up, configures a function on them and appends *)
(* it to the plan, one step for each entry of steps.  on is "any", "gpu"   *)
(* when it throws in NEON mode, "cast" when it casts to an OpenCL tensor   *)
(* without asking.  fused is the activation code appended to it, in place  *)
(* on its output.                                                          *)
(*                                                                         *)
(* The USE_SIMPLE_* environment switches are off.                          *)
(***************************************************************************)
EXTENDS PureLayout, PureParams

Rank(m, x) == Len(m[x].shape)
Extent(m, x, axis) == m[x].shape[axis + 1]

\* The assertions of Object::asScalar, and the value it returns.
IsScalar(m, x) == m[x].data /\ m[x].shape \in {<<>>, <<1>>}
AreScalars(m, p, roles) == \A r \in roles : IsScalar(m, p[r])
Scalar(m, x) == m[x].value[1]

Nothing == [fits |-> TRUE, shapes |-> {}, views |-> <<>>, fills |-> {},
            stages |-> <<>>, broadcast |-> {}]
Throws == [Nothing EXCEPT !.fits = FALSE]

Step(reads, writes) == [reads |-> reads, writes |-> writes]
Stage(reads, writes, on) ==
  [lookups |-> reads \cup writes, steps |-> <<Step(reads, writes)>>, on |-> on,
   fused |-> 0, ofm |-> 0]
FusedStage(reads, ofm, on, code) ==
  [Stage(reads, {ofm}, on) EXCEPT !.fused = code, !.ofm = ofm]

\* ActivationBuilder::append: the codes it knows, and the step it appends.
FusedCodes == 0 .. 3
\* Fault: RELU6 is taken for no activation
ActivationWithoutRelu6(stage) ==
  IF stage.fused \in {0, 3} THEN <<>> ELSE <<Step({stage.ofm}, {stage.ofm})>>

ActivationSteps(stage) ==
  IF stage.fused = 0 THEN <<>> ELSE <<Step({stage.ofm}, {stage.ofm})>>

Plain(shapes, stage) == [Nothing EXCEPT !.shapes = shapes, !.stages = <<stage>>]

-----------------------------------------------------------------------------
(* Element by element, on two operands of one shape or of two that broadcast.*)

Arithmetic(m, p, on) ==
  [Plain({p.ofm, p.lhs, p.rhs},
         FusedStage({p.lhs, p.rhs}, p.ofm, on, Scalar(m, p.activation)))
     EXCEPT !.fits = IsScalar(m, p.activation),
            !.broadcast = IF m[p.lhs].shape = m[p.rhs].shape THEN {} ELSE {p.lhs, p.rhs}]

VisitAdd(m, p) == Arithmetic(m, p, "any")
VisitSub(m, p) == Arithmetic(m, p, "any")
VisitMul(m, p) ==
  [Arithmetic(m, p, "any")
     EXCEPT !.fits = @ /\ (m[p.ofm].scale > 0 => m[p.ofm].scale > m[p.lhs].scale * m[p.rhs].scale)]
VisitDiv(m, p) == Arithmetic(m, p, "gpu")
VisitSquaredDifference(m, p) == Arithmetic(m, p, "any")

-----------------------------------------------------------------------------
(* Convolutions and pools.                                                   *)

PaddingCodes == {1, 2}     \* PADDING_SAME, PADDING_VALID
PaddingRoles == {"padding_left", "padding_right", "padding_top", "padding_bottom"}
StrideRoles == {"vstride", "hstride"}
AreFeatures(m, xs) == \A x \in xs : Rank(m, x) = 4

Convolution(m, p) ==
  Plain({p.ofm, p.ifm, p.ker, p.bias},
        FusedStage({p.ifm, p.ker, p.bias}, p.ofm, "any", Scalar(m, p.activation)))

KernelTypes == {"float32", "quant8"}
BiasTypes == {"float32", "int32"}

VisitConv2DImplicit(m, p) ==
  [Convolution(m, p)
     EXCEPT !.fits = /\ AreFeatures(m, {p.ofm, p.ifm, p.ker}) /\ Rank(m, p.bias) = 1
                     /\ AreScalars(m, p, StrideRoles \cup {"padding", "activation"})
                     /\ Scalar(m, p.padding) \in PaddingCodes
                     /\ m[p.ker].data /\ m[p.bias].data
                     /\ m[p.ker].type \in KernelTypes /\ m[p.bias].type \in BiasTypes,
            !.fills = {p.ker, p.bias}]

VisitConv2DExplicit(m, p) ==
  [Convolution(m, p)
     EXCEPT !.fits = /\ AreScalars(m, p, StrideRoles \cup PaddingRoles \cup {"activation"})
                     /\ m[p.ker].data => Rank(m, p.ker) = 4 /\ m[p.ker].type \in KernelTypes
                     /\ m[p.bias].data => Rank(m, p.bias) = 1 /\ m[p.bias].type \in BiasTypes,
            !.fills = {x \in {p.ker, p.bias} : m[x].data}]

DepthwiseFits(m, p) ==
  /\ AreFeatures(m, {p.ofm, p.ifm, p.ker}) /\ Rank(m, p.bias) = 1
  /\ IsScalar(m, p.multipler)
  /\ Extent(m, p.ker, 3) = Extent(m, p.bias, 0)
  /\ Extent(m, p.ker, 3) = Extent(m, p.ifm, 3) * Scalar(m, p.multipler)

VisitDepthwiseConv2DImplicit(m, p) ==
  [Convolution(m, p)
     EXCEPT !.fits = /\ DepthwiseFits(m, p)
                     /\ AreScalars(m, p, StrideRoles \cup {"padding", "activation"})
                     /\ Scalar(m, p.padding) \in PaddingCodes]

VisitDepthwiseConv2DExplicit(m, p) ==
  [Convolution(m, p)
     EXCEPT !.fits = /\ DepthwiseFits(m, p)
                     /\ AreScalars(m, p, StrideRoles \cup PaddingRoles \cup {"activation"})]

Pool(m, p) ==
  [Plain({p.ofm, p.ifm}, FusedStage({p.ifm}, p.ofm, "any", Scalar(m, p.activation)))
     EXCEPT !.fits = /\ AreFeatures(m, {p.ofm, p.ifm})
                     /\ AreScalars(m, p, StrideRoles \cup {"kh", "kw", "activation"})]

ImplicitPool(m, p) ==
  [Pool(m, p) EXCEPT !.fits = @ /\ IsScalar(m, p.padding)
                                /\ Scalar(m, p.padding) \in PaddingCodes]
ExplicitPool(m, p) == [Pool(m, p) EXCEPT !.fits = @ /\ AreScalars(m, p, PaddingRoles)]

VisitMaxPool2DImplicit(m, p) == ImplicitPool(m, p)
VisitMaxPool2DExplicit(m, p) == ExplicitPool(m, p)
VisitAvgPool2DImplicit(m, p) == ImplicitPool(m, p)
VisitAvgPool2DExplicit(m, p) == ExplicitPool(m, p)
VisitL2Pool2DImplicit(m, p) == ImplicitPool(m, p)
VisitL2Pool2DExplicit(m, p) == ExplicitPool(m, p)

-----------------------------------------------------------------------------
(* One tensor in, one tensor out.                                            *)

Map(p, on) == Plain({p.ofm, p.ifm}, Stage({p.ifm}, {p.ofm}, on))

VisitReLU(m, p) == Map(p, "any")
VisitReLU1(m, p) == Map(p, "any")
VisitReLU6(m, p) == Map(p, "any")
VisitTanh(m, p) == Map(p, "any")
VisitFloor(m, p) == Map(p, "any")
VisitReshape(m, p) == Map(p, "any")
VisitSqueeze(m, p) == Map(p, "any")
VisitLogistic(m, p) == Map(p, "gpu")
VisitTranspose(m, p) == Map(p, "cast")
VisitCast(m, p) == [Map(p, "gpu") EXCEPT !.fits = m[p.ofm].shape = m[p.ifm].shape]
VisitDequantize(m, p) ==
  [Map(p, "gpu") EXCEPT !.fits = /\ Rank(m, p.ifm) <= 4 /\ m[p.ifm].shape = m[p.ofm].shape
                                 /\ m[p.ifm].type = "quant8" /\ m[p.ofm].type = "float32"]
VisitSoftmax(m, p) ==
  [Map(p, "any") EXCEPT !.fits = /\ Rank(m, p.ofm) = Rank(m, p.ifm)
                                 /\ Rank(m, p.scale) = 0 /\ IsScalar(m, p.scale)]
VisitResizeBilinear(m, p) ==
  [Map(p, "gpu") EXCEPT !.fits = AreScalars(m, p, {"height", "width"})]
VisitSpaceToDepth(m, p) == [Map(p, "any") EXCEPT !.fits = IsScalar(m, p.block_size)]
\* The depth is read as dim(3), past the end of a shorter shape.
VisitL2Normalization(m, p) == [Map(p, "any") EXCEPT !.fits = Rank(m, p.ifm) >= 4]
VisitReduceMax(m, p) ==
  [Map(p, "gpu") EXCEPT !.fits = /\ Rank(m, p.ofm) = 1 /\ Rank(m, p.ifm) = 2
                                 /\ IsScalar(m, p.axis) /\ Scalar(m, p.axis) = 1]
VisitPad(m, p) ==
  [Map(p, "cast") EXCEPT !.shapes = @ \cup {p.paddings},
                         !.fits = AreFeatures(m, {p.ofm, p.ifm}) /\ m[p.paddings].data]
\* The axes are read as a vector: height, width, or a negative one, ignored.
VisitMean(m, p) ==
  [Map(p, "gpu")
     EXCEPT !.shapes = @ \cup {p.axis},
            !.fits = /\ IsScalar(m, p.keep_dims) /\ Scalar(m, p.keep_dims) # 0
                     /\ Rank(m, p.ifm) = 4 /\ m[p.axis].data /\ Rank(m, p.axis) = 1
                     /\ Rank(m, p.ofm) = 4 =>
                          \A k \in DOMAIN m[p.axis].value : m[p.axis].value[k] < 3
                                                            /\ m[p.axis].value[k] # 0]

-----------------------------------------------------------------------------
(* The others.                                                               *)

\* A rank 4 input is flattened to the two ranks the function works on.
VisitFullyConnected(m, p) ==
  [Plain({p.input, p.output, p.weight, p.bias},
         FusedStage({p.input, p.weight, p.bias}, p.output, "any", Scalar(m, p.activation)))
     EXCEPT !.fits =
       /\ Rank(m, p.input) \in {2, 4}
       /\ Rank(m, p.output) = 2 /\ Rank(m, p.weight) = 2 /\ Rank(m, p.bias) = 1
       /\ Extent(m, p.bias, 0) = Extent(m, p.output, 1)
       /\ Extent(m, p.weight, 0) = Extent(m, p.output, 1)
       /\ IF Rank(m, p.input) = 2
          THEN m[p.input].shape = <<Extent(m, p.output, 0), Extent(m, p.weight, 1)>>
          ELSE Extent(m, p.input, 0) * Extent(m, p.input, 1) * Extent(m, p.input, 2)
                 * Extent(m, p.input, 3)
                 = Extent(m, p.output, 0) * Extent(m, p.weight, 1)
       /\ IsScalar(m, p.activation)]

\* The tensor of the strides is made in the shape of the ends.
VisitStridedSlice(m, p) ==
  LET vectors == {p.startData, p.endData, p.stridesData}
  IN  [Plain({p.outputData, p.inputData} \cup vectors,
             Stage({p.inputData} \cup vectors, {p.outputData}, "gpu"))
         EXCEPT !.fits = /\ \A x \in vectors : /\ Rank(m, x) = 1 /\ m[x].data
                                                /\ m[x].type = "int32"
                         /\ m[p.stridesData].shape = m[p.endData].shape
                         /\ Rank(m, p.inputData) > 0
                         /\ AreScalars(m, p, {"beginMask", "endMask", "shrinkAxisMask"}),
                !.fills = vectors]

VisitTopKV2(m, p) ==
  [Plain({p.outputValues, p.outputIndices, p.inputData},
         Stage({p.inputData}, {p.outputValues, p.outputIndices}, "gpu"))
     EXCEPT !.fits = Rank(m, p.inputData) \in {1, 2} /\ IsScalar(m, p.k)]

\* Fault: no tensor is asked for the indices
GatherWithoutIndices(m, p) ==
  [Plain({p.ofm, p.lhs}, Stage({p.lhs, p.rhs}, {p.ofm}, "gpu"))
     EXCEPT !.fits = Rank(m, p.lhs) \in {1, 2}]

VisitGather(m, p) ==
  [Plain({p.ofm, p.lhs, p.rhs}, Stage({p.lhs, p.rhs}, {p.ofm}, "gpu"))
     EXCEPT !.fits = /\ Rank(m, p.lhs) \in {1, 2} /\ Rank(m, p.rhs) = 1
                     /\ IsScalar(m, p.axis)]

VisitEmbeddingLookup(m, p) ==
  [Plain({p.output, p.lookups, p.values}, Stage({p.lookups, p.values}, {p.output}, "any"))
     EXCEPT !.fits = /\ m[p.lookups].type = "int32" /\ Rank(m, p.lookups) = 1
                     /\ Rank(m, p.values) >= 2 /\ Rank(m, p.output) = Rank(m, p.values)
                     /\ m[p.output].shape
                          = <<Extent(m, p.lookups, 0)>> \o Tail(m[p.values].shape)]

\* The state goes on from a copy, which the second step works on in place.
VisitRNN(m, p) ==
  LET matrices == {p.output, p.hidden_state_out, p.input, p.weights,
                   p.recurrent_weights, p.hidden_state_in}
      used == {p.input, p.weights, p.recurrent_weights, p.bias, p.hidden_state_out}
      batch == Extent(m, p.output, 0)
      units == Extent(m, p.output, 1)
  IN  [Nothing
         EXCEPT !.shapes = matrices \cup {p.bias},
                !.fits = /\ \A x \in matrices : Rank(m, x) = 2
                         /\ Rank(m, p.bias) = 1 /\ Extent(m, p.bias, 0) = units
                         /\ m[p.input].shape = <<batch, Extent(m, p.weights, 1)>>
                         /\ m[p.hidden_state_in].shape = <<batch, units>>
                         /\ m[p.hidden_state_out].shape = <<batch, units>>
                         /\ Extent(m, p.weights, 0) = units
                         /\ m[p.recurrent_weights].shape = <<units, units>>
                         /\ IsScalar(m, p.fused_activation),
                !.stages =
                  <<[lookups |-> matrices \cup {p.bias}, on |-> "gpu", fused |-> 0, ofm |-> 0,
                     steps |-> <<Step({p.hidden_state_in}, {p.hidden_state_out}),
                                 Step(used, {p.output, p.hidden_state_out})>>]>>]

VisitLSTM(m, p) == Throws
VisitRSQRT(m, p) == Throws
VisitHashtableLookup(m, p) == Throws

-----------------------------------------------------------------------------
(* Concat and Split have no function: their tensors share memory.            *)

\* An axis from the end is counted from the start.
AxisOf(m, x, rank) == IF Scalar(m, x) < 0 THEN Scalar(m, x) + rank ELSE Scalar(m, x)

\* Fault: the axis is not mapped
AlongSameAxis(shape, axis, depth) == [k \in 1 .. MaxRank |-> IF k - 1 = axis THEN depth ELSE 0]

Along(shape, axis, depth) ==
  [k \in 1 .. MaxRank |-> IF k - 1 = ToARMComputeAxis(Len(shape), axis) THEN depth ELSE 0]

View(x, base, offset, shape) == [of |-> x, base |-> base, offset |-> offset, shape |-> shape]

\* Each input is a part of the output; the stage is empty.
VisitConcat(m, p, ifms) ==
  LET shape == m[p.ofm].shape
      axis == AxisOf(m, p.axis, Len(shape))
      depth[k \in 1 .. Len(ifms)] ==
        IF k = 1 THEN 0 ELSE depth[k - 1] + Extent(m, ifms[k - 1], axis)
  IN  IF ~IsScalar(m, p.axis) \/ axis \notin Axes(shape) THEN Throws
      ELSE [Nothing EXCEPT
              !.shapes = {p.ofm},
              !.views = [k \in DOMAIN ifms |->
                           View(ifms[k], p.ofm, Along(shape, axis, depth[k]), m[ifms[k]].shape)],
              !.stages = <<[lookups |-> {}, steps |-> <<>>, on |-> "any",
                            fused |-> 0, ofm |-> 0]>>]

\* Each output is a part of the input; there is no stage.
VisitSplit(m, p, ofms) ==
  LET shape == m[p.ifm].shape
      axis == AxisOf(m, p.axis, Len(shape))
      slice == shape[axis + 1] \div Len(ofms)
  IN  IF \/ ~IsScalar(m, p.axis) \/ axis \notin Axes(shape)
         \/ (shape[axis + 1] % Len(ofms)) # 0
      THEN Throws
      ELSE [Nothing EXCEPT
              !.shapes = {p.ifm},
              !.views = [k \in DOMAIN ofms |->
                           View(ofms[k], p.ifm, Along(shape, axis, (k - 1) * slice),
                                m[ofms[k]].shape)]]

-----------------------------------------------------------------------------
VisitArithmetic(m, kind, p) ==
  CASE kind = "Add" -> VisitAdd(m, p)
    [] kind = "Sub" -> VisitSub(m, p)
    [] kind = "Mul" -> VisitMul(m, p)
    [] kind = "Div" -> VisitDiv(m, p)
    [] kind = "SquaredDifference" -> VisitSquaredDifference(m, p)

VisitWindow(m, kind, p) ==
  CASE kind = "Conv2DImplicit" -> VisitConv2DImplicit(m, p)
    [] kind = "Conv2DExplicit" -> VisitConv2DExplicit(m, p)
    [] kind = "DepthwiseConv2DImplicit" -> VisitDepthwiseConv2DImplicit(m, p)
    [] kind = "DepthwiseConv2DExplicit" -> VisitDepthwiseConv2DExplicit(m, p)
    [] kind = "MaxPool2DImplicit" -> VisitMaxPool2DImplicit(m, p)
    [] kind = "MaxPool2DExplicit" -> VisitMaxPool2DExplicit(m, p)
    [] kind = "AvgPool2DImplicit" -> VisitAvgPool2DImplicit(m, p)
    [] kind = "AvgPool2DExplicit" -> VisitAvgPool2DExplicit(m, p)
    [] kind = "L2Pool2DImplicit" -> VisitL2Pool2DImplicit(m, p)
    [] kind = "L2Pool2DExplicit" -> VisitL2Pool2DExplicit(m, p)

VisitMap(m, kind, p) ==
  CASE kind = "ReLU" -> VisitReLU(m, p)
    [] kind = "ReLU1" -> VisitReLU1(m, p)
    [] kind = "ReLU6" -> VisitReLU6(m, p)
    [] kind = "Tanh" -> VisitTanh(m, p)
    [] kind = "Floor" -> VisitFloor(m, p)
    [] kind = "Reshape" -> VisitReshape(m, p)
    [] kind = "Squeeze" -> VisitSqueeze(m, p)
    [] kind = "Logistic" -> VisitLogistic(m, p)
    [] kind = "Transpose" -> VisitTranspose(m, p)
    [] kind = "Cast" -> VisitCast(m, p)
    [] kind = "Dequantize" -> VisitDequantize(m, p)
    [] kind = "Softmax" -> VisitSoftmax(m, p)
    [] kind = "ResizeBilinear" -> VisitResizeBilinear(m, p)
    [] kind = "SpaceToDepth" -> VisitSpaceToDepth(m, p)
    [] kind = "L2Normalization" -> VisitL2Normalization(m, p)
    [] kind = "ReduceMax" -> VisitReduceMax(m, p)
    [] kind = "Pad" -> VisitPad(m, p)
    [] kind = "Mean" -> VisitMean(m, p)

VisitOther(m, kind, p) ==
  CASE kind = "FullyConnected" -> VisitFullyConnected(m, p)
    [] kind = "StridedSlice" -> VisitStridedSlice(m, p)
    [] kind = "TopKV2" -> VisitTopKV2(m, p)
    [] kind = "Gather" -> VisitGather(m, p)
    [] kind = "EmbeddingLookup" -> VisitEmbeddingLookup(m, p)
    [] kind = "RNN" -> VisitRNN(m, p)
    [] kind = "LSTM" -> VisitLSTM(m, p)
    [] kind = "RSQRT" -> VisitRSQRT(m, p)
    [] kind = "HashtableLookup" -> VisitHashtableLookup(m, p)

ArithmeticKinds == {"Add", "Sub", "Mul", "Div", "SquaredDifference"}
WindowKinds ==
  {"Conv2DImplicit", "Conv2DExplicit", "DepthwiseConv2DImplicit", "DepthwiseConv2DExplicit",
   "MaxPool2DImplicit", "MaxPool2DExplicit", "AvgPool2DImplicit", "AvgPool2DExplicit",
   "L2Pool2DImplicit", "L2Pool2DExplicit"}
MapKinds ==
  {"ReLU", "ReLU1", "ReLU6", "Tanh", "Floor", "Reshape", "Squeeze", "Logistic", "Transpose",
   "Cast", "Dequantize", "Softmax", "ResizeBilinear", "SpaceToDepth", "L2Normalization",
   "ReduceMax", "Pad", "Mean"}

\* Node::accept
Accept(m, node) ==
  CASE node.kind \in ArithmeticKinds -> VisitArithmetic(m, node.kind, node.param)
    [] node.kind \in WindowKinds -> VisitWindow(m, node.kind, node.param)
    [] node.kind \in MapKinds -> VisitMap(m, node.kind, node.param)
    [] node.kind = "Concat" -> VisitConcat(m, node.param, node.list)
    [] node.kind = "Split" -> VisitSplit(m, node.param, node.list)
    [] OTHER -> VisitOther(m, node.kind, node.param)
=============================================================================
