----------------------------- MODULE PureParams -----------------------------
(***************************************************************************)
(* The operations of the pure_arm_compute runtime.  A call of the NN API   *)
(* passes the operands of an operation by position: c.ins and c.outs.  The *)
(* Param constructor of each kind of node (op/<kind>.cc) asserts how many  *)
(* there are and gives every position its role.  XParam lists the roles by *)
(* position; XNode is the node: its kind with the operand in each role,    *)
(* the operands it defines, and, for an operation with any number of       *)
(* tensors, the list of them.                                              *)
(***************************************************************************)
EXTENDS Integers, SequencesExt

Roles(inputs, outputs) == [inputs |-> inputs, outputs |-> outputs]

Binary == Roles(<<"lhs", "rhs", "activation">>, <<"ofm">>)
AddParam == Binary
SubParam == Binary
MulParam == Binary
DivParam == Binary
SquaredDifferenceParam == Binary

Explicit == <<"padding_left", "padding_right", "padding_top", "padding_bottom",
              "hstride", "vstride">>
Implicit == <<"padding", "hstride", "vstride">>

Conv2DImplicitParam ==
  Roles(<<"ifm", "ker", "bias">> \o Implicit \o <<"activation">>, <<"ofm">>)
Conv2DExplicitParam ==
  Roles(<<"ifm", "ker", "bias">> \o Explicit \o <<"activation">>, <<"ofm">>)
DepthwiseConv2DImplicitParam ==
  Roles(<<"ifm", "ker", "bias">> \o Implicit \o <<"multipler", "activation">>, <<"ofm">>)
DepthwiseConv2DExplicitParam ==
  Roles(<<"ifm", "ker", "bias">> \o Explicit \o <<"multipler", "activation">>, <<"ofm">>)

MaxPool2DImplicitParam == Roles(<<"ifm">> \o Implicit \o <<"kw", "kh", "activation">>, <<"ofm">>)
MaxPool2DExplicitParam == Roles(<<"ifm">> \o Explicit \o <<"kw", "kh", "activation">>, <<"ofm">>)
AvgPool2DImplicitParam == Roles(<<"ifm">> \o Implicit \o <<"kw", "kh", "activation">>, <<"ofm">>)
AvgPool2DExplicitParam == Roles(<<"ifm">> \o Explicit \o <<"kw", "kh", "activation">>, <<"ofm">>)
L2Pool2DImplicitParam == Roles(<<"ifm">> \o Implicit \o <<"kw", "kh", "activation">>, <<"ofm">>)
L2Pool2DExplicitParam == Roles(<<"ifm">> \o Explicit \o <<"kw", "kh", "activation">>, <<"ofm">>)

Unary == Roles(<<"ifm">>, <<"ofm">>)
CastParam == Unary
DequantizeParam == Unary
FloorParam == Unary
L2NormalizationParam == Unary
LogisticParam == Unary
ReLUParam == Unary
ReLU1Param == Unary
ReLU6Param == Unary
RSQRTParam == Unary
TanhParam == Unary

FullyConnectedParam == Roles(<<"input", "weight", "bias", "activation">>, <<"output">>)
GatherParam == Roles(<<"lhs", "rhs", "axis">>, <<"ofm">>)
MeanParam == Roles(<<"ifm", "axis", "keep_dims">>, <<"ofm">>)
PadParam == Roles(<<"ifm", "paddings">>, <<"ofm">>)
ReduceMaxParam == Roles(<<"ifm", "axis">>, <<"ofm">>)
ReshapeParam == Roles(<<"ifm", "shape">>, <<"ofm">>)
ResizeBilinearParam == Roles(<<"ifm", "height", "width">>, <<"ofm">>)
SoftmaxParam == Roles(<<"ifm", "scale">>, <<"ofm">>)
SpaceToDepthParam == Roles(<<"ifm", "block_size">>, <<"ofm">>)
StridedSliceParam ==
  Roles(<<"inputData", "startData", "endData", "stridesData",
          "beginMask", "endMask", "shrinkAxisMask">>, <<"outputData">>)
TopKV2Param == Roles(<<"inputData", "k">>, <<"outputValues", "outputIndices">>)
TransposeParam == Roles(<<"ifm", "permu">>, <<"ofm">>)
EmbeddingLookupParam == Roles(<<"lookups", "values">>, <<"output">>)
HashtableLookupParam == Roles(<<"lookups", "keys", "values">>, <<"output", "hits">>)
RNNParam ==
  Roles(<<"input", "weights", "recurrent_weights", "bias", "hidden_state_in",
          "fused_activation">>, <<"output", "hidden_state_out">>)
LSTMParam ==
  Roles(<<"input", "input_to_input_weights", "input_to_forget_weights",
          "input_to_cell_weights", "input_to_output_weights",
          "recurrent_to_input_weights", "recurrent_to_forget_weights",
          "recurrent_to_cell_weights", "recurrent_to_output_weights",
          "cell_to_input_weights", "cell_to_forget_weights", "cell_to_output_weights",
          "input_gate_bias", "forget_gate_bias", "cell_bias", "output_gate_bias",
          "projection_weights", "projection_bias", "output_state_in", "cell_state_in",
          "activation", "cell_threshold", "projection_threshold">>,
        <<"scratch_buffer", "output_state_out", "cell_state_out", "output">>)

\* The assertion on the counts fails.
NoNode == [kind |-> "none"]
Accepts(roles, c) == Len(c.ins) = Len(roles.inputs) /\ Len(c.outs) = Len(roles.outputs)

\* The kinds whose positions are fixed.
Assigned(kind, roles, c) ==
  LET names == roles.inputs \o roles.outputs
      given == c.ins \o c.outs
  IN  IF ~Accepts(roles, c) THEN NoNode
      ELSE [kind |-> kind, outs |-> ToSet(c.outs), list |-> <<>>,
            param |-> [r \in ToSet(names) |-> given[CHOOSE k \in DOMAIN names : names[k] = r]]]

AddNode(c) == Assigned("Add", AddParam, c)
SubNode(c) == Assigned("Sub", SubParam, c)
MulNode(c) == Assigned("Mul", MulParam, c)
DivNode(c) == Assigned("Div", DivParam, c)
SquaredDifferenceNode(c) == Assigned("SquaredDifference", SquaredDifferenceParam, c)

Conv2DImplicitNode(c) == Assigned("Conv2DImplicit", Conv2DImplicitParam, c)
Conv2DExplicitNode(c) == Assigned("Conv2DExplicit", Conv2DExplicitParam, c)
DepthwiseConv2DImplicitNode(c) == Assigned("DepthwiseConv2DImplicit", DepthwiseConv2DImplicitParam, c)
DepthwiseConv2DExplicitNode(c) == Assigned("DepthwiseConv2DExplicit", DepthwiseConv2DExplicitParam, c)
MaxPool2DImplicitNode(c) == Assigned("MaxPool2DImplicit", MaxPool2DImplicitParam, c)
MaxPool2DExplicitNode(c) == Assigned("MaxPool2DExplicit", MaxPool2DExplicitParam, c)
AvgPool2DImplicitNode(c) == Assigned("AvgPool2DImplicit", AvgPool2DImplicitParam, c)
AvgPool2DExplicitNode(c) == Assigned("AvgPool2DExplicit", AvgPool2DExplicitParam, c)
L2Pool2DImplicitNode(c) == Assigned("L2Pool2DImplicit", L2Pool2DImplicitParam, c)
L2Pool2DExplicitNode(c) == Assigned("L2Pool2DExplicit", L2Pool2DExplicitParam, c)

CastNode(c) == Assigned("Cast", CastParam, c)
DequantizeNode(c) == Assigned("Dequantize", DequantizeParam, c)
FloorNode(c) == Assigned("Floor", FloorParam, c)
L2NormalizationNode(c) == Assigned("L2Normalization", L2NormalizationParam, c)
LogisticNode(c) == Assigned("Logistic", LogisticParam, c)
ReLUNode(c) == Assigned("ReLU", ReLUParam, c)
ReLU1Node(c) == Assigned("ReLU1", ReLU1Param, c)
ReLU6Node(c) == Assigned("ReLU6", ReLU6Param, c)
RSQRTNode(c) == Assigned("RSQRT", RSQRTParam, c)
TanhNode(c) == Assigned("Tanh", TanhParam, c)

FullyConnectedNode(c) == Assigned("FullyConnected", FullyConnectedParam, c)
GatherNode(c) == Assigned("Gather", GatherParam, c)
MeanNode(c) == Assigned("Mean", MeanParam, c)
PadNode(c) == Assigned("Pad", PadParam, c)
ReduceMaxNode(c) == Assigned("ReduceMax", ReduceMaxParam, c)
ReshapeNode(c) == Assigned("Reshape", ReshapeParam, c)
ResizeBilinearNode(c) == Assigned("ResizeBilinear", ResizeBilinearParam, c)
SoftmaxNode(c) == Assigned("Softmax", SoftmaxParam, c)
SpaceToDepthNode(c) == Assigned("SpaceToDepth", SpaceToDepthParam, c)
StridedSliceNode(c) == Assigned("StridedSlice", StridedSliceParam, c)
TopKV2Node(c) == Assigned("TopKV2", TopKV2Param, c)
TransposeNode(c) == Assigned("Transpose", TransposeParam, c)
EmbeddingLookupNode(c) == Assigned("EmbeddingLookup", EmbeddingLookupParam, c)
HashtableLookupNode(c) == Assigned("HashtableLookup", HashtableLookupParam, c)
RNNNode(c) == Assigned("RNN", RNNParam, c)
LSTMNode(c) == Assigned("LSTM", LSTMParam, c)

\* The kinds whose positions are not.
SqueezeParam(c) == [ifm |-> c.ins[1], ofm |-> c.outs[1]]
SqueezeNode(c) ==
  IF Len(c.ins) \notin {1, 2} \/ Len(c.outs) # 1 THEN NoNode
  ELSE [kind |-> "Squeeze", outs |-> ToSet(c.outs), list |-> <<>>, param |-> SqueezeParam(c)]

ConcatParam(c) == [axis |-> Last(c.ins), ofm |-> c.outs[1]]
ConcatNode(c) ==
  IF Len(c.outs) # 1 THEN NoNode
  ELSE [kind |-> "Concat", outs |-> ToSet(c.outs), list |-> Front(c.ins), param |-> ConcatParam(c)]

SplitParam(c) == [axis |-> c.ins[1], ifm |-> c.ins[2]]
SplitNode(c) ==
  IF Len(c.ins) # 2 THEN NoNode
  ELSE [kind |-> "Split", outs |-> ToSet(c.outs), list |-> c.outs, param |-> SplitParam(c)]

-----------------------------------------------------------------------------
(* The switches of addOperation and addOperationEx: from the type of a call  *)
(* to the kind of its node.  The operations with a window or a kernel have   *)
(* two forms, told apart by the number of their inputs.                      *)

ConvolutionKind(c) ==
  IF c.type = "CONV_2D"
  THEN IF Len(c.ins) = 7 THEN "Conv2DImplicit" ELSE "Conv2DExplicit"
  ELSE IF Len(c.ins) = 8 THEN "DepthwiseConv2DImplicit" ELSE "DepthwiseConv2DExplicit"

PoolKind(c) ==
  CASE c.type = "MAX_POOL_2D" ->
         IF Len(c.ins) = 7 THEN "MaxPool2DImplicit" ELSE "MaxPool2DExplicit"
    [] c.type = "AVERAGE_POOL_2D" ->
         IF Len(c.ins) = 7 THEN "AvgPool2DImplicit" ELSE "AvgPool2DExplicit"
    [] c.type = "L2_POOL_2D" ->
         IF Len(c.ins) = 7 THEN "L2Pool2DImplicit" ELSE "L2Pool2DExplicit"

PlainKinds ==
  [ADD |-> "Add", SUB |-> "Sub", MUL |-> "Mul", DIV |-> "Div",
   DEQUANTIZE |-> "Dequantize", RESIZE_BILINEAR |-> "ResizeBilinear",
   RESHAPE |-> "Reshape", FULLY_CONNECTED |-> "FullyConnected", SOFTMAX |-> "Softmax",
   RELU |-> "ReLU", RELU1 |-> "ReLU1", RELU6 |-> "ReLU6", TANH |-> "Tanh",
   STRIDED_SLICE |-> "StridedSlice", LOGISTIC |-> "Logistic", MEAN |-> "Mean",
   RNN |-> "RNN", TRANSPOSE |-> "Transpose", LSTM |-> "LSTM", FLOOR |-> "Floor",
   PAD |-> "Pad", SPACE_TO_DEPTH |-> "SpaceToDepth",
   EMBEDDING_LOOKUP |-> "EmbeddingLookup", L2_NORMALIZATION |-> "L2Normalization",
   HASHTABLE_LOOKUP |-> "HashtableLookup"]

ExKinds ==
  [CAST_EX |-> "Cast", TENSORFLOW_MAX_EX |-> "ReduceMax", RSQRT_EX |-> "RSQRT",
   SQUARED_DIFFERENCE_EX |-> "SquaredDifference", TOPK_V2_EX |-> "TopKV2",
   GATHER_EX |-> "Gather"]

KindOf(c) ==
  CASE c.type \in {"CONV_2D", "DEPTHWISE_CONV_2D"} -> ConvolutionKind(c)
    [] c.type \in {"MAX_POOL_2D", "AVERAGE_POOL_2D", "L2_POOL_2D"} -> PoolKind(c)
    [] c.type = "CONCATENATION" -> "Concat"
    [] c.type = "SQUEEZE" -> "Squeeze"
    [] c.type = "SPLIT_EX" -> "Split"
    [] c.type \in DOMAIN PlainKinds -> PlainKinds[c.type]
    [] c.type \in DOMAIN ExKinds -> ExKinds[c.type]
    [] OTHER -> "unknown"

\* operations().emplace_back<Node>(Param{...})
NodeOf(c) ==
  LET kind == KindOf(c) IN
  CASE kind = "Add" -> AddNode(c)
    [] kind = "Sub" -> SubNode(c)
    [] kind = "Mul" -> MulNode(c)
    [] kind = "Div" -> DivNode(c)
    [] kind = "SquaredDifference" -> SquaredDifferenceNode(c)
    [] kind = "Conv2DImplicit" -> Conv2DImplicitNode(c)
    [] kind = "Conv2DExplicit" -> Conv2DExplicitNode(c)
    [] kind = "DepthwiseConv2DImplicit" -> DepthwiseConv2DImplicitNode(c)
    [] kind = "DepthwiseConv2DExplicit" -> DepthwiseConv2DExplicitNode(c)
    [] kind = "MaxPool2DImplicit" -> MaxPool2DImplicitNode(c)
    [] kind = "MaxPool2DExplicit" -> MaxPool2DExplicitNode(c)
    [] kind = "AvgPool2DImplicit" -> AvgPool2DImplicitNode(c)
    [] kind = "AvgPool2DExplicit" -> AvgPool2DExplicitNode(c)
    [] kind = "L2Pool2DImplicit" -> L2Pool2DImplicitNode(c)
    [] kind = "L2Pool2DExplicit" -> L2Pool2DExplicitNode(c)
    [] kind = "Cast" -> CastNode(c)
    [] kind = "Dequantize" -> DequantizeNode(c)
    [] kind = "Floor" -> FloorNode(c)
    [] kind = "L2Normalization" -> L2NormalizationNode(c)
    [] kind = "Logistic" -> LogisticNode(c)
    [] kind = "ReLU" -> ReLUNode(c)
    [] kind = "ReLU1" -> ReLU1Node(c)
    [] kind = "ReLU6" -> ReLU6Node(c)
    [] kind = "RSQRT" -> RSQRTNode(c)
    [] kind = "Tanh" -> TanhNode(c)
    [] kind = "FullyConnected" -> FullyConnectedNode(c)
    [] kind = "Gather" -> GatherNode(c)
    [] kind = "Mean" -> MeanNode(c)
    [] kind = "Pad" -> PadNode(c)
    [] kind = "ReduceMax" -> ReduceMaxNode(c)
    [] kind = "Reshape" -> ReshapeNode(c)
    [] kind = "ResizeBilinear" -> ResizeBilinearNode(c)
    [] kind = "Softmax" -> SoftmaxNode(c)
    [] kind = "SpaceToDepth" -> SpaceToDepthNode(c)
    [] kind = "StridedSlice" -> StridedSliceNode(c)
    [] kind = "TopKV2" -> TopKV2Node(c)
    [] kind = "Transpose" -> TransposeNode(c)
    [] kind = "EmbeddingLookup" -> EmbeddingLookupNode(c)
    [] kind = "HashtableLookup" -> HashtableLookupNode(c)
    [] kind = "RNN" -> RNNNode(c)
    [] kind = "LSTM" -> LSTMNode(c)
    [] kind = "Concat" -> ConcatNode(c)
    [] kind = "Squeeze" -> SqueezeNode(c)
    [] kind = "Split" -> SplitNode(c)
    [] kind = "unknown" -> NoNode

\* The assertions on the counts hold, and the type has a case.
WellFormed(c) == NodeOf(c) # NoNode
=============================================================================
