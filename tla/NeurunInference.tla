-------------------------- MODULE NeurunInference --------------------------
(***************************************************************************)
(* A model of neurun from the operands of the NN API to the data in its    *)
(* outputs, on one backend: the planner gives each operand a tensor, the   *)
(* stage generator each operation its functions, the initializers fill the *)
(* weights, the sources push, the functions run, the sinks pull.           *)
(*                                                                         *)
(* The client lays its data out as NHWC, and so does the CPU backend.  A   *)
(* tensor of the Compute Library has the axes W, H, C, N from the inside,  *)
(* and unused cells at the end of its rows when the functions that were    *)
(* configured asked for them.  Floats are integers here; the averages of   *)
(* an instance must be whole.  The functions of the Compute Library and of *)
(* TFLite are external: only what they are given is the code's.            *)
(*                                                                         *)
(* An assertion that fails ends the process.  A build without assertions   *)
(* goes on past the one on the axis of a concatenation and the ones on the *)
(* height and width of a reshaped map; what it does past the others is     *)
(* undefined, and left out.  All tensors are float ones.                   *)
(***************************************************************************)
EXTENDS Integers, Sequences, FiniteSets, SequencesExt, FiniteSetsExt, Tensors

CONSTANTS Models,        \* the models, see below
          MaxComputes,   \* bound: how often an execution is computed
          StaticBuffer   \* kStaticBufferSize, in elements

\* An operand is [dims, data]: the value of a scalar is data[0], and data is <<>>
\* for what is computed.  An operation is [type, ins, out], its inputs in the
\* order of the NN API.  A model has operands, ops, ins, outs, inputs (what the
\* client may give for each), the backend it is compiled for, padded (operands
\* whose tensors get unused cells) and inMemory: the weights are in a memory
\* object, and not copied.

VARIABLES net,       \* the model
          asserts,   \* the build evaluates assert (no NDEBUG)
          phase,     \* what the runtime does next; or how it ended
          nth,       \* how many operations, inputs or outputs it has done in it
          infos,     \* _tensor_info_ctx: the extents of the tensor of each operand
          tensors,   \* the tensor of each operand
          functions, \* Plan::_ops
          fed,       \* the data the client gave for each input
          got,       \* the data in the buffer of each output
          memory,    \* the memory object of the weights: "mapped", "freed"
          lost,      \* the weights were read after that, or a buffer was not to be had
          computes   \* how often startCompute was called

neurunVars == <<net, asserts, phase, nth, infos, tensors, functions, fed, got, memory, lost,
                computes>>

Dims(x) == net.operands[x].dims
Data(x) == net.operands[x].data
Scalar(x) == Data(x)[0]
Rank(x) == Len(Dims(x))

\* The constructors of the nodes: which inputs of an operation are tensors, and
\* which operands its parameters are.
TensorIns(o) ==
  CASE o.type \in {"CONV_2D", "FULLY_CONNECTED"} -> SubSeq(o.ins, 1, 3)
    [] o.type = "CONCATENATION" -> Front(o.ins)
    [] OTHER -> <<o.ins[1]>>

ConvParam(o) == [padding |-> o.ins[4], hstride |-> o.ins[5], vstride |-> o.ins[6],
                 activation |-> o.ins[7]]
PoolParam(o) == [padding |-> o.ins[2], hstride |-> o.ins[3], vstride |-> o.ins[4],
                 kw |-> o.ins[5], kh |-> o.ins[6], activation |-> o.ins[7]]
AxisParam(o) == Last(o.ins)
ActivationParam(o) == o.ins[4]           \* of FULLY_CONNECTED
ScaleParam(o) == o.ins[2]                \* of SOFTMAX

-----------------------------------------------------------------------------
(* Layouts                                                                  *)

\* asFeature and asKernel, of dimensions in the order NHWC.
AsFeature(dims) == [N |-> dims[1], H |-> dims[2], W |-> dims[3], C |-> dims[4]]

\* The indexes that feature::iterate and kernel::iterate go through.
Iterated(s) == Below(s.N) \X Below(s.C) \X Below(s.H) \X Below(s.W)

\* feature::index_of, and the same in the readers and views of kernels.
IndexOf(s, i) == i[1] * s.H * s.W * s.C + i[3] * s.W * s.C + i[4] * s.C + i[2]

\* The extents of asTensorInfo.
FeatureInfo(dims) == LET s == AsFeature(dims) IN <<s.W, s.H, s.C, s.N>>
MatrixInfo(h, w) == <<w, h, 1, 1>>
VectorInfo(n) == <<n, 1, 1, 1>>

\* A tensor seen as a feature map or a kernel: where its element i is in the
\* buffer of a CPU tensor, and in that of a tensor of the Compute Library.
ShapeOf(t) == [W |-> t.extent[1], H |-> t.extent[2], C |-> t.extent[3], N |-> t.extent[4]]
CellOf(t, i) == IF net.backend = "cpu" THEN IndexOf(ShapeOf(t), i)
                ELSE ElementOffset(t, <<i[4], i[3], i[2], i[1]>>)

\* What the views and readers read, and a tensor after they wrote.
Feature(t) == [i \in Iterated(ShapeOf(t)) |-> t.cells[CellOf(t, i)]]
Vector(t) == [n \in Below(t.extent[1]) |-> t.cells[ElementOffset(t, AtFlat(n))]]
WithFeature(t, map) == LET Where(i) == CellOf(t, i) IN Written(t, map, Where)
WithVector(t, v) == LET Where(n) == ElementOffset(t, AtFlat(n)) IN Written(t, v, Where)

\* Data of the client as a map, and a map as data of the client.
FromClient(s, data) == [i \in Iterated(s) |-> data[IndexOf(s, i)]]
ToClient(s, map) ==
  [p \in Below(s.N * s.H * s.W * s.C) |-> map[CHOOSE i \in DOMAIN map : IndexOf(s, i) = p]]

-----------------------------------------------------------------------------
(* The functions of TFLite and of the Compute Library                       *)

\* CalculateActivationRangeFloat
Lowest == -100000
Highest == 100000
ActivationRange(code) ==
  CASE code = 0 -> <<Lowest, Highest>>     \* ANEURALNETWORKS_FUSED_NONE
    [] code = 1 -> <<0, Highest>>          \* RELU
    [] code = 2 -> <<-1, 1>>               \* RELU1
    [] code = 3 -> <<0, 6>>                \* RELU6
Clamp(code, v) == LET range == ActivationRange(code)
                  IN  IF v < range[1] THEN range[1] ELSE IF v > range[2] THEN range[2] ELSE v
Activated(code, map) == [i \in DOMAIN map |-> Clamp(code, map[i])]

\* The cells of a map that the window at i covers in channel c, as offsets in
\* the window; w has the window's size, strides and padding.
Covered(map, w, i, c) ==
  {d \in Below(w.kh) \X Below(w.kw) :
     <<i[1], c, i[3] * w.vstride - w.top + d[1], i[4] * w.hstride - w.left + d[2]>> \in DOMAIN map}
CoveredCell(map, w, i, c, d) ==
  map[<<i[1], c, i[3] * w.vstride - w.top + d[1], i[4] * w.hstride - w.left + d[2]>>]

Convolved(map, kernel, bias, w, out) ==
  [i \in Iterated(out) |->
     bias[i[2]] + MapThenSumSet(
       LAMBDA c : MapThenSumSet(
         LAMBDA d : CoveredCell(map, w, i, c, d) * kernel[<<i[2], c, d[1], d[2]>>],
         Covered(map, w, i, c)),
       {k[2] : k \in DOMAIN kernel})]

MaxPooled(map, w, out) ==
  [i \in Iterated(out) |->
     Max({CoveredCell(map, w, i, i[2], d) : d \in Covered(map, w, i, i[2])})]

\* The padding does not count.
AvgPooled(map, w, out) ==
  [i \in Iterated(out) |->
     MapThenSumSet(LAMBDA d : CoveredCell(map, w, i, i[2], d), Covered(map, w, i, i[2]))
       \div Cardinality(Covered(map, w, i, i[2]))]

\* weights[o][n] for the n-th element of the input
Connected(v, weights, bias) ==
  [o \in DOMAIN weights |->
     bias[o] + MapThenSumSet(LAMBDA n : v[n] * weights[o][n], DOMAIN v)]

\* Any function of the row will do for the softmax.
SoftMaxed(v, beta) ==
  [n \in DOMAIN v |-> beta * v[n] - MapThenSumSet(LAMBDA m : v[m], DOMAIN v)]

\* The maps one after the other along an axis: 1 batch, 2 channel, 3 row, 4 column
Joined(maps, axis) ==
  LET Extent(k) == 1 + Max({i[axis] : i \in DOMAIN maps[k]})
      Start(k) == MapThenSumSet(Extent, 1 .. k - 1)
      Moved(k) == {[i EXCEPT ![axis] = @ + Start(k)] : i \in DOMAIN maps[k]}
  IN  [i \in UNION {Moved(k) : k \in DOMAIN maps} |->
         LET k == CHOOSE k \in DOMAIN maps : i \in Moved(k)
         IN  maps[k][[i EXCEPT ![axis] = @ - Start(k)]]]

-----------------------------------------------------------------------------
(* Planner and stage generators                                             *)

Same == 1        \* ANEURALNETWORKS_PADDING_SAME
Valid == 2       \* ANEURALNETWORKS_PADDING_VALID

\* What the visit of an operation asserts, but for what is in SoftAssertions.
Assertions(o) ==
  LET in == TensorIns(o)
      Map(x) == Rank(x) = 4
      s == AsFeature(Dims(in[1]))
      PaddingIsKnown(param) == Scalar(param.padding) \in {Same, Valid}
  IN  CASE o.type = "CONV_2D" ->
             Map(o.out) /\ Map(in[1]) /\ Map(in[2]) /\ Rank(in[3]) = 1
               /\ PaddingIsKnown(ConvParam(o))
        [] o.type = "MAX_POOL_2D" -> Map(o.out) /\ Map(in[1])
        [] o.type = "AVERAGE_POOL_2D" ->
             Map(o.out) /\ Map(in[1]) /\ PaddingIsKnown(PoolParam(o))
        [] o.type = "CONCATENATION" -> Map(o.out) /\ \A n \in DOMAIN in : Map(in[n])
        [] o.type = "FULLY_CONNECTED" ->
             /\ Rank(o.out) = 2 /\ Map(in[1]) /\ Rank(in[2]) = 2 /\ Rank(in[3]) = 1
             /\ s.C * s.H * s.W = Dims(in[2])[2]
        [] o.type = "RESHAPE" ->
             /\ Map(in[1]) /\ Rank(o.out) = 2 /\ Dims(o.out)[1] = 1
             /\ s.C * s.H * s.W = Dims(o.out)[2]
        [] o.type = "SOFTMAX" ->
             /\ Rank(in[1]) = 2 /\ Dims(in[1])[1] = 1 /\ Dims(o.out) = Dims(in[1])
             /\ (net.backend = "acl_cl" => Rank(ScaleParam(o)) = 0)

SoftAssertions(o) ==
  /\ o.type = "CONCATENATION" => Scalar(AxisParam(o)) = 3
  /\ o.type = "RESHAPE" => LET s == AsFeature(Dims(o.ins[1])) IN s.H = 1 /\ s.W = 1

\* The shape constraints of an operation.
ShapeConstraints(o) ==
  LET in == TensorIns(o)
      Infos(xs, Info(_)) == [x \in xs |-> Info(x)]
      AsMap(x) == FeatureInfo(Dims(x))
      AsVector(x) == VectorInfo(Last(Dims(x)))
      AsMatrix(x) == MatrixInfo(Dims(x)[1], Dims(x)[2])
  IN  CASE o.type = "CONV_2D" ->
             Infos({in[3]}, AsVector) @@ Infos({o.out, in[1], in[2]}, AsMap)
        [] o.type = "FULLY_CONNECTED" ->
             Infos({in[1]}, AsMap) @@ Infos({in[2]}, AsMatrix) @@ Infos({in[3], o.out}, AsVector)
        [] o.type = "RESHAPE" -> Infos({in[1]}, AsMap) @@ Infos({o.out}, AsVector)
        [] o.type = "SOFTMAX" -> Infos({in[1], o.out}, AsVector)
        [] OTHER -> Infos({o.out} \cup Range(in), AsMap)

ValidPadding == [top |-> 0, bottom |-> 0, left |-> 0, right |-> 0]

\* Fault: the odd cell of padding goes to the beginning
SamePaddingAtBeginning(ifm, ofm, stride, kw, kh) ==
  LET Total(in, out, by, size) == Max({0, (out - 1) * by + size - in})
      vertical == Total(ifm.H, ofm.H, stride.vertical, kh)
      horizontal == Total(ifm.W, ofm.W, stride.horizontal, kw)
  IN  [top |-> (vertical + 1) \div 2, bottom |-> vertical \div 2,
       left |-> (horizontal + 1) \div 2, right |-> horizontal \div 2]

SamePadding(ifm, ofm, stride, kw, kh) ==
  LET Total(in, out, by, size) == Max({0, (out - 1) * by + size - in})
      vertical == Total(ifm.H, ofm.H, stride.vertical, kh)
      horizontal == Total(ifm.W, ofm.W, stride.horizontal, kw)
  IN  [top |-> vertical \div 2, bottom |-> (vertical + 1) \div 2,
       left |-> horizontal \div 2, right |-> (horizontal + 1) \div 2]

\* The strides, the padding and the size of a window, as the layer gets them.
Window(o, param, kw, kh) ==
  LET stride == [horizontal |-> Scalar(param.hstride), vertical |-> Scalar(param.vstride)]
      padding == IF Scalar(param.padding) = Same
                 THEN SamePadding(AsFeature(Dims(o.ins[1])), AsFeature(Dims(o.out)), stride, kw, kh)
                 ELSE ValidPadding
  IN  padding @@ [hstride |-> stride.horizontal, vstride |-> stride.vertical, kw |-> kw, kh |-> kh]

\* A stage appends functions.  On acl_cl an activation is a function of its own,
\* in place, and a pool has none.
Function(fn, o, more) ==
  more @@ [fn |-> fn, ins |-> TensorIns(o), out |-> o.out, activation |-> 0]

AppendActivation(code, o) ==
  IF code = 1 THEN <<[fn |-> "relu", ins |-> <<o.out>>, out |-> o.out]>> ELSE <<>>

\* A convolution
KernelWindow(o) ==
  LET ker == AsFeature(Dims(o.ins[2])) IN Window(o, ConvParam(o), ker.W, ker.H)
CpuConv2D(o) ==
  <<Function("conv", o, [window |-> KernelWindow(o),
                         activation |-> Scalar(ConvParam(o).activation)])>>
AclConv2D(o) ==
  <<Function("conv", o, [window |-> KernelWindow(o)])>>
    \o AppendActivation(Scalar(ConvParam(o).activation), o)

\* A pool
PoolWindow(o) ==
  LET param == PoolParam(o) IN Window(o, param, Scalar(param.kw), Scalar(param.kh))
CpuMaxPool2D(o) ==
  <<Function("maxpool", o, [window |-> PoolWindow(o),
                            activation |-> Scalar(PoolParam(o).activation)])>>
CpuAvgPool2D(o) ==
  <<Function("avgpool", o, [window |-> PoolWindow(o),
                            activation |-> Scalar(PoolParam(o).activation)])>>
AclMaxPool2D(o) == <<Function("maxpool", o, [window |-> PoolWindow(o)])>>
AclAvgPool2D(o) == <<Function("avgpool", o, [window |-> PoolWindow(o)])>>

CpuConcat(o) == <<Function("concat", o, [axis |-> Scalar(AxisParam(o))])>>
AclConcat(o) == <<Function("aclconcat", o, [axis |-> Scalar(AxisParam(o))])>>

CpuFullyConnected(o) ==
  <<Function("fc", o, [activation |-> Scalar(ActivationParam(o))])>>
AclFullyConnected(o) ==
  <<Function("fc", o, <<>>)>> \o AppendActivation(Scalar(ActivationParam(o)), o)

CpuReshape(o) == <<Function("reshape", o, <<>>)>>
AclReshape(o) == <<Function("reshape", o, <<>>)>>

CpuSoftmax(o) == <<Function("softmax", o, [beta |-> Scalar(ScaleParam(o))])>>
AclSoftmax(o) == <<Function("softmax", o, [beta |-> Scalar(ScaleParam(o))])>>

Generate(o) ==
  LET On(cpu, acl) == IF net.backend = "cpu" THEN cpu ELSE acl
  IN  CASE o.type = "CONV_2D" -> On(CpuConv2D(o), AclConv2D(o))
        [] o.type = "MAX_POOL_2D" -> On(CpuMaxPool2D(o), AclMaxPool2D(o))
        [] o.type = "AVERAGE_POOL_2D" -> On(CpuAvgPool2D(o), AclAvgPool2D(o))
        [] o.type = "CONCATENATION" -> On(CpuConcat(o), AclConcat(o))
        [] o.type = "FULLY_CONNECTED" -> On(CpuFullyConnected(o), AclFullyConnected(o))
        [] o.type = "RESHAPE" -> On(CpuReshape(o), AclReshape(o))
        [] o.type = "SOFTMAX" -> On(CpuSoftmax(o), AclSoftmax(o))

\* ActivationBuilder::append throws "Not supported, yet".
Unsupported(o) ==
  net.backend = "acl_cl"
    /\ \/ o.type = "CONV_2D" /\ Scalar(ConvParam(o).activation) \notin {0, 1}
       \/ o.type = "FULLY_CONNECTED" /\ Scalar(ActivationParam(o)) \notin {0, 1}

-----------------------------------------------------------------------------
(* Initializers                                                             *)

\* The operands that get an initializer, in the order of std::map, and the
\* operation it is of: the last that asked for it.
Initializes(o, x) == o.type \in {"CONV_2D", "FULLY_CONNECTED"} /\ x \in {o.ins[2], o.ins[3]}
Initialized ==
  SetToSortSeq({x \in DOMAIN net.operands :
                  \E n \in DOMAIN net.ops : Initializes(net.ops[n], x)},
               LAMBDA x, y : x < y)
InitializedBy(x) == net.ops[Max({n \in DOMAIN net.ops : Initializes(net.ops[n], x)})]

\* What Data::base points to: a copy, or the memory of the client.
BaseOf(x) == IF net.inMemory /\ memory = "freed" THEN [n \in DOMAIN Data(x) |-> Junk] ELSE Data(x)

GenerateConvWeight(t, x) == WithFeature(t, FromClient(AsFeature(Dims(x)), BaseOf(x)))

\* The rows of the matrix follow one another, in the order NHWC or NCHW.
FlatOffset(s, i) ==
  IF net.backend = "cpu" THEN IndexOf(s, i)
  ELSE i[1] * s.C * s.H * s.W + i[2] * s.H * s.W + i[3] * s.W + i[4]

GenerateFullyConnectedWeight(t, o) ==
  LET ifm == AsFeature(Dims(o.ins[1]))
      s == [ifm EXCEPT !.N = Dims(o.ins[2])[1]]
      Where(i) == ElementOffset(t, AtFlat(FlatOffset(s, i)))
  IN  Written(t, FromClient(s, BaseOf(o.ins[2])), Where)

GenerateBias(t, x) == WithVector(t, BaseOf(x))

-----------------------------------------------------------------------------
(* The layers                                                               *)

\* The elements of a tensor in the order of its buffer, and row o of a matrix.
Flattened(t) ==
  LET e == t.extent
  IN  [n \in Below(e[1] * e[2] * e[3] * e[4]) |->
         t.cells[ElementOffset(t, <<n % e[1], (n \div e[1]) % e[2], n \div (e[1] * e[2]), 0>>)]]
Row(t, o) == [n \in Below(t.extent[1]) |-> t.cells[ElementOffset(t, <<n, o, 0, 0>>)]]

\* ConcatLayer of the CPU: the axis of TFLite counts from the inside of NHWC.
\* The result is an index of <<N, C, H, W>>.
CpuConcatAxis(axis) == <<2, 4, 3, 1>>[(4 - axis - 1) + 1]

\* ConcatLayer of acl_cl: that of the axis_map counts from the inside of NCHW.
AclConcatAxis(axis) == 4 - <<3, 1, 0, 2>>[axis + 1]

\* What its run asserts.
ConcatMatches(f) ==
  LET axis == AclConcatAxis(f.axis)
      Extents(x) == LET s == ShapeOf(tensors[x]) IN <<s.N, s.C, s.H, s.W>>
  IN  /\ \A k \in DOMAIN f.ins : \A a \in 1 .. 4 :
           a # axis => Extents(f.ins[k])[a] = Extents(f.out)[a]
      /\ Extents(f.out)[axis] = MapThenSumSet(LAMBDA k : Extents(f.ins[k])[axis], DOMAIN f.ins)

\* The size of the im2col buffer of ConvolutionLayer::convFloat32.
ConvBuffer(f) ==
  LET out == ShapeOf(tensors[f.out])
  IN  out.N * out.H * out.W * ShapeOf(tensors[f.ins[1]]).C * f.window.kh * f.window.kw

\* The tensor of f.out after the function f ran.
In(f, k) == tensors[f.ins[k]]
Out(f) == tensors[f.out]

ConvolutionLayer(f) ==
  WithFeature(Out(f), Activated(f.activation,
    Convolved(Feature(In(f, 1)), Feature(In(f, 2)), Vector(In(f, 3)), f.window, ShapeOf(Out(f)))))
MaxPoolLayer(f) ==
  WithFeature(Out(f), Activated(f.activation,
    MaxPooled(Feature(In(f, 1)), f.window, ShapeOf(Out(f)))))
AvgPoolLayer(f) ==
  WithFeature(Out(f), Activated(f.activation,
    AvgPooled(Feature(In(f, 1)), f.window, ShapeOf(Out(f)))))
CpuConcatLayer(f) ==
  WithFeature(Out(f), Joined([k \in DOMAIN f.ins |-> Feature(In(f, k))], CpuConcatAxis(f.axis)))
AclConcatLayer(f) ==
  WithFeature(Out(f), Joined([k \in DOMAIN f.ins |-> Feature(In(f, k))], AclConcatAxis(f.axis)))
FullyConnectedLayer(f) ==
  LET weights == [o \in Below(In(f, 2).extent[2]) |-> Row(In(f, 2), o)]
  IN  WithVector(Out(f), Activated(f.activation,
        Connected(Flattened(In(f, 1)), weights, Vector(In(f, 3)))))
ReshapeLayer(f) == WithVector(Out(f), Flattened(In(f, 1)))
SoftMaxLayer(f) == WithVector(Out(f), SoftMaxed(Vector(In(f, 1)), f.beta))
ActivationLayer(f) == [Out(f) EXCEPT !.cells = [p \in DOMAIN @ |-> Max({0, @[p]})]]

Ran(f) ==
  CASE f.fn = "conv" -> ConvolutionLayer(f)
    [] f.fn = "maxpool" -> MaxPoolLayer(f)
    [] f.fn = "avgpool" -> AvgPoolLayer(f)
    [] f.fn = "concat" -> CpuConcatLayer(f)
    [] f.fn = "aclconcat" -> AclConcatLayer(f)
    [] f.fn = "fc" -> FullyConnectedLayer(f)
    [] f.fn = "reshape" -> ReshapeLayer(f)
    [] f.fn = "softmax" -> SoftMaxLayer(f)
    [] f.fn = "relu" -> ActivationLayer(f)

-----------------------------------------------------------------------------
(* The runtime                                                              *)

Operation == net.ops[nth + 1]

\* On to the next element of this phase, or to the phase after it.
Advance(count, next) ==
  IF nth + 1 < count THEN nth' = nth + 1 /\ UNCHANGED phase ELSE nth' = 0 /\ phase' = next

Fail == phase' = (IF asserts THEN "aborted" ELSE "undefined") /\ UNCHANGED nth
Throw == phase' = "thrown" /\ UNCHANGED nth

\* ANeuralNetworksModel_addOperation: explicit padding, with 10 inputs, and most
\* operations are not supported.
AddOperation ==
  /\ phase = "build"
  /\ \/ /\ \/ /\ Operation.type \in {"CONV_2D", "MAX_POOL_2D", "AVERAGE_POOL_2D"}
              /\ Len(Operation.ins) = 7
           \/ Operation.type \in {"CONCATENATION", "FULLY_CONNECTED", "RESHAPE", "SOFTMAX"}
        /\ Advance(Len(net.ops), "plan")
     \/ /\ \/ /\ Operation.type \in {"CONV_2D", "MAX_POOL_2D", "AVERAGE_POOL_2D"}
              /\ Len(Operation.ins) = 10
           \/ Operation.type = "OTHER"
        /\ Throw
  /\ UNCHANGED <<net, asserts, infos, tensors, functions, fed, got, memory, lost, computes>>

\* Planner::visit
Visit ==
  /\ phase = "plan"
  /\ \/ /\ Assertions(Operation) /\ (asserts => SoftAssertions(Operation))
        /\ infos' = ShapeConstraints(Operation) @@ infos
        /\ Advance(Len(net.ops), "stage")
     \/ ~Assertions(Operation) /\ Fail /\ UNCHANGED infos
     \/ /\ Assertions(Operation) /\ asserts /\ ~SoftAssertions(Operation)
        /\ Fail /\ UNCHANGED infos
  /\ UNCHANGED <<net, asserts, tensors, functions, fed, got, memory, lost, computes>>

\* PlanBuilder::finalize runs the stages, and then the tensors are allocated.
RunStage ==
  /\ phase = "stage"
  /\ \/ /\ ~Unsupported(Operation)
        /\ functions' = functions \o Generate(Operation)
        /\ tensors' = IF nth + 1 < Len(net.ops) THEN tensors
                      ELSE [x \in DOMAIN infos |->
                              NewTensor(infos[x], IF net.backend = "acl_cl" /\ x \in net.padded
                                                  THEN 1 ELSE 0)]
        /\ Advance(Len(net.ops), IF Initialized = <<>> THEN "ready" ELSE "fill")
     \/ Unsupported(Operation) /\ Throw /\ UNCHANGED <<functions, tensors>>
  /\ UNCHANGED <<net, asserts, infos, fed, got, memory, lost, computes>>

\* It fills the weights.
Initialize ==
  /\ phase = "fill"
  /\ LET x == Initialized[nth + 1]
         o == InitializedBy(x)
     IN  tensors' = [tensors EXCEPT ![x] =
           IF x = o.ins[3] THEN GenerateBias(@, x)
           ELSE IF o.type = "CONV_2D" THEN GenerateConvWeight(@, x)
           ELSE GenerateFullyConnectedWeight(@, o)]
  /\ lost' = (lost \/ (net.inMemory /\ memory = "freed"))
  /\ Advance(Len(Initialized), "ready")
  /\ UNCHANGED <<net, asserts, infos, functions, fed, got, memory, computes>>

\* ANeuralNetworksMemory_free, by the client
FreeMemory ==
  /\ net.inMemory /\ memory = "mapped"
  /\ memory' = "freed"
  /\ UNCHANGED <<net, asserts, phase, nth, infos, tensors, functions, fed, got, lost, computes>>

\* The client sets the inputs and outputs of an execution, and starts it.
Boundary == Range(net.ins) \cup Range(net.outs)
StartCompute ==
  /\ phase = "ready"
  /\ computes < MaxComputes
  /\ computes' = computes + 1
  /\ \E data \in net.inputs : fed' = data
  /\ got' = [n \in DOMAIN net.outs |-> <<>>]
  /\ \/ /\ \A x \in Boundary : Rank(x) = 4 \/ (Rank(x) = 2 /\ Dims(x)[1] = 1)
        /\ phase' = "push" /\ UNCHANGED nth
     \/ (\E x \in Boundary : Rank(x) \notin {2, 4}) /\ Throw
     \/ (\E x \in Boundary : Rank(x) = 2 /\ Dims(x)[1] # 1) /\ Fail
  /\ UNCHANGED <<net, asserts, infos, tensors, functions, memory, lost>>

\* The tensor x after the data was pushed into it, and the data pulled from it.
VectorSource(x, data) == WithVector(tensors[x], data)
FeatureSource(x, data) == WithFeature(tensors[x], FromClient(AsFeature(Dims(x)), data))
VectorSink(x) == Vector(tensors[x])
FeatureSink(x) == ToClient(AsFeature(Dims(x)), Feature(tensors[x]))

PushInput ==
  /\ phase = "push"
  /\ LET x == net.ins[nth + 1]
         data == fed[nth + 1]
     IN  tensors' = [tensors EXCEPT ![x] =
           IF Rank(x) = 2 THEN VectorSource(x, data) ELSE FeatureSource(x, data)]
  /\ Advance(Len(net.ins), "run")
  /\ UNCHANGED <<net, asserts, infos, functions, fed, got, memory, lost, computes>>

\* run of the next function; that of a convolution does nothing when its buffer
\* is not to be had.
RunFunction ==
  /\ phase = "run"
  /\ LET f == functions[nth + 1]
     IN  \/ /\ f.fn = "aclconcat" => ConcatMatches(f)
            /\ tensors' = [tensors EXCEPT ![f.out] = Ran(f)]
            /\ Advance(Len(functions), "pull")
            /\ UNCHANGED lost
         \/ /\ f.fn = "conv" /\ net.backend = "cpu" /\ ConvBuffer(f) > StaticBuffer
            /\ lost' = TRUE
            /\ Advance(Len(functions), "pull")
            /\ UNCHANGED tensors
         \/ /\ f.fn = "aclconcat" /\ ~ConcatMatches(f)
            /\ Fail
            /\ UNCHANGED <<tensors, lost>>
  /\ UNCHANGED <<net, asserts, infos, functions, fed, got, memory, computes>>

PullOutput ==
  /\ phase = "pull"
  /\ LET x == net.outs[nth + 1]
     IN  got' = [got EXCEPT ![nth + 1] = IF Rank(x) = 2 THEN VectorSink(x) ELSE FeatureSink(x)]
  /\ Advance(Len(net.outs), "ready")
  /\ UNCHANGED <<net, asserts, infos, tensors, functions, fed, memory, lost, computes>>

NeurunInit ==
  /\ net \in Models /\ asserts \in BOOLEAN
  /\ phase = "build" /\ nth = 0
  /\ infos = <<>> /\ tensors = <<>> /\ functions = <<>>
  /\ fed = <<>> /\ got = <<>>
  /\ memory = "mapped" /\ lost = FALSE /\ computes = 0

NeurunStep == AddOperation \/ Visit \/ RunStage \/ Initialize \/ PushInput \/ RunFunction \/ PullOutput
NeurunNext == NeurunStep \/ FreeMemory \/ StartCompute

-----------------------------------------------------------------------------
(* Properties                                                               *)

\* What an operation means to the client, from the data of all operands before.
MeaningOf(values, o) ==
  LET Map(x) == FromClient(AsFeature(Dims(x)), values[x])
      shape == AsFeature(Dims(o.out))
      Beginning(code, in, out, by, size) ==
        IF code = Same /\ (out - 1) * by + size > in THEN ((out - 1) * by + size - in) \div 2 ELSE 0
      Tile(param, kw, kh) ==
        LET in == AsFeature(Dims(o.ins[1]))
        IN  [kw |-> kw, kh |-> kh,
             hstride |-> Scalar(param.hstride), vstride |-> Scalar(param.vstride),
             top |-> Beginning(Scalar(param.padding), in.H, shape.H, Scalar(param.vstride), kh),
             left |-> Beginning(Scalar(param.padding), in.W, shape.W, Scalar(param.hstride), kw)]
      Pool(param) == Tile(param, Scalar(param.kw), Scalar(param.kh))
      Conv(ker) == Tile(ConvParam(o), ker.W, ker.H)
      Result(param, map) == ToClient(shape, Activated(Scalar(param.activation), map))
  IN  CASE o.type = "CONV_2D" ->
             Result(ConvParam(o), Convolved(Map(o.ins[1]), Map(o.ins[2]), values[o.ins[3]],
                                            Conv(AsFeature(Dims(o.ins[2]))), shape))
        [] o.type = "MAX_POOL_2D" ->
             Result(PoolParam(o), MaxPooled(Map(o.ins[1]), Pool(PoolParam(o)), shape))
        [] o.type = "AVERAGE_POOL_2D" ->
             Result(PoolParam(o), AvgPooled(Map(o.ins[1]), Pool(PoolParam(o)), shape))
        [] o.type = "CONCATENATION" ->
             ToClient(shape, Joined([k \in DOMAIN TensorIns(o) |-> Map(o.ins[k])],
                                    <<1, 3, 4, 2>>[Scalar(AxisParam(o)) + 1]))
        [] o.type = "FULLY_CONNECTED" ->
             LET size == Dims(o.ins[2])[2]
                 weights == [r \in Below(Dims(o.ins[2])[1]) |->
                               [n \in Below(size) |-> values[o.ins[2]][r * size + n]]]
             IN  Activated(Scalar(ActivationParam(o)),
                           Connected(values[o.ins[1]], weights, values[o.ins[3]]))
        [] o.type = "RESHAPE" -> values[o.ins[1]]
        [] o.type = "SOFTMAX" -> SoftMaxed(values[o.ins[1]], Scalar(ScaleParam(o)))

Meaning ==
  LET given == [x \in Range(net.ins) |-> fed[CHOOSE n \in DOMAIN net.ins : net.ins[n] = x]]
      constants == [x \in DOMAIN net.operands |-> Data(x)]
  IN  FoldLeft(LAMBDA values, o : [values EXCEPT ![o.out] = MeaningOf(values, o)],
               given @@ constants, net.ops)

\* Where acl_cl is known not to compute what the operation means: it has no
\* activation after a pool, it fills the weights of a fully connected layer as
\* if their rows had no unused cells, and it reshapes in the order NCHW.
Deviates(o) ==
  /\ net.backend = "acl_cl"
  /\ \/ o.type \in {"MAX_POOL_2D", "AVERAGE_POOL_2D"} /\ Scalar(PoolParam(o).activation) # 0
     \/ o.type = "FULLY_CONNECTED" /\ o.ins[2] \in net.padded
     \/ o.type = "RESHAPE" /\ ~SoftAssertions(o)

NeurunTypeOK ==
  /\ phase \in {"build", "plan", "stage", "fill", "ready", "push", "run", "pull",
                "aborted", "undefined", "thrown"}
  /\ DOMAIN tensors \subseteq DOMAIN net.operands
  /\ \A x \in DOMAIN tensors : tensors[x].unused \in {0, 1}
  /\ memory \in {"mapped", "freed"} /\ lost \in BOOLEAN
  /\ computes \in 0 .. MaxComputes

(* When a compute has ended, each output holds what the operations mean for  *)
(* the data the client gave for it, on both backends: whatever the layouts,  *)
(* the padding, the strides and the order of the weights, and whatever the   *)
(* tensors held before; but for what is known to deviate, and when weights   *)
(* or a buffer were lost.                                                    *)
InferenceIsRight ==
  phase = "ready" /\ computes > 0 /\ ~lost /\ ~(\E n \in DOMAIN net.ops : Deviates(net.ops[n]))
    => \A n \in DOMAIN net.outs : got[n] = Meaning[net.outs[n]]
=============================================================================
