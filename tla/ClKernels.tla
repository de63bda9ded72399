----------------------------- MODULE ClKernels -----------------------------
(***************************************************************************)
(* The functions that the pure_arm_compute runtime does not take from the  *)
(* Compute Library: the OpenCL kernels of ARMComputeEx and the layers that *)
(* the runtime has of its own.  A client configures one function, and then *)
(* runs it: it pushes the inputs, the launches of the function go through  *)
(* the in-order command queue, and it pulls the output.                    *)
(*                                                                         *)
(* A launch is a set of work items, which the device takes in any order.   *)
(* A function on the CPU is a launch of one item: it maps its tensors, so  *)
(* it waits for the queue.  An item is a single step: the items of one     *)
(* launch write cells of their own, but for what KernelDeviates names.      *)
(***************************************************************************)
EXTENDS Transfer, FiniteSets

CONSTANTS Jobs,       \* what a client configures, see MCKernels for examples
          VecSize,    \* cells an item of a vector kernel takes: 16, or 8 in the mean
          MaxRounds   \* bound: how often the function runs

ASSUME VecAssumption == VecSize \in Nat \ {0}

\* A job is a record of
\*   kernel    the function
\*   operands  [dims, unused, corrected, data] for each; the output is the last.
\*             unused: what other functions asked for behind the rows; corrected:
\*             the outer axes of extent 1 are dropped; data: of a constant, or <<>>
\*   args      the parameters
\*   local     what a launch finds in local memory
\*   inputs    the contents a client may push, by operand
VARIABLES job,
          buffers,    \* the tensors of the operands, and those the function keeps
          step,       \* "configure", "idle", "run", "thrown" or "aborted"
          queue,      \* the launches that have not ended, and
          left,       \* the items of the first one that have not run
          localSum,   \* local memory of the mean
          sent, received,   \* by the client, in this round
          rounds

kernelVars == <<job, buffers, step, queue, left, localSum, sent, received, rounds>>

-----------------------------------------------------------------------------
(* Tensors                                                                  *)

Result == Len(job.operands)
DimsOf(n) == job.operands[n].dims
IsConstant(n) == job.operands[n].data # <<>>
Extent(n, k) == buffers[n].extent[k]
Cell(n, p) == IF p \in DOMAIN buffers[n].cells THEN buffers[n].cells[p] ELSE Junk
Size(n) == Cardinality(DOMAIN buffers[n].cells)
ByCoordinate(n, c) == Cell(n, ElementOffset(buffers[n], c))
Dense(t) == t.border = 0 /\ t.unused = 0

\* asTensorShape with or without the correction of the number of dimensions
NumDims(n) == IF job.operands[n].corrected THEN NumDimensions(buffers[n]) ELSE Len(DimsOf(n))

CeilToMultiple(n, k) == ((n + k - 1) \div k) * k
Clip(n, low, high) == IF n < low THEN low ELSE IF n > high THEN high ELSE n
Truncated(x, y) ==
  IF (x < 0) = (y < 0) THEN (IF x < 0 THEN -x ELSE x) \div (IF y < 0 THEN -y ELSE y)
  ELSE -((IF x < 0 THEN -x ELSE x) \div (IF y < 0 THEN -y ELSE y))

\* The items of a kernel whose window steps over a tensor by `step` cells of a row.
VectorItems(n) ==
  Below(CeilToMultiple(Extent(n, 1), VecSize) \div VecSize)
    \X Below(Extent(n, 2)) \X Below(Extent(n, 3)) \X Below(Extent(n, 4))

\* What an item does: it writes cells of one tensor.
Effect(n, writes) == [to |-> n, writes |-> writes]
VectorEffect(item, Value(_)) ==
  LET first == ElementOffset(buffers[Result], <<item[1] * VecSize, item[2], item[3], item[4]>>)
  IN  Effect(Result, [p \in {first + i : i \in Below(VecSize)} |->
                     Value(<<item[1] * VecSize + p - first, item[2], item[3], item[4]>>)])

\* CLFillBorderKernel, limited to the padding that the tensor has; edge is the
\* nearest cell of the tensor when the border replicates it.
BorderEffect(n, size, replicate, value) ==
  LET t == buffers[n]
      around == IF size < t.border THEN size ELSE t.border
      behind == IF size < t.border + t.unused THEN size ELSE t.border + t.unused
      inside == Box(t.extent)
      cells == {<<x, y, z, w>> : x \in -around .. t.extent[1] - 1 + behind,
                                 y \in -around .. t.extent[2] - 1 + around,
                                 z \in Below(t.extent[3]), w \in Below(t.extent[4])} \ inside
      At(p) == CHOOSE c \in cells : ElementOffset(t, c) = p
      Nearest(c) == <<Clip(c[1], 0, t.extent[1] - 1), Clip(c[2], 0, t.extent[2] - 1), c[3], c[4]>>
  IN  Effect(n, [p \in {ElementOffset(t, c) : c \in cells} |->
                   IF replicate THEN ByCoordinate(n, Nearest(At(p))) ELSE value])

-----------------------------------------------------------------------------
(* Gather: the rows of operand 1 at the indices of operand 2                *)

GatherKernel ==
  CASE NumDims(1) = 1                 -> "gather_1d"
    [] NumDims(1) = 2 /\ NumDims(Result) = 1 -> "gather_1d_out"
    [] NumDims(1) = 2 /\ NumDims(Result) # 1 -> "gather"
    [] OTHER                       -> "none"          \* run enqueues nothing
GatherLaunches ==
  IF GatherKernel = "none" THEN <<>>
  ELSE <<[name |-> GatherKernel, items |-> Below(Extent(2, 1))]>>

\* A row is copied with the cells behind it.
gather(g) ==
  LET in == RowCells(buffers[1])
      first == RowCells(buffers[Result]) * g
  IN  Effect(Result, [p \in {first + i : i \in Below(in)} |-> Cell(1, in * Cell(2, g) + p - first)])
gather_1d_out(g) ==
  LET in == RowCells(buffers[1])
  IN  Effect(Result, [p \in {g + i : i \in Below(in)} |-> Cell(1, in * Cell(2, g) + p - g)])
gather_1d(g) == Effect(Result, [p \in {g} |-> Cell(1, Cell(2, g))])

-----------------------------------------------------------------------------
(* ReduceMax, on the CPU: the largest of each row                           *)

ReduceMaxValid == job.args.axis = 1 /\ NumDims(1) = 2 /\ NumDims(Result) = 1

ReduceMax_run_on_cpu ==
  LET cols == Extent(1, 1)
      MaxOf(row) == LET cells == {Cell(1, row * cols + j) : j \in Below(cols)}
                    IN  CHOOSE v \in cells : \A u \in cells : u <= v
  IN  Effect(Result, [i \in Below(Extent(1, 2)) |-> MaxOf(i)])

-----------------------------------------------------------------------------
(* Mean over width and height: one launch for each channel and batch.  What *)
(* local memory holds at the beginning of a launch is not defined.          *)

\* validate_arguments makes an error of any other axes, and drops it.
MeanAxesSupported == job.args.axes = {0, 1}
MeanBorder == CeilToMultiple(Extent(1, 1), VecSize) - Extent(1, 1)
MeanWindow == Below(CeilToMultiple(Extent(1, 1), VecSize) \div VecSize)
MeanLaunches ==
  <<[name |-> "fill_border", items |-> {0}]>>
  \o [s \in 1 .. Extent(1, 3) * Extent(1, 4) |->
        [name |-> "reduction_mean",
         items |-> {<<g, (s - 1) % Extent(1, 3), (s - 1) \div Extent(1, 3)>> : g \in MeanWindow}]]

\* sum_8 of each row, by a single item
SumOf(item) ==
  LET rows == Extent(1, 2)
      cells == VecSize * rows
      sum[i \in 0 .. cells] ==
        IF i = 0 THEN 0
        ELSE sum[i - 1] + ByCoordinate(1, <<item[1] * VecSize + ((i - 1) % VecSize),
                                            (i - 1) \div VecSize, item[2], item[3]>>)
  IN  sum[cells]
reduction_mean(item) ==
  Effect(Result, [p \in {ElementOffset(buffers[Result], <<item[1], 0, item[2], item[3]>>)} |->
                 Truncated(localSum + SumOf(item), Extent(1, 1) * Extent(1, 2))])

-----------------------------------------------------------------------------
(* StridedSlice: operands 2, 3 and 4 are the begins, the ends and the       *)
(* strides, in the order of the axes of the tensor; so are the masks.       *)

Far == 1000     \* beyond every extent, for the limits of int32_t

Bit(mask, b) == (mask \div 2 ^ b) % 2

ReorderBits(in, numOfBits) ==
  LET out[i \in 0 .. numOfBits] ==
        IF i = 0 THEN 0
        ELSE out[i - 1] + Bit(in, numOfBits - i)
                          * 2 ^ (numOfBits - ToARMComputeAxis(numOfBits, i - 1) - 1)
  IN  out[numOfBits]

\* Fault: a negative begin is not counted from the end
StartForAxisFromFront(mask, begin, stride, axisSize, axis) ==
  LET start == IF Bit(mask, axis) = 0 THEN begin ELSE IF stride > 0 THEN -Far ELSE Far
  IN  Clip(start, 0, axisSize - 1)

StartForAxis(mask, begin, stride, axisSize, axis) ==
  LET start == IF Bit(mask, axis) = 0 THEN begin ELSE IF stride > 0 THEN -Far ELSE Far
  IN  Clip(IF start < 0 THEN start + axisSize ELSE start, 0, axisSize - 1)

StopForAxis(mask, end, stride, axisSize, axis) ==
  LET stop == IF Bit(mask, axis) = 0 THEN end ELSE IF stride > 0 THEN Far ELSE -Far
      counted == IF stop < 0 THEN stop + axisSize ELSE stop
  IN  IF stride > 0 THEN Clip(counted, 0, axisSize) ELSE Clip(counted, -1, axisSize - 1)

\* An assertion refuses a negative result; no job of the instance has one.
GetOutDim(start, stop, stride) ==
  IF stride > 0 THEN Truncated(stop - start - 1, stride) + 1
  ELSE Truncated(stop - start + 1, stride) + 1

BeginMask == ReorderBits(job.args.beginMask, Len(DimsOf(1)))
EndMask == ReorderBits(job.args.endMask, Len(DimsOf(1)))

\* By assertion, as all checks that the validate functions make with ERROR_ON:
\* the build of the library has its assertions.
StridedSliceValid ==
  /\ NumDims(2) = 1 /\ Extent(2, 1) <= 4
  /\ \A n \in {3, 4} : buffers[n].extent = buffers[2].extent

\* What run passes to the kernel, along an axis: [start, stride, in, out]
SliceArgument(axis) ==
  LET stride == Cell(4, axis - 1)
      size == Extent(1, axis)
      start == StartForAxis(BeginMask, Cell(2, axis - 1), stride, size, axis - 1)
      stop == StopForAxis(EndMask, Cell(3, axis - 1), stride, size, axis - 1)
  IN  IF axis <= Extent(2, 1)
      THEN [start |-> start, stride |-> stride, in |-> size, out |-> GetOutDim(start, stop, stride)]
      ELSE [start |-> 0, stride |-> 1, in |-> 1, out |-> 1]
StridedSliceLaunches ==
  <<[name |-> "strided_slice", items |-> Below(TotalSize(buffers[Result]))]>>

\* The offset of an index in four dense dimensions.
Tensor4D(dims, index) ==
  index[1] + dims[1] * (index[2] + dims[2] * (index[3] + dims[3] * index[4]))
strided_slice(g) ==
  LET a == [axis \in 1 .. 4 |-> SliceArgument(axis)]
      in == [axis \in 1 .. 4 |-> a[axis].in]
      out == [axis \in 1 .. 4 |-> a[axis].out]
      width[axis \in 1 .. 4] == IF axis = 1 THEN 1 ELSE width[axis - 1] * out[axis - 1]
      index == [axis \in 1 .. 4 |->
                  a[axis].start + a[axis].stride * ((g \div width[axis]) % out[axis])]
  IN  Effect(Result, [p \in {g} |-> Cell(1, Tensor4D(in, index))])

\* CLStridedSliceCPU, which goes through the axes of the input one by one
CpuSliceArgument(axis) ==
  LET given == axis <= NumDims(1)
      stride == IF given THEN Cell(4, axis - 1) ELSE 1
      begin == IF given THEN Cell(2, axis - 1) ELSE 0
      end == IF given THEN Cell(3, axis - 1) ELSE 1
      size == Extent(1, axis)
      start == StartForAxis(BeginMask, begin, stride, size, axis - 1)
      stop == StopForAxis(EndMask, end, stride, size, axis - 1)
  IN  [start |-> start, stride |-> stride, out |-> GetOutDim(start, stop, stride),
       steps |-> {i \in Below(size) : IF stride > 0 THEN start + i * stride < stop
                                      ELSE start + i * stride > stop}]
CpuStridedSlice ==
  LET a == [axis \in 1 .. 4 |-> CpuSliceArgument(axis)]
      out == [axis \in 1 .. 4 |-> a[axis].out]
      steps == a[1].steps \X a[2].steps \X a[3].steps \X a[4].steps
      From(i) == Tensor4D(buffers[1].extent,
                          [axis \in 1 .. 4 |-> a[axis].start + a[axis].stride * i[axis]])
  IN  Effect(Result, [p \in {Tensor4D(out, i) : i \in steps} |->
                     Cell(1, From(CHOOSE i \in steps : Tensor4D(out, i) = p))])

-----------------------------------------------------------------------------
(* Cast: from the type of one tensor to the type of another.  The numbers   *)
(* are whole, and so are the scales of the quantized types.                 *)

Quantized(type) == type.name = "QASYMM8"
Byte(n) == n \in 0 .. 255
Dequantize(type, n) == (n - type.offset) * type.scale

CastKernel ==
  IF Quantized(job.args.in) THEN "cast_qasymm_in"
  ELSE IF Quantized(job.args.out) THEN "cast_qasymm_out" ELSE "cast"
cast(item) == LET Value(c) == ByCoordinate(1, c) IN VectorEffect(item, Value)

\* The number becomes one of the type of the output, whatever that is.
cast_qasymm_in(item) ==
  LET Value(c) == LET n == Dequantize(job.args.in, ByCoordinate(1, c))
                  IN  IF ~Quantized(job.args.out) \/ Byte(n) THEN n ELSE Junk
  IN  VectorEffect(item, Value)
\* convert of a number that a byte does not hold is not defined.
cast_qasymm_out(item) ==
  LET Value(c) == LET n == Truncated(ByCoordinate(1, c) + job.args.out.offset * job.args.out.scale,
                                     job.args.out.scale)
                  IN  IF Byte(n) THEN n ELSE Junk
  IN  VectorEffect(item, Value)

\* SimpleCastLayer, one cell after the other; its quantization saturates.
CopyCast(n) ==
  IF Quantized(job.args.out)
  THEN Clip(Truncated(n, job.args.out.scale) + job.args.out.offset, 0, 255) ELSE n
CastData(n) == CopyCast(IF Quantized(job.args.in) THEN Dequantize(job.args.in, n) ELSE n)
EachElement(Value(_)) ==
  LET t == buffers[Result]
      At(p) == CHOOSE c \in Box(t.extent) : ElementOffset(t, c) = p
  IN  Effect(Result, [p \in {ElementOffset(t, c) : c \in Box(t.extent)} |-> Value(At(p))])
SimpleCast == LET Value(c) == CastData(ByCoordinate(1, c)) IN EachElement(Value)

-----------------------------------------------------------------------------
(* PixelWiseDivision: with broadcasting, of at most three axes, scale 1     *)

BroadcastShape ==
  [k \in 1 .. 4 |-> IF Extent(1, k) = 1 THEN Extent(2, k) ELSE Extent(1, k)]
DivisionValid ==
  /\ \A k \in 1 .. 4 : Extent(1, k) = Extent(2, k) \/ 1 \in {Extent(1, k), Extent(2, k)}
  /\ BroadcastShape = buffers[Result].extent
  /\ job.args.type \in {"S16", "F32"}

DivisionBorderSize ==
  LET narrow == IF Extent(1, 1) < Extent(2, 1) THEN Extent(1, 1) ELSE Extent(2, 1)
  IN  Clip(Extent(Result, 1) - narrow, 0, VecSize - 1)
Broadcasted == IF Extent(1, 1) = 1 THEN 1 ELSE 2
DivisionLaunches ==
  (IF Extent(Result, 1) > 1 /\ Extent(Broadcasted, 1) = 1
   THEN <<[name |-> "replicate_border", items |-> {0}]>> ELSE <<>>)
  \o <<[name |-> "pixelwise_div", items |-> VectorItems(Result)]>>

\* broadcast_if_dimension_le_one: an axis of extent 1 has no step, but an item
\* still reads the cells of a vector.
BroadcastCell(n, c) ==
  ByCoordinate(n, [k \in 1 .. 4 |->
    IF Extent(n, k) > 1 THEN c[k] ELSE IF k = 1 THEN c[1] % VecSize ELSE 0])
\* The kernel for integers truncates, and then saturates.
Divided(x, y) ==
  IF job.args.type = "S16" THEN Clip(Truncated(x, y), -32768, 32767) ELSE Truncated(x, y)
pixelwise_div(item) ==
  LET Value(c) == Divided(BroadcastCell(1, c), BroadcastCell(2, c)) IN VectorEffect(item, Value)

-----------------------------------------------------------------------------
(* EmbeddingLookup: the slices of operand 2 at the indices of operand 1     *)

AlongAxis(axis, i) == [k \in 1 .. 4 |-> IF k = axis THEN i ELSE 0]
LookupThrows ==
  NumDims(2) \notin 2 .. 4 \/ \E i \in Below(Extent(1, 1)) : Cell(1, i) \notin Below(Extent(2, NumDims(2)))
\* A slice is an even share of the buffer; the copies follow one another.
EmbeddingLookup ==
  LET axis == NumDims(2)
      share == Size(2) \div Extent(2, axis)
      Source(i) == ElementOffset(buffers[2], AlongAxis(axis, Cell(1, i)))
      Sink(i) == ElementOffset(buffers[Result], AlongAxis(axis, i))
      Covers(i) == {Sink(i) + j : j \in Below(share)}
      Last(p) == CHOOSE i \in Below(Extent(1, 1)) :
                   p \in Covers(i) /\ \A k \in Below(Extent(1, 1)) : p \in Covers(k) => k <= i
  IN  Effect(Result, [p \in UNION {Covers(i) : i \in Below(Extent(1, 1))} |->
                     Cell(2, Source(Last(p)) + p - Sink(Last(p)))])

-----------------------------------------------------------------------------
(* SpaceToDepth: blocks of the plane move to the depth                      *)

SpaceToDepthAsserts == NumDims(1) = 4 /\ NumDims(Result) = 4
SpaceToDepthRunAsserts ==
  /\ Extent(1, 4) = Extent(Result, 4)
  /\ Extent(1, 1) = Extent(Result, 1) * job.args.block
  /\ Extent(1, 2) = Extent(Result, 2) * job.args.block
  /\ Extent(Result, 3) = Extent(1, 3) * job.args.block * job.args.block
Offset4D(n, c) ==
  c[1] + Extent(n, 1) * (c[2] + Extent(n, 2) * (c[3] + Extent(n, 3) * c[4]))

SpaceToDepth ==
  LET b == job.args.block
      To(c) == <<c[1] \div b, c[2] \div b,
                 c[3] + ((c[2] % b) * b + (c[1] % b)) * Extent(1, 3), c[4]>>
      all == Box(buffers[1].extent)
  IN  Effect(Result, [p \in {Offset4D(Result, To(c)) : c \in all} |->
                     Cell(1, Offset4D(1, CHOOSE c \in all : Offset4D(Result, To(c)) = p))])

-----------------------------------------------------------------------------
(* Pad: the input gets a border, and the output its buffer                  *)

PadLaunches == <<[name |-> "fill_border", items |-> {0}],
                 [name |-> "populate_output", items |-> {0}]>>
PopulateOutput == Effect(Result, [p \in Below(Extent(Result, 1) * Extent(Result, 2)) |-> Cell(1, p)])

-----------------------------------------------------------------------------
(* Reshape: from W, H and C to C, W and H, and then cell after cell.  The   *)
(* permutation, the reshape and the product of the fully connected layer    *)
(* are functions of the Compute Library.                                    *)

Permuted == Result + 1       \* a tensor of the layer
GenericReshapeLaunches == <<[name |-> "permute", items |-> {0}], [name |-> "reshape", items |-> {0}]>>
Permute ==
  LET all == Box(buffers[1].extent)
      To(c) == ElementOffset(buffers[Permuted], <<c[3], c[1], c[2], c[4]>>)
  IN  Effect(Permuted, [p \in {To(c) : c \in all} |-> ByCoordinate(1, CHOOSE c \in all : To(c) = p)])

\* The cells of a tensor that has no padding to those of one that may have.
ReshapeOf(from, to) ==
  LET t == buffers[to]
      all == Box(t.extent)
      At(p) == CHOOSE c \in all : ElementOffset(t, c) = p
  IN  Effect(to, [p \in {ElementOffset(t, c) : c \in all} |-> Cell(from, Offset4D(to, At(p)))])

\* A fully connected layer with an input of rank 4 reshapes it into a buffer.
NeedsReshape == Len(DimsOf(1)) = 4
FcBuffer == Result + 2
FullyConnectedLaunches ==
  (IF NeedsReshape THEN GenericReshapeLaunches ELSE <<>>)
  \o <<[name |-> "fully_connected", items |-> VectorItems(Result)]>>
FullyConnected(item) ==
  LET in == IF NeedsReshape THEN FcBuffer ELSE 1
      Value(c) ==
        LET sum[k \in 0 .. Extent(2, 1)] ==
              IF k = 0 THEN ByCoordinate(3, <<c[1], 0, 0, 0>>)
              ELSE sum[k - 1] + ByCoordinate(in, <<k - 1, c[2], 0, 0>>)
                                * ByCoordinate(2, <<k - 1, c[1], 0, 0>>)
        IN  IF c[1] < Extent(Result, 1) THEN sum[Extent(2, 1)] ELSE Junk
  IN  VectorEffect(item, Value)

-----------------------------------------------------------------------------
(* Arithmetic                                                               *)

\* The difference, and then its square in the same tensor.
SquaredDifferenceLaunches ==
  <<[name |-> "sub", items |-> VectorItems(Result)], [name |-> "mul", items |-> VectorItems(Result)]>>
Subtract(item) ==
  LET Value(c) == BroadcastCell(1, c) - BroadcastCell(2, c) IN VectorEffect(item, Value)
Multiply(item) ==
  LET Value(c) == ByCoordinate(Result, c) * ByCoordinate(Result, c) IN VectorEffect(item, Value)

\* SimpleArithmeticAddition; the bytes of the quantized type are not rescaled.
SimpleAddition ==
  LET Value(c) == LET n == ByCoordinate(1, c) + ByCoordinate(2, c)
                  IN  IF Quantized(job.args.type) THEN n % 256 ELSE n
  IN  EachElement(Value)

-----------------------------------------------------------------------------
(* Configure: what a function asks of its tensors, and refuses              *)

\* The cells behind the rows that the windows of a vector kernel reach.
AskedUnused(n, extent) ==
  IF \/ job.kernel \in {"cast", "div", "squared_difference"}
     \/ job.kernel = "mean" /\ n = 1
     \/ job.kernel = "fully_connected" /\ n = Result
  THEN CeilToMultiple(extent[1], VecSize) - extent[1] ELSE 0
AskedBorder(n) == IF job.kernel = "pad" /\ n = 1 THEN job.args.width ELSE 0
NewOperand(n) ==
  LET extent == AsTensorShape(DimsOf(n))
      asked == AskedUnused(n, extent)
      unused == job.operands[n].unused
      t == NewBorderedTensor(extent, AskedBorder(n), IF asked > unused THEN asked ELSE unused)
  IN  IF ~IsConstant(n) THEN t
      ELSE IF job.kernel \in {"slice", "slice_cpu"}
      THEN InitReorderVectorTensor(t, DimsOf(n)[1], job.operands[n].data)
      ELSE Fill(t, DimsOf(n), job.operands[n].data)

\* The tensors of a layer: dense, and inaccessible from outside.
Inner ==
  LET extent == AsTensorShape(DimsOf(1))
      permuted == <<extent[3], extent[1], extent[2], extent[4]>>
  IN  CASE job.kernel = "reshape" -> <<NewTensor(permuted, 0)>>
        [] job.kernel = "fully_connected" /\ NeedsReshape ->
             <<NewTensor(permuted, 0),
               NewTensor(AsTensorShape(<<DimsOf(Result)[1], DimsOf(2)[2]>>), 0)>>
        [] OTHER -> <<>>

Throws ==
  \/ job.kernel = "reduce_max" /\ ~ReduceMaxValid
  \/ job.kernel \in {"slice", "slice_cpu"} /\ ~StridedSliceValid
  \/ job.kernel = "div" /\ ~DivisionValid
AssertsFail == job.kernel = "space_to_depth" /\ ~SpaceToDepthAsserts

\* The tensors come first; here with their memory, which nothing reads before
\* the function runs.
Allocate ==
  /\ step = "configure"
  /\ buffers' = [n \in 1 .. Result |-> NewOperand(n)] \o Inner
  /\ step' = "allocated"
  /\ UNCHANGED <<job, queue, left, localSum, sent, received, rounds>>
Configure ==
  /\ step = "allocated"
  /\ step' = IF Throws THEN "thrown" ELSE IF AssertsFail THEN "aborted" ELSE "idle"
  /\ UNCHANGED <<job, buffers, queue, left, localSum, sent, received, rounds>>

-----------------------------------------------------------------------------
(* Running                                                                  *)

OneItem(name) == <<[name |-> name, items |-> {0}]>>
Launches ==
  CASE job.kernel = "gather"             -> GatherLaunches
    [] job.kernel = "mean"               -> MeanLaunches
    [] job.kernel = "slice"              -> StridedSliceLaunches
    [] job.kernel = "cast"               -> <<[name |-> CastKernel, items |-> VectorItems(1)]>>
    [] job.kernel = "div"                -> DivisionLaunches
    [] job.kernel = "pad"                -> PadLaunches
    [] job.kernel = "reshape"            -> GenericReshapeLaunches
    [] job.kernel = "fully_connected"    -> FullyConnectedLaunches
    [] job.kernel = "squared_difference" -> SquaredDifferenceLaunches
    [] job.kernel \in {"reduce_max", "slice_cpu", "simple_cast", "embedding_lookup",
                       "space_to_depth", "simple_add"} -> OneItem(job.kernel)

EffectOf(name, item) ==
  CASE name = "gather"             -> gather(item)
    [] name = "gather_1d_out"      -> gather_1d_out(item)
    [] name = "gather_1d"          -> gather_1d(item)
    [] name = "reduce_max"         -> ReduceMax_run_on_cpu
    [] name = "fill_border"        ->
         BorderEffect(1, IF job.kernel = "pad" THEN job.args.width ELSE MeanBorder, FALSE, 0)
    [] name = "reduction_mean"     -> reduction_mean(item)
    [] name = "strided_slice"      -> strided_slice(item)
    [] name = "slice_cpu"          -> CpuStridedSlice
    [] name = "cast"               -> cast(item)
    [] name = "cast_qasymm_in"     -> cast_qasymm_in(item)
    [] name = "cast_qasymm_out"    -> cast_qasymm_out(item)
    [] name = "simple_cast"        -> SimpleCast
    [] name = "replicate_border"   -> BorderEffect(Broadcasted, DivisionBorderSize, TRUE, 0)
    [] name = "pixelwise_div"      -> pixelwise_div(item)
    [] name = "embedding_lookup"   -> EmbeddingLookup
    [] name = "space_to_depth"     -> SpaceToDepth
    [] name = "populate_output"    -> PopulateOutput
    [] name = "permute"            -> Permute
    [] name = "reshape"            ->
         ReshapeOf(Permuted, IF job.kernel = "reshape" THEN Result ELSE FcBuffer)
    [] name = "fully_connected"    -> FullyConnected(item)
    [] name = "sub"                -> Subtract(item)
    [] name = "mul"                -> Multiply(item)
    [] name = "simple_add"         -> SimpleAddition

\* The sources push the inputs, and the functions enqueue their kernels.
Start ==
  /\ step = "idle" /\ rounds < MaxRounds
  /\ \E data \in job.inputs :
       /\ sent' = data
       /\ buffers' = [n \in DOMAIN buffers |->
                        IF n \in DOMAIN data THEN PushTo(buffers[n], DimsOf(n), data[n])
                        ELSE buffers[n]]
  /\ queue' = Launches
  /\ left' = IF Launches = <<>> THEN {} ELSE Launches[1].items
  /\ localSum' = job.local
  /\ step' = "run"
  /\ rounds' = rounds + 1
  /\ UNCHANGED <<job, received>>

RunThrows == job.kernel = "embedding_lookup" /\ LookupThrows
RunAborts == job.kernel = "space_to_depth" /\ ~SpaceToDepthRunAsserts
RunItem ==
  /\ step = "run" /\ left # {}
  /\ ~RunThrows /\ ~RunAborts
  /\ \E item \in left :
       LET effect == EffectOf(queue[1].name, item)
       IN  /\ buffers' = [buffers EXCEPT ![effect.to].cells =
                            [p \in DOMAIN @ |-> IF p \in DOMAIN effect.writes
                                                THEN effect.writes[p] ELSE @[p]]]
           /\ left' = left \ {item}
           /\ localSum' = IF queue[1].name = "reduction_mean" THEN localSum + SumOf(item)
                          ELSE localSum
  /\ UNCHANGED <<job, step, queue, sent, received, rounds>>
Refuse ==
  /\ step = "run"
  /\ RunThrows \/ RunAborts
  /\ step' = IF RunThrows THEN "thrown" ELSE "aborted"
  /\ UNCHANGED <<job, buffers, queue, left, localSum, sent, received, rounds>>
EndLaunch ==
  /\ step = "run" /\ left = {} /\ queue # <<>>
  /\ queue' = Tail(queue)
  /\ left' = IF Len(queue) = 1 THEN {} ELSE queue[2].items
  /\ localSum' = job.local
  /\ UNCHANGED <<job, buffers, step, sent, received, rounds>>
Finish ==
  /\ step = "run" /\ queue = <<>>
  /\ received' = PullFrom(buffers[Result], DimsOf(Result))
  /\ step' = "idle"
  /\ UNCHANGED <<job, buffers, queue, left, localSum, sent, rounds>>

KernelInit ==
  /\ job \in Jobs
  /\ buffers = <<>> /\ step = "configure"
  /\ queue = <<>> /\ left = {} /\ localSum = 0
  /\ sent = <<>> /\ received = <<>> /\ rounds = 0
KernelStep == Allocate \/ Configure \/ RunItem \/ Refuse \/ EndLaunch \/ Finish
KernelNext == Start \/ KernelStep

-----------------------------------------------------------------------------
(* Properties                                                               *)

\* The index of the element at position p of a buffer of the NN API.
Unravel(dims, p) ==
  LET inner[k \in 1 .. Len(dims)] == IF k = Len(dims) THEN 1 ELSE inner[k + 1] * dims[k + 1]
  IN  [k \in 1 .. Len(dims) |-> (p \div inner[k]) % dims[k]]
Elements(dims) ==
  LET size[k \in 0 .. Len(dims)] == IF k = 0 THEN 1 ELSE size[k - 1] * dims[k]
  IN  Below(size[Len(dims)])
Given(n, index) ==
  (IF IsConstant(n) THEN job.operands[n].data ELSE sent[n])[Position(DimsOf(n), index)]
\* A smaller rank, or an extent of 1, is broadcast.
GivenBroadcast(n, index) ==
  Given(n, [k \in 1 .. Len(DimsOf(n)) |->
              IF DimsOf(n)[k] = 1 THEN 0 ELSE index[k + Len(index) - Len(DimsOf(n))]])
SumOver(set, f(_)) ==
  LET sum[s \in SUBSET set] == IF s = {} THEN 0 ELSE LET x == CHOOSE y \in s : TRUE
                                                    IN  f(x) + sum[s \ {x}]
  IN  sum[set]
Slot(n, k) == job.operands[n].data[k - 1]      \* of a constant vector
SliceFirst(k) ==
  IF Bit(job.args.beginMask, k - 1) = 1
  THEN (IF Slot(4, k) > 0 THEN 0 ELSE DimsOf(1)[k] - 1)
  ELSE (IF Slot(2, k) < 0 THEN Slot(2, k) + DimsOf(1)[k] ELSE Slot(2, k))

\* What each function means to a client, at an index of the output.
MeaningAt(c) ==
  CASE job.kernel = "gather" ->
         Given(1, <<Given(2, <<IF Len(DimsOf(Result)) < Len(DimsOf(1)) THEN 0 ELSE c[1]>>)>>
                  \o SubSeq(c, 1 + Len(c) - (Len(DimsOf(1)) - 1), Len(c)))
    [] job.kernel = "reduce_max" ->
         CHOOSE v \in {Given(1, <<c[1], j>>) : j \in Below(DimsOf(1)[2])} :
           \A j \in Below(DimsOf(1)[2]) : Given(1, <<c[1], j>>) <= v
    [] job.kernel = "mean" ->
         LET rows == IF 1 \in job.args.axes THEN Below(DimsOf(1)[2]) ELSE {c[2]}
             columns == IF 0 \in job.args.axes THEN Below(DimsOf(1)[3]) ELSE {c[3]}
             At(i) == Given(1, <<c[1], i[1], i[2], c[4]>>)
         IN  SumOver(rows \X columns, At) \div (Cardinality(rows) * Cardinality(columns))
    [] job.kernel \in {"slice", "slice_cpu"} ->
         LET kept == SelectSeq([k \in 1 .. Len(DimsOf(1)) |-> k],
                               LAMBDA k : Bit(job.args.shrinkMask, k - 1) = 0)
             StepAt(k) == IF \E j \in DOMAIN kept : kept[j] = k
                          THEN c[CHOOSE j \in DOMAIN kept : kept[j] = k] ELSE 0
         IN  Given(1, [k \in 1 .. Len(DimsOf(1)) |-> SliceFirst(k) + StepAt(k) * Slot(4, k)])
    [] job.kernel \in {"cast", "simple_cast"} -> CastData(Given(1, c))
    [] job.kernel = "div" -> Divided(GivenBroadcast(1, c), GivenBroadcast(2, c))
    [] job.kernel = "embedding_lookup" -> Given(2, <<Given(1, <<c[1]>>)>> \o Tail(c))
    [] job.kernel = "space_to_depth" ->
         LET b == job.args.block
             depth == DimsOf(1)[4]
             block == c[4] \div depth
         IN  Given(1, <<c[1], c[2] * b + block \div b, c[3] * b + (block % b), c[4] % depth>>)
    [] job.kernel = "pad" ->
         LET w == job.args.width
         IN  IF c[2] - w \in Below(DimsOf(1)[2]) /\ c[3] - w \in Below(DimsOf(1)[3])
             THEN Given(1, <<c[1], c[2] - w, c[3] - w, c[4]>>) ELSE 0
    [] job.kernel = "reshape" -> sent[1][Position(DimsOf(Result), c)]
    [] job.kernel = "fully_connected" ->
         LET At(k) == sent[1][c[1] * DimsOf(2)[2] + k] * Given(2, <<c[2], k>>)
         IN  SumOver(Below(DimsOf(2)[2]), At) + Given(3, <<c[2]>>)
    [] job.kernel = "squared_difference" ->
         (GivenBroadcast(1, c) - GivenBroadcast(2, c))
         * (GivenBroadcast(1, c) - GivenBroadcast(2, c))
    [] job.kernel = "simple_add" -> Given(1, c) + Given(2, c)

\* Where the code is known to give something else.
Unpadded == \A n \in 1 .. Result : Dense(buffers[n])
RightMask(mask) ==
  \A k \in 1 .. Len(DimsOf(1)) :
    Bit(mask, k - 1)
    = Bit(ReorderBits(mask, Len(DimsOf(1))), ToARMComputeAxis(Len(DimsOf(1)), k - 1))
KernelDeviates ==
  CASE job.kernel = "gather" ->
         \/ NumDims(1) # Len(DimsOf(1)) \/ GatherKernel = "none"        \* one row; rank 3 and more
         \/ RowCells(buffers[1]) > RowCells(buffers[Result]) /\ GatherKernel = "gather"
    [] job.kernel = "mean" ->
         \/ job.local # 0 \/ Cardinality(MeanWindow) > 1           \* local memory
         \/ ~MeanAxesSupported
    [] job.kernel \in {"slice", "slice_cpu"} ->
         \/ ~RightMask(job.args.beginMask) \/ ~RightMask(job.args.endMask)
         \/ ~Unpadded
         \/ Len(DimsOf(1)) = 4 /\ Len(DimsOf(Result)) < 4                  \* a shrunk axis
    [] job.kernel = "cast" -> \E n \in DOMAIN received : received[n] = Junk
    [] job.kernel \in {"reduce_max", "space_to_depth"} -> ~Unpadded
    [] job.kernel = "embedding_lookup" ->
         \/ NumDims(2) # Len(DimsOf(2))
         \/ NumDims(2) > 2 /\ RowCells(buffers[2]) # RowCells(buffers[Result])
    [] job.kernel = "pad" ->
         buffers[1].unused # 0 \/ buffers[Result].unused # 0 \/ Extent(1, 3) * Extent(1, 4) # 1
    [] job.kernel = "reshape" -> Len(DimsOf(Result)) = 4
    [] job.kernel = "simple_add" -> Quantized(job.args.type)
    [] OTHER -> FALSE

\* What a client pulls out is what the function means: whatever the order of
\* the work items, with padding or without it, and also in a second run, whose
\* tensors still hold what the first one left.  KernelDeviates names the exceptions.
KernelIsRight ==
  step = "idle" /\ rounds > 0 /\ ~KernelDeviates =>
    received = [p \in Elements(DimsOf(Result)) |-> MeaningAt(Unravel(DimsOf(Result), p))]

KernelTypeOK ==
  /\ job \in Jobs
  /\ step \in {"configure", "allocated", "idle", "run", "thrown", "aborted"}
  /\ \A n \in DOMAIN buffers : buffers[n].unused >= 0 /\ DOMAIN buffers[n].cells = Below(Size(n))
  /\ step \in {"configure", "allocated", "idle"} => queue = <<>> /\ left = {}
  /\ queue # <<>> => left \subseteq queue[1].items
  /\ rounds \in 0 .. MaxRounds
=============================================================================
