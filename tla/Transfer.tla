------------------------------ MODULE Transfer ------------------------------
(***************************************************************************)
(* How data goes between a buffer of the client, in the order of the NN    *)
(* API, and a tensor of the pure_arm_compute runtime: the sources push     *)
(* it in before the functions run, the sinks pull it out after that, and   *)
(* the initializers fill the constants when the compilation ends.  The     *)
(* rank of the operand decides which of them it is.                        *)
(***************************************************************************)
EXTENDS PureLayout, Tensors

\* ptr_to_element of a sequence of at most four coordinates.
PtrToElement(t, coordinates) ==
  ElementOffset(t, [k \in 1 .. MaxRank |->
                      IF k <= Len(coordinates) THEN coordinates[k] ELSE 0])

Vlen(dims) == dims[1]

-----------------------------------------------------------------------------
(* Readers and views                                                        *)

\* A feature map; the same for a kernel, with the batch as nth.
FeatureIndexes(dims) ==
  Below(dims[1]) \X Below(dims[4]) \X Below(dims[2]) \X Below(dims[3])
FeatureIndexOf(dims, i) ==
  i[1] * dims[2] * dims[3] * dims[4] + i[3] * dims[3] * dims[4] + i[4] * dims[4] + i[2]
FeatureOffset(t, i) == PtrToElement(t, <<i[4], i[3], i[2], i[1]>>)

MatrixIndexes(dims) == Below(dims[1]) \X Below(dims[2])
MatrixIndexOf(dims, i) == i[1] * dims[2] + i[2]
MatrixOffset(t, i) == PtrToElement(t, <<i[2], i[1]>>)

\* The strides of tensor::Reader; a View multiplies its way to the same offset.
TensorIndexes(dims) ==
  CASE Len(dims) = 3 -> Below(dims[1]) \X Below(dims[2]) \X Below(dims[3])
    [] Len(dims) = 4 -> Below(dims[1]) \X Below(dims[2]) \X Below(dims[3]) \X Below(dims[4])
TensorReaderOffset(dims, i) ==
  LET stride[r \in DOMAIN dims] == IF r = Len(dims) THEN 1 ELSE stride[r + 1] * dims[r + 1]
      offset[r \in 0 .. Len(dims)] == IF r = 0 THEN 0 ELSE offset[r - 1] + i[r] * stride[r]
  IN  offset[Len(dims)]
TensorViewOffset(t, i) == PtrToElement(t, i)

\* tensor::copy_reverse
Reversed(i) == [k \in DOMAIN i |-> i[Len(i) + 1 - k]]

-----------------------------------------------------------------------------
(* Sources                                                                  *)

VectorPush(t, dims, data) ==
  LET Where(n) == PtrToElement(t, <<n>>)
  IN  Written(t, [n \in Below(Vlen(dims)) |-> data[n]], Where)

\* The rows of a tensor, and the cells of a copy of `width` to each: a window
\* that begins with DimY.
Rows(t) == Below(t.extent[2]) \X Below(t.extent[3]) \X Below(t.extent[4])
RowCopies(t, width) == Below(width) \X Rows(t)
RowCell(t, c) == PtrToElement(t, <<c[1], c[2][1], c[2][2], c[2][3]>>)

MatrixPush(t, dims, data) ==
  LET width == dims[2]
      Where(c) == RowCell(t, c)
  IN  Written(t, [c \in RowCopies(t, width) |-> data[c[2][1] * width + c[1]]], Where)

Tensor3DPush(t, dims, data) ==
  LET heightWidth == dims[2] * dims[3]
      width == dims[3]
      Where(c) == RowCell(t, c)
  IN  Written(t, [c \in RowCopies(t, width) |->
                    data[c[2][2] * heightWidth + c[2][1] * width + c[1]]], Where)

FeaturePush(t, dims, data) ==
  LET Where(i) == FeatureOffset(t, i)
  IN  Written(t, [i \in FeatureIndexes(dims) |-> data[FeatureIndexOf(dims, i)]], Where)

\* setInput, by the rank; a source of rank 5 and more is left out.
PushTo(t, dims, data) ==
  CASE Len(dims) = 1 -> VectorPush(t, dims, data)
    [] Len(dims) = 2 -> MatrixPush(t, dims, data)
    [] Len(dims) = 3 -> Tensor3DPush(t, dims, data)
    [] Len(dims) = 4 -> FeaturePush(t, dims, data)

-----------------------------------------------------------------------------
(* Sinks                                                                    *)

VectorPull(t, dims) == [n \in Below(Vlen(dims)) |-> t.cells[PtrToElement(t, <<n>>)]]

\* It asserts that the tensor has the extents of the matrix.
MatrixPull(t, dims) ==
  [p \in Below(dims[1] * dims[2]) |-> t.cells[RowCell(t, <<p % dims[2], <<p \div dims[2], 0, 0>>>>)]]

Tensor3DPull(t, dims) ==
  [p \in Below(dims[1] * dims[2] * dims[3]) |->
     t.cells[RowCell(t, <<p % dims[3], <<(p \div dims[3]) % dims[2],
                                         p \div (dims[2] * dims[3]), 0>>>>)]]

FeaturePull(t, dims) ==
  [p \in Below(dims[1] * dims[2] * dims[3] * dims[4]) |->
     t.cells[FeatureOffset(t, CHOOSE i \in FeatureIndexes(dims) : FeatureIndexOf(dims, i) = p)]]

\* setOutput, by the rank
PullFrom(t, dims) ==
  CASE Len(dims) = 1 -> VectorPull(t, dims)
    [] Len(dims) = 2 -> MatrixPull(t, dims)
    [] Len(dims) = 3 -> Tensor3DPull(t, dims)
    [] Len(dims) = 4 -> FeaturePull(t, dims)

-----------------------------------------------------------------------------
(* Initializers                                                             *)

InitFeatureTensor(t, dims, data) ==
  LET Where(i) == FeatureOffset(t, i)
  IN  Written(t, [i \in FeatureIndexes(dims) |-> data[FeatureIndexOf(dims, i)]], Where)

InitVectorTensor(t, size, data) ==
  LET Where(n) == PtrToElement(t, <<n>>)
  IN  Written(t, [n \in Below(size) |-> data[n]], Where)

\* The elements of a vector that has one for each axis, in the order of the axes.
InitReorderVectorTensor(t, size, data) ==
  LET Where(n) == PtrToElement(t, <<ToARMComputeAxis(size, n)>>)
  IN  Written(t, [n \in Below(size) |-> data[n]], Where)

InitTensor3D(t, dims, data) ==
  LET Where(i) == TensorViewOffset(t, Reversed(i))
  IN  Written(t, [i \in TensorIndexes(dims) |-> data[TensorReaderOffset(dims, i)]], Where)

InitMatrixTensor(t, dims, data) ==
  LET Where(i) == MatrixOffset(t, i)
  IN  Written(t, [i \in MatrixIndexes(dims) |-> data[MatrixIndexOf(dims, i)]], Where)

\* What PlanBuilder::finalize fills a constant without initializer with.
Fill(t, dims, data) ==
  CASE Len(dims) = 0 -> InitVectorTensor(t, 1, data)
    [] Len(dims) = 1 -> InitVectorTensor(t, Vlen(dims), data)
    [] Len(dims) = 2 -> InitMatrixTensor(t, dims, data)
    [] Len(dims) = 3 -> InitTensor3D(t, dims, data)
    [] Len(dims) = 4 -> InitFeatureTensor(t, dims, data)
=============================================================================
