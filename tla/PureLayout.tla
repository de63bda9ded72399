----------------------------- MODULE PureLayout -----------------------------
(***************************************************************************)
(* How the pure_arm_compute runtime lays an operand of the NN API (axes    *)
(* from the outermost, NHWC) out in a tensor of the Compute Library (axes  *)
(* from the innermost, WHCN): the axis map, the shape and the mask that    *)
(* go through it.  A shape is a sequence of extents.  A tensor coordinate  *)
(* is a sequence of MaxRank numbers, with 0 on the axes the shape has not. *)
(***************************************************************************)
EXTENDS Integers, Sequences

MaxRank == 4     \* bound: the ranks the sources, sinks and initializers know

ToARMComputeAxis(rank, axis) ==
  LET reversed == rank - axis - 1
  IN  CASE rank < 4     -> reversed
        [] reversed = 0 -> 2                       \* depth
        [] reversed = 1 -> 0                       \* width
        [] reversed = 2 -> 1                       \* height
        [] OTHER        -> reversed

Axes(shape) == 0 .. Len(shape) - 1

\* asTensorShape: the extent along each axis of the tensor.
AsTensorShape(shape) ==
  [k \in 1 .. MaxRank |->
     IF \E axis \in Axes(shape) : ToARMComputeAxis(Len(shape), axis) = k - 1
     THEN shape[1 + (CHOOSE axis \in Axes(shape) :
                       ToARMComputeAxis(Len(shape), axis) = k - 1)]
     ELSE 1]

\* Shape::extendRank
ExtendRank(shape, rank) ==
  [k \in 1 .. (IF rank > Len(shape) THEN rank ELSE Len(shape)) |->
     IF k + Len(shape) <= rank THEN 1
     ELSE shape[k - (IF rank > Len(shape) THEN rank - Len(shape) ELSE 0)]]

\* The coordinates of a tensor whose extents are e.
Box(e) == {<<x, y, z, n>> : x \in 0 .. e[1] - 1, y \in 0 .. e[2] - 1,
                            z \in 0 .. e[3] - 1, n \in 0 .. e[4] - 1}

Offset(a, b) == [k \in 1 .. MaxRank |-> a[k] + b[k]]

\* Where the NN API buffer of an operand of this shape keeps its element at
\* index c, and the element that belongs at coordinate a of its tensor.
Position(shape, c) ==
  LET f[k \in 0 .. Len(shape)] == IF k = 0 THEN 0 ELSE f[k - 1] * shape[k] + c[k]
  IN  f[Len(shape)]

IndexAt(shape, a) ==
  [k \in 1 .. Len(shape) |-> a[1 + ToARMComputeAxis(Len(shape), k - 1)]]

ElementAt(shape, a) == Position(shape, IndexAt(shape, a))
=============================================================================
