------------------------------ MODULE Tensors ------------------------------
(***************************************************************************)
(* The tensors of the Compute Library: a buffer of cells behind four axes, *)
(* W, H, C and N from the inside.  A plane may have a border around it,    *)
(* and a row unused cells after that, when the functions configured on the *)
(* tensor asked for them.  The library is external.                        *)
(***************************************************************************)
EXTENDS Integers

Below(n) == 0 .. n - 1
Junk == 99       \* what memory holds that nobody wrote

\* The cells of a row and of a plane, with the border.
RowCells(t) == t.extent[1] + 2 * t.border + t.unused
PlaneCells(t) == RowCells(t) * (t.extent[2] + 2 * t.border)

\* ITensorInfo::offset_element_in_bytes; the coordinates may go beyond the row.
ElementOffset(t, c) ==
  c[1] + t.border + RowCells(t) * (c[2] + t.border) + PlaneCells(t) * (c[3] + t.extent[3] * c[4])
AtFlat(n) == <<n, 0, 0, 0>>

\* A tensor that nobody wrote.
NewBorderedTensor(extent, border, unused) ==
  LET t == [extent |-> extent, border |-> border, unused |-> unused]
  IN  [extent |-> extent, border |-> border, unused |-> unused,
       cells |-> [p \in Below(PlaneCells(t) * extent[3] * extent[4]) |-> Junk]]
NewTensor(extent, unused) == NewBorderedTensor(extent, 0, unused)

\* num_dimensions: the outer axes of extent 1 do not count.
NumDimensions(t) ==
  CHOOSE d \in 1 .. 4 : /\ d = 1 \/ t.extent[d] # 1
                        /\ \A k \in d + 1 .. 4 : t.extent[k] = 1

TotalSize(t) == t.extent[1] * t.extent[2] * t.extent[3] * t.extent[4]

\* A tensor after its cells were written: element i of map to Where(i).
Written(t, map, Where(_)) ==
  [t EXCEPT !.cells = [p \in DOMAIN @ |->
     IF \E i \in DOMAIN map : Where(i) = p
     THEN map[CHOOSE i \in DOMAIN map : Where(i) = p] ELSE @[p]]]
=============================================================================
