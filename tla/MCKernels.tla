------------------------------ MODULE MCKernels ------------------------------
(***************************************************************************)
(* The instance of the run `kernels`: what an inference computes.  A       *)
(* behaviour is one of three programs: the top k of ARMComputeEx, another  *)
(* function of it or a layer of pure_arm_compute, or a whole model in the  *)
(* neurun runtime.  The variables of the other two do not change.          *)
(***************************************************************************)
EXTENDS TopKV2, NeurunInference, ClKernels, TLC

VARIABLE program

DataOf(seq) == [n \in 0 .. Len(seq) - 1 |-> seq[n + 1]]

-----------------------------------------------------------------------------
(* Top k                                                                    *)

TopKIn(mode, seq, numRows, kk) ==
  [fun |-> Configured(mode, Len(seq) \div numRows, numRows, kk), data |-> DataOf(seq)]
\* A radix sort of keys of four bits: a sign and a magnitude; the count is a
\* multiple of Items * Groups, as CLTopKV2::configure needs it.
Radixes == {<<3, 1, 7, 3, 0, 2, 5, 3>>, <<9, 3, 12, 9, 1, 15, 0, 3>>,
            <<9, 12, 15, 10, 9, 14, 11, 13>>, <<1, 2, 9, 3, 4, 5, 6, 7>>}
MCInputs ==
  {TopKIn("GPU", s, 1, 3) : s \in Radixes}
  \cup {TopKIn("GPU_SINGLE", s, 1, 2) : s \in [1 .. 5 -> {0, 1, 2, 9}]}
  \cup {TopKIn("cpu", s, 2, kk) : s \in [1 .. 6 -> {0, 1, 9}], kk \in 1 .. 3}

-----------------------------------------------------------------------------
(* Functions                                                                *)

\* Operands: without padding, with unused cells behind the rows, constants.
P(dims, unused) == [dims |-> dims, unused |-> unused, corrected |-> TRUE, data |-> <<>>]
V(dims) == P(dims, 0)
K(dims, seq) == [dims |-> dims, unused |-> 0, corrected |-> TRUE, data |-> DataOf(seq)]
Plain(operand) == [operand EXCEPT !.corrected = FALSE]
Job(kernel, operands, args, inputs) ==
  [kernel |-> kernel, operands |-> operands, args |-> args, local |-> 0, inputs |-> inputs]
None == [none |-> 0]
One(seqs) == {1 :> DataOf(s) : s \in seqs}
Two(pairs) == {1 :> DataOf(p[1]) @@ 2 :> DataOf(p[2]) : p \in pairs}
Numbers(n, k) == [i \in 1 .. n |-> ((i * 7 + k) % 11) - 4]
Twice(n) == One({Numbers(n, 0), Numbers(n, 4)})

Gathers ==
  LET Tables(in, i1, i2) == Two({<<Numbers(in, 0), i1>>, <<Numbers(in, 5), i2>>}) IN
  {Job("gather", <<V(<<4>>), V(<<3>>), V(<<3>>)>>, None, Tables(4, <<3, 0, 3>>, <<1, 2, 0>>))}
  \cup {Job("gather", <<P(<<3, 2>>, u), V(<<3>>), P(<<3, 2>>, w)>>, None,
            Tables(6, <<2, 0, 2>>, <<1, 2, 0>>)) : u \in 0 .. 1, w \in 0 .. 1}
  \cup {Job("gather", <<V(<<3, 2>>), V(<<1>>), V(<<2>>)>>, None, Tables(6, <<2>>, <<0>>)),
        Job("gather", <<V(<<1, 2>>), V(<<2>>), V(<<2, 2>>)>>, None, Tables(2, <<0, 0>>, <<0, 0>>)),
        Job("gather", <<V(<<2, 2, 2>>), V(<<1>>), V(<<1, 2, 2>>)>>, None, Tables(8, <<0>>, <<1>>))}
Reductions ==
  {Job("reduce_max", <<P(<<2, 3>>, u), V(<<2>>)>>, [axis |-> a], Twice(6)) : u \in 0 .. 1, a \in {0, 1}}
  \cup {Job("reduce_max", <<V(<<1, 3>>), V(<<1>>)>>, [axis |-> 1], Twice(3))}
Twelves(n, k) == [i \in 1 .. n |-> 12 * (((i * 7 + k) % 11) - 4)]
Means ==
  {[Job("mean", <<V(<<2, 2, w, 2>>), V(<<2, 1, 1, 2>>)>>, [axes |-> {0, 1}],
        One({Twelves(8 * w, 0), Twelves(8 * w, 4)})) EXCEPT !.local = l] : w \in {1, 2, 3}, l \in {0, Junk}}
  \cup {Job("mean", <<V(<<1, 2, 2, 1>>), V(<<1, 2, 1, 1>>)>>, [axes |-> {0}], One({Twelves(4, 0)}))}
Masks(b, e, s) == [beginMask |-> b, endMask |-> e, shrinkMask |-> s]
Slices ==
  LET Slice(in, b, e, s, out, masks) ==
        {Job(k, <<V(in), K(<<Len(b)>>, b), K(<<Len(e)>>, e), K(<<Len(s)>>, s), out>>, masks,
             Twice(Cardinality({<<x, y, z, w>> \in Below(4) \X Below(4) \X Below(4) \X Below(4) :
               LET c == <<x, y, z, w>> IN \A k2 \in 1 .. 4 :
                 c[k2] < (IF k2 > Len(in) THEN 1 ELSE in[k2])}))) : k \in {"slice", "slice_cpu"}}
  IN  Slice(<<4>>, <<-3>>, <<4>>, <<2>>, V(<<2>>), Masks(0, 0, 0))
      \cup Slice(<<3, 3>>, <<1, 2>>, <<3, 0>>, <<1, -1>>, V(<<2, 2>>), Masks(0, 0, 0))
      \cup Slice(<<3, 3>>, <<1, 2>>, <<3, 0>>, <<1, -1>>, V(<<2, 3>>), Masks(2, 2, 0))
      \cup Slice(<<3, 3>>, <<1, 2>>, <<3, 0>>, <<1, -1>>, V(<<3, 2>>), Masks(1, 1, 0))
      \cup Slice(<<3, 3>>, <<1, 2>>, <<3, 0>>, <<1, -1>>, P(<<2, 2>>, 1), Masks(0, 0, 0))
      \cup Slice(<<2, 2, 2>>, <<1, 0, -1>>, <<2, 2, -3>>, <<1, 1, -1>>, V(<<2, 2>>), Masks(0, 0, 1))
      \cup Slice(<<1, 2, 2, 2>>, <<0, 0, 1, 0>>, <<1, 2, 2, 2>>, <<1, 1, 1, 1>>, V(<<1, 2, 1, 2>>), Masks(0, 0, 0))
      \cup Slice(<<1, 2, 2, 2>>, <<0, 1, 0, 1>>, <<1, 2, 2, 2>>, <<1, 1, 1, 1>>, V(<<1, 2, 2, 1>>), Masks(2, 0, 0))
      \cup {Job("slice", <<V(<<4>>), K(<<1>>, <<0>>), K(<<2>>, <<4, 4>>), K(<<1>>, <<1>>), V(<<4>>)>>,
                Masks(0, 0, 0), Twice(4))}
Q(scale, offset) == [name |-> "QASYMM8", scale |-> scale, offset |-> offset]
Float == [name |-> "F32"]
Casts ==
  {Job(k, <<V(<<2, 3>>), V(<<2, 3>>)>>, [in |-> ty[1], out |-> ty[2]],
       One({<<4, 8, 6, 200, 2, 0>>, <<10, 0, 254, 4, 6, 8>>} \cup
           (IF Quantized(ty[1]) THEN {} ELSE {<<-20, 2, 600, 0, 4, 8>>}))) :
     k \in {"cast", "simple_cast"}, ty \in {<<Float, Float>>, <<Q(2, 3), Float>>, <<Float, Q(2, 3)>>}}
Divisions ==
  LET By(a, b, out, x, y) ==
        {Job("div", <<V(a), V(b), V(out)>>, [type |-> ty],
             Two({<<x, y>>, <<[i \in DOMAIN x |-> 2 * x[i]], y>>})) : ty \in {"S16", "F32"}}
  IN  By(<<2, 3>>, <<2, 3>>, <<2, 3>>, <<4, -6, 8, 10, 12, -14>>, <<2, -3, 4, 5, -6, 7>>)
      \cup By(<<2, 2>>, <<2, 1>>, <<2, 2>>, <<4, -6, 8, -12>>, <<2, -4>>)
      \cup By(<<1, 2>>, <<2, 2>>, <<2, 2>>, <<4, -6>>, <<2, -3, 1, 2>>)
      \cup By(<<2>>, <<2>>, <<2>>, <<-16384, 7>>, <<-1, 7>>)
      \cup By(<<2>>, <<3>>, <<3>>, <<4, 6>>, <<1, 2, 1>>)
      \cup {Job("div", <<V(<<1>>), V(<<1>>), V(<<1>>)>>, [type |-> "S32"], Two({<<<<1>>, <<1>>>>}))}
Layers ==
  {Job("embedding_lookup", <<V(<<2>>), Plain(P(dims, u)), Plain(V(<<2>> \o Tail(dims)))>>, None,
       Two({<<<<1, 0>>, Numbers(size, 0)>>, <<<<1, 1>>, Numbers(size, 4)>>})) :
     u \in 0 .. 1, dims \in {<<2, 3>>, <<2, 2, 2>>, <<2, 1, 2, 2>>}, size \in {8}}
  \cup {Job("embedding_lookup", <<V(<<1>>), V(<<1, 2>>), V(<<1, 2>>)>>, None, Two({<<<<0>>, <<5, 6>>>>})),
        Job("embedding_lookup", <<V(<<1>>), V(<<2, 2>>), V(<<1, 2>>)>>, None,
            Two({<<<<2>>, <<5, 6, 7, 8>>>>, <<<<1>>, <<5, 6, 7, 8>>>>}))}
  \cup {Job("space_to_depth", <<c[1], c[2]>>, [block |-> 2], Twice(c[3])) :
          c \in {<<Plain(V(<<1, 2, 4, 2>>)), Plain(V(<<1, 1, 2, 8>>)), 16>>,
                 <<V(<<2, 2, 2, 1>>), V(<<2, 1, 1, 4>>), 8>>,
                 <<V(<<2, 2, 2, 1>>), P(<<2, 1, 1, 4>>, 1), 8>>,
                 <<V(<<2, 2, 2, 1>>), V(<<2, 1, 1, 3>>), 8>>,
                 <<V(<<1, 2, 2, 1>>), V(<<1, 1, 1, 4>>), 4>>}}
  \cup {Job("pad", <<P(<<1, 2, 1, 1>>, u), V(<<1, 2 + 2 * w, 1 + 2 * w, 1>>)>>, [width |-> w], Twice(2)) :
          u \in 0 .. 1, w \in {1, 2}}
  \cup {Job("pad", <<V(<<1, 2, 1, 2>>), V(<<1, 4, 3, 2>>)>>, [width |-> 1], Twice(4))}
  \cup {Job("reshape", <<P(<<1, 2, 3, 2>>, u), P(out, u)>>, None, Twice(12)) :
          u \in 0 .. 1, out \in {<<3, 4>>, <<12>>, <<2, 2, 3>>, <<1, 3, 2, 2>>}}
  \cup {Job("fully_connected", <<V(in), K(<<3, 4>>, Numbers(12, 3)), K(<<3>>, Numbers(3, 5)), V(<<2, 3>>)>>,
            None, Twice(8)) : in \in {<<2, 1, 2, 2>>, <<2, 4>>, <<1, 2, 2, 2>>}}
  \cup {Job("squared_difference", <<V(<<2, 3>>), V(b), V(<<2, 3>>)>>, None,
            Two({<<Numbers(6, 0), Numbers(6, 1)>>, <<Numbers(6, 3), Numbers(6, 7)>>})) :
          b \in {<<2, 3>>, <<1, 3>>, <<3>>}}
  \cup {Job("simple_add", <<V(<<2, 3>>), P(<<2, 3>>, 1), V(<<2, 3>>)>>, [type |-> ty],
            Two({<<Numbers(6, 4), Numbers(6, 1)>>, <<Numbers(6, 5), Numbers(6, 7)>>})) : ty \in {Float, Q(2, 3)}}
MCJobs == Gathers \cup Reductions \cup Means \cup Slices \cup Casts \cup Divisions \cup Layers

-----------------------------------------------------------------------------
(* Models                                                                   *)

T(dims) == [dims |-> dims, data |-> <<>>]
C(dims, seq) == [dims |-> dims, data |-> DataOf(seq)]
S(v) == [dims |-> <<>>, data |-> DataOf(<<v>>)]
Op(type, ins, out) == [type |-> type, ins |-> ins, out |-> out]
Net(operands, ops, ins, outs, inputs) ==
  {[operands |-> operands, ops |-> ops, ins |-> ins, outs |-> outs, inputs |-> inputs,
    backend |-> b, padded |-> p, inMemory |-> FALSE] :
   b \in {"cpu", "acl_cl"}, p \in {{}, {1, 2, 4}}}
InMemory(nets) == {[n EXCEPT !.inMemory = TRUE] : n \in nets}
I1(a) == {<<DataOf(x)>> : x \in a}
Ramp(n, k) == [i \in 1 .. n |-> ((i * 7 + k) % 11) - 4]
Fours(n, k) == [i \in 1 .. n |-> 4 * (((i * 7 + k) % 11) - 4)]

ConvNet(in, ker, out, padding, sw, sh, act) ==
  Net(<<T(in), C(ker, Ramp(ker[1]*ker[2]*ker[3]*ker[4], 3)), C(<<ker[1]>>, Ramp(ker[1], 5)), T(out),
        S(padding), S(sw), S(sh), S(act)>>,
      <<Op("CONV_2D", <<1, 2, 3, 5, 6, 7, 8>>, 4)>>, <<1>>, <<4>>,
      I1({Ramp(in[1]*in[2]*in[3]*in[4], k) : k \in {0, 4}}))
PoolNet(type, in, kw, kh, out, padding, sw, sh, act) ==
  Net(<<T(in), S(kw), S(kh), T(out), S(padding), S(sw), S(sh), S(act)>>,
      <<Op(type, <<1, 5, 6, 7, 2, 3, 8>>, 4)>>, <<1>>, <<4>>,
      I1({Fours(in[1]*in[2]*in[3]*in[4], k) : k \in {0, 4}}))
ConcatNet(a, b, out, axis) ==
  Net(<<T(a), T(b), S(axis), T(out)>>, <<Op("CONCATENATION", <<1, 2, 3>>, 4)>>, <<1, 2>>, <<4>>,
      {<<DataOf(Ramp(a[1]*a[2]*a[3]*a[4], k)), DataOf(Ramp(b[1]*b[2]*b[3]*b[4], k + 3))>> : k \in {0, 4}})
FcNet(in, n, rows, act) ==
  LET size == in[2] * in[3] * in[4] IN
  Net(<<T(in), C(<<n, size>>, Ramp(n * size, 3)), C(<<n>>, Ramp(n, 5)), T(<<rows, n>>), S(act)>>,
      <<Op("FULLY_CONNECTED", <<1, 2, 3, 5>>, 4)>>, <<1>>, <<4>>, I1({Ramp(size, k) : k \in {0, 4}}))
ReshapeNet(in) ==
  LET size == in[2] * in[3] * in[4] IN
  Net(<<T(in), C(<<2>>, <<1, size>>), S(2), T(<<1, size>>), T(<<1, size>>)>>,
      <<Op("RESHAPE", <<1, 2>>, 4), Op("SOFTMAX", <<4, 3>>, 5)>>, <<1>>, <<5>>, I1({Ramp(size, k) : k \in {0, 4}}))
Deep ==
  Net(<<T(<<1,3,3,1>>), C(<<2,2,2,1>>, Ramp(8, 2)), C(<<2>>, Ramp(2, 1)), T(<<1,3,3,2>>), S(1), S(1),
        T(<<1,1,1,2>>), S(2), T(<<1, 2>>), C(<<2, 2>>, Ramp(4, 6)), T(<<1, 2>>)>>,
      <<Op("CONV_2D", <<1, 2, 3, 5, 6, 6, 5>>, 4), Op("MAX_POOL_2D", <<4, 8, 8, 8, 8, 8, 12>>, 7),
        Op("FULLY_CONNECTED", <<7, 10, 3, 5>>, 9), Op("SOFTMAX", <<9, 8>>, 11)>>,
      <<1>>, <<11, 7>>, I1({Ramp(9, k) : k \in {0, 4}}))
DeepNet == {[n EXCEPT !.operands = @ \o <<S(0)>>] : n \in Deep}
Explicit ==
  {[n EXCEPT !.ops[1].ins = <<1, 2, 3, 5, 5, 5, 5, 6, 7, 8>>] : n \in ConvNet(<<1,2,2,1>>, <<1,1,1,1>>, <<1,2,2,1>>, 1, 1, 1, 0)}
Other == {[n EXCEPT !.ops[1].type = "OTHER"] : n \in ConvNet(<<1,2,2,1>>, <<1,1,1,1>>, <<1,2,2,1>>, 1, 1, 1, 0)}

RankThree ==
  {[n EXCEPT !.operands = @ \o <<T(<<1, 1, 1>>)>>, !.ins = <<1, 9>>, !.inputs = {<<DataOf(<<1>>), DataOf(<<1>>)>>}] :
    n \in ConvNet(<<1,1,1,1>>, <<1,1,1,1>>, <<1,1,1,1>>, 1, 1, 1, 0)}
MCModels ==
  RankThree
  \cup   ConvNet(<<1, 2, 3, 2>>, <<2, 2, 2, 2>>, <<1, 2, 3, 2>>, 1, 1, 1, 1)
  \cup ConvNet(<<1, 3, 4, 1>>, <<2, 2, 3, 1>>, <<1, 2, 2, 2>>, 1, 2, 2, 0)
  \cup ConvNet(<<2, 3, 2, 1>>, <<1, 2, 1, 1>>, <<2, 2, 2, 1>>, 2, 1, 1, 3)
  \cup ConvNet(<<1, 2, 2, 1>>, <<1, 1, 1, 1>>, <<1, 2, 2, 1>>, 7, 1, 1, 0)
  \cup InMemory(ConvNet(<<1, 2, 2, 1>>, <<1, 1, 1, 1>>, <<1, 2, 2, 1>>, 2, 1, 1, 2))
  \cup InMemory(FcNet(<<1, 1, 2, 2>>, 2, 1, 1))
  \cup FcNet(<<1, 2, 2, 2>>, 2, 1, 0) \cup FcNet(<<1, 2, 1, 2>>, 1, 1, 3) \cup FcNet(<<1, 2, 1, 1>>, 1, 2, 0)
  \cup PoolNet("MAX_POOL_2D", <<1, 3, 2, 2>>, 2, 2, <<1, 3, 2, 2>>, 1, 1, 1, 1)
  \cup PoolNet("AVERAGE_POOL_2D", <<1, 3, 2, 2>>, 2, 2, <<1, 3, 2, 2>>, 1, 1, 1, 0)
  \cup PoolNet("AVERAGE_POOL_2D", <<1, 3, 5, 1>>, 2, 1, <<1, 2, 2, 1>>, 2, 2, 2, 0)
  \cup PoolNet("AVERAGE_POOL_2D", <<1, 3, 5, 1>>, 2, 1, <<1, 2, 2, 1>>, 9, 2, 2, 0)
  \cup ConcatNet(<<1, 2, 1, 2>>, <<1, 2, 1, 1>>, <<1, 2, 1, 3>>, 3)
  \cup ConcatNet(<<1, 2, 1, 2>>, <<1, 1, 1, 2>>, <<1, 3, 1, 2>>, 1)
  \cup ConcatNet(<<1, 1, 1, 2>>, <<2, 1, 1, 2>>, <<3, 1, 1, 2>>, 0)
  \cup ConcatNet(<<1, 2, 2, 1>>, <<1, 2, 1, 1>>, <<1, 2, 3, 1>>, 2)
  \cup {n \in ConcatNet(<<1, 2, 1, 2>>, <<1, 2, 1, 1>>, <<1, 2, 1, 4>>, 3) : n.backend = "acl_cl"}
  \cup ReshapeNet(<<1, 1, 1, 3>>) \cup ReshapeNet(<<1, 1, 2, 2>>)
  \cup DeepNet \cup Explicit \cup Other

-----------------------------------------------------------------------------
TopKRests ==
  /\ fun = [mode |-> "cpu", n |-> 0, rows |-> 0, k |-> 0]
  /\ given = <<>> /\ input = <<>> /\ values = <<>> /\ indices = <<>>
  /\ at = "idle" /\ done = <<>> /\ gpu = <<>> /\ pass = 0
  /\ heap = {} /\ back = {} /\ row = 0 /\ col = 0
  /\ stack = <<>> /\ sort = <<>> /\ runs = 0
KernelRests ==
  /\ job = <<>> /\ buffers = <<>> /\ step = "idle" /\ queue = <<>> /\ left = {} /\ localSum = 0
  /\ sent = <<>> /\ received = <<>> /\ rounds = 0
NeurunRests ==
  /\ net = <<>> /\ asserts = FALSE /\ phase = "ready" /\ nth = 0
  /\ infos = <<>> /\ tensors = <<>> /\ functions = <<>> /\ fed = <<>> /\ got = <<>>
  /\ memory = "mapped" /\ lost = FALSE /\ computes = 0

vars == <<program, topkVars, kernelVars, neurunVars>>

MCInit ==
  \/ program = "topk" /\ TopKInit /\ KernelRests /\ NeurunRests
  \/ program = "kernel" /\ KernelInit /\ TopKRests /\ NeurunRests
  \/ program = "neurun" /\ NeurunInit /\ TopKRests /\ KernelRests

\* Between the calls, and after a failure.
AtRest ==
  /\ at = "idle"
  /\ step \in {"idle", "thrown", "aborted"}
  /\ phase \in {"ready", "aborted", "undefined", "thrown"}

\* When a client makes a call is up to the client; it may also never do it again.
MCNext ==
  \/ program = "topk" /\ TopKNext /\ UNCHANGED <<program, kernelVars, neurunVars>>
  \/ program = "kernel" /\ KernelNext /\ UNCHANGED <<program, topkVars, neurunVars>>
  \/ program = "neurun" /\ NeurunNext /\ UNCHANGED <<program, topkVars, kernelVars>>
  \/ AtRest /\ UNCHANGED vars

\* A call once made runs on.
Spec == MCInit /\ [][MCNext]_vars /\ WF_topkVars(TopKStep)

(* The parts of the state have their types.                                  *)
TypeOK ==
  CASE program = "topk"   -> TopKTypeOK
    [] program = "kernel" -> KernelTypeOK
    [] program = "neurun" -> NeurunTypeOK
=============================================================================
