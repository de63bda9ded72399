------------------------------- MODULE MCPure -------------------------------
(***************************************************************************)
(* A small instance of PureExecution: for every kind of operation a client *)
(* that builds a model of it alone, and clients with several operations:   *)
(* chains, views in views, a part in two views, a broadcast before and     *)
(* after another use, operations out of order, calls on a finished model,  *)
(* calls that are refused or stop the client.                              *)
(***************************************************************************)
EXTENDS PureExecution

Decl(type, shape, isConst, value) ==
  [type |-> type, shape |-> shape, const |-> isConst, value |-> value]
T(shape) == Decl("float32", shape, FALSE, <<>>)
I(shape) == Decl("int32", shape, FALSE, <<>>)
Q8(shape) == Decl("quant8", shape, FALSE, <<>>)
W(shape) == Decl("float32", shape, TRUE, <<>>)
V(seq) == Decl("int32", <<Len(seq)>>, TRUE, seq)
K(value) == Decl("scalar", <<>>, TRUE, <<value>>)

Op(type, ins, outs) == [call |-> "addOperation", type |-> type, ins |-> ins, outs |-> outs]
Ex(type, ins, outs) == [call |-> "addOperationEx", type |-> type, ins |-> ins, outs |-> outs]
Add(d) == [call |-> "addOperand", type |-> [type |-> d.type, shape |-> d.shape, zeroPoint |-> 0,
                                            scale |-> IF d.type = "quant8" THEN 1 ELSE 0]]
Set(x, v) == [call |-> "setOperandValue", operand |-> x, value |-> v]
Identify(ins, outs) == [call |-> "identify", ins |-> ins, outs |-> outs]
End0 == [call |-> "finish"]

Numbers(n) == [i \in 1 .. n |-> i]

Script(decls, calls, outs, late) ==
  LET Const(x) == decls[x].const
      made == UNION {ToSet(calls[i].outs) : i \in DOMAIN calls}
                \cup UNION {ToSet(late[i].outs) : i \in {j \in DOMAIN late :
                              late[j].call \in {"addOperation", "addOperationEx"}}}
      consts == SelectSeq(Numbers(Len(decls)), Const)
      Free(x) == ~decls[x].const /\ x \notin made
  IN  [x \in DOMAIN decls |-> Add(decls[x])]
        \o [i \in DOMAIN consts |-> Set(consts[i], decls[consts[i]].value)]
        \o calls
        \o <<Identify(SelectSeq(Numbers(Len(decls)), Free), outs), End0>>
        \o late

\* The model of one operation: its operands are numbered in its order.
Unit(call(_, _, _), type, ins, outs) ==
  LET n == Len(ins)
      results == [i \in DOMAIN outs |-> n + i]
  IN  Script(ins \o outs, <<call(type, Numbers(n), results)>>, results, <<>>)

F == T(<<1, 2, 1, 2>>)      \* a feature map: batch, height, width, depth
Explicit4 == <<K(0), K(0), K(0), K(0)>>

Arithmetics ==
  {Unit(Op, type, <<T(<<2>>), T(<<2>>), K(1)>>, <<T(<<2>>)>>) : type \in {"ADD", "SUB", "MUL", "DIV"}}
  \cup {Unit(Op, "ADD", <<F, W(<<2>>), K(9)>>, <<F>>),        \* unknown activation
        Unit(Op, "ADD", <<F, W(<<2>>), K(3)>>, <<F>>),        \* a bias, broadcast
        Unit(Ex, "SQUARED_DIFFERENCE_EX", <<T(<<2>>), T(<<2>>), K(0)>>, <<T(<<2>>)>>)}

Windows ==
  {Unit(Op, "CONV_2D", <<F, W(<<2, 1, 1, 2>>), W(<<2>>), K(1), K(1), K(1), K(0)>>, <<F>>),
   Unit(Op, "CONV_2D", <<F, W(<<2, 1, 1, 2>>), W(<<2>>)>> \o Explicit4 \o <<K(1), K(1), K(1)>>, <<F>>),
   Unit(Op, "CONV_2D", <<F, T(<<2, 1, 1, 2>>), W(<<2>>)>> \o Explicit4 \o <<K(1), K(1), K(1)>>, <<F>>),
   Unit(Op, "DEPTHWISE_CONV_2D", <<F, W(<<1, 1, 1, 2>>), W(<<2>>), K(1), K(1), K(1), K(1), K(1)>>, <<F>>),
   Unit(Op, "DEPTHWISE_CONV_2D",
        <<F, W(<<1, 1, 1, 2>>), W(<<2>>)>> \o Explicit4 \o <<K(1), K(1), K(1), K(3)>>, <<F>>)}
  \cup {Unit(Op, type, <<F, K(2), K(1), K(1), K(1), K(1), K(1)>>, <<F>>) :
          type \in {"MAX_POOL_2D", "AVERAGE_POOL_2D", "L2_POOL_2D"}}
  \cup {Unit(Op, type, <<F>> \o Explicit4 \o <<K(1), K(1), K(1), K(1), K(0)>>, <<F>>) :
          type \in {"MAX_POOL_2D", "AVERAGE_POOL_2D", "L2_POOL_2D"}}

Maps ==
  {Unit(Op, type, <<F>>, <<F>>) :
     type \in {"RELU", "RELU1", "RELU6", "TANH", "FLOOR", "LOGISTIC", "DEQUANTIZE",
               "L2_NORMALIZATION", "SQUEEZE"}}
  \cup
  {Unit(Ex, "CAST_EX", <<F>>, <<F>>),
   Unit(Op, "DEQUANTIZE", <<Q8(F.shape)>>, <<F>>),          \* the one above has no such input
   Unit(Op, "RESHAPE", <<F, V(<<4>>)>>, <<T(<<4>>)>>),
   Unit(Op, "RESHAPE", <<F, I(<<1>>)>>, <<T(<<4>>)>>),      \* an input without a tensor
   Unit(Op, "SQUEEZE", <<F, V(<<0>>)>>, <<T(<<2, 1, 2>>)>>),
   Unit(Op, "TRANSPOSE", <<T(<<1, 2>>), V(<<1, 0>>)>>, <<T(<<2, 1>>)>>),
   Unit(Op, "SOFTMAX", <<T(<<1, 2>>), K(1)>>, <<T(<<1, 2>>)>>),
   Unit(Op, "RESIZE_BILINEAR", <<F, K(4), K(1)>>, <<T(<<1, 4, 1, 2>>)>>),
   Unit(Op, "SPACE_TO_DEPTH", <<T(<<1, 2, 2, 1>>), K(2)>>, <<T(<<1, 1, 1, 4>>)>>),
   Unit(Op, "PAD", <<F, W(<<4, 2>>)>>, <<T(<<1, 2, 3, 2>>)>>),
   Unit(Op, "MEAN", <<T(<<1, 2, 2, 1>>), V(<<1, 2>>), K(1)>>, <<T(<<1, 1, 1, 1>>)>>),
   Unit(Ex, "TENSORFLOW_MAX_EX", <<T(<<2, 2>>), K(1)>>, <<T(<<2>>)>>)}

Others ==
  {Unit(Op, "FULLY_CONNECTED", <<F, W(<<1, 4>>), W(<<1>>), K(1)>>, <<T(<<1, 1>>)>>),
   Unit(Op, "FULLY_CONNECTED", <<T(<<1, 2>>), T(<<2, 2>>), W(<<2>>), K(0)>>, <<T(<<1, 2>>)>>),
   Unit(Op, "STRIDED_SLICE",
        <<T(<<2, 2>>), V(<<0, 0>>), V(<<1, 2>>), V(<<1, 1>>), K(0), K(0), K(0)>>, <<T(<<1, 2>>)>>),
   Unit(Ex, "TOPK_V2_EX", <<T(<<3>>), K(2)>>, <<T(<<2>>), I(<<2>>)>>),
   Unit(Ex, "GATHER_EX", <<T(<<3>>), I(<<2>>), K(0)>>, <<T(<<2>>)>>),
   Unit(Op, "EMBEDDING_LOOKUP", <<I(<<1>>), W(<<2, 2>>)>>, <<T(<<1, 2>>)>>),
   Unit(Op, "RNN", <<T(<<1, 2>>), W(<<1, 2>>), W(<<1, 1>>), W(<<1>>), T(<<1, 1>>), K(0)>>,
        <<T(<<1, 1>>), T(<<1, 1>>)>>),
   \* visits that throw, a type without a case, a call with too few operands
   Unit(Op, "LSTM", [i \in 1 .. 23 |-> T(<<1>>)], [i \in 1 .. 4 |-> T(<<1>>)]),
   Unit(Ex, "RSQRT_EX", <<F>>, <<F>>),
   Unit(Op, "HASHTABLE_LOOKUP", <<I(<<1>>), I(<<1>>), F>>, <<F, F>>),
   Unit(Op, "LOCAL_RESPONSE_NORMALIZATION", <<F>>, <<F>>),
   Unit(Ex, "PRELU_EX", <<F>>, <<F>>),
   Unit(Op, "ADD", <<F, F>>, <<F>>)}

Views ==
  {Unit(Op, "CONCATENATION", <<T(<<1, 2>>), W(<<2, 2>>), K(0)>>, <<T(<<3, 2>>)>>),
   Unit(Op, "CONCATENATION", <<F, T(<<1, 2, 1, 1>>), K(-1)>>, <<T(<<1, 2, 1, 3>>)>>),
   Unit(Ex, "SPLIT_EX", <<K(0), T(<<2, 2>>)>>, <<T(<<1, 2>>), T(<<1, 2>>)>>),
   Unit(Ex, "SPLIT_EX", <<K(3), F>>, <<T(<<1, 2, 1, 1>>), T(<<1, 2, 1, 1>>)>>),
   \* cut, work on the parts, join them with a third in a view of a view
   Script(<<T(<<4>>), T(<<2>>), T(<<2>>), T(<<2>>), T(<<2>>), T(<<4>>), T(<<1>>), T(<<5>>), K(0)>>,
          <<Ex("SPLIT_EX", <<9, 1>>, <<2, 3>>), Op("RELU", <<2>>, <<4>>), Op("TANH", <<3>>, <<5>>),
            Op("CONCATENATION", <<5, 4, 9>>, <<6>>), Op("CONCATENATION", <<7, 6, 9>>, <<8>>)>>,
          <<8, 3>>, <<>>),
   \* a part in two views
   Script(<<T(<<1>>), T(<<1>>), T(<<1>>), T(<<2>>), T(<<2>>), K(0)>>,
          <<Op("CONCATENATION", <<1, 2, 6>>, <<4>>), Op("CONCATENATION", <<3, 1, 6>>, <<5>>)>>,
          <<4, 5>>, <<>>)}

Chains ==
  {Script(<<T(<<2>>), T(<<2>>), T(<<2>>), W(<<2>>), K(1)>>,
          <<Op("ADD", <<1, 4, 5>>, <<2>>), Op("MUL", <<2, 1, 5>>, <<3>>)>>, <<3, 2>>, <<>>),
   \* out of order
   Script(<<T(<<2>>), T(<<2>>), T(<<2>>), K(0)>>,
          <<Op("ADD", <<2, 1, 4>>, <<3>>), Op("RELU", <<1>>, <<2>>)>>, <<3>>, <<>>),
   \* laid out anew by a later broadcast
   Script(<<T(<<2, 2>>), T(<<2, 2>>), T(<<1, 1, 2, 2>>), T(<<1, 1, 2, 2>>), K(0)>>,
          <<Op("RELU", <<1>>, <<2>>), Op("ADD", <<2, 3, 5>>, <<4>>)>>, <<4>>, <<>>),
   \* calls on a finished model: an operation, a value, refused ones
   Script(<<T(<<2>>), T(<<2>>), T(<<2>>), W(<<2>>), K(0)>>,
          <<Op("ADD", <<1, 4, 5>>, <<2>>)>>, <<2, 3>>, <<Ex("CAST_EX", <<2>>, <<3>>)>>),
   Script(<<T(<<2>>), T(<<2>>), T(<<2>>), W(<<2>>), K(0)>>,
          <<Op("ADD", <<1, 2, 5>>, <<3>>)>>, <<3>>,
          <<Set(2, <<>>), Op("RELU", <<1>>, <<4>>), Identify(<<2>>, <<>>), End0, Add(F)>>),
   \* bad operand types, a value for no operand
   <<Add(F), [Add(Q8(<<1>>)) EXCEPT !.type.scale = 0], Add([F EXCEPT !.type = "scalar"]), Set(2, <<>>)>>,
   <<Add([F EXCEPT !.type = "other"])>>}

\* Operations around a Split, for the profiler.
Profile ==
  Script(<<T(<<2>>), T(<<2>>), T(<<1>>), T(<<1>>), T(<<1>>), K(0)>>,
         <<Op("TANH", <<1>>, <<2>>), Ex("SPLIT_EX", <<6, 2>>, <<3, 4>>), Op("RELU", <<3>>, <<5>>)>>,
         <<5>>, <<>>)

\* The clients of one operation finish and compute once, those of several twice.
Client(calls, f, c, s) == [calls |-> calls, finishes |-> f, computes |-> c, switches |-> s]

MCClients ==
  {Client(calls, 1, 1, 0) : calls \in Arithmetics \cup Windows \cup Maps \cup Others}
    \cup {Client(calls, 1, 2, 1) : calls \in Views}
    \cup {Client(calls, 2, 1, 0) : calls \in Chains}
    \cup {Client(Profile, 1, 3, 3)}
MCOpIndex == 0 .. 9
=============================================================================
