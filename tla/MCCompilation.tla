--------------------------- MODULE MCCompilation ---------------------------
(***************************************************************************)
(* A small instance of Compilation, compiled twice: two operations of      *)
(* every class of kinds over five operands, the first writing 4 and the    *)
(* second 5, one after the other or side by side, with a kernel and a bias *)
(* of their own or shared, on one backend or on both, with any faults.     *)
(***************************************************************************)
EXTENDS Compilation

MCOperation == 1 .. 2
MCOperand == 1 .. 5

\* A kind and its inputs, for the first operation and for the second.
MCFirst == {<<"Conv2D", <<1, 2, 3>>>>, <<"FullyConnected", <<1, 2, 3>>>>,
            <<"Concat", <<1, 2>>>>, <<"Softmax", <<1>>>>}
MCSecond == {<<"Conv2D", <<4, 2, 3>>>>, <<"FullyConnected", <<1, 2, 3>>>>,
             <<"Concat", <<1, 4>>>>, <<"Reshape", <<4>>>>, <<"MaxPool2D", <<1>>>>,
             <<"Permute", <<4>>>>}

MCModels == {[kind |-> <<f[1], s[1]>>, ins |-> <<f[2], s[2]>>,
              outputs |-> <<{4}, {5}>>] : f \in MCFirst, s \in MCSecond}
=============================================================================
