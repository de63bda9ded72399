--------------------------- MODULE NNModelProofs ---------------------------
(***************************************************************************)
(* What the calls on a model and an insertion promise, for any number of   *)
(* operands and operations and any lists the caller passes.                *)
(*                                                                         *)
(* While finish runs, an entry of a use or definition list has been made   *)
(* or is still to be made, just when its operation has been visited; and   *)
(* the entries of an operation whose inputs differ are made once each.     *)
(***************************************************************************)
EXTENDS NNModel, TLAPS, SequenceTheorems

Ins(o) == ToSet(ops[o].ins)
Outs(o) == ToSet(ops[o].outs)
Visited == DOMAIN ops \ pending

\* The entries that finish has still to make in a list of operand x.
Coming(list, x) ==
  {l.operation : l \in {k \in ToSet(links) : k.list = list /\ k.operand = x}}

PhaseInv ==
  /\ phase = "BUILDING" <=> outcome = "none"
  /\ phase = "BUILDING" =>
       /\ Len(ops) <= MaxOperations
       /\ links = <<>> /\ pending = {}
       /\ \A x \in Index : uses[x] = {} /\ defs[x] = {}
  /\ outcome = "ok" => pending = {} /\ links = <<>>

OpsInv ==
  /\ Len(ops) <= MaxOperations + MaxInserted
  /\ pending \subseteq DOMAIN ops
  /\ \A o \in DOMAIN ops : \E x \in Index : ops[o].outs = <<x>>

\* Nothing is recorded of an operand that has not been added.
UnknownInv ==
  \A x \in Index : x >= count => usage[x] = "NOT_DEFINED" /\ uses[x] = {} /\ defs[x] = {}

LinkInv ==
  outcome # "none" =>
    \A x \in Index :
      /\ uses[x] \cup Coming("use", x) = {o \in Visited : x \in Ins(o)}
      /\ defs[x] \cup Coming("def", x) = {o \in Visited : x \in Outs(o)}

\* An entry is made again only for an input that its operation repeats.
Repeated(l) == l.list = "use" /\ ~IsInjective(ops[l.operation].ins)
Made(l) == IF l.list = "def" THEN l.operation \in defs[l.operand]
                             ELSE l.operation \in uses[l.operand]

OnceInv ==
  \A i \in DOMAIN links :
    Repeated(links[i]) \/ /\ ~Made(links[i])
                          /\ \A j \in DOMAIN links : links[i] = links[j] => i = j

Inv ==
  /\ TypeOK /\ PhaseInv /\ OpsInv /\ UnknownInv /\ LinkInv /\ OnceInv
  /\ OneRolePerOperand /\ WellReferencedModelsFinish
-----------------------------------------------------------------------------
LEMMA Bounds ==
  /\ MaxOperands \in Nat /\ MaxOperations \in Nat /\ MaxInserted \in Nat
  /\ InputLists \subseteq Seq(Index)
  /\ \A xs \in OutputLists : xs \in Seq(Index) /\ xs # <<>>
BY BoundsAssumption

\* Marking gives a role to operands that had none, and changes nobody's.
LEMMA MarkKeeps ==
  ASSUME TypeOK, NEW u \in Usages, NEW xs \in Seq(Index), Mark(xs, u)
  PROVE  /\ usage' \in [Index -> Usages]
         /\ \A x \in Index :
              \/ usage'[x] = usage[x]
              \/ usage[x] = "NOT_DEFINED" /\ usage'[x] = u /\ x < count
         /\ Accepted(xs, u) => \A i \in 1 .. Len(xs) : usage'[xs[i]] = u
<1>1. usage' = [x \in Index |-> IF x \in Marked(xs, u) THEN u ELSE usage[x]]
  BY DEF Mark
<1>2. usage \in [Index -> Usages]
  BY DEF TypeOK
<1>3. Len(xs) \in Nat /\ \A i \in 1 .. Len(xs) : xs[i] \in Index
  OBVIOUS
<1>4. ASSUME NEW x \in Marked(xs, u)
      PROVE  x < count /\ usage[x] \in {"NOT_DEFINED", u}
  <2>1. PICK i \in 1 .. Len(xs) : x = xs[i] /\ \A k \in 1 .. i : Settable(xs[k], u)
    BY <1>4 DEF Marked
  <2>2. i \in 1 .. i
    BY <1>3, <2>1
  <2> QED
    BY <2>1, <2>2 DEF Settable, Exists
<1>5. ASSUME Accepted(xs, u), NEW i \in 1 .. Len(xs)
      PROVE  usage'[xs[i]] = u
  <2>1. \A k \in 1 .. i : k \in 1 .. Len(xs)
    BY <1>3
  <2>2. \A k \in 1 .. i : Settable(xs[k], u)
    BY <1>5, <2>1 DEF Accepted
  <2>3. xs[i] \in Marked(xs, u)
    BY <2>2 DEF Marked
  <2> QED
    BY <1>1, <1>3, <2>3
<1> QED
  BY <1>1, <1>2, <1>4, <1>5

LEMMA InitInv == Init => Inv
<1> SUFFICES ASSUME Init PROVE Inv
  OBVIOUS
<1> USE Bounds DEF Init
<1>1. TypeOK
  BY DEF TypeOK, Usages
<1>2. PhaseInv /\ UnknownInv
  BY DEF PhaseInv, UnknownInv
<1>3. OpsInv
  BY DEF OpsInv
<1>4. LinkInv /\ OnceInv
  BY DEF LinkInv, OnceInv
<1>5. OneRolePerOperand /\ WellReferencedModelsFinish
  BY DEF OneRolePerOperand, WellReferencedModelsFinish
<1> QED
  BY <1>1, <1>2, <1>3, <1>4, <1>5 DEF Inv

\* While the model is built the lists are empty, so that a call has to keep
\* only what concerns operands and operations.
LEMMA BuildingKeeps ==
  ASSUME Inv, phase = "BUILDING", UNCHANGED <<lists, finishing>>, TypeOK',
         Len(ops') <= MaxOperations, \A o \in DOMAIN ops' : \E x \in Index : ops'[o].outs = <<x>>,
         \A x \in Index : x >= count' => usage'[x] = "NOT_DEFINED",
         OneRolePerOperand'
  PROVE  Inv'
<1>1. /\ outcome = "none" /\ links = <<>>
      /\ \A x \in Index : uses[x] = {} /\ defs[x] = {}
      /\ UNCHANGED <<uses, defs, phase, pending, links, outcome>>
  BY DEF Inv, PhaseInv, lists, finishing
<1>2. pending' = {}
  BY <1>1 DEF Inv, PhaseInv
<1>3. PhaseInv' /\ UnknownInv'
  BY <1>1, <1>2 DEF PhaseInv, UnknownInv
<1>4. OpsInv'
  BY <1>2, Bounds DEF OpsInv, TypeOK
<1>5. LinkInv' /\ OnceInv' /\ WellReferencedModelsFinish'
  BY <1>1 DEF LinkInv, OnceInv, WellReferencedModelsFinish
<1> QED
  BY <1>3, <1>4, <1>5 DEF Inv

\* The roles a call gives leave the ones that count alone.
LEMMA MarkKeepsRoles ==
  ASSUME Inv, NEW u \in Usages, NEW xs \in Seq(Index), Mark(xs, u)
  PROVE  /\ usage' \in [Index -> Usages]
         /\ \A x \in Index : usage[x] # "NOT_DEFINED" => usage'[x] = usage[x]
         /\ \A x \in Index : x >= count => usage'[x] = "NOT_DEFINED"
         /\ Accepted(xs, u) => \A i \in 1 .. Len(xs) : usage'[xs[i]] = u
<1>1. TypeOK /\ \A x \in Index : x >= count => usage[x] = "NOT_DEFINED"
  BY DEF Inv, UnknownInv
<1>2. count \in Int /\ \A x \in Index : x \in Int
  BY <1>1, Bounds DEF TypeOK, Index
<1>3. /\ usage' \in [Index -> Usages]
      /\ \A x \in Index :
           \/ usage'[x] = usage[x]
           \/ usage[x] = "NOT_DEFINED" /\ usage'[x] = u /\ x < count
      /\ Accepted(xs, u) => \A i \in 1 .. Len(xs) : usage'[xs[i]] = u
  BY <1>1, MarkKeeps
<1> QED
  BY <1>1, <1>2, <1>3

\* The operands of an operation.
LEMMA OperandsOfOps ==
  ASSUME TypeOK
  PROVE  /\ DOMAIN ops = 1 .. Len(ops) /\ Len(ops) \in Nat
         /\ \A o \in DOMAIN ops : /\ ops[o] \in [ins : Seq(Index), outs : Seq(Index)]
                                  /\ ops[o].ins \in Seq(Index) /\ ops[o].outs \in Seq(Index)
                                  /\ Ins(o) \subseteq Index /\ Outs(o) \subseteq Index
<1>1. DOMAIN ops = 1 .. Len(ops) /\ Len(ops) \in Nat
  BY DEF TypeOK
<1>2. ASSUME NEW o \in DOMAIN ops
      PROVE  /\ ops[o] \in [ins : Seq(Index), outs : Seq(Index)]
             /\ ops[o].ins \in Seq(Index) /\ ops[o].outs \in Seq(Index)
  <2>1. ops[o] \in [ins : Seq(Index), outs : Seq(Index)]
    BY <1>1, <1>2, ElementOfSeq DEF TypeOK
  <2> QED
    BY <2>1
<1>3. ASSUME NEW xs \in Seq(Index)
      PROVE  ToSet(xs) \subseteq Index
  BY <1>3 DEF ToSet
<1> QED
  BY <1>1, <1>2, <1>3 DEF Ins, Outs

LEMMA AddOperandInv ==
  ASSUME Inv, AddOperand
  PROVE  Inv'
<1> USE DEF AddOperand
<1>1. TypeOK'
  BY Bounds DEF Inv, TypeOK, lists, finishing
<1>2. Len(ops') <= MaxOperations /\ \A o \in DOMAIN ops' : \E x \in Index : ops'[o].outs = <<x>>
  BY DEF Inv, PhaseInv, OpsInv
<1>3. \A x \in Index : x >= count' => usage'[x] = "NOT_DEFINED"
  BY Bounds DEF Inv, TypeOK, UnknownInv, Index
<1>4. OneRolePerOperand'
  BY DEF Inv, OneRolePerOperand
<1> QED
  BY <1>1, <1>2, <1>3, <1>4, BuildingKeeps

\* A call that marks operands and adds no operation.
LEMMA MarkingInv ==
  ASSUME Inv, phase = "BUILDING", NEW u \in Usages, NEW xs \in Seq(Index), Mark(xs, u),
         UNCHANGED <<asserts, ops, count, lists, finishing>>,
         modelIns' \in Seq(Index), UNCHANGED modelOuts,
         data' \subseteq Index, \A x \in data' \ data : usage'[x] = "CONSTANT"
  PROVE  Inv'
<1>1. /\ usage' \in [Index -> Usages]
      /\ \A x \in Index : usage[x] # "NOT_DEFINED" => usage'[x] = usage[x]
      /\ \A x \in Index : x >= count => usage'[x] = "NOT_DEFINED"
  BY MarkKeepsRoles
<1>2. TypeOK'
  BY <1>1 DEF Inv, TypeOK, lists, finishing
<1>3. Len(ops') <= MaxOperations /\ \A o \in DOMAIN ops' : \E x \in Index : ops'[o].outs = <<x>>
  BY DEF Inv, PhaseInv, OpsInv
<1>4. OneRolePerOperand'
  <2>1. \A x \in data' : usage'[x] = "CONSTANT"
    BY <1>1 DEF Inv, OneRolePerOperand, TypeOK
  <2>2. \A o \in DOMAIN ops : \A x \in ToSet(ops[o].outs) :
          x \in Index /\ usage[x] = "OPERATION_OUTPUT"
    BY OperandsOfOps DEF Inv, OneRolePerOperand, Outs
  <2> QED
    BY <1>1, <2>1, <2>2 DEF OneRolePerOperand
<1> QED
  BY <1>1, <1>2, <1>3, <1>4, BuildingKeeps

LEMMA SetOperandValueInv ==
  ASSUME Inv, NEW x \in Index, SetOperandValue(x)
  PROVE  Inv'
<1> USE DEF SetOperandValue
<1>1. <<x>> \in Seq(Index) /\ Len(<<x>>) = 1 /\ <<x>>[1] = x /\ "CONSTANT" \in Usages
  BY DEF Usages
<1>2. Accepted(<<x>>, "CONSTANT")
  BY <1>1 DEF Accepted
<1>3. usage'[x] = "CONSTANT"
  <2>1. \A i \in 1 .. Len(<<x>>) : usage'[<<x>>[i]] = "CONSTANT"
    BY <1>1, <1>2, MarkKeepsRoles
  <2>2. 1 \in 1 .. Len(<<x>>)
    BY <1>1
  <2> QED
    BY <1>1, <2>1, <2>2
<1>4. data' \subseteq Index /\ data' \ data \subseteq {x}
  BY DEF Inv, TypeOK
<1>5. modelIns' \in Seq(Index)
  BY DEF Inv, TypeOK
<1> QED
  BY <1>1, <1>3, <1>4, <1>5, MarkingInv

LEMMA IdentifyInputInv ==
  ASSUME Inv, NEW x \in Index, IdentifyInput(x)
  PROVE  Inv'
<1> USE DEF IdentifyInput
<1>1. <<x>> \in Seq(Index) /\ "MODEL_INPUT" \in Usages
  BY DEF Usages
<1>2. modelIns' \in Seq(Index) /\ data' = data /\ data \subseteq Index
  BY DEF Inv, TypeOK
<1> QED
  BY <1>1, <1>2, MarkingInv

LEMMA AddUnsupportedOperationInv ==
  ASSUME Inv, NEW outs \in OutputLists, AddUnsupportedOperation(outs)
  PROVE  Inv'
<1> USE DEF AddUnsupportedOperation
<1>1. outs \in Seq(Index) /\ "OPERATION_OUTPUT" \in Usages
  BY Bounds DEF Usages
<1>2. modelIns' \in Seq(Index) /\ data' = data /\ data \subseteq Index
  BY DEF Inv, TypeOK, api
<1> QED
  BY <1>1, <1>2, MarkingInv DEF api

LEMMA IdentifyOutputInv ==
  ASSUME Inv, NEW x \in Index, IdentifyOutput(x)
  PROVE  Inv'
<1> USE DEF IdentifyOutput
<1>1. TypeOK'
  BY DEF Inv, TypeOK, lists, finishing
<1>2. Len(ops') <= MaxOperations /\ \A o \in DOMAIN ops' : \E y \in Index : ops'[o].outs = <<y>>
  BY DEF Inv, PhaseInv, OpsInv
<1>3. \A y \in Index : y >= count' => usage'[y] = "NOT_DEFINED"
  BY DEF Inv, UnknownInv
<1>4. OneRolePerOperand'
  BY DEF Inv, OneRolePerOperand
<1> QED
  BY <1>1, <1>2, <1>3, <1>4, BuildingKeeps

LEMMA AddOperationInv ==
  ASSUME Inv, NEW ins \in InputLists, NEW outs \in OutputLists, AddOperation(ins, outs)
  PROVE  Inv'
<1>1. /\ phase = "BUILDING" /\ Len(ops) < MaxOperations /\ Mark(outs, "OPERATION_OUTPUT")
      /\ UNCHANGED <<asserts, api, lists, finishing>>
  BY DEF AddOperation
<1>2. /\ outs \in Seq(Index) /\ outs # <<>> /\ ins \in Seq(Index)
      /\ Head(outs) \in Index /\ Head(outs) = outs[1] /\ 1 \in 1 .. Len(outs)
      /\ "OPERATION_OUTPUT" \in Usages
  BY Bounds DEF Usages
<1>3. /\ usage' \in [Index -> Usages]
      /\ \A x \in Index : usage[x] # "NOT_DEFINED" => usage'[x] = usage[x]
      /\ \A x \in Index : x >= count => usage'[x] = "NOT_DEFINED"
      /\ Accepted(outs, "OPERATION_OUTPUT") => usage'[Head(outs)] = "OPERATION_OUTPUT"
  BY <1>1, <1>2, MarkKeepsRoles
<1>4. CASE ~Accepted(outs, "OPERATION_OUTPUT")
  <2>1. UNCHANGED ops
    BY <1>4 DEF AddOperation
  <2>2. modelIns' \in Seq(Index) /\ data' = data /\ data \subseteq Index
    BY <1>1 DEF Inv, TypeOK, api
  <2> QED
    BY <1>1, <1>2, <2>1, <2>2, MarkingInv DEF api
<1>5. CASE Accepted(outs, "OPERATION_OUTPUT")
  <2> DEFINE n == [ins |-> ins, outs |-> <<Head(outs)>>]
  <2>1. ops' = Append(ops, n)
    BY <1>5 DEF AddOperation
  <2>2. /\ n \in [ins : Seq(Index), outs : Seq(Index)]
        /\ n.outs = <<Head(outs)>> /\ ToSet(n.outs) = {Head(outs)}
    BY <1>2 DEF ToSet
  <2> HIDE DEF n
  <2>3. /\ ops \in Seq([ins : Seq(Index), outs : Seq(Index)])
        /\ ops' \in Seq([ins : Seq(Index), outs : Seq(Index)])
        /\ Len(ops') = Len(ops) + 1 /\ DOMAIN ops' = 1 .. Len(ops) + 1
        /\ ops'[Len(ops) + 1] = n /\ \A o \in 1 .. Len(ops) : ops'[o] = ops[o]
    BY <2>1, <2>2 DEF Inv, TypeOK
  <2>4. DOMAIN ops = 1 .. Len(ops) /\ Len(ops) \in Nat
    BY <2>3
  <2>5. \A o \in DOMAIN ops' : o = Len(ops) + 1 \/ (o \in DOMAIN ops /\ ops'[o] = ops[o])
    BY <2>3, <2>4
  <2>6. TypeOK'
    BY <1>1, <1>3, <2>3 DEF Inv, TypeOK, api, lists, finishing
  <2>7. Len(ops') <= MaxOperations
    BY <1>1, <2>3, <2>4, Bounds
  <2>8. \A o \in DOMAIN ops' : \E x \in Index : ops'[o].outs = <<x>>
    BY <1>2, <2>2, <2>3, <2>5 DEF Inv, OpsInv
  <2>9. OneRolePerOperand'
    <3>1. \A x \in data' : usage'[x] = "CONSTANT"
      BY <1>1, <1>3 DEF Inv, OneRolePerOperand, TypeOK, api
    <3>2. \A o \in DOMAIN ops : \A x \in ToSet(ops[o].outs) :
            x \in Index /\ usage[x] = "OPERATION_OUTPUT"
      BY OperandsOfOps DEF Inv, OneRolePerOperand, Outs
    <3>3. ASSUME NEW o \in DOMAIN ops', NEW x \in ToSet(ops'[o].outs)
          PROVE  usage'[x] = "OPERATION_OUTPUT"
      <4>1. CASE o = Len(ops) + 1
        BY <1>3, <1>5, <2>2, <2>3, <4>1, <3>3
      <4>2. CASE o \in DOMAIN ops /\ ops'[o] = ops[o]
        BY <1>3, <3>2, <3>3, <4>2
      <4> QED
        BY <2>5, <4>1, <4>2
    <3> QED
      BY <3>1, <3>3 DEF OneRolePerOperand
  <2>10. \A x \in Index : x >= count' => usage'[x] = "NOT_DEFINED"
    BY <1>1, <1>3 DEF api
  <2> QED
    BY <1>1, <2>6, <2>7, <2>8, <2>9, <2>10, BuildingKeeps
<1> QED
  BY <1>4, <1>5

-----------------------------------------------------------------------------
LEMMA FinishInv ==
  ASSUME Inv, Finish
  PROVE  Inv'
<1> USE DEF Finish
<1>1. /\ links = <<>> /\ outcome = "none" /\ Len(ops) <= MaxOperations
      /\ \A x \in Index : uses[x] = {} /\ defs[x] = {}
      /\ UNCHANGED <<uses, defs, links, ops, count, usage, data>>
  BY DEF Inv, PhaseInv, lists, api
<1>2. DOMAIN ops = 1 .. Len(ops) /\ Len(ops) \in Nat
  BY OperandsOfOps DEF Inv
<1>3. pending' \subseteq OperationIndex
  BY <1>1, <1>2, Bounds DEF OperationIndex
<1>4. TypeOK'
  BY <1>1, <1>3 DEF Inv, TypeOK, api
<1>5. PhaseInv' /\ OpsInv' /\ UnknownInv'
  <2>1. PhaseInv'
    BY DEF PhaseInv
  <2>2. OpsInv'
    BY <1>1, <1>2 DEF Inv, OpsInv
  <2>3. UnknownInv'
    BY <1>1 DEF Inv, UnknownInv
  <2> QED
    BY <2>1, <2>2, <2>3
<1>6. LinkInv'
  <2>1. \A list : \A x \in Index : Coming(list, x)' = {}
    BY <1>1 DEF Coming, ToSet
  <2>2. Visited' = {}
    BY <1>1, <1>2 DEF Visited
  <2> QED
    BY <1>1, <2>1, <2>2 DEF LinkInv
<1>7. OnceInv'
  BY <1>1 DEF OnceInv
<1>8. OneRolePerOperand' /\ WellReferencedModelsFinish'
  BY <1>1 DEF Inv, OneRolePerOperand, WellReferencedModelsFinish
<1> QED
  BY <1>4, <1>5, <1>6, <1>7, <1>8 DEF Inv

\* The entries that an operation makes in the lists of its operands xs.
LEMMA EntriesOfList ==
  ASSUME NEW list \in {"def", "use"}, NEW xs \in Seq(Index), NEW o \in OperationIndex
  PROVE  /\ LinksOf(list, xs, o) \in Seq(Link)
         /\ Len(LinksOf(list, xs, o)) = Len(xs)
         /\ \A i \in 1 .. Len(xs) : /\ LinksOf(list, xs, o)[i].list = list
                                    /\ LinksOf(list, xs, o)[i].operand = xs[i]
                                    /\ LinksOf(list, xs, o)[i].operation = o
<1> DEFINE n == Len(xs)
           e(i) == [list |-> list, operand |-> xs[i], operation |-> o]
           s == [i \in 1 .. n |-> e(i)]
<1>1. n \in Nat /\ \A i \in 1 .. n : xs[i] \in Index
  OBVIOUS
<1>2. \A i \in 1 .. n : /\ e(i) \in Link /\ e(i).list = list
                        /\ e(i).operand = xs[i] /\ e(i).operation = o
  BY <1>1 DEF Link
<1>3. LinksOf(list, xs, o) = s
  BY DEF LinksOf
<1> HIDE DEF n, e
<1>4. s \in [1 .. n -> Link] /\ \A i \in 1 .. n : s[i] = e(i)
  BY <1>2
<1> HIDE DEF s
<1>5. s \in Seq(Link) /\ Len(s) = n
  BY <1>1, <1>4
<1> QED
  BY <1>2, <1>3, <1>4, <1>5 DEF n

\* One element before a list.
LEMMA ConcatOne ==
  ASSUME NEW S, NEW d \in Seq(S), Len(d) = 1, NEW u \in Seq(S)
  PROVE  /\ d \o u \in Seq(S)
         /\ DOMAIN (d \o u) = 1 .. Len(u) + 1
         /\ (d \o u)[1] = d[1]
         /\ \A i \in 2 .. Len(u) + 1 : (d \o u)[i] = u[i - 1] /\ i - 1 \in 1 .. Len(u)
<1>1. PICK all : all = d \o u
  OBVIOUS
<1>2. PICK n \in Nat : n = Len(u)
  OBVIOUS
<1>3. /\ all \in Seq(S) /\ Len(all) = 1 + n
      /\ \A i \in 1 .. 1 + n : all[i] = IF i <= 1 THEN d[i] ELSE u[i - 1]
  <2>1. /\ d \o u \in Seq(S)
        /\ Len(d \o u) = Len(d) + Len(u)
        /\ \A i \in 1 .. Len(d) + Len(u) :
             (d \o u)[i] = IF i <= Len(d) THEN d[i] ELSE u[i - Len(d)]
    BY ConcatProperties
  <2> QED
    BY <1>1, <1>2, <2>1
<1>4. DOMAIN all = 1 .. n + 1
  BY <1>3
<1>5. all[1] = d[1]
  BY <1>3
<1>6. ASSUME NEW i \in 2 .. n + 1
      PROVE  all[i] = u[i - 1] /\ i - 1 \in 1 .. n
  <2>1. i \in 1 .. 1 + n /\ ~(i <= 1) /\ i - 1 \in 1 .. n
    OBVIOUS
  <2> QED
    BY <1>3, <2>1
<1> QED
  BY <1>1, <1>2, <1>3, <1>4, <1>5, <1>6

\* The entries of an operation: the one of its output, then those of its inputs.
Entries(o) == LinksOf("def", ops[o].outs, o) \o LinksOf("use", ops[o].ins, o)

LEMMA EntriesOfOperation ==
  ASSUME TypeOK, NEW o \in DOMAIN ops, o \in OperationIndex,
         NEW z \in Index, ops[o].outs = <<z>>
  PROVE  /\ Entries(o) \in Seq(Link) /\ Len(ops[o].ins) \in Nat
         /\ DOMAIN Entries(o) = 1 .. Len(ops[o].ins) + 1
         /\ Entries(o)[1].list = "def" /\ Entries(o)[1].operand = z
         /\ Entries(o)[1].operation = o
         /\ \A i \in 2 .. Len(ops[o].ins) + 1 :
              /\ Entries(o)[i].list = "use" /\ Entries(o)[i].operand = ops[o].ins[i - 1]
              /\ Entries(o)[i].operation = o
         /\ Outs(o) = {z}
<1> DEFINE d == LinksOf("def", ops[o].outs, o)
           u == LinksOf("use", ops[o].ins, o)
<1>1. ops[o].ins \in Seq(Index) /\ Len(ops[o].ins) \in Nat
  BY OperandsOfOps
<1>2. ops[o].outs \in Seq(Index) /\ Len(ops[o].outs) = 1 /\ ops[o].outs[1] = z
  BY OperandsOfOps
<1>3. d \in Seq(Link) /\ Len(d) = 1
      /\ d[1].list = "def" /\ d[1].operand = z /\ d[1].operation = o
  <2>1. /\ d \in Seq(Link) /\ Len(d) = Len(ops[o].outs)
        /\ \A i \in 1 .. Len(ops[o].outs) :
             d[i].list = "def" /\ d[i].operand = ops[o].outs[i] /\ d[i].operation = o
    <3>1. \A xs \in Seq(Index) :
            /\ LinksOf("def", xs, o) \in Seq(Link) /\ Len(LinksOf("def", xs, o)) = Len(xs)
            /\ \A i \in 1 .. Len(xs) : /\ LinksOf("def", xs, o)[i].list = "def"
                                       /\ LinksOf("def", xs, o)[i].operand = xs[i]
                                       /\ LinksOf("def", xs, o)[i].operation = o
      BY EntriesOfList
    <3> QED
      BY <1>2, <3>1, Zenon
  <2>2. 1 \in 1 .. Len(ops[o].outs)
    BY <1>2
  <2> QED
    BY <1>2, <2>1, <2>2
<1>4. u \in Seq(Link) /\ Len(u) = Len(ops[o].ins)
      /\ \A i \in 1 .. Len(ops[o].ins) :
           u[i].list = "use" /\ u[i].operand = ops[o].ins[i] /\ u[i].operation = o
  BY <1>1, EntriesOfList
<1>5. Entries(o) = d \o u
  BY DEF Entries
<1> HIDE DEF d, u
<1>6. /\ Entries(o) \in Seq(Link)
      /\ DOMAIN Entries(o) = 1 .. Len(ops[o].ins) + 1
      /\ Entries(o)[1] = d[1]
      /\ \A i \in 2 .. Len(ops[o].ins) + 1 :
           Entries(o)[i] = u[i - 1] /\ i - 1 \in 1 .. Len(ops[o].ins)
  BY <1>3, <1>4, <1>5, ConcatOne
<1>7. Outs(o) = {z}
  BY DEF Outs, ToSet
<1>8. ASSUME NEW i \in 2 .. Len(ops[o].ins) + 1
      PROVE  /\ Entries(o)[i].list = "use" /\ Entries(o)[i].operand = ops[o].ins[i - 1]
             /\ Entries(o)[i].operation = o
  <2>1. Entries(o)[i] = u[i - 1] /\ i - 1 \in 1 .. Len(ops[o].ins)
    BY <1>6
  <2> QED
    BY <1>4, <2>1
<1> QED
  BY <1>1, <1>3, <1>6, <1>7, <1>8

LEMMA VisitOperationInv ==
  ASSUME Inv, NEW o \in OperationIndex, VisitOperation(o)
  PROVE  Inv'
<1>1. /\ outcome = "running" /\ links = <<>> /\ o \in pending /\ pending' = pending \ {o}
      /\ links' = LinksOf("def", ops[o].outs, o) \o LinksOf("use", ops[o].ins, o)
      /\ UNCHANGED <<asserts, usage, ops, count, data, modelIns, modelOuts, uses, defs,
                     phase, outcome>>
  BY DEF VisitOperation, api, lists
<1>2. TypeOK /\ o \in DOMAIN ops /\ phase # "BUILDING"
  BY <1>1 DEF Inv, OpsInv, PhaseInv
<1>3. PICK z \in Index : ops[o].outs = <<z>>
  BY <1>2 DEF Inv, OpsInv
<1>4. PICK all : all = Entries(o)
  OBVIOUS
<1>5. PICK ins : ins = ops[o].ins
  OBVIOUS
<1>6. /\ all \in Seq(Link) /\ Len(ins) \in Nat /\ DOMAIN all = 1 .. Len(ins) + 1
      /\ \A i \in DOMAIN all : all[i].operation = o
      /\ all[1].list = "def" /\ all[1].operand = z
      /\ \A i \in 2 .. Len(ins) + 1 : all[i].list = "use" /\ all[i].operand = ins[i - 1]
      /\ Outs(o) = {z}
      /\ links' = all
  <2>1. /\ all \in Seq(Link) /\ Len(ins) \in Nat /\ DOMAIN all = 1 .. Len(ins) + 1
        /\ all[1].list = "def" /\ all[1].operand = z /\ all[1].operation = o
        /\ \A i \in 2 .. Len(ins) + 1 : /\ all[i].list = "use" /\ all[i].operand = ins[i - 1]
                                        /\ all[i].operation = o
        /\ Outs(o) = {z}
    BY <1>2, <1>3, <1>4, <1>5, EntriesOfOperation
  <2>2. \A i \in 1 .. Len(ins) + 1 : i = 1 \/ i \in 2 .. Len(ins) + 1
    BY <2>1
  <2>3. links' = all
    BY <1>1, <1>4 DEF Entries
  <2> QED
    BY <2>1, <2>2, <2>3
<1>7. /\ 1 \in DOMAIN all
      /\ \A i \in DOMAIN all : i = 1 \/ (i \in 2 .. Len(ins) + 1 /\ i - 1 \in 1 .. Len(ins))
      /\ \A i \in 1 .. Len(ins) : i + 1 \in 2 .. Len(ins) + 1 /\ i + 1 \in DOMAIN all /\ (i + 1) - 1 = i
  BY <1>6
<1>8. Ins(o) = {ins[i] : i \in 1 .. Len(ins)} /\ ins \in Seq(Index) /\ DOMAIN ins = 1 .. Len(ins)
  BY <1>2, <1>5, OperandsOfOps DEF Ins, ToSet
<1>9. \A l \in ToSet(all) : l.operation = o
  BY <1>6 DEF ToSet
<1>10. \A x \in Index :
         /\ Coming("def", x)' = {p \in {o} : x \in Outs(p)}
         /\ Coming("use", x)' = {p \in {o} : x \in Ins(p)}
  <2> SUFFICES ASSUME NEW x \in Index
               PROVE  /\ {l.operation : l \in {k \in ToSet(all) : k.list = "def" /\ k.operand = x}}
                           = {p \in {o} : x \in Outs(p)}
                      /\ {l.operation : l \in {k \in ToSet(all) : k.list = "use" /\ k.operand = x}}
                           = {p \in {o} : x \in Ins(p)}
    BY <1>6 DEF Coming
  <2>1. (\E k \in ToSet(all) : k.list = "def" /\ k.operand = x) <=> x \in Outs(o)
    BY <1>6, <1>7 DEF ToSet
  <2>2. (\E k \in ToSet(all) : k.list = "use" /\ k.operand = x) <=> x \in Ins(o)
    <3>1. ASSUME NEW i \in 1 .. Len(ins), ins[i] = x
          PROVE  \E k \in ToSet(all) : k.list = "use" /\ k.operand = x
      <4>1. all[i + 1] \in ToSet(all)
        BY <1>7 DEF ToSet
      <4> QED
        BY <1>6, <1>7, <3>1, <4>1
    <3>2. ASSUME NEW k \in ToSet(all), k.list = "use", k.operand = x
          PROVE  \E i \in 1 .. Len(ins) : ins[i] = x
      BY <1>6, <1>7, <3>2 DEF ToSet
    <3> QED
      BY <1>8, <3>1, <3>2
  <2> QED
    BY <1>9, <2>1, <2>2
<1>11. TypeOK'
  BY <1>1, <1>2, <1>6 DEF TypeOK
<1>12. PhaseInv' /\ OpsInv' /\ UnknownInv' /\ OneRolePerOperand' /\ WellReferencedModelsFinish'
  BY <1>1, <1>2
     DEF Inv, PhaseInv, OpsInv, UnknownInv, OneRolePerOperand, WellReferencedModelsFinish
<1>13. \A x \in Index : /\ uses[x] = {p \in Visited : x \in Ins(p)}
                        /\ defs[x] = {p \in Visited : x \in Outs(p)}
  <2>1. \A list : \A x \in Index : Coming(list, x) = {}
    BY <1>1 DEF Coming, ToSet
  <2> QED
    BY <1>1, <2>1 DEF Inv, LinkInv
<1>14. LinkInv'
  <2>1. Visited' = Visited \cup {o}
    BY <1>1, <1>2 DEF Visited
  <2>2. \A p : Ins(p)' = Ins(p) /\ Outs(p)' = Outs(p)
    BY <1>1 DEF Ins, Outs
  <2>3. \A x \in Index :
          /\ uses[x] \cup Coming("use", x)' = {p \in Visited' : x \in Ins(p)}
          /\ defs[x] \cup Coming("def", x)' = {p \in Visited' : x \in Outs(p)}
    BY <1>10, <1>13, <2>1
  <2> QED
    BY <1>1, <2>2, <2>3 DEF LinkInv
<1>15. OnceInv'
  <2> SUFFICES ASSUME NEW i \in DOMAIN all, ~Repeated(all[i])'
               PROVE  /\ ~Made(all[i])'
                      /\ \A j \in DOMAIN all : all[i] = all[j] => i = j
    BY <1>6 DEF OnceInv, Repeated, Made
  <2>1. o \notin Visited
    BY <1>1 DEF Visited
  <2>2. all[i].operation = o /\ all[i].operand \in Index
    <3>1. all[i] \in Link
      BY <1>6
    <3> QED
      BY <1>6, <3>1 DEF Link
  <2>3. o \notin uses[all[i].operand] /\ o \notin defs[all[i].operand]
    BY <1>13, <2>1, <2>2
  <2>4. ~Made(all[i])'
    BY <1>1, <2>2, <2>3 DEF Made
  <2>5. CASE i = 1
    BY <1>6, <1>7, <2>4, <2>5
  <2>6. CASE i \in 2 .. Len(ins) + 1
    <3>1. all[i].list = "use" /\ all[i].operand = ins[i - 1] /\ i - 1 \in DOMAIN ins
      BY <1>6, <1>7, <1>8, <2>6
    <3>2. IsInjective(ins)
      BY <1>1, <1>5, <2>2, <3>1 DEF Repeated
    <3>3. ASSUME NEW j \in 2 .. Len(ins) + 1, all[i] = all[j]
          PROVE  i = j
      <4>1. ins[i - 1] = ins[j - 1] /\ j - 1 \in DOMAIN ins
        BY <1>6, <1>8, <3>1, <3>3
      <4>2. i - 1 = j - 1
        BY <3>1, <3>2, <4>1 DEF IsInjective
      <4> QED
        BY <1>6, <2>6, <4>2
    <3>4. all[i] # all[1]
      BY <1>6, <3>1
    <3> QED
      BY <1>7, <2>4, <3>3, <3>4
  <2> QED
    BY <1>7, <2>4, <2>5, <2>6
<1> QED
  BY <1>11, <1>12, <1>14, <1>15 DEF Inv

\* What every entry to come says of its operation.
LEMMA EntriesAreTrue ==
  ASSUME Inv, outcome # "none", NEW l \in ToSet(links)
  PROVE  /\ l \in Link /\ l.operand \in Index /\ l.operation \in DOMAIN ops
         /\ l.list \in {"def", "use"}
         /\ l.list = "use" => l.operand \in Ins(l.operation)
         /\ l.list = "def" => l.operand \in Outs(l.operation)
<1>1. l \in Link
  BY DEF Inv, TypeOK, ToSet
<1>2. l.operand \in Index /\ l.list \in {"def", "use"}
  BY <1>1 DEF Link
<1>3. l.operation \in Coming(l.list, l.operand)
  BY DEF Coming
<1> QED
  BY <1>1, <1>2, <1>3 DEF Inv, LinkInv, Visited

\* The first entry is made; the others are still to come.
LEMMA FirstEntry ==
  ASSUME TypeOK, links # <<>>
  PROVE  /\ Head(links) \in ToSet(links) /\ Head(links) = links[1]
         /\ Tail(links) \in Seq(Link)
         /\ ToSet(links) = {Head(links)} \cup ToSet(Tail(links))
         /\ 1 \in DOMAIN links
         /\ \A i \in DOMAIN Tail(links) :
              i + 1 \in DOMAIN links /\ Tail(links)[i] = links[i + 1] /\ i + 1 # 1
<1>1. /\ links \in Seq(Link) /\ Len(links) \in Nat /\ Len(links) >= 1
      /\ DOMAIN links = 1 .. Len(links)
  BY DEF TypeOK
<1>2. /\ Tail(links) \in Seq(Link) /\ Len(Tail(links)) = Len(links) - 1
      /\ DOMAIN Tail(links) = 1 .. Len(links) - 1
      /\ \A i \in 1 .. Len(links) - 1 : Tail(links)[i] = links[i + 1]
  BY <1>1, HeadTailProperties
<1>3. Head(links) = links[1] /\ 1 \in DOMAIN links
  BY <1>1
<1>4. \A i \in DOMAIN Tail(links) :
        i + 1 \in DOMAIN links /\ Tail(links)[i] = links[i + 1] /\ i + 1 # 1
  BY <1>1, <1>2
<1>5. \A i \in DOMAIN links : i = 1 \/ (i - 1 \in DOMAIN Tail(links) /\ (i - 1) + 1 = i)
  BY <1>1, <1>2
<1>6. ToSet(links) = {Head(links)} \cup ToSet(Tail(links))
  <2>1. \A i \in DOMAIN links : links[i] \in {Head(links)} \cup ToSet(Tail(links))
    BY <1>3, <1>4, <1>5 DEF ToSet
  <2>2. \A i \in DOMAIN Tail(links) : Tail(links)[i] \in ToSet(links)
    BY <1>4 DEF ToSet
  <2> QED
    BY <1>3, <2>1, <2>2 DEF ToSet
<1> QED
  BY <1>2, <1>3, <1>4, <1>6 DEF ToSet

LEMMA AppendLinkInv ==
  ASSUME Inv, AppendLink
  PROVE  Inv'
<1>1. PICK l : l = Head(links)
  OBVIOUS
<1>2. /\ outcome = "running" /\ links # <<>> /\ l.operand < count
      /\ IF l.list = "def"
         THEN /\ defs' = [defs EXCEPT ![l.operand] = @ \cup {l.operation}]
              /\ UNCHANGED uses
         ELSE /\ uses' = [uses EXCEPT ![l.operand] = @ \cup {l.operation}]
              /\ UNCHANGED defs
      /\ links' = Tail(links)
      /\ UNCHANGED <<asserts, usage, ops, count, data, modelIns, modelOuts, phase, pending,
                     outcome>>
  BY <1>1 DEF AppendLink, Exists, api
<1>3. TypeOK /\ phase # "BUILDING"
  BY <1>2 DEF Inv, PhaseInv
<1>4. /\ l \in ToSet(links) /\ links' \in Seq(Link) /\ ToSet(links) = {l} \cup ToSet(links')
      /\ 1 \in DOMAIN links /\ l = links[1]
      /\ \A i \in DOMAIN links' :
           i + 1 \in DOMAIN links /\ links'[i] = links[i + 1] /\ i + 1 # 1
  BY <1>1, <1>2, <1>3, FirstEntry
<1>5. /\ l \in Link /\ l.operand \in Index /\ l.operation \in OperationIndex
      /\ l.list \in {"def", "use"}
  <2>1. l \in Link
    BY <1>2, <1>4, EntriesAreTrue
  <2> QED
    BY <2>1 DEF Link
<1>6. /\ \A x \in Index : uses'[x] = IF l.list = "use" /\ x = l.operand
                                     THEN uses[x] \cup {l.operation} ELSE uses[x]
      /\ \A x \in Index : defs'[x] = IF l.list = "def" /\ x = l.operand
                                     THEN defs[x] \cup {l.operation} ELSE defs[x]
      /\ uses' \in [Index -> SUBSET OperationIndex]
      /\ defs' \in [Index -> SUBSET OperationIndex]
  <2>1. uses \in [Index -> SUBSET OperationIndex] /\ defs \in [Index -> SUBSET OperationIndex]
    BY <1>3 DEF TypeOK
  <2>2. CASE l.list = "def"
    BY <1>2, <1>5, <2>1, <2>2
  <2>3. CASE l.list = "use"
    BY <1>2, <1>5, <2>1, <2>3
  <2> QED
    BY <1>5, <2>2, <2>3
<1>7. TypeOK'
  BY <1>2, <1>3, <1>4, <1>6 DEF TypeOK
<1>8. PhaseInv' /\ OpsInv' /\ OneRolePerOperand' /\ WellReferencedModelsFinish'
  BY <1>2, <1>3 DEF Inv, PhaseInv, OpsInv, OneRolePerOperand, WellReferencedModelsFinish
<1>9. UnknownInv'
  <2>1. \A x \in Index : x >= count => x # l.operand
    BY <1>2, <1>3, <1>5, Bounds DEF TypeOK, Index
  <2> QED
    BY <1>2, <1>6, <2>1 DEF Inv, UnknownInv
<1>10. LinkInv'
  <2>1. \A x \in Index :
          /\ uses'[x] \cup Coming("use", x)' = uses[x] \cup Coming("use", x)
          /\ defs'[x] \cup Coming("def", x)' = defs[x] \cup Coming("def", x)
    <3> SUFFICES ASSUME NEW x \in Index
                 PROVE  /\ uses'[x] \cup Coming("use", x)' = uses[x] \cup Coming("use", x)
                        /\ defs'[x] \cup Coming("def", x)' = defs[x] \cup Coming("def", x)
      OBVIOUS
    <3>1. \A list \in {"def", "use"} :
            Coming(list, x) = Coming(list, x)' \cup
              (IF l.list = list /\ x = l.operand THEN {l.operation} ELSE {})
      BY <1>4 DEF Coming
    <3>2. uses'[x] \cup Coming("use", x)' = uses[x] \cup Coming("use", x)
      BY <1>6, <3>1
    <3>3. defs'[x] \cup Coming("def", x)' = defs[x] \cup Coming("def", x)
      BY <1>6, <3>1
    <3> QED
      BY <3>2, <3>3
  <2>2. Visited' = Visited /\ \A o : Ins(o)' = Ins(o) /\ Outs(o)' = Outs(o)
    BY <1>2 DEF Visited, Ins, Outs
  <2>3. \A x \in Index :
          /\ uses[x] \cup Coming("use", x) = {o \in Visited : x \in Ins(o)}
          /\ defs[x] \cup Coming("def", x) = {o \in Visited : x \in Outs(o)}
    BY <1>2 DEF Inv, LinkInv
  <2>4. \A x \in Index :
          /\ uses'[x] \cup Coming("use", x)' = {o \in Visited' : x \in Ins(o)'}
          /\ defs'[x] \cup Coming("def", x)' = {o \in Visited' : x \in Outs(o)'}
    BY <2>1, <2>2, <2>3
  <2> QED
    BY <2>4 DEF LinkInv
<1>11. OnceInv'
  <2> SUFFICES ASSUME NEW i \in DOMAIN links', NEW k, k = links'[i],
                      ~(k.list = "use" /\ ~IsInjective(ops'[k.operation].ins))
               PROVE  /\ ~(IF k.list = "def" THEN k.operation \in defs'[k.operand]
                                             ELSE k.operation \in uses'[k.operand])
                      /\ \A j \in DOMAIN links' : k = links'[j] => i = j
    BY DEF OnceInv, Repeated, Made
  <2>2. k = links[i + 1] /\ i + 1 \in DOMAIN links /\ i + 1 # 1 /\ k \in Link
    <3>1. k \in Link
      BY <1>4
    <3> QED
      BY <1>4, <3>1
  <2>3. ~Repeated(k)
    BY <1>2 DEF Repeated
  <2>4. ~Made(k) /\ \A j \in DOMAIN links : k = links[j] => i + 1 = j
    BY <2>2, <2>3 DEF Inv, OnceInv
  <2>5. k # l
    BY <1>4, <2>2, <2>4
  <2>6. k.list \in {"def", "use"} /\ k.operand \in Index
    BY <2>2 DEF Link
  <2>7. ~(k.list = l.list /\ k.operand = l.operand /\ k.operation = l.operation)
    BY <1>5, <2>2, <2>5 DEF Link
  <2>8. ~(IF k.list = "def" THEN k.operation \in defs'[k.operand]
                           ELSE k.operation \in uses'[k.operand])
    BY <1>5, <1>6, <2>4, <2>6, <2>7 DEF Made
  <2>9. \A j \in DOMAIN links' : k = links'[j] => i = j
    <3> SUFFICES ASSUME NEW j \in DOMAIN links', k = links'[j]
                 PROVE  i = j
      OBVIOUS
    <3>1. i + 1 = j + 1
      BY <1>4, <2>4
    <3>2. i \in Int /\ j \in Int
      BY <1>4
    <3> QED
      BY <3>1, <3>2
  <2> QED
    BY <2>8, <2>9
<1> QED
  BY <1>7, <1>8, <1>9, <1>10, <1>11 DEF Inv

\* A call that ends changes nothing else.
LEMMA EndingKeeps ==
  ASSUME Inv, outcome = "running", outcome' \in {"ok", "threw", "aborted"},
         UNCHANGED <<asserts, usage, ops, api, lists, phase, pending, links>>,
         outcome' = "ok" => pending = {} /\ links = <<>>,
         outcome' # "ok" => ~(WellReferenced /\ InputsDistinct)
  PROVE  Inv'
<1>1. /\ UNCHANGED <<count, data, modelIns, modelOuts, uses, defs>> /\ phase # "BUILDING"
      /\ TypeOK
  BY DEF Inv, PhaseInv, api, lists
<1>2. TypeOK'
  BY <1>1 DEF TypeOK
<1>3. PhaseInv' /\ OpsInv' /\ UnknownInv' /\ OneRolePerOperand'
  BY <1>1 DEF Inv, PhaseInv, OpsInv, UnknownInv, OneRolePerOperand
<1>4. LinkInv'
  <2>1. Visited' = Visited /\ \A o : Ins(o)' = Ins(o) /\ Outs(o)' = Outs(o)
    BY DEF Visited, Ins, Outs
  <2>2. \A list : \A x \in Index : Coming(list, x)' = Coming(list, x)
    BY DEF Coming
  <2> QED
    BY <1>1, <2>1, <2>2 DEF Inv, LinkInv
<1>5. OnceInv'
  BY <1>1 DEF Inv, OnceInv, Repeated, Made
<1>6. WellReferencedModelsFinish'
  BY <1>1 DEF WellReferencedModelsFinish, WellReferenced, InputsDistinct, Exists
<1> QED
  BY <1>2, <1>3, <1>4, <1>5, <1>6 DEF Inv

LEMMA FinishReturnsInv ==
  ASSUME Inv, FinishReturns
  PROVE  Inv'
BY EndingKeeps DEF FinishReturns

\* The operands of an operation of a well-referenced model exist.
LEMMA ReferencedExist ==
  ASSUME TypeOK, WellReferenced, NEW o \in DOMAIN ops, NEW x \in Ins(o) \cup Outs(o)
  PROVE  x < count
<1>1. ops[o].ins \in Seq(Index) /\ ops[o].outs \in Seq(Index)
  BY OperandsOfOps
<1>2. Range(ops[o].ins \o ops[o].outs) = Range(ops[o].ins) \cup Range(ops[o].outs)
  BY <1>1, RangeConcatenation
<1>3. \A s : Range(s) = ToSet(s)
  BY DEF Range, ToSet
<1>4. x \in ToSet(ops[o].ins \o ops[o].outs)
  BY <1>2, <1>3 DEF Ins, Outs
<1> QED
  BY <1>4 DEF WellReferenced, Exists

LEMMA UnknownOperandInv ==
  ASSUME Inv, UnknownOperand
  PROVE  Inv'
<1> USE DEF UnknownOperand
<1>1. PICK l : l = Head(links)
  OBVIOUS
<1>2. TypeOK /\ l \in ToSet(links)
  BY <1>1, FirstEntry DEF Inv
<1>3. l.operation \in DOMAIN ops /\ l.operand \in Ins(l.operation) \cup Outs(l.operation)
  BY <1>2, EntriesAreTrue
<1>4. ~WellReferenced
  BY <1>1, <1>2, <1>3, ReferencedExist DEF Exists
<1> QED
  BY <1>4, EndingKeeps

LEMMA AssertFailsInv ==
  ASSUME Inv, AssertFails
  PROVE  Inv'
<1>1. PICK l : l = Head(links)
  OBVIOUS
<1>2. /\ outcome = "running" /\ links # <<>> /\ l.operand < count /\ ~Asserted(l)
      /\ outcome' = "aborted"
      /\ UNCHANGED <<asserts, usage, ops, api, lists, phase, pending, links>>
  BY <1>1 DEF AssertFails, Exists
<1>3. TypeOK /\ l \in ToSet(links) /\ l = links[1] /\ 1 \in DOMAIN links
  BY <1>1, <1>2, FirstEntry DEF Inv
<1>4. /\ l.operand \in Index /\ l.operation \in DOMAIN ops /\ l.list \in {"def", "use"}
      /\ l.list = "use" => l.operand \in Ins(l.operation)
      /\ l.list = "def" => l.operand \in Outs(l.operation)
  BY <1>2, <1>3, EntriesAreTrue
<1>5. l.operand \in 0 .. count - 1
  BY <1>2, <1>3, <1>4, Bounds DEF TypeOK, Index
<1>6. ASSUME WellReferenced, InputsDistinct
      PROVE  Asserted(l)
  <2>1. ~Repeated(l)
    BY <1>4, <1>6 DEF Repeated, InputsDistinct
  <2>2. ~Made(l)
    BY <1>3, <2>1 DEF Inv, OnceInv
  <2>3. CASE l.list = "use"
    <3>1. usage[l.operand] # "NOT_DEFINED"
      BY <1>5, <1>6 DEF WellReferenced
    <3> QED
      BY <2>2, <2>3, <3>1 DEF Asserted, UseAsserted, Made
  <2>4. CASE l.list = "def"
    <3>1. usage[l.operand] = "OPERATION_OUTPUT"
      BY <1>4, <2>4 DEF Inv, OneRolePerOperand, Outs
    <3>2. defs[l.operand] = {}
      <4> SUFFICES ASSUME NEW p \in defs[l.operand]
                   PROVE  FALSE
        OBVIOUS
      <4>1. p \in DOMAIN ops /\ l.operand \in Outs(p)
        BY <1>2, <1>4 DEF Inv, LinkInv, Visited
      <4>2. ops[p].outs = ops[l.operation].outs
        <5>1. PICK y \in Index : ops[p].outs = <<y>>
          BY <4>1 DEF Inv, OpsInv
        <5>2. PICK z \in Index : ops[l.operation].outs = <<z>>
          BY <1>4 DEF Inv, OpsInv
        <5>3. l.operand = y
          BY <4>1, <5>1 DEF Outs, ToSet
        <5>4. l.operand = z
          BY <1>4, <2>4, <5>2 DEF Outs, ToSet
        <5> QED
          BY <5>1, <5>2, <5>3, <5>4
      <4>3. p = l.operation
        BY <1>4, <1>6, <4>1, <4>2 DEF WellReferenced
      <4> QED
        BY <2>2, <2>4, <4>3 DEF Made
    <3> QED
      BY <2>4, <3>1, <3>2 DEF Asserted, DefAsserted
  <2> QED
    BY <1>4, <2>3, <2>4
<1> QED
  BY <1>2, <1>6, EndingKeeps

-----------------------------------------------------------------------------
\* The lists agree with the operations as soon as finish has returned.
LEMMA ListsAgree ==
  Inv /\ outcome = "ok" =>
    \A x \in Index : /\ uses[x] = {o \in DOMAIN ops : x \in Ins(o)}
                     /\ defs[x] = {o \in DOMAIN ops : x \in Outs(o)}
<1> SUFFICES ASSUME Inv, outcome = "ok", NEW x \in Index
             PROVE  /\ uses[x] = {o \in DOMAIN ops : x \in Ins(o)}
                    /\ defs[x] = {o \in DOMAIN ops : x \in Outs(o)}
  OBVIOUS
<1>1. Visited = DOMAIN ops
  BY DEF Inv, PhaseInv, Visited
<1>2. \A list : Coming(list, x) = {}
  BY DEF Inv, PhaseInv, Coming, ToSet
<1> QED
  BY <1>1, <1>2 DEF Inv, LinkInv

\* What an insertion between x and p makes of the operations: y is the output
\* of the new operation n.
Spliced(x, p, y, n) ==
  /\ DOMAIN ops' = DOMAIN ops \cup {n} /\ n \notin DOMAIN ops
  /\ ops' \in Seq([ins : Seq(Index), outs : Seq(Index)])
  /\ Len(ops') <= MaxOperations + MaxInserted
  /\ Ins(n)' = {x} /\ Outs(n)' = {y} /\ ops'[n].outs = <<y>>
  /\ \A o \in DOMAIN ops : ops'[o].outs = ops[o].outs /\ Outs(o)' = Outs(o)
  /\ \A o \in DOMAIN ops \ {p} : Ins(o)' = Ins(o)
  /\ Ins(p)' = (Ins(p) \ {x}) \cup {y}

\* The operand and the operation are new.
Unheard(x, p, y, n) ==
  /\ outcome = "ok" /\ p \in DOMAIN ops /\ x \in Ins(p) /\ x # y
  /\ y \in Index /\ n \in OperationIndex
  /\ uses[y] = {} /\ defs[y] = {}
  /\ \A o \in DOMAIN ops : y \notin Ins(o) \cup Outs(o)

LEMMA InsertionIsNew ==
  ASSUME Inv, NEW x \in Index, NEW p \in OperationIndex, InsertOperation(x, p),
         NEW n \in Nat, n = Len(ops) + 1, NEW y \in Nat, y = count
  PROVE  Unheard(x, p, y, n)
<1>1. /\ outcome = "ok" /\ count < MaxOperands /\ Len(ops) < MaxOperations + MaxInserted
      /\ p \in 1 .. Len(ops) /\ x \in ToSet(ops[p].ins)
  BY DEF InsertOperation
<1>2. DOMAIN ops = 1 .. Len(ops) /\ Len(ops) \in Nat
  BY OperandsOfOps DEF Inv
<1>3. y \in Index /\ n \in OperationIndex
  BY <1>1, <1>2, Bounds DEF Inv, TypeOK, Index, OperationIndex
<1>4. \A z \in Index : /\ uses[z] = {o \in DOMAIN ops : z \in Ins(o)}
                       /\ defs[z] = {o \in DOMAIN ops : z \in Outs(o)}
  BY <1>1, ListsAgree
<1>5. uses[y] = {} /\ defs[y] = {}
  BY <1>3, Bounds DEF Inv, TypeOK, UnknownInv, Index
<1>6. \A o \in DOMAIN ops : y \notin Ins(o) \cup Outs(o)
  BY <1>3, <1>4, <1>5
<1>7. p \in DOMAIN ops /\ x \in Ins(p)
  BY <1>1, <1>2 DEF Ins
<1>8. x # y
  BY <1>6, <1>7
<1> QED
  BY <1>1, <1>3, <1>5, <1>6, <1>7, <1>8 DEF Unheard

LEMMA InsertionSplices ==
  ASSUME Inv, NEW x \in Index, NEW p \in OperationIndex, InsertOperation(x, p),
         NEW n \in Nat, n = Len(ops) + 1, NEW y \in Nat, y = count
  PROVE  Spliced(x, p, y, n)
<1> DEFINE item == [ins : Seq(Index), outs : Seq(Index)]
<1>1. PICK old : old = ops[p]
  OBVIOUS
<1>2. PICK q : q = ReplaceAll(old.ins, x, y)
  OBVIOUS
<1>3. PICK r : r = [old EXCEPT !.ins = q]
  OBVIOUS
<1>4. PICK new : new = [ins |-> <<x>>, outs |-> <<y>>]
  OBVIOUS
<1>5. PICK changed : changed = [ops EXCEPT ![p] = r]
  OBVIOUS
<1>6. ops' = Append(changed, new) /\ Len(ops) < MaxOperations + MaxInserted
  BY <1>1, <1>2, <1>3, <1>4, <1>5 DEF InsertOperation
<1>7. Unheard(x, p, y, n)
  BY InsertionIsNew
<1>8. /\ ops \in Seq(item) /\ DOMAIN ops = 1 .. Len(ops) /\ Len(ops) \in Nat
      /\ p \in DOMAIN ops /\ old \in item /\ ToSet(old.ins) = Ins(p)
  BY <1>1, <1>7, OperandsOfOps DEF Inv, TypeOK, Unheard, Ins
<1>9. q \in Seq(Index) /\ ToSet(q) = (Ins(p) \ {x}) \cup {y}
  <2>1. /\ Len(old.ins) \in Nat
        /\ DOMAIN old.ins = 1 .. Len(old.ins)
        /\ \A i \in 1 .. Len(old.ins) : old.ins[i] \in Index
    BY <1>8
  <2>2. q = [i \in 1 .. Len(old.ins) |-> IF old.ins[i] = x THEN y ELSE old.ins[i]]
    BY <1>2, <2>1 DEF ReplaceAll
  <2>3. q \in Seq(Index) /\ DOMAIN q = 1 .. Len(old.ins)
    BY <1>7, <2>1, <2>2 DEF Unheard
  <2>4. \A i \in 1 .. Len(old.ins) : q[i] = IF old.ins[i] = x THEN y ELSE old.ins[i]
    BY <2>2
  <2>5. Ins(p) = {old.ins[i] : i \in 1 .. Len(old.ins)} /\ x \in Ins(p)
    BY <1>7, <1>8, <2>1 DEF ToSet, Unheard
  <2>6. ToSet(q) = {q[i] : i \in 1 .. Len(old.ins)}
    BY <2>3 DEF ToSet
  <2> QED
    BY <2>3, <2>4, <2>5, <2>6
<1>10. r \in item /\ r.ins = q /\ r.outs = old.outs
  BY <1>3, <1>8, <1>9
<1>11. new \in item /\ new.ins = <<x>> /\ new.outs = <<y>>
  BY <1>4, <1>7 DEF Unheard
<1> HIDE DEF item
<1>12. /\ changed \in Seq(item) /\ Len(changed) = Len(ops)
       /\ \A o \in 1 .. Len(ops) : changed[o] = IF o = p THEN r ELSE ops[o]
  BY <1>5, <1>8, <1>10, ExceptSeq
<1>13. /\ ops' \in Seq(item) /\ Len(ops') = n /\ ops'[n] = new
       /\ \A o \in 1 .. Len(ops) : ops'[o] = changed[o]
  BY <1>6, <1>8, <1>11, <1>12, AppendProperties
<1>14. DOMAIN ops' = DOMAIN ops \cup {n} /\ n \notin DOMAIN ops
  BY <1>8, <1>13
<1>15. Len(ops') <= MaxOperations + MaxInserted
  BY <1>6, <1>8, <1>13, Bounds
<1>16. Ins(n)' = {x} /\ Outs(n)' = {y} /\ ops'[n].outs = <<y>>
  BY <1>11, <1>13 DEF Ins, Outs, ToSet
<1>17. \A o \in DOMAIN ops : /\ ops'[o].outs = ops[o].outs
                             /\ ops'[o].ins = IF o = p THEN q ELSE ops[o].ins
  BY <1>1, <1>8, <1>10, <1>12, <1>13
<1>18. /\ \A o \in DOMAIN ops : Outs(o)' = Outs(o)
       /\ \A o \in DOMAIN ops \ {p} : Ins(o)' = Ins(o)
       /\ Ins(p)' = (Ins(p) \ {x}) \cup {y}
  BY <1>8, <1>9, <1>17 DEF Ins, Outs
<1> QED
  BY <1>13, <1>14, <1>15, <1>16, <1>17, <1>18 DEF Spliced, item

LEMMA InsertOperationInv ==
  ASSUME Inv, NEW x \in Index, NEW p \in OperationIndex, InsertOperation(x, p)
  PROVE  Inv'
<1>1. TypeOK /\ count \in Nat /\ Len(ops) \in Nat
  BY OperandsOfOps, Bounds DEF Inv, TypeOK
<1>2. PICK n \in Nat : n = Len(ops) + 1
  BY <1>1
<1>3. PICK y \in Nat : y = count
  BY <1>1
<1>4. /\ outcome = "ok" /\ count < MaxOperands /\ count' = count + 1
      /\ usage' = [usage EXCEPT ![y] = "OPERATION_OUTPUT"]
      /\ uses' = [uses EXCEPT ![x] = (@ \ {p}) \cup {n}, ![y] = @ \cup {p}]
      /\ defs' = [defs EXCEPT ![y] = @ \cup {n}]
      /\ UNCHANGED <<asserts, data, modelIns, modelOuts, phase, pending, links, outcome>>
  BY <1>2, <1>3 DEF InsertOperation, finishing
<1>5. Unheard(x, p, y, n) /\ Spliced(x, p, y, n)
  BY <1>2, <1>3, InsertionIsNew, InsertionSplices
<1>6. \A z \in Index : /\ uses[z] = {o \in DOMAIN ops : z \in Ins(o)}
                       /\ defs[z] = {o \in DOMAIN ops : z \in Outs(o)}
  BY <1>4, ListsAgree
<1>7. /\ \A z \in Index : uses'[z] = IF z = y THEN {p}
                                     ELSE IF z = x THEN (uses[x] \ {p}) \cup {n} ELSE uses[z]
      /\ \A z \in Index : defs'[z] = IF z = y THEN {n} ELSE defs[z]
      /\ uses' \in [Index -> SUBSET OperationIndex]
      /\ defs' \in [Index -> SUBSET OperationIndex]
  BY <1>1, <1>4, <1>5 DEF TypeOK, Unheard
<1>8. /\ usage' \in [Index -> Usages] /\ usage'[y] = "OPERATION_OUTPUT"
      /\ \A z \in Index : z # y => usage'[z] = usage[z]
  BY <1>1, <1>4, <1>5 DEF TypeOK, Usages, Unheard
<1>9. TypeOK'
  <2>1. count' \in 0 .. MaxOperands
    BY <1>1, <1>4, Bounds
  <2>2. ops' \in Seq([ins : Seq(Index), outs : Seq(Index)])
    BY <1>5 DEF Spliced
  <2> QED
    BY <1>1, <1>4, <1>7, <1>8, <2>1, <2>2 DEF TypeOK
<1>10. PhaseInv'
  BY <1>4 DEF Inv, PhaseInv
<1>11. OpsInv'
  <2>1. \A o \in DOMAIN ops' : \E z \in Index : ops'[o].outs = <<z>>
    BY <1>5 DEF Inv, OpsInv, Spliced, Unheard
  <2>2. pending' \subseteq DOMAIN ops'
    BY <1>4, <1>5 DEF Inv, OpsInv, Spliced
  <2> QED
    BY <1>5, <2>1, <2>2 DEF OpsInv, Spliced
<1>12. UnknownInv'
  <2>1. \A z \in Index : z >= count' => z >= count /\ z # y /\ z # x
    <3>1. p \in uses[x]
      BY <1>5, <1>6 DEF Unheard
    <3>2. x < count
      BY <1>1, <3>1, Bounds DEF Inv, UnknownInv, Index
    <3> QED
      BY <1>1, <1>3, <1>4, <3>2, Bounds DEF Index
  <2> QED
    BY <1>7, <1>8, <2>1 DEF Inv, UnknownInv
<1>13. LinkInv'
  <2>1. \A list : \A z \in Index : Coming(list, z)' = {}
    BY <1>4 DEF Inv, PhaseInv, Coming, ToSet
  <2>2. Visited' = DOMAIN ops \cup {n}
    BY <1>4, <1>5 DEF Inv, PhaseInv, Visited, Spliced
  <2>3. \A z \in Index : uses'[z] \subseteq DOMAIN ops \cup {n}
    BY <1>5, <1>6, <1>7 DEF Unheard
  <2>4. ASSUME NEW z \in Index
        PROVE  n \in uses'[z] <=> z \in Ins(n)'
    BY <1>5, <1>6, <1>7, <2>4 DEF Spliced, Unheard
  <2>5. ASSUME NEW z \in Index
        PROVE  p \in uses'[z] <=> z \in Ins(p)'
    BY <1>5, <1>6, <1>7, <2>5 DEF Spliced, Unheard
  <2>6. ASSUME NEW z \in Index, NEW o \in DOMAIN ops \ {p}
        PROVE  o \in uses'[z] <=> z \in Ins(o)'
    <3>1. o \in uses[z] <=> z \in Ins(o)
      BY <1>6, <2>6
    <3>2. o # n /\ o # p /\ Ins(o)' = Ins(o) /\ y \notin Ins(o)
      BY <1>5, <2>6 DEF Spliced, Unheard
    <3> QED
      BY <1>7, <3>1, <3>2
  <2>7. \A z \in Index : uses'[z] = {o \in DOMAIN ops \cup {n} : z \in Ins(o)'}
    <3> SUFFICES ASSUME NEW z \in Index
                 PROVE  \A o \in DOMAIN ops \cup {n} : o \in uses'[z] <=> z \in Ins(o)'
      BY <2>3
    <3> QED
      BY <2>4, <2>5, <2>6
  <2>8. \A z \in Index : defs'[z] = {o \in DOMAIN ops \cup {n} : z \in Outs(o)'}
    <3>1. \A z \in Index : defs'[z] \subseteq DOMAIN ops \cup {n}
      BY <1>6, <1>7
    <3>2. \A z \in Index : n \in defs'[z] <=> z \in Outs(n)'
      BY <1>5, <1>6, <1>7 DEF Spliced
    <3>3. \A z \in Index, o \in DOMAIN ops : o \in defs'[z] <=> z \in Outs(o)'
      BY <1>5, <1>6, <1>7 DEF Spliced, Unheard
    <3> QED
      BY <3>1, <3>2, <3>3
  <2>9. Visited' = DOMAIN ops' \ pending'
    BY DEF Visited
  <2> QED
    BY <2>1, <2>2, <2>7, <2>8 DEF LinkInv
<1>14. OnceInv'
  BY <1>4 DEF Inv, PhaseInv, OnceInv
<1>15. OneRolePerOperand'
  <2>1. \A z \in data : usage[z] = "CONSTANT" /\ z \in Index /\ z # y
    BY <1>1, <1>3, <1>5, Bounds DEF Inv, TypeOK, OneRolePerOperand, UnknownInv, Index, Unheard
  <2>2. \A o \in DOMAIN ops : \A z \in Outs(o) :
          z \in Index /\ z # y /\ usage[z] = "OPERATION_OUTPUT"
    BY <1>1, <1>5, OperandsOfOps DEF Inv, OneRolePerOperand, Outs, Unheard
  <2>3. \A z \in Outs(n)' : usage'[z] = "OPERATION_OUTPUT"
    BY <1>5, <1>8 DEF Spliced
  <2>4. \A o \in DOMAIN ops : \A z \in Outs(o)' : usage'[z] = "OPERATION_OUTPUT"
    BY <1>5, <1>8, <2>2 DEF Spliced
  <2>5. \A o \in DOMAIN ops' : \A z \in Outs(o)' : usage'[z] = "OPERATION_OUTPUT"
    BY <1>5, <2>3, <2>4 DEF Spliced
  <2>6. \A z \in data' : usage'[z] = "CONSTANT"
    BY <1>4, <1>8, <2>1
  <2> QED
    BY <2>5, <2>6 DEF OneRolePerOperand, Outs
<1>16. WellReferencedModelsFinish'
  BY <1>4 DEF WellReferencedModelsFinish
<1> QED
  BY <1>9, <1>10, <1>11, <1>12, <1>13, <1>14, <1>15, <1>16 DEF Inv

-----------------------------------------------------------------------------
LEMMA NextInv == Inv /\ [Next]_vars => Inv'
<1> SUFFICES ASSUME Inv, [Next]_vars PROVE Inv'
  OBVIOUS
<1>1. CASE AddOperand
  BY <1>1, AddOperandInv
<1>2. ASSUME NEW x \in Index, SetOperandValue(x) PROVE Inv'
  BY <1>2, SetOperandValueInv
<1>3. ASSUME NEW x \in Index, IdentifyInput(x) PROVE Inv'
  BY <1>3, IdentifyInputInv
<1>4. ASSUME NEW x \in Index, IdentifyOutput(x) PROVE Inv'
  BY <1>4, IdentifyOutputInv
<1>5. ASSUME NEW ins \in InputLists, NEW outs \in OutputLists, AddOperation(ins, outs)
      PROVE  Inv'
  BY <1>5, AddOperationInv
<1>6. ASSUME NEW outs \in OutputLists, AddUnsupportedOperation(outs) PROVE Inv'
  BY <1>6, AddUnsupportedOperationInv
<1>7. CASE Finish
  BY <1>7, FinishInv
<1>8. ASSUME NEW o \in OperationIndex, VisitOperation(o) PROVE Inv'
  BY <1>8, VisitOperationInv
<1>9. CASE AppendLink
  BY <1>9, AppendLinkInv
<1>10. CASE UnknownOperand
  BY <1>10, UnknownOperandInv
<1>11. CASE AssertFails
  BY <1>11, AssertFailsInv
<1>12. CASE FinishReturns
  BY <1>12, FinishReturnsInv
<1>13. ASSUME NEW x \in Index, NEW p \in OperationIndex, InsertOperation(x, p) PROVE Inv'
  BY <1>13, InsertOperationInv
<1>14. CASE UNCHANGED vars
  <2>1. UNCHANGED <<asserts, count, usage, data, uses, defs, ops, modelIns, modelOuts,
                    phase, pending, links, outcome>>
    BY <1>14 DEF vars, api, lists, finishing
  <2>2. (TypeOK /\ PhaseInv /\ OpsInv)'
    BY <2>1 DEF Inv, TypeOK, PhaseInv, OpsInv
  <2>3. (UnknownInv /\ LinkInv)'
    BY <2>1 DEF Inv, UnknownInv, LinkInv, Visited, Coming, Ins, Outs
  <2>4. (OnceInv /\ OneRolePerOperand)'
    BY <2>1 DEF Inv, OnceInv, Made, Repeated, OneRolePerOperand
  <2>5. WellReferencedModelsFinish'
    BY <2>1 DEF Inv, WellReferencedModelsFinish, WellReferenced, InputsDistinct, Exists
  <2> QED
    BY <2>2, <2>3, <2>4, <2>5 DEF Inv
<1> QED
  BY <1>1, <1>2, <1>3, <1>4, <1>5, <1>6, <1>7, <1>8, <1>9, <1>10, <1>11, <1>12,
     <1>13, <1>14 DEF Next

\* The invariant of every sequence of calls.
THEOREM NNModelInvariant == Spec => []Inv
BY InitInv, NextInv, PTL DEF Spec

\* Every variable stays in its type, whatever lists the caller passes.
THEOREM NNModelTypeCorrect == Spec => []TypeOK
<1>1. Inv => TypeOK
  BY DEF Inv
<1> QED
  BY <1>1, NNModelInvariant, PTL

\* Every operand keeps one role through every call, the failing ones included
\* (Object.h:38).
THEOREM OneRolePerOperandHolds == Spec => []OneRolePerOperand
<1>1. Inv => OneRolePerOperand
  BY DEF Inv
<1> QED
  BY <1>1, NNModelInvariant, PTL

\* The use and definition lists agree with the operations once finish has
\* returned and after every insertion (Graph.cc:59-108, 236-251).
THEOREM UseDefConsistentHolds == Spec => []UseDefConsistent
<1>1. Inv => UseDefConsistent
  BY ListsAgree DEF UseDefConsistent, Ins, Outs
<1> QED
  BY <1>1, NNModelInvariant, PTL

\* A model that follows the documented rules and reads no operand twice is
\* finished, in whatever order its operations are visited.
THEOREM WellReferencedModelsFinishHolds == Spec => []WellReferencedModelsFinish
<1>1. Inv => WellReferencedModelsFinish
  BY DEF Inv
<1> QED
  BY <1>1, NNModelInvariant, PTL

-----------------------------------------------------------------------------
\* The dependencies around an insertion.
FeedsKept ==
  outcome = "ok" =>
    \A o, p \in DOMAIN ops :
      Feeds(o, p) <=> \/ Feeds(o, p)'
                      \/ \E n \in DOMAIN ops' \ DOMAIN ops : Feeds(o, n)' /\ Feeds(n, p)'

LEMMA InsertFeeds ==
  ASSUME Inv, NEW x \in Index, NEW p \in OperationIndex, InsertOperation(x, p)
  PROVE  FeedsKept
<1>1. TypeOK /\ count \in Nat /\ Len(ops) \in Nat
  BY OperandsOfOps, Bounds DEF Inv, TypeOK
<1>2. PICK n \in Nat : n = Len(ops) + 1
  BY <1>1
<1>3. PICK y \in Nat : y = count
  BY <1>1
<1>4. Unheard(x, p, y, n) /\ Spliced(x, p, y, n)
  BY <1>2, <1>3, InsertionIsNew, InsertionSplices
<1>5. \A z \in Index : uses[z] = {o \in DOMAIN ops : z \in Ins(o)}
  BY <1>4, ListsAgree DEF Unheard
<1>6. \A z \in Index : uses'[z] = IF z = y THEN {p}
                                  ELSE IF z = x THEN (uses[x] \ {p}) \cup {n} ELSE uses[z]
  BY <1>1, <1>2, <1>3, <1>4 DEF InsertOperation, TypeOK, Unheard
<1>7. \A o \in DOMAIN ops : /\ Outs(o) \subseteq Index /\ Outs(o)' = Outs(o)
                            /\ y \notin Outs(o)
  BY <1>1, <1>4, OperandsOfOps DEF Spliced, Unheard
<1>8. /\ \A o, q : Feeds(o, q) <=> \E z \in Outs(o) : q \in uses[z]
      /\ \A o, q : Feeds(o, q)' <=> \E z \in Outs(o)' : q \in uses'[z]
  BY DEF Feeds, Outs
<1>9. DOMAIN ops' \ DOMAIN ops = {n} /\ n \notin DOMAIN ops
  BY <1>4 DEF Spliced
<1>10. p \in uses[x]
  BY <1>4, <1>5 DEF Unheard
<1>11. ASSUME NEW o \in DOMAIN ops, NEW q \in DOMAIN ops
       PROVE  Feeds(o, q)' <=> \E z \in Outs(o) : q \in uses[z] /\ ~(z = x /\ q = p)
  <2>1. \A z \in Outs(o) : q \in uses'[z] <=> q \in uses[z] /\ ~(z = x /\ q = p)
    BY <1>6, <1>7, <1>9, <1>11
  <2> QED
    BY <1>7, <1>8, <1>11, <2>1
<1>12. ASSUME NEW o \in DOMAIN ops
       PROVE  Feeds(o, n)' <=> x \in Outs(o)
  <2>1. \A z \in Outs(o) : n \in uses'[z] <=> z = x
    <3>1. \A z \in Index : n \notin uses[z]
      BY <1>5, <1>9
    <3> QED
      BY <1>6, <1>7, <1>12, <3>1
  <2> QED
    BY <1>7, <1>8, <1>12, <2>1
<1>13. ASSUME NEW q \in DOMAIN ops
       PROVE  Feeds(n, q)' <=> q = p
  <2>1. Outs(n)' = {y} /\ uses'[y] = {p}
    BY <1>4, <1>6 DEF Spliced, Unheard
  <2> QED
    BY <1>8, <2>1
<1>14. ASSUME NEW o \in DOMAIN ops, NEW q \in DOMAIN ops
       PROVE  Feeds(o, q) <=> \/ Feeds(o, q)'
                              \/ \E m \in DOMAIN ops' \ DOMAIN ops : Feeds(o, m)' /\ Feeds(m, q)'
  <2>1. (\E m \in DOMAIN ops' \ DOMAIN ops : Feeds(o, m)' /\ Feeds(m, q)')
          <=> Feeds(o, n)' /\ Feeds(n, q)'
    BY <1>9
  <2> QED
    BY <1>8, <1>10, <1>11, <1>12, <1>13, <1>14, <2>1
<1> QED
  BY <1>14 DEF FeedsKept

\* An insertion splits one dependency and disturbs no other.
THEOREM InsertKeepsDependenciesHolds == Spec => InsertKeepsDependencies
<1>1. Inv /\ [Next]_vars => [FeedsKept]_vars
  <2> SUFFICES ASSUME Inv, Next, outcome = "ok" PROVE FeedsKept
    BY DEF FeedsKept
  <2>1. phase # "BUILDING" /\ links = <<>>
    BY DEF Inv, PhaseInv
  <2>2. PICK x \in Index, p \in OperationIndex : InsertOperation(x, p)
    BY <2>1 DEF Next, AddOperand, SetOperandValue, IdentifyInput, IdentifyOutput,
                AddOperation, AddUnsupportedOperation, Finish, VisitOperation,
                AppendLink, UnknownOperand, AssertFails, FinishReturns
  <2> QED
    BY <2>2, InsertFeeds
<1>2. []Inv /\ [][Next]_vars => [][FeedsKept]_vars
  BY <1>1, PTL
<1> QED
  BY <1>2, NNModelInvariant, PTL DEF Spec, InsertKeepsDependencies, FeedsKept

-----------------------------------------------------------------------------
\* With the assertions compiled in, appendDef enters one definition at most.
SingleDef == asserts => \A x \in Index : \A o, p \in defs[x] : o = p

\* What the traversals and the compilation take a model to be: an operation has
\* one output, it refers to operands that exist, and in a build that asserts no
\* two operations write one operand.
FinishedIsDataflow ==
  outcome = "ok" =>
    \A o \in DOMAIN ops :
      /\ \E x \in 0 .. count - 1 : ops[o].outs = <<x>>
      /\ ToSet(ops[o].ins) \subseteq 0 .. count - 1
      /\ asserts => \A p \in DOMAIN ops : ToSet(ops[o].outs) \cap ToSet(ops[p].outs) # {} => o = p

(* Every model that finish accepts, and every one that insertions make of it,  *)
(* is a graph as Dataflow has them (GraphInit, and the single writers that     *)
(* Compilation asks for).                                                      *)
THEOREM FinishedModelsAreDataflow == Spec => []FinishedIsDataflow
<1>1. Init => SingleDef
  BY DEF Init, SingleDef
<1>2. ASSUME Inv, SingleDef, [Next]_vars
      PROVE  SingleDef'
  <2>1. ASSUME UNCHANGED <<asserts, defs>>
        PROVE  SingleDef'
    BY <1>2, <2>1 DEF SingleDef
  <2>2. CASE AppendLink
    <3>1. CASE UNCHANGED defs
      BY <2>1, <2>2, <3>1 DEF AppendLink
    <3> DEFINE l == Head(links)
    <3>2. CASE /\ asserts => defs[l.operand] = {}
               /\ defs' = [defs EXCEPT ![l.operand] = @ \cup {l.operation}]
      BY <1>2, <2>2, <3>2 DEF AppendLink, SingleDef, Inv, TypeOK
    <3> QED
      BY <2>2, <3>1, <3>2 DEF AppendLink, Asserted, DefAsserted
  <2>3. ASSUME NEW x \in Index, NEW p \in OperationIndex, InsertOperation(x, p)
        PROVE  SingleDef'
    <3>1. count \in Index => defs[count] = {}
      <4>1. count \in Nat /\ count >= count
        BY <1>2, Bounds DEF Inv, TypeOK
      <4> QED
        BY <1>2, <4>1 DEF Inv, UnknownInv
    <3> QED
      BY <1>2, <2>3, <3>1 DEF InsertOperation, SingleDef, Inv, TypeOK
  <2> QED
    BY <1>2, <2>1, <2>2, <2>3
       DEF Next, vars, lists, AddOperand, SetOperandValue, IdentifyInput, IdentifyOutput,
           AddOperation, AddUnsupportedOperation, Finish, VisitOperation, UnknownOperand,
           AssertFails, FinishReturns
<1>3. Inv /\ SingleDef => FinishedIsDataflow
  <2> SUFFICES ASSUME Inv, SingleDef, outcome = "ok", NEW o \in DOMAIN ops
               PROVE  /\ \E x \in 0 .. count - 1 : ops[o].outs = <<x>>
                      /\ Ins(o) \subseteq 0 .. count - 1
                      /\ asserts => \A p \in DOMAIN ops : Outs(o) \cap Outs(p) # {} => o = p
    BY DEF FinishedIsDataflow, Ins, Outs
  <2>1. \A x \in Index : /\ uses[x] = {q \in DOMAIN ops : x \in Ins(q)}
                         /\ defs[x] = {q \in DOMAIN ops : x \in Outs(q)}
    BY ListsAgree
  <2>2. \A x \in Index : uses[x] # {} \/ defs[x] # {} => x \in 0 .. count - 1
    BY Bounds DEF Inv, UnknownInv, TypeOK, Index
  <2>3. \A q \in DOMAIN ops : Ins(q) \subseteq Index /\ Outs(q) \subseteq Index
    BY OperandsOfOps DEF Inv
  <2>4. PICK x \in Index : ops[o].outs = <<x>>
    BY DEF Inv, OpsInv
  <2>5. x \in Outs(o)
    BY <2>4 DEF Outs, ToSet
  <2>6. ASSUME asserts, NEW p \in DOMAIN ops, Outs(o) \cap Outs(p) # {}
        PROVE  o = p
    BY <2>1, <2>3, <2>6 DEF SingleDef
  <2> QED
    BY <2>1, <2>2, <2>3, <2>4, <2>5, <2>6
<1> QED
  BY <1>1, <1>2, <1>3, NNModelInvariant, PTL DEF Spec
=============================================================================
