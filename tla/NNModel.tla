------------------------------ MODULE NNModel ------------------------------
(***************************************************************************)
(* Building a model through the NN API (frontend/model.cc), the operand    *)
(* and operation sets of graph::Graph behind it, and the use and           *)
(* definition lists that Graph::finishBuilding fills and                   *)
(* Graph::insertOperation keeps up to date.                                *)
(*                                                                         *)
(* An operand is its index: the order of addOperand calls.  Its type is    *)
(* left out (a call with a wrong type, a wrong size or a null pointer      *)
(* changes nothing), as is the kind of an operation, except that an        *)
(* unsupported one throws.  Input lists are the ones the node keeps.  The  *)
(* use and definition lists are kept as sets: an entry is looked for and   *)
(* removed wherever and however often it stands in a list.                 *)
(* Calls on a finished model return BAD_STATE and change nothing.          *)
(***************************************************************************)
EXTENDS Integers, SequencesExt

CONSTANTS MaxOperands,     \* bound: operands of a model
          MaxOperations,   \* bound: operations the caller adds
          MaxInserted,     \* bound: operations inserted beyond those
          MaxIdentified,   \* bound: entries of the model's input and output lists
          InputLists,      \* the input lists the caller passes
          OutputLists      \* the output lists the caller passes, none empty

Index == 0 .. MaxOperands - 1

ASSUME BoundsAssumption ==
  /\ {MaxOperands, MaxOperations, MaxInserted, MaxIdentified} \subseteq Nat
  /\ InputLists \subseteq Seq(Index) /\ OutputLists \subseteq Seq(Index) \ {<<>>}

VARIABLES asserts,     \* the build evaluates assert (no NDEBUG)
          count,       \* operand::Set::_index_count
          usage,       \* Object::_usage
          data,        \* the operands whose Object::_data is set
          uses, defs,  \* the entries of Object::_uses and Object::_def
          ops,         \* Graph::_operations, by index
          modelIns, modelOuts,   \* Graph::_inputs and Graph::_outputs
          phase,       \* Graph::_phase
          pending,     \* finish: the operations initializeUseDef has to visit
          links,       \* finish: the list entries it still makes for this one
          outcome      \* finish: how the call ended

api == <<count, data, modelIns, modelOuts>>
lists == <<uses, defs>>
finishing == <<phase, pending, links, outcome>>
vars == <<asserts, usage, ops, api, lists, finishing>>

OperationIndex == 1 .. MaxOperations + MaxInserted
Usages == {"NOT_DEFINED", "MODEL_INPUT", "CONSTANT", "OPERATION_OUTPUT"}
Link == [list : {"def", "use"}, operand : Index, operation : OperationIndex]

TypeOK ==
  /\ asserts \in BOOLEAN
  /\ count \in 0 .. MaxOperands
  /\ usage \in [Index -> Usages]
  /\ data \subseteq Index
  /\ uses \in [Index -> SUBSET OperationIndex]
  /\ defs \in [Index -> SUBSET OperationIndex]
  /\ ops \in Seq([ins : Seq(Index), outs : Seq(Index)])
  /\ modelIns \in Seq(Index) /\ modelOuts \in Seq(Index)
  /\ phase \in {"BUILDING", "MODEL"}
  /\ pending \subseteq OperationIndex
  /\ links \in Seq(Link)
  /\ outcome \in {"none", "running", "ok", "threw", "aborted"}

Init ==
  /\ asserts \in BOOLEAN
  /\ count = 0
  /\ usage = [x \in Index |-> "NOT_DEFINED"]
  /\ data = {}
  /\ uses = [x \in Index |-> {}] /\ defs = uses
  /\ ops = <<>>
  /\ modelIns = <<>> /\ modelOuts = <<>>
  /\ phase = "BUILDING" /\ pending = {} /\ links = <<>> /\ outcome = "none"

-----------------------------------------------------------------------------
Exists(x) == x < count

\* A fault that a property below excludes: setUsage overwrites a usage.
OverwritesUsage(x, u) == Exists(x)

\* Object::setUsage returns true: the operand has no other usage yet.
Settable(x, u) == Exists(x) /\ usage[x] \in {"NOT_DEFINED", u}

\* The calls set the usage of the operands of a list one after the other and
\* stop (with BAD_DATA, or with the exception of operands().at) at the first
\* that refuses; those before it stay marked.
Marked(xs, u) == {xs[i] : i \in {j \in 1 .. Len(xs) :
                                   \A k \in 1 .. j : Settable(xs[k], u)}}
Accepted(xs, u) == \A i \in 1 .. Len(xs) : Settable(xs[i], u)
Mark(xs, u) == usage' = [x \in Index |-> IF x \in Marked(xs, u) THEN u ELSE usage[x]]

AddOperand ==
  /\ phase = "BUILDING" /\ count < MaxOperands
  /\ count' = count + 1
  /\ UNCHANGED <<asserts, usage, ops, data, modelIns, modelOuts, lists, finishing>>

\* setOperandValue and setOperandValueFromMemory.
SetOperandValue(x) ==
  /\ phase = "BUILDING"
  /\ Settable(x, "CONSTANT")
  /\ Mark(<<x>>, "CONSTANT")
  /\ data' = data \cup {x}
  /\ UNCHANGED <<asserts, ops, count, modelIns, modelOuts, lists, finishing>>

\* A fault: the operation is added although an output refused its role.
AddRefusedOperation(ins, outs) ==
  /\ phase = "BUILDING" /\ Len(ops) < MaxOperations
  /\ Mark(outs, "OPERATION_OUTPUT")
  /\ asserts => Len(outs) = 1
  /\ ops' = Append(ops, [ins |-> ins, outs |-> <<Head(outs)>>])
  /\ UNCHANGED <<asserts, api, lists, finishing>>

\* The inputs are not looked at, not even for being operands of the model.  The
\* node keeps the first output; a call that fails its constructor's assertion
\* that there is no other ends the process, and is left out.
AddOperation(ins, outs) ==
  /\ phase = "BUILDING" /\ Len(ops) < MaxOperations
  /\ asserts /\ Accepted(outs, "OPERATION_OUTPUT") => Len(outs) = 1
  /\ Mark(outs, "OPERATION_OUTPUT")
  /\ ops' = IF Accepted(outs, "OPERATION_OUTPUT")
            THEN Append(ops, [ins |-> ins, outs |-> <<Head(outs)>>]) ELSE ops
  /\ UNCHANGED <<asserts, api, lists, finishing>>

\* The outputs are marked before the switch over the types throws.
AddUnsupportedOperation(outs) ==
  /\ phase = "BUILDING"
  /\ Mark(outs, "OPERATION_OUTPUT")
  /\ UNCHANGED <<asserts, ops, api, lists, finishing>>

\* An entry is appended before it is checked, so that the entry that makes
\* the call fail stays listed.  The calls the caller makes have one entry: a
\* longer one has the effect of several, up to the entry it fails at.
IdentifyInput(x) ==
  /\ phase = "BUILDING" /\ Len(modelIns) + Len(modelOuts) < MaxIdentified
  /\ modelIns' = Append(modelIns, x)
  /\ Mark(<<x>>, "MODEL_INPUT")
  /\ UNCHANGED <<asserts, ops, count, data, modelOuts, lists, finishing>>

IdentifyOutput(x) ==
  /\ phase = "BUILDING" /\ Len(modelIns) + Len(modelOuts) < MaxIdentified
  /\ modelOuts' = Append(modelOuts, x)
  /\ UNCHANGED <<asserts, usage, ops, count, data, modelIns, lists, finishing>>
-----------------------------------------------------------------------------
\* Graph::finishBuilding: initializeUseDef visits the operations in the order
\* of an unordered_map, and enters each in the lists of its outputs and inputs.
Finish ==
  /\ phase = "BUILDING"
  /\ phase' = "MODEL"
  /\ outcome' = "running"
  /\ pending' = 1 .. Len(ops)
  /\ UNCHANGED <<asserts, usage, ops, api, lists, links>>

\* A fault: operand and operation are exchanged.
LinksExchanged(list, xs, o) ==
  [i \in 1 .. Len(xs) |-> [list |-> list, operand |-> o, operation |-> xs[i]]]

LinksOf(list, xs, o) ==
  [i \in 1 .. Len(xs) |-> [list |-> list, operand |-> xs[i], operation |-> o]]

VisitOperation(o) ==
  /\ outcome = "running" /\ links = <<>> /\ o \in pending
  /\ pending' = pending \ {o}
  /\ links' = LinksOf("def", ops[o].outs, o) \o LinksOf("use", ops[o].ins, o)
  /\ UNCHANGED <<asserts, usage, ops, api, lists, phase, outcome>>

\* The assertions of Object::appendDef and Object::appendUse.
DefAsserted(x) == usage[x] \notin {"NOT_DEFINED", "CONSTANT"} /\ defs[x] = {}
UseAsserted(x, o) == usage[x] # "NOT_DEFINED" /\ o \notin uses[x]

Asserted(l) == IF l.list = "def" THEN DefAsserted(l.operand)
                                 ELSE UseAsserted(l.operand, l.operation)

AppendLink ==
  /\ outcome = "running" /\ links # <<>>
  /\ LET l == Head(links) IN
       /\ Exists(l.operand)
       /\ asserts => Asserted(l)
       /\ IF l.list = "def"
          THEN /\ defs' = [defs EXCEPT ![l.operand] = @ \cup {l.operation}]
               /\ UNCHANGED uses
          ELSE /\ uses' = [uses EXCEPT ![l.operand] = @ \cup {l.operation}]
               /\ UNCHANGED defs
  /\ links' = Tail(links)
  /\ UNCHANGED <<asserts, usage, ops, api, phase, pending, outcome>>

\* operands().at throws, past the C function; the phase stays MODEL.
UnknownOperand ==
  /\ outcome = "running" /\ links # <<>> /\ ~Exists(Head(links).operand)
  /\ outcome' = "threw"
  /\ UNCHANGED <<asserts, usage, ops, api, lists, phase, pending, links>>

AssertFails ==
  /\ asserts
  /\ outcome = "running" /\ links # <<>> /\ Exists(Head(links).operand)
  /\ ~Asserted(Head(links))
  /\ outcome' = "aborted"
  /\ UNCHANGED <<asserts, usage, ops, api, lists, phase, pending, links>>

\* The verdict of the DAGChecker, which runs now, is dropped.
FinishReturns ==
  /\ outcome = "running" /\ pending = {} /\ links = <<>>
  /\ outcome' = "ok"
  /\ UNCHANGED <<asserts, usage, ops, api, lists, phase, pending, links>>

\* Faults of insertOperation: the old use stays; the new one is not entered.
InsertKeepingUse(x, p) ==
  /\ outcome = "ok" /\ Len(ops) < MaxOperations + MaxInserted /\ count < MaxOperands
  /\ p \in 1 .. Len(ops) /\ x \in ToSet(ops[p].ins)
  /\ count' = count + 1
  /\ usage' = [usage EXCEPT ![count] = "OPERATION_OUTPUT"]
  /\ ops' = Append([ops EXCEPT ![p].ins = ReplaceAll(@, x, count)],
                   [ins |-> <<x>>, outs |-> <<count>>])
  /\ uses' = [uses EXCEPT ![x] = @ \cup {Len(ops) + 1}, ![count] = @ \cup {p}]
  /\ defs' = [defs EXCEPT ![count] = @ \cup {Len(ops) + 1}]
  /\ UNCHANGED <<asserts, data, modelIns, modelOuts, finishing>>

InsertWithoutUse(x, p) ==
  /\ outcome = "ok" /\ Len(ops) < MaxOperations + MaxInserted /\ count < MaxOperands
  /\ p \in 1 .. Len(ops) /\ x \in ToSet(ops[p].ins)
  /\ count' = count + 1
  /\ usage' = [usage EXCEPT ![count] = "OPERATION_OUTPUT"]
  /\ ops' = Append([ops EXCEPT ![p].ins = ReplaceAll(@, x, count)],
                   [ins |-> <<x>>, outs |-> <<count>>])
  /\ uses' = [uses EXCEPT ![x] = @ \ {p}, ![count] = @ \cup {p}]
  /\ defs' = [defs EXCEPT ![count] = @ \cup {Len(ops) + 1}]
  /\ UNCHANGED <<asserts, data, modelIns, modelOuts, finishing>>

\* Graph::insertOperation(x, p, node), between operand x and its reader p.
\* The node's one output is a new operand, added and marked by the caller.
InsertOperation(x, p) ==
  /\ outcome = "ok" /\ Len(ops) < MaxOperations + MaxInserted /\ count < MaxOperands
  /\ p \in 1 .. Len(ops) /\ x \in ToSet(ops[p].ins)
  /\ LET y == count
         n == Len(ops) + 1
     IN
       /\ count' = count + 1
       /\ usage' = [usage EXCEPT ![y] = "OPERATION_OUTPUT"]
       /\ ops' = Append([ops EXCEPT ![p].ins = ReplaceAll(@, x, y)],
                        [ins |-> <<x>>, outs |-> <<y>>])
       /\ uses' = [uses EXCEPT ![x] = (@ \ {p}) \cup {n}, ![y] = @ \cup {p}]
       /\ defs' = [defs EXCEPT ![y] = @ \cup {n}]
  /\ UNCHANGED <<asserts, data, modelIns, modelOuts, finishing>>

Next ==
  \/ AddOperand
  \/ \E x \in Index : SetOperandValue(x) \/ IdentifyInput(x) \/ IdentifyOutput(x)
  \/ \E ins \in InputLists, outs \in OutputLists : AddOperation(ins, outs)
  \/ \E outs \in OutputLists : AddUnsupportedOperation(outs)
  \/ Finish
  \/ \E o \in OperationIndex : VisitOperation(o)
  \/ AppendLink \/ UnknownOperand \/ AssertFails \/ FinishReturns
  \/ \E x \in Index, p \in OperationIndex : InsertOperation(x, p)

Spec == Init /\ [][Next]_vars

-----------------------------------------------------------------------------
\* The lists that the scheduler follows agree with the operations: once finish
\* has returned, and after every insertion, an operation is in the use list of
\* an operand just when it has it among its inputs, and in the definition list
\* just when it has it among its outputs (Graph.cc:59-108, 236-251).
UseDefConsistent ==
  outcome = "ok" =>
    \A x \in Index :
      /\ uses[x] = {o \in DOMAIN ops : x \in ToSet(ops[o].ins)}
      /\ defs[x] = {o \in DOMAIN ops : x \in ToSet(ops[o].outs)}

\* An operand keeps one role through every call, the failing ones included: a
\* value is only ever held by a constant, and what an operation writes is
\* neither a constant nor a model input ("usage should be exact one of these",
\* Object.h:38).
OneRolePerOperand ==
  /\ \A x \in data : usage[x] = "CONSTANT"
  /\ \A o \in DOMAIN ops : \A x \in ToSet(ops[o].outs) : usage[x] = "OPERATION_OUTPUT"

\* What ANeuralNetworksModel_addOperand asks of the caller: every operand is a
\* model input, a constant or the output of exactly one operation, and the
\* operations refer to operands that were added.
WellReferenced ==
  /\ \A o \in DOMAIN ops : \A x \in ToSet(ops[o].ins \o ops[o].outs) : Exists(x)
  /\ \A x \in 0 .. count - 1 :
        /\ usage[x] # "NOT_DEFINED"
        /\ usage[x] = "OPERATION_OUTPUT" => \E o \in DOMAIN ops : x \in ToSet(ops[o].outs)
  /\ \A o, p \in DOMAIN ops : ops[o].outs = ops[p].outs => o = p

\* No operation reads an operand twice.
InputsDistinct == \A o \in DOMAIN ops : IsInjective(ops[o].ins)

\* A model that follows the documented rules, and whose operations read no
\* operand twice, is finished whatever calls failed on the way, in whatever
\* order the operations are visited: no assertion fails, nothing is thrown.
WellReferencedModelsFinish ==
  outcome \in {"threw", "aborted"} => ~(WellReferenced /\ InputsDistinct)

\* The assertion of Object::appendUse, as written, for every model that follows
\* the documented rules (Object.cc:79: "assert(!_uses.contains(idx))").
DocumentedModelsFinish == outcome \in {"threw", "aborted"} => ~WellReferenced

\* An insertion splits one dependency and disturbs no other: an operation fed
\* another before just when it does so after, directly or through the new
\* operation, as the use lists tell it.
Feeds(o, p) == \E x \in ToSet(ops[o].outs) : p \in uses[x]

InsertKeepsDependencies ==
  [][outcome = "ok" =>
       \A o, p \in DOMAIN ops :
         Feeds(o, p) <=> \/ Feeds(o, p)'
                         \/ \E n \in DOMAIN ops' \ DOMAIN ops :
                              Feeds(o, n)' /\ Feeds(n, p)']_vars
=============================================================================
