------------------------------ MODULE TopKV2 ------------------------------
(***************************************************************************)
(* CLTopKV2 of ARMComputeEx, the function of TOPK_V2_EX: the k largest     *)
(* elements of a row and their places.  The variable ACL_TOPKV2 of the     *)
(* environment chooses between a heap on the CPU, a quicksort in one work  *)
(* item and a radix sort in many.  The tensors are float ones, and dense.  *)
(*                                                                         *)
(* A kernel is a range of work items in work groups; an item goes through  *)
(* the segments between the barriers of the kernel, and enters a segment   *)
(* when all items of its group have left the one before.  The command      *)
(* queue is in order: a kernel starts when the one before has ended.       *)
(***************************************************************************)
EXTENDS Integers, Sequences, FiniteSets, SequencesExt

CONSTANTS Inputs,      \* the inputs and parameters of a client, see Configured
          Items,       \* _ITEMS, the work items of a group: 16
          Groups,      \* _GROUPS: 4
          Bits,        \* bits of a key in a pass: 4
          TotalBits,   \* bits of a key: 32
          MaxRuns      \* bound: how often a function runs

\* The powers of two, which the code writes as shifts.
Pow2[e \in Nat] == IF e = 0 THEN 1 ELSE 2 * Pow2[e - 1]

Range0(size) == 0 .. size - 1

ASSUME GroupAssumption ==
  /\ Items \in Nat \ {0} /\ Groups \in Nat \ {0}
  /\ \E e \in Range0(Items * Groups) : Items * Groups = 4 * Pow2[e]
\* An even number of passes, which `configure` does not ask for: after it the keys
\* are in the buffer again that the next run writes first.
ASSUME BitsAssumption ==
  Bits \in Nat \ {0} /\ TotalBits \in Nat \ {0} /\ TotalBits % (2 * Bits) = 0
ASSUME InputsAssumption ==
  \A i \in Inputs :
    /\ i.fun \in [mode : {"cpu", "GPU", "GPU_SINGLE"}, n : Nat \ {0}, rows : Nat \ {0},
                   k : Nat \ {0}]
    /\ i.fun.k <= i.fun.n
    /\ i.fun.mode = "GPU" => i.fun.n % (Items * Groups) = 0
    /\ i.data \in [Range0(i.fun.rows * i.fun.n) -> Range0(Pow2[TotalBits])]

VARIABLES fun,       \* the function: its mode, n, rows and k, the same in every run
          given,     \* what the client last pushed into the input
          input, values, indices,    \* the tensors
          at,        \* the kernel, or the loop on the CPU, that runs; or "idle"
          done,      \* the number of segments each work item has left
          gpu,       \* the buffers of the radix sort
          pass,      \* the digit it sorts by
          heap, back,      \* the container of the CPU: its heap, and its last element
          row, col,  \* its loops
          stack, sort,     \* of the quicksort: the ranges to do, and the loop of partition
          runs

topkVars == <<fun, given, input, values, indices, at, done, gpu, pass, heap, back, row, col,
              stack, sort, runs>>

Radix == Pow2[Bits]
Passes == TotalBits \div Bits
Split == (Items * Groups) \div 2                      \* _HISTOSPLIT
HistoSize == Radix * Groups * Items

\* The number that a float stands for: its bits are a sign and a magnitude.
Negative(key) == key >= Pow2[TotalBits - 1]
Number(key) == IF Negative(key) THEN Pow2[TotalBits - 1] - key ELSE key

Unset == -1
Buffers == [keys |-> [b \in 1 .. 2 |-> [i \in Range0(fun.n) |-> 0]],
            places |-> [b \in 1 .. 2 |-> [i \in Range0(fun.n) |-> 0]],
            in |-> 1,                                  \* which buffer _p_in_key_buf is
            histo |-> [i \in Range0(HistoSize) |-> 0],
            sums |-> [i \in Range0(Split) |-> 0],
            local |-> [i \in Range0(HistoSize) |-> 0], \* the local memory of each group
            first |-> Unset]

-----------------------------------------------------------------------------
(* Kernels                                                                  *)

\* The global size of each kernel, the size of its groups, its segments.
Log2(m) == CHOOSE l \in 0 .. m : Pow2[l] = m

GlobalSize ==
  CASE at \in {"init", "findNegative", "reorderNegatives"} -> fun.n
    [] at \in {"histogram", "reorder"} -> Groups * Items
    [] at \in {"scan", "paste"} -> HistoSize \div 2
    [] at = "globalScan" -> Split \div 2
    [] at = "store" -> fun.k
    [] OTHER -> 0
LocalSize ==
  CASE at \in {"scan", "paste"} -> GlobalSize \div Split
    [] at = "globalScan" -> GlobalSize
    [] OTHER -> 1
Segments == IF at \in {"scan", "globalScan"} THEN 2 * Log2(2 * LocalSize) + 2 ELSE 1

Group(i) == i \div LocalSize
AtBarrier(i) == \A j \in Range0(GlobalSize) : Group(j) = Group(i) => done[j] >= done[i]

KeyBuffer == gpu.keys[gpu.in]
OtherBuffer == 3 - gpu.in
Digit(key) == (key \div Pow2[pass * Bits]) % Radix

InitKeys(i) ==
  gpu' = [gpu EXCEPT !.keys[1][i] = input[i], !.places[1][i] = i]

\* The part of the keys of work item i.
PartSize == fun.n \div (Groups * Items)
Part(i) == i * PartSize .. (i + 1) * PartSize - 1
Column(i, digit) == digit * Groups * Items + i

Histogram(i) ==
  gpu' = [gpu EXCEPT !.histo = [p \in DOMAIN @ |->
            IF p % (Groups * Items) # i THEN @[p]
            ELSE Cardinality({q \in Part(i) : Column(i, Digit(KeyBuffer[q])) = p})]]

\* The parallel prefix sum of radixsort_scanhistograms over the buffer `from`,
\* whose sums per group go to the buffer `sums`.
Scan(i, from, sums) ==
  LET size == 2 * LocalSize
      levels == Log2(size)
      it == i % LocalSize
      base == Group(i) * size
      segment == done[i]
      Cell(j) == base + j
      Low(step) == Cell(step * (2 * it + 1) - 1)
      High(step) == Cell(step * (2 * it + 2) - 1)
      up == Pow2[segment - 1]
      down == Pow2[2 * levels - segment]
      Summed(step) == [gpu.local EXCEPT ![High(step)] = @ + gpu.local[Low(step)]]
      last == Cell(size - 1)
  IN  CASE segment = 0 ->
             gpu' = [gpu EXCEPT !.local[Cell(2 * it)] = gpu[from][2 * i],
                                !.local[Cell(2 * it + 1)] = gpu[from][2 * i + 1]]
        [] segment \in 1 .. levels /\ it * 2 * up >= size -> UNCHANGED gpu
        [] segment \in 1 .. levels - 1 /\ it * 2 * up < size ->
             gpu' = [gpu EXCEPT !.local = Summed(up)]
        [] segment = levels /\ it * 2 * up < size ->
             LET total == Summed(up)
             IN  gpu' = [IF sums = "none" THEN gpu
                         ELSE [gpu EXCEPT !.sums[Group(i)] = total[last]]
                           EXCEPT !.local = [total EXCEPT ![last] = 0]]
        [] segment \in levels + 1 .. 2 * levels /\ it * 2 * down >= size -> UNCHANGED gpu
        [] segment \in levels + 1 .. 2 * levels /\ it * 2 * down < size ->
             gpu' = [gpu EXCEPT !.local[Low(down)] = gpu.local[High(down)],
                                !.local[High(down)] = @ + gpu.local[Low(down)]]
        [] OTHER ->
             gpu' = [gpu EXCEPT ![from][2 * i] = gpu.local[Cell(2 * it)],
                                ![from][2 * i + 1] = gpu.local[Cell(2 * it + 1)]]

Paste(i) ==
  gpu' = [gpu EXCEPT !.histo[2 * i] = @ + gpu.sums[Group(i)],
                     !.histo[2 * i + 1] = @ + gpu.sums[Group(i)]]

\* Fault: the local histogram is not counted on
NewPositionStuck(i, q) == gpu.histo[Column(i, Digit(KeyBuffer[q]))]

\* Where the key at q of the part of work item i goes.
NewPosition(i, q) ==
  gpu.histo[Column(i, Digit(KeyBuffer[q]))]
    + Cardinality({p \in Part(i) : p < q /\ Digit(KeyBuffer[p]) = Digit(KeyBuffer[q])})

Placed(buffer, i, from) ==
  [p \in DOMAIN buffer |->
     IF \E q \in Part(i) : NewPosition(i, q) = p
     THEN from[CHOOSE q \in Part(i) : NewPosition(i, q) = p] ELSE buffer[p]]

Reorder(i) ==
  gpu' = [gpu EXCEPT !.keys[OtherBuffer] = Placed(@, i, KeyBuffer),
                     !.places[OtherBuffer] = Placed(@, i, gpu.places[gpu.in])]

FindFirstNegative(i) ==
  LET Positive(p) == Number(KeyBuffer[p]) > 0
      Below0(p) == Number(KeyBuffer[p]) < 0
  IN  gpu' = IF i = fun.n - 1 THEN IF Positive(i) THEN [gpu EXCEPT !.first = fun.n] ELSE gpu
             ELSE IF i = 0 THEN IF Below0(i) THEN [gpu EXCEPT !.first = 0] ELSE gpu
             ELSE IF Positive(i - 1) /\ Below0(i) THEN [gpu EXCEPT !.first = i] ELSE gpu

ReorderNegatives(i) ==
  LET negatives == fun.n - gpu.first
      from == IF i < negatives THEN fun.n - 1 - i ELSE i - negatives
  IN  gpu' = [gpu EXCEPT !.keys[OtherBuffer][i] = KeyBuffer[from],
                         !.places[OtherBuffer][i] = gpu.places[gpu.in][from]]

Store(i) ==
  LET from == fun.n - 1 - i
  IN  /\ values' = [values EXCEPT ![i] = gpu.keys[OtherBuffer][from]]
      /\ indices' = [indices EXCEPT ![i] = gpu.places[OtherBuffer][from]]

-----------------------------------------------------------------------------
(* The queue                                                                *)

\* A work item goes through the next segment of the kernel that runs.
ItemStep(i) ==
  /\ done[i] < Segments
  /\ AtBarrier(i)
  /\ done' = [done EXCEPT ![i] = @ + 1]
  /\ \/ at = "init" /\ InitKeys(i)
     \/ at = "histogram" /\ Histogram(i)
     \/ at = "scan" /\ Scan(i, "histo", "sums")
     \/ at = "globalScan" /\ Scan(i, "sums", "none")
     \/ at = "paste" /\ Paste(i)
     \/ at = "reorder" /\ Reorder(i)
     \/ at = "findNegative" /\ FindFirstNegative(i)
     \/ at = "reorderNegatives" /\ ReorderNegatives(i)
     \/ at = "store" /\ Store(i) /\ UNCHANGED gpu
  /\ at # "store" => UNCHANGED <<values, indices>>
  /\ UNCHANGED <<fun, given, input, at, pass, heap, back, row, col, stack, sort, runs>>

NextKernel ==
  CASE at = "init" -> "histogram"
    [] at = "histogram" -> "scan"
    [] at = "scan" -> "globalScan"
    [] at = "globalScan" -> "paste"
    [] at = "paste" -> "reorder"
    [] at = "reorder" -> IF pass + 1 < Passes THEN "histogram" ELSE "findNegative"
    [] at = "findNegative" -> "reorderNegatives"
    [] at = "reorderNegatives" -> "store"
    [] at = "store" -> "idle"

\* As many as the largest kernel has.
Fresh == [i \in Range0(fun.n + HistoSize) |-> 0]

\* A kernel ends.  After a reordering the host has exchanged the buffers; a
\* first negative that no work item found is what the buffer held.
EndKernel ==
  /\ GlobalSize > 0
  /\ \A i \in Range0(GlobalSize) : done[i] = Segments
  /\ at' = NextKernel
  /\ done' = Fresh
  /\ pass' = IF at = "reorder" THEN pass + 1 ELSE pass
  /\ \/ at = "reorder" /\ gpu' = [gpu EXCEPT !.in = OtherBuffer]
     \/ at = "findNegative" /\ gpu.first = Unset
          /\ \E p \in 0 .. fun.n : gpu' = [gpu EXCEPT !.first = p]
     \/ at # "reorder" /\ (at = "findNegative" => gpu.first # Unset) /\ UNCHANGED gpu
  /\ UNCHANGED <<fun, given, input, values, indices, heap, back, row, col, stack, sort, runs>>

-----------------------------------------------------------------------------
(* The quicksort of one work item                                           *)

Exchange(f, a, b) == [f EXCEPT ![a] = f[b], ![b] = f[a]]

\* Fault: the top of the stack is read and stays
PopRangeKeepsTop ==
  /\ at = "quicksort"
  /\ sort = <<>> /\ stack # <<>>
  /\ LET l == stack[Len(stack) - 1]
     IN  sort' = [l |-> l, h |-> stack[Len(stack)], i |-> l - 1, j |-> l]
  /\ UNCHANGED <<fun, given, input, values, indices, at, done, gpu, pass, heap, back, row, col,
                 stack, runs>>

\* One iteration of quickSortIterative begins: the range on the stack.
PopRange ==
  /\ at = "quicksort"
  /\ sort = <<>> /\ stack # <<>>
  /\ LET l == stack[Len(stack) - 1]
     IN  sort' = [l |-> l, h |-> stack[Len(stack)], i |-> l - 1, j |-> l]
  /\ stack' = SubSeq(stack, 1, Len(stack) - 2)
  /\ UNCHANGED <<fun, given, input, values, indices, at, done, gpu, pass, heap, back, row, col,
                 runs>>

\* partition, which sorts the input itself: an iteration, and its end with
\* what quickSortIterative pushes after it.
Sift ==
  /\ at = "quicksort"
  /\ sort # <<>> /\ sort.j < sort.h
  /\ IF Number(input[sort.j]) >= Number(input[sort.h])
     THEN /\ sort' = [sort EXCEPT !.i = @ + 1, !.j = @ + 1]
          /\ input' = Exchange(input, sort.i + 1, sort.j)
          /\ gpu' = [gpu EXCEPT !.places[1] = Exchange(@, sort.i + 1, sort.j)]
     ELSE sort' = [sort EXCEPT !.j = @ + 1] /\ UNCHANGED <<input, gpu>>
  /\ UNCHANGED <<fun, given, values, indices, at, done, pass, heap, back, row, col, stack,
                 runs>>

\* Fault: the range on the left keeps the pivot
PushRangesWithPivot ==
  /\ at = "quicksort"
  /\ sort # <<>> /\ sort.j = sort.h
  /\ LET p == sort.i + 1
     IN  /\ input' = Exchange(input, p, sort.h)
         /\ gpu' = [gpu EXCEPT !.places[1] = Exchange(@, p, sort.h)]
         /\ stack' = stack \o (IF p > sort.l THEN <<sort.l, p>> ELSE <<>>)
                           \o (IF p + 1 < sort.h THEN <<p + 1, sort.h>> ELSE <<>>)
  /\ sort' = <<>>
  /\ UNCHANGED <<fun, given, values, indices, at, done, pass, heap, back, row, col, runs>>

PushRanges ==
  /\ at = "quicksort"
  /\ sort # <<>> /\ sort.j = sort.h
  /\ LET p == sort.i + 1
     IN  /\ input' = Exchange(input, p, sort.h)
         /\ gpu' = [gpu EXCEPT !.places[1] = Exchange(@, p, sort.h)]
         /\ stack' = stack \o (IF p - 1 > sort.l THEN <<sort.l, p - 1>> ELSE <<>>)
                           \o (IF p + 1 < sort.h THEN <<p + 1, sort.h>> ELSE <<>>)
  /\ sort' = <<>>
  /\ UNCHANGED <<fun, given, values, indices, at, done, pass, heap, back, row, col, runs>>

Extract ==
  /\ at = "quicksort"
  /\ sort = <<>> /\ stack = <<>>
  /\ values' = [i \in DOMAIN values |-> IF i < fun.k THEN input[i] ELSE values[i]]
  /\ indices' = [i \in DOMAIN indices |-> IF i < fun.k THEN gpu.places[1][i] ELSE indices[i]]
  /\ at' = "idle"
  /\ UNCHANGED <<fun, given, input, done, gpu, pass, heap, back, row, col, stack, sort, runs>>

-----------------------------------------------------------------------------
(* The heap of the CPU                                                      *)

Better(a, b) ==
  LET Key(c) == Number(input[row * fun.n + c])
  IN  Key(b) < Key(a) \/ (Key(b) = Key(a) /\ a < b)
Worst(S) == CHOOSE a \in S : \A b \in S \ {a} : Better(b, a)

\* TopContainer::push
Push ==
  /\ at = "collect"
  /\ col < fun.n
  /\ col' = col + 1
  /\ LET all == heap \cup {col}
     IN  IF back = {} /\ Cardinality(heap) < fun.k
         THEN heap' = all /\ UNCHANGED back
         ELSE IF back = {} \/ Better(col, Worst(heap))
         THEN heap' = all \ {Worst(all)} /\ back' = {Worst(all)}
         ELSE UNCHANGED <<heap, back>>
  /\ UNCHANGED <<fun, given, input, values, indices, at, done, gpu, pass, row, stack, sort, runs>>

\* TopContainer::sorted_result, copied to the row of the outputs.
EndRow ==
  /\ at = "collect"
  /\ col = fun.n
  /\ LET size == Cardinality(heap)
         sorted == CHOOSE s \in [Range0(size) -> heap] :
                     \A i, j \in Range0(size) : i < j => Better(s[i], s[j])
         Result(f, g(_)) == [i \in DOMAIN f |->
                               IF i - row * fun.k \in Range0(size)
                               THEN g(sorted[i - row * fun.k]) ELSE f[i]]
         Place(c) == c
         Value(c) == input[row * fun.n + c]
     IN  values' = Result(values, Value) /\ indices' = Result(indices, Place)
  /\ heap' = {} /\ back' = {} /\ col' = 0
  /\ row' = IF row + 1 < fun.rows THEN row + 1 ELSE 0
  /\ at' = IF row + 1 < fun.rows THEN at ELSE "idle"
  /\ UNCHANGED <<fun, given, input, done, gpu, pass, stack, sort, runs>>

-----------------------------------------------------------------------------
Configured(mode, n, rows, k) == [mode |-> mode, n |-> n, rows |-> rows, k |-> k]

TopKInit ==
  /\ fun \in {i.fun : i \in Inputs}
  /\ given = <<>> /\ input = <<>>
  /\ values = [i \in Range0(fun.k * fun.rows) |-> 0]
  /\ indices = [i \in Range0(fun.k * fun.rows) |-> 0]
  /\ at = "idle" /\ done = Fresh /\ gpu = Buffers /\ pass = 0
  /\ heap = {} /\ back = {} /\ row = 0 /\ col = 0
  /\ stack = <<>> /\ sort = <<>> /\ runs = 0

\* CLTopKV2::run, after the client has pushed the input.
Run ==
  /\ at = "idle"
  /\ runs < MaxRuns
  /\ runs' = runs + 1
  /\ \E i \in Inputs : i.fun = fun /\ given' = i.data /\ input' = i.data
  /\ \/ fun.mode = "cpu" /\ at' = "collect" /\ UNCHANGED <<gpu, stack>>
     \/ fun.mode = "GPU" /\ at' = "init" /\ UNCHANGED <<gpu, stack>>
     \/ /\ fun.mode = "GPU_SINGLE"
        /\ at' = "quicksort"
        /\ stack' = <<0, fun.n - 1>>
        /\ gpu' = [gpu EXCEPT !.places[1] = [i \in DOMAIN @ |-> i]]
  /\ pass' = 0
  /\ UNCHANGED <<fun, values, indices, done, heap, back, row, col, sort>>

TopKStep ==
  \/ \E i \in Range0(GlobalSize) : ItemStep(i)
  \/ EndKernel \/ PopRange \/ Sift \/ PushRanges \/ Extract \/ Push \/ EndRow

TopKNext == Run \/ TopKStep

-----------------------------------------------------------------------------
TopKTypeOK ==
  /\ fun \in [mode : {"cpu", "GPU", "GPU_SINGLE"}, n : Nat, rows : Nat, k : Nat]
  /\ gpu.in \in 1 .. 2
  /\ gpu.keys \in [1 .. 2 -> [Range0(fun.n) -> Range0(Pow2[TotalBits])]]
  /\ gpu.places \in [1 .. 2 -> [Range0(fun.n) -> Range0(fun.n)]]
  /\ gpu.histo \in [Range0(HistoSize) -> 0 .. fun.n]
  /\ gpu.first \in Unset .. fun.n
  /\ Len(stack) <= fun.n                 \* the buffer of the stack has n cells
  /\ Cardinality(heap) <= fun.k /\ Cardinality(back) <= 1

(* topkv2_find_first_negative finds the first negative of the sorted keys:   *)
(* it does not when that is the last key, nor when a zero stands before it,  *)
(* nor when no key is positive but the first not negative.                   *)
FindsFirstNegative ==
  LET keys == {given[p] : p \in DOMAIN given}
      negatives == {p \in DOMAIN given : Number(given[p]) < 0}
  IN  \/ negatives = DOMAIN given /\ fun.n > 1
      \/ /\ \E key \in keys : Number(key) > 0
         /\ ~ \E key \in keys : Negative(key) /\ Number(key) = 0
         /\ Cardinality(negatives) # 1

\* Row r of the outputs holds k elements of row r of the input, at the places
\* told, the largest first, and no element left out is larger.
IsTopK(r) ==
  LET Value(i) == values[r * fun.k + i]
      Place(i) == indices[r * fun.k + i]
      Key(p) == given[r * fun.n + p]
  IN  /\ \A i, j \in Range0(fun.k) : Place(i) = Place(j) => i = j
      /\ \A i \in Range0(fun.k) : Place(i) \in Range0(fun.n) /\ Value(i) = Key(Place(i))
      /\ \A i \in 1 .. fun.k - 1 : Number(Value(i - 1)) >= Number(Value(i))
      /\ \A p \in Range0(fun.n) :
           (\A i \in Range0(fun.k) : Place(i) # p)
             => Number(Key(p)) <= Number(Value(fun.k - 1))

(* When a run has ended, each row of the outputs is the top k of its row of  *)
(* the input, whatever the order of the work items, and in every mode.  On   *)
(* the GPU for one row, and where the first negative is found.               *)
TopKOfEachRow ==
  at = "idle" /\ runs > 0
    /\ (fun.mode # "cpu" => fun.rows = 1) /\ (fun.mode = "GPU" => FindsFirstNegative)
  => \A r \in Range0(fun.rows) : IsTopK(r)

(* A run of the function ends: the loops of the heap, of the quicksort with   *)
(* its stack, and of the passes of the radix sort all come to an end.         *)
TopKEnds == at # "idle" ~> at = "idle"
=============================================================================
