----------------------------- MODULE PureProofs -----------------------------
(***************************************************************************)
(* What the pure_arm_compute runtime plans holds together: for any model   *)
(* that a client builds, with calls of any lists of operands, finished and *)
(* computed any number of times, a stage finds the tensors it looks up, a  *)
(* tensor is never replaced, a function is profiled under the number of    *)
(* its operation, and a compute with everything set does not end in the    *)
(* middle.                                                                 *)
(*                                                                         *)
(* The first part is about the profiler that a client records in: its ring *)
(* implements the window of the last events, for every capacity, and until *)
(* it wraps every event has its end.  A client implements the profiler, so *)
(* that this holds of its profile too.                                     *)
(*                                                                         *)
(* The second part shows of every kind of operation that its visit is      *)
(* sound: it asks for operands of its node only, it asks for all the       *)
(* results, and its stage looks up nothing else.  What a visit reads of    *)
(* the operands (shapes, types, values) does not matter for this.  The     *)
(* third part is the invariant of finish, pass by pass.                    *)
(***************************************************************************)
EXTENDS PureExecution, SequenceTheorems, TLAPS

-----------------------------------------------------------------------------
(* The profiler                                                             *)

Window == [i \in 1 .. Size |-> At(i - 1).op]

-----------------------------------------------------------------------------
(* Remainders by a capacity that is not fixed                               *)

\* A quotient and a remainder below the capacity are the ones % computes.
LEMMA RemainderIsUnique ==
  ASSUME NEW m \in Nat \ {0}, NEW q \in Nat, NEW r \in 0 .. m - 1
  PROVE  ((m * q) + r) % m = r
OBVIOUS

\* The slots are filled in turn, and after the last one the first.
LEMMA NextSlot ==
  ASSUME NEW m \in Nat \ {0}, NEW n \in Nat
  PROVE  /\ n % m \in 0 .. m - 1
         /\ (n + 1) % m = IF n % m = m - 1 THEN 0 ELSE (n % m) + 1
<1> DEFINE q == n \div m
           r == n % m
<1>1. q \in Nat /\ r \in 0 .. m - 1 /\ n = (m * q) + r
  OBVIOUS
<1>2. CASE r = m - 1
  <2>1. n + 1 = (m * (q + 1)) + 0
    BY <1>1, <1>2
  <2> HIDE DEF q, r
  <2> QED
    BY <1>1, <1>2, <2>1, RemainderIsUnique
<1>3. CASE r # m - 1
  <2>1. n + 1 = (m * q) + (r + 1) /\ r + 1 \in 0 .. m - 1
    BY <1>1, <1>3
  <2> HIDE DEF q, r
  <2> QED
    BY <1>1, <1>3, <2>1, RemainderIsUnique
<1> QED
  BY <1>1, <1>2, <1>3

\* A slot number that runs past the end at most once comes back to the start.
LEMMA WrapOnce ==
  ASSUME NEW m \in Nat \ {0}, NEW n \in 0 .. 2 * m - 1
  PROVE  n % m = IF n < m THEN n ELSE n - m
<1>1. CASE n < m
  BY <1>1
<1>2. CASE n >= m
  BY <1>2
<1> QED
  BY <1>1, <1>2

\* At reads the slot of the index-th oldest event.
Slot(index) ==
  IF current <= MaxEntries THEN index
  ELSE IF index + (current % MaxEntries) < MaxEntries
       THEN index + (current % MaxEntries)
       ELSE index + (current % MaxEntries) - MaxEntries

LEMMA AtReadsTheSlot ==
  ASSUME ProfileTypeOK, NEW index \in 0 .. MaxEntries - 1
  PROVE  /\ At(index) = events[Slot(index)]
         /\ Slot(index) \in 0 .. MaxEntries - 1
<1> USE MaxEntriesAssumption
<1> DEFINE r == current % MaxEntries
<1>1. r \in 0 .. MaxEntries - 1
  BY NextSlot DEF ProfileTypeOK
<1>2. CASE current <= MaxEntries
  <2>1. (index + MaxEntries) % MaxEntries = index
    BY WrapOnce
  <2> QED
    BY <1>2, <2>1 DEF At, Slot, ProfileTypeOK
<1>3. CASE current > MaxEntries
  <2> HIDE DEF r
  <2>1. (index + r) % MaxEntries = IF index + r < MaxEntries THEN index + r
                                   ELSE index + r - MaxEntries
    <3> DEFINE n == index + r
    <3>1. n \in 0 .. 2 * MaxEntries - 1
      BY <1>1
    <3> HIDE DEF n
    <3>2. n % MaxEntries = IF n < MaxEntries THEN n ELSE n - MaxEntries
      BY <3>1, WrapOnce
    <3> QED
      BY <1>1, <3>2 DEF n
  <2>2. At(index) = events[(index + r) % MaxEntries]
    BY <1>3 DEF At, ProfileTypeOK, r
  <2>3. Slot(index) = IF index + r < MaxEntries THEN index + r ELSE index + r - MaxEntries
    BY <1>3 DEF Slot, ProfileTypeOK, r
  <2> QED
    BY <1>1, <2>1, <2>2, <2>3
<1> QED
  BY <1>2, <1>3 DEF ProfileTypeOK

-----------------------------------------------------------------------------
(* The invariant                                                            *)

EndsStamped ==
  current <= MaxEntries => \A i \in 0 .. current - 1 : events[i].ended

PInv == ProfileTypeOK /\ EndsStamped

LEMMA ProfileInitInv == ProfileInit => PInv
<1> SUFFICES ASSUME ProfileInit PROVE PInv
  OBVIOUS
<1>1. [op |-> 0, ended |-> FALSE] \in ProfileEvent
  BY OpIndexAssumption DEF ProfileEvent
<1>2. current = 0 /\ 0 .. current - 1 = {}
  BY DEF ProfileInit
<1>3. ProfileTypeOK
  BY <1>1 DEF ProfileInit, ProfileTypeOK
<1>4. EndsStamped
  BY <1>2 DEF EndsStamped
<1> QED
  BY <1>3, <1>4 DEF PInv

\* An event goes into the slot of its number, and its end is stamped as long as
\* that is also its number.
LEMMA ProfiledInv ==
  ASSUME PInv, NEW op \in OpIndex, Profiled(op)
  PROVE  PInv'
<1> USE MaxEntriesAssumption
<1> DEFINE handle == current % MaxEntries
           event == [op |-> op, ended |-> Stamps(handle, current + 1)]
<1>1. handle \in 0 .. MaxEntries - 1
  BY NextSlot DEF PInv, ProfileTypeOK
<1>2. event \in ProfileEvent
  BY DEF Stamps, ProfileEvent
<1>3. /\ current' = current + 1 /\ enabled' = enabled
      /\ events' = [events EXCEPT ![handle] = event]
  BY DEF Profiled
<1>4. ProfileTypeOK'
  <2> HIDE DEF handle, event
  <2> QED
    BY <1>1, <1>2, <1>3 DEF PInv, ProfileTypeOK
<1>5. EndsStamped'
  <2> SUFFICES ASSUME current + 1 <= MaxEntries PROVE EndsStamped'
    BY <1>3 DEF EndsStamped
  <2>1. handle = current
    BY DEF PInv, ProfileTypeOK
  <2>2. Stamps(handle, current + 1)
    BY <2>1, <1>1 DEF PInv, ProfileTypeOK, Stamps
  <2>3. event.ended
    BY <2>2
  <2> HIDE DEF handle, event
  <2> QED
    BY <1>1, <1>3, <2>1, <2>3 DEF PInv, ProfileTypeOK, EndsStamped
<1> QED
  BY <1>4, <1>5 DEF PInv

LEMMA ProfileStepInv == PInv /\ [ProfileNext]_profile => PInv'
<1> SUFFICES ASSUME PInv, [ProfileNext]_profile PROVE PInv'
  OBVIOUS
<1>1. ASSUME NEW on \in BOOLEAN, SetEnabled(on) PROVE PInv'
  BY <1>1 DEF SetEnabled, PInv, ProfileTypeOK, EndsStamped
<1>2. CASE Reset
  <2>1. current' = 0 /\ 0 .. current' - 1 = {} /\ enabled' = FALSE /\ events' = events
    BY <1>2 DEF Reset
  <2> QED
    BY <2>1 DEF PInv, ProfileTypeOK, EndsStamped
<1>3. ASSUME NEW op \in OpIndex, Profiled(op) PROVE PInv'
  BY <1>3, ProfiledInv
<1>4. CASE UNCHANGED profile
  BY <1>4 DEF profile, PInv, ProfileTypeOK, EndsStamped
<1> QED
  BY <1>1, <1>2, <1>3, <1>4 DEF ProfileNext

THEOREM ProfileInvariant == ProfileSpec => []PInv
BY ProfileInitInv, ProfileStepInv, PTL DEF ProfileSpec

\* The buffer is well typed whatever its capacity.
THEOREM ProfileTypeCorrect == ProfileSpec => []ProfileTypeOK
BY ProfileInvariant, PTL DEF PInv

\* Until the ring wraps, EndEvent stamps every event (profile_buffer.h:107-123).
LEMMA InvEnds == PInv => EndedUntilTheRingWraps
<1> SUFFICES ASSUME PInv, current <= MaxEntries, NEW i \in 1 .. Size
             PROVE  At(i - 1).ended
  BY DEF EndedUntilTheRingWraps
<1>1. i - 1 \in 0 .. current - 1 /\ i - 1 \in 0 .. MaxEntries - 1
  BY MaxEntriesAssumption DEF PInv, ProfileTypeOK, Size
<1>2. At(i - 1) = events[i - 1]
  BY <1>1, AtReadsTheSlot DEF PInv, Slot
<1> QED
  BY <1>1, <1>2 DEF PInv, EndsStamped

THEOREM EndedUntilTheRingWrapsHolds == ProfileSpec => []EndedUntilTheRingWraps
BY ProfileInvariant, InvEnds, PTL

-----------------------------------------------------------------------------
(* The refinement                                                           *)

\* The window is a sequence of Size operations, the oldest in its oldest slot.
IsRing ==
  /\ Window \in Seq(OpIndex)
  /\ Len(Window) = Size /\ Size \in 0 .. MaxEntries
  /\ \A i \in 1 .. Size : Window[i] = events[Slot(i - 1)].op

LEMMA WindowIsRing == ProfileTypeOK => IsRing
<1> SUFFICES ASSUME ProfileTypeOK PROVE IsRing
  OBVIOUS
<1> USE MaxEntriesAssumption
<1>1. Size \in 0 .. MaxEntries
  BY DEF ProfileTypeOK, Size
<1>2. ASSUME NEW i \in 1 .. Size
      PROVE  At(i - 1).op = events[Slot(i - 1)].op /\ At(i - 1).op \in OpIndex
  <2>1. i - 1 \in 0 .. MaxEntries - 1
    BY <1>1
  <2>2. At(i - 1) = events[Slot(i - 1)] /\ Slot(i - 1) \in 0 .. MaxEntries - 1
    BY <2>1, AtReadsTheSlot
  <2> QED
    BY <2>2 DEF ProfileTypeOK, ProfileEvent
<1>3. Window \in [1 .. Size -> OpIndex]
  BY <1>2 DEF Window
<1> QED
  BY <1>1, <1>2, <1>3 DEF Window, IsRing

\* Nothing is read while nothing is written.
LEMMA SameWindow ==
  ASSUME UNCHANGED <<current, events>>
  PROVE  Window' = Window
BY DEF Window, At, Size

\* A recorded event follows those in the window, of which the oldest goes when
\* the ring is full: its slot is the one the event takes.
LEMMA RecordWindow ==
  ASSUME PInv, PInv', NEW op \in OpIndex, Profiled(op)
  PROVE  Window' = IF Len(Window) < MaxEntries THEN Append(Window, op)
                   ELSE Append(Tail(Window), op)
<1> USE MaxEntriesAssumption
<1> DEFINE M == MaxEntries
           handle == current % M
           w == IF Len(Window) < M THEN Window ELSE Tail(Window)
<1>1. /\ Window \in Seq(OpIndex) /\ Len(Window) = Size /\ Size \in 0 .. M
      /\ \A i \in 1 .. Size : Window[i] = events[Slot(i - 1)].op
  BY WindowIsRing DEF PInv, IsRing
<1>2. /\ Window' \in Seq(OpIndex) /\ Len(Window') = Size'
      /\ \A i \in 1 .. Size' : Window'[i] = events'[Slot(i - 1)'].op
  <2>1. IsRing'
    BY WindowIsRing, PTL DEF PInv
  <2> QED
    BY <2>1 DEF IsRing
<1>3. /\ current' = current + 1 /\ handle \in 0 .. M - 1
      /\ events' = [events EXCEPT ![handle] =
                      [op |-> op, ended |-> Stamps(handle, current + 1)]]
  BY NextSlot DEF Profiled, PInv, ProfileTypeOK
<1>4. /\ events'[handle].op = op
      /\ \A s \in 0 .. M - 1 : s # handle => events'[s] = events[s]
  BY <1>3 DEF PInv, ProfileTypeOK
<1>5. (current + 1) % M = IF handle = M - 1 THEN 0 ELSE handle + 1
  BY NextSlot DEF PInv, ProfileTypeOK
<1>n. PICK n \in 1 .. M : n = Size'
  BY <1>3 DEF PInv, ProfileTypeOK, Size
<1>6. /\ w \in Seq(OpIndex) /\ Len(w) = n - 1
      /\ \A i \in 1 .. n - 1 : w[i] = events'[Slot(i - 1)'].op
  <2>1. CASE current < M
    <3>1. Size = current /\ n = current + 1 /\ w = Window
      BY <1>1, <1>3, <1>n, <2>1 DEF PInv, ProfileTypeOK, Size
    <3>2. handle = current
      BY <2>1 DEF PInv, ProfileTypeOK
    <3>3. \A i \in 1 .. current : Slot(i - 1) = i - 1 /\ Slot(i - 1)' = i - 1
      BY <1>3, <2>1 DEF PInv, ProfileTypeOK, Slot
    <3>4. \A i \in 1 .. current : i - 1 \in 0 .. M - 1 /\ i - 1 # current
      BY <2>1 DEF PInv, ProfileTypeOK
    <3> HIDE DEF w, handle
    <3> QED
      BY <1>1, <1>4, <3>1, <3>2, <3>3, <3>4 DEF PInv, ProfileTypeOK
  <2>2. CASE current >= M
    <3>1. Size = M /\ n = M /\ w = Tail(Window)
      BY <1>1, <1>3, <1>n, <2>2 DEF PInv, ProfileTypeOK, Size
    <3>2. /\ w \in Seq(OpIndex) /\ Len(w) = M - 1
          /\ \A i \in 1 .. M - 1 : w[i] = Window[i + 1]
      BY <1>1, <3>1, HeadTailProperties
    <3>3. ASSUME NEW i \in 1 .. M - 1
          PROVE  Slot(i - 1)' = Slot(i) /\ Slot(i) \in 0 .. M - 1 /\ Slot(i) # handle
      <4> DEFINE next == current' % M
      <4>1. /\ current' > M /\ current' \in Nat
            /\ next = IF handle = M - 1 THEN 0 ELSE handle + 1
        BY <1>3, <1>5, <2>2 DEF PInv, ProfileTypeOK
      <4>2. current = M => handle = 0
        BY WrapOnce
      <4> HIDE DEF next
      <4>3. Slot(i - 1)' = IF i - 1 + next < M THEN i - 1 + next ELSE i - 1 + next - M
        BY <4>1 DEF Slot, next
      <4> HIDE DEF handle
      <4>4. Slot(i) = IF current = M THEN i
                      ELSE IF i + handle < M THEN i + handle ELSE i + handle - M
        BY <2>2 DEF Slot, PInv, ProfileTypeOK, handle
      <4> QED
        BY <1>3, <4>1, <4>2, <4>3, <4>4
    <3>4. \A i \in 1 .. M - 1 : Window[i + 1] = events[Slot(i)].op
      BY <1>1, <3>1
    <3> HIDE DEF w, handle
    <3> QED
      BY <1>4, <3>1, <3>2, <3>3, <3>4
  <2> QED
    BY <2>1, <2>2 DEF PInv, ProfileTypeOK
<1>7. Window'[n] = op
  <2> DEFINE next == current' % M
  <2>1. current' \in Nat /\ n = IF current' >= M THEN M ELSE current'
    BY <1>3, <1>n DEF PInv, ProfileTypeOK, Size
  <2>2. next = IF handle = M - 1 THEN 0 ELSE handle + 1
    BY <1>3, <1>5
  <2>3. current' <= M => handle = current
    BY <1>3 DEF PInv, ProfileTypeOK
  <2>4. current' <= M => Slot(n - 1)' = current
    BY <1>3, <2>1 DEF Slot, PInv, ProfileTypeOK
  <2> HIDE DEF next
  <2>5. current' > M => Slot(n - 1)' = IF M - 1 + next < M THEN M - 1 + next ELSE M - 1 + next - M
    BY <2>1 DEF Slot, next
  <2> HIDE DEF handle
  <2>6. Slot(n - 1)' = handle
    BY <1>3, <1>n, <2>1, <2>2, <2>3, <2>4, <2>5 DEF PInv, ProfileTypeOK
  <2> QED
    BY <1>2, <1>4, <1>n, <2>6
<1>8. Window' = Append(w, op)
  <2> HIDE DEF w
  <2>1. /\ Append(w, op) \in Seq(OpIndex) /\ Len(Append(w, op)) = n
        /\ \A i \in 1 .. n - 1 : Append(w, op)[i] = w[i]
        /\ Append(w, op)[n] = op
    <3>1. /\ Append(w, op) \in Seq(OpIndex) /\ Len(Append(w, op)) = Len(w) + 1
          /\ \A i \in 1 .. Len(w) : Append(w, op)[i] = w[i]
          /\ Append(w, op)[Len(w) + 1] = op
      BY <1>6, AppendProperties
    <3>2. Len(w) = n - 1 /\ Len(w) + 1 = n
      BY <1>6
    <3> QED
      BY <3>1, <3>2
  <2>2. \A i \in 1 .. n : Window'[i] = Append(w, op)[i]
    <3> SUFFICES ASSUME NEW i \in 1 .. n PROVE Window'[i] = Append(w, op)[i]
      OBVIOUS
    <3>1. CASE i = n
      BY <1>7, <2>1, <3>1
    <3>2. CASE i # n
      <4>1. i \in 1 .. n - 1
        BY <3>2
      <4> QED
        BY <1>2, <1>6, <1>n, <2>1, <4>1
    <3> QED
      BY <3>1, <3>2
  <2> QED
    BY <1>2, <1>n, <2>1, <2>2, SeqEqual
<1> QED
  BY <1>8

\* Initial states map to initial states, and steps to steps or stutters.
LEMMA ProfileInitRefines == ProfileInit => Log!Init
<1> SUFFICES ASSUME ProfileInit PROVE Log!Init
  OBVIOUS
<1>1. 1 .. Size = {}
  BY MaxEntriesAssumption DEF ProfileInit, Size
<1>2. [i \in 1 .. Size |-> At(i - 1).op] = <<>>
  BY <1>1
<1> QED
  BY <1>2 DEF ProfileInit, Log!Init

LEMMA ProfileStepRefines ==
  PInv /\ PInv' /\ [ProfileNext]_profile => [Log!Next]_Log!vars
<1> SUFFICES ASSUME PInv, PInv', [ProfileNext]_profile
             PROVE  [Log!Next]_Log!vars
  OBVIOUS
<1>1. ASSUME NEW on \in BOOLEAN, SetEnabled(on) PROVE Log!Switch
  BY <1>1, SameWindow DEF SetEnabled, Log!Switch, Window
<1>2. CASE Reset
  <2>1. (current = 0)' /\ enabled' = FALSE
    BY <1>2 DEF Reset
  <2>2. Window' = <<>>
    <3>1. 1 .. Size' = {}
      BY <2>1, MaxEntriesAssumption DEF Size
    <3> QED
      BY <3>1 DEF Window
  <2> QED
    BY <2>1, <2>2 DEF Log!Next, Log!Clear, Window
<1>3. ASSUME NEW op \in OpIndex, Profiled(op) PROVE Log!Record(op)
  BY <1>3, RecordWindow DEF Profiled, Log!Record, Window
<1>4. CASE UNCHANGED profile
  BY <1>4, SameWindow DEF profile, Log!vars, Window
<1> QED
  BY <1>1, <1>2, <1>3, <1>4 DEF ProfileNext, Log!Next

\* For every capacity the read-out of the ring is the window of the last
\* events, whatever the switches, resets and events before it.
THEOREM LogsTheLastEventsHolds == ProfileSpec => LogsTheLastEvents
BY ProfileInvariant, ProfileInitRefines, ProfileStepRefines, PTL
   DEF ProfileSpec, LogsTheLastEvents, Log!Spec

-----------------------------------------------------------------------------
(* The visits                                                               *)

IsSeq(s) == s \in Seq(ToSet(s))

\* A list of one step.
LEMMA OneStep ==
  ASSUME NEW x
  PROVE  IsSeq(<<x>>) /\ Len(<<x>>) = 1
BY DEF IsSeq, ToSet

\* What is known of a sequence: a function on 1 .. Len.
LEMMA SeqFacts ==
  ASSUME NEW s, IsSeq(s)
  PROVE  Len(s) \in Nat /\ DOMAIN s = 1 .. Len(s) /\ s = [i \in 1 .. Len(s) |-> s[i]]
BY DEF IsSeq

\* Such a function is a sequence.
LEMMA MadeSeq ==
  ASSUME NEW n \in Nat, NEW s, s = [i \in 1 .. n |-> s[i]]
  PROVE  IsSeq(s) /\ Len(s) = n
<1>1. DOMAIN s = 1 .. n
  OBVIOUS
<1>2. s \in [1 .. n -> ToSet(s)]
  BY <1>1 DEF ToSet
<1> QED
  BY <1>2 DEF IsSeq

\* A sequence over some set is one over its own elements.
LEMMA SomeSeq ==
  ASSUME NEW U, NEW s \in Seq(U)
  PROVE  IsSeq(s)
<1>1. Len(s) \in Nat /\ s = [i \in 1 .. Len(s) |-> s[i]]
  OBVIOUS
<1> QED
  BY <1>1, MadeSeq

\* Two lists one after the other: first the elements of the one, then the
\* other's.
LEMMA Joined ==
  ASSUME NEW s, NEW t, IsSeq(s), IsSeq(t)
  PROVE  /\ IsSeq(s \o t) /\ Len(s \o t) = Len(s) + Len(t)
         /\ \A i \in 1 .. Len(s) : (s \o t)[i] = s[i]
         /\ \A i \in 1 .. Len(t) : (s \o t)[Len(s) + i] = t[i]
         /\ ToSet(s \o t) = ToSet(s) \cup ToSet(t)
<1> DEFINE U == ToSet(s) \cup ToSet(t)
<1>1. s \in Seq(U) /\ t \in Seq(U)
  BY DEF IsSeq
<1>2. s \o t \in Seq(U)
  BY <1>1
<1>3. IsSeq(s \o t)
  BY <1>2, SomeSeq
<1>4. Len(s \o t) = Len(s) + Len(t)
  BY <1>1
<1>5. \A i \in 1 .. Len(s) : (s \o t)[i] = s[i]
  BY <1>1
<1>6. \A i \in 1 .. Len(t) : (s \o t)[Len(s) + i] = t[i]
  BY <1>1
<1>7. ToSet(s \o t) \subseteq U
  BY <1>2 DEF ToSet
<1>8. Len(s) \in Nat /\ Len(t) \in Nat /\ DOMAIN (s \o t) = 1 .. Len(s) + Len(t)
  BY <1>1, <1>2, <1>4
<1>9. ToSet(s) \subseteq ToSet(s \o t)
  <2> SUFFICES ASSUME NEW i \in 1 .. Len(s) PROVE s[i] \in ToSet(s \o t)
    BY SeqFacts DEF ToSet
  <2>1. i \in DOMAIN (s \o t)
    BY <1>8
  <2> QED
    BY <2>1, <1>5 DEF ToSet
<1>10. ToSet(t) \subseteq ToSet(s \o t)
  <2> SUFFICES ASSUME NEW i \in 1 .. Len(t) PROVE t[i] \in ToSet(s \o t)
    BY SeqFacts DEF ToSet
  <2>1. Len(s) + i \in DOMAIN (s \o t)
    BY <1>8
  <2> QED
    BY <2>1, <1>6 DEF ToSet
<1> QED
  BY <1>3, <1>4, <1>5, <1>6, <1>7, <1>9, <1>10
-----------------------------------------------------------------------------
FixedRoles(roles) ==
  /\ IsSeq(roles.inputs) /\ IsSeq(roles.outputs)
  /\ \A i, j \in DOMAIN roles.outputs : roles.outputs[i] = roles.outputs[j] => i = j
  /\ ToSet(roles.inputs) \cap ToSet(roles.outputs) = {}

\* The place of a role among the inputs and outputs of a Param.
Place(roles, r) ==
  LET names == roles.inputs \o roles.outputs
  IN  CHOOSE n \in DOMAIN names : names[n] = r

\* A result stands behind all the inputs.
LEMMA PlaceOfResult ==
  ASSUME NEW roles, FixedRoles(roles), NEW j \in DOMAIN roles.outputs
  PROVE  Place(roles, roles.outputs[j]) = Len(roles.inputs) + j
<1> DEFINE s == roles.inputs
           t == roles.outputs
           names == s \o t
<1>1. IsSeq(s) /\ IsSeq(t)
  BY DEF FixedRoles
<1>2. /\ \A i, l \in DOMAIN t : t[i] = t[l] => i = l
      /\ ToSet(s) \cap ToSet(t) = {}
  BY DEF FixedRoles
<1> HIDE DEF s, t
<1>3. /\ IsSeq(names) /\ Len(names) = Len(s) + Len(t)
      /\ \A i \in 1 .. Len(s) : names[i] = s[i]
      /\ \A i \in 1 .. Len(t) : names[Len(s) + i] = t[i]
  BY <1>1, Joined
<1>4. Len(s) \in Nat /\ Len(t) \in Nat /\ DOMAIN s = 1 .. Len(s) /\ DOMAIN t = 1 .. Len(t)
      /\ DOMAIN names = 1 .. Len(s) + Len(t)
  BY <1>1, <1>3, SeqFacts
<1> HIDE DEF names
<1>5. j \in 1 .. Len(t)
  BY <1>4 DEF t
<1>6. Len(s) + j \in DOMAIN names /\ names[Len(s) + j] = t[j]
  BY <1>3, <1>4, <1>5
<1>7. ASSUME NEW n \in DOMAIN names, names[n] = t[j]
      PROVE  n = Len(s) + j
  <2>1. n \notin 1 .. Len(s)
    <3>1. t[j] \in ToSet(t)
      BY <1>4, <1>5 DEF ToSet
    <3>2. n \in 1 .. Len(s) => t[j] \in ToSet(s)
      BY <1>3, <1>4, <1>7 DEF ToSet
    <3> QED
      BY <3>1, <3>2, <1>2
  <2>2. n - Len(s) \in 1 .. Len(t) /\ n = Len(s) + (n - Len(s))
    BY <1>4, <2>1
  <2>3. names[n] = t[n - Len(s)]
    BY <1>3, <2>2
  <2>4. n - Len(s) = j
    BY <1>2, <1>4, <1>5, <1>7, <2>2, <2>3
  <2> QED
    BY <1>4, <1>5, <2>2, <2>4
<1>8. (CHOOSE n \in DOMAIN names : names[n] = t[j]) = Len(s) + j
  BY <1>6, <1>7
<1> QED
  BY <1>8 DEF Place, names, s, t

\* The node of a Param gives each role its operand; its results are operands
\* that have the roles of outputs (operations/*.cc).
LEMMA AssignedRoles ==
  ASSUME NEW kind, NEW roles, FixedRoles(roles), NEW c \in OperationCall,
         NEW node, node = Assigned(kind, roles, c), node # NoNode
  PROVE  /\ node.kind = kind
         /\ DOMAIN node.param = ToSet(roles.inputs) \cup ToSet(roles.outputs)
         /\ node.outs \subseteq {node.param[r] : r \in ToSet(roles.outputs)}
<1> DEFINE given == c.ins \o c.outs
           names == ToSet(roles.inputs) \cup ToSet(roles.outputs)
<1>1. Accepts(roles, c)
  BY DEF Assigned
<1>2. IsSeq(c.ins) /\ IsSeq(c.outs) /\ Len(c.ins) = Len(roles.inputs)
      /\ Len(c.outs) = Len(roles.outputs)
  BY <1>1, SomeSeq DEF Accepts, OperationCall
<1>3. ToSet(roles.inputs \o roles.outputs) = names
  BY Joined DEF FixedRoles
<1>4. node = [kind |-> kind, outs |-> ToSet(c.outs), list |-> <<>>,
              param |-> [r \in names |-> given[Place(roles, r)]]]
  BY <1>1, <1>3 DEF Assigned, Place
<1>5. \A i \in 1 .. Len(c.outs) : given[Len(c.ins) + i] = c.outs[i]
  <2> DEFINE s == c.ins
             t == c.outs
  <2> SUFFICES \A i \in 1 .. Len(t) : (s \o t)[Len(s) + i] = t[i]
    OBVIOUS
  <2>1. IsSeq(s) /\ IsSeq(t)
    BY <1>2
  <2> HIDE DEF s, t
  <2> QED
    BY <2>1, Joined
<1> HIDE DEF given, names
<1>6. node.kind = kind /\ node.outs = ToSet(c.outs)
      /\ node.param = [r \in names |-> given[Place(roles, r)]]
  BY <1>4
<1>7. ASSUME NEW x \in node.outs
      PROVE  \E r \in ToSet(roles.outputs) : node.param[r] = x
  <2>1. PICK i \in DOMAIN c.outs : c.outs[i] = x
    BY <1>6, <1>7 DEF ToSet
  <2>2. i \in 1 .. Len(c.outs) /\ i \in DOMAIN roles.outputs
    BY <1>2, SeqFacts DEF FixedRoles
  <2>3. roles.outputs[i] \in ToSet(roles.outputs)
    BY <2>2 DEF ToSet
  <2>4. node.param[roles.outputs[i]] = given[Place(roles, roles.outputs[i])]
    BY <1>6, <2>3 DEF names
  <2>5. Place(roles, roles.outputs[i]) = Len(c.ins) + i
    BY <1>2, <2>2, PlaceOfResult
  <2> QED
    BY <1>5, <2>1, <2>2, <2>3, <2>4, <2>5
<1> QED
  BY <1>6, <1>7 DEF names

-----------------------------------------------------------------------------

\* Short lists and what is in them.
LEMMA Tuples ==
  /\ \A a : IsSeq(<<a>>) /\ ToSet(<<a>>) = {a}
  /\ \A a, b : IsSeq(<<a, b>>) /\ ToSet(<<a, b>>) = {a, b}
  /\ \A a, b, c : IsSeq(<<a, b, c>>) /\ ToSet(<<a, b, c>>) = {a, b, c}
  /\ \A a, b, c, d : IsSeq(<<a, b, c, d>>) /\ ToSet(<<a, b, c, d>>) = {a, b, c, d}
<1>1. \A a : ToSet(<<a>>) = {a} /\ ToSet(<<a>>) \subseteq {a}
  BY DEF ToSet
<1>2. \A a, b : ToSet(<<a, b>>) = {a, b}
  BY DEF ToSet
<1>3. \A a, b, c : ToSet(<<a, b, c>>) = {a, b, c}
  BY DEF ToSet
<1>4. \A a, b, c, d : ToSet(<<a, b, c, d>>) = {a, b, c, d}
  BY DEF ToSet
<1> QED
  BY <1>1, <1>2, <1>3, <1>4 DEF IsSeq

\* The same for lists of six and seven.
LEMMA LongTuples ==
  /\ \A a, b, c, d, e, f : /\ IsSeq(<<a, b, c, d, e, f>>)
                           /\ ToSet(<<a, b, c, d, e, f>>) = {a, b, c, d, e, f}
  /\ \A a, b, c, d, e, f, g : /\ IsSeq(<<a, b, c, d, e, f, g>>)
                              /\ ToSet(<<a, b, c, d, e, f, g>>) = {a, b, c, d, e, f, g}
<1>1. \A a, b, c, d, e, f : ToSet(<<a, b, c, d, e, f>>) = {a, b, c, d, e, f}
  BY DEF ToSet
<1>2. \A a, b, c, d, e, f, g : ToSet(<<a, b, c, d, e, f, g>>) = {a, b, c, d, e, f, g}
  BY DEF ToSet
<1> QED
  BY <1>1, <1>2 DEF IsSeq

\* Different roles of inputs and outputs are fixed roles.
LEMMA FixedByInputs ==
  ASSUME NEW ins, NEW outs, IsSeq(ins), IsSeq(outs),
         \A i, j \in DOMAIN outs : outs[i] = outs[j] => i = j,
         ToSet(ins) \cap ToSet(outs) = {}
  PROVE  /\ FixedRoles(Roles(ins, outs))
         /\ Roles(ins, outs).inputs = ins /\ Roles(ins, outs).outputs = outs
BY DEF FixedRoles, Roles

\* What a window with an implicit padding takes.
LEMMA ImplicitRoles == IsSeq(Implicit) /\ ToSet(Implicit) = {"padding", "hstride", "vstride"}
BY Tuples DEF Implicit

\* What a window with an explicit padding takes.
LEMMA ExplicitRoles ==
  IsSeq(Explicit) /\ ToSet(Explicit) = {"padding_left", "padding_right", "padding_top",
                                        "padding_bottom", "hstride", "vstride"}
BY LongTuples DEF Explicit

\* The roles of a window operation are fixed, whatever stands around the
\* padding and the strides.
LEMMA WindowRoles ==
  ASSUME NEW head, NEW between, NEW rest, IsSeq(head), IsSeq(between), IsSeq(rest),
         "ofm" \notin ToSet(head) \cup ToSet(between) \cup ToSet(rest)
  PROVE  LET roles == Roles(head \o between \o rest, <<"ofm">>)
         IN  /\ FixedRoles(roles)
             /\ ToSet(roles.inputs) = ToSet(head) \cup ToSet(between) \cup ToSet(rest)
             /\ ToSet(roles.outputs) = {"ofm"}
<1> DEFINE s == head \o between
<1>1. IsSeq(s) /\ ToSet(s) = ToSet(head) \cup ToSet(between)
  BY Joined
<1> HIDE DEF s
<1> DEFINE u == s \o rest
<1>2. IsSeq(u) /\ ToSet(u) = ToSet(s) \cup ToSet(rest)
  BY <1>1, Joined
<1> HIDE DEF u
<1>3. \A i, j \in DOMAIN <<"ofm">> : <<"ofm">>[i] = <<"ofm">>[j] => i = j
  OBVIOUS
<1>4. /\ FixedRoles(Roles(u, <<"ofm">>))
      /\ Roles(u, <<"ofm">>).inputs = u /\ Roles(u, <<"ofm">>).outputs = <<"ofm">>
  BY <1>1, <1>2, <1>3, FixedByInputs, Tuples
<1> QED
  BY <1>1, <1>2, <1>4, Tuples DEF s, u

\* The roles of an operation with one result.
LEMMA OneResult ==
  ASSUME NEW ins, IsSeq(ins), NEW ofm, ofm \notin ToSet(ins)
  PROVE  LET roles == Roles(ins, <<ofm>>)
         IN  /\ FixedRoles(roles) /\ ToSet(roles.inputs) = ToSet(ins)
             /\ ToSet(roles.outputs) = {ofm}
<1>1. \A i, j \in DOMAIN <<ofm>> : <<ofm>>[i] = <<ofm>>[j] => i = j
  OBVIOUS
<1> QED
  BY <1>1, FixedByInputs, Tuples

\* The roles of an operation with two.
LEMMA TwoResults ==
  ASSUME NEW ins, IsSeq(ins), NEW a, NEW b, a # b, {a, b} \cap ToSet(ins) = {}
  PROVE  LET roles == Roles(ins, <<a, b>>)
         IN  /\ FixedRoles(roles) /\ ToSet(roles.inputs) = ToSet(ins)
             /\ ToSet(roles.outputs) = {a, b}
<1>1. \A i, j \in DOMAIN <<a, b>> : <<a, b>>[i] = <<a, b>>[j] => i = j
  OBVIOUS
<1> QED
  BY <1>1, FixedByInputs, Tuples

Kinds ==
  {"Add", "Sub", "Mul", "Div", "SquaredDifference", "Conv2DImplicit", "Conv2DExplicit",
   "DepthwiseConv2DImplicit", "DepthwiseConv2DExplicit", "MaxPool2DImplicit",
   "MaxPool2DExplicit", "AvgPool2DImplicit", "AvgPool2DExplicit", "L2Pool2DImplicit",
   "L2Pool2DExplicit", "Cast", "Dequantize", "Floor", "L2Normalization", "Logistic", "ReLU",
   "ReLU1", "ReLU6", "RSQRT", "Tanh", "FullyConnected", "Gather", "Mean", "Pad", "ReduceMax",
   "Reshape", "ResizeBilinear", "Softmax", "SpaceToDepth", "StridedSlice", "TopKV2",
   "Transpose", "EmbeddingLookup", "HashtableLookup", "RNN", "LSTM", "Concat", "Squeeze",
   "Split"}

\* An accepted type stands for one of the kinds.
LEMMA EveryKind ==
  ASSUME NEW c
  PROVE  KindOf(c) \in Kinds \cup {"unknown"}
<1>1. ConvolutionKind(c) \in Kinds
  BY DEF ConvolutionKind, Kinds
<1>2. c.type \in {"MAX_POOL_2D", "AVERAGE_POOL_2D", "L2_POOL_2D"} => PoolKind(c) \in Kinds
  <2>1. c.type \in {"MAX_POOL_2D", "AVERAGE_POOL_2D", "L2_POOL_2D"} =>
          PoolKind(c) \in {"MaxPool2DImplicit", "MaxPool2DExplicit", "AvgPool2DImplicit",
                          "AvgPool2DExplicit", "L2Pool2DImplicit", "L2Pool2DExplicit"}
    BY Zenon DEF PoolKind
  <2> QED
    BY <2>1 DEF Kinds
<1>3. \A t \in DOMAIN PlainKinds : PlainKinds[t] \in Kinds
  BY DEF PlainKinds, Kinds
<1>4. \A t \in DOMAIN ExKinds : ExKinds[t] \in Kinds
  BY DEF ExKinds, Kinds
<1>5. {"Concat", "Squeeze", "Split"} \subseteq Kinds
  BY DEF Kinds
<1> QED
  BY <1>1, <1>2, <1>3, <1>4, <1>5, Zenon DEF KindOf

\* The node that addOperation makes of a call, kind by kind.
LEMMA NodeForms ==
  ASSUME NEW c
  PROVE  /\ KindOf(c) = "Add" => NodeOf(c) = AddNode(c)
         /\ KindOf(c) = "Sub" => NodeOf(c) = SubNode(c)
         /\ KindOf(c) = "Mul" => NodeOf(c) = MulNode(c)
         /\ KindOf(c) = "Div" => NodeOf(c) = DivNode(c)
         /\ KindOf(c) = "SquaredDifference" => NodeOf(c) = SquaredDifferenceNode(c)
         /\ KindOf(c) = "Conv2DImplicit" => NodeOf(c) = Conv2DImplicitNode(c)
         /\ KindOf(c) = "Conv2DExplicit" => NodeOf(c) = Conv2DExplicitNode(c)
         /\ KindOf(c) = "DepthwiseConv2DImplicit" => NodeOf(c) = DepthwiseConv2DImplicitNode(c)
         /\ KindOf(c) = "DepthwiseConv2DExplicit" => NodeOf(c) = DepthwiseConv2DExplicitNode(c)
         /\ KindOf(c) = "MaxPool2DImplicit" => NodeOf(c) = MaxPool2DImplicitNode(c)
         /\ KindOf(c) = "MaxPool2DExplicit" => NodeOf(c) = MaxPool2DExplicitNode(c)
         /\ KindOf(c) = "AvgPool2DImplicit" => NodeOf(c) = AvgPool2DImplicitNode(c)
         /\ KindOf(c) = "AvgPool2DExplicit" => NodeOf(c) = AvgPool2DExplicitNode(c)
         /\ KindOf(c) = "L2Pool2DImplicit" => NodeOf(c) = L2Pool2DImplicitNode(c)
         /\ KindOf(c) = "L2Pool2DExplicit" => NodeOf(c) = L2Pool2DExplicitNode(c)
         /\ KindOf(c) = "Cast" => NodeOf(c) = CastNode(c)
         /\ KindOf(c) = "Dequantize" => NodeOf(c) = DequantizeNode(c)
         /\ KindOf(c) = "Floor" => NodeOf(c) = FloorNode(c)
         /\ KindOf(c) = "L2Normalization" => NodeOf(c) = L2NormalizationNode(c)
         /\ KindOf(c) = "Logistic" => NodeOf(c) = LogisticNode(c)
         /\ KindOf(c) = "ReLU" => NodeOf(c) = ReLUNode(c)
         /\ KindOf(c) = "ReLU1" => NodeOf(c) = ReLU1Node(c)
         /\ KindOf(c) = "ReLU6" => NodeOf(c) = ReLU6Node(c)
         /\ KindOf(c) = "RSQRT" => NodeOf(c) = RSQRTNode(c)
         /\ KindOf(c) = "Tanh" => NodeOf(c) = TanhNode(c)
         /\ KindOf(c) = "FullyConnected" => NodeOf(c) = FullyConnectedNode(c)
         /\ KindOf(c) = "Gather" => NodeOf(c) = GatherNode(c)
         /\ KindOf(c) = "Mean" => NodeOf(c) = MeanNode(c)
         /\ KindOf(c) = "Pad" => NodeOf(c) = PadNode(c)
         /\ KindOf(c) = "ReduceMax" => NodeOf(c) = ReduceMaxNode(c)
         /\ KindOf(c) = "Reshape" => NodeOf(c) = ReshapeNode(c)
         /\ KindOf(c) = "ResizeBilinear" => NodeOf(c) = ResizeBilinearNode(c)
         /\ KindOf(c) = "Softmax" => NodeOf(c) = SoftmaxNode(c)
         /\ KindOf(c) = "SpaceToDepth" => NodeOf(c) = SpaceToDepthNode(c)
         /\ KindOf(c) = "StridedSlice" => NodeOf(c) = StridedSliceNode(c)
         /\ KindOf(c) = "TopKV2" => NodeOf(c) = TopKV2Node(c)
         /\ KindOf(c) = "Transpose" => NodeOf(c) = TransposeNode(c)
         /\ KindOf(c) = "EmbeddingLookup" => NodeOf(c) = EmbeddingLookupNode(c)
         /\ KindOf(c) = "HashtableLookup" => NodeOf(c) = HashtableLookupNode(c)
         /\ KindOf(c) = "RNN" => NodeOf(c) = RNNNode(c)
         /\ KindOf(c) = "LSTM" => NodeOf(c) = LSTMNode(c)
         /\ KindOf(c) = "Concat" => NodeOf(c) = ConcatNode(c)
         /\ KindOf(c) = "Squeeze" => NodeOf(c) = SqueezeNode(c)
         /\ KindOf(c) = "Split" => NodeOf(c) = SplitNode(c)
         /\ KindOf(c) = "unknown" => NodeOf(c) = NoNode
BY ZenonT(60) DEF NodeOf

\* A node has the kind of its call.
LEMMA NodeKind ==
  ASSUME NEW c
  PROVE  NodeOf(c) = NoNode \/ NodeOf(c).kind = KindOf(c)
<1> DEFINE Fits(node, kind) == node = NoNode \/ node.kind = kind
<1>1. \A kind, roles : Fits(Assigned(kind, roles, c), kind)
  BY DEF Assigned
<1>2. Fits(SqueezeNode(c), "Squeeze")
  BY DEF SqueezeNode
<1>3. Fits(ConcatNode(c), "Concat")
  BY DEF ConcatNode
<1>4. Fits(SplitNode(c), "Split")
  BY DEF SplitNode
<1> HIDE DEF Fits
<1>5. /\ Fits(AddNode(c), "Add")
      /\ Fits(SubNode(c), "Sub")
      /\ Fits(MulNode(c), "Mul")
      /\ Fits(DivNode(c), "Div")
      /\ Fits(SquaredDifferenceNode(c), "SquaredDifference")
      /\ Fits(Conv2DImplicitNode(c), "Conv2DImplicit")
      /\ Fits(Conv2DExplicitNode(c), "Conv2DExplicit")
      /\ Fits(DepthwiseConv2DImplicitNode(c), "DepthwiseConv2DImplicit")
      /\ Fits(DepthwiseConv2DExplicitNode(c), "DepthwiseConv2DExplicit")
      /\ Fits(MaxPool2DImplicitNode(c), "MaxPool2DImplicit")
      /\ Fits(MaxPool2DExplicitNode(c), "MaxPool2DExplicit")
      /\ Fits(AvgPool2DImplicitNode(c), "AvgPool2DImplicit")
      /\ Fits(AvgPool2DExplicitNode(c), "AvgPool2DExplicit")
      /\ Fits(L2Pool2DImplicitNode(c), "L2Pool2DImplicit")
  BY <1>1, Zenon DEF AddNode, SubNode, MulNode, DivNode, SquaredDifferenceNode,
                     Conv2DImplicitNode, Conv2DExplicitNode, DepthwiseConv2DImplicitNode,
                     DepthwiseConv2DExplicitNode, MaxPool2DImplicitNode, MaxPool2DExplicitNode,
                     AvgPool2DImplicitNode, AvgPool2DExplicitNode, L2Pool2DImplicitNode
<1>6. /\ Fits(L2Pool2DExplicitNode(c), "L2Pool2DExplicit")
      /\ Fits(CastNode(c), "Cast")
      /\ Fits(DequantizeNode(c), "Dequantize")
      /\ Fits(FloorNode(c), "Floor")
      /\ Fits(L2NormalizationNode(c), "L2Normalization")
      /\ Fits(LogisticNode(c), "Logistic")
      /\ Fits(ReLUNode(c), "ReLU")
      /\ Fits(ReLU1Node(c), "ReLU1")
      /\ Fits(ReLU6Node(c), "ReLU6")
      /\ Fits(RSQRTNode(c), "RSQRT")
      /\ Fits(TanhNode(c), "Tanh")
      /\ Fits(FullyConnectedNode(c), "FullyConnected")
      /\ Fits(GatherNode(c), "Gather")
      /\ Fits(MeanNode(c), "Mean")
  BY <1>1, Zenon DEF L2Pool2DExplicitNode, CastNode, DequantizeNode, FloorNode,
                     L2NormalizationNode, LogisticNode, ReLUNode, ReLU1Node, ReLU6Node,
                     RSQRTNode, TanhNode, FullyConnectedNode, GatherNode, MeanNode
<1>7. /\ Fits(PadNode(c), "Pad")
      /\ Fits(ReduceMaxNode(c), "ReduceMax")
      /\ Fits(ReshapeNode(c), "Reshape")
      /\ Fits(ResizeBilinearNode(c), "ResizeBilinear")
      /\ Fits(SoftmaxNode(c), "Softmax")
      /\ Fits(SpaceToDepthNode(c), "SpaceToDepth")
      /\ Fits(StridedSliceNode(c), "StridedSlice")
      /\ Fits(TopKV2Node(c), "TopKV2")
      /\ Fits(TransposeNode(c), "Transpose")
      /\ Fits(EmbeddingLookupNode(c), "EmbeddingLookup")
      /\ Fits(HashtableLookupNode(c), "HashtableLookup")
      /\ Fits(RNNNode(c), "RNN")
      /\ Fits(LSTMNode(c), "LSTM")
  BY <1>1, Zenon DEF PadNode, ReduceMaxNode, ReshapeNode, ResizeBilinearNode, SoftmaxNode,
                     SpaceToDepthNode, StridedSliceNode, TopKV2Node, TransposeNode,
                     EmbeddingLookupNode, HashtableLookupNode, RNNNode, LSTMNode
<1>8. Fits(NodeOf(c), KindOf(c))
  <2>1. KindOf(c) \in Kinds \cup {"unknown"} /\ Fits(NoNode, "unknown")
    BY EveryKind DEF Fits
  <2> QED
    BY <1>2, <1>3, <1>4, <1>5, <1>6, <1>7, <2>1, NodeForms DEF Kinds
<1> QED
  BY <1>8 DEF Fits

\* The visit of a node, kind by kind.
LEMMA AcceptForms ==
  ASSUME NEW m, NEW node
  PROVE  /\ node.kind = "Add" => Accept(m, node) = VisitAdd(m, node.param)
         /\ node.kind = "Sub" => Accept(m, node) = VisitSub(m, node.param)
         /\ node.kind = "Mul" => Accept(m, node) = VisitMul(m, node.param)
         /\ node.kind = "Div" => Accept(m, node) = VisitDiv(m, node.param)
         /\ node.kind = "SquaredDifference" =>
                Accept(m, node) = VisitSquaredDifference(m, node.param)
         /\ node.kind = "Conv2DImplicit" => Accept(m, node) = VisitConv2DImplicit(m, node.param)
         /\ node.kind = "Conv2DExplicit" => Accept(m, node) = VisitConv2DExplicit(m, node.param)
         /\ node.kind = "DepthwiseConv2DImplicit" =>
                Accept(m, node) = VisitDepthwiseConv2DImplicit(m, node.param)
         /\ node.kind = "DepthwiseConv2DExplicit" =>
                Accept(m, node) = VisitDepthwiseConv2DExplicit(m, node.param)
         /\ node.kind = "MaxPool2DImplicit" =>
                Accept(m, node) = VisitMaxPool2DImplicit(m, node.param)
         /\ node.kind = "MaxPool2DExplicit" =>
                Accept(m, node) = VisitMaxPool2DExplicit(m, node.param)
         /\ node.kind = "AvgPool2DImplicit" =>
                Accept(m, node) = VisitAvgPool2DImplicit(m, node.param)
         /\ node.kind = "AvgPool2DExplicit" =>
                Accept(m, node) = VisitAvgPool2DExplicit(m, node.param)
         /\ node.kind = "L2Pool2DImplicit" => Accept(m, node) = VisitL2Pool2DImplicit(m, node.param)
         /\ node.kind = "L2Pool2DExplicit" => Accept(m, node) = VisitL2Pool2DExplicit(m, node.param)
         /\ node.kind = "ReLU" => Accept(m, node) = VisitReLU(m, node.param)
         /\ node.kind = "ReLU1" => Accept(m, node) = VisitReLU1(m, node.param)
         /\ node.kind = "ReLU6" => Accept(m, node) = VisitReLU6(m, node.param)
         /\ node.kind = "Tanh" => Accept(m, node) = VisitTanh(m, node.param)
         /\ node.kind = "Floor" => Accept(m, node) = VisitFloor(m, node.param)
         /\ node.kind = "Reshape" => Accept(m, node) = VisitReshape(m, node.param)
         /\ node.kind = "Squeeze" => Accept(m, node) = VisitSqueeze(m, node.param)
         /\ node.kind = "Logistic" => Accept(m, node) = VisitLogistic(m, node.param)
         /\ node.kind = "Transpose" => Accept(m, node) = VisitTranspose(m, node.param)
         /\ node.kind = "Cast" => Accept(m, node) = VisitCast(m, node.param)
         /\ node.kind = "Dequantize" => Accept(m, node) = VisitDequantize(m, node.param)
         /\ node.kind = "Softmax" => Accept(m, node) = VisitSoftmax(m, node.param)
         /\ node.kind = "ResizeBilinear" => Accept(m, node) = VisitResizeBilinear(m, node.param)
         /\ node.kind = "SpaceToDepth" => Accept(m, node) = VisitSpaceToDepth(m, node.param)
         /\ node.kind = "L2Normalization" => Accept(m, node) = VisitL2Normalization(m, node.param)
         /\ node.kind = "ReduceMax" => Accept(m, node) = VisitReduceMax(m, node.param)
         /\ node.kind = "Pad" => Accept(m, node) = VisitPad(m, node.param)
         /\ node.kind = "Mean" => Accept(m, node) = VisitMean(m, node.param)
         /\ node.kind = "FullyConnected" => Accept(m, node) = VisitFullyConnected(m, node.param)
         /\ node.kind = "StridedSlice" => Accept(m, node) = VisitStridedSlice(m, node.param)
         /\ node.kind = "TopKV2" => Accept(m, node) = VisitTopKV2(m, node.param)
         /\ node.kind = "Gather" => Accept(m, node) = VisitGather(m, node.param)
         /\ node.kind = "EmbeddingLookup" => Accept(m, node) = VisitEmbeddingLookup(m, node.param)
         /\ node.kind = "RNN" => Accept(m, node) = VisitRNN(m, node.param)
         /\ node.kind = "LSTM" => Accept(m, node) = VisitLSTM(m, node.param)
         /\ node.kind = "RSQRT" => Accept(m, node) = VisitRSQRT(m, node.param)
         /\ node.kind = "HashtableLookup" => Accept(m, node) = VisitHashtableLookup(m, node.param)
         /\ node.kind = "Concat" => Accept(m, node) = VisitConcat(m, node.param, node.list)
         /\ node.kind = "Split" => Accept(m, node) = VisitSplit(m, node.param, node.list)
BY ZenonT(60) DEF Accept, ArithmeticKinds, WindowKinds, MapKinds,
                  VisitArithmetic, VisitWindow, VisitMap, VisitOther

\* A visit that comes to its end asks for the tensors of shapes and adds one
\* stage, which looks up none but those.
OneStage(v, shapes) ==
  /\ v.shapes = shapes /\ v.views = <<>>
  /\ v.stages = <<v.stages[1]>>
  /\ v.stages[1].lookups \subseteq shapes
  /\ IsSeq(v.stages[1].steps)

\* The visits of the element-wise operations on two operands.
LEMMA ArithmeticVisits ==
  ASSUME NEW m, NEW p
  PROVE  /\ OneStage(VisitAdd(m, p), {p.ofm, p.lhs, p.rhs})
         /\ OneStage(VisitSub(m, p), {p.ofm, p.lhs, p.rhs})
         /\ OneStage(VisitMul(m, p), {p.ofm, p.lhs, p.rhs})
         /\ OneStage(VisitDiv(m, p), {p.ofm, p.lhs, p.rhs})
         /\ OneStage(VisitSquaredDifference(m, p), {p.ofm, p.lhs, p.rhs})
<1> USE OneStep DEF OneStage, Plain, FusedStage, Stage, Nothing, Step, Arithmetic
<1>1. OneStage(VisitAdd(m, p), {p.ofm, p.lhs, p.rhs})
  BY DEF VisitAdd
<1>2. OneStage(VisitSub(m, p), {p.ofm, p.lhs, p.rhs})
  BY DEF VisitSub
<1>3. OneStage(VisitMul(m, p), {p.ofm, p.lhs, p.rhs})
  BY DEF VisitMul
<1>4. OneStage(VisitDiv(m, p), {p.ofm, p.lhs, p.rhs})
  BY DEF VisitDiv
<1>5. OneStage(VisitSquaredDifference(m, p), {p.ofm, p.lhs, p.rhs})
  BY DEF VisitSquaredDifference
<1> QED
  BY <1>1, <1>2, <1>3, <1>4, <1>5

\* The visits of the convolutions.
LEMMA ConvolutionVisits ==
  ASSUME NEW m, NEW p
  PROVE  /\ OneStage(VisitConv2DImplicit(m, p), {p.ofm, p.ifm, p.ker, p.bias})
         /\ OneStage(VisitConv2DExplicit(m, p), {p.ofm, p.ifm, p.ker, p.bias})
         /\ OneStage(VisitDepthwiseConv2DImplicit(m, p), {p.ofm, p.ifm, p.ker, p.bias})
         /\ OneStage(VisitDepthwiseConv2DExplicit(m, p), {p.ofm, p.ifm, p.ker, p.bias})
<1> USE OneStep DEF OneStage, Plain, FusedStage, Stage, Nothing, Step, Convolution
<1>1. OneStage(VisitConv2DImplicit(m, p), {p.ofm, p.ifm, p.ker, p.bias})
  BY DEF VisitConv2DImplicit
<1>2. OneStage(VisitConv2DExplicit(m, p), {p.ofm, p.ifm, p.ker, p.bias})
  BY DEF VisitConv2DExplicit
<1>3. OneStage(VisitDepthwiseConv2DImplicit(m, p), {p.ofm, p.ifm, p.ker, p.bias})
  BY DEF VisitDepthwiseConv2DImplicit
<1>4. OneStage(VisitDepthwiseConv2DExplicit(m, p), {p.ofm, p.ifm, p.ker, p.bias})
  BY DEF VisitDepthwiseConv2DExplicit
<1> QED
  BY <1>1, <1>2, <1>3, <1>4

\* The visits of the pooling operations.
LEMMA PoolVisits ==
  ASSUME NEW m, NEW p
  PROVE  /\ OneStage(VisitMaxPool2DImplicit(m, p), {p.ofm, p.ifm})
         /\ OneStage(VisitMaxPool2DExplicit(m, p), {p.ofm, p.ifm})
         /\ OneStage(VisitAvgPool2DImplicit(m, p), {p.ofm, p.ifm})
         /\ OneStage(VisitAvgPool2DExplicit(m, p), {p.ofm, p.ifm})
         /\ OneStage(VisitL2Pool2DImplicit(m, p), {p.ofm, p.ifm})
         /\ OneStage(VisitL2Pool2DExplicit(m, p), {p.ofm, p.ifm})
<1> USE OneStep DEF OneStage, Plain, FusedStage, Stage, Nothing, Step, Pool, ImplicitPool,
               ExplicitPool
<1>1. OneStage(VisitMaxPool2DImplicit(m, p), {p.ofm, p.ifm})
  BY DEF VisitMaxPool2DImplicit
<1>2. OneStage(VisitMaxPool2DExplicit(m, p), {p.ofm, p.ifm})
  BY DEF VisitMaxPool2DExplicit
<1>3. OneStage(VisitAvgPool2DImplicit(m, p), {p.ofm, p.ifm})
  BY DEF VisitAvgPool2DImplicit
<1>4. OneStage(VisitAvgPool2DExplicit(m, p), {p.ofm, p.ifm})
  BY DEF VisitAvgPool2DExplicit
<1>5. OneStage(VisitL2Pool2DImplicit(m, p), {p.ofm, p.ifm})
  BY DEF VisitL2Pool2DImplicit
<1>6. OneStage(VisitL2Pool2DExplicit(m, p), {p.ofm, p.ifm})
  BY DEF VisitL2Pool2DExplicit
<1> QED
  BY <1>1, <1>2, <1>3, <1>4, <1>5, <1>6

\* The visits of the operations from one operand to one of its shape, and of
\* those that plan alike.
LEMMA MapVisits ==
  ASSUME NEW m, NEW p
  PROVE  /\ OneStage(VisitReLU(m, p), {p.ofm, p.ifm})
         /\ OneStage(VisitReLU1(m, p), {p.ofm, p.ifm})
         /\ OneStage(VisitReLU6(m, p), {p.ofm, p.ifm})
         /\ OneStage(VisitTanh(m, p), {p.ofm, p.ifm})
         /\ OneStage(VisitFloor(m, p), {p.ofm, p.ifm})
         /\ OneStage(VisitReshape(m, p), {p.ofm, p.ifm})
         /\ OneStage(VisitSqueeze(m, p), {p.ofm, p.ifm})
         /\ OneStage(VisitLogistic(m, p), {p.ofm, p.ifm})
         /\ OneStage(VisitTranspose(m, p), {p.ofm, p.ifm})
         /\ OneStage(VisitCast(m, p), {p.ofm, p.ifm})
         /\ OneStage(VisitDequantize(m, p), {p.ofm, p.ifm})
         /\ OneStage(VisitSoftmax(m, p), {p.ofm, p.ifm})
         /\ OneStage(VisitResizeBilinear(m, p), {p.ofm, p.ifm})
         /\ OneStage(VisitSpaceToDepth(m, p), {p.ofm, p.ifm})
         /\ OneStage(VisitL2Normalization(m, p), {p.ofm, p.ifm})
         /\ OneStage(VisitReduceMax(m, p), {p.ofm, p.ifm})
<1> USE OneStep DEF OneStage, Plain, Stage, Nothing, Step, Map
<1>1. OneStage(VisitReLU(m, p), {p.ofm, p.ifm})
  BY DEF VisitReLU
<1>2. OneStage(VisitReLU1(m, p), {p.ofm, p.ifm})
  BY DEF VisitReLU1
<1>3. OneStage(VisitReLU6(m, p), {p.ofm, p.ifm})
  BY DEF VisitReLU6
<1>4. OneStage(VisitTanh(m, p), {p.ofm, p.ifm})
  BY DEF VisitTanh
<1>5. OneStage(VisitFloor(m, p), {p.ofm, p.ifm})
  BY DEF VisitFloor
<1>6. OneStage(VisitReshape(m, p), {p.ofm, p.ifm})
  BY DEF VisitReshape
<1>7. OneStage(VisitSqueeze(m, p), {p.ofm, p.ifm})
  BY DEF VisitSqueeze
<1>8. OneStage(VisitLogistic(m, p), {p.ofm, p.ifm})
  BY DEF VisitLogistic
<1>9. OneStage(VisitTranspose(m, p), {p.ofm, p.ifm})
  BY DEF VisitTranspose
<1>10. OneStage(VisitCast(m, p), {p.ofm, p.ifm})
  BY DEF VisitCast
<1>11. OneStage(VisitDequantize(m, p), {p.ofm, p.ifm})
  BY DEF VisitDequantize
<1>12. OneStage(VisitSoftmax(m, p), {p.ofm, p.ifm})
  BY DEF VisitSoftmax
<1>13. OneStage(VisitResizeBilinear(m, p), {p.ofm, p.ifm})
  BY DEF VisitResizeBilinear
<1>14. OneStage(VisitSpaceToDepth(m, p), {p.ofm, p.ifm})
  BY DEF VisitSpaceToDepth
<1>15. OneStage(VisitL2Normalization(m, p), {p.ofm, p.ifm})
  BY DEF VisitL2Normalization
<1>16. OneStage(VisitReduceMax(m, p), {p.ofm, p.ifm})
  BY DEF VisitReduceMax
<1> QED
  BY <1>1, <1>2, <1>3, <1>4, <1>5, <1>6, <1>7, <1>8, <1>9, <1>10, <1>11, <1>12, <1>13, <1>14,
     <1>15, <1>16

\* The visit of a Pad.
LEMMA PadVisit ==
  ASSUME NEW m, NEW p
  PROVE  OneStage(VisitPad(m, p), {p.ofm, p.ifm, p.paddings})
BY OneStep DEF OneStage, Plain, FusedStage, Stage, Nothing, Step, Map, VisitPad

\* The visit of a Mean.
LEMMA MeanVisit ==
  ASSUME NEW m, NEW p
  PROVE  OneStage(VisitMean(m, p), {p.ofm, p.ifm, p.axis})
BY OneStep DEF OneStage, Plain, FusedStage, Stage, Nothing, Step, Map, VisitMean

\* The visit of a FullyConnected.
LEMMA FullyConnectedVisit ==
  ASSUME NEW m, NEW p
  PROVE  OneStage(VisitFullyConnected(m, p), {p.input, p.output, p.weight, p.bias})
BY OneStep DEF OneStage, Plain, FusedStage, Stage, Nothing, Step, VisitFullyConnected

\* The visit of a StridedSlice.
LEMMA StridedSliceVisit ==
  ASSUME NEW m, NEW p
  PROVE  OneStage(VisitStridedSlice(m, p), {p.outputData, p.inputData, p.startData, p.endData,
           p.stridesData})
BY OneStep DEF OneStage, Plain, FusedStage, Stage, Nothing, Step, VisitStridedSlice

\* The visit of a TopKV2, which has two results.
LEMMA TopKV2Visit ==
  ASSUME NEW m, NEW p
  PROVE  OneStage(VisitTopKV2(m, p), {p.outputValues, p.outputIndices, p.inputData})
BY OneStep DEF OneStage, Plain, FusedStage, Stage, Nothing, Step, VisitTopKV2

\* The visit of a Gather.
LEMMA GatherVisit ==
  ASSUME NEW m, NEW p
  PROVE  OneStage(VisitGather(m, p), {p.ofm, p.lhs, p.rhs})
BY OneStep DEF OneStage, Plain, FusedStage, Stage, Nothing, Step, VisitGather

\* The visit of an EmbeddingLookup.
LEMMA EmbeddingLookupVisit ==
  ASSUME NEW m, NEW p
  PROVE  OneStage(VisitEmbeddingLookup(m, p), {p.output, p.lookups, p.values})
BY OneStep DEF OneStage, Plain, FusedStage, Stage, Nothing, Step, VisitEmbeddingLookup

\* The visit of an RNN, which has two results.
LEMMA RNNVisit ==
  ASSUME NEW m, NEW p
  PROVE  OneStage(VisitRNN(m, p), {p.output, p.hidden_state_out, p.input, p.weights,
           p.recurrent_weights, p.hidden_state_in, p.bias})
BY OneStep, Tuples DEF OneStage, Plain, FusedStage, Stage, Nothing, Step, VisitRNN

-----------------------------------------------------------------------------
Nodes == {NodeOf(c) : c \in OperationCall} \ {NoNode}

Viewed(v) == {v.views[i].of : i \in DOMAIN v.views}

\* What finish relies on in the visit of a node: it asks for operands of the
\* node only, it asks for all its results or places them in a view, and it adds
\* one stage, or none for a Split, that looks up nothing else.
Sound(node, v) ==
  /\ v.shapes \cup Viewed(v) \subseteq OperandsOf(node)
  /\ node.outs \subseteq v.shapes \cup Viewed(v)
  /\ IsSeq(v.stages)
  /\ Len(v.stages) = IF node.kind = "Split" THEN 0 ELSE 1
  /\ \A i \in DOMAIN v.stages : /\ v.stages[i].lookups \subseteq v.shapes
                                /\ IsSeq(v.stages[i].steps)

\* A visit of one stage is sound when it asks for operands of the node, all the
\* results among them.
LEMMA OneStageIsSound ==
  ASSUME NEW c \in OperationCall, NEW node, NEW roles, FixedRoles(roles), NEW kind,
         node = Assigned(kind, roles, c), node # NoNode, kind # "Split",
         NEW R \in SUBSET (ToSet(roles.inputs) \cup ToSet(roles.outputs)),
         ToSet(roles.outputs) \subseteq R,
         NEW v, OneStage(v, {node.param[r] : r \in R})
  PROVE  Sound(node, v)
<1>1. /\ node.kind = kind
      /\ R \subseteq DOMAIN node.param
      /\ node.outs \subseteq {node.param[r] : r \in R}
  BY AssignedRoles
<1>2. v.shapes \subseteq OperandsOf(node) /\ node.outs \subseteq v.shapes
  BY <1>1 DEF OperandsOf, OneStage
<1>3. IsSeq(v.stages) /\ Len(v.stages) = 1 /\ DOMAIN v.stages = 1 .. 1
  BY OneStep, SeqFacts DEF OneStage
<1> QED
  BY <1>1, <1>2, <1>3 DEF Sound, OneStage, Viewed

\* So the element-wise operations are planned soundly.
LEMMA ArithmeticIsSound ==
  ASSUME NEW m, NEW c \in OperationCall, NEW node, node = NodeOf(c), node # NoNode,
         node.kind \in ArithmeticKinds
  PROVE  Sound(node, Accept(m, node))
<1> DEFINE p == node.param
           R == {"ofm", "lhs", "rhs"}
<1>1. node = Assigned(node.kind, Binary, c) /\ node.kind # "Split"
  <2>1. KindOf(c) = node.kind
    BY NodeKind
  <2> QED
    BY <2>1, NodeForms DEF ArithmeticKinds, AddNode, SubNode, MulNode, DivNode,
         SquaredDifferenceNode, AddParam, SubParam, MulParam, DivParam, SquaredDifferenceParam
<1>2. /\ FixedRoles(Binary) /\ ToSet(Binary.outputs) = {"ofm"}
      /\ ToSet(Binary.inputs) = {"lhs", "rhs", "activation"}
  BY OneResult, Tuples DEF Binary
<1>3. OneStage(Accept(m, node), {p.ofm, p.lhs, p.rhs})
  BY AcceptForms, ArithmeticVisits DEF ArithmeticKinds
<1>4. {p.ofm, p.lhs, p.rhs} = {p[r] : r \in R}
  OBVIOUS
<1>5. R \in SUBSET (ToSet(Binary.inputs) \cup ToSet(Binary.outputs))
      /\ ToSet(Binary.outputs) \subseteq R
  BY <1>2
<1> HIDE DEF R
<1> QED
  BY <1>1, <1>2, <1>3, <1>4, <1>5, OneStageIsSound

\* So the convolutions are.
LEMMA ConvolutionIsSound ==
  ASSUME NEW m, NEW c \in OperationCall, NEW node, node = NodeOf(c), node # NoNode,
         node.kind \in {"Conv2DImplicit", "Conv2DExplicit", "DepthwiseConv2DImplicit",
                        "DepthwiseConv2DExplicit"}
  PROVE  Sound(node, Accept(m, node))
<1> DEFINE p == node.param
           R == {"ofm", "ifm", "ker", "bias"}
           first == <<"ifm", "ker", "bias">>
<1>1. PICK roles : /\ node = Assigned(node.kind, roles, c)
                   /\ roles \in {Conv2DImplicitParam, Conv2DExplicitParam,
                                 DepthwiseConv2DImplicitParam, DepthwiseConv2DExplicitParam}
  <2>1. KindOf(c) = node.kind
    BY NodeKind
  <2> QED
    BY <2>1, NodeForms DEF Conv2DImplicitNode, Conv2DExplicitNode,
         DepthwiseConv2DImplicitNode, DepthwiseConv2DExplicitNode
<1>2. PICK between \in {Implicit, Explicit},
           rest \in {<<"activation">>, <<"multipler", "activation">>} :
        roles = Roles(first \o between \o rest, <<"ofm">>)
  BY <1>1 DEF Conv2DImplicitParam, Conv2DExplicitParam, DepthwiseConv2DImplicitParam,
              DepthwiseConv2DExplicitParam
<1>3. /\ IsSeq(first) /\ ToSet(first) = {"ifm", "ker", "bias"}
      /\ IsSeq(between) /\ "ofm" \notin ToSet(between)
      /\ IsSeq(rest) /\ ToSet(rest) \subseteq {"multipler", "activation"}
  BY Tuples, ImplicitRoles, ExplicitRoles
<1> HIDE DEF first
<1>4. /\ FixedRoles(roles) /\ ToSet(roles.outputs) = {"ofm"}
      /\ ToSet(first) \subseteq ToSet(roles.inputs)
  BY <1>2, <1>3, WindowRoles
<1>5. OneStage(Accept(m, node), {p.ofm, p.ifm, p.ker, p.bias})
  BY AcceptForms, ConvolutionVisits
<1>6. {p.ofm, p.ifm, p.ker, p.bias} = {p[r] : r \in R}
  OBVIOUS
<1>7. R \in SUBSET (ToSet(roles.inputs) \cup ToSet(roles.outputs))
      /\ ToSet(roles.outputs) \subseteq R /\ node.kind # "Split"
  BY <1>3, <1>4
<1>8. OneStage(Accept(m, node), {node.param[r] : r \in R})
  BY <1>5, <1>6
<1> HIDE DEF R, p
<1> QED
  BY <1>1, <1>4, <1>7, <1>8, OneStageIsSound

\* So the pooling operations are.
LEMMA PoolIsSound ==
  ASSUME NEW m, NEW c \in OperationCall, NEW node, node = NodeOf(c), node # NoNode,
         node.kind \in {"MaxPool2DImplicit", "MaxPool2DExplicit", "AvgPool2DImplicit",
                        "AvgPool2DExplicit", "L2Pool2DImplicit", "L2Pool2DExplicit"}
  PROVE  Sound(node, Accept(m, node))
<1> DEFINE p == node.param
           R == {"ofm", "ifm"}
           rest == <<"kw", "kh", "activation">>
<1>1. PICK roles : /\ node = Assigned(node.kind, roles, c)
                   /\ roles \in {MaxPool2DImplicitParam, MaxPool2DExplicitParam,
                                 AvgPool2DImplicitParam, AvgPool2DExplicitParam,
                                 L2Pool2DImplicitParam, L2Pool2DExplicitParam}
  <2>1. KindOf(c) = node.kind
    BY NodeKind
  <2> QED
    BY <2>1, NodeForms DEF MaxPool2DImplicitNode, MaxPool2DExplicitNode,
         AvgPool2DImplicitNode, AvgPool2DExplicitNode, L2Pool2DImplicitNode,
         L2Pool2DExplicitNode
<1>2. PICK between \in {Implicit, Explicit} :
        roles = Roles(<<"ifm">> \o between \o rest, <<"ofm">>)
  BY <1>1 DEF MaxPool2DImplicitParam, MaxPool2DExplicitParam, AvgPool2DImplicitParam,
              AvgPool2DExplicitParam, L2Pool2DImplicitParam, L2Pool2DExplicitParam
<1> DEFINE first == <<"ifm">>
<1>3. /\ IsSeq(first) /\ ToSet(first) = {"ifm"}
      /\ IsSeq(between) /\ "ofm" \notin ToSet(between)
      /\ IsSeq(rest) /\ ToSet(rest) = {"kw", "kh", "activation"}
  BY Tuples, ImplicitRoles, ExplicitRoles
<1>4. roles = Roles(first \o between \o rest, <<"ofm">>)
  BY <1>2
<1> HIDE DEF first, rest
<1>5. /\ FixedRoles(roles) /\ ToSet(roles.outputs) = {"ofm"} /\ "ifm" \in ToSet(roles.inputs)
  BY <1>3, <1>4, WindowRoles
<1>6. OneStage(Accept(m, node), {p.ofm, p.ifm})
  BY AcceptForms, PoolVisits
<1>7. {p.ofm, p.ifm} = {p[r] : r \in R}
  OBVIOUS
<1>8. R \in SUBSET (ToSet(roles.inputs) \cup ToSet(roles.outputs))
      /\ ToSet(roles.outputs) \subseteq R /\ node.kind # "Split"
  BY <1>5
<1> HIDE DEF R
<1> QED
  BY <1>1, <1>5, <1>6, <1>7, <1>8, OneStageIsSound

\* The other kinds, each by its roles.
LEMMA SimpleIsSound ==
  ASSUME NEW m, NEW c \in OperationCall, NEW node, node = NodeOf(c), node # NoNode,
         NEW ins, IsSeq(ins), NEW ofm, ofm \notin ToSet(ins),
         node = Assigned(node.kind, Roles(ins, <<ofm>>), c), node.kind # "Split",
         NEW R, ofm \in R, R \subseteq ToSet(ins) \cup {ofm},
         OneStage(Accept(m, node), {node.param[r] : r \in R})
  PROVE  Sound(node, Accept(m, node))
<1> DEFINE roles == Roles(ins, <<ofm>>)
<1>1. /\ FixedRoles(roles) /\ ToSet(roles.inputs) = ToSet(ins) /\ ToSet(roles.outputs) = {ofm}
  BY OneResult
<1> HIDE DEF roles
<1>2. R \in SUBSET (ToSet(roles.inputs) \cup ToSet(roles.outputs))
      /\ ToSet(roles.outputs) \subseteq R
  BY <1>1
<1> QED
  BY <1>1, <1>2, OneStageIsSound DEF roles

\* So the operations from one operand to one of its shape are.
LEMMA MapIsSound ==
  ASSUME NEW m, NEW c \in OperationCall, NEW node, node = NodeOf(c), node # NoNode,
         node.kind \in MapKinds \ {"Squeeze"}
  PROVE  Sound(node, Accept(m, node))
<1> DEFINE p == node.param
<1>1. KindOf(c) = node.kind
  BY NodeKind
<1>2. CASE node.kind = "Pad"
  <2> DEFINE ins == <<"ifm", "paddings">>
             R == {"ofm", "ifm", "paddings"}
  <2>1. node = Assigned(node.kind, Roles(ins, <<"ofm">>), c)
    BY <1>1, <1>2, NodeForms DEF PadNode, PadParam
  <2>2. OneStage(Accept(m, node), {p.ofm, p.ifm, p.paddings})
    <3>1. Accept(m, node) = VisitPad(m, p)
      BY <1>2, AcceptForms
    <3> QED
      BY <3>1, PadVisit
  <2>3. {p.ofm, p.ifm, p.paddings} = {p[r] : r \in R}
    OBVIOUS
  <2>4. IsSeq(ins) /\ ToSet(ins) = {"ifm", "paddings"}
    BY Tuples
  <2>5. "ofm" \in R /\ R \subseteq ToSet(ins) \cup {"ofm"} /\ "ofm" \notin ToSet(ins)
    BY <2>4
  <2> HIDE DEF ins, R
  <2>6. IsSeq(ins) /\ node.kind # "Split"
    BY <1>2, <2>4
  <2>7. OneStage(Accept(m, node), {node.param[r] : r \in R})
    BY <2>2, <2>3
  <2> HIDE DEF p
  <2> QED
    BY <2>1, <2>5, <2>6, <2>7, SimpleIsSound
<1>3. CASE node.kind = "Mean"
  <2> DEFINE ins == <<"ifm", "axis", "keep_dims">>
             R == {"ofm", "ifm", "axis"}
  <2>1. node = Assigned(node.kind, Roles(ins, <<"ofm">>), c)
    BY <1>1, <1>3, NodeForms DEF MeanNode, MeanParam
  <2>2. OneStage(Accept(m, node), {p.ofm, p.ifm, p.axis})
    <3>1. Accept(m, node) = VisitMean(m, p)
      BY <1>3, AcceptForms
    <3> QED
      BY <3>1, MeanVisit
  <2>3. {p.ofm, p.ifm, p.axis} = {p[r] : r \in R}
    OBVIOUS
  <2>4. IsSeq(ins) /\ ToSet(ins) = {"ifm", "axis", "keep_dims"}
    BY Tuples
  <2>5. "ofm" \in R /\ R \subseteq ToSet(ins) \cup {"ofm"} /\ "ofm" \notin ToSet(ins)
    BY <2>4
  <2> HIDE DEF ins, R
  <2>6. IsSeq(ins) /\ node.kind # "Split"
    BY <1>3, <2>4
  <2>7. OneStage(Accept(m, node), {node.param[r] : r \in R})
    BY <2>2, <2>3
  <2> HIDE DEF p
  <2> QED
    BY <2>1, <2>5, <2>6, <2>7, SimpleIsSound
<1>4. CASE node.kind \notin {"Pad", "Mean"}
  <2>1. PICK ins \in {<<"ifm">>, <<"ifm", "axis">>, <<"ifm", "shape">>, <<"ifm", "scale">>,
                      <<"ifm", "height", "width">>, <<"ifm", "block_size">>, <<"ifm", "permu">>} :
          node = Assigned(node.kind, Roles(ins, <<"ofm">>), c)
    BY <1>1, <1>4, NodeForms DEF MapKinds, Unary, CastNode, CastParam, DequantizeNode,
         DequantizeParam, FloorNode, FloorParam, L2NormalizationNode, L2NormalizationParam,
         LogisticNode, LogisticParam, ReLUNode, ReLUParam, ReLU1Node, ReLU1Param, ReLU6Node,
         ReLU6Param, TanhNode, TanhParam, ReduceMaxNode, ReduceMaxParam, ReshapeNode,
         ReshapeParam, ResizeBilinearNode, ResizeBilinearParam, SoftmaxNode, SoftmaxParam,
         SpaceToDepthNode, SpaceToDepthParam, TransposeNode, TransposeParam
  <2> DEFINE R == {"ofm", "ifm"}
  <2>2. IsSeq(ins) /\ "ifm" \in ToSet(ins) /\ "ofm" \notin ToSet(ins)
    BY Tuples
  <2>3. OneStage(Accept(m, node), {p.ofm, p.ifm})
    BY <1>4, AcceptForms, MapVisits DEF MapKinds
  <2>4. {p.ofm, p.ifm} = {p[r] : r \in R} /\ node.kind # "Split"
    BY DEF MapKinds
  <2>5. "ofm" \in R /\ R \subseteq ToSet(ins) \cup {"ofm"}
    BY <2>2
  <2> HIDE DEF R
  <2> QED
    BY <2>1, <2>2, <2>3, <2>4, <2>5, SimpleIsSound
<1> QED
  BY <1>2, <1>3, <1>4

\* So are the operations with a visit of their own.
LEMMA OtherIsSound ==
  ASSUME NEW m, NEW c \in OperationCall, NEW node, node = NodeOf(c), node # NoNode,
         node.kind \in {"FullyConnected", "StridedSlice", "TopKV2", "Gather",
                        "EmbeddingLookup", "RNN"}
  PROVE  Sound(node, Accept(m, node))
<1> DEFINE p == node.param
<1>1. KindOf(c) = node.kind
  BY NodeKind
<1>2. CASE node.kind = "FullyConnected"
  <2> DEFINE ins == <<"input", "weight", "bias", "activation">>
             R == {"input", "output", "weight", "bias"}
  <2>1. node = Assigned(node.kind, Roles(ins, <<"output">>), c)
    BY <1>1, <1>2, NodeForms DEF FullyConnectedNode, FullyConnectedParam
  <2>2. OneStage(Accept(m, node), {p.input, p.output, p.weight, p.bias})
    <3>1. Accept(m, node) = VisitFullyConnected(m, p)
      BY <1>2, AcceptForms
    <3> QED
      BY <3>1, FullyConnectedVisit
  <2>3. {p.input, p.output, p.weight, p.bias} = {p[r] : r \in R}
    OBVIOUS
  <2>4. IsSeq(ins) /\ ToSet(ins) = {"input", "weight", "bias", "activation"}
    BY Tuples
  <2>5. "output" \in R /\ R \subseteq ToSet(ins) \cup {"output"} /\ "output" \notin ToSet(ins)
    BY <2>4
  <2> HIDE DEF ins, R
  <2>6. IsSeq(ins) /\ node.kind # "Split"
    BY <1>2, <2>4
  <2>7. OneStage(Accept(m, node), {node.param[r] : r \in R})
    BY <2>2, <2>3
  <2> HIDE DEF p
  <2> QED
    BY <2>1, <2>5, <2>6, <2>7, SimpleIsSound
<1>3. CASE node.kind = "StridedSlice"
  <2> DEFINE ins == <<"inputData", "startData", "endData", "stridesData", "beginMask", "endMask",
                     "shrinkAxisMask">>
             R == {"outputData", "inputData", "startData", "endData", "stridesData"}
  <2>1. node = Assigned(node.kind, Roles(ins, <<"outputData">>), c)
    BY <1>1, <1>3, NodeForms DEF StridedSliceNode, StridedSliceParam
  <2>2. OneStage(Accept(m, node), {p.outputData, p.inputData, p.startData, p.endData,
                                  p.stridesData})
    <3>1. Accept(m, node) = VisitStridedSlice(m, p)
      BY <1>3, AcceptForms
    <3> QED
      BY <3>1, StridedSliceVisit
  <2>3. {p.outputData, p.inputData, p.startData, p.endData, p.stridesData} = {p[r] : r \in R}
    OBVIOUS
  <2>4. IsSeq(ins) /\ ToSet(ins) = {"inputData", "startData", "endData", "stridesData",
                                    "beginMask", "endMask", "shrinkAxisMask"}
    BY LongTuples
  <2>5. "outputData" \in R /\ R \subseteq ToSet(ins) \cup {"outputData"}
        /\ "outputData" \notin ToSet(ins)
    BY <2>4
  <2> HIDE DEF ins, R
  <2>6. IsSeq(ins) /\ node.kind # "Split"
    BY <1>3, <2>4
  <2>7. OneStage(Accept(m, node), {node.param[r] : r \in R})
    BY <2>2, <2>3
  <2> HIDE DEF p
  <2> QED
    BY <2>1, <2>5, <2>6, <2>7, SimpleIsSound
<1>4. CASE node.kind = "TopKV2"
  <2> DEFINE ins == <<"inputData", "k">>
             R == {"outputValues", "outputIndices", "inputData"}
             roles == Roles(ins, <<"outputValues", "outputIndices">>)
  <2>1. node = Assigned(node.kind, roles, c)
    BY <1>1, <1>4, NodeForms DEF TopKV2Node, TopKV2Param
  <2>2. OneStage(Accept(m, node), {p.outputValues, p.outputIndices, p.inputData})
    <3>1. Accept(m, node) = VisitTopKV2(m, p)
      BY <1>4, AcceptForms
    <3> QED
      BY <3>1, TopKV2Visit
  <2>3. {p.outputValues, p.outputIndices, p.inputData} = {p[r] : r \in R}
    OBVIOUS
  <2>4. IsSeq(ins) /\ ToSet(ins) = {"inputData", "k"}
    BY Tuples
  <2> HIDE DEF ins
  <2>5. /\ FixedRoles(roles) /\ ToSet(roles.outputs) = {"outputValues", "outputIndices"}
        /\ ToSet(roles.inputs) = ToSet(ins)
    BY <2>4, Tuples, TwoResults
  <2> HIDE DEF roles
  <2>6. R \in SUBSET (ToSet(roles.inputs) \cup ToSet(roles.outputs))
        /\ ToSet(roles.outputs) \subseteq R
    BY <2>4, <2>5
  <2>7. OneStage(Accept(m, node), {node.param[r] : r \in R}) /\ node.kind # "Split"
    BY <1>4, <2>2, <2>3
  <2> HIDE DEF R, p
  <2> QED
    BY <2>1, <2>5, <2>6, <2>7, OneStageIsSound
<1>5. CASE node.kind = "Gather"
  <2> DEFINE ins == <<"lhs", "rhs", "axis">>
             R == {"ofm", "lhs", "rhs"}
  <2>1. node = Assigned(node.kind, Roles(ins, <<"ofm">>), c)
    BY <1>1, <1>5, NodeForms DEF GatherNode, GatherParam
  <2>2. OneStage(Accept(m, node), {p.ofm, p.lhs, p.rhs})
    <3>1. Accept(m, node) = VisitGather(m, p)
      BY <1>5, AcceptForms
    <3> QED
      BY <3>1, GatherVisit
  <2>3. {p.ofm, p.lhs, p.rhs} = {p[r] : r \in R}
    OBVIOUS
  <2>4. IsSeq(ins) /\ ToSet(ins) = {"lhs", "rhs", "axis"}
    BY Tuples
  <2>5. "ofm" \in R /\ R \subseteq ToSet(ins) \cup {"ofm"} /\ "ofm" \notin ToSet(ins)
    BY <2>4
  <2> HIDE DEF ins, R
  <2>6. IsSeq(ins) /\ node.kind # "Split"
    BY <1>5, <2>4
  <2>7. OneStage(Accept(m, node), {node.param[r] : r \in R})
    BY <2>2, <2>3
  <2> HIDE DEF p
  <2> QED
    BY <2>1, <2>5, <2>6, <2>7, SimpleIsSound
<1>6. CASE node.kind = "EmbeddingLookup"
  <2> DEFINE ins == <<"lookups", "values">>
             R == {"output", "lookups", "values"}
  <2>1. node = Assigned(node.kind, Roles(ins, <<"output">>), c)
    BY <1>1, <1>6, NodeForms DEF EmbeddingLookupNode, EmbeddingLookupParam
  <2>2. OneStage(Accept(m, node), {p.output, p.lookups, p.values})
    <3>1. Accept(m, node) = VisitEmbeddingLookup(m, p)
      BY <1>6, AcceptForms
    <3> QED
      BY <3>1, EmbeddingLookupVisit
  <2>3. {p.output, p.lookups, p.values} = {p[r] : r \in R}
    OBVIOUS
  <2>4. IsSeq(ins) /\ ToSet(ins) = {"lookups", "values"}
    BY Tuples
  <2>5. "output" \in R /\ R \subseteq ToSet(ins) \cup {"output"} /\ "output" \notin ToSet(ins)
    BY <2>4
  <2> HIDE DEF ins, R
  <2>6. IsSeq(ins) /\ node.kind # "Split"
    BY <1>6, <2>4
  <2>7. OneStage(Accept(m, node), {node.param[r] : r \in R})
    BY <2>2, <2>3
  <2> HIDE DEF p
  <2> QED
    BY <2>1, <2>5, <2>6, <2>7, SimpleIsSound
<1>7. CASE node.kind = "RNN"
  <2> DEFINE ins == <<"input", "weights", "recurrent_weights", "bias", "hidden_state_in",
                     "fused_activation">>
             R == {"output", "hidden_state_out", "input", "weights", "recurrent_weights",
                  "hidden_state_in", "bias"}
             roles == Roles(ins, <<"output", "hidden_state_out">>)
  <2>1. node = Assigned(node.kind, roles, c)
    BY <1>1, <1>7, NodeForms DEF RNNNode, RNNParam
  <2>2. OneStage(Accept(m, node), {p.output, p.hidden_state_out, p.input, p.weights,
                                  p.recurrent_weights, p.hidden_state_in, p.bias})
    <3>1. Accept(m, node) = VisitRNN(m, p)
      BY <1>7, AcceptForms
    <3> QED
      BY <3>1, RNNVisit
  <2>3. {p.output, p.hidden_state_out, p.input, p.weights, p.recurrent_weights,
         p.hidden_state_in, p.bias} = {p[r] : r \in R}
    OBVIOUS
  <2>4. IsSeq(ins) /\ ToSet(ins) = {"input", "weights", "recurrent_weights", "bias",
                                    "hidden_state_in", "fused_activation"}
    BY LongTuples
  <2> HIDE DEF ins
  <2>5. /\ FixedRoles(roles) /\ ToSet(roles.outputs) = {"output", "hidden_state_out"}
        /\ ToSet(roles.inputs) = ToSet(ins)
    BY <2>4, Tuples, TwoResults
  <2> HIDE DEF roles
  <2>6. R \in SUBSET (ToSet(roles.inputs) \cup ToSet(roles.outputs))
        /\ ToSet(roles.outputs) \subseteq R
    BY <2>4, <2>5
  <2>7. OneStage(Accept(m, node), {node.param[r] : r \in R}) /\ node.kind # "Split"
    BY <1>7, <2>2, <2>3
  <2> HIDE DEF R, p
  <2> QED
    BY <2>1, <2>5, <2>6, <2>7, OneStageIsSound
<1> QED
  BY <1>2, <1>3, <1>4, <1>5, <1>6, <1>7

\* So is a Squeeze, whose node is made of any list of inputs.
LEMMA SqueezeIsSound ==
  ASSUME NEW m, NEW c \in OperationCall, NEW node, node = NodeOf(c), node # NoNode,
         node.kind = "Squeeze"
  PROVE  Sound(node, Accept(m, node))
<1> DEFINE p == node.param
           v == Accept(m, node)
<1>1. node = SqueezeNode(c)
  <2>1. KindOf(c) = node.kind
    BY NodeKind
  <2> QED
    BY <2>1, NodeForms
<1>2. Len(c.outs) = 1
      /\ node = [kind |-> "Squeeze", outs |-> ToSet(c.outs), list |-> <<>>,
         param |-> SqueezeParam(c)]
  BY <1>1 DEF SqueezeNode
<1>3. node.outs = {c.outs[1]}
  <2>1. DOMAIN c.outs = 1 .. 1
    BY <1>2 DEF OperationCall
  <2> QED
    BY <1>2, <2>1 DEF ToSet
<1>4. {p.ofm, p.ifm} \subseteq OperandsOf(node) /\ node.outs \subseteq {p.ofm, p.ifm}
  BY <1>2, <1>3 DEF OperandsOf, SqueezeParam
<1>5. OneStage(v, {p.ofm, p.ifm})
  BY AcceptForms, MapVisits
<1>6. IsSeq(v.stages) /\ Len(v.stages) = 1 /\ DOMAIN v.stages = 1 .. 1
  BY <1>5, OneStep, SeqFacts DEF OneStage
<1> QED
  BY <1>4, <1>5, <1>6 DEF Sound, OneStage, Viewed

\* A Concat places its parts in views of its result and has one stage, which
\* does nothing.
LEMMA ConcatIsSound ==
  ASSUME NEW m, NEW c \in OperationCall, NEW node, node = NodeOf(c), node # NoNode,
         node.kind = "Concat", Accept(m, node).fits
  PROVE  Sound(node, Accept(m, node))
<1> DEFINE v == Accept(m, node)
           stage == [lookups |-> {}, steps |-> <<>>, on |-> "any", fused |-> 0, ofm |-> 0]
<1>1. node = ConcatNode(c)
  <2>1. KindOf(c) = node.kind
    BY NodeKind
  <2> QED
    BY <2>1, NodeForms
<1>2. Len(c.outs) = 1
      /\ node = [kind |-> "Concat", outs |-> ToSet(c.outs), list |-> Front(c.ins),
                 param |-> ConcatParam(c)]
  BY <1>1 DEF ConcatNode
<1>3. node.outs = {c.outs[1]}
  <2>1. DOMAIN c.outs = 1 .. 1
    BY <1>2 DEF OperationCall
  <2> QED
    BY <1>2, <2>1 DEF ToSet
<1>4. "ofm" \in DOMAIN node.param /\ node.outs = {node.param.ofm}
  BY <1>2, <1>3 DEF ConcatParam
<1>5. v = VisitConcat(m, node.param, node.list)
  BY AcceptForms
<1>6. ~Throws.fits
  BY DEF Throws, Nothing
<1>7. /\ v.shapes = {node.param.ofm} /\ v.stages = <<stage>>
      /\ DOMAIN v.views = DOMAIN node.list
      /\ \A i \in DOMAIN node.list : v.views[i].of = node.list[i]
  <2> DEFINE shape == m[node.param.ofm].shape
             axis == AxisOf(m, node.param.axis, Len(shape))
             depth[n \in 1 .. Len(node.list)] ==
               IF n = 1 THEN 0 ELSE depth[n - 1] + Extent(m, node.list[n - 1], axis)
             views == [n \in DOMAIN node.list |->
                         View(node.list[n], node.param.ofm, Along(shape, axis, depth[n]),
                              m[node.list[n]].shape)]
  <2>1. v = [Nothing EXCEPT !.shapes = {node.param.ofm}, !.views = views, !.stages = <<stage>>]
    BY <1>5, <1>6, Zenon DEF VisitConcat
  <2> HIDE DEF depth
  <2>2. DOMAIN views = DOMAIN node.list /\ \A i \in DOMAIN node.list : views[i].of = node.list[i]
    BY DEF View
  <2> HIDE DEF views, stage, v
  <2> QED
    BY <2>1, <2>2 DEF Nothing
<1>8. Viewed(v) \subseteq ToSet(node.list)
  BY <1>7 DEF Viewed, ToSet
<1>9. v.shapes \cup Viewed(v) \subseteq OperandsOf(node)
  BY <1>4, <1>7, <1>8 DEF OperandsOf
<1>10. IsSeq(<<>>)
  BY DEF IsSeq
<1>11. IsSeq(v.stages) /\ Len(v.stages) = 1 /\ DOMAIN v.stages = 1 .. 1
  BY <1>7, OneStep, SeqFacts
<1>12. v.stages[1].lookups = {} /\ v.stages[1].steps = <<>>
  BY <1>7
<1> QED
  BY <1>4, <1>7, <1>9, <1>10, <1>11, <1>12 DEF Sound

\* A Split places its results in views of its operand and has no stage.
LEMMA SplitIsSound ==
  ASSUME NEW m, NEW c \in OperationCall, NEW node, node = NodeOf(c), node # NoNode,
         node.kind = "Split", Accept(m, node).fits
  PROVE  Sound(node, Accept(m, node))
<1> DEFINE v == Accept(m, node)
<1>1. node = SplitNode(c)
  <2>1. KindOf(c) = node.kind
    BY NodeKind
  <2> QED
    BY <2>1, NodeForms
<1>2. node = [kind |-> "Split", outs |-> ToSet(c.outs), list |-> c.outs,
              param |-> SplitParam(c)]
  BY <1>1 DEF SplitNode
<1>3. "ifm" \in DOMAIN node.param /\ node.outs = ToSet(node.list)
  BY <1>2 DEF SplitParam
<1>4. v = VisitSplit(m, node.param, node.list)
  BY AcceptForms
<1>5. ~Throws.fits
  BY DEF Throws, Nothing
<1>6. /\ v.shapes = {node.param.ifm} /\ v.stages = <<>>
      /\ DOMAIN v.views = DOMAIN node.list
      /\ \A i \in DOMAIN node.list : v.views[i].of = node.list[i]
  <2> DEFINE shape == m[node.param.ifm].shape
             axis == AxisOf(m, node.param.axis, Len(shape))
             slice == shape[axis + 1] \div Len(node.list)
             views == [n \in DOMAIN node.list |->
                         View(node.list[n], node.param.ifm, Along(shape, axis, (n - 1) * slice),
                              m[node.list[n]].shape)]
  <2>1. v = [Nothing EXCEPT !.shapes = {node.param.ifm}, !.views = views]
    BY <1>4, <1>5, Zenon DEF VisitSplit
  <2> HIDE DEF slice
  <2>2. DOMAIN views = DOMAIN node.list /\ \A i \in DOMAIN node.list : views[i].of = node.list[i]
    BY DEF View
  <2> HIDE DEF views, v
  <2> QED
    BY <2>1, <2>2 DEF Nothing
<1>7. Viewed(v) = ToSet(node.list)
  BY <1>6 DEF Viewed, ToSet
<1>8. v.shapes \cup Viewed(v) \subseteq OperandsOf(node) /\ node.outs \subseteq Viewed(v)
  BY <1>3, <1>6, <1>7 DEF OperandsOf
<1>9. IsSeq(v.stages) /\ Len(v.stages) = 0 /\ DOMAIN v.stages = {}
  BY <1>6 DEF IsSeq
<1> QED
  BY <1>8, <1>9 DEF Sound

\* Every visit that comes to its end is sound, whatever the operands are.
THEOREM VisitsAreSound ==
  ASSUME NEW m, NEW node \in Nodes, Accept(m, node).fits
  PROVE  Sound(node, Accept(m, node))
<1>1. PICK c \in OperationCall : node = NodeOf(c) /\ node # NoNode
  BY DEF Nodes
<1>2. node.kind \in Kinds
  <2>1. node.kind = KindOf(c) /\ KindOf(c) \in Kinds \cup {"unknown"}
    BY <1>1, NodeKind, EveryKind
  <2>2. KindOf(c) # "unknown"
    BY <1>1, NodeForms
  <2> QED
    BY <2>1, <2>2
<1>3. CASE node.kind \in ArithmeticKinds
  BY <1>1, <1>3, ArithmeticIsSound
<1>4. CASE node.kind \in {"Conv2DImplicit", "Conv2DExplicit", "DepthwiseConv2DImplicit",
                          "DepthwiseConv2DExplicit"}
  BY <1>1, <1>4, ConvolutionIsSound
<1>5. CASE node.kind \in {"MaxPool2DImplicit", "MaxPool2DExplicit", "AvgPool2DImplicit",
                          "AvgPool2DExplicit", "L2Pool2DImplicit", "L2Pool2DExplicit"}
  BY <1>1, <1>5, PoolIsSound
<1>6. CASE node.kind \in MapKinds \ {"Squeeze"}
  BY <1>1, <1>6, MapIsSound
<1>7. CASE node.kind \in {"FullyConnected", "StridedSlice", "TopKV2", "Gather",
                          "EmbeddingLookup", "RNN"}
  BY <1>1, <1>7, OtherIsSound
<1>8. CASE node.kind = "Squeeze"
  BY <1>1, <1>8, SqueezeIsSound
<1>9. CASE node.kind = "Concat"
  BY <1>1, <1>9, ConcatIsSound
<1>10. CASE node.kind = "Split"
  BY <1>1, <1>10, SplitIsSound
<1>11. CASE node.kind \in {"LSTM", "RSQRT", "HashtableLookup"}
  <2>1. Accept(m, node) = Throws
    BY <1>11, AcceptForms DEF VisitLSTM, VisitRSQRT, VisitHashtableLookup
  <2> QED
    BY <2>1 DEF Throws, Nothing
<1> QED
  BY <1>2, <1>3, <1>4, <1>5, <1>6, <1>7, <1>8, <1>9, <1>10, <1>11
     DEF Kinds, ArithmeticKinds, MapKinds

-----------------------------------------------------------------------------
(* The invariant.                                                            *)

\* No operation up to the nth is a Split.
NoSplit(n) == \A o \in 1 .. n : operations[o].kind # "Split"

\* The operands that the visits so far asked a tensor for or placed in a view.
Asked == DOMAIN builder.infos \cup DOMAIN builder.subs

ModelInv ==
  /\ todo \in Seq(Call)
  /\ IsSeq(operands) /\ operations \in Seq(Nodes)
  /\ inputs \in Seq(Nat) /\ outputs \in Seq(Nat)

PhaseInv ==
  /\ finishes \in Nat /\ k \in Nat
  /\ Finishing \/ Computing => k >= 1
  /\ phase \notin {"none", "aborted"} => modelDone
  /\ phase \in {"none", "created"} => finishes = 0
  /\ opened => /\ modelDone
               /\ DOMAIN sources = DOMAIN inputs /\ DOMAIN sinks = DOMAIN outputs
  /\ Computing => opened

\* A stage that was planned looks up tensors that were asked for, and is that
\* of its operation's number unless a Split came before.
StageInv(j) ==
  LET planned == builder.stages[j]
  IN  /\ planned.stage.lookups \subseteq DOMAIN builder.infos
      /\ IsSeq(planned.stage.steps)
      /\ planned.operation \in DOMAIN operations
      /\ NoSplit(planned.operation) => planned.operation = j

BuilderInv ==
  Finishing =>
    /\ builder = [infos |-> builder.infos, subs |-> builder.subs, fills |-> builder.fills,
                  stages |-> builder.stages, fresh |-> builder.fresh]
    /\ Asked \subseteq DOMAIN operands
    /\ IsSeq(builder.stages) /\ \A j \in DOMAIN builder.stages : StageInv(j)
    /\ IsSeq(stack)

\* The operations visited so far; all of them once the visits are over.
Visited == IF phase = "plan" THEN 1 .. k - 1 ELSE DOMAIN operations

VisitInv ==
  Finishing =>
    /\ Visited \subseteq DOMAIN operations
    /\ \A o \in Visited : operations[o].outs \subseteq Asked
    /\ phase = "plan" /\ NoSplit(k - 1) => Len(builder.stages) = k - 1

\* The views and then the tensors are made in the order of the operands.
MadeInv ==
  /\ phase = "views" =>
       \A x \in DOMAIN builder.subs :
         x < k => IsAllocated(x) \/ (stack # <<>> /\ stack[1] = x)
  /\ phase = "tensors" =>
       /\ DOMAIN builder.subs \subseteq DOMAIN objects
       /\ \A x \in DOMAIN builder.infos : x < k => IsAllocated(x)
  /\ phase \in {"stages", "allocate", "fill", "constants"} => Asked \subseteq DOMAIN objects

\* After a finish every result of an operation has its tensor, until the model
\* is changed.
ReadyInv ==
  phase \in {"finished", "push", "run", "pull"} /\ finishes > 0 /\ ~changed =>
    \A o \in DOMAIN operations : operations[o].outs \subseteq DOMAIN objects

StepsInv ==
  /\ IsSeq(steps)
  /\ \A i \in DOMAIN steps :
       /\ steps[i].operation \in DOMAIN operations /\ steps[i].op_idx \in Nat
       /\ NoSplit(steps[i].operation) => steps[i].op_idx = steps[i].operation - 1

Inv ==
  /\ ModelInv /\ PhaseInv /\ BuilderInv /\ VisitInv /\ MadeInv /\ ReadyInv /\ StepsInv

\* A client that has called nothing yet.
LEMMA InvInit == ASSUME Init PROVE Inv
<1>0. IsSeq(<<>>)
  BY DEF IsSeq
<1>1. ModelInv
  <2>1. PICK c \in Clients : todo = c.calls
    BY DEF Init, CompilationInit
  <2>2. c.calls \in Seq(Call)
    BY ClientsAssumption
  <2> QED
    BY <1>0, <2>1, <2>2 DEF Init, CompilationInit, ModelInv
<1>2. PhaseInv /\ BuilderInv /\ VisitInv /\ MadeInv /\ ReadyInv
  BY DEF Init, CompilationInit, PhaseInv, BuilderInv, VisitInv, MadeInv, ReadyInv, Finishing,
     Computing
<1>3. StepsInv
  BY <1>0 DEF Init, CompilationInit, StepsInv
<1> QED
  BY <1>1, <1>2, <1>3 DEF Inv

\* A step that keeps the plan and its model, and is not in a finish.
LEMMA PlanIsKept ==
  ASSUME Inv, UNCHANGED <<operations, objects, steps>>, ~Finishing',
         phase' \in {"finished", "push", "run", "pull"} /\ finishes' > 0 /\ ~changed' =>
           phase \in {"finished", "push", "run", "pull"} /\ finishes > 0 /\ ~changed
  PROVE  BuilderInv' /\ VisitInv' /\ MadeInv' /\ ReadyInv' /\ StepsInv'
<1>1. BuilderInv' /\ VisitInv' /\ MadeInv'
  BY DEF BuilderInv, VisitInv, MadeInv, Finishing
<1>2. ReadyInv'
  BY DEF Inv, ReadyInv
<1>3. StepsInv'
  BY DEF Inv, StepsInv, NoSplit
<1> QED
  BY <1>1, <1>2, <1>3

\* Building goes on next to a finished plan: it adds to the model and marks it
\* as changed, or is refused.
LEMMA BuildInv ==
  ASSUME Inv, BuildModel, UNCHANGED executionVars
  PROVE  Inv'
<1> DEFINE call == Head(todo)
<1>1. /\ phase \in Idle /\ todo # <<>> /\ todo' = Tail(todo)
      /\ phase' \in {phase, "aborted"}
      /\ UNCHANGED <<bounds, gpu, finishes, builder, k, stack, plan, drifted>>
  BY DEF BuildModel, AddOperand, SetOperandValue, AddOperation, AddOperationEx,
         IdentifyInputsAndOutputs, FinishModel, Issue, Emplace, Goes, Aborts
<1>2. call \in Call /\ todo' \in Seq(Call)
  BY <1>1 DEF Inv, ModelInv
<1>3. ~Finishing' /\ ~Computing'
  BY <1>1 DEF Idle, Finishing, Computing
<1>4. PhaseInv'
  <2>1. modelDone => modelDone' /\ UNCHANGED <<inputs, outputs>>
    BY DEF BuildModel, AddOperand, SetOperandValue, AddOperation, AddOperationEx,
           IdentifyInputsAndOutputs, FinishModel
  <2> QED
    BY <1>1, <1>3, <2>1 DEF Inv, PhaseInv, executionVars
<1>5. UNCHANGED operations \/ \E node \in Nodes : operations' = Append(operations, node) /\ changed'
  <2>1. ASSUME NEW c \in OperationCall, Emplace(c)
        PROVE  \/ UNCHANGED operations
               \/ \E node \in Nodes : operations' = Append(operations, node) /\ changed'
    BY <2>1 DEF Emplace, Aborts, Nodes, WellFormed
  <2>2. call.call \in {"addOperation", "addOperationEx"} => call \in OperationCall
    BY <1>2 DEF Call, OperationCall
  <2> QED
    BY <2>1, <2>2 DEF BuildModel, AddOperand, SetOperandValue, AddOperation, AddOperationEx,
           IdentifyInputsAndOutputs, FinishModel, Issue, Aborts
<1>6. ModelInv'
  <2>1. IsSeq(operands')
    <3>1. UNCHANGED operands \/ (\E x : operands' = Append(operands, x)) \/ AddOperand
          \/ SetOperandValue
      BY DEF BuildModel, AddOperation, AddOperationEx, IdentifyInputsAndOutputs, FinishModel,
             Emplace, Aborts
    <3>2. ASSUME AddOperand
          PROVE  UNCHANGED operands \/ \E x : operands' = Append(operands, x)
      BY <3>2 DEF AddOperand
    <3>3. ASSUME NEW x, operands' = Append(operands, x)
          PROVE  IsSeq(operands')
      <4> DEFINE U == ToSet(operands) \cup {x}
      <4>1. operands \in Seq(U) /\ x \in U
        BY DEF Inv, ModelInv, IsSeq
      <4> HIDE DEF U
      <4>2. operands' \in Seq(U)
        BY <3>3, <4>1
      <4> QED
        BY <4>2, SomeSeq
    <3>4. ASSUME SetOperandValue
          PROVE  IsSeq(operands')
      <4>1. CASE UNCHANGED operands
        BY <4>1 DEF Inv, ModelInv
      <4>2. CASE ~UNCHANGED operands
        <5> DEFINE y == [[operands[Head(todo).operand] EXCEPT !.data = TRUE]
                           EXCEPT !.value = Head(todo).value]
        <5>1. operands' = [operands EXCEPT ![Head(todo).operand] = y]
          BY <3>4, <4>2, Zenon DEF SetOperandValue, Aborts
        <5> HIDE DEF y
        <5>2. DOMAIN operands = 1 .. Len(operands) /\ Len(operands) \in Nat
          BY SeqFacts DEF Inv, ModelInv
        <5>3. operands' = [i \in 1 .. Len(operands) |-> operands'[i]]
          BY <5>1, <5>2
        <5> QED
          BY <5>2, <5>3, MadeSeq
      <4> QED
        BY <4>1, <4>2
    <3> QED
      BY <3>1, <3>2, <3>3, <3>4 DEF Inv, ModelInv
  <2>2. operations' \in Seq(Nodes)
    <3>1. operations \in Seq(Nodes)
      BY DEF Inv, ModelInv
    <3>2. \A node \in Nodes : Append(operations, node) \in Seq(Nodes)
      BY <3>1
    <3> QED
      BY <1>5, <3>1, <3>2
  <2>3. inputs' \in Seq(Nat) /\ outputs' \in Seq(Nat)
    <3>1. inputs \in Seq(Nat) /\ outputs \in Seq(Nat)
      BY DEF Inv, ModelInv
    <3>2. UNCHANGED <<inputs, outputs>> \/ (call.call = "identify" /\ inputs' = inputs \o call.ins
                                            /\ outputs' = outputs \o call.outs)
      BY DEF BuildModel, AddOperand, SetOperandValue, AddOperation, AddOperationEx,
           IdentifyInputsAndOutputs, FinishModel, Issue
    <3>3. call.call = "identify" => call.ins \in Seq(Nat) /\ call.outs \in Seq(Nat)
      BY <1>2 DEF Call, OperationCall
    <3>4. \A s, t \in Seq(Nat) : s \o t \in Seq(Nat)
      OBVIOUS
    <3>5. CASE UNCHANGED <<inputs, outputs>>
      BY <3>1, <3>5
    <3>6. CASE ~UNCHANGED <<inputs, outputs>>
      <4>1. call.ins \in Seq(Nat) /\ call.outs \in Seq(Nat)
        BY <3>2, <3>3, <3>6
      <4>2. inputs \o call.ins \in Seq(Nat) /\ outputs \o call.outs \in Seq(Nat)
        BY <3>1, <3>4, <4>1
      <4> QED
        BY <3>2, <3>6, <4>2
    <3> QED
      BY <3>5, <3>6
  <2> QED
    BY <1>2, <2>1, <2>2, <2>3 DEF ModelInv
<1>7. CASE UNCHANGED operations
  <2>1. changed => changed'
    BY DEF BuildModel, AddOperand, SetOperandValue, AddOperation, AddOperationEx,
           IdentifyInputsAndOutputs, FinishModel, Emplace, Aborts, Inv
  <2> QED
    BY <1>1, <1>3, <1>4, <1>6, <1>7, <2>1, PlanIsKept DEF Inv, plan
<1>8. CASE \E node \in Nodes : operations' = Append(operations, node) /\ changed'
  <2>1. StepsInv'
    <3>1. UNCHANGED steps
      BY <1>1 DEF plan
    <3>2. PICK node \in Nodes : operations' = Append(operations, node)
      BY <1>8
    <3>3. operations \in Seq(Nodes)
      BY DEF Inv, ModelInv
    <3>4. /\ DOMAIN operations \subseteq DOMAIN operations'
          /\ \A n \in DOMAIN operations : 1 .. n \subseteq DOMAIN operations
          /\ \A o \in DOMAIN operations : operations'[o] = operations[o]
      BY <3>2, <3>3
    <3>5. \A n \in DOMAIN operations : NoSplit(n)' => NoSplit(n)
      BY <3>4 DEF NoSplit
    <3> QED
      BY <3>1, <3>4, <3>5 DEF Inv, StepsInv
  <2> QED
    BY <1>3, <1>4, <1>6, <1>8, <2>1 DEF Inv, BuilderInv, VisitInv, MadeInv, ReadyInv, Finishing
<1> QED
  BY <1>5, <1>7, <1>8

\* A step that keeps the model keeps its part of the invariant.
LEMMA ModelIsKept ==
  ASSUME Inv, UNCHANGED <<todo, operands, operations, inputs, outputs>>
  PROVE  ModelInv'
BY DEF Inv, ModelInv

\* Outside of finish the calls of the client keep the plan.
LEMMA CallInv ==
  ASSUME Inv,
         \/ CreateCompilation /\ UNCHANGED executionVars
         \/ CreateExecution \/ StartCompute \/ SwitchProfiler
         \/ \E n \in DOMAIN sources : SetInput(n)
         \/ \E n \in DOMAIN sinks : SetOutput(n)
  PROVE  Inv'
<1> USE DEF CreateCompilation, CreateExecution, StartCompute, SwitchProfiler, SetInput,
            SetOutput, Settable, Running, compilationVars, executionVars, model, plan
<1>1. UNCHANGED <<todo, operands, operations, inputs, outputs, modelDone, changed, finishes,
                  objects, steps>>
  OBVIOUS
<1>2. \/ phase = "none" /\ phase' = "created" /\ modelDone /\ k' = k
      \/ phase \in {"created", "finished"} /\ phase' = phase /\ k' = k
      \/ phase \in {"created", "finished"} /\ phase' = "push" /\ k' = 1 /\ opened'
  <2>1. CASE CreateCompilation
    BY <2>1
  <2>2. CASE CreateExecution \/ SwitchProfiler
    BY <2>2
  <2>3. CASE StartCompute
    BY <2>3
  <2>4. CASE (\E n \in DOMAIN sources : SetInput(n)) \/ (\E n \in DOMAIN sinks : SetOutput(n))
    BY <2>4
  <2> QED
    BY <2>1, <2>2, <2>3, <2>4
<1>3. PhaseInv'
  <2>1. opened' => /\ modelDone
                   /\ DOMAIN sources' = DOMAIN inputs /\ DOMAIN sinks' = DOMAIN outputs
    BY <1>2 DEF Inv, PhaseInv
  <2>2. (~Computing' \/ phase' = "push") /\ ~Finishing'
    BY <1>2 DEF Computing, Finishing
  <2> QED
    BY <1>1, <1>2, <2>1, <2>2 DEF Inv, PhaseInv
<1>4. phase' \in {"finished", "push", "run", "pull"} /\ finishes' > 0 /\ ~changed' =>
        phase \in {"finished", "push", "run", "pull"} /\ finishes > 0 /\ ~changed
  BY <1>1, <1>2 DEF Inv, PhaseInv
<1>5. ~Finishing'
  BY <1>2 DEF Finishing
<1> QED
  BY <1>1, <1>3, <1>4, <1>5, ModelIsKept, PlanIsKept DEF Inv

\* startCompute keeps the plan and comes back to where it was called.
LEMMA ComputeInv ==
  ASSUME Inv, ComputeStep
  PROVE  Inv'
<1>1. UNCHANGED <<todo, operands, operations, inputs, outputs, modelDone, changed, finishes,
                  objects, steps, opened, sources, sinks>>
  BY DEF ComputeStep, PushInput, RunFunction, PullOutput, Running, model
<1>2. Computing /\ opened /\ modelDone
  BY DEF Inv, PhaseInv, ComputeStep, PushInput, RunFunction, PullOutput, Computing
<1>3. k' \in {k, k + 1, 1} /\ k \in Nat /\ k >= 1
  BY <1>2 DEF Inv, PhaseInv, ComputeStep, PushInput, RunFunction, PullOutput, GoTo, Abort
<1>4. /\ phase' \in {phase, "run", "pull", "aborted", "created", "finished"}
      /\ phase' = "created" => finishes = 0
      /\ phase' = "finished" => finishes # 0
  BY <1>2 DEF ComputeStep, PushInput, RunFunction, PullOutput, GoTo, Abort, Computing
<1>5. PhaseInv' /\ ~Finishing'
  BY <1>1, <1>2, <1>3, <1>4 DEF Inv, PhaseInv, Computing, Finishing
<1>6. phase' \in {"finished", "push", "run", "pull"} /\ finishes' > 0 /\ ~changed' =>
        phase \in {"finished", "push", "run", "pull"} /\ finishes > 0 /\ ~changed
  BY <1>1, <1>2 DEF Computing
<1> QED
  BY <1>1, <1>5, <1>6, ModelIsKept, PlanIsKept DEF Inv

\* finish starts with an empty builder.
LEMMA StartFinishInv ==
  ASSUME Inv, StartFinish, UNCHANGED executionVars
  PROVE  Inv'
<1>1. /\ UNCHANGED <<todo, operands, operations, inputs, outputs, modelDone, objects, steps,
                     opened, sources, sinks>>
      /\ phase \in {"created", "finished"} /\ phase' = "plan" /\ finishes' = finishes + 1
      /\ builder' = NoBuilder /\ k' = 1 /\ stack' = <<>>
  BY DEF StartFinish, plan, executionVars
<1>2. PhaseInv'
  BY <1>1 DEF Inv, PhaseInv, Computing, Finishing
<1>3. IsSeq(<<>>) /\ Len(<<>>) = 0
  BY DEF IsSeq
<1>4. BuilderInv' /\ VisitInv' /\ MadeInv' /\ ReadyInv'
  BY <1>1, <1>3 DEF BuilderInv, VisitInv, MadeInv, ReadyInv, NoBuilder, Asked, Visited
<1>5. StepsInv'
  BY <1>1 DEF Inv, StepsInv, NoSplit
<1> QED
  BY <1>1, <1>2, <1>4, <1>5, ModelIsKept DEF Inv

\* What every step of finish leaves alone.
LEMMA FinishKeeps ==
  ASSUME Inv, FinishStep, UNCHANGED executionVars
  PROVE  /\ Finishing
         /\ UNCHANGED <<todo, operations, inputs, outputs, modelDone, changed, finishes, opened,
                        sources, sinks>>
         /\ modelDone /\ ~Computing' /\ phase' \notin {"none", "created"}
         /\ k' \in {k, k + 1, 1}
<1> USE DEF FinishStep, Keeps, Leaves, InViews, GoTo, Abort
<1>1. Finishing
  BY DEF VisitNode, EndVisits, NextView, SkipAllocated, OwnTensor, PartOfBase, BaseFirst,
         EndViews, AddTensor, RunStage, EndStages, AllocateTensors, FillWeights,
         FillConstants, Finishing
<1>2. UNCHANGED <<todo, operations, inputs, outputs, modelDone, changed, finishes>>
  BY DEF VisitNode, EndVisits, NextView, SkipAllocated, OwnTensor, PartOfBase, BaseFirst,
         EndViews, AddTensor, RunStage, EndStages, AllocateTensors, FillWeights, FillConstants
<1>3. phase' \in {phase, "views", "tensors", "stages", "allocate", "fill", "constants",
                  "finished", "aborted"}
  BY DEF VisitNode, EndVisits, NextView, SkipAllocated, OwnTensor, PartOfBase, BaseFirst,
         EndViews, AddTensor, RunStage, EndStages, AllocateTensors, FillWeights, FillConstants
<1>4. k' \in {k, k + 1, 1}
  BY DEF VisitNode, EndVisits, NextView, SkipAllocated, OwnTensor, PartOfBase, BaseFirst,
         EndViews, AddTensor, RunStage, EndStages, AllocateTensors, FillWeights, FillConstants
<1> QED
  BY <1>1, <1>2, <1>3, <1>4 DEF Inv, PhaseInv, Finishing, Computing, executionVars

\* The phases of finish.
LEMMA FinishPhaseInv ==
  ASSUME Inv, FinishStep, UNCHANGED executionVars
  PROVE  PhaseInv'
BY FinishKeeps DEF Inv, PhaseInv

\* A visit adds a sound part to the plan, or ends finish.
LEMMA VisitInvs ==
  ASSUME Inv, VisitNode, UNCHANGED executionVars
  PROVE  Inv'
<1> DEFINE node == operations[k]
           visit == Accept(operands, node)
           m == Extended(operands, visit.broadcast)
           staged == [i \in DOMAIN visit.stages |->
                        [stage |-> visit.stages[i], operation |-> k,
                         seen |-> ShapesOf(m, visit.stages[i].lookups)]]
<1>1. /\ phase = "plan" /\ k \in 1 .. Len(operations) /\ node \in Nodes
      /\ UNCHANGED <<todo, operations, inputs, outputs, stack, objects, steps>>
  <2>1. FinishStep
    BY DEF FinishStep
  <2>2. phase = "plan" /\ k <= Len(operations) /\ UNCHANGED <<stack, objects, steps>>
    BY DEF VisitNode, plan
  <2>3. k \in Nat /\ k >= 1 /\ operations \in Seq(Nodes)
    BY <2>2 DEF Inv, PhaseInv, ModelInv, Finishing
  <2> QED
    BY <2>1, <2>2, <2>3, FinishKeeps
<1>2. PhaseInv'
  BY FinishPhaseInv DEF FinishStep
<1>3. StepsInv'
  BY <1>1 DEF Inv, StepsInv, NoSplit
<1>4. CASE phase' = "aborted"
  <2>1. UNCHANGED operands
    BY <1>1, <1>4 DEF VisitNode, Abort
  <2> QED
    BY <1>1, <1>2, <1>3, <1>4, <2>1, ModelIsKept
       DEF Inv, BuilderInv, VisitInv, MadeInv, ReadyInv, Finishing
<1>5. CASE phase' # "aborted"
  <2>1. /\ OperandsOf(node) \subseteq DOMAIN operands /\ visit.fits
        /\ operands' = m
        /\ builder' = [builder EXCEPT !.infos = Over(ShapesOf(m, visit.shapes), @),
                                      !.subs = Over(Placed(visit.views), @),
                                      !.fills = @ \cup visit.fills,
                                      !.stages = @ \o staged]
        /\ phase' = phase /\ k' = k + 1
    BY <1>5, Zenon DEF VisitNode, Abort
  <2>2. Sound(node, visit)
    BY <1>1, <2>1, VisitsAreSound
  <2>3. IsSeq(operands') /\ DOMAIN operands' = DOMAIN operands
    <3>1. DOMAIN operands = 1 .. Len(operands) /\ Len(operands) \in Nat
      BY SeqFacts DEF Inv, ModelInv
    <3>2. m = [i \in 1 .. Len(operands) |-> m[i]]
      BY <3>1 DEF Extended
    <3> QED
      BY <2>1, <3>1, <3>2, MadeSeq
  <2>4. /\ DOMAIN builder'.infos = visit.shapes \cup DOMAIN builder.infos
        /\ DOMAIN builder'.subs = Viewed(visit) \cup DOMAIN builder.subs
        /\ builder'.stages = builder.stages \o staged
        /\ builder' = [infos |-> builder'.infos, subs |-> builder'.subs, fills |-> builder'.fills,
                       stages |-> builder'.stages, fresh |-> builder'.fresh]
    <3> DEFINE infos == Over(ShapesOf(m, visit.shapes), builder.infos)
               subs == Over(Placed(visit.views), builder.subs)
               fills == builder.fills \cup visit.fills
               stages == builder.stages \o staged
    <3>1. builder = [infos |-> builder.infos, subs |-> builder.subs, fills |-> builder.fills,
                     stages |-> builder.stages, fresh |-> builder.fresh]
      BY <1>1 DEF Inv, BuilderInv, Finishing
    <3>2. builder' = [builder EXCEPT !.infos = infos, !.subs = subs, !.fills = fills,
                                     !.stages = stages]
      BY <2>1, Zenon
    <3>3. /\ DOMAIN infos = visit.shapes \cup DOMAIN builder.infos
          /\ DOMAIN subs = Viewed(visit) \cup DOMAIN builder.subs
      BY DEF Over, ShapesOf, Placed, Viewed
    <3> HIDE DEF infos, subs, fills, stages, staged
    <3>4. /\ builder'.infos = infos /\ builder'.subs = subs /\ builder'.stages = stages
          /\ builder' = [infos |-> builder'.infos, subs |-> builder'.subs,
                         fills |-> builder'.fills, stages |-> builder'.stages,
                         fresh |-> builder'.fresh]
      BY <3>1, <3>2
    <3> QED
      BY <3>3, <3>4 DEF stages
  <2>5. /\ IsSeq(staged) /\ Len(staged) = Len(visit.stages)
        /\ DOMAIN staged = DOMAIN visit.stages
        /\ \A i \in DOMAIN staged : /\ staged[i].stage = visit.stages[i]
                                    /\ staged[i].operation = k
    <3>1. DOMAIN visit.stages = 1 .. Len(visit.stages) /\ Len(visit.stages) \in Nat
      BY <2>2, SeqFacts DEF Sound
    <3> QED
      BY <3>1, MadeSeq
  <2> HIDE DEF staged
  <2>6. /\ IsSeq(builder.stages) /\ \A j \in DOMAIN builder.stages : StageInv(j)
        /\ NoSplit(k - 1) => Len(builder.stages) = k - 1
        /\ Asked \subseteq DOMAIN operands /\ IsSeq(stack)
        /\ \A o \in 1 .. k - 1 : operations[o].outs \subseteq Asked
    BY <1>1 DEF Inv, BuilderInv, VisitInv, Visited, Finishing
  <2>7. /\ IsSeq(builder'.stages) /\ Len(builder'.stages) = Len(builder.stages) + Len(staged)
        /\ DOMAIN builder'.stages = 1 .. Len(builder.stages) + Len(staged)
        /\ \A j \in 1 .. Len(builder.stages) : builder'.stages[j] = builder.stages[j]
        /\ \A i \in 1 .. Len(staged) : builder'.stages[Len(builder.stages) + i] = staged[i]
    <3>1. /\ IsSeq(builder.stages \o staged)
          /\ Len(builder.stages \o staged) = Len(builder.stages) + Len(staged)
          /\ \A j \in 1 .. Len(builder.stages) : (builder.stages \o staged)[j] = builder.stages[j]
          /\ \A i \in 1 .. Len(staged) :
               (builder.stages \o staged)[Len(builder.stages) + i] = staged[i]
      <4> DEFINE old == builder.stages
      <4>1. IsSeq(old) /\ IsSeq(staged)
        BY <2>5, <2>6
      <4> HIDE DEF old
      <4>2. /\ IsSeq(old \o staged) /\ Len(old \o staged) = Len(old) + Len(staged)
            /\ \A j \in 1 .. Len(old) : (old \o staged)[j] = old[j]
            /\ \A i \in 1 .. Len(staged) : (old \o staged)[Len(old) + i] = staged[i]
        BY <4>1, Joined
      <4> QED
        BY <4>2 DEF old
    <3> QED
      BY <2>4, <3>1, SeqFacts
  <2>8. Asked' = visit.shapes \cup Viewed(visit) \cup Asked
    BY <2>4 DEF Asked
  <2>9. Len(staged) = IF node.kind = "Split" THEN 0 ELSE 1
    BY <2>2, <2>5 DEF Sound
  <2>10. \A j \in DOMAIN builder'.stages : StageInv(j)'
    <3> SUFFICES ASSUME NEW j \in 1 .. Len(builder.stages) + Len(staged)
                 PROVE  /\ builder'.stages[j].stage.lookups \subseteq DOMAIN builder'.infos
                        /\ IsSeq(builder'.stages[j].stage.steps)
                        /\ builder'.stages[j].operation \in DOMAIN operations
                        /\ NoSplit(builder'.stages[j].operation)
                             => builder'.stages[j].operation = j
      BY <1>1, <2>7 DEF StageInv, NoSplit
    <3>1. Len(builder.stages) \in Nat /\ DOMAIN builder.stages = 1 .. Len(builder.stages)
      BY <2>6, SeqFacts
    <3>2. CASE j \in 1 .. Len(builder.stages)
      BY <2>4, <2>6, <2>7, <3>1, <3>2 DEF StageInv
    <3>3. CASE j \notin 1 .. Len(builder.stages)
      <4>1. node.kind # "Split" /\ Len(staged) = 1 /\ j = Len(builder.stages) + 1
        <5> DEFINE n == Len(builder.stages)
                   l == Len(staged)
        <5>1. n \in Nat /\ j \in 1 .. n + l /\ j \notin 1 .. n /\ l \in {0, 1}
          BY <2>9, <3>1, <3>3
        <5> HIDE DEF n, l
        <5>2. l = 1 /\ j = n + 1
          BY <5>1
        <5> QED
          BY <2>9, <5>2 DEF n, l
      <4>2. builder'.stages[j] = staged[1] /\ 1 \in DOMAIN staged
        BY <2>5, <2>7, <4>1, SeqFacts
      <4>3. /\ visit.stages[1].lookups \subseteq visit.shapes /\ IsSeq(visit.stages[1].steps)
        BY <2>2, <2>5, <4>2 DEF Sound
      <4>4. NoSplit(k) => Len(builder.stages) = k - 1
        BY <1>1, <2>6 DEF NoSplit
      <4>5. k \in DOMAIN operations
        BY <1>1 DEF Inv, ModelInv
      <4> QED
        BY <1>1, <2>4, <2>5, <4>1, <4>2, <4>3, <4>4, <4>5
    <3> QED
      BY <3>2, <3>3
  <2>11. BuilderInv'
    <3>1. Asked' \subseteq DOMAIN operands'
      BY <2>1, <2>2, <2>3, <2>6, <2>8 DEF Sound
    <3> QED
      BY <1>1, <2>4, <2>6, <2>7, <2>10, <3>1 DEF BuilderInv
  <2>12. VisitInv'
    <3>1. Visited' = 1 .. k
      BY <1>1, <2>1 DEF Visited
    <3>2. \A o \in 1 .. k : operations[o].outs \subseteq Asked'
      <4>1. node.outs \subseteq visit.shapes \cup Viewed(visit)
        BY <2>2 DEF Sound
      <4>2. ASSUME NEW o \in 1 .. k, o # k
            PROVE  o \in 1 .. k - 1
        BY <1>1, <4>2
      <4> QED
        BY <2>6, <2>8, <4>1, <4>2
    <3>3. NoSplit(k) => Len(builder'.stages) = k
      <4>1. NoSplit(k) => node.kind # "Split" /\ NoSplit(k - 1)
        BY <1>1 DEF NoSplit
      <4> QED
        BY <1>1, <2>6, <2>7, <2>9, <4>1
    <3>4. k' - 1 = k /\ (1 .. k) \subseteq DOMAIN operations
      BY <1>1, <2>1 DEF Inv, ModelInv
    <3> QED
      BY <1>1, <3>1, <3>2, <3>3, <3>4 DEF VisitInv, NoSplit
  <2>13. ModelInv' /\ MadeInv' /\ ReadyInv'
    BY <1>1, <2>1, <2>3 DEF Inv, ModelInv, MadeInv, ReadyInv
  <2> QED
    BY <1>2, <1>3, <2>11, <2>12, <2>13 DEF Inv
<1> QED
  BY <1>4, <1>5

\* After the visits the rest of finish keeps what was planned.
LEMMA PlannedIsKept ==
  ASSUME Inv, FinishStep, UNCHANGED executionVars, UNCHANGED operands,
         builder' = builder \/ \E f : builder' = [builder EXCEPT !.fresh = f],
         IsSeq(stack'), phase' # "plan",
         phase = "plan" => Visited = DOMAIN operations
  PROVE  /\ ModelInv' /\ PhaseInv' /\ BuilderInv' /\ VisitInv'
         /\ builder'.infos = builder.infos /\ builder'.subs = builder.subs /\ Asked' = Asked
<1>1. /\ Finishing
      /\ UNCHANGED <<todo, operations, inputs, outputs, modelDone, changed, finishes>>
  BY FinishKeeps
<1>2. ModelInv' /\ PhaseInv'
  BY <1>1, ModelIsKept, FinishPhaseInv
<1>3. builder = [infos |-> builder.infos, subs |-> builder.subs, fills |-> builder.fills,
                 stages |-> builder.stages, fresh |-> builder.fresh]
  BY <1>1 DEF Inv, BuilderInv
<1>4. /\ builder' = [infos |-> builder'.infos, subs |-> builder'.subs, fills |-> builder'.fills,
                     stages |-> builder'.stages, fresh |-> builder'.fresh]
      /\ builder'.infos = builder.infos /\ builder'.subs = builder.subs
      /\ builder'.stages = builder.stages
  <2>1. CASE UNCHANGED builder
    BY <1>3, <2>1
  <2>2. CASE ~UNCHANGED builder
    <3>1. PICK f : builder' = [builder EXCEPT !.fresh = f]
      BY <2>2
    <3> QED
      BY <1>3, <3>1
  <2> QED
    BY <2>1, <2>2
<1>5. Asked' = Asked
  BY <1>4 DEF Asked
<1>6. BuilderInv'
  BY <1>1, <1>4, <1>5 DEF Inv, BuilderInv, StageInv, NoSplit
<1>7. VisitInv'
  <2>1. Visited = DOMAIN operations /\ Visited' = DOMAIN operations
    BY <1>1 DEF Visited
  <2> QED
    BY <1>1, <1>5, <2>1 DEF Inv, VisitInv
<1> QED
  BY <1>2, <1>4, <1>5, <1>6, <1>7

\* A step of finish that adds no function.
LEMMA StepsAreKept ==
  ASSUME Inv, FinishStep, UNCHANGED executionVars, UNCHANGED steps
  PROVE  StepsInv'
BY FinishKeeps DEF Inv, StepsInv, NoSplit

\* What finish goes through are the operands.
LEMMA AskedOperands ==
  ASSUME Inv, Finishing
  PROVE  /\ Asked \subseteq 1 .. Len(operands) /\ Len(operands) \in Nat
         /\ k \in Nat /\ k >= 1 /\ IsSeq(stack)
BY SeqFacts DEF Inv, ModelInv, PhaseInv, BuilderInv

\* The visits are over: every result was asked for.
LEMMA EndVisitsInv ==
  ASSUME Inv, EndVisits, UNCHANGED executionVars
  PROVE  Inv'
<1>1. FinishStep /\ phase = "plan" /\ phase' = "views" /\ k' = 1 /\ k > Len(operations)
      /\ UNCHANGED <<operands, builder, stack, objects, steps>>
  BY DEF FinishStep, EndVisits, GoTo, Keeps, plan
<1>2. Finishing
  BY <1>1 DEF Finishing
<1>3. Visited = DOMAIN operations
  BY <1>1, <1>2 DEF Visited, Inv, ModelInv, VisitInv, PhaseInv
<1>4. /\ ModelInv' /\ PhaseInv' /\ BuilderInv' /\ VisitInv'
      /\ UNCHANGED Asked
  BY <1>1, <1>2, <1>3, AskedOperands, PlannedIsKept
<1>5. MadeInv' /\ ReadyInv'
  BY <1>1, <1>2, AskedOperands DEF MadeInv, ReadyInv, Asked
<1> QED
  BY <1>1, <1>4, <1>5, StepsAreKept DEF Inv

\* The base of a stack stays when a step is taken off a longer one.
LEMMA FrontOf ==
  ASSUME NEW s, IsSeq(s), Len(s) >= 2
  PROVE  Front(s) # <<>> /\ Front(s)[1] = s[1]
<1> DEFINE f == Front(s)
<1>1. f = [i \in 1 .. Len(s) - 1 |-> s[i]] /\ Len(s) - 1 \in Nat /\ Len(s) - 1 >= 1
  BY DEF IsSeq, Front
<1> HIDE DEF f
<1>2. f = [i \in 1 .. Len(s) - 1 |-> f[i]] /\ f[1] = s[1]
  BY <1>1
<1>3. Len(f) = Len(s) - 1
  BY <1>1, <1>2, MadeSeq
<1>4. f # <<>>
  <2>1. Len(<<>>) = 0 /\ Len(f) # 0
    BY <1>1, <1>3
  <2> QED
    BY <2>1
<1>5. f # <<>> /\ f[1] = s[1]
  BY <1>2, <1>4
<1> QED
  BY <1>5 DEF f

\* A step of the loop over the views: the view it works on is at the bottom of
\* the stack until it has its tensor.
LEMMA ViewsInv ==
  ASSUME Inv, NextView \/ SkipAllocated \/ OwnTensor \/ PartOfBase \/ BaseFirst,
         UNCHANGED executionVars
  PROVE  Inv'
<1> DEFINE last == Last(stack)
<1>1. /\ FinishStep /\ phase = "views" /\ phase' \in {"views", "aborted"}
      /\ UNCHANGED <<operands, steps>>
  BY DEF FinishStep, NextView, SkipAllocated, OwnTensor, PartOfBase, BaseFirst, InViews, Keeps,
         Abort
<1>2. Finishing
  BY <1>1 DEF Finishing
<1>3. IsSeq(stack) /\ k \in Nat
  BY <1>2, AskedOperands
<1>4. builder' = builder \/ \E f : builder' = [builder EXCEPT !.fresh = f]
  BY DEF NextView, SkipAllocated, OwnTensor, PartOfBase, BaseFirst, SetTensor, SetSubTensor
<1>5. DOMAIN objects \subseteq DOMAIN objects'
  BY DEF NextView, SkipAllocated, OwnTensor, PartOfBase, BaseFirst, SetTensor, SetSubTensor, Over
\* The stack ends or grows, or loses a last one that is no view or has its tensor.
<1>6. \/ stack = <<>> /\ k' = k + 1
         /\ stack' = IF k \in DOMAIN builder.subs THEN <<k>> ELSE <<>>
      \/ stack # <<>> /\ k' = k /\ stack' = Front(stack)
         /\ (last \in DOMAIN objects' \/ last \notin DOMAIN builder.subs)
      \/ stack # <<>> /\ k' = k /\ stack' = Append(stack, builder.subs[last].base)
  <2>1. CASE NextView
    BY <2>1 DEF NextView
  <2>2. CASE SkipAllocated
    BY <2>2 DEF SkipAllocated, IsAllocated
  <2>3. CASE OwnTensor
    BY <2>3 DEF OwnTensor, Abort
  <2>4. CASE PartOfBase
    BY <2>4 DEF PartOfBase, SetSubTensor, Over
  <2>5. CASE BaseFirst
    BY <2>5 DEF BaseFirst
  <2> QED
    BY <2>1, <2>2, <2>3, <2>4, <2>5
<1>7. /\ IsSeq(Front(stack)) /\ \A x : IsSeq(Append(stack, x))
      /\ stack # <<>> => /\ \A x : Append(stack, x) # <<>> /\ Append(stack, x)[1] = stack[1]
                         /\ last = stack[1] \/ (Front(stack) # <<>> /\ Front(stack)[1] = stack[1])
  <2>1. ASSUME NEW x
        PROVE  IsSeq(Append(stack, x)) /\ (stack # <<>> => /\ Append(stack, x) # <<>>
                                                           /\ Append(stack, x)[1] = stack[1])
    <3> DEFINE U == ToSet(stack) \cup {x}
    <3>1. stack \in Seq(U) /\ x \in U
      BY <1>3 DEF IsSeq
    <3> HIDE DEF U
    <3>2. Append(stack, x) \in Seq(U)
      BY <3>1
    <3>3. stack # <<>> => Append(stack, x) # <<>> /\ Append(stack, x)[1] = stack[1]
      BY <3>1
    <3> QED
      BY <3>2, <3>3, SomeSeq
  <2>2. IsSeq(Front(stack)) /\ (stack # <<>> => last = stack[1] \/ (Front(stack) # <<>>
                                                                  /\ Front(stack)[1] = stack[1]))
    <3> DEFINE U == ToSet(stack)
    <3>1. stack \in Seq(U)
      BY <1>3 DEF IsSeq
    <3> HIDE DEF U
    <3>2. Front(stack) \in Seq(U)
      BY <3>1 DEF Front
    <3>3. ASSUME stack # <<>>, last # stack[1]
          PROVE  Front(stack) # <<>> /\ Front(stack)[1] = stack[1]
      <4>1. IsSeq(stack) /\ Len(stack) \in Nat /\ Len(stack) >= 1
        BY <1>3, <3>1, <3>3
      <4>2. Len(stack) >= 2
        BY <3>3, <4>1 DEF Last
      <4> QED
        BY <4>1, <4>2, FrontOf
    <3> QED
      BY <3>2, <3>3, SomeSeq
  <2> QED
    BY <2>1, <2>2
<1> HIDE DEF last
<1>8. IsSeq(stack')
  <2>1. IsSeq(<<k>>) /\ IsSeq(<<>>)
    BY OneStep DEF IsSeq
  <2> QED
    BY <1>6, <1>7, <2>1
<1>9. /\ ModelInv' /\ PhaseInv' /\ BuilderInv' /\ VisitInv'
      /\ builder'.subs = builder.subs
  BY <1>1, <1>4, <1>8, PlannedIsKept
<1>10. MadeInv'
  <2> SUFFICES ASSUME NEW x \in DOMAIN builder.subs, x < k'
               PROVE  x \in DOMAIN objects' \/ (stack' # <<>> /\ stack'[1] = x)
    BY <1>1, <1>9 DEF MadeInv, IsAllocated
  <2>1. x < k => x \in DOMAIN objects \/ (stack # <<>> /\ stack[1] = x)
    BY <1>1 DEF Inv, MadeInv, IsAllocated
  <2>2. x \in Nat
    BY <1>2, AskedOperands DEF Asked
  <2>3. CASE stack = <<>>
    <3>1. x < k \/ x = k
      BY <1>3, <1>6, <2>2, <2>3
    <3>2. CASE x < k
      BY <1>5, <2>1, <2>3, <3>2
    <3>3. CASE x = k
      <4>1. stack' = <<k>>
        BY <1>6, <2>3, <3>3
      <4> QED
        BY <3>3, <4>1
    <3> QED
      BY <3>1, <3>2, <3>3
  <2>4. CASE stack # <<>>
    BY <1>5, <1>6, <1>7, <2>1, <2>4
  <2> QED
    BY <2>3, <2>4
<1>11. ReadyInv'
  BY <1>1 DEF ReadyInv
<1> QED
  BY <1>1, <1>9, <1>10, <1>11, StepsAreKept DEF Inv

\* After the loop every view has its tensor.
LEMMA EndViewsInv ==
  ASSUME Inv, EndViews, UNCHANGED executionVars
  PROVE  Inv'
<1>1. /\ FinishStep /\ phase = "views" /\ phase' = "tensors" /\ k' = 1
      /\ stack = <<>> /\ k > Len(operands)
      /\ UNCHANGED <<operands, builder, stack, objects, steps>>
  BY DEF FinishStep, EndViews, GoTo, Keeps, InViews
<1>2. Finishing
  BY <1>1 DEF Finishing
<1>3. /\ ModelInv' /\ PhaseInv' /\ BuilderInv' /\ VisitInv'
  BY <1>1, <1>2, AskedOperands, PlannedIsKept
<1>4. DOMAIN builder.subs \subseteq DOMAIN objects
  <2> SUFFICES ASSUME NEW x \in DOMAIN builder.subs PROVE x \in DOMAIN objects
    OBVIOUS
  <2>1. x < k
    BY <1>1, <1>2, AskedOperands DEF Asked
  <2> QED
    BY <1>1, <2>1 DEF Inv, MadeInv, IsAllocated
<1>5. MadeInv' /\ ReadyInv'
  <2>1. \A x \in DOMAIN builder.infos : ~(x < 1)
    BY <1>2, AskedOperands DEF Asked
  <2> QED
    BY <1>1, <1>4, <2>1 DEF MadeInv, ReadyInv
<1> QED
  BY <1>1, <1>3, <1>5, StepsAreKept DEF Inv

\* The tensors are made in the order of the operands; then every operand that
\* was asked for has one.
LEMMA AddTensorInv ==
  ASSUME Inv, AddTensor, UNCHANGED executionVars
  PROVE  Inv'
<1>1. FinishStep /\ phase = "tensors" /\ phase' \in {"tensors", "stages"}
      /\ UNCHANGED <<operands, stack, steps>>
  BY DEF FinishStep, AddTensor, GoTo, Keeps
<1>2. Finishing
  BY <1>1 DEF Finishing
<1>3. builder' = builder \/ \E f : builder' = [builder EXCEPT !.fresh = f]
  BY DEF AddTensor, SetTensor
<1>4. DOMAIN objects \subseteq DOMAIN objects'
  BY DEF AddTensor, SetTensor, Over
<1>5. \/ phase' = "stages" /\ k > Len(operands)
      \/ phase' = "tensors" /\ k' = k + 1 /\ (k \in DOMAIN builder.infos => k \in DOMAIN objects')
  BY <1>1 DEF AddTensor, SetTensor, Over, GoTo, IsAllocated
<1>6. /\ ModelInv' /\ PhaseInv' /\ BuilderInv' /\ VisitInv'
      /\ builder'.infos = builder.infos /\ builder'.subs = builder.subs /\ Asked' = Asked
  BY <1>1, <1>2, <1>3, AskedOperands, PlannedIsKept
<1>7. /\ DOMAIN builder.subs \subseteq DOMAIN objects
      /\ \A x \in DOMAIN builder.infos : x < k => x \in DOMAIN objects
  BY <1>1 DEF Inv, MadeInv, IsAllocated
<1>8. /\ Asked \subseteq 1 .. Len(operands) /\ Len(operands) \in Nat /\ k \in Nat
      /\ DOMAIN builder.infos \subseteq Asked
  BY <1>2, AskedOperands DEF Asked
<1>9. MadeInv'
  <2>1. CASE phase' = "stages"
    <3>1. k > Len(operands)
      BY <1>5, <2>1
    <3>2. DOMAIN builder.infos \subseteq DOMAIN objects
      <4> SUFFICES ASSUME NEW x \in DOMAIN builder.infos PROVE x \in DOMAIN objects
        OBVIOUS
      <4>1. x \in 1 .. Len(operands)
        BY <1>8
      <4>2. x < k
        BY <1>8, <3>1, <4>1
      <4> QED
        BY <1>7, <4>2
    <3>3. Asked \subseteq DOMAIN objects'
      BY <1>4, <1>7, <3>2 DEF Asked
    <3> QED
      BY <1>6, <2>1, <3>3 DEF MadeInv
  <2>2. CASE phase' = "tensors"
    <3>1. k' = k + 1 /\ (k \in DOMAIN builder.infos => k \in DOMAIN objects')
      BY <1>5, <2>2
    <3>2. \A x \in DOMAIN builder.infos : x < k + 1 => x \in DOMAIN objects'
      <4> SUFFICES ASSUME NEW x \in DOMAIN builder.infos, x < k + 1 PROVE x \in DOMAIN objects'
        OBVIOUS
      <4>1. x \in 1 .. Len(operands)
        BY <1>8
      <4>2. x < k \/ x = k
        BY <1>8, <4>1
      <4> QED
        BY <1>4, <1>7, <3>1, <4>2
    <3> QED
      BY <1>4, <1>6, <1>7, <2>2, <3>1, <3>2 DEF MadeInv, IsAllocated
  <2> QED
    BY <1>1, <2>1, <2>2
<1>10. ReadyInv'
  BY <1>1 DEF ReadyInv
<1> QED
  BY <1>1, <1>6, <1>9, <1>10, StepsAreKept DEF Inv

\* The functions of a stage are of its operation and are numbered as the cursor.
LEMMA FunctionsOfStage ==
  ASSUME NEW planned, IsSeq(planned.stage.steps)
  PROVE  /\ IsSeq(Functions(planned))
         /\ \A i \in DOMAIN Functions(planned) :
              /\ Functions(planned)[i].operation = planned.operation
              /\ Functions(planned)[i].op_idx = k - 1
<1> DEFINE stage == planned.stage
           all == stage.steps \o ActivationSteps(stage)
           made == Functions(planned)
<1>1. IsSeq(ActivationSteps(stage))
  <2>1. IsSeq(<<>>)
    BY DEF IsSeq
  <2> QED
    BY <2>1, OneStep DEF ActivationSteps
<1>2. IsSeq(all)
  BY <1>1, Joined
<1>3. DOMAIN all = 1 .. Len(all) /\ Len(all) \in Nat
  BY <1>2, SeqFacts
<1> HIDE DEF all
<1>4. /\ DOMAIN made = DOMAIN all
      /\ made = [i \in DOMAIN all |-> made[i]]
      /\ \A i \in DOMAIN all : made[i].operation = planned.operation /\ made[i].op_idx = k - 1
  BY Zenon DEF Functions, all
<1> HIDE DEF made
<1>5. IsSeq(made)
  BY <1>3, <1>4, MadeSeq
<1> QED
  BY <1>4, <1>5 DEF made

\* The stage of the nth operation adds functions of the number n - 1, if no
\* Split came before.
LEMMA RunStageInv ==
  ASSUME Inv, RunStage, UNCHANGED executionVars
  PROVE  Inv'
<1> DEFINE planned == builder.stages[k]
           made == Functions(planned)
<1>1. /\ FinishStep /\ phase = "stages" /\ phase' \in {"stages", "aborted"}
      /\ k <= Len(builder.stages)
      /\ UNCHANGED <<operands, operations, builder, stack, objects>>
      /\ steps' = steps \/ steps' = steps \o made
  BY FinishKeeps DEF FinishStep, RunStage, Keeps, Leaves, Abort
<1>2. Finishing
  BY <1>1 DEF Finishing
<1>3. /\ ModelInv' /\ PhaseInv' /\ BuilderInv' /\ VisitInv' /\ Asked' = Asked
  BY <1>1, <1>2, AskedOperands, PlannedIsKept
<1>4. MadeInv' /\ ReadyInv'
  BY <1>1, <1>3 DEF Inv, MadeInv, ReadyInv
<1>5. /\ IsSeq(made)
      /\ \A i \in DOMAIN made : /\ made[i].operation \in DOMAIN operations
                                /\ made[i].op_idx \in Nat
                                /\ NoSplit(made[i].operation)
                                     => made[i].op_idx = made[i].operation - 1
  <2>1. IsSeq(builder.stages) /\ \A j \in DOMAIN builder.stages : StageInv(j)
    BY <1>2 DEF Inv, BuilderInv
  <2>2. k \in DOMAIN builder.stages
    BY <1>1, <1>2, <2>1, AskedOperands, SeqFacts
  <2>3. /\ IsSeq(planned.stage.steps) /\ planned.operation \in DOMAIN operations
        /\ NoSplit(planned.operation) => planned.operation = k
    BY <2>1, <2>2 DEF StageInv
  <2> HIDE DEF planned
  <2>4. /\ IsSeq(made)
        /\ \A i \in DOMAIN made : made[i].operation = planned.operation /\ made[i].op_idx = k - 1
    BY <2>3, FunctionsOfStage
  <2> HIDE DEF made
  <2>5. k - 1 \in Nat
    BY <1>2, AskedOperands
  <2> QED
    BY <2>3, <2>4, <2>5
<1> HIDE DEF made
<1>6. StepsInv'
  <2>1. IsSeq(steps')
    BY <1>1, <1>5, Joined DEF Inv, StepsInv
  <2>2. ASSUME NEW i \in DOMAIN steps'
        PROVE  \/ \E j \in DOMAIN steps : steps'[i] = steps[j]
               \/ \E j \in DOMAIN made : steps'[i] = made[j]
    <3>1. CASE steps' = steps
      BY <3>1
    <3>2. CASE steps' = steps \o made
      <4>1. IsSeq(steps) /\ IsSeq(made)
        BY <1>5 DEF Inv, StepsInv
      <4>2. ToSet(steps') = ToSet(steps) \cup ToSet(made)
        BY <3>2, <4>1, Joined
      <4> QED
        BY <4>2 DEF ToSet
    <3> QED
      BY <1>1, <3>1, <3>2
  <2>3. \A n : NoSplit(n)' = NoSplit(n)
    BY <1>1 DEF NoSplit
  <2>4. ASSUME NEW i \in DOMAIN steps'
        PROVE  /\ steps'[i].operation \in DOMAIN operations /\ steps'[i].op_idx \in Nat
               /\ NoSplit(steps'[i].operation) => steps'[i].op_idx = steps'[i].operation - 1
    BY <1>5, <2>2 DEF Inv, StepsInv
  <2> QED
    BY <1>1, <2>1, <2>4 DEF StepsInv, NoSplit
<1> QED
  BY <1>3, <1>4, <1>6 DEF Inv

\* From the stages on every operand that was asked for has its tensor; so at the
\* end every result has one.
LEMMA AfterStagesInv ==
  ASSUME Inv, EndStages \/ AllocateTensors \/ FillWeights \/ FillConstants,
         UNCHANGED executionVars
  PROVE  Inv'
<1>1. /\ FinishStep /\ phase \in {"stages", "allocate", "fill", "constants"}
      /\ UNCHANGED <<operands, builder, stack, objects, steps>>
  BY DEF FinishStep, EndStages, AllocateTensors, FillWeights, FillConstants, Keeps, plan
<1>2. phase' \in {"allocate", "fill", "constants", "finished", "aborted"}
  <2>1. CASE FillWeights
    <3>1. phase = "fill"
      BY <2>1 DEF FillWeights
    <3>2. phase' \in {"constants", "fill", "aborted"}
      <4>1. phase' = "constants" \/ phase' = phase \/ phase' = "aborted"
        BY <2>1, Zenon DEF FillWeights, GoTo, Abort
      <4> QED
        BY <3>1, <4>1
    <3> QED
      BY <3>2
  <2>2. CASE ~FillWeights
    BY <2>2 DEF EndStages, AllocateTensors, FillConstants, GoTo, Abort
  <2> QED
    BY <2>1, <2>2
<1>3. Finishing
  BY <1>1 DEF Finishing
<1>4. /\ ModelInv' /\ PhaseInv' /\ BuilderInv' /\ VisitInv' /\ Asked' = Asked
  <2>1. IsSeq(stack') /\ phase' # "plan"
    BY <1>1, <1>2, <1>3, AskedOperands
  <2> QED
    BY <1>1, <2>1, PlannedIsKept
<1>5. Asked \subseteq DOMAIN objects
  BY <1>1 DEF Inv, MadeInv
<1>6. MadeInv'
  BY <1>1, <1>2, <1>4, <1>5 DEF MadeInv
<1>7. ReadyInv'
  <2>1. Visited = DOMAIN operations
    BY <1>1 DEF Visited
  <2>2. \A o \in DOMAIN operations : operations[o].outs \subseteq DOMAIN objects
    BY <1>3, <1>5, <2>1 DEF Inv, VisitInv
  <2>3. UNCHANGED operations
    BY <1>1, FinishKeeps
  <2> QED
    BY <1>1, <2>2, <2>3 DEF ReadyInv
<1> QED
  BY <1>1, <1>4, <1>6, <1>7, StepsAreKept DEF Inv

\* Every step keeps the invariant.
LEMMA InvNext ==
  ASSUME Inv, [Next]_vars
  PROVE  Inv'
<1>1. CASE UNCHANGED vars
  <2>1. /\ UNCHANGED <<phase, k, finishes, todo, operands, operations, inputs, outputs, modelDone,
                       changed, opened, sources, sinks, builder, stack, objects, steps>>
    BY <1>1 DEF vars, compilationVars, executionVars, model, plan
  <2>2. /\ Finishing' = Finishing /\ Computing' = Computing /\ Asked' = Asked
        /\ Visited' = Visited /\ \A n : NoSplit(n)' = NoSplit(n)
    BY <2>1 DEF Finishing, Computing, Asked, Visited, NoSplit
  <2>3. ModelInv' /\ PhaseInv'
    BY <2>1, <2>2 DEF Inv, ModelInv, PhaseInv
  <2>4. BuilderInv' /\ VisitInv'
    BY <2>1, <2>2 DEF Inv, BuilderInv, VisitInv, StageInv, NoSplit
  <2>5. MadeInv' /\ ReadyInv' /\ StepsInv'
    BY <2>1, <2>2 DEF Inv, MadeInv, ReadyInv, StepsInv, NoSplit, IsAllocated
  <2> QED
    BY <2>3, <2>4, <2>5 DEF Inv
<1>2. CASE BuildModel /\ UNCHANGED executionVars
  BY <1>2, BuildInv
<1>3. CASE CreateCompilation /\ UNCHANGED executionVars
  BY <1>3, CallInv
<1>4. CASE StartFinish /\ UNCHANGED executionVars
  BY <1>4, StartFinishInv
<1>5. CASE FinishStep /\ UNCHANGED executionVars
  BY <1>5, VisitInvs, EndVisitsInv, ViewsInv, EndViewsInv, AddTensorInv, RunStageInv, AfterStagesInv
     DEF FinishStep
<1>6. CASE CreateExecution \/ StartCompute \/ SwitchProfiler
            \/ (\E n \in DOMAIN sources : SetInput(n)) \/ (\E n \in DOMAIN sinks : SetOutput(n))
  BY <1>6, CallInv
<1>7. CASE ComputeStep
  BY <1>7, ComputeInv
<1> QED
  BY <1>1, <1>2, <1>3, <1>4, <1>5, <1>6, <1>7 DEF Next

\* The invariant holds in every state of a client.
THEOREM Invariant == Spec => []Inv
BY InvInit, InvNext, PTL DEF Spec

-----------------------------------------------------------------------------
(* When finalize calls a stage, every tensor that the stage looks up has been  *)
(* made: each visit asks for the tensors that its stage takes, and the passes *)
(* over the views and the tensors make all that was asked for.                *)
THEOREM StagesFind == Spec => []StagesFindTheirTensors
<1>1. ASSUME Inv
      PROVE  StagesFindTheirTensors
  <2> SUFFICES ASSUME phase = "stages", k <= Len(builder.stages)
               PROVE  builder.stages[k].stage.lookups \subseteq DOMAIN objects
    BY DEF StagesFindTheirTensors
  <2>1. Finishing
    BY DEF Finishing
  <2>2. IsSeq(builder.stages) /\ \A j \in DOMAIN builder.stages : StageInv(j)
    BY <1>1, <2>1 DEF Inv, BuilderInv
  <2>3. k \in DOMAIN builder.stages
    BY <1>1, <2>1, <2>2, AskedOperands, SeqFacts
  <2>4. builder.stages[k].stage.lookups \subseteq Asked
    BY <2>2, <2>3 DEF StageInv, Asked
  <2> QED
    BY <1>1, <2>4 DEF Inv, MadeInv
<1> QED
  BY <1>1, Invariant, PTL

(* A function is profiled under the number of its operation unless a Split    *)
(* came before it: stages and operations are counted alike until then.        *)
THEOREM Profiling == Spec => []ProfiledByOperation
<1>1. Inv => ProfiledByOperation
  BY DEF Inv, StepsInv, ProfiledByOperation, NoSplit
<1> QED
  BY <1>1, Invariant, PTL

(* A step leaves the tensors alone, or makes one for an operand that has none: *)
(* its own tensor, or a view in a base that has one.                          *)
LEMMA ObjectSteps ==
  ASSUME [Next]_vars
  PROVE  \/ UNCHANGED objects
         \/ \E x : /\ ~IsAllocated(x)
                   /\ SetTensor(x) \/ (IsAllocated(builder.subs[x].base) /\ SetSubTensor(x))
<1>1. CASE FinishStep
  <2>1. CASE OwnTensor
    BY <2>1, Zenon DEF OwnTensor
  <2>2. CASE PartOfBase
    BY <2>2, Zenon DEF PartOfBase
  <2>3. CASE AddTensor
    BY <2>3, Zenon DEF AddTensor
  <2>4. CASE ~OwnTensor /\ ~PartOfBase /\ ~AddTensor
    BY <1>1, <2>4, Zenon DEF FinishStep, VisitNode, EndVisits, NextView, SkipAllocated, BaseFirst,
      EndViews, RunStage, EndStages, AllocateTensors, FillWeights, FillConstants, plan
  <2> QED
    BY <2>1, <2>2, <2>3, <2>4
<1>2. CASE ~FinishStep
  <2>1. CASE UNCHANGED vars
    BY <2>1 DEF vars, compilationVars, plan
  <2>2. CASE BuildModel \/ CreateCompilation \/ StartFinish
    BY <2>2 DEF BuildModel, AddOperand, SetOperandValue, AddOperation, AddOperationEx,
                IdentifyInputsAndOutputs, FinishModel, Issue, CreateCompilation, StartFinish, plan
  <2>3. CASE CreateExecution \/ StartCompute \/ SwitchProfiler
               \/ (\E n \in DOMAIN sources : SetInput(n)) \/ (\E n \in DOMAIN sinks : SetOutput(n))
    BY <2>3 DEF CreateExecution, SetInput, SetOutput, StartCompute, SwitchProfiler, Running,
                compilationVars, plan
  <2>4. CASE ComputeStep
    BY <2>4, Zenon DEF ComputeStep, PushInput, RunFunction, PullOutput, Running
  <2> QED
    BY <1>2, <2>1, <2>2, <2>3, <2>4 DEF Next
<1> QED
  BY <1>1, <1>2

(* A tensor or view is never replaced: both passes make one only for an        *)
(* operand that has none, in every finish.                                    *)
THEOREM TensorsAreNeverReplaced == Spec => TensorsStay
<1> DEFINE Stay == \A x \in DOMAIN objects : x \in DOMAIN objects' /\ objects'[x] = objects[x]
<1>1. ASSUME [Next]_vars
      PROVE  Stay
  <2>1. CASE UNCHANGED objects
    BY <2>1
  <2>2. ASSUME NEW x, ~IsAllocated(x), SetTensor(x) \/ SetSubTensor(x)
        PROVE  Stay
    <3>1. PICK o : objects' = Over([y \in {x} |-> o], objects)
      BY <2>2, Zenon DEF SetTensor, SetSubTensor
    <3> QED
      BY <2>2, <3>1 DEF Over, IsAllocated
  <2> QED
    BY <1>1, <2>1, <2>2, ObjectSteps
<1> QED
  BY <1>1, PTL DEF Spec, TensorsStay

\* The memory of a tensor or view is that of a tensor that is no view.
OwnersOwn ==
  \A x \in DOMAIN objects : LET y == objects[x].owner
                            IN  y \in DOMAIN objects /\ objects[y].owner = y

(* However deep the views of a model nest, and in whatever order they were     *)
(* made, the memory of each is that of one tensor that owns itself: the base  *)
(* of a view has its tensor when the view is made (compilation.cc:4076).      *)
THEOREM ViewsShareATensor == Spec => []OwnersOwn
<1>1. Init => OwnersOwn
  BY DEF Init, CompilationInit, OwnersOwn
<1>2. ASSUME OwnersOwn, [Next]_vars
      PROVE  OwnersOwn'
  <2>1. CASE UNCHANGED objects
    BY <1>2, <2>1 DEF OwnersOwn
  <2>2. ASSUME NEW x, ~IsAllocated(x),
               SetTensor(x) \/ (IsAllocated(builder.subs[x].base) /\ SetSubTensor(x))
        PROVE  OwnersOwn'
    <3>1. PICK o : /\ objects' = Over([y \in {x} |-> o], objects)
                   /\ \/ o.owner = x
                      \/ /\ IsAllocated(builder.subs[x].base)
                         /\ o.owner = objects[builder.subs[x].base].owner
      <4>1. CASE SetTensor(x)
        <5> DEFINE own == [owner |-> x, at |-> <<0, 0, 0, 0>>, shape |-> builder.infos[x]]
        <5>1. objects' = Over([y \in {x} |-> own], objects)
          BY <4>1, Zenon DEF SetTensor
        <5>2. own.owner = x
          OBVIOUS
        <5> HIDE DEF own
        <5> QED
          BY <5>1, <5>2
      <4>2. CASE IsAllocated(builder.subs[x].base) /\ SetSubTensor(x)
        <5> DEFINE sub == builder.subs[x]
                   base == objects[sub.base]
                   view == [owner |-> base.owner, at |-> Offset(base.at, sub.offset),
                            shape |-> sub.shape]
        <5>1. objects' = Over([y \in {x} |-> view], objects)
          BY <4>2, Zenon DEF SetSubTensor
        <5>2. view.owner = objects[builder.subs[x].base].owner
          OBVIOUS
        <5> HIDE DEF view
        <5> QED
          BY <4>2, <5>1, <5>2
      <4> QED
        BY <2>2, <4>1, <4>2
    <3>2. /\ DOMAIN objects' = DOMAIN objects \cup {x} /\ objects'[x] = o
          /\ \A y \in DOMAIN objects : objects'[y] = objects[y] /\ y # x
      BY <2>2, <3>1 DEF Over, IsAllocated
    <3>3. o.owner = x \/ (o.owner \in DOMAIN objects /\ objects[o.owner].owner = o.owner)
      BY <1>2, <3>1 DEF OwnersOwn, IsAllocated
    <3> QED
      BY <1>2, <3>2, <3>3 DEF OwnersOwn
  <2> QED
    BY <1>2, <2>1, <2>2, ObjectSteps
<1> QED
  BY <1>1, <1>2, PTL DEF Spec

(* A compute of a model whose outputs are results of operations, after a       *)
(* finish that no change of the model followed and with its ends set after    *)
(* that finish, does not end in the middle: no source or sink is null, and    *)
(* every output has its tensor.                                               *)
THEOREM ReadyToCompute == Spec => ReadyComputes
<1> DEFINE Ready == /\ PlanIsCurrent /\ WellDefined /\ EndsAreSet
                    /\ ToSet(outputs) \subseteq Before(Len(operations) + 1)
           Safe == Computing /\ phase' = "aborted" => ~Ready
<1>1. ASSUME Inv, [Next]_vars
      PROVE  Safe
  <2> SUFFICES ASSUME Computing, phase' = "aborted", Ready
               PROVE  FALSE
    OBVIOUS
  <2>1. (PushInput /\ phase = "push") \/ (PullOutput /\ phase = "pull")
    <3>1. phase # phase' /\ phase \notin Idle \cup {"finished"} /\ ~Finishing
      BY DEF Computing, Idle, Finishing
    <3>2. ~UNCHANGED vars
      BY <3>1 DEF vars, compilationVars
    <3>3. ~BuildModel /\ ~CreateCompilation /\ ~StartFinish
      BY <3>1 DEF BuildModel, AddOperand, SetOperandValue, AddOperation, AddOperationEx,
                  IdentifyInputsAndOutputs, FinishModel, CreateCompilation, StartFinish, Idle, Issue
    <3>4. ~(FinishStep /\ UNCHANGED executionVars)
      BY <1>1, <3>1, FinishKeeps
    <3>5. ~CreateExecution /\ ~StartCompute /\ ~SwitchProfiler
          /\ ~(\E n \in DOMAIN sources : SetInput(n)) /\ ~(\E n \in DOMAIN sinks : SetOutput(n))
      BY <3>1 DEF CreateExecution, StartCompute, SwitchProfiler, SetInput, SetOutput, Settable, Idle
    <3>6. ~RunFunction
      <4>1. RunFunction => phase' = "pull" \/ phase' = phase
        BY Zenon DEF RunFunction, GoTo
      <4> QED
        BY <3>1, <4>1
    <3>7. PushInput \/ PullOutput
      BY <1>1, <3>2, <3>3, <3>4, <3>5, <3>6 DEF Next, ComputeStep
    <3> QED
      BY <3>7, Zenon DEF PushInput, PullOutput
  <2>2. /\ finishes > 0 /\ ~changed /\ finishes \in Nat /\ k \in Nat /\ k >= 1
        /\ DOMAIN sources = DOMAIN inputs /\ DOMAIN sinks = DOMAIN outputs
        /\ inputs \in Seq(Nat) /\ outputs \in Seq(Nat) /\ operations \in Seq(Nodes)
    BY <1>1 DEF Inv, PhaseInv, ModelInv, PlanIsCurrent
  <2>3. /\ \A n \in DOMAIN sources : sources[n] # Null
        /\ \A n \in DOMAIN sinks : sinks[n] # Null
    BY <2>2 DEF EndsAreSet, Null
  <2>4. CASE PushInput /\ phase = "push"
    <3>1. k <= Len(inputs) /\ sources[k] = Null
      <4>1. phase' = "run" \/ phase' = phase \/ (~(k > Len(inputs)) /\ sources[k] = Null)
        BY <2>4, Zenon DEF PushInput, GoTo
      <4>2. phase' # "run" /\ phase' # phase
        BY <2>4
      <4>3. Len(inputs) \in Nat
        BY <2>2
      <4> QED
        BY <2>2, <4>1, <4>2, <4>3
    <3> QED
      BY <2>2, <2>3, <3>1
  <2>5. CASE PullOutput /\ phase = "pull"
    <3>1. k <= Len(outputs) /\ (~IsAllocated(outputs[k]) \/ sinks[k] = Null)
      <4>1. \/ phase' = (IF finishes = 0 THEN "created" ELSE "finished") \/ phase' = phase
            \/ ~(k > Len(outputs)) /\ (~IsAllocated(outputs[k]) \/ sinks[k] = Null)
        BY <2>5, Zenon DEF PullOutput
      <4>2. phase' # "created" /\ phase' # "finished" /\ phase' # phase
        BY <2>5
      <4>3. Len(outputs) \in Nat
        BY <2>2
      <4> QED
        BY <2>2, <4>1, <4>2, <4>3
    <3>2. k \in DOMAIN outputs
      BY <2>2, <3>1
    <3>3. outputs[k] \in Before(Len(operations) + 1)
      BY <3>2 DEF ToSet
    <3>4. PICK o \in 1 .. Len(operations) : outputs[k] \in operations[o].outs
      BY <2>2, <3>3 DEF Before
    <3>5. o \in DOMAIN operations
      BY <2>2
    <3>6. outputs[k] \in DOMAIN objects
      BY <1>1, <2>2, <2>5, <3>4, <3>5 DEF Inv, ReadyInv
    <3> QED
      BY <2>2, <2>3, <3>1, <3>2, <3>6 DEF IsAllocated
  <2> QED
    BY <2>1, <2>4, <2>5
<1> QED
  BY <1>1, Invariant, PTL DEF Spec, ReadyComputes

-----------------------------------------------------------------------------
(* The client uses the profiler as its class is meant to be used: every step  *)
(* of a client is a call of the profiler or leaves it alone.                  *)
LEMMA ProfilerSteps ==
  ASSUME Nat \subseteq OpIndex, Inv, [Next]_vars
  PROVE  [ProfileNext]_profile
<1>1. CASE UNCHANGED vars
  BY <1>1 DEF vars
<1>2. CASE (BuildModel \/ CreateCompilation \/ StartFinish \/ FinishStep)
             /\ UNCHANGED <<profile, executionVars>>
  BY <1>2
<1>3. CASE CreateExecution \/ StartCompute
             \/ (\E n \in DOMAIN sources : SetInput(n)) \/ (\E n \in DOMAIN sinks : SetOutput(n))
  BY <1>3 DEF CreateExecution, SetInput, SetOutput, StartCompute
<1>4. CASE SwitchProfiler
  BY <1>4 DEF SwitchProfiler, ProfileNext
<1>5. CASE PushInput \/ PullOutput
  BY <1>5, Zenon DEF PushInput, PullOutput
<1>6. CASE RunFunction
  <2>1. phase = "run" /\ (k > Len(steps) => UNCHANGED profile)
        /\ (~(k > Len(steps)) => Profiled(steps[k].op_idx) \/ NotProfiled)
    BY <1>6, Zenon DEF RunFunction
  <2>2. CASE k > Len(steps)
    BY <2>1, <2>2
  <2>3. CASE ~(k > Len(steps))
    <3>1. k \in Nat /\ k >= 1 /\ IsSeq(steps)
      BY <2>1 DEF Inv, PhaseInv, StepsInv, Computing
    <3>2. k \in DOMAIN steps
      BY <2>3, <3>1, SeqFacts
    <3>3. steps[k].op_idx \in OpIndex
      BY <3>2 DEF Inv, StepsInv
    <3>4. CASE Profiled(steps[k].op_idx)
      BY <3>3, <3>4 DEF ProfileNext
    <3>5. CASE NotProfiled
      BY <3>5 DEF NotProfiled
    <3> QED
      BY <2>1, <2>3, <3>4, <3>5
  <2> QED
    BY <2>2, <2>3
<1> QED
  BY <1>1, <1>2, <1>3, <1>4, <1>5, <1>6 DEF Next, ComputeStep

(* A client implements the profiler: whatever is proved of the profiler holds  *)
(* when a client's executions record in it.  The number of an operation is    *)
(* any natural number; only the instances for TLC bound it.                   *)
THEOREM ClientProfiles ==
  ASSUME Nat \subseteq OpIndex
  PROVE  Spec => ProfileSpec
<1>1. Init => ProfileInit
  BY DEF Init
<1>2. Inv /\ [Next]_vars => [ProfileNext]_profile
  BY ProfilerSteps
<1> QED
  BY <1>1, <1>2, Invariant, PTL DEF Spec, ProfileSpec

(* Of the operations a client has run, the profile shows the last ones in their *)
(* order, and each with its end until the ring wraps.                          *)
THEOREM ClientsLog ==
  ASSUME Nat \subseteq OpIndex
  PROVE  Spec => LogsTheLastEvents /\ []EndedUntilTheRingWraps
BY ClientProfiles, LogsTheLastEventsHolds, EndedUntilTheRingWrapsHolds, PTL
=============================================================================
