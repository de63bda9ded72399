--------------------------- MODULE ProfileBuffer ---------------------------
(***************************************************************************)
(* tflite::profiling::ProfileBuffer (include/util/profiling): the ring of  *)
(* the last MaxEntries profile events, in a build with                     *)
(* TFLITE_PROFILING_ENABLED.  An event carries the index of an operation,  *)
(* and whether its end was stamped.  ScopedOperatorProfile begins an event *)
(* when an operation starts and ends it when the operation returns;        *)
(* nothing else touches the buffer in between, so that both are one step.  *)
(***************************************************************************)
EXTENDS Integers, Sequences

CONSTANTS MaxEntries,   \* 1024 in Profiler
          OpIndex       \* the indices an event may carry

ASSUME MaxEntriesAssumption == MaxEntries \in Nat \ {0}
ASSUME OpIndexAssumption == 0 \in OpIndex

VARIABLES enabled,   \* enabled_
          current,   \* current_index_, the number of events since Reset
          events     \* event_buffer_

profile == <<enabled, current, events>>

ProfileEvent == [op : OpIndex, ended : BOOLEAN]

ProfileTypeOK ==
  /\ enabled \in BOOLEAN
  /\ current \in Nat
  /\ events \in [0 .. MaxEntries - 1 -> ProfileEvent]

ProfileInit ==
  /\ enabled = FALSE
  /\ current = 0
  /\ events = [i \in 0 .. MaxEntries - 1 |-> [op |-> 0, ended |-> FALSE]]

SetEnabled(on) == enabled' = on /\ UNCHANGED <<current, events>>

Reset == enabled' = FALSE /\ current' = 0 /\ UNCHANGED events

\* Faults: a handle is out of range one early; the ring is read from slot 0
StampsOneEarly(handle, count) == handle < count - 1 /\ count <= MaxEntries + handle
AtFromZero(index) == events[index]

\* EndEvent, after count events have begun: whether it stamps the event that
\* began with this handle.
Stamps(handle, count) == handle <= count /\ count <= MaxEntries + handle

\* BeginEvent, which returns the slot as the handle, and EndEvent.
Profiled(op) ==
  /\ enabled
  /\ current' = current + 1
  /\ LET handle == current % MaxEntries
     IN  events' = [events EXCEPT ![handle] =
                      [op |-> op, ended |-> Stamps(handle, current + 1)]]
  /\ UNCHANGED enabled

NotProfiled == ~enabled /\ UNCHANGED profile

Size == IF current >= MaxEntries THEN MaxEntries ELSE current

\* At, for an index below Size
At(index) ==
  LET start == IF current > MaxEntries THEN current % MaxEntries ELSE MaxEntries
  IN  events[(index + start) % MaxEntries]

ProfileNext ==
  \/ \E on \in BOOLEAN : SetEnabled(on)
  \/ Reset
  \/ \E op \in OpIndex : Profiled(op)

ProfileSpec == ProfileInit /\ [][ProfileNext]_profile

-----------------------------------------------------------------------------
(* GetProfileEvents reads the last MaxEntries operations, the oldest first:  *)
(* the ring, read through At, implements the window of EventWindow.          *)
Log == INSTANCE EventWindow
         WITH Capacity <- MaxEntries, Event <- OpIndex, enabled <- enabled,
              window <- [i \in 1 .. Size |-> At(i - 1).op]

LogsTheLastEvents == Log!Spec

(* Until the ring wraps, every event of the log has its end: the comment of  *)
(* EndEvent promises no effect only for an event that was overwritten.       *)
EndedUntilTheRingWraps ==
  current <= MaxEntries => \A i \in 1 .. Size : At(i - 1).ended
=============================================================================
