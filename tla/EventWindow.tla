---------------------------- MODULE EventWindow ----------------------------
(***************************************************************************)
(* What a profile buffer promises, without saying how: it keeps the last   *)
(* Capacity events recorded while it was enabled, the oldest first.        *)
(***************************************************************************)
EXTENDS Integers, Sequences

CONSTANTS Capacity, Event


VARIABLES enabled, window

vars == <<enabled, window>>

Init == enabled \in BOOLEAN /\ window = <<>>

Switch ==
  /\ enabled' \in BOOLEAN
  /\ UNCHANGED window

Record(e) ==
  /\ enabled
  /\ window' = IF Len(window) < Capacity THEN Append(window, e)
               ELSE Append(Tail(window), e)
  /\ UNCHANGED enabled

Clear ==
  /\ enabled' = FALSE
  /\ window' = <<>>

Next == Switch \/ Clear \/ \E e \in Event : Record(e)

Spec == Init /\ [][Next]_vars
=============================================================================
