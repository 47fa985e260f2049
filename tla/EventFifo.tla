----------------------------- MODULE EventFifo -----------------------------
(***************************************************************************)
(* What a DAHDI channel promises the process that holds it open about      *)
(* out-of-band events: they are delivered once each, in the order in which *)
(* they were raised; when Capacity of them are undelivered a newer one is  *)
(* dropped, an older one never is; flushing forgets all of them.           *)
(***************************************************************************)
EXTENDS Naturals, Sequences

CONSTANTS
  Events,   \* event codes
  NoEvent,  \* DAHDI_EVENT_NONE, what is delivered when nothing is pending
  Capacity  \* how many undelivered events a channel remembers

VARIABLES
  pending,  \* the undelivered events, oldest first
  answer,   \* what the last DAHDI_GETEVENT returned
  flushed   \* flips on every flush, so that only a flush may forget

fifoVars == <<pending, answer, flushed>>

Init ==
  /\ pending = <<>>
  /\ answer = NoEvent
  /\ flushed = FALSE

Raise(event) ==
  /\ pending' = IF Len(pending) < Capacity THEN Append(pending, event) ELSE pending
  /\ UNCHANGED <<answer, flushed>>

Deliver ==
  /\ answer'  = IF pending = <<>> THEN NoEvent ELSE Head(pending)
  /\ pending' = IF pending = <<>> THEN <<>> ELSE Tail(pending)
  /\ UNCHANGED flushed

Forget ==
  /\ pending' = <<>>
  /\ flushed' = ~flushed
  /\ UNCHANGED answer

Next ==
  \/ \E event \in Events : Raise(event)
  \/ Deliver
  \/ Forget

Spec == Init /\ [][Next]_fifoVars
=============================================================================
