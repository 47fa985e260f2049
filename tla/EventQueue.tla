----------------------------- MODULE EventQueue -----------------------------
(***************************************************************************)
(* The event ring of a DAHDI channel (dahdi-base.c): interrupt handlers,   *)
(* ioctls and board drivers put events in with __qevent, the process that  *)
(* holds the channel takes them out with DAHDI_GETEVENT.  Every operation  *)
(* runs under chan->lock, so each is one step.                             *)
(*                                                                         *)
(* The two indices are equal when the ring is empty; one slot is therefore *)
(* always left unused and the ring is full when eventinidx is the slot     *)
(* before eventoutidx.                                                     *)
(***************************************************************************)
EXTENDS Integers, Sequences

CONSTANTS
  Events,               \* the event codes that are raised
  NoEvent,              \* DAHDI_EVENT_NONE
  DAHDI_MAX_EVENTSIZE   \* slots of eventbuf

ASSUME MaxEventSizeAssumption == DAHDI_MAX_EVENTSIZE \in Nat /\ DAHDI_MAX_EVENTSIZE >= 2
ASSUME NoEventAssumption == NoEvent \notin Events

VARIABLES
  eventbuf,     \* slot -> event, NoEvent in a slot never written
  eventinidx,   \* the slot __qevent fills next
  eventoutidx,  \* the slot DAHDI_GETEVENT empties next
  answer,       \* what the last DAHDI_GETEVENT put into user memory
  flushed       \* history: flips on every flush

queueVars == <<eventbuf, eventinidx, eventoutidx, answer, flushed>>

Slots == 0 .. DAHDI_MAX_EVENTSIZE - 1

(* Advance an index and wrap it at the end of the array. *)
NextIdx(idx) == IF idx + 1 >= DAHDI_MAX_EVENTSIZE THEN 0 ELSE idx + 1

(* A variant with a plausible slip: the second "if full, ignore" dropped.   *)
FullOnlyAtWrap == eventoutidx = 0 /\ eventinidx = DAHDI_MAX_EVENTSIZE - 1

Full ==
  \/ eventoutidx = 0 /\ eventinidx = DAHDI_MAX_EVENTSIZE - 1
  \/ eventinidx = eventoutidx - 1

-----------------------------------------------------------------------------

QueueInit ==
  /\ eventbuf = [s \in Slots |-> NoEvent]
  /\ eventinidx = 0
  /\ eventoutidx = 0
  /\ answer = NoEvent
  /\ flushed = FALSE

(* __qevent: store the event and advance, or do nothing when full. *)
qevent(code) ==
  /\ IF Full
     THEN UNCHANGED <<eventbuf, eventinidx>>
     ELSE /\ eventbuf' = [eventbuf EXCEPT ![eventinidx] = code]
          /\ eventinidx' = NextIdx(eventinidx)
  /\ UNCHANGED <<eventoutidx, answer, flushed>>

(* DAHDI_GETEVENT. *)
getevent ==
  /\ IF eventinidx # eventoutidx
     THEN /\ answer' = eventbuf[eventoutidx]
          /\ eventoutidx' = NextIdx(eventoutidx)
     ELSE /\ answer' = NoEvent
          /\ UNCHANGED eventoutidx
  /\ UNCHANGED <<eventbuf, eventinidx, flushed>>

(* DAHDI_FLUSH with DAHDI_FLUSH_EVENT; close_channel and                   *)
(* initialize_channel reset the indices the same way.                      *)
flush_event ==
  /\ eventinidx' = 0
  /\ eventoutidx' = 0
  /\ flushed' = ~flushed
  /\ UNCHANGED <<eventbuf, answer>>

QueueNext ==
  \/ \E code \in Events : qevent(code)
  \/ getevent
  \/ flush_event

QueueSpec == QueueInit /\ [][QueueNext]_queueVars

-----------------------------------------------------------------------------
(* Refinement of EventFifo. *)

Count == IF eventinidx >= eventoutidx
         THEN eventinidx - eventoutidx
         ELSE eventinidx - eventoutidx + DAHDI_MAX_EVENTSIZE

(* The slot of the i-th undelivered event. *)
SlotOf(i) == IF eventoutidx + i - 1 < DAHDI_MAX_EVENTSIZE
             THEN eventoutidx + i - 1
             ELSE eventoutidx + i - 1 - DAHDI_MAX_EVENTSIZE

Pending == [i \in 1 .. Count |-> eventbuf[SlotOf(i)]]

Fifo == INSTANCE EventFifo
          WITH pending <- Pending, Capacity <- DAHDI_MAX_EVENTSIZE - 1

(* Both indices stay inside eventbuf and every slot between them holds an  *)
(* event that was raised: __qevent writes and DAHDI_GETEVENT reads         *)
(* eventbuf at these indices without any other check.                      *)
QueueTypeOK ==
  /\ eventbuf \in [Slots -> Events \cup {NoEvent}]
  /\ eventinidx \in Slots
  /\ eventoutidx \in Slots
  /\ answer \in Events \cup {NoEvent}
  /\ flushed \in BOOLEAN
  /\ \A i \in 1 .. Count : eventbuf[SlotOf(i)] \in Events

(* The ring delivers what EventFifo promises: in order, once each, newest  *)
(* dropped when DAHDI_MAX_EVENTSIZE - 1 are waiting (__qevent,             *)
(* DAHDI_GETEVENT, DAHDI_FLUSH_EVENT).                                     *)
ImplementsFifo == Fifo!Spec
=============================================================================
