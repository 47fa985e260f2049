------------------------------ MODULE SpanList ------------------------------
(***************************************************************************)
(* Where a span goes when it is assigned (dahdi-base.c): span_list is in   *)
(* the order of the span numbers, and the channels of the spans are        *)
(* numbered upwards along it.  Without a number of its own a span takes    *)
(* the first place where its channels fit; with one it is checked.  All of *)
(* it holds registration_mutex.                                            *)
(*                                                                         *)
(* The sysfs entry of a span is named after its number, so that creating   *)
(* one for a number that is taken fails; the kernel's part in this is      *)
(* modelled as TakesName.                                                  *)
(***************************************************************************)
EXTENDS Integers, SequencesExt

CONSTANTS
  Spans,
  channels,   \* span -> how many channels it has
  Assignments \* what assign_span is asked for: [spanno, basechan], spanno 0
              \* for the first place that is free

ASSUME SpanListAssumption ==
  /\ channels \in [Spans -> Nat \ {0}]
  /\ Assignments \subseteq [spanno : Nat, basechan : Nat]
  /\ \A r \in Assignments : r.spanno # 0 => r.basechan # 0

VARIABLES
  span_list,  \* the assigned spans, as a sequence
  spanno,     \* span -> its number, 0 for none
  channo      \* span -> the number of its first channel

spanVars == <<span_list, spanno, channo>>

SpansInit ==
  /\ span_list = <<>>
  /\ spanno = [s \in Spans |-> 0]
  /\ channo = [s \in Spans |-> -1]

Listed == ToSet(span_list)

(* The number after those of the channels of span s. *)
End(s) == channo[s] + channels[s]

Place(no, base) == [spanno |-> no, basechan |-> base]
-----------------------------------------------------------------------------
(* A variant with a plausible slip: the last channel is left out. *)
FitsTight(s, place, pos) ==
  spanno[pos] > place.spanno /\ place.basechan + channels[s] <= channo[pos] + 1

(* Whether s, put at place, leaves the span pos where it is. *)
FitsBefore(s, place, pos) ==
  spanno[pos] > place.spanno /\ place.basechan + channels[s] <= channo[pos]

(* Just behind the i-th span of the list; before all of them for 0. *)
PlaceAfter(i) ==
  IF i = 0 THEN Place(1, 1) ELSE Place(spanno[span_list[i]] + 1, End(span_list[i]))

(* _assign_spanno_and_basechan: behind the first span after which there is *)
(* room before the next one.                                               *)
first_place(s) ==
  LET room == {i \in 0..Len(span_list) :
                 i < Len(span_list) => FitsBefore(s, PlaceAfter(i), span_list[i + 1])}
  IN  PlaceAfter(Min(room))

(* _check_spanno_and_basechan: the spans up to the first one with a higher *)
(* number are looked at.                                                   *)
place_is_free(s, r) ==
  /\ \A pos \in Listed : spanno[pos] <= r.spanno => End(pos) <= r.basechan
  /\ \A i \in 1..Len(span_list) :
       /\ spanno[span_list[i]] > r.spanno
       /\ \A j \in 1..i - 1 : spanno[span_list[j]] <= r.spanno
       => r.basechan + channels[s] <= channo[span_list[i]]

TakesName(no) == \A pos \in Listed : spanno[pos] # no

(* _dahdi_add_span_to_span_list: before the first span with a higher       *)
(* number, or at the end.                                                  *)
Before(no) ==
  IF \E i \in 1..Len(span_list) : spanno[span_list[i]] > no
    THEN CHOOSE i \in 1..Len(span_list) :
           /\ spanno[span_list[i]] > no
           /\ \A j \in 1..i - 1 : spanno[span_list[j]] <= no
    ELSE Len(span_list) + 1

PlaceFor(s, r) == IF r.spanno = 0 THEN first_place(s) ELSE r

(* _dahdi_assign_span puts span s on the list. *)
list_span(s, r) ==
  LET place == PlaceFor(s, r)
  IN  /\ s \notin Listed
      /\ r.spanno # 0 => place_is_free(s, r)
      /\ TakesName(place.spanno)
      /\ span_list' = InsertAt(span_list, Before(place.spanno), s)
      /\ spanno' = [spanno EXCEPT ![s] = place.spanno]
      /\ channo' = [channo EXCEPT ![s] = place.basechan]

(* Its name is taken: the channels are unregistered again. *)
list_span_fails(s, r) ==
  LET place == PlaceFor(s, r)
  IN  /\ s \notin Listed
      /\ r.spanno # 0 => place_is_free(s, r)
      /\ ~TakesName(place.spanno)
      /\ spanno' = [spanno EXCEPT ![s] = place.spanno]
      /\ UNCHANGED <<span_list, channo>>

(* _dahdi_unassign_span takes it off. *)
unlist_span(s) ==
  /\ s \in Listed
  /\ span_list' = RemoveAt(span_list, CHOOSE i \in 1..Len(span_list) : span_list[i] = s)
  /\ spanno' = [spanno EXCEPT ![s] = 0]
  /\ channo' = [channo EXCEPT ![s] = -1]
-----------------------------------------------------------------------------
(* The spans of the list, and their channels, are in the order of their    *)
(* numbers, and no number is given twice.                                  *)
SpansInOrder ==
  \A i \in 1..Len(span_list) - 1 :
    LET s == span_list[i]
        t == span_list[i + 1]
    IN  spanno[s] < spanno[t] /\ End(s) <= channo[t]

(* What it means for s to fit: no other number, and no other channel       *)
(* number, is its own, and the order is kept.                              *)
Fits(s, place) ==
  \A pos \in Listed :
    \/ spanno[pos] < place.spanno /\ End(pos) <= place.basechan
    \/ spanno[pos] > place.spanno /\ place.basechan + channels[s] <= channo[pos]

(* The places up to just after the last span. *)
PlacesAtHand ==
  LET no == IF span_list = <<>> THEN 1 ELSE spanno[Last(span_list)] + 1
      base == IF span_list = <<>> THEN 1 ELSE End(Last(span_list))
  IN  [spanno : 1..no, basechan : 1..base]

(* A span that asks for a place gets it exactly when it fits there, and    *)
(* one that asks for none gets the lowest channels it fits at.             *)
PlacesFit ==
  \A s \in Spans \ Listed :
    /\ Fits(s, first_place(s))
    /\ \A p \in PlacesAtHand : Fits(s, p) => first_place(s).basechan <= p.basechan
    /\ \A p \in PlacesAtHand : place_is_free(s, p) /\ TakesName(p.spanno) <=> Fits(s, p)

(* One numbering: no span or channel number is given twice, and none is    *)
(* refused that could be given (_assign_spanno_and_basechan,               *)
(* _check_spanno_and_basechan, _dahdi_add_span_to_span_list).              *)
ListSound == SpansInOrder /\ PlacesFit
=============================================================================
