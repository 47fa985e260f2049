---------------------------- MODULE MessagePipe -----------------------------
(***************************************************************************)
(* What the receive side of a DAHDI channel promises the process that      *)
(* reads it: each message the line completed and a buffer was free for is  *)
(* handed out whole, once and in order of arrival, by one read(), which    *)
(* gets its first count bytes; at most capacity messages wait.             *)
(***************************************************************************)
EXTENDS Integers, Sequences

CONSTANTS
  Bytes,    \* the values of a byte
  MaxLen    \* the longest message

VARIABLES
  queue,     \* the messages nobody has read, oldest first
  capacity,  \* how many messages may wait
  answer,    \* what the last read() returned
  discarded  \* flips whenever messages are discarded, so that nothing else may

pipeVars == <<queue, capacity, answer, discarded>>

Messages == UNION {[1 .. n -> Bytes] : n \in 1 .. MaxLen}

Init ==
  /\ queue = <<>>
  /\ capacity \in Nat
  /\ answer = <<>>
  /\ discarded = FALSE

Receive(message) ==
  /\ Len(queue) < capacity
  /\ queue' = Append(queue, message)
  /\ UNCHANGED <<capacity, answer, discarded>>

Deliver(count) ==
  /\ queue # <<>>
  /\ answer' = SubSeq(Head(queue), 1, IF count < Len(Head(queue)) THEN count
                                      ELSE Len(Head(queue)))
  /\ queue' = Tail(queue)
  /\ UNCHANGED <<capacity, discarded>>

Discard ==
  /\ queue' = <<>>
  /\ capacity' \in Nat
  /\ discarded' = ~discarded
  /\ UNCHANGED answer

Next ==
  \/ \E message \in Messages : Receive(message)
  \/ \E count \in 1 .. MaxLen : Deliver(count)
  \/ Discard

Spec == Init /\ [][Next]_pipeVars
=============================================================================
