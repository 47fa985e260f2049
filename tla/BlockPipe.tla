------------------------------ MODULE BlockPipe -----------------------------
(***************************************************************************)
(* What the transmit side of a DAHDI channel promises the process that     *)
(* writes to it: every accepted block goes to the line whole, once and in  *)
(* the order of the writes, however the interrupt cuts it into chunks; at  *)
(* most Capacity blocks wait.  A channel with repeating set (MTP2 links)   *)
(* sends its last block again and again until another one is accepted.     *)
(* Only a flush, a hangup, a change of buffers or a close discards blocks. *)
(***************************************************************************)
EXTENDS Integers, Sequences

CONSTANTS
  Tags,       \* what distinguishes one block's data from another's
  MaxLen      \* the longest block

VARIABLES
  queue,      \* the blocks not completely sent, oldest first
  capacity,   \* how many blocks may wait
  repeating,  \* whether the last block is repeated, for good
  sent,       \* the piece that went to the line last
  discarded   \* flips whenever blocks are discarded, so that nothing else may

pipeVars == <<queue, capacity, repeating, sent, discarded>>

\* "from" bytes of the block have gone to the line.
Block == [tag : Tags, from : 0 .. MaxLen, len : 0 .. MaxLen]
Nothing == [tag |-> CHOOSE t \in Tags : TRUE, from |-> 0, to |-> 0]

Init ==
  /\ queue = <<>>
  /\ capacity \in Nat /\ repeating \in BOOLEAN
  /\ sent = Nothing
  /\ discarded = FALSE

Accept(tag, len) ==
  /\ Len(queue) < capacity
  /\ queue' = Append(queue, [tag |-> tag, from |-> 0, len |-> len])
  /\ UNCHANGED <<capacity, repeating, sent, discarded>>

(* The next n bytes of the oldest block go to the line. *)
Emit(n) ==
  LET head == Head(queue)
      upto == head.from + n
  IN  /\ queue # <<>>
      /\ upto <= head.len
      /\ sent' = [tag |-> head.tag, from |-> head.from, to |-> upto]
      /\ queue' = IF upto < head.len
                  THEN [queue EXCEPT ![1].from = upto]
                  ELSE IF repeating /\ Len(queue) = 1
                       THEN [queue EXCEPT ![1].from = 0]
                       ELSE Tail(queue)
      /\ UNCHANGED <<capacity, repeating, discarded>>

Discard ==
  /\ queue' = <<>>
  /\ capacity' \in Nat
  /\ discarded' = ~discarded
  /\ UNCHANGED <<repeating, sent>>

Next ==
  \/ \E tag \in Tags, len \in 0 .. MaxLen : Accept(tag, len)
  \/ \E n \in 0 .. MaxLen : Emit(n)
  \/ Discard

Spec == Init /\ [][Next]_pipeVars
=============================================================================
