------------------------------ MODULE TcCommand ------------------------------
(***************************************************************************)
(* How the driver of the transcoder cards (wctc4xxp/base.c) gives commands *)
(* to the DSP.  A command is a frame on the transmit ring, or on cmd_list  *)
(* while the ring is full; it waits on waiting_for_response_list, is sent  *)
(* again by the watchdog while no answer comes, and given up in the end.   *)
(*                                                                         *)
(* One thread at a time, the caller, holds chansem and uses one buffer     *)
(* (tcb) for a row of commands.  The others that transmit: the writers of  *)
(* voice packets, the work queue, which frees the ring and takes answers   *)
(* off the other ring, and the watchdog.  A frame that the full ring has   *)
(* refused is put on cmd_list under another lock, and later.               *)
(***************************************************************************)
EXTENDS Integers, FiniteSets, SequencesExt

CONSTANTS
  RING,          \* descriptors of the transmit ring
  SEQUENCE,      \* sequence numbers of commands
  MAX_RETRIES,
  LateAnswers,   \* an answer may come after the command was given up
  MaxAnswers,    \* bound: answers under way
  MaxPackets,    \* bound: packets that are not yet sent
  None

ASSUME TcCommandAssumption ==
  /\ RING \in Nat \ {0} /\ SEQUENCE \in Nat \ {0}
  /\ MAX_RETRIES \in Nat /\ MaxAnswers \in Nat /\ MaxPackets \in Nat
  /\ LateAnswers \in BOOLEAN

VARIABLES
  tcb,        \* the buffer of the caller's command
  node,       \* the list it is on
  completed,  \* its completion
  todo,       \* commands the caller has yet to give
  tx,         \* frames of the transmit ring; own: not yet sent
  cmd_list,
  refused,    \* who -> its frame that is not yet on cmd_list, and what comes next
  at,         \* who -> what it does next
  armed,      \* the watchdog is armed
  expired,    \* the timeout of the command has passed
  answers,    \* answers under way; stale: to an earlier command
  seq_num, last_rx_seq_num,
  shutdown,   \* DTE_SHUTDOWN
  missed,     \* history: the last frame came to cmd_list after the ring had emptied
  stalled     \* history: a command was given up before it was on ring or list

command == <<tcb, node, completed>>
rings   == <<tx, cmd_list, refused, missed>>
timer   == <<armed, expired>>
numbers == <<seq_num, last_rx_seq_num>>
tcVars  == <<command, todo, rings, at, timer, answers, numbers, shutdown, stalled>>

Who == {"caller", "writer", "work", "watchdog"}

(* CREATE and DESTROY go to the supervisor, VOPENA to a channel. *)
Supervisor == {"CREATE_CHANNEL", "DESTROY_CHANNEL"}

Fresh == [function |-> None, seq |-> 0, wait |-> FALSE, sent |-> FALSE,
          timeout |-> FALSE, retries |-> 0, response |-> "none"]

NoFrame == [frame |-> "none", next |-> "rest"]

TcInit ==
  /\ tcb = Fresh /\ node = "free" /\ completed = 0
  /\ todo = <<>>
  /\ tx = <<>> /\ cmd_list = <<>>
  /\ refused = [w \in Who |-> NoFrame]
  /\ missed = FALSE /\ stalled = FALSE
  /\ at = [w \in Who |-> "rest"]
  /\ armed = FALSE /\ expired = FALSE
  /\ answers = <<>>
  /\ seq_num = 0 /\ last_rx_seq_num = -1
  /\ shutdown = FALSE

Is(w, place) == at[w] = place
Goes(w, place) == at' = [at EXCEPT ![w] = place]
-----------------------------------------------------------------------------
(* Transmitting *)

(* wctc4xxp_transmit_cmd up to wctc4xxp_submit, by w, which goes on at     *)
(* next.  The board is halted: the command ends.  The ring is full: w has  *)
(* yet to put the frame aside.  t is the tcb to be.                        *)
Transmit(w, frame, next, t) ==
  LET isCommand == frame = "command"
      room == Len(tx) < RING
  IN  IF shutdown
        THEN /\ tcb' = IF isCommand THEN [t EXCEPT !.timeout = TRUE] ELSE t
             /\ node' = IF isCommand THEN "free" ELSE node
             /\ completed' = IF isCommand THEN completed + 1 ELSE completed
             /\ Goes(w, next)
             /\ UNCHANGED <<tx, refused, timer>>
        ELSE /\ tcb' = t
             /\ node' = IF ~isCommand THEN node ELSE IF t.wait THEN "waiting" ELSE "free"
             /\ armed' = (armed \/ (isCommand /\ t.wait))
             /\ expired' = (expired /\ ~(isCommand /\ t.wait))
             /\ IF room
                  THEN /\ tx' = Append(tx, [frame |-> frame, own |-> TRUE])
                       /\ Goes(w, next) /\ UNCHANGED refused
                  ELSE /\ refused' = [refused EXCEPT ![w] = [frame |-> frame, next |-> next]]
                       /\ Goes(w, IF isCommand THEN "full" ELSE "queue") /\ UNCHANGED tx
             /\ UNCHANGED completed

(* wctc4xxp_remove_from_response_list, which does nothing to a packet. *)
take_off(w) ==
  /\ Is(w, "full")
  /\ node' = "free"
  /\ Goes(w, "queue")
  /\ UNCHANGED <<tcb, completed, todo, rings, timer, answers, numbers, shutdown, stalled>>

(* No frame is left on the ring, and nobody has yet to look at cmd_list. *)
NoneToPull == tx = <<>> /\ \A v \in Who : ~Is(v, "pull")

(* wctc4xxp_add_to_command_list: "the interrupt service routine will pull  *)
(* from this list as it clears up room".                                   *)
queue(w) ==
  /\ Is(w, "queue")
  /\ cmd_list' = Append(cmd_list, refused[w].frame)
  /\ node' = IF refused[w].frame = "command" THEN "pending" ELSE node
  /\ refused' = [refused EXCEPT ![w] = NoFrame]
  /\ missed' = NoneToPull
  /\ Goes(w, refused[w].next)
  /\ UNCHANGED <<tcb, completed, todo, tx, timer, answers, numbers, shutdown, stalled>>

Packets == Cardinality({i \in DOMAIN tx : tx[i].frame = "packet"})
           + Cardinality({i \in DOMAIN cmd_list : cmd_list[i] = "packet"})
           + Cardinality({w \in Who : refused[w].frame = "packet"})

(* A voice packet, wctc4xxp_write, or an acknowledgement the board asked   *)
(* for, wctc4xxp_send_ack.                                                 *)
write ==
  /\ Is("writer", "rest")
  /\ ~shutdown
  /\ Packets < MaxPackets
  /\ Transmit("writer", "packet", "rest", tcb)
  /\ UNCHANGED <<todo, cmd_list, missed, answers, numbers, shutdown, stalled>>
-----------------------------------------------------------------------------
(* The caller *)

(* create_supervisor_cmd or create_channel_cmd, and transmit_cmd_and_wait. *)
give ==
  LET f == Head(todo)
      t == [Fresh EXCEPT !.function = f, !.wait = TRUE, !.retries = tcb.retries,
                         !.seq = IF f \in Supervisor THEN seq_num ELSE 0]
  IN  /\ Is("caller", "give")
      /\ seq_num' = IF f \in Supervisor THEN (seq_num + 1) % SEQUENCE ELSE seq_num
      /\ Transmit("caller", "command", "wait", t)
      /\ answers' = [i \in DOMAIN answers |-> [answers[i] EXCEPT !.stale = TRUE]]
      /\ UNCHANGED <<todo, cmd_list, missed, last_rx_seq_num, shutdown, stalled>>

(* The completion, and on to the next command or out; the answer may be an *)
(* error code of the board's.                                              *)
answered ==
  /\ Is("caller", "wait")
  /\ completed > 0
  /\ completed' = completed - 1
  /\ todo' = Tail(todo)
  /\ \/ ~tcb.timeout /\ Goes("caller", IF Len(todo) = 1 THEN "done" ELSE "give")
     \/ Goes("caller", "failed")
  /\ tcb' = [Fresh EXCEPT !.retries = tcb.retries]
  /\ UNCHANGED <<node, rings, timer, answers, numbers, shutdown, stalled>>

(* alloc_cmd, for a row of commands, and free_cmd. *)
Begin(functions) ==
  /\ todo' = functions
  /\ tcb' = Fresh
  /\ Goes("caller", "give")
  /\ UNCHANGED <<node, completed, rings, timer, answers, numbers, shutdown, stalled>>

End(result) ==
  /\ Is("caller", result)
  /\ todo' = <<>>
  /\ tcb' = Fresh
  /\ Goes("caller", "rest")
  /\ UNCHANGED <<node, completed, rings, timer, answers, numbers, shutdown, stalled>>
-----------------------------------------------------------------------------
(* service_tx_ring, by the work or by the watchdog *)

Serving(w) == IF w = "work" THEN Is(w, "rest") ELSE Is(w, "serve")
ServeNext(w) == IF w = "work" THEN "rest" ELSE "serve"

(* wctc4xxp_retrieve: the oldest frame, when the board has sent it. *)
retrieve(w) ==
  LET ends == Head(tx).frame = "command" /\ ~tcb.wait
  IN  /\ Serving(w)
      /\ tx # <<>> /\ ~Head(tx).own
      /\ tx' = Tail(tx)
      /\ tcb' = IF Head(tx).frame = "command" THEN [tcb EXCEPT !.sent = TRUE] ELSE tcb
      /\ completed' = IF ends THEN completed + 1 ELSE completed
      /\ Goes(w, "pull")
      /\ UNCHANGED <<node, todo, cmd_list, refused, missed, timer, answers, numbers, shutdown, stalled>>

(* A variant with a plausible slip: the pending frames are left. *)
NonePending == TRUE

PendingEmpty == cmd_list = <<>>

(* "We've freed up a spot": the oldest frame of cmd_list is transmitted.   *)
pull(w) ==
  /\ Is(w, "pull")
  /\ IF PendingEmpty
       THEN Goes(w, ServeNext(w)) /\ UNCHANGED <<command, rings, timer>>
       ELSE /\ cmd_list' = Tail(cmd_list) /\ missed' = FALSE
            /\ Transmit(w, Head(cmd_list), ServeNext(w), tcb)
  /\ UNCHANGED <<todo, answers, numbers, shutdown, stalled>>
-----------------------------------------------------------------------------
(* Answers *)

(* A variant with a plausible slip: every answer counts. *)
NoneRepeated(a) == FALSE

(* "We received a duplicate response." *)
Repeated(a) == a.function \in Supervisor /\ a.seq = last_rx_seq_num

(* do_rx_response_packet: the command on the list that has the function of *)
(* the answer is taken off, and done if its frame has come back.           *)
receive ==
  LET a == Head(answers)
      handled == ~Repeated(a) /\ node = "waiting" /\ tcb.function = a.function
  IN  /\ Is("work", "rest")
      /\ answers # <<>>
      /\ answers' = Tail(answers)
      /\ last_rx_seq_num' =
           IF ~Repeated(a) /\ a.function \in Supervisor THEN a.seq ELSE last_rx_seq_num
      /\ IF handled
           THEN /\ tcb' = [tcb EXCEPT !.wait = FALSE, !.response = IF a.stale THEN "stale" ELSE "own"]
                /\ node' = "free"
                /\ completed' = IF tcb.sent THEN completed + 1 ELSE completed
           ELSE UNCHANGED command
      /\ UNCHANGED <<todo, at, rings, timer, seq_num, shutdown, stalled>>
-----------------------------------------------------------------------------
(* The watchdog, half a second after the last command was transmitted.     *)
watchdog_fires ==
  /\ Is("watchdog", "rest")
  /\ armed
  /\ armed' = FALSE
  /\ expired' = TRUE
  /\ Goes("watchdog", "serve")
  /\ UNCHANGED <<command, todo, rings, answers, numbers, shutdown, stalled>>

RingServed == ~(tx # <<>> /\ ~Head(tx).own)
Walks == Is("watchdog", "serve") /\ RingServed
Overdue == node = "waiting" /\ expired
LastTry == tcb.retries >= MAX_RETRIES

walk_nothing ==
  /\ Walks /\ ~Overdue
  /\ expired' = FALSE
  /\ Goes("watchdog", "rest")
  /\ UNCHANGED <<command, todo, rings, armed, answers, numbers, shutdown, stalled>>

(* No answer after all retries, or a board that does not even send.        *)
walk_give_up ==
  /\ Walks /\ Overdue /\ LastTry
  /\ ~LateAnswers => answers = <<>>
  /\ tcb' = [tcb EXCEPT !.timeout = TRUE, !.retries = @ + 1]
  /\ node' = "free"
  /\ completed' = completed + 1
  /\ shutdown' = (shutdown \/ ~tcb.sent)
  /\ stalled' = (stalled \/ \E w \in Who : refused[w].frame = "command")
  /\ expired' = FALSE
  /\ Goes("watchdog", "rest")
  /\ UNCHANGED <<todo, rings, armed, answers, numbers>>

walk_retry ==
  /\ Walks /\ Overdue /\ ~LastTry
  /\ tcb.sent
  /\ tcb' = [tcb EXCEPT !.retries = @ + 1, !.sent = FALSE]
  /\ node' = "retry"
  /\ expired' = FALSE
  /\ Goes("watchdog", "resend")
  /\ UNCHANGED <<completed, todo, rings, armed, answers, numbers, shutdown, stalled>>

(* wctc4xxp_send_commands *)
resend ==
  /\ Is("watchdog", "resend")
  /\ Transmit("watchdog", "command", "rest", tcb)
  /\ UNCHANGED <<todo, cmd_list, missed, answers, numbers, shutdown, stalled>>

(* "Retrying command that was still on descriptor list." *)
walk_wait ==
  /\ Walks /\ Overdue /\ ~LastTry
  /\ ~tcb.sent
  /\ tcb' = [tcb EXCEPT !.retries = @ + 1]
  /\ expired' = FALSE
  /\ armed' = TRUE
  /\ Goes("watchdog", "rest")
  /\ UNCHANGED <<node, completed, todo, rings, answers, numbers, shutdown, stalled>>
-----------------------------------------------------------------------------
(* The board (external) sends the next frame; a command it may answer, or  *)
(* lose, or its answer may be lost.                                        *)
send_frame ==
  LET i == CHOOSE k \in DOMAIN tx : tx[k].own /\ \A j \in 1..k - 1 : ~tx[j].own
  IN  /\ ~shutdown
      /\ \E k \in DOMAIN tx : tx[k].own
      /\ tx' = [tx EXCEPT ![i].own = FALSE]
      /\ \/ UNCHANGED answers
         \/ /\ tx[i].frame = "command" /\ Len(answers) < MaxAnswers
            /\ answers' = Append(answers, [function |-> tcb.function, seq |-> tcb.seq, stale |-> FALSE])
      /\ UNCHANGED <<command, todo, cmd_list, refused, missed, at, timer, numbers, shutdown, stalled>>

TcServe(w) == retrieve(w) \/ pull(w)
Aside(w) == take_off(w) \/ queue(w)

Walk == walk_nothing \/ walk_give_up \/ walk_retry \/ walk_wait
Watchdog == watchdog_fires \/ TcServe("watchdog") \/ Walk \/ resend \/ Aside("watchdog")
Work == TcServe("work") \/ receive \/ Aside("work")
Caller == give \/ answered \/ Aside("caller")

TcNext == Watchdog \/ Work \/ write \/ Aside("writer") \/ Caller \/ send_frame
=============================================================================
