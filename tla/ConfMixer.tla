----------------------------- MODULE ConfMixer ------------------------------
(***************************************************************************)
(* What is heard in a conference (dahdi-base.c).  Once per chunk           *)
(* _process_masterspan, with chan_lock held, hands every channel that has  *)
(* a confmode its chunk and takes one from it, through three rotating sets *)
(* of sums: a chunk that comes from a line is added to the next set before *)
(* they rotate, one that comes from a pseudo channel to the current set    *)
(* afterwards, and a listener gets the current set less what it said       *)
(* itself, which conflast remembers.                                       *)
(*                                                                         *)
(* A chunk of sound is a count per source, so that a sum tells who is in   *)
(* it and how often.  In one round all sources say the same, 0 or 1, which *)
(* tells the chunks of a source apart.  Saturation is left out, and what a *)
(* channel's application plays to its own line beside the conference.      *)
(***************************************************************************)
EXTENDS Conference, Sequences

CONSTANTS
  LineOrder,    \* the lines in the order of span_list
  PseudoOrder,  \* the pseudo channels in the order of pseudo_chans
  MaxChanges,   \* bound: joins, departures and mutings in a behaviour
  Calm          \* rounds after which a change has worked itself out

Sources == (Lines \X {"line"}) \cup (Channels \X {"app"})

ASSUME MixerAssumption ==
  /\ LineOrder \in Seq(Lines) /\ PseudoOrder \in Seq(Pseudos)
  /\ Calm \in Nat /\ MaxChanges \in Nat

VARIABLES
  conf_sums_prev, conf_sums, conf_sums_next,  \* alias -> what is summed up
  conflast,                \* channel -> what it added last
  conflast1, conflast2,    \* the same for the pseudo side, last and before
  confmute,                \* line -> DAHDI_CONFMUTE is on
  step,                    \* where the round is, 0 between rounds
  chunk,                   \* what every source says this round, 0 or 1
  ear,                     \* the last chunk delivered: to whom, and of whom
  spoken, mixed, past,     \* history: who spoke for the next chunk to be
                           \* mixed, for this one and for the last one
  calm, changes            \* rounds since a member or a mode changed, and
                           \* how often one has

sums   == <<conf_sums_prev, conf_sums, conf_sums_next>>
lasts  == <<conflast, conflast1, conflast2>>
heard  == <<ear, spoken, mixed, past>>
vars   == <<confVars, sums, lasts, confmute, step, chunk, heard, calm, changes>>

Silence == [s \in Sources |-> 0]
Plus(a, b) == [s \in Sources |-> a[s] + b[s]]
Minus(a, b) == [s \in Sources |-> a[s] - b[s]]
Voice(source, v) == [s \in Sources |-> IF s = source THEN v ELSE 0]

(* The rows an alias can name. *)
Rows == 1..MAX_CONF - 1

(* The order of _process_masterspan. *)
Visit(what, order) == [i \in DOMAIN order |-> <<what, order[i]>>]
Round ==
  Visit("receive", LineOrder) \o <<<<"rotate", None>>>>
    \o Visit("pseudo_tx", PseudoOrder) \o Visit("pseudo_rx", PseudoOrder)
    \o Visit("transmit", LineOrder)

Mode(c) == confmode[c].mode
Has(c, flag) == flag \in confmode[c].flags
Own(c, side) == <<c, side>>

(* The switches of putaudio and getaudio are skipped for a muted line. *)
Takes(c) == c \in Pseudos \/ ~confmute[c]

NoEar == [to |-> <<None, "line">>, sound |-> Silence]

MixInit ==
  /\ ConfInit
  /\ conf_sums_prev = [a \in Rows |-> Silence]
  /\ conf_sums = conf_sums_prev /\ conf_sums_next = conf_sums_prev
  /\ conflast = [c \in Channels |-> Silence]
  /\ conflast1 = conflast /\ conflast2 = conflast
  /\ confmute = [c \in Lines |-> FALSE]
  /\ step = 0 /\ chunk = 0
  /\ ear = NoEar
  /\ spoken = Silence /\ mixed = Silence /\ past = Silence
  /\ calm = Calm /\ changes = 0
-----------------------------------------------------------------------------
(* The next step of the round; after the last one chan_lock is dropped. *)
Advance == step' = IF step = Len(Round) THEN 0 ELSE step + 1
AtStep(what, c) == step > 0 /\ Round[step] = <<what, c>>

Hear(c, side, sound) == ear' = [to |-> <<c, side>>, sound |-> sound]

(* A voice added to a row of the sums. *)
AddTo(rows, c, sound) == [rows EXCEPT ![confn[c]] = Plus(@, sound)]

(* _process_masterspan takes chan_lock. *)
round_start ==
  /\ step = 0
  /\ chunk' \in {0, 1}
  /\ Advance
  /\ UNCHANGED <<confVars, sums, lasts, confmute, heard, calm, changes>>

(* A variant with a plausible slip: the set that is filled is not cleared. *)
rotate_uncleared ==
  /\ conf_sums_prev' = conf_sums
  /\ conf_sums' = conf_sums_next
  /\ conf_sums_next' = conf_sums_prev

(* rotate_sums *)
rotate_sums ==
  /\ conf_sums_prev' = conf_sums
  /\ conf_sums' = conf_sums_next
  /\ conf_sums_next' = [a \in Rows |-> IF a < maxconfs THEN Silence ELSE conf_sums_prev[a]]

rotate ==
  /\ AtStep("rotate", None)
  /\ rotate_sums
  /\ past' = mixed /\ mixed' = spoken /\ spoken' = Silence
  /\ calm' = IF calm < Calm THEN calm + 1 ELSE calm
  /\ ear' = NoEar
  /\ Advance
  /\ UNCHANGED <<confVars, lasts, confmute, chunk, changes>>

(* __dahdi_process_putaudio_chunk for a talker of a conference: the line's *)
(* chunk goes to the set of the next chunk.                                *)
line_talks(c, v) ==
  IF Has(c, "TALKER")
    THEN LET x == Voice(Own(c, "line"), v)
         IN  /\ conf_sums_next' = AddTo(conf_sums_next, c, x)
             /\ conflast' = [conflast EXCEPT ![c] = x]
             /\ spoken' = [spoken EXCEPT ![Own(c, "line")] = v]
    ELSE /\ conflast' = [conflast EXCEPT ![c] = Silence]
         /\ UNCHANGED <<conf_sums_next, spoken>>

(* The modes whose pseudo side is told the conference of two chunks ago;   *)
(* a talker of them is put into the current set, after taking from it what *)
(* it said last.                                                           *)
monitor_talks(c, v) ==
  IF Has(c, "TALKER")
    THEN LET x == Voice(Own(c, "line"), v)
         IN  /\ conf_sums' = AddTo(conf_sums, c, Minus(x, conflast[c]))
             /\ conflast' = [conflast EXCEPT ![c] = x]
    ELSE /\ conflast' = [conflast EXCEPT ![c] = Silence]
         /\ UNCHANGED conf_sums

(* A chunk of a span's channel that has a confmode.  The pseudo side of    *)
(* REALANDPSEUDO is told the conference before the sums rotate.            *)
receive(c) ==
  /\ AtStep("receive", c)
  /\ \/ /\ Mode(c) \in {"CONF", "CONFANN", "REALANDPSEUDO"} /\ Takes(c)
        /\ line_talks(c, chunk)
        /\ IF Mode(c) = "REALANDPSEUDO" /\ Has(c, "PSEUDO_LISTENER")
             THEN Hear(c, "app", Minus(conf_sums[confn[c]], conflast2[c]))
             ELSE ear' = NoEar
        /\ UNCHANGED conf_sums
     \/ /\ Mode(c) \in {"CONFMON", "CONFANNMON"} /\ Takes(c)
        /\ monitor_talks(c, chunk)
        /\ Hear(c, "app", conf_sums_prev[confn[c]])
        /\ UNCHANGED <<conf_sums_next, spoken>>
     \/ /\ Mode(c) \notin Mixing \/ ~Takes(c)
        /\ ear' = NoEar
        /\ UNCHANGED <<conf_sums, conf_sums_next, conflast, spoken>>
  /\ Advance
  /\ UNCHANGED <<confVars, conf_sums_prev, conflast1, conflast2, confmute, chunk, mixed, past, calm, changes>>

(* __dahdi_process_getaudio_chunk for a pseudo channel. *)
pseudo_tx(c) ==
  /\ AtStep("pseudo_tx", c)
  /\ IF Mode(c) = "CONF" /\ Has(c, "TALKER")
       THEN LET x == Voice(Own(c, "app"), chunk)
            IN  /\ conf_sums' = AddTo(conf_sums, c, x)
                /\ conflast' = [conflast EXCEPT ![c] = x]
                /\ mixed' = [mixed EXCEPT ![Own(c, "app")] = chunk]
       ELSE /\ conflast' = IF Mode(c) = "CONF" THEN [conflast EXCEPT ![c] = Silence]
                                               ELSE conflast
            /\ UNCHANGED <<conf_sums, mixed>>
  /\ ear' = NoEar
  /\ Advance
  /\ UNCHANGED <<confVars, conf_sums_prev, conf_sums_next, conflast1, conflast2,
                 confmute, chunk, spoken, past, calm, changes>>

(* The current sums less what c added itself. *)
others(c) == Minus(conf_sums[confn[c]], conflast[c])

(* pseudo_rx_audio *)
pseudo_rx(c) ==
  /\ AtStep("pseudo_rx", c)
  /\ IF Mode(c) = "CONF" /\ Has(c, "LISTENER")
       THEN Hear(c, "app", others(c))
       ELSE ear' = NoEar
  /\ Advance
  /\ UNCHANGED <<confVars, sums, lasts, confmute, chunk, spoken, mixed, past, calm, changes>>

(* The application's chunk w of an announcement, or of the pseudo side of  *)
(* REALANDPSEUDO, goes to the set of the next chunk.                       *)
app_talks(c, w) ==
  /\ conf_sums_next' = AddTo(conf_sums_next, c, Voice(Own(c, "app"), w))
  /\ spoken' = [spoken EXCEPT ![Own(c, "app")] = w]

pseudo_side_last(c, w) ==
  /\ conflast2' = [conflast2 EXCEPT ![c] = conflast1[c]]
  /\ conflast1' = [conflast1 EXCEPT ![c] = Voice(Own(c, "app"), w)]

pseudo_side_silent(c) ==
  /\ conflast1' = [conflast1 EXCEPT ![c] = Silence]
  /\ conflast2' = [conflast2 EXCEPT ![c] = Silence]

(* __dahdi_process_getaudio_chunk for the channel of a span. *)
transmit(c) ==
  /\ AtStep("transmit", c)
  /\ \/ /\ Mode(c) \in {"CONFANN", "CONFANNMON"} /\ Takes(c)
        /\ app_talks(c, chunk)
        /\ UNCHANGED <<conflast1, conflast2>>
     \/ /\ Mode(c) = "REALANDPSEUDO" /\ Takes(c)
        /\ IF Has(c, "PSEUDO_TALKER")
             THEN app_talks(c, chunk) /\ pseudo_side_last(c, chunk)
             ELSE pseudo_side_silent(c) /\ UNCHANGED <<conf_sums_next, spoken>>
     \/ /\ Mode(c) \in {"CONF", "CONFMON", "NORMAL"} \cup Monitors \/ ~Takes(c)
        /\ UNCHANGED <<conf_sums_next, spoken, conflast1, conflast2>>
  /\ IF Mode(c) \in Mixing /\ Takes(c) /\ Has(c, "LISTENER")
       THEN Hear(c, "line", others(c))
       ELSE ear' = NoEar
  /\ Advance
  /\ UNCHANGED <<confVars, conf_sums_prev, conf_sums, conflast, confmute, chunk, mixed, past, calm, changes>>

forget_last(c) ==
  /\ conflast' = [conflast EXCEPT ![c] = Silence]
  /\ pseudo_side_silent(c)
-----------------------------------------------------------------------------
(* Steps of the threads.  Those that take chan_lock wait for the round to  *)
(* end.                                                                    *)
Unlocked == step = 0
MayChange == changes < MaxChanges
Disturb ==
  /\ changes' = changes + 1
  /\ calm' = 0
  /\ ear' = NoEar

(* A call that begins during a round gets no further than one that begins  *)
(* after it.                                                               *)
Call(t) ==
  /\ \/ Unlocked /\ MayChange /\ setconf(t)
     \/ Unlocked /\ check_conf_kept(t)
     \/ Unlocked /\ check_conf_empty(t)
     \/ Unlocked /\ join_busy(t)
     \/ Unlocked /\ preecho_fails(t)
     \/ preecho_enabled(t)
     \/ check_conf_clear(t)
     \/ MayChange /\ \E c \in Channels : close_preecho(t, c)
  /\ UNCHANGED <<sums, lasts, confmute, step, chunk, heard, calm, changes>>

Join(t) ==
  /\ Unlocked
  /\ join(t)
  /\ LET c == request[t].chan
     IN  IF confna'[c] # confna[c] THEN forget_last(c) ELSE UNCHANGED lasts
  /\ Disturb
  /\ UNCHANGED <<sums, confmute, step, chunk, spoken, mixed, past>>

Close(t, c) ==
  /\ pc[t] = "leave" \/ MayChange
  /\ close(t, c)
  /\ forget_last(c)
  /\ confmute' = [d \in Lines |-> d # c /\ confmute[d]]
  /\ Disturb
  /\ UNCHANGED <<sums, step, chunk, spoken, mixed, past>>

(* DAHDI_CONFMUTE *)
Mute(c) ==
  /\ MayChange
  /\ confmute' = [confmute EXCEPT ![c] = ~@]
  /\ Disturb
  /\ UNCHANGED <<confVars, sums, lasts, step, chunk, spoken, mixed, past>>

MixRound ==
  \/ round_start \/ rotate
  \/ \E c \in Lines : receive(c) \/ transmit(c)
  \/ \E c \in Pseudos : pseudo_tx(c) \/ pseudo_rx(c)

MixNext ==
  \/ MixRound
  \/ \E t \in Threads : Call(t) \/ Join(t) \/ \E c \in Channels : Close(t, c)
  \/ \E c \in Lines : Mute(c)

MixSpec == MixInit /\ [][MixNext]_vars
-----------------------------------------------------------------------------
(* What conference x, without one source, sounded like in a chunk. *)
Conversation(x, without, voices) ==
  [s \in Sources |-> IF s # without /\ InConf(s[1], x) THEN voices[s] ELSE 0]

(* Once a change has worked itself out, a listener hears each of the       *)
(* others in its conference once, never itself, and nobody of another      *)
(* conference.  The pseudo side of the monitoring modes hears all of it, a *)
(* chunk later.                                                            *)
HearsOthersOnce ==
  LET c == ear.to[1]
      side == ear.to[2]
  IN  c \in Channels /\ calm = Calm =>
        ear.sound = IF side = "app" /\ Mode(c) \in {"CONFMON", "CONFANNMON"}
                      THEN Conversation(confna[c], NoEar.to, past)
                      ELSE Conversation(confna[c], ear.to, mixed)
=============================================================================
