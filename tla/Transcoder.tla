------------------------------ MODULE Transcoder ------------------------------
(***************************************************************************)
(* The transcoder interface (dahdi_transcode.c) over one card: a file asks *)
(* with DAHDI_TC_ALLOCATE for a channel that encodes or decodes, and gives *)
(* it back when it moves to another or is closed.  The card's driver       *)
(* (wctc4xxp/base.c) keeps the encoder and the decoder of one timeslot as  *)
(* a pair, builds both when one is first used and destroys both when the   *)
(* other half is not in use; chansem is held over the commands of either.  *)
(*                                                                         *)
(* A channel is found under translock, but the driver's calls and the busy *)
(* bit run without it: the steps below are the places where the calls of   *)
(* two files interleave.  One thread at a time uses a file.                *)
(***************************************************************************)
EXTENDS TcCommand

CONSTANTS
  Files, Pairs, Formats,
  Requests       \* file -> the sides and formats it may ask for

ASSUME TranscoderAssumption ==
  /\ Pairs \in Nat \ {0}
  /\ None \notin Files \cup Formats \cup ({"encode", "decode"} \X (1 .. Pairs))
  /\ Requests \in [Files -> SUBSET ({"encode", "decode"} \X Formats)]

VARIABLES
  busy, built,    \* DAHDI_TC_FLAG_BUSY, _CHAN_BUILT of a channel
  fmts,           \* what it was last allocated for: dstfmt | srcfmt
  built_fmts,     \* what its pair was built for
  private_data,   \* file -> its channel
  found,          \* the channel its call has just found
  pc,
  chansem         \* who holds it

channelVars == <<busy, built, fmts, built_fmts, private_data, found, pc, chansem>>
vars == <<tcVars, channelVars>>

(* The two transcoders a card registers. *)
Sides == {"encode", "decode"}
Channels == Sides \X (1 .. Pairs)
Complement(c) == <<IF c[1] = "encode" THEN "decode" ELSE "encode", c[2]>>

(* The commands of create_channel_pair and destroy_channel_pair, cut to    *)
(* one of the supervisor's and one of a channel's own.                     *)
CreateRow  == <<"CREATE_CHANNEL", "VOPENA">>
DestroyRow == <<"VOPENA", "DESTROY_CHANNEL">>

Init ==
  /\ TcInit
  /\ busy = [c \in Channels |-> FALSE] /\ built = [c \in Channels |-> FALSE]
  /\ fmts = [c \in Channels |-> None] /\ built_fmts = [c \in Channels |-> None]
  /\ private_data = [f \in Files |-> None] /\ found = [f \in Files |-> None]
  /\ pc = [f \in Files |-> "idle"]
  /\ chansem = None

GoesOn(f, place) == pc' = [pc EXCEPT ![f] = place]
-----------------------------------------------------------------------------
(* A variant with a plausible slip: a built channel may be in use. *)
Suitable(c, fmt) == IF built[c] THEN built_fmts[c] = fmt ELSE ~busy[c]

(* get_free_channel: a channel that is built must have the formats.        *)
Free(c, fmt) == ~busy[c] /\ (built[c] => built_fmts[c] = fmt)

(* DAHDI_TC_ALLOCATE up to what it does with the file's old channel. *)
allocate(f) ==
  /\ pc[f] = "idle"
  /\ \E side \in Sides, fmt \in Formats, i \in 1 .. Pairs :
       /\ <<side, fmt>> \in Requests[f]
       /\ Free(<<side, i>>, fmt) /\ \A j \in 1 .. i - 1 : ~Free(<<side, j>>, fmt)
       /\ busy' = [busy EXCEPT ![<<side, i>>] = TRUE]
       /\ fmts' = [fmts EXCEPT ![<<side, i>>] = fmt]
       /\ found' = [found EXCEPT ![f] = <<side, i>>]
  /\ GoesOn(f, IF private_data[f] = None THEN "attach" ELSE "release")
  /\ UNCHANGED <<tcVars, built, built_fmts, private_data, chansem>>

(* dahdi_tc_release *)
close(f) ==
  /\ pc[f] = "idle" /\ private_data[f] # None
  /\ GoesOn(f, "release")
  /\ UNCHANGED <<tcVars, busy, built, fmts, built_fmts, private_data, found, chansem>>
-----------------------------------------------------------------------------
(* wctc4xxp_operation_release *)
release(f) ==
  /\ pc[f] = "release"
  /\ GoesOn(f, IF shutdown THEN "clear" ELSE "down_release")
  /\ UNCHANGED <<tcVars, busy, built, fmts, built_fmts, private_data, found, chansem>>

(* "Releasing a channel that was never built", or its other half is used.  *)
Keeps(c) == ~built[Complement(c)] \/ busy[Complement(c)]

keep_pair(f) ==
  /\ pc[f] = "down_release" /\ chansem = None
  /\ Keeps(private_data[f])
  /\ GoesOn(f, "clear")
  /\ UNCHANGED <<tcVars, busy, built, fmts, built_fmts, private_data, found, chansem>>

destroy_pair(f) ==
  /\ pc[f] = "down_release" /\ chansem = None
  /\ ~Keeps(private_data[f])
  /\ chansem' = f
  /\ Begin(DestroyRow)
  /\ GoesOn(f, "destroying")
  /\ UNCHANGED <<busy, built, fmts, built_fmts, private_data, found>>

Both(c) == {c, Complement(c)}

destroyed(f) ==
  /\ pc[f] = "destroying"
  /\ \/ /\ End("done")
        /\ built' = [c \in Channels |-> built[c] /\ c \notin Both(private_data[f])]
        /\ built_fmts' = [c \in Channels |->
                            IF c \in Both(private_data[f]) THEN None ELSE built_fmts[c]]
     \/ End("failed") /\ UNCHANGED <<built, built_fmts>>
  /\ chansem' = None
  /\ GoesOn(f, "clear")
  /\ UNCHANGED <<busy, fmts, private_data, found>>

(* dtc_release once the driver is through; then on to the channel found.   *)
clear_busy(f) ==
  /\ pc[f] = "clear"
  /\ busy' = [busy EXCEPT ![private_data[f]] = FALSE]
  /\ private_data' = [private_data EXCEPT ![f] = None]
  /\ GoesOn(f, IF found[f] = None THEN "idle" ELSE "attach")
  /\ UNCHANGED <<tcVars, built, fmts, built_fmts, found, chansem>>
-----------------------------------------------------------------------------
(* The rest of DAHDI_TC_ALLOCATE, and wctc4xxp_operation_allocate. *)
attach(f) ==
  /\ pc[f] = "attach"
  /\ private_data' = [private_data EXCEPT ![f] = found[f]]
  /\ found' = [found EXCEPT ![f] = None]
  /\ GoesOn(f, IF shutdown \/ built[found[f]] THEN "idle" ELSE "down_build")
  /\ UNCHANGED <<tcVars, busy, built, fmts, built_fmts, chansem>>

(* A variant with a plausible slip: the check is made before the wait only. *)
NoSecondCheck(f) == FALSE

(* "Check again to see if the channel was built." *)
BuiltMeanwhile(f) == built[private_data[f]]

is_built(f) ==
  /\ pc[f] = "down_build" /\ chansem = None
  /\ BuiltMeanwhile(f)
  /\ GoesOn(f, "idle")
  /\ UNCHANGED <<tcVars, busy, built, fmts, built_fmts, private_data, found, chansem>>

create_pair(f) ==
  /\ pc[f] = "down_build" /\ chansem = None
  /\ ~BuiltMeanwhile(f)
  /\ chansem' = f
  /\ Begin(CreateRow)
  /\ GoesOn(f, "building")
  /\ UNCHANGED <<busy, built, fmts, built_fmts, private_data, found>>

(* do_channel_allocate and wctc4xxp_mark_channel_complement_built. *)
created(f) ==
  /\ pc[f] = "building"
  /\ \/ /\ End("done")
        /\ built' = [c \in Channels |-> built[c] \/ c \in Both(private_data[f])]
        /\ built_fmts' = [c \in Channels |->
             IF c \in Both(private_data[f]) THEN fmts[private_data[f]] ELSE built_fmts[c]]
     \/ End("failed") /\ UNCHANGED <<built, built_fmts>>
  /\ chansem' = None
  /\ GoesOn(f, "idle")
  /\ UNCHANGED <<busy, fmts, private_data, found>>
-----------------------------------------------------------------------------
Takes(f) == keep_pair(f) \/ destroy_pair(f) \/ is_built(f) \/ create_pair(f)
Runs(f) == release(f) \/ destroyed(f) \/ clear_busy(f) \/ attach(f) \/ created(f)

Next ==
  \/ \E f \in Files : allocate(f) \/ close(f) \/ Takes(f) \/ Runs(f)
  \/ TcNext /\ UNCHANGED channelVars

Spec == Init /\ [][Next]_vars

(* The kernel runs a thread inside a call, wakes the first that waits for  *)
(* chansem, and the board goes on sending until it is halted.  The stream  *)
(* of packets pauses: it does not keep the ring full for ever.             *)
FairSpec ==
  /\ Spec
  /\ \A f \in Files : SF_vars(Takes(f) \/ Runs(f))
  /\ WF_vars(Watchdog /\ UNCHANGED channelVars) /\ WF_vars(Work /\ UNCHANGED channelVars)
  /\ WF_vars(Caller /\ UNCHANGED channelVars)
  /\ WF_vars(send_frame /\ UNCHANGED channelVars)
  /\ WF_vars(Aside("writer") /\ UNCHANGED channelVars)
  /\ <>[][~write]_vars
-----------------------------------------------------------------------------
(* Properties *)

(* The caller's command is on the ring or on cmd_list. *)
OnRing == \E i \in DOMAIN tx : tx[i].frame = "command"
OnList == \E i \in DOMAIN cmd_list : cmd_list[i] = "command"

(* A command is completed once, to the caller that waits for it, and is    *)
(* then nobody else's: its buffer is used again or freed at once (unless   *)
(* the board is halted).  A supervisor's command is not completed by the   *)
(* answer to an earlier one, however often either was sent                 *)
(* (do_rx_response_packet, service_tx_ring, wctc4xxp_watchdog).  Not so    *)
(* once a thread has stood between the refusal and cmd_list until the      *)
(* watchdog gave its command up, some seconds.                             *)
CommandSound ==
  ~stalled =>
    /\ completed <= 1
    /\ completed = 1 =>
         /\ Is("caller", "wait") /\ node = "free"
         /\ ~shutdown => ~OnRing /\ ~OnList
    /\ tcb.function \in Supervisor => tcb.response # "stale"

(* A busy channel has exactly one file that holds it or has just found it, *)
(* a channel that is not busy has none (get_free_channel, dtc_release).    *)
OneFile ==
  \A c \in Channels :
    Cardinality({f \in Files : private_data[f] = c} \cup {f \in Files : found[f] = c})
      = IF busy[c] THEN 1 ELSE 0

(* The halves of a pair are built and destroyed together and for the same  *)
(* formats, and no pair that is built is built again ("It shouldn't        *)
(* already have been built", wctc4xxp_mark_channel_complement_built).      *)
PairsSound ==
  /\ \A c \in Channels :
       /\ built[c] = built[Complement(c)]
       /\ built_fmts[c] = built_fmts[Complement(c)]
       /\ built[c] <=> built_fmts[c] # None
  /\ \A f \in Files : pc[f] = "building" => ~built[private_data[f]]

(* The caller's command came to cmd_list after the ring had been emptied:  *)
(* no frame is left whose descriptor, when it is freed, would bring the    *)
(* command back, and the watchdog does not look at cmd_list.               *)
Stranded == OnList /\ missed

(* Every call ends, whatever the board loses: no command waits for ever    *)
(* and chansem is not kept (wctc4xxp_transmit_cmd_and_wait).  One thing    *)
(* prevents it: a ring emptied between the refusal and the queueing of a   *)
(* command (wctc4xxp/base.c:1629 and 1637), and no packet ever after.      *)
CallsEnd == \A f \in Files : []<>(pc[f] = "idle") \/ <>[]Stranded
=============================================================================
