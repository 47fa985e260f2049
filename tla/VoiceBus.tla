------------------------------ MODULE VoiceBus ------------------------------
(***************************************************************************)
(* VoiceBus (voicebus.c): the two descriptor rings a board shares with the *)
(* driver, the interrupt that keeps the driver ahead of the board, and the *)
(* recovery when it was late.                                              *)
(*                                                                         *)
(* Once a millisecond the board sends the next descriptor it owns and      *)
(* fills one to receive.  vb_isr takes the frames that were sent off the   *)
(* ring, has them filled anew (handle_transmit) and puts them back at the  *)
(* tail, so that latency frames circulate.  In NORMAL mode the descriptors *)
(* between tail and head hold an idle frame: a late interrupt lets the     *)
(* board send idle frames (a soft underrun), and only a very late one      *)
(* stops it (a hard underrun).  An HX8 board has no idle frames.           *)
(*                                                                         *)
(* Threads: vb_isr, which never runs twice at once; underrun_work; and the *)
(* board driver that starts, stops and releases the interface.  In the     *)
(* receive ring every descriptor holds a frame, and a received one is      *)
(* given back before vb_isr ends: the model counts the filled ones.        *)
(***************************************************************************)
EXTENDS Integers, FiniteSets

CONSTANTS
  Modes,          \* modes of the boards: NORMAL, HX8
  DRING_SIZE,     \* descriptors of the transmit ring
  RX_SIZE,        \* descriptors of the receive ring (DRING_SIZE in the code)
  Latency,        \* min_tx_buffer_count at the start
  MaxLatency,     \* max_latency
  BUMP,           \* VOICEBUS_MAXLATENCY_BUMP
  AHEAD,          \* descriptors skipped to get ahead of the board (5)
  BATCH,          \* frames taken per run of the routine (4)
  Slack,          \* frames the board sends, at most, while the routine runs
  MaxStarts       \* mode -> how often the driver starts such a board

ASSUME VoiceBusAssumption ==
  /\ Modes \subseteq {"NORMAL", "HX8"}
  /\ DRING_SIZE \in Nat /\ RX_SIZE \in Nat /\ RX_SIZE > 0
  /\ Latency \in Nat /\ MaxLatency \in Nat /\ Latency <= MaxLatency
  /\ BUMP \in Nat /\ AHEAD \in Nat /\ BATCH \in Nat /\ Slack \in Nat
  /\ AHEAD + MaxLatency < DRING_SIZE
  /\ MaxStarts \in [Modes -> Nat]

VARIABLES
  mode,
  buf,        \* slot -> what its descriptor points to: a frame, idle or none
  owned,      \* slots with OWN_BIT, which are the board's
  head, tail, count,
  complete,   \* length of tx_complete
  latency,    \* min_tx_buffer_count
  filled,     \* frames received and not yet taken
  hand,       \* frames the routine has in hand
  behind,     \* the routine's behind; 0 without softunderrun
  hw,         \* the slot the board sends next
  board,      \* the state of the board's transmit processor
  csr5,       \* events the board reports
  ier,        \* whether the board may interrupt
  masked,     \* deferred_disabled_count
  flags,      \* STOP, STOPPED, SHUTDOWN, HARD_UNDERRUN
  pending,    \* underrun_work is scheduled
  sem,        \* who holds the semaphore of voicebus_stop
  isr,        \* where vb_isr is
  status,     \* its int_status
  sent,       \* frames the board sent while the routine runs
  pc,         \* thread -> where it is
  trouble,    \* history: what vb_isr should never have met
  starts,     \* how often the driver has started the board
  raced       \* history: the driver stopped a board while it was recovered

ring    == <<buf, owned, head, tail, count>>
frames  == <<complete, latency, hand, behind>>
line    == <<hw, board, csr5, filled>>
past    == <<starts, raced>>
control == <<ier, masked, flags, pending, sem>>
vars    == <<mode, ring, frames, line, control, isr, status, sent, pc, trouble, past>>

Slots == 0 .. DRING_SIZE - 1
Threads == {"work", "driver"}
Nobody == "nobody"

Least(a, b) == IF a < b THEN a ELSE b
Fwd(s, k) == (s + k) % DRING_SIZE

(* How many slots from s on are in S without a gap. *)
Lead(s, S) == Cardinality({k \in Slots : \A i \in 0 .. k : Fwd(s, i) \in S})

Span(s, n) == {Fwd(s, k) : k \in 0 .. n - 1}
Holding(b, what) == {s \in Slots : b[s] = what}
Fill(b, S, what) == [s \in Slots |-> IF s \in S THEN what ELSE b[s]]

(* What a descriptor without a frame points to. *)
Spare == IF mode = "NORMAL" THEN "idle" ELSE "none"

(* __vb_is_stopped *)
stopped == board = "stopped"

-----------------------------------------------------------------------------
(* The board (external) *)

(* The board reads ahead: as soon as the next descriptor is not its own it *)
(* waits, and reports TX_UNAVAILABLE_INTERRUPT.                            *)
Missing(next, o) == IF next \in o THEN {} ELSE {"unavailable"}

(* A frame is sent, idle or not, and its descriptor given back.            *)
send_frame ==
  /\ board = "run"
  /\ isr # "out" => sent < Slack
  /\ sent' = IF isr = "out" THEN sent ELSE sent + 1
  /\ owned' = owned \ {hw}
  /\ hw' = Fwd(hw, 1)
  /\ board' = IF hw' \in owned' THEN "run" ELSE "suspended"
  /\ csr5' = csr5 \cup {"complete"} \cup Missing(hw', owned')
  /\ UNCHANGED <<mode, buf, head, tail, count, frames, filled, control, isr, status, pc, trouble, past>>

(* A frame is received, or there is no descriptor for it. *)
receive_frame ==
  /\ board # "stopped"
  /\ \/ /\ filled < RX_SIZE
        /\ filled' = filled + 1 /\ csr5' = csr5 \cup {"received"}
     \/ filled = RX_SIZE /\ csr5' = csr5 \cup {"unavailable"} /\ UNCHANGED filled
  /\ UNCHANGED <<mode, ring, frames, hw, board, control, isr, status, sent, pc, trouble, past>>

-----------------------------------------------------------------------------
(* Frames for the board *)

(* __voicebus_transmit for n frames, to a ring of b and o with this tail   *)
(* and n0 frames: one that finds a frame in its place is dropped, and the  *)
(* work scheduled.                                                         *)
Transmit(n, b, o, from, n0) ==
  LET k == Least(n, Lead(from, Slots \ Holding(b, "frame")))
  IN
  /\ buf' = Fill(b, Span(from, k), "frame")
  /\ owned' = o \cup Span(from, k)
  /\ tail' = Fwd(from, k)
  /\ count' = n0 + k
  /\ pending' = (pending \/ k < n)
  /\ trouble' = trouble \cup IF k < n THEN {"dropped"} ELSE {}

(* "Instruct the hardware to check for a new tx descriptor." *)
Poll ==
  /\ board' = IF board = "suspended" /\ hw \in owned' THEN "run" ELSE board
  /\ csr5' = csr5 \cup IF board = "suspended" THEN Missing(hw, owned') ELSE {}

(* vb_cleanup_tx_descriptors, vb_cleanup_rx_descriptors and                *)
(* setup_descriptors: rings as new, the first slots with latency frames.   *)
SetupDescriptors ==
  /\ buf' = [s \in Slots |-> IF s < latency THEN "frame" ELSE Spare]
  /\ owned' = IF mode = "NORMAL" THEN Slots ELSE Span(0, latency)
  /\ head' = 0 /\ tail' = Fwd(0, latency) /\ count' = latency
  /\ complete' = 0
  /\ hw' = 0
  /\ filled' = 0
  /\ UNCHANGED <<latency, hand, behind>>

(* start_packet_processing *)
StartProcessing ==
  /\ flags' = flags \ {"STOP", "STOPPED"}
  /\ csr5' = {}
  /\ ier' = TRUE
  /\ board' = "run"

-----------------------------------------------------------------------------
(* vb_isr, with the deferred routine inside *)

(* The line is shared, so that vb_isr may also be called when the board's  *)
(* own interrupts are off.                                                 *)
isr_enter ==
  /\ isr = "out" /\ masked = 0 /\ pc["driver"] # "gone" /\ csr5 # {}
  /\ status' = csr5
  /\ isr' = "decide"
  /\ UNCHANGED <<mode, ring, frames, line, control, sent, pc, trouble, past>>

Unavailable == "unavailable" \in status /\ "STOP" \notin flags

isr_underrun ==
  /\ isr = "decide" /\ Unavailable /\ mode = "NORMAL"
  /\ ier' = FALSE
  /\ csr5' = csr5 \ status
  /\ pending' = TRUE
  /\ isr' = "out" /\ status' = {} /\ sent' = 0
  /\ UNCHANGED <<mode, ring, frames, hw, board, filled, masked, flags, sem, pc, trouble, past>>

isr_underrun_hx8 ==
  /\ isr = "decide" /\ Unavailable /\ mode = "HX8"
  /\ flags' = flags \cup {"HARD_UNDERRUN"}
  /\ isr' = "collect"
  /\ UNCHANGED <<mode, ring, frames, line, ier, masked, pending, sem, status, sent, pc, trouble, past>>

(* From here on status is what vb_isr acknowledges after the routine. *)
isr_complete ==
  /\ isr = "decide" /\ ~Unavailable /\ status \cap {"complete", "received"} # {}
  /\ status' = {"complete", "received"}
  /\ isr' = "collect"
  /\ UNCHANGED <<mode, ring, frames, line, control, sent, pc, trouble, past>>

(* BUG_ON(!test_bit(VOICEBUS_STOP, &vb->flags)) when the board stopped. *)
isr_stopped ==
  /\ isr = "decide" /\ ~Unavailable /\ status \cap {"complete", "received"} = {}
  /\ trouble' = trouble \cup
       IF "stopped" \in status /\ "STOP" \notin flags THEN {"stray stop"} ELSE {}
  /\ ier' = (ier /\ ~("stopped" \in status /\ stopped))
  /\ csr5' = csr5 \ status
  /\ isr' = "out" /\ status' = {} /\ sent' = 0
  /\ UNCHANGED <<mode, ring, frames, hw, board, filled, masked, flags, pending, sem, pc, past>>

(* tx_error_exit: a frame stands where an idle one should. *)
TxError ==
  /\ ier' = FALSE /\ pending' = TRUE
  /\ hand' = 0
  /\ isr' = "ack"
  /\ trouble' = trouble \cup {"tx error"}

(* With fewer than two frames left the board may be among the idle ones. *)
Late(n) == n < 2

(* A variant with a plausible slip: sent idle frames are left alone. *)
NoneStale(h, b, o) == 0

(* How many slots a late routine gives back to the board: idle and sent. *)
Stale(h, b, o) == Lead(h, Holding(b, "idle") \ o)

(* With c frames complete, take those of this run. *)
Take(c, lag) ==
  /\ hand' = Least(c, BATCH)
  /\ complete' = c - hand'
  /\ behind' = lag
  /\ isr' = "send"
  /\ UNCHANGED <<ier, pending, trouble>>

(* vb_get_completed_txb until there is none; then, in NORMAL mode, see     *)
(* whether the board went on into the idle frames.                         *)
isr_collect ==
  LET k == Lead(head, Holding(buf, "frame") \ owned)
      b == Fill(buf, Span(head, k), Spare)
      o == IF mode = "NORMAL" THEN owned \cup Span(head, k) ELSE owned
      h == Fwd(head, k)
      r == Stale(h, b, o)
  IN
  /\ isr = "collect"
  /\ buf' = b
  /\ count' = count - k
  /\ flags' = flags \ {"HARD_UNDERRUN"}
  /\ \/ /\ mode = "HX8"
        /\ Take(complete + k, IF "HARD_UNDERRUN" \in flags THEN 1 ELSE 0)
        /\ owned' = o /\ head' = h
     \/ /\ mode = "NORMAL" /\ ~Late(count')
        /\ Take(complete + k, 0)
        /\ owned' = o /\ head' = h
     \/ /\ mode = "NORMAL" /\ Late(count') /\ count' = 1
        /\ isr' = "ack" /\ complete' = complete + k
        /\ owned' = o /\ head' = h
        /\ UNCHANGED <<hand, behind, ier, pending, trouble>>
     \/ /\ mode = "NORMAL" /\ Late(count') /\ count' # 1
        /\ owned' = o \cup Span(h, r) /\ head' = Fwd(h, r)
        /\ IF head' \in owned'
           THEN Take(complete + k, 2 + r)
           ELSE TxError /\ complete' = complete + k /\ UNCHANGED behind
  /\ UNCHANGED <<mode, tail, latency, line, masked, sem, status, sent, pc, past>>

(* vb_increase_latency: the frames it adds. *)
Increase(n) == Least(Least(n, BUMP), MaxLatency - latency)

(* Put the frames in hand on the ring.  After a soft underrun, first give  *)
(* the board again what it sent meanwhile, and get AHEAD slots before it.  *)
(* A few instructions without interrupts: the board does not move.         *)
isr_send ==
  LET soft == mode = "NORMAL" /\ behind > 0
      n    == hand + Increase(behind)
      h    == Fwd(head, Stale(head, buf, owned))
      o    == owned \cup Span(head, Stale(head, buf, owned))
      gap  == Span(h, AHEAD)
      b3   == IF soft THEN Fill(buf, gap, "idle") ELSE buf
      o3   == IF soft THEN o \cup gap ELSE owned
      from == IF soft THEN Fwd(h, AHEAD) ELSE tail
  IN
  /\ isr = "send"
  /\ latency' = latency + Increase(behind)
  /\ behind' = 0
  /\ IF mode = "HX8" \/ ((soft => h \in o) /\ b3[from] = "idle")
     THEN /\ Transmit(n, b3, o3, from, count)
          /\ head' = IF soft THEN from ELSE head
          /\ Poll
          /\ hand' = 0
          /\ isr' = "receive"
          /\ UNCHANGED ier
     ELSE /\ TxError
          /\ IF h \in o
             THEN buf' = b3 /\ owned' = o3 /\ head' = (IF soft THEN from ELSE head) /\ tail' = from
             ELSE owned' = o /\ head' = h /\ UNCHANGED <<buf, tail>>
          /\ UNCHANGED <<count, board, csr5>>
  /\ UNCHANGED <<mode, complete, hw, filled, masked, flags, sem, status, sent, pc, past>>

(* Received frames are handed up and their descriptors given back. *)
isr_receive ==
  /\ isr = "receive"
  /\ filled' = filled - Least(filled, BATCH)
  /\ isr' = "ack"
  /\ UNCHANGED <<mode, ring, frames, hw, board, csr5, control, status, sent, pc, trouble, past>>

(* A variant with a plausible slip: every event is acknowledged. *)
AcknowledgeAll(s) == csr5' = {}

Acknowledge(s) == csr5' = csr5 \ s

isr_ack ==
  /\ isr = "ack"
  /\ Acknowledge(status)
  /\ isr' = "out" /\ status' = {} /\ sent' = 0
  /\ UNCHANGED <<mode, ring, frames, hw, board, filled, control, pc, trouble, past>>

-----------------------------------------------------------------------------
(* voicebus_stop, for either thread *)

At(t, place) == pc[t] = place
Goto(t, place) == pc' = [pc EXCEPT ![t] = place]

(* Where a thread goes on after voicebus_stop. *)
After(t) == IF t = "work" THEN "recover" ELSE IF "SHUTDOWN" \in flags THEN "free" ELSE "stopped"

(* The driver stops a board, not to release it, while handle_hardunderrun  *)
(* is between its look at the flags and the start: its stop may return at  *)
(* once, for the work has set STOP, or the work may find the board stopped *)
(* and go on to start it.                                                  *)
Crosses(t) == t = "driver" /\ "SHUTDOWN" \notin flags /\ ~At("work", "out")

stop_begin(t) ==
  /\ At(t, "stop") /\ sem = Nobody
  /\ IF "STOP" \in flags \/ stopped
     THEN Goto(t, After(t)) /\ UNCHANGED <<flags, sem>>
     ELSE Goto(t, "halt") /\ flags' = flags \cup {"STOP"} /\ sem' = t
  /\ raced' = (raced \/ Crosses(t))
  /\ UNCHANGED <<mode, ring, frames, line, ier, masked, pending, isr, status, sent, trouble, starts>>

(* vb_stop_txrx_processors, to the end of its wait (external: it ends). *)
stop_halt(t) ==
  /\ At(t, "halt")
  /\ board' = "stopped"
  /\ csr5' = csr5 \cup {"stopped"}
  /\ Goto(t, "halted")
  /\ UNCHANGED <<mode, ring, frames, hw, filled, control, isr, status, sent, trouble, past>>

stop_end(t) ==
  /\ At(t, "halted")
  /\ flags' = flags \cup {"STOPPED"}
  /\ ier' = FALSE
  /\ sem' = Nobody
  /\ Goto(t, After(t))
  /\ UNCHANGED <<mode, ring, frames, line, masked, pending, isr, status, sent, trouble, past>>

-----------------------------------------------------------------------------
(* handle_hardunderrun *)

work_begin ==
  /\ pending /\ At("work", "out")
  /\ pending' = FALSE
  /\ Goto("work", IF flags \cap {"STOP", "STOPPED"} = {} THEN "stop" ELSE "out")
  /\ UNCHANGED <<mode, ring, frames, line, ier, masked, flags, sem, isr, status, sent, trouble, past>>

(* A variant with a plausible slip: the work does not ask. *)
NotAsked == FALSE

(* test_bit(VOICEBUS_SHUTDOWN), after voicebus_stop. *)
ShuttingDown == "SHUTDOWN" \in flags

(* disable_irq masks the interrupt, and then waits for its handler. *)
work_mask ==
  /\ At("work", "recover")
  /\ IF ShuttingDown
     THEN Goto("work", "out") /\ UNCHANGED masked
     ELSE Goto("work", "setup") /\ masked' = masked + 1
  /\ UNCHANGED <<mode, ring, frames, line, ier, flags, pending, sem, isr, status, sent, trouble, past>>

(* disable_irq returns when no handler runs. *)
HandlerOut == isr = "out"

work_setup ==
  /\ At("work", "setup") /\ HandlerOut
  /\ SetupDescriptors
  /\ Goto("work", "go")
  /\ UNCHANGED <<mode, board, csr5, control, isr, status, sent, trouble, past>>

work_go ==
  /\ At("work", "go")
  /\ StartProcessing
  /\ masked' = masked - 1
  /\ Goto("work", "out")
  /\ UNCHANGED <<mode, ring, frames, hw, filled, pending, sem, isr, status, sent, trouble, past>>

-----------------------------------------------------------------------------
(* The board driver *)

(* voicebus_start, up to vb_reset_interface; -EBUSY when not stopped. *)
driver_start ==
  /\ At("driver", "stopped") /\ stopped /\ starts < MaxStarts[mode]
  /\ starts' = starts + 1
  /\ csr5' = {} /\ ier' = FALSE
  /\ masked' = masked + 1
  /\ Goto("driver", "setup")
  /\ UNCHANGED <<mode, ring, frames, hw, board, filled, flags, pending, sem, isr, status, sent, trouble, raced>>

driver_setup ==
  /\ At("driver", "setup") /\ HandlerOut
  /\ SetupDescriptors
  /\ masked' = masked - 1
  /\ Goto("driver", "go")
  /\ UNCHANGED <<mode, board, csr5, ier, flags, pending, sem, isr, status, sent, trouble, past>>

driver_go ==
  /\ At("driver", "go")
  /\ StartProcessing
  /\ Goto("driver", "running")
  /\ UNCHANGED <<mode, ring, frames, hw, filled, masked, pending, sem, isr, status, sent, trouble, past>>

driver_stop ==
  /\ At("driver", "running")
  /\ Goto("driver", "stop")
  /\ UNCHANGED <<mode, ring, frames, line, control, isr, status, sent, trouble, past>>

(* voicebus_release. *)
driver_release ==
  /\ pc["driver"] \in {"running", "stopped"}
  /\ flags' = flags \cup {"SHUTDOWN"}
  /\ Goto("driver", "cancel")
  /\ UNCHANGED <<mode, ring, frames, line, ier, masked, pending, sem, isr, status, sent, trouble, past>>

(* cancel_work_sync *)
driver_cancel ==
  /\ At("driver", "cancel") /\ At("work", "out")
  /\ pending' = FALSE
  /\ Goto("driver", "stop")
  /\ UNCHANGED <<mode, ring, frames, line, ier, masked, flags, sem, isr, status, sent, trouble, past>>

(* vb_reset_interface, free_irq and the rest. *)
driver_free ==
  /\ At("driver", "free") /\ HandlerOut
  /\ board' = "stopped" /\ csr5' = {} /\ ier' = FALSE
  /\ Goto("driver", "gone")
  /\ UNCHANGED <<mode, ring, frames, hw, filled, masked, flags, pending, sem, isr, status, sent, trouble, past>>

(* The driver is unloaded. *)
driver_gone ==
  /\ At("driver", "gone") /\ At("work", "out") /\ ~pending
  /\ UNCHANGED vars

-----------------------------------------------------------------------------
Init ==
  /\ mode \in Modes
  /\ buf = [s \in Slots |-> "none"] /\ owned = {}
  /\ head = 0 /\ tail = 0 /\ count = 0
  /\ complete = 0 /\ latency = Latency /\ filled = 0 /\ hand = 0 /\ behind = 0
  /\ hw = 0 /\ board = "stopped" /\ csr5 = {} /\ ier = FALSE
  /\ masked = 0 /\ flags = {"STOP"} /\ pending = FALSE /\ sem = Nobody
  /\ isr = "out" /\ status = {} /\ sent = 0
  /\ pc = [t \in Threads |-> IF t = "work" THEN "out" ELSE "stopped"]
  /\ trouble = {} /\ starts = 0 /\ raced = FALSE

Board == send_frame \/ receive_frame

Handler ==
  \/ isr_underrun \/ isr_underrun_hx8 \/ isr_complete \/ isr_stopped
  \/ isr_collect \/ isr_send \/ isr_receive \/ isr_ack

Stopping(t) == stop_begin(t) \/ stop_halt(t) \/ stop_end(t)

Work == work_begin \/ work_mask \/ work_setup \/ work_go \/ Stopping("work")

Driver ==
  \/ driver_start \/ driver_setup \/ driver_go \/ driver_stop \/ Stopping("driver")
  \/ driver_release \/ driver_cancel \/ driver_free \/ driver_gone

Next == Board \/ isr_enter \/ Handler \/ Work \/ Driver

Spec == Init /\ [][Next]_vars

-----------------------------------------------------------------------------
(* Properties *)

Frames == Holding(buf, "frame")

TypeOK ==
  /\ mode \in Modes
  /\ buf \in [Slots -> {"none", "idle", "frame"}] /\ owned \subseteq Slots
  /\ {head, tail, hw} \subseteq Slots /\ count \in 0 .. DRING_SIZE
  /\ complete \in Nat /\ hand \in Nat /\ behind \in Nat
  /\ latency \in Latency .. MaxLatency /\ filled \in 0 .. RX_SIZE
  /\ board \in {"run", "suspended", "stopped"} /\ ier \in BOOLEAN
  /\ masked \in 0 .. 2 /\ pending \in BOOLEAN /\ sem \in Threads \cup {Nobody}

(* The frames of the ring stand in the count slots from head on, and       *)
(* between two runs of the routine the next one goes behind them.          *)
RingShape ==
  /\ Frames = Span(head, count)
  /\ isr = "out" => tail = Fwd(head, count)

(* The rings are going to be set up anew. *)
ResetOwed == pending \/ ~At("work", "out") \/ ~At("driver", "running")

(* latency frames circulate, whatever the underruns: none is lost, made,   *)
(* dropped for want of a place or given up at tx_error_exit                *)
(* (vb_tasklet_normal, vb_tasklet_hx8, __voicebus_transmit).               *)
FramesCirculate ==
  /\ TypeOK /\ RingShape
  /\ ~ResetOwed => count + complete + hand = latency
  /\ trouble \cap {"tx error", "dropped"} = {}

(* The board sends the frames in the order they were put on the ring, with *)
(* no slot before them that would stop it and no more than AHEAD idle ones *)
(* to wait for: the routine never puts a frame behind the board's back,    *)
(* for which it would have to come round (vb_tasklet_normal).              *)
SentInTurn ==
  ~ResetOwed /\ "unavailable" \notin csr5 =>
    \A s \in Frames \cap owned :
      LET before == Span(hw, (s - hw) % DRING_SIZE)
      IN  before \subseteq owned /\ Cardinality(before \ Frames) <= AHEAD

(* The voice of every millisecond goes out, once and in its turn, as long  *)
(* as the driver stops no board that is being recovered, after which both  *)
(* may set the rings up (vb_tasklet_normal, vb_tasklet_hx8,                *)
(* handle_hardunderrun).                                                   *)
FramesInTurn == ~raced => FramesCirculate /\ SentInTurn

(* No interrupt is lost for good: a board that waits for a frame has told  *)
(* so and may interrupt, or the work that restarts it is on its way        *)
(* (vb_isr, which acknowledges after the routine, and handle_hardunderrun),*)
(* under the same condition.                                               *)
Attended ==
  ~raced /\ ~ResetOwed /\ isr = "out" =>
    /\ ier /\ ~stopped
    /\ board = "suspended" => "unavailable" \in csr5

(* Whatever stops and recoveries crossed each other before, a release is   *)
(* final.  Once voicebus_release has cancelled the work nobody sets the    *)
(* rings up or starts the board any more, not even the work of an          *)
(* interrupt that came after the cancelling; voicebus_stop leaves the      *)
(* board stopped, also where it returns at once since STOP is set; and the *)
(* rings are freed with the board stopped and vb_isr out                   *)
(* (voicebus_release, voicebus_stop, handle_hardunderrun).                 *)
ReleaseIsFinal ==
  /\ "SHUTDOWN" \in flags /\ ~At("driver", "cancel") => pc["work"] \notin {"setup", "go"}
  /\ pc["driver"] \in {"free", "gone"} => stopped
  /\ At("driver", "gone") => ~ier /\ isr = "out"

(* What a reader of voicebus_stop would expect: after it the board stays   *)
(* stopped until the driver starts it, the rings are set up with the board *)
(* stopped, vb_isr out and the other thread away, and the board is never   *)
(* found stopped by itself (BUG_ON in vb_isr).  It holds unless the stop   *)
(* crosses a recovery, for which the code does nothing: the instance       *)
(* VbStopRace.cfg shows it.                                                *)
QuietWhileStopped ==
  /\ pc["driver"] \in {"stopped", "free", "gone"} => stopped
  /\ \A t \in Threads : At(t, "go") =>
       /\ stopped /\ isr = "out"
       /\ \A u \in Threads \ {t} : pc[u] \notin {"setup", "go"}
  /\ "stray stop" \notin trouble

(* "Make sure the underrun_work isn't running or going to run"             *)
(* (voicebus_release): once the interface is released, no work is left     *)
(* that would use it.                                                      *)
NothingAfterRelease == At("driver", "gone") => ~pending /\ At("work", "out")
=============================================================================
