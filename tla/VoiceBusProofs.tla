--------------------------- MODULE VoiceBusProofs ---------------------------
(***************************************************************************)
(* Proofs about VoiceBus: a release is final; and, as long as the driver   *)
(* stops no board that is being recovered, a board that waits is attended  *)
(* to, no frame is lost, and the board sends every frame in its turn.      *)
(*                                                                         *)
(* Three threads of control meet at the board: vb_isr, underrun_work and   *)
(* the board driver.  FinalInv says what VOICEBUS_STOP, VOICEBUS_SHUTDOWN  *)
(* and the semaphore mean whatever the threads do.  QuietInv holds until a *)
(* stop crosses a recovery: which threads may be where at the same time.   *)
(* AttendInv, under QuietInv, adds that the board may                      *)
(* interrupt unless its rings will be set up anew, and that, in NORMAL     *)
(* mode, a board that ran out of descriptors still says so in its status.  *)
(* RingInv is about the frames: how many there are where, and that those   *)
(* of the ring stand together from head on.  BoardInv (NORMAL) and HX8Inv  *)
(* say where the board is among them, which is what a late routine works   *)
(* out from the descriptors.  All hold for rings of any size.              *)
(***************************************************************************)
EXTENDS VoiceBus, FiniteSetTheorems, WellFoundedInduction, TLAPS

WorkPlaces == {"out", "stop", "halt", "halted", "recover", "setup", "go"}

DriverPlaces ==
  {"stopped", "setup", "go", "running", "stop", "halt", "halted", "cancel", "free", "gone"}

QuietTypes ==
  /\ pc \in [Threads -> WorkPlaces \cup DriverPlaces]
  /\ pc["work"] \in WorkPlaces /\ pc["driver"] \in DriverPlaces
  /\ sem \in Threads \cup {Nobody}
  /\ masked \in Int

(* The semaphore is held exactly in the two steps of voicebus_stop, and    *)
(* VOICEBUS_STOP is set from the first on until the board starts: once the *)
(* semaphore is free again, STOP means stopped.                            *)
StopMeansStopped ==
  /\ \A t \in Threads : pc[t] \in {"halt", "halted"} <=> sem = t
  /\ \A t \in Threads : pc[t] \in {"halt", "halted"} => "STOP" \in flags
  /\ stopped => "STOP" \in flags
  /\ "STOP" \in flags => stopped \/ \E t \in Threads : pc[t] = "halt"

(* Who finds the board stopped. *)
FindsStopped ==
  /\ pc["work"] \in {"halted", "recover", "setup", "go"} => stopped
  /\ pc["driver"] \in {"halted", "stopped", "setup", "go", "free", "gone"} => stopped

(* The work and the driver are not in each other's way. *)
Apart ==
  /\ pc["driver"] \in {"cancel", "free", "gone"} => "SHUTDOWN" \in flags
  /\ pc["driver"] \in {"stopped", "setup", "go", "running"} => "SHUTDOWN" \notin flags
  /\ pc["driver"] \in {"stopped", "setup", "go"} => pc["work"] = "out"
  /\ pc["driver"] \in {"halt", "halted"} /\ "SHUTDOWN" \notin flags => pc["work"] = "out"
  /\ pc["work"] \in {"setup", "go"} =>
       \/ pc["driver"] \in {"running", "cancel"}
       \/ pc["driver"] = "stop" /\ "SHUTDOWN" \notin flags

(* vb_isr is kept out by the mask, or has no event to come in for. *)
HandlerKeptOut ==
  /\ masked = (IF pc["work"] \in {"setup", "go"} THEN 1 ELSE 0)
              + (IF pc["driver"] = "setup" THEN 1 ELSE 0)
  /\ pc["driver"] \in {"setup", "go"} => csr5 = {}
  /\ "go" \in {pc["work"], pc["driver"]} => isr = "out"

(* No event of a stop is left when the board runs. *)
StopEvents ==
  /\ "stopped" \in csr5 \cup status => "STOP" \in flags
  /\ isr = "out" => status = {}
  /\ "stray stop" \notin trouble

QuietInv ==
  QuietTypes /\ StopMeansStopped /\ FindsStopped /\ Apart /\ HandlerKeptOut /\ StopEvents

-----------------------------------------------------------------------------
(* The invariant holds at first. *)
LEMMA QuietAtFirst == Init => QuietInv
BY DEF Init, QuietInv, QuietTypes, StopMeansStopped, FindsStopped, Apart, HandlerKeptOut,
       StopEvents, WorkPlaces, DriverPlaces, Threads, Nobody, stopped

(* It says what the property says. *)
LEMMA QuietEnough == QuietInv => QuietWhileStopped
BY DEF QuietInv, QuietTypes, StopMeansStopped, FindsStopped, Apart, HandlerKeptOut,
       StopEvents, WorkPlaces, DriverPlaces, Threads, At, QuietWhileStopped

(* A step of the board or of vb_isr moves no thread; it may let vb_isr in  *)
(* only through the mask and with an event.                                *)
LEMMA QuietAside ==
  ASSUME QuietInv, UNCHANGED <<pc, sem, masked>>,
         "STOP" \in flags' <=> "STOP" \in flags,
         "SHUTDOWN" \in flags' <=> "SHUTDOWN" \in flags,
         stopped' <=> stopped,
         stopped /\ csr5 = {} => csr5' = {},
         isr = "out" /\ (masked # 0 \/ csr5 = {}) => isr' = "out",
         StopEvents'
  PROVE  QuietInv'
<1>1. QuietTypes' /\ Apart'
  BY DEF QuietInv, QuietTypes, Apart
<1>2. StopMeansStopped' /\ FindsStopped'
  BY DEF QuietInv, StopMeansStopped, FindsStopped
<1>3. HandlerKeptOut'
  BY DEF QuietInv, HandlerKeptOut, QuietTypes, FindsStopped
<1> QED
  BY <1>1, <1>2, <1>3 DEF QuietInv

(* The board moves no thread. *)
LEMMA QuietBoard == ASSUME QuietInv, Board PROVE QuietInv'
<1>1. CASE send_frame
  <2>1. StopEvents'
    BY <1>1 DEF send_frame, Missing, QuietInv, StopEvents, control
  <2> QED
    BY <1>1, <2>1, QuietAside DEF send_frame, control, stopped
<1>2. CASE receive_frame
  <2>1. StopEvents'
    BY <1>2 DEF receive_frame, QuietInv, StopEvents, control
  <2> QED
    BY <1>2, <2>1, QuietAside DEF receive_frame, control, stopped
<1> QED
  BY <1>1, <1>2 DEF Board

(* Nor does vb_isr, which comes in only when it is not kept out. *)
LEMMA QuietHandler == ASSUME QuietInv, isr_enter \/ Handler PROVE QuietInv'
<1> USE DEF line, control
<1>1. CASE isr_enter
  <2>1. StopEvents'
    BY <1>1 DEF isr_enter, QuietInv, StopEvents
  <2> QED
    BY <1>1, <2>1, QuietAside DEF isr_enter, stopped
<1>2. CASE isr_underrun
  <2>1. StopEvents'
    BY <1>2 DEF isr_underrun, QuietInv, StopEvents
  <2> QED
    BY <1>2, <2>1, QuietAside DEF isr_underrun, stopped
<1>3. CASE isr_underrun_hx8
  <2>1. StopEvents'
    BY <1>3 DEF isr_underrun_hx8, QuietInv, StopEvents
  <2> QED
    BY <1>3, <2>1, QuietAside DEF isr_underrun_hx8, stopped
<1>4. CASE isr_complete
  <2>1. StopEvents'
    BY <1>4 DEF isr_complete, QuietInv, StopEvents
  <2> QED
    BY <1>4, <2>1, QuietAside DEF isr_complete, stopped
<1>5. CASE isr_stopped
  <2>1. StopEvents'
    BY <1>5 DEF isr_stopped, QuietInv, StopEvents
  <2> QED
    BY <1>5, <2>1, QuietAside DEF isr_stopped, stopped
<1>6. CASE isr_collect
  <2>1. /\ flags' = flags \ {"HARD_UNDERRUN"} /\ isr' # "out" /\ isr # "out"
        /\ UNCHANGED <<pc, sem, masked, board, csr5, status>>
        /\ trouble' \subseteq trouble \cup {"tx error"}
    BY <1>6 DEF isr_collect, Take, TxError
  <2>2. StopEvents'
    BY <2>1 DEF QuietInv, StopEvents
  <2> QED
    BY <2>1, <2>2, QuietAside DEF stopped
<1>7. CASE isr_send
  <2>1. /\ isr' # "out" /\ isr # "out"
        /\ UNCHANGED <<pc, flags, sem, masked, status>>
        /\ trouble' \subseteq trouble \cup {"tx error", "dropped"}
        /\ csr5' \subseteq csr5 \cup {"unavailable"}
        /\ board' # board => board = "suspended" /\ board' = "run"
        /\ board # "suspended" => csr5' = csr5
    BY <1>7 DEF isr_send, Transmit, Poll, TxError, Missing
  <2>2. StopEvents'
    BY <2>1 DEF QuietInv, StopEvents
  <2> QED
    BY <2>1, <2>2, QuietAside DEF stopped
<1>8. CASE isr_receive
  <2>1. StopEvents'
    BY <1>8 DEF isr_receive, QuietInv, StopEvents
  <2> QED
    BY <1>8, <2>1, QuietAside DEF isr_receive, stopped
<1>9. CASE isr_ack
  <2>1. StopEvents'
    BY <1>9 DEF isr_ack, Acknowledge, QuietInv, StopEvents
  <2> QED
    BY <1>9, <2>1, QuietAside DEF isr_ack, Acknowledge, stopped
<1> QED
  BY <1>1, <1>2, <1>3, <1>4, <1>5, <1>6, <1>7, <1>8, <1>9 DEF Handler

(* voicebus_stop, called by the driver or by the work. *)
LEMMA QuietStopping ==
  ASSUME ~raced', QuietInv, NEW t \in Threads, Stopping(t)
  PROVE  QuietInv'
<1> USE DEF At, Goto, ring, frames, line
<1>0. t = "work" \/ t = "driver"
  BY DEF Threads
<1>1. CASE stop_begin(t)
  <2>1. QuietTypes'
    BY <1>0, <1>1 DEF stop_begin, Crosses, After, QuietInv, QuietTypes, WorkPlaces, DriverPlaces, Threads
  <2>2. StopMeansStopped'
    BY <1>0, <1>1 DEF stop_begin, Crosses, After, QuietInv, QuietTypes, StopMeansStopped, WorkPlaces,
                      DriverPlaces, Threads, Nobody, stopped
  <2>3. FindsStopped'
    BY <1>0, <1>1 DEF stop_begin, Crosses, After, QuietInv, QuietTypes, StopMeansStopped, FindsStopped,
                      Threads, Nobody, stopped
  <2>4. Apart'
    <3>1. t = "driver" /\ "SHUTDOWN" \notin flags => pc["work"] = "out"
      BY <1>1 DEF stop_begin, Crosses
    <3>2. /\ pc[t] = "stop" /\ \A u \in Threads : u # t => pc'[u] = pc[u]
          /\ pc'[t] \in {"halt", After(t)}
          /\ flags' = flags \/ flags' = flags \cup {"STOP"}
      BY <1>0, <1>1 DEF stop_begin, QuietInv, QuietTypes
    <3>3. "SHUTDOWN" \in flags' <=> "SHUTDOWN" \in flags
      BY <3>2
    <3>4. CASE t = "work"
      <4>1. pc'["driver"] = pc["driver"] /\ pc'["work"] \in {"halt", "recover"}
        BY <3>2, <3>4 DEF After, Threads
      <4> QED
        BY <3>2, <3>3, <3>4, <4>1 DEF QuietInv, Apart
    <3>5. CASE t = "driver"
      <4>1. /\ pc'["work"] = pc["work"]
            /\ pc'["driver"] \in {"halt", "free", "stopped"}
            /\ pc'["driver"] = "free" => "SHUTDOWN" \in flags
            /\ pc'["driver"] = "stopped" => "SHUTDOWN" \notin flags
        BY <3>2, <3>5 DEF After, Threads
      <4>2. pc["work"] \notin {"setup", "go"}
        BY <3>1, <3>2, <3>5 DEF QuietInv, Apart
      <4> QED
        BY <3>1, <3>3, <3>5, <4>1, <4>2 DEF Apart
    <3> QED
      BY <1>0, <3>4, <3>5
  <2>5. HandlerKeptOut' /\ StopEvents'
    BY <1>0, <1>1 DEF stop_begin, Crosses, After, QuietInv, QuietTypes, HandlerKeptOut, StopEvents, Threads
  <2> QED
    BY <2>1, <2>2, <2>3, <2>4, <2>5 DEF QuietInv
<1>2. CASE stop_halt(t)
  <2>1. QuietTypes' /\ Apart'
    BY <1>0, <1>2 DEF stop_halt, control, QuietInv, QuietTypes, Apart, WorkPlaces, DriverPlaces,
                      Threads
  <2>2. StopMeansStopped' /\ FindsStopped'
    BY <1>0, <1>2 DEF stop_halt, control, QuietInv, QuietTypes, StopMeansStopped, FindsStopped,
                      Threads, Nobody, stopped
  <2>3. HandlerKeptOut' /\ StopEvents'
    BY <1>0, <1>2 DEF stop_halt, control, QuietInv, QuietTypes, HandlerKeptOut, StopEvents,
                      StopMeansStopped, Apart, Threads
  <2> QED
    BY <2>1, <2>2, <2>3 DEF QuietInv
<1>3. CASE stop_end(t)
  <2>1. QuietTypes' /\ Apart'
    BY <1>0, <1>3 DEF stop_end, After, QuietInv, QuietTypes, Apart, WorkPlaces, DriverPlaces,
                      Threads
  <2>2. StopMeansStopped' /\ FindsStopped'
    BY <1>0, <1>3 DEF stop_end, After, QuietInv, QuietTypes, StopMeansStopped, FindsStopped,
                      Threads, Nobody, stopped
  <2>3. HandlerKeptOut' /\ StopEvents'
    BY <1>0, <1>3 DEF stop_end, After, QuietInv, QuietTypes, HandlerKeptOut, StopEvents, Threads
  <2> QED
    BY <2>1, <2>2, <2>3 DEF QuietInv
<1> QED
  BY <1>1, <1>2, <1>3 DEF Stopping

(* handle_hardunderrun, but for its call of voicebus_stop. *)
LEMMA QuietWork ==
  ASSUME QuietInv, work_begin \/ work_mask \/ work_setup \/ work_go
  PROVE  QuietInv'
<1> USE DEF At, Goto, ring, frames, line, control, Threads
<1>1. CASE work_begin
  <2>1. QuietTypes' /\ Apart'
    BY <1>1 DEF work_begin, QuietInv, QuietTypes, Apart, FindsStopped, StopMeansStopped,
                WorkPlaces, DriverPlaces
  <2>2. StopMeansStopped' /\ FindsStopped'
    BY <1>1 DEF work_begin, QuietInv, QuietTypes, StopMeansStopped, FindsStopped, Nobody, stopped
  <2>3. HandlerKeptOut' /\ StopEvents'
    BY <1>1 DEF work_begin, QuietInv, QuietTypes, HandlerKeptOut, StopEvents
  <2> QED
    BY <2>1, <2>2, <2>3 DEF QuietInv
<1>2. CASE work_mask
  <2>1. QuietTypes' /\ Apart'
    BY <1>2 DEF work_mask, ShuttingDown, QuietInv, QuietTypes, Apart, WorkPlaces, DriverPlaces
  <2>2. StopMeansStopped' /\ FindsStopped'
    BY <1>2 DEF work_mask, ShuttingDown, QuietInv, QuietTypes, StopMeansStopped, FindsStopped, Nobody, stopped
  <2>3. CASE "SHUTDOWN" \in flags
    <3>1. pc'["work"] = "out" /\ pc["work"] = "recover" /\ pc'["driver"] = pc["driver"]
      BY <1>2, <2>3 DEF work_mask, ShuttingDown, QuietInv, QuietTypes
    <3>2. HandlerKeptOut' /\ StopEvents'
      BY <1>2, <2>3, <3>1 DEF work_mask, ShuttingDown, QuietInv, HandlerKeptOut, StopEvents
    <3> QED
      BY <2>1, <2>2, <3>2 DEF QuietInv
  <2>4. CASE "SHUTDOWN" \notin flags
    <3>1. pc'["work"] = "setup" /\ pc["work"] = "recover" /\ pc'["driver"] = pc["driver"]
      BY <1>2, <2>4 DEF work_mask, ShuttingDown, QuietInv, QuietTypes
    <3>2. masked' = masked + 1 /\ UNCHANGED <<csr5, isr, status, flags, trouble>>
      BY <1>2, <2>4 DEF work_mask, ShuttingDown
    <3>3. HandlerKeptOut'
      BY <3>1, <3>2 DEF QuietInv, HandlerKeptOut
    <3>4. StopEvents'
      BY <3>2 DEF QuietInv, StopEvents
    <3> QED
      BY <2>1, <2>2, <3>3, <3>4 DEF QuietInv
  <2> QED
    BY <2>3, <2>4
<1>3. CASE work_setup
  <2>1. /\ pc' = [pc EXCEPT !["work"] = "go"] /\ pc["work"] = "setup" /\ isr = "out"
        /\ UNCHANGED <<board, csr5, ier, masked, flags, pending, sem, isr, status, trouble>>
    BY <1>3 DEF work_setup, HandlerOut
  <2>2. QuietTypes' /\ Apart'
    BY <2>1 DEF QuietInv, QuietTypes, Apart, WorkPlaces, DriverPlaces
  <2>3. StopMeansStopped' /\ FindsStopped'
    BY <2>1 DEF QuietInv, QuietTypes, StopMeansStopped, FindsStopped, Nobody, stopped
  <2>4. pc'["work"] = "go" /\ pc'["driver"] = pc["driver"]
    BY <2>1 DEF QuietInv, QuietTypes
  <2>5. HandlerKeptOut'
    BY <2>1, <2>4 DEF QuietInv, HandlerKeptOut
  <2>6. StopEvents'
    BY <2>1 DEF QuietInv, StopEvents
  <2> QED
    BY <2>2, <2>3, <2>5, <2>6 DEF QuietInv
<1>4. CASE work_go
  <2>1. QuietTypes' /\ Apart'
    BY <1>4 DEF work_go, StartProcessing, QuietInv, QuietTypes, Apart, WorkPlaces, DriverPlaces
  <2>2. StopMeansStopped' /\ FindsStopped'
    BY <1>4 DEF work_go, StartProcessing, QuietInv, QuietTypes, StopMeansStopped, FindsStopped,
                Apart, Nobody, stopped, WorkPlaces, DriverPlaces
  <2>3. pc'["work"] = "out" /\ pc'["driver"] = pc["driver"]
    BY <1>4 DEF work_go, QuietInv, QuietTypes
  <2>4. pc["driver"] \notin {"setup", "go"}
    BY <1>4 DEF work_go, QuietInv, Apart
  <2>5. HandlerKeptOut'
    BY <1>4, <2>3, <2>4 DEF work_go, QuietInv, HandlerKeptOut
  <2>6. StopEvents'
    BY <1>4 DEF work_go, StartProcessing, QuietInv, HandlerKeptOut, StopEvents
  <2> QED
    BY <2>1, <2>2, <2>5, <2>6 DEF QuietInv
<1> QED
  BY <1>1, <1>2, <1>3, <1>4

(* voicebus_start and voicebus_release, but for its call of voicebus_stop. *)
LEMMA QuietDriver ==
  ASSUME QuietInv,
         \/ driver_start \/ driver_setup \/ driver_go \/ driver_stop
         \/ driver_release \/ driver_cancel \/ driver_free \/ driver_gone
  PROVE  QuietInv'
<1> USE DEF At, Goto, ring, frames, line, control, Threads
<1>1. CASE driver_start
  <2>1. pc'["driver"] = "setup" /\ pc'["work"] = pc["work"]
    BY <1>1 DEF driver_start, QuietInv, QuietTypes
  <2>2. QuietTypes' /\ Apart'
    BY <1>1 DEF driver_start, QuietInv, QuietTypes, Apart, WorkPlaces, DriverPlaces
  <2>3. StopMeansStopped' /\ FindsStopped'
    BY <1>1 DEF driver_start, QuietInv, QuietTypes, StopMeansStopped, FindsStopped, Nobody, stopped
  <2>4. HandlerKeptOut'
    BY <1>1, <2>1 DEF driver_start, QuietInv, HandlerKeptOut, Apart
  <2>5. StopEvents'
    BY <1>1 DEF driver_start, QuietInv, StopEvents
  <2> QED
    BY <2>2, <2>3, <2>4, <2>5 DEF QuietInv
<1>2. CASE driver_setup
  <2>1. /\ pc' = [pc EXCEPT !["driver"] = "go"] /\ pc["driver"] = "setup" /\ isr = "out"
        /\ masked' = masked - 1
        /\ UNCHANGED <<board, csr5, ier, flags, pending, sem, isr, status, trouble>>
    BY <1>2 DEF driver_setup, HandlerOut
  <2>2. pc'["driver"] = "go" /\ pc'["work"] = pc["work"]
    BY <2>1 DEF QuietInv, QuietTypes
  <2>3. QuietTypes' /\ Apart'
    BY <2>1 DEF QuietInv, QuietTypes, Apart, WorkPlaces, DriverPlaces
  <2>4. StopMeansStopped' /\ FindsStopped'
    BY <2>1 DEF QuietInv, QuietTypes, StopMeansStopped, FindsStopped, Nobody, stopped
  <2>5. HandlerKeptOut'
    BY <2>1, <2>2 DEF QuietInv, HandlerKeptOut, Apart
  <2>6. StopEvents'
    BY <2>1 DEF QuietInv, StopEvents
  <2> QED
    BY <2>3, <2>4, <2>5, <2>6 DEF QuietInv
<1>3. CASE driver_go
  <2>1. pc'["driver"] = "running" /\ pc'["work"] = pc["work"] /\ pc["work"] = "out"
    BY <1>3 DEF driver_go, QuietInv, QuietTypes, Apart
  <2>2. QuietTypes' /\ Apart'
    BY <1>3 DEF driver_go, StartProcessing, QuietInv, QuietTypes, Apart, WorkPlaces, DriverPlaces
  <2>3. StopMeansStopped' /\ FindsStopped'
    BY <1>3, <2>1 DEF driver_go, StartProcessing, QuietInv, QuietTypes, StopMeansStopped,
                      FindsStopped, Nobody, stopped
  <2>4. HandlerKeptOut'
    BY <1>3, <2>1 DEF driver_go, QuietInv, HandlerKeptOut
  <2>5. StopEvents'
    BY <1>3 DEF driver_go, StartProcessing, QuietInv, HandlerKeptOut, StopEvents
  <2> QED
    BY <2>2, <2>3, <2>4, <2>5 DEF QuietInv
<1>4. CASE driver_stop
  <2>1. pc'["driver"] = "stop" /\ pc["driver"] = "running" /\ pc'["work"] = pc["work"]
    BY <1>4 DEF driver_stop, QuietInv, QuietTypes
  <2>2. QuietTypes' /\ Apart'
    BY <1>4 DEF driver_stop, QuietInv, QuietTypes, Apart, WorkPlaces, DriverPlaces
  <2>3. StopMeansStopped' /\ FindsStopped'
    BY <1>4 DEF driver_stop, QuietInv, QuietTypes, StopMeansStopped, FindsStopped, Nobody, stopped
  <2>4. HandlerKeptOut' /\ StopEvents'
    BY <1>4, <2>1 DEF driver_stop, QuietInv, HandlerKeptOut, StopEvents
  <2> QED
    BY <2>2, <2>3, <2>4 DEF QuietInv
<1>5. CASE driver_release
  <2>1. /\ pc'["driver"] = "cancel" /\ pc["driver"] \in {"running", "stopped"}
        /\ pc'["work"] = pc["work"]
    BY <1>5 DEF driver_release, QuietInv, QuietTypes
  <2>2. QuietTypes' /\ Apart'
    BY <1>5 DEF driver_release, QuietInv, QuietTypes, Apart, WorkPlaces, DriverPlaces
  <2>3. StopMeansStopped' /\ FindsStopped'
    BY <1>5 DEF driver_release, QuietInv, QuietTypes, StopMeansStopped, FindsStopped, Nobody,
                stopped
  <2>4. HandlerKeptOut' /\ StopEvents'
    BY <1>5, <2>1 DEF driver_release, QuietInv, HandlerKeptOut, StopEvents
  <2> QED
    BY <2>2, <2>3, <2>4 DEF QuietInv
<1>6. CASE driver_cancel
  <2>1. pc'["driver"] = "stop" /\ pc["driver"] = "cancel" /\ pc'["work"] = pc["work"]
    BY <1>6 DEF driver_cancel, QuietInv, QuietTypes
  <2>2. QuietTypes' /\ Apart'
    BY <1>6 DEF driver_cancel, QuietInv, QuietTypes, Apart, WorkPlaces, DriverPlaces
  <2>3. StopMeansStopped' /\ FindsStopped'
    BY <1>6 DEF driver_cancel, QuietInv, QuietTypes, StopMeansStopped, FindsStopped, Nobody,
                stopped
  <2>4. HandlerKeptOut' /\ StopEvents'
    BY <1>6, <2>1 DEF driver_cancel, QuietInv, HandlerKeptOut, StopEvents
  <2> QED
    BY <2>2, <2>3, <2>4 DEF QuietInv
<1>7. CASE driver_free
  <2>1. pc'["driver"] = "gone" /\ pc["driver"] = "free" /\ pc'["work"] = pc["work"]
    BY <1>7 DEF driver_free, QuietInv, QuietTypes
  <2>2. QuietTypes' /\ Apart'
    BY <1>7 DEF driver_free, QuietInv, QuietTypes, Apart, WorkPlaces, DriverPlaces
  <2>3. StopMeansStopped' /\ FindsStopped'
    BY <1>7 DEF driver_free, QuietInv, QuietTypes, StopMeansStopped, FindsStopped, Nobody, stopped
  <2>4. HandlerKeptOut'
    BY <1>7, <2>1 DEF driver_free, HandlerOut, QuietInv, HandlerKeptOut
  <2>5. StopEvents'
    BY <1>7 DEF driver_free, QuietInv, StopEvents
  <2> QED
    BY <2>2, <2>3, <2>4, <2>5 DEF QuietInv
<1>8. CASE driver_gone
  BY <1>8 DEF driver_gone, vars, QuietInv, QuietTypes, StopMeansStopped, FindsStopped, Apart,
              HandlerKeptOut, StopEvents, stopped
<1> QED
  BY <1>1, <1>2, <1>3, <1>4, <1>5, <1>6, <1>7, <1>8

(* The invariant is inductive. *)
LEMMA QuietStep == ASSUME ~raced', QuietInv, [Next]_vars PROVE QuietInv'
<1>1. CASE UNCHANGED vars
  BY <1>1 DEF vars, control, line, QuietInv, QuietTypes, StopMeansStopped, FindsStopped, Apart,
              HandlerKeptOut, StopEvents, stopped
<1>2. CASE Board \/ isr_enter \/ Handler
  BY <1>2, QuietBoard, QuietHandler
<1>3. CASE Work
  BY <1>3, QuietWork, QuietStopping DEF Work, Threads
<1>4. CASE Driver
  BY <1>4, QuietDriver, QuietStopping DEF Driver, Threads
<1> QED
  BY <1>1, <1>2, <1>3, <1>4 DEF Next

(* What is past stays so: a stop has crossed a recovery, or not yet.       *)
LEMMA RacedStays == [Next]_vars /\ raced => raced'
BY DEF Next, Board, send_frame, receive_frame, isr_enter, Handler, isr_underrun, isr_underrun_hx8,
       isr_complete, isr_stopped, isr_collect, isr_send, isr_receive, isr_ack, Stopping,
       stop_begin, stop_halt, stop_end, Work, work_begin, work_mask, work_setup, work_go, Driver,
       driver_start, driver_setup, driver_go, driver_stop, driver_release, driver_cancel,
       driver_free, driver_gone, vars, past

(* As long as the driver stops no board that is being recovered, a stopped *)
(* interface is left alone: voicebus_stop returns with the board stopped   *)
(* and it stays so until voicebus_start, and the rings are set up with the *)
(* board stopped, vb_isr out and nobody else at it.                        *)
LEMMA VoiceBusQuiet == Spec => [](~raced => QuietWhileStopped)
<1> DEFINE Inv == ~raced => QuietInv
<1>1. Init => Inv
  BY QuietAtFirst
<1>2. Inv /\ [Next]_vars => Inv'
  BY QuietStep, RacedStays
<1>3. Inv => (~raced => QuietWhileStopped)
  BY QuietEnough
<1> HIDE DEF Inv
<1> QED
  BY <1>1, <1>2, <1>3, PTL DEF Spec

-----------------------------------------------------------------------------
(* A release is final, whatever crossed before it.                         *)

(* STOP says that the board is stopped, or about to be, even where a stop  *)
(* has crossed a recovery: who starts the board clears it.                 *)
StopTrue ==
  /\ \A t \in Threads : pc[t] \in {"halt", "halted"} <=> sem = t
  /\ "STOP" \in flags => stopped \/ \E t \in Threads : pc[t] = "halt"

(* The driver has asked the interface to shut down, and the work has seen  *)
(* it or been waited for.                                                  *)
Released == "SHUTDOWN" \in flags /\ pc["driver"] # "cancel"

FinalInv ==
  /\ QuietTypes /\ StopTrue
  /\ pc["driver"] \in {"cancel", "free", "gone"} => "SHUTDOWN" \in flags
  /\ pc["driver"] \in {"stopped", "setup", "go", "running"} => "SHUTDOWN" \notin flags
  /\ Released => pc["work"] \notin {"setup", "go"}
  /\ Released /\ pc["driver"] \in {"halted", "free", "gone"} => stopped
  /\ pc["driver"] = "gone" => ier = FALSE /\ isr = "out"

LEMMA FinalAtFirst == Init => FinalInv
BY DEF Init, FinalInv, QuietTypes, StopTrue, Released, WorkPlaces, DriverPlaces, Threads, Nobody,
       stopped

LEMMA FinalEnough == FinalInv => ReleaseIsFinal
BY DEF FinalInv, Released, ReleaseIsFinal, At

(* Steps of the board and of vb_isr. *)
LEMMA FinalAside ==
  ASSUME FinalInv, UNCHANGED <<pc, sem, masked>>,
         "STOP" \in flags' <=> "STOP" \in flags,
         "SHUTDOWN" \in flags' <=> "SHUTDOWN" \in flags,
         stopped' <=> stopped,
         pc["driver"] = "gone" => ier' = FALSE /\ isr' = "out"
  PROVE  FinalInv'
BY DEF FinalInv, QuietTypes, StopTrue, Released

LEMMA FinalHandler == ASSUME FinalInv, Board \/ isr_enter \/ Handler PROVE FinalInv'
<1> USE DEF line, control, stopped, At
<1>1. CASE Board
  BY <1>1, FinalAside DEF Board, send_frame, receive_frame, FinalInv
<1>2. CASE isr_enter
  BY <1>2, FinalAside DEF isr_enter, FinalInv
<1>3. ASSUME isr # "out", UNCHANGED <<pc, sem, masked>>,
             "STOP" \in flags' <=> "STOP" \in flags,
             "SHUTDOWN" \in flags' <=> "SHUTDOWN" \in flags,
             stopped' <=> stopped
      PROVE  FinalInv'
  BY <1>3, FinalAside DEF FinalInv
<1>4. CASE isr_underrun_hx8
  <2>1. /\ flags' = flags \cup {"HARD_UNDERRUN"} /\ isr # "out"
        /\ UNCHANGED <<pc, sem, masked, board>>
    BY <1>4 DEF isr_underrun_hx8
  <2> QED
    BY <1>3, <2>1
<1>7. CASE \/ isr_underrun \/ isr_complete \/ isr_stopped \/ isr_receive \/ isr_ack
  <2>1. isr # "out" /\ UNCHANGED <<pc, sem, masked, flags, board>>
    <3>1. CASE isr_underrun  BY <3>1 DEF isr_underrun
    <3>2. CASE isr_complete  BY <3>2 DEF isr_complete
    <3>3. CASE isr_stopped  BY <3>3 DEF isr_stopped
    <3>4. CASE isr_receive  BY <3>4 DEF isr_receive
    <3>5. CASE isr_ack  BY <3>5 DEF isr_ack
    <3> QED
      BY <1>7, <3>1, <3>2, <3>3, <3>4, <3>5
  <2> QED
    BY <1>3, <2>1
<1>5. CASE isr_collect
  <2>1. /\ flags' = flags \ {"HARD_UNDERRUN"} /\ isr # "out"
        /\ UNCHANGED <<pc, sem, masked, board>>
    BY <1>5 DEF isr_collect
  <2> QED
    BY <1>3, <2>1
<1>6. CASE isr_send
  <2>1. /\ isr # "out" /\ UNCHANGED <<pc, sem, masked, flags>>
        /\ board' # board => board = "suspended" /\ board' = "run"
    BY <1>6 DEF isr_send, Poll, TxError
  <2> QED
    BY <1>3, <2>1
<1> QED
  BY <1>1, <1>2, <1>4, <1>5, <1>6, <1>7 DEF Handler

LEMMA FinalStopping ==
  ASSUME FinalInv, NEW t \in Threads, Stopping(t)
  PROVE  FinalInv'
<1> USE DEF At, Goto, ring, frames, line
<1>0. t = "work" \/ t = "driver"
  BY DEF Threads
<1>1. QuietTypes'
  BY <1>0 DEF Stopping, stop_begin, stop_halt, stop_end, control, After, FinalInv, QuietTypes,
              WorkPlaces, DriverPlaces, Threads
<1>2. StopTrue'
  <2>1. CASE stop_begin(t)
    BY <1>0, <2>1 DEF stop_begin, After, FinalInv, QuietTypes, StopTrue, Threads, Nobody, stopped
  <2>2. CASE stop_halt(t)
    BY <1>0, <2>2 DEF stop_halt, control, FinalInv, QuietTypes, StopTrue, Threads, Nobody, stopped
  <2>3. CASE stop_end(t)
    BY <1>0, <2>3 DEF stop_end, After, FinalInv, QuietTypes, StopTrue, Threads, Nobody, stopped
  <2> QED
    BY <2>1, <2>2, <2>3 DEF Stopping
<1>3. /\ "SHUTDOWN" \in flags' <=> "SHUTDOWN" \in flags
      /\ pc'[t] \in {"halt", "halted", After(t)} /\ pc[t] \in {"stop", "halt", "halted"}
      /\ \A u \in Threads : u # t => pc'[u] = pc[u]
      /\ stopped => stopped'
      /\ ier = FALSE => ier' = FALSE
      /\ isr' = isr
  BY <1>0 DEF Stopping, stop_begin, stop_halt, stop_end, control, FinalInv, QuietTypes, stopped
<1>4. CASE t = "work"
  <2>1. pc'["driver"] = pc["driver"] /\ pc'["work"] \in {"halt", "halted", "recover"}
    BY <1>3, <1>4 DEF After, Threads
  <2> QED
    BY <1>1, <1>2, <1>3, <2>1 DEF FinalInv, Released
<1>5. CASE t = "driver"
  <2>1. /\ pc'["work"] = pc["work"] /\ pc["driver"] \in {"stop", "halt", "halted"}
        /\ pc'["driver"] \in {"halt", "halted", "free", "stopped"}
        /\ pc'["driver"] = "free" => "SHUTDOWN" \in flags
        /\ pc'["driver"] = "stopped" => "SHUTDOWN" \notin flags
    BY <1>3, <1>5 DEF After, Threads
  <2>2. Released /\ pc'["driver"] \in {"halted", "free"} => stopped'
    <3>1. CASE stop_begin(t)
      BY <1>0, <1>5, <3>1 DEF stop_begin, FinalInv, StopTrue, QuietTypes, Threads, Nobody, stopped
    <3>2. CASE stop_halt(t)
      BY <3>2 DEF stop_halt, stopped
    <3>3. CASE stop_end(t)
      BY <1>5, <3>3 DEF stop_end, FinalInv, stopped
    <3> QED
      BY <3>1, <3>2, <3>3 DEF Stopping
  <2> QED
    BY <1>1, <1>2, <1>3, <2>1, <2>2 DEF FinalInv, Released
<1> QED
  BY <1>0, <1>4, <1>5

LEMMA FinalWork ==
  ASSUME FinalInv, work_begin \/ work_mask \/ work_setup \/ work_go
  PROVE  FinalInv'
<1> USE DEF At, Goto, ring, frames, line, control, Threads
<1>1. /\ pc'["driver"] = pc["driver"] /\ sem' = sem /\ isr' = isr /\ masked' \in Int
      /\ pc' \in [Threads -> WorkPlaces \cup DriverPlaces]
      /\ pc["work"] \in {"out", "recover", "setup", "go"}
      /\ pc'["work"] \in {"out", "stop", "setup", "go"}
      /\ "SHUTDOWN" \in flags' <=> "SHUTDOWN" \in flags
  BY DEF work_begin, work_mask, work_setup, work_go, StartProcessing, FinalInv, QuietTypes,
         WorkPlaces, DriverPlaces
<1>2. QuietTypes'
  BY <1>1 DEF FinalInv, QuietTypes, WorkPlaces
<1>3. CASE work_go
  <2>1. ~Released /\ pc["driver"] # "gone"
    BY <1>3 DEF work_go, FinalInv, Released
  <2>2. StopTrue'
    BY <1>1, <1>3 DEF work_go, StartProcessing, FinalInv, StopTrue, Nobody
  <2> QED
    BY <1>1, <1>2, <2>1, <2>2 DEF FinalInv, Released
<1>4. CASE ~work_go
  <2>1. UNCHANGED <<board, ier, flags>>
    BY <1>4 DEF work_begin, work_mask, work_setup
  <2>2. pc'["work"] \in {"setup", "go"} => pc["work"] = "setup" \/ "SHUTDOWN" \notin flags
    BY <1>4 DEF work_begin, work_mask, ShuttingDown, work_setup, FinalInv, QuietTypes
  <2>3. StopTrue'
    BY <1>1, <2>1 DEF FinalInv, StopTrue, stopped, Nobody
  <2> QED
    BY <1>1, <1>2, <2>1, <2>2, <2>3 DEF FinalInv, Released, stopped
<1> QED
  BY <1>3, <1>4

LEMMA FinalDriver ==
  ASSUME FinalInv,
         \/ driver_start \/ driver_setup \/ driver_go \/ driver_stop
         \/ driver_release \/ driver_cancel \/ driver_free
  PROVE  FinalInv'
<1> USE DEF At, Goto, ring, frames, line, control, Threads
<1>1. /\ pc'["work"] = pc["work"] /\ sem' = sem /\ isr' = isr /\ masked' \in Int
      /\ pc' \in [Threads -> WorkPlaces \cup DriverPlaces]
      /\ pc["driver"] \in {"stopped", "setup", "go", "running", "cancel", "free"}
      /\ pc'["driver"] \in {"setup", "go", "running", "stop", "cancel", "gone"}
  BY DEF driver_start, driver_setup, driver_go, driver_stop, driver_release, driver_cancel,
         driver_free, StartProcessing, FinalInv, QuietTypes, WorkPlaces, DriverPlaces
<1>2. QuietTypes'
  BY <1>1 DEF FinalInv, QuietTypes, DriverPlaces
<1>3. CASE driver_go
  <2>1. StopTrue'
    BY <1>1, <1>3 DEF driver_go, StartProcessing, FinalInv, StopTrue, Nobody
  <2>2. pc'["driver"] = "running" /\ "SHUTDOWN" \notin flags'
    BY <1>3 DEF driver_go, StartProcessing, FinalInv, QuietTypes
  <2> QED
    BY <1>2, <2>1, <2>2 DEF FinalInv, Released
<1>4. CASE driver_free
  <2>1. /\ pc'["driver"] = "gone" /\ flags' = flags /\ board' = "stopped" /\ ier' = FALSE
        /\ isr = "out" /\ pc["driver"] = "free"
    BY <1>4 DEF driver_free, HandlerOut, FinalInv, QuietTypes
  <2>2. StopTrue'
    BY <1>1, <2>1 DEF FinalInv, StopTrue, stopped, Nobody
  <2> QED
    BY <1>1, <1>2, <2>1, <2>2 DEF FinalInv, Released, stopped
<1>5. CASE driver_release
  <2>1. pc'["driver"] = "cancel" /\ flags' = flags \cup {"SHUTDOWN"} /\ UNCHANGED <<board, ier>>
    BY <1>5 DEF driver_release, FinalInv, QuietTypes
  <2>2. StopTrue'
    BY <1>1, <2>1 DEF FinalInv, StopTrue, stopped, Nobody
  <2> QED
    BY <1>1, <1>2, <2>1, <2>2 DEF FinalInv, Released, stopped
<1>6. CASE driver_cancel
  <2>1. /\ pc'["driver"] = "stop" /\ UNCHANGED <<flags, board, ier>>
        /\ pc["driver"] = "cancel" /\ pc["work"] = "out"
    BY <1>6 DEF driver_cancel, FinalInv, QuietTypes
  <2>2. StopTrue'
    BY <1>1, <2>1 DEF FinalInv, StopTrue, stopped, Nobody
  <2> QED
    BY <1>1, <1>2, <2>1, <2>2 DEF FinalInv, Released, stopped
<1>7. CASE driver_start \/ driver_setup \/ driver_stop
  <2>1. /\ pc["driver"] \in {"stopped", "setup", "running"}
        /\ pc'["driver"] \in {"setup", "go", "stop"}
        /\ UNCHANGED <<flags, board>>
    BY <1>7 DEF driver_start, driver_setup, driver_stop, FinalInv, QuietTypes
  <2>2. StopTrue'
    BY <1>1, <2>1 DEF FinalInv, StopTrue, stopped, Nobody
  <2> QED
    BY <1>1, <1>2, <2>1, <2>2 DEF FinalInv, Released, stopped
<1> QED
  BY <1>3, <1>4, <1>5, <1>6, <1>7

(* After voicebus_release has cancelled the work nobody starts the board   *)
(* or sets the rings up, and they are freed with the board stopped and     *)
(* vb_isr out.  There is no condition on what came before: stops may have  *)
(* crossed recoveries, and the board run though the driver had stopped it. *)
THEOREM VoiceBusReleaseFinal == Spec => []ReleaseIsFinal
<1>1. Init => FinalInv
  BY FinalAtFirst
<1>2. FinalInv /\ [Next]_vars => FinalInv'
  <2> SUFFICES ASSUME FinalInv, [Next]_vars PROVE FinalInv'
    OBVIOUS
  <2>1. CASE UNCHANGED vars
    BY <2>1, FinalAside DEF vars, control, line, stopped, FinalInv
  <2>2. CASE Board \/ isr_enter \/ Handler
    BY <2>2, FinalHandler
  <2>3. CASE Work
    BY <2>3, FinalWork, FinalStopping DEF Work, Threads
  <2>4. CASE Driver
    <3>1. CASE driver_gone
      BY <2>1, <3>1 DEF driver_gone
    <3> QED
      BY <2>4, <3>1, FinalDriver, FinalStopping DEF Driver, Threads
  <2> QED
    BY <2>1, <2>2, <2>3, <2>4 DEF Next
<1>3. FinalInv => ReleaseIsFinal
  BY FinalEnough
<1> QED
  BY <1>1, <1>2, <1>3, PTL DEF Spec

-----------------------------------------------------------------------------

(* A board that waits is attended to. *)

(* Nobody has asked the interface to stop while the driver runs it. *)
MayRun ==
  pc["driver"] = "running" /\ pc["work"] \in {"out", "stop"} =>
    {"STOP", "STOPPED"} \cap flags = {}

(* The board may interrupt unless its rings are going to be set up anew.   *)
MayInterrupt == ~ResetOwed => ier = TRUE

(* vb_isr acknowledges an underrun only with the work on its way, and the  *)
(* rest after the routine, which it entered without an underrun.           *)
Told ==
  mode = "NORMAL" =>
    /\ isr \notin {"out", "decide"} => "unavailable" \notin status
    /\ ~ResetOwed /\ board = "suspended" => "unavailable" \in csr5

AttendInv ==
  ier \in BOOLEAN /\ pending \in BOOLEAN /\ MayRun /\ MayInterrupt /\ Told

(* At first the driver does not run the interface. *)
LEMMA AttendAtFirst == Init => AttendInv
BY DEF Init, AttendInv, MayRun, MayInterrupt, Told, ResetOwed, At, Threads

(* Steps after which the rings are still, or again, to be set up anew. *)
LEMMA AttendOwed ==
  ASSUME AttendInv, ier' \in BOOLEAN, pending' \in BOOLEAN, ResetOwed', MayRun',
         mode' = mode,
         isr' \notin {"out", "decide"} => isr \notin {"out", "decide"} /\ status' = status
  PROVE  AttendInv'
BY DEF AttendInv, MayInterrupt, Told

(* A board that finds no descriptor says so. *)
LEMMA AttendBoard == ASSUME AttendInv, Board PROVE AttendInv'
<1>1. UNCHANGED <<mode, control, isr, status, pc>>
  BY DEF Board, send_frame, receive_frame
<1>2. board' = "suspended" => board = "suspended" \/ "unavailable" \in csr5'
  BY DEF Board, send_frame, receive_frame, Missing
<1>3. csr5 \subseteq csr5'
  BY DEF Board, send_frame, receive_frame
<1>4. ResetOwed' <=> ResetOwed
  BY <1>1 DEF ResetOwed, At, control
<1>5. MayRun' /\ MayInterrupt'
  BY <1>1, <1>4 DEF AttendInv, MayRun, MayInterrupt, control
<1>6. Told'
  BY <1>1, <1>2, <1>3, <1>4 DEF AttendInv, Told
<1> QED
  BY <1>1, <1>5, <1>6 DEF AttendInv, control

(* vb_isr takes the right to interrupt away only when it schedules the     *)
(* work, or when the board is found stopped.                               *)
LEMMA AttendHandler == ASSUME QuietInv, AttendInv, isr_enter \/ Handler PROVE AttendInv'
<1> USE DEF line, control
<1>1. pc' = pc /\ mode' = mode
  BY DEF isr_enter, Handler, isr_underrun, isr_underrun_hx8, isr_complete, isr_stopped,
         isr_collect, isr_send, isr_receive, isr_ack
<1>2. flags' \subseteq flags \cup {"HARD_UNDERRUN"}
  BY DEF isr_enter, Handler, isr_underrun, isr_underrun_hx8, isr_complete, isr_stopped,
         isr_collect, isr_send, isr_receive, isr_ack
<1>3. MayRun'
  BY <1>1, <1>2 DEF AttendInv, MayRun
<1>4. ~ResetOwed => "STOP" \notin flags /\ ~stopped
  BY DEF ResetOwed, At, AttendInv, MayRun, QuietInv, StopMeansStopped
<1>5. pending' \in BOOLEAN /\ (pending => pending')
  <2>1. CASE pending' = pending
    BY <2>1 DEF AttendInv
  <2>2. CASE pending' = TRUE
    BY <2>2
  <2>3. CASE isr_send
    BY <2>3 DEF isr_send, Transmit, TxError, AttendInv
  <2> QED
    BY <2>1, <2>2, <2>3 DEF isr_enter, Handler, isr_underrun, isr_underrun_hx8, isr_complete,
         isr_stopped, isr_collect, Take, TxError, isr_receive, isr_ack
<1>6. ResetOwed => ResetOwed'
  BY <1>1, <1>5 DEF ResetOwed, At
<1>7. ASSUME ier' = ier \/ (ier' = FALSE /\ ResetOwed')
      PROVE  ier' \in BOOLEAN /\ MayInterrupt'
  BY <1>6, <1>7 DEF AttendInv, MayInterrupt
<1>8. CASE isr_enter \/ isr_receive
  <2>1. UNCHANGED <<ier, board, csr5>>
    BY <1>8 DEF isr_enter, isr_receive
  <2>2. Told'
    BY <1>1, <1>6, <1>8, <2>1 DEF isr_enter, isr_receive, AttendInv, Told
  <2> QED
    BY <1>3, <1>5, <1>7, <2>1, <2>2 DEF AttendInv
<1>9. CASE isr_underrun
  <2>1. pending' = TRUE /\ ier' = FALSE /\ isr' = "out"
    BY <1>9 DEF isr_underrun
  <2>2. ResetOwed'
    BY <2>1 DEF ResetOwed
  <2> QED
    BY <1>1, <1>3, <2>1, <2>2, AttendOwed
<1>10. CASE isr_underrun_hx8
  <2>1. ier' = ier /\ mode = "HX8"
    BY <1>10 DEF isr_underrun_hx8
  <2>2. Told'
    BY <1>1, <2>1 DEF Told
  <2> QED
    BY <1>3, <1>5, <1>7, <2>1, <2>2 DEF AttendInv
<1>11. CASE isr_complete
  <2>1. UNCHANGED <<ier, board, csr5>> /\ status' = {"complete", "received"}
    BY <1>11 DEF isr_complete
  <2>2. Told'
    BY <1>1, <1>6, <2>1 DEF AttendInv, Told
  <2> QED
    BY <1>3, <1>5, <1>7, <2>1, <2>2 DEF AttendInv
<1>12. CASE isr_stopped
  <2>1. /\ isr' = "out" /\ UNCHANGED <<board, pending>> /\ csr5' = csr5 \ status
        /\ ier' = (ier /\ ~("stopped" \in status /\ stopped))
        /\ "unavailable" \in status => "STOP" \in flags
    BY <1>12 DEF isr_stopped, Unavailable
  <2>2. ier' = ier \/ (ier' = FALSE /\ stopped)
    <3>1. ier \in BOOLEAN
      BY DEF AttendInv
    <3> QED
      BY <2>1, <3>1, Zenon
  <2>3. ResetOwed' <=> ResetOwed
    BY <1>1, <2>1 DEF ResetOwed, At
  <2>4. Told'
    BY <1>1, <1>4, <2>1, <2>3 DEF AttendInv, Told
  <2> QED
    BY <1>3, <1>4, <1>5, <1>7, <2>2, <2>3, <2>4 DEF AttendInv
<1>13. CASE isr_collect
  <2>1. /\ isr = "collect" /\ isr' \in {"send", "ack"}
        /\ UNCHANGED <<board, csr5, status>>
        /\ ier' = ier \/ (ier' = FALSE /\ pending' = TRUE)
    BY <1>13 DEF isr_collect, Take, TxError
  <2>2. ier' = ier \/ (ier' = FALSE /\ ResetOwed')
    BY <2>1 DEF ResetOwed
  <2>3. Told'
    BY <1>1, <1>6, <2>1 DEF AttendInv, Told
  <2> QED
    BY <1>3, <1>5, <1>7, <2>2, <2>3 DEF AttendInv
<1>14. CASE isr_send
  <2>1. /\ isr = "send" /\ isr' \in {"receive", "ack"} /\ status' = status
        /\ ier' = ier \/ (ier' = FALSE /\ pending' = TRUE)
    BY <1>14 DEF isr_send, TxError
  <2>2. ier' = ier \/ (ier' = FALSE /\ ResetOwed')
    BY <2>1 DEF ResetOwed
  <2>3. csr5 \subseteq csr5' /\ (board' = "suspended" => board = "suspended")
    BY <1>14 DEF isr_send, Poll
  <2>4. Told'
    BY <1>1, <1>6, <2>1, <2>3 DEF AttendInv, Told
  <2> QED
    BY <1>3, <1>5, <1>7, <2>2, <2>4 DEF AttendInv
<1>15. CASE isr_ack
  <2>1. /\ isr = "ack" /\ isr' = "out" /\ csr5' = csr5 \ status
        /\ UNCHANGED <<ier, board, pending>>
    BY <1>15 DEF isr_ack, Acknowledge
  <2>2. Told'
    BY <1>1, <1>6, <2>1 DEF AttendInv, Told
  <2> QED
    BY <1>3, <1>5, <1>7, <2>1, <2>2 DEF AttendInv
<1> QED
  BY <1>8, <1>9, <1>10, <1>11, <1>12, <1>13, <1>14, <1>15 DEF Handler

(* voicebus_stop: somebody is at work, or the driver no longer runs. *)
LEMMA AttendStopping ==
  ASSUME QuietInv, QuietInv', AttendInv, NEW t \in Threads, Stopping(t)
  PROVE  AttendInv'
<1>1. UNCHANGED <<mode, isr, status>> /\ pending' = pending
  BY DEF Stopping, stop_begin, stop_halt, stop_end, control
<1>2. t = "work" \/ t = "driver"
  BY DEF Threads
<1>3. /\ pc'[t] \in {"halt", "halted", "recover", "free", "stopped"}
      /\ \A u \in Threads : u # t => pc'[u] = pc[u]
      /\ t = "work" => pc'[t] \notin {"free", "stopped"}
  BY <1>2 DEF Stopping, stop_begin, stop_halt, stop_end, Goto, At, After, QuietInv, QuietTypes,
              Threads
<1>4. ResetOwed'
  BY <1>2, <1>3 DEF ResetOwed, At, Threads
<1>5. MayRun'
  BY <1>2, <1>3 DEF MayRun, Threads
<1>6. ier' \in BOOLEAN
  BY DEF Stopping, stop_begin, stop_halt, stop_end, control, AttendInv
<1> QED
  BY <1>1, <1>4, <1>5, <1>6, AttendOwed DEF AttendInv

(* handle_hardunderrun ends with the board running and able to interrupt.  *)
LEMMA AttendWork ==
  ASSUME QuietInv, QuietInv', AttendInv, work_begin \/ work_mask \/ work_setup \/ work_go
  PROVE  AttendInv'
<1> USE DEF At, Goto, control, line, Threads
<1>1. UNCHANGED <<mode, isr, status>> /\ pending' \in BOOLEAN
  BY DEF work_begin, work_mask, ShuttingDown, work_setup, work_go, AttendInv
<1>2. /\ pc'["driver"] = pc["driver"] /\ pc["work"] \in WorkPlaces
      /\ pc \in [Threads -> WorkPlaces \cup DriverPlaces]
  BY DEF work_begin, work_mask, ShuttingDown, work_setup, work_go, QuietInv, QuietTypes
<1>3. CASE work_begin
  <2>1. pc'["work"] = IF flags \cap {"STOP", "STOPPED"} = {} THEN "stop" ELSE "out"
    BY <1>2, <1>3 DEF work_begin
  <2>2. flags' = flags /\ ier' = ier /\ pc["work"] = "out"
    BY <1>3 DEF work_begin
  <2>3. MayRun'
    BY <1>2, <2>1, <2>2 DEF AttendInv, MayRun
  <2>4. ResetOwed'
    BY <1>2, <2>1, <2>2 DEF AttendInv, MayRun, ResetOwed
  <2> QED
    BY <1>1, <2>2, <2>3, <2>4, AttendOwed DEF AttendInv
<1>4. CASE work_mask \/ work_setup
  <2>1. /\ pc'["work"] \in {"setup", "go"} \/ (pc'["work"] = "out" /\ "SHUTDOWN" \in flags)
        /\ flags' = flags /\ ier' = ier
    BY <1>2, <1>4 DEF work_mask, ShuttingDown, work_setup
  <2>2. pc'["work"] = "out" => pc'["driver"] # "running"
    BY <1>2, <2>1 DEF QuietInv, Apart
  <2>3. MayRun' /\ ResetOwed'
    BY <2>1, <2>2 DEF MayRun, ResetOwed
  <2> QED
    BY <1>1, <2>1, <2>3, AttendOwed DEF AttendInv
<1>5. CASE work_go
  <2>1. /\ flags' = flags \ {"STOP", "STOPPED"} /\ ier' = TRUE /\ board' = "run"
        /\ isr = "out"
    BY <1>5 DEF work_go, StartProcessing, QuietInv, HandlerKeptOut
  <2>2. MayRun' /\ MayInterrupt' /\ Told'
    BY <1>1, <2>1 DEF MayRun, MayInterrupt, Told
  <2> QED
    BY <1>1, <2>1, <2>2 DEF AttendInv
<1> QED
  BY <1>3, <1>4, <1>5

(* voicebus_start ends so too; otherwise the driver does not run.          *)
LEMMA AttendDriver ==
  ASSUME QuietInv, QuietInv', AttendInv,
         \/ driver_start \/ driver_setup \/ driver_go \/ driver_stop
         \/ driver_release \/ driver_cancel \/ driver_free
  PROVE  AttendInv'
<1> USE DEF At, Goto, control, line, Threads
<1>1. UNCHANGED <<mode, isr, status>>
  BY DEF driver_start, driver_setup, driver_go, driver_stop, driver_release, driver_cancel,
         driver_free
<1>2. pending' \in BOOLEAN /\ ier' \in BOOLEAN
  BY DEF driver_start, driver_setup, driver_go, driver_stop, driver_release, driver_cancel,
         driver_free, StartProcessing, AttendInv
<1>3. CASE driver_go
  <2>1. /\ flags' = flags \ {"STOP", "STOPPED"} /\ ier' = TRUE /\ board' = "run"
        /\ isr = "out"
    BY <1>3 DEF driver_go, StartProcessing, QuietInv, HandlerKeptOut
  <2>2. MayRun' /\ MayInterrupt' /\ Told'
    BY <1>1, <2>1 DEF MayRun, MayInterrupt, Told
  <2> QED
    BY <1>2, <2>2 DEF AttendInv
<1>4. CASE ~driver_go
  <2>1. pc'["driver"] # "running"
    BY <1>4 DEF driver_start, driver_setup, driver_stop, driver_release, driver_cancel,
                driver_free, QuietInv, QuietTypes
  <2>2. MayRun' /\ ResetOwed'
    BY <2>1 DEF MayRun, ResetOwed
  <2> QED
    BY <1>1, <1>2, <2>2, AttendOwed
<1> QED
  BY <1>3, <1>4

(* The invariant is inductive. *)
LEMMA AttendStep ==
  ASSUME QuietInv, QuietInv', AttendInv, [Next]_vars PROVE AttendInv'
<1>1. CASE UNCHANGED vars
  BY <1>1 DEF vars, control, line, AttendInv, MayRun, MayInterrupt, Told, ResetOwed, At
<1>2. CASE Board \/ isr_enter \/ Handler
  BY <1>2, AttendBoard, AttendHandler
<1>3. CASE Work
  BY <1>3, AttendWork, AttendStopping DEF Work, Threads
<1>4. CASE Driver
  <2>1. CASE driver_gone
    BY <1>1, <2>1 DEF driver_gone
  <2> QED
    BY <1>4, <2>1, AttendDriver, AttendStopping DEF Driver, Threads
<1> QED
  BY <1>1, <1>2, <1>3, <1>4 DEF Next

(* The board of a NORMAL interface that waits for a frame has told so and  *)
(* may interrupt, or the work that restarts it is on its way (vb_isr,      *)
(* handle_hardunderrun), however many frames it sends while the routine    *)
(* runs.                                                                   *)
THEOREM VoiceBusAttended == Spec => [](mode = "NORMAL" => Attended)
<1> DEFINE Inv == ~raced => QuietInv /\ AttendInv
<1>1. Init => Inv
  BY QuietAtFirst, AttendAtFirst
<1>2. Inv /\ [Next]_vars => Inv'
  BY RacedStays, QuietStep, AttendStep
<1>3. Inv => (mode = "NORMAL" => Attended)
  BY DEF QuietInv, StopMeansStopped, AttendInv, MayRun, MayInterrupt, Told, ResetOwed, At,
         Attended
<1> HIDE DEF Inv
<1> QED
  BY <1>1, <1>2, <1>3, PTL DEF Spec

-----------------------------------------------------------------------------
(* The rings: slots and distances. *)

(* Slot arithmetic: what is within a turn of the ring comes back by one    *)
(* subtraction or addition.                                                *)
LEMMA Remainder ==
  ASSUME NEW a \in Int, -DRING_SIZE <= a, a < 2 * DRING_SIZE
  PROVE  a % DRING_SIZE = IF a < 0 THEN a + DRING_SIZE
                            ELSE IF a < DRING_SIZE THEN a ELSE a - DRING_SIZE
BY VoiceBusAssumption DEF VoiceBusAssumption

(* k slots on from a slot. *)
LEMMA FwdIs ==
  ASSUME NEW s \in Slots, NEW k \in 0 .. DRING_SIZE
  PROVE  /\ Fwd(s, k) = IF s + k < DRING_SIZE THEN s + k ELSE s + k - DRING_SIZE
         /\ Fwd(s, k) \in Slots
BY Remainder, VoiceBusAssumption DEF VoiceBusAssumption, Fwd, Slots

(* How far it is from slot s on to slot r. *)
Ahead(s, r) == IF r >= s THEN r - s ELSE r - s + DRING_SIZE

(* Ahead is a distance on the ring, and the one the property speaks of. *)
LEMMA AheadIs ==
  ASSUME NEW s \in Slots, NEW r \in Slots
  PROVE  /\ Ahead(s, r) \in 0 .. DRING_SIZE - 1
         /\ Fwd(s, Ahead(s, r)) = r
         /\ (r - s) % DRING_SIZE = Ahead(s, r)
<1>1. Ahead(s, r) \in 0 .. DRING_SIZE - 1
  BY VoiceBusAssumption DEF VoiceBusAssumption, Ahead, Slots
<1>2. Fwd(s, Ahead(s, r)) = IF s + Ahead(s, r) < DRING_SIZE THEN s + Ahead(s, r)
                                                        ELSE s + Ahead(s, r) - DRING_SIZE
  BY <1>1, FwdIs, VoiceBusAssumption DEF VoiceBusAssumption
<1>4. Fwd(s, Ahead(s, r)) = r
  BY <1>2, VoiceBusAssumption DEF VoiceBusAssumption, Ahead, Slots
<1>3. (r - s) % DRING_SIZE = Ahead(s, r)
  BY Remainder, VoiceBusAssumption DEF VoiceBusAssumption, Ahead, Slots
<1> QED
  BY <1>1, <1>3, <1>4

(* The slot that is k on is k ahead. *)
LEMMA AheadOfFwd ==
  ASSUME NEW s \in Slots, NEW k \in 0 .. DRING_SIZE - 1
  PROVE  Ahead(s, Fwd(s, k)) = k
<1>1. Fwd(s, k) = IF s + k < DRING_SIZE THEN s + k ELSE s + k - DRING_SIZE
  BY FwdIs, VoiceBusAssumption DEF VoiceBusAssumption
<1> QED
  BY <1>1, VoiceBusAssumption DEF VoiceBusAssumption, Ahead, Slots

(* A span is the slots that are less than n ahead. *)
LEMMA InSpan ==
  ASSUME NEW s \in Slots, NEW n \in 0 .. DRING_SIZE
  PROVE  Span(s, n) = {r \in Slots : Ahead(s, r) < n}
<1>1. ASSUME NEW k \in 0 .. n - 1 PROVE Fwd(s, k) \in Slots /\ Ahead(s, Fwd(s, k)) = k
  BY FwdIs, AheadOfFwd, VoiceBusAssumption DEF VoiceBusAssumption
<1>2. ASSUME NEW r \in Slots, Ahead(s, r) < n PROVE r \in Span(s, n)
  BY <1>2, AheadIs DEF Span
<1> QED
  BY <1>1, <1>2 DEF Span

(* Going on twice is going on by the sum. *)
LEMMA FwdTwice ==
  ASSUME NEW s \in Slots, NEW i \in Nat, NEW j \in Nat, i + j <= DRING_SIZE
  PROVE  Fwd(Fwd(s, i), j) = Fwd(s, i + j)
<1>1. i \in 0 .. DRING_SIZE /\ j \in 0 .. DRING_SIZE /\ i + j \in 0 .. DRING_SIZE
  BY VoiceBusAssumption DEF VoiceBusAssumption
<1>2. Fwd(s, i) \in Slots /\ Fwd(s, i) = IF s + i < DRING_SIZE THEN s + i ELSE s + i - DRING_SIZE
  BY <1>1, FwdIs
<1>3. Fwd(s, i + j) = IF s + (i + j) < DRING_SIZE THEN s + (i + j) ELSE s + (i + j) - DRING_SIZE
  BY <1>1, FwdIs
<1>4. Fwd(Fwd(s, i), j) = IF Fwd(s, i) + j < DRING_SIZE THEN Fwd(s, i) + j
                                                       ELSE Fwd(s, i) + j - DRING_SIZE
  BY <1>1, <1>2, FwdIs
<1> QED
  BY <1>2, <1>3, <1>4, VoiceBusAssumption DEF VoiceBusAssumption, Slots

(* Distances from a slot that is i on. *)
LEMMA AheadTwice ==
  ASSUME NEW s \in Slots, NEW i \in 0 .. DRING_SIZE - 1, NEW r \in Slots
  PROVE  Ahead(Fwd(s, i), r) = IF Ahead(s, r) >= i THEN Ahead(s, r) - i
                                ELSE Ahead(s, r) - i + DRING_SIZE
<1>1. Fwd(s, i) \in Slots /\ Fwd(s, i) = IF s + i < DRING_SIZE THEN s + i ELSE s + i - DRING_SIZE
  BY FwdIs, VoiceBusAssumption DEF VoiceBusAssumption
<1> QED
  BY <1>1, VoiceBusAssumption DEF VoiceBusAssumption, Slots, Ahead

(* What Lead counts: a run of slots in S, and the next one is not in S.    *)
(* The first slot outside S is found by the order of the naturals.         *)
LEMMA Leading ==
  ASSUME NEW s \in Slots, NEW S
  PROVE  /\ Lead(s, S) \in 0 .. DRING_SIZE
         /\ \A k \in 0 .. Lead(s, S) - 1 : Fwd(s, k) \in S
         /\ Lead(s, S) < DRING_SIZE => Fwd(s, Lead(s, S)) \notin S
<1> DEFINE K == {k \in Slots : \A i \in 0 .. k : Fwd(s, i) \in S}
           Out == {k \in Slots : Fwd(s, k) \notin S}
<1>1. Lead(s, S) = Cardinality(K)
  BY DEF Lead
<1>2. \A n \in Nat : Cardinality(0 .. n - 1) = n
  BY FS_Interval
<1>3. CASE Out = {}
  <2>1. K = 0 .. DRING_SIZE - 1
    BY <1>3, VoiceBusAssumption DEF VoiceBusAssumption, Slots
  <2>2. Lead(s, S) = DRING_SIZE
    BY <1>1, <1>2, <2>1, VoiceBusAssumption DEF VoiceBusAssumption
  <2> QED
    BY <1>3, <2>2, VoiceBusAssumption DEF VoiceBusAssumption, Slots
<1>4. CASE Out # {}
  <2>1. Out \subseteq Nat
    BY VoiceBusAssumption DEF VoiceBusAssumption, Slots
  <2>2. PICK n \in Out : \A m \in Out : ~ (<<m, n>> \in OpToRel(<, Nat))
    BY <1>4, <2>1, NatLessThanWellFounded, WFMin
  <2>3. \A m \in Out : ~ (m < n)
    BY <2>1, <2>2 DEF OpToRel
  <2>4. n \in Nat /\ n \in Slots /\ Fwd(s, n) \notin S
    BY <2>1, <2>2
  <2>5. ASSUME NEW m \in Slots, Fwd(s, m) \notin S PROVE m >= n
    <3>1. m \in Nat /\ ~ (m < n)
      BY <2>1, <2>5, <2>3
    <3> QED
      BY <2>4, <3>1
  <2>6. \A m \in 0 .. n - 1 : Fwd(s, m) \in S
    BY <2>5, <2>4, VoiceBusAssumption DEF VoiceBusAssumption, Slots
  <2>7. K = 0 .. n - 1
    BY <2>4, <2>6, VoiceBusAssumption DEF VoiceBusAssumption, Slots
  <2>8. Lead(s, S) = n
    BY <1>1, <1>2, <2>4, <2>7
  <2> QED
    BY <2>4, <2>6, <2>8, VoiceBusAssumption DEF VoiceBusAssumption, Slots
<1> QED
  BY <1>3, <1>4

(* The number of slots is the one after which the next is not in S. *)
LEMMA LeadIs ==
  ASSUME NEW s \in Slots, NEW S, NEW n \in Slots,
         \A k \in 0 .. n - 1 : Fwd(s, k) \in S, Fwd(s, n) \notin S
  PROVE  Lead(s, S) = n
<1>1. Lead(s, S) <= n
  BY Leading, VoiceBusAssumption DEF VoiceBusAssumption, Slots
<1>2. Lead(s, S) >= n
  BY Leading, VoiceBusAssumption DEF VoiceBusAssumption, Slots
<1> QED
  BY <1>1, <1>2, Leading, VoiceBusAssumption DEF VoiceBusAssumption, Slots

-----------------------------------------------------------------------------
(* The frames that circulate, and where in the ring they stand. *)
RingTypes ==
  /\ mode \in Modes
  /\ buf \in [Slots -> {"none", "idle", "frame"}] /\ owned \subseteq Slots
  /\ head \in Slots /\ tail \in Slots /\ hw \in Slots /\ count \in 0 .. MaxLatency
  /\ complete \in Nat /\ hand \in Nat /\ behind \in Nat
  /\ latency \in Latency .. MaxLatency /\ filled \in 0 .. RX_SIZE
  /\ board \in {"run", "suspended", "stopped"} /\ ier \in BOOLEAN /\ pending \in BOOLEAN
  /\ sent \in 0 .. Slack

(* The rings have been set up: latency frames circulate. *)
Up ==
  /\ count + complete + hand = latency
  /\ mode = "NORMAL" => Holding(buf, "none") = {}

(* The interface has never run. *)
NotYet == csr5 = {} /\ stopped /\ isr = "out" /\ \A t \in Threads : pc[t] # "halt"

(* The next frame goes behind the others, but after a soft underrun, when  *)
(* there are none.                                                         *)
Lined ==
  /\ Frames = Span(head, count)
  /\ mode = "NORMAL" /\ behind > 0 => count = 0
  /\ mode = "HX8" \/ behind = 0 => tail = Fwd(head, count)

(* What the routine has in hand. *)
InHand ==
  /\ isr # "send" => hand = 0 /\ behind = 0
  /\ isr = "send" => hand = Least(hand + complete, BATCH)
  /\ isr = "send" /\ mode = "NORMAL" /\ behind = 0 => count >= 2

(* Before the board is started, its rings are as setup_descriptors left    *)
(* them.                                                                   *)
Fresh ==
  "go" \in {pc["work"], pc["driver"]} =>
    /\ Up /\ hw = head /\ count = latency
    /\ owned = IF mode = "NORMAL" THEN Slots ELSE Span(head, count)

RingInv ==
  /\ RingTypes /\ (Up \/ NotYet) /\ Lined /\ InHand /\ Fresh
  /\ trouble \cap {"tx error", "dropped"} = {}

(* The facts about the constants that the proofs use. *)
LEMMA Sizes ==
  /\ DRING_SIZE \in Nat /\ DRING_SIZE >= 1 /\ RX_SIZE \in Nat /\ Slack \in Nat
  /\ Latency \in Nat /\ MaxLatency \in Nat /\ Latency <= MaxLatency
  /\ AHEAD \in Nat /\ BUMP \in Nat /\ BATCH \in Nat
  /\ AHEAD + MaxLatency < DRING_SIZE
  /\ 0 \in Slots
BY VoiceBusAssumption DEF VoiceBusAssumption, Slots

(* Before the first start nothing circulates. *)
LEMMA RingAtFirst == Init => RingInv
<1> SUFFICES ASSUME Init PROVE RingInv
  OBVIOUS
<1>1. RingTypes
  <2>1. mode \in Modes /\ buf \in [Slots -> {"none", "idle", "frame"}]
    BY DEF Init
  <2>2. latency \in Latency .. MaxLatency /\ sent \in 0 .. Slack /\ filled \in 0 .. RX_SIZE
    BY Sizes DEF Init
  <2>3. /\ head = 0 /\ tail = 0 /\ hw = 0 /\ count = 0 /\ complete = 0 /\ hand = 0 /\ behind = 0
        /\ owned = {} /\ board = "stopped" /\ ier = FALSE /\ pending = FALSE
    BY DEF Init
  <2>4. count \in 0 .. MaxLatency /\ complete \in Nat /\ hand \in Nat /\ behind \in Nat
    BY <2>3, Sizes
  <2>5. head \in Slots /\ tail \in Slots /\ hw \in Slots /\ owned \subseteq Slots
    BY <2>3, Sizes
  <2>6. board \in {"run", "suspended", "stopped"} /\ ier \in BOOLEAN /\ pending \in BOOLEAN
    BY <2>3
  <2> QED
    BY <2>1, <2>2, <2>4, <2>5, <2>6 DEF RingTypes
<1>2. NotYet /\ InHand /\ Fresh
  BY VoiceBusAssumption DEF VoiceBusAssumption, Init, NotYet, InHand, Fresh, stopped, Threads
<1>3. Span(head, count) = {}
  BY DEF Init, Span
<1>4. Frames = {} /\ Fwd(head, count) = 0
  <2>1. Fwd(0, 0) = 0
    BY FwdIs, Sizes
  <2> QED
    BY <2>1 DEF Init, Frames, Holding
<1> QED
  BY <1>1, <1>2, <1>3, <1>4 DEF RingInv, Lined, Init

(* Steps of the threads and of vb_isr that leave the rings alone. *)
LEMMA RingStill ==
  ASSUME RingInv, UNCHANGED <<mode, ring, frames, hw>>,
         trouble' \subseteq trouble \cup {"stray stop"},
         filled' \in 0 .. RX_SIZE, board' \in {"run", "suspended", "stopped"},
         ier' \in BOOLEAN, pending' \in BOOLEAN, sent' \in 0 .. Slack,
         isr' = "send" <=> isr = "send",
         Up \/ NotYet',
         "go" \in {pc'["work"], pc'["driver"]} => "go" \in {pc["work"], pc["driver"]}
  PROVE  RingInv'
<1> USE DEF ring, frames
<1>1. RingTypes'
  BY DEF RingInv, RingTypes
<1>2. Up => Up'
  BY DEF Up, Holding
<1>3. Lined'
  BY DEF RingInv, Lined, Frames, Holding
<1>4. InHand'
  BY DEF RingInv, InHand
<1>5. Fresh'
  BY <1>2 DEF RingInv, Fresh
<1> QED
  BY <1>1, <1>2, <1>3, <1>4, <1>5 DEF RingInv

(* The board moves hw and owned, which the shape of the ring does not      *)
(* depend on.                                                              *)
LEMMA RingBoard == ASSUME QuietInv, RingInv, Board PROVE RingInv'
<1>1. CASE send_frame
  <2> USE <1>1 DEF send_frame, control, frames
  <2>1. /\ board = "run"
        /\ UNCHANGED <<mode, buf, head, tail, count, complete, latency, hand, behind, isr, pc,
                       filled, trouble, ier, pending>>
    OBVIOUS
  <2>2. Up
    BY <2>1 DEF RingInv, NotYet, stopped
  <2>3. "go" \notin {pc'["work"], pc'["driver"]}
    BY <2>1 DEF QuietInv, FindsStopped, stopped
  <2>4. hw' \in Slots
    <3>1. hw \in Slots /\ hw' = Fwd(hw, 1)
      BY DEF RingInv, RingTypes
    <3> QED
      BY <3>1, FwdIs, Sizes
  <2>5. sent' \in 0 .. Slack
    <3>1. sent \in 0 .. Slack /\ sent' = (IF isr = "out" THEN sent ELSE sent + 1)
      BY DEF RingInv, RingTypes
    <3>2. isr # "out" => sent < Slack
      OBVIOUS
    <3> QED
      BY <3>1, <3>2, Sizes
  <2>6. RingTypes'
    BY <2>1, <2>4, <2>5 DEF RingInv, RingTypes
  <2>7. Up' /\ Lined' /\ InHand' /\ Fresh'
    BY <2>1, <2>2, <2>3 DEF RingInv, Up, Lined, InHand, Fresh, Frames, Holding
  <2> QED
    BY <2>1, <2>6, <2>7 DEF RingInv
<1>2. CASE receive_frame
  <2>1. /\ board # "stopped"
        /\ UNCHANGED <<mode, ring, frames, hw, board, control, isr, sent, pc, trouble>>
    BY <1>2 DEF receive_frame
  <2>2. Up
    BY <2>1 DEF RingInv, NotYet, stopped
  <2>3. filled' \in 0 .. RX_SIZE
    <3>1. filled' = filled \/ (filled < RX_SIZE /\ filled' = filled + 1)
      BY <1>2 DEF receive_frame
    <3>2. filled \in 0 .. RX_SIZE
      BY DEF RingInv, RingTypes
    <3> QED
      BY <3>1, <3>2, Sizes
  <2> QED
    BY <2>1, <2>2, <2>3, RingStill DEF control, RingInv, RingTypes
<1> QED
  BY <1>1, <1>2 DEF Board

(* vb_isr but for the part of the routine that is about frames to send. *)
LEMMA RingHandler ==
  ASSUME RingInv,
         isr_enter \/ isr_underrun \/ isr_underrun_hx8 \/ isr_complete \/ isr_stopped
           \/ isr_receive \/ isr_ack
  PROVE  RingInv'
<1>1. UNCHANGED <<mode, ring, frames, hw, board, pc>>
  BY DEF isr_enter, isr_underrun, isr_underrun_hx8, isr_complete, isr_stopped, isr_receive,
         isr_ack, line
<1>2. isr' # "send" /\ isr # "send"
  BY DEF isr_enter, isr_underrun, isr_underrun_hx8, isr_complete, isr_stopped, isr_receive, isr_ack
<1>3. Up
  BY DEF RingInv, NotYet, isr_enter, isr_underrun, isr_underrun_hx8, isr_complete, isr_stopped,
         isr_receive, isr_ack
<1>4. pending' \in BOOLEAN /\ trouble' \subseteq trouble \cup {"stray stop"}
  BY DEF RingInv, RingTypes, isr_enter, isr_underrun, isr_underrun_hx8, isr_complete, isr_stopped,
         isr_receive, isr_ack, control, line
<1>5. filled' \in 0 .. RX_SIZE
  <2>1. filled' = filled \/ filled' = filled - Least(filled, BATCH)
    BY DEF isr_enter, isr_underrun, isr_underrun_hx8, isr_complete, isr_stopped, isr_receive,
           isr_ack, line
  <2>2. filled \in 0 .. RX_SIZE
    BY DEF RingInv, RingTypes
  <2> QED
    BY <2>1, <2>2, Sizes DEF Least
<1>6. sent' \in 0 .. Slack
  <2>1. sent' = sent \/ sent' = 0
    BY DEF isr_enter, isr_underrun, isr_underrun_hx8, isr_complete, isr_stopped, isr_receive,
           isr_ack
  <2>2. sent \in 0 .. Slack
    BY DEF RingInv, RingTypes
  <2> QED
    BY <2>1, <2>2, Sizes
<1>7. ier' \in BOOLEAN
  <2>1. CASE isr_stopped
    BY <2>1, Zenon DEF isr_stopped, RingInv, RingTypes
  <2>2. CASE ~isr_stopped
    BY <2>2 DEF RingInv, RingTypes, isr_enter, isr_underrun, isr_underrun_hx8,
         isr_complete, isr_receive, isr_ack, control
  <2> QED
    BY <2>1, <2>2
<1> QED
  BY <1>1, <1>2, <1>3, <1>4, <1>5, <1>6, <1>7, RingStill DEF RingInv, RingTypes

(* Each thread's steps. *)
LEMMA RingStopping ==
  ASSUME QuietInv, RingInv, NEW t \in Threads, Stopping(t) PROVE RingInv'
<1> USE DEF At, Goto
<1>0. /\ UNCHANGED <<mode, ring, frames, hw, filled, pending, isr, sent, trouble>>
      /\ board' \in {board, "stopped"} /\ ier' \in {ier, FALSE}
  BY DEF Stopping, stop_begin, stop_halt, stop_end, line, control
<1>1. "go" \in {pc'["work"], pc'["driver"]} => "go" \in {pc["work"], pc["driver"]}
  BY DEF Stopping, stop_begin, stop_halt, stop_end, After, QuietInv, QuietTypes, Threads
<1>2. Up \/ NotYet'
  <2>1. CASE stop_begin(t)
    BY <2>1 DEF stop_begin, line, After, RingInv, NotYet, stopped, QuietInv, QuietTypes, Threads
  <2>2. CASE stop_halt(t)
    BY <2>2 DEF stop_halt, RingInv, NotYet
  <2>3. CASE stop_end(t)
    BY <2>3 DEF stop_end, line, After, RingInv, NotYet, stopped, QuietInv, QuietTypes, Threads
  <2> QED
    BY <2>1, <2>2, <2>3 DEF Stopping
<1> QED
  BY <1>0, <1>1, <1>2, RingStill DEF RingInv, RingTypes

(* setup_descriptors *)
LEMMA RingSetup ==
  ASSUME RingInv, HandlerOut, SetupDescriptors,
         UNCHANGED <<mode, board, ier, isr, sent, trouble>>, pending' \in BOOLEAN
  PROVE  RingInv'
<1> USE DEF HandlerOut, SetupDescriptors
<1>1. latency \in Nat /\ latency < DRING_SIZE /\ latency \in 0 .. MaxLatency
  <2>1. latency \in Latency .. MaxLatency
    BY DEF RingInv, RingTypes
  <2> QED
    BY <2>1, Sizes
<1>2. hand = 0 /\ behind = 0
  BY DEF RingInv, InHand
<1>3. Span(0, latency) = {s \in Slots : s < latency}
  <2>1. Span(0, latency) = {s \in Slots : Ahead(0, s) < latency}
    BY <1>1, Sizes, InSpan
  <2>2. \A s \in Slots : Ahead(0, s) = s
    BY Sizes DEF Ahead, Slots
  <2> QED
    BY <2>1, <2>2
<1>4. RingTypes'
  <2>1. buf' \in [Slots -> {"none", "idle", "frame"}]
    BY DEF Spare
  <2>2. owned' \subseteq Slots
    BY <1>3
  <2>3. Fwd(0, latency) \in Slots
    BY <1>1, Sizes, FwdIs
  <2>4. mode' \in Modes /\ board' \in {"run", "suspended", "stopped"} /\ ier' \in BOOLEAN
        /\ sent' \in 0 .. Slack /\ latency' \in Latency .. MaxLatency
    BY DEF RingInv, RingTypes
  <2>5. head' \in Slots /\ tail' \in Slots /\ hw' \in Slots
    BY <2>3, Sizes
  <2>6. count' \in 0 .. MaxLatency /\ complete' \in Nat /\ hand' \in Nat /\ behind' \in Nat
    BY <1>1, <1>2
  <2>7. filled' \in 0 .. RX_SIZE
    BY Sizes
  <2> QED
    BY <2>1, <2>2, <2>4, <2>5, <2>6, <2>7 DEF RingTypes
<1>5. Up'
  BY <1>1, <1>2 DEF Up, Holding, Spare
<1>6. Frames' = Span(0, latency)
  BY <1>3 DEF Frames, Holding, Spare
<1>7. Lined' /\ InHand'
  BY <1>2, <1>6 DEF Lined, InHand
<1>8. Fresh'
  BY <1>5 DEF Fresh
<1> QED
  BY <1>4, <1>5, <1>7, <1>8 DEF RingInv

(* handle_hardunderrun, but for voicebus_stop. *)
LEMMA RingWork ==
  ASSUME QuietInv, RingInv, work_begin \/ work_mask \/ work_setup \/ work_go
  PROVE  RingInv'
<1> USE DEF At, Goto
<1>1. CASE work_begin \/ work_mask
  <2>1. /\ UNCHANGED <<mode, ring, frames, hw, board, filled, csr5, ier, isr, sent, trouble>>
        /\ pending' \in BOOLEAN
    BY <1>1 DEF work_begin, work_mask, ShuttingDown, line, RingInv, RingTypes
  <2>2. /\ "go" \in {pc'["work"], pc'["driver"]} => "go" \in {pc["work"], pc["driver"]}
        /\ \A t \in Threads : pc'[t] = "halt" => pc[t] = "halt"
    BY <1>1 DEF work_begin, work_mask, ShuttingDown, QuietInv, QuietTypes, Threads
  <2>3. Up \/ NotYet'
    BY <2>1, <2>2 DEF RingInv, NotYet, stopped
  <2> QED
    BY <2>1, <2>2, <2>3, RingStill DEF RingInv, RingTypes
<1>2. CASE work_setup
  BY <1>2, RingSetup DEF work_setup, control, RingInv, RingTypes
<1>3. CASE work_go
  <2>1. /\ UNCHANGED <<mode, ring, frames, hw, filled, isr, sent, trouble, pending>>
        /\ board' = "run" /\ ier' = TRUE
        /\ pc["work"] = "go"
    BY <1>3 DEF work_go, StartProcessing
  <2>2. "go" \in {pc'["work"], pc'["driver"]} => "go" \in {pc["work"], pc["driver"]}
    BY <2>1
  <2>3. Up
    BY <2>1 DEF RingInv, Fresh
  <2> QED
    BY <2>1, <2>2, <2>3, RingStill DEF RingInv, RingTypes
<1> QED
  BY <1>1, <1>2, <1>3

(* The board driver, but for voicebus_stop. *)
LEMMA RingDriver ==
  ASSUME QuietInv, RingInv,
         \/ driver_start \/ driver_setup \/ driver_go \/ driver_stop
         \/ driver_release \/ driver_cancel \/ driver_free
  PROVE  RingInv'
<1> USE DEF At, Goto
<1>1. CASE driver_start \/ driver_stop \/ driver_release \/ driver_cancel \/ driver_free
  <2>1. /\ UNCHANGED <<mode, ring, frames, hw, filled, isr, sent, trouble>>
        /\ board' \in {board, "stopped"} /\ pending' \in BOOLEAN /\ ier' \in BOOLEAN
        /\ csr5' \in {csr5, {}}
    BY <1>1 DEF driver_start, driver_stop, driver_release, driver_cancel, driver_free, line,
                control, RingInv, RingTypes
  <2>2. /\ "go" \in {pc'["work"], pc'["driver"]} => "go" \in {pc["work"], pc["driver"]}
        /\ \A t \in Threads : pc'[t] = "halt" => pc[t] = "halt"
    BY <1>1 DEF driver_start, driver_stop, driver_release, driver_cancel, driver_free, QuietInv,
                QuietTypes, Threads
  <2>3. Up \/ NotYet'
    BY <2>1, <2>2 DEF RingInv, NotYet, stopped
  <2> QED
    BY <2>1, <2>2, <2>3, RingStill DEF RingInv, RingTypes
<1>2. CASE driver_setup
  BY <1>2, RingSetup DEF driver_setup, RingInv, RingTypes
<1>3. CASE driver_go
  <2>1. /\ UNCHANGED <<mode, ring, frames, hw, filled, isr, sent, trouble, pending>>
        /\ board' = "run" /\ ier' = TRUE
        /\ pc["driver"] = "go"
    BY <1>3 DEF driver_go, StartProcessing
  <2>2. "go" \in {pc'["work"], pc'["driver"]} => "go" \in {pc["work"], pc["driver"]}
    BY <2>1
  <2>3. Up
    BY <2>1 DEF RingInv, Fresh
  <2> QED
    BY <2>1, <2>2, <2>3, RingStill DEF RingInv, RingTypes
<1> QED
  BY <1>1, <1>2, <1>3

(* The plain facts about the sizes of what is where. *)
LEMMA Counts ==
  ASSUME RingInv
  PROVE  /\ head \in Slots /\ tail \in Slots /\ hw \in Slots
         /\ count \in Nat /\ count <= MaxLatency /\ count < DRING_SIZE
         /\ complete \in Nat /\ hand \in Nat /\ behind \in Nat
         /\ latency \in Nat /\ Latency <= latency /\ latency <= MaxLatency
         /\ isr # "out" => count + complete + hand = latency
         /\ Frames = {s \in Slots : Ahead(head, s) < count}
<1>1. RingTypes /\ (isr # "out" => Up)
  BY DEF RingInv, NotYet
<1>2. head \in Slots /\ tail \in Slots /\ hw \in Slots /\ count \in 0 .. MaxLatency
      /\ complete \in Nat /\ hand \in Nat /\ behind \in Nat /\ latency \in Latency .. MaxLatency
  BY <1>1 DEF RingTypes
<1>3. count \in Nat /\ count <= MaxLatency /\ count < DRING_SIZE
  BY <1>2, Sizes
<1>4. latency \in Nat /\ Latency <= latency /\ latency <= MaxLatency
  BY <1>2, Sizes
<1>5. Frames = Span(head, count) /\ count \in 0 .. DRING_SIZE
  <2>1. Frames = Span(head, count)
    BY DEF RingInv, Lined
  <2> QED
    BY <1>3, <2>1, Sizes
<1>6. Frames = {s \in Slots : Ahead(head, s) < count}
  BY <1>2, <1>5, InSpan
<1> QED
  BY <1>1, <1>2, <1>3, <1>4, <1>6 DEF Up

(* The frames that were sent, at the head of the ring, are taken off it. *)
LEMMA TakenOff ==
  ASSUME RingInv, NEW k, k = Lead(head, Holding(buf, "frame") \ owned),
         NEW b, b = Fill(buf, Span(head, k), Spare)
  PROVE  /\ k \in 0 .. count
         /\ \A s \in Slots : Ahead(head, s) < k => s \notin owned
         /\ k < count => Fwd(head, k) \in owned
         /\ b \in [Slots -> {"none", "idle", "frame"}]
         /\ Holding(b, "frame") = Span(Fwd(head, k), count - k)
         /\ mode = "NORMAL" /\ Up => Holding(b, "none") = {}
<1> DEFINE S == Holding(buf, "frame") \ owned
<1>1. head \in Slots /\ count \in Nat /\ count < DRING_SIZE /\ DRING_SIZE \in Nat
  BY Counts, Sizes
<1>2. S = {s \in Slots : Ahead(head, s) < count} \ owned
  BY Counts DEF Frames
<1> HIDE DEF S
<1>3. /\ k \in 0 .. DRING_SIZE
      /\ \A i \in 0 .. k - 1 : Fwd(head, i) \in S
      /\ k < DRING_SIZE => Fwd(head, k) \notin S
  BY <1>1, Leading DEF S
<1>4. k <= count
  <2>1. CASE k > count
    <3>1. Fwd(head, count) \in S
      BY <1>1, <1>3, <2>1
    <3>2. count \in 0 .. DRING_SIZE - 1
      BY <1>1
    <3>3. Ahead(head, Fwd(head, count)) = count
      BY <1>1, <3>2, AheadOfFwd
    <3> QED
      BY <1>1, <1>2, <3>1, <3>3
  <2> QED
    BY <1>1, <1>3, <2>1
<1>5. k \in 0 .. count /\ k \in 0 .. DRING_SIZE - 1
  BY <1>1, <1>3, <1>4
<1>6. ASSUME NEW s \in Slots, Ahead(head, s) < k PROVE s \notin owned
  <2>1. Ahead(head, s) \in 0 .. k - 1 /\ Fwd(head, Ahead(head, s)) = s
    BY <1>1, <1>3, <1>6, AheadIs
  <2> QED
    BY <1>2, <1>3, <2>1
<1>7. k < count => Fwd(head, k) \in owned
  <2>1. Fwd(head, k) \in Slots /\ Ahead(head, Fwd(head, k)) = k
    BY <1>1, <1>3, <1>5, FwdIs, AheadOfFwd
  <2>2. Fwd(head, k) \notin S
    BY <1>1, <1>3, <1>4
  <2> QED
    BY <1>2, <2>1, <2>2
<1>8. Span(head, k) = {s \in Slots : Ahead(head, s) < k}
  BY <1>1, <1>3, InSpan
<1>9. buf \in [Slots -> {"none", "idle", "frame"}] /\ mode \in Modes
  BY DEF RingInv, RingTypes
<1>10. b \in [Slots -> {"none", "idle", "frame"}]
  BY <1>9 DEF Fill, Spare
<1>11. Holding(b, "frame") = {s \in Slots : k <= Ahead(head, s) /\ Ahead(head, s) < count}
  <2>1. \A s \in Slots : Ahead(head, s) \in Nat
    BY <1>1, AheadIs
  <2>2. Holding(b, "frame") = Holding(buf, "frame") \ Span(head, k)
    BY <1>9 DEF Holding, Fill, Spare
  <2>3. Holding(buf, "frame") = {s \in Slots : Ahead(head, s) < count}
    BY Counts DEF Frames
  <2>4. ASSUME NEW s \in Slots
        PROVE  s \in Holding(b, "frame") <=> k <= Ahead(head, s) /\ Ahead(head, s) < count
    <3>1. Ahead(head, s) \in Nat /\ k \in Nat
      BY <1>5, <2>1
    <3> QED
      BY <1>8, <2>2, <2>3, <3>1
  <2>5. Holding(b, "frame") \subseteq Slots
    BY DEF Holding
  <2> QED
    BY <2>4, <2>5
<1>12. Span(Fwd(head, k), count - k) =
          {s \in Slots : k <= Ahead(head, s) /\ Ahead(head, s) < count}
  <2>1. Fwd(head, k) \in Slots /\ count - k \in 0 .. DRING_SIZE
    <3>1. Fwd(head, k) \in Slots
      BY <1>1, <1>3, FwdIs
    <3>2. count - k \in 0 .. DRING_SIZE
      BY <1>1, <1>5
    <3> QED
      BY <3>1, <3>2
  <2>2. Span(Fwd(head, k), count - k) = {s \in Slots : Ahead(Fwd(head, k), s) < count - k}
    BY <2>1, InSpan
  <2>3. \A s \in Slots : Ahead(head, s) \in 0 .. DRING_SIZE - 1
    BY <1>1, AheadIs
  <2>4. \A s \in Slots : Ahead(Fwd(head, k), s) = IF Ahead(head, s) >= k THEN Ahead(head, s) - k
                                ELSE Ahead(head, s) - k + DRING_SIZE
    BY <1>1, <1>5, AheadTwice
  <2>5. ASSUME NEW s \in Slots
        PROVE  Ahead(Fwd(head, k), s) < count - k <=> k <= Ahead(head, s) /\ Ahead(head, s) < count
    BY <1>1, <1>5, <2>3, <2>4, Sizes
  <2> QED
    BY <2>2, <2>5
<1>13. mode = "NORMAL" /\ Up => Holding(b, "none") = {}
  BY <1>9 DEF Up, Holding, Fill, Spare
<1> QED
  BY <1>5, <1>6, <1>7, <1>10, <1>11, <1>12, <1>13

(* The slots that a late routine skips end before one of the board's. *)
LEMMA StaleEnds ==
  ASSUME NEW h \in Slots, NEW b \in [Slots -> {"idle"}], NEW o
  PROVE  /\ Stale(h, b, o) \in 0 .. DRING_SIZE
         /\ Fwd(h, Stale(h, b, o)) \in Slots
         /\ Fwd(h, Stale(h, b, o)) \in o \cup Span(h, Stale(h, b, o))
<1>0. PICK r : r = Stale(h, b, o)
  OBVIOUS
<1>1. /\ r \in 0 .. DRING_SIZE
      /\ r < DRING_SIZE => Fwd(h, r) \notin Holding(b, "idle") \ o
  BY <1>0, Leading DEF Stale
<1>2. Fwd(h, r) \in Slots
  BY <1>1, FwdIs
<1>3. ASSUME r < DRING_SIZE PROVE Fwd(h, r) \in o
  BY <1>1, <1>2, <1>3 DEF Holding
<1>4. ASSUME r = DRING_SIZE PROVE Fwd(h, r) \in Span(h, r)
  <2>1. Span(h, r) = {s \in Slots : Ahead(h, s) < DRING_SIZE}
    BY <1>1, <1>4, InSpan
  <2>2. Ahead(h, Fwd(h, r)) \in 0 .. DRING_SIZE - 1
    BY <1>2, AheadIs
  <2>3. Ahead(h, Fwd(h, r)) < DRING_SIZE
    BY <2>2, Sizes
  <2> QED
    BY <1>2, <2>1, <2>3
<1>5. r < DRING_SIZE \/ r = DRING_SIZE
  BY <1>1, Sizes
<1> QED
  BY <1>0, <1>1, <1>2, <1>3, <1>4, <1>5

(* isr_collect, step by step: k frames are taken off the ring, c frames    *)
(* are complete, and a late routine skips r slots.                         *)
Collected(k, b, o, h, r) ==
  /\ k = Lead(head, Holding(buf, "frame") \ owned)
  /\ b = Fill(buf, Span(head, k), Spare)
  /\ o = IF mode = "NORMAL" THEN owned \cup Span(head, k) ELSE owned
  /\ h = Fwd(head, k)
  /\ r = Stale(h, b, o)
  /\ buf' = b /\ count' = count - k
  /\ isr = "collect"
  /\ UNCHANGED <<mode, tail, latency, hw, board, csr5, filled, masked, sem, status, sent, pc>>
  /\ flags' = flags \ {"HARD_UNDERRUN"}

(* There are frames enough, or the board has no idle ones to go into. *)
InTime(k, o, h) ==
  /\ mode = "HX8" \/ (mode = "NORMAL" /\ count' >= 2)
  /\ \E lag \in {0, 1} : Take(complete + k, lag) /\ (mode = "NORMAL" => lag = 0)
  /\ owned' = o /\ head' = h

(* The board is at its last frame. *)
LastFrame(k, o, h) ==
  /\ mode = "NORMAL" /\ count' = 1
  /\ isr' = "ack" /\ complete' = complete + k
  /\ owned' = o /\ head' = h
  /\ UNCHANGED <<hand, behind, ier, pending, trouble>>

(* The board is among the idle ones. *)
NoFrame(k, o, h, r) ==
  /\ mode = "NORMAL" /\ count' < 2 /\ count' # 1
  /\ owned' = o \cup Span(h, r) /\ head' = Fwd(h, r)
  /\ IF head' \in owned'
     THEN Take(complete + k, 2 + r)
     ELSE TxError /\ complete' = complete + k /\ UNCHANGED behind

(* isr_collect is one of the three cases. *)
LEMMA CollectCases ==
  ASSUME RingInv, isr_collect
  PROVE  \E k, b, o, h, r :
           /\ Collected(k, b, o, h, r)
           /\ InTime(k, o, h) \/ LastFrame(k, o, h) \/ NoFrame(k, o, h, r)
<1> DEFINE k == Lead(head, Holding(buf, "frame") \ owned)
           b == Fill(buf, Span(head, k), Spare)
           o == IF mode = "NORMAL" THEN owned \cup Span(head, k) ELSE owned
           h == Fwd(head, k)
           r == Stale(h, b, o)
<1>1. Collected(k, b, o, h, r)
  BY DEF isr_collect, Collected, line
<1>2. \/ /\ mode = "HX8" \/ (mode = "NORMAL" /\ ~Late(count'))
         /\ \E lag \in {0, 1} : Take(complete + k, lag) /\ (mode = "NORMAL" => lag = 0)
         /\ owned' = o /\ head' = h
      \/ /\ mode = "NORMAL" /\ count' = 1
         /\ isr' = "ack" /\ complete' = complete + k
         /\ owned' = o /\ head' = h
         /\ UNCHANGED <<hand, behind, ier, pending, trouble>>
      \/ /\ mode = "NORMAL" /\ Late(count') /\ count' # 1
         /\ owned' = o \cup Span(h, r) /\ head' = Fwd(h, r)
         /\ IF head' \in owned'
            THEN Take(complete + k, 2 + r)
            ELSE TxError /\ complete' = complete + k /\ UNCHANGED behind
  BY DEF isr_collect
<1> HIDE DEF k, b, o, h, r
<1>3. k \in 0 .. count /\ count \in Nat
  BY <1>1, TakenOff, Counts DEF Collected
<1>4. count' \in Nat
  BY <1>1, <1>3 DEF Collected
<1>5. (~Late(count') => count' >= 2) /\ (Late(count') => count' < 2)
  BY <1>4 DEF Late
<1> QED
  BY <1>1, <1>2, <1>5 DEF InTime, LastFrame, NoFrame

(* There are two kinds of boards. *)
LEMMA ModeIs == ASSUME RingInv PROVE mode \in {"NORMAL", "HX8"}
BY VoiceBusAssumption DEF VoiceBusAssumption, RingInv, RingTypes

(* isr_collect: the frames that were sent go from the ring to tx_complete  *)
(* and in hand, and what is skipped after an underrun held no frame.       *)
LEMMA RingCollect == ASSUME QuietInv, RingInv, isr_collect PROVE RingInv'
<1>0. PICK k, b, o, h, r :
           /\ Collected(k, b, o, h, r)
           /\ InTime(k, o, h) \/ LastFrame(k, o, h) \/ NoFrame(k, o, h, r)
  BY CollectCases
<1>1. /\ isr = "collect" /\ buf' = b /\ count' = count - k
      /\ UNCHANGED <<mode, tail, latency, hw, board, csr5, filled, masked, sem, status, sent, pc>>
  BY <1>0 DEF Collected
<1>2. /\ k \in 0 .. count /\ b \in [Slots -> {"none", "idle", "frame"}]
      /\ Holding(b, "frame") = Span(Fwd(head, k), count - k)
      /\ mode = "NORMAL" => Holding(b, "none") = {}
  BY <1>0, <1>1, TakenOff DEF Collected, RingInv, NotYet
<1>3. /\ count \in Nat /\ complete \in Nat /\ latency \in Nat /\ count <= MaxLatency
      /\ count < DRING_SIZE /\ DRING_SIZE \in Nat /\ MaxLatency \in Nat /\ BATCH \in Nat
      /\ hand = 0 /\ behind = 0 /\ count + complete = latency
      /\ head \in Slots /\ tail \in Slots
  <2>1. hand = 0 /\ behind = 0
    BY <1>1 DEF RingInv, InHand
  <2>2. count \in Nat /\ complete \in Nat /\ count + complete + hand = latency
    BY <1>1, Counts
  <2>3. count + complete = latency
    BY <2>1, <2>2
  <2> QED
    BY <2>1, <2>2, <2>3, Counts, Sizes
<1>4. k \in 0 .. DRING_SIZE /\ k \in Nat /\ count' \in 0 .. MaxLatency
  BY <1>1, <1>2, <1>3
<1>5. h \in Slots /\ h = Fwd(head, k)
  BY <1>0, <1>3, <1>4, FwdIs DEF Collected
<1>6. tail = Fwd(h, count - k)
  <2>1. tail = Fwd(head, count)
    BY <1>3, ModeIs DEF RingInv, Lined
  <2>2. Fwd(Fwd(head, k), count - k) = Fwd(head, k + (count - k))
    BY <1>2, <1>3, <1>4, FwdTwice
  <2>3. k + (count - k) = count
    BY <1>3, <1>4
  <2> QED
    BY <1>5, <2>1, <2>2, <2>3
<1>7. o \subseteq Slots
  <2>1. Span(head, k) \subseteq Slots
    BY <1>3, <1>4, InSpan
  <2> QED
    BY <1>0, <2>1 DEF Collected, RingInv, RingTypes
<1>8. "go" \notin {pc'["work"], pc'["driver"]}
  BY <1>1 DEF QuietInv, HandlerKeptOut
<1>9. ASSUME owned' \subseteq Slots, head' \in Slots, complete' \in Nat, hand' \in Nat,
             behind' \in Nat, ier' \in BOOLEAN, pending' \in BOOLEAN, trouble' = trouble,
             complete' + hand' = complete + k, Lined', InHand'
      PROVE  RingInv'
  <2>1. RingTypes'
    BY <1>1, <1>2, <1>4, <1>9 DEF RingInv, RingTypes
  <2>2. Up'
    <3>1. count' \in Nat /\ k \in Nat
      BY <1>3, <1>4
    <3>2. PICK n \in Nat, c \in Nat, d \in Nat : n = count' /\ c = complete' /\ d = hand'
      BY <1>9, <3>1
    <3>3. PICK m \in Nat, f \in Nat : m = count /\ f = complete
      BY <1>3
    <3>4. n = m - k /\ c + d = f + k
      BY <1>1, <1>9, <3>2, <3>3
    <3>5. n + c + d = m + f
      BY <3>1, <3>4
    <3>6. count' + complete' + hand' = latency
      BY <1>3, <3>2, <3>3, <3>5
    <3> QED
      BY <1>1, <1>2, <3>6 DEF Up, Holding
  <2>3. Fresh'
    BY <1>8 DEF Fresh
  <2> QED
    BY <1>9, <2>1, <2>2, <2>3 DEF RingInv
<1>10. ASSUME NEW lag \in Nat, Take(complete + k, lag)
       PROVE  /\ complete' \in Nat /\ hand' \in Nat /\ behind' = lag
              /\ complete' + hand' = complete + k
              /\ hand' = Least(hand' + complete', BATCH) /\ isr' = "send"
              /\ UNCHANGED <<ier, pending, trouble>>
  BY <1>3, <1>4, <1>10 DEF Take, Least
<1>11. ier \in BOOLEAN /\ pending \in BOOLEAN
  BY DEF RingInv, RingTypes
<1>12. CASE InTime(k, o, h)
  <2>1. PICK lag \in {0, 1} : Take(complete + k, lag) /\ (mode = "NORMAL" => lag = 0)
    BY <1>12 DEF InTime
  <2>2. lag \in Nat
    OBVIOUS
  <2>3. Lined'
    BY <1>1, <1>2, <1>5, <1>6, <1>10, <1>12, <2>1, <2>2 DEF Lined, Frames, InTime
  <2>4. InHand'
    BY <1>1, <1>10, <1>12, <2>1, <2>2 DEF InHand, InTime
  <2> QED
    BY <1>5, <1>7, <1>9, <1>10, <1>11, <1>12, <2>1, <2>2, <2>3, <2>4 DEF InTime
<1>13. CASE LastFrame(k, o, h)
  <2>1. Lined'
    BY <1>1, <1>2, <1>3, <1>5, <1>6, <1>13 DEF Lined, Frames, LastFrame
  <2>2. InHand'
    BY <1>3, <1>13 DEF InHand, LastFrame
  <2>3. complete' \in Nat /\ complete' + hand' = complete + k
    BY <1>3, <1>4, <1>13 DEF LastFrame
  <2> QED
    BY <1>3, <1>5, <1>7, <1>9, <1>11, <1>13, <2>1, <2>2, <2>3 DEF LastFrame
<1>14. CASE NoFrame(k, o, h, r)
  <2>1. count' = 0
    BY <1>4, <1>14 DEF NoFrame
  <2>2. Holding(b, "frame") = {}
    BY <1>1, <1>2, <2>1 DEF Span
  <2>3. b \in [Slots -> {"idle"}]
    BY <1>2, <1>14, <2>2 DEF Holding, NoFrame
  <2>4. r \in 0 .. DRING_SIZE /\ Fwd(h, r) \in Slots /\ Fwd(h, r) \in o \cup Span(h, r)
    BY <1>0, <1>5, <2>3, StaleEnds DEF Collected
  <2>5. Take(complete + k, 2 + r) /\ 2 + r \in Nat /\ 2 + r > 0
    BY <1>3, <1>14, <2>4 DEF NoFrame
  <2>6. owned' \subseteq Slots /\ head' \in Slots
    <3>1. Span(h, r) \subseteq Slots
      BY <1>5, <2>4, InSpan
    <3> QED
      BY <1>7, <1>14, <2>4, <3>1 DEF NoFrame
  <2>7. Span(head', count') = {}
    BY <2>1 DEF Span
  <2>8. Lined'
    BY <1>1, <1>10, <1>14, <2>1, <2>2, <2>5, <2>7 DEF Lined, Frames, NoFrame
  <2>9. InHand'
    BY <1>10, <2>5 DEF InHand
  <2> QED
    BY <1>9, <1>10, <1>11, <2>5, <2>6, <2>8, <2>9
<1> QED
  BY <1>0, <1>12, <1>13, <1>14

(* There is a place for each of n frames that are put behind n0 others. *)
LEMMA PutBehind ==
  ASSUME NEW n \in Nat, NEW b \in [Slots -> {"none", "idle", "frame"}], NEW o \in SUBSET Slots,
         NEW h \in Slots, NEW n0 \in Nat, n0 + n < DRING_SIZE,
         Holding(b, "frame") = Span(h, n0),
         Transmit(n, b, o, Fwd(h, n0), n0), pending \in BOOLEAN
  PROVE  /\ buf' \in [Slots -> {"none", "idle", "frame"}]
         /\ Holding(b, "none") = {} => Holding(buf', "none") = {}
         /\ Holding(buf', "frame") = Span(h, n0 + n)
         /\ owned' = o \cup Span(Fwd(h, n0), n) /\ owned' \subseteq Slots
         /\ tail' = Fwd(h, n0 + n) /\ tail' \in Slots
         /\ count' = n0 + n
         /\ pending' = pending /\ trouble' = trouble
<1> DEFINE from == Fwd(h, n0)
           free == Slots \ Holding(b, "frame")
<1>1. /\ n0 \in 0 .. DRING_SIZE /\ n \in 0 .. DRING_SIZE /\ n0 + n \in 0 .. DRING_SIZE
      /\ n0 \in 0 .. DRING_SIZE - 1 /\ DRING_SIZE \in Nat /\ n0 + n \in Nat
  BY Sizes
<1>2. from \in Slots /\ Fwd(h, n0 + n) \in Slots
  BY <1>1, FwdIs
<1>3. Span(h, n0) = {s \in Slots : Ahead(h, s) < n0}
  BY <1>1, InSpan
<1>4. Span(h, n0 + n) = {s \in Slots : Ahead(h, s) < n0 + n}
  BY <1>1, InSpan
<1>5. Span(from, n) = {s \in Slots : Ahead(from, s) < n}
  BY <1>1, <1>2, InSpan
<1>6. ASSUME NEW s \in Slots
      PROVE  /\ Ahead(from, s) = IF Ahead(h, s) >= n0 THEN Ahead(h, s) - n0
                                 ELSE Ahead(h, s) - n0 + DRING_SIZE
             /\ Ahead(h, s) \in 0 .. DRING_SIZE - 1 /\ Ahead(from, s) \in 0 .. DRING_SIZE - 1
  BY <1>1, <1>2, AheadTwice, AheadIs
<1>7. ASSUME NEW i \in 0 .. n PROVE Fwd(from, i) = Fwd(h, n0 + i)
  BY <1>1, FwdTwice
<1>8. Lead(from, free) >= n
  <2>1. /\ Lead(from, free) \in 0 .. DRING_SIZE
        /\ Lead(from, free) < DRING_SIZE => Fwd(from, Lead(from, free)) \notin free
    BY <1>2, Leading
  <2>2. PICK l \in Nat : l = Lead(from, free)
    BY <1>1, <2>1
  <2>3. CASE l < n
    <3>1. Fwd(from, l) \in Slots /\ Fwd(from, l) \in Holding(b, "frame")
      BY <1>1, <1>2, <2>1, <2>2, <2>3, FwdIs
    <3>2. l \in 0 .. DRING_SIZE - 1
      BY <1>1, <2>3
    <3>3. Ahead(from, Fwd(from, l)) = l
      BY <1>2, <3>2, AheadOfFwd
    <3>4. Ahead(h, Fwd(from, l)) < n0
      BY <1>3, <3>1
    <3>5. PICK a \in Nat : a = Ahead(h, Fwd(from, l)) /\ a < n0
      BY <1>1, <1>6, <3>1, <3>4
    <3>6. l = a - n0 + DRING_SIZE
      BY <1>1, <1>6, <3>1, <3>3, <3>5
    <3> QED
      BY <1>1, <2>3, <3>5, <3>6
  <2> QED
    BY <1>1, <2>2, <2>3
<1>9. Least(n, Lead(from, free)) = n
  <2>1. Lead(from, free) \in 0 .. DRING_SIZE
    BY <1>2, Leading
  <2> QED
    BY <1>1, <1>8, <2>1 DEF Least
<1>10. /\ buf' = Fill(b, Span(from, n), "frame")
       /\ owned' = o \cup Span(from, n) /\ tail' = Fwd(from, n) /\ count' = n0 + n
       /\ pending' = (pending \/ n < n)
       /\ trouble' = trouble \cup IF n < n THEN {"dropped"} ELSE {}
  BY <1>9 DEF Transmit
<1>11. pending' = pending /\ trouble' = trouble
  BY <1>10
<1>12. tail' = Fwd(h, n0 + n)
  BY <1>7, <1>10
<1>13. /\ buf' \in [Slots -> {"none", "idle", "frame"}]
       /\ Holding(b, "none") = {} => Holding(buf', "none") = {}
  BY <1>10 DEF Fill, Holding
<1>14. Holding(buf', "frame") = Span(h, n0 + n)
  <2>1. Holding(buf', "frame") = Span(h, n0) \cup Span(from, n)
    BY <1>5, <1>10 DEF Fill, Holding
  <2>2. ASSUME NEW s \in Slots
        PROVE  s \in Span(h, n0) \cup Span(from, n) <=> s \in Span(h, n0 + n)
    <3>1. PICK a \in Nat, f \in Nat : a = Ahead(h, s) /\ f = Ahead(from, s)
      BY <1>1, <1>6
    <3>2. f = (IF a >= n0 THEN a - n0 ELSE a - n0 + DRING_SIZE) /\ a < DRING_SIZE
      BY <1>1, <1>6, <3>1
    <3>3. a < n0 \/ f < n <=> a < n0 + n
      BY <1>1, <3>2
    <3> QED
      BY <1>3, <1>4, <1>5, <3>1, <3>3
  <2> QED
    BY <1>3, <1>4, <1>5, <2>1, <2>2
<1>15. owned' \subseteq Slots
  BY <1>5, <1>10
<1> QED
  BY <1>2, <1>10, <1>11, <1>12, <1>13, <1>14, <1>15

(* vb_increase_latency stays within max_latency. *)
LEMMA IncreaseIs ==
  ASSUME RingInv
  PROVE  Increase(behind) \in Nat /\ latency + Increase(behind) <= MaxLatency
<1>1. /\ latency \in Nat /\ latency <= MaxLatency /\ MaxLatency \in Nat /\ BUMP \in Nat
      /\ behind \in Nat
  BY Counts, Sizes
<1> QED
  BY <1>1 DEF Increase, Least

(* What isr_send does: the frames in hand and those that are added are put *)
(* behind the others, or after a soft underrun AHEAD slots on from the one *)
(* the board is at.                                                        *)
SentOff(n) ==
  /\ isr = "send" /\ isr' = "receive"
  /\ n = hand + Increase(behind) /\ latency' = latency + Increase(behind)
  /\ hand' = 0 /\ behind' = 0
  /\ count' = count + n /\ tail' = Fwd(head', count')
  /\ buf' \in [Slots -> {"none", "idle", "frame"}] /\ Frames' = Span(head', count')
  /\ mode = "NORMAL" => Holding(buf', "none") = {}
  /\ owned' \subseteq Slots /\ head' \in Slots
  /\ Poll
  /\ UNCHANGED <<mode, complete, hw, filled, ier, masked, flags, pending, sem, status, sent, pc,
                 trouble>>

(* isr_send never meets a frame in the place of an idle one, and drops     *)
(* none: there is a place for every frame, in time or late.                *)
LEMMA SendCases ==
  ASSUME RingInv, isr_send
  PROVE  \E n \in Nat :
           /\ SentOff(n) /\ count + n < DRING_SIZE
           /\ \/ /\ mode = "HX8" \/ behind = 0
                 /\ head' = head /\ owned' = owned \cup Span(Fwd(head, count), n)
              \/ \E r, h : 
                   /\ mode = "NORMAL" /\ behind > 0 /\ count = 0
                   /\ r = Stale(head, buf, owned) /\ h = Fwd(head, r) /\ head' = Fwd(h, AHEAD)
                   /\ owned' = owned \cup Span(head, r) \cup Span(h, AHEAD) \cup Span(head', n)
                   /\ Holding(buf, "idle") = Slots
<1>1. /\ count \in Nat /\ complete \in Nat /\ hand \in Nat /\ behind \in Nat /\ latency \in Nat
      /\ count + complete + hand = latency /\ count < DRING_SIZE /\ DRING_SIZE \in Nat
      /\ MaxLatency \in Nat /\ AHEAD + MaxLatency < DRING_SIZE /\ AHEAD \in Nat
      /\ head \in Slots /\ tail \in Slots /\ isr = "send"
  <2>1. isr = "send"
    BY DEF isr_send
  <2> QED
    BY <2>1, Counts, Sizes
<1>2. PICK n \in Nat : n = hand + Increase(behind)
  BY <1>1, IncreaseIs
<1>3. count + n < DRING_SIZE
  <2>1. PICK i \in Nat : i = Increase(behind) /\ latency + i <= MaxLatency
    BY IncreaseIs
  <2>2. PICK c \in Nat, d \in Nat, f \in Nat, l \in Nat :
           c = count /\ d = hand /\ f = complete /\ l = latency
    BY <1>1
  <2>3. c + f + d = l /\ n = d + i /\ l + i <= MaxLatency
    BY <1>1, <1>2, <2>1, <2>2
  <2>4. c + n < DRING_SIZE
    BY <1>1, <2>3
  <2> QED
    BY <2>2, <2>4
<1>4. /\ buf \in [Slots -> {"none", "idle", "frame"}] /\ owned \in SUBSET Slots
      /\ pending \in BOOLEAN /\ mode \in {"NORMAL", "HX8"}
      /\ mode = "NORMAL" => Holding(buf, "none") = {}
      /\ Holding(buf, "frame") = Span(head, count)
      /\ mode = "HX8" \/ behind = 0 => tail = Fwd(head, count)
  BY <1>1, ModeIs DEF RingInv, RingTypes, NotYet, Up, Lined, Frames
<1>5. /\ latency' = latency + Increase(behind) /\ behind' = 0
      /\ UNCHANGED <<mode, complete, hw, filled, masked, flags, sem, status, sent, pc>>
  BY DEF isr_send
<1>6. CASE mode = "HX8" \/ behind = 0
  <2>1. tail = Fwd(head, count)
    BY <1>4, <1>6
  <2>2. ASSUME mode = "NORMAL" PROVE buf[tail] = "idle"
    <3>1. count \in 0 .. DRING_SIZE - 1 /\ count \in 0 .. DRING_SIZE
      BY <1>1
    <3>2. Ahead(head, tail) = count
      BY <1>1, <2>1, <3>1, AheadOfFwd
    <3>3. tail \notin Span(head, count)
      BY <1>1, <3>1, <3>2, InSpan
    <3> QED
      BY <1>1, <1>4, <2>2, <3>3 DEF Holding
  <2>3. ~ (mode = "NORMAL" /\ behind > 0)
    BY <1>4, <1>6
  <2>4. /\ Transmit(n, buf, owned, tail, count) /\ head' = head /\ Poll /\ hand' = 0
        /\ isr' = "receive" /\ ier' = ier
    BY <1>2, <1>4, <2>2, <2>3 DEF isr_send
  <2>5. /\ buf' \in [Slots -> {"none", "idle", "frame"}]
        /\ Holding(buf, "none") = {} => Holding(buf', "none") = {}
        /\ Holding(buf', "frame") = Span(head, count + n)
        /\ owned' = owned \cup Span(Fwd(head, count), n) /\ owned' \subseteq Slots
        /\ tail' = Fwd(head, count + n) /\ tail' \in Slots
        /\ count' = count + n
        /\ pending' = pending /\ trouble' = trouble
    BY <1>1, <1>3, <1>4, <2>1, <2>4, PutBehind
  <2>6. SentOff(n)
    BY <1>1, <1>2, <1>4, <1>5, <2>4, <2>5 DEF SentOff, Frames
  <2> QED
    BY <1>3, <1>6, <2>4, <2>5, <2>6
<1>7. CASE mode = "NORMAL" /\ behind > 0
  <2> DEFINE r == Stale(head, buf, owned)
             h == Fwd(head, r)
             o == owned \cup Span(head, r)
             gap == Span(h, AHEAD)
             b3 == Fill(buf, gap, "idle")
             from == Fwd(h, AHEAD)
  <2>1. count = 0
    BY <1>7 DEF RingInv, Lined
  <2>2. Holding(buf, "frame") = {}
    BY <1>4, <2>1 DEF Span
  <2>3. buf \in [Slots -> {"idle"}] /\ Holding(buf, "idle") = Slots
    BY <1>4, <1>7, <2>2 DEF Holding
  <2>4. r \in 0 .. DRING_SIZE /\ h \in Slots /\ h \in o
    BY <1>1, <2>3, StaleEnds
  <2>5. from \in Slots /\ gap \subseteq Slots /\ Span(head, r) \subseteq Slots
    <3>1. AHEAD \in 0 .. DRING_SIZE
      BY <1>1
    <3> QED
      BY <1>1, <2>4, <3>1, FwdIs, InSpan
  <2>6. b3 \in [Slots -> {"none", "idle", "frame"}] /\ Holding(b3, "frame") = {}
        /\ Holding(b3, "none") = {} /\ b3[from] = "idle"
    BY <2>3, <2>5 DEF Fill, Holding
  <2>7. /\ Transmit(n, b3, o \cup gap, from, count) /\ head' = from /\ Poll /\ hand' = 0
        /\ isr' = "receive" /\ ier' = ier
    BY <1>2, <1>7, <2>4, <2>6 DEF isr_send
  <2>8. from = Fwd(from, 0) /\ Span(from, 0) = {}
    <3>1. 0 \in 0 .. DRING_SIZE
      BY <1>1
    <3>2. Fwd(from, 0) = IF from + 0 < DRING_SIZE THEN from + 0 ELSE from + 0 - DRING_SIZE
      BY <2>5, <3>1, FwdIs
    <3>3. Fwd(from, 0) = from
      BY <1>1, <2>5, <3>2 DEF Slots
    <3> QED
      BY <3>3 DEF Span
  <2> HIDE DEF r, h, o, gap, b3, from
  <2>9. /\ buf' \in [Slots -> {"none", "idle", "frame"}]
        /\ Holding(buf', "none") = {}
        /\ Holding(buf', "frame") = Span(from, 0 + n)
        /\ owned' = (o \cup gap) \cup Span(from, n) /\ owned' \subseteq Slots
        /\ tail' = Fwd(from, 0 + n) /\ tail' \in Slots
        /\ count' = 0 + n
        /\ pending' = pending /\ trouble' = trouble
    <3>1. o \cup gap \in SUBSET Slots
      BY <1>4, <2>5 DEF o
    <3>2. 0 + n < DRING_SIZE
      BY <1>3, <2>1
    <3>3. Holding(b3, "frame") = Span(from, 0)
      BY <2>6, <2>8
    <3>4. Transmit(n, b3, o \cup gap, Fwd(from, 0), 0)
      BY <2>1, <2>7, <2>8
    <3> QED
      BY <1>4, <2>5, <2>6, <2>8, <3>1, <3>2, <3>3, <3>4, PutBehind
  <2>10. SentOff(n)
    <3>1. 0 + n = n /\ count + n = n
      BY <2>1
    <3> QED
      BY <1>1, <1>2, <1>5, <2>5, <2>7, <2>9, <3>1 DEF SentOff, Frames
  <2>11. owned' = owned \cup Span(head, r) \cup Span(h, AHEAD) \cup Span(head', n)
    BY <2>7, <2>9 DEF o, gap
  <2>12. h = Fwd(head, r) /\ r = Stale(head, buf, owned) /\ head' = Fwd(h, AHEAD)
    BY <2>7 DEF h, r, from
  <2> QED
    BY <1>3, <1>7, <2>1, <2>3, <2>10, <2>11, <2>12
<1>8. behind = 0 \/ behind > 0
  BY <1>1
<1> QED
  BY <1>4, <1>6, <1>7, <1>8

(* isr_send: the frames in hand go to the ring, with those that are added. *)
LEMMA RingSend == ASSUME QuietInv, RingInv, isr_send PROVE RingInv'
<1>1. PICK n \in Nat : SentOff(n) /\ count + n < DRING_SIZE
  BY SendCases
<1>2. PICK i \in Nat : i = Increase(behind) /\ latency + i <= MaxLatency
  BY IncreaseIs
<1>3. PICK c \in Nat, d \in Nat, f \in Nat, l \in Nat :
         /\ c = count /\ d = hand /\ f = complete /\ l = latency
         /\ c + f + d = l /\ Latency <= l /\ l <= MaxLatency
  <2>1. isr # "out"
    BY <1>1 DEF SentOff
  <2> QED
    BY <2>1, Counts
<1>4. /\ n = d + i /\ latency' = l + i /\ count' = c + n /\ complete' = f /\ hand' = 0 /\ behind' = 0
      /\ head' \in Slots
  BY <1>1, <1>2, <1>3 DEF SentOff
<1>5. /\ count' \in 0 .. MaxLatency /\ latency' \in Latency .. MaxLatency
      /\ count' + complete' + hand' = latency'
  <2>1. l + i <= MaxLatency
    BY <1>2, <1>3
  <2>2. (c + n) \in 0 .. MaxLatency /\ (l + i) \in Latency .. MaxLatency /\ (c + n) + f + 0 = l + i
    BY <1>3, <1>4, <2>1, Sizes
  <2> QED
    BY <1>4, <2>2
<1>6. tail' \in Slots
  <2>1. count' \in 0 .. DRING_SIZE /\ tail' = Fwd(head', count')
    BY <1>1, <1>5, Sizes DEF SentOff
  <2> QED
    BY <1>4, <2>1, FwdIs
<1>7. board' \in {"run", "suspended", "stopped"}
  BY <1>1 DEF SentOff, Poll, RingInv, RingTypes
<1>8. RingTypes'
  <2>1. complete' \in Nat /\ hand' \in Nat /\ behind' \in Nat
    BY <1>3, <1>4
  <2> QED
    BY <1>1, <1>4, <1>5, <1>6, <1>7, <2>1 DEF SentOff, RingInv, RingTypes
<1>9. Up'
  BY <1>1, <1>5 DEF SentOff, Up
<1>10. Lined'
  BY <1>1 DEF SentOff, Lined
<1>11. InHand'
  BY <1>1 DEF SentOff, InHand
<1>12. Fresh'
  BY <1>1 DEF SentOff, Fresh, QuietInv, HandlerKeptOut
<1> QED
  BY <1>1, <1>8, <1>9, <1>10, <1>11, <1>12 DEF SentOff, RingInv

(* The invariant is inductive. *)
LEMMA RingStep ==
  ASSUME QuietInv, QuietInv', RingInv, [Next]_vars PROVE RingInv'
<1>1. CASE UNCHANGED vars
  <2>1. /\ UNCHANGED <<mode, ring, frames, hw, filled, board, ier, pending, sent, isr, pc, trouble,
                       csr5>>
    BY <1>1 DEF vars, line, control
  <2>2. Up \/ NotYet'
    BY <2>1 DEF RingInv, NotYet, stopped
  <2> QED
    BY <2>1, <2>2, RingStill DEF RingInv, RingTypes
<1>2. CASE Board
  BY <1>2, RingBoard
<1>3. CASE isr_enter \/ Handler
  BY <1>3, RingHandler, RingCollect, RingSend DEF Handler
<1>4. CASE Work
  BY <1>4, RingWork, RingStopping DEF Work, Threads
<1>5. CASE Driver
  <2>1. CASE driver_gone
    BY <1>1, <2>1 DEF driver_gone
  <2> QED
    BY <1>5, <2>1, RingDriver, RingStopping DEF Driver, Threads
<1> QED
  BY <1>1, <1>2, <1>3, <1>4, <1>5 DEF Next

(* It says what the property says: every frame is on the ring, complete or *)
(* in hand.                                                                *)
LEMMA RingEnough ==
  ASSUME QuietInv, AttendInv, RingInv PROVE FramesCirculate
<1>1. TypeOK
  <2>1. masked \in 0 .. 2
    BY DEF QuietInv, HandlerKeptOut
  <2>2. sem \in Threads \cup {Nobody}
    BY DEF QuietInv, QuietTypes
  <2>3. count \in 0 .. DRING_SIZE
    BY Counts, Sizes
  <2> QED
    BY <2>1, <2>2, <2>3 DEF RingInv, RingTypes, TypeOK
<1>2. RingShape
  <2>1. isr = "out" => behind = 0
    BY DEF RingInv, InHand
  <2> QED
    BY <2>1 DEF RingInv, Lined, RingShape
<1>3. ~ResetOwed => count + complete + hand = latency
  BY DEF ResetOwed, At, QuietInv, StopMeansStopped, AttendInv, MayRun, RingInv, Up, NotYet
<1> QED
  BY <1>1, <1>2, <1>3 DEF RingInv, FramesCirculate

(* latency frames circulate, whatever the underruns and however late the   *)
(* routine is (vb_tasklet_normal, vb_tasklet_hx8, __voicebus_transmit): no *)
(* frame is dropped for want of a place, lost, or given up at              *)
(* tx_error_exit, for rings of any size that has room for the frames and   *)
(* the gap.                                                                *)
THEOREM VoiceBusFramesCirculate == Spec => [](~raced => FramesCirculate)
<1> DEFINE Inv == ~raced => QuietInv /\ AttendInv /\ RingInv
<1>1. Init => Inv
  BY QuietAtFirst, AttendAtFirst, RingAtFirst
<1>2. Inv /\ [Next]_vars => Inv'
  BY RacedStays, QuietStep, AttendStep, RingStep
<1>3. Inv => (~raced => FramesCirculate)
  BY RingEnough
<1> HIDE DEF Inv
<1> QED
  BY <1>1, <1>2, <1>3, PTL DEF Spec

-----------------------------------------------------------------------------
(* Where the board is. *)

(* Steps after which the rings are to be set up anew. *)
LEMMA OwedStopping ==
  ASSUME QuietInv, NEW t \in Threads, Stopping(t)
  PROVE  ResetOwed'
<1>2. t = "work" \/ t = "driver"
  BY DEF Threads
<1>3. /\ pc'[t] \in {"halt", "halted", "recover", "free", "stopped"}
      /\ \A u \in Threads : u # t => pc'[u] = pc[u]
      /\ t = "work" => pc'[t] \notin {"free", "stopped"}
  BY <1>2 DEF Stopping, stop_begin, stop_halt, stop_end, Goto, At, After, QuietInv, QuietTypes,
              Threads
<1> QED
  BY <1>2, <1>3 DEF ResetOwed, At, Threads

(* handle_hardunderrun before it starts the board. *)
LEMMA OwedWork ==
  ASSUME QuietInv, AttendInv, work_begin \/ work_mask \/ work_setup
  PROVE  ResetOwed'
<1> USE DEF At, Goto, Threads
<1>1. pc'["driver"] = pc["driver"] /\ pc \in [Threads -> WorkPlaces \cup DriverPlaces]
  BY DEF work_begin, work_mask, ShuttingDown, work_setup, QuietInv, QuietTypes
<1>2. CASE work_begin
  BY <1>1, <1>2 DEF work_begin, AttendInv, MayRun, ResetOwed
<1>3. CASE work_mask
  BY <1>1, <1>3 DEF work_mask, ShuttingDown, QuietInv, Apart, ResetOwed
<1>4. CASE work_setup
  BY <1>1, <1>4 DEF work_setup, ResetOwed
<1> QED
  BY <1>2, <1>3, <1>4

(* The driver does not run the interface. *)
LEMMA OwedDriver ==
  ASSUME QuietInv,
         \/ driver_start \/ driver_setup \/ driver_stop
         \/ driver_release \/ driver_cancel \/ driver_free
  PROVE  ResetOwed'
<1>1. pc'["driver"] # "running"
  BY DEF driver_start, driver_setup, driver_stop, driver_release, driver_cancel, driver_free,
         QuietInv, QuietTypes, At, Goto, Threads
<1> QED
  BY <1>1 DEF ResetOwed, At

(* The board waits for no frame that it has not told of. *)
Fine == ~ResetOwed /\ "unavailable" \notin csr5

(* How many slots the board is past the first frame, and how many slots    *)
(* before it.                                                              *)
Past == Ahead(head, hw)
Before == Ahead(hw, head)

(* The board has sent the first frames, perhaps all of them and some idle  *)
(* ones behind them, and the other frames are its own.                     *)
Onward ==
  /\ \A s \in Slots : Ahead(head, s) < Past => s \notin owned
  /\ \A s \in Slots : Past <= Ahead(head, s) /\ Ahead(head, s) < count => s \in owned

(* It came there after the routine took its frames, if that was in time:   *)
(* it is no further than the frames it sent since.                         *)
Among == Onward /\ (isr = "send" /\ behind = 0 => Past <= sent)

(* The board is in the gap before the frames. *)
InGap ==
  /\ hw # head /\ Before <= AHEAD /\ count >= 1
  /\ \A s \in Slots : Ahead(hw, s) < Before + count => s \in owned

BoardInv == mode = "NORMAL" /\ Fine => hw \in owned /\ (Among \/ InGap)

(* What is assumed of the sizes: the board sends no more frames during a   *)
(* run of the routine than the code leaves it.                             *)
RoutineQuick == Slack <= 2 /\ Latency >= 1 /\ BATCH >= 1

(* Steps that leave the rings alone. *)
LEMMA BoardStill ==
  ASSUME BoardInv, UNCHANGED <<mode, buf, owned, head, count, hw, behind>>,
         isr' = "send" => isr = "send" /\ sent' = sent,
         Fine' => Fine
  PROVE  BoardInv'
<1>1. CASE mode' = "NORMAL" /\ Fine'
  <2>1. hw \in owned /\ (Among \/ InGap)
    BY <1>1 DEF BoardInv
  <2>2. Among => Among'
    BY DEF Among, Onward, Past
  <2>3. InGap => InGap'
    BY DEF InGap, Before
  <2> QED
    BY <2>1, <2>2, <2>3 DEF BoardInv
<1> QED
  BY <1>1 DEF BoardInv

(* vb_isr but for the routine: an underrun of a NORMAL board is            *)
(* acknowledged only with the work on its way.                             *)
LEMMA BoardHandler ==
  ASSUME QuietInv, AttendInv, BoardInv,
         isr_enter \/ isr_underrun \/ isr_underrun_hx8 \/ isr_complete \/ isr_stopped
           \/ isr_receive \/ isr_ack
  PROVE  BoardInv'
<1>1. /\ UNCHANGED <<mode, buf, owned, head, count, hw, behind, pc>>
      /\ isr' # "send"
  BY DEF isr_enter, isr_underrun, isr_underrun_hx8, isr_complete, isr_stopped, isr_receive,
         isr_ack, line, ring, frames
<1>2. CASE isr_enter \/ isr_complete \/ isr_receive
  <2>1. UNCHANGED <<pending, csr5>>
    BY <1>2 DEF isr_enter, isr_complete, isr_receive, line, control
  <2> QED
    BY <1>1, <2>1, BoardStill DEF Fine, ResetOwed, At
<1>3. CASE isr_underrun
  BY <1>3 DEF isr_underrun, BoardInv, Fine, ResetOwed
<1>4. CASE isr_underrun_hx8
  BY <1>4 DEF isr_underrun_hx8, BoardInv
<1>5. CASE isr_stopped
  <2>1. csr5' = csr5 \ status /\ pending' = pending /\ ("unavailable" \in status => "STOP" \in flags)
    BY <1>5 DEF isr_stopped, Unavailable
  <2>2. ~ResetOwed => "STOP" \notin flags
    BY DEF ResetOwed, At, AttendInv, MayRun, QuietInv, StopMeansStopped
  <2>3. Fine' => Fine
    BY <1>1, <2>1, <2>2 DEF Fine, ResetOwed, At
  <2> QED
    BY <1>1, <2>3, BoardStill
<1>6. CASE isr_ack
  <2>1. csr5' = csr5 \ status /\ pending' = pending /\ isr = "ack"
    BY <1>6 DEF isr_ack, Acknowledge, control
  <2>2. CASE mode = "NORMAL"
    <3>1. Fine' => Fine
      BY <1>1, <2>1, <2>2 DEF Fine, ResetOwed, At, AttendInv, Told
    <3> QED
      BY <1>1, <3>1, BoardStill
  <2>3. CASE mode # "NORMAL"
    BY <1>1, <2>3 DEF BoardInv
  <2> QED
    BY <2>2, <2>3
<1> QED
  BY <1>2, <1>3, <1>4, <1>5, <1>6

(* A slot is no distance from itself, and no other slot is. *)
LEMMA AheadHere ==
  ASSUME NEW s \in Slots, NEW r \in Slots
  PROVE  Ahead(s, s) = 0 /\ (Ahead(s, r) = 0 => r = s)
BY Sizes DEF Ahead, Slots

(* Distances to and from the next slot. *)
LEMMA OneOn ==
  ASSUME NEW s \in Slots, NEW r \in Slots, DRING_SIZE >= 2
  PROVE  /\ Fwd(r, 1) \in Slots
         /\ Ahead(s, Fwd(r, 1)) = IF Ahead(s, r) + 1 < DRING_SIZE THEN Ahead(s, r) + 1 ELSE 0
         /\ Ahead(Fwd(r, 1), s) = IF Ahead(r, s) >= 1 THEN Ahead(r, s) - 1 ELSE DRING_SIZE - 1
<1>1. Fwd(r, 1) \in Slots /\ Fwd(r, 1) = IF r + 1 < DRING_SIZE THEN r + 1 ELSE r + 1 - DRING_SIZE
  BY FwdIs, Sizes
<1> QED
  BY <1>1, Sizes DEF Ahead, Slots

(* The board sends a frame: among the frames it comes one further, and     *)
(* does not come round to the first one, which is not its own; in the gap  *)
(* it comes one nearer to the first one.                                   *)
LEMMA BoardSendFrame ==
  ASSUME QuietInv, RingInv, BoardInv, RoutineQuick, send_frame
  PROVE  BoardInv'
<1> SUFFICES ASSUME mode' = "NORMAL", Fine' PROVE (hw \in owned /\ (Among \/ InGap))'
  BY DEF BoardInv
<1>1. /\ hw' = Fwd(hw, 1) /\ owned' = owned \ {hw}
      /\ UNCHANGED <<mode, buf, head, tail, count, behind, isr, pc, pending>>
      /\ csr5' = csr5 \cup {"complete"} \cup Missing(hw', owned')
      /\ sent' = (IF isr = "out" THEN sent ELSE sent + 1)
  BY DEF send_frame, frames, control
<1>2. hw' \in owned' /\ hw \in owned /\ (Among \/ InGap)
  BY <1>1 DEF BoardInv, Fine, ResetOwed, At, Missing
<1>3. /\ head \in Slots /\ hw \in Slots /\ count \in Nat /\ DRING_SIZE \in Nat
      /\ AHEAD \in Nat /\ count + AHEAD < DRING_SIZE
      /\ DRING_SIZE >= 2 /\ sent \in Nat
  <2>1. sent \in 0 .. Slack
    BY DEF RingInv, RingTypes
  <2> QED
    BY <2>1, Counts, Sizes DEF RoutineQuick
<1>4. /\ Past' = IF Past + 1 < DRING_SIZE THEN Past + 1 ELSE 0
      /\ Past \in 0 .. DRING_SIZE - 1
      /\ Before' = IF Before >= 1 THEN Before - 1 ELSE DRING_SIZE - 1
      /\ Before \in 0 .. DRING_SIZE - 1
  BY <1>1, <1>3, OneOn, AheadIs DEF Past, Before
<1>5. ASSUME NEW s \in Slots, s # hw
      PROVE  Ahead(head, s) \in Nat /\ Ahead(head, s) # Past /\ (s \in owned' <=> s \in owned)
  <2>1. Ahead(head, s) \in Nat
    BY <1>3, AheadIs
  <2>2. Ahead(head, s) = Past => Fwd(head, Past) = s /\ Fwd(head, Past) = hw
    BY <1>3, AheadIs DEF Past
  <2> QED
    BY <1>1, <1>5, <2>1, <2>2
<1>6. ASSUME NEW s \in Slots
      PROVE  /\ Ahead(hw, s) \in 0 .. DRING_SIZE - 1
             /\ Ahead(hw', s) = IF Ahead(hw, s) >= 1 THEN Ahead(hw, s) - 1 ELSE DRING_SIZE - 1
             /\ Ahead(hw, s) = 0 <=> s = hw
  BY <1>1, <1>3, OneOn, AheadIs, AheadHere
<1>7. CASE Among
  <2>1. Past + 1 < DRING_SIZE
    <3> SUFFICES ASSUME Past + 1 >= DRING_SIZE PROVE FALSE
      BY <1>3, <1>4
    <3>1. Past' = 0 /\ Past > 0 /\ hw' \in Slots
      BY <1>1, <1>3, <1>4, OneOn
    <3>2. hw' = head
      BY <1>1, <1>3, <3>1, AheadHere DEF Past
    <3>3. Ahead(head, head) = 0
      BY <1>3, AheadHere
    <3> QED
      BY <1>1, <1>2, <1>3, <1>7, <3>1, <3>2, <3>3 DEF Among, Onward
  <2>2. Past' = Past + 1
    BY <1>4, <2>1
  <2>3. \A s \in Slots : Ahead(head, s) < Past + 1 => s \notin owned'
    <3> TAKE s \in Slots
    <3>1. CASE s = hw
      BY <1>1, <3>1
    <3>2. CASE s # hw
      BY <1>4, <1>5, <1>7, <3>2 DEF Among, Onward
    <3> QED
      BY <3>1, <3>2
  <2>4. \A s \in Slots : Past + 1 <= Ahead(head, s) /\ Ahead(head, s) < count => s \in owned'
    <3> TAKE s \in Slots
    <3>1. CASE s = hw
      BY <1>4, <3>1 DEF Past
    <3>2. CASE s # hw
      BY <1>4, <1>5, <1>7, <3>2 DEF Among, Onward
    <3> QED
      BY <3>1, <3>2
  <2>5. isr' = "send" /\ behind' = 0 => Past + 1 <= sent'
    BY <1>1, <1>3, <1>4, <1>7 DEF Among, Onward
  <2>6. Among'
    BY <1>1, <2>2, <2>3, <2>4, <2>5 DEF Among, Onward
  <2> QED
    BY <1>2, <2>6
<1>8. CASE InGap
  <2>1. Before >= 1 /\ Before <= AHEAD /\ Before' = Before - 1
    BY <1>3, <1>4, <1>8, AheadHere DEF InGap, Before
  <2>2. ASSUME NEW s \in Slots, Ahead(hw', s) < Before - 1 + count PROVE s \in owned'
    <3>1. PICK a \in Nat, c \in Nat, d \in Nat : a = Ahead(hw, s) /\ c = Before /\ d = Ahead(hw', s)
      BY <1>3, <1>4, <1>6
    <3>2. d < c - 1 + count /\ c <= AHEAD /\ d = (IF a >= 1 THEN a - 1 ELSE DRING_SIZE - 1)
      BY <1>6, <2>1, <2>2, <3>1
    <3>3. a >= 1 /\ a < c + count
      BY <1>3, <3>1, <3>2
    <3>4. s # hw /\ s \in owned
      BY <1>6, <1>8, <3>1, <3>3 DEF InGap
    <3> QED
      BY <1>5, <3>4
  <2>3. CASE Before' = 0
    <3>1. hw' = head /\ hw' \in Slots
      BY <1>1, <1>3, <2>3, AheadHere, OneOn DEF Before
    <3>2. Past' = 0
      BY <1>1, <1>3, <3>1, AheadHere DEF Past
    <3>3. \A s \in Slots : Ahead(head, s) < count => s \in owned'
      BY <1>3, <2>1, <2>2, <2>3, <3>1
    <3>4. sent' \in Nat
      BY <1>1, <1>3
    <3>5. Among'
      <4>1. \A s \in Slots : ~ (Ahead(head', s) < Past')
        BY <1>1, <1>3, <3>2, AheadIs
      <4>2. \A s \in Slots : Ahead(head', s) < count' => s \in owned'
        BY <1>1, <3>3
      <4>3. Past' <= sent'
        BY <3>2, <3>4
      <4> QED
        BY <4>1, <4>2, <4>3 DEF Among, Onward
    <3> QED
      BY <1>2, <3>5
  <2>4. CASE Before' # 0
    <3>1. hw' # head
      BY <1>1, <1>3, <2>4, AheadHere, OneOn DEF Before
    <3>2. Before' <= AHEAD
      BY <1>3, <1>4, <2>1
    <3>3. InGap'
      BY <1>1, <1>8, <2>1, <2>2, <3>1, <3>2 DEF InGap
    <3> QED
      BY <1>2, <3>3
  <2> QED
    BY <2>3, <2>4
<1> QED
  BY <1>2, <1>7, <1>8

(* isr_collect: the frames taken off are exactly those the board has sent, *)
(* so that head is where the board is; a late routine, which finds no      *)
(* frame, skips exactly the idle ones that were sent.                      *)
LEMMA BoardCollect ==
  ASSUME QuietInv, RingInv, BoardInv, isr_collect
  PROVE  BoardInv'
<1> SUFFICES ASSUME mode' = "NORMAL", Fine' PROVE (hw \in owned /\ (Among \/ InGap))'
  BY DEF BoardInv
<1>0. PICK k, b, o, h, r :
           /\ Collected(k, b, o, h, r)
           /\ InTime(k, o, h) \/ LastFrame(k, o, h) \/ NoFrame(k, o, h, r)
  BY CollectCases
<1>1. /\ buf' = b /\ count' = count - k /\ isr = "collect"
      /\ h = Fwd(head, k)
      /\ UNCHANGED <<mode, hw, csr5, sent, pc>>
      /\ mode = "NORMAL" /\ o = owned \cup Span(head, k)
      /\ r = Stale(h, b, o)
  BY <1>0 DEF Collected
<1>2. /\ k \in 0 .. count
      /\ \A s \in Slots : Ahead(head, s) < k => s \notin owned
      /\ k < count => Fwd(head, k) \in owned
      /\ b \in [Slots -> {"none", "idle", "frame"}]
      /\ Holding(b, "frame") = Span(Fwd(head, k), count - k)
      /\ Holding(b, "none") = {}
  BY <1>0, <1>1, TakenOff DEF Collected, RingInv, NotYet
<1>3. /\ head \in Slots /\ hw \in Slots /\ count \in Nat /\ DRING_SIZE \in Nat
      /\ count < DRING_SIZE /\ k \in Nat /\ k <= count /\ k \in 0 .. DRING_SIZE - 1
      /\ k \in 0 .. DRING_SIZE /\ sent \in Nat
  <2>1. sent \in 0 .. Slack
    BY DEF RingInv, RingTypes
  <2> QED
    BY <1>2, <2>1, Counts, Sizes
<1>4. Fine
  <2>1. pending => pending'
    BY <1>0 DEF InTime, LastFrame, NoFrame, Take, TxError
  <2> QED
    BY <1>1, <2>1 DEF Fine, ResetOwed, At
<1>5. hw \in owned /\ (Among \/ InGap) /\ owned \subseteq owned' /\ owned \subseteq o
  BY <1>0, <1>1, <1>4 DEF BoardInv, InTime, LastFrame, NoFrame
<1>6. hw' \in owned'
  BY <1>1, <1>5
<1>7. Span(head, k) = {s \in Slots : Ahead(head, s) < k}
  BY <1>3, InSpan
<1>8. CASE InGap
  <2>1. head \in owned
    <3>1. PICK a \in Nat : a = Before
      BY <1>3, AheadIs DEF Before
    <3>2. count >= 1 /\ \A s \in Slots : Ahead(hw, s) < a + count => s \in owned
      BY <1>8, <3>1 DEF InGap
    <3>3. a < a + count
      BY <1>3, <3>2
    <3> QED
      BY <1>3, <3>1, <3>2, <3>3 DEF Before
  <2>2. k = 0
    BY <1>2, <1>3, <2>1, AheadHere
  <2>3. count' = count /\ count >= 1
    BY <1>1, <1>3, <1>8, <2>2 DEF InGap
  <2>4. ~NoFrame(k, o, h, r)
    BY <1>3, <2>3 DEF NoFrame
  <2>5. h = head
    <3>1. Fwd(head, 0) = head
      BY <1>3, AheadHere, AheadIs
    <3> QED
      BY <1>1, <2>2, <3>1
  <2>6. head' = head
    BY <1>0, <2>4, <2>5 DEF InTime, LastFrame
  <2>7. InGap'
    BY <1>1, <1>5, <1>8, <2>3, <2>6 DEF InGap, Before
  <2> QED
    BY <1>6, <2>7
<1>9. CASE Among
  <2>1. PICK p \in Nat : p = Past /\ p < DRING_SIZE /\ Fwd(head, p) = hw
    BY <1>3, AheadIs DEF Past
  <2>2. k <= p
    BY <1>2, <1>3, <1>5, <2>1 DEF Past
  <2>3. \A s \in Slots : Ahead(head, s) \in Nat /\ Ahead(head, s) < DRING_SIZE
    BY <1>3, AheadIs
  <2>4. Ahead(hw, hw) = 0
    BY <1>3, AheadHere
  <2>5. CASE InTime(k, o, h) \/ LastFrame(k, o, h)
    <3>1. /\ head' = h /\ owned' = o /\ count' >= 1
      BY <1>1, <1>3, <2>5 DEF InTime, LastFrame
    <3>2. k < count
      BY <1>1, <1>3, <3>1
    <3>3. k >= p
      <4>1. Fwd(head, k) \in Slots /\ Ahead(head, Fwd(head, k)) = k
        BY <1>3, FwdIs, AheadOfFwd
      <4> QED
        BY <1>2, <1>3, <1>9, <2>1, <3>2, <4>1 DEF Among, Onward
    <3>4. k = p /\ head' = hw
      BY <1>1, <1>3, <2>1, <2>2, <3>1, <3>3
    <3>5. Past' = 0
      BY <1>1, <2>4, <3>4 DEF Past
    <3>6. ASSUME NEW s \in Slots, Ahead(hw, s) < count - k PROVE s \in owned'
      <4>1. Ahead(hw, s) = IF Ahead(head, s) >= k THEN Ahead(head, s) - k
                           ELSE Ahead(head, s) - k + DRING_SIZE
        BY <1>3, <2>1, <3>4, AheadTwice
      <4>2. CASE Ahead(head, s) < k
        BY <1>1, <1>7, <3>1, <4>2
      <4>3. CASE Ahead(head, s) >= k
        <5>1. Ahead(head, s) < count
          BY <1>3, <2>3, <3>6, <4>1, <4>3
        <5> QED
          BY <1>5, <1>9, <2>1, <3>4, <4>3, <5>1 DEF Among, Onward
      <4> QED
        BY <1>3, <2>3, <4>2, <4>3
    <3>7. Among'
      <4>1. \A s \in Slots : Ahead(head', s) < Past' => s \notin owned'
        BY <1>1, <1>3, <3>4, <3>5, AheadIs
      <4>2. \A s \in Slots : Past' <= Ahead(head', s) /\ Ahead(head', s) < count' => s \in owned'
        BY <1>1, <3>4, <3>6
      <4>3. Past' <= sent'
        BY <1>1, <1>3, <3>5
      <4> QED
        BY <4>1, <4>2, <4>3 DEF Among, Onward
    <3> QED
      BY <1>6, <3>7
  <2>6. CASE NoFrame(k, o, h, r)
    <3>1. count' \in Nat /\ count' = 0
      BY <1>1, <1>3, <2>6 DEF NoFrame
    <3>2. b \in [Slots -> {"idle"}]
      <4>1. Holding(b, "frame") = {}
        BY <1>1, <1>2, <3>1 DEF Span
      <4> QED
        BY <1>2, <4>1 DEF Holding
    <3>3. r = Lead(h, Slots \ o)
      <4>1. Holding(b, "idle") = Slots
        BY <3>2 DEF Holding
      <4> QED
        BY <1>1, <4>1 DEF Stale
    <3>4. h \in Slots /\ p - k \in Slots /\ p - k \in Nat
      BY <1>1, <1>3, <2>1, <2>2, FwdIs DEF Slots
    <3>5. Fwd(h, p - k) = hw
      <4>1. Fwd(Fwd(head, k), p - k) = Fwd(head, k + (p - k))
        BY <1>3, <2>1, <2>2, <3>4, FwdTwice
      <4>2. k + (p - k) = p
        BY <1>3
      <4> QED
        BY <1>1, <2>1, <4>1, <4>2
    <3>6. ASSUME NEW i \in 0 .. p - k - 1 PROVE Fwd(h, i) \in Slots \ o
      <4>1. /\ i \in Nat /\ k + i \in 0 .. DRING_SIZE - 1 /\ k + i \in 0 .. DRING_SIZE
            /\ k + i < p /\ k + i >= k
        BY <1>3, <2>1, <2>2
      <4>2. Fwd(h, i) = Fwd(head, k + i)
        BY <1>1, <1>3, <4>1, FwdTwice
      <4>3. Fwd(h, i) \in Slots /\ Ahead(head, Fwd(h, i)) = k + i
        BY <1>3, <4>1, <4>2, FwdIs, AheadOfFwd
      <4>4. Fwd(h, i) \notin owned
        BY <1>9, <2>1, <4>1, <4>3 DEF Among, Onward
      <4>5. Fwd(h, i) \notin Span(head, k)
        BY <1>3, <1>7, <4>1, <4>3
      <4> QED
        BY <1>1, <4>3, <4>4, <4>5
    <3>7. hw \notin Slots \ o
      BY <1>5
    <3>8. r = p - k
      <4> DEFINE S == Slots \ o
      <4>1. hw \notin S /\ \A i \in 0 .. (p - k) - 1 : Fwd(h, i) \in S
        BY <3>6, <3>7
      <4>2. r = Lead(h, S)
        BY <3>3
      <4> HIDE DEF S
      <4> QED
        BY <3>4, <3>5, <4>1, <4>2, LeadIs
    <3>9. head' = hw
      BY <2>6, <3>5, <3>8 DEF NoFrame
    <3>10. Past' = 0
      BY <1>1, <2>4, <3>9 DEF Past
    <3>11. \A s \in Slots : Ahead(head', s) \in Nat
      BY <1>3, <3>9, AheadIs
    <3>12. Past' <= sent'
      BY <1>1, <1>3, <3>10
    <3>13. Among'
      BY <3>1, <3>10, <3>11, <3>12 DEF Among, Onward
    <3> QED
      BY <1>6, <3>13
  <2> QED
    BY <1>0, <2>5, <2>6
<1> QED
  BY <1>5, <1>8, <1>9

(* isr_send: a routine that was in time puts the frames behind those the   *)
(* board has still to send; a late one skips the idle ones that were sent  *)
(* and puts them AHEAD slots before the board.                             *)
LEMMA BoardSend ==
  ASSUME QuietInv, RingInv, BoardInv, RoutineQuick, isr_send
  PROVE  BoardInv'
<1> SUFFICES ASSUME mode' = "NORMAL", Fine' PROVE (hw \in owned /\ (Among \/ InGap))'
  BY DEF BoardInv
<1>0. PICK n \in Nat :
           /\ SentOff(n) /\ count + n < DRING_SIZE
           /\ \/ /\ mode = "HX8" \/ behind = 0
                 /\ head' = head /\ owned' = owned \cup Span(Fwd(head, count), n)
              \/ \E r, h : 
                   /\ mode = "NORMAL" /\ behind > 0 /\ count = 0
                   /\ r = Stale(head, buf, owned) /\ h = Fwd(head, r) /\ head' = Fwd(h, AHEAD)
                   /\ owned' = owned \cup Span(head, r) \cup Span(h, AHEAD) \cup Span(head', n)
                   /\ Holding(buf, "idle") = Slots
  BY SendCases
<1>1. /\ count' = count + n /\ isr = "send" /\ isr' = "receive"
      /\ n = hand + Increase(behind)
      /\ UNCHANGED <<mode, hw, pc, pending, sent>>
      /\ csr5 \subseteq csr5' /\ mode = "NORMAL"
  BY <1>0 DEF SentOff, Poll
<1>2. Fine
  BY <1>1 DEF Fine, ResetOwed, At
<1>3. /\ head \in Slots /\ hw \in Slots /\ count \in Nat /\ DRING_SIZE \in Nat /\ AHEAD \in Nat
      /\ count \in 0 .. DRING_SIZE - 1 /\ n \in 0 .. DRING_SIZE
      /\ AHEAD \in 0 .. DRING_SIZE - 1 /\ AHEAD \in 0 .. DRING_SIZE
  <2>1. /\ head \in Slots /\ hw \in Slots /\ count \in Nat /\ DRING_SIZE \in Nat /\ AHEAD \in Nat
        /\ MaxLatency \in Nat /\ AHEAD + MaxLatency < DRING_SIZE
    BY Counts, Sizes
  <2>2. count + n < DRING_SIZE
    BY <1>0
  <2> QED
    BY <2>1, <2>2
<1>4. hw \in owned /\ (Among \/ InGap) /\ owned \subseteq owned'
  BY <1>0, <1>1, <1>2 DEF BoardInv
<1>5. hw' \in owned'
  BY <1>1, <1>4
<1>6. CASE head' = head /\ owned' = owned \cup Span(Fwd(head, count), n) /\ behind = 0
  <2>1. Fwd(head, count) \in Slots
    BY <1>3, FwdIs, Sizes
  <2>2. Span(Fwd(head, count), n) = {s \in Slots : Ahead(Fwd(head, count), s) < n}
    BY <1>3, <2>1, InSpan
  <2>3. ASSUME NEW s \in Slots
        PROVE  /\ Ahead(Fwd(head, count), s) = IF Ahead(head, s) >= count THEN Ahead(head, s) - count
                           ELSE Ahead(head, s) - count + DRING_SIZE
               /\ Ahead(head, s) \in Nat /\ Ahead(hw, s) \in Nat
    BY <1>3, AheadTwice, AheadIs
  <2>4. ASSUME NEW s \in Slots
        PROVE  s \in Span(Fwd(head, count), n) <=>
                 count <= Ahead(head, s) /\ Ahead(head, s) < count + n
    <3>1. PICK a \in Nat : a = Ahead(head, s)
      BY <2>3
    <3>2. Ahead(Fwd(head, count), s) = IF a >= count THEN a - count ELSE a - count + DRING_SIZE
      BY <2>3, <3>1
    <3>3. count + n < DRING_SIZE
      BY <1>0
    <3>4. Ahead(Fwd(head, count), s) < n <=> count <= a /\ a < count + n
      BY <1>3, <3>2, <3>3
    <3> QED
      BY <2>2, <3>1, <3>4
  <2>5. CASE Among
    <3>1. PICK p \in Nat : p = Past /\ p <= count
      <4>1. Past \in Nat
        BY <1>3, AheadIs DEF Past
      <4>2. Past <= sent
        BY <1>1, <1>6, <2>5 DEF Among, Onward
      <4>3. sent \in 0 .. Slack /\ count >= 2
        BY <1>1, <1>6 DEF RingInv, RingTypes, InHand
      <4> QED
        BY <1>3, <4>1, <4>2, <4>3, Sizes DEF RoutineQuick
    <3>2. \A s \in Slots : Ahead(head, s) < p => s \notin owned'
      BY <1>3, <1>6, <2>3, <2>4, <2>5, <3>1 DEF Among, Onward
    <3>3. \A s \in Slots : p <= Ahead(head, s) /\ Ahead(head, s) < count + n => s \in owned'
      BY <1>3, <1>6, <2>3, <2>4, <2>5, <3>1 DEF Among, Onward
    <3>4. Past' = p
      BY <1>1, <1>6, <3>1 DEF Past
    <3>5. Among'
      BY <1>1, <1>6, <3>2, <3>3, <3>4 DEF Among, Onward
    <3> QED
      BY <1>5, <3>5
  <2>6. CASE InGap
    <3>1. PICK c \in Nat :
             c = Before /\ c < DRING_SIZE /\ c \in 0 .. DRING_SIZE - 1 /\ head = Fwd(hw, c)
      BY <1>3, AheadIs DEF Before
    <3>2. /\ hw # head /\ c <= AHEAD /\ count >= 1
          /\ \A s \in Slots : Ahead(hw, s) < c + count => s \in owned
      BY <2>6, <3>1 DEF InGap
    <3>3. ASSUME NEW s \in Slots, Ahead(hw, s) < c + (count + n) PROVE s \in owned'
      <4>1. CASE Ahead(hw, s) < c + count
        BY <1>6, <3>2, <4>1
      <4>2. CASE ~ (Ahead(hw, s) < c + count)
        <5>1. Ahead(head, s) = IF Ahead(hw, s) >= c THEN Ahead(hw, s) - c
                               ELSE Ahead(hw, s) - c + DRING_SIZE
          BY <1>3, <3>1, AheadTwice
        <5>2. PICK a \in Nat : a = Ahead(hw, s)
          BY <2>3
        <5>3. a >= c + count /\ a < c + (count + n)
          BY <1>3, <3>1, <3>3, <4>2, <5>2
        <5>4. Ahead(head, s) = a - c
          BY <1>3, <3>1, <5>1, <5>2, <5>3
        <5>5. count <= a - c /\ a - c < count + n
          BY <1>3, <3>1, <5>3
        <5> QED
          BY <1>6, <2>4, <5>4, <5>5
      <4> QED
        BY <4>1, <4>2
    <3>4. Before' = c /\ count' >= 1
      BY <1>1, <1>3, <1>6, <3>1, <3>2 DEF Before
    <3>5. InGap'
      BY <1>1, <1>6, <3>2, <3>3, <3>4 DEF InGap
    <3> QED
      BY <1>5, <3>5
  <2> QED
    BY <1>4, <2>5, <2>6
<1>7. ASSUME NEW r, NEW h,
             behind > 0, count = 0, r = Stale(head, buf, owned), h = Fwd(head, r),
             head' = Fwd(h, AHEAD), Holding(buf, "idle") = Slots,
             owned' = owned \cup Span(head, r) \cup Span(h, AHEAD) \cup Span(head', n)
      PROVE  (Among \/ InGap)'
  <2>1. Among
    BY <1>4, <1>7 DEF InGap
  <2>2. Past \in Slots /\ Past \in Nat /\ Fwd(head, Past) = hw
    BY <1>3, AheadIs DEF Past, Slots
  <2>3. ASSUME NEW i \in 0 .. Past - 1 PROVE Fwd(head, i) \in Slots \ owned
    <3>1. i \in 0 .. DRING_SIZE - 1 /\ i \in 0 .. DRING_SIZE
      BY <1>3, <2>2 DEF Slots
    <3>2. Fwd(head, i) \in Slots /\ Ahead(head, Fwd(head, i)) = i
      BY <1>3, <3>1, FwdIs, AheadOfFwd
    <3>3. Ahead(head, Fwd(head, i)) < Past
      BY <2>2, <3>2
    <3> QED
      BY <2>1, <3>2, <3>3 DEF Among, Onward
  <2>4. r = Past
    <3> DEFINE S == Slots \ owned
    <3>1. r = Lead(head, S)
      BY <1>7 DEF Stale
    <3>2. hw \notin S /\ \A i \in 0 .. Past - 1 : Fwd(head, i) \in S
      BY <1>4, <2>3
    <3> HIDE DEF S
    <3> QED
      BY <1>3, <2>2, <3>1, <3>2, LeadIs
  <2>5. h = hw /\ head' = Fwd(hw, AHEAD) /\ head' \in Slots
    BY <1>3, <1>7, <2>2, <2>4, FwdIs
  <2>6. Ahead(hw, head') = AHEAD
    BY <1>3, <2>5, AheadOfFwd
  <2>7. /\ Span(hw, AHEAD) = {s \in Slots : Ahead(hw, s) < AHEAD}
        /\ Span(head', n) = {s \in Slots : Ahead(head', s) < n}
    BY <1>3, <2>5, InSpan
  <2>8. count' = n /\ n \in Nat
    BY <1>1, <1>7
  <2>9. CASE AHEAD = 0
    <3>1. Past' = 0
      BY <1>1, <1>3, <2>5, <2>6, <2>9, AheadHere DEF Past
    <3>2. \A s \in Slots : Ahead(head', s) \in Nat
      BY <2>5, AheadIs
    <3>3. \A s \in Slots : Ahead(head', s) < n => s \in owned'
      BY <1>7, <2>7
    <3>4. Among'
      BY <1>1, <2>8, <3>1, <3>2, <3>3 DEF Among, Onward
    <3> QED
      BY <3>4
  <2>10. CASE AHEAD # 0
    <3>1. hw # head'
      BY <1>3, <2>6, <2>10, AheadHere
    <3>2. n >= 1
      <4>1. hand \in Nat /\ complete \in Nat /\ latency \in Nat /\ Latency <= latency
            /\ count + complete + hand = latency /\ hand = Least(hand + complete, BATCH)
        BY <1>1, Counts DEF RingInv, InHand
      <4>2. hand + complete >= 1 /\ BATCH >= 1 /\ BATCH \in Nat
        BY <1>7, <4>1, Sizes DEF RoutineQuick
      <4>3. hand >= 1
        BY <4>1, <4>2 DEF Least
      <4> QED
        BY <1>1, <4>1, <4>3, IncreaseIs
    <3>3. ASSUME NEW s \in Slots, Ahead(hw, s) < AHEAD + n PROVE s \in owned'
      <4>1. CASE Ahead(hw, s) < AHEAD
        BY <1>7, <2>5, <2>7, <4>1
      <4>2. CASE ~ (Ahead(hw, s) < AHEAD)
        <5>1. Ahead(head', s) = IF Ahead(hw, s) >= AHEAD THEN Ahead(hw, s) - AHEAD
                                ELSE Ahead(hw, s) - AHEAD + DRING_SIZE
          BY <1>3, <2>5, AheadTwice
        <5>2. Ahead(hw, s) \in Nat
          BY <1>3, AheadIs
        <5>3. Ahead(head', s) < n
          BY <1>3, <2>8, <3>3, <4>2, <5>1, <5>2
        <5> QED
          BY <1>7, <2>7, <5>3
      <4> QED
        BY <4>1, <4>2
    <3>4. Before' = AHEAD
      BY <1>1, <2>6 DEF Before
    <3>5. AHEAD <= AHEAD /\ count' >= 1
      BY <1>3, <2>8, <3>2
    <3>6. InGap'
      BY <1>1, <2>8, <3>1, <3>3, <3>4, <3>5 DEF InGap
    <3> QED
      BY <3>6
  <2> QED
    BY <2>9, <2>10
<1>8. CASE behind = 0
  BY <1>0, <1>1, <1>6, <1>8
<1>9. CASE behind # 0
  BY <1>0, <1>1, <1>5, <1>7, <1>9
<1> QED
  BY <1>8, <1>9

(* The board starts at the first frame of rings that are as new. *)
LEMMA BoardGo == ASSUME QuietInv, RingInv, BoardInv, work_go \/ driver_go PROVE BoardInv'
<1> SUFFICES ASSUME mode' = "NORMAL", Fine' PROVE (hw \in owned /\ (Among \/ InGap))'
  BY DEF BoardInv
<1>1. UNCHANGED <<mode, buf, owned, head, count, hw, behind, isr, sent>>
  BY DEF work_go, driver_go, ring, frames
<1>2. hw = head /\ owned = Slots /\ head \in Slots
  BY <1>1, Counts DEF work_go, driver_go, At, RingInv, Fresh
<1>3. Past' = 0
  BY <1>1, <1>2, AheadHere DEF Past
<1>4. \A s \in Slots : Ahead(head, s) \in Nat
  BY <1>2, AheadIs
<1>5. sent \in Nat
  <2>1. sent \in 0 .. Slack
    BY DEF RingInv, RingTypes
  <2> QED
    BY <2>1, Sizes
<1>6. Among'
  BY <1>1, <1>2, <1>3, <1>4, <1>5 DEF Among, Onward
<1> QED
  BY <1>1, <1>2, <1>6

(* At first the rings are to be set up. *)
LEMMA BoardAtFirst == Init => BoardInv
BY DEF Init, BoardInv, Fine, ResetOwed, At, Threads

(* The invariant is inductive. *)
LEMMA BoardStep ==
  ASSUME RoutineQuick, QuietInv, AttendInv, RingInv, BoardInv, [Next]_vars
  PROVE  BoardInv'
<1>1. CASE UNCHANGED vars
  <2>1. UNCHANGED <<mode, buf, owned, head, count, hw, behind, isr, sent, pc, pending, csr5>>
    BY <1>1 DEF vars, ring, frames, line, control
  <2> QED
    BY <2>1, BoardStill DEF Fine, ResetOwed, At
<1>2. CASE send_frame
  BY <1>2, BoardSendFrame
<1>3. CASE receive_frame
  <2>1. UNCHANGED <<mode, buf, owned, head, count, hw, behind, isr, sent, pc, pending>>
        /\ csr5 \subseteq csr5'
    BY <1>3 DEF receive_frame, ring, frames, control
  <2> QED
    BY <2>1, BoardStill DEF Fine, ResetOwed, At
<1>4. CASE isr_enter \/ Handler
  BY <1>4, BoardHandler, BoardCollect, BoardSend DEF Handler
<1>5. CASE work_go \/ driver_go
  BY <1>5, BoardGo
<1>6. CASE driver_gone
  BY <1>1, <1>6 DEF driver_gone
<1>7. ASSUME ResetOwed' PROVE BoardInv'
  BY <1>7 DEF BoardInv, Fine
<1>8. CASE Work /\ ~work_go
  BY <1>7, <1>8, OwedWork, OwedStopping DEF Work, Threads
<1>9. CASE Driver /\ ~driver_go /\ ~driver_gone
  BY <1>7, <1>9, OwedDriver, OwedStopping DEF Driver, Threads
<1> QED
  BY <1>1, <1>2, <1>3, <1>4, <1>5, <1>6, <1>8, <1>9 DEF Next, Board

(* How far before a frame the board is. *)
LEMMA GapBefore ==
  ASSUME NEW g \in Nat, NEW S, S \subseteq Span(hw, g), hw \in Slots, g \in 0 .. DRING_SIZE
  PROVE  IsFiniteSet(S) /\ Cardinality(S) <= g
<1>1. IsFiniteSet(0 .. g - 1) /\ Cardinality(0 .. g - 1) = g
  <2>1. Cardinality(0 .. g - 1) = IF 0 > g - 1 THEN 0 ELSE (g - 1) - 0 + 1
    BY FS_Interval
  <2> QED
    BY <2>1, FS_Interval
<1> DEFINE f == [k \in 0 .. g - 1 |-> Fwd(hw, k)]
<1>2. f \in Surjection(0 .. g - 1, Span(hw, g))
  BY DEF Span, Surjection
<1>3. IsFiniteSet(Span(hw, g)) /\ Cardinality(Span(hw, g)) <= g
  BY <1>1, <1>2, FS_Surjection
<1>4. IsFiniteSet(S) /\ Cardinality(S) <= Cardinality(Span(hw, g))
  BY <1>3, FS_Subset
<1> QED
  BY <1>1, <1>3, <1>4, FS_CardinalityType

(* From where the board is, the property: before a frame there are only    *)
(* frames, and in the gap at most AHEAD idle ones, all of them the         *)
(* board's.                                                                *)
LEMMA InTurn ==
  ASSUME RingInv, Fine => Onward \/ InGap
  PROVE  SentInTurn
<1> SUFFICES ASSUME Fine, NEW s \in Frames \cap owned
             PROVE  /\ Span(hw, (s - hw) % DRING_SIZE) \subseteq owned
                    /\ Cardinality(Span(hw, (s - hw) % DRING_SIZE) \ Frames) <= AHEAD
  BY DEF SentInTurn, Fine
<1>1. /\ head \in Slots /\ hw \in Slots /\ count \in Nat /\ DRING_SIZE \in Nat /\ AHEAD \in Nat
      /\ Frames = {f \in Slots : Ahead(head, f) < count} /\ s \in Slots
      /\ count + AHEAD < DRING_SIZE
  BY Counts, Sizes DEF Frames, Holding
<1>2. Onward \/ InGap
  OBVIOUS
<1>3. PICK d \in Nat : d = Ahead(hw, s) /\ d < DRING_SIZE /\ (s - hw) % DRING_SIZE = d
  BY <1>1, AheadIs
<1> SUFFICES Span(hw, d) \subseteq owned /\ Cardinality(Span(hw, d) \ Frames) <= AHEAD
  BY <1>3, Zenon
<1>4. Span(hw, d) = {r \in Slots : Ahead(hw, r) < d}
  BY <1>1, <1>3, InSpan
<1>5. PICK i \in Nat : i = Ahead(head, s) /\ i < count
  BY <1>1, AheadIs
<1>6. ASSUME NEW r \in Slots
      PROVE  Ahead(hw, r) \in Nat /\ Ahead(hw, r) < DRING_SIZE /\ Ahead(head, r) \in Nat
  BY <1>1, AheadIs
<1>7. CASE Onward
  <2>1. PICK p \in Nat : p = Past /\ p \in 0 .. DRING_SIZE - 1 /\ Fwd(head, p) = hw
    BY <1>1, AheadIs DEF Past
  <2>2. ASSUME NEW r \in Slots
        PROVE  Ahead(hw, r) = IF Ahead(head, r) >= p THEN Ahead(head, r) - p
                              ELSE Ahead(head, r) - p + DRING_SIZE
    BY <1>1, <2>1, AheadTwice
  <2>3. i >= p
    <3>1. ~ (Ahead(head, s) < Past)
      BY <1>1, <1>7 DEF Onward
    <3> QED
      BY <1>5, <2>1, <3>1
  <2>4. d = i - p
    BY <1>1, <1>3, <1>5, <2>2, <2>3
  <2>5. ASSUME NEW r \in Slots, Ahead(hw, r) < d
        PROVE  r \in owned /\ r \in Frames
    <3>1. PICK a \in Nat, e \in Nat : a = Ahead(hw, r) /\ e = Ahead(head, r)
      BY <1>6
    <3>2. a = (IF e >= p THEN e - p ELSE e - p + DRING_SIZE) /\ a < i - p
      BY <2>2, <2>4, <2>5, <3>1
    <3>3. p <= e /\ e < count
      BY <1>1, <1>5, <3>2
    <3> QED
      BY <1>1, <1>7, <2>1, <3>1, <3>3 DEF Onward
  <2>6. Span(hw, d) \subseteq owned /\ Span(hw, d) \ Frames = {}
    BY <1>4, <2>5
  <2>7. Cardinality(Span(hw, d) \ Frames) = 0
    BY <2>6, FS_EmptySet
  <2> QED
    BY <1>1, <2>6, <2>7
<1>8. CASE InGap
  <2>1. PICK c \in Nat : c = Before /\ c \in 0 .. DRING_SIZE - 1 /\ c \in 0 .. DRING_SIZE
                         /\ Fwd(hw, c) = head
    BY <1>1, AheadIs DEF Before
  <2>2. c <= AHEAD /\ \A r \in Slots : Ahead(hw, r) < c + count => r \in owned
    BY <1>8, <2>1 DEF InGap
  <2>3. ASSUME NEW r \in Slots
        PROVE  Ahead(head, r) = IF Ahead(hw, r) >= c THEN Ahead(hw, r) - c
                                ELSE Ahead(hw, r) - c + DRING_SIZE
    BY <1>1, <2>1, AheadTwice
  <2>4. i = IF d >= c THEN d - c ELSE d - c + DRING_SIZE
    BY <1>1, <1>3, <1>5, <2>3
  <2>5. d < c + count
    BY <1>1, <1>3, <1>5, <2>2, <2>4
  <2>6. ASSUME NEW r \in Slots, Ahead(hw, r) < d
        PROVE  r \in owned /\ (r \in Frames \/ Ahead(hw, r) < c)
    <3>1. PICK a \in Nat, e \in Nat : a = Ahead(hw, r) /\ e = Ahead(head, r)
      BY <1>6
    <3>2. e = (IF a >= c THEN a - c ELSE a - c + DRING_SIZE) /\ a < c + count
      BY <1>1, <2>3, <2>5, <2>6, <3>1
    <3>3. a < c \/ e < count
      BY <1>1, <3>2
    <3> QED
      BY <1>1, <2>2, <3>1, <3>2, <3>3
  <2>7. Span(hw, c) = {r \in Slots : Ahead(hw, r) < c}
    BY <1>1, <2>1, InSpan
  <2>8. Span(hw, d) \subseteq owned /\ Span(hw, d) \ Frames \subseteq Span(hw, c)
    BY <1>4, <2>6, <2>7
  <2>9. PICK n \in Nat : n = Cardinality(Span(hw, d) \ Frames) /\ n <= c
    BY <1>1, <2>1, <2>8, GapBefore, FS_CardinalityType
  <2> QED
    BY <1>1, <2>2, <2>8, <2>9
<1> QED
  BY <1>2, <1>7, <1>8

-----------------------------------------------------------------------------
(* An HX8 board has no idle frames: what it owns are the frames that it    *)
(* has not sent, and it runs as long as there is one.                      *)
HX8Inv ==
  mode = "HX8" =>
    /\ Past <= count
    /\ \A s \in Slots : s \in owned <=> Past <= Ahead(head, s) /\ Ahead(head, s) < count
    /\ board = "run" => hw \in owned
    /\ board = "suspended" => hw \notin owned

(* At first it owns nothing. *)
LEMMA HX8AtFirst == Init => HX8Inv
<1> SUFFICES ASSUME Init PROVE HX8Inv
  OBVIOUS
<1>1. head = 0 /\ hw = 0 /\ count = 0 /\ owned = {} /\ board = "stopped" /\ 0 \in Slots
  BY Sizes DEF Init
<1>2. Past = 0
  BY <1>1, AheadHere DEF Past
<1>3. \A s \in Slots : Ahead(0, s) \in Nat
  BY <1>1, AheadIs
<1> QED
  BY <1>1, <1>2, <1>3 DEF HX8Inv

(* Steps that leave the ring and the board alone. *)
LEMMA HX8Still ==
  ASSUME HX8Inv, UNCHANGED <<mode, owned, head, count, hw>>, board' \in {board, "stopped"}
  PROVE  HX8Inv'
BY DEF HX8Inv, Past

(* The rings are set up while the board is stopped. *)
LEMMA HX8Setup ==
  ASSUME RingInv, SetupDescriptors, board' = "stopped", mode' = mode
  PROVE  HX8Inv'
<1> SUFFICES ASSUME mode' = "HX8" PROVE HX8Inv'
  BY DEF HX8Inv
<1>1. head' = 0 /\ hw' = 0 /\ count' = latency /\ owned' = Span(0, latency) /\ 0 \in Slots
  BY Sizes DEF SetupDescriptors
<1>2. latency \in Nat /\ latency \in 0 .. DRING_SIZE
  BY Counts, Sizes
<1>3. Past' = 0
  BY <1>1, AheadHere DEF Past
<1>4. \A s \in Slots : Ahead(0, s) \in Nat
  BY <1>1, AheadIs
<1>5. Span(0, latency) = {s \in Slots : Ahead(0, s) < latency}
  BY <1>1, <1>2, InSpan
<1> QED
  BY <1>1, <1>2, <1>3, <1>4, <1>5 DEF HX8Inv

(* The board starts at the first of the frames, and there is one. *)
LEMMA HX8Go ==
  ASSUME RingInv, HX8Inv, Latency >= 1, work_go \/ driver_go
  PROVE  HX8Inv'
<1> SUFFICES ASSUME mode' = "HX8" PROVE HX8Inv'
  BY DEF HX8Inv
<1>1. UNCHANGED <<mode, owned, head, count, hw>> /\ board' = "run"
  BY DEF work_go, driver_go, ring, StartProcessing
<1>2. hw = head /\ count = latency /\ head \in Slots /\ latency >= 1
  <2>1. "go" \in {pc["work"], pc["driver"]}
    BY DEF work_go, driver_go, At
  <2>2. hw = head /\ count = latency
    BY <2>1 DEF RingInv, Fresh
  <2> QED
    BY <2>2, Counts, Sizes
<1>3. Past = 0 /\ Ahead(head, hw) = 0
  BY <1>2, AheadHere DEF Past
<1>4. hw \in owned
  BY <1>1, <1>2, <1>3, Counts DEF HX8Inv
<1> QED
  BY <1>1, <1>4 DEF HX8Inv, Past

(* The board sends a frame, and there is a next one or it waits. *)
LEMMA HX8SendFrame ==
  ASSUME RingInv, HX8Inv, Latency >= 1, send_frame
  PROVE  HX8Inv' /\ (mode = "HX8" => Past' = Past + 1 /\ Past + 1 <= count)
<1> SUFFICES ASSUME mode = "HX8" PROVE HX8Inv' /\ Past' = Past + 1 /\ Past + 1 <= count
  BY DEF HX8Inv, send_frame
<1>1. /\ board = "run" /\ hw' = Fwd(hw, 1) /\ owned' = owned \ {hw}
      /\ UNCHANGED <<mode, head, count>>
      /\ board' = IF hw' \in owned' THEN "run" ELSE "suspended"
  BY DEF send_frame
<1>2. /\ head \in Slots /\ hw \in Slots /\ count \in Nat /\ DRING_SIZE \in Nat
      /\ count < DRING_SIZE /\ DRING_SIZE >= 2
  BY Counts, Sizes
<1>3. PICK p \in Nat : p = Past /\ Ahead(head, hw) = p /\ p < DRING_SIZE
  BY <1>2, AheadIs DEF Past
<1>4. p < count /\ \A s \in Slots : s \in owned <=> p <= Ahead(head, s) /\ Ahead(head, s) < count
  BY <1>1, <1>2, <1>3 DEF HX8Inv
<1>5. Past' = p + 1 /\ p + 1 <= count
  <2>1. Ahead(head, Fwd(hw, 1)) = IF p + 1 < DRING_SIZE THEN p + 1 ELSE 0
    BY <1>2, <1>3, OneOn
  <2>2. p + 1 <= count /\ p + 1 < DRING_SIZE
    BY <1>2, <1>4
  <2> QED
    BY <1>1, <2>1, <2>2 DEF Past
<1>6. ASSUME NEW s \in Slots
      PROVE  s \in owned' <=> p + 1 <= Ahead(head, s) /\ Ahead(head, s) < count
  <2>1. Ahead(head, s) \in Nat /\ Fwd(head, Ahead(head, s)) = s /\ Fwd(head, p) = hw
    BY <1>2, <1>3, AheadIs
  <2>2. s = hw <=> Ahead(head, s) = p
    BY <1>3, <2>1
  <2> QED
    BY <1>1, <1>4, <2>1, <2>2
<1>7. HX8Inv'
  BY <1>1, <1>5, <1>6 DEF HX8Inv
<1> QED
  BY <1>3, <1>5, <1>7

(* The frames that were sent are taken off, up to where the board is. *)
LEMMA HX8Collect ==
  ASSUME RingInv, HX8Inv, isr_collect
  PROVE  /\ HX8Inv'
         /\ mode = "HX8" => /\ Past' = 0 /\ sent' = sent /\ isr' = "send"
                            /\ hand' = BATCH \/ count' + hand' = latency
<1> SUFFICES ASSUME mode = "HX8"
             PROVE  /\ HX8Inv' /\ Past' = 0 /\ sent' = sent /\ isr' = "send"
                    /\ hand' = BATCH \/ count' + hand' = latency
  BY DEF HX8Inv, isr_collect
<1>0. PICK k, b, o, h, r :
           /\ Collected(k, b, o, h, r)
           /\ InTime(k, o, h) \/ LastFrame(k, o, h) \/ NoFrame(k, o, h, r)
  BY CollectCases
<1>1. /\ count' = count - k /\ isr = "collect" /\ h = Fwd(head, k)
      /\ UNCHANGED <<mode, hw, board, sent>> /\ o = owned
  BY <1>0 DEF Collected
<1>2. /\ owned' = owned /\ head' = h
      /\ \E lag \in {0, 1} : Take(complete + k, lag)
  BY <1>0, <1>1 DEF InTime, LastFrame, NoFrame
<1>3. /\ k \in 0 .. count
      /\ \A s \in Slots : Ahead(head, s) < k => s \notin owned
      /\ k < count => Fwd(head, k) \in owned
  BY <1>0, <1>1, TakenOff DEF Collected
<1>4. /\ head \in Slots /\ hw \in Slots /\ count \in Nat /\ DRING_SIZE \in Nat
      /\ count < DRING_SIZE /\ k \in Nat /\ k <= count /\ k \in 0 .. DRING_SIZE - 1
      /\ complete \in Nat /\ latency \in Nat /\ count + complete = latency
  <2>1. hand = 0
    BY <1>1 DEF RingInv, InHand
  <2>2. count \in Nat /\ complete \in Nat /\ count + complete + hand = latency
    BY <1>1, Counts
  <2> QED
    BY <1>3, <2>1, <2>2, Counts, Sizes
<1>5. PICK p \in Nat : p = Past /\ Ahead(head, hw) = p /\ p < DRING_SIZE /\ Fwd(head, p) = hw
  BY <1>4, AheadIs DEF Past
<1>6. p <= count /\ \A s \in Slots : s \in owned <=> p <= Ahead(head, s) /\ Ahead(head, s) < count
  BY <1>5 DEF HX8Inv
<1>7. k = p
  <2>1. k <= p
    BY <1>3, <1>4, <1>5, <1>6
  <2>2. k < count => p <= k
    <3>1. Fwd(head, k) \in Slots /\ Ahead(head, Fwd(head, k)) = k
      BY <1>4, FwdIs, AheadOfFwd, Sizes
    <3> QED
      BY <1>3, <1>6, <3>1
  <2> QED
    BY <1>4, <1>6, <2>1, <2>2
<1>8. head' = hw /\ Past' = 0
  <2>1. head' = hw
    BY <1>1, <1>2, <1>5, <1>7
  <2> QED
    BY <1>1, <1>4, <2>1, AheadHere DEF Past
<1>9. ASSUME NEW s \in Slots
      PROVE  s \in owned' <=> 0 <= Ahead(head', s) /\ Ahead(head', s) < count'
  <2>1. PICK a \in Nat, e \in Nat : a = Ahead(hw, s) /\ e = Ahead(head, s)
    BY <1>4, AheadIs
  <2>2. a = (IF e >= p THEN e - p ELSE e - p + DRING_SIZE) /\ e < DRING_SIZE
    <3>1. p \in 0 .. DRING_SIZE - 1
      BY <1>4, <1>5
    <3>2. Ahead(head, s) < DRING_SIZE
      BY <1>4, AheadIs
    <3> QED
      BY <1>4, <1>5, <2>1, <3>1, <3>2, AheadTwice
  <2>3. p <= e /\ e < count <=> a < count - p
    BY <1>4, <1>5, <1>6, <2>2
  <2> QED
    BY <1>1, <1>2, <1>6, <1>7, <1>8, <2>1, <2>3
<1>10. HX8Inv'
  <2>1. Past' <= count'
    BY <1>1, <1>4, <1>8
  <2>2. \A s \in Slots : s \in owned' <=> Past' <= Ahead(head', s) /\ Ahead(head', s) < count'
    BY <1>8, <1>9
  <2> QED
    BY <1>1, <1>2, <2>1, <2>2 DEF HX8Inv
<1>11. hand' = BATCH \/ count' + hand' = latency
  <2>1. hand' = Least(complete + k, BATCH)
    BY <1>2 DEF Take
  <2>2. hand' = BATCH \/ hand' = complete + k
    BY <2>1 DEF Least
  <2>3. (count - k) + (complete + k) = latency
    BY <1>4
  <2> QED
    BY <1>1, <2>2, <2>3
<1>12. isr' = "send"
  BY <1>2 DEF Take
<1> QED
  BY <1>1, <1>8, <1>10, <1>11, <1>12

(* The frames in hand are put behind the others, and a board that waits    *)
(* for one is told.                                                        *)
LEMMA HX8Send ==
  ASSUME RingInv, HX8Inv, isr_send
  PROVE  /\ HX8Inv'
         /\ mode = "HX8" => /\ Past' = Past /\ sent' = sent /\ isr' = "receive"
                            /\ \E n \in Nat : count' = count + n /\ n >= hand
<1> SUFFICES ASSUME mode = "HX8"
             PROVE  /\ HX8Inv' /\ Past' = Past /\ sent' = sent /\ isr' = "receive"
                    /\ \E n \in Nat : count' = count + n /\ n >= hand
  BY DEF HX8Inv, isr_send
<1>1. PICK n \in Nat :
         /\ SentOff(n) /\ count + n < DRING_SIZE
         /\ head' = head /\ owned' = owned \cup Span(Fwd(head, count), n)
  BY SendCases
<1>2. /\ count' = count + n /\ UNCHANGED <<mode, hw, sent>> /\ isr' = "receive"
      /\ n = hand + Increase(behind)
      /\ board' = IF board = "suspended" /\ hw \in owned' THEN "run" ELSE board
  BY <1>1 DEF SentOff, Poll
<1>3. /\ head \in Slots /\ hw \in Slots /\ count \in Nat /\ DRING_SIZE \in Nat
      /\ count \in 0 .. DRING_SIZE - 1 /\ n \in 0 .. DRING_SIZE
      /\ hand \in Nat /\ Increase(behind) \in Nat /\ Fwd(head, count) \in Slots
  <2>1. count \in 0 .. DRING_SIZE /\ head \in Slots
    BY Counts, Sizes
  <2>2. Fwd(head, count) \in Slots
    BY <2>1, FwdIs
  <2> QED
    BY <1>1, <2>2, Counts, Sizes, IncreaseIs
<1>4. Past' = Past /\ Past \in Nat
  BY <1>1, <1>2, <1>3, AheadIs DEF Past
<1>5. ASSUME NEW s \in Slots
      PROVE  s \in owned' <=> Past <= Ahead(head, s) /\ Ahead(head, s) < count + n
  <2>1. Span(Fwd(head, count), n) = {f \in Slots : Ahead(Fwd(head, count), f) < n}
    BY <1>3, InSpan
  <2>2. PICK a \in Nat, e \in Nat, p \in Nat :
           a = Ahead(Fwd(head, count), s) /\ e = Ahead(head, s) /\ p = Past
    BY <1>3, <1>4, AheadIs
  <2>3. a = (IF e >= count THEN e - count ELSE e - count + DRING_SIZE)
    BY <1>3, <2>2, AheadTwice
  <2>4. p <= count /\ (s \in owned <=> p <= e /\ e < count)
    BY <2>2 DEF HX8Inv
  <2>5. (p <= e /\ e < count) \/ a < n <=> p <= e /\ e < count + n
    BY <1>1, <1>3, <2>3, <2>4
  <2> QED
    BY <1>1, <2>1, <2>2, <2>4, <2>5
<1>6. Past <= count + n
  BY <1>3, <1>4 DEF HX8Inv
<1>7. /\ board' = "run" => hw' \in owned'
      /\ board' = "suspended" => hw' \notin owned'
  BY <1>1, <1>2 DEF HX8Inv
<1>8. HX8Inv'
  BY <1>1, <1>2, <1>4, <1>5, <1>6, <1>7 DEF HX8Inv
<1> QED
  BY <1>2, <1>3, <1>4, <1>8

(* The invariant is inductive. *)
LEMMA HX8Step ==
  ASSUME Latency >= 1, QuietInv, RingInv, HX8Inv, [Next]_vars
  PROVE  HX8Inv'
<1>1. CASE UNCHANGED vars
  BY <1>1, HX8Still DEF vars, ring, line
<1>2. CASE send_frame
  BY <1>2, HX8SendFrame
<1>3. CASE receive_frame
  BY <1>3, HX8Still DEF receive_frame, ring
<1>4. CASE \/ isr_enter \/ isr_underrun \/ isr_underrun_hx8 \/ isr_complete \/ isr_stopped
           \/ isr_receive \/ isr_ack
  BY <1>4, HX8Still DEF isr_enter, isr_underrun, isr_underrun_hx8, isr_complete, isr_stopped,
                        isr_receive, isr_ack, ring, line
<1>5. CASE isr_collect \/ isr_send
  BY <1>5, HX8Collect, HX8Send
<1>6. CASE work_go \/ driver_go
  BY <1>6, HX8Go
<1>7. CASE work_setup \/ driver_setup
  <2>1. board = "stopped"
    BY <1>7 DEF work_setup, driver_setup, At, QuietInv, FindsStopped, stopped
  <2> QED
    BY <1>7, <2>1, HX8Setup DEF work_setup, driver_setup
<1>8. ASSUME NEW t, Stopping(t) PROVE HX8Inv'
  BY <1>8, HX8Still DEF Stopping, stop_begin, stop_halt, stop_end, ring, line
<1>9. CASE work_begin \/ work_mask
  BY <1>9, HX8Still DEF work_begin, work_mask, ShuttingDown, ring, line
<1>10. CASE \/ driver_start \/ driver_stop \/ driver_release \/ driver_cancel \/ driver_free
            \/ driver_gone
  BY <1>10, HX8Still DEF driver_start, driver_stop, driver_release, driver_cancel, driver_free,
                         driver_gone, vars, ring, line
<1> QED
  BY <1>1, <1>2, <1>3, <1>4, <1>5, <1>6, <1>7, <1>8, <1>9, <1>10
     DEF Next, Board, Handler, Work, Driver

(* Every frame goes out once and in its turn: no frame is put behind the   *)
(* board's back, and none waits for more than AHEAD idle ones              *)
(* (vb_tasklet_normal).  The board may send two frames while the routine   *)
(* runs and no more, since with two frames left the routine still takes    *)
(* itself to be in time (count < 2); something has to circulate, and a run *)
(* of the routine has to take something.                                   *)
THEOREM VoiceBusFramesInTurn ==
  Slack <= 2 /\ Latency >= 1 /\ BATCH >= 1 => (Spec => []FramesInTurn)
<1> SUFFICES ASSUME RoutineQuick PROVE Spec => []FramesInTurn
  BY DEF RoutineQuick
<1> DEFINE Inv == ~raced => QuietInv /\ AttendInv /\ RingInv /\ BoardInv /\ HX8Inv
<1>1. Init => Inv
  BY QuietAtFirst, AttendAtFirst, RingAtFirst, BoardAtFirst, HX8AtFirst
<1>2. Inv /\ [Next]_vars => Inv'
  BY RacedStays, QuietStep, AttendStep, RingStep, BoardStep, HX8Step DEF RoutineQuick
<1>3. Inv => FramesInTurn
  <2> SUFFICES ASSUME Inv, ~raced PROVE FramesInTurn
    BY DEF FramesInTurn
  <2>1. FramesCirculate
    BY RingEnough
  <2>2. CASE mode = "NORMAL"
    <3>1. Fine => Onward \/ InGap
      BY <2>2 DEF BoardInv, Among
    <3> QED
      BY <2>1, <3>1, InTurn DEF FramesInTurn
  <2>3. CASE mode = "HX8"
    <3>1. \A s \in Slots : s \in owned <=> Past <= Ahead(head, s) /\ Ahead(head, s) < count
      BY <2>3 DEF HX8Inv
    <3>2. Past \in Nat /\ \A s \in Slots : Ahead(head, s) \in Nat
      BY Counts, AheadIs DEF Past
    <3>3. Onward
      BY <3>1, <3>2 DEF Onward
    <3> QED
      BY <2>1, <3>3, InTurn DEF FramesInTurn
  <2> QED
    BY <2>2, <2>3, ModeIs
<1> HIDE DEF Inv
<1> QED
  BY <1>1, <1>2, <1>3, PTL DEF Spec

(* A board sends fewer frames during a run of the routine than that run    *)
(* puts on the ring.                                                       *)
RoutineSupplies == Slack < Latency /\ Slack < BATCH

(* An HX8 board has a frame left when the routine ends, even if it sends   *)
(* all it can meanwhile.                                                   *)
Stocked ==
  mode = "HX8" =>
    /\ isr = "send" => hand = BATCH \/ count - Past + hand >= Latency - sent
    /\ isr \in {"receive", "ack"} => count - Past >= BATCH - sent \/ count - Past >= Latency - sent

(* It says so when it has none. *)
ToldHX8 ==
  mode = "HX8" /\ ~ResetOwed /\ isr \in {"out", "decide"} /\ board = "suspended"
    => "unavailable" \in csr5

(* Steps that neither take frames from the ring nor end vb_isr. *)
LEMMA StockStill ==
  ASSUME Stocked, ToldHX8, mode' = mode,
         isr' \in {"send", "receive", "ack"} => UNCHANGED <<head, count, hw, sent>>,
         isr' = "send" => isr = "send" /\ hand' = hand,
         isr' \in {"receive", "ack"} => isr \in {"receive", "ack"},
         mode = "HX8" /\ ~ResetOwed' /\ isr' \in {"out", "decide"} /\ board' = "suspended"
           => /\ ~ResetOwed /\ isr \in {"out", "decide"} /\ board = "suspended"
              /\ "unavailable" \in csr5 => "unavailable" \in csr5'
  PROVE  Stocked' /\ ToldHX8'
BY DEF Stocked, ToldHX8, Past

(* Both are inductive: a run that took what was sent and put at least as   *)
(* many frames on the ring leaves one for the board, however many it sends *)
(* meanwhile.                                                              *)
LEMMA StockStep ==
  ASSUME RoutineSupplies, QuietInv, QuietInv', AttendInv, RingInv, HX8Inv, Stocked, ToldHX8,
         [Next]_vars
  PROVE  Stocked' /\ ToldHX8'
<1> SUFFICES ASSUME mode = "HX8", mode' = "HX8" PROVE Stocked' /\ ToldHX8'
  <2>1. mode' = mode
    BY DEF Next, Board, send_frame, receive_frame, Handler, isr_enter, isr_underrun,
           isr_underrun_hx8, isr_complete, isr_stopped, isr_collect, isr_send, isr_receive,
           isr_ack, Work, work_begin, work_mask, ShuttingDown, work_setup, work_go, Driver, driver_start,
           driver_setup, driver_go, driver_stop, driver_release, driver_cancel, driver_free,
           driver_gone, Stopping, stop_begin, stop_halt, stop_end, vars
  <2> QED
    BY <2>1 DEF Stocked, ToldHX8
<1>1. /\ head \in Slots /\ hw \in Slots /\ count \in Nat /\ hand \in Nat /\ Past \in Nat
      /\ BATCH \in Nat /\ Latency \in Nat /\ latency \in Nat /\ Latency <= latency
      /\ sent \in Nat /\ sent <= Slack /\ Slack \in Nat /\ Latency >= 1
  <2>1. head \in Slots /\ hw \in Slots
    BY Counts
  <2>2. Past \in Nat
    BY <2>1, AheadIs DEF Past
  <2>3. sent \in 0 .. Slack
    BY DEF RingInv, RingTypes
  <2> QED
    BY <2>1, <2>2, <2>3, Counts, Sizes DEF RoutineSupplies
<1>2. Past <= count
  BY DEF HX8Inv
<1>3. CASE UNCHANGED vars
  BY <1>3, StockStill DEF vars, ring, frames, line, control, ResetOwed, At
<1>4. CASE send_frame
  <2>1. Past' = Past + 1
    BY <1>1, <1>4, HX8SendFrame
  <2>2. /\ UNCHANGED <<count, hand, isr, pc, pending>>
        /\ sent' = (IF isr = "out" THEN sent ELSE sent + 1)
        /\ board' = "suspended" => "unavailable" \in csr5'
    BY <1>4 DEF send_frame, frames, control, Missing
  <2>3. ToldHX8'
    BY <2>2 DEF ToldHX8
  <2>4. Stocked'
    <3>1. CASE isr \in {"send", "receive", "ack"}
      <4>1. PICK p \in Nat, q \in Nat, c \in Nat, d \in Nat, m \in Nat :
               /\ p = Past /\ q = Past' /\ c = count /\ d = hand /\ m = sent
               /\ q = p + 1 /\ sent' = m + 1
        BY <1>1, <2>1, <2>2, <3>1
      <4>2. /\ c - p + d >= Latency - m => c - q + d >= Latency - (m + 1)
            /\ c - p >= Latency - m => c - q >= Latency - (m + 1)
            /\ c - p >= BATCH - m => c - q >= BATCH - (m + 1)
        BY <1>1, <4>1
      <4>3. /\ isr = "send" => d = BATCH \/ c - p + d >= Latency - m
            /\ isr \in {"receive", "ack"} => c - p >= BATCH - m \/ c - p >= Latency - m
        BY <4>1 DEF Stocked
      <4>4. /\ isr' = "send" => d = BATCH \/ c - q + d >= Latency - (m + 1)
            /\ isr' \in {"receive", "ack"} => c - q >= BATCH - (m + 1) \/ c - q >= Latency - (m + 1)
        BY <2>2, <4>2, <4>3
      <4> QED
        BY <2>2, <4>1, <4>4 DEF Stocked
    <3>2. CASE isr \notin {"send", "receive", "ack"}
      BY <2>2, <3>2 DEF Stocked
    <3> QED
      BY <3>1, <3>2
  <2> QED
    BY <2>3, <2>4
<1>5. CASE receive_frame
  <2>1. /\ UNCHANGED <<mode, head, count, hw, sent, hand, isr, pc, pending, board>>
        /\ csr5 \subseteq csr5'
    BY <1>5 DEF receive_frame, ring, frames, control
  <2> QED
    BY <2>1, StockStill DEF ResetOwed, At
<1>6. CASE isr_enter \/ isr_underrun \/ isr_underrun_hx8 \/ isr_complete
  <2>1. /\ isr' \in {"out", "decide", "collect"} /\ isr \in {"out", "decide"}
        /\ UNCHANGED <<pc, pending, board, csr5>>
    BY <1>6 DEF isr_enter, isr_underrun, isr_underrun_hx8, isr_complete, line, control
  <2> QED
    BY <2>1, StockStill DEF ResetOwed, At
<1>7. CASE isr_stopped
  <2>1. /\ isr' = "out" /\ isr = "decide" /\ csr5' = csr5 \ status
        /\ UNCHANGED <<pc, pending, board>>
        /\ "unavailable" \in status => "STOP" \in flags
    BY <1>7 DEF isr_stopped, Unavailable
  <2>2. ~ResetOwed => "STOP" \notin flags
    BY DEF ResetOwed, At, AttendInv, MayRun, QuietInv, StopMeansStopped
  <2>3. ResetOwed' <=> ResetOwed
    BY <2>1 DEF ResetOwed, At
  <2> QED
    BY <2>1, <2>2, <2>3, StockStill
<1>8. CASE isr_collect
  <2>1. /\ Past' = 0 /\ sent' = sent /\ isr' = "send"
        /\ hand' = BATCH \/ count' + hand' = latency
    BY <1>8, HX8Collect
  <2>2. latency - 0 >= Latency - sent
    BY <1>1
  <2>3. count' - 0 + hand' >= Latency - sent \/ hand' = BATCH
    <3>1. HX8Inv' /\ RingInv'
      BY <1>8, HX8Collect, RingCollect
    <3>2. count' \in 0 .. MaxLatency /\ hand' \in Nat
      BY <3>1 DEF RingInv, RingTypes
    <3> QED
      BY <2>1, <2>2, <3>2, Sizes
  <2> QED
    BY <2>1, <2>3 DEF Stocked, ToldHX8
<1>9. CASE isr_send
  <2>1. /\ Past' = Past /\ sent' = sent /\ isr' = "receive"
        /\ \E n \in Nat : count' = count + n /\ n >= hand
    BY <1>9, HX8Send
  <2>2. PICK n \in Nat : count' = count + n /\ n >= hand
    BY <2>1
  <2>3. hand = BATCH \/ count - Past + hand >= Latency - sent
    BY <1>9 DEF isr_send, Stocked
  <2>4. PICK p \in Nat, c \in Nat, d \in Nat, m \in Nat :
           p = Past /\ c = count /\ d = hand /\ m = sent
    BY <1>1
  <2>5. (c + n) - p >= BATCH - m \/ (c + n) - p >= Latency - m
    <3>1. p <= c /\ n >= d /\ (d = BATCH \/ c - p + d >= Latency - m)
      BY <1>2, <2>2, <2>3, <2>4
    <3> QED
      BY <1>1, <3>1
  <2> QED
    BY <2>1, <2>2, <2>4, <2>5 DEF Stocked, ToldHX8
<1>10. CASE isr_receive
  <2>1. isr' = "ack" /\ isr = "receive" /\ UNCHANGED <<head, count, hw, sent>>
    BY <1>10 DEF isr_receive, ring
  <2> QED
    BY <2>1, StockStill
<1>11. CASE isr_ack
  <2>1. /\ isr' = "out" /\ isr = "ack" /\ board' = board
    BY <1>11 DEF isr_ack
  <2>2. board # "suspended"
    <3>1. count - Past >= BATCH - sent \/ count - Past >= Latency - sent
      BY <2>1 DEF Stocked
    <3>2. Past < count
      BY <1>1, <1>2, <3>1, Sizes DEF RoutineSupplies
    <3>3. Past = Ahead(head, hw)
      BY DEF Past
    <3>4. hw \in owned
      BY <1>1, <1>2, <3>2, <3>3 DEF HX8Inv
    <3> QED
      BY <3>4 DEF HX8Inv
  <2> QED
    BY <2>1, <2>2 DEF Stocked, ToldHX8
<1>12. ASSUME isr' = "out", ~ResetOwed' => board' = "run" PROVE Stocked' /\ ToldHX8'
  BY <1>12 DEF Stocked, ToldHX8
<1>13. CASE work_go \/ driver_go
  <2>1. isr' = "out" /\ board' = "run"
    BY <1>13 DEF work_go, driver_go, StartProcessing, At, QuietInv, HandlerKeptOut
  <2> QED
    BY <1>12, <2>1
<1>14. CASE work_setup \/ driver_setup
  <2>1. isr' = "out" /\ ResetOwed'
    BY <1>14, OwedWork, OwedDriver DEF work_setup, driver_setup, HandlerOut
  <2> QED
    BY <1>12, <2>1
<1>15. ASSUME ResetOwed', UNCHANGED <<mode, head, count, hw, sent, isr, hand>> PROVE Stocked' /\ ToldHX8'
  BY <1>15, StockStill
<1>16. ASSUME NEW t \in Threads, Stopping(t) PROVE Stocked' /\ ToldHX8'
  <2>1. ResetOwed'
    BY <1>16, OwedStopping
  <2> QED
    BY <1>15, <1>16, <2>1 DEF Stopping, stop_begin, stop_halt, stop_end, ring, frames, line
<1>17. CASE work_begin \/ work_mask
  <2>1. ResetOwed'
    BY <1>17, OwedWork
  <2> QED
    BY <1>15, <1>17, <2>1 DEF work_begin, work_mask, ShuttingDown, ring, frames, line
<1>18. CASE driver_start \/ driver_stop \/ driver_release \/ driver_cancel \/ driver_free
  <2>1. ResetOwed'
    BY <1>18, OwedDriver
  <2> QED
    BY <1>15, <1>18, <2>1
       DEF driver_start, driver_stop, driver_release, driver_cancel, driver_free, ring, frames, line
<1>19. CASE driver_gone
  BY <1>3, <1>19 DEF driver_gone
<1> QED
  BY <1>3, <1>4, <1>5, <1>6, <1>7, <1>8, <1>9, <1>10, <1>11, <1>13, <1>14, <1>16, <1>17, <1>18,
     <1>19 DEF Next, Board, Handler, Work, Driver, Threads

(* A board of either kind that waits for a frame has told so and may       *)
(* interrupt, or the work that restarts it is on its way (vb_isr,          *)
(* handle_hardunderrun).  vb_isr acknowledges an underrun of an HX8 board  *)
(* after the routine; it is not lost as long as the board sends fewer      *)
(* frames during a run than circulate and than the run takes.              *)
THEOREM VoiceBusAttendedAll ==
  Slack < Latency /\ Slack < BATCH => (Spec => []Attended)
<1> SUFFICES ASSUME RoutineSupplies PROVE Spec => []Attended
  BY DEF RoutineSupplies
<1> DEFINE Inv == ~raced => QuietInv /\ AttendInv /\ RingInv /\ HX8Inv /\ Stocked /\ ToldHX8
<1>1. Init => Inv
  BY QuietAtFirst, AttendAtFirst, RingAtFirst, HX8AtFirst DEF Init, Stocked, ToldHX8
<1>2. Latency >= 1
  BY Sizes DEF RoutineSupplies
<1>3. Inv /\ [Next]_vars => Inv'
  BY <1>2, RacedStays, QuietStep, AttendStep, RingStep, HX8Step, StockStep
<1>4. Inv => Attended
  BY ModeIs DEF QuietInv, StopMeansStopped, AttendInv, MayRun, MayInterrupt, Told, ResetOwed, At,
         Attended, ToldHX8
<1> HIDE DEF Inv
<1> QED
  BY <1>1, <1>3, <1>4, PTL DEF Spec
=============================================================================
