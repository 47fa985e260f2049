------------------------------- MODULE RxRing -------------------------------
(***************************************************************************)
(* The read buffers of one DAHDI channel (dahdi-base.c): a ring of numbufs *)
(* blocks that the span's interrupt fills from the line and processes take *)
(* out with read().                                                        *)
(*                                                                         *)
(* inreadbuf is the block being received, -1 when all are full; outreadbuf *)
(* is the oldest complete block, -1 when there is none.  read() picks and  *)
(* releases a block under chan->lock but copies it without the lock; the   *)
(* interrupt holds the lock for a whole chunk, here while bytes > 0.  A    *)
(* chunk is taken byte by byte: the memcpy of a transparent channel and    *)
(* the loop of an HDLC one differ in nothing that can be seen meanwhile.   *)
(*                                                                         *)
(* A transparent channel ends a message after blocksize bytes, an HDLC     *)
(* channel where the deframer does; an MTP2 channel leaves out a message   *)
(* that repeats the previous one.                                          *)
(***************************************************************************)
EXTENDS Integers, Sequences

CONSTANTS
  Threads,        \* the threads that share the open file
  Bytes,          \* the values of a byte
  Zero,           \* the value kzalloc leaves in a new buffer
  MaxLen,         \* blocksize
  CHUNKSIZE,      \* DAHDI_CHUNKSIZE
  MAX_NUM_BUFS,   \* DAHDI_MAX_NUM_BUFS
  DEFAULT_NUM_BUFS,
  Requests,       \* the numbers of buffers SET_BUFINFO may ask for
  HDLCs,          \* whether DAHDI_FLAG_HDLC is set: the configurations
  MTP2s,          \* whether DAHDI_FLAG_MTP2 is set: the configurations
  Frames,         \* the byte strings that the frame check sequence accepts
  BUFEVENTS,      \* whether DAHDI_FLAG_BUFEVENTS is set
  Ops             \* the ioctls threads issue besides read()

ASSUME BufferAssumption ==
  /\ MAX_NUM_BUFS \in 2 .. 32
  /\ DEFAULT_NUM_BUFS \in 2 .. MAX_NUM_BUFS
  /\ Requests \subseteq Nat
  /\ MaxLen \in Nat /\ MaxLen >= 1
  /\ CHUNKSIZE \in Nat /\ CHUNKSIZE >= 1
  /\ Zero \in Bytes
ASSUME FlagAssumption ==
  /\ HDLCs \subseteq BOOLEAN /\ MTP2s \subseteq BOOLEAN /\ BUFEVENTS \in BOOLEAN
  /\ Ops \subseteq {"flush", "hangup", "bufinfo", "close"}

VARIABLES
  numbufs, allocated, inreadbuf, outreadbuf,
  readbuf,      \* slot -> its blocksize bytes
  readn,        \* slot -> bytes of the complete message in it
  readidx,      \* slot -> bytes received into it so far
  bytes,        \* bytes of the chunk the interrupt still has to store
  rxoverrun,    \* DAHDI_FLAG_RXOVERRUN
  hdlc, mtp2,   \* DAHDI_FLAG_HDLC, DAHDI_FLAG_MTP2, as the channel was configured
  event,        \* whether an event waits to be fetched
  pc,           \* thread -> where it is
  res,          \* thread -> the slot it picked, or the buffers it asked for
  got,          \* thread -> what it copied
  answer,       \* history: what the last read() returned
  lastmsg,      \* history: the message completed last
  lost,         \* history: a message unlike its predecessor was left out
  discarded     \* history: flips whenever messages are discarded

ring    == <<numbufs, allocated, inreadbuf, outreadbuf, readbuf, readn, readidx>>
irq     == <<bytes, rxoverrun>>
threads == <<pc, res, got>>
flags   == <<hdlc, mtp2>>
msgs    == <<lastmsg, lost>>
vars    == <<ring, flags, irq, event, threads, answer, msgs, discarded>>

Slots == 0 .. MAX_NUM_BUFS - 1
Zeroes == [s \in Slots |-> 0]
Blank == [i \in 1 .. MaxLen |-> Zero]
LockFree == bytes = 0
Places == {"idle", "retry", "check", "asleep", "copy", "commit", "realloc"}
Least(a, b) == IF a < b THEN a ELSE b

(* A variant with a plausible slip: the wake-up "optimized out". *)
NoWake == pc

(* wake_up_interruptible(&chan->waitq): a sleeper goes back to its test. *)
Wake == [t \in Threads |-> IF pc[t] = "asleep" THEN "check" ELSE pc[t]]

(* dahdi_reallocbufs: "Check numbufs". *)
Clamp(n) == IF n < 2 THEN 2 ELSE IF n > MAX_NUM_BUFS THEN MAX_NUM_BUFS ELSE n

(* A variant with a plausible slip: the index wraps one slot too late. *)
NextSlotLate(s) == (s + 1) % (numbufs + 1)

NextSlot(s) == (s + 1) % numbufs

(* A variant with a plausible slip: the receiver catches up unnoticed. *)
NeverFull(next) == FALSE

(* __putbuf_chunk: "we're full, and have no where else to store into". *)
FillsRing(next) == next = outreadbuf

(* A variant with a plausible slip: the last message is not noticed. *)
NeverEmpty(next) == FALSE

(* dahdi_chan_read: "Out of stuff". *)
EmptiesRing(next) == next = inreadbuf

(* A variant with a plausible slip: the interrupt handler is not told. *)
NoSlotToFill(done) == inreadbuf

(* dahdi_chan_read: "Notify interrupt handler that we have some space now". *)
SlotToFill(done) == IF inreadbuf < 0 THEN done ELSE inreadbuf

Bit(a, k) == (a \div 2 ^ k) % 2
And(a, b) == Bit(a, 0) * Bit(b, 0) + 2 * Bit(a, 1) * Bit(b, 1) + 4 * Bit(a, 2) * Bit(b, 2)
             + 8 * Bit(a, 3) * Bit(b, 3) + 16 * Bit(a, 4) * Bit(b, 4)

(* A variant with a plausible slip: the slot itself, not the one before. *)
SameSlot(s) == And(s, numbufs - 1)

(* __putbuf_chunk: (inreadbuf - 1) & (numbufs - 1), in two's complement. *)
PreviousSlot(s) == IF s = 0 THEN numbufs - 1 ELSE And(s - 1, numbufs - 1)

-----------------------------------------------------------------------------
(* read() *)

(* The locked test at the head of the loop: -ELAST when an event waits,    *)
(* else the slot, else -EAGAIN for O_NONBLOCK or the wait.                 *)
pick(t) ==
  /\ pc[t] \in {"idle", "retry"} /\ allocated /\ LockFree
  /\ \/ event /\ pc' = [pc EXCEPT ![t] = "idle"] /\ UNCHANGED res
     \/ ~event /\ outreadbuf >= 0
        /\ pc' = [pc EXCEPT ![t] = "copy"] /\ res' = [res EXCEPT ![t] = outreadbuf]
     \/ ~event /\ outreadbuf < 0
        /\ \E next \in {"idle", "check"} : pc' = [pc EXCEPT ![t] = next]
        /\ UNCHANGED res
  /\ UNCHANGED <<flags, ring, irq, event, got, answer, msgs, discarded>>

(* wait_event_interruptible tests the condition after it queued itself. *)
check(t) ==
  /\ pc[t] = "check"
  /\ pc' = [pc EXCEPT ![t] = IF outreadbuf > -1 THEN "retry" ELSE "asleep"]
  /\ UNCHANGED <<flags, ring, irq, event, res, got, answer, msgs, discarded>>

(* A signal ends the sleep. *)
interrupted(t) ==
  /\ pc[t] = "asleep"
  /\ pc' = [pc EXCEPT ![t] = "idle"]
  /\ UNCHANGED <<flags, ring, irq, event, res, got, answer, msgs, discarded>>

(* copy_to_user without the lock, at most count bytes; or -EFAULT. *)
copy(t) ==
  /\ pc[t] = "copy"
  /\ \/ \E count \in 1 .. MaxLen :
          /\ got' = [got EXCEPT ![t] = SubSeq(readbuf[res[t]], 1, Least(count, readn[res[t]]))]
          /\ pc' = [pc EXCEPT ![t] = "commit"]
     \/ pc' = [pc EXCEPT ![t] = "idle"] /\ UNCHANGED got
  /\ UNCHANGED <<flags, ring, irq, event, res, answer, msgs, discarded>>

(* The locked tail: give the slot back to the receiver. *)
commit(t) ==
  LET next == NextSlot(res[t])
  IN
  /\ pc[t] = "commit" /\ LockFree
  /\ readidx' = [readidx EXCEPT ![res[t]] = 0]
  /\ readn' = [readn EXCEPT ![res[t]] = 0]
  /\ outreadbuf' = IF EmptiesRing(next) THEN -1 ELSE next
  /\ inreadbuf' = SlotToFill(res[t])
  /\ answer' = got[t]
  /\ got' = [got EXCEPT ![t] = <<>>]
  /\ pc' = [pc EXCEPT ![t] = "idle"]
  /\ UNCHANGED <<flags, numbufs, allocated, readbuf, irq, event, res, msgs, discarded>>

-----------------------------------------------------------------------------
(* The span's interrupt: __putbuf_chunk, one byte per step, chan->lock     *)
(* held from the first to the last.                                        *)

rx_start ==
  /\ LockFree
  /\ bytes' = CHUNKSIZE
  /\ UNCHANGED <<flags, ring, rxoverrun, event, threads, answer, msgs, discarded>>

(* left: whether the slot that receives has room for a byte. *)
Left == Least(MaxLen - readidx[inreadbuf], 1)

(* A pass of the loop that found a buffer: n bytes fewer of the chunk. *)
Consume(n) ==
  /\ bytes > 0 /\ inreadbuf > -1
  /\ bytes' = bytes - n
  /\ rxoverrun' = (rxoverrun /\ bytes' > 0)
  /\ UNCHANGED <<flags, numbufs, allocated, res, got, answer, discarded>>

(* The same for an HDLC channel; in a slot that is full (which only racing *)
(* readers hand back) its inner loop takes nothing and the outer one spins.*)
ConsumeHdlc == hdlc /\ Consume(1) /\ Left = 1

(* "Our messages are the same, so discard". *)
Repeats(data, len) ==
  mtp2 /\ \A i \in 1 .. len : readbuf[PreviousSlot(inreadbuf)][i] = data[i]

(* eof: the first len bytes of data, now in inreadbuf, are a message. *)
Finish(data, len) ==
  LET in      == inreadbuf
      next    == NextSlot(in)
      message == SubSeq(data, 1, len)
  IN
  /\ lastmsg' = message
  /\ IF Repeats(data, len)
     THEN /\ readn' = [readn EXCEPT ![in] = 0]
          /\ readidx' = [readidx EXCEPT ![in] = 0]
          /\ lost' = (lost \/ message # lastmsg)
          /\ UNCHANGED <<inreadbuf, outreadbuf, pc>>
     ELSE /\ readn' = [readn EXCEPT ![in] = len]
          /\ readidx' = [readidx EXCEPT ![in] = len]
          /\ inreadbuf' = IF FillsRing(next) THEN -1 ELSE next
          /\ outreadbuf' = IF outreadbuf < 0 THEN in ELSE outreadbuf
          /\ pc' = Wake
          /\ UNCHANGED lost

(* abort: "Start over reading frame" and, with the channel open and its    *)
(* span free of alarms, raise an event, which wakes the sleepers.          *)
Abort ==
  /\ readidx' = [readidx EXCEPT ![inreadbuf] = 0]
  /\ \E notify \in BOOLEAN :
       /\ event' = (event \/ notify)
       /\ pc' = IF notify THEN Wake ELSE pc
  /\ UNCHANGED <<inreadbuf, outreadbuf, readn, msgs>>

(* A data byte; the blocksize-th ends a transparent message and overruns   *)
(* an HDLC frame.  Into a slot that is already full a transparent channel  *)
(* copies nothing, and ends the message again.                             *)
rx_data(byte) ==
  LET in   == inreadbuf
      idx  == readidx[in] + Left
      data == IF Left = 1 THEN [readbuf[in] EXCEPT ![idx] = byte] ELSE readbuf[in]
  IN
  /\ Consume(Left)
  /\ readbuf' = [readbuf EXCEPT ![in] = data]
  /\ \/ /\ idx < MaxLen
        /\ readidx' = [readidx EXCEPT ![in] = idx]
        /\ UNCHANGED <<inreadbuf, outreadbuf, readn, event, pc, msgs>>
     \/ idx >= MaxLen /\ ~hdlc /\ Finish(data, idx) /\ UNCHANGED event
     \/ idx >= MaxLen /\ hdlc /\ Left = 1 /\ Abort

(* A byte that ends an HDLC frame: a good FCS completes the message.       *)
rx_frame_end ==
  /\ ConsumeHdlc
  /\ readidx[inreadbuf] > 0
  /\ SubSeq(readbuf[inreadbuf], 1, readidx[inreadbuf]) \in Frames
  /\ Finish(readbuf[inreadbuf], readidx[inreadbuf])
  /\ UNCHANGED <<readbuf, event>>

(* A byte that spoils an HDLC frame: an abort sequence or a bad FCS.       *)
rx_frame_abort ==
  /\ ConsumeHdlc
  /\ readidx[inreadbuf] > 0
  /\ Abort
  /\ UNCHANGED readbuf

(* A byte of HDLC idle, or one that completes no octet of a frame. *)
rx_nothing ==
  /\ ConsumeHdlc
  /\ UNCHANGED <<inreadbuf, outreadbuf, readbuf, readn, readidx, event, pc, msgs>>

(* "No place to receive -- drop on the floor": the rest of the chunk is    *)
(* lost, DAHDI_FLAG_RXOVERRUN is set and, once per overrun, an event.      *)
rx_overrun ==
  LET report == BUFEVENTS /\ ~rxoverrun
  IN
  /\ bytes > 0 /\ inreadbuf < 0
  /\ bytes' = 0
  /\ rxoverrun' = TRUE
  /\ event' = (event \/ report)
  /\ pc' = IF report THEN Wake ELSE pc
  /\ UNCHANGED <<flags, ring, res, got, answer, msgs, discarded>>

-----------------------------------------------------------------------------
(* ioctls on the open channel *)

Calls(t, op) == op \in Ops /\ pc[t] = "idle" /\ allocated

(* A variant with a plausible slip: the progress of a slot survives. *)
EmptySlotsKeepIdx(n) ==
  /\ readn' = [s \in Slots |-> IF s < n THEN 0 ELSE readn[s]]
  /\ readidx' = readidx
  /\ outreadbuf' = -1
  /\ discarded' = ~discarded

(* The locked assignments that empty n slots. *)
EmptySlots(n) ==
  /\ readn' = [s \in Slots |-> IF s < n THEN 0 ELSE readn[s]]
  /\ readidx' = [s \in Slots |-> IF s < n THEN 0 ELSE readidx[s]]
  /\ outreadbuf' = -1
  /\ discarded' = ~discarded

(* DAHDI_FLUSH with DAHDI_FLUSH_READ. *)
flush_read(t) ==
  /\ Calls(t, "flush") /\ LockFree
  /\ EmptySlots(numbufs)
  /\ inreadbuf' = 0
  /\ pc' = Wake
  /\ UNCHANGED <<flags, numbufs, allocated, readbuf, irq, event, res, got, answer, msgs>>

(* dahdi_hangup for DAHDI_HOOK with DAHDI_ONHOOK. *)
hangup(t) ==
  /\ Calls(t, "hangup") /\ LockFree
  /\ EmptySlots(numbufs)
  /\ inreadbuf' = 0
  /\ UNCHANGED <<flags, numbufs, allocated, readbuf, irq, event, threads, answer, msgs>>

(* DAHDI_SET_BUFINFO and DAHDI_SET_BLOCKSIZE ask for n or numbufs buffers. *)
set_bufinfo(t) ==
  /\ Calls(t, "bufinfo")
  /\ \E n \in Requests \cup {numbufs} : res' = [res EXCEPT ![t] = n]
  /\ pc' = [pc EXCEPT ![t] = "realloc"]
  /\ UNCHANGED <<flags, ring, irq, event, got, answer, msgs, discarded>>

(* dahdi_reallocbufs: new zeroed slots in the place of the old. *)
reallocbufs(t) ==
  /\ pc[t] = "realloc" /\ LockFree
  /\ numbufs' = Clamp(res[t])
  /\ EmptySlots(numbufs')
  /\ inreadbuf' = 0
  /\ readbuf' = [s \in Slots |-> IF s < numbufs' THEN Blank ELSE readbuf[s]]
  /\ pc' = [pc EXCEPT ![t] = "idle"]
  /\ UNCHANGED <<flags, allocated, irq, event, res, got, answer, msgs>>

(* DAHDI_GETEVENT. *)
getevent(t) ==
  /\ pc[t] = "idle" /\ allocated /\ LockFree
  /\ event /\ event' = FALSE
  /\ UNCHANGED <<flags, ring, irq, threads, answer, msgs, discarded>>

-----------------------------------------------------------------------------
(* Open and close: no other call on the file is in progress. *)

Quiet == \A t \in Threads : pc[t] = "idle"

(* close_channel: dahdi_reallocbufs(chan, 0, 0), then dahdi_hangup. *)
close ==
  /\ "close" \in Ops /\ Quiet /\ allocated /\ LockFree
  /\ numbufs' = Clamp(0)
  /\ EmptySlots(numbufs')
  /\ allocated' = FALSE
  /\ inreadbuf' = -1
  /\ event' = FALSE
  /\ UNCHANGED <<flags, readbuf, irq, threads, answer, msgs>>

(* initialize_channel. *)
open ==
  /\ "close" \in Ops /\ Quiet /\ ~allocated /\ LockFree
  /\ numbufs' = Clamp(DEFAULT_NUM_BUFS)
  /\ EmptySlots(numbufs')
  /\ allocated' = TRUE
  /\ inreadbuf' = 0
  /\ readbuf' = [s \in Slots |-> IF s < numbufs' THEN Blank ELSE readbuf[s]]
  /\ event' = FALSE
  /\ UNCHANGED <<flags, irq, threads, answer, msgs>>

-----------------------------------------------------------------------------
Init ==
  /\ numbufs = DEFAULT_NUM_BUFS /\ allocated = TRUE
  /\ inreadbuf = 0 /\ outreadbuf = -1
  /\ readbuf = [s \in Slots |-> Blank]
  /\ readn = Zeroes /\ readidx = Zeroes
  /\ bytes = 0 /\ rxoverrun = FALSE
  /\ hdlc \in HDLCs /\ mtp2 \in MTP2s /\ (mtp2 => hdlc)  \* DAHDI_SIG_MTP2 is HDLC
  /\ event = FALSE
  /\ pc = [t \in Threads |-> "idle"]
  /\ res = [t \in Threads |-> 0]
  /\ got = [t \in Threads |-> <<>>]
  /\ answer = <<>>
  /\ lastmsg = <<>> /\ lost = FALSE
  /\ discarded = FALSE

Interrupt ==
  \/ rx_start \/ rx_overrun \/ rx_frame_end \/ rx_frame_abort \/ rx_nothing
  \/ \E byte \in Bytes : rx_data(byte)

Read(t) == pick(t) \/ check(t) \/ interrupted(t) \/ copy(t) \/ commit(t)

Ioctl(t) == flush_read(t) \/ hangup(t) \/ set_bufinfo(t) \/ reallocbufs(t) \/ getevent(t)

Next == Interrupt \/ (\E t \in Threads : Read(t) \/ Ioctl(t)) \/ close \/ open

Spec == Init /\ [][Next]_vars

(* The kernel runs a thread that is inside a call and not asleep.          *)
Continue(t) ==
  \/ pc[t] = "retry" /\ pick(t)
  \/ check(t) \/ copy(t) \/ commit(t) \/ reallocbufs(t)

(* The span interrupts every millisecond and its handler runs on.          *)
Fairness ==
  /\ WF_vars(rx_start) /\ WF_vars(bytes > 0 /\ Interrupt)
  /\ \A t \in Threads : SF_vars(Continue(t))

FairSpec == Spec /\ Fairness

-----------------------------------------------------------------------------
(* Properties *)

TypeOK ==
  /\ numbufs \in 2 .. MAX_NUM_BUFS /\ allocated \in BOOLEAN
  /\ inreadbuf \in -1 .. MAX_NUM_BUFS - 1 /\ outreadbuf \in -1 .. MAX_NUM_BUFS - 1
  /\ readbuf \in [Slots -> [1 .. MaxLen -> Bytes]]
  /\ readn \in [Slots -> 0 .. MaxLen] /\ readidx \in [Slots -> 0 .. MaxLen]
  /\ bytes \in 0 .. CHUNKSIZE /\ rxoverrun \in BOOLEAN /\ event \in BOOLEAN
  /\ hdlc \in HDLCs /\ mtp2 \in MTP2s
  /\ pc \in [Threads -> Places]
  /\ res \in [Threads -> Nat]
  /\ lost \in BOOLEAN /\ discarded \in BOOLEAN

(* The two indices never meet and are never both unset while the channel   *)
(* has buffers: the receiver and the readers never share a slot and one of *)
(* them always has one.                                                    *)
RingConsistent ==
  /\ allocated => inreadbuf # outreadbuf
  /\ ~allocated => inreadbuf = -1 /\ outreadbuf = -1

(* The slot that read() copies without the lock is the one outreadbuf      *)
(* names and never the one the interrupt is receiving into.                *)
ReaderOwnsSlot ==
  \A t \in Threads : pc[t] \in {"copy", "commit"} =>
    res[t] = outreadbuf /\ res[t] # inreadbuf

(* The memcpy of __putbuf_chunk stays inside its block: there is room for  *)
(* a byte in the slot that receives, whoever used it before.               *)
RoomInSlot == inreadbuf > -1 => readidx[inreadbuf] < MaxLen

(* Neither side of the ring writes or reads where it must not. *)
SlotsSafe == TypeOK /\ ReaderOwnsSlot /\ RoomInSlot

(* An MTP2 channel leaves out a message only when it repeats the previous  *)
(* one ("we need to find the previous buffer index", "Our messages are the *)
(* same, so discard", __putbuf_chunk).                                     *)
DiscardsOnlyRepeats == ~lost

-----------------------------------------------------------------------------
(* Refinement of MessagePipe. *)

Count == IF outreadbuf < 0 THEN 0
         ELSE IF inreadbuf < 0 THEN numbufs
         ELSE IF inreadbuf >= outreadbuf THEN inreadbuf - outreadbuf
         ELSE inreadbuf - outreadbuf + numbufs

QueuedSlot(i) == IF outreadbuf + i - 1 < numbufs
                 THEN outreadbuf + i - 1
                 ELSE outreadbuf + i - 1 - numbufs

Queue == [i \in 1 .. Count |-> SubSeq(readbuf[QueuedSlot(i)], 1, readn[QueuedSlot(i)])]

Pipe == INSTANCE MessagePipe
          WITH queue <- Queue, capacity <- IF allocated THEN numbufs ELSE 0

(* One reading thread at a time gets every message that found a buffer     *)
(* whole, once and in order (__putbuf_chunk, dahdi_chan_read).             *)
ImplementsPipe == Pipe!Spec

(* "Wake up when data is available" (dahdi_chan_read): a reader does not   *)
(* sleep on while a complete message waits.                                *)
DataWakesReader ==
  \A t \in Threads : pc[t] = "asleep" /\ outreadbuf > -1 ~> pc[t] # "asleep"

(* A blocked read() gets a message or returns when the line delivers data  *)
(* (an HDLC line may be idle, or repeat what was read).                    *)
ReaderProceeds ==
  \A t \in Threads :
    ~hdlc /\ pc[t] \in {"check", "asleep", "retry"} ~> pc[t] \in {"idle", "copy"}

(* A read() that waits for the line gets on. *)
ReadersServed == DataWakesReader /\ ReaderProceeds
=============================================================================
