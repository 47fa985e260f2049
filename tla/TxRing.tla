------------------------------- MODULE TxRing -------------------------------
(***************************************************************************)
(* The write buffers of one DAHDI channel (dahdi-base.c): a ring of        *)
(* numbufs blocks that processes fill with write() and the span's          *)
(* interrupt empties, DAHDI_CHUNKSIZE bytes at a time, onto the line.      *)
(*                                                                         *)
(* inwritebuf is the block to fill, -1 when all are filled; outwritebuf is *)
(* the block on its way out, -1 when none is.  write() picks a block and   *)
(* commits it under chan->lock but fills it without the lock; the          *)
(* interrupt holds the lock for a whole chunk, here while bytes > 0.       *)
(*                                                                         *)
(* Not modelled here: tones, dialling, loopback and software HDLC as the   *)
(* source of a chunk (they are taken only when no block is), and the       *)
(* channel's read side, whose wake-ups share chan->waitq.                  *)
(***************************************************************************)
EXTENDS Integers, Sequences

CONSTANTS
  Threads,        \* the threads that share the open file
  Tags,           \* what distinguishes one block's data from another's
  MaxLen,         \* blocksize: the longest block
  CHUNKSIZE,      \* DAHDI_CHUNKSIZE
  MAX_NUM_BUFS,   \* DAHDI_MAX_NUM_BUFS
  DEFAULT_NUM_BUFS,
  Requests,       \* the numbers of buffers SET_BUFINFO may ask for
  Policies,       \* the txbufpolicy values SET_BUFINFO may ask for
  MTP2s,          \* whether DAHDI_FLAG_MTP2 is set: the configurations
  BUFEVENTS,      \* whether DAHDI_FLAG_BUFEVENTS is set
  Ops,            \* the ioctls threads issue besides write()
  AllocMayFail    \* whether kzalloc may return NULL

ASSUME BufferAssumption ==
  /\ MAX_NUM_BUFS \in Nat /\ MAX_NUM_BUFS >= 2
  /\ DEFAULT_NUM_BUFS \in 2 .. MAX_NUM_BUFS
  /\ Requests \subseteq Nat
  /\ MaxLen \in Nat /\ MaxLen >= 1
  /\ CHUNKSIZE \in Nat /\ CHUNKSIZE >= 1
  /\ Tags # {}
ASSUME FlagAssumption ==
  /\ MTP2s \subseteq BOOLEAN /\ BUFEVENTS \in BOOLEAN /\ AllocMayFail \in BOOLEAN
  /\ Policies \subseteq {"immediate", "when_full", "half_full"}
  /\ Ops \subseteq {"flush", "hangup", "bufinfo", "iomux", "sync", "close"}

VARIABLES
  numbufs, allocated, inwritebuf, outwritebuf,
  writebuf,     \* slot -> tag of the data copied into it
  writen,       \* slot -> bytes of data in it
  writeidx,     \* slot -> bytes of it that have been transmitted
  txbufpolicy, txdisable,
  mtp2,         \* DAHDI_FLAG_MTP2, as the channel was configured
  bytes,        \* bytes the interrupt still has to produce for this chunk
  txunderrun,   \* DAHDI_FLAG_TXUNDERRUN
  event,        \* whether an event waits to be fetched
  pc,           \* thread -> where it is
  res,          \* thread -> the slot it picked, or the buffers it asked for
  stale,        \* history: thread -> its slot was freed under it
  sent,         \* history: the piece that went to the line last
  mustFill,     \* history: the policy asks for more blocks before sending
  discarded     \* history: flips whenever blocks are discarded

ring    == <<numbufs, allocated, inwritebuf, outwritebuf, writebuf, writen, writeidx>>
txctl   == <<txbufpolicy, txdisable>>
irq     == <<bytes, txunderrun>>
threads == <<pc, res, stale>>
history == <<sent, mustFill, discarded>>
vars    == <<ring, txctl, mtp2, irq, event, threads, history>>

Places == {"idle", "retry", "check", "asleep", "copy", "rewind", "commit",
           "realloc", "iomux", "iomux_asleep", "sync"}
Slots == 0 .. MAX_NUM_BUFS - 1
Zeroes == [s \in Slots |-> 0]
LockFree == bytes = 0
SomeTag == CHOOSE t \in Tags : TRUE
Delays(policy) == policy \in {"when_full", "half_full"}

(* A variant with a plausible slip: the wake-up "optimized out". *)
NoWake == pc

(* wake_up_interruptible(&chan->waitq): a sleeper goes back to its test. *)
Wake == [t \in Threads |-> IF pc[t] = "asleep" THEN "check"
                           ELSE IF pc[t] = "iomux_asleep" THEN "iomux" ELSE pc[t]]

(* A variant with a plausible slip: no lower bound. *)
ClampMaxOnly(n) == IF n > MAX_NUM_BUFS THEN MAX_NUM_BUFS ELSE IF n < 1 THEN 1 ELSE n

(* dahdi_reallocbufs: "Check numbufs". *)
Clamp(n) == IF n < 2 THEN 2 ELSE IF n > MAX_NUM_BUFS THEN MAX_NUM_BUFS ELSE n

(* A variant with a plausible slip: the ring counted as not wrapped. *)
num_filled_bufs_unwrapped(in, out) ==
  IF in < 0 THEN numbufs ELSE IF out < 0 THEN 0 ELSE in - out

num_filled_bufs(in, out) ==
  IF in < 0 THEN numbufs
  ELSE IF out < 0 THEN 0
  ELSE IF out <= in THEN in - out
  ELSE (numbufs - out) + in

NextSlot(s) == (s + 1) % numbufs

(* A variant with a plausible slip: the filler catches up unnoticed. *)
NeverFills(next) == FALSE

(* write(): "Don't stomp on the transmitter, just wait for them". *)
FillsRing(next) == next = outwritebuf

HalfFull(filled) == txbufpolicy = "half_full" /\ filled >= numbufs \div 2

(* A variant with a plausible slip: a full ring waits for the half-full test. *)
EnablesAtHalfOnly(full, filled) == HalfFull(filled)

(* A variant with a plausible slip: one block too early. *)
EnablesEarly(full, filled) == full \/ (txbufpolicy = "half_full" /\ filled >= numbufs \div 2 - 1)

(* write(): when a commit sets txdisable = 0. *)
Enables(full, filled) == full \/ HalfFull(filled)

(* A variant with a plausible slip: the test for "run out of buffers" dropped. *)
NeverRunsOut(last, next) == next

(* A variant with a plausible slip: the repetition of MTP2 forgotten. *)
NeverRepeats(last, next) == IF last THEN -1 ELSE next

(* __dahdi_getbuf_chunk: the block after a finished one; an MTP2 channel   *)
(* repeats the last.                                                       *)
AfterLast(last, next) == IF ~last THEN next ELSE IF mtp2 THEN outwritebuf ELSE -1

(* A variant with a plausible slip: MTP2 blocks emptied like any other. *)
EmptiesAlways(out) == [writen EXCEPT ![out] = 0]

(* __dahdi_getbuf_chunk: an MTP2 channel keeps a sent block for repetition. *)
EmptySent(out) == IF mtp2 THEN writen ELSE [writen EXCEPT ![out] = 0]

(* A variant with a plausible slip: "notify them" dropped. *)
NoSlotToFill(done) == inwritebuf

(* __dahdi_getbuf_chunk: a finished block is what a waiting filler gets. *)
SlotToFill(done) == IF inwritebuf < 0 THEN done ELSE inwritebuf

(* A variant with a plausible slip: the transmitter left as it was. *)
HeldAsBefore == txdisable

(* dahdi_reallocbufs: whether the transmitter waits for the buffers to fill. *)
HeldAfterRealloc == Delays(txbufpolicy)

(* How many blocks wait, counted for the properties and not by the code.   *)
Count(in, out) ==
  IF out < 0 THEN 0
  ELSE IF in < 0 THEN numbufs
  ELSE IF in >= out THEN in - out ELSE in - out + numbufs

-----------------------------------------------------------------------------
(* write() *)

(* The locked test at the head of the loop: -ELAST when an event waits,    *)
(* else the slot, else -EAGAIN for O_NONBLOCK or the wait.                 *)
pick(t) ==
  /\ pc[t] \in {"idle", "retry"} /\ allocated /\ LockFree
  /\ \/ event /\ pc' = [pc EXCEPT ![t] = "idle"] /\ UNCHANGED res
     \/ ~event /\ inwritebuf >= 0
        /\ pc' = [pc EXCEPT ![t] = "copy"] /\ res' = [res EXCEPT ![t] = inwritebuf]
     \/ ~event /\ inwritebuf < 0
        /\ \E next \in {"idle", "check"} : pc' = [pc EXCEPT ![t] = next]
        /\ UNCHANGED res
  /\ stale' = [stale EXCEPT ![t] = FALSE]
  /\ UNCHANGED <<mtp2, ring, txctl, irq, event, history>>

(* wait_event_interruptible tests the condition after it queued itself. *)
check(t) ==
  /\ pc[t] = "check"
  /\ pc' = [pc EXCEPT ![t] = IF inwritebuf > -1 THEN "retry" ELSE "asleep"]
  /\ UNCHANGED <<mtp2, ring, txctl, irq, event, res, stale, history>>

(* A signal ends the sleep of write(), DAHDI_IOMUX with -ERESTARTSYS. *)
interrupted(t) ==
  /\ pc[t] \in {"asleep", "iomux_asleep"}
  /\ pc' = [pc EXCEPT ![t] = "idle"]
  /\ UNCHANGED <<mtp2, ring, txctl, irq, event, res, stale, history>>

(* copy_from_user without the lock, then writen; or -EFAULT. *)
copy(t) ==
  /\ pc[t] = "copy"
  /\ \/ \E tag \in Tags, len \in 1 .. MaxLen :
          /\ writebuf' = [writebuf EXCEPT ![res[t]] = tag]
          /\ writen' = [writen EXCEPT ![res[t]] = len]
          /\ pc' = [pc EXCEPT ![t] = "rewind"]
     \/ pc' = [pc EXCEPT ![t] = "idle"] /\ UNCHANGED <<writebuf, writen>>
  /\ UNCHANGED <<mtp2, numbufs, allocated, inwritebuf, outwritebuf, writeidx,
                 txctl, irq, event, res, stale, history>>

rewind(t) ==
  /\ pc[t] = "rewind"
  /\ writeidx' = [writeidx EXCEPT ![res[t]] = 0]
  /\ pc' = [pc EXCEPT ![t] = "commit"]
  /\ UNCHANGED <<mtp2, numbufs, allocated, inwritebuf, outwritebuf, writebuf, writen,
                 txctl, irq, event, res, stale, history>>

(* The locked tail: hand the slot to the transmitter. *)
commit(t) ==
  LET next == NextSlot(res[t])
      full == FillsRing(next)
      in   == IF full THEN -1 ELSE next
      out  == IF outwritebuf < 0 THEN res[t] ELSE outwritebuf
  IN
  /\ pc[t] = "commit" /\ LockFree
  /\ inwritebuf' = in
  /\ outwritebuf' = out
  /\ txdisable' = (txdisable /\ ~Enables(full, num_filled_bufs(in, out)))
  /\ mustFill' = (mustFill /\ ~full /\ ~HalfFull(Count(in, out)))
  /\ pc' = [pc EXCEPT ![t] = "idle"]
  /\ UNCHANGED <<mtp2, numbufs, allocated, writebuf, writen, writeidx, txbufpolicy,
                 irq, event, res, stale, sent, discarded>>

-----------------------------------------------------------------------------
(* The span's interrupt: __dahdi_getbuf_chunk, one pass of its loop per    *)
(* step, chan->lock held from the first to the last.                       *)

tx_start ==
  /\ LockFree
  /\ bytes' = CHUNKSIZE
  /\ UNCHANGED <<mtp2, ring, txctl, txunderrun, event, threads, history>>

Transmitting == outwritebuf > -1 /\ ~txdisable

(* A pass that takes its bytes from a write buffer. *)
tx_buffer ==
  LET out  == outwritebuf
      rest == writen[out] - writeidx[out]
      left == IF rest > bytes THEN bytes ELSE rest
      done == writeidx[out] + left >= writen[out]
      next == NextSlot(out)
      last == next = inwritebuf
  IN
  /\ bytes > 0 /\ Transmitting
  /\ bytes' = bytes - left
  /\ sent' = [tag |-> writebuf[out], from |-> writeidx[out], to |-> writeidx[out] + left]
  /\ txunderrun' = (txunderrun /\ bytes' > 0)
  /\ IF done
     THEN /\ writeidx' = [writeidx EXCEPT ![out] = 0]
          /\ writen' = EmptySent(out)
          /\ outwritebuf' = AfterLast(last, next)
          /\ txdisable' = (txdisable \/ (last /\ Delays(txbufpolicy)))
          /\ mustFill' = IF last THEN Delays(txbufpolicy) ELSE mustFill
          /\ inwritebuf' = SlotToFill(out)
          /\ pc' = Wake
     ELSE /\ writeidx' = [writeidx EXCEPT ![out] = @ + left]
          /\ UNCHANGED <<writen, outwritebuf, txdisable, mustFill, inwritebuf, pc>>
  /\ UNCHANGED <<mtp2, numbufs, allocated, writebuf, txbufpolicy, event, res, stale, discarded>>

(* The last pass of a chunk for which no write buffer is left: silence,    *)
(* DAHDI_FLAG_TXUNDERRUN and, once per underrun, an event that wakes.      *)
tx_silence ==
  LET report == BUFEVENTS /\ ~txunderrun
  IN
  /\ bytes > 0 /\ ~Transmitting
  /\ bytes' = 0
  /\ txunderrun' = TRUE
  /\ event' = (event \/ report)
  /\ pc' = IF report THEN Wake ELSE pc
  /\ UNCHANGED <<mtp2, ring, txctl, res, stale, history>>

-----------------------------------------------------------------------------
(* ioctls on the open channel *)

Calls(t, op) == op \in Ops /\ pc[t] = "idle" /\ allocated

(* The locked assignments that empty n slots. *)
EmptySlots(n) ==
  /\ writen' = [s \in Slots |-> IF s < n THEN 0 ELSE writen[s]]
  /\ writeidx' = [s \in Slots |-> IF s < n THEN 0 ELSE writeidx[s]]
  /\ outwritebuf' = -1
  /\ discarded' = ~discarded

(* DAHDI_FLUSH with DAHDI_FLUSH_WRITE; txdisable keeps its value. *)
flush_write(t) ==
  /\ Calls(t, "flush") /\ LockFree
  /\ EmptySlots(numbufs)
  /\ inwritebuf' = 0
  /\ mustFill' = Delays(txbufpolicy)
  /\ pc' = Wake
  /\ UNCHANGED <<mtp2, numbufs, allocated, writebuf, txctl, irq, event, res, stale, sent>>

(* dahdi_hangup for DAHDI_HOOK with DAHDI_ONHOOK: the same, nobody woken. *)
hangup(t) ==
  /\ Calls(t, "hangup") /\ LockFree
  /\ EmptySlots(numbufs)
  /\ inwritebuf' = 0
  /\ mustFill' = Delays(txbufpolicy)
  /\ UNCHANGED <<mtp2, numbufs, allocated, writebuf, txctl, irq, event, threads, sent>>

(* DAHDI_SET_BUFINFO stores the policy without the lock, then calls        *)
(* dahdi_reallocbufs; DAHDI_SET_BLOCKSIZE calls it with the same numbufs.  *)
set_bufinfo(t) ==
  /\ Calls(t, "bufinfo")
  /\ \/ txbufpolicy' \in Policies /\ \E n \in Requests : res' = [res EXCEPT ![t] = n]
     \/ UNCHANGED txbufpolicy /\ res' = [res EXCEPT ![t] = numbufs]
  /\ pc' = [pc EXCEPT ![t] = "realloc"]
  /\ UNCHANGED <<mtp2, ring, txdisable, irq, event, stale, history>>

(* dahdi_reallocbufs: -ENOMEM, or new empty slots; nobody woken. *)
reallocbufs(t) ==
  /\ pc[t] = "realloc"
  /\ pc' = [pc EXCEPT ![t] = "idle"]
  /\ \/ AllocMayFail /\ UNCHANGED <<ring, txdisable, stale, mustFill, discarded>>
     \/ /\ LockFree
        /\ numbufs' = Clamp(res[t])
        /\ EmptySlots(numbufs')
        /\ inwritebuf' = 0
        /\ txdisable' = HeldAfterRealloc
        /\ mustFill' = Delays(txbufpolicy)
        /\ stale' = [u \in Threads |-> stale[u] \/ pc[u] \in {"copy", "rewind", "commit"}]
        /\ UNCHANGED <<allocated, writebuf>>
  /\ UNCHANGED <<mtp2, txbufpolicy, irq, event, res, sent>>

(* DAHDI_IOMUX with DAHDI_IOMUX_WRITEEMPTY: enable the transmitter, return *)
(* when no block is on its way out, else sleep (or not, with NOWAIT).      *)
iomux(t) ==
  /\ pc[t] = "iomux" \/ Calls(t, "iomux")
  /\ LockFree
  /\ txdisable' = FALSE
  /\ mustFill' = FALSE
  /\ \E next \in IF outwritebuf < 0 THEN {"idle"} ELSE {"idle", "iomux_asleep"} :
       pc' = [pc EXCEPT ![t] = next]
  /\ UNCHANGED <<mtp2, ring, txbufpolicy, irq, event, res, stale, sent, discarded>>

(* DAHDI_SYNC looks again and again: its wait condition is true whenever   *)
(* it has something to wait for.                                           *)
sync(t) ==
  /\ Calls(t, "sync")
  /\ pc' = [pc EXCEPT ![t] = "sync"]
  /\ UNCHANGED <<mtp2, ring, txctl, irq, event, res, stale, history>>

sync_return(t) ==
  /\ pc[t] = "sync" /\ LockFree /\ outwritebuf = -1
  /\ pc' = [pc EXCEPT ![t] = "idle"]
  /\ UNCHANGED <<mtp2, ring, txctl, irq, event, res, stale, history>>

(* DAHDI_GETEVENT. *)
getevent(t) ==
  /\ pc[t] = "idle" /\ allocated /\ LockFree
  /\ event /\ event' = FALSE
  /\ UNCHANGED <<mtp2, ring, txctl, irq, threads, history>>

-----------------------------------------------------------------------------
(* Open and close: no other call on the file is in progress. *)

Quiet == \A t \in Threads : pc[t] = "idle"

(* close_channel: dahdi_reallocbufs(chan, 0, 0), then dahdi_hangup. *)
close ==
  /\ "close" \in Ops /\ Quiet /\ allocated /\ LockFree
  /\ numbufs' = Clamp(0)
  /\ EmptySlots(numbufs')
  /\ allocated' = FALSE
  /\ inwritebuf' = -1
  /\ txdisable' = HeldAfterRealloc
  /\ mustFill' = Delays(txbufpolicy)
  /\ event' = FALSE
  /\ UNCHANGED <<mtp2, writebuf, txbufpolicy, irq, threads, sent>>

(* initialize_channel. *)
open ==
  /\ "close" \in Ops /\ Quiet /\ ~allocated /\ LockFree
  /\ numbufs' = Clamp(DEFAULT_NUM_BUFS)
  /\ EmptySlots(numbufs')
  /\ allocated' = TRUE
  /\ inwritebuf' = 0
  /\ txbufpolicy' = "immediate"
  /\ txdisable' = FALSE
  /\ mustFill' = FALSE
  /\ event' = FALSE
  /\ UNCHANGED <<mtp2, writebuf, irq, threads, sent>>

-----------------------------------------------------------------------------
Init ==
  /\ numbufs = DEFAULT_NUM_BUFS /\ allocated = TRUE
  /\ inwritebuf = 0 /\ outwritebuf = -1
  /\ writebuf = [s \in Slots |-> SomeTag]
  /\ writen = Zeroes /\ writeidx = Zeroes
  /\ txbufpolicy = "immediate" /\ txdisable = FALSE /\ mtp2 \in MTP2s
  /\ bytes = 0 /\ txunderrun = FALSE
  /\ event = FALSE
  /\ pc = [t \in Threads |-> "idle"]
  /\ res = [t \in Threads |-> 0]
  /\ stale = [t \in Threads |-> FALSE]
  /\ sent = [tag |-> SomeTag, from |-> 0, to |-> 0]
  /\ mustFill = FALSE /\ discarded = FALSE

Interrupt == tx_start \/ tx_buffer \/ tx_silence

Write(t) == pick(t) \/ check(t) \/ interrupted(t) \/ copy(t) \/ rewind(t) \/ commit(t)

Ioctl(t) ==
  \/ flush_write(t) \/ hangup(t) \/ set_bufinfo(t) \/ reallocbufs(t)
  \/ iomux(t) \/ sync(t) \/ sync_return(t) \/ getevent(t)

Next == Interrupt \/ (\E t \in Threads : Write(t) \/ Ioctl(t)) \/ close \/ open

Spec == Init /\ [][Next]_vars

(* The kernel runs a thread that is inside a call and not asleep. *)
Continue(t) ==
  \/ pc[t] = "retry" /\ pick(t)
  \/ pc[t] = "iomux" /\ iomux(t)
  \/ check(t) \/ copy(t) \/ rewind(t) \/ commit(t) \/ reallocbufs(t) \/ sync_return(t)

(* The span interrupts every millisecond and its handler runs on.          *)
Fairness ==
  /\ WF_vars(tx_start) /\ WF_vars(tx_buffer) /\ WF_vars(tx_silence)
  /\ \A t \in Threads : SF_vars(Continue(t))

FairSpec == Spec /\ Fairness

-----------------------------------------------------------------------------
(* Properties *)

(* The indices stay inside the ring and are never both unset or equal: the *)
(* filler and the transmitter never share a slot and one of them always    *)
(* has one.  The lengths stay inside a block.                              *)
TypeOK ==
  /\ numbufs \in 2 .. MAX_NUM_BUFS /\ allocated \in BOOLEAN
  /\ inwritebuf \in -1 .. numbufs - 1 /\ outwritebuf \in -1 .. MAX_NUM_BUFS - 1
  /\ writebuf \in [Slots -> Tags]
  /\ writen \in [Slots -> 0 .. MaxLen] /\ writeidx \in [Slots -> 0 .. MaxLen]
  /\ txbufpolicy \in {"immediate", "when_full", "half_full"} /\ txdisable \in BOOLEAN
  /\ mtp2 \in MTP2s
  /\ bytes \in 0 .. CHUNKSIZE /\ txunderrun \in BOOLEAN /\ event \in BOOLEAN
  /\ pc \in [Threads -> Places]
  /\ res \in [Threads -> Nat] /\ stale \in [Threads -> BOOLEAN]
  /\ mustFill \in BOOLEAN /\ discarded \in BOOLEAN

(* The two indices never meet and are never both unset while the channel   *)
(* has buffers: neither the filler stomps on the transmitter (comment in   *)
(* dahdi_chan_write) nor do both wait for the other to hand over a slot.   *)
RingConsistent ==
  /\ allocated => inwritebuf # outwritebuf
  /\ ~allocated => inwritebuf = -1 /\ outwritebuf = -1

(* A slot that a write() fills without the lock is the one inwritebuf      *)
(* names and never the one the interrupt is transmitting.                  *)
FillerOwnsSlot ==
  \A t \in Threads : pc[t] \in {"copy", "rewind", "commit"} =>
    res[t] = inwritebuf /\ res[t] # outwritebuf

(* memcpy in __dahdi_getbuf_chunk never gets a negative length.            *)
NeverOverread == outwritebuf > -1 => writeidx[outwritebuf] <= writen[outwritebuf]

(* write() and the interrupt never touch the same block, or past its end.  *)
SlotsSafe == FillerOwnsSlot /\ NeverOverread

(* A full ring is never held back by the buffer policy: the filler would   *)
(* wait for the transmitter and the transmitter for the filler.            *)
NoStandoff == allocated /\ inwritebuf = -1 => ~txdisable

(* DAHDI_POLICY_WHEN_FULL and HALF_FULL start transmitting only when the   *)
(* buffers are full or half full (user.h).                                 *)
HeldUntilFull == mustFill => txdisable

(* ... and do start then: num_filled_bufs counts right, wrapped or not.    *)
StartsWhenReady == allocated /\ txdisable => mustFill

(* DAHDI_POLICY_IMMEDIATE starts immediately (user.h).                     *)
ImmediateStarts == Quiet /\ txbufpolicy = "immediate" => ~txdisable

(* The three buffer policies are kept. *)
PolicyObeyed == HeldUntilFull /\ StartsWhenReady /\ ImmediateStarts

(* dahdi_reallocbufs moves things around "safely": no write() goes on      *)
(* filling a slot that was freed.                                          *)
ReallocSafe == \A t \in Threads : ~stale[t]

-----------------------------------------------------------------------------
(* Refinement of BlockPipe. *)

QueuedSlot(i) == IF outwritebuf + i - 1 < numbufs
                 THEN outwritebuf + i - 1
                 ELSE outwritebuf + i - 1 - numbufs

Queue == [i \in 1 .. Count(inwritebuf, outwritebuf) |->
            [tag  |-> writebuf[QueuedSlot(i)],
             from |-> writeidx[QueuedSlot(i)],
             len  |-> writen[QueuedSlot(i)]]]

Pipe == INSTANCE BlockPipe
          WITH queue <- Queue, capacity <- IF allocated THEN numbufs ELSE 0,
               repeating <- mtp2

(* One writing thread at a time sees every block it wrote go to the line   *)
(* whole, once and in order (dahdi_chan_write, __dahdi_getbuf_chunk).      *)
ImplementsPipe == Pipe!Spec

(* The interrupt gets through its chunk: it never spins on a block that    *)
(* yields no bytes while it holds chan->lock.                              *)
ChunkCompletes == bytes > 0 ~> bytes = 0

(* "Wake up when room in the write queue is available" (dahdi_chan_write): *)
(* a writer does not sleep on while a slot is free.                        *)
RoomWakesWriter ==
  \A t \in Threads : pc[t] = "asleep" /\ inwritebuf > -1 ~> pc[t] # "asleep"

(* A blocked write() gets a slot or returns: the policy never starves it.  *)
WriterProceeds ==
  \A t \in Threads : pc[t] \in {"check", "asleep", "retry"} ~> pc[t] \in {"idle", "copy"}

(* DAHDI_IOMUX_WRITEEMPTY and, unless the policy holds the last blocks     *)
(* back, DAHDI_SYNC return: the line drains (no MTP2 link ever does).      *)
DrainReturns ==
  \A t \in Threads :
    ~mtp2 /\ (pc[t] \in {"iomux", "iomux_asleep"} \/ (pc[t] = "sync" /\ ~Delays(txbufpolicy)))
      ~> pc[t] = "idle"

(* Every call that waits for the line gets on. *)
WritersServed == ChunkCompletes /\ RoomWakesWriter /\ WriterProceeds /\ DrainReturns
=============================================================================
