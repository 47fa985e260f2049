---------------------------- MODULE RxRingProofs ----------------------------
(* Proofs about the read buffers of a channel, for every number of         *)
(* buffers, of threads that share it, of bytes in a chunk and in a block.  *)
EXTENDS RxRing, SequenceTheorems, TLAPS

USE BufferAssumption, FlagAssumption DEF BufferAssumption, FlagAssumption, Places

(* What every handler keeps, however many readers race: the indices, and   *)
(* that nobody is inside a call of a closed channel.                       *)
RingInv ==
  /\ numbufs \in Nat /\ numbufs >= 2 /\ numbufs <= MAX_NUM_BUFS
  /\ allocated \in BOOLEAN
  /\ inreadbuf \in Int /\ inreadbuf >= -1
  /\ outreadbuf \in Int /\ outreadbuf >= -1
  /\ pc \in [Threads -> Places]
  /\ res \in [Threads -> Nat]
  /\ RingConsistent
  /\ ~allocated => Quiet

LEMMA NextSlotProperties ==
  ASSUME numbufs \in Nat, numbufs >= 2, NEW s \in Nat
  PROVE  /\ NextSlot(s) \in Nat /\ NextSlot(s) < numbufs /\ NextSlot(s) # s
         /\ s < numbufs => NextSlot(s) = IF s + 1 = numbufs THEN 0 ELSE s + 1
BY DEF NextSlot

LEMMA ClampProperties ==
  \A n \in Nat : Clamp(n) \in Nat /\ Clamp(n) >= 2 /\ Clamp(n) <= MAX_NUM_BUFS
BY DEF Clamp

LEMMA WakeProperties ==
  ASSUME pc \in [Threads -> Places]
  PROVE  /\ Wake \in [Threads -> Places]
         /\ Quiet => Wake = pc
<1>1. Wake \in [Threads -> Places]
  BY DEF Wake
<1>2. Quiet => Wake = pc
  <2> SUFFICES ASSUME Quiet PROVE Wake = pc
    OBVIOUS
  <2>1. \A t \in Threads : Wake[t] = pc[t]
    BY DEF Wake, Quiet
  <2>2. QED
    BY <1>1, <2>1
<1>3. QED
  BY <1>1, <1>2

LEMMA RingInvInit == Init => RingInv
<1> SUFFICES ASSUME Init PROVE RingInv
  OBVIOUS
<1>1. /\ numbufs = DEFAULT_NUM_BUFS /\ allocated = TRUE
      /\ inreadbuf = 0 /\ outreadbuf = -1
      /\ pc = [t \in Threads |-> "idle"] /\ res = [t \in Threads |-> 0]
  BY DEF Init
<1>2. QED
  BY <1>1 DEF RingInv, RingConsistent

(* Steps that leave the indices alone. *)
LEMMA RingInvKept ==
  ASSUME RingInv, pc' \in [Threads -> Places], res' \in [Threads -> Nat],
         UNCHANGED <<numbufs, allocated, inreadbuf, outreadbuf>>,
         allocated \/ pc' = pc
  PROVE  RingInv'
BY DEF RingInv, RingConsistent, Quiet

(* Steps that give an open channel indices of its own. *)
LEMMA RingInvOpen ==
  ASSUME RingInv, pc' \in [Threads -> Places], res' \in [Threads -> Nat],
         allocated' = TRUE,
         numbufs' \in Nat, numbufs' >= 2, numbufs' <= MAX_NUM_BUFS,
         inreadbuf' \in Int, inreadbuf' >= -1,
         outreadbuf' \in Int, outreadbuf' >= -1,
         inreadbuf' # outreadbuf'
  PROVE  RingInv'
BY DEF RingInv, RingConsistent

LEMMA RingInvCommit == ASSUME RingInv, NEW t \in Threads, commit(t) PROVE RingInv'
<1> DEFINE next == NextSlot(res[t])
<1>1. /\ res[t] \in Nat /\ pc \in [Threads -> Places] /\ res \in [Threads -> Nat]
      /\ numbufs \in Nat /\ numbufs >= 2 /\ numbufs <= MAX_NUM_BUFS
      /\ inreadbuf \in Int /\ inreadbuf >= -1
  BY DEF RingInv
<1>2. next \in Nat /\ next # res[t]
  BY <1>1, NextSlotProperties
<1>3. allocated = TRUE
  BY DEF RingInv, Quiet, commit
<1>4. /\ outreadbuf' = IF next = inreadbuf THEN -1 ELSE next
      /\ inreadbuf' = IF inreadbuf < 0 THEN res[t] ELSE inreadbuf
      /\ numbufs' = numbufs /\ allocated' = allocated /\ res' = res
      /\ pc' \in [Threads -> Places]
  BY <1>1 DEF commit, EmptiesRing, SlotToFill
<1>5. QED
  BY <1>1, <1>2, <1>3, <1>4, RingInvOpen

LEMMA RingInvRead == ASSUME RingInv, NEW t \in Threads, Read(t) PROVE RingInv'
<1>1. /\ pc \in [Threads -> Places] /\ res \in [Threads -> Nat]
      /\ outreadbuf \in Int
  BY DEF RingInv
<1>2. pc[t] # "idle" => allocated
  BY DEF RingInv, Quiet
<1>3. CASE pick(t)
  <2>1. pc' \in [Threads -> Places] /\ res' \in [Threads -> Nat]
    BY <1>1, <1>3 DEF pick
  <2>2. QED
    BY <1>3, <2>1, RingInvKept DEF pick, ring
<1>4. CASE check(t) \/ interrupted(t) \/ copy(t)
  <2>1. pc' \in [Threads -> Places] /\ res' = res
    BY <1>1, <1>4 DEF check, interrupted, copy
  <2>2. QED
    BY <1>1, <1>2, <1>4, <2>1, RingInvKept DEF check, interrupted, copy, ring
<1>5. CASE commit(t)
  BY <1>5, RingInvCommit
<1>6. QED
  BY <1>3, <1>4, <1>5 DEF Read

LEMMA RingInvIoctl == ASSUME RingInv, NEW t \in Threads, Ioctl(t) PROVE RingInv'
<1>1. /\ pc \in [Threads -> Places] /\ res \in [Threads -> Nat]
      /\ numbufs \in Nat /\ numbufs >= 2 /\ numbufs <= MAX_NUM_BUFS
      /\ allocated \in BOOLEAN
  BY DEF RingInv
<1>2. pc[t] # "idle" => allocated = TRUE
  BY DEF RingInv, Quiet
<1>3. CASE flush_read(t) \/ hangup(t)
  <2>1. /\ allocated' = TRUE /\ numbufs' = numbufs
        /\ inreadbuf' = 0 /\ outreadbuf' = -1 /\ res' = res /\ pc' \in {pc, Wake}
    BY <1>1, <1>3 DEF flush_read, hangup, EmptySlots, Calls, threads
  <2>2. QED
    BY <1>1, <2>1, WakeProperties, RingInvOpen
<1>4. CASE set_bufinfo(t)
  <2>1. pc' \in [Threads -> Places] /\ res' \in [Threads -> Nat] /\ allocated
    BY <1>1, <1>4 DEF set_bufinfo, Calls
  <2>2. QED
    BY <1>4, <2>1, RingInvKept DEF set_bufinfo, ring
<1>5. CASE reallocbufs(t)
  <2>1. /\ pc' \in [Threads -> Places] /\ res' = res /\ allocated' = TRUE
        /\ numbufs' = Clamp(res[t]) /\ inreadbuf' = 0 /\ outreadbuf' = -1
    BY <1>1, <1>2, <1>5 DEF reallocbufs, EmptySlots
  <2>2. numbufs' \in Nat /\ numbufs' >= 2 /\ numbufs' <= MAX_NUM_BUFS
    BY <1>1, <2>1, ClampProperties
  <2>3. QED
    BY <1>1, <2>1, <2>2, RingInvOpen
<1>6. CASE getevent(t)
  BY <1>1, <1>6, RingInvKept DEF getevent, ring, threads
<1>7. QED
  BY <1>3, <1>4, <1>5, <1>6 DEF Ioctl

(* The end of a message: it is left out, or its slot joins the queue. *)
LEMMA RingInvFinish ==
  ASSUME RingInv, inreadbuf > -1, NEW data, NEW len, Finish(data, len),
         UNCHANGED <<numbufs, allocated, res>>
  PROVE  RingInv'
<1>1. /\ inreadbuf \in Nat
      /\ numbufs \in Nat /\ numbufs >= 2 /\ numbufs <= MAX_NUM_BUFS
      /\ outreadbuf \in Int /\ outreadbuf >= -1
      /\ pc \in [Threads -> Places] /\ res \in [Threads -> Nat]
  BY DEF RingInv
<1>2. allocated = TRUE /\ inreadbuf # outreadbuf
  BY DEF RingInv, RingConsistent
<1>3. CASE UNCHANGED <<inreadbuf, outreadbuf, pc>>
  BY <1>1, <1>2, <1>3, RingInvKept
<1>4. CASE /\ inreadbuf' = IF FillsRing(NextSlot(inreadbuf)) THEN -1 ELSE NextSlot(inreadbuf)
           /\ outreadbuf' = IF outreadbuf < 0 THEN inreadbuf ELSE outreadbuf
           /\ pc' = Wake
  <2>1. NextSlot(inreadbuf) \in Nat /\ NextSlot(inreadbuf) # inreadbuf
    BY <1>1, NextSlotProperties
  <2>2. pc' \in [Threads -> Places]
    BY <1>1, <1>4, WakeProperties
  <2>3. inreadbuf' # outreadbuf'
    BY <1>1, <1>4, <2>1 DEF FillsRing
  <2>4. QED
    BY <1>1, <1>2, <1>4, <2>1, <2>2, <2>3, RingInvOpen
<1>5. QED
  BY <1>3, <1>4 DEF Finish

LEMMA RingInvAbort ==
  ASSUME RingInv, inreadbuf > -1, Abort, UNCHANGED <<numbufs, allocated, res>>
  PROVE  RingInv'
<1>1. pc' \in [Threads -> Places] /\ res \in [Threads -> Nat]
  BY WakeProperties DEF Abort, RingInv
<1>2. allocated
  BY DEF RingInv, RingConsistent
<1>3. QED
  BY <1>1, <1>2, RingInvKept DEF Abort

LEMMA RingInvInterrupt == ASSUME RingInv, Interrupt PROVE RingInv'
<1>1. pc \in [Threads -> Places] /\ res \in [Threads -> Nat]
  BY DEF RingInv
<1>2. inreadbuf > -1 => allocated
  BY DEF RingInv, RingConsistent
<1>3. CASE rx_start
  BY <1>1, <1>3, RingInvKept DEF rx_start, ring, threads
<1>4. CASE rx_overrun
  <2>1. pc' \in [Threads -> Places] /\ res' = res /\ (allocated \/ pc' = pc)
    BY <1>1, <1>4, WakeProperties DEF rx_overrun, RingInv
  <2>2. QED
    BY <1>1, <1>4, <2>1, RingInvKept DEF rx_overrun, ring
<1>5. CASE rx_frame_end
  BY <1>5, RingInvFinish DEF rx_frame_end, ConsumeHdlc, Consume
<1>6. CASE rx_frame_abort
  BY <1>6, RingInvAbort DEF rx_frame_abort, ConsumeHdlc, Consume
<1>7. CASE rx_nothing
  BY <1>1, <1>2, <1>7, RingInvKept DEF rx_nothing, ConsumeHdlc, Consume
<1>8. ASSUME NEW byte \in Bytes, rx_data(byte) PROVE RingInv'
  <2> DEFINE in   == inreadbuf
             idx  == readidx[in] + Left
             data == IF Left = 1 THEN [readbuf[in] EXCEPT ![idx] = byte] ELSE readbuf[in]
  <2>1. inreadbuf > -1 /\ UNCHANGED <<numbufs, allocated, res>>
    BY <1>8 DEF rx_data, Consume
  <2>2. CASE UNCHANGED <<inreadbuf, outreadbuf, pc>>
    BY <1>1, <1>2, <2>1, <2>2, RingInvKept
  <2>3. CASE Abort
    BY <2>1, <2>3, RingInvAbort
  <2>4. CASE Finish(data, idx)
    BY <2>1, <2>4, RingInvFinish
  <2>5. QED
    BY <1>8, <2>2, <2>3, <2>4 DEF rx_data
<1>9. QED
  BY <1>3, <1>4, <1>5, <1>6, <1>7, <1>8 DEF Interrupt

LEMMA RingInvReopen == ASSUME RingInv, close \/ open PROVE RingInv'
<1>1. /\ numbufs' = Clamp(0) \/ numbufs' = Clamp(DEFAULT_NUM_BUFS)
      /\ pc' = pc /\ res' = res
  BY DEF close, open, threads
<1>2. /\ numbufs' \in Nat /\ numbufs' >= 2 /\ numbufs' <= MAX_NUM_BUFS
      /\ pc' \in [Threads -> Places] /\ res' \in [Threads -> Nat]
  BY <1>1, ClampProperties DEF RingInv
<1>3. CASE close
  <2>1. inreadbuf' = -1 /\ outreadbuf' = -1 /\ allocated' = FALSE /\ Quiet
    BY <1>3 DEF close, EmptySlots
  <2>2. RingConsistent' /\ Quiet'
    BY <1>1, <2>1 DEF RingConsistent, Quiet
  <2>3. allocated' \in BOOLEAN
    BY <2>1
  <2>4. QED
    BY <1>2, <2>1, <2>2, <2>3 DEF RingInv
<1>4. CASE open
  <2>1. inreadbuf' = 0 /\ outreadbuf' = -1 /\ allocated' = TRUE
    BY <1>4 DEF open, EmptySlots
  <2>2. QED
    BY <1>2, <2>1, RingInvOpen
<1>5. QED
  BY <1>3, <1>4

LEMMA RingInvInductive == RingInv /\ [Next]_vars => RingInv'
<1> SUFFICES ASSUME RingInv, [Next]_vars PROVE RingInv'
  OBVIOUS
<1>1. CASE Interrupt
  BY <1>1, RingInvInterrupt
<1>2. ASSUME NEW t \in Threads, Read(t) \/ Ioctl(t) PROVE RingInv'
  BY <1>2, RingInvRead, RingInvIoctl
<1>3. CASE close \/ open
  BY <1>3, RingInvReopen
<1>4. CASE UNCHANGED vars
  <2>1. UNCHANGED <<numbufs, allocated, inreadbuf, outreadbuf, pc, res>>
    BY <1>4 DEF vars, ring, threads
  <2>2. QED
    BY <2>1, RingInvKept DEF RingInv
<1>5. QED
  BY <1>1, <1>2, <1>3, <1>4 DEF Next

-----------------------------------------------------------------------------
(* However many threads read, flush and reallocate at once, the receiver   *)
(* and the readers never meet on a slot and never both lack one            *)
(* (dahdi_chan_read, __putbuf_chunk, dahdi_reallocbufs).                   *)
THEOREM RxRingConsistent == Spec => []RingConsistent
<1>1. RingInv => RingConsistent
  BY DEF RingInv
<1>2. QED
  BY <1>1, RingInvInit, RingInvInductive, PTL DEF Spec

-----------------------------------------------------------------------------
(* One thread at a time on the open file. *)

SingleThread == \A t, u \in Threads : t = u

(* The slots that hold complete messages: from outreadbuf up to inreadbuf, *)
(* wrapped, and all of them when inreadbuf is -1.                          *)
Queued(s) ==
  /\ outreadbuf >= 0
  /\ \/ inreadbuf < 0
     \/ outreadbuf < inreadbuf /\ outreadbuf <= s /\ s < inreadbuf
     \/ inreadbuf >= 0 /\ inreadbuf < outreadbuf /\ (outreadbuf <= s \/ s < inreadbuf)

RoomOutsideQueue == \A s \in Slots : s < numbufs /\ ~Queued(s) => readidx[s] < MaxLen

(* SlotsSafe and why it stays so: a slot that is not queued has room.      *)
SafeInv ==
  /\ RingInv
  /\ inreadbuf < numbufs /\ outreadbuf < numbufs
  /\ TypeOK
  /\ ReaderOwnsSlot
  /\ RoomOutsideQueue

LEMMA SafeInvInit == Init => SafeInv
<1> SUFFICES ASSUME Init PROVE SafeInv
  OBVIOUS
<1>1. RingInv
  BY RingInvInit
<1>2. /\ numbufs = DEFAULT_NUM_BUFS /\ inreadbuf = 0 /\ outreadbuf = -1
      /\ readn = Zeroes /\ readidx = Zeroes /\ readbuf = [s \in Slots |-> Blank]
      /\ bytes = 0 /\ pc = [t \in Threads |-> "idle"]
      /\ rxoverrun = FALSE /\ event = FALSE /\ lost = FALSE /\ discarded = FALSE
      /\ hdlc \in HDLCs /\ mtp2 \in MTP2s
  BY DEF Init
<1>3. Blank \in [1 .. MaxLen -> Bytes]
  BY DEF Blank
<1>4. /\ readbuf \in [Slots -> [1 .. MaxLen -> Bytes]]
      /\ readn \in [Slots -> 0 .. MaxLen] /\ readidx \in [Slots -> 0 .. MaxLen]
      /\ \A s \in Slots : readidx[s] = 0
  BY <1>2, <1>3 DEF Zeroes
<1>5. TypeOK
  <2>1. /\ numbufs \in 2 .. MAX_NUM_BUFS /\ allocated \in BOOLEAN
        /\ pc \in [Threads -> Places] /\ res \in [Threads -> Nat]
    BY <1>1 DEF RingInv
  <2>2. inreadbuf \in -1 .. MAX_NUM_BUFS - 1 /\ outreadbuf \in -1 .. MAX_NUM_BUFS - 1
    BY <1>2, BufferAssumption
  <2>3. bytes \in 0 .. CHUNKSIZE
    BY <1>2, BufferAssumption
  <2>4. rxoverrun \in BOOLEAN /\ event \in BOOLEAN /\ lost \in BOOLEAN /\ discarded \in BOOLEAN
    BY <1>2
  <2>5. QED
    BY <1>2, <1>4, <2>1, <2>2, <2>3, <2>4, Zenon DEF TypeOK
<1>6. ReaderOwnsSlot
  BY <1>2 DEF ReaderOwnsSlot
<1>7. RoomOutsideQueue
  BY <1>4 DEF RoomOutsideQueue
<1>8. QED
  BY <1>1, <1>2, <1>5, <1>6, <1>7 DEF SafeInv

Copying(t) == pc[t] \in {"copy", "commit"}

LEMMA CopyingFacts ==
  ASSUME SafeInv, NEW t \in Threads, Copying(t)
  PROVE  /\ res[t] = outreadbuf /\ outreadbuf \in Nat /\ outreadbuf < numbufs
         /\ outreadbuf # inreadbuf /\ allocated
BY DEF SafeInv, RingInv, ReaderOwnsSlot, Copying, Quiet

(* Steps that leave the slots alone, but for what is written into one. *)
LEMMA SafeInvKept ==
  ASSUME SafeInv, RingInv', TypeOK',
         UNCHANGED <<numbufs, inreadbuf, outreadbuf, readidx>>,
         \A t \in Threads : Copying(t)' => res'[t] = outreadbuf /\ outreadbuf # inreadbuf
  PROVE  SafeInv'
<1>1. ReaderOwnsSlot'
  BY DEF ReaderOwnsSlot, Copying
<1>2. RoomOutsideQueue'
  BY DEF SafeInv, RoomOutsideQueue, Queued
<1>3. QED
  BY <1>1, <1>2 DEF SafeInv

(* EmptySlots leaves a ring of empty slots that nobody is copying from. *)
LEMMA SafeInvEmptied ==
  ASSUME SafeInv, RingInv', TypeOK', EmptySlots(numbufs'),
         inreadbuf' \in {0, -1},
         \A t \in Threads : ~Copying(t)'
  PROVE  SafeInv'
<1>1. outreadbuf' = -1 /\ numbufs' \in Nat /\ numbufs' >= 2
  BY DEF EmptySlots, RingInv
<1>2. \A s \in Slots : s < numbufs' => readidx'[s] = 0
  BY DEF EmptySlots
<1>3. ReaderOwnsSlot' /\ RoomOutsideQueue'
  BY <1>2 DEF ReaderOwnsSlot, Copying, RoomOutsideQueue
<1>4. QED
  BY <1>1, <1>3 DEF SafeInv

(* The types after EmptySlots. *)
LEMMA EmptySlotsType ==
  ASSUME TypeOK, NEW n \in Nat, EmptySlots(n)
  PROVE  /\ readn' \in [Slots -> 0 .. MaxLen] /\ readidx' \in [Slots -> 0 .. MaxLen]
         /\ outreadbuf' = -1
         /\ discarded' \in BOOLEAN
<1>1. readn' \in [Slots -> 0 .. MaxLen] /\ readidx' \in [Slots -> 0 .. MaxLen]
  BY DEF EmptySlots, TypeOK
<1>2. outreadbuf' = -1 /\ discarded' \in BOOLEAN
  BY DEF EmptySlots
<1>3. QED
  BY <1>1, <1>2

LEMMA SafeInvCommit ==
  ASSUME SingleThread, SafeInv, RingInv', NEW t \in Threads, commit(t)
  PROVE  SafeInv'
<1> DEFINE out  == outreadbuf
           next == NextSlot(out)
<1>1. /\ res[t] = out /\ out \in Nat /\ out < numbufs /\ out # inreadbuf
  BY CopyingFacts DEF commit, Copying
<1>2. /\ numbufs \in Nat /\ numbufs >= 2 /\ numbufs <= MAX_NUM_BUFS
      /\ inreadbuf \in Int /\ inreadbuf >= -1 /\ inreadbuf < numbufs
      /\ pc \in [Threads -> Places]
      /\ readn \in [Slots -> 0 .. MaxLen] /\ readidx \in [Slots -> 0 .. MaxLen]
  BY DEF SafeInv, RingInv, TypeOK
<1>3. next \in Nat /\ next < numbufs /\ next = IF out + 1 = numbufs THEN 0 ELSE out + 1
  BY <1>1, <1>2, NextSlotProperties
<1>4. /\ readidx' = [readidx EXCEPT ![out] = 0]
      /\ readn' = [readn EXCEPT ![out] = 0]
      /\ outreadbuf' = IF next = inreadbuf THEN -1 ELSE next
      /\ inreadbuf' = IF inreadbuf < 0 THEN out ELSE inreadbuf
      /\ pc' = [pc EXCEPT ![t] = "idle"]
      /\ UNCHANGED <<flags, numbufs, allocated, readbuf, irq, event, res, msgs, discarded>>
  BY <1>1 DEF commit, EmptiesRing, SlotToFill
<1>5. TypeOK'
  <2>1. /\ inreadbuf' \in -1 .. MAX_NUM_BUFS - 1 /\ outreadbuf' \in -1 .. MAX_NUM_BUFS - 1
    BY <1>1, <1>2, <1>3, <1>4
  <2>2. 0 \in 0 .. MaxLen /\ "idle" \in Places
    BY BufferAssumption DEF Places
  <2>3. /\ readn' \in [Slots -> 0 .. MaxLen] /\ readidx' \in [Slots -> 0 .. MaxLen]
    BY <1>2, <1>4, <2>2
  <2>4. pc' \in [Threads -> Places]
    BY <1>2, <1>4, <2>2
  <2>5. QED
    BY <1>4, <2>1, <2>3, <2>4 DEF SafeInv, TypeOK, flags, irq, msgs
<1>6. ReaderOwnsSlot'
  BY <1>2, <1>4 DEF ReaderOwnsSlot, SingleThread
<1>7. RoomOutsideQueue'
  <2> SUFFICES ASSUME NEW s \in Slots, s < numbufs, ~Queued(s)' PROVE readidx'[s] < MaxLen
    BY <1>4 DEF RoomOutsideQueue
  <2>1. CASE s = out
    BY <1>2, <1>4, <2>1
  <2>2. CASE s # out
    <3>1. ~Queued(s)
      BY <1>1, <1>2, <1>3, <1>4, <2>2 DEF Queued, Slots
    <3>2. QED
      BY <1>2, <1>4, <2>2, <3>1 DEF SafeInv, RoomOutsideQueue
  <2>3. QED
    BY <2>1, <2>2
<1>8. QED
  BY <1>1, <1>2, <1>3, <1>4, <1>5, <1>6, <1>7 DEF SafeInv

LEMMA SafeInvRead ==
  ASSUME SingleThread, SafeInv, RingInv', NEW t \in Threads, Read(t)
  PROVE  SafeInv'
<1>1. /\ pc \in [Threads -> Places] /\ res \in [Threads -> Nat] /\ outreadbuf \in Int
      /\ allocated => outreadbuf # inreadbuf
  BY DEF SafeInv, RingInv, RingConsistent
<1>2. CASE pick(t)
  <2>1. TypeOK'
    BY <1>2 DEF pick, SafeInv, RingInv, TypeOK, flags, ring, irq, msgs
  <2>2. ASSUME NEW u \in Threads, Copying(u)' PROVE res'[u] = outreadbuf /\ outreadbuf # inreadbuf
    <3>1. u = t
      BY DEF SingleThread
    <3>2. QED
      BY <1>1, <1>2, <2>2, <3>1 DEF pick, Copying
  <2>3. QED
    BY <1>2, <2>1, <2>2, SafeInvKept DEF pick, ring
<1>3. CASE check(t) \/ interrupted(t) \/ copy(t)
  <2>1. TypeOK'
    BY <1>3 DEF check, interrupted, copy, SafeInv, RingInv, TypeOK, flags, ring, irq, msgs
  <2>2. \A u \in Threads : Copying(u)' => Copying(u)
    BY <1>1, <1>3 DEF check, interrupted, copy, Copying
  <2>3. QED
    BY <1>3, <2>1, <2>2, CopyingFacts, SafeInvKept DEF check, interrupted, copy, ring
<1>4. CASE commit(t)
  BY <1>4, SafeInvCommit
<1>5. QED
  BY <1>2, <1>3, <1>4 DEF Read

LEMMA SafeInvIoctl ==
  ASSUME SingleThread, SafeInv, RingInv', NEW t \in Threads, Ioctl(t)
  PROVE  SafeInv'
<1>1. /\ pc \in [Threads -> Places] /\ res \in [Threads -> Nat]
      /\ numbufs \in Nat /\ numbufs >= 2 /\ numbufs <= MAX_NUM_BUFS
      /\ numbufs' \in Nat
      /\ \A u \in Threads : u = t
      /\ TypeOK
  BY DEF SafeInv, RingInv, SingleThread
<1>2. CASE flush_read(t) \/ hangup(t)
  <2>1. /\ EmptySlots(numbufs') /\ inreadbuf' = 0 /\ pc[t] = "idle" /\ pc' \in {pc, Wake}
        /\ UNCHANGED <<flags, numbufs, allocated, readbuf, irq, event, res, msgs>>
    BY <1>2 DEF flush_read, hangup, Calls, threads
  <2>2. \A u \in Threads : ~Copying(u)'
    BY <1>1, <2>1 DEF Wake, Copying
  <2>3. TypeOK'
    BY <1>1, <2>1, EmptySlotsType DEF RingInv, TypeOK, flags, irq, msgs
  <2>4. QED
    BY <2>1, <2>2, <2>3, SafeInvEmptied
<1>3. CASE reallocbufs(t)
  <2>1. /\ EmptySlots(numbufs') /\ inreadbuf' = 0 /\ pc'[t] = "idle"
        /\ readbuf' = [s \in Slots |-> IF s < numbufs' THEN Blank ELSE readbuf[s]]
        /\ UNCHANGED <<flags, allocated, irq, event, res, msgs>>
    BY <1>1, <1>3 DEF reallocbufs
  <2>2. \A u \in Threads : ~Copying(u)'
    BY <1>1, <2>1 DEF Copying
  <2>3. readbuf' \in [Slots -> [1 .. MaxLen -> Bytes]]
    BY <1>1, <2>1 DEF TypeOK, Blank
  <2>4. TypeOK'
    BY <1>1, <2>1, <2>3, EmptySlotsType DEF RingInv, TypeOK, flags, irq, msgs
  <2>5. QED
    BY <2>1, <2>2, <2>4, SafeInvEmptied
<1>4. CASE set_bufinfo(t) \/ getevent(t)
  <2>1. /\ UNCHANGED <<flags, ring, irq, msgs, discarded>> /\ event' \in BOOLEAN
        /\ pc[t] = "idle" /\ pc'[t] \in {"idle", "realloc"}
    BY <1>1, <1>4 DEF set_bufinfo, getevent, Calls, TypeOK, threads
  <2>2. \A u \in Threads : ~Copying(u)'
    BY <1>1, <2>1 DEF Copying
  <2>3. TypeOK'
    BY <1>1, <2>1 DEF RingInv, TypeOK, flags, ring, irq, msgs
  <2>4. QED
    BY <2>1, <2>2, <2>3, SafeInvKept DEF ring
<1>5. QED
  BY <1>2, <1>3, <1>4 DEF Ioctl

(* The end of a message of len bytes in the slot that receives. *)
LEMMA SafeInvFinish ==
  ASSUME SafeInv, RingInv', inreadbuf > -1, NEW data, NEW len \in 0 .. MaxLen,
         Finish(data, len),
         readbuf' \in [Slots -> [1 .. MaxLen -> Bytes]],
         bytes' \in 0 .. CHUNKSIZE, rxoverrun' \in BOOLEAN, event' \in BOOLEAN,
         UNCHANGED <<flags, numbufs, allocated, res, discarded>>
  PROVE  SafeInv'
<1> DEFINE in   == inreadbuf
           next == NextSlot(in)
<1>1. /\ in \in Nat /\ in < numbufs /\ in # outreadbuf /\ in \in Slots
      /\ numbufs \in Nat /\ numbufs >= 2 /\ numbufs <= MAX_NUM_BUFS
      /\ outreadbuf \in Int /\ outreadbuf >= -1 /\ outreadbuf < numbufs
      /\ pc \in [Threads -> Places] /\ res \in [Threads -> Nat]
      /\ readn \in [Slots -> 0 .. MaxLen] /\ readidx \in [Slots -> 0 .. MaxLen]
  BY DEF SafeInv, RingInv, RingConsistent, TypeOK, Slots
<1>2. next \in Nat /\ next < numbufs /\ next = IF in + 1 = numbufs THEN 0 ELSE in + 1
  BY <1>1, NextSlotProperties
<1>3. lost' \in BOOLEAN
  BY DEF Finish, SafeInv, TypeOK
<1>4. /\ pc' \in {pc, Wake}
      /\ readn' \in [Slots -> 0 .. MaxLen] /\ readidx' \in [Slots -> 0 .. MaxLen]
      /\ \A s \in Slots : s # in => readidx'[s] = readidx[s]
  <2>1. 0 \in 0 .. MaxLen
    BY BufferAssumption
  <2>2. PICK n \in 0 .. MaxLen : /\ readn' = [readn EXCEPT ![in] = n]
                                 /\ readidx' = [readidx EXCEPT ![in] = n]
    BY <2>1 DEF Finish
  <2>3. pc' \in {pc, Wake}
    BY DEF Finish
  <2>4. /\ readn' \in [Slots -> 0 .. MaxLen] /\ readidx' \in [Slots -> 0 .. MaxLen]
        /\ \A s \in Slots : s # in => readidx'[s] = readidx[s]
    BY <1>1, <2>2
  <2>5. QED
    BY <2>3, <2>4
<1>5. \/ UNCHANGED <<inreadbuf, outreadbuf>> /\ readidx'[in] = 0
      \/ /\ inreadbuf' = IF next = outreadbuf THEN -1 ELSE next
         /\ outreadbuf' = IF outreadbuf < 0 THEN in ELSE outreadbuf
  BY <1>1 DEF Finish, FillsRing
<1>6. TypeOK'
  <2>1. inreadbuf' \in -1 .. MAX_NUM_BUFS - 1 /\ outreadbuf' \in -1 .. MAX_NUM_BUFS - 1
    BY <1>1, <1>2, <1>5
  <2>2. QED
    BY <1>3, <1>4, <2>1 DEF SafeInv, RingInv, TypeOK, flags
<1>7. ReaderOwnsSlot'
  <2> SUFFICES ASSUME NEW u \in Threads, Copying(u)'
               PROVE  res[u] = outreadbuf' /\ res[u] # inreadbuf'
    BY DEF ReaderOwnsSlot, Copying
  <2>1. Copying(u)
    BY <1>4 DEF Wake, Copying
  <2>2. QED
    BY <1>1, <1>2, <1>5, <2>1, CopyingFacts
<1>8. RoomOutsideQueue'
  <2> SUFFICES ASSUME NEW s \in Slots, s < numbufs, ~Queued(s)' PROVE readidx'[s] < MaxLen
    BY DEF RoomOutsideQueue
  <2>1. CASE UNCHANGED <<inreadbuf, outreadbuf>> /\ readidx'[in] = 0
    BY <1>1, <1>4, <2>1 DEF Queued, SafeInv, RoomOutsideQueue
  <2>2. CASE /\ inreadbuf' = IF next = outreadbuf THEN -1 ELSE next
             /\ outreadbuf' = IF outreadbuf < 0 THEN in ELSE outreadbuf
    <3>1. s # in /\ ~Queued(s)
      BY <1>1, <1>2, <2>2 DEF Queued, Slots
    <3>2. QED
      BY <1>4, <3>1 DEF SafeInv, RoomOutsideQueue
  <2>3. QED
    BY <1>5, <2>1, <2>2
<1>9. QED
  BY <1>1, <1>2, <1>5, <1>6, <1>7, <1>8 DEF SafeInv

LEMMA SafeInvAbort ==
  ASSUME SafeInv, RingInv', inreadbuf > -1, Abort,
         readbuf' \in [Slots -> [1 .. MaxLen -> Bytes]],
         bytes' \in 0 .. CHUNKSIZE, rxoverrun' \in BOOLEAN,
         UNCHANGED <<flags, numbufs, allocated, res, discarded>>
  PROVE  SafeInv'
<1>1. /\ readidx \in [Slots -> 0 .. MaxLen] /\ event \in BOOLEAN
      /\ inreadbuf \in Slots
  BY DEF SafeInv, RingInv, TypeOK, Slots
<1>2. /\ readidx' = [readidx EXCEPT ![inreadbuf] = 0]
      /\ pc' \in {pc, Wake}
      /\ UNCHANGED <<inreadbuf, outreadbuf, readn, msgs>>
  BY DEF Abort
<1>3. event' \in BOOLEAN
  BY <1>1 DEF Abort
<1>4. readidx' \in [Slots -> 0 .. MaxLen]
  BY <1>1, <1>2
<1>5. TypeOK'
  BY <1>2, <1>3, <1>4 DEF SafeInv, RingInv, TypeOK, flags, msgs
<1>6. ReaderOwnsSlot'
  BY <1>2 DEF SafeInv, ReaderOwnsSlot, Wake
<1>7. RoomOutsideQueue'
  <2>1. \A s \in Slots : readidx'[s] = readidx[s] \/ readidx'[s] = 0
    BY <1>1, <1>2
  <2>2. QED
    BY <1>2, <2>1 DEF SafeInv, RoomOutsideQueue, Queued
<1>8. QED
  BY <1>2, <1>5, <1>6, <1>7 DEF SafeInv

LEMMA SafeInvInterrupt == ASSUME SafeInv, RingInv', Interrupt PROVE SafeInv'
<1>1. /\ bytes \in 0 .. CHUNKSIZE /\ rxoverrun \in BOOLEAN /\ event \in BOOLEAN
      /\ readbuf \in [Slots -> [1 .. MaxLen -> Bytes]]
      /\ readidx \in [Slots -> 0 .. MaxLen]
      /\ TypeOK
  BY DEF SafeInv, TypeOK
<1>2. inreadbuf > -1 => inreadbuf \in Slots /\ readidx[inreadbuf] \in 0 .. MaxLen
  BY DEF SafeInv, RingInv, TypeOK, Slots
<1>3. CASE rx_start \/ rx_overrun
  <2>1. /\ UNCHANGED <<flags, ring, res, msgs, discarded>> /\ pc' \in {pc, Wake}
        /\ bytes' \in 0 .. CHUNKSIZE
    BY <1>1, <1>3 DEF rx_start, rx_overrun, threads
  <2>2. rxoverrun' \in BOOLEAN /\ event' \in BOOLEAN
    BY <1>1, <1>3 DEF rx_start, rx_overrun
  <2>3. TypeOK'
    BY <1>1, <2>1, <2>2 DEF RingInv, TypeOK, flags, ring, msgs
  <2>4. \A u \in Threads : Copying(u)' => Copying(u)
    BY <2>1 DEF Wake, Copying
  <2>5. QED
    BY <2>1, <2>3, <2>4, CopyingFacts, SafeInvKept DEF ring
<1>4. ASSUME ConsumeHdlc
      PROVE  /\ inreadbuf > -1
             /\ bytes' \in 0 .. CHUNKSIZE /\ rxoverrun' \in BOOLEAN
             /\ UNCHANGED <<flags, numbufs, allocated, res, discarded>>
  BY <1>1, <1>4 DEF ConsumeHdlc, Consume
<1>5. CASE rx_frame_end
  <2>1. ConsumeHdlc /\ Finish(readbuf[inreadbuf], readidx[inreadbuf]) /\ UNCHANGED <<readbuf, event>>
    BY <1>5 DEF rx_frame_end
  <2>2. QED
    BY <1>1, <1>2, <1>4, <2>1, SafeInvFinish
<1>6. CASE rx_frame_abort
  BY <1>1, <1>4, <1>6, SafeInvAbort DEF rx_frame_abort
<1>7. CASE rx_nothing
  <2>1. ConsumeHdlc
    BY <1>7 DEF rx_nothing
  <2>2. UNCHANGED <<inreadbuf, outreadbuf, readbuf, readn, readidx, event, pc, msgs>>
    BY <1>7 DEF rx_nothing
  <2>3. TypeOK'
    BY <1>1, <1>4, <2>1, <2>2 DEF TypeOK, flags, msgs
  <2>4. QED
    BY <1>4, <2>1, <2>2, <2>3, CopyingFacts, SafeInvKept DEF Copying
<1>8. ASSUME NEW byte \in Bytes, rx_data(byte) PROVE SafeInv'
  <2> DEFINE in   == inreadbuf
             idx  == readidx[in] + Left
             data == IF Left = 1 THEN [readbuf[in] EXCEPT ![idx] = byte] ELSE readbuf[in]
  <2>1. /\ in > -1 /\ bytes > 0 /\ bytes' = bytes - Left
        /\ rxoverrun' = (rxoverrun /\ bytes' > 0)
        /\ UNCHANGED <<flags, numbufs, allocated, res, discarded>>
    BY <1>8 DEF rx_data, Consume
  <2>2. /\ Left \in {0, 1}
        /\ idx \in 0 .. MaxLen
    BY <1>2, <2>1 DEF Left, Least
  <2>3. bytes' \in 0 .. CHUNKSIZE /\ rxoverrun' \in BOOLEAN
    BY <1>1, <2>1, <2>2
  <2>4. readbuf' = [readbuf EXCEPT ![in] = data]
    BY <1>8 DEF rx_data
  <2>5. data \in [1 .. MaxLen -> Bytes]
    BY <1>1, <1>2, <2>1, <2>2
  <2>6. readbuf' \in [Slots -> [1 .. MaxLen -> Bytes]]
    BY <1>1, <2>4, <2>5
  <2>7. CASE Abort
    BY <2>1, <2>3, <2>6, <2>7, SafeInvAbort
  <2>8. CASE Finish(data, idx) /\ UNCHANGED event
    <3>1. idx \in 0 .. MaxLen /\ event' \in BOOLEAN
      BY <1>1, <2>2, <2>8
    <3>2. QED
      BY <2>1, <2>3, <2>6, <2>8, <3>1, SafeInvFinish
  <2>9. CASE /\ idx < MaxLen /\ readidx' = [readidx EXCEPT ![in] = idx]
             /\ UNCHANGED <<inreadbuf, outreadbuf, readn, event, pc, msgs>>
    <3>1. /\ readidx' \in [Slots -> 0 .. MaxLen]
          /\ \A s \in Slots : readidx'[s] = readidx[s] \/ readidx'[s] < MaxLen
      BY <1>1, <2>2, <2>9
    <3>2. TypeOK'
      BY <1>1, <2>1, <2>3, <2>6, <2>9, <3>1 DEF TypeOK, flags, msgs
    <3>3. ReaderOwnsSlot'
      BY <2>1, <2>9 DEF SafeInv, ReaderOwnsSlot
    <3>4. RoomOutsideQueue'
      BY <2>1, <2>9, <3>1 DEF SafeInv, RoomOutsideQueue, Queued
    <3>5. QED
      BY <2>1, <2>9, <3>2, <3>3, <3>4 DEF SafeInv
  <2>10. QED
    BY <1>8, <2>7, <2>8, <2>9 DEF rx_data
<1>9. QED
  BY <1>3, <1>5, <1>6, <1>7, <1>8 DEF Interrupt

LEMMA SafeInvReopen == ASSUME SafeInv, RingInv', close \/ open PROVE SafeInv'
<1>1. /\ EmptySlots(numbufs') /\ inreadbuf' \in {0, -1} /\ Quiet
      /\ UNCHANGED <<flags, irq, pc, res, msgs>> /\ event' = FALSE
      /\ \/ readbuf' = readbuf
         \/ readbuf' = [s \in Slots |-> IF s < numbufs' THEN Blank ELSE readbuf[s]]
  BY DEF close, open, threads
<1>2. numbufs' \in Nat /\ TypeOK /\ event' \in BOOLEAN
  BY <1>1 DEF RingInv, SafeInv
<1>3. readbuf' \in [Slots -> [1 .. MaxLen -> Bytes]]
  BY <1>1, <1>2 DEF TypeOK, Blank
<1>4. TypeOK'
  BY <1>1, <1>2, <1>3, EmptySlotsType DEF RingInv, TypeOK, flags, irq, msgs
<1>5. \A u \in Threads : ~Copying(u)'
  BY <1>1 DEF Quiet, Copying
<1>6. QED
  BY <1>1, <1>4, <1>5, SafeInvEmptied

LEMMA SafeInvInductive == ASSUME SingleThread PROVE SafeInv /\ [Next]_vars => SafeInv'
<1> SUFFICES ASSUME SafeInv, [Next]_vars PROVE SafeInv'
  OBVIOUS
<1>1. RingInv'
  BY RingInvInductive DEF SafeInv
<1>2. CASE Interrupt
  BY <1>1, <1>2, SafeInvInterrupt
<1>3. ASSUME NEW t \in Threads, Read(t) \/ Ioctl(t) PROVE SafeInv'
  BY <1>1, <1>3, SafeInvRead, SafeInvIoctl
<1>4. CASE close \/ open
  BY <1>1, <1>4, SafeInvReopen
<1>5. CASE UNCHANGED vars
  <2>1. UNCHANGED <<flags, ring, irq, event, threads, msgs, discarded>>
    BY <1>5 DEF vars
  <2>2. TypeOK'
    BY <2>1 DEF SafeInv, TypeOK, flags, ring, irq, threads, msgs
  <2>3. QED
    BY <1>1, <2>1, <2>2, CopyingFacts, SafeInvKept DEF ring, threads, Copying
<1>6. QED
  BY <1>2, <1>3, <1>4, <1>5 DEF Next

(* When one thread at a time uses the file, read() copies without          *)
(* chan->lock only from the slot it owns, and the interrupt always has     *)
(* room for the bytes it stores (dahdi_chan_read, __putbuf_chunk).         *)
THEOREM RxSlotsSafe == ASSUME SingleThread PROVE Spec => []SlotsSafe
<1>1. SafeInv /\ [Next]_vars => SafeInv'
  BY SafeInvInductive
<1>2. SafeInv => SlotsSafe
  <2> SUFFICES ASSUME SafeInv PROVE SlotsSafe
    OBVIOUS
  <2>1. RoomInSlot
    BY DEF SafeInv, RingInv, RingConsistent, RoomOutsideQueue, Queued, Slots, RoomInSlot
  <2>2. QED
    BY <2>1 DEF SafeInv, SlotsSafe
<1>3. QED
  BY <1>1, <1>2, SafeInvInit, PTL DEF Spec
-----------------------------------------------------------------------------
(* The ring is a pipe of messages. *)

MsgIn(s) == SubSeq(readbuf[s], 1, readn[s])

(* What a read() has copied is the head of the oldest message.             *)
GotInv ==
  /\ got \in [Threads -> Seq(Bytes)]
  /\ \A t \in Threads : pc[t] = "commit" =>
       \E count \in 1 .. MaxLen :
         got[t] = SubSeq(readbuf[outreadbuf], 1, Least(count, readn[outreadbuf]))

PipeInv == SafeInv /\ GotInv

(* The first n bytes of a buffer. *)
LEMMA PrefixIs ==
  ASSUME NEW data \in [1 .. MaxLen -> Bytes], NEW n \in 0 .. MaxLen
  PROVE  /\ SubSeq(data, 1, n) \in Seq(Bytes)
         /\ Len(SubSeq(data, 1, n)) = n
         /\ \A i \in 1 .. n : SubSeq(data, 1, n)[i] = data[i]
<1>1. \A i \in 1 .. n : data[i] \in Bytes
  OBVIOUS
<1>2. n \in Int /\ n - 1 + 1 = n
  OBVIOUS
<1>3. /\ SubSeq(data, 1, n) \in Seq(Bytes)
      /\ Len(SubSeq(data, 1, n)) = IF 1 <= n THEN n - 1 + 1 ELSE 0
      /\ \A i \in 1 .. n - 1 + 1 : SubSeq(data, 1, n)[i] = data[1 + i - 1]
  BY <1>1, <1>2, SubSeqProperties
<1> QED
  BY <1>2, <1>3

LEMMA PrefixOfPrefix ==
  ASSUME NEW data \in [1 .. MaxLen -> Bytes], NEW n \in 0 .. MaxLen, NEW m \in 0 .. n
  PROVE  SubSeq(SubSeq(data, 1, n), 1, m) = SubSeq(data, 1, m)
<1> DEFINE p == SubSeq(data, 1, n)
<1>1. p \in Seq(Bytes) /\ Len(p) = n /\ \A i \in 1 .. n : p[i] = data[i]
  BY PrefixIs
<1>2. m \in 0 .. MaxLen /\ m \in Int /\ m - 1 + 1 = m
  OBVIOUS
<1>3. /\ SubSeq(data, 1, m) \in Seq(Bytes) /\ Len(SubSeq(data, 1, m)) = m
      /\ \A i \in 1 .. m : SubSeq(data, 1, m)[i] = data[i]
  BY <1>2, PrefixIs
<1> HIDE DEF p
<1>4. \A i \in 1 .. m : p[i] \in Bytes /\ p[i] = data[i]
  BY <1>1
<1>5. /\ SubSeq(p, 1, m) \in Seq(Bytes)
      /\ Len(SubSeq(p, 1, m)) = IF 1 <= m THEN m - 1 + 1 ELSE 0
      /\ \A i \in 1 .. m - 1 + 1 : SubSeq(p, 1, m)[i] = p[1 + i - 1]
  BY <1>2, <1>4, SubSeqProperties
<1>6. Len(SubSeq(p, 1, m)) = m /\ \A i \in 1 .. m : SubSeq(p, 1, m)[i] = SubSeq(data, 1, m)[i]
  BY <1>2, <1>3, <1>4, <1>5
<1>7. SubSeq(p, 1, m) = SubSeq(data, 1, m)
  BY <1>3, <1>5, <1>6, SeqEqual
<1> QED
  BY <1>7 DEF p

(* The slots that wait are in the ring and not the one to fill, ...        *)
LEMMA WindowSlots ==
  ASSUME SafeInv
  PROVE  /\ Count \in 0 .. numbufs
         /\ outreadbuf >= 0 => Count >= 1 /\ QueuedSlot(1) = outreadbuf
         /\ \A i \in 1 .. Count :
              /\ QueuedSlot(i) \in Slots
              /\ QueuedSlot(i) # inreadbuf
              /\ i > 1 => QueuedSlot(i) # outreadbuf
<1>1. /\ numbufs \in Nat /\ numbufs >= 2 /\ numbufs <= MAX_NUM_BUFS
      /\ inreadbuf \in -1 .. numbufs - 1 /\ outreadbuf \in -1 .. numbufs - 1
      /\ outreadbuf >= 0 => inreadbuf # outreadbuf
  BY DEF SafeInv, RingInv, RingConsistent
<1>2. Count \in 0 .. numbufs
  BY <1>1 DEF Count
<1>3. outreadbuf >= 0 => Count >= 1 /\ QueuedSlot(1) = outreadbuf
  BY <1>1 DEF Count, QueuedSlot
<1>4. ASSUME NEW i \in 1 .. Count
      PROVE  /\ QueuedSlot(i) \in 0 .. numbufs - 1
             /\ QueuedSlot(i) # inreadbuf
             /\ i > 1 => QueuedSlot(i) # outreadbuf
  BY <1>1 DEF Count, QueuedSlot
<1> QED
  BY <1>1, <1>2, <1>3, <1>4 DEF Slots

(* ... a complete message adds the one that was filled, ...                *)
LEMMA WindowGrows ==
  ASSUME numbufs \in Nat, numbufs >= 2, UNCHANGED numbufs,
         inreadbuf \in 0 .. numbufs - 1, outreadbuf \in -1 .. numbufs - 1,
         inreadbuf # outreadbuf,
         inreadbuf' = IF FillsRing(NextSlot(inreadbuf)) THEN -1 ELSE NextSlot(inreadbuf),
         outreadbuf' = IF outreadbuf < 0 THEN inreadbuf ELSE outreadbuf
  PROVE  /\ Count < numbufs /\ Count' = Count + 1
         /\ QueuedSlot(Count)' = inreadbuf
         /\ \A i \in 1 .. Count : QueuedSlot(i)' = QueuedSlot(i)
<1> DEFINE next == NextSlot(inreadbuf)
<1>1. next = IF inreadbuf + 1 = numbufs THEN 0 ELSE inreadbuf + 1
  BY NextSlotProperties
<1>2. inreadbuf' = IF next = outreadbuf THEN -1 ELSE next
  BY DEF FillsRing
<1> HIDE DEF next
<1>3. CASE outreadbuf = -1
  <2>1. Count = 0
    BY <1>3 DEF Count
  <2>2. outreadbuf' = inreadbuf /\ inreadbuf' = next
    BY <1>1, <1>2, <1>3
  <2>3. Count' = 1
    BY <1>1, <2>2 DEF Count
  <2>4. QueuedSlot(Count)' = inreadbuf
    BY <1>3, <2>2, <2>3 DEF QueuedSlot
  <2> HIDE DEF Count
  <2> QED
    BY <2>1, <2>3, <2>4
<1>4. CASE outreadbuf >= 0
  <2>1. outreadbuf' = outreadbuf
    BY <1>4
  <2>2. Count = IF inreadbuf >= outreadbuf THEN inreadbuf - outreadbuf
                ELSE inreadbuf - outreadbuf + numbufs
    BY <1>4 DEF Count
  <2>3. Count' = IF inreadbuf' < 0 THEN numbufs
                 ELSE IF inreadbuf' >= outreadbuf THEN inreadbuf' - outreadbuf
                 ELSE inreadbuf' - outreadbuf + numbufs
    BY <1>4, <2>1 DEF Count
  <2>4. Count \in Nat /\ Count < numbufs /\ Count' = Count + 1
    BY <1>1, <1>2, <1>4, <2>2, <2>3
  <2>5. \A i : QueuedSlot(i)' = QueuedSlot(i)
    BY <2>1 DEF QueuedSlot
  <2>6. QueuedSlot(Count + 1) = inreadbuf
    BY <1>4, <2>2 DEF QueuedSlot
  <2> HIDE DEF Count
  <2>7. QueuedSlot(Count)' = inreadbuf
    BY <2>1, <2>4, <2>6 DEF QueuedSlot
  <2> QED
    BY <2>4, <2>5, <2>7
<1> QED
  BY <1>3, <1>4

(* ... and a read() takes the oldest.                                      *)
LEMMA WindowShrinks ==
  ASSUME numbufs \in Nat, numbufs >= 2, UNCHANGED numbufs,
         inreadbuf \in -1 .. numbufs - 1, outreadbuf \in 0 .. numbufs - 1,
         inreadbuf # outreadbuf,
         inreadbuf' = SlotToFill(outreadbuf),
         outreadbuf' = IF EmptiesRing(NextSlot(outreadbuf)) THEN -1 ELSE NextSlot(outreadbuf)
  PROVE  /\ Count' = Count - 1
         /\ \A i \in 1 .. Count - 1 : QueuedSlot(i)' = QueuedSlot(i + 1)
<1> DEFINE next == NextSlot(outreadbuf)
<1>1. next = IF outreadbuf + 1 = numbufs THEN 0 ELSE outreadbuf + 1
  BY NextSlotProperties
<1>2. outreadbuf' = IF next = inreadbuf THEN -1 ELSE next
  BY DEF EmptiesRing
<1> HIDE DEF next
<1>3. Count = IF inreadbuf < 0 THEN numbufs
              ELSE IF inreadbuf >= outreadbuf THEN inreadbuf - outreadbuf
              ELSE inreadbuf - outreadbuf + numbufs
  BY DEF Count
<1>4. inreadbuf' = IF inreadbuf < 0 THEN outreadbuf ELSE inreadbuf
  BY DEF SlotToFill
<1>5. CASE next = inreadbuf
  <2>1. Count = 1
    BY <1>1, <1>3, <1>5
  <2>2. Count' = 0
    BY <1>2, <1>5 DEF Count
  <2> HIDE DEF Count
  <2> QED
    BY <2>1, <2>2
<1>6. CASE next # inreadbuf
  <2>1. outreadbuf' = next /\ next >= 0
    BY <1>1, <1>2, <1>6
  <2>2. Count' = IF inreadbuf' >= next THEN inreadbuf' - next
                 ELSE inreadbuf' - next + numbufs
    BY <1>4, <2>1 DEF Count
  <2>3. Count' = Count - 1
    BY <1>1, <1>3, <1>4, <1>6, <2>2
  <2>4. ASSUME NEW i \in 1 .. Count - 1 PROVE QueuedSlot(i)' = QueuedSlot(i + 1)
    <3>1. QueuedSlot(i)' = IF next + i - 1 < numbufs THEN next + i - 1
                           ELSE next + i - 1 - numbufs
      BY <2>1 DEF QueuedSlot
    <3>2. i \in Nat /\ i <= numbufs
      BY <1>3
    <3>3. QueuedSlot(i + 1) = IF outreadbuf + i < numbufs THEN outreadbuf + i
                              ELSE outreadbuf + i - numbufs
      BY <3>2 DEF QueuedSlot
    <3> QED
      BY <1>1, <3>1, <3>2, <3>3
  <2> QED
    BY <2>3, <2>4
<1> QED
  BY <1>5, <1>6

(* What waits is a sequence of byte strings. *)
QueueSound ==
  /\ Count \in Nat
  /\ Queue \in Seq(Seq(Bytes))
  /\ Len(Queue) = Count
  /\ \A i \in 1 .. Count : Queue[i] = MsgIn(QueuedSlot(i))

LEMMA QueueIsSeq == SafeInv => QueueSound
<1> SUFFICES ASSUME SafeInv PROVE QueueSound
  OBVIOUS
<1>1. Count \in Nat
  BY WindowSlots DEF SafeInv, RingInv
<1>2. ASSUME NEW i \in 1 .. Count PROVE MsgIn(QueuedSlot(i)) \in Seq(Bytes)
  <2> DEFINE s == QueuedSlot(i)
  <2>1. s \in Slots
    BY WindowSlots
  <2> HIDE DEF s
  <2>2. readbuf[s] \in [1 .. MaxLen -> Bytes] /\ readn[s] \in 0 .. MaxLen
    BY <2>1 DEF SafeInv, TypeOK
  <2> QED
    BY <2>2, PrefixIs DEF s, MsgIn
<1>3. Queue = [i \in 1 .. Count |-> MsgIn(QueuedSlot(i))]
  BY DEF Queue, MsgIn
<1> HIDE DEF Count
<1>4. Queue \in [1 .. Count -> Seq(Bytes)]
  BY <1>2, <1>3
<1>5. Queue \in Seq(Seq(Bytes)) /\ Len(Queue) = Count
  BY <1>1, <1>4
<1> QED
  BY <1>1, <1>3, <1>5 DEF QueueSound

LEMMA QueueIsSeqPrimed == SafeInv' => QueueSound'
BY QueueIsSeq, PTL

(* The next queue, from the messages in its slots. *)
LEMMA QueueEqual ==
  ASSUME QueueSound', NEW q \in Seq(Seq(Bytes)), Len(q) = Count',
         \A i \in 1 .. Count' : q[i] = MsgIn(QueuedSlot(i))'
  PROVE  Queue' = q
<1>1. /\ Queue' \in Seq(Seq(Bytes)) /\ Len(Queue') = Count'
      /\ \A i \in 1 .. Count' : Queue'[i] = MsgIn(QueuedSlot(i))'
  BY DEF QueueSound
<1> HIDE DEF Queue, Count
<1> QED
  BY <1>1, SeqEqual

(* What the interrupt stores in the slot that receives is not queued. *)
LEMMA QueueKept ==
  ASSUME SafeInv, UNCHANGED <<numbufs, inreadbuf, outreadbuf>>,
         \A s \in Slots : s # inreadbuf => readbuf'[s] = readbuf[s] /\ readn'[s] = readn[s]
  PROVE  Queue' = Queue
<1>1. Count' = Count /\ \A i : QueuedSlot(i)' = QueuedSlot(i)
  BY DEF Count, QueuedSlot
<1>2. ASSUME NEW i \in 1 .. Count PROVE MsgIn(QueuedSlot(i))' = MsgIn(QueuedSlot(i))
  <2>1. QueuedSlot(i) \in Slots /\ QueuedSlot(i) # inreadbuf
    BY WindowSlots
  <2> QED
    BY <1>1, <2>1 DEF MsgIn
<1>3. Queue = [i \in 1 .. Count |-> MsgIn(QueuedSlot(i))]
  BY DEF Queue, MsgIn
<1>4. Queue' = [i \in 1 .. Count' |-> MsgIn(QueuedSlot(i))']
  BY DEF Queue, MsgIn
<1> HIDE DEF Count
<1> QED
  BY <1>1, <1>2, <1>3, <1>4

LEMMA RingKept == ASSUME UNCHANGED ring PROVE Queue' = Queue
BY DEF ring, Queue, Count, QueuedSlot

(* A complete message joins the queue or, repeated, is left out.           *)
LEMMA FinishReceives ==
  ASSUME SafeInv, SafeInv', inreadbuf > -1,
         NEW data \in [1 .. MaxLen -> Bytes], NEW len \in 1 .. MaxLen, Finish(data, len),
         readbuf' = [readbuf EXCEPT ![inreadbuf] = data],
         UNCHANGED <<numbufs, allocated, answer, discarded>>
  PROVE  \/ Queue' = Queue
         \/ \E message \in Pipe!Messages : Pipe!Receive(message)
<1> DEFINE in      == inreadbuf
           message == SubSeq(data, 1, len)
<1>1. /\ numbufs \in Nat /\ numbufs >= 2 /\ numbufs <= MAX_NUM_BUFS
      /\ inreadbuf \in 0 .. numbufs - 1 /\ outreadbuf \in -1 .. numbufs - 1
      /\ inreadbuf # outreadbuf /\ allocated = TRUE
  BY DEF SafeInv, RingInv, RingConsistent
<1>2. /\ in \in Slots
      /\ readbuf \in [Slots -> [1 .. MaxLen -> Bytes]] /\ readn \in [Slots -> 0 .. MaxLen]
  <2>1. in \in Slots
    BY <1>1 DEF Slots
  <2> QED
    BY <2>1 DEF SafeInv, TypeOK
<1>3. \A s \in Slots : s # in => readbuf'[s] = readbuf[s] /\ readn'[s] = readn[s]
  BY <1>2 DEF Finish
<1>4. CASE UNCHANGED <<inreadbuf, outreadbuf>>
  BY <1>3, <1>4, QueueKept
<1>5. CASE /\ readn' = [readn EXCEPT ![in] = len]
           /\ inreadbuf' = IF FillsRing(NextSlot(in)) THEN -1 ELSE NextSlot(in)
           /\ outreadbuf' = IF outreadbuf < 0 THEN in ELSE outreadbuf
  <2>1. /\ Count < numbufs /\ Count' = Count + 1
        /\ QueuedSlot(Count)' = in
        /\ \A i \in 1 .. Count : QueuedSlot(i)' = QueuedSlot(i)
    BY <1>1, <1>5, WindowGrows
  <2>2. \A i \in 1 .. Count : QueuedSlot(i) \in Slots /\ QueuedSlot(i) # in
    BY WindowSlots
  <2>3. QueueSound /\ QueueSound'
    BY QueueIsSeq, QueueIsSeqPrimed
  <2>4. readbuf'[in] = data /\ readn'[in] = len
    BY <1>2, <1>5
  <2>5. len \in 0 .. MaxLen
    OBVIOUS
  <2>6. /\ message \in Seq(Bytes) /\ Len(message) = len
    BY <2>5, PrefixIs
  <2>7. message \in Pipe!Messages
    <3>1. message \in [1 .. len -> Bytes]
      BY <2>6, LenProperties
    <3> HIDE DEF message
    <3> QED
      BY <3>1 DEF Pipe!Messages
  <2> HIDE DEF Count, message
  <2>8. /\ Append(Queue, message) \in Seq(Seq(Bytes))
        /\ Len(Append(Queue, message)) = Count'
    BY <2>1, <2>3, <2>6, AppendProperties DEF QueueSound
  <2>9. ASSUME NEW i \in 1 .. Count'
        PROVE  Append(Queue, message)[i] = MsgIn(QueuedSlot(i))'
    <3>1. CASE i = Count'
      <4>1. QueuedSlot(i)' = in
        BY <2>1, <3>1
      <4>2. MsgIn(QueuedSlot(i))' = message
        BY <2>4, <4>1 DEF MsgIn, message
      <4> QED
        BY <2>1, <2>3, <2>6, <3>1, <4>2, AppendProperties DEF QueueSound
    <3>2. CASE i \in 1 .. Count
      <4>1. QueuedSlot(i)' = QueuedSlot(i)
        BY <2>1, <3>2
      <4>2. MsgIn(QueuedSlot(i))' = Queue[i]
        BY <1>3, <2>2, <2>3, <3>2, <4>1 DEF MsgIn, QueueSound
      <4> QED
        BY <2>3, <2>6, <3>2, <4>2, AppendProperties DEF QueueSound
    <3> QED
      BY <2>1, <2>3, <3>1, <3>2 DEF QueueSound
  <2>10. Queue' = Append(Queue, message)
    BY <2>3, <2>8, <2>9, QueueEqual
  <2>11. Len(Queue) < numbufs
    BY <2>1, <2>3 DEF QueueSound
  <2>12. Pipe!Receive(message)
    BY <1>1, <2>10, <2>11 DEF Pipe!Receive
  <2> QED
    BY <2>7, <2>12
<1> QED
  BY <1>4, <1>5 DEF Finish

(* An interrupt completes a message or leaves the queue alone.             *)
LEMMA InterruptRefines ==
  ASSUME SafeInv, SafeInv', Interrupt
  PROVE  [Pipe!Next]_(Pipe!pipeVars)
<1>1. UNCHANGED <<numbufs, allocated, answer, discarded>>
  BY DEF Interrupt, rx_start, rx_overrun, rx_frame_end, rx_frame_abort, rx_nothing, rx_data,
         ConsumeHdlc, Consume, ring
<1>2. /\ readbuf \in [Slots -> [1 .. MaxLen -> Bytes]]
      /\ readidx \in [Slots -> 0 .. MaxLen]
      /\ inreadbuf > -1 => inreadbuf \in Slots
  <2>1. inreadbuf > -1 => inreadbuf \in Slots
    BY DEF SafeInv, RingInv, Slots
  <2>2. TypeOK
    BY DEF SafeInv
  <2> QED
    BY <2>1, <2>2 DEF TypeOK
<1>3. CASE Queue' = Queue
  BY <1>1, <1>3 DEF Pipe!pipeVars
<1>4. CASE \E message \in Pipe!Messages : Pipe!Receive(message)
  BY <1>4 DEF Pipe!Next
<1>5. CASE rx_start \/ rx_overrun
  BY <1>3, <1>5, RingKept DEF rx_start, rx_overrun
<1>6. CASE rx_frame_end
  <2>1. /\ inreadbuf > -1 /\ readidx[inreadbuf] \in 1 .. MaxLen
        /\ Finish(readbuf[inreadbuf], readidx[inreadbuf]) /\ readbuf' = readbuf
    BY <1>2, <1>6 DEF rx_frame_end, ConsumeHdlc, Consume
  <2>2. /\ readbuf[inreadbuf] \in [1 .. MaxLen -> Bytes]
        /\ readbuf' = [readbuf EXCEPT ![inreadbuf] = readbuf[inreadbuf]]
    BY <1>2, <2>1
  <2> QED
    BY <1>1, <1>3, <1>4, <2>1, <2>2, FinishReceives
<1>7. CASE rx_frame_abort \/ rx_nothing
  <2>1. UNCHANGED <<inreadbuf, outreadbuf, readbuf, readn>>
    BY <1>7 DEF rx_frame_abort, rx_nothing, Abort
  <2> QED
    BY <1>1, <1>3, <2>1, QueueKept
<1>8. ASSUME NEW byte \in Bytes, rx_data(byte) PROVE [Pipe!Next]_(Pipe!pipeVars)
  <2> DEFINE in   == inreadbuf
             idx  == readidx[in] + Left
             data == IF Left = 1 THEN [readbuf[in] EXCEPT ![idx] = byte] ELSE readbuf[in]
  <2>1. in > -1 /\ readbuf' = [readbuf EXCEPT ![in] = data]
    BY <1>8 DEF rx_data, Consume
  <2>2. Left \in {0, 1} /\ idx \in 0 .. MaxLen
    BY <1>2, <2>1 DEF Left, Least
  <2>3. data \in [1 .. MaxLen -> Bytes]
    BY <1>2, <2>1, <2>2
  <2>4. \A s \in Slots : s # in => readbuf'[s] = readbuf[s]
    BY <1>2, <2>1
  <2>5. CASE UNCHANGED <<inreadbuf, outreadbuf, readn>>
    BY <1>1, <1>3, <2>4, <2>5, QueueKept
  <2>6. CASE idx >= MaxLen /\ Finish(data, idx)
    <3>1. idx \in 1 .. MaxLen
      BY <2>2, <2>6
    <3> HIDE DEF data, idx
    <3> QED
      BY <1>1, <1>3, <1>4, <2>1, <2>3, <2>6, <3>1, FinishReceives
  <2> QED
    BY <1>8, <2>5, <2>6 DEF rx_data, Abort
<1> QED
  BY <1>5, <1>6, <1>7, <1>8 DEF Interrupt

(* The locked tail of read() hands out the oldest message. *)
LEMMA CommitDelivers ==
  ASSUME PipeInv, SafeInv', NEW t \in Threads, commit(t)
  PROVE  \E count \in 1 .. MaxLen : Pipe!Deliver(count)
<1> DEFINE out == outreadbuf
<1>1. pc[t] = "commit" /\ Copying(t) /\ SafeInv
  BY DEF commit, Copying, PipeInv
<1>2. res[t] = out /\ out \in Nat /\ out < numbufs /\ out # inreadbuf
  BY <1>1, CopyingFacts
<1>3. /\ numbufs \in Nat /\ numbufs >= 2 /\ inreadbuf \in -1 .. numbufs - 1
      /\ outreadbuf \in 0 .. numbufs - 1
  BY <1>1, <1>2 DEF SafeInv, RingInv
<1>4. /\ outreadbuf' = IF EmptiesRing(NextSlot(out)) THEN -1 ELSE NextSlot(out)
      /\ inreadbuf' = SlotToFill(out)
      /\ readn' = [readn EXCEPT ![out] = 0]
      /\ answer' = got[t]
      /\ UNCHANGED <<numbufs, allocated, readbuf, discarded>>
  BY <1>2 DEF commit
<1>5. PICK count \in 1 .. MaxLen : got[t] = SubSeq(readbuf[out], 1, Least(count, readn[out]))
  BY <1>1 DEF PipeInv, GotInv
<1>6. QueueSound /\ QueueSound' /\ Count >= 1 /\ QueuedSlot(1) = out
  BY <1>1, <1>2, QueueIsSeq, QueueIsSeqPrimed, WindowSlots
<1>7. \A i \in 1 .. Count : QueuedSlot(i) \in Slots /\ (i > 1 => QueuedSlot(i) # out)
  BY <1>1, WindowSlots
<1>8. Count' = Count - 1 /\ \A i \in 1 .. Count - 1 : QueuedSlot(i)' = QueuedSlot(i + 1)
  BY <1>2, <1>3, <1>4, WindowShrinks
<1>9. /\ readbuf[out] \in [1 .. MaxLen -> Bytes]
      /\ readn \in [Slots -> 0 .. MaxLen] /\ readn[out] \in 0 .. MaxLen
  <2>1. 1 \in 1 .. Count
    BY <1>6 DEF QueueSound
  <2>2. out \in Slots
    BY <1>6, <1>7, <2>1
  <2> QED
    BY <1>1, <2>2 DEF SafeInv, TypeOK
<1> HIDE DEF Count
<1>10. /\ Queue # <<>>
       /\ Head(Queue) = MsgIn(out)
       /\ Tail(Queue) \in Seq(Seq(Bytes)) /\ Len(Tail(Queue)) = Count'
       /\ \A i \in 1 .. Count - 1 : Tail(Queue)[i] = Queue[i + 1]
  <2>1. Queue # <<>>
    BY <1>6 DEF QueueSound
  <2>2. Head(Queue) = MsgIn(out)
    BY <1>6 DEF QueueSound
  <2> QED
    BY <1>6, <1>8, <2>1, <2>2, HeadTailProperties DEF QueueSound
<1>11. ASSUME NEW i \in 1 .. Count' PROVE Tail(Queue)[i] = MsgIn(QueuedSlot(i))'
  <2>1. i \in 1 .. Count - 1 /\ i + 1 \in 1 .. Count /\ i + 1 > 1
    BY <1>6, <1>8 DEF QueueSound
  <2>2. Tail(Queue)[i] = MsgIn(QueuedSlot(i + 1))
    BY <1>6, <1>10, <2>1 DEF QueueSound
  <2>3. QueuedSlot(i + 1) \in Slots /\ QueuedSlot(i + 1) # out
    BY <1>7, <2>1
  <2>4. QueuedSlot(i)' = QueuedSlot(i + 1)
    BY <1>8, <2>1
  <2>5. readn'[QueuedSlot(i + 1)] = readn[QueuedSlot(i + 1)]
    BY <1>4, <1>9, <2>3
  <2> QED
    BY <1>4, <2>2, <2>4, <2>5 DEF MsgIn
<1>12. Queue' = Tail(Queue)
  BY <1>6, <1>10, <1>11, QueueEqual
<1>13. answer' = SubSeq(Head(Queue), 1, IF count < Len(Head(Queue)) THEN count
                                        ELSE Len(Head(Queue)))
  <2> DEFINE m == Least(count, readn[out])
  <2>1. m \in 0 .. readn[out]
    BY <1>9 DEF Least
  <2>2. Len(Head(Queue)) = readn[out]
    BY <1>9, <1>10, PrefixIs DEF MsgIn
  <2>3. SubSeq(Head(Queue), 1, m) = SubSeq(readbuf[out], 1, m)
    BY <1>9, <1>10, <2>1, PrefixOfPrefix DEF MsgIn
  <2> QED
    BY <1>4, <1>5, <2>2, <2>3 DEF Least
<1>14. Pipe!Deliver(count)
  BY <1>4, <1>10, <1>12, <1>13 DEF Pipe!Deliver
<1> QED
  BY <1>14

(* The interrupt leaves the slot that a read() copies from alone.          *)
LEMMA InterruptKeepsOldest ==
  ASSUME SafeInv, Interrupt, outreadbuf >= 0, outreadbuf # inreadbuf
  PROVE  /\ outreadbuf' = outreadbuf
         /\ readbuf'[outreadbuf] = readbuf[outreadbuf]
         /\ readn'[outreadbuf] = readn[outreadbuf]
         /\ got' = got /\ pc' \in {pc, Wake}
<1>1. /\ outreadbuf \in Slots
      /\ readbuf \in [Slots -> [1 .. MaxLen -> Bytes]] /\ readn \in [Slots -> 0 .. MaxLen]
  BY DEF SafeInv, RingInv, TypeOK, Slots
<1>2. CASE rx_start \/ rx_overrun
  BY <1>2 DEF rx_start, rx_overrun, ring, threads
<1>3. CASE rx_frame_abort \/ rx_nothing
  BY <1>3 DEF rx_frame_abort, rx_nothing, Abort, ConsumeHdlc, Consume
<1>4. ASSUME NEW data, NEW len, Finish(data, len)
      PROVE  /\ outreadbuf' = outreadbuf /\ pc' \in {pc, Wake}
             /\ readn'[outreadbuf] = readn[outreadbuf]
  <2>1. ~(outreadbuf < 0)
    BY <1>1 DEF Slots
  <2>2. outreadbuf' = outreadbuf
    BY <1>4, <2>1 DEF Finish
  <2>3. pc' \in {pc, Wake}
    BY <1>4 DEF Finish
  <2>4. PICK n : readn' = [readn EXCEPT ![inreadbuf] = n]
    BY <1>4 DEF Finish
  <2> QED
    BY <1>1, <2>2, <2>3, <2>4
<1>5. CASE rx_frame_end
  BY <1>4, <1>5 DEF rx_frame_end, ConsumeHdlc, Consume
<1>6. ASSUME NEW byte \in Bytes, rx_data(byte)
      PROVE  /\ outreadbuf' = outreadbuf
             /\ readbuf'[outreadbuf] = readbuf[outreadbuf]
             /\ readn'[outreadbuf] = readn[outreadbuf]
             /\ got' = got /\ pc' \in {pc, Wake}
  <2>1. readbuf'[outreadbuf] = readbuf[outreadbuf] /\ got' = got
    BY <1>1, <1>6 DEF rx_data, Consume
  <2> QED
    BY <1>4, <1>6, <2>1 DEF rx_data, Abort
<1> QED
  BY <1>2, <1>3, <1>5, <1>6 DEF Interrupt

LEMMA GotInvInductive ==
  ASSUME SingleThread PROVE SafeInv /\ GotInv /\ [Next]_vars => GotInv'
<1> SUFFICES ASSUME SafeInv, GotInv, [Next]_vars PROVE GotInv'
  OBVIOUS
<1>1. pc \in [Threads -> Places] /\ got \in [Threads -> Seq(Bytes)]
  BY DEF SafeInv, RingInv, GotInv
<1>2. ASSUME got' \in [Threads -> Seq(Bytes)], \A t \in Threads : pc'[t] # "commit" PROVE GotInv'
  BY <1>2 DEF GotInv
<1>3. CASE Interrupt
  <2>1. got' = got /\ pc' \in {pc, Wake}
    BY <1>3 DEF Interrupt, rx_start, rx_overrun, rx_frame_end, rx_frame_abort, rx_nothing, rx_data,
                Finish, Abort, ConsumeHdlc, Consume, threads
  <2>2. ASSUME NEW t \in Threads, pc'[t] = "commit"
        PROVE  \E count \in 1 .. MaxLen :
                 got'[t] = SubSeq(readbuf'[outreadbuf'], 1, Least(count, readn'[outreadbuf']))
    <3>1. pc[t] = "commit" /\ Copying(t)
      BY <2>1, <2>2 DEF Wake, Copying
    <3>2. outreadbuf >= 0 /\ outreadbuf # inreadbuf
      BY <3>1, CopyingFacts
    <3>3. /\ outreadbuf' = outreadbuf
          /\ readbuf'[outreadbuf] = readbuf[outreadbuf]
          /\ readn'[outreadbuf] = readn[outreadbuf]
      BY <1>3, <3>2, InterruptKeepsOldest
    <3> QED
      BY <2>1, <3>1, <3>3 DEF GotInv
  <2> QED
    BY <1>1, <2>1, <2>2 DEF GotInv
<1>4. ASSUME NEW t \in Threads, Ioctl(t) PROVE GotInv'
  <2>1. pc[t] \in {"idle", "realloc"} /\ pc'[t] # "commit" /\ got' = got
    BY <1>1, <1>4 DEF Ioctl, flush_read, hangup, set_bufinfo, reallocbufs, getevent, Calls, Wake,
                      threads
  <2>2. \A u \in Threads : u = t
    BY DEF SingleThread
  <2> QED
    BY <1>1, <1>2, <2>1, <2>2
<1>5. ASSUME NEW t \in Threads, Read(t) PROVE GotInv'
  <2>1. \A u \in Threads : u = t
    BY DEF SingleThread
  <2>2. CASE pick(t) \/ check(t) \/ interrupted(t)
    <3>1. got' = got /\ pc'[t] # "commit"
      BY <1>1, <2>2 DEF pick, check, interrupted
    <3> QED
      BY <1>1, <1>2, <2>1, <3>1
  <2>3. CASE commit(t)
    <3>1. got' = [got EXCEPT ![t] = <<>>] /\ pc'[t] = "idle"
      BY <1>1, <2>3 DEF commit
    <3>2. got' \in [Threads -> Seq(Bytes)]
      BY <1>1, <3>1
    <3> QED
      BY <1>2, <2>1, <3>1, <3>2
  <2>4. CASE copy(t)
    <3>1. CASE pc'[t] # "commit" /\ got' = got
      BY <1>1, <1>2, <2>1, <3>1
    <3>2. ASSUME NEW count \in 1 .. MaxLen,
                 got' = [got EXCEPT ![t] = SubSeq(readbuf[res[t]], 1, Least(count, readn[res[t]]))]
          PROVE  GotInv'
      <4> DEFINE m == Least(count, readn[outreadbuf])
      <4>1. Copying(t) /\ UNCHANGED <<outreadbuf, readbuf, readn>>
        BY <2>4 DEF copy, Copying, ring
      <4>2. res[t] = outreadbuf /\ outreadbuf \in Slots
        <5>1. res[t] = outreadbuf /\ outreadbuf \in Nat /\ outreadbuf < numbufs
          BY <4>1, CopyingFacts
        <5> QED
          BY <5>1 DEF SafeInv, RingInv, Slots
      <4>3. readbuf[outreadbuf] \in [1 .. MaxLen -> Bytes] /\ m \in 0 .. MaxLen
        BY <4>2 DEF SafeInv, TypeOK, Least
      <4>4. SubSeq(readbuf[outreadbuf], 1, m) \in Seq(Bytes)
        BY <4>3, PrefixIs
      <4>5. got' = [got EXCEPT ![t] = SubSeq(readbuf[outreadbuf], 1, m)]
        BY <3>2, <4>2
      <4> HIDE DEF m
      <4>6. got' \in [Threads -> Seq(Bytes)] /\ got'[t] = SubSeq(readbuf[outreadbuf], 1, m)
        BY <1>1, <4>4, <4>5
      <4>7. got'[t] = SubSeq(readbuf'[outreadbuf'], 1, Least(count, readn'[outreadbuf']))
        BY <4>1, <4>6 DEF m
      <4> QED
        BY <2>1, <4>6, <4>7 DEF GotInv
    <3> QED
      BY <1>1, <2>4, <3>1, <3>2 DEF copy
  <2> QED
    BY <1>5, <2>2, <2>3, <2>4 DEF Read
<1>6. CASE close \/ open
  <2>1. Quiet /\ pc' = pc /\ got' = got
    BY <1>6 DEF close, open, threads
  <2> QED
    BY <1>1, <1>2, <2>1 DEF Quiet
<1>7. CASE UNCHANGED vars
  BY <1>7 DEF vars, ring, threads, GotInv
<1> QED
  BY <1>3, <1>4, <1>5, <1>6, <1>7 DEF Next

(* EmptySlots discards what waits. *)
LEMMA EmptySlotsDiscards ==
  ASSUME RingInv', NEW n, EmptySlots(n), answer' = answer
  PROVE  Pipe!Discard
<1>1. Queue' = <<>>
  BY DEF EmptySlots, Queue, Count
<1>2. (IF allocated THEN numbufs ELSE 0)' \in Nat
  BY DEF RingInv
<1> QED
  BY <1>1, <1>2 DEF Pipe!Discard, EmptySlots

(* One thread at a time that reads the channel gets every message that     *)
(* found a buffer whole, once and in the order of the line, though the     *)
(* interrupt stores the next ones meanwhile, and at most numbufs of them   *)
(* wait (__putbuf_chunk, dahdi_chan_read).                                 *)
THEOREM RxImplementsPipe == ASSUME SingleThread PROVE Spec => ImplementsPipe
<1>1. Init => PipeInv
  <2> SUFFICES ASSUME Init PROVE PipeInv
    OBVIOUS
  <2>1. got = [t \in Threads |-> <<>>] /\ pc = [t \in Threads |-> "idle"]
    BY DEF Init
  <2>2. GotInv
    BY <2>1 DEF GotInv
  <2> QED
    BY <2>2, SafeInvInit DEF PipeInv
<1>2. PipeInv /\ [Next]_vars => PipeInv'
  BY SafeInvInductive, GotInvInductive DEF PipeInv
<1>3. Init => Pipe!Init
  <2> SUFFICES ASSUME Init PROVE Pipe!Init
    OBVIOUS
  <2>1. Queue = <<>>
    BY DEF Init, Queue, Count
  <2>2. (IF allocated THEN numbufs ELSE 0) \in Nat
    BY DEF Init
  <2> QED
    BY <2>1, <2>2 DEF Init, Pipe!Init
<1>4. PipeInv /\ PipeInv' /\ [Next]_vars => [Pipe!Next]_(Pipe!pipeVars)
  <2> SUFFICES ASSUME PipeInv, PipeInv', [Next]_vars
               PROVE  [Pipe!Next]_(Pipe!pipeVars)
    OBVIOUS
  <2>1. SafeInv /\ SafeInv' /\ RingInv'
    BY DEF PipeInv, SafeInv
  <2>2. CASE Interrupt
    BY <2>1, <2>2, InterruptRefines
  <2>3. CASE UNCHANGED <<ring, answer, discarded>>
    BY <2>3, RingKept DEF Pipe!pipeVars, ring
  <2>4. ASSUME NEW t \in Threads, Read(t) PROVE [Pipe!Next]_(Pipe!pipeVars)
    <3>1. CASE commit(t)
      BY <2>1, <3>1, CommitDelivers DEF Pipe!Next
    <3>2. CASE ~commit(t)
      BY <2>3, <2>4, <3>2 DEF Read, pick, check, interrupted, copy
    <3> QED
      BY <3>1, <3>2
  <2>5. ASSUME NEW n, EmptySlots(n), answer' = answer PROVE [Pipe!Next]_(Pipe!pipeVars)
    BY <2>1, <2>5, EmptySlotsDiscards DEF Pipe!Next
  <2>6. ASSUME NEW t \in Threads, Ioctl(t) PROVE [Pipe!Next]_(Pipe!pipeVars)
    <3>1. CASE set_bufinfo(t) \/ getevent(t)
      BY <2>3, <3>1 DEF set_bufinfo, getevent
    <3>2. CASE flush_read(t) \/ hangup(t) \/ reallocbufs(t)
      BY <2>5, <3>2 DEF flush_read, hangup, reallocbufs
    <3> QED
      BY <2>6, <3>1, <3>2 DEF Ioctl
  <2>7. CASE close \/ open
    BY <2>5, <2>7 DEF close, open
  <2>8. CASE UNCHANGED vars
    BY <2>3, <2>8 DEF vars
  <2> QED
    BY <2>2, <2>4, <2>6, <2>7, <2>8 DEF Next
<1> QED
  BY <1>1, <1>2, <1>3, <1>4, PTL DEF Spec, ImplementsPipe, Pipe!Spec

-----------------------------------------------------------------------------

(* What an MTP2 channel leaves out. *)

PowersOfTwo == {2, 4, 8, 16, 32}

(* The masked index is the slot before only for a power of two of buffers. *)
(* No flush or hangup: they leave in the slot before a message that is not *)
(* the previous one.  No frame begins another (MTP2 messages state their   *)
(* length) and none repeats a zeroed buffer (two zero bytes are the check  *)
(* sequence of an empty message).                                          *)
RepeatHypotheses ==
  /\ Ops \subseteq {"bufinfo", "close"}
  /\ {MAX_NUM_BUFS, DEFAULT_NUM_BUFS} \cup Requests \subseteq PowersOfTwo
  /\ Frames \subseteq Seq(Bytes)
  /\ \A f, g \in Frames :
       Len(f) <= Len(g) /\ (\A i \in 1 .. Len(f) : f[i] = g[i]) => f = g
  /\ \A f \in Frames : \E i \in 1 .. Len(f) : f[i] # Zero

(* The slot of the message completed last. *)
SlotBefore(s) == IF s = 0 THEN numbufs - 1 ELSE s - 1
Newest == SlotBefore(IF inreadbuf < 0 THEN outreadbuf ELSE inreadbuf)

(* That slot still holds the message, or is as kzalloc left it.            *)
Remembered ==
  mtp2 /\ allocated =>
    \/ readbuf[Newest] = Blank
    \/ /\ lastmsg \in Frames /\ Len(lastmsg) <= MaxLen
       /\ \A i \in 1 .. Len(lastmsg) : lastmsg[i] = readbuf[Newest][i]

RepeatInv ==
  /\ SafeInv
  /\ mtp2 => hdlc
  /\ numbufs \in PowersOfTwo
  /\ \A t \in Threads : pc[t] = "realloc" => res[t] \in PowersOfTwo
  /\ Remembered
  /\ lost = FALSE

(* "find the previous buffer index": the mask changes nothing. *)
LEMMA MaskedIndex ==
  ASSUME NEW n \in PowersOfTwo, NEW a \in 0 .. n - 1
  PROVE  And(a, n - 1) = a
<1>1. 2 ^ 0 = 1 /\ 2 ^ 1 = 2 /\ 2 ^ 2 = 4 /\ 2 ^ 3 = 8 /\ 2 ^ 4 = 16
  OBVIOUS
<1>2. CASE n = 2
  BY <1>1, <1>2 DEF And, Bit
<1>3. CASE n = 4
  BY <1>1, <1>3 DEF And, Bit
<1>4. CASE n = 8
  BY <1>1, <1>4 DEF And, Bit
<1>5. CASE n = 16
  BY <1>1, <1>5 DEF And, Bit
<1>6. CASE n = 32
  BY <1>1, <1>6 DEF And, Bit
<1> QED
  BY <1>2, <1>3, <1>4, <1>5, <1>6 DEF PowersOfTwo

LEMMA PreviousIsBefore ==
  ASSUME numbufs \in PowersOfTwo, NEW s \in 0 .. numbufs - 1
  PROVE  PreviousSlot(s) = SlotBefore(s)
<1>1. numbufs \in Nat
  BY DEF PowersOfTwo
<1>2. s # 0 => s - 1 \in 0 .. numbufs - 1
  BY <1>1
<1> QED
  BY <1>2, MaskedIndex DEF PreviousSlot, SlotBefore

(* Where the newest message is, when the channel is open. *)
LEMMA NewestFacts ==
  ASSUME SafeInv, allocated
  PROVE  /\ Newest \in Slots /\ Newest < numbufs /\ Newest # inreadbuf
         /\ readbuf[Newest] \in [1 .. MaxLen -> Bytes]
<1>1. /\ numbufs \in Nat /\ numbufs >= 2 /\ numbufs <= MAX_NUM_BUFS
      /\ inreadbuf \in -1 .. numbufs - 1 /\ outreadbuf \in -1 .. numbufs - 1
      /\ inreadbuf # outreadbuf
  BY DEF SafeInv, RingInv, RingConsistent
<1>2. Newest \in Slots /\ Newest < numbufs /\ Newest # inreadbuf
  BY <1>1 DEF Newest, SlotBefore, Slots
<1>3. readbuf \in [Slots -> [1 .. MaxLen -> Bytes]]
  BY DEF SafeInv, TypeOK
<1> QED
  BY <1>2, <1>3

(* Steps that leave alone the newest message and what it is compared with. *)
LEMMA RememberedKept ==
  ASSUME Remembered, UNCHANGED <<mtp2, lastmsg>>, allocated' => allocated,
         allocated' => Newest' = Newest /\ readbuf'[Newest] = readbuf[Newest]
  PROVE  Remembered'
<1> SUFFICES ASSUME mtp2, allocated', allocated
             PROVE  \/ readbuf'[Newest'] = Blank
                    \/ /\ lastmsg \in Frames /\ Len(lastmsg) <= MaxLen
                       /\ \A i \in 1 .. Len(lastmsg) : lastmsg[i] = readbuf'[Newest'][i]
  BY DEF Remembered
<1>1. Newest' = Newest /\ readbuf'[Newest] = readbuf[Newest]
  OBVIOUS
<1> HIDE DEF Newest
<1> QED
  BY <1>1 DEF Remembered(* An MTP2 message that is left out repeats the previous one; one that is  *)

(* kept is the newest.                                                     *)
LEMMA FinishRemembers ==
  ASSUME RepeatHypotheses, RepeatInv, mtp2 = TRUE, inreadbuf > -1,
         NEW len \in 1 .. MaxLen, Finish(readbuf[inreadbuf], len),
         SubSeq(readbuf[inreadbuf], 1, len) \in Frames,
         UNCHANGED <<mtp2, numbufs, allocated, readbuf>>
  PROVE  Remembered' /\ lost' = FALSE
<1> DEFINE in      == inreadbuf
           data    == readbuf[in]
           message == SubSeq(data, 1, len)
<1>1. /\ numbufs \in Nat /\ numbufs >= 2 /\ numbufs <= MAX_NUM_BUFS
      /\ in \in 0 .. numbufs - 1 /\ outreadbuf \in -1 .. numbufs - 1
      /\ in # outreadbuf /\ allocated = TRUE
  BY DEF RepeatInv, SafeInv, RingInv, RingConsistent
<1>2. in \in Slots /\ data \in [1 .. MaxLen -> Bytes]
  <2>1. in \in Slots
    BY <1>1 DEF Slots
  <2> QED
    BY <2>1 DEF RepeatInv, SafeInv, TypeOK
<1>3. /\ message \in Seq(Bytes) /\ Len(message) = len
      /\ \A i \in 1 .. len : message[i] = data[i]
  <2>1. len \in 0 .. MaxLen
    OBVIOUS
  <2> HIDE DEF data
  <2> QED
    BY <1>2, <2>1, PrefixIs
<1>4. lastmsg' = message
  BY DEF Finish
<1>5. PreviousSlot(in) = Newest
  BY <1>1, PreviousIsBefore DEF RepeatInv, Newest
<1>6. CASE Repeats(data, len)
  <2> DEFINE old == readbuf[Newest]
  <2>1. \A i \in 1 .. len : old[i] = message[i]
    BY <1>3, <1>5, <1>6 DEF Repeats
  <2> HIDE DEF message, data, old
  <2>2. \E i \in 1 .. len : message[i] # Zero
    BY <1>3 DEF RepeatHypotheses, message, data
  <2>3. old # Blank
    BY <2>1, <2>2 DEF Blank
  <2>4. /\ lastmsg \in Frames /\ Len(lastmsg) <= MaxLen
        /\ \A i \in 1 .. Len(lastmsg) : lastmsg[i] = old[i]
    BY <1>1, <2>3 DEF RepeatInv, Remembered, old
  <2>5. Len(lastmsg) \in Nat
    BY <2>4, LenProperties DEF RepeatHypotheses
  <2>6. message \in Frames
    BY DEF message, data
  <2>7. message = lastmsg
    <3>1. CASE Len(lastmsg) <= len
      <4>1. \A i \in 1 .. Len(lastmsg) : lastmsg[i] = message[i]
        BY <2>1, <2>4, <2>5, <3>1
      <4> QED
        BY <1>3, <2>4, <2>6, <3>1, <4>1 DEF RepeatHypotheses
    <3>2. CASE len <= Len(lastmsg)
      <4>1. \A i \in 1 .. len : message[i] = lastmsg[i]
        BY <2>1, <2>4, <2>5, <3>2
      <4> QED
        BY <1>3, <2>4, <2>6, <3>2, <4>1 DEF RepeatHypotheses
    <3> QED
      BY <2>5, <3>1, <3>2
  <2>8. /\ UNCHANGED <<inreadbuf, outreadbuf>>
        /\ lost' = (lost \/ message # lastmsg)
    BY <1>6 DEF Finish, message, data
  <2>9. lost' = FALSE
    BY <2>7, <2>8 DEF RepeatInv
  <2>10. Newest' = Newest
    BY <2>8 DEF Newest, SlotBefore
  <2>11. lastmsg' = lastmsg
    BY <1>4, <2>7
  <2>12. Remembered
    BY DEF RepeatInv
  <2> HIDE DEF Newest
  <2> QED
    BY <2>9, <2>10, <2>11, <2>12, RememberedKept
<1>7. CASE ~Repeats(data, len)
  <2> DEFINE next == NextSlot(in)
  <2>1. /\ inreadbuf' = IF next = outreadbuf THEN -1 ELSE next
        /\ outreadbuf' = IF outreadbuf < 0 THEN in ELSE outreadbuf
        /\ lost' = lost
    BY <1>7 DEF Finish, FillsRing
  <2>2. next = IF in + 1 = numbufs THEN 0 ELSE in + 1
    BY <1>1, NextSlotProperties
  <2>3. Newest' = in
    <3>1. SlotBefore(next) = in
      BY <1>1, <2>2 DEF SlotBefore
    <3>2. next >= 0
      BY <1>1, <2>2
    <3> HIDE DEF next
    <3>3. (IF inreadbuf < 0 THEN outreadbuf ELSE inreadbuf)' = next
      BY <1>1, <2>1, <3>2
    <3>4. Newest' = SlotBefore(next)
      BY <3>3 DEF Newest, SlotBefore
    <3> QED
      BY <3>1, <3>4
  <2>4. readbuf'[Newest'] = data
    BY <2>3
  <2> HIDE DEF Newest, data, message
  <2>5. message \in Frames
    BY DEF message, data
  <2>6. Remembered'
    BY <1>3, <1>4, <2>4, <2>5 DEF Remembered
  <2> QED
    BY <2>1, <2>6 DEF RepeatInv
<1> QED
  BY <1>6, <1>7(* Steps that start no reallocation and keep the number of buffers. *)

LEMMA RepeatInvKept ==
  ASSUME RepeatInv, SafeInv', Remembered', UNCHANGED <<flags, numbufs, res, lost>>,
         \A t \in Threads : pc'[t] = "realloc" => pc[t] = "realloc"
  PROVE  RepeatInv'
BY DEF RepeatInv, flags

LEMMA RepeatInvInterrupt ==
  ASSUME RepeatHypotheses, RepeatInv, SafeInv', Interrupt
  PROVE  RepeatInv'
<1>1. SafeInv /\ Remembered /\ lost = FALSE /\ mtp2 \in BOOLEAN
  BY DEF RepeatInv, SafeInv, TypeOK
<1>2. UNCHANGED <<flags, numbufs, allocated, res>>
  BY DEF Interrupt, rx_start, rx_overrun, rx_frame_end, rx_frame_abort, rx_nothing,
         rx_data, ConsumeHdlc, Consume, ring, threads
<1>3. \A t \in Threads : pc'[t] = "realloc" => pc[t] = "realloc"
  <2>1. pc' \in {pc, Wake}
    BY DEF Interrupt, rx_start, rx_overrun, rx_frame_end, rx_frame_abort, rx_nothing,
           rx_data, Finish, Abort, threads
  <2> QED
    BY <2>1 DEF Wake
<1>4. ASSUME UNCHANGED <<inreadbuf, outreadbuf, msgs>>,
             allocated => readbuf'[Newest] = readbuf[Newest]
      PROVE  Remembered' /\ lost' = lost
  <2>1. Newest' = Newest
    BY <1>2, <1>4 DEF Newest, SlotBefore
  <2> HIDE DEF Newest
  <2> QED
    BY <1>1, <1>2, <1>4, <2>1, RememberedKept DEF msgs, flags
<1>5. ASSUME NEW data, NEW len, Finish(data, len), ~mtp2
      PROVE  Remembered' /\ lost' = lost
  <2>1. lost' = lost
    BY <1>5 DEF Finish, Repeats
  <2> QED
    BY <1>2, <1>5, <2>1 DEF Remembered, flags
<1>6. CASE rx_start \/ rx_overrun \/ rx_nothing \/ rx_frame_abort
  <2>1. UNCHANGED <<inreadbuf, outreadbuf, msgs, readbuf>>
    BY <1>6 DEF rx_start, rx_overrun, rx_nothing, rx_frame_abort, Abort, ring
  <2> HIDE DEF Newest
  <2> QED
    BY <1>2, <1>3, <1>4, <2>1, RepeatInvKept
<1>7. CASE rx_frame_end
  <2>1. /\ inreadbuf > -1 /\ readidx[inreadbuf] > 0 /\ readbuf' = readbuf
        /\ Finish(readbuf[inreadbuf], readidx[inreadbuf])
        /\ SubSeq(readbuf[inreadbuf], 1, readidx[inreadbuf]) \in Frames
    BY <1>7 DEF rx_frame_end, ConsumeHdlc, Consume
  <2>2. readidx[inreadbuf] \in 1 .. MaxLen
    <3>1. inreadbuf \in Slots
      BY <2>1 DEF RepeatInv, SafeInv, RingInv, Slots
    <3>2. readidx \in [Slots -> 0 .. MaxLen]
      BY <1>1 DEF SafeInv, TypeOK
    <3> QED
      BY <2>1, <3>1, <3>2
  <2>3. mtp2 => Remembered' /\ lost' = FALSE
    BY <1>2, <2>1, <2>2, FinishRemembers DEF flags
  <2> QED
    BY <1>1, <1>2, <1>3, <1>5, <2>1, <2>3, RepeatInvKept
<1>8. ASSUME NEW byte \in Bytes, rx_data(byte) PROVE Remembered' /\ lost' = lost
  <2>1. CASE ~mtp2
    <3>1. lost' = lost
      BY <1>5, <1>8, <2>1 DEF rx_data, Abort, msgs
    <3> QED
      BY <1>2, <2>1, <3>1 DEF Remembered, flags
  <2>2. CASE mtp2
    <3>1. hdlc
      BY <2>2 DEF RepeatInv
    <3>2. UNCHANGED <<inreadbuf, outreadbuf, msgs>>
      BY <1>8, <3>1 DEF rx_data, Abort
    <3>3. PICK data : readbuf' = [readbuf EXCEPT ![inreadbuf] = data]
      BY <1>8 DEF rx_data
    <3>4. allocated => readbuf'[Newest] = readbuf[Newest]
      <4>1. readbuf \in [Slots -> [1 .. MaxLen -> Bytes]]
        BY <1>1 DEF SafeInv, TypeOK
      <4>2. allocated => Newest \in Slots /\ Newest # inreadbuf
        BY <1>1, NewestFacts
      <4> HIDE DEF Newest
      <4> QED
        BY <3>3, <4>1, <4>2
    <3> QED
      BY <1>4, <3>2, <3>4
  <2> QED
    BY <2>1, <2>2
<1> QED
  BY <1>2, <1>3, <1>6, <1>7, <1>8, RepeatInvKept DEF Interrupt

(* A read() frees the slot after the newest message, or none. *)
LEMMA RepeatInvRead ==
  ASSUME RepeatInv, SafeInv', NEW t \in Threads, Read(t)
  PROVE  RepeatInv'
<1>1. /\ SafeInv /\ Remembered /\ pc \in [Threads -> Places]
      /\ \A u \in Threads : pc[u] = "realloc" => res[u] \in PowersOfTwo
  BY DEF RepeatInv, SafeInv, RingInv
<1>2. CASE commit(t)
  <2>1. res[t] = outreadbuf /\ outreadbuf \in Nat /\ allocated
    BY <1>1, <1>2, CopyingFacts DEF commit, Copying
  <2>2. /\ inreadbuf' = IF inreadbuf < 0 THEN outreadbuf ELSE inreadbuf
        /\ UNCHANGED <<flags, numbufs, allocated, readbuf, res, msgs>>
    BY <1>2, <2>1 DEF commit, SlotToFill
  <2>3. Newest' = Newest
    <3>1. (IF inreadbuf < 0 THEN outreadbuf ELSE inreadbuf)'
          = IF inreadbuf < 0 THEN outreadbuf ELSE inreadbuf
      BY <1>1, <2>1, <2>2 DEF SafeInv, RingInv
    <3> QED
      BY <2>2, <3>1 DEF Newest, SlotBefore
  <2>4. Remembered'
    <3> HIDE DEF Newest
    <3> QED
      BY <1>1, <2>2, <2>3, RememberedKept DEF msgs, flags
  <2>5. \A u \in Threads : pc'[u] = "realloc" => pc[u] = "realloc"
    BY <1>1, <1>2 DEF commit
  <2> QED
    BY <2>2, <2>4, <2>5, RepeatInvKept DEF msgs
<1>3. CASE ~commit(t)
  <2>1. UNCHANGED <<flags, ring, msgs>>
    BY <1>3 DEF Read, pick, check, interrupted, copy
  <2>2. \A u \in Threads : pc'[u] = "realloc" => pc[u] = "realloc" /\ res'[u] = res[u]
    <3>1. \E place \in Places \ {"realloc"} : pc' = [pc EXCEPT ![t] = place]
      BY <1>3 DEF Read, pick, check, interrupted, copy
    <3>2. res \in [Threads -> Nat]
      BY <1>1 DEF SafeInv, TypeOK
    <3>3. \A u \in Threads : u # t => res'[u] = res[u]
      BY <1>3, <3>2 DEF Read, pick, check, interrupted, copy
    <3> QED
      BY <1>1, <3>1, <3>3
  <2>3. Newest' = Newest
    BY <2>1 DEF Newest, SlotBefore, ring
  <2>4. Remembered'
    <3> HIDE DEF Newest
    <3> QED
      BY <1>1, <2>1, <2>3, RememberedKept DEF msgs, flags, ring
  <2> QED
    BY <1>1, <2>1, <2>2, <2>4 DEF RepeatInv, flags, ring, msgs
<1> QED
  BY <1>2, <1>3

(* dahdi_reallocbufs leaves a power of two of zeroed buffers. *)
LEMMA ClampPower ==
  ASSUME RepeatHypotheses, NEW n \in PowersOfTwo PROVE Clamp(n) \in PowersOfTwo
BY DEF RepeatHypotheses, Clamp, PowersOfTwo

LEMMA BlankRemembered ==
  ASSUME SafeInv', inreadbuf' = 0, NEW old,
         readbuf' = [s \in Slots |-> IF s < numbufs' THEN Blank ELSE old[s]]
  PROVE  Remembered'
<1>1. allocated' => Newest' \in Slots /\ Newest' < numbufs'
  <2>1. (SafeInv /\ allocated => Newest \in Slots /\ Newest < numbufs)'
    BY NewestFacts, PTL
  <2> QED
    BY <2>1 DEF Slots
<1> HIDE DEF Newest
<1> QED
  BY <1>1 DEF Remembered

LEMMA RepeatInvIoctl ==
  ASSUME RepeatHypotheses, RepeatInv, SafeInv', NEW t \in Threads, Ioctl(t)
  PROVE  RepeatInv'
<1>1. /\ SafeInv /\ Remembered /\ pc \in [Threads -> Places] /\ res \in [Threads -> Nat]
      /\ numbufs \in PowersOfTwo
      /\ \A u \in Threads : pc[u] = "realloc" => res[u] \in PowersOfTwo
  BY DEF RepeatInv, SafeInv, RingInv
<1>2. ~flush_read(t) /\ ~hangup(t)
  BY DEF RepeatHypotheses, flush_read, hangup, Calls
<1>3. CASE set_bufinfo(t) \/ getevent(t)
  <2>1. UNCHANGED <<flags, ring, msgs>>
    BY <1>3 DEF set_bufinfo, getevent
  <2>2. \A u \in Threads : pc'[u] = "realloc" => res'[u] \in PowersOfTwo
    <3>1. CASE set_bufinfo(t)
      <4>1. PICK n \in Requests \cup {numbufs} : res' = [res EXCEPT ![t] = n]
        BY <3>1 DEF set_bufinfo
      <4>2. n \in PowersOfTwo
        BY <1>1, <4>1 DEF RepeatHypotheses
      <4>3. pc' = [pc EXCEPT ![t] = "realloc"]
        BY <3>1 DEF set_bufinfo
      <4> HIDE DEF PowersOfTwo
      <4> QED
        BY <1>1, <4>1, <4>2, <4>3
    <3>2. CASE getevent(t)
      BY <1>1, <3>2 DEF getevent, threads
    <3> QED
      BY <1>3, <3>1, <3>2
  <2>3. Newest' = Newest
    BY <2>1 DEF Newest, SlotBefore, ring
  <2>4. Remembered'
    <3> HIDE DEF Newest
    <3> QED
      BY <1>1, <2>1, <2>3, RememberedKept DEF msgs, flags, ring
  <2> QED
    BY <2>1, <2>2, <2>4 DEF RepeatInv, flags, ring, msgs
<1>4. CASE reallocbufs(t)
  <2>1. /\ numbufs' = Clamp(res[t]) /\ inreadbuf' = 0 /\ pc[t] = "realloc"
        /\ readbuf' = [s \in Slots |-> IF s < numbufs' THEN Blank ELSE readbuf[s]]
        /\ pc' = [pc EXCEPT ![t] = "idle"]
        /\ UNCHANGED <<flags, res, msgs>>
    BY <1>4 DEF reallocbufs
  <2>2. numbufs' \in PowersOfTwo
    BY <1>1, <2>1, ClampPower
  <2>3. Remembered'
    BY <2>1, BlankRemembered
  <2>4. \A u \in Threads : pc'[u] = "realloc" => res'[u] \in PowersOfTwo
    <3> HIDE DEF PowersOfTwo
    <3> QED
      BY <1>1, <2>1
  <2> QED
    BY <2>1, <2>2, <2>3, <2>4 DEF RepeatInv, flags, msgs
<1> QED
  BY <1>2, <1>3, <1>4 DEF Ioctl

LEMMA RepeatInvReopen ==
  ASSUME RepeatHypotheses, RepeatInv, SafeInv', close \/ open
  PROVE  RepeatInv'
<1>1. UNCHANGED <<flags, pc, res, msgs>>
  BY DEF close, open, threads
<1>2. numbufs' \in PowersOfTwo
  <2>1. Clamp(0) = 2
    BY DEF Clamp
  <2>2. Clamp(DEFAULT_NUM_BUFS) \in PowersOfTwo
    BY ClampPower DEF RepeatHypotheses
  <2> QED
    BY <2>1, <2>2 DEF close, open, PowersOfTwo
<1>3. CASE close
  BY <1>1, <1>2, <1>3 DEF close, Remembered, RepeatInv, flags, msgs
<1>4. CASE open
  <2>1. Remembered'
    BY <1>4, BlankRemembered DEF open
  <2> QED
    BY <1>1, <1>2, <2>1 DEF RepeatInv, flags, msgs
<1> QED
  BY <1>3, <1>4

LEMMA RepeatInvInit ==
  ASSUME RepeatHypotheses, Init PROVE RepeatInv
<1>1. SafeInv /\ lost = FALSE /\ numbufs \in PowersOfTwo /\ (mtp2 => hdlc)
  BY SafeInvInit DEF Init, RepeatHypotheses
<1>2. \A t \in Threads : pc[t] # "realloc"
  BY DEF Init
<1>3. Remembered
  <2>1. allocated => Newest \in Slots
    BY <1>1, NewestFacts
  <2> HIDE DEF Newest
  <2> QED
    BY <2>1 DEF Remembered, Init
<1> QED
  BY <1>1, <1>2, <1>3 DEF RepeatInv

(* With a power of two of buffers and nothing flushed, an MTP2 channel     *)
(* leaves out only a message that repeats the one before it                *)
(* (__putbuf_chunk).                                                       *)
THEOREM RxDiscardsOnlyRepeats ==
  ASSUME SingleThread, RepeatHypotheses PROVE Spec => []DiscardsOnlyRepeats
<1>1. Init => RepeatInv
  BY RepeatInvInit
<1>2. RepeatInv /\ [Next]_vars => RepeatInv'
  <2> SUFFICES ASSUME RepeatInv, [Next]_vars PROVE RepeatInv'
    OBVIOUS
  <2>1. SafeInv'
    BY SafeInvInductive DEF RepeatInv
  <2>2. CASE Interrupt
    BY <2>1, <2>2, RepeatInvInterrupt
  <2>3. ASSUME NEW t \in Threads, Read(t) \/ Ioctl(t) PROVE RepeatInv'
    BY <2>1, <2>3, RepeatInvRead, RepeatInvIoctl
  <2>4. CASE close \/ open
    BY <2>1, <2>4, RepeatInvReopen
  <2>5. CASE UNCHANGED vars
    <3>1. Newest' = Newest
      BY <2>5 DEF vars, ring, Newest, SlotBefore
    <3>2. Remembered'
      <4> HIDE DEF Newest
      <4> QED
        BY <2>5, <3>1, RememberedKept DEF RepeatInv, vars, ring, flags, msgs
    <3> QED
      BY <2>1, <2>5, <3>2, RepeatInvKept DEF vars, ring, flags, msgs, threads
  <2> QED
    BY <2>2, <2>3, <2>4, <2>5 DEF Next
<1>3. RepeatInv => DiscardsOnlyRepeats
  BY DEF RepeatInv, DiscardsOnlyRepeats
<1> QED
  BY <1>1, <1>2, <1>3, PTL DEF Spec
=============================================================================
