---------------------------- MODULE TxRingProofs ----------------------------
(* Proofs about the write buffers of a channel, for every number of        *)
(* buffers, of threads that share it and of bytes in a chunk or a block.   *)
EXTENDS TxRing, SequenceTheorems, TLAPS

USE BufferAssumption DEF BufferAssumption, Places

(* What every handler keeps, however many threads race: the indices, who   *)
(* may be inside a call of a closed channel, and the transmitter's switch. *)
RingInv ==
  /\ numbufs \in Nat /\ numbufs >= 2
  /\ allocated \in BOOLEAN
  /\ inwritebuf \in Int /\ inwritebuf >= -1 /\ inwritebuf < numbufs
  /\ outwritebuf \in Int /\ outwritebuf >= -1
  /\ inwritebuf = -1 => outwritebuf < numbufs
  /\ pc \in [Threads -> Places]
  /\ res \in [Threads -> Nat]
  /\ RingConsistent
  /\ ~allocated => Quiet
  /\ NoStandoff

LEMMA NextSlotProperties ==
  ASSUME numbufs \in Nat, numbufs >= 2, NEW s \in Nat
  PROVE  /\ NextSlot(s) \in Nat
         /\ NextSlot(s) < numbufs
         /\ NextSlot(s) # s
BY DEF NextSlot

LEMMA ClampProperties == \A n \in Nat : Clamp(n) \in Nat /\ Clamp(n) >= 2
BY DEF Clamp

LEMMA WakeProperties ==
  ASSUME pc \in [Threads -> Places]
  PROVE  /\ Wake \in [Threads -> Places]
         /\ Quiet => Wake = pc
<1>1. Wake \in [Threads -> Places]
  BY DEF Wake
<1>2. Quiet => Wake = pc
  <2> SUFFICES ASSUME Quiet PROVE Wake = pc
    OBVIOUS
  <2>1. \A t \in Threads : Wake[t] = pc[t]
    BY DEF Wake, Quiet
  <2>2. QED
    BY <1>1, <2>1
<1>3. QED
  BY <1>1, <1>2

LEMMA RingInvInit == Init => RingInv
<1> SUFFICES ASSUME Init PROVE RingInv
  OBVIOUS
<1>1. /\ numbufs \in Nat /\ numbufs >= 2
      /\ inwritebuf = 0 /\ outwritebuf = -1
      /\ pc = [t \in Threads |-> "idle"] /\ res = [t \in Threads |-> 0]
  BY DEF Init
<1>2. allocated = TRUE
  BY DEF Init
<1>3. RingConsistent /\ NoStandoff
  BY <1>1, <1>2 DEF RingConsistent, NoStandoff
<1>4. pc \in [Threads -> Places] /\ res \in [Threads -> Nat]
  BY <1>1
<1>5. QED
  BY <1>1, <1>2, <1>3, <1>4 DEF RingInv

(* Steps that touch neither the indices nor the switch. *)
LEMMA RingInvKept ==
  ASSUME RingInv, pc' \in [Threads -> Places], res' \in [Threads -> Nat],
         UNCHANGED <<numbufs, allocated, inwritebuf, outwritebuf, txdisable>>,
         allocated \/ pc' = pc
  PROVE  RingInv'
<1>1. RingConsistent' /\ NoStandoff'
  BY DEF RingInv, RingConsistent, NoStandoff
<1>2. ~allocated' => Quiet'
  BY DEF RingInv, Quiet
<1>3. QED
  BY <1>1, <1>2 DEF RingInv

(* Steps that give an open channel indices of its own. *)
LEMMA RingInvOpen ==
  ASSUME RingInv, pc' \in [Threads -> Places], res' \in [Threads -> Nat],
         allocated' = TRUE,
         numbufs' \in Nat, numbufs' >= 2,
         inwritebuf' \in Int, inwritebuf' >= -1, inwritebuf' < numbufs',
         outwritebuf' \in Int, outwritebuf' >= -1,
         inwritebuf' # outwritebuf', inwritebuf' = -1 => outwritebuf' < numbufs',
         inwritebuf' = -1 => ~txdisable'
  PROVE  RingInv'
<1>1. RingConsistent' /\ NoStandoff'
  BY DEF RingConsistent, NoStandoff
<1>2. QED
  BY <1>1 DEF RingInv

LEMMA RingInvCommit == ASSUME RingInv, NEW t \in Threads, commit(t) PROVE RingInv'
<1> DEFINE next == NextSlot(res[t])
           full == FillsRing(next)
<1>1. res[t] \in Nat /\ pc' \in [Threads -> Places] /\ res' \in [Threads -> Nat]
  BY DEF RingInv, commit
<1>2. next \in Nat /\ next < numbufs /\ next # res[t]
  BY <1>1, NextSlotProperties DEF RingInv
<1>3. allocated = TRUE /\ allocated' = TRUE
  <2>1. pc[t] # "idle"
    BY DEF commit
  <2>2. ~Quiet
    BY <2>1 DEF Quiet
  <2>3. QED
    BY <2>2 DEF RingInv, commit
<1>4. /\ inwritebuf' = IF full THEN -1 ELSE next
      /\ outwritebuf' = IF outwritebuf < 0 THEN res[t] ELSE outwritebuf
      /\ numbufs' = numbufs
  BY DEF commit
<1>5. inwritebuf' # outwritebuf'
  <2>1. CASE full
    BY <1>1, <1>4, <2>1 DEF RingInv
  <2>2. CASE ~full
    BY <1>1, <1>2, <1>4, <2>2 DEF RingInv, FillsRing
  <2>3. QED
    BY <2>1, <2>2
<1>9. inwritebuf' = -1 => outwritebuf' < numbufs'
  BY <1>1, <1>2, <1>4 DEF RingInv, FillsRing
<1>6. inwritebuf' = -1 => ~txdisable'
  <2>1. inwritebuf' = -1 => full
    BY <1>2, <1>4
  <2>2. full => ~txdisable'
    BY DEF commit, Enables
  <2>3. QED
    BY <2>1, <2>2
<1>7. /\ inwritebuf' \in Int /\ inwritebuf' >= -1 /\ inwritebuf' < numbufs'
      /\ outwritebuf' \in Int /\ outwritebuf' >= -1
      /\ numbufs' \in Nat /\ numbufs' >= 2
  BY <1>1, <1>2, <1>4 DEF RingInv
<1>8. QED
  BY <1>1, <1>3, <1>5, <1>6, <1>7, <1>9, RingInvOpen

LEMMA RingInvTxBuffer == ASSUME RingInv, tx_buffer PROVE RingInv'
<1> DEFINE next == NextSlot(outwritebuf)
           last == next = inwritebuf
<1>1. /\ outwritebuf \in Nat
      /\ inwritebuf \in Int /\ inwritebuf >= -1 /\ inwritebuf < numbufs
      /\ numbufs \in Nat /\ numbufs >= 2
      /\ pc \in [Threads -> Places] /\ res \in [Threads -> Nat]
  BY DEF RingInv, tx_buffer, Transmitting
<1>2. allocated = TRUE /\ inwritebuf # outwritebuf
  BY <1>1 DEF RingInv, RingConsistent
<1>3. res' = res /\ allocated' = allocated /\ numbufs' = numbufs
  BY DEF tx_buffer
<1>4. CASE UNCHANGED <<outwritebuf, txdisable, inwritebuf, pc>>
  BY <1>1, <1>3, <1>4, RingInvKept
<1>5. CASE /\ outwritebuf' = AfterLast(last, next)
           /\ txdisable' = (txdisable \/ (last /\ Delays(txbufpolicy)))
           /\ inwritebuf' = SlotToFill(outwritebuf)
           /\ pc' = Wake
  <2>1. next \in Nat /\ next < numbufs /\ next # outwritebuf
    BY <1>1, NextSlotProperties
  <2>2. /\ outwritebuf' \in {next, outwritebuf, -1}
        /\ outwritebuf' # inwritebuf'
    <3>1. CASE last
      BY <1>1, <1>2, <1>5, <2>1, <3>1 DEF AfterLast, SlotToFill
    <3>2. CASE ~last
      BY <1>1, <1>2, <1>5, <2>1, <3>2 DEF AfterLast, SlotToFill
    <3>3. QED
      BY <3>1, <3>2
  <2>3. /\ outwritebuf' \in Int /\ outwritebuf' >= -1
    BY <1>1, <2>1, <2>2
  <2>4. inwritebuf' \in Nat
    BY <1>1, <1>5 DEF SlotToFill
  <2>5. inwritebuf' < numbufs
    BY <1>1, <1>5 DEF SlotToFill, RingInv
  <2>6. pc' \in [Threads -> Places]
    BY <1>1, <1>5, WakeProperties
  <2>7. QED
    BY <1>1, <1>2, <1>3, <2>2, <2>3, <2>4, <2>5, <2>6, RingInvOpen
<1>6. QED
  BY <1>4, <1>5 DEF tx_buffer

(* The steps of write() and the ioctls that leave the ring alone. *)
LEMMA RingInvThread ==
  ASSUME RingInv, NEW t \in Threads, allocated,
         pc' \in [Threads -> Places], res' \in [Threads -> Nat],
         UNCHANGED <<ring, txdisable>>
  PROVE  RingInv'
BY RingInvKept DEF ring

LEMMA RingInvWrite == ASSUME RingInv, NEW t \in Threads, Write(t) PROVE RingInv'
<1>1. pc \in [Threads -> Places] /\ res \in [Threads -> Nat]
  BY DEF RingInv
<1>2. pc[t] # "idle" => allocated
  BY DEF RingInv, Quiet
<1>3. CASE pick(t)
  <2>1. inwritebuf >= 0 => inwritebuf \in Nat
    BY DEF RingInv
  <2>2. pc' \in [Threads -> Places] /\ res' \in [Threads -> Nat]
    BY <1>1, <1>3, <2>1 DEF pick
  <2>3. QED
    BY <1>3, <2>2, RingInvKept DEF pick, ring, txctl
<1>4. CASE check(t)
  <2>1. pc' \in [Threads -> Places] /\ res' = res
    BY <1>1, <1>4 DEF check
  <2>2. QED
    BY <1>1, <1>2, <1>4, <2>1, RingInvKept DEF check, ring, txctl
<1>5. CASE interrupted(t)
  <2>1. pc' \in [Threads -> Places] /\ res' = res
    BY <1>1, <1>5 DEF interrupted
  <2>2. QED
    BY <1>1, <1>2, <1>5, <2>1, RingInvKept DEF interrupted, ring, txctl
<1>6. CASE copy(t)
  <2>1. pc' \in [Threads -> Places] /\ res' = res
    BY <1>1, <1>6 DEF copy
  <2>2. QED
    BY <1>1, <1>2, <1>6, <2>1, RingInvKept DEF copy, txctl
<1>7. CASE rewind(t)
  <2>1. pc' \in [Threads -> Places] /\ res' = res
    BY <1>1, <1>7 DEF rewind
  <2>2. QED
    BY <1>1, <1>2, <1>7, <2>1, RingInvKept DEF rewind, txctl
<1>8. CASE commit(t)
  BY <1>8, RingInvCommit
<1>9. QED
  BY <1>3, <1>4, <1>5, <1>6, <1>7, <1>8 DEF Write

LEMMA RingInvIoctl == ASSUME RingInv, NEW t \in Threads, Ioctl(t) PROVE RingInv'
<1>1. /\ pc \in [Threads -> Places] /\ res \in [Threads -> Nat]
      /\ numbufs \in Nat /\ numbufs >= 2
      /\ allocated \in BOOLEAN
  BY DEF RingInv
<1>2. pc[t] # "idle" => allocated = TRUE
  BY DEF RingInv, Quiet
<1>3. CASE flush_write(t)
  <2>1. /\ allocated' = TRUE /\ numbufs' = numbufs
        /\ inwritebuf' = 0 /\ outwritebuf' = -1 /\ pc' = Wake /\ res' = res
    BY <1>1, <1>3 DEF flush_write, EmptySlots, Calls
  <2>2. QED
    BY <1>1, <2>1, WakeProperties, RingInvOpen
<1>4. CASE hangup(t)
  <2>1. /\ allocated' = TRUE /\ numbufs' = numbufs
        /\ inwritebuf' = 0 /\ outwritebuf' = -1 /\ pc' = pc /\ res' = res
    BY <1>1, <1>4 DEF hangup, EmptySlots, Calls, threads
  <2>2. QED
    BY <1>1, <2>1, RingInvOpen
<1>5. CASE set_bufinfo(t)
  <2>1. pc' \in [Threads -> Places] /\ res' \in [Threads -> Nat]
    BY <1>1, <1>5 DEF set_bufinfo
  <2>2. allocated
    BY <1>5 DEF set_bufinfo, Calls
  <2>3. QED
    BY <1>5, <2>1, <2>2, RingInvKept DEF set_bufinfo, ring
<1>6. CASE reallocbufs(t)
  <2>1. pc' \in [Threads -> Places] /\ res' = res /\ allocated = TRUE
    BY <1>1, <1>2, <1>6 DEF reallocbufs
  <2>2. CASE UNCHANGED <<ring, txdisable>>
    BY <1>1, <2>1, <2>2, RingInvKept DEF ring
  <2>3. CASE numbufs' = Clamp(res[t]) /\ inwritebuf' = 0 /\ outwritebuf' = -1
             /\ UNCHANGED allocated
    <3>1. numbufs' \in Nat /\ numbufs' >= 2
      BY <1>1, <2>3, ClampProperties
    <3>2. QED
      BY <1>1, <2>1, <2>3, <3>1, RingInvOpen
  <2>4. QED
    BY <1>6, <2>2, <2>3 DEF reallocbufs, EmptySlots
<1>7. CASE iomux(t)
  <2>1. pc' \in [Threads -> Places] /\ res' = res
    BY <1>1, <1>7 DEF iomux
  <2>2. allocated = TRUE
    BY <1>1, <1>2, <1>7 DEF iomux, Calls
  <2>3. /\ UNCHANGED <<numbufs, allocated, inwritebuf, outwritebuf>>
        /\ txdisable' = FALSE
    BY <1>7 DEF iomux, ring
  <2>4. QED
    BY <2>1, <2>2, <2>3, <1>1, RingInvOpen DEF RingInv, RingConsistent
<1>8. CASE sync(t)
  <2>1. pc' \in [Threads -> Places] /\ res' = res
    BY <1>1, <1>8 DEF sync
  <2>2. QED
    BY <1>1, <1>8, <2>1, RingInvKept DEF sync, Calls, ring, txctl
<1>9. CASE sync_return(t)
  <2>1. pc' \in [Threads -> Places] /\ res' = res
    BY <1>1, <1>9 DEF sync_return
  <2>2. QED
    BY <1>1, <1>2, <1>9, <2>1, RingInvKept DEF sync_return, ring, txctl
<1>10. CASE getevent(t)
  BY <1>1, <1>10, RingInvKept DEF getevent, ring, txctl, threads
<1>11. QED
  BY <1>3, <1>4, <1>5, <1>6, <1>7, <1>8, <1>9, <1>10 DEF Ioctl

LEMMA RingInvInterrupt == ASSUME RingInv, Interrupt PROVE RingInv'
<1>1. pc \in [Threads -> Places] /\ res \in [Threads -> Nat]
  BY DEF RingInv
<1>2. CASE tx_start
  BY <1>1, <1>2, RingInvKept DEF tx_start, ring, txctl, threads
<1>3. CASE tx_buffer
  BY <1>3, RingInvTxBuffer
<1>4. CASE tx_silence
  <2>1. pc' \in [Threads -> Places] /\ res' = res /\ (allocated \/ pc' = pc)
    BY <1>1, <1>4, WakeProperties DEF tx_silence, RingInv
  <2>2. QED
    BY <1>1, <1>4, <2>1, RingInvKept DEF tx_silence, ring, txctl
<1>5. QED
  BY <1>2, <1>3, <1>4 DEF Interrupt

LEMMA RingInvClose == ASSUME RingInv, close PROVE RingInv'
<1>1. /\ numbufs' \in Nat /\ numbufs' >= 2
      /\ inwritebuf' = -1 /\ outwritebuf' = -1 /\ allocated' = FALSE
      /\ pc' = pc /\ res' = res /\ Quiet
  BY ClampProperties DEF close, EmptySlots, threads
<1>2. RingConsistent' /\ NoStandoff' /\ Quiet'
  BY <1>1 DEF RingConsistent, NoStandoff, Quiet
<1>3. pc' \in [Threads -> Places] /\ res' \in [Threads -> Nat]
  BY <1>1 DEF RingInv
<1>4. allocated' \in BOOLEAN
  BY <1>1
<1>5. QED
  BY <1>1, <1>2, <1>3, <1>4 DEF RingInv

LEMMA RingInvReopen == ASSUME RingInv, open PROVE RingInv'
<1>1. /\ numbufs' \in Nat /\ numbufs' >= 2
      /\ inwritebuf' = 0 /\ outwritebuf' = -1 /\ allocated' = TRUE
      /\ pc' = pc /\ res' = res
  BY ClampProperties DEF open, EmptySlots, threads
<1>2. QED
  BY <1>1, RingInvOpen DEF RingInv

LEMMA RingInvInductive == RingInv /\ [Next]_vars => RingInv'
<1> SUFFICES ASSUME RingInv, [Next]_vars PROVE RingInv'
  OBVIOUS
<1>1. CASE Interrupt
  BY <1>1, RingInvInterrupt
<1>2. ASSUME NEW t \in Threads, Write(t) \/ Ioctl(t) PROVE RingInv'
  BY <1>2, RingInvWrite, RingInvIoctl
<1>3. CASE close
  BY <1>3, RingInvClose
<1>4. CASE open
  BY <1>4, RingInvReopen
<1>5. CASE UNCHANGED vars
  <2>1. UNCHANGED <<numbufs, allocated, inwritebuf, outwritebuf, txdisable, pc, res>>
    BY <1>5 DEF vars, ring, txctl, threads
  <2>2. pc' \in [Threads -> Places] /\ res' \in [Threads -> Nat]
    BY <2>1 DEF RingInv
  <2>3. QED
    BY <2>1, <2>2, RingInvKept
<1>6. QED
  BY <1>1, <1>2, <1>3, <1>4, <1>5 DEF Next

-----------------------------------------------------------------------------
(* However many threads write, flush and reallocate at once, the filler    *)
(* and the transmitter never meet on a slot and never both lack one        *)
(* (dahdi_chan_write, __dahdi_getbuf_chunk, dahdi_reallocbufs).            *)
THEOREM TxRingConsistent == Spec => []RingConsistent
<1>1. RingInv => RingConsistent
  BY DEF RingInv
<1>2. QED
  BY <1>1, RingInvInit, RingInvInductive, PTL DEF Spec

(* A full ring is never held back by the buffer policy: every path that    *)
(* fills the ring enables the transmitter (dahdi_chan_write) and every     *)
(* path that disables it leaves a free slot.                               *)
THEOREM TxRingNoStandoff == Spec => []NoStandoff
<1>1. RingInv => NoStandoff
  BY DEF RingInv
<1>2. QED
  BY <1>1, RingInvInit, RingInvInductive, PTL DEF Spec

-----------------------------------------------------------------------------
(* One thread at a time on the open file. *)

SingleThread == \A t, u \in Threads : t = u

(* What makes a slot safe to fill without the lock: a slot that is not on  *)
(* its way out has nothing transmitted yet, so that it may be handed over. *)
OwnerInv ==
  /\ RingInv
  /\ numbufs <= MAX_NUM_BUFS /\ outwritebuf < numbufs
  /\ bytes \in Nat
  /\ writen \in [Slots -> Nat] /\ writeidx \in [Slots -> Nat]
  /\ \A s \in Slots : s < numbufs /\ s # outwritebuf => writeidx[s] = 0
  /\ FillerOwnsSlot
  /\ NeverOverread

Filling(t) == pc[t] \in {"copy", "rewind", "commit"}

LEMMA ClampUpper == \A n \in Nat : Clamp(n) <= MAX_NUM_BUFS
BY DEF Clamp

LEMMA OwnerInvInit == Init => OwnerInv
<1> SUFFICES ASSUME Init PROVE OwnerInv
  OBVIOUS
<1>1. RingInv
  BY RingInvInit
<1>2. /\ numbufs <= MAX_NUM_BUFS /\ outwritebuf = -1 /\ bytes = 0
      /\ writen = Zeroes /\ writeidx = Zeroes
      /\ pc = [t \in Threads |-> "idle"]
  BY DEF Init
<1>3. writen \in [Slots -> Nat] /\ writeidx \in [Slots -> Nat] /\ \A s \in Slots : writeidx[s] = 0
  BY <1>2 DEF Zeroes
<1>4. FillerOwnsSlot /\ NeverOverread
  BY <1>2 DEF FillerOwnsSlot, NeverOverread
<1>5. QED
  BY <1>1, <1>2, <1>3, <1>4 DEF OwnerInv, RingInv

(* EmptySlots leaves a ring of n slots with nothing on its way out. *)
LEMMA OwnerInvEmptied ==
  ASSUME OwnerInv, RingInv', EmptySlots(numbufs'), numbufs' <= MAX_NUM_BUFS, bytes' \in Nat,
         \A t \in Threads : ~Filling(t)'
  PROVE  OwnerInv'
<1>1. outwritebuf' = -1 /\ numbufs' >= 2 /\ numbufs' \in Nat
  BY DEF EmptySlots, RingInv
<1>2. /\ writen' \in [Slots -> Nat] /\ writeidx' \in [Slots -> Nat]
      /\ \A s \in Slots : s < numbufs' => writeidx'[s] = 0
  BY DEF EmptySlots, OwnerInv
<1>3. FillerOwnsSlot' /\ NeverOverread'
  BY <1>1 DEF FillerOwnsSlot, NeverOverread, Filling
<1>4. QED
  BY <1>1, <1>2, <1>3 DEF OwnerInv

(* Steps that leave the slots and what is filled in them alone. *)
LEMMA OwnerInvKept ==
  ASSUME OwnerInv, RingInv', bytes' \in Nat,
         UNCHANGED <<numbufs, inwritebuf, outwritebuf, writen, writeidx>>,
         \A t \in Threads : Filling(t)' =>
           res'[t] = inwritebuf /\ inwritebuf >= 0
  PROVE  OwnerInv'
<1>1. \A t \in Threads : Filling(t)' => res'[t] # outwritebuf
  <2> SUFFICES ASSUME NEW t \in Threads, Filling(t)' PROVE res'[t] # outwritebuf
    OBVIOUS
  <2>1. allocated
    BY DEF OwnerInv, RingInv, RingConsistent
  <2>2. QED
    BY <2>1 DEF OwnerInv, RingInv, RingConsistent
<1>2. FillerOwnsSlot' /\ NeverOverread'
  BY <1>1 DEF FillerOwnsSlot, NeverOverread, OwnerInv, Filling
<1>3. QED
  BY <1>2 DEF OwnerInv

LEMMA FillingFacts ==
  ASSUME OwnerInv, NEW t \in Threads, Filling(t)
  PROVE  res[t] = inwritebuf /\ inwritebuf >= 0 /\ res[t] # outwritebuf
BY DEF OwnerInv, RingInv, FillerOwnsSlot, Filling

LEMMA OwnerInvTxBuffer == ASSUME OwnerInv, RingInv', tx_buffer PROVE OwnerInv'
<1> DEFINE out  == outwritebuf
           rest == writen[out] - writeidx[out]
           left == IF rest > bytes THEN bytes ELSE rest
           done == writeidx[out] + left >= writen[out]
           next == NextSlot(out)
<1>1. /\ out \in Slots /\ out \in Nat /\ out < numbufs
      /\ writen \in [Slots -> Nat] /\ writeidx \in [Slots -> Nat]
      /\ writeidx[out] <= writen[out]
      /\ bytes \in Nat
      /\ numbufs \in Nat /\ numbufs >= 2 /\ numbufs <= MAX_NUM_BUFS
      /\ inwritebuf \in Int
      /\ out # inwritebuf
  BY DEF tx_buffer, Transmitting, OwnerInv, RingInv, Slots, NeverOverread, RingConsistent
<1>2. left \in Nat /\ left <= bytes /\ left <= rest
  BY <1>1
<1>3. bytes' \in Nat /\ numbufs' = numbufs /\ res' = res
  BY <1>1, <1>2 DEF tx_buffer
<1>4. next \in Nat /\ next < numbufs /\ next # out
  BY <1>1, NextSlotProperties
<1>5. CASE done
  <2>1. /\ writeidx' = [writeidx EXCEPT ![out] = 0]
        /\ writen' = EmptySent(out)
        /\ outwritebuf' = AfterLast(next = inwritebuf, next)
        /\ inwritebuf' = SlotToFill(out)
        /\ pc' = Wake
    BY <1>5 DEF tx_buffer
  <2>2. outwritebuf' \in {out, next, -1}
    BY <2>1 DEF AfterLast
  <2>3. writen' \in [Slots -> Nat] /\ writeidx' \in [Slots -> Nat]
    BY <1>1, <2>1 DEF EmptySent
  <2>4. \A s \in Slots : s < numbufs => writeidx'[s] = 0
    BY <1>1, <2>1 DEF OwnerInv
  <2>5. NeverOverread'
    <3>1. out \in Slots /\ next \in Slots /\ out < numbufs /\ next < numbufs
      BY <1>1, <1>4 DEF Slots
    <3> HIDE DEF out, next
    <3>2. ASSUME NEW s \in Slots, s < numbufs PROVE writeidx'[s] <= writen'[s]
      BY <2>3, <2>4, <3>2
    <3>3. outwritebuf' = -1 \/ writeidx'[outwritebuf'] <= writen'[outwritebuf']
      BY <2>2, <3>1, <3>2
    <3> QED
      BY <3>3 DEF NeverOverread
  <2>6. FillerOwnsSlot'
    <3> SUFFICES ASSUME NEW t \in Threads, Filling(t)'
                 PROVE  res[t] = inwritebuf' /\ res[t] # outwritebuf'
      BY <1>3 DEF FillerOwnsSlot, Filling
    <3>1. Filling(t)
      BY <2>1 DEF Wake, Filling
    <3>2. res[t] = inwritebuf /\ inwritebuf >= 0 /\ res[t] # out
      BY <3>1, FillingFacts
    <3>3. inwritebuf' = inwritebuf
      BY <1>1, <2>1, <3>2 DEF SlotToFill
    <3>4. outwritebuf' # inwritebuf
      BY <1>1, <1>4, <2>1, <3>2 DEF AfterLast
    <3>5. QED
      BY <3>2, <3>3, <3>4
  <2>7. QED
    BY <1>1, <1>3, <1>4, <2>2, <2>3, <2>4, <2>5, <2>6 DEF OwnerInv
<1>6. CASE ~done
  <2>1. /\ writeidx' = [writeidx EXCEPT ![out] = @ + left]
        /\ UNCHANGED <<writen, outwritebuf, inwritebuf, pc>>
    BY <1>6 DEF tx_buffer
  <2>2. /\ writeidx' \in [Slots -> Nat]
        /\ \A s \in Slots : s # out => writeidx'[s] = writeidx[s]
        /\ writeidx'[out] <= writen[out]
    BY <1>1, <1>2, <2>1
  <2>3. FillerOwnsSlot' /\ NeverOverread'
    BY <1>3, <2>1, <2>2 DEF FillerOwnsSlot, NeverOverread, OwnerInv
  <2>4. QED
    BY <1>1, <1>3, <2>1, <2>2, <2>3 DEF OwnerInv
<1>7. QED
  BY <1>5, <1>6

LEMMA OwnerInvCopy ==
  ASSUME OwnerInv, RingInv', NEW t \in Threads, copy(t) \/ rewind(t)
  PROVE  OwnerInv'
<1>1. /\ pc[t] \in {"copy", "rewind"} /\ Filling(t)
      /\ UNCHANGED <<numbufs, inwritebuf, outwritebuf, bytes, res>>
  BY DEF copy, rewind, Filling, irq
<1>2. res[t] = inwritebuf /\ inwritebuf >= 0 /\ res[t] # outwritebuf
  BY <1>1, FillingFacts
<1>3. /\ writen \in [Slots -> Nat] /\ writeidx \in [Slots -> Nat]
      /\ outwritebuf \in Int /\ outwritebuf < numbufs
      /\ pc \in [Threads -> Places]
      /\ numbufs \in Nat /\ numbufs <= MAX_NUM_BUFS
  BY DEF OwnerInv, RingInv
<1>4. /\ writen' \in [Slots -> Nat]
      /\ writeidx' \in [Slots -> Nat]
      /\ \A s \in Slots : s # res[t] => writen'[s] = writen[s] /\ writeidx'[s] = writeidx[s]
      /\ writeidx'[res[t]] = writeidx[res[t]] \/ writeidx'[res[t]] = 0
  <2>1. CASE copy(t)
    BY <1>3, <2>1 DEF copy
  <2>2. CASE rewind(t)
    BY <1>3, <2>2 DEF rewind
  <2>3. QED
    BY <2>1, <2>2
<1>5. NeverOverread'
  BY <1>1, <1>2, <1>3, <1>4 DEF NeverOverread, OwnerInv, Slots
<1>6. FillerOwnsSlot'
  <2>1. \A u \in Threads : Filling(u)' => Filling(u)
    BY <1>1, <1>3 DEF copy, rewind, Filling
  <2>2. QED
    BY <1>1, <2>1, FillingFacts DEF FillerOwnsSlot, Filling
<1>7. \A s \in Slots : s < numbufs /\ s # outwritebuf => writeidx'[s] = 0
  BY <1>4 DEF OwnerInv
<1>8. QED
  BY <1>1, <1>4, <1>5, <1>6, <1>7 DEF OwnerInv

LEMMA OwnerInvCommit ==
  ASSUME SingleThread, OwnerInv, RingInv', NEW t \in Threads, commit(t)
  PROVE  OwnerInv'
<1>1. /\ Filling(t)
      /\ UNCHANGED <<numbufs, bytes, res, writen, writeidx>>
      /\ outwritebuf' = IF outwritebuf < 0 THEN res[t] ELSE outwritebuf
  BY DEF commit, Filling, irq
<1>2. res[t] = inwritebuf /\ inwritebuf >= 0 /\ res[t] # outwritebuf
  BY <1>1, FillingFacts
<1>3. /\ writen \in [Slots -> Nat] /\ writeidx \in [Slots -> Nat]
      /\ outwritebuf \in Int /\ outwritebuf >= -1 /\ outwritebuf < numbufs
      /\ inwritebuf \in Int /\ inwritebuf < numbufs
      /\ pc \in [Threads -> Places]
      /\ numbufs \in Nat /\ numbufs <= MAX_NUM_BUFS
  BY DEF OwnerInv, RingInv
<1>4. outwritebuf' < numbufs
  BY <1>1, <1>2, <1>3
<1>5. \A s \in Slots : s < numbufs /\ s # outwritebuf' => writeidx[s] = 0
  BY <1>1, <1>3 DEF OwnerInv, Slots
<1>6. NeverOverread'
  <2>1. CASE outwritebuf < 0
    <3>1. res[t] \in Slots /\ writeidx[res[t]] = 0
      BY <1>2, <1>3, <2>1 DEF OwnerInv, Slots
    <3>2. QED
      BY <1>1, <1>3, <2>1, <3>1 DEF NeverOverread
  <2>2. CASE outwritebuf >= 0
    BY <1>1, <1>3, <2>2 DEF NeverOverread, OwnerInv
  <2>3. QED
    BY <1>3, <2>1, <2>2
<1>7. \A u \in Threads : ~Filling(u)'
  <2>1. \A u \in Threads : u = t
    BY DEF SingleThread
  <2>2. pc'[t] = "idle"
    BY <1>3 DEF commit
  <2>3. QED
    BY <2>1, <2>2 DEF Filling
<1>8. FillerOwnsSlot'
  BY <1>7 DEF FillerOwnsSlot, Filling
<1>9. QED
  BY <1>1, <1>3, <1>4, <1>5, <1>6, <1>8 DEF OwnerInv

LEMMA OwnerInvWrite ==
  ASSUME SingleThread, OwnerInv, RingInv', NEW t \in Threads, Write(t)
  PROVE  OwnerInv'
<1>1. pc \in [Threads -> Places] /\ bytes \in Nat /\ res \in [Threads -> Nat]
  BY DEF OwnerInv, RingInv
<1>2. CASE pick(t)
  <2>1. UNCHANGED <<numbufs, inwritebuf, outwritebuf, writen, writeidx, bytes>>
    BY <1>2 DEF pick, ring, irq
  <2>2. ASSUME NEW u \in Threads, Filling(u)' PROVE res'[u] = inwritebuf /\ inwritebuf >= 0
    <3>1. CASE u = t
      BY <1>1, <1>2, <2>2, <3>1 DEF pick, Filling
    <3>2. CASE u # t
      BY <3>2 DEF SingleThread
    <3>3. QED
      BY <3>1, <3>2
  <2>3. QED
    BY <1>1, <2>1, <2>2, OwnerInvKept
<1>3. CASE check(t) \/ interrupted(t)
  <2>1. /\ UNCHANGED <<numbufs, inwritebuf, outwritebuf, writen, writeidx, bytes, res>>
        /\ \A u \in Threads : Filling(u)' => Filling(u)
    BY <1>1, <1>3 DEF check, interrupted, ring, irq, Filling
  <2>2. QED
    BY <1>1, <2>1, FillingFacts, OwnerInvKept
<1>4. CASE copy(t) \/ rewind(t)
  BY <1>4, OwnerInvCopy
<1>5. CASE commit(t)
  BY <1>5, OwnerInvCommit
<1>6. QED
  BY <1>2, <1>3, <1>4, <1>5 DEF Write

LEMMA OwnerInvIoctl ==
  ASSUME SingleThread, OwnerInv, RingInv', NEW t \in Threads, Ioctl(t)
  PROVE  OwnerInv'
<1>1. /\ pc \in [Threads -> Places] /\ bytes \in Nat /\ res \in [Threads -> Nat]
      /\ numbufs \in Nat /\ numbufs <= MAX_NUM_BUFS
      /\ \A u \in Threads : u = t
  BY DEF OwnerInv, RingInv, SingleThread
<1>2. CASE flush_write(t)
  <2>1. /\ EmptySlots(numbufs') /\ numbufs' = numbufs /\ bytes' = bytes
        /\ pc[t] = "idle" /\ pc' = Wake
    BY <1>2 DEF flush_write, Calls, irq
  <2>2. \A u \in Threads : ~Filling(u)'
    BY <1>1, <2>1 DEF Wake, Filling
  <2>3. QED
    BY <1>1, <2>1, <2>2, OwnerInvEmptied
<1>3. CASE hangup(t)
  <2>1. /\ EmptySlots(numbufs') /\ numbufs' = numbufs /\ bytes' = bytes
        /\ pc[t] = "idle" /\ pc' = pc
    BY <1>3 DEF hangup, Calls, irq, threads
  <2>2. \A u \in Threads : ~Filling(u)'
    BY <1>1, <2>1 DEF Filling
  <2>3. QED
    BY <1>1, <2>1, <2>2, OwnerInvEmptied
<1>4. CASE reallocbufs(t)
  <2>1. /\ pc'[t] = "idle" /\ bytes' = bytes
        /\ \A u \in Threads : ~Filling(u)'
    BY <1>1, <1>4 DEF reallocbufs, Filling, irq
  <2>2. CASE UNCHANGED ring
    <3>1. UNCHANGED <<numbufs, inwritebuf, outwritebuf, writen, writeidx>>
      BY <2>2 DEF ring
    <3>2. QED
      BY <1>1, <2>1, <3>1, OwnerInvKept
  <2>3. CASE numbufs' = Clamp(res[t]) /\ EmptySlots(numbufs')
    <3>1. numbufs' <= MAX_NUM_BUFS
      BY <1>1, <2>3, ClampUpper
    <3>2. QED
      BY <1>1, <2>1, <2>3, <3>1, OwnerInvEmptied
  <2>4. QED
    BY <1>4, <2>2, <2>3 DEF reallocbufs
<1>5. CASE set_bufinfo(t) \/ iomux(t) \/ sync(t) \/ sync_return(t) \/ getevent(t)
  <2>1. UNCHANGED <<numbufs, inwritebuf, outwritebuf, writen, writeidx, bytes>>
    BY <1>5 DEF set_bufinfo, iomux, sync, sync_return, getevent, ring, irq
  <2>2. pc[t] \in {"idle", "iomux", "sync"} /\ pc'[t] \in {"idle", "iomux", "iomux_asleep", "realloc", "sync"}
    BY <1>1, <1>5 DEF set_bufinfo, iomux, sync, sync_return, getevent, Calls, threads
  <2>3. \A u \in Threads : ~Filling(u)'
    BY <1>1, <2>2 DEF Filling
  <2>4. QED
    BY <1>1, <2>1, <2>3, OwnerInvKept
<1>6. QED
  BY <1>2, <1>3, <1>4, <1>5 DEF Ioctl

LEMMA OwnerInvIdle ==
  ASSUME OwnerInv, RingInv', close \/ open
  PROVE  OwnerInv'
<1>1. /\ numbufs' = Clamp(0) \/ numbufs' = Clamp(DEFAULT_NUM_BUFS)
      /\ EmptySlots(numbufs') /\ bytes' = bytes /\ pc' = pc /\ Quiet
  BY DEF close, open, irq, threads
<1>2. numbufs' <= MAX_NUM_BUFS /\ bytes' \in Nat
  BY <1>1, ClampUpper DEF OwnerInv
<1>3. \A u \in Threads : ~Filling(u)'
  BY <1>1 DEF Quiet, Filling
<1>4. QED
  BY <1>1, <1>2, <1>3, OwnerInvEmptied

LEMMA OwnerInvInductive == ASSUME SingleThread PROVE OwnerInv /\ [Next]_vars => OwnerInv'
<1> SUFFICES ASSUME OwnerInv, [Next]_vars PROVE OwnerInv'
  OBVIOUS
<1>1. RingInv'
  BY RingInvInductive DEF OwnerInv
<1>2. CASE tx_start \/ tx_silence
  <2>1. /\ UNCHANGED <<numbufs, inwritebuf, outwritebuf, writen, writeidx, res>>
        /\ bytes' \in Nat
        /\ \A u \in Threads : Filling(u)' => Filling(u)
    BY <1>2 DEF tx_start, tx_silence, ring, threads, Wake, Filling
  <2>2. QED
    BY <1>1, <2>1, FillingFacts, OwnerInvKept
<1>3. CASE tx_buffer
  BY <1>1, <1>3, OwnerInvTxBuffer
<1>4. ASSUME NEW t \in Threads, Write(t) \/ Ioctl(t) PROVE OwnerInv'
  BY <1>1, <1>4, OwnerInvWrite, OwnerInvIoctl
<1>5. CASE close \/ open
  BY <1>1, <1>5, OwnerInvIdle
<1>6. CASE UNCHANGED vars
  <2>1. UNCHANGED <<numbufs, inwritebuf, outwritebuf, writen, writeidx, bytes, pc, res>>
    BY <1>6 DEF vars, ring, irq, threads
  <2>2. QED
    BY <1>1, <2>1, FillingFacts, OwnerInvKept DEF OwnerInv, Filling
<1>7. QED
  BY <1>2, <1>3, <1>4, <1>5, <1>6 DEF Next, Interrupt

(* When one thread at a time uses the file, the slot that write() fills    *)
(* without chan->lock is never the one the interrupt transmits, and the    *)
(* interrupt never computes a negative length to copy                      *)
(* (dahdi_chan_write, __dahdi_getbuf_chunk).                               *)
THEOREM TxSlotsSafe == ASSUME SingleThread PROVE Spec => []SlotsSafe
<1>1. OwnerInv /\ [Next]_vars => OwnerInv'
  BY OwnerInvInductive
<1>2. OwnerInv => SlotsSafe
  BY DEF OwnerInv, SlotsSafe
<1>3. QED
  BY <1>1, <1>2, OwnerInvInit, PTL DEF Spec
-----------------------------------------------------------------------------
(* The buffer policy.  A flush or a hangup leaves the transmitter as it    *)
(* is, and an allocation that fails leaves a policy that was stored with   *)
(* the transmitter of the one before; neither is among the calls here.     *)
BuffersKept == Ops \cap {"flush", "hangup"} = {} /\ ~AllocMayFail

(* A policy that SET_BUFINFO has stored takes effect when its call of      *)
(* dahdi_reallocbufs ends.                                                 *)
PolicyInEffect == \A t \in Threads : pc[t] # "realloc"

PolicyInv ==
  /\ txdisable \in BOOLEAN /\ mustFill \in BOOLEAN
  /\ HeldUntilFull /\ StartsWhenReady
  /\ PolicyInEffect /\ txbufpolicy = "immediate" => ~txdisable

(* num_filled_bufs counts right where a block is on its way out.           *)
LEMMA FilledIsCount ==
  ASSUME numbufs \in Nat, NEW in \in Int, NEW out \in Nat
  PROVE  num_filled_bufs(in, out) = Count(in, out)
BY DEF num_filled_bufs, Count

(* The transmitter as a change of the buffers leaves it, ...               *)
LEMMA PolicySet ==
  ASSUME txdisable' = Delays(txbufpolicy'), mustFill' = Delays(txbufpolicy')
  PROVE  PolicyInv'
<1>1. txdisable' \in BOOLEAN /\ mustFill' \in BOOLEAN /\ (mustFill' <=> txdisable')
  BY DEF Delays
<1>2. txbufpolicy' = "immediate" => ~txdisable'
  BY DEF Delays
<1> QED
  BY <1>1, <1>2 DEF PolicyInv, HeldUntilFull, StartsWhenReady

(* ... enabled, ...                                                        *)
LEMMA PolicyEnabled ==
  ASSUME txdisable' = FALSE, mustFill' = FALSE PROVE PolicyInv'
<1>1. txdisable' \in BOOLEAN /\ mustFill' \in BOOLEAN /\ ~mustFill' /\ ~txdisable'
  OBVIOUS
<1> QED
  BY <1>1 DEF PolicyInv, HeldUntilFull, StartsWhenReady

(* ... and as it was.                                                      *)
LEMMA PolicyKept ==
  ASSUME PolicyInv, UNCHANGED <<txdisable, mustFill, txbufpolicy, allocated>>,
         PolicyInEffect' => PolicyInEffect
  PROVE  PolicyInv'
BY DEF PolicyInv, HeldUntilFull, StartsWhenReady

LEMMA PolicyCommit ==
  ASSUME RingInv, PolicyInv, NEW t \in Threads, commit(t) PROVE PolicyInv'
<1> DEFINE full == FillsRing(NextSlot(res[t]))
           in   == IF full THEN -1 ELSE NextSlot(res[t])
           out  == IF outwritebuf < 0 THEN res[t] ELSE outwritebuf
           half == HalfFull(Count(in, out))
<1>1. in \in Int /\ out \in Nat
  <2>1. res[t] \in Nat
    BY DEF RingInv
  <2> QED
    BY <2>1, NextSlotProperties DEF RingInv
<1>2. /\ txdisable' = (txdisable /\ ~Enables(full, num_filled_bufs(in, out)))
      /\ mustFill' = (mustFill /\ ~full /\ ~half)
      /\ UNCHANGED <<txbufpolicy, allocated>>
      /\ pc[t] = "commit" /\ pc' = [pc EXCEPT ![t] = "idle"]
  BY DEF commit
<1>3. num_filled_bufs(in, out) = Count(in, out)
  BY <1>1, FilledIsCount DEF RingInv
<1> HIDE DEF in, out, full
<1>4. Enables(full, num_filled_bufs(in, out)) <=> full \/ half
  BY <1>3 DEF Enables
<1>5. ~half => ~HalfFull(Count(in, out))
  OBVIOUS
<1> HIDE DEF half
<1>6. /\ txdisable' <=> txdisable /\ ~(full \/ half)
      /\ mustFill' <=> mustFill /\ ~(full \/ half)
      /\ txdisable' \in BOOLEAN /\ mustFill' \in BOOLEAN
  BY <1>2, <1>4
<1>7. PolicyInEffect' => PolicyInEffect
  <2> SUFFICES ASSUME PolicyInEffect', NEW u \in Threads PROVE pc[u] # "realloc"
    BY DEF PolicyInEffect
  <2>1. pc'[u] # "realloc" /\ pc \in [Threads -> Places]
    BY DEF PolicyInEffect, RingInv
  <2> QED
    BY <1>2, <2>1
<1>8. (mustFill' => txdisable') /\ (allocated' /\ txdisable' => mustFill')
  BY <1>2, <1>6 DEF PolicyInv, HeldUntilFull, StartsWhenReady
<1>9. PolicyInEffect' /\ txbufpolicy' = "immediate" => ~txdisable'
  BY <1>2, <1>6, <1>7 DEF PolicyInv
<1> QED
  BY <1>6, <1>8, <1>9 DEF PolicyInv, HeldUntilFull, StartsWhenReady

(* A wake-up moves no thread in or out of dahdi_reallocbufs.               *)
LEMMA WakeKeepsPolicy ==
  ASSUME pc \in [Threads -> Places], pc' = Wake \/ pc' = pc
  PROVE  PolicyInEffect' <=> PolicyInEffect
BY DEF PolicyInEffect, Wake

LEMMA PolicyInterrupt ==
  ASSUME RingInv, PolicyInv, Interrupt PROVE PolicyInv'
<1>1. pc \in [Threads -> Places]
  BY DEF RingInv
<1>2. PolicyInEffect' => PolicyInEffect
  <2>1. pc' = Wake \/ pc' = pc
    BY DEF Interrupt, tx_start, tx_silence, tx_buffer, threads
  <2> QED
    BY <1>1, <2>1, WakeKeepsPolicy
<1>3. UNCHANGED <<txbufpolicy, allocated>>
  BY DEF Interrupt, tx_start, tx_silence, tx_buffer, txctl, ring
<1>4. CASE UNCHANGED <<txdisable, mustFill>>
  BY <1>2, <1>3, <1>4, PolicyKept
<1>5. CASE tx_buffer /\ ~UNCHANGED <<txdisable, mustFill>>
  <2> DEFINE last == NextSlot(outwritebuf) = inwritebuf
  <2>1. /\ ~txdisable
        /\ txdisable' = (txdisable \/ (last /\ Delays(txbufpolicy)))
        /\ mustFill' = IF last THEN Delays(txbufpolicy) ELSE mustFill
    BY <1>5 DEF tx_buffer, Transmitting
  <2> HIDE DEF last
  <2>2. CASE last
    BY <1>3, <2>1, <2>2, PolicySet DEF Delays
  <2>3. CASE ~last
    <3>1. ~txdisable' /\ txdisable' \in BOOLEAN /\ mustFill' = mustFill
      BY <2>1, <2>3
    <3>2. txdisable' = txdisable
      BY <2>1, <3>1 DEF PolicyInv
    <3> QED
      BY <1>5, <3>1, <3>2
  <2> QED
    BY <2>2, <2>3
<1> QED
  BY <1>4, <1>5 DEF Interrupt, tx_start, tx_silence, txctl, history

LEMMA PolicyWrite ==
  ASSUME RingInv, PolicyInv, NEW t \in Threads, Write(t) PROVE PolicyInv'
<1>1. pc \in [Threads -> Places]
  BY DEF RingInv
<1>2. CASE pick(t) \/ check(t) \/ interrupted(t) \/ copy(t) \/ rewind(t)
  <2>1. UNCHANGED <<txdisable, mustFill, txbufpolicy, allocated>>
    BY <1>2 DEF pick, check, interrupted, copy, rewind, ring, txctl, history
  <2>2. pc[t] # "realloc" /\ \A u \in Threads : u # t => pc'[u] = pc[u]
    BY <1>1, <1>2 DEF pick, check, interrupted, copy, rewind
  <2>3. PolicyInEffect' => PolicyInEffect
    BY <2>2 DEF PolicyInEffect
  <2> QED
    BY <2>1, <2>3, PolicyKept
<1>3. CASE commit(t)
  BY <1>3, PolicyCommit
<1> QED
  BY <1>2, <1>3 DEF Write

LEMMA PolicyIoctl ==
  ASSUME BuffersKept, RingInv, PolicyInv, NEW t \in Threads, Ioctl(t) PROVE PolicyInv'
<1>1. pc \in [Threads -> Places]
  BY DEF RingInv
<1>2. ~(flush_write(t) \/ hangup(t))
  BY DEF BuffersKept, flush_write, hangup, Calls
<1>3. CASE set_bufinfo(t)
  <2>1. UNCHANGED <<txdisable, mustFill, allocated>> /\ pc'[t] = "realloc"
    BY <1>1, <1>3 DEF set_bufinfo, ring, history
  <2>2. ~PolicyInEffect'
    BY <2>1 DEF PolicyInEffect
  <2> QED
    BY <2>1, <2>2 DEF PolicyInv, HeldUntilFull, StartsWhenReady
<1>4. CASE reallocbufs(t)
  <2>1. /\ UNCHANGED txbufpolicy
        /\ txdisable' = Delays(txbufpolicy) /\ mustFill' = Delays(txbufpolicy)
    BY <1>4 DEF reallocbufs, BuffersKept, HeldAfterRealloc
  <2> QED
    BY <2>1, PolicySet
<1>5. CASE iomux(t)
  BY <1>5, PolicyEnabled DEF iomux
<1>6. CASE sync(t) \/ sync_return(t) \/ getevent(t)
  <2>1. UNCHANGED <<txdisable, mustFill, txbufpolicy, allocated>>
    BY <1>6 DEF sync, sync_return, getevent, ring, txctl, history
  <2>2. pc[t] # "realloc" /\ \A u \in Threads : u # t => pc'[u] = pc[u]
    BY <1>1, <1>6 DEF sync, sync_return, getevent, Calls, threads
  <2>3. PolicyInEffect' => PolicyInEffect
    BY <2>2 DEF PolicyInEffect
  <2> QED
    BY <2>1, <2>3, PolicyKept
<1> QED
  BY <1>2, <1>3, <1>4, <1>5, <1>6 DEF Ioctl

LEMMA PolicyIdle == ASSUME close \/ open PROVE PolicyInv'
<1>1. CASE close
  BY <1>1, PolicySet DEF close, HeldAfterRealloc
<1>2. CASE open
  BY <1>2, PolicyEnabled DEF open
<1> QED
  BY <1>1, <1>2

(* The three policies of user.h are kept, with any number of threads and   *)
(* buffers: what waits to be full or half full stays off the line till it  *)
(* is (dahdi_chan_write, __dahdi_getbuf_chunk), starts then though the     *)
(* ring wraps (num_filled_bufs), and "immediate" never waits.              *)
THEOREM TxPolicyObeyed == ASSUME BuffersKept PROVE Spec => []PolicyObeyed
<1>1. Init => PolicyInv
  BY DEF Init, PolicyInv, HeldUntilFull, StartsWhenReady
<1>2. RingInv /\ PolicyInv /\ [Next]_vars => PolicyInv'
  <2> SUFFICES ASSUME RingInv, PolicyInv, [Next]_vars PROVE PolicyInv'
    OBVIOUS
  <2>1. CASE UNCHANGED vars
    BY <2>1, PolicyKept DEF vars, ring, txctl, threads, history, PolicyInEffect
  <2>2. CASE Next
    BY <2>2, PolicyInterrupt, PolicyWrite, PolicyIoctl, PolicyIdle DEF Next
  <2> QED
    BY <2>1, <2>2
<1>3. RingInv /\ PolicyInv => PolicyObeyed
  BY DEF PolicyInv, PolicyObeyed, ImmediateStarts, Quiet, PolicyInEffect
<1> QED
  BY <1>1, <1>2, <1>3, RingInvInit, RingInvInductive, PTL DEF Spec
-----------------------------------------------------------------------------
(* The ring is a pipe of blocks. *)

Waiting == Count(inwritebuf, outwritebuf)
BlockIn(s) == [tag |-> writebuf[s], from |-> writeidx[s], len |-> writen[s]]

DataInv ==
  /\ writebuf \in [Slots -> Tags]
  /\ writen \in [Slots -> 0 .. MaxLen]

PipeInv == OwnerInv /\ DataInv

LEMMA NextIs ==
  ASSUME numbufs \in Nat, NEW s \in 0 .. numbufs - 1
  PROVE  NextSlot(s) = IF s + 1 = numbufs THEN 0 ELSE s + 1
BY DEF NextSlot

(* The slots that wait are in the ring and not the one to fill, ...        *)
LEMMA WindowSlots ==
  ASSUME PipeInv
  PROVE  /\ Waiting \in 0 .. numbufs
         /\ outwritebuf >= 0 => Waiting >= 1 /\ QueuedSlot(1) = outwritebuf
         /\ \A i \in 1 .. Waiting :
              /\ QueuedSlot(i) \in Slots /\ QueuedSlot(i) < numbufs
              /\ QueuedSlot(i) # inwritebuf
              /\ i > 1 => QueuedSlot(i) # outwritebuf
<1>1. /\ numbufs \in Nat /\ numbufs >= 2 /\ numbufs <= MAX_NUM_BUFS
      /\ inwritebuf \in -1 .. numbufs - 1 /\ outwritebuf \in -1 .. numbufs - 1
      /\ outwritebuf >= 0 => inwritebuf # outwritebuf
  BY DEF PipeInv, OwnerInv, RingInv, RingConsistent
<1>2. Waiting \in 0 .. numbufs
  BY <1>1 DEF Waiting, Count
<1>3. outwritebuf >= 0 => Waiting >= 1 /\ QueuedSlot(1) = outwritebuf
  BY <1>1 DEF Waiting, Count, QueuedSlot
<1>4. ASSUME NEW i \in 1 .. Waiting
      PROVE  /\ QueuedSlot(i) \in 0 .. numbufs - 1
             /\ QueuedSlot(i) # inwritebuf
             /\ i > 1 => QueuedSlot(i) # outwritebuf
  BY <1>1 DEF Waiting, Count, QueuedSlot
<1> QED
  BY <1>1, <1>2, <1>3, <1>4 DEF Slots

(* ... a commit adds the one that was filled, ...                          *)
LEMMA WindowGrows ==
  ASSUME numbufs \in Nat, numbufs >= 2, UNCHANGED numbufs,
         inwritebuf \in 0 .. numbufs - 1, outwritebuf \in -1 .. numbufs - 1,
         inwritebuf # outwritebuf,
         inwritebuf' = IF FillsRing(NextSlot(inwritebuf)) THEN -1 ELSE NextSlot(inwritebuf),
         outwritebuf' = IF outwritebuf < 0 THEN inwritebuf ELSE outwritebuf
  PROVE  /\ Waiting < numbufs /\ Waiting' = Waiting + 1
         /\ QueuedSlot(Waiting)' = inwritebuf
         /\ \A i \in 1 .. Waiting : QueuedSlot(i)' = QueuedSlot(i)
<1>1. NextSlot(inwritebuf) = IF inwritebuf + 1 = numbufs THEN 0 ELSE inwritebuf + 1
  BY NextIs
<1> DEFINE next == NextSlot(inwritebuf)
<1> HIDE DEF next
<1>2. next = IF inwritebuf + 1 = numbufs THEN 0 ELSE inwritebuf + 1
  BY <1>1 DEF next
<1>3. inwritebuf' = IF next = outwritebuf THEN -1 ELSE next
  BY DEF next, FillsRing
<1>4. CASE outwritebuf = -1
  <2>1. Waiting = 0
    BY <1>4 DEF Waiting, Count
  <2>2. outwritebuf' = inwritebuf /\ inwritebuf' = next
    BY <1>2, <1>3, <1>4
  <2>3. Waiting' = 1
    BY <1>2, <2>2 DEF Waiting, Count
  <2>4. QueuedSlot(Waiting)' = inwritebuf
    BY <1>4, <2>2, <2>3 DEF QueuedSlot
  <2> HIDE DEF Waiting
  <2> QED
    BY <2>1, <2>3, <2>4
<1>5. CASE outwritebuf >= 0
  <2>1. outwritebuf' = outwritebuf
    BY <1>5
  <2>2. Waiting = IF inwritebuf >= outwritebuf THEN inwritebuf - outwritebuf
                  ELSE inwritebuf - outwritebuf + numbufs
    BY <1>5 DEF Waiting, Count
  <2>3. Waiting' = IF inwritebuf' < 0 THEN numbufs
                   ELSE IF inwritebuf' >= outwritebuf THEN inwritebuf' - outwritebuf
                   ELSE inwritebuf' - outwritebuf + numbufs
    BY <1>5, <2>1 DEF Waiting, Count
  <2>4. Waiting \in Nat /\ Waiting < numbufs /\ Waiting' = Waiting + 1
    BY <1>2, <1>3, <1>5, <2>2, <2>3
  <2>5. \A i : QueuedSlot(i)' = QueuedSlot(i)
    BY <2>1 DEF QueuedSlot
  <2>6. QueuedSlot(Waiting + 1) = inwritebuf
    BY <1>5, <2>2 DEF QueuedSlot
  <2> HIDE DEF Waiting
  <2>7. QueuedSlot(Waiting)' = inwritebuf
    BY <2>1, <2>4, <2>6 DEF QueuedSlot
  <2> QED
    BY <2>4, <2>5, <2>7
<1> QED
  BY <1>4, <1>5

(* ... and a block that was sent is no longer among them.                  *)
LEMMA WindowShrinks ==
  ASSUME numbufs \in Nat, numbufs >= 2,
         inwritebuf \in -1 .. numbufs - 1, outwritebuf \in 0 .. numbufs - 1,
         inwritebuf # outwritebuf
  PROVE  /\ NextSlot(outwritebuf) = inwritebuf <=> Waiting = 1
         /\ \A i \in 1 .. Waiting - 1 :
              QueuedSlot(i + 1) = IF NextSlot(outwritebuf) + i - 1 < numbufs
                                  THEN NextSlot(outwritebuf) + i - 1
                                  ELSE NextSlot(outwritebuf) + i - 1 - numbufs
         /\ NextSlot(outwritebuf) # inwritebuf =>
              Waiting - 1 = Count(IF inwritebuf < 0 THEN outwritebuf ELSE inwritebuf,
                                  NextSlot(outwritebuf))
<1> DEFINE next == NextSlot(outwritebuf)
<1>1. next = IF outwritebuf + 1 = numbufs THEN 0 ELSE outwritebuf + 1
  BY NextIs
<1> HIDE DEF next
<1>2. next = inwritebuf <=> Waiting = 1
  BY <1>1 DEF Waiting, Count
<1>3. \A i \in 1 .. Waiting - 1 :
        QueuedSlot(i + 1) = IF next + i - 1 < numbufs THEN next + i - 1
                            ELSE next + i - 1 - numbufs
  BY <1>1 DEF Waiting, Count, QueuedSlot
<1>4. next # inwritebuf =>
        Waiting - 1 = Count(IF inwritebuf < 0 THEN outwritebuf ELSE inwritebuf, next)
  BY <1>1 DEF Waiting, Count
<1> QED
  BY <1>2, <1>3, <1>4 DEF next

LEMMA DataInvInit == Init => DataInv
<1>1. SomeTag \in Tags
  BY DEF SomeTag
<1> QED
  BY <1>1 DEF Init, DataInv, Zeroes

LEMMA DataInvEmptied ==
  ASSUME DataInv, UNCHANGED writebuf, NEW n, EmptySlots(n) PROVE DataInv'
BY DEF DataInv, EmptySlots

LEMMA DataInvInductive == OwnerInv /\ DataInv /\ [Next]_vars => DataInv'
<1> SUFFICES ASSUME OwnerInv, DataInv, [Next]_vars PROVE DataInv'
  OBVIOUS
<1>1. CASE UNCHANGED <<writebuf, writen>>
  BY <1>1 DEF DataInv
<1>2. ASSUME NEW t \in Threads, copy(t) PROVE DataInv'
  BY <1>2 DEF copy, DataInv
<1>3. CASE tx_buffer
  BY <1>3 DEF tx_buffer, EmptySent, DataInv
<1>4. ASSUME NEW n, EmptySlots(n), UNCHANGED writebuf PROVE DataInv'
  BY <1>4, DataInvEmptied
<1>5. CASE tx_start \/ tx_silence \/ UNCHANGED vars
  BY <1>1, <1>5 DEF tx_start, tx_silence, vars, ring
<1>6. ASSUME NEW t \in Threads, Write(t) PROVE DataInv'
  BY <1>1, <1>2, <1>6 DEF Write, pick, check, interrupted, rewind, commit, ring
<1>7. ASSUME NEW t \in Threads, Ioctl(t) PROVE DataInv'
  <2>1. CASE flush_write(t) \/ hangup(t)
    BY <1>4, <2>1 DEF flush_write, hangup
  <2>2. CASE reallocbufs(t)
    BY <1>1, <1>4, <2>2 DEF reallocbufs, ring
  <2>3. CASE ~(flush_write(t) \/ hangup(t) \/ reallocbufs(t))
    BY <1>1, <1>7, <2>3 DEF Ioctl, set_bufinfo, iomux, sync, sync_return, getevent, ring
  <2> QED
    BY <2>1, <2>2, <2>3
<1>8. CASE close \/ open
  BY <1>4, <1>8 DEF close, open
<1> QED
  BY <1>3, <1>5, <1>6, <1>7, <1>8 DEF Next, Interrupt

(* What waits is a sequence of blocks. *)
QueueSound ==
  /\ Waiting \in Nat
  /\ Queue \in Seq(Pipe!Block)
  /\ Len(Queue) = Waiting
  /\ \A i \in 1 .. Waiting : Queue[i] = BlockIn(QueuedSlot(i))

LEMMA QueueIsSeq == PipeInv => QueueSound
<1> SUFFICES ASSUME PipeInv PROVE QueueSound
  OBVIOUS
<1>1. Waiting \in Nat
  BY WindowSlots DEF PipeInv, OwnerInv, RingInv
<1>2. ASSUME NEW i \in 1 .. Waiting PROVE BlockIn(QueuedSlot(i)) \in Pipe!Block
  <2> DEFINE s == QueuedSlot(i)
  <2>1. s \in Slots /\ s < numbufs
    BY WindowSlots
  <2> HIDE DEF s
  <2>2. /\ writebuf[s] \in Tags /\ writen[s] \in 0 .. MaxLen
    BY <2>1 DEF PipeInv, DataInv
  <2>3. writeidx[s] \in Nat /\ writeidx[s] <= writen[s]
    <3>1. CASE s = outwritebuf
      BY <2>1, <3>1 DEF PipeInv, OwnerInv, NeverOverread, Slots
    <3>2. CASE s # outwritebuf
      BY <2>1, <2>2, <3>2 DEF PipeInv, OwnerInv
    <3> QED
      BY <3>1, <3>2
  <2>4. writeidx[s] \in 0 .. MaxLen
    BY <2>2, <2>3
  <2> QED
    BY <2>2, <2>4 DEF s, BlockIn, Pipe!Block
<1>3. Queue = [i \in 1 .. Waiting |-> BlockIn(QueuedSlot(i))]
  BY DEF Queue, Waiting, BlockIn
<1> HIDE DEF Waiting
<1>4. Queue \in [1 .. Waiting -> Pipe!Block]
  BY <1>2, <1>3
<1>5. Queue \in Seq(Pipe!Block) /\ Len(Queue) = Waiting
  BY <1>1, <1>4
<1> QED
  BY <1>1, <1>3, <1>5 DEF QueueSound

LEMMA QueueIsSeqPrimed == PipeInv' => QueueSound'
BY QueueIsSeq, PTL

(* The next queue, from the blocks in its slots. *)
LEMMA QueueEqual ==
  ASSUME QueueSound', NEW q \in Seq(Pipe!Block), Len(q) = Waiting',
         \A i \in 1 .. Waiting' : q[i] = BlockIn(QueuedSlot(i))'
  PROVE  Queue' = q
<1>1. /\ Queue' \in Seq(Pipe!Block) /\ Len(Queue') = Waiting'
      /\ \A i \in 1 .. Waiting' : Queue'[i] = BlockIn(QueuedSlot(i))'
  BY DEF QueueSound
<1> HIDE DEF Queue, Waiting
<1> QED
  BY <1>1, SeqEqual

(* Steps that leave the blocks that wait alone. *)
LEMMA QueueKept ==
  ASSUME UNCHANGED <<numbufs, inwritebuf, outwritebuf>>,
         \A i \in 1 .. Waiting : BlockIn(QueuedSlot(i))' = BlockIn(QueuedSlot(i))
  PROVE  Queue' = Queue
<1>1. Waiting' = Waiting
  BY DEF Waiting, Count
<1>2. Queue = [i \in 1 .. Waiting |-> BlockIn(QueuedSlot(i))]
  BY DEF Queue, Waiting, BlockIn
<1>3. Queue' = [i \in 1 .. Waiting' |-> BlockIn(QueuedSlot(i))']
  BY DEF Queue, Waiting, BlockIn
<1> HIDE DEF Waiting
<1> QED
  BY <1>1, <1>2, <1>3

LEMMA RingKept == ASSUME UNCHANGED ring PROVE Queue' = Queue
BY DEF ring, Queue, Count, QueuedSlot

(* A write() that fills its block touches none of the queue. *)
LEMMA CopyIsSilent ==
  ASSUME PipeInv, NEW t \in Threads, copy(t) \/ rewind(t)
  PROVE  UNCHANGED Pipe!pipeVars
<1>1. Filling(t) /\ UNCHANGED <<numbufs, allocated, inwritebuf, outwritebuf, mtp2, sent, discarded>>
  BY DEF copy, rewind, Filling, history
<1>2. res[t] = inwritebuf
  BY <1>1, FillingFacts DEF PipeInv
<1>3. /\ writebuf \in [Slots -> Tags]
      /\ writen \in [Slots -> 0 .. MaxLen] /\ writeidx \in [Slots -> Nat]
  BY DEF PipeInv, OwnerInv, DataInv
<1>4. ASSUME NEW s \in Slots, s # inwritebuf
      PROVE  writebuf'[s] = writebuf[s] /\ writen'[s] = writen[s] /\ writeidx'[s] = writeidx[s]
  <2>1. CASE copy(t)
    BY <1>2, <1>3, <1>4, <2>1 DEF copy
  <2>2. CASE rewind(t)
    BY <1>2, <1>3, <1>4, <2>2 DEF rewind
  <2> QED
    BY <2>1, <2>2
<1>5. ASSUME NEW i \in 1 .. Waiting PROVE BlockIn(QueuedSlot(i))' = BlockIn(QueuedSlot(i))
  <2>1. QueuedSlot(i) \in Slots /\ QueuedSlot(i) # inwritebuf
    BY WindowSlots
  <2>2. QueuedSlot(i)' = QueuedSlot(i)
    BY <1>1 DEF QueuedSlot
  <2> QED
    BY <1>4, <2>1, <2>2 DEF BlockIn
<1>6. Queue' = Queue
  BY <1>1, <1>5, QueueKept
<1> QED
  BY <1>1, <1>6 DEF Pipe!pipeVars

(* The locked tail of write() accepts the block. *)
LEMMA CommitAccepts ==
  ASSUME PipeInv, PipeInv', NEW t \in Threads, commit(t)
  PROVE  \E tag \in Tags, len \in 0 .. MaxLen : Pipe!Accept(tag, len)
<1> DEFINE s == inwritebuf
           block == [tag |-> writebuf[s], from |-> 0, len |-> writen[s]]
<1>1. /\ Filling(t)
      /\ UNCHANGED <<numbufs, allocated, writebuf, writen, writeidx, mtp2, sent, discarded>>
  BY DEF commit, Filling
<1>2. res[t] = s /\ s >= 0 /\ s # outwritebuf
  BY <1>1, FillingFacts DEF PipeInv
<1>3. /\ numbufs \in Nat /\ numbufs >= 2 /\ numbufs <= MAX_NUM_BUFS
      /\ inwritebuf \in 0 .. numbufs - 1 /\ outwritebuf \in -1 .. numbufs - 1
  BY <1>2 DEF PipeInv, OwnerInv, RingInv
<1>4. allocated = TRUE
  BY <1>2 DEF PipeInv, OwnerInv, RingInv, RingConsistent
<1>5. /\ inwritebuf' = IF FillsRing(NextSlot(inwritebuf)) THEN -1 ELSE NextSlot(inwritebuf)
      /\ outwritebuf' = IF outwritebuf < 0 THEN inwritebuf ELSE outwritebuf
  BY <1>2 DEF commit
<1>6. /\ Waiting < numbufs /\ Waiting' = Waiting + 1
      /\ QueuedSlot(Waiting)' = s
      /\ \A i \in 1 .. Waiting : QueuedSlot(i)' = QueuedSlot(i)
  BY <1>1, <1>2, <1>3, <1>5, WindowGrows
<1>7. s \in Slots /\ s < numbufs
  BY <1>3 DEF Slots
<1>8. writebuf[s] \in Tags /\ writen[s] \in 0 .. MaxLen /\ writeidx[s] = 0
  BY <1>2, <1>7 DEF PipeInv, OwnerInv, DataInv
<1>9. QueueSound /\ QueueSound'
  BY QueueIsSeq, QueueIsSeqPrimed
<1>10. block \in Pipe!Block
  BY <1>8 DEF Pipe!Block
<1> HIDE DEF Waiting
<1>11. BlockIn(s) = block
  BY <1>8 DEF BlockIn
<1> HIDE DEF block, s
<1>12. /\ Append(Queue, block) \in Seq(Pipe!Block)
       /\ Len(Append(Queue, block)) = Waiting'
  BY <1>6, <1>9, <1>10, AppendProperties DEF QueueSound
<1>13. ASSUME NEW i \in 1 .. Waiting'
       PROVE  Append(Queue, block)[i] = BlockIn(QueuedSlot(i))'
  <2>1. CASE i = Waiting'
    <3>1. QueuedSlot(i)' = s
      BY <1>6, <2>1
    <3>2. BlockIn(QueuedSlot(i))' = block
      BY <1>1, <1>11, <3>1 DEF BlockIn
    <3> QED
      BY <1>6, <1>9, <1>10, <2>1, <3>2, AppendProperties DEF QueueSound
  <2>2. CASE i \in 1 .. Waiting
    <3>1. QueuedSlot(i)' = QueuedSlot(i)
      BY <1>6, <2>2
    <3>2. BlockIn(QueuedSlot(i))' = Queue[i]
      BY <1>1, <1>9, <2>2, <3>1 DEF BlockIn, QueueSound
    <3> QED
      BY <1>9, <1>10, <2>2, <3>2, AppendProperties DEF QueueSound
  <2> QED
    BY <1>6, <1>9, <2>1, <2>2 DEF QueueSound
<1>14. Queue' = Append(Queue, block)
  BY <1>9, <1>12, <1>13, QueueEqual
<1>15. Len(Queue) < numbufs
  BY <1>6, <1>9 DEF QueueSound
<1>16. Pipe!Accept(writebuf[s], writen[s])
  BY <1>1, <1>4, <1>14, <1>15 DEF Pipe!Accept, block
<1> QED
  BY <1>8, <1>16

(* A pass of the interrupt that leaves the oldest block where it is.       *)
LEMMA HeadRewritten ==
  ASSUME PipeInv, PipeInv', outwritebuf >= 0, NEW n \in 0 .. MaxLen,
         UNCHANGED <<numbufs, inwritebuf, outwritebuf, writebuf, writen>>,
         writeidx' = [writeidx EXCEPT ![outwritebuf] = n]
  PROVE  Queue' = [Queue EXCEPT ![1].from = n]
<1> DEFINE first == [Queue[1] EXCEPT !.from = n]
<1>1. QueueSound /\ QueueSound'
  BY QueueIsSeq, QueueIsSeqPrimed
<1>2. Waiting >= 1 /\ QueuedSlot(1) = outwritebuf
  BY WindowSlots
<1>3. Waiting' = Waiting /\ \A i : QueuedSlot(i)' = QueuedSlot(i)
  BY DEF Waiting, Count, QueuedSlot
<1>4. \A i \in 1 .. Waiting : QueuedSlot(i) \in Slots /\ (i > 1 => QueuedSlot(i) # outwritebuf)
  BY WindowSlots
<1>5. writeidx \in [Slots -> Nat]
  BY DEF PipeInv, OwnerInv
<1> HIDE DEF Waiting
<1>6. 1 \in 1 .. Waiting
  BY <1>1, <1>2 DEF QueueSound
<1>7. Queue[1] = BlockIn(outwritebuf) /\ Queue[1] \in Pipe!Block
  <2>1. Queue[1] = BlockIn(outwritebuf)
    BY <1>1, <1>2, <1>6 DEF QueueSound
  <2>2. Queue[1] \in Pipe!Block
    BY <1>1, <1>6, LenProperties DEF QueueSound
  <2> QED
    BY <2>1, <2>2
<1>8. first \in Pipe!Block
  BY <1>7 DEF Pipe!Block
<1>9. BlockIn(outwritebuf)' = first
  <2>1. outwritebuf \in Slots
    BY <1>2, <1>4, <1>6
  <2>2. writeidx'[outwritebuf] = n
    BY <1>5, <2>1
  <2>3. first = [tag |-> writebuf[outwritebuf], from |-> n, len |-> writen[outwritebuf]]
    BY <1>7 DEF BlockIn
  <2> QED
    BY <2>2, <2>3 DEF BlockIn
<1> HIDE DEF first
<1> DEFINE q == [Queue EXCEPT ![1] = first]
<1>10. /\ q \in Seq(Pipe!Block) /\ Len(q) = Waiting
       /\ \A i \in 1 .. Waiting : q[i] = IF i = 1 THEN first ELSE Queue[i]
  BY <1>1, <1>6, <1>8, ExceptSeq DEF QueueSound
<1>11. q = [Queue EXCEPT ![1].from = n]
  BY DEF first
<1> HIDE DEF q
<1>12. ASSUME NEW i \in 1 .. Waiting' PROVE q[i] = BlockIn(QueuedSlot(i))'
  <2>1. i \in 1 .. Waiting /\ QueuedSlot(i)' = QueuedSlot(i)
    BY <1>3
  <2>2. CASE i = 1
    <3>1. QueuedSlot(i)' = outwritebuf
      BY <1>2, <2>1, <2>2
    <3>2. BlockIn(QueuedSlot(i))' = first
      BY <1>9, <3>1 DEF BlockIn
    <3> QED
      BY <1>10, <2>1, <2>2, <3>2
  <2>3. CASE i # 1
    <3>1. QueuedSlot(i) \in Slots /\ QueuedSlot(i) # outwritebuf
      BY <1>1, <1>4, <2>1, <2>3 DEF QueueSound
    <3>2. writeidx'[QueuedSlot(i)] = writeidx[QueuedSlot(i)]
      BY <1>5, <3>1
    <3>3. BlockIn(QueuedSlot(i))' = BlockIn(QueuedSlot(i))
      BY <2>1, <3>2 DEF BlockIn
    <3>4. Queue[i] = BlockIn(QueuedSlot(i))
      BY <1>1, <2>1 DEF QueueSound
    <3> QED
      BY <1>10, <2>1, <2>3, <3>3, <3>4
  <2> QED
    BY <2>2, <2>3
<1>13. Queue' = q
  BY <1>1, <1>3, <1>10, <1>12, QueueEqual
<1> QED
  BY <1>11, <1>13

(* A pass that completes the oldest block and drops it.                    *)
LEMMA HeadDropped ==
  ASSUME PipeInv, PipeInv', outwritebuf >= 0, UNCHANGED <<numbufs, writebuf>>,
         inwritebuf' = SlotToFill(outwritebuf),
         outwritebuf' = IF NextSlot(outwritebuf) = inwritebuf THEN -1 ELSE NextSlot(outwritebuf),
         \A s \in Slots : s # outwritebuf => writeidx'[s] = writeidx[s] /\ writen'[s] = writen[s]
  PROVE  Queue # <<>> /\ Queue' = Tail(Queue)
<1> DEFINE next == NextSlot(outwritebuf)
<1>1. QueueSound /\ QueueSound'
  BY QueueIsSeq, QueueIsSeqPrimed
<1>2. /\ numbufs \in Nat /\ numbufs >= 2
      /\ inwritebuf \in -1 .. numbufs - 1 /\ outwritebuf \in 0 .. numbufs - 1
      /\ inwritebuf # outwritebuf
  BY DEF PipeInv, OwnerInv, RingInv, RingConsistent
<1>3. Waiting >= 1
  BY WindowSlots
<1>4. \A i \in 1 .. Waiting : QueuedSlot(i) \in Slots /\ (i > 1 => QueuedSlot(i) # outwritebuf)
  BY WindowSlots
<1>5. /\ next = inwritebuf <=> Waiting = 1
      /\ \A i \in 1 .. Waiting - 1 :
           QueuedSlot(i + 1) = IF next + i - 1 < numbufs THEN next + i - 1
                               ELSE next + i - 1 - numbufs
      /\ next # inwritebuf =>
           Waiting - 1 = Count(IF inwritebuf < 0 THEN outwritebuf ELSE inwritebuf, next)
  BY <1>2, WindowShrinks
<1>6. Waiting' = Waiting - 1
  <2>1. CASE next = inwritebuf
    BY <1>5, <2>1 DEF Waiting, Count
  <2>2. CASE next # inwritebuf
    <3>1. Waiting' = Count(SlotToFill(outwritebuf), next)
      BY <2>2 DEF Waiting, Count
    <3> QED
      BY <1>5, <2>2, <3>1 DEF SlotToFill
  <2> QED
    BY <2>1, <2>2
<1>7. \A i \in 1 .. Waiting - 1 : QueuedSlot(i)' = QueuedSlot(i + 1)
  <2> HIDE DEF Waiting, next
  <2> SUFFICES ASSUME NEW i \in 1 .. Waiting - 1 PROVE QueuedSlot(i)' = QueuedSlot(i + 1)
    OBVIOUS
  <2>1. next # inwritebuf /\ Waiting \in Nat
    BY <1>1, <1>5 DEF QueueSound
  <2>2. outwritebuf' = next
    BY <2>1 DEF next
  <2> QED
    BY <1>5, <2>2 DEF QueuedSlot
<1> HIDE DEF Waiting, next
<1>8. /\ Queue # <<>>
      /\ Tail(Queue) \in Seq(Pipe!Block) /\ Len(Tail(Queue)) = Waiting'
      /\ \A i \in 1 .. Waiting - 1 : Tail(Queue)[i] = Queue[i + 1]
  <2>1. Queue # <<>>
    BY <1>1, <1>3 DEF QueueSound
  <2> QED
    BY <1>1, <1>6, <2>1, HeadTailProperties DEF QueueSound
<1>9. ASSUME NEW i \in 1 .. Waiting' PROVE Tail(Queue)[i] = BlockIn(QueuedSlot(i))'
  <2>1. i \in 1 .. Waiting - 1 /\ i + 1 \in 1 .. Waiting /\ i + 1 > 1
    BY <1>1, <1>6 DEF QueueSound
  <2>2. Tail(Queue)[i] = BlockIn(QueuedSlot(i + 1))
    BY <1>1, <1>8, <2>1 DEF QueueSound
  <2>3. QueuedSlot(i + 1) \in Slots /\ QueuedSlot(i + 1) # outwritebuf
    BY <1>4, <2>1
  <2>4. QueuedSlot(i)' = QueuedSlot(i + 1)
    BY <1>7, <2>1
  <2> QED
    BY <2>2, <2>3, <2>4 DEF BlockIn
<1>10. Queue' = Tail(Queue)
  BY <1>1, <1>8, <1>9, QueueEqual
<1> QED
  BY <1>8, <1>10

(* Each pass of the interrupt over a block emits a piece of the oldest.    *)
LEMMA TxBufferEmits ==
  ASSUME PipeInv, PipeInv', tx_buffer
  PROVE  \E n \in 0 .. MaxLen : Pipe!Emit(n)
<1> DEFINE out  == outwritebuf
           rest == writen[out] - writeidx[out]
           left == IF rest > bytes THEN bytes ELSE rest
           upto == writeidx[out] + left
           last == NextSlot(out) = inwritebuf
<1>1. out >= 0 /\ UNCHANGED <<numbufs, allocated, writebuf, mtp2, discarded>>
  BY DEF tx_buffer, Transmitting, PipeInv, OwnerInv, RingInv
<1>2. QueueSound /\ Waiting >= 1 /\ QueuedSlot(1) = out
  BY <1>1, QueueIsSeq, WindowSlots
<1>3. /\ out \in Slots /\ NextSlot(out) \in Nat /\ NextSlot(out) # out
      /\ last <=> Waiting = 1
      /\ out # inwritebuf
  <2>1. /\ numbufs \in Nat /\ numbufs >= 2
        /\ inwritebuf \in -1 .. numbufs - 1 /\ outwritebuf \in 0 .. numbufs - 1
        /\ inwritebuf # outwritebuf /\ numbufs <= MAX_NUM_BUFS
    BY <1>1 DEF PipeInv, OwnerInv, RingInv, RingConsistent
  <2>2. last <=> Waiting = 1
    BY <2>1, WindowShrinks
  <2>3. NextSlot(out) \in Nat /\ NextSlot(out) # out
    BY <2>1, NextSlotProperties
  <2> QED
    BY <2>1, <2>2, <2>3 DEF Slots
<1>4. /\ bytes \in Nat /\ writen[out] \in 0 .. MaxLen
      /\ writeidx[out] \in Nat /\ writeidx[out] <= writen[out]
      /\ writen \in [Slots -> 0 .. MaxLen] /\ writeidx \in [Slots -> Nat]
  <2>1. /\ bytes \in Nat /\ writeidx \in [Slots -> Nat]
        /\ writeidx[out] <= writen[out]
    BY <1>1 DEF PipeInv, OwnerInv, RingInv, NeverOverread
  <2>2. writen \in [Slots -> 0 .. MaxLen]
    BY DEF PipeInv, DataInv
  <2>3. writeidx[out] \in Nat
    BY <1>3, <2>1
  <2>4. writen[out] \in 0 .. MaxLen
    BY <1>3, <2>2
  <2> QED
    BY <2>1, <2>2, <2>3, <2>4
<1>5. left \in 0 .. MaxLen /\ upto \in 0 .. MaxLen /\ upto <= writen[out]
  BY <1>4
<1>6. sent' = [tag |-> writebuf[out], from |-> writeidx[out], to |-> upto]
  BY DEF tx_buffer
<1>7. ASSUME upto < writen[out] PROVE Queue' = [Queue EXCEPT ![1].from = upto]
  <2>1. /\ UNCHANGED <<writen, outwritebuf, inwritebuf>>
        /\ writeidx' = [writeidx EXCEPT ![out] = upto]
    BY <1>4, <1>5, <1>7 DEF tx_buffer
  <2> QED
    BY <1>1, <1>5, <2>1, HeadRewritten
<1>8. ASSUME ~(upto < writen[out])
      PROVE  /\ writeidx' = [writeidx EXCEPT ![out] = 0]
             /\ writen' = EmptySent(out)
             /\ outwritebuf' = AfterLast(last, NextSlot(out))
             /\ inwritebuf' = SlotToFill(out)
  BY <1>4, <1>5, <1>8 DEF tx_buffer
<1>9. ASSUME ~(upto < writen[out]), mtp2, last
      PROVE  Queue' = [Queue EXCEPT ![1].from = 0]
  <2>1. UNCHANGED <<writen, outwritebuf, inwritebuf>>
    BY <1>3, <1>8, <1>9 DEF EmptySent, AfterLast, SlotToFill
  <2>2. writeidx' = [writeidx EXCEPT ![out] = 0] /\ 0 \in 0 .. MaxLen
    BY <1>8, <1>9
  <2> QED
    BY <1>1, <2>1, <2>2, HeadRewritten
<1>10. ASSUME ~(upto < writen[out]), ~(mtp2 /\ last)
       PROVE  Queue' = Tail(Queue)
  <2>1. outwritebuf' = IF last THEN -1 ELSE NextSlot(out)
    BY <1>8, <1>10 DEF AfterLast
  <2>2. \A s \in Slots : s # out => writeidx'[s] = writeidx[s] /\ writen'[s] = writen[s]
    BY <1>4, <1>8, <1>10 DEF EmptySent
  <2> QED
    BY <1>1, <1>8, <1>10, <2>1, <2>2, HeadDropped
<1>11. /\ Queue # <<>> /\ Len(Queue) = Waiting
       /\ Head(Queue) = BlockIn(out)
  BY <1>2 DEF QueueSound
<1>12. Pipe!Emit(left)
  <2> DEFINE head == Head(Queue)
  <2>1. head.tag = writebuf[out] /\ head.from = writeidx[out] /\ head.len = writen[out]
    BY <1>11 DEF BlockIn
  <2>2. Queue' = IF upto < head.len THEN [Queue EXCEPT ![1].from = upto]
                 ELSE IF mtp2 /\ Len(Queue) = 1 THEN [Queue EXCEPT ![1].from = 0]
                 ELSE Tail(Queue)
    <3> HIDE DEF upto, left, rest, out, last
    <3>1. last <=> Len(Queue) = 1
      BY <1>3, <1>11
    <3>2. head.len = writen[out]
      BY <2>1
    <3> HIDE DEF head
    <3> QED
      BY <1>7, <1>9, <1>10, <3>1, <3>2
  <2>3. upto = head.from + left /\ upto <= head.len
    BY <1>5, <2>1
  <2>4. sent' = [tag |-> head.tag, from |-> head.from, to |-> upto]
    BY <1>6, <2>1
  <2> HIDE DEF left, upto
  <2>5. UNCHANGED <<IF allocated THEN numbufs ELSE 0, mtp2, discarded>>
    BY <1>1
  <2> QED
    BY <1>11, <2>2, <2>3, <2>4, <2>5 DEF Pipe!Emit
<1> QED
  BY <1>5, <1>12

(* EmptySlots discards what waits.                                         *)
LEMMA EmptySlotsDiscards ==
  ASSUME RingInv', NEW n, EmptySlots(n), UNCHANGED <<mtp2, sent>>
  PROVE  Pipe!Discard
<1>1. Queue' = <<>>
  BY DEF EmptySlots, Queue, Count
<1>2. (IF allocated THEN numbufs ELSE 0)' \in Nat
  BY DEF RingInv
<1> QED
  BY <1>1, <1>2 DEF Pipe!Discard, EmptySlots

LEMMA IoctlRefines ==
  ASSUME PipeInv, PipeInv', NEW t \in Threads, Ioctl(t)
  PROVE  [Pipe!Next]_(Pipe!pipeVars)
<1>1. RingInv'
  BY DEF PipeInv, OwnerInv
<1>2. CASE UNCHANGED <<ring, mtp2, sent, discarded>>
  BY <1>2, RingKept DEF Pipe!pipeVars, ring
<1>3. CASE flush_write(t) \/ hangup(t)
  BY <1>1, <1>3, EmptySlotsDiscards DEF flush_write, hangup, Pipe!Next
<1>4. CASE reallocbufs(t)
  BY <1>1, <1>2, <1>4, EmptySlotsDiscards DEF reallocbufs, Pipe!Next
<1>5. CASE set_bufinfo(t) \/ iomux(t) \/ sync(t) \/ sync_return(t) \/ getevent(t)
  BY <1>2, <1>5 DEF set_bufinfo, iomux, sync, sync_return, getevent, history
<1> QED
  BY <1>3, <1>4, <1>5 DEF Ioctl

LEMMA WriteRefines ==
  ASSUME PipeInv, PipeInv', NEW t \in Threads, Write(t)
  PROVE  [Pipe!Next]_(Pipe!pipeVars)
<1>1. CASE pick(t) \/ check(t) \/ interrupted(t)
  BY <1>1, RingKept DEF pick, check, interrupted, history, ring, Pipe!pipeVars
<1>2. CASE copy(t) \/ rewind(t)
  BY <1>2, CopyIsSilent
<1>3. CASE commit(t)
  BY <1>3, CommitAccepts DEF Pipe!Next
<1> QED
  BY <1>1, <1>2, <1>3 DEF Write

(* One process at a time that writes to the channel sees every block go to *)
(* the line whole, once and in the order of the writes, however they race  *)
(* with the interrupt, and at most numbufs of them wait                    *)
(* (dahdi_chan_write, __dahdi_getbuf_chunk).                               *)
THEOREM TxImplementsPipe == ASSUME SingleThread PROVE Spec => ImplementsPipe
<1>1. Init => PipeInv
  BY OwnerInvInit, DataInvInit DEF PipeInv
<1>2. PipeInv /\ [Next]_vars => PipeInv'
  BY OwnerInvInductive, DataInvInductive DEF PipeInv
<1>3. Init => Pipe!Init
  <2> SUFFICES ASSUME Init PROVE Pipe!Init
    OBVIOUS
  <2>1. Queue = <<>>
    BY DEF Init, Queue, Count
  <2>2. mtp2 \in BOOLEAN
    BY FlagAssumption DEF Init, FlagAssumption
  <2>3. (IF allocated THEN numbufs ELSE 0) \in Nat
    BY DEF Init
  <2> QED
    BY <2>1, <2>2, <2>3 DEF Init, Pipe!Init, Pipe!Nothing, SomeTag
<1>4. PipeInv /\ PipeInv' /\ [Next]_vars => [Pipe!Next]_(Pipe!pipeVars)
  <2> SUFFICES ASSUME PipeInv, PipeInv', [Next]_vars
               PROVE  [Pipe!Next]_(Pipe!pipeVars)
    OBVIOUS
  <2>1. CASE tx_start \/ tx_silence \/ UNCHANGED vars
    BY <2>1, RingKept DEF tx_start, tx_silence, vars, history, ring, Pipe!pipeVars
  <2>2. CASE tx_buffer
    BY <2>2, TxBufferEmits DEF Pipe!Next
  <2>3. ASSUME NEW t \in Threads, Write(t) \/ Ioctl(t)
        PROVE  [Pipe!Next]_(Pipe!pipeVars)
    BY <2>3, WriteRefines, IoctlRefines
  <2>4. CASE close \/ open
    <3>1. Pipe!Discard
      BY <2>4, EmptySlotsDiscards DEF close, open, PipeInv, OwnerInv
    <3> QED
      BY <3>1 DEF Pipe!Next
  <2> QED
    BY <2>1, <2>2, <2>3, <2>4 DEF Next, Interrupt
<1> QED
  BY <1>1, <1>2, <1>3, <1>4, PTL DEF Spec, ImplementsPipe, Pipe!Spec
=============================================================================
