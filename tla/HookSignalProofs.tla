-------------------------- MODULE HookSignalProofs --------------------------
(***************************************************************************)
(* Proofs about HookSignal: for every time that is not zero, every cadence *)
(* and every interleaving of the interrupt's two halves with the calls and *)
(* with the line.  The last part is about the ring (EventQueue) its events *)
(* go through, for every ring size and set of events.                      *)
(***************************************************************************)
EXTENDS HookSignal, EventQueue, SequenceTheorems, TLAPS

USE HookAssumption DEF HookAssumption

LEMMA TimesPositive ==
  ASSUME NEW n \in TimeNames PROVE T[n] \in Nat /\ T[n] > 0
OBVIOUS

LEMMA PortFacts ==
  ASSUME port \in Ports
  PROVE  /\ \A i \in 0 .. MAX_CADENCE - 1 : port.ringcadence[i] \in Nat
         /\ port.firstcadencepos \in 0 .. MAX_CADENCE - 1
         /\ port.zonering \in Nat /\ port.zonering > 0
         /\ port.ringcadence[0] > 0
         /\ port.ringcadence[port.firstcadencepos] > 0
<1>1. port \in [sig : FXO \cup FXS \cup {"EM"}, digital : BOOLEAN,
                ringcadence : [0 .. MAX_CADENCE - 1 -> Nat],
                firstcadencepos : 0 .. MAX_CADENCE - 1, zonering : Nat \ {0}]
  OBVIOUS
<1>2. QED
  BY <1>1

(* The transmit side: the timer runs exactly in the passing states, and    *)
(* what the line shows is what the state says.                             *)
TxInv ==
  /\ port \in Ports
  /\ otimer \in Nat
  /\ cadencepos \in 0 .. MAX_CADENCE - 1
  /\ TransientHasTimer
  /\ LineMatchesState

LEMMA TxInvInit == Init => TxInv
  BY DEF Init, TxInv, TransientHasTimer, LineMatchesState, Steady

(* What a call of rbs_sethook has to pass. *)
Fits(txsig, state, timeout) ==
  /\ timeout \in Nat /\ (timeout = 0 <=> state \in Steady)
  /\ txsig = IF state \in {"START", "RINGON"} THEN "START"
             ELSE IF state = "KEWL" THEN "KEWL"
             ELSE IF state \in {"ONHOOK", "PREWINK", "FLASH", "AFTERKEWL", "PULSEBREAK"}
             THEN "ONHOOK" ELSE "OFFHOOK"

(* A step that sets a state, its line signal and its time together.        *)
LEMMA TxInvSet ==
  ASSUME TxInv, UNCHANGED port, cadencepos' \in 0 .. MAX_CADENCE - 1,
         NEW txsig, NEW state, NEW timeout,
         rbs_sethook(txsig, state, timeout), Fits(txsig, state, timeout)
  PROVE  TxInv'
BY DEF TxInv, rbs_sethook, Fits, TransientHasTimer, LineMatchesState

LEMMA TxInvKept ==
  ASSUME TxInv, UNCHANGED <<port, tx>>, cadencepos' \in 0 .. MAX_CADENCE - 1
  PROVE  TxInv'
BY DEF TxInv, tx, TransientHasTimer, LineMatchesState

LEMMA TxInvRing ==
  ASSUME TxInv, UNCHANGED port, ring_on \/ ring_off
  PROVE  TxInv'
<1> DEFINE c == port.ringcadence
<1>1. /\ \A i \in 0 .. MAX_CADENCE - 1 : c[i] \in Nat
      /\ port.firstcadencepos \in 0 .. MAX_CADENCE - 1
      /\ port.zonering \in Nat /\ port.zonering > 0
      /\ c[0] > 0 /\ c[port.firstcadencepos] > 0
      /\ cadencepos \in 0 .. MAX_CADENCE - 1
  BY PortFacts DEF TxInv
<1> HIDE DEF c
<1>2. CASE ring_on
  <2> DEFINE next == cadencepos + 1
             pos  == IF next >= MAX_CADENCE \/ c[next] = 0 THEN port.firstcadencepos ELSE next
  <2>1. cadencepos' = pos /\ rbs_sethook("START", "RINGON", c[pos])
    BY <1>2 DEF ring_on, c
  <2>2. pos \in 0 .. MAX_CADENCE - 1 /\ c[pos] \in Nat /\ c[pos] > 0
    BY <1>1
  <2> HIDE DEF pos
  <2>3. Fits("START", "RINGON", c[pos])
    BY <2>2 DEF Fits, Steady
  <2>4. QED
    BY <2>1, <2>2, <2>3, TxInvSet
<1>3. CASE ring_off
  <2> DEFINE next == IF cadencepos + 1 >= MAX_CADENCE THEN 0 ELSE cadencepos + 1
             len  == IF c[next] = 0 THEN port.zonering ELSE c[next]
  <2>1. /\ cadencepos' = IF c[next] = 0 THEN 0 ELSE next
        /\ rbs_sethook("OFFHOOK", "RINGOFF", len)
    BY <1>3 DEF ring_off, c
  <2>2. next \in 0 .. MAX_CADENCE - 1
    BY <1>1
  <2>3. len \in Nat /\ len > 0 /\ cadencepos' \in 0 .. MAX_CADENCE - 1
    BY <1>1, <2>1, <2>2
  <2> HIDE DEF len
  <2>4. Fits("OFFHOOK", "RINGOFF", len)
    BY <2>3 DEF Fits, Steady
  <2>5. QED
    BY <2>1, <2>3, <2>4, TxInvSet
<1>4. QED
  BY <1>2, <1>3

LEMMA TxInvDial ==
  ASSUME TxInv, UNCHANGED <<port, cadencepos>>, NEW buf,
         NEW state, NEW timer, do_dtmf(buf, state, timer),
         \/ state = txstate /\ timer = otimer
         \/ txhooksig = "OFFHOOK" /\ state = "OFFHOOK" /\ timer = 0
  PROVE  TxInv'
<1>1. CASE buf # << >> /\ txhooksig = "OFFHOOK"
  <2>1. rbs_sethook("ONHOOK", "PULSEBREAK", T.pulsebreak)
    BY <1>1 DEF do_dtmf
  <2>2. Fits("ONHOOK", "PULSEBREAK", T.pulsebreak)
    BY TimesPositive DEF TimeNames, Fits, Steady
  <2>3. cadencepos' \in 0 .. MAX_CADENCE - 1
    BY DEF TxInv
  <2>4. QED
    BY <2>1, <2>2, <2>3, TxInvSet
<1>2. CASE ~(buf # << >> /\ txhooksig = "OFFHOOK")
  <2>1. txstate' = state /\ otimer' = timer /\ UNCHANGED txhooksig
    BY <1>2 DEF do_dtmf
  <2>2. QED
    BY <2>1 DEF TxInv, TransientHasTimer, LineMatchesState, Steady
<1>3. QED
  BY <1>1, <1>2

LEMMA TxInvExpire ==
  ASSUME TxInv, UNCHANGED port, otimer_expire, otimer = 1
  PROVE  TxInv'
<1>1. CASE ring_on \/ ring_off
  BY <1>1, TxInvRing
<1>2. CASE debounced
  BY <1>2 DEF debounced, rbs_sethook, TxInv, TransientHasTimer, LineMatchesState, Steady
<1>3. CASE after_kewl
  BY <1>3 DEF after_kewl, TxInv, TransientHasTimer, LineMatchesState, Steady
<1>4. CASE pulse_made
  <2>1. T.pulsebreak \in Nat \ {0} /\ T.pulseafter \in Nat \ {0}
    BY TimesPositive DEF TimeNames
  <2>2. CASE rbs_sethook("ONHOOK", "PULSEBREAK", T.pulsebreak)
    BY <1>4, <2>1, <2>2 DEF pulse_made, rbs_sethook, TxInv, TransientHasTimer,
       LineMatchesState, Steady
  <2>3. CASE txstate' = "PULSEAFTER" /\ otimer' = T.pulseafter /\ UNCHANGED txhooksig
    BY <1>4, <2>1, <2>3 DEF pulse_made, TxInv, TransientHasTimer, LineMatchesState, Steady
  <2>4. QED
    BY <1>4, <2>2, <2>3 DEF pulse_made
<1>5. CASE \/ Move("START", "OFFHOOK", "AFTERSTART", T.afterstart, {})
           \/ Move("PREWINK", "OFFHOOK", "WINK", T.wink, {})
           \/ Move("WINK", "ONHOOK", "ONHOOK", 0, HookComplete)
           \/ Move("PREFLASH", "ONHOOK", "FLASH", T.flash, {})
           \/ Move("FLASH", "OFFHOOK", "OFFHOOK", 0, HookComplete)
           \/ Move("AFTERSTART", "OFFHOOK", "OFFHOOK", 0, HookComplete)
           \/ Move("KEWL", "ONHOOK", "AFTERKEWL", T.afterkewl, HookComplete)
           \/ Move("PULSEBREAK", "OFFHOOK", "PULSEMAKE", T.pulsemake, {})
  <2>1. /\ T.afterstart \in Nat \ {0} /\ T.wink \in Nat \ {0} /\ T.flash \in Nat \ {0}
        /\ T.afterkewl \in Nat \ {0} /\ T.pulsemake \in Nat \ {0}
    BY TimesPositive DEF TimeNames
  <2>2. /\ Fits("OFFHOOK", "AFTERSTART", T.afterstart) /\ Fits("OFFHOOK", "WINK", T.wink)
        /\ Fits("ONHOOK", "ONHOOK", 0) /\ Fits("ONHOOK", "FLASH", T.flash)
        /\ Fits("OFFHOOK", "OFFHOOK", 0) /\ Fits("ONHOOK", "AFTERKEWL", T.afterkewl)
        /\ Fits("OFFHOOK", "PULSEMAKE", T.pulsemake)
    BY <2>1 DEF Fits, Steady
  <2>3. cadencepos' \in 0 .. MAX_CADENCE - 1
    BY <1>5 DEF TxInv, Move
  <2>4. \/ rbs_sethook("OFFHOOK", "AFTERSTART", T.afterstart)
        \/ rbs_sethook("OFFHOOK", "WINK", T.wink)
        \/ rbs_sethook("ONHOOK", "ONHOOK", 0)
        \/ rbs_sethook("ONHOOK", "FLASH", T.flash)
        \/ rbs_sethook("OFFHOOK", "OFFHOOK", 0)
        \/ rbs_sethook("ONHOOK", "AFTERKEWL", T.afterkewl)
        \/ rbs_sethook("OFFHOOK", "PULSEMAKE", T.pulsemake)
    BY <1>5 DEF Move
  <2>5. QED
    BY <2>2, <2>3, <2>4, TxInvSet
<1>6. CASE txstate = "PULSEAFTER" /\ do_dtmf(txdialbuf, "OFFHOOK", 0)
           /\ UNCHANGED <<cadencepos, loop>>
  <2>1. txhooksig = "OFFHOOK"
    BY <1>6 DEF TxInv, LineMatchesState
  <2>2. UNCHANGED <<port, cadencepos>> /\ do_dtmf(txdialbuf, "OFFHOOK", 0)
    BY <1>6
  <2>3. \/ "OFFHOOK" = txstate /\ 0 = otimer
        \/ txhooksig = "OFFHOOK" /\ "OFFHOOK" = "OFFHOOK" /\ 0 = 0
    BY <2>1
  <2>4. QED
    BY <2>2, <2>3, TxInvDial
<1>7. QED
  BY <1>1, <1>2, <1>3, <1>4, <1>5, <1>6 DEF otimer_expire

LEMMA TxInvTransmit == ASSUME TxInv, transmit PROVE TxInv'
<1>1. CASE otimer = 1
  BY <1>1, TxInvExpire DEF transmit
<1>2. CASE otimer # 1
  BY <1>2 DEF transmit, TxInv, TransientHasTimer, LineMatchesState
<1>3. QED
  BY <1>1, <1>2

LEMMA TxInvPvt ==
  ASSUME TxInv, UNCHANGED <<port, cadencepos>>, NEW new, Ignored \/ hooksig_pvt(new)
  PROVE  TxInv'
<1>1. CASE UNCHANGED tx
  BY <1>1, TxInvKept DEF TxInv
<1>2. CASE rbs_sethook("OFFHOOK", "AFTERSTART", T.afterstart)
  <2>1. Fits("OFFHOOK", "AFTERSTART", T.afterstart)
    BY TimesPositive DEF TimeNames, Fits, Steady
  <2>2. cadencepos' \in 0 .. MAX_CADENCE - 1
    BY DEF TxInv
  <2>3. QED
    BY <1>2, <2>1, <2>2, TxInvSet
<1>3. QED
  BY <1>1, <1>2 DEF Ignored, hooksig_pvt, hooksig_em, hooksig_fxs, hooksig_start,
     hooksig_offhook, hooksig_onhook

(* The receive side's steps.                                               *)
LEMMA TxInvLine == ASSUME TxInv, receive \/ hooksig \/ rbsbits \/ rbsbits_locked PROVE TxInv'
<1>0. cadencepos \in 0 .. MAX_CADENCE - 1
  BY DEF TxInv
<1>1. CASE receive \/ rbsbits
  BY <1>0, <1>1, TxInvKept DEF receive, rbsbits
<1>2. CASE hooksig
  <2>1. PICK new \in Signals : hooksig_pvt(new)
    BY <1>2 DEF hooksig
  <2>2. UNCHANGED <<port, cadencepos>>
    BY <1>2 DEF hooksig
  <2>3. QED
    BY <2>1, <2>2, TxInvPvt
<1>3. CASE rbsbits_locked
  <2>1. Ignored \/ hooksig_pvt(Decode(incoming))
    BY <1>3 DEF rbsbits_locked
  <2>2. UNCHANGED <<port, cadencepos>>
    BY <1>3 DEF rbsbits_locked
  <2>3. QED
    BY <2>1, <2>2, TxInvPvt
<1>4. QED
  BY <1>1, <1>2, <1>3

LEMMA TxInvHangup ==
  ASSUME TxInv, UNCHANGED port, NEW timer, HangupTx(timer) PROVE TxInv'
<1>1. cadencepos' \in 0 .. MAX_CADENCE - 1
  BY DEF HangupTx
<1>2. CASE rbs_sethook("KEWL", "KEWL", T.kewl)
  <2>1. Fits("KEWL", "KEWL", T.kewl)
    BY TimesPositive DEF TimeNames, Fits, Steady
  <2>2. QED
    BY <1>1, <1>2, <2>1, TxInvSet
<1>3. CASE rbs_sethook("ONHOOK", "ONHOOK", 0)
  <2>1. Fits("ONHOOK", "ONHOOK", 0)
    BY DEF Fits, Steady
  <2>2. QED
    BY <1>1, <1>3, <2>1, TxInvSet
<1>4. QED
  BY <1>2, <1>3 DEF HangupTx

(* A hook either sets what fits or leaves the transmit side alone.         *)
LEMMA TxInvHook ==
  ASSUME TxInv, UNCHANGED port, cadencepos' \in 0 .. MAX_CADENCE - 1,
         NEW txsig, NEW state, NEW timeout, Fits(txsig, state, timeout),
         rbs_sethook(txsig, state, timeout) \/ UNCHANGED tx
  PROVE  TxInv'
<1>1. CASE rbs_sethook(txsig, state, timeout)
  BY <1>1, TxInvSet
<1>2. CASE UNCHANGED tx
  BY <1>2, TxInvKept
<1>3. QED
  BY <1>1, <1>2

LEMMA TxInvCall == ASSUME TxInv, Call PROVE TxInv'
<1>0. cadencepos \in 0 .. MAX_CADENCE - 1 /\ port \in Ports
  BY DEF TxInv
<1>1. CASE hook \/ hook_wait \/ hook_interrupted \/ dial_cancel \/ setsigfreeze
  <2>1. UNCHANGED <<port, tx, cadencepos>>
    BY <1>1 DEF hook, hook_wait, hook_interrupted, dial_cancel, setsigfreeze
  <2>2. QED
    BY <1>0, <2>1, TxInvKept
<1>2. CASE hook_onhook \/ close_channel \/ initialize_channel
  BY <1>2, TxInvHangup DEF hook_onhook, close_channel, initialize_channel
<1>3. CASE hook_offhook
  <2>1. Fits("OFFHOOK", "DEBOUNCE", T.debounce)
    BY TimesPositive DEF TimeNames, Fits, Steady
  <2>2. /\ UNCHANGED <<port, cadencepos>>
        /\ rbs_sethook("OFFHOOK", "DEBOUNCE", T.debounce) \/ UNCHANGED tx
    BY <1>3 DEF hook_offhook, Quick
  <2>3. QED
    BY <1>0, <2>1, <2>2, TxInvHook
<1>4. CASE hook_start /\ sig \in FXO
  <2>1. port.ringcadence[0] \in Nat /\ port.ringcadence[0] > 0
    BY <1>0, PortFacts
  <2> DEFINE len == port.ringcadence[0]
  <2>2. Fits("START", "RINGON", len)
    BY <2>1 DEF Fits, Steady
  <2>3. /\ UNCHANGED port /\ cadencepos' \in 0 .. MAX_CADENCE - 1
        /\ rbs_sethook("START", "RINGON", len) \/ UNCHANGED tx
    BY <1>0, <1>4 DEF hook_start, Quick
  <2> HIDE DEF len
  <2>4. QED
    BY <2>2, <2>3, TxInvHook
<1>5. CASE hook_start /\ sig \notin FXO
  <2>1. Fits("START", "START", T.start)
    BY TimesPositive DEF TimeNames, Fits, Steady
  <2>2. /\ UNCHANGED <<port, cadencepos>>
        /\ rbs_sethook("START", "START", T.start) \/ UNCHANGED tx
    BY <1>5 DEF hook_start, Quick
  <2>3. QED
    BY <1>0, <2>1, <2>2, TxInvHook
<1>6. CASE hook_ringoff
  <2>1. Fits("ONHOOK", "ONHOOK", 0)
    BY DEF Fits, Steady
  <2>2. /\ UNCHANGED <<port, cadencepos>>
        /\ rbs_sethook("ONHOOK", "ONHOOK", 0) \/ UNCHANGED tx
    BY <1>6 DEF hook_ringoff, Quick
  <2>3. QED
    BY <1>0, <2>1, <2>2, TxInvHook
<1>7. CASE hook_wink
  <2>1. Fits("ONHOOK", "PREWINK", T.prewink)
    BY TimesPositive DEF TimeNames, Fits, Steady
  <2>2. /\ UNCHANGED <<port, cadencepos>>
        /\ rbs_sethook("ONHOOK", "PREWINK", T.prewink) \/ UNCHANGED tx
    BY <1>7 DEF hook_wink, Slow
  <2>3. QED
    BY <1>0, <2>1, <2>2, TxInvHook
<1>8. CASE hook_flash
  <2>1. Fits("OFFHOOK", "PREFLASH", T.preflash)
    BY TimesPositive DEF TimeNames, Fits, Steady
  <2>2. /\ UNCHANGED <<port, cadencepos>>
        /\ rbs_sethook("OFFHOOK", "PREFLASH", T.preflash) \/ UNCHANGED tx
    BY <1>8 DEF hook_flash, Slow
  <2>3. QED
    BY <1>0, <2>1, <2>2, TxInvHook
<1>9. CASE dial_append
  <2>1. UNCHANGED <<port, cadencepos>>
    BY <1>9 DEF dial_append
  <2>2. PICK d \in Digits : UNCHANGED tx \/ do_dtmf(Append(txdialbuf, d), txstate, otimer)
    BY <1>9 DEF dial_append
  <2>3. QED
    BY <1>0, <2>1, <2>2, TxInvKept, TxInvDial
<1>10. CASE dial_replace
  <2>1. UNCHANGED <<port, cadencepos>>
    BY <1>10 DEF dial_replace
  <2>2. PICK d \in Digits : do_dtmf(<<d>>, txstate, otimer)
    BY <1>10 DEF dial_replace
  <2>3. QED
    BY <2>1, <2>2, TxInvDial
<1>11. QED
  BY <1>1, <1>2, <1>3, <1>4, <1>5, <1>6, <1>7, <1>8, <1>9, <1>10 DEF Call

LEMMA TxInvInductive == TxInv /\ [Next]_vars => TxInv'
<1> SUFFICES ASSUME TxInv, [Next]_vars PROVE TxInv'
  OBVIOUS
<1>1. CASE UNCHANGED vars
  <2>1. UNCHANGED <<port, tx, cadencepos>> /\ cadencepos' \in 0 .. MAX_CADENCE - 1
    BY <1>1 DEF vars, TxInv
  <2>2. QED
    BY <2>1, TxInvKept
<1>2. CASE Next
  BY <1>2, TxInvTransmit, TxInvLine, TxInvCall DEF Next, Line
<1>3. QED
  BY <1>1, <1>2

(* Under every interleaving of interrupt, line and calls the transmit side *)
(* of hook signalling is never stuck: every passing state of chan->txstate *)
(* runs under otimer, and no other does (__rbs_otimer_expire).             *)
THEOREM HookTransientHasTimer == Spec => []TransientHasTimer
<1>1. TxInv => TransientHasTimer
  BY DEF TxInv
<1>2. QED
  BY <1>1, TxInvInit, TxInvInductive, PTL DEF Spec

(* The signal on the line, chan->txhooksig, is always the one that belongs *)
(* to txstate, whichever call last set both (dahdi_rbs_sethook).           *)
THEOREM HookLineMatchesState == Spec => []LineMatchesState
<1>1. TxInv => LineMatchesState
  BY DEF TxInv
<1>2. QED
  BY <1>1, TxInvInit, TxInvInductive, PTL DEF Spec

-----------------------------------------------------------------------------
(* The thread in a wink or a flash: it keeps the file open, and the state  *)
(* is on its way to the one it waits for or has reached it, which no other *)
(* step leaves. *)
SleepInv ==
  /\ asleep \in BOOLEAN
  /\ call # "none" => open
  /\ call = "until_onhook" => txstate \in {"PREWINK", "WINK", "ONHOOK"}
  /\ call = "until_offhook" => txstate \in {"PREFLASH", "FLASH", "OFFHOOK"}
  /\ SleeperWillWake

LEMMA SleepInvInit == Init => SleepInv
  BY DEF Init, SleepInv, SleeperWillWake

LEMMA SleepInvKept ==
  ASSUME SleepInv, UNCHANGED <<txstate, call, open>>,
         asleep' \in BOOLEAN, asleep' => asleep
  PROVE  SleepInv'
BY DEF SleepInv, SleeperWillWake

LEMMA SleepInvTransmit == ASSUME TxInv, SleepInv, transmit PROVE SleepInv'
<1>1. UNCHANGED <<call, open>>
  BY DEF transmit, file
<1>2. CASE otimer = 1
  <2>1. txstate \notin {"ONHOOK", "OFFHOOK"}
    BY <1>2 DEF TxInv, TransientHasTimer, Steady
  <2>2. /\ otimer_expire
        /\ asleep' = (asleep /\ ~(txstate \in Wakers \/ txstate' = "PULSEAFTER") /\ event' = {})
    BY <1>2 DEF transmit, Wake
  <2>3. CASE call \notin Waits
    BY <1>1, <2>2, <2>3 DEF SleepInv, SleeperWillWake, Waits
  <2>4. CASE call \in Waits
    <3>1. txstate \in {"PREWINK", "WINK", "PREFLASH", "FLASH"}
      BY <2>1, <2>4 DEF SleepInv, Waits
    <3>2. \/ Move("PREWINK", "OFFHOOK", "WINK", T.wink, {})
          \/ Move("WINK", "ONHOOK", "ONHOOK", 0, HookComplete)
          \/ Move("PREFLASH", "ONHOOK", "FLASH", T.flash, {})
          \/ Move("FLASH", "OFFHOOK", "OFFHOOK", 0, HookComplete)
      BY <2>2, <3>1 DEF otimer_expire, Move, ring_on, ring_off, debounced, after_kewl, pulse_made
    <3>3. \/ txstate = "PREWINK" /\ txstate' = "WINK"
          \/ txstate = "WINK" /\ txstate' = "ONHOOK"
          \/ txstate = "PREFLASH" /\ txstate' = "FLASH"
          \/ txstate = "FLASH" /\ txstate' = "OFFHOOK"
      BY <3>2 DEF Move, rbs_sethook
    <3>4. QED
      BY <1>1, <2>2, <2>4, <3>3 DEF SleepInv, SleeperWillWake, Wakers, Waits
  <2>5. QED
    BY <2>3, <2>4
<1>3. CASE otimer # 1
  BY <1>1, <1>3, SleepInvKept DEF transmit, SleepInv
<1>4. QED
  BY <1>2, <1>3

LEMMA SleepInvLine ==
  ASSUME SleepInv, receive \/ hooksig \/ rbsbits \/ rbsbits_locked PROVE SleepInv'
<1>1. UNCHANGED <<call, open>>
  BY DEF receive, hooksig, rbsbits, rbsbits_locked, file, thread
<1>2. asleep' \in BOOLEAN /\ (asleep' => asleep)
  <2>1. Wake(FALSE) \/ UNCHANGED asleep
    BY DEF receive, hooksig, rbsbits, rbsbits_locked, thread
  <2>2. asleep \in BOOLEAN
    BY DEF SleepInv
  <2>3. CASE Wake(FALSE)
    <3>1. asleep' = (asleep /\ ~FALSE /\ event' = {})
      BY <2>3 DEF Wake
    <3>2. CASE asleep = FALSE
      BY <3>1, <3>2
    <3>3. CASE asleep = TRUE
      <4>1. asleep' = (event' = {})
        BY <3>1, <3>3
      <4>2. QED
        BY <4>1, <3>3
    <3>4. QED
      BY <2>2, <3>2, <3>3
  <2>4. CASE asleep' = asleep
    <3>1. asleep' \in BOOLEAN
      BY <2>2, <2>4
    <3>2. asleep' => asleep
      BY <2>4
    <3>3. QED
      BY <3>1, <3>2
  <2>5. QED
    BY <2>1, <2>3, <2>4
<1>3. CASE UNCHANGED txstate
  BY <1>1, <1>2, <1>3, SleepInvKept
<1>4. CASE txstate = "START"
  BY <1>1, <1>2, <1>4 DEF SleepInv, SleeperWillWake
<1>5. \A new : Ignored \/ hooksig_pvt(new) => UNCHANGED txstate \/ txstate = "START"
  BY DEF Ignored, hooksig_pvt, hooksig_em, hooksig_fxs, hooksig_start, hooksig_offhook,
     hooksig_onhook, tx
<1>6. UNCHANGED txstate \/ txstate = "START"
  BY <1>5 DEF receive, hooksig, rbsbits, rbsbits_locked, tx
<1>7. QED
  BY <1>3, <1>4, <1>6

LEMMA SleepInvCall == ASSUME SleepInv, Call PROVE SleepInv'
<1>1. CASE \/ hook \/ dial_append \/ dial_replace \/ dial_cancel \/ setsigfreeze
           \/ close_channel \/ initialize_channel
  <2>1. call = "none" /\ ~asleep /\ UNCHANGED asleep
    BY <1>1 DEF hook, dial_append, dial_replace, dial_cancel, setsigfreeze, close_channel,
       initialize_channel, thread, SleepInv, SleeperWillWake
  <2>2. call' \in {"none"} \cup Hooks /\ (call' # "none" => open')
    BY <1>1, <2>1 DEF hook, dial_append, dial_replace, dial_cancel, setsigfreeze, close_channel,
       initialize_channel, thread, file, SleepInv
  <2>3. QED
    BY <2>1, <2>2 DEF SleepInv, SleeperWillWake, Hooks
<1>2. CASE hook_onhook \/ hook_offhook \/ hook_start \/ hook_ringoff
  <2>1. call' = "none" /\ ~asleep /\ UNCHANGED <<asleep, open>>
    BY <1>2 DEF hook_onhook, hook_offhook, hook_start, hook_ringoff, Quick, file, SleepInv,
       SleeperWillWake
  <2>2. QED
    BY <2>1 DEF SleepInv, SleeperWillWake
<1>3. CASE hook_wink \/ hook_flash
  <2>1. ~asleep /\ UNCHANGED <<asleep, open>> /\ open
    BY <1>3 DEF hook_wink, hook_flash, Slow, file, SleepInv, SleeperWillWake
  <2>2. \/ call' = "none"
        \/ call' = "until_onhook" /\ txstate' = "PREWINK"
        \/ call' = "until_offhook" /\ txstate' = "PREFLASH"
    BY <1>3 DEF hook_wink, hook_flash, Slow, rbs_sethook
  <2>3. QED
    BY <2>1, <2>2 DEF SleepInv, SleeperWillWake
<1>4. CASE hook_wait \/ hook_interrupted
  BY <1>4 DEF hook_wait, hook_interrupted, Waits, tx, file, SleepInv, SleeperWillWake
<1>5. QED
  BY <1>1, <1>2, <1>3, <1>4 DEF Call

(* A thread that sleeps in DAHDI_HOOK for the end of a wink or a flash is  *)
(* never left there (wait_event_interruptible on chan->txstate): a wake-up *)
(* that comes too early finds it going back to sleep, and the one it needs *)
(* is still to come.                                                       *)
THEOREM HookSleeperWillWake == Spec => []SleeperWillWake
<1>1. TxInv /\ SleepInv /\ [Next]_vars => SleepInv'
  <2> SUFFICES ASSUME TxInv, SleepInv, [Next]_vars PROVE SleepInv'
    OBVIOUS
  <2>1. CASE UNCHANGED vars
    BY <2>1, SleepInvKept DEF vars, tx, file, thread, SleepInv
  <2>2. CASE Next
    BY <2>2, SleepInvTransmit, SleepInvLine, SleepInvCall DEF Next, Line
  <2>3. QED
    BY <2>1, <2>2
<1>2. SleepInv => SleeperWillWake
  BY DEF SleepInv
<1>3. QED
  BY <1>1, <1>2, TxInvInit, TxInvInductive, SleepInvInit, PTL DEF Spec

-----------------------------------------------------------------------------
(* The hang-up that is still to be told of. *)
PendInv ==
  /\ itimer \in Nat /\ gotgs \in BOOLEAN
  /\ OnhookPending

LEMMA PendInvInit == Init => PendInv
<1> SUFFICES ASSUME Init PROVE PendInv
  OBVIOUS
<1>1. itimer = 0 /\ ~gotgs /\ gotgs \in BOOLEAN
  BY DEF Init
<1>2. OnhookPending
  BY <1>1 DEF OnhookPending
<1>3. QED
  BY <1>1, <1>2 DEF PendInv

(* What the history remembers of a step.                                   *)
LEMMA CutFacts ==
  ASSUME Remember, gotgs', ~cut'
  PROVE  ~cut /\ (txstate \in Looks => txstate' \in Looks \cup {"OFFHOOK"})
BY DEF Remember

(* A step that leaves the receive side's state and timer alone, and ends   *)
(* no look at the line.                                                    *)
LEMMA PendInvKept ==
  ASSUME PendInv, Remember, UNCHANGED <<port, rxhooksig, itimer>>,
         gotgs' \in BOOLEAN, gotgs' => gotgs,
         txstate' = "OFFHOOK" => txstate \notin Looks
  PROVE  PendInv'
<1> SUFFICES ASSUME sig \in FXO, gotgs', rxhooksig = "ONHOOK", ~cut'
             PROVE  itimer > 0 \/ txstate' \in Looks
  BY DEF PendInv, OnhookPending, sig
<1>1. ~cut /\ (txstate \in Looks => txstate' \in Looks \cup {"OFFHOOK"})
  BY CutFacts
<1>2. itimer > 0 \/ txstate \in Looks
  BY <1>1 DEF PendInv, OnhookPending
<1>3. QED
  BY <1>1, <1>2

LEMMA PendInvTransmit ==
  ASSUME PendInv, Remember, T.rxflash > 2, transmit PROVE PendInv'
<1>1. UNCHANGED port /\ gotgs \in BOOLEAN
  BY DEF transmit, PendInv
<1>2. CASE otimer # 1
  <2>1. UNCHANGED <<txstate, rxhooksig, itimer, gotgs>>
    BY <1>2 DEF transmit, loop
  <2>2. txstate' = "OFFHOOK" => txstate \notin Looks
    BY <2>1 DEF Looks
  <2>3. QED
    BY <1>1, <2>1, <2>2, PendInvKept
<1>3. CASE otimer_expire /\ debounced
  <2>1. /\ UNCHANGED <<rxhooksig, gotgs>>
        /\ rxhooksig = "ONHOOK" => itimer' = T.rxflash
        /\ rxhooksig # "ONHOOK" => itimer' = itimer
    BY <1>3 DEF debounced
  <2>2. T.rxflash \in Nat
    BY TimesPositive DEF TimeNames
  <2>3. QED
    BY <1>1, <2>1, <2>2 DEF PendInv, OnhookPending, sig
<1>4. CASE otimer_expire /\ after_kewl
  BY <1>1, <1>4 DEF after_kewl, PendInv, OnhookPending
<1>5. CASE otimer_expire /\ ~debounced /\ ~after_kewl
  <2>1. UNCHANGED <<rxhooksig, itimer, gotgs>>
    BY <1>5 DEF otimer_expire, ring_on, ring_off, pulse_made, Move, loop
  <2>2. txstate \in {"DEBOUNCE", "AFTERKEWL"} => FALSE
    BY <1>5 DEF otimer_expire, ring_on, ring_off, pulse_made, Move
  <2>3. txstate = "KEWL" => txstate' = "AFTERKEWL"
    BY <1>5 DEF otimer_expire, ring_on, ring_off, pulse_made, Move, rbs_sethook
  <2>4. txstate' = "OFFHOOK" => txstate \notin Looks
    BY <2>2, <2>3 DEF Looks
  <2>5. QED
    BY <1>1, <2>1, <2>4, PendInvKept
<1>6. QED
  BY <1>2, <1>3, <1>4, <1>5 DEF transmit

LEMMA PendInvReceive == ASSUME PendInv, Remember, receive PROVE PendInv'
<1>1. UNCHANGED <<port, rxhooksig, txstate>>
  BY DEF receive, tx
<1>2. /\ itimer' = IF itimer = 0 THEN 0 ELSE itimer - 1
      /\ gotgs' = (gotgs /\ ~(itimer = 1 /\ sig \in FXO))
  BY DEF receive
<1>3. itimer' \in Nat /\ (itimer > 0 => itimer = 1 \/ itimer' > 0)
  BY <1>2 DEF PendInv
<1>4. gotgs' \in BOOLEAN
  BY <1>2
<1>5. SUFFICES ASSUME sig \in FXO, gotgs', rxhooksig = "ONHOOK", ~cut'
               PROVE  itimer' > 0 \/ txstate \in Looks
  BY <1>1, <1>3, <1>4 DEF PendInv, OnhookPending, sig
<1>6. gotgs /\ itimer # 1 /\ ~cut
  BY <1>2, <1>5, CutFacts
<1>7. itimer > 0 \/ txstate \in Looks
  BY <1>5, <1>6 DEF PendInv, OnhookPending
<1>8. QED
  BY <1>3, <1>6, <1>7

LEMMA PendInvPvt ==
  ASSUME PendInv, Remember, UNCHANGED port, NEW new, Ignored \/ hooksig_pvt(new)
  PROVE  PendInv'
<1>0. T.rxflash \in Nat \ {0} /\ T.rxwink \in Nat \ {0} /\ T.afterstart \in Nat
  BY TimesPositive DEF TimeNames
<1>1. CASE Ignored
  <2>1. UNCHANGED <<txstate, rxhooksig, itimer, gotgs>> /\ gotgs \in BOOLEAN
    BY <1>1 DEF Ignored, tx, loop, PendInv
  <2>2. txstate' = "OFFHOOK" => txstate \notin Looks
    BY <2>1 DEF Looks
  <2>3. QED
    BY <2>1, <2>2, PendInvKept
<1>2. CASE hooksig_pvt(new) /\ ~Ignored
  <2>0. rxhooksig' = new
    BY <1>2 DEF hooksig_pvt
  <2>1. CASE hooksig_em(new)
    BY <1>0, <2>1 DEF hooksig_em, PendInv, OnhookPending, FXO, sig
  <2>2. CASE hooksig_fxs(new)
    BY <2>2 DEF hooksig_fxs, PendInv, OnhookPending, FXO, FXS, sig
  <2>3. CASE hooksig_start(new)
    BY <2>0, <2>3 DEF hooksig_start, PendInv, OnhookPending
  <2>4. CASE hooksig_offhook(new)
    <3>1. itimer' = 0 /\ gotgs' \in BOOLEAN /\ rxhooksig' = "OFFHOOK"
      BY <2>0, <2>4 DEF hooksig_offhook, PendInv
    <3>2. QED
      BY <3>1 DEF PendInv, OnhookPending
  <2>5. CASE hooksig_onhook(new)
    <3>1. UNCHANGED <<txstate, gotgs>>
      BY <2>5 DEF hooksig_onhook, tx
    <3>2. itimer' \in Nat /\ (itimer' > 0 \/ txstate \in Looks)
      BY <1>0, <2>5 DEF hooksig_onhook, Looks, PendInv
    <3>3. QED
      BY <3>1, <3>2 DEF PendInv, OnhookPending
  <2>6. QED
    BY <1>2, <2>1, <2>2, <2>3, <2>4, <2>5 DEF hooksig_pvt
<1>3. QED
  BY <1>1, <1>2

LEMMA PendInvLine ==
  ASSUME PendInv, Remember, hooksig \/ rbsbits \/ rbsbits_locked PROVE PendInv'
<1>1. CASE rbsbits
  <2>1. UNCHANGED <<port, txstate, rxhooksig, itimer, gotgs>> /\ gotgs \in BOOLEAN
    BY <1>1 DEF rbsbits, tx, loop, PendInv
  <2>2. txstate' = "OFFHOOK" => txstate \notin Looks
    BY <2>1 DEF Looks
  <2>3. QED
    BY <2>1, <2>2, PendInvKept
<1>2. CASE hooksig
  <2>1. PICK new \in Signals : hooksig_pvt(new)
    BY <1>2 DEF hooksig
  <2>2. UNCHANGED port
    BY <1>2 DEF hooksig
  <2>3. QED
    BY <2>1, <2>2, PendInvPvt
<1>3. CASE rbsbits_locked
  <2>1. UNCHANGED port /\ (Ignored \/ hooksig_pvt(Decode(incoming)))
    BY <1>3 DEF rbsbits_locked
  <2>2. QED
    BY <2>1, PendInvPvt
<1>4. QED
  BY <1>1, <1>2, <1>3

LEMMA PendInvCall == ASSUME PendInv, Remember, Call PROVE PendInv'
<1>1. CASE close_channel \/ initialize_channel
  <2>1. itimer' = 0 /\ gotgs' = FALSE
    BY <1>1 DEF close_channel, initialize_channel
  <2>2. QED
    BY <2>1 DEF PendInv, OnhookPending
<1>2. CASE ~(close_channel \/ initialize_channel)
  <2>1. UNCHANGED <<port, rxhooksig, itimer, gotgs>> /\ gotgs \in BOOLEAN
    BY <1>2 DEF Call, hook, hook_onhook, hook_offhook, hook_start, hook_ringoff, hook_wink,
       hook_flash, hook_wait, hook_interrupted, dial_append, dial_replace, dial_cancel,
       setsigfreeze, Quick, Slow, loop, PendInv
  <2>2. txstate' = "OFFHOOK" => UNCHANGED txstate
    BY <1>2 DEF Call, hook, hook_onhook, hook_offhook, hook_start, hook_ringoff, hook_wink,
       hook_flash, hook_wait, hook_interrupted, dial_append, dial_replace, dial_cancel,
       setsigfreeze, Quick, Slow, tx, HangupTx, do_dtmf, rbs_sethook
  <2>3. txstate' = "OFFHOOK" => txstate \notin Looks
    BY <2>2 DEF Looks
  <2>4. QED
    BY <2>1, <2>3, PendInvKept
<1>3. QED
  BY <1>1, <1>2

(* While the application believes a telephone off hook that has hung up, a *)
(* timer runs whose end will tell it, or look again (the DEBOUNCE and      *)
(* AFTERKEWL cases of __rbs_otimer_expire); unless a call cut that short.  *)
(* A flash time of 1 or 2 chunks the code itself takes for none.           *)
THEOREM HookOnhookPending == ASSUME T.rxflash > 2 PROVE Spec => []OnhookPending
<1>1. PendInv /\ [Next]_vars => PendInv'
  <2> SUFFICES ASSUME PendInv, [Next]_vars PROVE PendInv'
    OBVIOUS
  <2>1. CASE UNCHANGED vars
    BY <2>1 DEF vars, tx, loop, PendInv, OnhookPending, Looks, sig
  <2>2. CASE Next
    BY <2>2, PendInvTransmit, PendInvReceive, PendInvLine, PendInvCall DEF Next, Line
  <2>3. QED
    BY <2>1, <2>2
<1>2. PendInv => OnhookPending
  BY DEF PendInv
<1>3. QED
  BY <1>1, <1>2, PendInvInit, PTL DEF Spec
-----------------------------------------------------------------------------
(* The dialer and the pulses of the line.  Between DAHDI_HOOK's two        *)
(* sections the dialer has been stopped and nothing is left to dial.       *)
DigitInv ==
  /\ dialing \in BOOLEAN /\ pulsetimer \in Nat /\ pulsecount \in Nat
  /\ DialingAdvances
  /\ PulseTrainEnds
  /\ call \in Hooks => ~dialing /\ txdialbuf = << >>

LEMMA DigitInvInit == Init => DigitInv
<1> SUFFICES ASSUME Init PROVE DigitInv
  OBVIOUS
<1>1. dialing = FALSE /\ txdialbuf = << >> /\ pulsecount = 0 /\ pulsetimer = 0
  BY DEF Init
<1> QED
  BY <1>1 DEF DigitInv, DialingAdvances, PulseTrainEnds

(* A step that leaves the pulses of the line alone.                        *)
LEMMA DigitInvTx ==
  ASSUME DigitInv, UNCHANGED pulses, dialing' \in BOOLEAN,
         dialing' => txstate' \in {"PULSEBREAK", "PULSEMAKE", "PULSEAFTER"},
         call' \in Hooks => ~dialing' /\ txdialbuf' = << >>
  PROVE  DigitInv'
BY DEF DigitInv, pulses, DialingAdvances, PulseTrainEnds

(* A step that has nothing to do with the dialer or the pulses.            *)
LEMMA DigitInvKept ==
  ASSUME DigitInv, UNCHANGED <<txstate, dialing, txdialbuf, pulses>>,
         call' \in Hooks => call \in Hooks
  PROVE  DigitInv'
BY DigitInvTx DEF DigitInv, DialingAdvances

(* __do_dtmf starts the next digit or is done with all of them.            *)
LEMMA DialFacts ==
  ASSUME NEW buf, NEW state, NEW timer, do_dtmf(buf, state, timer)
  PROVE  /\ dialing' \in BOOLEAN
         /\ dialing' => txstate' = "PULSEBREAK" /\ buf # << >>
         /\ ~dialing' => txdialbuf' = << >>
<1>1. CASE buf # << >> /\ txhooksig = "OFFHOOK"
  BY <1>1 DEF do_dtmf, rbs_sethook
<1>2. CASE ~(buf # << >> /\ txhooksig = "OFFHOOK")
  BY <1>2 DEF do_dtmf
<1> QED
  BY <1>1, <1>2

LEMMA DigitInvTransmit == ASSUME DigitInv, transmit PROVE DigitInv'
<1>1. UNCHANGED <<pulses, call>> /\ dialing \in BOOLEAN
  BY DEF transmit, DigitInv
<1>2. CASE otimer # 1
  BY <1>1, <1>2, DigitInvKept DEF transmit, dialer
<1>3. CASE otimer_expire /\ UNCHANGED <<dialing, txdialbuf>>
  <2>1. CASE ~dialing
    BY <1>1, <1>3, <2>1, DigitInvTx DEF DigitInv
  <2>2. CASE dialing
    <3>1. txstate \in {"PULSEBREAK", "PULSEMAKE", "PULSEAFTER"} /\ call \notin Hooks
      BY <2>2 DEF DigitInv, DialingAdvances
    <3>2. \/ pulse_made
          \/ Move("PULSEBREAK", "OFFHOOK", "PULSEMAKE", T.pulsemake, {})
          \/ do_dtmf(txdialbuf, "OFFHOOK", 0)
      BY <1>3, <3>1 DEF otimer_expire, Move, ring_on, ring_off, debounced, after_kewl
    <3>3. txstate' \in {"PULSEBREAK", "PULSEMAKE", "PULSEAFTER"}
      <4>1. CASE pulse_made
        BY <4>1 DEF pulse_made, rbs_sethook
      <4>2. CASE Move("PULSEBREAK", "OFFHOOK", "PULSEMAKE", T.pulsemake, {})
        BY <4>2 DEF Move, rbs_sethook
      <4>3. CASE do_dtmf(txdialbuf, "OFFHOOK", 0)
        BY <1>3, <2>2, <4>3, DialFacts
      <4> QED
        BY <3>2, <4>1, <4>2, <4>3
    <3> QED
      BY <1>1, <1>3, <3>1, <3>3, DigitInvTx
  <2> QED
    BY <1>1, <2>1, <2>2
<1>4. CASE do_dtmf(txdialbuf, "OFFHOOK", 0)
  <2>1. /\ dialing' \in BOOLEAN
        /\ dialing' => txstate' = "PULSEBREAK" /\ txdialbuf # << >>
        /\ ~dialing' => txdialbuf' = << >>
    BY <1>4, DialFacts
  <2>2. call \in Hooks => ~dialing' /\ txdialbuf' = << >>
    BY <2>1 DEF DigitInv
  <2> QED
    BY <1>1, <2>1, <2>2, DigitInvTx
<1> QED
  BY <1>2, <1>3, <1>4 DEF transmit, otimer_expire, Move, ring_on, ring_off, debounced,
     after_kewl, pulse_made, dialer

LEMMA DigitInvReceive == ASSUME DigitInv, receive PROVE DigitInv'
<1>1. UNCHANGED <<txstate, dialing, txdialbuf, call>>
  BY DEF receive, tx, dialer
<1>2. /\ pulsetimer' = IF pulsetimer = 0 THEN 0 ELSE pulsetimer - 1
      /\ pulsecount' = IF pulsetimer = 1 THEN 0 ELSE pulsecount
  BY DEF receive
<1>3. pulsetimer' \in Nat /\ pulsecount' \in Nat
  BY <1>2 DEF DigitInv
<1>4. PulseTrainEnds'
  BY <1>2 DEF DigitInv, PulseTrainEnds
<1> QED
  BY <1>1, <1>3, <1>4 DEF DigitInv, DialingAdvances

LEMMA DigitInvPvt ==
  ASSUME DigitInv, UNCHANGED <<dialing, txdialbuf, call>>, NEW new,
         Ignored \/ hooksig_pvt(new)
  PROVE  DigitInv'
<1>1. UNCHANGED txstate \/ (txstate = "START" /\ txstate' = "AFTERSTART")
  BY DEF Ignored, hooksig_pvt, hooksig_em, hooksig_fxs, hooksig_start, hooksig_offhook,
     hooksig_onhook, tx, rbs_sethook
<1>2. DialingAdvances'
  BY <1>1 DEF DigitInv, DialingAdvances
<1>3. UNCHANGED pulses \/ (pulsecount' = pulsecount + 1 /\ pulsetimer' = T.pulsetimeout)
  BY DEF Ignored, hooksig_pvt, hooksig_em, hooksig_fxs, hooksig_start, hooksig_offhook,
     hooksig_onhook
<1>4. T.pulsetimeout \in Nat /\ T.pulsetimeout > 0
  BY TimesPositive DEF TimeNames
<1>5. pulsetimer' \in Nat /\ pulsecount' \in Nat /\ PulseTrainEnds'
  BY <1>3, <1>4 DEF DigitInv, PulseTrainEnds, pulses
<1> QED
  BY <1>2, <1>5 DEF DigitInv

LEMMA DigitInvLine ==
  ASSUME DigitInv, hooksig \/ rbsbits \/ rbsbits_locked PROVE DigitInv'
<1>1. UNCHANGED <<dialing, txdialbuf, call>>
  BY DEF hooksig, rbsbits, rbsbits_locked, dialer, thread
<1>2. CASE rbsbits
  BY <1>1, <1>2, DigitInvKept DEF rbsbits, tx
<1>3. CASE hooksig
  <2>1. PICK new \in Signals : hooksig_pvt(new)
    BY <1>3 DEF hooksig
  <2> QED
    BY <1>1, <2>1, DigitInvPvt
<1>4. CASE rbsbits_locked
  <2>1. Ignored \/ hooksig_pvt(Decode(incoming))
    BY <1>4 DEF rbsbits_locked
  <2> QED
    BY <1>1, <2>1, DigitInvPvt
<1> QED
  BY <1>2, <1>3, <1>4

LEMMA DigitInvCall == ASSUME DigitInv, Call PROVE DigitInv'
<1>0. "none" \notin Hooks /\ "until_onhook" \notin Hooks /\ "until_offhook" \notin Hooks
  BY DEF Hooks
<1>1. CASE hook_onhook \/ close_channel \/ initialize_channel \/ hook \/ dial_cancel
  <2>1. dialing' = FALSE /\ txdialbuf' = << >>
    BY <1>1 DEF hook_onhook, close_channel, initialize_channel, hook, dial_cancel, HangupTx,
       StopDialing
  <2>2. UNCHANGED pulses \/ ForgetPulses
    BY <1>1 DEF hook_onhook, close_channel, initialize_channel, hook, dial_cancel
  <2>3. CASE UNCHANGED pulses
    BY <2>1, <2>3, DigitInvTx
  <2>4. CASE ForgetPulses
    BY <2>1, <2>4 DEF ForgetPulses, DigitInv, DialingAdvances, PulseTrainEnds
  <2> QED
    BY <2>2, <2>3, <2>4
<1>2. CASE hook_offhook \/ hook_start \/ hook_ringoff \/ hook_wink \/ hook_flash
  <2>1. call \in Hooks /\ call' \notin Hooks /\ UNCHANGED <<dialing, pulses>>
    BY <1>0, <1>2 DEF hook_offhook, hook_start, hook_ringoff, hook_wink, hook_flash, Quick,
       Slow, dialer, Hooks
  <2>2. ~dialing /\ dialing \in BOOLEAN
    BY <2>1 DEF DigitInv
  <2> QED
    BY <2>1, <2>2, DigitInvTx
<1>3. CASE hook_wait \/ hook_interrupted \/ setsigfreeze
  <2>1. UNCHANGED <<txstate, dialing, txdialbuf, pulses>>
    BY <1>3 DEF hook_wait, hook_interrupted, setsigfreeze, tx, dialer
  <2>2. call' \in Hooks => call \in Hooks
    BY <1>0, <1>3 DEF hook_wait, hook_interrupted, setsigfreeze, thread
  <2> QED
    BY <2>1, <2>2, DigitInvKept
<1>4. CASE dial_append \/ dial_replace
  <2>1. call' \notin Hooks /\ UNCHANGED pulses
    BY <1>0, <1>4 DEF dial_append, dial_replace, thread
  <2>2. CASE UNCHANGED <<txstate, dialing>>
    BY <2>1, <2>2, DigitInvTx DEF DigitInv, DialingAdvances
  <2>3. CASE \E buf : do_dtmf(buf, txstate, otimer)
    BY <2>1, <2>3, DialFacts, DigitInvTx
  <2>4. UNCHANGED <<txstate, dialing>> \/ \E buf : do_dtmf(buf, txstate, otimer)
    <3>1. CASE dial_replace
      BY <3>1 DEF dial_replace
    <3>2. CASE dial_append
      BY <3>2 DEF dial_append, tx
    <3> QED
      BY <1>4, <3>1, <3>2
  <2> QED
    BY <2>2, <2>3, <2>4
<1> QED
  BY <1>1, <1>2, <1>3, <1>4 DEF Call

(* No digit is left in the middle (__do_dtmf, __rbs_otimer_expire and      *)
(* __dahdi_hooksig_pvt): a dialer at work is in a state of a pulse, which  *)
(* a timer ends, and pulses that were counted will be told of, whatever    *)
(* call or change of the line comes between.                               *)
THEOREM HookDigitsEnd == Spec => []DigitsEnd
<1>1. DigitInv /\ [Next]_vars => DigitInv'
  <2> SUFFICES ASSUME DigitInv, [Next]_vars PROVE DigitInv'
    OBVIOUS
  <2>1. CASE UNCHANGED vars
    BY <2>1, DigitInvKept DEF vars, tx, dialer, pulses, thread
  <2>2. CASE Next
    BY <2>2, DigitInvTransmit, DigitInvReceive, DigitInvLine, DigitInvCall DEF Next, Line
  <2> QED
    BY <2>1, <2>2
<1>2. DigitInv => DigitsEnd
  BY DEF DigitInv, DigitsEnd
<1> QED
  BY <1>1, <1>2, DigitInvInit, PTL DEF Spec
-----------------------------------------------------------------------------
(* The ring cadence.  As dahdi.conf has it, a cadence is made of pairs of  *)
(* a ring and a silence, and is repeated from a ring.                      *)
CadencesPaired ==
  /\ MAX_CADENCE % 2 = 0
  /\ \A p \in Ports :
       /\ p.firstcadencepos % 2 = 0
       /\ \A i \in 0 .. MAX_CADENCE - 2 :
            i % 2 = 0 /\ p.ringcadence[i] > 0 => p.ringcadence[i + 1] > 0

(* While it rings the entry it rings by is not the zero that ends it.      *)
RingInv ==
  /\ CadencePhase
  /\ txstate = "RINGON" => port.ringcadence[cadencepos] > 0

LEMMA RingInvInit == Init => RingInv
  BY DEF Init, RingInv, CadencePhase

LEMMA RingInvOther ==
  ASSUME txstate' \notin {"RINGON", "RINGOFF"} PROVE RingInv'
BY DEF RingInv, CadencePhase

LEMMA RingInvKept ==
  ASSUME RingInv, UNCHANGED <<port, txstate, cadencepos>> PROVE RingInv'
BY DEF RingInv, CadencePhase

LEMMA RingInvRing ==
  ASSUME CadencesPaired, TxInv, RingInv, UNCHANGED port, ring_on PROVE RingInv'
<1> DEFINE c    == port.ringcadence
           next == cadencepos + 1
           pos  == IF next >= MAX_CADENCE \/ c[next] = 0 THEN port.firstcadencepos ELSE next
<1>1. txstate = "RINGOFF" /\ cadencepos' = pos /\ txstate' = "RINGON"
  BY DEF ring_on, rbs_sethook
<1>2. /\ \A i \in 0 .. MAX_CADENCE - 1 : c[i] \in Nat
      /\ port.firstcadencepos \in Nat /\ c[port.firstcadencepos] > 0
      /\ cadencepos \in 0 .. MAX_CADENCE - 1
  BY PortFacts DEF TxInv
<1>3. cadencepos % 2 = 1 /\ port.firstcadencepos % 2 = 0
  BY <1>1 DEF RingInv, CadencePhase, CadencesPaired, TxInv
<1>4. next % 2 = 0
  BY <1>2, <1>3
<1> HIDE DEF c, next
<1>5. pos % 2 = 0
  BY <1>3, <1>4
<1>6. c[pos] > 0
  <2>1. ~(next >= MAX_CADENCE) => next \in 0 .. MAX_CADENCE - 1
    BY <1>2 DEF next
  <2> QED
    BY <1>2, <2>1
<1> HIDE DEF pos
<1> QED
  BY <1>1, <1>5, <1>6 DEF RingInv, CadencePhase, c

LEMMA RingInvSilence ==
  ASSUME CadencesPaired, TxInv, RingInv, UNCHANGED port, ring_off PROVE RingInv'
<1> DEFINE c    == port.ringcadence
           next == IF cadencepos + 1 >= MAX_CADENCE THEN 0 ELSE cadencepos + 1
<1>1. /\ txstate = "RINGON" /\ txstate' = "RINGOFF"
      /\ cadencepos' = IF c[next] = 0 THEN 0 ELSE next
  BY DEF ring_off, rbs_sethook
<1>2. cadencepos \in 0 .. MAX_CADENCE - 1 /\ cadencepos % 2 = 0 /\ c[cadencepos] > 0
  BY <1>1 DEF TxInv, RingInv, CadencePhase
<1>3. MAX_CADENCE \in Nat /\ MAX_CADENCE % 2 = 0
  BY DEF CadencesPaired
<1>4. cadencepos # MAX_CADENCE - 1
  BY <1>2, <1>3
<1>5. cadencepos \in 0 .. MAX_CADENCE - 2 /\ next = cadencepos + 1
  BY <1>2, <1>3, <1>4
<1>6. c[next] > 0
  BY <1>2, <1>5 DEF CadencesPaired, TxInv
<1> HIDE DEF c, next
<1>7. cadencepos' = next
  BY <1>1, <1>6
<1>8. next % 2 = 1
  BY <1>2, <1>5
<1> QED
  BY <1>1, <1>7, <1>8 DEF RingInv, CadencePhase

LEMMA RingInvTransmit ==
  ASSUME CadencesPaired, TxInv, RingInv, transmit PROVE RingInv'
<1>1. UNCHANGED port
  BY DEF transmit
<1>2. CASE otimer # 1
  BY <1>1, <1>2, RingInvKept DEF transmit
<1>3. CASE ring_on
  BY <1>1, <1>3, RingInvRing
<1>4. CASE ring_off
  BY <1>1, <1>4, RingInvSilence
<1>5. CASE otimer_expire /\ ~ring_on /\ ~ring_off
  <2>1. CASE do_dtmf(txdialbuf, "OFFHOOK", 0)
    BY <2>1, RingInvOther DEF do_dtmf, rbs_sethook
  <2>2. CASE debounced \/ after_kewl \/ pulse_made
    BY <2>2, RingInvOther DEF debounced, after_kewl, pulse_made, rbs_sethook
  <2>3. CASE ~(debounced \/ after_kewl \/ pulse_made) /\ ~do_dtmf(txdialbuf, "OFFHOOK", 0)
    BY <1>5, <2>3, RingInvOther DEF otimer_expire, Move, rbs_sethook
  <2> QED
    BY <2>1, <2>2, <2>3
<1> QED
  BY <1>2, <1>3, <1>4, <1>5 DEF transmit

LEMMA RingInvLine ==
  ASSUME RingInv, receive \/ hooksig \/ rbsbits \/ rbsbits_locked PROVE RingInv'
<1>1. UNCHANGED <<port, cadencepos>>
  BY DEF receive, hooksig, rbsbits, rbsbits_locked
<1>2. \A new : Ignored \/ hooksig_pvt(new) => UNCHANGED txstate \/ txstate' = "AFTERSTART"
  BY DEF Ignored, hooksig_pvt, hooksig_em, hooksig_fxs, hooksig_start, hooksig_offhook,
     hooksig_onhook, tx, rbs_sethook
<1>3. UNCHANGED txstate \/ txstate' = "AFTERSTART"
  BY <1>2 DEF receive, hooksig, rbsbits, rbsbits_locked, tx
<1> QED
  BY <1>1, <1>3, RingInvKept, RingInvOther

LEMMA RingInvCall == ASSUME TxInv, RingInv, Call PROVE RingInv'
<1>1. CASE hook_onhook \/ close_channel \/ initialize_channel
  BY <1>1, RingInvOther DEF hook_onhook, close_channel, initialize_channel, HangupTx, rbs_sethook
<1>2. CASE hook_start /\ sig \in FXO /\ txstate = "ONHOOK"
  <2>1. txstate' = "RINGON" /\ cadencepos' = 0 /\ UNCHANGED port
    BY <1>2 DEF hook_start, Quick, rbs_sethook
  <2>2. port.ringcadence[0] > 0
    BY PortFacts DEF TxInv
  <2> QED
    BY <2>1, <2>2 DEF RingInv, CadencePhase
<1>3. CASE \/ UNCHANGED <<port, txstate, cadencepos>>
           \/ txstate' \notin {"RINGON", "RINGOFF"}
  BY <1>3, RingInvKept, RingInvOther
<1>4. CASE dial_append \/ dial_replace
  <2>1. UNCHANGED <<port, cadencepos>>
    BY <1>4 DEF dial_append, dial_replace
  <2>2. UNCHANGED txstate \/ txstate' = "PULSEBREAK"
    BY <1>4 DEF dial_append, dial_replace, do_dtmf, rbs_sethook, tx
  <2> QED
    BY <2>1, <2>2, RingInvKept, RingInvOther
<1>5. CASE ~(hook_onhook \/ close_channel \/ initialize_channel \/ dial_append \/ dial_replace)
           /\ ~(sig \in FXO /\ txstate = "ONHOOK" /\ hook_start)
  <2>1. \/ UNCHANGED <<port, txstate, cadencepos>>
        \/ txstate' \notin {"RINGON", "RINGOFF"}
    BY <1>5 DEF Call, hook, hook_offhook, hook_start, hook_ringoff, hook_wink, hook_flash,
       hook_wait, hook_interrupted, dial_cancel, setsigfreeze, Quick, Slow, tx, rbs_sethook
  <2> QED
    BY <1>3, <2>1
<1> QED
  BY <1>1, <1>2, <1>4, <1>5

(* With a cadence of pairs the ringer is on in its even entries and off in *)
(* the odd ones (the RINGON and RINGOFF cases of __rbs_otimer_expire), for *)
(* every length of it and wherever it is repeated from; a hook or a dialer *)
(* that comes between never shifts it.                                     *)
THEOREM HookCadencePhase == ASSUME CadencesPaired PROVE Spec => []CadencePhase
<1>1. TxInv /\ RingInv /\ [Next]_vars => RingInv'
  <2> SUFFICES ASSUME TxInv, RingInv, [Next]_vars PROVE RingInv'
    OBVIOUS
  <2>1. CASE UNCHANGED vars
    BY <2>1, RingInvKept DEF vars, tx
  <2>2. CASE Next
    BY <2>2, RingInvTransmit, RingInvLine, RingInvCall DEF Next, Line
  <2> QED
    BY <2>1, <2>2
<1>2. RingInv => CadencePhase
  BY DEF RingInv
<1> QED
  BY <1>1, <1>2, TxInvInit, TxInvInductive, RingInvInit, PTL DEF Spec
-----------------------------------------------------------------------------
(* What is known of the line where a time is left or a hang-up remembered. *)
Phones == {"FXOLS", "FXOKS"}

RealInv ==
  /\ itimer \in Nat /\ kewlonhook \in BOOLEAN
  /\ sig \notin FXO => ~kewlonhook
  /\ sig \in Phones /\ (itimer > 0 \/ kewlonhook) => rxhooksig = "ONHOOK"

Real == "ONHOOK" \in event' /\ sig # "FXOGS" => rxhooksig' = "ONHOOK"

LEMMA RealInvInit == Init => RealInv
<1> SUFFICES ASSUME Init PROVE RealInv
  OBVIOUS
<1>1. itimer = 0 /\ kewlonhook = FALSE
  BY DEF Init
<1>2. kewlonhook \in BOOLEAN /\ ~kewlonhook
  BY <1>1
<1> QED
  BY <1>1, <1>2 DEF RealInv

LEMMA RealInvKept ==
  ASSUME RealInv, UNCHANGED <<port, rxhooksig>>,
         itimer' \in Nat /\ (itimer' > 0 => itimer > 0 \/ rxhooksig = "ONHOOK"),
         UNCHANGED kewlonhook \/ kewlonhook' = FALSE
  PROVE  RealInv'
<1>1. kewlonhook' \in BOOLEAN /\ (kewlonhook' => kewlonhook)
  <2>1. CASE UNCHANGED kewlonhook
    BY <2>1 DEF RealInv
  <2>2. CASE kewlonhook' = FALSE
    BY <2>2
  <2> QED
    BY <2>1, <2>2
<1>2. (sig \notin FXO)' => ~kewlonhook'
  BY <1>1 DEF RealInv, sig
<1>3. (sig \in Phones)' /\ (itimer' > 0 \/ kewlonhook') => rxhooksig' = "ONHOOK"
  BY <1>1 DEF RealInv, sig, Phones
<1> QED
  BY <1>1, <1>2, <1>3 DEF RealInv

(* __rbs_otimer_expire: the end of the kewl is the one that tells.         *)
LEMMA RealTransmit == ASSUME port \in Ports, RealInv, transmit PROVE RealInv' /\ Real
<1>1. UNCHANGED port
  BY DEF transmit
<1>2. UNCHANGED <<rxhooksig, kewlonhook>>
  BY DEF transmit, otimer_expire, Move, ring_on, ring_off, debounced, after_kewl, pulse_made, loop
<1>3. itimer' \in Nat /\ (itimer' > 0 => itimer > 0 \/ rxhooksig = "ONHOOK")
  <2>1. UNCHANGED itimer \/ (rxhooksig = "ONHOOK" /\ itimer' = T.rxflash)
    BY DEF transmit, otimer_expire, Move, ring_on, ring_off, debounced, after_kewl, pulse_made,
       loop
  <2>2. T.rxflash \in Nat
    BY TimesPositive DEF TimeNames
  <2> QED
    BY <2>1, <2>2 DEF RealInv
<1>4. Real
  <2>1. "ONHOOK" \in event' => kewlonhook
    BY DEF transmit, otimer_expire, Move, ring_on, ring_off, debounced, after_kewl, pulse_made,
       do_dtmf, HookComplete
  <2>2. sig \in FXO /\ sig # "FXOGS" => sig \in Phones
    BY DEF FXO, Phones
  <2> QED
    BY <1>2, <2>1, <2>2 DEF Real, RealInv
<1> QED
  BY <1>1, <1>2, <1>3, <1>4, RealInvKept

(* rbs_itimer_expire *)
LEMMA RealReceive == ASSUME port \in Ports, RealInv, receive PROVE RealInv' /\ Real
<1>1. UNCHANGED <<port, rxhooksig, kewlonhook>>
  BY DEF receive
<1>2. itimer' = IF itimer = 0 THEN 0 ELSE itimer - 1
  BY DEF receive
<1>3. itimer' \in Nat /\ (itimer' > 0 => itimer > 0)
  BY <1>2 DEF RealInv
<1>4. Real
  <2>1. "ONHOOK" \in event' => itimer = 1 /\ sig \in FXO
    BY DEF receive, ItimerEvent
  <2>2. sig \in FXO /\ sig # "FXOGS" => sig \in Phones
    BY DEF FXO, Phones
  <2> QED
    BY <1>1, <2>1, <2>2 DEF Real, RealInv
<1> QED
  BY <1>1, <1>3, <1>4, RealInvKept

(* __dahdi_hooksig_pvt *)
LEMMA RealPvt ==
  ASSUME port \in Ports, RealInv, UNCHANGED port, NEW new \in Signals,
         Ignored \/ hooksig_pvt(new)
  PROVE  RealInv' /\ Real
<1>0. /\ sig \in FXO \cup FXS \cup {"EM"}
      /\ T.rxflash \in Nat /\ T.rxwink \in Nat
  BY TimesPositive DEF TimeNames, sig
<1>1. CASE Ignored
  <2>1. UNCHANGED <<rxhooksig, itimer, kewlonhook>> /\ event' = {}
    BY <1>1 DEF Ignored, loop
  <2> QED
    BY <2>1, RealInvKept DEF RealInv, Real
<1>2. CASE hooksig_pvt(new) /\ ~Ignored
  <2>0. rxhooksig' = new /\ sig' = sig
    BY <1>2 DEF hooksig_pvt, sig
  <2>1. CASE hooksig_em(new)
    <3>1. sig = "EM" /\ UNCHANGED kewlonhook /\ itimer' \in Nat
      BY <1>0, <2>1 DEF hooksig_em
    <3>2. new \in {"ONHOOK", "OFFHOOK"}
      BY <3>1 DEF Signals, FXS
    <3>3. "ONHOOK" \in event' => new = "ONHOOK"
      BY <2>1, <3>2 DEF hooksig_em
    <3> QED
      BY <2>0, <3>1, <3>3 DEF RealInv, Real, Phones, FXO
  <2>2. CASE hooksig_fxs(new)
    <3>1. sig \in FXS /\ UNCHANGED <<itimer, kewlonhook>>
      BY <2>2 DEF hooksig_fxs
    <3>2. "ONHOOK" \in event' => new = "ONHOOK"
      BY <2>2 DEF hooksig_fxs
    <3> QED
      BY <2>0, <3>1, <3>2 DEF RealInv, Real, Phones, FXO, FXS
  <2>3. CASE hooksig_start(new)
    <3>1. sig = "FXOGS" /\ UNCHANGED <<itimer, kewlonhook>>
      BY <2>3 DEF hooksig_start
    <3> QED
      BY <2>0, <3>1 DEF RealInv, Real, Phones, FXO
  <2>4. CASE hooksig_offhook(new)
    <3>1. itimer' = 0 /\ kewlonhook' = FALSE /\ "ONHOOK" \notin event'
      BY <2>4 DEF hooksig_offhook
    <3>2. kewlonhook' \in BOOLEAN /\ ~kewlonhook'
      BY <3>1
    <3> QED
      BY <3>1, <3>2 DEF RealInv, Real
  <2>5. CASE hooksig_onhook(new)
    <3>1. new = "ONHOOK" /\ sig \in FXO /\ kewlonhook' \in BOOLEAN
      BY <2>5 DEF hooksig_onhook
    <3>2. itimer' \in Nat
      BY <1>0, <2>5 DEF hooksig_onhook, RealInv
    <3> QED
      BY <2>0, <3>1, <3>2 DEF RealInv, Real
  <2> QED
    BY <1>2, <2>1, <2>2, <2>3, <2>4, <2>5 DEF hooksig_pvt
<1> QED
  BY <1>1, <1>2

LEMMA RealLine ==
  ASSUME port \in Ports, RealInv, hooksig \/ rbsbits \/ rbsbits_locked
  PROVE  RealInv' /\ Real
<1>1. CASE hooksig
  <2>1. UNCHANGED port /\ \E new \in Signals : hooksig_pvt(new)
    BY <1>1 DEF hooksig
  <2> QED
    BY <2>1, RealPvt
<1>2. CASE rbsbits
  <2>1. UNCHANGED <<port, rxhooksig, itimer, kewlonhook>> /\ event' = {}
    BY <1>2 DEF rbsbits, loop
  <2> QED
    BY <2>1, RealInvKept DEF RealInv, Real
<1>3. CASE rbsbits_locked
  <2>1. UNCHANGED port /\ (Ignored \/ hooksig_pvt(Decode(incoming)))
    BY <1>3 DEF rbsbits_locked
  <2>2. Decode(incoming) \in Signals
    BY DEF Decode, Signals, FXS
  <2> QED
    BY <2>1, <2>2, RealPvt
<1> QED
  BY <1>1, <1>2, <1>3

LEMMA RealCall == ASSUME RealInv, Call PROVE RealInv' /\ Real
<1>1. event' \subseteq {"DIALCOMPLETE"}
  BY DEF Call, hook, hook_onhook, hook_offhook, hook_start, hook_ringoff, hook_wink,
     hook_flash, hook_wait, hook_interrupted, dial_append, dial_replace, dial_cancel,
     setsigfreeze, close_channel, initialize_channel, Quick, Slow, do_dtmf
<1>2. UNCHANGED <<port, rxhooksig>>
  BY DEF Call, hook, hook_onhook, hook_offhook, hook_start, hook_ringoff, hook_wink,
     hook_flash, hook_wait, hook_interrupted, dial_append, dial_replace, dial_cancel,
     setsigfreeze, close_channel, initialize_channel, Quick, Slow, loop
<1>3. UNCHANGED itimer \/ itimer' = 0
  BY DEF Call, hook, hook_onhook, hook_offhook, hook_start, hook_ringoff, hook_wink,
     hook_flash, hook_wait, hook_interrupted, dial_append, dial_replace, dial_cancel,
     setsigfreeze, close_channel, initialize_channel, Quick, Slow, loop
<1>4. UNCHANGED kewlonhook \/ kewlonhook' = FALSE
  BY DEF Call, hook, hook_onhook, hook_offhook, hook_start, hook_ringoff, hook_wink,
     hook_flash, hook_wait, hook_interrupted, dial_append, dial_replace, dial_cancel,
     setsigfreeze, close_channel, initialize_channel, HangupTx, Quick, Slow, loop
<1>5. itimer' \in Nat /\ (itimer' > 0 => itimer > 0 \/ rxhooksig = "ONHOOK")
  BY <1>3 DEF RealInv
<1> QED
  BY <1>1, <1>2, <1>4, <1>5, RealInvKept DEF Real

(* The application is told that the far end hung up (DAHDI_EVENT_ONHOOK)   *)
(* only while it is on hook, though a timer does the telling, and a kewl   *)
(* remembers it (rbs_itimer_expire, the AFTERKEWL case of                  *)
(* __rbs_otimer_expire, __dahdi_hooksig_pvt).  A ground start telephone    *)
(* may be seizing the line instead.                                        *)
THEOREM HookOnhookIsReal == Spec => OnhookIsReal
<1>1. TxInv /\ RealInv /\ [Next]_vars => RealInv' /\ [Real]_vars
  <2> SUFFICES ASSUME TxInv, RealInv, [Next]_vars PROVE RealInv' /\ [Real]_vars
    OBVIOUS
  <2>1. CASE UNCHANGED vars
    BY <2>1 DEF vars, loop, RealInv, sig
  <2>2. CASE Next
    <3>1. port \in Ports
      BY DEF TxInv
    <3> QED
      BY <2>2, <3>1, RealTransmit, RealReceive, RealLine, RealCall DEF Next, Line
  <2> QED
    BY <2>1, <2>2
<1>2. Spec => [][Real]_vars
  BY <1>1, TxInvInit, TxInvInductive, RealInvInit, PTL DEF Spec
<1> QED
  BY <1>2 DEF OnhookIsReal, Real

-----------------------------------------------------------------------------
(* The event ring. *)
USE MaxEventSizeAssumption, NoEventAssumption DEF MaxEventSizeAssumption, NoEventAssumption

(* The ring arithmetic of the two handlers: the window between the indices *)
(* grows by eventinidx, shrinks by its first slot and never holds the slot *)
(* __qevent fills next.                                                    *)
LEMMA WindowGrows ==
  ASSUME eventinidx \in Slots, eventoutidx \in Slots, ~Full,
         eventinidx' = NextIdx(eventinidx), UNCHANGED eventoutidx
  PROVE  /\ Count \in 0 .. DAHDI_MAX_EVENTSIZE - 2
         /\ Count' = Count + 1
         /\ SlotOf(Count + 1) = eventinidx
         /\ \A i \in 1 .. Count : SlotOf(i) \in Slots /\ SlotOf(i) # eventinidx
         /\ \A i \in 1 .. Count + 1 : SlotOf(i)' = SlotOf(i)
BY DEF Slots, Full, NextIdx, Count, SlotOf

LEMMA WindowShrinks ==
  ASSUME eventinidx \in Slots, eventoutidx \in Slots, eventinidx # eventoutidx,
         eventoutidx' = NextIdx(eventoutidx), UNCHANGED eventinidx
  PROVE  /\ Count \in 1 .. DAHDI_MAX_EVENTSIZE - 1
         /\ Count' = Count - 1
         /\ SlotOf(1) = eventoutidx
         /\ \A i \in 1 .. Count - 1 : SlotOf(i)' = SlotOf(i + 1)
BY DEF Slots, NextIdx, Count, SlotOf

(* The type invariant of EventQueue: no handler indexes eventbuf outside   *)
(* the array or delivers a slot that __qevent never filled.                *)
THEOREM EventQueueTypeOK == QueueSpec => []QueueTypeOK
<1>1. QueueInit => QueueTypeOK
  <2> SUFFICES ASSUME QueueInit PROVE QueueTypeOK
    OBVIOUS
  <2>1. Count = 0 /\ eventinidx \in Slots /\ eventoutidx \in Slots
    BY DEF QueueInit, Count, Slots
  <2>2. eventbuf \in [Slots -> Events \cup {NoEvent}] /\ answer \in Events \cup {NoEvent}
    BY DEF QueueInit
  <2>3. flushed \in BOOLEAN
    BY ZenonT(10) DEF QueueInit
  <2>4. \A i \in 1 .. Count : eventbuf[SlotOf(i)] \in Events
    BY <2>1
  <2>5. QED
    BY <2>1, <2>2, <2>3, <2>4 DEF QueueTypeOK
<1>2. QueueTypeOK /\ [QueueNext]_queueVars => QueueTypeOK'
  <2> SUFFICES ASSUME QueueTypeOK, [QueueNext]_queueVars PROVE QueueTypeOK'
    OBVIOUS
  <2>1. ASSUME NEW code \in Events, qevent(code) PROVE QueueTypeOK'
    <3>1. CASE Full
      BY <2>1, <3>1 DEF qevent, QueueTypeOK, Slots, Count, SlotOf
    <3>2. CASE ~Full
      <4>1. /\ eventinidx \in Slots /\ eventoutidx \in Slots
            /\ eventinidx' = NextIdx(eventinidx)
            /\ eventbuf' = [eventbuf EXCEPT ![eventinidx] = code]
            /\ UNCHANGED <<eventoutidx, answer, flushed>>
        BY <2>1, <3>2 DEF qevent, QueueTypeOK
      <4>2. /\ Count' = Count + 1
            /\ Count \in Nat
            /\ SlotOf(Count + 1) = eventinidx
            /\ \A i \in 1 .. Count : SlotOf(i) \in Slots /\ SlotOf(i) # eventinidx
            /\ \A i \in 1 .. Count + 1 : SlotOf(i)' = SlotOf(i)
        BY <3>2, <4>1, WindowGrows
      <4>3. eventinidx' \in Slots
        BY <4>1 DEF NextIdx, Slots
      <4>4. eventbuf' \in [Slots -> Events \cup {NoEvent}]
        BY <4>1 DEF QueueTypeOK
      <4>5. ASSUME NEW i \in 1 .. Count' PROVE eventbuf'[SlotOf(i)'] \in Events
        <5>1. SlotOf(i)' = SlotOf(i)
          BY <4>2
        <5>2. CASE i = Count + 1
          BY <4>1, <4>2, <5>1, <5>2 DEF QueueTypeOK
        <5>3. CASE i \in 1 .. Count
          <6>1. eventbuf'[SlotOf(i)] = eventbuf[SlotOf(i)]
            BY <4>1, <4>2, <5>3 DEF QueueTypeOK
          <6>2. QED
            BY <5>1, <5>3, <6>1 DEF QueueTypeOK
        <5>4. QED
          BY <4>2, <5>2, <5>3
      <4>6. QED
        BY <4>1, <4>3, <4>4, <4>5 DEF QueueTypeOK
    <3>3. QED
      BY <3>1, <3>2
  <2>2. CASE getevent
    <3>1. CASE eventinidx = eventoutidx
      BY <2>2, <3>1 DEF getevent, QueueTypeOK, Slots, Count, SlotOf
    <3>2. CASE eventinidx # eventoutidx
      <4>1. /\ eventinidx \in Slots /\ eventoutidx \in Slots
            /\ eventoutidx' = NextIdx(eventoutidx)
            /\ answer' = eventbuf[eventoutidx]
            /\ UNCHANGED <<eventbuf, eventinidx, flushed>>
        BY <2>2, <3>2 DEF getevent, QueueTypeOK
      <4>2. /\ Count \in Nat
            /\ Count >= 1
            /\ Count' = Count - 1
            /\ SlotOf(1) = eventoutidx
            /\ \A i \in 1 .. Count - 1 : SlotOf(i)' = SlotOf(i + 1)
        BY <3>2, <4>1, WindowShrinks
      <4>3. eventoutidx' \in Slots
        BY <4>1 DEF NextIdx, Slots
      <4>4. answer' \in Events
        BY <4>1, <4>2 DEF QueueTypeOK
      <4>5. ASSUME NEW i \in 1 .. Count' PROVE eventbuf'[SlotOf(i)'] \in Events
        <5>1. i + 1 \in 1 .. Count /\ SlotOf(i)' = SlotOf(i + 1)
          BY <4>2
        <5>2. QED
          BY <4>1, <5>1 DEF QueueTypeOK
      <4>6. QED
        BY <4>1, <4>3, <4>4, <4>5 DEF QueueTypeOK
    <3>3. QED
      BY <3>1, <3>2
  <2>3. CASE flush_event
    BY <2>3 DEF flush_event, QueueTypeOK, Slots, Count
  <2>4. CASE UNCHANGED queueVars
    BY <2>4 DEF queueVars, QueueTypeOK, Slots, Count, SlotOf
  <2>5. QED
    BY <2>1, <2>2, <2>3, <2>4 DEF QueueNext
<1>3. QED
  BY <1>1, <1>2, PTL DEF QueueSpec

-----------------------------------------------------------------------------
(* What one operation does to the sequence of undelivered events. *)

LEMMA PendingIsSeq == QueueTypeOK => /\ Count \in 0 .. DAHDI_MAX_EVENTSIZE - 1
                               /\ Pending \in Seq(Events)
                               /\ Len(Pending) = Count
<1> SUFFICES ASSUME QueueTypeOK PROVE /\ Count \in 0 .. DAHDI_MAX_EVENTSIZE - 1
                                 /\ Pending \in Seq(Events)
                                 /\ Len(Pending) = Count
  OBVIOUS
<1>1. Count \in 0 .. DAHDI_MAX_EVENTSIZE - 1
  BY DEF QueueTypeOK, Count, Slots
<1>2. \A i \in 1 .. Count : eventbuf[SlotOf(i)] \in Events
  BY DEF QueueTypeOK
<1>3. Pending \in [1 .. Count -> Events]
  BY <1>2 DEF Pending
<1>4. Pending \in Seq(Events) /\ Len(Pending) = Count
  BY <1>1, <1>3
<1>5. QED
  BY <1>1, <1>4

LEMMA PendingIsSeqPrimed == QueueTypeOK' => (Pending \in Seq(Events) /\ Len(Pending) = Count)'
<1>1. QueueTypeOK => Pending \in Seq(Events) /\ Len(Pending) = Count
  BY PendingIsSeq
<1>2. QED
  BY <1>1, PTL

LEMMA FullIsCapacity == QueueTypeOK => (Full <=> Count = DAHDI_MAX_EVENTSIZE - 1)
BY DEF QueueTypeOK, Slots, Count, Full

LEMMA QeventRefines ==
  ASSUME QueueTypeOK, QueueTypeOK', NEW code \in Events, qevent(code)
  PROVE  Fifo!Raise(code)
<1> USE DEF Fifo!Raise
<1>0. Pending' \in Seq(Events) /\ Len(Pending') = Count'
  BY PendingIsSeqPrimed
<1>1. UNCHANGED <<answer, flushed>>
  BY DEF qevent
<1>2. CASE Full
  <2>1. Pending' = Pending
    BY <1>2 DEF qevent, Pending, Count, SlotOf
  <2>2. Len(Pending) = DAHDI_MAX_EVENTSIZE - 1
    BY <1>2, FullIsCapacity, PendingIsSeq
  <2>3. QED
    BY <1>1, <2>1, <2>2
<1>3. CASE ~Full
  <2>1. /\ Count < DAHDI_MAX_EVENTSIZE - 1
        /\ Count' = Count + 1
        /\ Count \in Nat
    BY <1>3, WindowGrows DEF qevent, QueueTypeOK
  <2>2. /\ SlotOf(Count + 1) = eventinidx
        /\ \A i \in 1 .. Count : SlotOf(i) \in Slots /\ SlotOf(i) # eventinidx
        /\ \A i \in 1 .. Count + 1 : SlotOf(i)' = SlotOf(i)
    BY <1>3, WindowGrows DEF qevent, QueueTypeOK
  <2>3. eventbuf' = [eventbuf EXCEPT ![eventinidx] = code]
    BY <1>3 DEF qevent
  <2>4. Pending' = [i \in 1 .. Count + 1 |-> eventbuf'[SlotOf(i)]]
    BY <2>1, <2>2 DEF Pending
  <2>5. \A i \in 1 .. Count + 1 :
          eventbuf'[SlotOf(i)] = IF i = Count + 1 THEN code ELSE eventbuf[SlotOf(i)]
    BY <2>2, <2>3, PendingIsSeq DEF QueueTypeOK
  <2>6. /\ Pending' \in Seq(Events) /\ Append(Pending, code) \in Seq(Events)
        /\ Len(Pending') = Count + 1 /\ Len(Append(Pending, code)) = Count + 1
    BY <1>0, <2>1, PendingIsSeq, AppendProperties
  <2>7. ASSUME NEW i \in 1 .. Count + 1 PROVE Append(Pending, code)[i] = Pending'[i]
    <3>1. CASE i = Count + 1
      BY <2>4, <2>5, <3>1, PendingIsSeq, AppendProperties
    <3>2. CASE i \in 1 .. Count
      BY <2>1, <2>4, <2>5, <3>2, PendingIsSeq, AppendProperties DEF Pending
    <3>3. i = Count + 1 \/ i \in 1 .. Count
      BY <2>1
    <3>4. QED
      BY <3>1, <3>2, <3>3
  <2>10. Append(Pending, code) = Pending'
    BY <2>6, <2>7, SeqEqual
  <2>8. Len(Pending) < DAHDI_MAX_EVENTSIZE - 1
    BY <2>1, PendingIsSeq
  <2>9. QED
    BY <1>1, <2>8, <2>10
<1>4. QED
  BY <1>2, <1>3

LEMMA GeteventRefines == ASSUME QueueTypeOK, QueueTypeOK', getevent PROVE Fifo!Deliver
<1> USE DEF Fifo!Deliver
<1>0. Pending' \in Seq(Events) /\ Len(Pending') = Count'
  BY PendingIsSeqPrimed
<1>1. CASE eventinidx = eventoutidx
  <2>1. Count = 0 /\ Pending = <<>>
    BY <1>1, PendingIsSeq DEF QueueTypeOK, Slots, Count
  <2>2. Pending' = Pending /\ answer' = NoEvent /\ UNCHANGED flushed
    BY <1>1 DEF getevent, Pending, Count, SlotOf
  <2>3. QED
    BY <2>1, <2>2
<1>2. CASE eventinidx # eventoutidx
  <2>1. /\ Count >= 1
        /\ Count' = Count - 1
        /\ SlotOf(1) = eventoutidx
        /\ \A i \in 1 .. Count - 1 : SlotOf(i)' = SlotOf(i + 1)
    BY <1>2, WindowShrinks DEF getevent, QueueTypeOK
  <2>2. Pending # <<>> /\ Head(Pending) = eventbuf[eventoutidx]
    BY <2>1, PendingIsSeq DEF Pending
  <2>3. /\ Pending' \in Seq(Events) /\ Tail(Pending) \in Seq(Events)
        /\ Len(Pending') = Count - 1 /\ Len(Tail(Pending)) = Count - 1
    BY <1>0, <2>1, <2>2, PendingIsSeq, HeadTailProperties
  <2>4. ASSUME NEW i \in 1 .. Count - 1 PROVE Pending'[i] = Tail(Pending)[i]
    <3>1. Pending'[i] = eventbuf[SlotOf(i + 1)]
      BY <1>2, <2>1 DEF Pending, getevent
    <3>2. Pending[i + 1] = eventbuf[SlotOf(i + 1)]
      BY <2>1, PendingIsSeq DEF Pending
    <3>3. QED
      BY <2>2, <2>3, <3>1, <3>2, PendingIsSeq, HeadTailProperties
  <2>6. Pending' = Tail(Pending)
    BY <2>3, <2>4, SeqEqual
  <2>7. answer' = eventbuf[eventoutidx] /\ UNCHANGED flushed
    BY <1>2 DEF getevent
  <2>8. QED
    BY <2>2, <2>6, <2>7
<1>3. QED
  BY <1>1, <1>2

LEMMA FlushRefines == ASSUME QueueTypeOK', flush_event PROVE Fifo!Forget
<1>1. Count' = 0 /\ Pending' = <<>>
  BY DEF flush_event, Count, Pending
<1>2. QED
  BY <1>1 DEF flush_event, Fifo!Forget

-----------------------------------------------------------------------------
(* Every step of the ring is a step of EventFifo or leaves it alone: what  *)
(* the holder of the channel reads with DAHDI_GETEVENT is the FIFO order   *)
(* of what __qevent accepted.                                              *)
THEOREM EventQueueImplementsFifo == QueueSpec => ImplementsFifo
<1>1. QueueInit => Fifo!Init
  BY DEF QueueInit, Fifo!Init, Pending, Count
<1>2. QueueTypeOK /\ QueueTypeOK' /\ [QueueNext]_queueVars => [Fifo!Next]_(Fifo!fifoVars)
  <2> SUFFICES ASSUME QueueTypeOK, QueueTypeOK', [QueueNext]_queueVars
               PROVE  [Fifo!Next]_(Fifo!fifoVars)
    OBVIOUS
  <2>1. ASSUME NEW code \in Events, qevent(code) PROVE Fifo!Next
    BY <2>1, QeventRefines DEF Fifo!Next
  <2>2. CASE getevent
    BY <2>2, GeteventRefines DEF Fifo!Next
  <2>3. CASE flush_event
    BY <2>3, FlushRefines DEF Fifo!Next
  <2>4. CASE UNCHANGED queueVars
    BY <2>4 DEF queueVars, Fifo!fifoVars, Pending, Count, SlotOf
  <2>5. QED
    BY <2>1, <2>2, <2>3, <2>4 DEF QueueNext
<1>3. QED
  BY <1>1, <1>2, EventQueueTypeOK, PTL DEF QueueSpec, ImplementsFifo, Fifo!Spec
=============================================================================
