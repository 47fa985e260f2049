----------------------------- MODULE HookSignal -----------------------------
(***************************************************************************)
(* Hook signalling of one channel with robbed bits (dahdi-base.c).  Two    *)
(* state machines share chan->lock: txstate, which DAHDI_HOOK, the dialer  *)
(* and otimer move, and the one of rxhooksig, which the line and itimer    *)
(* move and which tells the application of hook changes by events.         *)
(*                                                                         *)
(* A tick is one chunk (1 ms): the driver's interrupt transmits, then      *)
(* receives it, and drops the lock in between.  One thread uses the file;  *)
(* it dials pulses only (no tones) and never passes zero for a time.       *)
(***************************************************************************)
EXTENDS Naturals, Sequences

CONSTANTS
  Ports,        \* what a channel may be: its signalling and its driver
  T,            \* the times of kernel.h and of DAHDI_SET_PARAMS, in chunks
  MAX_CADENCE,
  Digits,       \* the pulse digits the application dials
  MaxDialBuf,   \* bound: digits in txdialbuf
  MaxPulses     \* bound: pulses the line sends in one train

FXO == {"FXOLS", "FXOGS", "FXOKS"}
FXS == {"FXSLS", "FXSGS", "FXSKS"}

TimeNames ==
  {"start", "prewink", "wink", "preflash", "flash", "debounce", "rxwink", "rxflash",
   "pulsemake", "pulsebreak", "pulseafter", "afterstart", "kewl", "afterkewl",
   "ringdebounce", "ringtrailer", "minpulse", "maxpulse", "pulsetimeout"}

ASSUME HookAssumption ==
  /\ MAX_CADENCE \in Nat \ {0}
  /\ Ports \subseteq [sig : FXO \cup FXS \cup {"EM"}, digital : BOOLEAN,
                      ringcadence : [0 .. MAX_CADENCE - 1 -> Nat],
                      firstcadencepos : 0 .. MAX_CADENCE - 1, zonering : Nat \ {0}]
  /\ \A p \in Ports : p.ringcadence[0] > 0 /\ p.ringcadence[p.firstcadencepos] > 0
  /\ T \in [TimeNames -> Nat \ {0}]
  /\ Digits \subseteq Nat \ {0}
  /\ MaxDialBuf \in Nat /\ MaxPulses \in Nat

VARIABLES
  port,                             \* the channel, as configured
  txstate, txhooksig, otimer,       \* the transmit side and its timer
  cadencepos,
  dialing, txdialbuf, pdialcount,   \* the dialer
  rxhooksig, itimer, itimerset,     \* the receive side and its timer
  gotgs, kewlonhook,
  pulsecount, pulsetimer, ringdebtimer, ringtrailer,
  rxsig, incoming,                  \* bits last seen; bits dahdi_rbsbits has checked
  open, nonblock, frozen,           \* the file, O_NONBLOCK, DAHDI_FLAG_SIGFREEZE
  call, asleep,                     \* the thread's DAHDI_HOOK and its sleep in it
  received,                         \* whether the next half of a tick transmits
  event,                            \* the events the last step queued
  cut                               \* history: told off hook, and a look at the line missed

tx     == <<txstate, txhooksig, otimer>>
dialer == <<dialing, txdialbuf, pdialcount>>
loop   == <<rxhooksig, itimer, itimerset, gotgs, kewlonhook>>
pulses == <<pulsecount, pulsetimer>>
rings  == <<ringdebtimer, ringtrailer>>
bits   == <<rxsig, incoming>>
file   == <<open, nonblock, frozen>>
thread == <<call, asleep>>
vars   == <<port, tx, cadencepos, dialer, loop, pulses, rings, bits, file, thread,
            received, event, cut>>

sig == port.sig

Steady  == {"ONHOOK", "OFFHOOK"}
Hooks   == {"ONHOOK", "OFFHOOK", "START", "WINK", "FLASH", "RINGOFF"}

-----------------------------------------------------------------------------
(* The transmit side *)

(* A variant with a plausible slip: no signal sent while the timer runs. *)
rbs_sethook_mute(txsig, state, timeout) ==
  /\ txhooksig' = IF otimer > 1 THEN txhooksig ELSE txsig
  /\ txstate' = state
  /\ otimer' = timeout

(* dahdi_rbs_sethook(chan, txsig, state, timeout) *)
rbs_sethook(txsig, state, timeout) ==
  /\ txhooksig' = txsig
  /\ txstate' = state
  /\ otimer' = timeout

(* A variant with a plausible slip: the dialer left on. *)
KeepsDialing == UNCHANGED dialing /\ txdialbuf' = << >> /\ pdialcount' = 0

(* "If dialing, stop it." *)
StopDialing == dialing' = FALSE /\ txdialbuf' = << >> /\ pdialcount' = 0

(* __do_dtmf, for pulses: a digit needs the line off hook; without, all    *)
(* that is left to dial is dropped, and state and timer stay.              *)
do_dtmf(buf, state, timer) ==
  IF buf # << >> /\ txhooksig = "OFFHOOK"
  THEN /\ dialing' = TRUE
       /\ pdialcount' = Head(buf)
       /\ txdialbuf' = Tail(buf)
       /\ rbs_sethook("ONHOOK", "PULSEBREAK", T.pulsebreak)
       /\ event' = {}
  ELSE /\ dialing' = FALSE /\ txdialbuf' = << >>
       /\ event' = {"DIALCOMPLETE"}
       /\ txstate' = state /\ otimer' = timer
       /\ UNCHANGED <<txhooksig, pdialcount>>

(* dahdi_hangup: battery is dropped on a kewlstart port unless the other   *)
(* party is on hook for good.                                              *)
HangupTx(timer) ==
  /\ IF sig = "FXOKS" /\ txstate # "ONHOOK" /\ ~(rxhooksig = "ONHOOK" /\ timer = 0)
     THEN rbs_sethook("KEWL", "KEWL", T.kewl)
     ELSE rbs_sethook("ONHOOK", "ONHOOK", 0)
  /\ StopDialing
  /\ cadencepos' = 0
  /\ kewlonhook' = FALSE

(* A variant with a plausible slip: the sleeper not woken. *)
NoWake(now) == UNCHANGED asleep

(* wake_up_interruptible(&chan->waitq), which an event comes with too.     *)
Wake(now) == asleep' = (asleep /\ ~now /\ event' = {})

HookComplete == IF open /\ nonblock THEN {"HOOKCOMPLETE"} ELSE {}

(* A step of otimer to a state that needs no more than sethook. *)
Move(from, txsig, to, timeout, events) ==
  /\ txstate = from
  /\ rbs_sethook(txsig, to, timeout)
  /\ event' = events
  /\ UNCHANGED <<cadencepos, dialer, loop>>

(* The cadence alternates on and off and ends at a zero or at its limit.   *)
ring_on ==
  LET c    == port.ringcadence
      next == cadencepos + 1
      pos  == IF next >= MAX_CADENCE \/ c[next] = 0 THEN port.firstcadencepos ELSE next
  IN  /\ txstate = "RINGOFF"
      /\ cadencepos' = pos
      /\ rbs_sethook("START", "RINGON", c[pos])
      /\ event' = {"RINGERON"}
      /\ UNCHANGED <<dialer, loop>>

(* A variant with a plausible slip: the cadence not advanced. *)
ring_off_stays ==
  /\ txstate = "RINGON"
  /\ rbs_sethook("OFFHOOK", "RINGOFF", port.ringcadence[cadencepos])
  /\ event' = {"RINGEROFF"}
  /\ UNCHANGED <<cadencepos, dialer, loop>>

ring_off ==
  LET c    == port.ringcadence
      next == IF cadencepos + 1 >= MAX_CADENCE THEN 0 ELSE cadencepos + 1
  IN  /\ txstate = "RINGON"
      /\ cadencepos' = IF c[next] = 0 THEN 0 ELSE next
      /\ rbs_sethook("OFFHOOK", "RINGOFF", IF c[next] = 0 THEN port.zonering ELSE c[next])
      /\ event' = {"RINGEROFF"}
      /\ UNCHANGED <<dialer, loop>>

(* A variant with a plausible slip: the look at the line left out. *)
debounced_blind ==
  /\ txstate = "DEBOUNCE"
  /\ rbs_sethook("OFFHOOK", "OFFHOOK", 0)
  /\ event' = {}
  /\ UNCHANGED <<cadencepos, dialer, loop>>

(* Off hook for good: look whether the other party hung up meanwhile.      *)
debounced ==
  /\ txstate = "DEBOUNCE"
  /\ rbs_sethook("OFFHOOK", "OFFHOOK", 0)
  /\ IF rxhooksig = "ONHOOK" /\ T.rxflash > 2
     THEN itimer' = T.rxflash /\ itimerset' = T.rxflash
     ELSE UNCHANGED <<itimer, itimerset>>
  /\ event' = {}
  /\ UNCHANGED <<cadencepos, dialer, rxhooksig, gotgs, kewlonhook>>

after_kewl ==
  /\ txstate = "AFTERKEWL"
  /\ txstate' = "ONHOOK" /\ otimer' = 0
  /\ event' = IF kewlonhook THEN {"ONHOOK"} ELSE {}
  /\ gotgs' = FALSE
  /\ UNCHANGED <<txhooksig, cadencepos, dialer, rxhooksig, itimer, itimerset, kewlonhook>>

(* A variant with a plausible slip: the pause after a digit not timed. *)
pulse_made_untimed ==
  /\ txstate = "PULSEMAKE"
  /\ LET left == IF pdialcount > 0 THEN pdialcount - 1 ELSE 0
     IN  /\ pdialcount' = left
         /\ IF left > 0
            THEN rbs_sethook("ONHOOK", "PULSEBREAK", T.pulsebreak)
            ELSE txstate' = "PULSEAFTER" /\ otimer' = 0 /\ UNCHANGED txhooksig
  /\ event' = {}
  /\ UNCHANGED <<cadencepos, dialing, txdialbuf, loop>>

pulse_made ==
  /\ txstate = "PULSEMAKE"
  /\ LET left == IF pdialcount > 0 THEN pdialcount - 1 ELSE 0
     IN  /\ pdialcount' = left
         /\ IF left > 0
            THEN rbs_sethook("ONHOOK", "PULSEBREAK", T.pulsebreak)
            ELSE txstate' = "PULSEAFTER" /\ otimer' = T.pulseafter /\ UNCHANGED txhooksig
  /\ event' = {}
  /\ UNCHANGED <<cadencepos, dialing, txdialbuf, loop>>

(* __rbs_otimer_expire *)
otimer_expire ==
  \/ ring_on \/ ring_off \/ debounced \/ after_kewl \/ pulse_made
  \/ Move("START", "OFFHOOK", "AFTERSTART", T.afterstart, {})
  \/ Move("PREWINK", "OFFHOOK", "WINK", T.wink, {})
  \/ Move("WINK", "ONHOOK", "ONHOOK", 0, HookComplete)
  \/ Move("PREFLASH", "ONHOOK", "FLASH", T.flash, {})
  \/ Move("FLASH", "OFFHOOK", "OFFHOOK", 0, HookComplete)
  \/ Move("AFTERSTART", "OFFHOOK", "OFFHOOK", 0, HookComplete)
  \/ Move("KEWL", "ONHOOK", "AFTERKEWL", T.afterkewl, HookComplete)
  \/ Move("PULSEBREAK", "OFFHOOK", "PULSEMAKE", T.pulsemake, {})
  \/ /\ txstate = "PULSEAFTER"
     /\ do_dtmf(txdialbuf, "OFFHOOK", 0)
     /\ UNCHANGED <<cadencepos, loop>>

(* The states whose end comes with a wake-up of its own. *)
Wakers ==
  {"START", "WINK", "FLASH", "DEBOUNCE", "AFTERSTART", "KEWL", "PULSEBREAK", "PULSEAFTER"}

(* _dahdi_transmit, as far as the hook state goes *)
transmit ==
  /\ received
  /\ received' = FALSE
  /\ IF otimer = 1
     THEN /\ otimer_expire
          /\ Wake(txstate \in Wakers \/ txstate' = "PULSEAFTER")
     ELSE /\ otimer' = IF otimer = 0 THEN 0 ELSE otimer - 1
          /\ event' = {}
          /\ UNCHANGED <<txstate, txhooksig, cadencepos, dialer, loop, asleep>>
  /\ UNCHANGED <<port, pulses, rings, bits, file, call>>

-----------------------------------------------------------------------------
(* The receive side *)

(* rbs_itimer_expire: what the end of the wink or flash time tells.        *)
ItimerEvent == IF sig \in FXO THEN "ONHOOK" ELSE "RINGOFFHOOK"

(* _dahdi_receive, as far as the hook state goes *)
receive ==
  LET expires == itimer = 1
      trailer == IF rxhooksig = "RING" THEN T.ringtrailer
                 ELSE IF ringtrailer = 0 THEN 0 ELSE ringtrailer - 1
      debounce == IF ringdebtimer = 0 THEN 0 ELSE ringdebtimer - 1
      over    == sig \in FXS /\ ringtrailer > 0 /\ trailer = 0 /\ debounce = 0
      digit   == pulsetimer = 1 /\ pulsecount > 0
  IN
  /\ ~received
  /\ received' = TRUE
  /\ itimer' = IF itimer = 0 THEN 0 ELSE itimer - 1
  /\ gotgs' = (gotgs /\ ~(expires /\ sig \in FXO))
  /\ ringdebtimer' = debounce
  /\ ringtrailer' = IF sig \in FXS THEN trailer ELSE ringtrailer
  /\ pulsetimer' = IF pulsetimer = 0 THEN 0 ELSE pulsetimer - 1
  /\ pulsecount' = IF pulsetimer = 1 THEN 0 ELSE pulsecount
  /\ event' = (IF expires THEN {ItimerEvent} ELSE {}) \cup (IF over THEN {"RINGOFFHOOK"} ELSE {})
               \cup (IF digit THEN {"PULSEDIGIT"} ELSE {})
  /\ Wake(FALSE)
  /\ UNCHANGED <<port, tx, cadencepos, dialer, rxhooksig, itimerset, kewlonhook,
                 bits, file, call>>

(* __dahdi_hooksig_pvt on an E&M line: a wink is an off-hook of at most    *)
(* rxwinktime, a longer one rings.                                         *)
hooksig_em(new) ==
  /\ sig = "EM"
  /\ LET to == IF new = "OFFHOOK" THEN T.rxwink ELSE 0
     IN  itimer' = to /\ itimerset' = to
  /\ gotgs' = (gotgs /\ (new = "OFFHOOK" \/ itimer > 0))
  /\ event' = IF new = "OFFHOOK" THEN {}
              ELSE IF itimer > 0 THEN {"WINKFLASH"} ELSE {"ONHOOK"}
  /\ UNCHANGED <<tx, kewlonhook, pulses, rings>>

(* ... on a line to an exchange, which rings ...                           *)
hooksig_fxs(new) ==
  LET hungup == \/ sig = "FXSKS" /\ new = "ONHOOK" /\ txstate = "OFFHOOK"
                \/ sig = "FXSGS" /\ new = "ONHOOK"
      tell   == hungup /\ txstate # "DEBOUNCE"
  IN
  /\ sig \in FXS
  /\ ringdebtimer' = IF hungup THEN T.ringdebounce ELSE ringdebtimer
  /\ ringtrailer' = IF hungup THEN 0 ELSE ringtrailer
  /\ gotgs' = (gotgs /\ ~tell)
  /\ event' = (IF new = "RING" /\ ringdebtimer = 0 THEN {"RINGBEGIN"} ELSE {})
               \cup (IF tell THEN {"ONHOOK"} ELSE {})
  /\ UNCHANGED <<tx, itimer, itimerset, kewlonhook, pulses>>

(* ... and on a line to a telephone: seized, ...                           *)
hooksig_start(new) ==
  /\ sig = "FXOGS" /\ new = "START"
  /\ gotgs' = TRUE
  /\ event' = IF gotgs THEN {} ELSE {"RINGOFFHOOK"}
  /\ UNCHANGED <<tx, itimer, itimerset, kewlonhook, pulses, rings>>

(* A variant with a plausible slip: the hang-up during the kewl stays.     *)
hooksig_offhook_keeps(new) ==
  /\ sig \in FXO /\ new = "OFFHOOK"
  /\ gotgs' = (gotgs \/ itimer = 0)
  /\ event' = IF itimer = 0 /\ ~gotgs THEN {"RINGOFFHOOK"} ELSE {}
  /\ itimer' = 0 /\ itimerset' = 0
  /\ UNCHANGED <<tx, kewlonhook, pulses, rings>>

(* ... off hook: the end of a pulse or a flash, or a new call, ...         *)
hooksig_offhook(new) ==
  LET plen  == itimerset - itimer
      pulse == itimer > 0 /\ plen >= T.minpulse /\ plen <= T.maxpulse
  IN
  /\ sig \in FXO /\ new = "OFFHOOK"
  /\ IF txstate = "START"
     THEN rbs_sethook("OFFHOOK", "AFTERSTART", T.afterstart)
     ELSE UNCHANGED tx
  /\ kewlonhook' = FALSE
  /\ IF pulse
     THEN pulsecount' = pulsecount + 1 /\ pulsetimer' = T.pulsetimeout
     ELSE UNCHANGED pulses
  /\ gotgs' = (gotgs \/ itimer = 0)
  /\ event' = IF itimer = 0 THEN IF gotgs THEN {} ELSE {"RINGOFFHOOK"}
              ELSE IF pulse THEN IF pulsecount = 0 THEN {"PULSE_START"} ELSE {}
              ELSE IF plen > T.maxpulse THEN {"WINKFLASH"} ELSE {}
  /\ itimer' = 0 /\ itimerset' = 0
  /\ UNCHANGED rings

(* A variant with a plausible slip: the flash time not kept. *)
hooksig_onhook_unset(new) ==
  /\ sig \in FXO /\ new = "ONHOOK"
  /\ itimer' = T.rxflash /\ UNCHANGED itimerset
  /\ kewlonhook' = (kewlonhook \/ txstate = "KEWL")
  /\ event' = {}
  /\ UNCHANGED <<tx, gotgs, pulses, rings>>

(* ... and on hook, which only itimer or the end of txstate's own time     *)
(* will tell from a flash.                                                 *)
hooksig_onhook(new) ==
  /\ sig \in FXO /\ new = "ONHOOK"
  /\ IF txstate \notin {"DEBOUNCE", "KEWL", "AFTERKEWL"}
     THEN itimer' = T.rxflash /\ itimerset' = T.rxflash
     ELSE UNCHANGED <<itimer, itimerset>>
  /\ kewlonhook' = (kewlonhook \/ txstate = "KEWL")
  /\ event' = {}
  /\ UNCHANGED <<tx, gotgs, pulses, rings>>

Ignored ==
  /\ event' = {}
  /\ UNCHANGED <<tx, loop, pulses, rings>>

hooksig_pvt(new) ==
  IF rxhooksig = new \/ frozen THEN Ignored
  ELSE /\ rxhooksig' = new
       /\ \/ hooksig_em(new) \/ hooksig_fxs(new) \/ hooksig_start(new)
          \/ hooksig_offhook(new) \/ hooksig_onhook(new)

Signals ==
  {"ONHOOK", "OFFHOOK"} \cup (IF sig \in FXS THEN {"RING"} ELSE {})
                        \cup (IF sig = "FXOGS" THEN {"START"} ELSE {})

LineBounded == sig \in FXO => pulsecount < MaxPulses

(* dahdi_hooksig, called by an analog port's driver *)
hooksig ==
  /\ ~port.digital /\ LineBounded
  /\ \E new \in Signals : hooksig_pvt(new)
  /\ Wake(FALSE)
  /\ UNCHANGED <<port, cadencepos, dialer, bits, file, call, received>>

NoBits == {"none"}

(* The hook state that the A and B bits stand for. *)
Decode(b) ==
  IF sig \in FXS
  THEN IF "B" \notin b THEN "RING"
       ELSE IF sig # "FXSLS" /\ "A" \in b THEN "ONHOOK" ELSE "OFFHOOK"
  ELSE IF sig = "FXOGS" /\ "B" \notin b THEN "START"
  ELSE IF "A" \in b THEN "OFFHOOK" ELSE "ONHOOK"

(* dahdi_rbsbits, called by a digital span's driver: what it decides       *)
(* before it takes chan->lock ...                                          *)
rbsbits ==
  /\ port.digital /\ incoming = NoBits /\ ~frozen
  /\ \E b \in SUBSET {"A", "B"} : b # rxsig /\ incoming' = b
  /\ event' = {}
  /\ UNCHANGED <<port, tx, cadencepos, dialer, loop, pulses, rings, rxsig, file, thread, received>>

(* ... and what it does under the lock.                                    *)
rbsbits_locked ==
  /\ incoming # NoBits /\ LineBounded
  /\ rxsig' = incoming /\ incoming' = NoBits
  /\ IF sig = "EM" /\ ("A" \in incoming <=> "A" \in rxsig)
     THEN Ignored
     ELSE hooksig_pvt(Decode(incoming))
  /\ Wake(FALSE)
  /\ UNCHANGED <<port, cadencepos, dialer, file, call, received>>

-----------------------------------------------------------------------------
(* DAHDI_HOOK: the dialer is stopped, the lock dropped and taken again.    *)

hook ==
  /\ open /\ call = "none"
  /\ call' \in Hooks
  /\ StopDialing
  /\ event' = {}
  /\ UNCHANGED <<port, tx, cadencepos, loop, pulses, rings, bits, file, asleep, received>>

RingDebounce == ringdebtimer' = IF sig \in FXS THEN T.ringdebounce ELSE ringdebtimer

hook_onhook ==
  /\ call = "ONHOOK" /\ call' = "none"
  /\ HangupTx(itimer)
  /\ RingDebounce
  /\ event' = {}
  /\ UNCHANGED <<port, rxhooksig, itimer, itimerset, gotgs, pulses, ringtrailer,
                 bits, file, asleep, received>>

(* A hook that changes nothing but the transmit side, or fails: EBUSY.     *)
Quick(op, allowed, txsig, state, timeout) ==
  /\ call = op /\ call' = "none"
  /\ IF allowed THEN rbs_sethook(txsig, state, timeout) ELSE UNCHANGED tx
  /\ event' = {}
  /\ UNCHANGED <<port, dialer, loop, pulses, rings, bits, file, asleep, received>>

hook_offhook ==
  /\ Quick("OFFHOOK", txstate \notin {"KEWL", "AFTERKEWL"}, "OFFHOOK", "DEBOUNCE", T.debounce)
  /\ UNCHANGED cadencepos

hook_start ==
  LET idle == txstate = "ONHOOK"
  IN  IF sig \in FXO
      THEN /\ Quick("START", idle, "START", "RINGON", port.ringcadence[0])
           /\ cadencepos' = IF idle THEN 0 ELSE cadencepos
      ELSE /\ Quick("START", idle, "START", "START", T.start)
           /\ UNCHANGED cadencepos

hook_ringoff ==
  /\ Quick("RINGOFF", TRUE, "ONHOOK", "ONHOOK", 0)
  /\ UNCHANGED cadencepos

(* A wink or a flash, which a thread without O_NONBLOCK waits for.         *)
Slow(op, from, txsig, state, timeout, wait) ==
  /\ call = op
  /\ IF txstate = from
     THEN /\ rbs_sethook(txsig, state, timeout)
          /\ call' = IF nonblock THEN "none" ELSE wait
     ELSE call' = "none" /\ UNCHANGED tx
  /\ event' = {}
  /\ UNCHANGED <<port, cadencepos, dialer, loop, pulses, rings, bits, file, asleep, received>>

hook_wink  == Slow("WINK", "ONHOOK", "ONHOOK", "PREWINK", T.prewink, "until_onhook")
hook_flash == Slow("FLASH", "OFFHOOK", "OFFHOOK", "PREFLASH", T.preflash, "until_offhook")

Waits == {"until_onhook", "until_offhook"}

(* wait_event_interruptible: look, and sleep till the next wake-up.        *)
hook_wait ==
  /\ call \in Waits /\ ~asleep
  /\ IF txstate = (IF call = "until_onhook" THEN "ONHOOK" ELSE "OFFHOOK")
     THEN call' = "none" /\ UNCHANGED asleep
     ELSE asleep' = TRUE /\ UNCHANGED call
  /\ event' = {}
  /\ UNCHANGED <<port, tx, cadencepos, dialer, loop, pulses, rings, bits, file, received>>

hook_interrupted ==
  /\ call \in Waits
  /\ call' = "none" /\ asleep' = FALSE
  /\ event' = {}
  /\ UNCHANGED <<port, tx, cadencepos, dialer, loop, pulses, rings, bits, file, received>>

-----------------------------------------------------------------------------
(* The other calls *)

(* DAHDI_DIAL with the operations append, replace and cancel; write() does *)
(* to a digit being dialled what cancel does.                              *)
dial_append ==
  /\ open /\ call = "none" /\ Len(txdialbuf) < MaxDialBuf
  /\ \E d \in Digits :
       IF dialing
       THEN /\ txdialbuf' = Append(txdialbuf, d)
            /\ event' = {}
            /\ UNCHANGED <<tx, dialing, pdialcount>>
       ELSE do_dtmf(Append(txdialbuf, d), txstate, otimer)
  /\ UNCHANGED <<port, cadencepos, loop, pulses, rings, bits, file, thread, received>>

dial_replace ==
  /\ open /\ call = "none"
  /\ \E d \in Digits : do_dtmf(<<d>>, txstate, otimer)
  /\ UNCHANGED <<port, cadencepos, loop, pulses, rings, bits, file, thread, received>>

dial_cancel ==
  /\ open /\ call = "none"
  /\ StopDialing
  /\ event' = {}
  /\ UNCHANGED <<port, tx, cadencepos, loop, pulses, rings, bits, file, thread, received>>

setsigfreeze ==
  /\ open /\ call = "none"
  /\ frozen' = ~frozen
  /\ event' = {}
  /\ UNCHANGED <<port, tx, cadencepos, dialer, loop, pulses, rings, bits, open, nonblock,
                 thread, received>>

(* A variant with a plausible slip: a half-told digit left behind.         *)
PulsesLeft == pulsetimer' = 0 /\ UNCHANGED pulsecount

ForgetPulses == pulsecount' = 0 /\ pulsetimer' = 0

close_channel ==
  /\ open /\ call = "none"
  /\ open' = FALSE /\ frozen' = FALSE
  /\ HangupTx(itimer)
  /\ itimer' = 0 /\ itimerset' = 0 /\ gotgs' = FALSE
  /\ ForgetPulses
  /\ ringdebtimer' = 0
  /\ event' = {}
  /\ nonblock' = FALSE
  /\ UNCHANGED <<port, rxhooksig, ringtrailer, bits, thread, received>>

initialize_channel ==
  /\ ~open
  /\ open' = TRUE /\ nonblock' \in BOOLEAN
  /\ HangupTx(0)
  /\ itimer' = 0 /\ itimerset' = 0 /\ gotgs' = FALSE
  /\ ringdebtimer' = IF sig \in FXS THEN T.ringdebounce ELSE 0
  /\ event' = {}
  /\ UNCHANGED <<port, rxhooksig, pulses, ringtrailer, bits, frozen, thread, received>>

-----------------------------------------------------------------------------
(* The bits of an idle line: dahdi_q_sig. *)
IdleBits ==
  IF sig = "FXSGS" THEN {"A", "B"}
  ELSE IF sig \in FXS \cup {"FXOGS"} THEN {"B"} ELSE {}

(* The span has just been started, which hangs up every channel. *)
Init ==
  /\ port \in Ports
  /\ txstate = "ONHOOK" /\ txhooksig = "ONHOOK" /\ otimer = 0
  /\ cadencepos = 0
  /\ dialing = FALSE /\ txdialbuf = << >> /\ pdialcount = 0
  /\ rxhooksig = "INITIAL" /\ itimer = 0 /\ itimerset = 0
  /\ gotgs = FALSE /\ kewlonhook = FALSE
  /\ pulsecount = 0 /\ pulsetimer = 0 /\ ringtrailer = 0
  /\ ringdebtimer = IF sig \in FXS THEN T.ringdebounce ELSE 0
  /\ rxsig = IdleBits /\ incoming = NoBits
  /\ open = FALSE /\ nonblock = FALSE /\ frozen = FALSE
  /\ call = "none" /\ asleep = FALSE
  /\ received = TRUE
  /\ event = {}
  /\ cut = FALSE

Call ==
  \/ hook \/ hook_onhook \/ hook_offhook \/ hook_start \/ hook_ringoff
  \/ hook_wink \/ hook_flash \/ hook_wait \/ hook_interrupted
  \/ dial_append \/ dial_replace \/ dial_cancel
  \/ setsigfreeze \/ close_channel \/ initialize_channel

Line == hooksig \/ rbsbits \/ rbsbits_locked

(* The states whose end looks at what the other party did meanwhile. *)
Looks == {"DEBOUNCE", "KEWL", "AFTERKEWL"}

(* A call that leaves such a state before its end, while the application   *)
(* believes the other party off hook, makes that look go missing.          *)
Remember ==
  cut' = (gotgs' /\ (cut \/ (txstate \in Looks /\ txstate' \notin Looks \cup {"OFFHOOK"})))

Next == (transmit \/ receive \/ Call \/ Line) /\ Remember

Spec == Init /\ [][Next]_vars

-----------------------------------------------------------------------------
(* Properties *)

TypeOK ==
  /\ port \in Ports
  /\ txstate \in {"ONHOOK", "OFFHOOK", "START", "PREWINK", "WINK", "PREFLASH", "FLASH",
                  "DEBOUNCE", "AFTERSTART", "RINGON", "RINGOFF", "KEWL", "AFTERKEWL",
                  "PULSEBREAK", "PULSEMAKE", "PULSEAFTER"}
  /\ txhooksig \in {"ONHOOK", "OFFHOOK", "START", "KEWL"}
  /\ otimer \in Nat /\ cadencepos \in 0 .. MAX_CADENCE - 1
  /\ dialing \in BOOLEAN /\ txdialbuf \in Seq(Digits) /\ pdialcount \in Nat
  /\ rxhooksig \in Signals \cup {"INITIAL"}
  /\ itimer \in 0 .. itimerset /\ itimerset \in Nat
  /\ gotgs \in BOOLEAN /\ kewlonhook \in BOOLEAN
  /\ pulsecount \in 0 .. MaxPulses /\ pulsetimer \in 0 .. T.pulsetimeout
  /\ ringdebtimer \in 0 .. T.ringdebounce /\ ringtrailer \in 0 .. T.ringtrailer
  /\ rxsig \in SUBSET {"A", "B"} /\ incoming \in SUBSET {"A", "B"} \cup {NoBits}
  /\ open \in BOOLEAN /\ nonblock \in BOOLEAN /\ frozen \in BOOLEAN
  /\ call \in {"none"} \cup Hooks \cup Waits
  /\ asleep \in BOOLEAN /\ received \in BOOLEAN /\ cut \in BOOLEAN

(* The transmit side never gets stuck in a passing state, whatever calls   *)
(* and line changes come when: every state but on hook and off hook runs   *)
(* under otimer ("Move to the next timer state").                          *)
TransientHasTimer == otimer = 0 <=> txstate \in Steady

(* What the line shows is what the state says.                             *)
LineMatchesState ==
  txhooksig =
    IF txstate \in {"START", "RINGON"} THEN "START"
    ELSE IF txstate = "KEWL" THEN "KEWL"
    ELSE IF txstate \in {"ONHOOK", "PREWINK", "FLASH", "AFTERKEWL", "PULSEBREAK"} THEN "ONHOOK"
    ELSE "OFFHOOK"

(* With a cadence of as many silences as rings, the ringer is on in the    *)
(* even entries and off in the odd ones ("0=on, 1=off", user.h).           *)
CadencePhase ==
  /\ txstate = "RINGON" => cadencepos % 2 = 0
  /\ txstate = "RINGOFF" => cadencepos % 2 = 1

(* A dialer at work always has a timer to end it (DIALCOMPLETE).           *)
DialingAdvances == dialing => txstate \in {"PULSEBREAK", "PULSEMAKE", "PULSEAFTER"}

(* Pulses of the line that are counted will be told as a digit: the time   *)
(* for the next one runs.                                                  *)
PulseTrainEnds == pulsecount > 0 => pulsetimer > 0

(* No digit that is being dialled or received is left in the middle. *)
DigitsEnd == DialingAdvances /\ PulseTrainEnds

(* A telephone that hung up, though the application still believes it off  *)
(* hook, will be told of: a flash time, or a debounce or kewl time that    *)
(* ends with a look at the line, is running; unless a call cut it short.   *)
OnhookPending ==
  sig \in FXO /\ gotgs /\ rxhooksig = "ONHOOK" /\ ~cut =>
    itimer > 0 \/ txstate \in Looks

(* DAHDI_EVENT_ONHOOK is never queued for a line that is off hook ("if     *)
(* FXO, its definitely on hook"), but for a ground start seized meanwhile. *)
OnhookIsReal ==
  [][ "ONHOOK" \in event' /\ sig # "FXOGS" => rxhooksig' = "ONHOOK" ]_vars

(* An E&M trunk rings only when the far end is off hook ("otherwise, its   *)
(* definitely off hook").                                                  *)
OffhookIsReal ==
  [][ "RINGOFFHOOK" \in event' /\ sig = "EM" => rxhooksig' = "OFFHOOK" ]_vars

(* A thread asleep in a wink or a flash is never left there: what it waits *)
(* for has not come, and the state that will bring it runs under otimer.   *)
SleeperWillWake ==
  asleep =>
    \/ call = "until_onhook" /\ txstate \in {"PREWINK", "WINK"}
    \/ call = "until_offhook" /\ txstate \in {"PREFLASH", "FLASH"}
=============================================================================
