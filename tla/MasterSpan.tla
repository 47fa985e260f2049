----------------------------- MODULE MasterSpan -----------------------------
(***************************************************************************)
(* Which span's interrupt drives the rounds of _process_masterspan, and    *)
(* what happens when it stops (dahdi-base.c).  A search for a better       *)
(* master holds chan_lock; it is made when a span has been assigned or     *)
(* started, and by a work item when a span goes into or out of alarm.      *)
(* _dahdi_unassign_span makes a choice of its own, reads and writes        *)
(* master_span without the lock, and so in steps.                          *)
(*                                                                         *)
(* The core timer counts the rounds.  It finds none since it last looked:  *)
(* then it runs those that are due itself, soon looks again, and goes on   *)
(* until some span is back.  Otherwise it looks again in a second.  A tick *)
(* is a chunk of a millisecond.  Without CONFIG_DAHDI_CORE_TIMER there is  *)
(* no clock, and no time goes by in the model.                             *)
(***************************************************************************)
EXTENDS SpanList, FiniteSets

CONSTANTS
  NoSpan,
  Digital,       \* the spans with a linecompat
  CannotTime,    \* those with cannot_provide_timing
  Interval,      \* core_timer.interval, in ticks
  OneSecond,     \* ONESEC_INTERVAL
  MS_LIMIT,
  MAX_INTERVAL,
  MaxListed,     \* bound: spans that are assigned at a time, and what
  MaxEvents      \* happens to them in a behaviour, both for a build without
                 \* (FALSE) and with (TRUE) the core timer

ASSUME MasterAssumption ==
  /\ NoSpan \notin Spans
  /\ OneSecond \in Nat /\ MS_LIMIT \in Nat
  /\ Interval \in 1..OneSecond /\ OneSecond < MS_LIMIT
  /\ MAX_INTERVAL \in Nat
  /\ MaxListed \in [BOOLEAN -> Nat] /\ MaxEvents \in [BOOLEAN -> Nat]

VARIABLES
  alarms,       \* spans in alarm
  running,      \* spans with DAHDI_FLAG_RUNNING
  live,         \* spans whose driver calls _dahdi_receive
  master_span,
  finding,      \* find_master_work is scheduled
  reg,          \* what the holder of registration_mutex does, to which span
  new_master,   \* its new_master
  starting,     \* DAHDI_STARTUP is about to search
  owed,         \* the master has yet to do so in this tick
  chosen_by,    \* history: who gave the master last
  core_timer,   \* CONFIG_DAHDI_CORE_TIMER
  elapsed,      \* ticks since core_timer.start_interval
  count, last_count,
  expires,      \* ticks until the core timer expires
  silent,       \* history: ticks since the last round
  events

spanState == <<alarms, running, live>>
choice    == <<master_span, owed, chosen_by>>
threads   == <<finding, reg, new_master, starting>>
clock     == <<core_timer, elapsed, count, last_count, expires, silent>>
masterVars == <<spanVars, spanState, choice, threads, clock, events>>

Idle == [stage |-> "idle", span |-> NoSpan]
Stages == {"search", "read", "read_again", "choose", "write"}

MasterInit ==
  /\ SpansInit
  /\ alarms \in {{}, Digital} /\ running = {} /\ live = Spans
  /\ master_span = NoSpan /\ owed = FALSE /\ chosen_by = "search"
  /\ finding = FALSE /\ reg = Idle /\ new_master = NoSpan /\ starting = FALSE
  /\ core_timer \in BOOLEAN
  /\ elapsed = 0 /\ count = 0 /\ last_count = 0 /\ expires = Interval
  /\ silent = 0 /\ events = 0

Event ==
  /\ events < MaxEvents[core_timer]
  /\ events' = events + 1
-----------------------------------------------------------------------------
(* The first span of the list that is in set S. *)
FirstOf(S) ==
  LET i == CHOOSE i \in 1..Len(span_list) :
             /\ span_list[i] \in S
             /\ \A j \in 1..i - 1 : span_list[j] \notin S
  IN  span_list[i]

CanTime == Listed \ CannotTime

(* Not in alarm, and running if it is digital. *)
Healthy == Spans \ (alarms \cup (Digital \ running))

(* master_span = s; the interrupt of s in this tick may or may not have    *)
(* been.                                                                   *)
Becomes(s) ==
  /\ master_span' = s
  /\ owed' \in IF s = master_span THEN {owed}
               ELSE IF s \in live /\ core_timer THEN BOOLEAN ELSE {FALSE}

(* A variant with a plausible slip: the state of the spans is not asked.   *)
find_any_span ==
  LET candidates == CanTime \ {master_span}
  IN  /\ Becomes(IF candidates = {} THEN master_span ELSE FirstOf(candidates))
      /\ chosen_by' = "search"

(* __dahdi_find_master_span: any span when there is no master, another     *)
(* that is healthy when there is one.                                      *)
find_master_span ==
  LET candidates == IF master_span = NoSpan
                      THEN CanTime
                      ELSE (CanTime \cap Healthy) \ {master_span}
  IN  /\ Becomes(IF candidates = {} THEN master_span ELSE FirstOf(candidates))
      /\ chosen_by' = "search"

(* The work item. *)
find_master_work ==
  /\ finding
  /\ find_master_span
  /\ finding' = FALSE
  /\ UNCHANGED <<spanVars, spanState, reg, new_master, starting, clock, events>>

(* dahdi_alarm_notify, when a span goes into or out of alarm. *)
alarm_notify(s) ==
  /\ Event
  /\ alarms' = IF s \in alarms THEN alarms \ {s} ELSE alarms \cup {s}
  /\ finding' = TRUE
  /\ UNCHANGED <<spanVars, running, live, choice, reg, new_master, starting, clock>>

(* A driver stops calling _dahdi_receive, or begins again. *)
driver_stops(s) ==
  /\ Event
  /\ s \in live
  /\ live' = live \ {s}
  /\ owed' = (owed /\ s # master_span)
  /\ UNCHANGED <<spanVars, alarms, running, master_span, chosen_by, threads, clock>>

driver_starts(s) ==
  /\ Event
  /\ s \notin live
  /\ live' = live \cup {s}
  /\ UNCHANGED <<spanVars, alarms, running, choice, threads, clock>>

(* DAHDI_STARTUP, up to its search, and that search. *)
startup(s) ==
  /\ Event
  /\ ~starting
  /\ s \in Listed \ running
  /\ running' = running \cup {s}
  /\ starting' = TRUE
  /\ UNCHANGED <<spanVars, alarms, live, choice, finding, reg, new_master, clock>>

startup_search ==
  /\ starting
  /\ find_master_span
  /\ starting' = FALSE
  /\ UNCHANGED <<spanVars, spanState, finding, reg, new_master, clock, events>>

(* DAHDI_SHUTDOWN of a span; the master stays the master. *)
shutdown(s) ==
  /\ Event
  /\ s \in Listed \cap running
  /\ running' = running \ {s}
  /\ chosen_by' = IF s = master_span THEN "outside" ELSE chosen_by
  /\ UNCHANGED <<spanVars, alarms, live, master_span, owed, threads, clock>>

(* set_master_span, from sysfs. *)
set_master_span(s) ==
  /\ Event
  /\ s \in Listed
  /\ Becomes(s)
  /\ chosen_by' = "outside"
  /\ UNCHANGED <<spanVars, spanState, threads, clock>>
-----------------------------------------------------------------------------
(* _dahdi_assign_span *)
assign(s, r) ==
  /\ reg = Idle /\ Len(span_list) < MaxListed[core_timer]
  /\ list_span(s, r)
  /\ reg' = [stage |-> "search", span |-> s]
  /\ UNCHANGED <<spanState, choice, finding, new_master, starting, clock, events>>

assign_fails(s, r) ==
  /\ reg = Idle /\ Len(span_list) < MaxListed[core_timer]
  /\ list_span_fails(s, r)
  /\ UNCHANGED <<spanState, choice, threads, clock, events>>

assign_search ==
  /\ reg.stage = "search"
  /\ find_master_span
  /\ reg' = Idle
  /\ UNCHANGED <<spanVars, spanState, finding, new_master, starting, clock, events>>

(* dahdi_unassign_span: the alarm NOTOPEN, before the mutex is taken. *)
disable_span(s) ==
  /\ s \in Listed \ alarms
  /\ alarms' = alarms \cup {s}
  /\ finding' = TRUE
  /\ UNCHANGED <<spanVars, running, live, choice, reg, new_master, starting, clock, events>>

(* _dahdi_unassign_span as far as its choice of a new master. *)
unassign(s) ==
  /\ Event
  /\ reg = Idle
  /\ s \in alarms
  /\ unlist_span(s)
  /\ running' = running \ {s}
  /\ reg' = [stage |-> "read", span |-> s]
  /\ UNCHANGED <<alarms, live, choice, finding, new_master, starting, clock>>

Then(stage) == reg' = [reg EXCEPT !.stage = stage]

(* new_master = master_span ("FIXME: locking") *)
unassign_read ==
  /\ reg.stage = "read"
  /\ new_master' = master_span
  /\ Then("read_again")
  /\ UNCHANGED <<spanVars, spanState, choice, finding, starting, clock, events>>

(* NULL when the span was the master. *)
Left == IF master_span = reg.span THEN NoSpan ELSE new_master

unassign_read_again ==
  /\ reg.stage = "read_again"
  /\ new_master' = Left
  /\ Then("choose")
  /\ UNCHANGED <<spanVars, spanState, choice, finding, starting, clock, events>>

(* Under chan_lock: another span that can provide timing, whatever state   *)
(* it is in.                                                               *)
unassign_choose ==
  LET candidates == CanTime \ {new_master}
  IN  /\ reg.stage = "choose"
      /\ new_master' = IF candidates = {} THEN new_master ELSE FirstOf(candidates)
      /\ Then("write")
      /\ UNCHANGED <<spanVars, spanState, choice, finding, starting, clock, events>>

unassign_write ==
  /\ reg.stage = "write"
  /\ Becomes(new_master)
  /\ chosen_by' = "outside"
  /\ new_master' = NoSpan
  /\ reg' = Idle
  /\ UNCHANGED <<spanVars, spanState, finding, starting, clock, events>>
-----------------------------------------------------------------------------
(* _dahdi_receive of the master, which runs the round. *)
process_masterspan ==
  /\ owed
  /\ owed' = FALSE
  /\ count' = count + 1
  /\ silent' = 0
  /\ UNCHANGED <<spanVars, spanState, master_span, chosen_by, threads, core_timer, elapsed, last_count, expires, events>>

(* A millisecond goes by, in which every live span interrupts once. *)
tick ==
  /\ core_timer
  /\ ~owed /\ expires > 0
  /\ elapsed' = elapsed + 1 /\ silent' = silent + 1 /\ expires' = expires - 1
  /\ owed' = (master_span \in live)
  /\ UNCHANGED <<spanVars, spanState, master_span, chosen_by, threads, core_timer, count, last_count, events>>

(* The machine stands still for longer than MS_LIMIT. *)
stall ==
  /\ Event /\ core_timer
  /\ elapsed' = elapsed + MS_LIMIT + 1
  /\ silent' = 0
  /\ expires' = 0
  /\ UNCHANGED <<spanVars, spanState, choice, threads, core_timer, count, last_count>>

(* A variant with a plausible slip: the count goes on. *)
new_time_only ==
  /\ elapsed' = 0 /\ last_count' = 0 /\ UNCHANGED count

new_time_base ==
  /\ elapsed' = 0 /\ count' = 0 /\ last_count' = 0

(* coretimer_func, when no span has run a round since it last ran.  It     *)
(* runs the rounds that are due, or gives up when there are too many.      *)
core_takes_over ==
  /\ expires = 0
  /\ count = last_count
  /\ expires' = Interval
  /\ IF elapsed - count > MS_LIMIT \/ elapsed < count
       THEN new_time_base /\ UNCHANGED silent
       ELSE /\ silent' = IF elapsed > count THEN 0 ELSE silent
            /\ IF elapsed > MAX_INTERVAL
                 THEN new_time_base
                 ELSE count' = elapsed /\ last_count' = elapsed /\ UNCHANGED elapsed
  /\ UNCHANGED <<spanVars, spanState, choice, threads, core_timer, events>>

core_stands_by ==
  /\ expires = 0
  /\ count # last_count
  /\ new_time_base
  /\ expires' = OneSecond
  /\ UNCHANGED <<spanVars, spanState, choice, threads, core_timer, silent, events>>

MasterNext ==
  \/ find_master_work \/ startup_search
  \/ \E s \in Spans :
       \/ alarm_notify(s) \/ driver_stops(s) \/ driver_starts(s)
       \/ startup(s) \/ shutdown(s) \/ set_master_span(s)
       \/ disable_span(s) \/ unassign(s)
       \/ \E r \in Assignments : assign(s, r) \/ assign_fails(s, r)
  \/ assign_search
  \/ unassign_read \/ unassign_read_again \/ unassign_choose \/ unassign_write
  \/ process_masterspan \/ tick \/ stall \/ core_takes_over \/ core_stands_by

MasterSpec == MasterInit /\ [][MasterNext]_masterVars
-----------------------------------------------------------------------------
(* The master is on span_list, or about to be replaced: nothing waits for  *)
(* the interrupt of a span that is gone, and no freed span is compared.    *)
MasterListed ==
  \/ master_span \in Listed \cup {NoSpan}
  \/ reg.span = master_span /\ reg.stage # "search"

(* After a search nothing is better than the master: it is healthy if any  *)
(* span that can provide timing is, unless another search is to come.      *)
MasterHealthy ==
  ~finding /\ ~starting /\ reg = Idle /\ chosen_by = "search"
    /\ CanTime \cap Healthy # {} => master_span \in Healthy

(* The clock everyone depends on is there, and the best there is.          *)
MasterSound == MasterListed /\ MasterHealthy

(* "If a hardware timing source either cannot be found or stops providing  *)
(* timing during runtime, DAHDI will automatically use the host timer"     *)
(* (README): no two seconds go by without a round.                         *)
NeverSilent == silent <= 2 * OneSecond
=============================================================================
