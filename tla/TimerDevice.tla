----------------------------- MODULE TimerDevice -----------------------------
(***************************************************************************)
(* The timers of /dev/dahdi/timer (dahdi-base.c).  Every open file has a   *)
(* timer; the configured ones are on the kernel list dahdi_timers, which   *)
(* process_timers walks once per chunk with dahdi_timer_lock held.         *)
(*                                                                         *)
(* The lock order is dahdi_timer_lock, then timer->lock, so TIMERCONFIG,   *)
(* which learns under timer->lock that the list has to change, drops that  *)
(* lock and takes both: two steps.  The list is kept as the kernel keeps   *)
(* it, as links that list_add and list_del_init rewrite.                   *)
(***************************************************************************)
EXTENDS Integers

CONSTANTS
  Timers,       \* one per open file of /dev/dahdi/timer
  Threads,
  FileOf,       \* thread -> the timer of the file it uses
  Periods,      \* the samples TIMERCONFIG may ask for; below 1 disarms
  CHUNKSIZE,    \* DAHDI_CHUNKSIZE
  MaxTripped,   \* bound: no walk starts when a timer has so many outstanding
  Head,         \* dahdi_timers itself
  None

ASSUME TimerAssumption ==
  /\ Head \notin Timers /\ None \notin Timers \cup {Head}
  /\ FileOf \in [Threads -> Timers]
  /\ Periods \subseteq Int
  /\ CHUNKSIZE \in Nat /\ CHUNKSIZE >= 1
  /\ MaxTripped \in Nat

VARIABLES
  next, prev,   \* the links of struct list_head, of the timers and the head
  ms, pos,      \* timer -> its period and what is left of it, in samples
  tripped,      \* timer -> expirations nobody acknowledged
  ping,         \* timer -> whether it has been pinged
  cursor,       \* the entry process_timers is at, None between its walks
  pc, arg,      \* thread -> where it is, and the period it configures
  elapsed       \* history: timer -> samples since it was set or expired

list    == <<next, prev>>
clocks  == <<ms, pos, elapsed>>
threads == <<pc, arg>>
vars    == <<list, clocks, tripped, ping, cursor, threads>>

Nodes == Timers \cup {Head}
Places == {"idle", "activate", "disable", "poll", "asleep"}

(* A variant with a plausible slip: dahdi_timer_lock not taken. *)
NotLocked == TRUE

(* Whether dahdi_timer_lock can be taken: process_timers does not hold it. *)
Free == cursor = None

list_empty(n) == next[n] = n

(* A variant with a plausible slip: removed, but not made an empty list. *)
list_del(n) ==
  LET before == prev[n]
      after  == next[n]
  IN  /\ next' = [next EXCEPT ![before] = after]
      /\ prev' = [prev EXCEPT ![after] = before]

(* list_del_init(n): unlink n and make it a list of its own. *)
list_del_init(n) ==
  LET before == prev[n]
      after  == next[n]
  IN  /\ next' = [next EXCEPT ![before] = after, ![n] = n]
      /\ prev' = [prev EXCEPT ![after] = before, ![n] = n]

(* list_add(n, &dahdi_timers), in the order of its four assignments. *)
list_add(n) ==
  LET first == next[Head]
  IN  /\ prev' = [[prev EXCEPT ![first] = n] EXCEPT ![n] = Head]
      /\ next' = [[next EXCEPT ![n] = first] EXCEPT ![Head] = n]

(* A variant with a plausible slip: nobody told. *)
NoWake(n) == pc

(* wake_up_interruptible(&timer->sel) *)
Wake(n) == [t \in Threads |-> IF FileOf[t] = n /\ pc[t] = "asleep" THEN "poll" ELSE pc[t]]

(* A variant with a plausible slip: an expiration one chunk too late. *)
ExpiresLate(left) == left < 0

(* process_timers: whether a timer with this much left expires. *)
Expires(left) == left <= 0

(* DAHDI_TIMERACK: how many expirations an acknowledgement of j takes off. *)
Acked(n, j) == IF j < 1 \/ j > tripped[n] THEN tripped[n] ELSE j

-----------------------------------------------------------------------------
(* process_timers, run by the master span's interrupt once per chunk *)

walk_start ==
  /\ Free /\ ~list_empty(Head)
  /\ \A n \in Timers : tripped[n] < MaxTripped
  /\ cursor' = next[Head]
  /\ UNCHANGED <<list, clocks, tripped, ping, threads>>

walk_entry ==
  LET n    == cursor
      left == pos[n] - CHUNKSIZE
  IN
  /\ cursor \in Timers
  /\ IF Expires(left)
     THEN /\ tripped' = [tripped EXCEPT ![n] = @ + 1]
          /\ pos' = [pos EXCEPT ![n] = ms[n]]
          /\ elapsed' = [elapsed EXCEPT ![n] = 0]
          /\ pc' = Wake(n)
     ELSE /\ pos' = [pos EXCEPT ![n] = left]
          /\ elapsed' = [elapsed EXCEPT ![n] = @ + CHUNKSIZE]
          /\ UNCHANGED <<tripped, pc>>
  /\ cursor' = IF next[n] = Head THEN None ELSE next[n]
  /\ UNCHANGED <<list, ms, ping, arg>>

-----------------------------------------------------------------------------
(* ioctls and poll() *)

Set(n, j) ==
  /\ ms' = [ms EXCEPT ![n] = j]
  /\ pos' = [pos EXCEPT ![n] = j]
  /\ elapsed' = [elapsed EXCEPT ![n] = 0]

(* DAHDI_TIMERCONFIG up to where timer->lock is dropped. *)
timerconfig(t) ==
  LET n == FileOf[t]
  IN
  /\ pc[t] = "idle"
  /\ \E period \in Periods :
       LET j == IF period < 0 THEN 0 ELSE period
       IN  \/ ms[n] = j /\ UNCHANGED <<clocks, threads>>
           \/ /\ ms[n] # j /\ (j # 0) = list_empty(n)
              /\ pc' = [pc EXCEPT ![t] = IF j # 0 THEN "activate" ELSE "disable"]
              /\ arg' = [arg EXCEPT ![t] = j]
              /\ UNCHANGED clocks
           \/ /\ ms[n] # j /\ (j # 0) # list_empty(n)
              /\ Set(n, j)
              /\ UNCHANGED threads
  /\ UNCHANGED <<list, tripped, ping, cursor>>

(* "The timer is being activated so add to the global timer list." *)
activate(t) ==
  /\ pc[t] = "activate" /\ Free
  /\ Set(FileOf[t], arg[t])
  /\ list_add(FileOf[t])
  /\ pc' = [pc EXCEPT ![t] = "idle"]
  /\ UNCHANGED <<tripped, ping, cursor, arg>>

(* "The timer is being disabled so we can remove from the global timer list." *)
disable(t) ==
  /\ pc[t] = "disable" /\ Free
  /\ list_del_init(FileOf[t])
  /\ Set(FileOf[t], arg[t])
  /\ pc' = [pc EXCEPT ![t] = "idle"]
  /\ UNCHANGED <<tripped, ping, cursor, arg>>

timerack(t) ==
  LET n == FileOf[t]
  IN
  /\ pc[t] = "idle"
  /\ \E j \in 0 .. MaxTripped :
       tripped' = [tripped EXCEPT ![n] = @ - Acked(n, j)]
  /\ UNCHANGED <<list, clocks, ping, cursor, threads>>

timerping(t) ==
  /\ pc[t] = "idle"
  /\ ping' = [ping EXCEPT ![FileOf[t]] = TRUE]
  /\ pc' = Wake(FileOf[t])
  /\ UNCHANGED <<list, clocks, tripped, cursor, arg>>

timerpong(t) ==
  /\ pc[t] = "idle"
  /\ ping' = [ping EXCEPT ![FileOf[t]] = FALSE]
  /\ UNCHANGED <<list, clocks, tripped, cursor, threads>>

(* poll(): queue on timer->sel, then look; sleep when there is nothing. *)
poll(t) ==
  LET n == FileOf[t]
  IN
  /\ pc[t] \in {"idle", "poll"}
  /\ pc' = [pc EXCEPT ![t] = IF tripped[n] > 0 \/ ping[n] THEN "idle" ELSE "asleep"]
  /\ UNCHANGED <<list, clocks, tripped, ping, cursor, arg>>

(* A signal or the timeout of poll(). *)
poll_ends(t) ==
  /\ pc[t] = "asleep"
  /\ pc' = [pc EXCEPT ![t] = "idle"]
  /\ UNCHANGED <<list, clocks, tripped, ping, cursor, arg>>

(* The last close of the file, with no other call on it, and the next      *)
(* open: the timer is unlinked and freed, and a fresh one takes its place. *)
release(n) ==
  /\ \A t \in Threads : FileOf[t] = n => pc[t] = "idle"
  /\ IF list_empty(n) THEN UNCHANGED list ELSE Free /\ list_del_init(n)
  /\ Set(n, 0)
  /\ tripped' = [tripped EXCEPT ![n] = 0]
  /\ ping' = [ping EXCEPT ![n] = FALSE]
  /\ UNCHANGED <<cursor, threads>>

-----------------------------------------------------------------------------
Init ==
  /\ next = [n \in Nodes |-> n] /\ prev = [n \in Nodes |-> n]
  /\ ms = [n \in Timers |-> 0] /\ pos = [n \in Timers |-> 0]
  /\ tripped = [n \in Timers |-> 0] /\ ping = [n \in Timers |-> FALSE]
  /\ cursor = None
  /\ pc = [t \in Threads |-> "idle"] /\ arg = [t \in Threads |-> 0]
  /\ elapsed = [n \in Timers |-> 0]

Call(t) ==
  \/ timerconfig(t) \/ activate(t) \/ disable(t)
  \/ timerack(t) \/ timerping(t) \/ timerpong(t) \/ poll(t) \/ poll_ends(t)

Next ==
  \/ walk_start \/ walk_entry
  \/ \E t \in Threads : Call(t)
  \/ \E n \in Timers : release(n)

Spec == Init /\ [][Next]_vars

(* The interrupt's handler runs on, and the kernel runs a woken thread. *)
Fairness ==
  /\ WF_vars(walk_entry)
  /\ \A t \in Threads : WF_vars(pc[t] = "poll" /\ poll(t))

FairSpec == Spec /\ Fairness

-----------------------------------------------------------------------------
(* Properties *)

TypeOK ==
  /\ next \in [Nodes -> Nodes] /\ prev \in [Nodes -> Nodes]
  /\ ms \in [Timers -> Nat] /\ pos \in [Timers -> Nat]
  /\ tripped \in [Timers -> 0 .. MaxTripped] /\ ping \in [Timers -> BOOLEAN]
  /\ cursor \in Timers \cup {None}
  /\ pc \in [Threads -> Places]
  /\ arg \in [Threads -> Nat] /\ elapsed \in [Timers -> Nat]

(* Every node's neighbours point back at it.                               *)
LinksAgree == \A n \in Nodes : next[prev[n]] = n /\ prev[next[n]] = n

(* From every timer on the list the links lead to the head: there is no    *)
(* set of listed timers that process_timers would walk for ever.           *)
NoLoop ==
  \A S \in SUBSET Timers :
    S # {} /\ (\A n \in S : ~list_empty(n)) => \E n \in S : next[n] \notin S

(* dahdi_timers is one ring: no list_add or list_del_init ran on a timer   *)
(* that was not where TIMERCONFIG or the close took it to be.              *)
ListIntact == LinksAgree /\ NoLoop

(* The global timer list holds the configured timers and no other one      *)
(* ("add to the global timer list", "remove from the global timer list").  *)
ListedIffSet == \A n \in Timers : list_empty(n) <=> ms[n] = 0

(* The walk of the interrupt meets every configured timer, once, and ends. *)
ListSound == ListIntact /\ ListedIffSet

(* The entry that process_timers is at stays on the list: no call unlinks, *)
(* or frees, a timer under the walk.                                       *)
WalkStaysOnList == cursor # None => ~list_empty(cursor)

(* "Set timer expiration (in samples)" (user.h): a timer expires in the    *)
(* first chunk that completes its period and in no earlier one.            *)
ExpiresOnTime ==
  /\ [](\A n \in Timers : ms[n] # 0 => elapsed[n] < ms[n])
  /\ [][\A n \in Timers : tripped'[n] > tripped[n] => elapsed[n] + CHUNKSIZE >= ms[n]]_vars

(* process_timers comes to the end of its walk.                            *)
WalkEnds == cursor # None ~> cursor = None

(* A thread asleep in poll() on an expired or pinged timer is woken.       *)
PollerWoken ==
  \A t \in Threads :
    pc[t] = "asleep" /\ (tripped[FileOf[t]] > 0 \/ ping[FileOf[t]]) ~> pc[t] # "asleep"

(* Nobody waits for a timer in vain. *)
TimersServed == WalkEnds /\ PollerWoken
=============================================================================
