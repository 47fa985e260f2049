---------------------------- MODULE TimerProofs -----------------------------
(* Why the list of timers stays whole when every open file of              *)
(* /dev/dahdi/timer is used by one thread.                                 *)
EXTENDS TimerDevice, TLAPS

OneThreadPerFile == \A t, u \in Threads : FileOf[t] = FileOf[u] => t = u

(* The decision a thread made under timer->lock still holds when it has    *)
(* taken both locks.                                                       *)
DecisionHolds ==
  \A t \in Threads :
    /\ pc[t] = "activate" => list_empty(FileOf[t]) /\ arg[t] # 0
    /\ pc[t] = "disable" => ~list_empty(FileOf[t]) /\ arg[t] = 0

TimerInv ==
  /\ next \in [Nodes -> Nodes] /\ prev \in [Nodes -> Nodes]
  /\ ms \in [Timers -> Int]
  /\ pc \in [Threads -> Places] /\ arg \in [Threads -> Int]
  /\ cursor \in Timers \cup {None}
  /\ ListIntact
  /\ ListedIffSet
  /\ DecisionHolds
  /\ WalkStaysOnList

USE TimerAssumption DEF TimerAssumption

LEMMA TimerInvInit == Init => TimerInv
<1> SUFFICES ASSUME Init PROVE TimerInv
  OBVIOUS
<1>1. /\ next \in [Nodes -> Nodes] /\ prev \in [Nodes -> Nodes]
      /\ ms \in [Timers -> Int]
      /\ pc \in [Threads -> Places] /\ arg \in [Threads -> Int]
      /\ cursor \in Timers \cup {None}
  BY DEF Init, Places
<1>2. ListIntact /\ ListedIffSet
  BY DEF Init, ListIntact, LinksAgree, NoLoop, ListedIffSet, list_empty, Nodes
<1>3. DecisionHolds /\ WalkStaysOnList
  BY DEF Init, DecisionHolds, WalkStaysOnList
<1>4. QED
  BY <1>1, <1>2, <1>3 DEF TimerInv

-----------------------------------------------------------------------------
(* The list operations *)

(* list_add of a node that is on no list keeps the ring whole, puts the    *)
(* node on it and changes the membership of no other.                      *)
LEMMA ListAdd ==
  ASSUME next \in [Nodes -> Nodes], prev \in [Nodes -> Nodes], ListIntact,
         NEW n \in Timers, list_empty(n), list_add(n)
  PROVE  /\ next' \in [Nodes -> Nodes] /\ prev' \in [Nodes -> Nodes]
         /\ ListIntact'
         /\ ~list_empty(n)'
         /\ \A m \in Timers : m # n => (list_empty(m)' <=> list_empty(m))
<1> DEFINE first == next[Head]
<1>1. /\ n \in Nodes /\ Head \in Nodes /\ first \in Nodes /\ n # Head
      /\ next[n] = n /\ prev[n] = n /\ prev[first] = Head
  BY DEF Nodes, list_empty, ListIntact, LinksAgree
<1>2. first # n
  BY <1>1
<1>3. /\ next' = [[next EXCEPT ![n] = first] EXCEPT ![Head] = n]
      /\ prev' = [[prev EXCEPT ![first] = n] EXCEPT ![n] = Head]
  BY DEF list_add
<1>4. next' \in [Nodes -> Nodes] /\ prev' \in [Nodes -> Nodes]
  BY <1>1, <1>3
<1>5. /\ next'[n] = first /\ next'[Head] = n
      /\ prev'[n] = Head /\ prev'[first] = n
      /\ \A m \in Nodes : m # n /\ m # Head => next'[m] = next[m]
      /\ \A m \in Nodes : m # n /\ m # first => prev'[m] = prev[m]
  BY <1>1, <1>2, <1>3
<1>6. LinksAgree'
  <2> SUFFICES ASSUME NEW m \in Nodes PROVE next'[prev'[m]] = m /\ prev'[next'[m]] = m
    BY DEF LinksAgree
  <2>1. next[prev[m]] = m /\ prev[next[m]] = m /\ prev[m] \in Nodes /\ next[m] \in Nodes
    BY DEF ListIntact, LinksAgree
  <2>2. next'[prev'[m]] = m
    <3>1. CASE m = n \/ m = first
      BY <1>5, <3>1
    <3>2. CASE m # n /\ m # first
      <4>1. prev'[m] = prev[m] /\ prev[m] # n /\ prev[m] # Head
        BY <1>1, <1>5, <2>1, <3>2
      <4>2. QED
        BY <1>5, <2>1, <4>1
    <3>3. QED
      BY <3>1, <3>2
  <2>3. prev'[next'[m]] = m
    <3>1. CASE m = n \/ m = Head
      BY <1>5, <3>1
    <3>2. CASE m # n /\ m # Head
      <4>1. next'[m] = next[m] /\ next[m] # n /\ next[m] # first
        BY <1>1, <1>5, <2>1, <3>2
      <4>2. QED
        BY <1>5, <2>1, <4>1
    <3>3. QED
      BY <3>1, <3>2
  <2>4. QED
    BY <2>2, <2>3
<1>7. ~list_empty(n)' /\ \A m \in Timers : m # n => (list_empty(m)' <=> list_empty(m))
  BY <1>2, <1>5 DEF list_empty, Nodes
<1>8. NoLoop'
  <2> SUFFICES ASSUME NEW S \in SUBSET Timers, S # {}, \A m \in S : ~list_empty(m)'
               PROVE  \E m \in S : next'[m] \notin S
    BY DEF NoLoop
  <2> DEFINE R == S \ {n}
  <2>1. CASE R = {}
    BY <1>2, <1>5, <2>1
  <2>2. CASE R # {}
    <3>1. \A m \in R : ~list_empty(m)
      BY <1>7
    <3>2. PICK m \in R : next[m] \notin R
      BY <2>2, <3>1 DEF ListIntact, NoLoop
    <3>3. next'[m] = next[m] /\ next[m] # n
      BY <1>1, <1>5, <3>2 DEF Nodes, ListIntact, LinksAgree
    <3>4. QED
      BY <3>2, <3>3
  <2>3. QED
    BY <2>1, <2>2
<1>9. QED
  BY <1>4, <1>6, <1>7, <1>8 DEF ListIntact

(* list_del_init of a node that is on the list keeps the ring whole, takes *)
(* the node off and changes the membership of no other.                    *)
LEMMA ListDelInit ==
  ASSUME next \in [Nodes -> Nodes], prev \in [Nodes -> Nodes], ListIntact,
         NEW n \in Timers, ~list_empty(n), list_del_init(n)
  PROVE  /\ next' \in [Nodes -> Nodes] /\ prev' \in [Nodes -> Nodes]
         /\ ListIntact'
         /\ list_empty(n)'
         /\ \A m \in Timers : m # n => (list_empty(m)' <=> list_empty(m))
<1> DEFINE before == prev[n]
           after  == next[n]
<1>1. /\ n \in Nodes /\ before \in Nodes /\ after \in Nodes
      /\ next[before] = n /\ prev[after] = n /\ before # n /\ after # n
  BY DEF Nodes, list_empty, ListIntact, LinksAgree
<1>2. /\ next' = [next EXCEPT ![before] = after, ![n] = n]
      /\ prev' = [prev EXCEPT ![after] = before, ![n] = n]
  BY DEF list_del_init
<1>3. next' \in [Nodes -> Nodes] /\ prev' \in [Nodes -> Nodes]
  BY <1>1, <1>2
<1>4. /\ next'[n] = n /\ next'[before] = after
      /\ prev'[n] = n /\ prev'[after] = before
      /\ \A m \in Nodes : m # n /\ m # before => next'[m] = next[m]
      /\ \A m \in Nodes : m # n /\ m # after => prev'[m] = prev[m]
  BY <1>1, <1>2
<1>5. LinksAgree'
  <2> SUFFICES ASSUME NEW m \in Nodes PROVE next'[prev'[m]] = m /\ prev'[next'[m]] = m
    BY DEF LinksAgree
  <2>1. next[prev[m]] = m /\ prev[next[m]] = m /\ prev[m] \in Nodes /\ next[m] \in Nodes
    BY DEF ListIntact, LinksAgree
  <2>2. next'[prev'[m]] = m
    <3>1. CASE m = n \/ m = after
      BY <1>4, <3>1
    <3>2. CASE m # n /\ m # after
      <4>1. prev'[m] = prev[m] /\ prev[m] # n /\ prev[m] # before
        BY <1>1, <1>4, <2>1, <3>2
      <4>2. QED
        BY <1>4, <2>1, <4>1
    <3>3. QED
      BY <3>1, <3>2
  <2>3. prev'[next'[m]] = m
    <3>1. CASE m = n \/ m = before
      BY <1>4, <3>1
    <3>2. CASE m # n /\ m # before
      <4>1. next'[m] = next[m] /\ next[m] # n /\ next[m] # after
        BY <1>1, <1>4, <2>1, <3>2
      <4>2. QED
        BY <1>4, <2>1, <4>1
    <3>3. QED
      BY <3>1, <3>2
  <2>4. QED
    BY <2>2, <2>3
<1>6. ASSUME NEW m \in Timers, m # n PROVE list_empty(m)' <=> list_empty(m)
  <2>1. CASE m # before
    BY <1>4, <1>6, <2>1 DEF list_empty, Nodes
  <2>2. CASE m = before
    <3>1. after # m
      <4> SUFFICES ASSUME after = m PROVE FALSE
        OBVIOUS
      <4>1. {n, m} \in SUBSET Timers /\ {n, m} # {} /\ \A k \in {n, m} : ~list_empty(k)
        BY <1>1, <1>6, <2>2 DEF list_empty
      <4>2. \E k \in {n, m} : next[k] \notin {n, m}
        BY <4>1 DEF ListIntact, NoLoop
      <4>3. QED
        BY <1>1, <2>2, <4>2
    <3>2. QED
      BY <1>1, <1>4, <1>6, <2>2, <3>1 DEF list_empty
  <2>3. QED
    BY <2>1, <2>2
<1>7. NoLoop'
  <2> SUFFICES ASSUME NEW S \in SUBSET Timers, S # {}, \A m \in S : ~list_empty(m)'
               PROVE  \E m \in S : next'[m] \notin S
    BY DEF NoLoop
  <2>1. n \notin S /\ \A m \in S : ~list_empty(m)
    BY <1>4, <1>6 DEF list_empty
  <2>2. CASE before \notin S
    <3>1. PICK m \in S : next[m] \notin S
      BY <2>1 DEF ListIntact, NoLoop
    <3>2. next'[m] = next[m]
      BY <1>4, <2>1, <2>2, <3>1 DEF Nodes
    <3>3. QED
      BY <3>1, <3>2
  <2>3. CASE before \in S
    <3> DEFINE R == S \cup {n}
    <3>1. R \in SUBSET Timers /\ R # {} /\ \A m \in R : ~list_empty(m)
      BY <2>1
    <3>2. PICK m \in R : next[m] \notin R
      BY <3>1 DEF ListIntact, NoLoop
    <3>3. CASE m = n
      BY <1>4, <2>3, <3>2, <3>3
    <3>4. CASE m # n
      <4>1. m # before /\ m \in S
        BY <1>1, <3>2, <3>4
      <4>2. next'[m] = next[m]
        BY <1>4, <3>4, <4>1 DEF Nodes
      <4>3. QED
        BY <3>2, <4>1, <4>2
    <3>5. QED
      BY <3>3, <3>4
  <2>4. QED
    BY <2>2, <2>3
<1>8. list_empty(n)'
  BY <1>4 DEF list_empty
<1>9. QED
  BY <1>3, <1>5, <1>6, <1>7, <1>8 DEF ListIntact

-----------------------------------------------------------------------------
(* The steps *)

(* Steps that leave the list, the periods and the walk alone.              *)
LEMMA TimerInvKept ==
  ASSUME TimerInv, UNCHANGED <<next, prev, ms, cursor>>,
         pc' \in [Threads -> Places], arg' \in [Threads -> Int], DecisionHolds'
  PROVE  TimerInv'
BY DEF TimerInv, ListIntact, LinksAgree, NoLoop, ListedIffSet, WalkStaysOnList, list_empty

(* Wake leaves the threads that are about to change the list alone.        *)
LEMMA TimerInvWake ==
  ASSUME TimerInv, NEW n \in Timers, pc' = Wake(n) \/ pc' = pc,
         UNCHANGED <<next, arg>>
  PROVE  pc' \in [Threads -> Places] /\ DecisionHolds'
<1>1. pc \in [Threads -> Places] /\ DecisionHolds
  BY DEF TimerInv
<1>2. \A t \in Threads : pc'[t] = pc[t] \/ pc'[t] = "poll"
  BY <1>1 DEF Wake
<1>3. pc' \in [Threads -> Places]
  BY <1>1 DEF Wake, Places
<1>4. DecisionHolds'
  BY <1>1, <1>2 DEF DecisionHolds, list_empty
<1>5. QED
  BY <1>3, <1>4

LEMMA TimerInvWalk ==
  ASSUME TimerInv, walk_start \/ walk_entry
  PROVE  TimerInv'
<1>1. UNCHANGED <<next, prev, ms, arg>>
  BY DEF walk_start, walk_entry, list, clocks, threads
<1>2. pc' \in [Threads -> Places] /\ DecisionHolds'
  <2>1. PICK n \in Timers : pc' = Wake(n) \/ pc' = pc
    <3>1. CASE walk_start
      <4>1. next[Head] \in Timers
        BY <3>1 DEF walk_start, TimerInv, Nodes, list_empty
      <4>2. QED
        BY <3>1, <4>1 DEF walk_start, threads
    <3>2. CASE walk_entry
      BY <3>2 DEF walk_entry
    <3>3. QED
      BY <3>1, <3>2
  <2>2. QED
    BY <1>1, <2>1, TimerInvWake
<1>3. cursor' \in Timers \cup {None} /\ WalkStaysOnList'
  <2>1. CASE walk_start
    <3>1. next[Head] \in Timers /\ cursor' = next[Head]
      BY <2>1 DEF walk_start, TimerInv, Nodes, list_empty
    <3>2. ~list_empty(next[Head])
      BY <3>1 DEF TimerInv, ListIntact, LinksAgree, Nodes, list_empty
    <3>3. QED
      BY <1>1, <3>1, <3>2 DEF WalkStaysOnList, list_empty
  <2>2. CASE walk_entry
    <3>1. cursor \in Timers /\ ~list_empty(cursor) /\ next[cursor] \in Nodes
      BY <2>2 DEF walk_entry, TimerInv, WalkStaysOnList, Nodes
    <3>2. ~list_empty(next[cursor])
      BY <3>1 DEF TimerInv, ListIntact, LinksAgree, Nodes, list_empty
    <3>3. cursor' = IF next[cursor] = Head THEN None ELSE next[cursor]
      BY <2>2 DEF walk_entry
    <3>4. QED
      BY <1>1, <3>1, <3>2, <3>3 DEF WalkStaysOnList, list_empty, Nodes
  <2>3. QED
    BY <2>1, <2>2
<1>4. QED
  BY <1>1, <1>2, <1>3
  DEF TimerInv, ListIntact, LinksAgree, NoLoop, ListedIffSet, list_empty

LEMMA TimerInvConfig ==
  ASSUME TimerInv, OneThreadPerFile, NEW t \in Threads, timerconfig(t)
  PROVE  TimerInv'
<1> DEFINE n == FileOf[t]
<1>1. /\ n \in Timers /\ pc[t] = "idle" /\ pc \in [Threads -> Places] /\ arg \in [Threads -> Int]
      /\ ms \in [Timers -> Int] /\ DecisionHolds
      /\ UNCHANGED <<next, prev, cursor>>
  BY DEF timerconfig, TimerInv, list
<1>2. PICK period \in Periods :
        LET j == IF period < 0 THEN 0 ELSE period
        IN  \/ ms[n] = j /\ UNCHANGED <<clocks, threads>>
            \/ /\ ms[n] # j /\ (j # 0) = list_empty(n)
               /\ pc' = [pc EXCEPT ![t] = IF j # 0 THEN "activate" ELSE "disable"]
               /\ arg' = [arg EXCEPT ![t] = j]
               /\ UNCHANGED clocks
            \/ /\ ms[n] # j /\ (j # 0) # list_empty(n)
               /\ Set(n, j)
               /\ UNCHANGED threads
  BY DEF timerconfig
<1> DEFINE j == IF period < 0 THEN 0 ELSE period
<1>3. j \in Int
  BY <1>2
<1>4. CASE UNCHANGED <<clocks, threads>>
  <2>1. UNCHANGED <<ms, pc, arg>>
    BY <1>4 DEF clocks, threads
  <2>2. QED
    BY <1>1, <2>1, TimerInvKept DEF DecisionHolds, list_empty
<1>5. CASE /\ (j # 0) = list_empty(n)
           /\ pc' = [pc EXCEPT ![t] = IF j # 0 THEN "activate" ELSE "disable"]
           /\ arg' = [arg EXCEPT ![t] = j]
           /\ UNCHANGED clocks
  <2>1. pc' \in [Threads -> Places] /\ arg' \in [Threads -> Int] /\ ms' = ms
    BY <1>1, <1>3, <1>5 DEF Places, clocks
  <2>2. (j # 0) <=> list_empty(n)
    BY <1>5
  <2>3. DecisionHolds'
    <3> SUFFICES ASSUME NEW u \in Threads
                 PROVE  /\ pc'[u] = "activate" => list_empty(FileOf[u])' /\ arg'[u] # 0
                        /\ pc'[u] = "disable" => ~list_empty(FileOf[u])' /\ arg'[u] = 0
      BY DEF DecisionHolds
    <3>1. CASE u = t
      BY <1>1, <1>5, <2>2, <3>1 DEF list_empty
    <3>2. CASE u # t
      BY <1>1, <1>5, <3>2 DEF DecisionHolds, list_empty
    <3>3. QED
      BY <3>1, <3>2
  <2>4. QED
    BY <1>1, <2>1, <2>3, TimerInvKept
<1>6. CASE ms[n] # j /\ (j # 0) # list_empty(n) /\ Set(n, j) /\ UNCHANGED threads
  <2>1. ms' = [ms EXCEPT ![n] = j] /\ pc' = pc /\ arg' = arg /\ ~((j # 0) <=> list_empty(n))
    BY <1>6 DEF Set, threads, list_empty
  <2>2. ListedIffSet'
    BY <1>1, <2>1 DEF TimerInv, ListedIffSet, list_empty
  <2>3. ms' \in [Timers -> Int]
    BY <1>1, <1>3, <2>1
  <2>4. QED
    BY <1>1, <2>1, <2>2, <2>3
    DEF TimerInv, ListIntact, LinksAgree, NoLoop, DecisionHolds, WalkStaysOnList, list_empty
<1>7. QED
  BY <1>2, <1>4, <1>5, <1>6

(* A timer that no other thread configures goes on or off the list.        *)
LEMMA TimerInvRelisted ==
  ASSUME TimerInv, NEW n \in Timers, NEW j \in Int,
         next' \in [Nodes -> Nodes], prev' \in [Nodes -> Nodes], ListIntact',
         \A m \in Timers : m # n => (list_empty(m)' <=> list_empty(m)),
         list_empty(n)' <=> j = 0,
         ms' = [ms EXCEPT ![n] = j],
         arg' = arg, pc' \in [Threads -> Places],
         \A u \in Threads : pc'[u] = pc[u] \/ pc'[u] = "idle",
         \A u \in Threads : FileOf[u] = n => pc'[u] \notin {"activate", "disable"},
         cursor' = cursor, cursor = None \/ cursor # n
  PROVE  TimerInv'
<1>1. DecisionHolds'
  <2> SUFFICES ASSUME NEW u \in Threads
               PROVE  /\ pc'[u] = "activate" => list_empty(FileOf[u])' /\ arg'[u] # 0
                      /\ pc'[u] = "disable" => ~list_empty(FileOf[u])' /\ arg'[u] = 0
    BY DEF DecisionHolds
  <2>1. CASE FileOf[u] = n
    BY <2>1
  <2>2. CASE FileOf[u] # n
    BY <2>2 DEF TimerInv, DecisionHolds
  <2>3. QED
    BY <2>1, <2>2
<1>2. ListedIffSet'
  BY DEF TimerInv, ListedIffSet
<1>3. WalkStaysOnList'
  BY DEF TimerInv, WalkStaysOnList
<1>4. QED
  BY <1>1, <1>2, <1>3 DEF TimerInv

LEMMA TimerInvActivate ==
  ASSUME TimerInv, OneThreadPerFile, NEW t \in Threads, activate(t)
  PROVE  TimerInv'
<1>1. /\ FileOf[t] \in Timers /\ pc[t] = "activate" /\ cursor = None /\ cursor' = cursor
      /\ list_empty(FileOf[t]) /\ arg[t] # 0 /\ arg[t] \in Int
      /\ list_add(FileOf[t]) /\ arg' = arg /\ ms' = [ms EXCEPT ![FileOf[t]] = arg[t]]
      /\ pc' = [pc EXCEPT ![t] = "idle"] /\ pc \in [Threads -> Places]
  BY DEF activate, TimerInv, DecisionHolds, Free, Set
<1>2. /\ next' \in [Nodes -> Nodes] /\ prev' \in [Nodes -> Nodes]
      /\ ListIntact'
      /\ ~list_empty(FileOf[t])'
      /\ \A m \in Timers : m # FileOf[t] => (list_empty(m)' <=> list_empty(m))
  BY <1>1, ListAdd DEF TimerInv
<1>3. /\ pc' \in [Threads -> Places]
      /\ \A u \in Threads : pc'[u] = pc[u] \/ pc'[u] = "idle"
      /\ \A u \in Threads : FileOf[u] = FileOf[t] => pc'[u] \notin {"activate", "disable"}
  BY <1>1 DEF OneThreadPerFile, Places
<1>4. QED
  BY <1>1, <1>2, <1>3, TimerInvRelisted

LEMMA TimerInvDisable ==
  ASSUME TimerInv, OneThreadPerFile, NEW t \in Threads, disable(t)
  PROVE  TimerInv'
<1>1. /\ FileOf[t] \in Timers /\ pc[t] = "disable" /\ cursor = None /\ cursor' = cursor
      /\ ~list_empty(FileOf[t]) /\ arg[t] = 0
      /\ list_del_init(FileOf[t]) /\ arg' = arg /\ ms' = [ms EXCEPT ![FileOf[t]] = 0]
      /\ pc' = [pc EXCEPT ![t] = "idle"] /\ pc \in [Threads -> Places]
  BY DEF disable, TimerInv, DecisionHolds, Free, Set
<1>2. /\ next' \in [Nodes -> Nodes] /\ prev' \in [Nodes -> Nodes]
      /\ ListIntact'
      /\ list_empty(FileOf[t])' <=> 0 = 0
      /\ \A m \in Timers : m # FileOf[t] => (list_empty(m)' <=> list_empty(m))
  BY <1>1, ListDelInit DEF TimerInv
<1>3. /\ pc' \in [Threads -> Places]
      /\ \A u \in Threads : pc'[u] = pc[u] \/ pc'[u] = "idle"
      /\ \A u \in Threads : FileOf[u] = FileOf[t] => pc'[u] \notin {"activate", "disable"}
  BY <1>1 DEF OneThreadPerFile, Places
<1>4. 0 \in Int /\ FileOf[t] \in Timers /\ ms' = [ms EXCEPT ![FileOf[t]] = 0]
      /\ arg' = arg /\ cursor' = cursor /\ cursor = None
  BY <1>1
<1>5. QED
  BY <1>2, <1>3, <1>4, TimerInvRelisted

LEMMA TimerInvRelease ==
  ASSUME TimerInv, NEW n \in Timers, release(n)
  PROVE  TimerInv'
<1>1. /\ ms' = [ms EXCEPT ![n] = 0] /\ UNCHANGED <<cursor, pc, arg>>
      /\ \A u \in Threads : FileOf[u] = n => pc[u] = "idle"
      /\ IF list_empty(n) THEN UNCHANGED list ELSE Free /\ list_del_init(n)
  <2>1. ms' = [ms EXCEPT ![n] = 0]
    BY DEF release, Set
  <2>2. UNCHANGED <<cursor, pc, arg>>
    BY DEF release, threads
  <2>3. \A u \in Threads : FileOf[u] = n => pc[u] = "idle"
    BY DEF release
  <2>4. IF list_empty(n) THEN UNCHANGED list ELSE Free /\ list_del_init(n)
    BY DEF release
  <2>5. QED
    BY <2>1, <2>2, <2>3, <2>4
<1>2. /\ cursor' = cursor /\ arg' = arg /\ pc' = pc /\ pc \in [Threads -> Places]
      /\ pc' \in [Threads -> Places]
  BY <1>1 DEF TimerInv
<1>3. /\ \A u \in Threads : pc'[u] = pc[u] \/ pc'[u] = "idle"
      /\ \A u \in Threads : FileOf[u] = n => pc'[u] \notin {"activate", "disable"}
  BY <1>1, <1>2
<1>4. 0 \in Int
  OBVIOUS
<1>5. CASE list_empty(n)
  <2>1. UNCHANGED <<next, prev>>
    BY <1>1, <1>5 DEF list
  <2>2. /\ next' \in [Nodes -> Nodes] /\ prev' \in [Nodes -> Nodes] /\ ListIntact'
        /\ \A m \in Timers : list_empty(m)' <=> list_empty(m)
    BY <2>1 DEF TimerInv, ListIntact, LinksAgree, NoLoop, list_empty
  <2>3. cursor = None \/ cursor # n
    BY <1>5 DEF TimerInv, WalkStaysOnList
  <2>4. list_empty(n)' <=> 0 = 0
    BY <1>5, <2>2
  <2>5. QED
    BY <1>1, <1>2, <1>3, <1>4, <2>2, <2>3, <2>4, TimerInvRelisted
<1>6. CASE ~list_empty(n)
  <2>1. list_del_init(n) /\ cursor = None
    BY <1>1, <1>6 DEF Free
  <2>2. /\ next' \in [Nodes -> Nodes] /\ prev' \in [Nodes -> Nodes]
        /\ ListIntact'
        /\ list_empty(n)' <=> 0 = 0
        /\ \A m \in Timers : m # n => (list_empty(m)' <=> list_empty(m))
    BY <1>6, <2>1, ListDelInit DEF TimerInv
  <2>3. QED
    BY <1>1, <1>2, <1>3, <1>4, <2>1, <2>2, TimerInvRelisted
<1>7. QED
  BY <1>5, <1>6

LEMMA TimerInvInductive ==
  ASSUME OneThreadPerFile PROVE TimerInv /\ [Next]_vars => TimerInv'
<1> SUFFICES ASSUME TimerInv, [Next]_vars PROVE TimerInv'
  OBVIOUS
<1>1. CASE walk_start \/ walk_entry
  BY <1>1, TimerInvWalk
<1>2. ASSUME NEW t \in Threads, Call(t) PROVE TimerInv'
  <2>1. CASE timerconfig(t)
    BY <2>1, TimerInvConfig
  <2>2. CASE activate(t)
    BY <2>2, TimerInvActivate
  <2>3. CASE disable(t)
    BY <2>3, TimerInvDisable
  <2>4. CASE timerack(t) \/ timerping(t) \/ timerpong(t)
    <3>1. /\ FileOf[t] \in Timers
          /\ pc' = Wake(FileOf[t]) \/ pc' = pc
          /\ UNCHANGED <<next, prev, ms, cursor, arg>>
      BY <2>4 DEF timerack, timerping, timerpong, list, clocks, threads
    <3>2. pc' \in [Threads -> Places] /\ DecisionHolds'
      BY <3>1, TimerInvWake
    <3>3. QED
      BY <3>1, <3>2, TimerInvKept DEF TimerInv
  <2>5. CASE poll(t) \/ poll_ends(t)
    <3>1. /\ pc' \in [Threads -> Places] /\ pc'[t] \in {"idle", "asleep"}
          /\ \A u \in Threads : u # t => pc'[u] = pc[u]
          /\ UNCHANGED <<next, prev, ms, cursor, arg>>
      BY <2>5 DEF poll, poll_ends, TimerInv, Places, list, clocks
    <3>2. DecisionHolds'
      BY <3>1 DEF TimerInv, DecisionHolds, list_empty
    <3>3. QED
      BY <3>1, <3>2, TimerInvKept DEF TimerInv
  <2>6. QED
    BY <1>2, <2>1, <2>2, <2>3, <2>4, <2>5 DEF Call
<1>3. ASSUME NEW n \in Timers, release(n) PROVE TimerInv'
  BY <1>3, TimerInvRelease
<1>4. CASE UNCHANGED vars
  <2>1. UNCHANGED <<next, prev, ms, cursor, pc, arg>>
    BY <1>4 DEF vars, list, clocks, threads
  <2>2. QED
    BY <2>1, TimerInvKept DEF TimerInv, DecisionHolds, list_empty
<1>5. QED
  BY <1>1, <1>2, <1>3, <1>4 DEF Next

(* However many timers are configured, disarmed and closed while           *)
(* process_timers walks, dahdi_timers stays one ring through its head, and *)
(* the timers on it are the configured ones, as long as no two threads use *)
(* one open file (TIMERCONFIG, close).                                     *)
THEOREM TimerListSound == ASSUME OneThreadPerFile PROVE Spec => []ListSound
<1>1. TimerInv /\ [Next]_vars => TimerInv'
  BY TimerInvInductive
<1>2. TimerInv => ListSound
  BY DEF TimerInv, ListSound
<1>3. QED
  BY <1>1, <1>2, TimerInvInit, PTL DEF Spec

(* ... and none is unlinked or freed under the walk.                       *)
THEOREM TimerWalkStaysOnList == ASSUME OneThreadPerFile PROVE Spec => []WalkStaysOnList
<1>1. TimerInv /\ [Next]_vars => TimerInv'
  BY TimerInvInductive
<1>2. TimerInv => WalkStaysOnList
  BY DEF TimerInv
<1>3. QED
  BY <1>1, <1>2, TimerInvInit, PTL DEF Spec

-----------------------------------------------------------------------------

(* Expirations, whichever threads share a file. *)

(* A configured timer has part of its period left and the rest elapsed.    *)
ClockInv ==
  /\ ms \in [Timers -> Nat] /\ pos \in [Timers -> Int]
  /\ tripped \in [Timers -> Nat] /\ elapsed \in [Timers -> Nat]
  /\ arg \in [Threads -> Nat]
  /\ \A n \in Timers : ms[n] # 0 => pos[n] > 0 /\ pos[n] + elapsed[n] = ms[n]

(* TIMERCONFIG and the last close start a period. *)
LEMMA ClockInvSet ==
  ASSUME ClockInv, NEW n \in Timers, NEW j \in Nat, Set(n, j), arg' \in [Threads -> Nat],
         tripped' \in {tripped, [tripped EXCEPT ![n] = 0]}
  PROVE  ClockInv'
<1>1. /\ ms' = [ms EXCEPT ![n] = j] /\ pos' = [pos EXCEPT ![n] = j]
      /\ elapsed' = [elapsed EXCEPT ![n] = 0]
  BY DEF Set
<1>2. /\ ms' \in [Timers -> Nat] /\ pos' \in [Timers -> Int]
      /\ tripped' \in [Timers -> Nat] /\ elapsed' \in [Timers -> Nat]
  BY <1>1 DEF ClockInv
<1>3. \A m \in Timers : ms'[m] # 0 => pos'[m] > 0 /\ pos'[m] + elapsed'[m] = ms'[m]
  BY <1>1 DEF ClockInv
<1>4. QED
  BY <1>2, <1>3 DEF ClockInv

(* A step of the walk takes a chunk off, or starts the next period.        *)
LEMMA ClockInvWalk ==
  ASSUME ClockInv, walk_entry
  PROVE  /\ ClockInv'
         /\ \A n \in Timers : tripped'[n] > tripped[n] => elapsed[n] + CHUNKSIZE >= ms[n]
<1> DEFINE left == pos[cursor] - CHUNKSIZE
<1>1. /\ cursor \in Timers /\ ms' = ms /\ arg' = arg
      /\ ms \in [Timers -> Nat] /\ pos \in [Timers -> Int]
      /\ tripped \in [Timers -> Nat] /\ elapsed \in [Timers -> Nat]
      /\ left \in Int
  BY DEF walk_entry, ClockInv
<1>2. CASE /\ left <= 0
           /\ tripped' = [tripped EXCEPT ![cursor] = @ + 1]
           /\ pos' = [pos EXCEPT ![cursor] = ms[cursor]]
           /\ elapsed' = [elapsed EXCEPT ![cursor] = 0]
  <2>1. /\ tripped' \in [Timers -> Nat] /\ pos' \in [Timers -> Int]
        /\ elapsed' \in [Timers -> Nat]
    BY <1>1, <1>2
  <2>2. \A n \in Timers : ms[n] # 0 => pos'[n] > 0 /\ pos'[n] + elapsed'[n] = ms[n]
    BY <1>1, <1>2 DEF ClockInv
  <2>3. \A n \in Timers : tripped'[n] > tripped[n] => n = cursor
    BY <1>1, <1>2
  <2>4. elapsed[cursor] + CHUNKSIZE >= ms[cursor]
    BY <1>1, <1>2 DEF ClockInv
  <2>5. QED
    BY <1>1, <2>1, <2>2, <2>3, <2>4 DEF ClockInv
<1>3. CASE /\ left > 0
           /\ pos' = [pos EXCEPT ![cursor] = left]
           /\ elapsed' = [elapsed EXCEPT ![cursor] = @ + CHUNKSIZE]
           /\ tripped' = tripped
  <2>1. pos' \in [Timers -> Int] /\ elapsed' \in [Timers -> Nat]
    BY <1>1, <1>3
  <2>2. \A n \in Timers : ms[n] # 0 => pos'[n] > 0 /\ pos'[n] + elapsed'[n] = ms[n]
    BY <1>1, <1>3 DEF ClockInv
  <2>3. \A n \in Timers : ~(tripped'[n] > tripped[n])
    BY <1>1, <1>3
  <2>4. QED
    BY <1>1, <1>3, <2>1, <2>2, <2>3 DEF ClockInv
<1>4. QED
  BY <1>1, <1>2, <1>3 DEF walk_entry, Expires

(* A call sets a timer or leaves the clocks alone; none counts up.         *)
LEMMA ClockInvCall ==
  ASSUME ClockInv, NEW t \in Threads, Call(t)
  PROVE  /\ ClockInv'
         /\ \A n \in Timers : ~(tripped'[n] > tripped[n])
<1> DEFINE n == FileOf[t]
<1>1. /\ n \in Timers /\ arg[t] \in Nat /\ arg \in [Threads -> Nat]
      /\ tripped \in [Timers -> Nat]
  BY DEF ClockInv
<1>2. CASE timerconfig(t)
  <2>1. PICK period \in Periods :
          LET j == IF period < 0 THEN 0 ELSE period
          IN  \/ UNCHANGED <<clocks, threads>>
              \/ arg' = [arg EXCEPT ![t] = j] /\ UNCHANGED clocks
              \/ Set(n, j) /\ UNCHANGED threads
    BY <1>2 DEF timerconfig
  <2> DEFINE j == IF period < 0 THEN 0 ELSE period
  <2>2. j \in Nat /\ tripped' = tripped
    <3>1. period \in Int
      OBVIOUS
    <3>2. j \in Nat
      BY <3>1
    <3>3. tripped' = tripped
      BY <1>2 DEF timerconfig
    <3>4. QED
      BY <3>2, <3>3
  <2> HIDE DEF j
  <2>3. CASE UNCHANGED <<clocks, threads>>
    BY <2>2, <2>3 DEF ClockInv, clocks, threads
  <2>4. CASE arg' = [arg EXCEPT ![t] = j] /\ UNCHANGED clocks
    <3>1. arg' \in [Threads -> Nat]
      BY <1>1, <2>2, <2>4
    <3>2. QED
      BY <2>2, <2>4, <3>1 DEF ClockInv, clocks
  <2>5. CASE Set(n, j) /\ UNCHANGED threads
    BY <1>1, <2>2, <2>5, ClockInvSet DEF threads
  <2>6. ClockInv'
    BY <2>1, <2>3, <2>4, <2>5 DEF j
  <2>7. QED
    BY <1>1, <2>2, <2>6
<1>3. CASE activate(t) \/ disable(t)
  <2>1. Set(n, arg[t]) /\ tripped' = tripped /\ arg' = arg
    BY <1>3 DEF activate, disable
  <2>2. QED
    BY <1>1, <2>1, ClockInvSet
<1>4. CASE timerack(t)
  <2>1. PICK j \in 0 .. MaxTripped : tripped' = [tripped EXCEPT ![n] = @ - Acked(n, j)]
    BY <1>4 DEF timerack
  <2>2. tripped[n] \in Nat /\ Acked(n, j) \in 0 .. tripped[n]
    BY <1>1, <2>1 DEF Acked
  <2>3. /\ tripped' \in [Timers -> Nat]
        /\ \A m \in Timers : ~(tripped'[m] > tripped[m])
    BY <1>1, <2>1, <2>2
  <2>4. UNCHANGED <<clocks, threads>>
    BY <1>4 DEF timerack
  <2>5. QED
    BY <2>3, <2>4 DEF ClockInv, clocks, threads
<1>5. CASE timerping(t) \/ timerpong(t) \/ poll(t) \/ poll_ends(t)
  <2>1. UNCHANGED <<clocks, tripped, arg>>
    BY <1>5 DEF timerping, timerpong, poll, poll_ends, threads
  <2>2. QED
    BY <1>1, <2>1 DEF ClockInv, clocks
<1>6. QED
  BY <1>2, <1>3, <1>4, <1>5 DEF Call

LEMMA ClockInvStep ==
  ClockInv /\ [Next]_vars =>
    /\ ClockInv'
    /\ [\A n \in Timers : tripped'[n] > tripped[n] => elapsed[n] + CHUNKSIZE >= ms[n]]_vars
<1> SUFFICES ASSUME ClockInv, [Next]_vars
             PROVE  /\ ClockInv'
                    /\ \A n \in Timers :
                         tripped'[n] > tripped[n] => elapsed[n] + CHUNKSIZE >= ms[n]
  OBVIOUS
<1>1. tripped \in [Timers -> Nat]
  BY DEF ClockInv
<1>2. CASE walk_start \/ UNCHANGED vars
  <2>1. UNCHANGED <<clocks, tripped, arg>>
    BY <1>2 DEF walk_start, vars, threads
  <2>2. QED
    BY <1>1, <2>1 DEF ClockInv, clocks
<1>3. CASE walk_entry
  BY <1>3, ClockInvWalk
<1>4. ASSUME NEW t \in Threads, Call(t)
      PROVE  ClockInv' /\ \A n \in Timers : ~(tripped'[n] > tripped[n])
  BY <1>4, ClockInvCall
<1>5. ASSUME NEW n \in Timers, release(n)
      PROVE  ClockInv' /\ \A m \in Timers : ~(tripped'[m] > tripped[m])
  <2>1. Set(n, 0) /\ tripped' = [tripped EXCEPT ![n] = 0] /\ arg' = arg
    BY <1>5 DEF release, threads
  <2>2. ClockInv'
    BY <2>1, ClockInvSet DEF ClockInv
  <2>3. QED
    BY <1>1, <2>1, <2>2
<1>6. QED
  BY <1>2, <1>3, <1>4, <1>5 DEF Next

(* A timer expires in the first chunk that completes its period and in no  *)
(* earlier one (process_timers).                                           *)
THEOREM TimerExpiresOnTime == Spec => ExpiresOnTime
<1>1. Init => ClockInv
  BY DEF Init, ClockInv
<1>2. ClockInv => \A n \in Timers : ms[n] # 0 => elapsed[n] < ms[n]
  BY DEF ClockInv
<1>3. QED
  BY <1>1, <1>2, ClockInvStep, PTL DEF Spec, ExpiresOnTime
=============================================================================
