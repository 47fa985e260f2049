----------------------------- MODULE RoundProofs -----------------------------
(***************************************************************************)
(* Proofs about the rounds of _process_masterspan, for any number of       *)
(* channels, conferences and spans: the conferences that are mixed in them *)
(* and the span whose interrupt drives them.                               *)
(*                                                                         *)
(* Conferences: with one thread at a time in DAHDI_SETCONF and close() the *)
(* two tables of aliases stay each other's inverse, and the only row left  *)
(* behind is the one DAHDI_SETCONF forgets for a monitor.  Two threads     *)
(* break them: see dahdi_check_conf.  On top of the tables the             *)
(* three sets of sums hold what the members say, once, each set one round  *)
(* later than the other, and what a channel remembers of itself is in step *)
(* with them (MixSound): a listener hears the others.                      *)
(*                                                                         *)
(* Spans: the list is in order and full use is made of its gaps            *)
(* (OrderInv); the master is one of the list, and a healthy one after a    *)
(* search (MasterInv); the core timer fills in for it in time (ClockInv).  *)
(***************************************************************************)
EXTENDS ConfMixer, MasterSpan, FiniteSetTheorems, SequenceTheorems, WellFoundedInduction, TLAPS

(* One thread makes the calls, and it uses numbers that can all have an    *)
(* alias: there are aliases for 1..MAX_CONF - 1 only.                      *)
OneCaller ==
  /\ \A t, u \in Threads : t = u
  /\ Numbers \subseteq 1..MAX_CONF - 1

ConferenceTypes ==
  /\ confalias \in [Confs -> 0..MAX_CONF - 1]
  /\ confrev \in [Confs -> 0..MAX_CONF - 1]
  /\ confna \in [Channels -> Int]
  /\ confmode \in [Channels -> Confmodes]
  /\ confn \in [Channels -> Int]
  /\ pc \in [Threads -> Places]
  /\ request \in [Threads -> [chan : Channels \cup {None}, conf : Int, mode : Confmodes]]

(* What a thread inside a call asked for. *)
CallsSensible ==
  \A t \in Threads :
    /\ pc[t] # "idle" => request[t].chan \in Channels
    /\ pc[t] \in {"precheck", "preclear", "join"} => request[t] \in Requests
    /\ pc[t] \in {"preclear", "clear"} => Checked(t) \in Deserted

(* An alias without a member is the one a call is about to give back, or   *)
(* one that a call left behind.                                            *)
DesertedIsChecked ==
  \A x \in Deserted :
    x \in unchecked \/ \E t \in Threads : pc[t] \in {"check", "clear"} /\ Checked(t) = x

MembersNumbered == \A c \in Channels : confmode[c].mode \in Mixing => confna[c] \in Confs

AliasInv ==
  /\ ConferenceTypes /\ CallsSensible /\ DesertedIsChecked /\ MembersNumbered
  /\ AliasesAgree
  /\ confrev[MAX_CONF] = 0

USE ConferenceAssumption DEF ConferenceAssumption

-----------------------------------------------------------------------------
(* The least and the greatest of a set. *)
LEMMA MinInSet ==
  ASSUME NEW S \in SUBSET Nat, S # {}
  PROVE  Min(S) \in S
<1>1. PICK x \in S : \A y \in S : ~ (<<y, x>> \in OpToRel(<, Nat))
  BY WFMin, NatLessThanWellFounded
<1>2. ASSUME NEW y \in S PROVE x <= y
  <2>1. x \in Nat /\ y \in Nat
    OBVIOUS
  <2>2. ~ (y < x)
    BY <1>1, <2>1 DEF OpToRel
  <2> QED
    BY <2>1, <2>2
<1> QED
  BY <1>2 DEF Min

LEMMA MaxInSet ==
  ASSUME NEW N \in Nat, NEW S \in SUBSET (0..N), S # {}
  PROVE  Max(S) \in S /\ \A y \in S : Max(S) >= y
<1> DEFINE T == {N - y : y \in S}
<1>1. T \subseteq Nat /\ T # {}
  <2>1. \A y \in S : y \in 0..N
    OBVIOUS
  <2>2. \A y \in S : N - y \in Nat
    BY <2>1
  <2>3. PICK y \in S : TRUE
    OBVIOUS
  <2> QED
    BY <2>2, <2>3
<1>2. PICK z \in T : \A y \in T : ~ (<<y, z>> \in OpToRel(<, Nat))
  BY <1>1, WFMin, NatLessThanWellFounded
<1>3. PICK x \in S : z = N - x
  OBVIOUS
<1>4. ASSUME NEW y \in S PROVE x >= y
  <2>1. N - y \in T /\ N - y \in Nat /\ z \in Nat
    BY <1>1
  <2>2. ~ (N - y < z)
    BY <1>2, <2>1 DEF OpToRel
  <2> QED
    BY <1>3, <2>2
<1> QED
  BY <1>4 DEF Max

(* Every row in use is below maxconfs. *)
LEMMA RecalcBounds ==
  ASSUME NEW rev \in [Confs -> Nat], NEW a \in 1..MAX_CONF - 1, rev[a] # 0
  PROVE  a < recalc_maxconfs(rev)
<1> DEFINE S == {0} \cup {b + 1 : b \in {b \in 1..MAX_CONF - 1 : rev[b] # 0}}
<1>1. S \subseteq 0..MAX_CONF /\ a + 1 \in S
  OBVIOUS
<1>2. Max(S) \in S /\ Max(S) >= a + 1
  BY <1>1, MaxInSet
<1>3. Max(S) \in Int
  BY <1>1, <1>2
<1> QED
  BY <1>2, <1>3 DEF recalc_maxconfs

(* There is a row for every conference: if none were free, the rows of     *)
(* 1..MAX_CONF - 1 would all belong to other conferences than x.           *)
LEMMA AliasForEach ==
  ASSUME AliasInv, NEW x \in 1..MAX_CONF - 1, confalias[x] = 0
  PROVE  first_empty_alias \in 1..MAX_CONF - 1 /\ confrev[first_empty_alias] = 0
<1> DEFINE R == 1..MAX_CONF - 1
           free == {a \in R : confrev[a] = 0}
<1>1. free # {}
  <2> SUFFICES ASSUME free = {} PROVE FALSE
    OBVIOUS
  <2>1. IsFiniteSet(R) /\ Cardinality(R) \in Nat
    <3>1. IsFiniteSet(R)
      BY FS_Interval
    <3> QED
      BY <3>1, FS_CardinalityType
  <2>2. IsFiniteSet(R \ {x}) /\ Cardinality(R \ {x}) < Cardinality(R)
    <3>1. IsFiniteSet(R \ {x}) /\ Cardinality(R \ {x}) = Cardinality(R) - 1
      <4> HIDE DEF R
      <4>1. x \in R
        BY DEF R
      <4> QED
        BY <2>1, <4>1, FS_RemoveElement
    <3> QED
      BY <2>1, <3>1
  <2>3. ASSUME NEW a \in R PROVE confrev[a] \in R \ {x} /\ confalias[confrev[a]] = a
    <3>1. a \in Confs /\ confrev[a] # 0
      BY DEF Confs
    <3>2. confrev[a] \in R /\ confrev[a] \in Confs
      BY <3>1 DEF AliasInv, ConferenceTypes, Confs
    <3>3. confalias[confrev[a]] = a
      BY <3>1, <3>2 DEF AliasInv, AliasesAgree
    <3>4. a # 0
      OBVIOUS
    <3> QED
      BY <3>2, <3>3, <3>4
  <2> DEFINE f == [a \in R |-> confrev[a]]
  <2>4. f \in [R -> R \ {x}]
    BY <2>3
  <2>5. PICK a, b \in R : a # b /\ f[a] = f[b]
    <3> HIDE DEF R, f
    <3> QED
      BY <2>1, <2>2, <2>4, FS_PigeonHole
  <2> QED
    BY <2>3, <2>5
<1>2. Min(free) \in free
  BY <1>1, MinInSet
<1> QED
  BY <1>1, <1>2 DEF first_empty_alias
-----------------------------------------------------------------------------
LEMMA AliasAtFirst == ConfInit => AliasInv
<1> SUFFICES ASSUME ConfInit PROVE AliasInv
  OBVIOUS
<1> USE DEF ConfInit
<1>1. Normal \in Confmodes /\ Normal.mode \notin Mixing
  BY DEF Normal, Confmodes, Modes, Mixing
<1>2. NoRequest \in [chan : Channels \cup {None}, conf : Int, mode : Confmodes]
  BY <1>1 DEF NoRequest
<1>3. ConferenceTypes
  BY <1>1, <1>2 DEF ConferenceTypes, Confs, Places
<1>4. CallsSensible
  BY DEF CallsSensible
<1>5. DesertedIsChecked
  BY DEF DesertedIsChecked, Deserted
<1>6. AliasesAgree /\ confrev[MAX_CONF] = 0 /\ MembersNumbered
  BY <1>1 DEF AliasesAgree, Confs, MembersNumbered
<1> QED
  BY <1>3, <1>4, <1>5, <1>6 DEF AliasInv

LEMMA AliasEnough == AliasInv => AliasesSound
BY DEF AliasInv, DesertedIsChecked, AliasesSound, NoAliasLeaks

(* Calls that leave the tables and the members alone. *)
LEMMA TablesKept ==
  ASSUME UNCHANGED <<aliases, members>>
  PROVE  /\ Deserted' = Deserted
         /\ AliasesAgree' <=> AliasesAgree
         /\ MembersNumbered' <=> MembersNumbered
         /\ confrev'[MAX_CONF] = confrev[MAX_CONF]
BY DEF aliases, members, Deserted, InConf, AliasesAgree, MembersNumbered

LEMMA RequestTypes ==
  /\ Requests \cup {NoRequest} \subseteq [chan : Channels \cup {None}, conf : Int, mode : Confmodes]
  /\ Normal \in Confmodes /\ Normal.mode \notin Mixing
<1>1. Normal \in Confmodes /\ Normal.mode \notin Mixing
  BY DEF Normal, Confmodes, Modes, Mixing
<1>2. NoRequest \in [chan : Channels \cup {None}, conf : Int, mode : Confmodes]
  BY <1>1 DEF NoRequest
<1>3. ASSUME NEW r \in Requests
      PROVE  r \in [chan : Channels \cup {None}, conf : Int, mode : Confmodes]
  <2>1. r \in [chan : Channels, conf : Numbers \cup {-1, 0}, mode : Confmodes]
    BY DEF Requests
  <2>2. Numbers \cup {-1, 0} \subseteq Int
    BY DEF Confs
  <2> QED
    BY <2>1, <2>2
<1> QED
  BY <1>1, <1>2, <1>3

(* Calls that begin, and those that end without dahdi_check_conf. *)
LEMMA AliasCalls ==
  ASSUME OneCaller, AliasInv, NEW t \in Threads,
         \/ setconf(t) \/ join_busy(t) \/ preecho_enabled(t) \/ preecho_fails(t)
         \/ \E c \in Channels : close_preecho(t, c)
  PROVE  AliasInv'
<1> USE DEF AliasInv
<1> DEFINE Asked == [chan : Channels \cup {None}, conf : Int, mode : Confmodes]
<1>1. /\ UNCHANGED <<aliases, members, unchecked>>
      /\ pc[t] \notin {"check", "clear"}
  BY DEF setconf, join_busy, preecho_enabled, preecho_fails, close_preecho
<1>2. PICK r \in Asked, place \in {"precheck", "idle", "leave"} :
        /\ request' = [request EXCEPT ![t] = r] /\ pc' = [pc EXCEPT ![t] = place]
        /\ place = "precheck" => r \in Requests
        /\ place # "idle" => r.chan \in Channels
  <2>1. CASE setconf(t)
    <3>1. PICK r \in Requests : request' = [request EXCEPT ![t] = r]
      BY <2>1 DEF setconf
    <3>2. r \in Asked /\ r.chan \in Channels
      BY RequestTypes DEF Requests
    <3>3. pc' = [pc EXCEPT ![t] = "precheck"]
      BY <2>1 DEF setconf, GoTo
    <3> QED
      BY <3>1, <3>2, <3>3
  <2>2. CASE join_busy(t) \/ preecho_enabled(t) \/ preecho_fails(t)
    <3>1. pc' = [pc EXCEPT ![t] = "idle"] /\ request' = [request EXCEPT ![t] = NoRequest]
      BY <2>2 DEF join_busy, preecho_enabled, preecho_fails, Return, GoTo
    <3> QED
      BY <3>1, RequestTypes
  <2>3. CASE \E c \in Channels : close_preecho(t, c)
    <3>1. PICK c \in Channels : close_preecho(t, c)
      BY <2>3
    <3> DEFINE r == [chan |-> c, conf |-> confna[c], mode |-> Normal]
    <3>2. pc' = [pc EXCEPT ![t] = "leave"] /\ request' = [request EXCEPT ![t] = r]
      BY <3>1 DEF close_preecho, GoTo
    <3>3. r \in Asked /\ r.chan \in Channels
      BY RequestTypes DEF ConferenceTypes
    <3> QED
      BY <3>2, <3>3
  <2> QED
    BY <2>1, <2>2, <2>3
<1>3. ConferenceTypes'
  BY <1>1, <1>2 DEF ConferenceTypes, aliases, members, Places
<1>4. Deserted \subseteq unchecked
  BY <1>1 DEF OneCaller, DesertedIsChecked
<1>5. DesertedIsChecked'
  BY <1>1, <1>4, TablesKept DEF DesertedIsChecked
<1>6. CallsSensible'
  <2>1. pc'[t] = place /\ request'[t] = r /\ \A u \in Threads : u = t
    BY <1>2 DEF ConferenceTypes, OneCaller
  <2> QED
    BY <1>2, <2>1 DEF CallsSensible, Requests
<1> QED
  BY <1>1, <1>3, <1>5, <1>6, TablesKept

LEMMA AliasCheck ==
  ASSUME OneCaller, AliasInv, NEW t \in Threads, check_conf_kept(t) \/ check_conf_empty(t)
  PROVE  AliasInv'
<1> USE DEF AliasInv
<1>1. UNCHANGED <<aliases, members>> /\ pc[t] \in {"precheck", "check"} /\ \A u \in Threads : u = t
  BY DEF check_conf_kept, check_conf_empty, OneCaller
<1>2. CASE check_conf_kept(t)
  <2>1. Deserted \subseteq unchecked'
    BY <1>1, <1>2 DEF check_conf_kept, DesertedIsChecked
  <2>2. \/ pc[t] = "precheck" /\ pc' = [pc EXCEPT ![t] = "join"] /\ request' = request
        \/ /\ pc' = [pc EXCEPT ![t] = "idle"]
           /\ request' = [request EXCEPT ![t] = NoRequest]
    BY <1>2 DEF check_conf_kept, Return, GoTo
  <2>3. request' \in [Threads -> [chan : Channels \cup {None}, conf : Int, mode : Confmodes]]
    BY <2>2, RequestTypes DEF ConferenceTypes
  <2>4. pc' \in [Threads -> Places]
    BY <2>2 DEF ConferenceTypes, Places
  <2>5. ConferenceTypes'
    BY <1>1, <2>3, <2>4 DEF ConferenceTypes, aliases, members
  <2>6. DesertedIsChecked'
    BY <1>1, <2>1, TablesKept DEF DesertedIsChecked
  <2>7. CallsSensible'
    BY <1>1, <2>2 DEF CallsSensible, ConferenceTypes
  <2> QED
    BY <1>1, <2>5, <2>6, <2>7, TablesKept
<1>3. CASE check_conf_empty(t)
  <2>1. PICK place \in {"preclear", "clear"} :
          /\ pc' = [pc EXCEPT ![t] = place]
          /\ place = "preclear" <=> pc[t] = "precheck"
    BY <1>1, <1>3 DEF check_conf_empty, GoTo
  <2>2. UNCHANGED <<request, unchecked>> /\ Checked(t) \in Deserted
    BY <1>3 DEF check_conf_empty
  <2>3. ConferenceTypes'
    BY <1>1, <2>1, <2>2 DEF ConferenceTypes, aliases, members, Places
  <2>4. pc'[t] = place /\ Checked(t)' = Checked(t) /\ Deserted' = Deserted
    BY <1>1, <2>1, <2>2, TablesKept DEF ConferenceTypes, Checked
  <2>5. DesertedIsChecked'
    BY <1>1, <2>1, <2>2, <2>4 DEF DesertedIsChecked
  <2>6. CallsSensible'
    BY <1>1, <2>1, <2>2, <2>4 DEF CallsSensible
  <2> QED
    BY <1>1, <2>3, <2>5, <2>6, TablesKept
<1> QED
  BY <1>2, <1>3

LEMMA AliasClear ==
  ASSUME OneCaller, AliasInv, NEW t \in Threads, check_conf_clear(t)
  PROVE  AliasInv'
<1> USE DEF AliasInv
<1> DEFINE x == Checked(t)
           a == confalias[x]
<1>1. pc[t] \in {"preclear", "clear"} /\ x \in Deserted
  BY DEF check_conf_clear, CallsSensible
<1>2. x \in Confs /\ a # 0 /\ \A c \in Channels : ~InConf(c, x)
  BY <1>1 DEF Deserted
<1>3. a \in Confs /\ confrev[a] = x
  BY <1>2 DEF ConferenceTypes, Confs, AliasesAgree
<1>4. /\ confalias' = [confalias EXCEPT ![x] = 0]
      /\ confrev' = [b \in Confs |-> IF b = a THEN 0 ELSE confrev[b]]
      /\ maxconfs' = recalc_maxconfs(confrev')
      /\ UNCHANGED members /\ unchecked' = unchecked \ {x}
  BY DEF check_conf_clear
<1>5. \/ pc[t] = "preclear" /\ pc' = [pc EXCEPT ![t] = "join"] /\ request' = request
      \/ pc' = [pc EXCEPT ![t] = "idle"] /\ request' = [request EXCEPT ![t] = NoRequest]
  BY DEF check_conf_clear, Return, GoTo
<1> HIDE DEF x, a
<1>6. ConferenceTypes'
  <2>1. confalias' \in [Confs -> 0..MAX_CONF - 1] /\ confrev' \in [Confs -> 0..MAX_CONF - 1]
    <3>1. 0 \in 0..MAX_CONF - 1
      OBVIOUS
    <3>2. confalias' \in [Confs -> 0..MAX_CONF - 1]
      BY <1>4, <3>1 DEF ConferenceTypes
    <3>3. \A b \in Confs : confrev[b] \in 0..MAX_CONF - 1
      BY DEF ConferenceTypes
    <3>4. confrev' \in [Confs -> 0..MAX_CONF - 1]
      BY <1>4, <3>1, <3>3
    <3> QED
      BY <3>2, <3>4
  <2>2. pc' \in [Threads -> Places]
    BY <1>5 DEF ConferenceTypes, Places
  <2>3. request' \in [Threads -> [chan : Channels \cup {None}, conf : Int, mode : Confmodes]]
    BY <1>5, RequestTypes DEF ConferenceTypes
  <2> QED
    BY <1>4, <2>1, <2>2, <2>3 DEF ConferenceTypes, members
<1>7. Deserted' \subseteq unchecked'
  <2> SUFFICES ASSUME NEW y \in Deserted' PROVE y \in unchecked'
    OBVIOUS
  <2>1. y # x /\ y \in Deserted
    BY <1>2, <1>4 DEF Deserted, InConf, members, ConferenceTypes
  <2>2. y \in unchecked
    BY <2>1 DEF DesertedIsChecked, OneCaller, x
  <2> QED
    BY <1>4, <2>1, <2>2
<1>8. CallsSensible' /\ DesertedIsChecked'
  <2>1. \A u \in Threads : u = t
    BY DEF OneCaller
  <2>2. \/ pc[t] = "preclear" /\ pc'[t] = "join" /\ request'[t] = request[t]
        \/ pc'[t] = "idle"
    BY <1>5 DEF ConferenceTypes
  <2> QED
    BY <1>7, <2>1, <2>2 DEF CallsSensible, DesertedIsChecked
<1>9. MembersNumbered' /\ confrev'[MAX_CONF] = 0
  BY <1>4 DEF members, MembersNumbered, Confs
<1>10. AliasesAgree'
  <2>1. ASSUME NEW y \in Confs, NEW b \in Confs PROVE confalias'[y] = b <=> confrev'[b] = y
    <3>1. b # 0 /\ y # 0 /\ confalias[y] = b <=> confrev[b] = y
      BY DEF AliasesAgree, Confs
    <3>2. confalias[x] = b <=> confrev[b] = x
      BY <1>2 DEF AliasesAgree
    <3>3. b # 0 /\ y # 0
      BY DEF Confs
    <3> QED
      BY <1>2, <1>3, <1>4, <3>1, <3>2, <3>3 DEF ConferenceTypes, a
  <2>2. ASSUME NEW b \in Confs, confrev'[b] # 0 PROVE b < maxconfs'
    <3>1. confrev' \in [Confs -> Nat]
      BY <1>6 DEF ConferenceTypes
    <3>2. b \in 1..MAX_CONF - 1
      BY <1>9, <2>2 DEF Confs
    <3> QED
      BY <1>4, <2>2, <3>1, <3>2, RecalcBounds
  <2>3. ASSUME NEW c \in Channels, confmode'[c].mode \in Mixing
        PROVE  confn'[c] \in Confs /\ confrev'[confn'[c]] = confna'[c]
    <3>1. confn[c] \in Confs /\ confrev[confn[c]] = confna[c]
      BY <1>4, <2>3 DEF members, AliasesAgree
    <3>2. confn[c] # a
      BY <1>2, <1>3, <1>4, <2>3, <3>1 DEF members, InConf
    <3> QED
      BY <1>4, <3>1, <3>2 DEF members
  <2> QED
    BY <2>1, <2>2, <2>3 DEF AliasesAgree
<1> QED
  BY <1>6, <1>8, <1>9, <1>10

LEMMA AliasClose ==
  ASSUME OneCaller, AliasInv, NEW t \in Threads, NEW c \in Channels, close(t, c)
  PROVE  AliasInv'
<1> USE DEF AliasInv
<1>1. /\ pc[t] \in {"idle", "leave"} /\ pc' = [pc EXCEPT ![t] = "check"] /\ unchecked' = unchecked
      /\ confna' = [confna EXCEPT ![c] = 0]
      /\ confmode' = [confmode EXCEPT ![c] = Normal]
      /\ confn' = [confn EXCEPT ![c] = 0]
      /\ request' = [request EXCEPT ![t] = [chan |-> c, conf |-> confna[c], mode |-> Normal]]
      /\ confalias' = confalias /\ confrev' = confrev /\ maxconfs' = maxconfs
  BY DEF close, GoTo, aliases
<1>2. Normal \in Confmodes /\ Normal.mode \notin Mixing
  BY RequestTypes
<1>3. ConferenceTypes'
  BY <1>1, <1>2 DEF ConferenceTypes, Places
<1>4. ASSUME NEW y \in Deserted', y \notin unchecked' PROVE y = confna[c]
  <2>1. y \in Confs /\ confalias[y] # 0 /\ \A d \in Channels : ~InConf(d, y)'
    BY <1>1, <1>4 DEF Deserted
  <2>2. y \notin Deserted
    BY <1>1, <1>4 DEF DesertedIsChecked, OneCaller
  <2>3. PICK d \in Channels : InConf(d, y)
    BY <2>1, <2>2 DEF Deserted
  <2>4. d = c
    BY <1>1, <2>1, <2>3 DEF InConf, ConferenceTypes
  <2> QED
    BY <2>3, <2>4 DEF InConf
<1>5. Checked(t)' = confna[c] /\ pc'[t] = "check" /\ request'[t].chan = c /\ \A u \in Threads : u = t
  BY <1>1 DEF Checked, ConferenceTypes, OneCaller
<1>6. DesertedIsChecked'
  BY <1>4, <1>5 DEF DesertedIsChecked, Checked
<1>7. CallsSensible'
  BY <1>5 DEF CallsSensible
<1>8. MembersNumbered' /\ confrev'[MAX_CONF] = 0
  BY <1>1, <1>2 DEF MembersNumbered, ConferenceTypes
<1>9. AliasesAgree'
  BY <1>1, <1>2 DEF AliasesAgree, ConferenceTypes
<1> QED
  BY <1>3, <1>6, <1>7, <1>8, <1>9

(* The conference a member joins. *)
LEMMA ChosenIsConference ==
  ASSUME OneCaller, NEW r \in Requests, r.conf = -1 => EmptyConferences # {}
  PROVE  /\ Chosen(r) \in Int
         /\ r.mode.mode \in Mixing => Chosen(r) \in 1..MAX_CONF - 1
<1>1. /\ r \in [chan : Channels, conf : Numbers \cup {-1, 0}, mode : Confmodes]
      /\ r.mode = Normal <=> r.conf = 0
  BY DEF Requests
<1>2. r.mode.mode \in Mixing => r.conf # 0
  BY <1>1 DEF Normal, Mixing
<1>3. CASE r.conf = -1
  <2>1. EmptyConferences \subseteq 0..MAX_CONF /\ EmptyConferences # {}
    BY <1>3 DEF EmptyConferences
  <2>2. Max(EmptyConferences) \in EmptyConferences
    BY <2>1, MaxInSet
  <2>3. Chosen(r) \in 1..MAX_CONF - 1
    BY <1>3, <2>2 DEF Chosen, EmptyConferences
  <2> QED
    BY <2>3
<1>4. CASE r.conf # -1
  <2>1. r.conf \in Numbers \cup {0} /\ Chosen(r) = r.conf
    BY <1>1, <1>4 DEF Chosen
  <2>2. Numbers \subseteq 1..MAX_CONF - 1
    BY DEF OneCaller
  <2>3. CASE r.conf = 0
    BY <1>2, <2>1, <2>3
  <2>4. CASE r.conf \in Numbers
    <3>1. r.conf \in 1..MAX_CONF - 1
      BY <2>2, <2>4
    <3> QED
      BY <2>1, <3>1
  <2> QED
    BY <2>1, <2>3, <2>4
<1> QED
  BY <1>3, <1>4

LEMMA AliasJoin ==
  ASSUME OneCaller, AliasInv, NEW t \in Threads, join(t)
  PROVE  AliasInv'
<1> USE DEF AliasInv
<1> DEFINE r == request[t]
           c == r.chan
           x == Chosen(r)
           a == first_empty_alias
           mixes == r.mode.mode \in Mixing
<1>1. /\ pc[t] = "join" /\ r \in Requests
      /\ r.conf = -1 => EmptyConferences # {}
  BY DEF join, CallsSensible
<1>2. /\ confna' = [confna EXCEPT ![c] = x]
      /\ confmode' = [confmode EXCEPT ![c] = r.mode]
      /\ confn' = [confn EXCEPT ![c] = IF mixes THEN confalias'[x] ELSE 0]
  BY DEF join
<1>21. \/ /\ pc' = [pc EXCEPT ![t] = "preecho"] /\ request' = request
          /\ unchecked' = unchecked \cup {y \in Confs : InConf(c, y)}
       \/ /\ pc' = [pc EXCEPT ![t] = "check"]
          /\ request' = [request EXCEPT ![t].conf = confna[c]]
          /\ unchecked' = unchecked
  BY DEF join, GoTo
<1>3. \/ /\ mixes /\ confalias[x] = 0
         /\ confalias' = [confalias EXCEPT ![x] = a]
         /\ confrev' = [confrev EXCEPT ![a] = x]
         /\ maxconfs' = recalc_maxconfs(confrev')
      \/ /\ ~(mixes /\ confalias[x] = 0)
         /\ confalias' = confalias /\ confrev' = confrev /\ maxconfs' = maxconfs
  BY DEF join, new_alias, aliases
<1>4. x \in Int /\ (mixes => x \in 1..MAX_CONF - 1)
  BY <1>1, ChosenIsConference
<1>5. c \in Channels /\ r.mode \in Confmodes
  <2>1. r \in [chan : Channels, conf : Numbers \cup {-1, 0}, mode : Confmodes]
    BY <1>1 DEF Requests
  <2> QED
    BY <2>1
<1>6. ASSUME mixes, confalias[x] = 0 PROVE a \in 1..MAX_CONF - 1 /\ confrev[a] = 0
  BY <1>4, <1>6, AliasForEach
<1>7. r \in [chan : Channels \cup {None}, conf : Int, mode : Confmodes]
  BY DEF ConferenceTypes
<1> HIDE DEF r, c, x, a, mixes
<1>8. mixes => x \in Confs /\ x # 0
  BY <1>4 DEF Confs
<1>9. ASSUME mixes, confalias[x] = 0 PROVE a \in Confs /\ a # 0 /\ a \in 0..MAX_CONF - 1
  BY <1>6, <1>9 DEF Confs
<1>10. confalias' \in [Confs -> 0..MAX_CONF - 1] /\ confrev' \in [Confs -> 0..MAX_CONF - 1]
  <2>1. CASE mixes /\ confalias[x] = 0
    BY <1>3, <1>4, <1>9, <2>1 DEF ConferenceTypes
  <2>2. CASE ~(mixes /\ confalias[x] = 0)
    BY <1>3, <2>2 DEF ConferenceTypes
  <2> QED
    BY <2>1, <2>2
<1>11. ConferenceTypes'
  <2>1. confna' \in [Channels -> Int] /\ confmode' \in [Channels -> Confmodes]
    BY <1>2, <1>4, <1>5 DEF ConferenceTypes
  <2>2. (IF mixes THEN confalias'[x] ELSE 0) \in Int
    BY <1>8, <1>10
  <2>3. confn' \in [Channels -> Int]
    BY <1>2, <2>2 DEF ConferenceTypes
  <2>4. pc' \in [Threads -> Places]
    BY <1>21 DEF ConferenceTypes, Places
  <2>5. confna[c] \in Int
    BY <1>5 DEF ConferenceTypes
  <2>6. [r EXCEPT !.conf = confna[c]] \in
          [chan : Channels \cup {None}, conf : Int, mode : Confmodes]
    BY <1>7, <2>5
  <2>7. request' \in [Threads -> [chan : Channels \cup {None}, conf : Int, mode : Confmodes]]
    BY <1>21, <2>6 DEF ConferenceTypes, r
  <2> QED
    BY <1>10, <2>1, <2>3, <2>4, <2>7 DEF ConferenceTypes
<1>12. ASSUME NEW y \in Deserted' PROVE y \in unchecked \/ (y \in Confs /\ InConf(c, y))
  <2> SUFFICES ASSUME y \notin unchecked, ~(y \in Confs /\ InConf(c, y)) PROVE FALSE
    OBVIOUS
  <2>1. y \in Confs /\ confalias'[y] # 0 /\ \A d \in Channels : ~InConf(d, y)'
    BY <1>12 DEF Deserted
  <2>2. y \notin Deserted
    BY <1>1 DEF DesertedIsChecked, OneCaller
  <2>3. ~(mixes /\ y = x)
    <3>1. mixes => confna'[c] = x /\ confmode'[c].mode \in Mixing
      BY <1>2, <1>5 DEF mixes, ConferenceTypes
    <3>2. ~(confna'[c] = y /\ confmode'[c].mode \in Mixing)
      BY <1>5, <2>1 DEF InConf
    <3> QED
      BY <3>1, <3>2
  <2>4. confalias[y] # 0
    BY <1>3, <2>1, <2>3 DEF ConferenceTypes
  <2>5. PICK d \in Channels : InConf(d, y)
    BY <2>1, <2>2, <2>4 DEF Deserted
  <2>6. d # c
    BY <2>1, <2>5
  <2>7. InConf(d, y)'
    BY <1>2, <2>5, <2>6 DEF InConf, ConferenceTypes
  <2> QED
    BY <2>1, <2>7
<1>13. request'[t].chan = c /\ \A u \in Threads : u = t
  BY <1>21, <1>7 DEF ConferenceTypes, OneCaller, r, c
<1>14. DesertedIsChecked' /\ CallsSensible'
  <2>1. CASE pc'[t] = "preecho" /\ unchecked' = unchecked \cup {y \in Confs : InConf(c, y)}
    BY <1>5, <1>12, <1>13, <2>1 DEF DesertedIsChecked, CallsSensible
  <2>2. CASE /\ pc'[t] = "check" /\ unchecked' = unchecked
             /\ request' = [request EXCEPT ![t].conf = confna[c]]
    <3>1. Checked(t)' = confna[c]
      BY <1>7, <2>2 DEF ConferenceTypes, Checked
    <3>2. \A y : InConf(c, y) => y = confna[c]
      BY DEF InConf
    <3> QED
      BY <1>5, <1>12, <1>13, <2>2, <3>1, <3>2 DEF DesertedIsChecked, CallsSensible
  <2> QED
    BY <1>21, <2>1, <2>2 DEF ConferenceTypes
<1>15. MembersNumbered'
  BY <1>2, <1>5, <1>8 DEF MembersNumbered, ConferenceTypes, mixes
<1>16. confrev'[MAX_CONF] = 0
  <2>1. CASE mixes /\ confalias[x] = 0
    <3>1. MAX_CONF \in Confs /\ a # MAX_CONF
      BY <1>6, <2>1 DEF Confs
    <3> QED
      BY <1>3, <2>1, <3>1 DEF ConferenceTypes
  <2>2. CASE ~(mixes /\ confalias[x] = 0)
    BY <1>3, <2>2
  <2> QED
    BY <2>1, <2>2
<1>17. ASSUME NEW y \in Confs, NEW b \in Confs PROVE confalias'[y] = b <=> confrev'[b] = y
  <2>1. /\ confalias[y] = b <=> confrev[b] = y
        /\ b # 0 /\ y # 0
    BY DEF AliasesAgree, Confs
  <2>2. CASE mixes /\ confalias[x] = 0
    <3>1. a \in Confs /\ x \in Confs /\ confrev[a] = 0
      BY <1>6, <1>8, <1>9, <2>2
    <3>2. (confalias[x] = b <=> confrev[b] = x) /\ (confalias[y] = a <=> confrev[a] = y)
      BY <3>1 DEF AliasesAgree
    <3> QED
      BY <1>3, <2>1, <2>2, <3>1, <3>2 DEF ConferenceTypes
  <2>3. CASE ~(mixes /\ confalias[x] = 0)
    BY <1>3, <2>1, <2>3
  <2> QED
    BY <2>2, <2>3
<1>18. ASSUME NEW b \in Confs, confrev'[b] # 0 PROVE b < maxconfs'
  <2>1. CASE mixes /\ confalias[x] = 0
    <3>1. confrev' \in [Confs -> Nat]
      BY <1>10
    <3>2. b \in 1..MAX_CONF - 1
      BY <1>16, <1>18 DEF Confs
    <3> QED
      BY <1>3, <1>18, <2>1, <3>1, <3>2, RecalcBounds
  <2>2. CASE ~(mixes /\ confalias[x] = 0)
    BY <1>3, <1>18, <2>2 DEF AliasesAgree
  <2> QED
    BY <2>1, <2>2
<1>19. ASSUME NEW d \in Channels, confmode'[d].mode \in Mixing
       PROVE  confn'[d] \in Confs /\ confrev'[confn'[d]] = confna'[d]
  <2>1. CASE d = c
    <3>1. mixes /\ confna'[d] = x /\ confn'[d] = confalias'[x]
      BY <1>2, <1>5, <1>19, <2>1 DEF ConferenceTypes, mixes
    <3>2. x \in Confs /\ confalias'[x] # 0
      BY <1>3, <1>8, <1>9, <3>1 DEF ConferenceTypes
    <3>3. confalias'[x] \in Confs
      BY <1>10, <3>2 DEF Confs
    <3> QED
      BY <1>17, <3>1, <3>2, <3>3
  <2>2. CASE d # c
    <3>1. confmode[d].mode \in Mixing /\ confn'[d] = confn[d] /\ confna'[d] = confna[d]
      BY <1>2, <1>19, <2>2 DEF ConferenceTypes
    <3>2. confn[d] \in Confs /\ confrev[confn[d]] = confna[d] /\ confna[d] # 0
      BY <3>1 DEF AliasesAgree, MembersNumbered, Confs
    <3>3. mixes /\ confalias[x] = 0 => confn[d] # a
      BY <1>6, <3>2
    <3> QED
      BY <1>3, <3>1, <3>2, <3>3 DEF ConferenceTypes
  <2> QED
    BY <2>1, <2>2
<1>20. AliasesAgree'
  BY <1>17, <1>18, <1>19 DEF AliasesAgree
<1> QED
  BY <1>11, <1>14, <1>15, <1>16, <1>20

LEMMA AliasStep ==
  ASSUME OneCaller
  PROVE  AliasInv /\ [ConfNext]_confVars => AliasInv'
<1> SUFFICES ASSUME AliasInv, [ConfNext]_confVars PROVE AliasInv'
  OBVIOUS
<1>1. CASE ConfNext
  BY <1>1, AliasCalls, AliasCheck, AliasClear, AliasJoin, AliasClose DEF ConfNext
<1>2. CASE UNCHANGED confVars
  BY <1>2 DEF confVars, aliases, members, calls, AliasInv, ConferenceTypes, CallsSensible,
              DesertedIsChecked, MembersNumbered, AliasesAgree, Deserted, InConf, Checked
<1> QED
  BY <1>1, <1>2
-----------------------------------------------------------------------------
(* A step of the mixer is a call of Conference, or none.                   *)
LEMMA MixStepIsConf == [MixNext]_vars => [ConfNext]_confVars
<1>1. MixRound => UNCHANGED confVars
  BY DEF MixRound, round_start, rotate, receive, transmit, pseudo_tx, pseudo_rx
<1>2. ASSUME NEW t \in Threads, Call(t) PROVE ConfNext
  BY <1>2 DEF Call, ConfNext
<1>3. ASSUME NEW t \in Threads, Join(t) PROVE ConfNext
  BY <1>3 DEF Join, ConfNext
<1>4. ASSUME NEW t \in Threads, NEW c \in Channels, Close(t, c) PROVE ConfNext
  BY <1>4 DEF Close, ConfNext
<1>5. ASSUME NEW c \in Lines, Mute(c) PROVE UNCHANGED confVars
  BY <1>5 DEF Mute
<1>6. UNCHANGED vars => UNCHANGED confVars
  BY DEF vars
<1> QED
  BY <1>1, <1>2, <1>3, <1>4, <1>5, <1>6 DEF MixNext

(* The mixing leaves the tables alone, and the calls of the mixer are      *)
(* those of Conference: what holds there of the tables holds here.         *)
THEOREM MixImplementsConf == MixSpec => ConfSpec
<1>1. MixInit => ConfInit
  BY DEF MixInit
<1> QED
  BY <1>1, MixStepIsConf, PTL DEF MixSpec, ConfSpec

(* One thread at a time in DAHDI_SETCONF and close(): every alias in use   *)
(* has one conference, and one that somebody is in or that a channel left  *)
(* to listen to another before its echo canceller, whatever the number of  *)
(* channels and conferences (dahdi_get_conf_alias, dahdi_check_conf and    *)
(* the return of DAHDI_SETCONF before it).                                 *)
THEOREM MixAliasesSound == OneCaller => (MixSpec => []AliasesSound)
<1> SUFFICES ASSUME OneCaller PROVE MixSpec => []AliasesSound
  OBVIOUS
<1>1. ConfSpec => []AliasInv
  BY AliasAtFirst, AliasStep, PTL DEF ConfSpec
<1> QED
  BY <1>1, AliasEnough, MixImplementsConf, PTL
-----------------------------------------------------------------------------
(* The number of lines and of pseudo channels a round goes through, and    *)
(* where in it the sums rotate.                                            *)
L == Len(LineOrder)
P == Len(PseudoOrder)
Turn == L + 1

(* Every channel has one place in the round, and is a line or a pseudo     *)
(* channel.                                                                *)
OnePlaceEach ==
  /\ \A i, j \in 1..L : LineOrder[i] = LineOrder[j] => i = j
  /\ \A i, j \in 1..P : PseudoOrder[i] = PseudoOrder[j] => i = j
  /\ Lines \cap Pseudos = {}

(* A line that monitors a conference does not talk in it.                  *)
Monitoring == {"CONFMON", "CONFANNMON"}
MonitorsQuiet ==
  \A c \in Lines : \A m \in Settings[c] : m.mode \in Monitoring => "TALKER" \notin m.flags

(* Channel d adds to row a.                                                *)
MixesBy(d, a) == Mode(d) \in Mixing /\ confn[d] = a

(* A row holds what its members say, once.                                 *)
Collects(row, a, voices) ==
  \A s \in Sources : row[s] = IF MixesBy(s[1], a) THEN voices[s] ELSE 0

Sounds == [Sources -> Int]

MixTypes ==
  /\ conf_sums_prev \in [Rows -> Sounds]
  /\ conf_sums \in [Rows -> Sounds]
  /\ conf_sums_next \in [Rows -> Sounds]
  /\ conflast \in [Channels -> Sounds]
  /\ conflast1 \in [Channels -> Sounds]
  /\ conflast2 \in [Channels -> Sounds]
  /\ confmute \in [Lines -> BOOLEAN]
  /\ step \in 0..2*L + 2*P + 1
  /\ chunk \in {0, 1}
  /\ spoken \in [Sources -> {0, 1}]
  /\ mixed \in [Sources -> {0, 1}]
  /\ past \in [Sources -> {0, 1}]
  /\ calm \in 0..Calm

QuietLines == \A c \in Lines : Mode(c) \in Monitoring => ~Has(c, "TALKER")

(* A set of sums is right once the last change is that many rounds ago.    *)
SumsRight ==
  \A c \in Channels : Mode(c) \in Mixing =>
    /\ calm >= 1 => Collects(conf_sums_next[confn[c]], confn[c], spoken)
    /\ calm >= 2 => Collects(conf_sums[confn[c]], confn[c], mixed)
    /\ calm >= 3 => Collects(conf_sums_prev[confn[c]], confn[c], past)

(* Nobody has spoken for a chunk before his place in the round.            *)
VoicesFresh ==
  /\ \A i \in 1..L :
       /\ step \notin i + 1..Turn => spoken[<<LineOrder[i], "line">>] = 0
       /\ step \in Turn + 1..Turn + 2*P + i => spoken[<<LineOrder[i], "app">>] = 0
  /\ \A i \in 1..P :
       /\ spoken[<<PseudoOrder[i], "app">>] = 0
       /\ step \in Turn + 1..Turn + i => mixed[<<PseudoOrder[i], "app">>] = 0

(* conflast of a line: what it put into the next set, and after the sums   *)
(* have rotated what it put into the current one.                          *)
LineLasts ==
  \A i \in 1..L :
    LET c == LineOrder[i]
        own == <<c, "line">>
    IN  Mode(c) \in Mixing /\ Takes(c) =>
          /\ calm >= 1 /\ step \in i + 1..Turn => conflast[c] = Voice(own, spoken[own])
          /\ calm >= 2 /\ step \notin i + 1..Turn => conflast[c] = Voice(own, mixed[own])

(* conflast of a pseudo channel until the round is past it.                *)
PseudoLasts ==
  \A i \in 1..P :
    LET c == PseudoOrder[i]
        own == <<c, "app">>
    IN  calm >= 1 /\ Mode(c) = "CONF" /\ step \in Turn + i + 1..Turn + 2*P =>
          conflast[c] = Voice(own, mixed[own])

(* conflast1 and conflast2 of the pseudo side: a set of sums behind each   *)
(* other.                                                                  *)
SideLasts ==
  \A i \in 1..L :
    LET c == LineOrder[i]
        own == <<c, "app">>
        before == step \in Turn + 1..Turn + 2*P + i
    IN  Mode(c) = "REALANDPSEUDO" /\ Takes(c) =>
          /\ calm >= 1 /\ ~before => conflast1[c] = Voice(own, spoken[own])
          /\ calm >= 2 /\ ~before => conflast2[c] = Voice(own, mixed[own])
          /\ calm >= 2 /\ before => conflast1[c] = Voice(own, mixed[own])
          /\ ~Has(c, "PSEUDO_TALKER") =>
               /\ calm >= 1 => spoken[own] = 0
               /\ calm >= 2 => mixed[own] = 0

MixSound ==
  /\ MixTypes /\ QuietLines
  /\ SumsRight /\ VoicesFresh /\ LineLasts /\ PseudoLasts /\ SideLasts
  /\ HearsOthersOnce
-----------------------------------------------------------------------------
(* How long a round is.                                                    *)
LEMMA RoundSizes ==
  /\ L \in Nat /\ P \in Nat
  /\ LineOrder \in [1..L -> Lines] /\ PseudoOrder \in [1..P -> Pseudos]
BY MixerAssumption DEF MixerAssumption, L, P

(* A list of channels as a part of the round.                              *)
LEMMA VisitIs ==
  ASSUME NEW what, NEW S, NEW order \in Seq(S)
  PROVE  /\ Visit(what, order) \in Seq({what} \X S)
         /\ Len(Visit(what, order)) = Len(order)
         /\ \A i \in 1..Len(order) : Visit(what, order)[i] = <<what, order[i]>>
<1>1. DOMAIN order = 1..Len(order) /\ Len(order) \in Nat /\ \A i \in 1..Len(order) : order[i] \in S
  OBVIOUS
<1>2. Visit(what, order) = [i \in 1..Len(order) |-> <<what, order[i]>>]
  BY <1>1 DEF Visit
<1>3. Visit(what, order) \in [1..Len(order) -> {what} \X S]
  BY <1>1, <1>2
<1> QED
  BY <1>1, <1>2, <1>3

(* The two parts of a sequence that is put together.                       *)
LEMMA JoinedIs ==
  ASSUME NEW S, NEW s \in Seq(S), NEW t \in Seq(S)
  PROVE  /\ s \o t \in Seq(S) /\ Len(s \o t) = Len(s) + Len(t)
         /\ \A i \in 1..Len(s) : (s \o t)[i] = s[i]
         /\ \A i \in 1..Len(t) : (s \o t)[Len(s) + i] = t[i]
OBVIOUS

(* The round, place by place.                                              *)
LEMMA RoundIs ==
  /\ Len(Round) = 2*L + 2*P + 1
  /\ \A i \in 1..L : Round[i] = <<"receive", LineOrder[i]>>
  /\ Round[Turn] = <<"rotate", None>>
  /\ \A i \in 1..P : Round[Turn + i] = <<"pseudo_tx", PseudoOrder[i]>>
  /\ \A i \in 1..P : Round[Turn + P + i] = <<"pseudo_rx", PseudoOrder[i]>>
  /\ \A i \in 1..L : Round[Turn + 2*P + i] = <<"transmit", LineOrder[i]>>
<1> DEFINE T == {"receive", "rotate", "pseudo_tx", "pseudo_rx", "transmit"}
                  \X (Channels \cup {None})
<1>1. LineOrder \in Seq(Channels \cup {None}) /\ PseudoOrder \in Seq(Channels \cup {None})
  BY MixerAssumption DEF MixerAssumption, Channels
<1>13. PICK S, a, b, c, d, e :
         /\ S = T /\ b = <<<<"rotate", None>>>>
         /\ a = Visit("receive", LineOrder) /\ e = Visit("transmit", LineOrder)
         /\ c = Visit("pseudo_tx", PseudoOrder) /\ d = Visit("pseudo_rx", PseudoOrder)
  OBVIOUS
<1>2. /\ a \in Seq(S) /\ Len(a) = L /\ \A i \in 1..L : a[i] = <<"receive", LineOrder[i]>>
      /\ e \in Seq(S) /\ Len(e) = L /\ \A i \in 1..L : e[i] = <<"transmit", LineOrder[i]>>
  <2>1. /\ {"receive"} \X (Channels \cup {None}) \subseteq S
        /\ {"transmit"} \X (Channels \cup {None}) \subseteq S
    BY <1>13
  <2>2. /\ a \in Seq({"receive"} \X (Channels \cup {None}))
        /\ e \in Seq({"transmit"} \X (Channels \cup {None}))
    BY <1>1, <1>13, VisitIs
  <2>3. a \in Seq(S) /\ e \in Seq(S)
    BY <2>1, <2>2
  <2> QED
    BY <1>1, <1>13, <2>3, VisitIs, ZenonT(40) DEF L
<1>3. /\ c \in Seq(S) /\ Len(c) = P /\ \A i \in 1..P : c[i] = <<"pseudo_tx", PseudoOrder[i]>>
      /\ d \in Seq(S) /\ Len(d) = P /\ \A i \in 1..P : d[i] = <<"pseudo_rx", PseudoOrder[i]>>
  <2>1. /\ {"pseudo_tx"} \X (Channels \cup {None}) \subseteq S
        /\ {"pseudo_rx"} \X (Channels \cup {None}) \subseteq S
    BY <1>13
  <2>2. /\ c \in Seq({"pseudo_tx"} \X (Channels \cup {None}))
        /\ d \in Seq({"pseudo_rx"} \X (Channels \cup {None}))
    BY <1>1, <1>13, VisitIs
  <2>3. c \in Seq(S) /\ d \in Seq(S)
    BY <2>1, <2>2
  <2> QED
    BY <1>1, <1>13, <2>3, VisitIs, ZenonT(40) DEF P
<1>4. b \in Seq(S) /\ Len(b) = 1 /\ b[1] = <<"rotate", None>>
  BY <1>13
<1>5. L \in Nat /\ P \in Nat /\ Turn \in Nat
  BY RoundSizes DEF Turn
<1>18. a \in Seq(S) /\ b \in Seq(S) /\ c \in Seq(S) /\ d \in Seq(S) /\ e \in Seq(S)
  BY <1>2, <1>3, <1>4
<1>19. Len(a) = L /\ Len(b) = 1 /\ Len(c) = P /\ Len(d) = P /\ Len(e) = L
  BY <1>2, <1>3, <1>4
<1> HIDE DEF T
<1>6. PICK ab \in Seq(S), abc \in Seq(S), abcd \in Seq(S) :
        ab = a \o b /\ abc = ab \o c /\ abcd = abc \o d
  <2>1. PICK ab \in Seq(S) : ab = a \o b
    BY <1>18, <1>19, JoinedIs
  <2>2. PICK abc \in Seq(S) : abc = ab \o c
    BY <1>18, <1>19, <2>1, JoinedIs
  <2>3. PICK abcd \in Seq(S) : abcd = abc \o d
    BY <1>18, <1>19, <2>2, JoinedIs
  <2> QED
    BY <2>1, <2>2, <2>3
<1>7. PICK all : all = Round /\ all = abcd \o e
  BY <1>6, <1>13 DEF Round
<1>8. /\ Len(ab) = Turn
      /\ \A i \in 1..L : ab[i] = a[i]
      /\ ab[Turn] = b[1]
  <2>1. ab = a \o b /\ a \in Seq(S) /\ b \in Seq(S)
    BY <1>6, <1>7, <1>18
  <2>2. Len(ab) = Len(a) + Len(b)
    BY <2>1, JoinedIs
  <2>3. \A i \in 1..Len(a) : ab[i] = a[i]
    BY <2>1, JoinedIs
  <2>4. \A i \in 1..Len(b) : ab[Len(a) + i] = b[i]
    BY <2>1, JoinedIs
  <2>5. 1 \in 1..Len(b)
    BY <1>19
  <2>6. ab[L + 1] = b[1] /\ \A i \in 1..L : ab[i] = a[i]
    BY <1>19, <2>3, <2>4, <2>5
  <2> QED
    BY <1>19, <2>2, <2>6 DEF Turn
<1>9. /\ Len(abc) = Turn + P
      /\ \A i \in 1..Turn : abc[i] = ab[i]
      /\ \A i \in 1..P : abc[Turn + i] = c[i]
  <2>1. abc = ab \o c /\ ab \in Seq(S) /\ c \in Seq(S)
    BY <1>6, <1>7, <1>18
  <2>2. Len(abc) = Len(ab) + Len(c)
    BY <2>1, JoinedIs
  <2>3. \A i \in 1..Len(ab) : abc[i] = ab[i]
    BY <2>1, JoinedIs
  <2>4. \A i \in 1..Len(c) : abc[Len(ab) + i] = c[i]
    BY <2>1, JoinedIs
  <2> QED
    BY <1>8, <1>19, <2>2, <2>3, <2>4
<1>10. /\ Len(abcd) = Turn + P + P
       /\ \A i \in 1..Turn + P : abcd[i] = abc[i]
       /\ \A i \in 1..P : abcd[Turn + P + i] = d[i]
  <2>1. abcd = abc \o d /\ abc \in Seq(S) /\ d \in Seq(S)
    BY <1>6, <1>7, <1>18
  <2>2. Len(abcd) = Len(abc) + Len(d)
    BY <2>1, JoinedIs
  <2>3. \A i \in 1..Len(abc) : abcd[i] = abc[i]
    BY <2>1, JoinedIs
  <2>4. \A i \in 1..Len(d) : abcd[Len(abc) + i] = d[i]
    BY <2>1, JoinedIs
  <2> QED
    BY <1>9, <1>19, <2>2, <2>3, <2>4
<1>11. /\ Len(all) = Turn + P + P + L
       /\ \A i \in 1..Turn + P + P : all[i] = abcd[i]
       /\ \A i \in 1..L : all[Turn + P + P + i] = e[i]
  <2>1. all = abcd \o e /\ abcd \in Seq(S) /\ e \in Seq(S)
    BY <1>6, <1>7, <1>18
  <2>2. Len(all) = Len(abcd) + Len(e)
    BY <2>1, JoinedIs
  <2>3. \A i \in 1..Len(abcd) : all[i] = abcd[i]
    BY <2>1, JoinedIs
  <2>4. \A i \in 1..Len(e) : all[Len(abcd) + i] = e[i]
    BY <2>1, JoinedIs
  <2> QED
    BY <1>10, <1>19, <2>2, <2>3, <2>4
<1>12. \A i \in 1..Turn : all[i] = ab[i]
  <2>1. \A i \in 1..Turn : i \in 1..Turn + P /\ i \in 1..Turn + P + P
    BY <1>5
  <2> QED
    BY <1>9, <1>10, <1>11, <2>1
<1>14. \A i \in 1..P : all[Turn + i] = c[i] /\ all[Turn + P + i] = d[i]
  <2>1. \A i \in 1..P : Turn + i \in 1..Turn + P /\ Turn + i \in 1..Turn + P + P
                        /\ Turn + P + i \in 1..Turn + P + P
    BY <1>5
  <2> QED
    BY <1>9, <1>10, <1>11, <2>1
<1>15. \A i \in 1..L : all[Turn + 2*P + i] = e[i]
  <2>1. \A i \in 1..L : Turn + P + P + i = Turn + 2*P + i
    BY <1>5
  <2> QED
    BY <1>11, <2>1
<1>16. \A i \in 1..L : all[i] = a[i]
  BY <1>5, <1>8, <1>12 DEF Turn
<1>17. all[Turn] = b[1] /\ Len(all) = 2*L + 2*P + 1
  BY <1>5, <1>8, <1>11, <1>12 DEF Turn
<1> QED
  BY <1>2, <1>3, <1>4, <1>7, <1>14, <1>15, <1>16, <1>17

(* Where the round is at each of its steps.                                *)
LEMMA StepIs ==
  ASSUME step \in 0..2*L + 2*P + 1, NEW c
  PROVE  /\ AtStep("receive", c) => step \in 1..L /\ c = LineOrder[step]
         /\ AtStep("rotate", c) => step = Turn
         /\ AtStep("pseudo_tx", c) => step - Turn \in 1..P /\ c = PseudoOrder[step - Turn]
         /\ AtStep("pseudo_rx", c) =>
              step - Turn - P \in 1..P /\ c = PseudoOrder[step - Turn - P]
         /\ AtStep("transmit", c) =>
              step - Turn - 2*P \in 1..L /\ c = LineOrder[step - Turn - 2*P]
<1>1. L \in Nat /\ P \in Nat /\ Turn \in Nat
  BY RoundSizes DEF Turn
<1> DEFINE i == step - Turn
           j == step - Turn - P
           k == step - Turn - 2*P
<1>2. CASE step = 0
  BY <1>2 DEF AtStep
<1>3. CASE step \in 1..L
  BY <1>3, RoundIs DEF AtStep
<1>4. CASE step = Turn
  BY <1>4, RoundIs DEF AtStep
<1>5. CASE i \in 1..P
  <2>1. Round[Turn + i] = <<"pseudo_tx", PseudoOrder[i]>>
    BY <1>5, RoundIs
  <2>2. Turn + i = step
    BY <1>1
  <2>3. Round[step] = <<"pseudo_tx", PseudoOrder[i]>>
    BY <2>1, <2>2
  <2> QED
    BY <1>5, <2>3 DEF AtStep
<1>6. CASE j \in 1..P
  <2>1. Round[Turn + P + j] = <<"pseudo_rx", PseudoOrder[j]>>
    BY <1>6, RoundIs
  <2>2. Turn + P + j = step
    BY <1>1
  <2>3. Round[step] = <<"pseudo_rx", PseudoOrder[j]>>
    BY <2>1, <2>2
  <2> QED
    BY <1>6, <2>3 DEF AtStep
<1>7. CASE k \in 1..L
  <2>1. Round[Turn + 2*P + k] = <<"transmit", LineOrder[k]>>
    BY <1>7, RoundIs
  <2>2. Turn + 2*P + k = step
    BY <1>1
  <2>3. Round[step] = <<"transmit", LineOrder[k]>>
    BY <2>1, <2>2
  <2> QED
    BY <1>7, <2>3 DEF AtStep
<1>8. step = 0 \/ step \in 1..L \/ step = Turn \/ i \in 1..P \/ j \in 1..P \/ k \in 1..L
  BY <1>1 DEF Turn
<1> QED
  BY <1>2, <1>3, <1>4, <1>5, <1>6, <1>7, <1>8
-----------------------------------------------------------------------------
(* The line and the application of a channel are different sources.        *)
LEMMA SourcesAre ==
  /\ \A s \in Sources : s[1] \in Channels
  /\ \A c \in Channels : <<c, "app">> \in Sources /\ <<c, "app">>[1] = c
  /\ \A c \in Lines : <<c, "line">> \in Sources /\ <<c, "line">>[1] = c
  /\ \A c \in Channels, d \in Channels : <<c, "app">> # <<d, "line">>
BY DEF Sources, Channels

(* Sums and differences of chunks.                                         *)
LEMMA SoundsAre ==
  /\ Silence \in Sounds
  /\ \A a \in Sounds, b \in Sounds : Plus(a, b) \in Sounds /\ Minus(a, b) \in Sounds
  /\ \A s : \A v \in {0, 1} : Voice(s, v) \in Sounds
<1>1. \A a \in Sounds, b \in Sounds, s \in Sources : a[s] \in Int /\ b[s] \in Int
  BY DEF Sounds
<1> QED
  BY <1>1 DEF Sounds, Silence, Plus, Minus, Voice

(* Silence is a voice that says nothing.                                   *)
LEMMA VoiceOfNone == \A s : Voice(s, 0) = Silence
BY DEF Voice, Silence

(* A member mixes by the row of its conference, which is one of the rows   *)
(* that rotate_sums clears, and by no other.                               *)
LEMMA RowOfMember ==
  ASSUME AliasInv, NEW c \in Channels, Mode(c) \in Mixing
  PROVE  /\ confn[c] \in Rows /\ confn[c] < maxconfs
         /\ \A d \in Channels : InConf(d, confna[c]) <=> MixesBy(d, confn[c])
<1>1. \A d \in Channels : Mode(d) \in Mixing =>
        /\ confn[d] \in Confs /\ confrev[confn[d]] = confna[d] /\ confna[d] \in Confs
        /\ confalias[confna[d]] = confn[d]
  BY DEF AliasInv, AliasesAgree, MembersNumbered, Mode
<1>2. confrev[MAX_CONF] = 0 /\ confna[c] # 0
  BY <1>1 DEF AliasInv, Confs
<1>3. confn[c] \in Rows
  <2>1. confn[c] # MAX_CONF /\ confn[c] \in 1..MAX_CONF
    BY <1>1, <1>2 DEF Confs
  <2> QED
    BY <2>1 DEF Rows
<1>4. confn[c] < maxconfs
  BY <1>1, <1>2 DEF AliasInv, AliasesAgree
<1> QED
  BY <1>1, <1>3, <1>4 DEF InConf, MixesBy, Mode

(* A voice that is added to the row of the source's conference.            *)
LEMMA VoiceAdded ==
  ASSUME NEW row \in Sounds, NEW a, NEW v \in [Sources -> {0, 1}], Collects(row, a, v),
         NEW s \in Sources, v[s] = 0, MixesBy(s[1], a), NEW w \in {0, 1}
  PROVE  Collects(Plus(row, Voice(s, w)), a, [v EXCEPT ![s] = w])
<1> SUFFICES ASSUME NEW t \in Sources
             PROVE  Plus(row, Voice(s, w))[t]
                      = IF MixesBy(t[1], a) THEN [v EXCEPT ![s] = w][t] ELSE 0
  BY DEF Collects
<1>1. row[t] = (IF MixesBy(t[1], a) THEN v[t] ELSE 0) /\ v[t] \in {0, 1}
  BY DEF Collects
<1>2. Plus(row, Voice(s, w))[t] = row[t] + (IF t = s THEN w ELSE 0)
  BY DEF Plus, Voice
<1>3. [v EXCEPT ![s] = w][t] = IF t = s THEN w ELSE v[t]
  OBVIOUS
<1>4. CASE t = s
  BY <1>1, <1>2, <1>3, <1>4
<1>5. CASE t # s
  BY <1>1, <1>2, <1>3, <1>5
<1> QED
  BY <1>4, <1>5

(* The row of another conference.                                          *)
LEMMA VoiceElsewhere ==
  ASSUME NEW row \in Sounds, NEW a, NEW v \in [Sources -> {0, 1}], Collects(row, a, v),
         NEW s \in Sources, ~MixesBy(s[1], a), NEW w \in {0, 1}
  PROVE  Collects(row, a, [v EXCEPT ![s] = w])
BY DEF Collects

(* The row of a conference without what one of its members has put there   *)
(* is what the others say.                                                 *)
LEMMA OthersSay ==
  ASSUME AliasInv, NEW c \in Channels, Mode(c) \in Mixing,
         NEW row \in Sounds, NEW v \in [Sources -> {0, 1}], Collects(row, confn[c], v),
         NEW s \in Sources, s[1] = c, NEW last, last = Voice(s, v[s])
  PROVE  Minus(row, last) = Conversation(confna[c], s, v)
<1> SUFFICES ASSUME NEW t \in Sources
             PROVE  row[t] - last[t] = IF t # s /\ InConf(t[1], confna[c]) THEN v[t] ELSE 0
  BY DEF Minus, Conversation
<1>1. row[t] = (IF InConf(t[1], confna[c]) THEN v[t] ELSE 0) /\ v[t] \in {0, 1} /\ row[t] \in Int
  BY SourcesAre, RowOfMember DEF Collects, Sounds
<1>2. last[t] = IF t = s THEN v[s] ELSE 0
  BY DEF Voice
<1>3. CASE t = s
  <2>1. InConf(t[1], confna[c])
    BY <1>3 DEF InConf, Mode
  <2> QED
    BY <1>1, <1>2, <1>3, <2>1
<1>4. CASE t # s
  BY <1>1, <1>2, <1>4
<1> QED
  BY <1>3, <1>4

(* The row of a conference is what all its members say.                    *)
LEMMA AllSay ==
  ASSUME AliasInv, NEW c \in Channels, Mode(c) \in Mixing,
         NEW row \in Sounds, NEW v, Collects(row, confn[c], v)
  PROVE  row = Conversation(confna[c], NoEar.to, v)
<1> SUFFICES ASSUME NEW t \in Sources
             PROVE  row[t] = IF t # NoEar.to /\ InConf(t[1], confna[c]) THEN v[t] ELSE 0
  BY DEF Conversation, Sounds
<1>1. t # NoEar.to
  BY SourcesAre DEF NoEar
<1> QED
  BY <1>1, SourcesAre, RowOfMember DEF Collects
-----------------------------------------------------------------------------
(* What a step of the round that leaves the members alone has to show.     *)
LEMMA SumsKept ==
  ASSUME UNCHANGED confVars,
         \A c \in Channels : Mode(c) \in Mixing =>
           /\ calm' >= 1 => Collects(conf_sums_next'[confn[c]], confn[c], spoken')
           /\ calm' >= 2 => Collects(conf_sums'[confn[c]], confn[c], mixed')
           /\ calm' >= 3 => Collects(conf_sums_prev'[confn[c]], confn[c], past')
  PROVE  SumsRight'
BY DEF SumsRight, Collects, MixesBy, Mode, confVars, members

(* A member puts a voice into one of the sets.                             *)
LEMMA RowsAdded ==
  ASSUME AliasInv, NEW rows \in [Rows -> Sounds], NEW v \in [Sources -> {0, 1}],
         NEW s \in Sources, v[s] = 0, NEW w \in {0, 1}, NEW c \in Channels, s[1] = c,
         Mode(c) \in Mixing, NEW d \in Channels, Mode(d) \in Mixing,
         Collects(rows[confn[d]], confn[d], v)
  PROVE  Collects(AddTo(rows, c, Voice(s, w))[confn[d]], confn[d], [v EXCEPT ![s] = w])
<1>1. confn[c] \in Rows /\ confn[d] \in Rows
  BY RowOfMember
<1>2. rows[confn[d]] \in Sounds
  BY <1>1
<1>3. CASE confn[d] = confn[c]
  <2>1. AddTo(rows, c, Voice(s, w))[confn[d]] = Plus(rows[confn[d]], Voice(s, w))
    BY <1>1, <1>3 DEF AddTo
  <2>2. MixesBy(s[1], confn[d])
    BY <1>3 DEF MixesBy
  <2>3. Collects(Plus(rows[confn[d]], Voice(s, w)), confn[d], [v EXCEPT ![s] = w])
    BY <1>2, <2>2, VoiceAdded
  <2> QED
    BY <2>1, <2>3
<1>4. CASE confn[d] # confn[c]
  <2>1. AddTo(rows, c, Voice(s, w))[confn[d]] = rows[confn[d]]
    BY <1>1, <1>4 DEF AddTo
  <2>2. ~MixesBy(s[1], confn[d])
    BY <1>4 DEF MixesBy
  <2>3. Collects(rows[confn[d]], confn[d], [v EXCEPT ![s] = w])
    BY <1>2, <2>2, VoiceElsewhere
  <2> QED
    BY <2>1, <2>3
<1> QED
  BY <1>3, <1>4

(* The rows after a voice has been added to one.                           *)
LEMMA RowsTyped ==
  ASSUME AliasInv, NEW rows \in [Rows -> Sounds], NEW c \in Channels, Mode(c) \in Mixing,
         NEW sound \in Sounds
  PROVE  AddTo(rows, c, sound) \in [Rows -> Sounds]
<1>1. confn[c] \in Rows
  BY RowOfMember
<1>2. Plus(rows[confn[c]], sound) \in Sounds
  BY <1>1, SoundsAre
<1> QED
  BY <1>1, <1>2 DEF AddTo

(* A member talks for the next chunk.                                      *)
LEMMA NextSums ==
  ASSUME AliasInv, MixTypes, SumsRight, UNCHANGED confVars,
         UNCHANGED <<conf_sums, conf_sums_prev, mixed, past, calm>>,
         NEW c \in Channels, Mode(c) \in Mixing,
         NEW s \in Sources, s[1] = c, spoken[s] = 0, NEW w \in {0, 1},
         conf_sums_next' = AddTo(conf_sums_next, c, Voice(s, w)),
         spoken' = [spoken EXCEPT ![s] = w]
  PROVE  SumsRight' /\ conf_sums_next' \in [Rows -> Sounds] /\ spoken' \in [Sources -> {0, 1}]
<1>1. conf_sums_next \in [Rows -> Sounds] /\ spoken \in [Sources -> {0, 1}]
  BY DEF MixTypes
<1>2. ASSUME NEW d \in Channels, Mode(d) \in Mixing, calm' >= 1
      PROVE  Collects(conf_sums_next'[confn[d]], confn[d], spoken')
  <2>1. Collects(conf_sums_next[confn[d]], confn[d], spoken)
    BY <1>2 DEF SumsRight
  <2> QED
    BY <1>1, <1>2, <2>1, RowsAdded
<1>3. SumsRight'
  BY <1>2, SumsKept DEF SumsRight
<1>4. conf_sums_next' \in [Rows -> Sounds]
  BY <1>1, RowsTyped, SoundsAre
<1>5. spoken' \in [Sources -> {0, 1}]
  BY <1>1
<1> QED
  BY <1>3, <1>4, <1>5

(* A member talks for this chunk.                                          *)
LEMMA CurrentSums ==
  ASSUME AliasInv, MixTypes, SumsRight, UNCHANGED confVars,
         UNCHANGED <<conf_sums_next, conf_sums_prev, spoken, past, calm>>,
         NEW c \in Channels, Mode(c) \in Mixing,
         NEW s \in Sources, s[1] = c, mixed[s] = 0, NEW w \in {0, 1},
         conf_sums' = AddTo(conf_sums, c, Voice(s, w)),
         mixed' = [mixed EXCEPT ![s] = w]
  PROVE  SumsRight' /\ conf_sums' \in [Rows -> Sounds] /\ mixed' \in [Sources -> {0, 1}]
<1>1. conf_sums \in [Rows -> Sounds] /\ mixed \in [Sources -> {0, 1}]
  BY DEF MixTypes
<1>2. ASSUME NEW d \in Channels, Mode(d) \in Mixing, calm' >= 2
      PROVE  Collects(conf_sums'[confn[d]], confn[d], mixed')
  <2>1. Collects(conf_sums[confn[d]], confn[d], mixed)
    BY <1>2 DEF SumsRight
  <2> QED
    BY <1>1, <1>2, <2>1, RowsAdded
<1>3. SumsRight'
  BY <1>2, SumsKept DEF SumsRight
<1>4. conf_sums' \in [Rows -> Sounds]
  BY <1>1, RowsTyped, SoundsAre
<1>5. mixed' \in [Sources -> {0, 1}]
  BY <1>1
<1> QED
  BY <1>3, <1>4, <1>5

(* Nothing is put into the sums.                                           *)
LEMMA SumsSame ==
  ASSUME SumsRight, UNCHANGED <<members, sums, spoken, mixed, past, calm>>
  PROVE  SumsRight'
BY DEF SumsRight, Collects, MixesBy, Mode, members, sums

(* The chunk that is delivered.                                            *)
LEMMA NobodyHears ==
  ASSUME ear' = NoEar
  PROVE  HearsOthersOnce'
<1>1. ear'.to[1] \notin Channels
  BY DEF NoEar
<1> QED
  BY <1>1 DEF HearsOthersOnce

(* A chunk is delivered that is the right one.                             *)
LEMMA HeardSound ==
  ASSUME UNCHANGED <<confVars, calm, mixed, past>>,
         NEW c \in Channels, NEW side, NEW sound, Hear(c, side, sound),
         calm = Calm =>
           sound = IF side = "app" /\ Mode(c) \in Monitoring
                     THEN Conversation(confna[c], NoEar.to, past)
                     ELSE Conversation(confna[c], <<c, side>>, mixed)
  PROVE  HearsOthersOnce'
<1>1. ear'.to = <<c, side>> /\ ear'.sound = sound
  BY DEF Hear
<1>2. Mode(c)' = Mode(c) /\ confna' = confna /\ confmode' = confmode
  BY DEF Mode, confVars, members
<1> QED
  BY <1>1, <1>2 DEF HearsOthersOnce, Conversation, InConf, Monitoring

(* Three rounds are enough for all three sets of sums.                     *)
LEMMA CalmEnough == Calm >= 3 /\ calm = Calm => calm >= 1 /\ calm >= 2 /\ calm >= 3
BY MixerAssumption DEF MixerAssumption

(* The last chunk that was delivered stays the right one.                  *)
LEMMA StillHeard ==
  ASSUME HearsOthersOnce, UNCHANGED <<members, ear, calm, mixed, past>>
  PROVE  HearsOthersOnce'
BY DEF HearsOthersOnce, Conversation, InConf, Mode, members

(* No channel changes its mode.                                            *)
LEMMA QuietKept ==
  ASSUME QuietLines, UNCHANGED confVars
  PROVE  QuietLines'
BY DEF QuietLines, Mode, Has, confVars, members

(* Where the round goes on.                                                *)
LEMMA RoundGoesOn ==
  ASSUME step \in 0..2*L + 2*P + 1, Advance
  PROVE  /\ L \in Nat /\ P \in Nat /\ Turn \in Nat /\ step \in Nat /\ Turn = L + 1
         /\ step' = IF step = Turn + 2*P + L THEN 0 ELSE step + 1
         /\ step' \in 0..2*L + 2*P + 1
<1>1. L \in Nat /\ P \in Nat /\ Turn \in Nat /\ step \in Nat
  BY RoundSizes DEF Turn
<1>2. Len(Round) = 2*L + 2*P + 1
  BY RoundIs
<1>3. step' = IF step = 2*L + 2*P + 1 THEN 0 ELSE step + 1
  BY <1>2 DEF Advance
<1>4. 2*L + 2*P + 1 = Turn + 2*P + L
  BY <1>1 DEF Turn
<1> QED
  BY <1>1, <1>3, <1>4 DEF Turn
-----------------------------------------------------------------------------
(* The channels of the round are different ones.                           *)
LEMMA PlacesApart ==
  ASSUME OnePlaceEach
  PROVE  /\ \A i \in 1..L : LineOrder[i] \in Lines /\ LineOrder[i] \in Channels
         /\ \A i \in 1..P : PseudoOrder[i] \in Pseudos /\ PseudoOrder[i] \in Channels
         /\ \A i \in 1..L, j \in 1..L : i # j => LineOrder[i] # LineOrder[j]
         /\ \A i \in 1..P, j \in 1..P : i # j => PseudoOrder[i] # PseudoOrder[j]
         /\ \A i \in 1..L, j \in 1..P : LineOrder[i] # PseudoOrder[j]
<1>1. /\ \A i \in 1..L : LineOrder[i] \in Lines
      /\ \A i \in 1..P : PseudoOrder[i] \in Pseudos
  BY RoundSizes
<1> QED
  BY <1>1 DEF OnePlaceEach, Channels

(* round_start moves to the first place.                                   *)
LEMMA StartKeeps ==
  ASSUME AliasInv, MixSound, round_start
  PROVE  MixSound'
<1> USE DEF MixSound
<1>1. /\ step = 0 /\ Advance /\ chunk' \in {0, 1}
      /\ UNCHANGED <<confVars, sums, lasts, confmute, heard, calm, changes>>
  BY DEF round_start
<1>2. /\ UNCHANGED members /\ UNCHANGED <<spoken, mixed, past, ear>>
      /\ UNCHANGED sums /\ UNCHANGED lasts
  BY <1>1 DEF confVars, heard
<1>3. L \in Nat /\ P \in Nat /\ Turn = L + 1 /\ step' = 1 /\ step' \in 0..2*L + 2*P + 1
  BY <1>1, RoundGoesOn DEF MixTypes
<1>4. /\ \A i \in 1..L : step' \notin i + 1..Turn /\ step \notin i + 1..Turn
                         /\ step' \notin Turn + 1..Turn + 2*P + i
                         /\ step \notin Turn + 1..Turn + 2*P + i
      /\ \A i \in 1..P : step' \notin Turn + 1..Turn + i /\ step' \notin Turn + i + 1..Turn + 2*P
  BY <1>1, <1>3
<1>5. MixTypes'
  BY <1>1, <1>2, <1>3 DEF MixTypes, sums, lasts
<1>6. SumsRight' /\ QuietLines' /\ HearsOthersOnce'
  BY <1>1, <1>2, SumsSame, QuietKept, StillHeard
<1>7. VoicesFresh'
  BY <1>2, <1>4 DEF VoicesFresh
<1>8. LineLasts'
  BY <1>1, <1>2, <1>4 DEF LineLasts, Mode, Takes, Voice, members, lasts
<1>9. PseudoLasts'
  BY <1>4 DEF PseudoLasts
<1>10. SideLasts'
  BY <1>1, <1>2, <1>4, ZenonT(40) DEF SideLasts, Mode, Takes, Has, Voice, members, lasts
<1> QED
  BY <1>5, <1>6, <1>7, <1>8, <1>9, <1>10

(* After rotate_sums what was said is being mixed.                         *)
LEMMA RotateKeeps ==
  ASSUME AliasInv, MixSound, Calm >= 3, OnePlaceEach, rotate
  PROVE  MixSound'
<1> USE DEF MixSound
<1>1. /\ UNCHANGED <<confVars, lasts, confmute, chunk, changes>>
      /\ past' = mixed /\ mixed' = spoken /\ spoken' = Silence
      /\ calm' = IF calm < Calm THEN calm + 1 ELSE calm
      /\ ear' = NoEar /\ Advance
      /\ conf_sums_prev' = conf_sums /\ conf_sums' = conf_sums_next
      /\ conf_sums_next' = [a \in Rows |-> IF a < maxconfs THEN Silence ELSE conf_sums_prev[a]]
  BY DEF rotate, rotate_sums
<1>2. L \in Nat /\ P \in Nat /\ step = Turn /\ Turn = L + 1 /\ step' \in 0..2*L + 2*P + 1
      /\ step' = IF step = Turn + 2*P + L THEN 0 ELSE step + 1
  BY <1>1, RoundGoesOn, StepIs DEF MixTypes, rotate
<1>3. /\ \A i \in 1..L : /\ step \in i + 1..Turn /\ step' \notin i + 1..Turn
                         /\ step' \in Turn + 1..Turn + 2*P + i
                         /\ step \notin Turn + 1..Turn + 2*P + i
      /\ \A i \in 1..P : step' \notin Turn + i + 1..Turn + 2*P
  <2>1. ASSUME NEW i \in 1..L PROVE step' = Turn + 1
    BY <1>2
  <2> QED
    BY <1>2, <2>1
<1>4. /\ calm \in Nat /\ calm' \in 0..Calm
      /\ calm' >= 2 => calm >= 1
      /\ calm' >= 3 => calm >= 2
  BY <1>1, MixerAssumption DEF MixerAssumption, MixTypes
<1>5. /\ Silence \in [Sources -> {0, 1}] /\ Silence \in Sounds
      /\ \A s \in Sources : Silence[s] = 0
  BY DEF Silence, Sounds
<1>6. conf_sums_next' \in [Rows -> Sounds]
  BY <1>1, <1>5 DEF MixTypes
<1>7. MixTypes'
  BY <1>1, <1>2, <1>4, <1>5, <1>6 DEF MixTypes, lasts
<1>8. SumsRight'
  <2>1. ASSUME NEW c \in Channels, Mode(c) \in Mixing
        PROVE  Collects(conf_sums_next'[confn[c]], confn[c], spoken')
    <3>1. conf_sums_next'[confn[c]] = Silence
      BY <1>1, <2>1, RowOfMember
    <3>2. Collects(Silence, confn[c], Silence)
      BY <1>5 DEF Collects
    <3> QED
      BY <1>1, <3>1, <3>2
  <2>2. ASSUME NEW c \in Channels, Mode(c) \in Mixing
        PROVE  /\ calm' >= 2 => Collects(conf_sums'[confn[c]], confn[c], mixed')
               /\ calm' >= 3 => Collects(conf_sums_prev'[confn[c]], confn[c], past')
    BY <1>1, <1>4, <2>2 DEF SumsRight
  <2> QED
    BY <1>1, <2>1, <2>2, SumsKept
<1>9. QuietLines' /\ HearsOthersOnce'
  BY <1>1, QuietKept, NobodyHears
<1>10. VoicesFresh'
  <2>1. \A s \in Sources : spoken'[s] = 0
    BY <1>1, <1>5
  <2>2. \A i \in 1..L : <<LineOrder[i], "line">> \in Sources /\ <<LineOrder[i], "app">> \in Sources
    BY PlacesApart, SourcesAre
  <2>3. \A i \in 1..P : /\ <<PseudoOrder[i], "app">> \in Sources
                        /\ spoken[<<PseudoOrder[i], "app">>] = 0
    BY PlacesApart, SourcesAre DEF VoicesFresh
  <2> QED
    BY <1>1, <2>1, <2>2, <2>3 DEF VoicesFresh
<1>11. LineLasts'
  BY <1>1, <1>3, <1>4 DEF LineLasts, Mode, Takes, Voice, confVars, members, lasts
<1>12. PseudoLasts'
  BY <1>3 DEF PseudoLasts
<1>13. SideLasts'
  <2>1. \A i \in 1..L : <<LineOrder[i], "app">> \in Sources
    BY PlacesApart, SourcesAre
  <2>2. ASSUME NEW i \in 1..L
        PROVE  /\ Mode(LineOrder[i])' = Mode(LineOrder[i])
               /\ Takes(LineOrder[i])' = Takes(LineOrder[i])
               /\ Has(LineOrder[i], "PSEUDO_TALKER")' = Has(LineOrder[i], "PSEUDO_TALKER")
               /\ mixed'[<<LineOrder[i], "app">>] = spoken[<<LineOrder[i], "app">>]
               /\ spoken'[<<LineOrder[i], "app">>] = 0
               /\ step \notin Turn + 1..Turn + 2*P + i /\ step' \in Turn + 1..Turn + 2*P + i
    BY <1>1, <1>3, <1>5, <2>1 DEF Mode, Takes, Has, confVars, members
  <2>3. UNCHANGED <<conflast1, conflast2>>
    BY <1>1 DEF lasts
  <2> QED
    BY <1>4, <2>2, <2>3, ZenonT(40) DEF SideLasts, Voice
<1> QED
  BY <1>7, <1>8, <1>9, <1>10, <1>11, <1>12, <1>13

(* pseudo_rx only delivers.                                                *)
LEMMA PseudoRxKeeps ==
  ASSUME AliasInv, MixSound, Calm >= 3, OnePlaceEach, NEW c \in Pseudos, pseudo_rx(c)
  PROVE  MixSound'
<1> USE DEF MixSound
<1> DEFINE k == step - Turn - P
<1>1. /\ UNCHANGED <<confVars, sums, lasts, confmute, chunk, spoken, mixed, past, calm, changes>>
      /\ Advance
  BY DEF pseudo_rx
<1>2. /\ L \in Nat /\ P \in Nat /\ step \in Nat /\ Turn = L + 1 /\ step' \in 0..2*L + 2*P + 1
      /\ step' = IF step = Turn + 2*P + L THEN 0 ELSE step + 1
      /\ k \in 1..P /\ c = PseudoOrder[k]
  BY <1>1, RoundGoesOn, StepIs DEF MixTypes, pseudo_rx
<1>3. /\ \A i \in 1..L : /\ step \notin i + 1..Turn /\ step' \notin i + 1..Turn
                         /\ step' \in Turn + 1..Turn + 2*P + i
                         /\ step \in Turn + 1..Turn + 2*P + i
      /\ \A i \in 1..P : /\ step \in Turn + i + 1..Turn + 2*P
                         /\ step' \notin Turn + 1..Turn + i
  <2>1. ASSUME NEW i \in 1..L PROVE step' = step + 1
    BY <1>2
  <2> QED
    BY <1>2, <2>1
<1>4. UNCHANGED members
  BY <1>1 DEF confVars
<1>5. MixTypes'
  BY <1>1, <1>2 DEF MixTypes, sums, lasts
<1>6. SumsRight' /\ QuietLines'
  BY <1>1, <1>4, SumsSame, QuietKept
<1>7. HearsOthersOnce'
  <2>1. CASE ear' = NoEar
    BY <2>1, NobodyHears
  <2>2. CASE Mode(c) = "CONF" /\ Hear(c, "app", others(c))
    <3>1. c \in Channels /\ Mode(c) \in Mixing /\ Mode(c) \notin Monitoring
      BY <2>2 DEF Channels, Mixing, Monitoring
    <3>2. conf_sums[confn[c]] \in Sounds /\ mixed \in [Sources -> {0, 1}]
      BY <3>1, RowOfMember DEF MixTypes
    <3>3. <<c, "app">> \in Sources /\ <<c, "app">>[1] = c
      BY <3>1, SourcesAre
    <3>4. ASSUME calm = Calm PROVE others(c) = Conversation(confna[c], <<c, "app">>, mixed)
      <4>1. conflast[c] = Voice(<<c, "app">>, mixed[<<c, "app">>])
        BY <1>2, <1>3, <2>2, <3>4, CalmEnough DEF PseudoLasts
      <4>2. Collects(conf_sums[confn[c]], confn[c], mixed)
        BY <3>1, <3>4, CalmEnough DEF SumsRight
      <4> QED
        BY <3>1, <3>2, <3>3, <4>1, <4>2, OthersSay DEF others
    <3> QED
      BY <1>1, <2>2, <3>1, <3>4, HeardSound
  <2> QED
    BY <2>1, <2>2 DEF pseudo_rx
<1>8. VoicesFresh'
  BY <1>1, <1>3 DEF VoicesFresh
<1>9. LineLasts'
  BY <1>1, <1>3, <1>4 DEF LineLasts, Mode, Takes, Voice, members, lasts
<1>10. PseudoLasts'
  BY <1>1, <1>3, <1>4 DEF PseudoLasts, Mode, Voice, members, lasts
<1>11. SideLasts'
  BY <1>1, <1>3, <1>4 DEF SideLasts, Mode, Takes, Has, Voice, members, lasts
<1> QED
  BY <1>5, <1>6, <1>7, <1>8, <1>9, <1>10, <1>11
(* A pseudo channel talks for the chunk that is being mixed.               *)
LEMMA PseudoTxKeeps ==
  ASSUME AliasInv, MixSound, OnePlaceEach, NEW c \in Pseudos, pseudo_tx(c)
  PROVE  MixSound'
<1> USE DEF MixSound
<1> DEFINE k == step - Turn
           own == <<c, "app">>
           talks == Mode(c) = "CONF" /\ Has(c, "TALKER")
<1>1. /\ UNCHANGED <<confVars, conf_sums_prev, conf_sums_next, conflast1, conflast2, confmute,
                     chunk, spoken, past, calm, changes>>
      /\ ear' = NoEar /\ Advance
      /\ talks => /\ conf_sums' = AddTo(conf_sums, c, Voice(own, chunk))
                  /\ conflast' = [conflast EXCEPT ![c] = Voice(own, chunk)]
                  /\ mixed' = [mixed EXCEPT ![own] = chunk]
      /\ ~talks => /\ UNCHANGED <<conf_sums, mixed>>
                   /\ conflast' = IF Mode(c) = "CONF" THEN [conflast EXCEPT ![c] = Silence]
                                                      ELSE conflast
  BY DEF pseudo_tx, Own
<1>2. /\ L \in Nat /\ P \in Nat /\ step \in Nat /\ Turn = L + 1 /\ step' \in 0..2*L + 2*P + 1
      /\ step' = IF step = Turn + 2*P + L THEN 0 ELSE step + 1
      /\ k \in 1..P /\ c = PseudoOrder[k]
  BY <1>1, RoundGoesOn, StepIs DEF MixTypes, pseudo_tx
<1>3. /\ \A i \in 1..L : /\ step \notin i + 1..Turn /\ step' \notin i + 1..Turn
                         /\ step' \in Turn + 1..Turn + 2*P + i
                         /\ step \in Turn + 1..Turn + 2*P + i
      /\ \A i \in 1..P : /\ step' \in Turn + 1..Turn + i => i # k /\ step \in Turn + 1..Turn + i
                         /\ i # k /\ step' \in Turn + i + 1..Turn + 2*P =>
                              step \in Turn + i + 1..Turn + 2*P
      /\ step \in Turn + 1..Turn + k
  <2>1. step' = step + 1
    BY <1>2
  <2> QED
    BY <1>2, <2>1
<1>4. UNCHANGED members
  BY <1>1 DEF confVars
<1>5. /\ c \in Channels /\ own \in Sources /\ own[1] = c /\ mixed[own] = 0 /\ chunk \in {0, 1}
      /\ mixed \in [Sources -> {0, 1}] /\ conflast \in [Channels -> Sounds]
  BY <1>2, <1>3, PlacesApart, SourcesAre DEF VoicesFresh, MixTypes
<1>6. SumsRight' /\ conf_sums' \in [Rows -> Sounds] /\ mixed' \in [Sources -> {0, 1}]
  <2>1. CASE talks
    <3>1. Mode(c) \in Mixing
      BY <2>1 DEF Mixing
    <3> HIDE DEF own
    <3> QED
      BY <1>1, <1>5, <2>1, <3>1, CurrentSums
  <2>2. CASE ~talks
    BY <1>1, <1>4, <2>2, SumsSame DEF MixTypes, sums
  <2> QED
    BY <2>1, <2>2
<1>7. conflast' \in [Channels -> Sounds]
  <2>1. Voice(own, chunk) \in Sounds /\ Silence \in Sounds
    BY <1>5, SoundsAre
  <2> QED
    BY <1>1, <1>5, <2>1
<1>8. MixTypes'
  BY <1>1, <1>2, <1>6, <1>7 DEF MixTypes
<1>9. QuietLines' /\ HearsOthersOnce'
  BY <1>1, QuietKept, NobodyHears
<1>10. /\ \A s \in Sources : s # own => mixed'[s] = mixed[s]
       /\ \A d \in Channels : d # c => conflast'[d] = conflast[d]
       /\ Mode(c) = "CONF" => conflast'[c] = Voice(own, mixed'[own])
  <2>1. CASE talks
    BY <1>1, <1>5, <2>1
  <2>2. CASE ~talks
    <3>1. Voice(own, 0) = Silence
      BY VoiceOfNone
    <3> QED
      BY <1>1, <1>5, <2>2, <3>1
  <2> QED
    BY <2>1, <2>2
<1>11. /\ \A i \in 1..L : /\ LineOrder[i] \in Channels /\ LineOrder[i] # c
                          /\ <<LineOrder[i], "line">> \in Sources
                          /\ <<LineOrder[i], "line">> # own
                          /\ <<LineOrder[i], "app">> \in Sources
                          /\ <<LineOrder[i], "app">> # own
       /\ \A i \in 1..P : /\ PseudoOrder[i] \in Channels
                          /\ <<PseudoOrder[i], "app">> \in Sources
                          /\ i # k => PseudoOrder[i] # c /\ <<PseudoOrder[i], "app">> # own
  <2>1. /\ \A i \in 1..L : LineOrder[i] \in Lines /\ LineOrder[i] \in Channels /\ LineOrder[i] # c
        /\ \A i \in 1..P : PseudoOrder[i] \in Channels /\ (i # k => PseudoOrder[i] # c)
    BY <1>2, PlacesApart
  <2> QED
    BY <2>1, SourcesAre
<1>12. VoicesFresh'
  BY <1>1, <1>3, <1>10, <1>11 DEF VoicesFresh
<1>13. LineLasts'
  <2>1. ASSUME NEW i \in 1..L
        PROVE  /\ Mode(LineOrder[i])' = Mode(LineOrder[i])
               /\ Takes(LineOrder[i])' = Takes(LineOrder[i])
               /\ conflast'[LineOrder[i]] = conflast[LineOrder[i]]
               /\ mixed'[<<LineOrder[i], "line">>] = mixed[<<LineOrder[i], "line">>]
               /\ step \notin i + 1..Turn /\ step' \notin i + 1..Turn
    BY <1>1, <1>3, <1>4, <1>10, <1>11 DEF Mode, Takes, members
  <2> QED
    BY <1>1, <2>1 DEF LineLasts, Voice
<1>14. PseudoLasts'
  <2> SUFFICES ASSUME NEW i \in 1..P, calm >= 1, Mode(PseudoOrder[i]) = "CONF",
                      step' \in Turn + i + 1..Turn + 2*P
               PROVE  conflast'[PseudoOrder[i]]
                        = Voice(<<PseudoOrder[i], "app">>, mixed'[<<PseudoOrder[i], "app">>])
    BY <1>1, <1>4 DEF PseudoLasts, Mode, Voice, members
  <2>1. CASE i = k
    BY <1>2, <1>10, <2>1
  <2>2. CASE i # k
    <3>1. conflast[PseudoOrder[i]]
            = Voice(<<PseudoOrder[i], "app">>, mixed[<<PseudoOrder[i], "app">>])
      BY <1>3, <2>2 DEF PseudoLasts
    <3> QED
      BY <1>10, <1>11, <2>2, <3>1
  <2> QED
    BY <2>1, <2>2
<1>15. SideLasts'
  <2>1. ASSUME NEW i \in 1..L
        PROVE  /\ Mode(LineOrder[i])' = Mode(LineOrder[i])
               /\ Takes(LineOrder[i])' = Takes(LineOrder[i])
               /\ Has(LineOrder[i], "PSEUDO_TALKER")' = Has(LineOrder[i], "PSEUDO_TALKER")
               /\ mixed'[<<LineOrder[i], "app">>] = mixed[<<LineOrder[i], "app">>]
               /\ step \in Turn + 1..Turn + 2*P + i /\ step' \in Turn + 1..Turn + 2*P + i
    BY <1>1, <1>3, <1>4, <1>10, <1>11 DEF Mode, Takes, Has, members
  <2>2. UNCHANGED <<conflast1, conflast2, spoken, calm>>
    BY <1>1
  <2> QED
    BY <2>1, <2>2 DEF SideLasts, Voice
<1> QED
  BY <1>6, <1>8, <1>9, <1>12, <1>13, <1>14, <1>15
(* What a line says goes to the next set, or, of a monitor, nowhere; the   *)
(* pseudo side is told the current set.                                    *)
LEMMA ReceiveKeeps ==
  ASSUME AliasInv, MixSound, Calm >= 3, OnePlaceEach, NEW c \in Lines, receive(c)
  PROVE  MixSound'
<1> USE DEF MixSound
<1> DEFINE k == step
           own == <<c, "line">>
           app == <<c, "app">>
           joined == Mode(c) \in {"CONF", "CONFANN", "REALANDPSEUDO"} /\ Takes(c)
           monitors == Mode(c) \in Monitoring /\ Takes(c)
           talks == joined /\ Has(c, "TALKER")
<1>1. /\ UNCHANGED <<confVars, conf_sums_prev, conflast1, conflast2, confmute, chunk, mixed,
                     past, calm, changes>>
      /\ Advance
  BY DEF receive
<1>2. /\ L \in Nat /\ P \in Nat /\ step \in Nat /\ Turn = L + 1 /\ step' \in 0..2*L + 2*P + 1
      /\ step' = IF step = Turn + 2*P + L THEN 0 ELSE step + 1
      /\ k \in 1..L /\ c = LineOrder[k]
  BY <1>1, RoundGoesOn, StepIs DEF MixTypes, receive
<1>3. /\ \A i \in 1..L : /\ i # k => (step' \in i + 1..Turn <=> step \in i + 1..Turn)
                         /\ step' \notin Turn + 1..Turn + 2*P + i
                         /\ step \notin Turn + 1..Turn + 2*P + i
      /\ \A i \in 1..P : /\ step' \notin Turn + 1..Turn + i
                         /\ step' \notin Turn + i + 1..Turn + 2*P
      /\ step \notin k + 1..Turn /\ step' \in k + 1..Turn
  <2>1. step' = step + 1
    BY <1>2
  <2> QED
    BY <1>2, <2>1
<1>4. UNCHANGED members
  BY <1>1 DEF confVars
<1>5. /\ c \in Channels /\ own \in Sources /\ own[1] = c /\ spoken[own] = 0 /\ chunk \in {0, 1}
      /\ app \in Sources /\ app[1] = c
      /\ spoken \in [Sources -> {0, 1}] /\ conflast \in [Channels -> Sounds]
  BY <1>2, <1>3, PlacesApart, SourcesAre DEF VoicesFresh, MixTypes
<1>6. /\ talks => /\ conf_sums_next' = AddTo(conf_sums_next, c, Voice(own, chunk))
                  /\ conflast' = [conflast EXCEPT ![c] = Voice(own, chunk)]
                  /\ spoken' = [spoken EXCEPT ![own] = chunk]
      /\ ~talks => UNCHANGED <<conf_sums_next, spoken>>
      /\ (joined /\ ~talks) \/ monitors => conflast' = [conflast EXCEPT ![c] = Silence]
      /\ ~joined /\ ~monitors => conflast' = conflast
      /\ UNCHANGED conf_sums
  <2>1. CASE joined
    <3>1. line_talks(c, chunk) /\ UNCHANGED conf_sums
      BY <2>1 DEF receive, Mixing
    <3>2. ~monitors
      BY <2>1 DEF Monitoring
    <3> QED
      BY <2>1, <3>1, <3>2 DEF line_talks, Own
  <2>2. CASE monitors
    <3>1. monitor_talks(c, chunk) /\ UNCHANGED <<conf_sums_next, spoken>> /\ ~joined
      BY <2>2 DEF receive, Mixing, Monitoring
    <3>2. ~Has(c, "TALKER")
      BY <2>2 DEF QuietLines
    <3> QED
      BY <2>2, <3>1, <3>2 DEF monitor_talks
  <2>3. CASE ~joined /\ ~monitors
    <3>1. UNCHANGED <<conf_sums, conf_sums_next, conflast, spoken>>
      BY <2>3 DEF receive, Mixing, Monitoring
    <3> QED
      BY <2>3, <3>1
  <2> QED
    BY <2>1, <2>2, <2>3
<1>7. SumsRight' /\ conf_sums_next' \in [Rows -> Sounds] /\ spoken' \in [Sources -> {0, 1}]
  <2>1. CASE talks
    <3>1. Mode(c) \in Mixing
      BY <2>1 DEF Mixing
    <3>2. /\ conf_sums_next' = AddTo(conf_sums_next, c, Voice(own, chunk))
          /\ spoken' = [spoken EXCEPT ![own] = chunk]
          /\ UNCHANGED conf_sums
      BY <1>6, <2>1
    <3> HIDE DEF own, talks, joined, monitors
    <3> QED
      BY <1>1, <1>5, <3>1, <3>2, NextSums
  <2>2. CASE ~talks
    BY <1>1, <1>4, <1>6, <2>2, SumsSame DEF MixTypes, sums
  <2> QED
    BY <2>1, <2>2
<1>8. conflast' \in [Channels -> Sounds]
  <2>1. Voice(own, chunk) \in Sounds /\ Silence \in Sounds
    BY <1>5, SoundsAre
  <2> HIDE DEF own, talks, joined, monitors
  <2>2. \/ conflast' = [conflast EXCEPT ![c] = Voice(own, chunk)]
        \/ conflast' = [conflast EXCEPT ![c] = Silence]
        \/ conflast' = conflast
    BY <1>6 DEF talks
  <2> QED
    BY <1>5, <2>1, <2>2
<1>9. MixTypes'
  BY <1>1, <1>2, <1>6, <1>7, <1>8 DEF MixTypes
<1>10. QuietLines'
  BY <1>1, QuietKept
<1>11. HearsOthersOnce'
  <2>1. CASE ear' = NoEar
    BY <2>1, NobodyHears
  <2>2. CASE /\ Mode(c) = "REALANDPSEUDO" /\ Takes(c)
             /\ Hear(c, "app", Minus(conf_sums[confn[c]], conflast2[c]))
    <3>1. Mode(c) \in Mixing /\ Mode(c) \notin Monitoring
      BY <2>2 DEF Mixing, Monitoring
    <3>2. conf_sums[confn[c]] \in Sounds /\ mixed \in [Sources -> {0, 1}]
      BY <1>5, <3>1, RowOfMember DEF MixTypes
    <3>3. ASSUME calm = Calm
          PROVE  Minus(conf_sums[confn[c]], conflast2[c]) = Conversation(confna[c], app, mixed)
      <4>1. conflast2[c] = Voice(app, mixed[app])
        BY <1>2, <1>3, <2>2, <3>3, CalmEnough DEF SideLasts
      <4>2. Collects(conf_sums[confn[c]], confn[c], mixed)
        BY <1>5, <3>1, <3>3, CalmEnough DEF SumsRight
      <4> QED
        BY <1>5, <3>1, <3>2, <4>1, <4>2, OthersSay
    <3> QED
      BY <1>1, <1>5, <2>2, <3>1, <3>3, HeardSound
  <2>3. CASE Mode(c) \in Monitoring /\ Hear(c, "app", conf_sums_prev[confn[c]])
    <3>1. Mode(c) \in Mixing
      BY <2>3 DEF Mixing, Monitoring
    <3>2. conf_sums_prev[confn[c]] \in Sounds
      BY <1>5, <3>1, RowOfMember DEF MixTypes
    <3>3. ASSUME calm = Calm
          PROVE  conf_sums_prev[confn[c]] = Conversation(confna[c], NoEar.to, past)
      <4>1. Collects(conf_sums_prev[confn[c]], confn[c], past)
        BY <1>5, <3>1, <3>3, CalmEnough DEF SumsRight
      <4> QED
        BY <1>5, <3>1, <3>2, <4>1, AllSay
    <3> QED
      BY <1>1, <1>5, <2>3, <3>3, HeardSound
  <2> QED
    BY <2>1, <2>2, <2>3 DEF receive, Monitoring
<1>12. /\ \A s \in Sources : s # own => spoken'[s] = spoken[s]
       /\ \A d \in Channels : d # c => conflast'[d] = conflast[d]
       /\ Mode(c) \in Mixing /\ Takes(c) => conflast'[c] = Voice(own, spoken'[own])
  <2>1. CASE talks
    BY <1>5, <1>6, <2>1
  <2>2. CASE ~talks
    <3>1. Voice(own, 0) = Silence
      BY VoiceOfNone
    <3>2. Mode(c) \in Mixing /\ Takes(c) => joined \/ monitors
      BY DEF Mixing, Monitoring
    <3> HIDE DEF own, joined, monitors
    <3>3. spoken' = spoken
      BY <1>6, <2>2
    <3>4. \/ conflast' = [conflast EXCEPT ![c] = Silence]
          \/ conflast' = conflast /\ ~joined /\ ~monitors
      BY <1>6, <2>2
    <3> QED
      BY <1>5, <3>1, <3>2, <3>3, <3>4
  <2> QED
    BY <2>1, <2>2
<1>13. /\ \A i \in 1..L : /\ LineOrder[i] \in Channels
                          /\ i # k => LineOrder[i] # c
                          /\ <<LineOrder[i], "line">> \in Sources
                          /\ i # k => <<LineOrder[i], "line">> # own
                          /\ <<LineOrder[i], "app">> \in Sources
                          /\ <<LineOrder[i], "app">> # own
       /\ \A i \in 1..P : /\ <<PseudoOrder[i], "app">> \in Sources
                          /\ <<PseudoOrder[i], "app">> # own
  <2>1. /\ \A i \in 1..L : /\ LineOrder[i] \in Lines /\ LineOrder[i] \in Channels
                           /\ i # k => LineOrder[i] # c
        /\ \A i \in 1..P : PseudoOrder[i] \in Channels
    BY <1>2, PlacesApart
  <2> QED
    BY <1>5, <2>1, SourcesAre
<1>14. VoicesFresh'
  <2>1. ASSUME NEW i \in 1..L, step' \notin i + 1..Turn PROVE spoken'[<<LineOrder[i], "line">>] = 0
    <3>1. i # k /\ step \notin i + 1..Turn
      BY <1>3, <2>1
    <3> QED
      BY <1>12, <1>13, <3>1 DEF VoicesFresh
  <2>2. ASSUME NEW i \in 1..P PROVE spoken'[<<PseudoOrder[i], "app">>] = 0
    BY <1>12, <1>13 DEF VoicesFresh
  <2> QED
    BY <1>3, <2>1, <2>2 DEF VoicesFresh
<1>15. LineLasts'
  <2> SUFFICES ASSUME NEW i \in 1..L, Mode(LineOrder[i]) \in Mixing, Takes(LineOrder[i])
               PROVE  LET d == LineOrder[i]
                          src == <<d, "line">>
                      IN  /\ calm >= 1 /\ step' \in i + 1..Turn =>
                               conflast'[d] = Voice(src, spoken'[src])
                          /\ calm >= 2 /\ step' \notin i + 1..Turn =>
                               conflast'[d] = Voice(src, mixed[src])
    BY <1>1, <1>4 DEF LineLasts, Mode, Takes, Voice, members
  <2>1. CASE i = k
    BY <1>2, <1>3, <1>12, <2>1
  <2>2. CASE i # k
    BY <1>3, <1>12, <1>13, <2>2 DEF LineLasts
  <2> QED
    BY <2>1, <2>2
<1>16. PseudoLasts'
  BY <1>3 DEF PseudoLasts
<1>17. SideLasts'
  <2>1. ASSUME NEW i \in 1..L
        PROVE  /\ Mode(LineOrder[i])' = Mode(LineOrder[i])
               /\ Takes(LineOrder[i])' = Takes(LineOrder[i])
               /\ Has(LineOrder[i], "PSEUDO_TALKER")' = Has(LineOrder[i], "PSEUDO_TALKER")
               /\ spoken'[<<LineOrder[i], "app">>] = spoken[<<LineOrder[i], "app">>]
               /\ step \notin Turn + 1..Turn + 2*P + i /\ step' \notin Turn + 1..Turn + 2*P + i
    BY <1>1, <1>3, <1>4, <1>12, <1>13 DEF Mode, Takes, Has, members
  <2>2. UNCHANGED <<conflast1, conflast2, mixed, calm>>
    BY <1>1
  <2> QED
    BY <2>1, <2>2, SMTT(30) DEF SideLasts, Voice
<1> QED
  BY <1>7, <1>9, <1>10, <1>11, <1>14, <1>15, <1>16, <1>17
(* What the application says goes to the next set; the line is told the    *)
(* current one.                                                            *)
LEMMA TransmitKeeps ==
  ASSUME AliasInv, MixSound, Calm >= 3, OnePlaceEach, NEW c \in Lines, transmit(c)
  PROVE  MixSound'
<1> USE DEF MixSound
<1> DEFINE k == step - Turn - 2*P
           own == <<c, "app">>
           announces == Mode(c) \in {"CONFANN", "CONFANNMON"} /\ Takes(c)
           both == Mode(c) = "REALANDPSEUDO" /\ Takes(c)
           talks == announces \/ (both /\ Has(c, "PSEUDO_TALKER"))
<1>1. /\ UNCHANGED <<confVars, conf_sums_prev, conf_sums, conflast, confmute, chunk, mixed,
                     past, calm, changes>>
      /\ Advance
  BY DEF transmit
<1>2. /\ L \in Nat /\ P \in Nat /\ step \in Nat /\ Turn = L + 1 /\ step' \in 0..2*L + 2*P + 1
      /\ step' = IF step = Turn + 2*P + L THEN 0 ELSE step + 1
      /\ k \in 1..L /\ c = LineOrder[k]
  BY <1>1, RoundGoesOn, StepIs DEF MixTypes, transmit
<1>3. /\ \A i \in 1..L : /\ step \notin i + 1..Turn /\ step' \notin i + 1..Turn
                         /\ i # k => (step' \in Turn + 1..Turn + 2*P + i <=>
                                      step \in Turn + 1..Turn + 2*P + i)
      /\ \A i \in 1..P : /\ step' \notin Turn + 1..Turn + i
                         /\ step' \notin Turn + i + 1..Turn + 2*P
      /\ step \in Turn + 1..Turn + 2*P + k /\ step' \notin Turn + 1..Turn + 2*P + k
  <2>1. CASE step = Turn + 2*P + L
    BY <1>2, <2>1
  <2>2. CASE step # Turn + 2*P + L
    BY <1>2, <2>2
  <2> QED
    BY <2>1, <2>2
<1>4. UNCHANGED members
  BY <1>1 DEF confVars
<1>5. /\ c \in Channels /\ own \in Sources /\ own[1] = c /\ spoken[own] = 0 /\ chunk \in {0, 1}
      /\ <<c, "line">> \in Sources /\ <<c, "line">>[1] = c
      /\ spoken \in [Sources -> {0, 1}]
      /\ conflast1 \in [Channels -> Sounds] /\ conflast2 \in [Channels -> Sounds]
  BY <1>2, <1>3, PlacesApart, SourcesAre DEF VoicesFresh, MixTypes
<1>6. /\ talks => /\ conf_sums_next' = AddTo(conf_sums_next, c, Voice(own, chunk))
                  /\ spoken' = [spoken EXCEPT ![own] = chunk]
      /\ ~talks => UNCHANGED <<conf_sums_next, spoken>>
      /\ both /\ talks => /\ conflast2' = [conflast2 EXCEPT ![c] = conflast1[c]]
                          /\ conflast1' = [conflast1 EXCEPT ![c] = Voice(own, chunk)]
      /\ both /\ ~talks => /\ conflast1' = [conflast1 EXCEPT ![c] = Silence]
                           /\ conflast2' = [conflast2 EXCEPT ![c] = Silence]
      /\ ~both => UNCHANGED <<conflast1, conflast2>>
  <2>1. CASE announces
    <3>1. app_talks(c, chunk) /\ UNCHANGED <<conflast1, conflast2>> /\ ~both
      BY <2>1 DEF transmit, Monitors
    <3> QED
      BY <2>1, <3>1 DEF app_talks, Own
  <2>2. CASE both
    <3>1. ~announces
      BY <2>2
    <3>2. IF Has(c, "PSEUDO_TALKER")
            THEN app_talks(c, chunk) /\ pseudo_side_last(c, chunk)
            ELSE pseudo_side_silent(c) /\ UNCHANGED <<conf_sums_next, spoken>>
      BY <2>2 DEF transmit, Monitors
    <3> QED
      BY <2>2, <3>1, <3>2 DEF app_talks, pseudo_side_last, pseudo_side_silent, Own
  <2>3. CASE ~announces /\ ~both
    <3>1. UNCHANGED <<conf_sums_next, spoken, conflast1, conflast2>>
      BY <2>3 DEF transmit
    <3> QED
      BY <2>3, <3>1
  <2> QED
    BY <2>1, <2>2, <2>3
<1>7. SumsRight' /\ conf_sums_next' \in [Rows -> Sounds] /\ spoken' \in [Sources -> {0, 1}]
  <2>1. CASE talks
    <3>1. Mode(c) \in Mixing
      BY <2>1 DEF Mixing
    <3>2. /\ conf_sums_next' = AddTo(conf_sums_next, c, Voice(own, chunk))
          /\ spoken' = [spoken EXCEPT ![own] = chunk]
      BY <1>6, <2>1
    <3> HIDE DEF own, talks, announces, both
    <3> QED
      BY <1>1, <1>5, <3>1, <3>2, NextSums
  <2>2. CASE ~talks
    BY <1>1, <1>4, <1>6, <2>2, SumsSame DEF MixTypes, sums
  <2> QED
    BY <2>1, <2>2
<1>8. conflast1' \in [Channels -> Sounds] /\ conflast2' \in [Channels -> Sounds]
  <2>1. Voice(own, chunk) \in Sounds /\ Silence \in Sounds /\ conflast1[c] \in Sounds
    BY <1>5, SoundsAre
  <2> HIDE DEF own, talks, announces, both
  <2> QED
    BY <1>5, <1>6, <2>1
<1>9. MixTypes'
  BY <1>1, <1>2, <1>7, <1>8 DEF MixTypes
<1>10. QuietLines'
  BY <1>1, QuietKept
<1>11. HearsOthersOnce'
  <2>1. CASE ear' = NoEar
    BY <2>1, NobodyHears
  <2>2. CASE Mode(c) \in Mixing /\ Takes(c) /\ Hear(c, "line", others(c))
    <3>1. conf_sums[confn[c]] \in Sounds /\ mixed \in [Sources -> {0, 1}]
      BY <1>5, <2>2, RowOfMember DEF MixTypes
    <3>2. ASSUME calm = Calm PROVE others(c) = Conversation(confna[c], <<c, "line">>, mixed)
      <4>1. conflast[c] = Voice(<<c, "line">>, mixed[<<c, "line">>])
        BY <1>2, <1>3, <2>2, <3>2, CalmEnough DEF LineLasts
      <4>2. Collects(conf_sums[confn[c]], confn[c], mixed)
        BY <1>5, <2>2, <3>2, CalmEnough DEF SumsRight
      <4> QED
        BY <1>5, <2>2, <3>1, <4>1, <4>2, OthersSay DEF others
    <3> QED
      BY <1>1, <1>5, <2>2, <3>2, HeardSound
  <2> QED
    BY <2>1, <2>2 DEF transmit
<1>12. \A s \in Sources : s # own => spoken'[s] = spoken[s]
  BY <1>5, <1>6
<1>13. \A d \in Channels : d # c => conflast1'[d] = conflast1[d] /\ conflast2'[d] = conflast2[d]
  BY <1>5, <1>6
<1>14. /\ \A i \in 1..L : /\ LineOrder[i] \in Channels
                          /\ i # k => LineOrder[i] # c
                          /\ <<LineOrder[i], "line">> \in Sources
                          /\ <<LineOrder[i], "line">> # own
                          /\ <<LineOrder[i], "app">> \in Sources
                          /\ i # k => <<LineOrder[i], "app">> # own
       /\ \A i \in 1..P : /\ <<PseudoOrder[i], "app">> \in Sources
                          /\ <<PseudoOrder[i], "app">> # own
  <2>1. /\ \A i \in 1..L : /\ LineOrder[i] \in Lines /\ LineOrder[i] \in Channels
                           /\ i # k => LineOrder[i] # c
        /\ \A i \in 1..P : PseudoOrder[i] \in Channels /\ PseudoOrder[i] # c
    BY <1>2, PlacesApart
  <2> QED
    BY <1>5, <2>1, SourcesAre
<1>15. VoicesFresh'
  <2>1. ASSUME NEW i \in 1..L, step' \in Turn + 1..Turn + 2*P + i
        PROVE  spoken'[<<LineOrder[i], "app">>] = 0
    <3>1. i # k /\ step \in Turn + 1..Turn + 2*P + i
      BY <1>3, <2>1
    <3> QED
      BY <1>12, <1>14, <3>1 DEF VoicesFresh
  <2>2. ASSUME NEW i \in 1..L PROVE spoken'[<<LineOrder[i], "line">>] = 0
    BY <1>3, <1>12, <1>14 DEF VoicesFresh
  <2>3. ASSUME NEW i \in 1..P PROVE spoken'[<<PseudoOrder[i], "app">>] = 0
    BY <1>12, <1>14 DEF VoicesFresh
  <2> QED
    BY <1>3, <2>1, <2>2, <2>3 DEF VoicesFresh
<1>16. LineLasts'
  <2>1. ASSUME NEW i \in 1..L
        PROVE  /\ Mode(LineOrder[i])' = Mode(LineOrder[i])
               /\ Takes(LineOrder[i])' = Takes(LineOrder[i])
               /\ step \notin i + 1..Turn /\ step' \notin i + 1..Turn
    BY <1>1, <1>3, <1>4 DEF Mode, Takes, members
  <2> QED
    BY <1>1, <2>1 DEF LineLasts, Voice
<1>17. PseudoLasts'
  BY <1>3 DEF PseudoLasts
<1>18. SideLasts'
  <2> SUFFICES ASSUME NEW i \in 1..L, Mode(LineOrder[i]) = "REALANDPSEUDO", Takes(LineOrder[i])
               PROVE  LET d == LineOrder[i]
                          src == <<d, "app">>
                          before == step' \in Turn + 1..Turn + 2*P + i
                      IN  /\ calm >= 1 /\ ~before => conflast1'[d] = Voice(src, spoken'[src])
                          /\ calm >= 2 /\ ~before => conflast2'[d] = Voice(src, mixed[src])
                          /\ calm >= 2 /\ before => conflast1'[d] = Voice(src, mixed[src])
                          /\ ~Has(d, "PSEUDO_TALKER") =>
                               /\ calm >= 1 => spoken'[src] = 0
                               /\ calm >= 2 => mixed[src] = 0
    BY <1>1, <1>4, ZenonT(40) DEF SideLasts, Mode, Takes, Has, Voice, members
  <2>1. CASE i = k
    <3>1. LineOrder[i] = c /\ both
      BY <1>2, <2>1
    <3>2. /\ calm >= 2 => conflast1[c] = Voice(own, mixed[own])
          /\ ~Has(c, "PSEUDO_TALKER") /\ calm >= 2 => mixed[own] = 0
      BY <1>2, <1>3, <2>1, <3>1 DEF SideLasts
    <3>3. CASE talks
      <4>1. /\ conflast1'[c] = Voice(own, chunk) /\ conflast2'[c] = conflast1[c]
            /\ spoken'[own] = chunk /\ Has(c, "PSEUDO_TALKER")
        BY <1>5, <1>6, <3>1, <3>3
      <4> QED
        BY <1>3, <2>1, <3>1, <3>2, <4>1
    <3>4. CASE ~talks
      <4>1. /\ conflast1'[c] = Silence /\ conflast2'[c] = Silence
            /\ spoken'[own] = 0 /\ ~Has(c, "PSEUDO_TALKER")
        BY <1>5, <1>6, <3>1, <3>4
      <4>2. Voice(own, 0) = Silence
        BY VoiceOfNone
      <4> QED
        BY <1>3, <2>1, <3>1, <3>2, <4>1, <4>2
    <3> QED
      BY <3>3, <3>4
  <2>2. CASE i # k
    <3>1. /\ conflast1'[LineOrder[i]] = conflast1[LineOrder[i]]
          /\ conflast2'[LineOrder[i]] = conflast2[LineOrder[i]]
          /\ spoken'[<<LineOrder[i], "app">>] = spoken[<<LineOrder[i], "app">>]
          /\ step' \in Turn + 1..Turn + 2*P + i <=> step \in Turn + 1..Turn + 2*P + i
      BY <1>3, <1>12, <1>13, <1>14, <2>2
    <3> QED
      BY <3>1 DEF SideLasts
  <2> QED
    BY <2>1, <2>2
<1> QED
  BY <1>7, <1>9, <1>10, <1>11, <1>15, <1>16, <1>17, <1>18
-----------------------------------------------------------------------------
(* A call that changes no member.                                          *)
LEMMA CallKeeps ==
  ASSUME MixSound,
         UNCHANGED <<members, sums, lasts, confmute, step, chunk, heard, calm>>
  PROVE  MixSound'
<1> USE DEF MixSound
<1>1. UNCHANGED <<spoken, mixed, past, ear>>
  BY DEF heard
<1>2. MixTypes'
  BY <1>1 DEF MixTypes, sums, lasts
<1>3. SumsRight' /\ HearsOthersOnce'
  BY <1>1, SumsSame, StillHeard
<1>4. QuietLines'
  BY DEF QuietLines, Mode, Has, members
<1>5. VoicesFresh'
  BY <1>1 DEF VoicesFresh
<1>6. LineLasts'
  BY <1>1 DEF LineLasts, Mode, Takes, Voice, members, lasts
<1>7. PseudoLasts'
  BY <1>1 DEF PseudoLasts, Mode, Voice, members, lasts
<1>8. SideLasts'
  BY <1>1 DEF SideLasts, Mode, Takes, Has, Voice, members, lasts
<1> QED
  BY <1>2, <1>3, <1>4, <1>5, <1>6, <1>7, <1>8

(* A call that changes the members or who takes part: what is promised for *)
(* quiet rounds is off.                                                    *)
LEMMA DisturbKeeps ==
  ASSUME MixSound, Disturb, UNCHANGED <<sums, step, chunk, spoken, mixed, past>>,
         conflast' \in [Channels -> Sounds], conflast1' \in [Channels -> Sounds],
         conflast2' \in [Channels -> Sounds], confmute' \in [Lines -> BOOLEAN], QuietLines'
  PROVE  MixSound'
<1> USE DEF MixSound
<1>1. calm' = 0 /\ ear' = NoEar
  BY DEF Disturb
<1>2. 0 \in 0..Calm
  BY MixerAssumption DEF MixerAssumption
<1>3. MixTypes'
  BY <1>1, <1>2 DEF MixTypes, sums
<1>4. SumsRight' /\ LineLasts' /\ PseudoLasts' /\ SideLasts'
  BY <1>1 DEF SumsRight, LineLasts, PseudoLasts, SideLasts
<1>5. VoicesFresh' /\ HearsOthersOnce'
  BY <1>1, NobodyHears DEF VoicesFresh
<1> QED
  BY <1>3, <1>4, <1>5

(* What a channel said last is forgotten, or not.                          *)
LEMMA LastsForgotten ==
  ASSUME MixTypes, NEW c, forget_last(c) \/ UNCHANGED lasts
  PROVE  /\ conflast' \in [Channels -> Sounds] /\ conflast1' \in [Channels -> Sounds]
         /\ conflast2' \in [Channels -> Sounds]
BY SoundsAre DEF MixTypes, forget_last, pseudo_side_silent, lasts

(* A channel joins or leaves by DAHDI_SETCONF.                             *)
LEMMA JoinKeeps ==
  ASSUME AliasInv, MixSound, MonitorsQuiet, NEW t \in Threads, Join(t)
  PROVE  MixSound'
<1> DEFINE r == request[t]
<1>1. /\ join(t) /\ Disturb /\ UNCHANGED <<sums, confmute, step, chunk, spoken, mixed, past>>
      /\ forget_last(r.chan) \/ UNCHANGED lasts
  BY DEF Join
<1>2. pc[t] = "join" /\ r \in Requests /\ confmode' = [confmode EXCEPT ![r.chan] = r.mode]
  BY <1>1 DEF join, AliasInv, CallsSensible
<1>3. r.chan \in Channels /\ r.mode \in Settings[r.chan]
  BY <1>2 DEF Requests
<1>4. confmode \in [Channels -> Confmodes]
  BY DEF AliasInv, ConferenceTypes
<1>5. QuietLines'
  <2> SUFFICES ASSUME NEW d \in Lines, confmode'[d].mode \in Monitoring
               PROVE  "TALKER" \notin confmode'[d].flags
    BY DEF QuietLines, Mode, Has
  <2>1. d \in Channels
    BY DEF Channels
  <2>2. CASE d = r.chan
    BY <1>2, <1>3, <1>4, <2>1, <2>2 DEF MonitorsQuiet
  <2>3. CASE d # r.chan
    <3>1. confmode'[d] = confmode[d]
      BY <1>2, <1>4, <2>1, <2>3
    <3> QED
      BY <3>1 DEF MixSound, QuietLines, Mode, Has
  <2> QED
    BY <2>2, <2>3
<1>6. confmute' \in [Lines -> BOOLEAN]
  BY <1>1 DEF MixSound, MixTypes
<1>7. /\ conflast' \in [Channels -> Sounds] /\ conflast1' \in [Channels -> Sounds]
      /\ conflast2' \in [Channels -> Sounds]
  BY <1>1, LastsForgotten DEF MixSound
<1> QED
  BY <1>1, <1>5, <1>6, <1>7, DisturbKeeps

(* A channel leaves by close().                                            *)
LEMMA CloseKeeps ==
  ASSUME AliasInv, MixSound, NEW t \in Threads, NEW c \in Channels, Close(t, c)
  PROVE  MixSound'
<1>1. /\ close(t, c) /\ forget_last(c) /\ Disturb
      /\ UNCHANGED <<sums, step, chunk, spoken, mixed, past>>
      /\ confmute' = [d \in Lines |-> d # c /\ confmute[d]]
  BY DEF Close
<1>2. confmode' = [confmode EXCEPT ![c] = Normal] /\ confmode \in [Channels -> Confmodes]
  BY <1>1 DEF close, AliasInv, ConferenceTypes
<1>3. QuietLines'
  <2> SUFFICES ASSUME NEW d \in Lines, confmode'[d].mode \in Monitoring
               PROVE  "TALKER" \notin confmode'[d].flags
    BY DEF QuietLines, Mode, Has
  <2>1. d # c /\ d \in Channels
    BY <1>2 DEF Normal, Monitoring, Channels
  <2>2. confmode'[d] = confmode[d]
    BY <1>2, <2>1
  <2> QED
    BY <2>2 DEF MixSound, QuietLines, Mode, Has
<1>4. confmute' \in [Lines -> BOOLEAN]
  BY <1>1 DEF MixSound, MixTypes
<1>5. /\ conflast' \in [Channels -> Sounds] /\ conflast1' \in [Channels -> Sounds]
      /\ conflast2' \in [Channels -> Sounds]
  BY <1>1, LastsForgotten DEF MixSound
<1> QED
  BY <1>1, <1>3, <1>4, <1>5, DisturbKeeps

(* DAHDI_CONFMUTE.                                                         *)
LEMMA MuteKeeps ==
  ASSUME MixSound, NEW c \in Lines, Mute(c)
  PROVE  MixSound'
<1>1. /\ confmute' = [confmute EXCEPT ![c] = ~@] /\ Disturb
      /\ UNCHANGED <<confVars, sums, lasts, step, chunk, spoken, mixed, past>>
  BY DEF Mute
<1>2. confmute' \in [Lines -> BOOLEAN]
  BY <1>1 DEF MixSound, MixTypes
<1>3. /\ conflast' \in [Channels -> Sounds] /\ conflast1' \in [Channels -> Sounds]
      /\ conflast2' \in [Channels -> Sounds]
  BY <1>1, LastsForgotten DEF MixSound
<1>4. QuietLines'
  BY <1>1, QuietKept DEF MixSound
<1> QED
  BY <1>1, <1>2, <1>3, <1>4, DisturbKeeps

(* Before the first round nothing has been said.                           *)
LEMMA MixAtFirst == Calm >= 3 /\ OnePlaceEach /\ MixInit => MixSound
<1> SUFFICES ASSUME Calm >= 3, OnePlaceEach, MixInit PROVE MixSound
  OBVIOUS
<1>1. /\ conf_sums_prev = [a \in Rows |-> Silence]
      /\ conf_sums = conf_sums_prev /\ conf_sums_next = conf_sums_prev
      /\ conflast = [c \in Channels |-> Silence] /\ conflast1 = conflast /\ conflast2 = conflast
      /\ confmute = [c \in Lines |-> FALSE]
      /\ step = 0 /\ chunk = 0 /\ ear = NoEar
      /\ spoken = Silence /\ mixed = Silence /\ past = Silence /\ calm = Calm
      /\ confmode = [c \in Channels |-> Normal]
  BY DEF MixInit, ConfInit
<1>2. L \in Nat /\ P \in Nat /\ Turn = L + 1
  BY RoundSizes DEF Turn
<1>3. /\ Silence \in [Sources -> {0, 1}] /\ Silence \in Sounds
      /\ \A s \in Sources : Silence[s] = 0
  BY DEF Silence, Sounds
<1>4. MixTypes
  <2>1. calm \in 0..Calm
    BY <1>1, MixerAssumption DEF MixerAssumption
  <2>2. step \in 0..2*L + 2*P + 1
    BY <1>1, <1>2
  <2> QED
    BY <1>1, <1>3, <2>1, <2>2 DEF MixTypes
<1>5. \A c \in Channels : Mode(c) = "NORMAL"
  BY <1>1 DEF Mode, Normal
<1>6. QuietLines
  BY <1>5 DEF QuietLines, Monitoring, Channels
<1>7. SumsRight
  BY <1>5 DEF SumsRight, Mixing
<1>8. \A i \in 1..L : LineOrder[i] \in Channels /\ <<LineOrder[i], "line">> \in Sources
                      /\ <<LineOrder[i], "app">> \in Sources
  BY PlacesApart, SourcesAre
<1>9. \A i \in 1..P : PseudoOrder[i] \in Channels /\ <<PseudoOrder[i], "app">> \in Sources
  BY PlacesApart, SourcesAre
<1>10. VoicesFresh
  BY <1>1, <1>3, <1>8, <1>9 DEF VoicesFresh
<1>11. LineLasts /\ PseudoLasts /\ SideLasts
  BY <1>5, <1>8, <1>9 DEF LineLasts, PseudoLasts, SideLasts, Mixing
<1>12. HearsOthersOnce
  BY <1>1 DEF HearsOthersOnce, NoEar
<1> QED
  BY <1>4, <1>6, <1>7, <1>10, <1>11, <1>12 DEF MixSound

(* Once a change has worked itself out, which takes three rounds, every    *)
(* listener hears each of the others in its conference once and nobody     *)
(* else, whatever the number of channels and of conferences and in         *)
(* whichever modes they take part (_process_masterspan, rotate_sums).      *)
THEOREM MixHearsOthersOnce ==
  OneCaller /\ OnePlaceEach /\ MonitorsQuiet /\ Calm >= 3 => (MixSpec => []HearsOthersOnce)
<1> SUFFICES ASSUME OneCaller, OnePlaceEach, MonitorsQuiet, Calm >= 3
             PROVE  MixSpec => []HearsOthersOnce
  OBVIOUS
<1>1. MixInit => AliasInv /\ MixSound
  BY AliasAtFirst, MixAtFirst DEF MixInit
<1>2. AliasInv /\ MixSound /\ [MixNext]_vars => (AliasInv /\ MixSound)'
  <2> SUFFICES ASSUME AliasInv, MixSound, [MixNext]_vars PROVE AliasInv' /\ MixSound'
    OBVIOUS
  <2>1. AliasInv'
    BY MixStepIsConf, AliasStep
  <2>2. ASSUME MixRound PROVE MixSound'
    BY <2>2, StartKeeps, RotateKeeps, ReceiveKeeps, TransmitKeeps, PseudoTxKeeps,
       PseudoRxKeeps DEF MixRound
  <2>3. ASSUME NEW t \in Threads, Call(t) PROVE MixSound'
    <3>1. /\ UNCHANGED members
          /\ UNCHANGED <<sums, lasts, confmute, step, chunk, heard, calm>>
      BY <2>3 DEF Call, setconf, check_conf_kept, check_conf_empty, join_busy, check_conf_clear,
                  preecho_enabled, preecho_fails, close_preecho
    <3> QED
      BY <3>1, CallKeeps
  <2>4. ASSUME UNCHANGED vars PROVE MixSound'
    <3>1. UNCHANGED <<members, sums, lasts, confmute, step, chunk, heard, calm>>
      BY <2>4 DEF vars, confVars
    <3> QED
      BY <3>1, CallKeeps
  <2> QED
    BY <2>1, <2>2, <2>3, <2>4, JoinKeeps, CloseKeeps, MuteKeeps DEF MixNext
<1>3. MixSound => HearsOthersOnce
  BY DEF MixSound
<1> QED
  BY <1>1, <1>2, <1>3, PTL DEF MixSpec
-----------------------------------------------------------------------------
(* Spans. *)

HIDE ConferenceAssumption DEF ConferenceAssumption

(* Searches along a list end at the first place there is. *)
LEMMA LeastExists ==
  ASSUME NEW S \in SUBSET Nat, S # {}
  PROVE  \E n \in S : \A m \in S : n <= m
<1>1. PICK n \in S : \A m \in S : ~ (<<m, n>> \in OpToRel(<, Nat))
  BY NatLessThanWellFounded, WFMin
<1>2. \A m \in S : ~ (m < n)
  BY <1>1 DEF OpToRel
<1> QED
  BY <1>2

(* The time base starts before the count that was seen last; the timer     *)
(* expires within a second, and later than that count; what has gone by    *)
(* since, with what it has left, is a second at most (but when the machine *)
(* stood still).  So the time without a round is two seconds at most, and  *)
(* one after a round the timer has not seen yet.                           *)
ClockInv ==
  /\ elapsed \in Nat /\ count \in Nat /\ last_count \in Nat
  /\ expires \in 0 .. OneSecond /\ silent \in Nat
  /\ elapsed >= last_count /\ count >= last_count
  /\ expires + elapsed > last_count
  /\ \/ elapsed + expires <= last_count + OneSecond
     \/ expires = 0 /\ silent = 0
  /\ silent + expires <= IF count = last_count THEN 2 * OneSecond ELSE OneSecond

LEMMA ClockInvStep == ASSUME ClockInv, [MasterNext]_masterVars PROVE ClockInv'
<1> USE MasterAssumption DEF MasterAssumption, ClockInv
<1>1. ASSUME UNCHANGED clock PROVE ClockInv'
  BY <1>1 DEF clock
<1>2. CASE process_masterspan
  BY <1>2 DEF process_masterspan
<1>3. CASE tick
  BY <1>3 DEF tick
<1>4. CASE stall
  BY <1>4 DEF stall
<1>5. CASE core_takes_over
  BY <1>5 DEF core_takes_over, new_time_base
<1>6. CASE core_stands_by
  BY <1>6 DEF core_stands_by, new_time_base
<1>7. CASE \/ find_master_work \/ startup_search \/ assign_search
           \/ unassign_read \/ unassign_read_again \/ unassign_choose \/ unassign_write
  <2>1. UNCHANGED clock
    BY <1>7 DEF find_master_work, startup_search, assign_search, unassign_read,
      unassign_read_again, unassign_choose, unassign_write
  <2> QED
    BY <1>1, <2>1
<1>8. ASSUME NEW s \in Spans,
             \/ alarm_notify(s) \/ driver_stops(s) \/ driver_starts(s)
             \/ startup(s) \/ shutdown(s) \/ set_master_span(s)
             \/ disable_span(s) \/ unassign(s)
             \/ \E r \in Assignments : assign(s, r) \/ assign_fails(s, r)
      PROVE  ClockInv'
  <2>1. UNCHANGED clock
    BY <1>8 DEF alarm_notify, driver_stops, driver_starts, startup, shutdown,
      set_master_span, disable_span, unassign, assign, assign_fails
  <2> QED
    BY <1>1, <2>1
<1>9. CASE UNCHANGED masterVars
  BY <1>1, <1>9 DEF masterVars
<1> QED
  BY <1>2, <1>3, <1>4, <1>5, <1>6, <1>7, <1>8, <1>9 DEF MasterNext

(* With a clock there are never two seconds without a round of             *)
(* _process_masterspan, whatever becomes of the spans: coretimer_func      *)
(* takes over (README: "DAHDI will automatically use the host timer").     *)
THEOREM SpansNeverSilent == MasterSpec => []NeverSilent
<1>1. MasterInit => ClockInv
  BY MasterAssumption DEF MasterAssumption, MasterInit, ClockInv
<1>2. ClockInv => NeverSilent
  BY MasterAssumption DEF MasterAssumption, ClockInv, NeverSilent
<1> QED
  BY <1>1, <1>2, ClockInvStep, PTL DEF MasterSpec

(* What InsertAt and RemoveAt make of a sequence. *)
LEMMA Inserted ==
  ASSUME NEW S, NEW seq \in Seq(S), NEW k \in 1 .. Len(seq) + 1, NEW e \in S
  PROVE  LET new == InsertAt(seq, k, e)
         IN  /\ new \in Seq(S) /\ Len(new) = Len(seq) + 1
             /\ new[k] = e
             /\ \A i \in 1 .. k - 1 : new[i] = seq[i]
             /\ \A i \in k + 1 .. Len(new) : new[i] = seq[i - 1]
<1> DEFINE front == SubSeq(seq, 1, k - 1)
           back == SubSeq(seq, k, Len(seq))
<1>1. Len(seq) \in Nat
  OBVIOUS
<1>2. /\ front \in Seq(S) /\ Len(front) = k - 1
      /\ \A i \in 1 .. k - 1 : front[i] = seq[i]
  BY <1>1, SubSeqProperties
<1>3. /\ back \in Seq(S) /\ Len(back) = Len(seq) - k + 1
      /\ \A i \in 1 .. Len(seq) - k + 1 : back[i] = seq[k + i - 1]
  BY <1>1, SubSeqProperties
<1>4. InsertAt(seq, k, e) = (front \o <<e>>) \o back
  BY DEF InsertAt
<1> HIDE DEF front, back
<1>5. /\ front \o <<e>> \in Seq(S) /\ Len(front \o <<e>>) = k
      /\ (front \o <<e>>)[k] = e
      /\ \A i \in 1 .. k - 1 : (front \o <<e>>)[i] = seq[i]
  <2> DEFINE one == <<e>>
  <2>1. one \in Seq(S) /\ Len(one) = 1 /\ one[1] = e
    OBVIOUS
  <2> HIDE DEF one
  <2>2. /\ front \o one \in Seq(S) /\ Len(front \o one) = Len(front) + Len(one)
        /\ \A i \in 1 .. Len(front) + Len(one) :
             (front \o one)[i] = IF i <= Len(front) THEN front[i] ELSE one[i - Len(front)]
    <3>1. front \in Seq(S)
      BY <1>2
    <3>2. one \in Seq(S)
      BY <2>1
    <3> HIDE DEF front
    <3> QED
      BY <3>1, <3>2, ConcatProperties
  <2>3. /\ front \o one \in Seq(S) /\ Len(front \o one) = k
        /\ (front \o one)[k] = e
        /\ \A i \in 1 .. k - 1 : (front \o one)[i] = seq[i]
    BY <1>2, <2>1, <2>2
  <2> QED
    BY <2>3 DEF one
<1> DEFINE new == (front \o <<e>>) \o back
<1>6. /\ new \in Seq(S) /\ Len(new) = Len(seq) + 1
      /\ \A i \in 1 .. Len(seq) + 1 :
           new[i] = IF i <= k THEN (front \o <<e>>)[i] ELSE back[i - k]
  <2> DEFINE start == front \o <<e>>
  <2>1. start \in Seq(S) /\ back \in Seq(S)
    BY <1>3, <1>5
  <2> HIDE DEF start
  <2>2. /\ start \o back \in Seq(S) /\ Len(start \o back) = Len(start) + Len(back)
        /\ \A i \in 1 .. Len(start) + Len(back) :
             (start \o back)[i] = IF i <= Len(start) THEN start[i] ELSE back[i - Len(start)]
    BY <2>1, ConcatProperties
  <2>5. Len(start) = k
    BY <1>5, Zenon DEF start
  <2>3. Len(start) + Len(back) = Len(seq) + 1
    BY <1>1, <1>3, <2>5
  <2>4. new = start \o back
    BY DEF new, start
  <2>6. /\ new \in Seq(S) /\ Len(new) = Len(seq) + 1
        /\ \A i \in 1 .. Len(seq) + 1 : new[i] = IF i <= k THEN start[i] ELSE back[i - k]
    BY <2>2, <2>3, <2>4, <2>5
  <2> QED
    BY <2>6 DEF start
<1> HIDE DEF new
<1>7. \A i \in k + 1 .. Len(new) : new[i] = seq[i - 1]
  <2> TAKE i \in k + 1 .. Len(new)
  <2>1. i \in 1 .. Len(seq) + 1 /\ ~ (i <= k) /\ i - k \in 1 .. Len(seq) - k + 1
    BY <1>1, <1>6
  <2>2. new[i] = back[i - k]
    BY <1>6, <2>1
  <2>3. back[i - k] = seq[k + (i - k) - 1] /\ k + (i - k) - 1 = i - 1
    BY <1>3, <2>1
  <2> QED
    BY <2>2, <2>3
<1>8. new[k] = e /\ \A i \in 1 .. k - 1 : new[i] = seq[i]
  <2>1. \A i \in 1 .. k : i \in 1 .. Len(seq) + 1 /\ i <= k
    BY <1>1
  <2>2. \A i \in 1 .. k : new[i] = (front \o <<e>>)[i]
    BY <1>6, <2>1
  <2>3. k \in 1 .. k /\ \A i \in 1 .. k - 1 : i \in 1 .. k
    BY <1>1
  <2> QED
    BY <1>5, <2>2, <2>3
<1> QED
  BY <1>4, <1>6, <1>7, <1>8 DEF new

LEMMA Removed ==
  ASSUME NEW S, NEW seq \in Seq(S), NEW k \in 1 .. Len(seq)
  PROVE  LET new == RemoveAt(seq, k)
         IN  /\ new \in Seq(S) /\ Len(new) = Len(seq) - 1
             /\ \A i \in 1 .. k - 1 : new[i] = seq[i]
             /\ \A i \in k .. Len(new) : new[i] = seq[i + 1]
<1> DEFINE front == SubSeq(seq, 1, k - 1)
           back == SubSeq(seq, k + 1, Len(seq))
<1>1. Len(seq) \in Nat
  OBVIOUS
<1>2. /\ front \in Seq(S) /\ Len(front) = k - 1
      /\ \A i \in 1 .. k - 1 : front[i] = seq[i]
  BY <1>1, SubSeqProperties
<1>3. /\ back \in Seq(S) /\ Len(back) = Len(seq) - k
      /\ \A i \in 1 .. Len(seq) - k : back[i] = seq[k + i]
  BY <1>1, SubSeqProperties
<1>4. RemoveAt(seq, k) = front \o back
  BY DEF RemoveAt
<1> HIDE DEF front, back
<1> DEFINE new == front \o back
<1>5. /\ new \in Seq(S) /\ Len(new) = Len(seq) - 1
      /\ \A i \in 1 .. Len(seq) - 1 :
           new[i] = IF i <= k - 1 THEN front[i] ELSE back[i - (k - 1)]
  <2>1. front \in Seq(S) /\ back \in Seq(S)
    BY <1>2, <1>3
  <2>2. /\ new \in Seq(S) /\ Len(new) = Len(front) + Len(back)
        /\ \A i \in 1 .. Len(front) + Len(back) :
             new[i] = IF i <= Len(front) THEN front[i] ELSE back[i - Len(front)]
    BY <2>1, ConcatProperties
  <2>3. Len(front) = k - 1 /\ Len(front) + Len(back) = Len(seq) - 1
    BY <1>1, <1>2, <1>3
  <2> QED
    BY <2>2, <2>3
<1> HIDE DEF new
<1>6. \A i \in k .. Len(new) : new[i] = seq[i + 1]
  <2> TAKE i \in k .. Len(new)
  <2>1. i \in 1 .. Len(seq) - 1 /\ ~ (i <= k - 1) /\ i - (k - 1) \in 1 .. Len(seq) - k
    BY <1>1, <1>5
  <2>2. new[i] = back[i - (k - 1)]
    BY <1>5, <2>1
  <2>3. back[i - (k - 1)] = seq[k + (i - (k - 1))] /\ k + (i - (k - 1)) = i + 1
    BY <1>3, <2>1
  <2> QED
    BY <2>2, <2>3
<1>7. \A i \in 1 .. k - 1 : new[i] = seq[i]
  <2> TAKE i \in 1 .. k - 1
  <2>1. i \in 1 .. Len(seq) - 1 /\ i <= k - 1
    BY <1>1
  <2> QED
    BY <1>2, <1>5, <2>1
<1> QED
  BY <1>4, <1>5, <1>6, <1>7 DEF new

(* The list is in the order of the numbers, of spans and of channels; not  *)
(* only neighbours.                                                        *)
OrderInv ==
  /\ span_list \in Seq(Spans)
  /\ spanno \in [Spans -> Nat] /\ channo \in [Spans -> Int]
  /\ \A i \in 1 .. Len(span_list) : spanno[span_list[i]] > 0 /\ channo[span_list[i]] > 0
  /\ \A i, j \in 1 .. Len(span_list) : i < j =>
       /\ spanno[span_list[i]] < spanno[span_list[j]]
       /\ End(span_list[i]) <= channo[span_list[j]]

LEMMA ListedSpan ==
  ASSUME OrderInv, NEW i \in 1 .. Len(span_list)
  PROVE  /\ span_list[i] \in Spans
         /\ spanno[span_list[i]] \in Nat \ {0} /\ channo[span_list[i]] \in Nat \ {0}
         /\ End(span_list[i]) \in Nat /\ End(span_list[i]) > channo[span_list[i]]
<1>1. span_list[i] \in Spans
  BY DEF OrderInv
<1>2. channels[span_list[i]] \in Nat \ {0}
  BY <1>1, SpanListAssumption DEF SpanListAssumption
<1>3. spanno[span_list[i]] \in Nat \ {0} /\ channo[span_list[i]] \in Nat \ {0}
  BY <1>1 DEF OrderInv
<1> QED
  BY <1>1, <1>2, <1>3 DEF End

LEMMA InOrder ==
  ASSUME OrderInv, NEW i \in 1 .. Len(span_list), NEW j \in 1 .. Len(span_list), i < j
  PROVE  spanno[span_list[i]] < spanno[span_list[j]] /\ End(span_list[i]) <= channo[span_list[j]]
BY DEF OrderInv

(* The i-th span ends behind all those before it. *)
LEMMA AllBehind ==
  ASSUME OrderInv, NEW i \in 1 .. Len(span_list), NEW j \in 1 .. i
  PROVE  /\ spanno[span_list[j]] <= spanno[span_list[i]]
         /\ End(span_list[j]) <= End(span_list[i])
<1>1. j \in 1 .. Len(span_list) /\ i \in Nat /\ j \in Nat
  BY DEF OrderInv
<1>2. CASE i = j
  BY <1>1, <1>2, ListedSpan
<1>3. CASE j < i
  <2>1. spanno[span_list[j]] < spanno[span_list[i]] /\ End(span_list[j]) <= channo[span_list[i]]
    BY <1>1, <1>3, InOrder
  <2> QED
    BY <1>1, <2>1, ListedSpan
<1> QED
  BY <1>1, <1>2, <1>3

(* Where span s has room before the next one, as first_place looks. *)
Room(s) ==
  {i \in 0 .. Len(span_list) :
     i < Len(span_list) => FitsBefore(s, PlaceAfter(i), span_list[i + 1])}

LEMMA FirstPlace ==
  ASSUME OrderInv, NEW s \in Spans
  PROVE  \E i \in Room(s) : first_place(s) = PlaceAfter(i) /\ \A j \in Room(s) : i <= j
<1>1. Len(span_list) \in Nat
  BY DEF OrderInv
<1>2. Room(s) \in SUBSET Nat /\ Room(s) # {}
  <2>1. Len(span_list) \in Room(s)
    BY <1>1 DEF Room
  <2> QED
    BY <1>1, <2>1 DEF Room
<1>3. \E i \in Room(s) : \A j \in Room(s) : i <= j
  BY <1>2, LeastExists
<1>4. Min(Room(s)) \in Room(s) /\ \A j \in Room(s) : Min(Room(s)) <= j
  BY <1>3 DEF Min
<1>5. first_place(s) = PlaceAfter(Min(Room(s)))
  BY DEF first_place, Room
<1> QED
  BY <1>4, <1>5

LEMMA PlaceAfterSound ==
  ASSUME OrderInv, NEW i \in 0 .. Len(span_list)
  PROVE  /\ PlaceAfter(i).spanno \in Nat \ {0} /\ PlaceAfter(i).basechan \in Nat \ {0}
         /\ \A j \in 1 .. i : /\ spanno[span_list[j]] < PlaceAfter(i).spanno
                             /\ End(span_list[j]) <= PlaceAfter(i).basechan
<1>1. CASE i = 0
  BY <1>1 DEF PlaceAfter, Place
<1>2. CASE i # 0
  <2>1. i \in 1 .. Len(span_list) /\ Len(span_list) \in Nat
    BY <1>2 DEF OrderInv
  <2>3. PlaceAfter(i).spanno = spanno[span_list[i]] + 1
        /\ PlaceAfter(i).basechan = End(span_list[i])
    BY <1>2 DEF PlaceAfter, Place
  <2>4. spanno[span_list[i]] \in Nat /\ End(span_list[i]) \in Nat \ {0}
    BY <2>1, ListedSpan
  <2>5. ASSUME NEW j \in 1 .. i
        PROVE  /\ spanno[span_list[j]] < PlaceAfter(i).spanno
               /\ End(span_list[j]) <= PlaceAfter(i).basechan
    <3>1. spanno[span_list[j]] \in Nat
      BY <2>1, ListedSpan
    <3>2. /\ spanno[span_list[j]] <= spanno[span_list[i]]
          /\ End(span_list[j]) <= End(span_list[i])
      BY <2>1, AllBehind
    <3> QED
      BY <2>3, <2>4, <3>1, <3>2
  <2> QED
    BY <2>3, <2>4, <2>5
<1> QED
  BY <1>1, <1>2

(* Where _assign_spanno_and_basechan puts a span it fits, *)
LEMMA FirstPlaceFits ==
  ASSUME OrderInv, NEW s \in Spans
  PROVE  Fits(s, first_place(s)) /\ first_place(s) \in [spanno : Nat \ {0}, basechan : Nat \ {0}]
<1>1. PICK i \in Room(s) : first_place(s) = PlaceAfter(i)
  BY FirstPlace
<1>2. i \in 0 .. Len(span_list) /\ Len(span_list) \in Nat
  BY DEF Room, OrderInv
<1>3. /\ PlaceAfter(i).spanno \in Nat \ {0} /\ PlaceAfter(i).basechan \in Nat \ {0}
      /\ \A j \in 1 .. i : /\ spanno[span_list[j]] < PlaceAfter(i).spanno
                          /\ End(span_list[j]) <= PlaceAfter(i).basechan
  BY <1>2, PlaceAfterSound
<1>4. ASSUME NEW j \in 1 .. Len(span_list), ~ (j <= i)
      PROVE  /\ spanno[span_list[j]] > PlaceAfter(i).spanno
             /\ PlaceAfter(i).basechan + channels[s] <= channo[span_list[j]]
  <2>1. i + 1 \in 1 .. Len(span_list) /\ i < Len(span_list) /\ i + 1 <= j
    BY <1>2, <1>4
  <2>2. /\ spanno[span_list[i + 1]] > PlaceAfter(i).spanno
        /\ PlaceAfter(i).basechan + channels[s] <= channo[span_list[i + 1]]
    BY <2>1 DEF Room, FitsBefore
  <2>3. /\ spanno[span_list[i + 1]] <= spanno[span_list[j]]
        /\ channo[span_list[i + 1]] <= channo[span_list[j]]
    <3>1. CASE i + 1 = j
      BY <2>1, <3>1, ListedSpan
    <3>2. CASE i + 1 < j
      <4>1. spanno[span_list[i + 1]] < spanno[span_list[j]]
            /\ End(span_list[i + 1]) <= channo[span_list[j]]
        BY <2>1, <3>2, InOrder
      <4> QED
        BY <2>1, <4>1, ListedSpan
    <3> QED
      BY <2>1, <3>1, <3>2
  <2>4. channels[s] \in Nat
    BY SpanListAssumption DEF SpanListAssumption
  <2>5. /\ channo[span_list[i + 1]] \in Nat /\ channo[span_list[j]] \in Nat
        /\ spanno[span_list[i + 1]] \in Nat /\ spanno[span_list[j]] \in Nat
    BY <2>1, ListedSpan
  <2>6. spanno[span_list[j]] > PlaceAfter(i).spanno
    BY <1>3, <2>2, <2>3, <2>5
  <2>7. PlaceAfter(i).basechan + channels[s] <= channo[span_list[j]]
    BY <1>3, <2>2, <2>3, <2>4, <2>5
  <2> QED
    BY <2>6, <2>7
<1>5. Fits(s, PlaceAfter(i))
  <2>1. SUFFICES ASSUME NEW pos \in Listed
                 PROVE  \/ /\ spanno[pos] < PlaceAfter(i).spanno
                           /\ End(pos) <= PlaceAfter(i).basechan
                        \/ /\ spanno[pos] > PlaceAfter(i).spanno
                           /\ PlaceAfter(i).basechan + channels[s] <= channo[pos]
    BY DEF Fits
  <2>2. PICK j \in 1 .. Len(span_list) : pos = span_list[j]
    BY DEF Listed, ToSet, OrderInv
  <2>3. j \in 1 .. i \/ ~ (j <= i)
    BY <1>2
  <2> QED
    BY <1>3, <1>4, <2>2, <2>3
<1>6. PlaceAfter(i) \in [spanno : Nat \ {0}, basechan : Nat \ {0}]
  BY <1>3 DEF PlaceAfter, Place
<1> QED
  BY <1>1, <1>5, <1>6

(* and no lower channels are left for it. *)
LEMMA FirstPlaceLowest ==
  ASSUME OrderInv, NEW s \in Spans, NEW p \in [spanno : Nat \ {0}, basechan : Nat \ {0}],
         Fits(s, p)
  PROVE  first_place(s).basechan <= p.basechan
<1>1. PICK i \in Room(s) : first_place(s) = PlaceAfter(i) /\ \A j \in Room(s) : i <= j
  BY FirstPlace
<1>2. i \in 0 .. Len(span_list) /\ Len(span_list) \in Nat
  BY DEF Room, OrderInv
<1>3. channels[s] \in Nat
  BY SpanListAssumption DEF SpanListAssumption
<1>4. p.spanno \in Nat \ {0} /\ p.basechan \in Nat \ {0}
  OBVIOUS
<1>5. CASE i = 0
  BY <1>1, <1>4, <1>5 DEF PlaceAfter, Place
<1>6. CASE i # 0
  <2> DEFINE above == {k \in 1 .. Len(span_list) : spanno[span_list[k]] > p.spanno}
  <2> SUFFICES ASSUME ~ (PlaceAfter(i).basechan <= p.basechan) PROVE FALSE
    BY <1>1
  <2>1. i \in 1 .. Len(span_list) /\ PlaceAfter(i).basechan = End(span_list[i])
    BY <1>2, <1>6 DEF PlaceAfter, Place
  <2>2. \A k \in 1 .. Len(span_list) :
          \/ spanno[span_list[k]] < p.spanno /\ End(span_list[k]) <= p.basechan
          \/ spanno[span_list[k]] > p.spanno /\ p.basechan + channels[s] <= channo[span_list[k]]
    BY DEF Fits, Listed, ToSet, OrderInv
  <2>3. i \in above
    BY <2>1, <2>2
  <2>4. PICK k \in above : \A m \in above : k <= m
    <3>1. above \in SUBSET Nat /\ above # {}
      BY <2>3
    <3> HIDE DEF above
    <3> QED
      BY <3>1, LeastExists
  <2>5. k \in 1 .. Len(span_list) /\ k <= i /\ k - 1 \in 0 .. Len(span_list) /\ ~ (k - 1 \in above)
    BY <1>2, <2>1, <2>3, <2>4
  <2>6. p.basechan + channels[s] <= channo[span_list[k]] /\ p.spanno < spanno[span_list[k]]
        /\ channo[span_list[k]] \in Nat /\ spanno[span_list[k]] \in Nat
    BY <2>2, <2>4, <2>5, <1>4, ListedSpan
  <2>7. PlaceAfter(k - 1).spanno <= p.spanno /\ PlaceAfter(k - 1).basechan <= p.basechan
        /\ PlaceAfter(k - 1).spanno \in Nat /\ PlaceAfter(k - 1).basechan \in Nat
    <3>1. CASE k = 1
      BY <1>4, <3>1 DEF PlaceAfter, Place
    <3>2. CASE k # 1
      <4>1. k - 1 \in 1 .. Len(span_list) /\ k - 1 # 0
        BY <2>5, <3>2, <1>2
      <4>2. spanno[span_list[k - 1]] < p.spanno /\ End(span_list[k - 1]) <= p.basechan
        BY <2>2, <2>5, <4>1
      <4>3. PlaceAfter(k - 1).spanno = spanno[span_list[k - 1]] + 1
            /\ PlaceAfter(k - 1).basechan = End(span_list[k - 1])
        BY <4>1 DEF PlaceAfter, Place
      <4>4. spanno[span_list[k - 1]] \in Nat /\ End(span_list[k - 1]) \in Nat
        BY <4>1, ListedSpan
      <4> QED
        BY <1>4, <4>2, <4>3, <4>4
    <3> QED
      BY <3>1, <3>2
  <2>8. k - 1 + 1 = k
    BY <2>5
  <2>9. FitsBefore(s, PlaceAfter(k - 1), span_list[(k - 1) + 1])
    <3>1. spanno[span_list[k]] > PlaceAfter(k - 1).spanno
      BY <1>4, <2>6, <2>7
    <3>2. PlaceAfter(k - 1).basechan + channels[s] <= channo[span_list[k]]
      BY <1>3, <1>4, <2>6, <2>7
    <3> QED
      BY <2>8, <3>1, <3>2 DEF FitsBefore
  <2>10. k - 1 \in Room(s)
    BY <2>5, <2>9 DEF Room
  <2> QED
    BY <1>1, <1>2, <2>5, <2>10
<1> QED
  BY <1>5, <1>6

(* _check_spanno_and_basechan and the name of the sysfs entry refuse       *)
(* exactly what does not fit.                                              *)
LEMMA FreeIsFit ==
  ASSUME OrderInv, NEW s \in Spans, NEW p \in [spanno : Nat, basechan : Nat]
  PROVE  place_is_free(s, p) /\ TakesName(p.spanno) <=> Fits(s, p)
<1>1. Listed = {span_list[i] : i \in 1 .. Len(span_list)} /\ Len(span_list) \in Nat
  BY DEF Listed, ToSet, OrderInv
<1>2. channels[s] \in Nat /\ p.spanno \in Nat /\ p.basechan \in Nat
  BY SpanListAssumption DEF SpanListAssumption
<1>3. \A pos \in Listed : spanno[pos] \in Nat
  BY <1>1, ListedSpan
<1>4. ASSUME Fits(s, p) PROVE place_is_free(s, p) /\ TakesName(p.spanno)
  <2>1. \A pos \in Listed :
          \/ spanno[pos] < p.spanno /\ End(pos) <= p.basechan
          \/ spanno[pos] > p.spanno /\ p.basechan + channels[s] <= channo[pos]
    BY <1>4 DEF Fits
  <2>2. TakesName(p.spanno)
    BY <1>2, <1>3, <2>1 DEF TakesName
  <2>3. \A pos \in Listed : spanno[pos] <= p.spanno => End(pos) <= p.basechan
    BY <1>2, <1>3, <2>1
  <2>4. \A i \in 1 .. Len(span_list) :
          spanno[span_list[i]] > p.spanno => p.basechan + channels[s] <= channo[span_list[i]]
    BY <1>1, <1>2, <1>3, <2>1
  <2> QED
    BY <2>2, <2>3, <2>4 DEF place_is_free
<1>5. ASSUME place_is_free(s, p), TakesName(p.spanno) PROVE Fits(s, p)
  <2> SUFFICES ASSUME NEW i \in 1 .. Len(span_list)
               PROVE  \/ /\ spanno[span_list[i]] < p.spanno
                         /\ End(span_list[i]) <= p.basechan
                      \/ /\ spanno[span_list[i]] > p.spanno
                         /\ p.basechan + channels[s] <= channo[span_list[i]]
    BY <1>1 DEF Fits
  <2>1. span_list[i] \in Listed /\ spanno[span_list[i]] \in Nat /\ spanno[span_list[i]] # p.spanno
    BY <1>1, <1>3, <1>5 DEF TakesName
  <2>2. CASE spanno[span_list[i]] <= p.spanno
    BY <1>2, <1>5, <2>1, <2>2 DEF place_is_free
  <2>3. CASE spanno[span_list[i]] > p.spanno
    <3> DEFINE above == {k \in 1 .. Len(span_list) : spanno[span_list[k]] > p.spanno}
    <3>1. above \in SUBSET Nat /\ i \in above
      BY <2>3
    <3>2. PICK k \in above : \A m \in above : k <= m
      <4> HIDE DEF above
      <4> QED
        BY <3>1, LeastExists
    <3>3. k \in 1 .. Len(span_list) /\ spanno[span_list[k]] > p.spanno /\ k <= i
      BY <3>1, <3>2
    <3>4. \A j \in 1 .. k - 1 : spanno[span_list[j]] <= p.spanno
      <4> TAKE j \in 1 .. k - 1
      <4>1. j \in 1 .. Len(span_list) /\ ~ (k <= j)
        BY <1>1, <3>3
      <4>2. ~ (j \in above)
        BY <3>2, <4>1
      <4> QED
        BY <1>2, <4>1, <4>2, ListedSpan
    <3>5. p.basechan + channels[s] <= channo[span_list[k]]
      BY <1>5, <3>3, <3>4 DEF place_is_free
    <3>6. channo[span_list[k]] <= channo[span_list[i]]
          /\ channo[span_list[k]] \in Nat /\ channo[span_list[i]] \in Nat
      <4>1. CASE k = i
        BY <3>3, <4>1, ListedSpan
      <4>2. CASE k < i
        <5>1. End(span_list[k]) <= channo[span_list[i]]
          BY <3>3, <4>2, InOrder
        <5> QED
          BY <3>3, <5>1, ListedSpan
      <4> QED
        BY <3>3, <4>1, <4>2
    <3> QED
      BY <1>2, <2>3, <3>5, <3>6
  <2> QED
    BY <1>2, <2>1, <2>2, <2>3
<1> QED
  BY <1>4, <1>5

LEMMA OrderIsSound == OrderInv => ListSound
<1> SUFFICES ASSUME OrderInv PROVE ListSound
  OBVIOUS
<1>1. SpansInOrder
  <2> SUFFICES ASSUME NEW i \in 1 .. Len(span_list) - 1
               PROVE  /\ spanno[span_list[i]] < spanno[span_list[i + 1]]
                      /\ End(span_list[i]) <= channo[span_list[i + 1]]
    BY DEF SpansInOrder
  <2>1. i \in 1 .. Len(span_list) /\ i + 1 \in 1 .. Len(span_list) /\ i < i + 1
    BY DEF OrderInv
  <2> QED
    BY <2>1, InOrder
<1>2. \A p \in PlacesAtHand : p \in [spanno : Nat \ {0}, basechan : Nat \ {0}]
                         /\ p \in [spanno : Nat, basechan : Nat]
  BY DEF PlacesAtHand
<1>3. ASSUME NEW s \in Spans
      PROVE  /\ Fits(s, first_place(s))
             /\ \A p \in PlacesAtHand : Fits(s, p) => first_place(s).basechan <= p.basechan
             /\ \A p \in PlacesAtHand : place_is_free(s, p) /\ TakesName(p.spanno) <=> Fits(s, p)
  BY <1>2, FirstPlaceFits, FirstPlaceLowest, FreeIsFit
<1> QED
  BY <1>1, <1>3 DEF ListSound, PlacesFit

(* Where a span is put, those with lower numbers are in front of it. *)
LEMMA BeforeSplits ==
  ASSUME OrderInv, NEW no \in Nat
  PROVE  /\ Before(no) \in 1 .. Len(span_list) + 1
         /\ \A j \in 1 .. Before(no) - 1 : spanno[span_list[j]] <= no
         /\ \A j \in Before(no) .. Len(span_list) : spanno[span_list[j]] > no
<1> DEFINE above == {k \in 1 .. Len(span_list) : spanno[span_list[k]] > no}
           First(i) == /\ spanno[span_list[i]] > no
                       /\ \A j \in 1 .. i - 1 : spanno[span_list[j]] <= no
<1>1. Len(span_list) \in Nat /\ \A j \in 1 .. Len(span_list) : spanno[span_list[j]] \in Nat
  BY ListedSpan DEF OrderInv
<1>2. CASE above = {}
  <2>1. Before(no) = Len(span_list) + 1
    BY <1>2 DEF Before
  <2>2. \A j \in 1 .. Len(span_list) : ~ (spanno[span_list[j]] > no)
    BY <1>2
  <2> QED
    BY <1>1, <2>1, <2>2
<1>3. CASE above # {}
  <2>1. PICK k \in above : \A m \in above : k <= m
    <3>1. above \in SUBSET Nat
      OBVIOUS
    <3> HIDE DEF above
    <3> QED
      BY <1>3, <3>1, LeastExists
  <2>2. k \in 1 .. Len(span_list) /\ First(k)
    <3>1. \A j \in 1 .. k - 1 : j \in 1 .. Len(span_list) /\ ~ (k <= j)
      BY <1>1, <2>1
    <3> QED
      BY <1>1, <2>1, <3>1
  <2>3. Before(no) = CHOOSE i \in 1 .. Len(span_list) : First(i)
    BY <2>2 DEF Before
  <2>4. Before(no) \in 1 .. Len(span_list) /\ First(Before(no))
    <3> HIDE DEF First
    <3> QED
      BY <2>2, <2>3
  <2>5. ASSUME NEW j \in Before(no) .. Len(span_list) PROVE spanno[span_list[j]] > no
    <3>1. j \in 1 .. Len(span_list)
      BY <1>1, <2>4
    <3>2. CASE j = Before(no)
      BY <2>4, <3>2
    <3>3. CASE Before(no) < j
      <4>1. spanno[span_list[Before(no)]] < spanno[span_list[j]]
        BY <2>4, <3>1, <3>3, InOrder
      <4> QED
        BY <1>1, <2>4, <3>1, <4>1
    <3> QED
      BY <1>1, <2>4, <3>1, <3>2, <3>3
  <2> QED
    BY <1>1, <2>4, <2>5
<1> QED
  BY <1>2, <1>3

(* A span put in front of the first one with a higher number. *)
LEMMA PutInPlace ==
  ASSUME OrderInv, NEW s \in Spans, s \notin Listed,
         NEW p \in [spanno : Nat \ {0}, basechan : Nat \ {0}], Fits(s, p),
         span_list' = InsertAt(span_list, Before(p.spanno), s),
         spanno' = [spanno EXCEPT ![s] = p.spanno],
         channo' = [channo EXCEPT ![s] = p.basechan]
  PROVE  OrderInv' /\ Listed' = Listed \cup {s}
<1> DEFINE k == Before(p.spanno)
<1>1. Len(span_list) \in Nat /\ span_list \in Seq(Spans)
  BY DEF OrderInv
<1>2. /\ k \in 1 .. Len(span_list) + 1
      /\ \A j \in 1 .. k - 1 : spanno[span_list[j]] <= p.spanno
      /\ \A j \in k .. Len(span_list) : spanno[span_list[j]] > p.spanno
  BY BeforeSplits
<1>3. /\ span_list' \in Seq(Spans) /\ Len(span_list') = Len(span_list) + 1
      /\ span_list'[k] = s
      /\ \A i \in 1 .. k - 1 : span_list'[i] = span_list[i]
      /\ \A i \in k + 1 .. Len(span_list') : span_list'[i] = span_list[i - 1]
  <2>1. span_list' = InsertAt(span_list, k, s)
    OBVIOUS
  <2> DEFINE new == InsertAt(span_list, k, s)
  <2>2. k \in 1 .. Len(span_list) + 1
    BY <1>2
  <2> HIDE DEF k
  <2>3. /\ new \in Seq(Spans) /\ Len(new) = Len(span_list) + 1
        /\ new[k] = s
        /\ \A i \in 1 .. k - 1 : new[i] = span_list[i]
        /\ \A i \in k + 1 .. Len(new) : new[i] = span_list[i - 1]
    BY <1>1, <2>2, Inserted
  <2> HIDE DEF new
  <2>4. span_list' = new
    BY <2>1 DEF new
  <2> QED
    BY <2>3, <2>4
<1> HIDE DEF k
<1>4. Listed = {span_list[i] : i \in 1 .. Len(span_list)}
  BY <1>1 DEF Listed, ToSet
<1>14. Listed' = {span_list'[i] : i \in 1 .. Len(span_list')}
  BY <1>3 DEF Listed, ToSet
<1>5. \A i \in 1 .. Len(span_list) :
        /\ span_list[i] \in Spans /\ span_list[i] # s
        /\ spanno[span_list[i]] \in Nat \ {0} /\ channo[span_list[i]] \in Nat \ {0}
        /\ \/ spanno[span_list[i]] < p.spanno /\ End(span_list[i]) <= p.basechan
           \/ spanno[span_list[i]] > p.spanno /\ p.basechan + channels[s] <= channo[span_list[i]]
  BY <1>4, ListedSpan DEF Fits
<1>6. /\ spanno' \in [Spans -> Nat] /\ channo' \in [Spans -> Int]
      /\ spanno'[s] = p.spanno /\ channo'[s] = p.basechan
      /\ \A t \in Spans : t # s => spanno'[t] = spanno[t] /\ channo'[t] = channo[t]
  BY DEF OrderInv
<1>7. \A i \in 1 .. Len(span_list) :
        /\ spanno'[span_list[i]] = spanno[span_list[i]] /\ channo'[span_list[i]] = channo[span_list[i]]
        /\ channo'[span_list[i]] + channels[span_list[i]] = End(span_list[i])
  BY <1>5, <1>6 DEF End
<1>8. \A i \in 1 .. Len(span_list') : i = k \/ i \in 1 .. k - 1 \/ i \in k + 1 .. Len(span_list')
  BY <1>1, <1>2, <1>3
<1>9. /\ \A i \in 1 .. k - 1 : i \in 1 .. Len(span_list)
      /\ \A i \in k + 1 .. Len(span_list') :
           i - 1 \in k .. Len(span_list) /\ i - 1 \in 1 .. Len(span_list)
  BY <1>1, <1>2, <1>3
<1>15. ASSUME NEW i \in 1 .. Len(span_list'), i # k
       PROVE  \E m \in 1 .. Len(span_list) :
                span_list'[i] = span_list[m] /\ m = IF i < k THEN i ELSE i - 1
  <2>1. CASE i \in 1 .. k - 1
    <3>1. i \in 1 .. Len(span_list) /\ span_list'[i] = span_list[i] /\ i < k
      BY <1>2, <1>3, <1>9, <2>1
    <3> QED
      BY <3>1
  <2>2. CASE i \in k + 1 .. Len(span_list')
    <3>1. i - 1 \in 1 .. Len(span_list) /\ span_list'[i] = span_list[i - 1] /\ ~ (i < k)
      BY <1>2, <1>3, <1>9, <2>2
    <3> QED
      BY <3>1
  <2> QED
    BY <1>8, <1>15, <2>1, <2>2
<1>10. ASSUME NEW i \in 1 .. Len(span_list')
       PROVE  spanno'[span_list'[i]] > 0 /\ channo'[span_list'[i]] > 0
  <2>1. CASE i = k
    BY <1>3, <1>6, <2>1
  <2>2. CASE i # k
    <3>1. PICK m \in 1 .. Len(span_list) : span_list'[i] = span_list[m]
      BY <1>15, <2>2
    <3> QED
      BY <1>5, <1>7, <3>1
  <2> QED
    BY <2>1, <2>2
<1>11. ASSUME NEW i \in 1 .. Len(span_list'), NEW j \in 1 .. Len(span_list'), i < j
       PROVE  /\ spanno'[span_list'[i]] < spanno'[span_list'[j]]
              /\ channo'[span_list'[i]] + channels[span_list'[i]] <= channo'[span_list'[j]]
  <2>1. CASE i = k
    <3>1. j \in k + 1 .. Len(span_list')
      BY <1>2, <1>8, <1>11, <2>1
    <3>2. span_list'[j] = span_list[j - 1] /\ j - 1 \in k .. Len(span_list) /\ j - 1 \in 1 .. Len(span_list)
      BY <1>3, <1>9, <3>1
    <3>3. spanno[span_list[j - 1]] > p.spanno /\ p.basechan + channels[s] <= channo[span_list[j - 1]]
      BY <1>2, <1>5, <3>2
    <3> QED
      BY <1>3, <1>6, <1>7, <2>1, <3>2, <3>3, SMTT(30)
  <2>2. CASE j = k
    <3>1. i \in 1 .. k - 1 /\ span_list'[i] = span_list[i] /\ i \in 1 .. Len(span_list)
      BY <1>2, <1>3, <1>8, <1>9, <1>11, <2>2
    <3>2. spanno[span_list[i]] < p.spanno /\ End(span_list[i]) <= p.basechan
      BY <1>2, <1>5, <3>1
    <3> QED
      BY <1>3, <1>6, <1>7, <2>2, <3>1, <3>2
  <2>3. CASE i # k /\ j # k
    <3>1. PICK m \in 1 .. Len(span_list) :
            span_list'[i] = span_list[m] /\ m = IF i < k THEN i ELSE i - 1
      BY <1>15, <2>3
    <3>4. PICK n \in 1 .. Len(span_list) :
            span_list'[j] = span_list[n] /\ n = IF j < k THEN j ELSE j - 1
      BY <1>15, <2>3
    <3>5. m < n
      BY <1>2, <1>11, <2>3, <3>1, <3>4
    <3>2. spanno[span_list[m]] < spanno[span_list[n]] /\ End(span_list[m]) <= channo[span_list[n]]
      BY <3>5, InOrder
    <3> QED
      BY <1>7, <3>1, <3>2, <3>4
  <2> QED
    BY <2>1, <2>2, <2>3
<1>12. OrderInv'
  BY <1>3, <1>6, <1>10, <1>11 DEF OrderInv, End
<1>13. Listed' = Listed \cup {s}
  <2>1. ASSUME NEW i \in 1 .. Len(span_list') PROVE span_list'[i] \in Listed \cup {s}
    <3>1. CASE i = k
      BY <1>3, <3>1
    <3>2. CASE i \in 1 .. k - 1
      BY <1>3, <1>4, <1>9, <3>2
    <3>3. CASE i \in k + 1 .. Len(span_list')
      BY <1>3, <1>4, <1>9, <3>3
    <3> QED
      BY <1>8, <3>1, <3>2, <3>3
  <2>2. s \in Listed'
    BY <1>1, <1>2, <1>3, <1>14
  <2>3. ASSUME NEW i \in 1 .. Len(span_list) PROVE span_list[i] \in Listed'
    <3>1. CASE i < k
      <4>1. i \in 1 .. k - 1 /\ i \in 1 .. Len(span_list')
        BY <1>1, <1>2, <1>3, <3>1
      <4> QED
        BY <1>3, <1>14, <4>1
    <3>2. CASE ~ (i < k)
      <4>1. i + 1 \in k + 1 .. Len(span_list') /\ i + 1 \in 1 .. Len(span_list') /\ i + 1 - 1 = i
        BY <1>1, <1>2, <1>3, <3>2
      <4>2. span_list'[i + 1] = span_list[i]
        BY <1>3, <4>1
      <4> QED
        BY <1>14, <4>1, <4>2
    <3> QED
      BY <3>1, <3>2
  <2>4. Listed' \subseteq Listed \cup {s}
    BY <1>14, <2>1
  <2>5. Listed \subseteq Listed'
    BY <1>4, <2>3
  <2> QED
    BY <2>2, <2>4, <2>5
<1> QED
  BY <1>12, <1>13

(* A span taken off. *)
LEMMA TakenOff ==
  ASSUME OrderInv, NEW s \in Spans, unlist_span(s)
  PROVE  OrderInv' /\ Listed' = Listed \ {s}
<1> DEFINE k == CHOOSE i \in 1 .. Len(span_list) : span_list[i] = s
<1>1. Len(span_list) \in Nat /\ span_list \in Seq(Spans)
  BY DEF OrderInv
<1>2. Listed = {span_list[i] : i \in 1 .. Len(span_list)}
  BY <1>1 DEF Listed, ToSet
<1>3. k \in 1 .. Len(span_list) /\ span_list[k] = s
  BY <1>2 DEF unlist_span
<1>4. span_list' = RemoveAt(span_list, k)
  BY DEF unlist_span
<1> HIDE DEF k
<1>5. /\ span_list' \in Seq(Spans) /\ Len(span_list') = Len(span_list) - 1
      /\ \A i \in 1 .. k - 1 : span_list'[i] = span_list[i]
      /\ \A i \in k .. Len(span_list') : span_list'[i] = span_list[i + 1]
  BY <1>1, <1>3, <1>4, Removed
<1>6. Listed' = {span_list'[i] : i \in 1 .. Len(span_list')}
  BY <1>5 DEF Listed, ToSet
<1>7. \A i \in 1 .. Len(span_list) : i # k => span_list[i] # s
  <2> SUFFICES ASSUME NEW i \in 1 .. Len(span_list), i # k
               PROVE  spanno[span_list[i]] # spanno[span_list[k]]
    BY <1>3
  <2>1. i < k \/ k < i
    BY <1>3
  <2>2. i < k => spanno[span_list[i]] < spanno[span_list[k]]
    BY <1>3, InOrder
  <2>3. k < i => spanno[span_list[k]] < spanno[span_list[i]]
    BY <1>3, InOrder
  <2> QED
    BY <1>3, <2>1, <2>2, <2>3, ListedSpan
<1>8. /\ spanno' \in [Spans -> Nat] /\ channo' \in [Spans -> Int]
      /\ \A t \in Spans : t # s => spanno'[t] = spanno[t] /\ channo'[t] = channo[t]
  BY DEF OrderInv, unlist_span
<1>9. \A i \in 1 .. Len(span_list) : i # k =>
        /\ spanno'[span_list[i]] = spanno[span_list[i]] /\ channo'[span_list[i]] = channo[span_list[i]]
        /\ channo'[span_list[i]] + channels[span_list[i]] = End(span_list[i])
  BY <1>7, <1>8, ListedSpan DEF End
<1>10. ASSUME NEW i \in 1 .. Len(span_list')
       PROVE  \E m \in 1 .. Len(span_list) :
                m # k /\ span_list'[i] = span_list[m] /\ m = IF i < k THEN i ELSE i + 1
  <2>1. CASE i < k
    BY <1>1, <1>3, <1>5, <2>1
  <2>2. CASE ~ (i < k)
    <3>1. i \in k .. Len(span_list') /\ i + 1 \in 1 .. Len(span_list) /\ i + 1 # k
      BY <1>1, <1>3, <1>5, <2>2
    <3> QED
      BY <1>5, <2>2, <3>1
  <2> QED
    BY <2>1, <2>2
<1>11. ASSUME NEW i \in 1 .. Len(span_list')
       PROVE  spanno'[span_list'[i]] > 0 /\ channo'[span_list'[i]] > 0
  <2>1. PICK m \in 1 .. Len(span_list) : m # k /\ span_list'[i] = span_list[m]
    BY <1>10
  <2>2. spanno[span_list[m]] \in Nat \ {0} /\ channo[span_list[m]] \in Nat \ {0}
    BY ListedSpan
  <2> QED
    BY <1>9, <2>1, <2>2
<1>12. ASSUME NEW i \in 1 .. Len(span_list'), NEW j \in 1 .. Len(span_list'), i < j
       PROVE  /\ spanno'[span_list'[i]] < spanno'[span_list'[j]]
              /\ channo'[span_list'[i]] + channels[span_list'[i]] <= channo'[span_list'[j]]
  <2>1. PICK m \in 1 .. Len(span_list) :
          m # k /\ span_list'[i] = span_list[m] /\ m = IF i < k THEN i ELSE i + 1
    BY <1>10
  <2>2. PICK n \in 1 .. Len(span_list) :
          n # k /\ span_list'[j] = span_list[n] /\ n = IF j < k THEN j ELSE j + 1
    BY <1>10
  <2>3. m < n
    BY <1>3, <1>12, <2>1, <2>2
  <2>4. spanno[span_list[m]] < spanno[span_list[n]] /\ End(span_list[m]) <= channo[span_list[n]]
    BY <2>3, InOrder
  <2> QED
    BY <1>9, <2>1, <2>2, <2>4
<1>13. OrderInv'
  BY <1>5, <1>8, <1>11, <1>12 DEF OrderInv, End
<1>14. Listed' = Listed \ {s}
  <2>1. \A t \in Listed' : t \in Listed \ {s}
    BY <1>2, <1>6, <1>7, <1>10
  <2>2. ASSUME NEW i \in 1 .. Len(span_list), span_list[i] # s PROVE span_list[i] \in Listed'
    <3>1. CASE i < k
      <4>1. i \in 1 .. k - 1 /\ i \in 1 .. Len(span_list')
        BY <1>1, <1>3, <1>5, <3>1
      <4> QED
        BY <1>5, <1>6, <4>1
    <3>2. CASE ~ (i < k)
      <4>1. i # k
        BY <1>3, <2>2
      <4>2. i - 1 \in k .. Len(span_list') /\ i - 1 \in 1 .. Len(span_list') /\ i - 1 + 1 = i
        BY <1>1, <1>3, <1>5, <3>2, <4>1
      <4> QED
        BY <1>5, <1>6, <4>2
    <3> QED
      BY <3>1, <3>2
  <2> QED
    BY <1>2, <2>1, <2>2
<1> QED
  BY <1>13, <1>14

(* _dahdi_assign_span with either way to a number. *)
LEMMA PutOnList ==
  ASSUME OrderInv, NEW s \in Spans, NEW r \in Assignments, list_span(s, r)
  PROVE  OrderInv' /\ Listed' = Listed \cup {s}
<1> DEFINE p == PlaceFor(s, r)
<1>1. p \in [spanno : Nat \ {0}, basechan : Nat \ {0}] /\ Fits(s, p)
  <2>1. CASE r.spanno = 0
    BY <2>1, FirstPlaceFits DEF PlaceFor
  <2>2. CASE r.spanno # 0
    <3>1. r \in [spanno : Nat, basechan : Nat] /\ r.basechan # 0
      BY <2>2, SpanListAssumption DEF SpanListAssumption
    <3>2. p = r /\ place_is_free(s, r) /\ TakesName(r.spanno)
      BY <2>2 DEF PlaceFor, list_span
    <3>3. Fits(s, r)
      BY <3>1, <3>2, FreeIsFit
    <3> QED
      BY <2>2, <3>1, <3>2, <3>3
  <2> QED
    BY <2>1, <2>2
<1>2. /\ s \notin Listed
      /\ span_list' = InsertAt(span_list, Before(p.spanno), s)
      /\ spanno' = [spanno EXCEPT ![s] = p.spanno]
      /\ channo' = [channo EXCEPT ![s] = p.basechan]
  BY DEF list_span
<1> HIDE DEF p
<1> QED
  BY <1>1, <1>2, PutInPlace

LEMMA NotPutOnList ==
  ASSUME OrderInv, NEW s \in Spans, NEW r \in Assignments, list_span_fails(s, r)
  PROVE  OrderInv' /\ Listed' = Listed
<1>1. PlaceFor(s, r).spanno \in Nat
  <2>1. r.spanno \in Nat
    BY SpanListAssumption DEF SpanListAssumption
  <2> QED
    BY <2>1, FirstPlaceFits DEF PlaceFor
<1>2. /\ s \notin Listed /\ span_list' = span_list /\ channo' = channo
      /\ spanno' \in [Spans -> Nat]
      /\ \A t \in Spans : t # s => spanno'[t] = spanno[t]
  BY <1>1 DEF list_span_fails, OrderInv
<1>3. \A i \in 1 .. Len(span_list) : span_list[i] # s /\ span_list[i] \in Spans
  BY <1>2 DEF Listed, ToSet, OrderInv
<1>4. \A i \in 1 .. Len(span_list) : spanno'[span_list[i]] = spanno[span_list[i]]
  BY <1>2, <1>3
<1>5. OrderInv'
  BY <1>2, <1>4 DEF OrderInv, End
<1> QED
  BY <1>2, <1>5 DEF Listed

LEMMA OrderKept == OrderInv /\ UNCHANGED spanVars => OrderInv' /\ Listed' = Listed
BY DEF OrderInv, spanVars, End, Listed

LEMMA ListStep == ASSUME OrderInv, [MasterNext]_masterVars PROVE OrderInv'
<1>1. CASE UNCHANGED spanVars
  BY <1>1, OrderKept
<1>2. ASSUME NEW s \in Spans, unassign(s) PROVE OrderInv'
  BY <1>2, TakenOff DEF unassign
<1>3. ASSUME NEW s \in Spans, NEW r \in Assignments, assign(s, r) \/ assign_fails(s, r)
      PROVE  OrderInv'
  BY <1>3, PutOnList, NotPutOnList DEF assign, assign_fails
<1>4. CASE \/ find_master_work \/ startup_search \/ assign_search
           \/ unassign_read \/ unassign_read_again \/ unassign_choose \/ unassign_write
  BY <1>1, <1>4 DEF find_master_work, startup_search, assign_search, unassign_read,
    unassign_read_again, unassign_choose, unassign_write
<1>5. CASE process_masterspan \/ tick \/ stall \/ core_takes_over \/ core_stands_by
  BY <1>1, <1>5 DEF process_masterspan, tick, stall, core_takes_over, core_stands_by
<1>6. ASSUME NEW s \in Spans,
             \/ alarm_notify(s) \/ driver_stops(s) \/ driver_starts(s)
             \/ startup(s) \/ shutdown(s) \/ set_master_span(s) \/ disable_span(s)
      PROVE  UNCHANGED spanVars
  BY <1>6 DEF alarm_notify, driver_stops, driver_starts, startup, shutdown,
    set_master_span, disable_span
<1>7. CASE UNCHANGED masterVars
  BY <1>1, <1>7 DEF masterVars
<1> QED
  BY <1>1, <1>2, <1>3, <1>4, <1>5, <1>6, <1>7 DEF MasterNext

(* However spans come and go, with numbers of their own or without, the    *)
(* list is in order, no span or channel number is given twice, and none is *)
(* refused that could be given (_assign_spanno_and_basechan,               *)
(* _check_spanno_and_basechan, _dahdi_add_span_to_span_list).              *)
THEOREM SpansListSound == MasterSpec => []ListSound
<1>1. MasterInit => OrderInv
  BY DEF MasterInit, SpansInit, OrderInv
<1> QED
  BY <1>1, ListStep, OrderIsSound, PTL DEF MasterSpec

(* The first span of the list in a set is one of both. *)
LEMMA FirstOfIsOne ==
  ASSUME OrderInv, NEW S, S \cap Listed # {}
  PROVE  FirstOf(S) \in S \cap Listed
<1> DEFINE where == {i \in 1 .. Len(span_list) : span_list[i] \in S}
           First(i) == span_list[i] \in S /\ \A j \in 1 .. i - 1 : span_list[j] \notin S
<1>1. Listed = {span_list[i] : i \in 1 .. Len(span_list)} /\ Len(span_list) \in Nat
  BY DEF Listed, ToSet, OrderInv
<1>2. PICK k \in where : \A m \in where : k <= m
  <2>1. where \in SUBSET Nat /\ where # {}
    BY <1>1
  <2> HIDE DEF where
  <2> QED
    BY <2>1, LeastExists
<1>3. k \in 1 .. Len(span_list) /\ First(k)
  <2>1. \A j \in 1 .. k - 1 : j \in 1 .. Len(span_list) /\ ~ (k <= j)
    BY <1>1, <1>2
  <2> QED
    BY <1>2, <2>1
<1>4. PICK i \in 1 .. Len(span_list) : First(i) /\ FirstOf(S) = span_list[i]
  <2> DEFINE i == CHOOSE i \in 1 .. Len(span_list) : First(i)
  <2>1. FirstOf(S) = span_list[i]
    BY DEF FirstOf
  <2> HIDE DEF First
  <2>2. i \in 1 .. Len(span_list) /\ First(i)
    BY <1>3
  <2> HIDE DEF i
  <2> QED
    BY <2>1, <2>2
<1> QED
  BY <1>1, <1>4

(* What the holder of registration_mutex is about: a span is on the list   *)
(* before the search for it and off it before its removal looks for a new  *)
(* master.                                                                 *)
Removing == reg.stage \in {"read", "read_again", "choose", "write"}

RegSensible ==
  /\ reg = Idle \/ reg \in [stage : Stages, span : Spans]
  /\ reg.stage = "search" => reg.span \in Listed
  /\ Removing => reg.span \notin Listed

(* Only a machine without spans, or with one that is about to search, has  *)
(* no master.                                                              *)
MasterKnown ==
  /\ MasterListed
  /\ master_span = NoSpan => Listed \subseteq IF reg.stage = "search" THEN {reg.span} ELSE {}

(* What _dahdi_unassign_span is going to write is on the list: nothing is  *)
(* put on it or taken off meanwhile, and when nothing is left on it nobody *)
(* changes the master.                                                     *)
ChoiceSound ==
  /\ reg.stage = "read_again" /\ Listed = {} => new_master = master_span
  /\ reg.stage = "choose" /\ Listed = {} => new_master = NoSpan
  /\ reg.stage = "write" => IF Listed = {} THEN new_master = NoSpan ELSE new_master \in Listed

MasterInv ==
  OrderInv /\ RegSensible /\ MasterKnown /\ ChoiceSound /\ MasterHealthy

LEMMA RegCases ==
  RegSensible => /\ reg = Idle <=> reg.stage = "idle"
                 /\ reg.stage \in Stages \cup {"idle"}
                 /\ Removing <=> reg.stage \notin {"idle", "search"}
                 /\ reg.stage # "idle" => reg.span \in Spans
                 /\ reg.stage = "idle" => reg.span = NoSpan
BY DEF RegSensible, Idle, Stages, Removing

LEMMA ListedSpans == OrderInv => Listed \subseteq Spans
BY ListedSpan DEF Listed, ToSet, OrderInv

(* A search. *)
LEMMA FindSound ==
  ASSUME MasterInv, CannotTime = {}, find_master_span
  PROVE  /\ master_span' = master_span \/ master_span' \in Listed
         /\ master_span' = NoSpan => Listed = {}
         /\ Listed \cap Healthy # {} => master_span' \in Healthy
         /\ Listed = {} => master_span' = master_span
<1>1. CanTime = Listed
  BY DEF CanTime
<1>2. Listed \subseteq Spans /\ NoSpan \notin Spans
  BY ListedSpans, MasterAssumption DEF MasterInv, MasterAssumption
<1>3. CASE master_span = NoSpan
  <2>1. master_span' = IF Listed = {} THEN NoSpan ELSE FirstOf(Listed)
    BY <1>1, <1>3 DEF find_master_span, Becomes
  <2>2. Listed # {} => FirstOf(Listed) \in Listed
    BY FirstOfIsOne DEF MasterInv
  <2>3. PICK s : Listed \subseteq {s}
    BY <1>3 DEF MasterInv, MasterKnown
  <2> QED
    BY <1>2, <1>3, <2>1, <2>2, <2>3
<1>4. CASE master_span # NoSpan
  <2> DEFINE candidates == (Listed \cap Healthy) \ {master_span}
  <2>1. master_span' = IF candidates = {} THEN master_span ELSE FirstOf(candidates)
    BY <1>1, <1>4 DEF find_master_span, Becomes
  <2>2. candidates # {} => FirstOf(candidates) \in candidates
    <3>1. candidates \cap Listed = candidates
      OBVIOUS
    <3> HIDE DEF candidates
    <3> QED
      BY <3>1, FirstOfIsOne DEF MasterInv
  <2> QED
    BY <1>2, <1>4, <2>1, <2>2
<1> QED
  BY <1>3, <1>4

LEMMA MasterFound ==
  ASSUME MasterInv, CannotTime = {}, find_master_work \/ startup_search \/ assign_search
  PROVE  MasterInv'
<1>1. /\ find_master_span /\ UNCHANGED <<spanVars, alarms, running, new_master>>
      /\ \/ UNCHANGED reg
         \/ reg.stage = "search" /\ reg' = Idle
  BY DEF find_master_work, startup_search, assign_search, spanState
<1>2. /\ master_span' = master_span \/ master_span' \in Listed
      /\ master_span' = NoSpan => Listed = {}
      /\ Listed \cap Healthy # {} => master_span' \in Healthy
      /\ Listed = {} => master_span' = master_span
  BY <1>1, FindSound
<1>3. OrderInv' /\ Listed' = Listed
  BY <1>1, OrderKept DEF MasterInv
<1>4. Healthy' = Healthy /\ CanTime' = CanTime
  BY <1>1, <1>3 DEF Healthy, CanTime
<1>5. RegSensible'
  BY <1>1, <1>3 DEF MasterInv, RegSensible, Removing, Idle, Stages
<1>6. MasterKnown'
  <2>1. MasterListed'
    BY <1>1, <1>2, <1>3, RegCases DEF MasterInv, MasterKnown, MasterListed, Idle
  <2> QED
    BY <1>2, <1>3, <2>1 DEF MasterKnown
<1>7. ChoiceSound'
  BY <1>1, <1>2, <1>3 DEF MasterInv, ChoiceSound, Idle
<1>8. MasterHealthy'
  BY <1>2, <1>3, <1>4 DEF MasterHealthy, CanTime
<1> QED
  BY <1>3, <1>5, <1>6, <1>7, <1>8 DEF MasterInv

(* Steps that touch neither the list nor the removal leave MasterHealthy   *)
(* to show.                                                                *)
LEMMA MasterFrame ==
  ASSUME MasterInv, UNCHANGED <<spanVars, reg, new_master>>,
         \/ UNCHANGED master_span
         \/ master_span' \in Listed
  PROVE  OrderInv' /\ RegSensible' /\ MasterKnown' /\ ChoiceSound' /\ Listed' = Listed
<1>1. OrderInv' /\ Listed' = Listed
  BY OrderKept DEF MasterInv
<1>2. NoSpan \notin Listed
  BY ListedSpans, MasterAssumption DEF MasterInv, MasterAssumption
<1>3. RegSensible'
  BY <1>1 DEF MasterInv, RegSensible, Removing
<1>4. MasterKnown'
  BY <1>1, <1>2 DEF MasterInv, MasterKnown, MasterListed
<1>5. ChoiceSound'
  BY <1>1 DEF MasterInv, ChoiceSound
<1> QED
  BY <1>1, <1>3, <1>4, <1>5

LEMMA MasterEvents ==
  ASSUME MasterInv, NEW s \in Spans,
         \/ alarm_notify(s) \/ disable_span(s) \/ driver_stops(s) \/ driver_starts(s)
         \/ startup(s) \/ shutdown(s) \/ set_master_span(s)
  PROVE  MasterInv'
<1>1. /\ UNCHANGED <<spanVars, reg, new_master>>
      /\ UNCHANGED master_span \/ master_span' \in Listed
  <2>1. CASE set_master_span(s)
    BY <2>1 DEF set_master_span, Becomes, threads
  <2>2. CASE ~ set_master_span(s)
    BY <2>2 DEF alarm_notify, disable_span, driver_stops, driver_starts, startup, shutdown,
      choice, threads
  <2> QED
    BY <2>1, <2>2
<1>2. OrderInv' /\ RegSensible' /\ MasterKnown' /\ ChoiceSound' /\ Listed' = Listed
  BY <1>1, MasterFrame
<1>3. MasterHealthy'
  <2>1. CASE alarm_notify(s) \/ disable_span(s)
    BY <2>1 DEF alarm_notify, disable_span, MasterHealthy
  <2>2. CASE driver_stops(s) \/ driver_starts(s)
    <3>1. UNCHANGED <<alarms, running, master_span, chosen_by, threads>>
      BY <2>2 DEF driver_stops, driver_starts, choice
    <3> QED
      BY <1>2, <3>1 DEF MasterInv, MasterHealthy, CanTime, Healthy, threads
  <2>3. CASE startup(s)
    BY <2>3 DEF startup, MasterHealthy
  <2>4. CASE set_master_span(s)
    BY <2>4 DEF set_master_span, MasterHealthy
  <2>5. CASE shutdown(s)
    <3>1. /\ running' = running \ {s} /\ UNCHANGED <<alarms, master_span, threads>>
          /\ chosen_by' = IF s = master_span THEN "outside" ELSE chosen_by
      BY <2>5 DEF shutdown
    <3>2. CASE s = master_span
      BY <3>1, <3>2 DEF MasterHealthy
    <3>3. CASE s # master_span
      <4>1. Healthy' \subseteq Healthy /\ \A t \in Healthy : t # s => t \in Healthy'
        BY <3>1 DEF Healthy
      <4> QED
        BY <1>2, <3>1, <3>3, <4>1 DEF MasterInv, MasterHealthy, CanTime, threads
    <3> QED
      BY <3>2, <3>3
  <2> QED
    BY <2>1, <2>2, <2>3, <2>4, <2>5
<1> QED
  BY <1>2, <1>3 DEF MasterInv

LEMMA MasterClock ==
  ASSUME MasterInv,
         \/ process_masterspan \/ tick \/ stall \/ core_takes_over \/ core_stands_by
         \/ UNCHANGED masterVars
  PROVE  MasterInv'
<1>1. UNCHANGED <<spanVars, spanState, master_span, chosen_by, threads>>
  BY DEF process_masterspan, tick, stall, core_takes_over, core_stands_by, masterVars, choice
<1>2. OrderInv' /\ RegSensible' /\ MasterKnown' /\ ChoiceSound' /\ Listed' = Listed
  BY <1>1, MasterFrame DEF threads
<1>3. MasterHealthy'
  BY <1>1, <1>2 DEF MasterInv, MasterHealthy, CanTime, Healthy, threads, spanState
<1> QED
  BY <1>2, <1>3 DEF MasterInv

LEMMA MasterAssign ==
  ASSUME MasterInv, NEW s \in Spans, NEW r \in Assignments, assign(s, r) \/ assign_fails(s, r)
  PROVE  MasterInv'
<1>1. CASE assign(s, r)
  <2>1. /\ reg = Idle /\ reg' = [stage |-> "search", span |-> s]
        /\ UNCHANGED <<master_span, new_master>>
    BY <1>1 DEF assign, choice
  <2>2. OrderInv' /\ Listed' = Listed \cup {s}
    BY <1>1, PutOnList DEF assign, MasterInv
  <2>3. reg'.stage = "search" /\ reg'.span = s /\ reg # reg' /\ reg.stage = "idle" /\ reg.span = NoSpan
    BY <2>1 DEF Idle
  <2>4. RegSensible'
    BY <2>1, <2>2, <2>3 DEF RegSensible, Removing, Stages
  <2>5. MasterKnown'
    BY <2>1, <2>2, <2>3 DEF MasterInv, MasterKnown, MasterListed
  <2>6. ChoiceSound' /\ MasterHealthy'
    BY <2>3 DEF ChoiceSound, MasterHealthy, Idle
  <2> QED
    BY <2>2, <2>4, <2>5, <2>6 DEF MasterInv
<1>2. CASE assign_fails(s, r)
  <2>1. UNCHANGED <<spanState, choice, threads>>
    BY <1>2 DEF assign_fails
  <2>2. OrderInv' /\ Listed' = Listed
    BY <1>2, NotPutOnList DEF assign_fails, MasterInv
  <2>3. RegSensible' /\ MasterKnown' /\ ChoiceSound'
    BY <2>1, <2>2 DEF MasterInv, RegSensible, Removing, MasterKnown, MasterListed, ChoiceSound,
      choice, threads
  <2>4. MasterHealthy'
    BY <2>1, <2>2 DEF MasterInv, MasterHealthy, CanTime, Healthy, choice, threads, spanState
  <2> QED
    BY <2>2, <2>3, <2>4 DEF MasterInv
<1> QED
  BY <1>1, <1>2

LEMMA MasterUnassign ==
  ASSUME MasterInv, CannotTime = {},
         \/ \E s \in Spans : unassign(s)
         \/ unassign_read \/ unassign_read_again \/ unassign_choose \/ unassign_write
  PROVE  MasterInv'
<1>1. ASSUME NEW s \in Spans, unassign(s) PROVE MasterInv'
  <2>1. /\ reg = Idle /\ reg' = [stage |-> "read", span |-> s] /\ s \in Listed
        /\ UNCHANGED <<master_span, new_master>>
    BY <1>1 DEF unassign, unlist_span, choice
  <2>2. OrderInv' /\ Listed' = Listed \ {s}
    BY <1>1, TakenOff DEF unassign, MasterInv
  <2>3. reg'.stage = "read" /\ reg'.span = s /\ reg.stage = "idle" /\ reg.span = NoSpan
    BY <2>1 DEF Idle
  <2>4. RegSensible'
    BY <2>1, <2>2, <2>3 DEF RegSensible, Removing, Stages
  <2>5. MasterKnown'
    BY <2>1, <2>2, <2>3, MasterAssumption
      DEF MasterInv, MasterKnown, MasterListed, MasterAssumption
  <2>6. ChoiceSound' /\ MasterHealthy'
    BY <2>3 DEF ChoiceSound, MasterHealthy, Idle
  <2> QED
    BY <2>2, <2>4, <2>5, <2>6 DEF MasterInv
<1> DEFINE Proceeds(stage) ==
             /\ UNCHANGED <<spanVars, master_span>> /\ Removing
             /\ reg' = [reg EXCEPT !.stage = stage]
<1>2. ASSUME NEW stage \in {"read_again", "choose", "write"}, Proceeds(stage)
      PROVE  /\ OrderInv' /\ RegSensible' /\ MasterKnown' /\ MasterHealthy'
             /\ Listed' = Listed /\ reg'.stage = stage
  <2>1. OrderInv' /\ Listed' = Listed
    BY <1>2, OrderKept DEF MasterInv
  <2>2. reg \in [stage : Stages, span : Spans] /\ reg.span \notin Listed
    BY <1>2 DEF MasterInv, RegSensible, Removing, Idle
  <2>3. reg' \in [stage : Stages, span : Spans] /\ reg'.span = reg.span /\ reg'.stage = stage
    BY <1>2, <2>2 DEF Stages
  <2>4. RegSensible'
    BY <1>2, <2>1, <2>2, <2>3 DEF RegSensible, Removing
  <2>5. MasterKnown'
    BY <1>2, <2>1, <2>3 DEF MasterInv, MasterKnown, MasterListed, Removing
  <2>6. MasterHealthy'
    BY <1>2, <2>3 DEF MasterHealthy, Idle
  <2> QED
    BY <2>1, <2>3, <2>4, <2>5, <2>6
<1>3. CASE unassign_read
  <2>1. Proceeds("read_again") /\ new_master' = master_span
    BY <1>3 DEF unassign_read, Then, Removing, choice
  <2>2. OrderInv' /\ RegSensible' /\ MasterKnown' /\ MasterHealthy' /\ reg'.stage = "read_again"
    BY <1>2, <2>1
  <2> QED
    BY <2>1, <2>2 DEF MasterInv, ChoiceSound
<1>4. CASE unassign_read_again
  <2>1. Proceeds("choose") /\ new_master' = Left /\ reg.stage = "read_again"
    BY <1>4 DEF unassign_read_again, Then, Removing, choice
  <2>2. /\ OrderInv' /\ RegSensible' /\ MasterKnown' /\ MasterHealthy'
        /\ Listed' = Listed /\ reg'.stage = "choose"
    BY <1>2, <2>1
  <2>3. Listed = {} => Left = NoSpan
    BY <2>1 DEF Left, MasterInv, MasterKnown, MasterListed, ChoiceSound
  <2> QED
    BY <2>1, <2>2, <2>3 DEF MasterInv, ChoiceSound
<1>5. CASE unassign_choose
  <2> DEFINE candidates == Listed \ {new_master}
  <2>1. /\ Proceeds("write") /\ reg.stage = "choose"
        /\ new_master' = IF candidates = {} THEN new_master ELSE FirstOf(candidates)
    BY <1>5 DEF unassign_choose, Then, Removing, choice, CanTime
  <2>2. /\ OrderInv' /\ RegSensible' /\ MasterKnown' /\ MasterHealthy'
        /\ Listed' = Listed /\ reg'.stage = "write"
    BY <1>2, <2>1
  <2>3. candidates # {} => FirstOf(candidates) \in Listed
    <3>1. candidates \cap Listed = candidates
      OBVIOUS
    <3> HIDE DEF candidates
    <3> QED
      BY <3>1, FirstOfIsOne DEF MasterInv
  <2>4. IF Listed = {} THEN new_master' = NoSpan ELSE new_master' \in Listed
    BY <2>1, <2>3 DEF MasterInv, ChoiceSound
  <2> QED
    BY <2>2, <2>4 DEF MasterInv, ChoiceSound
<1>6. CASE unassign_write
  <2>1. /\ reg.stage = "write" /\ reg' = Idle /\ UNCHANGED spanVars
        /\ master_span' = new_master /\ chosen_by' = "outside"
    BY <1>6 DEF unassign_write, Becomes
  <2>2. OrderInv' /\ Listed' = Listed
    BY <2>1, OrderKept DEF MasterInv
  <2>3. IF Listed = {} THEN master_span' = NoSpan ELSE master_span' \in Listed
    BY <2>1 DEF MasterInv, ChoiceSound
  <2>4. NoSpan \notin Listed
    BY ListedSpans, MasterAssumption DEF MasterInv, MasterAssumption
  <2>5. reg'.stage = "idle" /\ reg'.span = NoSpan
    BY <2>1 DEF Idle
  <2>6. RegSensible' /\ ChoiceSound' /\ MasterHealthy'
    BY <2>1, <2>5 DEF RegSensible, Removing, ChoiceSound, MasterHealthy
  <2>7. MasterKnown'
    BY <2>2, <2>3, <2>4, <2>5 DEF MasterKnown, MasterListed
  <2> QED
    BY <2>2, <2>6, <2>7 DEF MasterInv
<1> QED
  BY <1>1, <1>3, <1>4, <1>5, <1>6

LEMMA MasterAtFirst == MasterInit => MasterInv
<1> SUFFICES ASSUME MasterInit PROVE MasterInv
  OBVIOUS
<1>1. /\ span_list = <<>> /\ reg = Idle /\ master_span = NoSpan
      /\ spanno = [s \in Spans |-> 0] /\ channo = [s \in Spans |-> -1]
  BY DEF MasterInit, SpansInit
<1>2. OrderInv /\ Listed = {}
  BY <1>1 DEF OrderInv, Listed, ToSet
<1>3. reg.stage = "idle" /\ reg.span = NoSpan
  BY <1>1 DEF Idle
<1>4. RegSensible /\ MasterKnown /\ ChoiceSound /\ MasterHealthy
  BY <1>1, <1>2, <1>3 DEF RegSensible, Removing, MasterKnown, MasterListed, ChoiceSound,
    MasterHealthy, CanTime
<1> QED
  BY <1>2, <1>4 DEF MasterInv

(* The master is on the list, or about to be replaced, and healthy after a *)
(* search if a healthy span is to be had, for any number of spans and any  *)
(* order of alarms, searches and removals (__dahdi_find_master_span,       *)
(* _dahdi_unassign_span).  One that cannot provide timing can be written   *)
(* back after it is gone, so that all are assumed to be able to.           *)
THEOREM SpansMasterSound == ASSUME CannotTime = {} PROVE MasterSpec => []MasterSound
<1>1. MasterInv /\ [MasterNext]_masterVars => MasterInv'
  BY MasterFound, MasterEvents, MasterClock, MasterAssign, MasterUnassign DEF MasterNext
<1>2. MasterInv => MasterSound
  BY DEF MasterInv, MasterKnown, MasterSound
<1> QED
  BY <1>1, <1>2, MasterAtFirst, PTL DEF MasterSpec

=============================================================================
