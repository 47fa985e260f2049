----------------------------- MODULE Conference -----------------------------
(***************************************************************************)
(* Who is in which conference (dahdi-base.c).  The sums of a conference    *)
(* are found through an alias, a small number: confalias maps a conference *)
(* to its alias and confrev back, and a member keeps the alias as _confn,  *)
(* which is what the mixing indexes by.                                    *)
(*                                                                         *)
(* DAHDI_SETCONF joins under chan_lock and chan->lock, close() leaves      *)
(* under chan->lock alone.  Both then call dahdi_check_conf, which counts  *)
(* the members under chan_lock but clears the alias after it has dropped   *)
(* it: a step of its own.                                                  *)
(*                                                                         *)
(* A channel that listens to another before its echo canceller needs a     *)
(* buffer of that channel's.  The DAHDI_SETCONF that gets it returns       *)
(* without a look at the conference that was left.                         *)
(***************************************************************************)
EXTENDS Integers, FiniteSets, FiniteSetsExt

CONSTANTS
  Lines,     \* channels of spans
  Pseudos,   \* pseudo channels
  None,      \* no channel
  Threads,   \* threads that call ioctl and close
  MAX_CONF,  \* DAHDI_MAX_CONF
  Numbers,   \* the conference numbers callers use; the code takes 1..MAX_CONF
  chan_from_num,  \* the channel of each of them, for those that monitor one
  Settings   \* channel -> the confmodes it may be given, Normal among them

Channels == Lines \cup Pseudos
Confs == 1..MAX_CONF

(* A confmode is a mode and its flags. *)
Normal == [mode |-> "NORMAL", flags |-> {}]
Mixing == {"CONF", "CONFANN", "CONFMON", "CONFANNMON", "REALANDPSEUDO"}
Monitors == {"MONITOR", "MONITOR_PREECHO"}
Modes == Mixing \cup Monitors \cup {"NORMAL"}
Flags == {"TALKER", "LISTENER", "PSEUDO_TALKER", "PSEUDO_LISTENER"}
Confmodes == [mode : Modes, flags : SUBSET Flags]

ASSUME ConferenceAssumption ==
  /\ None \notin Channels
  /\ MAX_CONF \in Nat /\ MAX_CONF >= 1
  /\ Numbers \subseteq Confs
  /\ chan_from_num \in [Numbers -> Channels]
  /\ Settings \in [Channels -> SUBSET Confmodes]

VARIABLES
  confalias,  \* conference -> its alias, 0 for none
  confrev,    \* alias -> its conference, 0 for none
  maxconfs,   \* one more than the highest alias in use
  confna,     \* channel -> its conference (or the channel it monitors), or 0
  confmode,   \* channel -> how it takes part
  confn,      \* channel -> _confn, the alias it mixes by, or 0
  readchunkpreec,  \* channel -> it has a buffer for those that listen before the echo canceller
  pc,         \* thread -> where in dahdi_ioctl_setconf or close it is
  request,    \* thread -> the channel, number and confmode it asked for
  unchecked   \* history: conferences a member left without a look, and not looked at since

aliases == <<confalias, confrev, maxconfs>>
members == <<confna, confmode, confn>>
calls   == <<pc, request, readchunkpreec, unchecked>>
confVars == <<aliases, members, calls>>

Places == {"idle", "precheck", "preclear", "join", "preecho", "leave", "check", "clear"}

(* The channel, its mode and the number the caller gave, -1 for any. *)
Requests ==
  {r \in [chan : Channels, conf : Numbers \cup {-1, 0}, mode : Confmodes] :
     /\ r.mode \in Settings[r.chan]
     /\ r.mode = Normal <=> r.conf = 0
     /\ r.mode.mode \in Monitors => r.conf # -1}

NoRequest == [chan |-> None, conf |-> 0, mode |-> Normal]

ConfInit ==
  /\ confalias = [x \in Confs |-> 0]
  /\ confrev = [a \in Confs |-> 0]
  /\ maxconfs = 0
  /\ confna = [c \in Channels |-> 0]
  /\ confmode = [c \in Channels |-> Normal]
  /\ confn = [c \in Channels |-> 0]
  /\ pc = [t \in Threads |-> "idle"]
  /\ request = [t \in Threads |-> NoRequest]
  /\ readchunkpreec = [c \in Channels |-> FALSE]
  /\ unchecked = {}
-----------------------------------------------------------------------------
(* A variant with a plausible slip: only the plain mode counts. *)
InPlainConf(c, x) == confna[c] = x /\ confmode[c].mode = "CONF"

(* _chan_in_conf: whether channel c takes part in the mixing of x. *)
InConf(c, x) == confna[c] = x /\ confmode[c].mode \in Mixing

(* dahdi_first_empty_alias *)
first_empty_alias ==
  LET free == {a \in 1..MAX_CONF - 1 : confrev[a] = 0}
  IN  IF free = {} THEN -1 ELSE Min(free)

EmptyConferences == {x \in 1..MAX_CONF - 1 : confalias[x] = 0}

(* recalc_maxconfs, of the confrev that is about to be stored. *)
recalc_maxconfs(rev) ==
  Max({0} \cup {a + 1 : a \in {b \in 1..MAX_CONF - 1 : rev[b] # 0}})

(* dahdi_get_conf_alias, for a conference that has none. *)
new_alias(x) ==
  LET a == first_empty_alias
  IN  /\ confalias' = [confalias EXCEPT ![x] = a]
      /\ confrev' = [confrev EXCEPT ![a] = x]
      /\ maxconfs' = recalc_maxconfs(confrev')

(* The conference a check is about: the one asked for, or the one left. *)
Checked(t) == request[t].conf

GoTo(t, place) == pc' = [pc EXCEPT ![t] = place]

Return(t) ==
  /\ GoTo(t, "idle")
  /\ request' = [request EXCEPT ![t] = NoRequest]
-----------------------------------------------------------------------------
(* DAHDI_SETCONF with arguments that make sense. *)
setconf(t) ==
  /\ pc[t] = "idle"
  /\ \E r \in Requests : request' = [request EXCEPT ![t] = r]
  /\ GoTo(t, "precheck")
  /\ UNCHANGED <<aliases, members, readchunkpreec, unchecked>>

(* The conferences dahdi_check_conf would clear: an alias and no member.   *)
Deserted == {x \in Confs : confalias[x] # 0 /\ \A c \in Channels : ~InConf(c, x)}

(* dahdi_check_conf up to the end of its count: nothing to clear, or a     *)
(* conference to clear in a step to come.                                  *)

check_conf_kept(t) ==
  /\ pc[t] \in {"precheck", "check"}
  /\ Checked(t) \notin Deserted
  /\ IF pc[t] = "precheck"
       THEN GoTo(t, "join") /\ UNCHANGED request
       ELSE Return(t)
  /\ unchecked' = unchecked \ {Checked(t)}
  /\ UNCHANGED <<aliases, members, readchunkpreec>>

check_conf_empty(t) ==
  /\ pc[t] \in {"precheck", "check"}
  /\ Checked(t) \in Deserted
  /\ GoTo(t, IF pc[t] = "precheck" THEN "preclear" ELSE "clear")
  /\ UNCHANGED <<request, aliases, members, readchunkpreec, unchecked>>

(* The end of dahdi_check_conf, which holds no lock. *)
check_conf_clear(t) ==
  LET x == Checked(t)
  IN  /\ pc[t] \in {"preclear", "clear"}
      /\ confalias' = [confalias EXCEPT ![x] = 0]
      /\ confrev' = [a \in Confs |-> IF a = confalias[x] THEN 0 ELSE confrev[a]]
      /\ maxconfs' = recalc_maxconfs(confrev')
      /\ IF pc[t] = "preclear"
           THEN GoTo(t, "join") /\ UNCHANGED request
           ELSE Return(t)
      /\ unchecked' = unchecked \ {x}
      /\ UNCHANGED <<members, readchunkpreec>>

(* No conference is free: -EBUSY. *)
join_busy(t) ==
  /\ pc[t] = "join"
  /\ request[t].conf = -1 /\ EmptyConferences = {}
  /\ Return(t)
  /\ UNCHANGED <<aliases, members, readchunkpreec, unchecked>>

(* dahdi_first_empty_conference for the number -1. *)
Chosen(r) == IF r.conf = -1 THEN Max(EmptyConferences) ELSE r.conf

(* The channel that r listens to before its echo canceller has no buffer. *)
NeedsBuffer(r) ==
  r.mode.mode = "MONITOR_PREECHO" /\ ~readchunkpreec[chan_from_num[r.conf]]

(* DAHDI_SETCONF while it holds chan_lock.  Memory for a buffer is to be   *)
(* had, or there is none; a plain monitor takes the buffer away.           *)
join(t) ==
  LET r == request[t]
      x == Chosen(r)
      Buffer(there) == readchunkpreec' = [readchunkpreec EXCEPT ![chan_from_num[r.conf]] = there]
  IN  /\ pc[t] = "join"
      /\ r.conf = -1 => EmptyConferences # {}
      /\ confna' = [confna EXCEPT ![r.chan] = x]
      /\ confmode' = [confmode EXCEPT ![r.chan] = r.mode]
      /\ IF r.mode.mode \in Mixing /\ confalias[x] = 0
           THEN new_alias(x)
           ELSE UNCHANGED aliases
      /\ confn' = [confn EXCEPT ![r.chan] =
                     IF r.mode.mode \in Mixing THEN confalias'[x] ELSE 0]
      /\ \/ /\ NeedsBuffer(r)
            /\ Buffer(TRUE)
            /\ GoTo(t, "preecho")
            /\ unchecked' = unchecked \cup {y \in Confs : InConf(r.chan, y)}
            /\ UNCHANGED request
         \/ /\ IF r.mode.mode = "MONITOR" THEN Buffer(FALSE) ELSE UNCHANGED readchunkpreec
            /\ GoTo(t, "check")
            /\ request' = [request EXCEPT ![t].conf = confna[r.chan]]
            /\ UNCHANGED unchecked

(* dahdi_enable_hw_preechocan, after which DAHDI_SETCONF returns: the      *)
(* board agrees, or the buffer is freed again.                             *)
preecho_enabled(t) ==
  /\ pc[t] = "preecho"
  /\ Return(t)
  /\ UNCHANGED <<aliases, members, readchunkpreec, unchecked>>

preecho_fails(t) ==
  /\ pc[t] = "preecho"
  /\ readchunkpreec' = [readchunkpreec EXCEPT ![chan_from_num[request[t].conf]] = FALSE]
  /\ Return(t)
  /\ UNCHANGED <<aliases, members, unchecked>>

(* close_channel of a channel that listens to another before its echo      *)
(* canceller frees the buffer first, under the other channel's lock.       *)
close_preecho(t, c) ==
  /\ pc[t] = "idle"
  /\ confmode[c].mode = "MONITOR_PREECHO"
  /\ readchunkpreec' = [readchunkpreec EXCEPT ![chan_from_num[confna[c]]] = FALSE]
  /\ request' = [request EXCEPT ![t] = [chan |-> c, conf |-> confna[c], mode |-> Normal]]
  /\ GoTo(t, "leave")
  /\ UNCHANGED <<aliases, members, unchecked>>

(* The part of close_channel that is about conferences. *)
close(t, c) ==
  /\ \/ pc[t] = "idle" /\ confmode[c].mode # "MONITOR_PREECHO"
     \/ pc[t] = "leave" /\ request[t].chan = c
  /\ readchunkpreec' = [readchunkpreec EXCEPT ![c] = FALSE]
  /\ confna' = [confna EXCEPT ![c] = 0]
  /\ confmode' = [confmode EXCEPT ![c] = Normal]
  /\ confn' = [confn EXCEPT ![c] = 0]
  /\ request' = [request EXCEPT ![t] = [chan |-> c, conf |-> confna[c], mode |-> Normal]]
  /\ GoTo(t, "check")
  /\ UNCHANGED <<aliases, unchecked>>

ConfNext ==
  \E t \in Threads :
    \/ setconf(t) \/ join_busy(t) \/ join(t) \/ preecho_enabled(t) \/ preecho_fails(t)
    \/ check_conf_kept(t) \/ check_conf_empty(t) \/ check_conf_clear(t)
    \/ \E c \in Channels : close_preecho(t, c) \/ close(t, c)

ConfSpec == ConfInit /\ [][ConfNext]_confVars
-----------------------------------------------------------------------------
ConfTypeOK ==
  /\ confalias \in [Confs -> -1..MAX_CONF]
  /\ confrev \in [Confs -> 0..MAX_CONF]
  /\ maxconfs \in 0..MAX_CONF
  /\ confna \in [Channels -> 0..MAX_CONF]
  /\ confmode \in [Channels -> Confmodes]
  /\ confn \in [Channels -> -1..MAX_CONF]
  /\ pc \in [Threads -> Places]
  /\ \A t \in Threads : pc[t] # "idle" => request[t].chan \in Channels
  /\ readchunkpreec \in [Channels -> BOOLEAN]
  /\ unchecked \in SUBSET (0..MAX_CONF)

(* No two conferences share their sums: the two maps are each other's      *)
(* inverse, rotate_sums clears every row that is in use, and every member  *)
(* mixes into the rows of its own conference.                              *)
AliasesAgree ==
  /\ \A x \in Confs, a \in Confs : confalias[x] = a <=> confrev[a] = x
  /\ \A a \in Confs : confrev[a] # 0 => a < maxconfs
  /\ \A c \in Channels : confmode[c].mode \in Mixing =>
       confn[c] \in Confs /\ confrev[confn[c]] = confna[c]

(* When no call is under way, a conference that nobody is in and that has  *)
(* an alias all the same is one whose last member went to listen to a      *)
(* channel before its echo canceller, and that nobody asked for since: no  *)
(* other departure leaves a row behind.                                    *)
NoAliasLeaks == (\A t \in Threads : pc[t] = "idle") => Deserted \subseteq unchecked

(* The alias tables are sound: no two conferences share a row, and every   *)
(* row in use is that of a conference somebody is in, but for what         *)
(* DAHDI_SETCONF leaves behind where it returns without dahdi_check_conf   *)
(* (dahdi_get_conf_alias, dahdi_check_conf).                               *)
AliasesSound == AliasesAgree /\ NoAliasLeaks
=============================================================================
