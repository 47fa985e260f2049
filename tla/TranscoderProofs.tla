-------------------------- MODULE TranscoderProofs --------------------------
(***************************************************************************)
(* Proofs about the transcoder interface, for every number of files, of    *)
(* pairs of channels and of formats, every size of the ring and number of  *)
(* retries: what a file holds and what a pair is, whatever the commands to *)
(* the board come to (ChannelInv), and where the buffer of a command and   *)
(* the answers to it can be (CommandInv).  That the command is nobody      *)
(* else's needs chansem: SemInv ties the two together.                     *)
(***************************************************************************)
EXTENDS Transcoder, FiniteSetTheorems, SequenceTheorems, TLAPS

USE TranscoderAssumption DEF TranscoderAssumption

Places ==
  {"idle", "release", "down_release", "destroying", "clear", "attach", "down_build", "building"}

ChannelTypes ==
  /\ busy \in [Channels -> BOOLEAN] /\ built \in [Channels -> BOOLEAN]
  /\ fmts \in [Channels -> Formats \cup {None}]
  /\ built_fmts \in [Channels -> Formats \cup {None}]
  /\ private_data \in [Files -> Channels \cup {None}]
  /\ found \in [Files -> Channels \cup {None}]
  /\ pc \in [Files -> Places]
  /\ chansem \in Files \cup {None}

(* What a call has in hand at each of its places. *)
InHand ==
  \A f \in Files :
    /\ pc[f] \in {"release", "down_release", "destroying", "clear", "down_build", "building"}
         => private_data[f] # None
    /\ pc[f] = "attach" => private_data[f] = None /\ found[f] # None
    /\ pc[f] \in {"idle", "down_build", "building"} => found[f] = None

Holds(f, c) == private_data[f] = c \/ found[f] = c

(* A channel is busy exactly while a file holds it, and with what it was   *)
(* asked for; a file that moves holds two different ones.                  *)
Held ==
  /\ \A c \in Channels : busy[c] = TRUE => \E f \in Files : Holds(f, c)
  /\ \A f \in Files, c \in Channels : Holds(f, c) => busy[c] = TRUE /\ fmts[c] # None
  /\ \A f, g \in Files, c \in Channels : Holds(f, c) /\ Holds(g, c) => f = g
  /\ \A f \in Files : private_data[f] = found[f] => private_data[f] = None

(* chansem is held over the commands of a pair. *)
SemHeld == \A f \in Files : pc[f] \in {"destroying", "building"} <=> chansem = f

(* The halves of a pair are the same. *)
Whole ==
  \A c \in Channels :
    /\ built[c] = built[Complement(c)]
    /\ built_fmts[c] = built_fmts[Complement(c)]
    /\ built[c] = TRUE <=> built_fmts[c] # None

BuiltOnce == \A f \in Files : pc[f] = "building" => built[private_data[f]] = FALSE

ChannelInv == ChannelTypes /\ InHand /\ Held /\ SemHeld /\ Whole /\ BuiltOnce

-----------------------------------------------------------------------------
(* The other half of a pair. *)
LEMMA ComplementFacts ==
  ASSUME NEW c \in Channels
  PROVE  /\ Complement(c) \in Channels /\ Complement(c) # c
         /\ Complement(Complement(c)) = c
         /\ \A d \in Channels : c \in Both(d) <=> Complement(c) \in Both(d)
<1>1. PICK side \in Sides, i \in 1 .. Pairs : c = <<side, i>>
  BY DEF Channels
<1>2. Complement(c) = <<IF side = "encode" THEN "decode" ELSE "encode", i>>
  BY <1>1 DEF Complement
<1>3. /\ Complement(c) \in Channels /\ Complement(c) # c
      /\ Complement(Complement(c)) = c
  BY <1>1, <1>2 DEF Complement, Sides, Channels
<1>4. ASSUME NEW d \in Channels PROVE c \in Both(d) <=> Complement(c) \in Both(d)
  <2>1. PICK other \in Sides, j \in 1 .. Pairs : d = <<other, j>>
    BY DEF Channels
  <2>2. Complement(d) = <<IF other = "encode" THEN "decode" ELSE "encode", j>>
    BY <2>1 DEF Complement
  <2> QED
    BY <1>1, <1>2, <2>1, <2>2 DEF Both, Sides
<1> QED
  BY <1>3, <1>4

LEMMA ChannelInvInit == Init => ChannelInv
<1> SUFFICES ASSUME Init PROVE ChannelInv
  OBVIOUS
<1>1. ChannelTypes
  BY DEF Init, ChannelTypes, Places
<1>2. /\ \A f \in Files : private_data[f] = None /\ found[f] = None /\ pc[f] = "idle"
      /\ \A c \in Channels : busy[c] = FALSE
      /\ chansem = None
  BY DEF Init
<1>3. None \notin Files /\ None \notin Channels
  BY DEF Channels, Sides
<1>4. InHand
  BY <1>2 DEF InHand
<1>5. Held
  BY <1>2, <1>3 DEF Held, Holds
<1>6. SemHeld
  BY <1>2, <1>3 DEF SemHeld
<1>7. BuiltOnce
  BY <1>2 DEF BuiltOnce
<1>8. Whole
  BY ComplementFacts DEF Init, Whole
<1> QED
  BY <1>1, <1>4, <1>5, <1>6, <1>7, <1>8 DEF ChannelInv

-----------------------------------------------------------------------------
(* A call that only moves on, and neither takes nor drops chansem. *)
LEMMA OnlyGoesOn ==
  ASSUME ChannelInv, NEW f \in Files, NEW place \in Places, GoesOn(f, place),
         UNCHANGED <<busy, built, fmts, built_fmts, private_data, found, chansem>>,
         pc[f] \notin {"destroying", "building"},
         place \in {"release", "down_release", "clear", "idle"},
         place # "idle" => private_data[f] # None,
         place = "idle" => found[f] = None
  PROVE  ChannelInv'
<1>1. ChannelTypes'
  BY DEF ChannelInv, ChannelTypes, GoesOn
<1>2. pc'[f] = place /\ \A g \in Files : g # f => pc'[g] = pc[g]
  BY DEF ChannelInv, ChannelTypes, GoesOn
<1>3. InHand'
  BY <1>2 DEF ChannelInv, InHand
<1>4. Held' /\ Whole'
  BY DEF ChannelInv, Held, Holds, Whole
<1>5. SemHeld'
  BY <1>2 DEF ChannelInv, SemHeld
<1>6. BuiltOnce'
  BY <1>2 DEF ChannelInv, BuiltOnce
<1> QED
  BY <1>1, <1>3, <1>4, <1>5, <1>6 DEF ChannelInv
(* A call that takes chansem, for a pair that is or is not built. *)
LEMMA TakesSem ==
  ASSUME ChannelInv, NEW f \in Files, NEW place \in {"destroying", "building"},
         GoesOn(f, place), chansem = None, chansem' = f,
         UNCHANGED <<busy, built, fmts, built_fmts, private_data, found>>,
         private_data[f] # None,
         place = "building" => found[f] = None /\ built[private_data[f]] = FALSE
  PROVE  ChannelInv'
<1>1. ChannelTypes'
  BY DEF ChannelInv, ChannelTypes, GoesOn, Places
<1>2. pc'[f] = place /\ \A g \in Files : g # f => pc'[g] = pc[g]
  BY DEF ChannelInv, ChannelTypes, GoesOn
<1>3. InHand'
  BY <1>2 DEF ChannelInv, InHand
<1>4. Held' /\ Whole'
  BY DEF ChannelInv, Held, Holds, Whole
<1>5. SemHeld'
  <2>1. \A g \in Files : pc[g] \notin {"destroying", "building"}
    BY DEF ChannelInv, SemHeld
  <2> QED
    BY <1>2, <2>1 DEF SemHeld
<1>6. BuiltOnce'
  BY <1>2 DEF ChannelInv, BuiltOnce
<1> QED
  BY <1>1, <1>3, <1>4, <1>5, <1>6 DEF ChannelInv

(* A call that is through with its commands and gives chansem back, with   *)
(* the pair as it was or both halves changed.                              *)
LEMMA DropsSem ==
  ASSUME ChannelInv, NEW f \in Files, NEW place \in {"idle", "clear"},
         GoesOn(f, place), pc[f] \in {"destroying", "building"}, chansem' = None,
         UNCHANGED <<busy, fmts, private_data, found>>,
         place = "idle" => found[f] = None,
         built' \in [Channels -> BOOLEAN], built_fmts' \in [Channels -> Formats \cup {None}],
         Whole'
  PROVE  ChannelInv'
<1>1. ChannelTypes'
  BY DEF ChannelInv, ChannelTypes, GoesOn, Places
<1>2. pc'[f] = place /\ \A g \in Files : g # f => pc'[g] = pc[g]
  BY DEF ChannelInv, ChannelTypes, GoesOn
<1>3. InHand'
  BY <1>2 DEF ChannelInv, InHand
<1>4. Held'
  BY DEF ChannelInv, Held, Holds
<1>5. \A g \in Files : g # f => pc[g] \notin {"destroying", "building"}
  BY DEF ChannelInv, SemHeld
<1>6. SemHeld'
  BY <1>2, <1>5 DEF SemHeld
<1>7. BuiltOnce'
  BY <1>2, <1>5 DEF BuiltOnce
<1> QED
  BY <1>1, <1>3, <1>4, <1>6, <1>7 DEF ChannelInv

(* The commands came to nothing: the pair is as it was. *)
LEMMA PairStays ==
  ASSUME ChannelInv, UNCHANGED <<built, built_fmts>>
  PROVE  /\ built' \in [Channels -> BOOLEAN] /\ Whole'
         /\ built_fmts' \in [Channels -> Formats \cup {None}]
BY DEF ChannelInv, ChannelTypes, Whole

(* The commands were done: both halves are changed alike. *)
LEMMA PairChanges ==
  ASSUME ChannelInv, NEW d \in Channels, NEW is \in BOOLEAN,
         NEW fmt \in Formats \cup {None}, is = TRUE <=> fmt # None,
         built' = [c \in Channels |-> IF c \in Both(d) THEN is ELSE built[c]],
         built_fmts' = [c \in Channels |-> IF c \in Both(d) THEN fmt ELSE built_fmts[c]]
  PROVE  /\ built' \in [Channels -> BOOLEAN] /\ Whole'
         /\ built_fmts' \in [Channels -> Formats \cup {None}]
<1>1. /\ built' \in [Channels -> BOOLEAN]
      /\ built_fmts' \in [Channels -> Formats \cup {None}]
  BY DEF ChannelInv, ChannelTypes
<1>2. ASSUME NEW c \in Channels
      PROVE  /\ built'[c] = built'[Complement(c)]
             /\ built_fmts'[c] = built_fmts'[Complement(c)]
             /\ built'[c] = TRUE <=> built_fmts'[c] # None
  <2>1. /\ Complement(c) \in Channels
        /\ c \in Both(d) <=> Complement(c) \in Both(d)
    BY ComplementFacts
  <2>2. /\ built[c] = built[Complement(c)]
        /\ built_fmts[c] = built_fmts[Complement(c)]
        /\ built[c] = TRUE <=> built_fmts[c] # None
    BY DEF ChannelInv, Whole
  <2>3. CASE c \in Both(d)
    BY <2>1, <2>3
  <2>4. CASE c \notin Both(d)
    BY <2>1, <2>2, <2>4
  <2> QED
    BY <2>3, <2>4
<1> QED
  BY <1>1, <1>2 DEF Whole

LEMMA DestroyedInv == ASSUME ChannelInv, NEW f \in Files, destroyed(f) PROVE ChannelInv'
<1>1. private_data[f] \in Channels
  BY DEF destroyed, ChannelInv, ChannelTypes, InHand
<1>2. /\ built' \in [Channels -> BOOLEAN] /\ Whole'
      /\ built_fmts' \in [Channels -> Formats \cup {None}]
  <2>1. CASE UNCHANGED <<built, built_fmts>>
    BY <2>1, PairStays
  <2>2. CASE /\ built' = [c \in Channels |-> built[c] /\ c \notin Both(private_data[f])]
             /\ built_fmts' = [c \in Channels |->
                                 IF c \in Both(private_data[f]) THEN None ELSE built_fmts[c]]
    <3>1. ASSUME NEW c \in Channels
          PROVE  (built[c] /\ c \notin Both(private_data[f]))
                   = IF c \in Both(private_data[f]) THEN FALSE ELSE built[c]
      <4>1. built[c] \in BOOLEAN
        BY DEF ChannelInv, ChannelTypes
      <4> QED
        BY <4>1
    <3>2. built' = [c \in Channels |-> IF c \in Both(private_data[f]) THEN FALSE ELSE built[c]]
      BY <2>2, <3>1
    <3> QED
      BY <1>1, <2>2, <3>2, PairChanges
  <2> QED
    BY <2>1, <2>2 DEF destroyed
<1> QED
  BY <1>2, DropsSem DEF destroyed, Places

LEMMA CreatedInv == ASSUME ChannelInv, NEW f \in Files, created(f) PROVE ChannelInv'
<1>1. private_data[f] \in Channels /\ found[f] = None
  BY DEF created, ChannelInv, ChannelTypes, InHand
<1>2. PICK d \in Channels, fmt \in Formats \cup {None} :
        private_data[f] = d /\ fmts[private_data[f]] = fmt /\ fmt # None
  BY <1>1 DEF ChannelInv, ChannelTypes, Held, Holds
<1>3. /\ built' \in [Channels -> BOOLEAN] /\ Whole'
      /\ built_fmts' \in [Channels -> Formats \cup {None}]
  <2>1. CASE UNCHANGED <<built, built_fmts>>
    BY <2>1, PairStays
  <2>2. CASE /\ built' = [c \in Channels |-> built[c] \/ c \in Both(d)]
             /\ built_fmts' = [c \in Channels |-> IF c \in Both(d) THEN fmt ELSE built_fmts[c]]
    <3>1. ASSUME NEW c \in Channels
          PROVE  (built[c] \/ c \in Both(d)) = IF c \in Both(d) THEN TRUE ELSE built[c]
      <4>1. built[c] \in BOOLEAN
        BY DEF ChannelInv, ChannelTypes
      <4> QED
        BY <4>1
    <3>2. built' = [c \in Channels |-> IF c \in Both(d) THEN TRUE ELSE built[c]]
      BY <2>2, <3>1
    <3>3. TRUE \in BOOLEAN /\ (TRUE = TRUE <=> fmt # None)
      BY <1>2
    <3> QED
      BY <2>2, <3>2, <3>3, PairChanges
  <2>3. \/ UNCHANGED <<built, built_fmts>>
        \/ /\ built' = [c \in Channels |-> built[c] \/ c \in Both(d)]
           /\ built_fmts' = [c \in Channels |-> IF c \in Both(d) THEN fmt ELSE built_fmts[c]]
    BY <1>2 DEF created
  <2> QED
    BY <2>1, <2>2, <2>3
<1> QED
  BY <1>1, <1>3, DropsSem DEF created

-----------------------------------------------------------------------------
(* A channel is found: it was not busy, so nobody held it. *)
LEMMA AllocateInv == ASSUME ChannelInv, NEW f \in Files, allocate(f) PROVE ChannelInv'
<1>1. PICK side \in Sides, fmt \in Formats, i \in 1 .. Pairs :
        /\ Free(<<side, i>>, fmt)
        /\ busy' = [busy EXCEPT ![<<side, i>>] = TRUE]
        /\ fmts' = [fmts EXCEPT ![<<side, i>>] = fmt]
        /\ found' = [found EXCEPT ![f] = <<side, i>>]
  BY DEF allocate
<1> DEFINE new == <<side, i>>
<1>2. /\ new \in Channels /\ None \notin Channels
      /\ new # None /\ busy[new] \in BOOLEAN /\ ~busy[new]
  BY <1>1 DEF Free, Channels, Sides, ChannelInv, ChannelTypes
<1>3. busy[new] # TRUE
  BY <1>2
<1> HIDE DEF new
<1>4. /\ busy' = [busy EXCEPT ![new] = TRUE]
      /\ fmts' = [fmts EXCEPT ![new] = fmt]
      /\ found' = [found EXCEPT ![f] = new]
      /\ UNCHANGED <<built, built_fmts, private_data, chansem>>
      /\ pc[f] = "idle"
      /\ pc' = [pc EXCEPT ![f] = IF private_data[f] = None THEN "attach" ELSE "release"]
  BY <1>1 DEF new, allocate, GoesOn
<1>5. ChannelTypes'
  BY <1>2, <1>4 DEF ChannelInv, ChannelTypes, Places
<1>6. /\ pc'[f] = IF private_data[f] = None THEN "attach" ELSE "release"
      /\ found'[f] = new
      /\ \A g \in Files : g # f => pc'[g] = pc[g] /\ found'[g] = found[g]
  BY <1>4 DEF ChannelInv, ChannelTypes
<1>7. InHand'
  BY <1>2, <1>4, <1>6 DEF ChannelInv, InHand
<1>8. Held'
  <2>1. /\ busy'[new] = TRUE /\ fmts'[new] = fmt
        /\ \A c \in Channels : c # new => busy'[c] = busy[c] /\ fmts'[c] = fmts[c]
    BY <1>2, <1>4 DEF ChannelInv, ChannelTypes
  <2>2. \A g \in Files : ~Holds(g, new)
    BY <1>2, <1>3 DEF ChannelInv, Held
  <2>3. found[f] = None
    BY <1>4 DEF ChannelInv, InHand
  <2>4. \A g \in Files, c \in Channels :
          Holds(g, c)' <=> Holds(g, c) \/ (g = f /\ c = new)
    BY <1>2, <1>4, <1>6, <2>3 DEF Holds
  <2>5. \A c \in Channels : busy'[c] = TRUE => \E g \in Files : Holds(g, c)'
    BY <2>1, <2>4 DEF ChannelInv, Held
  <2>6. \A g \in Files, c \in Channels : Holds(g, c)' => busy'[c] = TRUE /\ fmts'[c] # None
    BY <2>1, <2>2, <2>4 DEF ChannelInv, Held
  <2>7. \A g, h \in Files, c \in Channels : Holds(g, c)' /\ Holds(h, c)' => g = h
    BY <2>2, <2>4 DEF ChannelInv, Held
  <2>8. \A g \in Files : private_data'[g] = found'[g] => private_data'[g] = None
    BY <1>2, <1>4, <1>6, <2>2 DEF ChannelInv, Held, Holds
  <2> QED
    BY <2>5, <2>6, <2>7, <2>8 DEF Held
<1>9. SemHeld' /\ Whole'
  BY <1>4, <1>6 DEF ChannelInv, SemHeld, Whole
<1>10. BuiltOnce'
  BY <1>4, <1>6 DEF ChannelInv, BuiltOnce
<1> QED
  BY <1>5, <1>7, <1>8, <1>9, <1>10 DEF ChannelInv

(* The channel that was found is the file's; who holds what stays. *)
LEMMA AttachInv == ASSUME ChannelInv, NEW f \in Files, attach(f) PROVE ChannelInv'
<1>1. PICK place \in {"idle", "down_build"} : pc' = [pc EXCEPT ![f] = place]
  BY DEF attach, GoesOn
<1>2. /\ pc[f] = "attach" /\ private_data[f] = None /\ found[f] # None
      /\ private_data' = [private_data EXCEPT ![f] = found[f]]
      /\ found' = [found EXCEPT ![f] = None]
      /\ UNCHANGED <<busy, built, fmts, built_fmts, chansem>>
  BY DEF attach, ChannelInv, InHand
<1>3. ChannelTypes'
  BY <1>1, <1>2 DEF ChannelInv, ChannelTypes, Places
<1>4. /\ pc'[f] = place /\ private_data'[f] = found[f] /\ found'[f] = None
      /\ \A g \in Files : g # f => /\ pc'[g] = pc[g] /\ found'[g] = found[g]
                                   /\ private_data'[g] = private_data[g]
  BY <1>1, <1>2 DEF ChannelInv, ChannelTypes
<1>5. InHand'
  BY <1>2, <1>4 DEF ChannelInv, InHand
<1>6. Held'
  <2>1. None \notin Channels
    BY DEF Channels, Sides
  <2>2. \A g \in Files, c \in Channels : Holds(g, c)' <=> Holds(g, c)
    BY <1>2, <1>4, <2>1 DEF Holds
  <2>3. \A g \in Files : private_data'[g] = found'[g] => private_data'[g] = None
    BY <1>2, <1>4 DEF ChannelInv, Held
  <2> QED
    BY <1>2, <2>2, <2>3 DEF ChannelInv, Held
<1>7. SemHeld' /\ Whole'
  BY <1>2, <1>4 DEF ChannelInv, SemHeld, Whole
<1>8. BuiltOnce'
  BY <1>2, <1>4 DEF ChannelInv, BuiltOnce
<1> QED
  BY <1>3, <1>5, <1>6, <1>7, <1>8 DEF ChannelInv

(* The file's channel is given back: nobody else held it. *)
LEMMA ClearInv == ASSUME ChannelInv, NEW f \in Files, clear_busy(f) PROVE ChannelInv'
<1>1. PICK place \in {"idle", "attach"} :
        /\ pc' = [pc EXCEPT ![f] = place]
        /\ place = IF found[f] = None THEN "idle" ELSE "attach"
  BY DEF clear_busy, GoesOn
<1>2. PICK old \in Channels : private_data[f] = old
  BY DEF clear_busy, ChannelInv, ChannelTypes, InHand
<1>3. /\ pc[f] = "clear"
      /\ busy' = [busy EXCEPT ![old] = FALSE]
      /\ private_data' = [private_data EXCEPT ![f] = None]
      /\ UNCHANGED <<built, fmts, built_fmts, found, chansem>>
  BY <1>2 DEF clear_busy
<1>4. ChannelTypes'
  BY <1>1, <1>3 DEF ChannelInv, ChannelTypes, Places
<1>5. /\ pc'[f] = place /\ private_data'[f] = None
      /\ \A g \in Files : g # f => pc'[g] = pc[g] /\ private_data'[g] = private_data[g]
  BY <1>1, <1>3 DEF ChannelInv, ChannelTypes
<1>6. InHand'
  BY <1>1, <1>3, <1>5 DEF ChannelInv, InHand
<1>7. Held'
  <2>1. /\ busy'[old] = FALSE
        /\ \A c \in Channels : c # old => busy'[c] = busy[c]
    BY <1>3 DEF ChannelInv, ChannelTypes
  <2>2. None \notin Channels
    BY DEF Channels, Sides
  <2>3. \A g \in Files : Holds(g, old) => g = f
    BY <1>2 DEF ChannelInv, Held, Holds
  <2>4. found[f] # old
    BY <1>2, <2>2 DEF ChannelInv, Held
  <2>5. \A g \in Files, c \in Channels : Holds(g, c)' <=> Holds(g, c) /\ c # old
    BY <1>2, <1>3, <1>5, <2>2, <2>3, <2>4 DEF Holds
  <2>6. \A c \in Channels : busy'[c] = TRUE => \E g \in Files : Holds(g, c)'
    BY <2>1, <2>5 DEF ChannelInv, Held
  <2>7. \A g \in Files, c \in Channels : Holds(g, c)' => busy'[c] = TRUE /\ fmts'[c] # None
    BY <1>3, <2>1, <2>5 DEF ChannelInv, Held
  <2>8. \A g, h \in Files, c \in Channels : Holds(g, c)' /\ Holds(h, c)' => g = h
    BY <2>5 DEF ChannelInv, Held
  <2>9. \A g \in Files : private_data'[g] = found'[g] => private_data'[g] = None
    BY <1>3, <1>5 DEF ChannelInv, Held
  <2> QED
    BY <2>6, <2>7, <2>8, <2>9 DEF Held
<1>8. SemHeld' /\ Whole'
  BY <1>1, <1>3, <1>5 DEF ChannelInv, SemHeld, Whole
<1>9. BuiltOnce'
  BY <1>1, <1>3, <1>5 DEF ChannelInv, BuiltOnce
<1> QED
  BY <1>4, <1>6, <1>7, <1>8, <1>9 DEF ChannelInv

(* The steps of a call between these. *)
LEMMA MovesInv ==
  ASSUME ChannelInv, NEW f \in Files,
         close(f) \/ release(f) \/ keep_pair(f) \/ is_built(f)
  PROVE  ChannelInv'
<1>1. CASE close(f)
  BY <1>1, OnlyGoesOn DEF close, Places
<1>2. CASE release(f)
  <2>1. private_data[f] # None
    BY <1>2 DEF release, ChannelInv, InHand
  <2> QED
    BY <1>2, <2>1, OnlyGoesOn DEF release, Places
<1>3. CASE keep_pair(f)
  <2>1. private_data[f] # None
    BY <1>3 DEF keep_pair, ChannelInv, InHand
  <2> QED
    BY <1>3, <2>1, OnlyGoesOn DEF keep_pair, Places
<1>4. CASE is_built(f)
  <2>1. found[f] = None
    BY <1>4 DEF is_built, ChannelInv, InHand
  <2> QED
    BY <1>4, <2>1, OnlyGoesOn DEF is_built, Places
<1> QED
  BY <1>1, <1>2, <1>3, <1>4

LEMMA TakesInv ==
  ASSUME ChannelInv, NEW f \in Files, destroy_pair(f) \/ create_pair(f)
  PROVE  ChannelInv'
<1>1. CASE destroy_pair(f)
  <2>1. private_data[f] # None
    BY <1>1 DEF destroy_pair, ChannelInv, InHand
  <2> QED
    BY <1>1, <2>1, TakesSem DEF destroy_pair
<1>2. CASE create_pair(f)
  <2>1. private_data[f] \in Channels /\ private_data[f] # None /\ found[f] = None
    BY <1>2 DEF create_pair, ChannelInv, ChannelTypes, InHand
  <2>2. built[private_data[f]] \in BOOLEAN /\ ~built[private_data[f]]
    BY <1>2, <2>1 DEF create_pair, BuiltMeanwhile, ChannelInv, ChannelTypes
  <2>3. built[private_data[f]] = FALSE
    BY <2>2
  <2> QED
    BY <1>2, <2>1, <2>3, TakesSem DEF create_pair
<1> QED
  BY <1>1, <1>2

LEMMA ChannelInvNext == ChannelInv /\ [Next]_vars => ChannelInv'
<1> SUFFICES ASSUME ChannelInv, [Next]_vars PROVE ChannelInv'
  OBVIOUS
<1>1. ASSUME NEW f \in Files, allocate(f) \/ close(f) \/ Takes(f) \/ Runs(f)
      PROVE  ChannelInv'
  BY <1>1, AllocateInv, MovesInv, TakesInv, DestroyedInv, ClearInv, AttachInv, CreatedInv
     DEF Takes, Runs
<1>2. CASE UNCHANGED channelVars
  BY <1>2 DEF channelVars, ChannelInv, ChannelTypes, InHand, Held, Holds, SemHeld, Whole,
              BuiltOnce
<1> QED
  BY <1>1, <1>2 DEF Next, vars

LEMMA ChannelInvAlways == Spec => []ChannelInv
BY ChannelInvInit, ChannelInvNext, PTL DEF Spec

-----------------------------------------------------------------------------
(* However the calls of the files interleave, a channel is busy exactly    *)
(* while one file holds it (get_free_channel and dtc_release, whose busy   *)
(* bit is changed without the lock of the other).                          *)
THEOREM TranscoderOneFile == Spec => []OneFile
<1>1. ChannelInv => OneFile
  <2> SUFFICES ASSUME ChannelInv, NEW c \in Channels
               PROVE  Cardinality({f \in Files : private_data[f] = c}
                                    \cup {f \in Files : found[f] = c})
                        = IF busy[c] THEN 1 ELSE 0
    BY DEF OneFile
  <2> DEFINE owners == {f \in Files : private_data[f] = c} \cup {f \in Files : found[f] = c}
  <2>1. busy[c] \in BOOLEAN
    BY DEF ChannelInv, ChannelTypes
  <2>2. CASE busy[c] = TRUE
    <3>1. PICK f \in Files : Holds(f, c)
      BY <2>2 DEF ChannelInv, Held
    <3>2. owners = {f}
      BY <3>1 DEF ChannelInv, Held, Holds
    <3> QED
      BY <2>2, <3>2, FS_Singleton
  <2>3. CASE busy[c] = FALSE
    <3>1. owners = {}
      BY <2>3 DEF ChannelInv, Held, Holds
    <3> QED
      BY <2>3, <3>1, FS_EmptySet
  <2> QED
    BY <2>1, <2>2, <2>3
<1> QED
  BY <1>1, ChannelInvAlways, PTL

(* The halves of a pair stay alike whatever the commands to the board come *)
(* to, and a call that builds a pair under chansem finds it not built      *)
(* (wctc4xxp_operation_allocate and wctc4xxp_operation_release).           *)
THEOREM TranscoderPairsSound == Spec => []PairsSound
<1>1. ChannelInv => PairsSound
  <2> SUFFICES ASSUME ChannelInv PROVE PairsSound
    OBVIOUS
  <2>1. ASSUME NEW c \in Channels
        PROVE  /\ built[c] = built[Complement(c)]
               /\ built_fmts[c] = built_fmts[Complement(c)]
               /\ built[c] <=> built_fmts[c] # None
    <3>1. /\ built[c] \in BOOLEAN
          /\ built[c] = built[Complement(c)]
          /\ built_fmts[c] = built_fmts[Complement(c)]
          /\ built[c] = TRUE <=> built_fmts[c] # None
      BY DEF ChannelInv, ChannelTypes, Whole
    <3> QED
      BY <3>1
  <2>2. ASSUME NEW f \in Files, pc[f] = "building" PROVE ~built[private_data[f]]
    BY <2>2 DEF ChannelInv, BuiltOnce
  <2> QED
    BY <2>1, <2>2 DEF PairsSound
<1> QED
  BY <1>1, ChannelInvAlways, PTL
-----------------------------------------------------------------------------
(* The command under way: what its buffer, its frame and the answers to it *)
(* are, whoever transmits, retrieves, answers or gives up first.           *)
Commands == {"CREATE_CHANNEL", "DESTROY_CHANNEL", "VOPENA"}
Tcbs == [function : Commands \cup {None}, seq : Int, wait : BOOLEAN, sent : BOOLEAN,
         timeout : BOOLEAN, retries : Nat, response : {"none", "own", "stale"}]
Frames == {"command", "packet"}
Descriptors == [frame : Frames, own : BOOLEAN]
Answers == [function : Commands \cup {None}, seq : Int, stale : BOOLEAN]
Steps == {"rest", "give", "wait", "done", "failed", "serve", "pull", "resend", "full", "queue"}
Asides == [frame : Frames \cup {"none"}, next : {"rest", "serve", "wait"}]

CommandTypes ==
  /\ tcb \in Tcbs /\ node \in {"free", "pending", "waiting", "retry"}
  /\ todo \in Seq(Commands)
  /\ (at["caller"] \in {"give", "wait", "full", "queue"} => todo # <<>>)
  /\ tx \in Seq(Descriptors) /\ cmd_list \in Seq(Frames)
  /\ at \in [Who -> Steps]
  /\ refused \in [Who -> Asides]
  /\ answers \in Seq(Answers)
  /\ seq_num \in Nat /\ last_rx_seq_num \in Int
  /\ shutdown \in BOOLEAN

(* Who has a frame in hand that the ring refused, and which; one at most   *)
(* has the command, on no list any more or not yet taken off.              *)
Carries(w) == refused[w].frame = "command"
Carried == \E w \in Who : Carries(w)
PutAside ==
  /\ \A w \in Who : at[w] \in {"full", "queue"} <=> refused[w].frame # "none"
  /\ \A w \in Who : at[w] = "full" => Carries(w)
  /\ \A w \in Who : at[w] \in {"full", "queue"} =>
                      (refused[w].next = "wait" <=> w = "caller")
  /\ refused["caller"].frame # "packet"
  /\ \A v, w \in Who : Carries(v) /\ Carries(w) => v = w

TakenOff == \E w \in Who : Carries(w) /\ at[w] = "queue"

(* Of a ring and of cmd_list: whether the command's frame is there, that   *)
(* it is there once, that the board sends in turn.                         *)
Has(ring) == \E i \in DOMAIN ring : ring[i].frame = "command"
Once(ring) ==
  \A i, j \in DOMAIN ring : ring[i].frame = "command" /\ ring[j].frame = "command" => i = j
InTurn(ring) == \E n \in 0 .. Len(ring) : \A i \in DOMAIN ring : ring[i].own = TRUE <=> i > n
Unsent(ring) == \A i \in DOMAIN ring : ring[i].frame = "command" => ring[i].own = TRUE
Lists(list) == \E i \in DOMAIN list : list[i] = "command"
ListsOnce(list) == \A i, j \in DOMAIN list : list[i] = "command" /\ list[j] = "command" => i = j

Alone == Once(tx) /\ ListsOnce(cmd_list) /\ InTurn(tx)

(* The caller gave its command. *)
Waits == at["caller"] \in {"wait", "full", "queue"}

(* Where the command is, from its first transmission to its completion.    *)
Given ==
  /\ completed \in {0, 1}
  /\ completed = 1 => node = "free" /\ ~Carried /\ Is("caller", "wait")
  /\ node # "free" \/ Carried => Waits /\ completed = 0
  /\ node \in {"waiting", "retry"} => tcb.wait = TRUE
  /\ node = "retry" <=> Is("watchdog", "resend")
  /\ node \in {"pending", "retry"} => tcb.sent = FALSE /\ ~Carried
  /\ TakenOff => node = "free"
  /\ shutdown = TRUE => node = "free" /\ ~OnList /\ ~Carried /\ Unsent(tx)
  /\ shutdown = FALSE =>
       /\ OnList <=> node = "pending"
       /\ OnRing => /\ Waits /\ completed = 0 /\ tcb.sent = FALSE /\ ~Carried
                    /\ node = "waiting" \/ (node = "free" /\ tcb.wait = FALSE)
       /\ Carried => tcb.sent = FALSE
       /\ node = "waiting" => (OnRing \/ Carried <=> tcb.sent = FALSE)

(* The command is under way and has no answer. *)
Open == tcb.wait = TRUE /\ (node # "free" \/ Carried)

(* An answer whose sequence number the driver has seen. *)
Seen(a) == a.function \in Supervisor => a.seq = last_rx_seq_num

(* The answers under way: first those to earlier commands, which are       *)
(* repetitions, then those to the command of the buffer.                   *)
Answered ==
  /\ \A i \in DOMAIN answers : answers[i].stale = TRUE \/ ~Open => Seen(answers[i])
  /\ Open =>
       \A i \in DOMAIN answers :
         answers[i].stale = FALSE =>
           answers[i].function = tcb.function /\ answers[i].seq = tcb.seq
  /\ \A i, j \in DOMAIN answers :
       i < j /\ answers[j].stale = TRUE => answers[i].stale = TRUE
  /\ shutdown = FALSE /\ ~Open /\ (OnRing \/ OnList \/ Carried) => Seen(tcb)
  /\ tcb.function \in Supervisor => tcb.response # "stale"

CommandInv == CommandTypes /\ PutAside /\ Alone /\ Given /\ Answered

LEMMA RingAppends ==
  ASSUME NEW ring \in Seq(Descriptors), InTurn(ring), Once(ring), NEW frame \in Frames
  PROVE  LET longer == Append(ring, [frame |-> frame, own |-> TRUE])
         IN  /\ longer \in Seq(Descriptors) /\ InTurn(longer)
             /\ Has(longer) <=> Has(ring) \/ frame = "command"
             /\ (frame = "packet" \/ ~Has(ring)) => Once(longer)
<1> DEFINE last == [frame |-> frame, own |-> TRUE]
           longer == Append(ring, last)
<1>1. last \in Descriptors /\ last.frame = frame /\ last.own = TRUE
  BY DEF Descriptors
<1> HIDE DEF last
<1>2. /\ longer \in Seq(Descriptors) /\ Len(longer) = Len(ring) + 1 /\ Len(ring) \in Nat
      /\ DOMAIN longer = 1 .. Len(ring) + 1 /\ DOMAIN ring = 1 .. Len(ring)
      /\ longer[Len(ring) + 1] = last
      /\ \A i \in DOMAIN ring : longer[i] = ring[i]
  BY <1>1, AppendProperties
<1> HIDE DEF longer
<1>3. InTurn(longer)
  <2>1. PICK n \in 0 .. Len(ring) : \A i \in DOMAIN ring : ring[i].own = TRUE <=> i > n
    BY DEF InTurn
  <2>2. \A i \in DOMAIN longer : longer[i].own = TRUE <=> i > n
    BY <1>1, <1>2, <2>1
  <2>3. n \in 0 .. Len(longer)
    BY <1>2
  <2> QED
    BY <2>2, <2>3 DEF InTurn
<1>4. Has(longer) <=> Has(ring) \/ frame = "command"
  <2>1. Has(ring) => Has(longer)
    BY <1>2 DEF Has
  <2>2. frame = "command" => Has(longer)
    BY <1>1, <1>2 DEF Has
  <2>3. ASSUME NEW i \in DOMAIN longer, longer[i].frame = "command"
        PROVE  Has(ring) \/ frame = "command"
    <3>1. i \in DOMAIN ring \/ i = Len(ring) + 1
      BY <1>2
    <3> QED
      BY <1>1, <1>2, <2>3, <3>1 DEF Has
  <2> QED
    BY <2>1, <2>2, <2>3 DEF Has
<1>5. (frame = "packet" \/ ~Has(ring)) => Once(longer)
  <2> SUFFICES ASSUME frame = "packet" \/ ~Has(ring),
                      NEW i \in DOMAIN longer, NEW j \in DOMAIN longer,
                      longer[i].frame = "command", longer[j].frame = "command"
               PROVE  i = j
    BY DEF Once
  <2>1. /\ i \in DOMAIN ring \/ i = Len(ring) + 1
        /\ j \in DOMAIN ring \/ j = Len(ring) + 1
    BY <1>2
  <2> QED
    BY <1>1, <1>2, <2>1 DEF Has, Once
<1> QED
  BY <1>2, <1>3, <1>4, <1>5 DEF longer, last

LEMMA RingShrinks ==
  ASSUME NEW ring \in Seq(Descriptors), InTurn(ring), Once(ring),
         ring # <<>>, Head(ring).own # TRUE
  PROVE  /\ Tail(ring) \in Seq(Descriptors) /\ InTurn(Tail(ring)) /\ Once(Tail(ring))
         /\ Head(ring) \in Descriptors
         /\ Head(ring).frame = "command" => Has(ring) /\ ~Has(Tail(ring))
         /\ Head(ring).frame = "packet" => (Has(Tail(ring)) <=> Has(ring))
         /\ Unsent(ring) => Head(ring).frame = "packet" /\ Unsent(Tail(ring))
<1>1. /\ Tail(ring) \in Seq(Descriptors) /\ Len(Tail(ring)) = Len(ring) - 1
      /\ DOMAIN ring = 1 .. Len(ring) /\ Len(ring) \in Nat /\ Len(ring) > 0
      /\ DOMAIN Tail(ring) = 1 .. Len(ring) - 1
      /\ Head(ring) = ring[1] /\ 1 \in DOMAIN ring
      /\ \A i \in 1 .. Len(ring) - 1 : Tail(ring)[i] = ring[i + 1] /\ i + 1 \in DOMAIN ring
  BY HeadTailProperties
<1>2. /\ Head(ring) \in Descriptors /\ Head(ring).frame \in Frames
      /\ ring[1].own # TRUE
  <2>1. ring[1] \in Descriptors
    BY <1>1, ElementOfSeq
  <2>2. ring[1].frame \in Frames
    BY <2>1 DEF Descriptors
  <2> QED
    BY <1>1, <2>1, <2>2
<1>3. InTurn(Tail(ring))
  <2>1. PICK n \in 0 .. Len(ring) : \A i \in DOMAIN ring : ring[i].own = TRUE <=> i > n
    BY DEF InTurn
  <2>2. n > 0
    <3>1. ~(1 > n)
      BY <1>1, <1>2, <2>1
    <3> QED
      BY <3>1
  <2>3. n - 1 \in 0 .. Len(Tail(ring))
    BY <1>1, <2>1, <2>2
  <2>4. ASSUME NEW i \in DOMAIN Tail(ring) PROVE Tail(ring)[i].own = TRUE <=> i > n - 1
    <3>1. Tail(ring)[i] = ring[i + 1] /\ i + 1 \in DOMAIN ring
      BY <1>1
    <3>2. ring[i + 1].own = TRUE <=> i + 1 > n
      BY <2>1, <3>1
    <3> QED
      BY <1>1, <3>1, <3>2
  <2> QED
    BY <2>3, <2>4 DEF InTurn
<1>4. Once(Tail(ring))
  <2> SUFFICES ASSUME NEW i \in DOMAIN Tail(ring), NEW j \in DOMAIN Tail(ring),
                      Tail(ring)[i].frame = "command", Tail(ring)[j].frame = "command"
               PROVE  i = j
    BY DEF Once
  <2>1. i + 1 = j + 1
    BY <1>1 DEF Once
  <2> QED
    BY <1>1, <2>1
<1>5. ASSUME Head(ring).frame = "command" PROVE Has(ring) /\ ~Has(Tail(ring))
  <2>1. Has(ring)
    BY <1>1, <1>5 DEF Has
  <2>2. ASSUME NEW i \in DOMAIN Tail(ring), Tail(ring)[i].frame = "command" PROVE FALSE
    <3>1. ring[i + 1].frame = "command" /\ i + 1 \in DOMAIN ring
      BY <1>1, <2>2
    <3>2. i + 1 = 1
      BY <1>1, <1>5, <3>1 DEF Once
    <3> QED
      BY <1>1, <3>2
  <2> QED
    BY <2>1, <2>2 DEF Has
<1>6. ASSUME Head(ring).frame = "packet" PROVE Has(Tail(ring)) <=> Has(ring)
  <2>1. Has(Tail(ring)) => Has(ring)
    BY <1>1 DEF Has
  <2>2. ASSUME NEW i \in DOMAIN ring, ring[i].frame = "command" PROVE Has(Tail(ring))
    <3>1. i # 1 /\ i - 1 \in 1 .. Len(ring) - 1
      BY <1>1, <1>6, <2>2
    <3>2. Tail(ring)[i - 1] = ring[i]
      BY <1>1, <3>1
    <3> QED
      BY <1>1, <2>2, <3>1, <3>2 DEF Has
  <2> QED
    BY <2>1, <2>2 DEF Has
<1>7. ASSUME Unsent(ring) PROVE Head(ring).frame = "packet" /\ Unsent(Tail(ring))
  <2>1. Head(ring).frame # "command"
    BY <1>1, <1>7 DEF Unsent
  <2>2. Unsent(Tail(ring))
    BY <1>1, <1>7 DEF Unsent
  <2> QED
    BY <1>2, <2>1, <2>2 DEF Frames
<1> QED
  BY <1>1, <1>2, <1>3, <1>4, <1>5, <1>6, <1>7
LEMMA ListAppends ==
  ASSUME NEW list \in Seq(Frames), ListsOnce(list), NEW frame \in Frames
  PROVE  /\ Append(list, frame) \in Seq(Frames)
         /\ Lists(Append(list, frame)) <=> Lists(list) \/ frame = "command"
         /\ (frame = "packet" \/ ~Lists(list)) => ListsOnce(Append(list, frame))
<1> DEFINE longer == Append(list, frame)
<1>1. /\ longer \in Seq(Frames) /\ Len(list) \in Nat
      /\ DOMAIN longer = 1 .. Len(list) + 1 /\ DOMAIN list = 1 .. Len(list)
      /\ longer[Len(list) + 1] = frame
      /\ \A i \in DOMAIN list : longer[i] = list[i]
  BY AppendProperties
<1> HIDE DEF longer
<1>2. \A i \in DOMAIN longer : i \in DOMAIN list \/ i = Len(list) + 1
  BY <1>1
<1>3. Lists(longer) <=> Lists(list) \/ frame = "command"
  <2>1. Lists(list) => Lists(longer)
    BY <1>1 DEF Lists
  <2>2. frame = "command" => Lists(longer)
    BY <1>1 DEF Lists
  <2>3. Lists(longer) => Lists(list) \/ frame = "command"
    BY <1>1, <1>2 DEF Lists
  <2> QED
    BY <2>1, <2>2, <2>3
<1>4. (frame = "packet" \/ ~Lists(list)) => ListsOnce(longer)
  BY <1>1, <1>2 DEF Lists, ListsOnce
<1> QED
  BY <1>1, <1>3, <1>4 DEF longer

LEMMA ListShrinks ==
  ASSUME NEW list \in Seq(Frames), ListsOnce(list), list # <<>>
  PROVE  /\ Tail(list) \in Seq(Frames) /\ ListsOnce(Tail(list))
         /\ Head(list) \in Frames
         /\ Head(list) = "command" => Lists(list) /\ ~Lists(Tail(list))
         /\ Head(list) = "packet" => (Lists(Tail(list)) <=> Lists(list))
<1>1. /\ Tail(list) \in Seq(Frames)
      /\ DOMAIN list = 1 .. Len(list) /\ Len(list) \in Nat /\ Len(list) > 0
      /\ DOMAIN Tail(list) = 1 .. Len(list) - 1
      /\ Head(list) = list[1] /\ 1 \in DOMAIN list
      /\ \A i \in 1 .. Len(list) - 1 : Tail(list)[i] = list[i + 1] /\ i + 1 \in DOMAIN list
  BY HeadTailProperties
<1>2. Head(list) \in Frames
  BY <1>1, ElementOfSeq
<1>3. ListsOnce(Tail(list))
  <2> SUFFICES ASSUME NEW i \in DOMAIN Tail(list), NEW j \in DOMAIN Tail(list),
                      Tail(list)[i] = "command", Tail(list)[j] = "command"
               PROVE  i = j
    BY DEF ListsOnce
  <2>1. i + 1 = j + 1
    BY <1>1 DEF ListsOnce
  <2> QED
    BY <1>1, <2>1
<1>4. ASSUME Head(list) = "command" PROVE Lists(list) /\ ~Lists(Tail(list))
  <2>1. Lists(list)
    BY <1>1, <1>4 DEF Lists
  <2>2. ASSUME NEW i \in DOMAIN Tail(list), Tail(list)[i] = "command" PROVE FALSE
    <3>1. i + 1 = 1
      BY <1>1, <1>4, <2>2 DEF ListsOnce
    <3> QED
      BY <1>1, <3>1
  <2> QED
    BY <2>1, <2>2 DEF Lists
<1>5. ASSUME Head(list) = "packet" PROVE Lists(Tail(list)) <=> Lists(list)
  <2>1. Lists(Tail(list)) => Lists(list)
    BY <1>1 DEF Lists
  <2>2. ASSUME NEW i \in DOMAIN list, list[i] = "command" PROVE Lists(Tail(list))
    <3>1. i # 1 /\ i - 1 \in 1 .. Len(list) - 1
      BY <1>1, <1>5, <2>2
    <3>2. Tail(list)[i - 1] = list[i]
      BY <1>1, <3>1
    <3> QED
      BY <1>1, <2>2, <3>1, <3>2 DEF Lists
  <2> QED
    BY <2>1, <2>2 DEF Lists
<1> QED
  BY <1>1, <1>2, <1>3, <1>4, <1>5

-----------------------------------------------------------------------------
(* Who goes where with which frame in hand. *)
LEMMA HandMoves ==
  ASSUME CommandTypes, PutAside, NEW w \in Who, NEW place \in Steps, NEW r \in Asides,
         at' = [at EXCEPT ![w] = place], refused' = [refused EXCEPT ![w] = r],
         place \in {"full", "queue"} <=> r.frame # "none",
         place = "full" => r.frame = "command",
         place \in {"full", "queue"} => (r.next = "wait" <=> w = "caller"),
         w = "caller" => r.frame # "packet",
         r.frame = "command" => \A v \in Who : v # w => ~Carries(v)
  PROVE  /\ at' \in [Who -> Steps] /\ refused' \in [Who -> Asides] /\ PutAside'
         /\ at'[w] = place /\ refused'[w] = r
         /\ \A v \in Who : v # w => at'[v] = at[v] /\ refused'[v] = refused[v]
         /\ Carried' <=> r.frame = "command" \/ \E v \in Who : v # w /\ Carries(v)
         /\ TakenOff' <=> \/ r.frame = "command" /\ place = "queue"
                          \/ \E v \in Who : v # w /\ Carries(v) /\ at[v] = "queue"
<1>1. /\ at' \in [Who -> Steps] /\ refused' \in [Who -> Asides]
      /\ at'[w] = place /\ refused'[w] = r
      /\ \A v \in Who : v # w => at'[v] = at[v] /\ refused'[v] = refused[v]
  BY DEF CommandTypes
<1>2. \A v \in Who : v # w => (Carries(v)' <=> Carries(v))
  BY <1>1 DEF Carries
<1>3. Carries(w)' <=> r.frame = "command"
  BY <1>1 DEF Carries
<1>4. Carried' <=> r.frame = "command" \/ \E v \in Who : v # w /\ Carries(v)
  BY <1>2, <1>3 DEF Carried
<1>5. TakenOff' <=> \/ r.frame = "command" /\ place = "queue"
                    \/ \E v \in Who : v # w /\ Carries(v) /\ at[v] = "queue"
  BY <1>1, <1>2, <1>3 DEF TakenOff
<1>6. PutAside'
  <2>1. \A v \in Who : at'[v] \in {"full", "queue"} <=> refused'[v].frame # "none"
    BY <1>1 DEF PutAside
  <2>2. \A v \in Who : at'[v] = "full" => Carries(v)'
    BY <1>1, <1>2, <1>3 DEF PutAside
  <2>3. \A v \in Who : at'[v] \in {"full", "queue"} =>
                         (refused'[v].next = "wait" <=> v = "caller")
    BY <1>1 DEF PutAside
  <2>4. refused'["caller"].frame # "packet"
    BY <1>1 DEF PutAside, Who
  <2>5. \A u, v \in Who : Carries(u)' /\ Carries(v)' => u = v
    BY <1>2, <1>3 DEF PutAside
  <2> QED
    BY <2>1, <2>2, <2>3, <2>4, <2>5 DEF PutAside
<1> QED
  BY <1>1, <1>4, <1>5, <1>6

(* Somebody without the command in hand goes on, without it. *)
LEMMA OthersMove ==
  ASSUME CommandTypes, PutAside, NEW w \in Who, ~Carries(w),
         NEW place \in Steps, NEW r \in Asides, r.frame # "command",
         at' = [at EXCEPT ![w] = place], refused' = [refused EXCEPT ![w] = r],
         place \in {"full", "queue"} <=> r.frame # "none", place # "full",
         place = "queue" => w # "caller" /\ r.next # "wait"
  PROVE  /\ at' \in [Who -> Steps] /\ refused' \in [Who -> Asides] /\ PutAside'
         /\ at'[w] = place /\ \A v \in Who : v # w => at'[v] = at[v]
         /\ Carried' <=> Carried
         /\ TakenOff' <=> TakenOff
<1>1. /\ place \in {"full", "queue"} <=> r.frame # "none"
      /\ place = "full" => r.frame = "command"
      /\ place \in {"full", "queue"} => (r.next = "wait" <=> w = "caller")
      /\ w = "caller" => r.frame # "packet"
      /\ r.frame = "command" => \A v \in Who : v # w => ~Carries(v)
  OBVIOUS
<1>2. /\ at' \in [Who -> Steps] /\ refused' \in [Who -> Asides] /\ PutAside'
      /\ at'[w] = place /\ refused'[w] = r
      /\ \A v \in Who : v # w => at'[v] = at[v] /\ refused'[v] = refused[v]
      /\ Carried' <=> r.frame = "command" \/ \E v \in Who : v # w /\ Carries(v)
      /\ TakenOff' <=> \/ r.frame = "command" /\ place = "queue"
                       \/ \E v \in Who : v # w /\ Carries(v) /\ at[v] = "queue"
  BY <1>1, HandMoves
<1>3. (Carried' <=> Carried) /\ (TakenOff' <=> TakenOff)
  BY <1>2 DEF Carried, TakenOff
<1> QED
  BY <1>2, <1>3

(* Somebody who has nothing in hand goes on. *)
LEMMA EmptyHanded ==
  ASSUME CommandTypes, PutAside, NEW w \in Who, at[w] \notin {"full", "queue"},
         NEW place \in Steps \ {"full", "queue"}, Goes(w, place), UNCHANGED refused
  PROVE  /\ at' \in [Who -> Steps] /\ refused' \in [Who -> Asides] /\ PutAside'
         /\ at'[w] = place /\ \A v \in Who : v # w => at'[v] = at[v]
         /\ Carried' <=> Carried
         /\ TakenOff' <=> TakenOff
<1>1. refused[w].frame = "none" /\ refused[w] \in Asides /\ ~Carries(w)
  BY DEF CommandTypes, PutAside, Carries
<1>2. refused' = [refused EXCEPT ![w] = refused[w]] /\ at' = [at EXCEPT ![w] = place]
  BY DEF CommandTypes, Goes
<1> QED
  BY <1>1, <1>2, OthersMove

(* The places and hands are as they were. *)
LEMMA SameHands ==
  ASSUME PutAside, UNCHANGED <<at, refused>>
  PROVE  PutAside' /\ (Carried' <=> Carried) /\ (TakenOff' <=> TakenOff) /\ (Waits' <=> Waits)
BY DEF PutAside, Carried, TakenOff, Carries, Waits

-----------------------------------------------------------------------------
(* What a transmission does to the rings, and to the command. *)
LEMMA PacketTransmitted ==
  ASSUME CommandTypes, PutAside, Once(tx), InTurn(tx), shutdown = TRUE => Unsent(tx),
         NEW w \in Who, at[w] \notin {"full", "queue"}, NEW next \in {"rest", "serve"},
         Transmit(w, "packet", next, tcb)
  PROVE  /\ UNCHANGED command
         /\ tx' \in Seq(Descriptors) /\ Once(tx') /\ InTurn(tx')
         /\ OnRing' <=> OnRing
         /\ shutdown = TRUE => Unsent(tx')
         /\ \E place \in {"rest", "serve", "queue"}, r \in Asides :
              /\ at' = [at EXCEPT ![w] = place] /\ refused' = [refused EXCEPT ![w] = r]
              /\ r.frame # "command" /\ (place = "queue" <=> r.frame # "none")
              /\ place = "queue" => r.next # "wait"
<1> DEFINE frame == [frame |-> "packet", own |-> TRUE]
           aside == [frame |-> "packet", next |-> next]
<1>1. UNCHANGED command
  BY DEF Transmit, command
<1>2. /\ tx' \in Seq(Descriptors) /\ Once(tx') /\ InTurn(tx')
      /\ Has(tx') <=> Has(tx)
  <2>1. CASE tx' = Append(tx, frame)
    BY <2>1, RingAppends DEF CommandTypes, Frames
  <2>2. CASE UNCHANGED tx
    BY <2>2 DEF CommandTypes
  <2>3. tx' = Append(tx, frame) \/ UNCHANGED tx
    BY DEF Transmit
  <2> QED
    BY <2>1, <2>2, <2>3
<1>3. shutdown = TRUE => Unsent(tx')
  <2>1. shutdown = TRUE => UNCHANGED tx
    BY DEF Transmit
  <2> QED
    BY <2>1
<1>4. \/ Goes(w, next) /\ UNCHANGED refused
      \/ Goes(w, "queue") /\ refused' = [refused EXCEPT ![w] = aside]
  BY DEF Transmit
<1>5. CASE Goes(w, next) /\ UNCHANGED refused
  <2>1. refused[w] \in Asides /\ refused[w].frame = "none"
    BY DEF CommandTypes, PutAside
  <2>2. refused' = [refused EXCEPT ![w] = refused[w]] /\ at' = [at EXCEPT ![w] = next]
    BY <1>5 DEF CommandTypes, Goes
  <2> QED
    BY <1>1, <1>2, <1>3, <2>1, <2>2 DEF OnRing, Has
<1>6. CASE Goes(w, "queue") /\ refused' = [refused EXCEPT ![w] = aside]
  <2>1. aside \in Asides /\ aside.frame = "packet" /\ aside.next # "wait"
    BY DEF Asides, Frames
  <2> HIDE DEF aside
  <2>2. at' = [at EXCEPT ![w] = "queue"]
    BY <1>6 DEF Goes
  <2> QED
    BY <1>1, <1>2, <1>3, <1>6, <2>1, <2>2 DEF OnRing, Has
<1> QED
  BY <1>4, <1>5, <1>6

LEMMA CommandTransmitted ==
  ASSUME CommandTypes, PutAside, Once(tx), InTurn(tx), completed = 0,
         shutdown = FALSE => ~OnRing, ~Carried,
         NEW w \in Who, at[w] \notin {"full", "queue"},
         NEW next \in {"rest", "serve", "wait"}, next = "wait" <=> w = "caller",
         NEW t \in Tcbs, Transmit(w, "command", next, t)
  PROVE  /\ tx' \in Seq(Descriptors) /\ Once(tx') /\ InTurn(tx')
         /\ at' \in [Who -> Steps] /\ refused' \in [Who -> Asides] /\ PutAside'
         /\ at'[w] \in {next, "full"} /\ \A v \in Who : v # w => at'[v] = at[v]
         /\ ~TakenOff'
         /\ shutdown = TRUE => /\ tcb' = [t EXCEPT !.timeout = TRUE]
                               /\ completed' = 1 /\ node' = "free"
                               /\ UNCHANGED tx /\ at'[w] = next /\ ~Carried'
         /\ shutdown = FALSE => /\ tcb' = t /\ completed' = 0
                                /\ node' = IF t.wait = TRUE THEN "waiting" ELSE "free"
                                /\ OnRing' <=> ~Carried'
<1> DEFINE frame == [frame |-> "command", own |-> TRUE]
           aside == [frame |-> "command", next |-> next]
<1>1. shutdown \in BOOLEAN /\ t.wait \in BOOLEAN
  BY DEF CommandTypes, Tcbs
<1>2. ~TakenOff /\ next \in Steps \ {"full", "queue"}
  BY DEF Carried, TakenOff, Steps
<1>3. CASE shutdown = TRUE
  <2>1. /\ tcb' = [t EXCEPT !.timeout = TRUE] /\ completed' = 1 /\ node' = "free"
        /\ UNCHANGED <<tx, refused>> /\ Goes(w, next)
    BY <1>3 DEF Transmit
  <2>2. /\ at' \in [Who -> Steps] /\ refused' \in [Who -> Asides] /\ PutAside'
        /\ at'[w] = next /\ \A v \in Who : v # w => at'[v] = at[v]
        /\ ~Carried' /\ ~TakenOff'
    BY <1>2, <2>1, EmptyHanded
  <2> QED
    BY <1>3, <2>1, <2>2 DEF CommandTypes
<1>4. CASE shutdown = FALSE
  <2>1. /\ tcb' = t /\ completed' = 0
        /\ node' = IF t.wait = TRUE THEN "waiting" ELSE "free"
        /\ \/ tx' = Append(tx, frame) /\ Goes(w, next) /\ UNCHANGED refused
           \/ UNCHANGED tx /\ Goes(w, "full") /\ refused' = [refused EXCEPT ![w] = aside]
    BY <1>1, <1>4 DEF Transmit
  <2>2. ~Has(tx)
    BY <1>4 DEF OnRing, Has
  <2>3. CASE tx' = Append(tx, frame) /\ Goes(w, next) /\ UNCHANGED refused
    <3>1. tx' \in Seq(Descriptors) /\ InTurn(tx') /\ Once(tx') /\ Has(tx')
      BY <2>2, <2>3, RingAppends DEF CommandTypes, Frames
    <3>2. /\ at' \in [Who -> Steps] /\ refused' \in [Who -> Asides] /\ PutAside'
          /\ at'[w] = next /\ \A v \in Who : v # w => at'[v] = at[v]
          /\ ~Carried' /\ ~TakenOff'
      BY <1>2, <2>3, EmptyHanded
    <3>3. OnRing'
      BY <3>1 DEF OnRing, Has
    <3> QED
      BY <1>4, <2>1, <3>1, <3>2, <3>3
  <2>4. CASE UNCHANGED tx /\ Goes(w, "full") /\ refused' = [refused EXCEPT ![w] = aside]
    <3>1. aside \in Asides /\ aside.frame = "command" /\ aside.next = next
      BY DEF Asides, Frames
    <3> HIDE DEF aside
    <3>2. /\ at' = [at EXCEPT ![w] = "full"] /\ "full" \in Steps
          /\ \A v \in Who : ~Carries(v)
      BY <2>4 DEF Goes, Steps, Carried
    <3>3. /\ at' \in [Who -> Steps] /\ refused' \in [Who -> Asides] /\ PutAside'
          /\ at'[w] = "full" /\ \A v \in Who : v # w => at'[v] = at[v]
          /\ Carried' /\ ~TakenOff'
      BY <2>4, <3>1, <3>2, HandMoves, ZenonT(40)
    <3>4. ~OnRing' /\ tx' \in Seq(Descriptors) /\ InTurn(tx') /\ Once(tx')
      BY <2>2, <2>4 DEF OnRing, Has, CommandTypes
    <3> QED
      BY <1>4, <2>1, <3>3, <3>4
  <2> QED
    BY <2>1, <2>3, <2>4
<1> QED
  BY <1>1, <1>3, <1>4

(* What no step but the caller's own changes. *)
Rest == Is("caller", "rest")

LEMMA GiveInv == ASSUME CommandInv, give PROVE CommandInv' /\ ~Rest /\ ~Rest'
<1> DEFINE f == Head(todo)
           t == [Fresh EXCEPT !.function = f, !.wait = TRUE, !.retries = tcb.retries,
                              !.seq = IF f \in Supervisor THEN seq_num ELSE 0]
<1>1. /\ Is("caller", "give")
      /\ seq_num' = IF f \in Supervisor THEN (seq_num + 1) % SEQUENCE ELSE seq_num
      /\ Transmit("caller", "command", "wait", t)
      /\ answers' = [i \in DOMAIN answers |-> [answers[i] EXCEPT !.stale = TRUE]]
      /\ UNCHANGED <<todo, cmd_list, last_rx_seq_num, shutdown>>
  BY DEF give
<1>2. f \in Commands
  BY <1>1, HeadTailProperties DEF CommandInv, CommandTypes, Is
<1> HIDE DEF f
<1>3. /\ Fresh \in Tcbs /\ Fresh.sent = FALSE /\ Fresh.response = "none"
      /\ tcb.retries \in Nat /\ (IF f \in Supervisor THEN seq_num ELSE 0) \in Int
  <2>1. Fresh \in Tcbs /\ Fresh.sent = FALSE /\ Fresh.response = "none"
    BY DEF Fresh, Tcbs
  <2>2. tcb.retries \in Nat
    BY DEF CommandInv, CommandTypes, Tcbs
  <2>3. (IF f \in Supervisor THEN seq_num ELSE 0) \in Int
    BY DEF CommandInv, CommandTypes
  <2> QED
    BY <2>1, <2>2, <2>3
<1>4. t \in Tcbs /\ t.wait = TRUE /\ t.sent = FALSE /\ t.response = "none"
  BY <1>2, <1>3 DEF Tcbs
<1> HIDE DEF t
<1>5. /\ completed = 0 /\ node = "free" /\ ~OnList /\ ~Carried
      /\ shutdown = FALSE => ~OnRing
  BY <1>1 DEF CommandInv, CommandTypes, Given, Waits, Is
<1>6. /\ tx' \in Seq(Descriptors) /\ Once(tx') /\ InTurn(tx')
      /\ at' \in [Who -> Steps] /\ refused' \in [Who -> Asides] /\ PutAside'
      /\ at'["caller"] \in {"wait", "full"}
      /\ \A v \in Who : v # "caller" => at'[v] = at[v]
      /\ ~TakenOff'
      /\ shutdown = TRUE => /\ tcb' = [t EXCEPT !.timeout = TRUE]
                            /\ completed' = 1 /\ node' = "free"
                            /\ UNCHANGED tx /\ at'["caller"] = "wait" /\ ~Carried'
      /\ shutdown = FALSE => /\ tcb' = t /\ completed' = 0
                             /\ node' = IF t.wait = TRUE THEN "waiting" ELSE "free"
                             /\ OnRing' <=> ~Carried'
  <2>1. /\ CommandTypes /\ PutAside /\ Once(tx) /\ InTurn(tx)
        /\ "caller" \in Who /\ at["caller"] \notin {"full", "queue"}
    BY <1>1 DEF CommandInv, Alone, Who, Is
  <2> QED
    BY <1>1, <1>4, <1>5, <2>1, CommandTransmitted
<1>7. /\ tcb' \in Tcbs /\ tcb'.wait = TRUE /\ tcb'.sent = FALSE /\ tcb'.response = "none"
      /\ shutdown \in BOOLEAN
  <2>1. /\ [t EXCEPT !.timeout = TRUE] \in Tcbs
        /\ [t EXCEPT !.timeout = TRUE].wait = TRUE
        /\ [t EXCEPT !.timeout = TRUE].sent = FALSE
        /\ [t EXCEPT !.timeout = TRUE].response = "none"
    BY <1>4 DEF Tcbs
  <2>2. shutdown \in BOOLEAN
    BY DEF CommandInv, CommandTypes
  <2> QED
    BY <1>4, <1>6, <2>1, <2>2
<1>8. /\ at'["watchdog"] = at["watchdog"] /\ Waits'
      /\ (OnList' <=> OnList)
  BY <1>1, <1>6 DEF Who, Waits, OnList
<1>9. /\ answers' \in Seq(Answers) /\ DOMAIN answers' = DOMAIN answers
      /\ \A i \in DOMAIN answers : answers'[i].stale = TRUE
           /\ answers'[i].function = answers[i].function /\ answers'[i].seq = answers[i].seq
  <2>1. answers \in Seq(Answers) /\ DOMAIN answers = 1 .. Len(answers) /\ Len(answers) \in Nat
    BY DEF CommandInv, CommandTypes
  <2>2. \A i \in DOMAIN answers : answers[i] \in Answers
    BY <2>1, ElementOfSeq
  <2>3. \A i \in DOMAIN answers : /\ [answers[i] EXCEPT !.stale = TRUE] \in Answers
                                  /\ [answers[i] EXCEPT !.stale = TRUE].stale = TRUE
                                  /\ [answers[i] EXCEPT !.stale = TRUE].function = answers[i].function
                                  /\ [answers[i] EXCEPT !.stale = TRUE].seq = answers[i].seq
    BY <2>2 DEF Answers
  <2>4. answers' \in [1 .. Len(answers) -> Answers]
    BY <1>1, <2>1, <2>3
  <2>5. answers' \in Seq(Answers) /\ DOMAIN answers' = DOMAIN answers
    BY <2>1, <2>4
  <2>6. \A i \in DOMAIN answers : answers'[i] = [answers[i] EXCEPT !.stale = TRUE]
    BY <1>1
  <2> QED
    BY <2>3, <2>5, <2>6
<1>10. CommandTypes'
  <2>1. seq_num' \in Nat
    <3>1. seq_num \in Nat /\ SEQUENCE \in Nat \ {0}
      BY TcCommandAssumption DEF CommandInv, CommandTypes, TcCommandAssumption
    <3>2. (seq_num + 1) % SEQUENCE \in Nat
      BY <3>1
    <3> QED
      BY <1>1, <3>1, <3>2
  <2>2. node' \in {"free", "pending", "waiting", "retry"}
    BY <1>4, <1>6, <1>7
  <2>3. todo' \in Seq(Commands) /\ todo' # <<>>
    BY <1>1 DEF CommandInv, CommandTypes, Is
  <2> QED
    BY <1>1, <1>6, <1>7, <1>8, <1>9, <2>1, <2>2, <2>3 DEF CommandInv, CommandTypes
<1>11. Given'
  <2>1. shutdown = TRUE => Unsent(tx)'
    BY <1>6 DEF CommandInv, Given, Unsent
  <2> QED
    BY <1>1, <1>4, <1>5, <1>6, <1>7, <1>8, <2>1 DEF CommandInv, Given, Is
<1>12. Answered'
  <2>1. \A i \in DOMAIN answers : Seen(answers[i])
    BY <1>5 DEF CommandInv, Answered, Open
  <2>2. \A i \in DOMAIN answers' : Seen(answers[i])'
    BY <1>1, <1>9, <2>1 DEF Seen
  <2>3. shutdown' = FALSE => Open'
    BY <1>1, <1>4, <1>6, <1>7 DEF Open
  <2> QED
    BY <1>7, <1>9, <2>2, <2>3 DEF Answered
<1>13. ~Rest /\ ~Rest'
  BY <1>1, <1>6 DEF Rest, Is
<1>14. Alone'
  BY <1>1, <1>6 DEF CommandInv, Alone
<1> QED
  BY <1>6, <1>10, <1>11, <1>12, <1>13, <1>14 DEF CommandInv

(* Between its commands the caller has nothing under way. *)
LEMMA BetweenCommands ==
  ASSUME CommandInv, node = "free", ~Carried, completed' = 0, shutdown = FALSE => ~OnRing,
         at["caller"] \notin {"full", "queue"}, tcb' \in Tcbs, tcb'.response = "none", todo' \in Seq(Commands),
         NEW place \in {"rest", "give", "done", "failed"}, Goes("caller", place),
         place = "give" => todo' # <<>>,
         UNCHANGED <<node, rings, answers, numbers, shutdown>>
  PROVE  CommandInv' /\ (Rest' <=> place = "rest")
<1>1. UNCHANGED <<tx, cmd_list, refused, seq_num, last_rx_seq_num>>
  BY DEF rings, numbers
<1>2. /\ at' \in [Who -> Steps] /\ refused' \in [Who -> Asides] /\ PutAside'
      /\ at'["caller"] = place /\ at'["watchdog"] = at["watchdog"]
      /\ ~Carried' /\ (TakenOff' <=> TakenOff)
  <2>1. /\ CommandTypes /\ PutAside /\ {"caller", "watchdog"} \subseteq Who
        /\ place \in Steps \ {"full", "queue"}
    BY DEF CommandInv, Who, Steps
  <2>2. /\ at' \in [Who -> Steps] /\ refused' \in [Who -> Asides] /\ PutAside'
        /\ at'["caller"] = place /\ (\A v \in Who : v # "caller" => at'[v] = at[v])
        /\ Carried' <=> Carried
        /\ TakenOff' <=> TakenOff
    BY <1>1, <2>1, EmptyHanded
  <2> QED
    BY <2>1, <2>2
<1>3. CommandTypes'
  BY <1>1, <1>2 DEF CommandInv, CommandTypes
<1>4. Alone' /\ (OnRing' <=> OnRing) /\ (OnList' <=> OnList) /\ (Unsent(tx)' <=> Unsent(tx))
  BY <1>1 DEF CommandInv, Alone, OnRing, OnList, Unsent
<1>5. Given'
  BY <1>2, <1>4 DEF CommandInv, CommandTypes, Given, Is
<1>6. Answered'
  <2>1. \A i \in DOMAIN answers : Seen(answers[i])
    BY DEF CommandInv, Answered, Open
  <2>2. \A i \in DOMAIN answers' : Seen(answers[i])'
    BY <1>1, <2>1 DEF Seen
  <2>3. \A i, j \in DOMAIN answers' :
          i < j /\ answers'[j].stale = TRUE => answers'[i].stale = TRUE
    BY DEF CommandInv, Answered
  <2>4. ~Open' /\ (shutdown' = FALSE => ~OnRing' /\ ~OnList' /\ ~Carried')
    BY <1>2, <1>4 DEF CommandInv, Given, Open
  <2> QED
    BY <2>2, <2>3, <2>4 DEF Answered
<1>7. Rest' <=> place = "rest"
  BY <1>2 DEF Rest, Is
<1> QED
  BY <1>2, <1>3, <1>4, <1>5, <1>6, <1>7 DEF CommandInv

LEMMA FreshFacts == Fresh \in Tcbs /\ Fresh.response = "none"
BY DEF Fresh, Tcbs

LEMMA AnsweredInv == ASSUME CommandInv, answered PROVE CommandInv' /\ ~Rest /\ ~Rest'
<1>1. /\ Is("caller", "wait") /\ completed > 0 /\ completed' = completed - 1
      /\ todo' = Tail(todo)
      /\ tcb' = [Fresh EXCEPT !.retries = tcb.retries]
      /\ UNCHANGED <<node, rings, answers, numbers, shutdown>>
  BY DEF answered
<1>2. PICK place \in {"give", "done", "failed"} :
        Goes("caller", place) /\ (place = "give" => Len(todo) # 1)
  BY DEF answered
<1>3. completed = 1 /\ completed' = 0
  BY <1>1 DEF CommandInv, Given
<1>4. /\ node = "free" /\ ~Carried /\ (shutdown = FALSE => ~OnRing)
      /\ at["caller"] \notin {"full", "queue"}
  BY <1>1, <1>3 DEF CommandInv, Given, Is
<1>5. tcb' \in Tcbs /\ tcb'.response = "none"
  <2>1. tcb.retries \in Nat
    BY DEF CommandInv, CommandTypes, Tcbs
  <2> QED
    BY <1>1, <2>1, FreshFacts DEF Tcbs
<1>6. todo' \in Seq(Commands) /\ (place = "give" => todo' # <<>>)
  <2>1. todo \in Seq(Commands) /\ todo # <<>>
    BY <1>1 DEF CommandInv, CommandTypes, Is
  <2>2. Tail(todo) \in Seq(Commands) /\ Len(Tail(todo)) = Len(todo) - 1
    BY <2>1, HeadTailProperties
  <2>3. Len(todo) # 1 => Tail(todo) # <<>>
    BY <2>1, <2>2
  <2> QED
    BY <1>1, <1>2, <2>2, <2>3
<1>7. CommandInv' /\ (Rest' <=> place = "rest")
  BY <1>1, <1>2, <1>3, <1>4, <1>5, <1>6, BetweenCommands
<1> QED
  BY <1>1, <1>2, <1>7 DEF Rest, Is

LEMMA BeginInv ==
  ASSUME CommandInv, Rest, NEW row \in {CreateRow, DestroyRow}, Begin(row)
  PROVE  CommandInv' /\ ~Rest'
<1>1. row \in Seq(Commands) /\ row # <<>>
  <2>1. CreateRow \in Seq(Commands) /\ CreateRow # <<>>
    BY DEF CreateRow, Commands
  <2>2. DestroyRow \in Seq(Commands) /\ DestroyRow # <<>>
    BY DEF DestroyRow, Commands
  <2> QED
    BY <2>1, <2>2
<1>2. /\ todo' = row /\ tcb' = Fresh /\ Goes("caller", "give")
      /\ UNCHANGED <<node, completed, rings, answers, numbers, shutdown>>
  BY DEF Begin
<1>3. /\ node = "free" /\ completed = 0 /\ ~Carried /\ (shutdown = FALSE => ~OnRing)
      /\ at["caller"] \notin {"full", "queue"}
  BY DEF CommandInv, Given, Waits, Rest, Is
<1> QED
  BY <1>1, <1>2, <1>3, FreshFacts, BetweenCommands

LEMMA EndInv ==
  ASSUME CommandInv, NEW result \in {"done", "failed"}, End(result)
  PROVE  CommandInv' /\ ~Rest /\ Rest'
<1>1. /\ todo' = <<>> /\ tcb' = Fresh /\ Goes("caller", "rest") /\ Is("caller", result)
      /\ UNCHANGED <<node, completed, rings, answers, numbers, shutdown>>
  BY DEF End
<1>2. /\ node = "free" /\ completed = 0 /\ ~Carried /\ (shutdown = FALSE => ~OnRing)
      /\ at["caller"] \notin {"full", "queue"}
  BY <1>1 DEF CommandInv, Given, Waits, Is
<1>3. todo' \in Seq(Commands)
  BY <1>1
<1> QED
  BY <1>1, <1>2, <1>3, FreshFacts, BetweenCommands DEF Rest, Is
(* Nobody has the frame of the command in hand: its caller waits. *)
LEMMA CallerWaits ==
  ASSUME CommandTypes, PutAside, Waits, ~Carried
  PROVE  Is("caller", "wait")
<1>1. "caller" \in Who /\ refused["caller"].frame # "command"
  BY DEF Carried, Carries, Who
<1>2. at["caller"] = "full" => FALSE
  BY <1>1 DEF PutAside, Carries
<1>3. at["caller"] \in {"full", "queue"} => refused["caller"].frame # "none"
  BY <1>1 DEF PutAside
<1>4. ASSUME at["caller"] = "queue" PROVE Carried
  <2>1. refused["caller"] \in Asides
    BY <1>1 DEF CommandTypes
  <2>2. refused["caller"].frame \in {"command", "packet", "none"}
    BY <2>1 DEF Asides, Frames
  <2> QED
    BY <1>1, <1>3, <1>4, <2>2 DEF PutAside
<1> QED
  BY <1>2, <1>4 DEF Waits, Is

(* A step of another that moves packets on the rings at most. *)
LEMMA PacketsMove ==
  ASSUME CommandInv, UNCHANGED <<command, todo, answers, numbers, shutdown>>,
         tx' \in Seq(Descriptors), cmd_list' \in Seq(Frames), Alone',
         OnRing' <=> OnRing, OnList' <=> OnList, shutdown = TRUE => Unsent(tx'),
         NEW w \in {"writer", "work", "watchdog"}, ~Is(w, "resend"), ~Carries(w),
         NEW place \in {"rest", "serve", "pull", "queue"}, NEW r \in Asides,
         at' = [at EXCEPT ![w] = place], refused' = [refused EXCEPT ![w] = r],
         r.frame # "command", place = "queue" <=> r.frame # "none",
         place = "queue" => r.next # "wait"
  PROVE  CommandInv' /\ (Rest' <=> Rest)
<1>1. /\ CommandTypes /\ PutAside /\ {"caller", "watchdog", w} \subseteq Who
      /\ place \in Steps /\ (place \in {"full", "queue"} <=> r.frame # "none")
      /\ w # "caller"
  BY DEF CommandInv, Who, Steps
<1>2. /\ at' \in [Who -> Steps] /\ refused' \in [Who -> Asides] /\ PutAside'
      /\ at'[w] = place /\ (\A v \in Who : v # w => at'[v] = at[v])
      /\ Carried' <=> Carried
      /\ TakenOff' <=> TakenOff
  BY <1>1, OthersMove
<1>3. at'["caller"] = at["caller"] /\ (Waits' <=> Waits)
  BY <1>1, <1>2 DEF Waits
<1>4. Is("watchdog", "resend")' <=> Is("watchdog", "resend")
  BY <1>1, <1>2 DEF Is
<1>5. UNCHANGED <<tcb, node, completed, seq_num, last_rx_seq_num>>
  BY DEF command, numbers
<1>6. CommandTypes'
  BY <1>2, <1>3, <1>5 DEF CommandInv, CommandTypes
<1>7. Given'
  BY <1>2, <1>3, <1>4, <1>5 DEF CommandInv, Given, Is
<1>8. Open' <=> Open
  BY <1>2, <1>5 DEF Open
<1>9. Answered'
  BY <1>2, <1>5, <1>8 DEF CommandInv, Answered, Seen
<1>10. Rest' <=> Rest
  BY <1>3 DEF Rest, Is
<1> QED
  BY <1>2, <1>6, <1>7, <1>9, <1>10 DEF CommandInv

(* The same of one that puts nothing aside. *)
LEMMA PacketsOnly ==
  ASSUME CommandInv, UNCHANGED <<command, todo, refused, answers, numbers, shutdown>>,
         tx' \in Seq(Descriptors), cmd_list' \in Seq(Frames), Alone',
         OnRing' <=> OnRing, OnList' <=> OnList, shutdown = TRUE => Unsent(tx'),
         NEW w \in {"writer", "work", "watchdog"}, at[w] \notin {"resend", "full", "queue"},
         NEW place \in {"rest", "serve", "pull"}, Goes(w, place)
  PROVE  CommandInv' /\ (Rest' <=> Rest)
<1>1. w \in Who
  BY DEF Who
<1>2. refused[w].frame = "none" /\ refused[w] \in Asides /\ ~Carries(w) /\ ~Is(w, "resend")
  BY <1>1 DEF CommandInv, CommandTypes, PutAside, Carries, Is
<1>3. refused' = [refused EXCEPT ![w] = refused[w]] /\ at' = [at EXCEPT ![w] = place]
  BY <1>1 DEF CommandInv, CommandTypes, Goes
<1> QED
  BY <1>2, <1>3, PacketsMove

(* The frame of a command that waits is transmitted, or once more. *)
LEMMA CommandMoves ==
  ASSUME CommandInv, node \in {"pending", "retry"},
         UNCHANGED <<todo, answers, numbers, shutdown>>,
         NEW w \in {"work", "watchdog"}, at[w] \notin {"full", "queue"},
         NEW next \in {"rest", "serve"}, node = "retry" => w = "watchdog",
         cmd_list' \in Seq(Frames), ListsOnce(cmd_list'), ~Lists(cmd_list'),
         Transmit(w, "command", next, tcb)
  PROVE  CommandInv' /\ (Rest' <=> Rest)
<1>1. /\ shutdown = FALSE /\ completed = 0 /\ tcb.sent = FALSE
      /\ tcb \in Tcbs /\ ~OnRing /\ Waits /\ ~Carried /\ tcb.wait \in BOOLEAN
  BY DEF CommandInv, CommandTypes, Given, Tcbs
<1>2. /\ tx' \in Seq(Descriptors) /\ Once(tx') /\ InTurn(tx')
      /\ at' \in [Who -> Steps] /\ refused' \in [Who -> Asides] /\ PutAside'
      /\ at'[w] \in {next, "full"} /\ (\A v \in Who : v # w => at'[v] = at[v])
      /\ ~TakenOff'
      /\ tcb' = tcb /\ completed' = 0
      /\ node' = IF tcb.wait = TRUE THEN "waiting" ELSE "free"
      /\ OnRing' <=> ~Carried'
  <2>1. /\ CommandTypes /\ PutAside /\ Once(tx) /\ InTurn(tx) /\ w \in Who
        /\ next \in {"rest", "serve", "wait"} /\ (next = "wait" <=> w = "caller")
    BY DEF CommandInv, Alone, Who
  <2> QED
    BY <1>1, <2>1, CommandTransmitted, ZenonT(40)
<1>3. at'["caller"] = at["caller"] /\ (Waits' <=> Waits)
  BY <1>2 DEF Who, Waits
<1>4. ~Is("watchdog", "resend")'
  BY <1>2 DEF CommandInv, Given, Who, Is
<1>5. UNCHANGED <<seq_num, last_rx_seq_num>>
  BY DEF numbers
<1>6. CommandTypes'
  BY <1>2, <1>3, <1>5 DEF CommandInv, CommandTypes
<1>7. ~OnList' /\ Alone'
  BY <1>2 DEF Alone, OnList, Lists
<1>8. Given'
  BY <1>1, <1>2, <1>3, <1>4, <1>7 DEF CommandInv, Given, Is
<1>9. Answered'
  <2>1. Open' <=> Open
    BY <1>1, <1>2 DEF Open
  <2>2. shutdown = FALSE /\ ~Open => Seen(tcb)
    BY <1>1 DEF CommandInv, Given, Answered, Open
  <2> QED
    BY <1>1, <1>2, <1>5, <2>1, <2>2 DEF CommandInv, Answered, Seen
<1>10. Rest' <=> Rest
  BY <1>3 DEF Rest, Is
<1> QED
  BY <1>2, <1>6, <1>7, <1>8, <1>9, <1>10 DEF CommandInv

LEMMA WriteInv == ASSUME CommandInv, write PROVE CommandInv' /\ (Rest' <=> Rest)
<1>1. /\ shutdown = TRUE => Unsent(tx)
      /\ CommandTypes /\ PutAside /\ Once(tx) /\ InTurn(tx)
      /\ "writer" \in Who /\ at["writer"] = "rest"
      /\ Transmit("writer", "packet", "rest", tcb)
      /\ UNCHANGED <<todo, cmd_list, answers, numbers, shutdown>>
  BY DEF write, CommandInv, Alone, Given, Who, Is
<1>2. /\ UNCHANGED command
      /\ tx' \in Seq(Descriptors) /\ Once(tx') /\ InTurn(tx')
      /\ OnRing' <=> OnRing
      /\ shutdown = TRUE => Unsent(tx')
      /\ \E place \in {"rest", "serve", "queue"}, r \in Asides :
           /\ at' = [at EXCEPT !["writer"] = place]
           /\ refused' = [refused EXCEPT !["writer"] = r]
           /\ r.frame # "command" /\ (place = "queue" <=> r.frame # "none")
           /\ place = "queue" => r.next # "wait"
  BY <1>1, PacketTransmitted
<1>3. PICK place \in {"rest", "serve", "queue"}, r \in Asides :
        /\ at' = [at EXCEPT !["writer"] = place]
        /\ refused' = [refused EXCEPT !["writer"] = r]
        /\ r.frame # "command" /\ (place = "queue" <=> r.frame # "none")
        /\ place = "queue" => r.next # "wait"
  BY <1>2
<1>4. /\ cmd_list' \in Seq(Frames) /\ Alone' /\ (OnList' <=> OnList)
      /\ ~Is("writer", "resend") /\ ~Carries("writer")
  BY <1>1, <1>2 DEF CommandInv, CommandTypes, Alone, OnList, PutAside, Carries, Is
<1> QED
  BY <1>1, <1>2, <1>3, <1>4, PacketsMove

(* The frame in hand: the command leaves the list of those that wait, and  *)
(* comes to cmd_list.                                                      *)
LEMMA TakeOffInv ==
  ASSUME CommandInv, NEW w \in Who, take_off(w)
  PROVE  CommandInv' /\ (Rest' <=> Rest)
<1>1. /\ at[w] = "full" /\ node' = "free" /\ Goes(w, "queue")
      /\ UNCHANGED <<tcb, completed, todo, rings, answers, numbers, shutdown>>
  BY DEF take_off, Is
<1>2. UNCHANGED <<tx, cmd_list, refused, seq_num, last_rx_seq_num>>
  BY <1>1 DEF rings, numbers
<1>3. /\ Carries(w) /\ CommandTypes /\ PutAside /\ refused[w] \in Asides
      /\ refused[w].frame = "command" /\ (refused[w].next = "wait" <=> w = "caller")
      /\ \A v \in Who : v # w => ~Carries(v)
      /\ at' = [at EXCEPT ![w] = "queue"] /\ "queue" \in Steps
      /\ refused' = [refused EXCEPT ![w] = refused[w]]
  BY <1>1, <1>2 DEF CommandInv, CommandTypes, PutAside, Carries, Goes, Steps
<1>4. /\ at' \in [Who -> Steps] /\ refused' \in [Who -> Asides] /\ PutAside'
      /\ at'[w] = "queue" /\ (\A v \in Who : v # w => at'[v] = at[v])
      /\ Carried' /\ TakenOff'
  <2> DEFINE r == refused[w]
  <2>1. /\ r \in Asides /\ r.frame = "command" /\ (r.next = "wait" <=> w = "caller")
        /\ refused' = [refused EXCEPT ![w] = r]
    BY <1>3
  <2> HIDE DEF r
  <2>2. /\ "queue" \in {"full", "queue"} <=> r.frame # "none"
        /\ "queue" = "full" => r.frame = "command"
        /\ "queue" \in {"full", "queue"} => (r.next = "wait" <=> w = "caller")
        /\ w = "caller" => r.frame # "packet"
        /\ r.frame = "command" => \A v \in Who : v # w => ~Carries(v)
    BY <2>1, <1>3
  <2>3. /\ at' \in [Who -> Steps] /\ refused' \in [Who -> Asides] /\ PutAside'
        /\ at'[w] = "queue" /\ refused'[w] = r
        /\ \A v \in Who : v # w => at'[v] = at[v] /\ refused'[v] = refused[v]
        /\ Carried' <=> r.frame = "command" \/ \E v \in Who : v # w /\ Carries(v)
        /\ TakenOff' <=> \/ r.frame = "command" /\ "queue" = "queue"
                         \/ \E v \in Who : v # w /\ Carries(v) /\ at[v] = "queue"
    BY <1>3, <2>1, <2>2, HandMoves, ZenonT(40)
  <2> QED
    BY <2>1, <2>3
<1>5. Carried /\ Waits /\ completed = 0 /\ shutdown = FALSE /\ tcb.sent = FALSE /\ ~OnRing
  BY <1>3 DEF CommandInv, CommandTypes, Given, Carried
<1>6. /\ Waits' /\ (at["caller"] \in {"full", "queue"} <=> at'["caller"] \in {"full", "queue"})
      /\ (Rest' <=> Rest) /\ ~Is("watchdog", "resend")'
  <2>1. w = "caller" \/ at'["caller"] = at["caller"]
    BY <1>4 DEF Who
  <2>2. ~Is("watchdog", "resend")
    BY <1>5 DEF CommandInv, Given
  <2>3. at'["watchdog"] \in {"queue", at["watchdog"]}
    BY <1>4 DEF Who
  <2> QED
    BY <1>1, <1>4, <1>5, <2>1, <2>2, <2>3 DEF Waits, Rest, Is
<1>7. ~OnList /\ ~OnList' /\ ~OnRing' /\ Alone'
  BY <1>2, <1>5 DEF CommandInv, Given, Alone, OnList, OnRing
<1>8. CommandTypes'
  BY <1>1, <1>2, <1>4, <1>5, <1>6 DEF CommandInv, CommandTypes, Waits
<1>9. Given'
  BY <1>1, <1>4, <1>5, <1>6, <1>7 DEF CommandInv, Given
<1>10. Answered'
  <2>1. Open' <=> Open
    BY <1>1, <1>4, <1>5 DEF Open
  <2> QED
    BY <1>1, <1>2, <1>5, <2>1 DEF CommandInv, Answered, Seen
<1> QED
  BY <1>4, <1>6, <1>7, <1>8, <1>9, <1>10 DEF CommandInv

LEMMA QueueInv ==
  ASSUME CommandInv, NEW w \in Who, queue(w)
  PROVE  CommandInv' /\ (Rest' <=> Rest)
<1> DEFINE frame == refused[w].frame
           next == refused[w].next
<1>1. /\ at[w] = "queue" /\ cmd_list' = Append(cmd_list, frame)
      /\ node' = IF frame = "command" THEN "pending" ELSE node
      /\ refused' = [refused EXCEPT ![w] = NoFrame] /\ Goes(w, next)
      /\ UNCHANGED <<tcb, completed, todo, tx, answers, numbers, shutdown>>
  BY DEF queue, Is
<1>2. /\ frame \in Frames /\ next \in {"rest", "serve", "wait"}
      /\ (next = "wait" <=> w = "caller") /\ (frame = "packet" => w # "caller")
      /\ NoFrame \in Asides /\ NoFrame.frame = "none"
  <2>1. refused[w] \in Asides /\ frame # "none" /\ (next = "wait" <=> w = "caller")
    BY <1>1 DEF CommandInv, CommandTypes, PutAside
  <2>2. frame = "packet" => w # "caller"
    BY DEF CommandInv, PutAside
  <2>3. NoFrame \in Asides /\ NoFrame.frame = "none"
    BY DEF NoFrame, Asides
  <2> QED
    BY <2>1, <2>2, <2>3 DEF Asides
<1>3. at' = [at EXCEPT ![w] = next] /\ next \in Steps /\ next \notin {"full", "queue"}
  BY <1>1, <1>2 DEF Goes, Steps
<1>4. /\ cmd_list \in Seq(Frames) /\ ListsOnce(cmd_list)
      /\ OnList <=> Lists(cmd_list)
      /\ OnList' <=> Lists(cmd_list')
  BY DEF CommandInv, CommandTypes, Alone, OnList, Lists
<1>5. /\ cmd_list' \in Seq(Frames)
      /\ OnList' <=> OnList \/ frame = "command"
      /\ (frame = "packet" \/ ~OnList) => ListsOnce(cmd_list')
  BY <1>1, <1>2, <1>4, ListAppends
<1>6. Carries(w) <=> frame = "command"
  BY DEF Carries
<1> HIDE DEF frame, next
<1>7. (OnRing' <=> OnRing) /\ (Unsent(tx)' <=> Unsent(tx)) /\ Once(tx') /\ InTurn(tx')
      /\ tx' \in Seq(Descriptors)
  BY <1>1 DEF CommandInv, CommandTypes, Alone, OnRing, Unsent
<1>8. CASE frame = "packet"
  <2>1. /\ UNCHANGED <<command, todo, answers, numbers, shutdown>>
        /\ Alone' /\ (OnList' <=> OnList) /\ (shutdown = TRUE => Unsent(tx'))
        /\ ~Carries(w) /\ ~Is(w, "resend")
    BY <1>1, <1>5, <1>6, <1>7, <1>8 DEF CommandInv, Given, Alone, command, Is
  <2>2. w \in {"writer", "work", "watchdog"} /\ next \in {"rest", "serve"}
    BY <1>2, <1>8 DEF Who
  <2> QED
    BY <1>1, <1>2, <1>3, <1>5, <1>7, <2>1, <2>2, PacketsMove
<1>9. CASE frame = "command"
  <2>1. /\ Carried /\ TakenOff /\ Waits /\ completed = 0 /\ shutdown = FALSE
        /\ tcb.sent = FALSE /\ ~OnRing /\ node = "free" /\ ~OnList
    BY <1>1, <1>6, <1>9 DEF CommandInv, CommandTypes, Given, Carried, TakenOff
  <2>2. /\ CommandTypes /\ PutAside
        /\ \A v \in Who : v # w => ~Carries(v)
    BY <1>6, <1>9 DEF CommandInv, PutAside
  <2>3. /\ at' \in [Who -> Steps] /\ refused' \in [Who -> Asides] /\ PutAside'
        /\ at'[w] = next /\ (\A v \in Who : v # w => at'[v] = at[v])
        /\ ~Carried' /\ ~TakenOff'
    <3>1. /\ at' \in [Who -> Steps] /\ refused' \in [Who -> Asides] /\ PutAside'
          /\ at'[w] = next /\ (\A v \in Who : v # w => at'[v] = at[v])
          /\ Carried' <=> NoFrame.frame = "command" \/ \E v \in Who : v # w /\ Carries(v)
      BY <1>1, <1>2, <1>3, <2>2, HandMoves
    <3>2. ~Carried'
      BY <1>2, <2>2, <3>1
    <3> QED
      BY <3>1, <3>2 DEF Carried, TakenOff
  <2>4. Waits' /\ (Rest' <=> Rest) /\ ~Is("watchdog", "resend")'
    <3>1. w = "caller" \/ at'["caller"] = at["caller"]
      BY <2>3 DEF Who
    <3>2. ~Is("watchdog", "resend")
      BY <2>1 DEF CommandInv, Given
    <3>3. at'["watchdog"] \in {next, at["watchdog"]}
      BY <2>3 DEF Who
    <3> QED
      BY <1>1, <1>2, <2>1, <2>3, <3>1, <3>2, <3>3 DEF Waits, Rest, Is
  <2>5. Alone' /\ OnList' /\ ~OnRing'
    BY <1>5, <1>7, <1>9, <2>1 DEF Alone
  <2>6. UNCHANGED <<seq_num, last_rx_seq_num>> /\ node' = "pending"
    BY <1>1, <1>9 DEF numbers
  <2>7. CommandTypes'
    BY <1>1, <1>5, <1>7, <2>1, <2>3, <2>6 DEF CommandInv, CommandTypes, Waits
  <2>8. Given'
    BY <1>1, <2>1, <2>3, <2>4, <2>5, <2>6 DEF Given
  <2>9. Answered'
    <3>1. Open' <=> Open
      BY <1>1, <2>1, <2>6 DEF Open
    <3> QED
      BY <1>1, <2>1, <2>6, <3>1 DEF CommandInv, Answered, Seen
  <2> QED
    BY <2>3, <2>4, <2>5, <2>7, <2>8, <2>9 DEF CommandInv
<1> QED
  BY <1>2, <1>8, <1>9 DEF Frames

LEMMA RetrieveInv ==
  ASSUME CommandInv, NEW w \in {"work", "watchdog"}, retrieve(w)
  PROVE  CommandInv' /\ (Rest' <=> Rest)
<1>1. /\ Goes(w, "pull") /\ at[w] \notin {"resend", "full", "queue"}
      /\ tx # <<>> /\ Head(tx).own # TRUE /\ tx' = Tail(tx)
      /\ UNCHANGED <<node, todo, cmd_list, refused, answers, numbers, shutdown>>
  <2>1. Serving(w) /\ ~Head(tx).own
    BY DEF retrieve
  <2>2. at[w] \notin {"resend", "full", "queue"}
    BY <2>1 DEF Serving, Is
  <2>3. Head(tx).own # TRUE
    BY <2>1
  <2> QED
    BY <2>2, <2>3 DEF retrieve
<1>2. /\ tx \in Seq(Descriptors) /\ InTurn(tx) /\ Once(tx) /\ ListsOnce(cmd_list)
      /\ cmd_list \in Seq(Frames) /\ shutdown \in BOOLEAN
      /\ shutdown = TRUE => Unsent(tx)
  BY DEF CommandInv, CommandTypes, Alone, Given
<1>3. /\ tx' \in Seq(Descriptors) /\ cmd_list' \in Seq(Frames) /\ Alone'
      /\ Head(tx).frame \in Frames
      /\ Head(tx).frame = "command" => Has(tx) /\ ~Has(tx') /\ shutdown = FALSE
      /\ Head(tx).frame = "packet" => (Has(tx') <=> Has(tx))
      /\ shutdown = TRUE => Unsent(tx')
  <2>1. /\ Tail(tx) \in Seq(Descriptors) /\ InTurn(Tail(tx)) /\ Once(Tail(tx))
        /\ Head(tx) \in Descriptors
        /\ Head(tx).frame = "command" => Has(tx) /\ ~Has(Tail(tx))
        /\ Head(tx).frame = "packet" => (Has(Tail(tx)) <=> Has(tx))
        /\ Unsent(tx) => Head(tx).frame = "packet" /\ Unsent(Tail(tx))
    BY <1>1, <1>2, RingShrinks
  <2>2. Alone' /\ cmd_list' \in Seq(Frames)
    BY <1>1, <1>2, <2>1 DEF Alone
  <2>3. Head(tx).frame \in Frames
    BY <2>1 DEF Descriptors
  <2>4. ASSUME Head(tx).frame = "command" PROVE shutdown = FALSE
    <3>1. ~Unsent(tx)
      BY <2>1, <2>4
    <3> QED
      BY <1>2, <3>1
  <2> QED
    BY <1>1, <1>2, <2>1, <2>2, <2>3, <2>4
<1>4. (OnList' <=> OnList) /\ (OnRing <=> Has(tx)) /\ (OnRing' <=> Has(tx'))
  BY <1>1 DEF OnList, OnRing, Has
<1>5. CASE Head(tx).frame = "packet"
  <2>1. UNCHANGED command
    BY <1>5 DEF retrieve, command
  <2>2. (OnRing' <=> OnRing) /\ w \in {"writer", "work", "watchdog"}
    BY <1>3, <1>4, <1>5
  <2> QED
    BY <1>1, <1>3, <1>4, <2>1, <2>2, PacketsOnly
<1>6. CASE Head(tx).frame = "command"
  <2>1. /\ OnRing /\ ~OnRing' /\ shutdown = FALSE
        /\ Waits /\ completed = 0 /\ tcb.sent = FALSE /\ ~Carried
        /\ node = "waiting" \/ (node = "free" /\ tcb.wait = FALSE)
        /\ node # "free" => tcb.wait = TRUE
        /\ Is("caller", "wait")
    <3>1. /\ OnRing /\ ~OnRing' /\ shutdown = FALSE
          /\ Waits /\ completed = 0 /\ tcb.sent = FALSE /\ ~Carried
          /\ node = "waiting" \/ (node = "free" /\ tcb.wait = FALSE)
          /\ node # "free" => tcb.wait = TRUE
      BY <1>3, <1>4, <1>6 DEF CommandInv, Given
    <3> QED
      BY <3>1, CallerWaits DEF CommandInv
  <2>2. tcb' = [tcb EXCEPT !.sent = TRUE]
    BY <1>6 DEF retrieve
  <2>3. /\ tcb' \in Tcbs /\ tcb'.sent = TRUE /\ tcb'.wait = tcb.wait
        /\ tcb'.function = tcb.function /\ tcb'.seq = tcb.seq /\ tcb'.response = tcb.response
    BY <2>2 DEF CommandInv, CommandTypes, Tcbs
  <2>4. completed' = IF tcb.wait = TRUE THEN 0 ELSE 1
    <3>1. tcb.wait \in BOOLEAN
      BY DEF CommandInv, CommandTypes, Tcbs
    <3>2. completed' = IF ~tcb.wait THEN completed + 1 ELSE completed
      BY <1>6 DEF retrieve
    <3> QED
      BY <2>1, <3>1, <3>2
  <2>5. /\ at'["caller"] = at["caller"] /\ at' \in [Who -> Steps]
        /\ refused' \in [Who -> Asides] /\ PutAside' /\ ~Carried'
        /\ ~Is("watchdog", "resend") /\ ~Is("watchdog", "resend")'
    <3>1. /\ CommandTypes /\ PutAside /\ {"caller", "watchdog", w} \subseteq Who
          /\ "pull" \in Steps \ {"full", "queue"}
      BY DEF CommandInv, Who, Steps
    <3>2. /\ at' \in [Who -> Steps] /\ refused' \in [Who -> Asides] /\ PutAside'
          /\ at'[w] = "pull" /\ (\A v \in Who : v # w => at'[v] = at[v])
          /\ Carried' <=> Carried
      BY <1>1, <3>1, EmptyHanded
    <3>3. ~Is("watchdog", "resend")
      BY <2>1 DEF CommandInv, Given
    <3>4. at'["watchdog"] \in {"pull", at["watchdog"]} /\ at'["caller"] = at["caller"]
      BY <3>1, <3>2
    <3> QED
      BY <2>1, <3>2, <3>3, <3>4 DEF Is
  <2>6. CommandTypes'
    BY <1>1, <1>3, <2>3, <2>5 DEF CommandInv, CommandTypes, numbers
  <2>7. Given'
    <3>1. ~TakenOff' /\ Waits'
      BY <2>1, <2>5 DEF TakenOff, Carried, Waits
    <3> QED
      BY <1>1, <1>4, <2>1, <2>3, <2>4, <2>5, <3>1 DEF CommandInv, Given, Is
  <2>8. Answered'
    <3>1. Open' <=> Open
      BY <1>1, <2>1, <2>3, <2>5 DEF Open
    <3>2. OnRing' \/ OnList' \/ Carried' => OnRing \/ OnList \/ Carried
      BY <1>4, <2>1
    <3> QED
      BY <1>1, <2>1, <2>3, <3>1, <3>2 DEF CommandInv, Answered, Seen, numbers
  <2>9. Rest' <=> Rest
    BY <2>5 DEF Rest, Is
  <2> QED
    BY <1>3, <2>5, <2>6, <2>7, <2>8, <2>9 DEF CommandInv
<1> QED
  BY <1>3, <1>5, <1>6 DEF Frames

LEMMA PullInv ==
  ASSUME CommandInv, NEW w \in {"work", "watchdog"}, pull(w)
  PROVE  CommandInv' /\ (Rest' <=> Rest)
<1> DEFINE next == ServeNext(w)
<1>1. at[w] = "pull" /\ UNCHANGED <<todo, answers, numbers, shutdown>>
  BY DEF pull, Is
<1>2. next \in {"rest", "serve"}
  BY DEF ServeNext
<1>3. /\ CommandTypes /\ PutAside /\ Once(tx) /\ InTurn(tx) /\ tx \in Seq(Descriptors)
      /\ cmd_list \in Seq(Frames) /\ ListsOnce(cmd_list) /\ shutdown \in BOOLEAN
      /\ shutdown = TRUE => Unsent(tx)
      /\ OnList <=> Lists(cmd_list)
      /\ OnList' <=> Lists(cmd_list')
      /\ w \in Who /\ at[w] \notin {"resend", "full", "queue"}
      /\ w \in {"writer", "work", "watchdog"}
  BY <1>1 DEF CommandInv, CommandTypes, Alone, Given, OnList, Lists, Who
<1>4. CASE cmd_list = <<>>
  <2>1. Goes(w, next) /\ UNCHANGED <<command, rings, timer>>
    BY <1>4 DEF pull, PendingEmpty
  <2>2. UNCHANGED <<tx, cmd_list, refused>>
    BY <2>1 DEF rings
  <2>3. /\ tx' \in Seq(Descriptors) /\ cmd_list' \in Seq(Frames) /\ Alone'
        /\ (OnRing' <=> OnRing) /\ (OnList' <=> OnList) /\ (shutdown = TRUE => Unsent(tx'))
    BY <1>3, <2>2 DEF CommandInv, Alone, OnRing, OnList
  <2> QED
    BY <1>1, <1>2, <1>3, <2>1, <2>2, <2>3, PacketsOnly
<1>5. CASE cmd_list # <<>>
  <2>1. Transmit(w, Head(cmd_list), next, tcb) /\ cmd_list' = Tail(cmd_list)
    BY <1>5 DEF pull, PendingEmpty
  <2> HIDE DEF next
  <2>2. /\ Tail(cmd_list) \in Seq(Frames) /\ ListsOnce(Tail(cmd_list))
        /\ Head(cmd_list) \in Frames
        /\ Head(cmd_list) = "command" => Lists(cmd_list) /\ ~Lists(Tail(cmd_list))
        /\ Head(cmd_list) = "packet" => (Lists(Tail(cmd_list)) <=> Lists(cmd_list))
    BY <1>3, <1>5, ListShrinks
  <2>3. CASE Head(cmd_list) = "packet"
    <3>1. /\ UNCHANGED command
          /\ tx' \in Seq(Descriptors) /\ Once(tx') /\ InTurn(tx')
          /\ OnRing' <=> OnRing
          /\ shutdown = TRUE => Unsent(tx')
          /\ \E place \in {"rest", "serve", "queue"}, r \in Asides :
               /\ at' = [at EXCEPT ![w] = place] /\ refused' = [refused EXCEPT ![w] = r]
               /\ r.frame # "command" /\ (place = "queue" <=> r.frame # "none")
               /\ place = "queue" => r.next # "wait"
      BY <1>2, <1>3, <2>1, <2>3, PacketTransmitted
    <3>2. PICK place \in {"rest", "serve", "queue"}, r \in Asides :
            /\ at' = [at EXCEPT ![w] = place] /\ refused' = [refused EXCEPT ![w] = r]
            /\ r.frame # "command" /\ (place = "queue" <=> r.frame # "none")
            /\ place = "queue" => r.next # "wait"
      BY <3>1
    <3>3. /\ cmd_list' \in Seq(Frames) /\ Alone' /\ (OnList' <=> OnList)
          /\ ~Is(w, "resend") /\ ~Carries(w)
      BY <1>3, <2>1, <2>2, <2>3, <3>1 DEF Alone, PutAside, Carries, Is
    <3> QED
      BY <1>1, <1>3, <3>1, <3>2, <3>3, PacketsMove
  <2>4. CASE Head(cmd_list) = "command"
    <3>1. node = "pending"
      BY <1>3, <2>2, <2>4 DEF CommandInv, Given
    <3>2. cmd_list' \in Seq(Frames) /\ ListsOnce(cmd_list') /\ ~Lists(cmd_list')
      BY <2>1, <2>2, <2>4
    <3> QED
      BY <1>1, <1>2, <1>3, <2>1, <2>4, <3>1, <3>2, CommandMoves
  <2> QED
    BY <2>2, <2>3, <2>4 DEF Frames
<1> QED
  BY <1>4, <1>5

(* The watchdog: it begins, finds nothing overdue, or a command overdue. *)
LEMMA LooksInv ==
  ASSUME CommandInv, watchdog_fires \/ walk_nothing
  PROVE  CommandInv' /\ (Rest' <=> Rest)
<1>1. PICK next \in {"rest", "serve"} : Goes("watchdog", next)
  BY DEF watchdog_fires, walk_nothing
<1>2. /\ UNCHANGED <<command, todo, rings, answers, numbers, shutdown>>
      /\ at["watchdog"] \notin {"resend", "full", "queue"}
  BY DEF watchdog_fires, walk_nothing, Walks, Is
<1>3. UNCHANGED <<tx, cmd_list, refused>>
  BY <1>2 DEF rings
<1>4. /\ tx' \in Seq(Descriptors) /\ cmd_list' \in Seq(Frames) /\ Alone'
      /\ (OnRing' <=> OnRing) /\ (OnList' <=> OnList) /\ (shutdown = TRUE => Unsent(tx'))
  BY <1>3 DEF CommandInv, CommandTypes, Alone, Given, OnRing, OnList
<1> QED
  BY <1>1, <1>2, <1>3, <1>4, PacketsOnly

LEMMA ResendInv == ASSUME CommandInv, resend PROVE CommandInv' /\ (Rest' <=> Rest)
<1>1. /\ node = "retry" /\ at["watchdog"] = "resend"
      /\ UNCHANGED <<todo, cmd_list, answers, numbers, shutdown>>
      /\ Transmit("watchdog", "command", "rest", tcb)
  BY DEF resend, CommandInv, Given, Is
<1>2. shutdown = FALSE /\ ~OnList
  BY <1>1 DEF CommandInv, CommandTypes, Given
<1>3. cmd_list' \in Seq(Frames) /\ ListsOnce(cmd_list') /\ ~Lists(cmd_list')
  BY <1>1, <1>2 DEF CommandInv, CommandTypes, Alone, OnList, Lists
<1> QED
  BY <1>1, <1>3, CommandMoves

(* What is overdue is on the list of those that wait, and the ring has     *)
(* been served.                                                            *)
LEMMA OverdueFacts ==
  ASSUME CommandInv, Walks, Overdue
  PROVE  /\ node = "waiting" /\ shutdown = FALSE /\ completed = 0 /\ Waits
         /\ tcb.wait = TRUE /\ ~OnList /\ (OnRing \/ Carried <=> tcb.sent = FALSE)
         /\ (OnRing => ~Carried)
         /\ tcb.sent \in BOOLEAN /\ Unsent(tx)
         /\ at["watchdog"] = "serve"
         /\ TakenOff => FALSE
<1>1. node = "waiting" /\ shutdown = FALSE
  BY DEF Overdue, CommandInv, CommandTypes, Given
<1>2. Unsent(tx)
  <2>1. tx \in Seq(Descriptors) /\ DOMAIN tx = 1 .. Len(tx) /\ Len(tx) \in Nat
    BY DEF CommandInv, CommandTypes
  <2>2. PICK n \in 0 .. Len(tx) : \A i \in DOMAIN tx : tx[i].own = TRUE <=> i > n
    BY DEF CommandInv, Alone, InTurn
  <2>3. CASE tx = <<>>
    BY <2>3 DEF Unsent
  <2>4. CASE tx # <<>>
    <3>1. Head(tx) = tx[1] /\ 1 \in DOMAIN tx
      BY <2>1, <2>4, HeadTailProperties
    <3>2. tx[1].own \in BOOLEAN /\ tx[1].own
      <4>1. tx[1] \in Descriptors
        BY <2>1, <3>1, ElementOfSeq
      <4>2. tx[1].own \in BOOLEAN
        BY <4>1 DEF Descriptors
      <4>3. Head(tx).own
        BY <2>4 DEF Walks, RingServed
      <4> QED
        BY <3>1, <4>2, <4>3
    <3>3. tx[1].own = TRUE
      BY <3>2
    <3>4. ~(n >= 1)
      BY <2>2, <3>1, <3>3
    <3>5. n = 0
      BY <2>2, <3>4
    <3> QED
      BY <2>1, <2>2, <3>5 DEF Unsent
  <2> QED
    BY <2>3, <2>4
<1>3. tcb.sent \in BOOLEAN
  BY DEF CommandInv, CommandTypes, Tcbs
<1>4. at["watchdog"] = "serve"
  BY DEF Walks, Is
<1> QED
  BY <1>1, <1>2, <1>3, <1>4 DEF CommandInv, Given

(* The watchdog goes on, and has nothing in hand. *)
LEMMA WatchdogGoes ==
  ASSUME CommandTypes, PutAside, at["watchdog"] = "serve",
         NEW place \in {"rest", "resend"}, Goes("watchdog", place), UNCHANGED refused
  PROVE  /\ at' \in [Who -> Steps] /\ refused' \in [Who -> Asides] /\ PutAside'
         /\ at'["watchdog"] = place /\ at'["caller"] = at["caller"]
         /\ (Waits' <=> Waits) /\ (Carried' <=> Carried) /\ (TakenOff' <=> TakenOff)
<1>1. {"watchdog", "caller"} \subseteq Who /\ place \in Steps \ {"full", "queue"}
  BY DEF Who, Steps
<1>2. /\ at' \in [Who -> Steps] /\ refused' \in [Who -> Asides] /\ PutAside'
      /\ at'["watchdog"] = place /\ (\A v \in Who : v # "watchdog" => at'[v] = at[v])
      /\ Carried' <=> Carried
      /\ TakenOff' <=> TakenOff
  BY <1>1, EmptyHanded
<1> QED
  BY <1>1, <1>2 DEF Waits

LEMMA WalkWaitInv == ASSUME CommandInv, walk_wait PROVE CommandInv' /\ (Rest' <=> Rest)
<1>1. /\ Walks /\ Overdue /\ tcb' = [tcb EXCEPT !.retries = @ + 1] /\ Goes("watchdog", "rest")
      /\ UNCHANGED <<node, completed, todo, rings, answers, numbers, shutdown>>
  BY DEF walk_wait
<1>2. /\ tcb' \in Tcbs /\ tcb'.sent = tcb.sent /\ tcb'.wait = tcb.wait
      /\ tcb'.function = tcb.function /\ tcb'.seq = tcb.seq /\ tcb'.response = tcb.response
  <2>1. tcb \in Tcbs /\ tcb.retries + 1 \in Nat
    BY DEF CommandInv, CommandTypes, Tcbs
  <2> QED
    BY <1>1, <2>1 DEF Tcbs
<1>4. UNCHANGED <<tx, cmd_list, refused, seq_num, last_rx_seq_num>>
  BY <1>1 DEF rings, numbers
<1>3. /\ at' \in [Who -> Steps] /\ refused' \in [Who -> Asides] /\ PutAside'
      /\ at'["watchdog"] = "rest" /\ at'["caller"] = at["caller"]
      /\ (Waits' <=> Waits) /\ (Carried' <=> Carried) /\ (TakenOff' <=> TakenOff)
  BY <1>1, <1>4, OverdueFacts, WatchdogGoes DEF CommandInv
<1>5. CommandTypes'
  BY <1>1, <1>2, <1>3, <1>4 DEF CommandInv, CommandTypes
<1>6. Alone' /\ (OnRing' <=> OnRing) /\ (OnList' <=> OnList) /\ (Unsent(tx)' <=> Unsent(tx))
  BY <1>4 DEF CommandInv, Alone, OnRing, OnList, Unsent
<1>7. Given'
  BY <1>1, <1>2, <1>3, <1>6, OverdueFacts DEF CommandInv, Given, Is
<1>8. Answered'
  <2>1. Open' <=> Open
    BY <1>1, <1>2, <1>3 DEF Open
  <2> QED
    BY <1>1, <1>2, <1>3, <1>4, <1>6, <2>1 DEF CommandInv, Answered, Seen
<1>9. Rest' <=> Rest
  BY <1>3 DEF Rest, Is
<1> QED
  BY <1>3, <1>5, <1>6, <1>7, <1>8, <1>9 DEF CommandInv

LEMMA WalkRetryInv == ASSUME CommandInv, walk_retry PROVE CommandInv' /\ (Rest' <=> Rest)
<1>1. /\ Walks /\ Overdue /\ Goes("watchdog", "resend") /\ node' = "retry"
      /\ tcb' = [tcb EXCEPT !.retries = @ + 1, !.sent = FALSE]
      /\ UNCHANGED <<completed, todo, rings, answers, numbers, shutdown>>
  BY DEF walk_retry
<1>2. /\ tcb' \in Tcbs /\ tcb'.sent = FALSE /\ tcb'.wait = tcb.wait
      /\ tcb'.function = tcb.function /\ tcb'.seq = tcb.seq /\ tcb'.response = tcb.response
  <2>1. tcb \in Tcbs /\ tcb.retries + 1 \in Nat
    BY DEF CommandInv, CommandTypes, Tcbs
  <2> QED
    BY <1>1, <2>1 DEF Tcbs
<1>4. UNCHANGED <<tx, cmd_list, refused, seq_num, last_rx_seq_num>>
  BY <1>1 DEF rings, numbers
<1>3. /\ at' \in [Who -> Steps] /\ refused' \in [Who -> Asides] /\ PutAside'
      /\ at'["watchdog"] = "resend" /\ at'["caller"] = at["caller"]
      /\ (Waits' <=> Waits) /\ (Carried' <=> Carried) /\ (TakenOff' <=> TakenOff)
  BY <1>1, <1>4, OverdueFacts, WatchdogGoes DEF CommandInv
<1>5. CommandTypes'
  BY <1>1, <1>2, <1>3, <1>4 DEF CommandInv, CommandTypes
<1>6. Alone' /\ ~OnRing' /\ ~OnList' /\ ~Carried'
  <2>1. tcb.sent = TRUE
    <3>1. tcb.sent
      BY DEF walk_retry
    <3> QED
      BY <1>1, <3>1, OverdueFacts
  <2>2. ~OnRing /\ ~OnList /\ ~Carried
    BY <1>1, <2>1, OverdueFacts
  <2> QED
    BY <1>3, <1>4, <2>2 DEF CommandInv, Alone, OnRing, OnList
<1>7. Given'
  <2>1. completed = 0 /\ tcb.wait = TRUE /\ shutdown = FALSE /\ Waits
    BY <1>1, OverdueFacts
  <2> QED
    BY <1>1, <1>2, <1>3, <1>6, <2>1, OverdueFacts DEF Given, Is
<1>8. Answered'
  <2>1. Open /\ Open'
    BY <1>1, <1>2, OverdueFacts DEF Open
  <2> QED
    BY <1>1, <1>2, <1>4, <1>6, <2>1 DEF CommandInv, Answered, Seen
<1>9. Rest' <=> Rest
  BY <1>3 DEF Rest, Is
<1> QED
  BY <1>3, <1>5, <1>6, <1>7, <1>8, <1>9 DEF CommandInv

(* A command is given up when no answer to it is under way any more, and   *)
(* nobody has its frame in hand.                                           *)
LEMMA WalkGiveUpInv ==
  ASSUME CommandInv, LateAnswers = FALSE, walk_give_up, stalled' = FALSE
  PROVE  CommandInv' /\ (Rest' <=> Rest)
<1>1. /\ Walks /\ Overdue /\ Goes("watchdog", "rest") /\ node' = "free"
      /\ answers = <<>> /\ completed' = completed + 1
      /\ tcb' = [tcb EXCEPT !.timeout = TRUE, !.retries = @ + 1]
      /\ UNCHANGED <<todo, rings, answers, numbers>>
  BY DEF walk_give_up
<1>2. /\ tcb' \in Tcbs /\ tcb'.function = tcb.function /\ tcb'.response = tcb.response
  <2>1. tcb \in Tcbs /\ tcb.retries + 1 \in Nat
    BY DEF CommandInv, CommandTypes, Tcbs
  <2> QED
    BY <1>1, <2>1 DEF Tcbs
<1>4. UNCHANGED <<tx, cmd_list, refused, seq_num, last_rx_seq_num>>
  BY <1>1 DEF rings, numbers
<1>3. /\ at' \in [Who -> Steps] /\ refused' \in [Who -> Asides] /\ PutAside'
      /\ at'["watchdog"] = "rest" /\ at'["caller"] = at["caller"]
      /\ (Waits' <=> Waits) /\ (Carried' <=> Carried) /\ (TakenOff' <=> TakenOff)
  BY <1>1, <1>4, OverdueFacts, WatchdogGoes DEF CommandInv
<1>5. shutdown' \in BOOLEAN /\ (shutdown' = FALSE => tcb.sent = TRUE)
  <2>1. shutdown' = (shutdown \/ ~tcb.sent)
    BY DEF walk_give_up
  <2>2. tcb.sent \in BOOLEAN /\ shutdown \in BOOLEAN
    BY DEF CommandInv, CommandTypes, Tcbs
  <2> QED
    BY <2>1, <2>2
<1>6. CommandTypes'
  BY <1>1, <1>2, <1>3, <1>4, <1>5 DEF CommandInv, CommandTypes
<1>10. ~Carried /\ ~Carried' /\ ~TakenOff'
  <2>1. stalled' = (stalled \/ \E w \in Who : refused[w].frame = "command")
    BY DEF walk_give_up
  <2>2. ~Carried
    BY <2>1 DEF Carried, Carries
  <2> QED
    BY <1>3, <2>2 DEF Carried, TakenOff
<1>11. Is("caller", "wait")
  BY <1>1, <1>10, OverdueFacts, CallerWaits DEF CommandInv
<1>7. Alone' /\ ~OnList' /\ Unsent(tx)' /\ (shutdown' = FALSE => ~OnRing')
  BY <1>1, <1>4, <1>5, OverdueFacts DEF CommandInv, Alone, OnRing, OnList, Unsent
<1>8. Given'
  BY <1>1, <1>3, <1>5, <1>7, <1>10, <1>11, OverdueFacts DEF Given, Is
<1>9. Answered'
  <2>1. DOMAIN answers' = {}
    BY <1>1
  <2> QED
    BY <1>1, <1>2, <1>7, <1>10, <2>1 DEF CommandInv, Answered, Seen
<1>12. Rest' <=> Rest
  BY <1>3 DEF Rest, Is
<1> QED
  BY <1>3, <1>6, <1>7, <1>8, <1>9, <1>12 DEF CommandInv
-----------------------------------------------------------------------------
(* The board sends the oldest frame that it has not sent. *)
LEMMA BoardSends ==
  ASSUME CommandInv, send_frame
  PROVE  /\ tx' \in Seq(Descriptors) /\ Alone' /\ (OnRing' <=> OnRing)
         /\ UNCHANGED answers \/ (/\ OnRing
                                  /\ answers' = Append(answers, [function |-> tcb.function,
                                                         seq |-> tcb.seq, stale |-> FALSE]))
<1> DEFINE P(k) == tx[k].own /\ \A j \in 1 .. k - 1 : ~tx[j].own
           i == CHOOSE k \in DOMAIN tx : P(k)
<1>1. /\ tx \in Seq(Descriptors) /\ DOMAIN tx = 1 .. Len(tx) /\ Len(tx) \in Nat
      /\ \A k \in DOMAIN tx : tx[k] \in Descriptors /\ tx[k].own \in BOOLEAN
  <2>1. tx \in Seq(Descriptors) /\ DOMAIN tx = 1 .. Len(tx) /\ Len(tx) \in Nat
    BY DEF CommandInv, CommandTypes
  <2>2. \A k \in DOMAIN tx : tx[k] \in Descriptors
    BY <2>1, ElementOfSeq
  <2> QED
    BY <2>1, <2>2 DEF Descriptors
<1>2. PICK n \in 0 .. Len(tx) : \A k \in DOMAIN tx : tx[k].own = TRUE <=> k > n
  BY DEF CommandInv, Alone, InTurn
<1>3. \A k \in DOMAIN tx : tx[k].own <=> k > n
  BY <1>1, <1>2
<1>4. n + 1 \in DOMAIN tx /\ P(n + 1)
  <2>1. PICK k \in DOMAIN tx : tx[k].own
    BY DEF send_frame
  <2>2. n + 1 \in DOMAIN tx
    BY <1>1, <1>3, <2>1
  <2> QED
    BY <1>1, <1>3, <2>2
<1>5. i \in DOMAIN tx /\ P(i)
  BY <1>4
<1>6. tx' = [tx EXCEPT ![i].own = FALSE]
  BY DEF send_frame
<1>7. \/ UNCHANGED answers
      \/ /\ tx[i].frame = "command"
         /\ answers' = Append(answers, [function |-> tcb.function, seq |-> tcb.seq, stale |-> FALSE])
  BY DEF send_frame
<1>8. i = n + 1
  <2>1. i > n
    BY <1>3, <1>5
  <2>2. ~(n + 1 \in 1 .. i - 1)
    BY <1>3, <1>4, <1>5
  <2> QED
    BY <1>1, <1>2, <1>5, <2>1, <2>2
<1> HIDE DEF P, i
<1>9. /\ tx' \in Seq(Descriptors) /\ DOMAIN tx' = DOMAIN tx /\ Len(tx') = Len(tx)
      /\ \A k \in DOMAIN tx : tx'[k].frame = tx[k].frame
      /\ tx'[i].own = FALSE
      /\ \A k \in DOMAIN tx : k # i => tx'[k].own = tx[k].own
  <2>1. [tx[i] EXCEPT !.own = FALSE] \in Descriptors
    BY <1>1, <1>5 DEF Descriptors
  <2>2. /\ [tx[i] EXCEPT !.own = FALSE].frame = tx[i].frame
        /\ [tx[i] EXCEPT !.own = FALSE].own = FALSE
    BY <1>1, <1>5 DEF Descriptors
  <2>3. tx' = [tx EXCEPT ![i] = [tx[i] EXCEPT !.own = FALSE]]
    BY <1>6
  <2>4. tx' \in Seq(Descriptors) /\ Len(tx') = Len(tx) /\ DOMAIN tx' = DOMAIN tx
    BY <1>1, <1>5, <2>1, <2>3, ExceptSeq
  <2>5. /\ tx'[i] = [tx[i] EXCEPT !.own = FALSE]
        /\ \A k \in DOMAIN tx : k # i => tx'[k] = tx[k]
    BY <1>1, <1>5, <2>3
  <2>6. tx'[i].own = FALSE /\ tx'[i].frame = tx[i].frame
    BY <2>2, <2>5
  <2>7. \A k \in DOMAIN tx : tx'[k].frame = tx[k].frame
    BY <2>5, <2>6
  <2> QED
    BY <2>4, <2>5, <2>6, <2>7
<1>10. InTurn(tx')
  <2>1. n + 1 \in 0 .. Len(tx')
    BY <1>1, <1>4, <1>9
  <2>2. ASSUME NEW k \in DOMAIN tx' PROVE tx'[k].own = TRUE <=> k > n + 1
    <3>1. CASE k = i
      <4>1. ~(k > n + 1) /\ tx'[k].own = FALSE
        BY <1>2, <1>8, <1>9, <3>1
      <4> QED
        BY <4>1
    <3>2. CASE k # i
      <4>1. tx'[k].own = tx[k].own /\ k \in DOMAIN tx
        BY <1>9, <3>2
      <4>2. tx[k].own = TRUE <=> k > n
        BY <1>2, <4>1
      <4> QED
        BY <1>1, <1>2, <1>8, <3>2, <4>1, <4>2
    <3> QED
      BY <3>1, <3>2
  <2> QED
    BY <2>1, <2>2 DEF InTurn
<1>11. Once(tx') /\ (OnRing' <=> OnRing)
  BY <1>9 DEF CommandInv, Alone, Once, OnRing
<1>12. UNCHANGED cmd_list
  BY DEF send_frame
<1>13. tx[i].frame = "command" => OnRing
  BY <1>5 DEF OnRing
<1> QED
  BY <1>7, <1>9, <1>10, <1>11, <1>12, <1>13 DEF CommandInv, Alone

LEMMA SendFrameInv == ASSUME CommandInv, send_frame PROVE CommandInv' /\ (Rest' <=> Rest)
<1>1. UNCHANGED <<command, todo, cmd_list, refused, at, numbers, shutdown>> /\ shutdown = FALSE
  <2>1. ~shutdown /\ shutdown \in BOOLEAN
    BY DEF send_frame, CommandInv, CommandTypes
  <2> QED
    BY <2>1 DEF send_frame
<1>2. UNCHANGED <<tcb, node, completed, seq_num, last_rx_seq_num>>
  BY <1>1 DEF command, numbers
<1>3. /\ tx' \in Seq(Descriptors) /\ Alone' /\ (OnRing' <=> OnRing)
      /\ OnList' <=> OnList
      /\ PutAside' /\ (Carried' <=> Carried) /\ (TakenOff' <=> TakenOff) /\ (Waits' <=> Waits)
  BY <1>1, BoardSends, SameHands DEF CommandInv, OnList
<1>7. Open' <=> Open
  BY <1>2, <1>3 DEF Open
<1>4. Given'
  BY <1>1, <1>2, <1>3 DEF CommandInv, Given, Is
<1>5. answers' \in Seq(Answers) /\ Answered'
  <2>1. CASE UNCHANGED answers
    BY <1>1, <1>2, <1>3, <1>7, <2>1 DEF CommandInv, CommandTypes, Answered, Seen
  <2>2. CASE OnRing /\ answers' = Append(answers, [function |-> tcb.function, seq |-> tcb.seq,
                                                   stale |-> FALSE])
    <3> DEFINE a == [function |-> tcb.function, seq |-> tcb.seq, stale |-> FALSE]
    <3>1. /\ a \in Answers /\ a.stale = FALSE
          /\ a.function = tcb.function /\ a.seq = tcb.seq
      BY DEF CommandInv, CommandTypes, Tcbs, Answers
    <3> HIDE DEF a
    <3>2. /\ answers' \in Seq(Answers) /\ DOMAIN answers = 1 .. Len(answers)
          /\ Len(answers) \in Nat
          /\ DOMAIN answers' = 1 .. Len(answers) + 1
          /\ answers'[Len(answers) + 1] = a
          /\ \A i \in DOMAIN answers : answers'[i] = answers[i]
      BY <2>2, <3>1, AppendProperties DEF CommandInv, CommandTypes, a
    <3>3. \A i \in DOMAIN answers' : i \in DOMAIN answers \/ i = Len(answers) + 1
      BY <3>2
    <3>4. ~Open => Seen(a)
      BY <1>1, <2>2, <3>1 DEF CommandInv, Answered, Seen
    <3>5. \A i \in DOMAIN answers' : answers'[i].stale = TRUE \/ ~Open' => Seen(answers[i])'
      <4>1. \A i \in DOMAIN answers' :
              answers'[i].stale = TRUE \/ ~Open => Seen(answers'[i])
        BY <3>1, <3>2, <3>3, <3>4 DEF CommandInv, Answered
      <4> QED
        BY <1>2, <1>7, <4>1 DEF Seen
    <3>6. Open' =>
            \A i \in DOMAIN answers' :
              answers'[i].stale = FALSE =>
                answers'[i].function = tcb'.function /\ answers'[i].seq = tcb'.seq
      BY <1>2, <1>7, <3>1, <3>2, <3>3 DEF CommandInv, Answered
    <3>7. ASSUME NEW i \in DOMAIN answers', NEW j \in DOMAIN answers', i < j,
                 answers'[j].stale = TRUE
          PROVE  answers'[i].stale = TRUE
      <4>1. j # Len(answers) + 1
        BY <3>1, <3>2, <3>7
      <4>2. i \in DOMAIN answers /\ j \in DOMAIN answers
        BY <3>2, <3>7, <4>1
      <4> QED
        BY <3>2, <3>7, <4>2 DEF CommandInv, Answered
    <3>8. /\ shutdown' = FALSE /\ ~Open' /\ (OnRing' \/ OnList' \/ Carried') => Seen(tcb)'
          /\ tcb'.function \in Supervisor => tcb'.response # "stale"
      BY <1>1, <1>2, <1>3, <1>7 DEF CommandInv, Answered, Seen
    <3> QED
      BY <3>2, <3>5, <3>6, <3>7, <3>8 DEF Answered
  <2> QED
    BY <2>1, <2>2, BoardSends
<1>6. CommandTypes'
  BY <1>1, <1>2, <1>3, <1>5 DEF CommandInv, CommandTypes
<1> QED
  BY <1>1, <1>3, <1>4, <1>5, <1>6 DEF CommandInv, Rest, Is
(* An answer is received: to an earlier supervisor's command only as a     *)
(* repetition.                                                             *)
LEMMA ReceiveInv == ASSUME CommandInv, receive PROVE CommandInv' /\ (Rest' <=> Rest)
<1> DEFINE a == Head(answers)
           handled == ~Repeated(a) /\ node = "waiting" /\ tcb.function = a.function
<1>1. /\ answers # <<>> /\ answers' = Tail(answers)
      /\ last_rx_seq_num' =
           IF ~Repeated(a) /\ a.function \in Supervisor THEN a.seq ELSE last_rx_seq_num
      /\ IF handled
           THEN /\ tcb' = [tcb EXCEPT !.wait = FALSE,
                                      !.response = IF a.stale THEN "stale" ELSE "own"]
                /\ node' = "free"
                /\ completed' = IF tcb.sent THEN completed + 1 ELSE completed
           ELSE UNCHANGED command
      /\ UNCHANGED <<todo, at, rings, timer, seq_num, shutdown>>
  BY DEF receive
<1>2. /\ a = answers[1] /\ a \in Answers /\ a.stale \in BOOLEAN
      /\ 1 \in DOMAIN answers /\ DOMAIN answers = 1 .. Len(answers) /\ Len(answers) \in Nat
      /\ answers' \in Seq(Answers) /\ DOMAIN answers' = 1 .. Len(answers) - 1
      /\ \A i \in DOMAIN answers' : i + 1 \in DOMAIN answers /\ answers'[i] = answers[i + 1]
  <2>1. answers \in Seq(Answers)
    BY DEF CommandInv, CommandTypes
  <2>2. /\ a = answers[1] /\ DOMAIN answers = 1 .. Len(answers) /\ Len(answers) \in Nat
        /\ 1 \in DOMAIN answers
        /\ answers' \in Seq(Answers) /\ DOMAIN answers' = 1 .. Len(answers) - 1
        /\ \A i \in 1 .. Len(answers) - 1 : answers'[i] = answers[i + 1]
    BY <1>1, <2>1, HeadTailProperties
  <2>3. a \in Answers
    BY <2>1, <2>2, ElementOfSeq
  <2>4. a.stale \in BOOLEAN
    BY <2>3 DEF Answers
  <2> QED
    BY <2>2, <2>3, <2>4
<1> HIDE DEF a
<1>3. UNCHANGED <<tx, cmd_list, refused>> /\ shutdown \in BOOLEAN
  BY <1>1 DEF rings, CommandInv, CommandTypes
<1>4. /\ Alone' /\ (OnRing' <=> OnRing) /\ (OnList' <=> OnList) /\ (Unsent(tx)' <=> Unsent(tx))
      /\ PutAside' /\ (Carried' <=> Carried) /\ (TakenOff' <=> TakenOff) /\ (Waits' <=> Waits)
  BY <1>1, <1>3, SameHands DEF CommandInv, Alone, OnRing, OnList, Unsent
<1>5. \A i, j \in DOMAIN answers' :
        i < j /\ answers'[j].stale = TRUE => answers'[i].stale = TRUE
  <2> SUFFICES ASSUME NEW i \in DOMAIN answers', NEW j \in DOMAIN answers',
                      i < j, answers'[j].stale = TRUE
               PROVE  answers'[i].stale = TRUE
    OBVIOUS
  <2>1. /\ i + 1 \in DOMAIN answers /\ j + 1 \in DOMAIN answers
        /\ answers'[i] = answers[i + 1] /\ answers'[j] = answers[j + 1]
        /\ i + 1 < j + 1
    BY <1>2
  <2> QED
    BY <2>1 DEF CommandInv, Answered
<1>6. a.stale = FALSE => \A i \in DOMAIN answers' : answers'[i].stale = FALSE
  <2> SUFFICES ASSUME a.stale = FALSE, NEW i \in DOMAIN answers'
               PROVE  answers'[i].stale = FALSE
    OBVIOUS
  <2>1. /\ i + 1 \in DOMAIN answers /\ 1 < i + 1 /\ answers'[i] = answers[i + 1]
    BY <1>2
  <2>2. answers[i + 1].stale # TRUE
    BY <1>2, <2>1 DEF CommandInv, Answered
  <2>3. answers[i + 1] \in Answers
    BY <2>1, ElementOfSeq DEF CommandInv, CommandTypes
  <2>4. answers[i + 1].stale \in BOOLEAN
    BY <2>3 DEF Answers
  <2> QED
    BY <2>1, <2>2, <2>4
(* Only an answer to the command under way changes last_rx_seq_num. *)
<1>7. CASE last_rx_seq_num' = last_rx_seq_num /\ ~handled
  <2>1. UNCHANGED <<tcb, node, completed>>
    BY <1>1, <1>7 DEF command
  <2>2. CommandTypes'
    BY <1>1, <1>2, <1>3, <1>7, <2>1 DEF CommandInv, CommandTypes
  <2>3. Given'
    BY <1>1, <1>4, <2>1 DEF CommandInv, Given, Is
  <2>4. Answered'
    <3>0. Open' <=> Open
      BY <1>4, <2>1 DEF Open
    <3>1. \A i \in DOMAIN answers' :
            answers'[i].stale = TRUE \/ ~Open => Seen(answers'[i])
      BY <1>2 DEF CommandInv, Answered
    <3>2. \A i \in DOMAIN answers' :
            answers'[i].stale = TRUE \/ ~Open' => Seen(answers[i])'
      BY <1>7, <3>0, <3>1 DEF Seen
    <3>3. Open' =>
            \A i \in DOMAIN answers' :
              answers'[i].stale = FALSE =>
                answers'[i].function = tcb'.function /\ answers'[i].seq = tcb'.seq
      BY <1>2, <2>1, <3>0 DEF CommandInv, Answered
    <3>4. /\ shutdown' = FALSE /\ ~Open' /\ (OnRing' \/ OnList' \/ Carried') => Seen(tcb)'
          /\ tcb'.function \in Supervisor => tcb'.response # "stale"
      BY <1>1, <1>4, <1>7, <2>1, <3>0 DEF CommandInv, Answered, Seen
    <3> QED
      BY <1>5, <3>2, <3>3, <3>4 DEF Answered
  <2> QED
    BY <1>1, <1>4, <2>2, <2>3, <2>4 DEF CommandInv, Rest, Is
<1>8. CASE last_rx_seq_num' # last_rx_seq_num /\ ~handled
  <2>1. UNCHANGED <<tcb, node, completed>>
    BY <1>1, <1>8 DEF command
  <2>2. a.function \in Supervisor /\ ~Seen(a) /\ last_rx_seq_num' = a.seq
    BY <1>1, <1>8 DEF Repeated, Seen
  <2>3. a.stale = FALSE /\ Open
    BY <1>2, <2>2 DEF CommandInv, Answered
  <2>4. /\ a.function = tcb.function /\ a.seq = tcb.seq
    BY <1>2, <2>3 DEF CommandInv, Answered
  <2>5. CommandTypes'
    BY <1>1, <1>2, <1>3, <2>1, <2>2 DEF CommandInv, CommandTypes, Answers
  <2>6. Given'
    BY <1>1, <1>4, <2>1 DEF CommandInv, Given, Is
  <2>7. Answered'
    <3>1. \A i \in DOMAIN answers' :
            answers'[i].function = tcb.function /\ answers'[i].seq = tcb.seq
      BY <1>2, <1>6, <2>3 DEF CommandInv, Answered
    <3>2. \A i \in DOMAIN answers' : Seen(answers[i])'
      BY <2>2, <2>4, <3>1 DEF Seen
    <3>3. Open' /\ (tcb'.function \in Supervisor => tcb'.response # "stale")
      BY <1>4, <2>1, <2>3 DEF CommandInv, Answered, Open
    <3> QED
      BY <1>5, <2>1, <3>1, <3>2, <3>3 DEF Answered
  <2> QED
    BY <1>1, <1>4, <2>5, <2>6, <2>7 DEF CommandInv, Rest, Is
<1>9. CASE handled
  <2>1. /\ ~Repeated(a) /\ node = "waiting" /\ tcb.function = a.function
        /\ shutdown = FALSE /\ completed = 0 /\ Waits /\ ~OnList
        /\ OnRing \/ Carried <=> tcb.sent = FALSE
        /\ (OnRing => ~Carried) /\ ~TakenOff
        /\ ~Is("watchdog", "resend") /\ tcb.wait = TRUE /\ Open
    BY <1>3, <1>9 DEF CommandInv, Given, Open
  <2> DEFINE response == IF a.stale THEN "stale" ELSE "own"
  <2>2. /\ tcb' = [tcb EXCEPT !.wait = FALSE, !.response = response]
        /\ node' = "free"
        /\ completed' = IF tcb.sent THEN completed + 1 ELSE completed
    BY <1>1, <1>9
  <2>3. a.stale = TRUE => a.function \notin Supervisor
    BY <1>2, <2>1 DEF CommandInv, Answered, Seen, Repeated
  <2>4. response \in {"none", "own", "stale"} /\ (response = "stale" => a.stale = TRUE)
    BY <1>2
  <2> HIDE DEF response
  <2>5. /\ tcb' \in Tcbs /\ tcb'.wait = FALSE /\ tcb'.response = response
        /\ tcb'.sent = tcb.sent /\ tcb'.function = tcb.function /\ tcb'.seq = tcb.seq
        /\ tcb.sent \in BOOLEAN
    BY <2>2, <2>4 DEF CommandInv, CommandTypes, Tcbs
  <2>6. completed' = IF tcb.sent = TRUE THEN 1 ELSE 0
    BY <2>1, <2>2, <2>5
  <2>7. last_rx_seq_num' \in Int
    BY <1>1, <1>2 DEF CommandInv, CommandTypes, Answers
  <2>8. CommandTypes'
    BY <1>1, <1>2, <1>3, <2>2, <2>5, <2>7 DEF CommandInv, CommandTypes
  <2>11. ~Carried => Is("caller", "wait") /\ Is("caller", "wait")'
    BY <1>1, <2>1, CallerWaits DEF CommandInv, Is
  <2>9. Given'
    BY <1>1, <1>4, <2>1, <2>2, <2>5, <2>6, <2>11 DEF Given, Is
  <2>12. ~Open'
    BY <2>5 DEF Open
  <2>10. Answered'
    <3>1. CASE a.function \in Supervisor
      <4>1. last_rx_seq_num' = a.seq /\ a.stale = FALSE
        BY <1>1, <1>2, <2>1, <2>3, <3>1
      <4>2. a.seq = tcb.seq
        BY <1>2, <2>1, <4>1 DEF CommandInv, Answered
      <4>3. \A i \in DOMAIN answers' :
              answers'[i].function = tcb.function /\ answers'[i].seq = tcb.seq
        BY <1>2, <1>6, <2>1, <4>1 DEF CommandInv, Answered
      <4>4. (\A i \in DOMAIN answers' : Seen(answers[i])') /\ Seen(tcb)'
        BY <2>5, <4>1, <4>2, <4>3 DEF Seen
      <4> QED
        BY <1>5, <2>2, <2>3, <2>4, <2>5, <2>12, <4>1, <4>4 DEF Answered
    <3>2. CASE a.function \notin Supervisor
      <4>1. last_rx_seq_num' = last_rx_seq_num
        BY <1>1, <3>2
      <4>2. \A i \in DOMAIN answers' : Seen(answers'[i])
        <5> SUFFICES ASSUME NEW i \in DOMAIN answers' PROVE Seen(answers'[i])
          OBVIOUS
        <5>1. /\ i + 1 \in DOMAIN answers /\ answers'[i] = answers[i + 1]
              /\ answers[i + 1].stale \in BOOLEAN
          <6>1. i + 1 \in DOMAIN answers /\ answers'[i] = answers[i + 1]
            BY <1>2
          <6>2. answers[i + 1] \in Answers
            BY <6>1, ElementOfSeq DEF CommandInv, CommandTypes
          <6> QED
            BY <6>1, <6>2 DEF Answers
        <5>2. CASE answers[i + 1].stale = TRUE
          BY <5>1, <5>2 DEF CommandInv, Answered
        <5>3. CASE answers[i + 1].stale = FALSE
          <6>1. answers[i + 1].function = a.function
            BY <2>1, <5>1, <5>3 DEF CommandInv, Answered
          <6> QED
            BY <3>2, <5>1, <6>1 DEF Seen
        <5> QED
          BY <5>1, <5>2, <5>3
      <4>3. (\A i \in DOMAIN answers' : Seen(answers[i])') /\ Seen(tcb)'
        BY <2>1, <2>5, <3>2, <4>1, <4>2 DEF Seen
      <4> QED
        BY <1>5, <2>1, <2>2, <2>5, <2>12, <3>2, <4>3 DEF Answered
    <3> QED
      BY <3>1, <3>2
  <2> QED
    BY <1>1, <1>4, <2>8, <2>9, <2>10 DEF CommandInv, Rest, Is
<1> QED
  BY <1>7, <1>8, <1>9
-----------------------------------------------------------------------------
(* chansem is held as long as the caller is in a row of commands.  No more *)
(* is said once a command has been given up in somebody's hand.            *)
SemInv ==
  /\ stalled \in BOOLEAN
  /\ stalled = FALSE => CommandInv /\ (Rest <=> chansem = None)

LEMMA SemInvInit == Init => SemInv
<1> SUFFICES ASSUME Init PROVE SemInv
  OBVIOUS
<1>1. /\ tcb = Fresh /\ node = "free" /\ completed = 0 /\ todo = <<>>
      /\ tx = <<>> /\ cmd_list = <<>> /\ at = [w \in Who |-> "rest"] /\ answers = <<>>
      /\ seq_num = 0 /\ last_rx_seq_num = -1 /\ shutdown = FALSE /\ chansem = None
      /\ refused = [w \in Who |-> NoFrame] /\ stalled = FALSE
  BY DEF Init, TcInit
<1>2. at \in [Who -> Steps] /\ at["caller"] = "rest" /\ at["watchdog"] = "rest"
  BY <1>1 DEF Who, Steps
<1>8. refused \in [Who -> Asides] /\ PutAside /\ ~Carried /\ ~TakenOff
  <2>1. NoFrame \in Asides /\ NoFrame.frame = "none"
    BY DEF NoFrame, Asides
  <2>2. \A w \in Who : refused[w] = NoFrame /\ ~Carries(w) /\ at[w] = "rest"
    BY <1>1, <2>1 DEF Carries
  <2>3. "caller" \in Who
    BY DEF Who
  <2>4. PutAside
    BY <2>1, <2>2, <2>3 DEF PutAside
  <2> QED
    BY <1>1, <2>1, <2>2, <2>4 DEF Carried, TakenOff
<1>3. CommandTypes
  <2>1. /\ todo \in Seq(Commands) /\ tx \in Seq(Descriptors)
        /\ cmd_list \in Seq(Frames) /\ answers \in Seq(Answers)
    BY <1>1
  <2>2. seq_num \in Nat /\ last_rx_seq_num \in Int
    BY <1>1
  <2>3. shutdown \in BOOLEAN
    BY <1>1, Zenon
  <2> QED
    BY <1>1, <1>2, <1>8, <2>1, <2>2, <2>3, FreshFacts DEF CommandTypes
<1>4. /\ DOMAIN tx = {} /\ DOMAIN cmd_list = {} /\ DOMAIN answers = {} /\ Len(tx) = 0
      /\ ~OnRing /\ ~OnList
  BY <1>1 DEF OnRing, OnList
<1>5. Alone
  <2>1. InTurn(tx)
    BY <1>4 DEF InTurn
  <2> QED
    BY <1>4, <2>1 DEF Alone, Once, ListsOnce
<1>6. Given
  BY <1>1, <1>2, <1>4, <1>8 DEF Given, Is
<1>7. Answered
  <2>1. ~Open
    BY <1>1, <1>8 DEF Open
  <2> QED
    BY <1>1, <1>4, <1>8, <2>1, FreshFacts DEF Answered
<1>9. stalled \in BOOLEAN
  BY <1>1, Zenon
<1>10. Rest <=> chansem = None
  BY <1>1, <1>2 DEF Rest, Is
<1> QED
  BY <1>3, <1>5, <1>6, <1>7, <1>8, <1>9, <1>10 DEF SemInv, CommandInv

(* Only a command that is given up in somebody's hand is marked. *)
LEMMA Marked ==
  ASSUME stalled \in BOOLEAN, [Next]_vars
  PROVE  stalled' \in BOOLEAN /\ (stalled' = FALSE => stalled = FALSE)
<1>1. CASE UNCHANGED stalled
  BY <1>1
<1>2. CASE walk_give_up
  <2>1. stalled' = (stalled \/ Carried)
    BY <1>2 DEF walk_give_up, Carried, Carries
  <2>2. Carried \in BOOLEAN
    BY DEF Carried
  <2> QED
    BY <2>1, <2>2
<1>3. ASSUME NEW f \in Files, allocate(f) \/ close(f) \/ Takes(f) \/ Runs(f)
      PROVE  UNCHANGED stalled
  BY <1>3 DEF allocate, close, Takes, Runs, release, keep_pair, destroy_pair, destroyed,
              clear_busy, attach, is_built, create_pair, created, Begin, End, tcVars
<1>4. ASSUME TcNext, ~walk_give_up PROVE UNCHANGED stalled
  <2>1. ASSUME NEW w \in Who, TcServe(w) \/ Aside(w) PROVE UNCHANGED stalled
    BY <2>1 DEF TcServe, Aside, retrieve, pull, take_off, queue
  <2>2. ASSUME watchdog_fires \/ walk_nothing \/ walk_retry \/ walk_wait \/ resend
        PROVE  UNCHANGED stalled
    BY <2>2 DEF watchdog_fires, walk_nothing, walk_retry, walk_wait, resend
  <2>3. ASSUME receive \/ write \/ give \/ answered \/ send_frame PROVE UNCHANGED stalled
    BY <2>3 DEF receive, write, give, answered, send_frame
  <2> QED
    BY <1>4, <2>1, <2>2, <2>3 DEF TcNext, Watchdog, Walk, Work, Caller, Who
<1> QED
  BY <1>1, <1>2, <1>3, <1>4 DEF Next, vars, tcVars

LEMMA TcNextInv ==
  ASSUME CommandInv, Rest <=> chansem = None, LateAnswers = FALSE, TcNext,
         UNCHANGED channelVars, stalled' = FALSE
  PROVE  CommandInv' /\ (Rest' <=> chansem' = None)
<1>1. UNCHANGED chansem
  BY DEF channelVars
<1>2. ASSUME NEW w \in {"work", "watchdog"}, TcServe(w) PROVE CommandInv' /\ (Rest' <=> Rest)
  BY <1>2, RetrieveInv, PullInv DEF TcServe
<1>3. ASSUME NEW w \in Who, Aside(w) PROVE CommandInv' /\ (Rest' <=> Rest)
  BY <1>3, TakeOffInv, QueueInv DEF Aside
<1>4. CASE Watchdog
  BY <1>1, <1>2, <1>3, <1>4, LooksInv, WalkGiveUpInv, WalkRetryInv, WalkWaitInv, ResendInv
     DEF Watchdog, Walk, Who
<1>5. CASE Work
  BY <1>1, <1>2, <1>3, <1>5, ReceiveInv DEF Work, Who
<1>6. CASE Caller
  BY <1>1, <1>3, <1>6, GiveInv, AnsweredInv DEF Caller, Who
<1>7. CASE write \/ Aside("writer") \/ send_frame
  BY <1>1, <1>3, <1>7, WriteInv, SendFrameInv DEF Who
<1> QED
  BY <1>4, <1>5, <1>6, <1>7 DEF TcNext

LEMMA SameCommand ==
  ASSUME CommandInv, UNCHANGED tcVars
  PROVE  CommandInv' /\ (Rest' <=> Rest)
<1>1. UNCHANGED <<tcb, node, completed, todo, tx, cmd_list, refused, at, answers, seq_num,
                  last_rx_seq_num, shutdown>>
  BY DEF tcVars, command, rings, numbers
<1>2. CommandTypes' /\ Alone'
  BY <1>1 DEF CommandInv, CommandTypes, Alone
<1>3. /\ (OnRing' <=> OnRing) /\ (OnList' <=> OnList)
      /\ PutAside' /\ (Carried' <=> Carried) /\ (TakenOff' <=> TakenOff) /\ (Waits' <=> Waits)
  BY <1>1, SameHands DEF CommandInv, OnRing, OnList
<1>4. Given'
  BY <1>1, <1>3 DEF CommandInv, Given, Is
<1>5. Open' <=> Open
  BY <1>1, <1>3 DEF Open
<1>6. Answered'
  BY <1>1, <1>3, <1>5 DEF CommandInv, Answered, Seen
<1>7. Rest' <=> Rest
  BY <1>1 DEF Rest, Is
<1> QED
  BY <1>2, <1>3, <1>4, <1>6, <1>7 DEF CommandInv

LEMMA SemInvNext == LateAnswers = FALSE /\ SemInv /\ [Next]_vars => SemInv'
<1> SUFFICES ASSUME LateAnswers = FALSE, SemInv, [Next]_vars PROVE SemInv'
  OBVIOUS
<1>1. stalled' \in BOOLEAN /\ (stalled' = FALSE => stalled = FALSE)
  BY Marked DEF SemInv
<1> SUFFICES ASSUME stalled' = FALSE PROVE CommandInv' /\ (Rest' <=> chansem' = None)
  BY <1>1 DEF SemInv
<1>2. CommandInv /\ (Rest <=> chansem = None)
  BY <1>1 DEF SemInv
<1>3. ASSUME UNCHANGED <<tcVars, chansem>> PROVE CommandInv' /\ (Rest' <=> chansem' = None)
  BY <1>2, <1>3, SameCommand
<1>4. ASSUME NEW f \in Files,
             \/ allocate(f) \/ close(f) \/ release(f) \/ clear_busy(f) \/ attach(f)
             \/ keep_pair(f) \/ is_built(f)
      PROVE  UNCHANGED <<tcVars, chansem>>
  BY <1>4 DEF allocate, close, release, clear_busy, attach, keep_pair, is_built
<1>5. ASSUME NEW f \in Files, destroy_pair(f) \/ create_pair(f)
      PROVE  CommandInv' /\ (Rest' <=> chansem' = None)
  <2>1. /\ chansem = None /\ chansem' = f /\ f # None
        /\ Begin(CreateRow) \/ Begin(DestroyRow)
    BY <1>5 DEF destroy_pair, create_pair
  <2>2. CommandInv' /\ ~Rest'
    BY <1>2, <2>1, BeginInv
  <2> QED
    BY <2>1, <2>2
<1>6. ASSUME NEW f \in Files, destroyed(f) \/ created(f)
      PROVE  CommandInv' /\ (Rest' <=> chansem' = None)
  <2>1. chansem' = None /\ (End("done") \/ End("failed"))
    BY <1>6 DEF destroyed, created
  <2> QED
    BY <1>2, <2>1, EndInv
<1>7. CASE TcNext /\ UNCHANGED channelVars
  BY <1>2, <1>7, TcNextInv
<1>8. CASE UNCHANGED vars
  BY <1>3, <1>8 DEF vars, channelVars
<1> QED
  BY <1>3, <1>4, <1>5, <1>6, <1>7, <1>8 DEF Next, Takes, Runs

(* Whoever transmits, retrieves, answers, sends again or gives up first: a *)
(* command is completed once, to the caller that waits for it, and is then *)
(* on no ring, and a supervisor's command is not completed by the answer   *)
(* to an earlier one (do_rx_response_packet, service_tx_ring and           *)
(* wctc4xxp_watchdog), where no answer comes after a command was given up, *)
(* and until one is given up while somebody is about to put it aside.      *)
THEOREM TranscoderCommandSound ==
  ASSUME LateAnswers = FALSE
  PROVE  Spec => []CommandSound
<1>1. SemInv => CommandSound
  <2> SUFFICES ASSUME SemInv, ~stalled
               PROVE  /\ completed <= 1
                      /\ completed = 1 =>
                           /\ Is("caller", "wait") /\ node = "free"
                           /\ ~shutdown => ~OnRing /\ ~OnList
                      /\ tcb.function \in Supervisor => tcb.response # "stale"
    BY DEF CommandSound
  <2>0. CommandInv
    <3>1. stalled \in BOOLEAN
      BY DEF SemInv
    <3>2. stalled = FALSE
      BY <3>1
    <3> QED
      BY <3>2 DEF SemInv
  <2>1. completed <= 1
    BY <2>0 DEF CommandInv, Given
  <2>2. completed = 1 => Is("caller", "wait") /\ node = "free"
    BY <2>0 DEF CommandInv, Given
  <2>3. completed = 1 /\ ~shutdown => ~OnRing /\ ~OnList
    <3>1. shutdown \in BOOLEAN
      BY <2>0 DEF CommandInv, CommandTypes
    <3>2. completed = 1 /\ shutdown = FALSE => ~OnRing /\ ~OnList
      BY <2>0 DEF CommandInv, Given
    <3> QED
      BY <3>1, <3>2
  <2>4. tcb.function \in Supervisor => tcb.response # "stale"
    BY <2>0 DEF CommandInv, Answered
  <2> QED
    BY <2>1, <2>2, <2>3, <2>4
<1> QED
  BY <1>1, SemInvInit, SemInvNext, PTL DEF Spec
=============================================================================
