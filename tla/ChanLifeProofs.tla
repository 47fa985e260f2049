--------------------------- MODULE ChanLifeProofs ---------------------------
(***************************************************************************)
(* Proofs about opening, closing and removing channels, for any number of  *)
(* lines, pseudo channels and files, and a removal that waits for nobody:  *)
(* only a thread it caught half way uses a channel that has been freed,    *)
(* and a channel it has not detached has one holder.                       *)
(*                                                                         *)
(* LifeInv says what holds of a channel that is not detached, whatever the *)
(* removal did to others; of a thread that was not caught half way and a   *)
(* detached line; and, while nobody was caught, of a detached line.        *)
(***************************************************************************)
EXTENDS ChanLife, FiniteSetTheorems, WellFoundedInduction, SequenceTheorems, TLAPS

LifeTypes ==
  /\ OPEN \subseteq Channels
  /\ chan_file \in [Channels -> Files \cup {NoFile}]
  /\ private_data \in [Files -> Channels \cup {None}]
  /\ f_op \in [Files -> {"dahdi_fops", "dahdi_chan_fops", "nodev_fops"}]
  /\ pc \in [Files -> Places]
  /\ chan \in [Files -> Channels \cup {None}]
  /\ removal \in [stage : Stages, line : Lines \cup {None}]
  /\ removal.stage \in {"plugged", "unplugged"} <=> removal.line = None
  /\ pseudo_chans \in Seq(Pseudos)
  /\ freed \subseteq Lines /\ (freed # {} => removal.stage = "unplugged")
  /\ late \subseteq Files

(* A thread in the middle of something has a channel to do it to, and only *)
(* an open file has a line.                                                *)
ThreadsSensible ==
  \A f \in Files :
    /\ pc[f] \in {"closed", "open"} <=> chan[f] = None
    /\ pc[f] = "freeing" => chan[f] \in Pseudos
    /\ pc[f] = "closing" => chan[f] \in Lines
    /\ private_data[f] \in Lines => pc[f] \in {"open", "calling", "leaving"}
    /\ pc[f] \in {"calling", "leaving"} => private_data[f] \in {chan[f], None}

HasFile(c, f) == pc[f] \in {"open", "calling", "leaving"} /\ private_data[f] = c

(* chan->file and file->private_data point at each other. *)
Matched(c) ==
  /\ \A f \in Files : HasFile(c, f) => chan_file[c] = f /\ f_op[f] = "dahdi_chan_fops"
  /\ chan_file[c] # NoFile => HasFile(c, chan_file[c])
  /\ \A f \in Files : chan[f] = c /\ pc[f] \in {"calling", "leaving"} => private_data[f] = c

Held(c) ==
  /\ \A f, g \in Holders(c) : f = g
  /\ c \in OPEN <=> Holders(c) # {}

(* A removal spoils no channel it has not detached. *)
StillWhole == \A c \in Channels : ~Detached(c) => Matched(c) /\ Held(c)

(* A detached line that was in use when it was taken from its file stays   *)
(* open until the sleep, so that nobody opens it.                          *)
Settled(c) ==
  /\ c \in OPEN
  /\ \A f \in Files :
       private_data[f] # c /\ (chan[f] = c => pc[f] \in {"found", "calling", "closing"})

(* A thread that was not caught half way has nothing to do with a detached *)
(* line, but for a call that was under way.                                *)
NothingLeft ==
  \A f \in Files : f \notin late =>
    /\ ~Detached(private_data[f])
    /\ Detached(chan[f]) =>
         /\ pc[f] = "calling" /\ Taking /\ removal.line = chan[f]
         /\ removal.stage # "sleep" => chan_file[chan[f]] = f /\ Settled(chan[f])

Leaving(c) == Taking /\ removal.line = c /\ chan_file[c] # NoFile

(* Without such threads a detached line is open until the removal closes   *)
(* it for its file.                                                        *)
ClosedForIt ==
  late = {} => \A c \in OPEN : Detached(c) => Leaving(c) /\ removal.stage # "sleep"

(* The file whose operations the removal is about to take has no other     *)
(* channel.                                                                *)
SwapsFileOf(f) ==
  /\ pc[f] \in {"open", "calling", "leaving"} /\ private_data[f] \in {removal.line, None}
  /\ f_op[f] = "dahdi_chan_fops" /\ (pc[f] # "open" => chan[f] = removal.line)

SwapSensible ==
  removal.stage = "swap" =>
    \A f \in Files : chan_file[removal.line] = f => SwapsFileOf(f)

LifeInv ==
  /\ LifeTypes /\ ThreadsSensible /\ StillWhole /\ NothingLeft /\ ClosedForIt /\ SwapSensible

-----------------------------------------------------------------------------
(* A set of numbers has a least one. *)
LEMMA LeastOf ==
  ASSUME NEW S \in SUBSET Nat, S # {}
  PROVE  \E x \in S : \A y \in S : x <= y
<1>1. PICK x \in S : \A y \in S : ~ (<<y, x>> \in OpToRel(<, Nat))
  BY WFMin, NatLessThanWellFounded
<1>2. ASSUME NEW y \in S PROVE x <= y
  <2>1. x \in Nat /\ y \in Nat
    OBVIOUS
  <2>2. ~ (y < x)
    BY <1>1, <2>1 DEF OpToRel
  <2> QED
    BY <2>1, <2>2
<1> QED
  BY <1>2

(* An element put into a sequence, or taken out of it. *)
LEMMA Inserted ==
  ASSUME NEW S, NEW s \in Seq(S), NEW i \in 1..Len(s) + 1, NEW e \in S
  PROVE  /\ InsertAt(s, i, e) \in Seq(S)
         /\ Len(InsertAt(s, i, e)) = Len(s) + 1
         /\ \A k \in 1..Len(s) + 1 :
              InsertAt(s, i, e)[k] = IF k < i THEN s[k] ELSE IF k = i THEN e ELSE s[k - 1]
<1>1. Len(s) \in Nat /\ i - 1 \in 0..Len(s) /\ i \in Nat
  OBVIOUS
<1> DEFINE a == SubSeq(s, 1, i - 1)
           b == SubSeq(s, i, Len(s))
<1>2. /\ a \in Seq(S) /\ Len(a) = i - 1
      /\ \A k \in 1..i - 1 : a[k] = s[k]
  BY <1>1
<1>3. /\ b \in Seq(S) /\ Len(b) = Len(s) - i + 1
      /\ \A k \in 1..Len(s) - i + 1 : b[k] = s[k + i - 1]
  BY <1>1
<1>4. <<e>> \in Seq(S) /\ Len(<<e>>) = 1 /\ <<e>>[1] = e
  OBVIOUS
<1> HIDE DEF a, b
<1> DEFINE d == a \o <<e>>
<1>5. /\ d \in Seq(S) /\ Len(d) = i
      /\ \A k \in 1..i : d[k] = IF k < i THEN s[k] ELSE e
  BY <1>1, <1>2, <1>4
<1> HIDE DEF d
<1>6. /\ d \o b \in Seq(S) /\ Len(d \o b) = Len(s) + 1
      /\ \A k \in 1..Len(s) + 1 : (d \o b)[k] = IF k <= i THEN d[k] ELSE b[k - i]
  <2>1. /\ d \o b \in Seq(S) /\ Len(d \o b) = Len(d) + Len(b)
        /\ \A k \in 1..Len(d) + Len(b) :
             (d \o b)[k] = IF k <= Len(d) THEN d[k] ELSE b[k - Len(d)]
    <3>1. d \in Seq(S) /\ b \in Seq(S)
      BY <1>3, <1>5
    <3> QED
      BY <3>1, ConcatProperties
  <2>2. Len(d) = i /\ Len(d) + Len(b) = Len(s) + 1
    BY <1>1, <1>3, <1>5
  <2> QED
    BY <2>1, <2>2
<1>7. \A k \in 1..Len(s) + 1 : k > i => b[k - i] = s[k - 1]
  BY <1>1, <1>3
<1>8. InsertAt(s, i, e) = d \o b
  BY DEF InsertAt, a, b, d
<1> QED
  BY <1>1, <1>5, <1>6, <1>7, <1>8

LEMMA Removed ==
  ASSUME NEW S, NEW s \in Seq(S), NEW i \in 1..Len(s)
  PROVE  /\ RemoveAt(s, i) \in Seq(S)
         /\ Len(RemoveAt(s, i)) = Len(s) - 1
         /\ \A k \in 1..Len(s) - 1 :
              RemoveAt(s, i)[k] = IF k < i THEN s[k] ELSE s[k + 1]
<1>1. Len(s) \in Nat /\ i - 1 \in 0..Len(s) /\ i \in Nat
  OBVIOUS
<1> DEFINE a == SubSeq(s, 1, i - 1)
           b == SubSeq(s, i + 1, Len(s))
<1>2. /\ a \in Seq(S) /\ Len(a) = i - 1
      /\ \A k \in 1..i - 1 : a[k] = s[k]
  BY <1>1
<1>3. /\ b \in Seq(S) /\ Len(b) = Len(s) - i
      /\ \A k \in 1..Len(s) - i : b[k] = s[k + i]
  BY <1>1
<1> HIDE DEF a, b
<1>4. /\ a \o b \in Seq(S) /\ Len(a \o b) = Len(s) - 1
      /\ \A k \in 1..Len(s) - 1 : (a \o b)[k] = IF k < i THEN a[k] ELSE b[k - i + 1]
  <2>1. /\ a \o b \in Seq(S) /\ Len(a \o b) = Len(a) + Len(b)
        /\ \A k \in 1..Len(a) + Len(b) :
             (a \o b)[k] = IF k <= Len(a) THEN a[k] ELSE b[k - Len(a)]
    <3>1. a \in Seq(S) /\ b \in Seq(S)
      BY <1>2, <1>3
    <3> QED
      BY <3>1, ConcatProperties
  <2>2. Len(a) = i - 1 /\ Len(a) + Len(b) = Len(s) - 1
    BY <1>1, <1>2, <1>3
  <2>3. \A k \in 1..Len(s) - 1 : (k <= i - 1 <=> k < i) /\ k - (i - 1) = k - i + 1
    BY <1>1
  <2> QED
    BY <2>1, <2>2, <2>3
<1>5. \A k \in 1..Len(s) - 1 : k >= i => b[k - i + 1] = s[k + 1]
  BY <1>1, <1>3
<1>6. RemoveAt(s, i) = a \o b
  BY DEF RemoveAt, a, b
<1> HIDE DEF a, b
<1>7. ASSUME NEW k \in 1..Len(s) - 1
      PROVE  (a \o b)[k] = IF k < i THEN s[k] ELSE s[k + 1]
  <2>1. k < i => k \in 1..i - 1
    BY <1>1
  <2>2. ~(k < i) => k >= i
    BY <1>1
  <2> QED
    BY <1>2, <1>4, <1>5, <2>1, <2>2
<1> QED
  BY <1>4, <1>6, <1>7
-----------------------------------------------------------------------------
USE ChanLifeAssumption DEF ChanLifeAssumption

LEMMA Apart ==
  /\ None \notin Lines /\ None \notin Pseudos /\ NoFile \notin Files
  /\ \A c \in Lines : c \notin Pseudos /\ c <= c /\ ~(c < c)
  /\ Channels = Lines \cup Pseudos
BY DEF Channels, Pseudos

LEMMA FirstLineIs == FirstLine \in Lines /\ \A d \in Lines : FirstLine <= d
<1>1. \E c \in Lines : \A d \in Lines : c <= d
  BY LeastOf
<1> QED
  BY <1>1 DEF FirstLine

LEMMA NextLineIs ==
  ASSUME NEW c \in Lines, LinesAfter(c) # {}
  PROVE  /\ NextLine(c) \in Lines
         /\ \A d \in Lines : d < NextLine(c) <=> d <= c
<1>1. \E d \in LinesAfter(c) : \A e \in LinesAfter(c) : d <= e
  BY LeastOf DEF LinesAfter
<1>2. NextLine(c) \in LinesAfter(c) /\ \A e \in LinesAfter(c) : NextLine(c) <= e
  BY <1>1 DEF NextLine
<1>3. ASSUME NEW d \in Lines PROVE d < NextLine(c) <=> d <= c
  <2>1. d \in Nat /\ c \in Nat /\ NextLine(c) \in Nat /\ c < NextLine(c)
    BY <1>2 DEF LinesAfter
  <2>2. ~(d <= c) => NextLine(c) <= d
    BY <1>2, <2>1 DEF LinesAfter
  <2> QED
    BY <2>1, <2>2
<1> QED
  BY <1>2, <1>3 DEF LinesAfter

(* From one line to the next, or to the end. *)
LEMMA DoneWith ==
  ASSUME LifeTypes, NEW c \in Lines, removal.stage \in Stages, LineDone(c)
  PROVE  /\ removal' \in [stage : {"detach", "unplugged"}, line : Lines \cup {None}]
         /\ removal'.stage = "unplugged" <=> removal'.line = None
         /\ \A d \in Lines : Detached(d)' <=> d <= c
         /\ ~Taking' /\ removal'.stage # "plugged"
         /\ freed' = freed \/ (freed' = Lines /\ removal'.stage = "unplugged")
<1>1. CASE LinesAfter(c) = {}
  <2>1. removal' = [stage |-> "unplugged", line |-> None] /\ freed' = Lines
    BY <1>1 DEF LineDone, Stage
  <2>2. \A d \in Lines : d <= c
    BY <1>1 DEF LinesAfter
  <2> QED
    BY <2>1, <2>2 DEF Detached, Taking
<1>2. CASE LinesAfter(c) # {}
  <2>1. removal' = [stage |-> "detach", line |-> NextLine(c)] /\ freed' = freed
    BY <1>2 DEF LineDone, Stage
  <2>2. NextLine(c) \in Lines /\ \A d \in Lines : d < NextLine(c) <=> d <= c
    BY <1>2, NextLineIs
  <2> QED
    BY <2>1, <2>2, Apart DEF Detached, Taking
<1> QED
  BY <1>1, <1>2

(* The first number that is free, and the place where it belongs. *)
LEMMA GapIs ==
  ASSUME pseudo_chans \in Seq(Pseudos)
  PROVE  /\ FirstGap \in 0..Len(pseudo_chans)
         /\ \A i \in 1..FirstGap : pseudo_chans[i] = FIRST_PSEUDO_CHANNEL + i - 1
         /\ FirstGap < Len(pseudo_chans) =>
              pseudo_chans[FirstGap + 1] # FIRST_PSEUDO_CHANNEL + FirstGap
<1> DEFINE L == Len(pseudo_chans)
           Off(i) == pseudo_chans[i] # FIRST_PSEUDO_CHANNEL + i - 1
           S == {i \in 1..L : Off(i)}
           Good(n) == /\ \A i \in 1..n : ~Off(i)
                      /\ n < L => Off(n + 1)
<1>1. L \in Nat
  OBVIOUS
<1>2. \E n \in 0..L : Good(n)
  <2>1. CASE S = {}
    <3>1. Good(L)
      BY <1>1, <2>1
    <3> QED
      BY <1>1, <3>1
  <2>2. CASE S # {}
    <3>0. S \in SUBSET Nat
      BY <1>1
    <3>1. PICK x \in S : \A y \in S : x <= y
      <4> HIDE DEF S
      <4> QED
        BY <2>2, <3>0, LeastOf
    <3>2. x - 1 \in 0..L /\ x - 1 < L /\ Off((x - 1) + 1)
      BY <1>1, <3>1
    <3>3. ASSUME NEW i \in 1..x - 1 PROVE ~Off(i)
      <4>1. i \in 1..L /\ i < x
        BY <1>1, <3>1
      <4> QED
        BY <3>1, <4>1
    <3> QED
      BY <3>2, <3>3
  <2> QED
    BY <2>1, <2>2
<1>3. \A n \in 0..L : n < L => (Off(n + 1) <=> pseudo_chans[n + 1] # FIRST_PSEUDO_CHANNEL + n)
  BY <1>1
<1>4. \E n \in 0..L :
        /\ \A i \in 1..n : pseudo_chans[i] = FIRST_PSEUDO_CHANNEL + i - 1
        /\ n < L => pseudo_chans[n + 1] # FIRST_PSEUDO_CHANNEL + n
  BY <1>2, <1>3
<1> QED
  BY <1>4 DEF FirstGap

(* The lines in their order. *)
LEMMA InOrder ==
  ASSUME NEW c \in Lines, NEW d \in Lines
  PROVE  (d <= c <=> d < c \/ d = c) /\ (c <= d <=> ~(d < c))
<1>1. c \in Nat /\ d \in Nat
  OBVIOUS
<1> QED
  BY <1>1

LEMMA RemovalStill ==
  ASSUME UNCHANGED removal
  PROVE  /\ \A c : Detached(c)' <=> Detached(c)
         /\ Taking' <=> Taking
BY DEF Detached, Taking

(* What a step of one file has to show beyond the types and the channels   *)
(* that are still whole.                                                   *)
Quiet(f) ==
  /\ \A c \in Lines : Settled(c) =>
       /\ c \in OPEN' /\ chan_file'[c] = chan_file[c]
       /\ private_data'[f] # c
       /\ chan'[f] = c => pc'[f] \in {"found", "calling", "closing"}
  /\ f \notin late =>
       /\ ~Detached(private_data'[f])
       /\ Detached(chan'[f]) => pc'[f] = "calling" /\ pc[f] = "calling" /\ chan'[f] = chan[f]
  /\ late = {} =>
       \A c \in OPEN' : Detached(c) => c \in OPEN /\ chan_file'[c] = chan_file[c]

OthersStill(f) ==
  \A g \in Files : g # f =>
    pc'[g] = pc[g] /\ chan'[g] = chan[g] /\ private_data'[g] = private_data[g] /\ f_op'[g] = f_op[g]

LEMMA FileStill ==
  ASSUME LifeInv, NEW f \in Files, UNCHANGED <<removal, late>>, LifeTypes', ThreadsSensible',
         OthersStill(f), Quiet(f), SwapSensible',
         \A c \in Channels : ~Detached(c) => Matched(c)' /\ Held(c)'
  PROVE  LifeInv'
<1> USE DEF LifeInv
<1>1. StillWhole'
  BY RemovalStill DEF StillWhole
<1>2. ASSUME NEW c \in Lines, Settled(c) PROVE Settled(c)' /\ chan_file'[c] = chan_file[c]
  BY <1>2 DEF Settled, Quiet, OthersStill
<1>3. NothingLeft'
  <2> SUFFICES ASSUME NEW g \in Files, g \notin late
               PROVE  /\ ~Detached(private_data'[g])
                      /\ Detached(chan'[g]) =>
                           /\ pc'[g] = "calling" /\ Taking /\ removal.line = chan'[g]
                           /\ removal.stage # "sleep" =>
                                chan_file'[chan'[g]] = g /\ Settled(chan[g])'
    BY RemovalStill DEF NothingLeft
  <2>1. ~Detached(private_data'[g])
    BY DEF NothingLeft, OthersStill, Quiet
  <2>2. ASSUME Detached(chan'[g]) PROVE chan'[g] = chan[g] /\ pc'[g] = pc[g]
    BY <2>2 DEF NothingLeft, OthersStill, Quiet
  <2>3. Detached(chan[g]) => chan[g] \in Lines
    BY DEF Detached
  <2>4. ASSUME Detached(chan'[g]), removal.stage # "sleep"
        PROVE  chan_file'[chan[g]] = g /\ Settled(chan[g])'
    <3>1. Detached(chan[g]) /\ chan[g] \in Lines /\ chan'[g] = chan[g]
      BY <2>2, <2>3, <2>4
    <3>2. chan_file[chan[g]] = g /\ Settled(chan[g])
      BY <2>4, <3>1 DEF NothingLeft
    <3> DEFINE c == chan[g]
    <3>3. Settled(c)' /\ chan_file'[chan[g]] = chan_file[chan[g]]
      <4>1. chan_file'[chan[g]] = chan_file[chan[g]]
        BY <1>2, <3>1, <3>2
      <4>2. ASSUME NEW d \in Lines, d = chan[g] PROVE Settled(d)'
        BY <1>2, <3>2, <4>2
      <4>3. PICK d \in Lines : d = chan[g]
        BY <3>1
      <4>4. Settled(d)' /\ d = chan'[g]
        BY <4>2, <4>3, <3>1
      <4> QED
        BY <4>1, <4>4 DEF Settled
    <3> QED
      BY <3>2, <3>3
  <2> QED
    BY <2>1, <2>2, <2>4 DEF NothingLeft
<1>4. ClosedForIt'
  BY RemovalStill DEF ClosedForIt, Quiet, Leaving
<1> QED
  BY <1>1, <1>3, <1>4

(* A step after which the file holds what it held before. *)
LEMMA HeldKept ==
  ASSUME NEW c \in Channels, Held(c), NEW f \in Files, c \in OPEN' <=> c \in OPEN, OthersStill(f),
         (f \in Holders(c))' <=> f \in Holders(c)
  PROVE  Held(c)'
<1>1. ASSUME NEW g \in Files PROVE (g \in Holders(c))' <=> g \in Holders(c)
  BY DEF Holders, OthersStill
<1>2. Holders(c)' = Holders(c)
  BY <1>1 DEF Holders
<1> QED
  BY <1>2 DEF Held

LEMMA LifeFindLine ==
  ASSUME LifeInv, NEW f \in Files, NEW c \in Lines, find_line(f, c)
  PROVE  LifeInv'
<1> USE Apart DEF LifeInv, GoTo, Gone, Claimed, GivenBack, files, threads
<1>0. UNCHANGED <<removal, late>> /\ OthersStill(f)
  BY DEF find_line, OthersStill, LifeTypes
<1>1. LifeTypes'
  BY <1>0 DEF find_line, LifeTypes, Places
<1>2. ThreadsSensible'
  BY <1>0 DEF find_line, ThreadsSensible, LifeTypes
<1>3. \A d \in Channels : ~Detached(d) => Matched(d)'
  BY <1>0 DEF find_line, StillWhole, Matched, ThreadsSensible, LifeTypes, HasFile, OthersStill
<1>4. \A d \in Channels : ~Detached(d) => Held(d)'
  <2>1. ASSUME NEW d \in Channels PROVE (f \in Holders(d))' <=> f \in Holders(d)
    BY <1>0 DEF find_line, Holders, ThreadsSensible, LifeTypes
  <2>2. OPEN' = OPEN
    BY DEF find_line
  <2> QED
    BY <1>0, <2>1, <2>2, HeldKept DEF StillWhole
<1>5. Quiet(f)
  <2>1. ~Detached(c) /\ ~Detached(None)
    BY DEF find_line, Detached, Taking
  <2> QED
    BY <1>0, <2>1 DEF find_line, Quiet, Settled, NothingLeft, ThreadsSensible, LifeTypes
<1>6. SwapSensible'
  BY <1>0 DEF find_line, SwapSensible, SwapsFileOf, OthersStill, ThreadsSensible, LifeTypes, MutexFree
<1> QED
  BY <1>0, <1>1, <1>2, <1>3, <1>4, <1>5, <1>6, FileStill

LEMMA LifeAllocPseudo ==
  ASSUME LifeInv, NEW f \in Files, alloc_pseudo(f)
  PROVE  LifeInv'
<1> USE Apart DEF LifeInv
<1> DEFINE c == FIRST_PSEUDO_CHANNEL + FirstGap
<1>1. c \in Pseudos /\ FirstGap + 1 \in 1..Len(pseudo_chans) + 1
  BY GapIs DEF LifeTypes, Pseudos, alloc_pseudo
<1>2. /\ pc[f] = "closed" /\ pc' = [pc EXCEPT ![f] = "found"]
      /\ pseudo_chans' = InsertAt(pseudo_chans, FirstGap + 1, c)
      /\ private_data' = [private_data EXCEPT ![f] = c]
      /\ chan' = [chan EXCEPT ![f] = c]
      /\ UNCHANGED <<OPEN, chan_file, f_op, removal, freed, late>>
  BY DEF alloc_pseudo, GoTo
<1>3. pseudo_chans' \in Seq(Pseudos)
  BY <1>1, <1>2, Inserted DEF LifeTypes
<1> HIDE DEF c
<1>4. LifeTypes'
  BY <1>1, <1>2, <1>3 DEF LifeTypes, Places
<1>5. ThreadsSensible'
  BY <1>1, <1>2 DEF ThreadsSensible, LifeTypes
<1>6. OthersStill(f)
  BY <1>2 DEF OthersStill, LifeTypes
<1>7. \A d \in Channels : ~Detached(d) => Matched(d)'
  BY <1>1, <1>2, <1>6 DEF StillWhole, Matched, ThreadsSensible, LifeTypes, HasFile, OthersStill
<1>8. \A d \in Channels : ~Detached(d) => Held(d)'
  <2>1. \A d \in Channels : f \notin Holders(d) /\ (f \notin Holders(d))'
    BY <1>2 DEF Holders, LifeTypes
  <2> QED
    BY <1>2, <1>6, <2>1, HeldKept DEF StillWhole
<1>9. Quiet(f)
  BY <1>1, <1>2 DEF Quiet, Settled, LifeTypes, Detached
<1>10. SwapSensible'
  BY <1>2, <1>6 DEF SwapSensible, SwapsFileOf, OthersStill, LifeTypes
<1> QED
  BY <1>2, <1>4, <1>5, <1>6, <1>7, <1>8, <1>9, <1>10, FileStill

LEMMA LifeBusy ==
  ASSUME LifeInv, NEW f \in Files, busy(f)
  PROVE  LifeInv'
<1> USE Apart DEF LifeInv, GoTo, Gone, Claimed, GivenBack, files, threads
<1>0. UNCHANGED <<removal, late>> /\ OthersStill(f)
  BY DEF busy, OthersStill, LifeTypes
<1>1. LifeTypes'
  BY <1>0 DEF busy, LifeTypes, Places
<1>2. ThreadsSensible'
  BY <1>0 DEF busy, ThreadsSensible, LifeTypes
<1>3. \A d \in Channels : ~Detached(d) => Matched(d)'
  BY <1>0 DEF busy, StillWhole, Matched, ThreadsSensible, LifeTypes, HasFile, OthersStill
<1>4. \A d \in Channels : ~Detached(d) => Held(d)'
  <2>1. ASSUME NEW d \in Channels PROVE (f \in Holders(d))' <=> f \in Holders(d)
    BY <1>0 DEF busy, Holders, ThreadsSensible, LifeTypes
  <2>2. OPEN' = OPEN
    BY DEF busy
  <2> QED
    BY <1>0, <2>1, <2>2, HeldKept DEF StillWhole
<1>5. Quiet(f)
  BY <1>0 DEF busy, Quiet, Settled, NothingLeft, ThreadsSensible, LifeTypes, Detached
<1>6. SwapSensible'
  BY <1>0 DEF busy, SwapSensible, SwapsFileOf, OthersStill, ThreadsSensible, LifeTypes, MutexFree
<1> QED
  BY <1>0, <1>1, <1>2, <1>3, <1>4, <1>5, <1>6, FileStill

LEMMA LifeClaim ==
  ASSUME LifeInv, NEW f \in Files, claim(f)
  PROVE  LifeInv'
<1> USE Apart DEF LifeInv, GoTo, Gone, Claimed, GivenBack, files, threads
<1>0. UNCHANGED <<removal, late>> /\ OthersStill(f)
  BY DEF claim, OthersStill, LifeTypes
<1>1. LifeTypes'
  <2>1. chan[f] \in Channels
    BY DEF claim, LifeTypes, ThreadsSensible
  <2>2. OPEN' \subseteq Channels
    BY <2>1 DEF claim, LifeTypes
  <2>3. pc' \in [Files -> Places]
    BY DEF claim, LifeTypes, Places
  <2> QED
    BY <2>2, <2>3 DEF claim, LifeTypes
<1>2. ThreadsSensible'
  BY <1>0 DEF claim, ThreadsSensible, LifeTypes
<1>3. \A d \in Channels : ~Detached(d) => Matched(d)'
  BY <1>0 DEF claim, StillWhole, Matched, ThreadsSensible, LifeTypes, HasFile, OthersStill
<1>4. \A d \in Channels : ~Detached(d) => Held(d)'
  BY <1>0 DEF claim, StillWhole, Held, Holders, ThreadsSensible, LifeTypes, OthersStill
<1>5. Quiet(f)
  BY <1>0 DEF claim, Quiet, Settled, NothingLeft, ThreadsSensible, LifeTypes, Detached
<1>6. SwapSensible'
  BY <1>0 DEF claim, SwapSensible, SwapsFileOf, OthersStill, ThreadsSensible, LifeTypes, MutexFree
<1> QED
  BY <1>0, <1>1, <1>2, <1>3, <1>4, <1>5, <1>6, FileStill

LEMMA LifeClaimFails ==
  ASSUME LifeInv, NEW f \in Files, claim_fails(f)
  PROVE  LifeInv'
<1> USE Apart DEF LifeInv, GoTo, Gone, Claimed, GivenBack, files, threads
<1>0. UNCHANGED <<removal, late>> /\ OthersStill(f)
  BY DEF claim_fails, OthersStill, LifeTypes
<1>1. LifeTypes'
  BY <1>0 DEF claim_fails, LifeTypes, Places
<1>2. ThreadsSensible'
  BY <1>0 DEF claim_fails, ThreadsSensible, LifeTypes
<1>3. \A d \in Channels : ~Detached(d) => Matched(d)'
  BY <1>0 DEF claim_fails, StillWhole, Matched, ThreadsSensible, LifeTypes, HasFile, OthersStill
<1>4. \A d \in Channels : ~Detached(d) => Held(d)'
  BY <1>0 DEF claim_fails, StillWhole, Held, Holders, ThreadsSensible, LifeTypes, OthersStill
<1>5. Quiet(f)
  BY <1>0 DEF claim_fails, Quiet, Settled, NothingLeft, ThreadsSensible, LifeTypes, Detached
<1>6. SwapSensible'
  BY <1>0 DEF claim_fails, SwapSensible, SwapsFileOf, OthersStill, ThreadsSensible, LifeTypes, MutexFree
<1> QED
  BY <1>0, <1>1, <1>2, <1>3, <1>4, <1>5, <1>6, FileStill

LEMMA LifeOpened ==
  ASSUME LifeInv, NEW f \in Files, opened(f)
  PROVE  LifeInv'
<1> USE Apart DEF LifeInv, GoTo, Gone, Claimed, GivenBack, files, threads
<1>0. UNCHANGED <<removal, late>> /\ OthersStill(f)
  BY DEF opened, OthersStill, LifeTypes
<1>1. LifeTypes'
  BY <1>0 DEF opened, LifeTypes, Places
<1>2. ThreadsSensible'
  BY <1>0 DEF opened, ThreadsSensible, LifeTypes
<1>3. \A d \in Channels : ~Detached(d) => Matched(d)'
  <2>1. chan[f] \in Channels /\ f \in Holders(chan[f])
    BY DEF opened, ThreadsSensible, LifeTypes, Holders
  <2>2. ASSUME NEW d \in Channels, ~Detached(d), d # chan[f] PROVE Matched(d)'
    BY <1>0, <2>1, <2>2 DEF opened, StillWhole, Matched, ThreadsSensible, LifeTypes, HasFile, OthersStill
  <2>3. ASSUME ~Detached(chan[f]), NEW g \in Files, HasFile(chan[f], g) PROVE FALSE
    <3>1. g \in Holders(chan[f]) /\ g # f
      BY <2>3 DEF opened, Holders, HasFile
    <3> QED
      BY <2>1, <2>3, <3>1 DEF StillWhole, Held
  <2>4. ASSUME NEW d \in Channels, ~Detached(d), d = chan[f] PROVE Matched(d)'
    <3>1. \A g \in Files : HasFile(d, g)' => g = f
      BY <1>0, <2>3, <2>4 DEF HasFile, OthersStill
    <3>2. chan_file'[d] = f /\ HasFile(d, f)' /\ f_op'[f] = "dahdi_chan_fops"
      BY <2>4 DEF opened, HasFile, LifeTypes
    <3>3. \A g \in Files : chan'[g] = d /\ pc'[g] \in {"calling", "leaving"} => private_data'[g] = d
      BY <1>0, <2>1, <2>4 DEF opened, StillWhole, Matched, OthersStill, LifeTypes
    <3> QED
      BY <3>1, <3>2, <3>3 DEF Matched
  <2> QED
    BY <2>2, <2>4
<1>4. \A d \in Channels : ~Detached(d) => Held(d)'
  BY <1>0 DEF opened, StillWhole, Held, Holders, ThreadsSensible, LifeTypes, OthersStill
<1>5. Quiet(f)
  <2>1. /\ pc[f] = "claimed" /\ private_data'[f] = chan[f] /\ chan'[f] = None /\ OPEN' = OPEN
        /\ \A d \in Channels : d # chan[f] => chan_file'[d] = chan_file[d]
    BY DEF opened, LifeTypes
  <2>2. f \notin late => ~Detached(chan[f])
    BY <2>1 DEF NothingLeft
  <2>3. ~Detached(None)
    BY DEF Detached
  <2>4. \A d \in Lines : Settled(d) => chan[f] # d
    BY <2>1 DEF Settled
  <2>5. ASSUME late = {}, NEW d \in OPEN, Detached(d) PROVE chan_file'[d] = chan_file[d]
    BY <2>1, <2>2, <2>5 DEF LifeTypes
  <2> QED
    BY <2>1, <2>2, <2>3, <2>4, <2>5 DEF Quiet, Settled
<1>6. SwapSensible'
  BY <1>0 DEF opened, SwapSensible, SwapsFileOf, OthersStill, ThreadsSensible, LifeTypes, MutexFree
<1> QED
  BY <1>0, <1>1, <1>2, <1>3, <1>4, <1>5, <1>6, FileStill

LEMMA LifeRefused ==
  ASSUME LifeInv, NEW f \in Files, refused(f)
  PROVE  LifeInv'
<1> USE Apart DEF LifeInv, GoTo, Gone, Claimed, GivenBack, files, threads
<1>0. UNCHANGED <<removal, late>> /\ OthersStill(f)
  BY DEF refused, OthersStill, LifeTypes
<1>1. LifeTypes'
  BY <1>0 DEF refused, LifeTypes, Places
<1>2. ThreadsSensible'
  BY <1>0 DEF refused, ThreadsSensible, LifeTypes
<1>3. \A d \in Channels : ~Detached(d) => Matched(d)'
  BY <1>0 DEF refused, StillWhole, Matched, ThreadsSensible, LifeTypes, HasFile, OthersStill
<1>4. \A d \in Channels : ~Detached(d) => Held(d)'
  BY <1>0 DEF refused, StillWhole, Held, Holders, ThreadsSensible, LifeTypes, OthersStill
<1>5. Quiet(f)
  BY <1>0 DEF refused, Quiet, Settled, NothingLeft, ThreadsSensible, LifeTypes, Detached
<1>6. SwapSensible'
  BY <1>0 DEF refused, SwapSensible, SwapsFileOf, OthersStill, ThreadsSensible, LifeTypes, MutexFree
<1> QED
  BY <1>0, <1>1, <1>2, <1>3, <1>4, <1>5, <1>6, FileStill

LEMMA LifeCall ==
  ASSUME LifeInv, NEW f \in Files, call(f)
  PROVE  LifeInv'
<1> USE Apart DEF LifeInv, GoTo, Gone, Claimed, GivenBack, files, threads
<1>0. UNCHANGED <<removal, late>> /\ OthersStill(f)
  BY DEF call, OthersStill, LifeTypes
<1>1. LifeTypes'
  BY <1>0 DEF call, LifeTypes, Places
<1>2. ThreadsSensible'
  BY <1>0 DEF call, ThreadsSensible, LifeTypes
<1>3. \A d \in Channels : ~Detached(d) => Matched(d)'
  BY <1>0 DEF call, StillWhole, Matched, ThreadsSensible, LifeTypes, HasFile, OthersStill
<1>4. \A d \in Channels : ~Detached(d) => Held(d)'
  <2>1. ASSUME NEW d \in Channels PROVE (f \in Holders(d))' <=> f \in Holders(d)
    BY <1>0 DEF call, Holders, ThreadsSensible, LifeTypes
  <2>2. OPEN' = OPEN
    BY DEF call
  <2> QED
    BY <1>0, <2>1, <2>2, HeldKept DEF StillWhole
<1>5. Quiet(f)
  BY <1>0 DEF call, Quiet, Settled, NothingLeft, ThreadsSensible, LifeTypes, Detached
<1>6. SwapSensible'
  BY <1>0 DEF call, SwapSensible, SwapsFileOf, OthersStill, ThreadsSensible, LifeTypes, MutexFree
<1> QED
  BY <1>0, <1>1, <1>2, <1>3, <1>4, <1>5, <1>6, FileStill

LEMMA LifeWait ==
  ASSUME LifeInv, NEW f \in Files, wait(f)
  PROVE  LifeInv'
<1> USE Apart DEF LifeInv, GoTo, Gone, Claimed, GivenBack, files, threads
<1>0. UNCHANGED <<removal, late>> /\ OthersStill(f)
  BY DEF wait, OthersStill, LifeTypes
<1>1. LifeTypes'
  BY <1>0 DEF wait, LifeTypes, Places
<1>2. ThreadsSensible'
  BY <1>0 DEF wait, ThreadsSensible, LifeTypes
<1>3. \A d \in Channels : ~Detached(d) => Matched(d)'
  BY <1>0 DEF wait, StillWhole, Matched, ThreadsSensible, LifeTypes, HasFile, OthersStill
<1>4. \A d \in Channels : ~Detached(d) => Held(d)'
  <2>1. ASSUME NEW d \in Channels PROVE (f \in Holders(d))' <=> f \in Holders(d)
    BY <1>0 DEF wait, Holders, ThreadsSensible, LifeTypes
  <2>2. OPEN' = OPEN
    BY DEF wait
  <2> QED
    BY <1>0, <2>1, <2>2, HeldKept DEF StillWhole
<1>5. Quiet(f)
  BY <1>0 DEF wait, Quiet, Settled, NothingLeft, ThreadsSensible, LifeTypes, Detached
<1>6. SwapSensible'
  BY <1>0 DEF wait, SwapSensible, SwapsFileOf, OthersStill, ThreadsSensible, LifeTypes, MutexFree
<1> QED
  BY <1>0, <1>1, <1>2, <1>3, <1>4, <1>5, <1>6, FileStill

LEMMA LifeServed ==
  ASSUME LifeInv, NEW f \in Files, served(f)
  PROVE  LifeInv'
<1> USE Apart DEF LifeInv, GoTo, Gone, Claimed, GivenBack, files, threads
<1>0. UNCHANGED <<removal, late>> /\ OthersStill(f)
  BY DEF served, OthersStill, LifeTypes
<1>1. LifeTypes'
  BY <1>0 DEF served, LifeTypes, Places
<1>2. ThreadsSensible'
  BY <1>0 DEF served, ThreadsSensible, LifeTypes
<1>3. \A d \in Channels : ~Detached(d) => Matched(d)'
  BY <1>0 DEF served, StillWhole, Matched, ThreadsSensible, LifeTypes, HasFile, OthersStill
<1>4. \A d \in Channels : ~Detached(d) => Held(d)'
  <2>1. ASSUME NEW d \in Channels PROVE (f \in Holders(d))' <=> f \in Holders(d)
    BY <1>0 DEF served, Holders, ThreadsSensible, LifeTypes
  <2>2. OPEN' = OPEN
    BY DEF served
  <2> QED
    BY <1>0, <2>1, <2>2, HeldKept DEF StillWhole
<1>5. Quiet(f)
  BY <1>0 DEF served, Quiet, Settled, NothingLeft, ThreadsSensible, LifeTypes, Detached
<1>6. SwapSensible'
  BY <1>0 DEF served, SwapSensible, SwapsFileOf, OthersStill, ThreadsSensible, LifeTypes, MutexFree
<1> QED
  BY <1>0, <1>1, <1>2, <1>3, <1>4, <1>5, <1>6, FileStill

LEMMA LifeReturn ==
  ASSUME LifeInv, NEW f \in Files, return(f)
  PROVE  LifeInv'
<1> USE Apart DEF LifeInv, GoTo, Gone, Claimed, GivenBack, files, threads
<1>0. UNCHANGED <<removal, late>> /\ OthersStill(f)
  BY DEF return, OthersStill, LifeTypes
<1>1. LifeTypes'
  BY <1>0 DEF return, LifeTypes, Places
<1>2. ThreadsSensible'
  BY <1>0 DEF return, ThreadsSensible, LifeTypes
<1>3. \A d \in Channels : ~Detached(d) => Matched(d)'
  BY <1>0 DEF return, StillWhole, Matched, ThreadsSensible, LifeTypes, HasFile, OthersStill
<1>4. \A d \in Channels : ~Detached(d) => Held(d)'
  <2>1. ASSUME NEW d \in Channels PROVE (f \in Holders(d))' <=> f \in Holders(d)
    BY <1>0 DEF return, Holders, ThreadsSensible, LifeTypes
  <2>2. OPEN' = OPEN
    BY DEF return
  <2> QED
    BY <1>0, <2>1, <2>2, HeldKept DEF StillWhole
<1>5. Quiet(f)
  BY <1>0 DEF return, Quiet, Settled, NothingLeft, ThreadsSensible, LifeTypes, Detached
<1>6. SwapSensible'
  BY <1>0 DEF return, SwapSensible, SwapsFileOf, OthersStill, ThreadsSensible, LifeTypes, MutexFree
<1> QED
  BY <1>0, <1>1, <1>2, <1>3, <1>4, <1>5, <1>6, FileStill

LEMMA LifeReleaseBegin ==
  ASSUME LifeInv, NEW f \in Files, release_begin(f)
  PROVE  LifeInv'
<1> USE Apart DEF LifeInv, GoTo, Gone, Claimed, GivenBack, files, threads
<1>0. UNCHANGED <<removal, late>> /\ OthersStill(f)
  BY DEF release_begin, OthersStill, LifeTypes
<1>1. LifeTypes'
  BY <1>0 DEF release_begin, LifeTypes, Places
<1>2. ThreadsSensible'
  BY <1>0 DEF release_begin, ThreadsSensible, LifeTypes
<1>3. \A d \in Channels : ~Detached(d) => Matched(d)'
  BY <1>0 DEF release_begin, StillWhole, Matched, ThreadsSensible, LifeTypes, HasFile, OthersStill
<1>4. \A d \in Channels : ~Detached(d) => Held(d)'
  <2>1. ASSUME NEW d \in Channels PROVE (f \in Holders(d))' <=> f \in Holders(d)
    BY <1>0 DEF release_begin, Holders, ThreadsSensible, LifeTypes
  <2>2. OPEN' = OPEN
    BY DEF release_begin
  <2> QED
    BY <1>0, <2>1, <2>2, HeldKept DEF StillWhole
<1>5. Quiet(f)
  BY <1>0 DEF release_begin, Quiet, Settled, NothingLeft, ThreadsSensible, LifeTypes, Detached
<1>6. SwapSensible'
  BY <1>0 DEF release_begin, SwapSensible, SwapsFileOf, OthersStill, ThreadsSensible, LifeTypes, MutexFree
<1> QED
  BY <1>0, <1>1, <1>2, <1>3, <1>4, <1>5, <1>6, FileStill

LEMMA LifeRelease ==
  ASSUME LifeInv, NEW f \in Files, release(f)
  PROVE  LifeInv'
<1> USE Apart DEF LifeInv, GoTo, Gone, Claimed, GivenBack, files, threads
<1>0. UNCHANGED <<removal, late>> /\ OthersStill(f)
  BY DEF release, OthersStill, LifeTypes
<1>1. LifeTypes'
  BY <1>0 DEF release, LifeTypes, Places
<1>2. ThreadsSensible'
  BY <1>0 DEF release, ThreadsSensible, LifeTypes
<1>3. \A d \in Channels : ~Detached(d) => Matched(d)'
  BY <1>0 DEF release, StillWhole, Matched, ThreadsSensible, LifeTypes, HasFile, OthersStill
<1>4. \A d \in Channels : ~Detached(d) => Held(d)'
  <2>1. ASSUME NEW d \in Channels, ~Detached(d) PROVE (f \in Holders(d))' <=> f \in Holders(d)
    <3>1. pc[f] = "leaving" /\ pc'[f] = "releasing" /\ chan'[f] = chan[f]
      BY DEF release, LifeTypes
    <3>2. chan[f] = d <=> private_data[f] = d
      BY <2>1, <3>1 DEF StillWhole, Matched, ThreadsSensible
    <3> QED
      BY <3>1, <3>2 DEF Holders
  <2>2. OPEN' = OPEN
    BY DEF release
  <2> QED
    BY <1>0, <2>1, <2>2, HeldKept DEF StillWhole
<1>5. Quiet(f)
  BY <1>0 DEF release, Quiet, Settled, NothingLeft, ThreadsSensible, LifeTypes, Detached
<1>6. SwapSensible'
  BY <1>0 DEF release, SwapSensible, SwapsFileOf, OthersStill, ThreadsSensible, LifeTypes, MutexFree
<1> QED
  BY <1>0, <1>1, <1>2, <1>3, <1>4, <1>5, <1>6, FileStill

LEMMA LifeReleaseDetached ==
  ASSUME LifeInv, NEW f \in Files, release_detached(f)
  PROVE  LifeInv'
<1> USE Apart DEF LifeInv, GoTo, Gone, Claimed, GivenBack, files, threads
<1>0. UNCHANGED <<removal, late>> /\ OthersStill(f)
  BY DEF release_detached, OthersStill, LifeTypes
<1>1. LifeTypes'
  BY <1>0 DEF release_detached, LifeTypes, Places
<1>2. ThreadsSensible'
  BY <1>0 DEF release_detached, ThreadsSensible, LifeTypes
<1>3. \A d \in Channels : ~Detached(d) => Matched(d)'
  BY <1>0 DEF release_detached, StillWhole, Matched, ThreadsSensible, LifeTypes, HasFile, OthersStill
<1>4. \A d \in Channels : ~Detached(d) => Held(d)'
  <2>1. ASSUME NEW d \in Channels, ~Detached(d) PROVE (f \in Holders(d))' <=> f \in Holders(d)
    <3>1. pc[f] = "open" /\ pc'[f] = "closed" /\ private_data[f] # d
      BY <2>1 DEF release_detached, LifeTypes, StillWhole, Matched, HasFile
    <3> QED
      BY <3>1 DEF Holders
  <2>2. OPEN' = OPEN
    BY DEF release_detached
  <2> QED
    BY <1>0, <2>1, <2>2, HeldKept DEF StillWhole
<1>5. Quiet(f)
  BY <1>0 DEF release_detached, Quiet, Settled, NothingLeft, ThreadsSensible, LifeTypes, Detached
<1>6. SwapSensible'
  BY <1>0 DEF release_detached, SwapSensible, SwapsFileOf, OthersStill, ThreadsSensible, LifeTypes, MutexFree
<1> QED
  BY <1>0, <1>1, <1>2, <1>3, <1>4, <1>5, <1>6, FileStill

LEMMA LifeReleaseClose ==
  ASSUME LifeInv, NEW f \in Files, release_close(f)
  PROVE  LifeInv'
<1> USE Apart DEF LifeInv, GoTo, Gone, Claimed, GivenBack, files, threads
<1>0. UNCHANGED <<removal, late>> /\ OthersStill(f)
  BY DEF release_close, OthersStill, LifeTypes
<1>1. LifeTypes'
  BY <1>0 DEF release_close, LifeTypes, Places
<1>2. ThreadsSensible'
  BY <1>0 DEF release_close, ThreadsSensible, LifeTypes
<1>3. \A d \in Channels : ~Detached(d) => Matched(d)'
  BY <1>0 DEF release_close, StillWhole, Matched, ThreadsSensible, LifeTypes, HasFile, OthersStill
<1>4. \A d \in Channels : ~Detached(d) => Held(d)'
  BY <1>0 DEF release_close, StillWhole, Held, Holders, ThreadsSensible, LifeTypes, OthersStill
<1>5. Quiet(f)
  BY <1>0 DEF release_close, Quiet, Settled, NothingLeft, ThreadsSensible, LifeTypes, Detached
<1>6. SwapSensible'
  BY <1>0 DEF release_close, SwapSensible, SwapsFileOf, OthersStill, ThreadsSensible, LifeTypes, MutexFree
<1> QED
  BY <1>0, <1>1, <1>2, <1>3, <1>4, <1>5, <1>6, FileStill

LEMMA LifeReleasePut ==
  ASSUME LifeInv, NEW f \in Files, release_put(f)
  PROVE  LifeInv'
<1> USE Apart DEF LifeInv, GoTo, Gone, Claimed, GivenBack, files, threads
<1>0. UNCHANGED <<removal, late>> /\ OthersStill(f)
  BY DEF release_put, OthersStill, LifeTypes
<1>1. LifeTypes'
  BY <1>0 DEF release_put, LifeTypes, Places
<1>2. ThreadsSensible'
  BY <1>0 DEF release_put, ThreadsSensible, LifeTypes
<1>3. \A d \in Channels : ~Detached(d) => Matched(d)'
  BY <1>0 DEF release_put, StillWhole, Matched, ThreadsSensible, LifeTypes, HasFile, OthersStill
<1>4. \A d \in Channels : ~Detached(d) => Held(d)'
  <2>1. ASSUME NEW d \in Channels PROVE (f \in Holders(d))' <=> f \in Holders(d)
    BY <1>0 DEF release_put, Holders, ThreadsSensible, LifeTypes
  <2>2. OPEN' = OPEN
    BY DEF release_put
  <2> QED
    BY <1>0, <2>1, <2>2, HeldKept DEF StillWhole
<1>5. Quiet(f)
  BY <1>0 DEF release_put, Quiet, Settled, NothingLeft, ThreadsSensible, LifeTypes, Detached
<1>6. SwapSensible'
  BY <1>0 DEF release_put, SwapSensible, SwapsFileOf, OthersStill, ThreadsSensible, LifeTypes, MutexFree
<1> QED
  BY <1>0, <1>1, <1>2, <1>3, <1>4, <1>5, <1>6, FileStill

LEMMA LifeFreePseudo ==
  ASSUME LifeInv, NEW f \in Files, free_pseudo(f)
  PROVE  LifeInv'
<1> USE Apart DEF LifeInv, GoTo, Gone, Claimed, GivenBack, files, threads
<1>0. UNCHANGED <<removal, late>> /\ OthersStill(f)
  BY DEF free_pseudo, OthersStill, LifeTypes
<1>1. LifeTypes'
  <2>1. pseudo_chans' \in Seq(Pseudos)
    BY Removed DEF free_pseudo, LifeTypes
  <2> QED
    BY <2>1 DEF free_pseudo, LifeTypes, Places
<1>2. ThreadsSensible'
  BY <1>0 DEF free_pseudo, ThreadsSensible, LifeTypes
<1>3. \A d \in Channels : ~Detached(d) => Matched(d)'
  BY <1>0 DEF free_pseudo, StillWhole, Matched, ThreadsSensible, LifeTypes, HasFile, OthersStill
<1>4. \A d \in Channels : ~Detached(d) => Held(d)'
  <2>1. ASSUME NEW d \in Channels PROVE (f \in Holders(d))' <=> f \in Holders(d)
    BY <1>0 DEF free_pseudo, Holders, ThreadsSensible, LifeTypes
  <2>2. OPEN' = OPEN
    BY DEF free_pseudo
  <2> QED
    BY <1>0, <2>1, <2>2, HeldKept DEF StillWhole
<1>5. Quiet(f)
  BY <1>0 DEF free_pseudo, Quiet, Settled, NothingLeft, ThreadsSensible, LifeTypes, Detached
<1>6. SwapSensible'
  BY <1>0 DEF free_pseudo, SwapSensible, SwapsFileOf, OthersStill, ThreadsSensible, LifeTypes, MutexFree
<1> QED
  BY <1>0, <1>1, <1>2, <1>3, <1>4, <1>5, <1>6, FileStill

LEMMA LifeUnassign ==
  ASSUME LifeInv, unassign
  PROVE  LifeInv'
<1> USE Apart DEF LifeInv
<1>1. /\ removal.stage = "plugged" /\ removal' = [stage |-> "detach", line |-> FirstLine]
      /\ UNCHANGED <<OPEN, chan_file, private_data, f_op, pc, chan, pseudo_chans, freed, late>>
  BY DEF unassign, Stage, files, threads
<1>2. (\A c : ~Detached(c) /\ ~Detached(c)') /\ ~Taking /\ ~Taking'
  <2>1. \A c \in Lines : ~(c < FirstLine)
    BY FirstLineIs, InOrder
  <2> QED
    BY <1>1, <2>1 DEF Detached, Taking
<1>3. LifeTypes'
  BY <1>1, FirstLineIs DEF LifeTypes, Stages
<1>4. ThreadsSensible'
  BY <1>1 DEF ThreadsSensible
<1>5. StillWhole'
  BY <1>1, <1>2 DEF StillWhole, Matched, Held, Holders, HasFile
<1>6. NothingLeft' /\ ClosedForIt' /\ SwapSensible'
  BY <1>1, <1>2 DEF NothingLeft, ClosedForIt, SwapSensible
<1> QED
  BY <1>3, <1>4, <1>5, <1>6

(* Another line is detached that no file has: nobody but those caught half *)
(* way has to do with it.                                                  *)
LEMMA LifeNoFile ==
  ASSUME LifeInv, removal.stage \in {"detach", "take"}, chan_file[removal.line] = NoFile,
         removal' \in [stage : {"close", "oops"}, line : {removal.line}],
         late' = late \cup HalfWay(removal.line),
         UNCHANGED <<OPEN, chan_file, private_data, f_op, pc, chan, pseudo_chans, freed>>
  PROVE  LifeInv'
<1> USE Apart DEF LifeInv
<1> DEFINE l == removal.line
<1>1. l \in Lines /\ l \in Channels /\ ~Detached(l) /\ ~Taking
  BY DEF LifeTypes, Detached, Taking
<1>2. (\A d : Detached(d)' <=> Detached(d) \/ d = l) /\ Taking' /\ removal'.line = l
      /\ removal'.stage \in {"close", "oops"}
  <2>1. removal'.line = l /\ removal'.stage \in {"close", "oops"}
    OBVIOUS
  <2>2. Taking'
    BY <2>1 DEF Taking
  <2>3. \A d : Detached(d)' <=> d \in Lines /\ d <= l
    BY <2>1, <2>2 DEF Detached, Taking
  <2>4. \A d : Detached(d) <=> d \in Lines /\ d < l
    BY <1>1 DEF Detached, Taking
  <2>5. \A d \in Lines : d <= l <=> d < l \/ d = l
    BY <1>1, InOrder
  <2> QED
    BY <1>1, <2>1, <2>2, <2>3, <2>4, <2>5
<1>3. \A f \in Files : private_data[f] # l /\ ~HasFile(l, f)
  <2>1. ASSUME NEW f \in Files, HasFile(l, f) PROVE FALSE
    <3>1. Matched(l)
      BY <1>1 DEF StillWhole
    <3>2. chan_file[l] = f
      BY <2>1, <3>1 DEF Matched
    <3> QED
      BY <3>2
  <2> QED
    BY <1>1, <2>1 DEF ThreadsSensible, HasFile
<1>4. \A f \in Files \ late' : chan[f] # l
  <2> SUFFICES ASSUME NEW f \in Files, f \notin late', chan[f] = l PROVE FALSE
    OBVIOUS
  <2>1. pc[f] = "calling"
    BY <1>1 DEF HalfWay, LifeTypes, ThreadsSensible, Places
  <2>2. Matched(l)
    BY <1>1 DEF StillWhole
  <2>3. private_data[f] = l
    BY <2>1, <2>2 DEF Matched
  <2> QED
    BY <1>3, <2>3
<1>5. LifeTypes'
  BY <1>1, <1>2 DEF LifeTypes, Stages, HalfWay
<1>6. ThreadsSensible'
  BY DEF ThreadsSensible
<1>7. StillWhole'
  BY <1>2 DEF StillWhole, Matched, Held, Holders, HasFile
<1> HIDE DEF l
<1>8. NothingLeft'
  <2>1. \A f \in Files \ late : ~Detached(private_data[f]) /\ ~Detached(chan[f])
    BY <1>1 DEF NothingLeft
  <2>2. \A f \in Files \ late' : f \notin late
    OBVIOUS
  <2> QED
    BY <1>2, <1>3, <1>4, <2>1, <2>2 DEF NothingLeft
<1>9. ClosedForIt'
  <2> SUFFICES ASSUME late' = {}, NEW d \in OPEN, Detached(d)' PROVE FALSE
    BY DEF ClosedForIt
  <2>1. late = {} /\ \A f \in Files : chan[f] # l
    BY <1>4
  <2>2. ~Detached(d)
    BY <1>1, <2>1 DEF ClosedForIt, Leaving
  <2>3. d = l
    BY <1>2, <2>2
  <2>4. Holders(l) = {}
    BY <1>3, <2>1 DEF Holders
  <2> QED
    BY <1>1, <2>3, <2>4 DEF StillWhole, Held
<1> QED
  BY <1>2, <1>5, <1>6, <1>7, <1>8, <1>9 DEF SwapSensible

LEMMA LifeDetach ==
  ASSUME LifeInv, detach
  PROVE  LifeInv'
<1> USE Apart DEF LifeInv
<1>1. /\ removal.stage = "detach" /\ removal.line \in Lines
      /\ UNCHANGED <<OPEN, chan_file, private_data, f_op, pc, chan, pseudo_chans, freed>>
  BY DEF detach, files, threads, LifeTypes
<1>2. CASE chan_file[removal.line] = NoFile
  <2>1. removal' = [stage |-> "close", line |-> removal.line] /\ late' = late \cup HalfWay(removal.line)
    BY <1>2 DEF detach, Stage
  <2> QED
    BY <1>1, <1>2, <2>1, LifeNoFile
<1>3. CASE chan_file[removal.line] # NoFile
  <2>1. removal' = [stage |-> "take", line |-> removal.line] /\ late' = late
    BY <1>3 DEF detach, Stage
  <2>2. (\A d : Detached(d)' <=> Detached(d)) /\ ~Taking /\ ~Taking'
    BY <1>1, <2>1 DEF Detached, Taking
  <2>3. LifeTypes'
    BY <1>1, <2>1 DEF LifeTypes, Stages
  <2>4. ThreadsSensible'
    BY <1>1 DEF ThreadsSensible
  <2>5. StillWhole'
    BY <1>1, <2>2 DEF StillWhole, Matched, Held, Holders, HasFile
  <2>6. NothingLeft' /\ ClosedForIt'
    BY <1>1, <2>1, <2>2 DEF NothingLeft, ClosedForIt, Leaving
  <2>7. SwapSensible'
    BY <2>1 DEF SwapSensible
  <2> QED
    BY <2>3, <2>4, <2>5, <2>6, <2>7
<1> QED
  BY <1>2, <1>3

LEMMA LifeTake ==
  ASSUME LifeInv, take
  PROVE  LifeInv'
<1> USE Apart DEF LifeInv
<1> DEFINE l == removal.line
           f == chan_file[l]
<1>1. /\ removal.stage = "take" /\ l \in Lines /\ l \in Channels
      /\ late' = late \cup HalfWay(l)
      /\ UNCHANGED <<OPEN, chan_file, f_op, pc, chan, pseudo_chans, freed>>
  BY DEF take, threads, LifeTypes
<1>2. CASE f = NoFile
  <2>1. removal' = [stage |-> "oops", line |-> l] /\ UNCHANGED private_data
    BY <1>2 DEF take, Stage
  <2> QED
    BY <1>1, <1>2, <2>1, LifeNoFile
<1>3. CASE f # NoFile
  <2>1. removal' = [stage |-> "swap", line |-> l] /\ private_data' = [private_data EXCEPT ![f] = None]
    BY <1>3 DEF take, Stage
  <2>2. ~Detached(l) /\ ~Taking
    BY <1>1 DEF Detached, Taking
  <2>3. Matched(l) /\ Held(l)
    BY <1>1, <2>2 DEF StillWhole
  <2>4. f \in Files /\ HasFile(l, f) /\ f_op[f] = "dahdi_chan_fops"
    BY <1>1, <1>3, <2>3 DEF Matched, LifeTypes
  <2>5. (\A d : Detached(d)' <=> Detached(d) \/ d = l) /\ Taking'
    BY <1>1, <2>1, InOrder, ZenonT(40) DEF Detached, Taking
  <2> HIDE DEF l, f
  <2>6. ASSUME NEW g \in Files
        PROVE  /\ private_data'[g] = (IF g = f THEN None ELSE private_data[g])
               /\ private_data'[g] # l
               /\ chan[g] = l /\ g \notin late' => g = f /\ pc[g] = "calling"
    <3>1. private_data[g] = l => g = f
      <4>1. private_data[g] = l => HasFile(l, g)
        BY <1>1 DEF ThreadsSensible, HasFile
      <4> QED
        BY <2>3, <4>1 DEF Matched, f
    <3>2. private_data'[g] = (IF g = f THEN None ELSE private_data[g])
      BY <2>1 DEF LifeTypes
    <3>3. chan[g] = l /\ g \notin late' => pc[g] = "calling"
      BY <1>1 DEF HalfWay, LifeTypes, ThreadsSensible, Places
    <3>4. chan[g] = l /\ pc[g] = "calling" => private_data[g] = l
      BY <2>3 DEF Matched
    <3> QED
      BY <1>1, <3>1, <3>2, <3>3, <3>4
  <2>7. LifeTypes'
    BY <1>1, <2>1, <2>4 DEF LifeTypes, Stages, HalfWay
  <2>8. ThreadsSensible'
    BY <1>1, <2>6 DEF ThreadsSensible
  <2>9. StillWhole'
    <3> SUFFICES ASSUME NEW d \in Channels, ~Detached(d), d # l PROVE Matched(d)' /\ Held(d)'
      BY <2>5 DEF StillWhole
    <3>1. private_data[f] = l
      BY <2>4 DEF HasFile
    <3>2. \A g \in Files : private_data'[g] = d <=> private_data[g] = d
      BY <2>6, <3>1
    <3>3. Holders(d)' = Holders(d)
      BY <1>1, <3>2 DEF Holders
    <3>4. Matched(d)'
      BY <1>1, <3>2 DEF StillWhole, Matched, HasFile, LifeTypes
    <3> QED
      BY <1>1, <3>3, <3>4 DEF StillWhole, Held
  <2>10. NothingLeft'
    <3>1. \A g \in Files : g \notin late' => g \notin late /\ ~Detached(private_data[g]) /\ ~Detached(chan[g])
      BY <1>1, <2>2 DEF NothingLeft
    <3>2. ASSUME NEW g \in Files, g \notin late' PROVE ~Detached(private_data[g])'
      BY <2>5, <2>6, <3>1, <3>2, <1>1 DEF Detached
    <3>3. ASSUME NEW g \in Files, g \notin late', Detached(chan[g])'
          PROVE  g = f /\ pc[g] = "calling" /\ chan[g] = l
      BY <1>1, <2>5, <2>6, <3>1, <3>3
    <3>4. ASSUME pc[f] = "calling" PROVE Settled(l)'
      <4>1. l \in OPEN /\ f \in Holders(l)
        BY <1>1, <2>3, <2>4 DEF Held, Holders, HasFile
      <4>2. ASSUME NEW h \in Files, chan[h] = l PROVE pc[h] \in {"found", "calling", "closing"}
        <5>1. pc[h] \notin {"claimed", "releasing"}
          BY <2>3, <3>4, <4>1, <4>2 DEF Held, Holders
        <5>2. pc[h] # "leaving"
          BY <2>3, <3>4, <4>2, <2>6 DEF Matched, HasFile, f
        <5> QED
          BY <1>1, <4>2, <5>1, <5>2 DEF LifeTypes, ThreadsSensible, Places
      <4> QED
        <5>1. l' = l /\ OPEN' = OPEN /\ pc' = pc /\ chan' = chan
          BY <1>1, <2>1 DEF l
        <5>2. \A h \in Files : private_data'[h] # l
          BY <2>6
        <5> QED
          BY <4>1, <4>2, <5>1, <5>2 DEF Settled
    <3>5. chan_file'[l] = f /\ removal'.line = l /\ l' = l
      BY <1>1, <2>1 DEF f, l
    <3>6. ASSUME NEW g \in Files, g \notin late', Detached(chan[g])'
          PROVE  chan_file'[chan'[g]] = g /\ Settled(chan[g])'
      <4>1. g = f /\ pc[f] = "calling" /\ chan'[g] = l'
        BY <1>1, <3>3, <3>5, <3>6
      <4> QED
        BY <3>4, <3>5, <4>1 DEF Settled
    <3> QED
      BY <1>1, <2>1, <2>5, <3>2, <3>3, <3>5, <3>6 DEF NothingLeft
  <2>11. ClosedForIt'
    <3> SUFFICES ASSUME late' = {}, NEW d \in OPEN, Detached(d)' PROVE (Leaving(d) /\ removal.stage # "sleep")'
      BY <1>1 DEF ClosedForIt
    <3>1. ~Detached(d)
      BY <1>1, <2>2 DEF ClosedForIt, Leaving
    <3>2. d = l
      BY <2>5, <3>1
    <3> QED
      BY <1>1, <1>3, <2>1, <2>5, <3>2 DEF Leaving, f
  <2>12. SwapSensible'
    <3>1. private_data[f] = l /\ pc[f] \in {"open", "calling", "leaving"} /\ private_data'[f] = None
      BY <2>4, <2>6 DEF HasFile
    <3>2. pc[f] # "open" => chan[f] = l
      BY <2>4, <3>1, <1>1 DEF ThreadsSensible
    <3>3. \A g \in Files : chan_file'[removal'.line] = g => g = f
      BY <1>1, <2>1 DEF f
    <3> QED
      BY <1>1, <2>1, <2>4, <3>1, <3>2, <3>3 DEF SwapSensible, SwapsFileOf
  <2> QED
    BY <2>7, <2>8, <2>9, <2>10, <2>11, <2>12
<1> QED
  BY <1>2, <1>3

(* On to another stage, with the same line. *)
LEMMA LifeStage ==
  ASSUME LifeInv, removal.stage \in {"swap", "close"},
         removal' \in [stage : {"oops", "close", "put"}, line : {removal.line}],
         ThreadsSensible', StillWhole', f_op' \in [Files -> {"dahdi_fops", "dahdi_chan_fops", "nodev_fops"}],
         UNCHANGED <<OPEN, chan_file, private_data, pc, chan, pseudo_chans, freed, late>>
  PROVE  LifeInv'
<1> USE DEF LifeInv
<1>1. (\A d : Detached(d)' <=> Detached(d)) /\ Taking /\ Taking'
      /\ removal'.stage \in {"oops", "close", "put"} /\ removal'.line = removal.line
  BY DEF Detached, Taking
<1>2. LifeTypes'
  BY <1>1 DEF LifeTypes, Stages
<1>3. NothingLeft'
  BY <1>1 DEF NothingLeft, Settled
<1>4. ClosedForIt'
  BY <1>1 DEF ClosedForIt, Leaving
<1>5. SwapSensible'
  BY <1>1 DEF SwapSensible
<1> QED
  BY <1>2, <1>3, <1>4, <1>5

LEMMA LifeSwap ==
  ASSUME LifeInv, swap
  PROVE  LifeInv'
<1> USE Apart DEF LifeInv
<1> DEFINE l == removal.line
           f == chan_file[l]
<1>1. /\ removal.stage = "swap" /\ l \in Lines /\ l \in Channels
      /\ removal' \in [stage : {"oops", "close"}, line : {l}]
      /\ f_op' = IF f = NoFile THEN f_op ELSE [f_op EXCEPT ![f] = "nodev_fops"]
      /\ UNCHANGED <<OPEN, chan_file, private_data, pc, chan, pseudo_chans, freed, late>>
  BY DEF swap, Stage, threads, LifeTypes
<1>2. (\A d : Detached(d)' <=> Detached(d)) /\ Detached(l)
  BY <1>1 DEF Detached, Taking, LifeTypes
<1>3. f # NoFile => f \in Files /\ private_data[f] \in {l, None}
  BY <1>1 DEF SwapSensible, SwapsFileOf, LifeTypes
<1> HIDE DEF l, f
<1>4. f_op' \in [Files -> {"dahdi_fops", "dahdi_chan_fops", "nodev_fops"}]
  BY <1>1, <1>3 DEF LifeTypes
<1>5. ThreadsSensible'
  BY <1>1 DEF ThreadsSensible
<1>6. StillWhole'
  <2> SUFFICES ASSUME NEW d \in Channels, ~Detached(d) PROVE Matched(d)' /\ Held(d)'
    BY <1>2 DEF StillWhole
  <2>1. \A g \in Files : HasFile(d, g) => f_op'[g] = f_op[g]
    BY <1>1, <1>2, <1>3 DEF HasFile, LifeTypes
  <2>2. Matched(d)'
    BY <1>1, <2>1 DEF StillWhole, Matched, HasFile
  <2> QED
    BY <1>1, <2>2 DEF StillWhole, Held, Holders
<1> QED
  BY <1>1, <1>4, <1>5, <1>6, LifeStage DEF l

LEMMA LifeUnregClose ==
  ASSUME LifeInv, unreg_close
  PROVE  LifeInv'
<1> USE Apart DEF LifeInv
<1>1. /\ removal.stage = "close" /\ removal' \in [stage : {"put"}, line : {removal.line}]
      /\ UNCHANGED <<OPEN, chan_file, private_data, f_op, pc, chan, pseudo_chans, freed, late>>
  BY DEF unreg_close, Stage, files
<1>2. \A d : Detached(d)' <=> Detached(d)
  BY <1>1 DEF Detached, Taking
<1>3. ThreadsSensible' /\ StillWhole'
  BY <1>1, <1>2 DEF ThreadsSensible, StillWhole, Matched, Held, Holders, HasFile
<1>4. f_op' \in [Files -> {"dahdi_fops", "dahdi_chan_fops", "nodev_fops"}]
  BY <1>1 DEF LifeTypes
<1> QED
  BY <1>1, <1>3, <1>4, LifeStage

(* The removal is done with a line. *)
LEMMA LifeLineDone ==
  ASSUME LifeInv, Taking, LineDone(removal.line),
         late \subseteq late', late' \subseteq Files,
         \A f \in Files : f \notin late' => chan[f] # removal.line,
         late' = {} => removal.line \notin OPEN,
         UNCHANGED <<OPEN, chan_file, private_data, f_op, pc, chan, pseudo_chans>>
  PROVE  LifeInv'
<1> USE Apart DEF LifeInv
<1> DEFINE l == removal.line
<1>1. l \in Lines /\ removal.stage \in Stages
  BY DEF LifeTypes, Taking
<1>2. /\ removal' \in [stage : {"detach", "unplugged"}, line : Lines \cup {None}]
      /\ removal'.stage = "unplugged" <=> removal'.line = None
      /\ \A d \in Lines : Detached(d)' <=> d <= l
      /\ ~Taking' /\ removal'.stage # "plugged"
      /\ freed' = freed \/ (freed' = Lines /\ removal'.stage = "unplugged")
  BY <1>1, DoneWith
<1>3. \A d : Detached(d)' <=> Detached(d)
  BY <1>2 DEF Detached, Taking
<1>4. freed = {} /\ removal'.stage \in {"detach", "unplugged"}
  BY <1>2 DEF LifeTypes, Taking
<1>5. LifeTypes'
  BY <1>2, <1>4 DEF LifeTypes, Stages
<1>6. ThreadsSensible'
  BY DEF ThreadsSensible
<1>7. StillWhole'
  BY <1>3 DEF StillWhole, Matched, Held, Holders, HasFile
<1>8. NothingLeft'
  <2>1. \A g \in Files : g \notin late' => ~Detached(private_data[g]) /\ ~Detached(chan[g])
    BY DEF NothingLeft
  <2> QED
    BY <1>3, <2>1 DEF NothingLeft
<1>9. ClosedForIt'
  BY <1>3 DEF ClosedForIt, Leaving
<1> QED
  BY <1>4, <1>5, <1>6, <1>7, <1>8, <1>9 DEF SwapSensible

LEMMA LifeUnregOpen ==
  ASSUME LifeInv, unreg_open
  PROVE  LifeInv'
<1> USE Apart DEF LifeInv
<1> DEFINE l == removal.line
<1>1. /\ removal.stage = "put" /\ l \in Lines /\ l <= l /\ Taking /\ Detached(l)
      /\ UNCHANGED <<chan_file, private_data, f_op, pc, chan, pseudo_chans, late>>
  BY DEF unreg_open, LifeTypes, files, threads, Taking, Detached
<1>2. CASE chan_file[l] = NoFile
  <2>1. LineDone(l) /\ UNCHANGED OPEN
    BY <1>2 DEF unreg_open
  <2>2. \A f \in Files : f \notin late => chan[f] # l
    BY <1>1, <1>2 DEF NothingLeft
  <2>3. late = {} => l \notin OPEN
    BY <1>1, <1>2 DEF ClosedForIt, Leaving
  <2> QED
    BY <1>1, <2>1, <2>2, <2>3, LifeLineDone DEF LifeTypes
<1>3. CASE chan_file[l] # NoFile
  <2>1. removal' = [stage |-> "sleep", line |-> l] /\ OPEN' = OPEN \ {l} /\ freed' = freed
    BY <1>3 DEF unreg_open, Stage
  <2>2. (\A d : Detached(d)' <=> Detached(d)) /\ Taking'
    BY <1>1, <2>1 DEF Detached, Taking
  <2> HIDE DEF l
  <2>3. LifeTypes'
    BY <1>1, <2>1 DEF LifeTypes, Stages
  <2>4. ThreadsSensible'
    BY <1>1 DEF ThreadsSensible
  <2>5. StillWhole'
    <3> SUFFICES ASSUME NEW d \in Channels, ~Detached(d) PROVE Matched(d)' /\ Held(d)'
      BY <2>2 DEF StillWhole
    <3>1. d \in OPEN' <=> d \in OPEN
      BY <1>1, <2>1
    <3>2. Matched(d) /\ Held(d)
      BY DEF StillWhole
    <3> QED
      BY <1>1, <3>1, <3>2 DEF Matched, Held, Holders, HasFile
  <2>6. NothingLeft'
    BY <1>1, <2>1, <2>2 DEF NothingLeft, l
  <2>7. ClosedForIt'
    <3> SUFFICES ASSUME late = {}, NEW d \in OPEN', Detached(d) PROVE FALSE
      BY <1>1, <2>2 DEF ClosedForIt
    <3>1. d \in OPEN /\ d # l
      BY <2>1
    <3> QED
      BY <3>1 DEF ClosedForIt, Leaving, l
  <2>8. SwapSensible'
    BY <2>1 DEF SwapSensible
  <2> QED
    BY <2>3, <2>4, <2>5, <2>6, <2>7, <2>8
<1> QED
  BY <1>2, <1>3

LEMMA LifeUnregEnd ==
  ASSUME LifeInv, unreg_end
  PROVE  LifeInv'
<1> USE Apart DEF LifeInv
<1>1. /\ removal.stage = "sleep" /\ Taking /\ removal.line \in Lines
      /\ late' = late \cup CallersOf(removal.line)
      /\ LineDone(removal.line)
      /\ UNCHANGED <<OPEN, chan_file, private_data, f_op, pc, chan, pseudo_chans>>
  BY DEF unreg_end, Taking, files, threads, LifeTypes
<1>2. Detached(removal.line)
  BY <1>1 DEF Detached
<1>3. \A f \in Files : f \notin late' => chan[f] # removal.line
  BY <1>1, <1>2 DEF NothingLeft, CallersOf
<1>4. late' = {} => removal.line \notin OPEN
  BY <1>1, <1>2 DEF ClosedForIt
<1>5. late \subseteq late' /\ late' \subseteq Files
  BY <1>1 DEF LifeTypes, CallersOf
<1> QED
  BY <1>1, <1>3, <1>4, <1>5, LifeLineDone

LEMMA LifeAtFirst == Init => LifeInv
<1> SUFFICES ASSUME Init PROVE LifeInv
  OBVIOUS
<1> USE Apart DEF Init
<1>1. LifeTypes
  BY DEF LifeTypes, Places, Stages
<1>2. ThreadsSensible
  BY DEF ThreadsSensible
<1>3. ASSUME NEW c \in Channels PROVE Matched(c) /\ Held(c)
  BY DEF Matched, Held, Holders, HasFile
<1>4. NothingLeft /\ ClosedForIt /\ SwapSensible
  BY DEF NothingLeft, ClosedForIt, SwapSensible, Detached, Taking
<1> QED
  BY <1>1, <1>2, <1>3, <1>4 DEF LifeInv, StillWhole

LEMMA LifeStep == LifeInv /\ [Next]_vars => LifeInv'
<1> SUFFICES ASSUME LifeInv, [Next]_vars PROVE LifeInv'
  OBVIOUS
<1>1. ASSUME NEW f \in Files, FileStep(f) PROVE LifeInv'
  BY <1>1, LifeFindLine, LifeAllocPseudo, LifeBusy, LifeClaim, LifeClaimFails, LifeOpened,
     LifeRefused, LifeCall, LifeWait, LifeServed, LifeReturn, LifeReleaseBegin, LifeRelease,
     LifeReleaseDetached, LifeReleaseClose, LifeReleasePut, LifeFreePseudo
  DEF FileStep
<1>2. CASE UNCHANGED vars
  BY <1>2 DEF vars, files, threads, LifeInv, LifeTypes, ThreadsSensible, StillWhole, Matched, Held,
              NothingLeft, Settled, ClosedForIt, SwapSensible, SwapsFileOf, HasFile, Holders,
              Detached, Leaving, Taking
<1>3. CASE Removal
  <2>1. oops => UNCHANGED vars
    BY DEF oops
  <2> QED
    BY <1>2, <1>3, <2>1, LifeUnassign, LifeDetach, LifeTake, LifeSwap, LifeUnregClose, LifeUnregOpen,
       LifeUnregEnd
    DEF Removal
<1> QED
  BY <1>1, <1>2, <1>3 DEF Next

LEMMA LifeAlways == Spec => []LifeInv
BY LifeAtFirst, LifeStep, PTL DEF Spec

(* One file at a time has a channel open, and a closed channel can be      *)
(* claimed: of every channel a removal has not detached, and of the others *)
(* as long as it caught nobody half way (dahdi_specchan_open,              *)
(* dahdi_specchan_release, dahdi_chan_unreg).                              *)
THEOREM ChanOneHolder == Spec => []OneHolder
<1>1. LifeInv => OneHolder
  <2> SUFFICES ASSUME LifeInv, NEW c \in Channels, Detached(c) => late = {}
               PROVE  /\ Cardinality(Holders(c)) <= 1
                      /\ Holders(c) # {} => c \in OPEN
                      /\ c \in OPEN => Holders(c) # {} \/ removal.line = c
    BY DEF OneHolder
  <2>1. CASE Holders(c) = {}
    <3>1. Cardinality({}) = 0
      BY FS_EmptySet
    <3>2. c \in OPEN => removal.line = c
      BY <2>1 DEF LifeInv, StillWhole, Held, ClosedForIt, Leaving
    <3> QED
      BY <2>1, <3>1, <3>2
  <2>2. CASE Holders(c) # {}
    <3>1. ~Detached(c)
      BY <2>2 DEF LifeInv, NothingLeft, Holders
    <3>2. Held(c)
      BY <3>1 DEF LifeInv, StillWhole
    <3>3. PICK f : Holders(c) = {f}
      BY <2>2, <3>2 DEF Held
    <3>4. Cardinality({f}) = 1
      BY FS_Singleton
    <3> QED
      BY <3>2, <3>3, <3>4 DEF Held
  <2> QED
    BY <2>1, <2>2
<1> QED
  BY <1>1, LifeAlways, PTL

(* Only a thread the removal caught half way uses a channel the driver has *)
(* freed (dahdi_chan_unreg, dahdi_specchan_open, dahdi_specchan_release).  *)
THEOREM ChanFreedUsedLate == Spec => []FreedUsedLate
<1>1. LifeInv => FreedUsedLate
  <2> SUFFICES ASSUME LifeInv, NEW f \in Files, chan[f] \in freed, f \notin late PROVE FALSE
    BY DEF FreedUsedLate
  <2>1. Detached(chan[f]) /\ ~Taking
    BY DEF LifeInv, LifeTypes, Detached, Taking
  <2> QED
    BY <2>1 DEF LifeInv, NothingLeft
<1> QED
  BY <1>1, LifeAlways, PTL
-----------------------------------------------------------------------------
(* The list of pseudo channels, whose numbers belong to one file each.     *)
OwnedBy(f) == {private_data[f], chan[f]} \cap Pseudos

PseudoList ==
  /\ \A i, j \in 1..Len(pseudo_chans) : i < j => pseudo_chans[i] < pseudo_chans[j]
  /\ \A i \in 1..Len(pseudo_chans) : \E f \in Files : pseudo_chans[i] \in OwnedBy(f)
  /\ \A f \in Files : \A c \in OwnedBy(f) : \E i \in 1..Len(pseudo_chans) : pseudo_chans[i] = c
  /\ \A f, g \in Files : f # g => OwnedBy(f) \cap OwnedBy(g) = {}

(* Where a file has its pseudo channel while it is opened or closed. *)
PseudoHeld ==
  \A f \in Files :
    /\ pc[f] \in {"closed", "releasing", "closing", "freeing"} => private_data[f] = None
    /\ pc[f] \in {"found", "claimed"} =>
         private_data[f] = IF chan[f] \in Pseudos THEN chan[f] ELSE None

PseudoInv == PseudoList /\ PseudoHeld

LEMMA PseudoKept ==
  ASSUME PseudoList, UNCHANGED pseudo_chans, \A f \in Files : OwnedBy(f)' = OwnedBy(f)
  PROVE  PseudoList'
BY DEF PseudoList

(* A pseudo channel that has been found is not open. *)
LEMMA PseudoNotBusy ==
  ASSUME LifeInv, PseudoInv, NEW f \in Files, pc[f] = "found", chan[f] \in Pseudos
  PROVE  chan[f] \notin OPEN
<1> SUFFICES ASSUME chan[f] \in OPEN PROVE FALSE
  OBVIOUS
<1>1. chan[f] \in Channels /\ ~Detached(chan[f])
  BY Apart DEF LifeInv, LifeTypes, Detached
<1>2. PICK g \in Files : g \in Holders(chan[f])
  BY <1>1 DEF LifeInv, StillWhole, Held, Holders
<1>3. f # g /\ chan[f] \in OwnedBy(f) /\ chan[f] \in OwnedBy(g)
  BY <1>2 DEF Holders, OwnedBy
<1> QED
  BY <1>3 DEF PseudoInv, PseudoList

(* What a file does to anything but the list. *)
LEMMA PseudoFile ==
  ASSUME MayFail \subseteq Lines, LifeInv, PseudoInv, NEW f \in Files,
         FileStep(f), ~alloc_pseudo(f), ~free_pseudo(f)
  PROVE  PseudoInv'
<1> USE Apart DEF LifeInv, PseudoInv, GoTo, Gone, files, threads
<1> DEFINE SameOwners == UNCHANGED pseudo_chans /\ PseudoHeld' /\ \A g \in Files : OwnedBy(g)' = OwnedBy(g)
<1>1. ASSUME NEW c \in Lines, find_line(f, c) PROVE SameOwners
  BY <1>1 DEF find_line, PseudoHeld, OwnedBy, LifeTypes, ThreadsSensible
<1>2. claim(f) => SameOwners
  BY DEF claim, PseudoHeld, OwnedBy, LifeTypes, ThreadsSensible
<1>3. ASSUME claim_fails(f) PROVE SameOwners
  <2>1. chan[f] \in Lines /\ private_data[f] = None
    BY <1>3 DEF claim_fails, PseudoHeld
  <2>2. pc' = [pc EXCEPT ![f] = "closed"] /\ chan' = [chan EXCEPT ![f] = None]
    BY <1>3 DEF claim_fails
  <2>3. \A g \in Files : g # f => private_data'[g] = private_data[g] /\ chan'[g] = chan[g]
    BY <1>3 DEF claim_fails, LifeTypes
  <2>4. OwnedBy(f)' = OwnedBy(f)
    <3> HIDE DEF LifeInv, PseudoInv
    <3>1. private_data'[f] = None /\ chan'[f] = None
      BY <1>3, <2>1, <2>2 DEF claim_fails, LifeInv, LifeTypes
    <3>2. OwnedBy(f) = {}
      BY <2>1 DEF OwnedBy
    <3>3. OwnedBy(f)' = {}
      BY <3>1 DEF OwnedBy
    <3> QED
      BY <3>2, <3>3
  <2>5. \A g \in Files : OwnedBy(g)' = OwnedBy(g)
    BY <2>3, <2>4 DEF OwnedBy
  <2>6. PseudoHeld'
    BY <1>3, <2>1, <2>2, <2>3 DEF claim_fails, PseudoHeld, LifeTypes
  <2> QED
    BY <1>3, <2>5, <2>6 DEF claim_fails
<1>4. opened(f) => SameOwners
  BY DEF opened, PseudoHeld, OwnedBy, LifeTypes, ThreadsSensible
<1>5. refused(f) => SameOwners
  BY DEF refused, PseudoHeld, OwnedBy, LifeTypes, ThreadsSensible
<1>6. call(f) => SameOwners
  BY DEF call, PseudoHeld, OwnedBy, LifeTypes, ThreadsSensible
<1>7. wait(f) => SameOwners
  BY DEF wait, PseudoHeld, OwnedBy, LifeTypes, ThreadsSensible
<1>8. served(f) => SameOwners
  BY DEF served, PseudoHeld, OwnedBy, LifeTypes, ThreadsSensible
<1>9. ASSUME return(f) PROVE SameOwners
  <2>1. private_data[f] = chan[f] \/ chan[f] \in Lines
    <3>1. pc[f] = "calling" /\ chan[f] \in Channels
      BY <1>9 DEF return, LifeTypes, ThreadsSensible
    <3>2. chan[f] \in Pseudos => ~Detached(chan[f])
      BY DEF Detached
    <3> QED
      BY <3>1, <3>2 DEF StillWhole, Matched
  <2>2. pc' = [pc EXCEPT ![f] = "open"] /\ chan' = [chan EXCEPT ![f] = None]
    BY <1>9 DEF return
  <2>3. \A g \in Files : g # f => private_data'[g] = private_data[g] /\ chan'[g] = chan[g]
    BY <1>9 DEF return, LifeTypes
  <2>4. OwnedBy(f)' = OwnedBy(f)
    <3>1. private_data'[f] = private_data[f] /\ chan'[f] = None
      BY <1>9, <2>2 DEF return, LifeTypes
    <3>2. OwnedBy(f)' = {private_data[f], None} \cap Pseudos
      BY <3>1 DEF OwnedBy
    <3>3. CASE private_data[f] = chan[f]
      BY <3>2, <3>3 DEF OwnedBy
    <3>4. CASE chan[f] \in Lines
      BY <3>2, <3>4 DEF OwnedBy
    <3> QED
      BY <2>1, <3>3, <3>4
  <2>5. \A g \in Files : OwnedBy(g)' = OwnedBy(g)
    BY <2>3, <2>4 DEF OwnedBy
  <2>6. PseudoHeld'
    BY <1>9, <2>1, <2>2, <2>3 DEF return, PseudoHeld, LifeTypes
  <2> QED
    BY <1>9, <2>5, <2>6 DEF return
<1>10. release(f) => SameOwners
  BY DEF release, PseudoHeld, OwnedBy, LifeTypes, ThreadsSensible
<1>16. release_begin(f) => SameOwners
  BY DEF release_begin, PseudoHeld, OwnedBy, LifeTypes, ThreadsSensible
<1>11. ASSUME release_detached(f) PROVE SameOwners
  <2>1. private_data[f] \notin Pseudos
    BY <1>11 DEF release_detached, StillWhole, Matched, HasFile, Detached
  <2> QED
    BY <1>11, <2>1 DEF release_detached, PseudoHeld, OwnedBy, LifeTypes, ThreadsSensible
<1>12. release_close(f) => SameOwners
  BY DEF release_close, PseudoHeld, OwnedBy, LifeTypes, ThreadsSensible
<1>13. ASSUME release_put(f) PROVE SameOwners
  <2>1. chan[f] \in Lines /\ private_data[f] = None
    BY <1>13 DEF release_put, PseudoHeld, ThreadsSensible
  <2>2. pc' = [pc EXCEPT ![f] = "closed"] /\ chan' = [chan EXCEPT ![f] = None]
    BY <1>13 DEF release_put
  <2>3. \A g \in Files : g # f => private_data'[g] = private_data[g] /\ chan'[g] = chan[g]
    BY <1>13 DEF release_put, LifeTypes
  <2>4. OwnedBy(f)' = OwnedBy(f)
    <3> HIDE DEF LifeInv, PseudoInv
    <3>1. private_data'[f] = None /\ chan'[f] = None
      BY <1>13, <2>1, <2>2 DEF release_put, LifeInv, LifeTypes
    <3>2. OwnedBy(f) = {}
      BY <2>1 DEF OwnedBy
    <3>3. OwnedBy(f)' = {}
      BY <3>1 DEF OwnedBy
    <3> QED
      BY <3>2, <3>3
  <2>5. \A g \in Files : OwnedBy(g)' = OwnedBy(g)
    BY <2>3, <2>4 DEF OwnedBy
  <2>6. PseudoHeld'
    BY <1>13, <2>1, <2>2, <2>3 DEF release_put, PseudoHeld, LifeTypes
  <2> QED
    BY <1>13, <2>5, <2>6 DEF release_put
<1>14. busy(f) => SameOwners
  BY PseudoNotBusy DEF busy, PseudoHeld, OwnedBy, LifeTypes, ThreadsSensible
<1>15. SameOwners
  <2> HIDE DEF SameOwners
  <2> QED
    BY <1>1, <1>2, <1>3, <1>4, <1>5, <1>6, <1>7, <1>8, <1>9, <1>10, <1>11, <1>12, <1>13, <1>14, <1>16 DEF FileStep
<1> QED
  BY <1>15, PseudoKept

LEMMA PseudoRemoval ==
  ASSUME LifeInv, PseudoInv, Removal \/ UNCHANGED vars
  PROVE  PseudoInv'
<1> USE Apart DEF LifeInv, PseudoInv, files, threads
<1>1. UNCHANGED <<pseudo_chans, pc, chan>>
  BY DEF Removal, unassign, detach, take, swap, oops, unreg_close, unreg_open, unreg_end, vars
<1>2. ASSUME NEW f \in Files
      PROVE  private_data'[f] = private_data[f]
               \/ (private_data'[f] = None /\ private_data[f] \in Lines)
  <2>1. CASE UNCHANGED private_data
    BY <2>1
  <2>2. CASE take /\ chan_file[removal.line] # NoFile
    <3>0. removal.stage = "take" /\ removal.line \in Lines
      BY <2>2 DEF take, LifeTypes
    <3>1. removal.line \in Lines /\ ~Detached(removal.line)
      BY <3>0, Apart DEF Detached, Taking
    <3>2. private_data[chan_file[removal.line]] = removal.line
      BY <2>2, <3>1 DEF StillWhole, Matched, HasFile
    <3> QED
      BY <2>2, <3>1, <3>2 DEF take, LifeTypes
  <2> QED
    BY <2>1, <2>2 DEF Removal, unassign, detach, take, swap, oops, unreg_close, unreg_open, unreg_end, vars
<1>3. \A f \in Files : OwnedBy(f)' = OwnedBy(f)
  BY <1>1, <1>2 DEF OwnedBy
<1>4. PseudoHeld'
  BY <1>1, <1>2 DEF PseudoHeld
<1> QED
  BY <1>1, <1>3, <1>4, PseudoKept

LEMMA PseudoAlloc ==
  ASSUME LifeInv, PseudoInv, NEW f \in Files, alloc_pseudo(f)
  PROVE  PseudoInv'
<1> USE Apart DEF LifeInv, PseudoInv
<1> DEFINE n == FirstGap
           c == FIRST_PSEUDO_CHANNEL + n
           L == Len(pseudo_chans)
<1>1. /\ pseudo_chans \in Seq(Pseudos) /\ L \in Nat /\ L < MaxPseudos
      /\ n \in 0..L /\ n + 1 \in 1..L + 1
      /\ \A i \in 1..n : pseudo_chans[i] = FIRST_PSEUDO_CHANNEL + i - 1
      /\ n < L => pseudo_chans[n + 1] # c
  BY GapIs DEF LifeTypes, alloc_pseudo
<1>2. c \in Pseudos /\ c \in Nat /\ \A i \in 1..L : pseudo_chans[i] \in Nat
  <2>1. \A i \in 1..L : pseudo_chans[i] \in Pseudos
    BY <1>1
  <2> QED
    BY <1>1, <2>1 DEF Pseudos
<1>3. /\ pc[f] = "closed" /\ pc' = [pc EXCEPT ![f] = "found"]
      /\ pseudo_chans' = InsertAt(pseudo_chans, n + 1, c)
      /\ private_data' = [private_data EXCEPT ![f] = c]
      /\ chan' = [chan EXCEPT ![f] = c]
  <2> HIDE DEF LifeInv, PseudoInv
  <2> QED
    BY DEF alloc_pseudo, GoTo
<1>4. /\ Len(pseudo_chans') = L + 1
      /\ \A k \in 1..L + 1 : pseudo_chans'[k] =
           IF k < n + 1 THEN pseudo_chans[k] ELSE IF k = n + 1 THEN c ELSE pseudo_chans[k - 1]
  <2> HIDE DEF n, c, LifeInv, PseudoInv
  <2> DEFINE i == n + 1
             s == InsertAt(pseudo_chans, i, c)
  <2>1. pseudo_chans \in Seq(Pseudos) /\ i \in 1..Len(pseudo_chans) + 1 /\ c \in Pseudos
    BY <1>1, <1>2
  <2>2. pseudo_chans' = s
    BY <1>3
  <2> HIDE DEF i
  <2>3. /\ Len(s) = Len(pseudo_chans) + 1
        /\ \A k \in 1..Len(pseudo_chans) + 1 : s[k] =
             IF k < i THEN pseudo_chans[k] ELSE IF k = i THEN c ELSE pseudo_chans[k - 1]
    BY <2>1, Inserted
  <2> HIDE DEF s
  <2> QED
    BY <2>2, <2>3 DEF i
<1>5. ASSUME NEW i \in 1..L PROVE IF i <= n THEN pseudo_chans[i] < c ELSE pseudo_chans[i] > c
  <2>1. CASE i <= n
    BY <1>1, <2>1
  <2>2. CASE i > n
    <3>1. n < L /\ n + 1 \in 1..L
      BY <1>1, <2>2
    <3>2. pseudo_chans[n + 1] >= c
      <4>1. CASE n = 0
        <5>1. pseudo_chans[n + 1] \in Pseudos
          BY <1>1, <3>1
        <5> QED
          BY <4>1, <5>1 DEF Pseudos
      <4>2. CASE n > 0
        <5>1. n \in 1..L /\ pseudo_chans[n] = FIRST_PSEUDO_CHANNEL + n - 1
          BY <1>1, <4>2
        <5>2. pseudo_chans[n] < pseudo_chans[n + 1]
          BY <3>1, <5>1 DEF PseudoList
        <5> QED
          BY <1>1, <1>2, <3>1, <5>1, <5>2
      <4> QED
        BY <1>1, <4>1, <4>2
    <3>3. pseudo_chans[n + 1] > c
      <4> HIDE DEF n, c, LifeInv, PseudoInv
      <4>1. pseudo_chans[n + 1] # c
        BY <1>1, <3>1
      <4>2. pseudo_chans[n + 1] \in Nat /\ c \in Nat
        BY <1>2, <3>1
      <4> QED
        BY <3>2, <4>1, <4>2
    <3>4. i = n + 1 \/ pseudo_chans[n + 1] < pseudo_chans[i]
      BY <1>1, <2>2, <3>1 DEF PseudoList
    <3>5. /\ c \in Nat /\ n \in Nat /\ i > n
          /\ pseudo_chans[i] \in Nat /\ pseudo_chans[n + 1] \in Nat
      BY <1>1, <1>2, <2>2, <3>1
    <3> HIDE DEF n, c
    <3>6. pseudo_chans[i] > c
      BY <3>3, <3>4, <3>5
    <3> QED
      BY <3>5, <3>6
  <2> QED
    BY <1>1, <2>1, <2>2
<1>6. \A i \in 1..L : pseudo_chans[i] # c
  BY <1>2, <1>5
<1>7. /\ OwnedBy(f) = {} /\ OwnedBy(f)' = {c}
      /\ \A g \in Files : g # f => OwnedBy(g)' = OwnedBy(g)
  <2>1. chan[f] = None /\ private_data[f] = None
    BY <1>3 DEF ThreadsSensible, PseudoHeld
  <2> QED
    BY <1>2, <1>3, <2>1 DEF OwnedBy, LifeTypes
<1>8. \A g \in Files : c \notin OwnedBy(g)
  BY <1>6 DEF PseudoList
<1> HIDE DEF n, c, L
<1>9. \A i, j \in 1..L + 1 : i < j => pseudo_chans'[i] < pseudo_chans'[j]
  <2> SUFFICES ASSUME NEW i \in 1..L + 1, NEW j \in 1..L + 1, i < j
               PROVE  pseudo_chans'[i] < pseudo_chans'[j]
    OBVIOUS
  <2>0. L \in Nat /\ n \in 0..L
    BY <1>1
  <2>1. CASE j < n + 1
    BY <1>4, <2>0, <2>1 DEF PseudoList, L
  <2>2. CASE j = n + 1
    <3>1. i \in 1..L /\ i <= n
      BY <2>0, <2>2
    <3> QED
      BY <1>4, <1>5, <2>0, <2>2, <3>1
  <2>3. CASE j > n + 1 /\ i < n + 1
    <3>1. i \in 1..L /\ j - 1 \in 1..L /\ i < j - 1
      BY <2>0, <2>3
    <3>2. pseudo_chans[i] < pseudo_chans[j - 1]
      BY <3>1 DEF PseudoList, L
    <3> QED
      BY <1>4, <2>0, <2>3, <3>2
  <2>4. CASE j > n + 1 /\ i = n + 1
    <3>1. j - 1 \in 1..L /\ ~(j - 1 <= n)
      BY <2>0, <2>4
    <3>2. pseudo_chans[j - 1] > c
      BY <1>5, <3>1
    <3>3. pseudo_chans[j - 1] \in Nat
      BY <1>2, <3>1
    <3> QED
      BY <1>2, <1>4, <2>0, <2>4, <3>2, <3>3
  <2>5. CASE j > n + 1 /\ i > n + 1
    <3>1. i - 1 \in 1..L /\ j - 1 \in 1..L /\ i - 1 < j - 1
      BY <2>0, <2>5
    <3>2. pseudo_chans[i - 1] < pseudo_chans[j - 1]
      BY <3>1 DEF PseudoList, L
    <3> QED
      BY <1>4, <2>0, <2>5, <3>2
  <2> QED
    BY <2>0, <2>1, <2>2, <2>3, <2>4, <2>5
<1>10. \A k \in 1..L + 1 : \E g \in Files : pseudo_chans'[k] \in OwnedBy(g)'
  <2> SUFFICES ASSUME NEW k \in 1..L + 1
               PROVE  \E g \in Files : pseudo_chans'[k] \in OwnedBy(g)'
    OBVIOUS
  <2>1. CASE k = n + 1
    <3>1. pseudo_chans'[k] = c
      BY <1>1, <1>4, <2>1
    <3> QED
      BY <1>7, <3>1
  <2>2. CASE k # n + 1
    <3>1. PICK i \in 1..L : pseudo_chans'[k] = pseudo_chans[i]
      <4>1. IF k < n + 1 THEN k \in 1..L ELSE k - 1 \in 1..L
        BY <1>1, <2>2
      <4> QED
        BY <1>4, <2>2, <4>1
    <3>2. PICK g \in Files : pseudo_chans[i] \in OwnedBy(g)
      BY DEF PseudoList, L
    <3> QED
      BY <1>7, <3>1, <3>2
  <2> QED
    BY <2>1, <2>2
<1>11. \A g \in Files : \A d \in OwnedBy(g)' : \E k \in 1..L + 1 : pseudo_chans'[k] = d
  <2> SUFFICES ASSUME NEW g \in Files, NEW d \in OwnedBy(g)'
               PROVE  \E k \in 1..L + 1 : pseudo_chans'[k] = d
    OBVIOUS
  <2>0. L \in Nat /\ n \in 0..L
    BY <1>1
  <2>1. CASE g = f
    <3>1. n + 1 \in 1..L + 1 /\ pseudo_chans'[n + 1] = c
      BY <1>4, <2>0
    <3> QED
      BY <1>7, <2>1, <3>1
  <2>2. CASE g # f
    <3>1. PICK i \in 1..L : pseudo_chans[i] = d
      BY <1>7, <2>2 DEF PseudoList, L
    <3>2. CASE i < n + 1
      <4>1. i \in 1..L + 1
        BY <2>0
      <4> QED
        BY <1>4, <3>1, <3>2, <4>1
    <3>3. CASE ~(i < n + 1)
      <4>1. i + 1 \in 1..L + 1 /\ ~(i + 1 < n + 1) /\ i + 1 # n + 1 /\ (i + 1) - 1 = i
        BY <2>0, <3>3
      <4> QED
        BY <1>4, <3>1, <4>1
    <3> QED
      BY <3>2, <3>3
  <2> QED
    BY <2>1, <2>2
<1>12. PseudoList'
  BY <1>4, <1>7, <1>8, <1>9, <1>10, <1>11 DEF PseudoList
<1>13. PseudoHeld'
  BY <1>2, <1>3 DEF PseudoHeld, LifeTypes
<1> QED
  BY <1>12, <1>13

LEMMA PseudoFree ==
  ASSUME LifeInv, PseudoInv, NEW f \in Files, free_pseudo(f)
  PROVE  PseudoInv'
<1> USE Apart DEF LifeInv, PseudoInv
<1> DEFINE L == Len(pseudo_chans)
<1>1. PICK i \in 1..L : pseudo_chans[i] = chan[f] /\ pseudo_chans' = RemoveAt(pseudo_chans, i)
  BY DEF free_pseudo
<1>2. /\ pc[f] = "freeing" /\ pc' = [pc EXCEPT ![f] = "closed"]
      /\ chan' = [chan EXCEPT ![f] = None] /\ private_data' = private_data
  BY DEF free_pseudo, Gone, GoTo, files
<1>3. pseudo_chans \in Seq(Pseudos) /\ L \in Nat
  BY DEF LifeTypes
<1>4. /\ Len(pseudo_chans') = L - 1
      /\ \A k \in 1..L - 1 : pseudo_chans'[k] = IF k < i THEN pseudo_chans[k] ELSE pseudo_chans[k + 1]
  BY <1>1, <1>3, Removed, ZenonT(40)
<1>5. /\ OwnedBy(f) = {chan[f]} /\ OwnedBy(f)' = {}
      /\ \A g \in Files : g # f => OwnedBy(g)' = OwnedBy(g) /\ chan[f] \notin OwnedBy(g)
  <2>1. private_data[f] = None /\ chan[f] \in Pseudos
    BY <1>2 DEF ThreadsSensible, PseudoHeld
  <2>2. OwnedBy(f) = {chan[f]} /\ OwnedBy(f)' = {}
    BY <1>2, <2>1 DEF OwnedBy, LifeTypes
  <2>3. \A g \in Files : g # f => OwnedBy(g)' = OwnedBy(g)
    BY <1>2 DEF OwnedBy, LifeTypes
  <2> QED
    BY <2>2, <2>3 DEF PseudoList
<1> DEFINE From(k) == IF k < i THEN k ELSE k + 1
<1>6. \A k \in 1..L - 1 : /\ From(k) \in 1..L /\ From(k) # i
                          /\ pseudo_chans'[k] = pseudo_chans[From(k)]
  BY <1>3, <1>4
<1>7. \A j, k \in 1..L - 1 : j < k => From(j) < From(k)
  BY <1>3
<1>8. \A j \in 1..L : j # i => pseudo_chans[j] # chan[f]
  <2> SUFFICES ASSUME NEW j \in 1..L, j # i PROVE pseudo_chans[j] # pseudo_chans[i]
    BY <1>1
  <2>1. \A k \in 1..L : pseudo_chans[k] \in Nat
    BY <1>3 DEF Pseudos
  <2>2. pseudo_chans[j] < pseudo_chans[i] \/ pseudo_chans[i] < pseudo_chans[j]
    <3>1. j < i \/ i < j
      BY <1>3
    <3> QED
      BY <3>1 DEF PseudoList
  <2> QED
    BY <2>1, <2>2
<1>9. \A j, k \in 1..L - 1 : j < k => pseudo_chans'[j] < pseudo_chans'[k]
  <2> HIDE DEF From
  <2> QED
    BY <1>6, <1>7 DEF PseudoList
<1>10. \A k \in 1..L - 1 : \E g \in Files : pseudo_chans'[k] \in OwnedBy(g)'
  <2> SUFFICES ASSUME NEW k \in 1..L - 1 PROVE \E g \in Files : pseudo_chans'[k] \in OwnedBy(g)'
    OBVIOUS
  <2> HIDE DEF From
  <2>1. From(k) \in 1..L /\ pseudo_chans'[k] = pseudo_chans[From(k)] /\ pseudo_chans'[k] # chan[f]
    BY <1>6, <1>8
  <2>2. PICK g \in Files : pseudo_chans'[k] \in OwnedBy(g)
    BY <2>1 DEF PseudoList
  <2> QED
    BY <1>5, <2>1, <2>2
<1>11. \A g \in Files : \A d \in OwnedBy(g)' : \E k \in 1..L - 1 : pseudo_chans'[k] = d
  <2> SUFFICES ASSUME NEW g \in Files, NEW d \in OwnedBy(g)'
               PROVE  \E k \in 1..L - 1 : pseudo_chans'[k] = d
    OBVIOUS
  <2>1. g # f /\ d \in OwnedBy(g) /\ d # chan[f]
    BY <1>5
  <2>2. PICK j \in 1..L : pseudo_chans[j] = d
    BY <2>1 DEF PseudoList
  <2>3. j # i
    BY <1>1, <2>1, <2>2
  <2>4. CASE j < i
    <3>1. j \in 1..L - 1
      BY <1>3, <2>4
    <3> QED
      BY <1>4, <2>2, <2>4, <3>1
  <2>5. CASE j > i
    <3>1. j - 1 \in 1..L - 1 /\ ~(j - 1 < i) /\ (j - 1) + 1 = j
      BY <1>3, <2>5
    <3> QED
      BY <1>4, <2>2, <3>1
  <2> QED
    BY <1>3, <2>3, <2>4, <2>5
<1>12. \A g, h \in Files : g # h => OwnedBy(g)' \cap OwnedBy(h)' = {}
  BY <1>5 DEF PseudoList
<1>13. PseudoList'
  BY <1>4, <1>9, <1>10, <1>11, <1>12 DEF PseudoList
<1>14. PseudoHeld'
  BY <1>2 DEF PseudoHeld, LifeTypes, ThreadsSensible
<1> QED
  BY <1>13, <1>14

(* Every listed pseudo channel belongs to a file, under a number of its    *)
(* own, whatever a removal does meanwhile, unless the memory for one could *)
(* not be had (dahdi_alloc_pseudo, dahdi_free_pseudo).                     *)
THEOREM ChanPseudosOwned == MayFail \subseteq Lines => (Spec => []PseudosOwned)
<1> SUFFICES ASSUME MayFail \subseteq Lines PROVE Spec => []PseudosOwned
  OBVIOUS
<1>1. Init => PseudoInv
  BY Apart DEF Init, PseudoInv, PseudoList, PseudoHeld, OwnedBy
<1>2. LifeInv /\ PseudoInv /\ [Next]_vars => PseudoInv'
  BY PseudoFile, PseudoAlloc, PseudoFree, PseudoRemoval DEF Next
<1>3. LifeInv /\ PseudoInv => PseudosOwned
  <2> SUFFICES ASSUME LifeInv, PseudoInv PROVE PseudosOwned
    OBVIOUS
  <2>1. DOMAIN pseudo_chans = 1..Len(pseudo_chans)
    BY DEF LifeInv, LifeTypes
  <2>2. \A i \in 1..Len(pseudo_chans) :
          \E f \in Files : pseudo_chans[i] \in {private_data[f], chan[f]}
    BY DEF PseudoInv, PseudoList, OwnedBy
  <2>3. ASSUME NEW f \in Files, private_data[f] \in Pseudos
        PROVE  private_data[f] \in ToSet(pseudo_chans)
    <3>1. private_data[f] \in OwnedBy(f)
      BY <2>3 DEF OwnedBy
    <3>2. PICK i \in 1..Len(pseudo_chans) : pseudo_chans[i] = private_data[f]
      BY <3>1 DEF PseudoInv, PseudoList
    <3> QED
      BY <2>1, <3>2 DEF ToSet
  <2> QED
    BY <2>2, <2>3 DEF PseudosOwned, PseudoInv, PseudoList
<1> QED
  BY <1>1, <1>2, <1>3, LifeAlways, PTL DEF Spec
-----------------------------------------------------------------------------
(* Who holds the driver's module, as long as the removal caught nobody     *)
(* half way: the files, and the removal on behalf of the file it has taken *)
(* a line from.                                                            *)
Users ==
  {f \in Files : \/ pc[f] \in {"open", "calling", "leaving"} /\ private_data[f] \in Lines
                 \/ pc[f] \in {"releasing", "closing"} /\ chan[f] \in Lines}

HeldByRemoval == Taking /\ chan_file[removal.line] # NoFile

UsersInv ==
  /\ users = Cardinality(Users) + IF HeldByRemoval THEN 1 ELSE 0
  /\ removal.stage \in {"swap", "sleep"} => chan_file[removal.line] # NoFile
  /\ removal.stage = "oops" => chan_file[removal.line] = NoFile

LEMMA UsersFinite == IsFiniteSet(Users) /\ Cardinality(Users) \in Nat
<1>1. IsFiniteSet(Users)
  BY FS_Subset DEF Users
<1> QED
  BY <1>1, FS_CardinalityType

LEMMA UsersSame ==
  ASSUME UsersInv, Users' = Users, UNCHANGED users, HeldByRemoval' <=> HeldByRemoval,
         removal'.stage \in {"swap", "sleep"} => chan_file'[removal'.line] # NoFile,
         removal'.stage = "oops" => chan_file'[removal'.line] = NoFile
  PROVE  UsersInv'
BY DEF UsersInv

LEMMA UsersFile ==
  ASSUME LifeInv, late = {}, UsersInv, NEW f \in Files, FileStep(f)
  PROVE  UsersInv'
<1> USE Apart DEF LifeInv, GoTo, Gone, files, threads
<1> DEFINE Same == /\ Users' = Users /\ UNCHANGED <<users, removal>>
                   /\ Taking => chan_file'[removal.line] = chan_file[removal.line]
<1>1. ASSUME NEW c \in Lines, find_line(f, c) PROVE Same
  BY <1>1 DEF find_line, Users, LifeTypes
<1>2. alloc_pseudo(f) => Same
  BY DEF alloc_pseudo, Users, LifeTypes, ThreadsSensible
<1>3. busy(f) => Same
  BY DEF busy, Users, LifeTypes, ThreadsSensible
<1>4. claim(f) => Same
  BY DEF claim, Users, LifeTypes, ThreadsSensible
<1>5. claim_fails(f) => Same
  BY DEF claim_fails, Users, LifeTypes, ThreadsSensible
<1>6. refused(f) => Same
  BY DEF refused, Users, LifeTypes, ThreadsSensible, GivenBack
<1>7. call(f) => Same
  BY DEF call, Users, LifeTypes, ThreadsSensible
<1>8. wait(f) => Same
  BY DEF wait, Users, LifeTypes, ThreadsSensible
<1>9. served(f) => Same
  BY DEF served, Users, LifeTypes, ThreadsSensible
<1>10. return(f) => Same
  BY DEF return, Users, LifeTypes, ThreadsSensible
<1>20. release_begin(f) => Same
  BY DEF release_begin, Users, LifeTypes, ThreadsSensible
<1>21. ASSUME Taking, chan[f] = removal.line PROVE pc[f] = "calling" \/ chan[f] = None
  <2>1. removal.line \in Lines /\ removal.line <= removal.line
    BY <1>21 DEF LifeTypes, Taking
  <2>2. Detached(chan[f])
    BY <1>21, <2>1 DEF Detached
  <2> QED
    BY <2>2 DEF NothingLeft
<1>11. ASSUME release_detached(f) PROVE Same
  <2>1. private_data[f] \notin Lines
    <3>1. ~Detached(private_data[f])
      BY DEF NothingLeft
    <3> QED
      BY <1>11, <3>1 DEF release_detached, StillWhole, Matched, HasFile
  <2> QED
    BY <1>11, <2>1 DEF release_detached, Users, LifeTypes, ThreadsSensible
<1>12. release_close(f) => Same
  BY DEF release_close, Users, LifeTypes, ThreadsSensible
<1>13. free_pseudo(f) => Same
  BY DEF free_pseudo, Users, LifeTypes, ThreadsSensible
<1>14. ASSUME opened(f), chan[f] \in Pseudos PROVE Same
  BY <1>14 DEF opened, Users, LifeTypes, ThreadsSensible, Taking
<1>15. release(f) => Same
  <2> SUFFICES ASSUME release(f) PROVE Same
    OBVIOUS
  <2>1. UNCHANGED <<users, removal>> /\ pc[f] = "leaving" /\ chan[f] # None
    BY DEF release, ThreadsSensible
  <2>2. private_data[f] = chan[f]
    <3>1. chan[f] \in Channels /\ ~Detached(chan[f])
      BY <2>1 DEF NothingLeft, LifeTypes
    <3> QED
      BY <2>1, <3>1 DEF StillWhole, Matched
  <2>3. Users' = Users
    BY <2>2 DEF release, Users, LifeTypes
  <2>4. Taking => chan[f] # removal.line
    BY <1>21, <2>1
  <2> QED
    BY <2>1, <2>3, <2>4 DEF release, LifeTypes
<1>16. ASSUME Same PROVE UsersInv'
  BY <1>16, UsersSame DEF UsersInv, HeldByRemoval, Taking
<1>17. ASSUME opened(f), chan[f] \in Lines PROVE UsersInv'
  <2>1. removal' = removal /\ (Taking => chan_file'[removal.line] = chan_file[removal.line])
    BY <1>17, <1>21 DEF opened, LifeTypes
  <2>2. HeldByRemoval' <=> HeldByRemoval
    BY <2>1 DEF HeldByRemoval, Taking
  <2>3. f \notin Users /\ Users' = Users \cup {f} /\ users' = users + 1
    BY <1>17 DEF opened, Users, LifeTypes, ThreadsSensible
  <2>4. Cardinality(Users') = Cardinality(Users) + 1
    BY <2>3, UsersFinite, FS_AddElement
  <2> QED
    BY <2>1, <2>2, <2>3, <2>4, UsersFinite DEF UsersInv, Taking
<1>18. ASSUME release_put(f) PROVE UsersInv'
  <2>1. UNCHANGED <<removal, chan_file>> /\ users' = users - 1
    BY <1>18 DEF release_put
  <2>2. f \in Users /\ Users' = Users \ {f}
    BY <1>18 DEF release_put, Users, LifeTypes, ThreadsSensible
  <2>3. Cardinality(Users') = Cardinality(Users) - 1
    BY <2>2, UsersFinite, FS_RemoveElement
  <2> QED
    BY <2>1, <2>3, UsersFinite DEF UsersInv, HeldByRemoval, Taking
<1>19. ASSUME opened(f) PROVE chan[f] \in Lines \/ chan[f] \in Pseudos
  BY <1>19 DEF opened, ThreadsSensible, LifeTypes
<1> HIDE DEF Same
<1> QED
  BY <1>1, <1>2, <1>3, <1>4, <1>5, <1>6, <1>7, <1>8, <1>9, <1>10, <1>11, <1>12, <1>13, <1>14, <1>15, <1>16, <1>17, <1>18, <1>19, <1>20 DEF FileStep

LEMMA UsersRemoval ==
  ASSUME LifeInv, late = {}, UsersInv, Removal \/ UNCHANGED vars
  PROVE  UsersInv'
<1> USE Apart DEF LifeInv, files, threads
<1> DEFINE l == removal.line
           f == chan_file[l]
<1>1. UNCHANGED <<pc, chan, chan_file>>
  BY DEF Removal, unassign, detach, take, swap, oops, unreg_close, unreg_open, unreg_end, vars
<1>2. CASE unassign
  <2>1. Users' = Users /\ users' = users /\ ~HeldByRemoval /\ ~HeldByRemoval'
        /\ removal'.stage = "detach"
    BY <1>1, <1>2 DEF unassign, Stage, Users, HeldByRemoval, Taking
  <2> QED
    BY <2>1, UsersSame
<1>3. CASE detach \/ (take /\ f = NoFile)
  <2>1. /\ Users' = Users /\ users' = users /\ ~HeldByRemoval
        /\ removal' \in [stage : {"take", "close", "oops"}, line : {l}]
        /\ removal'.stage # "take" => f = NoFile
    BY <1>1, <1>3 DEF detach, take, Stage, Users, HeldByRemoval, Taking
  <2>2. ~HeldByRemoval'
    BY <1>1, <2>1 DEF HeldByRemoval, Taking
  <2> QED
    BY <1>1, <2>1, <2>2, UsersSame
<1>4. CASE take /\ f # NoFile
  <2>1. /\ removal.stage = "take" /\ l \in Lines
        /\ removal' = [stage |-> "swap", line |-> l] /\ users' = users
        /\ private_data' = [private_data EXCEPT ![f] = None]
    BY <1>4 DEF take, Stage, LifeTypes
  <2>2. ~Detached(l)
    BY <2>1 DEF Detached, Taking
  <2>3. f \in Files /\ HasFile(l, f)
    <3>1. Matched(l)
      BY <2>1, <2>2 DEF StillWhole
    <3>2. HasFile(l, f)
      BY <1>4, <3>1 DEF Matched
    <3> QED
      BY <1>4, <2>1, <3>2 DEF LifeTypes
  <2>4. f \in Users /\ Users' = Users \ {f}
    BY <1>1, <2>1, <2>3 DEF Users, HasFile, LifeTypes
  <2>5. ~HeldByRemoval /\ HeldByRemoval' /\ chan_file'[removal'.line] # NoFile
    BY <1>1, <1>4, <2>1 DEF HeldByRemoval, Taking
  <2> HIDE DEF l, f
  <2>6. Cardinality(Users') = Cardinality(Users) - 1
    BY <2>4, UsersFinite, FS_RemoveElement
  <2> QED
    BY <2>1, <2>5, <2>6, UsersFinite DEF UsersInv
<1>5. CASE swap \/ unreg_close
  <2>1. /\ removal' = [stage |-> IF removal.stage = "swap" THEN "close" ELSE "put", line |-> l]
        /\ Taking /\ UNCHANGED <<users, private_data>>
    BY <1>5 DEF swap, unreg_close, Stage, Taking, UsersInv
  <2>2. Users' = Users /\ (HeldByRemoval' <=> HeldByRemoval)
    BY <1>1, <2>1 DEF Users, HeldByRemoval, Taking
  <2> QED
    BY <2>1, <2>2, UsersSame
<1>6. CASE unreg_open /\ f # NoFile
  <2>1. /\ removal' = [stage |-> "sleep", line |-> l] /\ Taking
        /\ UNCHANGED <<users, private_data>>
    BY <1>6 DEF unreg_open, Stage, Taking
  <2>2. Users' = Users /\ HeldByRemoval' /\ HeldByRemoval /\ chan_file'[removal'.line] # NoFile
    BY <1>1, <1>6, <2>1 DEF Users, HeldByRemoval, Taking
  <2> QED
    BY <2>1, <2>2, UsersSame
<1>7. CASE (unreg_open /\ f = NoFile) \/ unreg_end
  <2>1. /\ Taking /\ LineDone(l) /\ l \in Lines /\ removal.stage \in Stages
        /\ UNCHANGED private_data
        /\ HeldByRemoval <=> unreg_end
        /\ users' = IF unreg_end THEN users - 1 ELSE users
    BY <1>7 DEF unreg_open, unreg_end, Taking, LifeTypes, HeldByRemoval, UsersInv
  <2>2. ~Taking' /\ removal'.stage \in {"detach", "unplugged"}
    BY <2>1, DoneWith
  <2>3. Users' = Users /\ ~HeldByRemoval'
    BY <1>1, <2>1, <2>2 DEF Users, HeldByRemoval
  <2> QED
    BY <2>1, <2>2, <2>3, UsersFinite DEF UsersInv
<1>8. CASE UNCHANGED vars \/ oops
  <2>1. UNCHANGED vars
    BY <1>8 DEF oops
  <2> QED
    BY <2>1, UsersSame DEF vars, Users, HeldByRemoval, Taking, UsersInv
<1> QED
  BY <1>2, <1>3, <1>4, <1>5, <1>6, <1>7, <1>8 DEF Removal

(* Whom the removal has caught stays so. *)
LEMMA LateStays == [Next]_vars => late \subseteq late'
<1> USE DEF files, threads
<1>1. Removal \/ UNCHANGED vars => late \subseteq late'
  BY DEF Removal, unassign, detach, take, swap, oops, unreg_close, unreg_open, unreg_end, vars
<1>2. ASSUME NEW f \in Files, FileStep(f) PROVE late \subseteq late'
  BY <1>2 DEF FileStep, find_line, alloc_pseudo, busy, claim, claim_fails, opened, refused, call,
              wait, served, return, release_begin, release, release_detached, release_close,
              release_put, free_pseudo
<1> QED
  BY <1>1, <1>2 DEF Next

(* The driver's module is held once for every file that has, or had, a     *)
(* line of it and has not given it back, while the removal has caught      *)
(* nobody half way (try_module_get and module_put in dahdi_specchan_open,  *)
(* dahdi_specchan_release, dahdi_chan_unreg).                              *)
THEOREM ChanUsersCounted == Spec => []UsersCounted
<1> DEFINE Inv == late = {} => UsersInv
<1>1. Init => Inv
  <2> SUFFICES ASSUME Init PROVE UsersInv
    OBVIOUS
  <2>1. Users = {} /\ ~HeldByRemoval /\ users = 0 /\ removal.stage = "plugged"
    BY Apart DEF Init, Users, HeldByRemoval, Taking
  <2>2. Cardinality({}) = 0
    BY FS_EmptySet
  <2> QED
    BY <2>1, <2>2 DEF UsersInv
<1>2. LifeInv /\ Inv /\ [Next]_vars => Inv'
  <2> SUFFICES ASSUME LifeInv, Inv, [Next]_vars, late' = {} PROVE UsersInv'
    OBVIOUS
  <2>1. late = {}
    BY LateStays
  <2> QED
    BY <2>1, UsersFile, UsersRemoval DEF Next
<1>3. LifeInv /\ Inv => UsersCounted
  <2> SUFFICES ASSUME LifeInv, UsersInv, late = {} PROVE UsersCounted
    BY DEF UsersCounted
  <2>1. HeldByRemoval <=> \/ removal.stage \in {"swap", "sleep"}
                          \/ removal.stage \in {"close", "put"} /\ chan_file[removal.line] # NoFile
    BY DEF HeldByRemoval, Taking, UsersInv
  <2> QED
    BY <2>1 DEF UsersInv, UsersCounted, Users
<1> HIDE DEF Inv
<1> QED
  BY <1>1, <1>2, <1>3, LifeAlways, PTL DEF Spec
=============================================================================
