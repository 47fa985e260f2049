------------------------------ MODULE ChanLife ------------------------------
(***************************************************************************)
(* Opening, closing and removing channels (dahdi-base.c).  A file that is  *)
(* opened finds its channel by number, claims it with the OPEN bit and     *)
(* takes a reference on the driver's module; a pseudo channel is made on   *)
(* the way.  When the hardware is removed while files are open,            *)
(* _dahdi_unassign_span detaches them, wakes their sleepers, and waits for *)
(* 20 ms before the driver may free the channels.                          *)
(*                                                                         *)
(* The lookup, the making and freeing of a pseudo channel and the whole    *)
(* removal hold registration_mutex.  Nothing else does: a removal may meet *)
(* a half-done open or close, or a call that outlasts the 20 ms, and waits *)
(* for none of them.  late is the history of whom it caught so.            *)
(***************************************************************************)
EXTENDS Integers, FiniteSets, SequencesExt

CONSTANTS
  Lines,                 \* numbers of the channels of a removable span
  Files,                 \* open files, each with a thread of its own
  FIRST_PSEUDO_CHANNEL,
  MaxPseudos,            \* max_pseudo_channels
  MayFail,               \* channels whose initialization may lack memory
  None,                  \* no channel
  NoFile

Pseudos == FIRST_PSEUDO_CHANNEL..(FIRST_PSEUDO_CHANNEL + MaxPseudos - 1)
Channels == Lines \cup Pseudos

ASSUME ChanLifeAssumption ==
  /\ Lines \subseteq Nat /\ Lines # {} /\ IsFiniteSet(Lines)
  /\ FIRST_PSEUDO_CHANNEL \in Nat /\ MaxPseudos \in Nat
  /\ \A c \in Lines : c < FIRST_PSEUDO_CHANNEL
  /\ None \in Int \ Channels /\ NoFile \notin Files /\ IsFiniteSet(Files)
  /\ MayFail \subseteq Channels

VARIABLES
  OPEN,          \* channels with DAHDI_FLAG_OPEN
  chan_file,     \* channel -> chan->file
  private_data,  \* file -> file->private_data
  f_op,          \* file -> which file_operations it has
  pc, chan,      \* file -> what its thread does, and the channel it does it to
  users,         \* references on the driver's module
  pseudo_chans,  \* the list of pseudo channels, as their numbers
  removal,       \* where the removal is, and with which line
  asleep,        \* files whose thread waits in read() or write()
  freed,         \* lines the driver has freed
  late           \* history: files the removal caught half way

files   == <<private_data, f_op>>
threads == <<pc, chan, asleep>>
vars    == <<OPEN, chan_file, files, threads, users, pseudo_chans, removal, freed, late>>

Places == {"closed", "found", "claimed", "open", "calling", "leaving",
           "releasing", "closing", "freeing"}
Stages == {"plugged", "detach", "take", "swap", "oops", "close", "put", "sleep", "unplugged"}

Init ==
  /\ OPEN = {}
  /\ chan_file = [c \in Channels |-> NoFile]
  /\ private_data = [f \in Files |-> None]
  /\ f_op = [f \in Files |-> "dahdi_fops"]
  /\ pc = [f \in Files |-> "closed"]
  /\ chan = [f \in Files |-> None]
  /\ asleep = {}
  /\ users = 0
  /\ pseudo_chans = <<>>
  /\ removal = [stage |-> "plugged", line |-> None]
  /\ freed = {}
  /\ late = {}

(* registration_mutex is free: no removal is under way. *)
MutexFree == removal.stage \in {"plugged", "unplugged"}

GoTo(f, place) == pc' = [pc EXCEPT ![f] = place]

(* The thread of f is done with the file. *)
Gone(f) ==
  /\ GoTo(f, "closed")
  /\ chan' = [chan EXCEPT ![f] = None]
-----------------------------------------------------------------------------
(* open() of a line: chan_from_num. *)
find_line(f, c) ==
  /\ pc[f] = "closed"
  /\ removal.stage = "plugged"
  /\ GoTo(f, "found")
  /\ chan' = [chan EXCEPT ![f] = c]
  /\ UNCHANGED <<OPEN, chan_file, files, asleep, users, pseudo_chans, removal, freed, late>>

(* A variant with a plausible slip: as many as there are, not a gap. *)
NextNumber == Len(pseudo_chans)

(* How many entries at the head of the list have consecutive numbers. *)
FirstGap ==
  CHOOSE n \in 0..Len(pseudo_chans) :
    /\ \A i \in 1..n : pseudo_chans[i] = FIRST_PSEUDO_CHANNEL + i - 1
    /\ n < Len(pseudo_chans) => pseudo_chans[n + 1] # FIRST_PSEUDO_CHANNEL + n

(* open() of /dev/dahdi/pseudo: dahdi_alloc_pseudo, with the first number  *)
(* that is free, at its place in the list.                                 *)
alloc_pseudo(f) ==
  LET c == FIRST_PSEUDO_CHANNEL + FirstGap
  IN  /\ pc[f] = "closed"
      /\ MutexFree
      /\ Len(pseudo_chans) < MaxPseudos
      /\ pseudo_chans' = InsertAt(pseudo_chans, FirstGap + 1, c)
      /\ private_data' = [private_data EXCEPT ![f] = c]
      /\ chan' = [chan EXCEPT ![f] = c]
      /\ GoTo(f, "found")
      /\ UNCHANGED <<OPEN, chan_file, f_op, asleep, users, removal, freed, late>>

(* dahdi_specchan_open of a channel that is open already: -EBUSY. *)
busy(f) ==
  /\ pc[f] = "found"
  /\ chan[f] \in OPEN
  /\ Gone(f)
  /\ UNCHANGED <<OPEN, chan_file, files, asleep, users, pseudo_chans, removal, freed, late>>

(* A variant with a plausible slip: the bit is set, not tested. *)
Claimable(f) == TRUE

(* test_and_set_bit(DAHDI_FLAGBIT_OPEN), then initialize_channel. *)
Claimed(f) == chan[f] \notin OPEN

claim(f) ==
  /\ pc[f] = "found"
  /\ Claimed(f)
  /\ OPEN' = OPEN \cup {chan[f]}
  /\ GoTo(f, "claimed")
  /\ UNCHANGED <<chan_file, files, chan, asleep, users, pseudo_chans, removal, freed, late>>

(* initialize_channel cannot allocate the buffers.  A pseudo channel stays *)
(* listed.                                                                 *)
claim_fails(f) ==
  /\ pc[f] = "claimed"
  /\ chan[f] \in MayFail
  /\ OPEN' = OPEN \ {chan[f]}
  /\ private_data' = [private_data EXCEPT ![f] = None]
  /\ Gone(f)
  /\ UNCHANGED <<chan_file, f_op, asleep, users, pseudo_chans, removal, freed, late>>

(* The section of dahdi_specchan_open under chan->lock, when ops->open (a  *)
(* pseudo channel has none) agrees.                                        *)
opened(f) ==
  /\ pc[f] = "claimed"
  /\ chan_file' = [chan_file EXCEPT ![chan[f]] = f]
  /\ private_data' = [private_data EXCEPT ![f] = chan[f]]
  /\ f_op' = [f_op EXCEPT ![f] = "dahdi_chan_fops"]
  /\ users' = IF chan[f] \in Lines THEN users + 1 ELSE users
  /\ GoTo(f, "open")
  /\ chan' = [chan EXCEPT ![f] = None]
  /\ UNCHANGED <<OPEN, asleep, pseudo_chans, removal, freed, late>>

(* A variant with a plausible slip: the reference is not given back. *)
Kept(n) == n + 1

(* try_module_get followed by module_put. *)
GivenBack(n) == n

(* ops->open refuses: the module is put again, close_channel, and the bit  *)
(* is cleared.                                                             *)
refused(f) ==
  /\ pc[f] = "claimed"
  /\ chan[f] \in Lines
  /\ users' = GivenBack(users)
  /\ OPEN' = OPEN \ {chan[f]}
  /\ Gone(f)
  /\ UNCHANGED <<chan_file, files, asleep, pseudo_chans, removal, freed, late>>
-----------------------------------------------------------------------------
(* A call on the open file.  Without private_data, or with nodev_fops, it  *)
(* is -ENODEV and touches no channel.                                      *)
call(f) ==
  /\ pc[f] = "open"
  /\ f_op[f] = "dahdi_chan_fops" /\ private_data[f] # None
  /\ chan' = [chan EXCEPT ![f] = private_data[f]]
  /\ GoTo(f, "calling")
  /\ UNCHANGED <<OPEN, chan_file, files, asleep, users, pseudo_chans, removal, freed, late>>

(* The condition the sleepers of read() and write() wait for, but for data *)
(* and room, is that private_data has gone.                                *)
Waits(f) == private_data[f] # None

wait(f) ==
  /\ pc[f] = "calling" /\ f \notin asleep
  /\ Waits(f)
  /\ asleep' = asleep \cup {f}
  /\ UNCHANGED <<OPEN, chan_file, files, pc, chan, users, pseudo_chans, removal, freed, late>>

(* Data, room or a signal. *)
served(f) ==
  /\ f \in asleep
  /\ asleep' = asleep \ {f}
  /\ UNCHANGED <<OPEN, chan_file, files, pc, chan, users, pseudo_chans, removal, freed, late>>

return(f) ==
  /\ pc[f] = "calling" /\ f \notin asleep
  /\ GoTo(f, "open")
  /\ chan' = [chan EXCEPT ![f] = None]
  /\ UNCHANGED <<OPEN, chan_file, files, asleep, users, pseudo_chans, removal, freed, late>>
-----------------------------------------------------------------------------
(* dahdi_specchan_release finds its channel in private_data ... *)
release_begin(f) ==
  /\ pc[f] = "open"
  /\ f_op[f] = "dahdi_chan_fops" /\ private_data[f] # None
  /\ chan' = [chan EXCEPT ![f] = private_data[f]]
  /\ GoTo(f, "leaving")
  /\ UNCHANGED <<OPEN, chan_file, files, asleep, users, pseudo_chans, removal, freed, late>>

(* ... and under chan->lock the two part, whatever became of them since.   *)
release(f) ==
  /\ pc[f] = "leaving"
  /\ chan_file' = [chan_file EXCEPT ![chan[f]] = NoFile]
  /\ private_data' = [private_data EXCEPT ![f] = None]
  /\ f_op' = [f_op EXCEPT ![f] = "dahdi_fops"]
  /\ GoTo(f, "releasing")
  /\ UNCHANGED <<OPEN, chan, asleep, users, pseudo_chans, removal, freed, late>>

(* The last close of a detached file: nodev_fops have no release.  Between *)
(* the two steps of the detaching dahdi_release looks for the channel by   *)
(* its number, waits for the mutex, and does not find it.                  *)
release_detached(f) ==
  /\ pc[f] = "open"
  /\ f_op[f] = "nodev_fops" \/ (private_data[f] = None /\ MutexFree)
  /\ private_data' = [private_data EXCEPT ![f] = None]
  /\ f_op' = [f_op EXCEPT ![f] = "dahdi_fops"]
  /\ GoTo(f, "closed")
  /\ UNCHANGED <<OPEN, chan_file, chan, asleep, users, pseudo_chans, removal, freed, late>>

(* close_channel, and the bit is cleared. *)
release_close(f) ==
  /\ pc[f] = "releasing"
  /\ OPEN' = OPEN \ {chan[f]}
  /\ GoTo(f, IF chan[f] \in Lines THEN "closing" ELSE "freeing")
  /\ UNCHANGED <<chan_file, files, chan, asleep, users, pseudo_chans, removal, freed, late>>

(* ops->close and module_put. *)
release_put(f) ==
  /\ pc[f] = "closing"
  /\ users' = users - 1
  /\ Gone(f)
  /\ UNCHANGED <<OPEN, chan_file, files, asleep, pseudo_chans, removal, freed, late>>

(* dahdi_free_pseudo *)
free_pseudo(f) ==
  /\ pc[f] = "freeing"
  /\ MutexFree
  /\ \E i \in 1..Len(pseudo_chans) :
       pseudo_chans[i] = chan[f] /\ pseudo_chans' = RemoveAt(pseudo_chans, i)
  /\ Gone(f)
  /\ UNCHANGED <<OPEN, chan_file, files, asleep, users, removal, freed, late>>
-----------------------------------------------------------------------------
(* The removal of the span: dahdi_chan_unreg of its lines, lowest first. *)
Stage(s, c) == removal' = [stage |-> s, line |-> c]

FirstLine == CHOOSE c \in Lines : \A d \in Lines : c <= d

(* A variant with a plausible slip: the last line is left out. *)
FewerAfter(c) == {d \in Lines : d > c /\ \E e \in Lines : e > d}

LinesAfter(c) == {d \in Lines : d > c}
NextLine(c) == CHOOSE d \in LinesAfter(c) : \A e \in LinesAfter(c) : d <= e

(* Who is in the middle of opening or closing channel c, or uses it in a   *)
(* call.                                                                   *)
HalfWay(c) ==
  {f \in Files : pc[f] \in {"found", "claimed", "leaving", "releasing", "closing"} /\ chan[f] = c}
CallersOf(c) == {f \in Files : pc[f] = "calling" /\ chan[f] = c}

(* _dahdi_unassign_span takes the span off span_list. *)
unassign ==
  /\ removal.stage = "plugged"
  /\ Stage("detach", FirstLine)
  /\ UNCHANGED <<OPEN, chan_file, files, threads, users, pseudo_chans, freed, late>>

(* if (chan->file), without a lock. *)
detach ==
  LET c == removal.line
  IN  /\ removal.stage = "detach"
      /\ IF chan_file[c] = NoFile
           THEN Stage("close", c) /\ late' = late \cup HalfWay(c)
           ELSE Stage("take", c) /\ UNCHANGED late
      /\ UNCHANGED <<OPEN, chan_file, files, threads, users, pseudo_chans, freed>>

(* The file loses the channel, then its operations.  Where a close comes   *)
(* between the test and one of these, the code writes through a null       *)
(* pointer: the removal ends there, with the mutex held.                   *)
take ==
  LET c == removal.line
      f == chan_file[c]
  IN  /\ removal.stage = "take"
      /\ late' = late \cup HalfWay(c)
      /\ IF f = NoFile
           THEN Stage("oops", c) /\ UNCHANGED private_data
           ELSE Stage("swap", c) /\ private_data' = [private_data EXCEPT ![f] = None]
      /\ UNCHANGED <<OPEN, chan_file, f_op, threads, users, pseudo_chans, freed>>

swap ==
  LET f == chan_file[removal.line]
  IN  /\ removal.stage = "swap"
      /\ IF f = NoFile
           THEN Stage("oops", removal.line) /\ UNCHANGED f_op
           ELSE Stage("close", removal.line) /\ f_op' = [f_op EXCEPT ![f] = "nodev_fops"]
      /\ UNCHANGED <<OPEN, chan_file, private_data, threads, users, pseudo_chans, freed, late>>

(* Nothing follows a null pointer. *)
oops == removal.stage = "oops" /\ UNCHANGED vars


(* wake_up_interruptible(&chan->waitq): whoever still has a reason to wait *)
(* sleeps on.                                                              *)
Wake(c) == asleep' = {f \in asleep : chan[f] = c => Waits(f)}

(* The bit REGISTERED is cleared, the sleepers are woken, close_channel. *)
unreg_close ==
  /\ removal.stage = "close"
  /\ Wake(removal.line)
  /\ Stage("put", removal.line)
  /\ UNCHANGED <<OPEN, chan_file, files, pc, chan, users, pseudo_chans, freed, late>>

(* On to the next line; after the last the driver frees them all. *)
LineDone(c) ==
  IF LinesAfter(c) = {}
    THEN Stage("unplugged", None) /\ freed' = Lines
    ELSE Stage("detach", NextLine(c)) /\ UNCHANGED freed

(* ops->close on behalf of the file. *)
unreg_open ==
  LET c == removal.line
  IN  /\ removal.stage = "put"
      /\ IF chan_file[c] = NoFile
           THEN LineDone(c) /\ UNCHANGED OPEN
           ELSE Stage("sleep", c) /\ OPEN' = OPEN \ {c} /\ UNCHANGED freed
      /\ UNCHANGED <<chan_file, files, threads, users, pseudo_chans, late>>

(* msleep(20) waits for nobody in particular; then the reference the file  *)
(* had is put.                                                             *)
unreg_end ==
  /\ removal.stage = "sleep"
  /\ late' = late \cup CallersOf(removal.line)
  /\ users' = users - 1
  /\ LineDone(removal.line)
  /\ UNCHANGED <<OPEN, chan_file, files, threads, pseudo_chans>>

Removal ==
  unassign \/ detach \/ take \/ swap \/ oops \/ unreg_close \/ unreg_open \/ unreg_end

FileStep(f) ==
  \/ \E c \in Lines : find_line(f, c)
  \/ alloc_pseudo(f) \/ busy(f) \/ claim(f) \/ claim_fails(f)
  \/ opened(f) \/ refused(f)
  \/ call(f) \/ wait(f) \/ served(f) \/ return(f)
  \/ release_begin(f) \/ release(f) \/ release_detached(f) \/ release_close(f) \/ release_put(f)
  \/ free_pseudo(f)

Next == Removal \/ \E f \in Files : FileStep(f)

Spec == Init /\ [][Next]_vars

(* The steps of the removal and of open, close and calls are executed      *)
(* once begun; a sleeping call goes on when it is woken.                   *)
FairSpec ==
  /\ Spec
  /\ WF_vars(Removal /\ ~unassign)
  /\ \A f \in Files :
       WF_vars(busy(f) \/ claim(f) \/ opened(f) \/ return(f) \/ release(f)
                 \/ release_close(f) \/ release_put(f) \/ free_pseudo(f))
-----------------------------------------------------------------------------
TypeOK ==
  /\ OPEN \subseteq Channels
  /\ chan_file \in [Channels -> Files \cup {NoFile}]
  /\ private_data \in [Files -> Channels \cup {None}]
  /\ f_op \in [Files -> {"dahdi_fops", "dahdi_chan_fops", "nodev_fops"}]
  /\ pc \in [Files -> Places]
  /\ chan \in [Files -> Channels \cup {None}]
  /\ users \in Int
  /\ pseudo_chans \in Seq(Pseudos)
  /\ removal \in [stage : Stages, line : Lines \cup {None}]
  /\ asleep \subseteq Files
  /\ freed \subseteq Lines /\ late \subseteq Files

(* Where a removal is: the lines it has taken from their files, and the    *)
(* one it is at.                                                           *)
Taking == removal.stage \in {"swap", "oops", "close", "put", "sleep"}

Detached(c) ==
  /\ c \in Lines
  /\ \/ removal.stage = "unplugged"
     \/ removal.stage \in {"detach", "take"} /\ c < removal.line
     \/ Taking /\ c <= removal.line

(* The files that have channel c, or are about to or no longer quite.      *)
Holders(c) ==
  {f \in Files : \/ pc[f] \in {"claimed", "releasing"} /\ chan[f] = c
                 \/ pc[f] \in {"open", "calling", "leaving"} /\ private_data[f] = c}

(* A channel is open exactly while one file has it; a line that is being   *)
(* removed is open a little longer.  A removal spoils this for the lines   *)
(* it has detached, at most, and only where it caught a file half way      *)
(* (dahdi_specchan_open, dahdi_specchan_release, dahdi_chan_unreg).        *)
OneHolder ==
  \A c \in {d \in Channels : Detached(d) => late = {}} :
    /\ Cardinality(Holders(c)) <= 1
    /\ Holders(c) # {} => c \in OPEN
    /\ c \in OPEN => Holders(c) # {} \/ removal.line = c

(* The driver's module is held once for every file that has, or had, a     *)
(* line of it and has not given it back, as long as the removal caught     *)
(* nobody half way: it can always be unloaded later, and never too early.  *)
UsersCounted ==
  late = {} =>
    users =
      Cardinality({f \in Files :
                     \/ pc[f] \in {"open", "calling", "leaving"} /\ private_data[f] \in Lines
                     \/ pc[f] \in {"releasing", "closing"} /\ chan[f] \in Lines})
        + IF \/ removal.stage \in {"swap", "sleep"}
             \/ removal.stage \in {"close", "put"} /\ chan_file[removal.line] # NoFile
            THEN 1 ELSE 0

(* Only a thread the removal caught half way ever uses a channel the       *)
(* driver has freed: one that was opening or closing it when it was taken  *)
(* from its file, or one whose call outlasted the sleep.  Whoever had the  *)
(* channel open and came later is kept off it, through any of its calls    *)
(* and its close (dahdi_chan_unreg, dahdi_specchan_release).               *)
FreedUsedLate == \A f \in Files : chan[f] \in freed => f \in late

(* "no-one reference this channel from now on" (the comment in             *)
(* dahdi_chan_unreg at its msleep).  The code does nothing for it but      *)
(* sleep: the instance ChanUnplug.cfg shows how it fails.                  *)
NoUseOfFreed == \A f \in Files : chan[f] \notin freed

(* Every listed pseudo channel belongs to one file, under a number of its  *)
(* own, in order: none is lost or listed for ever.                         *)
PseudosOwned ==
  /\ \A i, j \in 1..Len(pseudo_chans) : i < j => pseudo_chans[i] < pseudo_chans[j]
  /\ \A i \in 1..Len(pseudo_chans) :
       \E f \in Files : pseudo_chans[i] \in {private_data[f], chan[f]}
  /\ \A f \in Files : private_data[f] \in Pseudos => private_data[f] \in ToSet(pseudo_chans)

=============================================================================
