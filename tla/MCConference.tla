---------------------------- MODULE MCConference ----------------------------
(* An instance of Conference: channels that talk or do not, in any of the  *)
(* conferences.                                                            *)
EXTENDS Conference

TwoLines == {"l", "m"}
OnePseudo == {"p"}
TwoThreads == {"t", "u"}

Talk == [mode |-> "CONF", flags |-> {"TALKER", "LISTENER"}]
TalkOrNot == [c \in Channels |-> {Normal, Talk}]
FirstLine == [x \in Numbers |-> "l"]
=============================================================================
