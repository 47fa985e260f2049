---------------------------- MODULE MCConfMixer ----------------------------
(* An instance of ConfMixer: two lines and a pseudo channel, which between *)
(* them use every mode that is in order; the pseudo channel goes from a    *)
(* conference to listen to one of the lines before its echo canceller.     *)
EXTENDS ConfMixer, TLC

Setting(mode, flags) == [mode |-> mode, flags |-> flags]
Talk == Setting("CONF", {"TALKER", "LISTENER"})
Announce == Setting("CONFANN", {"TALKER", "LISTENER"})
RealAndPseudo == Setting("REALANDPSEUDO", Flags)
Spy == Setting("CONFMON", {"LISTENER"})
Preecho == Setting("MONITOR_PREECHO", {})

SomeSettings ==
  "l" :> {Talk, Announce} @@ "m" :> {RealAndPseudo, Spy} @@ "p" :> {Normal, Talk, Preecho}

NumbersOfLines == 1 :> "l" @@ 2 :> "m"

LinesInOrder == <<"l", "m">>
PseudosInOrder == <<"p">>
=============================================================================
