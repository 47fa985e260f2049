---------------------------- MODULE MCChanLife -----------------------------
(* Instances of ChanLife. *)
EXTENDS ChanLife

TwoLines == {1, 2}
=============================================================================
