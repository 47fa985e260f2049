----------------------------- MODULE MCVoiceBus -----------------------------
(* Instances of VoiceBus. *)
EXTENDS VoiceBus

(* wctdm24xxp starts an HX8 board again, in another mode, and every other  *)
(* board once (wctdm24xxp/base.c:5732-5751, wcte12xp/base.c:3019).         *)
MCStarts == [m \in {"NORMAL", "HX8"} |-> IF m = "HX8" THEN 2 ELSE 1]
=============================================================================
