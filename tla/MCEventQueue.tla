---------------------------- MODULE MCEventQueue ----------------------------
(* The event ring with four slots and two event codes: every fill level    *)
(* and every alignment of the two indices is reached.                      *)
EXTENDS EventQueue

MaxEventSize == 4
=============================================================================
