--------------------------- MODULE MCTimerDevice ----------------------------
(* Instances of TimerDevice: periods of one chunk, of a chunk and a half,  *)
(* and none.                                                               *)
EXTENDS TimerDevice

TwoTimers == {"x", "y"}
TwoThreads == {"a", "b"}

OwnFile == [t \in TwoThreads |-> IF t = "a" THEN "x" ELSE "y"]
SameFile == [t \in TwoThreads |-> "x"]

SomePeriods == {-1, 0, 2, 3}
=============================================================================
