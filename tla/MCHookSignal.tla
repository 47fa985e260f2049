---------------------------- MODULE MCHookSignal ----------------------------
(* Instances of HookSignal: times of one to three chunks that keep their   *)
(* order, and ports of the signallings with code of their own.             *)
EXTENDS HookSignal

ShortTimes ==
  [n \in TimeNames |->
     IF n = "rxflash" THEN 3
     ELSE IF n \in {"debounce", "kewl", "rxwink", "ringdebounce", "ringtrailer", "pulsetimeout"}
     THEN 2 ELSE 1]

(* A cadence that ends at a zero, and one that fills the array and is      *)
(* repeated from its middle.                                               *)
Zeroed == [i \in 0 .. 3 |-> IF i < 2 THEN 1 ELSE 0]
Full   == [i \in 0 .. 3 |-> 1]

Port(s, d, cadence, first) ==
  [sig |-> s, digital |-> d, ringcadence |-> cadence, firstcadencepos |-> first, zonering |-> 1]

PhonePorts    == {Port("FXOKS", FALSE, Full, 2), Port("FXOGS", TRUE, Zeroed, 0)}
ExchangePorts == {Port("FXSKS", FALSE, Zeroed, 0), Port("FXSGS", FALSE, Zeroed, 0)}
TrunkPorts    == {Port("EM", TRUE, Zeroed, 0)}
SomePorts     == PhonePorts \cup ExchangePorts \cup TrunkPorts
=============================================================================
