------------------------------ MODULE MCRxRing ------------------------------
(* Instances of RxRing: two byte values, blocks of two or three bytes and  *)
(* chunks that end in the middle of a block.                               *)
EXTENDS RxRing

OneThread == {"r"}
TwoThreads == {"r", "s"}
OneByte == {"0"}
TwoBytes == {"0", "1"}

\* Below and above what dahdi_reallocbufs accepts: two buffers and the most.
BufRequests == {1, 4}

\* Every configuration of a flag.
Either == BOOLEAN
On == {TRUE}
Off == {FALSE}

\* Every byte string, and some of which none begins another or is all zeros.
AnyFrames == UNION {[1 .. n -> Bytes] : n \in 1 .. MaxLen}
SelfDelimited == {<<"1">>, <<"0", "1">>}

AllOps == {"flush", "hangup", "bufinfo", "close"}
RaceOps == {"flush", "bufinfo"}
NoOps == {}
=============================================================================
