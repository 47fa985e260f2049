------------------------------ MODULE MCTxRing ------------------------------
(* Instances of TxRing: chunks and blocks so short that a chunk ends in    *)
(* the middle of a block and a block in the middle of a chunk.             *)
EXTENDS TxRing

OneThread == {"w"}
TwoThreads == {"w", "v"}
OneTag == {"a"}
TwoTags == {"a", "b"}
Immediate == {"immediate"}
AnyPolicy == {"immediate", "when_full", "half_full"}

\* Below and above what dahdi_reallocbufs accepts: two buffers and the most.
BufRequests == {1, 4}
BufRequests4 == {1, 5}

\* Every configuration of a flag.
Either == BOOLEAN
Off == {FALSE}

DiscardOps == {"flush", "hangup", "bufinfo", "close"}
DrainOps == {"bufinfo", "iomux", "sync", "close"}
BufinfoOnly == {"bufinfo"}
=============================================================================
