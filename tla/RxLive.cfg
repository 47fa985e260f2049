CONSTANTS
  Threads <- OneThread
  Bytes <- TwoBytes
  Zero = "0"
  MaxLen = 3
  CHUNKSIZE = 1
  MAX_NUM_BUFS = 2
  DEFAULT_NUM_BUFS = 2
  Requests <- BufRequests
  HDLCs <- Either
  MTP2s <- Either
  Frames <- SelfDelimited
  BUFEVENTS = FALSE
  Ops <- NoOps

SPECIFICATION FairSpec

INVARIANT DiscardsOnlyRepeats
PROPERTY ReadersServed
