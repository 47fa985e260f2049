CONSTANTS
  Threads <- OneThread
  Bytes <- TwoBytes
  Zero = "0"
  MaxLen = 2
  CHUNKSIZE = 1
  MAX_NUM_BUFS = 3
  DEFAULT_NUM_BUFS = 2
  Requests <- BufRequests
  HDLCs <- Either
  MTP2s <- Off
  Frames <- AnyFrames
  BUFEVENTS = TRUE
  Ops <- AllOps

SPECIFICATION Spec

PROPERTY ImplementsPipe
INVARIANT RingConsistent
INVARIANT SlotsSafe
