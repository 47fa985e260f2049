CONSTANTS
  Threads <- OneThread
  Tags <- TwoTags
  MaxLen = 3
  CHUNKSIZE = 2
  MAX_NUM_BUFS = 3
  DEFAULT_NUM_BUFS = 2
  Requests <- BufRequests
  Policies <- Immediate
  MTP2s <- Either
  BUFEVENTS = TRUE
  Ops <- DiscardOps
  AllocMayFail = FALSE

SPECIFICATION Spec

INVARIANT RingConsistent
INVARIANT SlotsSafe
PROPERTY ImplementsPipe
