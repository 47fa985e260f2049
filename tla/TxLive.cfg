CONSTANTS
  Threads <- OneThread
  Tags <- OneTag
  MaxLen = 1
  CHUNKSIZE = 1
  MAX_NUM_BUFS = 4
  DEFAULT_NUM_BUFS = 2
  Requests <- BufRequests4
  Policies <- AnyPolicy
  MTP2s <- Either
  BUFEVENTS = FALSE
  Ops <- DrainOps
  AllocMayFail = FALSE

SPECIFICATION FairSpec

INVARIANT NoStandoff
INVARIANT PolicyObeyed
PROPERTY WritersServed
