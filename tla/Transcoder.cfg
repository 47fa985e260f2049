CONSTANTS
  RING = 1
  SEQUENCE = 2
  MAX_RETRIES = 1
  LateAnswers = FALSE
  MaxAnswers = 1
  MaxPackets = 1
  None = None
  Files <- TwoFiles
  Pairs = 1
  Formats <- TwoFormats
  Requests <- SharedAndMixed

SPECIFICATION FairSpec

INVARIANT CommandSound
INVARIANT OneFile
INVARIANT PairsSound
PROPERTY CallsEnd
