CONSTANTS
  Timers <- TwoTimers
  Threads <- TwoThreads
  FileOf <- OwnFile
  Periods <- SomePeriods
  CHUNKSIZE = 2
  MaxTripped = 2
  Head = "head"
  None = "none"

SPECIFICATION FairSpec

INVARIANT ListSound
INVARIANT WalkStaysOnList
PROPERTY ExpiresOnTime
PROPERTY TimersServed
