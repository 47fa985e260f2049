CONSTANTS
  Spans <- ThreeSpans
  channels <- Sizes
  Assignments <- FewAssignments
  NoSpan = "none"
  Digital <- TwoDigital
  CannotTime = {}
  Interval = 1
  OneSecond = 2
  MS_LIMIT = 3
  MAX_INTERVAL = 3
  MaxListed <- SomeListed
  MaxEvents <- SomeEvents

\* Without a clock, and with the events of the bound used up, nothing is left.
CHECK_DEADLOCK FALSE

SPECIFICATION MasterSpec

INVARIANT ListSound
INVARIANT MasterSound
INVARIANT NeverSilent
