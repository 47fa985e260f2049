CONSTANTS
  Modes = {"NORMAL", "HX8"}
  DRING_SIZE = 6
  RX_SIZE = 1
  Latency = 2
  MaxLatency = 3
  BUMP = 2
  AHEAD = 2
  BATCH = 2
  Slack = 1
  MaxStarts <- MCStarts

SPECIFICATION Spec

INVARIANT FramesInTurn
INVARIANT Attended
INVARIANT ReleaseIsFinal
