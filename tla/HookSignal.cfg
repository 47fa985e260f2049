CONSTANTS
  Ports <- SomePorts
  T <- ShortTimes
  MAX_CADENCE = 4
  Digits = {2}
  MaxDialBuf = 1
  MaxPulses = 2

SPECIFICATION Spec

INVARIANT TransientHasTimer
INVARIANT LineMatchesState
INVARIANT CadencePhase
INVARIANT OnhookPending
INVARIANT SleeperWillWake
PROPERTY OnhookIsReal
INVARIANT DigitsEnd
