CONSTANTS
  Lines = {"l", "m"}
  Pseudos = {"p"}
  None = "none"
  Threads = {"t"}
  MAX_CONF = 3
  Numbers = {1, 2}
  Settings <- SomeSettings
  chan_from_num <- NumbersOfLines
  LineOrder <- LinesInOrder
  PseudoOrder <- PseudosInOrder
  Calm = 3
  MaxChanges = 3

SPECIFICATION MixSpec

INVARIANT AliasesSound
INVARIANT HearsOthersOnce
