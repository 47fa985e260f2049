CONSTANTS
  Lines <- TwoLines
  Files = {"f", "g", "h"}
  FIRST_PSEUDO_CHANNEL = 8
  MaxPseudos = 2
  MayFail = {1}
  None = 0
  NoFile = "none"

SPECIFICATION FairSpec

INVARIANT OneHolder
INVARIANT UsersCounted
INVARIANT FreedUsedLate
INVARIANT PseudosOwned
 
