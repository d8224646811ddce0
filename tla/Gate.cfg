SPECIFICATION FairSpec
CONSTANTS
  Interactive = {i1, i2}
  Background = {b1, b2}
  MaxConsecutive = 2
  MaxTurns = 2
  MaxDrops = 1
INVARIANTS TypeOK MutualExclusion
PROPERTIES InteractivePriority ParkedIsWoken
CHECK_DEADLOCK FALSE
