SPECIFICATION FairSpec
CONSTANTS
  Interactive = {i1}
  Background = {b1}
  MaxConsecutive = 1
  MaxTurns = 1
  MaxDrops = 0
PROPERTY AlwaysCompletes
CHECK_DEADLOCK FALSE
