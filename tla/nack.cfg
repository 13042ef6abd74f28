SPECIFICATION FairSpec
CONSTANTS
  HalfRange = 3
  Window = 2
  MaxNacks = 3
  MaxCount = 0
  MaxAlive = 2
  FirstWait = 1
  Interval = 1
INVARIANTS NackInv GapsListed
PROPERTIES NacksEnd
