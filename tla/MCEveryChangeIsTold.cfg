CONSTANTS
  TagLimit = 2
  MaxPlugs = 4
  MaxFaults = 1
SPECIFICATION FairSpec
PROPERTIES EveryChangeIsTold
CHECK_DEADLOCK FALSE
