CONSTANTS
  Tests = 2
  TagLimit = 3
  MaxPlugs = 3
  MaxFaults = 1
SPECIFICATION FairSpec
INVARIANTS TypeOK OkIsOwn
PROPERTY HealthyDiskIsServed
CHECK_DEADLOCK FALSE
