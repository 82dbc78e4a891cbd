CONSTANTS
  TagLimit = 2
  MaxPlugs = 4
  MaxFaults = 1
SPECIFICATION FairSpec
INVARIANTS TypeOK TableFollowsPlugs
PROPERTIES PendingTagIsTold CardIsTakenInUnlessRefused
CHECK_DEADLOCK FALSE
