CONSTANTS
  MaxEvents = 3
  CountTime = 1
  MaxCount = 3
SPECIFICATION FairSpec
INVARIANTS TypeOK FlagFollowsPlug HandlesHaveOwner EntryFollowsDisk EventIsTold
CHECK_DEADLOCK FALSE
PROPERTY PhoneIsServed
