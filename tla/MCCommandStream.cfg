SPECIFICATION FairSpec
CONSTANTS
  BufUnits = 2
  Segment = 3
  TxWin = 4
  Lens = {1, 6}
  MaxAsks = 2
  LastPort = 3
  SeqWrap = 8
  MaxFaults = 2
INVARIANTS TypeOK WriteIsOneRequest AckNotAhead
PROPERTIES HealthyRequestIsServed Reconnects ImplementsService
CHECK_DEADLOCK FALSE
