CONSTANTS
  Ports = {0}
  Settle = 2
  Wait = 2
  Wrap = 5
  MaxPlugs = 5
  MaxFaults = 2
SPECIFICATION FairSpec
INVARIANTS TypeOK AddressedInOrder WaitsAreWhole
PROPERTIES DeviceIsServed
CHECK_DEADLOCK FALSE
