CONSTANTS
  Ports = {0, 1}
  Settle = 2
  Wait = 2
  Wrap = 5
  MaxPlugs = 2
  MaxFaults = 0
SPECIFICATION FairSpec
INVARIANTS AddressedInOrder
CHECK_DEADLOCK FALSE
