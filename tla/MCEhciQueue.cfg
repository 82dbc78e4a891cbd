CONSTANTS
  MaxQtd = 3
  Split = 3
  MaxPieces = 5
  MaxFaults = 1
  MaxPlugs = 1
SPECIFICATION Spec
INVARIANTS TypeOK OkIsWhole EachInOneChain NobodyWaitsInVain
CHECK_DEADLOCK FALSE
