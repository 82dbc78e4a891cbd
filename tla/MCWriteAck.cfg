CONSTANTS
  SectorSize = 4
  MaxSectors = 3
SPECIFICATION Spec
INVARIANTS AckedIsStored
