CONSTANTS
  SectorSize = 4
  MaxSectors = 3
SPECIFICATION FairSpec
INVARIANTS TypeOK DiskHoldsPrefix NoByteLost
PROPERTIES Answered ImplementsService
