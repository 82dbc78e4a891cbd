CONSTANTS
  SectorSize = 2
  MaxSectors = 4
  BufSize = 5
  MaxPacket = 4
  Magic = 1
  Small = 1
  Window = 4
  WinUnit = 2
  Wrap = 64
  MaxAcks = 2
  MaxFaults = 1
SPECIFICATION FairSpec
INVARIANTS TypeOK StreamInOrder
PROPERTIES ReadEnds ImplementsService
