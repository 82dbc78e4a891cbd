CONSTANTS
  Images = {1, 2}
  ImageSize = 3
  Region = 6
  SubSize = 2
  WriteSize = 2
  Lengths = {2, 3}
  Cells = 7
  MaxFaults = 2
SPECIFICATION Spec
INVARIANTS TypeOK SelectedImageIsComplete NoPageProgrammedTwice AckedImageInPlace
