CONSTANTS
  Names <- MCNames
  Sizes <- MCSizes
  Slots = 4
  IndexSize = 4
  ImageSize = 11
  MaxDepth = 2
  Width = 64
  WriteOffsets = {0, 1}
  WriteSizes = {2}
SPECIFICATION WriteSpec
INVARIANTS TypeOK ReadsBack ListExact PathsLead FoundPlaceIsFree
CHECK_DEADLOCK FALSE
