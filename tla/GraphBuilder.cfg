\* Every tree of up to four convolutions; a tile is two channels wide.
SPECIFICATION Spec
CONSTANTS
  NumExtra = 10
  PadBase = 8
  Programs <- Small
  Tile = 2
  BlockSize = 64
  WeightBlock = 150
  ScaleBlock = 48
INVARIANTS TypeOK ListIsTheGraph FramesFit UserTensorsKept DestructorGoesByReaders
CHECK_DEADLOCK FALSE
