SPECIFICATION Spec
CONSTANTS
  WindowChunks = 3
  RingSize = 16
  BinCount = 55
  FirstBin = 32
  LastBin = 44
  JudgedLag = 6
  SpreadLag = 9
  PeakReach = 10
  PowerFloor = 1
  Threshold = 2
  ChunkCounts <- MCChunkCounts
  FormerOffsets <- MCFormerOffsets
  NeighborOffsets <- MCNeighborOffsets
  OtherOffsets <- MCOtherOffsets
  Levels <- MCLevels
  Magnitude <- MCMagnitude
  Spectra <- MCSpectra
INVARIANTS
  WindowHoldsLatestChunks
  SpreadRowsExact
  AssertHolds
  PeaksAreLocalMaxima
  PeaksInOrder
  PeaksMatchTheirPass
\* A run of the loop ends with the segment.
CHECK_DEADLOCK FALSE
