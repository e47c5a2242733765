SPECIFICATION Spec
CONSTANTS
  CHUNK_FRAMES = 4
  OutputDelay = 3
  PieceSizes = {0, 1, 2, 3, 4, 5, 9}
  MaxFrames = 21
  OutputAfter <- MCOutputAfter
  Expected <- MCExpected
INVARIANTS
  ChunksAreWhole
  SameAsWholeClip
PROPERTIES
  FinishReturns
\* The caller may stop.
CHECK_DEADLOCK FALSE
