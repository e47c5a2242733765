SPECIFICATION Spec
CONSTANTS
  MAX_FRAMES_PER_PACKET = 4
  Streams <- MCStreams
INVARIANTS
  HeaderReadInRange
  TrimmedOnce
CHECK_DEADLOCK FALSE
