SPECIFICATION JobSpec
CONSTANTS
  SAMPLE_RATE_HZ = 16000
  DEFAULT_SEGMENT_SECONDS = 12
  U32_MAX = 16777215
  USIZE_MAXES = {16777215, 33554431}
  PaddingSamples <- MCPadding
  Lengths <- MCLengths
  Durations <- MCDurations
  None = None
INVARIANTS
  TypeOK
  WholeClipWhenItFits
  CutFromMiddle
  DeclaresItsLength
  ShortByOneAtMost
\* A signature is answered once.
CHECK_DEADLOCK FALSE
