SPECIFICATION Spec
CONSTANTS
  Streams <- MCStreams
  NoTrack = NoTrack
  Nothing = Nothing
  Mono = Mono
  Stereo = Stereo
  Mute = Mute
  CHUNK_FRAMES = 2
  OutputDelay = 13000
  OutputAfter <- MCOutputAfter
  Expected <- MCExpected
  MaxFrames = 15
  SAMPLE_RATE_HZ = 16000
  DEFAULT_SEGMENT_SECONDS = 2
  U32_MAX = 65535
  USIZE_MAXES = {65535}
  None = None
  WindowChunks = 2
  RingSize = 8
  BinCount = 72
  FirstBin = 65
  LastBin = 68
  FormerOffsets <- MCFormerOffsets
  JudgedLag = 2
  SpreadLag = 3
  NeighborOffsets <- MCNeighborOffsets
  OtherOffsets <- MCOtherOffsets
  PeakReach = 1
  Levels <- MCLevels
  PowerFloor = 1
  Threshold = 2
  Magnitude <- MCMagnitude
  Spectra <- MCSpectra
  Checksum <- MCChecksum
  Durations <- MCDurations
  Resamplable = {Mono, Stereo}
  ChunkSamples = 3000
INVARIANTS
  FileTellsSegment
  HoldsOnePacket
PROPERTY AnswersByVerdict
