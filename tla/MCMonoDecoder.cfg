SPECIFICATION MonoSpec
CONSTANTS
  Streams <- MCStreams
  MaxEvents = 4
  NoTrack = NoTrack
  Nothing = Nothing
  Mono = Mono
  Stereo = Stereo
  Channels <- MCChannels
INVARIANTS
  DecodedByItsLink
  ChunksInOrder
PROPERTIES
  KeepsContract
  AveragesItsPacket
\* Reading a stream ends.
CHECK_DEADLOCK FALSE
