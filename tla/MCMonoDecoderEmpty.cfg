SPECIFICATION MonoSpec
CONSTANTS
  Streams <- MCStreams
  MaxEvents = 2
  NoTrack = NoTrack
  Nothing = Nothing
  Mono = Mono
  Stereo = Stereo
  Channels <- MCChannels
INVARIANTS
  DecodesToSomething
CHECK_DEADLOCK FALSE
