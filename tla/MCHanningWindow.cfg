SPECIFICATION Spec
CONSTANT ChunkSamples = 128
INVARIANT HannWindow
PROPERTY FadesInThenOut
\* A sample is followed until it is overwritten.
CHECK_DEADLOCK FALSE
