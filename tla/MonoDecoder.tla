-------------------------------- MODULE MonoDecoder --------------------------------
(***************************************************************************)
(* src/src/fingerprinting/decode.rs with the samples PacketDecoder leaves  *)
(* out: `next` mixes a packet down to mono in buffers that are kept from   *)
(* one packet to the next, and `next_chunk` hands the first one over from  *)
(* a buffer of its own.  A sample is the packet, frame and channel it is   *)
(* of; a mono frame is the samples added into it, each with the number of  *)
(* channels it was divided by.                                             *)
(*                                                                         *)
(* An operator whose name holds "_bug" is a mistake this code could have   *)
(* had; it stands beside the definition it would replace and is used by no *)
(* other definition.                                                       *)
(***************************************************************************)
EXTENDS PacketDecoder

CONSTANT Channels(_)   \* how many channels a spec has

\* What a decoder hands over has frames, of one channel at least: the code
\* divides by the number of them.
ASSUME ChannelsAssumption ==
  \A s \in Streams : \A k \in DOMAIN s.events :
    s.events[k].kind = "packet" /\ s.events[k].decodes = "ok" =>
      s.events[k].frames \in Nat /\ Channels(s.events[k].spec) \in Nat \ {0}

VARIABLES
  interleaved_samples,
  mono_frames,   \* the buffer `pcm_samples` passes to every call
  first_frames   \* the samples of `first_chunk`

monoVars == <<vars, interleaved_samples, mono_frames, first_frames>>

MonoInit ==
  /\ Init
  /\ interleaved_samples = <<>>
  /\ mono_frames = <<>>
  /\ first_frames = Nothing

\* The packet `next_packet` answers with, once decoded.
Count == Channels(Event.spec)

\* copy_to_vec_interleaved replaces what the buffer held, frame by frame.
Interleaved ==
  [k \in 1 .. Event.frames * Count |->
     [packet |-> position + 1,
      frame |-> (k - 1) \div Count + 1,
      channel |-> ((k - 1) % Count) + 1]]

Cleared_bug(buffer) == buffer
Cleared(buffer) == <<>>

\* Vec::resize cuts what is longer and keeps what is there.
Resized(buffer, size) ==
  [k \in 1 .. size |-> IF k \in DOMAIN buffer THEN buffer[k] ELSE <<>>]

\* Every sample is added, as its share, into the frame its place divides to.
Mixed(buffer, samples) ==
  LET Added[k \in 0 .. Len(samples)] ==
        IF k = 0 THEN Resized(Cleared(buffer), Len(samples) \div Count)
        ELSE [Added[k - 1] EXCEPT ![(k - 1) \div Count + 1] =
                Append(@, [sample |-> samples[k], share |-> Count])]
  IN  Added[Len(samples)]

\* The buffer `new` fills is a fresh one, and becomes the first chunk.
MixFirst ==
  /\ DecodeFirst
  /\ interleaved_samples' = Interleaved
  /\ first_frames' = Mixed(<<>>, interleaved_samples')
  /\ UNCHANGED mono_frames

HandFirstOver ==
  /\ TakeFirstChunk
  /\ mono_frames' = first_frames
  /\ first_frames' = Nothing
  /\ UNCHANGED interleaved_samples

\* A packet is mixed before its spec is compared with the first one's.
MixNext ==
  /\ DecodeNext
  /\ interleaved_samples' = Interleaved
  /\ mono_frames' = Mixed(mono_frames, interleaved_samples')
  /\ UNCHANGED first_frames

\* Whatever else the reader answers, `next` has cleared the caller's buffer.
MixNothing ==
  /\ \/ Open \/ EndOfStream \/ ReaderFails \/ Reopen \/ SkipPacket
     \/ RefuseShortPacket \/ DecodeShort \/ DecodeDamaged
  /\ mono_frames' = Cleared(mono_frames)
  /\ UNCHANGED <<interleaved_samples, first_frames>>

MonoNext == MixFirst \/ HandFirstOver \/ MixNext \/ MixNothing

\* One thread runs the loop, and a reader answers every call.
MonoSpec == MonoInit /\ [][MonoNext]_monoVars /\ WF_monoVars(MonoNext)

-------------------------------------------------------------------------------
\* The average of the channels of a packet, frame by frame.
Average(packet) ==
  LET event == stream.events[packet]
      count == Channels(event.spec)
  IN  [frame \in 1 .. event.frames |->
         [channel \in 1 .. count |->
            [sample |-> [packet |-> packet, frame |-> frame, channel |-> channel],
             share |-> count]]]

\* What the resampler is given with a chunk are the samples of that chunk's
\* packet, each frame the average of its channels and of nothing else: not of
\* the packets the buffers held before, of those skipped or failed in between,
\* of a longer one or of one decoded early.
AveragesItsPacket ==
  [][pushed' # pushed => mono_frames' = Average(pushed'[Len(pushed')].packet)]_monoVars
===============================================================================
