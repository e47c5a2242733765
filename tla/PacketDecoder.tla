------------------------------ MODULE PacketDecoder ------------------------------
(***************************************************************************)
(* src/src/fingerprinting/decode.rs and the loop of `pcm_samples` that     *)
(* drives it: a container reader is asked for packets one at a time, the   *)
(* ones of the selected track are decoded, and every decoded packet is     *)
(* handed to the resampler as one chunk.                                   *)
(*                                                                         *)
(* The demuxers and decoders are outside the repository, so what they      *)
(* answer is chosen by `Streams`; see StreamContract for the events.  A    *)
(* chunk is the position of its packet, tagged with the decoder that made  *)
(* it; MonoDecoder adds its samples.                                       *)
(*                                                                         *)
(* An operator whose name holds "_bug" is a mistake this code could have   *)
(* had; it stands beside the definition it would replace and is used by no *)
(* other definition.                                                       *)
(***************************************************************************)
EXTENDS Integers, Sequences, FiniteSets

CONSTANTS
  Streams,   \* the streams that may be opened
  NoTrack,   \* no track has a codec this build decodes
  Nothing    \* an Option that is None

\* What is in an Option is not None.
ASSUME NothingAssumption ==
  /\ Nothing \notin Nat
  /\ Nothing \notin [packet : Nat, link : Nat]
  /\ \A s \in Streams : \A k \in DOMAIN s.events :
       s.events[k].kind = "packet" => s.events[k].spec # Nothing

\* A reader answers one call after another.
ASSUME StreamsAssumption ==
  \A s \in Streams : s.events \in Seq({s.events[k] : k \in DOMAIN s.events})

VARIABLES
  stream,
  position,      \* events the reader has answered with
  link,          \* resets among them: the logical stream the reader is in
  track_decoder, \* the selected track's id and the link its decoder is for
  short_error,   \* a decode error `end_of_stream_or` still holds
  spec,          \* the spec the first packet decoded under
  first_chunk,   \* decoded by the constructor and not yet taken
  pushed,        \* the chunks handed to the resampler
  outcome        \* "opening", "reading", "finished" or the error returned

vars == <<stream, position, link, track_decoder, short_error, spec,
          first_chunk, pushed, outcome>>

Running == outcome \in {"opening", "reading"}

\* Opus discards its warm-up and a container its padding, so a packet may
\* decode to no frames at all.
FramesOf(chunk) == stream.events[chunk.packet].frames

-------------------------------------------------------------------------------
Init ==
  /\ stream \in Streams
  /\ position = 0
  /\ link = 0
  /\ track_decoder = Nothing
  /\ short_error = Nothing
  /\ spec = Nothing
  /\ first_chunk = Nothing
  /\ pushed = <<>>
  /\ outcome = "opening"

\* decoder_for: the first track with a codec in the registry, whose decoder's
\* constructor may still refuse it.
FirstSupported(tracks) ==
  LET supported == {t \in DOMAIN tracks : tracks[t].codec # "unknown"}
  IN  IF supported = {} THEN NoTrack
      ELSE tracks[CHOOSE t \in supported : \A u \in supported : t <= u]

DecoderFor_bug(tracks, opened) ==
  LET track == FirstSupported(tracks)
      kept == IF track_decoder = Nothing THEN opened ELSE track_decoder.link
  IN  IF track # NoTrack /\ track.codec = "known"
      THEN /\ outcome' = "reading"
           /\ track_decoder' = [track_id |-> track.id, link |-> kept]
      ELSE /\ outcome' = "unsupported"
           /\ UNCHANGED track_decoder
DecoderFor(tracks, opened) ==
  LET track == FirstSupported(tracks)
  IN  IF track # NoTrack /\ track.codec = "known"
      THEN /\ outcome' = "reading"
           /\ track_decoder' = [track_id |-> track.id, link |-> opened]
      ELSE /\ outcome' = "unsupported"
           /\ UNCHANGED track_decoder

\* The probe, then PacketDecoder::from_format.
Open ==
  /\ outcome = "opening"
  /\ IF stream.recognised THEN DecoderFor(stream.tracks, 0)
     ELSE outcome' = "unsupported" /\ UNCHANGED track_decoder
  /\ UNCHANGED <<stream, position, link, short_error, spec, first_chunk, pushed>>

\* What the reader answers the next call of `next_packet`.
Event == IF position < Len(stream.events) THEN stream.events[position + 1]
         ELSE [kind |-> "end"]

\* `next_packet` is called when the chunk before has been taken.
Answers(kinds) ==
  /\ outcome = "reading"
  /\ first_chunk = Nothing
  /\ Event.kind \in kinds
  /\ position' = position + 1
  /\ UNCHANGED stream

\* The reader has nothing more, or ran out where the container said there was
\* more.  A short packet before it was the last of the stream.
EndOfStream ==
  /\ Answers({"end", "eof"})
  /\ outcome' = IF spec = Nothing THEN "no_audio" ELSE "finished"
  /\ short_error' = Nothing
  /\ UNCHANGED <<link, track_decoder, spec, first_chunk, pushed>>

ReaderFails ==
  /\ Answers({"fault"})
  /\ outcome' = "reader_error"
  /\ UNCHANGED <<link, track_decoder, short_error, spec, first_chunk, pushed>>

Reopen_bug ==
  /\ Answers({"reset"})
  /\ outcome' = IF spec = Nothing THEN "no_audio" ELSE "finished"
  /\ UNCHANGED <<link, track_decoder, short_error, spec, first_chunk, pushed>>

\* ResetRequired: the next link gets its own track and decoder, and the loop
\* of `next_packet` goes on.
Reopen ==
  /\ Answers({"reset"})
  /\ link' = link + 1
  /\ DecoderFor(Event.tracks, link + 1)
  /\ UNCHANGED <<short_error, spec, first_chunk, pushed>>

OwnPacket ==
  /\ short_error = Nothing
  /\ Event.track = track_decoder.track_id

SkipPacket ==
  /\ Answers({"packet"})
  /\ short_error = Nothing
  /\ Event.track # track_decoder.track_id
  /\ UNCHANGED <<link, track_decoder, short_error, spec, first_chunk, pushed, outcome>>

\* end_of_stream_or: a packet of any track after the short one.
RefuseShortPacket ==
  /\ Answers({"packet"})
  /\ short_error # Nothing
  /\ outcome' = "short_packet"
  /\ UNCHANGED <<link, track_decoder, short_error, spec, first_chunk, pushed>>

DecodeShort ==
  /\ Answers({"packet"})
  /\ OwnPacket
  /\ Event.decodes = "short"
  /\ short_error' = position + 1
  /\ UNCHANGED <<link, track_decoder, spec, first_chunk, pushed, outcome>>

DecodeDamaged ==
  /\ Answers({"packet"})
  /\ OwnPacket
  /\ Event.decodes = "damaged"
  /\ outcome' = "damaged_packet"
  /\ UNCHANGED <<link, track_decoder, short_error, spec, first_chunk, pushed>>

Chunk == [packet |-> position + 1, link |-> track_decoder.link]

\* MonoDecoder::new keeps the first packet, whose spec every other must have.
DecodeFirst ==
  /\ Answers({"packet"})
  /\ OwnPacket
  /\ Event.decodes = "ok"
  /\ spec = Nothing
  /\ spec' = Event.spec
  /\ first_chunk' = Chunk
  /\ UNCHANGED <<link, track_decoder, short_error, pushed, outcome>>

\* next_chunk hands it over before it reads on; `pcm_samples` pushes it.
TakeFirstChunk_bug ==
  /\ outcome = "reading"
  /\ first_chunk # Nothing
  /\ first_chunk' = Nothing
  /\ UNCHANGED <<stream, position, link, track_decoder, short_error, spec, pushed, outcome>>
TakeFirstChunk ==
  /\ outcome = "reading"
  /\ first_chunk # Nothing
  /\ pushed' = Append(pushed, first_chunk)
  /\ first_chunk' = Nothing
  /\ UNCHANGED <<stream, position, link, track_decoder, short_error, spec, outcome>>

DecodeNext ==
  /\ Answers({"packet"})
  /\ OwnPacket
  /\ Event.decodes = "ok"
  /\ spec # Nothing
  /\ IF Event.spec = spec
     THEN pushed' = Append(pushed, Chunk) /\ UNCHANGED outcome
     ELSE outcome' = "changed_format" /\ UNCHANGED pushed
  /\ UNCHANGED <<link, track_decoder, short_error, spec, first_chunk>>

Next ==
  \/ Open
  \/ EndOfStream
  \/ ReaderFails
  \/ Reopen
  \/ SkipPacket
  \/ RefuseShortPacket
  \/ DecodeShort
  \/ DecodeDamaged
  \/ DecodeFirst
  \/ TakeFirstChunk
  \/ DecodeNext

\* One thread runs the loop, and a reader answers every call.
Spec == Init /\ [][Next]_vars /\ WF_vars(Next)

-------------------------------------------------------------------------------
\* The chunks decoded so far, the one not yet taken included.
Delivered == IF first_chunk = Nothing THEN pushed ELSE Append(pushed, first_chunk)

\* A packet is decoded by the decoder made for the logical stream it lies in,
\* for the track selected there: `next_packet` replaces the decoder before it
\* hands out the first packet of a chained link.
DecodedByItsLink ==
  \A k \in DOMAIN Delivered :
    LET earlier == 1 .. Delivered[k].packet
    IN  Delivered[k].link
          = Cardinality({m \in earlier : stream.events[m].kind = "reset"})

\* What the caller has been told.
Result ==
  CASE Running -> [kind |-> "pending"]
    [] outcome = "finished" ->
         [kind |-> "chunks",
          positions |-> [k \in DOMAIN pushed |-> pushed[k].packet]]
    [] OTHER -> [kind |-> "refused"]
Contract == INSTANCE StreamContract WITH result <- Result
\* A packet of the track selected in its link, that decodes.
IsWanted(k) ==
  LET tracks == Contract!TracksAt(k)
  IN  /\ stream.events[k].kind = "packet" /\ stream.events[k].decodes = "ok"
      /\ Contract!Readable(tracks) /\ stream.events[k].track = Contract!Selected(tracks).id

\* Each chunk is delivered once and in the order of the stream, the one
\* `MonoDecoder::new` had to decode early included, and nothing is read on before
\* that one is taken.  At every point of the reading none is left out so far.
ChunksInOrder ==
  /\ \A k \in 1 .. Len(Delivered) - 1 : Delivered[k].packet < Delivered[k + 1].packet
  /\ outcome = "reading" =>
       {Delivered[k].packet : k \in DOMAIN Delivered} = {k \in 1 .. position : IsWanted(k)}
  /\ first_chunk # Nothing => pushed = <<>> /\ first_chunk.packet = position

\* The whole of it: reading one packet at a time comes to the verdict that
\* StreamContract gives of the stream as a whole, and always comes to one.
KeepsContract == Contract!Spec

\* The comment above `MonoDecoder::new` says that a stream that decodes to
\* nothing is an error there.
DecodesToSomething ==
  outcome = "finished" => \E k \in DOMAIN pushed : FramesOf(pushed[k]) > 0
===============================================================================
