------------------------------- MODULE OpusDecoder -------------------------------
(***************************************************************************)
(* src/src/fingerprinting/opus_decoder.rs: the header of an Opus stream is *)
(* parsed field by field, libopus is opened on what it says, and the       *)
(* frames of every packet are trimmed before they are handed on.           *)
(*                                                                         *)
(* Frames are numbered from 0 in the order libopus decodes them.  A header *)
(* is its length and the fields the parser reads; a container may signal   *)
(* the warm-up to drop at the start and the padding to drop at the end,    *)
(* and the demuxers (outside the repository) split what they signal over   *)
(* the packets it falls in.  Gain is data and is left out, and so is       *)
(* `reset`, which nothing in the repository calls on this decoder.         *)
(*                                                                         *)
(* An operator whose name holds "_bug" is a mistake this code could have   *)
(* had; it stands beside the definition it would replace and is used by no *)
(* other definition.                                                       *)
(***************************************************************************)
EXTENDS Integers

CONSTANTS
  MAX_FRAMES_PER_PACKET,
  Streams   \* head: its header, length 0 when the container carries none;
            \* total: frames of all packets; start, end: what is signalled

ASSUME StreamsAssumption ==
  /\ MAX_FRAMES_PER_PACKET \in Nat \ {0}
  /\ \A s \in Streams :
       /\ s.total \in Nat /\ s.start \in Nat /\ s.end \in Nat
       /\ s.head.pre_skip \in Nat
       /\ s.head.length \in Nat
       /\ s.head.channels \in 0 .. 255

OPUS_HEAD_MIN_LENGTH == 19
VERSION_OFFSET == 8
CHANNEL_COUNT_OFFSET == 9
MAPPING_FAMILY_OFFSET == 18
CHANNEL_MAPPING_OFFSET == 21
MAX_HEADER_VERSION == 15
MAPPING_FAMILY_RTP == 0
MAPPING_FAMILY_VORBIS == 1
MAPPING_FAMILY_DISCRETE == 255

VARIABLES
  stream,
  last_read,      \* greatest offset of the header that was read, -1 for none
  frames_to_skip,
  decoded,        \* frames libopus has decoded
  kept,           \* the frames of them handed on
  pc              \* "header", "layout", "libopus", "decoding", "ended" or the error

vars == <<stream, last_read, frames_to_skip, decoded, kept, pc>>

Min(a, b) == IF a <= b THEN a ELSE b
Max(a, b) == IF a >= b THEN a ELSE b

Init ==
  /\ stream \in Streams
  /\ last_read = -1
  /\ frames_to_skip = 0
  /\ decoded = 0
  /\ kept = {}
  /\ pc = "header"

-------------------------------------------------------------------------------
(* The header. *)

\* OpusHead::parse up to the layout: magic and length, version, channel count.
ParseFields ==
  /\ pc = "header"
  /\ LET head == stream.head
     IN  IF head.length < OPUS_HEAD_MIN_LENGTH \/ ~head.magic
         THEN pc' = "unsupported" /\ UNCHANGED last_read
         ELSE IF head.version > MAX_HEADER_VERSION
         THEN pc' = "unsupported" /\ last_read' = VERSION_OFFSET
         ELSE IF head.channels = 0
         THEN pc' = "unsupported" /\ last_read' = CHANNEL_COUNT_OFFSET
         ELSE pc' = "layout" /\ last_read' = MAPPING_FAMILY_OFFSET - 1
  /\ UNCHANGED <<stream, frames_to_skip, decoded, kept>>

MaxChannelsForFamily(mapping_family) ==
  CASE mapping_family = MAPPING_FAMILY_RTP -> 2
    [] mapping_family = MAPPING_FAMILY_VORBIS -> 8
    [] OTHER -> 255

\* Where a table of one entry a channel ends.
TableEnd_bug(channels) == CHANNEL_MAPPING_OFFSET
TableEnd(channels) == CHANNEL_MAPPING_OFFSET + channels

\* parse_stream_layout: the table is read only where the family has one.  The
\* bytes it takes out are the two counts and CHANNEL_MAPPING_OFFSET .. table_end - 1.
ParseStreamLayout ==
  /\ pc = "layout"
  /\ LET head == stream.head
     IN  IF \/ head.family \notin
                 {MAPPING_FAMILY_RTP, MAPPING_FAMILY_VORBIS, MAPPING_FAMILY_DISCRETE}
            \/ head.channels > MaxChannelsForFamily(head.family)
         THEN pc' = "unsupported" /\ last_read' = MAPPING_FAMILY_OFFSET
         ELSE IF head.family = MAPPING_FAMILY_RTP
         THEN pc' = "libopus" /\ last_read' = MAPPING_FAMILY_OFFSET
         ELSE IF head.length < TableEnd(head.channels)
         THEN pc' = "cut_short" /\ last_read' = MAPPING_FAMILY_OFFSET
         ELSE pc' = "libopus" /\ last_read' = CHANNEL_MAPPING_OFFSET + head.channels - 1
  /\ UNCHANGED <<stream, frames_to_skip, decoded, kept>>

\* try_new: libopus may refuse the stream and coupled counts or the mapping.
OpenLibopus ==
  /\ pc = "libopus"
  /\ \/ pc' = "unsupported" /\ UNCHANGED frames_to_skip
     \/ pc' = "decoding" /\ frames_to_skip' = stream.head.pre_skip
  /\ UNCHANGED <<stream, last_read, decoded, kept>>

-------------------------------------------------------------------------------
(* The packets. *)

\* What a demuxer signals for the next packet, of that many frames.
TrimStart(frames) == Min(frames, Max(0, stream.start - decoded))
TrimEnd(frames) == Min(frames, Max(0, decoded + frames - Max(0, stream.total - stream.end)))

\* Frames dropped at the start of a packet: the larger of what is left of the
\* header's count and of what the container signals, at most the packet.
Leading_bug(frames) == Min(frames_to_skip + TrimStart(frames), frames)
Leading(frames) == Min(Max(frames_to_skip, TrimStart(frames)), frames)

\* saturating_sub
LeftToSkip(dropped) == Max(0, frames_to_skip - dropped)

DecodeRef(frames) ==
  /\ pc = "decoding"
  /\ decoded + frames <= stream.total
  /\ LET leading == Leading(frames)
         trailing == Min(TrimEnd(frames), frames - leading)
     IN  /\ frames_to_skip' = LeftToSkip(leading)
         /\ kept' = kept \cup (decoded + leading .. decoded + frames - trailing - 1)
  /\ decoded' = decoded + frames
  /\ UNCHANGED <<stream, last_read, pc>>

\* libopus rejects a packet: the caller asks this decoder for no other.
RejectPacket ==
  /\ pc = "decoding"
  /\ decoded < stream.total
  /\ pc' = "rejected"
  /\ UNCHANGED <<stream, last_read, frames_to_skip, decoded, kept>>

EndOfStream ==
  /\ pc = "decoding"
  /\ decoded = stream.total
  /\ pc' = "ended"
  /\ UNCHANGED <<stream, last_read, frames_to_skip, decoded, kept>>

Next ==
  \/ ParseFields
  \/ ParseStreamLayout
  \/ OpenLibopus
  \/ \E frames \in 1 .. MAX_FRAMES_PER_PACKET : DecodeRef(frames)
  \/ RejectPacket
  \/ EndOfStream

Spec == Init /\ [][Next]_vars

-------------------------------------------------------------------------------
(* Properties. *)

\* Every count stays the natural number its `usize` is: none goes below zero.
TypeOK ==
  /\ stream \in Streams
  /\ last_read \in Int
  /\ frames_to_skip \in Nat
  /\ decoded \in Nat
  /\ kept \subseteq Nat
  /\ pc \in {"header", "layout", "libopus", "decoding", "ended",
             "unsupported", "cut_short", "rejected"}

\* The parser indexes the header only where it has bytes: what it declares of
\* its channels never takes the mapping table past its end.
HeaderReadInRange == last_read < stream.head.length

\* Each frame of the warm-up and of the padding is dropped once, whichever of
\* the header and the container names it and however packets cut it up, and no
\* frame of the sound is dropped with it.
TrimmedOnce ==
  kept = {frame \in 0 .. decoded - 1 :
            /\ frame >= stream.head.pre_skip
            /\ frame >= stream.start
            /\ frame < stream.total - stream.end}
================================================================================
