---------------------------- MODULE OpusDecoderProofs ----------------------------
(***************************************************************************)
(* The properties of OpusDecoder for streams, headers and packets of any   *)
(* size.                                                                   *)
(*                                                                         *)
(* The invariant adds two facts to the properties.  The parser is only in  *)
(* its second half with a header long enough for the fixed fields; and     *)
(* while packets decode, what is left to skip is what the header named     *)
(* less all that libopus decoded, which is why the count may be dropped    *)
(* from a packet without knowing what earlier packets dropped.             *)
(***************************************************************************)
EXTENDS OpusDecoder, TLAPS

LongEnough == pc = "layout" => stream.head.length >= OPUS_HEAD_MIN_LENGTH

SkipsTheRest ==
  /\ pc \in {"header", "layout", "libopus"} => decoded = 0
  /\ pc = "decoding" => frames_to_skip = Max(0, stream.head.pre_skip - decoded)

Inv == TypeOK /\ LongEnough /\ HeaderReadInRange /\ SkipsTheRest /\ TrimmedOnce

USE DEF OPUS_HEAD_MIN_LENGTH, VERSION_OFFSET, CHANNEL_COUNT_OFFSET, MAPPING_FAMILY_OFFSET,
        CHANNEL_MAPPING_OFFSET

\* Counts, and what is signalled of a stream, are natural numbers.
LEMMA Counts ==
  ASSUME TypeOK
  PROVE  /\ decoded \in Nat /\ frames_to_skip \in Nat
         /\ stream.total \in Nat /\ stream.start \in Nat /\ stream.end \in Nat
         /\ stream.head.pre_skip \in Nat /\ stream.head.length \in Nat
         /\ stream.head.channels \in 0 .. 255
  BY StreamsAssumption DEF TypeOK

\* A packet has frames.
LEMMA PacketSizes == \A frames \in 1 .. MAX_FRAMES_PER_PACKET : frames \in Nat \ {0}
  BY StreamsAssumption

\* One packet: whatever is left to skip and is signalled, the frames kept of it
\* are those that neither the warm-up nor the padding covers.
LEMMA PacketTrimmedOnce ==
  ASSUME TypeOK, SkipsTheRest, pc = "decoding",
         NEW frames \in 1 .. MAX_FRAMES_PER_PACKET,
         decoded + frames <= stream.total,
         NEW frame \in decoded .. decoded + frames - 1
  PROVE  frame \in decoded + Leading(frames)
                     .. decoded + frames - Min(TrimEnd(frames), frames - Leading(frames)) - 1
           <=> /\ frame >= stream.head.pre_skip
               /\ frame >= stream.start
               /\ frame < stream.total - stream.end
  <1>1. frames \in Nat \ {0}
    BY PacketSizes
  <1>2. QED
    BY <1>1, Counts DEF SkipsTheRest, Leading, TrimStart, TrimEnd, Min, Max

\* The frames dropped at the start of a packet are not more than it has.
LEMMA LeadingBounds ==
  ASSUME TypeOK, NEW frames \in 1 .. MAX_FRAMES_PER_PACKET
  PROVE  Leading(frames) \in 0 .. frames
  <1>1. frames \in Nat /\ frames_to_skip \in Nat /\ decoded \in Nat /\ stream.start \in Nat
    BY Counts, PacketSizes
  <1>2. TrimStart(frames) \in 0 .. frames
    BY <1>1 DEF TrimStart, Min, Max
  <1> QED
    BY <1>1, <1>2 DEF Leading, Min, Max

\* No frame is decoded before the header is parsed.
LEMMA InitEstablishes == Init => Inv
  <1> SUFFICES ASSUME Init PROVE Inv
    OBVIOUS
  <1>1. TypeOK
    BY DEF Init, TypeOK
  <1>2. LongEnough /\ HeaderReadInRange /\ SkipsTheRest
    BY <1>1, Counts DEF Init, LongEnough, HeaderReadInRange, SkipsTheRest
  <1>3. TrimmedOnce
    BY <1>1, Counts DEF Init, TrimmedOnce
  <1> QED
    BY <1>1, <1>2, <1>3 DEF Inv

\* The parser reads the header and leaves the frames alone.
LEMMA ParserPreserves ==
  ASSUME Inv, ParseFields \/ ParseStreamLayout \/ OpenLibopus
  PROVE  Inv'
  <1> USE DEF Inv
  <1>1. stream' = stream /\ decoded' = decoded /\ kept' = kept
    BY DEF ParseFields, ParseStreamLayout, OpenLibopus
  <1>2. TrimmedOnce'
    BY <1>1 DEF TrimmedOnce
  <1>3. stream.head.pre_skip \in Nat /\ stream.head.length \in Nat /\ stream.head.channels \in Nat
    BY Counts
  <1>4. CASE ParseFields
    <2>1. /\ pc = "header" /\ pc' \in {"unsupported", "layout"}
          /\ frames_to_skip' = frames_to_skip
          /\ last_read' \in Int
          /\ HeaderReadInRange'
          /\ LongEnough'
      BY <1>1, <1>3, <1>4 DEF ParseFields, TypeOK, LongEnough, HeaderReadInRange
    <2>2. TypeOK'
      BY <1>1, <2>1 DEF TypeOK
    <2>3. SkipsTheRest'
      BY <1>1, <2>1 DEF SkipsTheRest
    <2> QED
      BY <1>2, <2>1, <2>2, <2>3
  <1>5. CASE ParseStreamLayout
    <2>4. /\ pc = "layout" /\ pc' \in {"unsupported", "cut_short", "libopus"}
          /\ frames_to_skip' = frames_to_skip
          /\ stream.head.length >= OPUS_HEAD_MIN_LENGTH
      BY <1>5 DEF ParseStreamLayout, LongEnough
    <2>1. last_read' \in Int /\ last_read' < stream.head.length
      <3>1. \/ last_read' = MAPPING_FAMILY_OFFSET
            \/ /\ ~(stream.head.length < CHANNEL_MAPPING_OFFSET + stream.head.channels)
               /\ last_read' = CHANNEL_MAPPING_OFFSET + stream.head.channels - 1
        BY <1>3, <1>5 DEF ParseStreamLayout, TableEnd
      <3>2. CASE last_read' = MAPPING_FAMILY_OFFSET
        BY <1>3, <2>4, <3>2
      <3>3. CASE /\ ~(stream.head.length < CHANNEL_MAPPING_OFFSET + stream.head.channels)
                 /\ last_read' = CHANNEL_MAPPING_OFFSET + stream.head.channels - 1
        BY <1>3, <3>3
      <3> QED
        BY <3>1, <3>2, <3>3
    <2>2. TypeOK' /\ LongEnough' /\ HeaderReadInRange'
      BY <1>1, <2>4, <2>1 DEF TypeOK, LongEnough, HeaderReadInRange
    <2>3. SkipsTheRest'
      BY <1>1, <2>4 DEF SkipsTheRest
    <2> QED
      BY <1>2, <2>1, <2>2, <2>3
  <1>6. CASE OpenLibopus
    <2>1. /\ pc = "libopus" /\ pc' \in {"unsupported", "decoding"}
          /\ last_read' = last_read
          /\ frames_to_skip' \in Nat
          /\ pc' = "decoding" => frames_to_skip' = stream.head.pre_skip
      BY <1>3, <1>6 DEF OpenLibopus, TypeOK
    <2>2. TypeOK' /\ LongEnough' /\ HeaderReadInRange'
      BY <1>1, <2>1 DEF TypeOK, LongEnough, HeaderReadInRange
    <2>3. SkipsTheRest'
      BY <1>1, <1>3, <2>1 DEF SkipsTheRest, Max
    <2> QED
      BY <1>2, <2>1, <2>2, <2>3
  <1> QED
    BY <1>4, <1>5, <1>6

\* A packet's frames are numbered after all that were decoded before it, so
\* the frames kept so far stay right and the packet adds its own.
LEMMA DecodeRefPreserves ==
  ASSUME Inv, NEW frames \in 1 .. MAX_FRAMES_PER_PACKET, DecodeRef(frames)
  PROVE  Inv'
  <1> USE DEF Inv
  <1> DEFINE leading == Leading(frames)
             trailing == Min(TrimEnd(frames), frames - leading)
             added == decoded + leading .. decoded + frames - trailing - 1
             Sound(frame) == /\ frame >= stream.head.pre_skip
                             /\ frame >= stream.start
                             /\ frame < stream.total - stream.end
  <1>1. /\ pc = "decoding" /\ pc' = pc /\ stream' = stream /\ last_read' = last_read
        /\ decoded + frames <= stream.total
        /\ decoded' = decoded + frames
        /\ frames_to_skip' = LeftToSkip(leading)
        /\ kept' = kept \cup added
    BY DEF DecodeRef
  <1>2. frames \in Nat \ {0} /\ decoded \in Nat /\ frames_to_skip \in Nat
    BY PacketSizes, Counts
  <1>3. leading \in 0 .. frames
    BY LeadingBounds
  <1>4. trailing \in 0 .. frames - leading
    BY <1>2, <1>3, Counts DEF TrimEnd, Min, Max
  <1>5. added \subseteq decoded .. decoded + frames - 1
    BY <1>2, <1>3, <1>4
  <1>6. TypeOK'
    <2>1. frames_to_skip' \in Nat /\ decoded' \in Nat
      BY <1>1, <1>2, <1>3 DEF LeftToSkip, Max
    <2>2. added \subseteq Nat
      BY <1>2, <1>5
    <2> QED
      BY <1>1, <2>1, <2>2 DEF TypeOK
  <1>7. LongEnough' /\ HeaderReadInRange'
    BY <1>1 DEF LongEnough, HeaderReadInRange
  <1>8. SkipsTheRest'
    BY <1>1, <1>2, Counts
       DEF SkipsTheRest, Leading, LeftToSkip, TrimStart, Min, Max
  <1>9. TrimmedOnce'
    <2>1. kept = {frame \in 0 .. decoded - 1 : Sound(frame)}
      BY DEF TrimmedOnce
    <2>2. \A frame \in decoded .. decoded + frames - 1 : frame \in added <=> Sound(frame)
      BY PacketTrimmedOnce, <1>1
    <2>3. \A frame \in 0 .. decoded + frames - 1 :
            \/ frame \in 0 .. decoded - 1 /\ frame \notin added
            \/ frame \in decoded .. decoded + frames - 1 /\ frame \notin 0 .. decoded - 1
      BY <1>2, <1>5
    <2>4. \A frame \in (0 .. decoded - 1) \cup (decoded .. decoded + frames - 1) :
            frame \in 0 .. decoded + frames - 1
      BY <1>2
    <2>5. stream' = stream /\ decoded' = decoded + frames /\ kept' = kept \cup added
      BY <1>1
    <2> HIDE DEF leading, trailing, added, Sound
    <2>6. kept \cup added = {frame \in 0 .. decoded + frames - 1 : Sound(frame)}
      BY <1>5, <2>1, <2>2, <2>3, <2>4
    <2>7. TrimmedOnce' <=> kept' = {frame \in 0 .. decoded + frames - 1 : Sound(frame)}
      BY <1>2, <2>5 DEF TrimmedOnce, Sound
    <2> QED
      BY <2>6, <2>5, <2>7
  <1> QED
    BY <1>6, <1>7, <1>8, <1>9

\* The end of a stream and a rejected packet change no frame.
LEMMA EndPreserves ==
  ASSUME Inv, RejectPacket \/ EndOfStream \/ UNCHANGED vars
  PROVE  Inv'
  BY DEF Inv, RejectPacket, EndOfStream, vars, TypeOK, LongEnough, HeaderReadInRange,
         SkipsTheRest, TrimmedOnce

\* The invariant holds in every state of the decoder.
THEOREM Invariance == Spec => []Inv
  <1>1. Inv /\ [Next]_vars => Inv'
    BY ParserPreserves, DecodeRefPreserves, EndPreserves DEF Next
  <1> QED
    BY InitEstablishes, <1>1, PTL DEF Spec

\* Every count of `decode_ref` (opus_decoder.rs:252-259) stays a natural number.
THEOREM TypeCorrect == Spec => []TypeOK
  BY Invariance, PTL DEF Inv

\* `parse` and `parse_stream_layout` (opus_decoder.rs:79-148) index no byte the
\* header does not have, whatever length and channel count it comes with.
THEOREM HeaderNeverOverread == Spec => []HeaderReadInRange
  BY Invariance, PTL DEF Inv

\* `decode_ref` drops each frame of warm-up and padding once, for packets of any
\* size and whichever of the header and the container names the frames.
THEOREM DropsEachFrameOnce == Spec => []TrimmedOnce
  BY Invariance, PTL DEF Inv
================================================================================
