-------------------------- MODULE FingerprintJobProofs --------------------------
(***************************************************************************)
(* The job of FingerprintJob answers as FingerprintContract promises, and  *)
(* what holds of its parts holds of them at work together.  The proofs of  *)
(* the parts stand in modules of their own and come with their inductive   *)
(* invariants, and the job's invariant conjoins those with how far each    *)
(* part is in each call.                                                   *)
(***************************************************************************)
EXTENDS FingerprintJob, FiniteSetTheorems, TLAPS

\* The parts whose proofs are in modules of their own, as the job uses them.
\* The job counts frames and leaves out what is heard in them.
OneChannel(shape) == 1
DP == INSTANCE PacketDecoderProofs WITH
  outcome <- decoding,
  Channels <- OneChannel,
  interleaved_samples <- <<>>, mono_frames <- <<>>, first_frames <- Nothing
RP == INSTANCE ResamplingProofs WITH pc <- resampling, PieceSizes <- 0 .. MaxFrames
GP == INSTANCE SignatureGeneratorProofs WITH
  pc <- generating,
  ChunkCounts <- UNION {0 .. WholeChunks(most) : most \in USIZE_MAXES}
\* The job reports no milliseconds.
SP == INSTANCE SignatureProofs WITH
  pc <- encoding, samples <- -1,
  Lengths <- UNION {0 .. most : most \in USIZE_MAXES},
  PaddingSamples <- (SAMPLE_RATE_HZ * 24) \div 100,
  Signatures <- {NoSignature}

LEMMA Widths ==
  /\ SAMPLE_RATE_HZ \in Nat \ {0} /\ SAMPLE_RATE_HZ % 2 = 0
  /\ U32_MAX \in Nat
  /\ DEFAULT_SEGMENT_SECONDS \in 1 .. U32_MAX
  /\ USIZE_MAXES \subseteq Nat /\ \A most \in USIZE_MAXES : U32_MAX <= most
  /\ None \notin Nat
  /\ Durations \subseteq {None} \cup 1 .. U32_MAX
  BY PartsAssumption DEF Cutter!WidthsAssumption

-------------------------------------------------------------------------------
(* The parts' own proofs, brought here. *)

LEMMA PartsAssumed ==
  /\ DP!NothingAssumption /\ DP!StreamsAssumption /\ DP!ChannelsAssumption
  /\ RP!SizesAssumption /\ RP!ExpectedAssumption
  /\ GP!SizesAssumption /\ GP!BinsAssumption /\ GP!LagAssumption
  /\ GP!LevelsAssumption /\ GP!SpectraAssumption
  /\ SP!WidthsAssumption /\ SP!SignaturesAssumption
  <1>1. DP!NothingAssumption /\ DP!StreamsAssumption /\ DP!ChannelsAssumption
    BY PartsAssumption, JobAssumption DEF Decoder!NothingAssumption,
       Decoder!StreamsAssumption, DP!NothingAssumption, DP!StreamsAssumption,
       DP!ChannelsAssumption, OneChannel
  <1>2. RP!SizesAssumption /\ RP!ExpectedAssumption
    BY PartsAssumption DEF Resampler!SizesAssumption, Resampler!ExpectedAssumption,
       RP!SizesAssumption, RP!ExpectedAssumption
  <1>3. GP!SizesAssumption
    BY PartsAssumption DEF Generator!SizesAssumption, GP!SizesAssumption
  <1>4. GP!BinsAssumption
    BY PartsAssumption DEF Generator!BinsAssumption, GP!BinsAssumption, Generator!Judged,
       GP!Judged
  <1>5. GP!LagAssumption
    BY PartsAssumption DEF Generator!LagAssumption, GP!LagAssumption
  <1>6. GP!LevelsAssumption
    BY PartsAssumption DEF Generator!LevelsAssumption, GP!LevelsAssumption
  <1>7. GP!SpectraAssumption
    BY PartsAssumption DEF Generator!SpectraAssumption, GP!SpectraAssumption,
       Generator!LatestChunks, GP!LatestChunks, Generator!Positions, GP!Positions,
       Generator!NoChunk, GP!NoChunk, Generator!Bins, GP!Bins
  <1>8. SP!WidthsAssumption
    BY PartsAssumption DEF Cutter!WidthsAssumption, SP!WidthsAssumption
  <1>9. SP!SignaturesAssumption
    <2>1. SAMPLE_RATE_HZ \in DOMAIN SP!SampleRateId
      BY JobAssumption, SMT DEF SP!SampleRateId, Encoder!SampleRateId
    <2>2. DOMAIN NoSignature.peaks = {}
      BY DEF NoSignature
    <2>3. SP!Fits(NoSignature)
      BY <2>1, <2>2 DEF SP!Fits, NoSignature
    <2> QED
      BY <2>3 DEF SP!SignaturesAssumption
  <1> QED
    BY <1>1, <1>2, <1>3, <1>4, <1>5, <1>6, <1>7, <1>8, <1>9

\* The two instances of each part are one and the same.
LEMMA SameDecoder ==
  /\ Decoder!Init <=> DP!Init
  /\ Decoder!Open <=> DP!Open
  /\ Decoder!EndOfStream <=> DP!EndOfStream
  /\ Decoder!ReaderFails <=> DP!ReaderFails
  /\ Decoder!Reopen <=> DP!Reopen
  /\ Decoder!SkipPacket <=> DP!SkipPacket
  /\ Decoder!RefuseShortPacket <=> DP!RefuseShortPacket
  /\ Decoder!DecodeShort <=> DP!DecodeShort
  /\ Decoder!DecodeDamaged <=> DP!DecodeDamaged
  /\ Decoder!DecodeFirst <=> DP!DecodeFirst
  /\ Decoder!TakeFirstChunk <=> DP!TakeFirstChunk
  /\ Decoder!DecodeNext <=> DP!DecodeNext
  <1> USE DEF Decoder!Answers, DP!Answers, Decoder!Event, DP!Event, Decoder!OwnPacket,
          DP!OwnPacket
  <1>1. Decoder!Init <=> DP!Init
    BY DEF Decoder!Init, DP!Init
  <1>2. /\ Decoder!Open <=> DP!Open
        /\ Decoder!Reopen <=> DP!Reopen
    BY DEF Decoder!Open, DP!Open, Decoder!Reopen, DP!Reopen, Decoder!DecoderFor,
       DP!DecoderFor, Decoder!FirstSupported, DP!FirstSupported
  <1>3. /\ Decoder!EndOfStream <=> DP!EndOfStream
        /\ Decoder!ReaderFails <=> DP!ReaderFails
    BY DEF Decoder!EndOfStream, DP!EndOfStream, Decoder!ReaderFails, DP!ReaderFails
  <1>4. /\ Decoder!SkipPacket <=> DP!SkipPacket
        /\ Decoder!RefuseShortPacket <=> DP!RefuseShortPacket
    BY DEF Decoder!SkipPacket, DP!SkipPacket, Decoder!RefuseShortPacket, DP!RefuseShortPacket
  <1>5. /\ Decoder!DecodeShort <=> DP!DecodeShort
        /\ Decoder!DecodeDamaged <=> DP!DecodeDamaged
    BY DEF Decoder!DecodeShort, DP!DecodeShort, Decoder!DecodeDamaged, DP!DecodeDamaged
  <1>6. /\ Decoder!DecodeFirst <=> DP!DecodeFirst
        /\ Decoder!TakeFirstChunk <=> DP!TakeFirstChunk
        /\ Decoder!DecodeNext <=> DP!DecodeNext
    BY DEF Decoder!DecodeFirst, DP!DecodeFirst, Decoder!TakeFirstChunk, DP!TakeFirstChunk,
       Decoder!DecodeNext, DP!DecodeNext, Decoder!Chunk, DP!Chunk
  <1> QED
    BY <1>1, <1>2, <1>3, <1>4, <1>5, <1>6

LEMMA SameResampler ==
  /\ Resampler!Init <=> RP!Init
  /\ \A size : Resampler!Push(size) <=> RP!Push(size)
  /\ Resampler!ResampleWhole <=> RP!ResampleWhole
  /\ Resampler!PushReturns <=> RP!PushReturns
  /\ Resampler!Finish <=> RP!Finish
  /\ Resampler!ResamplePartial <=> RP!ResamplePartial
  /\ Resampler!Flush <=> RP!Flush
  /\ Resampler!Truncate <=> RP!Truncate
  <1> USE DEF Resampler!ChunkIsDue, RP!ChunkIsDue, Resampler!ResampleChunk, RP!ResampleChunk,
          Resampler!OutputIsShort, RP!OutputIsShort, Resampler!Min, RP!Min
  <1>1. Resampler!Init <=> RP!Init
    BY DEF Resampler!Init, RP!Init
  <1>2. \A size : Resampler!Push(size) <=> RP!Push(size)
    BY DEF Resampler!Push, RP!Push
  <1>3. Resampler!ResampleWhole <=> RP!ResampleWhole
    BY DEF Resampler!ResampleWhole, RP!ResampleWhole
  <1>4. /\ Resampler!PushReturns <=> RP!PushReturns
        /\ Resampler!Finish <=> RP!Finish
    BY DEF Resampler!PushReturns, RP!PushReturns, Resampler!Finish, RP!Finish
  <1>5. Resampler!ResamplePartial <=> RP!ResamplePartial
    BY DEF Resampler!ResamplePartial, RP!ResamplePartial
  <1>6. /\ Resampler!Flush <=> RP!Flush
        /\ Resampler!Truncate <=> RP!Truncate
    BY DEF Resampler!Flush, RP!Flush, Resampler!Truncate, RP!Truncate
  <1> QED
    BY <1>1, <1>2, <1>3, <1>4, <1>5, <1>6

LEMMA SameGenerator ==
  /\ Generator!Init <=> (chunks_left \in UNION {0 .. WholeChunks(most) : most \in USIZE_MAXES}
                         /\ GP!Init)
  /\ Generator!DoFft <=> GP!DoFft
  /\ Generator!DoPeakSpreading <=> GP!DoPeakSpreading
  /\ Generator!Judged = GP!Judged
  /\ \A b : Generator!JudgePeak(b) <=> GP!JudgePeak(b)
  /\ Generator!EndRecognition <=> GP!EndRecognition
  <1> USE DEF Generator!Bins, GP!Bins, Generator!Slots, GP!Slots, Generator!Positions,
          GP!Positions, Generator!Judged, GP!Judged, Generator!Bands, GP!Bands,
          Generator!NoChunk, GP!NoChunk, Generator!Silence, GP!Silence,
          Generator!samples, GP!samples, Generator!ffts, GP!ffts, Generator!spreads, GP!spreads,
          Generator!WrapSample, GP!WrapSample, Generator!Wrap, GP!Wrap, Generator!Advance,
          GP!Advance, Generator!Larger, GP!Larger, Generator!LargerRow, GP!LargerRow,
          Generator!Reordered, GP!Reordered, Generator!SpreadRow, GP!SpreadRow
  <1>1. Generator!Init <=>
          (chunks_left \in UNION {0 .. WholeChunks(most) : most \in USIZE_MAXES} /\ GP!Init)
    BY Zenon DEF Generator!Init, GP!Init
  <1>2. Generator!DoFft <=> GP!DoFft
    BY Zenon DEF Generator!DoFft, GP!DoFft
  <1>3. Generator!DoPeakSpreading <=> GP!DoPeakSpreading
    BY Zenon DEF Generator!DoPeakSpreading, GP!DoPeakSpreading, Generator!FormerSlots,
       GP!FormerSlots
  <1>4. Generator!Judged = GP!Judged
    BY Zenon
  <1>5. \A b : Generator!IsPeak(b) <=> GP!IsPeak(b)
    BY Zenon DEF Generator!IsPeak, GP!IsPeak, Generator!fft_minus_46, GP!fft_minus_46,
       Generator!fft_minus_49, GP!fft_minus_49
  <1>6. \A b : /\ Generator!Variation1(b) = GP!Variation1(b)
               /\ Generator!CorrectedBin(b) = GP!CorrectedBin(b)
               /\ Generator!Peak(b) = GP!Peak(b)
    <2>1. /\ Generator!fft_minus_46 = GP!fft_minus_46
          /\ \A b : Generator!Variation1(b) = GP!Variation1(b)
      BY Zenon DEF Generator!Variation1, GP!Variation1, Generator!fft_minus_46,
         GP!fft_minus_46
    <2>2. \A b : Generator!Variation2(b) = GP!Variation2(b)
      BY <2>1, Zenon DEF Generator!Variation2, GP!Variation2
    <2>3. \A b : Generator!CorrectedBin(b) = GP!CorrectedBin(b)
      BY <2>2 DEF Generator!CorrectedBin, GP!CorrectedBin
    <2>4. \A b : Generator!Peak(b) = GP!Peak(b)
      BY <2>1, <2>3, Zenon DEF Generator!Peak, GP!Peak
    <2> QED
      BY <2>1, <2>3, <2>4
  <1>7. \A hz : Generator!BandOf(hz) = GP!BandOf(hz)
    BY DEF Generator!BandOf, GP!BandOf
  <1>8. \A b : Generator!FrequencyHz(b) = GP!FrequencyHz(b)
    BY Zenon DEF Generator!FrequencyHz, GP!FrequencyHz
  <1>9. \A b : Generator!NextPeak(b) <=> GP!NextPeak(b)
    BY <1>5, Zenon DEF Generator!NextPeak, GP!NextPeak
  <1>10. \A b : Generator!JudgePeak(b) <=> GP!JudgePeak(b)
    BY <1>6, <1>7, <1>8, <1>9, Zenon DEF Generator!JudgePeak, GP!JudgePeak
  <1>11. Generator!EndRecognition <=> GP!EndRecognition
    BY <1>5, Zenon DEF Generator!EndRecognition, GP!EndRecognition
  <1> QED
    BY <1>1, <1>2, <1>3, <1>4, <1>10, <1>11

LEMMA SameCutter ==
  /\ Cutter!MiddleSegment <=> SP!MiddleSegment
  /\ Cutter!NumberSamples = SP!NumberSamples
  BY DEF Cutter!MiddleSegment, SP!MiddleSegment, Cutter!SegmentSamples, SP!SegmentSamples,
     Cutter!DurationSeconds, SP!DurationSeconds, Cutter!Min, SP!Min, Cutter!CutAround,
     SP!CutAround, Cutter!HalfSegment, SP!HalfSegment, Cutter!NumberSamples, SP!NumberSamples

LEMMA SameEncoder ==
  /\ Encoder!Init <=> SP!Init
  /\ Encoder!Next <=> SP!Next
  /\ \A bands : Encoder!Sorted(bands) = SP!Sorted(bands)
  /\ Encoder!HeaderDescribesFile <=> SP!HeaderDescribesFile
  <1>1. \A v : Encoder!U16(v) = SP!U16(v)
    BY SMT DEF Encoder!U16, SP!U16
  <1>2. \A v : Encoder!U32(v) = SP!U32(v)
    BY <1>1, SMT DEF Encoder!U32, SP!U32
  <1>3. /\ \A b : Encoder!Marker(b) = SP!Marker(b)
        /\ Encoder!PaddedSamples = SP!PaddedSamples
    BY SMT DEF Encoder!Marker, SP!Marker, Encoder!PaddedSamples, SP!PaddedSamples
  <1>4. Encoder!SampleRateId = SP!SampleRateId
    BY SMT DEF Encoder!SampleRateId, SP!SampleRateId
  <1>5. Encoder!Header = SP!Header
    <2> DEFINE zero == SP!U32(0)
               rate == SP!U32(SP!SampleRateId[signature.sample_rate_hz] * 2 ^ 27)
               declared == SP!U32(SP!PaddedSamples)
               flags == SP!U32(15 * 2 ^ 19 + 262144)
               last == SP!U32(2 ^ 30)
               zero_ == Encoder!U32(0)
               rate_ == Encoder!U32(Encoder!SampleRateId[signature.sample_rate_hz] * 2 ^ 27)
               declared_ == Encoder!U32(Encoder!PaddedSamples)
               flags_ == Encoder!U32(15 * 2 ^ 19 + 262144)
               last_ == Encoder!U32(2 ^ 30)
               magic == <<128, 37, 254, 202>>
               fixed == <<0, 156, 17, 148>>
    <2>1. /\ zero_ = zero /\ rate_ = rate /\ declared_ = declared /\ flags_ = flags
          /\ last_ = last
      BY <1>2, <1>3, <1>4, SMT
    <2>2. SP!Header = magic \o zero \o zero \o fixed \o zero \o zero \o zero \o rate \o zero
                        \o zero \o declared \o flags \o last \o zero
      BY SMT DEF SP!Header
    <2>3. Encoder!Header
            = magic \o zero_ \o zero_ \o fixed \o zero_ \o zero_ \o zero_ \o rate_ \o zero_
                \o zero_ \o declared_ \o flags_ \o last_ \o zero_
      BY SMT DEF Encoder!Header
    <2> HIDE DEF zero, rate, declared, flags, last, zero_, rate_, declared_, flags_, last_,
                 magic, fixed
    <2> QED
      BY <2>1, <2>2, <2>3, Zenon
  <1>6. \A content : Encoder!Padding(content) = SP!Padding(content)
    BY Zenon DEF Encoder!Padding, SP!Padding
  <1>7. \A buffer : Encoder!Completed(buffer) = SP!Completed(buffer)
    <2>1. \A buffer, offset, bytes :
            Encoder!Overwrite(buffer, offset, bytes) = SP!Overwrite(buffer, offset, bytes)
      BY Zenon DEF Encoder!Overwrite, SP!Overwrite
    <2>2. /\ Encoder!HeaderSize = SP!HeaderSize /\ Encoder!SizeOffset = SP!SizeOffset
          /\ Encoder!SecondSizeOffset = SP!SecondSizeOffset
          /\ Encoder!ChecksumOffset = SP!ChecksumOffset
      BY SMT DEF Encoder!HeaderSize, SP!HeaderSize, Encoder!SizeOffset, SP!SizeOffset,
         Encoder!SecondSizeOffset, SP!SecondSizeOffset, Encoder!ChecksumOffset,
         SP!ChecksumOffset
    <2> QED
      BY <1>2, <2>1, <2>2, Zenon DEF Encoder!Completed, SP!Completed
  <1>8. \A peak : Encoder!PeakBytes(peak) = SP!PeakBytes(peak)
    BY <1>1, <1>2, Zenon DEF Encoder!PeakBytes, SP!PeakBytes, Encoder!Escaped, SP!Escaped
  <1>9. \A bands : Encoder!Sorted(bands) = SP!Sorted(bands)
    BY Zenon DEF Encoder!Sorted, SP!Sorted, Encoder!Cardinality, SP!Cardinality
  <1>10. Encoder!Init <=> SP!Init
    BY <1>9, Zenon DEF Encoder!Init, SP!Init
  <1>11. Encoder!WriteHeader <=> SP!WriteHeader
    BY <1>4, <1>5, Zenon DEF Encoder!WriteHeader, SP!WriteHeader
  <1>12. Encoder!StartBand <=> SP!StartBand
    BY Zenon DEF Encoder!StartBand, SP!StartBand
  <1>13. Encoder!WritePeak <=> SP!WritePeak
    BY <1>8, Zenon DEF Encoder!WritePeak, SP!WritePeak
  <1>14. Encoder!EndBand <=> SP!EndBand
    BY <1>2, <1>3, <1>6, Zenon DEF Encoder!EndBand, SP!EndBand
  <1>15. Encoder!Finish <=> SP!Finish
    BY <1>7, Zenon DEF Encoder!Finish, SP!Finish
  <1>16. \A buffer, offset : Encoder!WordAt(buffer, offset) = SP!WordAt(buffer, offset)
    BY SMT DEF Encoder!WordAt, SP!WordAt, Encoder!HalfAt, SP!HalfAt
  <1>17. Encoder!HeaderDescribesFile <=> SP!HeaderDescribesFile
    BY <1>2, <1>16, Zenon DEF Encoder!HeaderDescribesFile, SP!HeaderDescribesFile,
       Encoder!HeaderSize, SP!HeaderSize, Encoder!SizeOffset, SP!SizeOffset,
       Encoder!SecondSizeOffset, SP!SecondSizeOffset, Encoder!ChecksumOffset,
       SP!ChecksumOffset
  <1> QED
    BY <1>9, <1>10, <1>11, <1>12, <1>13, <1>14, <1>15, <1>17, Zenon DEF Encoder!Next, SP!Next

\* So are the two readers of the format.
LEMMA SameReader ==
  /\ \A buffer, offset : Encoder!WordAt(buffer, offset) = SP!WordAt(buffer, offset)
  /\ \A file : Encoder!BandsIn(file) = SP!BandsIn(file)
  <1>1. \A buffer, offset : Encoder!HalfAt(buffer, offset) = SP!HalfAt(buffer, offset)
    BY SMT DEF Encoder!HalfAt, SP!HalfAt
  <1>2. \A buffer, offset : Encoder!WordAt(buffer, offset) = SP!WordAt(buffer, offset)
    BY <1>1, SMT DEF Encoder!WordAt, SP!WordAt
  <1>3. /\ \A content, reader : Encoder!NextEntry(content, reader) = SP!NextEntry(content, reader)
        /\ Encoder!NoPeaks = SP!NoPeaks
    <2>1. Encoder!NoPeaks = SP!NoPeaks
      BY SMT DEF Encoder!NoPeaks, SP!NoPeaks
    <2>2. ASSUME NEW content, NEW reader
          PROVE  Encoder!NextEntry(content, reader) = SP!NextEntry(content, reader)
      <3>1. /\ Encoder!WordAt(content, reader.at + 1) = SP!WordAt(content, reader.at + 1)
            /\ Encoder!HalfAt(content, reader.at + 1) = SP!HalfAt(content, reader.at + 1)
            /\ Encoder!HalfAt(content, reader.at + 3) = SP!HalfAt(content, reader.at + 3)
        BY <1>1, <1>2, Zenon
      <3> QED
        BY <3>1, Zenon DEF Encoder!NextEntry, SP!NextEntry
    <2> QED
      BY <2>1, <2>2, Zenon
  <1>4. \A content : Encoder!PeaksIn(content) = SP!PeaksIn(content)
    BY <1>3, Zenon DEF Encoder!PeaksIn, SP!PeaksIn
  <1>5. /\ \A bytes : Encoder!InWords(bytes) = SP!InWords(bytes)
        /\ Encoder!Marker(0) = SP!Marker(0)
        /\ Encoder!NoBands = SP!NoBands
    BY SMT DEF Encoder!InWords, SP!InWords, Encoder!Marker, SP!Marker, Encoder!NoBands,
       SP!NoBands, Encoder!BandsOffset, SP!BandsOffset, Encoder!HeaderSize, SP!HeaderSize
  <1>6. \A file, reader : Encoder!NextBand(file, reader) = SP!NextBand(file, reader)
    <2> TAKE file, reader
    <2> DEFINE at == reader.at
               bytes == SP!WordAt(file, at + 4)
               content == SubSeq(file, at + 9, at + 8 + bytes)
    <2>1. /\ Encoder!WordAt(file, at) = SP!WordAt(file, at)
          /\ Encoder!WordAt(file, at + 4) = SP!WordAt(file, at + 4)
          /\ Encoder!PeaksIn(content) = SP!PeaksIn(content)
          /\ Encoder!InWords(bytes) = SP!InWords(bytes)
      BY <1>2, <1>4, <1>5, Zenon
    <2> QED
      BY <1>5, <2>1, Zenon DEF Encoder!NextBand, SP!NextBand
  <1>7. \A file : Encoder!BandsIn(file) = SP!BandsIn(file)
    BY <1>5, <1>6, Zenon DEF Encoder!BandsIn, SP!BandsIn
  <1> QED
    BY <1>2, <1>7

LEMMA SameVerdict == Contract!Reading!Verdict = DP!Contract!Verdict
  <1>1. Contract!Reading!Events = DP!Contract!Events
    BY DEF Contract!Reading!Events, DP!Contract!Events
  <1>2. /\ Contract!Reading!Before = DP!Contract!Before
        /\ \A k : Contract!Reading!TracksAt(k) = DP!Contract!TracksAt(k)
    BY <1>1 DEF Contract!Reading!Before, DP!Contract!Before, Contract!Reading!Stop,
       DP!Contract!Stop, Contract!Reading!TracksAt, DP!Contract!TracksAt
  <1>3. \A t : Contract!Reading!Selected(t) = DP!Contract!Selected(t)
    BY Zenon DEF Contract!Reading!Selected, DP!Contract!Selected
  <1>4. \A t : Contract!Reading!Readable(t) <=> DP!Contract!Readable(t)
    BY <1>3, Zenon DEF Contract!Reading!Readable, DP!Contract!Readable
  <1>5. Contract!Reading!Wanted = DP!Contract!Wanted
    BY <1>1, <1>2, <1>3, <1>4, Zenon DEF Contract!Reading!Wanted, DP!Contract!Wanted
  <1>6. Contract!Reading!Decoded = DP!Contract!Decoded
    BY <1>1, <1>5, Zenon DEF Contract!Reading!Decoded, DP!Contract!Decoded
  <1>7. \A k : Contract!Reading!Cause(k) <=> DP!Contract!Cause(k)
    BY <1>1, <1>2, <1>4, <1>5, <1>6, Zenon DEF Contract!Reading!Cause, DP!Contract!Cause
  <1> DEFINE here(D) == Contract!Reading!Chunks(
                     [i \in 1 .. Contract!Reading!Cardinality(D) |->
                        CHOOSE k \in D : Contract!Reading!Cardinality({m \in D : m <= k}) = i])
             there(D) == DP!Contract!Chunks(
                     [i \in 1 .. DP!Contract!Cardinality(D) |->
                        CHOOSE k \in D : DP!Contract!Cardinality({m \in D : m <= k}) = i])
  <1>8. \A D : here(D) = there(D)
    BY Zenon DEF Contract!Reading!Cardinality, DP!Contract!Cardinality,
       Contract!Reading!Chunks, DP!Contract!Chunks
  <1>9. Contract!Reading!Refused = DP!Contract!Refused
    BY DEF Contract!Reading!Refused, DP!Contract!Refused
  <1>10. Contract!Reading!Verdict =
           IF \/ ~stream.recognised
              \/ ~Contract!Reading!Readable(stream.tracks)
              \/ \E k \in Contract!Reading!Before : Contract!Reading!Cause(k)
              \/ Contract!Reading!Decoded = {}
           THEN Contract!Reading!Refused ELSE here(Contract!Reading!Decoded)
    BY Zenon DEF Contract!Reading!Verdict
  <1>11. DP!Contract!Verdict =
           IF \/ ~stream.recognised
              \/ ~DP!Contract!Readable(stream.tracks)
              \/ \E k \in DP!Contract!Before : DP!Contract!Cause(k)
              \/ DP!Contract!Decoded = {}
           THEN DP!Contract!Refused ELSE there(DP!Contract!Decoded)
    BY Zenon DEF DP!Contract!Verdict
  <1> HIDE DEF here, there
  <1> QED
    BY <1>2, <1>4, <1>6, <1>7, <1>8, <1>9, <1>10, <1>11

LEMMA VerdictKept ==
  ASSUME stream' = stream
  PROVE  DP!Contract!Verdict' = DP!Contract!Verdict
  <1>1. DP!Contract!Events' = DP!Contract!Events
    BY DEF DP!Contract!Events
  <1>2. /\ DP!Contract!Before' = DP!Contract!Before
        /\ \A k : DP!Contract!TracksAt(k)' = DP!Contract!TracksAt(k)
    BY <1>1 DEF DP!Contract!Before, DP!Contract!Stop, DP!Contract!TracksAt
  <1>3. DP!Contract!Wanted' = DP!Contract!Wanted
    BY <1>1, <1>2 DEF DP!Contract!Wanted, DP!Contract!Readable
  <1>4. DP!Contract!Decoded' = DP!Contract!Decoded
    BY <1>1, <1>3 DEF DP!Contract!Decoded
  <1>5. \A k : DP!Contract!Cause(k)' <=> DP!Contract!Cause(k)
    BY <1>1, <1>2, <1>3, <1>4 DEF DP!Contract!Cause
  <1> QED
    BY <1>2, <1>4, <1>5 DEF DP!Contract!Verdict, DP!Contract!Readable

-------------------------------------------------------------------------------
(* The reader in the job. *)

Reads ==
  /\ DP!IInv
  /\ first_chunk # Nothing => decoding = "reading"
  /\ decoding \notin {"opening", "reading"} => DP!Result = DP!Contract!Verdict

LEMMA ReaderStarts ==
  ASSUME Decoder!Init
  PROVE  Reads
  <1>1. DP!IInv
    BY SameDecoder, PartsAssumed, DP!InitEstablishes
  <1> QED
    BY <1>1 DEF Reads, Decoder!Init

LEMMA ReaderKeeps ==
  ASSUME Reads, DecoderStep \/ Decoder!TakeFirstChunk \/ Decoder!DecodeNext
  PROVE  Reads' /\ stream' = stream
  <1>1. DP!Next
    BY SameDecoder DEF DecoderStep, DP!Next
  <1>2. DP!IInv'
    BY <1>1, PartsAssumed, DP!OpenStep, DP!StopStep, DP!ReopenStep, DP!NoChunkStep,
       DP!DecodeFirstStep, DP!TakeFirstChunkStep, DP!DecodeNextStep DEF Reads, DP!Next
  <1>3. stream' = stream /\ decoding \in {"opening", "reading"}
    BY <1>1 DEF DP!Next, DP!Open, DP!EndOfStream, DP!ReaderFails,
       DP!Reopen, DP!SkipPacket, DP!RefuseShortPacket, DP!DecodeShort, DP!DecodeDamaged,
       DP!DecodeFirst, DP!TakeFirstChunk, DP!DecodeNext, DP!Answers
  <1>4. first_chunk' # Nothing => decoding' = "reading"
    <2>1. CASE DP!Open
      BY <2>1 DEF Reads, DP!IInv, DP!NothingRead, DP!Open
    <2>2. CASE ~DP!Open
      BY <1>1, <2>2 DEF DP!Next, DP!EndOfStream, DP!ReaderFails,
         DP!Reopen, DP!SkipPacket, DP!RefuseShortPacket, DP!DecodeShort, DP!DecodeDamaged,
         DP!DecodeFirst, DP!TakeFirstChunk, DP!DecodeNext, DP!Answers
    <2> QED
      BY <2>1, <2>2
  <1>5. decoding' \notin {"opening", "reading"} => DP!Result' = DP!Contract!Verdict'
    <2> SUFFICES ASSUME decoding' \notin {"opening", "reading"}
                 PROVE  DP!Result' = DP!Contract!Verdict'
      OBVIOUS
    <2>1. [DP!Contract!Decide]_(DP!Contract!vars)
      BY <1>1, PartsAssumed, DP!StepRefines DEF Reads
    <2>2. DP!Result = [kind |-> "pending"] /\ DP!Result' # [kind |-> "pending"]
      BY <1>3 DEF DP!Result, DP!Running
    <2>3. DP!Result' = DP!Contract!Verdict
      BY <2>1, <2>2 DEF DP!Contract!Decide, DP!Contract!vars
    <2> QED
      BY <1>3, <2>3, VerdictKept
  <1> QED
    BY <1>2, <1>3, <1>4, <1>5 DEF Reads

LEMMA ReaderStays ==
  ASSUME Reads, UNCHANGED decoder
  PROVE  Reads'
  <1>1. DP!IInv'
    BY PartsAssumed, DP!StutterStep DEF Reads, decoder, DP!vars
  <1>2. DP!Result' = DP!Result /\ DP!Contract!Verdict' = DP!Contract!Verdict
    BY VerdictKept DEF decoder, DP!Result, DP!Running
  <1> QED
    BY <1>1, <1>2 DEF Reads, decoder

-------------------------------------------------------------------------------
(* The resampler in the job: it was given the frames of the packets pushed. *)

Frames(c) == Decoder!FramesOf(c)

\* The frames of the chunks pushed, up to each of them.
IsSum(total) ==
  /\ total \in [0 .. Len(pushed) -> Nat]
  /\ total[0] = 0
  /\ \A k \in 1 .. Len(pushed) :
       Frames(pushed[k]) \in Nat /\ total[k] = total[k - 1] + Frames(pushed[k])

StagesOnePacket ==
  pushed # <<>> => staged_frames <= CHUNK_FRAMES + Frames(Last(pushed))

Resamples ==
  /\ RP!IInv
  /\ \E total : IsSum(total) /\ total[Len(pushed)] = input_frame_count
  /\ StagesOnePacket

LEMMA ResamplerStarts ==
  ASSUME Decoder!Init, Resampler!Init
  PROVE  Resamples
  <1>1. RP!IInv
    BY SameResampler, PartsAssumed, RP!InitInv
  <1>2. pushed = <<>> /\ input_frame_count = 0
    BY DEF Decoder!Init, Resampler!Init
  <1> DEFINE total == [k \in 0 .. 0 |-> 0]
  <1>3. IsSum(total) /\ total[Len(pushed)] = input_frame_count
    BY <1>2 DEF IsSum
  <1> HIDE DEF total
  <1> QED
    BY <1>1, <1>2, <1>3 DEF Resamples, StagesOnePacket

LEMMA ChunkHandedOver ==
  ASSUME Reads, Decoder!TakeFirstChunk \/ Decoder!DecodeNext, pushed' # pushed
  PROVE  \E c \in DP!Chunks : pushed' = Append(pushed, c) /\ Frames(c) \in Nat
  <1>1. /\ stream \in Streams /\ position \in Nat /\ link \in Nat
        /\ first_chunk \in {Nothing} \cup DP!Chunks
    BY DEF Reads, DP!IInv, DP!Typed
  <1>2. DOMAIN stream.events = 1 .. Len(stream.events) /\ Len(stream.events) \in Nat
    BY <1>1, PartsAssumed, DP!EventsAreSequence DEF DP!Events
  <1>3. decoding = "reading"
    BY DEF Decoder!TakeFirstChunk, Decoder!DecodeNext, Decoder!Answers
  <1>4. DP!NoneRefused /\ DP!DecoderInForce
    BY <1>3 DEF Reads, DP!IInv, DP!Reading
  <1>5. ASSUME NEW k \in DOMAIN stream.events, stream.events[k].kind = "packet"
        PROVE  stream.events[k].frames \in Nat
    BY <1>1, <1>5, JobAssumption
  <1>6. CASE Decoder!TakeFirstChunk
    <2>1. first_chunk # Nothing /\ pushed' = Append(pushed, first_chunk)
      BY <1>6 DEF Decoder!TakeFirstChunk
    <2>2. first_chunk \in DP!Chunks
      BY <1>1, <2>1
    <2>3. /\ first_chunk \in DP!Range(DP!Delivered)
          /\ first_chunk.packet = position
      <3>1. DP!Delivered = Append(pushed, first_chunk) /\ pushed \in Seq(DP!Chunks)
        BY <2>1 DEF DP!Delivered, Reads, DP!IInv, DP!Typed
      <3>2. /\ Len(pushed) + 1 \in DOMAIN Append(pushed, first_chunk)
            /\ Append(pushed, first_chunk)[Len(pushed) + 1] = first_chunk
        BY <2>2, <3>1
      <3> QED
        BY <2>1, <3>1, <3>2 DEF DP!Range, Reads, DP!IInv, DP!DeliveredInOrder
    <2>4. DP!Genuine(first_chunk)
      BY <2>3 DEF Reads, DP!IInv, DP!DeliveredInOrder
    <2>5. position \in 1 .. Len(stream.events) /\ stream.events[position].kind = "packet"
      <3>1. position \in 1 .. position /\ stream.events[position].kind = "packet"
        BY <2>3, <2>4 DEF DP!Genuine, DP!DecodedAt, DP!WantedAt, DP!Events, DP!Past
      <3>2. position <= Len(stream.events)
        BY <1>4 DEF DP!NoneRefused, DP!Events
      <3> QED
        BY <1>1, <1>2, <3>1, <3>2
    <2>6. Frames(first_chunk) \in Nat
      BY <1>2, <1>5, <2>3, <2>5 DEF Frames, Decoder!FramesOf
    <2> QED
      BY <2>1, <2>2, <2>6
  <1>7. CASE Decoder!DecodeNext
    <2>1. pushed' = Append(pushed, Decoder!Chunk) /\ Decoder!Event.kind = "packet"
      BY <1>7 DEF Decoder!DecodeNext, Decoder!Answers
    <2>2. position + 1 \in DOMAIN stream.events /\ stream.events[position + 1].kind = "packet"
      BY <1>1, <1>2, <2>1 DEF Decoder!Event
    <2>3. Decoder!Chunk \in DP!Chunks
      BY <1>1, <1>4 DEF Decoder!Chunk, DP!Chunks, DP!DecoderInForce
    <2>4. Frames(Decoder!Chunk) \in Nat
      BY <1>5, <2>2 DEF Frames, Decoder!FramesOf, Decoder!Chunk
    <2> QED
      BY <2>1, <2>3, <2>4
  <1> QED
    BY <1>6, <1>7

LEMMA ResamplerTakes ==
  ASSUME Reads, Resamples, HandOver
  PROVE  Resamples'
  <1>1. Decoder!TakeFirstChunk \/ Decoder!DecodeNext
    BY DEF HandOver
  <1>2. stream' = stream
    BY <1>1, ReaderKeeps
  <1>3. CASE pushed' = pushed
    <2>1. UNCHANGED resampler
      BY <1>3 DEF HandOver
    <2>2. RP!IInv'
      BY <2>1, PartsAssumed, RP!StutterKeeps DEF Resamples, resampler, RP!vars
    <2>3. \A total : IsSum(total)' <=> IsSum(total)
      BY <1>2, <1>3 DEF IsSum, Frames, Decoder!FramesOf
    <2>4. StagesOnePacket'
      BY <1>2, <1>3, <2>1
         DEF Resamples, StagesOnePacket, Frames, Decoder!FramesOf, resampler, Last
    <2> QED
      BY <1>3, <2>1, <2>2, <2>3, <2>4 DEF Resamples, resampler
  <1>4. CASE pushed' # pushed
    <2>1. PICK c \in DP!Chunks : pushed' = Append(pushed, c) /\ Frames(c) \in Nat
      BY <1>1, <1>4, ChunkHandedOver
    <2>2. pushed \in Seq(DP!Chunks)
      BY DEF Reads, DP!IInv, DP!Typed
    <2>3. Last(pushed') = c /\ Len(pushed') = Len(pushed) + 1 /\ pushed' # <<>>
      BY <2>1, <2>2 DEF Last
    <2>4. Decoder!FramesOf(Last(pushed')) = Frames(c)
      BY <2>3 DEF Frames
    <2>5. Resampler!Push(Frames(c))
      BY <1>4, <2>4 DEF HandOver
    <2>6. /\ staged_frames \in Nat /\ input_frame_count \in Nat /\ MaxFrames \in Nat
          /\ CHUNK_FRAMES \in Nat
      BY PartsAssumed DEF Resamples, RP!IInv, RP!Typed, RP!SizesAssumption
    <2>7. /\ input_frame_count' = input_frame_count + Frames(c)
          /\ staged_frames' = staged_frames + Frames(c)
          /\ input_frame_count + Frames(c) <= MaxFrames /\ resampling = "idle"
      BY <2>5 DEF Resampler!Push
    <2>8. RP!IInv'
      <3>1. Frames(c) \in 0 .. MaxFrames
        BY <2>1, <2>6, <2>7
      <3>2. RP!Push(Frames(c))
        BY <2>5, SameResampler
      <3> QED
        BY <3>1, <3>2, PartsAssumed, RP!PushKeeps DEF Resamples
    <2>9. \E total : IsSum(total)' /\ total[Len(pushed')] = input_frame_count'
      <3> DEFINE n == Len(pushed)
      <3>1. PICK total : IsSum(total) /\ total[n] = input_frame_count
        BY DEF Resamples
      <3> DEFINE more == [k \in 0 .. n + 1 |-> IF k <= n THEN total[k]
                                               ELSE total[n] + Frames(c)]
      <3>2. n \in Nat /\ total \in [0 .. n -> Nat] /\ total[0] = 0
            /\ \A k \in 1 .. n :
                 Frames(pushed[k]) \in Nat /\ total[k] = total[k - 1] + Frames(pushed[k])
        BY <2>2, <3>1 DEF IsSum
      <3>3. \A k \in 1 .. n : pushed'[k] = pushed[k]
        BY <2>1, <2>2
      <3>4. pushed'[n + 1] = c
        BY <2>1, <2>2
      <3>5. \A d : Frames(d)' = Frames(d)
        BY <1>2 DEF Frames, Decoder!FramesOf
      <3> HIDE DEF n
      <3>6. more \in [0 .. n + 1 -> Nat] /\ more[0] = 0 /\ more[n + 1] = total[n] + Frames(c)
        BY <2>1, <3>2
      <3>7. \A k \in 1 .. n + 1 : /\ Frames(pushed'[k]) \in Nat
                                  /\ more[k] = more[k - 1] + Frames(pushed'[k])
        <4> TAKE k \in 1 .. n + 1
        <4>1. CASE k <= n
          <5>1. k \in 1 .. n /\ k - 1 \in 0 .. n /\ k \in 0 .. n /\ k - 1 <= n
            BY <3>2, <4>1
          <5>2. more[k] = total[k] /\ more[k - 1] = total[k - 1]
            BY <3>2, <5>1
          <5> QED
            BY <3>2, <3>3, <5>1, <5>2
        <4>2. CASE k = n + 1
          <5>1. more[k - 1] = total[n]
            BY <3>2, <4>2
          <5> QED
            BY <2>1, <3>4, <3>6, <4>2, <5>1
        <4> QED
          BY <3>2, <4>1, <4>2
      <3> HIDE DEF more
      <3>8. \E f : /\ f \in [0 .. Len(pushed') -> Nat] /\ f[0] = 0
                   /\ \A k \in 1 .. Len(pushed') :
                        Frames(pushed'[k]) \in Nat /\ f[k] = f[k - 1] + Frames(pushed'[k])
                   /\ f[Len(pushed')] = input_frame_count'
        BY <2>3, <2>7, <3>1, <3>6, <3>7 DEF n
      <3>9. \A f : /\ f \in [0 .. Len(pushed') -> Nat] /\ f[0] = 0
                   /\ \A k \in 1 .. Len(pushed') :
                        Frames(pushed'[k]) \in Nat /\ f[k] = f[k - 1] + Frames(pushed'[k])
                   => IsSum(f)'
        BY <3>5 DEF IsSum
      <3> QED
        BY <3>8, <3>9
    <2>10. StagesOnePacket'
      <3>1. staged_frames <= CHUNK_FRAMES
        BY <2>7 DEF Resamples, RP!IInv, RP!Staging
      <3>2. staged_frames' <= CHUNK_FRAMES + Frames(c)
        BY <2>1, <2>6, <2>7, <3>1
      <3>3. Frames(c)' = Frames(c)
        BY <1>2 DEF Frames, Decoder!FramesOf
      <3> QED
        BY <2>3, <3>2, <1>2 DEF StagesOnePacket, Frames, Decoder!FramesOf
    <2> QED
      BY <2>8, <2>9, <2>10 DEF Resamples
  <1> QED
    BY <1>3, <1>4

LEMMA SamePushed ==
  ASSUME Reads, Resamples, UNCHANGED <<stream, pushed>>,
         input_frame_count' = input_frame_count, RP!IInv',
         staged_frames' \in Int, staged_frames' <= staged_frames
  PROVE  Resamples'
  <1>1. stream' = stream /\ pushed' = pushed
    OBVIOUS
  <1>2. \A total : IsSum(total)' <=> IsSum(total)
    BY <1>1 DEF IsSum, Frames, Decoder!FramesOf
  <1>3. StagesOnePacket'
    <2> SUFFICES ASSUME pushed # <<>>
                 PROVE  staged_frames' <= CHUNK_FRAMES + Frames(Last(pushed))
      BY <1>1 DEF StagesOnePacket, Frames, Decoder!FramesOf, Last
    <2> DEFINE frames == Frames(Last(pushed))
    <2>1. staged_frames <= CHUNK_FRAMES + frames
      BY DEF Resamples, StagesOnePacket
    <2>2. staged_frames \in Nat /\ CHUNK_FRAMES \in Nat
      BY PartsAssumed DEF Resamples, RP!IInv, RP!Typed, RP!SizesAssumption
    <2>3. frames \in Nat
      <3>1. \A k \in 1 .. Len(pushed) : Frames(pushed[k]) \in Nat
        BY DEF Resamples, IsSum
      <3>2. Len(pushed) \in 1 .. Len(pushed)
        BY DEF Reads, DP!IInv, DP!Typed
      <3> QED
        BY <3>1, <3>2 DEF Last
    <2> HIDE DEF frames
    <2>4. staged_frames' <= CHUNK_FRAMES + frames
      BY <2>1, <2>2, <2>3
    <2> QED
      BY <2>4 DEF frames
  <1> QED
    BY <1>1, <1>2, <1>3 DEF Resamples

LEMMA ResamplerWorks ==
  ASSUME RP!OutputGrows, Reads, Resamples, UNCHANGED decoder,
         \/ Resampler!ResampleWhole \/ Resampler!PushReturns \/ Resampler!ResamplePartial
         \/ Resampler!Flush \/ Resampler!Truncate \/ Resampler!Finish
  PROVE  Resamples' /\ input_frame_count' = input_frame_count
  <1>1. \/ RP!ResampleWhole \/ RP!PushReturns \/ RP!ResamplePartial
        \/ RP!Flush \/ RP!Truncate \/ RP!Finish
    BY SameResampler
  <1>2. RP!IInv'
    BY <1>1, PartsAssumed, RP!WholeKeeps, RP!PushReturnsKeeps, RP!PartialKeeps, RP!FlushKeeps,
       RP!TruncateKeeps, RP!FinishKeeps DEF Resamples
  <1>3. /\ input_frame_count' = input_frame_count
        /\ staged_frames' \in {staged_frames, staged_frames - CHUNK_FRAMES, 0}
    BY <1>1 DEF RP!ResampleWhole, RP!PushReturns, RP!ResamplePartial, RP!Flush, RP!Truncate,
       RP!Finish
  <1>4. staged_frames' <= staged_frames /\ staged_frames' \in Int
    <2>1. staged_frames \in Nat /\ CHUNK_FRAMES \in Nat
      BY PartsAssumed DEF Resamples, RP!IInv, RP!Typed, RP!SizesAssumption
    <2> QED
      BY <1>3, <2>1
  <1> QED
    BY <1>2, <1>3, <1>4, SamePushed DEF decoder

LEMMA ResamplerStays ==
  ASSUME Reads, Resamples, UNCHANGED <<stream, pushed, resampler>>
  PROVE  Resamples'
  <1>1. RP!IInv'
    BY PartsAssumed, RP!StutterKeeps DEF Resamples, resampler, RP!vars
  <1>2. staged_frames \in Nat
    BY DEF Resamples, RP!IInv, RP!Typed
  <1>3. UNCHANGED <<stream, pushed>> /\ input_frame_count' = input_frame_count
        /\ staged_frames' = staged_frames
    BY DEF resampler
  <1> QED
    BY <1>1, <1>2, <1>3, SamePushed

-------------------------------------------------------------------------------
(* The cut, the generator and the encoder in the job. *)

Cuts ==
  /\ SP!CutAsPromised
  /\ cutting = "decoded" => segment = [from |-> 0, upto |-> 0]

LEMMA CutStarts ==
  ASSUME Init
  PROVE  Cuts
  BY Widths DEF Init, Cuts, SP!CutAsPromised, SP!TypeOK, SP!WholeClipWhenItFits,
     SP!CutFromMiddle

LEMMA CutStays ==
  ASSUME Cuts, UNCHANGED cut
  PROVE  Cuts'
  BY DEF cut, Cuts, SP!CutAsPromised, SP!TypeOK, SP!WholeClipWhenItFits,
     SP!CutFromMiddle, SP!DurationSeconds

\* The clip that is cut is as long as the resampler promised.
LEMMA ClipIsCounted ==
  ASSUME Resamples, Cuts, cutting = "decoded", SamplesReturned
  PROVE  Cuts' /\ length' = Expected(input_frame_count)
  <1>1. length' = output.upto - output.from /\ resampling = "done"
    BY DEF SamplesReturned
  <1>2. length' = Expected(input_frame_count) /\ input_frame_count \in 0 .. MaxFrames
    BY <1>1 DEF Resamples, RP!IInv, RP!Typed, RP!Flushing
  <1>3. UNCHANGED <<usize_max, asked, segment, cutting>>
    BY DEF SamplesReturned
  <1>4. usize_max \in USIZE_MAXES /\ asked \in Durations /\ segment = [from |-> 0, upto |-> 0]
    BY DEF Cuts, SP!CutAsPromised, SP!TypeOK
  <1>5. length' \in 0 .. usize_max
    <2>1. length' \in Nat
      BY <1>2, PartsAssumed DEF RP!ExpectedAssumption
    <2>2. length' <= usize_max
      BY <1>2, <1>4, JobAssumption
    <2>3. usize_max \in Nat
      BY <1>4, Widths
    <2> QED
      BY <2>1, <2>2, <2>3
  <1>6. SP!TypeOK'
    BY <1>3, <1>4, <1>5 DEF SP!TypeOK
  <1> QED
    BY <1>2, <1>3, <1>4, <1>6
       DEF Cuts, SP!CutAsPromised, SP!WholeClipWhenItFits, SP!CutFromMiddle

LEMMA SegmentIsCut ==
  ASSUME Cuts, Cut
  PROVE  Cuts' /\ cutting' = "cut" /\ length' = length
  <1>1. Cutter!MiddleSegment /\ SP!MiddleSegment
    BY SameCutter DEF Cut
  <1>2. SP!CutAsPromised'
    BY <1>1, PartsAssumed, SP!CutEstablishes DEF Cuts, SP!CutAsPromised
  <1> QED
    BY <1>1, <1>2 DEF Cuts, Cutter!MiddleSegment

LEMMA SegmentInClip ==
  ASSUME Cuts
  PROVE  /\ SegmentLength \in Nat /\ usize_max \in USIZE_MAXES /\ usize_max \in Nat
         /\ SegmentLength <= usize_max
         /\ Cutter!NumberSamples \in Nat
  <1>1. /\ usize_max \in USIZE_MAXES /\ length \in 0 .. usize_max
        /\ segment.from \in 0 .. segment.upto /\ segment.upto \in 0 .. length
    BY DEF Cuts, SP!CutAsPromised, SP!TypeOK
  <1>2. usize_max \in Nat
    BY <1>1, Widths
  <1>3. SegmentLength \in Nat /\ SegmentLength <= usize_max
    BY <1>1, <1>2 DEF SegmentLength
  <1> DEFINE words == U32_MAX + 1
  <1>4. words \in Nat \ {0}
    BY Widths
  <1>5. Cutter!NumberSamples = SegmentLength % words
    BY DEF Cutter!NumberSamples, SegmentLength
  <1> HIDE DEF words
  <1>6. SegmentLength % words \in Nat
    BY <1>3, <1>4
  <1> QED
    BY <1>1, <1>2, <1>3, <1>5, <1>6

\* No more whole chunks than the longest clip has.
LEMMA FewerChunks ==
  ASSUME NEW n \in Nat, NEW most \in Nat, n <= most
  PROVE  WholeChunks(n) \in 0 .. WholeChunks(most)
  <1>1. ChunkSamples \in Nat \ {0}
    BY JobAssumption
  <1> DEFINE some == n \div ChunkSamples
             all == most \div ChunkSamples
  <1>2. /\ some \in Nat /\ all \in Nat
        /\ some * ChunkSamples <= n /\ most < (all + 1) * ChunkSamples
    BY <1>1
  <1>3. some <= all
    <2> HIDE DEF some, all
    <2> SUFFICES ASSUME some > all
                 PROVE  FALSE
      BY <1>2
    <2>1. (all + 1) * ChunkSamples <= some * ChunkSamples
      BY <1>1, <1>2
    <2>2. all + 1 \in Nat /\ (all + 1) * ChunkSamples \in Nat /\ some * ChunkSamples \in Nat
      BY <1>1, <1>2
    <2> QED
      BY <1>2, <2>1, <2>2
  <1> QED
    BY <1>2, <1>3 DEF WholeChunks

LEMMA GeneratorStarts ==
  ASSUME Generator!Init
  PROVE  GP!PInv /\ generating = "fft" /\ num_spread_ffts_done = 0
  <1>1. GP!PInv
    BY SameGenerator, PartsAssumed, GP!NoPeaksAtFirst
  <1> QED
    BY <1>1 DEF Generator!Init

LEMMA GeneratorWorks ==
  ASSUME GP!BinsFit, GP!PInv, Generator!Next
  PROVE  GP!PInv'
  <1>1. \/ GP!DoFft \/ GP!DoPeakSpreading \/ GP!EndRecognition
        \/ \E b \in GP!Judged : GP!JudgePeak(b)
    BY SameGenerator DEF Generator!Next
  <1> QED
    BY <1>1, PartsAssumed, GP!DoFftKeepsPeaks, GP!DoPeakSpreadingKeepsPeaks,
       GP!JudgePeakKeepsPeaks, GP!OthersKeepPeaks

LEMMA GeneratorStays ==
  ASSUME GP!PInv, UNCHANGED generator
  PROVE  GP!PInv'
  <1>1. UNCHANGED GP!vars
    BY DEF generator, rings, GP!vars, GP!samples, GP!ffts, GP!spreads
  <1> QED
    BY <1>1, PartsAssumed, GP!OthersKeepPeaks

LEMMA GeneratorTakes ==
  ASSUME Cuts, GP!PInv, generating = "fft", num_spread_ffts_done = 0, StartGenerator
  PROVE  GP!PInv'
  <1>1. chunks_left' = WholeChunks(SegmentLength) /\ UNCHANGED rings
    BY DEF StartGenerator
  <1>2. chunks_left' \in UNION {0 .. WholeChunks(most) : most \in USIZE_MAXES}
    <2>1. chunks_left' \in 0 .. WholeChunks(usize_max) /\ usize_max \in USIZE_MAXES
      BY <1>1, SegmentInClip, FewerChunks
    <2> QED
      BY <2>1
  <1>3. UNCHANGED <<GP!samples, GP!ffts, GP!spreads, num_spread_ffts_done, bin_position,
                    peaks, generating>>
    BY <1>1 DEF rings, GP!samples, GP!ffts, GP!spreads
  <1> QED
    BY <1>2, <1>3, PartsAssumed, GP!StartsOnSegment

LEMMA GeneratorDoesNotPanic ==
  ASSUME GP!PInv
  PROVE  generating # "panicked"
  BY DEF GP!PInv, GP!IInv, GP!AssertHolds

LEMMA EncoderBegins ==
  ASSUME Encoder!Init
  PROVE  SP!EncodesInv /\ encoding = "header"
  BY SameEncoder, PartsAssumed, SP!EncoderStarts

LEMMA EncoderWorks ==
  ASSUME SP!EncodesInv, Encoder!Next
  PROVE  SP!EncodesInv' /\ encoding' # "panicked" /\ signature' = signature
  BY SameEncoder, PartsAssumed, SP!EncoderKeeps

LEMMA MagnitudesCounted ==
  ASSUME NEW magnitude \in GP!Magnitudes
  PROVE  magnitude \in Nat
  BY PartsAssumed DEF GP!Magnitudes, GP!LevelsAssumption

\* The peaks of a band are as the encoder asserts them to be.
LEMMA PeaksSuitEncoder ==
  ASSUME GP!PInv, Cuts, signature' = SignatureMade,
         remaining' = Encoder!Sorted(DOMAIN SignatureMade.peaks), encoding' = "header"
  PROVE  SP!EncodesInv' /\ signature'.number_samples = Cutter!NumberSamples
  <1> DEFINE made == [b \in {b \in DOMAIN peaks : peaks[b] # <<>>} |->
                       [k \in DOMAIN peaks[b] |->
                          [pass |-> peaks[b][k].fft_pass_number,
                           magnitude |-> peaks[b][k].peak_magnitude,
                           bin |-> peaks[b][k].corrected_peak_frequency_bin]]]
  <1>1. /\ peaks \in [0 .. 3 -> Seq(GP!PeakRecords)]
        /\ \A b \in 0 .. 3 : \A k \in DOMAIN peaks[b] : peaks[b][k].fft_pass_number \in Nat
        /\ \A b \in 0 .. 3 : \A l \in 2 .. Len(peaks[b]) :
             peaks[b][l - 1].fft_pass_number <= peaks[b][l].fft_pass_number
    <2>1. peaks \in [0 .. 3 -> Seq(GP!PeakRecords)]
      BY DEF GP!PInv, GP!PeaksTyped, GP!Bands
    <2>2. \A b \in 0 .. 3 : \A k \in DOMAIN peaks[b] : peaks[b][k].fft_pass_number \in Nat
      BY DEF GP!PInv, GP!RingNumbered, GP!Bands
    <2>3. ASSUME NEW b \in 0 .. 3, NEW l \in 2 .. Len(peaks[b])
          PROVE  peaks[b][l - 1].fft_pass_number <= peaks[b][l].fft_pass_number
      <3>1. peaks[b] \in Seq(GP!PeakRecords)
        BY <2>1
      <3>2. l \in DOMAIN peaks[b] /\ l - 1 \in DOMAIN peaks[b]
        BY <3>1
      <3>3. /\ peaks[b][l - 1].fft_pass_number \in Nat
            /\ peaks[b][l].fft_pass_number \in Nat
        BY <2>2, <3>2
      <3>4. \/ peaks[b][l - 1].fft_pass_number < peaks[b][l].fft_pass_number
            \/ peaks[b][l - 1].fft_pass_number = peaks[b][l].fft_pass_number
        BY DEF GP!PInv, GP!PeaksInOrder, GP!Bands
      <3> QED
        BY <3>3, <3>4
    <2> QED
      BY <2>1, <2>2, <2>3
  <1>2. /\ signature'.sample_rate_hz = SAMPLE_RATE_HZ
        /\ signature'.number_samples = Cutter!NumberSamples
        /\ signature'.peaks = made
    BY DEF SignatureMade
  <1>3. DOMAIN made \in SUBSET (0 .. 3)
    BY <1>1
  <1>4. ASSUME NEW b \in DOMAIN made
        PROVE  SP!PassesInOrder(made[b])
    <2> DEFINE list == peaks[b]
               encoded == [k \in DOMAIN list |->
                             [pass |-> list[k].fft_pass_number,
                              magnitude |-> list[k].peak_magnitude,
                              bin |-> list[k].corrected_peak_frequency_bin]]
    <2>1. b \in 0 .. 3 /\ made[b] = encoded
      BY <1>3
    <2>2. /\ list \in Seq(GP!PeakRecords)
          /\ \A k \in DOMAIN list : list[k].fft_pass_number \in Nat
          /\ \A l \in 2 .. Len(list) : list[l - 1].fft_pass_number <= list[l].fft_pass_number
      BY <1>1, <2>1
    <2> HIDE DEF list
    <2>3. Len(list) \in Nat /\ DOMAIN list = 1 .. Len(list)
          /\ \A k \in 1 .. Len(list) : list[k] \in GP!PeakRecords
      BY <2>2
    <2>4. Len(encoded) = Len(list)
      BY <2>3
    <2>5. \A k \in 1 .. Len(list) :
            /\ encoded[k].pass = list[k].fft_pass_number
            /\ encoded[k] \in [pass : Nat, magnitude : Nat, bin : Int]
      <3> SUFFICES ASSUME NEW k \in 1 .. Len(list)
                   PROVE  /\ encoded[k].pass = list[k].fft_pass_number
                          /\ encoded[k] \in [pass : Nat, magnitude : Nat, bin : Int]
        OBVIOUS
      <3>1. list[k] \in GP!PeakRecords /\ list[k].fft_pass_number \in Nat
        BY <2>2, <2>3
      <3>2. /\ list[k].peak_magnitude \in GP!Magnitudes
            /\ list[k].corrected_peak_frequency_bin \in Int
        BY <3>1, GP!PeakFields, PartsAssumed
      <3>3. list[k].peak_magnitude \in Nat
        BY <3>2, MagnitudesCounted
      <3>4. encoded[k] = [pass |-> list[k].fft_pass_number,
                          magnitude |-> list[k].peak_magnitude,
                          bin |-> list[k].corrected_peak_frequency_bin]
        BY <2>3
      <3> QED
        BY ONLY <3>1, <3>2, <3>3, <3>4
    <2> HIDE DEF encoded
    <2>6. \A l \in 2 .. Len(list) : encoded[l - 1].pass <= encoded[l].pass
      <3>1. \A l \in 2 .. Len(list) : l \in 1 .. Len(list) /\ l - 1 \in 1 .. Len(list)
        BY <2>3
      <3> QED
        BY <2>2, <2>5, <3>1
    <2> QED
      BY <2>1, <2>3, <2>4, <2>5, <2>6 DEF SP!PassesInOrder
  <1> HIDE DEF made
  <1>5. Cutter!NumberSamples \in Nat
    BY SegmentInClip
  <1>6. SP!SignatureFits'
    <2>1. SAMPLE_RATE_HZ \in DOMAIN SP!SampleRateId
      BY JobAssumption, SMT DEF Encoder!SampleRateId, SP!SampleRateId
    <2> QED
      BY <1>2, <1>3, <1>4, <1>5, <2>1 DEF SP!SignatureFits, SP!Fits, SP!PassesInOrder
  <1>7. remaining' \in Seq(DOMAIN signature'.peaks)
    <2>1. remaining' = Encoder!Sorted(DOMAIN made)
      BY <1>2
    <2>2. Encoder!Sorted(DOMAIN made) = SP!Sorted(DOMAIN made)
      BY SameEncoder, Zenon
    <2>3. SP!Sorted(DOMAIN made) \in Seq(DOMAIN made)
      BY <1>3, PartsAssumed, SP!SortedGivesBands
    <2> QED
      BY <1>2, <2>1, <2>2, <2>3
  <1> QED
    BY <1>2, <1>6, <1>7 DEF SP!EncodesInv, SP!InBand, SP!Written, SP!HeaderDescribesFile

LEMMA EncoderStays ==
  ASSUME SP!EncodesInv, UNCHANGED encoder
  PROVE  SP!EncodesInv'
  BY DEF SP!EncodesInv, SP!SignatureFits, SP!Fits, SP!InBand, SP!Written, SP!FileFits,
     SP!HeaderDescribesFile, encoder

-------------------------------------------------------------------------------
(* The whole job: what each part holds to, and how far each of them is in  *)
(* each call.                                                              *)

Stages == {"opening", "pushing", "finishing", "decoded", "cut", "generating", "stamping",
           "encoding"}
AfterCut == {"cut", "generating", "stamping", "encoding"}

InStage ==
  /\ stage \in Stages
  /\ stage # "opening" => spec # Nothing /\ spec \in Resamplable
  /\ stage \notin {"opening", "pushing"} => decoding = "finished"
  /\ stage \notin {"opening", "pushing", "finishing"} => length = Expected(input_frame_count)
  /\ cutting = "cut" <=> stage \in AfterCut
  /\ stage \notin {"generating", "stamping", "encoding"} =>
       generating = "fft" /\ num_spread_ffts_done = 0
  /\ stage \in {"stamping", "encoding"} => signature.number_samples = Cutter!NumberSamples
  /\ stage # "encoding" => encoding = "header"
  /\ stage = "encoding" => clock_works

JobInv == Reads /\ Resamples /\ Cuts /\ GP!PInv /\ SP!EncodesInv /\ InStage

LEMMA JobStarts == Init => JobInv
  <1> SUFFICES ASSUME Init
               PROVE  JobInv
    OBVIOUS
  <1>1. Decoder!Init /\ Resampler!Init /\ Generator!Init /\ Encoder!Init
        /\ stage = "opening" /\ cutting = "decoded"
    BY DEF Init
  <1>2. Reads /\ Resamples
    BY <1>1, ReaderStarts, ResamplerStarts
  <1>3. Cuts
    BY CutStarts
  <1>4. GP!PInv /\ generating = "fft" /\ num_spread_ffts_done = 0
    BY <1>1, GeneratorStarts
  <1>5. SP!EncodesInv /\ encoding = "header"
    BY <1>1, EncoderBegins
  <1>6. InStage
    BY <1>1, <1>4, <1>5 DEF InStage, Stages, AfterCut
  <1> QED
    BY <1>2, <1>3, <1>4, <1>5, <1>6 DEF JobInv

\* Nothing of a part changes but by a step of it.
LEMMA JobStays ==
  ASSUME JobInv, UNCHANGED <<decoder, resampler, cut, generator, encoder>>
  PROVE  Reads' /\ Resamples' /\ Cuts' /\ GP!PInv' /\ SP!EncodesInv'
  BY ReaderStays, ResamplerStays, CutStays, GeneratorStays, EncoderStays DEF JobInv, decoder

LEMMA SameSegment ==
  ASSUME UNCHANGED cut
  PROVE  Cutter!NumberSamples' = Cutter!NumberSamples
  BY DEF cut, Cutter!NumberSamples

\* The first packet decoded settles the spec.
LEMMA SpecSettled ==
  ASSUME DecoderStep \/ Decoder!TakeFirstChunk \/ Decoder!DecodeNext, spec # Nothing
  PROVE  spec' = spec
  BY DEF DecoderStep, Decoder!Open, Decoder!EndOfStream, Decoder!ReaderFails, Decoder!Reopen,
     Decoder!SkipPacket, Decoder!RefuseShortPacket, Decoder!DecodeShort, Decoder!DecodeDamaged,
     Decoder!DecodeFirst, Decoder!TakeFirstChunk, Decoder!DecodeNext

LEMMA ReadKeeps ==
  ASSUME JobInv, Read
  PROVE  JobInv'
  <1>1. /\ DecoderStep /\ stage \in {"opening", "pushing"}
        /\ UNCHANGED <<resampler, cut, generator, encoder>>
        /\ stage' = stage /\ clock_works' = clock_works
    BY DEF Read, In, Stay, job
  <1>2. Reads' /\ stream' = stream
    BY <1>1, ReaderKeeps DEF JobInv
  <1>3. pushed' = pushed
    BY <1>1 DEF DecoderStep, Decoder!Open, Decoder!EndOfStream, Decoder!ReaderFails,
       Decoder!Reopen, Decoder!SkipPacket, Decoder!RefuseShortPacket, Decoder!DecodeShort,
       Decoder!DecodeDamaged, Decoder!DecodeFirst
  <1>4. Resamples'
    BY <1>1, <1>2, <1>3, ResamplerStays DEF JobInv
  <1>5. Cuts' /\ GP!PInv' /\ SP!EncodesInv'
    BY <1>1, CutStays, GeneratorStays, EncoderStays DEF JobInv
  <1>6. InStage'
    BY <1>1, SpecSettled, SameSegment
       DEF JobInv, InStage, AfterCut, cut, generator, rings, encoder, resampler
  <1> QED
    BY <1>2, <1>4, <1>5, <1>6 DEF JobInv

LEMMA BuildKeeps ==
  ASSUME JobInv, BuildResampling
  PROVE  JobInv'
  <1>1. /\ UNCHANGED <<decoder, resampler, cut, generator, encoder>>
        /\ stage = "opening" /\ first_chunk # Nothing
        /\ (stage' = "pushing" /\ spec \in Resamplable) \/ stage' = stage
    BY DEF BuildResampling, In, Goto, Answer
  <1>2. clock_works' = clock_works
    BY DEF BuildResampling, Goto, Answer
  <1>3. spec # Nothing
    <2>1. pushed = <<>> /\ (spec # Nothing <=> DP!Delivered # <<>>)
          /\ DP!Delivered = Append(pushed, first_chunk)
      BY <1>1 DEF JobInv, Reads, DP!IInv, DP!DeliveredInOrder, DP!Delivered
    <2> QED
      BY <2>1
  <1>4. Reads' /\ Resamples' /\ Cuts' /\ GP!PInv' /\ SP!EncodesInv'
    BY <1>1, JobStays
  <1>5. InStage'
    BY <1>1, <1>2, <1>3
       DEF JobInv, InStage, Stages, AfterCut, decoder, cut, generator, rings, encoder
  <1> QED
    BY <1>4, <1>5 DEF JobInv

LEMMA HandOverKeeps ==
  ASSUME JobInv, HandOver
  PROVE  JobInv'
  <1>1. /\ Decoder!TakeFirstChunk \/ Decoder!DecodeNext
        /\ stage = "pushing" /\ stage' = stage /\ clock_works' = clock_works
        /\ UNCHANGED <<cut, generator, encoder>>
    BY DEF HandOver, In, Stay, job
  <1>2. Reads' /\ Resamples'
    BY <1>1, ReaderKeeps, ResamplerTakes DEF JobInv
  <1>3. Cuts' /\ GP!PInv' /\ SP!EncodesInv'
    BY <1>1, CutStays, GeneratorStays, EncoderStays DEF JobInv
  <1>4. InStage'
    BY <1>1, SpecSettled DEF JobInv, InStage, Stages, AfterCut, cut, generator, rings, encoder
  <1> QED
    BY <1>2, <1>3, <1>4 DEF JobInv

LEMMA ResampleKeeps ==
  ASSUME RP!OutputGrows, JobInv, Resample
  PROVE  JobInv'
  <1>1. /\ \/ Resampler!ResampleWhole \/ Resampler!PushReturns
           \/ Resampler!ResamplePartial \/ Resampler!Flush \/ Resampler!Truncate
        /\ stage \in {"pushing", "finishing"} /\ stage' = stage /\ clock_works' = clock_works
        /\ UNCHANGED <<decoder, cut, generator, encoder>>
    BY DEF Resample, In, Stay, job
  <1>2. Resamples'
    BY <1>1, ResamplerWorks DEF JobInv
  <1>3. Reads' /\ Cuts' /\ GP!PInv' /\ SP!EncodesInv'
    BY <1>1, ReaderStays, CutStays, GeneratorStays, EncoderStays DEF JobInv
  <1>4. InStage'
    BY <1>1 DEF JobInv, InStage, Stages, AfterCut, decoder, cut, generator, rings, encoder
  <1> QED
    BY <1>2, <1>3, <1>4 DEF JobInv

\* The stage stays or an answer is given: the parts are as they were.
LEMMA StageStays ==
  ASSUME JobInv, UNCHANGED <<decoder, resampler, cut, generator, encoder>>,
         stage' = stage, clock_works' = clock_works
  PROVE  JobInv'
  <1>1. Reads' /\ Resamples' /\ Cuts' /\ GP!PInv' /\ SP!EncodesInv'
    BY JobStays
  <1>2. InStage'
    BY SameSegment
       DEF JobInv, InStage, decoder, resampler, cut, generator, rings, encoder
  <1> QED
    BY <1>1, <1>2 DEF JobInv

LEMMA FinishResamplingKeeps ==
  ASSUME RP!OutputGrows, JobInv, FinishResampling
  PROVE  JobInv'
  <1>1. /\ Resampler!Finish /\ UNCHANGED <<decoder, cut, generator, encoder>>
        /\ stage = "pushing" /\ stage' = "finishing" /\ clock_works' = clock_works
        /\ decoding = "finished"
    BY DEF FinishResampling, In, Goto
  <1>2. Resamples'
    BY <1>1, ResamplerWorks DEF JobInv
  <1>3. Reads' /\ Cuts' /\ GP!PInv' /\ SP!EncodesInv'
    BY <1>1, ReaderStays, CutStays, GeneratorStays, EncoderStays DEF JobInv
  <1>4. InStage'
    BY <1>1 DEF JobInv, InStage, Stages, AfterCut, decoder, cut, generator, rings, encoder
  <1> QED
    BY <1>2, <1>3, <1>4 DEF JobInv

LEMMA SamplesReturnedKeeps ==
  ASSUME JobInv, SamplesReturned
  PROVE  JobInv'
  <1>1. /\ UNCHANGED <<decoder, resampler, cutting, generator, encoder>>
        /\ stage = "finishing" /\ stage' = "decoded" /\ clock_works' = clock_works
    BY DEF SamplesReturned, In, Goto
  <1>2. cutting = "decoded"
    BY <1>1 DEF JobInv, InStage, AfterCut, Cuts, SP!CutAsPromised, SP!TypeOK
  <1>3. Cuts' /\ length' = Expected(input_frame_count)
    BY <1>2, ClipIsCounted DEF JobInv
  <1>4. Reads' /\ Resamples' /\ GP!PInv' /\ SP!EncodesInv'
    BY <1>1, ReaderStays, ResamplerStays, GeneratorStays, EncoderStays DEF JobInv, decoder
  <1>5. InStage'
    BY <1>1, <1>3
       DEF JobInv, InStage, Stages, AfterCut, decoder, resampler, generator, rings, encoder
  <1> QED
    BY <1>3, <1>4, <1>5 DEF JobInv

LEMMA CutKeeps ==
  ASSUME JobInv, Cut
  PROVE  JobInv'
  <1>1. /\ UNCHANGED <<decoder, resampler, generator, encoder>>
        /\ stage = "decoded" /\ stage' = "cut" /\ clock_works' = clock_works
    BY DEF Cut, In, Goto
  <1>2. Cuts' /\ cutting' = "cut" /\ length' = length
    BY SegmentIsCut DEF JobInv
  <1>3. Reads' /\ Resamples' /\ GP!PInv' /\ SP!EncodesInv'
    BY <1>1, ReaderStays, ResamplerStays, GeneratorStays, EncoderStays DEF JobInv, decoder
  <1>4. InStage'
    BY <1>1, <1>2
       DEF JobInv, InStage, Stages, AfterCut, decoder, resampler, generator, rings, encoder
  <1> QED
    BY <1>2, <1>3, <1>4 DEF JobInv

LEMMA StartGeneratorKeeps ==
  ASSUME JobInv, StartGenerator
  PROVE  JobInv'
  <1>1. /\ UNCHANGED <<decoder, resampler, cut, rings, encoder>>
        /\ stage = "cut" /\ stage' = "generating" /\ clock_works' = clock_works
    BY DEF StartGenerator, In, Goto
  <1>2. GP!PInv'
    BY <1>1, GeneratorTakes DEF JobInv, InStage
  <1>3. Reads' /\ Resamples' /\ Cuts' /\ SP!EncodesInv'
    BY <1>1, ReaderStays, ResamplerStays, CutStays, EncoderStays DEF JobInv, decoder
  <1>4. InStage'
    BY <1>1 DEF JobInv, InStage, Stages, AfterCut, decoder, resampler, cut, encoder
  <1> QED
    BY <1>2, <1>3, <1>4 DEF JobInv

LEMMA GenerateKeeps ==
  ASSUME GP!BinsFit, JobInv, Generate
  PROVE  JobInv' /\ answer' = answer
  <1>1. /\ UNCHANGED <<decoder, resampler, cut, encoder>> /\ Generator!Next
        /\ stage = "generating" /\ StayUnless(generating' = "panicked")
    BY DEF Generate, In
  <1>2. GP!PInv'
    BY <1>1, GeneratorWorks DEF JobInv
  <1>3. generating' # "panicked"
    BY <1>2 DEF GP!PInv, GP!IInv, GP!AssertHolds
  <1>4. UNCHANGED <<stage, clock_works, answer>>
    BY <1>1, <1>3 DEF StayUnless, Stay, job
  <1>5. Reads' /\ Resamples' /\ Cuts' /\ SP!EncodesInv'
    BY <1>1, ReaderStays, ResamplerStays, CutStays, EncoderStays DEF JobInv, decoder
  <1>6. InStage'
    BY <1>1, <1>4 DEF JobInv, InStage, AfterCut, decoder, resampler, cut, encoder
  <1> QED
    BY <1>2, <1>4, <1>5, <1>6 DEF JobInv

LEMMA GeneratorReturnsKeeps ==
  ASSUME JobInv, GeneratorReturns
  PROVE  JobInv'
  <1>1. /\ UNCHANGED <<decoder, resampler, cut, generator, encoding>>
        /\ stage = "generating" /\ stage' = "stamping" /\ clock_works' = clock_works
        /\ signature' = SignatureMade
        /\ remaining' = Encoder!Sorted(DOMAIN SignatureMade.peaks)
    BY DEF GeneratorReturns, In, Goto
  <1>2. encoding' = "header"
    BY <1>1 DEF JobInv, InStage
  <1>3. SP!EncodesInv' /\ signature'.number_samples = Cutter!NumberSamples
    BY <1>1, <1>2, PeaksSuitEncoder DEF JobInv
  <1>4. Reads' /\ Resamples' /\ Cuts' /\ GP!PInv'
    BY <1>1, ReaderStays, ResamplerStays, CutStays, GeneratorStays DEF JobInv, decoder
  <1>5. InStage'
    BY <1>1, <1>2, <1>3, SameSegment
       DEF JobInv, InStage, Stages, AfterCut, decoder, resampler, cut, generator, rings
  <1> QED
    BY <1>3, <1>4, <1>5 DEF JobInv

LEMMA StampKeeps ==
  ASSUME JobInv, Stamp
  PROVE  JobInv'
  <1>1. /\ UNCHANGED <<decoder, resampler, cut, generator, encoder>>
        /\ stage = "stamping" /\ clock_works' = clock_works
        /\ (stage' = "encoding" /\ clock_works) \/ stage' = stage
    BY DEF Stamp, In, Goto, Answer
  <1>2. CASE stage' = stage
    BY <1>1, <1>2, StageStays
  <1>3. CASE stage' = "encoding" /\ clock_works
    <2>1. Reads' /\ Resamples' /\ Cuts' /\ GP!PInv' /\ SP!EncodesInv'
      BY <1>1, JobStays
    <2>2. InStage'
      BY <1>1, <1>3, SameSegment
         DEF JobInv, InStage, Stages, AfterCut, decoder, resampler, cut, generator, rings,
             encoder
    <2> QED
      BY <2>1, <2>2 DEF JobInv
  <1> QED
    BY <1>1, <1>2, <1>3

LEMMA EncodeKeeps ==
  ASSUME JobInv, Encode
  PROVE  JobInv' /\ answer' = answer
  <1>1. /\ UNCHANGED <<decoder, resampler, cut, generator>> /\ Encoder!Next
        /\ stage = "encoding" /\ StayUnless(encoding' = "panicked")
    BY DEF Encode, In
  <1>2. SP!EncodesInv' /\ encoding' # "panicked" /\ signature' = signature
    BY <1>1, EncoderWorks DEF JobInv
  <1>3. UNCHANGED <<stage, clock_works, answer>>
    BY <1>1, <1>2 DEF StayUnless, Stay, job
  <1>4. Reads' /\ Resamples' /\ Cuts' /\ GP!PInv'
    BY <1>1, ReaderStays, ResamplerStays, CutStays, GeneratorStays DEF JobInv, decoder
  <1>5. InStage'
    BY <1>1, <1>2, <1>3, SameSegment
       DEF JobInv, InStage, AfterCut, decoder, resampler, cut, generator, rings
  <1> QED
    BY <1>2, <1>3, <1>4, <1>5 DEF JobInv

LEMMA JobKeeps ==
  ASSUME RP!OutputGrows, GP!BinsFit, JobInv, [Next]_vars
  PROVE  JobInv'
  <1>1. CASE PcmSamples
    <2>1. CASE DecoderRefuses
      BY <2>1, StageStays DEF DecoderRefuses, Answer
    <2> QED
      BY <1>1, <2>1, ReadKeeps, BuildKeeps, HandOverKeeps, ResampleKeeps,
         FinishResamplingKeeps DEF PcmSamples
  <1>2. CASE SamplesReturned \/ Cut \/ StartGenerator \/ Generate \/ GeneratorReturns
    BY <1>2, SamplesReturnedKeeps, CutKeeps, StartGeneratorKeeps, GenerateKeeps,
       GeneratorReturnsKeeps
  <1>3. CASE GetSignatureJson
    <2>1. CASE AnswerSignature
      BY <2>1, StageStays DEF AnswerSignature, Answer
    <2> QED
      BY <1>3, <2>1, StampKeeps, EncodeKeeps DEF GetSignatureJson
  <1>4. CASE UNCHANGED vars
    BY <1>4, StageStays DEF vars, job
  <1> QED
    BY <1>1, <1>2, <1>3, <1>4 DEF Next, MakeSignature, Terminating

\* What the theorems below assume of the library that resamples and of the bins.
Sizes == RP!OutputGrows /\ GP!BinsFit

\* Every part keeps to its own, and the parts fit.
THEOREM JobInvariance == Sizes => (Spec => []JobInv)
  <1> SUFFICES ASSUME Sizes
               PROVE  Spec => []JobInv
    OBVIOUS
  <1>1. JobInv /\ [Next]_vars => JobInv'
    BY JobKeeps DEF Sizes
  <1> QED
    BY <1>1, JobStarts, PTL DEF Spec

\* However long the stream, no more of it is staged for the resampler than one
\* packet beside the chunk that waits to be filled, and between packets no more
\* than the chunk.
THEOREM OnePacketHeld == Sizes => (Spec => []HoldsOnePacket)
  <1> SUFFICES ASSUME Sizes
               PROVE  Spec => []HoldsOnePacket
    OBVIOUS
  <1>1. JobInv => HoldsOnePacket
    BY DEF JobInv, Resamples, StagesOnePacket, Frames, RP!IInv, RP!Staging, HoldsOnePacket
  <1> QED
    BY <1>1, JobInvariance, PTL

\* The header of a finished file says its size, twice, and the checksum of what
\* follows it, whatever clip the job was given, as long as a word can say the
\* size.
THEOREM HeaderOfFile == Sizes => (Spec => [](SP!FileFits => Encoder!HeaderDescribesFile))
  <1> SUFFICES ASSUME Sizes
               PROVE  Spec => [](SP!FileFits => Encoder!HeaderDescribesFile)
    OBVIOUS
  <1>1. JobInv => (SP!FileFits => Encoder!HeaderDescribesFile)
    BY SameEncoder DEF JobInv, SP!EncodesInv, SP!Written
  <1> QED
    BY <1>1, JobInvariance, PTL

-------------------------------------------------------------------------------
(* The answer: a refusal has its reason in the stream, and a signature     *)
(* declares what was asked for of all the frames of the stream.            *)

LEMMA SameContract ==
  /\ Contract!Refused = Refused /\ Contract!Pending = Pending
  /\ \A n : Contract!Signature(n) = Signature(n)
  /\ Contract!Reading!Refused = [kind |-> "refused"]
  BY DEF Contract!Refused, Refused, Contract!Pending, Pending, Contract!Signature, Signature,
     Contract!Reading!Refused

LEMMA JobStartsPending == Init => Contract!Init
  BY PartsAssumption DEF Init, Contract!Init, Decoder!Init, Contract!Pending, Pending

\* A refusal of the reader is the contract's.
LEMMA RefusedByReader ==
  ASSUME Reads, decoding \notin {"opening", "reading", "finished"}
  PROVE  Contract!Promised = Refused
  <1>1. DP!Result = [kind |-> "refused"] /\ DP!Result = DP!Contract!Verdict
    BY DEF Reads, DP!Result, DP!Running
  <1>2. Contract!Reading!Verdict = Contract!Reading!Refused
    BY <1>1, SameVerdict, SameContract
  <1> QED
    BY <1>2, SameContract DEF Contract!Promised

\* The positions the contract gives.
Nth(D, i) == CHOOSE k \in D : DP!Contract!Cardinality({m \in D : m <= k}) = i

LEMMA VerdictIs ==
  LET D == DP!Contract!Decoded
  IN  \/ DP!Contract!Verdict = [kind |-> "refused"]
      \/ /\ D # {}
         /\ DP!Contract!Verdict
              = [kind |-> "chunks",
                 positions |-> [i \in 1 .. DP!Contract!Cardinality(D) |-> Nth(D, i)]]
  BY Zenon DEF DP!Contract!Verdict, DP!Contract!Refused, DP!Contract!Chunks, Nth

\* The first of a set of positions is the one that counting puts first.
LEMMA FirstOf ==
  ASSUME NEW D, NEW last \in Nat, D \subseteq 1 .. last, NEW first \in D,
         \A m \in D : m <= first => m = first
  PROVE  1 \in 1 .. DP!Contract!Cardinality(D) /\ Nth(D, 1) = first
  <1> DEFINE upto(k) == {m \in D : m <= k}
  <1>1. IsFiniteSet(D) /\ \A k : IsFiniteSet(upto(k))
    <2>1. IsFiniteSet(1 .. last)
      BY FS_Interval
    <2>2. \A k : upto(k) \subseteq 1 .. last
      OBVIOUS
    <2> QED
      BY <2>1, <2>2, FS_Subset, Zenon
  <1>2. \A S : DP!Contract!Cardinality(S) = Cardinality(S)
    BY DEF DP!Contract!Cardinality, Cardinality
  <1>3. Cardinality(D) \in Nat /\ Cardinality(D) # 0
    BY <1>1, FS_CardinalityType, FS_EmptySet, Zenon
  <1>4. upto(first) = {first}
    <2>1. first <= first
      OBVIOUS
    <2> QED
      BY <2>1, Zenon
  <1>5. Cardinality(upto(first)) = 1
    BY <1>4, FS_Singleton, Zenon
  <1>6. ASSUME NEW k \in D, Cardinality(upto(k)) = 1
        PROVE  k = first
    <2>1. k \in upto(k)
      OBVIOUS
    <2>2. PICK x : upto(k) = {x}
      BY <1>1, <1>6, FS_Singleton, Zenon
    <2>3. k <= first \/ first \in upto(k)
      OBVIOUS
    <2> HIDE DEF upto
    <2> QED
      BY <2>1, <2>2, <2>3
  <1>7. \A k \in D : Cardinality(upto(k)) = 1 <=> k = first
    BY <1>5, <1>6
  <1>8. Nth(D, 1) = CHOOSE k \in D : Cardinality(upto(k)) = 1
    BY <1>2, Zenon DEF Nth
  <1> HIDE DEF upto
  <1>9. Nth(D, 1) = first
    BY <1>7, <1>8
  <1>10. 1 \in 1 .. DP!Contract!Cardinality(D)
    BY <1>2, <1>3
  <1> QED
    BY <1>9, <1>10

\* What was read lies before the contract's end of the stream.
LEMMA PastIsBefore ==
  ASSUME Reads, decoding = "reading"
  PROVE  /\ DP!Contract!Stop \in Nat
         /\ DP!Contract!Before = 1 .. DP!Contract!Stop - 1
         /\ DP!Past \subseteq DP!Contract!Before
  <1>1. /\ stream \in Streams /\ position \in Nat /\ position <= Len(DP!Events)
        /\ \A k \in DP!Past : DP!Events[k].kind \notin {"end", "eof"}
    BY DEF Reads, DP!IInv, DP!Typed, DP!Reading, DP!NoneRefused, DP!Harmless
  <1>2. Len(DP!Events) \in Nat
    BY <1>1, PartsAssumed, DP!EventsAreSequence
  <1>3. /\ DP!Contract!Stop \in 1 .. Len(DP!Events) + 1
        /\ DP!Contract!Stop <= Len(DP!Events) =>
             DP!Events[DP!Contract!Stop].kind \in {"end", "eof"}
    BY <1>1, PartsAssumed, DP!StopIsFirstEnd
  <1>4. DP!Contract!Stop > position
    BY <1>1, <1>2, <1>3 DEF DP!Past
  <1> QED
    BY <1>1, <1>2, <1>3, <1>4 DEF DP!Contract!Before, DP!Past

\* The first packet decoded is the first of the contract's.
LEMMA FirstPacket ==
  ASSUME Reads, first_chunk # Nothing
  PROVE  \/ DP!Contract!Verdict = [kind |-> "refused"]
         \/ /\ DP!Contract!Verdict.positions[1] = position
            /\ stream.events[position].spec = spec
  <1>1. decoding = "reading" /\ DP!IInv
    BY DEF Reads
  <1>2. first_chunk.packet = position /\ pushed = <<>>
        /\ DP!Delivered = Append(pushed, first_chunk)
    BY <1>1 DEF DP!IInv, DP!DeliveredInOrder, DP!Delivered
  <1>3. DP!Delivered = <<first_chunk>>
    BY <1>2
  <1>4. \A c : c \in DP!Range(DP!Delivered) <=> c = first_chunk
    BY <1>3 DEF DP!Range
  <1>5. DP!Genuine(first_chunk)
    BY <1>1, <1>4 DEF DP!IInv, DP!DeliveredInOrder
  <1>6. position \in DP!Past /\ DP!DecodedAt(position) /\ stream.events[position].spec = spec
    BY <1>2, <1>5 DEF DP!Genuine, DP!Events
  <1>7. \A k \in DP!Past : DP!DecodedAt(k) => k = position
    BY <1>1, <1>2, <1>4 DEF DP!IInv, DP!Reading, DP!AllDelivered
  <1> DEFINE D == DP!Contract!Decoded
             end == DP!Contract!Stop
  <1>8. end \in Nat /\ DP!Contract!Before = 1 .. end - 1 /\ DP!Past \subseteq 1 .. end - 1
    BY <1>1, PastIsBefore
  <1>9. \A k : k \in D <=> k \in DP!Contract!Before /\ DP!DecodedAt(k)
    BY PartsAssumed, DP!WantedIsWantedAt
  <1> HIDE DEF D, end
  <1>10. position \in D /\ D \subseteq 1 .. end /\ position \in Nat
    BY <1>6, <1>8, <1>9 DEF DP!Past
  <1>11. \A m \in D : m <= position => m = position
    <2> TAKE m \in D
    <2>1. m \in 1 .. end /\ DP!DecodedAt(m)
      BY <1>9, <1>10
    <2>2. m <= position => m \in DP!Past
      BY <2>1 DEF DP!Past
    <2> QED
      BY <1>7, <2>1, <2>2
  <1>12. 1 \in 1 .. DP!Contract!Cardinality(D) /\ Nth(D, 1) = position
    BY <1>8, <1>10, <1>11, FirstOf
  <1> DEFINE positions == [i \in 1 .. DP!Contract!Cardinality(D) |-> Nth(D, i)]
  <1>13. \/ DP!Contract!Verdict = [kind |-> "refused"]
         \/ DP!Contract!Verdict = [kind |-> "chunks", positions |-> positions]
    BY VerdictIs DEF D
  <1>14. positions[1] = position
    BY <1>12
  <1> HIDE DEF positions
  <1> QED
    BY <1>6, <1>13, <1>14

\* A rate no resampler can be built for is refused by the contract as well.
LEMMA RefusedForItsRate ==
  ASSUME Reads, first_chunk # Nothing, spec \notin Resamplable
  PROVE  Contract!Promised = Refused
  BY FirstPacket, SameVerdict, SameContract DEF Contract!Promised

LEMMA RefusedForTheClock ==
  ASSUME ~clock_works
  PROVE  Contract!Promised = Refused
  BY SameContract DEF Contract!Promised

\* A sum of the frames, however it was come by, is the contract's.
LEMMA FramesAreSummed ==
  ASSUME NEW n \in Nat, NEW positions, Len(positions) = n, NEW total \in [0 .. n -> Nat],
         total[0] = 0,
         \A k \in 1 .. n : total[k] = total[k - 1] + stream.events[positions[k]].frames
  PROVE  Contract!Frames(positions) = total[n]
  <1> DEFINE body(T) == [k \in 0 .. n |-> IF k = 0 THEN 0
                           ELSE T[k - 1] + stream.events[positions[k]].frames]
             Total == CHOOSE T : T = body(T)
  <1>1. Contract!Frames(positions) = Total[n]
    BY Zenon DEF Contract!Frames
  <1>2. total = body(total)
    <2>1. \A k \in 0 .. n : total[k] = body(total)[k]
      <3> TAKE k \in 0 .. n
      <3>1. k = 0 \/ k \in 1 .. n
        OBVIOUS
      <3> QED
        BY <3>1
    <2> QED
      BY <2>1
  <1> HIDE DEF body
  <1>3. Total = body(Total)
    BY <1>2
  <1> HIDE DEF Total
  <1>4. Total[0] = 0 /\ \A k \in 1 .. n : Total[k] = Total[k - 1]
                                            + stream.events[positions[k]].frames
    <2>1. \A k \in 0 .. n : Total[k] = IF k = 0 THEN 0
                           ELSE Total[k - 1] + stream.events[positions[k]].frames
      BY <1>3, Zenon DEF body
    <2> QED
      BY <2>1
  <1> DEFINE apart == {k \in 0 .. n : Total[k] # total[k]}
  <1>5. apart = {}
    <2> SUFFICES ASSUME apart # {}
                 PROVE  FALSE
      OBVIOUS
    <2>1. apart \in SUBSET Nat
      OBVIOUS
    <2>2. PICK k \in apart : \A m \in apart : k <= m
      BY <2>1, PartsAssumed, DP!LeastPosition
    <2>3. k \in 1 .. n
      BY <1>4
    <2>4. k - 1 \in 0 .. n /\ k - 1 \notin apart
      BY <2>2, <2>3
    <2>5. Total[k - 1] = total[k - 1]
      BY <2>4
    <2> QED
      BY <1>4, <2>3, <2>5
  <1> QED
    BY <1>1, <1>5

\* What is answered, when an answer is given, is what is promised of the stream.
LEMMA SignatureIsPromised ==
  ASSUME JobInv, stage = "encoding"
  PROVE  Contract!Promised = Signature(signature.number_samples)
  <1>1. /\ Reads /\ DP!IInv /\ Resamples /\ Cuts /\ InStage
        /\ decoding = "finished" /\ cutting = "cut" /\ clock_works
        /\ spec # Nothing /\ spec \in Resamplable
        /\ length = Expected(input_frame_count)
        /\ signature.number_samples = Cutter!NumberSamples
    BY DEF JobInv, Reads, InStage, AfterCut
  <1> DEFINE n == Len(pushed)
             positions == [k \in DOMAIN pushed |-> pushed[k].packet]
  <1>2. pushed \in Seq(DP!Chunks) /\ first_chunk = Nothing /\ DP!Delivered = pushed
    BY <1>1 DEF Reads, DP!IInv, DP!Typed, DP!Delivered
  <1>3. n \in Nat \ {0} /\ DOMAIN pushed = 1 .. n
    BY <1>1, <1>2 DEF DP!IInv, DP!DeliveredInOrder
  <1>4. Contract!Reading!Verdict = [kind |-> "chunks", positions |-> positions]
    BY <1>1, SameVerdict DEF Reads, DP!Result, DP!Running
  <1>5. Len(positions) = n /\ \A k \in 1 .. n : positions[k] = pushed[k].packet
    BY <1>3
  <1>6. stream.events[positions[1]].spec = spec
    <2>1. pushed[1] \in DP!Range(DP!Delivered)
      BY <1>2, <1>3 DEF DP!Range
    <2>2. DP!Genuine(pushed[1])
      BY <1>1, <2>1 DEF DP!IInv, DP!DeliveredInOrder
    <2> QED
      BY <1>3, <1>5, <2>2 DEF DP!Genuine, DP!Events
  <1>7. Contract!Frames(positions) = input_frame_count
    <2>1. PICK total : IsSum(total) /\ total[n] = input_frame_count
      BY <1>1 DEF Resamples
    <2>2. /\ total \in [0 .. n -> Nat] /\ total[0] = 0
          /\ \A k \in 1 .. n :
               total[k] = total[k - 1] + stream.events[positions[k]].frames
      BY <1>5, <2>1 DEF IsSum, Frames, Decoder!FramesOf
    <2>3. n \in Nat /\ Len(positions) = n
      BY <1>3, <1>5
    <2> HIDE DEF positions, n
    <2>4. Contract!Frames(positions) = total[n]
      BY <2>2, <2>3, FramesAreSummed, Zenon
    <2> QED
      BY <2>1, <2>4
  <1> HIDE DEF positions
  <1>8. Contract!SegmentOf(length) = SegmentLength
    <2>1. Contract!Seconds = SP!DurationSeconds
      BY DEF Contract!Seconds, SP!DurationSeconds
    <2> DEFINE wanted == SP!DurationSeconds * SAMPLE_RATE_HZ
    <2>2. wanted \in Nat /\ length \in Nat
      <3>1. SP!DurationSeconds \in Nat
        BY <1>1, Widths DEF Cuts, SP!CutAsPromised, SP!TypeOK, SP!DurationSeconds
      <3>2. length \in 0 .. usize_max /\ usize_max \in Nat
        BY <1>1, Widths DEF Cuts, SP!CutAsPromised, SP!TypeOK
      <3> QED
        BY <3>1, <3>2, PartsAssumed, SP!TwoHalves
    <2>3. /\ length <= wanted => segment = [from |-> 0, upto |-> length]
          /\ length > wanted => segment.upto - segment.from = wanted
      BY <1>1 DEF Cuts, SP!CutAsPromised, SP!WholeClipWhenItFits, SP!CutFromMiddle
    <2>4. Contract!SegmentOf(length) = IF length <= wanted THEN length ELSE wanted
      BY <2>1 DEF Contract!SegmentOf
    <2> HIDE DEF wanted
    <2> QED
      BY <2>2, <2>3, <2>4 DEF SegmentLength
  <1>9. Contract!Declared(SegmentLength) = Cutter!NumberSamples
    BY DEF Contract!Declared, Cutter!NumberSamples, SegmentLength
  <1>10. Contract!Reading!Verdict # Contract!Reading!Refused
    BY <1>4, SameContract
  <1> QED
    BY <1>1, <1>4, <1>6, <1>7, <1>8, <1>9, <1>10, SameContract DEF Contract!Promised

LEMMA ReadAnswersNothing ==
  ASSUME JobInv, Read \/ HandOver
  PROVE  UNCHANGED Contract!vars
  <1>1. /\ DecoderStep \/ Decoder!TakeFirstChunk \/ Decoder!DecodeNext
        /\ UNCHANGED cut /\ Stay
    BY DEF Read, HandOver
  <1>2. stream' = stream
    BY <1>1, ReaderKeeps DEF JobInv
  <1> QED
    BY <1>1, <1>2 DEF Contract!vars, cut, Stay, job

\* Each step of the job is the one step of the contract or none of its steps.
LEMMA JobStepRefines ==
  ASSUME RP!OutputGrows, GP!BinsFit, JobInv, [Next]_vars
  PROVE  [Contract!Decide]_(Contract!vars)
  <1> DEFINE Quiet == UNCHANGED Contract!vars
             Answers(given) == /\ answer = Pending /\ answer' = given
                               /\ UNCHANGED <<stream, asked, clock_works>>
  <1> SUFFICES Quiet \/ Answers(Contract!Promised)
    BY SameContract DEF Contract!Decide
  <1> USE DEF Contract!vars
  <1>1. CASE Read \/ HandOver
    BY <1>1, ReadAnswersNothing
  <1>2. CASE BuildResampling
    <2>1. /\ UNCHANGED <<stream, asked>> /\ first_chunk # Nothing /\ answer = Pending
          /\ \/ UNCHANGED <<clock_works, answer>>
             \/ /\ spec \notin Resamplable
                /\ answer' = Refused /\ clock_works' = clock_works
      BY <1>2 DEF BuildResampling, In, Goto, Answer, decoder, cut
    <2> QED
      BY <2>1, RefusedForItsRate DEF JobInv
  <1>3. CASE Resample \/ FinishResampling
    BY <1>3 DEF Resample, FinishResampling, Goto, Stay, job, decoder, cut
  <1>4. CASE DecoderRefuses
    <2>1. /\ Answers(Refused) /\ decoding \notin {"opening", "reading", "finished"}
      BY <1>4 DEF DecoderRefuses, In, Answer, decoder, cut
    <2> QED
      BY <2>1, RefusedByReader DEF JobInv
  <1>5. CASE SamplesReturned \/ Cut \/ StartGenerator \/ GeneratorReturns
    BY <1>5 DEF SamplesReturned, Cut, Cutter!MiddleSegment, StartGenerator, GeneratorReturns,
       Goto, decoder, cut
  <1>6. CASE Generate
    <2>1. UNCHANGED <<decoder, cut>> /\ (Answer(Panicked) \/ Stay)
      BY <1>6 DEF Generate, StayUnless
    <2>2. answer' = answer
      BY <1>6, GenerateKeeps
    <2> QED
      BY <2>1, <2>2 DEF decoder, cut, Answer, Stay, job
  <1>7. CASE Stamp
    <2>1. /\ UNCHANGED <<stream, asked>> /\ answer = Pending
          /\ \/ UNCHANGED <<clock_works, answer>>
             \/ ~clock_works /\ answer' = Refused /\ clock_works' = clock_works
      BY <1>7 DEF Stamp, In, Goto, Answer, decoder, cut
    <2> QED
      BY <2>1, RefusedForTheClock
  <1>8. CASE Encode
    <2>1. UNCHANGED <<decoder, cut>> /\ (Answer(Panicked) \/ Stay)
      BY <1>8 DEF Encode, StayUnless
    <2>2. answer' = answer
      BY <1>8, EncodeKeeps
    <2> QED
      BY <2>1, <2>2 DEF decoder, cut, Answer, Stay, job
  <1>9. CASE AnswerSignature
    <2>1. Answers(Signature(signature.number_samples)) /\ stage = "encoding"
      BY <1>9 DEF AnswerSignature, In, Answer, decoder, cut
    <2> QED
      BY <2>1, SignatureIsPromised
  <1>10. CASE UNCHANGED vars
    BY <1>10 DEF vars, decoder, cut, job
  <1> QED
    BY <1>1, <1>2, <1>3, <1>4, <1>5, <1>6, <1>7, <1>8, <1>9, <1>10
       DEF Next, MakeSignature, PcmSamples, GetSignatureJson, Terminating

\* A job of the thread gives no answer but the contract's: a refusal with its
\* reason in the stream, or a signature that declares as many samples as were
\* asked for, or as there are, of all the frames decoded.  No assertion fails.
THEOREM JobKeepsContract == Sizes => (Spec => AnswersByVerdict)
  <1> SUFFICES ASSUME Sizes
               PROVE  Spec => AnswersByVerdict
    OBVIOUS
  <1>1. JobInv /\ [Next]_vars => [Contract!Decide]_(Contract!vars)
    BY JobStepRefines DEF Sizes
  <1> QED
    BY <1>1, JobStartsPending, JobInvariance, PTL DEF Spec, AnswersByVerdict, Contract!Spec
-------------------------------------------------------------------------------
(* The bytes answered: what the encoder has written reads back, what it was  *)
(* given is the generator's, and the generator took no more chunks than the  *)
(* segment has.                                                              *)

InMaking == {"generating", "stamping", "encoding"}
Made == {"stamping", "encoding"}

Told ==
  /\ SP!ReadsInv /\ SP!DeclaresSamples
  /\ stage \in Made => signature = SignatureMade
  /\ stage \in InMaking => chunks_left + GP!taken = WholeChunks(SegmentLength)
  /\ answer.kind = "signature" => stage = "encoding" /\ encoding = "encoded"

LEMMA ToldAtFirst == Init => Told
  <1> SUFFICES ASSUME Init
               PROVE  Told
    OBVIOUS
  <1>1. SP!Init /\ encoding = "header" /\ stage = "opening" /\ answer.kind = "pending"
    BY SameEncoder DEF Init, Encoder!Init, Pending
  <1>2. SP!ReadsInv
    BY <1>1, PartsAssumed, SP!ReadingStarts
  <1>3. SP!DeclaresSamples
    BY <1>1 DEF SP!DeclaresSamples
  <1> QED
    BY <1>1, <1>2, <1>3 DEF Told, InMaking, Made

\* The encoder keeps what was read true of what is written.
LEMMA EncoderReads ==
  ASSUME SP!ReadsInv, SP!DeclaresSamples, Encoder!Next \/ UNCHANGED encoder
  PROVE  SP!ReadsInv' /\ SP!DeclaresSamples'
  <1>1. SP!Next \/ UNCHANGED SP!vars
    BY SameEncoder DEF encoder, SP!vars
  <1>2. SP!EncodesInv
    BY DEF SP!ReadsInv
  <1> QED
    BY <1>1, <1>2, PartsAssumed, SP!StepReads, SP!StepDeclares

\* No chunk is lost between the segment and the passes.
LEMMA ChunksCounted ==
  ASSUME GP!PInv, Generator!Next
  PROVE  chunks_left' + GP!taken' = chunks_left + GP!taken
  <1>1. chunks_left \in Nat /\ num_spread_ffts_done \in Nat
    BY DEF GP!PInv, GP!IInv, GP!TypeOK
  <1>2. CASE Generator!DoFft
    <2>1. /\ generating = "fft" /\ generating' = "spread" /\ chunks_left' = chunks_left - 1
          /\ num_spread_ffts_done' = num_spread_ffts_done
      BY <1>2 DEF Generator!DoFft
    <2> QED
      BY <1>1, <2>1 DEF GP!taken
  <1>3. CASE Generator!DoPeakSpreading
    <2>1. /\ generating = "spread" /\ generating' # "spread" /\ chunks_left' = chunks_left
          /\ num_spread_ffts_done' = num_spread_ffts_done + 1
      BY <1>3 DEF Generator!DoPeakSpreading
    <2> QED
      BY <1>1, <2>1 DEF GP!taken
  <1>4. CASE Generator!EndRecognition \/ \E b \in Generator!Judged : Generator!JudgePeak(b)
    <2>1. /\ generating = "recognise" /\ generating' # "spread" /\ chunks_left' = chunks_left
          /\ num_spread_ffts_done' = num_spread_ffts_done
      BY <1>4 DEF Generator!EndRecognition, Generator!JudgePeak, Generator!NextPeak
    <2> QED
      BY <2>1 DEF GP!taken
  <1> QED
    BY <1>2, <1>3, <1>4 DEF Generator!Next

LEMMA SameSignature ==
  ASSUME UNCHANGED <<cut, peaks>>
  PROVE  SignatureMade' = SignatureMade /\ SegmentLength' = SegmentLength
  <1>1. Cutter!NumberSamples' = Cutter!NumberSamples
    BY SameSegment
  <1> QED
    BY <1>1 DEF SignatureMade, SegmentLength, cut

LEMMA ToldBefore ==
  ASSUME Told, UNCHANGED encoder, stage' \notin InMaking, answer'.kind # "signature"
  PROVE  Told'
  <1>1. SP!ReadsInv' /\ SP!DeclaresSamples'
    BY EncoderReads DEF Told
  <1> QED
    BY <1>1 DEF Told, InMaking, Made

\* A step that leaves the segment and what the generator has made of it.
LEMMA ToldOn ==
  ASSUME Told, SP!ReadsInv', SP!DeclaresSamples', UNCHANGED <<cut, generator, signature>>,
         stage \in Made, stage' \in Made,
         answer'.kind = "signature" => stage' = "encoding" /\ encoding' = "encoded"
  PROVE  Told'
  <1>1. SignatureMade' = SignatureMade /\ SegmentLength' = SegmentLength
    BY SameSignature DEF generator, rings
  <1>2. chunks_left' = chunks_left /\ GP!taken' = GP!taken
    BY DEF generator, rings, GP!taken
  <1>3. WholeChunks(SegmentLength)' = WholeChunks(SegmentLength)
    BY <1>1 DEF WholeChunks
  <1> QED
    BY <1>1, <1>2, <1>3 DEF Told, InMaking, Made

LEMMA ToldKeeps ==
  ASSUME Sizes, JobInv, JobInv', Told, [Next]_vars
  PROVE  Told'
  <1>1. CASE PcmSamples \/ SamplesReturned \/ Cut
    <2>1. UNCHANGED encoder /\ stage' \notin InMaking /\ answer'.kind # "signature"
      BY <1>1 DEF PcmSamples, Read, BuildResampling, HandOver, Resample, DecoderRefuses,
         FinishResampling, SamplesReturned, Cut, In, Goto, Stay, Answer, job, Pending,
         Refused, InMaking
    <2> QED
      BY <2>1, ToldBefore
  <1>2. CASE StartGenerator
    <2>1. /\ chunks_left' = WholeChunks(SegmentLength) /\ UNCHANGED <<cut, rings, encoder>>
          /\ stage = "cut" /\ stage' = "generating" /\ answer' = Pending
      BY <1>2 DEF StartGenerator, In, Goto
    <2>2. generating = "fft" /\ num_spread_ffts_done = 0
      BY <2>1 DEF JobInv, InStage
    <2>3. SP!ReadsInv' /\ SP!DeclaresSamples'
      BY <2>1, EncoderReads DEF Told
    <2>4. SegmentLength' = SegmentLength
      BY <2>1 DEF SegmentLength, cut
    <2>5. GP!taken' = 0 /\ chunks_left' \in Nat
      <3>1. generating' = "fft" /\ num_spread_ffts_done' = 0
        BY <2>1, <2>2 DEF rings
      <3>2. chunks_left' \in Nat
        BY DEF JobInv, GP!PInv, GP!IInv, GP!TypeOK
      <3> QED
        BY <3>1, <3>2 DEF GP!taken
    <2>6. chunks_left' + GP!taken' = WholeChunks(SegmentLength)'
      BY <2>1, <2>4, <2>5 DEF WholeChunks
    <2> QED
      BY <2>1, <2>3, <2>6 DEF Told, Made, Pending
  <1>3. CASE Generate
    <2>1. /\ UNCHANGED <<cut, encoder>> /\ Generator!Next /\ stage = "generating"
          /\ answer = Pending
      BY <1>3 DEF Generate, In
    <2>2. answer' = answer
      BY <1>3, GenerateKeeps DEF Sizes
    <2>3. stage' = stage
      BY <1>3 DEF Generate, StayUnless, Stay, Answer, job
    <2>4. SP!ReadsInv' /\ SP!DeclaresSamples'
      BY <2>1, EncoderReads DEF Told
    <2>5. chunks_left' + GP!taken' = chunks_left + GP!taken
      BY <2>1, ChunksCounted DEF JobInv
    <2>6. WholeChunks(SegmentLength)' = WholeChunks(SegmentLength)
      BY <2>1 DEF WholeChunks, SegmentLength, cut
    <2> QED
      BY <2>1, <2>2, <2>3, <2>4, <2>5, <2>6 DEF Told, InMaking, Made, Pending
  <1>4. CASE GeneratorReturns
    <2>1. /\ signature' = SignatureMade
          /\ remaining' = Encoder!Sorted(DOMAIN SignatureMade.peaks)
          /\ UNCHANGED <<cut, generator, encoding>>
          /\ stage = "generating" /\ stage' = "stamping" /\ answer' = Pending
      BY <1>4 DEF GeneratorReturns, In, Goto
    <2>2. SP!EncodesInv'
      BY DEF JobInv
    <2>3. SP!AtHeader'
      <3>1. encoding' = "header"
        BY <2>1 DEF JobInv, InStage
      <3>2. remaining' = SP!Sorted(DOMAIN signature'.peaks)
        BY <2>1, SameEncoder
      <3> QED
        BY <3>1, <3>2 DEF SP!AtHeader
    <2>4. SP!ReadsInv'
      BY <2>2, <2>3, PartsAssumed, SP!ReadingBegins
    <2>5. SP!DeclaresSamples'
      BY <2>3 DEF SP!DeclaresSamples, SP!AtHeader
    <2>6. SignatureMade' = SignatureMade /\ SegmentLength' = SegmentLength
      BY <2>1, SameSignature DEF generator, rings
    <2>7. chunks_left' + GP!taken' = WholeChunks(SegmentLength)'
      BY <2>1, <2>6 DEF Told, InMaking, generator, rings, GP!taken, WholeChunks
    <2> QED
      BY <2>1, <2>4, <2>5, <2>6, <2>7 DEF Told, Pending
  <1>5. CASE Stamp
    <2>1. /\ UNCHANGED <<cut, generator, encoder>> /\ stage = "stamping" /\ stage' \in Made
          /\ answer'.kind # "signature"
      BY <1>5 DEF Stamp, In, Goto, Answer, Made, Pending, Refused
    <2>2. SP!ReadsInv' /\ SP!DeclaresSamples'
      BY <2>1, EncoderReads DEF Told
    <2>3. signature' = signature /\ stage \in Made
      BY <2>1 DEF encoder, Made
    <2> QED
      BY <2>1, <2>2, <2>3, ToldOn
  <1>6. CASE Encode
    <2>1. /\ UNCHANGED <<cut, generator>> /\ Encoder!Next /\ stage = "encoding"
          /\ answer = Pending
      BY <1>6 DEF Encode, In
    <2>2. answer' = answer
      BY <1>6, EncodeKeeps
    <2>3. stage' = stage
      BY <1>6 DEF Encode, StayUnless, Stay, Answer, job
    <2>4. SP!ReadsInv' /\ SP!DeclaresSamples'
      BY <2>1, EncoderReads DEF Told
    <2>5. signature' = signature
      BY <2>1, EncoderWorks DEF JobInv
    <2>6. stage \in Made /\ answer'.kind # "signature"
      BY <2>1, <2>2 DEF Made, Pending
    <2> QED
      BY <2>1, <2>3, <2>4, <2>5, <2>6, ToldOn
  <1>7. CASE AnswerSignature
    <2>1. /\ UNCHANGED <<cut, generator, encoder>> /\ stage = "encoding" /\ stage' = stage
          /\ encoding = "encoded"
      BY <1>7 DEF AnswerSignature, In, Answer
    <2>2. SP!ReadsInv' /\ SP!DeclaresSamples'
      BY <2>1, EncoderReads DEF Told
    <2>3. signature' = signature /\ stage \in Made /\ encoding' = "encoded"
      BY <2>1 DEF encoder, Made
    <2> QED
      BY <2>1, <2>2, <2>3, ToldOn
  <1>8. CASE UNCHANGED vars
    <2>1. UNCHANGED <<cut, generator, encoder, stage, answer>>
      BY <1>8 DEF vars, job
    <2>2. SP!ReadsInv' /\ SP!DeclaresSamples'
      BY <2>1, EncoderReads DEF Told
    <2>3. SignatureMade' = SignatureMade /\ SegmentLength' = SegmentLength
      BY <2>1, SameSignature DEF generator, rings
    <2>4. /\ signature' = signature /\ encoding' = encoding /\ chunks_left' = chunks_left
          /\ GP!taken' = GP!taken
      BY <2>1 DEF encoder, generator, rings, GP!taken
    <2>5. WholeChunks(SegmentLength)' = WholeChunks(SegmentLength)
      BY <2>3 DEF WholeChunks
    <2> QED
      BY <2>1, <2>2, <2>3, <2>4, <2>5 DEF Told
  <1> QED
    BY <1>1, <1>2, <1>3, <1>4, <1>5, <1>6, <1>7, <1>8
       DEF Next, MakeSignature, GetSignatureJson, Terminating
\* A magnitude is cast to u16, and a count of samples that a u32 holds is a word.
FieldsFit == (\A l \in Levels : Magnitude(l) < 65536) /\ U32_MAX < SP!WordEnd

\* The segment and its padding are counted in a u32 without wrapping.
CountFits == SegmentLength + (SAMPLE_RATE_HZ * 24) \div 100 <= U32_MAX

\* A recorded peak is of a pass that was judged before the whole chunks ran out.
LEMMA PassInSegment ==
  ASSUME Cuts, GP!PInv, chunks_left + GP!taken = WholeChunks(SegmentLength),
         NEW b \in 0 .. 3, NEW k \in DOMAIN peaks[b]
  PROVE  /\ peaks[b][k].fft_pass_number \in Nat
         /\ (peaks[b][k].fft_pass_number + JudgedLag) * ChunkSamples <= SegmentLength
         /\ peaks[b][k].fft_pass_number <= SegmentLength
  <1> DEFINE pass == peaks[b][k].fft_pass_number
             n == SegmentLength
             whole == WholeChunks(n)
  <1>1. pass \in Nat /\ pass <= GP!JudgedPass
    BY DEF GP!PInv, GP!RingNumbered, GP!Bands
  <1>2. chunks_left \in Nat /\ num_spread_ffts_done \in Nat
    BY DEF GP!PInv, GP!IInv, GP!TypeOK
  <1>3. JudgedLag \in Nat /\ ChunkSamples \in Nat \ {0} /\ n \in Nat
    BY JobAssumption, SegmentInClip, PartsAssumed DEF GP!SizesAssumption
  <1>4. GP!taken \in Nat /\ num_spread_ffts_done <= GP!taken
    BY <1>2 DEF GP!taken
  <1> HIDE DEF pass, n
  <1>5. whole \in Nat /\ whole * ChunkSamples <= n
    BY <1>3 DEF WholeChunks
  <1>6. whole = chunks_left + GP!taken
    BY DEF n
  <1> HIDE DEF whole
  <1>7. pass + JudgedLag <= whole
    BY <1>1, <1>2, <1>3, <1>4, <1>5, <1>6 DEF GP!JudgedPass
  <1>8. \A p, q, c \in Nat : p <= q => p * c <= q * c
    OBVIOUS
  <1>9. (pass + JudgedLag) * ChunkSamples <= n
    <2>1. (pass + JudgedLag) * ChunkSamples <= whole * ChunkSamples
      BY <1>1, <1>3, <1>5, <1>7, <1>8
    <2>2. (pass + JudgedLag) * ChunkSamples \in Nat /\ whole * ChunkSamples \in Nat
      BY <1>1, <1>3, <1>5
    <2> QED
      BY <1>3, <1>5, <2>1, <2>2
  <1>10. pass <= n
    <2>1. \A p \in Nat, c \in Nat \ {0} : p <= p * c /\ p * c \in Nat
      OBVIOUS
    <2>2. whole <= n
      BY <1>3, <1>5, <2>1
    <2> QED
      BY <1>1, <1>3, <1>5, <1>7, <2>2
  <1> QED
    BY <1>1, <1>9, <1>10 DEF pass, n

\* What the generator hands to the encoder is of the types of the format's fields.
LEMMA PeaksFitFields ==
  ASSUME FieldsFit, CountFits, Cuts, GP!PInv,
         chunks_left + GP!taken = WholeChunks(SegmentLength), signature = SignatureMade
  PROVE  SP!PeaksTyped
  <1> SUFFICES ASSUME NEW b \in DOMAIN signature.peaks
               PROVE  signature.peaks[b] \in Seq(SP!TypedPeaks)
    BY DEF SP!PeaksTyped
  <1> DEFINE list == peaks[b]
             encoded == [k \in DOMAIN list |->
                           [pass |-> list[k].fft_pass_number,
                            magnitude |-> list[k].peak_magnitude,
                            bin |-> list[k].corrected_peak_frequency_bin]]
  <1>1. DOMAIN peaks = 0 .. 3 /\ \A c \in 0 .. 3 : peaks[c] \in Seq(GP!PeakRecords)
    BY DEF GP!PInv, GP!PeaksTyped, GP!Bands
  <1>2. b \in 0 .. 3 /\ signature.peaks[b] = encoded
    BY <1>1 DEF SignatureMade
  <1>3. \A k \in DOMAIN list : /\ list[k].fft_pass_number \in Nat
                               /\ list[k].fft_pass_number <= SegmentLength
    BY <1>2, PassInSegment
  <1>4. SegmentLength \in Nat /\ SegmentLength <= U32_MAX
    <2>1. (SAMPLE_RATE_HZ * 24) \div 100 \in Nat
      BY Widths
    <2> QED
      BY <2>1, SegmentInClip, Widths DEF CountFits
  <1>5. list \in Seq(GP!PeakRecords)
    BY <1>1, <1>2
  <1> HIDE DEF list
  <1>6. Len(list) \in Nat /\ DOMAIN list = 1 .. Len(list)
    BY <1>5
  <1>7. ASSUME NEW k \in 1 .. Len(list)
        PROVE  encoded[k] \in SP!TypedPeaks
    <2>1. list[k] \in GP!PeakRecords
      BY <1>5, <1>6
    <2>2. /\ list[k].peak_magnitude \in GP!Magnitudes
          /\ list[k].corrected_peak_frequency_bin \in GP!CorrectedBins
      BY <2>1, GP!PeakFields, PartsAssumed
    <2>3. list[k].peak_magnitude \in SP!HalfWords
      BY <2>2, MagnitudesCounted DEF GP!Magnitudes, SP!HalfWords, FieldsFit
    <2>4. list[k].corrected_peak_frequency_bin \in SP!HalfWords
      BY <2>2 DEF GP!CorrectedBins, SP!HalfWords
    <2>5. list[k].fft_pass_number \in SP!Words
      <3>1. list[k].fft_pass_number \in Nat /\ list[k].fft_pass_number <= SegmentLength
        BY <1>3, <1>6
      <3>2. SP!WordEnd \in Nat
        BY DEF SP!WordEnd
      <3> QED
        BY <1>4, <3>1, <3>2, Widths DEF SP!Words, FieldsFit
    <2>6. encoded[k] = [pass |-> list[k].fft_pass_number,
                        magnitude |-> list[k].peak_magnitude,
                        bin |-> list[k].corrected_peak_frequency_bin]
      BY <1>6
    <2> HIDE DEF encoded
    <2> QED
      BY ONLY <2>3, <2>4, <2>5, <2>6 DEF SP!TypedPeaks
  <1>8. encoded \in Seq(SP!TypedPeaks)
    <2>1. encoded \in [1 .. Len(list) -> SP!TypedPeaks]
      BY <1>6, <1>7
    <2> QED
      BY <1>6, <2>1
  <1> QED
    BY <1>2, <1>8

\* The header declares the segment, which the cast to u32 leaves as it is.
LEMMA HeaderTells ==
  ASSUME FieldsFit, CountFits, SP!FileFits, Cuts, SP!DeclaresSamples, encoding = "encoded",
         signature = SignatureMade
  PROVE  SP!WordAt(cursor, 40) = SegmentLength + (SAMPLE_RATE_HZ * 24) \div 100
  <1>1. (SAMPLE_RATE_HZ * 24) \div 100 \in Nat /\ U32_MAX \in Nat
    BY Widths
  <1>2. SegmentLength \in Nat /\ SegmentLength <= U32_MAX
    BY <1>1, SegmentInClip DEF CountFits
  <1>3. Cutter!NumberSamples = SegmentLength
    BY <1>1, <1>2 DEF Cutter!NumberSamples, SegmentLength
  <1>4. SP!PaddedSamples = SegmentLength + (SAMPLE_RATE_HZ * 24) \div 100
    BY <1>3 DEF SP!PaddedSamples, SignatureMade
  <1>5. SP!WordEnd \in Nat
    BY DEF SP!WordEnd
  <1>6. SP!PaddedSamples < SP!WordEnd
    BY <1>1, <1>2, <1>4, <1>5 DEF CountFits, FieldsFit
  <1> QED
    BY <1>4, <1>6 DEF SP!DeclaresSamples

LEMMA AnswerTells ==
  ASSUME FieldsFit, CountFits, SP!FileFits, JobInv, Told
  PROVE  FileTellsSegment
  <1> SUFFICES ASSUME answer.kind = "signature"
               PROVE  FileTellsSegment
    BY DEF FileTellsSegment
  <1>1. /\ SP!ReadsInv /\ SP!DeclaresSamples /\ encoding = "encoded"
        /\ signature = SignatureMade /\ chunks_left + GP!taken = WholeChunks(SegmentLength)
        /\ Cuts /\ GP!PInv
    BY DEF Told, JobInv, Made, InMaking
  <1> DEFINE bands == Encoder!BandsIn(cursor)
             offered == {b \in DOMAIN peaks : peaks[b] # <<>>}
             handed(b) == [k \in DOMAIN peaks[b] |->
                             [pass |-> peaks[b][k].fft_pass_number,
                              magnitude |-> peaks[b][k].peak_magnitude,
                              bin |-> peaks[b][k].corrected_peak_frequency_bin]]
             Found(read) ==
               /\ {read[i].band : i \in DOMAIN read} = offered
               /\ \A i, j \in DOMAIN read : i < j => read[i].band < read[j].band
               /\ \A i \in DOMAIN read : read[i].peaks = signature.peaks[read[i].band]
  <1>2. bands = SP!BandsIn(cursor)
    BY SameReader, Zenon
  <1>3. Encoder!WordAt(cursor, SamplesOffset) = SegmentLength + (SAMPLE_RATE_HZ * 24) \div 100
    <2>1. Encoder!WordAt(cursor, SamplesOffset) = SP!WordAt(cursor, SamplesOffset)
      BY SameReader, Zenon
    <2> QED
      BY <1>1, <2>1, HeaderTells DEF SamplesOffset
  <1>4. SP!PeaksTyped
    BY <1>1, PeaksFitFields
  <1>5. SP!ReadsBack
    BY <1>1, <1>4 DEF SP!ReadsInv
  <1>6. DOMAIN signature.peaks = offered /\ \A b \in offered : signature.peaks[b] = handed(b)
    BY <1>1 DEF SignatureMade
  <1>7. DOMAIN peaks = 0 .. 3 /\ \A b \in 0 .. 3 : peaks[b] \in Seq(GP!PeakRecords)
    BY <1>1 DEF GP!PInv, GP!PeaksTyped, GP!Bands
  <1> HIDE DEF bands
  <1>8. Found(bands)
    <2>1. Found(SP!BandsIn(cursor))
      BY <1>1, <1>5, <1>6, Zenon DEF SP!ReadsBack
    <2> HIDE DEF Found
    <2> QED
      BY <1>2, <2>1, Zenon
  <1>9. ASSUME NEW i \in DOMAIN bands
        PROVE  /\ Len(bands[i].peaks) = Len(peaks[bands[i].band])
               /\ \A k \in DOMAIN bands[i].peaks :
                    LET read == bands[i].peaks[k]
                        recorded == peaks[bands[i].band][k]
                    IN  /\ read.pass = recorded.fft_pass_number
                        /\ read.magnitude = recorded.peak_magnitude
                        /\ read.bin = recorded.corrected_peak_frequency_bin
                        /\ (read.pass + JudgedLag) * ChunkSamples <= SegmentLength
    <2> DEFINE b == bands[i].band
    <2>1. b \in offered
      BY <1>8
    <2>2. b \in 0 .. 3 /\ bands[i].peaks = handed(b)
      BY <1>6, <1>7, <1>8, <2>1
    <2> HIDE DEF b
    <2>3. peaks[b] \in Seq(GP!PeakRecords) /\ DOMAIN peaks[b] = 1 .. Len(peaks[b])
          /\ Len(peaks[b]) \in Nat
      BY <1>7, <2>2
    <2>4. DOMAIN handed(b) = DOMAIN peaks[b] /\ Len(handed(b)) = Len(peaks[b])
      BY <2>3
    <2>5. ASSUME NEW k \in DOMAIN handed(b)
          PROVE  /\ handed(b)[k].pass = peaks[b][k].fft_pass_number
                 /\ handed(b)[k].magnitude = peaks[b][k].peak_magnitude
                 /\ handed(b)[k].bin = peaks[b][k].corrected_peak_frequency_bin
                 /\ (handed(b)[k].pass + JudgedLag) * ChunkSamples <= SegmentLength
      <3>1. (peaks[b][k].fft_pass_number + JudgedLag) * ChunkSamples <= SegmentLength
        BY <1>1, <2>2, <2>4, <2>5, PassInSegment
      <3> QED
        BY <2>4, <3>1
    <2> HIDE DEF handed
    <2> QED
      BY <2>2, <2>4, <2>5 DEF b
  <1>10. FileTellsSegment
    BY <1>3, <1>8, <1>9, Zenon DEF FileTellsSegment, bands
  <1> QED
    BY <1>10

\* The file a job answers with declares the samples of its segment, and holds the
\* peaks of the generator: each band that has any once, in order, every peak with
\* its pass, magnitude and bin, and none of a pass that was judged after the
\* segment's whole chunks ran out.  So it is for any stream, clip and transform, as
\* long as a u32 can count the samples and say the file's size.
THEOREM AnswerTellsSegment ==
  Sizes /\ FieldsFit => (Spec => [](SP!FileFits /\ CountFits => FileTellsSegment))
  <1> SUFFICES ASSUME Sizes, FieldsFit
               PROVE  Spec => [](SP!FileFits /\ CountFits => FileTellsSegment)
    OBVIOUS
  <1>1. JobInv /\ JobInv' /\ Told /\ [Next]_vars => Told'
    BY ToldKeeps
  <1>2. Spec => []JobInv
    BY JobInvariance
  <1>3. JobInv /\ Told => (SP!FileFits /\ CountFits => FileTellsSegment)
    BY AnswerTells
  <1> QED
    BY <1>1, <1>2, <1>3, ToldAtFirst, PTL DEF Spec
=================================================================================
