----------------------------- MODULE FingerprintJob -----------------------------
(***************************************************************************)
(* One job of a pool thread from stream to signature: `make_signature` of  *)
(* src/src/fingerprinting/algorithm.rs, then `get_signature_json` of       *)
(* src/src/fingerprinting/communication.rs.  It composes the modules of    *)
(* its parts, each on its own variables, in the order the two functions    *)
(* call them: the decoder and the resampler take turns, packet by packet;  *)
(* what they leave is cut, judged and encoded.                             *)
(*                                                                         *)
(* An operator whose name holds "_bug" is a mistake this code could have   *)
(* had; it stands beside the definition it would replace and is used by no *)
(* other definition.                                                       *)
(***************************************************************************)
EXTENDS Integers, Sequences, SequencesExt

CONSTANTS
  Streams, NoTrack, Nothing,                                \* PacketDecoder
  CHUNK_FRAMES, OutputDelay, OutputAfter(_), Expected(_),   \* Resampling
  MaxFrames,
  SAMPLE_RATE_HZ, DEFAULT_SEGMENT_SECONDS, U32_MAX,         \* Segment
  USIZE_MAXES, None,
  WindowChunks, RingSize, BinCount, FirstBin, LastBin,      \* SignatureGenerator
  FormerOffsets, JudgedLag, SpreadLag, NeighborOffsets, OtherOffsets, PeakReach,
  Levels, PowerFloor, Threshold, Magnitude(_), Spectra(_),
  Checksum(_),                                              \* SignatureFormat
  Durations,    \* segment durations a caller may ask for, or None
  Resamplable,  \* the specs of packets whose rate a resampler can be built for
  ChunkSamples  \* samples of one pass: 128

VARIABLES
  stream, position, link, track_decoder, short_error, spec, first_chunk, pushed, decoding,
  staged_frames, input_frame_count, calls, frames_to_trim, output, output_frame_count,
  resampling,
  usize_max, length, asked, segment, cutting,
  chunks_left, ring_buffer_of_samples, ring_buffer_of_samples_index,
  reordered_ring_buffer_of_samples, fft_outputs, fft_outputs_index, spread_fft_outputs,
  spread_fft_outputs_index, num_spread_ffts_done, bin_position, peaks, generating,
  signature, cursor, remaining, band, written, fft_pass_number, peaks_buffer, encoding,
  clock_works,  \* the clock of the machine is not before 1970
  stage,        \* the call the job is in
  answer

NoSignature == [sample_rate_hz |-> SAMPLE_RATE_HZ, number_samples |-> 0, peaks |-> <<>>]

\* chunks_exact drops what is left of a chunk.
WholeChunks_bug(samples) == (samples + ChunkSamples - 1) \div ChunkSamples
WholeChunks(samples) == samples \div ChunkSamples

Decoder == INSTANCE PacketDecoder WITH outcome <- decoding
Resampler == INSTANCE Resampling WITH pc <- resampling, PieceSizes <- 0 .. MaxFrames
Cutter == INSTANCE Segment WITH
  Lengths <- UNION {0 .. most : most \in USIZE_MAXES},
  PaddingSamples <- (SAMPLE_RATE_HZ * 24) \div 100
Generator == INSTANCE SignatureGenerator WITH
  pc <- generating,
  ChunkCounts <- UNION {0 .. WholeChunks(most) : most \in USIZE_MAXES}
Encoder == INSTANCE SignatureFormat WITH pc <- encoding, Signatures <- {NoSignature}

\* What each part assumes of its constants.
ASSUME PartsAssumption ==
  /\ Decoder!NothingAssumption /\ Decoder!StreamsAssumption
  /\ Resampler!SizesAssumption /\ Resampler!ExpectedAssumption
  /\ Cutter!WidthsAssumption
  /\ Generator!SizesAssumption /\ Generator!BinsAssumption /\ Generator!LagAssumption
  /\ Generator!LevelsAssumption /\ Generator!SpectraAssumption

\* A packet decodes to some number of frames, what is resampled is held in
\* memory, and 16 kHz is a rate the format has a number for.
ASSUME JobAssumption ==
  /\ \A s \in Streams : \A k \in DOMAIN s.events :
       s.events[k].kind = "packet" => s.events[k].frames \in Nat
  /\ \A frames \in 0 .. MaxFrames, most \in USIZE_MAXES : Expected(frames) <= most
  /\ ChunkSamples \in Nat \ {0}
  /\ SAMPLE_RATE_HZ \in DOMAIN Encoder!SampleRateId

decoder == <<stream, position, link, track_decoder, short_error, spec, first_chunk, pushed,
             decoding>>
resampler == <<staged_frames, input_frame_count, calls, frames_to_trim, output,
               output_frame_count, resampling>>
cut == <<usize_max, length, asked, segment, cutting>>
rings == <<ring_buffer_of_samples, ring_buffer_of_samples_index,
           reordered_ring_buffer_of_samples, fft_outputs, fft_outputs_index,
           spread_fft_outputs, spread_fft_outputs_index, num_spread_ffts_done, bin_position,
           peaks, generating>>
generator == <<chunks_left, rings>>
encoder == <<signature, cursor, remaining, band, written, fft_pass_number, peaks_buffer,
             encoding>>
job == <<clock_works, stage, answer>>
vars == <<decoder, resampler, cut, generator, encoder, job>>

Pending == [kind |-> "pending"]
Refused == [kind |-> "refused"]
Panicked == [kind |-> "panicked"]
Signature(samples) == [kind |-> "signature", samples |-> samples]

Init ==
  /\ Decoder!Init
  /\ Resampler!Init
  /\ usize_max \in USIZE_MAXES
  /\ length = 0
  /\ asked \in Durations
  /\ segment = [from |-> 0, upto |-> 0]
  /\ cutting = "decoded"
  /\ chunks_left = 0 /\ Generator!Init
  /\ Encoder!Init
  /\ clock_works \in BOOLEAN
  /\ stage = "opening"
  /\ answer = Pending

In(current) == stage = current /\ answer = Pending
Goto(next) == stage' = next /\ UNCHANGED <<clock_works, answer>>
Stay == UNCHANGED job
Answer(given) == answer' = given /\ UNCHANGED <<clock_works, stage>>

\* A failed assertion unwinds the thread.
StayUnless(panicked) == IF panicked THEN Answer(Panicked) ELSE Stay

-------------------------------------------------------------------------------
(* pcm_samples *)

\* What the reader and the decoder may do without handing a chunk over.
DecoderStep ==
  \/ Decoder!Open \/ Decoder!EndOfStream \/ Decoder!ReaderFails \/ Decoder!Reopen
  \/ Decoder!SkipPacket \/ Decoder!RefuseShortPacket \/ Decoder!DecodeShort
  \/ Decoder!DecodeDamaged \/ Decoder!DecodeFirst

Read ==
  /\ In("opening") \/ (In("pushing") /\ resampling = "idle")
  /\ DecoderStep
  /\ UNCHANGED <<resampler, cut, generator, encoder>> /\ Stay

\* Resampling::new at the rate the first packet decoded under.
BuildResampling ==
  /\ In("opening")
  /\ first_chunk # Nothing
  /\ IF spec \in Resamplable THEN Goto("pushing") ELSE Answer(Refused)
  /\ UNCHANGED <<decoder, resampler, cut, generator, encoder>>

\* The chunk `next_chunk` hands over is pushed before the next is asked for.
HandOver ==
  /\ In("pushing") /\ resampling = "idle"
  /\ Decoder!TakeFirstChunk \/ Decoder!DecodeNext
  /\ IF pushed' = pushed THEN UNCHANGED resampler
     ELSE Resampler!Push(Decoder!FramesOf(Last(pushed')))
  /\ UNCHANGED <<cut, generator, encoder>> /\ Stay

Resample ==
  /\ In("pushing") \/ In("finishing")
  /\ \/ Resampler!ResampleWhole \/ Resampler!PushReturns
     \/ Resampler!ResamplePartial \/ Resampler!Flush \/ Resampler!Truncate
  /\ UNCHANGED <<decoder, cut, generator, encoder>> /\ Stay

\* An error of the decoder ends the job, and with it all that was resampled.
DecoderRefuses ==
  /\ In("opening") \/ In("pushing")
  /\ decoding \notin {"opening", "reading", "finished"}
  /\ Answer(Refused)
  /\ UNCHANGED <<decoder, resampler, cut, generator, encoder>>

FinishResampling ==
  /\ In("pushing")
  /\ decoding = "finished"
  /\ Resampler!Finish
  /\ UNCHANGED <<decoder, cut, generator, encoder>>
  /\ Goto("finishing")

-------------------------------------------------------------------------------
(* The rest of make_signature *)

SamplesReturned ==
  /\ In("finishing")
  /\ resampling = "done"
  /\ length' = output.upto - output.from
  /\ UNCHANGED <<decoder, resampler, usize_max, asked, segment, cutting, generator, encoder>>
  /\ Goto("decoded")

Cut ==
  /\ In("decoded")
  /\ Cutter!MiddleSegment
  /\ UNCHANGED <<decoder, resampler, generator, encoder>>
  /\ Goto("cut")

SegmentLength == segment.upto - segment.from

StartGenerator ==
  /\ In("cut")
  /\ chunks_left' = WholeChunks(SegmentLength)
  /\ UNCHANGED <<decoder, resampler, cut, rings, encoder>>
  /\ Goto("generating")

Generate ==
  /\ In("generating")
  /\ Generator!Next
  /\ UNCHANGED <<decoder, resampler, cut, encoder>>
  /\ StayUnless(generating' = "panicked")

\* A band is in the map once it has a peak; all samples of the segment are
\* declared, those of a chunk that was dropped too, as far as a u32 can say it.
SignatureMade_bug ==
  [sample_rate_hz |-> SAMPLE_RATE_HZ,
   number_samples |-> length,
   peaks |-> [b \in {b \in DOMAIN peaks : peaks[b] # <<>>} |->
     [k \in DOMAIN peaks[b] |->
        [pass |-> peaks[b][k].fft_pass_number,
         magnitude |-> peaks[b][k].peak_magnitude,
         bin |-> peaks[b][k].corrected_peak_frequency_bin]]]]
SignatureMade ==
  [sample_rate_hz |-> SAMPLE_RATE_HZ,
   number_samples |-> Cutter!NumberSamples,
   peaks |-> [b \in {b \in DOMAIN peaks : peaks[b] # <<>>} |->
     [k \in DOMAIN peaks[b] |->
        [pass |-> peaks[b][k].fft_pass_number,
         magnitude |-> peaks[b][k].peak_magnitude,
         bin |-> peaks[b][k].corrected_peak_frequency_bin]]]]

GeneratorReturns ==
  /\ In("generating")
  /\ generating = "fft" /\ chunks_left = 0
  /\ signature' = SignatureMade
  /\ remaining' = Encoder!Sorted(DOMAIN SignatureMade.peaks)
  /\ UNCHANGED <<cursor, band, written, fft_pass_number, peaks_buffer, encoding>>
  /\ UNCHANGED <<decoder, resampler, cut, generator>>
  /\ Goto("stamping")

-------------------------------------------------------------------------------
(* get_signature_json *)

Stamp ==
  /\ In("stamping")
  /\ IF clock_works THEN Goto("encoding") ELSE Answer(Refused)
  /\ UNCHANGED <<decoder, resampler, cut, generator, encoder>>

Encode ==
  /\ In("encoding")
  /\ Encoder!Next
  /\ UNCHANGED <<decoder, resampler, cut, generator>>
  /\ StayUnless(encoding' = "panicked")

AnswerSignature ==
  /\ In("encoding")
  /\ encoding = "encoded"
  /\ Answer(Signature(signature.number_samples))
  /\ UNCHANGED <<decoder, resampler, cut, generator, encoder>>

PcmSamples ==
  Read \/ BuildResampling \/ HandOver \/ Resample \/ DecoderRefuses \/ FinishResampling
MakeSignature ==
  PcmSamples \/ SamplesReturned \/ Cut \/ StartGenerator \/ Generate \/ GeneratorReturns
GetSignatureJson == Stamp \/ Encode \/ AnswerSignature

\* The thread is given back; a job that stops anywhere else is a deadlock.
Terminating == answer # Pending /\ UNCHANGED vars

Next == MakeSignature \/ GetSignatureJson \/ Terminating

Spec == Init /\ [][Next]_vars

-------------------------------------------------------------------------------
(* Properties. *)

\* The job keeps the contract: its one answer is the verdict on the stream as a
\* whole, with as many samples as were asked for or as there are.  No assertion of
\* the generator or the encoder fails on the way, whatever the stages before made
\* for it.  (That it comes to an answer at all, no loop of a part waiting for what
\* another has stopped making, is that the job never deadlocks: no step of it is
\* ever undone.)
Contract == INSTANCE FingerprintContract
AnswersByVerdict == Contract!Spec

\* The bytes answered tell of the segment and of nothing else: the header
\* declares its samples, and a reader gets back the generator's peaks, each band
\* that has any once, each peak of a pass that was judged before the segment's
\* whole chunks ran out.
SamplesOffset == 40
FileTellsSegment ==
  answer.kind = "signature" =>
    LET bands == Encoder!BandsIn(cursor)
    IN  /\ Encoder!WordAt(cursor, SamplesOffset)
             = SegmentLength + (SAMPLE_RATE_HZ * 24) \div 100
        /\ {bands[i].band : i \in DOMAIN bands} = {b \in DOMAIN peaks : peaks[b] # <<>>}
        /\ \A i, j \in DOMAIN bands : i < j => bands[i].band < bands[j].band
        /\ \A i \in DOMAIN bands :
             /\ Len(bands[i].peaks) = Len(peaks[bands[i].band])
             /\ \A k \in DOMAIN bands[i].peaks :
                  LET read == bands[i].peaks[k]
                      recorded == peaks[bands[i].band][k]
                  IN  /\ read.pass = recorded.fft_pass_number
                      /\ read.magnitude = recorded.peak_magnitude
                      /\ read.bin = recorded.corrected_peak_frequency_bin
                      /\ (read.pass + JudgedLag) * ChunkSamples <= SegmentLength

\* "Nothing longer than one packet of the source is ever held beside the 16 kHz
\* result", but for the chunk the resampler waits to fill: however long the
\* stream, what is staged never exceeds the two together, and between packets
\* never more than the chunk.
HoldsOnePacket ==
  /\ pushed # <<>> => staged_frames <= CHUNK_FRAMES + Decoder!FramesOf(Last(pushed))
  /\ resampling = "idle" => staged_frames <= CHUNK_FRAMES
================================================================================
