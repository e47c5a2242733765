--------------------------- MODULE SignatureGenerator ---------------------------
(***************************************************************************)
(* The fingerprint loop of src/src/fingerprinting/algorithm.rs: every      *)
(* 128-sample chunk of the segment is one pass of `do_fft`,                *)
(* `do_peak_spreading` and, from the 46th pass on, `do_peak_recognition`.  *)
(*                                                                         *)
(* The state of the struct is kept: the ring of samples, the two rings of  *)
(* 256 spectra, their indexes and the pass counter.  A chunk of samples is *)
(* its number (-1 for the zeros the ring starts with) and a power is an    *)
(* integer level, since the code only compares powers and takes a monotone *)
(* function of them.  The Fourier transform is `Spectra`: the spectra the  *)
(* transform of a window may give.                                         *)
(*                                                                         *)
(* An operator whose name holds "_bug" is a mistake this code could have   *)
(* had; it stands beside the definition it would replace and is used by no *)
(* other definition.                                                       *)
(***************************************************************************)
EXTENDS Integers, Sequences

CONSTANTS
  ChunkCounts,     \* how many whole chunks a segment may hold
  WindowChunks,    \* chunks in the sample ring: 2048 / 128 = 16
  RingSize,        \* spectra in each ring: 256
  BinCount,        \* bins of one spectrum: 1025
  FirstBin,        \* first bin judged: 10
  LastBin,         \* last bin judged: 1014
  FormerOffsets,   \* how far back a spectrum is spread: {1, 3, 6}
  JudgedLag,       \* how far back the judged spectrum is: 46
  SpreadLag,       \* how far back the spread spectrum beside it is: 49
  NeighborOffsets, \* bins of that spread spectrum a peak must exceed
  OtherOffsets,    \* ring offsets of the other spread spectra compared
  PeakReach,       \* bins to either side a peak stands above: 10
  Levels,          \* the levels a power can take
  PowerFloor,      \* the level of the 1e-10 a spectrum never goes below
  Threshold,       \* the level of 1/64, below which nothing is a peak
  Magnitude(_),    \* ln, its floor and its scale, as integers
  Spectra(_)       \* the spectra the transform may give for a window

Bins == 0 .. BinCount - 1
Slots == 0 .. RingSize - 1
Positions == 0 .. WindowChunks - 1
Judged == FirstBin .. LastBin
Bands == 0 .. 3
NoChunk == -1
Silence == [b \in Bins |-> 0]

\* The window once `taken` chunks are in: the latest ones, oldest first, and
\* the zeros the ring started with where there are not that many.
LatestChunks(taken) ==
  [s \in Positions |->
     LET chunk == taken - WindowChunks + s IN IF chunk >= 0 THEN chunk ELSE NoChunk]

ASSUME SizesAssumption ==
  /\ ChunkCounts \subseteq Nat
  /\ WindowChunks \in Nat \ {0}
  /\ RingSize \in Nat \ {0}
  /\ BinCount \in Nat \ {0}
  /\ FirstBin \in Nat
  /\ LastBin \in Nat
  /\ JudgedLag \in 1 .. RingSize - 1
  /\ SpreadLag \in 1 .. RingSize - 1
  /\ FormerOffsets \subseteq 1 .. RingSize - 1
  /\ NeighborOffsets \subseteq Int
  /\ OtherOffsets \subseteq Int
  /\ PeakReach \in Nat

\* Every bin a judgement indexes exists, in the judged spectrum and, spread,
\* in the one beside it; and the offsets leave out no bin within reach.
ASSUME BinsAssumption ==
  /\ \A b \in Judged : b >= 1 /\ b + 1 < BinCount
  /\ \A b \in Judged, o \in NeighborOffsets : b + o \in 0 .. BinCount - 3
  /\ \A d \in -PeakReach .. PeakReach :
       d # 0 => \E o \in NeighborOffsets : d - o \in 0 .. 2

\* The judged spectrum was spread into the spectrum read beside it.
ASSUME LagAssumption == SpreadLag - JudgedLag \in FormerOffsets

ASSUME LevelsAssumption ==
  /\ Levels \subseteq Nat
  /\ 0 \in Levels
  /\ PowerFloor \in Levels
  /\ Threshold \in Levels \ {0}
  /\ \A l \in Levels : Magnitude(l) \in Nat
  /\ \A l, m \in Levels : l <= m => Magnitude(l) <= Magnitude(m)

ASSUME SpectraAssumption ==
  \A count \in ChunkCounts : \A taken \in 1 .. count :
    Spectra(LatestChunks(taken)) \subseteq [Bins -> Levels]

VARIABLES
  chunks_left,                  \* chunks of the segment not taken yet
  ring_buffer_of_samples,
  ring_buffer_of_samples_index, \* in chunks rather than in samples
  reordered_ring_buffer_of_samples,
  fft_outputs,
  fft_outputs_index,
  spread_fft_outputs,
  spread_fft_outputs_index,
  num_spread_ffts_done,
  bin_position,                 \* the last bin this recognition is done with
  peaks,                        \* frequency_band_to_sound_peaks
  pc

samples == <<ring_buffer_of_samples, ring_buffer_of_samples_index,
             reordered_ring_buffer_of_samples>>
ffts == <<fft_outputs, fft_outputs_index>>
spreads == <<spread_fft_outputs, spread_fft_outputs_index>>
vars == <<chunks_left, samples, ffts, spreads, num_spread_ffts_done,
          bin_position, peaks, pc>>

-------------------------------------------------------------------------------
\* `& 2047` and `& 255`, whose masks are one less than a power of two.
WrapSample(i) == i % WindowChunks
Wrap(i) == i % RingSize
Advance(i) == Wrap(i + 1)

Larger(a, b) == IF a >= b THEN a ELSE b

LargerRow(r, s) == [b \in Bins |-> Larger(r[b], s[b])]

\* The ring read from its index on, so from its oldest chunk to its latest.
Reordered_bug(ring, index) == [s \in Positions |-> ring[WrapSample(s + index + 1)]]
Reordered(ring, index) == [s \in Positions |-> ring[WrapSample(s + index)]]

SpreadRow_bug(row) ==
  [b \in Bins |-> IF b <= BinCount - 2 THEN Larger(row[b], row[b + 1]) ELSE row[b]]

\* Frequency-domain spreading: position p takes the largest of p, p + 1 and
\* p + 2, all three still unspread when the ascending loop reaches p.
SpreadRow(row) ==
  [b \in Bins |-> IF b <= BinCount - 3
                  THEN Larger(row[b], Larger(row[b + 1], row[b + 2]))
                  ELSE row[b]]

Init ==
  /\ chunks_left \in ChunkCounts
  /\ ring_buffer_of_samples = [s \in Positions |-> NoChunk]
  /\ ring_buffer_of_samples_index = 0
  /\ reordered_ring_buffer_of_samples = [s \in Positions |-> NoChunk]
  /\ fft_outputs = [s \in Slots |-> Silence]
  /\ fft_outputs_index = 0
  /\ spread_fft_outputs = [s \in Slots |-> Silence]
  /\ spread_fft_outputs_index = 0
  /\ num_spread_ffts_done = 0
  /\ bin_position = FirstBin - 1
  /\ peaks = [band \in Bands |-> <<>>]
  /\ pc = "fft"

\* The chunk `chunks_exact` hands over next goes into the ring, the ring is
\* read out oldest chunk first, and the spectrum of that is stored.
DoFft ==
  /\ pc = "fft"
  /\ chunks_left > 0
  /\ chunks_left' = chunks_left - 1
  /\ ring_buffer_of_samples' =
       [ring_buffer_of_samples EXCEPT ![ring_buffer_of_samples_index] = num_spread_ffts_done]
  /\ ring_buffer_of_samples_index' = WrapSample(ring_buffer_of_samples_index + 1)
  /\ reordered_ring_buffer_of_samples' =
       Reordered(ring_buffer_of_samples', ring_buffer_of_samples_index')
  /\ \E power \in Spectra(reordered_ring_buffer_of_samples') :
       fft_outputs' = [fft_outputs EXCEPT ![fft_outputs_index] =
                         [b \in Bins |-> Larger(power[b], PowerFloor)]]
  /\ fft_outputs_index' = Advance(fft_outputs_index)
  /\ pc' = "spread"
  /\ UNCHANGED <<spreads, num_spread_ffts_done, bin_position, peaks>>

FormerSlots_bug == {Wrap(spread_fft_outputs_index + 1 - o) : o \in FormerOffsets}
FormerSlots == {Wrap(spread_fft_outputs_index - o) : o \in FormerOffsets}

\* The newest spectrum is spread over frequency into its own slot and over
\* time into the slots of the passes before it; the caller then counts the
\* pass and recognises once 46 are done.
DoPeakSpreading ==
  /\ pc = "spread"
  /\ LET row == SpreadRow(fft_outputs[Wrap(fft_outputs_index - 1)])
     IN  spread_fft_outputs' =
           [s \in Slots |->
              CASE s \in FormerSlots -> LargerRow(spread_fft_outputs[s], row)
                [] s = spread_fft_outputs_index -> row
                [] OTHER -> spread_fft_outputs[s]]
  /\ spread_fft_outputs_index' = Advance(spread_fft_outputs_index)
  /\ num_spread_ffts_done' = num_spread_ffts_done + 1
  /\ pc' = IF num_spread_ffts_done' >= JudgedLag THEN "recognise" ELSE "fft"
  /\ bin_position' = FirstBin - 1
  /\ UNCHANGED <<chunks_left, samples, ffts, peaks>>

-------------------------------------------------------------------------------
\* do_peak_recognition

fft_minus_46 == fft_outputs[Wrap(fft_outputs_index - JudgedLag)]
fft_minus_49 == spread_fft_outputs[Wrap(spread_fft_outputs_index - SpreadLag)]

IsPeak_bug(b) ==
  LET level == fft_minus_46[b]
  IN  /\ level >= Threshold
      /\ level >= fft_minus_49[b - 1]
      /\ \A o \in NeighborOffsets : level >= fft_minus_49[b + o]

\* The three nested conditions a bin passes to be a peak.  The two maxima the
\* code accumulates from 0.0 are compared member by member, which is the same
\* because the level is at least Threshold, which is above 0.
IsPeak(b) ==
  LET level == fft_minus_46[b]
  IN  /\ level >= Threshold
      /\ level >= fft_minus_49[b - 1]
      /\ \A o \in NeighborOffsets : level > fft_minus_49[b + o]
      /\ \A o \in OtherOffsets :
           level > spread_fft_outputs[Wrap(spread_fft_outputs_index + o)][b - 1]

Variation1(b) ==
  2 * Magnitude(fft_minus_46[b]) - Magnitude(fft_minus_46[b - 1])
    - Magnitude(fft_minus_46[b + 1])

\* A quotient cast to an integer drops its fraction, and the NaN of 0 / 0
\* becomes 0.
Variation2(b) ==
  LET rise == 32 * (Magnitude(fft_minus_46[b + 1]) - Magnitude(fft_minus_46[b - 1]))
  IN  IF Variation1(b) = 0 THEN 0
      ELSE IF rise >= 0 THEN rise \div Variation1(b)
      ELSE -((-rise) \div Variation1(b))

CorrectedBin(b) == (64 * b + Variation2(b)) % 65536

\* Whole hertz of a corrected bin: 16000 / 2 / 1024 / 64 is 125 / 1024.
FrequencyHz(corrected) == (125 * corrected) \div 1024

BandOf(hz) ==
  CASE hz \in 250 .. 519 -> {0}
    [] hz \in 520 .. 1449 -> {1}
    [] hz \in 1450 .. 3499 -> {2}
    [] hz \in 3500 .. 5500 -> {3}
    [] OTHER -> {}

Peak_bug(b) ==
  [fft_pass_number |-> num_spread_ffts_done - SpreadLag,
   peak_magnitude |-> Magnitude(fft_minus_46[b]),
   corrected_peak_frequency_bin |-> CorrectedBin(b)]

Peak(b) ==
  [fft_pass_number |-> num_spread_ffts_done - JudgedLag,
   peak_magnitude |-> Magnitude(fft_minus_46[b]),
   corrected_peak_frequency_bin |-> CorrectedBin(b)]

\* The loop over the bins comes to `b` next with something to do.
NextPeak(b) ==
  /\ pc = "recognise"
  /\ b > bin_position
  /\ IsPeak(b)
  /\ \A c \in Judged : c > bin_position /\ IsPeak(c) => b <= c

\* assert!(peak_variation_1 >= 0.0), the last thing before a peak is placed.
JudgePeak(b) ==
  /\ NextPeak(b)
  /\ bin_position' = b
  /\ IF Variation1(b) < 0
     THEN pc' = "panicked" /\ UNCHANGED peaks
     ELSE /\ pc' = pc
          /\ peaks' = [band \in Bands |->
                         IF band \in BandOf(FrequencyHz(CorrectedBin(b)))
                         THEN Append(peaks[band], Peak(b)) ELSE peaks[band]]
  /\ UNCHANGED <<chunks_left, samples, ffts, spreads, num_spread_ffts_done>>

EndRecognition ==
  /\ pc = "recognise"
  /\ \A b \in Judged : b > bin_position => ~IsPeak(b)
  /\ pc' = "fft"
  /\ UNCHANGED <<chunks_left, samples, ffts, spreads, num_spread_ffts_done,
                 bin_position, peaks>>

Next ==
  \/ DoFft
  \/ DoPeakSpreading
  \/ \E b \in Judged : JudgePeak(b)
  \/ EndRecognition

Spec == Init /\ [][Next]_vars

-------------------------------------------------------------------------------
\* Chunks handed to `do_fft` so far.
taken == IF pc = "spread" THEN num_spread_ffts_done + 1 ELSE num_spread_ffts_done

\* Every variable keeps its type: in particular every index stays in its ring
\* through the masks of `do_fft` and `do_peak_spreading`.
TypeOK ==
  /\ chunks_left \in Nat
  /\ num_spread_ffts_done \in Nat
  /\ chunks_left + taken \in ChunkCounts
  /\ ring_buffer_of_samples \in [Positions -> Int]
  /\ ring_buffer_of_samples_index \in Positions
  /\ reordered_ring_buffer_of_samples \in [Positions -> Int]
  /\ fft_outputs \in [Slots -> [Bins -> Levels]]
  /\ fft_outputs_index \in Slots
  /\ spread_fft_outputs \in [Slots -> [Bins -> Levels]]
  /\ spread_fft_outputs_index \in Slots
  /\ bin_position \in Int
  /\ DOMAIN peaks = Bands
  /\ pc \in {"fft", "spread", "recognise", "panicked"}

\* Each transform sees the latest 2048 samples oldest first, with the zeros
\* the ring started with before them while the segment is shorter than that:
\* the ring write, its index and the reordering of `do_fft` agree.
WindowHoldsLatestChunks == reordered_ring_buffer_of_samples = LatestChunks(taken)

\* The two rings of spectra are written in step, so that one lag means the
\* same pass in both when `do_peak_recognition` reads them.
RingsInStep ==
  spread_fft_outputs_index = IF pc = "spread" THEN Wrap(fft_outputs_index - 1)
                             ELSE fft_outputs_index

\* What bin `b` is given when the spectrum of pass `o` after the one `a` passes
\* back is spread: the three bins from `b` up, or `b` alone in the last two.
RawOf(a, o, b) ==
  LET row == fft_outputs[Wrap(spread_fft_outputs_index - (a - o))]
  IN  IF b <= BinCount - 3 THEN {row[b], row[b + 1], row[b + 2]} ELSE {row[b]}

\* The passes after it that a spectrum `a` passes back has been spread over by.
SpreadBy(a) == {o \in FormerOffsets \cup {0} : o < a}

\* Every spread spectrum is the maximum over the raw spectra of its own pass
\* and of the passes 1, 3 and 6 after it that have been made, in its own bin
\* and the two above: nothing of a lap of the ring ago is left in it and no
\* pass after it is missed, whatever the order of the in-place writes.
SpreadRowsExact ==
  \A a \in 1 .. RingSize - 1, b \in Bins :
    LET raw == UNION {RawOf(a, o, b) : o \in SpreadBy(a)}
        spread == spread_fft_outputs[Wrap(spread_fft_outputs_index - a)][b]
    IN  spread \in raw /\ \A level \in raw : level <= spread

\* `assert!(peak_variation_1 >= 0.0)` never fails: a peak is never lower than
\* the mean of the two bins beside it.
AssertHolds == pc # "panicked"

\* What is recognised is a strict maximum of the pass it is recorded under,
\* over ten bins to either side, though the code only ever compares the raw
\* level with spread spectra of other passes.
PeaksAreLocalMaxima ==
  pc = "recognise" =>
    \A b \in Judged : IsPeak(b) =>
      \A d \in -PeakReach .. PeakReach : d # 0 => fft_minus_46[b] > fft_minus_46[b + d]

\* Within a band the peaks come in the order of their passes, which the encoder
\* asserts, and two of one pass are at least ten whole bins apart even after
\* the correction moved each by up to half a bin.
PeaksInOrder ==
  \A band \in Bands : \A l \in 2 .. Len(peaks[band]) :
    LET earlier == peaks[band][l - 1]
        later == peaks[band][l]
    IN  \/ earlier.fft_pass_number < later.fft_pass_number
        \/ /\ earlier.fft_pass_number = later.fft_pass_number
           /\ later.corrected_peak_frequency_bin - earlier.corrected_peak_frequency_bin
                >= 64 * PeakReach

\* A recorded peak carries the magnitude its pass has in a bin the correction
\* could have moved it from, for as long as the ring still holds that pass: the
\* pass number and the lag of the spectrum read are the same 46.
PeaksMatchTheirPass ==
  \A band \in Bands : \A k \in DOMAIN peaks[band] :
    LET peak == peaks[band][k]
    IN  peak.fft_pass_number + RingSize >= taken =>
          \E b \in Judged :
            /\ peak.corrected_peak_frequency_bin - 64 * b \in -32 .. 32
            /\ peak.peak_magnitude = Magnitude(fft_outputs[Wrap(peak.fft_pass_number)][b])
===============================================================================
