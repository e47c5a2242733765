------------------------ MODULE SignatureGeneratorProofs ------------------------
(***************************************************************************)
(* What holds of the fingerprint loop for every ring size, lag, offset and *)
(* number of bins that meets the assumptions, and for every transform.     *)
(***************************************************************************)
EXTENDS SignatureGenerator, TLAPS

-------------------------------------------------------------------------------
\* Masked indexes.  A ring of `R` slots is read `a` slots before or `s` slots
\* after one of its indexes.

\* `(index - a) & mask` is the slot `a` before, around the start of the ring.
LEMMA BackModulo ==
  ASSUME NEW R \in Nat \ {0}, NEW i \in 0 .. R - 1, NEW a \in 0 .. R
  PROVE  (i - a) % R = IF i >= a THEN i - a ELSE i - a + R
  OBVIOUS

\* `(index + s) & mask` is the slot `s` after, around the end of the ring.
LEMMA OnModulo ==
  ASSUME NEW R \in Nat \ {0}, NEW i \in 0 .. R - 1, NEW s \in 0 .. R
  PROVE  (i + s) % R = IF i + s < R THEN i + s ELSE i + s - R
  OBVIOUS

\* Any masked index is a slot.
LEMMA InModulo ==
  ASSUME NEW R \in Nat \ {0}, NEW i \in Int
  PROVE  i % R \in 0 .. R - 1
  OBVIOUS

\* Any masked index into a ring of spectra is one of its slots.
LEMMA WrapInSlots == \A i \in Int : Wrap(i) \in Slots
  BY SizesAssumption, InModulo DEF Wrap, Slots

\* Going back from an index of the ring of spectra: the ages are different
\* slots, and one pass later each age is one more.
LEMMA WrapBack ==
  ASSUME NEW i \in Slots
  PROVE  /\ Advance(i) \in Slots
         /\ Wrap(i - 0) = i
         /\ Wrap(Advance(i) - 1) = i
         /\ \A a \in 1 .. RingSize - 1 : Wrap(i - a) # i
         /\ \A a, c \in 0 .. RingSize - 1 : Wrap(i - a) = Wrap(i - c) => a = c
         /\ \A a \in 1 .. RingSize : Wrap(Advance(i) - a) = Wrap(i - (a - 1))
<1> DEFINE R == RingSize
<1>1. R \in Nat \ {0} /\ i \in 0 .. R - 1
  BY SizesAssumption DEF Slots
<1> HIDE DEF R
<1>2. Advance(i) = IF i + 1 < R THEN i + 1 ELSE i + 1 - R
  <2>1. 1 \in 0 .. R
    BY <1>1
  <2>2. (i + 1) % R = IF i + 1 < R THEN i + 1 ELSE i + 1 - R
    BY ONLY <1>1, <2>1, OnModulo
  <2> QED
    BY <2>2 DEF Advance, Wrap, R
<1>3. Advance(i) \in 0 .. R - 1
  BY <1>1, <1>2
<1>4. \A a \in 0 .. R : Wrap(i - a) = IF i >= a THEN i - a ELSE i - a + R
  BY <1>1, BackModulo DEF Wrap, R
<1>5. \A a \in 0 .. R :
        Wrap(Advance(i) - a) = IF Advance(i) >= a THEN Advance(i) - a
                               ELSE Advance(i) - a + R
  BY <1>1, <1>3, BackModulo DEF Wrap, R
<1>7. Wrap(i - 0) = i
  BY <1>1, <1>4
<1>8. Wrap(Advance(i) - 1) = i
  BY <1>1, <1>2, <1>5
<1>9. \A a \in 1 .. R - 1 : Wrap(i - a) # i
  BY <1>1, <1>4
<1>10. \A a, c \in 0 .. R - 1 : Wrap(i - a) = Wrap(i - c) => a = c
  BY <1>1, <1>4
<1>11. \A a \in 1 .. R : Wrap(Advance(i) - a) = Wrap(i - (a - 1))
  <2> TAKE a \in 1 .. R
  <2>1. Wrap(i - (a - 1)) = IF i >= a - 1 THEN i - (a - 1) ELSE i - (a - 1) + R
    BY <1>1, <1>4
  <2>2. Wrap(Advance(i) - a) = IF Advance(i) >= a THEN Advance(i) - a
                               ELSE Advance(i) - a + R
    BY <1>1, <1>5
  <2> QED
    BY <1>1, <1>2, <2>1, <2>2
<1> QED
  BY <1>3, <1>7, <1>8, <1>9, <1>10, <1>11 DEF Slots, R

\* Reading the ring of samples on from its index: the reordering is one to one
\* and starts after the chunk written last.
LEMMA WrapSampleOn ==
  ASSUME NEW i \in Positions
  PROVE  LET next == WrapSample(i + 1)
         IN  /\ next \in Positions
             /\ \A s \in Positions : WrapSample(s + i) \in Positions
             /\ WrapSample((WindowChunks - 1) + next) = i
             /\ \A s \in 0 .. WindowChunks - 2 :
                  /\ WrapSample(s + next) = WrapSample((s + 1) + i)
                  /\ WrapSample(s + next) # i
<1> DEFINE R == WindowChunks
           next == WrapSample(i + 1)
<1>1. R \in Nat \ {0} /\ i \in 0 .. R - 1
  BY SizesAssumption DEF Positions
<1>2. \A j \in 0 .. R - 1, s \in 0 .. R : (s + j) % R = IF s + j < R THEN s + j ELSE s + j - R
  <2> TAKE j \in 0 .. R - 1, s \in 0 .. R
  <2> HIDE DEF R
  <2>1. s + j = j + s
    BY <1>1
  <2>2. (j + s) % R = IF j + s < R THEN j + s ELSE j + s - R
    BY ONLY <1>1, OnModulo
  <2> QED
    BY <1>1, <2>1, <2>2
<1>3. \A j \in 0 .. R - 1, s \in 0 .. R : WrapSample(s + j) = IF s + j < R THEN s + j ELSE s + j - R
  BY <1>2 DEF WrapSample
<1> HIDE DEF R
<1>4. next = IF i + 1 < R THEN i + 1 ELSE i + 1 - R
  <2>1. 1 + i = i + 1 /\ 1 \in 0 .. R
    BY <1>1
  <2>2. WrapSample(1 + i) = IF 1 + i < R THEN 1 + i ELSE 1 + i - R
    BY <1>1, <1>3, <2>1
  <2> QED
    BY <1>1, <2>1, <2>2
<1>5. next \in 0 .. R - 1
  BY <1>1, <1>4
<1> HIDE DEF next
<1>6. \A s \in 0 .. R - 1 : WrapSample(s + i) \in 0 .. R - 1
  BY <1>1, <1>3
<1>7. WrapSample((R - 1) + next) = i
  <2>1. R - 1 \in 0 .. R
    BY <1>1
  <2>2. WrapSample((R - 1) + next) = IF (R - 1) + next < R THEN (R - 1) + next
                                     ELSE (R - 1) + next - R
    BY <1>3, <1>5, <2>1
  <2> QED
    BY <1>1, <1>4, <2>2
<1>8. ASSUME NEW s \in 0 .. R - 2
      PROVE  WrapSample(s + next) = WrapSample((s + 1) + i) /\ WrapSample(s + next) # i
  <2>1. s \in 0 .. R /\ s + 1 \in 0 .. R
    BY <1>1
  <2>2. WrapSample(s + next) = IF s + next < R THEN s + next ELSE s + next - R
    BY <1>3, <1>5, <2>1
  <2>3. WrapSample((s + 1) + i) = IF (s + 1) + i < R THEN (s + 1) + i ELSE (s + 1) + i - R
    BY <1>1, <1>3, <2>1
  <2> QED
    BY <1>1, <1>4, <2>2, <2>3
<1> QED
  BY <1>5, <1>6, <1>7, <1>8 DEF R, next, Positions

-------------------------------------------------------------------------------
\* Spreading a spectrum over frequency keeps its type, and gives each bin the
\* maximum of what it is spread from.
LEMMA SpreadRowIsMaximum ==
  ASSUME NEW row \in [Bins -> Levels]
  PROVE  /\ SpreadRow(row) \in [Bins -> Levels]
         /\ \A b \in Bins :
              LET raw == IF b <= BinCount - 3 THEN {row[b], row[b + 1], row[b + 2]}
                         ELSE {row[b]}
              IN  SpreadRow(row)[b] \in raw /\ \A l \in raw : l <= SpreadRow(row)[b]
<1>1. ASSUME NEW b \in Bins
      PROVE  /\ row[b] \in Levels /\ row[b] \in Nat
             /\ b <= BinCount - 3 =>
                  /\ row[b + 1] \in Levels /\ row[b + 1] \in Nat
                  /\ row[b + 2] \in Levels /\ row[b + 2] \in Nat
  <2>1. b <= BinCount - 3 => b + 1 \in Bins /\ b + 2 \in Bins
    BY SizesAssumption DEF Bins
  <2> QED
    BY <2>1, LevelsAssumption
<1>2. SpreadRow(row) \in [Bins -> Levels]
  BY <1>1 DEF SpreadRow, Larger
<1>3. \A b \in Bins :
        SpreadRow(row)[b] = IF b <= BinCount - 3
                            THEN Larger(row[b], Larger(row[b + 1], row[b + 2]))
                            ELSE row[b]
  BY DEF SpreadRow
<1> QED
  BY <1>1, <1>2, <1>3 DEF Larger

\* The maximum of two spectra, bin by bin, keeps their type and is one of the two
\* and above both: what spreading over time stores.
LEMMA LargerRowIsMaximum ==
  ASSUME NEW r \in [Bins -> Levels], NEW s \in [Bins -> Levels]
  PROVE  /\ LargerRow(r, s) \in [Bins -> Levels]
         /\ \A b \in Bins : /\ LargerRow(r, s)[b] \in {r[b], s[b]}
                            /\ r[b] <= LargerRow(r, s)[b]
                            /\ s[b] <= LargerRow(r, s)[b]
<1>1. \A b \in Bins : r[b] \in Levels /\ s[b] \in Levels /\ r[b] \in Nat /\ s[b] \in Nat
  BY LevelsAssumption
<1>2. \A b \in Bins : LargerRow(r, s)[b] = IF r[b] >= s[b] THEN r[b] ELSE s[b]
  BY DEF LargerRow, Larger
<1>3. LargerRow(r, s) \in [Bins -> Levels]
  BY <1>1 DEF LargerRow, Larger
<1> QED
  BY <1>1, <1>2, <1>3

-------------------------------------------------------------------------------
\* The ring of samples itself, read from its index on, holds what the window
\* of the latest transform shows.
RingHoldsLatestChunks ==
  \A s \in Positions :
    ring_buffer_of_samples[WrapSample(s + ring_buffer_of_samples_index)]
      = LatestChunks(taken)[s]

\* What every step keeps, and what the properties follow from: the rings have
\* to be known exactly before a spread row can be.
IInv ==
  /\ TypeOK
  /\ RingHoldsLatestChunks
  /\ WindowHoldsLatestChunks
  /\ RingsInStep
  /\ SpreadRowsExact
  /\ AssertHolds

\* A power read from a raw spectrum is a natural number, in the bins above too.
LEMMA RawIsNat ==
  ASSUME TypeOK, NEW a \in 1 .. RingSize - 1, NEW o \in SpreadBy(a), NEW b \in Bins
  PROVE  /\ Wrap(spread_fft_outputs_index - (a - o)) \in Slots
         /\ RawOf(a, o, b) \subseteq Nat
<1>1. a - o \in Int
  BY SizesAssumption DEF SpreadBy
<1>2. Wrap(spread_fft_outputs_index - (a - o)) \in Slots
  <2>1. spread_fft_outputs_index \in Int
    BY SizesAssumption DEF TypeOK, Slots
  <2>2. spread_fft_outputs_index - (a - o) \in Int
    BY <1>1, <2>1
  <2> QED
    BY <2>2, WrapInSlots
<1>3. fft_outputs[Wrap(spread_fft_outputs_index - (a - o))] \in [Bins -> Levels]
  BY <1>2 DEF TypeOK
<1>4. b <= BinCount - 3 => b + 1 \in Bins /\ b + 2 \in Bins
  BY SizesAssumption DEF Bins
<1> QED
  BY <1>2, <1>3, <1>4, LevelsAssumption DEF RawOf

\* The zeros the rings start with are spread zeros, and no peak is judged in them.
LEMMA InitEstablishes == Init => IInv
<1> SUFFICES ASSUME Init PROVE IInv
  OBVIOUS
<1>1. Silence \in [Bins -> Levels]
  BY LevelsAssumption DEF Silence
<1>2. 0 \in Slots /\ 0 \in Positions /\ NoChunk \in Int
  BY SizesAssumption DEF Slots, Positions, NoChunk
<1>3. taken = 0 /\ chunks_left \in Nat /\ chunks_left + taken \in ChunkCounts
  BY SizesAssumption DEF Init, taken
<1>4. TypeOK
  BY <1>1, <1>2, <1>3, SizesAssumption DEF Init, TypeOK
<1>5. LatestChunks(taken) = [s \in Positions |-> NoChunk]
  BY <1>3, SizesAssumption DEF LatestChunks, Positions
<1>6. WindowHoldsLatestChunks
  BY <1>5 DEF Init, WindowHoldsLatestChunks
<1>7. RingHoldsLatestChunks
  BY <1>2, <1>5, WrapSampleOn DEF Init, RingHoldsLatestChunks
<1>8. SpreadRowsExact
  <2> SUFFICES ASSUME NEW a \in 1 .. RingSize - 1, NEW b \in Bins
               PROVE  LET raw == UNION {RawOf(a, o, b) : o \in SpreadBy(a)}
                          spread == spread_fft_outputs[Wrap(spread_fft_outputs_index - a)][b]
                      IN  spread \in raw /\ \A level \in raw : level <= spread
    BY DEF SpreadRowsExact
  <2>1. b <= BinCount - 3 => b + 1 \in Bins /\ b + 2 \in Bins
    BY SizesAssumption DEF Bins
  <2>2. \A c \in Bins : Silence[c] = 0
    BY DEF Silence
  <2>3. \A s \in Slots : fft_outputs[s] = Silence /\ spread_fft_outputs[s] = Silence
    BY DEF Init
  <2>4. \A o \in SpreadBy(a) : RawOf(a, o, b) = {0}
    BY <1>4, <2>1, <2>2, <2>3, RawIsNat DEF RawOf
  <2>5. 0 \in SpreadBy(a)
    BY DEF SpreadBy
  <2>6. Wrap(spread_fft_outputs_index - a) \in Slots
    BY WrapInSlots DEF Init
  <2>7. spread_fft_outputs[Wrap(spread_fft_outputs_index - a)][b] = 0
    BY <2>2, <2>3, <2>6
  <2>8. UNION {RawOf(a, o, b) : o \in SpreadBy(a)} = {0}
    BY <2>4, <2>5
  <2> QED
    BY <2>7, <2>8
<1> QED
  BY <1>2, <1>4, <1>6, <1>7, <1>8 DEF Init, IInv, RingsInStep, AssertHolds

\* The raw spectra a spread row came from and the row itself are the same as
\* long as the rings and the index they are counted from are.
LEMMA RowsUnchanged ==
  ASSUME SpreadRowsExact,
         fft_outputs' = fft_outputs,
         spread_fft_outputs' = spread_fft_outputs,
         spread_fft_outputs_index' = spread_fft_outputs_index
  PROVE  SpreadRowsExact'
<1>1. ASSUME NEW a, NEW o, NEW b PROVE RawOf(a, o, b)' = RawOf(a, o, b)
  BY DEF RawOf
<1> SUFFICES ASSUME NEW a \in 1 .. RingSize - 1, NEW b \in Bins
             PROVE  (LET raw == UNION {RawOf(a, o, b) : o \in SpreadBy(a)}
                         spread == spread_fft_outputs[Wrap(spread_fft_outputs_index - a)][b]
                     IN  spread \in raw /\ \A level \in raw : level <= spread)'
  BY DEF SpreadRowsExact
<1> QED
  BY <1>1 DEF SpreadRowsExact

-------------------------------------------------------------------------------
\* `do_fft` moves the window on by a chunk and the raw ring by a slot, and touches
\* no slot that a spread spectrum still in its ring came from.
LEMMA DoFftPreserves == IInv /\ DoFft => IInv'
<1> SUFFICES ASSUME IInv, DoFft PROVE IInv'
  OBVIOUS
<1> DEFINE i == ring_buffer_of_samples_index
           f == fft_outputs_index
<1>1. TypeOK /\ pc = "fft" /\ pc' = "spread" /\ f = spread_fft_outputs_index
  BY DEF IInv, DoFft, RingsInStep
<1>2. i \in Positions /\ f \in Slots /\ num_spread_ffts_done \in Nat
  BY <1>1 DEF TypeOK
<1>3. /\ taken = num_spread_ffts_done
      /\ taken' = taken + 1
      /\ chunks_left' + taken' = chunks_left + taken
      /\ taken' \in 1 .. chunks_left + taken
      /\ chunks_left' \in Nat
  BY <1>1 DEF taken, DoFft, TypeOK
\* The ring: the latest chunk is read last and the others one place earlier.
<1>4. ASSUME NEW s \in Positions
      PROVE  ring_buffer_of_samples'[WrapSample(s + i')] = LatestChunks(taken')[s]
  <2>1. i' = WrapSample(i + 1)
    BY DEF DoFft
  <2>2. ring_buffer_of_samples' = [ring_buffer_of_samples EXCEPT ![i] = num_spread_ffts_done]
    BY DEF DoFft
  <2>3. ring_buffer_of_samples \in [Positions -> Int]
    BY <1>1 DEF TypeOK
  <2>4. \A q \in Positions :
          ring_buffer_of_samples'[q] = IF q = i THEN num_spread_ffts_done
                                       ELSE ring_buffer_of_samples[q]
    BY <1>2, <2>2, <2>3
  <2>5. LatestChunks(taken')[s] = LET chunk == (taken + 1) - WindowChunks + s
                                  IN IF chunk >= 0 THEN chunk ELSE NoChunk
    BY <1>3 DEF LatestChunks
  <2>6. CASE s = WindowChunks - 1
    <3>1. WrapSample(s + i') = i
      BY <1>2, <2>1, <2>6, WrapSampleOn
    <3>2. LatestChunks(taken')[s] = num_spread_ffts_done
      BY <1>2, <1>3, <2>5, <2>6, SizesAssumption
    <3> QED
      BY <1>2, <2>4, <3>1, <3>2
  <2>7. CASE s # WindowChunks - 1
    <3>1. s \in 0 .. WindowChunks - 2 /\ s + 1 \in Positions
      BY <2>7, SizesAssumption DEF Positions
    <3>2. /\ WrapSample(s + i') = WrapSample((s + 1) + i)
          /\ WrapSample(s + i') # i
          /\ WrapSample((s + 1) + i) \in Positions
      BY <1>2, <2>1, <3>1, WrapSampleOn
    <3>3. ring_buffer_of_samples'[WrapSample(s + i')] = LatestChunks(taken)[s + 1]
      BY <2>4, <3>1, <3>2 DEF IInv, RingHoldsLatestChunks
    <3>4. LatestChunks(taken)[s + 1] = LET chunk == taken - WindowChunks + (s + 1)
                                       IN IF chunk >= 0 THEN chunk ELSE NoChunk
      BY <3>1 DEF LatestChunks
    <3>5. taken - WindowChunks + (s + 1) = (taken + 1) - WindowChunks + s
      BY <1>2, <1>3, SizesAssumption DEF Positions
    <3> QED
      BY <2>5, <3>3, <3>4, <3>5
  <2> QED
    BY <2>6, <2>7
<1>5. RingHoldsLatestChunks'
  BY <1>4 DEF RingHoldsLatestChunks
<1>6. reordered_ring_buffer_of_samples' = LatestChunks(taken')
  BY <1>4 DEF DoFft, Reordered, LatestChunks
<1>7. PICK power \in Spectra(LatestChunks(taken')) :
        fft_outputs' = [fft_outputs EXCEPT ![f] = [b \in Bins |-> Larger(power[b], PowerFloor)]]
  BY <1>6 DEF DoFft
<1>8. power \in [Bins -> Levels]
  <2>1. chunks_left + taken \in ChunkCounts
    BY <1>1 DEF TypeOK
  <2> QED
    BY <1>3, <2>1, SpectraAssumption
<1>9. fft_outputs' \in [Slots -> [Bins -> Levels]]
  <2>1. [b \in Bins |-> Larger(power[b], PowerFloor)] \in [Bins -> Levels]
    BY <1>8, LevelsAssumption DEF Larger
  <2> QED
    BY <1>1, <1>7, <2>1 DEF TypeOK
<1>10. TypeOK'
  <2>1. i' \in Positions
    BY <1>2, WrapSampleOn DEF DoFft
  <2>2. f' \in Slots
    BY <1>2, WrapBack DEF DoFft
  <2>3. LatestChunks(taken') \in [Positions -> Int]
    BY <1>2, <1>3, SizesAssumption DEF LatestChunks, Positions, NoChunk
  <2>4. ring_buffer_of_samples' \in [Positions -> Int]
    BY <1>1, <1>2 DEF DoFft, TypeOK
  <2>5. /\ spread_fft_outputs' = spread_fft_outputs
        /\ spread_fft_outputs_index' = spread_fft_outputs_index
        /\ num_spread_ffts_done' = num_spread_ffts_done
        /\ bin_position' = bin_position
        /\ peaks' = peaks
    BY DEF DoFft, spreads
  <2> QED
    BY <1>1, <1>3, <1>6, <1>9, <2>1, <2>2, <2>3, <2>4, <2>5 DEF TypeOK
<1>11. RingsInStep'
  <2>1. Wrap(Advance(f) - 1) = f
    BY <1>2, WrapBack
  <2>2. f' = Advance(f) /\ spread_fft_outputs_index' = spread_fft_outputs_index
    BY DEF DoFft, spreads
  <2> QED
    BY <1>1, <2>1, <2>2 DEF RingsInStep
\* The slot written is the one no spread row came from: the oldest.
<1>12. SpreadRowsExact'
  <2>1. ASSUME NEW a \in 1 .. RingSize - 1, NEW o \in SpreadBy(a), NEW b \in Bins
        PROVE  RawOf(a, o, b)' = RawOf(a, o, b)
    <3>1. a - o \in 1 .. RingSize - 1
      BY SizesAssumption DEF SpreadBy
    <3>2. Wrap(f - (a - o)) \in Slots /\ Wrap(f - (a - o)) # f
      BY <1>1, <1>2, <3>1, RawIsNat, WrapBack
    <3>3. fft_outputs'[Wrap(f - (a - o))] = fft_outputs[Wrap(f - (a - o))]
      BY <1>1, <1>7, <3>2 DEF TypeOK
    <3>4. spread_fft_outputs_index' = f
      BY <1>1 DEF DoFft, spreads
    <3> QED
      BY <1>1, <3>3, <3>4 DEF RawOf
  <2>2. /\ spread_fft_outputs' = spread_fft_outputs
        /\ spread_fft_outputs_index' = spread_fft_outputs_index
    BY DEF DoFft, spreads
  <2> SUFFICES ASSUME NEW a \in 1 .. RingSize - 1, NEW b \in Bins
               PROVE  (LET raw == UNION {RawOf(a, o, b) : o \in SpreadBy(a)}
                           spread == spread_fft_outputs[Wrap(spread_fft_outputs_index - a)][b]
                       IN  spread \in raw /\ \A level \in raw : level <= spread)'
    BY DEF SpreadRowsExact
  <2> QED
    BY <2>1, <2>2 DEF IInv, SpreadRowsExact
<1> QED
  BY <1>1, <1>5, <1>6, <1>10, <1>11, <1>12
  DEF IInv, WindowHoldsLatestChunks, AssertHolds

-------------------------------------------------------------------------------
\* `do_peak_spreading` adds the newest spectrum to the rows of its former passes
\* and starts its own row, and every other row is one pass older than it was.
LEMMA DoPeakSpreadingPreserves == IInv /\ DoPeakSpreading => IInv'
<1> SUFFICES ASSUME IInv, DoPeakSpreading PROVE IInv'
  OBVIOUS
<1> DEFINE i == spread_fft_outputs_index
           row == SpreadRow(fft_outputs[i])
<1>1. /\ TypeOK
      /\ pc = "spread"
      /\ i = Wrap(fft_outputs_index - 1)
      /\ pc' \in {"fft", "recognise"}
      /\ i' = Advance(i)
      /\ num_spread_ffts_done' = num_spread_ffts_done + 1
      /\ UNCHANGED <<chunks_left, samples, ffts, peaks>>
      /\ bin_position' = FirstBin - 1
  BY DEF IInv, DoPeakSpreading, RingsInStep
<1>2. /\ i \in Slots
      /\ i' \in Slots
      /\ fft_outputs_index \in Slots
      /\ num_spread_ffts_done \in Nat
      /\ fft_outputs[i] \in [Bins -> Levels]
  BY <1>1, WrapBack DEF TypeOK
<1>3. row \in [Bins -> Levels]
  BY <1>2, SpreadRowIsMaximum
<1>4. spread_fft_outputs' =
        [s \in Slots |->
           CASE s \in FormerSlots -> LargerRow(spread_fft_outputs[s], row)
             [] s = i -> row
             [] OTHER -> spread_fft_outputs[s]]
  BY <1>1 DEF DoPeakSpreading
<1> HIDE DEF row
<1>5. spread_fft_outputs' \in [Slots -> [Bins -> Levels]]
  <2>1. \A s \in Slots : spread_fft_outputs[s] \in [Bins -> Levels]
    BY <1>1 DEF TypeOK
  <2>2. \A s \in Slots : LargerRow(spread_fft_outputs[s], row) \in [Bins -> Levels]
    BY <1>3, <2>1, LargerRowIsMaximum
  <2> QED
    BY <1>3, <1>4, <2>1, <2>2
<1>6. taken' = taken /\ taken \in Nat
  BY <1>1, <1>2 DEF taken
<1>7. TypeOK'
  <2>1. bin_position' \in Int
    BY <1>1, SizesAssumption
  <2> QED
    BY <1>1, <1>2, <1>5, <1>6, <2>1 DEF TypeOK, samples, ffts
<1>8. RingHoldsLatestChunks' /\ WindowHoldsLatestChunks'
  BY <1>1, <1>6 DEF IInv, RingHoldsLatestChunks, WindowHoldsLatestChunks, samples
<1>9. RingsInStep'
  <2>1. fft_outputs_index' = fft_outputs_index
    BY <1>1 DEF ffts
  <2>2. Advance(Wrap(fft_outputs_index - 1)) = fft_outputs_index
    <3> DEFINE R == RingSize
               j == fft_outputs_index
    <3>1. R \in Nat \ {0} /\ j \in 0 .. R - 1 /\ 1 \in 0 .. R
      BY <1>2, SizesAssumption DEF Slots
    <3> HIDE DEF R, j
    <3>2. (j - 1) % R = IF j >= 1 THEN j - 1 ELSE j - 1 + R
      BY ONLY <3>1, BackModulo
    <3>3. (j - 1) % R \in 0 .. R - 1
      BY <3>1, <3>2
    <3>4. (((j - 1) % R) + 1) % R = IF ((j - 1) % R) + 1 < R THEN ((j - 1) % R) + 1
                                  ELSE ((j - 1) % R) + 1 - R
      BY ONLY <3>1, <3>3, OnModulo
    <3>5. (((j - 1) % R) + 1) % R = j
      BY <3>1, <3>2, <3>4
    <3> QED
      BY <3>5 DEF Advance, Wrap, R, j
  <2> QED
    BY <1>1, <2>1, <2>2 DEF RingsInStep
<1>10. SpreadRowsExact'
  <2> SUFFICES ASSUME NEW a \in 1 .. RingSize - 1, NEW b \in Bins
               PROVE  (LET raw == UNION {RawOf(a, o, b) : o \in SpreadBy(a)}
                           spread == spread_fft_outputs[Wrap(spread_fft_outputs_index - a)][b]
                       IN  spread \in raw /\ \A level \in raw : level <= spread)'
    BY DEF SpreadRowsExact
  <2> DEFINE new == IF b <= BinCount - 3
                    THEN {fft_outputs[i][b], fft_outputs[i][b + 1], fft_outputs[i][b + 2]}
                    ELSE {fft_outputs[i][b]}
  <2>1. row[b] \in new /\ \A l \in new : l <= row[b]
    BY <1>2, SpreadRowIsMaximum DEF row
  <2>2. \A o \in FormerOffsets \cup {0} : o \in 0 .. RingSize - 1
    BY SizesAssumption
  <2>3. fft_outputs' = fft_outputs
    BY <1>1 DEF ffts
  \* The row just made is the spectrum one pass back of the new index.
  <2>4. CASE a = 1
    <3>1. SpreadBy(a) = {0}
      BY <2>2, <2>4 DEF SpreadBy
    <3>2. Wrap(i' - a) = i /\ Wrap(i' - (a - 0)) = i
      BY <1>1, <1>2, <2>4, WrapBack
    <3>3. i \notin FormerSlots
      BY <1>2, SizesAssumption, WrapBack DEF FormerSlots
    <3>4. spread_fft_outputs'[i][b] = row[b]
      BY <1>2, <1>4, <3>3
    <3>5. RawOf(a, 0, b)' = new
      BY <2>3, <3>2 DEF RawOf
    <3>6. UNION {RawOf(a, o, b)' : o \in SpreadBy(a)} = new
      BY <3>1, <3>5
    <3>7. (UNION {RawOf(a, o, b) : o \in SpreadBy(a)})' = new
      BY <3>6 DEF SpreadBy
    <3> QED
      BY <2>1, <3>2, <3>4, <3>7
  \* An older one keeps what it came from, and takes in the new row when it is
  \* as far back as a former offset.
  <2>5. CASE a # 1
    <3> DEFINE c == a - 1
               s == Wrap(i - c)
               old == UNION {RawOf(c, o, b) : o \in SpreadBy(c)}
    <3>1. c \in 1 .. RingSize - 1 /\ c # 0
      BY <2>5, SizesAssumption
    <3>2. s \in Slots /\ s # i /\ Wrap(i' - a) = s
      <4>1. i - c \in Int
        BY <1>2, <3>1, SizesAssumption DEF Slots
      <4>2. a \in 1 .. RingSize
        BY SizesAssumption
      <4> QED
        BY <1>1, <1>2, <3>1, <4>1, <4>2, WrapBack, WrapInSlots
    <3>3. spread_fft_outputs[s][b] \in old /\ \A l \in old : l <= spread_fft_outputs[s][b]
      BY <3>1 DEF IInv, SpreadRowsExact
    <3>4. \A o \in SpreadBy(c) : o \in SpreadBy(a) /\ RawOf(a, o, b)' = RawOf(c, o, b)
      <4> TAKE o \in SpreadBy(c)
      <4>1. o \in SpreadBy(a)
        BY <2>2 DEF SpreadBy
      <4>2. a - o \in 1 .. RingSize /\ (a - o) - 1 = c - o
        BY <2>2, SizesAssumption DEF SpreadBy
      <4>3. Wrap(i' - (a - o)) = Wrap(i - (c - o))
        BY <1>1, <1>2, <4>2, WrapBack
      <4> QED
        BY <2>3, <4>1, <4>3 DEF RawOf
    <3>5. s \in FormerSlots <=> c \in FormerOffsets
      BY <1>2, <2>2, <3>1, WrapBack DEF FormerSlots
    <3>6. CASE c \in FormerOffsets
      <4>1. SpreadBy(a) = SpreadBy(c) \cup {c}
        BY <2>2, <3>1, <3>6 DEF SpreadBy
      <4>2. RawOf(a, c, b)' = new
        <5>1. a - c = 1
          BY <3>1
        <5>2. Wrap(i' - (a - c)) = i
          BY <1>1, <1>2, <5>1, WrapBack
        <5> QED
          BY <2>3, <5>2 DEF RawOf
      <4>3. \A l : l \in UNION {RawOf(a, o, b)' : o \in SpreadBy(a)}
                   <=> l \in old \/ l \in new
        BY <3>4, <4>1, <4>2
      <4>4. /\ spread_fft_outputs'[s][b] \in {spread_fft_outputs[s][b], row[b]}
            /\ spread_fft_outputs[s][b] <= spread_fft_outputs'[s][b]
            /\ row[b] <= spread_fft_outputs'[s][b]
        BY <1>1, <1>3, <1>4, <3>2, <3>5, <3>6, LargerRowIsMaximum DEF TypeOK
      <4>5. /\ \A l \in old : l \in Nat
            /\ \A l \in new : l \in Nat
            /\ spread_fft_outputs[s][b] \in Nat
            /\ row[b] \in Nat
            /\ spread_fft_outputs'[s][b] \in Nat
        <5>1. \A l \in old : l \in Nat
          BY <1>1, <3>1, RawIsNat
        <5>2. b <= BinCount - 3 => b + 1 \in Bins /\ b + 2 \in Bins
          BY SizesAssumption DEF Bins
        <5>3. \A l \in new : l \in Nat
          BY <1>2, <5>2, LevelsAssumption
        <5> QED
          BY <2>1, <3>3, <4>4, <5>1, <5>3
      <4>6. \A l \in old : l <= spread_fft_outputs'[s][b]
        <5> TAKE l \in old
        <5>1. l \in Nat /\ l <= spread_fft_outputs[s][b]
          BY <3>3, <4>5
        <5> QED
          BY <4>4, <4>5, <5>1
      <4>7. \A l \in new : l <= spread_fft_outputs'[s][b]
        BY <2>1, <4>4, <4>5
      <4>8. spread_fft_outputs'[s][b] \in old \/ spread_fft_outputs'[s][b] \in new
        BY <2>1, <3>3, <4>4
      <4> QED
        BY <3>2, <4>3, <4>6, <4>7, <4>8 DEF SpreadBy
    <3>7. CASE c \notin FormerOffsets
      <4>1. SpreadBy(a) = SpreadBy(c)
        BY <2>2, <3>1, <3>7 DEF SpreadBy
      <4>2. \A l : l \in UNION {RawOf(a, o, b)' : o \in SpreadBy(a)} <=> l \in old
        BY <3>4, <4>1
      <4>3. spread_fft_outputs'[s] = spread_fft_outputs[s]
        BY <1>4, <3>2, <3>5, <3>7
      <4> HIDE DEF old
      <4> QED
        BY <3>2, <3>3, <4>2, <4>3 DEF SpreadBy
    <3> QED
      BY <3>6, <3>7
  <2> QED
    BY <2>4, <2>5
<1> QED
  BY <1>1, <1>7, <1>8, <1>9, <1>10 DEF IInv, AssertHolds

-------------------------------------------------------------------------------
\* While a pass is recognised the spread row read beside the judged spectrum is
\* nowhere below it, in the same bin and in the two above.
LEMMA SpreadBesideJudged ==
  ASSUME IInv, pc = "recognise"
  PROVE  /\ fft_minus_46 \in [Bins -> Levels]
         /\ fft_minus_49 \in [Bins -> Levels]
         /\ \A c \in 0 .. BinCount - 3, k \in 0 .. 2 :
              fft_minus_46[c + k] <= fft_minus_49[c]
<1> DEFINE gap == SpreadLag - JudgedLag
<1>1. TypeOK /\ spread_fft_outputs_index = fft_outputs_index
  BY DEF IInv, RingsInStep
<1>2. /\ SpreadLag \in 1 .. RingSize - 1
      /\ SpreadLag - gap = JudgedLag
      /\ gap \in SpreadBy(SpreadLag)
  BY SizesAssumption, LagAssumption DEF SpreadBy
<1>3. fft_minus_46 \in [Bins -> Levels] /\ fft_minus_49 \in [Bins -> Levels]
  <2>1. \A lag \in 1 .. RingSize - 1 : fft_outputs_index - lag \in Int
    BY <1>1, SizesAssumption DEF TypeOK, Slots
  <2>2. \A lag \in 1 .. RingSize - 1 : Wrap(fft_outputs_index - lag) \in Slots
    BY <2>1, WrapInSlots
  <2> QED
    BY <1>1, <2>2, SizesAssumption DEF TypeOK, fft_minus_46, fft_minus_49
<1>4. ASSUME NEW c \in 0 .. BinCount - 3, NEW k \in 0 .. 2
      PROVE  fft_minus_46[c + k] <= fft_minus_49[c]
  <2>1. c \in Bins /\ c <= BinCount - 3 /\ c + k \in {c, c + 1, c + 2}
    BY SizesAssumption DEF Bins
  <2>2. \A level \in RawOf(SpreadLag, gap, c) : level <= fft_minus_49[c]
    BY <1>2, <2>1 DEF IInv, SpreadRowsExact, fft_minus_49
  <2>3. RawOf(SpreadLag, gap, c)
          = {fft_minus_46[c], fft_minus_46[c + 1], fft_minus_46[c + 2]}
    BY <1>1, <1>2, <2>1 DEF RawOf, fft_minus_46
  <2>4. c + 0 = c
    BY <2>1 DEF Bins
  <2> QED
    BY <2>1, <2>2, <2>3, <2>4
<1> QED
  BY <1>3, <1>4

\* So a peak is at least as high as the bins beside it.
LEMMA PeakVariationIsNat ==
  ASSUME IInv, pc = "recognise", NEW b \in Judged, IsPeak(b)
  PROVE  Variation1(b) >= 0
<1>1. /\ b \in Bins /\ b - 1 \in Bins /\ b + 1 \in Bins
      /\ b - 1 \in 0 .. BinCount - 3
      /\ (b - 1) + 0 = b - 1 /\ (b - 1) + 2 = b + 1
  BY SizesAssumption, BinsAssumption DEF Judged, Bins
<1>2. /\ fft_minus_46[b - 1] <= fft_minus_49[b - 1]
      /\ fft_minus_46[b + 1] <= fft_minus_49[b - 1]
  <2>1. fft_minus_46[(b - 1) + 0] <= fft_minus_49[b - 1]
    BY <1>1, SpreadBesideJudged
  <2>2. fft_minus_46[(b - 1) + 2] <= fft_minus_49[b - 1]
    BY <1>1, SpreadBesideJudged
  <2> QED
    BY <1>1, <2>1, <2>2
<1>3. fft_minus_49[b - 1] <= fft_minus_46[b]
  <2>1. /\ fft_minus_46[b] \in Levels
        /\ fft_minus_49[b - 1] \in Levels
    BY <1>1, SpreadBesideJudged
  <2>2. fft_minus_46[b] >= fft_minus_49[b - 1]
    BY DEF IsPeak
  <2> QED
    BY <2>1, <2>2, LevelsAssumption
<1>4. /\ fft_minus_46[b] \in Levels
      /\ fft_minus_46[b - 1] \in Levels
      /\ fft_minus_46[b + 1] \in Levels
      /\ fft_minus_49[b - 1] \in Levels
  BY <1>1, SpreadBesideJudged
<1>5. fft_minus_46[b - 1] <= fft_minus_46[b] /\ fft_minus_46[b + 1] <= fft_minus_46[b]
  <2>1. /\ fft_minus_46[b] \in Nat
        /\ fft_minus_46[b - 1] \in Nat
        /\ fft_minus_46[b + 1] \in Nat
        /\ fft_minus_49[b - 1] \in Nat
    BY <1>4, LevelsAssumption
  <2> QED
    BY ONLY <1>2, <1>3, <2>1
<1>6. /\ Magnitude(fft_minus_46[b - 1]) <= Magnitude(fft_minus_46[b])
      /\ Magnitude(fft_minus_46[b + 1]) <= Magnitude(fft_minus_46[b])
      /\ Magnitude(fft_minus_46[b]) \in Nat
      /\ Magnitude(fft_minus_46[b - 1]) \in Nat
      /\ Magnitude(fft_minus_46[b + 1]) \in Nat
  BY <1>4, <1>5, LevelsAssumption
<1> QED
  BY <1>6 DEF Variation1

\* A step that reads the rings and writes none of them keeps the invariant, given
\* that it does not fail the assertion.
LEMMA RecognitionPreserves ==
  ASSUME IInv, pc = "recognise", pc' \in {"recognise", "fft"},
         UNCHANGED <<chunks_left, samples, ffts, spreads, num_spread_ffts_done>>,
         bin_position' \in Int, DOMAIN peaks' = Bands
  PROVE  IInv'
<1>1. taken' = taken
  BY DEF taken
<1>2. TypeOK'
  BY <1>1 DEF IInv, TypeOK, samples, ffts, spreads
<1>3. RingHoldsLatestChunks' /\ WindowHoldsLatestChunks'
  BY <1>1 DEF IInv, RingHoldsLatestChunks, WindowHoldsLatestChunks, samples
<1>4. RingsInStep'
  BY DEF IInv, RingsInStep, ffts, spreads
<1>5. SpreadRowsExact'
  BY RowsUnchanged DEF IInv, ffts, spreads
<1> QED
  BY <1>2, <1>3, <1>4, <1>5 DEF IInv, AssertHolds

\* `do_peak_recognition` records a peak: by PeakVariationIsNat the assertion holds.
LEMMA JudgePeakPreserves ==
  ASSUME IInv, NEW b \in Judged, JudgePeak(b)
  PROVE  IInv'
<1>1. pc = "recognise" /\ IsPeak(b)
  BY DEF JudgePeak, NextPeak
<1>2. b \in Int /\ Variation1(b) \in Int
  <2>1. b \in Bins /\ b - 1 \in Bins /\ b + 1 \in Bins
    BY SizesAssumption, BinsAssumption DEF Judged, Bins
  <2>2. \A c \in {b, b - 1, b + 1} : Magnitude(fft_minus_46[c]) \in Nat
    BY <1>1, <2>1, SpreadBesideJudged, LevelsAssumption
  <2> QED
    BY <2>1, <2>2 DEF Variation1, Bins
<1>3. ~(Variation1(b) < 0)
  BY <1>1, <1>2, PeakVariationIsNat
<1>4. pc' = pc /\ DOMAIN peaks' = Bands
  BY <1>3 DEF JudgePeak
<1> QED
  BY <1>1, <1>2, <1>4, RecognitionPreserves DEF JudgePeak

\* No bin is left to judge: the loop goes on to the next chunk.
LEMMA EndRecognitionPreserves == IInv /\ EndRecognition => IInv'
  BY RecognitionPreserves DEF EndRecognition, IInv, TypeOK

\* A step of something else keeps it too.
LEMMA StutterPreserves == IInv /\ UNCHANGED vars => IInv'
<1> SUFFICES ASSUME IInv, UNCHANGED vars PROVE IInv'
  OBVIOUS
<1>1. taken' = taken
  BY DEF taken, vars
<1>2. TypeOK'
  BY <1>1 DEF IInv, TypeOK, vars, samples, ffts, spreads
<1>3. RingHoldsLatestChunks' /\ WindowHoldsLatestChunks'
  BY <1>1 DEF IInv, RingHoldsLatestChunks, WindowHoldsLatestChunks, vars, samples
<1>4. RingsInStep'
  BY DEF IInv, RingsInStep, vars, ffts, spreads
<1>5. SpreadRowsExact'
  BY RowsUnchanged DEF IInv, vars, ffts, spreads
<1> QED
  BY <1>2, <1>3, <1>4, <1>5 DEF IInv, AssertHolds, vars

-------------------------------------------------------------------------------
\* The strengthening holds of every behaviour: one step per action of the loop.
LEMMA Invariance == Spec => []IInv
<1>1. Init => IInv
  BY InitEstablishes
<1>2. IInv /\ [Next]_vars => IInv'
  <2> SUFFICES ASSUME IInv, [Next]_vars PROVE IInv'
    OBVIOUS
  <2>1. CASE DoFft
    BY <2>1, DoFftPreserves
  <2>2. CASE DoPeakSpreading
    BY <2>2, DoPeakSpreadingPreserves
  <2>3. CASE \E b \in Judged : JudgePeak(b)
    BY <2>3, JudgePeakPreserves
  <2>4. CASE EndRecognition
    BY <2>4, EndRecognitionPreserves
  <2>5. CASE UNCHANGED vars
    BY <2>5, StutterPreserves
  <2> QED
    BY <2>1, <2>2, <2>3, <2>4, <2>5 DEF Next
<1> QED
  BY <1>1, <1>2, PTL DEF Spec

\* Every masked index of `do_fft` and `do_peak_spreading` stays in its ring and
\* every power in its range, for a ring of any size.
THEOREM TypeCorrect == Spec => []TypeOK
<1>1. IInv => TypeOK
  BY DEF IInv
<1> QED
  BY <1>1, Invariance, PTL

\* The transform always sees the latest samples in the order they came.
THEOREM WindowCorrect == Spec => []WindowHoldsLatestChunks
<1>1. IInv => WindowHoldsLatestChunks
  BY DEF IInv
<1> QED
  BY <1>1, Invariance, PTL

\* A spread spectrum is exactly the maximum of what it was spread from.
THEOREM SpreadRowsCorrect == Spec => []SpreadRowsExact
<1>1. IInv => SpreadRowsExact
  BY DEF IInv
<1> QED
  BY <1>1, Invariance, PTL

\* The assertion of `do_peak_recognition` cannot fail.
THEOREM AssertNeverFails == Spec => []AssertHolds
<1>1. IInv => AssertHolds
  BY DEF IInv
<1> QED
  BY <1>1, Invariance, PTL

\* Standing above the spread rows beside it, a peak stands above the bins they
\* were spread from.
LEMMA LocalMaxima == IInv => PeaksAreLocalMaxima
<1> SUFFICES ASSUME IInv, pc = "recognise", NEW b \in Judged, IsPeak(b),
                    NEW d \in -PeakReach .. PeakReach, d # 0
             PROVE  fft_minus_46[b] > fft_minus_46[b + d]
  BY DEF PeaksAreLocalMaxima
<1>1. PICK o \in NeighborOffsets : d - o \in 0 .. 2
  BY BinsAssumption
<1>2. /\ b + o \in 0 .. BinCount - 3
      /\ b + o \in Bins /\ b \in Bins /\ b + d \in Bins
      /\ (b + o) + (d - o) = b + d
  BY <1>1, SizesAssumption, BinsAssumption DEF Judged, Bins
<1>3. fft_minus_46[b + d] <= fft_minus_49[b + o]
  <2>1. fft_minus_46[(b + o) + (d - o)] <= fft_minus_49[b + o]
    BY <1>1, <1>2, SpreadBesideJudged
  <2> QED
    BY <1>2, <2>1
<1>4. fft_minus_46[b] > fft_minus_49[b + o]
  BY <1>1 DEF IsPeak
<1>5. /\ fft_minus_46[b] \in Nat
      /\ fft_minus_46[b + d] \in Nat
      /\ fft_minus_49[b + o] \in Nat
  BY <1>2, SpreadBesideJudged, LevelsAssumption
<1> QED
  BY <1>3, <1>4, <1>5

\* Only strict local maxima of the judged pass are ever recognised.
THEOREM OnlyLocalMaxima == Spec => []PeaksAreLocalMaxima
  BY LocalMaxima, Invariance, PTL

-------------------------------------------------------------------------------
(* The recorded peaks: they come in the order the encoder asserts, and each*)
(* is of the pass it names.  The list of each band is followed here.  Two  *)
(* peaks of one pass are apart because each stands above the other's bin if*)
(* they are not; and a pass number names a slot because the ring's index is*)
(* the number of passes taken, masked.                                     *)

\* A corrected bin is a u16: 64 * 1014 + 32 fits it.
BinsFit == 64 * LastBin + 32 < 65536

JudgedPass == num_spread_ffts_done - JudgedLag

\* A magnitude is a level's, and a corrected bin is a u16.
Magnitudes == {Magnitude(l) : l \in Levels}
CorrectedBins == {n \in Nat : n < 65536}
PeakRecords == [fft_pass_number : Int, peak_magnitude : Magnitudes,
                corrected_peak_frequency_bin : CorrectedBins]

PeaksTyped == peaks \in [Bands -> Seq(PeakRecords)]

Latest(band) == peaks[band][Len(peaks[band])]

\* What a peak's corrected bin was corrected from.
From(bin, b) == bin - 64 * b \in -32 .. 32

\* The latest peak of a band is of an earlier pass than the next one's, or of
\* the same pass and of a bin this recognition is done with.
NextComesAfter ==
  \A band \in Bands : peaks[band] # <<>> =>
    /\ Latest(band).fft_pass_number <= JudgedPass
    /\ pc = "recognise" /\ Latest(band).fft_pass_number = JudgedPass =>
         \E c \in Judged : /\ c <= bin_position /\ IsPeak(c)
                           /\ From(Latest(band).corrected_peak_frequency_bin, c)

\* Slots are passes: the index is the next pass to be made, and every recorded
\* pass has been made and judged.
RingNumbered ==
  /\ fft_outputs_index = Wrap(taken)
  /\ pc = "recognise" => num_spread_ffts_done >= JudgedLag
  /\ \A band \in Bands : \A k \in DOMAIN peaks[band] :
       /\ peaks[band][k].fft_pass_number \in 0 .. taken - 1
       /\ peaks[band][k].fft_pass_number <= JudgedPass

\* What a recorded peak is made of.
LEMMA PeakFields ==
  ASSUME NEW peak \in PeakRecords
  PROVE  /\ peak.fft_pass_number \in Int /\ peak.peak_magnitude \in Magnitudes
         /\ peak.corrected_peak_frequency_bin \in CorrectedBins
         /\ peak.corrected_peak_frequency_bin \in Int
  <1>1. /\ peak.fft_pass_number \in Int /\ peak.peak_magnitude \in Magnitudes
        /\ peak.corrected_peak_frequency_bin \in CorrectedBins
    BY DEF PeakRecords
  <1>2. \A bin \in CorrectedBins : bin \in Int
    BY DEF CorrectedBins
  <1> QED
    BY <1>1, <1>2

PInv ==
  /\ IInv
  /\ PeaksTyped
  /\ NextComesAfter
  /\ PeaksInOrder
  /\ RingNumbered
  /\ PeaksMatchTheirPass

-------------------------------------------------------------------------------
(* Arithmetic. *)

\* A mask forgets the masks inside it.
LEMMA ModuloTwice ==
  ASSUME NEW R \in Nat \ {0}, NEW n \in Int, NEW k \in Int
  PROVE  ((n % R) + k) % R = (n + k) % R
  <1> DEFINE m == (n % R) + k
             laps == n \div R
             more == m \div R
             rest == m % R
  <1>1. n % R \in 0 .. R - 1 /\ laps \in Int /\ n = R * laps + (n % R)
    OBVIOUS
  <1>2. m \in Int /\ n + k = R * laps + m
    BY <1>1
  <1> HIDE DEF laps, m
  <1>3. rest \in 0 .. R - 1 /\ more \in Int /\ m = R * more + rest
    BY <1>2
  <1> HIDE DEF more, rest
  <1>4. R * laps + (R * more + rest) = R * (laps + more) + rest
    BY <1>1, <1>3
  <1>5. \A q \in Int, r \in 0 .. R - 1 : (R * q + r) % R = r
    OBVIOUS
  <1>6. (R * (laps + more) + rest) % R = rest
    <2>1. laps + more \in Int
      BY <1>1, <1>3
    <2> QED
      BY <1>3, <1>5, <2>1
  <1>7. n + k = R * (laps + more) + rest
    BY <1>2, <1>3, <1>4
  <1> QED
    BY <1>6, <1>7 DEF m, rest

\* A quotient is no larger than what its dividend is a multiple of at most.
LEMMA QuotientBound ==
  ASSUME NEW v \in Nat \ {0}, NEW r \in Nat, r <= 32 * v
  PROVE  r \div v \in 0 .. 32
  OBVIOUS

\* The slot `a` passes back from the index is that of the pass `a` before, and
\* no slot of a pass less than a lap ago is the one written next.
LEMMA SlotOfPass ==
  ASSUME NEW n \in Nat, NEW a \in 1 .. RingSize - 1
  PROVE  /\ Wrap(n - a) = Wrap(Wrap(n) - a)
         /\ Wrap(n - a) # Wrap(n)
         /\ Wrap(n + 1) = Advance(Wrap(n))
  <1>1. RingSize \in Nat \ {0} /\ n \in Int /\ -a \in Int /\ 1 \in Int
    BY SizesAssumption
  <1>2. Wrap(n) \in Slots
    BY <1>1, WrapInSlots
  <1>3. ((n % RingSize) + (-a)) % RingSize = (n + (-a)) % RingSize
    BY ONLY <1>1, ModuloTwice
  <1>4. Wrap(n) \in Int /\ n + (-a) = n - a /\ Wrap(n) + (-a) = Wrap(n) - a
    BY <1>1, <1>2, SizesAssumption DEF Slots
  <1>5. Wrap(n - a) = Wrap(Wrap(n) - a)
    BY <1>3, <1>4 DEF Wrap
  <1>6. Wrap(Wrap(n) - a) # Wrap(n)
    BY <1>2, WrapBack
  <1>7. ((n % RingSize) + 1) % RingSize = (n + 1) % RingSize
    BY ONLY <1>1, ModuloTwice
  <1> QED
    BY <1>5, <1>6, <1>7 DEF Wrap, Advance

\* What is below a modulus is its own remainder.
LEMMA SmallModulo ==
  ASSUME NEW n \in Int, NEW R \in Nat \ {0}, n >= 0, n < R
  PROVE  n % R = n
  OBVIOUS

\* A bin and its correction fit a u16, if the bin and half a bin do.
LEMMA CorrectionFits ==
  ASSUME NEW b \in Int, b >= 1, NEW v \in Int, v >= -32, v <= 32, 64 * b + 32 < 65536
  PROVE  (64 * b + v) % 65536 = 64 * b + v
  <1>1. 64 * b + v \in Int /\ 64 * b + v >= 0 /\ 64 * b + v < 65536
    OBVIOUS
  <1>2. 65536 \in Nat \ {0}
    OBVIOUS
  <1> QED
    BY ONLY <1>1, <1>2, SmallModulo

-------------------------------------------------------------------------------
(* What is recognised. *)

\* A peak is nowhere below the bins beside it.
LEMMA PeakAboveItsNeighbors ==
  ASSUME IInv, pc = "recognise", NEW b \in Judged, IsPeak(b)
  PROVE  /\ b \in Bins /\ b - 1 \in Bins /\ b + 1 \in Bins
         /\ \A c \in {b, b - 1, b + 1} :
              fft_minus_46[c] \in Levels /\ Magnitude(fft_minus_46[c]) \in Nat
         /\ Magnitude(fft_minus_46[b - 1]) <= Magnitude(fft_minus_46[b])
         /\ Magnitude(fft_minus_46[b + 1]) <= Magnitude(fft_minus_46[b])
<1>1. /\ b \in Bins /\ b - 1 \in Bins /\ b + 1 \in Bins
      /\ b - 1 \in 0 .. BinCount - 3
      /\ (b - 1) + 0 = b - 1 /\ (b - 1) + 2 = b + 1
  BY SizesAssumption, BinsAssumption DEF Judged, Bins
<1>2. /\ fft_minus_46[(b - 1) + 0] <= fft_minus_49[b - 1]
      /\ fft_minus_46[(b - 1) + 2] <= fft_minus_49[b - 1]
  BY <1>1, SpreadBesideJudged
<1>3. fft_minus_46[b] >= fft_minus_49[b - 1]
  BY DEF IsPeak
<1>4. /\ \A c \in {b, b - 1, b + 1} : fft_minus_46[c] \in Levels
      /\ fft_minus_49[b - 1] \in Levels
  BY <1>1, SpreadBesideJudged
<1>5. /\ \A c \in {b, b - 1, b + 1} : fft_minus_46[c] \in Nat
      /\ fft_minus_49[b - 1] \in Nat
  BY <1>4, LevelsAssumption
<1>6. fft_minus_46[b - 1] <= fft_minus_46[b] /\ fft_minus_46[b + 1] <= fft_minus_46[b]
  BY <1>1, <1>2, <1>3, <1>5
<1> QED
  BY <1>1, <1>4, <1>6, LevelsAssumption

\* Whatever fits a u16 is a corrected bin.
LEMMA WordIsBin ==
  ASSUME NEW n \in Int, n >= 0, n < 65536
  PROVE  n \in CorrectedBins
  BY DEF CorrectedBins

\* The parabola through a peak and its neighbours moves it by half a bin at most,
\* and the cast to u16 moves it nowhere.
LEMMA CorrectionIsSmall ==
  ASSUME BinsFit, IInv, pc = "recognise", NEW b \in Judged, IsPeak(b)
  PROVE  CorrectedBin(b) \in CorrectedBins /\ From(CorrectedBin(b), b)
<1> DEFINE top == Magnitude(fft_minus_46[b])
           below == Magnitude(fft_minus_46[b - 1])
           above == Magnitude(fft_minus_46[b + 1])
           rise == 32 * (above - below)
<1>1. top \in Nat /\ below \in Nat /\ above \in Nat /\ below <= top /\ above <= top
  BY PeakAboveItsNeighbors
<1>2. Variation1(b) = 2 * top - below - above
  BY DEF Variation1
<1>3. Variation2(b) = IF Variation1(b) = 0 THEN 0
                      ELSE IF rise >= 0 THEN rise \div Variation1(b)
                      ELSE -((-rise) \div Variation1(b))
  BY DEF Variation2
<1> HIDE DEF top, below, above
<1>4. Variation2(b) \in -32 .. 32
  <2>1. CASE Variation1(b) = 0
    BY <1>3, <2>1
  <2>2. CASE Variation1(b) # 0
    <3>1. Variation1(b) \in Nat \ {0}
      BY <1>1, <1>2, <2>2
    <3>2. CASE rise >= 0
      <4>1. rise \in Nat /\ rise <= 32 * Variation1(b)
        BY <1>1, <1>2, <3>2
      <4>2. rise \div Variation1(b) \in 0 .. 32
        BY <3>1, <4>1, QuotientBound
      <4> QED
        BY <1>3, <2>2, <3>2, <4>2
    <3>3. CASE ~(rise >= 0)
      <4>1. -rise \in Nat /\ -rise <= 32 * Variation1(b)
        BY <1>1, <1>2, <3>3
      <4> HIDE DEF rise
      <4>2. (-rise) \div Variation1(b) \in 0 .. 32
        BY <3>1, <4>1, QuotientBound
      <4> QED
        BY <1>3, <2>2, <3>3, <4>2
    <3> QED
      BY <3>2, <3>3
  <2> QED
    BY <2>1, <2>2
<1>5. b \in Int /\ b >= 1 /\ b <= LastBin /\ LastBin \in Nat
  BY SizesAssumption, BinsAssumption DEF Judged
<1>6. 64 * b + 32 < 65536
  BY <1>5 DEF BinsFit
<1> DEFINE v == Variation2(b)
<1>7. v \in Int /\ v >= -32 /\ v <= 32
  BY <1>4
<1> HIDE DEF v
<1>8. CorrectedBin(b) = 64 * b + v
  <2>1. (64 * b + v) % 65536 = 64 * b + v
    BY ONLY <1>5, <1>6, <1>7, CorrectionFits
  <2> QED
    BY <2>1 DEF CorrectedBin, v
<1>9. 64 * b + v \in Int /\ 64 * b + v >= 0 /\ 64 * b + v < 65536
  BY ONLY <1>5, <1>6, <1>7
<1>10. CorrectedBin(b) \in CorrectedBins
  BY ONLY <1>8, <1>9, WordIsBin
<1>11. (64 * b + v) - 64 * b \in -32 .. 32
  BY ONLY <1>5, <1>7
<1> QED
  BY <1>8, <1>10, <1>11 DEF From

\* Two peaks of one pass stand further apart than either reaches.
LEMMA PeaksStandApart ==
  ASSUME IInv, pc = "recognise", NEW b \in Judged, NEW c \in Judged,
         IsPeak(b), IsPeak(c), c < b
  PROVE  b - c > PeakReach
<1> SUFFICES ASSUME ~(b - c > PeakReach) PROVE FALSE
  OBVIOUS
<1>1. b \in Int /\ c \in Int /\ PeakReach \in Nat
  BY SizesAssumption DEF Judged
<1>2. /\ b - c \in -PeakReach .. PeakReach /\ b - c # 0
      /\ c - b \in -PeakReach .. PeakReach /\ c - b # 0
      /\ c + (b - c) = b /\ b + (c - b) = c
  BY <1>1
<1>3. PeaksAreLocalMaxima
  BY LocalMaxima
<1>4. \A d \in -PeakReach .. PeakReach : d # 0 =>
        /\ fft_minus_46[b] > fft_minus_46[b + d]
        /\ fft_minus_46[c] > fft_minus_46[c + d]
  BY <1>3 DEF PeaksAreLocalMaxima
<1>5. fft_minus_46[b] > fft_minus_46[c] /\ fft_minus_46[c] > fft_minus_46[b]
  BY <1>2, <1>4
<1>6. b \in Bins /\ c \in Bins
  BY PeakAboveItsNeighbors
<1>7. fft_minus_46[b] \in Levels /\ fft_minus_46[c] \in Levels
  BY <1>6, SpreadBesideJudged
<1>8. fft_minus_46[b] \in Nat /\ fft_minus_46[c] \in Nat
  BY <1>7, LevelsAssumption
<1> QED
  BY <1>5, <1>8

-------------------------------------------------------------------------------
(* What each step keeps. *)

\* The lists start empty.
LEMMA NoPeaksAtFirst == Init => PInv
<1> SUFFICES ASSUME Init PROVE PInv
  OBVIOUS
<1>1. IInv
  BY InitEstablishes
<1>2. \A band \in Bands : peaks[band] = <<>>
  BY DEF Init
<1>3. PeaksTyped /\ NextComesAfter
  BY <1>2 DEF Init, PeaksTyped, NextComesAfter
<1>4. PeaksInOrder /\ PeaksMatchTheirPass
  BY <1>2 DEF PeaksInOrder, PeaksMatchTheirPass
<1>5. RingNumbered
  <2>1. taken = 0 /\ Wrap(0) = 0
    BY SizesAssumption, SmallModulo DEF Init, taken, Wrap
  <2> QED
    BY <1>2, <2>1 DEF Init, RingNumbered
<1> QED
  BY <1>1, <1>3, <1>4, <1>5 DEF PInv

\* A step that writes no spectrum and records no peak keeps what the recorded
\* ones say.
LEMMA PeaksKept ==
  ASSUME PInv, taken' = taken, peaks' = peaks, UNCHANGED ffts
  PROVE  /\ PeaksTyped' /\ PeaksInOrder' /\ PeaksMatchTheirPass'
         /\ (fft_outputs_index = Wrap(taken))'
         /\ (\A band \in Bands : \A k \in DOMAIN peaks[band] :
               peaks[band][k].fft_pass_number \in 0 .. taken - 1)'
<1>1. fft_outputs' = fft_outputs /\ fft_outputs_index' = fft_outputs_index
  BY DEF ffts
<1>2. PeaksTyped' /\ PeaksInOrder'
  BY DEF PInv, PeaksTyped, PeaksInOrder
<1>3. PeaksMatchTheirPass'
  BY <1>1 DEF PInv, PeaksMatchTheirPass
<1> QED
  BY <1>1, <1>2, <1>3 DEF PInv, RingNumbered

\* `do_fft` overwrites the oldest spectrum, of which no peak is checked any more.
LEMMA DoFftKeepsPeaks == PInv /\ DoFft => PInv'
<1> SUFFICES ASSUME PInv, DoFft PROVE PInv'
  OBVIOUS
<1>1. IInv /\ IInv' /\ TypeOK
  BY DoFftPreserves DEF PInv, IInv
<1>2. /\ pc = "fft" /\ pc' = "spread" /\ peaks' = peaks
      /\ num_spread_ffts_done' = num_spread_ffts_done
      /\ num_spread_ffts_done \in Nat
      /\ taken = num_spread_ffts_done /\ taken' = taken + 1
  BY <1>1 DEF DoFft, taken, TypeOK
<1>3. taken \in Nat /\ RingSize \in Nat
  BY <1>2, SizesAssumption
<1>4. PeaksTyped' /\ PeaksInOrder'
  BY <1>2 DEF PInv, PeaksTyped, PeaksInOrder
<1>5. NextComesAfter'
  BY <1>2 DEF PInv, NextComesAfter, JudgedPass, Latest
<1>6. RingNumbered'
  <2>1. fft_outputs_index' = Advance(Wrap(taken))
    BY DEF DoFft, PInv, RingNumbered
  <2>2. 1 \in 1 .. RingSize - 1
    BY SizesAssumption
  <2>3. Wrap(taken + 1) = Advance(Wrap(taken))
    BY ONLY <1>3, <2>2, SlotOfPass
  <2> QED
    BY <1>2, <1>3, <2>1, <2>3 DEF PInv, RingNumbered, JudgedPass
<1>7. PeaksMatchTheirPass'
  <2> SUFFICES ASSUME NEW band \in Bands, NEW k \in DOMAIN peaks[band],
                      peaks[band][k].fft_pass_number + RingSize >= taken + 1
               PROVE  \E b \in Judged :
                        /\ peaks[band][k].corrected_peak_frequency_bin - 64 * b \in -32 .. 32
                        /\ peaks[band][k].peak_magnitude =
                             Magnitude(fft_outputs'[Wrap(peaks[band][k].fft_pass_number)][b])
    BY <1>2 DEF PeaksMatchTheirPass
  <2> DEFINE pass == peaks[band][k].fft_pass_number
             a == taken - pass
  <2>1. pass \in 0 .. taken - 1
    BY DEF PInv, RingNumbered
  <2>2. a \in 1 .. RingSize - 1 /\ taken - a = pass /\ pass + RingSize >= taken
    BY <1>3, <2>1
  <2>3. Wrap(pass) # fft_outputs_index
    <3> HIDE DEF a, pass
    <3>1. Wrap(taken - a) # Wrap(taken)
      BY ONLY <1>3, <2>2, SlotOfPass
    <3> QED
      BY <2>2, <3>1 DEF PInv, RingNumbered
  <2>4. fft_outputs'[Wrap(pass)] = fft_outputs[Wrap(pass)]
    <3>1. Wrap(pass) \in Slots
      BY <2>1, <1>3, WrapInSlots
    <3>2. PICK power : fft_outputs' = [fft_outputs EXCEPT ![fft_outputs_index] = power]
      BY DEF DoFft
    <3>3. fft_outputs \in [Slots -> [Bins -> Levels]]
      BY <1>1 DEF TypeOK
    <3> HIDE DEF pass
    <3> QED
      BY <2>3, <3>1, <3>2, <3>3
  <2>5. PICK b \in Judged :
          /\ peaks[band][k].corrected_peak_frequency_bin - 64 * b \in -32 .. 32
          /\ peaks[band][k].peak_magnitude = Magnitude(fft_outputs[Wrap(pass)][b])
    BY <2>2 DEF PInv, PeaksMatchTheirPass
  <2> QED
    BY <2>4, <2>5
<1> QED
  BY <1>1, <1>4, <1>5, <1>6, <1>7 DEF PInv

\* Counting a pass leaves every recorded peak to an earlier one.
LEMMA DoPeakSpreadingKeepsPeaks == PInv /\ DoPeakSpreading => PInv'
<1> SUFFICES ASSUME PInv, DoPeakSpreading PROVE PInv'
  OBVIOUS
<1>1. IInv /\ IInv' /\ TypeOK
  BY DoPeakSpreadingPreserves DEF PInv, IInv
<1>2. /\ peaks' = peaks /\ UNCHANGED ffts /\ taken' = taken
      /\ num_spread_ffts_done' = num_spread_ffts_done + 1
      /\ pc' = "recognise" => num_spread_ffts_done' >= JudgedLag
      /\ num_spread_ffts_done \in Nat
  BY <1>1 DEF DoPeakSpreading, taken, TypeOK
<1>3. NextComesAfter'
  <2>1. JudgedPass' = JudgedPass + 1 /\ JudgedPass \in Int
    BY <1>2, SizesAssumption DEF JudgedPass
  <2>2. ASSUME NEW band \in Bands, peaks[band] # <<>>
        PROVE  Latest(band)' = Latest(band) /\ Latest(band).fft_pass_number <= JudgedPass
               /\ Latest(band).fft_pass_number \in Int
    <3>1. peaks[band] \in Seq(PeakRecords)
      BY DEF PInv, PeaksTyped
    <3>2. Latest(band) \in PeakRecords
      BY <2>2, <3>1 DEF Latest
    <3>3. Latest(band).fft_pass_number \in Int
      BY <3>2, PeakFields
    <3> QED
      BY <1>2, <2>2, <3>3 DEF PInv, NextComesAfter, Latest
  <2>3. ASSUME NEW band \in Bands, peaks[band] # <<>>
        PROVE  (Latest(band).fft_pass_number < JudgedPass)'
    BY <2>1, <2>2, <2>3
  <2>4. ASSUME NEW band \in Bands, peaks[band] # <<>>
        PROVE  (Latest(band).fft_pass_number <= JudgedPass
                /\ Latest(band).fft_pass_number # JudgedPass)'
    BY <2>1, <2>2, <2>3, <2>4
  <2> QED
    BY <1>2, <2>4 DEF NextComesAfter
<1>4. RingNumbered'
  <2>1. /\ JudgedPass' = JudgedPass + 1 /\ JudgedPass \in Int
        /\ pc' = "recognise" => num_spread_ffts_done' >= JudgedLag
    BY <1>2, SizesAssumption DEF JudgedPass
  <2>2. ASSUME NEW band \in Bands, NEW k \in DOMAIN peaks[band]
        PROVE  peaks[band][k].fft_pass_number <= JudgedPass'
    <3>1. /\ peaks[band][k].fft_pass_number \in Int
          /\ peaks[band][k].fft_pass_number <= JudgedPass
      BY DEF PInv, RingNumbered
    <3> QED
      BY <2>1, <3>1
  <2> QED
    BY <1>2, <2>1, <2>2, PeaksKept DEF RingNumbered
<1> QED
  BY <1>1, <1>2, <1>3, <1>4, PeaksKept DEF PInv

\* A recorded peak goes after those of earlier passes and of the bins before it,
\* far enough from the last of them, and says what its pass's spectrum holds.
LEMMA JudgePeakKeepsPeaks ==
  ASSUME BinsFit, PInv, NEW b \in Judged, JudgePeak(b)
  PROVE  PInv'
<1> DEFINE new == Peak(b)
<1>1. IInv /\ IInv' /\ TypeOK /\ pc = "recognise" /\ IsPeak(b) /\ b > bin_position
  BY JudgePeakPreserves DEF PInv, IInv, JudgePeak, NextPeak
<1>2. pc' = "recognise" /\ ~(Variation1(b) < 0)
  <2>1. pc' # "panicked"
    BY <1>1 DEF IInv, AssertHolds
  <2> QED
    BY <1>1, <2>1 DEF JudgePeak
<1>3. /\ fft_outputs' = fft_outputs /\ fft_outputs_index' = fft_outputs_index
      /\ num_spread_ffts_done' = num_spread_ffts_done
      /\ taken = num_spread_ffts_done /\ taken' = taken
      /\ JudgedPass' = JudgedPass
      /\ bin_position' = b
      /\ \A c : IsPeak(c)' = IsPeak(c)
  <2>1. UNCHANGED <<ffts, spreads, num_spread_ffts_done>> /\ bin_position' = b
    BY DEF JudgePeak
  <2>2. \A c : IsPeak(c)' = IsPeak(c)
    BY <2>1 DEF IsPeak, ffts, spreads, fft_minus_46, fft_minus_49
  <2>3. taken = num_spread_ffts_done /\ taken' = taken /\ JudgedPass' = JudgedPass
    BY <1>1, <1>2, <2>1 DEF taken, JudgedPass
  <2> QED
    BY <2>1, <2>2, <2>3 DEF ffts
<1>4. /\ taken \in Nat /\ JudgedPass \in Int /\ JudgedPass >= 0 /\ JudgedPass < taken
      /\ JudgedPass = taken - JudgedLag
      /\ JudgedLag \in 1 .. RingSize - 1
  <2>1. num_spread_ffts_done >= JudgedLag
    BY <1>1 DEF PInv, RingNumbered
  <2> QED
    BY <1>1, <1>3, <2>1, SizesAssumption DEF JudgedPass, TypeOK
<1>5. b \in Int /\ bin_position \in Int /\ PeakReach \in Nat
  BY <1>1, SizesAssumption DEF TypeOK, Judged
<1>6. /\ new.fft_pass_number = JudgedPass
      /\ new.peak_magnitude = Magnitude(fft_minus_46[b])
      /\ new.corrected_peak_frequency_bin = CorrectedBin(b)
      /\ From(CorrectedBin(b), b)
      /\ new \in PeakRecords
  <2>1. CorrectedBin(b) \in CorrectedBins /\ From(CorrectedBin(b), b)
    BY <1>1, CorrectionIsSmall
  <2>2. Magnitude(fft_minus_46[b]) \in Magnitudes
    <3>1. fft_minus_46[b] \in Levels
      BY <1>1, PeakAboveItsNeighbors
    <3> QED
      BY <3>1 DEF Magnitudes
  <2> QED
    BY <1>4, <2>1, <2>2 DEF Peak, PeakRecords, JudgedPass
<1> HIDE DEF new
<1>7. /\ DOMAIN peaks' = Bands
      /\ \A band \in Bands : peaks'[band] \in {peaks[band], Append(peaks[band], new)}
  <2>1. peaks' = [band \in Bands |->
                    IF band \in BandOf(FrequencyHz(CorrectedBin(b)))
                    THEN Append(peaks[band], new) ELSE peaks[band]]
    BY <1>2 DEF JudgePeak, new
  <2> QED
    BY <2>1
<1>8. \A band \in Bands :
        /\ peaks[band] \in Seq(PeakRecords)
        /\ peaks'[band] = peaks[band]
           \/ /\ Len(peaks'[band]) = Len(peaks[band]) + 1
              /\ DOMAIN peaks'[band] = 1 .. Len(peaks[band]) + 1
              /\ \A k \in 1 .. Len(peaks[band]) : peaks'[band][k] = peaks[band][k]
              /\ peaks'[band][Len(peaks[band]) + 1] = new
              /\ peaks'[band] \in Seq(PeakRecords)
  <2> TAKE band \in Bands
  <2> DEFINE list == peaks[band]
  <2>1. list \in Seq(PeakRecords)
    BY DEF PInv, PeaksTyped
  <2>2. CASE peaks'[band] = list
    BY <2>1, <2>2
  <2>3. CASE peaks'[band] = Append(list, new)
    <3> HIDE DEF list
    <3>1. Len(list) \in Nat /\ Append(list, new) \in Seq(PeakRecords)
      BY <1>6, <2>1
    <3>2. /\ Len(Append(list, new)) = Len(list) + 1
          /\ \A k \in 1 .. Len(list) : Append(list, new)[k] = list[k]
          /\ Append(list, new)[Len(list) + 1] = new
      BY <1>6, <2>1
    <3>3. DOMAIN Append(list, new) = 1 .. Len(list) + 1
      BY <3>1, <3>2
    <3> QED
      BY <2>1, <2>3, <3>1, <3>2, <3>3 DEF list
  <2> QED
    BY <1>7, <2>2, <2>3
\* So each is the new one or was there.
<1>9. \A band \in Bands : \A k \in DOMAIN peaks'[band] :
         peaks'[band][k] = new \/ (k \in DOMAIN peaks[band] /\ peaks'[band][k] = peaks[band][k])
  <2> TAKE band \in Bands
  <2> TAKE k \in DOMAIN peaks'[band]
  <2>1. DOMAIN peaks[band] = 1 .. Len(peaks[band]) /\ Len(peaks[band]) \in Nat
    BY <1>8
  <2>2. CASE peaks'[band] = peaks[band]
    BY <2>2
  <2>3. CASE peaks'[band] # peaks[band]
    BY <1>8, <2>1, <2>3
  <2> QED
    BY <2>2, <2>3
<1>10. PeaksTyped'
  <2>1. peaks' = [band \in Bands |-> peaks'[band]]
    BY DEF JudgePeak, PInv, PeaksTyped
  <2> QED
    BY <1>8, <2>1 DEF PeaksTyped
<1>11. NextComesAfter'
  <2> SUFFICES ASSUME NEW band \in Bands, peaks'[band] # <<>>
               PROVE  /\ Latest(band)'.fft_pass_number <= JudgedPass
                      /\ Latest(band)'.fft_pass_number = JudgedPass =>
                           \E c \in Judged :
                             /\ c <= b /\ IsPeak(c)
                             /\ From(Latest(band)'.corrected_peak_frequency_bin, c)
    BY <1>2, <1>3 DEF NextComesAfter, From
  <2>1. CASE peaks'[band] = peaks[band]
    <3>1. Latest(band)' = Latest(band) /\ peaks[band] # <<>>
      BY <2>1 DEF Latest
    <3>2. \A c \in Judged : c <= bin_position => c <= b
      BY <1>1, <1>5 DEF Judged
    <3> QED
      BY <1>1, <3>1, <3>2 DEF PInv, NextComesAfter
  <2>2. CASE peaks'[band] # peaks[band]
    <3>1. Latest(band)' = new
      BY <1>8, <2>2 DEF Latest
    <3>2. JudgedPass <= JudgedPass /\ b <= b
      BY <1>4, <1>5
    <3> QED
      BY <1>1, <1>6, <3>1, <3>2
  <2> QED
    BY <2>1, <2>2
<1>12. PeaksInOrder'
  <2> SUFFICES ASSUME NEW band \in Bands, NEW l \in 2 .. Len(peaks'[band])
               PROVE  LET earlier == peaks'[band][l - 1]
                          later == peaks'[band][l]
                      IN  \/ earlier.fft_pass_number < later.fft_pass_number
                          \/ /\ earlier.fft_pass_number = later.fft_pass_number
                             /\ later.corrected_peak_frequency_bin
                                  - earlier.corrected_peak_frequency_bin >= 64 * PeakReach
    BY DEF PeaksInOrder
  <2>1. CASE peaks'[band] = peaks[band]
    BY <2>1 DEF PInv, PeaksInOrder
  <2>2. CASE peaks'[band] # peaks[band] /\ l <= Len(peaks[band])
    <3>1. l \in 1 .. Len(peaks[band]) /\ l - 1 \in 1 .. Len(peaks[band])
      BY <1>8, <2>2
    <3>2. peaks'[band][l] = peaks[band][l] /\ peaks'[band][l - 1] = peaks[band][l - 1]
      BY <1>8, <2>2, <3>1
    <3>3. l \in 2 .. Len(peaks[band])
      BY <3>1
    <3> QED
      BY <3>2, <3>3 DEF PInv, PeaksInOrder
  <2>3. CASE peaks'[band] # peaks[band] /\ ~(l <= Len(peaks[band]))
    <3>1. /\ Len(peaks[band]) \in Nat /\ l = Len(peaks[band]) + 1
          /\ l - 1 = Len(peaks[band]) /\ Len(peaks[band]) >= 1
      BY <1>8, <2>3
    <3>2. /\ peaks'[band][l] = new /\ peaks'[band][l - 1] = Latest(band)
          /\ Latest(band) \in PeakRecords /\ peaks[band] # <<>>
      BY <1>8, <2>3, <3>1 DEF Latest
    <3> DEFINE earlier == Latest(band)
    <3>3. earlier.fft_pass_number \in Int /\ earlier.fft_pass_number <= JudgedPass
      <4>1. earlier.fft_pass_number \in Int
        BY <3>2, PeakFields
      <4> QED
        BY <3>2, <4>1 DEF PInv, NextComesAfter
    <3>4. CASE earlier.fft_pass_number = JudgedPass
      <4>1. PICK c \in Judged : /\ c <= bin_position /\ IsPeak(c)
                                /\ From(earlier.corrected_peak_frequency_bin, c)
        BY <1>1, <3>2, <3>4 DEF PInv, NextComesAfter
      <4>2. c \in Int /\ c < b
        BY <1>1, <1>5, <4>1 DEF Judged
      <4>3. b - c > PeakReach
        BY <1>1, <4>1, <4>2, PeaksStandApart
      <4>4. /\ earlier.corrected_peak_frequency_bin \in Int
            /\ new.corrected_peak_frequency_bin \in Int
            /\ earlier.corrected_peak_frequency_bin <= 64 * c + 32
            /\ new.corrected_peak_frequency_bin >= 64 * b - 32
        <5>1. /\ earlier.corrected_peak_frequency_bin \in Int
              /\ new.corrected_peak_frequency_bin \in Int
          BY <1>6, <3>2, PeakFields
        <5>2. /\ earlier.corrected_peak_frequency_bin - 64 * c \in -32 .. 32
              /\ new.corrected_peak_frequency_bin - 64 * b \in -32 .. 32
          BY <1>6, <4>1 DEF From
        <5>3. \A n, m \in Int : n - 64 * m \in -32 .. 32 =>
                n <= 64 * m + 32 /\ n >= 64 * m - 32
          OBVIOUS
        <5> QED
          BY <1>5, <4>2, <5>1, <5>2, <5>3
      <4>5. new.corrected_peak_frequency_bin - earlier.corrected_peak_frequency_bin
              >= 64 * PeakReach
        BY <1>5, <4>2, <4>3, <4>4
      <4> QED
        BY <1>6, <3>2, <3>4, <4>5
    <3>5. CASE earlier.fft_pass_number # JudgedPass
      BY <1>4, <1>6, <3>2, <3>3, <3>5
    <3> QED
      BY <3>4, <3>5
  <2> QED
    BY <2>1, <2>2, <2>3
<1>13. RingNumbered'
  <2>1. new.fft_pass_number \in 0 .. taken - 1 /\ new.fft_pass_number <= JudgedPass
    BY <1>4, <1>6
  <2>2. \A band \in Bands : \A k \in DOMAIN peaks'[band] :
          /\ peaks'[band][k].fft_pass_number \in 0 .. taken - 1
          /\ peaks'[band][k].fft_pass_number <= JudgedPass
    BY <1>9, <2>1 DEF PInv, RingNumbered
  <2> QED
    BY <1>1, <1>2, <1>3, <2>2 DEF PInv, RingNumbered
<1>14. PeaksMatchTheirPass'
  <2> SUFFICES ASSUME NEW band \in Bands, NEW k \in DOMAIN peaks'[band],
                      peaks'[band][k].fft_pass_number + RingSize >= taken
               PROVE  \E c \in Judged :
                        /\ peaks'[band][k].corrected_peak_frequency_bin - 64 * c \in -32 .. 32
                        /\ peaks'[band][k].peak_magnitude =
                             Magnitude(fft_outputs[Wrap(peaks'[band][k].fft_pass_number)][c])
    BY <1>3 DEF PeaksMatchTheirPass
  <2>1. CASE k \in DOMAIN peaks[band] /\ peaks'[band][k] = peaks[band][k]
    BY <2>1 DEF PInv, PeaksMatchTheirPass
  <2>2. CASE peaks'[band][k] = new
    <3>1. Wrap(JudgedPass) = Wrap(Wrap(taken) - JudgedLag)
      <4>1. Wrap(taken - JudgedLag) = Wrap(Wrap(taken) - JudgedLag)
        BY ONLY <1>4, SlotOfPass
      <4> QED
        BY <1>4, <4>1
    <3>2. fft_minus_46 = fft_outputs[Wrap(JudgedPass)]
      BY <3>1 DEF PInv, RingNumbered, fft_minus_46
    <3> QED
      BY <1>6, <2>2, <3>2 DEF From
  <2> QED
    BY <1>9, <2>1, <2>2
<1> QED
  BY <1>1, <1>10, <1>11, <1>12, <1>13, <1>14 DEF PInv

\* The end of a recognition and a step of something else keep the lists and what
\* they are of.
LEMMA OthersKeepPeaks == PInv /\ (EndRecognition \/ UNCHANGED vars) => PInv'
<1> SUFFICES ASSUME PInv, EndRecognition \/ UNCHANGED vars PROVE PInv'
  OBVIOUS
<1>1. IInv /\ IInv'
  BY EndRecognitionPreserves, StutterPreserves DEF PInv
<1>2. /\ peaks' = peaks /\ UNCHANGED ffts /\ UNCHANGED spreads /\ taken' = taken
      /\ num_spread_ffts_done' = num_spread_ffts_done
      /\ bin_position' = bin_position
      /\ pc' = "recognise" => pc = "recognise"
  BY DEF EndRecognition, vars, taken
<1>3. JudgedPass' = JudgedPass /\ \A c : IsPeak(c)' = IsPeak(c)
  BY <1>2 DEF JudgedPass, IsPeak, ffts, spreads, fft_minus_46, fft_minus_49
<1>4. NextComesAfter'
  BY <1>2, <1>3 DEF PInv, NextComesAfter, Latest, From
<1>5. RingNumbered'
  BY <1>2, <1>3, PeaksKept DEF PInv, RingNumbered
<1> QED
  BY <1>1, <1>2, <1>4, <1>5, PeaksKept DEF PInv

\* The loop starts on a segment once its chunks are counted: the rings are as they
\* were made, whatever the count.
LEMMA StartsOnSegment ==
  ASSUME PInv, pc = "fft", num_spread_ffts_done = 0, chunks_left' \in ChunkCounts,
         UNCHANGED <<samples, ffts, spreads, num_spread_ffts_done, bin_position, peaks, pc>>
  PROVE  PInv'
<1> USE DEF samples, ffts, spreads
<1>1. taken' = 0 /\ taken = 0
  BY DEF taken
<1>2. TypeOK'
  BY <1>1, SizesAssumption DEF PInv, IInv, TypeOK
<1>3. RingHoldsLatestChunks' /\ WindowHoldsLatestChunks'
  BY <1>1 DEF PInv, IInv, RingHoldsLatestChunks, WindowHoldsLatestChunks
<1>4. RingsInStep' /\ SpreadRowsExact' /\ AssertHolds'
  BY RowsUnchanged DEF PInv, IInv, RingsInStep, AssertHolds
<1>5. IInv'
  BY <1>2, <1>3, <1>4 DEF IInv
<1>6. JudgedPass' = JudgedPass
  BY DEF JudgedPass
<1>7. NextComesAfter'
  BY <1>6 DEF PInv, NextComesAfter, Latest
<1>8. RingNumbered'
  BY <1>1, <1>6, PeaksKept DEF PInv, RingNumbered
<1> QED
  BY <1>1, <1>5, <1>7, <1>8, PeaksKept DEF PInv

-------------------------------------------------------------------------------
\* What is known of the lists holds of every behaviour.
LEMMA PeaksInvariance == BinsFit => (Spec => []PInv)
<1> SUFFICES ASSUME BinsFit PROVE Spec => []PInv
  OBVIOUS
<1>1. Init => PInv
  BY NoPeaksAtFirst
<1>2. PInv /\ [Next]_vars => PInv'
  BY DoFftKeepsPeaks, DoPeakSpreadingKeepsPeaks, JudgePeakKeepsPeaks, OthersKeepPeaks DEF Next
<1> QED
  BY <1>1, <1>2, PTL DEF Spec

\* Each band's peaks come in the order the encoder asserts, and apart.
THEOREM PeaksComeInOrder == BinsFit => (Spec => []PeaksInOrder)
<1>1. PInv => PeaksInOrder
  BY DEF PInv
<1> QED
  BY <1>1, PeaksInvariance, PTL

\* A peak's pass number and its lag name the spectrum it was judged in.
THEOREM PeaksAreOfTheirPass == BinsFit => (Spec => []PeaksMatchTheirPass)
<1>1. PInv => PeaksMatchTheirPass
  BY DEF PInv
<1> QED
  BY <1>1, PeaksInvariance, PTL
===============================================================================
