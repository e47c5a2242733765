----------------------------- MODULE SignatureFormat -----------------------------
(***************************************************************************)
(* src/src/fingerprinting/signature_format.rs, `encode_to_binary`: the     *)
(* peaks of a signature become the bytes the service reads.  The cursor is *)
(* a sequence of bytes; the file's byte at offset o is cursor[o + 1].      *)
(*                                                                         *)
(* What the format means is said by a reader (`BandsIn`), which knows only *)
(* the layout: the header's words, then for each band a marker, a length,  *)
(* that many bytes and padding to a word.  The base64 text made of the     *)
(* bytes by `encode_to_uri` keeps them all and is not modelled.            *)
(*                                                                         *)
(* An operator whose name holds "_bug" is a mistake this code could have   *)
(* had; it stands beside the definition it would replace and is used by no *)
(* other definition.                                                       *)
(***************************************************************************)
EXTENDS Integers, Sequences, FiniteSets

CONSTANTS
  Signatures,   \* the signatures that may be encoded
  Checksum(_)   \* crc32 of a sequence of bytes, from crc32fast

VARIABLES
  signature,
  cursor,
  remaining,       \* bands the sorted iterator has yet to give
  band,            \* the band being written
  written,         \* peaks of it that are in peaks_buffer
  fft_pass_number, \* pass of the last of them
  peaks_buffer,
  pc               \* "header", "bands", "peaks", "encoded" or "panicked"

vars == <<signature, cursor, remaining, band, written, fft_pass_number,
          peaks_buffer, pc>>

-------------------------------------------------------------------------------
(* Words. *)

\* The bytes of a word, the lowest first; a cast to it drops the higher ones.
U16(value) == <<value % 256, (value \div 256) % 256>>
U32(value) == U16(value) \o U16(value \div 65536)

\* A write at an offset inside what is already written.
Overwrite(buffer, offset, bytes) ==
  [i \in DOMAIN buffer |-> IF i - offset \in DOMAIN bytes THEN bytes[i - offset] ELSE buffer[i]]

HeaderSize == 48
SizeOffset == 8
SecondSizeOffset == HeaderSize + 4
ChecksumOffset == 4

\* Offset of the first band: the header and the word pair that follows it.
BandsOffset == HeaderSize + 8

SampleRateId == [rate \in {8000, 11025, 16000, 32000, 44100, 48000} |->
  CASE rate = 8000 -> 1 [] rate = 11025 -> 2 [] rate = 16000 -> 3
    [] rate = 32000 -> 4 [] rate = 44100 -> 5 [] rate = 48000 -> 6]

\* The passes of a band's peaks do not go back.
PassesInOrder(list) ==
  /\ Len(list) \in Nat
  /\ \A l \in 1 .. Len(list) : list[l] \in [pass : Nat, magnitude : Nat, bin : Int]
  /\ \A l \in 2 .. Len(list) : list[l - 1].pass <= list[l].pass

\* A signature as the generator leaves it, at a rate the format has a number for.
Fits(s) ==
  /\ s.sample_rate_hz \in DOMAIN SampleRateId
  /\ s.number_samples \in Nat
  /\ DOMAIN s.peaks \subseteq 0 .. 3
  /\ \A b \in DOMAIN s.peaks : PassesInOrder(s.peaks[b])

ASSUME SignaturesAssumption == \A s \in Signatures : Fits(s)

\* The product with 0.24 is taken in f32 and is exact at every rate above.
PaddedSamples == signature.number_samples + (signature.sample_rate_hz * 24) \div 100

Header ==
  <<128, 37, 254, 202>> \o U32(0) \o U32(0) \o <<0, 156, 17, 148>>
    \o U32(0) \o U32(0) \o U32(0)
    \o U32(SampleRateId[signature.sample_rate_hz] * 2 ^ 27)
    \o U32(0) \o U32(0) \o U32(PaddedSamples) \o U32(15 * 2 ^ 19 + 262144)
    \o U32(2 ^ 30) \o U32(0)

Marker(frequency_band) == 1610809408 + frequency_band

\* Zeros that bring the content of a band to a word.
Padding(content) == [i \in 1 .. ((4 - (Len(content) % 4)) % 4) |-> 0]

-------------------------------------------------------------------------------
(* The encoder. *)

\* sorted_iterator: a hash map gives its bands in any order, so they are sorted:
\* the i-th is the one up to which there are i.
Sorted(bands) ==
  [i \in 1 .. Cardinality(bands) |->
     CHOOSE b \in bands : Cardinality({c \in bands : c <= b}) = i]

Init ==
  /\ signature \in Signatures
  /\ cursor = <<>>
  /\ remaining = Sorted(DOMAIN signature.peaks)
  /\ band = 0
  /\ written = 0
  /\ fft_pass_number = 0
  /\ peaks_buffer = <<>>
  /\ pc = "header"

WriteHeader ==
  /\ pc = "header"
  /\ IF signature.sample_rate_hz \in DOMAIN SampleRateId
     THEN cursor' = Header /\ pc' = "bands"
     ELSE pc' = "panicked" /\ UNCHANGED cursor
  /\ UNCHANGED <<signature, remaining, band, written, fft_pass_number, peaks_buffer>>

StartBand ==
  /\ pc = "bands"
  /\ remaining # <<>>
  /\ band' = Head(remaining)
  /\ remaining' = Tail(remaining)
  /\ written' = 0
  /\ fft_pass_number' = 0
  /\ peaks_buffer' = <<>>
  /\ pc' = "peaks"
  /\ UNCHANGED <<signature, cursor>>

\* A peak is five bytes: passes since the last peak, magnitude, bin.  A distance
\* a byte cannot hold, or that would read as the escape, is written before it
\* as the escape and the pass itself.
Escaped_bug(distance) == distance > 255
Escaped(distance) == distance >= 255

PeakBytes(peak) ==
  LET distance == peak.pass - fft_pass_number
      values == U16(peak.magnitude) \o U16(peak.bin)
  IN  IF Escaped(distance)
      THEN <<255>> \o U32(peak.pass) \o <<0>> \o values
      ELSE <<distance>> \o values

WritePeak ==
  /\ pc = "peaks"
  /\ written < Len(signature.peaks[band])
  /\ LET peak == signature.peaks[band][written + 1]
     IN  IF peak.pass >= fft_pass_number
         THEN /\ peaks_buffer' = peaks_buffer \o PeakBytes(peak)
              /\ fft_pass_number' = peak.pass
              /\ written' = written + 1
              /\ UNCHANGED pc
         ELSE /\ pc' = "panicked"
              /\ UNCHANGED <<peaks_buffer, fft_pass_number, written>>
  /\ UNCHANGED <<signature, cursor, remaining, band>>

EndBand ==
  /\ pc = "peaks"
  /\ written = Len(signature.peaks[band])
  /\ cursor' = cursor \o U32(Marker(band)) \o U32(Len(peaks_buffer)) \o peaks_buffer
                 \o Padding(peaks_buffer)
  /\ pc' = "bands"
  /\ UNCHANGED <<signature, remaining, band, written, fft_pass_number, peaks_buffer>>

\* The words left blank: both sizes, then the checksum of all that follows it.
Completed_bug(buffer) ==
  LET summed == Overwrite(buffer, ChecksumOffset, U32(Checksum(SubSeq(buffer, 9, Len(buffer)))))
      size == U32(Len(buffer) - HeaderSize)
  IN  Overwrite(Overwrite(summed, SizeOffset, size), SecondSizeOffset, size)
Completed(buffer) ==
  LET size == U32(Len(buffer) - HeaderSize)
      sized == Overwrite(Overwrite(buffer, SizeOffset, size), SecondSizeOffset, size)
  IN  Overwrite(sized, ChecksumOffset, U32(Checksum(SubSeq(sized, 9, Len(sized)))))

Finish ==
  /\ pc = "bands"
  /\ remaining = <<>>
  /\ cursor' = Completed(cursor)
  /\ pc' = "encoded"
  /\ UNCHANGED <<signature, remaining, band, written, fft_pass_number, peaks_buffer>>

Next == WriteHeader \/ StartBand \/ WritePeak \/ EndBand \/ Finish

Spec == Init /\ [][Next]_vars

-------------------------------------------------------------------------------
(* A reader of the format. *)

HalfAt(buffer, offset) == buffer[offset + 1] + 256 * buffer[offset + 2]
WordAt(buffer, offset) == HalfAt(buffer, offset) + 65536 * HalfAt(buffer, offset + 2)

\* A reader of a band's content starts at pass 0, and after each entry has read
\* one more peak or, of an escape, the pass the next one counts from.
NoPeaks == [at |-> 0, pass |-> 0, peaks |-> <<>>]
NextEntry(content, reader) ==
  LET at == reader.at
      here == reader.pass + content[at + 1]
  IN  IF at >= Len(content) THEN reader
      ELSE IF content[at + 1] = 255
      THEN [at |-> at + 5, pass |-> WordAt(content, at + 1), peaks |-> reader.peaks]
      ELSE [at |-> at + 5, pass |-> here,
            peaks |-> Append(reader.peaks, [pass |-> here,
                                            magnitude |-> HalfAt(content, at + 1),
                                            bin |-> HalfAt(content, at + 3)])]

\* Every entry is of five bytes.
PeaksIn(content) ==
  LET Read[n \in Nat] == IF n = 0 THEN NoPeaks ELSE NextEntry(content, Read[n - 1])
  IN  Read[Len(content) \div 5].peaks

\* A band is its marker, the length of its content, the content and zeros that
\* bring it to a word.
NoBands == [at |-> BandsOffset, bands |-> <<>>]
InWords(bytes) == ((bytes + 3) \div 4) * 4
NextBand(file, reader) ==
  LET at == reader.at
      bytes == WordAt(file, at + 4)
  IN  IF at >= Len(file) THEN reader
      ELSE [at |-> at + 8 + InWords(bytes),
            bands |-> Append(reader.bands,
                             [band |-> WordAt(file, at) - Marker(0),
                              peaks |-> PeaksIn(SubSeq(file, at + 9, at + 8 + bytes))])]

\* Every band of a file, each with its peaks, in the order of the file; none is
\* of less than eight bytes.
BandsIn(file) ==
  LET Read[n \in Nat] == IF n = 0 THEN NoBands ELSE NextBand(file, Read[n - 1])
  IN  Read[Len(file) \div 8].bands

-------------------------------------------------------------------------------
(* Properties. *)

\* A reader of the format finds the bands in ascending order, each with exactly
\* the peaks the generator recorded for it: no distance between two peaks is
\* taken for the escape, and no band starts where the reader does not look.  Nor
\* does the assertion on the order of the peaks ever fail, however the passes of
\* a band compare with those of the band written before it.
ReadsBack ==
  /\ pc # "panicked"
  /\ pc = "encoded" =>
       LET bands == BandsIn(cursor)
       IN  /\ {bands[i].band : i \in DOMAIN bands} = DOMAIN signature.peaks
           /\ \A i, j \in DOMAIN bands : i < j => bands[i].band < bands[j].band
           /\ \A i \in DOMAIN bands : bands[i].peaks = signature.peaks[bands[i].band]

\* The header agrees with the file it heads: both sizes are those of what
\* follows the header, and the checksum is the one of the bytes as they are sent.
HeaderDescribesFile ==
  pc = "encoded" =>
    LET size == Len(cursor) - HeaderSize
    IN  /\ WordAt(cursor, SizeOffset) = size
        /\ WordAt(cursor, SecondSizeOffset) = size
        /\ SubSeq(cursor, ChecksumOffset + 1, ChecksumOffset + 4)
             = U32(Checksum(SubSeq(cursor, ChecksumOffset + 5, Len(cursor))))
===============================================================================
