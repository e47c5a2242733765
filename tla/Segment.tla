---------------------------------- MODULE Segment ----------------------------------
(***************************************************************************)
(* src/src/fingerprinting/algorithm.rs, `middle_segment`: of the samples a *)
(* clip decoded to, the ones a signature is made of.  The duration asked   *)
(* for is a `u32`, lengths are `usize`, which is 32 or 64 bits wide by the *)
(* wheel, and their product is taken in `u64`: the constants scale these   *)
(* widths down and keep their order.                                       *)
(*                                                                         *)
(* An operator whose name holds "_bug" is a mistake this code could have   *)
(* had; it stands beside the definition it would replace and is used by no *)
(* other definition.                                                       *)
(***************************************************************************)
EXTENDS Integers

CONSTANTS
  SAMPLE_RATE_HZ,
  DEFAULT_SEGMENT_SECONDS,
  U32_MAX,
  USIZE_MAXES,    \* the greatest `usize` of each build
  PaddingSamples, \* samples the header declares on top: 0.24 of a second
  Lengths,        \* lengths a clip may decode to
  None,           \* no duration was asked for
  Durations       \* the segment durations asked for, or None

\* A rate is even, as 16000 is, and a u64 holds any duration times the rate.
ASSUME WidthsAssumption ==
  /\ SAMPLE_RATE_HZ \in Nat \ {0} /\ SAMPLE_RATE_HZ % 2 = 0
  /\ U32_MAX \in Nat
  /\ DEFAULT_SEGMENT_SECONDS \in 1 .. U32_MAX
  /\ USIZE_MAXES \subseteq Nat /\ \A usize_max \in USIZE_MAXES : U32_MAX <= usize_max
  /\ PaddingSamples \in Nat
  /\ Lengths \subseteq Nat
  /\ None \notin Nat
  /\ \A seconds \in Durations : seconds \in 1 .. U32_MAX \/ seconds = None

VARIABLES
  usize_max,
  length,   \* samples.len()
  asked,    \* segment_duration_seconds
  segment,  \* the samples from .. upto - 1
  cutting   \* "decoded" or "cut"

cut == <<usize_max, length, asked, segment, cutting>>

Min(a, b) == IF a <= b THEN a ELSE b

\* validated_segment_seconds let no zero through.
CutInit ==
  /\ usize_max \in USIZE_MAXES
  /\ length \in Lengths /\ length <= usize_max
  /\ asked \in Durations
  /\ segment = [from |-> 0, upto |-> 0]
  /\ cutting = "decoded"

DurationSeconds == IF asked = None THEN DEFAULT_SEGMENT_SECONDS ELSE asked

SegmentSamples_bug == (DurationSeconds * SAMPLE_RATE_HZ) % (U32_MAX + 1)
SegmentSamples == Min(DurationSeconds * SAMPLE_RATE_HZ, usize_max)

HalfSegment_bug == SegmentSamples
HalfSegment == SegmentSamples \div 2

CutAround_bug(middle, half_segment) == [from |-> middle, upto |-> middle + 2 * half_segment]
CutAround(middle, half_segment) ==
  [from |-> middle - half_segment, upto |-> middle + half_segment]

MiddleSegment ==
  /\ cutting = "decoded"
  /\ segment' = IF length <= SegmentSamples THEN [from |-> 0, upto |-> length]
                ELSE CutAround(length \div 2, HalfSegment)
  /\ cutting' = "cut"
  /\ UNCHANGED <<usize_max, length, asked>>

\* `samples.len() as u32`, and the sum of `u32`s in the header, which wraps in a
\* build without overflow checks.
NumberSamples_bug == length % (U32_MAX + 1)
NumberSamples == (segment.upto - segment.from) % (U32_MAX + 1)
DeclaredSamples == (NumberSamples + PaddingSamples) % (U32_MAX + 1)

CutNext == MiddleSegment

CutSpec == CutInit /\ [][CutNext]_cut

-------------------------------------------------------------------------------
(* Properties. *)

\* The slice taken is one the samples have: its ends are in order and neither
\* is outside, where slicing would panic.
TypeOK ==
  /\ usize_max \in USIZE_MAXES
  /\ length \in 0 .. usize_max
  /\ asked \in Durations
  /\ segment.from \in 0 .. segment.upto
  /\ segment.upto \in 0 .. length
  /\ cutting \in {"decoded", "cut"}

\* A clip no longer than what was asked for is fingerprinted whole, however far
\* the duration is beyond what the sample count of a `usize` or `u32` can say.
WholeClipWhenItFits ==
  cutting = "cut" /\ length <= DurationSeconds * SAMPLE_RATE_HZ =>
    segment = [from |-> 0, upto |-> length]

\* A longer one gives exactly the duration asked for, and as much is left out
\* before it as after it, within a sample.
CutFromMiddle ==
  cutting = "cut" /\ length > DurationSeconds * SAMPLE_RATE_HZ =>
    /\ segment.upto - segment.from = DurationSeconds * SAMPLE_RATE_HZ
    /\ (length - segment.upto) - segment.from \in {0, 1}

\* Neither the cast of the length nor the sum in the header wraps while the
\* duration asked for leaves room for the padding, however long the clip: the
\* two are as safe as the caller's duration, and need no bound on the clip.
DeclaresItsLength ==
  cutting = "cut" /\ DurationSeconds * SAMPLE_RATE_HZ + PaddingSamples <= U32_MAX =>
    DeclaredSamples = segment.upto - segment.from + PaddingSamples
================================================================================
