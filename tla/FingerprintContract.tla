-------------------------- MODULE FingerprintContract --------------------------
(***************************************************************************)
(* What `make_signature` and `get_signature_json` promise for one stream,  *)
(* said of the whole of it at once: a signature that declares as many      *)
(* samples as the segment asked for has of the resampled clip, or a        *)
(* refusal.  There is no third answer, such as a panic.                    *)
(* `FingerprintJob` implements it with the parts of the crate.             *)
(***************************************************************************)
EXTENDS Integers, Sequences

CONSTANTS
  Streams, NoTrack,  \* as in StreamContract
  Durations,         \* segment durations a caller may ask for, or None
  None,
  Resamplable,       \* the specs of packets whose rate a resampler can be built for
  Expected(_),       \* samples at 16 kHz of a clip of that many frames
  SAMPLE_RATE_HZ,
  DEFAULT_SEGMENT_SECONDS,
  U32_MAX

VARIABLES
  stream,
  asked,        \* segment_duration_seconds
  clock_works,  \* the clock of the machine is not before 1970
  answer

vars == <<stream, asked, clock_works, answer>>

Pending == [kind |-> "pending"]
Refused == [kind |-> "refused"]
Signature(samples) == [kind |-> "signature", samples |-> samples]

Reading == INSTANCE StreamContract WITH result <- answer

\* Frames of the packets at these positions of the stream.
Frames(positions) ==
  LET Total[k \in 0 .. Len(positions)] ==
        IF k = 0 THEN 0 ELSE Total[k - 1] + stream.events[positions[k]].frames
  IN  Total[Len(positions)]

Seconds == IF asked = None THEN DEFAULT_SEGMENT_SECONDS ELSE asked

\* Of a clip that long: the whole of it, or as much as was asked for.
SegmentOf(samples) ==
  IF samples <= Seconds * SAMPLE_RATE_HZ THEN samples ELSE Seconds * SAMPLE_RATE_HZ

\* As many, as a u32 says it.
Declared(samples) == samples % (U32_MAX + 1)

Promised ==
  LET verdict == Reading!Verdict
  IN  IF \/ verdict = Reading!Refused
         \/ stream.events[verdict.positions[1]].spec \notin Resamplable
         \/ ~clock_works
      THEN Refused
      ELSE Signature(Declared(SegmentOf(Expected(Frames(verdict.positions)))))

Init ==
  /\ stream \in Streams
  /\ asked \in Durations
  /\ clock_works \in BOOLEAN
  /\ answer = Pending

Decide ==
  /\ answer = Pending
  /\ answer' = Promised
  /\ UNCHANGED <<stream, asked, clock_works>>

Spec == Init /\ [][Decide]_vars
================================================================================
