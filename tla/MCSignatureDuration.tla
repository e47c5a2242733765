-------------------------- MODULE MCSignatureDuration --------------------------
(***************************************************************************)
(* The source's rate and default duration in words of 24 and 25 bits: 2200 *)
(* seconds are samples that neither they nor `usize` can hold.  Every      *)
(* length of up to twelve seconds, and those around each word's end and    *)
(* around 1024 seconds, up to which the duration is reported as it should. *)
(***************************************************************************)
EXTENDS SignatureDuration

MCPadding == (SAMPLE_RATE_HZ * 24) \div 100

Around(n) == n - 2 .. n + 2
MCLengths ==
  0 .. DEFAULT_SEGMENT_SECONDS * SAMPLE_RATE_HZ + 2
    \cup Around(U32_MAX - MCPadding) \cup Around(U32_MAX) \cup Around(400000)
    \cup Around(1024 * SAMPLE_RATE_HZ) \cup Around(1024 * SAMPLE_RATE_HZ + 15)
MCDurations == {None, 1, 2200}
================================================================================
