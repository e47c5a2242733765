---------------------------- MODULE SignatureDuration ----------------------------
(***************************************************************************)
(* src/src/fingerprinting/communication.rs, `get_signature_json`: the      *)
(* milliseconds a signature says it lasts, which the code computes in f32  *)
(* from the samples of the segment that `middle_segment` cut for it.       *)
(*                                                                         *)
(* An f32 holds 24 bits of mantissa, and a product or quotient is the one  *)
(* of them nearest to the exact value, the even one of two as near.  The   *)
(* rate is 2^7 * 125 and a second 2^3 * 125 milliseconds, and the powers   *)
(* of two only move the exponent, so the quotient by 125 and the product   *)
(* by 125 are all that rounds; both fit in the 31 bits of a TLC integer.   *)
(*                                                                         *)
(* An operator whose name holds "_bug" is a mistake this code could have   *)
(* had; it stands beside the definition it would replace and is used by no *)
(* other definition.                                                       *)
(***************************************************************************)
EXTENDS Segment

VARIABLE samples   \* the milliseconds reported, -1 before they are

job == <<cut, samples>>

JobInit == CutInit /\ samples = -1

\* a / b to the nearest integer, to the even one of two as near.
Nearest(a, b) ==
  LET down == a \div b
      rest == 2 * (a % b)
  IN  IF rest > b \/ (rest = b /\ down % 2 = 1) THEN down + 1 ELSE down

\* n / 125 as an f32: a mantissa of 24 bits, to be divided by 2^exponent.
Quotient(n) ==
  LET exponent == CHOOSE e \in 0 .. 30 :
                    125 * 2 ^ 23 <= n * 2 ^ e /\ n * 2 ^ e < 125 * 2 ^ 24
  IN  [mantissa |-> Nearest(n * 2 ^ exponent, 125), exponent |-> exponent]

\* The product of that mantissa with 125, to 24 bits again.
Product(mantissa) ==
  LET product == mantissa * 125
      unit == IF product < 2 ^ 30 THEN 2 ^ 6 ELSE 2 ^ 7
  IN  Nearest(product, unit) * unit

\* samples / 16000 * 1000, and the whole part of it.
Milliseconds_bug(n) == IF n = 0 THEN 0 ELSE Nearest(n, 16)
Milliseconds(n) ==
  IF n = 0 THEN 0
  ELSE LET quotient == Quotient(n)
       IN  (Product(quotient.mantissa) \div 2 ^ quotient.exponent) \div 16

MakeSignature == MiddleSegment /\ UNCHANGED samples

\* Bound of the model: a count up to here, 17 minutes, is itself an f32.
MaxSamples == 2 ^ 24

GetSignatureJson ==
  /\ cutting = "cut" /\ samples = -1
  /\ NumberSamples < MaxSamples
  /\ samples' = Milliseconds(NumberSamples)
  /\ UNCHANGED cut

JobNext == MakeSignature \/ GetSignatureJson

JobSpec == JobInit /\ [][JobNext]_job

-------------------------------------------------------------------------------
(* Properties. *)

Reported == samples # -1

\* Up to 1024 seconds the rounding never reports more whole milliseconds than the
\* segment lasts, nor less, unless it lasts a whole number: then it may be one
\* short.  (The test's comment at communication.rs:55-56 calls the value "truncated
\* to whole milliseconds", which 4016 samples, 251 ms reported as 250, are not.
\* Beyond, an f32 of milliseconds holds only sixteenths of one, and what lasts a
\* sixteenth less may be reported a whole one long: 16384015 samples are.)
ShortByOneAtMost ==
  /\ Reported
  /\ NumberSamples = segment.upto - segment.from
  /\ NumberSamples <= 1024 * SAMPLE_RATE_HZ
  => \/ samples = NumberSamples \div 16
     \/ NumberSamples % 16 = 0 /\ samples = NumberSamples \div 16 - 1
================================================================================
