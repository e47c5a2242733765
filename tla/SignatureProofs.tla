------------------------------ MODULE SignatureProofs ------------------------------
(***************************************************************************)
(* What becomes of a clip once it is decoded, on every build and for every *)
(* clip: the segment that is cut from it, the duration that is reported of *)
(* it, and the file its signature is encoded as, whose assertion never     *)
(* fails, whose header says what follows it, and which a reader of the     *)
(* format reads back as the peaks it was made of.                          *)
(***************************************************************************)
EXTENDS SignatureDuration, SignatureFormat, FiniteSetTheorems, FunctionTheorems,
        SequenceTheorems, TLAPS

-------------------------------------------------------------------------------
(* The cut: the properties of Segment for words of any width, any rate and *)
(* clips of any length.                                                    *)

LEMMA Widths ==
  /\ SAMPLE_RATE_HZ \in Nat \ {0} /\ SAMPLE_RATE_HZ % 2 = 0
  /\ U32_MAX \in Nat
  /\ DEFAULT_SEGMENT_SECONDS \in 1 .. U32_MAX
  /\ USIZE_MAXES \subseteq Nat /\ \A most \in USIZE_MAXES : U32_MAX <= most
  /\ PaddingSamples \in Nat
  /\ Lengths \subseteq Nat
  /\ None \notin Nat
  /\ Durations \subseteq {None} \cup 1 .. U32_MAX
  BY WidthsAssumption

CutAsPromised == TypeOK /\ WholeClipWhenItFits /\ CutFromMiddle

\* Half of what is asked for, twice, is all of it: the rate is even.
LEMMA TwoHalves ==
  ASSUME NEW seconds \in Nat
  PROVE  /\ seconds * SAMPLE_RATE_HZ \in Nat
         /\ 2 * ((seconds * SAMPLE_RATE_HZ) \div 2) = seconds * SAMPLE_RATE_HZ
  <1> DEFINE half == SAMPLE_RATE_HZ \div 2
  <1>1. half \in Nat /\ SAMPLE_RATE_HZ = 2 * half
    BY Widths
  <1> HIDE DEF half
  <1>2. seconds * half \in Nat /\ seconds * SAMPLE_RATE_HZ = 2 * (seconds * half)
    BY <1>1
  <1>3. \A n \in Nat : (2 * n) \div 2 = n
    OBVIOUS
  <1> QED
    BY <1>2, <1>3

\* Cutting establishes all three, whatever was asked for.
LEMMA CutEstablishes ==
  ASSUME TypeOK, MiddleSegment
  PROVE  CutAsPromised'
  <1> DEFINE wanted == DurationSeconds * SAMPLE_RATE_HZ
  <1>1. DurationSeconds \in Nat
    BY Widths DEF TypeOK, DurationSeconds
  <1>2. wanted \in Nat /\ 2 * (wanted \div 2) = wanted
    BY <1>1, TwoHalves
  <1>3. length \in Nat /\ usize_max \in Nat /\ length <= usize_max
    BY Widths DEF TypeOK
  <1>4. usize_max' = usize_max /\ length' = length /\ asked' = asked /\ cutting' = "cut"
    BY DEF MiddleSegment
  <1>5. DurationSeconds' = DurationSeconds /\ wanted' = wanted
    BY <1>4 DEF DurationSeconds
  <1>6. length <= SegmentSamples <=> length <= wanted
    BY <1>2, <1>3 DEF SegmentSamples, Min
  <1>7. CASE length <= wanted
    <2>1. segment' = [from |-> 0, upto |-> length]
      BY <1>6, <1>7 DEF MiddleSegment
    <2>2. TypeOK'
      BY <1>3, <1>4, <2>1 DEF TypeOK
    <2>3. WholeClipWhenItFits' /\ CutFromMiddle'
      BY <1>2, <1>3, <1>4, <1>5, <1>7, <2>1 DEF WholeClipWhenItFits, CutFromMiddle
    <2> QED
      BY <2>2, <2>3 DEF CutAsPromised
  <1>8. CASE ~(length <= wanted)
    <2>1. SegmentSamples = wanted
      BY <1>2, <1>3, <1>8 DEF SegmentSamples, Min
    <2>2. segment' = [from |-> length \div 2 - wanted \div 2,
                      upto |-> length \div 2 + wanted \div 2]
      BY <1>6, <1>8, <2>1 DEF MiddleSegment, CutAround, HalfSegment
    <2> HIDE DEF wanted
    <2>3. /\ segment'.from \in 0 .. segment'.upto
          /\ segment'.upto \in 0 .. length
          /\ segment'.upto - segment'.from = wanted
          /\ (length - segment'.upto) - segment'.from \in {0, 1}
      BY <1>2, <1>3, <1>8, <2>2
    <2>4. TypeOK'
      BY <1>3, <1>4, <2>3 DEF TypeOK
    <2>5. ~(length' <= wanted') /\ segment'.upto - segment'.from = wanted'
      BY <1>4, <1>5, <1>8, <2>3
    <2> USE DEF wanted
    <2>6. WholeClipWhenItFits' /\ CutFromMiddle'
      BY <1>4, <2>3, <2>5 DEF WholeClipWhenItFits, CutFromMiddle
    <2> QED
      BY <2>4, <2>6 DEF CutAsPromised
  <1> QED
    BY <1>7, <1>8

\* The invariant holds before and after the cut.
LEMMA CutInvariance == CutSpec => []CutAsPromised
  <1>1. CutInit => CutAsPromised
    BY Widths DEF CutInit, CutAsPromised, TypeOK, WholeClipWhenItFits,
       CutFromMiddle, Min
  <1>2. CutAsPromised /\ [CutNext]_cut => CutAsPromised'
    <2>1. CASE CutNext
      BY <2>1, CutEstablishes DEF CutNext, CutAsPromised
    <2>2. CASE UNCHANGED cut
      BY <2>2 DEF cut, CutAsPromised, TypeOK, WholeClipWhenItFits,
         CutFromMiddle, DurationSeconds
    <2> QED
      BY <2>1, <2>2
  <1> QED
    BY <1>1, <1>2, PTL DEF CutSpec

\* `middle_segment` (algorithm.rs:47-64) never slices outside its samples.
THEOREM SliceInClip == CutSpec => []TypeOK
  BY CutInvariance, PTL DEF CutAsPromised

\* A clip that fits is used whole on every build, for every duration a `u32` can
\* say: the case the comment at algorithm.rs:50-52 is about.
THEOREM FittingClipIsWhole == CutSpec => []WholeClipWhenItFits
  BY CutInvariance, PTL DEF CutAsPromised

\* A longer clip gives the duration asked for, from its middle.
THEOREM LongerClipIsCentred == CutSpec => []CutFromMiddle
  BY CutInvariance, PTL DEF CutAsPromised

\* A number that fits a word is itself as that word.
LEMMA FitsItsWord ==
  ASSUME NEW n \in Nat, n <= U32_MAX
  PROVE  n % (U32_MAX + 1) = n
  <1> DEFINE words == U32_MAX + 1
  <1>1. words \in Nat \ {0} /\ n < words
    BY Widths
  <1> HIDE DEF words
  <1>2. n % words = n
    BY <1>1
  <1> QED
    BY <1>2 DEF words

\* The header declares the segment's length and the PaddingSamples, unless the caller
\* asks for more than a `u32` can declare.
THEOREM HeaderDeclaresLength == CutSpec => []DeclaresItsLength
  <1>1. CutAsPromised => DeclaresItsLength
    <2> SUFFICES ASSUME CutAsPromised, cutting = "cut",
                        DurationSeconds * SAMPLE_RATE_HZ + PaddingSamples <= U32_MAX
                 PROVE  DeclaredSamples = segment.upto - segment.from + PaddingSamples
      BY DEF DeclaresItsLength
    <2> DEFINE wanted == DurationSeconds * SAMPLE_RATE_HZ
               taken == segment.upto - segment.from
    <2>1. DurationSeconds \in Nat /\ length \in Nat /\ PaddingSamples \in Nat /\ U32_MAX \in Nat
      BY Widths DEF CutAsPromised, TypeOK, DurationSeconds
    <2>2. wanted \in Nat
      BY <2>1, TwoHalves
    <2>3. taken \in Nat /\ taken <= wanted
      <3>1. CASE length <= wanted
        BY <2>1, <3>1 DEF CutAsPromised, WholeClipWhenItFits
      <3>2. CASE ~(length <= wanted)
        BY <2>1, <2>2, <3>2 DEF CutAsPromised, CutFromMiddle
      <3> QED
        BY <3>1, <3>2
    <2> HIDE DEF wanted, taken
    <2>4. taken <= U32_MAX /\ taken + PaddingSamples \in Nat /\ taken + PaddingSamples <= U32_MAX
      <3>1. wanted + PaddingSamples <= U32_MAX
        BY DEF wanted
      <3> QED
        BY <2>1, <2>2, <2>3, <3>1
    <2>5. /\ taken % (U32_MAX + 1) = taken
          /\ (taken + PaddingSamples) % (U32_MAX + 1) = taken + PaddingSamples
      BY <2>3, <2>4, FitsItsWord
    <2> QED
      BY <2>5 DEF DeclaredSamples, NumberSamples, taken
  <1> QED
    BY <1>1, CutInvariance, PTL

-------------------------------------------------------------------------------
(* The milliseconds the answer reports of the segment: two roundings of an *)
(* f32 and two truncations lose one of them at most, up to 1024 seconds.   *)

\* The powers of two that bring a sample count to 24 bits of its 125th.
LEMMA Powers ==
  /\ 2 ^ 0 = 1 /\ 2 ^ 1 = 2 /\ 2 ^ 2 = 4 /\ 2 ^ 3 = 8 /\ 2 ^ 4 = 16 /\ 2 ^ 5 = 32
  /\ 2 ^ 6 = 64 /\ 2 ^ 7 = 128 /\ 2 ^ 8 = 256 /\ 2 ^ 9 = 512 /\ 2 ^ 10 = 1024
  /\ 2 ^ 11 = 2048 /\ 2 ^ 12 = 4096 /\ 2 ^ 13 = 8192 /\ 2 ^ 14 = 16384
  /\ 2 ^ 15 = 32768 /\ 2 ^ 16 = 65536 /\ 2 ^ 17 = 131072 /\ 2 ^ 18 = 262144
  /\ 2 ^ 19 = 524288 /\ 2 ^ 20 = 1048576 /\ 2 ^ 21 = 2097152 /\ 2 ^ 22 = 4194304
  /\ 2 ^ 23 = 8388608 /\ 2 ^ 24 = 16777216 /\ 2 ^ 25 = 33554432
  /\ 2 ^ 26 = 67108864 /\ 2 ^ 27 = 134217728 /\ 2 ^ 28 = 268435456
  /\ 2 ^ 29 = 536870912 /\ 2 ^ 30 = 1073741824
  BY SMT

LEMMA PowersBounded ==
  ASSUME NEW e \in Nat, e <= 30
  PROVE  2 ^ e \in Nat \ {0} /\ (e <= 5 => 2 ^ e <= 32) /\ (e >= 7 => 2 ^ e >= 128)
  <1>1. \A x \in 0 .. 30 :
          x \in {0, 1, 2, 3, 4, 5, 6, 7, 8, 9, 10, 11, 12, 13, 14, 15, 16, 17, 18, 19, 20, 21,
                 22, 23, 24, 25, 26, 27, 28, 29, 30}
    BY SMT
  <1>2. /\ \A x \in 0 .. 30 : 2 ^ x \in Nat \ {0}
        /\ \A x \in 0 .. 5 : 2 ^ x <= 32
        /\ \A x \in 7 .. 30 : 2 ^ x >= 128
    BY <1>1, Powers, SMTT(60)
  <1>3. e \in 0 .. 30 /\ (e <= 5 => e \in 0 .. 5) /\ (e >= 7 => e \in 7 .. 30)
    BY SMT
  <1> QED
    BY <1>2, <1>3, Zenon

\* The nearest multiple of b is half of b away at most.
LEMMA NearestIsNear ==
  ASSUME NEW a \in Nat, NEW b \in Nat, b = 64 \/ b = 125 \/ b = 128
  PROVE  /\ Nearest(a, b) \in Nat
         /\ 2 * (b * Nearest(a, b)) <= 2 * a + b
         /\ 2 * a <= 2 * (b * Nearest(a, b)) + b
         /\ a % b = 0 => b * Nearest(a, b) = a
  <1>1. CASE b = 64
    BY <1>1, SMT DEF Nearest
  <1>2. CASE b = 125
    BY <1>2, SMT DEF Nearest
  <1>3. CASE b = 128
    BY <1>3, SMT DEF Nearest
  <1> QED
    BY <1>1, <1>2, <1>3, SMT

LEMMA FactorsOrdered ==
  ASSUME NEW a \in Nat, NEW b \in Nat, NEW c \in Nat, a <= b
  PROVE  c * a <= c * b /\ c * a \in Nat /\ c * b \in Nat
  <1>1. PICK d \in Nat : b = a + d
    <2>1. b = a + (b - a) /\ b - a \in Nat
      BY SMT
    <2> QED
      BY <2>1, SMT
  <1>2. c * b = c * a + c * d /\ c * a \in Nat /\ c * d \in Nat
    BY <1>1, SMT
  <1> QED
    BY <1>1, <1>2, SMT

\* The 125th of n is a mantissa of 24 bits when multiplied by that power.
Normal(n, e) == 125 * 2 ^ 23 <= n * 2 ^ e /\ n * 2 ^ e < 125 * 2 ^ 24

\* Up to 1024 seconds of samples there is a power that fits.
LEMMA SomeFits ==
  ASSUME NEW n \in Nat, 1 <= n, n <= 16384000
  PROVE  \E e \in 0 .. 30 : Normal(n, e)
  <1> SUFFICES ASSUME \A e \in 0 .. 30 : ~Normal(n, e)
               PROVE  FALSE
    BY SMT
  <1>1. /\ ~Normal(n, 6) /\ ~Normal(n, 7) /\ ~Normal(n, 8) /\ ~Normal(n, 9) /\ ~Normal(n, 10)
        /\ ~Normal(n, 11) /\ ~Normal(n, 12) /\ ~Normal(n, 13) /\ ~Normal(n, 14) /\ ~Normal(n, 15)
        /\ ~Normal(n, 16) /\ ~Normal(n, 17) /\ ~Normal(n, 18) /\ ~Normal(n, 19) /\ ~Normal(n, 20)
        /\ ~Normal(n, 21) /\ ~Normal(n, 22) /\ ~Normal(n, 23) /\ ~Normal(n, 24) /\ ~Normal(n, 25)
        /\ ~Normal(n, 26) /\ ~Normal(n, 27) /\ ~Normal(n, 28) /\ ~Normal(n, 29) /\ ~Normal(n, 30)
    BY SMT
  <1> QED
    BY <1>1, Powers, SMTT(60) DEF Normal

LEMMA TheExponent ==
  ASSUME NEW n \in Nat, 1 <= n, n <= 16384000
  PROVE  \E e \in Nat :
           /\ 6 <= e /\ e <= 30
           /\ Normal(n, e)
           /\ Quotient(n) = [mantissa |-> Nearest(n * 2 ^ e, 125), exponent |-> e]
  <1> DEFINE exponent == CHOOSE e \in 0 .. 30 : Normal(n, e)
  <1>1. exponent \in 0 .. 30 /\ Normal(n, exponent)
    BY SomeFits, SMT
  <1>2. Quotient(n) = [mantissa |-> Nearest(n * 2 ^ exponent, 125),
                             exponent |-> exponent]
    BY SMT DEF Quotient, Normal
  <1> HIDE DEF exponent
  <1>3. exponent \notin 0 .. 5
    <2> SUFFICES ASSUME exponent \in 0 .. 5
                 PROVE  FALSE
      BY SMT
    <2>1. 2 ^ exponent \in Nat /\ 2 ^ exponent <= 32
      <3>1. exponent \in Nat /\ exponent <= 5
        BY SMT
      <3> QED
        BY <3>1, PowersBounded, SMT
    <2>2. n * 2 ^ exponent <= n * 32
      BY <2>1, FactorsOrdered, SMT
    <2> QED
      BY <1>1, <2>1, <2>2, Powers, SMT DEF Normal
  <1>4. exponent \in Nat /\ 6 <= exponent /\ exponent <= 30
    BY <1>1, <1>3, SMT
  <1> QED
    BY <1>1, <1>2, <1>4, SMT

\* The least n * 2 ^ e of them.
LeastProduct == 1048576000

\* What the product has over the exact value.
LEMMA NearlyAll ==
  ASSUME NEW m \in Nat, LeastProduct <= m
  PROVE  /\ Product(Nearest(m, 125)) \in Nat
         /\ m - 126 <= Product(Nearest(m, 125))
         /\ Product(Nearest(m, 125)) <= m + 126
         /\ m = LeastProduct => Product(Nearest(m, 125)) = m
  <1> DEFINE q == Nearest(m, 125)
             product == q * 125
             unit == IF product < 2 ^ 30 THEN 2 ^ 6 ELSE 2 ^ 7
             all == Nearest(product, unit) * unit
  <1>1. /\ q \in Nat /\ product \in Nat
        /\ m - 62 <= product /\ product <= m + 62
        /\ (m % 125 = 0 => product = m)
    <2>1. /\ q \in Nat /\ 2 * (125 * q) <= 2 * m + 125 /\ 2 * m <= 2 * (125 * q) + 125
          /\ (m % 125 = 0 => 125 * q = m)
      BY NearestIsNear, SMT
    <2> HIDE DEF q
    <2> QED
      BY <2>1, SMT
  <1>2. unit \in Nat /\ (unit = 64 \/ unit = 128)
    BY Powers, SMT
  <1>9. product < 1073741824 => unit = 64
    BY Powers, SMT
  <1>3. Product(q) = all
    BY SMT DEF Product
  <1> HIDE DEF q, unit, product
  <1>4. /\ Nearest(product, unit) \in Nat
        /\ 2 * (unit * Nearest(product, unit)) <= 2 * product + unit
        /\ 2 * product <= 2 * (unit * Nearest(product, unit)) + unit
        /\ product % unit = 0 => unit * Nearest(product, unit) = product
    BY <1>1, <1>2, NearestIsNear, Zenon
  <1>5. all \in Nat /\ all = unit * Nearest(product, unit)
    BY <1>2, <1>4, SMT
  <1> HIDE DEF all
  <1>6. product - 64 <= all /\ all <= product + 64
    BY <1>1, <1>2, <1>4, <1>5, SMT
  <1>7. m = LeastProduct => all = m
    <2> SUFFICES ASSUME m = LeastProduct
                 PROVE  all = m
      BY SMT
    <2>1. product = m
      BY <1>1, SMT DEF LeastProduct
    <2>2. unit = 64 /\ product % 64 = 0
      BY <2>1, <1>9, SMT DEF LeastProduct
    <2> QED
      BY <2>1, <2>2, <1>4, <1>5, SMT
  <1>8. all \in Nat /\ m - 126 <= all /\ all <= m + 126
    BY <1>1, <1>5, <1>6, SMT
  <1> QED
    BY <1>3, <1>7, <1>8, SMT DEF q

\* As many wholes of s as all comes closest to, or one less.
LEMMA WholesOf ==
  ASSUME NEW n \in Nat, 1 <= n, NEW s \in Nat, s > 0, NEW all \in Nat,
         n * s - s <= all, all < n * s + s
  PROVE  all \div s \in {n - 1, n}
  <1> DEFINE k == all \div s
  <1>1. k \in Nat /\ s * k <= all /\ all < s * k + s
    BY SMT
  <1> HIDE DEF k
  <1>2. n - 1 <= k
    <2> SUFFICES ASSUME k <= n - 2
                 PROVE  FALSE
      BY <1>1, SMT
    <2>1. k + 2 \in Nat /\ k + 2 <= n
      BY <1>1, SMT
    <2>2. s * (k + 2) <= s * n
      BY <2>1, FactorsOrdered, SMT
    <2>3. s * (k + 2) = s * k + 2 * s /\ s * n = n * s
      BY <1>1, SMT
    <2> QED
      BY <1>1, <2>2, <2>3, SMT
  <1>3. k <= n
    <2> SUFFICES ASSUME n + 1 <= k
                 PROVE  FALSE
      BY <1>1, SMT
    <2>1. s * (n + 1) <= s * k
      BY <1>1, FactorsOrdered, SMT
    <2>2. s * (n + 1) = n * s + s
      BY SMT
    <2> QED
      BY <1>1, <2>1, <2>2, SMT
  <1> QED
    BY <1>1, <1>2, <1>3, SMT DEF k

\* The milliseconds of up to 1024 seconds of samples.
LEMMA MillisecondsShortByOne ==
  ASSUME NEW n \in Nat, n <= 16384000
  PROVE  \/ Milliseconds(n) = n \div 16
         \/ n % 16 = 0 /\ Milliseconds(n) = n \div 16 - 1
  <1>1. CASE n = 0
    BY <1>1, SMT DEF Milliseconds
  <1>2. CASE n # 0
    <2>1. 1 <= n
      BY <1>2, SMT
    <2>2. PICK e \in Nat :
            /\ 6 <= e /\ e <= 30
            /\ Normal(n, e)
            /\ Quotient(n) = [mantissa |-> Nearest(n * 2 ^ e, 125), exponent |-> e]
      BY <2>1, TheExponent, SMT
    <2> DEFINE s == 2 ^ e
               m == n * s
               all == Product(Nearest(m, 125))
    <2>3. s \in Nat \ {0} /\ m \in Nat
      BY <2>2, PowersBounded, SMT
    <2>4. LeastProduct <= m
      BY <2>2, Powers, SMT DEF Normal, LeastProduct
    <2>5. Milliseconds(n) = (all \div s) \div 16
      BY <1>2, <2>2, SMT DEF Milliseconds
    <2>6. e = 6 => s = 64
      BY Powers, SMT
    <2>7. e # 6 => s >= 128
      BY <2>2, PowersBounded, SMT
    <2> HIDE DEF s
    <2>8. e = 6 => m = LeastProduct
      BY <2>1, <2>2, <2>3, <2>4, <2>6, Powers, SMT DEF m, LeastProduct
    <2>9. /\ all \in Nat /\ m - 126 <= all /\ all <= m + 126
          /\ (m = LeastProduct => all = m)
      BY <2>3, <2>4, NearlyAll, SMT
    <2> HIDE DEF m, all
    <2>10. n * s - s <= all /\ all < n * s + s
      <3>1. CASE e = 6
        BY <2>3, <2>6, <2>8, <2>9, <3>1, SMT DEF m
      <3>2. CASE e # 6
        BY <2>3, <2>7, <2>9, <3>2, SMT DEF m
      <3> QED
        BY <3>1, <3>2
    <2>11. all \div s \in {n - 1, n}
      BY <2>1, <2>3, <2>9, <2>10, WholesOf, SMT
    <2> QED
      BY <2>1, <2>5, <2>11, SMT
  <1> QED
    BY <1>1, <1>2, SMT

\* The cut is as promised, and what is samples is of the segment that was cut.
TimedInv ==
  /\ CutAsPromised
  /\ samples # -1 =>
       cutting = "cut" /\ samples = Milliseconds(NumberSamples)

LEMMA TimedInvariance == JobSpec => []TimedInv
  <1>1. JobInit => TimedInv
    <2>1. CutInit => CutAsPromised
      BY Widths DEF CutInit, CutAsPromised, TypeOK, WholeClipWhenItFits,
         CutFromMiddle
    <2> QED
      BY <2>1 DEF JobInit, TimedInv
  <1>2. TimedInv /\ [JobNext]_job => TimedInv'
    <2>1. ASSUME TimedInv, MakeSignature
          PROVE  TimedInv'
      <3>1. MiddleSegment /\ cutting = "decoded" /\ samples' = samples
        BY <2>1 DEF MakeSignature, MiddleSegment
      <3>2. CutAsPromised'
        BY <2>1, <3>1, CutEstablishes DEF TimedInv, CutAsPromised
      <3>3. samples' = -1
        BY <2>1, <3>1 DEF TimedInv
      <3> QED
        BY <3>2, <3>3 DEF TimedInv
    <2>2. ASSUME TimedInv, UNCHANGED cut
          PROVE  /\ CutAsPromised' /\ cutting' = cutting
                 /\ NumberSamples' = NumberSamples
      BY <2>2 DEF cut, TimedInv, CutAsPromised, TypeOK,
         WholeClipWhenItFits, CutFromMiddle, DurationSeconds,
         NumberSamples
    <2>3. ASSUME TimedInv, GetSignatureJson
          PROVE  TimedInv'
      <3>1. /\ UNCHANGED cut /\ cutting = "cut"
            /\ samples' = Milliseconds(NumberSamples)
        BY <2>3 DEF GetSignatureJson
      <3> QED
        BY <2>2, <2>3, <3>1 DEF TimedInv
    <2>4. ASSUME TimedInv, UNCHANGED job
          PROVE  TimedInv'
      <3>1. UNCHANGED cut /\ samples' = samples
        BY <2>4 DEF job
      <3> QED
        BY <2>2, <2>4, <3>1 DEF TimedInv
    <2> QED
      BY <2>1, <2>3, <2>4 DEF JobNext
  <1> QED
    BY <1>1, <1>2, PTL DEF JobSpec

\* Up to 1024 seconds, `get_signature_json` (communication.rs) reports the whole
\* milliseconds of the segment, or one less when it lasts a whole number of them.
THEOREM ReportedShortByOneAtMost ==
  SAMPLE_RATE_HZ = 16000 => (JobSpec => []ShortByOneAtMost)
  <1> DEFINE taken == segment.upto - segment.from
  <1> SUFFICES ASSUME SAMPLE_RATE_HZ = 16000
               PROVE  JobSpec => []ShortByOneAtMost
    OBVIOUS
  <1>1. ASSUME TimedInv, Reported, NumberSamples = taken,
               NumberSamples <= 1024 * SAMPLE_RATE_HZ
        PROVE  \/ samples = NumberSamples \div 16
               \/ /\ NumberSamples % 16 = 0
                  /\ samples = NumberSamples \div 16 - 1
    <2>1. taken \in Nat
      BY <1>1, Widths DEF TimedInv, CutAsPromised, TypeOK
    <2>2. taken <= 16384000
      BY <1>1, <2>1, SMT
    <2>3. samples = Milliseconds(taken)
      BY <1>1, SMT DEF TimedInv, Reported
    <2> HIDE DEF taken
    <2> QED
      BY <1>1, <2>1, <2>2, <2>3, MillisecondsShortByOne, SMT
  <1>2. TimedInv => ShortByOneAtMost
    BY <1>1 DEF ShortByOneAtMost
  <1> QED
    BY <1>2, TimedInvariance, PTL

-------------------------------------------------------------------------------
(* The encoder: its assertion holds for peaks in order, and its header says *)
(* what follows it.                                                        *)

SignatureFits == Fits(signature)

\* In a band, what was written of it and the pass of the last peak agree.
InBand ==
  pc = "peaks" =>
    /\ band \in DOMAIN signature.peaks
    /\ written \in 0 .. Len(signature.peaks[band])
    /\ fft_pass_number = IF written = 0 THEN 0 ELSE signature.peaks[band][written].pass
    /\ peaks_buffer \in Seq(Int)

\* A file no longer than a word of its header can say.
WordEnd == 65536 * 65536
FileFits == Len(cursor) - HeaderSize < WordEnd

Written ==
  /\ pc \in {"bands", "peaks"} =>
       cursor \in Seq(Int) /\ Len(cursor) >= BandsOffset
  /\ FileFits => HeaderDescribesFile

EncodesInv ==
  /\ SignatureFits
  /\ remaining \in Seq(DOMAIN signature.peaks)
  /\ pc \in {"header", "bands", "peaks", "encoded"}
  /\ InBand
  /\ Written

\* The bands come out of the sorted iterator, each of them, in ascending order.
LEMMA SortedGivesBands ==
  ASSUME NEW S \in SUBSET (0 .. 3)
  PROVE  /\ Sorted(S) \in Seq(S)
         /\ \A b \in S : \E i \in 1 .. Len(Sorted(S)) : Sorted(S)[i] = b
         /\ \A i, j \in 1 .. Len(Sorted(S)) : i < j => Sorted(S)[i] < Sorted(S)[j]
  <1> DEFINE n == Cardinality(S)
             upto(k) == {c \in S : c <= k}
             rank == [k \in S |-> Cardinality(upto(k))]
  <1>1. IsFiniteSet(S) /\ n \in Nat
    <2>1. \A m \in Nat : IsFiniteSet(0 .. m)
      BY FS_Interval
    <2> QED
      BY <2>1, FS_Subset, FS_CardinalityType
  <1>2. ASSUME NEW k \in S
        PROVE  IsFiniteSet(upto(k)) /\ Cardinality(upto(k)) \in 1 .. n
    <2>1. upto(k) \in SUBSET S /\ k \in upto(k)
      OBVIOUS
    <2>2. IsFiniteSet(upto(k)) /\ Cardinality(upto(k)) <= n
      BY <1>1, <2>1, FS_Subset
    <2>3. Cardinality(upto(k)) \in Nat /\ Cardinality(upto(k)) # 0
      BY <2>1, <2>2, FS_CardinalityType, FS_EmptySet
    <2> QED
      BY <1>1, <2>2, <2>3
  <1>3. ASSUME NEW j \in S, NEW k \in S, j < k
        PROVE  Cardinality(upto(j)) < Cardinality(upto(k))
    <2>1. upto(j) \in SUBSET upto(k)
      <3>1. ASSUME NEW c \in S, c <= j
            PROVE  c <= k
        BY <1>3, <3>1
      <3> QED
        BY <3>1
    <2>2. k \in upto(k) /\ k \notin upto(j)
      BY <1>3
    <2>3. upto(j) # upto(k)
      BY <2>2
    <2>4. /\ Cardinality(upto(j)) <= Cardinality(upto(k))
          /\ Cardinality(upto(j)) # Cardinality(upto(k))
      BY <1>2, <2>1, <2>3, FS_Subset
    <2>5. Cardinality(upto(j)) \in Nat /\ Cardinality(upto(k)) \in Nat
      BY <1>2, FS_CardinalityType
    <2> QED
      BY <2>4, <2>5
  <1>4. rank \in [S -> 1 .. n]
    BY <1>2
  <1>5. ASSUME NEW j \in S, NEW k \in S, rank[j] = rank[k]
        PROVE  j = k
    <2>1. j < k \/ j = k \/ k < j
      OBVIOUS
    <2>2. /\ Cardinality(upto(j)) = Cardinality(upto(k))
          /\ Cardinality(upto(j)) \in Nat /\ Cardinality(upto(k)) \in Nat
      BY <1>2, <1>5
    <2>3. /\ j < k => Cardinality(upto(j)) < Cardinality(upto(k))
          /\ k < j => Cardinality(upto(k)) < Cardinality(upto(j))
      BY <1>3
    <2> HIDE DEF upto
    <2> QED
      BY <2>1, <2>2, <2>3
  <1>6. rank \in Injection(S, 1 .. n)
    BY <1>4, <1>5, Fun_IsInj
  <1>7. IsFiniteSet(1 .. n) /\ Cardinality(1 .. n) = n
    BY <1>1, FS_Interval
  <1>8. rank \in Surjection(S, 1 .. n)
    BY <1>6, <1>7, FS_Injection
  <1>9. \A i \in 1 .. n : \E k \in S : Cardinality(upto(k)) = i
    BY <1>8 DEF Surjection
  <1>10. Sorted(S) = [i \in 1 .. n |-> CHOOSE b \in S : Cardinality(upto(b)) = i]
    BY DEF Sorted
  <1> DEFINE at(i) == CHOOSE b \in S : Cardinality(upto(b)) = i
             all == [i \in 1 .. n |-> at(i)]
  <1>11. ASSUME NEW i \in 1 .. n
         PROVE  at(i) \in S /\ Cardinality(upto(at(i))) = i
    BY <1>9
  <1>12. ASSUME NEW i \in 1 .. n, NEW j \in 1 .. n, i < j
         PROVE  at(i) < at(j)
    <2>0. \A b \in S : b \in Int
      OBVIOUS
    <2>1. at(i) \in S /\ at(j) \in S /\ at(i) \in Int /\ at(j) \in Int
      BY <1>11, <2>0, Zenon
    <2>2. /\ Cardinality(upto(at(i))) = i /\ Cardinality(upto(at(j))) = j
          /\ at(j) < at(i) => Cardinality(upto(at(j))) < Cardinality(upto(at(i)))
      BY <1>3, <1>11, <2>1
    <2> HIDE DEF at, upto
    <2>3. ~(at(j) < at(i)) /\ at(j) # at(i)
      BY <1>12, <2>2
    <2> QED
      BY <2>1, <2>3
  <1>13. ASSUME NEW b \in S
         PROVE  \E i \in 1 .. n : at(i) = b
    <2> DEFINE i == rank[b]
    <2>1. i \in 1 .. n /\ i = Cardinality(upto(b))
      BY <1>4
    <2>2. at(i) \in S /\ rank[at(i)] = i
      BY <1>11, <2>1
    <2>3. at(i) = b
      BY <1>5, <2>2
    <2> QED
      BY <2>1, <2>3
  <1> HIDE DEF n, at
  <1>14. all \in Seq(S) /\ Len(all) = n /\ \A i \in 1 .. n : all[i] = at(i)
    <2>1. n \in Nat /\ \A i \in 1 .. n : at(i) \in S
      BY <1>1, <1>11, Zenon
    <2> QED
      BY <2>1
  <1>15. Sorted(S) = all
    BY <1>10 DEF at
  <1> HIDE DEF all
  <1> QED
    BY <1>12, <1>13, <1>14, <1>15

LEMMA ConcatIsSeq ==
  ASSUME NEW s \in Seq(Int), NEW t \in Seq(Int)
  PROVE  s \o t \in Seq(Int) /\ Len(s \o t) = Len(s) + Len(t)
  OBVIOUS

LEMMA ConcatFour ==
  ASSUME NEW r \in Seq(Int), NEW s \in Seq(Int), NEW t \in Seq(Int), NEW u \in Seq(Int)
  PROVE  /\ r \o s \o t \o u \in Seq(Int)
         /\ Len(r \o s \o t \o u) = Len(r) + Len(s) + Len(t) + Len(u)
  <1> DEFINE first == r \o s
             second == first \o t
  <1>1. first \in Seq(Int) /\ Len(first) = Len(r) + Len(s)
    BY ConcatIsSeq, Zenon
  <1> HIDE DEF first
  <1>2. second \in Seq(Int) /\ Len(second) = Len(first) + Len(t)
    BY <1>1, ConcatIsSeq, Zenon
  <1> HIDE DEF second
  <1>3. second \o u \in Seq(Int) /\ Len(second \o u) = Len(second) + Len(u)
    BY <1>2, ConcatIsSeq, Zenon
  <1>4. Len(second \o u) = Len(r) + Len(s) + Len(t) + Len(u)
    BY <1>1, <1>2, <1>3
  <1> QED
    BY <1>3, <1>4 DEF first, second

LEMMA FourLongEqual ==
  ASSUME NEW S, NEW s \in Seq(S), NEW t \in Seq(S), Len(s) = 4, Len(t) = 4,
         s[1] = t[1], s[2] = t[2], s[3] = t[3], s[4] = t[4]
  PROVE  s = t
  BY SMTT(30)

LEMMA FourBytes ==
  ASSUME NEW a, NEW b, NEW c, NEW d
  PROVE  <<a, b>> \o <<c, d>> = <<a, b, c, d>>
  <1> DEFINE S == {a, b, c, d}
             s == <<a, b>> \o <<c, d>>
             t == <<a, b, c, d>>
  <1>1. s \in Seq(S)
    OBVIOUS
  <1>2. t \in Seq(S)
    OBVIOUS
  <1>3. Len(s) = 4 /\ Len(t) = 4
    OBVIOUS
  <1>4. s[1] = t[1] /\ s[2] = t[2] /\ s[3] = t[3] /\ s[4] = t[4]
    OBVIOUS
  <1> HIDE DEF s, t, S
  <1>5. s = t
    BY <1>1, <1>2, <1>3, <1>4, FourLongEqual
  <1> QED
    BY <1>5 DEF s, t

LEMMA BytesAreInts ==
  ASSUME NEW v \in Int
  PROVE  /\ v % 256 \in Int /\ (v \div 256) % 256 \in Int
         /\ v \div 65536 \in Int
  OBVIOUS

LEMMA HalvesOfWord ==
  ASSUME NEW v
  PROVE  /\ U16(v) = <<v % 256, (v \div 256) % 256>>
         /\ U32(v) = <<v % 256, (v \div 256) % 256, (v \div 65536) % 256,
                               ((v \div 65536) \div 256) % 256>>
  BY FourBytes DEF U16, U32

LEMMA BytesOfWord ==
  ASSUME NEW v \in Int
  PROVE  /\ U16(v) \in Seq(Int) /\ Len(U16(v)) = 2
         /\ U32(v) \in Seq(Int) /\ Len(U32(v)) = 4
  <1> DEFINE low == v % 256
             low2 == (v \div 256) % 256
             low3 == (v \div 65536) % 256
             low4 == ((v \div 65536) \div 256) % 256
  <1>1. low \in Int /\ low2 \in Int /\ low3 \in Int /\ low4 \in Int
    BY BytesAreInts
  <1>2. U16(v) = <<low, low2>> /\ U32(v) = <<low, low2, low3, low4>>
    BY HalvesOfWord
  <1> HIDE DEF low, low2, low3, low4
  <1>3. <<low, low2>> \in Seq(Int) /\ Len(<<low, low2>>) = 2
    BY <1>1
  <1>4. <<low, low2, low3, low4>> \in Seq(Int) /\ Len(<<low, low2, low3, low4>>) = 4
    BY <1>1
  <1> QED
    BY <1>2, <1>3, <1>4

\* A reader gets back the word that was written, if it fits one.
LEMMA WordReadBack ==
  ASSUME NEW v \in Nat, v < 65536 * 65536
  PROVE  (v % 256) + 256 * ((v \div 256) % 256)
           + 65536 * (((v \div 65536) % 256) + 256 * (((v \div 65536) \div 256) % 256)) = v
  <1> DEFINE second == v \div 256
             third == v \div 65536
             fourth == third \div 256
             low == v % 256
             low2 == second % 256
             low3 == third % 256
             low4 == fourth % 256
  <1>1. low = v - 256 * second /\ second \in Nat
    OBVIOUS
  <1>2. second \div 256 = third /\ third \in Nat
    OBVIOUS
  <1>3. third < 65536
    OBVIOUS
  <1> HIDE DEF second, third, low
  <1>4. low2 = second - 256 * third
    BY <1>1, <1>2
  <1>5. low3 = third - 256 * fourth /\ fourth \in 0 .. 255
    BY <1>2, <1>3
  <1> HIDE DEF fourth, low2, low3
  <1>6. low4 = fourth
    BY <1>5
  <1> HIDE DEF low4
  <1>7. low + 256 * low2 + 65536 * (low3 + 256 * low4) = v
    BY <1>1, <1>2, <1>4, <1>5, <1>6
  <1> QED
    BY <1>7 DEF low, low2, low3, low4, second, third, fourth

\* Where the parts of what is written at the end of a file come to lie.
Joins(whole, s, t) ==
  /\ whole \in Seq(Int) /\ Len(whole) = Len(s) + Len(t)
  /\ \A i \in 1 .. Len(s) : whole[i] = s[i]
  /\ \A i \in 1 .. Len(t) : whole[Len(s) + i] = t[i]

\* Bytes put behind others leave those where they are.
LEMMA Joined ==
  ASSUME NEW s \in Seq(Int), NEW t \in Seq(Int)
  PROVE  Joins(s \o t, s, t)
  <1> DEFINE whole == s \o t
  <1>1. /\ whole \in Seq(Int) /\ Len(whole) = Len(s) + Len(t)
        /\ \A i \in 1 .. Len(s) + Len(t) :
             whole[i] = IF i <= Len(s) THEN s[i] ELSE t[i - Len(s)]
    BY ConcatProperties
  <1> HIDE DEF whole
  <1>2. \A i \in 1 .. Len(s) : whole[i] = s[i]
    <2> TAKE i \in 1 .. Len(s)
    <2>1. i \in 1 .. Len(s) + Len(t) /\ i <= Len(s)
      OBVIOUS
    <2> QED
      BY <1>1, <2>1
  <1>3. \A i \in 1 .. Len(t) : whole[Len(s) + i] = t[i]
    <2> TAKE i \in 1 .. Len(t)
    <2>1. /\ Len(s) + i \in 1 .. Len(s) + Len(t) /\ ~(Len(s) + i <= Len(s))
          /\ (Len(s) + i) - Len(s) = i
      OBVIOUS
    <2> QED
      BY <1>1, <2>1
  <1>4. Joins(whole, s, t)
    BY <1>1, <1>2, <1>3, Zenon DEF Joins
  <1> QED
    BY <1>4 DEF whole

LaidOut(whole, file, marker, size, content, zeros) ==
  LET n == Len(file)
  IN  /\ whole \in Seq(Int) /\ Len(whole) = n + 8 + Len(content) + Len(zeros)
      /\ \A i \in 1 .. n : whole[i] = file[i]
      /\ \A i \in 1 .. 4 : whole[n + i] = marker[i] /\ whole[(n + 4) + i] = size[i]
      /\ \A i \in 1 .. Len(content) : whole[(n + 8) + i] = content[i]

\* The five parts of a band lie one behind the other.
LEMMA BandLaidOut ==
  ASSUME NEW file \in Seq(Int), NEW marker \in Seq(Int), NEW size \in Seq(Int),
         NEW content \in Seq(Int), NEW zeros \in Seq(Int),
         Len(marker) = 4, Len(size) = 4
  PROVE  LaidOut(file \o marker \o size \o content \o zeros, file, marker, size, content, zeros)
  <1> DEFINE n == Len(file)
  <1>0. n \in Nat /\ Len(file) = n
    OBVIOUS
  <1> HIDE DEF n
  <1> DEFINE a == file \o marker
             b == a \o size
             c == b \o content
             whole == c \o zeros
             m == Len(content)
  <1>1. m \in Nat /\ Len(zeros) \in Nat
    OBVIOUS
  <1> HIDE DEF m
  <1>2. /\ a \in Seq(Int) /\ Len(a) = n + 4
        /\ \A i \in 1 .. n : a[i] = file[i]
        /\ \A i \in 1 .. 4 : a[n + i] = marker[i]
    <2>1. Joins(a, file, marker)
      BY Joined, Zenon
    <2> HIDE DEF a
    <2> QED
      BY <1>0, <2>1 DEF Joins
  <1> HIDE DEF a
  <1>3. /\ b \in Seq(Int) /\ Len(b) = n + 8
        /\ \A i \in 1 .. n + 4 : b[i] = a[i]
        /\ \A i \in 1 .. 4 : b[(n + 4) + i] = size[i]
    <2>1. Joins(b, a, size)
      BY <1>2, Joined, Zenon
    <2> HIDE DEF b
    <2> QED
      BY <1>0, <1>2, <2>1 DEF Joins
  <1> HIDE DEF b
  <1>4. /\ c \in Seq(Int) /\ Len(c) = (n + 8) + m
        /\ \A i \in 1 .. n + 8 : c[i] = b[i]
        /\ \A i \in 1 .. m : c[(n + 8) + i] = content[i]
    <2>1. Joins(c, b, content)
      BY <1>3, Joined, Zenon
    <2> HIDE DEF c
    <2> QED
      BY <1>0, <1>3, <2>1 DEF Joins, m
  <1> HIDE DEF c
  <1>5. /\ whole \in Seq(Int) /\ Len(whole) = ((n + 8) + m) + Len(zeros)
        /\ \A i \in 1 .. (n + 8) + m : whole[i] = c[i]
    <2>1. Joins(whole, c, zeros)
      BY <1>4, Joined, Zenon
    <2> HIDE DEF whole
    <2> QED
      BY <1>0, <1>4, <2>1 DEF Joins
  <1> HIDE DEF whole
  <1>6. /\ \A i \in 1 .. n : whole[i] = file[i]
        /\ \A i \in 1 .. 4 : whole[n + i] = marker[i] /\ whole[(n + 4) + i] = size[i]
        /\ \A i \in 1 .. m : whole[(n + 8) + i] = content[i]
    <2>1. \A i \in 1 .. n : i \in 1 .. n + 4 /\ i \in 1 .. n + 8 /\ i \in 1 .. (n + 8) + m
      BY <1>0, <1>1
    <2>2. \A i \in 1 .. 4 :
            /\ n + i \in 1 .. n + 4 /\ n + i \in 1 .. n + 8 /\ n + i \in 1 .. (n + 8) + m
            /\ (n + 4) + i \in 1 .. n + 8 /\ (n + 4) + i \in 1 .. (n + 8) + m
      BY <1>0, <1>1
    <2>3. \A i \in 1 .. m : (n + 8) + i \in 1 .. (n + 8) + m
      BY <1>0, <1>1
    <2>4. \A i \in 1 .. n : whole[i] = file[i]
      BY <1>2, <1>3, <1>4, <1>5, <2>1, Zenon
    <2>5. \A i \in 1 .. 4 : whole[n + i] = marker[i]
      <3> TAKE i \in 1 .. 4
      <3>1. whole[n + i] = c[n + i] /\ c[n + i] = b[n + i] /\ b[n + i] = a[n + i]
        BY <1>0, <1>3, <1>4, <1>5, <2>2
      <3> QED
        BY <1>2, <3>1
    <2>6. \A i \in 1 .. 4 : whole[(n + 4) + i] = size[i]
      <3> TAKE i \in 1 .. 4
      <3>1. whole[(n + 4) + i] = c[(n + 4) + i] /\ c[(n + 4) + i] = b[(n + 4) + i]
        BY <1>4, <1>5, <2>2
      <3> QED
        BY <1>3, <3>1
    <2>7. \A i \in 1 .. m : whole[(n + 8) + i] = content[i]
      BY <1>4, <1>5, <2>3, Zenon
    <2> QED
      BY <2>4, <2>5, <2>6, <2>7, Zenon
  <1>7. Len(whole) = n + 8 + m + Len(zeros)
    BY <1>0, <1>1, <1>5
  <1> QED
    BY <1>5, <1>6, <1>7, Zenon DEF LaidOut, whole, a, b, c, m, n

\* The header is as long as it says, and declares the padded samples at its offset 40.
LEMMA HeaderHasItsSize ==
  ASSUME SignatureFits
  PROVE  /\ Header \in Seq(Int) /\ Len(Header) = BandsOffset
         /\ \A i \in 1 .. 4 : Header[40 + i] = U32(PaddedSamples)[i]
  <1> DEFINE magic == <<128, 37, 254, 202>>
             fixed == <<0, 156, 17, 148>>
             zero == U32(0)
             rate == U32(SampleRateId[signature.sample_rate_hz] * 2 ^ 27)
             declared == U32(PaddedSamples)
             flags == U32(15 * 2 ^ 19 + 262144)
             last == U32(2 ^ 30)
             IsWord(w) == w \in Seq(Int) /\ Len(w) = 4
  <1>1. IsWord(magic) /\ IsWord(fixed)
    OBVIOUS
  <1>2. IsWord(zero)
    BY BytesOfWord
  <1>3. 2 ^ 27 \in Int /\ 2 ^ 19 \in Int /\ 2 ^ 30 \in Int
    OBVIOUS
  <1>4. IsWord(rate)
    <2>1. SampleRateId[signature.sample_rate_hz] \in Int
      BY DEF SignatureFits, Fits, SampleRateId
    <2>2. \A n, m \in Int : n * m \in Int
      OBVIOUS
    <2> QED
      BY <1>3, <2>1, <2>2, BytesOfWord
  <1>5. IsWord(declared)
    <2>1. PaddedSamples \in Int
      BY DEF SignatureFits, Fits, PaddedSamples, SampleRateId
    <2> QED
      BY <2>1, BytesOfWord
  <1>6. IsWord(flags) /\ IsWord(last)
    <2>1. 15 * 2 ^ 19 + 262144 \in Int
      BY <1>3
    <2> QED
      BY <1>3, <2>1, BytesOfWord
  <1>7. Header
          = magic \o zero \o zero \o fixed \o zero \o zero \o zero \o rate \o zero \o zero
              \o declared \o flags \o last \o zero
    BY DEF Header
  <1> HIDE DEF magic, fixed, zero, rate, declared, flags, last
  <1> DEFINE first == magic \o zero \o zero \o fixed
             second == first \o zero \o zero \o zero
             third == second \o rate \o zero \o zero
             fourth == third \o declared \o flags \o last
  <1>8. /\ first \in Seq(Int)
        /\ Len(first) = Len(magic) + Len(zero) + Len(zero) + Len(fixed)
    BY <1>1, <1>2, ConcatFour, Zenon
  <1> HIDE DEF first
  <1>9. /\ second \in Seq(Int)
        /\ Len(second) = Len(first) + Len(zero) + Len(zero) + Len(zero)
    BY <1>2, <1>8, ConcatFour, Zenon
  <1> HIDE DEF second
  <1>10. /\ third \in Seq(Int)
         /\ Len(third) = Len(second) + Len(rate) + Len(zero) + Len(zero)
    BY <1>2, <1>4, <1>9, ConcatFour, Zenon
  <1> HIDE DEF third
  <1>11. /\ fourth \in Seq(Int)
         /\ Len(fourth) = Len(third) + Len(declared) + Len(flags) + Len(last)
    <2>1. third \in Seq(Int) /\ declared \in Seq(Int)
      BY <1>5, <1>10
    <2>2. flags \in Seq(Int) /\ last \in Seq(Int)
      BY <1>6
    <2> QED
      BY <2>1, <2>2, ConcatFour, ZenonT(40)
  <1> HIDE DEF fourth
  <1>12. /\ fourth \o zero \in Seq(Int)
         /\ Len(fourth \o zero) = Len(fourth) + Len(zero)
    BY <1>2, <1>11, ConcatIsSeq, Zenon
  <1>13. BandsOffset = 56
    BY DEF BandsOffset, HeaderSize
  <1>14. Len(fourth \o zero) = 56
    BY <1>1, <1>2, <1>4, <1>5, <1>6, <1>8, <1>9, <1>10, <1>11, <1>12
  <1>15. \A i \in 1 .. 4 : (fourth \o zero)[40 + i] = declared[i]
    <2> DEFINE whole == third \o declared \o flags \o last \o zero
    <2>1. Len(third) = 40
      BY <1>1, <1>2, <1>4, <1>8, <1>9, <1>10
    <2>2. /\ third \in Seq(Int) /\ declared \in Seq(Int) /\ flags \in Seq(Int)
          /\ last \in Seq(Int) /\ zero \in Seq(Int)
          /\ Len(declared) = 4 /\ Len(flags) = 4
      BY <1>2, <1>5, <1>6, <1>10
    <2>3. LaidOut(whole, third, declared, flags, last, zero)
      BY <2>2, BandLaidOut
    <2>4. whole = fourth \o zero
      BY DEF fourth
    <2> HIDE DEF whole
    <2>5. \A i \in 1 .. 4 : whole[Len(third) + i] = declared[i]
      BY <2>3, Zenon DEF LaidOut
    <2> QED
      BY <2>1, <2>4, <2>5
  <1>16. Header = fourth \o zero
    BY <1>7 DEF first, second, third, fourth
  <1> QED
    BY <1>12, <1>13, <1>14, <1>15, <1>16 DEF declared

LEMMA ElementOf ==
  ASSUME NEW S, NEW s \in Seq(S), NEW k \in 1 .. Len(s)
  PROVE  s[k] \in S
  OBVIOUS

\* t is s with four of its elements replaced by a word's.
Replaces(t, s, offset, word) ==
  /\ Len(t) = Len(s)
  /\ \A i \in 1 .. 4 : t[offset + i] = word[i]
  /\ \A i \in 1 .. Len(s) : i <= offset \/ i > offset + 4 => t[i] = s[i]

\* A word written inside a buffer replaces four of its bytes and no other.
LEMMA Overwritten ==
  ASSUME NEW S, NEW s \in Seq(S), NEW word \in Seq(S), Len(word) = 4,
         NEW offset \in Nat, offset + 4 <= Len(s)
  PROVE  /\ Overwrite(s, offset, word) \in Seq(S)
         /\ Replaces(Overwrite(s, offset, word), s, offset, word)
  <1> DEFINE byte(i) == IF i - offset \in 1 .. 4 THEN word[i - offset] ELSE s[i]
             over == [i \in 1 .. Len(s) |-> byte(i)]
  <1>1. DOMAIN s = 1 .. Len(s) /\ DOMAIN word = 1 .. 4 /\ Len(s) \in Nat
    OBVIOUS
  <1>2. Overwrite(s, offset, word) = over
    BY <1>1 DEF Overwrite
  <1>3. ASSUME NEW i \in 1 .. Len(s)
        PROVE  byte(i) \in S
    <2>1. CASE i - offset \in 1 .. 4
      <3>1. word[i - offset] \in S
        BY <2>1, ElementOf
      <3> QED
        BY <2>1, <3>1
    <2>2. CASE i - offset \notin 1 .. 4
      BY <2>2
    <2> QED
      BY <2>1, <2>2
  <1>4. ASSUME NEW i \in 1 .. 4
        PROVE  offset + i \in 1 .. Len(s) /\ byte(offset + i) = word[i]
    <2>1. offset + i \in 1 .. Len(s) /\ (offset + i) - offset = i
      BY <1>1
    <2> QED
      BY <2>1
  <1>5. ASSUME NEW i \in 1 .. Len(s), i <= offset \/ i > offset + 4
        PROVE  byte(i) = s[i]
    <2>1. i - offset \notin 1 .. 4
      BY <1>1, <1>5
    <2> QED
      BY <2>1
  <1> HIDE DEF byte
  <1>6. over \in Seq(S) /\ Len(over) = Len(s)
    BY <1>1, <1>3
  <1>7. /\ \A i \in 1 .. 4 : over[offset + i] = word[i]
        /\ \A i \in 1 .. Len(s) : i <= offset \/ i > offset + 4 => over[i] = s[i]
    BY <1>4, <1>5
  <1> HIDE DEF over
  <1> QED
    BY <1>2, <1>6, <1>7 DEF Replaces

LEMMA WordBytes ==
  ASSUME NEW S, NEW s \in Seq(S), NEW o \in Nat, o + 4 <= Len(s)
  PROVE  /\ SubSeq(s, o + 1, o + 4) \in Seq(S)
         /\ Len(SubSeq(s, o + 1, o + 4)) = 4
         /\ \A i \in 1 .. 4 : SubSeq(s, o + 1, o + 4)[i] = s[o + i]
  <1> DEFINE m == o + 1
             n == o + 4
             word == SubSeq(s, m, n)
  <1>1. /\ m \in Int /\ n \in Int /\ m <= n /\ n - m + 1 = 4
        /\ (\A i \in m .. n : s[i] \in S) /\ \A i \in 1 .. 4 : m + i - 1 = o + i
    OBVIOUS
  <1> HIDE DEF m, n
  <1>2. /\ word \in Seq(S)
        /\ Len(word) = IF m <= n THEN n - m + 1 ELSE 0
        /\ \A i \in 1 .. n - m + 1 : word[i] = s[m + i - 1]
    BY <1>1, SubSeqProperties
  <1> HIDE DEF word
  <1>3. word \in Seq(S) /\ Len(word) = 4 /\ \A i \in 1 .. 4 : word[i] = s[o + i]
    BY <1>1, <1>2
  <1> QED
    BY <1>3 DEF word, m, n

LEMMA SameRest ==
  ASSUME NEW S, NEW s \in Seq(S), NEW t \in Seq(S), Len(s) = Len(t),
         NEW k \in Nat \ {0}, k <= Len(s), \A i \in k .. Len(s) : s[i] = t[i]
  PROVE  SubSeq(s, k, Len(s)) = SubSeq(t, k, Len(t))
  <1> DEFINE n == Len(s) - k + 1
             a == SubSeq(s, k, Len(s))
             b == SubSeq(t, k, Len(t))
  <1>1. n \in Nat /\ Len(s) \in Int /\ Len(t) \in Int /\ k \in Int /\ k <= Len(t)
    OBVIOUS
  <1>2. (\A i \in k .. Len(s) : s[i] \in S) /\ (\A i \in k .. Len(t) : t[i] \in S)
    OBVIOUS
  <1>3. a \in Seq(S) /\ Len(a) = n /\ \A i \in 1 .. n : a[i] = s[k + i - 1]
    BY <1>1, <1>2, SubSeqProperties
  <1>4. b \in Seq(S) /\ Len(b) = n /\ \A i \in 1 .. n : b[i] = t[k + i - 1]
    BY <1>1, <1>2, SubSeqProperties
  <1>5. \A i \in 1 .. n : k + i - 1 \in k .. Len(s)
    BY <1>1
  <1> HIDE DEF a, b, n
  <1>6. \A i \in 1 .. n : a[i] = b[i]
    BY <1>3, <1>4, <1>5
  <1>7. a = b
    BY <1>3, <1>4, <1>6, SeqEqual
  <1> QED
    BY <1>7 DEF a, b

\* A longer file, or one whose header was filled in since: past the header it goes on
\* alike, and declares as many samples.
Alike(file, other) ==
  \E S : /\ file \in Seq(S) /\ other \in Seq(S) /\ Len(file) <= Len(other)
         /\ \A i \in 57 .. Len(file) : other[i] = file[i]
         /\ \A i \in 41 .. 44 : other[i] = file[i]

\* The completed header tells the file's size twice and its checksum, and what
\* follows it is as it was.
LEMMA HeaderCompleted ==
  ASSUME NEW buffer \in Seq(Int), Len(buffer) >= 56, Len(buffer) - 48 < WordEnd
  PROVE  LET file == Completed(buffer)
         IN  /\ Len(file) = Len(buffer)
             /\ Alike(buffer, file)
             /\ WordAt(file, 8) = Len(buffer) - 48
             /\ WordAt(file, 52) = Len(buffer) - 48
             /\ SubSeq(file, 5, 8) = U32(Checksum(SubSeq(file, 9, Len(file))))
  <1> DEFINE n == Len(buffer) - 48
             size == U32(n)
             once == Overwrite(buffer, 8, size)
             sized == Overwrite(once, 52, size)
             checksum == Checksum(SubSeq(sized, 9, Len(sized)))
             sum == U32(checksum)
             file == Overwrite(sized, 4, sum)
             S == Int \cup {sum[1], sum[2], sum[3], sum[4]}
  <1>1. Completed(buffer) = file
    BY DEF Completed, HeaderSize, SizeOffset,
       SecondSizeOffset, ChecksumOffset
  <1>2. n \in Nat /\ n < WordEnd
    OBVIOUS
  <1> HIDE DEF n
  <1>3. size \in Seq(Int) /\ Len(size) = 4
    BY <1>2, BytesOfWord
  <1>4. size[1] + 256 * size[2] + 65536 * (size[3] + 256 * size[4]) = n
    <2> DEFINE b1 == n % 256
               b2 == (n \div 256) % 256
               b3 == (n \div 65536) % 256
               b4 == ((n \div 65536) \div 256) % 256
    <2>1. b1 + 256 * b2 + 65536 * (b3 + 256 * b4) = n
      BY <1>2, WordReadBack DEF WordEnd
    <2>2. size = <<b1, b2, b3, b4>>
      BY HalvesOfWord
    <2> HIDE DEF b1, b2, b3, b4, size
    <2> QED
      BY <2>1, <2>2
  <1>5. sum = <<sum[1], sum[2], sum[3], sum[4]>>
    <2> HIDE DEF checksum
    <2> DEFINE b1 == checksum % 256
               b2 == (checksum \div 256) % 256
               b3 == (checksum \div 65536) % 256
               b4 == ((checksum \div 65536) \div 256) % 256
    <2>1. sum = <<b1, b2, b3, b4>>
      BY HalvesOfWord
    <2> HIDE DEF b1, b2, b3, b4, sum
    <2> QED
      BY <2>1
  <1> HIDE DEF size, sum
  <1>6. sum \in Seq(S) /\ Len(sum) = 4
    <2>1. <<sum[1], sum[2], sum[3], sum[4]>> \in Seq(S)
      OBVIOUS
    <2>2. Len(<<sum[1], sum[2], sum[3], sum[4]>>) = 4
      OBVIOUS
    <2> QED
      BY <1>5, <2>1, <2>2, Zenon
  <1>7. once \in Seq(Int) /\ Replaces(once, buffer, 8, size)
    <2>1. 8 \in Nat /\ 8 + 4 <= Len(buffer)
      OBVIOUS
    <2> QED
      BY <1>3, <2>1, Overwritten, Zenon
  <1> HIDE DEF once
  <1>8. sized \in Seq(Int) /\ Replaces(sized, once, 52, size)
    <2>1. 52 \in Nat /\ 52 + 4 <= Len(once)
      BY <1>7 DEF Replaces
    <2> QED
      BY <1>3, <1>7, <2>1, Overwritten, Zenon
  <1> HIDE DEF sized, S
  <1>9. sized \in Seq(S)
    BY <1>8 DEF S
  <1>10. file \in Seq(S) /\ Replaces(file, sized, 4, sum)
    <2>1. 4 \in Nat /\ 4 + 4 <= Len(sized)
      BY <1>7, <1>8 DEF Replaces
    <2> QED
      BY <1>6, <1>9, <2>1, Overwritten, Zenon
  <1> HIDE DEF file
  <1>11. Len(once) = Len(buffer) /\ Len(sized) = Len(buffer) /\ Len(file) = Len(buffer)
    BY <1>7, <1>8, <1>10 DEF Replaces
  <1>12. WordAt(file, 8) = n /\ WordAt(file, 52) = n
    <2>1. \A i \in 9 .. 56 : file[i] = sized[i]
      <3>1. \A i \in 1 .. Len(buffer) : i > 8 => file[i] = sized[i]
        BY <1>10, <1>11 DEF Replaces
      <3>2. \A i \in 9 .. 56 : i \in 1 .. Len(buffer) /\ i > 8
        OBVIOUS
      <3> QED
        BY <3>1, <3>2
    <2>2. \A i \in 1 .. 52 : sized[i] = once[i]
      <3>1. \A i \in 1 .. Len(buffer) : i <= 52 => sized[i] = once[i]
        BY <1>8, <1>11 DEF Replaces
      <3>2. \A i \in 1 .. 52 : i \in 1 .. Len(buffer) /\ i <= 52
        OBVIOUS
      <3> QED
        BY <3>1, <3>2
    <2>3. once[9] = size[1] /\ once[10] = size[2] /\ once[11] = size[3] /\ once[12] = size[4]
      <3>1. \A i \in 1 .. 4 : once[8 + i] = size[i]
        BY <1>7 DEF Replaces
      <3> QED
        BY <3>1
    <2>4. /\ sized[53] = size[1] /\ sized[54] = size[2] /\ sized[55] = size[3]
          /\ sized[56] = size[4]
      <3>1. \A i \in 1 .. 4 : sized[52 + i] = size[i]
        BY <1>8 DEF Replaces
      <3> QED
        BY <3>1
    <2>5. file[9] = size[1] /\ file[10] = size[2] /\ file[11] = size[3] /\ file[12] = size[4]
      <3>1. /\ file[9] = sized[9] /\ file[10] = sized[10]
            /\ file[11] = sized[11] /\ file[12] = sized[12]
        <4>1. 9 \in 9 .. 56 /\ 10 \in 9 .. 56 /\ 11 \in 9 .. 56 /\ 12 \in 9 .. 56
          OBVIOUS
        <4> QED
          BY <2>1, <4>1, Zenon
      <3>2. /\ sized[9] = once[9] /\ sized[10] = once[10]
            /\ sized[11] = once[11] /\ sized[12] = once[12]
        <4>1. 9 \in 1 .. 52 /\ 10 \in 1 .. 52 /\ 11 \in 1 .. 52 /\ 12 \in 1 .. 52
          OBVIOUS
        <4> QED
          BY <2>2, <4>1, Zenon
      <3> QED
        BY <2>3, <3>1, <3>2
    <2>6. file[53] = size[1] /\ file[54] = size[2] /\ file[55] = size[3] /\ file[56] = size[4]
      <3>1. /\ file[53] = sized[53] /\ file[54] = sized[54]
            /\ file[55] = sized[55] /\ file[56] = sized[56]
        <4>1. 53 \in 9 .. 56 /\ 54 \in 9 .. 56 /\ 55 \in 9 .. 56 /\ 56 \in 9 .. 56
          OBVIOUS
        <4> QED
          BY <2>1, <4>1, Zenon
      <3> QED
        BY <2>4, <3>1
    <2>7. WordAt(file, 8) = n
      <3>1. WordAt(file, 8)
              = file[9] + 256 * file[10] + 65536 * (file[11] + 256 * file[12])
        BY DEF WordAt, HalfAt
      <3> QED
        BY <1>4, <2>5, <3>1
    <2>8. WordAt(file, 52) = n
      <3>1. WordAt(file, 52)
              = file[53] + 256 * file[54] + 65536 * (file[55] + 256 * file[56])
        BY DEF WordAt, HalfAt
      <3> QED
        BY <1>4, <2>6, <3>1
    <2> QED
      BY <2>7, <2>8
  <1>13. SubSeq(file, 9, Len(file)) = SubSeq(sized, 9, Len(sized))
    <2>1. \A i \in 9 .. Len(file) : file[i] = sized[i]
      <3>1. \A i \in 1 .. Len(buffer) : i > 8 => file[i] = sized[i]
        BY <1>10, <1>11 DEF Replaces
      <3>2. \A i \in 9 .. Len(file) : i \in 1 .. Len(buffer) /\ i > 8
        BY <1>11
      <3> QED
        BY <3>1, <3>2
    <2>2. Len(file) = Len(sized) /\ 9 <= Len(file) /\ 9 \in Nat \ {0}
      BY <1>11
    <2> QED
      BY <1>9, <1>10, <2>1, <2>2, SameRest, Zenon
  <1>14. SubSeq(file, 5, 8) = sum
    <2> DEFINE t == SubSeq(file, 5, 8)
    <2>1. 4 \in Nat /\ 4 + 4 <= Len(file) /\ 4 + 1 = 5 /\ 4 + 4 = 8
      BY <1>11
    <2>2. t \in Seq(S) /\ Len(t) = 4 /\ \A i \in 1 .. 4 : t[i] = file[4 + i]
      BY <1>10, <2>1, WordBytes
    <2> HIDE DEF t
    <2>3. \A i \in 1 .. 4 : t[i] = sum[i]
      BY <1>10, <2>2 DEF Replaces
    <2>4. t[1] = sum[1] /\ t[2] = sum[2] /\ t[3] = sum[3] /\ t[4] = sum[4]
      BY <2>3
    <2>5. t = sum
      BY <1>6, <2>2, <2>4, FourLongEqual, Zenon
    <2> QED
      BY <2>5 DEF t
  <1>15. sum = U32(Checksum(SubSeq(file, 9, Len(file))))
    BY <1>13 DEF sum
  <1>16. Alike(buffer, file)
    <2>1. buffer \in Seq(S)
      BY DEF S
    <2>2. ASSUME NEW i \in 1 .. Len(buffer), i \in 41 .. 44 \/ i > 56
          PROVE  file[i] = buffer[i]
      <3>1. i > 12 /\ (i <= 52 \/ i > 56)
        BY <2>2
      <3>2. once[i] = buffer[i]
        BY <1>7, <3>1 DEF Replaces
      <3>3. sized[i] = once[i]
        BY <1>8, <1>11, <3>1 DEF Replaces
      <3>4. file[i] = sized[i]
        BY <1>10, <1>11, <3>1 DEF Replaces
      <3> QED
        BY <3>2, <3>3, <3>4
    <2>3. ASSUME NEW i \in 57 .. Len(buffer)
          PROVE  file[i] = buffer[i]
      <3>1. i \in 1 .. Len(buffer) /\ i > 56
        OBVIOUS
      <3> QED
        BY <2>2, <3>1
    <2>4. ASSUME NEW i \in 41 .. 44
          PROVE  file[i] = buffer[i]
      <3>1. i \in 1 .. Len(buffer)
        OBVIOUS
      <3> QED
        BY <2>2, <3>1
    <2>7. Len(buffer) <= Len(file)
      BY <1>11
    <2> QED
      BY <1>10, <2>1, <2>3, <2>4, <2>7, Zenon DEF Alike
  <1> QED
    BY <1>1, <1>11, <1>12, <1>14, <1>15, <1>16 DEF n

\* What is written of a band's peaks, and of the bands, is bytes.
LEMMA PeakIsBytes ==
  ASSUME NEW peak \in [pass : Nat, magnitude : Nat, bin : Int], fft_pass_number \in Nat
  PROVE  PeakBytes(peak) \in Seq(Int)
  <1> DEFINE distance == peak.pass - fft_pass_number
             values == U16(peak.magnitude) \o U16(peak.bin)
             pass == U32(peak.pass)
  <1>1. peak.pass \in Int /\ peak.magnitude \in Int /\ peak.bin \in Int /\ distance \in Int
    OBVIOUS
  <1>2. values \in Seq(Int) /\ pass \in Seq(Int)
    <2>1. /\ U16(peak.magnitude) \in Seq(Int) /\ U16(peak.bin) \in Seq(Int)
          /\ pass \in Seq(Int)
      BY <1>1, BytesOfWord
    <2> QED
      BY <2>1, ConcatIsSeq
  <1>3. PeakBytes(peak) \in {<<255>> \o pass \o <<0>> \o values, <<distance>> \o values}
    BY DEF PeakBytes
  <1> HIDE DEF distance, values, pass
  <1>4. <<255>> \in Seq(Int) /\ <<0>> \in Seq(Int) /\ <<distance>> \in Seq(Int)
    BY <1>1
  <1>5. <<255>> \o pass \o <<0>> \o values \in Seq(Int)
    BY <1>2, <1>4, ConcatFour, Zenon
  <1>6. <<distance>> \o values \in Seq(Int)
    BY <1>2, <1>4, ConcatIsSeq, Zenon
  <1> QED
    BY <1>3, <1>5, <1>6

\* The padding is of zeros, as many as bring the content to a word.
LEMMA PaddingIsBytes ==
  ASSUME NEW content \in Seq(Int)
  PROVE  /\ Padding(content) \in Seq(Int) /\ Len(Padding(content)) \in Nat
         /\ Len(Padding(content)) = (4 - (Len(content) % 4)) % 4
  <1> DEFINE m == (4 - (Len(content) % 4)) % 4
  <1>1. m \in Nat
    OBVIOUS
  <1>2. Padding(content) = [i \in 1 .. m |-> 0]
    BY Zenon DEF Padding
  <1> HIDE DEF m
  <1>3. [i \in 1 .. m |-> 0] \in Seq(Int) /\ Len([i \in 1 .. m |-> 0]) = m
    BY <1>1
  <1> QED
    BY <1>1, <1>2, <1>3, Zenon DEF m

LEMMA BandIsBytes ==
  ASSUME cursor \in Seq(Int), peaks_buffer \in Seq(Int), band \in Int
  PROVE  LET file == cursor \o U32(Marker(band))
                       \o U32(Len(peaks_buffer)) \o peaks_buffer
                       \o Padding(peaks_buffer)
         IN  file \in Seq(Int) /\ Len(file) >= Len(cursor)
  <1> DEFINE marker == U32(Marker(band))
             size == U32(Len(peaks_buffer))
             zeros == Padding(peaks_buffer)
             content == cursor \o marker \o size \o peaks_buffer
  <1>1. marker \in Seq(Int) /\ Len(marker) = 4
    <2>1. Marker(band) \in Int
      BY DEF Marker
    <2> QED
      BY <2>1, BytesOfWord
  <1>2. size \in Seq(Int) /\ Len(size) = 4
    <2>1. Len(peaks_buffer) \in Int
      OBVIOUS
    <2> QED
      BY <2>1, BytesOfWord
  <1>3. zeros \in Seq(Int) /\ Len(zeros) \in Nat
    BY PaddingIsBytes
  <1> HIDE DEF marker, size, zeros
  <1>4. /\ content \in Seq(Int)
        /\ Len(content) = Len(cursor) + Len(marker) + Len(size) + Len(peaks_buffer)
    BY <1>1, <1>2, ConcatFour, ZenonT(40)
  <1> HIDE DEF content
  <1>5. content \o zeros \in Seq(Int) /\ Len(content \o zeros) = Len(content) + Len(zeros)
    BY <1>3, <1>4, ConcatIsSeq, Zenon
  <1>6. Len(content \o zeros) >= Len(cursor)
    <2>1. Len(peaks_buffer) \in Nat /\ Len(cursor) \in Nat
      OBVIOUS
    <2> QED
      BY <1>1, <1>2, <1>3, <1>4, <1>5, <2>1
  <1> QED
    BY <1>5, <1>6 DEF content, marker, size, zeros

LEMMA EncoderStarts ==
  ASSUME Init
  PROVE  EncodesInv /\ pc = "header"
  <1>1. signature \in Signatures /\ pc = "header"
    BY DEF Init
  <1>2. SignatureFits
    BY <1>1, SignaturesAssumption DEF SignatureFits
  <1>3. remaining \in Seq(DOMAIN signature.peaks)
    <2>1. remaining = Sorted(DOMAIN signature.peaks)
      BY DEF Init
    <2> QED
      BY <1>2, <2>1, SortedGivesBands DEF SignatureFits, Fits
  <1> QED
    BY <1>1, <1>2, <1>3 DEF EncodesInv, InBand, Written, HeaderDescribesFile

LEMMA HeaderKeeps ==
  ASSUME EncodesInv, WriteHeader
  PROVE  EncodesInv'
  <1>1. signature.sample_rate_hz \in DOMAIN SampleRateId
    BY DEF EncodesInv, SignatureFits, Fits
  <1>2. /\ cursor' = Header /\ pc' = "bands"
        /\ signature' = signature /\ remaining' = remaining
    BY <1>1 DEF WriteHeader
  <1>3. cursor' \in Seq(Int) /\ Len(cursor') = BandsOffset
    BY <1>2, HeaderHasItsSize DEF EncodesInv
  <1>4. BandsOffset = 56
    BY DEF BandsOffset, HeaderSize
  <1>5. Written'
    BY <1>2, <1>3, <1>4 DEF Written, HeaderDescribesFile, BandsOffset,
       HeaderSize
  <1> QED
    BY <1>2, <1>5 DEF EncodesInv, SignatureFits, Fits, InBand

LEMMA BandKeeps ==
  ASSUME EncodesInv, StartBand
  PROVE  EncodesInv'
  <1>1. /\ band' = Head(remaining) /\ remaining' = Tail(remaining) /\ remaining # <<>>
        /\ written' = 0 /\ fft_pass_number' = 0 /\ peaks_buffer' = <<>> /\ pc' = "peaks"
        /\ signature' = signature /\ cursor' = cursor /\ pc = "bands"
    BY DEF StartBand
  <1>2. band' \in DOMAIN signature.peaks /\ remaining' \in Seq(DOMAIN signature.peaks)
    BY <1>1 DEF EncodesInv
  <1>3. InBand'
    <2>1. 0 \in 0 .. Len(signature.peaks[band'])
      BY <1>2 DEF EncodesInv, SignatureFits, Fits, PassesInOrder
    <2>2. peaks_buffer' \in Seq(Int)
      BY <1>1
    <2> QED
      BY <1>1, <1>2, <2>1, <2>2 DEF InBand
  <1>4. Written'
    BY <1>1 DEF EncodesInv, Written, HeaderDescribesFile
  <1> QED
    BY <1>1, <1>2, <1>3, <1>4 DEF EncodesInv, SignatureFits, Fits

\* The assertion on the order of the peaks holds: a band starts anew at pass 0.
LEMMA PeakKeeps ==
  ASSUME EncodesInv, WritePeak
  PROVE  EncodesInv'
  <1> DEFINE list == signature.peaks[band]
             peak == list[written + 1]
  <1>1. /\ pc = "peaks" /\ written < Len(list)
        /\ signature' = signature /\ cursor' = cursor /\ remaining' = remaining
        /\ band' = band
    BY DEF WritePeak
  <1>2. /\ band \in DOMAIN signature.peaks /\ written \in 0 .. Len(list)
        /\ fft_pass_number = IF written = 0 THEN 0 ELSE list[written].pass
        /\ peaks_buffer \in Seq(Int)
    BY <1>1 DEF EncodesInv, InBand
  <1>3. PassesInOrder(list)
    BY <1>2 DEF EncodesInv, SignatureFits, Fits
  <1> HIDE DEF list
  <1>4. /\ peak \in [pass : Nat, magnitude : Nat, bin : Int]
        /\ fft_pass_number \in Nat /\ peak.pass >= fft_pass_number
    <2>1. Len(list) \in Nat /\ written + 1 \in 1 .. Len(list)
      BY <1>1, <1>2, <1>3 DEF PassesInOrder
    <2>2. peak \in [pass : Nat, magnitude : Nat, bin : Int]
      BY <1>3, <2>1 DEF PassesInOrder
    <2>3. CASE written = 0
      BY <1>2, <2>2, <2>3
    <2>4. CASE written # 0
      <3>1. written \in 1 .. Len(list) /\ written + 1 \in 2 .. Len(list)
            /\ (written + 1) - 1 = written
        BY <1>2, <2>1, <2>4
      <3>2. list[written] \in [pass : Nat, magnitude : Nat, bin : Int]
        BY <1>3, <3>1 DEF PassesInOrder
      <3>3. list[written].pass <= list[written + 1].pass
        BY <1>3, <3>1 DEF PassesInOrder
      <3> QED
        BY <1>2, <2>2, <2>4, <3>2, <3>3
    <2> QED
      BY <2>3, <2>4
  <1>5. /\ peaks_buffer' = peaks_buffer \o PeakBytes(peak)
        /\ fft_pass_number' = peak.pass
        /\ written' = written + 1
        /\ pc' = pc
    BY <1>4 DEF WritePeak, list
  <1>6. peaks_buffer' \in Seq(Int)
    <2>1. PeakBytes(peak) \in Seq(Int)
      BY <1>4, PeakIsBytes
    <2> QED
      BY <1>2, <1>5, <2>1, ConcatIsSeq
  <1>7. InBand'
    <2>1. written' \in 0 .. Len(list) /\ written' # 0
      BY <1>1, <1>2, <1>3, <1>5 DEF PassesInOrder
    <2>2. fft_pass_number' = list[written'].pass
      BY <1>5
    <2>3. signature'.peaks[band'] = list
      BY <1>1 DEF list
    <2> QED
      BY <1>1, <1>2, <1>6, <2>1, <2>2, <2>3 DEF InBand
  <1>8. Written'
    BY <1>1, <1>5 DEF EncodesInv, Written, HeaderDescribesFile
  <1> QED
    BY <1>1, <1>5, <1>7, <1>8 DEF EncodesInv, SignatureFits, Fits

LEMMA BandEndKeeps ==
  ASSUME EncodesInv, EndBand
  PROVE  EncodesInv'
  <1>1. /\ cursor' = cursor \o U32(Marker(band))
                       \o U32(Len(peaks_buffer)) \o peaks_buffer
                       \o Padding(peaks_buffer)
        /\ pc = "peaks" /\ pc' = "bands"
        /\ signature' = signature /\ remaining' = remaining
    BY DEF EndBand
  <1>2. /\ cursor \in Seq(Int) /\ Len(cursor) >= BandsOffset
        /\ peaks_buffer \in Seq(Int) /\ band \in Int
    <2>1. cursor \in Seq(Int) /\ Len(cursor) >= BandsOffset
      BY <1>1 DEF EncodesInv, Written
    <2>2. peaks_buffer \in Seq(Int) /\ band \in DOMAIN signature.peaks
      BY <1>1 DEF EncodesInv, InBand
    <2>3. DOMAIN signature.peaks \subseteq 0 .. 3
      BY DEF EncodesInv, SignatureFits, Fits
    <2>4. band \in 0 .. 3
      BY <2>2, <2>3, Zenon
    <2>5. band \in Int
      BY <2>4
    <2> QED
      BY <2>1, <2>2, <2>5, Zenon
  <1>3. cursor' \in Seq(Int) /\ Len(cursor') >= Len(cursor)
    BY <1>1, <1>2, BandIsBytes
  <1>4. Len(cursor') >= BandsOffset
    <2>1. Len(cursor) \in Int /\ Len(cursor') \in Int /\ BandsOffset \in Int
      BY <1>2, <1>3 DEF BandsOffset, HeaderSize
    <2> QED
      BY <1>2, <1>3, <2>1
  <1>5. Written'
    <2>1. Len(cursor') >= BandsOffset'
      BY <1>4 DEF BandsOffset, HeaderSize
    <2> QED
      BY <1>1, <1>3, <2>1 DEF Written, HeaderDescribesFile
  <1> QED
    BY <1>1, <1>5 DEF EncodesInv, SignatureFits, Fits, InBand

LEMMA FinishKeeps ==
  ASSUME EncodesInv, Finish
  PROVE  EncodesInv'
  <1>1. /\ cursor' = Completed(cursor)
        /\ pc = "bands" /\ pc' = "encoded"
        /\ signature' = signature /\ remaining' = remaining
    BY DEF Finish
  <1>2. cursor \in Seq(Int) /\ Len(cursor) >= 56
    BY <1>1 DEF EncodesInv, Written, BandsOffset, HeaderSize
  <1>3. ASSUME FileFits'
        PROVE  HeaderDescribesFile'
    <2>1. Len(cursor') - 48 < WordEnd
      BY <1>3 DEF FileFits, HeaderSize
    <2>2. Len(cursor') = Len(cursor)
      BY <1>1 DEF Completed, Overwrite
    <2>3. /\ WordAt(cursor', 8) = Len(cursor') - 48
          /\ WordAt(cursor', 52) = Len(cursor') - 48
          /\ SubSeq(cursor', 5, 8)
               = U32(Checksum(SubSeq(cursor', 9, Len(cursor'))))
      BY <1>1, <1>2, <2>1, <2>2, HeaderCompleted
    <2> QED
      BY <2>3 DEF HeaderDescribesFile, HeaderSize, SizeOffset,
         SecondSizeOffset, ChecksumOffset
  <1>4. Written'
    BY <1>1, <1>3 DEF Written
  <1> QED
    BY <1>1, <1>4 DEF EncodesInv, SignatureFits, Fits, InBand

LEMMA EncoderKeeps ==
  ASSUME EncodesInv, Next
  PROVE  EncodesInv' /\ pc' # "panicked" /\ signature' = signature
  <1>1. EncodesInv'
    BY HeaderKeeps, BandKeeps, PeakKeeps, BandEndKeeps, FinishKeeps DEF Next
  <1>2. signature' = signature
    BY DEF Next, WriteHeader, StartBand, WritePeak,
       EndBand, Finish
  <1> QED
    BY <1>1, <1>2 DEF EncodesInv

LEMMA EncoderInvariance == Spec => []EncodesInv
  <1>1. EncodesInv /\ [Next]_vars => EncodesInv'
    <2>1. ASSUME EncodesInv, UNCHANGED vars
          PROVE  EncodesInv'
      BY <2>1 DEF EncodesInv, SignatureFits, Fits, InBand, Written, FileFits, HeaderDescribesFile,
         vars
    <2> QED
      BY <2>1, EncoderKeeps
  <1> QED
    BY <1>1, EncoderStarts, PTL DEF Spec

\* The assertion of encode_to_binary (signature_format.rs:94-95) never fails on
\* peaks in the order the generator leaves them in.
THEOREM EncoderNeverPanics == Spec => [](pc # "panicked")
  <1>1. EncodesInv => pc # "panicked"
    BY DEF EncodesInv
  <1> QED
    BY <1>1, EncoderInvariance, PTL

\* The header of a finished file says its size, twice, and the checksum of what
\* follows it, for every signature and every checksum, as long as a word can say
\* the size.
THEOREM HeaderOfFile == Spec => [](FileFits => HeaderDescribesFile)
  BY EncoderInvariance, PTL DEF EncodesInv, Written

-------------------------------------------------------------------------------
(* The reader of the format: it gets back what was written.                *)

\* A set of numbers that is not empty has a least.
LEMMA LeastOf ==
  ASSUME NEW S \in SUBSET Nat, S # {}
  PROVE  \E k \in S : \A m \in S : k <= m
  <1>1. \E k \in S : \A m \in S : ~ (<<m, k>> \in OpToRel(<, Nat))
    BY NatLessThanWellFounded, WFMin, Zenon
  <1>2. \A k \in S, m \in S : m < k => <<m, k>> \in OpToRel(<, Nat)
    BY DEF OpToRel
  <1>3. \A k \in S, m \in S : ~ (m < k) => k <= m
    OBVIOUS
  <1> QED
    BY <1>1, <1>2, <1>3

\* After n entries the reader is at five bytes each, and has come to `reader`.
ReadsTo(content, n, reader) ==
  \E g : /\ g[0] = NoPeaks /\ g[n] = reader
         /\ \A i \in 0 .. n : g[i].at = 5 * i
         /\ \A i \in 1 .. n : g[i] = NextEntry(content, g[i - 1])

\* A reading to the end of the content is the one the recursion gives: a function
\* that satisfies it exists, and no two can first differ.
LEMMA PeaksReadOut ==
  ASSUME NEW content, NEW n \in Nat, Len(content) = 5 * n, NEW reader,
         ReadsTo(content, n, reader)
  PROVE  PeaksIn(content) = reader.peaks
  <1> DEFINE body(T) == [k \in Nat |-> IF k = 0 THEN NoPeaks ELSE NextEntry(content, T[k - 1])]
             Read == CHOOSE T : T = body(T)
  <1>1. PICK g : /\ g[0] = NoPeaks /\ g[n] = reader
                 /\ \A i \in 0 .. n : g[i].at = 5 * i
                 /\ \A i \in 1 .. n : g[i] = NextEntry(content, g[i - 1])
    BY Zenon DEF ReadsTo
  <1>2. PeaksIn(content) = Read[n].peaks
    <2>1. Len(content) \div 5 = n
      OBVIOUS
    <2>2. PeaksIn(content) = Read[Len(content) \div 5].peaks
      BY Zenon DEF PeaksIn
    <2> QED
      BY <2>1, <2>2, Zenon
  <1> DEFINE all == [k \in Nat |-> IF k <= n THEN g[k] ELSE reader]
  <1>3. all = body(all)
    <2>1. \A k \in Nat : all[k] = IF k = 0 THEN NoPeaks ELSE NextEntry(content, all[k - 1])
      <3> TAKE k \in Nat
      <3>1. CASE k = 0
        BY <1>1, <3>1
      <3>2. CASE k \in 1 .. n
        <4>1. k - 1 \in Nat /\ k - 1 <= n
          BY <3>2
        <4> QED
          BY <1>1, <3>2, <4>1
      <3>3. CASE k > n
        <4>1. all[k] = reader
          BY <3>3
        <4>2. k - 1 \in Nat /\ k - 1 >= n
          BY <3>3
        <4>3. all[k - 1] = reader
          BY <1>1, <4>2
        <4>4. reader.at >= Len(content)
          <5>1. n \in 0 .. n
            OBVIOUS
          <5>2. g[n].at = 5 * n
            BY <1>1, <5>1
          <5> QED
            BY <1>1, <5>2
        <4>5. NextEntry(content, reader) = reader
          BY <4>4, Zenon DEF NextEntry
        <4> QED
          BY <3>3, <4>1, <4>3, <4>5
      <3> QED
        BY <3>1, <3>2, <3>3
    <2> QED
      BY <2>1, Zenon
  <1> HIDE DEF body
  <1>4. Read = body(Read)
    BY <1>3
  <1> HIDE DEF Read
  <1>5. \A k \in Nat : Read[k] = IF k = 0 THEN NoPeaks ELSE NextEntry(content, Read[k - 1])
    BY <1>4, Zenon DEF body
  <1>6. /\ Read[0] = g[0]
        /\ \A k \in 1 .. n : Read[k] = NextEntry(content, Read[k - 1])
    BY <1>1, <1>5
  <1> DEFINE apart == {k \in 0 .. n : Read[k] # g[k]}
  <1>7. apart = {}
    <2> SUFFICES ASSUME apart # {}
                 PROVE  FALSE
      OBVIOUS
    <2>1. apart \in SUBSET Nat
      OBVIOUS
    <2>2. PICK k \in apart : \A m \in apart : k <= m
      BY <2>1, LeastOf
    <2>3. k \in 1 .. n
      BY <1>6
    <2>4. k - 1 \in 0 .. n /\ k - 1 \notin apart
      BY <2>2, <2>3
    <2>5. Read[k - 1] = g[k - 1]
      BY <2>4
    <2> QED
      BY <1>1, <1>6, <2>3, <2>5
  <1> QED
    BY <1>1, <1>2, <1>7

\* An entry is read as before from whatever agrees with it where it is.
LEMMA SameEntry ==
  ASSUME NEW content, NEW other, NEW reader, reader.at \in Nat,
         reader.at < Len(content), reader.at < Len(other),
         \A j \in 1 .. 5 : content[reader.at + j] = other[reader.at + j]
  PROVE  NextEntry(other, reader) = NextEntry(content, reader)
  <1> DEFINE at == reader.at
  <1>1. /\ content[at + 1] = other[at + 1] /\ content[at + 2] = other[at + 2]
        /\ content[at + 3] = other[at + 3] /\ content[at + 4] = other[at + 4]
        /\ content[at + 5] = other[at + 5]
    OBVIOUS
  <1>2. at \in Nat
    OBVIOUS
  <1>3. \A s : /\ HalfAt(s, at + 1) = s[at + 2] + 256 * s[at + 3]
               /\ HalfAt(s, at + 3) = s[at + 4] + 256 * s[at + 5]
               /\ WordAt(s, at + 1) = HalfAt(s, at + 1) + 65536 * HalfAt(s, at + 3)
    <2>1. /\ (at + 1) + 1 = at + 2 /\ (at + 1) + 2 = at + 3
          /\ (at + 3) + 1 = at + 4 /\ (at + 3) + 2 = at + 5
      BY <1>2
    <2>2. \A s, o : HalfAt(s, o) = s[o + 1] + 256 * s[o + 2]
      BY SMT DEF HalfAt
    <2>3. \A s : WordAt(s, at + 1) = HalfAt(s, at + 1) + 65536 * HalfAt(s, (at + 1) + 2)
      BY SMT DEF WordAt
    <2>4. \A s : WordAt(s, at + 1) = HalfAt(s, at + 1) + 65536 * HalfAt(s, at + 3)
      BY <2>1, <2>3, SMT
    <2> HIDE DEF at
    <2>5. \A s : /\ HalfAt(s, at + 1) = s[at + 2] + 256 * s[at + 3]
                 /\ HalfAt(s, at + 3) = s[at + 4] + 256 * s[at + 5]
      BY <2>1, <2>2, Zenon
    <2> QED
      BY <2>4, <2>5, SMT
  <1>4. /\ HalfAt(other, at + 1) = HalfAt(content, at + 1)
        /\ HalfAt(other, at + 3) = HalfAt(content, at + 3)
        /\ WordAt(other, at + 1) = WordAt(content, at + 1)
    BY <1>1, <1>3, SMT
  <1>5. ~(at >= Len(content)) <=> ~(at >= Len(other))
    OBVIOUS
  <1> QED
    BY <1>1, <1>4, <1>5, Zenon DEF NextEntry

\* One entry more.
LEMMA EntryRead ==
  ASSUME NEW content \in Seq(Int), NEW n \in Nat, Len(content) = 5 * n, NEW reader,
         ReadsTo(content, n, reader),
         NEW entry \in Seq(Int), Len(entry) = 5,
         NEW next, next = NextEntry(content \o entry, reader), next.at = 5 * (n + 1)
  PROVE  ReadsTo(content \o entry, n + 1, next)
  <1> DEFINE whole == content \o entry
  <1>1. PICK g : /\ g[0] = NoPeaks /\ g[n] = reader
                 /\ \A i \in 0 .. n : g[i].at = 5 * i
                 /\ \A i \in 1 .. n : g[i] = NextEntry(content, g[i - 1])
    BY Zenon DEF ReadsTo
  <1> DEFINE h == [i \in 0 .. n + 1 |-> IF i <= n THEN g[i] ELSE next]
  <1>2. /\ Len(whole) = 5 * n + 5
        /\ \A k \in 1 .. 5 * n : whole[k] = content[k]
    <2>1. /\ Len(whole) = Len(content) + Len(entry)
          /\ \A k \in 1 .. Len(content) + Len(entry) :
               whole[k] = IF k <= Len(content) THEN content[k] ELSE entry[k - Len(content)]
      BY ConcatProperties
    <2> HIDE DEF whole
    <2> QED
      BY <2>1
  <1>3. next = NextEntry(whole, reader)
    OBVIOUS
  <1> HIDE DEF whole
  <1>4. h[0] = NoPeaks /\ h[n + 1] = next
    BY <1>1
  <1>5. \A i \in 0 .. n + 1 : h[i].at = 5 * i
    <2> TAKE i \in 0 .. n + 1
    <2>1. CASE i \in 0 .. n
      BY <1>1, <2>1
    <2>2. CASE i = n + 1
      BY <2>2
    <2> QED
      BY <2>1, <2>2
  <1>6. \A i \in 1 .. n + 1 : h[i] = NextEntry(whole, h[i - 1])
    <2> TAKE i \in 1 .. n + 1
    <2>1. CASE i \in 1 .. n
      <3>1. h[i] = NextEntry(content, g[i - 1]) /\ h[i - 1] = g[i - 1]
        BY <1>1, <2>1
      <3>2. i - 1 \in 0 .. n
        BY <2>1
      <3>3. g[i - 1].at = 5 * (i - 1)
        BY <1>1, <3>2
      <3>4. /\ g[i - 1].at \in Nat /\ g[i - 1].at < Len(content)
            /\ g[i - 1].at < Len(whole)
            /\ \A j \in 1 .. 5 : g[i - 1].at + j \in 1 .. 5 * n
        BY <1>2, <2>1, <3>3
      <3>5. \A j \in 1 .. 5 : content[g[i - 1].at + j] = whole[g[i - 1].at + j]
        BY <1>2, <3>4
      <3>6. NextEntry(whole, g[i - 1]) = NextEntry(content, g[i - 1])
        BY <3>4, <3>5, SameEntry, Zenon
      <3> QED
        BY <3>1, <3>6
    <2>2. CASE i = n + 1
      <3>1. h[i] = next /\ h[i - 1] = reader
        BY <1>1, <2>2
      <3> QED
        BY <1>3, <3>1
    <2> QED
      BY <2>1, <2>2
  <1> HIDE DEF h
  <1> QED
    BY <1>4, <1>5, <1>6, Zenon DEF ReadsTo, whole

\* Two bytes, the lower first, say what they were made of.
LEMMA HalfReadBack ==
  ASSUME NEW v \in Nat, v < 65536
  PROVE  (v % 256) + 256 * ((v \div 256) % 256) = v
  <1> DEFINE high == v \div 256
             low == v % 256
  <1>1. low = v - 256 * high
    OBVIOUS
  <1>2. high \in 0 .. 255
    OBVIOUS
  <1> HIDE DEF high, low
  <1>3. high % 256 = high
    BY <1>2
  <1>4. low + 256 * (high % 256) = v
    BY <1>1, <1>2, <1>3
  <1> QED
    BY <1>4 DEF high, low

\* Five bytes, however they were put together.
LEMMA FiveBytes ==
  ASSUME NEW a \in Int, NEW s \in Seq(Int), Len(s) = 4
  PROVE  LET entry == <<a>> \o s
         IN  /\ entry \in Seq(Int) /\ Len(entry) = 5 /\ entry[1] = a
             /\ entry[2] = s[1] /\ entry[3] = s[2] /\ entry[4] = s[3] /\ entry[5] = s[4]
  <1> DEFINE entry == <<a>> \o s
  <1>1. <<a>> \in Seq(Int) /\ Len(<<a>>) = 1
    OBVIOUS
  <1>2. /\ entry \in Seq(Int) /\ Len(entry) = Len(<<a>>) + Len(s)
        /\ \A i \in 1 .. Len(<<a>>) + Len(s) :
             entry[i] = IF i <= Len(<<a>>) THEN <<a>>[i] ELSE s[i - Len(<<a>>)]
    BY <1>1, ConcatProperties
  <1> HIDE DEF entry
  <1>3. \A i \in 1 .. 5 : entry[i] = IF i <= 1 THEN a ELSE s[i - 1]
    BY <1>1, <1>2
  <1>4. /\ entry \in Seq(Int) /\ Len(entry) = 5 /\ entry[1] = a
        /\ entry[2] = s[1] /\ entry[3] = s[2] /\ entry[4] = s[3] /\ entry[5] = s[4]
    BY <1>1, <1>2, <1>3
  <1> QED
    BY <1>4 DEF entry

\* A reader, and what an entry says to it.
ReaderAt(at, pass, list) == [at |-> at, pass |-> pass, peaks |-> list]
PassOf(entry) == entry[2] + 256 * entry[3] + 65536 * (entry[4] + 256 * entry[5])
PeakOf(entry, here) ==
  [pass |-> here, magnitude |-> entry[2] + 256 * entry[3], bin |-> entry[4] + 256 * entry[5]]

ReadsOn(content, entry, reader, next) == NextEntry(content \o entry, reader) = next

\* What a reader five bytes before the end of a content makes of them.
LEMMA LastEntry ==
  ASSUME NEW content \in Seq(Int), NEW entry \in Seq(Int), Len(entry) = 5,
         NEW pass \in Nat, NEW list
  PROVE  LET reader == ReaderAt(Len(content), pass, list)
             end == Len(content) + 5
             here == pass + entry[1]
         IN  /\ entry[1] = 255 =>
                  ReadsOn(content, entry, reader, ReaderAt(end, PassOf(entry), list))
             /\ entry[1] # 255 =>
                  ReadsOn(content, entry, reader,
                          ReaderAt(end, here, Append(list, PeakOf(entry, here))))
  <1> DEFINE at == Len(content)
             whole == content \o entry
             reader == ReaderAt(at, pass, list)
             here == pass + entry[1]
  <1>1. /\ Len(whole) = at + 5 /\ at \in Nat
        /\ whole[at + 1] = entry[1] /\ whole[at + 2] = entry[2] /\ whole[at + 3] = entry[3]
        /\ whole[at + 4] = entry[4] /\ whole[at + 5] = entry[5]
    <2>1. /\ Len(whole) = Len(content) + Len(entry)
          /\ \A k \in 1 .. Len(content) + Len(entry) :
               whole[k] = IF k <= Len(content) THEN content[k] ELSE entry[k - Len(content)]
      BY ConcatProperties
    <2>2. at \in Nat
      OBVIOUS
    <2> HIDE DEF whole, at
    <2>3. Len(content) = at
      BY DEF at
    <2>4. \A j \in 1 .. 5 : whole[at + j] = entry[j]
      <3> TAKE j \in 1 .. 5
      <3>1. at + j \in 1 .. at + 5 /\ ~(at + j <= at) /\ (at + j) - at = j
        BY <2>2
      <3> QED
        BY <2>1, <2>3, <3>1
    <2> QED
      BY <2>1, <2>2, <2>3, <2>4
  <1>0. here = pass + entry[1]
    OBVIOUS
  <1> HIDE DEF whole, at, here
  <1>2. \A s, o : HalfAt(s, o) = s[o + 1] + 256 * s[o + 2]
    BY SMT DEF HalfAt
  <1>3. /\ (at + 1) + 1 = at + 2 /\ (at + 1) + 2 = at + 3
        /\ (at + 3) + 1 = at + 4 /\ (at + 3) + 2 = at + 5
    BY <1>1
  <1>4. /\ HalfAt(whole, at + 1) = entry[2] + 256 * entry[3]
        /\ HalfAt(whole, at + 3) = entry[4] + 256 * entry[5]
    BY <1>1, <1>2, <1>3, Zenon
  <1>5. WordAt(whole, at + 1)
          = entry[2] + 256 * entry[3] + 65536 * (entry[4] + 256 * entry[5])
    <2>1. WordAt(whole, at + 1) = HalfAt(whole, at + 1) + 65536 * HalfAt(whole, at + 3)
      BY <1>3, SMT DEF WordAt
    <2> QED
      BY <1>4, <2>1, SMT
  <1>6. ~(at >= Len(whole))
    BY <1>1
  <1> DEFINE word == PassOf(entry)
  <1>7. word = WordAt(whole, at + 1)
    BY <1>5 DEF PassOf
  <1> HIDE DEF word
  <1>8. NextEntry(whole, reader) =
          IF entry[1] = 255 THEN [at |-> at + 5, pass |-> word, peaks |-> list]
          ELSE [at |-> at + 5, pass |-> here,
                peaks |-> Append(list, PeakOf(entry, here))]
    <2>1. reader.at = at /\ reader.pass = pass /\ reader.peaks = list
      BY DEF ReaderAt
    <2>2. reader.pass + whole[reader.at + 1] = here
      BY <1>0, <1>1, <2>1
    <2>3. PeakOf(entry, here) = [pass |-> here, magnitude |-> HalfAt(whole, at + 1),
                                 bin |-> HalfAt(whole, at + 3)]
      BY <1>4, Zenon DEF PeakOf
    <2> HIDE DEF reader
    <2> QED
      BY <1>1, <1>6, <1>7, <2>1, <2>2, <2>3, Zenon DEF NextEntry
  <1> QED
    BY <1>8, Zenon DEF whole, at, word, here, reader, ReaderAt, ReadsOn

\* The types of FrequencyPeak's fields.
HalfWords == {n \in Nat : n < 65536}
Words == {n \in Nat : n < WordEnd}
TypedPeaks == [pass : Words, magnitude : HalfWords, bin : HalfWords]

\* The last four bytes of a peak, as they are read.
LEMMA ValuesReadBack ==
  ASSUME NEW peak \in TypedPeaks
  PROVE  LET values == U16(peak.magnitude) \o U16(peak.bin)
         IN  /\ values \in Seq(Int) /\ Len(values) = 4
             /\ values[1] + 256 * values[2] = peak.magnitude
             /\ values[3] + 256 * values[4] = peak.bin
  <1> DEFINE values == U16(peak.magnitude) \o U16(peak.bin)
             m1 == peak.magnitude % 256
             m2 == (peak.magnitude \div 256) % 256
             b1 == peak.bin % 256
             b2 == (peak.bin \div 256) % 256
  <1>1. /\ peak.magnitude \in Nat /\ peak.magnitude < 65536
        /\ peak.bin \in Nat /\ peak.bin < 65536
    BY DEF TypedPeaks, HalfWords
  <1>2. m1 + 256 * m2 = peak.magnitude /\ b1 + 256 * b2 = peak.bin
    BY <1>1, HalfReadBack
  <1>3. m1 \in Int /\ m2 \in Int /\ b1 \in Int /\ b2 \in Int
    <2>1. peak.magnitude \in Int /\ peak.bin \in Int
      BY <1>1
    <2> QED
      BY <2>1, BytesAreInts
  <1>4. U16(peak.magnitude) = <<m1, m2>> /\ U16(peak.bin) = <<b1, b2>>
    BY HalvesOfWord
  <1> HIDE DEF m1, m2, b1, b2
  <1>5. values = <<m1, m2, b1, b2>>
    BY <1>4, FourBytes, Zenon
  <1> HIDE DEF values
  <1>6. /\ values \in Seq(Int) /\ Len(values) = 4
        /\ values[1] + 256 * values[2] = peak.magnitude
        /\ values[3] + 256 * values[4] = peak.bin
    BY <1>2, <1>3, <1>5
  <1> QED
    BY <1>6 DEF values

\* The pass of an escape, as it is read.
LEMMA PassReadBack ==
  ASSUME NEW v \in Words
  PROVE  LET bytes == U32(v)
         IN  /\ bytes \in Seq(Int) /\ Len(bytes) = 4
             /\ bytes[1] + 256 * bytes[2] + 65536 * (bytes[3] + 256 * bytes[4]) = v
  <1> DEFINE bytes == U32(v)
             b1 == v % 256
             b2 == (v \div 256) % 256
             b3 == (v \div 65536) % 256
             b4 == ((v \div 65536) \div 256) % 256
  <1>1. v \in Nat /\ v < 65536 * 65536
    BY DEF Words, WordEnd
  <1>2. b1 + 256 * b2 + 65536 * (b3 + 256 * b4) = v
    BY <1>1, WordReadBack
  <1>3. bytes = <<b1, b2, b3, b4>>
    BY HalvesOfWord
  <1>4. bytes \in Seq(Int) /\ Len(bytes) = 4
    BY <1>1, BytesOfWord
  <1> HIDE DEF b1, b2, b3, b4, bytes
  <1>5. /\ bytes \in Seq(Int) /\ Len(bytes) = 4
        /\ bytes[1] + 256 * bytes[2] + 65536 * (bytes[3] + 256 * bytes[4]) = v
    BY <1>2, <1>3, <1>4
  <1> QED
    BY <1>5 DEF bytes

\* The content is n entries, and they are read as that pass and those peaks.
EntriesRead(content, n, pass, list) ==
  /\ content \in Seq(Int) /\ n \in Nat /\ pass \in Nat /\ Len(content) = 5 * n
  /\ ReadsTo(content, n, ReaderAt(5 * n, pass, list))

\* What an entry is written as.
IsPeak(entry, distance, peak) ==
  entry = <<distance>> \o (U16(peak.magnitude) \o U16(peak.bin))
IsEscape(entry, pass) == entry = <<255>> \o U32(pass)

\* One entry more is read, as a peak or as an escape.
LEMMA OneEntryMore ==
  ASSUME NEW content, NEW n, NEW pass, NEW list, EntriesRead(content, n, pass, list),
         NEW entry \in Seq(Int), Len(entry) = 5,
         NEW here \in Nat, NEW after,
         \/ /\ entry[1] = 255 /\ here = PassOf(entry) /\ after = list
         \/ /\ entry[1] # 255 /\ here = pass + entry[1]
            /\ after = Append(list, PeakOf(entry, here))
  PROVE  EntriesRead(content \o entry, n + 1, here, after)
  <1> DEFINE reader == ReaderAt(5 * n, pass, list)
             next == ReaderAt(5 * (n + 1), here, after)
             start == ReaderAt(Len(content), pass, list)
             there == pass + entry[1]
  <1>1. /\ content \in Seq(Int) /\ n \in Nat /\ pass \in Nat /\ Len(content) = 5 * n
        /\ ReadsTo(content, n, reader)
    BY DEF EntriesRead
  <1>2. Len(content) + 5 = 5 * (n + 1) /\ n + 1 \in Nat
    BY <1>1
  <1>3. there \in Int /\ there = pass + entry[1]
    BY <1>1
  <1> HIDE DEF there
  <1>4. /\ entry[1] = 255 =>
             ReadsOn(content, entry, start, ReaderAt(Len(content) + 5, PassOf(entry), list))
        /\ entry[1] # 255 =>
             ReadsOn(content, entry, start,
                     ReaderAt(Len(content) + 5, there, Append(list, PeakOf(entry, there))))
    BY <1>1, LastEntry, Zenon DEF there
  <1>5. ReadsOn(content, entry, start, ReaderAt(Len(content) + 5, here, after))
    <2> HIDE DEF start
    <2>1. CASE entry[1] = 255
      BY <1>4, <2>1
    <2>2. CASE entry[1] # 255
      BY <1>3, <1>4, <2>2
    <2> QED
      BY <2>1, <2>2
  <1>6. next = NextEntry(content \o entry, reader)
    BY <1>1, <1>2, <1>5 DEF ReadsOn
  <1>7. next.at = 5 * (n + 1)
    BY DEF ReaderAt
  <1> HIDE DEF next, reader
  <1>8. ReadsTo(content \o entry, n + 1, next)
    BY <1>1, <1>6, <1>7, EntryRead
  <1>9. content \o entry \in Seq(Int) /\ Len(content \o entry) = Len(content) + Len(entry)
    BY <1>1, ConcatIsSeq
  <1>10. Len(content \o entry) = 5 * (n + 1)
    BY <1>2, <1>9
  <1> QED
    BY <1>2, <1>8, <1>9, <1>10, Zenon DEF EntriesRead, next

\* A peak near the last is an entry.
LEMMA NearPeakRead ==
  ASSUME NEW content, NEW n, NEW pass, NEW list, EntriesRead(content, n, pass, list),
         NEW peak \in TypedPeaks,
         NEW distance \in Nat, distance < 255, pass + distance = peak.pass,
         NEW entry, IsPeak(entry, distance, peak)
  PROVE  EntriesRead(content \o entry, n + 1, peak.pass, Append(list, peak))
  <1> DEFINE values == U16(peak.magnitude) \o U16(peak.bin)
             here == peak.pass
             after == Append(list, peak)
  <1>1. /\ values \in Seq(Int) /\ Len(values) = 4
        /\ values[1] + 256 * values[2] = peak.magnitude
        /\ values[3] + 256 * values[4] = peak.bin
    BY ValuesReadBack
  <1>2. distance \in Int /\ distance # 255
    OBVIOUS
  <1>3. /\ peak = [pass |-> here, magnitude |-> peak.magnitude, bin |-> peak.bin]
        /\ here \in Nat
    BY DEF TypedPeaks, Words
  <1>4. entry = <<distance>> \o values
    BY DEF IsPeak
  <1> HIDE DEF values
  <1>5. /\ entry \in Seq(Int) /\ Len(entry) = 5 /\ entry[1] = distance
        /\ entry[2] = values[1] /\ entry[3] = values[2] /\ entry[4] = values[3]
        /\ entry[5] = values[4]
    BY <1>1, <1>2, <1>4, FiveBytes
  <1>6. here = pass + entry[1] /\ entry[1] # 255
    BY <1>2, <1>5
  <1>7. after = Append(list, PeakOf(entry, here))
    <2>1. entry[2] + 256 * entry[3] = peak.magnitude /\ entry[4] + 256 * entry[5] = peak.bin
      BY <1>1, <1>5
    <2> HIDE DEF here
    <2>2. PeakOf(entry, here) = peak
      BY <1>3, <2>1, Zenon DEF PeakOf
    <2> QED
      BY <2>2
  <1> HIDE DEF here, after
  <1>8. EntriesRead(content \o entry, n + 1, here, after)
    BY <1>3, <1>5, <1>6, <1>7, OneEntryMore, Zenon
  <1> QED
    BY <1>8 DEF here, after

\* An escape is an entry of its own, after which the reader counts from its pass.
LEMMA EscapeRead ==
  ASSUME NEW content, NEW n, NEW pass, NEW list, EntriesRead(content, n, pass, list),
         NEW later \in Words, NEW entry, IsEscape(entry, later)
  PROVE  EntriesRead(content \o entry, n + 1, later, list)
  <1> DEFINE bytes == U32(later)
  <1>1. /\ bytes \in Seq(Int) /\ Len(bytes) = 4
        /\ bytes[1] + 256 * bytes[2] + 65536 * (bytes[3] + 256 * bytes[4]) = later
    BY PassReadBack
  <1>2. entry = <<255>> \o bytes
    BY DEF IsEscape
  <1>3. later \in Nat
    BY DEF Words
  <1> HIDE DEF bytes
  <1>4. /\ entry \in Seq(Int) /\ Len(entry) = 5 /\ entry[1] = 255
        /\ entry[2] = bytes[1] /\ entry[3] = bytes[2] /\ entry[4] = bytes[3]
        /\ entry[5] = bytes[4]
    BY <1>1, <1>2, FiveBytes
  <1>5. PassOf(entry) = later
    BY <1>1, <1>4, SMT DEF PassOf
  <1>6. entry[1] = 255 /\ later = PassOf(entry) /\ list = list
    BY <1>4, <1>5
  <1> QED
    BY <1>3, <1>4, <1>6, OneEntryMore

\* Three sequences in a row are the same however they are grouped.
LEMMA Regrouped ==
  ASSUME NEW a \in Seq(Int), NEW b \in Seq(Int), NEW c \in Seq(Int)
  PROVE  (a \o b) \o c = a \o (b \o c)
  BY ConcatAssociative

\* A peak is written as one entry, or as an escape and one entry.
WrittenNear(content, peak, whole) ==
  \E distance, entry :
    /\ distance \in Nat /\ distance < 255 /\ fft_pass_number + distance = peak.pass
    /\ IsPeak(entry, distance, peak) /\ whole = content \o entry
WrittenFar(content, peak, whole) ==
  \E escape, entry :
    /\ IsEscape(escape, peak.pass) /\ IsPeak(entry, 0, peak)
    /\ whole = (content \o escape) \o entry

\* What `PeakBytes` gives is of one of these two forms.
LEMMA PeakEntries ==
  ASSUME NEW content \in Seq(Int), NEW peak \in TypedPeaks, fft_pass_number \in Nat,
         fft_pass_number <= peak.pass
  PROVE  \/ WrittenNear(content, peak, content \o PeakBytes(peak))
         \/ WrittenFar(content, peak, content \o PeakBytes(peak))
  <1> DEFINE values == U16(peak.magnitude) \o U16(peak.bin)
             distance == peak.pass - fft_pass_number
             escape == <<255>> \o U32(peak.pass)
             zero == <<0>>
  <1>1. peak.pass \in Words /\ peak.pass \in Nat
    BY DEF TypedPeaks, Words
  <1>2. CASE distance < 255
    <2>1. PeakBytes(peak) = <<distance>> \o values
      <3>1. ~Escaped(distance)
        BY <1>1, <1>2 DEF Escaped
      <3> QED
        BY <3>1, Zenon DEF PeakBytes
    <2>2. distance \in Nat /\ distance < 255 /\ fft_pass_number + distance = peak.pass
      BY <1>1, <1>2
    <2>3. IsPeak(<<distance>> \o values, distance, peak)
      BY Zenon DEF IsPeak
    <2> HIDE DEF distance, values
    <2>4. WrittenNear(content, peak, content \o PeakBytes(peak))
      BY <2>1, <2>2, <2>3, Zenon DEF WrittenNear
    <2> QED
      BY <2>4
  <1>3. CASE ~(distance < 255)
    <2>1. PeakBytes(peak) = (escape \o zero) \o values
      <3>1. Escaped(distance)
        BY <1>1, <1>3 DEF Escaped
      <3> QED
        BY <3>1, Zenon DEF PeakBytes
    <2>2. escape \in Seq(Int) /\ values \in Seq(Int) /\ zero \in Seq(Int)
      <3>1. U32(peak.pass) \in Seq(Int) /\ values \in Seq(Int)
        BY <1>1, PassReadBack, ValuesReadBack
      <3>2. <<255>> \in Seq(Int) /\ <<0>> \in Seq(Int)
        OBVIOUS
      <3> HIDE DEF values
      <3> QED
        BY <3>1, <3>2, ConcatIsSeq, Zenon
    <2>3. IsEscape(escape, peak.pass) /\ IsPeak(zero \o values, 0, peak)
      BY Zenon DEF IsEscape, IsPeak
    <2> HIDE DEF escape, zero, values, distance
    <2> DEFINE rest == zero \o values
    <2>4. (escape \o zero) \o values = escape \o rest
      BY <2>2, Regrouped
    <2>5. rest \in Seq(Int)
      BY <2>2, ConcatIsSeq
    <2> HIDE DEF rest
    <2>6. (content \o escape) \o rest = content \o (escape \o rest)
      BY <2>2, <2>5, Regrouped
    <2>7. WrittenFar(content, peak, content \o PeakBytes(peak))
      BY <2>1, <2>3, <2>4, <2>6, Zenon DEF WrittenFar, rest
    <2> QED
      BY <2>7
  <1> QED
    BY <1>2, <1>3

\* However a peak is written, it is read.
LEMMA PeakRead ==
  ASSUME NEW content, NEW n, NEW list, EntriesRead(content, n, fft_pass_number, list),
         NEW peak \in TypedPeaks, fft_pass_number <= peak.pass
  PROVE  \E m : EntriesRead(content \o PeakBytes(peak), m, peak.pass, Append(list, peak))
  <1> DEFINE whole == content \o PeakBytes(peak)
  <1>1. content \in Seq(Int) /\ fft_pass_number \in Nat
    BY DEF EntriesRead
  <1>2. WrittenNear(content, peak, whole) \/ WrittenFar(content, peak, whole)
    BY <1>1, PeakEntries
  <1> HIDE DEF whole
  <1>3. CASE WrittenNear(content, peak, whole)
    <2>1. PICK distance, entry :
            /\ distance \in Nat /\ distance < 255 /\ fft_pass_number + distance = peak.pass
            /\ IsPeak(entry, distance, peak) /\ whole = content \o entry
      BY <1>3, Zenon DEF WrittenNear
    <2>2. EntriesRead(content \o entry, n + 1, peak.pass, Append(list, peak))
      BY <2>1, NearPeakRead, Zenon
    <2> QED
      BY <2>1, <2>2, Zenon DEF whole
  <1>4. CASE WrittenFar(content, peak, whole)
    <2>1. PICK escape, entry :
            /\ IsEscape(escape, peak.pass) /\ IsPeak(entry, 0, peak)
            /\ whole = (content \o escape) \o entry
      BY <1>4, Zenon DEF WrittenFar
    <2>2. peak.pass \in Words /\ peak.pass + 0 = peak.pass /\ 0 \in Nat /\ 0 < 255
      BY DEF TypedPeaks, Words
    <2>3. EntriesRead(content \o escape, n + 1, peak.pass, list)
      BY <2>1, <2>2, EscapeRead, Zenon
    <2>4. EntriesRead((content \o escape) \o entry, (n + 1) + 1, peak.pass, Append(list, peak))
      BY <2>1, <2>2, <2>3, NearPeakRead, Zenon
    <2> QED
      BY <2>1, <2>4, Zenon DEF whole
  <1> QED
    BY <1>2, <1>3, <1>4

\* What has been read of a content to its end is what the recursion reads.
LEMMA EntriesReadOut ==
  ASSUME NEW content, NEW n, NEW pass, NEW list, EntriesRead(content, n, pass, list)
  PROVE  PeaksIn(content) = list
  <1> DEFINE reader == ReaderAt(5 * n, pass, list)
  <1>1. n \in Nat /\ Len(content) = 5 * n /\ ReadsTo(content, n, reader)
    BY DEF EntriesRead
  <1>2. reader.peaks = list
    BY DEF ReaderAt
  <1> HIDE DEF reader
  <1>3. PeaksIn(content) = reader.peaks
    BY <1>1, PeaksReadOut
  <1> QED
    BY <1>2, <1>3

\* Nothing is read of nothing.
LEMMA NothingRead == EntriesRead(<<>>, 0, 0, <<>>)
  <1> DEFINE g == [i \in {0} |-> NoPeaks]
  <1>1. /\ g[0] = NoPeaks /\ g[0] = ReaderAt(5 * 0, 0, <<>>)
        /\ \A i \in 0 .. 0 : g[i].at = 5 * i
        /\ \A i \in 1 .. 0 : g[i] = NextEntry(<<>>, g[i - 1])
    BY DEF ReaderAt, NoPeaks
  <1> HIDE DEF g
  <1>2. ReadsTo(<<>>, 0, ReaderAt(5 * 0, 0, <<>>))
    BY <1>1, Zenon DEF ReadsTo
  <1>3. <<>> \in Seq(Int) /\ Len(<<>>) = 5 * 0 /\ 0 \in Nat
    OBVIOUS
  <1> QED
    BY <1>2, <1>3, Zenon DEF EntriesRead

\* A band starts there, and ends no later than the file.
Within(file, at) ==
  /\ at \in Nat /\ at >= 56
  /\ WordAt(file, at + 4) \in Nat
  /\ at + 8 + InWords(WordAt(file, at + 4)) <= Len(file)

\* After n bands the reader has come to `reader`.
BandsReadTo(file, n, reader) ==
  \E g : /\ g[0] = NoBands /\ g[n] = reader
         /\ \A i \in 0 .. n : g[i].at \in Nat /\ g[i].at >= 56 + 8 * i
         /\ \A i \in 1 .. n : Within(file, g[i - 1].at) /\ g[i] = NextBand(file, g[i - 1])

\* A word is its four bytes.
LEMMA SameWord ==
  ASSUME NEW s, NEW t, NEW at \in Nat, \A j \in 1 .. 4 : s[at + j] = t[at + j]
  PROVE  WordAt(s, at) = WordAt(t, at)
  <1>1. /\ s[at + 1] = t[at + 1] /\ s[at + 2] = t[at + 2]
        /\ s[at + 3] = t[at + 3] /\ s[at + 4] = t[at + 4]
    OBVIOUS
  <1>2. (at + 2) + 1 = at + 3 /\ (at + 2) + 2 = at + 4
    OBVIOUS
  <1>3. HalfAt(s, at) = HalfAt(t, at) /\ HalfAt(s, at + 2) = HalfAt(t, at + 2)
    BY <1>1, <1>2, Zenon DEF HalfAt
  <1> QED
    BY <1>3, SMT DEF WordAt

\* A stretch of two files that agree there.
LEMMA SameStretch ==
  ASSUME NEW S, NEW s \in Seq(S), NEW t \in Seq(S), NEW from \in Nat \ {0}, NEW upto \in Int,
         upto <= Len(s), upto <= Len(t), \A i \in from .. upto : s[i] = t[i]
  PROVE  SubSeq(s, from, upto) = SubSeq(t, from, upto)
  <1> DEFINE a == SubSeq(s, from, upto)
             b == SubSeq(t, from, upto)
             n == upto - from + 1
  <1>1. (\A i \in from .. upto : s[i] \in S) /\ (\A i \in from .. upto : t[i] \in S)
    OBVIOUS
  <1>2. from \in Int /\ upto \in Int /\ n \in Int
    OBVIOUS
  <1>3. /\ a \in Seq(S) /\ Len(a) = IF from <= upto THEN n ELSE 0
        /\ \A i \in 1 .. n : a[i] = s[from + i - 1]
    BY <1>1, <1>2, SubSeqProperties
  <1>4. /\ b \in Seq(S) /\ Len(b) = IF from <= upto THEN n ELSE 0
        /\ \A i \in 1 .. n : b[i] = t[from + i - 1]
    BY <1>1, <1>2, SubSeqProperties
  <1>5. \A i \in 1 .. n : from + i - 1 \in from .. upto
    OBVIOUS
  <1>6. Len(a) = Len(b) /\ \A i \in 1 .. Len(a) : i \in 1 .. n
    <2> HIDE DEF a, b
    <2> QED
      BY <1>2, <1>3, <1>4
  <1> HIDE DEF a, b, n
  <1>7. \A i \in 1 .. Len(a) : a[i] = b[i]
    BY <1>3, <1>4, <1>5, <1>6
  <1>8. a = b
    BY <1>3, <1>4, <1>6, <1>7, SeqEqual
  <1> QED
    BY <1>8 DEF a, b

\* The reader skips the content of a band and its padding.
LEMMA WordsRoundUp ==
  ASSUME NEW n \in Nat
  PROVE  InWords(n) \in Nat /\ n <= InWords(n) /\ InWords(n) = n + ((4 - (n % 4)) % 4)
  BY SMT DEF InWords

\* A band is read as before from a file that is alike.
LEMMA SameBand ==
  ASSUME NEW file, NEW other, Alike(file, other), NEW reader, Within(file, reader.at)
  PROVE  Within(other, reader.at) /\ NextBand(other, reader) = NextBand(file, reader)
  <1> DEFINE at == reader.at
             bytes == WordAt(file, at + 4)
             upto == at + 8 + bytes
  <1>1. PICK S : /\ file \in Seq(S) /\ other \in Seq(S) /\ Len(file) <= Len(other)
                 /\ \A i \in 57 .. Len(file) : other[i] = file[i]
    BY Zenon DEF Alike
  <1>2. /\ at \in Nat /\ at >= 56 /\ bytes \in Nat
        /\ at + 8 + InWords(bytes) <= Len(file)
    BY DEF Within
  <1>3. Len(file) \in Nat /\ Len(other) \in Nat
    BY <1>1
  <1> HIDE DEF at, bytes
  <1>4. InWords(bytes) \in Nat /\ bytes <= InWords(bytes)
    BY <1>2, WordsRoundUp
  <1>5. upto \in Nat /\ upto <= Len(file) /\ upto <= Len(other)
    BY <1>1, <1>2, <1>3, <1>4
  <1>6. /\ \A j \in 1 .. 4 : at + j \in 57 .. Len(file)
        /\ \A j \in 1 .. 4 : (at + 4) + j \in 57 .. Len(file)
        /\ \A i \in at + 9 .. upto : i \in 57 .. Len(file)
    BY <1>2, <1>3, <1>4, <1>5
  <1>7. WordAt(other, at) = WordAt(file, at)
    <2>1. \A j \in 1 .. 4 : other[at + j] = file[at + j]
      BY <1>1, <1>6
    <2> QED
      BY <1>2, <2>1, SameWord
  <1>8. WordAt(other, at + 4) = bytes
    <2>1. at + 4 \in Nat
      BY <1>2
    <2>2. \A j \in 1 .. 4 : other[(at + 4) + j] = file[(at + 4) + j]
      BY <1>1, <1>6
    <2>3. WordAt(other, at + 4) = WordAt(file, at + 4)
      BY <2>1, <2>2, SameWord
    <2> QED
      BY <2>3 DEF bytes
  <1>9. SubSeq(other, at + 9, upto) = SubSeq(file, at + 9, upto)
    <2> DEFINE from == at + 9
    <2>1. from \in Nat \ {0} /\ upto \in Int
      BY <1>2, <1>5
    <2>2. \A i \in from .. upto : other[i] = file[i]
      BY <1>1, <1>6
    <2> HIDE DEF from, upto
    <2>3. SubSeq(other, from, upto) = SubSeq(file, from, upto)
      BY <1>1, <1>5, <2>1, <2>2, SameStretch
    <2> QED
      BY <2>3 DEF from
  <1>10. ~(at >= Len(file)) /\ ~(at >= Len(other))
    BY <1>1, <1>2, <1>3, <1>4
  <1>11. Within(other, at)
    <2>1. at + 8 + InWords(bytes) <= Len(other)
      BY <1>1, <1>2, <1>3, <1>4
    <2> QED
      BY <1>2, <1>8, <2>1, Zenon DEF Within
  <1>12. NextBand(other, reader) = NextBand(file, reader)
    BY <1>7, <1>8, <1>9, <1>10, Zenon DEF NextBand, at, bytes
  <1> QED
    BY <1>11, <1>12 DEF at

\* All the bands of a file are read as before from a file that is alike.
LEMMA BandsReadAlike ==
  ASSUME NEW file, NEW other, Alike(file, other), NEW n \in Nat, NEW reader,
         BandsReadTo(file, n, reader)
  PROVE  BandsReadTo(other, n, reader)
  <1>1. PICK g : /\ g[0] = NoBands /\ g[n] = reader
                 /\ \A i \in 0 .. n : g[i].at \in Nat /\ g[i].at >= 56 + 8 * i
                 /\ \A i \in 1 .. n : Within(file, g[i - 1].at) /\ g[i] = NextBand(file, g[i - 1])
    BY Zenon DEF BandsReadTo
  <1>2. \A i \in 1 .. n : /\ Within(other, g[i - 1].at)
                          /\ g[i] = NextBand(other, g[i - 1])
    <2> TAKE i \in 1 .. n
    <2>1. Within(file, g[i - 1].at) /\ g[i] = NextBand(file, g[i - 1])
      BY <1>1, Zenon
    <2>2. /\ Within(other, g[i - 1].at)
          /\ NextBand(other, g[i - 1]) = NextBand(file, g[i - 1])
      BY <2>1, SameBand, Zenon
    <2> QED
      BY <2>1, <2>2, Zenon
  <1> QED
    BY <1>1, <1>2, Zenon DEF BandsReadTo

\* One band more.
LEMMA BandReadOn ==
  ASSUME NEW file, NEW n \in Nat, NEW reader, BandsReadTo(file, n, reader),
         Within(file, reader.at),
         NextBand(file, reader).at \in Nat, NextBand(file, reader).at >= 56 + 8 * (n + 1)
  PROVE  BandsReadTo(file, n + 1, NextBand(file, reader))
  <1> DEFINE next == NextBand(file, reader)
  <1>1. PICK g : /\ g[0] = NoBands /\ g[n] = reader
                 /\ \A i \in 0 .. n : g[i].at \in Nat /\ g[i].at >= 56 + 8 * i
                 /\ \A i \in 1 .. n : Within(file, g[i - 1].at) /\ g[i] = NextBand(file, g[i - 1])
    BY Zenon DEF BandsReadTo
  <1> DEFINE h == [i \in 0 .. n + 1 |-> IF i <= n THEN g[i] ELSE next]
  <1>2. next.at \in Nat /\ next.at >= 56 + 8 * (n + 1) /\ next = NextBand(file, reader)
    OBVIOUS
  <1> HIDE DEF next
  <1>3. h[0] = NoBands /\ h[n + 1] = next
    BY <1>1
  <1>4. \A i \in 0 .. n + 1 : h[i].at \in Nat /\ h[i].at >= 56 + 8 * i
    <2> TAKE i \in 0 .. n + 1
    <2>1. CASE i \in 0 .. n
      BY <1>1, <2>1
    <2>2. CASE i = n + 1
      BY <1>2, <2>2
    <2> QED
      BY <2>1, <2>2
  <1>5. \A i \in 1 .. n + 1 : Within(file, h[i - 1].at) /\ h[i] = NextBand(file, h[i - 1])
    <2> TAKE i \in 1 .. n + 1
    <2>1. CASE i \in 1 .. n
      <3>1. h[i] = g[i] /\ h[i - 1] = g[i - 1]
        BY <2>1
      <3> QED
        BY <1>1, <2>1, <3>1
    <2>2. CASE i = n + 1
      <3>1. h[i] = next /\ h[i - 1] = reader
        BY <1>1, <2>2
      <3> QED
        BY <1>2, <3>1
    <2> QED
      BY <2>1, <2>2
  <1> HIDE DEF h
  <1>6. BandsReadTo(file, n + 1, next)
    BY <1>3, <1>4, <1>5, Zenon DEF BandsReadTo
  <1> QED
    BY <1>6 DEF next

\* A reading to the end of the file is the one the recursion gives.
LEMMA BandsReadOut ==
  ASSUME NEW file, Len(file) \in Nat, NEW n \in Nat, NEW reader, BandsReadTo(file, n, reader),
         reader.at = Len(file)
  PROVE  BandsIn(file) = reader.bands
  <1> DEFINE body(T) == [k \in Nat |-> IF k = 0 THEN NoBands ELSE NextBand(file, T[k - 1])]
             Read == CHOOSE T : T = body(T)
             words == Len(file) \div 8
  <1>1. PICK g : /\ g[0] = NoBands /\ g[n] = reader
                 /\ \A i \in 0 .. n : g[i].at \in Nat /\ g[i].at >= 56 + 8 * i
                 /\ \A i \in 1 .. n : Within(file, g[i - 1].at) /\ g[i] = NextBand(file, g[i - 1])
    BY Zenon DEF BandsReadTo
  <1>2. words \in Nat /\ n <= words
    <2>1. n \in 0 .. n
      OBVIOUS
    <2>2. Len(file) >= 56 + 8 * n
      BY <1>1, <2>1
    <2> QED
      BY <2>2
  <1>3. BandsIn(file) = Read[words].bands
    BY Zenon DEF BandsIn
  <1> HIDE DEF words
  <1> DEFINE all == [k \in Nat |-> IF k <= n THEN g[k] ELSE reader]
  <1>4. NextBand(file, reader) = reader
    <2>1. reader.at >= Len(file)
      OBVIOUS
    <2> QED
      BY <2>1, Zenon DEF NextBand
  <1>5. \A k \in Nat : all[k] = IF k = 0 THEN NoBands ELSE NextBand(file, all[k - 1])
    <2> TAKE k \in Nat
    <2>1. CASE k = 0
      BY <1>1, <2>1
    <2>2. CASE k \in 1 .. n
      <3>1. k - 1 \in Nat /\ k - 1 <= n
        BY <2>2
      <3> QED
        BY <1>1, <2>2, <3>1
    <2>3. CASE k > n
      <3>1. all[k] = reader
        BY <2>3
      <3>2. k - 1 \in Nat /\ k - 1 >= n
        BY <2>3
      <3>3. all[k - 1] = reader
        BY <1>1, <3>2
      <3> QED
        BY <1>4, <2>3, <3>1, <3>3
    <2> QED
      BY <2>1, <2>2, <2>3
  <1>6. all = body(all)
    BY <1>5, Zenon
  <1> HIDE DEF body
  <1>7. Read = body(Read)
    BY <1>6
  <1> HIDE DEF Read
  <1>8. \A k \in Nat : Read[k] = IF k = 0 THEN NoBands ELSE NextBand(file, Read[k - 1])
    BY <1>7, Zenon DEF body
  <1> DEFINE apart == {k \in Nat : Read[k] # all[k]}
  <1>9. apart = {}
    <2> SUFFICES ASSUME apart # {}
                 PROVE  FALSE
      OBVIOUS
    <2>1. apart \in SUBSET Nat
      OBVIOUS
    <2>2. PICK k \in apart : \A m \in apart : k <= m
      BY <2>1, LeastOf
    <2> HIDE DEF all
    <2>3. k \in Nat /\ k # 0
      BY <1>5, <1>8
    <2>4. k - 1 \in Nat /\ k - 1 \notin apart
      BY <2>2, <2>3
    <2>5. Read[k - 1] = all[k - 1]
      BY <2>4
    <2> QED
      BY <1>5, <1>8, <2>3, <2>5
  <1>10. all[words] = reader
    <2>1. CASE words = n
      BY <1>1, <2>1
    <2>2. CASE words > n
      BY <1>2, <2>2
    <2> QED
      BY <1>2, <2>1, <2>2
  <1> HIDE DEF all
  <1>11. Read[words] = reader
    BY <1>2, <1>9, <1>10
  <1> QED
    BY <1>3, <1>11

\* A word lies there, and is read there.
LEMMA WordThere ==
  ASSUME NEW file, NEW at \in Nat, NEW v \in Words, \A i \in 1 .. 4 : file[at + i] = U32(v)[i]
  PROVE  WordAt(file, at) = v
  <1> DEFINE bytes == U32(v)
  <1>1. bytes[1] + 256 * bytes[2] + 65536 * (bytes[3] + 256 * bytes[4]) = v
    BY PassReadBack
  <1>2. \A i \in 1 .. 4 : file[at + i] = bytes[i]
    OBVIOUS
  <1> HIDE DEF bytes
  <1>3. /\ file[at + 1] = bytes[1] /\ file[at + 2] = bytes[2]
        /\ file[at + 3] = bytes[3] /\ file[at + 4] = bytes[4]
    BY <1>2
  <1>4. (at + 2) + 1 = at + 3 /\ (at + 2) + 2 = at + 4
    OBVIOUS
  <1>5. /\ HalfAt(file, at) = bytes[1] + 256 * bytes[2]
        /\ HalfAt(file, at + 2) = bytes[3] + 256 * bytes[4]
    BY <1>3, <1>4, Zenon DEF HalfAt
  <1> QED
    BY <1>1, <1>5, SMT DEF WordAt

\* The whole file is n bands, and they are read as those.
BandsAt(at, bands) == [at |-> at, bands |-> bands]
BandsRead(file, n, bands) ==
  /\ file \in Seq(Int) /\ n \in Nat /\ Len(file) >= 56 + 8 * n
  /\ BandsReadTo(file, n, BandsAt(Len(file), bands))

\* What is written of a band is one band more, with the peaks its content is read as.
LEMMA BandRead ==
  ASSUME NEW n, NEW bands, BandsRead(cursor, n, bands),
         peaks_buffer \in Seq(Int), Len(peaks_buffer) < WordEnd, band \in 0 .. 3
  PROVE  BandsRead(cursor \o U32(Marker(band)) \o U32(Len(peaks_buffer)) \o peaks_buffer
                     \o Padding(peaks_buffer),
                   n + 1, Append(bands, [band |-> band, peaks |-> PeaksIn(peaks_buffer)]))
  <1> DEFINE marker == U32(Marker(band))
             size == U32(Len(peaks_buffer))
             zeros == Padding(peaks_buffer)
             file == cursor \o marker \o size \o peaks_buffer \o zeros
             at == Len(cursor)
             bytes == Len(peaks_buffer)
             reader == BandsAt(at, bands)
             one == [band |-> band, peaks |-> PeaksIn(peaks_buffer)]
  <1>1. /\ cursor \in Seq(Int) /\ n \in Nat /\ at >= 56 + 8 * n /\ at \in Nat
        /\ BandsReadTo(cursor, n, reader)
    BY DEF BandsRead
  <1>2. /\ Marker(band) \in Words /\ Marker(band) - Marker(0) = band
    BY SMT DEF Marker, Words, WordEnd
  <1>3. bytes \in Words /\ bytes \in Nat
    BY DEF Words
  <1>4. marker \in Seq(Int) /\ Len(marker) = 4 /\ size \in Seq(Int) /\ Len(size) = 4
    BY <1>2, <1>3, PassReadBack
  <1>5. zeros \in Seq(Int) /\ Len(zeros) = (4 - (bytes % 4)) % 4
    BY PaddingIsBytes
  <1>6. InWords(bytes) \in Nat /\ InWords(bytes) = bytes + Len(zeros) /\ bytes <= InWords(bytes)
    BY <1>3, <1>5, WordsRoundUp
  <1> HIDE DEF zeros
  <1>7. /\ file \in Seq(Int) /\ Len(file) = at + 8 + bytes + Len(zeros)
        /\ \A i \in 1 .. at : file[i] = cursor[i]
        /\ \A i \in 1 .. 4 : file[at + i] = marker[i] /\ file[(at + 4) + i] = size[i]
        /\ \A i \in 1 .. bytes : file[(at + 8) + i] = peaks_buffer[i]
    <2> HIDE DEF marker, size
    <2>1. LaidOut(file, cursor, marker, size, peaks_buffer, zeros)
      BY <1>1, <1>4, <1>5, BandLaidOut
    <2> HIDE DEF file
    <2> QED
      BY <2>1, Zenon DEF LaidOut
  <1> HIDE DEF file
  <1>8. WordAt(file, at) = Marker(band)
    BY <1>1, <1>2, <1>7, WordThere
  <1>9. WordAt(file, at + 4) = bytes
    <2>1. at + 4 \in Nat
      BY <1>1
    <2> QED
      BY <1>3, <1>7, <2>1, WordThere
  <1> HIDE DEF at, marker, size
  <1>10. SubSeq(file, at + 9, at + 8 + bytes) = peaks_buffer
    <2> DEFINE from == at + 9
               upto == at + 8 + bytes
               there == SubSeq(file, from, upto)
    <2>1. from \in Int /\ upto \in Int /\ upto - from + 1 = bytes
      BY <1>1, <1>3
    <2>2. \A i \in from .. upto : file[i] \in Int
      <3> TAKE i \in from .. upto
      <3>1. i \in 1 .. Len(file)
        BY <1>1, <1>3, <1>6, <1>7
      <3> QED
        BY <1>7, <3>1, ElementOf
    <2>3. \A i \in 1 .. bytes : from + i - 1 = (at + 8) + i
      BY <1>1, <1>3
    <2>4. from <= upto <=> bytes # 0
      BY <1>1, <1>3
    <2> HIDE DEF from, upto
    <2>5. /\ there \in Seq(Int)
          /\ Len(there) = IF from <= upto THEN upto - from + 1 ELSE 0
          /\ \A i \in 1 .. upto - from + 1 : there[i] = file[from + i - 1]
      BY <2>1, <2>2, SubSeqProperties
    <2> HIDE DEF there
    <2>6. Len(there) = Len(peaks_buffer)
      BY <1>3, <2>1, <2>4, <2>5
    <2>7. \A i \in 1 .. Len(there) : there[i] = peaks_buffer[i]
      BY <1>7, <2>1, <2>3, <2>5, <2>6
    <2>8. there = peaks_buffer
      BY <2>5, <2>6, <2>7, SeqEqual
    <2> QED
      BY <2>8 DEF there, from, upto
  <1> HIDE DEF bytes
  <1>11. reader.at = at /\ reader.bands = bands
    BY DEF BandsAt
  <1> HIDE DEF reader
  <1>12. at >= 56 /\ at + 8 + InWords(bytes) = Len(file) /\ Len(file) \in Nat
    <2>1. at >= 56
      BY <1>1
    <2>2. Len(zeros) \in Nat
      BY <1>5
    <2>3. at + 8 + InWords(bytes) = Len(file) /\ Len(file) \in Nat
      BY <1>1, <1>3, <1>6, <1>7, <2>2
    <2> QED
      BY <2>1, <2>3
  <1>13. at + 8 + InWords(bytes) <= Len(file) /\ ~(at >= Len(file))
    BY <1>1, <1>6, <1>12
  <1>14. Within(file, reader.at)
    BY <1>1, <1>3, <1>9, <1>11, <1>12, <1>13, Zenon DEF Within
  <1>15. NextBand(file, reader) = BandsAt(Len(file), Append(bands, one))
    <2>1. /\ WordAt(file, reader.at) = Marker(band) /\ WordAt(file, reader.at + 4) = bytes
          /\ SubSeq(file, reader.at + 9, reader.at + 8 + bytes) = peaks_buffer
          /\ reader.at + 8 + InWords(bytes) = Len(file) /\ ~(reader.at >= Len(file))
      BY <1>8, <1>9, <1>10, <1>11, <1>12, <1>13, Zenon
    <2>2. NextBand(file, reader)
            = [at |-> reader.at + 8 + InWords(bytes),
               bands |-> Append(reader.bands,
                   [band |-> WordAt(file, reader.at) - Marker(0),
                    peaks |-> PeaksIn(SubSeq(file, reader.at + 9, reader.at + 8 + bytes))])]
      BY <2>1, Zenon DEF NextBand
    <2> QED
      BY <1>2, <1>11, <2>1, <2>2, Zenon DEF BandsAt
  <1>16. Alike(cursor, file)
    <2>1. Len(cursor) <= Len(file)
      BY <1>1, <1>3, <1>5, <1>6, <1>7 DEF at
    <2>2. \A i \in 57 .. at : file[i] = cursor[i]
      BY <1>1, <1>7
    <2>3. \A i \in 57 .. Len(cursor) : file[i] = cursor[i]
      BY <2>2 DEF at
    <2>4. \A i \in 41 .. 44 : file[i] = cursor[i]
      BY <1>1, <1>7
    <2> QED
      BY <1>1, <1>7, <2>1, <2>3, <2>4, Zenon DEF Alike
  <1>17. Len(file) \in Nat /\ Len(file) >= 56 + 8 * (n + 1) /\ n + 1 \in Nat
    BY <1>1, <1>3, <1>5, <1>6, <1>7
  <1> DEFINE next == BandsAt(Len(file), Append(bands, one))
  <1>18. next.at = Len(file)
    BY DEF BandsAt
  <1>19. BandsReadTo(file, n, reader)
    BY <1>1, <1>16, BandsReadAlike, Zenon
  <1> HIDE DEF next, one
  <1>20. NextBand(file, reader) = next
    BY <1>15 DEF next
  <1>21. NextBand(file, reader).at \in Nat /\ NextBand(file, reader).at >= 56 + 8 * (n + 1)
    BY <1>17, <1>18, <1>20
  <1>22. BandsReadTo(file, n + 1, next)
    BY <1>1, <1>14, <1>19, <1>20, <1>21, BandReadOn
  <1>23. BandsRead(file, n + 1, Append(bands, one))
    BY <1>7, <1>17, <1>22, Zenon DEF BandsRead, next
  <1> QED
    BY <1>23 DEF file, marker, size, zeros, at, bytes, one

\* Every field of every peak is of its type.
PeaksTyped == \A b \in DOMAIN signature.peaks : signature.peaks[b] \in Seq(TypedPeaks)

\* The bands that are not in the file yet.
Ahead == {remaining[i] : i \in 1 .. Len(remaining)} \cup (IF pc = "peaks" THEN {band} ELSE {})

\* They are ahead in ascending order.
InOrder ==
  /\ \A i, j \in 1 .. Len(remaining) : i < j => remaining[i] < remaining[j]
  /\ pc = "peaks" => \A i \in 1 .. Len(remaining) : band < remaining[i]
  /\ pc = "header" => Ahead = DOMAIN signature.peaks

\* The first k peaks of a list.
FirstOf(list, all, k) ==
  /\ list \in Seq(TypedPeaks) /\ Len(list) = k
  /\ \A l \in 1 .. k : list[l] = all[l]

\* What a reader makes of a band's content so far: the peaks that were written.
PeaksSoFar ==
  pc = "peaks" =>
    \E n, list : /\ EntriesRead(peaks_buffer, n, fft_pass_number, list)
                 /\ FirstOf(list, signature.peaks[band], written)

\* The bands a reader has found when those are still ahead.
Finds(bands, ahead) ==
  /\ bands \in Seq([band : 0 .. 3, peaks : Seq(TypedPeaks)])
  /\ {bands[i].band : i \in 1 .. Len(bands)} \cup ahead = DOMAIN signature.peaks
  /\ \A i, j \in 1 .. Len(bands) : i < j => bands[i].band < bands[j].band
  /\ \A i \in 1 .. Len(bands) : \A b \in ahead : bands[i].band < b
  /\ \A i \in 1 .. Len(bands) : bands[i].peaks = signature.peaks[bands[i].band]

\* What a reader makes of the file so far: the bands that were written.
BandsSoFar ==
  pc \in {"bands", "peaks"} /\ FileFits =>
    \E n, bands : BandsRead(cursor, n, bands) /\ Finds(bands, Ahead)

ReadsInv ==
  /\ EncodesInv
  /\ InOrder
  /\ PeaksTyped =>
       /\ PeaksSoFar
       /\ BandsSoFar
       /\ FileFits => ReadsBack

\* The encoder was handed a signature and has written nothing of it.
AtHeader == pc = "header" /\ remaining = Sorted(DOMAIN signature.peaks)

\* Before the header is written nothing is read and all bands are ahead.
LEMMA NothingReadAtHeader == EncodesInv /\ AtHeader => ReadsInv
  <1> SUFFICES ASSUME EncodesInv, AtHeader
               PROVE  ReadsInv
    OBVIOUS
  <1> DEFINE S == DOMAIN signature.peaks
  <1>1. EncodesInv /\ pc = "header"
    BY DEF AtHeader
  <1>2. S \in SUBSET (0 .. 3)
    BY <1>1 DEF EncodesInv, SignatureFits, Fits
  <1>3. remaining = Sorted(S)
    BY DEF AtHeader
  <1> HIDE DEF S
  <1>4. /\ remaining \in Seq(S)
        /\ \A b \in S : \E i \in 1 .. Len(remaining) : remaining[i] = b
        /\ \A i, j \in 1 .. Len(remaining) : i < j => remaining[i] < remaining[j]
    BY <1>2, <1>3, SortedGivesBands
  <1>5. Ahead = S
    <2>1. \A i \in 1 .. Len(remaining) : remaining[i] \in S
      BY <1>4, ElementOf
    <2> QED
      BY <1>1, <1>4, <2>1 DEF Ahead
  <1>6. InOrder
    BY <1>1, <1>4, <1>5 DEF InOrder, S
  <1> QED
    BY <1>1, <1>6 DEF ReadsInv, PeaksSoFar, BandsSoFar, ReadsBack

LEMMA ReadingStarts ==
  ASSUME Init
  PROVE  ReadsInv
  <1>1. EncodesInv
    BY EncoderStarts
  <1>2. AtHeader
    BY DEF Init, AtHeader
  <1> QED
    BY <1>1, <1>2, NothingReadAtHeader

\* A step that hands the encoder a signature starts the reading of it.
LEMMA ReadingBegins == EncodesInv' /\ AtHeader' => ReadsInv'
  BY NothingReadAtHeader, PTL

\* The header is read as no band.
LEMMA HeaderReads ==
  ASSUME ReadsInv, WriteHeader
  PROVE  ReadsInv'
  <1>1. EncodesInv'
    BY HeaderKeeps DEF ReadsInv
  <1>2. signature.sample_rate_hz \in DOMAIN SampleRateId
    BY DEF ReadsInv, EncodesInv, SignatureFits, Fits
  <1>3. /\ cursor' = Header /\ pc = "header" /\ pc' = "bands"
        /\ signature' = signature /\ remaining' = remaining /\ band' = band
    BY <1>2 DEF WriteHeader
  <1>4. Ahead' = DOMAIN signature.peaks /\ Ahead' = Ahead
    BY <1>3 DEF ReadsInv, InOrder, Ahead
  <1>5. InOrder'
    BY <1>3 DEF ReadsInv, InOrder
  <1>6. BandsRead(Header, 0, <<>>)
    <2>1. Header \in Seq(Int) /\ Len(Header) = 56
      BY HeaderHasItsSize DEF ReadsInv, EncodesInv, BandsOffset, HeaderSize
    <2> DEFINE g == [i \in {0} |-> NoBands]
    <2>2. /\ g[0] = NoBands /\ NoBands = BandsAt(Len(Header), <<>>)
          /\ \A i \in 0 .. 0 : g[i].at \in Nat /\ g[i].at >= 56 + 8 * i
          /\ \A i \in 1 .. 0 : Within(Header, g[i - 1].at) /\ g[i] = NextBand(Header, g[i - 1])
      BY <2>1 DEF NoBands, BandsAt, BandsOffset, HeaderSize
    <2> HIDE DEF g
    <2>3. BandsReadTo(Header, 0, BandsAt(Len(Header), <<>>))
      BY <2>2, Zenon DEF BandsReadTo
    <2>4. Len(Header) >= 56 + 8 * 0 /\ 0 \in Nat
      BY <2>1
    <2> QED
      BY <2>1, <2>3, <2>4, Zenon DEF BandsRead
  <1>7. Finds(<<>>, DOMAIN signature.peaks)
    <2> DEFINE Bands == [band : 0 .. 3, peaks : Seq(TypedPeaks)]
    <2> HIDE DEF Bands
    <2>1. <<>> \in Seq(Bands) /\ Len(<<>>) = 0 /\ 1 .. 0 = {}
      OBVIOUS
    <2> QED
      BY <2>1 DEF Finds, Bands
  <1>8. Finds(<<>>, DOMAIN signature.peaks)'
    BY <1>3, <1>7 DEF Finds
  <1>9. BandsSoFar'
    BY <1>3, <1>4, <1>6, <1>8, Zenon DEF BandsSoFar
  <1> QED
    BY <1>1, <1>3, <1>5, <1>9 DEF ReadsInv, PeaksSoFar, ReadsBack

\* A band is begun: nothing of it is written, and it is still ahead.
LEMMA BandReads ==
  ASSUME ReadsInv, StartBand
  PROVE  ReadsInv'
  <1>1. EncodesInv'
    BY BandKeeps DEF ReadsInv
  <1>2. /\ band' = Head(remaining) /\ remaining' = Tail(remaining) /\ remaining # <<>>
        /\ written' = 0 /\ fft_pass_number' = 0 /\ peaks_buffer' = <<>>
        /\ pc = "bands" /\ pc' = "peaks" /\ signature' = signature /\ cursor' = cursor
    BY DEF StartBand
  <1> DEFINE S == DOMAIN signature.peaks
             n == Len(remaining)
  <1>3. remaining \in Seq(S) /\ n \in Nat /\ n # 0
    BY <1>2 DEF ReadsInv, EncodesInv
  <1>4. /\ band' = remaining[1] /\ Len(remaining') = n - 1
        /\ \A i \in 1 .. n - 1 : remaining'[i] = remaining[i + 1]
    BY <1>2, <1>3
  <1> HIDE DEF S, n
  <1>5. Ahead' = Ahead
    <2>1. Ahead = {remaining[i] : i \in 1 .. n}
      BY <1>2 DEF Ahead, n
    <2>2. Ahead' = {remaining'[i] : i \in 1 .. n - 1} \cup {band'}
      BY <1>2, <1>4 DEF Ahead
    <2>3. \A i \in 1 .. n - 1 : i + 1 \in 1 .. n
      BY <1>3
    <2>4. \A i \in 1 .. n : i = 1 \/ (i - 1 \in 1 .. n - 1 /\ (i - 1) + 1 = i)
      BY <1>3
    <2>5. 1 \in 1 .. n
      BY <1>3
    <2>6. \A i \in 1 .. n : remaining[i] \in Ahead'
      <3> TAKE i \in 1 .. n
      <3>1. CASE i = 1
        BY <1>4, <2>2, <3>1
      <3>2. CASE i # 1
        <4>1. i - 1 \in 1 .. n - 1 /\ (i - 1) + 1 = i
          BY <2>4, <3>2
        <4>2. remaining'[i - 1] = remaining[i]
          BY <1>4, <4>1
        <4> QED
          BY <2>2, <4>1, <4>2
      <3> QED
        BY <3>1, <3>2
    <2>7. Ahead' \subseteq Ahead
      BY <1>4, <2>1, <2>2, <2>3, <2>5
    <2> QED
      BY <2>1, <2>6, <2>7
  <1>6. InOrder'
    <2>1. \A i, j \in 1 .. n : i < j => remaining[i] < remaining[j]
      BY DEF ReadsInv, InOrder, n
    <2>2. \A i \in 1 .. n - 1 : i \in Int /\ i + 1 \in 1 .. n /\ 1 < i + 1 /\ 1 \in 1 .. n
      BY <1>3
    <2>3. \A i, j \in 1 .. n - 1 : i < j => i + 1 < j + 1
      BY <1>3
    <2>4. \A i, j \in 1 .. n - 1 : i < j => remaining'[i] < remaining'[j]
      BY <1>4, <2>1, <2>2, <2>3
    <2>5. \A i \in 1 .. n - 1 : band' < remaining'[i]
      BY <1>4, <2>1, <2>2
    <2> QED
      BY <1>2, <1>4, <2>4, <2>5 DEF InOrder
  <1>7. PeaksSoFar'
    <2>1. FirstOf(<<>>, signature.peaks[band'], 0)
      BY DEF FirstOf
    <2>2. EntriesRead(<<>>, 0, 0, <<>>)
      BY NothingRead
    <2> QED
      BY <1>2, <2>1, <2>2 DEF PeaksSoFar
  <1>8. ASSUME PeaksTyped
        PROVE  BandsSoFar'
    <2>1. BandsSoFar
      BY <1>8 DEF ReadsInv
    <2>2. FileFits' => FileFits
      BY <1>2 DEF FileFits
    <2>3. ASSUME FileFits'
          PROVE  \E m, bands : BandsRead(cursor', m, bands) /\ Finds(bands, Ahead)'
      <3>1. PICK m, bands : BandsRead(cursor, m, bands) /\ Finds(bands, Ahead)
        BY <1>2, <2>1, <2>2, <2>3 DEF BandsSoFar
      <3>2. Finds(bands, Ahead)'
        BY <1>2, <1>5, <3>1 DEF Finds
      <3> QED
        BY <1>2, <3>1, <3>2
    <2> QED
      BY <2>3 DEF BandsSoFar
  <1>9. PeaksTyped' => PeaksTyped
    BY <1>2 DEF PeaksTyped
  <1> QED
    BY <1>1, <1>2, <1>6, <1>7, <1>8, <1>9 DEF ReadsInv, ReadsBack

\* The next peak of a list.
LEMMA NextOf ==
  ASSUME NEW list, NEW all, NEW k \in Nat, FirstOf(list, all, k), all[k + 1] \in TypedPeaks
  PROVE  FirstOf(Append(list, all[k + 1]), all, k + 1)
  <1> DEFINE one == all[k + 1]
             more == Append(list, one)
  <1>1. list \in Seq(TypedPeaks) /\ Len(list) = k /\ \A l \in 1 .. k : list[l] = all[l]
    BY DEF FirstOf
  <1>2. one \in TypedPeaks /\ one = all[k + 1]
    OBVIOUS
  <1> HIDE DEF one
  <1>3. /\ more \in Seq(TypedPeaks) /\ Len(more) = Len(list) + 1
        /\ \A l \in 1 .. Len(list) : more[l] = list[l]
        /\ more[Len(list) + 1] = one
    BY <1>1, <1>2, AppendProperties
  <1> HIDE DEF more
  <1>4. \A l \in 1 .. k + 1 : more[l] = all[l]
    <2> TAKE l \in 1 .. k + 1
    <2>1. CASE l \in 1 .. k
      BY <1>1, <1>3, <2>1
    <2>2. CASE l = k + 1
      BY <1>1, <1>2, <1>3, <2>2
    <2> QED
      BY <2>1, <2>2
  <1>5. FirstOf(more, all, k + 1)
    BY <1>1, <1>3, <1>4 DEF FirstOf
  <1> QED
    BY <1>5 DEF more, one

\* A peak is written: it is read after those before it.
LEMMA PeakReads ==
  ASSUME ReadsInv, WritePeak
  PROVE  ReadsInv'
  <1> DEFINE all == signature.peaks[band]
             peak == all[written + 1]
  <1>1. EncodesInv' /\ pc' # "panicked"
    <2>1. EncodesInv'
      BY PeakKeeps DEF ReadsInv
    <2> QED
      BY <2>1 DEF EncodesInv
  <1>2. /\ pc = "peaks" /\ written < Len(all)
        /\ signature' = signature /\ cursor' = cursor /\ remaining' = remaining /\ band' = band
        /\ peak.pass >= fft_pass_number
        /\ peaks_buffer' = peaks_buffer \o PeakBytes(peak)
        /\ fft_pass_number' = peak.pass /\ written' = written + 1 /\ pc' = pc
    BY <1>1 DEF WritePeak
  <1>3. Ahead' = Ahead /\ InOrder'
    BY <1>2 DEF ReadsInv, InOrder, Ahead
  <1>4. ASSUME PeaksTyped
        PROVE  PeaksSoFar'
    <2>1. PICK n, list : /\ EntriesRead(peaks_buffer, n, fft_pass_number, list)
                         /\ FirstOf(list, all, written)
      BY <1>2, <1>4 DEF ReadsInv, PeaksSoFar
    <2>2. band \in DOMAIN signature.peaks /\ written \in Nat
      <3>1. band \in DOMAIN signature.peaks /\ written \in 0 .. Len(all)
        BY <1>2 DEF ReadsInv, EncodesInv, InBand
      <3> QED
        BY <3>1
    <2>3. all \in Seq(TypedPeaks)
      BY <1>4, <2>2 DEF PeaksTyped
    <2> HIDE DEF all
    <2>4. peak \in TypedPeaks /\ peak = all[written + 1]
      <3>1. written + 1 \in 1 .. Len(all)
        BY <1>2, <2>2, <2>3
      <3> QED
        BY <2>3, <3>1, ElementOf
    <2> HIDE DEF peak
    <2>5. fft_pass_number <= peak.pass
      <3>1. peak.pass \in Nat /\ fft_pass_number \in Nat
        BY <2>1, <2>4 DEF TypedPeaks, Words, EntriesRead
      <3> QED
        BY <1>2, <3>1
    <2>6. PICK m : EntriesRead(peaks_buffer \o PeakBytes(peak), m, peak.pass, Append(list, peak))
      BY <2>1, <2>4, <2>5, PeakRead, Zenon
    <2>7. FirstOf(Append(list, peak), all, written + 1)
      BY <2>1, <2>2, <2>4, NextOf
    <2>8. signature'.peaks[band'] = all
      BY <1>2 DEF all
    <2>9. /\ EntriesRead(peaks_buffer', m, fft_pass_number', Append(list, peak))
          /\ FirstOf(Append(list, peak), signature'.peaks[band'], written')
      BY <1>2, <2>6, <2>7, <2>8
    <2> QED
      BY <2>9, Zenon DEF PeaksSoFar
  <1>5. ASSUME PeaksTyped
        PROVE  BandsSoFar'
    <2> HIDE DEF all, peak
    <2>1. BandsSoFar
      BY <1>5 DEF ReadsInv
    <2>2. FileFits' => FileFits
      BY <1>2 DEF FileFits
    <2>3. ASSUME FileFits'
          PROVE  \E m, bands : BandsRead(cursor', m, bands) /\ Finds(bands, Ahead)'
      <3>1. PICK m, bands : BandsRead(cursor, m, bands) /\ Finds(bands, Ahead)
        BY <1>2, <2>1, <2>2, <2>3 DEF BandsSoFar
      <3>2. Finds(bands, Ahead)'
        BY <1>2, <1>3, <3>1 DEF Finds
      <3> QED
        BY <1>2, <3>1, <3>2
    <2> QED
      BY <2>3 DEF BandsSoFar
  <1>6. PeaksTyped' => PeaksTyped
    BY <1>2 DEF PeaksTyped
  <1>7. ReadsBack'
    BY <1>2 DEF ReadsBack
  <1> QED
    BY <1>1, <1>3, <1>4, <1>5, <1>6, <1>7, Zenon DEF ReadsInv

\* A band that is ahead of those found, with the peaks recorded for it, is found next.
LEMMA FindsNext ==
  ASSUME NEW bands, NEW next \in DOMAIN signature.peaks, NEW ahead,
         Finds(bands, ahead \cup {next}), \A b \in ahead : next < b,
         DOMAIN signature.peaks \subseteq 0 .. 3, signature.peaks[next] \in Seq(TypedPeaks),
         NEW one, one = [band |-> next, peaks |-> signature.peaks[next]]
  PROVE  Finds(Append(bands, one), ahead)
  <1> DEFINE Bands == [band : 0 .. 3, peaks : Seq(TypedPeaks)]
             n == Len(bands)
             more == Append(bands, one)
             of(i) == more[i].band
  <1>1. next \in 0 .. 3 /\ \A b \in DOMAIN signature.peaks : b \in Int
    OBVIOUS
  <1>2. one \in Bands /\ one.band = next /\ one.peaks = signature.peaks[next]
    BY <1>1
  <1> HIDE DEF Bands
  <1>3. bands \in Seq(Bands) /\ n \in Nat
    BY DEF Finds, Bands
  <1>4. /\ more \in Seq(Bands) /\ Len(more) = n + 1
        /\ \A i \in 1 .. n : more[i] = bands[i]
        /\ more[n + 1] = one
    BY <1>2, <1>3, AppendProperties
  <1> HIDE DEF more, n
  <1>5. \A i \in 1 .. n + 1 : i \in 1 .. n \/ i = n + 1
    BY <1>3
  <1>6. {more[i].band : i \in 1 .. n + 1} \cup ahead = DOMAIN signature.peaks
    <2>1. {bands[i].band : i \in 1 .. n} \cup (ahead \cup {next}) = DOMAIN signature.peaks
      BY DEF Finds, n
    <2>2. {more[i].band : i \in 1 .. n + 1} = {bands[i].band : i \in 1 .. n} \cup {next}
      <3>1. \A i \in 1 .. n : i \in 1 .. n + 1 /\ more[i].band = bands[i].band
        BY <1>3, <1>4
      <3>2. n + 1 \in 1 .. n + 1 /\ more[n + 1].band = next
        BY <1>2, <1>3, <1>4
      <3> QED
        BY <1>5, <3>1, <3>2
    <2> QED
      BY <2>1, <2>2
  <1>7. \A i \in 1 .. n : bands[i].band < next /\ \A b \in ahead : bands[i].band < b
    BY DEF Finds, n
  <1>8. \A i, j \in 1 .. n + 1 : i < j => more[i].band < more[j].band
    <2> SUFFICES ASSUME NEW i \in 1 .. n + 1, NEW j \in 1 .. n + 1, i < j
                 PROVE  more[i].band < more[j].band
      OBVIOUS
    <2>1. i \in 1 .. n
      BY <1>3
    <2>2. CASE j \in 1 .. n
      <3>1. bands[i].band < bands[j].band
        BY <2>1, <2>2 DEF Finds, n
      <3> QED
        BY <1>4, <2>1, <2>2, <3>1
    <2>3. CASE j = n + 1
      BY <1>2, <1>4, <1>7, <2>1, <2>3
    <2> QED
      BY <1>5, <2>2, <2>3
  <1>9. \A i \in 1 .. n + 1 : \A b \in ahead : more[i].band < b
    <2> TAKE i \in 1 .. n + 1
    <2>1. CASE i \in 1 .. n
      BY <1>4, <1>7, <2>1
    <2>2. CASE i = n + 1
      BY <1>2, <1>4, <2>2
    <2> QED
      BY <1>5, <2>1, <2>2
  <1>10. \A i \in 1 .. n + 1 : more[i].peaks = signature.peaks[more[i].band]
    <2> TAKE i \in 1 .. n + 1
    <2>1. CASE i \in 1 .. n
      <3>1. bands[i].peaks = signature.peaks[bands[i].band]
        BY <2>1 DEF Finds, n
      <3> QED
        BY <1>4, <2>1, <3>1
    <2>2. CASE i = n + 1
      BY <1>2, <1>4, <2>2
    <2> QED
      BY <1>5, <2>1, <2>2
  <1>11. Finds(more, ahead)
    BY <1>4, <1>6, <1>8, <1>9, <1>10, Zenon DEF Finds, Bands
  <1> QED
    BY <1>11 DEF more

\* A band is ended: it is one more in the file, with all its peaks.
LEMMA BandEndReads ==
  ASSUME ReadsInv, EndBand
  PROVE  ReadsInv'
  <1> DEFINE all == signature.peaks[band]
             file == cursor \o U32(Marker(band)) \o U32(Len(peaks_buffer)) \o peaks_buffer
                       \o Padding(peaks_buffer)
             behind == {remaining[i] : i \in 1 .. Len(remaining)}
             one == [band |-> band, peaks |-> all]
  <1>1. EncodesInv'
    BY BandEndKeeps DEF ReadsInv
  <1>2. /\ pc = "peaks" /\ pc' = "bands" /\ written = Len(all) /\ cursor' = file
        /\ signature' = signature /\ remaining' = remaining
    BY DEF EndBand
  <1>3. /\ Ahead = behind \cup {band} /\ Ahead' = behind /\ \A b \in behind : band < b
        /\ InOrder'
    BY <1>2 DEF ReadsInv, InOrder, Ahead
  <1>4. /\ band \in DOMAIN signature.peaks /\ DOMAIN signature.peaks \subseteq 0 .. 3
        /\ peaks_buffer \in Seq(Int) /\ cursor \in Seq(Int) /\ Len(cursor) >= 56
    BY <1>2 DEF ReadsInv, EncodesInv, InBand, SignatureFits, Fits, Written, BandsOffset,
       HeaderSize
  <1>5. band \in 0 .. 3
    BY <1>4, Zenon
  <1> HIDE DEF behind
  <1>6. ASSUME PeaksTyped, FileFits'
        PROVE  \E n, bands : BandsRead(cursor', n, bands) /\ Finds(bands, Ahead)'
    <2>1. PICK n, list : /\ EntriesRead(peaks_buffer, n, fft_pass_number, list)
                         /\ FirstOf(list, all, written)
      BY <1>2, <1>6 DEF ReadsInv, PeaksSoFar
    <2>2. all \in Seq(TypedPeaks)
      BY <1>4, <1>6 DEF PeaksTyped
    <2> HIDE DEF all
    <2>3. list = all
      BY <1>2, <2>1, <2>2, SeqEqual DEF FirstOf
    <2>4. PeaksIn(peaks_buffer) = all
      BY <2>1, <2>3, EntriesReadOut, Zenon
    <2>5. /\ Len(peaks_buffer) < WordEnd /\ FileFits
      <3> DEFINE marker == U32(Marker(band))
                 size == U32(Len(peaks_buffer))
                 zeros == Padding(peaks_buffer)
      <3>1. marker \in Seq(Int) /\ Len(marker) = 4 /\ size \in Seq(Int) /\ Len(size) = 4
        <4>1. Marker(band) \in Int /\ Len(peaks_buffer) \in Int
          BY <1>4, <1>5 DEF Marker
        <4> QED
          BY <4>1, BytesOfWord
      <3>2. zeros \in Seq(Int) /\ Len(zeros) \in Nat
        BY <1>4, PaddingIsBytes
      <3> HIDE DEF marker, size, zeros
      <3>3. LaidOut(file, cursor, marker, size, peaks_buffer, zeros)
        BY <1>4, <3>1, <3>2, BandLaidOut DEF marker, size, zeros
      <3> HIDE DEF file
      <3>4. Len(file) = Len(cursor) + 8 + Len(peaks_buffer) + Len(zeros)
        BY <3>3, Zenon DEF LaidOut
      <3>5. Len(file) - 48 < WordEnd
        BY <1>2, <1>6 DEF FileFits, HeaderSize
      <3>6. WordEnd \in Int
        BY DEF WordEnd
      <3>7. Len(peaks_buffer) \in Nat /\ Len(cursor) \in Nat
        BY <1>4
      <3>8. Len(peaks_buffer) < WordEnd /\ Len(cursor) - 48 < WordEnd
        BY <1>4, <3>2, <3>4, <3>5, <3>6, <3>7
      <3> QED
        BY <3>8 DEF FileFits, HeaderSize
    <2>6. PICK m, bands : BandsRead(cursor, m, bands) /\ Finds(bands, Ahead)
      BY <1>2, <1>6, <2>5 DEF ReadsInv, BandsSoFar
    <2>7. BandsRead(file, m + 1, Append(bands, [band |-> band, peaks |-> PeaksIn(peaks_buffer)]))
      BY <1>4, <1>5, <2>5, <2>6, BandRead
    <2>8. BandsRead(cursor', m + 1, Append(bands, one))
      BY <1>2, <2>4, <2>7
    <2>9. Finds(Append(bands, one), behind)
      <3>1. Finds(bands, behind \cup {band})
        BY <1>3, <2>6
      <3>2. one = [band |-> band, peaks |-> signature.peaks[band]]
        BY DEF all
      <3>3. signature.peaks[band] \in Seq(TypedPeaks)
        BY <2>2 DEF all
      <3> HIDE DEF one
      <3> QED
        BY <1>3, <1>4, <3>1, <3>2, <3>3, FindsNext
    <2> HIDE DEF one, file
    <2>10. Finds(Append(bands, one), behind) => \E more : /\ more = Append(bands, one)
                                                          /\ Finds(more, Ahead)'
      BY <1>2, <1>3 DEF Finds
    <2> QED
      BY <2>8, <2>9, <2>10
  <1>7. PeaksTyped' => PeaksTyped
    BY <1>2 DEF PeaksTyped
  <1>8. PeaksTyped' => BandsSoFar'
    BY <1>6, <1>7 DEF BandsSoFar
  <1>9. ReadsBack' /\ PeaksSoFar'
    BY <1>2 DEF ReadsBack, PeaksSoFar
  <1> QED
    BY <1>1, <1>3, <1>8, <1>9, Zenon DEF ReadsInv

\* Completing the header leaves the bands as they are read.
LEMMA FinishReads ==
  ASSUME ReadsInv, Finish
  PROVE  ReadsInv'
  <1>1. EncodesInv'
    BY FinishKeeps DEF ReadsInv
  <1>2. /\ cursor' = Completed(cursor) /\ pc = "bands" /\ remaining = <<>> /\ pc' = "encoded"
        /\ signature' = signature /\ remaining' = remaining /\ band' = band
    BY DEF Finish
  <1>3. InOrder'
    BY <1>2 DEF ReadsInv, InOrder
  <1>4. cursor \in Seq(Int) /\ Len(cursor) >= 56
    BY <1>2 DEF ReadsInv, EncodesInv, Written, BandsOffset, HeaderSize
  <1>5. Ahead = {}
    BY <1>2 DEF Ahead
  <1>6. ASSUME PeaksTyped, FileFits'
        PROVE  ReadsBack'
    <2>1. Len(cursor') = Len(cursor)
      BY <1>2 DEF Completed, Overwrite
    <2>2. FileFits /\ Len(cursor) - 48 < WordEnd
      BY <1>6, <2>1 DEF FileFits, HeaderSize
    <2>3. Alike(cursor, cursor')
      BY <1>2, <1>4, <2>2, HeaderCompleted
    <2>4. PICK n, bands : BandsRead(cursor, n, bands) /\ Finds(bands, {})
      BY <1>2, <1>5, <1>6, <2>2 DEF ReadsInv, BandsSoFar
    <2> DEFINE reader == BandsAt(Len(cursor), bands)
    <2>5. n \in Nat /\ BandsReadTo(cursor, n, reader) /\ Len(cursor) \in Nat
      BY <1>4, <2>4 DEF BandsRead
    <2>6. reader.at = Len(cursor') /\ reader.bands = bands /\ Len(cursor') \in Nat
      BY <2>1, <2>5 DEF BandsAt
    <2> HIDE DEF reader
    <2>7. BandsReadTo(cursor', n, reader)
      BY <2>3, <2>5, BandsReadAlike, Zenon
    <2>8. BandsIn(cursor') = bands
      BY <2>5, <2>6, <2>7, BandsReadOut
    <2>9. DOMAIN bands = 1 .. Len(bands)
      BY <2>4 DEF Finds
    <2>10. /\ {bands[i].band : i \in DOMAIN bands} = DOMAIN signature.peaks
           /\ \A i, j \in DOMAIN bands : i < j => bands[i].band < bands[j].band
           /\ \A i \in DOMAIN bands : bands[i].peaks = signature.peaks[bands[i].band]
      BY <2>4, <2>9 DEF Finds
    <2> QED
      BY <1>2, <2>8, <2>10, Zenon DEF ReadsBack
  <1>7. PeaksTyped' => PeaksTyped
    BY <1>2 DEF PeaksTyped
  <1>8. PeaksSoFar' /\ BandsSoFar'
    BY <1>2 DEF PeaksSoFar, BandsSoFar
  <1> QED
    BY <1>1, <1>3, <1>6, <1>7, <1>8, Zenon DEF ReadsInv

\* A step that writes nothing keeps what has been read true.
LEMMA StutterReads ==
  ASSUME ReadsInv, UNCHANGED vars
  PROVE  ReadsInv'
  <1>1. EncodesInv'
    BY DEF ReadsInv, EncodesInv, SignatureFits, Fits, InBand, Written, FileFits,
       HeaderDescribesFile, vars
  <1>2. /\ Ahead' = Ahead /\ PeaksTyped' = PeaksTyped /\ InOrder' = InOrder
        /\ PeaksSoFar' = PeaksSoFar /\ FileFits' = FileFits /\ ReadsBack' = ReadsBack
    BY DEF Ahead, PeaksTyped, InOrder, PeaksSoFar, FileFits, ReadsBack, vars
  <1>3. BandsSoFar' = BandsSoFar
    BY <1>2 DEF BandsSoFar, Finds, vars
  <1> QED
    BY <1>1, <1>2, <1>3 DEF ReadsInv

\* Every step of the encoder keeps what has been read true of what is written.
LEMMA StepReads ==
  ASSUME ReadsInv, [Next]_vars
  PROVE  ReadsInv'
  BY StutterReads, HeaderReads, BandReads, PeakReads, BandEndReads, FinishReads DEF Next

LEMMA ReadInvariance == Spec => []ReadsInv
  BY ReadingStarts, StepReads, PTL DEF Spec

\* A reader of a finished file finds every band of the signature once and in
\* ascending order, each with exactly its peaks, for every signature whose peaks
\* are of the types of their fields, as long as a word can say the file's size.
THEOREM SignatureReadsBack == Spec => [](PeaksTyped /\ FileFits => ReadsBack)
  <1>1. ReadsInv => (PeaksTyped /\ FileFits => ReadsBack)
    BY DEF ReadsInv
  <1> QED
    BY <1>1, ReadInvariance, PTL

-------------------------------------------------------------------------------
(* The samples the header declares. *)

\* Once the header is written, its word at offset 40 is the number of samples with
\* the padding, whatever is written behind it and filled in since.
DeclaresSamples ==
  pc \in {"bands", "peaks", "encoded"} /\ FileFits /\ PaddedSamples < WordEnd =>
    WordAt(cursor, 40) = PaddedSamples

LEMMA DeclaredAlike ==
  ASSUME NEW file, NEW other, Alike(file, other)
  PROVE  WordAt(other, 40) = WordAt(file, 40)
  <1>1. \A i \in 41 .. 44 : other[i] = file[i]
    BY Zenon DEF Alike
  <1>2. \A j \in 1 .. 4 : other[40 + j] = file[40 + j]
    BY <1>1
  <1> QED
    BY <1>2, SameWord

\* Every step of the encoder keeps the samples declared.
LEMMA StepDeclares ==
  ASSUME EncodesInv, DeclaresSamples, [Next]_vars
  PROVE  DeclaresSamples'
  <1>1. CASE WriteHeader
    <2>1. SignatureFits /\ signature.sample_rate_hz \in DOMAIN SampleRateId
      BY DEF EncodesInv, SignatureFits, Fits
    <2>2. cursor' = Header /\ signature' = signature
      BY <1>1, <2>1 DEF WriteHeader
    <2>3. ASSUME PaddedSamples < WordEnd
          PROVE  WordAt(Header, 40) = PaddedSamples
      <3>1. PaddedSamples \in Words
        BY <2>1, <2>3 DEF SignatureFits, Fits, SampleRateId, PaddedSamples, Words
      <3>2. \A i \in 1 .. 4 : Header[40 + i] = U32(PaddedSamples)[i]
        BY <2>1, HeaderHasItsSize
      <3> HIDE DEF PaddedSamples
      <3> QED
        BY <3>1, <3>2, WordThere
    <2> QED
      BY <2>2, <2>3 DEF DeclaresSamples, PaddedSamples
  <1>2. ASSUME pc \in {"bands", "peaks"}, signature' = signature, FileFits' => FileFits,
               FileFits' => WordAt(cursor', 40) = WordAt(cursor, 40)
        PROVE  DeclaresSamples'
    BY <1>2 DEF DeclaresSamples, PaddedSamples
  <1>3. CASE StartBand \/ WritePeak
    <2>1. /\ cursor' = cursor /\ signature' = signature /\ FileFits' = FileFits
          /\ pc \in {"bands", "peaks"}
      BY <1>3 DEF StartBand, WritePeak, FileFits
    <2> QED
      BY <1>2, <2>1
  <1>4. CASE EndBand
    <2> DEFINE marker == U32(Marker(band))
               size == U32(Len(peaks_buffer))
               zeros == Padding(peaks_buffer)
               file == cursor \o marker \o size \o peaks_buffer \o zeros
    <2>1. cursor' = file /\ signature' = signature /\ pc = "peaks"
      BY <1>4 DEF EndBand
    <2>2. /\ band \in Int /\ peaks_buffer \in Seq(Int)
          /\ cursor \in Seq(Int) /\ Len(cursor) >= 56
      <3>1. band \in DOMAIN signature.peaks /\ DOMAIN signature.peaks \subseteq 0 .. 3
        BY <2>1 DEF EncodesInv, InBand, SignatureFits, Fits
      <3>2. /\ peaks_buffer \in Seq(Int)
            /\ cursor \in Seq(Int) /\ Len(cursor) >= 56
        BY <2>1 DEF EncodesInv, InBand, Written, BandsOffset, HeaderSize
      <3>3. band \in 0 .. 3
        BY <3>1, Zenon
      <3>4. band \in Int
        BY <3>3
      <3> QED
        BY <3>2, <3>4
    <2>3. marker \in Seq(Int) /\ Len(marker) = 4 /\ size \in Seq(Int) /\ Len(size) = 4
      <3>1. Marker(band) \in Int /\ Len(peaks_buffer) \in Int
        BY <2>2 DEF Marker
      <3> QED
        BY <3>1, BytesOfWord
    <2>4. zeros \in Seq(Int) /\ Len(zeros) \in Nat
      BY <2>2, PaddingIsBytes
    <2> HIDE DEF marker, size, zeros
    <2>5. LaidOut(file, cursor, marker, size, peaks_buffer, zeros)
      BY <2>2, <2>3, <2>4, BandLaidOut
    <2> HIDE DEF file
    <2>6. /\ Len(file) = Len(cursor) + 8 + Len(peaks_buffer) + Len(zeros)
          /\ \A i \in 1 .. Len(cursor) : file[i] = cursor[i]
      BY <2>5, Zenon DEF LaidOut
    <2>7. FileFits' => FileFits
      <3>1. /\ WordEnd \in Int /\ Len(cursor) \in Nat /\ Len(peaks_buffer) \in Nat
        BY <2>2 DEF WordEnd
      <3>2. Len(file) - 48 < WordEnd => Len(cursor) - 48 < WordEnd
        BY <2>4, <2>6, <3>1
      <3> QED
        BY <2>1, <3>2 DEF FileFits, HeaderSize
    <2>8. WordAt(file, 40) = WordAt(cursor, 40)
      <3>1. \A j \in 1 .. 4 : file[40 + j] = cursor[40 + j]
        BY <2>2, <2>6
      <3> QED
        BY <3>1, SameWord
    <2> QED
      BY <1>2, <2>1, <2>7, <2>8
  <1>5. CASE Finish
    <2>1. cursor' = Completed(cursor) /\ signature' = signature /\ pc = "bands"
      BY <1>5 DEF Finish
    <2>2. cursor \in Seq(Int) /\ Len(cursor) >= 56
      BY <2>1 DEF EncodesInv, Written, BandsOffset, HeaderSize
    <2>3. Len(cursor') = Len(cursor)
      BY <2>1 DEF Completed, Overwrite
    <2>4. FileFits' => FileFits /\ Len(cursor) - 48 < WordEnd
      BY <2>3 DEF FileFits, HeaderSize
    <2>5. FileFits' => WordAt(cursor', 40) = WordAt(cursor, 40)
      <3>1. ASSUME FileFits'
            PROVE  WordAt(Completed(cursor), 40) = WordAt(cursor, 40)
        <4>1. Alike(cursor, Completed(cursor))
          BY <2>2, <2>4, <3>1, HeaderCompleted
        <4> QED
          BY <4>1, DeclaredAlike, Zenon
      <3> QED
        BY <2>1, <3>1, Zenon
    <2> QED
      BY <1>2, <2>1, <2>4, <2>5
  <1>6. CASE UNCHANGED vars
    BY <1>6 DEF DeclaresSamples, PaddedSamples, FileFits, vars
  <1> QED
    BY <1>1, <1>3, <1>4, <1>5, <1>6 DEF Next

\* The finished file declares the samples the signature was made of and the padding,
\* for every signature whose padded samples a word can say.
THEOREM HeaderDeclaresSamples == Spec => []DeclaresSamples
  <1>1. Init => DeclaresSamples
    BY DEF Init, DeclaresSamples
  <1> QED
    BY <1>1, EncoderInvariance, StepDeclares, PTL DEF Spec
================================================================================
