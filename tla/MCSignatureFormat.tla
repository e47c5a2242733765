--------------------------- MODULE MCSignatureFormat ---------------------------
(***************************************************************************)
(* Signatures of one or two bands, of one to three peaks each, at passes   *)
(* whose distances fall on both sides of the escape: 0, 1, 254, 255, 256   *)
(* and more.  A band of four times five bytes needs no padding; bands of   *)
(* one, two and three times as many need three, two and one byte.          *)
(***************************************************************************)
EXTENDS SignatureFormat, Functions

MCPassLists ==
  {<<0>>, <<254>>, <<255>>, <<256>>, <<0, 0>>, <<1, 255>>, <<1, 256>>, <<300, 600>>,
   <<254, 508, 763>>, <<0, 255, 65536>>}

MCPeaks(passes) ==
  [i \in DOMAIN passes |-> [pass |-> passes[i], magnitude |-> 65535 - (passes[i] % 512),
                            bin |-> 256 * i + 255]]

MCSignatures ==
  {[sample_rate_hz |-> 16000, number_samples |-> 191996,
    peaks |-> [b \in {x, y} |-> MCPeaks(IF b = x THEN first ELSE second)]] :
     x \in {0, 3}, y \in {1, 3}, first \in MCPassLists, second \in MCPassLists}

\* Any function of the bytes and of where they are will do.
MCChecksum(bytes) ==
  FoldFunction(LAMBDA x, y : ((x + y) % 65521), 0, [i \in DOMAIN bytes |-> i * bytes[i]])
================================================================================
