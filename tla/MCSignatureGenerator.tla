-------------------------- MODULE MCSignatureGenerator --------------------------
(***************************************************************************)
(* The fingerprint loop with short rings and a transform that may give     *)
(* several spectra, so that TLC tries every combination of them: tones that*)
(* rise, that tie, that meet in time and that sit eleven bins apart.       *)
(***************************************************************************)
EXTENDS SignatureGenerator, TLC

MCChunkCounts == {0, 5, 20}
MCFormerOffsets == {1, 3, 6}
MCNeighborOffsets == {-10, -7, -4, -3, 1, 2, 5, 8}
\* One lap is 16: two passes older than the judged one and one newer, the last
\* written as a positive offset as the code writes its own.  As in the code, none
\* is a pass that the judged one has been spread into.
MCOtherOffsets == {-13, -5, 2}

MCLevels == 0 .. 4

\* The levels up to the threshold share the floor of the logarithm.
MCMagnitude(level) == CASE level <= 2 -> 6 [] level = 3 -> 8 [] level = 4 -> 13

Row(tones) == [b \in Bins |-> IF b \in DOMAIN tones THEN tones[b] ELSE 1]
Tone(bins, level) == Row([b \in bins |-> level])

MCSpectra(window) ==
  LET latest == window[WindowChunks - 1]
  IN  CASE latest = 3 -> {Tone({33}, 3), Tone({33, 34}, 2), Tone({32, 43}, 4)}
        [] latest = 4 -> {Tone({}, 1), Tone({33}, 4)}
        [] latest = 6 -> {Tone({}, 0), Tone({33, 34, 35}, 3),
                          Row([b \in 32 .. 34 |-> b - 30])}
        [] latest \in {8, 13} -> {Tone({}, 1), Tone({34}, 2), Tone({40}, 3)}
        [] latest = 10 -> {Row(33 :> 4 @@ 34 :> 3 @@ 36 :> 4), Tone({43}, 2)}
        [] OTHER -> {Tone({}, 1)}
===============================================================================
