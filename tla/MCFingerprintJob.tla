---------------------------- MODULE MCFingerprintJob ----------------------------
(***************************************************************************)
(* Every stream of up to three events over packets shorter and longer than *)
(* a chunk of the resampler, none at all, the short ones, the ones of      *)
(* another track or format and a chained link.  A frame is a quarter of a  *)
(* second, a pass 3000 samples; a ring holds eight of them.                *)
(***************************************************************************)
EXTENDS FingerprintJob, FiniteSetsExt

CONSTANTS Mono, Stereo, Mute

Tracks == <<[id |-> 1, codec |-> "known"]>>
Packet(track, decodes, shape, frames) ==
  [kind |-> "packet", track |-> track, decodes |-> decodes, spec |-> shape, frames |-> frames]

Events ==
  { Packet(1, "ok", Mono, 0), Packet(1, "ok", Mono, 1), Packet(1, "ok", Mono, 5),
    Packet(1, "ok", Stereo, 2), Packet(2, "ok", Mono, 1), Packet(1, "short", Mono, 0),
    [kind |-> "reset", tracks |-> Tracks] }
Endings == { Packet(1, "ok", Mute, 1), Packet(1, "damaged", Mono, 0), [kind |-> "fault"] }

Opened(events) == [recognised |-> TRUE, tracks |-> Tracks, events |-> events]

MCStreams ==
  {Opened(events) : events \in BoundedSeq(Events, 3)}
    \cup {Opened(<<Packet(1, "ok", Mono, 5), event>>) : event \in Endings}
    \cup {Opened(<<event>>) : event \in Endings}
    \cup {[Opened(<<>>) EXCEPT !.recognised = FALSE], [Opened(<<>>) EXCEPT !.tracks = <<>>]}

MCOutputAfter(count) == 8000 * count
MCExpected(frames) == 4000 * frames
MCDurations == {None, 1, 3}

MCFormerOffsets == {1}
MCNeighborOffsets == {-3, 1}
MCOtherOffsets == {-5}
MCLevels == 0 .. 3
MCMagnitude(level) == IF level <= 1 THEN 6 ELSE 4 * level

\* The first and the last bin judged are of two bands, 507 and 531 Hz.
Tone(bin, level) == [b \in 0 .. BinCount - 1 |-> IF b = bin THEN level ELSE 1]
MCSpectra(window) ==
  LET latest == window[WindowChunks - 1]
  IN  CASE latest = 1 -> {Tone(FirstBin, 3), Tone(LastBin, 2)}
        [] latest \in {0, 4} -> {Tone(FirstBin, 2)}
        [] latest \in {2, 9} -> {Tone(LastBin, 3)}
        [] latest = 8 -> {Tone(FirstBin, 3), Tone(FirstBin, 1)}
        [] OTHER -> {Tone(FirstBin, 1)}

MCChecksum(bytes) == SumSet({i * bytes[i] : i \in DOMAIN bytes}) % 65521
================================================================================
