------------------------------ MODULE MCMonoDecoder ------------------------------
(***************************************************************************)
(* Every stream of up to four reader events over two tracks, two specs and *)
(* every way a packet, a link, a container or the reader can turn out.     *)
(***************************************************************************)
EXTENDS MonoDecoder, SequencesExt

CONSTANTS MaxEvents, Mono, Stereo

MCChannels(shape) == IF shape = Stereo THEN 2 ELSE 1

Track(id, codec) == [id |-> id, codec |-> codec]
Packet(track, decodes, shape, frames) ==
  [kind |-> "packet", track |-> track, decodes |-> decodes, spec |-> shape, frames |-> frames]
Reset(tracks) == [kind |-> "reset", tracks |-> tracks]

\* An unreadable track first, as AC-3 before FLAC.
Second == <<Track(1, "unknown"), Track(2, "known")>>
\* After a reset the other track is the one selected.
First == <<Track(1, "known"), Track(2, "known")>>

MCEvents ==
  { Packet(2, "ok", Mono, 3), Packet(2, "ok", Mono, 0), Packet(2, "ok", Stereo, 2),
    Packet(1, "ok", Mono, 2), Packet(2, "short", Mono, 0), Packet(2, "damaged", Mono, 0),
    Reset(Second), Reset(First), Reset(<<Track(1, "refused"), Track(2, "known")>>),
    [kind |-> "eof"], [kind |-> "fault"] }

Openings == {<<>>, <<Track(1, "unknown")>>, <<Track(1, "refused"), Track(2, "known")>>, First}

MCStreams ==
  [recognised : {TRUE}, tracks : {Second}, events : BoundedSeq(MCEvents, MaxEvents)]
    \cup [recognised : BOOLEAN, tracks : Openings, events : BoundedSeq(MCEvents, 1)]
===============================================================================
