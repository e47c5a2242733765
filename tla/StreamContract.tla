----------------------------- MODULE StreamContract -----------------------------
(***************************************************************************)
(* What reading a stream promises its caller, said of the whole stream at  *)
(* once: the packets of the selected track in their order and under one    *)
(* spec, or a refusal.  `PacketDecoder` reaches it one packet at a time.   *)
(*                                                                         *)
(* A stream is whether the probe recognises it, the tracks its container   *)
(* opens with, and the events its reader answers with, one for each call   *)
(* of `next_packet`:                                                       *)
(*   packet   one packet, its track, and what its decoder makes of it: `ok`*)
(*            with a spec and some frames, `short` (an I/O error), or      *)
(*            `damaged` (any other error)                                  *)
(*   reset    a chained link begins and these are its tracks               *)
(*   end      no more packets; `eof` is the unexpected end of file         *)
(*   fault    any other error of the reader                                *)
(* A reader with no event left answers `end`.  A track's codec is          *)
(* `unknown` to this build, `refused` by its decoder's constructor, or     *)
(* `known`.                                                                *)
(***************************************************************************)
EXTENDS Integers, Sequences, FiniteSets

CONSTANTS Streams, NoTrack

VARIABLES stream, result

Pending == [kind |-> "pending"]
Refused == [kind |-> "refused"]
Chunks(positions) == [kind |-> "chunks", positions |-> positions]

Events == stream.events

\* Where reading stops: the first event that ends a stream, or past the last.
Stop ==
  LET ends == {k \in DOMAIN Events : Events[k].kind \in {"end", "eof"}}
  IN  CHOOSE k \in ends \cup {Len(Events) + 1} :
        \A m \in ends : k <= m

Before == 1 .. Stop - 1

\* The tracks in force at position `k`: those of the latest link before it.
TracksAt(k) ==
  LET resets == {m \in 1 .. k : Events[m].kind = "reset"}
  IN  IF resets = {} THEN stream.tracks
      ELSE Events[CHOOSE m \in resets : \A n \in resets : n <= m].tracks

\* The first track whose codec this build decodes.
Selected(tracks) ==
  LET supported == {t \in DOMAIN tracks : tracks[t].codec # "unknown"}
  IN  IF supported = {} THEN NoTrack
      ELSE tracks[CHOOSE t \in supported : \A u \in supported : t <= u]

Readable(tracks) ==
  Selected(tracks) # NoTrack /\ Selected(tracks).codec = "known"

Wanted ==
  {k \in Before : /\ Events[k].kind = "packet"
                  /\ Readable(TracksAt(k))
                  /\ Events[k].track = Selected(TracksAt(k)).id}
Decoded == {k \in Wanted : Events[k].decodes = "ok"}

\* A reason to refuse the stream.  A short packet is one unless no packet at
\* all comes after it.
Cause(k) ==
  \/ Events[k].kind = "fault"
  \/ Events[k].kind = "reset" /\ ~Readable(Events[k].tracks)
  \/ k \in Wanted /\ Events[k].decodes = "damaged"
  \/ /\ k \in Wanted /\ Events[k].decodes = "short"
     /\ \E m \in Before : m > k /\ Events[m].kind = "packet"
  \/ /\ k \in Decoded
     /\ \E m \in Decoded : m < k /\ Events[m].spec # Events[k].spec

Verdict ==
  IF \/ ~stream.recognised
     \/ ~Readable(stream.tracks)
     \/ \E k \in Before : Cause(k)
     \/ Decoded = {}
  THEN Refused
  ELSE Chunks([i \in 1 .. Cardinality(Decoded) |->
                 CHOOSE k \in Decoded : Cardinality({m \in Decoded : m <= k}) = i])

Init == stream \in Streams /\ result = Pending

Decide ==
  /\ result = Pending
  /\ result' = Verdict
  /\ UNCHANGED stream

vars == <<stream, result>>
Safety == Init /\ [][Decide]_vars
Spec == Safety /\ WF_vars(Decide)
===============================================================================
