--------------------------- MODULE PacketDecoderProofs ---------------------------
(***************************************************************************)
(* The safety properties of PacketDecoder and that it keeps the safety part*)
(* of StreamContract, for every stream: reading one packet at a time comes *)
(* to the verdict on the stream as a whole.  And of MonoDecoder, that what *)
(* is handed over is the mono mix of its own packet.                       *)
(***************************************************************************)
EXTENDS MonoDecoder, FiniteSetTheorems, FunctionTheorems, WellFoundedInduction,
        TLAPS

Chunks == [packet : Nat, link : Nat]
Events == stream.events
Past == 1 .. position
Resets(k) == {m \in 1 .. k : Events[m].kind = "reset"}

\* The contract's `Wanted` and `Decoded` of an event, wherever reading stops.
WantedAt(k) ==
  /\ Events[k].kind = "packet"
  /\ Contract!Readable(Contract!TracksAt(k))
  /\ Events[k].track = Contract!Selected(Contract!TracksAt(k)).id
DecodedAt(k) == WantedAt(k) /\ Events[k].decodes = "ok"

Typed ==
  /\ stream \in Streams
  /\ position \in Nat
  /\ link \in Nat
  /\ first_chunk \in {Nothing} \cup Chunks
  /\ pushed \in Seq(Chunks)

NothingRead ==
  outcome = "opening" =>
    position = 0 /\ link = 0 /\ short_error = Nothing /\ spec = Nothing
      /\ first_chunk = Nothing /\ pushed = <<>>

Harmless(k) ==
  /\ Events[k].kind \notin {"end", "eof", "fault"}
  /\ Events[k].kind = "reset" => Contract!Readable(Events[k].tracks)
  /\ WantedAt(k) => Events[k].decodes # "damaged"

\* Nothing that was read ends the stream or is a reason to refuse it.
NoneRefused ==
  /\ position <= Len(Events)
  /\ stream.recognised /\ Contract!Readable(stream.tracks)
  /\ \A k \in Past : Harmless(k)

\* The decoder is the one of the tracks in force.
DecoderInForce ==
  /\ Contract!Readable(Contract!TracksAt(position))
  /\ track_decoder.track_id = Contract!Selected(Contract!TracksAt(position)).id
  /\ track_decoder.link = link
  /\ link = Cardinality(Resets(position))

\* The one short packet was the last.
ShortIsLast ==
  /\ \A k \in Past : WantedAt(k) /\ Events[k].decodes = "short" => k = short_error
  /\ short_error # Nothing =>
       \E k \in Past : /\ k = short_error
                       /\ WantedAt(k) /\ Events[k].decodes = "short"
                       /\ \A m \in Past : m > k => Events[m].kind # "packet"

\* What is decoded is delivered.
AllDelivered ==
  \A k \in Past : DecodedAt(k) => \E c \in Range(Delivered) : c.packet = k

Reading ==
  outcome = "reading" =>
    NoneRefused /\ DecoderInForce /\ ShortIsLast /\ AllDelivered

\* A chunk is a packet that was decoded, by the decoder of its link and under
\* the first one's spec.
Genuine(c) ==
  /\ c.packet \in Past
  /\ DecodedAt(c.packet)
  /\ Events[c.packet].spec = spec
  /\ c.link = Cardinality(Resets(c.packet))

\* Each is delivered once and in order.
DeliveredInOrder ==
  /\ \A i, j \in DOMAIN Delivered : i < j => Delivered[i].packet < Delivered[j].packet
  /\ \A c \in Range(Delivered) : Genuine(c)
  /\ spec # Nothing <=> Delivered # <<>>
  /\ first_chunk # Nothing => pushed = <<>> /\ first_chunk.packet = position

IInv == Typed /\ NothingRead /\ Reading /\ DeliveredInOrder

-------------------------------------------------------------------------------
(* Sets of positions. *)

\* There is a first one.
LEMMA LeastPosition ==
  ASSUME NEW S \in SUBSET Nat, S # {}
  PROVE  \E k \in S : \A m \in S : k <= m
<1>1. \E k \in S : \A m \in S : ~ (<<m, k>> \in OpToRel(<, Nat))
  BY NatLessThanWellFounded, WFMin, Zenon
<1>2. \A k \in S, m \in S : m < k => <<m, k>> \in OpToRel(<, Nat)
  BY DEF OpToRel
<1>3. \A k \in S, m \in S : ~ (m < k) => k <= m
  OBVIOUS
<1> QED
  BY <1>1, <1>2, <1>3

\* The `n` entries of `f` are the members of `D` in order.
Lists(f, n, D) ==
  /\ n \in Nat /\ f \in [1 .. n -> Nat]
  /\ \A i, j \in 1 .. n : i < j => f[i] < f[j]
  /\ D = {f[j] : j \in 1 .. n}

UpTo(D, k) == {m \in D : m <= k}

\* A list in order has no entry twice.
LEMMA NoneTwice ==
  ASSUME NEW n, NEW f, NEW D, Lists(f, n, D),
         NEW a \in 1 .. n, NEW b \in 1 .. n, f[a] = f[b]
  PROVE  a = b
<1>1. f[a] \in Nat /\ f[b] \in Nat
  BY DEF Lists
<1>2. a < b \/ a = b \/ b < a
  BY DEF Lists
<1> QED
  BY <1>1, <1>2 DEF Lists

\* It counts its first `i` entries.
LEMMA CountFirst ==
  ASSUME NEW n, NEW f, NEW D, Lists(f, n, D), NEW i \in 0 .. n
  PROVE  Cardinality({f[j] : j \in 1 .. i}) = i
<1> DEFINE T == {f[j] : j \in 1 .. i}
           g == [j \in 1 .. i |-> f[j]]
<1>1. \A a, b \in 1 .. i : g[a] = g[b] => a = b
  <2> SUFFICES ASSUME NEW a \in 1 .. i, NEW b \in 1 .. i, f[a] = f[b]
               PROVE  a = b
    OBVIOUS
  <2>1. a \in 1 .. n /\ b \in 1 .. n
    BY DEF Lists
  <2> QED
    BY <2>1, NoneTwice
<1>2. g \in [1 .. i -> T] /\ \A t \in T : \E s \in 1 .. i : g[s] = t
  OBVIOUS
<1>3. g \in Bijection(1 .. i, T)
  BY <1>1, <1>2, Fun_IsBij
<1>4. ExistsBijection(1 .. i, T)
  BY <1>3 DEF ExistsBijection
<1>5. IsFiniteSet(1 .. i) /\ Cardinality(1 .. i) = i
  BY FS_Interval DEF Lists
<1> QED
  BY <1>4, <1>5, FS_Bijection

\* A member stands in the list where counting puts it.
LEMMA Enumeration ==
  ASSUME NEW n, NEW f, NEW D, Lists(f, n, D), NEW k \in D
  PROVE  /\ Cardinality(UpTo(D, k)) \in 1 .. n
         /\ f[Cardinality(UpTo(D, k))] = k
<1>1. PICK j \in 1 .. n : k = f[j]
  BY DEF Lists
<1>2. \A a \in 1 .. n : f[a] <= f[j] <=> a <= j
  <2> TAKE a \in 1 .. n
  <2>1. f[a] \in Nat /\ f[j] \in Nat
    BY DEF Lists
  <2>2. a < j \/ a = j \/ j < a
    BY DEF Lists
  <2> QED
    BY <2>1, <2>2 DEF Lists
<1>3. UpTo(D, k) = {f[a] : a \in 1 .. j}
  BY <1>1, <1>2 DEF Lists, UpTo
<1>4. j \in 0 .. n
  BY DEF Lists
<1>5. Cardinality(UpTo(D, k)) = j
  BY <1>3, <1>4, CountFirst
<1> QED
  BY <1>1, <1>5

-------------------------------------------------------------------------------
(* The tracks in force and the resets, from one event to the next. *)

LEMMA EventsAreSequence ==
  ASSUME stream \in Streams
  PROVE  /\ Len(Events) \in Nat
         /\ DOMAIN Events = 1 .. Len(Events)
<1> DEFINE E == {Events[k] : k \in DOMAIN Events}
<1>1. Events \in Seq(E)
  BY StreamsAssumption DEF Events
<1> HIDE DEF E
<1> QED
  BY <1>1

\* While the stream stays, so does all that is said of its events.
LEMMA SameStream ==
  ASSUME stream' = stream
  PROVE  /\ Events' = Events
         /\ \A k : Contract!TracksAt(k)' = Contract!TracksAt(k)
         /\ \A k : Resets(k)' = Resets(k)
         /\ \A k : WantedAt(k)' <=> WantedAt(k)
         /\ \A k : DecodedAt(k)' <=> DecodedAt(k)
<1>1. Events' = Events
  BY DEF Events
<1>2. \A k : Contract!TracksAt(k)' = Contract!TracksAt(k)
  BY DEF Contract!TracksAt, Contract!Events
<1>3. \A k : Resets(k)' = Resets(k)
  BY <1>1 DEF Resets
<1>4. \A k : WantedAt(k)' <=> WantedAt(k)
  BY <1>1, <1>2 DEF WantedAt, Contract!Readable
<1>5. \A k : DecodedAt(k)' <=> DecodedAt(k)
  BY <1>1, <1>4 DEF DecodedAt
<1> QED
  BY <1>1, <1>2, <1>3, <1>4, <1>5

LEMMA TracksByResets ==
  \A k : Contract!TracksAt(k) =
           IF Resets(k) = {} THEN stream.tracks
           ELSE Events[CHOOSE m \in Resets(k) : \A n \in Resets(k) : n <= m].tracks
  BY DEF Contract!TracksAt, Contract!Events, Resets, Events

LEMMA NoResetsAtFirst ==
  /\ Resets(0) = {}
  /\ Cardinality(Resets(0)) = 0
  /\ Contract!TracksAt(0) = stream.tracks
<1>1. Resets(0) = {}
  BY DEF Resets
<1> QED
  BY <1>1, FS_EmptySet, TracksByResets

\* Only a reset changes the tracks in force.
LEMMA NoReset ==
  ASSUME NEW k \in Nat, Events[k + 1].kind # "reset"
  PROVE  /\ Resets(k + 1) = Resets(k)
         /\ Contract!TracksAt(k + 1) = Contract!TracksAt(k)
<1>1. 1 .. k + 1 = (1 .. k) \cup {k + 1}
  OBVIOUS
<1>2. Resets(k + 1) = Resets(k)
  BY <1>1 DEF Resets
<1> DEFINE Latest(R) == IF R = {} THEN stream.tracks
                        ELSE Events[CHOOSE m \in R : \A n \in R : n <= m].tracks
<1>3. /\ Contract!TracksAt(k + 1) = Latest(Resets(k + 1))
      /\ Contract!TracksAt(k) = Latest(Resets(k))
  BY TracksByResets
<1> HIDE DEF Latest
<1> QED
  BY <1>2, <1>3

\* A reset is counted, and its tracks are the ones in force from there on.
LEMMA OneMoreReset ==
  ASSUME NEW k \in Nat, Events[k + 1].kind = "reset"
  PROVE  /\ Cardinality(Resets(k)) \in Nat
         /\ Cardinality(Resets(k + 1)) = Cardinality(Resets(k)) + 1
         /\ Contract!TracksAt(k + 1) = Events[k + 1].tracks
<1>1. 1 .. k + 1 = (1 .. k) \cup {k + 1}
  OBVIOUS
<1>2. Resets(k + 1) = Resets(k) \cup {k + 1} /\ k + 1 \notin Resets(k)
  BY <1>1 DEF Resets
<1>3. IsFiniteSet(Resets(k))
  <2>1. IsFiniteSet(1 .. k)
    BY FS_Interval
  <2>2. Resets(k) \in SUBSET (1 .. k)
    BY DEF Resets
  <2> QED
    BY <2>1, <2>2, FS_Subset, Zenon
<1>4. Cardinality(Resets(k)) \in Nat
  BY <1>3, FS_CardinalityType, Zenon
<1>5. Cardinality(Resets(k + 1)) = Cardinality(Resets(k)) + 1
  BY <1>2, <1>3, FS_AddElement, Zenon
<1> DEFINE R == Resets(k + 1)
<1>6. Contract!TracksAt(k + 1)
        = IF R = {} THEN stream.tracks
          ELSE Events[CHOOSE m \in R : \A n \in R : n <= m].tracks
  BY TracksByResets
<1>7. \A n \in R : n \in Nat /\ n <= k + 1
  BY DEF Resets
<1>8. k + 1 \in R
  BY <1>2
<1> HIDE DEF R
<1>9. (CHOOSE m \in R : \A n \in R : n <= m) = k + 1
  <2>1. \A m \in R : (\A n \in R : n <= m) => m = k + 1
    BY <1>7, <1>8
  <2> QED
    BY <1>7, <1>8, <2>1
<1> QED
  BY <1>4, <1>5, <1>6, <1>8, <1>9

-------------------------------------------------------------------------------
(* What every read leaves as it was. *)

LEMMA SelectedIsFirstSupported ==
  \A tracks : FirstSupported(tracks) = Contract!Selected(tracks)
  BY DEF FirstSupported, Contract!Selected

\* The decoder is made exactly when the tracks can be read.
LEMMA DecoderForReadable ==
  ASSUME NEW tracks, NEW opened, DecoderFor(tracks, opened)
  PROVE  \/ /\ Contract!Readable(tracks)
            /\ outcome' = "reading"
            /\ track_decoder' = [track_id |-> Contract!Selected(tracks).id, link |-> opened]
         \/ /\ ~ Contract!Readable(tracks)
            /\ outcome' = "unsupported"
  BY SelectedIsFirstSupported DEF DecoderFor, Contract!Readable

LEMMA EventRead ==
  ASSUME IInv, NEW kinds, Answers(kinds), "end" \notin kinds
  PROVE  /\ position \in Nat
         /\ position + 1 \in 1 .. Len(Events)
         /\ Event = Events[position + 1]
         /\ Events[position + 1].kind \in kinds
<1>1. position \in Nat /\ stream \in Streams
  BY DEF IInv, Typed
<1>2. Len(Events) \in Nat
  BY <1>1, EventsAreSequence
<1>3. position < Len(Events)
  BY DEF Answers, Event, Events
<1>4. Event = Events[position + 1]
  BY <1>3 DEF Event, Events
<1> QED
  BY <1>1, <1>2, <1>3, <1>4 DEF Answers

LEMMA PastGrows ==
  ASSUME position \in Nat, position' = position + 1
  PROVE  /\ Past' = Past \cup {position + 1}
         /\ Past \subseteq Past'
         /\ position + 1 \notin Past
  BY DEF Past

LEMMA SameDelivered ==
  ASSUME UNCHANGED <<first_chunk, pushed>>
  PROVE  Delivered' = Delivered
  BY DEF Delivered

LEMMA GenuineKept ==
  ASSUME NEW c, Genuine(c), position \in Nat, position' = position + 1,
         stream' = stream, spec' = spec
  PROVE  Genuine(c)'
<1>1. /\ Events' = Events
      /\ Resets(c.packet)' = Resets(c.packet)
      /\ DecodedAt(c.packet)' <=> DecodedAt(c.packet)
  BY SameStream
<1>2. Past \subseteq Past'
  BY PastGrows
<1> QED
  BY <1>1, <1>2 DEF Genuine

\* Reading an event that is not decoded leaves what is delivered.
LEMMA DeliveredKept ==
  ASSUME IInv, NEW kinds, Answers(kinds), UNCHANGED <<spec, first_chunk, pushed>>
  PROVE  DeliveredInOrder'
<1>1. stream' = stream /\ position' = position + 1 /\ first_chunk = Nothing
  BY DEF Answers
<1>2. Delivered' = Delivered
  BY SameDelivered
<1>3. ASSUME NEW c, Genuine(c)
      PROVE  Genuine(c)'
  BY <1>1, <1>3, GenuineKept DEF IInv, Typed
<1> QED
  BY <1>1, <1>2, <1>3 DEF IInv, DeliveredInOrder

LEMMA InitEstablishes == Init => IInv
<1> SUFFICES ASSUME Init
             PROVE  IInv
  OBVIOUS
<1>1. Delivered = <<>> /\ Range(Delivered) = {}
  BY DEF Init, Delivered, Range
<1>2. Typed /\ NothingRead /\ Reading
  BY DEF Init, Typed, NothingRead, Reading
<1>3. DeliveredInOrder
  BY <1>1 DEF Init, DeliveredInOrder
<1> QED
  BY <1>2, <1>3 DEF IInv

-------------------------------------------------------------------------------
(* One event further. *)

\* A packet lies in the link of the event before it, and is wanted exactly if
\* it is of the decoder's track.
LEMMA PacketRead ==
  ASSUME IInv, Answers({"packet"})
  PROVE  /\ outcome = "reading" /\ first_chunk = Nothing
         /\ stream' = stream /\ position' = position + 1
         /\ position \in Nat
         /\ position + 1 \in 1 .. Len(Events)
         /\ Event = Events[position + 1]
         /\ Events[position + 1].kind = "packet"
         /\ Resets(position + 1) = Resets(position)
         /\ Contract!TracksAt(position + 1) = Contract!TracksAt(position)
         /\ WantedAt(position + 1) <=> Event.track = track_decoder.track_id
<1>1. /\ outcome = "reading" /\ first_chunk = Nothing
      /\ stream' = stream /\ position' = position + 1
  BY DEF Answers
<1>2. /\ position \in Nat
      /\ position + 1 \in 1 .. Len(Events)
      /\ Event = Events[position + 1]
      /\ Events[position + 1].kind = "packet"
  BY EventRead
<1>3. /\ Resets(position + 1) = Resets(position)
      /\ Contract!TracksAt(position + 1) = Contract!TracksAt(position)
  BY <1>2, NoReset
<1>4. /\ Contract!Readable(Contract!TracksAt(position))
      /\ track_decoder.track_id = Contract!Selected(Contract!TracksAt(position)).id
  BY <1>1 DEF IInv, Reading, DecoderInForce
<1> QED
  BY <1>1, <1>2, <1>3, <1>4 DEF WantedAt

LEMMA NoneRefusedKept ==
  ASSUME IInv, Answers({"packet", "reset"}),
         Events[position + 1].kind = "reset" =>
           Contract!Readable(Events[position + 1].tracks),
         WantedAt(position + 1) => Events[position + 1].decodes # "damaged"
  PROVE  NoneRefused'
<1>1. outcome = "reading" /\ stream' = stream /\ position' = position + 1
  BY DEF Answers
<1>2. /\ position \in Nat
      /\ position + 1 \in 1 .. Len(Events)
      /\ Events[position + 1].kind \in {"packet", "reset"}
  BY EventRead
<1>3. NoneRefused
  BY <1>1 DEF IInv, Reading
<1>4. Past' = Past \cup {position + 1}
  BY <1>1, <1>2, PastGrows
<1>5. Events' = Events /\ \A k : WantedAt(k)' <=> WantedAt(k)
  BY <1>1, SameStream
<1>6. ASSUME NEW k, Harmless(k)
      PROVE  Harmless(k)'
  BY <1>5, <1>6 DEF Harmless, Contract!Readable, Contract!Selected
<1>7. Harmless(position + 1)
  BY <1>2 DEF Harmless
<1>8. \A k \in Past' : Harmless(k)'
  BY <1>3, <1>4, <1>6, <1>7 DEF NoneRefused
<1>9. Contract!Readable(stream.tracks)'
  BY <1>1, <1>3 DEF NoneRefused, Contract!Readable, Contract!Selected
<1>10. position' <= Len(Events') /\ stream'.recognised
  BY <1>1, <1>2, <1>3, <1>5 DEF NoneRefused
<1> QED
  BY <1>8, <1>9, <1>10 DEF NoneRefused

\* What is selected depends on the tracks alone.
LEMMA TracksInForce ==
  ASSUME NEW tracks, Contract!TracksAt(position)' = tracks
  PROVE  /\ Contract!Selected(Contract!TracksAt(position))' = Contract!Selected(tracks)
         /\ Contract!Readable(Contract!TracksAt(position))' <=> Contract!Readable(tracks)
<1> DEFINE First(ts) ==
             LET supported == {t \in DOMAIN ts : ts[t].codec # "unknown"}
             IN  IF supported = {} THEN NoTrack
                 ELSE ts[CHOOSE t \in supported : \A u \in supported : t <= u]
<1>1. Contract!Selected(Contract!TracksAt(position))'
        = First(Contract!TracksAt(position)')
  BY DEF Contract!Selected
<1>2. Contract!Selected(tracks) = First(tracks)
  BY DEF Contract!Selected
<1> HIDE DEF First
<1>3. Contract!Selected(Contract!TracksAt(position))' = Contract!Selected(tracks)
  BY <1>1, <1>2
<1> QED
  BY <1>3 DEF Contract!Readable

\* A packet leaves the decoder the one in force.
LEMMA DecoderKept ==
  ASSUME IInv, Answers({"packet"}), UNCHANGED <<link, track_decoder>>
  PROVE  DecoderInForce'
<1>1. /\ outcome = "reading" /\ stream' = stream /\ position' = position + 1
      /\ Resets(position + 1) = Resets(position)
      /\ Contract!TracksAt(position + 1) = Contract!TracksAt(position)
  BY PacketRead
<1>2. DecoderInForce
  BY <1>1 DEF IInv, Reading
<1>3. /\ Contract!TracksAt(position)' = Contract!TracksAt(position)
      /\ Resets(position)' = Resets(position)
  <2>1. /\ \A k : Contract!TracksAt(k)' = Contract!TracksAt(k)
        /\ \A k : Resets(k)' = Resets(k)
    BY <1>1, SameStream
  <2> QED
    BY <1>1, <2>1 DEF Contract!TracksAt, Contract!Events, Resets, Events
<1> QED
  BY <1>2, <1>3, TracksInForce DEF DecoderInForce

\* A short packet stays the last one.
LEMMA ShortKept ==
  ASSUME IInv, Answers({"packet", "reset"}), short_error' = short_error,
         Events[position + 1].kind = "packet" => short_error = Nothing,
         WantedAt(position + 1) => Events[position + 1].decodes # "short"
  PROVE  ShortIsLast'
<1>1. outcome = "reading" /\ stream' = stream /\ position' = position + 1
  BY DEF Answers
<1>2. position \in Nat /\ position + 1 \in 1 .. Len(Events)
  BY EventRead
<1>3. ShortIsLast
  BY <1>1 DEF IInv, Reading
<1>4. Past' = Past \cup {position + 1}
  BY <1>1, <1>2, PastGrows
<1>5. Events' = Events /\ \A k : WantedAt(k)' <=> WantedAt(k)
  BY <1>1, SameStream
<1>6. \A k \in Past' : WantedAt(k)' /\ Events'[k].decodes = "short" => k = short_error'
  BY <1>3, <1>4, <1>5 DEF ShortIsLast
<1>7. ASSUME short_error # Nothing
      PROVE  \E k \in Past' :
               /\ k = short_error
               /\ WantedAt(k)' /\ Events'[k].decodes = "short"
               /\ \A m \in Past' : m > k => Events'[m].kind # "packet"
  <2>1. PICK k \in Past : /\ k = short_error
                          /\ WantedAt(k) /\ Events[k].decodes = "short"
                          /\ \A m \in Past : m > k => Events[m].kind # "packet"
    BY <1>3, <1>7 DEF ShortIsLast
  <2> QED
    BY <1>4, <1>5, <1>7, <2>1
<1> QED
  BY <1>6, <1>7 DEF ShortIsLast

LEMMA AllDeliveredKept ==
  ASSUME IInv, Answers({"packet", "reset"}), UNCHANGED <<first_chunk, pushed>>,
         ~ DecodedAt(position + 1)
  PROVE  AllDelivered'
<1>1. outcome = "reading" /\ stream' = stream /\ position' = position + 1
  BY DEF Answers
<1>2. position \in Nat
  BY EventRead
<1>3. AllDelivered
  BY <1>1 DEF IInv, Reading
<1>4. Past' = Past \cup {position + 1}
  BY <1>1, <1>2, PastGrows
<1>5. \A k : DecodedAt(k)' <=> DecodedAt(k)
  BY <1>1, SameStream
<1>6. Delivered' = Delivered
  BY SameDelivered
<1> QED
  BY <1>3, <1>4, <1>5, <1>6 DEF AllDelivered

-------------------------------------------------------------------------------
(* Each action keeps the invariant. *)

\* A call that ends the reading.
LEMMA StopsWell ==
  ASSUME IInv, NEW kinds, Answers(kinds), UNCHANGED <<spec, first_chunk, pushed>>,
         link' \in Nat, outcome' \notin {"opening", "reading"}
  PROVE  IInv'
<1>1. stream' = stream /\ position' = position + 1
  BY DEF Answers
<1>2. Typed'
  BY <1>1 DEF IInv, Typed
<1>3. DeliveredInOrder'
  BY DeliveredKept
<1> QED
  BY <1>2, <1>3 DEF IInv, NothingRead, Reading

LEMMA StopStep ==
  ASSUME IInv, EndOfStream \/ ReaderFails \/ RefuseShortPacket \/ DecodeDamaged
  PROVE  IInv'
  BY StopsWell
     DEF IInv, Typed, EndOfStream, ReaderFails, RefuseShortPacket, DecodeDamaged

LEMMA OpenStep ==
  ASSUME IInv, Open
  PROVE  IInv'
<1>1. /\ position = 0 /\ link = 0 /\ short_error = Nothing
      /\ UNCHANGED <<stream, position, link, short_error, spec, first_chunk, pushed>>
  BY DEF IInv, NothingRead, Open
<1>2. Typed'
  BY <1>1 DEF IInv, Typed
<1>3. outcome' # "opening"
  BY DecoderForReadable DEF Open
<1>4. DeliveredInOrder'
  <2>1. Delivered' = Delivered
    BY <1>1, SameDelivered
  <2>2. \A c : Genuine(c)' <=> Genuine(c)
    BY <1>1, SameStream DEF Genuine, Past
  <2> QED
    BY <1>1, <2>1, <2>2 DEF IInv, DeliveredInOrder
<1>5. ASSUME outcome' = "reading"
      PROVE  NoneRefused' /\ DecoderInForce' /\ ShortIsLast' /\ AllDelivered'
  <2>1. /\ stream.recognised
        /\ Contract!Readable(stream.tracks)
        /\ track_decoder' = [track_id |-> Contract!Selected(stream.tracks).id, link |-> 0]
    BY <1>5, DecoderForReadable DEF Open
  <2>2. Past' = {} /\ position' = 0 /\ short_error' = Nothing /\ link' = 0
    BY <1>1 DEF Past
  <2>3. 0 <= Len(Events)' /\ stream'.recognised
    BY <1>1, <2>1, EventsAreSequence DEF IInv, Typed, Events
  <2>4. /\ Cardinality(Resets(position)') = 0
        /\ Contract!TracksAt(position)' = stream.tracks
    <3>1. /\ Cardinality(Resets(0)') = 0
          /\ Contract!TracksAt(0)' = stream.tracks
      BY <1>1, SameStream, NoResetsAtFirst
    <3> QED
      BY <2>2, <3>1 DEF Contract!TracksAt, Contract!Events, Resets, Events
  <2>5. /\ Contract!Readable(Contract!TracksAt(position))'
        /\ Contract!Selected(Contract!TracksAt(position))'
             = Contract!Selected(stream.tracks)
    BY <2>1, <2>4, TracksInForce
  <2>6. Contract!Readable(stream.tracks)'
    BY <1>1, <2>1 DEF Contract!Readable, Contract!Selected
  <2>7. DecoderInForce'
    BY <2>1, <2>2, <2>4, <2>5 DEF DecoderInForce
  <2> QED
    BY <2>2, <2>3, <2>6, <2>7 DEF NoneRefused, ShortIsLast, AllDelivered
<1> QED
  BY <1>2, <1>3, <1>4, <1>5 DEF IInv, NothingRead, Reading

\* The next link gets the decoder of its own tracks.
LEMMA ReopenStep ==
  ASSUME IInv, Reopen
  PROVE  IInv'
<1>1. /\ Answers({"reset"}) /\ link' = link + 1
      /\ stream' = stream /\ position' = position + 1 /\ outcome = "reading"
      /\ UNCHANGED <<short_error, spec, first_chunk, pushed>>
  BY DEF Reopen, Answers
<1>2. /\ position \in Nat
      /\ position + 1 \in 1 .. Len(Events)
      /\ Event = Events[position + 1]
      /\ Events[position + 1].kind = "reset"
  BY <1>1, EventRead
<1>3. link' \in Nat
  BY <1>1 DEF IInv, Typed
<1> DEFINE tracks == Events[position + 1].tracks
<1>4. DecoderFor(tracks, link + 1)
  BY <1>2 DEF Reopen
<1>5. CASE outcome' # "reading"
  BY <1>1, <1>3, <1>4, <1>5, DecoderForReadable, StopsWell
<1>6. CASE outcome' = "reading"
  <2>1. /\ Contract!Readable(tracks)
        /\ track_decoder' = [track_id |-> Contract!Selected(tracks).id, link |-> link + 1]
    BY <1>4, <1>6, DecoderForReadable
  <2>2. Answers({"packet", "reset"})
    BY <1>1 DEF Answers
  <2>3. ~ WantedAt(position + 1) /\ ~ DecodedAt(position + 1)
    BY <1>2 DEF WantedAt, DecodedAt
  <2>4. NoneRefused'
    BY <2>1, <2>2, <2>3, NoneRefusedKept
  <2>5. ShortIsLast'
    BY <1>1, <1>2, <2>2, <2>3, ShortKept
  <2>6. AllDelivered'
    BY <1>1, <2>2, <2>3, AllDeliveredKept
  <2>7. DecoderInForce'
    <3>1. link = Cardinality(Resets(position))
      BY <1>1 DEF IInv, Reading, DecoderInForce
    <3>2. /\ Cardinality(Resets(position + 1)) = link + 1
          /\ Contract!TracksAt(position + 1) = tracks
      BY <1>2, <3>1, OneMoreReset
    <3>3. /\ Contract!TracksAt(position)' = tracks
          /\ Resets(position)' = Resets(position + 1)
      <4>1. /\ \A k : Contract!TracksAt(k)' = Contract!TracksAt(k)
            /\ \A k : Resets(k)' = Resets(k)
        BY <1>1, SameStream
      <4> QED
        BY <1>1, <3>2, <4>1 DEF Contract!TracksAt, Contract!Events, Resets, Events
    <3>4. track_decoder'.track_id = Contract!Selected(tracks).id /\ track_decoder'.link = link'
      BY <1>1, <2>1
    <3> QED
      BY <1>1, <2>1, <3>2, <3>3, <3>4, TracksInForce DEF DecoderInForce
  <2>8. Typed'
    BY <1>1, <1>3 DEF IInv, Typed
  <2>9. DeliveredInOrder'
    BY <1>1, DeliveredKept
  <2> QED
    BY <1>6, <2>4, <2>5, <2>6, <2>7, <2>8, <2>9 DEF IInv, NothingRead, Reading
<1> QED
  BY <1>5, <1>6

\* A packet that yields no chunk.
LEMMA NoChunkStep ==
  ASSUME IInv, SkipPacket \/ DecodeShort
  PROVE  IInv'
<1>1. /\ Answers({"packet"})
      /\ short_error = Nothing
      /\ UNCHANGED <<link, track_decoder, spec, first_chunk, pushed, outcome>>
  BY DEF SkipPacket, DecodeShort, OwnPacket
<1>2. /\ outcome = "reading" /\ stream' = stream /\ position' = position + 1
      /\ position \in Nat /\ position + 1 \in 1 .. Len(Events)
      /\ Event = Events[position + 1]
      /\ Events[position + 1].kind = "packet"
      /\ WantedAt(position + 1) <=> Event.track = track_decoder.track_id
  BY <1>1, PacketRead
<1>3. Answers({"packet", "reset"})
  BY <1>1 DEF Answers
<1>4. /\ WantedAt(position + 1) => Events[position + 1].decodes = "short"
      /\ ~ DecodedAt(position + 1)
  BY <1>2 DEF SkipPacket, DecodeShort, DecodedAt
<1>5. NoneRefused'
  BY <1>2, <1>3, <1>4, NoneRefusedKept
<1>6. DecoderInForce'
  BY <1>1, DecoderKept
<1>7. AllDelivered'
  BY <1>1, <1>3, <1>4, AllDeliveredKept
<1>8. ShortIsLast'
  <2>1. CASE SkipPacket
    <3>1. ~ WantedAt(position + 1) /\ short_error' = short_error
      BY <1>2, <2>1 DEF SkipPacket
    <3> QED
      BY <1>1, <1>3, <3>1, ShortKept
  <2>2. CASE DecodeShort
    <3>1. /\ short_error' = position + 1
          /\ WantedAt(position + 1) /\ Events[position + 1].decodes = "short"
      BY <1>2, <2>2 DEF DecodeShort, OwnPacket
    <3>2. \A k \in Past : ~ (WantedAt(k) /\ Events[k].decodes = "short")
      BY <1>1, <1>2, NothingAssumption DEF IInv, Reading, ShortIsLast, Past
    <3>3. Past' = Past \cup {position + 1} /\ \A k \in Past' : k <= position + 1
      BY <1>2 DEF Past
    <3>4. Events' = Events /\ \A k : WantedAt(k)' <=> WantedAt(k)
      BY <1>2, SameStream
    <3>5. \A k \in Past' : WantedAt(k)' /\ Events'[k].decodes = "short" => k = short_error'
      BY <3>1, <3>2, <3>3, <3>4
    <3>6. \A m \in Past' : ~ (m > position + 1)
      BY <1>2, <3>3 DEF Past
    <3> QED
      BY <3>1, <3>3, <3>4, <3>5, <3>6 DEF ShortIsLast
  <2> QED
    BY <2>1, <2>2
<1>9. Typed'
  BY <1>1, <1>2 DEF IInv, Typed
<1>10. DeliveredInOrder'
  BY <1>1, DeliveredKept
<1> QED
  BY <1>1, <1>2, <1>5, <1>6, <1>7, <1>8, <1>9, <1>10 DEF IInv, NothingRead, Reading

LEMMA DeliveredIsSequence ==
  ASSUME Typed
  PROVE  Delivered \in Seq(Chunks)
  BY DEF Typed, Delivered

LEMMA RangeOfAppend ==
  ASSUME NEW S, NEW s \in Seq(S), NEW x \in S
  PROVE  Range(Append(s, x)) = Range(s) \cup {x}
<1>1. /\ DOMAIN Append(s, x) = 1 .. Len(s) + 1
      /\ DOMAIN s = 1 .. Len(s)
      /\ Len(s) \in Nat
      /\ \A i \in 1 .. Len(s) : Append(s, x)[i] = s[i]
      /\ Append(s, x)[Len(s) + 1] = x
  OBVIOUS
<1>2. 1 .. Len(s) + 1 = (1 .. Len(s)) \cup {Len(s) + 1}
  BY <1>1
<1> QED
  BY <1>1, <1>2 DEF Range

\* A packet that decodes makes one chunk more, the latest.
LEMMA OneMoreChunk ==
  ASSUME IInv, Answers({"packet"}), OwnPacket, Event.decodes = "ok",
         UNCHANGED <<link, track_decoder, short_error>>, spec' = Event.spec,
         spec \in {Nothing, Event.spec},
         Chunk \in Chunks => Delivered' = Append(Delivered, Chunk)
  PROVE  /\ NoneRefused' /\ DecoderInForce' /\ ShortIsLast' /\ AllDelivered'
         /\ Chunk \in Chunks /\ spec' # Nothing
         /\ \A i, j \in DOMAIN Delivered' :
              i < j => Delivered'[i].packet < Delivered'[j].packet
         /\ \A c \in Range(Delivered') : Genuine(c)'
         /\ Delivered' # <<>>
<1>1. /\ outcome = "reading" /\ stream' = stream /\ position' = position + 1
      /\ position \in Nat /\ position + 1 \in 1 .. Len(Events)
      /\ Event = Events[position + 1]
      /\ Events[position + 1].kind = "packet"
      /\ Resets(position + 1) = Resets(position)
      /\ WantedAt(position + 1)
  BY PacketRead DEF OwnPacket
<1>2. DecodedAt(position + 1)
  BY <1>1 DEF DecodedAt
<1>3. Typed /\ Reading /\ DeliveredInOrder
  BY DEF IInv
<1>4. Chunk.packet = position + 1 /\ Chunk.link = link /\ Chunk \in Chunks
  BY <1>1, <1>3 DEF Chunk, Chunks, Reading, DecoderInForce, Typed
<1>5. Delivered' = Append(Delivered, Chunk)
  BY <1>4
<1>6. Delivered \in Seq(Chunks)
  BY <1>3, DeliveredIsSequence
<1>7. Range(Delivered') = Range(Delivered) \cup {Chunk}
  BY <1>4, <1>5, <1>6, RangeOfAppend
<1>8. Event.spec # Nothing
  BY <1>1, <1>3, EventsAreSequence, NothingAssumption DEF Typed, Events
<1>9. Answers({"packet", "reset"})
  BY DEF Answers
<1>10. NoneRefused' /\ DecoderInForce' /\ ShortIsLast'
  <2>1. Events[position + 1].decodes \notin {"short", "damaged"}
    BY <1>1
  <2>2. NoneRefused'
    BY <1>1, <1>9, <2>1, NoneRefusedKept
  <2>3. ShortIsLast'
    BY <1>9, <2>1, ShortKept DEF OwnPacket
  <2> QED
    BY <2>2, <2>3, DecoderKept
<1>11. Past' = Past \cup {position + 1}
  BY <1>1, PastGrows
<1>12. /\ Events' = Events
       /\ \A k : Resets(k)' = Resets(k)
       /\ \A k : DecodedAt(k)' <=> DecodedAt(k)
  BY <1>1, SameStream
<1>13. AllDelivered'
  <2>1. AllDelivered
    BY <1>1, <1>3 DEF Reading
  <2> QED
    BY <1>4, <1>7, <1>11, <1>12, <2>1 DEF AllDelivered
<1>14. ASSUME NEW c \in Range(Delivered')
       PROVE  Genuine(c)'
  <2>1. CASE c \in Range(Delivered)
    <3>1. Genuine(c) /\ Delivered # <<>>
      BY <1>3, <1>6, <2>1 DEF DeliveredInOrder, Range
    <3>2. spec' = spec
      BY <1>3, <3>1 DEF DeliveredInOrder
    <3> QED
      BY <1>1, <3>1, <3>2, GenuineKept
  <2>2. CASE c = Chunk
    <3>1. link = Cardinality(Resets(position))
      BY <1>1, <1>3 DEF Reading, DecoderInForce
    <3>2. /\ c.packet = position + 1
          /\ c.link = Cardinality(Resets(c.packet))
          /\ DecodedAt(c.packet)
          /\ Events[c.packet].spec = spec'
          /\ c.packet \in Past'
      BY <1>1, <1>2, <1>4, <1>11, <2>2, <3>1
    <3> QED
      BY <1>12, <3>2 DEF Genuine
  <2> QED
    BY <1>7, <2>1, <2>2
<1>15. ASSUME NEW i \in DOMAIN Delivered', NEW j \in DOMAIN Delivered', i < j
       PROVE  Delivered'[i].packet < Delivered'[j].packet
  <2>1. /\ DOMAIN Delivered' = 1 .. Len(Delivered) + 1
        /\ DOMAIN Delivered = 1 .. Len(Delivered)
        /\ Len(Delivered) \in Nat
        /\ \A k \in 1 .. Len(Delivered) : Delivered'[k] = Delivered[k]
        /\ Delivered'[Len(Delivered) + 1] = Chunk
    BY <1>4, <1>5, <1>6
  <2>2. i \in DOMAIN Delivered
    BY <1>15, <2>1
  <2>3. CASE j \in DOMAIN Delivered
    BY <1>3, <1>15, <2>1, <2>2, <2>3 DEF DeliveredInOrder
  <2>4. CASE j = Len(Delivered) + 1
    <3>1. Delivered[i].packet \in Past
      BY <1>3, <2>2 DEF DeliveredInOrder, Genuine, Range
    <3> QED
      BY <1>1, <1>4, <2>1, <2>2, <2>4, <3>1 DEF Past
  <2> QED
    BY <2>1, <2>3, <2>4
<1>16. Delivered' # <<>>
  BY <1>4, <1>5, <1>6
<1> QED
  BY <1>4, <1>8, <1>10, <1>13, <1>14, <1>15, <1>16

LEMMA DecodeFirstStep ==
  ASSUME IInv, DecodeFirst
  PROVE  IInv'
<1>1. /\ Answers({"packet"}) /\ OwnPacket /\ Event.decodes = "ok"
      /\ spec = Nothing /\ spec' = Event.spec /\ first_chunk' = Chunk
      /\ UNCHANGED <<stream, link, track_decoder, short_error, pushed, outcome>>
      /\ first_chunk = Nothing /\ outcome = "reading" /\ position' = position + 1
  BY DEF DecodeFirst, Answers
<1>2. Delivered = <<>> /\ pushed = <<>>
  BY <1>1 DEF IInv, DeliveredInOrder, Delivered
<1>3. Chunk \in Chunks => Chunk # Nothing
  BY NothingAssumption DEF Chunks
<1>4. Chunk \in Chunks => Delivered' = Append(Delivered, Chunk)
  BY <1>1, <1>2, <1>3 DEF Delivered
<1>5. /\ NoneRefused' /\ DecoderInForce' /\ ShortIsLast' /\ AllDelivered'
      /\ Chunk \in Chunks /\ spec' # Nothing
      /\ \A i, j \in DOMAIN Delivered' :
           i < j => Delivered'[i].packet < Delivered'[j].packet
      /\ \A c \in Range(Delivered') : Genuine(c)'
      /\ Delivered' # <<>>
  BY <1>1, <1>4, OneMoreChunk
<1>6. Typed'
  BY <1>1, <1>5 DEF IInv, Typed
<1>7. first_chunk'.packet = position'
  BY <1>1 DEF Chunk
<1>8. DeliveredInOrder'
  BY <1>1, <1>2, <1>5, <1>7 DEF DeliveredInOrder
<1> QED
  BY <1>1, <1>5, <1>6, <1>8 DEF IInv, NothingRead, Reading

LEMMA DecodeNextStep ==
  ASSUME IInv, DecodeNext
  PROVE  IInv'
<1>1. /\ Answers({"packet"}) /\ OwnPacket /\ Event.decodes = "ok"
      /\ UNCHANGED <<stream, link, track_decoder, short_error, spec, first_chunk>>
      /\ first_chunk = Nothing /\ outcome = "reading" /\ position' = position + 1
  BY DEF DecodeNext, Answers
<1>2. CASE Event.spec # spec
  BY <1>1, <1>2, StopsWell DEF DecodeNext, IInv, Typed
<1>3. CASE Event.spec = spec
  <2>1. pushed' = Append(pushed, Chunk) /\ outcome' = outcome
    BY <1>3 DEF DecodeNext
  <2>2. Delivered' = Append(Delivered, Chunk)
    BY <1>1, <2>1 DEF Delivered
  <2>3. /\ NoneRefused' /\ DecoderInForce' /\ ShortIsLast' /\ AllDelivered'
        /\ Chunk \in Chunks /\ spec' # Nothing
        /\ \A i, j \in DOMAIN Delivered' :
             i < j => Delivered'[i].packet < Delivered'[j].packet
        /\ \A c \in Range(Delivered') : Genuine(c)'
        /\ Delivered' # <<>>
    BY <1>1, <1>3, <2>2, OneMoreChunk
  <2>4. Typed'
    BY <1>1, <2>1, <2>3 DEF IInv, Typed
  <2>5. DeliveredInOrder'
    BY <1>1, <2>3 DEF DeliveredInOrder
  <2> QED
    BY <1>1, <2>1, <2>3, <2>4, <2>5 DEF IInv, NothingRead, Reading
<1> QED
  BY <1>2, <1>3

\* Without a read, what was read stays as it was.
LEMMA SamePlace ==
  ASSUME UNCHANGED <<stream, position, link, track_decoder, short_error, spec>>,
         Delivered' = Delivered
  PROVE  /\ NoneRefused => NoneRefused'
         /\ DecoderInForce => DecoderInForce'
         /\ ShortIsLast => ShortIsLast'
         /\ AllDelivered => AllDelivered'
         /\ \A c : Genuine(c) => Genuine(c)'
<1>1. /\ Events' = Events /\ Past' = Past
      /\ \A k : Contract!TracksAt(k)' = Contract!TracksAt(k)
      /\ \A k : Resets(k)' = Resets(k)
      /\ \A k : WantedAt(k)' <=> WantedAt(k)
      /\ \A k : DecodedAt(k)' <=> DecodedAt(k)
  BY SameStream DEF Past
<1>2. /\ Contract!TracksAt(position)' = Contract!TracksAt(position)
      /\ Resets(position)' = Resets(position)
  BY <1>1 DEF Contract!TracksAt, Contract!Events, Resets, Events
<1>3. DecoderInForce => DecoderInForce'
  BY <1>2, TracksInForce DEF DecoderInForce
<1>4. \A k : Harmless(k) => Harmless(k)'
  BY <1>1 DEF Harmless, Contract!Readable, Contract!Selected
<1>5. Contract!Readable(stream.tracks)' <=> Contract!Readable(stream.tracks)
  BY DEF Contract!Readable, Contract!Selected
<1>6. NoneRefused => NoneRefused'
  BY <1>1, <1>4, <1>5 DEF NoneRefused
<1>7. ShortIsLast => ShortIsLast'
  BY <1>1 DEF ShortIsLast
<1>8. AllDelivered => AllDelivered'
  BY <1>1 DEF AllDelivered
<1>9. \A c : Genuine(c) => Genuine(c)'
  BY <1>1 DEF Genuine
<1> QED
  BY <1>3, <1>6, <1>7, <1>8, <1>9

LEMMA TakeFirstChunkStep ==
  ASSUME IInv, TakeFirstChunk
  PROVE  IInv'
<1>1. /\ outcome = "reading" /\ first_chunk # Nothing
      /\ pushed' = Append(pushed, first_chunk) /\ first_chunk' = Nothing
      /\ UNCHANGED <<stream, position, link, track_decoder, short_error, spec, outcome>>
  BY DEF TakeFirstChunk
<1>2. Delivered' = Delivered
  BY <1>1 DEF Delivered
<1>3. Typed'
  BY <1>1 DEF IInv, Typed
<1>4. Reading'
  BY <1>1, <1>2, SamePlace DEF IInv, Reading
<1>5. DeliveredInOrder'
  BY <1>1, <1>2, SamePlace DEF IInv, DeliveredInOrder
<1> QED
  BY <1>1, <1>3, <1>4, <1>5 DEF IInv, NothingRead

LEMMA StutterStep ==
  ASSUME IInv, UNCHANGED vars
  PROVE  IInv'
<1>1. /\ UNCHANGED <<stream, position, link, track_decoder, short_error, spec>>
      /\ UNCHANGED <<first_chunk, pushed, outcome>>
  BY DEF vars
<1>2. Delivered' = Delivered
  BY <1>1, SameDelivered
<1>3. Typed' /\ NothingRead'
  BY <1>1 DEF IInv, Typed, NothingRead
<1>4. Reading'
  BY <1>1, <1>2, SamePlace DEF IInv, Reading
<1>5. DeliveredInOrder'
  BY <1>1, <1>2, SamePlace DEF IInv, DeliveredInOrder
<1> QED
  BY <1>3, <1>4, <1>5 DEF IInv

LEMMA StepKeeps ==
  IInv /\ [Next]_vars => IInv'
<1> SUFFICES ASSUME IInv, [Next]_vars
             PROVE  IInv'
  OBVIOUS
<1>1. CASE Open
  BY <1>1, OpenStep
<1>2. CASE EndOfStream \/ ReaderFails \/ RefuseShortPacket \/ DecodeDamaged
  BY <1>2, StopStep
<1>3. CASE Reopen
  BY <1>3, ReopenStep
<1>4. CASE SkipPacket \/ DecodeShort
  BY <1>4, NoChunkStep
<1>5. CASE DecodeFirst
  BY <1>5, DecodeFirstStep
<1>6. CASE TakeFirstChunk
  BY <1>6, TakeFirstChunkStep
<1>7. CASE DecodeNext
  BY <1>7, DecodeNextStep
<1>8. CASE UNCHANGED vars
  BY <1>8, StutterStep
<1> QED
  BY <1>1, <1>2, <1>3, <1>4, <1>5, <1>6, <1>7, <1>8 DEF Next

LEMMA Invariance == Spec => []IInv
  BY InitEstablishes, StepKeeps, PTL DEF Spec

\* A packet is decoded by the decoder of its own link, whatever the stream.
THEOREM EveryPacketByItsLink == Spec => []DecodedByItsLink
<1>1. IInv => DecodedByItsLink
  BY DEF IInv, DeliveredInOrder, DecodedByItsLink, Genuine, Resets, Events, Range
<1> QED
  BY <1>1, Invariance, PTL

\* Each chunk is handed over once and in order, the early one included, and while
\* the reading goes on none that was due so far is left out.
THEOREM EveryChunkInOrder == Spec => []ChunksInOrder
<1>1. IInv => ChunksInOrder
  <2> SUFFICES ASSUME IInv
               PROVE  ChunksInOrder
    OBVIOUS
  <2>1. Delivered \in Seq(Chunks)
    BY DeliveredIsSequence DEF IInv
  <2>2. \A k \in 1 .. Len(Delivered) - 1 :
          k \in DOMAIN Delivered /\ k + 1 \in DOMAIN Delivered /\ k < k + 1
    BY <2>1
  <2>3. \A k : IsWanted(k) <=> DecodedAt(k)
    BY DEF IsWanted, DecodedAt, WantedAt, Events
  <2>4. Range(Delivered) = {Delivered[k] : k \in DOMAIN Delivered}
    BY DEF Range
  <2>5. \A k \in DOMAIN Delivered :
          Delivered[k].packet \in Past /\ IsWanted(Delivered[k].packet)
    BY <2>3, <2>4 DEF IInv, DeliveredInOrder, Genuine
  <2>6. outcome = "reading" =>
          \A k \in Past : IsWanted(k) => \E i \in DOMAIN Delivered : Delivered[i].packet = k
    BY <2>3, <2>4 DEF IInv, Reading, AllDelivered
  <2> QED
    BY <2>2, <2>5, <2>6 DEF IInv, DeliveredInOrder, ChunksInOrder, Past
<1> QED
  BY <1>1, Invariance, PTL

-------------------------------------------------------------------------------
(* The contract's verdict, from what was read when the reading stops. *)

LEMMA StopIsFirstEnd ==
  ASSUME stream \in Streams
  PROVE  /\ Contract!Stop \in 1 .. Len(Events) + 1
         /\ Contract!Stop <= Len(Events) =>
              Events[Contract!Stop].kind \in {"end", "eof"}
         /\ \A m \in 1 .. Len(Events) :
              Events[m].kind \in {"end", "eof"} => Contract!Stop <= m
<1> DEFINE ends == {k \in DOMAIN Events : Events[k].kind \in {"end", "eof"}}
           stops == ends \cup {Len(Events) + 1}
<1>1. Len(Events) \in Nat /\ DOMAIN Events = 1 .. Len(Events)
  BY EventsAreSequence
<1>2. ends \in SUBSET (1 .. Len(Events)) /\ stops \in SUBSET Nat /\ stops # {}
  BY <1>1
<1>3. Contract!Stop = CHOOSE k \in stops : \A m \in ends : k <= m
  BY DEF Contract!Stop, Contract!Events, Events
<1> HIDE DEF stops
<1>4. \E k \in stops : \A m \in stops : k <= m
  BY <1>2, LeastPosition
<1>5. \E k \in stops : \A m \in ends : k <= m
  BY <1>4 DEF stops
<1> HIDE DEF ends
<1>6. Contract!Stop \in stops /\ \A m \in ends : Contract!Stop <= m
  BY <1>3, <1>5
<1> QED
  BY <1>1, <1>6 DEF ends, stops

\* Reading goes no further than the contract's first end.
LEMMA ReadIsBefore ==
  ASSUME IInv, outcome = "reading", position + 1 \in 1 .. Len(Events),
         Events[position + 1].kind \notin {"end", "eof"}
  PROVE  /\ position + 1 \in Contract!Before
         /\ Past \subseteq Contract!Before
<1>1. /\ stream \in Streams /\ position \in Nat
      /\ \A k \in Past : Events[k].kind \notin {"end", "eof"}
  BY DEF IInv, Typed, Reading, NoneRefused, Harmless
<1>2. \A k \in 1 .. position + 1 : Events[k].kind \notin {"end", "eof"}
  BY <1>1 DEF Past
<1>3. Len(Events) \in Nat
  BY <1>1, EventsAreSequence
<1>4. Contract!Stop > position + 1
  BY <1>1, <1>2, <1>3, StopIsFirstEnd
<1>5. Contract!Stop \in Nat
  BY <1>1, <1>3, StopIsFirstEnd
<1> QED
  BY <1>1, <1>4, <1>5 DEF Contract!Before, Past

\* At the end, what was read is all that the contract reads.
LEMMA AllIsRead ==
  ASSUME IInv, outcome = "reading", Event.kind \in {"end", "eof"}
  PROVE  Contract!Before = Past
<1>1. /\ stream \in Streams /\ position \in Nat /\ position <= Len(Events)
      /\ \A k \in Past : Events[k].kind \notin {"end", "eof"}
  BY DEF IInv, Typed, Reading, NoneRefused, Harmless
<1>2. Len(Events) \in Nat
  BY <1>1, EventsAreSequence
<1>3. Contract!Stop = position + 1
  <2>1. Contract!Stop \in Nat /\ Contract!Stop > position
    BY <1>1, <1>2, StopIsFirstEnd DEF Past
  <2>2. CASE position < Len(Events)
    <3>1. Events[position + 1].kind \in {"end", "eof"}
      BY <2>2 DEF Event, Events
    <3> QED
      BY <1>1, <1>2, <2>1, <2>2, <3>1, StopIsFirstEnd
  <2>3. CASE position = Len(Events)
    BY <1>1, <1>2, <2>1, <2>3, StopIsFirstEnd
  <2> QED
    BY <1>1, <1>2, <2>2, <2>3
<1> QED
  BY <1>1, <1>3 DEF Contract!Before, Past

LEMMA WantedIsWantedAt ==
  /\ \A k : k \in Contract!Wanted <=> k \in Contract!Before /\ WantedAt(k)
  /\ \A k : k \in Contract!Decoded <=> k \in Contract!Before /\ DecodedAt(k)
  BY DEF Contract!Wanted, Contract!Decoded, WantedAt, DecodedAt, Contract!Events, Events

LEMMA CauseRefuses ==
  ASSUME NEW k \in Contract!Before, Contract!Cause(k)
  PROVE  Contract!Verdict = Contract!Refused
  BY DEF Contract!Verdict

\* Every refusal is one the contract has a cause for.
LEMMA RefusedForACause ==
  ASSUME IInv, ReaderFails \/ Reopen \/ RefuseShortPacket \/ DecodeDamaged \/ DecodeNext,
         outcome' # "reading"
  PROVE  Contract!Verdict = Contract!Refused
<1> DEFINE here == position + 1
<1>1. outcome = "reading" /\ Typed /\ Reading /\ DeliveredInOrder
  BY DEF IInv, Answers, ReaderFails, Reopen, RefuseShortPacket, DecodeDamaged, DecodeNext
<1>2. Answers({"fault", "reset", "packet"})
  BY DEF Answers, ReaderFails, Reopen, RefuseShortPacket, DecodeDamaged, DecodeNext
<1>3. /\ position \in Nat /\ here \in 1 .. Len(Events)
      /\ Event = Events[here]
      /\ Events[here].kind \in {"fault", "reset", "packet"}
  BY <1>2, EventRead
<1>4. here \in Contract!Before /\ Past \subseteq Contract!Before
  BY <1>1, <1>3, ReadIsBefore
<1>5. Contract!Events = Events
  BY DEF Contract!Events, Events
<1>6. CASE ReaderFails
  <2>1. Events[here].kind = "fault"
    BY <1>3, <1>6 DEF ReaderFails, Answers
  <2> QED
    BY <1>4, <1>5, <2>1, CauseRefuses DEF Contract!Cause
<1>7. CASE Reopen
  <2>1. Events[here].kind = "reset" /\ DecoderFor(Events[here].tracks, link + 1)
    BY <1>3, <1>7 DEF Reopen, Answers
  <2>2. ~ Contract!Readable(Events[here].tracks)
    BY <2>1, DecoderForReadable
  <2> QED
    BY <1>4, <1>5, <2>1, <2>2, CauseRefuses DEF Contract!Cause
<1>8. CASE RefuseShortPacket
  <2>1. Events[here].kind = "packet" /\ short_error # Nothing
    BY <1>3, <1>8 DEF RefuseShortPacket, Answers
  <2>2. PICK k \in Past : WantedAt(k) /\ Events[k].decodes = "short"
    BY <1>1, <2>1 DEF Reading, ShortIsLast
  <2>3. k \in Contract!Before /\ k \in Contract!Wanted /\ here > k
    BY <1>3, <1>4, <2>2, WantedIsWantedAt DEF Past
  <2>4. Contract!Cause(k)
    BY <1>4, <1>5, <2>1, <2>2, <2>3 DEF Contract!Cause
  <2> QED
    BY <2>3, <2>4, CauseRefuses
<1>9. CASE DecodeDamaged
  <2>1. /\ Answers({"packet"}) /\ Events[here].decodes = "damaged"
        /\ Event.track = track_decoder.track_id
    BY <1>3, <1>9 DEF DecodeDamaged, OwnPacket
  <2>2. here \in Contract!Wanted
    BY <1>4, <2>1, PacketRead, WantedIsWantedAt
  <2> QED
    BY <1>4, <1>5, <2>1, <2>2, CauseRefuses DEF Contract!Cause
<1>10. CASE DecodeNext
  <2>1. /\ Answers({"packet"}) /\ Events[here].decodes = "ok"
        /\ Event.track = track_decoder.track_id
        /\ spec # Nothing /\ Events[here].spec # spec
    BY <1>1, <1>3, <1>10 DEF DecodeNext, OwnPacket
  <2>2. here \in Contract!Decoded
    <3>1. WantedAt(here)
      BY <2>1, PacketRead
    <3> QED
      BY <1>4, <2>1, <3>1, WantedIsWantedAt DEF DecodedAt
  <2>3. Delivered \in Seq(Chunks) /\ Delivered # <<>>
    BY <1>1, <2>1, DeliveredIsSequence DEF DeliveredInOrder
  <2>4. Delivered[1] \in Range(Delivered)
    BY <2>3 DEF Range
  <2> DEFINE m == Delivered[1].packet
  <2>5. m \in Past /\ DecodedAt(m) /\ Events[m].spec = spec
    BY <1>1, <2>4 DEF DeliveredInOrder, Genuine
  <2>6. m \in Contract!Decoded /\ m < here
    BY <1>3, <1>4, <2>5, WantedIsWantedAt DEF Past
  <2> HIDE DEF m
  <2>7. Contract!Cause(here)
    BY <1>5, <2>1, <2>2, <2>5, <2>6 DEF Contract!Cause
  <2> QED
    BY <1>4, <2>7, CauseRefuses
<1> QED
  BY <1>6, <1>7, <1>8, <1>9, <1>10

\* Nothing read to the end is a cause.
LEMMA NoCauseAtTheEnd ==
  ASSUME IInv, EndOfStream
  PROVE  /\ stream.recognised /\ Contract!Readable(stream.tracks)
         /\ \A k \in Contract!Before : ~ Contract!Cause(k)
         /\ Contract!Decoded = {pushed[i].packet : i \in DOMAIN pushed}
         /\ spec = Nothing <=> pushed = <<>>
         /\ \A i, j \in DOMAIN pushed : i < j => pushed[i].packet < pushed[j].packet
<1>1. /\ outcome = "reading" /\ first_chunk = Nothing /\ Event.kind \in {"end", "eof"}
      /\ Typed /\ NoneRefused /\ ShortIsLast /\ AllDelivered /\ DeliveredInOrder
  BY DEF IInv, Reading, EndOfStream, Answers
<1>2. Contract!Before = Past
  BY <1>1, AllIsRead
<1>3. Delivered = pushed
  BY <1>1 DEF Delivered
<1>4. Range(pushed) = {pushed[i] : i \in DOMAIN pushed}
  BY DEF Range
<1>5. \A k : k \in Contract!Decoded <=> \E i \in DOMAIN pushed : pushed[i].packet = k
  <2> TAKE k
  <2>1. ASSUME k \in Contract!Decoded
        PROVE  \E i \in DOMAIN pushed : pushed[i].packet = k
    BY <1>1, <1>2, <1>3, <1>4, <2>1, WantedIsWantedAt DEF AllDelivered
  <2>2. ASSUME NEW i \in DOMAIN pushed, pushed[i].packet = k
        PROVE  k \in Contract!Decoded
    BY <1>1, <1>2, <1>3, <1>4, <2>2, WantedIsWantedAt DEF DeliveredInOrder, Genuine
  <2> QED
    BY <2>1, <2>2
<1>6. \A k \in Contract!Decoded : Events[k].spec = spec
  BY <1>1, <1>3, <1>4, <1>5 DEF DeliveredInOrder, Genuine
<1>7. ASSUME NEW k \in Contract!Before, Contract!Cause(k)
      PROVE  FALSE
  <2>1. Contract!Events = Events /\ k \in Past
    BY <1>2 DEF Contract!Events, Events
  <2>2. Harmless(k)
    BY <1>1, <2>1 DEF NoneRefused
  <2>3. ~ (Events[k].kind = "fault")
        /\ ~ (Events[k].kind = "reset" /\ ~ Contract!Readable(Events[k].tracks))
        /\ ~ (k \in Contract!Wanted /\ Events[k].decodes = "damaged")
    BY <2>2, WantedIsWantedAt DEF Harmless
  <2>4. ~ \E m \in Contract!Decoded : k \in Contract!Decoded /\ m < k
                                      /\ Events[m].spec # Events[k].spec
    BY <1>6
  <2>5. ~ (/\ k \in Contract!Wanted /\ Events[k].decodes = "short"
           /\ \E m \in Contract!Before : m > k /\ Events[m].kind = "packet")
    <3> SUFFICES ASSUME WantedAt(k), Events[k].decodes = "short",
                        NEW m \in Past, m > k, Events[m].kind = "packet"
                 PROVE  FALSE
      BY <1>2, WantedIsWantedAt
    <3>1. k = short_error /\ short_error # Nothing
      BY <1>1, <2>1, NothingAssumption DEF ShortIsLast, Past, Typed
    <3> QED
      BY <1>1, <3>1 DEF ShortIsLast
  <2> QED
    BY <1>7, <2>1, <2>3, <2>4, <2>5 DEF Contract!Cause
<1> QED
  BY <1>1, <1>3, <1>5, <1>7 DEF NoneRefused, DeliveredInOrder

\* The contract counts as this module does.
LEMMA SameCardinality == \A S : Contract!Cardinality(S) = Cardinality(S)
  BY DEF Contract!Cardinality, Cardinality

LEMMA EndsWithTheVerdict ==
  ASSUME IInv, EndOfStream
  PROVE  Result' = Contract!Verdict
<1>1. /\ stream.recognised /\ Contract!Readable(stream.tracks)
      /\ \A k \in Contract!Before : ~ Contract!Cause(k)
      /\ Contract!Decoded = {pushed[i].packet : i \in DOMAIN pushed}
      /\ spec = Nothing <=> pushed = <<>>
      /\ \A i, j \in DOMAIN pushed : i < j => pushed[i].packet < pushed[j].packet
  BY NoCauseAtTheEnd
<1>2. pushed \in Seq(Chunks) /\ pushed' = pushed
  BY DEF IInv, Typed, EndOfStream
<1>3. /\ outcome' = IF spec = Nothing THEN "no_audio" ELSE "finished"
  BY DEF EndOfStream
<1> DEFINE n == Len(pushed)
           f == [i \in 1 .. n |-> pushed[i].packet]
           D == Contract!Decoded
<1>4. /\ n \in Nat /\ DOMAIN pushed = 1 .. n
      /\ \A i \in 1 .. n : pushed[i].packet \in Nat
      /\ pushed = <<>> <=> n = 0
  <2>1. n \in Nat /\ DOMAIN pushed = 1 .. n /\ (pushed = <<>> <=> n = 0)
    BY <1>2
  <2>2. \A i \in 1 .. n : pushed[i] \in Chunks
    BY <1>2
  <2> QED
    BY <2>1, <2>2 DEF Chunks
<1>5. f \in [1 .. n -> Nat] /\ D = {f[j] : j \in 1 .. n}
  BY <1>1, <1>4
<1>6. \A i, j \in 1 .. n : i < j => f[i] < f[j]
  BY <1>1, <1>4
<1>7. CASE spec = Nothing
  <2>1. D = {}
    BY <1>1, <1>4, <1>7
  <2>2. Contract!Verdict = Contract!Refused
    BY <2>1 DEF Contract!Verdict
  <2>3. Result' = [kind |-> "refused"]
    BY <1>3, <1>7 DEF Result, Running
  <2> QED
    BY <2>2, <2>3 DEF Contract!Refused
<1>8. CASE spec # Nothing
  <2>1. D # {}
    <3>1. n > 0
      BY <1>1, <1>4, <1>8
    <3>2. 1 \in 1 .. n
      BY <1>4, <3>1
    <3> QED
      BY <1>5, <3>2
  <2>2. Contract!Verdict
          = Contract!Chunks([i \in 1 .. Contract!Cardinality(D) |->
              CHOOSE k \in D : Contract!Cardinality({m \in D : m <= k}) = i])
    BY <1>1, <2>1 DEF Contract!Verdict
  <2> HIDE DEF D, f, n
  <2>3. Lists(f, n, D)
    BY <1>4, <1>5, <1>6 DEF Lists
  <2>4. Contract!Cardinality(D) = n
    <3>1. n \in 0 .. n
      BY <1>4
    <3>2. Cardinality({f[j] : j \in 1 .. n}) = n
      BY <2>3, <3>1, CountFirst
    <3> QED
      BY <1>5, <3>2, SameCardinality
  <2> DEFINE rank(k) == Contract!Cardinality({m \in D : m <= k})
             nth(i) == CHOOSE k \in D : rank(k) = i
  <2>5. \A k \in D : rank(k) \in 1 .. n /\ f[rank(k)] = k
    BY <2>3, Enumeration, SameCardinality DEF UpTo
  <2> HIDE DEF rank
  <2>6. ASSUME NEW i \in 1 .. n
        PROVE  nth(i) = f[i]
    <3>1. f[i] \in D
      BY <1>5
    <3>2. rank(f[i]) = i
      BY <2>3, <2>5, <3>1, NoneTwice
    <3>3. \A k \in D : rank(k) = i => k = f[i]
      BY <2>5
    <3> QED
      BY <3>1, <3>2, <3>3
  <2> HIDE DEF nth
  <2>7. [i \in 1 .. Contract!Cardinality(D) |-> nth(i)] = [i \in 1 .. n |-> f[i]]
    BY <2>4, <2>6
  <2>8. [i \in 1 .. n |-> f[i]] = [k \in DOMAIN pushed |-> pushed[k].packet]
    BY <1>4 DEF f
  <2>9. Result' = [kind |-> "chunks",
                   positions |-> [k \in DOMAIN pushed |-> pushed[k].packet]]
    BY <1>2, <1>3, <1>8 DEF Result, Running
  <2> QED
    BY <2>2, <2>7, <2>8, <2>9 DEF Contract!Chunks, nth, rank
<1> QED
  BY <1>7, <1>8

\* Each step of the reader is the contract's one step or none of its steps.
LEMMA StepRefines ==
  ASSUME IInv, [Next]_vars
  PROVE  [Contract!Decide]_(Contract!vars)
<1> USE DEF Contract!Decide, Contract!vars
<1>1. CASE UNCHANGED vars
  BY <1>1 DEF vars, Result, Running
<1>2. ASSUME Next
      PROVE  Running /\ stream' = stream /\ Result = Contract!Pending
  BY <1>2 DEF Next, Running, Result, Contract!Pending, Open, EndOfStream, ReaderFails,
     Reopen, SkipPacket, RefuseShortPacket, DecodeShort, DecodeDamaged, DecodeFirst,
     TakeFirstChunk, DecodeNext, Answers
<1>3. CASE Next /\ Running'
  <2>1. Result' = Contract!Pending
    BY <1>3 DEF Result, Running, Contract!Pending
  <2> QED
    BY <1>2, <1>3, <2>1
<1>4. CASE Next /\ ~ Running'
  <2>1. CASE EndOfStream
    BY <1>2, <1>4, <2>1, EndsWithTheVerdict
  <2>2. CASE Open
    <3>1. ~ (stream.recognised /\ Contract!Readable(stream.tracks))
          /\ outcome' = "unsupported"
      BY <1>4, <2>2, DecoderForReadable DEF Open, Running
    <3>2. Contract!Verdict = Contract!Refused
      BY <3>1 DEF Contract!Verdict
    <3>3. Result' = Contract!Refused
      BY <3>1 DEF Result, Running, Contract!Refused
    <3> QED
      BY <1>2, <1>4, <3>2, <3>3
  <2>3. CASE ReaderFails \/ Reopen \/ RefuseShortPacket \/ DecodeDamaged \/ DecodeNext
    <3>1. Contract!Verdict = Contract!Refused
      BY <1>4, <2>3, RefusedForACause DEF Running
    <3>2. outcome' # "finished"
      BY <1>4, <2>3 DEF Running, ReaderFails, Reopen, DecoderFor, RefuseShortPacket,
         DecodeDamaged, DecodeNext, Answers
    <3>3. Result' = Contract!Refused
      BY <1>4, <3>2 DEF Result, Contract!Refused
    <3> QED
      BY <1>2, <1>4, <3>1, <3>3
  <2>4. CASE SkipPacket \/ DecodeShort \/ DecodeFirst \/ TakeFirstChunk
    BY <1>4, <2>4 DEF Running, SkipPacket, DecodeShort, DecodeFirst, TakeFirstChunk, Answers
  <2> QED
    BY <1>4, <2>1, <2>2, <2>3, <2>4 DEF Next
<1> QED
  BY <1>1, <1>3, <1>4

\* Reading one packet at a time comes to the verdict on the whole stream, and to
\* no other: all of `KeepsContract` but that it always comes to one.
THEOREM ReadsByTheContract == Spec => Contract!Safety
<1>1. Init => Contract!Init
  BY DEF Init, Contract!Init, Result, Running, Contract!Pending
<1>2. IInv /\ [Next]_vars => [Contract!Decide]_(Contract!vars)
  BY StepRefines
<1> QED
  BY <1>1, <1>2, Invariance, PTL DEF Spec, Contract!Safety

-------------------------------------------------------------------------------
(* The samples: what a packet is mixed down to. *)

Share(packet, frame, channel, count) ==
  [sample |-> [packet |-> packet, frame |-> frame, channel |-> channel], share |-> count]

\* How many samples of a frame are among the first `k` of its packet.
Heard(k, frame, count) ==
  IF frame <= k \div count THEN count
  ELSE IF frame = k \div count + 1 THEN k % count ELSE 0

\* The frames once `k` samples are added.
After(packet, frames, count, k) ==
  [frame \in 1 .. frames |->
     [channel \in 1 .. Heard(k, frame, count) |-> Share(packet, frame, channel, count)]]

LEMMA OneMorePlace ==
  ASSUME NEW k \in Nat, NEW c \in Nat \ {0}
  PROVE  /\ k \div c \in Nat /\ k % c \in 0 .. c - 1
         /\ IF (k % c) + 1 = c THEN (k + 1) \div c = k \div c + 1 /\ (k + 1) % c = 0
            ELSE (k + 1) \div c = k \div c /\ (k + 1) % c = (k % c) + 1
<1>1. k \div c \in Nat /\ k % c \in 0 .. c - 1
  OBVIOUS
<1>2. IF (k % c) + 1 = c THEN (k + 1) \div c = k \div c + 1 /\ (k + 1) % c = 0
      ELSE (k + 1) \div c = k \div c /\ (k + 1) % c = (k % c) + 1
  OBVIOUS
<1> QED
  BY <1>1, <1>2

LEMMA WholePlaces ==
  ASSUME NEW c \in Nat \ {0}, NEW f \in Nat
  PROVE  /\ f * c \in Nat
         /\ (f * c) \div c = f /\ (f * c) % c = 0
         /\ \A k \in Nat : k < f * c => k \div c < f
  OBVIOUS

LEMMA NoneHeard ==
  ASSUME NEW packet, NEW frames \in Nat, NEW count \in Nat \ {0}
  PROVE  After(packet, frames, count, 0) = [frame \in 1 .. frames |-> <<>>]
<1>1. 0 \div count = 0 /\ 0 % count = 0
  OBVIOUS
<1>2. \A frame \in 1 .. frames : Heard(0, frame, count) = 0
  BY <1>1 DEF Heard
<1>3. ASSUME NEW frame \in 1 .. frames
      PROVE  [channel \in 1 .. Heard(0, frame, count) |-> Share(packet, frame, channel, count)]
               = <<>>
  <2>1. 1 .. Heard(0, frame, count) = {}
    BY <1>2
  <2> HIDE DEF Share
  <2> QED
    BY <2>1
<1> QED
  BY <1>3, Zenon DEF After

\* The next sample goes to the end of its frame.
LEMMA OneHeard ==
  ASSUME NEW packet, NEW frames \in Nat, NEW count \in Nat \ {0},
         NEW k \in Nat, k < frames * count
  PROVE  [After(packet, frames, count, k) EXCEPT ![k \div count + 1] =
            Append(@, Share(packet, k \div count + 1, (k % count) + 1, count))]
           = After(packet, frames, count, k + 1)
<1> DEFINE f == k \div count
           r == k % count
           share(frame) == [channel \in 1 .. Heard(k, frame, count) |->
                              Share(packet, frame, channel, count)]
           next(frame) == [channel \in 1 .. Heard(k + 1, frame, count) |->
                              Share(packet, frame, channel, count)]
           latest == Share(packet, f + 1, r + 1, count)
<1>1. /\ f \in Nat /\ r \in 0 .. count - 1 /\ f < frames
      /\ IF r + 1 = count THEN (k + 1) \div count = f + 1 /\ (k + 1) % count = 0
         ELSE (k + 1) \div count = f /\ (k + 1) % count = r + 1
  BY OneMorePlace, WholePlaces
<1>2. Heard(k, f + 1, count) = r
  BY <1>1 DEF Heard
<1>3. Heard(k + 1, f + 1, count) = r + 1
  BY <1>1 DEF Heard
<1>4. \A frame \in 1 .. frames :
        frame # f + 1 => Heard(k + 1, frame, count) = Heard(k, frame, count)
  BY <1>1 DEF Heard
<1>5. Append(share(f + 1), latest) = next(f + 1)
  <2>1. share(f + 1) = [channel \in 1 .. r |-> Share(packet, f + 1, channel, count)]
    BY <1>2
  <2>2. next(f + 1) = [channel \in 1 .. r + 1 |-> Share(packet, f + 1, channel, count)]
    BY <1>3
  <2> DEFINE g(channel) == Share(packet, f + 1, channel, count)
             S == {g(channel) : channel \in 1 .. r + 1}
  <2>3. latest = g(r + 1)
    OBVIOUS
  <2> HIDE DEF f, r, latest, share, next
  <2>4. [channel \in 1 .. r |-> g(channel)] \in Seq(S) /\ g(r + 1) \in S
    <3>1. r \in Nat
      BY <1>1
    <3> HIDE DEF g
    <3> QED
      BY <3>1
  <2> HIDE DEF g
  <2>5. Append([channel \in 1 .. r |-> g(channel)], g(r + 1))
          = [channel \in 1 .. r + 1 |-> g(channel)]
    BY <1>1
  <2> QED
    BY <2>1, <2>2, <2>3, <2>5, Zenon DEF g
<1>6. After(packet, frames, count, k) = [frame \in 1 .. frames |-> share(frame)]
  BY Zenon DEF After
<1>7. After(packet, frames, count, k + 1) = [frame \in 1 .. frames |-> next(frame)]
  BY Zenon DEF After
<1>8. \A frame \in 1 .. frames : frame # f + 1 => share(frame) = next(frame)
  <2> TAKE frame \in 1 .. frames
  <2> HAVE frame # f + 1
  <2> QED
    BY <1>4, Zenon
<1> HIDE DEF share, next, latest
<1>9. f + 1 \in 1 .. frames
  BY <1>1
<1>10. [After(packet, frames, count, k) EXCEPT ![f + 1] = Append(@, latest)]
         = [frame \in 1 .. frames |-> next(frame)]
  BY <1>5, <1>6, <1>8, <1>9
<1> QED
  BY <1>7, <1>10 DEF latest

SamplesOf(samples, packet, frames) ==
  samples = [k \in 1 .. frames * Count |->
               [packet |-> packet, frame |-> (k - 1) \div Count + 1,
                channel |-> ((k - 1) % Count) + 1]]

Averages(mono, packet, frames) ==
  mono = [frame \in 1 .. frames |->
            [channel \in 1 .. Count |-> Share(packet, frame, channel, Count)]]

\* What lay in the buffers is not heard: the frames are those of the packet.
LEMMA MixedIsAverage ==
  ASSUME NEW buffer, NEW samples, NEW packet, NEW frames \in Nat, Count \in Nat \ {0},
         SamplesOf(samples, packet, frames)
  PROVE  Averages(Mixed(buffer, samples), packet, frames)
<1> DEFINE empty == Resized(Cleared(buffer), Len(samples) \div Count)
           next(mono, k) == [mono EXCEPT ![(k - 1) \div Count + 1] =
                               Append(@, [sample |-> samples[k], share |-> Count])]
           places == 0 .. Len(samples)
           body(T) == [k \in places |-> IF k = 0 THEN empty ELSE next(T[k - 1], k)]
           Added == CHOOSE T : T = body(T)
           all == [k \in places |-> After(packet, frames, Count, k)]
           n == frames * Count
<1> USE DEF SamplesOf, Averages
<1>1. n \in Nat /\ n \div Count = frames /\ \A k \in Nat : k < n => k \div Count < frames
  BY WholePlaces
<1>2. Len(samples) = n
  BY <1>1
<1>3. Mixed(buffer, samples) = Added[Len(samples)]
  BY Zenon DEF Mixed
<1>4. empty = After(packet, frames, Count, 0)
  <2>1. empty = Resized(<<>>, frames)
    BY <1>1, <1>2 DEF Cleared
  <2>2. Resized(<<>>, frames) = [frame \in 1 .. frames |-> <<>>]
    BY DEF Resized
  <2> HIDE DEF empty
  <2> QED
    BY <2>1, <2>2, NoneHeard
<1> HIDE DEF empty
<1>5. ASSUME NEW k \in places
      PROVE  all[k] = IF k = 0 THEN empty ELSE next(all[k - 1], k)
  <2>1. CASE k = 0
    BY <1>4, <2>1
  <2>2. CASE k # 0
    <3> DEFINE j == k - 1
    <3>1. j \in Nat /\ j \in places /\ j < n /\ k = j + 1 /\ k \in 1 .. n
      BY <1>1, <1>2, <2>2
    <3>2. samples[k] = [packet |-> packet, frame |-> j \div Count + 1,
                        channel |-> (j % Count) + 1]
      BY <3>1
    <3>3. [sample |-> samples[k], share |-> Count]
            = Share(packet, j \div Count + 1, (j % Count) + 1, Count)
      BY <3>2 DEF Share
    <3>4. all[j] = After(packet, frames, Count, j) /\ all[k] = After(packet, frames, Count, k)
      BY <3>1
    <3>5. next(all[j], k) = [After(packet, frames, Count, j) EXCEPT ![j \div Count + 1] =
            Append(@, Share(packet, j \div Count + 1, (j % Count) + 1, Count))]
      BY <3>3, <3>4, Zenon
    <3>6. j < frames * Count
      BY <3>1
    <3> HIDE DEF j, all, next
    <3>7. [After(packet, frames, Count, j) EXCEPT ![j \div Count + 1] =
             Append(@, Share(packet, j \div Count + 1, (j % Count) + 1, Count))]
            = After(packet, frames, Count, j + 1)
      BY <3>1, <3>6, OneHeard
    <3>8. all[k] = next(all[j], k)
      BY <3>1, <3>4, <3>5, <3>7
    <3> QED
      BY <2>2, <3>8 DEF j
  <2> QED
    BY <2>1, <2>2
<1> HIDE DEF next
<1>6. all = body(all)
  BY <1>5, Zenon
<1> HIDE DEF body
<1>7. Added = body(Added)
  BY <1>6
<1> HIDE DEF Added
<1>8. \A k \in places : Added[k] = IF k = 0 THEN empty ELSE next(Added[k - 1], k)
  BY <1>7, Zenon DEF body
<1> DEFINE apart == {k \in places : Added[k] # all[k]}
<1>9. apart = {}
  <2> SUFFICES ASSUME apart # {}
               PROVE  FALSE
    OBVIOUS
  <2>1. apart \in SUBSET Nat
    BY <1>1, <1>2
  <2>2. PICK k \in apart : \A m \in apart : k <= m
    BY <2>1, LeastPosition
  <2> HIDE DEF all
  <2>3. k \in places /\ k # 0
    BY <1>5, <1>8
  <2>4. k - 1 \in places /\ k - 1 < k /\ k \in Nat /\ k - 1 \in Nat
    BY <1>1, <1>2, <2>3
  <2>5. k - 1 \notin apart
    <3> HIDE DEF apart
    <3>1. k - 1 \in apart => k <= k - 1
      BY <2>2
    <3> QED
      BY <2>4, <3>1
  <2>6. Added[k - 1] = all[k - 1]
    BY <2>4, <2>5
  <2> QED
    BY <1>5, <1>8, <2>3, <2>6
<1>10. Added[n] = After(packet, frames, Count, n)
  <2>1. n \in places
    BY <1>1, <1>2
  <2> QED
    BY <1>9, <2>1
<1>11. After(packet, frames, Count, n) =
         [frame \in 1 .. frames |->
            [channel \in 1 .. Count |-> Share(packet, frame, channel, Count)]]
  <2>1. \A frame \in 1 .. frames : Heard(n, frame, Count) = Count
    BY <1>1 DEF Heard
  <2> HIDE DEF n
  <2> QED
    BY <2>1, Zenon DEF After
<1> HIDE DEF n
<1> QED
  BY <1>2, <1>3, <1>10, <1>11

\* The frames that lie in wait for the first call are those of the packet that
\* `new` decoded early.
FirstIsAverage ==
  first_chunk # Nothing => first_frames = Average(first_chunk.packet)

LEMMA PacketMixed ==
  ASSUME IInv, Answers({"packet"}), Event.decodes = "ok", NEW buffer
  PROVE  Mixed(buffer, Interleaved) = Average(position + 1)
<1>1. /\ position + 1 \in 1 .. Len(Events)
      /\ Event = Events[position + 1]
      /\ Events[position + 1].kind = "packet"
  BY EventRead
<1>2. stream \in Streams /\ position + 1 \in DOMAIN stream.events
  BY <1>1, EventsAreSequence DEF IInv, Typed, Events
<1>3. Event.frames \in Nat /\ Count \in Nat \ {0}
  BY <1>1, <1>2, ChannelsAssumption DEF Count, Events
<1>4. SamplesOf(Interleaved, position + 1, Event.frames)
  BY DEF Interleaved, SamplesOf
<1>5. Averages(Mixed(buffer, Interleaved), position + 1, Event.frames)
  BY <1>3, <1>4, MixedIsAverage, Zenon
<1>6. /\ stream.events[position + 1].frames = Event.frames
      /\ Channels(stream.events[position + 1].spec) = Count
  BY <1>1 DEF Count, Events
<1>7. Averages(Average(position + 1), position + 1, Event.frames)
  BY <1>6, Zenon DEF Average, Averages, Share
<1> QED
  BY <1>5, <1>7 DEF Averages

\* MonoDecoder takes the steps of PacketDecoder.
LEMMA MonoIsNext ==
  [MonoNext]_monoVars => [Next]_vars
  BY DEF MonoNext, MixFirst, HandFirstOver, MixNext, MixNothing, Next, monoVars

LEMMA FirstStaysAverage ==
  ASSUME IInv, FirstIsAverage, [MonoNext]_monoVars
  PROVE  FirstIsAverage'
<1>1. CASE MixFirst
  <2>1. /\ Answers({"packet"}) /\ Event.decodes = "ok" /\ first_chunk' = Chunk
        /\ stream' = stream /\ first_frames' = Mixed(<<>>, Interleaved)
    BY <1>1 DEF MixFirst, DecodeFirst, Answers
  <2>2. first_frames' = Average(position + 1)
    BY <2>1, PacketMixed
  <2>3. first_chunk'.packet = position + 1
    BY <2>1 DEF Chunk
  <2> QED
    BY <2>1, <2>2, <2>3 DEF FirstIsAverage, Average
<1>2. CASE HandFirstOver
  BY <1>2 DEF HandFirstOver, TakeFirstChunk, FirstIsAverage
<1>3. CASE MixNext
  BY <1>3 DEF MixNext, DecodeNext, Answers, FirstIsAverage
<1>4. CASE MixNothing
  BY <1>4 DEF MixNothing, Open, EndOfStream, ReaderFails, Reopen, SkipPacket,
     RefuseShortPacket, DecodeShort, DecodeDamaged, Answers, FirstIsAverage, Average
<1>5. CASE UNCHANGED monoVars
  BY <1>5 DEF monoVars, vars, FirstIsAverage, Average
<1> QED
  BY <1>1, <1>2, <1>3, <1>4, <1>5 DEF MonoNext

LEMMA LastOfAppend ==
  ASSUME NEW S, NEW s \in Seq(S), NEW x \in S
  PROVE  Append(s, x)[Len(Append(s, x))] = x
  OBVIOUS

\* A chunk comes with the frames of its packet.
LEMMA PushesAverage ==
  ASSUME IInv, FirstIsAverage, [MonoNext]_monoVars, pushed' # pushed
  PROVE  mono_frames' = Average(pushed'[Len(pushed')].packet)
<1>1. Typed
  BY DEF IInv
<1>2. CASE HandFirstOver
  <2>1. /\ first_chunk # Nothing /\ pushed' = Append(pushed, first_chunk)
        /\ mono_frames' = first_frames
    BY <1>2 DEF HandFirstOver, TakeFirstChunk
  <2>2. pushed'[Len(pushed')] = first_chunk
    BY <1>1, <2>1, LastOfAppend DEF Typed
  <2> QED
    BY <2>1, <2>2 DEF FirstIsAverage
<1>3. CASE MixNext
  <2>1. /\ Answers({"packet"}) /\ OwnPacket /\ Event.decodes = "ok"
        /\ mono_frames' = Mixed(mono_frames, Interleaved)
        /\ pushed' = Append(pushed, Chunk)
    BY <1>3 DEF MixNext, DecodeNext
  <2>2. mono_frames' = Average(position + 1)
    BY <2>1, PacketMixed
  <2>3. Chunk.packet = position + 1 /\ Chunk \in Chunks
    <3>1. outcome = "reading" /\ Reading
      BY <2>1 DEF IInv, Answers
    <3> QED
      BY <1>1, <3>1 DEF Typed, Reading, DecoderInForce, Chunk, Chunks
  <2>4. pushed'[Len(pushed')] = Chunk
    BY <1>1, <2>1, <2>3, LastOfAppend DEF Typed
  <2> QED
    BY <2>2, <2>3, <2>4
<1>4. CASE MixFirst
  BY <1>4 DEF MixFirst, DecodeFirst
<1>5. CASE MixNothing
  BY <1>5 DEF MixNothing, Open, EndOfStream, ReaderFails, Reopen, SkipPacket,
     RefuseShortPacket, DecodeShort, DecodeDamaged
<1>6. CASE UNCHANGED monoVars
  BY <1>6 DEF monoVars, vars
<1> QED
  BY <1>2, <1>3, <1>4, <1>5, <1>6 DEF MonoNext

LEMMA MonoInvariance == MonoSpec => [](IInv /\ FirstIsAverage)
<1>1. MonoInit => IInv /\ FirstIsAverage
  <2> SUFFICES ASSUME MonoInit
               PROVE  IInv /\ FirstIsAverage
    OBVIOUS
  <2>1. Init
    BY DEF MonoInit
  <2> QED
    BY <2>1, InitEstablishes DEF Init, FirstIsAverage
<1>2. IInv /\ FirstIsAverage /\ [MonoNext]_monoVars => (IInv /\ FirstIsAverage)'
  BY MonoIsNext, StepKeeps, FirstStaysAverage
<1> QED
  BY <1>1, <1>2, PTL DEF MonoSpec

\* What the resampler is given with a chunk is the average of the channels of that
\* chunk's packet, frame by frame, for any number of channels and frames: nothing of
\* what the buffers held before is heard in it.
THEOREM EveryChunkIsItsPacket == MonoSpec => AveragesItsPacket
<1>1. IInv /\ FirstIsAverage /\ [MonoNext]_monoVars =>
        (pushed' # pushed => mono_frames' = Average(pushed'[Len(pushed')].packet))
  BY PushesAverage
<1> QED
  BY <1>1, MonoInvariance, PTL DEF MonoSpec, AveragesItsPacket
===================================================================================
