# A verification of shazamio-core in TLA+

`shazamio-core` turns audio into the fingerprint Shazam's service looks up. It is
a Rust crate with a Python front: a call takes bytes or a path, a thread of its
own decodes them, resamples them to 16 kHz, takes a segment from the middle,
finds the peaks of its spectrum and encodes them as a binary signature, which
resolves an asyncio future. Around the crate stand the workflows that check,
merge and publish it. Paths below are relative to the repository.

## Inventory

| Component | Source | State | Operations | What has to be right |
|---|---|---|---|---|
| Fingerprint generator | `src/fingerprinting/algorithm.rs` | a ring of 2048 samples, a reordered copy, two rings of 256 spectra with their indexes, the pass counter, the peaks by band | `do_fft`, `do_peak_spreading`, `do_peak_recognition`, `middle_segment` | the rings, written and read at different lags, agree on which pass is which; the curvature assertion; the order of the peaks |
| Stream decoding | `decode.rs` | the reader, the selected track and its decoder, the first chunk and its spec | `next_packet`, `end_of_stream_or`, `next`, `MonoDecoder::new`, `next_chunk` | chained links, a short last packet, an unexpected end and a change of format each end the stream the right way; no packet lost, repeated or decoded by the wrong decoder |
| Opus decoding | `opus_decoder.rs` | the header, libopus, the frames still to skip | `parse`, `try_new`, `decode_ref` | the header is never read past its end; warm-up and padding dropped once |
| Resampling | `resample.rs` | staged frames, output, frames to trim | `push`, `finish` | a stream in pieces comes out as the whole clip would; the flush ends |
| Signature format | `signature_format.rs` | the cursor, the peaks buffer, the last pass written | `encode_to_binary`, `encode_to_uri` | a reader gets the peaks back; sizes, padding and checksum agree; the assertion on the order holds |
| Signature response | `communication.rs`, `response.rs` | none | `get_signature_json` | the duration in milliseconds |
| Python entry points | `lib.rs`, `params.rs` | the duration of a `Recognizer` and of a `SearchParams` | the constructors, the setters, `recognize_bytes`, `recognize_path` | what a call captured, and that no segment is empty |
| Async bridge | `utils.rs`, `errors.rs` | an asyncio future, a tokio task and a blocking job for each call | `get_python_future` | a call is answered once, with its own result, and never after a cancellation; panics come back; threads are given back |
| Hanning window | `hanning.rs` | a table of 2048 constants | scaling a sample in `do_fft` | every entry; which entry a sample meets in each pass that hears it |
| Dependabot workflows | `.github/workflows/dependabot-*.yaml`, `.github/actions/auto-merge` | the pull request's head, its queue, two runs with what they have read | start, checkout, read, regenerate, commit, enable or disable the merge, push | nothing lands unchecked; no golden URI lands without a person; the push does not start itself for ever; what should land does |
| CI and release | `.github/workflows/ci.yaml`, `.github/path-filters.yaml`, scripts | the results of the jobs, the step of `release`, the files on PyPI | the filter, the checks, the gate, the release, re-runs | what the gate's green and the release's green mean under failures, cancellations and re-runs |
| Module exports | `mod.rs`, `__init__.py`, the stubs | | | see the last section |

The components form a pipeline inside one job: `pcm_samples` pulls chunks from
the decoder and pushes them into the resampler, `make_signature` cuts the
segment and runs the generator, `get_signature_json` encodes. Concurrency is
all in the bridge: the event loop, tokio's workers and its blocking threads. The
workflows interact through the pull request: each reads it at one time and acts
on it at a later one, while Dependabot, people, `CI` and GitHub change it.
What is hard here: lags and wraps in the rings; streams that end or change in
unexpected ways; trims that span calls; bytes that a reader may take for
something else; cancellation racing an answer; a file read later than the call; a
run that acts on a head it has not seen; a release that stops between two files.
`PROJECT.json` lists these one by one, at their lines, under "hazards".

## Plan

1. `SignatureGenerator`, with its proofs: the crate's core. Done.
2. `StreamContract` and `PacketDecoder`, which implements it. Done.
3. `CallContract` and `Recognizer`, which implements it. Done.
4. `Resampling`, `SignatureFormat`, `OpusDecoder`, `Segment`,
   `SignatureDuration`, and proofs of the two that are arithmetic. Done.
5. `FingerprintContract` and `FingerprintJob`, which composes the decoder, the
   resampler, the segment, the generator and the encoder and implements it. Done.
6. `MonoDecoder`, the samples of the decoder; `HanningWindow`; the f32 duration
   over the segment it is the duration of. Done.
7. `DependabotMerge` and `CiWorkflow`, with proofs. Done.
8. Proofs of the recorded peaks, of `Resampling`, and that `Recognizer` keeps the
   safety part of `CallContract`. Done.
9. Proofs of `PacketDecoder`'s safety and that it keeps the safety part of
   `StreamContract`; that `FingerprintJob` keeps `FingerprintContract`, with the
   invariants of its parts at work together; of the header of `SignatureFormat`, of
   the f32 duration and of `BotsMoveNoUri`. Done.
10. Proof of what the reader of `SignatureFormat` reads back, for which its recursive
   functions are shown to exist. Done.
11. Proof that the file a job answers with tells its own segment and the generator's
   peaks (`FileTellsSegment`). Done.
12. Proof that `MonoDecoder` hands over the mix of each packet (`AveragesItsPacket`).
   Done. Left is what the provers do not reach: liveness, and the table of
   `HanningWindow`.

## The modules

**SignatureGenerator** is `make_signature_from_buffer`'s loop. The struct's
fields are the variables, under their names. `DoFft` is `do_fft`,
`DoPeakSpreading` is `do_peak_spreading` with the counter the loop increments
after it, and `do_peak_recognition` is one `JudgePeak(b)` for each bin that is a
peak, in ascending order, then `EndRecognition`. A chunk of 128 samples is its
number and an index into the sample ring counts chunks, which is exact because
the index only moves by 128. A power is an integer level: the code compares
powers and takes `ln`, floored, of them, so an order and a monotone `Magnitude`
are all the properties need. The transform is `Spectra(window)`, the spectra it
may give. Masks are remainders by the ring's size. `corrected_peak_frequency_bin`
and `frequency_hz` are exact: the product with 125/1024 of a 16-bit bin fits in
an f32. One thing the integers abstract is the rounding of `peak_variation_1`:
in f32, `2p` is exact, `2p - b` with `p >= b` rounds to no less than `p` (a
representable value it is not below), and `p - a` with `p >= a` is not negative,
so the assertion holds in f32 whenever the two comparisons do.

**PacketDecoder** is `decode.rs` and the loop of `pcm_samples`. A stream is
the sequence of answers its reader gives to `next_packet`; a packet says which
track it is of and what its decoder makes of it. Each action is one of these
answers met by `next` (`SkipPacket`, `DecodeShort`, `DecodeDamaged`,
`DecodeFirst`, `DecodeNext`), by `next_packet` (`EndOfStream`, `ReaderFails`,
`Reopen`), by `end_of_stream_or` (`RefuseShortPacket`), or the hand-over of the
first chunk (`TakeFirstChunk`). `short_error` is the error that
`end_of_stream_or` holds on its stack. **StreamContract** says in one step what
a whole stream comes to, without a state machine: where reading stops, which
packets are of the track selected in their link, and the five reasons to refuse.
`PacketDecoder` implements it, by a refinement mapping of the outcome and of the
chunks pushed, and so comes to a verdict.

**MonoDecoder** extends `PacketDecoder` with what it leaves out: the interleaved
buffer, the mono buffer that `pcm_samples` passes to every call of `next`, and the
buffer of the first chunk. A sample is the packet, frame and channel it is of, so
that a mono frame tells what was added into it and divided by what. Each action
of `PacketDecoder` is conjoined with what it does to the buffers (`MixFirst`,
`HandFirstOver`, `MixNext`, `MixNothing`), and the runs of the decoder are of this
module: the properties of `PacketDecoder` are checked on it.

**Resampling** is `resample.rs`. Frames are numbered, so a call is where its
input starts and how much of it is sound, and the output is a range. rubato is
`OutputAfter(n)`, the frames made by `n` calls.

**HanningWindow** is the table and one sample of the segment followed through it:
the pass that writes it into a slot, and the entry each later pass scales it by
until the slot is overwritten. The source gives an entry to five significant
digits, from 2.3508e-06 at its ends to 1 in the middle; here it is those digits and
the number of decimals they end at. `HannWindow` compares every entry with the
squared sine it stands for, computed to 21 decimals from the angle and its
doublings: an entry may be off by half a unit of its last digit and by two
thousandths of one more, because 0.5014 of a unit is how far the entries 744 and
1303 (from zero) of the source are. So a wrong digit is seen
wherever it is, except that twenty of the 2048 entries lie so near halfway between
two values that the other of the two would pass as well.

**Segment** is `middle_segment`, with the widths of `u32` and of `usize` as
constants, and the cast of the segment's length and its sum with the padding in
the header. `usize_max` is chosen from `USIZE_MAXES`: the narrow and the wide
builds in one run. **SignatureDuration** extends it with the f32 expression of
`get_signature_json`, with its two roundings in integers: 16000 and 1000 are
powers of two times 125, so only the division and the product by 125 round.

**SignatureFormat** is `encode_to_binary` byte by byte, one action for the
header, for the start and end of a band, for a peak and for the completion of
the blank words; `BandsIn` and `PeaksIn` are a reader of the layout that is
written independently of the encoder. crc32 is a `Checksum` of the bytes. The
width of the sum of `number_samples` and the rate's share is `Segment`'s. The
product with 0.24 is taken in f32 there and equals the whole number for each of
the six rates.

**OpusDecoder** is the header parser, which records the greatest offset it
read, and the trimming in `decode_ref`. The demuxers are outside the repository:
`TrimStart` and `TrimEnd` are what a container that signals `start` frames of
warm-up and `end` of padding reports of each packet. `libopus` may refuse a
layout and may reject a packet. A rejected packet ends the use of the decoder,
because `end_of_stream_or` decodes no other (`decode.rs:160`).

**Recognizer** is `lib.rs`, `params.rs` and `utils.rs`. The program's steps
(`SetDuration`, `Call`, `Cancel`, `RewriteFile`, `CloseLoop`), the loop's
callbacks in the order they were queued (`RunCancelled`, `RunCompletion`), a task
of each call (`SubmitJob`, `TakeAnswer`, `GiveUp`, `CheckCancelled`,
`PostAnswer`) and its blocking job (`StartJob`, `FinishJob`) interleave freely.
A path is opened when its job starts and read while it is decoded, so a job knows
the version it opened and, when it is done, the first and the last version it has
read: any two in order between the opening and the end. A job that read one version
comes to what that comes to (`Work`); one that met a rewrite may come to anything
(`ComesTo`). Bytes are the version that was handed over.
What pyo3-async-runtimes, tokio and asyncio do is external and marked so in the
map. **CallContract** is what a caller is promised: an answer, once, for the bytes or for
the file as it was at times between the call and the answer. `Recognizer`
implements it.

**FingerprintJob** is one call of `make_signature` and `get_signature_json`: it
instantiates `PacketDecoder`, `Resampling`, `Segment`, `SignatureGenerator` and
`SignatureFormat` on variables of their own and gives each the turn the two
functions give it. What crosses a boundary is what the code passes: the frames of
a chunk, the length of the output, the whole chunks of the segment, the peaks.
The job adds the errors in between: a rate no resampler is built for, a clock
before 1970. **FingerprintContract** says of a whole stream what the answer is;
it uses the verdict of `StreamContract`.

**DependabotMerge** is the two workflows over one pull request. A head is its
number, its bump, its golden URIs (as on the base, as computed, or edited by
hand), whether the other generated files are the bump's, and its author. A push
resets `CI` and is an event for each workflow, which cancels a run in progress
when it arrives. Each command of a run that asks GitHub something, or tells it
something, is an action: what was read is kept in `run` and used later, when it
may be stale. `Enable` and `Disable` are the composite action. Assumed of GitHub
and the repository: the branch's base is `master` and its ruleset does not change
meanwhile; `CI` is a function of the head; a push by the workflow runs `CI` (the
token, or an approval); a merged pull request is not touched again. `major` is
the highest bump and fixed. `calm` marks the pull requests that no person pushes
to and whose regeneration does not fail; the two properties that need that say so.

**CiWorkflow** is a run of `ci.yaml`. `result` is of each job; a job starts when
what it needs is over, is skipped by its condition, fails or is cancelled within
`MaxFaults`, and `RerunFailed` starts again what failed and what waits on it. The
release is step by step, because an attempt may stop between two files and what
is on PyPI stays. A file on PyPI is its name and its version: a tree that does not
hold the tag's version builds files of another (`Built`), of which some may be out
before the run, and `Upload` would publish what it is given. Only
`RefuseOtherVersions` keeps them back.

Beside some definitions stands one whose name holds `_bug`: a mistake the code
could have had. No specification uses it. Each property has one that breaks it
under the configuration of its run, which shows what the property is sensitive to. The
list names one for each; `RefuseOtherVersions_bug` breaks `PublishesOnlyWhatPassed` as
well as `GreenIsPublished`.

## The runs

| Run | Bounds | What it shows |
|---|---|---|
| `generator` | 3 chunks to a window, rings of 16, 55 bins of which 13 are judged, lags 6 and 9, 0, 5 and 20 chunks; up to three spectra for a window | every combination of rising, tying and adjacent tones, past a lap of the rings; every bin offset of the source. The source's ring sizes and lags are covered by the proofs, which are for all |
| `packets` | two tracks, two specs, eleven kinds of event, up to four events, five openings | four events are a decoded packet, a reset, a short packet and what follows it, the longest interaction the code has; buffers that shrink and grow |
| `empty_stream` | the same, up to two events | a violation, see Findings |
| `resampling` | chunks of 4, warm-up 3, ratio 3:8, pieces of 0 to 9, clips to 21 frames | lengths below, at and above whole chunks, in all partitions; a warm-up longer than one call's output |
| `encoding` | one or two bands of one to three peaks; distances 0, 1, 254, 255, 256 and more | both sides of the escape; bands of 5, 10, 15 and 20 bytes, so every padding |
| `opus` | packets of 1 to 4 frames, up to 9 in all; header and container counts of 0 to 6; header lengths around 19, 22, 29 and 276 | warm-up over several packets, meeting padding, named by either side or both, equal or not |
| `segment` | the source's rate in words of 24 and 25 bits; every length of up to twelve seconds, those around each word's end and those around 1024 seconds; durations of 1, 12 and 2200 seconds | the product passes both widths, as 268436 seconds do in the source; the lengths are every one of the default segment and the end of the range in which the duration is right |
| `calls` | 2 calls, 1 thread, a duration of 5 and the invalid 0, one rewrite of the file, after which the work panics | safety and liveness over all interleavings; a file rewritten between the call and its opening, while it is read, and after |
| `job` | streams of up to three events over packets shorter and longer than a chunk, a second in four frames, passes of 3000 samples, rings of 8, segments of 1, 2 and 3 seconds | every early end, an empty clip, a segment that is a part of the clip; two tones in two bands over more passes than the ring holds. Deadlock is checked |
| `dependabot` | every kind of branch, every bump, three hand edits, up to four heads | a head of each author after each other one, two pushes during one run |
| `ci` | five checks, two of them build files; four groups of paths; two faults, re-runs without a bound | a fault in a first attempt and one in the second; skipped beside failed; every set of files of another version on PyPI beforehand |
| `hanning` | the source's sizes | all 2048 entries to their last digit, all 128 samples of a chunk from all 16 chunks |

Except in `job` the system may stop (a segment, a stream and a clip end, the
program need not call, a pull request waits for a person), so deadlock is not
checked; progress is checked where it is promised, by `KeepsContract`,
`FinishReturns`, `CallsEnd`, `GoodBumpLands`, `GateReports` and
`RetriedReleaseEnds`. `job` has an explicit stutter once it has answered, so a
deadlock would be a loop of one part waiting for another; and no step of it is
undone. Two calls are enough in `calls` because a call shares only the
recognizer, the pool and the loop with others, and one of them can hold each of
these while the other waits. With one thread the pool is full at once.

**Fairness.** `MonoDecoder`: weak fairness of the next step, since one thread
runs the loop and a reader answers. `Resampling`: weak fairness of the steps
inside a call, not of `Push` and `Finish`: a caller may stop. `Recognizer`: weak
fairness of the loop's callbacks (asyncio runs them in order), of each task
(tokio polls what was woken) and of the pool as a whole (a free thread takes a
queued job, and work ends because decoding does). Nothing makes the program
call, cancel or close. `DependabotMerge`: weak fairness of `CI`, of GitHub
landing what is queued and passed, and of the steps of each workflow, whose
events arrive; nobody need push, so `GoodBumpLands` speaks of branches that
settle. `CiWorkflow`: weak fairness of the jobs; nothing makes anybody cancel or
re-run, so that somebody keeps re-running is the hypothesis of
`RetriedReleaseEnds` and not part of `Spec`. The other modules state no liveness:
they are loops over a finite input.

## Findings

* `empty_stream`: the comment at `decode.rs:205-207` says a stream that decodes
  to nothing is an error there. The code refuses a stream with no packet of the
  track; one whose packets decode to no frames, such as an Opus stream shorter
  than its pre-skip, is accepted and gives a signature of nothing.

Two things beside it. The comment at `communication.rs:55-56` calls `samples` the
quotient truncated to whole milliseconds; in f32, 4016 samples (251 ms) come out
as 250. `ShortByOneAtMost` says that this is all that can happen up to 1024
seconds, the longest segment for which it holds: one millisecond less, and only at a
whole number of them. Of 16384015 samples, a sixteenth of a millisecond short of
1024001, the code reports 1024001: an f32 of milliseconds has no more than
sixteenths there. And
`dependabot-auto-merge.yaml:45-46` has a moved golden URI wait for a person on any
bump, which holds of what the bots push (`BotsMoveNoUri`, `RegeneratedUriWaits`)
but not of a person's own push to a branch that is already queued: on a cargo
branch nothing reads the queue again.

## The proofs

`SignatureGeneratorProofs` proves five of the generator's properties for every
ring size, lag, offset, number of bins and every transform, from the module's
assumptions: offsets and lags below the ring's size, judged bins with their
neighbours inside a spectrum, the lag between the two spectra compared being one
of the spreading offsets (49 - 46 = 3), a threshold above the zero level and a
monotone magnitude. The properties are not inductive. `IInv` adds that the two
rings are in step, that the sample ring read from its index is the window, and
that while a pass is recognised no chunk is between two of its steps; the exact
content of every spread row is then inductive (`WrapBack` says how ages shift by
one each pass, the rest is maxima). The assertion and the local maxima follow
from it: the row read beside the judged spectrum holds that spectrum spread over
its own bin and two above (`SpreadBesideJudged`), so exceeding it at
`b - 1` and at the eight offsets exceeds every bin within ten.

The second half of the module follows the lists of peaks, for spectra whose corrected bins
fit a u16 (`BinsFit`: 64 * 1014 + 32 does). `PInv` adds to `IInv` that the latest
peak of a band is of a pass before the judged one, or of the same pass and a bin
this recognition is done with; that its corrected bin was moved by half a bin at
most (`CorrectionIsSmall`: the parabola through a maximum); and that the index of
the ring is the number of passes made, masked. Two peaks of one pass are more than
`PeakReach` bins apart, since otherwise each would stand above the other
(`PeaksStandApart`), which leaves `PeakReach` bins between them once each has
moved. A slot that `do_fft` overwrites is of a pass a lap old (`SlotOfPass`).

`ResamplingProofs` proves both safety properties for chunks and pieces of any
size, any warm-up and any resampler whose output only grows with its calls
(`OutputGrows`). The invariant says in each phase which calls were made, and keeps
an account of the warm-up: what was trimmed and what is left to trim are
`OutputDelay`, and nothing is kept while something is left to trim.

`OpusDecoderProofs` proves type correctness, that the header is not read past
its end and that frames are dropped once, for every stream, header and packet
size. The invariant adds that the second half of the parser is reached only with
a header of 19 bytes, and that what is left to skip is the header's count less
all that was decoded, whatever the container made earlier packets drop.

`PacketDecoderProofs` proves both safety properties and `ReadsByTheContract`, for
every set of streams and whatever the libraries answer. The contract looks at the
stream as a whole, the code at one event at a time, so the invariant says of the
events read so far what the contract says of all: none of them ends or refuses the
stream (`NoneRefused`), the decoder in force is of the link they lead to, a short
packet among them is the last of the selected track, and exactly the decoded ones
were delivered, in order. `EveryChunkInOrder` states the last part on its own: while
the reading goes on, what was delivered is what was wanted of the events read so far,
once each. Where the contract takes the first of something
(`CHOOSE`), a least position exists because the naturals are well-founded
(`LeastPosition`); that the resets before a position number the link is counting
(`OneMoreReset`, `Enumeration`). The two assumptions on this are that `None` is
no value an `Option` could hold and that the answers of a reader form a sequence.
That the decoder does come to a verdict is fairness, and stays with the run.

The module extends `MonoDecoder`, whose steps are steps of `PacketDecoder`
(`MonoIsNext`), and proves that each chunk comes with the mix of its own packet, for
any number of channels and frames (`EveryChunkIsItsPacket`). The invariant it adds is
that the frames which lie in wait for the first call are those of the packet `new`
decoded early (`FirstIsAverage`). The loop that mixes is a recursive function; after
`k` samples the frames below `k \div count` are whole, that one holds `k % count`
samples and the rest none (`After`, `OneHeard`), and as in `SignatureProofs` the
recursion is shown to agree with that closed form. It assumes that what a decoder
hands over has at least one channel (`ChannelsAssumption`): the code divides by their
number.

`SignatureProofs` is about what becomes of a clip once it is decoded. It extends
`SignatureDuration` and `SignatureFormat`, so what `Segment` shares a scope with
there has names of its own (`cut`, `CutSpec`, `JobSpec`).

* The cut (`CutInvariance`): the properties of `Segment` for words of any width, any
  even rate and any clip. That the declared length is exact needs only the duration
  asked for and the padding to fit the word, not the clip.
* The reported duration (`ReportedShortByOneAtMost`), at the source's rate of 16000,
  on which the two factors of 125 rest. For 1 to 16384000 samples a power of two of
  at least 64 brings the count to the 31 bits of a product (`TheExponent`); the two
  roundings together move that by 126 at most (`NearlyAll`), less than the power,
  so the whole part is the count or one less (`WholesOf`); a power of 64 leaves
  only 16384000, which is exact.
* The encoder (`EncodesInv`), for any signatures of a rate the format numbers whose
  passes do not go back (`SignaturesAssumption`, which `PeaksInOrder` is proved to
  provide): its assertion and its lookup of the rate never fail
  (`EncoderNeverPanics`), and the three words written last are the only ones of the
  file they disturb, so the header is right (`HeaderOfFile`) for files whose size a
  word can say (`FileFits`: below 4 GiB; the code casts the length to `u32`). The
  count of samples, which is written before the peaks and never again, is still in
  its word at the end (`HeaderDeclaresSamples`).
* The reader (`SignatureReadsBack`), for peaks of the types of their fields
  (`PeaksTyped`: a pass of 32 bits, a magnitude and a bin of 16) and files that fit.
  `ReadsInv` says what a reader has read so far: of the content of a band the peaks
  written of it, of the file the bands written, and that the bands still ahead come
  in ascending order. An entry of five bytes, or an escape and an entry, adds one
  peak (`OneEntryMore`, `PeakEntries`), a band with its padding one band
  (`BandRead`), and the words blank until the end lie before the first band, so
  completing them changes nothing that is read (`BandsReadAlike`). The reader's
  recursive functions are unique choices that the provers do not see into; that
  each exists and agrees with any step-by-step reading is `PeaksReadOut` and
  `BandsReadOut`, by the least point where the two could differ.

`FingerprintJobProofs` is about one call, from the clip to the answer:

* The job (`JobInv`): it conjoins the parts' own invariants with the facts that cross
  their boundaries. The frames pushed into the resampler are the sum of those of the
  chunks; the clip is as long as the resampler promises for them; the generator never
  takes more chunks than the clip has; the lists the generator leaves are in the
  order the encoder asserts. Lemmas named `Same...` identify the job's instances of
  the parts with those the proofs of the parts are about.
* `JobKeepsContract` maps each step to `Decide` of `FingerprintContract` or to a
  stutter. Only four steps answer. The sum of frames, which the contract defines by a
  recursive function, is unique because two such sums cannot first differ
  (`FramesAreSummed`); a refusal for the rate needs the first chunk to be the first
  position of the contract's verdict (`FirstPacket`).

* `AnswerTellsSegment`: the file of an answer is about the segment it was cut from.
  That takes every part: the encoder's proofs say that the file reads back as the
  signature it was given (`EncoderReads`); `Told` says which signature that was, the
  one made of the generator's lists after its last chunk; and a peak's pass is one
  the generator had judged, so at least `JudgedLag` chunks before the segment's
  whole chunks ran out (`PassInSegment`). Besides `FileFits` it needs what a u32
  counts (`CountFits`: the segment and its padding) and the fields' widths
  (`FieldsFit`: the magnitude of a level is below 2^16, as the cast at
  `algorithm.rs:306` takes for granted, and the clip's length is a word's).

The hypotheses are `OutputGrows` and `BinsFit` from above (`Sizes`). The module's
assumptions are those of the parts; that a packet has a natural number of frames;
that what is resampled is held in memory, so that its length is a `usize`; and that
16 kHz is a rate the format has a number for. The samples that the contract promises
are cast to a `u32` as the code casts them.

`WorkflowProofs` is about the two models of the repository's workflows, which share
nothing. Of `DependabotMerge` it proves five properties for any number of heads. `IInv` is
about what a run may still act on: the tree it checked out is no newer than the
head, and is the head if that is the workflow's; what it has read of the diff
counts only if the branch has not moved since, because otherwise `git push` is
refused; and on a branch of the regeneration images only this run queues, so at
the push of a moved URI the queue is empty. While only the bots push, a URI is
moved by nothing but a run's own commit (`OnlyTheRunMoves`), from which
`BotsMoveNoUri` follows. A major bump is proved never to be
queued (`MajorIsHeld`), which implies that it never lands.

Of `CiWorkflow` it proves the three safety properties for any checks, filters,
faults and re-runs. The invariant says why a job can be skipped (its paths, or a
filter that failed), that a verdict of the gate is of the results as they are
(a re-run resets both), and that an attempt to release goes on only while what it
waited for stands, with all it counts as uploaded on PyPI; that it goes on to the
upload only on the tag's version is part of it (`Releasing`), from which
`PublishesChecked` follows. `fixtures` is not among the needs of `release`, and so
not among the checks that theorem speaks of.

`RecognizerProofs` proves that the bridge implements the safety part of
`CallContract` for any calls, pool, durations and contents: each step maps to one
of the contract or to a stutter. Only `RunCompletion` answers, and all it holds is
a callback, so `IInv` follows what the call captured until then: a job that is not
"none" has its call's duration, one that was started read the bytes that were
handed over, or opened a version of the file between the call's and the present one
and read from there to no later than the present, and whatever is posted, or about to be, is of a job that is done.

Only model-checked:

* every liveness property, and with it the liveness half of `CallContract` and
  `StreamContract`;
* `HanningWindow`, which is about one table: its run reaches every entry.

## Not modelled

* The codecs, demuxers, libopus, rubato and the FFT are libraries: what they may
  answer is an input of the models. rubato may return an error from a call
  (`resample.rs:109-116`), for buffers or masks that do not fit the call; the buffers
  are made for the calls here and no mask is given, so `resample_chunk` is modelled
  without that exit. `FingerprintJob` starts from a stream that is there: a path that
  names no file is an error of the call before it, which `Recognizer` has as `Work`.
* What a header declares when its sum wraps, for a duration asked for within 0.24
  seconds of the word: `DeclaredSamples` wraps as the code does, but nothing says
  what would be right, and `DeclaresItsLength` is about every other duration.
* `encode_to_uri`'s base64, the timestamp, the response record, logging and the
  wording of errors carry no state. `OpusDecoder::reset` is called by nothing in
  the repository.
* What the checks of `ci.yaml` run, the images, wheels and packaging scripts are
  I/O around the crate, and so is the job of the `dev` branch, where nothing merges
  by itself. GitHub, PyPI and Dependabot are modelled by what the workflows rely on.
* Module exports and type stubs are declarations.
