------------------------------- MODULE Resampling -------------------------------
(***************************************************************************)
(* src/src/fingerprinting/resample.rs: a mono stream of pieces of any size *)
(* is resampled a chunk at a time, and the result has to be the one the    *)
(* resampler gives for the whole clip at once.                             *)
(*                                                                         *)
(* Input frames and the resampler's output frames are numbered from 0 in   *)
(* the order they come, and what the resampler is given in one call is the *)
(* number of the first frame and how many of them are sound.  rubato is    *)
(* outside the repository: the n-th call, whatever it is given, takes a    *)
(* chunk of input, silence where there is no sound left, and brings the    *)
(* output frames made to `OutputAfter(n)`.  Equal calls make equal frames, *)
(* so two runs agree when their calls and the frames they keep do.         *)
(*                                                                         *)
(* An operator whose name holds "_bug" is a mistake this code could have   *)
(* had; it stands beside the definition it would replace and is used by no *)
(* other definition.                                                       *)
(***************************************************************************)
EXTENDS Integers, Sequences

CONSTANTS
  CHUNK_FRAMES,    \* input frames of one call: 1024
  OutputDelay,     \* output frames that are the filter's warm-up
  OutputAfter(_),  \* output frames made by that many calls
  Expected(_),     \* output frames of a clip: the ratio times its length, up
  PieceSizes,      \* frames one packet may decode to, 0 among them
  MaxFrames        \* bound on the frames of a clip

ASSUME SizesAssumption ==
  /\ CHUNK_FRAMES \in Nat \ {0}
  /\ OutputDelay \in Nat
  /\ PieceSizes \subseteq Nat
  /\ MaxFrames \in Nat

\* An empty clip has no output, any other has some.
ASSUME ExpectedAssumption ==
  \A frames \in 0 .. MaxFrames :
    Expected(frames) \in Nat /\ (Expected(frames) = 0 <=> frames = 0)

VARIABLES
  staged_frames,      \* how many of the last input frames wait for a chunk
  input_frame_count,
  calls,              \* what each call of the resampler was given
  frames_to_trim,
  output,             \* numbers of the output frames kept: from, up to
  output_frame_count, \* what `finish` works towards
  pc                  \* "idle", "pushing", "finishing", "flushing" or "done"

vars == <<staged_frames, input_frame_count, calls, frames_to_trim, output,
          output_frame_count, pc>>

Min(a, b) == IF a <= b THEN a ELSE b

Init ==
  /\ staged_frames = 0
  /\ input_frame_count = 0
  /\ calls = <<>>
  /\ frames_to_trim = OutputDelay
  /\ output = [from |-> 0, upto |-> 0]
  /\ output_frame_count = 0
  /\ pc = "idle"

\* resample_chunk and the trim_startup_delay it ends with: the frames made are
\* appended, and what is still warm-up is drained from the front.
ResampleChunk_bug(sound) ==
  LET made == OutputAfter(Len(calls) + 1)
  IN  /\ calls' = Append(calls, [from |-> input_frame_count - staged_frames, sound |-> sound])
      /\ output' = [from |-> Min(output.from + frames_to_trim, made), upto |-> made]
      /\ frames_to_trim' = 0
ResampleChunk_bug_silence(sound) ==
  LET made == OutputAfter(Len(calls) + 1)
      trimmed == Min(frames_to_trim, made - output.from)
  IN  IF sound = 0 THEN UNCHANGED <<calls, output, frames_to_trim>>
      ELSE /\ calls' = Append(calls, [from |-> input_frame_count - staged_frames, sound |-> sound])
           /\ output' = [from |-> output.from + trimmed, upto |-> made]
           /\ frames_to_trim' = frames_to_trim - trimmed
ResampleChunk(sound) ==
  LET made == OutputAfter(Len(calls) + 1)
      trimmed == Min(frames_to_trim, made - output.from)
  IN  /\ calls' = Append(calls, [from |-> input_frame_count - staged_frames, sound |-> sound])
      /\ output' = [from |-> output.from + trimmed, upto |-> made]
      /\ frames_to_trim' = frames_to_trim - trimmed

\* push: the piece is staged, then every chunk that is not the last goes.
Push(size) ==
  /\ pc = "idle"
  /\ input_frame_count + size <= MaxFrames
  /\ staged_frames' = staged_frames + size
  /\ input_frame_count' = input_frame_count + size
  /\ pc' = "pushing"
  /\ UNCHANGED <<calls, frames_to_trim, output, output_frame_count>>

\* Strictly more than a chunk: a whole one may be all that is left to finish.
ChunkIsDue_bug == staged_frames >= CHUNK_FRAMES
ChunkIsDue == staged_frames > CHUNK_FRAMES

ResampleWhole_bug ==
  /\ pc = "pushing"
  /\ ChunkIsDue
  /\ ResampleChunk(CHUNK_FRAMES)
  /\ staged_frames' = staged_frames - CHUNK_FRAMES
  /\ pc' = "idle"
  /\ UNCHANGED <<input_frame_count, output_frame_count>>
ResampleWhole ==
  /\ pc = "pushing"
  /\ ChunkIsDue
  /\ ResampleChunk(CHUNK_FRAMES)
  /\ staged_frames' = staged_frames - CHUNK_FRAMES
  /\ UNCHANGED <<input_frame_count, output_frame_count, pc>>

PushReturns ==
  /\ pc = "pushing"
  /\ ~ChunkIsDue
  /\ pc' = "idle"
  /\ UNCHANGED <<staged_frames, input_frame_count, calls, frames_to_trim, output,
                 output_frame_count>>

\* finish: its length is settled, what is staged goes as a partial chunk, ...
Finish ==
  /\ pc = "idle"
  /\ output_frame_count' = Expected(input_frame_count)
  /\ pc' = "finishing"
  /\ UNCHANGED <<staged_frames, input_frame_count, calls, frames_to_trim, output>>

ResamplePartial ==
  /\ pc = "finishing"
  /\ IF staged_frames > 0 THEN ResampleChunk(staged_frames)
     ELSE UNCHANGED <<calls, output, frames_to_trim>>
  /\ staged_frames' = 0
  /\ pc' = "flushing"
  /\ UNCHANGED <<input_frame_count, output_frame_count>>

OutputIsShort == output.upto - output.from < output_frame_count

\* ... silence is pumped in until the output is long enough, ...
Flush ==
  /\ pc = "flushing"
  /\ OutputIsShort
  /\ ResampleChunk(0)
  /\ UNCHANGED <<staged_frames, input_frame_count, output_frame_count, pc>>

\* ... and truncated.
Truncate ==
  /\ pc = "flushing"
  /\ ~OutputIsShort
  /\ output' = [output EXCEPT !.upto = output.from + output_frame_count]
  /\ pc' = "done"
  /\ UNCHANGED <<staged_frames, input_frame_count, calls, frames_to_trim,
                 output_frame_count>>

Next ==
  \/ \E size \in PieceSizes : Push(size)
  \/ ResampleWhole
  \/ PushReturns
  \/ Finish
  \/ ResamplePartial
  \/ Flush
  \/ Truncate

\* The caller may push for ever, but each call of its own returns.
Spec ==
  /\ Init /\ [][Next]_vars
  /\ WF_vars(ResampleWhole \/ PushReturns \/ ResamplePartial \/ Flush \/ Truncate)

-------------------------------------------------------------------------------
\* Between two pieces the calls made are whole chunks of consecutive frames and
\* what they leave staged is never empty once there was a frame, so that
\* `finish` has a last chunk to pad: neither depends on how the stream was cut.
ChunksAreWhole ==
  pc = "idle" =>
    /\ \A k \in DOMAIN calls :
         calls[k] = [from |-> (k - 1) * CHUNK_FRAMES, sound |-> CHUNK_FRAMES]
    /\ Len(calls) * CHUNK_FRAMES + staged_frames = input_frame_count
    /\ input_frame_count > 0 => staged_frames \in 1 .. CHUNK_FRAMES

\* The calls one call over the whole clip makes: whole chunks while more than
\* one is left, the rest, and silence as long as it takes.
WholeChunks(frames) == (frames - 1) \div CHUNK_FRAMES
WholeClipCall(frames, k) ==
  CASE k <= WholeChunks(frames) ->
         [from |-> (k - 1) * CHUNK_FRAMES, sound |-> CHUNK_FRAMES]
    [] k = WholeChunks(frames) + 1 ->
         [from |-> (k - 1) * CHUNK_FRAMES, sound |-> frames - (k - 1) * CHUNK_FRAMES]
    [] OTHER -> [from |-> frames, sound |-> 0]

\* The stream comes out as the whole clip would: the same calls, no more of
\* them than the length needs, and of the frames they make the ones after the
\* warm-up, as many as the ratio says.  The doc comment of `Resampling` claims it.
SameAsWholeClip ==
  pc = "done" =>
    /\ \A k \in DOMAIN calls : calls[k] = WholeClipCall(input_frame_count, k)
    /\ output.upto - output.from = Expected(input_frame_count)
    /\ input_frame_count > 0 =>
         /\ output.from = OutputDelay
         /\ Len(calls) > WholeChunks(input_frame_count)
         /\ Len(calls) > WholeChunks(input_frame_count) + 1 =>
              OutputAfter(Len(calls) - 1) < OutputDelay + Expected(input_frame_count)

\* `finish` returns: every chunk of silence brings the output on, so that the
\* loop comes to its length however much of it is still warm-up.
FinishReturns == pc = "finishing" ~> pc = "done"
===============================================================================
