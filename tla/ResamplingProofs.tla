----------------------------- MODULE ResamplingProofs -----------------------------
(***************************************************************************)
(* That a stream is resampled as the whole clip would be, for chunks and   *)
(* pieces of any size, a warm-up of any length and any resampler whose     *)
(* output only grows.  The invariant says of each phase what the calls so  *)
(* far are calls of, and keeps the warm-up's account through all of them:  *)
(* what was trimmed and what is still to trim are the warm-up, and nothing *)
(* is kept while there is something left to trim.                          *)
(***************************************************************************)
EXTENDS Resampling, TLAPS

\* rubato never takes back a frame it made.
OutputGrows ==
  \A n \in Nat : OutputAfter(n) \in Nat /\ OutputAfter(n) <= OutputAfter(n + 1)

Call == [from : Nat, sound : Nat]
Phases == {"idle", "pushing", "finishing", "flushing", "done"}

Typed ==
  /\ staged_frames \in Nat
  /\ input_frame_count \in 0 .. MaxFrames
  /\ calls \in Seq(Call)
  /\ frames_to_trim \in Nat
  /\ output \in [from : Nat, upto : Nat]
  /\ output_frame_count \in Nat
  /\ pc \in Phases

Made == IF calls = <<>> THEN 0 ELSE OutputAfter(Len(calls))

\* The account of the warm-up.
Trimmed ==
  /\ output.from + frames_to_trim = OutputDelay
  /\ pc # "done" => /\ output.upto = Made /\ output.from <= output.upto
                    /\ frames_to_trim > 0 => output.from = output.upto

\* Before the last chunk all calls are whole ones, and a frame is staged.
Staging ==
  pc \in {"idle", "pushing", "finishing"} =>
    /\ \A k \in DOMAIN calls :
         calls[k] = [from |-> (k - 1) * CHUNK_FRAMES, sound |-> CHUNK_FRAMES]
    /\ Len(calls) * CHUNK_FRAMES + staged_frames = input_frame_count
    /\ input_frame_count > 0 => staged_frames > 0
    /\ input_frame_count = 0 => calls = <<>>
    /\ pc # "pushing" => staged_frames <= CHUNK_FRAMES
    /\ pc = "finishing" => output_frame_count = Expected(input_frame_count)

\* From it on they are the whole clip's, and no more than its length needs.
NoMoreThanNeeded ==
  LET whole == WholeChunks(input_frame_count)
  IN  /\ Len(calls) > whole
      /\ Len(calls) > whole + 1 =>
           OutputAfter(Len(calls) - 1) < OutputDelay + Expected(input_frame_count)

Flushing ==
  pc \in {"flushing", "done"} =>
    /\ \A k \in DOMAIN calls : calls[k] = WholeClipCall(input_frame_count, k)
    /\ output_frame_count = Expected(input_frame_count)
    /\ input_frame_count > 0 => NoMoreThanNeeded
    /\ input_frame_count = 0 => calls = <<>>
    /\ pc = "flushing" => staged_frames = 0
    /\ pc = "done" => /\ output.upto - output.from = Expected(input_frame_count)
                      /\ input_frame_count > 0 => output.from = OutputDelay

IInv == Typed /\ Trimmed /\ Staging /\ Flushing

-------------------------------------------------------------------------------
\* What is not a whole number of chunks leaves as many whole ones.
LEMMA WholeChunksOf ==
  ASSUME NEW n \in Nat, NEW rest \in 1 .. CHUNK_FRAMES
  PROVE  WholeChunks(n * CHUNK_FRAMES + rest) = n
  <1>1. \A c \in Nat \ {0}, r \in Nat : r < c => (n * c + r) \div c = n
    OBVIOUS
  <1>2. CHUNK_FRAMES \in Nat \ {0} /\ rest - 1 \in Nat /\ rest - 1 < CHUNK_FRAMES
    BY SizesAssumption
  <1>3. n * CHUNK_FRAMES \in Nat
    BY <1>2
  <1>4. n * CHUNK_FRAMES + rest - 1 = n * CHUNK_FRAMES + (rest - 1)
    BY <1>2, <1>3
  <1> QED
    BY <1>1, <1>2, <1>4 DEF WholeChunks

\* A call of the resampler lengthens the list and keeps the account.
LEMMA ResampleChunkKeeps ==
  ASSUME OutputGrows, Typed, Trimmed, pc # "done", pc' # "done",
         NEW sound \in Nat, ResampleChunk(sound), input_frame_count - staged_frames \in Nat
  PROVE  /\ calls' = Append(calls, [from |-> input_frame_count - staged_frames, sound |-> sound])
         /\ calls' \in Seq(Call) /\ frames_to_trim' \in Nat
         /\ output' \in [from : Nat, upto : Nat]
         /\ Trimmed'
  <1> DEFINE made == OutputAfter(Len(calls) + 1)
             trimmed == Min(frames_to_trim, made - output.from)
  <1>1. /\ calls' = Append(calls, [from |-> input_frame_count - staged_frames, sound |-> sound])
        /\ output' = [from |-> output.from + trimmed, upto |-> made]
        /\ frames_to_trim' = frames_to_trim - trimmed
    BY DEF ResampleChunk
  <1>2. calls' \in Seq(Call) /\ calls' # <<>> /\ Len(calls') = Len(calls) + 1
    BY <1>1 DEF Typed, Call
  <1>3. made \in Nat /\ Made <= made
    <2>1. Len(calls) \in Nat /\ Len(calls) + 1 \in Nat
      BY DEF Typed
    <2>2. made \in Nat /\ OutputAfter(Len(calls)) <= made
      BY <2>1 DEF OutputGrows
    <2>3. 0 <= made
      BY <2>2
    <2> QED
      BY <2>2, <2>3 DEF Made
  <1>4. Made' = made
    BY <1>2 DEF Made
  <1>5. /\ output.from \in Nat /\ output.upto \in Nat /\ frames_to_trim \in Nat
        /\ output.from <= made
    BY <1>3 DEF Typed, Trimmed
  <1> HIDE DEF made
  <1>6. trimmed \in 0 .. frames_to_trim /\ output.from + trimmed <= made
        /\ (frames_to_trim - trimmed > 0 => output.from + trimmed = made)
    BY <1>3, <1>5 DEF Min
  <1> HIDE DEF trimmed
  <1>7. frames_to_trim' \in Nat /\ output' \in [from : Nat, upto : Nat]
    BY <1>1, <1>3, <1>5, <1>6
  <1>8. output.from + frames_to_trim = OutputDelay
    BY DEF Trimmed
  <1>9. Trimmed'
    <2>1. output'.from = output.from + trimmed /\ output'.upto = made
      BY <1>1
    <2>2. output'.from + frames_to_trim' = OutputDelay
      BY <1>1, <1>5, <1>6, <1>8, <2>1, SizesAssumption
    <2> QED
      BY <1>1, <1>4, <1>6, <2>1, <2>2 DEF Trimmed
  <1> QED
    BY <1>1, <1>2, <1>7, <1>9

LEMMA InitInv == Init => IInv
  <1> SUFFICES ASSUME Init PROVE IInv
    OBVIOUS
  <1>1. Typed /\ Trimmed /\ Flushing
    BY SizesAssumption DEF Init, Typed, Trimmed, Flushing, Made, Phases
  <1>2. Staging
    BY SizesAssumption DEF Init, Staging
  <1> QED
    BY <1>1, <1>2 DEF IInv

LEMMA PushKeeps ==
  ASSUME IInv, NEW size \in PieceSizes, Push(size)
  PROVE  IInv'
  <1>1. /\ staged_frames' = staged_frames + size
        /\ input_frame_count' = input_frame_count + size
        /\ input_frame_count + size <= MaxFrames
        /\ pc = "idle" /\ pc' = "pushing"
        /\ UNCHANGED <<calls, frames_to_trim, output, output_frame_count>>
    BY DEF Push
  <1>2. size \in Nat /\ CHUNK_FRAMES \in Nat \ {0} /\ MaxFrames \in Nat
    BY SizesAssumption
  <1>3. Typed'
    BY <1>1, <1>2 DEF IInv, Typed, Phases
  <1>4. Trimmed'
    BY <1>1 DEF IInv, Trimmed, Made
  <1>5. Staging'
    <2>1. Len(calls) * CHUNK_FRAMES \in Nat /\ staged_frames \in Nat /\ input_frame_count \in Nat
      BY <1>2 DEF IInv, Typed
    <2>2. Len(calls) * CHUNK_FRAMES + staged_frames = input_frame_count
      BY <1>1 DEF IInv, Staging
    <2>3. Len(calls') * CHUNK_FRAMES + staged_frames' = input_frame_count'
      BY <1>1, <1>2, <2>1, <2>2
    <2>4. \A k \in DOMAIN calls' :
            calls'[k] = [from |-> (k - 1) * CHUNK_FRAMES, sound |-> CHUNK_FRAMES]
      BY <1>1 DEF IInv, Staging
    <2>5. /\ input_frame_count' > 0 => staged_frames' > 0
          /\ input_frame_count' = 0 => calls' = <<>>
      BY <1>1, <1>2, <2>1 DEF IInv, Staging
    <2> QED
      BY <1>1, <2>3, <2>4, <2>5 DEF Staging
  <1>6. Flushing'
    BY <1>1 DEF Flushing
  <1> QED
    BY <1>3, <1>4, <1>5, <1>6 DEF IInv

LEMMA WholeKeeps ==
  ASSUME OutputGrows, IInv, ResampleWhole
  PROVE  IInv'
  <1>1. /\ pc = "pushing" /\ pc' = "pushing"
        /\ staged_frames > CHUNK_FRAMES /\ ResampleChunk(CHUNK_FRAMES)
        /\ staged_frames' = staged_frames - CHUNK_FRAMES
        /\ UNCHANGED <<input_frame_count, output_frame_count>>
    BY DEF ResampleWhole, ChunkIsDue
  <1>2. CHUNK_FRAMES \in Nat \ {0} /\ staged_frames \in Nat /\ input_frame_count \in Nat
        /\ Len(calls) \in Nat
    BY SizesAssumption DEF IInv, Typed
  <1>3. Len(calls) * CHUNK_FRAMES \in Nat
    BY <1>2
  <1>4. input_frame_count - staged_frames = Len(calls) * CHUNK_FRAMES
    BY <1>1, <1>2, <1>3 DEF IInv, Staging
  <1>5. /\ calls' = Append(calls, [from |-> Len(calls) * CHUNK_FRAMES, sound |-> CHUNK_FRAMES])
        /\ calls' \in Seq(Call) /\ frames_to_trim' \in Nat
        /\ output' \in [from : Nat, upto : Nat]
        /\ Trimmed'
    BY <1>1, <1>2, <1>3, <1>4, ResampleChunkKeeps DEF IInv
  <1>6. Typed'
    BY <1>1, <1>2, <1>5 DEF IInv, Typed
  <1>7. Staging'
    <2>1. Len(calls') = Len(calls) + 1 /\ DOMAIN calls' = 1 .. Len(calls) + 1
      BY <1>5 DEF IInv, Typed
    <2>2. Len(calls') * CHUNK_FRAMES = Len(calls) * CHUNK_FRAMES + CHUNK_FRAMES
      BY <1>2, <2>1
    <2>3. ASSUME NEW k \in DOMAIN calls'
          PROVE  calls'[k] = [from |-> (k - 1) * CHUNK_FRAMES, sound |-> CHUNK_FRAMES]
      <3>1. CASE k \in DOMAIN calls
        BY <1>1, <1>5, <3>1 DEF IInv, Typed, Staging
      <3>2. CASE k = Len(calls) + 1
        BY <1>2, <1>5, <3>2 DEF IInv, Typed
      <3> QED
        BY <2>1, <3>1, <3>2 DEF IInv, Typed
    <2> QED
      BY <1>1, <1>2, <1>3, <1>4, <2>2, <2>3 DEF Staging
  <1>8. Flushing'
    BY <1>1 DEF Flushing
  <1> QED
    BY <1>5, <1>6, <1>7, <1>8 DEF IInv

LEMMA PushReturnsKeeps ==
  ASSUME IInv, PushReturns
  PROVE  IInv'
  <1>1. /\ pc = "pushing" /\ pc' = "idle" /\ ~(staged_frames > CHUNK_FRAMES)
        /\ UNCHANGED <<staged_frames, input_frame_count, calls, frames_to_trim, output,
                       output_frame_count>>
    BY DEF PushReturns, ChunkIsDue
  <1>2. CHUNK_FRAMES \in Nat
    BY SizesAssumption
  <1> QED
    BY <1>1, <1>2 DEF IInv, Typed, Trimmed, Staging, Flushing, Made, Phases

LEMMA FinishKeeps ==
  ASSUME IInv, Finish
  PROVE  IInv'
  <1>1. /\ pc = "idle" /\ pc' = "finishing"
        /\ output_frame_count' = Expected(input_frame_count)
        /\ UNCHANGED <<staged_frames, input_frame_count, calls, frames_to_trim, output>>
    BY DEF Finish
  <1>2. Expected(input_frame_count) \in Nat
    BY ExpectedAssumption DEF IInv, Typed
  <1> QED
    BY <1>1, <1>2 DEF IInv, Typed, Trimmed, Staging, Flushing, Made, Phases

LEMMA PartialKeeps ==
  ASSUME OutputGrows, IInv, ResamplePartial
  PROVE  IInv'
  <1>1. /\ pc = "finishing" /\ pc' = "flushing"
        /\ staged_frames' = 0
        /\ UNCHANGED <<input_frame_count, output_frame_count>>
        /\ IF staged_frames > 0 THEN ResampleChunk(staged_frames)
           ELSE UNCHANGED <<calls, output, frames_to_trim>>
    BY DEF ResamplePartial
  <1>2. CHUNK_FRAMES \in Nat \ {0} /\ staged_frames \in Nat /\ input_frame_count \in Nat
        /\ Len(calls) \in Nat /\ staged_frames <= CHUNK_FRAMES
        /\ output_frame_count = Expected(input_frame_count)
    BY <1>1, SizesAssumption DEF IInv, Typed, Staging
  <1>3. Len(calls) * CHUNK_FRAMES \in Nat
    BY <1>2
  <1>4. Len(calls) * CHUNK_FRAMES + staged_frames = input_frame_count
    BY <1>1 DEF IInv, Staging
  <1>5. CASE staged_frames = 0
    <2>1. UNCHANGED <<calls, output, frames_to_trim>> /\ input_frame_count = 0 /\ calls = <<>>
      BY <1>1, <1>2, <1>5 DEF IInv, Staging
    <2>2. Typed' /\ Trimmed' /\ Staging'
      BY <1>1, <2>1 DEF IInv, Typed, Trimmed, Staging, Made, Phases
    <2>3. Flushing'
      BY <1>1, <1>2, <2>1 DEF Flushing
    <2> QED
      BY <2>2, <2>3 DEF IInv
  <1>6. CASE staged_frames > 0
    <2>1. input_frame_count - staged_frames = Len(calls) * CHUNK_FRAMES
      BY <1>2, <1>3, <1>4
    <2>2. /\ calls' = Append(calls, [from |-> Len(calls) * CHUNK_FRAMES, sound |-> staged_frames])
          /\ calls' \in Seq(Call) /\ frames_to_trim' \in Nat
          /\ output' \in [from : Nat, upto : Nat]
          /\ Trimmed'
      BY <1>1, <1>2, <1>3, <1>6, <2>1, ResampleChunkKeeps DEF IInv
    <2>3. Typed'
      BY <1>1, <1>2, <2>2 DEF IInv, Typed, Phases
    <2>4. Staging'
      BY <1>1 DEF Staging
    <2>5. WholeChunks(input_frame_count) = Len(calls)
      BY <1>2, <1>4, <1>6, WholeChunksOf
    <2>6. Len(calls') = Len(calls) + 1 /\ DOMAIN calls' = 1 .. Len(calls) + 1
      BY <2>2 DEF IInv, Typed
    <2>7. ASSUME NEW k \in DOMAIN calls'
          PROVE  calls'[k] = WholeClipCall(input_frame_count, k)
      <3>1. CASE k \in DOMAIN calls
        <4>1. k <= WholeChunks(input_frame_count)
          BY <2>5, <3>1 DEF IInv, Typed
        <4>2. calls'[k] = calls[k]
          BY <2>2, <3>1 DEF IInv, Typed
        <4>3. calls[k] = [from |-> (k - 1) * CHUNK_FRAMES, sound |-> CHUNK_FRAMES]
          BY <1>1, <3>1 DEF IInv, Staging
        <4>4. k \in Nat /\ WholeChunks(input_frame_count) \in Nat
          BY <1>2, <2>5, <3>1 DEF IInv, Typed
        <4> QED
          BY <4>1, <4>2, <4>3, <4>4 DEF WholeClipCall
      <3>2. CASE k = Len(calls) + 1
        <4>1. calls'[k] = [from |-> Len(calls) * CHUNK_FRAMES, sound |-> staged_frames]
          BY <2>2, <3>2 DEF IInv, Typed
        <4>2. ~(k <= WholeChunks(input_frame_count)) /\ k - 1 = Len(calls)
              /\ k = WholeChunks(input_frame_count) + 1
          BY <1>2, <2>5, <3>2
        <4>3. input_frame_count - Len(calls) * CHUNK_FRAMES = staged_frames
          BY <1>2, <1>3, <1>4
        <4> QED
          BY <4>1, <4>2, <4>3 DEF WholeClipCall
      <3> QED
        BY <1>2, <2>6, <3>1, <3>2 DEF IInv, Typed
    <2>8. Flushing'
      <3>1. NoMoreThanNeeded'
        BY <1>1, <1>2, <2>5, <2>6 DEF NoMoreThanNeeded, WholeChunks
      <3>2. input_frame_count > 0
        BY <1>2, <1>3, <1>4, <1>6
      <3> QED
        BY <1>1, <1>2, <2>7, <3>1, <3>2 DEF Flushing
    <2> QED
      BY <2>2, <2>3, <2>4, <2>8 DEF IInv
  <1> QED
    BY <1>2, <1>5, <1>6

LEMMA FlushKeeps ==
  ASSUME OutputGrows, IInv, Flush
  PROVE  IInv'
  <1>1. /\ pc = "flushing" /\ pc' = "flushing"
        /\ output.upto - output.from < output_frame_count /\ ResampleChunk(0)
        /\ UNCHANGED <<staged_frames, input_frame_count, output_frame_count>>
    BY DEF Flush, OutputIsShort
  <1>2. /\ staged_frames = 0 /\ output_frame_count = Expected(input_frame_count)
        /\ input_frame_count \in Nat /\ Len(calls) \in Nat
        /\ Expected(input_frame_count) \in Nat
        /\ Expected(input_frame_count) = 0 <=> input_frame_count = 0
    BY <1>1, ExpectedAssumption DEF IInv, Flushing, Typed
  <1>3. output.from \in Nat /\ output.upto \in Nat /\ output.from <= output.upto
    BY <1>1 DEF IInv, Typed, Trimmed
  <1>4. input_frame_count > 0 /\ NoMoreThanNeeded
    BY <1>1, <1>2, <1>3 DEF IInv, Flushing
  <1>5. WholeChunks(input_frame_count) \in Nat
    <2>1. \A n \in Nat, c \in Nat \ {0} : n \div c \in Nat
      OBVIOUS
    <2> QED
      BY <1>2, <1>4, <2>1, SizesAssumption DEF WholeChunks
  <1>6. Len(calls) >= 1 /\ calls # <<>>
    BY <1>2, <1>4, <1>5 DEF NoMoreThanNeeded
  <1>7. OutputAfter(Len(calls)) < OutputDelay + Expected(input_frame_count)
    <2>1. output.upto = OutputAfter(Len(calls))
      BY <1>1, <1>6 DEF IInv, Trimmed, Made
    <2>2. output.from + frames_to_trim = OutputDelay /\ frames_to_trim \in Nat
      BY DEF IInv, Trimmed, Typed
    <2> QED
      BY <1>1, <1>2, <1>3, <2>1, <2>2
  <1>8. /\ calls' = Append(calls, [from |-> input_frame_count, sound |-> 0])
        /\ calls' \in Seq(Call) /\ frames_to_trim' \in Nat
        /\ output' \in [from : Nat, upto : Nat]
        /\ Trimmed'
    <2>1. input_frame_count - staged_frames = input_frame_count
      BY <1>2
    <2> QED
      BY <1>1, <1>2, <2>1, ResampleChunkKeeps DEF IInv
  <1>9. Typed'
    BY <1>1, <1>8 DEF IInv, Typed
  <1>10. Staging'
    BY <1>1 DEF Staging
  <1>11. Len(calls') = Len(calls) + 1 /\ DOMAIN calls' = 1 .. Len(calls) + 1
    BY <1>8 DEF IInv, Typed
  <1>12. ASSUME NEW k \in DOMAIN calls'
         PROVE  calls'[k] = WholeClipCall(input_frame_count, k)
    <2>1. CASE k \in DOMAIN calls
      BY <1>1, <1>8, <2>1 DEF IInv, Typed, Flushing
    <2>2. CASE k = Len(calls) + 1
      <3>1. calls'[k] = [from |-> input_frame_count, sound |-> 0]
        BY <1>8, <2>2 DEF IInv, Typed
      <3>2. ~(k <= WholeChunks(input_frame_count)) /\ k # WholeChunks(input_frame_count) + 1
        BY <1>2, <1>4, <1>5, <2>2 DEF NoMoreThanNeeded
      <3> QED
        BY <3>1, <3>2 DEF WholeClipCall
    <2> QED
      BY <1>2, <1>11, <2>1, <2>2 DEF IInv, Typed
  <1>13. Flushing'
    <2>1. NoMoreThanNeeded'
      BY <1>1, <1>2, <1>4, <1>5, <1>7, <1>11 DEF NoMoreThanNeeded, WholeChunks
    <2> QED
      BY <1>1, <1>2, <1>4, <1>12, <2>1 DEF Flushing
  <1> QED
    BY <1>8, <1>9, <1>10, <1>13 DEF IInv

LEMMA TruncateKeeps ==
  ASSUME IInv, Truncate
  PROVE  IInv'
  <1>1. /\ pc = "flushing" /\ pc' = "done"
        /\ ~(output.upto - output.from < output_frame_count)
        /\ output' = [output EXCEPT !.upto = output.from + output_frame_count]
        /\ UNCHANGED <<staged_frames, input_frame_count, calls, frames_to_trim,
                       output_frame_count>>
    BY DEF Truncate, OutputIsShort
  <1>2. /\ output_frame_count = Expected(input_frame_count)
        /\ input_frame_count \in Nat
        /\ Expected(input_frame_count) \in Nat
        /\ Expected(input_frame_count) = 0 <=> input_frame_count = 0
    BY <1>1, ExpectedAssumption DEF IInv, Flushing, Typed
  <1>3. output' = [from |-> output.from, upto |-> output.from + Expected(input_frame_count)]
        /\ output.from \in Nat /\ output.upto \in Nat
    BY <1>1, <1>2 DEF IInv, Typed
  <1>4. input_frame_count > 0 => output.from = OutputDelay
    <2>1. input_frame_count > 0 => output.from # output.upto
      BY <1>1, <1>2, <1>3
    <2> QED
      BY <1>1, <1>3, <2>1 DEF IInv, Typed, Trimmed
  <1>5. Typed'
    BY <1>1, <1>2, <1>3 DEF IInv, Typed, Phases
  <1>6. Trimmed' /\ Staging'
    BY <1>1, <1>3 DEF IInv, Trimmed, Staging
  <1>7. output'.upto - output'.from = Expected(input_frame_count)
    BY <1>2, <1>3
  <1>8. Flushing'
    <2>1. NoMoreThanNeeded => NoMoreThanNeeded'
      BY <1>1 DEF NoMoreThanNeeded, WholeChunks
    <2>2. \A k \in DOMAIN calls' : calls'[k] = WholeClipCall(input_frame_count', k)
      BY <1>1 DEF IInv, Flushing, WholeClipCall, WholeChunks
    <2> QED
      BY <1>1, <1>2, <1>3, <1>4, <1>7, <2>1, <2>2 DEF IInv, Flushing
  <1> QED
    BY <1>5, <1>6, <1>8 DEF IInv

LEMMA StutterKeeps ==
  ASSUME IInv, UNCHANGED vars
  PROVE  IInv'
  BY DEF vars, IInv, Typed, Trimmed, Staging, Flushing, Made, NoMoreThanNeeded, WholeClipCall,
         WholeChunks

LEMMA Invariance == OutputGrows => (Spec => []IInv)
  <1> SUFFICES ASSUME OutputGrows PROVE Spec => []IInv
    OBVIOUS
  <1>1. IInv /\ [Next]_vars => IInv'
    BY PushKeeps, WholeKeeps, PushReturnsKeeps, FinishKeeps, PartialKeeps, FlushKeeps,
       TruncateKeeps, StutterKeeps DEF Next
  <1> QED
    BY InitInv, <1>1, PTL DEF Spec

\* Between two pieces the calls made are whole chunks, for any pieces.
THEOREM WholeBetweenPieces == OutputGrows => (Spec => []ChunksAreWhole)
  <1> SUFFICES ASSUME OutputGrows PROVE Spec => []ChunksAreWhole
    OBVIOUS
  <1>1. IInv => ChunksAreWhole
    BY DEF IInv, Typed, Staging, ChunksAreWhole
  <1> QED
    BY Invariance, <1>1, PTL

\* `Resampling`'s promise: the stream comes out as the whole clip would.
THEOREM StreamIsClip == OutputGrows => (Spec => []SameAsWholeClip)
  <1> SUFFICES ASSUME OutputGrows PROVE Spec => []SameAsWholeClip
    OBVIOUS
  <1>1. IInv => SameAsWholeClip
    BY DEF IInv, Typed, Flushing, NoMoreThanNeeded, SameAsWholeClip
  <1> QED
    BY Invariance, <1>1, PTL
=================================================================================
