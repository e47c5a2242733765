------------------------------- MODULE Recognizer -------------------------------
(***************************************************************************)
(* The Python entry points of src/src/lib.rs and the bridge of             *)
(* src/src/utils.rs that runs their work off the event loop.               *)
(*                                                                         *)
(* Three kinds of thread meet here.  The event loop makes the calls, sets  *)
(* the durations, cancels, and runs its queue of callbacks in order.  A    *)
(* tokio task of each call submits the work, waits for it or for the       *)
(* cancellation, and posts the answer to the loop.  The work itself, one   *)
(* job of each call, runs on tokio's pool of blocking threads.             *)
(*                                                                         *)
(* pyo3-async-runtimes, tokio and asyncio are outside the repository: what *)
(* they do between the lines of `get_python_future` is modelled from how   *)
(* that function uses them.  What the work comes to is `Work`, by the      *)
(* version of the content it reads: a signature, an error it raises, as    *)
(* for a path that names no file, or a panic.  A file is read while it is  *)
(* decoded, so one rewritten meanwhile may be read in part as it was and   *)
(* in part as it is, and that may come to any of the three.                *)
(*                                                                         *)
(* An operator whose name holds "_bug" is a mistake this code could have   *)
(* had; it stands beside the definition it would replace and is used by no *)
(* other definition.                                                       *)
(***************************************************************************)
EXTENDS Integers, Sequences, FiniteSets

CONSTANTS
  Calls,        \* the calls made; each is one `recognize_bytes` or `_path`
  PoolSize,     \* blocking threads tokio runs at once
  Objects,      \* objects that hold a duration: Recognizers and SearchParams
  Values,       \* segment durations callers pass, 0 among them
  LastVersion,  \* the file is rewritten this many times
  Work(_)       \* what each version comes to

Outcomes == {"signature", "error", "panic"}

ASSUME ConstantsAssumption ==
  /\ PoolSize \in Nat \ {0}
  /\ Values \subseteq Nat
  /\ LastVersion \in Nat
  /\ \A version \in 0 .. LastVersion : Work(version) \in Outcomes

VARIABLES
  durations,    \* segment_duration_seconds of each object
  file,         \* the version of the content callers pass and the path holds
  asked,        \* what each call captured when it was made
  future,       \* the asyncio future each call returned
  task,         \* the tokio task of each call
  job,          \* the blocking job of each call
  cancel_sent,  \* the cancellation reached the task's channel
  loop_queue,   \* callbacks the event loop has yet to run
  closed        \* the event loop is closed

vars == <<durations, file, asked, future, task, job, cancel_sent, loop_queue, closed>>
loop == <<durations, file, asked, future, cancel_sent, loop_queue, closed>>

Versions == 0 .. LastVersion
NotAsked == [made |-> FALSE]
Waiting == [state |-> "pending"]

\* JoinError's panic payload becomes the message of a RustPanic; an error is
\* raised as a SignatureError; both resolve the future.
Reported(work) ==
  CASE work = "signature" -> "signature"
    [] work = "error" -> "SignatureError"
    [] work = "panic" -> "RustPanic"

Resolved(done) ==
  [state |-> "resolved", answer |-> Reported(done.work), duration |-> done.duration,
   first |-> done.first, last |-> done.last]

Init ==
  /\ durations = [object \in Objects |-> 12]
  /\ file = 0
  /\ asked = [c \in Calls |-> NotAsked]
  /\ future = [c \in Calls |-> Waiting]
  /\ task = [c \in Calls |-> "none"]
  /\ job = [c \in Calls |-> [state |-> "none"]]
  /\ cancel_sent = [c \in Calls |-> FALSE]
  /\ loop_queue = <<>>
  /\ closed = FALSE

-------------------------------------------------------------------------------
\* What the Python program does on the event loop.

\* validated_segment_seconds: zero raises ValueError and sets nothing.
Validated(value, kept) == IF value = 0 THEN kept ELSE value

SetDuration(object, value) ==
  /\ ~closed
  /\ durations' = [durations EXCEPT ![object] = Validated(value, @)]
  /\ UNCHANGED <<file, asked, future, task, job, cancel_sent, loop_queue, closed>>

\* Another process, or the caller, rewrites what the path names.
RewriteFile ==
  /\ file < LastVersion
  /\ file' = file + 1
  /\ UNCHANGED <<durations, asked, future, task, job, cancel_sent, loop_queue, closed>>

\* recognize_bytes and recognize_path: the bytes or the path and one duration,
\* of the options given or of the recognizer, move into the future; then
\* `future_into_py` makes the asyncio future and spawns the task.
Call(c, entry, object) ==
  /\ ~asked[c].made
  /\ ~closed
  /\ asked' = [asked EXCEPT ![c] = [made |-> TRUE, entry |-> entry,
                                    duration |-> durations[object], version |-> file]]
  /\ task' = [task EXCEPT ![c] = "spawned"]
  /\ UNCHANGED <<durations, file, future, job, cancel_sent, loop_queue, closed>>

\* `future.cancel()`; its done callback, which tells the task, is queued.
Cancel(c) ==
  /\ asked[c].made
  /\ ~closed
  /\ future[c] = Waiting
  /\ future' = [future EXCEPT ![c] = [state |-> "cancelled"]]
  /\ loop_queue' = Append(loop_queue, [callback |-> "cancelled", call |-> c])
  /\ UNCHANGED <<durations, file, asked, task, job, cancel_sent, closed>>

\* The loop is closed under whatever is still outstanding.
CloseLoop ==
  /\ ~closed
  /\ closed' = TRUE
  /\ UNCHANGED <<durations, file, asked, future, task, job, cancel_sent, loop_queue>>

-------------------------------------------------------------------------------
\* The callbacks of the loop, in the order they were queued.

NextCallback(kind, c) ==
  /\ ~closed
  /\ loop_queue # <<>>
  /\ Head(loop_queue).callback = kind
  /\ Head(loop_queue).call = c
  /\ loop_queue' = Tail(loop_queue)

RunCancelled(c) ==
  /\ NextCallback("cancelled", c)
  /\ cancel_sent' = [cancel_sent EXCEPT ![c] = TRUE]
  /\ UNCHANGED <<durations, file, asked, future, task, job, closed>>

\* The answer is set only if the future was not cancelled since it was posted.
RunCompletion_bug(c) ==
  /\ NextCallback("complete", c)
  /\ future' = [future EXCEPT ![c] = Resolved(job[c])]
  /\ UNCHANGED <<durations, file, asked, task, job, cancel_sent, closed>>
RunCompletion(c) ==
  /\ NextCallback("complete", c)
  /\ future' = IF future[c] = Waiting THEN [future EXCEPT ![c] = Resolved(job[c])] ELSE future
  /\ UNCHANGED <<durations, file, asked, task, job, cancel_sent, closed>>

-------------------------------------------------------------------------------
\* The task of a call, on a tokio worker.

\* The first poll submits the job, then looks at the channel: a call already
\* cancelled has its job in the pool all the same.
SubmitJob(c) ==
  /\ task[c] = "spawned"
  /\ job' = [job EXCEPT ![c] = [state |-> "queued", duration |-> asked[c].duration]]
  /\ task' = [task EXCEPT ![c] = IF cancel_sent[c] THEN "ended" ELSE "waiting"]
  /\ UNCHANGED loop

\* The job is looked at before the channel, so an answer that is there wins.
TakeAnswer(c) ==
  /\ task[c] = "waiting"
  /\ job[c].state = "done"
  /\ task' = [task EXCEPT ![c] = "answering"]
  /\ UNCHANGED <<loop, job>>

\* Dropping the handle of a blocking job neither stops nor dequeues it.
GiveUp(c) ==
  /\ task[c] = "waiting"
  /\ job[c].state # "done"
  /\ cancel_sent[c]
  /\ task' = [task EXCEPT ![c] = "ended"]
  /\ UNCHANGED <<loop, job>>

\* With the interpreter lock held but not kept: the future is looked at ...
CheckCancelled(c) ==
  /\ task[c] = "answering"
  /\ task' = [task EXCEPT ![c] = IF future[c].state = "cancelled" THEN "ended" ELSE "posting"]
  /\ UNCHANGED <<loop, job>>

\* ... and the answer is posted to the loop, which refuses it once closed.
PostAnswer(c) ==
  /\ task[c] = "posting"
  /\ task' = [task EXCEPT ![c] = "ended"]
  /\ loop_queue' = IF closed THEN loop_queue
                   ELSE Append(loop_queue, [callback |-> "complete", call |-> c])
  /\ UNCHANGED <<durations, file, asked, future, job, cancel_sent, closed>>

-------------------------------------------------------------------------------
\* The job of a call, on a thread of the blocking pool.

Busy == {c \in Calls : job[c].state = "running"}

\* What there is to read: bytes that came with the call, or the file as it is now.
Version(c) == IF asked[c].entry = "bytes" THEN asked[c].version ELSE file

StartJob(c) ==
  /\ job[c].state = "queued"
  /\ Cardinality(Busy) < PoolSize
  /\ job' = [job EXCEPT ![c] = [state |-> "running", duration |-> @.duration,
                                opened |-> Version(c)]]
  /\ UNCHANGED <<loop, task>>

ComesTo(first, last) == IF first = last THEN {Work(first)} ELSE Outcomes

\* It has read on since it opened the file, and returns, raises or panics; the
\* thread is free again either way.
FinishJob_bug(c) ==
  /\ job[c].state = "running"
  /\ \E first, last \in job[c].opened .. Version(c) :
       \E work \in ComesTo(first, last) \ {"panic"} :
         /\ first <= last
         /\ job' = [job EXCEPT ![c] = [state |-> "done", duration |-> @.duration,
                                       first |-> first, last |-> last, work |-> work]]
  /\ UNCHANGED <<loop, task>>
FinishJob(c) ==
  /\ job[c].state = "running"
  /\ \E first, last \in job[c].opened .. Version(c) :
       \E work \in ComesTo(first, last) :
         /\ first <= last
         /\ job' = [job EXCEPT ![c] = [state |-> "done", duration |-> @.duration,
                                       first |-> first, last |-> last, work |-> work]]
  /\ UNCHANGED <<loop, task>>

-------------------------------------------------------------------------------
Program ==
  \/ \E object \in Objects, value \in Values : SetDuration(object, value)
  \/ RewriteFile
  \/ \E c \in Calls, entry \in {"bytes", "path"}, object \in Objects : Call(c, entry, object)
  \/ \E c \in Calls : Cancel(c)
  \/ CloseLoop

Loop == \E c \in Calls : RunCancelled(c) \/ RunCompletion(c)

Task(c) == SubmitJob(c) \/ TakeAnswer(c) \/ GiveUp(c) \/ CheckCancelled(c) \/ PostAnswer(c)

Pool == \E c \in Calls : StartJob(c) \/ FinishJob(c)

Next == Program \/ Loop \/ Pool \/ \E c \in Calls : Task(c)

\* The loop runs its callbacks, tokio polls every task that was woken, a free
\* thread takes a queued job and a job ends.  Nobody has to make a call.
Fairness ==
  /\ WF_vars(Loop)
  /\ \A c \in Calls : WF_vars(Task(c))
  /\ WF_vars(Pool)

Spec == Init /\ [][Next]_vars /\ Fairness

-------------------------------------------------------------------------------
\* A call is answered once, not after its future was cancelled, and with what it
\* captured, whatever the setters are given, a segment of no seconds included, and
\* whatever the file and the other call do meanwhile: the promise of CallContract,
\* with `SignatureError` for an error and `RustPanic` for a panic, and its promise
\* that a pending future is answered unless the loop is closed.
Promised(version) ==
  IF Work(version) = "signature" THEN "signature"
  ELSE IF Work(version) = "panic" THEN "RustPanic" ELSE "SignatureError"

Contract == INSTANCE CallContract WITH
  Durations <- {12} \cup (Values \ {0}),
  Answer <- Promised
KeepsContract == Contract!Spec

\* Nothing a call starts waits for ever: its work is done to the end and the
\* thread given back, though the future was cancelled or its loop closed, and
\* its task ends, even when the work panics and the pool is full of other calls.
CallsEnd == \A c \in Calls : asked[c].made ~> task[c] = "ended" /\ job[c].state = "done"
===============================================================================
