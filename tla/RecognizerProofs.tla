----------------------------- MODULE RecognizerProofs -----------------------------
(***************************************************************************)
(* That Recognizer keeps the safety part of CallContract, for any number of*)
(* calls, objects, blocking threads, durations and contents: every step of *)
(* the loop, of a task or of a thread is one the contract allows or none.  *)
(* What an answer says was settled long before it is given, by the thread  *)
(* that ran the job and by the task that posted it, so the invariant       *)
(* follows what a call captured through its job to the callback.           *)
(***************************************************************************)
EXTENDS Recognizer, TLAPS

Valid == {12} \cup (Values \ {0})

Asks == {NotAsked} \cup
  [made : {TRUE}, entry : {"bytes", "path"}, duration : Valid, version : Versions]

JobsOf ==
  [state : {"none"}] \cup [state : {"queued"}, duration : Valid]
    \cup [state : {"running"}, duration : Valid, opened : Versions]
    \cup [state : {"done"}, duration : Valid, first : Versions, last : Versions,
          work : Outcomes]

Typed ==
  /\ durations \in [Objects -> Valid]
  /\ file \in Versions
  /\ asked \in [Calls -> Asks]
  /\ DOMAIN future = Calls
  /\ task \in [Calls -> {"none", "spawned", "waiting", "answering", "posting", "ended"}]
  /\ job \in [Calls -> JobsOf]
  /\ DOMAIN cancel_sent = Calls
  /\ loop_queue \in Seq([callback : {"cancelled", "complete"}, call : Calls])

\* What a job reads is what was handed over, or what the path held since, and if
\* it is one content throughout its work is of that content.
ReadsWhatWasAsked(c) ==
  /\ job[c].state = "running" =>
       asked[c].version <= job[c].opened /\ job[c].opened <= Version(c)
  /\ job[c].state = "done" =>
       /\ asked[c].version <= job[c].first /\ job[c].first <= job[c].last
       /\ job[c].last <= Version(c)
       /\ job[c].work \in ComesTo(job[c].first, job[c].last)

\* A job is of a call, with its duration, and is made by the call's task.
JobIsOfCall(c) ==
  /\ asked[c].made => asked[c].version <= file
  /\ task[c] # "none" => asked[c].made
  /\ task[c] \in {"none", "spawned"} => job[c].state = "none"
  /\ job[c].state # "none" => asked[c].made /\ job[c].duration = asked[c].duration
  /\ ReadsWhatWasAsked(c)

\* What is posted is the answer of a job that is over.
PostsWhatIsDone ==
  /\ \A c \in Calls : task[c] \in {"answering", "posting"} => job[c].state = "done"
  /\ \A k \in DOMAIN loop_queue :
       loop_queue[k].callback = "complete" => job[loop_queue[k].call].state = "done"

IInv == Typed /\ (\A c \in Calls : JobIsOfCall(c)) /\ PostsWhatIsDone

-------------------------------------------------------------------------------
\* Nothing is asked and nothing posted at first.
LEMMA InitEstablishes == Init => IInv
<1> SUFFICES ASSUME Init PROVE IInv
  OBVIOUS
<1>1. Typed
  BY ConstantsAssumption DEF Init, Typed, Valid, Asks, JobsOf, Versions
<1>2. \A c \in Calls : JobIsOfCall(c)
  BY DEF Init, JobIsOfCall, ReadsWhatWasAsked, NotAsked
<1>3. PostsWhatIsDone
  BY DEF Init, PostsWhatIsDone
<1> QED
  BY <1>1, <1>2, <1>3 DEF IInv

\* What a call captured.
LEMMA Captured ==
  ASSUME Typed, NEW c \in Calls, asked[c].made
  PROVE  /\ asked[c].duration \in Valid /\ asked[c].entry \in {"bytes", "path"}
         /\ asked[c].version \in Versions /\ asked[c].version \in Nat
<1>1. asked[c] \in Asks
  BY DEF Typed
<1>2. asked[c] # NotAsked
  BY DEF NotAsked
<1>3. asked[c] \in [made : {TRUE}, entry : {"bytes", "path"}, duration : Valid,
                    version : Versions]
  BY <1>1, <1>2 DEF Asks
<1>4. asked[c].version \in Versions
  BY <1>3
<1>5. asked[c].version \in Nat
  BY <1>4, ConstantsAssumption DEF Versions
<1> QED
  BY <1>3, <1>4, <1>5

\* What a job carries, by its state.
LEMMA Carried ==
  ASSUME Typed, NEW c \in Calls
  PROVE  /\ job[c].state \in {"none", "queued", "running", "done"}
         /\ job[c].state = "running" =>
              /\ job[c].duration \in Valid
              /\ job[c].opened \in Versions /\ job[c].opened \in Nat
         /\ job[c].state = "done" =>
              /\ job[c].duration \in Valid
              /\ job[c].first \in Versions /\ job[c].first \in Nat
              /\ job[c].last \in Versions /\ job[c].last \in Nat
              /\ job[c].work \in Outcomes
         /\ job[c].state = "queued" => job[c].duration \in Valid
<1>1. job[c] \in JobsOf
  BY DEF Typed
<1>2. \A version \in Versions : version \in Nat
  BY ConstantsAssumption DEF Versions
<1> QED
  BY <1>1, <1>2 DEF JobsOf

\* The queue after its first callback was taken, or another was queued, holds
\* only what it held or was given.
LEMMA QueueSteps ==
  ASSUME NEW S, NEW q \in Seq(S)
  PROVE  /\ \A e \in S : /\ Append(q, e) \in Seq(S)
                         /\ \A k \in DOMAIN Append(q, e) :
                              Append(q, e)[k] = e
                              \/ (k \in DOMAIN q /\ Append(q, e)[k] = q[k])
         /\ q # <<>> => /\ Tail(q) \in Seq(S)
                        /\ Head(q) \in S /\ Head(q) = q[1] /\ 1 \in DOMAIN q
                        /\ \A k \in DOMAIN Tail(q) :
                             k + 1 \in DOMAIN q /\ Tail(q)[k] = q[k + 1]
<1>1. ASSUME NEW e \in S
      PROVE  /\ Append(q, e) \in Seq(S)
             /\ \A k \in DOMAIN Append(q, e) :
                  Append(q, e)[k] = e \/ (k \in DOMAIN q /\ Append(q, e)[k] = q[k])
  OBVIOUS
<1>2. ASSUME q # <<>>
      PROVE  /\ Tail(q) \in Seq(S)
             /\ Head(q) \in S /\ Head(q) = q[1] /\ 1 \in DOMAIN q
             /\ \A k \in DOMAIN Tail(q) : k + 1 \in DOMAIN q /\ Tail(q)[k] = q[k + 1]
  BY <1>2
<1> QED
  BY <1>1, <1>2

\* What the program does leaves every job as it is.
LEMMA ProgramKeeps ==
  ASSUME IInv, Program
  PROVE  IInv'
<1>1. Typed /\ PostsWhatIsDone /\ \A c \in Calls : JobIsOfCall(c)
  BY DEF IInv
<1>2. ASSUME NEW object \in Objects, NEW value \in Values, SetDuration(object, value)
      PROVE  IInv'
  <2>1. Validated(value, durations[object]) \in Valid
    BY <1>1 DEF Validated, Typed, Valid
  <2>2. durations' \in [Objects -> Valid]
    BY <1>1, <1>2, <2>1 DEF SetDuration, Typed
  <2> QED
    BY <1>1, <1>2, <2>2
    DEF SetDuration, IInv, Typed, JobIsOfCall, ReadsWhatWasAsked, Version, PostsWhatIsDone
<1>3. CASE RewriteFile
  <2>1. file' \in Versions /\ file' >= file /\ file \in Nat
    BY <1>1, <1>3, ConstantsAssumption DEF RewriteFile, Typed, Versions
  <2>2. Typed' /\ PostsWhatIsDone'
    BY <1>1, <1>3, <2>1 DEF RewriteFile, Typed, PostsWhatIsDone
  <2>3. ASSUME NEW c \in Calls PROVE JobIsOfCall(c)'
    <3>1. asked[c].made => asked[c].version \in Nat
      BY <1>1, Captured
    <3>2. /\ job[c].state = "running" => job[c].opened \in Nat
          /\ job[c].state = "done" => job[c].first \in Nat /\ job[c].last \in Nat
      BY <1>1, Carried
    <3>3. asked[c].made => /\ Version(c) \in Nat /\ Version(c)' \in Nat
                           /\ Version(c) <= Version(c)'
      BY <1>3, <2>1, <3>1, ConstantsAssumption DEF RewriteFile, Version, Versions
    <3>4. ReadsWhatWasAsked(c)'
      BY <1>1, <1>3, <3>2, <3>3 DEF RewriteFile, JobIsOfCall, ReadsWhatWasAsked
    <3> QED
      BY <1>1, <1>3, <2>1, <3>1, <3>4 DEF RewriteFile, JobIsOfCall
  <2> QED
    BY <2>2, <2>3 DEF IInv
<1>4. ASSUME NEW c \in Calls, NEW entry \in {"bytes", "path"}, NEW object \in Objects,
             Call(c, entry, object)
      PROVE  IInv'
  <2> DEFINE captured == [made |-> TRUE, entry |-> entry, duration |-> durations[object],
                          version |-> file]
  <2>1. /\ asked' = [asked EXCEPT ![c] = captured]
        /\ task' = [task EXCEPT ![c] = "spawned"]
        /\ ~asked[c].made
        /\ UNCHANGED <<durations, file, future, job, cancel_sent, loop_queue>>
    BY <1>4 DEF Call
  <2>2. captured \in Asks /\ captured.made = TRUE /\ captured.version = file
    BY <1>1 DEF Typed, Asks
  <2>3. job[c].state = "none"
    BY <1>1, <2>1 DEF JobIsOfCall
  <2> HIDE DEF captured
  <2>4. Typed' /\ PostsWhatIsDone'
    BY <1>1, <2>1, <2>2, <2>3 DEF Typed, PostsWhatIsDone
  <2>5. ASSUME NEW d \in Calls PROVE JobIsOfCall(d)'
    <3>1. CASE d = c
      <4>1. asked'[c] = captured /\ task'[c] = "spawned" /\ file <= file
        BY <1>1, <2>1, ConstantsAssumption DEF Typed, Versions
      <4> QED
        BY <2>1, <2>2, <2>3, <3>1, <4>1 DEF JobIsOfCall, ReadsWhatWasAsked
    <3>2. CASE d # c
      BY <1>1, <2>1, <3>2 DEF JobIsOfCall, ReadsWhatWasAsked, Version, Typed
    <3> QED
      BY <3>1, <3>2
  <2> QED
    BY <2>4, <2>5 DEF IInv
<1>5. ASSUME NEW c \in Calls, Cancel(c)
      PROVE  IInv'
  <2> DEFINE told == [callback |-> "cancelled", call |-> c]
             Entries == [callback : {"cancelled", "complete"}, call : Calls]
  <2>1. told \in Entries /\ loop_queue \in Seq(Entries)
        /\ loop_queue' = Append(loop_queue, told)
    BY <1>1, <1>5 DEF Typed, Cancel
  <2>2. told.callback # "complete"
    OBVIOUS
  <2> HIDE DEF told
  <2>3. loop_queue' \in Seq(Entries)
    BY <2>1, QueueSteps
  <2>4. \A k \in DOMAIN loop_queue' :
          loop_queue'[k] = told \/ (k \in DOMAIN loop_queue /\ loop_queue'[k] = loop_queue[k])
    BY <2>1, QueueSteps
  <2>5. UNCHANGED <<durations, file, asked, task, job, cancel_sent>> /\ DOMAIN future' = Calls
    BY <1>1, <1>5 DEF Cancel, Typed
  <2>6. Typed'
    BY <1>1, <2>3, <2>5 DEF Typed
  <2>7. PostsWhatIsDone'
    BY <1>1, <2>2, <2>4, <2>5 DEF PostsWhatIsDone
  <2> QED
    BY <1>1, <2>5, <2>6, <2>7 DEF IInv, JobIsOfCall, ReadsWhatWasAsked, Version
<1>6. CASE CloseLoop
  BY <1>1, <1>6
  DEF CloseLoop, IInv, Typed, JobIsOfCall, ReadsWhatWasAsked, Version, PostsWhatIsDone
<1> QED
  BY <1>2, <1>3, <1>4, <1>5, <1>6 DEF Program

\* Every callback queued is of a call.
LEMMA QueuedAreOfCalls ==
  ASSUME Typed
  PROVE  \A k \in DOMAIN loop_queue : loop_queue[k].call \in Calls
<1> DEFINE Entries == [callback : {"cancelled", "complete"}, call : Calls]
<1>1. \A entry \in Entries : entry.call \in Calls
  OBVIOUS
<1>2. loop_queue \in Seq(Entries)
  BY DEF Typed
<1> HIDE DEF Entries
<1>3. \A k \in DOMAIN loop_queue : loop_queue[k] \in Entries
  BY <1>2
<1> QED
  BY <1>1, <1>3

\* The loop takes a callback away and tells a task, or answers a future.
LEMMA LoopKeeps ==
  ASSUME IInv, Loop
  PROVE  IInv'
<1> DEFINE Entries == [callback : {"cancelled", "complete"}, call : Calls]
<1>1. Typed /\ PostsWhatIsDone /\ \A c \in Calls : JobIsOfCall(c)
  BY DEF IInv
<1>2. /\ loop_queue # <<>> /\ loop_queue' = Tail(loop_queue)
      /\ UNCHANGED <<durations, file, asked, task, job>>
      /\ DOMAIN future' = Calls /\ DOMAIN cancel_sent' = Calls
  BY <1>1 DEF Loop, RunCancelled, RunCompletion, NextCallback, Typed
<1>3. loop_queue \in Seq(Entries)
  BY <1>1 DEF Typed
<1>4. /\ loop_queue' \in Seq(Entries)
      /\ \A k \in DOMAIN loop_queue' :
           k + 1 \in DOMAIN loop_queue /\ loop_queue'[k] = loop_queue[k + 1]
  BY <1>2, <1>3, QueueSteps
<1>5. Typed' /\ PostsWhatIsDone'
  BY <1>1, <1>2, <1>4 DEF Typed, PostsWhatIsDone
<1> QED
  BY <1>1, <1>2, <1>5 DEF IInv, JobIsOfCall, ReadsWhatWasAsked, Version

\* A task makes one job, of what its call captured, and posts what is done.
LEMMA TaskKeeps ==
  ASSUME IInv, NEW c \in Calls, Task(c)
  PROVE  IInv'
<1> DEFINE Entries == [callback : {"cancelled", "complete"}, call : Calls]
<1>1. Typed /\ PostsWhatIsDone /\ \A d \in Calls : JobIsOfCall(d)
  BY DEF IInv
<1>2. CASE SubmitJob(c)
  <2> DEFINE made == [state |-> "queued", duration |-> asked[c].duration]
  <2>1. /\ job' = [job EXCEPT ![c] = made] /\ task[c] = "spawned"
        /\ \E step \in {"ended", "waiting"} : task' = [task EXCEPT ![c] = step]
        /\ UNCHANGED loop
    BY <1>2 DEF SubmitJob
  <2>2. asked[c].made /\ job[c].state = "none"
    BY <1>1, <2>1 DEF JobIsOfCall
  <2>3. made \in JobsOf /\ made.state = "queued" /\ made.duration = asked[c].duration
    BY <1>1, <2>2, Captured DEF JobsOf
  <2> HIDE DEF made
  <2>4. Typed'
    BY <1>1, <2>1, <2>3 DEF Typed, loop
  <2>5. PostsWhatIsDone'
    <3>1. \A d \in Calls : job[d].state = "done" => job'[d].state = "done"
      BY <1>1, <2>1, <2>2 DEF Typed
    <3>2. \A d \in Calls : task'[d] \in {"answering", "posting"} => task[d] = task'[d]
      BY <1>1, <2>1 DEF Typed
    <3>3. \A k \in DOMAIN loop_queue : loop_queue[k].call \in Calls
      BY <1>1, QueuedAreOfCalls
    <3> QED
      BY <1>1, <2>1, <3>1, <3>2, <3>3 DEF PostsWhatIsDone, loop
  <2>6. ASSUME NEW d \in Calls PROVE JobIsOfCall(d)'
    <3>1. CASE d = c
      <4>1. job'[c] = made /\ task'[c] \in {"ended", "waiting"}
        BY <1>1, <2>1 DEF Typed
      <4> QED
        BY <1>1, <2>1, <2>2, <2>3, <3>1, <4>1 DEF JobIsOfCall, ReadsWhatWasAsked, loop
    <3>2. CASE d # c
      <4>1. job'[d] = job[d] /\ task'[d] = task[d]
        BY <1>1, <2>1, <3>2 DEF Typed
      <4> QED
        BY <1>1, <2>1, <4>1 DEF JobIsOfCall, ReadsWhatWasAsked, Version, loop
    <3> QED
      BY <3>1, <3>2
  <2> QED
    BY <2>4, <2>5, <2>6 DEF IInv
\* The others leave the job and go on to answer only when it is over.
<1>3. CASE TakeAnswer(c) \/ GiveUp(c) \/ CheckCancelled(c) \/ PostAnswer(c)
  <2>1. /\ \E step \in {"answering", "ended", "posting"} :
             /\ task' = [task EXCEPT ![c] = step]
             /\ step \in {"answering", "posting"} => job[c].state = "done"
        /\ task[c] \notin {"none", "spawned"}
        /\ UNCHANGED <<durations, file, asked, future, job, cancel_sent>>
    BY <1>1, <1>3
    DEF TakeAnswer, GiveUp, CheckCancelled, PostAnswer, loop, PostsWhatIsDone
  <2>2. /\ loop_queue' \in Seq(Entries)
        /\ \A k \in DOMAIN loop_queue' :
             \/ loop_queue'[k].call = c /\ job[c].state = "done"
             \/ k \in DOMAIN loop_queue /\ loop_queue'[k] = loop_queue[k]
    <3> DEFINE posted == [callback |-> "complete", call |-> c]
    <3>1. loop_queue \in Seq(Entries) /\ posted \in Entries /\ posted.call = c
      BY <1>1 DEF Typed
    <3>2. CASE loop_queue' = loop_queue
      BY <3>1, <3>2
    <3>3. CASE loop_queue' # loop_queue
      <4>1. loop_queue' = Append(loop_queue, posted) /\ task[c] = "posting"
        BY <1>3, <3>3 DEF TakeAnswer, GiveUp, CheckCancelled, PostAnswer, loop
      <4>2. job[c].state = "done"
        BY <1>1, <4>1 DEF PostsWhatIsDone
      <4> HIDE DEF posted
      <4> QED
        BY <3>1, <4>1, <4>2, QueueSteps
    <3> QED
      BY <3>2, <3>3
  <2>3. Typed'
    BY <1>1, <2>1, <2>2 DEF Typed
  <2>4. PostsWhatIsDone'
    <3>1. \A d \in Calls : task'[d] \in {"answering", "posting"} => job[d].state = "done"
      BY <1>1, <2>1 DEF Typed, PostsWhatIsDone
    <3> QED
      BY <1>1, <2>1, <2>2, <3>1 DEF PostsWhatIsDone
  <2>5. ASSUME NEW d \in Calls PROVE JobIsOfCall(d)'
    <3>1. task'[d] = task[d] \/ (d = c /\ task'[d] \notin {"none", "spawned"})
      BY <1>1, <2>1 DEF Typed
    <3>2. task'[d] # "none" => asked[d].made
      BY <1>1, <2>1, <3>1 DEF JobIsOfCall
    <3> QED
      BY <1>1, <2>1, <3>1, <3>2 DEF JobIsOfCall, ReadsWhatWasAsked, Version
  <2> QED
    BY <2>3, <2>4, <2>5 DEF IInv
<1> QED
  BY <1>2, <1>3 DEF Task

\* A thread opens the bytes that were given, or the file as it is by then, and
\* reads no content older than that nor one that is not there yet.
LEMMA PoolKeeps ==
  ASSUME IInv, NEW c \in Calls, StartJob(c) \/ FinishJob(c)
  PROVE  IInv'
<1>1. Typed /\ PostsWhatIsDone /\ \A d \in Calls : JobIsOfCall(d)
  BY DEF IInv
<1>2. UNCHANGED loop /\ task' = task /\ job[c].state \in {"queued", "running"}
  BY DEF StartJob, FinishJob
<1>3. /\ asked[c].made /\ job[c].duration = asked[c].duration
      /\ task[c] \notin {"none", "spawned"}
  BY <1>1, <1>2 DEF JobIsOfCall
<1>4. /\ asked[c].duration \in Valid /\ asked[c].version \in Nat
      /\ Version(c) \in Versions /\ Version(c) \in Nat /\ asked[c].version <= Version(c)
  BY <1>1, <1>3, Captured, ConstantsAssumption DEF JobIsOfCall, Typed, Versions, Version
<1>5. PICK next \in JobsOf :
        /\ job' = [job EXCEPT ![c] = next]
        /\ next.state \in {"running", "done"} /\ next.duration = asked[c].duration
        /\ next.state = "running" => /\ asked[c].version <= next.opened
                                     /\ next.opened <= Version(c)
        /\ next.state = "done" => /\ asked[c].version <= next.first
                                  /\ next.first <= next.last /\ next.last <= Version(c)
                                  /\ next.work \in ComesTo(next.first, next.last)
  <2>1. CASE StartJob(c)
    <3> DEFINE next == [state |-> "running", duration |-> job[c].duration,
                        opened |-> Version(c)]
    <3>1. next \in JobsOf
      BY <1>3, <1>4 DEF JobsOf
    <3>2. job' = [job EXCEPT ![c] = next]
      BY <2>1 DEF StartJob
    <3>3. /\ next.state = "running" /\ next.duration = job[c].duration
          /\ next.opened = Version(c) /\ Version(c) <= Version(c)
      BY <1>4
    <3> HIDE DEF next
    <3> QED
      BY <1>3, <1>4, <3>1, <3>2, <3>3
  <2>2. CASE FinishJob(c)
    <3>1. /\ job[c].opened \in Nat /\ asked[c].version <= job[c].opened
          /\ job[c].opened <= Version(c)
      BY <1>1, <2>2, Carried DEF FinishJob, JobIsOfCall, ReadsWhatWasAsked
    <3>2. \A content \in job[c].opened .. Version(c) :
            /\ content \in Versions /\ Work(content) \in Outcomes
            /\ asked[c].version <= content /\ content <= Version(c)
      BY <1>4, <3>1, ConstantsAssumption DEF Versions
    <3>3. PICK first \in job[c].opened .. Version(c), last \in job[c].opened .. Version(c) :
            \E work \in ComesTo(first, last) :
              /\ first <= last
              /\ job' = [job EXCEPT ![c] = [state |-> "done", duration |-> job[c].duration,
                                            first |-> first, last |-> last, work |-> work]]
      BY <2>2 DEF FinishJob
    <3>4. PICK work \in ComesTo(first, last) :
            /\ first <= last
            /\ job' = [job EXCEPT ![c] = [state |-> "done", duration |-> job[c].duration,
                                          first |-> first, last |-> last, work |-> work]]
      BY <3>3
    <3>5. work \in Outcomes
      BY <3>2 DEF ComesTo
    <3> DEFINE next == [state |-> "done", duration |-> job[c].duration, first |-> first,
                        last |-> last, work |-> work]
    <3>6. next \in JobsOf
      BY <1>3, <1>4, <3>2, <3>5 DEF JobsOf
    <3>7. job' = [job EXCEPT ![c] = next]
      BY <3>4
    <3>8. /\ next.state = "done" /\ next.duration = job[c].duration
          /\ next.first = first /\ next.last = last /\ next.work = work
      OBVIOUS
    <3> HIDE DEF next
    <3> QED
      BY <1>3, <3>2, <3>4, <3>6, <3>7, <3>8
  <2> QED
    BY <2>1, <2>2
<1>6. Typed'
  BY <1>1, <1>2, <1>5 DEF Typed, loop
<1>7. job'[c] = next /\ \A d \in Calls \ {c} : job'[d] = job[d]
  BY <1>1, <1>5 DEF Typed
<1>8. PostsWhatIsDone'
  <2>1. \A d \in Calls : job[d].state = "done" => job'[d].state = "done"
    BY <1>2, <1>7
  <2>2. \A k \in DOMAIN loop_queue : loop_queue[k].call \in Calls
    BY <1>1, QueuedAreOfCalls
  <2> QED
    BY <1>1, <1>2, <2>1, <2>2 DEF PostsWhatIsDone, loop
<1>9. ASSUME NEW d \in Calls PROVE JobIsOfCall(d)'
  <2>1. Version(d)' = Version(d)
    BY <1>2 DEF Version, loop
  <2>2. CASE d = c
    <3>1. ReadsWhatWasAsked(c)'
      BY <1>2, <1>5, <1>7, <2>1, <2>2 DEF ReadsWhatWasAsked, loop
    <3> QED
      BY <1>1, <1>2, <1>3, <1>5, <1>7, <2>2, <3>1 DEF JobIsOfCall, loop
  <2>3. CASE d # c
    BY <1>1, <1>2, <1>7, <2>1, <2>3 DEF JobIsOfCall, ReadsWhatWasAsked, loop
  <2> QED
    BY <2>2, <2>3
<1> QED
  BY <1>6, <1>8, <1>9 DEF IInv

\* Nothing happens.
LEMMA StutterKeeps == IInv /\ UNCHANGED vars => IInv'
  BY DEF vars, IInv, Typed, JobIsOfCall, ReadsWhatWasAsked, Version, PostsWhatIsDone

-------------------------------------------------------------------------------
\* The contract's own words for what the bridge answers.
LEMMA SameAnswer ==
  /\ \A work \in Outcomes : Reported(work) \in Contract!Answers
  /\ \A version \in Versions : Reported(Work(version)) = Promised(version)
<1>1. \A work \in Outcomes : Reported(work) \in Contract!Answers
  BY DEF Reported, Outcomes, Contract!Answers
<1>2. \A version \in Versions : Reported(Work(version)) = Promised(version)
  BY ConstantsAssumption DEF Reported, Promised, Versions, Outcomes
<1> QED
  BY <1>1, <1>2

\* Every step is one the contract allows, or none of its.
LEMMA StepKeepsContract ==
  ASSUME IInv, [Next]_vars
  PROVE  [Contract!Next]_(Contract!vars)
<1>1. Typed /\ PostsWhatIsDone /\ \A c \in Calls : JobIsOfCall(c)
  BY DEF IInv
<1>2. UNCHANGED <<file, asked, future, closed>> => UNCHANGED Contract!vars
  BY DEF Contract!vars
<1>3. CASE Program
  <2>1. ASSUME NEW c \in Calls, NEW entry \in {"bytes", "path"}, NEW object \in Objects,
               Call(c, entry, object)
        PROVE  Contract!Next
    <3>1. durations[object] \in Valid /\ file \in Versions
      BY <1>1 DEF Typed
    <3>2. Contract!Ask(c)
      BY <2>1, <3>1 DEF Call, Contract!Ask, Contract!Asked, Valid
    <3> QED
      BY <3>2 DEF Contract!Next
  <2>2. ASSUME NEW c \in Calls, Cancel(c)
        PROVE  Contract!Next
    BY <2>2 DEF Cancel, Contract!Next, Contract!Cancel, Contract!Waiting, Contract!Cancelled,
                Waiting
  <2>3. CloseLoop => Contract!Next
    BY DEF CloseLoop, Contract!Next, Contract!Close
  <2>4. RewriteFile => Contract!Next
    BY <1>1, ConstantsAssumption
    DEF RewriteFile, Contract!Next, Contract!Rewrite, Typed, Versions
  <2>5. (\E object \in Objects, value \in Values : SetDuration(object, value))
          => UNCHANGED <<file, asked, future, closed>>
    BY DEF SetDuration
  <2> QED
    BY <1>2, <1>3, <2>1, <2>2, <2>3, <2>4, <2>5 DEF Program
<1>4. CASE Loop
  <2>1. ASSUME NEW c \in Calls, RunCancelled(c)
        PROVE  UNCHANGED <<file, asked, future, closed>>
    BY <2>1 DEF RunCancelled
  <2>2. ASSUME NEW c \in Calls, RunCompletion(c), future[c] = Waiting
        PROVE  Contract!Resolve(c)
    <3>1. job[c].state = "done" /\ ~closed
      <4>1. /\ loop_queue # <<>> /\ Head(loop_queue).callback = "complete"
            /\ Head(loop_queue).call = c /\ ~closed
        BY <2>2 DEF RunCompletion, NextCallback
      <4>2. Head(loop_queue) = loop_queue[1] /\ 1 \in DOMAIN loop_queue
        BY <1>1, <4>1, QueueSteps DEF Typed
      <4> QED
        BY <1>1, <4>1, <4>2 DEF PostsWhatIsDone
    <3>2. asked[c].made /\ job[c].duration = asked[c].duration /\ ReadsWhatWasAsked(c)
      BY <1>1, <3>1 DEF JobIsOfCall
    <3>3. /\ job[c].first \in Versions /\ job[c].last \in Versions
          /\ job[c].work \in Outcomes
      BY <1>1, <3>1, Carried
    <3> DEFINE answer == Reported(job[c].work)
    <3>4. /\ answer \in Contract!Answers
          /\ job[c].first = job[c].last => answer = Promised(job[c].first)
      BY <3>1, <3>2, <3>3, SameAnswer DEF ReadsWhatWasAsked, ComesTo
    <3>5. Resolved(job[c])
            = Contract!Resolved(answer, asked[c].duration, job[c].first, job[c].last)
      BY <3>2 DEF Resolved, Contract!Resolved
    <3>6. /\ future' = [future EXCEPT ![c] = Resolved(job[c])]
          /\ UNCHANGED <<file, asked, closed>>
      BY <2>2 DEF RunCompletion
    <3>7. /\ asked[c].version <= job[c].first /\ job[c].first <= job[c].last
          /\ job[c].last <= IF asked[c].entry = "bytes" THEN asked[c].version ELSE file
      BY <3>1, <3>2 DEF ReadsWhatWasAsked, Version
    <3> HIDE DEF answer
    <3> QED
      BY <2>2, <3>1, <3>2, <3>3, <3>4, <3>5, <3>6, <3>7
      DEF Contract!Resolve, Contract!Waiting, Waiting
  <2>3. ASSUME NEW c \in Calls, RunCompletion(c), future[c] # Waiting
        PROVE  UNCHANGED <<file, asked, future, closed>>
    BY <2>3 DEF RunCompletion
  <2> QED
    BY <1>2, <1>4, <2>1, <2>2, <2>3 DEF Loop, Contract!Next
<1>5. CASE Pool \/ (\E c \in Calls : Task(c)) \/ UNCHANGED vars
  <2>1. UNCHANGED <<file, asked, future, closed>>
    BY <1>5 DEF Pool, StartJob, FinishJob, Task, SubmitJob, TakeAnswer, GiveUp, CheckCancelled,
                PostAnswer, loop, vars
  <2> QED
    BY <1>2, <2>1
<1> QED
  BY <1>3, <1>4, <1>5 DEF Next

\* The invariant holds of every behaviour.
LEMMA Invariance == Spec => []IInv
<1>1. IInv /\ [Next]_vars => IInv'
  BY ProgramKeeps, LoopKeeps, TaskKeeps, PoolKeeps, StutterKeeps DEF Next, Pool
<1> QED
  BY InitEstablishes, <1>1, PTL DEF Spec

\* Every call is answered at most once, never once cancelled or with its loop
\* closed, and with what it captured: whatever the setters, the file and the
\* other calls do meanwhile, for any pool.
THEOREM AnswersAsPromised == Spec => Contract!Safety
<1>1. Init => Contract!Init
  BY DEF Init, Contract!Init, NotAsked, Contract!NotAsked, Waiting, Contract!Waiting
<1>2. IInv /\ [Next]_vars => [Contract!Next]_(Contract!vars)
  BY StepKeepsContract
<1> QED
  BY <1>1, <1>2, Invariance, PTL DEF Spec, Contract!Safety
===================================================================================
