------------------------------ MODULE CallContract ------------------------------
(***************************************************************************)
(* What `recognize_bytes` and `recognize_path` promise the Python side of  *)
(* a call: a future that is answered once, unless it was cancelled first   *)
(* or its loop is closed, with the fingerprint of what was asked for under *)
(* the duration that held when it was asked.  `Recognizer` implements it.  *)
(***************************************************************************)
EXTENDS Integers

CONSTANTS
  Calls,
  Durations,     \* segment durations a caller may ask for, all valid
  Versions,      \* successive contents of the file, numbered
  Answer(_)      \* what fingerprinting a content comes to

VARIABLES
  file,    \* the content the path holds and callers pass
  asked,   \* what each call asked for, or NotAsked
  future,  \* what has become of its future
  closed   \* the event loop is closed

NotAsked == [made |-> FALSE]
Asked(entry, duration, version) ==
  [made |-> TRUE, entry |-> entry, duration |-> duration, version |-> version]

Waiting == [state |-> "pending"]
Cancelled == [state |-> "cancelled"]
\* The answer to a content, or to what was read from one content to a later one.
Resolved(answer, duration, first, last) ==
  [state |-> "resolved", answer |-> answer, duration |-> duration, first |-> first,
   last |-> last]
Answers == {"signature", "SignatureError", "RustPanic"}

Init ==
  /\ file = 0
  /\ asked = [c \in Calls |-> NotAsked]
  /\ future = [c \in Calls |-> Waiting]
  /\ closed = FALSE

Rewrite ==
  /\ file' \in Versions /\ file' > file
  /\ UNCHANGED <<asked, future, closed>>

Ask(c) ==
  /\ ~asked[c].made /\ ~closed
  /\ \E entry \in {"bytes", "path"}, duration \in Durations :
       asked' = [asked EXCEPT ![c] = Asked(entry, duration, file)]
  /\ UNCHANGED <<file, future, closed>>

Cancel(c) ==
  /\ asked[c].made /\ future[c] = Waiting
  /\ future' = [future EXCEPT ![c] = Cancelled]
  /\ UNCHANGED <<file, asked, closed>>

\* Bytes are answered as they were handed over; a file as it was at some time
\* after the call, or, if it was rewritten while it was read, in some way.
Resolve(c) ==
  /\ asked[c].made /\ future[c] = Waiting /\ ~closed
  /\ \E first \in Versions, last \in Versions, answer \in Answers :
       /\ asked[c].version <= first /\ first <= last
       /\ last <= IF asked[c].entry = "bytes" THEN asked[c].version ELSE file
       /\ first = last => answer = Answer(first)
       /\ future' = [future EXCEPT ![c] = Resolved(answer, asked[c].duration, first, last)]
  /\ UNCHANGED <<file, asked, closed>>

Close == ~closed /\ closed' = TRUE /\ UNCHANGED <<file, asked, future>>

Next == Rewrite \/ Close \/ \E c \in Calls : Ask(c) \/ Cancel(c) \/ Resolve(c)

vars == <<file, asked, future, closed>>
Safety == Init /\ [][Next]_vars
Spec == Safety /\ \A c \in Calls : WF_vars(Resolve(c))
===============================================================================
