------------------------------ MODULE WorkflowProofs ------------------------------
(***************************************************************************)
(* The safety properties of the two sets of workflows: of DependabotMerge  *)
(* for any number of pushes, by whomever, and any of the branches; and of  *)
(* CiWorkflow for any checks, any change and any number of failures,       *)
(* cancellations and repeated runs.                                        *)
(***************************************************************************)
EXTENDS DependabotMerge, CiWorkflow, TLAPS

-------------------------------------------------------------------------------
(* A pull request of a bot. *)

Uris == {"base", "computed", "hand"}
Heads ==
  [number : Nat, bump : [moves : BOOLEAN, stale : BOOLEAN], uri : Uris, fresh : BOOLEAN,
   author : {"dependabot", "person", "workflow"}]

\* Steps of a run that has read what the pull request changes, where it does, and
\* those of one that has checked out a tree.
Judging == {"asking", "leaving", "generating", "enabling", "disabling", "judged", "pushing"}
Active == {"reading"} \cup Judging

Runs ==
  [step : {"idle", "started"}]
    \cup [step : Active, tree : Heads, queued : BOOLEAN, moved : BOOLEAN]

Typed ==
  /\ kind \in {"cargo", "regenerate", "pypa", "other"}
  /\ head \in Heads
  /\ run \in Runs
  /\ queued \in BOOLEAN

\* A bump of anything but crates and the images of `tests/data` moves no URI.
OnlySomeMove ==
  kind \notin {"cargo", "regenerate"} =>
    ~head.bump.moves /\ (run.step \in Active => ~run.tree.bump.moves)

\* The tree of a run is no newer than the head, and is the head while the head
\* is one the workflow pushed: nobody but a run pushes as the workflow.
TreeIsPast ==
  run.step \in Active =>
    /\ run.tree.number <= head.number
    /\ head.author = "workflow" => run.tree = head

\* Only what was read of the tree itself matters, for no other can be pushed on.
ReadOfTree ==
  run.step \in Judging /\ Docker /\ run.tree = head =>
    (run.moved <=> run.tree.uri # "base")

\* The queue of a branch whose images generate `tests/data` is this run's alone.
QueueIsTheRuns ==
  kind = "regenerate" =>
    /\ merge_run # "merging"
    /\ run.step \in {"generating", "enabling", "disabling", "judged"} /\ ~run.queued => ~queued
    /\ run.step \in Judging \ {"asking", "leaving"} /\ run.moved => ~queued
    /\ run.step = "enabling" => ~run.moved /\ ~CommitMovesUri
    /\ run.step = "judged" /\ CommitMovesUri => ~run.queued \/ run.moved
    /\ run.step = "pushing" /\ CommitMovesUri => ~queued

\* What the workflow pushed with a URI moved is not queued.
PushedUnqueued == Docker /\ head.author = "workflow" /\ UriMoved => ~queued

\* On a docker branch the workflow pushes what the bump computes.
PushedIsComputed == Docker /\ head.author = "workflow" => head.uri = Golden(head.bump)

IInv ==
  /\ Typed /\ OnlySomeMove /\ TreeIsPast /\ ReadOfTree /\ QueueIsTheRuns
  /\ PushedIsComputed /\ PushedUnqueued /\ RegeneratedUriWaits

\* What is queued may land, so it is queued only where it may.
Queueable ==
  /\ queued => requires_ci
  /\ queued /\ major => kind = "regenerate"
  /\ merge_run = "merging" => ~major
  /\ run.step = "enabling" => kind = "regenerate"

LandInv == Typed /\ Queueable /\ LandsOnlyAfterCi /\ MajorWaits

LEMMA BumpIsRecord == ASSUME NEW bump \in Bumps PROVE bump \in [moves : BOOLEAN, stale : BOOLEAN]
<1>1. CASE kind \in {"cargo", "regenerate"}
  BY <1>1 DEF Bumps
<1>2. CASE kind \notin {"cargo", "regenerate"}
  <2>1. bump = [moves |-> FALSE, stale |-> FALSE]
    BY <1>2 DEF Bumps
  <2>2. [moves |-> FALSE, stale |-> FALSE] \in [moves : BOOLEAN, stale : BOOLEAN]
    OBVIOUS
  <2> QED BY <2>1, <2>2
<1> QED BY <1>1, <1>2

LEMMA SteppedIsRun ==
  ASSUME NEW next \in Active, run \in Runs, run.step \in Active
  PROVE  [run EXCEPT !.step = next] \in Runs
BY DEF Runs, Active, Judging

LEMMA IdleIsRun == Idle \in Runs
BY DEF Idle, Runs

\* A step's run goes on after the commit is judged, or ends.
LEMMA AfterJudgingIsRun ==
  ASSUME run \in Runs, run.step \in Active
  PROVE  AfterJudging \in Runs
<1>1. [run EXCEPT !.step = "pushing"] \in Runs
  BY SteppedIsRun DEF Active, Judging
<1> QED BY <1>1, IdleIsRun DEF AfterJudging

LEMMA TypedInit == Init => Typed
<1> SUFFICES ASSUME Init PROVE Typed
  OBVIOUS
<1>1. kind \in {"cargo", "regenerate", "pypa", "other"}
  BY ConstantsAssumption DEF Init
<1>2. PICK bump \in Bumps : head = Bumped(1, bump)
  BY DEF Init
<1>3. bump \in [moves : BOOLEAN, stale : BOOLEAN]
  BY BumpIsRecord
<1>4. head \in Heads
  BY <1>2, <1>3 DEF Heads, Uris, Bumped, Commit
<1> QED BY <1>1, <1>4 DEF Init, Typed, Runs, Idle

LEMMA TypedStep == Typed /\ [Next]_vars => Typed'
<1> SUFFICES ASSUME Typed, [Next]_vars PROVE Typed'
  OBVIOUS
<1> USE DEF Typed
<1>1. CASE DependabotPushes
  <2>1. PICK bump \in Bumps : head' = Bumped(head.number + 1, bump)
    BY <1>1 DEF DependabotPushes, PushHead
  <2>2. bump \in [moves : BOOLEAN, stale : BOOLEAN]
    BY BumpIsRecord
  <2>3. head' \in Heads
    BY <2>1, <2>2 DEF Bumped, Commit, Heads, Uris
  <2> QED BY <1>1, <2>3 DEF DependabotPushes, pull
<1>2. CASE PersonPushes
  <2>1. PICK uri \in HandUris, fresh \in {head.fresh, TRUE} :
          head' = Commit(head.number + 1, head.bump, uri, fresh, "person")
    BY <1>2 DEF PersonPushes, PushHead
  <2>2. uri \in Uris /\ fresh \in BOOLEAN
    BY ConstantsAssumption DEF Uris, Heads
  <2>3. head' \in Heads
    BY <2>1, <2>2 DEF Commit, Heads
  <2> QED BY <1>2, <2>3 DEF PersonPushes, pull
<1>3. CASE CiEnds
  BY <1>3 DEF CiEnds, pull
<1>4. CASE GithubLands
  BY <1>4 DEF GithubLands, pull
<1>5. CASE MergeRun
  BY <1>5 DEF MergeRun, StartMerge, ReadMergeChanges, MergeOnceCiPasses, Enable, pull
<1>6. CASE StartRegenerate
  BY <1>6 DEF StartRegenerate, pull, Runs
<1>7. CASE Checkout
  BY <1>7 DEF Checkout, pull, Runs, Active, Judging
<1>8. CASE ReadDiff \/ ReadQueue
  <2>1. UriMoved \in BOOLEAN
    BY DEF UriMoved
  <2>2. ReadDiff => run' \in Runs
    BY <2>1 DEF ReadDiff, At, Runs, Active, Judging
  <2>3. ReadQueue => run' \in Runs
    BY DEF ReadQueue, At, Runs, Active, Judging
  <2> QED BY <1>8, <2>2, <2>3 DEF ReadDiff, ReadQueue, pull
<1>9. CASE LeavePushedUri
  <2>1. run.step \in Active
    BY <1>9 DEF LeavePushedUri, At, Active, Judging
  <2>2. run' \in Runs
    BY <1>9, <2>1, SteppedIsRun, IdleIsRun DEF LeavePushedUri, Disable, Active, Judging
  <2> QED BY <1>9, <2>2 DEF LeavePushedUri, Disable, pull
<1>10. CASE RegenerateAndCommit
  BY <1>10 DEF RegenerateAndCommit, Judged, Idle, At, pull, Runs, Active, Judging
<1>11. CASE MergeRegenerated
  <2>1. run.step \in Active
    BY <1>11 DEF MergeRegenerated, At, Active, Judging
  <2>2. run' \in Runs
    BY <1>11, <2>1, AfterJudgingIsRun, IdleIsRun DEF MergeRegenerated, Enable
  <2> QED BY <1>11, <2>2 DEF MergeRegenerated, Enable, pull
<1>12. CASE LeaveRegeneratedUri
  <2>1. run.step \in Active
    BY <1>12 DEF LeaveRegeneratedUri, At, Active, Judging
  <2>2. run' \in Runs
    BY <1>12, <2>1, AfterJudgingIsRun, IdleIsRun DEF LeaveRegeneratedUri, Disable
  <2> QED BY <1>12, <2>2 DEF LeaveRegeneratedUri, Disable, pull
<1>13. CASE NothingToJudge
  BY <1>13 DEF NothingToJudge, AfterJudging, Idle, At, pull, Runs, Active, Judging
<1>14. CASE PushRegenerated
  <2>1. Commit(head.number + 1, head.bump, RegeneratedUri(head), TRUE, "workflow") \in Heads
    BY DEF Commit, RegeneratedUri, Golden, Heads, Uris
  <2> QED BY <1>14, <2>1 DEF PushRegenerated, PushHead, Idle, pull, Runs
<1>15. CASE UNCHANGED vars
  BY <1>15 DEF vars
<1> QED
  BY <1>1, <1>2, <1>3, <1>4, <1>5, <1>6, <1>7, <1>8, <1>9, <1>10, <1>11, <1>12, <1>13, <1>14,
     <1>15 DEF Next, RegenerateRun

LEMMA LandInit == Init => LandInv
BY TypedInit DEF Init, LandInv, Queueable, LandsOnlyAfterCi, MajorWaits, Idle

LEMMA LandStep == LandInv /\ [Next]_vars => LandInv'
<1> SUFFICES ASSUME LandInv, [Next]_vars PROVE LandInv'
  OBVIOUS
<1>t. Typed /\ Typed'
  BY TypedStep DEF LandInv
<1>s. run \in Runs
  BY <1>t DEF Typed
<1> USE DEF LandInv, Queueable, LandsOnlyAfterCi, MajorWaits, pull
<1>1. CASE DependabotPushes \/ PersonPushes
  <2>1. ~merged /\ UNCHANGED <<pull, queued, merged, merge_run, run>>
    BY <1>1 DEF DependabotPushes, PersonPushes, MayPush
  <2> QED BY <2>1, <1>t
<1>2. CASE CiEnds
  BY <1>2, <1>t DEF CiEnds
<1>3. CASE GithubLands
  BY <1>3, <1>t DEF GithubLands
<1>4. CASE StartMerge
  BY <1>4, <1>t DEF StartMerge
<1>5. CASE ReadMergeChanges
  BY <1>5, <1>t DEF ReadMergeChanges
<1>6. CASE MergeOnceCiPasses
  BY <1>6, <1>t DEF MergeOnceCiPasses, Enable
<1>7. CASE StartRegenerate \/ Checkout
  BY <1>7, <1>t DEF StartRegenerate, Checkout, At
<1>8. CASE ReadDiff \/ ReadQueue
  <2>1. run'.step # "enabling"
    BY <1>8 DEF ReadDiff, ReadQueue
  <2> QED BY <1>8, <2>1, <1>t DEF ReadDiff, ReadQueue, At
<1>9. CASE LeavePushedUri
  <2>1. run'.step # "enabling"
    BY <1>9, <1>s DEF LeavePushedUri, Disable, Idle, At, Runs, Active, Judging
  <2> QED BY <1>9, <2>1, <1>t DEF LeavePushedUri, Disable, At
<1>10. CASE RegenerateAndCommit
  <2>1. run'.step = "enabling" => kind = "regenerate"
    BY <1>10, <1>s DEF RegenerateAndCommit, Judged, Idle, At, Runs, Active, Judging
  <2> QED BY <1>10, <2>1, <1>t DEF RegenerateAndCommit, At
<1>11. CASE MergeRegenerated
  <2>1. run'.step # "enabling" \/ run' = run
    BY <1>11, <1>s DEF MergeRegenerated, Enable, AfterJudging, Idle, At, Runs, Active, Judging
  <2> QED BY <1>11, <2>1, <1>t DEF MergeRegenerated, Enable, At
<1>12. CASE LeaveRegeneratedUri
  <2>1. run'.step # "enabling"
    BY <1>12, <1>s DEF LeaveRegeneratedUri, Disable, AfterJudging, Idle, At, Runs, Active, Judging
  <2> QED BY <1>12, <2>1, <1>t DEF LeaveRegeneratedUri, Disable, At
<1>13. CASE NothingToJudge
  <2>1. run'.step # "enabling"
    BY <1>13, <1>s DEF NothingToJudge, AfterJudging, Idle, At, Runs, Active, Judging
  <2> QED BY <1>13, <2>1, <1>t DEF NothingToJudge, At
<1>14. CASE PushRegenerated
  BY <1>14, <1>t DEF PushRegenerated, PushHead, At, Idle
<1>15. CASE UNCHANGED vars
  BY <1>15, <1>t DEF vars
<1> QED
  BY <1>1, <1>2, <1>3, <1>4, <1>5, <1>6, <1>7, <1>8, <1>9, <1>10, <1>11, <1>12, <1>13, <1>14,
     <1>15 DEF Next, MergeRun, RegenerateRun

\* Nothing lands but a head `CI` has passed on, however many heads were pushed
\* and whatever was queued for the earlier ones.
THEOREM LandsPassed == Spec => []LandsOnlyAfterCi
<1>1. LandInv => LandsOnlyAfterCi
  BY DEF LandInv
<1> QED BY <1>1, LandInit, LandStep, PTL DEF Spec

\* A major bump lands by itself only on the images `tests/data` is generated in.
THEOREM MajorIsHeld == Spec => []MajorWaits
<1>1. LandInv => MajorWaits
  BY DEF LandInv
<1> QED BY <1>1, LandInit, LandStep, PTL DEF Spec

-------------------------------------------------------------------------------
(* RegeneratedUriWaits *)

LEMMA SteppedFields ==
  ASSUME NEW next, run \in Runs, run.step \in Active, run' = [run EXCEPT !.step = next]
  PROVE  /\ run'.step = next /\ run'.tree = run.tree
         /\ run'.queued = run.queued /\ run'.moved = run.moved
BY DEF Runs, Active, Judging

LEMMA WaitInit == Init => IInv
<1> SUFFICES ASSUME Init PROVE IInv
  OBVIOUS
<1>1. Typed
  BY TypedInit
<1>2. run.step \notin Active
  BY DEF Init, Idle, Active, Judging
<1>3. PICK bump \in Bumps : head = Bumped(1, bump)
  BY DEF Init
<1>4. head.author = "dependabot" /\ head.bump = bump
  BY <1>3 DEF Bumped, Commit
<1>5. kind \notin {"cargo", "regenerate"} => ~bump.moves
  BY DEF Bumps
<1> QED
  BY <1>1, <1>2, <1>4, <1>5 DEF Init, Idle, Active, Judging, IInv, OnlySomeMove, TreeIsPast,
     ReadOfTree, QueueIsTheRuns, PushedIsComputed, PushedUnqueued, RegeneratedUriWaits

\* A step that leaves the pull request, the run and the queue alone.
LEMMA WaitUntouched ==
  ASSUME IInv, Typed', UNCHANGED <<pull, head, queued, run>>,
         kind = "regenerate" => merge_run' # "merging",
         merged' => merged
  PROVE  IInv'
BY DEF IInv, OnlySomeMove, TreeIsPast, ReadOfTree, QueueIsTheRuns, CommitMovesUri, Docker,
   RegeneratedUri, Golden, UriMoved, PushedIsComputed, PushedUnqueued, RegeneratedUriWaits, pull

\* A push over the branch: no run has its head checked out.
LEMMA WaitPushed ==
  ASSUME IInv, Typed', UNCHANGED <<pull, queued, merged, merge_run, run>>, ~merged,
         head'.number = head.number + 1, head'.author # "workflow",
         kind \notin {"cargo", "regenerate"} => ~head'.bump.moves
  PROVE  IInv'
<1>1. head.number \in Nat
  BY DEF IInv, Typed, Heads
<1>2. run.step \in Active => run.tree.number \in Nat
  BY DEF IInv, Typed, Runs, Active, Judging, Heads
<1>3. run.step \in Active => run.tree.number <= head'.number /\ run.tree # head'
  BY <1>1, <1>2 DEF IInv, TreeIsPast
<1>4. OnlySomeMove' /\ TreeIsPast' /\ ReadOfTree'
  BY <1>3 DEF IInv, OnlySomeMove, TreeIsPast, ReadOfTree, pull, Active
<1>5. QueueIsTheRuns'
  BY DEF IInv, QueueIsTheRuns, CommitMovesUri, RegeneratedUri, Docker, Golden, pull
<1> QED
  BY <1>4, <1>5 DEF IInv, PushedIsComputed, PushedUnqueued, RegeneratedUriWaits

\* A step of a run that goes on with the tree it has, whatever it does with the queue.
LEMMA WaitStepped ==
  ASSUME IInv, Typed', UNCHANGED <<pull, head, merge_run>>,
         run.step \in Active, run' = Idle \/ run'.step \in Judging,
         run'.step \in Judging => run'.tree = run.tree,
         ReadOfTree', QueueIsTheRuns', PushedUnqueued', RegeneratedUriWaits'
  PROVE  IInv'
<1>1. run'.step \in Active => run'.step \in Judging
  BY DEF Idle, Active, Judging
<1>2. OnlySomeMove' /\ TreeIsPast'
  BY <1>1 DEF IInv, OnlySomeMove, TreeIsPast, pull
<1> QED
  BY <1>2 DEF IInv, PushedIsComputed, Docker, Golden, pull

\* Enabling or disabling is followed by the push, if there is one.
LEMMA AfterJudgingFields ==
  ASSUME run \in Runs, run.step \in Active, run' = AfterJudging
  PROVE  \/ run' = Idle
         \/ /\ run'.step = "pushing" /\ run'.tree = run.tree
            /\ run'.queued = run.queued /\ run'.moved = run.moved
BY SteppedFields DEF AfterJudging

LEMMA WaitMergeRun == IInv /\ Typed' /\ MergeRun => IInv'
<1> SUFFICES ASSUME IInv, Typed', MergeRun PROVE IInv'
  OBVIOUS
<1>1. CASE StartMerge
  BY <1>1, WaitUntouched DEF StartMerge, pull
<1>2. CASE ReadMergeChanges
  BY <1>2, WaitUntouched DEF ReadMergeChanges, pull
<1>3. CASE MergeOnceCiPasses
  <2>1. kind # "regenerate"
    BY <1>3 DEF MergeOnceCiPasses, IInv, QueueIsTheRuns
  <2>2. Docker => kind = "pypa"
    BY <2>1 DEF Docker
  <2>3. Docker /\ head.author = "workflow" => ~UriMoved
    BY <2>2 DEF IInv, PushedIsComputed, OnlySomeMove, Golden, UriMoved
  <2>4. UNCHANGED <<kind, head, run>>
    BY <1>3 DEF MergeOnceCiPasses, pull
  <2>5. OnlySomeMove' /\ TreeIsPast' /\ ReadOfTree' /\ PushedIsComputed'
    BY <2>4 DEF IInv, OnlySomeMove, TreeIsPast, ReadOfTree, PushedIsComputed, Docker, Golden
  <2>6. QueueIsTheRuns'
    BY <2>1, <2>4 DEF QueueIsTheRuns
  <2>7. PushedUnqueued' /\ RegeneratedUriWaits'
    BY <2>3, <2>4 DEF PushedUnqueued, RegeneratedUriWaits, Docker, UriMoved
  <2> QED BY <2>5, <2>6, <2>7 DEF IInv
<1> QED BY <1>1, <1>2, <1>3 DEF MergeRun

LEMMA WaitCheckout == IInv /\ Typed' /\ (StartRegenerate \/ Checkout) => IInv'
<1> SUFFICES ASSUME IInv, Typed', StartRegenerate \/ Checkout PROVE IInv'
  OBVIOUS
<1>1. UNCHANGED <<kind, head, queued, merge_run, merged>>
  BY DEF StartRegenerate, Checkout, pull
<1>2. PushedIsComputed' /\ PushedUnqueued' /\ RegeneratedUriWaits'
  BY <1>1 DEF IInv, PushedIsComputed, PushedUnqueued, RegeneratedUriWaits, Docker, Golden, UriMoved
<1>3. CASE StartRegenerate
  <2>1. run'.step \notin Active
    BY <1>3 DEF StartRegenerate, Active, Judging
  <2>2. OnlySomeMove' /\ TreeIsPast' /\ ReadOfTree' /\ QueueIsTheRuns'
    BY <1>1, <2>1 DEF IInv, OnlySomeMove, TreeIsPast, ReadOfTree, QueueIsTheRuns, Active, Judging
  <2> QED BY <1>2, <2>2 DEF IInv
<1>4. CASE Checkout
  <2>1. /\ run'.step = IF Docker THEN "reading" ELSE "generating"
        /\ run'.tree = head
    BY <1>4 DEF Checkout
  <2>2. head.number \in Nat
    BY DEF IInv, Typed, Heads
  <2>3. OnlySomeMove' /\ TreeIsPast' /\ ReadOfTree'
    BY <1>1, <2>1, <2>2 DEF IInv, OnlySomeMove, TreeIsPast, ReadOfTree, Docker, Judging
  <2>4. QueueIsTheRuns'
    BY <1>1, <2>1 DEF IInv, QueueIsTheRuns, Docker, Judging
  <2> QED BY <1>2, <2>3, <2>4 DEF IInv
<1> QED BY <1>3, <1>4

LEMMA WaitRead == IInv /\ Typed' /\ (ReadDiff \/ ReadQueue) => IInv'
<1> SUFFICES ASSUME IInv, Typed', ReadDiff \/ ReadQueue PROVE IInv'
  OBVIOUS
<1>1. /\ run.step \in Active
      /\ UNCHANGED <<pull, head, queued, merge_run, merged>> /\ run'.tree = run.tree
  BY DEF ReadDiff, ReadQueue, At, Active, Judging
<1>2. PushedUnqueued' /\ RegeneratedUriWaits'
  BY <1>1 DEF IInv, PushedUnqueued, RegeneratedUriWaits, Docker, UriMoved, pull
<1>3. CASE ReadDiff
  <2>1. run'.step = "asking" /\ run'.moved = UriMoved
    BY <1>3 DEF ReadDiff
  <2>2. ReadOfTree'
    BY <1>1, <2>1 DEF ReadOfTree, UriMoved, pull
  <2>3. QueueIsTheRuns'
    BY <1>1, <2>1 DEF IInv, QueueIsTheRuns, Judging, pull
  <2>4. run'.step \in Judging
    BY <2>1 DEF Judging
  <2> QED BY <1>1, <1>2, <2>2, <2>3, <2>4, WaitStepped
<1>4. CASE ReadQueue
  <2>1. /\ run.step = "asking" /\ run'.queued = queued /\ run'.moved = run.moved
        /\ run'.step = IF queued /\ run.moved THEN "leaving" ELSE "generating"
    BY <1>4 DEF ReadQueue, At
  <2>2. ReadOfTree'
    BY <1>1, <2>1 DEF IInv, ReadOfTree, Docker, Judging, pull
  <2>3. QueueIsTheRuns'
    BY <1>1, <2>1 DEF IInv, QueueIsTheRuns, Judging, pull
  <2>4. run'.step \in Judging
    BY <2>1 DEF Judging
  <2> QED BY <1>1, <1>2, <2>2, <2>3, <2>4, WaitStepped
<1> QED BY <1>3, <1>4

LEMMA WaitGenerated == IInv /\ Typed' /\ RegenerateAndCommit => IInv'
<1> SUFFICES ASSUME IInv, Typed', RegenerateAndCommit PROVE IInv'
  OBVIOUS
<1>1. /\ run.step = "generating" /\ run.step \in Active
      /\ UNCHANGED <<pull, head, queued, merge_run, merged>>
  BY DEF RegenerateAndCommit, At, Active, Judging
<1>2. PushedUnqueued' /\ RegeneratedUriWaits'
  BY <1>1 DEF IInv, PushedUnqueued, RegeneratedUriWaits, Docker, UriMoved, pull
<1>3. CASE run' = Idle
  <2>1. ReadOfTree' /\ QueueIsTheRuns'
    BY <1>1, <1>3 DEF IInv, ReadOfTree, QueueIsTheRuns, Judging, Idle, pull
  <2>2. run'.step \notin Judging
    BY <1>3 DEF Idle, Judging
  <2> QED BY <1>1, <1>2, <1>3, <2>1, <2>2, WaitStepped
<1>4. CASE run' = [run EXCEPT !.step = Judged]
  <2>1. /\ run'.step = Judged /\ run'.tree = run.tree
        /\ run'.queued = run.queued /\ run'.moved = run.moved
    BY <1>1, <1>4, SteppedFields DEF IInv, Typed
  <2>2. Judged \in {"enabling", "disabling", "judged"}
    BY DEF Judged
  <2>3. ReadOfTree'
    BY <1>1, <2>1, <2>2 DEF IInv, ReadOfTree, Docker, Judging, pull
  <2>4. CommitMovesUri' <=> CommitMovesUri
    BY <1>1, <2>1 DEF CommitMovesUri, RegeneratedUri, Docker, Golden, pull
  <2>5. QueueIsTheRuns'
    BY <1>1, <2>1, <2>2, <2>4 DEF IInv, QueueIsTheRuns, Judged, Judging, pull
  <2>6. run'.step \in Judging
    BY <2>1, <2>2 DEF Judging
  <2> QED BY <1>1, <1>2, <2>1, <2>3, <2>5, <2>6, WaitStepped
<1> QED BY <1>3, <1>4 DEF RegenerateAndCommit

\* The queue after `disabling` is empty; `enabling` queues what moves no URI.
LEMMA WaitQueued ==
  IInv /\ Queueable /\ Typed' /\ (LeavePushedUri \/ MergeRegenerated \/ LeaveRegeneratedUri)
    => IInv'
<1> SUFFICES ASSUME IInv, Queueable, Typed',
                    LeavePushedUri \/ MergeRegenerated \/ LeaveRegeneratedUri
             PROVE  IInv'
  OBVIOUS
<1>1. /\ run.step \in {"leaving", "enabling", "disabling"} /\ run.step \in Active
      /\ UNCHANGED <<pull, head, merge_run>> /\ ~merged
  BY DEF LeavePushedUri, MergeRegenerated, LeaveRegeneratedUri, At, Active, Judging
<1>2. run \in Runs
  BY DEF IInv, Typed
<1>3. \/ run' = Idle
      \/ /\ run'.tree = run.tree /\ run'.queued = run.queued /\ run'.moved = run.moved
         /\ run'.step \in {"generating", "pushing"}
         /\ run'.step = "generating" <=> LeavePushedUri
  <2>1. CASE LeavePushedUri
    BY <1>1, <1>2, <2>1, SteppedFields DEF LeavePushedUri, Disable
  <2>2. CASE MergeRegenerated
    <3>1. run' = Idle \/ run' = AfterJudging
      BY <2>2 DEF MergeRegenerated, Enable
    <3>2. ~LeavePushedUri
      BY <2>2 DEF MergeRegenerated, LeavePushedUri, At
    <3> QED BY <1>1, <1>2, <3>1, <3>2, AfterJudgingFields
  <2>3. CASE LeaveRegeneratedUri
    <3>1. run' = Idle \/ run' = AfterJudging
      BY <2>3 DEF LeaveRegeneratedUri, Disable
    <3>2. ~LeavePushedUri
      BY <2>3 DEF LeaveRegeneratedUri, LeavePushedUri, At
    <3> QED BY <1>1, <1>2, <3>1, <3>2, AfterJudgingFields
  <2> QED BY <2>1, <2>2, <2>3
<1>4. ReadOfTree'
  BY <1>1, <1>3 DEF IInv, ReadOfTree, Docker, Judging, Idle, pull
<1>5. run' = Idle \/ run'.step \in Judging
  BY <1>3 DEF Judging
<1>6. CASE MergeRegenerated
  <2>1. run.step = "enabling" /\ kind = "regenerate"
    BY <1>6 DEF MergeRegenerated, At, Queueable
  <2>2. ~run.moved /\ ~CommitMovesUri
    BY <2>1 DEF IInv, QueueIsTheRuns
  <2>3. Docker /\ head.author = "workflow" => ~UriMoved
    BY <1>1, <2>1, <2>2 DEF IInv, TreeIsPast, ReadOfTree, Judging, UriMoved
  <2>4. PushedUnqueued' /\ RegeneratedUriWaits'
    BY <1>1, <2>3 DEF PushedUnqueued, RegeneratedUriWaits, Docker, UriMoved, pull
  <2>5. \/ run' = Idle
        \/ run'.step = "pushing" /\ run'.tree = run.tree /\ run'.moved = run.moved
    BY <1>3, <1>6, <2>1 DEF LeavePushedUri, At
  <2>6. CASE run' = Idle
    <3>1. QueueIsTheRuns'
      BY <1>1, <2>6 DEF IInv, QueueIsTheRuns, Judging, Idle, pull
    <3>2. run'.step \notin Judging
      BY <2>6 DEF Idle, Judging
    <3> QED BY <1>1, <1>4, <2>4, <2>6, <3>1, <3>2, WaitStepped
  <2>7. CASE run'.step = "pushing" /\ run'.tree = run.tree /\ run'.moved = run.moved
    <3>1. ~CommitMovesUri'
      BY <1>1, <2>2, <2>7 DEF CommitMovesUri, RegeneratedUri, Docker, Golden, pull
    <3>2. QueueIsTheRuns'
      BY <1>1, <2>2, <2>7, <3>1 DEF IInv, QueueIsTheRuns, Judging, pull
    <3>3. run'.step \in Judging
      BY <2>7 DEF Judging
    <3> QED BY <1>1, <1>4, <2>4, <2>7, <3>2, <3>3, WaitStepped
  <2> QED BY <2>5, <2>6, <2>7
<1>7. CASE LeavePushedUri \/ LeaveRegeneratedUri
  <2>1. ~queued' /\ ~merged'
    BY <1>1, <1>7 DEF LeavePushedUri, LeaveRegeneratedUri, Disable
  <2>2. QueueIsTheRuns'
    BY <1>1, <1>3, <2>1 DEF IInv, QueueIsTheRuns, Judging, Idle, pull
  <2>3. PushedUnqueued' /\ RegeneratedUriWaits'
    BY <2>1 DEF PushedUnqueued, RegeneratedUriWaits
  <2> QED BY <1>1, <1>3, <1>4, <1>5, <2>2, <2>3, WaitStepped DEF Idle, Judging
<1> QED BY <1>6, <1>7

LEMMA WaitJudged == IInv /\ Typed' /\ NothingToJudge => IInv'
<1> SUFFICES ASSUME IInv, Typed', NothingToJudge PROVE IInv'
  OBVIOUS
<1>1. /\ run.step = "judged" /\ run.step \in Active
      /\ UNCHANGED <<pull, head, queued, merge_run, merged>>
  BY DEF NothingToJudge, At, Active, Judging
<1>2. \/ run' = Idle
      \/ /\ run'.step = "pushing" /\ run'.tree = run.tree
         /\ run'.queued = run.queued /\ run'.moved = run.moved
  BY <1>1, AfterJudgingFields DEF NothingToJudge, IInv, Typed
<1>3. ReadOfTree'
  BY <1>1, <1>2 DEF IInv, ReadOfTree, Docker, Judging, Idle, pull
<1>4. PushedUnqueued' /\ RegeneratedUriWaits'
  BY <1>1 DEF IInv, PushedUnqueued, RegeneratedUriWaits, Docker, UriMoved, pull
<1>5. CASE run' = Idle
  <2>1. QueueIsTheRuns'
    BY <1>1, <1>5 DEF IInv, QueueIsTheRuns, Judging, Idle, pull
  <2>2. run'.step \notin Judging
    BY <1>5 DEF Idle, Judging
  <2> QED BY <1>1, <1>3, <1>4, <1>5, <2>1, <2>2, WaitStepped
<1>6. CASE /\ run'.step = "pushing" /\ run'.tree = run.tree
           /\ run'.queued = run.queued /\ run'.moved = run.moved
  <2>1. CommitMovesUri' <=> CommitMovesUri
    BY <1>1, <1>6 DEF CommitMovesUri, RegeneratedUri, Docker, Golden, pull
  <2>2. QueueIsTheRuns'
    BY <1>1, <1>6, <2>1 DEF IInv, QueueIsTheRuns, Judging, pull
  <2>3. run'.step \in Judging
    BY <1>6 DEF Judging
  <2> QED BY <1>1, <1>3, <1>4, <1>6, <2>2, <2>3, WaitStepped
<1> QED BY <1>2, <1>5, <1>6

LEMMA WaitPush == IInv /\ Typed' /\ PushRegenerated => IInv'
<1> SUFFICES ASSUME IInv, Typed', PushRegenerated PROVE IInv'
  OBVIOUS
<1>1. /\ run.step = "pushing" /\ run.step \in Active /\ run.step \in Judging /\ ~merged
      /\ UNCHANGED <<pull, queued, merge_run, merged>> /\ run' = Idle
  BY DEF PushRegenerated, At, Active, Judging
<1>2. run'.step \notin Active /\ run'.step \notin Judging /\ run'.step = "idle"
  BY <1>1 DEF Idle, Active, Judging
<1>3. TreeIsPast' /\ ReadOfTree' /\ RegeneratedUriWaits'
  BY <1>1, <1>2 DEF TreeIsPast, ReadOfTree, RegeneratedUriWaits
<1>4. QueueIsTheRuns'
  BY <1>1, <1>2 DEF IInv, QueueIsTheRuns, Judging, pull
<1>5. CASE head # run.tree
  <2>1. head' = head
    BY <1>5 DEF PushRegenerated
  <2>2. OnlySomeMove' /\ PushedIsComputed' /\ PushedUnqueued'
    BY <1>1, <1>2, <2>1 DEF IInv, OnlySomeMove, PushedIsComputed, PushedUnqueued, Docker, Golden,
       UriMoved, pull
  <2> QED BY <1>3, <1>4, <2>2 DEF IInv
<1>6. CASE head = run.tree
  <2>1. /\ head'.author = "workflow" /\ head'.bump = head.bump
        /\ head'.uri = RegeneratedUri(head)
    BY <1>6 DEF PushRegenerated, PushHead, Commit
  <2>2. OnlySomeMove' /\ PushedIsComputed'
    BY <1>1, <1>2, <2>1 DEF IInv, OnlySomeMove, PushedIsComputed, Docker, RegeneratedUri, Golden,
       pull
  <2>3. ASSUME Docker, head'.uri # "base" PROVE ~queued
    <3>1. kind = "regenerate"
      BY <2>1, <2>3 DEF IInv, OnlySomeMove, Docker, RegeneratedUri, Golden
    <3>2. CASE CommitMovesUri
      BY <1>1, <3>1, <3>2 DEF IInv, QueueIsTheRuns
    <3>3. CASE ~CommitMovesUri
      <4>1. run.moved
        BY <1>1, <1>6, <2>1, <2>3, <3>3 DEF IInv, ReadOfTree, CommitMovesUri
      <4> QED BY <1>1, <3>1, <4>1 DEF IInv, QueueIsTheRuns, Judging
    <3> QED BY <3>2, <3>3
  <2>4. PushedUnqueued'
    BY <1>1, <2>3 DEF PushedUnqueued, Docker, UriMoved, pull
  <2> QED BY <1>3, <1>4, <2>2, <2>4 DEF IInv
<1> QED BY <1>5, <1>6

LEMMA WaitStep == IInv /\ LandInv /\ [Next]_vars => IInv'
<1> SUFFICES ASSUME IInv, LandInv, [Next]_vars PROVE IInv'
  OBVIOUS
<1>t. Typed'
  BY TypedStep DEF LandInv
<1>1. CASE DependabotPushes
  <2>1. PICK bump \in Bumps : head' = Bumped(head.number + 1, bump)
    BY <1>1 DEF DependabotPushes, PushHead
  <2>2. kind \notin {"cargo", "regenerate"} => ~bump.moves
    BY DEF Bumps
  <2>3. head'.number = head.number + 1 /\ head'.author # "workflow" /\ head'.bump = bump
    BY <2>1 DEF Bumped, Commit
  <2>4. UNCHANGED <<pull, queued, merged, merge_run, run>> /\ ~merged
    BY <1>1 DEF DependabotPushes, MayPush
  <2> QED BY <1>t, <2>2, <2>3, <2>4, WaitPushed
<1>2. CASE PersonPushes
  <2>1. /\ head'.number = head.number + 1 /\ head'.author # "workflow"
        /\ head'.bump = head.bump
    BY <1>2 DEF PersonPushes, PushHead, Commit
  <2>2. UNCHANGED <<pull, queued, merged, merge_run, run>> /\ ~merged
    BY <1>2 DEF PersonPushes, MayPush
  <2>3. kind \notin {"cargo", "regenerate"} => ~head'.bump.moves
    BY <2>1 DEF IInv, OnlySomeMove
  <2> QED BY <1>t, <2>1, <2>2, <2>3, WaitPushed
<1>3. CASE CiEnds
  BY <1>3, <1>t, WaitUntouched DEF CiEnds, IInv, QueueIsTheRuns
<1>4. CASE GithubLands
  <2>1. UNCHANGED <<kind, head, queued, merge_run, run>> /\ queued
    BY <1>4 DEF GithubLands, pull
  <2>2. RegeneratedUriWaits'
    BY <2>1 DEF IInv, PushedUnqueued, RegeneratedUriWaits, Docker, UriMoved
  <2> QED
    BY <1>t, <2>1, <2>2 DEF IInv, OnlySomeMove, TreeIsPast, ReadOfTree, QueueIsTheRuns,
       CommitMovesUri, RegeneratedUri, Docker, Golden, UriMoved, PushedIsComputed, PushedUnqueued
<1>5. CASE MergeRun
  BY <1>5, <1>t, WaitMergeRun
<1>6. CASE StartRegenerate \/ Checkout
  BY <1>6, <1>t, WaitCheckout
<1>7. CASE ReadDiff \/ ReadQueue
  BY <1>7, <1>t, WaitRead
<1>8. CASE RegenerateAndCommit
  BY <1>8, <1>t, WaitGenerated
<1>9. CASE LeavePushedUri \/ MergeRegenerated \/ LeaveRegeneratedUri
  BY <1>9, <1>t, WaitQueued DEF LandInv
<1>10. CASE NothingToJudge
  BY <1>10, <1>t, WaitJudged
<1>11. CASE PushRegenerated
  BY <1>11, <1>t, WaitPush
<1>12. CASE UNCHANGED vars
  BY <1>12, <1>t, WaitUntouched DEF vars, pull, IInv, QueueIsTheRuns
<1> QED
  BY <1>1, <1>2, <1>3, <1>4, <1>5, <1>6, <1>7, <1>8, <1>9, <1>10, <1>11, <1>12
     DEF Next, RegenerateRun

\* A golden URI that `just regenerate` rewrote never lands on a docker branch
\* without a person, through any number of pushes by Dependabot and by people.
THEOREM RegeneratedIsHeld == Spec => []RegeneratedUriWaits
<1>1. Init => IInv /\ LandInv
  BY WaitInit, LandInit
<1>2. IInv /\ LandInv /\ [Next]_vars => IInv' /\ LandInv'
  BY WaitStep, LandStep
<1>3. IInv => RegeneratedUriWaits
  BY DEF IInv
<1> QED BY <1>1, <1>2, <1>3, PTL DEF Spec

-------------------------------------------------------------------------------
(* BotsMoveNoUri *)

\* Where only the bots push, a head that moves a URI is the workflow's.
OnlyTheRunMoves ==
  calm =>
    /\ head.author \in {"dependabot", "workflow"}
    /\ head.author = "dependabot" \/ ~Docker => ~UriMoved

LEMMA MovesInit == Init => OnlyTheRunMoves
<1> SUFFICES ASSUME Init PROVE OnlyTheRunMoves
  OBVIOUS
<1>1. head.author = "dependabot" /\ head.uri = "base"
  BY DEF Init, Bumped, Commit
<1> QED BY <1>1 DEF OnlyTheRunMoves, UriMoved

LEMMA MovesStep == OnlyTheRunMoves /\ [Next]_vars => OnlyTheRunMoves'
<1> SUFFICES ASSUME OnlyTheRunMoves, [Next]_vars PROVE OnlyTheRunMoves'
  OBVIOUS
<1>1. CASE DependabotPushes
  <2>1. head'.author = "dependabot" /\ head'.uri = "base"
    BY <1>1 DEF DependabotPushes, PushHead, Bumped, Commit
  <2> QED BY <2>1 DEF OnlyTheRunMoves, UriMoved
<1>2. CASE PersonPushes
  BY <1>2 DEF PersonPushes, OnlyTheRunMoves, pull
<1>3. CASE PushRegenerated /\ head' # head
  <2>1. head'.author = "workflow" /\ head'.uri = RegeneratedUri(head)
    BY <1>3 DEF PushRegenerated, PushHead, Commit
  <2>2. UNCHANGED <<calm, kind>>
    BY <1>3 DEF PushRegenerated, pull
  <2>3. ~Docker => head'.uri = head.uri
    BY <2>1 DEF RegeneratedUri
  <2> QED BY <2>1, <2>2, <2>3 DEF OnlyTheRunMoves, UriMoved, Docker
<1>4. CASE head' = head /\ UNCHANGED <<calm, kind>>
  BY <1>4 DEF OnlyTheRunMoves, UriMoved, Docker
<1>5. UNCHANGED <<calm, kind>>
  BY DEF Next, DependabotPushes, PersonPushes, CiEnds, GithubLands, MergeRun, StartMerge,
     ReadMergeChanges, MergeOnceCiPasses, RegenerateRun, StartRegenerate, Checkout, ReadDiff,
     ReadQueue, LeavePushedUri, RegenerateAndCommit, MergeRegenerated, LeaveRegeneratedUri,
     NothingToJudge, PushRegenerated, pull, vars
<1>6. DependabotPushes \/ PersonPushes \/ PushRegenerated \/ head' = head
  BY DEF Next, CiEnds, GithubLands, MergeRun, StartMerge, ReadMergeChanges, MergeOnceCiPasses,
     RegenerateRun, StartRegenerate, Checkout, ReadDiff, ReadQueue, LeavePushedUri,
     RegenerateAndCommit, MergeRegenerated, LeaveRegeneratedUri, NothingToJudge, vars
<1> QED BY <1>1, <1>2, <1>3, <1>4, <1>5, <1>6

\* Where nobody else pushes, whatever the bots push and whatever was queued when,
\* no golden URI lands moved: those of a docker branch by `RegeneratedIsHeld`.
THEOREM BotsAloneMoveNone == Spec => []BotsMoveNoUri
<1>1. OnlyTheRunMoves /\ RegeneratedUriWaits => BotsMoveNoUri
  BY DEF OnlyTheRunMoves, RegeneratedUriWaits, BotsMoveNoUri
<1>2. Spec => []OnlyTheRunMoves
  BY MovesInit, MovesStep, PTL DEF Spec
<1> QED BY <1>1, <1>2, RegeneratedIsHeld, PTL

-------------------------------------------------------------------------------
(* LoopEnds *)

\* What the workflow pushed has nothing left to commit, and only a commit is pushed.
NothingLeft ==
  /\ head.author = "workflow" => Regenerated(head) = head
  /\ run.step = "pushing" => Committed(run.tree)

LEMMA LeftInit == Init => NothingLeft
<1> SUFFICES ASSUME Init PROVE NothingLeft
  OBVIOUS
<1>1. head.author = "dependabot" /\ run.step = "idle"
  BY DEF Init, Bumped, Commit, Idle
<1> QED BY <1>1 DEF NothingLeft

\* Regenerating twice writes nothing the second time.
LEMMA PushedIsRegenerated ==
  ASSUME kind' = kind,
         head' = Commit(head.number + 1, head.bump, RegeneratedUri(head), TRUE, "workflow")
  PROVE  (Regenerated(head) = head)'
BY DEF Regenerated, RegeneratedUri, Commit, Docker, Golden

LEMMA LeftUntouched ==
  ASSUME NothingLeft, kind' = kind, head' = head,
         run'.step = "pushing" => run.step = "pushing" /\ run'.tree = run.tree
  PROVE  NothingLeft'
BY DEF NothingLeft, Committed, Regenerated, RegeneratedUri, Commit, Docker, Golden

LEMMA LeftStep == Typed /\ NothingLeft /\ [Next]_vars => NothingLeft'
<1> SUFFICES ASSUME Typed, NothingLeft, [Next]_vars PROVE NothingLeft'
  OBVIOUS
<1>t. run \in Runs
  BY DEF Typed
<1>1. CASE DependabotPushes \/ PersonPushes
  <2>1. head'.author # "workflow" /\ run' = run /\ kind' = kind
    BY <1>1 DEF DependabotPushes, PersonPushes, PushHead, Bumped, Commit, pull
  <2> QED
    BY <2>1 DEF NothingLeft, Committed, Regenerated, RegeneratedUri, Docker, Golden
<1>2. CASE CiEnds \/ GithubLands \/ MergeRun
  BY <1>2, LeftUntouched DEF CiEnds, GithubLands, MergeRun, StartMerge, ReadMergeChanges,
     MergeOnceCiPasses, pull
<1>3. CASE StartRegenerate \/ Checkout \/ ReadDiff \/ ReadQueue
  <2>1. run'.step # "pushing" /\ head' = head /\ kind' = kind
    BY <1>3 DEF StartRegenerate, Checkout, ReadDiff, ReadQueue, pull
  <2> QED BY <2>1, LeftUntouched
<1>4. CASE LeavePushedUri \/ RegenerateAndCommit
  <2>1. run.step \in Active /\ head' = head /\ kind' = kind
    BY <1>4 DEF LeavePushedUri, RegenerateAndCommit, At, Active, Judging, pull
  <2>2. \/ run' = Idle
        \/ \E next \in {"generating", "enabling", "disabling", "judged"} :
             run' = [run EXCEPT !.step = next]
    BY <1>4 DEF LeavePushedUri, Disable, RegenerateAndCommit, Judged
  <2>3. run'.step # "pushing"
    BY <1>t, <2>1, <2>2, SteppedFields DEF Idle
  <2> QED BY <2>1, <2>3, LeftUntouched
<1>5. CASE MergeRegenerated \/ LeaveRegeneratedUri \/ NothingToJudge
  <2>1. run.step \in Active /\ head' = head /\ kind' = kind
    BY <1>5 DEF MergeRegenerated, LeaveRegeneratedUri, NothingToJudge, At, Active, Judging, pull
  <2>2. run' = Idle \/ run' = AfterJudging
    BY <1>5 DEF MergeRegenerated, LeaveRegeneratedUri, NothingToJudge, Enable, Disable
  <2>3. run'.step = "pushing" => Committed(run.tree) /\ run'.tree = run.tree
    BY <1>t, <2>1, <2>2, AfterJudgingFields DEF AfterJudging, Idle
  <2> QED
    BY <2>1, <2>3 DEF NothingLeft, Committed, Regenerated, RegeneratedUri, Commit, Docker, Golden
<1>6. CASE PushRegenerated
  <2>1. run'.step # "pushing" /\ kind' = kind
    BY <1>6 DEF PushRegenerated, Idle, pull
  <2>2. CASE head = run.tree
    <3>1. (Regenerated(head) = head)'
      BY <1>6, <2>1, <2>2, PushedIsRegenerated DEF PushRegenerated, PushHead
    <3> QED BY <2>1, <3>1 DEF NothingLeft
  <2>3. CASE head # run.tree
    BY <1>6, <2>1, <2>3, LeftUntouched DEF PushRegenerated
  <2> QED BY <2>2, <2>3
<1>7. CASE UNCHANGED vars
  BY <1>7, LeftUntouched DEF vars
<1> QED BY <1>1, <1>2, <1>3, <1>4, <1>5, <1>6, <1>7 DEF Next, RegenerateRun

LEMMA LoopStep ==
  NothingLeft /\ [Next]_vars =>
    [head.author = "workflow" /\ head'.author = "workflow" => head' = head]_vars
<1> SUFFICES ASSUME NothingLeft, Next, head.author = "workflow", head'.author = "workflow"
             PROVE  head' = head
  OBVIOUS
<1>1. CASE DependabotPushes \/ PersonPushes
  BY <1>1 DEF DependabotPushes, PersonPushes, PushHead, Bumped, Commit
<1>2. CASE CiEnds \/ GithubLands \/ MergeRun
  BY <1>2 DEF CiEnds, GithubLands, MergeRun, StartMerge, ReadMergeChanges, MergeOnceCiPasses
<1>3. CASE PushRegenerated
  <2>1. head # run.tree
    BY <1>3 DEF NothingLeft, PushRegenerated, At, Committed
  <2> QED BY <1>3, <2>1 DEF PushRegenerated
<1>4. CASE RegenerateRun /\ ~PushRegenerated
  BY <1>4 DEF RegenerateRun, StartRegenerate, Checkout, ReadDiff, ReadQueue, LeavePushedUri,
     RegenerateAndCommit, MergeRegenerated, LeaveRegeneratedUri, NothingToJudge
<1> QED BY <1>1, <1>2, <1>3, <1>4 DEF Next

\* The workflow never pushes on top of its own push: the run it starts that way
\* finds nothing to commit.
THEOREM NoPushOnItsOwn == Spec => LoopEnds
<1>1. Init => Typed /\ NothingLeft
  BY TypedInit, LeftInit
<1>2. Typed /\ NothingLeft /\ [Next]_vars => Typed' /\ NothingLeft'
  BY TypedStep, LeftStep
<1>3. NothingLeft /\ [Next]_vars =>
        [head.author = "workflow" /\ head'.author = "workflow" => head' = head]_vars
  BY LoopStep
<1> QED BY <1>1, <1>2, <1>3, PTL DEF Spec, LoopEnds

-------------------------------------------------------------------------------
(* What the gate and the release promise. *)

Results == {"pending", "success", "failure", "cancelled", "skipped"}

\* A check is skipped for its paths, or because `changes` came to nothing.
SkippedForReason ==
  /\ result["changes"] # "skipped"
  /\ \A check \in Checks :
       result[check] = "skipped" =>
         \/ result["changes"] \in {"failure", "cancelled"}
         \/ result["changes"] = "success" /\ ~Selected(check)

\* The gate's verdict is of the results as they are.
GateIsCurrent ==
  /\ result["gate"] # "pending" => Finished(GateNeeds)
  /\ result["gate"] = "success" => ~Refused(GateNeeds)

\* An attempt to release goes on only while what it waited for stands, and what
\* it is done with is on PyPI.
Releasing ==
  /\ step \in {"waiting", "versions", "uploading", "attaching"}
  /\ step # "waiting" =>
       /\ result["release"] = "pending" /\ OnTag /\ Succeeded(ReleaseNeeds)
       /\ \A file \in uploaded : Built(file) \in pypi
  /\ step \in {"uploading", "attaching"} => versioned
  /\ step = "attaching" => uploaded = Files

CiInv ==
  /\ result \in [Jobs -> Results]
  /\ SkippedForReason /\ GateIsCurrent /\ Releasing /\ GreenIsPublished

LEMMA OwnJobs ==
  /\ {"changes", "gate", "release"} \subseteq Jobs /\ Checks \subseteq Jobs
  /\ "changes" \notin Checks /\ "gate" \notin Checks /\ "release" \notin Checks
  /\ Needs("changes") = {} /\ Needs("gate") = GateNeeds /\ Needs("release") = ReleaseNeeds
  /\ \A check \in Checks : Needs(check) = {"changes"}
  /\ GateNeeds = Checks \cup {"changes"} /\ ReleaseNeeds \subseteq GateNeeds
BY ChecksAssumption DEF Jobs, Needs, GateNeeds, ReleaseNeeds

LEMMA CiInitHolds == CiInit => CiInv
BY OwnJobs DEF CiInit, CiInv, SkippedForReason, GateIsCurrent, Releasing, GreenIsPublished, Results

\* A job other than the gate and `changes` ends, and one the gate waits on was not over.
LEMMA OneEnds ==
  ASSUME CiInv, NEW job \in Checks \cup {"changes"}, result[job] = "pending",
         NEW r \in {"success", "failure", "skipped"},
         result' = [result EXCEPT ![job] = r],
         r = "skipped" => /\ job \in Checks
                          /\ result["changes"] # "pending"
                          /\ result["changes"] = "success" => ~Selected(job),
         UNCHANGED <<push, step, uploaded, published>>
  PROVE  CiInv'
<1> USE OwnJobs DEF push, published
<1>1. /\ result' \in [Jobs -> Results]
      /\ result'[job] = r /\ \A j \in Jobs \ {job} : result'[j] = result[j]
  BY DEF CiInv, Results
<1>2. \A check \in Checks : Selected(check)' <=> Selected(check)
  BY DEF Selected
<1>3. result["changes"] \in {"pending", "success", "failure", "cancelled"}
  BY DEF CiInv, Results, SkippedForReason
<1>4. SkippedForReason'
  <2>1. CASE job = "changes"
    BY <1>1, <1>2, <1>3, <2>1 DEF CiInv, SkippedForReason
  <2>2. CASE job \in Checks
    BY <1>1, <1>2, <1>3, <2>2 DEF CiInv, SkippedForReason
  <2> QED BY <2>1, <2>2
<1>5. result["gate"] = "pending" /\ result'["gate"] = "pending"
  BY <1>1 DEF CiInv, GateIsCurrent, Finished
<1>6. GateIsCurrent'
  BY <1>5 DEF GateIsCurrent
<1>7. result'["release"] = result["release"]
  BY <1>1
<1>8. Releasing'
  <2>1. Succeeded(ReleaseNeeds) => Succeeded(ReleaseNeeds)'
    BY <1>1 DEF Succeeded
  <2> QED BY <1>7, <2>1 DEF CiInv, Releasing, OnTag, Built
<1>9. GreenIsPublished'
  BY <1>7 DEF CiInv, GreenIsPublished
<1> QED BY <1>1, <1>4, <1>6, <1>8, <1>9 DEF CiInv

LEMMA GateHolds == CiInv /\ Gate => CiInv'
<1> SUFFICES ASSUME CiInv, Gate PROVE CiInv'
  OBVIOUS
<1> USE OwnJobs
<1> DEFINE verdict == IF Refused(GateNeeds) THEN "failure" ELSE "success"
<1>1. /\ Finished(GateNeeds) /\ result' = [result EXCEPT !["gate"] = verdict]
      /\ UNCHANGED <<event, changed, versioned, step, uploaded, pypi, attached>>
  BY DEF Gate, push, published
<1>2. /\ result' \in [Jobs -> Results]
      /\ result'["gate"] = verdict /\ \A j \in Jobs \ {"gate"} : result'[j] = result[j]
  BY <1>1 DEF CiInv, Results
<1>3. SkippedForReason'
  BY <1>1, <1>2 DEF CiInv, SkippedForReason, Selected
<1>4. Finished(GateNeeds)' /\ (Refused(GateNeeds)' <=> Refused(GateNeeds))
  BY <1>1, <1>2 DEF Finished, Refused
<1>5. GateIsCurrent'
  BY <1>2, <1>4 DEF GateIsCurrent
<1>6. Releasing'
  <2>1. Succeeded(ReleaseNeeds) => Succeeded(ReleaseNeeds)'
    BY <1>2 DEF Succeeded
  <2> QED BY <1>1, <1>2, <2>1 DEF CiInv, Releasing, OnTag, Built
<1>7. GreenIsPublished'
  BY <1>1, <1>2 DEF CiInv, GreenIsPublished
<1> QED BY <1>2, <1>3, <1>5, <1>6, <1>7 DEF CiInv

\* A step of `release` changes no result but its own.
LEMMA ReleaseKeeps ==
  ASSUME CiInv, \/ UNCHANGED result
               \/ \E r \in Results : result' = [result EXCEPT !["release"] = r],
         UNCHANGED push
  PROVE  /\ result' \in [Jobs -> Results]
         /\ \A j \in Jobs \ {"release"} : result'[j] = result[j]
         /\ SkippedForReason' /\ GateIsCurrent'
         /\ Succeeded(ReleaseNeeds)' <=> Succeeded(ReleaseNeeds)
         /\ OnTag' <=> OnTag
<1> USE OwnJobs DEF push
<1>1. /\ result' \in [Jobs -> Results]
      /\ \A j \in Jobs \ {"release"} : result'[j] = result[j]
  BY DEF CiInv, Results
<1>2. SkippedForReason'
  BY <1>1 DEF CiInv, SkippedForReason, Selected
<1>3. GateIsCurrent'
  BY <1>1 DEF CiInv, GateIsCurrent, Finished, Refused
<1>4. Succeeded(ReleaseNeeds)' <=> Succeeded(ReleaseNeeds)
  BY <1>1 DEF Succeeded
<1> QED BY <1>1, <1>2, <1>3, <1>4 DEF OnTag

LEMMA ReleaseHolds ==
  CiInv /\ (\/ StartRelease \/ RefuseOtherVersions \/ (\E file \in Files : Upload(file))
           \/ Uploaded \/ Attach) => CiInv'
<1> USE OwnJobs DEF push, published
<1> SUFFICES ASSUME CiInv,
                    \/ StartRelease \/ RefuseOtherVersions \/ (\E file \in Files : Upload(file))
                    \/ Uploaded \/ Attach
             PROVE  CiInv'
  OBVIOUS
<1>1. /\ \/ UNCHANGED result
         \/ \E r \in Results : result' = [result EXCEPT !["release"] = r]
      /\ UNCHANGED push
  BY DEF StartRelease, RefuseOtherVersions, Upload, Uploaded, Attach, ReleaseFails, Results
<1>2. /\ result' \in [Jobs -> Results]
      /\ SkippedForReason' /\ GateIsCurrent'
      /\ Succeeded(ReleaseNeeds)' <=> Succeeded(ReleaseNeeds)
      /\ OnTag' <=> OnTag
  BY <1>1, ReleaseKeeps
<1>3. \A r : result' = [result EXCEPT !["release"] = r] => result'["release"] = r
  BY DEF CiInv
<1>4. CASE StartRelease
  <2>1. UNCHANGED <<pypi, attached, versioned>>
    BY <1>4 DEF StartRelease
  <2>2. \/ /\ step' = "versions" /\ uploaded' = {} /\ OnTag /\ Succeeded(ReleaseNeeds)
           /\ UNCHANGED result
        \/ UNCHANGED step /\ step = "waiting" /\ result'["release"] = "skipped"
    BY <1>3, <1>4 DEF StartRelease
  <2>3. result["release"] = "pending"
    BY <1>4 DEF StartRelease
  <2>4. Releasing'
    BY <1>2, <2>1, <2>2, <2>3 DEF CiInv, Releasing
  <2>5. GreenIsPublished'
    BY <2>1, <2>2, <2>3 DEF GreenIsPublished
  <2> QED BY <1>2, <2>4, <2>5 DEF CiInv
<1>5. CASE RefuseOtherVersions
  <2>1. step = "versions" /\ UNCHANGED <<uploaded, pypi, attached, versioned>>
    BY <1>5 DEF RefuseOtherVersions
  <2>2. \/ versioned /\ step' = "uploading" /\ UNCHANGED result
        \/ step' = "waiting" /\ result'["release"] = "failure"
    BY <1>3, <1>5 DEF RefuseOtherVersions, ReleaseFails
  <2>3. Releasing'
    BY <1>2, <2>1, <2>2 DEF CiInv, Releasing, Built
  <2>4. GreenIsPublished'
    BY <2>1, <2>2 DEF CiInv, Releasing, GreenIsPublished
  <2> QED BY <1>2, <2>3, <2>4 DEF CiInv
<1>6. ASSUME NEW file \in Files, Upload(file) PROVE CiInv'
  <2>1. result["release"] = "pending" /\ versioned /\ versioned' /\ UNCHANGED attached
    BY <1>6 DEF Upload, CiInv, Releasing
  <2>2. \/ /\ uploaded' = uploaded \cup {file} /\ pypi' = pypi \cup {Built(file)}
           /\ UNCHANGED <<result, step>>
        \/ ReleaseFails /\ UNCHANGED <<uploaded, pypi>>
    BY <1>6, <2>1 DEF Upload
  <2>3. step = "uploading"
    BY <1>6 DEF Upload
  <2>4. Releasing'
    BY <1>2, <1>3, <2>1, <2>2, <2>3 DEF ReleaseFails, CiInv, Releasing, Built
  <2>5. GreenIsPublished'
    BY <1>3, <2>1, <2>2 DEF ReleaseFails, GreenIsPublished
  <2> QED BY <1>2, <2>4, <2>5 DEF CiInv
<1>7. CASE Uploaded
  BY <1>2, <1>7 DEF Uploaded, CiInv, Releasing, GreenIsPublished, Built
<1>8. CASE Attach
  <2>1. step' = "waiting" /\ UNCHANGED <<uploaded, pypi, versioned>>
    BY <1>8 DEF Attach, ReleaseFails
  <2>2. Releasing'
    BY <1>2, <2>1 DEF CiInv, Releasing
  <2>3. \A file \in Files : [file |-> file, version |-> "tag"] \in pypi
    BY <1>8 DEF Attach, CiInv, Releasing, Built
  <2>4. GreenIsPublished'
    BY <1>3, <1>8, <2>1, <2>3 DEF Attach, ReleaseFails, GreenIsPublished
  <2> QED BY <1>2, <2>2, <2>4 DEF CiInv
<1> QED BY <1>4, <1>5, <1>6, <1>7, <1>8

LEMMA CancelHolds == CiInv /\ CancelRun => CiInv'
<1> SUFFICES ASSUME CiInv, CancelRun PROVE CiInv'
  OBVIOUS
<1> USE OwnJobs
<1>1. /\ result' = [job \in Jobs |->
            IF result[job] = "pending" /\ job # "gate" THEN "cancelled" ELSE result[job]]
      /\ step' = "waiting"
      /\ UNCHANGED <<event, changed, versioned, uploaded, pypi, attached>>
  BY DEF CancelRun, push, published
<1>2. result' \in [Jobs -> Results]
  BY <1>1 DEF CiInv, Results
<1>3. SkippedForReason'
  BY <1>1 DEF CiInv, SkippedForReason, Selected
<1>4. \A j \in Jobs : result[j] # "pending" => result'[j] = result[j]
  BY <1>1
<1>5. GateIsCurrent'
  <2>1. result'["gate"] = result["gate"]
    BY <1>1
  <2>2. CASE result["gate"] = "pending"
    BY <2>1, <2>2 DEF GateIsCurrent
  <2>3. CASE result["gate"] # "pending"
    BY <1>4, <2>1, <2>3 DEF CiInv, GateIsCurrent, Finished, Refused
  <2> QED BY <2>2, <2>3
<1>6. Releasing'
  BY <1>1 DEF CiInv, Releasing
<1>7. GreenIsPublished'
  BY <1>1 DEF CiInv, GreenIsPublished
<1> QED BY <1>2, <1>3, <1>5, <1>6, <1>7 DEF CiInv

LEMMA RerunHolds == CiInv /\ RerunFailed => CiInv'
<1> SUFFICES ASSUME CiInv, RerunFailed PROVE CiInv'
  OBVIOUS
<1> USE OwnJobs
<1> DEFINE failed == {job \in Jobs : result[job] \in {"failure", "cancelled"}}
<1>1. /\ Finished(Jobs)
      /\ result' = [job \in Jobs |->
            IF job \in failed \/ WaitsOn(job, failed) THEN "pending" ELSE result[job]]
      /\ UNCHANGED <<event, changed, versioned, step, uploaded, pypi, attached>>
  BY DEF RerunFailed, push, published
<1>2. result' \in [Jobs -> Results]
  BY <1>1 DEF CiInv, Results
<1>3. "changes" \in failed => /\ result'["changes"] = "pending"
                               /\ \A check \in Checks : result'[check] = "pending"
  BY <1>1 DEF WaitsOn
<1>4. "changes" \notin failed => result'["changes"] = result["changes"]
  BY <1>1 DEF WaitsOn
<1>5. SkippedForReason'
  <2>1. CASE "changes" \in failed
    BY <1>3, <2>1 DEF SkippedForReason
  <2>2. CASE "changes" \notin failed
    BY <1>1, <1>4, <2>2 DEF CiInv, SkippedForReason, Selected
  <2> QED BY <2>1, <2>2
<1>6. \A j \in GateNeeds : j \in failed \/ WaitsOn(j, failed) => result'["gate"] = "pending"
  BY <1>1 DEF WaitsOn
<1>7. GateIsCurrent'
  <2>1. CASE result'["gate"] = "pending"
    BY <2>1 DEF GateIsCurrent
  <2>2. CASE result'["gate"] # "pending"
    <3>1. result'["gate"] = result["gate"] /\ \A j \in GateNeeds : result'[j] = result[j]
      BY <1>1, <1>6, <2>2
    <3> QED BY <2>2, <3>1 DEF CiInv, GateIsCurrent, Finished, Refused
  <2> QED BY <2>1, <2>2
<1>8. step = "waiting"
  BY <1>1 DEF CiInv, Releasing, Finished
<1>9. Releasing'
  BY <1>1, <1>8 DEF CiInv, Releasing
<1>10. GreenIsPublished'
  BY <1>1 DEF CiInv, GreenIsPublished
<1> QED BY <1>2, <1>5, <1>7, <1>9, <1>10 DEF CiInv

LEMMA CiStepHolds == CiInv /\ [CiNext]_ciVars => CiInv'
<1> SUFFICES ASSUME CiInv, [CiNext]_ciVars PROVE CiInv'
  OBVIOUS
<1>1. CASE Changes
  BY <1>1, OneEnds DEF Changes, Ends
<1>2. ASSUME NEW check \in Checks, Check(check) PROVE CiInv'
  <2>1. Needs(check) = {"changes"} /\ result["changes"] # "pending"
    BY <1>2, OwnJobs DEF Check, Finished
  <2>2. \/ result' = [result EXCEPT ![check] = "success"]
        \/ result' = [result EXCEPT ![check] = "failure"]
        \/ /\ result' = [result EXCEPT ![check] = "skipped"]
           /\ result["changes"] = "success" => ~Selected(check)
    BY <1>2, <2>1 DEF Check, Ends, Succeeded
  <2>3. result[check] = "pending" /\ UNCHANGED <<push, step, uploaded, published>>
    BY <1>2 DEF Check
  <2> QED BY <2>1, <2>2, <2>3, OneEnds
<1>3. CASE Gate
  BY <1>3, GateHolds
<1>4. CASE \/ StartRelease \/ RefuseOtherVersions \/ (\E file \in Files : Upload(file))
           \/ Uploaded \/ Attach
  BY <1>4, ReleaseHolds
<1>5. CASE CancelRun
  BY <1>5, CancelHolds
<1>6. CASE RerunFailed
  BY <1>6, RerunHolds
<1>7. CASE UNCHANGED ciVars
  BY <1>7 DEF ciVars, CiInv, SkippedForReason, GateIsCurrent, Releasing, GreenIsPublished, Built,
     Selected, Finished, Refused, Succeeded, OnTag
<1> QED BY <1>1, <1>2, <1>3, <1>4, <1>5, <1>6, <1>7 DEF CiNext, Run

\* `CI` passes only on a change all of whose checks did, whatever failed, was
\* cancelled or was run again on the way.
THEOREM GateSound == CiSpec => []GateMeansChecked
<1>1. CiInv => GateMeansChecked
  BY OwnJobs DEF CiInv, Results, SkippedForReason, GateIsCurrent, Refused, Finished,
     GateMeansChecked
<1> QED BY <1>1, CiInitHolds, CiStepHolds, PTL DEF CiSpec

\* A green release is all of its files, wherever earlier attempts had stopped.
THEOREM GreenIsWhole == CiSpec => []GreenIsPublished
<1>1. CiInv => GreenIsPublished
  BY DEF CiInv
<1> QED BY <1>1, CiInitHolds, CiStepHolds, PTL DEF CiSpec

\* No file reaches PyPI but from a tag that names its version, with every check but
\* `fixtures` passed.
THEOREM PublishesChecked == CiSpec => PublishesOnlyWhatPassed
<1> DEFINE Passed == /\ OnTag /\ versioned
                     /\ \A check \in Checks \ {"fixtures"} : result[check] = "success"
<1>1. CiInv /\ [CiNext]_ciVars => [pypi' # pypi => Passed]_ciVars
  <2> SUFFICES ASSUME CiInv, CiNext, pypi' # pypi PROVE Passed
    OBVIOUS
  <2>1. PICK file \in Files : Upload(file)
    BY DEF CiNext, Run, Changes, Gate, Check, StartRelease, RefuseOtherVersions, Uploaded, Attach,
       CancelRun, RerunFailed, published
  <2> QED BY <2>1 DEF Upload, CiInv, Releasing, Succeeded, ReleaseNeeds
<1> QED BY <1>1, CiInitHolds, CiStepHolds, PTL DEF CiSpec, PublishesOnlyWhatPassed
===============================================================================
