------------------------------- MODULE DependabotMerge -------------------------------
(***************************************************************************)
(* The two workflows that react to a pull request of Dependabot, and the   *)
(* action by which both merge it: .github/workflows/dependabot-auto-merge, *)
(* dependabot-regenerate and .github/actions/auto-merge.                   *)
(*                                                                         *)
(* Meanwhile Dependabot may push another bump over the branch, a person may*)
(* push to it, `CI` judges its head and GitHub lands it once it is queued  *)
(* and `CI` has passed.  GitHub and Dependabot are outside the repository. *)
(* A push reaches each workflow some time later, as an event that cancels  *)
(* the run in progress, and every command of a run that asks GitHub or     *)
(* tells it something is a step, because the branch may move between two.  *)
(*                                                                         *)
(* Of the files of a head, `uri` is the golden URIs: as on `master`, as the*)
(* bumped code or data computes them, or another edit by hand; `fresh` is  *)
(* whether all else that is generated matches the bump.                    *)
(*                                                                         *)
(* An operator whose name holds "_bug" is a mistake these workflows could  *)
(* have had; it stands beside the definition it would replace and is used  *)
(* by no other definition.                                                 *)
(***************************************************************************)
EXTENDS Integers

CONSTANTS
  Kinds,      \* branches that occur: "cargo", "regenerate", "pypa", "other"
  HandUris,   \* golden URIs a person may push: {} when nobody pushes
  MaxHeads    \* bound on the heads a branch gets

ASSUME ConstantsAssumption ==
  /\ Kinds \subseteq {"cargo", "regenerate", "pypa", "other"}
  /\ HandUris \subseteq {"base", "computed", "hand"}
  /\ MaxHeads \in Nat \ {0}

VARIABLES
  kind,         \* of the branch; "regenerate" and "pypa" are dependabot/docker/
  major,        \* the highest bump of the pull request is a major one
  requires_ci,  \* the ruleset of the base requires `CI`
  calm,         \* only the bots push to this branch, and no regeneration of it fails
  head,
  ci,           \* "running", "passed" or "failed" on this head
  queued,       \* autoMergeRequest
  merged,
  triggered,    \* workflows that have yet to hear of the last push
  merge_run,    \* step the run of dependabot-auto-merge is at
  run           \* the run of dependabot-regenerate: its step and its outputs

vars ==
  <<kind, major, requires_ci, calm, head, ci, queued, merged, triggered, merge_run, run>>
pull == <<kind, major, requires_ci, calm>>

\* A bump of crates may move what the library computes and names them anew in
\* the notices; one of the images `tests/data` is generated in may move both.
Bumps ==
  IF kind \in {"cargo", "regenerate"} THEN [moves : BOOLEAN, stale : BOOLEAN]
  ELSE {[moves |-> FALSE, stale |-> FALSE]}

Golden(bump) == IF bump.moves THEN "computed" ELSE "base"

Commit(number, bump, uri, fresh, author) ==
  [number |-> number, bump |-> bump, uri |-> uri, fresh |-> fresh, author |-> author]

Bumped(number, bump) == Commit(number, bump, "base", ~bump.stale, "dependabot")

Docker == kind \in {"regenerate", "pypa"}

\* The workflows whose `if` on the branch holds.
Workflows_bug == {"merge"} \cup IF kind = "cargo" THEN {"regenerate"} ELSE {}
Workflows == {"merge"} \cup IF kind = "other" THEN {} ELSE {"regenerate"}

Idle == [step |-> "idle"]

Init ==
  /\ kind \in Kinds
  /\ major \in BOOLEAN
  /\ requires_ci \in BOOLEAN
  /\ calm \in BOOLEAN
  /\ \E bump \in Bumps : head = Bumped(1, bump)
  /\ ci = "running"
  /\ queued = FALSE
  /\ merged = FALSE
  /\ triggered = Workflows
  /\ merge_run = "idle"
  /\ run = Idle

-------------------------------------------------------------------------------
(* Around the workflows. *)

\* A new head: `CI` starts over and each workflow is to hear of it.
PushHead(new) ==
  /\ head' = new
  /\ ci' = "running"
  /\ triggered' = Workflows

MayPush == ~merged /\ head.number < MaxHeads

\* A rebase or a later bump drops every commit that was on the branch.
DependabotPushes ==
  /\ MayPush
  /\ \E bump \in Bumps : PushHead(Bumped(head.number + 1, bump))
  /\ UNCHANGED <<pull, queued, merged, merge_run, run>>

PersonPushes ==
  /\ MayPush
  /\ ~calm
  /\ \E uri \in HandUris, fresh \in {head.fresh, TRUE} :
       PushHead(Commit(head.number + 1, head.bump, uri, fresh, "person"))
  /\ UNCHANGED <<pull, queued, merged, merge_run, run>>

\* `Fixtures` compares the golden URIs with what is computed; it and the check
\* of the notices fail on any generated byte that is not the bump's.
CiEnds ==
  /\ ~merged
  /\ ci = "running"
  /\ ci' = IF head.uri = Golden(head.bump) /\ head.fresh THEN "passed" ELSE "failed"
  /\ UNCHANGED <<pull, head, queued, merged, triggered, merge_run, run>>

GithubLands ==
  /\ ~merged
  /\ queued /\ ci = "passed"
  /\ merged' = TRUE
  /\ UNCHANGED <<pull, head, ci, queued, triggered, merge_run, run>>

-------------------------------------------------------------------------------
(* .github/actions/auto-merge *)

\* enabled: true, which fails unless the base requires `CI`, and lands a head
\* that has passed at once.  `step` is where the run goes on after it.
Enable_bug(go_on, fail) ==
  /\ IF ci = "passed" \/ ~requires_ci THEN merged' = TRUE /\ UNCHANGED queued
     ELSE queued' = TRUE /\ UNCHANGED merged
  /\ go_on
Enable(go_on, fail) ==
  IF ~requires_ci THEN fail /\ UNCHANGED <<queued, merged>>
  ELSE /\ IF ci = "passed" THEN merged' = TRUE /\ UNCHANGED queued
          ELSE queued' = TRUE /\ UNCHANGED merged
       /\ go_on

\* enabled: false, which fails when nothing is queued any more.
Disable(go_on, fail) ==
  /\ queued' = FALSE
  /\ IF queued THEN go_on ELSE fail
  /\ UNCHANGED merged

-------------------------------------------------------------------------------
(* dependabot-auto-merge *)

StartMerge ==
  /\ ~merged
  /\ "merge" \in triggered
  /\ triggered' = triggered \ {"merge"}
  /\ merge_run' = "started"
  /\ UNCHANGED <<pull, head, ci, queued, merged, run>>

UriMoved == head.uri # "base"

ReadMergeChanges ==
  /\ ~merged
  /\ merge_run = "started"
  /\ merge_run' = IF kind # "regenerate" /\ ~UriMoved /\ ~major THEN "merging" ELSE "idle"
  /\ UNCHANGED <<pull, head, ci, queued, merged, triggered, run>>

MergeOnceCiPasses ==
  /\ ~merged
  /\ merge_run = "merging"
  /\ Enable(merge_run' = "idle", merge_run' = "idle")
  /\ UNCHANGED <<pull, head, ci, triggered, run>>

-------------------------------------------------------------------------------
(* dependabot-regenerate *)

StartRegenerate ==
  /\ ~merged
  /\ "regenerate" \in triggered
  /\ triggered' = triggered \ {"regenerate"}
  /\ run' = [step |-> "started"]
  /\ UNCHANGED <<pull, head, ci, queued, merged, merge_run>>

At(step) == ~merged /\ run.step = step

Checkout ==
  /\ At("started")
  /\ run' = [step |-> IF Docker THEN "reading" ELSE "generating", tree |-> head,
             queued |-> FALSE, moved |-> FALSE]
  /\ UNCHANGED <<pull, head, ci, queued, merged, triggered, merge_run>>

\* What the pull request changes now, which may be another head than the tree.
ReadDiff ==
  /\ At("reading")
  /\ run' = [step |-> "asking", tree |-> run.tree, queued |-> FALSE, moved |-> UriMoved]
  /\ UNCHANGED <<pull, head, ci, queued, merged, triggered, merge_run>>

ReadQueue ==
  /\ At("asking")
  /\ run' = [step |-> IF queued /\ run.moved THEN "leaving" ELSE "generating",
             tree |-> run.tree, queued |-> queued, moved |-> run.moved]
  /\ UNCHANGED <<pull, head, ci, queued, merged, triggered, merge_run>>

LeavePushedUri ==
  /\ At("leaving")
  /\ Disable(run' = [run EXCEPT !.step = "generating"], run' = Idle)
  /\ UNCHANGED <<pull, head, ci, triggered, merge_run>>

\* `just licenses` writes the notices, `just regenerate` all of `tests/data`.
RegeneratedUri(tree) == IF Docker THEN Golden(tree.bump) ELSE tree.uri
Regenerated(tree) ==
  Commit(tree.number, tree.bump, RegeneratedUri(tree), TRUE, tree.author)

\* The commit's own outputs, by which the run goes on.
Committed_bug(tree) == TRUE
Committed(tree) == Regenerated(tree) # tree
CommitMovesUri == RegeneratedUri(run.tree) # run.tree.uri

AfterJudging == IF Committed(run.tree) THEN [run EXCEPT !.step = "pushing"] ELSE Idle

Judged_bug ==
  IF kind = "regenerate" /\ ~run.queued /\ ~run.moved /\ ~CommitMovesUri THEN "enabling"
  ELSE "judged"
Judged ==
  IF kind = "regenerate" /\ ~run.queued /\ ~run.moved /\ ~CommitMovesUri THEN "enabling"
  ELSE IF run.queued /\ ~run.moved /\ CommitMovesUri THEN "disabling"
  ELSE "judged"

RegenerateAndCommit ==
  /\ At("generating")
  /\ \/ run' = [run EXCEPT !.step = Judged]
     \/ ~calm /\ run' = Idle
  /\ UNCHANGED <<pull, head, ci, queued, merged, triggered, merge_run>>

MergeRegenerated ==
  /\ At("enabling")
  /\ Enable(run' = AfterJudging, run' = Idle)
  /\ UNCHANGED <<pull, head, ci, triggered, merge_run>>

LeaveRegeneratedUri ==
  /\ At("disabling")
  /\ Disable(run' = AfterJudging, run' = Idle)
  /\ UNCHANGED <<pull, head, ci, triggered, merge_run>>

NothingToJudge ==
  /\ At("judged")
  /\ run' = AfterJudging
  /\ UNCHANGED <<pull, head, ci, queued, merged, triggered, merge_run>>

\* `git push` is refused when the branch has moved on.
PushRegenerated ==
  /\ At("pushing")
  /\ IF head = run.tree
     THEN PushHead(Commit(head.number + 1, head.bump, RegeneratedUri(head), TRUE, "workflow"))
     ELSE UNCHANGED <<head, ci, triggered>>
  /\ run' = Idle
  /\ UNCHANGED <<pull, queued, merged, merge_run>>

-------------------------------------------------------------------------------
MergeRun == StartMerge \/ ReadMergeChanges \/ MergeOnceCiPasses
RegenerateRun ==
  \/ StartRegenerate \/ Checkout \/ ReadDiff \/ ReadQueue \/ LeavePushedUri
  \/ RegenerateAndCommit \/ MergeRegenerated \/ LeaveRegeneratedUri \/ NothingToJudge
  \/ PushRegenerated

Next == DependabotPushes \/ PersonPushes \/ CiEnds \/ GithubLands \/ MergeRun \/ RegenerateRun

\* Events arrive, runs and `CI` go on, and what is queued lands.
Spec ==
  /\ Init /\ [][Next]_vars
  /\ WF_vars(CiEnds) /\ WF_vars(GithubLands) /\ WF_vars(MergeRun) /\ WF_vars(RegenerateRun)

-------------------------------------------------------------------------------
(* Properties. *)

\* Nothing lands but a head `CI` has passed on, though `gh pr merge --auto`
\* lands at once whatever may be merged now: where no check is required that
\* is everything.
LandsOnlyAfterCi == merged => ci = "passed" /\ requires_ci

\* A golden URI that `just regenerate` rewrote never lands without a person,
\* whatever is pushed while it runs and whatever was queued for an earlier bump.
\* On a cargo branch the workflow writes the notices only.
RegeneratedUriWaits == merged /\ Docker => ~(head.author = "workflow" /\ UriMoved)

\* A major bump waits for a person, unless it is of the images the workflow
\* regenerates `tests/data` in, which merge "at any level".
MajorWaits == merged /\ major => kind = "regenerate"

\* Where nobody else pushes, no golden URI lands moved at all.
BotsMoveNoUri == merged /\ calm => ~UriMoved

\* A push by the workflow starts it again, and that run has nothing to push.
LoopEnds ==
  [][head.author = "workflow" /\ head'.author = "workflow" => head' = head]_vars

\* What should land by itself: a minor or patch bump, or one of the images, that
\* moves no golden URI, where nobody else pushes and no regeneration fails.
LandsAlone ==
  /\ requires_ci /\ calm
  /\ ~UriMoved /\ ~head.bump.moves
  /\ kind = "regenerate" \/ ~major

\* It does, if the branch settles on such a bump, whatever runs its earlier
\* heads had started and whichever of them had been cancelled.
GoodBumpLands == (<>[]LandsAlone) => <>merged
================================================================================
