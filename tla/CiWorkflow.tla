-------------------------------- MODULE CiWorkflow --------------------------------
(***************************************************************************)
(* .github/workflows/ci.yaml: a run of its jobs.  `changes` decides by     *)
(* .github/path-filters.yaml which checks a change needs, the checks run   *)
(* beside one another, `gate` reports as `CI`, the check a merge requires, *)
(* and on a tag `release` publishes what the wheel jobs built.             *)
(*                                                                         *)
(* A job may fail, the run may be cancelled at any point, and somebody may *)
(* run what failed again.  How GitHub then starts, skips and cancels jobs  *)
(* is modelled from what the workflow relies on.                           *)
(*                                                                         *)
(* An operator whose name holds "_bug" is a mistake this workflow could    *)
(* have had; it stands beside the definition it would replace and is used  *)
(* by no other definition.                                                 *)
(***************************************************************************)
EXTENDS Integers, FiniteSets

CONSTANTS
  Checks,     \* jobs between `changes` and `gate` that occur
  Paths,      \* groups of paths a change touches
  MaxFaults   \* bound on failures and cancellations in a run

FilterOf(check) ==
  CASE check = "test" -> "python"
    [] check \in {"rust-test", "lint", "msrv"} -> "rust"
    [] check = "harness-lint" -> "harness_lint"
    [] check \in {"windows", "macos", "linux", "sdist"} -> "dist"
    [] OTHER -> check   \* licenses, fixtures

Filters == {"rust", "python", "dist", "licenses", "fixtures", "harness_lint"}

\* The sets of path-filters.yaml a group of paths is in.
FiltersOf(path) ==
  CASE path = "harness" -> Filters
    [] path = "manifest" -> Filters \ {"harness_lint"}
    [] path \in {"src", "tests/data"} -> {"rust", "python", "dist", "fixtures"}
    [] path = "tests" -> {"rust", "python", "dist"}   \* the rest of tests/
    [] path = "shazamio_core" -> {"python", "dist"}
    [] path = "pyproject" -> {"python", "dist", "harness_lint"}
    [] path = "uv.lock" -> {"python", "harness_lint"}
    [] path \in {"notices", "tools"} -> {"licenses", "dist"}
    [] path = "regenerate.Dockerfile" -> {"dist", "fixtures"}
    [] path \in {"docker", "scripts", "readme"} -> {"dist"}   \* the rest of them; LICENSE too
    [] path = "check_ci" -> {"dist", "harness_lint"}   \* check_ci_*.py, check_dependabot.py
    [] path \in {"dependabot", "shell"} -> {"harness_lint"}
    [] OTHER -> {}   \* docs

ASSUME ChecksAssumption ==
  /\ Checks \subseteq {"test", "rust-test", "lint", "msrv", "harness-lint", "windows", "macos",
                       "linux", "sdist", "licenses", "fixtures"}
  /\ MaxFaults \in Nat

Events == {"pull_request", "push", "tag", "dispatch", "dispatch_on_tag"}
Jobs == Checks \cup {"changes", "gate", "release"}
Files == Checks \cap {"windows", "macos", "linux", "sdist"}
Published == [file : Files, version : {"tag", "other"}]

GateNeeds_bug == Checks
GateNeeds == Checks \cup {"changes"}
ReleaseNeeds_bug == Files \cup {"changes"}
ReleaseNeeds == (Checks \ {"fixtures"}) \cup {"changes"}
Needs(job) ==
  IF job = "gate" THEN GateNeeds
  ELSE IF job = "release" THEN ReleaseNeeds
  ELSE {"changes"} \ {job}

VARIABLES
  event,
  changed,     \* groups of paths the diff touches
  versioned,   \* Cargo.toml holds the version of the tag
  result,      \* of each job, "pending" until it has one
  step,        \* of the release job: "waiting", "versions", "uploading", "attaching"
  uploaded,    \* files this attempt of the release is done with
  pypi,        \* files on PyPI, each of its version
  attached,    \* files of the version in the release on GitHub
  faults

\* What the wheel jobs make of a tree is named after the version Cargo.toml holds.
Built(file) == [file |-> file, version |-> IF versioned THEN "tag" ELSE "other"]

ciVars == <<event, changed, versioned, result, step, uploaded, pypi, attached, faults>>
push == <<event, changed, versioned>>
published == <<pypi, attached>>

\* Some of the other version may be out already, of the release it was made for.
CiInit ==
  /\ event \in Events
  /\ changed \in SUBSET Paths
  /\ versioned \in BOOLEAN
  /\ result = [job \in Jobs |-> "pending"]
  /\ step = "waiting"
  /\ uploaded = {}
  /\ pypi \in SUBSET {release \in Published : release.version = "other"}
  /\ attached = {}
  /\ faults = 0

OnTag == event \in {"tag", "dispatch_on_tag"}

\* The filter is a step that a tag or a manual run skips, and every output of a
\* skipped step reads as true.
Selected(check) ==
  \/ event \notin {"pull_request", "push"}
  \/ \E path \in changed : FilterOf(check) \in FiltersOf(path)

Finished(jobs) == \A job \in jobs : result[job] # "pending"
Succeeded(jobs) == \A job \in jobs : result[job] = "success"

Fault == faults < MaxFaults /\ faults' = faults + 1
Ends(job) ==
  \/ result' = [result EXCEPT ![job] = "success"] /\ UNCHANGED faults
  \/ result' = [result EXCEPT ![job] = "failure"] /\ Fault

Changes ==
  /\ result["changes"] = "pending"
  /\ Ends("changes")
  /\ UNCHANGED <<push, step, uploaded, published>>

\* A condition that names no status holds only if every need succeeded.
Check(check) ==
  /\ result[check] = "pending" /\ Finished(Needs(check))
  /\ IF Succeeded(Needs(check)) /\ Selected(check) THEN Ends(check)
     ELSE result' = [result EXCEPT ![check] = "skipped"] /\ UNCHANGED faults
  /\ UNCHANGED <<push, step, uploaded, published>>

Refused(needs) == \E job \in needs : result[job] \in {"failure", "cancelled"}

\* `if: always()`: it reports whatever became of the others.
Gate_bug ==
  /\ result["gate"] = "pending" /\ Finished(Needs("gate"))
  /\ result' = [result EXCEPT !["gate"] = IF Succeeded(Needs("gate")) THEN "success" ELSE "skipped"]
  /\ UNCHANGED <<push, step, uploaded, published, faults>>
Gate ==
  /\ result["gate"] = "pending" /\ Finished(Needs("gate"))
  /\ result' = [result EXCEPT !["gate"] = IF Refused(Needs("gate")) THEN "failure" ELSE "success"]
  /\ UNCHANGED <<push, step, uploaded, published, faults>>

-------------------------------------------------------------------------------
(* release *)

StartRelease ==
  /\ result["release"] = "pending" /\ step = "waiting" /\ Finished(Needs("release"))
  /\ IF OnTag /\ Succeeded(Needs("release"))
     THEN step' = "versions" /\ uploaded' = {} /\ UNCHANGED result
     ELSE /\ result' = [result EXCEPT !["release"] = "skipped"]
          /\ UNCHANGED <<step, uploaded>>
  /\ UNCHANGED <<push, published, faults>>

ReleaseFails ==
  /\ result' = [result EXCEPT !["release"] = "failure"]
  /\ step' = "waiting"

RefuseOtherVersions_bug ==
  /\ step = "versions"
  /\ step' = "uploading"
  /\ UNCHANGED <<push, result, uploaded, published, faults>>
RefuseOtherVersions ==
  /\ step = "versions"
  /\ IF versioned THEN step' = "uploading" /\ UNCHANGED result ELSE ReleaseFails
  /\ UNCHANGED <<push, uploaded, published, faults>>

\* --skip-existing: a file that is there already is passed over.
Refuses_bug(file) == Built(file) \in pypi
Refuses(file) == FALSE

Upload(file) ==
  /\ step = "uploading"
  /\ file \in Files \ uploaded
  /\ IF Refuses(file) THEN ReleaseFails /\ UNCHANGED <<uploaded, pypi, faults>>
     ELSE \/ /\ uploaded' = uploaded \cup {file}
             /\ pypi' = pypi \cup {Built(file)}
             /\ UNCHANGED <<result, step, faults>>
          \/ ReleaseFails /\ Fault /\ UNCHANGED <<uploaded, pypi>>
  /\ UNCHANGED <<push, attached>>

Uploaded ==
  /\ step = "uploading"
  /\ uploaded = Files
  /\ step' = "attaching"
  /\ UNCHANGED <<push, result, uploaded, published, faults>>

\* files: dist/*.whl
Attach ==
  /\ step = "attaching"
  /\ \/ /\ attached' = Files \ {"sdist"}
        /\ result' = [result EXCEPT !["release"] = "success"]
        /\ step' = "waiting"
        /\ UNCHANGED faults
     \/ ReleaseFails /\ Fault /\ UNCHANGED attached
  /\ UNCHANGED <<push, uploaded, pypi>>

-------------------------------------------------------------------------------
(* Around the jobs. *)

\* Every job that is not over is cancelled, but for the one that always runs.
CancelRun ==
  /\ \E job \in Jobs \ {"gate"} : result[job] = "pending"
  /\ Fault
  /\ result' = [job \in Jobs |->
       IF result[job] = "pending" /\ job # "gate" THEN "cancelled" ELSE result[job]]
  /\ step' = "waiting"
  /\ UNCHANGED <<push, uploaded, published>>

\* A job is at most two needs away from another.
WaitsOn(job, failed) ==
  \/ Needs(job) \cap failed # {}
  \/ \E need \in Needs(job) : Needs(need) \cap failed # {}

\* What failed, and all that waits on it.
RerunFailed ==
  /\ Finished(Jobs)
  /\ LET failed == {job \in Jobs : result[job] \in {"failure", "cancelled"}}
     IN  /\ failed # {}
         /\ result' = [job \in Jobs |->
              IF job \in failed \/ WaitsOn(job, failed) THEN "pending" ELSE result[job]]
  /\ UNCHANGED <<push, step, uploaded, published, faults>>

Run ==
  \/ Changes \/ Gate \/ (\E check \in Checks : Check(check))
  \/ StartRelease \/ RefuseOtherVersions \/ (\E file \in Files : Upload(file))
  \/ Uploaded \/ Attach

CiNext == Run \/ CancelRun \/ RerunFailed

\* Jobs go on; nobody need cancel.
CiSpec == CiInit /\ [][CiNext]_ciVars /\ WF_ciVars(Run)

-------------------------------------------------------------------------------
(* Properties. *)

\* `CI` passes only on a change all of whose checks did: neither a filter that
\* failed, nor a run cancelled halfway, nor running a part of it again passes a
\* change on checks that were skipped for another reason than its paths.
GateMeansChecked ==
  result["gate"] = "success" =>
    \A check \in Checks : Selected(check) => result[check] = "success"

\* Whatever is skipped, fails, is cancelled or is run again, the check a merge
\* requires comes to a verdict of its own each time: it is never left pending, and
\* never skipped, which a merge would take for a success nothing stands behind.
GateReports == []<>(result["gate"] \in {"success", "failure"})

\* A file reaches PyPI only once all of them are built and everything but
\* `fixtures` has passed on them, on a tag that names their version: no skipped
\* wheel job lets a publish through, and no tag set too early uploads the files of
\* the version before it.
PublishesOnlyWhatPassed ==
  [][pypi' # pypi => /\ OnTag /\ versioned
                     /\ \A check \in Checks \ {"fixtures"} : result[check] = "success"]_ciVars

\* A green release is all of it under the tag's version, wherever an earlier attempt
\* had stopped: never "a version never published".
GreenIsPublished ==
  result["release"] = "success" =>
    /\ \A file \in Files : [file |-> file, version |-> "tag"] \in pypi
    /\ attached = Files \ {"sdist"}

\* An attempt that stopped between two files is no obstacle to the next: the
\* release of a version is complete in the end if somebody keeps running again
\* what failed.
RetriedReleaseEnds ==
  WF_ciVars(RerunFailed) => (OnTag /\ versioned => <>(result["release"] = "success"))
===============================================================================
