--------------------------- MODULE WindowsRelease ---------------------------
(***************************************************************************)
(* src/scripts/windows-prerelease.mjs and the workflow that runs it: a     *)
(* dispatch checks the plan and the predecessor, lets Release Please make  *)
(* a draft, resolves the draft to its source, builds that source and       *)
(* attaches three assets to the draft.  Meanwhile main advances, people    *)
(* edit, publish or delete the draft and its assets, a job dies at any     *)
(* step, and a failed run is dispatched or attached again.                 *)
(*                                                                         *)
(* A commit of main is the number of its place.  A failed assertion ends   *)
(* the job.  Reads of one check are one step where main only grows.        *)
(***************************************************************************)
EXTENDS Naturals, Sequences, FiniteSets

CONSTANTS
  Assets,       \* the three names
  MaxMain,      \* commits of main
  Dispatches,   \* runs of the workflow
  Meddling      \* what people do to the release meanwhile

ASSUME ReleaseAssumption ==
  IsFiniteSet(Assets) /\ MaxMain \in Nat /\ Dispatches \in Nat /\ Meddling \in Nat

VARIABLES
  main,      \* the commits: what each of them changed
  previous,  \* the predecessor's release and tag
  release,   \* the release of the plan's tag
  job,       \* the run: its step, checkout, outputs and artifact
  spent      \* dispatches, meddling, release IDs, sources built, failed runs

releaseVars == <<main, previous, release, job, spent>>

\* "release" is the merge of Release Please's PR, "bump" a version set by hand,
\* "plan" a change of the plan or its configuration, "control" of another file
\* in SOURCE_BINDINGS.
Changes == {"ordinary", "release", "bump", "plan", "control"}

Side == 0   \* a commit that is not on main

\* The bytes of an asset: none, somebody's, or the artifact of a build.
Absent == 0
Foreign == Dispatches + 1

Nothing == [id |-> 0, target |-> Side, draft |-> FALSE,
            assets |-> [a \in Assets |-> Absent]]

Exists == release.id # 0
Steps == {"idle", "preflight", "create", "resolve", "build", "attach",
          "recheck", "upload", "final", "attached", "prepared", "failed"}

-----------------------------------------------------------------------------
(* The checks.                                                             *)

\* The plan's version is in the manifest and in Cargo.toml of a commit.
Released(sha) == \E i \in 1..sha : main[i] \in {"release", "bump"}

\* The plan and its configuration, and the control files, of a commit.
Plan(sha) == {i \in 1..sha : main[i] = "plan"}
Control(sha) == {i \in 1..sha : main[i] \in {"plan", "control"}}

\* verifyVersionState and verifyCargoVersion
VersionState(sha, operation) == Released(sha) <=> operation = "draft"

\* previousTagCommit: at most four lookups, none of them twice.
TagResolves(tag) == tag \in 0..3

\* verifyPreviousRelease and previousRelease
PreviousVerified ==
  /\ previous.public /\ previous.immutable
  /\ TagResolves(previous.tag) /\ previous.matches

\* verifyDraft
DraftVerified(sha) == Exists /\ release.target = sha /\ release.draft

\* A merged Release Please PR of main.
FromReleasePr(sha) == sha \in 1..Len(main) /\ main[sha] = "release"

\* verifySourceBindings: the source's control files are the checkout's.
BindingsVerified(sha) == Control(sha) = Control(job.checkout)

\* source and verifySource
SourceVerified(sha) ==
  /\ DraftVerified(sha)
  /\ FromReleasePr(sha) /\ Released(sha)
  /\ BindingsVerified(sha)

\* A faulty check that does not compare the bytes.
NamesVerified(built) == TRUE

\* verifyExistingAssets: what is there is what would be uploaded.
ExistingVerified(built) ==
  \A a \in Assets : release.assets[a] \in {Absent, built}

-----------------------------------------------------------------------------
(* The workflow.                                                           *)

ReleaseInit ==
  /\ main = <<"ordinary">>
  /\ previous \in [public : BOOLEAN, immutable : BOOLEAN, tag : {0, 3, 4}, matches : BOOLEAN]
  /\ release = Nothing
  /\ job = [step |-> "idle", operation |-> "none", checkout |-> 0, sha |-> Side,
            created |-> Side, id |-> 0, built |-> Absent, uploaded |-> {}]
  /\ spent = [dispatches |-> 0, meddling |-> 0, ids |-> 0, sources |-> <<>>, failed |-> {}]

Goes(step) == job' = [job EXCEPT !.step = step]

\* What a failed run keeps for its attach job to be run again.
Retained == IF job.built = Absent THEN {} ELSE {[job EXCEPT !.step = "attach", !.uploaded = {}]}

\* An assertion or a lookup fails, an upload's answer is lost, the runner dies.
Fail == /\ job.step \notin {"idle", "attached", "prepared", "failed"}
        /\ Goes("failed")
        /\ spent' = [spent EXCEPT !.failed = @ \cup Retained]
        /\ UNCHANGED <<main, previous, release>>

\* workflow_dispatch, one run at a time.
Dispatch ==
  /\ job.step \in {"idle", "attached", "prepared", "failed"}
  /\ spent.dispatches < Dispatches
  /\ \E operation \in {"prepare", "draft"} :
       job' = [job EXCEPT !.step = "preflight", !.operation = operation,
                          !.checkout = Len(main), !.sha = Side, !.created = Side,
                          !.id = 0, !.built = Absent, !.uploaded = {}]
  /\ spent' = [spent EXCEPT !.dispatches = @ + 1]
  /\ UNCHANGED <<main, previous, release>>

\* The attach job of any failed run is run again with the outputs and the
\* artifact that it had.
RerunAttach ==
  /\ job.step \in {"attached", "prepared", "failed"}
  /\ spent.dispatches < Dispatches
  /\ job' \in spent.failed
  /\ spent' = [spent EXCEPT !.dispatches = @ + 1]
  /\ UNCHANGED <<main, previous, release>>

\* main preflight: live main has the same plan, and a release of the tag must be
\* the draft to go on with.
Preflight ==
  /\ job.step = "preflight"
  /\ Plan(Len(main)) = Plan(job.checkout)
  /\ VersionState(job.checkout, job.operation)
  /\ PreviousVerified
  /\ ~Exists \/ release.draft
  /\ Exists => job.operation = "draft" /\ SourceVerified(release.target)
  /\ Goes(IF Exists THEN "resolve"
          ELSE IF job.operation = "prepare" THEN "prepared" ELSE "create")
  /\ UNCHANGED <<main, previous, release, spent>>

\* Release Please drafts the version that main has by now.
CreateDraft ==
  /\ job.step = "create" /\ ~Exists
  /\ \E sha \in 1..Len(main) :
       /\ main[sha] \in {"release", "bump"}
       /\ release' = [Nothing EXCEPT !.id = spent.ids + 1, !.target = sha, !.draft = TRUE]
       /\ job' = [job EXCEPT !.step = "resolve", !.created = sha]
  /\ spent' = [spent EXCEPT !.ids = @ + 1]
  /\ UNCHANGED <<main, previous>>

\* main resolve: the outputs of the first job.
Resolve ==
  /\ job.step = "resolve"
  /\ SourceVerified(release.target)
  /\ job.created \in {Side, release.target}
  /\ job' = [job EXCEPT !.step = "build", !.sha = release.target, !.id = release.id]
  /\ UNCHANGED <<main, previous, release, spent>>

\* The build of the source; no two of them have the same bytes.
Build ==
  /\ job.step = "build"
  /\ job' = [job EXCEPT !.step = "attach", !.built = Len(spent.sources) + 1]
  /\ spent' = [spent EXCEPT !.sources = Append(@, job.sha)]
  /\ UNCHANGED <<main, previous, release>>

\* main attach, up to the first upload: draft, source and outputs agree, the
\* files are those of the source, and what was attached before is listed.
Attach ==
  /\ job.step = "attach"
  /\ SourceVerified(release.target)
  /\ release.target = job.sha /\ release.id = job.id
  /\ spent.sources[job.built] = job.sha
  /\ ExistingVerified(job.built)
  /\ job' = [job EXCEPT !.uploaded = {a \in Assets : release.assets[a] # Absent},
                        !.step = "recheck"]
  /\ UNCHANGED <<main, previous, release, spent>>

\* The draft is looked up again before each upload, and after the last.
Recheck ==
  /\ job.step = "recheck" /\ DraftVerified(job.sha) /\ release.id = job.id
  /\ Goes(IF job.uploaded = Assets THEN "final" ELSE "upload")
  /\ UNCHANGED <<main, previous, release, spent>>

\* The server takes a new asset of a draft only; its answer
\* may be lost (Fail).
Upload ==
  /\ job.step = "upload" /\ release.id = job.id /\ release.draft
  /\ \E a \in Assets \ job.uploaded :
       /\ release.assets[a] = Absent
       /\ release' = [release EXCEPT !.assets[a] = job.built]
       /\ job' = [job EXCEPT !.uploaded = @ \cup {a}, !.step = "recheck"]
  /\ UNCHANGED <<main, previous, spent>>

FinalCheck ==
  /\ job.step = "final" /\ release.id = job.id
  /\ \A a \in Assets : release.assets[a] # Absent
  /\ ExistingVerified(job.built)
  /\ Goes("attached")
  /\ UNCHANGED <<main, previous, release, spent>>

-----------------------------------------------------------------------------
(* Everybody else (external).                                              *)

Advance ==
  /\ Len(main) < MaxMain
  /\ \E change \in Changes : main' = Append(main, change)
  /\ UNCHANGED <<previous, release, job, spent>>

\* A maintainer publishes, retargets or deletes the draft, or removes or adds
\* an asset of it.
Meddle ==
  /\ Exists /\ release.draft /\ spent.meddling < Meddling
  /\ \/ release' = [release EXCEPT !.draft = FALSE]
     \/ \E sha \in 0..Len(main) : release' = [release EXCEPT !.target = sha]
     \/ release' = Nothing
     \/ \E a \in Assets : release' = [release EXCEPT !.assets[a] =
          IF @ = Absent THEN Foreign ELSE Absent]
  /\ spent' = [spent EXCEPT !.meddling = @ + 1]
  /\ UNCHANGED <<main, previous, job>>

ReleaseStep ==
  \/ Fail \/ Dispatch \/ RerunAttach \/ Preflight \/ CreateDraft \/ Resolve
  \/ Build \/ Attach \/ Recheck \/ Upload \/ FinalCheck \/ Advance \/ Meddle

-----------------------------------------------------------------------------
ReleaseTypeOK ==
  /\ job.step \in Steps /\ job.checkout \in 0..Len(main) /\ job.sha \in 0..Len(main)
  /\ release.target \in 0..Len(main)
  /\ job.uploaded \subseteq Assets
  /\ spent.dispatches \in 0..Dispatches

\* What the workflow attached to a release.
Attached == {release.assets[a] : a \in Assets} \ {Absent, Foreign}

\* A release never holds assets of two builds, whatever was resumed, retried or
\* dispatched again after a job died in between, and all of them are built from
\* a merged release PR of main under the control files of the checkout.
OneReviewedBuild ==
  /\ Cardinality(Attached) <= 1
  /\ \A built \in Attached : main[spent.sources[built]] = "release"
  /\ (job.step \in {"attach", "recheck", "upload", "final", "attached"} /\ job.built \in Attached) =>
       Control(job.sha) = Control(job.checkout)
=============================================================================
