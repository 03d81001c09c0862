---------------------------- MODULE ToolingProofs ----------------------------
(***************************************************************************)
(* Proofs about the repository's tooling: what the Windows release         *)
(* workflow attaches to a draft, what the evaluation of the observation    *)
(* evidence reports of two levels, and what the parent of an isolated      *)
(* observation makes of its child's lines.  The invariants of the parts    *)
(* are carried to ToolingSpec, in which one of them runs.                  *)
(***************************************************************************)
EXTENDS Tooling, FiniteSetTheorems, SequenceTheorems, WellFoundedInduction, NaturalsInduction, TLAPS

-----------------------------------------------------------------------------
(* The release.                                                            *)

Jobs == [step : Steps, operation : {"none", "prepare", "draft"}, checkout : Nat,
         sha : Nat, created : Nat, id : Nat, built : Nat, uploaded : SUBSET Assets]

Releases == [id : Nat, target : Nat, draft : BOOLEAN, assets : [Assets -> Nat]]

Spendings == [dispatches : Nat, meddling : Nat, ids : Nat, sources : Seq(Nat),
              failed : SUBSET Jobs]

ReleaseTypes ==
  /\ main \in Seq(Changes)
  /\ release \in Releases
  /\ job \in Jobs
  /\ spent \in Spendings

\* A run that has built has done so from its source, which had the control
\* files of its checkout.
Built(j) ==
  /\ j.checkout \in 0..Len(main) /\ j.sha \in 0..Len(main)
  /\ j.built # Absent =>
       /\ j.built \in 1..Len(spent.sources) /\ spent.sources[j.built] = j.sha
       /\ Control(j.sha) = Control(j.checkout)

\* The steps before a run has built, and those that only follow its build.
Unbuilt == {"preflight", "create", "resolve", "build"}
Attaching == {"recheck", "upload", "final"}

RunInv ==
  /\ Built(job)
  /\ \A j \in spent.failed : Built(j) /\ j.built # Absent /\ j.step = "attach"
  /\ job.step = "build" => FromReleasePr(job.sha) /\ Control(job.sha) = Control(job.checkout)
  /\ job.step \in Unbuilt => job.built = Absent
  /\ job.step \in Attaching \cup {"attach", "attached"} => job.built # Absent
  /\ job.step \in Attaching => job.id # 0

\* A build costs a dispatch, so that no build's number is Foreign.
SourcesInv ==
  /\ \A i \in 1..Len(spent.sources) : FromReleasePr(spent.sources[i])
  /\ spent.dispatches <= Dispatches
  /\ Len(spent.sources) + (IF job.step \in Unbuilt THEN 1 ELSE 0) <= spent.dispatches

\* While a run attaches, the draft that it has looked at holds its build alone.
AssetsInv ==
  /\ release.target <= Len(main)
  /\ \A a \in Assets : release.assets[a] \in {Absent, Foreign} \cup 1..Len(spent.sources)
  /\ \A a, b \in Assets :
       {release.assets[a], release.assets[b]} \cap {Absent, Foreign} = {} =>
         release.assets[a] = release.assets[b]
  /\ (job.step \in Attaching /\ release.id = job.id) =>
       \A a \in Assets : release.assets[a] \in {Absent, Foreign, job.built}

ReleaseInv == ReleaseTypes /\ RunInv /\ SourcesInv /\ AssetsInv

LEMMA InitReleaseInv == ReleaseInit => ReleaseInv
<1> SUFFICES ASSUME ReleaseInit PROVE ReleaseInv
  OBVIOUS
<1> USE ReleaseAssumption DEF ReleaseInit, Nothing, Absent, Side, Foreign
<1>1. ReleaseTypes
  BY DEF ReleaseTypes, Releases, Spendings, Jobs, Steps, Changes
<1>2. RunInv
  BY DEF RunInv, Built, Attaching, Unbuilt
<1>3. SourcesInv
  BY DEF SourcesInv, Unbuilt
<1>4. AssetsInv
  BY DEF AssetsInv, Attaching
<1> QED BY <1>1, <1>2, <1>3, <1>4 DEF ReleaseInv

\* What a check found of a commit stays so when main grows.
LEMMA MainGrows ==
  ASSUME ReleaseTypes, NEW change \in Changes, main' = Append(main, change)
  PROVE  /\ main' \in Seq(Changes) /\ Len(main') = Len(main) + 1
         /\ \A sha \in 0..Len(main) :
              Control(sha)' = Control(sha) /\ (FromReleasePr(sha) => FromReleasePr(sha)')
<1>1. /\ main \in Seq(Changes) /\ main' \in Seq(Changes) /\ Len(main) \in Nat
      /\ Len(main') = Len(main) + 1 /\ \A i \in 1..Len(main) : main'[i] = main[i]
  BY DEF ReleaseTypes, Releases, Spendings
<1>2. ASSUME NEW sha \in 0..Len(main) PROVE Control(sha)' = Control(sha)
  BY <1>1 DEF Control
<1>3. ASSUME NEW sha \in 0..Len(main), FromReleasePr(sha) PROVE FromReleasePr(sha)'
  BY <1>1, <1>3 DEF FromReleasePr
<1> QED BY <1>1, <1>2, <1>3

LEMMA AdvanceReleaseInv == ASSUME ReleaseInv, Advance PROVE ReleaseInv'
<1> PICK change \in Changes : main' = Append(main, change)
  BY DEF Advance
<1>1. UNCHANGED <<previous, release, job, spent>>
  BY DEF Advance
<1>2. /\ main' \in Seq(Changes) /\ Len(main) \in Nat /\ Len(main') = Len(main) + 1
      /\ \A sha \in 0..Len(main) :
           Control(sha)' = Control(sha) /\ (FromReleasePr(sha) => FromReleasePr(sha)')
  BY MainGrows DEF ReleaseInv, ReleaseTypes, Releases, Spendings
<1>3. ReleaseTypes'
  BY <1>1, <1>2 DEF ReleaseInv, ReleaseTypes, Releases, Spendings
<1>4. ASSUME NEW j, Built(j) PROVE Built(j)'
  <2>1. j.checkout \in 0..Len(main') /\ j.sha \in 0..Len(main')
    BY <1>2, <1>4 DEF Built
  <2>2. j.built # Absent => Control(j.sha)' = Control(j.checkout)'
    BY <1>2, <1>4 DEF Built
  <2> QED BY <1>1, <1>4, <2>1, <2>2 DEF Built
<1>5. RunInv'
  <2>1. Built(job)' /\ \A j \in spent.failed : Built(j)'
    BY <1>1, <1>4 DEF ReleaseInv, RunInv, Built
  <2>2. job.step = "build" => FromReleasePr(job.sha)' /\ Control(job.sha)' = Control(job.checkout)'
    BY <1>1, <1>2 DEF ReleaseInv, RunInv, Built
  <2> QED BY <1>1, <2>1, <2>2 DEF ReleaseInv, RunInv, FromReleasePr, Control
<1>6. SourcesInv'
  <2>1. ASSUME NEW i \in 1..Len(spent.sources) PROVE FromReleasePr(spent.sources[i])'
    <3>1. FromReleasePr(spent.sources[i])
      BY DEF ReleaseInv, SourcesInv
    <3> QED BY <1>1, <1>2, <3>1 DEF FromReleasePr
  <2> QED BY <1>1, <2>1 DEF ReleaseInv, SourcesInv, FromReleasePr
<1>7. AssetsInv'
  BY <1>1, <1>2 DEF ReleaseInv, AssetsInv, ReleaseTypes, Releases, Spendings
<1> QED BY <1>3, <1>5, <1>6, <1>7 DEF ReleaseInv

\* What was built stays so as long as no commit and no build comes in.
LEMMA StillBuilt ==
  ASSUME UNCHANGED <<main, spent.sources>>
  PROVE  /\ \A j : Built(j) => Built(j)'
         /\ \A sha : Control(sha)' = Control(sha) /\ FromReleasePr(sha)' = FromReleasePr(sha)
BY DEF Built, Control, FromReleasePr

LEMMA FailReleaseInv == ASSUME ReleaseInv, Fail PROVE ReleaseInv'
<1>1. /\ UNCHANGED <<main, previous, release>>
      /\ job' = [job EXCEPT !.step = "failed"]
      /\ spent' = [spent EXCEPT !.failed = @ \cup Retained]
      /\ job \in Jobs /\ Retained \subseteq Jobs /\ spent.failed \subseteq Jobs
  <2>1. job \in Jobs /\ spent.failed \subseteq Jobs
    BY DEF ReleaseInv, ReleaseTypes, Releases, Spendings
  <2>2. [job EXCEPT !.step = "attach", !.uploaded = {}] \in Jobs
    BY <2>1 DEF Jobs, Steps
  <2> QED BY <2>1, <2>2 DEF Fail, Goes, Retained
<1>2. /\ spent'.sources = spent.sources /\ spent'.dispatches = spent.dispatches
      /\ spent'.failed = spent.failed \cup Retained
  BY <1>1 DEF ReleaseInv, ReleaseTypes, Releases, Spendings
<1>3. job'.step = "failed" /\ \A j : Built(j) => Built(j)'
  <2>1. job'.step = "failed"
    BY <1>1 DEF Jobs
  <2> QED BY <1>1, <1>2, <2>1, StillBuilt
<1>4. ReleaseTypes'
  <2>1. job' \in Jobs
    BY <1>1 DEF Jobs, Steps
  <2> QED BY <1>1, <2>1 DEF ReleaseInv, ReleaseTypes, Releases, Spendings
<1>5. RunInv'
  <2>1. Built(job)'
    <3>1. job'.checkout = job.checkout /\ job'.sha = job.sha /\ job'.built = job.built
      BY <1>1 DEF Jobs
    <3>2. Built(job)
      BY DEF ReleaseInv, RunInv
    <3> QED BY <1>1, <1>2, <3>1, <3>2 DEF Built, Control
  <2>2. ASSUME NEW j \in Retained PROVE Built(j) /\ j.built # Absent /\ j.step = "attach"
    <3>1. j = [job EXCEPT !.step = "attach", !.uploaded = {}] /\ job.built # Absent
      BY DEF Retained
    <3>2. /\ j.checkout = job.checkout /\ j.sha = job.sha /\ j.built = job.built
          /\ j.step = "attach"
      BY <1>1, <3>1 DEF Jobs
    <3> QED BY <3>1, <3>2 DEF ReleaseInv, RunInv, Built
  <2>3. \A j \in spent'.failed : Built(j)' /\ j.built # Absent /\ j.step = "attach"
    BY <1>2, <1>3, <2>2 DEF ReleaseInv, RunInv
  <2> QED BY <1>3, <2>1, <2>3 DEF RunInv, Attaching, Unbuilt
<1>6. SourcesInv'
  BY <1>1, <1>2, <1>3 DEF ReleaseInv, ReleaseTypes, Releases, Spendings, SourcesInv, FromReleasePr, Unbuilt
<1>7. AssetsInv'
  BY <1>1, <1>2, <1>3 DEF ReleaseInv, AssetsInv, Attaching
<1> QED BY <1>4, <1>5, <1>6, <1>7 DEF ReleaseInv

LEMMA DispatchReleaseInv == ASSUME ReleaseInv, Dispatch PROVE ReleaseInv'
<1> PICK operation \in {"prepare", "draft"} :
       job' = [job EXCEPT !.step = "preflight", !.operation = operation,
                          !.checkout = Len(main), !.sha = Side, !.created = Side,
                          !.id = 0, !.built = Absent, !.uploaded = {}]
  BY DEF Dispatch
<1>1. /\ UNCHANGED <<main, previous, release>> /\ Len(main) \in Nat
      /\ spent' = [spent EXCEPT !.dispatches = @ + 1] /\ spent.dispatches < Dispatches
      /\ job \in Jobs /\ spent.dispatches \in Nat /\ Len(spent.sources) \in Nat
      /\ job.step \notin Unbuilt
  BY DEF Dispatch, ReleaseInv, ReleaseTypes, Releases, Spendings, Unbuilt
<1>2. /\ job' \in Jobs /\ job'.step = "preflight" /\ job'.checkout = Len(main)
      /\ job'.sha = 0 /\ job'.built = 0
  BY <1>1 DEF Jobs, Steps, Side, Absent
<1>3. /\ spent'.sources = spent.sources /\ spent'.dispatches = spent.dispatches + 1
      /\ spent'.failed = spent.failed
  BY <1>1 DEF ReleaseInv, ReleaseTypes, Releases, Spendings
<1>4. ReleaseTypes'
  <2>1. spent' \in Spendings
    <3>1. spent \in Spendings /\ spent.dispatches + 1 \in Nat
      BY <1>1 DEF ReleaseInv, ReleaseTypes
    <3> QED BY <1>1, <3>1 DEF Spendings
  <2> QED BY <1>1, <1>2, <2>1 DEF ReleaseInv, ReleaseTypes
<1>5. RunInv'
  <2>1. Built(job)'
    BY <1>1, <1>2 DEF Built, Absent
  <2>2. \A j \in spent'.failed : Built(j)' /\ j.built # Absent /\ j.step = "attach"
    BY <1>1, <1>3, StillBuilt DEF ReleaseInv, RunInv
  <2> QED BY <1>2, <2>1, <2>2 DEF RunInv, Attaching, Unbuilt
<1>6. SourcesInv'
  BY <1>1, <1>2, <1>3, ReleaseAssumption DEF ReleaseInv, SourcesInv, FromReleasePr, Unbuilt
<1>7. AssetsInv'
  BY <1>1, <1>2, <1>3 DEF ReleaseInv, AssetsInv, Attaching
<1> QED BY <1>4, <1>5, <1>6, <1>7 DEF ReleaseInv

LEMMA RerunAttachReleaseInv == ASSUME ReleaseInv, RerunAttach PROVE ReleaseInv'
<1>1. /\ UNCHANGED <<main, previous, release>> /\ job' \in spent.failed
      /\ spent' = [spent EXCEPT !.dispatches = @ + 1] /\ spent.dispatches < Dispatches
      /\ spent.dispatches \in Nat /\ Len(spent.sources) \in Nat
      /\ job.step \notin Unbuilt
  BY DEF RerunAttach, ReleaseInv, ReleaseTypes, Releases, Spendings, Unbuilt
<1>2. Built(job)' /\ job'.built # Absent /\ job'.step = "attach" /\ job' \in Jobs
  <2>1. UNCHANGED spent.sources
    BY <1>1 DEF ReleaseInv, ReleaseTypes, Releases, Spendings
  <2>2. Built(job')
    BY <1>1 DEF ReleaseInv, RunInv
  <2>3. Built(job)'
    BY <1>1, <2>1, <2>2 DEF Built, Control
  <2> QED BY <1>1, <2>3 DEF ReleaseInv, ReleaseTypes, Releases, Spendings, RunInv
<1>3. /\ spent'.sources = spent.sources /\ spent'.dispatches = spent.dispatches + 1
      /\ spent'.failed = spent.failed
  BY <1>1 DEF ReleaseInv, ReleaseTypes, Releases, Spendings
<1>4. ReleaseTypes'
  <2>1. spent' \in Spendings
    <3>1. spent \in Spendings /\ spent.dispatches + 1 \in Nat
      BY <1>1 DEF ReleaseInv, ReleaseTypes
    <3> QED BY <1>1, <3>1 DEF Spendings
  <2> QED BY <1>1, <1>2, <2>1 DEF ReleaseInv, ReleaseTypes
<1>5. RunInv'
  <2>1. \A j \in spent'.failed : Built(j)' /\ j.built # Absent /\ j.step = "attach"
    BY <1>1, <1>3, StillBuilt DEF ReleaseInv, RunInv
  <2> QED BY <1>2, <2>1 DEF RunInv, Attaching, Unbuilt
<1>6. SourcesInv'
  BY <1>1, <1>2, <1>3, ReleaseAssumption DEF ReleaseInv, SourcesInv, FromReleasePr, Unbuilt
<1>7. AssetsInv'
  BY <1>1, <1>2, <1>3 DEF ReleaseInv, AssetsInv, Attaching
<1> QED BY <1>4, <1>5, <1>6, <1>7 DEF ReleaseInv

\* A step that changes the run's stage alone, and no release.
LEMMA GoesReleaseInv ==
  ASSUME ReleaseInv, UNCHANGED <<main, release, spent>>, NEW step \in Steps, Goes(step),
         step = "build" => job.step = "build",
         step \in Unbuilt => job.step \in Unbuilt,
         step \in Attaching \cup {"attach", "attached"} => job.step \in Attaching,
         step \in Attaching => job.step \in Attaching
  PROVE  ReleaseInv'
<1>1. /\ job \in Jobs /\ job' \in Jobs /\ job'.step = step
      /\ job'.checkout = job.checkout /\ job'.sha = job.sha /\ job'.built = job.built
      /\ job'.id = job.id
  BY DEF ReleaseInv, ReleaseTypes, Releases, Spendings, Jobs, Goes
<1>2. ReleaseTypes'
  BY <1>1 DEF ReleaseInv, ReleaseTypes, Releases, Spendings
<1>3. RunInv'
  BY <1>1 DEF ReleaseInv, RunInv, Built, Control, FromReleasePr
<1>4. SourcesInv'
  BY <1>1 DEF ReleaseInv, ReleaseTypes, Releases, Spendings, SourcesInv, FromReleasePr
<1>5. AssetsInv'
  BY <1>1 DEF ReleaseInv, AssetsInv
<1> QED BY <1>2, <1>3, <1>4, <1>5 DEF ReleaseInv

LEMMA PreflightReleaseInv == ASSUME ReleaseInv, Preflight PROVE ReleaseInv'
<1>1. /\ job.step = "preflight" /\ UNCHANGED <<main, release, spent>>
      /\ \E step \in {"resolve", "prepared", "create"} : Goes(step)
  BY DEF Preflight
<1> QED BY <1>1, GoesReleaseInv DEF Unbuilt, Attaching, Steps

LEMMA RecheckReleaseInv == ASSUME ReleaseInv, Recheck PROVE ReleaseInv'
<1>1. /\ job.step = "recheck" /\ UNCHANGED <<main, release, spent>>
      /\ \E step \in {"final", "upload"} : Goes(step)
  BY DEF Recheck
<1> QED BY <1>1, GoesReleaseInv DEF Unbuilt, Attaching, Steps

LEMMA FinalCheckReleaseInv == ASSUME ReleaseInv, FinalCheck PROVE ReleaseInv'
<1>1. job.step = "final" /\ UNCHANGED <<main, release, spent>> /\ Goes("attached")
  BY DEF FinalCheck
<1> QED BY <1>1, GoesReleaseInv DEF Unbuilt, Attaching, Steps

LEMMA CreateDraftReleaseInv == ASSUME ReleaseInv, CreateDraft PROVE ReleaseInv'
<1> PICK sha \in 1..Len(main) :
       /\ release' = [Nothing EXCEPT !.id = spent.ids + 1, !.target = sha, !.draft = TRUE]
       /\ job' = [job EXCEPT !.step = "resolve", !.created = sha]
  BY DEF CreateDraft
<1>1. /\ job.step = "create" /\ spent' = [spent EXCEPT !.ids = @ + 1] /\ main' = main
      /\ spent.ids + 1 \in Nat /\ sha \in Nat /\ job \in Jobs /\ spent \in Spendings
  BY DEF CreateDraft, ReleaseInv, ReleaseTypes, Releases, Spendings
<1>2. /\ job' \in Jobs /\ job'.step = "resolve" /\ job'.built = Absent
      /\ job'.checkout = job.checkout /\ job'.sha = job.sha /\ job'.built = job.built
  <2>1. job.built = Absent
    BY <1>1 DEF ReleaseInv, RunInv, Unbuilt
  <2> QED BY <1>1, <2>1 DEF Jobs, Steps
<1>3. /\ spent'.sources = spent.sources /\ spent'.dispatches = spent.dispatches
      /\ spent'.failed = spent.failed
  BY <1>1 DEF ReleaseInv, ReleaseTypes, Releases, Spendings
<1>4. ReleaseTypes'
  <2>1. release' \in Releases
    BY <1>1 DEF Releases, Nothing, Absent, Side
  <2>2. spent' \in Spendings
    BY <1>1 DEF Spendings
  <2> QED BY <1>1, <1>2, <2>1, <2>2 DEF ReleaseInv, ReleaseTypes
<1>5. RunInv'
  <2>1. Built(job)'
    BY <1>1, <1>2, <1>3 DEF ReleaseInv, RunInv, Built, Control
  <2>2. \A j \in spent'.failed : Built(j)' /\ j.built # Absent /\ j.step = "attach"
    BY <1>1, <1>3, StillBuilt DEF ReleaseInv, RunInv
  <2> QED BY <1>2, <2>1, <2>2 DEF RunInv, Attaching, Unbuilt
<1>6. SourcesInv'
  BY <1>1, <1>2, <1>3 DEF ReleaseInv, ReleaseTypes, Releases, Spendings, SourcesInv, FromReleasePr, Unbuilt
<1>7. AssetsInv'
  <2>1. release'.target = sha /\ \A a \in Assets : release'.assets[a] = Absent
    BY DEF Nothing
  <2> QED BY <1>1, <1>2, <2>1 DEF AssetsInv, Attaching
<1> QED BY <1>4, <1>5, <1>6, <1>7 DEF ReleaseInv

\* The source is a merged release PR with the control files of the checkout.
LEMMA ResolveReleaseInv == ASSUME ReleaseInv, Resolve PROVE ReleaseInv'
<1>1. /\ job.step = "resolve" /\ UNCHANGED <<main, release, spent>>
      /\ FromReleasePr(release.target) /\ Control(release.target) = Control(job.checkout)
      /\ job' = [job EXCEPT !.step = "build", !.sha = release.target, !.id = release.id]
  BY DEF Resolve, SourceVerified, BindingsVerified
<1>2. /\ job \in Jobs /\ job' \in Jobs /\ job'.step = "build"
      /\ job'.checkout = job.checkout /\ job'.sha = release.target /\ job'.built = job.built
      /\ release.target \in 0..Len(main)
  <2>1. job \in Jobs /\ release \in Releases /\ Len(main) \in Nat
    BY DEF ReleaseInv, ReleaseTypes
  <2>2. release.target \in Nat /\ release.id \in Nat /\ release.target <= Len(main)
    BY <2>1 DEF Releases, ReleaseInv, AssetsInv
  <2>3. job' \in Jobs
    BY <1>1, <2>1, <2>2 DEF Jobs, Steps
  <2>4. /\ job'.step = "build" /\ job'.checkout = job.checkout
        /\ job'.sha = release.target /\ job'.built = job.built
    BY <1>1, <2>1 DEF Jobs
  <2>5. release.target \in 0..Len(main)
    BY <2>1, <2>2
  <2> QED BY <2>1, <2>3, <2>4, <2>5
<1>3. job.built = Absent
  BY <1>1 DEF ReleaseInv, RunInv, Unbuilt
<1>4. ReleaseTypes'
  BY <1>1, <1>2 DEF ReleaseInv, ReleaseTypes, Releases, Spendings
<1>5. RunInv'
  <2>1. Built(job)'
    BY <1>1, <1>2, <1>3 DEF ReleaseInv, RunInv, Built
  <2>2. FromReleasePr(job.sha)' /\ Control(job.sha)' = Control(job.checkout)'
    BY <1>1, <1>2 DEF FromReleasePr, Control
  <2>3. \A j \in spent'.failed : Built(j)' /\ j.built # Absent /\ j.step = "attach"
    BY <1>1, StillBuilt DEF ReleaseInv, RunInv
  <2> QED BY <1>2, <1>3, <2>1, <2>2, <2>3 DEF RunInv, Attaching, Unbuilt
<1>6. SourcesInv'
  BY <1>1, <1>2 DEF ReleaseInv, ReleaseTypes, Releases, Spendings, SourcesInv, FromReleasePr, Unbuilt
<1>7. AssetsInv'
  BY <1>1, <1>2 DEF ReleaseInv, AssetsInv, Attaching
<1> QED BY <1>4, <1>5, <1>6, <1>7 DEF ReleaseInv

LEMMA BuildReleaseInv == ASSUME ReleaseInv, Build PROVE ReleaseInv'
<1> DEFINE number == Len(spent.sources) + 1
<1>1. /\ job.step = "build" /\ UNCHANGED <<main, release>>
      /\ job' = [job EXCEPT !.step = "attach", !.built = number]
      /\ spent' = [spent EXCEPT !.sources = Append(@, job.sha)]
  BY DEF Build
<1>2. /\ job \in Jobs /\ spent \in Spendings /\ spent.sources \in Seq(Nat)
      /\ job.sha \in Nat /\ number \in Nat /\ spent.dispatches \in Nat
      /\ Len(spent.sources) \in Nat
  BY DEF ReleaseInv, ReleaseTypes, Jobs, Spendings
<1>3. /\ job' \in Jobs /\ job'.step = "attach" /\ job'.built = number
      /\ job'.checkout = job.checkout /\ job'.sha = job.sha
  BY <1>1, <1>2 DEF Jobs, Steps
<1>4. /\ spent' \in Spendings /\ spent'.sources = Append(spent.sources, job.sha)
      /\ spent'.failed = spent.failed /\ spent'.dispatches = spent.dispatches
  <2>1. Append(spent.sources, job.sha) \in Seq(Nat)
    BY <1>2
  <2> QED BY <1>1, <1>2, <2>1 DEF Spendings
<1>5. /\ Len(spent'.sources) = number /\ spent'.sources[number] = job.sha
      /\ \A i \in 1..Len(spent.sources) : spent'.sources[i] = spent.sources[i]
  BY <1>2, <1>4
<1>6. ReleaseTypes'
  BY <1>1, <1>3, <1>4 DEF ReleaseInv, ReleaseTypes
<1>7. RunInv'
  <2>1. \A sha : Control(sha)' = Control(sha)
    BY <1>1 DEF Control
  <2>2. Built(job)'
    <3>1. Control(job.sha) = Control(job.checkout) /\ Built(job)
      BY <1>1 DEF ReleaseInv, RunInv
    <3>2. Control(job.sha)' = Control(job.checkout)'
      BY <1>1, <1>3, <3>1 DEF Control
    <3> QED BY <1>1, <1>2, <1>3, <1>5, <3>1, <3>2 DEF Built
  <2>3. ASSUME NEW j \in spent.failed PROVE Built(j)' /\ j.built # Absent /\ j.step = "attach"
    <3>1. Built(j) /\ j.built # Absent /\ j.step = "attach"
      BY DEF ReleaseInv, RunInv
    <3> QED BY <1>1, <1>2, <1>5, <2>1, <3>1 DEF Built
  <2> QED BY <1>2, <1>3, <1>4, <2>2, <2>3 DEF RunInv, Attaching, Unbuilt, Absent
<1>8. SourcesInv'
  <2>1. FromReleasePr(job.sha)
    BY <1>1 DEF ReleaseInv, RunInv
  <2>2. \A i \in 1..Len(spent'.sources) : FromReleasePr(spent'.sources[i])
    BY <1>2, <1>5, <2>1 DEF ReleaseInv, SourcesInv
  <2>3. number <= spent.dispatches /\ spent.dispatches <= Dispatches
    BY <1>1, <1>2 DEF ReleaseInv, SourcesInv, Unbuilt
  <2> QED BY <1>1, <1>3, <1>4, <1>5, <2>2, <2>3 DEF SourcesInv, FromReleasePr, Unbuilt
<1>9. AssetsInv'
  BY <1>1, <1>2, <1>3, <1>5 DEF ReleaseInv, AssetsInv, Attaching
<1> QED BY <1>6, <1>7, <1>8, <1>9 DEF ReleaseInv

\* What was attached before is the run's own build, or the run stops.
LEMMA AttachReleaseInv == ASSUME ReleaseInv, Attach PROVE ReleaseInv'
<1>1. /\ job.step = "attach" /\ UNCHANGED <<main, release, spent>>
      /\ release.id = job.id /\ release.id # 0
      /\ \A a \in Assets : release.assets[a] \in {Absent, job.built}
      /\ job' = [job EXCEPT !.uploaded = {a \in Assets : release.assets[a] # Absent},
                           !.step = "recheck"]
  BY DEF Attach, ExistingVerified, SourceVerified, DraftVerified, Exists
<1>2. /\ job \in Jobs /\ job' \in Jobs /\ job'.step = "recheck" /\ job'.id = job.id
      /\ job'.checkout = job.checkout /\ job'.sha = job.sha /\ job'.built = job.built
  BY <1>1 DEF ReleaseInv, ReleaseTypes, Jobs, Steps
<1>3. ReleaseTypes'
  BY <1>1, <1>2 DEF ReleaseInv, ReleaseTypes
<1>4. RunInv'
  BY <1>1, <1>2 DEF ReleaseInv, RunInv, Built, Control, FromReleasePr, Unbuilt
<1>5. SourcesInv'
  BY <1>1, <1>2 DEF ReleaseInv, ReleaseTypes, Spendings, SourcesInv, FromReleasePr, Unbuilt
<1>6. AssetsInv'
  BY <1>1, <1>2 DEF ReleaseInv, AssetsInv
<1> QED BY <1>3, <1>4, <1>5, <1>6 DEF ReleaseInv

LEMMA UploadReleaseInv == ASSUME ReleaseInv, Upload PROVE ReleaseInv'
<1> PICK a \in Assets \ job.uploaded :
       /\ release.assets[a] = Absent
       /\ release' = [release EXCEPT !.assets[a] = job.built]
       /\ job' = [job EXCEPT !.uploaded = @ \cup {a}, !.step = "recheck"]
  BY DEF Upload
<1>1. /\ job.step = "upload" /\ release.id = job.id /\ UNCHANGED <<main, spent>>
      /\ job \in Jobs /\ release \in Releases
  BY DEF Upload, ReleaseInv, ReleaseTypes
<1>2. /\ job' \in Jobs /\ job'.step = "recheck" /\ job'.id = job.id
      /\ job'.checkout = job.checkout /\ job'.sha = job.sha /\ job'.built = job.built
  BY <1>1 DEF Jobs, Steps
<1>3. /\ release' \in Releases /\ release'.id = release.id
      /\ release'.target = release.target
      /\ release'.assets = [release.assets EXCEPT ![a] = job.built]
  BY <1>1 DEF Releases, Jobs
<1>4. job.built \in 1..Len(spent.sources)
  BY <1>1 DEF ReleaseInv, RunInv, Built, Attaching
<1>5. \A b \in Assets : /\ release.assets[b] \in {Absent, Foreign, job.built}
                       /\ release'.assets[b] \in {release.assets[b], job.built}
  BY <1>1, <1>3 DEF ReleaseInv, AssetsInv, Attaching, Releases
<1>6. ReleaseTypes'
  BY <1>1, <1>2, <1>3 DEF ReleaseInv, ReleaseTypes
<1>7. RunInv'
  BY <1>1, <1>2 DEF ReleaseInv, RunInv, Built, Control, FromReleasePr, Unbuilt, Attaching
<1>8. SourcesInv'
  BY <1>1, <1>2 DEF ReleaseInv, ReleaseTypes, Spendings, SourcesInv, FromReleasePr, Unbuilt
<1>9. AssetsInv'
  <2>1. release'.target <= Len(main')
    BY <1>1, <1>3 DEF ReleaseInv, AssetsInv
  <2>2. \A b \in Assets : release'.assets[b] \in {Absent, Foreign, job.built}
    BY <1>5
  <2> QED BY <1>1, <1>2, <1>4, <2>1, <2>2 DEF AssetsInv
<1> QED BY <1>6, <1>7, <1>8, <1>9 DEF ReleaseInv

\* People spoil a draft, but add nothing that a workflow has built.
LEMMA MeddleReleaseInv == ASSUME ReleaseInv, Meddle PROVE ReleaseInv'
<1>1. /\ UNCHANGED <<main, job>> /\ spent' = [spent EXCEPT !.meddling = @ + 1]
      /\ job \in Jobs /\ release \in Releases /\ spent \in Spendings /\ Len(main) \in Nat
      /\ release.id # 0
  BY DEF Meddle, Exists, ReleaseInv, ReleaseTypes
<1>2. /\ spent' \in Spendings /\ spent'.sources = spent.sources
      /\ spent'.dispatches = spent.dispatches /\ spent'.failed = spent.failed
  <2>1. spent.meddling + 1 \in Nat
    BY <1>1 DEF Spendings
  <2> QED BY <1>1, <2>1 DEF Spendings
<1> DEFINE Harmless(r) ==
      /\ r \in Releases /\ r.target <= Len(main) /\ r.id \in {0, release.id}
      /\ \A a \in Assets : r.assets[a] \in {Absent, Foreign, release.assets[a]}
<1>3. Harmless(release')
  <2>1. release.target <= Len(main)
    BY DEF ReleaseInv, AssetsInv
  <2>2. CASE release' = [release EXCEPT !.draft = FALSE]
    BY <1>1, <2>1, <2>2 DEF Releases
  <2>3. CASE \E sha \in 0..Len(main) : release' = [release EXCEPT !.target = sha]
    <3> PICK sha \in 0..Len(main) : release' = [release EXCEPT !.target = sha]
      BY <2>3
    <3> QED BY <1>1 DEF Releases
  <2>4. CASE release' = Nothing
    BY <1>1, <2>4 DEF Releases, Nothing, Side, Absent
  <2>5. CASE \E a \in Assets : release' = [release EXCEPT !.assets[a] =
                                               IF @ = Absent THEN Foreign ELSE Absent]
    <3> PICK a \in Assets : release' = [release EXCEPT !.assets[a] =
                                          IF @ = Absent THEN Foreign ELSE Absent]
      BY <2>5
    <3>1. Foreign \in Nat /\ Absent \in Nat
      BY ReleaseAssumption DEF Foreign, Absent
    <3> QED BY <1>1, <2>1, <3>1 DEF Releases
  <2> QED BY <2>2, <2>3, <2>4, <2>5 DEF Meddle
<1>4. ReleaseTypes'
  BY <1>1, <1>2, <1>3 DEF ReleaseInv, ReleaseTypes
<1>5. RunInv'
  BY <1>1, <1>2 DEF ReleaseInv, RunInv, Built, Control, FromReleasePr
<1>6. SourcesInv'
  BY <1>1, <1>2 DEF ReleaseInv, SourcesInv, FromReleasePr
<1>7. AssetsInv'
  <2>1. (job.step \in Attaching /\ release'.id = job.id) => release.id = job.id
    BY <1>3 DEF ReleaseInv, RunInv
  <2>2. \A a, b \in Assets :
          {release'.assets[a], release'.assets[b]} \cap {Absent, Foreign} = {} =>
            release'.assets[a] = release.assets[a] /\ release'.assets[b] = release.assets[b]
    BY <1>3
  <2>3. \A a, b \in Assets :
          {release'.assets[a], release'.assets[b]} \cap {Absent, Foreign} = {} =>
            release'.assets[a] = release'.assets[b]
    BY <2>2 DEF ReleaseInv, AssetsInv
  <2>4. \A a \in Assets : release'.assets[a] \in {Absent, Foreign} \cup 1..Len(spent.sources)
    BY <1>3 DEF ReleaseInv, AssetsInv
  <2>5. (job.step \in Attaching /\ release'.id = job.id) =>
          \A a \in Assets : release'.assets[a] \in {Absent, Foreign, job.built}
    BY <1>3, <2>1 DEF ReleaseInv, AssetsInv
  <2>6. Absent' = Absent /\ Foreign' = Foreign /\ Attaching' = Attaching
    BY DEF Absent, Foreign, Attaching
  <2> QED BY <1>1, <1>2, <1>3, <2>3, <2>4, <2>5, <2>6 DEF AssetsInv
<1> QED BY <1>4, <1>5, <1>6, <1>7 DEF ReleaseInv

LEMMA NextReleaseInv == ReleaseInv /\ [ReleaseStep]_releaseVars => ReleaseInv'
<1> SUFFICES ASSUME ReleaseInv, [ReleaseStep]_releaseVars PROVE ReleaseInv'
  OBVIOUS
<1>1. CASE UNCHANGED releaseVars
  BY <1>1 DEF releaseVars, ReleaseInv, ReleaseTypes, RunInv, Built, SourcesInv, AssetsInv,
     Control, FromReleasePr
<1> QED BY <1>1, AdvanceReleaseInv, FailReleaseInv, DispatchReleaseInv,
     RerunAttachReleaseInv, PreflightReleaseInv, CreateDraftReleaseInv, ResolveReleaseInv,
     BuildReleaseInv, AttachReleaseInv, RecheckReleaseInv, UploadReleaseInv,
     FinalCheckReleaseInv, MeddleReleaseInv DEF ReleaseStep

LEMMA ReleaseIsSound == ReleaseInv => OneReviewedBuild /\ ReleaseTypeOK
<1> SUFFICES ASSUME ReleaseInv PROVE OneReviewedBuild /\ ReleaseTypeOK
  OBVIOUS
<1>1. Cardinality(Attached) <= 1
  <2>1. \A x, y \in Attached : x = y
    BY DEF Attached, ReleaseInv, AssetsInv
  <2>2. Attached = {} \/ \E x : Attached = {x}
    BY <2>1
  <2>3. CASE Attached = {}
    BY <2>3, FS_EmptySet
  <2>4. ASSUME NEW x, Attached = {x} PROVE Cardinality(Attached) <= 1
    <3>1. Cardinality({x}) = 1
      BY FS_Singleton
    <3> QED BY <2>4, <3>1
  <2> QED BY <2>2, <2>3, <2>4
<1>2. \A built \in Attached : main[spent.sources[built]] = "release"
  BY DEF Attached, ReleaseInv, AssetsInv, SourcesInv, FromReleasePr
<1>3. job.step \in {"attach", "recheck", "upload", "final", "attached"} =>
        Control(job.sha) = Control(job.checkout)
  BY DEF ReleaseInv, RunInv, Built, Attaching
<1>4. ReleaseTypeOK
  BY DEF ReleaseTypeOK, ReleaseInv, ReleaseTypes, RunInv, Built, SourcesInv, AssetsInv, Jobs,
     Releases, Spendings
<1> QED BY <1>1, <1>2, <1>3, <1>4 DEF OneReviewedBuild

\* Induction over the numbers up to a bound, without an operator parameter.
LEMMA UpTo ==
  ASSUME NEW n \in Nat, NEW T, 0 \in T,
         \A k \in 0..(n - 1) : k \in T => k + 1 \in T
  PROVE  \A k \in 0..n : k \in T
<1> DEFINE Missed == {k \in 0..n : k \notin T}
<1> SUFFICES ASSUME Missed # {} PROVE FALSE
  OBVIOUS
<1>1. IsWellFoundedOn(OpToRel(<, Nat), Nat)
  BY NatLessThanWellFounded
<1>2. Missed \subseteq Nat
  OBVIOUS
<1>3. PICK m \in Missed : \A k \in Missed : <<k, m>> \notin OpToRel(<, Nat)
  <2> HIDE DEF Missed
  <2> QED BY <1>1, <1>2, WFMin
<1>4. \A k \in Missed : ~(k < m)
  BY <1>2, <1>3 DEF OpToRel
<1>5. m # 0 /\ m - 1 \in 0..(n - 1)
  OBVIOUS
<1>6. m - 1 \notin Missed
  BY <1>4, <1>5
<1> QED BY <1>5, <1>6

-----------------------------------------------------------------------------
(* What the child writes, and what the parent makes of it.                 *)

\* The records of a child whose stages all run.
Planned(i) == CASE i = 1 -> Record("hello", 0)
                [] i # 1 /\ i % 2 = 0 -> Record("begin", i \div 2)
                [] i # 1 /\ i % 2 = 1 -> Record("end", i \div 2)

Records == [kind : {"hello", "begin", "end", "stop", "final"}, stage : 0..Stages]

Terminal(r) == r.kind \in {"stop", "final"}

\* Records in the planned order, of which the last may end them at a boundary.
InOrder(records) ==
  \A i \in 1..Len(records) :
    \/ records[i] = Planned(i)
    \/ i = Len(records) /\ i % 2 = 0 /\ Terminal(records[i])

UpToStage(m) == [i \in 1..m |-> i]

\* The summary of the first n of them.
SumOf(records, n) ==
  IF Terminal(records[n])
  THEN [stages |-> UpToStage((n \div 2) - 1), open |-> 0, terminal |-> records[n].kind,
        faults |-> IF records[n].kind = "stop" THEN {"stopped"} ELSE {}]
  ELSE [stages |-> UpToStage((n - 1) \div 2), open |-> IF n % 2 = 0 THEN n \div 2 ELSE 0,
        terminal |-> "none", faults |-> {}]

LEMMA OneMore == ASSUME NEW m \in Nat PROVE Append(UpToStage(m), m + 1) = UpToStage(m + 1)
<1>1. UpToStage(m) \in Seq(Nat) /\ Len(UpToStage(m)) = m
  BY DEF UpToStage
<1>2. Append(UpToStage(m), m + 1) = [i \in 1..(m + 1) |-> IF i = m + 1 THEN m + 1 ELSE UpToStage(m)[i]]
  BY <1>1
<1> QED BY <1>2 DEF UpToStage

\* A record that follows in order leaves no fault behind.
LEMMA Absorbed ==
  ASSUME NEW st, NEW op, NEW r, NEW sum,
         sum = [stages |-> st, open |-> op, terminal |-> "none", faults |-> {}]
  PROVE  /\ (r.kind = "begin" /\ op = 0) =>
              Absorb(sum, r) = [stages |-> st, open |-> r.stage, terminal |-> "none", faults |-> {}]
         /\ (r.kind = "end" /\ op = r.stage) =>
              Absorb(sum, r) = [stages |-> Append(st, r.stage), open |-> 0,
                                terminal |-> "none", faults |-> {}]
         /\ (Terminal(r) /\ op = 0) =>
              Absorb(sum, r) = [stages |-> st, open |-> 0, terminal |-> r.kind,
                                faults |-> IF r.kind = "stop" THEN {"stopped"} ELSE {}]
<1>0. \A S : {} \cup S = S
  OBVIOUS
<1>1. ASSUME r.kind = "begin", op = 0
      PROVE  Absorb(sum, r) = [stages |-> st, open |-> r.stage, terminal |-> "none", faults |-> {}]
  <2>1. Absorb(sum, r) = [sum EXCEPT !.open = r.stage, !.faults = {} \cup {}]
    BY <1>1 DEF Absorb
  <2> QED BY <2>1, <1>0
<1>2. ASSUME r.kind = "end", op = r.stage
      PROVE  Absorb(sum, r) = [stages |-> Append(st, r.stage), open |-> 0,
                                terminal |-> "none", faults |-> {}]
  <2>1. Absorb(sum, r) = [sum EXCEPT !.open = 0, !.stages = Append(st, r.stage),
                                     !.faults = {} \cup {}]
    BY <1>2 DEF Absorb
  <2> QED BY <2>1, <1>0
<1>3. ASSUME Terminal(r), op = 0
      PROVE  Absorb(sum, r) = [stages |-> st, open |-> 0, terminal |-> r.kind,
                                faults |-> IF r.kind = "stop" THEN {"stopped"} ELSE {}]
  <2>1. Absorb(sum, r) = [sum EXCEPT !.terminal = r.kind, !.faults =
               ({} \cup {}) \cup (IF r.kind = "stop" THEN {"stopped"} ELSE {})]
    BY <1>3 DEF Absorb, Terminal
  <2> QED BY <1>3, <2>1, <1>0
<1> QED BY <1>1, <1>2, <1>3

LEMMA SumGrows ==
  ASSUME NEW records \in Seq(Records), InOrder(records), NEW n \in 2..Len(records)
  PROVE  SumOf(records, n) = Absorb(SumOf(records, n - 1), records[n])
<1>1. n - 1 \in 1..Len(records) /\ n \in 1..Len(records) /\ n - 1 # Len(records)
  OBVIOUS
<1>2. records[n - 1] = Planned(n - 1)
  BY <1>1 DEF InOrder
<1>3. ~Terminal(records[n - 1])
  BY <1>1, <1>2 DEF Planned, Terminal, Record
<1> DEFINE sum == SumOf(records, n - 1)
<1>4. sum = [stages |-> UpToStage((n - 2) \div 2),
             open |-> IF (n - 1) % 2 = 0 THEN (n - 1) \div 2 ELSE 0,
             terminal |-> "none", faults |-> {}]
  BY <1>3 DEF SumOf
<1> HIDE DEF sum
<1>5. CASE records[n] = Planned(n) /\ n % 2 = 0
  <2>1. records[n].kind = "begin" /\ records[n].stage = n \div 2
    BY <1>5 DEF Planned, Record
  <2>2. (n - 1) % 2 = 1 /\ (n - 2) \div 2 = (n - 1) \div 2
    BY <1>5
  <2>3. sum = [stages |-> UpToStage((n - 2) \div 2), open |-> 0,
               terminal |-> "none", faults |-> {}]
    <3>1. (IF (n - 1) % 2 = 0 THEN (n - 1) \div 2 ELSE 0) = 0
      BY <2>2
    <3> QED BY <1>4, <3>1
  <2>4. Absorb(sum, records[n]) = [stages |-> UpToStage((n - 2) \div 2), open |-> n \div 2,
                                   terminal |-> "none", faults |-> {}]
    <3> DEFINE r == records[n]
    <3> HIDE DEF r
    <3>1. Absorb(sum, r) = [stages |-> UpToStage((n - 2) \div 2), open |-> r.stage,
                            terminal |-> "none", faults |-> {}]
      BY <2>1, <2>3, Absorbed DEF r
    <3> QED BY <2>1, <3>1 DEF r
  <2>5. SumOf(records, n) = [stages |-> UpToStage((n - 1) \div 2), open |-> n \div 2,
                           terminal |-> "none", faults |-> {}]
    <3>1. (IF n % 2 = 0 THEN n \div 2 ELSE 0) = n \div 2 /\ ~Terminal(records[n])
      BY <1>5, <2>1 DEF Terminal
    <3> QED BY <3>1 DEF SumOf
  <2> QED BY <2>2, <2>4, <2>5 DEF sum
<1>6. CASE records[n] = Planned(n) /\ n % 2 = 1
  <2>1. records[n].kind = "end" /\ records[n].stage = n \div 2
    BY <1>6 DEF Planned, Record
  <2>2. (n - 1) % 2 = 0 /\ (n - 1) \div 2 = n \div 2 /\ (n - 2) \div 2 + 1 = n \div 2
        /\ (n - 2) \div 2 \in Nat
    BY <1>6
  <2>3. sum = [stages |-> UpToStage((n - 2) \div 2), open |-> n \div 2,
               terminal |-> "none", faults |-> {}]
    <3>1. (IF (n - 1) % 2 = 0 THEN (n - 1) \div 2 ELSE 0) = n \div 2
      BY <2>2
    <3> QED BY <1>4, <3>1
  <2>4. Absorb(sum, records[n]) = [stages |-> Append(UpToStage((n - 2) \div 2), n \div 2), open |-> 0,
                                   terminal |-> "none", faults |-> {}]
    <3> DEFINE r == records[n]
    <3> HIDE DEF r
    <3>1. Absorb(sum, r) = [stages |-> Append(UpToStage((n - 2) \div 2), r.stage), open |-> 0,
                            terminal |-> "none", faults |-> {}]
      BY <2>1, <2>3, Absorbed DEF r
    <3> QED BY <2>1, <3>1 DEF r
  <2>5. Append(UpToStage((n - 2) \div 2), n \div 2) = UpToStage((n - 1) \div 2)
    BY <2>2, OneMore
  <2>6. SumOf(records, n) = [stages |-> UpToStage((n - 1) \div 2), open |-> 0,
                           terminal |-> "none", faults |-> {}]
    <3>1. (IF n % 2 = 0 THEN n \div 2 ELSE 0) = 0 /\ ~Terminal(records[n])
      BY <1>6, <2>1 DEF Terminal
    <3> QED BY <3>1 DEF SumOf
  <2> QED BY <2>4, <2>5, <2>6 DEF sum
<1>7. CASE n % 2 = 0 /\ Terminal(records[n])
  <2>1. (n - 1) % 2 = 1 /\ (n - 2) \div 2 = (n \div 2) - 1
    BY <1>7
  <2>2. sum = [stages |-> UpToStage((n - 2) \div 2), open |-> 0,
               terminal |-> "none", faults |-> {}]
    <3>1. (IF (n - 1) % 2 = 0 THEN (n - 1) \div 2 ELSE 0) = 0
      BY <2>1
    <3> QED BY <1>4, <3>1
  <2>3. Absorb(sum, records[n]) =
          [stages |-> UpToStage((n - 2) \div 2), open |-> 0, terminal |-> records[n].kind,
           faults |-> IF records[n].kind = "stop" THEN {"stopped"} ELSE {}]
    BY <1>4, <1>7, <2>1, <2>2, Absorbed
  <2> QED BY <1>7, <2>1, <2>3 DEF SumOf, sum
<1>8. n % 2 = 0 \/ n % 2 = 1
  OBVIOUS
<1> QED BY <1>1, <1>5, <1>6, <1>7, <1>8 DEF InOrder, sum

\* The parent's fold over what it has collected ends in that summary.
LEMMA Summarized ==
  ASSUME NEW records \in Seq(Records), InOrder(records), records # <<>>
  PROVE  SummarizeStages(records) = SumOf(records, Len(records))
<1> DEFINE N == Len(records)
           Follows(f) == f = [n \in 1..N |-> IF n = 1 THEN NoRecords
                                              ELSE Absorb(f[n - 1], records[n])]
           after == CHOOSE f : Follows(f)
           sums == [n \in 1..N |-> SumOf(records, n)]
<1>1. N \in Nat \ {0} /\ records[1] = Planned(1)
  BY DEF InOrder
<1>2. SumOf(records, 1) = NoRecords
  <2>1. UpToStage(0) = <<>>
    BY DEF UpToStage
  <2>2. (1 - 1) \div 2 = 0 /\ (IF 1 % 2 = 0 THEN 1 \div 2 ELSE 0) = 0 /\ ~Terminal(records[1])
    BY <1>1 DEF Planned, Record, Terminal
  <2> QED BY <2>1, <2>2 DEF SumOf, NoRecords
<1>3. Follows(sums)
  <2>1. \A n \in 1..N : sums[n] = IF n = 1 THEN NoRecords ELSE Absorb(sums[n - 1], records[n])
    <3> TAKE n \in 1..N
    <3>1. CASE n = 1
      BY <1>2, <3>1
    <3>2. CASE n # 1
      <4>1. n \in 2..N /\ n - 1 \in 1..N
        BY <3>2
      <4> QED BY <3>2, <4>1, SumGrows
    <3> QED BY <3>1, <3>2
  <2> QED BY <2>1
<1>4. Follows(after)
  <2> HIDE DEF Follows, sums
  <2> QED BY <1>3
<1>5. \A k \in 0..(N - 1) : k \in {j \in 0..(N - 1) : after[j + 1] = sums[j + 1]}
  <2> DEFINE T == {j \in 0..(N - 1) : after[j + 1] = sums[j + 1]}
  <2>1. \A n \in 1..N : after[n] = IF n = 1 THEN NoRecords ELSE Absorb(after[n - 1], records[n])
    <3> HIDE DEF after
    <3> QED BY <1>4
  <2>2. 0 \in T
    <3> HIDE DEF after
    <3> QED BY <1>1, <1>2, <2>1
  <2>3. ASSUME NEW k \in 0..((N - 1) - 1), k \in T PROVE k + 1 \in T
    <3> HIDE DEF after
    <3>1. k + 2 \in 1..N /\ k + 2 # 1 /\ (k + 2) - 1 = k + 1 /\ k + 1 \in 1..N
      BY <1>1
    <3>2. after[k + 2] = Absorb(after[k + 1], records[k + 2])
      BY <2>1, <3>1
    <3>3. sums[k + 2] = Absorb(sums[k + 1], records[k + 2])
      <4>1. k + 2 \in 2..N
        BY <3>1
      <4> QED BY <3>1, <4>1, SumGrows
    <3> QED BY <2>3, <3>1, <3>2, <3>3
  <2>4. N - 1 \in Nat
    BY <1>1
  <2> HIDE DEF T
  <2>5. \A k \in 0..(N - 1) : k \in T
    BY <2>2, <2>3, <2>4, UpTo
  <2> QED BY <2>5 DEF T
<1>6. after[N] = SumOf(records, N)
  <2> HIDE DEF after
  <2>1. N - 1 \in 0..(N - 1) /\ (N - 1) + 1 = N /\ N \in 1..N
    BY <1>1
  <2> QED BY <1>5, <2>1
<1>7. SummarizeStages(records) = after[N]
  BY <1>1 DEF SummarizeStages, Planned, Record
<1> QED BY <1>6, <1>7

-----------------------------------------------------------------------------
(* The invariant of an isolated run.                                       *)

Living == {"none", "starting", "boundary", "running", "stuck"}

Children == [step : Living \cup {"exited"}, stage : 0..Stages,
             code : {"none", "zero", "failed", "spawn", "parent_gone", "lifetime"},
             gone : BOOLEAN, strays : 0..1]

\* The fields of a result.
Result(o) == o = [settled |-> TRUE, incomplete |-> o.incomplete, stages |-> o.stages,
                  open |-> o.open, late |-> o.late, faults |-> o.faults]

\* Nothing arrives that was not written, and only a dead child has a torn line.
IsolatedTypes ==
  /\ child \in Children /\ lines \in Seq(Records) /\ torn \in BOOLEAN /\ heirs \in BOOLEAN
  /\ arrived \in Nat /\ arrived <= Units
  /\ lineLimit \in LineLimits /\ budget \in {"none", "startup", "stages"}
  /\ torn => child.step = "exited" /\ lines # <<>>

\* How far the lines go: no further than the stages do, to the last of them only
\* for a final record, and up to where the child is until the parent gives up.
Written ==
  /\ InOrder(lines)
  /\ Len(lines) <= 2 * child.stage + 2
  /\ \A i \in 1..Len(lines) :
       /\ ~Terminal(lines[i]) => i <= 2 * child.stage + 1
       /\ Terminal(lines[i]) => child.step = "exited"
       /\ lines[i].kind = "final" => i = 2 * Stages + 2
  /\ child.step \in {"none", "starting"} => child.stage = 0
  /\ ~Settled =>
       /\ child.step \in {"none", "starting"} => lines = <<>>
       /\ child.step = "boundary" => Len(lines) = 2 * child.stage + 1
       /\ child.step \in {"running", "stuck"} => Len(lines) = 2 * child.stage /\ child.stage # 0

\* A child knows that the parent has gone from the first stage it begins then.
KnowsOfIt ==
  /\ child.gone => Settled
  /\ ~child.gone => child.strays = 0
  /\ child.step = "none" => budget = "none" /\ ~Settled
  /\ budget # "none" => ~Settled

Whole ==
  outcome.faults = {} <=>
    /\ child.code = "zero" /\ ~torn /\ Units <= lineLimit
    /\ lines # <<>> /\ Last(lines).kind = "final"
    /\ outcome.stages = UpToStage(Stages)

Answered ==
  /\ outcome = Waiting \/ Result(outcome)
  /\ Settled =>
       /\ outcome.incomplete \in BOOLEAN
       /\ \E m \in 0..child.stage : outcome.stages = UpToStage(m) /\ outcome.open \in {0, m + 1}
       /\ outcome.late = "exited" \/ ~outcome.incomplete => child.step = "exited"
       /\ ~outcome.incomplete => Whole

IsolatedInv == IsolatedTypes /\ Written /\ KnowsOfIt /\ Answered

LEMMA InitIsolatedInv == IsolatedInit => IsolatedInv
<1> SUFFICES ASSUME IsolatedInit PROVE IsolatedInv
  OBVIOUS
<1>1. IsolatedTypes
  <2>1. child \in Children
    BY IsolatedAssumption DEF IsolatedInit, Children, Living
  <2>2. lines = <<>> /\ ~torn /\ arrived = 0
    BY DEF IsolatedInit
  <2>3. Units = 0
    BY <2>2 DEF Units
  <2>4. lines \in Seq(Records)
    BY <2>2
  <2>5. heirs \in BOOLEAN /\ torn \in BOOLEAN
    BY DEF IsolatedInit
  <2>6. lineLimit \in LineLimits /\ budget = "none"
    BY DEF IsolatedInit
  <2> QED BY <2>1, <2>2, <2>3, <2>4, <2>5, <2>6 DEF IsolatedTypes
<1>2. Written
  BY DEF IsolatedInit, Written, InOrder
<1>3. KnowsOfIt
  BY DEF IsolatedInit, KnowsOfIt, Settled, Waiting
<1>4. Answered
  BY DEF IsolatedInit, Answered, Settled, Waiting
<1> QED BY <1>1, <1>2, <1>3, <1>4 DEF IsolatedInv

-----------------------------------------------------------------------------
(* What the parent resolves with.                                          *)

LEMMA CollectedInOrder ==
  ASSUME IsolatedInv
  PROVE  LET n == CompleteLines(Kept(arrived)) IN
         /\ n \in 0..Len(lines)
         /\ SummarizeStages(Collected) =
              IF n = 0 THEN [NoRecords EXCEPT !.faults = {"missing_hello"}] ELSE SumOf(lines, n)
<1> DEFINE n == CompleteLines(Kept(arrived))
<1>1. lines \in Seq(Records) /\ arrived \in Nat /\ arrived <= 2 * Len(lines) /\ lineLimit \in Nat
  BY IsolatedAssumption DEF IsolatedInv, IsolatedTypes, Units
<1>2. n \in 0..Len(lines)
  <2>1. Kept(arrived) \in Nat /\ Kept(arrived) <= 2 * Len(lines)
    BY <1>1 DEF Kept
  <2> QED BY <1>1, <2>1 DEF CompleteLines
<1> HIDE DEF n
<1>3. /\ Collected \in Seq(Records) /\ Len(Collected) = n
      /\ \A i \in 1..n : Collected[i] = lines[i]
  BY <1>1, <1>2 DEF Collected, n
<1>4. CASE n = 0
  <2>1. Collected = <<>>
    BY <1>3, <1>4
  <2> QED BY <1>2, <1>4, <2>1 DEF SummarizeStages, n
<1>5. CASE n # 0
  <2>1. Collected # <<>> /\ n \in 1..n
    BY <1>2, <1>3, <1>5
  <2>2. InOrder(Collected)
    BY <1>2, <1>3, <1>1 DEF InOrder, IsolatedInv, Written
  <2>3. SummarizeStages(Collected) = SumOf(Collected, n)
    BY <1>3, <2>1, <2>2, Summarized
  <2>4. SumOf(Collected, n) = SumOf(lines, n)
    BY <1>3, <2>1 DEF SumOf
  <2> QED BY <1>2, <1>5, <2>3, <2>4 DEF n
<1> QED BY <1>4, <1>5

\* Whatever has arrived, the stages reported as ended have ended.
LEMMA OutcomeInOrder ==
  ASSUME IsolatedInv, NEW incomplete \in BOOLEAN
  PROVE  LET o == Outcome(incomplete) IN
         /\ Result(o) /\ o.incomplete = incomplete /\ o.late = "none"
         /\ \E m \in 0..child.stage : o.stages = UpToStage(m) /\ o.open \in {0, m + 1}
<1> DEFINE n == CompleteLines(Kept(arrived))
           sum == SummarizeStages(Collected)
<1>1. /\ n \in 0..Len(lines)
      /\ sum = IF n = 0 THEN [NoRecords EXCEPT !.faults = {"missing_hello"}] ELSE SumOf(lines, n)
  BY CollectedInOrder
<1>2. lines \in Seq(Records) /\ child.stage \in Nat
  BY IsolatedAssumption DEF IsolatedInv, IsolatedTypes, Children
<1> HIDE DEF n
<1>3. \E m \in 0..child.stage : sum.stages = UpToStage(m) /\ sum.open \in {0, m + 1}
  <2> HIDE DEF sum
  <2>1. CASE n = 0
    <3>1. UpToStage(0) = <<>> /\ 0 \in 0..child.stage
      BY <1>2 DEF UpToStage
    <3>2. sum.stages = <<>> /\ sum.open = 0
      BY <1>1, <2>1 DEF NoRecords
    <3> QED BY <3>1, <3>2
  <2>2. CASE n # 0 /\ Terminal(lines[n])
    <3>1. n \in 1..Len(lines) /\ lines[n] # Planned(n)
      BY <1>1, <1>2, <2>2 DEF Planned, Record, Terminal
    <3>2. n = Len(lines) /\ n % 2 = 0 /\ n <= 2 * child.stage + 2
      BY <3>1 DEF IsolatedInv, Written, InOrder
    <3>3. (n \div 2) - 1 \in 0..child.stage
      BY <1>2, <3>1, <3>2
    <3>4. /\ sum.stages = UpToStage((n \div 2) - 1) /\ sum.open = 0
      BY <1>1, <2>2 DEF SumOf
    <3> QED BY <3>3, <3>4
  <2>3. CASE n # 0 /\ ~Terminal(lines[n])
    <3>1. n \in 1..Len(lines) /\ n <= 2 * child.stage + 1
      BY <1>1, <1>2, <2>3 DEF IsolatedInv, Written
    <3>2. (n - 1) \div 2 \in 0..child.stage
      BY <1>2, <3>1
    <3>3. /\ sum.stages = UpToStage((n - 1) \div 2) /\ sum.faults = {}
          /\ sum.open = IF n % 2 = 0 THEN n \div 2 ELSE 0
      BY <1>1, <2>3 DEF SumOf
    <3>4. sum.open \in {0, ((n - 1) \div 2) + 1}
      <4>1. n % 2 = 0 => n \div 2 = ((n - 1) \div 2) + 1
        BY <3>1, <1>2
      <4> QED BY <3>3, <4>1
    <3> QED BY <3>2, <3>3, <3>4
  <2> QED BY <2>1, <2>2, <2>3
<1> HIDE DEF sum
<1>4. PICK m \in 0..child.stage : sum.stages = UpToStage(m) /\ sum.open \in {0, m + 1}
  BY <1>3
<1> DEFINE o == Outcome(incomplete)
<1>5. o = [settled |-> TRUE, incomplete |-> incomplete, stages |-> sum.stages,
           open |-> sum.open, late |-> "none", faults |-> o.faults]
  BY DEF Outcome, sum
<1> HIDE DEF o
<1>6. Result(o) /\ o.incomplete = incomplete /\ o.late = "none"
  BY <1>5 DEF Result
<1> QED BY <1>4, <1>5, <1>6 DEF o

\* A collected result has no fault exactly when the child's record is whole.
LEMMA DoneIsWhole ==
  ASSUME IsolatedInv, Drained, outcome' = Outcome(FALSE), UNCHANGED <<child, lines, torn, lineLimit>>
  PROVE  Whole'
<1> DEFINE n == CompleteLines(Kept(arrived))
           sum == SummarizeStages(Collected)
<1>1. /\ n \in 0..Len(lines)
      /\ sum = IF n = 0 THEN [NoRecords EXCEPT !.faults = {"missing_hello"}] ELSE SumOf(lines, n)
  BY CollectedInOrder
<1>2. /\ lines \in Seq(Records) /\ lineLimit \in Nat /\ Stages \in Nat
      /\ torn \in BOOLEAN /\ (torn => Len(lines) # 0)
  BY IsolatedAssumption DEF IsolatedInv, IsolatedTypes
<1>3. arrived = Units /\ arrived = 2 * Len(lines) - (IF torn THEN 1 ELSE 0)
  BY DEF Drained, Units
<1> HIDE DEF n, sum
<1>4. /\ outcome'.stages = sum.stages
      /\ outcome'.faults = {} <=>
           /\ sum.faults = {} /\ CollectorFaults(arrived) = {}
           /\ child.code = "zero" /\ sum.terminal = "final" /\ sum.open = 0
  BY DEF Outcome, sum
<1>5. CollectorFaults(arrived) = {} <=> ~torn /\ Units <= lineLimit
  <2>1. CollectorFaults(arrived) = {} <=> ~(arrived > lineLimit) /\ Kept(arrived) % 2 # 1
    BY DEF CollectorFaults
  <2>2. CASE arrived > lineLimit
    BY <1>2, <1>3, <2>1, <2>2
  <2>3. CASE ~(arrived > lineLimit)
    <3>1. Kept(arrived) = arrived
      BY <2>3 DEF Kept
    <3>2. arrived % 2 = 1 <=> torn
      BY <1>2, <1>3
    <3> QED BY <1>2, <1>3, <2>1, <2>3, <3>1, <3>2
  <2> QED BY <2>2, <2>3
<1>6. ASSUME ~torn, Units <= lineLimit PROVE n = Len(lines)
  <2>1. Len(lines) \in Nat /\ arrived = 2 * Len(lines)
    BY <1>2, <1>3, <1>6
  <2>2. Kept(arrived) = arrived
    BY <1>2, <1>3, <1>6, <2>1 DEF Kept
  <2> QED BY <2>1, <2>2 DEF n, CompleteLines
<1>7. n # 0 /\ lines[n].kind = "final" =>
        /\ sum.faults = {} /\ sum.terminal = "final" /\ sum.open = 0
        /\ sum.stages = UpToStage(Stages)
  <2> SUFFICES ASSUME n # 0, lines[n].kind = "final"
               PROVE  /\ sum.faults = {} /\ sum.terminal = "final" /\ sum.open = 0
                      /\ sum.stages = UpToStage(Stages)
    OBVIOUS
  <2>1. n \in 1..Len(lines) /\ n = 2 * Stages + 2
    BY <1>1, <1>2 DEF IsolatedInv, Written
  <2>2. (n \div 2) - 1 = Stages
    BY <1>2, <2>1
  <2> QED BY <1>1, <2>2 DEF SumOf, Terminal
<1>8. sum.terminal = "final" => n # 0 /\ lines[n].kind = "final"
  BY <1>1 DEF SumOf, NoRecords
<1>9. (lines # <<>> /\ n = Len(lines)) => Last(lines) = lines[n] /\ n # 0
  BY <1>2 DEF Last
<1>10. n # 0 => lines # <<>>
  BY <1>1, <1>2
<1>11. outcome'.faults = {} <=>
         /\ child.code = "zero" /\ ~torn /\ Units <= lineLimit
         /\ lines # <<>> /\ Last(lines).kind = "final"
         /\ outcome'.stages = UpToStage(Stages)
  BY <1>4, <1>5, <1>6, <1>7, <1>8, <1>9, <1>10
<1>12. Units' = Units
  BY DEF Units
<1> QED BY <1>11, <1>12 DEF Whole

-----------------------------------------------------------------------------
(* The steps.                                                              *)

\* A result that is there stays true of a child that goes on.
LEMMA ReportStays ==
  ASSUME IsolatedInv, UNCHANGED outcome,
         Settled => /\ UNCHANGED <<lines, lineLimit>> /\ child'.stage \in Nat
                    /\ child'.stage >= child.stage
                    /\ child.step = "exited" => UNCHANGED <<child, torn>>
  PROVE  Answered'
<1>1. CASE ~Settled
  BY <1>1 DEF IsolatedInv, Answered, Settled
<1>2. CASE Settled
  <2>1. child.stage \in Nat
    BY IsolatedAssumption DEF IsolatedInv, IsolatedTypes, Children
  <2>2. \A m \in 0..child.stage : m \in 0..child'.stage
    BY <1>2, <2>1
  <2>3. Whole /\ child.step = "exited" => Whole'
    BY <1>2 DEF Whole, Units
  <2> QED BY <1>2, <2>2, <2>3 DEF IsolatedInv, Answered, Settled
<1> QED BY <1>1, <1>2

\* A record more, in its place.
LEMMA WriteInOrder ==
  ASSUME IsolatedInv, NEW r \in Records, Write(r), UNCHANGED <<arrived, budget, outcome, lineLimit>>,
         ~torn, heirs' \in BOOLEAN, child' \in Children, child'.stage >= child.stage,
         ~Settled => \/ r = Planned(Len(lines) + 1)
                     \/ Terminal(r) /\ (Len(lines) + 1) % 2 = 0,
         \A i \in 1..Len(lines) : ~Terminal(lines[i])
  PROVE  /\ IsolatedTypes' /\ InOrder(lines)'
         /\ ~Settled => /\ Len(lines') = Len(lines) + 1
                        /\ \A i \in 1..Len(lines) : lines'[i] = lines[i]
                        /\ lines'[Len(lines) + 1] = r
         /\ Settled => lines' = lines
<1>1. lines \in Seq(Records) /\ torn' = torn /\ arrived \in Nat
      /\ (lines' = lines \/ (~Settled /\ lines' = Append(lines, r)))
      /\ (~Settled => lines' = Append(lines, r))
  BY DEF IsolatedInv, IsolatedTypes, Write, KnowsOfIt
<1>2. /\ ~Settled => /\ Len(lines') = Len(lines) + 1
                     /\ \A i \in 1..Len(lines) : lines'[i] = lines[i]
                     /\ lines'[Len(lines) + 1] = r
      /\ Settled => lines' = lines
      /\ lines' \in Seq(Records) /\ Len(lines') >= Len(lines)
  BY <1>1
<1>3. IsolatedTypes'
  BY <1>1, <1>2 DEF IsolatedInv, IsolatedTypes, Units
<1>4. InOrder(lines)'
  BY <1>1, <1>2 DEF IsolatedInv, Written, InOrder
<1> QED BY <1>2, <1>3, <1>4

\* While the child lives, its lines are complete and end in no terminal record.
LEMMA LivingLines ==
  ASSUME IsolatedInv, child.step # "exited"
  PROVE  /\ ~torn /\ lines \in Seq(Records) /\ child \in Children /\ child.stage \in 0..Stages
         /\ Stages \in Nat /\ child.stage \in Nat /\ Len(lines) \in Nat
         /\ \A i \in 1..Len(lines) : ~Terminal(lines[i])
BY IsolatedAssumption DEF IsolatedInv, IsolatedTypes, Written, Children

LEMMA Parity ==
  ASSUME NEW k \in Nat
  PROVE  /\ (2 * k + 1) % 2 = 1 /\ (2 * k + 1) \div 2 = k
         /\ (2 * k + 2) % 2 = 0 /\ (2 * k + 2) \div 2 = k + 1
OBVIOUS

LEMMA HelloIsolatedInv ==
  ASSUME IsolatedInv, Hello, UNCHANGED lineLimit PROVE IsolatedInv'
<1>1. /\ child.step = "starting" /\ Write(Record("hello", 0))
      /\ UNCHANGED <<heirs, arrived, budget, outcome>>
      /\ child' = [child EXCEPT !.step = "boundary", !.gone = Learns]
  BY DEF Hello
<1>2. /\ ~torn /\ lines \in Seq(Records) /\ child \in Children /\ child.stage \in 0..Stages
      /\ Stages \in Nat /\ child.stage \in Nat /\ Len(lines) \in Nat
      /\ \A i \in 1..Len(lines) : ~Terminal(lines[i])
  BY <1>1, LivingLines
<1>3. /\ child' \in Children /\ child'.step = "boundary" /\ child'.stage = child.stage
      /\ child'.gone = Learns /\ child'.strays = child.strays
  <2>1. Learns \in BOOLEAN
    BY DEF Learns
  <2> QED BY <1>1, <1>2, <2>1 DEF Children, Living
<1>4. child.stage = 0 /\ (~Settled => lines = <<>>)
  BY <1>1 DEF IsolatedInv, Written
<1>0. heirs' \in BOOLEAN
  BY <1>1 DEF IsolatedInv, IsolatedTypes
<1> DEFINE r == Record("hello", 0)
<1>5. r \in Records /\ r = Planned(1) /\ ~Terminal(r) /\ r.kind # "final"
  BY <1>2 DEF Records, Record, Planned, Terminal
<1> HIDE DEF r
<1>6. /\ IsolatedTypes' /\ InOrder(lines)'
      /\ ~Settled => /\ Len(lines') = Len(lines) + 1
                     /\ \A i \in 1..Len(lines) : lines'[i] = lines[i]
                     /\ lines'[Len(lines) + 1] = r
      /\ Settled => lines' = lines
  BY <1>0, <1>1, <1>2, <1>3, <1>4, <1>5, WriteInOrder DEF r
<1>7. Written'
  <2>1. Len(lines) = 0 \/ Settled
    BY <1>4
  <2>2. Settled' = Settled
    BY <1>1 DEF Settled
  <2>3. CASE Settled
    BY <1>2, <1>3, <1>6, <2>2, <2>3 DEF IsolatedInv, Written
  <2>4. CASE ~Settled
    <3>1. Len(lines') = 1 /\ lines'[1] = r
      BY <1>4, <1>6, <2>4
    <3>2. \A i \in 1..Len(lines') : i = 1
      BY <3>1
    <3>3. child'.stage = 0 /\ child'.step = "boundary"
      BY <1>3, <1>4
    <3> QED BY <1>5, <1>6, <2>2, <2>4, <3>1, <3>2, <3>3 DEF Written
  <2> QED BY <2>3, <2>4
<1>8. KnowsOfIt'
  BY <1>1, <1>3 DEF IsolatedInv, KnowsOfIt, Learns, Settled
<1>9. Answered'
  <2> Settled => /\ UNCHANGED <<lines, lineLimit>> /\ child'.stage \in Nat
                 /\ child'.stage >= child.stage
    BY <1>2, <1>3, <1>6
  <2> QED BY <1>1, ReportStays
<1> QED BY <1>6, <1>7, <1>8, <1>9 DEF IsolatedInv

LEMMA SeesEofIsolatedInv ==
  ASSUME IsolatedInv, SeesEof, UNCHANGED lineLimit PROVE IsolatedInv'
<1>1. /\ child.step = "boundary" /\ Settled /\ child' = [child EXCEPT !.gone = TRUE]
      /\ UNCHANGED <<lines, torn, heirs, arrived, budget, outcome, lineLimit>>
  BY DEF SeesEof
<1>2. child \in Children /\ child.stage \in Nat
  BY <1>1, LivingLines
<1>3. /\ child' \in Children /\ child'.step = child.step /\ child'.stage = child.stage
      /\ child'.gone /\ child'.strays = child.strays
  BY <1>1, <1>2 DEF Children
<1>4. IsolatedTypes' /\ Written'
  BY <1>1, <1>3 DEF IsolatedInv, IsolatedTypes, Written, Units, InOrder, Settled
<1>5. KnowsOfIt'
  BY <1>1, <1>3 DEF IsolatedInv, KnowsOfIt, Settled
<1>6. Answered'
  BY <1>1, <1>2, <1>3, ReportStays
<1> QED BY <1>4, <1>5, <1>6 DEF IsolatedInv

\* The last record, of a child that stops at a boundary or has run every stage.
LEMMA EndsIsolatedInv ==
  ASSUME IsolatedInv, child.step = "boundary", UNCHANGED <<heirs, arrived, budget, outcome, lineLimit>>,
         NEW code \in {"zero", "parent_gone", "lifetime"}, child' = Exits(code),
         NEW kind \in {"stop", "final"}, Write(Record(kind, 0)),
         kind = "final" => child.stage = Stages
  PROVE  IsolatedInv'
<1>1. /\ ~torn /\ lines \in Seq(Records) /\ child \in Children /\ child.stage \in 0..Stages
      /\ Stages \in Nat /\ child.stage \in Nat /\ Len(lines) \in Nat
      /\ \A i \in 1..Len(lines) : ~Terminal(lines[i])
  BY LivingLines
<1>2. /\ child' \in Children /\ child'.step = "exited" /\ child'.stage = child.stage
      /\ child'.gone = child.gone /\ child'.strays = child.strays
  BY <1>1 DEF Exits, Children, Living
<1>0. heirs' \in BOOLEAN
  BY <1>1 DEF IsolatedInv, IsolatedTypes
<1> DEFINE r == Record(kind, 0)
<1>3. r \in Records /\ Terminal(r) /\ r.kind = kind
  BY <1>1 DEF Records, Record, Terminal
<1> HIDE DEF r
<1>4. ~Settled => Len(lines) = 2 * child.stage + 1
  BY DEF IsolatedInv, Written
<1>5. ~Settled => (Len(lines) + 1) % 2 = 0
  <2>1. ~Settled => Len(lines) + 1 = 2 * child.stage + 2
    BY <1>1, <1>4
  <2> QED BY <1>1, <2>1, Parity
<1>6. /\ IsolatedTypes' /\ InOrder(lines)'
      /\ ~Settled => /\ Len(lines') = Len(lines) + 1
                     /\ \A i \in 1..Len(lines) : lines'[i] = lines[i]
                     /\ lines'[Len(lines) + 1] = r
      /\ Settled => lines' = lines
  BY <1>0, <1>1, <1>2, <1>3, <1>5, WriteInOrder DEF r
<1>7. Written'
  <2>1. Settled' = Settled
    BY DEF Settled
  <2>2. CASE Settled
    BY <1>1, <1>2, <1>6, <2>1, <2>2 DEF IsolatedInv, Written
  <2>3. CASE ~Settled
    <3>1. \A i \in 1..Len(lines') : i \in 1..Len(lines) \/ i = Len(lines) + 1
      BY <1>1, <1>6, <2>3
    <3>2. \A i \in 1..Len(lines') :
            /\ ~Terminal(lines'[i]) => i <= 2 * child'.stage + 1
            /\ lines'[i].kind = "final" => i = 2 * Stages + 2
      <4>1. \A i \in 1..Len(lines) : lines'[i].kind # "final" /\ i <= 2 * child'.stage + 1
        BY <1>1, <1>2, <1>4, <1>6, <2>3 DEF Terminal
      <4>2. Terminal(lines'[Len(lines) + 1]) /\ lines'[Len(lines) + 1].kind = kind
        BY <1>3, <1>6, <2>3
      <4>3. kind = "final" => Len(lines) + 1 = 2 * Stages + 2
        BY <1>1, <1>4, <2>3
      <4> QED BY <3>1, <4>1, <4>2, <4>3
    <3>3. Len(lines') <= 2 * child'.stage + 2
      BY <1>1, <1>2, <1>4, <1>6, <2>3
    <3> QED BY <1>2, <1>6, <2>1, <2>3, <3>2, <3>3 DEF Written
  <2> QED BY <2>2, <2>3
<1>8. KnowsOfIt'
  BY <1>2 DEF IsolatedInv, KnowsOfIt, Settled
<1>9. Answered'
  <2> Settled => /\ UNCHANGED <<lines, lineLimit>> /\ child'.stage \in Nat
                 /\ child'.stage >= child.stage
    BY <1>1, <1>2, <1>6
  <2> QED BY ReportStays
<1> QED BY <1>6, <1>7, <1>8, <1>9 DEF IsolatedInv

LEMMA BeginStageIsolatedInv ==
  ASSUME IsolatedInv, BeginStage, UNCHANGED lineLimit PROVE IsolatedInv'
<1>1. /\ child.step = "boundary" /\ ~child.gone /\ child.stage < Stages
      /\ Write(Record("begin", child.stage + 1))
      /\ UNCHANGED <<heirs, arrived, budget, outcome>>
      /\ child' = [child EXCEPT !.step = "running", !.stage = @ + 1,
                                !.gone = Learns, !.strays = @ + Strays]
  BY DEF BeginStage
<1>2. /\ ~torn /\ lines \in Seq(Records) /\ child \in Children /\ child.stage \in 0..Stages
      /\ Stages \in Nat /\ child.stage \in Nat /\ Len(lines) \in Nat
      /\ \A i \in 1..Len(lines) : ~Terminal(lines[i])
  BY <1>1, LivingLines
<1>3. /\ child' \in Children /\ child'.step = "running" /\ child'.stage = child.stage + 1
      /\ child'.gone = Learns /\ child'.strays = Strays
  <2>1. Learns \in BOOLEAN /\ Strays \in 0..1 /\ child.strays = 0
        /\ child.strays + Strays = Strays /\ child.stage + 1 \in 0..Stages
    BY <1>1, <1>2 DEF Learns, Strays, IsolatedInv, KnowsOfIt
  <2> QED BY <1>1, <1>2, <2>1 DEF Children, Living
<1>4. ~Settled => Len(lines) = 2 * child.stage + 1
  BY <1>1 DEF IsolatedInv, Written
<1>0. heirs' \in BOOLEAN
  BY <1>1 DEF IsolatedInv, IsolatedTypes
<1> DEFINE r == Record("begin", child.stage + 1)
<1>5. /\ r \in Records /\ ~Terminal(r) /\ r.kind # "final"
      /\ ~Settled => r = Planned(Len(lines) + 1)
  <2>1. ~Settled => Len(lines) + 1 = 2 * child.stage + 2 /\ Len(lines) + 1 # 1
    <3> SUFFICES ASSUME ~Settled PROVE Len(lines) + 1 = 2 * child.stage + 2 /\ Len(lines) + 1 # 1
      OBVIOUS
    <3>1. Len(lines) = 2 * child.stage + 1 /\ child.stage \in Nat
      BY <1>2, <1>4
    <3> QED BY <3>1
  <2>2. ~Settled => /\ (Len(lines) + 1) % 2 = 0 /\ (Len(lines) + 1) \div 2 = child.stage + 1
                   /\ Len(lines) + 1 # 1
    BY <1>2, <2>1, Parity
  <2> QED BY <1>1, <1>2, <2>2 DEF Records, Record, Planned, Terminal
<1> HIDE DEF r
<1>6. /\ IsolatedTypes' /\ InOrder(lines)'
      /\ ~Settled => /\ Len(lines') = Len(lines) + 1
                     /\ \A i \in 1..Len(lines) : lines'[i] = lines[i]
                     /\ lines'[Len(lines) + 1] = r
      /\ Settled => lines' = lines
  BY <1>0, <1>1, <1>2, <1>3, <1>4, <1>5, WriteInOrder DEF r
<1>7. Written'
  <2>1. Settled' = Settled
    BY <1>1 DEF Settled
  <2>2. CASE Settled
    BY <1>1, <1>2, <1>3, <1>6, <2>1, <2>2 DEF IsolatedInv, Written
  <2>3. CASE ~Settled
    <3>1. \A i \in 1..Len(lines') : i \in 1..Len(lines) \/ i = Len(lines) + 1
      BY <1>2, <1>6, <2>3
    <3>2. \A i \in 1..Len(lines') : ~Terminal(lines'[i]) /\ lines'[i].kind # "final"
      BY <1>2, <1>5, <1>6, <2>3, <3>1 DEF Terminal
    <3>3. /\ Len(lines') = 2 * child'.stage /\ child'.stage # 0
          /\ Len(lines') <= 2 * child'.stage + 1 /\ Len(lines') <= 2 * child'.stage + 2
      BY <1>2, <1>3, <1>4, <1>6, <2>3
    <3>4. \A i \in 1..Len(lines') : i <= 2 * child'.stage + 1
      BY <1>2, <1>3, <3>3
    <3> QED BY <1>3, <1>6, <2>1, <2>3, <3>2, <3>3, <3>4 DEF Written
  <2> QED BY <2>2, <2>3
<1>8. KnowsOfIt'
  BY <1>1, <1>3 DEF IsolatedInv, KnowsOfIt, Learns, Settled, Strays
<1>9. Answered'
  <2> Settled => /\ UNCHANGED <<lines, lineLimit>> /\ child'.stage \in Nat
                 /\ child'.stage >= child.stage
    BY <1>2, <1>3, <1>6
  <2> QED BY <1>1, ReportStays
<1> QED BY <1>6, <1>7, <1>8, <1>9 DEF IsolatedInv

LEMMA EndStageIsolatedInv ==
  ASSUME IsolatedInv, EndStage, UNCHANGED lineLimit PROVE IsolatedInv'
<1>1. /\ child.step = "running" /\ Write(Record("end", child.stage))
      /\ heirs' \in {heirs, TRUE} /\ UNCHANGED <<arrived, budget, outcome>>
      /\ child' = [child EXCEPT !.step = "boundary", !.gone = Learns]
  BY DEF EndStage
<1>2. /\ ~torn /\ lines \in Seq(Records) /\ child \in Children /\ child.stage \in 0..Stages
      /\ Stages \in Nat /\ child.stage \in Nat /\ Len(lines) \in Nat
      /\ \A i \in 1..Len(lines) : ~Terminal(lines[i])
  BY <1>1, LivingLines
<1>3. /\ child' \in Children /\ child'.step = "boundary" /\ child'.stage = child.stage
      /\ child'.gone = Learns /\ child'.strays = child.strays
  <2>1. Learns \in BOOLEAN
    BY DEF Learns
  <2> QED BY <1>1, <1>2, <2>1 DEF Children, Living
<1>4. ~Settled => Len(lines) = 2 * child.stage /\ child.stage # 0
  BY <1>1 DEF IsolatedInv, Written
<1>0. heirs' \in BOOLEAN
  BY <1>1 DEF IsolatedInv, IsolatedTypes
<1> DEFINE r == Record("end", child.stage)
<1>5. /\ r \in Records /\ ~Terminal(r) /\ r.kind # "final"
      /\ ~Settled => r = Planned(Len(lines) + 1)
  <2>1. ~Settled => /\ (Len(lines) + 1) % 2 = 1 /\ (Len(lines) + 1) \div 2 = child.stage
                   /\ Len(lines) + 1 # 1
    <3>1. ~Settled => Len(lines) + 1 = 2 * child.stage + 1 /\ Len(lines) + 1 # 1
      BY <1>2, <1>4
    <3> QED BY <1>2, <3>1, Parity
  <2> QED BY <1>1, <1>2, <2>1 DEF Records, Record, Planned, Terminal
<1> HIDE DEF r
<1>6. /\ IsolatedTypes' /\ InOrder(lines)'
      /\ ~Settled => /\ Len(lines') = Len(lines) + 1
                     /\ \A i \in 1..Len(lines) : lines'[i] = lines[i]
                     /\ lines'[Len(lines) + 1] = r
      /\ Settled => lines' = lines
  BY <1>0, <1>1, <1>2, <1>3, <1>4, <1>5, WriteInOrder DEF r
<1>7. Written'
  <2>1. Settled' = Settled
    BY <1>1 DEF Settled
  <2>2. CASE Settled
    BY <1>1, <1>2, <1>3, <1>6, <2>1, <2>2 DEF IsolatedInv, Written
  <2>3. CASE ~Settled
    <3>1. \A i \in 1..Len(lines') : i \in 1..Len(lines) \/ i = Len(lines) + 1
      BY <1>2, <1>6, <2>3
    <3>2. \A i \in 1..Len(lines') : ~Terminal(lines'[i]) /\ lines'[i].kind # "final"
      BY <1>2, <1>5, <1>6, <2>3, <3>1 DEF Terminal
    <3>3. Len(lines') = 2 * child'.stage + 1 /\ Len(lines') <= 2 * child'.stage + 2
      BY <1>2, <1>3, <1>4, <1>6, <2>3
    <3>4. \A i \in 1..Len(lines') : i <= 2 * child'.stage + 1
      BY <1>2, <1>3, <3>3
    <3> QED BY <1>3, <1>6, <2>1, <2>3, <3>2, <3>3, <3>4 DEF Written
  <2> QED BY <2>2, <2>3
<1>8. KnowsOfIt'
  BY <1>1, <1>3 DEF IsolatedInv, KnowsOfIt, Learns, Settled
<1>9. Answered'
  <2> Settled => /\ UNCHANGED <<lines, lineLimit>> /\ child'.stage \in Nat
                 /\ child'.stage >= child.stage
    BY <1>2, <1>3, <1>6
  <2> QED BY <1>1, ReportStays
<1> QED BY <1>6, <1>7, <1>8, <1>9 DEF IsolatedInv

LEMMA StallIsolatedInv ==
  ASSUME IsolatedInv, Stall, UNCHANGED lineLimit PROVE IsolatedInv'
<1>1. /\ child.step = "running" /\ child' = [child EXCEPT !.step = "stuck"]
      /\ UNCHANGED <<lines, torn, heirs, arrived, budget, outcome, lineLimit>>
  BY DEF Stall
<1>2. child \in Children /\ child.stage \in Nat /\ ~torn
  BY <1>1, LivingLines
<1>3. /\ child' \in Children /\ child'.step = "stuck" /\ child'.stage = child.stage
      /\ child'.gone = child.gone /\ child'.strays = child.strays
  BY <1>1, <1>2 DEF Children, Living
<1>4. IsolatedTypes'
  BY <1>1, <1>2, <1>3 DEF IsolatedInv, IsolatedTypes, Units
<1>5. Written'
  BY <1>1, <1>3 DEF IsolatedInv, Written, InOrder, Settled
<1>6. KnowsOfIt'
  BY <1>1, <1>3 DEF IsolatedInv, KnowsOfIt, Settled
<1>7. Answered'
  BY <1>1, <1>2, <1>3, ReportStays
<1> QED BY <1>4, <1>5, <1>6, <1>7 DEF IsolatedInv

LEMMA CrashIsolatedInv ==
  ASSUME IsolatedInv, Crash, UNCHANGED lineLimit PROVE IsolatedInv'
<1>1. PICK code \in {"failed", "zero"} : child' = Exits(code)
  BY DEF Crash
<1>2. /\ child.step \in {"starting", "boundary", "running", "stuck"}
      /\ torn' \in {FALSE, lines # <<>> /\ ~Settled /\ arrived < Units}
      /\ UNCHANGED <<lines, heirs, arrived, budget, outcome, lineLimit>>
  BY DEF Crash
<1>3. /\ child \in Children /\ child.stage \in Nat /\ ~torn
      /\ lines \in Seq(Records) /\ Len(lines) \in Nat
  BY <1>2, LivingLines
<1>4. /\ child' \in Children /\ child'.step = "exited" /\ child'.stage = child.stage
      /\ child'.gone = child.gone /\ child'.strays = child.strays
  BY <1>1, <1>3 DEF Exits, Children, Living
<1>5. torn' \in BOOLEAN /\ (torn' => lines # <<>> /\ arrived < Units)
  BY <1>2
<1>6. arrived <= Units'
  BY <1>2, <1>3, <1>5 DEF Units, IsolatedInv, IsolatedTypes
<1>7. IsolatedTypes'
  BY <1>2, <1>4, <1>5, <1>6 DEF IsolatedInv, IsolatedTypes
<1>8. Written'
  BY <1>2, <1>4 DEF IsolatedInv, Written, InOrder, Settled
<1>9. KnowsOfIt'
  BY <1>2, <1>4 DEF IsolatedInv, KnowsOfIt, Settled
<1>10. Answered'
  BY <1>2, <1>3, <1>4, ReportStays
<1> QED BY <1>7, <1>8, <1>9, <1>10 DEF IsolatedInv

LEMMA HeirEndsIsolatedInv ==
  ASSUME IsolatedInv, HeirEnds, UNCHANGED lineLimit PROVE IsolatedInv'
<1>1. heirs' \in BOOLEAN /\ UNCHANGED <<child, lines, torn, arrived, budget, outcome, lineLimit>>
  BY DEF HeirEnds
<1>2. child.stage \in Nat
  BY IsolatedAssumption DEF IsolatedInv, IsolatedTypes, Children
<1>3. Answered'
  BY <1>1, <1>2, ReportStays
<1> QED BY <1>1, <1>3 DEF IsolatedInv, IsolatedTypes, Written, KnowsOfIt, Units, InOrder, Settled

LEMMA SpawnChildIsolatedInv ==
  ASSUME IsolatedInv, SpawnChild, UNCHANGED lineLimit PROVE IsolatedInv'
<1>1. PICK starts \in BOOLEAN :
        child' = [child EXCEPT !.step = IF starts THEN "starting" ELSE "exited",
                               !.code = IF starts THEN "none" ELSE "spawn"]
  BY DEF SpawnChild
<1>2. /\ child.step = "none" /\ budget' = "startup"
      /\ UNCHANGED <<lines, torn, heirs, arrived, outcome, lineLimit>>
  BY DEF SpawnChild
<1>3. child \in Children /\ child.stage \in Nat /\ ~torn
  BY <1>2, LivingLines
<1>4. /\ child' \in Children /\ child'.step \in {"starting", "exited"} /\ child'.stage = child.stage
      /\ child'.gone = child.gone /\ child'.strays = child.strays
  BY <1>1, <1>3 DEF Children, Living
<1>5. IsolatedTypes'
  BY <1>2, <1>3, <1>4 DEF IsolatedInv, IsolatedTypes, Units
<1>6. Written'
  <2>1. lines = <<>>
    BY <1>2 DEF IsolatedInv, KnowsOfIt, Written
  <2> QED BY <1>2, <1>4, <2>1 DEF IsolatedInv, Written, InOrder, Settled
<1>7. KnowsOfIt'
  BY <1>2, <1>4 DEF IsolatedInv, KnowsOfIt, Settled
<1>8. Answered'
  BY <1>2, <1>3, <1>4, ReportStays
<1> QED BY <1>5, <1>6, <1>7, <1>8 DEF IsolatedInv

LEMMA ChunkIsolatedInv ==
  ASSUME IsolatedInv, Chunk, UNCHANGED lineLimit PROVE IsolatedInv'
<1>1. /\ budget # "none" /\ arrived < Units
      /\ \E n \in 1..(Units - arrived) : arrived' = arrived + n
      /\ budget' \in {"stages", budget}
      /\ UNCHANGED <<child, lines, torn, heirs, outcome, lineLimit>>
  BY DEF Chunk
<1>2. lines \in Seq(Records) /\ arrived \in Nat /\ child.stage \in Nat
  BY IsolatedAssumption DEF IsolatedInv, IsolatedTypes, Children
<1>3. arrived' \in Nat /\ arrived' <= Units
  <2>1. Units \in Int
    BY <1>2 DEF Units
  <2> QED BY <1>1, <1>2, <2>1
<1>4. IsolatedTypes'
  BY <1>1, <1>3 DEF IsolatedInv, IsolatedTypes, Units
<1>5. Written'
  BY <1>1 DEF IsolatedInv, Written, InOrder, Settled
<1>6. KnowsOfIt'
  BY <1>1 DEF IsolatedInv, KnowsOfIt, Settled
<1>7. Answered'
  BY <1>1, <1>2, ReportStays
<1> QED BY <1>4, <1>5, <1>6, <1>7 DEF IsolatedInv

\* The parent resolves once, with what it has collected.
LEMMA ResolvesIsolatedInv ==
  ASSUME IsolatedInv, budget # "none", NEW incomplete \in BOOLEAN, ~incomplete => Drained,
         outcome' = Outcome(incomplete), budget' = "none",
         UNCHANGED <<child, lines, torn, heirs, arrived, lineLimit>>
  PROVE  IsolatedInv'
<1> DEFINE o == Outcome(incomplete)
<1>1. /\ Result(o) /\ o.incomplete = incomplete /\ o.late = "none"
      /\ \E m \in 0..child.stage : o.stages = UpToStage(m) /\ o.open \in {0, m + 1}
  BY OutcomeInOrder
<1> HIDE DEF o
<1>2. outcome' = o /\ o.settled
  <2>1. outcome' = o
    BY DEF o
  <2> QED BY <1>1, <2>1 DEF Result
<1>3. ~incomplete => Whole' /\ child.step = "exited"
  BY DoneIsWhole DEF Drained
<1>4. Answered'
  BY <1>1, <1>2, <1>3 DEF Answered, Settled
<1>5. IsolatedTypes'
  BY DEF IsolatedInv, IsolatedTypes, Units
<1>6. ~Settled
  BY DEF IsolatedInv, KnowsOfIt
<1>7. Written'
  BY <1>2, <1>6 DEF IsolatedInv, Written, InOrder, Settled
<1>8. KnowsOfIt'
  BY <1>2, <1>6 DEF IsolatedInv, KnowsOfIt, Settled
<1> QED BY <1>4, <1>5, <1>7, <1>8 DEF IsolatedInv

LEMMA LateExitIsolatedInv ==
  ASSUME IsolatedInv, LateExit, UNCHANGED lineLimit PROVE IsolatedInv'
<1> DEFINE late == IF child.step = "exited" THEN "exited" ELSE "unconfirmed"
<1>1. /\ Settled /\ outcome.incomplete /\ outcome' = [outcome EXCEPT !.late = late]
      /\ UNCHANGED <<child, lines, torn, heirs, arrived, budget, lineLimit>>
  BY DEF LateExit
<1>2. Result(outcome)
  BY <1>1 DEF IsolatedInv, Answered, Settled, Waiting
<1>late. late = "exited" => child.step = "exited"
  OBVIOUS
<1> HIDE DEF late
<1>3. /\ Result(outcome') /\ outcome'.settled /\ outcome'.late = late
      /\ outcome'.incomplete = outcome.incomplete /\ outcome'.stages = outcome.stages
      /\ outcome'.open = outcome.open
  <2>1. \E inc, st, op, la, fa :
          outcome = [settled |-> TRUE, incomplete |-> inc, stages |-> st, open |-> op,
                     late |-> la, faults |-> fa]
    BY <1>2, Zenon DEF Result
  <2>2. PICK inc, st, op, la, fa :
          outcome = [settled |-> TRUE, incomplete |-> inc, stages |-> st, open |-> op,
                     late |-> la, faults |-> fa]
    BY <2>1
  <2>3. outcome' = [settled |-> TRUE, incomplete |-> inc, stages |-> st, open |-> op,
                    late |-> late, faults |-> fa]
    BY <1>1, <2>2
  <2> QED BY <2>2, <2>3 DEF Result
<1>4. Answered'
  BY <1>1, <1>3, <1>late DEF IsolatedInv, Answered, Settled
<1>5. IsolatedTypes' /\ Written' /\ KnowsOfIt'
  BY <1>1, <1>3 DEF IsolatedInv, IsolatedTypes, Written, KnowsOfIt, Units, InOrder, Settled
<1> QED BY <1>4, <1>5 DEF IsolatedInv

\* A step of the isolated observer, as Tooling composes them.
IsolatedNext ==
  ChildStep \/ ParentStep \/ ((Stall \/ Crash \/ HeirEnds) /\ UNCHANGED lineLimit)

LEMMA NextIsolatedInv == IsolatedInv /\ [IsolatedNext]_isolatedVars => IsolatedInv'
<1> SUFFICES ASSUME IsolatedInv, [IsolatedNext]_isolatedVars PROVE IsolatedInv'
  OBVIOUS
<1>1. CASE UNCHANGED isolatedVars
  <2>1. child.stage \in Nat
    BY IsolatedAssumption DEF IsolatedInv, IsolatedTypes, Children
  <2>2. Answered'
    BY <1>1, <2>1, ReportStays DEF isolatedVars
  <2> QED BY <1>1, <2>2 DEF isolatedVars, IsolatedInv, IsolatedTypes, Written, KnowsOfIt, Units,
                InOrder, Settled
<1>2. ASSUME Stop, UNCHANGED lineLimit PROVE IsolatedInv'
  BY <1>2, EndsIsolatedInv DEF Stop
<1>3. ASSUME FinishStages, UNCHANGED lineLimit PROVE IsolatedInv'
  BY <1>3, EndsIsolatedInv DEF FinishStages
<1>4. CASE ChildStep
  BY <1>2, <1>3, <1>4, HelloIsolatedInv, SeesEofIsolatedInv, BeginStageIsolatedInv,
     EndStageIsolatedInv DEF ChildStep
<1>5. ASSUME ChildDone, UNCHANGED lineLimit PROVE IsolatedInv'
  BY <1>5, ResolvesIsolatedInv DEF ChildDone
<1>6. ASSUME BudgetSpent, UNCHANGED lineLimit PROVE IsolatedInv'
  BY <1>6, ResolvesIsolatedInv DEF BudgetSpent, Bounded
<1>7. CASE ParentStep
  BY <1>5, <1>6, <1>7, SpawnChildIsolatedInv, ChunkIsolatedInv, LateExitIsolatedInv DEF ParentStep
<1> QED BY <1>1, <1>4, <1>7, StallIsolatedInv, CrashIsolatedInv, HeirEndsIsolatedInv
        DEF IsolatedNext

LEMMA IsolatedIsSound == IsolatedInv => ObservationIsWhole /\ IsolatedTypeOK
<1> SUFFICES ASSUME IsolatedInv PROVE ObservationIsWhole /\ IsolatedTypeOK
  OBVIOUS
<1>1. Stages \in Nat /\ child \in Children /\ child.stage \in 0..Stages /\ lines \in Seq(Records)
  BY IsolatedAssumption DEF IsolatedInv, IsolatedTypes, Children
<1>2. (Settled /\ ~outcome.incomplete) =>
        (outcome.faults = {} <=>
           /\ child.code = "zero" /\ ~torn /\ Units <= lineLimit
           /\ lines # <<>> /\ Last(lines).kind = "final"
           /\ outcome.stages = [i \in 1..Stages |-> i])
  BY DEF IsolatedInv, Answered, Whole, UpToStage
<1>3. ASSUME Settled
      PROVE  /\ outcome.stages = [i \in 1..Len(outcome.stages) |-> i]
             /\ Len(outcome.stages) <= child.stage
             /\ outcome.open \in {0, Len(outcome.stages) + 1}
             /\ outcome.late = "exited" => child.step = "exited"
  <2>1. PICK m \in 0..child.stage : outcome.stages = UpToStage(m) /\ outcome.open \in {0, m + 1}
    BY <1>3 DEF IsolatedInv, Answered
  <2>2. Len(UpToStage(m)) = m
    BY <1>1, <2>1 DEF UpToStage
  <2> QED BY <1>1, <1>3, <2>1, <2>2 DEF IsolatedInv, Answered, UpToStage
<1>4. child.strays <= 1
  BY <1>1 DEF Children
<1>5. arrived \in 0..(2 * (2 * Stages + 2))
  <2>1. Len(lines) <= 2 * Stages + 2 /\ arrived \in Nat /\ arrived <= 2 * Len(lines)
    BY <1>1 DEF IsolatedInv, IsolatedTypes, Written, Units
  <2> QED BY <1>1, <2>1
<1>6. IsolatedTypeOK
  BY <1>1, <1>5 DEF IsolatedTypeOK, IsolatedInv, IsolatedTypes, Answered, Children, Living
<1> QED BY <1>2, <1>3, <1>4, <1>6 DEF ObservationIsWhole

-----------------------------------------------------------------------------
(* The evaluation of the observation evidence.                             *)

\* The only home that the gate lets preflight create.
Disposed == <<"c:", "temp", Disposable, "home">>

Modes == {"preflight", "observe"}
Homes == {NoHome, Disposed}
Environments == {<<"d:", "codex">>, <<"c:">>}
Hosts ==
  [files : {1, 2}, binary : {1, 2}, home : Homes, homeId : Nat, env : Environments, private : BOOLEAN, target : Nat, live : BOOLEAN,
   codex : Shells, threads : 0..2, thread : Nat, guard : Nat, held : BOOLEAN,
   drifted : BOOLEAN]
Sessions == [shell : Shells, reference : Range(Levels), declared : Range(Levels)]
StepNames ==
  {"harness", "token.self", "binary.sha256", "host.facts", "home.isolated", "binary.version",
   "manifest", "home.identity", "run", "process.identity", "process.identity_after",
   "process.sample", "lockdir.identity", "coordination.identity", "thread.count",
   "thread.identity", "openers.rm", "share.read_rwd", "share.delete_rwd", "range.probe",
   "thread.identity_after"}
Steppings == [step : StepNames, sample : Nat]
Evidences ==
  [step : StepNames, sample : Nat, usable : BOOLEAN, level : Range(Levels), shell : Shells,
   reference : Range(Levels), declared : Range(Levels), before : Hosts \cup {None}, saw : Hosts]
Files == [log : Seq(Evidences), whole : BOOLEAN]

EvidenceTypes ==
  /\ producer \in {"contract", "dormant"}
  /\ host \in Hosts
  /\ at \in Nat
  /\ session = Closed \/ session \in Sessions
  /\ logs \in [Range(Levels) -> [preflight : Files, observe : Files]]
  /\ probed = None \/ probed \in Hosts
  /\ faults \in 0..Faults

\* What a file is to contain, and how much of the campaign comes before it.
Contents(mode) == IF mode = "preflight" THEN Single(PreflightSteps) ELSE ObserveOrder(producer)
Ahead(l, mode) ==
  IF l = "medium" THEN (IF mode = "preflight" THEN 0 ELSE 7)
  ELSE Len(ObserveOrder(producer)) + (IF mode = "preflight" THEN 7 ELSE 14)
Log(l, mode) == logs[l][mode].log

\* The entries of a file, in the campaign.
Stretch(l, mode) == (Ahead(l, mode) + 1)..(Ahead(l, mode) + Len(Contents(mode)))

\* A file is a beginning of its plan, all that the campaign has come to until
\* it breaks off.
FileHolds(l, mode) ==
  /\ Len(Log(l, mode)) <= Len(Contents(mode))
  /\ \A i \in 1..Len(Log(l, mode)) :
       /\ Log(l, mode)[i].level = l
       /\ Log(l, mode)[i].step = Contents(mode)[i].step
       /\ Log(l, mode)[i].sample = Contents(mode)[i].sample
  /\ at <= Ahead(l, mode) => Log(l, mode) = <<>>
  /\ at \in Stretch(l, mode) =>
       /\ Len(Log(l, mode)) = at - Ahead(l, mode) - 1
       /\ session = Closed => at = Ahead(l, mode) + 1

Progress ==
  /\ at \in 1..(Len(Campaign) + 1)
  /\ \A l \in Range(Levels), mode \in Modes : FileHolds(l, mode)

\* Identities are numbers that only grow.
NoLater(a, b) == a.thread <= b.thread /\ a.guard <= b.guard

RecordHolds(l, mode, i) ==
  LET r == Log(l, mode)[i] IN
  /\ r.usable => ~Deferred(r.step)
  /\ r.saw.home = Disposed /\ (r.saw.held => r.saw.live)
  /\ mode = "observe" => r.saw.codex = r.shell
  /\ NoLater(r.saw, host)
  /\ probed = None \/ NoLater(r.saw, probed)
  /\ r.step = "range.probe" => r.before \in Hosts /\ NoLater(r.before, r.saw)
  /\ \A j \in 1..(i - 1) :
       /\ NoLater(Log(l, mode)[j].saw, r.saw)
       /\ r.step = "range.probe" => NoLater(Log(l, mode)[j].saw, r.before)

RecordsHold ==
  \A l \in Range(Levels), mode \in Modes :
    \A i \in 1..Len(Log(l, mode)) : RecordHolds(l, mode, i)

HostHolds ==
  /\ (at = 1 /\ session = Closed) \/ host.home = Disposed
  /\ host.held => host.live
  /\ probed = None \/ NoLater(probed, host)
  /\ session = Closed \/ Over \/ Entry.mode = "preflight" \/ host.codex = session.shell

Basis == EvidenceTypes /\ Progress /\ RecordsHold /\ HostHolds

-----------------------------------------------------------------------------
(* The campaign.                                                           *)

LEMMA LevelsAre == Range(Levels) = {"medium", "high"}
<1>1. DOMAIN Levels = 1..2 /\ Levels[1] = "medium" /\ Levels[2] = "high"
  BY DEF Levels
<1> QED BY <1>1 DEF Range

LEMMA StepsAre ==
  /\ PreflightSteps \in Seq(StepNames) /\ Len(PreflightSteps) = 7
  /\ SampleSteps \in Seq(StepNames) /\ Len(SampleSteps) = 10
  /\ Sampled = {"process.sample", "lockdir.identity", "coordination.identity",
       "thread.count", "thread.identity", "openers.rm", "share.read_rwd",
       "share.delete_rwd", "range.probe", "thread.identity_after"}
<1>1. /\ PreflightSteps \in Seq(StepNames) /\ Len(PreflightSteps) = 7
      /\ SampleSteps \in Seq(StepNames) /\ Len(SampleSteps) = 10
  <2>1. PreflightSteps \in Seq(StepNames)
    BY DEF PreflightSteps, StepNames
  <2>2. Len(PreflightSteps) = 7
    BY DEF PreflightSteps
  <2>3. SampleSteps \in Seq(StepNames)
    BY DEF SampleSteps, StepNames
  <2>4. Len(SampleSteps) = 10
    BY DEF SampleSteps
  <2> QED BY <2>1, <2>2, <2>3, <2>4
<1>2. DOMAIN SampleSteps = 1..10
  BY <1>1
<1>3. \A x : x \in Sampled <=> \E i \in 1..10 : x = SampleSteps[i]
  BY <1>2 DEF Sampled, Range
<1>4. \A i \in 1..10 : i = 1 \/ i = 2 \/ i = 3 \/ i = 4 \/ i = 5 \/ i = 6 \/ i = 7 \/ i = 8 \/ i = 9 \/ i = 10
  OBVIOUS
<1>5. /\ SampleSteps[1] = "process.sample" /\ SampleSteps[2] = "lockdir.identity"
      /\ SampleSteps[3] = "coordination.identity" /\ SampleSteps[4] = "thread.count"
      /\ SampleSteps[5] = "thread.identity" /\ SampleSteps[6] = "openers.rm"
      /\ SampleSteps[7] = "share.read_rwd" /\ SampleSteps[8] = "share.delete_rwd"
      /\ SampleSteps[9] = "range.probe" /\ SampleSteps[10] = "thread.identity_after"
  BY DEF SampleSteps
<1>6. \A x : x \in Sampled <=>
        x \in {"process.sample", "lockdir.identity", "coordination.identity",
       "thread.count", "thread.identity", "openers.rm", "share.read_rwd",
       "share.delete_rwd", "range.probe", "thread.identity_after"}
  BY <1>3, <1>4, <1>5
<1> QED BY <1>1, <1>6

LEMMA SequenceIs ==
  /\ SampleSequence \in Seq(Steppings) /\ Len(SampleSequence) = 10 * Samples
  /\ \A i \in 1..(10 * Samples) : SampleSequence[i].step \in Sampled
<1> DEFINE n == 10 * Samples
           step(i) == SampleSteps[((i - 1) % Len(SampleSteps)) + 1]
           sample(i) == ((i - 1) \div Len(SampleSteps)) + 1
<1>1. Samples \in Nat /\ n \in Nat
  BY ObserverAssumption
<1>2. SampleSequence = [i \in 1..n |-> [step |-> step(i), sample |-> sample(i)]]
  BY <1>1, StepsAre DEF SampleSequence
<1>3. ASSUME NEW i \in 1..n PROVE step(i) \in StepNames /\ step(i) \in Sampled /\ sample(i) \in Nat
  <2>1. (i - 1) % 10 \in 0..9 /\ (i - 1) \div 10 \in Nat
    BY <1>1
  <2>2. ((i - 1) % Len(SampleSteps)) + 1 \in 1..10
    BY <2>1, StepsAre
  <2>3. step(i) \in Sampled
    BY <2>2, StepsAre DEF Sampled, Range
  <2>4. step(i) \in StepNames
    <3>1. Sampled \subseteq StepNames
      BY StepsAre DEF StepNames
    <3> QED BY <2>3, <3>1
  <2>5. sample(i) \in Nat
    BY <2>1, StepsAre
  <2> QED BY <2>3, <2>4, <2>5
<1> HIDE DEF n, step, sample
<1>4. SampleSequence \in [1..n -> Steppings]
  BY <1>2, <1>3 DEF Steppings
<1>5. SampleSequence \in Seq(Steppings) /\ Len(SampleSequence) = n
  BY <1>1, <1>2, <1>4
<1>6. \A i \in 1..n : SampleSequence[i].step \in Sampled
  BY <1>2, <1>3
<1> QED BY <1>5, <1>6 DEF n

\* The samples, in either order.
LEMMA SampleOrderIs ==
  ASSUME NEW p \in {"contract", "dormant"}
  PROVE  /\ SampleOrder(p) \in Seq(Steppings) /\ Len(SampleOrder(p)) = 10 * Samples
         /\ \A i \in 1..(10 * Samples) : SampleOrder(p)[i].step \in Sampled
<1>1. CASE p = "contract"
  BY <1>1, SequenceIs DEF SampleOrder
<1>2. CASE p = "dormant"
  <2> DEFINE n == 10 * Samples
             from(i) == IF i % 10 = 0 THEN i - 9 ELSE i + 1
  <2>1. Samples \in Nat /\ n \in Nat
    BY ObserverAssumption
  <2>2. SampleOrder(p) = [i \in DOMAIN SampleSequence |->
             IF i % 10 = 0 THEN SampleSequence[i - 10 + 1] ELSE SampleSequence[i + 1]]
    BY <1>2, StepsAre DEF SampleOrder
  <2>3. DOMAIN SampleSequence = 1..n
    BY <2>1, SequenceIs
  <2>4. ASSUME NEW i \in 1..n PROVE from(i) \in 1..n
    <3>1. CASE i % 10 = 0
      <4>1. i >= 10
        BY <3>1
      <4> QED BY <3>1, <4>1, <2>1
    <3>2. CASE i % 10 # 0
      <4>1. i # 10 * Samples
        BY <3>2, <2>1
      <4> QED BY <3>2, <4>1, <2>1
    <3> QED BY <3>1, <3>2
  <2>5. \A i \in 1..n : SampleOrder(p)[i] = SampleSequence[from(i)]
    BY <2>2, <2>3
  <2>6. \A i \in 1..n : SampleSequence[i] \in Steppings /\ SampleSequence[i].step \in Sampled
    BY <2>1, SequenceIs
  <2>7. \A i \in 1..n : SampleOrder(p)[i] \in Steppings /\ SampleOrder(p)[i].step \in Sampled
    <3> HIDE DEF from, n
    <3> QED BY <2>4, <2>5, <2>6
  <2>8. DOMAIN SampleOrder(p) = 1..n /\ SampleOrder(p) = [i \in 1..n |-> SampleOrder(p)[i]]
    BY <2>2, <2>3
  <2> HIDE DEF n, from
  <2>9. SampleOrder(p) \in Seq(Steppings) /\ Len(SampleOrder(p)) = n
    <3>1. SampleOrder(p) \in [1..n -> Steppings]
      BY <2>7, <2>8
    <3> QED BY <2>1, <3>1
  <2> QED BY <2>7, <2>9 DEF n
<1> QED BY <1>1, <1>2

LEMMA SingleIs ==
  ASSUME NEW s \in Seq(StepNames)
  PROVE  /\ Single(s) \in Seq(Steppings) /\ Len(Single(s)) = Len(s)
         /\ \A i \in 1..Len(s) : Single(s)[i].step = s[i] /\ Single(s)[i].sample = 0
<1> DEFINE n == Len(s)
<1>1. n \in Nat /\ DOMAIN s = 1..n /\ \A i \in 1..n : s[i] \in StepNames
  OBVIOUS
<1>2. Single(s) = [i \in 1..n |-> [step |-> s[i], sample |-> 0]]
  BY <1>1 DEF Single
<1> HIDE DEF n
<1>3. Single(s) \in [1..n -> Steppings]
  BY <1>1, <1>2 DEF Steppings
<1>4. Single(s) \in Seq(Steppings) /\ Len(Single(s)) = n
  BY <1>1, <1>2, <1>3
<1> QED BY <1>1, <1>2, <1>4 DEF n

\* What a preflight file is to contain.
LEMMA PreflightIs ==
  /\ Contents("preflight") \in Seq(Steppings) /\ Len(Contents("preflight")) = 7
  /\ \A i \in 1..7 : /\ Contents("preflight")[i].step = PreflightSteps[i]
                     /\ Contents("preflight")[i].sample = 0
<1>1. Contents("preflight") = Single(PreflightSteps)
  BY DEF Contents
<1>2. PreflightSteps \in Seq(StepNames) /\ Len(PreflightSteps) = 7
  BY StepsAre
<1>3. /\ Single(PreflightSteps) \in Seq(Steppings) /\ Len(Single(PreflightSteps)) = Len(PreflightSteps)
      /\ \A i \in 1..Len(PreflightSteps) :
           Single(PreflightSteps)[i].step = PreflightSteps[i] /\ Single(PreflightSteps)[i].sample = 0
  BY <1>2, SingleIs
<1> QED BY <1>1, <1>2, <1>3

\* What an observe file is to contain.
LEMMA ObserveIs ==
  ASSUME producer \in {"contract", "dormant"}
  PROVE  /\ Contents("observe") \in Seq(Steppings)
         /\ Len(Contents("observe")) = 10 * Samples + 6
         /\ \A i \in 1..5 :
              /\ Contents("observe")[i].step =
                   <<"harness", "token.self", "home.identity", "run", "process.identity">>[i]
              /\ Contents("observe")[i].sample = 0
         /\ \A i \in 6..(10 * Samples + 5) :
              /\ Contents("observe")[i].step \in Sampled
              /\ Contents("observe")[i] = SampleOrder(producer)[i - 5]
         /\ Contents("observe")[10 * Samples + 6].step = "process.identity_after"
         /\ Contents("observe")[10 * Samples + 6].sample = 0
<1> DEFINE first == <<"harness", "token.self", "home.identity", "run", "process.identity">>
           last == <<"process.identity_after">>
           a == Single(first)
           b == SampleOrder(producer)
           c == Single(last)
           n == 10 * Samples
           o == (a \o b) \o c
<1>1. first \in Seq(StepNames) /\ Len(first) = 5 /\ last \in Seq(StepNames) /\ Len(last) = 1
      /\ last[1] = "process.identity_after"
  BY DEF StepNames
<1>2. n \in Nat
  BY ObserverAssumption
<1>3. Contents("observe") = o
  BY DEF Contents, ObserveOrder
<1>4. /\ a \in Seq(Steppings) /\ Len(a) = 5
      /\ \A i \in 1..5 : a[i].step = first[i] /\ a[i].sample = 0
  <2> HIDE DEF first
  <2>1. /\ Single(first) \in Seq(Steppings) /\ Len(Single(first)) = Len(first)
        /\ \A i \in 1..Len(first) : Single(first)[i].step = first[i] /\ Single(first)[i].sample = 0
    BY <1>1, SingleIs
  <2> QED BY <1>1, <2>1
<1>5. /\ c \in Seq(Steppings) /\ Len(c) = 1
      /\ c[1].step = "process.identity_after" /\ c[1].sample = 0
  <2> HIDE DEF last
  <2>1. /\ Single(last) \in Seq(Steppings) /\ Len(Single(last)) = Len(last)
        /\ \A i \in 1..Len(last) : Single(last)[i].step = last[i] /\ Single(last)[i].sample = 0
    BY <1>1, SingleIs
  <2> QED BY <1>1, <2>1
<1>6. /\ b \in Seq(Steppings) /\ Len(b) = n
      /\ \A i \in 1..n : b[i].step \in Sampled
  BY SampleOrderIs
<1> HIDE DEF a, b, c, n
<1>7. /\ a \o b \in Seq(Steppings) /\ Len(a \o b) = n + 5
      /\ \A i \in 1..(n + 5) : (a \o b)[i] = IF i <= 5 THEN a[i] ELSE b[i - 5]
  <2>1. /\ a \o b \in Seq(Steppings) /\ Len(a \o b) = Len(a) + Len(b)
        /\ \A i \in 1..Len(a) + Len(b) :
             (a \o b)[i] = IF i <= Len(a) THEN a[i] ELSE b[i - Len(a)]
    BY <1>4, <1>6, ConcatProperties
  <2> QED BY <1>2, <1>4, <1>6, <2>1
<1>8. /\ o \in Seq(Steppings) /\ Len(o) = n + 6
      /\ \A i \in 1..(n + 6) : o[i] = IF i <= n + 5 THEN (a \o b)[i] ELSE c[i - (n + 5)]
  <2> DEFINE ab == a \o b
  <2>1. ab \in Seq(Steppings) /\ Len(ab) = n + 5
    BY <1>7
  <2> HIDE DEF ab
  <2>2. /\ ab \o c \in Seq(Steppings) /\ Len(ab \o c) = n + 6
        /\ \A i \in 1..(n + 6) : (ab \o c)[i] = IF i <= n + 5 THEN ab[i] ELSE c[i - (n + 5)]
    <3>1. /\ ab \o c \in Seq(Steppings) /\ Len(ab \o c) = Len(ab) + Len(c)
          /\ \A i \in 1..Len(ab) + Len(c) :
               (ab \o c)[i] = IF i <= Len(ab) THEN ab[i] ELSE c[i - Len(ab)]
      BY <1>5, <2>1, ConcatProperties
    <3> QED BY <1>2, <1>5, <2>1, <3>1
  <2> QED BY <2>2 DEF ab
<1> HIDE DEF o
<1>9. \A i \in 1..5 : o[i].step = first[i] /\ o[i].sample = 0
  <2> HIDE DEF first
  <2> SUFFICES ASSUME NEW i \in 1..5 PROVE o[i].step = first[i] /\ o[i].sample = 0
    OBVIOUS
  <2>1. i \in 1..(n + 6) /\ i <= n + 5 /\ i \in 1..(n + 5) /\ i <= 5
    BY <1>2
  <2>2. o[i] = a[i]
    BY <1>7, <1>8, <2>1
  <2> QED BY <1>4, <2>2
<1>10. \A i \in 6..(n + 5) : o[i].step \in Sampled /\ o[i] = b[i - 5]
  <2> SUFFICES ASSUME NEW i \in 6..(n + 5) PROVE o[i].step \in Sampled /\ o[i] = b[i - 5]
    OBVIOUS
  <2>1. i \in 1..(n + 6) /\ i \in 1..(n + 5) /\ i <= n + 5 /\ ~(i <= 5) /\ i - 5 \in 1..n
    BY <1>2
  <2>2. o[i] = b[i - 5]
    BY <1>7, <1>8, <2>1
  <2> QED BY <1>6, <2>1, <2>2
<1>11. o[n + 6] = c[1]
  <2> SUFFICES ASSUME NEW i \in Nat, i = n + 6 PROVE o[i] = c[1]
    BY <1>2
  <2>1. i \in 1..(n + 6) /\ ~(i <= n + 5) /\ i - (n + 5) = 1
    BY <1>2
  <2>2. o[i] = c[i - (n + 5)]
    BY <1>8, <2>1
  <2> QED BY <2>1, <2>2
<1> QED BY <1>2, <1>3, <1>5, <1>8, <1>9, <1>10, <1>11 DEF n, b

Planned4 == [level : Range(Levels), mode : Modes, step : StepNames, sample : Nat]

LEMMA EntriesAre ==
  ASSUME NEW l \in Range(Levels), NEW mode \in Modes, NEW s \in Seq(Steppings)
  PROVE  /\ Entries(l, mode, s) \in Seq(Planned4) /\ Len(Entries(l, mode, s)) = Len(s)
         /\ \A i \in 1..Len(s) :
              /\ Entries(l, mode, s)[i].level = l /\ Entries(l, mode, s)[i].mode = mode
              /\ Entries(l, mode, s)[i].step = s[i].step
              /\ Entries(l, mode, s)[i].sample = s[i].sample
<1> DEFINE n == Len(s)
<1>1. n \in Nat /\ DOMAIN s = 1..n /\ \A i \in 1..n : s[i] \in Steppings
  OBVIOUS
<1>2. Entries(l, mode, s) = [i \in 1..n |-> [level |-> l, mode |-> mode,
                                             step |-> s[i].step, sample |-> s[i].sample]]
  BY <1>1 DEF Entries
<1> HIDE DEF n
<1>3. Entries(l, mode, s) \in [1..n -> Planned4]
  BY <1>1, <1>2 DEF Planned4, Steppings
<1>4. Entries(l, mode, s) \in Seq(Planned4) /\ Len(Entries(l, mode, s)) = n
  BY <1>1, <1>2, <1>3
<1>5. \A i \in 1..n :
              /\ Entries(l, mode, s)[i].level = l /\ Entries(l, mode, s)[i].mode = mode
              /\ Entries(l, mode, s)[i].step = s[i].step
              /\ Entries(l, mode, s)[i].sample = s[i].sample
  BY <1>2
<1> QED BY <1>1, <1>4, <1>5 DEF n

\* The campaign is the four files' contents, one after the other.
LEMMA CampaignIs ==
  ASSUME producer \in {"contract", "dormant"}
  PROVE  /\ Len(Campaign) = 2 * Len(Contents("observe")) + 14
         /\ \A l \in Range(Levels), mode \in Modes :
              \A i \in 1..Len(Contents(mode)) :
                /\ Campaign[Ahead(l, mode) + i].level = l
                /\ Campaign[Ahead(l, mode) + i].mode = mode
                /\ Campaign[Ahead(l, mode) + i].step = Contents(mode)[i].step
                /\ Campaign[Ahead(l, mode) + i].sample = Contents(mode)[i].sample
<1> DEFINE e(l, mode) == Entries(l, mode, Contents(mode))
           n == Len(Contents("observe"))
           cam == (e("medium", "preflight") \o e("medium", "observe"))
                  \o (e("high", "preflight") \o e("high", "observe"))
<1>1. Campaign = cam
  BY DEF Campaign, Campaigns, LevelEntries, Contents
<1>2. /\ Len(Contents("preflight")) = 7 /\ n \in Nat /\ "medium" \in Range(Levels)
      /\ "high" \in Range(Levels)
      /\ Contents("preflight") \in Seq(Steppings) /\ Contents("observe") \in Seq(Steppings)
  BY PreflightIs, ObserveIs, LevelsAre
<1>3. ASSUME NEW l \in Range(Levels), NEW mode \in Modes
      PROVE  /\ e(l, mode) \in Seq(Planned4) /\ Len(e(l, mode)) = Len(Contents(mode))
             /\ \A i \in 1..Len(Contents(mode)) :
                  /\ e(l, mode)[i].level = l /\ e(l, mode)[i].mode = mode
                  /\ e(l, mode)[i].step = Contents(mode)[i].step
                  /\ e(l, mode)[i].sample = Contents(mode)[i].sample
  <2>1. Contents(mode) \in Seq(Steppings)
    BY <1>2 DEF Modes
  <2> QED BY <2>1, EntriesAre
<1>4. Ahead("medium", "preflight") = 0 /\ Ahead("medium", "observe") = 7
      /\ Ahead("high", "preflight") = n + 7 /\ Ahead("high", "observe") = n + 14
  BY DEF Ahead, Contents
<1>5. ASSUME NEW l \in Range(Levels)
      PROVE  /\ e(l, "preflight") \o e(l, "observe") \in Seq(Planned4)
             /\ Len(e(l, "preflight") \o e(l, "observe")) = 7 + n
             /\ \A i \in 1..7 : (e(l, "preflight") \o e(l, "observe"))[i] = e(l, "preflight")[i]
             /\ \A i \in 1..n : (e(l, "preflight") \o e(l, "observe"))[7 + i] = e(l, "observe")[i]
  <2> DEFINE p == e(l, "preflight")
             q == e(l, "observe")
  <2>1. p \in Seq(Planned4) /\ Len(p) = 7 /\ q \in Seq(Planned4) /\ Len(q) = n
    BY <1>2, <1>3 DEF Modes
  <2> HIDE DEF p, q, n, e, cam
  <2>2. /\ p \o q \in Seq(Planned4) /\ Len(p \o q) = Len(p) + Len(q)
        /\ \A i \in 1..Len(p) + Len(q) :
             (p \o q)[i] = IF i <= Len(p) THEN p[i] ELSE q[i - Len(p)]
    BY <2>1, ConcatProperties
  <2>3. /\ p \o q \in Seq(Planned4) /\ Len(p \o q) = 7 + n
        /\ \A i \in 1..7 : (p \o q)[i] = p[i]
        /\ \A i \in 1..n : (p \o q)[7 + i] = q[i]
    BY <1>2, <2>1, <2>2
  <2> QED BY <2>3 DEF p, q
<1> DEFINE m == e("medium", "preflight") \o e("medium", "observe")
           h == e("high", "preflight") \o e("high", "observe")
<1>6. /\ m \in Seq(Planned4) /\ Len(m) = 7 + n /\ h \in Seq(Planned4) /\ Len(h) = 7 + n
      /\ \A i \in 1..7 : m[i] = e("medium", "preflight")[i] /\ h[i] = e("high", "preflight")[i]
      /\ \A i \in 1..n : m[7 + i] = e("medium", "observe")[i] /\ h[7 + i] = e("high", "observe")[i]
  BY <1>2, <1>5
<1>7. cam = m \o h
  OBVIOUS
<1> HIDE DEF m, h, e, cam, n
<1>8. /\ Len(cam) = (7 + n) + (7 + n)
      /\ \A i \in 1..(7 + n) : cam[i] = m[i]
      /\ \A i \in 1..(7 + n) : cam[(7 + n) + i] = h[i]
  <2>1. /\ m \o h \in Seq(Planned4) /\ Len(m \o h) = Len(m) + Len(h)
        /\ \A i \in 1..Len(m) + Len(h) :
             (m \o h)[i] = IF i <= Len(m) THEN m[i] ELSE h[i - Len(m)]
    BY <1>6, ConcatProperties
  <2>2. /\ Len(m \o h) = (7 + n) + (7 + n)
        /\ \A i \in 1..(7 + n) : (m \o h)[i] = m[i]
        /\ \A i \in 1..(7 + n) : (m \o h)[(7 + n) + i] = h[i]
    BY <1>2, <1>6, <2>1
  <2> QED BY <1>7, <2>2
<1>9. ASSUME NEW i \in 1..7
      PROVE  cam[0 + i] = e("medium", "preflight")[i] /\ cam[n + 7 + i] = e("high", "preflight")[i]
  <2>1. i \in 1..(7 + n) /\ 0 + i = i /\ n + 7 + i = (7 + n) + i
    BY <1>2
  <2> QED BY <1>6, <1>8, <2>1
<1>10. ASSUME NEW i \in 1..n
       PROVE  cam[7 + i] = e("medium", "observe")[i] /\ cam[n + 14 + i] = e("high", "observe")[i]
  <2>1. 7 + i \in 1..(7 + n) /\ n + 14 + i = (7 + n) + (7 + i)
    BY <1>2
  <2>2. cam[7 + i] = m[7 + i] /\ cam[(7 + n) + (7 + i)] = h[7 + i]
    BY <1>8, <2>1
  <2> QED BY <1>6, <2>1, <2>2
<1>11. ASSUME NEW l \in Range(Levels), NEW mode \in Modes, NEW i \in 1..Len(Contents(mode))
       PROVE  cam[Ahead(l, mode) + i] = e(l, mode)[i]
  <2>1. l \in {"medium", "high"} /\ mode \in {"preflight", "observe"}
    BY LevelsAre DEF Modes
  <2>2. CASE mode = "preflight"
    <3>1. i \in 1..7
      BY <1>2, <2>2
    <3> QED BY <1>4, <1>9, <2>1, <2>2, <3>1
  <2>3. CASE mode = "observe"
    <3>1. i \in 1..n
      BY <2>3 DEF n
    <3> QED BY <1>4, <1>10, <2>1, <2>3, <3>1
  <2> QED BY <2>1, <2>2, <2>3
<1>12. Len(Campaign) = 2 * n + 14
  BY <1>1, <1>2, <1>8
<1> QED BY <1>1, <1>3, <1>11, <1>12 DEF n

LEMMA Layout ==
  ASSUME producer \in {"contract", "dormant"}
  PROVE  /\ Len(Contents("preflight")) = 7
         /\ Len(Contents("observe")) \in Nat /\ Len(Contents("observe")) >= 16
         /\ Ahead("medium", "preflight") = 0 /\ Ahead("medium", "observe") = 7
         /\ Ahead("high", "preflight") = Len(Contents("observe")) + 7
         /\ Ahead("high", "observe") = Len(Contents("observe")) + 14
         /\ Len(Campaign) = 2 * Len(Contents("observe")) + 14
         /\ Len(Campaign) \in Nat
<1>1. Samples \in Nat /\ Samples >= 1
  BY ObserverAssumption
<1>2. Len(Contents("observe")) = 10 * Samples + 6
  BY ObserveIs
<1>3. Len(Contents("observe")) \in Nat /\ Len(Contents("observe")) >= 16
  BY <1>1, <1>2
<1>4. Ahead("medium", "preflight") = 0 /\ Ahead("medium", "observe") = 7
      /\ Ahead("high", "preflight") = Len(Contents("observe")) + 7
      /\ Ahead("high", "observe") = Len(Contents("observe")) + 14
  BY DEF Ahead, Contents
<1>5. Len(Campaign) = 2 * Len(Contents("observe")) + 14
  BY CampaignIs
<1>6. Len(Contents("preflight")) = 7
  BY PreflightIs
<1> QED BY <1>3, <1>4, <1>5, <1>6

\* Files come one after the other.
LEMMA Apart ==
  ASSUME producer \in {"contract", "dormant"},
         NEW l \in Range(Levels), NEW mode \in Modes
  PROVE  /\ Ahead(l, mode) \in Nat /\ Len(Contents(mode)) \in Nat /\ Len(Contents(mode)) > 0
         /\ Ahead(l, mode) + Len(Contents(mode)) <= Len(Campaign)
         /\ \A k \in Range(Levels), other \in Modes :
              \/ k = l /\ other = mode
              \/ Ahead(k, other) + Len(Contents(other)) <= Ahead(l, mode)
              \/ Ahead(l, mode) + Len(Contents(mode)) <= Ahead(k, other)
<1>1. l \in {"medium", "high"} /\ mode \in {"preflight", "observe"}
  BY LevelsAre DEF Modes
<1> DEFINE o == Len(Contents("observe"))
<1>2. o \in Nat /\ o >= 16 /\ Len(Campaign) = 2 * o + 14
  BY Layout
<1>3. ASSUME NEW k \in {"medium", "high"}, NEW other \in {"preflight", "observe"}
      PROVE  \/ k = "medium" /\ other = "preflight" /\ Ahead(k, other) = 0 /\ Len(Contents(other)) = 7
             \/ k = "medium" /\ other = "observe" /\ Ahead(k, other) = 7 /\ Len(Contents(other)) = o
             \/ k = "high" /\ other = "preflight" /\ Ahead(k, other) = o + 7 /\ Len(Contents(other)) = 7
             \/ k = "high" /\ other = "observe" /\ Ahead(k, other) = o + 14 /\ Len(Contents(other)) = o
  BY <1>3, Layout, Zenon
<1> HIDE DEF o
<1>4. Ahead(l, mode) \in Nat /\ Len(Contents(mode)) \in Nat /\ Len(Contents(mode)) > 0
      /\ Ahead(l, mode) + Len(Contents(mode)) <= Len(Campaign)
  <2> DEFINE a == Ahead(l, mode)
             x == Len(Contents(mode))
  <2>1. \/ (a = 0 /\ x = 7) \/ (a = 7 /\ x = o) \/ (a = o + 7 /\ x = 7)
        \/ (a = o + 14 /\ x = o)
    BY <1>1, <1>3, Zenon
  <2> HIDE DEF a, x
  <2>2. a \in Nat /\ x \in Nat /\ x > 0 /\ a + x <= Len(Campaign)
    BY <1>2, <2>1
  <2> QED BY <2>2 DEF a, x
<1>5. ASSUME NEW k \in {"medium", "high"}, NEW other \in {"preflight", "observe"}
      PROVE \/ k = l /\ other = mode
            \/ Ahead(k, other) + Len(Contents(other)) <= Ahead(l, mode)
            \/ Ahead(l, mode) + Len(Contents(mode)) <= Ahead(k, other)
  <2> DEFINE a == Ahead(l, mode)
             b == Ahead(k, other)
             x == Len(Contents(mode))
             y == Len(Contents(other))
  <2>1. \/ l = "medium" /\ mode = "preflight" /\ a = 0 /\ x = 7
        \/ l = "medium" /\ mode = "observe" /\ a = 7 /\ x = o
        \/ l = "high" /\ mode = "preflight" /\ a = o + 7 /\ x = 7
        \/ l = "high" /\ mode = "observe" /\ a = o + 14 /\ x = o
    BY <1>1, <1>3, Zenon
  <2>2. \/ k = "medium" /\ other = "preflight" /\ b = 0 /\ y = 7
        \/ k = "medium" /\ other = "observe" /\ b = 7 /\ y = o
        \/ k = "high" /\ other = "preflight" /\ b = o + 7 /\ y = 7
        \/ k = "high" /\ other = "observe" /\ b = o + 14 /\ y = o
    BY <1>3, Zenon
  <2> HIDE DEF a, b, x, y
  <2>3. (k = l /\ other = mode) \/ b + y <= a \/ a + x <= b
    BY <1>2, <2>1, <2>2
  <2> QED BY <2>3 DEF a, b, x, y
<1> QED BY <1>4, <1>5, LevelsAre DEF Modes

\* Which file an entry is of.
LEMMA EntryIs ==
  ASSUME producer \in {"contract", "dormant"}, at \in 1..Len(Campaign)
  PROVE  \E l \in Range(Levels), mode \in Modes :
           /\ at \in Stretch(l, mode)
           /\ Entry.level = l /\ Entry.mode = mode
           /\ Entry.step = Contents(mode)[at - Ahead(l, mode)].step
           /\ Entry.sample = Contents(mode)[at - Ahead(l, mode)].sample
<1>1. ASSUME NEW l \in Range(Levels), NEW mode \in Modes, at \in Stretch(l, mode)
      PROVE  /\ Entry.level = l /\ Entry.mode = mode
             /\ Entry.step = Contents(mode)[at - Ahead(l, mode)].step
             /\ Entry.sample = Contents(mode)[at - Ahead(l, mode)].sample
  <2>1. Ahead(l, mode) \in Nat /\ Len(Contents(mode)) \in Nat
    BY Apart
  <2>2. at - Ahead(l, mode) \in 1..Len(Contents(mode)) /\ at = Ahead(l, mode) + (at - Ahead(l, mode))
    BY <1>1, <2>1 DEF Stretch
  <2> DEFINE i == at - Ahead(l, mode)
  <2>3. i \in 1..Len(Contents(mode)) /\ at = Ahead(l, mode) + i
    BY <2>2
  <2> HIDE DEF i
  <2>4. /\ Campaign[Ahead(l, mode) + i].level = l
        /\ Campaign[Ahead(l, mode) + i].mode = mode
        /\ Campaign[Ahead(l, mode) + i].step = Contents(mode)[i].step
        /\ Campaign[Ahead(l, mode) + i].sample = Contents(mode)[i].sample
    BY <2>3, CampaignIs
  <2>5. Entry.level = l /\ Entry.mode = mode /\ Entry.step = Contents(mode)[i].step
        /\ Entry.sample = Contents(mode)[i].sample
    BY <2>3, <2>4 DEF Entry
  <2> QED BY <2>5 DEF i
<1>2. \/ at \in Stretch("medium", "preflight") \/ at \in Stretch("medium", "observe")
      \/ at \in Stretch("high", "preflight") \/ at \in Stretch("high", "observe")
  BY Layout DEF Stretch
<1> QED BY <1>1, <1>2, LevelsAre DEF Modes

\* A file that breaks off is followed by the next.
LEMMA CutTo ==
  ASSUME producer \in {"contract", "dormant"},
         NEW l \in Range(Levels), NEW mode \in Modes, at \in Stretch(l, mode)
  PROVE  (CHOOSE i \in (at + 1)..(Len(Campaign) + 1) :
            /\ i > Len(Campaign) \/ Campaign[i].mode # Entry.mode
            /\ \A j \in at..(i - 1) : Campaign[j].mode = Entry.mode)
           = Ahead(l, mode) + Len(Contents(mode)) + 1
<1> DEFINE end == Ahead(l, mode) + Len(Contents(mode))
           S == (at + 1)..(Len(Campaign) + 1)
           P(i) == /\ i > Len(Campaign) \/ Campaign[i].mode # Entry.mode
                   /\ \A j \in at..(i - 1) : Campaign[j].mode = Entry.mode
<1>1. Ahead(l, mode) \in Nat /\ Len(Contents(mode)) \in Nat /\ end <= Len(Campaign)
      /\ Len(Campaign) \in Nat
  BY Apart, Layout
<1>2. at > Ahead(l, mode) /\ at <= end /\ at \in Nat /\ at \in 1..Len(Campaign)
  BY <1>1 DEF Stretch
<1>3. \A j \in (Ahead(l, mode) + 1)..end : Campaign[j].mode = mode
  <2> SUFFICES ASSUME NEW j \in (Ahead(l, mode) + 1)..end PROVE Campaign[j].mode = mode
    OBVIOUS
  <2> DEFINE i == j - Ahead(l, mode)
  <2>1. i \in 1..Len(Contents(mode)) /\ j = Ahead(l, mode) + i
    BY <1>1
  <2> HIDE DEF i
  <2> QED BY <2>1, CampaignIs
<1>4. Entry.mode = mode
  <2>1. at \in (Ahead(l, mode) + 1)..end
    BY <1>1, <1>2
  <2> QED BY <1>3, <2>1 DEF Entry
<1>5. end + 1 > Len(Campaign) \/ Campaign[end + 1].mode # mode
  <2>1. \A k \in Range(Levels), other \in Modes : Campaign[Ahead(k, other) + 1].mode = other
    <3> SUFFICES ASSUME NEW k \in Range(Levels), NEW other \in Modes
                 PROVE  Campaign[Ahead(k, other) + 1].mode = other
      OBVIOUS
    <3>1. 1 \in 1..Len(Contents(other))
      BY Apart
    <3> QED BY <3>1, CampaignIs
  <2>2. \/ l = "medium" /\ mode = "preflight" /\ end = Ahead("medium", "observe")
        \/ l = "medium" /\ mode = "observe" /\ end = Ahead("high", "preflight")
        \/ l = "high" /\ mode = "preflight" /\ end = Ahead("high", "observe")
        \/ l = "high" /\ mode = "observe" /\ end = Len(Campaign)
    <3> DEFINE o == Len(Contents("observe"))
    <3>1. l \in {"medium", "high"} /\ mode \in {"preflight", "observe"}
      BY LevelsAre DEF Modes
    <3>2. \/ l = "medium" /\ mode = "preflight" /\ end = 0 + 7
          \/ l = "medium" /\ mode = "observe" /\ end = 7 + o
          \/ l = "high" /\ mode = "preflight" /\ end = (o + 7) + 7
          \/ l = "high" /\ mode = "observe" /\ end = (o + 14) + o
      BY <3>1, Layout, Zenon
    <3> HIDE DEF end
    <3> QED BY <3>2, Layout
  <2>3. {"medium", "high"} \subseteq Range(Levels) /\ {"preflight", "observe"} \subseteq Modes
    BY LevelsAre DEF Modes
  <2> HIDE DEF end
  <2>4. CASE end = Len(Campaign)
    BY <1>1, <2>4
  <2>5. CASE mode = "preflight" /\ end = Ahead("medium", "observe")
    BY <2>1, <2>3, <2>5
  <2>6. CASE mode = "observe" /\ end = Ahead("high", "preflight")
    BY <2>1, <2>3, <2>6
  <2>7. CASE mode = "preflight" /\ end = Ahead("high", "observe")
    BY <2>1, <2>3, <2>7
  <2> QED BY <2>2, <2>4, <2>5, <2>6, <2>7
<1> HIDE DEF end
<1>6. end \in Nat
  BY <1>1 DEF end
<1>7. end + 1 \in S /\ P(end + 1)
  BY <1>1, <1>2, <1>3, <1>4, <1>5, <1>6
<1>8. ASSUME NEW i \in S, P(i) PROVE i = end + 1
  <2>1. i \in Nat /\ i > at
    BY <1>1, <1>2
  <2>2. CASE i <= end
    <3>1. i \in (Ahead(l, mode) + 1)..end /\ ~(i > Len(Campaign))
      BY <1>1, <1>2, <1>6, <2>1, <2>2
    <3> QED BY <1>3, <1>4, <1>8, <3>1
  <2>3. CASE i > end + 1
    <3>1. end + 1 \in at..(i - 1) /\ ~(end + 1 > Len(Campaign))
      BY <1>1, <1>2, <1>6, <2>1, <2>3
    <3> QED BY <1>4, <1>5, <1>8, <3>1
  <2> QED BY <1>6, <2>1, <2>2, <2>3
<1> DEFINE c == CHOOSE i \in S : P(i)
<1>9. c \in S /\ P(c)
  <2> HIDE DEF S, P
  <2> QED BY <1>7
<1>10. c = end + 1
  <2> HIDE DEF S, P, c
  <2> QED BY <1>8, <1>9
<1> QED BY <1>10 DEF end

-----------------------------------------------------------------------------
(* What the producer and its host do.                                      *)

LEMMA InitBasis == ObserverInit => Basis
<1> SUFFICES ASSUME ObserverInit PROVE Basis
  OBVIOUS
<1>1. host \in Hosts
  <2>1. host.env = <<"d:", "codex">> /\ host.home = NoHome
    BY DEF ObserverInit, NoHome
  <2> QED BY DEF ObserverInit, Hosts, Shells, NoHome, Homes, Environments
<1>2. Empty \in Files
  BY DEF Empty, Files
<1>3. logs = [l \in Range(Levels) |-> [preflight |-> Empty, observe |-> Empty]]
  BY DEF ObserverInit
<1>4. logs \in [Range(Levels) -> [preflight : Files, observe : Files]]
  BY <1>2, <1>3
<1>5. EvidenceTypes
  BY <1>1, <1>4, ObserverAssumption DEF EvidenceTypes, ObserverInit
<1>6. \A l \in Range(Levels), mode \in Modes : Log(l, mode) = <<>>
  <2> SUFFICES ASSUME NEW l \in Range(Levels), NEW mode \in Modes PROVE Log(l, mode) = <<>>
    OBVIOUS
  <2>1. logs[l] = [preflight |-> Empty, observe |-> Empty]
    BY <1>3
  <2>2. logs[l]["preflight"] = Empty /\ logs[l]["observe"] = Empty
    BY <2>1
  <2>3. logs[l][mode] = Empty
    BY <2>2 DEF Modes
  <2> QED BY <2>3 DEF Log, Empty
<1>7. producer \in {"contract", "dormant"} /\ at = 1
  BY DEF ObserverInit
<1>8. Progress
  <2>1. at \in 1..(Len(Campaign) + 1)
    BY <1>7, Layout
  <2>2. ASSUME NEW l \in Range(Levels), NEW mode \in Modes PROVE FileHolds(l, mode)
    <3>1. Ahead(l, mode) \in Nat /\ Len(Contents(mode)) \in Nat
      BY <1>7, Apart
    <3>2. Log(l, mode) = <<>> /\ Len(Log(l, mode)) = 0
      BY <1>6
    <3>3. at \in Stretch(l, mode) => Ahead(l, mode) = 0
      BY <1>7, <3>1 DEF Stretch
    <3> QED BY <1>7, <3>1, <3>2, <3>3 DEF FileHolds
  <2> QED BY <2>1, <2>2 DEF Progress
<1>9. RecordsHold
  BY <1>6 DEF RecordsHold
<1>10. HostHolds
  BY DEF HostHolds, ObserverInit
<1> QED BY <1>5, <1>8, <1>9, <1>10 DEF Basis

LEMMA SamePlans ==
  ASSUME producer' = producer
  PROVE  /\ \A mode : Contents(mode)' = Contents(mode)
         /\ \A l, mode : Ahead(l, mode)' = Ahead(l, mode) /\ Stretch(l, mode)' = Stretch(l, mode)
         /\ Campaign' = Campaign
<1>1. \A mode : Contents(mode)' = Contents(mode)
  BY DEF Contents
<1>2. \A l, mode : Ahead(l, mode)' = Ahead(l, mode)
  BY DEF Ahead
<1>3. \A l, mode : Stretch(l, mode)' = Stretch(l, mode)
  BY <1>1, <1>2 DEF Stretch
<1>4. Campaign' = Campaign
  BY DEF Campaign
<1> QED BY <1>1, <1>2, <1>3, <1>4

LEMMA FilesTyped ==
  ASSUME EvidenceTypes, NEW l \in Range(Levels), NEW mode \in Modes
  PROVE  /\ logs[l][mode] \in Files
         /\ Log(l, mode) \in Seq(Evidences) /\ Len(Log(l, mode)) \in Nat
         /\ DOMAIN Log(l, mode) = 1..Len(Log(l, mode))
         /\ \A i \in 1..Len(Log(l, mode)) : Log(l, mode)[i] \in Evidences
<1>1. logs[l] \in [preflight : Files, observe : Files]
  BY DEF EvidenceTypes
<1>2. logs[l]["preflight"] \in Files /\ logs[l]["observe"] \in Files
  BY <1>1
<1>3. logs[l][mode] \in Files
  BY <1>2 DEF Modes
<1>4. Log(l, mode) \in Seq(Evidences)
  BY <1>3 DEF Log, Files
<1> QED BY <1>3, <1>4

\* A step that adds no record and stays in its place.
LEMMA StayBasis ==
  ASSUME Basis, UNCHANGED <<producer, at, logs>>, session' = session \/ session' # Closed
  PROVE  Progress'
<1>1. \A l \in Range(Levels), mode \in Modes : FileHolds(l, mode)'
  <2> SUFFICES ASSUME NEW l \in Range(Levels), NEW mode \in Modes PROVE FileHolds(l, mode)'
    OBVIOUS
  <2>1. FileHolds(l, mode)
    BY DEF Basis, Progress
  <2>2. Log(l, mode)' = Log(l, mode)
    BY DEF Log
  <2>3. Contents(mode)' = Contents(mode) /\ Ahead(l, mode)' = Ahead(l, mode)
        /\ Stretch(l, mode)' = Stretch(l, mode)
    BY SamePlans
  <2> QED BY <2>1, <2>2, <2>3 DEF FileHolds
<1>2. at' \in 1..(Len(Campaign') + 1)
  BY SamePlans DEF Basis, Progress
<1> QED BY <1>1, <1>2 DEF Progress

\* A step that changes no record and lets no identity fall.
LEMMA StayRecords ==
  ASSUME Basis, UNCHANGED <<producer, logs>>, host' \in Hosts, NoLater(host, host'),
         probed' \in {None, probed} \/ probed' = host
  PROVE  RecordsHold'
<1> SUFFICES ASSUME NEW l \in Range(Levels), NEW mode \in Modes, NEW i \in 1..Len(Log(l, mode))
             PROVE  RecordHolds(l, mode, i)'
  BY DEF RecordsHold, Log
<1> DEFINE r == Log(l, mode)[i]
<1>1. Log(l, mode)' = Log(l, mode)
  BY DEF Log
<1>2. RecordHolds(l, mode, i)
  BY DEF Basis, RecordsHold
<1>3. r.saw \in Hosts /\ host \in Hosts
  BY FilesTyped DEF Basis, EvidenceTypes, Evidences
<1>4. NoLater(r.saw, host')
  <2>1. NoLater(r.saw, host)
    BY <1>2 DEF RecordHolds
  <2> QED BY <1>3, <2>1 DEF NoLater, Hosts
<1>5. probed' = None \/ NoLater(r.saw, probed')
  BY <1>2 DEF RecordHolds
<1>6. Deferred(r.step)' = Deferred(r.step)
  BY <1>1 DEF Deferred
<1> HIDE DEF r
<1>7. RecordHolds(l, mode, i)'
  <2>1. r' = r
    BY <1>1 DEF r
  <2> QED BY <1>1, <1>2, <1>4, <1>5, <1>6, <2>1 DEF RecordHolds, r
<1> QED BY <1>7

\* Paths that differ somewhere.
LEMMA Parted ==
  ASSUME NEW S, NEW p \in Seq(S), NEW q \in Seq(S), NEW i \in 1..Len(p), i \in 1..Len(q),
         p[i] # q[i]
  PROVE  Relation(p, q) = "disjoint" /\ p # q
<1>1. ASSUME NEW a \in Seq(S), NEW b \in Seq(S), i \in 1..Len(a), IsPrefix(a, b)
      PROVE  a[i] = b[i]
  <2> DEFINE n == Len(a)
  <2>1. n \in Nat /\ n <= Len(b) /\ SubSeq(a, 1, n) = SubSeq(b, 1, n)
    BY <1>1 DEF IsPrefix
  <2>2. SubSeq(a, 1, n)[i] = a[i]
    BY <1>1, <2>1
  <2>3. SubSeq(b, 1, n)[i] = b[i]
    BY <1>1, <2>1
  <2> QED BY <2>1, <2>2, <2>3
<1>2. ~IsPrefix(p, q) /\ ~IsPrefix(q, p)
  BY <1>1
<1> QED BY <1>2 DEF Relation, IsStrictPrefix

\* A path that begins with another.
LEMMA Below ==
  ASSUME NEW S, NEW p \in Seq(S), NEW q \in Seq(S), Len(p) < Len(q),
         \A i \in 1..Len(p) : p[i] = q[i]
  PROVE  Relation(q, p) = "inside"
<1> DEFINE n == Len(p)
<1>1. n \in Nat /\ Len(q) \in Nat
  OBVIOUS
<1>2. SubSeq(p, 1, n) = SubSeq(q, 1, n)
  <2>1. SubSeq(p, 1, n) = [i \in 1..n |-> p[i]]
    BY <1>1
  <2>2. SubSeq(q, 1, n) = [i \in 1..n |-> q[i]]
    BY <1>1
  <2> QED BY <2>1, <2>2
<1>3. p # q
  OBVIOUS
<1> QED BY <1>1, <1>2, <1>3 DEF Relation, IsStrictPrefix, IsPrefix

PathNames == {"c:", "d:", "users", "codex", "temp", "tmp", "home", Disposable}

\* The gate lets preflight create only one home: the others are below the
\* user's Codex home, or in another disposable directory, and CODEX_HOME may
\* not be above it.
LEMMA GateIs ==
  ASSUME NEW temp \in Temps, NEW env \in Environments, TempRootSafe(temp, env)
  PROVE  temp \o <<Disposable, "home">> = Disposed
<1>1. temp # UserHome \o <<"tmp">>
  <2> DEFINE t == <<"tmp">>
             q == UserHome \o t
  <2>1. UserHome \in Seq(PathNames) /\ Len(UserHome) = 3
    BY DEF UserHome, PathNames
  <2>2. t \in Seq(PathNames) /\ Len(t) = 1
    BY DEF PathNames
  <2> HIDE DEF t
  <2>3. /\ UserHome \o t \in Seq(PathNames) /\ Len(UserHome \o t) = Len(UserHome) + Len(t)
        /\ \A i \in 1..Len(UserHome) + Len(t) :
             (UserHome \o t)[i] = IF i <= Len(UserHome) THEN UserHome[i] ELSE t[i - Len(UserHome)]
    BY <2>1, <2>2, ConcatProperties, Zenon
  <2>4. q \in Seq(PathNames) /\ Len(UserHome) < Len(q)
        /\ \A i \in 1..Len(UserHome) : UserHome[i] = q[i]
    BY <2>1, <2>2, <2>3
  <2> HIDE DEF q
  <2>5. Relation(q, UserHome) = "inside"
    BY <2>1, <2>4, Below
  <2>6. ~TempRootSafe(q, env)
    BY <2>5 DEF TempRootSafe, PathGateSafe
  <2> QED BY <2>6 DEF q, t
<1>2. temp # <<"d:", Disposable, "tmp">>
  <2> DEFINE q == <<"d:", Disposable, "tmp">>
  <2>1. InsideDisposableDir(q)
    BY DEF InsideDisposableDir
  <2>2. ~TempRootSafe(q, env)
    BY <2>1 DEF TempRootSafe, PathGateSafe
  <2> QED BY <2>2
<1>3. temp = <<"c:", "temp">>
  BY <1>1, <1>2 DEF Temps
<1>4. <<"c:", "temp">> \o <<Disposable, "home">> = Disposed
  <2> DEFINE p == <<"c:", "temp">>
             q == <<Disposable, "home">>
  <2>1. p \in Seq(PathNames) /\ Len(p) = 2 /\ q \in Seq(PathNames) /\ Len(q) = 2
    BY DEF PathNames
  <2>2. p[1] = "c:" /\ p[2] = "temp" /\ q[1] = Disposable /\ q[2] = "home"
    OBVIOUS
  <2>3. Disposed \in Seq(PathNames) /\ Len(Disposed) = 4
        /\ Disposed[1] = "c:" /\ Disposed[2] = "temp" /\ Disposed[3] = Disposable
        /\ Disposed[4] = "home"
    BY DEF Disposed, PathNames
  <2> HIDE DEF p, q
  <2>4. /\ p \o q \in Seq(PathNames) /\ Len(p \o q) = 4
        /\ \A i \in 1..4 : (p \o q)[i] = IF i <= 2 THEN p[i] ELSE q[i - 2]
    <3>1. /\ p \o q \in Seq(PathNames) /\ Len(p \o q) = Len(p) + Len(q)
          /\ \A i \in 1..Len(p) + Len(q) :
               (p \o q)[i] = IF i <= Len(p) THEN p[i] ELSE q[i - Len(p)]
      BY <2>1, ConcatProperties, Zenon
    <3> QED BY <2>1, <3>1
  <2>5. \A i \in 1..4 : (p \o q)[i] = Disposed[i]
    <3>1. /\ (p \o q)[1] = p[1] /\ (p \o q)[2] = p[2]
          /\ (p \o q)[3] = q[1] /\ (p \o q)[4] = q[2]
      BY <2>4
    <3>2. \A i \in 1..4 : i = 1 \/ i = 2 \/ i = 3 \/ i = 4
      OBVIOUS
    <3> QED BY <2>2, <2>3, <3>1, <3>2
  <2> DEFINE c == p \o q
  <2>6. c \in Seq(PathNames) /\ Len(c) = Len(Disposed) /\ \A i \in 1..Len(c) : c[i] = Disposed[i]
    BY <2>3, <2>4, <2>5
  <2> HIDE DEF c
  <2>7. c = Disposed
    BY <2>3, <2>6, SeqEqual
  <2> QED BY <2>7 DEF c, p, q
<1> QED BY <1>3, <1>4

\* The home that it creates keeps its distance.
LEMMA HomeIsApart ==
  /\ Relation(Disposed, UserHome) = "disjoint"
  /\ Relation(Disposed, <<"d:", "codex">>) = "disjoint"
  /\ Disposed[Len(Disposed) - 1] = Disposable
<1>1. Disposed \in Seq(PathNames) /\ Len(Disposed) = 4
      /\ Disposed[1] = "c:" /\ Disposed[2] = "temp" /\ Disposed[3] = Disposable
  BY DEF Disposed, PathNames
<1>2. UserHome \in Seq(PathNames) /\ Len(UserHome) = 3 /\ UserHome[2] = "users"
  BY DEF UserHome, PathNames
<1> DEFINE e == <<"d:", "codex">>
<1>3. e \in Seq(PathNames) /\ Len(e) = 2 /\ e[1] = "d:"
  BY DEF PathNames
<1> HIDE DEF e
<1>4. Relation(Disposed, UserHome) = "disjoint"
  <2>1. 2 \in 1..Len(Disposed) /\ 2 \in 1..Len(UserHome) /\ Disposed[2] # UserHome[2]
    BY <1>1, <1>2
  <2> QED BY <1>1, <1>2, <2>1, Parted
<1>5. Relation(Disposed, e) = "disjoint"
  <2>1. 1 \in 1..Len(Disposed) /\ 1 \in 1..Len(e) /\ Disposed[1] # e[1]
    BY <1>1, <1>3
  <2> QED BY <1>1, <1>3, <2>1, Parted
<1> QED BY <1>1, <1>4, <1>5 DEF e

LEMMA OpenBasis == Basis /\ Open => Basis'
<1> SUFFICES ASSUME Basis, Open PROVE Basis'
  OBVIOUS
<1>1. producer \in {"contract", "dormant"} /\ host \in Hosts /\ at \in 1..(Len(Campaign) + 1)
  BY DEF Basis, EvidenceTypes, Progress
<1>2. UNCHANGED <<producer, at, logs, probed, report>> /\ ~Over
  BY DEF Open
<1>3. PICK shell \in Shells, reference \in Range(Levels), declared \in Range(Levels) :
        /\ session' = [shell |-> shell, reference |-> reference, declared |-> declared]
        /\ Slip((IF shell \in Nominal(Entry.level) THEN 0 ELSE 1)
                + Cardinality({l \in {reference, declared} : l # Entry.level}))
        /\ IF Entry.mode = "preflight"
           THEN \E temp \in Temps :
                  /\ TempRootSafe(temp, host.env)
                  /\ host' = [host EXCEPT !.homeId = @ + 1, !.private = TRUE,
                                          !.home = temp \o <<Disposable, "home">>]
           ELSE host' = [host EXCEPT !.target = @ + 1, !.live = TRUE, !.codex = shell,
                                     !.threads = 1, !.thread = @ + 1, !.guard = @ + 1,
                                     !.held = TRUE]
  BY DEF Open
<1>4. session' \in Sessions /\ session' # Closed /\ session'.shell = shell
  <2>1. session' \in Sessions /\ session'.shell = shell
    BY <1>3 DEF Sessions
  <2>2. Closed.shell = "none" /\ shell # "none"
    BY DEF Closed, Shells
  <2> QED BY <2>1, <2>2
<1>5. faults' \in 0..Faults
  <2> DEFINE more == (IF shell \in Nominal(Entry.level) THEN 0 ELSE 1)
                     + Cardinality({l \in {reference, declared} : l # Entry.level})
  <2>1. IsFiniteSet({reference, declared})
    <3>1. IsFiniteSet({reference}) /\ {reference, declared} = {reference} \cup {declared}
      BY FS_Singleton
    <3> QED BY <3>1, FS_AddElement
  <2>2. Cardinality({l \in {reference, declared} : l # Entry.level}) \in Nat
    BY <2>1, FS_Subset, FS_CardinalityType
  <2>3. more \in Nat
    BY <2>2
  <2> HIDE DEF more
  <2>4. faults' = faults + more /\ faults' <= Faults
    BY <1>3 DEF Slip, more
  <2> QED BY <2>3, <2>4, ObserverAssumption DEF Basis, EvidenceTypes
<1>6. CASE Entry.mode = "preflight"
  <2>1. PICK temp \in Temps : /\ TempRootSafe(temp, host.env)
                              /\ host' = [host EXCEPT !.homeId = @ + 1, !.private = TRUE,
                                          !.home = temp \o <<Disposable, "home">>]
    BY <1>3, <1>6
  <2>2. host.env \in Environments
    BY <1>1 DEF Hosts
  <2>3. temp \o <<Disposable, "home">> = Disposed
    BY <2>1, <2>2, GateIs
  <2>4. host' = [host EXCEPT !.homeId = @ + 1, !.private = TRUE, !.home = Disposed]
    BY <2>1, <2>3
  <2>5. host' \in Hosts
    <3> DEFINE g == [host EXCEPT !.homeId = @ + 1]
               h == [g EXCEPT !.private = TRUE]
    <3>1. g \in Hosts
      BY <1>1 DEF Hosts
    <3> HIDE DEF g
    <3>2. h \in Hosts
      BY <3>1 DEF Hosts
    <3> HIDE DEF h
    <3>3. Disposed \in Homes
      BY DEF Homes
    <3>4. [h EXCEPT !.home = Disposed] \in Hosts
      BY <3>2, <3>3 DEF Hosts
    <3> QED BY <2>4, <3>4 DEF g, h
  <2>6. /\ host'.home = Disposed /\ host'.held = host.held /\ host'.live = host.live
        /\ host'.thread = host.thread /\ host'.guard = host.guard
    BY <1>1, <2>4 DEF Hosts
  <2>7. NoLater(host, host')
    BY <1>1, <2>6 DEF NoLater, Hosts
  <2>8. probed = None \/ NoLater(probed, host')
    BY <2>6 DEF Basis, HostHolds, NoLater
  <2>9. EvidenceTypes'
    BY <1>2, <1>4, <1>5, <2>5 DEF Basis, EvidenceTypes
  <2>10. Entry' = Entry
    BY <1>2, SamePlans DEF Entry
  <2>11. HostHolds'
    BY <1>2, <1>6, <2>6, <2>8, <2>10 DEF Basis, HostHolds
  <2>12. Progress' /\ RecordsHold'
    BY <1>2, <1>4, <2>5, <2>7, StayBasis, StayRecords
  <2> QED BY <2>9, <2>11, <2>12 DEF Basis
<1>7. CASE Entry.mode # "preflight"
  <2>4. host' = [host EXCEPT !.target = @ + 1, !.live = TRUE, !.codex = shell,
                             !.threads = 1, !.thread = @ + 1, !.guard = @ + 1, !.held = TRUE]
    BY <1>3, <1>7
  <2>5. host' \in Hosts
    <3> DEFINE a == [host EXCEPT !.target = @ + 1]
               b == [a EXCEPT !.live = TRUE]
               c == [b EXCEPT !.codex = shell]
               d == [c EXCEPT !.threads = 1]
               e == [d EXCEPT !.thread = @ + 1]
               f == [e EXCEPT !.guard = @ + 1]
    <3>1. a \in Hosts
      BY <1>1 DEF Hosts
    <3> HIDE DEF a
    <3>2. b \in Hosts
      BY <3>1 DEF Hosts
    <3> HIDE DEF b
    <3>3. c \in Hosts
      BY <3>2 DEF Hosts
    <3> HIDE DEF c
    <3>4. d \in Hosts
      BY <3>3 DEF Hosts
    <3> HIDE DEF d
    <3>5. e \in Hosts
      BY <3>4 DEF Hosts
    <3> HIDE DEF e
    <3>6. f \in Hosts
      BY <3>5 DEF Hosts
    <3> HIDE DEF f
    <3>7. [f EXCEPT !.held = TRUE] \in Hosts
      BY <3>6 DEF Hosts
    <3> QED BY <2>4, <3>7 DEF a, b, c, d, e, f
  <2>6. /\ host'.home = host.home /\ host'.held /\ host'.live
        /\ host'.thread = host.thread + 1 /\ host'.guard = host.guard + 1
        /\ host'.codex = shell
    BY <1>1, <2>4 DEF Hosts
  <2>7. NoLater(host, host')
    BY <1>1, <2>6 DEF NoLater, Hosts
  <2>8. probed = None \/ NoLater(probed, host')
    <3>1. probed = None \/ (probed \in Hosts /\ NoLater(probed, host))
      BY DEF Basis, EvidenceTypes, HostHolds
    <3> QED BY <1>1, <2>6, <3>1 DEF NoLater, Hosts
  <2>9. EvidenceTypes'
    BY <1>2, <1>4, <1>5, <2>5 DEF Basis, EvidenceTypes
  <2>10. at # 1
    <3>1. "medium" \in Range(Levels) /\ "preflight" \in Modes /\ 1 \in 1..Len(Contents("preflight"))
      BY <1>1, Layout, LevelsAre DEF Modes
    <3>2. Campaign[Ahead("medium", "preflight") + 1].mode = "preflight"
      BY <1>1, <3>1, CampaignIs
    <3>3. Ahead("medium", "preflight") + 1 = 1
      BY <1>1, Layout
    <3> QED BY <1>7, <3>2, <3>3 DEF Entry
  <2>11. HostHolds'
    BY <1>2, <1>4, <2>6, <2>8, <2>10 DEF Basis, HostHolds
  <2>12. Progress' /\ RecordsHold'
    BY <1>2, <1>4, <2>5, <2>7, StayBasis, StayRecords
  <2> QED BY <2>9, <2>11, <2>12 DEF Basis
<1> QED BY <1>6, <1>7

LEMMA BeginProbeBasis == Basis /\ BeginProbe => Basis'
<1> SUFFICES ASSUME Basis, BeginProbe PROVE Basis'
  OBVIOUS
<1>1. UNCHANGED <<producer, host, at, session, logs, faults>> /\ probed' = host /\ host \in Hosts
  BY DEF BeginProbe, Basis, EvidenceTypes
<1>2. NoLater(host, host')
  BY <1>1 DEF NoLater, Hosts
<1>3. Progress' /\ RecordsHold'
  BY <1>1, <1>2, StayBasis, StayRecords
<1>4. EvidenceTypes'
  BY <1>1 DEF Basis, EvidenceTypes
<1>5. HostHolds'
  <2>1. Entry' = Entry /\ Campaign' = Campaign
    BY <1>1, SamePlans DEF Entry
  <2>2. NoLater(probed', host')
    BY <1>1, <1>2
  <2> QED BY <1>1, <2>1, <2>2 DEF Basis, HostHolds, Over
<1> QED BY <1>3, <1>4, <1>5 DEF Basis

LEMMA DisturbBasis == Basis /\ Disturb => Basis'
<1> SUFFICES ASSUME Basis, Disturb PROVE Basis'
  OBVIOUS
<1>1. /\ UNCHANGED <<producer, at, session, logs, probed>> /\ host \in Hosts
      /\ host' \in Disturbed(host) /\ Slip(1)
  BY DEF Disturb, Basis, EvidenceTypes
<1>2. <<"c:">> \in Environments
  BY DEF Environments
<1>3. /\ host' \in Hosts
      /\ host'.home = host.home /\ host'.codex = host.codex
      /\ host'.thread >= host.thread /\ host'.guard >= host.guard
      /\ (host.held => host.live) => (host'.held => host'.live)
  <2> DEFINE Fine(h) == /\ h \in Hosts
                        /\ h.home = host.home /\ h.codex = host.codex
                        /\ h.thread >= host.thread /\ h.guard >= host.guard
                        /\ (host.held => host.live) => (h.held => h.live)
  <2>1. Fine([host EXCEPT !.files = 2]) /\ Fine([host EXCEPT !.binary = 2])
    BY <1>1 DEF Hosts
  <2>2. Fine([host EXCEPT !.homeId = @ + 1]) /\ Fine([host EXCEPT !.env = <<"c:">>])
    BY <1>1, <1>2 DEF Hosts
  <2>3. Fine([host EXCEPT !.private = FALSE])
    <3> DEFINE r == [host EXCEPT !.private = FALSE]
    <3>8. /\ r \in Hosts /\ r.home = host.home /\ r.codex = host.codex
          /\ r.thread = host.thread /\ r.guard = host.guard
      BY <1>1 DEF Hosts
    <3>9. r.held = host.held /\ r.live = host.live
      BY <1>1 DEF Hosts
    <3> HIDE DEF r
    <3>10. Fine(r)
      BY <1>1, <3>8, <3>9 DEF Hosts
    <3> QED BY <3>10 DEF r
  <2>4. Fine([host EXCEPT !.live = FALSE, !.held = FALSE])
    <3> DEFINE g == [host EXCEPT !.live = FALSE]
    <3>1. /\ g \in Hosts /\ g.home = host.home /\ g.codex = host.codex
          /\ g.thread = host.thread /\ g.guard = host.guard
      BY <1>1 DEF Hosts
    <3> HIDE DEF g
    <3> DEFINE r == [g EXCEPT !.held = FALSE]
    <3>8. /\ r \in Hosts /\ r.home = host.home /\ r.codex = host.codex
          /\ r.thread = host.thread /\ r.guard = host.guard
      BY <1>1, <3>1 DEF Hosts
    <3>9. r.held = FALSE
      BY <1>1, <3>1 DEF Hosts
    <3> HIDE DEF r
    <3>10. Fine(r)
      BY <1>1, <3>8, <3>9 DEF Hosts
    <3> QED BY <3>10 DEF r, g
  <2>5. Fine([host EXCEPT !.target = @ + 1, !.live = TRUE])
    <3> DEFINE g == [host EXCEPT !.target = @ + 1]
    <3>1. /\ g \in Hosts /\ g.home = host.home /\ g.codex = host.codex
          /\ g.thread = host.thread /\ g.guard = host.guard
      BY <1>1 DEF Hosts
    <3> HIDE DEF g
    <3> DEFINE r == [g EXCEPT !.live = TRUE]
    <3>8. /\ r \in Hosts /\ r.home = host.home /\ r.codex = host.codex
          /\ r.thread = host.thread /\ r.guard = host.guard
      BY <1>1, <3>1 DEF Hosts
    <3>9. r.live = TRUE
      BY <1>1, <3>1 DEF Hosts
    <3> HIDE DEF r
    <3>10. Fine(r)
      BY <1>1, <3>8, <3>9 DEF Hosts
    <3> QED BY <3>10 DEF r, g
  <2>6. Fine([host EXCEPT !.thread = @ + 1])
    BY <1>1 DEF Hosts
  <2>8. Fine([host EXCEPT !.guard = @ + 1]) /\ Fine([host EXCEPT !.threads = 2])
    BY <1>1 DEF Hosts
  <2>9. Fine([host EXCEPT !.held = FALSE])
    <3> DEFINE r == [host EXCEPT !.held = FALSE]
    <3>8. /\ r \in Hosts /\ r.home = host.home /\ r.codex = host.codex
          /\ r.thread = host.thread /\ r.guard = host.guard
      BY <1>1 DEF Hosts
    <3>9. r.held = FALSE
      BY <1>1 DEF Hosts
    <3> HIDE DEF r
    <3>10. Fine(r)
      BY <1>1, <3>8, <3>9 DEF Hosts
    <3> QED BY <3>10 DEF r
  <2>10. Fine([host EXCEPT !.drifted = TRUE])
    <3> DEFINE r == [host EXCEPT !.drifted = TRUE]
    <3>8. /\ r \in Hosts /\ r.home = host.home /\ r.codex = host.codex
          /\ r.thread = host.thread /\ r.guard = host.guard
      BY <1>1 DEF Hosts
    <3>9. r.held = host.held /\ r.live = host.live
      BY <1>1 DEF Hosts
    <3> HIDE DEF r
    <3>10. Fine(r)
      BY <1>1, <3>8, <3>9 DEF Hosts
    <3> QED BY <3>10 DEF r
  <2>7. Fine(host')
    <3> HIDE DEF Fine
    <3> QED BY <1>1, <2>1, <2>2, <2>3, <2>4, <2>5, <2>6, <2>8, <2>9, <2>10 DEF Disturbed
  <2> QED BY <2>7
<1>4. NoLater(host, host')
  BY <1>1, <1>3 DEF NoLater, Hosts
<1>5. Progress' /\ RecordsHold'
  BY <1>1, <1>3, <1>4, StayBasis, StayRecords
<1>6. EvidenceTypes'
  BY <1>1, <1>3, ObserverAssumption DEF Basis, EvidenceTypes, Slip
<1>7. probed = None \/ NoLater(probed, host')
  <2>1. probed = None \/ (probed \in Hosts /\ NoLater(probed, host))
    BY DEF Basis, EvidenceTypes, HostHolds
  <2> QED BY <1>1, <1>3, <1>4, <2>1 DEF NoLater, Hosts
<1>8. HostHolds'
  <2>1. Entry' = Entry /\ Campaign' = Campaign
    BY <1>1, SamePlans DEF Entry
  <2> QED BY <1>1, <1>3, <1>7, <2>1 DEF Basis, HostHolds, Over
<1> QED BY <1>5, <1>6, <1>8 DEF Basis

-----------------------------------------------------------------------------
(* A file is cut, or grows by a record.                                    *)

\* One file changes.
LEMMA FileChanges ==
  ASSUME EvidenceTypes, NEW l \in Range(Levels), NEW mode \in Modes,
         NEW whole \in BOOLEAN, NEW log \in Seq(Evidences),
         \/ logs' = [logs EXCEPT ![l][mode].whole = whole] /\ log = Log(l, mode)
         \/ logs' = [logs EXCEPT ![l][mode].log = log]
  PROVE  /\ logs' \in [Range(Levels) -> [preflight : Files, observe : Files]]
         /\ Log(l, mode)' = log
         /\ \A k \in Range(Levels), other \in Modes :
              (k = l /\ other = mode) \/ Log(k, other)' = Log(k, other)
<1> DEFINE L == Range(Levels)
           P == [preflight : Files, observe : Files]
<1>1. logs \in [L -> P] /\ l \in L
  BY DEF EvidenceTypes
<1>2. logs[l] \in P /\ logs[l].preflight \in Files /\ logs[l].observe \in Files
  BY <1>1
<1>3. PICK f \in Files : logs' = [logs EXCEPT ![l][mode] = f] /\ f.log = log
  <2>1. logs[l][mode] \in Files
    BY FilesTyped
  <2>2. CASE logs' = [logs EXCEPT ![l][mode].whole = whole] /\ log = Log(l, mode)
    <3> DEFINE f == [logs[l][mode] EXCEPT !.whole = whole]
    <3>1. f \in Files /\ f.log = log
      BY <2>1, <2>2 DEF Files, Log
    <3>2. logs' = [logs EXCEPT ![l][mode] = f]
      BY <2>2
    <3> QED BY <3>1, <3>2
  <2>3. CASE logs' = [logs EXCEPT ![l][mode].log = log]
    <3> DEFINE f == [logs[l][mode] EXCEPT !.log = log]
    <3>1. f \in Files /\ f.log = log
      BY <2>1 DEF Files
    <3>2. logs' = [logs EXCEPT ![l][mode] = f]
      BY <2>3
    <3> QED BY <3>1, <3>2
  <2> QED BY <2>2, <2>3
<1> DEFINE p == [logs[l] EXCEPT ![mode] = f]
<1>4. p \in P /\ p[mode] = f
      /\ \A other \in Modes : other # mode => p[other] = logs[l][other]
  <2>1. CASE mode = "preflight"
    <3>1. p = [logs[l] EXCEPT !.preflight = f]
      BY <2>1
    <3> HIDE DEF p
    <3>2. p \in P /\ p.preflight = f /\ p.observe = logs[l].observe
      BY <1>2, <3>1
    <3> QED BY <2>1, <3>2 DEF Modes
  <2>2. CASE mode = "observe"
    <3>1. p = [logs[l] EXCEPT !.observe = f]
      BY <2>2
    <3> HIDE DEF p
    <3>2. p \in P /\ p.observe = f /\ p.preflight = logs[l].preflight
      BY <1>2, <3>1
    <3> QED BY <2>2, <3>2 DEF Modes
  <2> QED BY <2>1, <2>2 DEF Modes
<1>5. logs' = [logs EXCEPT ![l] = p]
  BY <1>3
<1> HIDE DEF p, P, L
<1>6. logs' \in [L -> P] /\ logs'[l] = p /\ \A k \in L : k # l => logs'[k] = logs[k]
  BY <1>1, <1>4, <1>5
<1> QED BY <1>3, <1>4, <1>6 DEF Log, L, P

\* A file that was not begun when another was being written still is not,
\* unless the other ended there.
LEMMA OthersHold ==
  ASSUME Basis, UNCHANGED producer, NEW l \in Range(Levels), NEW mode \in Modes,
         at \in Stretch(l, mode), at' \in Nat,
         \/ at' = at + 1
         \/ at' = Ahead(l, mode) + Len(Contents(mode)) + 1,
         NEW k \in Range(Levels), NEW other \in Modes, ~(k = l /\ other = mode),
         Log(k, other)' = Log(k, other)
  PROVE  FileHolds(k, other)'
<1> DEFINE a == Ahead(l, mode)
           x == Len(Contents(mode))
           b == Ahead(k, other)
           y == Len(Contents(other))
<1>1. producer \in {"contract", "dormant"} /\ at \in Nat
  BY DEF Basis, EvidenceTypes
<1>2. a \in Nat /\ x \in Nat /\ b \in Nat /\ y \in Nat /\ (b + y <= a \/ a + x <= b)
  BY <1>1, Apart
<1>3. a < at /\ at <= a + x
  BY <1>1, <1>2 DEF Stretch
<1>4. FileHolds(k, other)
  BY DEF Basis, Progress
<1>5. Contents(other)' = Contents(other) /\ Ahead(k, other)' = b
      /\ Stretch(k, other)' = (b + 1)..(b + y)
  BY SamePlans DEF Stretch
<1> HIDE DEF a, x, b, y
<1>6. at' = at + 1 \/ at' = a + x + 1
  BY DEF a, x
<1>7. at' <= b => at <= b
  BY <1>1, <1>2, <1>3, <1>6
<1>8. at' \in (b + 1)..(b + y) => at' = b + 1 /\ at <= b
  BY <1>1, <1>2, <1>3, <1>6
<1>9. at <= b => Log(k, other) = <<>> /\ Len(Log(k, other)) = 0
  BY <1>4 DEF FileHolds, b
<1>10. FileHolds(k, other)'
  <2>1. /\ Len(Log(k, other)) <= Len(Contents(other))
        /\ \A i \in 1..Len(Log(k, other)) :
             /\ Log(k, other)[i].level = k
             /\ Log(k, other)[i].step = Contents(other)[i].step
             /\ Log(k, other)[i].sample = Contents(other)[i].sample
    BY <1>4 DEF FileHolds
  <2>2. at' <= b => Log(k, other) = <<>>
    BY <1>7, <1>9
  <2>3. at' \in (b + 1)..(b + y) => Len(Log(k, other)) = at' - b - 1 /\ at' = b + 1
    BY <1>2, <1>8, <1>9
  <2> QED BY <1>5, <2>1, <2>2, <2>3 DEF FileHolds
<1> QED BY <1>10

LEMMA CutBasis == Basis /\ Cut => Basis'
<1> SUFFICES ASSUME Basis, Cut PROVE Basis'
  OBVIOUS
<1>1. producer \in {"contract", "dormant"} /\ host \in Hosts /\ at \in 1..(Len(Campaign) + 1)
      /\ faults \in 0..Faults
  BY DEF Basis, EvidenceTypes, Progress
<1>2. /\ UNCHANGED <<producer, host, report>> /\ ~Over /\ session # Closed
      /\ session' = Closed /\ probed' = None /\ Slip(1)
  BY DEF Cut
<1>3. at \in 1..Len(Campaign)
  BY <1>1, <1>2, Layout DEF Over
<1>4. PICK l \in Range(Levels), mode \in Modes :
        at \in Stretch(l, mode) /\ Entry.level = l /\ Entry.mode = mode
  BY <1>1, <1>3, EntryIs
<1> DEFINE end == Ahead(l, mode) + Len(Contents(mode))
<1>5. at' = end + 1
  BY <1>1, <1>4, CutTo DEF Cut
<1>6. Ahead(l, mode) \in Nat /\ Len(Contents(mode)) \in Nat /\ end \in Nat /\ end <= Len(Campaign)
      /\ Len(Campaign) \in Nat
  BY <1>1, Apart, Layout
<1>7. PICK whole \in BOOLEAN : logs' = [logs EXCEPT ![l][mode].whole = whole]
  BY <1>4 DEF Cut
<1>8. Log(l, mode) \in Seq(Evidences)
  BY FilesTyped DEF Basis
<1>9. /\ logs' \in [Range(Levels) -> [preflight : Files, observe : Files]]
      /\ \A k \in Range(Levels), other \in Modes : Log(k, other)' = Log(k, other)
  <2>1. EvidenceTypes
    BY DEF Basis
  <2>2. PICK log \in Seq(Evidences) : log = Log(l, mode)
    BY <1>8
  <2>3. /\ logs' \in [Range(Levels) -> [preflight : Files, observe : Files]]
        /\ Log(l, mode)' = log
        /\ \A k \in Range(Levels), other \in Modes :
             (k = l /\ other = mode) \/ Log(k, other)' = Log(k, other)
    <3>1. \/ logs' = [logs EXCEPT ![l][mode].whole = whole] /\ log = Log(l, mode)
          \/ logs' = [logs EXCEPT ![l][mode].log = log]
      BY <1>7, <2>2
    <3> QED BY <2>1, <3>1, FileChanges
  <2> QED BY <2>2, <2>3
<1>10. EvidenceTypes'
  <2>1. faults' \in 0..Faults
    BY <1>1, <1>2, ObserverAssumption DEF Slip
  <2>2. at' \in Nat
    BY <1>5, <1>6
  <2> QED BY <1>1, <1>2, <1>9, <2>1, <2>2 DEF EvidenceTypes
<1>11. Progress'
  <2>1. ASSUME NEW k \in Range(Levels), NEW other \in Modes PROVE FileHolds(k, other)'
    <3>1. CASE k = l /\ other = mode
      <4>1. FileHolds(l, mode)
        BY DEF Basis, Progress
      <4>2. Contents(mode)' = Contents(mode) /\ Ahead(l, mode)' = Ahead(l, mode)
            /\ Stretch(l, mode)' = (Ahead(l, mode) + 1)..end
        BY <1>2, SamePlans DEF Stretch
      <4>3. ~(at' <= Ahead(l, mode)) /\ at' \notin (Ahead(l, mode) + 1)..end
        BY <1>5, <1>6
      <4>4. Log(l, mode)' = Log(l, mode)
        BY <1>9
      <4> HIDE DEF end
      <4> QED BY <3>1, <4>1, <4>2, <4>3, <4>4 DEF FileHolds
    <3>2. CASE ~(k = l /\ other = mode)
      <4>1. at' \in Nat
        BY <1>5, <1>6
      <4>2. Log(k, other)' = Log(k, other)
        BY <1>9
      <4> QED BY <1>2, <1>4, <1>5, <3>2, <4>1, <4>2, OthersHold
    <3> QED BY <3>1, <3>2
  <2>2. at' \in 1..(Len(Campaign) + 1) /\ Campaign' = Campaign
    BY <1>2, <1>5, <1>6, SamePlans
  <2> QED BY <2>1, <2>2 DEF Progress
<1>12. RecordsHold'
  <2> SUFFICES ASSUME NEW k \in Range(Levels), NEW other \in Modes,
                      NEW i \in 1..Len(Log(k, other)')
               PROVE  RecordHolds(k, other, i)'
    BY DEF RecordsHold
  <2>1. Log(k, other)' = Log(k, other)
    BY <1>9
  <2>2. RecordHolds(k, other, i)
    BY <2>1 DEF Basis, RecordsHold
  <2> DEFINE r == Log(k, other)[i]
  <2>3. r' = r
    BY <2>1
  <2>4. Deferred(r.step)' = Deferred(r.step)
    BY <1>2, <2>3 DEF Deferred
  <2> HIDE DEF r
  <2> QED BY <1>2, <2>1, <2>2, <2>3, <2>4 DEF RecordHolds, r
<1>13. HostHolds'
  BY <1>2 DEF Basis, HostHolds
<1> QED BY <1>10, <1>11, <1>12, <1>13 DEF Basis

\* A record more, of the entry that the campaign has come to.
LEMMA ObserveAdds ==
  ASSUME Basis, Observe
  PROVE  \E l \in Range(Levels), mode \in Modes, r \in Evidences :
           /\ at \in Stretch(l, mode) /\ Entry.mode = mode
           /\ logs' \in [Range(Levels) -> [preflight : Files, observe : Files]]
           /\ Log(l, mode)' = Append(Log(l, mode), r)
           /\ \A k \in Range(Levels), other \in Modes :
                (k = l /\ other = mode) \/ Log(k, other)' = Log(k, other)
           /\ r.step = Contents(mode)[at - Ahead(l, mode)].step
           /\ r.sample = Contents(mode)[at - Ahead(l, mode)].sample
           /\ r.level = l /\ r.shell = session.shell
           /\ r.before = probed /\ r.saw = host
           /\ r.usable => ~Deferred(r.step)
           /\ r.step = "range.probe" => probed # None
<1>1. producer \in {"contract", "dormant"} /\ host \in Hosts /\ at \in 1..(Len(Campaign) + 1)
      /\ EvidenceTypes
  BY DEF Basis, EvidenceTypes, Progress
<1>2. at \in 1..Len(Campaign)
  BY <1>1, Layout DEF Over, Observe
<1>3. PICK l \in Range(Levels), mode \in Modes :
        /\ at \in Stretch(l, mode) /\ Entry.level = l /\ Entry.mode = mode
        /\ Entry.step = Contents(mode)[at - Ahead(l, mode)].step
        /\ Entry.sample = Contents(mode)[at - Ahead(l, mode)].sample
  BY <1>1, <1>2, EntryIs
<1>4. session \in Sessions /\ (Entry.step = "range.probe" => probed # None)
      /\ (probed = None \/ probed \in Hosts)
  BY DEF Basis, EvidenceTypes, Observe
<1>5. Entry.step \in StepNames /\ Entry.sample \in Nat
  <2>1. Contents(mode) \in Seq(Steppings)
    <3>1. Contents("preflight") \in Seq(Steppings)
      BY PreflightIs
    <3>2. Contents("observe") \in Seq(Steppings)
      BY <1>1, ObserveIs
    <3> QED BY <3>1, <3>2 DEF Modes
  <2>2. at - Ahead(l, mode) \in 1..Len(Contents(mode))
    <3>1. Ahead(l, mode) \in Nat /\ Len(Contents(mode)) \in Nat
      BY <1>1, Apart
    <3> QED BY <1>3, <3>1 DEF Stretch
  <2> DEFINE i == at - Ahead(l, mode)
  <2>3. i \in 1..Len(Contents(mode)) /\ Entry.step = Contents(mode)[i].step
        /\ Entry.sample = Contents(mode)[i].sample
    BY <1>3, <2>2
  <2> DEFINE c == Contents(mode)
  <2>4. c \in Seq(Steppings) /\ i \in 1..Len(c)
    BY <2>1, <2>3
  <2> HIDE DEF i, c
  <2>5. c[i] \in Steppings
    BY <2>4
  <2>6. Contents(mode)[i] \in Steppings
    BY <2>5 DEF c
  <2> QED BY <2>3, <2>6 DEF Steppings
<1>6. Log(l, mode) \in Seq(Evidences)
  BY <1>1, FilesTyped
<1> DEFINE new(usable) == [step |-> Entry.step, sample |-> Entry.sample, usable |-> usable,
                           level |-> l, shell |-> session.shell, reference |-> session.reference,
                           declared |-> session.declared, before |-> probed, saw |-> host]
<1>7. PICK usable \in BOOLEAN : /\ usable => ~Deferred(Entry.step)
                                /\ logs' = [logs EXCEPT ![l][mode].log = Append(@, new(usable))]
  <2>1. PICK answered \in BOOLEAN :
          logs' = [logs EXCEPT ![l][mode].log = Append(@,
            [step |-> Entry.step, sample |-> Entry.sample,
             usable |-> /\ answered /\ ~Deferred(Entry.step)
                        /\ Entry.step = "manifest" => \A r \in Range(@) : r.usable,
             level |-> l, shell |-> session.shell,
             reference |-> session.reference, declared |-> session.declared,
             before |-> probed, saw |-> host])]
    BY <1>3 DEF Observe
  <2> DEFINE usable == /\ answered /\ ~Deferred(Entry.step)
                       /\ Entry.step = "manifest" => \A r \in Range(logs[l][mode].log) : r.usable
  <2>2. usable \in BOOLEAN /\ (usable => ~Deferred(Entry.step))
    OBVIOUS
  <2>3. logs' = [logs EXCEPT ![l][mode].log = Append(@, new(usable))]
    BY <2>1
  <2> HIDE DEF usable, new
  <2> QED BY <2>2, <2>3
<1>8. /\ new(usable) \in Evidences /\ new(usable).step = Entry.step
      /\ new(usable).sample = Entry.sample /\ (new(usable).usable <=> usable)
      /\ new(usable).level = l
      /\ new(usable).shell = session.shell /\ new(usable).before = probed
      /\ new(usable).saw = host
  BY <1>1, <1>4, <1>5 DEF Evidences, Sessions
<1> HIDE DEF new
<1>9. PICK r \in Evidences : r = new(usable)
  BY <1>8
<1>10. PICK log \in Seq(Evidences) : log = Append(Log(l, mode), r)
  <2> DEFINE old == Log(l, mode)
  <2>1. old \in Seq(Evidences)
    BY <1>6
  <2> HIDE DEF old
  <2>2. Append(old, r) \in Seq(Evidences)
    BY <1>9, <2>1
  <2> QED BY <2>2 DEF old
<1>11. logs' = [logs EXCEPT ![l][mode].log = log]
  BY <1>7, <1>9, <1>10 DEF Log
<1>12. /\ logs' \in [Range(Levels) -> [preflight : Files, observe : Files]]
       /\ Log(l, mode)' = log
       /\ \A k \in Range(Levels), other \in Modes :
            (k = l /\ other = mode) \/ Log(k, other)' = Log(k, other)
  <2>1. TRUE \in BOOLEAN
    OBVIOUS
  <2> QED BY <1>1, <1>11, <2>1, FileChanges
<1> QED BY <1>3, <1>4, <1>7, <1>8, <1>9, <1>10, <1>12

LEMMA ObserveBasis == Basis /\ Observe => Basis'
<1> SUFFICES ASSUME Basis, Observe PROVE Basis'
  OBVIOUS
<1>1. producer \in {"contract", "dormant"} /\ host \in Hosts /\ at \in 1..(Len(Campaign) + 1)
      /\ faults \in 0..Faults /\ (probed = None \/ probed \in Hosts) /\ session \in Sessions
  BY DEF Basis, EvidenceTypes, Progress, Observe
<1>2. /\ UNCHANGED <<producer, host, report>> /\ ~Over /\ session # Closed
      /\ probed' = None /\ at' = at + 1
      /\ session' = IF FileEnds THEN Closed ELSE session
  BY DEF Observe
<1>3. Len(Campaign) \in Nat /\ at \in 1..Len(Campaign)
  BY <1>1, <1>2, Layout DEF Over
<1>4. PICK l \in Range(Levels), mode \in Modes, r \in Evidences :
           /\ at \in Stretch(l, mode) /\ Entry.mode = mode
           /\ logs' \in [Range(Levels) -> [preflight : Files, observe : Files]]
           /\ Log(l, mode)' = Append(Log(l, mode), r)
           /\ \A k \in Range(Levels), other \in Modes :
                (k = l /\ other = mode) \/ Log(k, other)' = Log(k, other)
           /\ r.step = Contents(mode)[at - Ahead(l, mode)].step
           /\ r.sample = Contents(mode)[at - Ahead(l, mode)].sample
           /\ r.level = l /\ r.shell = session.shell
           /\ r.before = probed /\ r.saw = host
           /\ r.usable => ~Deferred(r.step)
           /\ r.step = "range.probe" => probed # None
  BY ObserveAdds
<1> DEFINE old == Log(l, mode)
           n == Len(old)
           a == Ahead(l, mode)
           x == Len(Contents(mode))
<1>5. a \in Nat /\ x \in Nat /\ a < at /\ at <= a + x /\ a + x <= Len(Campaign)
  <2>1. a \in Nat /\ x \in Nat /\ a + x <= Len(Campaign)
    BY <1>1, Apart
  <2> QED BY <1>1, <1>4, <2>1 DEF Stretch
<1>6. old \in Seq(Evidences) /\ n \in Nat /\ n = at - a - 1
  <2>1. old \in Seq(Evidences) /\ n \in Nat
    BY FilesTyped DEF Basis
  <2>2. FileHolds(l, mode)
    BY DEF Basis, Progress
  <2> QED BY <1>4, <2>1, <2>2 DEF FileHolds
<1>7. /\ Len(Log(l, mode)') = n + 1
      /\ \A i \in 1..n : Log(l, mode)'[i] = old[i]
      /\ Log(l, mode)'[n + 1] = r
  <2>1. Log(l, mode)' = Append(old, r)
    BY <1>4
  <2> HIDE DEF old
  <2>2. Len(Append(old, r)) = n + 1 /\ Append(old, r)[n + 1] = r
    BY <1>6
  <2>3. \A i \in 1..n : Append(old, r)[i] = old[i]
    BY <1>6
  <2> QED BY <2>1, <2>2, <2>3
<1>8. at = a + x \/ (Campaign[at + 1].mode = mode /\ at # Len(Campaign))
  <2>1. CASE at < a + x
    <3> DEFINE i == at + 1 - a
    <3>1. i \in 1..x /\ at + 1 = a + i
      BY <1>1, <1>5, <2>1
    <3> HIDE DEF i
    <3>2. Campaign[a + i].mode = mode
      BY <1>1, <3>1, CampaignIs
    <3> QED BY <1>1, <1>5, <2>1, <3>1, <3>2
  <2> QED BY <1>1, <1>5, <2>1
<1>9. session' = session \/ session' = Closed
  BY <1>2
<1>10. at < a + x => session' = session
  BY <1>2, <1>4, <1>5, <1>8 DEF FileEnds
<1>11. EvidenceTypes'
  <2>1. faults' \in 0..Faults
    <3>1. PICK answered \in BOOLEAN : Slip(IF answered THEN 0 ELSE 1)
      BY DEF Observe
    <3>2. faults' = faults \/ faults' = faults + 1
      BY <1>1, <3>1 DEF Slip
    <3> QED BY <1>1, <3>1, <3>2, ObserverAssumption DEF Slip
  <2> QED BY <1>1, <1>2, <1>4, <1>9, <2>1 DEF EvidenceTypes
<1>12. Progress'
  <2>1. ASSUME NEW k \in Range(Levels), NEW other \in Modes PROVE FileHolds(k, other)'
    <3>1. CASE k = l /\ other = mode
      <4>1. FileHolds(l, mode)
        BY DEF Basis, Progress
      <4>2. Contents(mode)' = Contents(mode) /\ Ahead(l, mode)' = a
            /\ Stretch(l, mode)' = (a + 1)..(a + x)
        BY <1>2, SamePlans DEF Stretch
      <4>3. ~(at' <= a) /\ n + 1 <= x /\ n + 1 = at' - a - 1
        BY <1>1, <1>2, <1>5, <1>6
      <4>4. at' \in (a + 1)..(a + x) => session' # Closed
        BY <1>1, <1>2, <1>5, <1>10
      <4>5. at - a = n + 1
        BY <1>1, <1>5, <1>6
      <4>6. ASSUME NEW i \in 1..(n + 1)
            PROVE  /\ Log(l, mode)'[i].level = l
                   /\ Log(l, mode)'[i].step = Contents(mode)[i].step
                   /\ Log(l, mode)'[i].sample = Contents(mode)[i].sample
        <5> HIDE DEF n, a, x
        <5>1. CASE i \in 1..n
          BY <1>7, <4>1, <5>1 DEF FileHolds, n
        <5>2. CASE i = n + 1
          BY <1>4, <1>7, <4>5, <5>2 DEF a
        <5> QED BY <1>6, <5>1, <5>2
      <4>7. /\ Len(Log(l, mode)') <= Len(Contents(mode))
            /\ \A i \in 1..Len(Log(l, mode)') :
                 /\ Log(l, mode)'[i].level = l
                 /\ Log(l, mode)'[i].step = Contents(mode)[i].step
                 /\ Log(l, mode)'[i].sample = Contents(mode)[i].sample
        BY <1>7, <4>3, <4>6
      <4>8. at' \in (a + 1)..(a + x) => Len(Log(l, mode)') = at' - a - 1
        BY <1>7, <4>3
      <4> HIDE DEF a, x, n, old
      <4> QED BY <3>1, <4>2, <4>3, <4>4, <4>7, <4>8 DEF FileHolds
    <3>2. CASE ~(k = l /\ other = mode)
      <4>1. at' \in Nat
        BY <1>1, <1>2
      <4>2. Log(k, other)' = Log(k, other)
        BY <1>4, <3>2
      <4> QED BY <1>2, <1>4, <3>2, <4>1, <4>2, OthersHold
    <3> QED BY <3>1, <3>2
  <2>2. at' \in 1..(Len(Campaign) + 1) /\ Campaign' = Campaign
    BY <1>2, <1>3, SamePlans
  <2> QED BY <2>1, <2>2 DEF Progress
<1>13. RecordsHold'
  <2>1. ASSUME NEW k \in Range(Levels), NEW other \in Modes, NEW i \in 1..Len(Log(k, other)),
               Log(k, other)'[i] = Log(k, other)[i],
               \A j \in 1..(i - 1) : Log(k, other)'[j] = Log(k, other)[j]
        PROVE  RecordHolds(k, other, i)'
    <3>1. RecordHolds(k, other, i)
      BY DEF Basis, RecordsHold
    <3> DEFINE o == Log(k, other)[i]
    <3>2. o' = o
      BY <2>1
    <3>3. Deferred(o.step)' = Deferred(o.step)
      BY <1>2, <3>2 DEF Deferred
    <3> HIDE DEF o
    <3> QED BY <1>2, <2>1, <3>1, <3>2, <3>3 DEF RecordHolds, o
  <2>2. PICK m \in Nat : m = n + 1
    BY <1>6
  <2>3. RecordHolds(l, mode, m)'
    <3>1. r.saw.home = Disposed /\ (r.saw.held => r.saw.live)
      BY <1>2, <1>4 DEF Basis, HostHolds
    <3>2. mode = "observe" => r.saw.codex = r.shell
      BY <1>2, <1>4 DEF Basis, HostHolds
    <3>3. NoLater(r.saw, host)
      BY <1>1, <1>4 DEF NoLater, Hosts
    <3>4. r.step = "range.probe" => r.before \in Hosts /\ NoLater(r.before, r.saw)
      BY <1>1, <1>4 DEF Basis, HostHolds
    <3>5. ASSUME NEW j \in 1..(m - 1)
          PROVE  /\ Log(l, mode)'[j] = Log(l, mode)[j]
                 /\ NoLater(Log(l, mode)[j].saw, r.saw)
                 /\ r.step = "range.probe" => NoLater(Log(l, mode)[j].saw, r.before)
      <4>1. j \in 1..n
        BY <1>6, <2>2
      <4>2. RecordHolds(l, mode, j)
        BY <4>1 DEF Basis, RecordsHold
      <4>3. NoLater(Log(l, mode)[j].saw, r.saw)
        BY <1>4, <4>2 DEF RecordHolds
      <4>4. r.step = "range.probe" => NoLater(Log(l, mode)[j].saw, r.before)
        BY <1>4, <4>2 DEF RecordHolds
      <4> QED BY <1>7, <4>1, <4>3, <4>4
    <3> DEFINE o == Log(l, mode)[m]
    <3>6. o' = r
      BY <1>7, <2>2
    <3>7. Deferred(o.step)' = Deferred(r.step)
      BY <1>2, <3>6 DEF Deferred
    <3>8. r.usable => ~Deferred(r.step)
      BY <1>4
    <3> HIDE DEF o
    <3> QED BY <1>2, <3>1, <3>2, <3>3, <3>4, <3>5, <3>6, <3>7, <3>8 DEF RecordHolds, o
  <2> SUFFICES ASSUME NEW k \in Range(Levels), NEW other \in Modes,
                      NEW i \in 1..Len(Log(k, other)')
               PROVE  RecordHolds(k, other, i)'
    BY DEF RecordsHold
  <2>4. CASE k = l /\ other = mode
    <3>1. i \in 1..n \/ i = m
      BY <1>6, <1>7, <2>2, <2>4
    <3>2. CASE i \in 1..n
      <4>1. i \in 1..Len(Log(k, other)) /\ Log(k, other)'[i] = Log(k, other)[i]
        BY <1>7, <2>4, <3>2
      <4>2. \A j \in 1..(i - 1) : Log(k, other)'[j] = Log(k, other)[j]
        BY <1>6, <1>7, <2>4, <3>2
      <4> QED BY <2>1, <4>1, <4>2
    <3> QED BY <2>3, <2>4, <3>1, <3>2
  <2>5. CASE ~(k = l /\ other = mode)
    <3>1. Log(k, other)' = Log(k, other)
      BY <1>4, <2>5
    <3>2. i \in 1..Len(Log(k, other)) /\ Log(k, other)'[i] = Log(k, other)[i]
          /\ \A j \in 1..(i - 1) : Log(k, other)'[j] = Log(k, other)[j]
      BY <3>1
    <3> QED BY <2>1, <3>2
  <2> QED BY <2>4, <2>5
<1>14. HostHolds'
  <2>1. CASE session' = Closed
    BY <1>2, <2>1 DEF Basis, HostHolds
  <2>2. CASE session' # Closed
    <3>1. session' = session /\ Campaign[at + 1].mode = Entry.mode
      BY <1>2, <2>2 DEF FileEnds
    <3>2. Entry' = Campaign[at + 1]
      BY <1>2, SamePlans DEF Entry
    <3> QED BY <1>2, <3>1, <3>2 DEF Basis, HostHolds
  <2> QED BY <2>1, <2>2
<1> QED BY <1>11, <1>12, <1>13, <1>14 DEF Basis

-----------------------------------------------------------------------------
(* What the evaluator is given.                                            *)

\* The record that it finds is one of the file's.
LEMMA FindIs ==
  ASSUME NEW log \in Seq(Evidences), NEW step, NEW sample
  PROVE  \/ /\ Find(log, step, sample) = None
            /\ \A i \in 1..Len(log) : ~(log[i].step = step /\ log[i].sample = sample)
         \/ \E i \in 1..Len(log) : /\ Find(log, step, sample) = log[i]
                                   /\ log[i].step = step /\ log[i].sample = sample
<1> DEFINE found == {i \in DOMAIN log : log[i].step = step /\ log[i].sample = sample}
<1>1. Find(log, step, sample) = IF found = {} THEN None ELSE log[Min(found)]
  BY DEF Find
<1>2. DOMAIN log = 1..Len(log) /\ Len(log) \in Nat
  OBVIOUS
<1>3. CASE found = {}
  BY <1>1, <1>2, <1>3
<1>4. CASE found # {}
  <2>1. IsWellFoundedOn(OpToRel(<, Nat), Nat)
    BY NatLessThanWellFounded
  <2>2. found \subseteq Nat
    BY <1>2
  <2>3. PICK m \in found : \A k \in found : <<k, m>> \notin OpToRel(<, Nat)
    <3> HIDE DEF found
    <3> QED BY <1>4, <2>1, <2>2, WFMin
  <2> HIDE DEF found
  <2>4. \A k \in found : m <= k
    <3> SUFFICES ASSUME NEW k \in found PROVE m <= k
      OBVIOUS
    <3>1. k \in Nat /\ m \in Nat
      BY <2>2
    <3>2. ~(k < m)
      BY <2>3, <3>1 DEF OpToRel
    <3> QED BY <3>1, <3>2
  <2>5. Min(found) \in found
    BY <2>4 DEF Min
  <2>6. Find(log, step, sample) = log[Min(found)]
    BY <1>1, <1>4
  <2> QED BY <1>2, <2>5, <2>6 DEF found
<1> QED BY <1>3, <1>4

Given(l, baseline) ==
  [level |-> l, baseline |-> baseline, preflight |-> logs[l].preflight, observe |-> logs[l].observe]

LEMMA GivenIs ==
  ASSUME NEW l, NEW baseline
  PROVE  LET e == Given(l, baseline) IN
         /\ e.level = l /\ e.baseline = baseline
         /\ e.preflight = logs[l].preflight /\ e.observe = logs[l].observe
         /\ e.preflight.log = Log(l, "preflight") /\ e.observe.log = Log(l, "observe")
         /\ \A mode \in Modes : e[mode] = logs[l][mode] /\ e[mode].log = Log(l, mode)
<1>1. logs[l]["preflight"] = logs[l].preflight /\ logs[l]["observe"] = logs[l].observe
  OBVIOUS
<1> QED BY <1>1 DEF Given, Log, Modes

\* A record and its place in the plan.
LEMMA RecordIs ==
  ASSUME Basis, NEW l \in Range(Levels), NEW mode \in Modes, NEW i \in 1..Len(Log(l, mode))
  PROVE  LET r == Log(l, mode)[i] IN
         /\ i \in 1..Len(Contents(mode))
         /\ r \in Range(logs[l][mode].log) /\ r \in Evidences
         /\ r.level = l /\ r.step = Contents(mode)[i].step /\ r.sample = Contents(mode)[i].sample
         /\ RecordHolds(l, mode, i)
<1>1. FileHolds(l, mode) /\ EvidenceTypes /\ RecordHolds(l, mode, i)
  BY DEF Basis, Progress, RecordsHold
<1>2. Len(Contents(mode)) \in Nat
  BY Apart DEF Basis, EvidenceTypes
<1>3. DOMAIN Log(l, mode) = 1..Len(Log(l, mode)) /\ Log(l, mode)[i] \in Evidences
      /\ Len(Log(l, mode)) \in Nat
  BY <1>1, FilesTyped
<1>4. Log(l, mode)[i] \in Range(logs[l][mode].log)
  BY <1>3 DEF Range, Log
<1>5. i \in 1..Len(Contents(mode))
  BY <1>1, <1>2, <1>3 DEF FileHolds
<1> QED BY <1>1, <1>3, <1>4, <1>5 DEF FileHolds

\* A measured record.
LEMMA MeasuredIs ==
  ASSUME Basis, NEW l \in Range(Levels), NEW mode \in Modes, NEW step, NEW sample,
         Measured(Log(l, mode), step, sample)
  PROVE  \E i \in 1..Len(Log(l, mode)) :
           /\ Find(Log(l, mode), step, sample) = Log(l, mode)[i]
           /\ Log(l, mode)[i].step = step /\ Log(l, mode)[i].sample = sample
           /\ Log(l, mode)[i].usable
<1>1. Log(l, mode) \in Seq(Evidences)
  BY FilesTyped DEF Basis
<1>2. Find(Log(l, mode), step, sample) # None
  BY DEF Measured, None
<1> QED BY <1>1, <1>2, FindIs DEF Measured

\* Where the fixed steps of the files stand.
LEMMA PreflightPlaces ==
  ASSUME NEW i \in 1..7
  PROVE  /\ Contents("preflight")[i].step = "harness" => i = 1
         /\ Contents("preflight")[i].step = "token.self" => i = 2
         /\ Contents("preflight")[i].step = "binary.sha256" => i = 3
         /\ Contents("preflight")[i].step = "home.isolated" => i = 5
         /\ Contents("preflight")[i].step = "binary.version" => i = 6
         /\ Contents("preflight")[i].step = "manifest" => i = 7
         /\ Contents("preflight")[i].step = "home.identity" => FALSE
<1>1. i = 1 \/ i = 2 \/ i = 3 \/ i = 4 \/ i = 5 \/ i = 6 \/ i = 7
  OBVIOUS
<1>2. Contents("preflight")[i].step = PreflightSteps[i]
  BY PreflightIs
<1>3. /\ PreflightSteps[1] = "harness" /\ PreflightSteps[2] = "token.self"
      /\ PreflightSteps[3] = "binary.sha256" /\ PreflightSteps[4] = "host.facts"
      /\ PreflightSteps[5] = "home.isolated" /\ PreflightSteps[6] = "binary.version"
      /\ PreflightSteps[7] = "manifest"
  BY DEF PreflightSteps
<1> QED BY <1>1, <1>2, <1>3

LEMMA ObservePlaces ==
  ASSUME producer \in {"contract", "dormant"}, NEW i \in 1..Len(Contents("observe"))
  PROVE  /\ Contents("observe")[i].step = "harness" <=> i = 1
         /\ Contents("observe")[i].step = "token.self" => i = 2
         /\ Contents("observe")[i].step = "home.identity" => i = 3
         /\ Contents("observe")[i].step = "run" => i = 4
         /\ Contents("observe")[i].step = "process.identity" => i = 5
         /\ Contents("observe")[i].step = "process.identity_after" => i = Len(Contents("observe"))
         /\ Contents("observe")[i].step = "home.isolated" => FALSE
         /\ i \in 6..(Len(Contents("observe")) - 1) => Contents("observe")[i].step \in Sampled
         /\ Contents("observe")[i].step \in Sampled => i > 5 /\ i < Len(Contents("observe"))
<1> DEFINE n == Len(Contents("observe"))
           c == Contents("observe")[i].step
           first == <<"harness", "token.self", "home.identity", "run", "process.identity">>
<1>1. Samples \in Nat /\ n = 10 * Samples + 6
  BY ObserveIs, ObserverAssumption
<1>2. n \in Nat /\ n - 1 = 10 * Samples + 5 /\ n >= 6
  BY <1>1
<1>3. /\ \A j \in 1..5 : Contents("observe")[j].step = first[j]
      /\ \A j \in 6..(n - 1) : Contents("observe")[j].step \in Sampled
      /\ Contents("observe")[n].step = "process.identity_after"
  BY <1>1, <1>2, ObserveIs
<1>4. i \in Nat /\ i <= n /\ (i \in 1..5 \/ i \in 6..(n - 1) \/ i = n)
  BY <1>2
<1> HIDE DEF n
<1>5. first[1] = "harness" /\ first[2] = "token.self" /\ first[3] = "home.identity"
      /\ first[4] = "run" /\ first[5] = "process.identity"
  OBVIOUS
<1>6. \/ (c = "harness" /\ i = 1) \/ (c = "token.self" /\ i = 2)
      \/ (c = "home.identity" /\ i = 3) \/ (c = "run" /\ i = 4)
      \/ (c = "process.identity" /\ i = 5)
      \/ (c \in Sampled /\ i > 5 /\ i < n) \/ (c = "process.identity_after" /\ i = n)
  <2>1. CASE i \in 1..5
    <3>1. i = 1 \/ i = 2 \/ i = 3 \/ i = 4 \/ i = 5
      BY <2>1
    <3>2. c = first[i]
      BY <1>3, <2>1
    <3> QED BY <1>5, <3>1, <3>2
  <2>2. CASE i \in 6..(n - 1)
    BY <1>2, <1>3, <2>2
  <2>3. CASE i = n
    BY <1>3, <2>3
  <2> QED BY <1>4, <2>1, <2>2, <2>3
<1> HIDE DEF c
<1>7. /\ (c = "harness" <=> i = 1) /\ (c = "token.self" => i = 2)
      /\ (c = "home.identity" => i = 3) /\ (c = "run" => i = 4)
      /\ (c = "process.identity" => i = 5) /\ (c = "process.identity_after" => i = n)
      /\ c # "home.isolated"
      /\ (c \in Sampled => i > 5 /\ i < n)
  BY <1>2, <1>4, <1>6, StepsAre
<1>8. i \in 6..(n - 1) => c \in Sampled
  BY <1>3 DEF c
<1> QED BY <1>7, <1>8 DEF c, n

-----------------------------------------------------------------------------
(* The rows and their verdicts.                                            *)

LEMMA RowIs ==
  ASSUME NEW id, NEW row \in Expectations, row.id = id
  PROVE  RowOf(id) \in Expectations /\ RowOf(id).id = id
BY DEF RowOf

\* The rows that the theorems speak of.
LEMMA TheRows ==
  /\ RowOf("PF-harness") = Row("PF-harness", "preflight", "harness", "harnessBaseline", TRUE)
  /\ RowOf("OB-harness") = Row("OB-harness", "observe", "harness", "harnessMatchesManifest", TRUE)
  /\ RowOf("OB-home") = Row("OB-home", "observe", "home.identity", "homeMatchesManifest", FALSE)
  /\ RowOf("OB-run") = Row("OB-run", "observe", "run", "runControl", TRUE)
  /\ RowOf("OB-openers") = Row("OB-openers", "observe", "openers.rm", "openersRm", TRUE)
  /\ RowOf("OB-range-guard") = Row("OB-range-guard", "observe", "range.probe", "rangeGuardBinding", FALSE)
  /\ RowOf("OB-thread-stable") = Row("OB-thread-stable", "observe", "thread.identity_after", "threadStable", FALSE)
  /\ RowOf("OB-coordination-range") =
       Row("OB-coordination-range", "observe", "coordination.range", "unmeasurable", FALSE)
<1> DEFINE Only(id, x) == x \in Expectations /\ x.id = id /\ \A y \in Expectations : y.id = id => y = x
<1>0. ASSUME NEW id, NEW x, Only(id, x) PROVE RowOf(id) = x
  BY <1>0 DEF RowOf
<1>1. Only("PF-harness", Row("PF-harness", "preflight", "harness", "harnessBaseline", TRUE))
  BY DEF Expectations, Row
<1>2. Only("OB-harness", Row("OB-harness", "observe", "harness", "harnessMatchesManifest", TRUE))
  BY DEF Expectations, Row
<1>3. Only("OB-home", Row("OB-home", "observe", "home.identity", "homeMatchesManifest", FALSE))
  BY DEF Expectations, Row
<1>4. Only("OB-run", Row("OB-run", "observe", "run", "runControl", TRUE))
  BY DEF Expectations, Row
<1>5. Only("OB-openers", Row("OB-openers", "observe", "openers.rm", "openersRm", TRUE))
  BY DEF Expectations, Row
<1>6. Only("OB-range-guard", Row("OB-range-guard", "observe", "range.probe", "rangeGuardBinding", FALSE))
  BY DEF Expectations, Row
<1>7. Only("OB-thread-stable",
           Row("OB-thread-stable", "observe", "thread.identity_after", "threadStable", FALSE))
  BY DEF Expectations, Row
<1>8. Only("OB-coordination-range",
           Row("OB-coordination-range", "observe", "coordination.range", "unmeasurable", FALSE))
  BY DEF Expectations, Row
<1> HIDE DEF Only
<1> QED BY <1>0, <1>1, <1>2, <1>3, <1>4, <1>5, <1>6, <1>7, <1>8

Indices(row) == IF row.step \in Sampled THEN 1..Samples ELSE {0}

\* What a row's verdict says of its records.
LEMMA VerdictIs ==
  ASSUME NEW row, NEW e, NEW files
  PROVE  LET v == RowVerdict(row, e, files)
             r(s) == Find(e[row.mode].log, row.step, s)
         IN /\ v \in {"unknown", "mismatch", "match"}
            /\ row.check = "unmeasurable" => v = "unknown"
            /\ v = "match" =>
                 /\ row.mode \in files /\ (row.step \in Sampled => RunUsable(e))
                 /\ \A s \in Indices(row) :
                      r(s).usable /\ Derive(row.check, r(s), e) \notin {"unknown", "mismatch"}
            /\ v = "mismatch" =>
                 /\ row.check # "unmeasurable"
                 /\ row.mode \in files /\ (row.step \in Sampled => RunUsable(e))
                 /\ \E s \in Indices(row) :
                      r(s).usable /\ Derive(row.check, r(s), e) = "mismatch"
<1> DEFINE v == RowVerdict(row, e, files)
           r(s) == Find(e[row.mode].log, row.step, s)
           verdicts == {Judge(row, r(s), e) : s \in Indices(row)}
<1>1. v = IF \/ row.check = "unmeasurable" \/ row.mode \notin files
             \/ (row.step \in Sampled /\ ~RunUsable(e))
          THEN "unknown"
          ELSE Verdict("mismatch" \notin verdicts /\ "unknown" \in verdicts,
                       "mismatch" \in verdicts)
  BY DEF RowVerdict, Indices
<1>2. \A s : Judge(row, r(s), e) \notin {"unknown", "mismatch"} =>
         r(s).usable /\ Derive(row.check, r(s), e) \notin {"unknown", "mismatch"}
  BY DEF Judge
<1>3. \A s : Judge(row, r(s), e) = "mismatch" =>
         r(s).usable /\ Derive(row.check, r(s), e) = "mismatch"
  BY DEF Judge
<1>4. \A s \in Indices(row) : Judge(row, r(s), e) \in verdicts
  OBVIOUS
<1>5. \A x \in verdicts : \E s \in Indices(row) : x = Judge(row, r(s), e)
  OBVIOUS
<1> HIDE DEF v, r, verdicts
<1>6. v \in {"unknown", "mismatch", "match"} /\ (row.check = "unmeasurable" => v = "unknown")
  BY <1>1 DEF Verdict
<1>7. v = "match" =>
                 /\ row.mode \in files /\ (row.step \in Sampled => RunUsable(e))
                 /\ \A s \in Indices(row) :
                      r(s).usable /\ Derive(row.check, r(s), e) \notin {"unknown", "mismatch"}
  <2> SUFFICES ASSUME v = "match"
               PROVE  /\ row.mode \in files /\ (row.step \in Sampled => RunUsable(e))
                      /\ "mismatch" \notin verdicts /\ "unknown" \notin verdicts
    BY <1>2, <1>4
  <2> QED BY <1>1 DEF Verdict
<1>8. v = "mismatch" =>
                 /\ row.check # "unmeasurable"
                 /\ row.mode \in files /\ (row.step \in Sampled => RunUsable(e))
                 /\ \E s \in Indices(row) :
                      r(s).usable /\ Derive(row.check, r(s), e) = "mismatch"
  <2> SUFFICES ASSUME v = "mismatch"
               PROVE  /\ row.check # "unmeasurable"
                      /\ row.mode \in files /\ (row.step \in Sampled => RunUsable(e))
                      /\ "mismatch" \in verdicts
    BY <1>3, <1>5
  <2> QED BY <1>1 DEF Verdict
<1> QED BY <1>6, <1>7, <1>8 DEF v, r

\* The verdicts are of the rows' identifiers.
LEMMA VerdictsAre ==
  ASSUME NEW e, NEW row \in Expectations
  PROVE  Verdicts(e)[row.id] = RowVerdict(RowOf(row.id), e, UsableFiles(e))
BY DEF Verdicts

\* A W7 gate never passes, and fails for a mismatch.
LEMMA GateNever ==
  ASSUME NEW e
  PROVE  LET s == Summary(e) IN
         /\ s.level = e.level /\ s.rows = Verdicts(e) /\ s.w7 \in {"fail", "unknown"}
         /\ s.w7 = "fail" => \E row \in Expectations : s.rows[row.id] = "mismatch"
         /\ s.sound = RunSound(e)
         /\ s.provenance # "unvalidated" =>
              RunSound(e) /\ \A id \in ProvenanceRows : s.rows[id] = "match"
<1> DEFINE s == Summary(e)
           v == Verdicts(e)
           ids == {row.id : row \in Expectations}
<1>1. /\ s.level = e.level /\ s.rows = v /\ s.w7 = GateOf(v, RunSound(e))
      /\ s.sound = RunSound(e)
      /\ s.provenance = IF RunSound(e) /\ \A id \in ProvenanceRows : v[id] = "match"
                        THEN "validated" ELSE "unvalidated"
  BY DEF Summary
<1>2. v = [id \in ids |-> RowVerdict(RowOf(id), e, UsableFiles(e))]
  BY DEF Verdicts
<1>3. Row("OB-coordination-range", "observe", "coordination.range", "unmeasurable", FALSE)
        \in Expectations
  BY DEF Expectations
<1>4. "OB-coordination-range" \in ids
  BY <1>3 DEF Row
<1>5. v["OB-coordination-range"] = "unknown"
  <2>1. RowOf("OB-coordination-range").check = "unmeasurable"
    BY TheRows DEF Row
  <2>2. RowVerdict(RowOf("OB-coordination-range"), e, UsableFiles(e)) = "unknown"
    BY <2>1, VerdictIs
  <2> HIDE DEF v, ids
  <2> QED BY <1>2, <1>4, <2>2
<1> HIDE DEF v, s
<1>6. "unknown" \in Range(v)
  BY <1>2, <1>4, <1>5 DEF Range
<1>7. s.w7 \in {"fail", "unknown"}
  BY <1>1, <1>6 DEF GateOf
<1>8. s.w7 = "fail" => \E row \in Expectations : v[row.id] = "mismatch"
  <2> SUFFICES ASSUME s.w7 = "fail" PROVE \E row \in Expectations : v[row.id] = "mismatch"
    OBVIOUS
  <2>1. "mismatch" \in Range(v)
    BY <1>1 DEF GateOf
  <2>2. PICK id \in ids : v[id] = "mismatch"
    BY <1>2, <2>1 DEF Range
  <2> QED BY <2>2
<1> QED BY <1>1, <1>7, <1>8 DEF s, v

\* What a pair's status says of the two levels.
LEMMA PairIs ==
  ASSUME NEW m, NEW h, NEW me, NEW he, NEW explained
  PROVE  LET st == PairStatus(m, h, me, he, explained) IN
         /\ st \in {"compared", "fail", "unknown"}
         /\ st = "fail" => \E row \in Expectations : "mismatch" \in {m.rows[row.id], h.rows[row.id]}
         /\ st = "compared" =>
              /\ m.sound /\ h.sound
              /\ m.provenance # "unvalidated" /\ h.provenance # "unvalidated"
              /\ \A s \in {m, h} : s.rows["OB-openers"] \notin {"mismatch", "unknown"}
<1> DEFINE st == PairStatus(m, h, me, he, explained)
           failed == {id \in W6Rows \cup ProvenanceRows : "mismatch" \in {m.rows[id], h.rows[id]}}
           unknown == {id \in W6Rows : "unknown" \in {m.rows[id], h.rows[id]}}
           different == {id \in W6Rows :
             \/ m.rows[id] # h.rows[id] \/ Values(me, id) # Values(he, id)}
<1>1. st = IF failed # {} THEN "fail"
           ELSE IF \/ ~m.sound \/ ~h.sound \/ ~m.sameLevel \/ ~h.sameLevel
                   \/ "unvalidated" \in {m.provenance, h.provenance}
                   \/ unknown # {} \/ (different # {} /\ ~explained)
           THEN "unknown"
           ELSE "compared"
  BY DEF PairStatus
<1> DEFINE opener == Row("OB-openers", "observe", "openers.rm", "openersRm", TRUE)
<1>2. opener \in Expectations /\ opener.id = "OB-openers" /\ opener.w6
  BY DEF Expectations, Row
<1>3. "OB-openers" \in W6Rows
  <2> HIDE DEF opener
  <2> QED BY <1>2 DEF W6Rows
<1>4. ASSUME NEW id \in W6Rows \cup ProvenanceRows PROVE \E row \in Expectations : row.id = id
  <2>1. CASE id \in W6Rows
    BY <2>1 DEF W6Rows
  <2>2. CASE id \in ProvenanceRows
    BY <2>2 DEF ProvenanceRows, Expectations, Row
  <2> QED BY <2>1, <2>2
<1>5. failed # {} => \E row \in Expectations : "mismatch" \in {m.rows[row.id], h.rows[row.id]}
  <2> SUFFICES ASSUME NEW id \in failed
               PROVE  \E row \in Expectations : "mismatch" \in {m.rows[row.id], h.rows[row.id]}
    OBVIOUS
  <2>1. PICK row \in Expectations : row.id = id
    BY <1>4
  <2> QED BY <2>1
<1>6. failed = {} /\ unknown = {} =>
        \A s \in {m, h} : s.rows["OB-openers"] \notin {"mismatch", "unknown"}
  BY <1>3
<1> HIDE DEF failed, unknown, different, st, opener
<1> QED BY <1>1, <1>5, <1>6 DEF st

-----------------------------------------------------------------------------
(* A sound run.                                                            *)

LEMMA LabelIs ==
  ASSUME Basis, NEW l \in Range(Levels), NEW mode \in Modes, FileLabel(Log(l, mode)) # "none"
  PROVE  /\ FileLabel(Log(l, mode)) = l /\ Log(l, mode) # <<>> /\ 1 \in 1..Len(Log(l, mode))
         /\ \A i \in 1..Len(Log(l, mode)) :
              Log(l, mode)[i].shell = Log(l, mode)[1].shell /\ LevelOf(Log(l, mode)[i].shell) = l
<1> DEFINE log == Log(l, mode)
<1>1. log \in Seq(Evidences) /\ Len(log) \in Nat
  BY FilesTyped DEF Basis
<1>2. \A i \in 1..Len(log) : log[i].level = l
  BY RecordIs
<1> HIDE DEF log
<1>3. /\ log # <<>> /\ FileLabel(log) = log[1].level
      /\ \A r \in Range(log) : r.shell = log[1].shell /\ r.level = LevelOf(r.shell)
  BY DEF FileLabel, log
<1>4. 1 \in 1..Len(log)
  BY <1>1, <1>3
<1>5. \A i \in 1..Len(log) : log[i] \in Range(log)
  BY <1>1 DEF Range
<1> QED BY <1>2, <1>3, <1>4, <1>5 DEF log

LEMMA RunLabelIs ==
  ASSUME Basis, NEW l \in Range(Levels), NEW baseline, RunLabel(Given(l, baseline)) # "none"
  PROVE  /\ RunLabel(Given(l, baseline)) = l
         /\ \A mode \in Modes : FileLabel(Log(l, mode)) # "none"
<1> DEFINE e == Given(l, baseline)
<1>1. e.preflight.log = Log(l, "preflight") /\ e.observe.log = Log(l, "observe")
  BY GivenIs
<1> HIDE DEF e
<1>2. /\ RunLabel(e) = FileLabel(Log(l, "preflight"))
      /\ FileLabel(Log(l, "preflight")) = FileLabel(Log(l, "observe"))
  BY <1>1 DEF RunLabel, e
<1>3. FileLabel(Log(l, "preflight")) = l
  BY <1>2, LabelIs DEF Modes, e
<1> QED BY <1>2, <1>3 DEF e, Modes

LEMMA FoundAt ==
  ASSUME Basis, NEW l \in Range(Levels), NEW mode \in Modes, NEW p \in 1..Len(Log(l, mode)),
         NEW step, Log(l, mode)[p].step = step, Log(l, mode)[p].sample = 0,
         \A i \in 1..Len(Contents(mode)) : Contents(mode)[i].step = step => i = p
  PROVE  Find(Log(l, mode), step, 0) = Log(l, mode)[p]
<1>1. Log(l, mode) \in Seq(Evidences)
  BY FilesTyped DEF Basis
<1>2. PICK i \in 1..Len(Log(l, mode)) : /\ Find(Log(l, mode), step, 0) = Log(l, mode)[i]
                                        /\ Log(l, mode)[i].step = step
  BY <1>1, FindIs
<1>3. i \in 1..Len(Contents(mode)) /\ Contents(mode)[i].step = step
  BY <1>2, RecordIs
<1> QED BY <1>2, <1>3

\* A manifest is the last of seven records.
LEMMA PlacedIs ==
  ASSUME Basis, NEW l \in Range(Levels), ManifestPlaced(Log(l, "preflight"))
  PROVE  /\ Len(Log(l, "preflight")) = 7
         /\ Find(Log(l, "preflight"), "harness", 0) = Log(l, "preflight")[1]
         /\ Find(Log(l, "preflight"), "home.isolated", 0) = Log(l, "preflight")[5]
<1> DEFINE log == Log(l, "preflight")
           n == Len(log)
<1>1. log \in Seq(Evidences) /\ n \in Nat /\ "preflight" \in Modes
  BY FilesTyped DEF Basis, Modes
<1>2. log # <<>> /\ Last(log).step = "manifest"
  BY DEF ManifestPlaced
<1>3. n \in 1..n /\ log[n].step = "manifest"
  <2> HIDE DEF log
  <2>1. n > 0
    BY <1>1, <1>2
  <2> QED BY <1>1, <1>2, <2>1 DEF Last
<1>4. Len(Contents("preflight")) = 7
  BY PreflightIs
<1>5. n \in 1..7 /\ Contents("preflight")[n].step = "manifest"
  BY <1>1, <1>3, <1>4, RecordIs
<1>6. n = 7
  BY <1>5, PreflightPlaces
<1>7. /\ PreflightSteps[1] = "harness" /\ PreflightSteps[5] = "home.isolated"
  BY DEF PreflightSteps
<1>8. ASSUME NEW p \in {1, 5}
      PROVE  p \in 1..n /\ log[p].step = PreflightSteps[p] /\ log[p].sample = 0
  <2>1. p \in 1..n /\ p \in 1..7
    BY <1>6
  <2>2. log[p].step = Contents("preflight")[p].step /\ log[p].sample = Contents("preflight")[p].sample
    BY <1>1, <2>1, RecordIs
  <2> QED BY <2>1, <2>2, PreflightIs
<1>9. Find(log, "harness", 0) = log[1]
  <2>1. 1 \in 1..n /\ log[1].step = "harness" /\ log[1].sample = 0
    BY <1>7, <1>8
  <2>2. \A i \in 1..Len(Contents("preflight")) : Contents("preflight")[i].step = "harness" => i = 1
    BY <1>4, PreflightPlaces
  <2> QED BY <1>1, <2>1, <2>2, FoundAt
<1>10. Find(log, "home.isolated", 0) = log[5]
  <2>1. 5 \in 1..n /\ log[5].step = "home.isolated" /\ log[5].sample = 0
    BY <1>7, <1>8
  <2>2. \A i \in 1..Len(Contents("preflight")) : Contents("preflight")[i].step = "home.isolated" => i = 5
    BY <1>4, PreflightPlaces
  <2> QED BY <1>1, <2>1, <2>2, FoundAt
<1> QED BY <1>6, <1>9, <1>10

LEMMA LevelLength ==
  ASSUME producer \in {"contract", "dormant"}, NEW l \in Range(Levels)
  PROVE  Len(LevelEntries(producer, l)) = 7 + Len(Contents("observe"))
<1> DEFINE p == Entries(l, "preflight", Contents("preflight"))
           q == Entries(l, "observe", Contents("observe"))
<1>1. LevelEntries(producer, l) = p \o q
  BY DEF LevelEntries, Contents
<1>2. /\ Contents("preflight") \in Seq(Steppings) /\ Len(Contents("preflight")) = 7
      /\ Contents("observe") \in Seq(Steppings) /\ Len(Contents("observe")) \in Nat
  BY PreflightIs, ObserveIs, Layout
<1>3. p \in Seq(Planned4) /\ Len(p) = 7
  <2>1. "preflight" \in Modes /\ Contents("preflight") \in Seq(Steppings)
    BY <1>2 DEF Modes
  <2> QED BY <1>2, <2>1, EntriesAre
<1>4. q \in Seq(Planned4) /\ Len(q) = Len(Contents("observe"))
  <2>1. "observe" \in Modes /\ Contents("observe") \in Seq(Steppings)
    BY <1>2 DEF Modes
  <2> QED BY <2>1, EntriesAre
<1> HIDE DEF p, q
<1>5. Len(p \o q) = Len(p) + Len(q)
  BY <1>3, <1>4, ConcatProperties
<1> QED BY <1>1, <1>3, <1>4, <1>5

\* A row that matches, of a step that comes once.
LEMMA MatchIs ==
  ASSUME NEW l, NEW baseline, NEW id, NEW row \in Expectations, row.id = id, RowOf(id) = row,
         row.mode \in Modes,
         Verdicts(Given(l, baseline))[id] = "match"
  PROVE  /\ row.mode \in UsableFiles(Given(l, baseline))
         /\ row.step \in Sampled => RunUsable(Given(l, baseline))
         /\ \A s \in Indices(row) :
              LET r == Find(Log(l, row.mode), row.step, s)
              IN r.usable /\ Derive(row.check, r, Given(l, baseline)) \notin {"unknown", "mismatch"}
<1> DEFINE e == Given(l, baseline)
<1>1. e[row.mode].log = Log(l, row.mode)
  BY GivenIs
<1> HIDE DEF e
<1>2. RowVerdict(row, e, UsableFiles(e)) = "match"
  BY VerdictsAre DEF e
<1>3. /\ row.mode \in UsableFiles(e) /\ (row.step \in Sampled => RunUsable(e))
      /\ \A s \in Indices(row) :
           /\ Find(e[row.mode].log, row.step, s).usable
           /\ Derive(row.check, Find(e[row.mode].log, row.step, s), e) \notin {"unknown", "mismatch"}
  BY <1>2, VerdictIs
<1> QED BY <1>1, <1>3 DEF e

\* What two levels that are compared have in common with their records.
Bound(l) ==
  /\ producer = "contract"
  /\ Len(logs[l].preflight.log) + Len(logs[l].observe.log) = Len(LevelEntries(producer, l))
  /\ \A mode \in {"preflight", "observe"} :
       \A o \in Sights(l, mode, {"harness"}) : o.files = Baseline.files
  /\ Sights(l, "observe", {"home.identity"}) # {}
  /\ \A o \in Sights(l, "observe", {"home.identity"}) :
       \A p \in Sights(l, "preflight", {"home.isolated"}) : o.homeId = p.homeId
  /\ \A a, b \in Sights(l, "observe", {"process.identity", "process.identity_after"}) :
       a.target = b.target
  /\ \A r \in Range(logs[l].preflight.log) \cup Range(logs[l].observe.log) :
       LevelOf(r.shell) = l

LEMMA BoundIs ==
  ASSUME Basis, NEW l \in Range(Levels), NEW baseline, RunSound(Given(l, baseline)),
         \A id \in ProvenanceRows : Verdicts(Given(l, baseline))[id] = "match",
         Verdicts(Given(l, baseline))["OB-openers"] = "match"
  PROVE  Bound(l)
<1> DEFINE e == Given(l, baseline)
           pre == Log(l, "preflight")
           obs == Log(l, "observe")
           n == Len(Contents("observe"))
<1>1. /\ e.preflight.log = pre /\ e.observe.log = obs /\ e.level = l
      /\ pre = logs[l].preflight.log /\ obs = logs[l].observe.log
      /\ pre = logs[l]["preflight"].log /\ obs = logs[l]["observe"].log
  BY GivenIs DEF Log
<1>2. producer \in {"contract", "dormant"} /\ "preflight" \in Modes /\ "observe" \in Modes
      /\ Modes = {"preflight", "observe"}
  BY DEF Basis, EvidenceTypes, Modes
<1>3. /\ pre \in Seq(Evidences) /\ DOMAIN pre = 1..Len(pre) /\ Len(pre) \in Nat
      /\ obs \in Seq(Evidences) /\ DOMAIN obs = 1..Len(obs) /\ Len(obs) \in Nat
  BY <1>2, FilesTyped DEF Basis
<1>4. n \in Nat /\ n >= 16 /\ n = 10 * Samples + 6 /\ Samples \in Nat /\ Samples >= 1
  BY <1>2, Layout, ObserveIs, ObserverAssumption
<1>5. RunLabel(e) = l /\ ManifestUsable(e)
  BY <1>1 DEF RunSound
<1>6. /\ Len(pre) = 7 /\ Find(pre, "harness", 0) = pre[1] /\ Find(pre, "home.isolated", 0) = pre[5]
  <2>1. ManifestPlaced(pre)
    BY <1>1, <1>5 DEF ManifestUsable
  <2> QED BY <2>1, PlacedIs
<1>7. \A mode \in Modes : FileLabel(Log(l, mode)) # "none"
  <2>1. RunLabel(e) # "none"
    BY <1>5, LevelsAre
  <2> HIDE DEF pre, obs, n
  <2> QED BY <2>1, RunLabelIs
<1>8. \A mode \in Modes : \A i \in 1..Len(Log(l, mode)) : LevelOf(Log(l, mode)[i].shell) = l
  BY <1>7, LabelIs
<1>9. \A r \in Range(pre) \cup Range(obs) : LevelOf(r.shell) = l
  <2> SUFFICES ASSUME NEW r \in Range(pre) \cup Range(obs) PROVE LevelOf(r.shell) = l
    OBVIOUS
  <2>1. CASE r \in Range(pre)
    <3>1. PICK i \in 1..Len(pre) : r = pre[i]
      BY <1>3, <2>1 DEF Range
    <3> QED BY <1>2, <1>8, <3>1
  <2>2. CASE r \in Range(obs)
    <3>1. PICK i \in 1..Len(obs) : r = obs[i]
      BY <1>3, <2>2 DEF Range
    <3> QED BY <1>2, <1>8, <3>1
  <2> QED BY <2>1, <2>2
<1> HIDE DEF e
\* The rows.
<1> DEFINE pf == Row("PF-harness", "preflight", "harness", "harnessBaseline", TRUE)
           oh == Row("OB-harness", "observe", "harness", "harnessMatchesManifest", TRUE)
           ho == Row("OB-home", "observe", "home.identity", "homeMatchesManifest", FALSE)
           ru == Row("OB-run", "observe", "run", "runControl", TRUE)
           op == Row("OB-openers", "observe", "openers.rm", "openersRm", TRUE)
<1>10. /\ pf \in Expectations /\ oh \in Expectations /\ ho \in Expectations /\ ru \in Expectations
       /\ op \in Expectations
  BY DEF Expectations
<1>11. /\ pf.id = "PF-harness" /\ pf.mode = "preflight" /\ pf.step = "harness" /\ pf.check = "harnessBaseline"
       /\ oh.id = "OB-harness" /\ oh.mode = "observe" /\ oh.step = "harness"
       /\ oh.check = "harnessMatchesManifest"
       /\ ho.id = "OB-home" /\ ho.mode = "observe" /\ ho.step = "home.identity"
       /\ ho.check = "homeMatchesManifest"
       /\ ru.id = "OB-run" /\ ru.mode = "observe" /\ ru.step = "run" /\ ru.check = "runControl"
       /\ op.id = "OB-openers" /\ op.mode = "observe" /\ op.step = "openers.rm" /\ op.check = "openersRm"
  BY DEF Row
<1>12. /\ RowOf("PF-harness") = pf /\ RowOf("OB-harness") = oh /\ RowOf("OB-home") = ho
       /\ RowOf("OB-run") = ru /\ RowOf("OB-openers") = op
  BY TheRows
<1>13. /\ {"PF-harness", "OB-harness", "OB-home", "OB-run"} \subseteq ProvenanceRows
  BY DEF ProvenanceRows
<1> HIDE DEF pf, oh, ho, ru, op
<1>14. /\ 0 \in Indices(pf) /\ 0 \in Indices(oh) /\ 0 \in Indices(ho) /\ 0 \in Indices(ru)
       /\ 1 \in Indices(op)
  BY <1>4, <1>11, StepsAre DEF Indices
<1>15. LET r == Find(pre, "harness", 0)
       IN r.usable /\ Derive("harnessBaseline", r, e) \notin {"unknown", "mismatch"}
  <2>1. Verdicts(Given(l, baseline))["PF-harness"] = "match"
    BY <1>13
  <2> QED BY <2>1, <1>2, <1>10, <1>11, <1>12, <1>14, MatchIs DEF e
<1>16. LET r == Find(obs, "harness", 0)
       IN r.usable /\ Derive("harnessMatchesManifest", r, e) \notin {"unknown", "mismatch"}
  <2>1. Verdicts(Given(l, baseline))["OB-harness"] = "match"
    BY <1>13
  <2> QED BY <2>1, <1>2, <1>10, <1>11, <1>12, <1>14, MatchIs DEF e
<1>17. LET r == Find(obs, "home.identity", 0)
       IN r.usable /\ Derive("homeMatchesManifest", r, e) \notin {"unknown", "mismatch"}
  <2>1. Verdicts(Given(l, baseline))["OB-home"] = "match"
    BY <1>13
  <2> QED BY <2>1, <1>2, <1>10, <1>11, <1>12, <1>14, MatchIs DEF e
<1>18. LET r == Find(obs, "run", 0)
       IN r.usable /\ Derive("runControl", r, e) \notin {"unknown", "mismatch"}
  <2>1. Verdicts(Given(l, baseline))["OB-run"] = "match"
    BY <1>13
  <2> QED BY <2>1, <1>2, <1>10, <1>11, <1>12, <1>14, MatchIs DEF e
<1>19. Find(obs, "openers.rm", 1).usable
  BY <1>2, <1>10, <1>11, <1>12, <1>14, MatchIs DEF e
<1>20. producer = "contract"
  <2>1. PICK i \in 1..Len(obs) : obs[i].step = "openers.rm" /\ obs[i].usable
    BY <1>2, <1>19, MeasuredIs DEF Measured
  <2>2. RecordHolds(l, "observe", i)
    BY <1>2, <2>1, RecordIs
  <2>3. ~Deferred("openers.rm")
    BY <2>1, <2>2 DEF RecordHolds
  <2> QED BY <1>2, <2>3 DEF Deferred
\* The observe file is complete.
<1>21. Measured(obs, "process.identity", 0) /\ Measured(obs, "process.identity_after", 0)
       /\ Saw(obs, "process.identity_after", 0).target = Saw(obs, "process.identity", 0).target
  BY <1>1, <1>18 DEF Derive, RunControl, Verdict, SameInstance, Launched
<1>22. Len(obs) = n
  <2>1. PICK i \in 1..Len(obs) : obs[i].step = "process.identity_after"
    BY <1>2, <1>21, MeasuredIs
  <2>2. i \in 1..n /\ Contents("observe")[i].step = "process.identity_after"
    BY <1>2, <2>1, RecordIs
  <2>3. i = n
    BY <1>2, <2>2, ObservePlaces
  <2>4. Len(obs) <= n
    BY <1>2 DEF Basis, Progress, FileHolds
  <2> QED BY <1>3, <1>4, <2>3, <2>4
<1>23. \A i \in 1..n : obs[i].step = Contents("observe")[i].step /\ obs[i].sample = Contents("observe")[i].sample
  BY <1>2, <1>22, RecordIs
<1>24. \A i \in 1..7 : pre[i].step = Contents("preflight")[i].step /\ pre[i].sample = Contents("preflight")[i].sample
  BY <1>2, <1>6, RecordIs
<1>25. /\ obs[1].step = "harness" /\ obs[3].step = "home.identity" /\ obs[5].step = "process.identity"
       /\ obs[n].step = "process.identity_after"
       /\ obs[1].sample = 0 /\ obs[3].sample = 0 /\ obs[5].sample = 0 /\ obs[n].sample = 0
  <2>1. {1, 3, 5} \subseteq 1..5 /\ {1, 3, 5, n} \subseteq 1..n
    BY <1>4
  <2>2. \A i \in 1..5 :
              /\ Contents("observe")[i].step =
                   <<"harness", "token.self", "home.identity", "run", "process.identity">>[i]
              /\ Contents("observe")[i].sample = 0
    BY <1>2, ObserveIs
  <2>3. Contents("observe")[n].step = "process.identity_after" /\ Contents("observe")[n].sample = 0
    BY <1>2, <1>4, ObserveIs
  <2> HIDE DEF n, obs
  <2> QED BY <1>23, <2>1, <2>2, <2>3
<1>26. /\ Find(obs, "harness", 0) = obs[1] /\ Find(obs, "home.identity", 0) = obs[3]
       /\ Find(obs, "process.identity", 0) = obs[5] /\ Find(obs, "process.identity_after", 0) = obs[n]
  <2>1. 1 \in 1..Len(obs) /\ 3 \in 1..Len(obs) /\ 5 \in 1..Len(obs) /\ n \in 1..Len(obs)
    BY <1>4, <1>22
  <2>2. \A i \in 1..n : /\ Contents("observe")[i].step = "harness" => i = 1
                        /\ Contents("observe")[i].step = "home.identity" => i = 3
                        /\ Contents("observe")[i].step = "process.identity" => i = 5
                        /\ Contents("observe")[i].step = "process.identity_after" => i = n
    BY <1>2, ObservePlaces
  <2>3. Find(obs, "harness", 0) = obs[1]
    BY <1>2, <1>25, <2>1, <2>2, FoundAt
  <2>4. Find(obs, "home.identity", 0) = obs[3]
    BY <1>2, <1>25, <2>1, <2>2, FoundAt
  <2>5. Find(obs, "process.identity", 0) = obs[5]
    BY <1>2, <1>25, <2>1, <2>2, FoundAt
  <2>6. Find(obs, "process.identity_after", 0) = obs[n]
    BY <1>2, <1>25, <2>1, <2>2, FoundAt
  <2> QED BY <2>3, <2>4, <2>5, <2>6
\* What was seen.
<1>27. pre[1].saw.files = Baseline.files
  BY <1>6, <1>15 DEF Derive, HarnessBaseline, Verdict
<1>28. obs[1].saw.files = Baseline.files
  <2>1. obs[1].saw.files = Manifest(e, "harness").files
    BY <1>16, <1>26 DEF Derive, HarnessMatchesManifest, Verdict
  <2> QED BY <1>1, <1>6, <1>27, <2>1 DEF Manifest, Saw
<1>29. obs[3].saw.homeId = pre[5].saw.homeId
  <2>1. obs[3].saw.homeId = Manifest(e, "home.isolated").homeId
    BY <1>17, <1>26 DEF Derive, HomeMatchesManifest, Verdict
  <2> QED BY <1>1, <1>6, <2>1 DEF Manifest, Saw
<1>30. obs[5].saw.target = obs[n].saw.target
  BY <1>21, <1>26 DEF Saw
<1>31. \A i \in Positions(pre, {"harness"}) : i = 1
  BY <1>3, <1>6, <1>24, PreflightPlaces DEF Positions
<1>32. \A i \in Positions(pre, {"home.isolated"}) : i = 5
  BY <1>3, <1>6, <1>24, PreflightPlaces DEF Positions
<1>33. \A i \in Positions(obs, {"harness"}) : i = 1
  BY <1>2, <1>3, <1>22, <1>23, ObservePlaces DEF Positions
<1>34. \A i \in Positions(obs, {"home.identity"}) : i = 3
  BY <1>2, <1>3, <1>22, <1>23, ObservePlaces DEF Positions
<1>35. \A i \in Positions(obs, {"process.identity", "process.identity_after"}) : i = 5 \/ i = n
  BY <1>2, <1>3, <1>22, <1>23, ObservePlaces DEF Positions
<1>36. 3 \in Positions(obs, {"home.identity"})
  BY <1>3, <1>4, <1>22, <1>25 DEF Positions
<1>37. \A mode \in {"preflight", "observe"} : \A steps :
         Sights(l, mode, steps) = {Log(l, mode)[i].saw : i \in Positions(Log(l, mode), steps)}
  BY DEF Sights, Log
<1> HIDE DEF n
<1>38. /\ \A o \in Sights(l, "preflight", {"harness"}) : o.files = Baseline.files
       /\ \A o \in Sights(l, "observe", {"harness"}) : o.files = Baseline.files
  BY <1>27, <1>28, <1>31, <1>33, <1>37
<1>39. Sights(l, "observe", {"home.identity"}) # {}
  <2>1. Sights(l, "observe", {"home.identity"}) = {obs[i].saw : i \in Positions(obs, {"home.identity"})}
    BY <1>37
  <2>2. obs[3].saw \in Sights(l, "observe", {"home.identity"})
    <3> HIDE DEF obs
    <3> QED BY <1>36, <2>1
  <2> QED BY <2>2
<1>40. \A o \in Sights(l, "observe", {"home.identity"}) :
              \A p \in Sights(l, "preflight", {"home.isolated"}) : o.homeId = p.homeId
  BY <1>29, <1>32, <1>34, <1>37
<1>41. \A a, b \in Sights(l, "observe", {"process.identity", "process.identity_after"}) :
              a.target = b.target
  BY <1>30, <1>35, <1>37
<1>42. Len(logs[l].preflight.log) + Len(logs[l].observe.log) = Len(LevelEntries(producer, l))
  BY <1>1, <1>2, <1>6, <1>22, LevelLength DEF n
<1> QED BY <1>1, <1>9, <1>20, <1>38, <1>39, <1>40, <1>41, <1>42 DEF Bound

-----------------------------------------------------------------------------
(* One thread over a sample.                                               *)

LEMMA StepsDiffer ==
  ASSUME NEW a \in 1..10, NEW b \in 1..10, SampleSteps[a] = SampleSteps[b]
  PROVE  a = b
<1>1. \A x \in 1..10 : x = 1 \/ x = 2 \/ x = 3 \/ x = 4 \/ x = 5 \/ x = 6 \/ x = 7 \/ x = 8 \/ x = 9 \/ x = 10
  OBVIOUS
<1>2. /\ SampleSteps[1] = "process.sample" /\ SampleSteps[2] = "lockdir.identity"
      /\ SampleSteps[3] = "coordination.identity" /\ SampleSteps[4] = "thread.count"
      /\ SampleSteps[5] = "thread.identity" /\ SampleSteps[6] = "openers.rm"
      /\ SampleSteps[7] = "share.read_rwd" /\ SampleSteps[8] = "share.delete_rwd"
      /\ SampleSteps[9] = "range.probe" /\ SampleSteps[10] = "thread.identity_after"
  BY DEF SampleSteps
<1> DEFINE At(x) ==
      \/ (x = 1 /\ SampleSteps[x] = "process.sample")
      \/ (x = 2 /\ SampleSteps[x] = "lockdir.identity")
      \/ (x = 3 /\ SampleSteps[x] = "coordination.identity")
      \/ (x = 4 /\ SampleSteps[x] = "thread.count")
      \/ (x = 5 /\ SampleSteps[x] = "thread.identity")
      \/ (x = 6 /\ SampleSteps[x] = "openers.rm")
      \/ (x = 7 /\ SampleSteps[x] = "share.read_rwd")
      \/ (x = 8 /\ SampleSteps[x] = "share.delete_rwd")
      \/ (x = 9 /\ SampleSteps[x] = "range.probe")
      \/ (x = 10 /\ SampleSteps[x] = "thread.identity_after")
<1>3. At(a) /\ At(b)
  BY <1>1, <1>2
<1> QED BY <1>3

\* Where a step of a sample stands: the producer may record process.sample
\* first or last, and the others keep their order.
LEMMA SamplePlaces ==
  ASSUME producer \in {"contract", "dormant"}, NEW i \in 1..Len(Contents("observe")),
         NEW q \in 2..10, Contents("observe")[i].step = SampleSteps[q]
  PROVE  i = 10 * Contents("observe")[i].sample + q - (IF producer = "contract" THEN 5 ELSE 6)
<1> DEFINE n == 10 * Samples
           c == Contents("observe")[i]
           j == i - 5
           k == IF producer = "contract" THEN j ELSE IF j % 10 = 0 THEN j - 9 ELSE j + 1
<1>1. Samples \in Nat /\ n \in Nat /\ Len(Contents("observe")) = n + 6
  BY ObserveIs, ObserverAssumption
<1>2. SampleSteps[q] \in Sampled
  BY StepsAre DEF Sampled, Range
<1>3. i > 5 /\ i < n + 6 /\ i \in 6..(n + 5)
  BY <1>1, <1>2, ObservePlaces
<1>4. c = SampleOrder(producer)[j]
  BY <1>3, ObserveIs
<1>5. j \in 1..n
  BY <1>1, <1>3
<1>6. DOMAIN SampleSequence = 1..n
  BY <1>1, SequenceIs
<1>7. c = SampleSequence[k]
  <2>1. CASE producer = "contract"
    BY <1>4, <2>1 DEF SampleOrder
  <2>2. CASE producer = "dormant"
    <3>1. SampleOrder(producer) = [x \in 1..n |->
             IF x % 10 = 0 THEN SampleSequence[x - 10 + 1] ELSE SampleSequence[x + 1]]
      BY <1>6, <2>2, StepsAre DEF SampleOrder
    <3> HIDE DEF j, n, c
    <3>2. c = IF j % 10 = 0 THEN SampleSequence[j - 10 + 1] ELSE SampleSequence[j + 1]
      BY <1>4, <1>5, <3>1
    <3>3. j - 10 + 1 = j - 9
      BY <1>1, <1>5
    <3> QED BY <2>2, <3>2, <3>3
  <2> QED BY <2>1, <2>2
<1>8. k \in 1..n
  <2>1. CASE producer = "contract"
    BY <1>5, <2>1
  <2>2. CASE producer = "dormant" /\ j % 10 = 0
    <3>1. j >= 10
      BY <1>5, <2>2
    <3> QED BY <1>1, <1>5, <2>2, <3>1
  <2>3. CASE producer = "dormant" /\ j % 10 # 0
    <3>1. j # 10 * Samples
      BY <1>1, <2>3
    <3> QED BY <1>1, <1>5, <2>3, <3>1
  <2> QED BY <2>1, <2>2, <2>3
<1> HIDE DEF c
<1>9. \A x \in 1..n : /\ SampleSequence[x].step = SampleSteps[((x - 1) % 10) + 1]
                      /\ SampleSequence[x].sample = ((x - 1) \div 10) + 1
  BY <1>1, StepsAre DEF SampleSequence
<1>10. c.step = SampleSteps[((k - 1) % 10) + 1] /\ c.sample = ((k - 1) \div 10) + 1
  <2> HIDE DEF k, n
  <2> QED BY <1>7, <1>8, <1>9
<1>11. k \in Nat /\ k >= 1
  <2> HIDE DEF k
  <2> QED BY <1>1, <1>8
<1>12. ((k - 1) % 10) + 1 = q
  <2> DEFINE p == ((k - 1) % 10) + 1
  <2>1. p \in 1..10
    <3> HIDE DEF k
    <3> QED BY <1>11
  <2>2. SampleSteps[p] = SampleSteps[q]
    BY <1>10 DEF c
  <2> HIDE DEF p
  <2>3. \A a, b \in 1..10 : SampleSteps[a] = SampleSteps[b] => a = b
    BY StepsDiffer
  <2>4. q \in 1..10
    OBVIOUS
  <2>5. p = q
    BY <2>1, <2>2, <2>3, <2>4
  <2> QED BY <2>5 DEF p
<1>13. k = 10 * c.sample + q - 10
  <2> HIDE DEF k
  <2>1. k - 1 = 10 * ((k - 1) \div 10) + ((k - 1) % 10)
    BY <1>11
  <2>2. (k - 1) % 10 = q - 1 /\ (k - 1) \div 10 \in Nat /\ (k - 1) % 10 \in Nat
    BY <1>11, <1>12
  <2>3. c.sample \in Nat /\ (k - 1) \div 10 = c.sample - 1
    BY <1>10, <2>2
  <2> QED BY <1>11, <2>1, <2>2, <2>3
<1>14. c.sample \in Nat
  <2> HIDE DEF k
  <2> QED BY <1>10, <1>11
<1>15. i = 10 * c.sample + q - (IF producer = "contract" THEN 5 ELSE 6)
  <2>1. CASE producer = "contract"
    BY <1>3, <1>1, <1>13, <1>14, <2>1
  <2>2. CASE producer = "dormant" /\ j % 10 # 0
    BY <1>3, <1>1, <1>13, <1>14, <2>2
  <2>3. CASE producer = "dormant" /\ j % 10 = 0
    <3>1. k = j - 9
      BY <2>3
    <3>2. (k - 1) % 10 = 0
      BY <1>5, <1>1, <2>3, <3>1
    <3> QED BY <1>12, <3>2
  <2> QED BY <2>1, <2>2, <2>3
<1> QED BY <1>15 DEF c

\* What was seen from one step of a sample to another.
Window(log, n, first, last) ==
  {log[i].saw : i \in {i \in DOMAIN log : log[i].sample = n
     /\ \E a, b \in DOMAIN log : /\ log[a].step = first /\ log[b].step = last
                                  /\ log[a].sample = n /\ log[b].sample = n
                                  /\ a <= i /\ i <= b}}
Threads(seen) == {o.thread : o \in seen}
Guards(seen) == {o.guard : o \in seen}

\* Identities only grow, so those at both ends of a stretch are those within.
LEMMA WindowIs ==
  ASSUME Basis, NEW l \in Range(Levels), NEW n, NEW q \in 2..10, NEW z \in 2..10, q <= z,
         NEW a \in 1..Len(Log(l, "observe")), NEW b \in 1..Len(Log(l, "observe")),
         Log(l, "observe")[a].step = SampleSteps[q], Log(l, "observe")[a].sample = n,
         Log(l, "observe")[b].step = SampleSteps[z], Log(l, "observe")[b].sample = n
  PROVE  LET log == Log(l, "observe")
             window == Window(log, n, SampleSteps[q], SampleSteps[z])
         IN /\ log[a].saw.thread = log[b].saw.thread => Cardinality(Threads(window)) = 1
            /\ log[a].saw.guard = log[b].saw.guard => Cardinality(Guards(window)) = 1
<1> DEFINE log == Log(l, "observe")
           P(i) == /\ log[i].sample = n
                   /\ \E x, y \in DOMAIN log :
                      /\ log[x].step = SampleSteps[q] /\ log[y].step = SampleSteps[z]
                      /\ log[x].sample = n /\ log[y].sample = n
                      /\ x <= i /\ i <= y
           inside == {i \in DOMAIN log : P(i)}
           window == {log[i].saw : i \in inside}
<1>1. window = Window(log, n, SampleSteps[q], SampleSteps[z])
  BY DEF Window
<1>2. producer \in {"contract", "dormant"} /\ "observe" \in Modes
  BY DEF Basis, EvidenceTypes, Modes
<1>3. log \in Seq(Evidences) /\ DOMAIN log = 1..Len(log) /\ Len(log) \in Nat
  BY <1>2, FilesTyped DEF Basis
<1> DEFINE d == IF producer = "contract" THEN 5 ELSE 6
<1>4. \A i \in 1..Len(log) : /\ log[i].step = SampleSteps[q] => i = 10 * log[i].sample + q - d
                             /\ log[i].step = SampleSteps[z] => i = 10 * log[i].sample + z - d
                             /\ log[i].sample \in Nat /\ log[i].saw \in Hosts
  <2> SUFFICES ASSUME NEW i \in 1..Len(log)
               PROVE  /\ log[i].step = SampleSteps[q] => i = 10 * log[i].sample + q - d
                      /\ log[i].step = SampleSteps[z] => i = 10 * log[i].sample + z - d
                      /\ log[i].sample \in Nat /\ log[i].saw \in Hosts
    OBVIOUS
  <2>1. /\ i \in 1..Len(Contents("observe")) /\ log[i] \in Evidences
        /\ log[i].step = Contents("observe")[i].step /\ log[i].sample = Contents("observe")[i].sample
    BY <1>2, RecordIs
  <2>2. log[i].sample \in Nat /\ log[i].saw \in Hosts
    BY <2>1 DEF Evidences
  <2>3. log[i].step = SampleSteps[q] => i = 10 * log[i].sample + q - d
    BY <1>2, <2>1, SamplePlaces
  <2>4. log[i].step = SampleSteps[z] => i = 10 * log[i].sample + z - d
    BY <1>2, <2>1, SamplePlaces
  <2> QED BY <2>2, <2>3, <2>4
<1>a. d \in {5, 6}
  OBVIOUS
<1> HIDE DEF d, log
<1>5. n \in Nat /\ a <= b
  <2>1. n \in Nat /\ a = 10 * n + q - d /\ b = 10 * n + z - d
    BY <1>4 DEF log
  <2> HIDE DEF P, inside, window
  <2>2. \A m \in Nat, e \in {5, 6} : 10 * m + q - e <= 10 * m + z - e
    OBVIOUS
  <2> QED BY <1>a, <2>1, <2>2
<1>6. ASSUME NEW i \in inside PROVE i \in 1..Len(log) /\ a <= i /\ i <= b
  <2>1. i \in 1..Len(log) /\ P(i)
    BY <1>3
  <2>2. PICK x, y \in 1..Len(log) : /\ log[x].step = SampleSteps[q] /\ log[y].step = SampleSteps[z]
                                   /\ log[x].sample = n /\ log[y].sample = n /\ x <= i /\ i <= y
    BY <1>3, <2>1
  <2>3. x = 10 * n + q - d /\ y = 10 * n + z - d
    BY <1>4, <2>2
  <2>4. a = 10 * n + q - d /\ b = 10 * n + z - d
    BY <1>4 DEF log
  <2>5. x = a /\ y = b
    BY <2>3, <2>4
  <2> QED BY <2>1, <2>2, <2>5
<1>7. a \in inside
  BY <1>3, <1>5 DEF log
<1>8. \A i, j \in 1..Len(log) : i < j => NoLater(log[i].saw, log[j].saw)
  <2> SUFFICES ASSUME NEW i \in 1..Len(log), NEW j \in 1..Len(log), i < j
               PROVE  NoLater(log[i].saw, log[j].saw)
    OBVIOUS
  <2>1. RecordHolds(l, "observe", j) /\ i \in 1..(j - 1)
    BY <1>2, <1>3, RecordIs DEF log
  <2> QED BY <2>1 DEF RecordHolds, log
<1>9. \A i \in inside : /\ log[a].saw.thread <= log[i].saw.thread /\ log[i].saw.thread <= log[b].saw.thread
                        /\ log[a].saw.guard <= log[i].saw.guard /\ log[i].saw.guard <= log[b].saw.guard
                        /\ log[i].saw.thread \in Nat /\ log[i].saw.guard \in Nat
  <2> SUFFICES ASSUME NEW i \in inside
               PROVE    /\ log[a].saw.thread <= log[i].saw.thread /\ log[i].saw.thread <= log[b].saw.thread
                        /\ log[a].saw.guard <= log[i].saw.guard /\ log[i].saw.guard <= log[b].saw.guard
                        /\ log[i].saw.thread \in Nat /\ log[i].saw.guard \in Nat
    OBVIOUS
  <2>1. i \in 1..Len(log) /\ a <= i /\ i <= b
    BY <1>6
  <2> HIDE DEF inside
  <2>2. log[a].saw \in Hosts /\ log[i].saw \in Hosts /\ log[b].saw \in Hosts
    BY <1>4, <2>1 DEF log
  <2>3. a = i \/ NoLater(log[a].saw, log[i].saw)
    BY <1>3, <1>8, <2>1 DEF log
  <2>4. i = b \/ NoLater(log[i].saw, log[b].saw)
    BY <1>3, <1>8, <2>1 DEF log
  <2>5. \A h \in Hosts : h.thread \in Nat /\ h.guard \in Nat
    BY DEF Hosts
  <2>6. log[a].saw.thread <= log[i].saw.thread /\ log[a].saw.guard <= log[i].saw.guard
    <3>1. CASE a = i
      BY <2>2, <2>5, <3>1
    <3>2. CASE a # i
      BY <2>3, <3>2 DEF NoLater
    <3> QED BY <3>1, <3>2
  <2>7. log[i].saw.thread <= log[b].saw.thread /\ log[i].saw.guard <= log[b].saw.guard
    <3>1. CASE i = b
      BY <2>2, <2>5, <3>1
    <3>2. CASE i # b
      BY <2>4, <3>2 DEF NoLater
    <3> QED BY <3>1, <3>2
  <2> QED BY <2>2, <2>5, <2>6, <2>7
<1>10. log[a].saw \in Hosts /\ log[b].saw \in Hosts
  BY <1>4 DEF log
<1> HIDE DEF inside, P
<1>11. ASSUME log[a].saw.thread = log[b].saw.thread
       PROVE  Cardinality(Threads(window)) = 1
  <2> DEFINE t == log[a].saw.thread
             T == {o.thread : o \in window}
  <2>1. \A i \in inside : log[i].saw.thread = t
    BY <1>9, <1>10, <1>11 DEF Hosts
  <2>2. t \in T
    BY <1>7
  <2>3. \A x \in T : x = t
    <3> SUFFICES ASSUME NEW x \in T PROVE x = t
      OBVIOUS
    <3>1. PICK o \in window : x = o.thread
      OBVIOUS
    <3>2. PICK i \in inside : o = log[i].saw
      BY <3>1
    <3> HIDE DEF T, window, t
    <3> QED BY <2>1, <3>1, <3>2
  <2> HIDE DEF T, t
  <2>4. T = {t}
    BY <2>2, <2>3
  <2>5. Cardinality({t}) = 1
    BY FS_Singleton
  <2> QED BY <2>4, <2>5 DEF T, Threads, Guards
<1>12. ASSUME log[a].saw.guard = log[b].saw.guard
       PROVE  Cardinality(Guards(window)) = 1
  <2> DEFINE t == log[a].saw.guard
             T == {o.guard : o \in window}
  <2>1. \A i \in inside : log[i].saw.guard = t
    BY <1>9, <1>10, <1>12 DEF Hosts
  <2>2. t \in T
    BY <1>7
  <2>3. \A x \in T : x = t
    <3> SUFFICES ASSUME NEW x \in T PROVE x = t
      OBVIOUS
    <3>1. PICK o \in window : x = o.guard
      OBVIOUS
    <3>2. PICK i \in inside : o = log[i].saw
      BY <3>1
    <3> HIDE DEF T, window, t
    <3> QED BY <2>1, <3>1, <3>2
  <2> HIDE DEF T, t
  <2>4. T = {t}
    BY <2>2, <2>3
  <2>5. Cardinality({t}) = 1
    BY FS_Singleton
  <2> QED BY <2>4, <2>5 DEF T, Threads, Guards
<1> HIDE DEF window
<1>13. /\ log[a].saw.thread = log[b].saw.thread => Cardinality(Threads(window)) = 1
       /\ log[a].saw.guard = log[b].saw.guard => Cardinality(Guards(window)) = 1
  BY <1>11, <1>12
<1> QED BY <1>1, <1>13 DEF log

\* Rows that match speak of one thread lock and one guard.
LEMMA OneThread ==
  ASSUME Basis, NEW l \in Range(Levels), NEW baseline, NEW n \in 1..Samples,
         Verdicts(Given(l, baseline))["OB-range-guard"] = "match",
         Verdicts(Given(l, baseline))["OB-thread-stable"] = "match"
  PROVE  LET window(first, last) == Window(Log(l, "observe"), n, first, last)
         IN /\ Cardinality(Threads(window("thread.identity", "thread.identity_after"))) = 1
            /\ Cardinality(Guards(window("coordination.identity", "range.probe"))) = 1
<1> DEFINE e == Given(l, baseline)
           log == Log(l, "observe")
           gu == Row("OB-range-guard", "observe", "range.probe", "rangeGuardBinding", FALSE)
           th == Row("OB-thread-stable", "observe", "thread.identity_after", "threadStable", FALSE)
<1>1. e.observe.log = log /\ log = logs[l].observe.log /\ "observe" \in Modes
  BY GivenIs DEF Log, Modes
<1> HIDE DEF e
<1>2. gu \in Expectations /\ th \in Expectations
  BY DEF Expectations
<1>3. /\ gu.id = "OB-range-guard" /\ gu.mode = "observe" /\ gu.step = "range.probe"
      /\ gu.check = "rangeGuardBinding"
      /\ th.id = "OB-thread-stable" /\ th.mode = "observe" /\ th.step = "thread.identity_after"
      /\ th.check = "threadStable"
  BY DEF Row
<1>4. RowOf("OB-range-guard") = gu /\ RowOf("OB-thread-stable") = th
  BY TheRows
<1> HIDE DEF gu, th
<1>5. n \in Indices(gu) /\ n \in Indices(th)
  BY <1>3, StepsAre DEF Indices
<1>6. LET r == Find(log, "range.probe", n)
      IN r.usable /\ Derive("rangeGuardBinding", r, e) \notin {"unknown", "mismatch"}
  BY <1>1, <1>2, <1>3, <1>4, <1>5, MatchIs DEF e
<1>7. LET r == Find(log, "thread.identity_after", n)
      IN r.usable /\ Derive("threadStable", r, e) \notin {"unknown", "mismatch"}
  BY <1>1, <1>2, <1>3, <1>4, <1>5, MatchIs DEF e
<1> HIDE DEF log
<1>8. PICK b \in 1..Len(log) : /\ Find(log, "range.probe", n) = log[b]
                               /\ log[b].step = "range.probe" /\ log[b].sample = n
  BY <1>1, <1>6, MeasuredIs DEF Measured, log
<1>9. PICK y \in 1..Len(log) : /\ Find(log, "thread.identity_after", n) = log[y]
                               /\ log[y].step = "thread.identity_after" /\ log[y].sample = n
  BY <1>1, <1>7, MeasuredIs DEF Measured, log
<1>10. SamplePaths(n, e) /\ BoundBoth(log[b], Saw(log, "coordination.identity", n).guard,
                                      Saw(log, "thread.identity", n).thread)
  BY <1>1, <1>6, <1>8 DEF Derive, RangeGuardBinding, Verdict
<1>11. log[y].saw.thread = Saw(log, "thread.identity", n).thread
  BY <1>1, <1>7, <1>9 DEF Derive, ThreadStable, Verdict
<1>12. Measured(log, "coordination.identity", n) /\ Measured(log, "thread.identity", n)
  BY <1>1, <1>10 DEF SamplePaths
<1>13. PICK a \in 1..Len(log) : /\ Find(log, "coordination.identity", n) = log[a]
                                /\ log[a].step = "coordination.identity" /\ log[a].sample = n
  BY <1>1, <1>12, MeasuredIs DEF log
<1>14. PICK x \in 1..Len(log) : /\ Find(log, "thread.identity", n) = log[x]
                                /\ log[x].step = "thread.identity" /\ log[x].sample = n
  BY <1>1, <1>12, MeasuredIs DEF log
<1>15. log[a].saw.guard = log[b].saw.guard
  BY <1>10, <1>13 DEF BoundBoth, Saw
<1>16. log[x].saw.thread = log[y].saw.thread
  BY <1>11, <1>14 DEF Saw
<1>17. /\ SampleSteps[3] = "coordination.identity" /\ SampleSteps[5] = "thread.identity"
       /\ SampleSteps[9] = "range.probe" /\ SampleSteps[10] = "thread.identity_after"
  BY DEF SampleSteps
<1>18. Cardinality(Guards(Window(log, n, SampleSteps[3], SampleSteps[9]))) = 1
  <2>1. PICK q \in 2..10, z \in 2..10 : q = 3 /\ z = 9
    OBVIOUS
  <2>2. /\ q <= z /\ a \in 1..Len(Log(l, "observe")) /\ b \in 1..Len(Log(l, "observe"))
        /\ Log(l, "observe")[a].step = SampleSteps[q] /\ Log(l, "observe")[a].sample = n
        /\ Log(l, "observe")[b].step = SampleSteps[z] /\ Log(l, "observe")[b].sample = n
    BY <1>8, <1>9, <1>13, <1>14, <1>17, <2>1 DEF log
  <2>3. log[a].saw.guard = log[b].saw.guard =>
          Cardinality(Guards(Window(log, n, SampleSteps[q], SampleSteps[z]))) = 1
    BY <2>2, WindowIs DEF log
  <2> QED BY <1>15, <2>1, <2>3
<1>19. Cardinality(Threads(Window(log, n, SampleSteps[5], SampleSteps[10]))) = 1
  <2>1. PICK q \in 2..10, z \in 2..10 : q = 5 /\ z = 10
    OBVIOUS
  <2>2. /\ q <= z /\ x \in 1..Len(Log(l, "observe")) /\ y \in 1..Len(Log(l, "observe"))
        /\ Log(l, "observe")[x].step = SampleSteps[q] /\ Log(l, "observe")[x].sample = n
        /\ Log(l, "observe")[y].step = SampleSteps[z] /\ Log(l, "observe")[y].sample = n
    BY <1>8, <1>9, <1>13, <1>14, <1>17, <2>1 DEF log
  <2>3. log[x].saw.thread = log[y].saw.thread =>
          Cardinality(Threads(Window(log, n, SampleSteps[q], SampleSteps[z]))) = 1
    BY <2>2, WindowIs DEF log
  <2> QED BY <1>16, <2>1, <2>3
<1> QED BY <1>17, <1>18, <1>19 DEF log

-----------------------------------------------------------------------------
(* What a mismatch says.                                                   *)

\* The host or the operator deviated.
Deviates(l, mode, r) ==
  \/ r.saw.files # 1 \/ r.saw.binary # 1 \/ ~r.saw.private
  \/ r.saw.env # <<"d:", "codex">>
  \/ r.shell \notin Nominal(l) \/ r.declared # l \/ r.reference # l
  \/ mode = "observe" /\ (r.saw.threads # 1 \/ ~r.saw.held)
  \/ \E field \in {"homeId", "target", "thread", "guard"} : ~Steady(l, field)
  \/ \E o \in Sights(l, "preflight", {"home.isolated"}) :
       \E p \in Sights(l, "observe", {"home.identity"}) : o.homeId # p.homeId
  \/ logs[l].preflight.log # <<>> /\ logs[l].observe.log # <<>>
      /\ logs[l].preflight.log[1].shell # logs[l].observe.log[1].shell

\* What a level's records have in common when nothing deviated.
Undisturbed(l) ==
  /\ \A mode \in Modes : \A i \in 1..Len(Log(l, mode)) :
       LET r == Log(l, mode)[i] IN
       /\ r.saw.files = 1 /\ r.saw.binary = 1
       /\ r.reference = l /\ r.declared = l /\ r.saw.home = Disposed
       /\ HomeContract(r.saw)
       /\ mode = "observe" => r.saw.threads = 1 /\ r.saw.held /\ r.saw.live /\ r.saw.codex = r.shell
  /\ \A i, j \in 1..Len(Log(l, "observe")) :
       LET a == Log(l, "observe")[i].saw
           b == Log(l, "observe")[j].saw
       IN a.target = b.target /\ a.thread = b.thread /\ a.guard = b.guard
  /\ \A i \in 1..Len(Log(l, "preflight")), j \in 1..Len(Log(l, "observe")) :
       (Log(l, "preflight")[i].step = "home.isolated" /\ Log(l, "observe")[j].step = "home.identity")
         => Log(l, "preflight")[i].saw.homeId = Log(l, "observe")[j].saw.homeId
  /\ (Log(l, "preflight") # <<>> /\ Log(l, "observe") # <<>>)
       => Log(l, "preflight")[1].shell = Log(l, "observe")[1].shell

LEMMA UndisturbedIs ==
  ASSUME Basis, NEW l \in Range(Levels), NEW kind \in Modes, NEW x \in 1..Len(Log(l, kind)),
         ~\E mode \in {"preflight", "observe"} : \E r \in Range(logs[l][mode].log) : Deviates(l, mode, r)
  PROVE  Undisturbed(l)
<1>1. Modes = {"preflight", "observe"} /\ "preflight" \in Modes /\ "observe" \in Modes
  BY DEF Modes
<1>2. \A mode \in Modes : \A i \in 1..Len(Log(l, mode)) : ~Deviates(l, mode, Log(l, mode)[i])
  BY <1>1, RecordIs
<1>3. ~Deviates(l, kind, Log(l, kind)[x])
  BY <1>2
<1>4. \A field \in {"homeId", "target", "thread", "guard"} : Steady(l, field)
  BY <1>3 DEF Deviates
<1>5. \A o \in Sights(l, "preflight", {"home.isolated"}) :
        \A p \in Sights(l, "observe", {"home.identity"}) : o.homeId = p.homeId
  BY <1>3 DEF Deviates
<1>6. (logs[l].preflight.log # <<>> /\ logs[l].observe.log # <<>>)
         => logs[l].preflight.log[1].shell = logs[l].observe.log[1].shell
  BY <1>3 DEF Deviates
<1>7. ASSUME NEW mode \in Modes, NEW i \in 1..Len(Log(l, mode))
      PROVE  LET r == Log(l, mode)[i] IN
             /\ r.saw.files = 1 /\ r.saw.binary = 1
             /\ r.reference = l /\ r.declared = l /\ r.saw.home = Disposed
             /\ HomeContract(r.saw)
             /\ mode = "observe" => r.saw.threads = 1 /\ r.saw.held /\ r.saw.live /\ r.saw.codex = r.shell
  <2> DEFINE r == Log(l, mode)[i]
  <2>1. ~Deviates(l, mode, r) /\ RecordHolds(l, mode, i)
    BY <1>2, RecordIs
  <2> DEFINE steady == \E field \in {"homeId", "target", "thread", "guard"} : ~Steady(l, field)
             sights == \E o \in Sights(l, "preflight", {"home.isolated"}) :
                         \E p \in Sights(l, "observe", {"home.identity"}) : o.homeId # p.homeId
  <2>2. /\ r.saw.home = Disposed /\ (r.saw.held => r.saw.live)
        /\ mode = "observe" => r.saw.codex = r.shell
    BY <2>1 DEF RecordHolds
  <2> HIDE DEF r
  <2>3. /\ r.saw.files = 1 /\ r.saw.binary = 1 /\ r.saw.private
        /\ r.saw.env = <<"d:", "codex">> /\ r.declared = l /\ r.reference = l
        /\ mode = "observe" => r.saw.threads = 1 /\ r.saw.held
    BY <2>1 DEF Deviates
  <2>4. HomeContract(r.saw)
    <3>1. Relation(r.saw.home, UserHome) = "disjoint"
      BY <2>2, HomeIsApart DEF r
    <3>2. Relation(r.saw.home, r.saw.env) = "disjoint"
      BY <2>2, <2>3, HomeIsApart DEF r
    <3>3. r.saw.home[Len(r.saw.home) - 1] = Disposable
      BY <2>2, HomeIsApart DEF r
    <3> QED BY <2>3, <3>1, <3>2, <3>3 DEF HomeContract
  <2> QED BY <2>2, <2>3, <2>4 DEF r
<1>8. ASSUME NEW i \in 1..Len(Log(l, "observe")), NEW j \in 1..Len(Log(l, "observe"))
      PROVE  LET a == Log(l, "observe")[i].saw
                 b == Log(l, "observe")[j].saw
             IN a.target = b.target /\ a.thread = b.thread /\ a.guard = b.guard
  <2> DEFINE a == Log(l, "observe")[i].saw
             b == Log(l, "observe")[j].saw
             S == {r.saw : r \in Range(logs[l]["observe"].log)}
  <2>1. a \in S /\ b \in S
    BY <1>1, RecordIs
  <2>2. \A field \in {"homeId", "target", "thread", "guard"} : \A u, v \in S : u[field] = v[field]
    BY <1>4 DEF Steady
  <2> HIDE DEF a, b, S
  <2>3. a["target"] = b["target"] /\ a["thread"] = b["thread"] /\ a["guard"] = b["guard"]
    BY <2>1, <2>2
  <2> QED BY <2>3 DEF a, b
<1>9. ASSUME NEW i \in 1..Len(Log(l, "preflight")), NEW j \in 1..Len(Log(l, "observe")),
             Log(l, "preflight")[i].step = "home.isolated", Log(l, "observe")[j].step = "home.identity"
      PROVE  Log(l, "preflight")[i].saw.homeId = Log(l, "observe")[j].saw.homeId
  <2>1. i \in DOMAIN Log(l, "preflight") /\ j \in DOMAIN Log(l, "observe")
    BY <1>1, FilesTyped DEF Basis
  <2>2. i \in Positions(Log(l, "preflight"), {"home.isolated"})
        /\ j \in Positions(Log(l, "observe"), {"home.identity"})
    BY <1>9, <2>1 DEF Positions
  <2>3. /\ Sights(l, "preflight", {"home.isolated"}) =
             {Log(l, "preflight")[k].saw : k \in Positions(Log(l, "preflight"), {"home.isolated"})}
        /\ Sights(l, "observe", {"home.identity"}) =
             {Log(l, "observe")[k].saw : k \in Positions(Log(l, "observe"), {"home.identity"})}
    BY DEF Sights, Log
  <2>4. /\ Log(l, "preflight")[i].saw \in Sights(l, "preflight", {"home.isolated"})
        /\ Log(l, "observe")[j].saw \in Sights(l, "observe", {"home.identity"})
    BY <2>2, <2>3
  <2> QED BY <1>5, <2>4
<1>10. (Log(l, "preflight") # <<>> /\ Log(l, "observe") # <<>>)
       => Log(l, "preflight")[1].shell = Log(l, "observe")[1].shell
  <2>1. Log(l, "preflight") = logs[l].preflight.log /\ Log(l, "observe") = logs[l].observe.log
    BY DEF Log
  <2> QED BY <1>6, <2>1
<1> QED BY <1>7, <1>8, <1>9, <1>10 DEF Undisturbed

LEMMA RowTable ==
  ASSUME NEW row \in Expectations
  PROVE  /\ row.mode \in Modes
         /\ row.mode = "preflight" =>
              row.check \in {"harnessBaseline", "tokenIntegrity", "binaryBaseline", "recorded",
                             "homeIsolated", "manifestBaseline"}
         /\ row.mode = "observe" =>
              row.check \in {"harnessMatchesManifest", "tokenMatchesManifest", "homeMatchesManifest",
                "runControl", "imageLive", "codexToken", "sampleProcess", "recorded", "oneThread",
                "conflicts", "rangeGuardBinding", "threadStable", "openersRm", "unmeasurable",
                "processAfterLive"}
         /\ row.check = "rangeGuardBinding" => row.step = "range.probe"
         /\ row.check = "homeMatchesManifest" => row.step = "home.identity"
<1> DEFINE ok(x) ==
         /\ x.mode \in Modes
         /\ x.mode = "preflight" =>
              x.check \in {"harnessBaseline", "tokenIntegrity", "binaryBaseline", "recorded",
                             "homeIsolated", "manifestBaseline"}
         /\ x.mode = "observe" =>
              x.check \in {"harnessMatchesManifest", "tokenMatchesManifest", "homeMatchesManifest",
                "runControl", "imageLive", "codexToken", "sampleProcess", "recorded", "oneThread",
                "conflicts", "rangeGuardBinding", "threadStable", "openersRm", "unmeasurable",
                "processAfterLive"}
         /\ x.check = "rangeGuardBinding" => x.step = "range.probe"
         /\ x.check = "homeMatchesManifest" => x.step = "home.identity"
<1>1. ok(row)
  BY DEF Expectations, Row, Modes
<1> QED BY <1>1

\* A record that another is compared with.
LEMMA SawIs ==
  ASSUME Basis, NEW l \in Range(Levels), NEW mode \in Modes, Undisturbed(l), NEW step, NEW sample,
         Measured(Log(l, mode), step, sample)
  PROVE  LET o == Saw(Log(l, mode), step, sample) IN
         /\ o.files = 1 /\ o.binary = 1 /\ o.home = Disposed
         /\ mode = "observe" => \A i \in 1..Len(Log(l, "observe")) :
              LET a == Log(l, "observe")[i].saw
              IN a.target = o.target /\ a.thread = o.thread /\ a.guard = o.guard
<1>1. PICK i \in 1..Len(Log(l, mode)) : Find(Log(l, mode), step, sample) = Log(l, mode)[i]
  BY MeasuredIs
<1>2. Saw(Log(l, mode), step, sample) = Log(l, mode)[i].saw
  BY <1>1 DEF Saw
<1> QED BY <1>2 DEF Undisturbed

\* Nothing of a preflight file contradicts the plan unless something deviated.
LEMMA PreflightAgrees ==
  ASSUME Basis, NEW l \in Range(Levels), NEW baseline, Undisturbed(l),
         NEW i \in 1..Len(Log(l, "preflight")),
         FileLabel(Log(l, "preflight")) # "none",
         NEW check \in {"harnessBaseline", "tokenIntegrity", "binaryBaseline", "recorded",
                        "homeIsolated", "manifestBaseline"}
  PROVE  Derive(check, Log(l, "preflight")[i], Given(l, baseline)) # "mismatch"
<1> DEFINE e == Given(l, baseline)
           r == Log(l, "preflight")[i]
           log == Log(l, "preflight")
<1>1. e.preflight.log = log /\ e.baseline = baseline /\ "preflight" \in Modes
  BY GivenIs DEF Modes
<1>2. /\ r.saw.files = 1 /\ r.saw.binary = 1 /\ HomeContract(r.saw)
  BY <1>1 DEF Undisturbed
<1>3. LevelOf(r.shell) = l
  BY <1>1, LabelIs
<1>4. RunLabel(e) # "none" => RunLabel(e) = l
  BY RunLabelIs
<1> HIDE DEF e, r, log
<1>5. CASE check = "harnessBaseline"
  BY <1>2, <1>5 DEF Derive, HarnessBaseline, Verdict, Baseline, r, e
<1>6. CASE check = "tokenIntegrity"
  BY <1>3, <1>4, <1>6 DEF Derive, TokenIntegrity, Verdict, r, e
<1>7. CASE check = "binaryBaseline"
  BY <1>2, <1>7 DEF Derive, BinaryBaseline, Verdict, Baseline, r, e
<1>8. CASE check = "recorded"
  BY <1>8 DEF Derive
<1>9. CASE check = "homeIsolated"
  BY <1>2, <1>9 DEF Derive, HomeIsolated, Verdict, r, e
<1>10. CASE check = "manifestBaseline"
  <2>1. ASSUME Reconstructed(e)
        PROVE  /\ Manifest(e, "harness").files = 1
               /\ Manifest(e, "binary.sha256").binary = 1
               /\ Manifest(e, "binary.version").binary = 1
    <3>1. /\ Measured(log, "harness", 0) /\ Measured(log, "binary.sha256", 0)
          /\ Measured(log, "binary.version", 0)
      BY <1>1, <2>1 DEF Reconstructed
    <3>2. /\ Saw(log, "harness", 0).files = 1 /\ Saw(log, "binary.sha256", 0).binary = 1
          /\ Saw(log, "binary.version", 0).binary = 1
      BY <1>1, <3>1, SawIs DEF log
    <3> QED BY <1>1, <3>2 DEF Manifest
  <2>2. ManifestBaseline(r, e) # "mismatch"
    BY <2>1 DEF ManifestBaseline, Verdict, Baseline
  <2> QED BY <1>10, <2>2 DEF Derive, r, e
<1> QED BY <1>5, <1>6, <1>7, <1>8, <1>9, <1>10

\* Nor does anything of an observe file.
LEMMA ObserveAgrees ==
  ASSUME Basis, NEW l \in Range(Levels), NEW baseline, Undisturbed(l),
         NEW i \in 1..Len(Log(l, "observe")),
         FileLabel(Log(l, "observe")) # "none", RunLabel(Given(l, baseline)) # "none",
         NEW check \in {"harnessMatchesManifest", "tokenMatchesManifest", "homeMatchesManifest",
                "runControl", "imageLive", "codexToken", "sampleProcess", "recorded", "oneThread",
                "conflicts", "rangeGuardBinding", "threadStable", "openersRm",
                "processAfterLive"},
         check = "rangeGuardBinding" => Log(l, "observe")[i].step = "range.probe",
         check = "homeMatchesManifest" => Log(l, "observe")[i].step = "home.identity"
  PROVE  Derive(check, Log(l, "observe")[i], Given(l, baseline)) # "mismatch"
<1> DEFINE e == Given(l, baseline)
           r == Log(l, "observe")[i]
           log == Log(l, "observe")
           pre == Log(l, "preflight")
<1>1. /\ e.preflight.log = pre /\ e.observe.log = log /\ e.level = l
      /\ "preflight" \in Modes /\ "observe" \in Modes
  BY GivenIs DEF Modes
<1>2. /\ r.saw.files = 1 /\ r.saw.home = Disposed /\ HomeContract(r.saw)
      /\ r.reference = l /\ r.saw.threads = 1 /\ r.saw.held /\ r.saw.live
      /\ r.saw.codex = r.shell
  BY <1>1 DEF Undisturbed
<1>3. /\ LevelOf(r.shell) = l /\ 1 \in 1..Len(log) /\ log # <<>>
      /\ \A j \in 1..Len(log) : log[j].shell = log[1].shell
  BY <1>1, LabelIs
<1>4. /\ RunLabel(e) = l /\ FileLabel(pre) # "none"
  BY <1>1, RunLabelIs
<1>5. /\ pre # <<>> /\ \A j \in 1..Len(pre) : pre[j].shell = pre[1].shell
  BY <1>1, <1>4, LabelIs
<1>6. pre[1].shell = log[1].shell
  BY <1>3, <1>5 DEF Undisturbed
<1> HIDE DEF e, log, pre
<1>7. ASSUME NEW step, NEW sample, Measured(log, step, sample)
      PROVE  LET o == Saw(log, step, sample)
             IN r.saw.target = o.target /\ r.saw.thread = o.thread /\ r.saw.guard = o.guard
  BY <1>1, <1>7, SawIs DEF log
<1>8. ManifestUsable(e) => /\ Len(pre) = 7 /\ 1 \in 1..Len(pre) /\ 5 \in 1..Len(pre)
                           /\ Find(pre, "harness", 0) = pre[1]
                           /\ Find(pre, "home.isolated", 0) = pre[5]
                           /\ pre[5].step = "home.isolated"
  <2> SUFFICES ASSUME ManifestUsable(e)
               PROVE  /\ Len(pre) = 7 /\ 1 \in 1..Len(pre) /\ 5 \in 1..Len(pre)
                      /\ Find(pre, "harness", 0) = pre[1]
                      /\ Find(pre, "home.isolated", 0) = pre[5]
                      /\ pre[5].step = "home.isolated"
    OBVIOUS
  <2>1. ManifestPlaced(pre)
    BY <1>1 DEF ManifestUsable
  <2>2. /\ Len(pre) = 7 /\ Find(pre, "harness", 0) = pre[1]
        /\ Find(pre, "home.isolated", 0) = pre[5]
    BY <2>1, PlacedIs DEF pre
  <2>3. 1 \in 1..Len(pre) /\ 5 \in 1..Len(pre)
    BY <2>2
  <2>4. pre[5].step = Contents("preflight")[5].step
    BY <1>1, <2>3, RecordIs DEF pre
  <2>5. Contents("preflight")[5].step = PreflightSteps[5] /\ PreflightSteps[5] = "home.isolated"
    BY PreflightIs DEF PreflightSteps
  <2> QED BY <2>2, <2>3, <2>4, <2>5
<1>9. ManifestUsable(e) => Manifest(e, "harness").files = 1
                           /\ Manifest(e, "home.isolated").home = Disposed
                           /\ (r.step = "home.identity" =>
                                 Manifest(e, "home.isolated").homeId = r.saw.homeId)
  <2> SUFFICES ASSUME ManifestUsable(e)
               PROVE  /\ Manifest(e, "harness").files = 1
                      /\ Manifest(e, "home.isolated").home = Disposed
                      /\ r.step = "home.identity" =>
                                 Manifest(e, "home.isolated").homeId = r.saw.homeId
    OBVIOUS
  <2>1. Manifest(e, "harness") = pre[1].saw /\ Manifest(e, "home.isolated") = pre[5].saw
    BY <1>1, <1>8 DEF Manifest, Saw
  <2>2. pre[1].saw.files = 1 /\ pre[5].saw.home = Disposed
    BY <1>1, <1>8 DEF Undisturbed, pre
  <2>3. r.step = "home.identity" => pre[5].saw.homeId = r.saw.homeId
    BY <1>8 DEF Undisturbed, pre
  <2> QED BY <2>1, <2>2, <2>3
<1> HIDE DEF r
<1>10. CASE check = "harnessMatchesManifest"
  BY <1>1, <1>2, <1>9, <1>10 DEF Derive, HarnessMatchesManifest, Verdict, r, e
<1>11. CASE check = "tokenMatchesManifest"
  <2>1. Measured(pre, "token.self", 0) => Find(pre, "token.self", 0).shell = r.shell
    <3> SUFFICES ASSUME Measured(pre, "token.self", 0) PROVE Find(pre, "token.self", 0).shell = r.shell
      OBVIOUS
    <3>1. PICK j \in 1..Len(pre) : Find(pre, "token.self", 0) = pre[j]
      BY <1>1, MeasuredIs DEF pre
    <3> QED BY <1>3, <1>5, <1>6, <3>1 DEF r, log
  <2>2. TokenMatchesManifest(r, e) # "mismatch"
    BY <1>1, <1>3, <1>4, <2>1 DEF TokenMatchesManifest, Verdict
  <2> QED BY <1>11, <2>2 DEF Derive, r, e
<1>12. CASE check = "homeMatchesManifest"
  <2>1. HomeMatchesManifest(r, e) # "mismatch"
    BY <1>2, <1>9, <1>12 DEF HomeMatchesManifest, Verdict, r
  <2> QED BY <1>12, <2>1 DEF Derive, r, e
<1>13. CASE check = "runControl"
  <2>1. ASSUME Measured(log, "process.identity", 0), Measured(log, "process.identity_after", 0)
        PROVE  Saw(log, "process.identity_after", 0).target = Saw(log, "process.identity", 0).target
    BY <1>7, <2>1
  <2>2. RunControl(r, e) # "mismatch"
    BY <1>1, <2>1 DEF RunControl, Verdict, SameInstance, Launched
  <2> QED BY <1>13, <2>2 DEF Derive, r, e
<1>14. CASE check = "imageLive"
  <2>1. ImageLive(r, e) # "mismatch"
    BY <1>2 DEF ImageLive, Verdict
  <2> QED BY <1>14, <2>1 DEF Derive, r, e
<1>15. CASE check = "codexToken"
  <2>1. RunUsable(e) => Declared(e) = l
    <3> SUFFICES ASSUME RunUsable(e) PROVE Declared(e) = l
      OBVIOUS
    <3>1. PICK j \in 1..Len(log) : Find(log, "run", 0) = log[j]
      BY <1>1, MeasuredIs DEF RunUsable, log
    <3> QED BY <1>1, <3>1 DEF Undisturbed, Declared, log
  <2>2. CodexToken(r, e) # "mismatch"
    BY <1>2, <1>3, <2>1 DEF CodexToken, Verdict
  <2> QED BY <1>15, <2>2 DEF Derive, r, e
<1>16. CASE check \in {"sampleProcess", "processAfterLive"}
  <2>1. ASSUME Measured(log, "process.identity", 0)
        PROVE  SameInstance(r.saw, e) /\ r.saw.codex = Launched(e).codex
    <3>1. Launched(e) = Saw(log, "process.identity", 0)
      BY <1>1 DEF Launched
    <3>2. r.saw.target = Saw(log, "process.identity", 0).target
      BY <1>7, <2>1
    <3>3. PICK j \in 1..Len(log) : Find(log, "process.identity", 0) = log[j]
      BY <1>1, <2>1, MeasuredIs DEF log
    <3>4. log[j].saw.codex = log[j].shell
      BY <1>1 DEF Undisturbed, log
    <3>5. log[j].shell = r.shell
      BY <1>3, <3>3 DEF r, log
    <3> QED BY <1>2, <3>1, <3>2, <3>3, <3>4, <3>5 DEF SameInstance, Saw
  <2>2. StillLive(r, e) # "mismatch"
    BY <1>1, <1>2, <2>1 DEF StillLive, Verdict
  <2> QED BY <1>16, <2>2 DEF Derive, r, e
<1>17. CASE check = "recorded"
  BY <1>17 DEF Derive
<1>18. CASE check = "oneThread"
  BY <1>2, <1>18 DEF Derive, Verdict, r
<1>19. CASE check = "conflicts"
  BY <1>2, <1>19 DEF Derive, Verdict, r
<1>20. CASE check = "rangeGuardBinding"
  <2>1. ASSUME SamplePaths(r.sample, e)
        PROVE  BoundBoth(r, Saw(log, "coordination.identity", r.sample).guard,
                            Saw(log, "thread.identity", r.sample).thread)
    <3>1. Measured(log, "coordination.identity", r.sample) /\ Measured(log, "thread.identity", r.sample)
      BY <1>1, <2>1 DEF SamplePaths
    <3>2. /\ r.saw.guard = Saw(log, "coordination.identity", r.sample).guard
          /\ r.saw.thread = Saw(log, "thread.identity", r.sample).thread
      BY <1>7, <3>1
    <3>3. r.before.guard = r.saw.guard /\ r.before.thread = r.saw.thread
      <4>1. r.step = "range.probe"
        BY <1>20 DEF r
      <4>2. /\ i \in 1..Len(Contents("observe")) /\ RecordHolds(l, "observe", i)
            /\ r.step = Contents("observe")[i].step /\ r \in Evidences
        BY <1>1, RecordIs DEF r
      <4>3. i # 1
        <5>1. Contents("observe")[i].step = "harness" <=> i = 1
          BY <4>2, ObservePlaces DEF Basis, EvidenceTypes
        <5> QED BY <4>1, <4>2, <5>1
      <4>4. 1 \in 1..(i - 1)
        BY <4>3
      <4>5. NoLater(log[1].saw, r.before) /\ NoLater(r.before, r.saw) /\ r.before \in Hosts
        BY <4>1, <4>2, <4>4 DEF RecordHolds, r, log
      <4>6. log[1].saw.thread = r.saw.thread /\ log[1].saw.guard = r.saw.guard
        BY <1>3 DEF Undisturbed, r, log
      <4>7. r.saw \in Hosts
        BY <4>2 DEF Evidences
      <4> QED BY <4>5, <4>6, <4>7 DEF NoLater, Hosts
    <3> QED BY <3>2, <3>3 DEF BoundBoth
  <2>2. RangeGuardBinding(r, e) # "mismatch"
    BY <1>1, <2>1 DEF RangeGuardBinding, Verdict
  <2> QED BY <1>20, <2>2 DEF Derive, r, e
<1>21. CASE check = "threadStable"
  <2>1. ThreadStable(r, e) # "mismatch"
    BY <1>1, <1>7 DEF ThreadStable, Verdict
  <2> QED BY <1>21, <2>1 DEF Derive, r, e
<1>22. CASE check = "openersRm"
  <2>1. ASSUME Measured(log, "process.identity", 0) PROVE SameInstance(r.saw, e)
    BY <1>1, <1>7, <2>1 DEF SameInstance, Launched
  <2>2. OpenersRm(r, e) # "mismatch"
    BY <1>1, <2>1 DEF OpenersRm, Verdict
  <2> QED BY <1>22, <2>2 DEF Derive, r, e
<1> QED BY <1>10, <1>11, <1>12, <1>13, <1>14, <1>15, <1>16, <1>17, <1>18, <1>19, <1>20, <1>21,
           <1>22

LEMMA MismatchIs ==
  ASSUME Basis, NEW l \in Range(Levels), NEW baseline, NEW given \in Expectations,
         Verdicts(Given(l, baseline))[given.id] = "mismatch"
  PROVE  \E mode \in {"preflight", "observe"} : \E r \in Range(logs[l][mode].log) : Deviates(l, mode, r)
<1> DEFINE e == Given(l, baseline)
           row == RowOf(given.id)
           log == Log(l, row.mode)
<1>1. row \in Expectations
  BY RowIs
<1> HIDE DEF row
<1>2. RowVerdict(row, e, UsableFiles(e)) = "mismatch"
  BY VerdictsAre DEF row
<1>3. row.mode \in Modes
  BY <1>1, RowTable
<1>4. e[row.mode] = logs[l][row.mode] /\ e[row.mode].log = log
  BY <1>3, GivenIs
<1> HIDE DEF e
<1>5. row.check # "unmeasurable" /\ row.mode \in UsableFiles(e)
  BY <1>2, VerdictIs
<1>6. PICK s \in Indices(row) : /\ Find(e[row.mode].log, row.step, s).usable
                                /\ Derive(row.check, Find(e[row.mode].log, row.step, s), e) = "mismatch"
  BY <1>2, VerdictIs
<1>7. PICK i \in 1..Len(log) : Find(log, row.step, s) = log[i] /\ log[i].step = row.step
  BY <1>3, <1>4, <1>6, MeasuredIs DEF Measured
<1>8. Derive(row.check, log[i], e) = "mismatch"
  BY <1>4, <1>6, <1>7
<1>9. FileLabel(log) # "none" /\ (row.mode = "observe" => RunLabel(e) # "none")
  BY <1>4, <1>5 DEF UsableFiles, FileSound
<1> SUFFICES ASSUME ~\E mode \in {"preflight", "observe"} :
                      \E r \in Range(logs[l][mode].log) : Deviates(l, mode, r)
             PROVE  FALSE
  OBVIOUS
<1>10. Undisturbed(l)
  BY <1>3, UndisturbedIs
<1>11. CASE row.mode = "preflight"
  BY <1>1, <1>8, <1>9, <1>10, <1>11, RowTable, PreflightAgrees DEF e
<1>12. CASE row.mode = "observe"
  BY <1>1, <1>5, <1>7, <1>8, <1>9, <1>10, <1>12, RowTable, ObserveAgrees DEF e
<1> QED BY <1>3, <1>11, <1>12 DEF Modes

\* The report is that of an evaluation of the files.
Evaluated ==
  \E baseline, explained \in BOOLEAN :
    LET me == Given("medium", baseline)
        he == Given("high", baseline)
    IN report = [medium |-> Summary(me), high |-> Summary(he),
                 status |-> PairStatus(Summary(me), Summary(he), me, he, explained)]

LEMMA ReportIs ==
  Basis /\ Evaluated =>
    /\ report.status \in {"compared", "fail", "unknown"}
    /\ {report.medium.w7, report.high.w7} \subseteq {"fail", "unknown"}
    /\ ReportIsSound
<1> SUFFICES ASSUME Basis, Evaluated
             PROVE  /\ report.status \in {"compared", "fail", "unknown"}
                    /\ {report.medium.w7, report.high.w7} \subseteq {"fail", "unknown"}
                    /\ ReportIsSound
  OBVIOUS
<1>1. PICK baseline \in BOOLEAN, explained \in BOOLEAN :
        LET me == Given("medium", baseline)
            he == Given("high", baseline)
        IN report = [medium |-> Summary(me), high |-> Summary(he),
                     status |-> PairStatus(Summary(me), Summary(he), me, he, explained)]
  BY DEF Evaluated
<1> DEFINE g(l) == Given(l, baseline)
           s(l) == Summary(g(l))
           st == PairStatus(s("medium"), s("high"), g("medium"), g("high"), explained)
<1>2. report.medium = s("medium") /\ report.high = s("high") /\ report.status = st
  BY <1>1
<1>3. ASSUME NEW l \in Range(Levels)
      PROVE  /\ s(l).level = l /\ s(l).rows = Verdicts(g(l)) /\ s(l).w7 \in {"fail", "unknown"}
             /\ s(l).w7 = "fail" => \E row \in Expectations : Verdicts(g(l))[row.id] = "mismatch"
             /\ s(l).sound = RunSound(g(l))
             /\ s(l).provenance # "unvalidated" =>
                  RunSound(g(l)) /\ \A id \in ProvenanceRows : Verdicts(g(l))[id] = "match"
  <2> DEFINE e == g(l)
  <2>1. e.level = l
    BY GivenIs
  <2> HIDE DEF e
  <2>2. LET t == Summary(e) IN
         /\ t.level = e.level /\ t.rows = Verdicts(e) /\ t.w7 \in {"fail", "unknown"}
         /\ t.w7 = "fail" => \E row \in Expectations : t.rows[row.id] = "mismatch"
         /\ t.sound = RunSound(e)
         /\ t.provenance # "unvalidated" =>
              RunSound(e) /\ \A id \in ProvenanceRows : t.rows[id] = "match"
    BY GateNever
  <2>3. LET t == Summary(e) IN
         /\ t.level = l /\ t.rows = Verdicts(e) /\ t.w7 \in {"fail", "unknown"}
         /\ t.w7 = "fail" => \E row \in Expectations : Verdicts(e)[row.id] = "mismatch"
         /\ t.sound = RunSound(e)
         /\ t.provenance # "unvalidated" =>
              RunSound(e) /\ \A id \in ProvenanceRows : Verdicts(e)[id] = "match"
    BY <2>1, <2>2
  <2> QED BY <2>3 DEF e
<1>4. {"medium", "high"} = Range(Levels)
  BY LevelsAre
<1>5. /\ st \in {"compared", "fail", "unknown"}
      /\ st = "fail" => \E row \in Expectations :
           "mismatch" \in {s("medium").rows[row.id], s("high").rows[row.id]}
      /\ st = "compared" =>
           /\ s("medium").provenance # "unvalidated" /\ s("high").provenance # "unvalidated"
           /\ \A t \in {s("medium"), s("high")} : t.rows["OB-openers"] \notin {"mismatch", "unknown"}
  BY PairIs
<1> HIDE DEF g, s, st
<1>6. ComparedIsBound
  <2> SUFFICES ASSUME st = "compared" PROVE \A l \in Range(Levels) : Bound(l)
    BY <1>2, <1>4 DEF ComparedIsBound, Bound
  <2>1. ASSUME NEW l \in Range(Levels)
        PROVE  /\ RunSound(Given(l, baseline))
               /\ \A id \in ProvenanceRows : Verdicts(Given(l, baseline))[id] = "match"
               /\ Verdicts(Given(l, baseline))["OB-openers"] = "match"
    <3>1. s(l).provenance # "unvalidated" /\ s(l).rows["OB-openers"] \notin {"mismatch", "unknown"}
      BY <1>4, <1>5
    <3>2. RunSound(g(l)) /\ \A id \in ProvenanceRows : Verdicts(g(l))[id] = "match"
      BY <1>3, <3>1
    <3> DEFINE op == Row("OB-openers", "observe", "openers.rm", "openersRm", TRUE)
    <3>3. op \in Expectations /\ op.id = "OB-openers"
      BY DEF Expectations, Row
    <3> HIDE DEF op
    <3>4. Verdicts(g(l))["OB-openers"] \in {"unknown", "mismatch", "match"}
      <4>1. Verdicts(g(l))["OB-openers"] = RowVerdict(RowOf("OB-openers"), g(l), UsableFiles(g(l)))
        BY <3>3, VerdictsAre
      <4> QED BY <4>1, VerdictIs
    <3>5. Verdicts(g(l))["OB-openers"] = "match"
      BY <1>3, <3>1, <3>4
    <3> QED BY <3>2, <3>5 DEF g
  <2> QED BY <2>1, BoundIs
<1>7. SampleIsOneThread
  <2>1. ASSUME NEW l \in Range(Levels), s(l).rows["OB-range-guard"] = "match",
               s(l).rows["OB-thread-stable"] = "match", NEW n \in 1..Samples
        PROVE  LET window(first, last) == Window(logs[s(l).level].observe.log, n, first, last)
               IN /\ Cardinality(Threads(window("thread.identity", "thread.identity_after"))) = 1
                  /\ Cardinality(Guards(window("coordination.identity", "range.probe"))) = 1
    <3>1. /\ Verdicts(Given(l, baseline))["OB-range-guard"] = "match"
          /\ Verdicts(Given(l, baseline))["OB-thread-stable"] = "match"
      BY <1>3, <2>1 DEF g
    <3>2. Log(l, "observe") = logs[l].observe.log /\ s(l).level = l
      BY <1>3 DEF Log
    <3> QED BY <3>1, <3>2, OneThread
  <2>2. \A t \in {report.medium, report.high} :
          (t.rows["OB-range-guard"] = "match" /\ t.rows["OB-thread-stable"] = "match") =>
            \A n \in 1..Samples :
              LET window(first, last) == Window(logs[t.level].observe.log, n, first, last)
              IN /\ Cardinality(Threads(window("thread.identity", "thread.identity_after"))) = 1
                 /\ Cardinality(Guards(window("coordination.identity", "range.probe"))) = 1
    BY <1>2, <1>4, <2>1
  <2> QED BY <2>2 DEF SampleIsOneThread, Window, Threads, Guards
<1>8. FailMeansContradiction
  <2> SUFFICES ASSUME "fail" \in {st, s("medium").w7, s("high").w7}
               PROVE  \E l \in Range(Levels), mode \in {"preflight", "observe"} :
                        \E r \in Range(logs[l][mode].log) : Deviates(l, mode, r)
    BY <1>2 DEF FailMeansContradiction, Deviates
  <2>1. \E l \in Range(Levels) : \E row \in Expectations : Verdicts(g(l))[row.id] = "mismatch"
    <3>1. CASE st = "fail"
      <4>1. PICK row \in Expectations : "mismatch" \in {s("medium").rows[row.id], s("high").rows[row.id]}
        BY <1>5, <3>1
      <4> QED BY <1>3, <1>4, <4>1
    <3>2. CASE s("medium").w7 = "fail"
      BY <1>3, <1>4, <3>2
    <3>3. CASE s("high").w7 = "fail"
      BY <1>3, <1>4, <3>3
    <3> QED BY <3>1, <3>2, <3>3
  <2>2. PICK l \in Range(Levels) : \E row \in Expectations : Verdicts(g(l))[row.id] = "mismatch"
    BY <2>1
  <2>3. PICK row \in Expectations : Verdicts(g(l))[row.id] = "mismatch"
    BY <2>2
  <2>4. \E mode \in {"preflight", "observe"} : \E r \in Range(logs[l][mode].log) : Deviates(l, mode, r)
    BY <2>3, MismatchIs DEF g
  <2> QED BY <2>4
<1>9. {report.medium.w7, report.high.w7} \subseteq {"fail", "unknown"}
  BY <1>2, <1>3, <1>4
<1> QED BY <1>2, <1>5, <1>6, <1>7, <1>8, <1>9 DEF ReportIsSound

\* Once there is a report, the files are what it was made of.
EvidenceInv == Basis /\ (report = None \/ (Over /\ Evaluated))

LEMMA InitEvidenceInv == ObserverInit => EvidenceInv
BY InitBasis DEF EvidenceInv, ObserverInit

LEMMA NextEvidenceInv == EvidenceInv /\ [ObserverStep]_observerVars => EvidenceInv'
<1> SUFFICES ASSUME EvidenceInv, [ObserverStep]_observerVars PROVE EvidenceInv'
  OBVIOUS
<1>1. Basis /\ (report = None \/ (Over /\ Evaluated)) /\ host \in Hosts
  BY DEF EvidenceInv, Basis, EvidenceTypes
<1>2. ASSUME ~Over, report' = report PROVE report' = None
  BY <1>1, <1>2
<1>3. CASE Open
  BY <1>1, <1>2, <1>3, OpenBasis DEF EvidenceInv, Open
<1>4. CASE BeginProbe
  BY <1>1, <1>2, <1>4, BeginProbeBasis DEF EvidenceInv, BeginProbe
<1>5. CASE Observe
  BY <1>1, <1>2, <1>5, ObserveBasis DEF EvidenceInv, Observe
<1>6. CASE Cut
  BY <1>1, <1>2, <1>6, CutBasis DEF EvidenceInv, Cut
<1>7. CASE Disturb
  BY <1>1, <1>2, <1>7, DisturbBasis DEF EvidenceInv, Disturb
<1>8. ASSUME UNCHANGED <<producer, host, at, session, logs, probed, faults>>
      PROVE  Basis' /\ Over' = Over /\ \A l, baseline : Given(l, baseline)' = Given(l, baseline)
  <2>1. NoLater(host, host')
    BY <1>1, <1>8 DEF NoLater, Hosts
  <2>2. Progress' /\ RecordsHold'
    BY <1>1, <1>8, <2>1, StayBasis, StayRecords
  <2>3. EvidenceTypes'
    BY <1>1, <1>8 DEF Basis, EvidenceTypes
  <2>4. Entry' = Entry /\ Campaign' = Campaign /\ Over' = Over
    BY <1>8, SamePlans DEF Entry, Over
  <2>5. HostHolds'
    <3>1. probed = None \/ NoLater(probed, host)
      BY <1>1 DEF Basis, HostHolds
    <3> QED BY <1>1, <1>8, <2>4, <3>1 DEF Basis, HostHolds
  <2>6. \A l, baseline : Given(l, baseline)' = Given(l, baseline)
    BY <1>8 DEF Given
  <2> QED BY <2>2, <2>3, <2>4, <2>5, <2>6 DEF Basis
<1>9. CASE Evaluate
  <2>1. Over /\ UNCHANGED <<producer, host, at, session, logs, probed, faults>>
    BY <1>9 DEF Evaluate
  <2>2. PICK baseline \in BOOLEAN, explained \in BOOLEAN :
          LET me == Given("medium", baseline)
              he == Given("high", baseline)
          IN report' = [medium |-> Summary(me), high |-> Summary(he),
                        status |-> PairStatus(Summary(me), Summary(he), me, he, explained)]
    BY <1>9 DEF Evaluate, Given
  <2>3. Given("medium", baseline)' = Given("medium", baseline)
        /\ Given("high", baseline)' = Given("high", baseline)
    BY <1>8, <2>1
  <2>4. Evaluated'
    BY <2>2, <2>3 DEF Evaluated
  <2> QED BY <1>8, <2>1, <2>4 DEF EvidenceInv
<1>10. CASE UNCHANGED observerVars
  <2>1. report' = report /\ UNCHANGED <<producer, host, at, session, logs, probed, faults>>
    BY <1>10 DEF observerVars
  <2>2. Evaluated => Evaluated'
    <3> SUFFICES ASSUME Evaluated PROVE Evaluated'
      OBVIOUS
    <3>1. PICK baseline \in BOOLEAN, explained \in BOOLEAN :
          LET me == Given("medium", baseline)
              he == Given("high", baseline)
          IN report = [medium |-> Summary(me), high |-> Summary(he),
                        status |-> PairStatus(Summary(me), Summary(he), me, he, explained)]
      BY DEF Evaluated
    <3>3. Given("medium", baseline)' = Given("medium", baseline)
          /\ Given("high", baseline)' = Given("high", baseline)
      BY <1>8, <2>1
    <3> QED BY <2>1, <3>1, <3>3 DEF Evaluated
  <2> QED BY <1>1, <1>8, <2>1, <2>2 DEF EvidenceInv
<1> QED BY <1>3, <1>4, <1>5, <1>6, <1>7, <1>9, <1>10 DEF ObserverStep

LEMMA EvidenceIsSound == EvidenceInv => ReportIsSound /\ ObserverTypeOK
<1> SUFFICES ASSUME EvidenceInv PROVE ReportIsSound /\ ObserverTypeOK
  OBVIOUS
<1>1. Basis /\ (report = None \/ Evaluated)
  BY DEF EvidenceInv
<1>2. ReportIsSound
  <2>1. CASE report = None
    BY <2>1 DEF ReportIsSound, ComparedIsBound, SampleIsOneThread, FailMeansContradiction, Reported
  <2> QED BY <1>1, <2>1, ReportIs
<1>3. report # None => /\ report.status \in {"compared", "fail", "unknown"}
                       /\ {report.medium.w7, report.high.w7} \subseteq {"fail", "unknown"}
  BY <1>1, ReportIs
<1>4. at \in 1..(Len(Campaign) + 1) /\ faults \in 0..Faults /\ producer \in {"contract", "dormant"}
  BY <1>1 DEF Basis, EvidenceTypes, Progress
<1>5. session.shell \in Shells \cup {"none"}
  BY <1>1 DEF Basis, EvidenceTypes, Closed, Sessions
<1>6. ASSUME NEW l \in Range(Levels), NEW mode \in {"preflight", "observe"}
      PROVE  /\ logs[l][mode].whole \in BOOLEAN
             /\ \A r \in Range(logs[l][mode].log) : r.usable \in BOOLEAN /\ r.shell \in Shells
  <2>1. mode \in Modes /\ EvidenceTypes
    BY <1>1 DEF Modes, Basis
  <2>2. logs[l][mode] \in Files /\ DOMAIN Log(l, mode) = 1..Len(Log(l, mode))
        /\ \A i \in 1..Len(Log(l, mode)) : Log(l, mode)[i] \in Evidences
    BY <2>1, FilesTyped
  <2>3. logs[l][mode].whole \in BOOLEAN
    BY <2>2 DEF Files
  <2>4. \A r \in Range(logs[l][mode].log) : r \in Evidences
    BY <2>2 DEF Range, Log
  <2>5. \A r \in Evidences : r.usable \in BOOLEAN /\ r.shell \in Shells
    BY DEF Evidences
  <2> QED BY <2>3, <2>4, <2>5
<1> QED BY <1>2, <1>3, <1>4, <1>5, <1>6 DEF ObserverTypeOK

-----------------------------------------------------------------------------
(* The tools together.                                                     *)

\* The three tools' invariants; a step of one leaves the others' variables.
ToolingInv == ReleaseInv /\ EvidenceInv /\ IsolatedInv

LEMMA ToolingInitInv == ToolingInit => ToolingInv
BY InitReleaseInv, InitEvidenceInv, InitIsolatedInv DEF ToolingInit, ToolingInv

LEMMA ToolingNextInv == ToolingInv /\ [ToolingNext]_toolingVars => ToolingInv'
<1> SUFFICES ASSUME ReleaseInv, EvidenceInv, IsolatedInv, [ToolingNext]_toolingVars
             PROVE  ReleaseInv' /\ EvidenceInv' /\ IsolatedInv'
  BY DEF ToolingInv
<1>1. [ReleaseStep]_releaseVars
  BY DEF ToolingNext, toolingVars, Releasing, Judging, InChild, InParent, Around
<1>2. [ObserverStep]_observerVars
  BY DEF ToolingNext, toolingVars, Releasing, Judging, InChild, InParent, Around
<1>3. [IsolatedNext]_isolatedVars
  BY DEF ToolingNext, toolingVars, Releasing, Judging, InChild, InParent, Around, IsolatedNext
<1> QED BY <1>1, <1>2, <1>3, NextReleaseInv, NextEvidenceInv, NextIsolatedInv

LEMMA ToolingHolds == ToolingSpec => []ToolingInv
BY ToolingInitInv, ToolingNextInv, PTL DEF ToolingSpec

\* Whatever a run of the release workflow resumes, repeats or finds changed, a
\* release never holds the assets of two builds, and its one build is of a merged
\* release PR under the control files of the checkout
\* (windows-prerelease.mjs, resolve and attach).
THEOREM ReleaseOneReviewedBuild == ToolingSpec => []OneReviewedBuild
<1>1. ToolingInv => OneReviewedBuild
  BY ReleaseIsSound DEF ToolingInv
<1> QED BY <1>1, ToolingHolds, PTL

\* However many samples are taken, whatever is disturbed between two records and
\* however often the campaign breaks off: levels are compared only if both files
\* are complete, of the baseline's observer, of one home and of one instance of
\* the target; rows that match are of one thread lock and one guard in every
\* sample; and a failed hypothesis has a deviation in the files behind it
\* (evaluate.mjs, pair and wSummary).
THEOREM EvidenceReportIsSound == ToolingSpec => []ReportIsSound
<1>1. ToolingInv => ReportIsSound
  BY EvidenceIsSound DEF ToolingInv
<1> QED BY <1>1, ToolingHolds, PTL

\* A collected result has no fault exactly when the child's record is whole, any
\* result names as ended only stages that have ended, and a child whose parent
\* has gone begins at most one more (isolated-observer.mjs, runIsolated and
\* childStages).
THEOREM IsolatedObservationIsWhole == ToolingSpec => []ObservationIsWhole
<1>1. ToolingInv => ObservationIsWhole
  BY IsolatedIsSound DEF ToolingInv
<1> QED BY <1>1, ToolingHolds, PTL

\* The variables of the three tools keep their types (windows-prerelease.mjs, the
\* observer's records and report, and the child and its parent).
THEOREM ToolingTypeCorrect == ToolingSpec => []ToolingTypeOK
<1>1. ToolingInv => ToolingTypeOK
  BY ReleaseIsSound, EvidenceIsSound, IsolatedIsSound DEF ToolingInv, ToolingTypeOK
<1> QED BY <1>1, ToolingHolds, PTL
=============================================================================
