-------------------------- MODULE ObserverEvidence --------------------------
(***************************************************************************)
(* The offline evaluator of the Windows native observer                    *)
(* (src/experimental/windows-native-observer): lib.mjs and the table of    *)
(* expectations.mjs.  A producer writes one preflight and one observe file *)
(* for each integrity level while the host it measures may change under    *)
(* it, a query may be denied and a file may end early; then the evaluator  *)
(* judges every row, the provenance of each level and the pair.            *)
(*                                                                         *)
(* A record holds `saw', the whole host at the moment of the query; a      *)
(* derivation reads of it only what its step records.  What else changed   *)
(* between two records is there for the properties.  Identities (creation  *)
(* times, file IDs, digests) are numbers that are never used again.        *)
(***************************************************************************)
EXTENDS Naturals, Sequences, FiniteSets, SequencesExt

CONSTANTS
  Samples,  \* the sample count of the control record
  Faults    \* how often the host, the producer or the operator goes wrong

ASSUME ObserverAssumption == Samples \in Nat \ {0} /\ Faults \in Nat

Levels == <<"medium", "high">>

VARIABLES
  producer, \* "contract", or "dormant": observer.ps1 as it stands
  host,     \* what a query would see now
  at,       \* the next entry of Campaign
  session,  \* the producer's invocation: its shell and arguments
  logs,     \* logs[l][mode]: the file of that level
  probed,   \* what the guarded probe verified before its locks
  faults,   \* those so far
  report    \* what the evaluator printed for the pair

observerVars == <<producer, host, at, session, logs, probed, faults, report>>

-----------------------------------------------------------------------------
(* Paths: a drive and its components.                                      *)

UserHome == <<"c:", "users", "codex">>
NoHome == <<>>
Disposable == "codex-win-obs"

\* windowsPathRelation
Relation(a, b) ==
  CASE a = b -> "same"
    [] IsStrictPrefix(b, a) -> "inside"
    [] IsStrictPrefix(a, b) -> "contains"
    [] OTHER -> "disjoint"

InsideDisposableDir(p) == \E i \in 2..Len(p) : p[i] = Disposable

\* pathGateSafe: null is TRUE.
PathGateSafe(p, env) ==
  /\ Relation(p, UserHome) = "disjoint"
  /\ env # NoHome => Relation(p, env) = "disjoint"
  /\ ~InsideDisposableDir(p)

\* tempRootSafeForCreation, the gate of guardedCreate.
TempRootSafe(temp, env) == PathGateSafe(temp, env)

-----------------------------------------------------------------------------
(* The steps and the table.                                                *)

PreflightSteps == <<"harness", "token.self", "binary.sha256", "host.facts",
                    "home.isolated", "binary.version", "manifest">>

\* SAMPLE_STEPS
SampleSteps == <<"process.sample", "lockdir.identity", "coordination.identity",
  "thread.count", "thread.identity", "openers.rm", "share.read_rwd",
  "share.delete_rwd", "range.probe", "thread.identity_after">>

Row(id, mode, step, check, w6) ==
  [id |-> id, mode |-> mode, step |-> step, check |-> check, w6 |-> w6]

\* EXPECTATIONS.  One row stands for the host facts that are only recorded and
\* one for the three ranges that a holder's lock covers.
Expectations == {
  Row("PF-harness", "preflight", "harness", "harnessBaseline", TRUE),
  Row("PF-token", "preflight", "token.self", "tokenIntegrity", TRUE),
  Row("PF-binary-sha256", "preflight", "binary.sha256", "binaryBaseline", FALSE),
  Row("PF-host", "preflight", "host.facts", "recorded", TRUE),
  Row("PF-home", "preflight", "home.isolated", "homeIsolated", FALSE),
  Row("PF-binary-version", "preflight", "binary.version", "binaryBaseline", FALSE),
  Row("PF-manifest", "preflight", "manifest", "manifestBaseline", FALSE),
  Row("OB-harness", "observe", "harness", "harnessMatchesManifest", TRUE),
  Row("OB-token", "observe", "token.self", "tokenMatchesManifest", TRUE),
  Row("OB-home", "observe", "home.identity", "homeMatchesManifest", FALSE),
  Row("OB-run", "observe", "run", "runControl", TRUE),
  Row("OB-process", "observe", "process.identity", "imageLive", TRUE),
  Row("OB-process-token", "observe", "process.identity", "codexToken", TRUE),
  Row("OB-process-sample", "observe", "process.sample", "sampleProcess", FALSE),
  Row("OB-lockdir", "observe", "lockdir.identity", "recorded", FALSE),
  Row("OB-guard", "observe", "coordination.identity", "recorded", FALSE),
  Row("OB-thread-count", "observe", "thread.count", "oneThread", FALSE),
  Row("OB-thread-identity", "observe", "thread.identity", "recorded", FALSE),
  Row("OB-share-read-rwd", "observe", "share.read_rwd", "recorded", FALSE),
  Row("OB-share-delete-rwd", "observe", "share.delete_rwd", "recorded", FALSE),
  Row("OB-ranges", "observe", "range.probe", "conflicts", FALSE),
  Row("OB-range-guard", "observe", "range.probe", "rangeGuardBinding", FALSE),
  Row("OB-thread-stable", "observe", "thread.identity_after", "threadStable", FALSE),
  Row("OB-openers", "observe", "openers.rm", "openersRm", TRUE),
  Row("OB-coordination-range", "observe", "coordination.range", "unmeasurable", FALSE),
  Row("OB-process-after", "observe", "process.identity_after", "processAfterLive", FALSE)}

RowOf(id) == CHOOSE row \in Expectations : row.id = id

ProvenanceRows == {"PF-harness", "PF-token", "PF-home", "PF-binary-sha256",
  "PF-binary-version", "PF-manifest", "OB-harness", "OB-token", "OB-home", "OB-run"}

Sampled == Range(SampleSteps)

\* The complete, contiguous samples.
SampleSequence ==
  [i \in 1..(Samples * Len(SampleSteps)) |->
     [step |-> SampleSteps[((i - 1) % Len(SampleSteps)) + 1],
      sample |-> ((i - 1) \div Len(SampleSteps)) + 1]]

-----------------------------------------------------------------------------
(* Files and records.                                                      *)

None == [usable |-> FALSE]

Find(log, step, sample) ==
  LET found == {i \in DOMAIN log : log[i].step = step /\ log[i].sample = sample}
  IN IF found = {} THEN None ELSE log[Min(found)]

Measured(log, step, sample) == Find(log, step, sample).usable

\* A record is of use to another record's derivation.
Saw(log, step, sample) == Find(log, step, sample).saw

LevelOf(shell) == IF shell = "full" THEN "high" ELSE "medium"

\* validateObserverFile's label: one token, of the declared level.
FileLabel(log) ==
  IF /\ log # <<>>
     /\ \A r \in Range(log) : r.shell = log[1].shell /\ r.level = LevelOf(r.shell)
  THEN log[1].level ELSE "none"

Positions(log, steps) == {i \in DOMAIN log : log[i].step \in steps}

\* The control and process records bracket the samples.
Brackets(log) ==
  \A i \in Positions(log, Sampled) :
    /\ \A step \in {"run", "process.identity"} :
         \E j \in Positions(log, {step}) : j < i
    /\ \E j \in Positions(log, {"process.identity_after"}) : j > i

InSequence(log) ==
  LET samples == SelectSeq(log, LAMBDA r : r.step \in Sampled)
  IN [i \in DOMAIN samples |->
        [step |-> samples[i].step, sample |-> samples[i].sample]] = SampleSequence

\* validateObserverFile and parseJsonl: no problem in the file.
FileSound(file, mode) ==
  /\ file.whole
  /\ FileLabel(file.log) # "none"
  /\ \A i, j \in DOMAIN file.log :
       i # j => <<file.log[i].step, file.log[i].sample>> # <<file.log[j].step, file.log[j].sample>>
  /\ (mode = "observe" /\ Measured(file.log, "run", 0)) =>
       InSequence(file.log) /\ Brackets(file.log)

\* validateManifestPlacement
ManifestPlaced(log) ==
  /\ log # <<>> /\ Last(log).step = "manifest"
  /\ Measured(log, "manifest", 0)
  /\ \A step \in Range(PreflightSteps) : Cardinality(Positions(log, {step})) = 1

-----------------------------------------------------------------------------
(* The derivations.  e is what the evaluator was given for a level.        *)

Verdict(unknown, mismatch) ==
  IF unknown THEN "unknown" ELSE IF mismatch THEN "mismatch" ELSE "match"

Baseline == [files |-> 1, binary |-> 1]

RunLabel(e) ==
  LET pre == FileLabel(e.preflight.log) IN
  IF pre = FileLabel(e.observe.log) THEN pre ELSE "none"

\* homeContractProblems: the recorded paths, relations, owner, DACL and
\* ancestry of the disposable home.
HomeContract(o) ==
  /\ Relation(o.home, UserHome) = "disjoint"
  /\ o.env # NoHome => Relation(o.home, o.env) = "disjoint"
  /\ o.home[Len(o.home) - 1] = Disposable
  /\ o.private

\* reconstructManifest: what it is compared with must be usable, and the
\* manifest repeats it.
Reconstructed(e) ==
  \A step \in {"harness", "token.self", "binary.sha256", "home.isolated", "binary.version"} :
    Measured(e.preflight.log, step, 0)

ManifestUsable(e) == ManifestPlaced(e.preflight.log)

\* What the manifest holds of a step's observation.
Manifest(e, step) == Saw(e.preflight.log, step, 0)

HarnessBaseline(r, e) ==
  Verdict(~e.baseline, r.saw.files # Baseline.files)

TokenIntegrity(r, e) ==
  Verdict(RunLabel(e) = "none", LevelOf(r.shell) # RunLabel(e))

\* binarySha256Baseline and binaryVersion: the expected values are the
\* baseline's, and the version is read from the bytes that are there then.
BinaryBaseline(r, e) ==
  IF r.saw.binary # Baseline.binary THEN "mismatch"
  ELSE Verdict(~e.baseline, FALSE)

HomeIsolated(r, e) ==
  Verdict(~Measured(e.preflight.log, "token.self", 0), ~HomeContract(r.saw))

ManifestBaseline(r, e) ==
  Verdict(~Reconstructed(e) \/ RunLabel(e) = "none" \/ ~e.baseline,
          \/ Manifest(e, "harness").files # Baseline.files
          \/ Manifest(e, "binary.sha256").binary # Baseline.binary
          \/ Manifest(e, "binary.version").binary # Baseline.binary)

HarnessMatchesManifest(r, e) ==
  Verdict(~ManifestUsable(e),
          \/ r.reference # e.level
          \/ r.saw.files # Manifest(e, "harness").files)

TokenMatchesManifest(r, e) ==
  IF RunLabel(e) = "none" THEN "unknown"
  ELSE IF LevelOf(r.shell) # RunLabel(e) THEN "mismatch"
  ELSE Verdict(~ManifestUsable(e) \/ ~Measured(e.preflight.log, "token.self", 0),
               r.shell # Find(e.preflight.log, "token.self", 0).shell)

HomeMatchesManifest(r, e) ==
  Verdict(~Measured(e.observe.log, "token.self", 0) \/ ~ManifestUsable(e),
          \/ r.saw.home # Manifest(e, "home.isolated").home
          \/ r.saw.homeId # Manifest(e, "home.isolated").homeId
          \/ ~HomeContract(r.saw))

Launched(e) == Saw(e.observe.log, "process.identity", 0)

\* A faulty binding to the PID alone.
SamePid(o, e) == TRUE

\* The same creation FILETIME as in the first process record.
SameInstance(o, e) == o.target = Launched(e).target

RunControl(r, e) ==
  Verdict(\/ ~Measured(e.observe.log, "token.self", 0)
          \/ ~Measured(e.observe.log, "process.identity", 0)
          \/ ~Measured(e.observe.log, "process.identity_after", 0)
          \/ RunLabel(e) = "none",
          ~SameInstance(Saw(e.observe.log, "process.identity_after", 0), e))

RunUsable(e) == Measured(e.observe.log, "run", 0)

ImageLive(r, e) ==
  IF ~r.saw.live THEN "mismatch" ELSE Verdict(~RunUsable(e) \/ ~ManifestUsable(e), FALSE)

\* sampleProcess and processAfterLive
StillLive(r, e) ==
  IF ~r.saw.live THEN "mismatch"
  ELSE Verdict(~RunUsable(e) \/ ~Measured(e.observe.log, "process.identity", 0),
               ~SameInstance(r.saw, e) \/ r.saw.codex # Launched(e).codex)

\* codexLabel: the level that the operator declared for the target.
Declared(e) == Find(e.observe.log, "run", 0).declared

CodexToken(r, e) == Verdict(~RunUsable(e), LevelOf(r.saw.codex) # Declared(e))

\* samplePaths and sampleIdentityProblem
SamplePaths(s, e) ==
  /\ ManifestUsable(e) /\ Measured(e.observe.log, "thread.count", s)
  /\ Saw(e.observe.log, "thread.count", s).threads = 1
  /\ \A step \in {"lockdir.identity", "coordination.identity", "thread.identity",
                  "thread.identity_after"} :
       Measured(e.observe.log, step, s)

ThreadStable(r, e) ==
  Verdict(~Measured(e.observe.log, "thread.identity", r.sample),
          r.saw.thread # Saw(e.observe.log, "thread.identity", r.sample).thread)

\* The identities that the probe verified before and after its locks.
BoundBoth(r, guard, thread) ==
  \A o \in {r.before, r.saw} : o.guard = guard /\ o.thread = thread

RangeGuardBinding(r, e) ==
  Verdict(~SamplePaths(r.sample, e),
          ~BoundBoth(r, Saw(e.observe.log, "coordination.identity", r.sample).guard,
                        Saw(e.observe.log, "thread.identity", r.sample).thread))

\* The target's entry has the creation time of the launched instance.
OpenersRm(r, e) ==
  Verdict(\/ ~RunUsable(e) \/ ~SamplePaths(r.sample, e)
          \/ ~Measured(e.observe.log, "process.identity", 0),
          r.saw.live /\ ~SameInstance(r.saw, e))

Derive(check, r, e) ==
  CASE check = "harnessBaseline" -> HarnessBaseline(r, e)
    [] check = "tokenIntegrity" -> TokenIntegrity(r, e)
    [] check = "binaryBaseline" -> BinaryBaseline(r, e)
    [] check = "homeIsolated" -> HomeIsolated(r, e)
    [] check = "manifestBaseline" -> ManifestBaseline(r, e)
    [] check = "harnessMatchesManifest" -> HarnessMatchesManifest(r, e)
    [] check = "tokenMatchesManifest" -> TokenMatchesManifest(r, e)
    [] check = "homeMatchesManifest" -> HomeMatchesManifest(r, e)
    [] check = "runControl" -> RunControl(r, e)
    [] check = "imageLive" -> ImageLive(r, e)
    [] check = "codexToken" -> CodexToken(r, e)
    [] check \in {"sampleProcess", "processAfterLive"} -> StillLive(r, e)
    [] check = "oneThread" -> Verdict(FALSE, r.saw.threads # 1)
    [] check = "conflicts" -> Verdict(FALSE, ~r.saw.held)
    [] check = "rangeGuardBinding" -> RangeGuardBinding(r, e)
    [] check = "threadStable" -> ThreadStable(r, e)
    [] check = "openersRm" -> OpenersRm(r, e)
    [] check = "recorded" -> "match"

-----------------------------------------------------------------------------
(* evaluateRun and pairSummaries.                                          *)

ManifestReferenced(e) ==
  \E r \in Range(e.observe.log) : r.step = "harness" /\ r.usable /\ r.reference = e.level

\* The problems of a run that no row owns: there are none.
RunSound(e) ==
  /\ FileSound(e.preflight, "preflight") /\ FileSound(e.observe, "observe")
  /\ RunLabel(e) = e.level
  /\ e.baseline /\ RunUsable(e)
  /\ ManifestUsable(e) /\ ManifestReferenced(e)

\* The files that rows may be judged by.
UsableFiles(e) == {mode \in {"preflight", "observe"} :
  /\ FileSound(e[mode], mode)
  /\ mode = "observe" => RunLabel(e) # "none" /\ ManifestReferenced(e)}

\* rowFor, of one record: what is missing, denied, partial or carries other
\* expectations is unknown before it is judged.
Judge(row, r, e) ==
  IF ~r.usable \/ r.saw.drifted THEN "unknown" ELSE Derive(row.check, r, e)

\* rowFor
RowVerdict(row, e, files) ==
  LET log == e[row.mode].log
      indices == IF row.step \in Sampled THEN 1..Samples ELSE {0}
      verdicts == {Judge(row, Find(log, row.step, s), e) : s \in indices}
  IN IF \/ row.check = "unmeasurable" \/ row.mode \notin files
        \/ (row.step \in Sampled /\ ~RunUsable(e))
     THEN "unknown"
     ELSE Verdict("mismatch" \notin verdicts /\ "unknown" \in verdicts,
                  "mismatch" \in verdicts)

Verdicts(e) ==
  LET files == UsableFiles(e)
  IN [id \in {row.id : row \in Expectations} |-> RowVerdict(RowOf(id), e, files)]

\* A faulty gate that asks for failures only.
PassUnlessFailed(verdicts, sound) ==
  IF ~sound THEN "unknown"
  ELSE IF "mismatch" \in Range(verdicts) THEN "fail"
  ELSE "pass"

GateOf(verdicts, sound) ==
  IF ~sound THEN "unknown"
  ELSE IF "mismatch" \in Range(verdicts) THEN "fail"
  ELSE IF "unknown" \in Range(verdicts) THEN "unknown"
  ELSE "pass"

\* pickValues: the values that the two levels are compared by.
Values(e, id) ==
  CASE id \in {"PF-token", "OB-token"} ->
         {r.shell : r \in {Find(e[RowOf(id).mode].log, "token.self", 0)} \ {None}}
    [] id = "OB-process-token" ->
         {r.saw.codex : r \in {Find(e.observe.log, "process.identity", 0)} \ {None}}
    [] OTHER -> {}

\* evaluateRun, with provenanceOf.
Summary(e) ==
  LET verdicts == Verdicts(e)
      sound == RunSound(e) IN
  [level |-> e.level, sound |-> sound, rows |-> verdicts, w7 |-> GateOf(verdicts, sound),
   sameLevel |-> RunUsable(e) /\ RunLabel(e) = Declared(e),
   provenance |-> IF sound /\ \A id \in ProvenanceRows : verdicts[id] = "match"
                  THEN "validated" ELSE "unvalidated"]

W6Rows == {row.id : row \in {x \in Expectations : x.w6}}

\* pairSummaries: a mismatch fails whatever is explained; what is unknown,
\* unvalidated or different without an explanation is not compared.
PairStatus(m, h, me, he, explained) ==
  LET failed == {id \in W6Rows \cup ProvenanceRows : "mismatch" \in {m.rows[id], h.rows[id]}}
      unknown == {id \in W6Rows : "unknown" \in {m.rows[id], h.rows[id]}}
      different == {id \in W6Rows :
        \/ m.rows[id] # h.rows[id] \/ Values(me, id) # Values(he, id)}
  IN IF failed # {} THEN "fail"
     ELSE IF \/ ~m.sound \/ ~h.sound \/ ~m.sameLevel \/ ~h.sameLevel
             \/ "unvalidated" \in {m.provenance, h.provenance}
             \/ unknown # {} \/ (different # {} /\ ~explained)
     THEN "unknown"
     ELSE "compared"

-----------------------------------------------------------------------------
(* The campaign: for each level a preflight file, the launch of the target *)
(* and an observe file.                                                    *)

Entries(level, mode, steps) ==
  [i \in DOMAIN steps |-> [level |-> level, mode |-> mode,
                           step |-> steps[i].step, sample |-> steps[i].sample]]

Single(steps) == [i \in DOMAIN steps |-> [step |-> steps[i], sample |-> 0]]

\* observer.ps1 records the re-query of the process after its sample.
SampleOrder(p) ==
  IF p = "contract" THEN SampleSequence
  ELSE LET n == Len(SampleSteps)
       IN [i \in DOMAIN SampleSequence |->
             IF i % n = 0 THEN SampleSequence[i - n + 1] ELSE SampleSequence[i + 1]]

ObserveOrder(p) ==
  Single(<<"harness", "token.self", "home.identity", "run", "process.identity">>)
  \o SampleOrder(p) \o Single(<<"process.identity_after">>)

LevelEntries(p, level) ==
  Entries(level, "preflight", Single(PreflightSteps))
  \o Entries(level, "observe", ObserveOrder(p))

Campaigns == [p \in {"contract", "dormant"} |->
               LevelEntries(p, "medium") \o LevelEntries(p, "high")]

Campaign == Campaigns[producer]
Entry == Campaign[at]
Over == at > Len(Campaign)

\* The temp roots that a host may have, the last two of them refused.
Temps == {<<"c:", "temp">>, UserHome \o <<"tmp">>, <<"d:", Disposable, "tmp">>}

Shells == {"limited", "default", "full"}
Closed == [shell |-> "none", reference |-> "none", declared |-> "none"]
Empty == [log |-> <<>>, whole |-> TRUE]

ObserverInit ==
  /\ producer \in {"contract", "dormant"}
  /\ host = [files |-> 1, binary |-> 1, home |-> <<>>, homeId |-> 0,
             env |-> <<"d:", "codex">>, private |-> TRUE, target |-> 0,
             live |-> FALSE, codex |-> "limited", threads |-> 0, thread |-> 0,
             guard |-> 0, held |-> FALSE, drifted |-> FALSE]
  /\ at = 1 /\ session = Closed
  /\ logs = [l \in Range(Levels) |-> [preflight |-> Empty, observe |-> Empty]]
  /\ probed = None /\ faults = 0 /\ report = None

\* One more thing went wrong.
Slip(more) == faults' = faults + more /\ faults' <= Faults

\* The shell that the level needs.
Nominal(level) == IF level = "high" THEN {"full"} ELSE {"limited"}

\* The operator runs the producer: preflight creates the disposable home,
\* observe is told of the target that was launched there.
Open ==
  /\ ~Over /\ session = Closed
  /\ \E shell \in Shells, reference, declared \in Range(Levels) :
       /\ session' = [shell |-> shell, reference |-> reference, declared |-> declared]
       /\ Slip((IF shell \in Nominal(Entry.level) THEN 0 ELSE 1)
               + Cardinality({l \in {reference, declared} : l # Entry.level}))
       /\ IF Entry.mode = "preflight"
          THEN \E temp \in Temps :
                 /\ reference = Entry.level /\ declared = Entry.level
                 /\ TempRootSafe(temp, host.env)
                 /\ host' = [host EXCEPT !.homeId = @ + 1, !.private = TRUE,
                                         !.home = temp \o <<Disposable, "home">>]
          ELSE host' = [host EXCEPT !.target = @ + 1, !.live = TRUE, !.codex = shell,
                                    !.threads = 1, !.thread = @ + 1, !.guard = @ + 1,
                                    !.held = TRUE]
  /\ UNCHANGED <<producer, at, logs, probed, report>>

\* The guarded probe verifies the identities and takes its locks.
BeginProbe ==
  /\ ~Over /\ session # Closed /\ Entry.step = "range.probe" /\ probed = None
  /\ probed' = host
  /\ UNCHANGED <<producer, host, at, session, logs, faults, report>>

Deferred(step) ==
  producer = "dormant" /\ step \in {"openers.rm", "share.read_rwd", "share.delete_rwd"}

FileEnds == at = Len(Campaign) \/ Campaign[at + 1].mode # Entry.mode

\* The producer queries and records, or is denied.
Observe ==
  /\ ~Over /\ session # Closed
  /\ Entry.step = "range.probe" => probed # None
  /\ \E answered \in BOOLEAN :
       /\ Slip(IF answered THEN 0 ELSE 1)
       /\ logs' = [logs EXCEPT ![Entry.level][Entry.mode].log = Append(@,
            [step |-> Entry.step, sample |-> Entry.sample,
             usable |-> /\ answered /\ ~Deferred(Entry.step)
                        /\ Entry.step = "manifest" => \A r \in Range(@) : r.usable,
             level |-> Entry.level, shell |-> session.shell,
             reference |-> session.reference, declared |-> session.declared,
             before |-> probed, saw |-> host])]
  /\ at' = at + 1 /\ probed' = None
  /\ session' = IF FileEnds THEN Closed ELSE session
  /\ UNCHANGED <<producer, host, report>>

\* The producer gives up or dies; the last line may be cut.
Cut ==
  /\ ~Over /\ session # Closed /\ Slip(1)
  /\ \E whole \in BOOLEAN :
       logs' = [logs EXCEPT ![Entry.level][Entry.mode].whole = whole]
  /\ at' = CHOOSE i \in (at + 1)..(Len(Campaign) + 1) :
       /\ i > Len(Campaign) \/ Campaign[i].mode # Entry.mode
       /\ \A j \in at..(i - 1) : Campaign[j].mode = Entry.mode
  /\ session' = Closed /\ probed' = None
  /\ UNCHANGED <<producer, host, report>>

\* What may become of the host at any time.
Disturbed(h) == {
  [h EXCEPT !.files = 2], [h EXCEPT !.binary = 2], [h EXCEPT !.homeId = @ + 1],
  [h EXCEPT !.env = <<"c:">>], [h EXCEPT !.private = FALSE],
  [h EXCEPT !.live = FALSE, !.held = FALSE],
  [h EXCEPT !.target = @ + 1, !.live = TRUE], [h EXCEPT !.thread = @ + 1],
  [h EXCEPT !.guard = @ + 1], [h EXCEPT !.threads = 2], [h EXCEPT !.held = FALSE],
  [h EXCEPT !.drifted = TRUE]}

Disturb ==
  /\ ~Over /\ Slip(1)
  /\ host' \in Disturbed(host) \ {host}
  /\ UNCHANGED <<producer, at, session, logs, probed, report>>

\* evaluate.mjs pair, with or without explanations for every difference.
Evaluate ==
  /\ Over /\ report = None
  /\ \E baseline, explained \in BOOLEAN :
       LET given(l) == [level |-> l, baseline |-> baseline,
                        preflight |-> logs[l].preflight, observe |-> logs[l].observe]
           m == Summary(given("medium"))
           h == Summary(given("high"))
       IN report' = [medium |-> m, high |-> h,
                     status |-> PairStatus(m, h, given("medium"), given("high"), explained)]
  /\ UNCHANGED <<producer, host, at, session, logs, probed, faults>>

ObserverStep == Open \/ BeginProbe \/ Observe \/ Cut \/ Disturb \/ Evaluate

-----------------------------------------------------------------------------
\* The types; a W7 gate never passes, for one of its rows cannot be measured.
ObserverTypeOK ==
  /\ producer \in {"contract", "dormant"}
  /\ at \in 1..(Len(Campaign) + 1) /\ faults \in 0..Faults
  /\ session.shell \in Shells \cup {"none"}
  /\ \A l \in Range(Levels), mode \in {"preflight", "observe"} :
       /\ logs[l][mode].whole \in BOOLEAN
       /\ \A r \in Range(logs[l][mode].log) : r.usable \in BOOLEAN /\ r.shell \in Shells
  /\ report # None => /\ report.status \in {"compared", "fail", "unknown"}
                      /\ {report.medium.w7, report.high.w7} \subseteq {"fail", "unknown"}

Reported == report # None

\* What the host was at the records of a file that some step made.
Sights(l, mode, steps) ==
  {logs[l][mode].log[i].saw : i \in Positions(logs[l][mode].log, steps)}

\* The host stayed the same in a field over a file's records.
Steady(l, field) ==
  \A a, b \in {r.saw : r \in Range(logs[l]["observe"].log)} : a[field] = b[field]

\* Two levels are compared only if nobody can have mixed up what they are
\* about: each file is complete and of its level's token, both observers ran
\* the baseline's bytes, the disposable home is the one preflight made, and
\* one instance of the target lived from the first process record to the last.
ComparedIsBound ==
  (Reported /\ report.status = "compared") =>
    /\ producer = "contract"
    /\ \A l \in Range(Levels) :
         /\ Len(logs[l].preflight.log) + Len(logs[l].observe.log)
              = Len(LevelEntries(producer, l))
         /\ \A mode \in {"preflight", "observe"} :
              \A o \in Sights(l, mode, {"harness"}) : o.files = Baseline.files
         /\ Sights(l, "observe", {"home.identity"}) # {}
         /\ \A o \in Sights(l, "observe", {"home.identity"}) :
              \A p \in Sights(l, "preflight", {"home.isolated"}) : o.homeId = p.homeId
         /\ \A a, b \in Sights(l, "observe", {"process.identity", "process.identity_after"}) :
              a.target = b.target
         /\ \A r \in Range(logs[l].preflight.log) \cup Range(logs[l].observe.log) :
              LevelOf(r.shell) = l

\* Rows that match speak of one thread lock and one guard: between the first
\* and the last identity record of a sample neither was replaced, and a held
\* range was held by a lock on that file.
SampleIsOneThread ==
  Reported => \A s \in {report.medium, report.high} :
    (s.rows["OB-range-guard"] = "match" /\ s.rows["OB-thread-stable"] = "match") =>
      \A n \in 1..Samples :
        LET log == logs[s.level].observe.log
            window(first, last) ==
              {log[i].saw : i \in {i \in DOMAIN log : log[i].sample = n
                 /\ \E a, b \in DOMAIN log : /\ log[a].step = first /\ log[b].step = last
                                              /\ log[a].sample = n /\ log[b].sample = n
                                              /\ a <= i /\ i <= b}}
        IN /\ Cardinality({o.thread : o \in window("thread.identity", "thread.identity_after")}) = 1
           /\ Cardinality({o.guard : o \in window("coordination.identity", "range.probe")}) = 1

\* Evidence that is missing, denied, cut or of another producer is unknown and
\* never a failed hypothesis: a failure is reported only if the host or the
\* operator did deviate.
FailMeansContradiction ==
  (Reported /\ "fail" \in {report.status, report.medium.w7, report.high.w7}) =>
    \E l \in Range(Levels), mode \in {"preflight", "observe"} :
      \E r \in Range(logs[l][mode].log) :
        \/ r.saw.files # 1 \/ r.saw.binary # 1 \/ ~r.saw.private
        \/ r.saw.env # <<"d:", "codex">>
        \/ r.shell \notin Nominal(l) \/ r.declared # l \/ r.reference # l
        \/ mode = "observe" /\ (r.saw.threads # 1 \/ ~r.saw.held)
        \/ \E field \in {"homeId", "target", "thread", "guard"} : ~Steady(l, field)
        \/ \E o \in Sights(l, "preflight", {"home.isolated"}) :
             \E p \in Sights(l, "observe", {"home.identity"}) : o.homeId # p.homeId
        \/ logs[l].preflight.log # <<>> /\ logs[l].observe.log # <<>>
            /\ logs[l].preflight.log[1].shell # logs[l].observe.log[1].shell

\* What an evaluation reports of two levels is sound in all three respects.
ReportIsSound == ComparedIsBound /\ SampleIsOneThread /\ FailMeansContradiction
=============================================================================
