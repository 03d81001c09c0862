# Formal models of codex-unlock

`codex-unlock` answers who holds the single-writer lock of a Codex thread and,
on request, sends that one process SIGTERM after it has made sure that it is the
right one. It reads evidence (lock file, `flock` probe, `ps`, `lsof`, `/proc`,
transcript) that changes while it is being read, next to Codex processes it must
not disturb and next to other copies of itself. This directory holds TLA+ models
of that behaviour, the TLC configurations that check them on small instances,
and proofs, for instances of every size, of almost all of their safety properties.

All paths below are paths of the repository, below `src/`; `PROJECT.json` maps
each definition to the lines that it models.

Run a check with `tlc -config X.cfg M`, a proof with `tlapm M.tla`.

## 1. The system

### How the parts interact

```
 cli.ts  arguments, advisory, output, exit code                      Cli
   ├──> listThreads ──> inspectThread (at most 4 at a time)          ListWorkers
   │
   ├──> unlockThread                                                 Unlock
   │      ├─ inspectThread (1)          unlocked, two windows
   │      ├─ acquireUnlockLease         flock, held to the end        UnlockLease
   │      ├─ inspectThread (2) + final checks
   │      │    ├─ probeWithRetry ─ guard ─ thread try-lock            NativeProbe
   │      │    ├─ ps, lsof, /proc                                     ProcessEvidence
   │      │    │    └─ through runCommand                             RunCommand
   │      │    └─ transcript                                          TranscriptScan
   │      ├─ guardedProbeOnce, then process.kill(SIGTERM)
   │      └─ observeTermination -> outcome                            Termination
   │
   └──> checkForUpdate / a detached refreshUpdateCache                UpdateCache
          └─ fetchNpmLatest                                           FetchLatest

 scripts/windows-prerelease.mjs       jobs of a workflow              WindowsRelease
 experimental/windows-native-observer evidence and its evaluation     ObserverEvidence
 experimental/126-guard-liveness      a child and its observer        IsolatedObserver
```

The locks are taken in the order operation lease, native guard
(`.coordination.lock`), thread lock. A diagnostic holds the lease over the whole
second half of an unlock, but the guard and the thread lock only inside one
synchronous call; it gives both back before it awaits, sleeps or signals.

### Inventory

| Component | State it keeps | Operations | What is hard | What makes it correct |
|---|---|---|---|---|
| Unlock operation lease, `src/coordination.ts` | a private directory, one lease file per home and thread, a descriptor with an exclusive `flock` | `acquireUnlockLease`, `release` | a dozen system calls with a return or exception after each; paths replaced between two of them; aliases of one home | two unlocks of a thread never both have the lease; no attempt leaves a lock behind |
| Guarded lock probe, `src/native-coordination.ts`, `src/lock.ts` | guard and thread descriptors, retry budget | `observeLockFile`, `guardedProbeOnce`, `probeThreadLockOnce`, `probeWithRetry` | the probe takes the lock it asks about; guard or directory replaced; a stopped writer; being killed | Codex writers never notice it; verdicts are true; nothing kept; it returns |
| Inspection, `src/inspection.ts`, `src/policy.ts` | evidence of two windows | `inspectThread`, `evaluateSafety`, `classify` | every query looks at another moment | what it calls the owner is the holder |
| Unlock decision, `src/unlock.ts` | the first inspection, hashes, snapshot | `unlockThread`, `unlockInspectedThread` | stale evidence at `process.kill`, PID reuse, concurrent unlocks, kills | SIGTERM reaches the process that was identified, with its turn complete, with no other thread's lock, once at a time |
| Observation after the signal, `src/unlock.ts` | `PostSignalState`, deadlines | `terminateRevalidatedOwner`, `observeTermination`, `identifyReacquisition` | parallel answers, descendants that share the `flock`, reused PIDs, zombies, clock changes | the outcome is true, and the call ends |
| List worker pool, `src/inspection.ts` | `nextIndex`, `failed`, `firstError`, `sessions` | `listThreads` | shared index across awaits, failure while others run | complete list or the first error, nothing running on |
| Diagnostic subprocesses, `src/util.ts` | child, buffers, two timers, failure, settlement | `runCommand` | every order of data, timers, exit, close, error | cut output is never taken for whole; it settles once, and does settle |
| Process evidence, `src/process.ts` | none | openers, process table, starts, exits, arguments, `inspectProcess`, open lock files | the process execs, exits or hands over its PID between two queries; tools warn, stop half way or say nothing | what is missing or ambiguous is never taken for agreement; a shared service never passes |
| Transcript evidence, `src/transcript.ts` | position and buffer of a scan | search, last record, hash | appends, cuts and archiving during the reads | a stable inspection is true of one moment |
| Update cache, `src/update.ts` | `update.json`, `update.lock`, temporary files | `refreshUpdateCache`, `checkForUpdate`, `writeUpdateCache`, `readUpdateCache` | kills and loss of power between system calls, several processes, clock changes | the cache is whole, durable once reported, and not overwritten by an older record |
| Registry request, `src/update.ts` | reader, received bytes, deadline | `fetchNpmLatest` | deadline and answer race; lengths that lie; a body without end | a version that is reported was received whole, in time |
| Command line and update notices, `src/cli.ts`, `src/options.ts`, `src/update.ts` | parsed options, what was written, exit code | `parseArguments`, `main`, advisory, notice, spawn of a refresh | usage errors of arguments that also ask for JSON; a stdout that breaks at any moment | one document, one exit code; no child and no notice where policy forbids them |
| Windows prerelease, `scripts/windows-prerelease.mjs` | a draft release with three assets | preflight, resolve, attach | jobs that die and are rerun, while people change the draft and main advances | never assets of two builds |
| Observation evaluator, `experimental/windows-native-observer` | none | `evaluateRun`, `pairSummaries` | evidence of a host that changed, of two runs mixed up, of files cut short | what passes and is compared is of one process, one lock, one host |
| Isolated observer, `experimental/126-guard-liveness/lib` | child, lines, budget | `childStages`, `runIsolated`, `summarizeStages` | stalls, crashes, torn lines, a descendant with the stream | complete means complete; the parent always settles |
| Types, `doctor.ts`, JSON schema, package checks, other experiments | – | – | – | not modelled, see section 8 |

## 2. The modules

| Module | Models | Used by |
|---|---|---|
| `UnlockLease`, `MCUnlockLease`, `UnlockLeaseProofs` | `src/coordination.ts` | the lease of `Unlock` is its abstraction: one variable `lease` |
| `WriterService` | the abstract lock service that Codex writers are promised | refined by `NativeProbe` |
| `NativeProbe`, `MCNativeProbe`, `NativeProbeProofs` (with the refinement) | `src/native-coordination.ts`, `src/lock.ts` | its verdict is one answer in `Unlock` and `Termination` |
| `Unlock`, `MCUnlock`, `UnlockProofs` | `src/unlock.ts` up to the signal, `src/inspection.ts`, `src/policy.ts` | |
| `Termination`, `TerminationProofs` | `src/unlock.ts` from the signal on | |
| `ListWorkers` | `listThreads` of `src/inspection.ts` | `Cli` |
| `FetchLatest` | `fetchNpmLatest` of `src/update.ts` | `Cli` |
| `Cli`, `MCCli`, `CliProofs` (with the two above) | `src/cli.ts`, `src/options.ts`, the advisory of `src/update.ts` | |
| `RunCommand` | `runCommand` of `src/util.ts` | `Evidence` |
| `ProcessEvidence` | `src/process.ts` | `Evidence`; its answers are steps of `Unlock` and `Termination` |
| `TranscriptScan` | `src/transcript.ts` | `Evidence`; likewise |
| `Evidence`, `EvidenceProofs` (with the three above) | the three sources of evidence side by side | |
| `UpdateCache`, `UpdateCacheProofs` | the cache and lease of `src/update.ts` | |
| `WindowsRelease`, `ObserverEvidence`, `IsolatedObserver` | the repository's tooling | `Tooling` |
| `Tooling`, `ToolingProofs` | the three tools side by side | |

What one step is: in `UnlockLease`, `NativeProbe` and `UpdateCache` one system
call, because other processes run between any two calls of a synchronous
function; in `Unlock` and `Termination` one awaited query or one synchronous
sample; in `ListWorkers`, `RunCommand`, `FetchLatest`, `Cli` and
`IsolatedObserver` one callback of the event loop, because only awaits
interleave there; in `TranscriptScan` one read; in `ProcessEvidence` one
diagnostic; in `WindowsRelease` one request to the forge.

Operators whose comment calls them faulty (`ReturnWithoutClose`,
`LockGuardOrGoOn`, `TimeOfCommand` ...) are not part of any specification. Each
is a plausible bug in the definition that follows it, kept to show that some
property notices: `PROJECT.json` pairs every property with one.

### UnlockLease

`dirAt` is the inode that `<parent>/codex-unlock` names, `fileAt` its entries,
`dirPrivate` and `filePrivate` what `lstat` and `fstat` would find to be ours,
of the right type and mode; `flockOwner` is the kernel's lock table; `pc`,
`asked`, `dirSeen`, `dirSame` and `fd` are the locals of a call. An inode stays
allocated while a path or a descriptor refers to it, so unlinked lease files are
still lockable by those that opened them.

The actions follow `acquireUnlockLease` call by call: `Locate` (realpath of the
home, the lock directory and the key), `MakeDirectory`, `ValidateDirectory`,
`ChmodDirectory` (which follows the path, as the code does, and not the
directory that was validated), `OpenLease`, `CheckLeaseFile`, `LockLease`,
`ReexamineDirectory`, `GrantLease`; then `ReleaseLock` and `CloseLease`. Each
early return and exception is a disjunct or an action of its own
(`...Fails`), `Die` is a kill, and `Again` lets the process try once more.
`MoveDirectory`, `MoveLeaseFile` and `ChangeOwnership` are everybody else. The
history variable `replaced` records that a granted lease was separated from its
path afterwards, which no later check of the code looks for.

### NativeProbe and WriterService

`guardAt`, `threadAt` and `parentAt` are the paths, `guardOwner` and
`threadOwner` the locks, `probe[p]` the locals of one prober, `writer[w]` a
coordinated Codex writer. The prober's actions are the calls of
`guardedProbeOnce` and of `probeThreadLockOnce` inside it in their order, from
`Observe` to `CloseGuard`; `Decide` and `Wake` are the retry loop of
`probeWithRetry`, `Elapse` its clock in units of the retry interval. A prober in
`SignalBoundary` makes the single attempt that precedes `process.kill`. A killed
prober loses its descriptors one at a time, in an order that the kernel chooses.

The writers are external: Codex is not part of the repository. They follow its
protocol as `docs/research-lock-attribution.md` describes it and as the code
relies on it: open, try, close and unlink the thread file under the guard, keep
the thread's lock outside it. A writer may stop anywhere, inside the guard too.
`Others` replaces or spoils the guard, the thread file and the directory.

`WriterService` is what writers may expect of one thread: one holder, and a
denial only while another *writer* holds it. Probes do not occur in it.
`ServiceSpec` says that the detailed system, probes included, implements it.

### Unlock

The world: `start[p]` (the start label of the process that has PID `p`),
`image`, `file` (a number per lock file ever created), `open`, `locked`,
`section` (the writer inside the native guard), `other` (holders of other
threads' locks), `version` and `complete` (the transcript). Its actions
start, exec and end processes, reuse PIDs, take, drop and lose the lock, and
append. A client's call `cl[c]` goes through the stages of `unlockThread`: in
each of the four windows of the two inspections `SampleLock`, then
in any order the answers of queries that are under way together (`ProbeAnswers`,
`LsofAnswers`, `StartAnswers`, `ImageAnswers`, `TranscriptAnswers`), and
`OwnerLocks` after the second window of each inspection. `AcquireLease` and the
first `Hash` lie between the inspections, and after the second come
`FinalHash`, `LockSet`, `StartTime`, `Snapshot`, `LockPath`, `ProbeOnce`,
`Kill`. `Observed` ends the observation that `Termination` details. Every query
may fail; a failed query is a reason to refuse, never an agreement. Evidence
that must agree in the end is compared as it comes in, and what the code still
reads after it has found a reason to refuse is the time spent in stage "refuse".

The history variable `window[c]` holds what happened to the subject of `c`'s
call since the code last looked at it, from that action on. The properties at
the signal therefore state exactly which window is left open and no more.

### Termination

The owner runs, is a zombie, or is reaped. `sharers` are the processes that have
a descriptor of the open file description that the owner locked, since that, and
not the process, is what `flock` belongs to. `Known` descendants were listed by
the first inspection, `Late` ones are forked later. A successor may take the
lock with any PID that is free by then. `late` and `wall` are the two deadlines:
the monotonic clock only moves forward, the wall clock is set at will.
`Kill`, `Loop`, `ObserveExit` and `ObserveProbe` (in parallel), `ListOpeners`,
`IdentifyReacquisition`, `Delay`, `Hash` and `Report` are the code's steps,
`Throws` its exceptions at any of them.

### RunCommand, ProcessEvidence, TranscriptScan, Evidence

`RunCommand` has the kernel's side (`alive`, `deaf`, `writers` of the pipes,
`dying`, `output`) and Node's (`received`, `captured`, `failure`, the two timers,
`result`). A spawn can throw, start, fail with an `error` event or come without
pipes. Helpers may outlive the leader and keep the pipes open, and may ignore
SIGTERM. `Close` is possible only when all have let go of the pipes and all
output was delivered.

`ProcessEvidence` has, for each `query`, the part of the machine that it is
about, what its diagnostics have `seen`, and the `answer`. `Diagnostic` is what
`ps` and `lsof` may come back with: all of their output, a prefix of it with a
failure, a signal or a warning, nothing, or what is no value. It takes from
`RunCommand` that a result without a failure has all that the tool wrote. The
operators are the code's: `ParseLsofProcesses` and the conclusion about openers;
the process table with its closures up and down; `classifyCodexMode`'s grammar,
token by token, and the reconciliation of two argument sources;
`inspectProcess` with its repeated samples, while the process execs, exits or is
replaced; the confirmation of an exit; the fields of `lsof` that yield the open
lock files. `Accepted`, `FlattenedSharedService` and, in `NothingHidden`, the
least sets closed under parent and child are independent formulations of what
these must amount to.

`TranscriptScan` has the file as a sequence of the symbols `x`, `}` (the end of
a record) and `n` (newline). Both directories are walked at once; `Choose` takes
a sole candidate; the file is then looked at, read backwards from the size found,
chunk by chunk, up to the last line that is not empty or the limit, and looked at
again; or hashed forwards. Between any two steps Codex appends, cuts, or moves
the file to the archive.

The three share no variable. `Evidence` extends them all, and its variable
`source` picks the one that a behaviour is about; the others stay in one initial
state. The sum of the three state spaces is explored, not the product.

### FetchLatest, ListWorkers, Cli

`FetchLatest` is one request: the headers with their declared length, type and
redirect, chunks until the reader is done, cancelled or over the limit, and
`FetchTimeout`, which may come at any moment and wins the race from then on. The
registry may answer in any way, stop half way, or never answer.

`ListWorkers` keeps the variables of `listThreads` under their own names;
`at[w]` is the index a worker has claimed.

`Cli` extends both. A behaviour starts with a `launch`: an argument list and the
surroundings that matter to the advisory (`CI`, the notice variable, the two
terminals, the cache root, cache and versions). `ScanArgument` is the loop of
`parseArguments`, `RequestedCommand` the guess that a usage error is reported
under; the actions go through `main`, the advisory before it, the notice and the
detached child after it. `list` awaits the pool, `check-update` and the hidden
refresh await the request under the lease. `stdout` and `stderr` are the
sequences of texts written; `StdoutFails` is its error event, at any time until
the process is done. What `inspect` and `unlock` do lies in other modules: here
they end with one of their outcomes.

### UpdateCache

It numbers the temporary files; `target` is the one `update.json`
names, `onDisk` the set of those it may name after the power fails, `synced` and
`whole` are the files whose content is on disk or complete. A loss of power
makes unsynced files torn and lets `update.json` fall back to any member of
`onDisk`. Lock inodes are tracked because `update.lock` can be removed while it
is locked.

### WindowsRelease, ObserverEvidence, IsolatedObserver, Tooling

`WindowsRelease`: `main` is the sequence of what each commit changed, `release`
the draft with its assets, `job` one run of the workflow. `Preflight`,
Release Please, `Resolve`, the build and the attach job follow the script's
checks in their order (`VersionState`, `PreviousVerified`, `DraftVerified`,
`SourceVerified`, `ExistingVerified` ...). A job can die between any two
uploads; the run is then dispatched again, or its attach job alone is rerun with
the outputs it had. Meanwhile main advances and people publish, retarget, delete
or fill the draft. Each dispatch builds another artifact, also of one commit:
builds are not taken to be reproducible.

`ObserverEvidence`: `Campaign` is the order in which a producer writes its
files, one preflight and one observation for each integrity level. A record
holds the whole host at the moment of its query; a derivation of the evaluator
reads only the fields that its step records. `host` may change between records,
a query may be denied, a file may end early, levels may be mixed up, within the
bound `Faults`. `Expectations` is the table of `expectations.mjs`, one row per
kind of check. The producer is either one that keeps the contract or `dormant`,
`observer.ps1` with the order of records that it has and the three steps that it
defers.

`IsolatedObserver`: a child writes a handshake and a line at each stage boundary,
may stall in a stage, crash within a line or leave a descendant with its stderr;
the parent collects chunks under the startup and stage budgets and an output
limit, sends no signal, and on a budget closes the pipes.

`Tooling` extends the three as `Evidence` does, with the variable `tool`.

## 3. Runs

All runs end within three minutes on two cores. `CHECK_DEADLOCK FALSE` in every
configuration: calls end, nobody must start another one, and the bounds on
births, appends and outside changes get used up, so the systems really stop.

| Run | Instance | States | What it shows |
|---|---|---|---|
| `unlock_lease` | 2 processes, 2 spellings of one home, 2 directory and 2 lease inodes, 2 outside changes | 222 thousand | two never hold an undisturbed lease; every end leaves no descriptor or lock |
| `probe_protocol` | 2 probers (one at the signal boundary), 2 writers, no outside changes, `LiveSpec` | 325 thousand | true verdicts, refinement of `WriterService`, every probe returns |
| `probe_faults` | 2 mortal probers, 1 writer, 2 directories, 2 guards, an odd thread inode, 1 outside change | 3.2 million | no probe-induced `WouldBlock`, lock order, nothing retained |
| `unlock_owner` | 1 unlock, 2 PIDs, 3 births, 2 lock files, 2 lost locks | 1.9 million | who is signalled, that it held the lock, and held no other |
| `unlock_pair` | 2 mortal unlocks of 1 PID, 2 births, 2 transcript versions | 472 thousand | the turn is complete and unchanged at the signal; never two signals in flight |
| `unlock_twice` | 2 unlocks of 1 PID | finding | see section 5 |
| `termination` | owner, known and late descendant, successor, 1 append | 414 thousand | the outcome is true; the call ends |
| `termination_descendant` | the same, 2 appends | finding | see section 5 |
| `update_cache` | 2 processes, 3 runs, clock 0..2, one mishap | 4.8 million | whole, durable, monotonic cache under its lease; recent answers |
| `cli` | all argument lists of up to 3 tokens and some of 4, 5 threads, 3 workers, response limit 2 | 269 thousand | which command runs, one verdict, the update policy, vouched versions, the process ends |
| `evidence` | a leader and 2 helpers; 3 arguments, 2 open files, 4 PIDs; a file of 5 symbols, chunks of 2, 2 changes | 1.3 million | whole output, the first failure, settlement; no service passes; true answers; the last record |
| `tooling` | 3 assets, 3 commits, 2 dispatches, 2 acts of meddling; 2 samples, 1 fault; 3 stages | 408 thousand | one reviewed build; sound reports; whole observations, which end |

Why these bounds are enough for the interesting cases:

- Leases: an exclusion failure needs two processes and one inode more than the
  path names; the second change lets somebody put the first inode back.
- Probes: the hazards are one prober against another, a prober against a writer,
  and a replaced guard. The fault run has a writer and two probers; the protocol
  run adds the second writer, without which the abstract service never denies.
  Inodes are reused as soon as nothing refers to them.
- `Unlock`: a wrong target takes a PID that was reused, hence one birth more than
  PIDs; a misread holder takes a file that is dropped and recreated, or kept by
  somebody who merely has it open. One residue for each window of an inspection
  is enough to make both look alike. Transcripts need a version before and after
  the first hash. `unlock_pair` reduces the world to one PID, since its
  properties are about the clients and the transcript alone. All its properties
  are proved for every instance (section 6), so here the runs serve to notice
  the mutants rather than to bound the claim.
- `Termination`: one descendant of each kind and one process that is no relation
  are the cases that `identifyReacquisition` tells apart.
- `UpdateCache`: three runs are a record, a newer one and one that races it; a
  clock of two hours with a TTL of one has fresh, boundary and stale records.
- `Cli`: an option, its value and a command are three tokens, and a list with a
  thread after them four; longer ones only repeat roles. Numbers below, at and
  above the ranges occur. More threads than workers let one worker inspect twice.
  A body of three against a limit of two is below, at and over the limit.
- `RunCommand`: with limit 1 and two units the limit falls inside, at the end of and
  before a chunk. Two helpers can differ in whether they ignore SIGTERM and
  whether they hold the pipes.
- `ProcessEvidence`: three arguments are an option, its value and an operand, or a
  mode, an option and an operand; one representative stands for the options of a
  kind. Four PIDs make chains, forks and cycles of parents. Two open files are the
  intended one and another. What holds of these holds of argument lists, process
  tables and lists of open files of any length, by proof (section 6).
- `TranscriptScan`: five symbols in chunks of two end with an odd chunk, a line may
  span three chunks and exceed the limit of four, and two changes allow one that
  undoes the other.
- Tooling: two dispatches are a run that died and its successor; meddling twice
  allows to spoil and to restore. Two samples may be of different instances. With
  limit 7 of the observer the output breaks off within a line, with 16 never.

Bounds are constants (`MaxBirths`, `TamperBound`, `MaxRuns`, ...); they limit the
world and how often calls are begun, never what a call that is under way may do.

## 4. Fairness

- `NativeProbe!LiveSpec`: weak fairness of each prober's next call and of its
  clock. The calls are synchronous and none of them blocks (`LOCK_NB`), and the
  retry deadline is monotonic. Nothing is assumed of writers: `ProbeReturns`
  holds although one may be stopped inside the guard for good.
- `Termination!FairSpec`: weak fairness of the call and of the monotonic clock.
  Every query it awaits has a time limit of its own (`RunCommand`, `NativeProbe`).
  Nothing is assumed of the owner, its relatives or the wall clock.
- `Evidence!SourcesSpec`: the event loop delivers due events and timers of a
  command, and a process that was sent a signal it dies of, dies. It need not
  exit by itself, nor need a helper that ignores SIGTERM.
- `Cli!CliFairSpec`: weak fairness of `main`'s steps, inspections included (they
  end, by the two items above), and of the deadline of a request that is awaited.
  Nothing is assumed of the registry.
- `Tooling!ToolingSpec`: weak fairness of the child's steps outside a stage in
  which it is stuck, and of the parent's, its timers included. Nothing is assumed of
  descendants.
- `Unlock`, `UnlockLease`, `UpdateCache`, the evidence and transcript parts, the
  release and the evaluator are checked for safety only.

## 5. Where documentation and code disagree

- **`unlock_twice`.** `docs/safety-race-matrix.md:14` promises "Exactly one
  SIGTERM; competitor refused" when two unlocks inspect the same safe owner.
  `src/unlock.ts:302` refuses a competitor only while the lease is held. If the
  first unlock's observation ends with the owner alive, its lease is released,
  and a competitor whose first inspection came earlier then gets it, finds the
  unchanged owner safe and signals it again. What does hold is
  `OneSignalInFlight`: never two at once.
- **`termination_descendant`.** `docs/json-v1.md:137-139` says that in
  `verification_failed` "the owner exited and released its lock".
  `identifyReacquisition` (`src/unlock.ts:186`) knows only the descendants of the
  first inspection. A child forked later inherits the `flock`; once it is the
  only opener it is reported as another owner and the outcome is
  `verification_failed`, although the lock was never released.

## 6. Proofs

Each proof module proves an inductive invariant and derives the properties from
it. The invariants were first checked with TLC on the instances above. There is
one lemma per action, or per group of actions that disturb the same conjuncts.
Every constant is arbitrary but for the named assumption of its module.

Two devices recur. A loop of the code over data (arguments, characters, fields,
rows) is a recursive function on `0..Len(data)` in the models. That a function with
its equation exists, that there is but one, and what it computes for every input
follow from `UpTo`:
if a set of numbers has 0, and n+1 whenever it has n, up to a bound, it has
all up to the bound. `UpTo` is itself derived from the well-foundedness of `<` on the
naturals, since the library's induction theorems take an operator. And what is proved of
a component alone (`Spec`) is carried to the module that composes it (`SourcesSpec`,
`CliSpec`, `ToolingSpec`) by showing that each step of the others leaves its variables
as they are.

**`UnlockLeaseProofs`** (`LeaseAssumption`: homes resolve to homes, and the null
values are none of the real ones): `TypeCorrect`, `Exclusion` (`LeaseExclusion`),
`CleanEnd` (`NothingLeftBehind`). That two processes in stage "held" exclude each
other depends on the lock table and on the paths, of which the property does not
speak. `IInv` adds `DescriptorInv` (a descriptor is open exactly between `open`
and the return), `OwnerInv` (who owns a lock has that very inode open, and is past
`flock`), `LockedInv` (who is past `flock` owns the lock of what it opened) and
`GrantedInv` (an undisturbed lease in force is what its path names). Two
undisturbed holders then have the inode that one path names open, both own its
lock, and so are one process. `GrantLease` preserves `GrantedInv` only because the
code looks at the path again after `flock`; that "one path" covers every spelling
of a home rests on keying leases by the *resolved* home (`LeaseKey`).

**`NativeProbeProofs`** (`ProbeAssumption`): `TypeCorrect`, `CleanEnd`
(`NothingRetained`), `LockOrder` (`GuardBeforeThread`), `Invisible`
(`NoInducedWouldBlock`), `HeldIsTrue` (`HeldMeansWriter`). `Holds` ties each stage of a
prober to what it has open and locked; `KeepsGuard` says that, unless the guard
was replaced or lost, whoever has the thread file open owns the one guard;
`WriterGuarded` says the same of writers. Two that have the thread file open then
are one, so that a writer which tries the lock meets no probe.

Also in this module, about `WriterService`: `FreeIsFree` (`FreeIsTrue`), `Implements`
(`Spec /\ []Undisturbed => ServiceSpec`) and `Transparent` (`ServiceSpec` without
outside changes and kills, as in the run). Undisturbed means that nobody replaced
the guard, the thread file or the directory and no killed prober lost the guard
first. The invariant adds that a writer's lock is the lock of the file which the
path names, that nobody else owns a thread lock between a writer's close and its
unlink, and that what is open under the guard is what the path names. Each step
of a writer maps to a step of `WriterService` or a stutter, each step of a prober to
a stutter; the case that needs the invariant is a denial, which must be due to
another writer.

**`UnlockProofs`** (`UnlockAssumption`): `TypeCorrect`, `Identity`
(`IdentityAtSignal`), `Holder` (`HolderAtSignal`), `CompleteTurn`
(`TranscriptAtSignal`), `OnlyLock` (`LockSetAtSignal`), `OneInFlight`
(`OneSignalInFlight`), for any number of unlocks, processes, births, lock files and
versions. Evidence is collected over many steps of a world that does not wait;
the argument is that start labels and lock files are never given twice, so that
what agrees at two moments agreed all the time in between. `Known` and `Last` say
which items of the evidence a call has, and has for the last time, at each stage;
`IdentityInv`, `ProgramInv`, `TurnInv`, `OthersInv` say what still is true of each, or
that `window` records why not. `HolderInv` is the strongest: while the lock path
names the inspected file, the inspected process has it locked, or is the writer in
the guard and about to lock it with nobody else having it open. The second
attribution establishes it, since `lsof` listed that process alone at both ends of
a window in which the probe found the lock held, and the last probe finds the
section empty, so that only the first alternative remains. `LeaseInv` gives
`OneSignalInFlight`.

**`TerminationProofs`** (`TerminationAssumption`): `ReportIsTrue` (`OutcomeIsTrue`). What
the observations say was true at another moment; the argument is that it stays
true (`Learnt`): a process that has ended never runs, appends or forks again, and a
description that all have closed stays closed. `Ordered` puts the comparison of
the transcript after the exit and the outcome after both.

**`CliProofs`** has three parts.

*The worker pool* (`ListAssumption`): `TypeCorrect`, `InspectedOnce` (`EachOnce`),
`AllDrained` (`NoStragglers`), `ListComplete` (`Complete`) and `FirstErrorKept`
(`FirstErrorStands`). `Accounted`: the threads up to `nextIndex` are exactly those
stored, failed or at a worker, which makes both "none twice" and "none skipped"
inductive. `Retired`: a worker that has left will not come back. `Ended`: a result is
settled only after all workers have left. Only `Complete` is also checked by a run
(`cli`); the others are proved and need none.

*The request* (`FetchInv`): the body is read only after headers without a problem, what
was kept is all that was sent and within the limit, and a version is fetched only
before the timer.

*An invocation* (`LaunchAssumption`): `CliTypeCorrect`, `CliOneVerdict` (`OneVerdict`),
`CliPolicy` (`AdvisoryKeepsToPolicy`), `CliVouched` (`VersionIsVouched`), `CliComplete`.
`CliInv` joins the invariants of the pool and the request with `Control` (where `main`
is, and what that says of the arguments and of the exit code), `Advice` (what the
advisory was prepared from, and that a child needs its leave), `Output` (what has been
written once there is a verdict), `ListVerdict` (which verdict a list has) and
`VersionIsVouched` itself. `OneVerdict` compares the loop of `parseArguments` with a
description of the roles that arguments have (word, flag, option, value): what the
state after n arguments says of the roles of these n is proved by `UpTo`, so that the
property holds of argument lists of any length.

**`EvidenceProofs`** has one part per source and one that joins them:
`SourcesInvariant`, `SourcesTypeCorrect` (`SourcesTypeOK`).

*The command* (`CommandAssumption`): `WholeOrFailed` (`CleanIsWhole`), `FirstFailureStays`
(`FirstFailureKept`). `Delivery`: what arrived was written, and what was kept is all
that arrived unless something has failed. `Final`: a result without a failure came
when the pipes were closed by all and everything had arrived.

*The transcript* (`TranscriptInv`): `StableRecord` (`StableIsLast`). Every write gives the
file another time stamp. While the stamp is that of the first snapshot, then, what
was read backwards is the end of the content and what was hashed is its beginning
(`Copied`, `Reading`); after a write the stamps differ for good and the second snapshot
finds out. That lines are found at their ends whatever the chunk size is
proved of the scan's own recursion.

*The process* (`ProcessInv`): `NoServiceTaken` (`NoServicePasses`). The loop of
`classifyCodexMode` is shown equivalent to the declarative grammar `Accepted`, case by
case of what a token can be in each mode, for argument lists of any length; what was observed
of a process that did not change is true of it, whatever the order in which arguments,
start, parent and image were read; an exit that was confirmed is final.

*Nothing hidden* (`HiddenInv`): `AnswersTrue` (`AnswersAreTrue`). `OpenersHold`, `TableHolds`
and `LocksHold` say what each query has gathered at each of its stages. The fields that
`lsof` prints for a list of files, however long, parse back to exactly these files
(`FilesAreParsed`), because each field is taken in a state that the fields before it
determine. The searches down and up the process table reach the *least* closed sets: each
round adds somebody or the set is closed, nobody is added who is not in every closed
set, and no set outgrows the table, so the search ends within its bound, cycles or not.

**`UpdateCacheProofs`** (`CacheAssumption`): `Durable` (`CacheIsDurable`), `Forward`
(`NeverOlder`), `Recent` (`AnswerIsRecent`), for any number of processes and runs, any
clock and TTL. `FilesInv`: whatever `update.json` may name after a loss of power has
been written and synced, and is nobody's temporary file any more, so that it never
changes again. `SuccessionInv`: while `update.lock` stays in place there is one
leaseholder, and no record that `update.json` may name is younger than the one it
is fetching, because the fetch is dated under the lease; the file that was
reported is one that no possible target is older than. `DatedInv`: nothing is dated in
the future unless the clock was set back.

**`ToolingProofs`** (`ReleaseAssumption`, `ObserverAssumption`, `IsolatedAssumption`):
`ReleaseOneReviewedBuild` (`OneReviewedBuild`), for any number of dispatches, reruns and
interventions, `IsolatedObservationIsWhole` (`ObservationIsWhole`), for any number of stages
and any output limit, `EvidenceReportIsSound` (`ReportIsSound`), for any number of samples and
of disturbances, and `ToolingTypeCorrect` (`ToolingTypeOK`). `ReleaseInv`: `RunInv` ties each step of a job to the commit and the release that it has
verified, `SourcesInv` says which artifact each dispatch built and of which commit, and
`AssetsInv` that whatever the draft has, unless somebody put it there, is of the one
dispatch whose job uploads. `IsolatedInv`: the parent's text is a beginning of what the child wrote
(`Written`), a stage that the parent counts as ended was ended by the child
(`KnowsOfIt`), and its answer, once given, agrees with both (`Answered`).

`EvidenceInv` has three parts. `Progress`: each file is a beginning of what its mode is to
contain, as long as the campaign has come. `RecordsHold` and `HostHolds`: the identities of the
thread lock and of the guard only grow along the records of a file and up to the host that is
there, preflight saw only the home that its gate may create, and a deferred step is never usable. And a
report is the evaluation of these files (`Evaluated`), which no longer change. Its soundness is then
a matter of the evaluator's functions alone: where a record of a step is found in a file
(`FindIs`, `FoundAt`), what a row's match says of it (`MatchIs`, `PlacedIs`), that identities
which only grow and are equal at both ends of a sample are equal all along it (`Window`,
`OneThread`), and, for a failed hypothesis, that files without a deviation (`Undisturbed`)
have no row that mismatches (`MismatchIs`).

Trying to prove changed the models where they were not what the code does or could not be
reasoned about: cases that overlapped are exclusive now; a list fails only once a worker
has; the word that a usage error names may be empty, and so may the value of
`--codex-home`; and recursion over all naturals, folds with a lambda, `@@` and the
transitive closure of the library became recursive functions on bounded domains and
quantifiers, which say the same.

Every invariant and action property that a run checks is thereby proved. Only
model-checked, on the instances of section 3, are the liveness properties
(`ProbeReturns`, `Returns`, `Exits`, `CommandSettles`, `Observed`), since fairness and
ENABLED are out of the provers' reach.

## 7. What the models leave open on purpose

`PROJECT.json` lists the hazards of the code with the properties that cover them.
These have none:

- A process that leaves the group of a diagnostic command with the pipes open
  keeps `runCommand` waiting. `ps` and `lsof` do not fork such processes.
- A helper that ignores SIGTERM and closed the pipes can survive a timed-out
  command: `settle` clears the SIGKILL timer.
- A killed refresh leaves its temporary file behind.

And these are accepted by the code; the models show where they begin:

- Start labels are unique per birth in `Unlock`. `ps` reports whole seconds
  (`src/process.ts:206`); two processes with one PID and one label would be one
  process to every check of the code. `ProcessEvidence` does let the label
  repeat, and shows that an exit is then never reported without one.
- A successor with the PID of a dead known descendant is reported as that
  descendant; this errs towards `termination_failed`.
- After `update.lock` is removed two refreshes can run at once. Records stay whole,
  but the older may win: `NeverOlder` excludes the case.
- `processTable` overlooks a warning of `ps` that comes with status zero; its rows
  may then be a part of the table.
- The search for a transcript walks two directories at once and can miss one that is
  being archived. It is then "missing", which is a reason to refuse.
- `observer.ps1` records the second query of the process after the sample it guards
  and defers the openers and the share modes, so its evidence as it stands can never
  be "compared"; the evaluator says so rather than pass it.

`fetchNpmLatest` is one step of `UpdateCache` that answers, fails or takes
arbitrarily long: the cache's safety does not depend on its time limit. Its steps
and its end are `FetchLatest`'s.

## 8. Not modelled

- `src/doctor.ts`, `src/types.ts`, `src/json-types.ts` and the JSON schema:
  re-exports and declarations.
- Wording, layout and escaping of texts (`terminalSafe`, the tables of `list`), and
  which install command `updateCommand` suggests. `Cli` has one entry per text.
- Parsing of dates and JSON; working directory, terminal and UID of a process, which
  are compared like the fields that `ProcessEvidence` has.
- Blockers that are constant for a process (uid, shared services, families) are
  failed observations in `Unlock`; how they are found is in `ProcessEvidence`.
- Of the evaluator, `fixtureSummary` (whose result can never be paired), the formats
  of single fields and the printed tables; of `observer.ps1` all but the order of its
  records and the steps that it defers.
- `scripts/package-smoke.mjs` and `scripts/verify-npm-publication.mjs`: sequences of
  assertions about a built package or the registry, without state or a
  concurrent actor.
- The other experiments (`windows-identity`, `windows-rust-diagnostics`, `rust`, the
  macOS and Linux gates): prototypes and fixtures that no part of the package uses,
  each a report of a single process without shared state.

## 9. What is left

1. The lease of `Unlock` shown to be an abstraction of `UnlockLease`, with an
   abstract lease that both share: at present the two are connected by
   `LeaseExclusion` alone.
2. A variant of `Unlock` with coarse start labels, to state precisely what a label
   collision costs.
