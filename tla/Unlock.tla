------------------------------- MODULE Unlock -------------------------------
(***************************************************************************)
(* unlockThread of src/src/unlock.ts: two inspections (inspectThread of    *)
(* src/src/inspection.ts, judged by evaluateSafety of src/src/policy.ts),  *)
(* the operation lease, the last observations and the SIGTERM, for several *)
(* clients, while the world they observe keeps moving.                     *)
(*                                                                         *)
(* Every observation is a step of its own and the world may change between *)
(* any two of them, also between the last one and the signal: the code     *)
(* does not yield there, but other processes run.  The world is external:  *)
(* processes that start, exit, exec and are given the PID of a dead one,   *)
(* and Codex writers that take, keep, drop and lose the thread's lock file *)
(* under the protocol that NativeProbe details.                            *)
(*                                                                         *)
(* Evidence that must agree in the end is compared as it comes in, and the *)
(* reads that follow a reason to refuse, which cannot change the answer,   *)
(* are the time spent in the stage "refuse".                               *)
(***************************************************************************)
EXTENDS Naturals, FiniteSets

CONSTANTS
  Clients,     \* processes that run unlockThread for the one thread
  Mortal,      \* the clients that may be killed
  Pids,        \* process numbers, reused after an exit
  Nobody,      \* no process, no client
  MaxBirths,   \* processes started: bounds the start labels
  MaxFiles,    \* lock files created
  MaxVersions, \* states of the transcript
  MaxResidues, \* how often a lock is lost while its file stays
  MaxRuns      \* unlocks started

ASSUME UnlockAssumption ==
  /\ Mortal \subseteq Clients
  /\ Nobody \notin Clients \cup Pids
  /\ IsFiniteSet(Pids)
  /\ \A bound \in {MaxBirths, MaxFiles, MaxVersions} : bound \in Nat \ {0}
  /\ \A bound \in {MaxResidues, MaxRuns} : bound \in Nat

VARIABLES
  start,     \* start[p]: the start label of the process p, 0 if there is none
  image,     \* image[p]: what p executes, "codex" or something else
  births,    \* start labels given so far
  file,      \* the file the lock path names, 0 if none; numbers are not reused
  files,     \* lock files created so far
  open,      \* open[p]: the lock file that p has open, 0 if none
  locked,    \* processes that have the flock of the file they have open
  section,   \* the writer inside the native guard, between open and try_lock
  other,     \* processes that have the lock file of another thread open
  version,   \* the state of the transcript; appends only
  complete,  \* versions that end with task_complete
  residues,  \* history: locks lost while the file stayed
  lease,     \* the client that has the operation lease
  cl,        \* cl[c]: where c's call is and the evidence it has collected
  window,    \* history: what happened to c's subject since c last looked
  runs       \* unlocks started so far

processes == <<start, image, births>>
lockFile == <<file, files, open, locked, section, residues>>
transcript == <<version, complete>>
world == <<processes, lockFile, other, transcript>>
vars == <<world, lease, cl, window, runs>>

Stages == {"idle", "sample", "pending", "ownerLocks", "lease", "hash",
           "finalHash", "lockSet", "startTime", "snapshot", "lockPath", "probe",
           "decide", "refuse", "notLocked", "observe", "done"}
Outcomes == {"none", "not_locked", "refused", "signalled", "termination_failed"}
Images == {"none", "codex", "other"}
Classifications == {"undecided", "absent", "stale_residue", "live_owner", "unknown"}
Observations == {"probe", "lsof", "start", "image", "transcript"}

\* What the first observation window saw and every later look must confirm.
Evidence == [file : 0..MaxFiles, pid : Pids \cup {Nobody},
             start : 0..MaxBirths, version : 0..MaxVersions]

Blank == [file |-> 0, pid |-> Nobody, start |-> 0, version |-> 0]

Client == [pc : Stages,
           look : 1..4,               \* two windows in each of two inspections
           pending : SUBSET Observations,
           kind : Classifications,    \* classify, as far as it is known
           ok : BOOLEAN,              \* no reason to refuse so far
           evidence : Evidence,
           heldBy : 0..MaxBirths,     \* history: the holder at the last probe
           outcome : Outcomes]

NewCall == [pc |-> "sample", look |-> 1, pending |-> {}, kind |-> "undecided",
            ok |-> TRUE, evidence |-> Blank, heldBy |-> 0, outcome |-> "none"]

Events == {"exit", "exec", "lost", "append", "lockset", "signalled"}

TypeOK ==
  /\ start \in [Pids -> 0..MaxBirths] /\ image \in [Pids -> Images]
  /\ births \in 0..MaxBirths
  /\ file \in 0..MaxFiles /\ files \in 0..MaxFiles
  /\ open \in [Pids -> 0..MaxFiles] /\ locked \subseteq Pids
  /\ section \in Pids \cup {Nobody}
  /\ other \subseteq Pids
  /\ version \in 1..MaxVersions /\ complete \subseteq 1..MaxVersions
  /\ residues \in 0..MaxResidues
  /\ lease \in Clients \cup {Nobody}
  /\ cl \in [Clients -> Client]
  /\ window \in [Clients -> SUBSET Events]
  /\ runs \in 0..MaxRuns

-----------------------------------------------------------------------------
(* The world (external).                                                   *)

Alive(p) == start[p] # 0

\* The process that has the flock of file f.
Holders(f) == {p \in locked : open[p] = f}
Openers(f) == IF f = 0 THEN {} ELSE {p \in Pids : Alive(p) /\ open[p] = f}

\* The stages after the last look at each kind of event.
Unwatched ==
  LET afterProbe == {"decide"}
      afterPath == {"probe"} \cup afterProbe
      afterSnapshot == {"lockPath"} \cup afterPath
      afterStart == {"snapshot"} \cup afterSnapshot
      afterLocks == {"startTime"} \cup afterStart
      late == {"pending", "ownerLocks", "finalHash", "lockSet"} \cup afterLocks
  IN [append |-> afterSnapshot, exit |-> afterStart, lockset |-> afterLocks,
      exec |-> late, lost |-> late]

\* Something happens to p that c, about to signal p, no longer looks at.
Unnoticed(c, event, p) ==
  /\ cl[c].evidence.pid = p
  /\ cl[c].pc \in Unwatched[event]
  /\ event \in {"exec", "lost"} => cl[c].look = 4 /\ "lsof" \notin cl[c].pending
  /\ event = "exec" => "image" \notin cl[c].pending

Mark(event, p) ==
  window' = [c \in Clients |-> IF Unnoticed(c, event, p)
                              THEN window[c] \cup {event} ELSE window[c]]

Init ==
  /\ \E p \in Pids :
       /\ start = [q \in Pids |-> IF q = p THEN 1 ELSE 0]
       /\ image = [q \in Pids |-> IF q = p THEN "codex" ELSE "none"]
       /\ open = [q \in Pids |-> IF q = p THEN 1 ELSE 0]
       /\ locked = {p}
  /\ births = 1 /\ file = 1 /\ files = 1
  /\ section = Nobody /\ other = {}
  /\ version = 1 /\ complete = {1} /\ residues = 0
  /\ lease = Nobody
  /\ cl = [c \in Clients |-> [NewCall EXCEPT !.pc = "idle"]]
  /\ window = [c \in Clients |-> {}]
  /\ runs = 0

callers == <<lease, cl, runs>>

Spawn ==
  /\ births < MaxBirths
  /\ \E p \in Pids :
       /\ ~Alive(p)
       /\ start' = [start EXCEPT ![p] = births + 1]
       /\ image' = [image EXCEPT ![p] = "codex"]
  /\ births' = births + 1
  /\ UNCHANGED <<lockFile, other, transcript, callers, window>>

\* A process runs another program: same PID, same start label, same files.
Exec(p) ==
  /\ image[p] = "codex"
  /\ image' = [image EXCEPT ![p] = "other"]
  /\ Mark("exec", p)
  /\ UNCHANGED <<start, births, lockFile, other, transcript, callers>>

\* A process exits or is killed; a lock file it held stays as residue.
Exit(p) ==
  /\ Alive(p)
  /\ p \in locked => residues < MaxResidues
  /\ residues' = residues + (IF p \in locked THEN 1 ELSE 0)
  /\ start' = [start EXCEPT ![p] = 0]
  /\ image' = [image EXCEPT ![p] = "none"]
  /\ open' = [open EXCEPT ![p] = 0]
  /\ locked' = locked \ {p}
  /\ other' = other \ {p}
  /\ section' = IF section = p THEN Nobody ELSE section
  /\ Mark("exit", p)
  /\ UNCHANGED <<births, file, files, transcript, callers>>

\* A writer takes the guard and opens the lock file, creating it if need be.
WriterOpens(p) ==
  /\ Alive(p) /\ section = Nobody /\ open[p] = 0
  /\ section' = p
  /\ \/ /\ file # 0
        /\ open' = [open EXCEPT ![p] = file]
        /\ UNCHANGED <<file, files>>
     \/ /\ file = 0 /\ files < MaxFiles
        /\ file' = files + 1 /\ files' = files + 1
        /\ open' = [open EXCEPT ![p] = files + 1]
  /\ UNCHANGED <<processes, locked, residues, other, transcript, callers, window>>

\* It tries the lock, closes the file when it is held, and gives back the
\* guard.
WriterTries(p) ==
  /\ section = p
  /\ IF Holders(open[p]) = {}
     THEN locked' = locked \cup {p} /\ UNCHANGED open
     ELSE open' = [open EXCEPT ![p] = 0] /\ UNCHANGED locked
  /\ section' = Nobody
  /\ UNCHANGED <<processes, file, files, residues, other, transcript, callers, window>>

\* Under the guard: close the file, then unlink what the path names.
WriterDrops(p) ==
  /\ p \in locked /\ section = Nobody
  /\ locked' = locked \ {p}
  /\ open' = [open EXCEPT ![p] = 0]
  /\ file' = 0
  /\ UNCHANGED <<processes, files, section, residues, other, transcript, callers,
                 window>>

\* The guard cannot be taken for the drop: the file closes, its name stays.
WriterLoses(p) ==
  /\ p \in locked /\ residues < MaxResidues
  /\ locked' = locked \ {p}
  /\ open' = [open EXCEPT ![p] = 0]
  /\ residues' = residues + 1
  /\ Mark("lost", p)
  /\ UNCHANGED <<processes, file, files, section, other, transcript, callers>>

\* Start-up cleanup unlinks a free lock file; somebody may unlink any.
Unlinked ==
  /\ file # 0 /\ section = Nobody
  /\ file' = 0
  /\ UNCHANGED <<processes, files, open, locked, section, residues, other,
                 transcript, callers, window>>

TakesOther(p) ==
  /\ Alive(p) /\ p \notin other
  /\ other' = other \cup {p}
  /\ Mark("lockset", p)
  /\ UNCHANGED <<processes, lockFile, transcript, callers>>

\* The holder appends to the transcript.
Appends(p) ==
  /\ p \in locked /\ version < MaxVersions
  /\ version' = version + 1
  /\ \/ complete' = complete \cup {version + 1}
     \/ UNCHANGED complete
  /\ window' = [c \in Clients |-> IF cl[c].pc \in Unwatched["append"]
                                THEN window[c] \cup {"append"} ELSE window[c]]
  /\ UNCHANGED <<processes, lockFile, other, callers>>

World ==
  \/ Spawn \/ Unlinked
  \/ \E p \in Pids : \/ Exec(p) \/ Exit(p) \/ WriterOpens(p) \/ WriterTries(p)
                     \/ WriterDrops(p) \/ WriterLoses(p) \/ TakesOther(p)
                     \/ Appends(p)

-----------------------------------------------------------------------------
(* inspectThread: two windows of parallel observations.                    *)

In(c, stage) == cl[c].pc = stage

\* The classification is settled far enough that the call can only refuse.
Blocked(call) == ~call.ok /\ call.kind \in {"live_owner", "unknown"}

\* The call goes on.  With a reason to refuse only the lock file's identity
\* can still matter, for not_locked.
Continue(c, call) ==
  /\ cl' = [cl EXCEPT ![c] =
        IF Blocked(call)
        THEN [NewCall EXCEPT !.pc = "refuse", !.ok = FALSE, !.kind = "unknown"]
        ELSE IF call.ok THEN call
        ELSE [call EXCEPT !.evidence = [Blank EXCEPT !.file = call.evidence.file]]]
  /\ window' = IF Blocked(call) THEN [window EXCEPT ![c] = {}] ELSE window
  /\ UNCHANGED <<world, lease, runs>>

\* The call ends and gives the lease back if it has it.
Finish(c, outcome) ==
  /\ cl' = [cl EXCEPT ![c] = [NewCall EXCEPT !.pc = "done", !.outcome = outcome]]
  /\ lease' = IF lease = c THEN Nobody ELSE lease
  /\ window' = [window EXCEPT ![c] = {}]
  /\ UNCHANGED <<world, runs>>

Begin(c) ==
  /\ cl[c].pc \in {"idle", "done"} /\ runs < MaxRuns
  /\ runs' = runs + 1
  /\ cl' = [cl EXCEPT ![c] = NewCall]
  /\ UNCHANGED <<world, lease, window>>

\* Where a window leads once nothing is pending.
AfterWindow(call) ==
  IF call.pending # {} THEN "pending"
  ELSE IF call.look \in {1, 3} THEN "sample"
  ELSE IF call.kind \in {"absent", "stale_residue"} THEN "notLocked"
  ELSE "ownerLocks"

\* The next window begins when the last observation of this one has come in.
Proceed(c, call) ==
  LET stage == AfterWindow(call)
  IN Continue(c, [call EXCEPT !.pc = stage,
                              !.look = IF stage = "sample" THEN @ + 1 ELSE @])

\* observeLockFile.  A lock file that is absent, was absent or is another one
\* decides the classification; otherwise the guarded probe, lsof and the
\* transcript are looked at in parallel.
SampleLock(c) ==
  /\ In(c, "sample")
  /\ LET call == cl[c]
         first == call.look = 1
         absent == file = 0 /\ (first \/ call.kind = "absent")
         same == file # 0 /\ (first \/ file = call.evidence.file)
     IN Proceed(c, [call EXCEPT
          !.kind = IF absent THEN "absent" ELSE IF same THEN @ ELSE "unknown",
          !.ok = @ /\ same,
          !.evidence.file = file,
          !.pending = IF ~same THEN {}
                      ELSE IF call.ok THEN {"probe", "lsof", "transcript"}
                      ELSE {"probe"}])

\* One guarded probe of whatever the path names: busy inside the guard.
Probed == IF file = 0 THEN "free"
          ELSE IF section # Nobody THEN "unknown"
          ELSE IF Holders(file) = {} THEN "free" ELSE "held"

\* A faulty classify that passes the verdict through.
Unclassified(kind, verdict) == verdict

\* classify: the two windows must agree on the lock's state.
Classified(kind, verdict) ==
  LET now == CASE verdict = "held" -> "live_owner"
               [] verdict = "free" -> "stale_residue"
               [] OTHER -> "unknown"
  IN IF kind \in {"undecided", now} THEN now ELSE "unknown"

\* probeWithRetry; while the guard is busy it retries or gives up.
ProbeAnswers(c) ==
  /\ In(c, "pending") /\ "probe" \in cl[c].pending
  /\ \E verdict \in {Probed, "unknown"} :
       LET kind == Classified(cl[c].kind, verdict)
       IN Proceed(c, [cl[c] EXCEPT
            !.kind = kind, !.ok = @ /\ kind = "live_owner",
            !.pending = IF kind = "live_owner" THEN @ \ {"probe"} ELSE {}])

\* An observation brings the evidence of the first window, or confirms it, or
\* else it differs, fails or times out.
Observe(c, item, good, more, evidence) ==
  /\ In(c, "pending") /\ item \in cl[c].pending
  /\ \E ok \in {cl[c].ok /\ good, FALSE} :
       Proceed(c, [cl[c] EXCEPT
         !.ok = ok, !.evidence = evidence,
         !.pending = IF ok THEN (@ \ {item}) \cup more ELSE @ \cap {"probe"}])

First(c) == cl[c].look = 1

\* A faulty attribution: any of several openers is taken for the owner.
SomeOpener == IF Openers(file) = {} THEN Nobody ELSE CHOOSE p \in Openers(file) : TRUE

\* openers.length === 1
SoleOpener == IF Cardinality(Openers(file)) = 1
              THEN CHOOSE p \in Openers(file) : TRUE ELSE Nobody

\* findLockOpeners, then inspectProcess of the opener, which asks ps for every
\* field separately.
LsofAnswers(c) ==
  Observe(c, "lsof", SoleOpener # Nobody /\ (First(c) \/ SoleOpener = cl[c].evidence.pid),
          {"start", "image"}, [cl[c].evidence EXCEPT !.pid = SoleOpener])

\* processStartTime of that PID: its process may have exited since lsof saw it,
\* or the PID may belong to another one.
StartAnswers(c) ==
  LET now == start[cl[c].evidence.pid] IN
  Observe(c, "start", now # 0 /\ (First(c) \/ now = cl[c].evidence.start),
          {}, [cl[c].evidence EXCEPT !.start = now])

\* The command and arguments: only the second window's are judged.
ImageAnswers(c) ==
  Observe(c, "image", image[cl[c].evidence.pid] = "codex" \/ cl[c].look \in {1, 3},
          {}, cl[c].evidence)

\* The last record must be task_complete in the second window.
TranscriptAnswers(c) ==
  Observe(c, "transcript",
          /\ First(c) \/ version = cl[c].evidence.version
          /\ cl[c].look \in {1, 3} \/ version \in complete,
          {}, [cl[c].evidence EXCEPT !.version = version])

\* lockFilesOpenedByProcess returns exactly our lock file.
OnlyThisLock(p) ==
  /\ Alive(p) /\ file # 0 /\ open[p] = file
  /\ p \notin other

\* The owner's lock set completes the inspection: evaluateSafety has no
\* blocker if the evidence is still good here.
OwnerLocks(c) ==
  /\ In(c, "ownerLocks")
  /\ \E single \in {OnlyThisLock(cl[c].evidence.pid), FALSE} :
       Continue(c, [cl[c] EXCEPT !.pc = IF cl[c].look = 2 THEN "lease" ELSE "finalHash",
                                 !.ok = @ /\ single])

-----------------------------------------------------------------------------
(* unlockThread and unlockInspectedThread after a safe first inspection.   *)

\* A faulty competitor goes ahead although the lease is taken.
LeaseIgnored(c) ==
  /\ In(c, "lease")
  /\ lease' = c
  /\ cl' = [cl EXCEPT ![c].pc = "hash"]
  /\ UNCHANGED <<world, window, runs>>

\* acquireUnlockLease: one attempt; contention and errors refuse.
AcquireLease(c) ==
  /\ In(c, "lease")
  /\ \/ /\ lease = Nobody
        /\ lease' = c
        /\ cl' = [cl EXCEPT ![c].pc = "hash"]
        /\ UNCHANGED <<world, window, runs>>
     \/ Finish(c, "refused")

\* The first hash, tied to the inspected snapshot; then inspect again.
Hash(c) ==
  /\ In(c, "hash")
  /\ \E ok \in {version = cl[c].evidence.version, FALSE} :
       Continue(c, [cl[c] EXCEPT !.pc = "sample", !.look = 3, !.ok = ok])

\* One more observation of what was inspected: it agrees, or else it differs
\* or fails.  It is made only while there is no reason to refuse, except the
\* hash and the last four, whose result does not matter then.
Recheck(c, stage, next, good) ==
  /\ In(c, stage)
  /\ \E ok \in {good, FALSE} : Continue(c, [cl[c] EXCEPT !.pc = next, !.ok = ok])

FinalHash(c) == Recheck(c, "finalHash", "lockSet", version = cl[c].evidence.version)

\* A faulty sequence without the second lock set.
LockSetSkipped(c) == Recheck(c, "lockSet", "startTime", TRUE)

LockSet(c) == Recheck(c, "lockSet", "startTime", OnlyThisLock(cl[c].evidence.pid))

\* A faulty comparison: some process has the PID.
PidInUse(c) == Alive(cl[c].evidence.pid)

\* The process that has the PID has the start label of the inspected owner.
SameStart(c) == start[cl[c].evidence.pid] = cl[c].evidence.start

\* processStartTime: present, with the same label.
StartTime(c) == Recheck(c, "startTime", "snapshot", SameStart(c))

\* A faulty snapshot that is taken but compared with nothing.
SnapshotUncompared(c) == Recheck(c, "snapshot", "lockPath", TRUE)

Snapshot(c) == Recheck(c, "snapshot", "lockPath", version = cl[c].evidence.version)

LockPath(c) == Recheck(c, "lockPath", "probe", file = cl[c].evidence.file)

\* guardedProbeOnce: a busy guard, another file or a free lock refuses.
ProbeOnce(c) ==
  /\ In(c, "probe")
  /\ \E ok \in {file = cl[c].evidence.file /\ Probed = "held", FALSE} :
       Continue(c, [cl[c] EXCEPT
         !.pc = "decide", !.ok = ok,
         !.heldBy = IF ok THEN start[CHOOSE p \in Holders(file) : TRUE] ELSE 0])

\* All reads are over and there is a reason to refuse.
Refuse(c) ==
  /\ In(c, "refuse")
  /\ Finish(c, "refused")

\* absent or stale_residue after the first inspection.
NotLocked(c) ==
  /\ In(c, "notLocked")
  /\ Finish(c, "not_locked")

\* process.kill(pid, "SIGTERM"): whoever has the PID now, or ESRCH.
Kill(c) ==
  /\ In(c, "decide")
  /\ \/ /\ Alive(cl[c].evidence.pid)
        /\ cl' = [cl EXCEPT ![c] = [NewCall EXCEPT !.pc = "observe"]]
        /\ window' = [d \in Clients |->
             IF d = c THEN {}
             ELSE IF cl[d].evidence.pid = cl[c].evidence.pid
             THEN window[d] \cup {"signalled"} ELSE window[d]]
        /\ UNCHANGED <<world, lease, runs>>
     \/ /\ ~Alive(cl[c].evidence.pid)
        /\ Finish(c, "termination_failed")

\* observeTermination ends, after any time; module Termination has its loop
\* and the outcome it reports.  The lease is held until then.
Observed(c) ==
  /\ In(c, "observe")
  /\ Finish(c, "signalled")

\* The client is killed: the kernel drops its lease.
Die(c) ==
  /\ c \in Mortal /\ cl[c].pc \notin {"idle", "done"}
  /\ Finish(c, "none")

Inspect(c) ==
  \/ SampleLock(c) \/ ProbeAnswers(c) \/ LsofAnswers(c) \/ StartAnswers(c)
  \/ ImageAnswers(c) \/ TranscriptAnswers(c) \/ OwnerLocks(c)

Call(c) ==
  \/ Begin(c) \/ Inspect(c) \/ AcquireLease(c) \/ Hash(c) \/ FinalHash(c)
  \/ LockSet(c) \/ StartTime(c) \/ Snapshot(c) \/ LockPath(c) \/ ProbeOnce(c)
  \/ Refuse(c) \/ NotLocked(c) \/ Kill(c) \/ Observed(c) \/ Die(c)

Next == World \/ \E c \in Clients : Call(c)

Spec == Init /\ [][Next]_vars

-----------------------------------------------------------------------------
Signals(c) == In(c, "decide") /\ cl'[c].pc = "observe"
Subject(c) == cl[c].evidence.pid
Target(c) == start[Subject(c)]

\* SIGTERM reaches the process that both inspections identified, running what
\* they saw it run, unless it exited (and its PID went to another process) or
\* executed something else after the code's last look at that: no older
\* process is ever hit through a reused PID.
IdentityAtSignal ==
  [][\A c \in Clients : Signals(c) =>
       \/ /\ Target(c) = cl[c].evidence.start
          /\ image[Subject(c)] = "codex" \/ "exec" \in window[c]
       \/ "exit" \in window[c]]_vars

\* The identified process had the thread's lock at the last probe: lsof, which
\* only lists who has the file open, and the probe, which only tells that
\* somebody holds it, together name the holder although they never look at
\* the same moment.  Only a process that let go of the lock without the unlink
\* of an orderly drop, after the last look at the openers, is taken for it.
HolderAtSignal ==
  [][\A c \in Clients :
       (Signals(c) /\ Target(c) = cl[c].evidence.start)
         => (cl[c].heldBy = Target(c) \/ "lost" \in window[c])]_vars

\* SIGTERM is sent only with the owner's turn complete and nothing appended
\* since the first inspection, up to the last snapshot before the probe.
TranscriptAtSignal ==
  [][\A c \in Clients : Signals(c) =>
       /\ cl[c].evidence.version \in complete
       /\ version = cl[c].evidence.version \/ "append" \in window[c]]_vars

\* The process that is signalled has no lock of another thread, unless it took
\* one after the lock set was listed the last time.
LockSetAtSignal ==
  [][\A c \in Clients :
       (Signals(c) /\ Target(c) = cl[c].evidence.start)
         => (Subject(c) \notin other \/ "lockset" \in window[c])]_vars

\* No SIGTERM while the effect of another unlock's SIGTERM is being observed.
OneSignalInFlight ==
  [][\A c, d \in Clients : (c # d /\ Signals(c)) => ~In(d, "observe")]_vars

\* docs/safety-race-matrix.md: of two unlocks that inspect the same safe owner
\* one is refused, so nobody signals a process that was sent SIGTERM after the
\* inspection had found it.
OneSigtermPerOwner ==
  [][\A c \in Clients : Signals(c) => "signalled" \notin window[c]]_vars
=============================================================================
