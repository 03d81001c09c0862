----------------------------- MODULE NativeProbe -----------------------------
(***************************************************************************)
(* The guarded lock probe of src/src/native-coordination.ts and of         *)
(* src/src/lock.ts, one system call per step, next to the Codex writers it *)
(* must not disturb.                                                       *)
(*                                                                         *)
(* A prober is a process inside probeWithRetry or, at the signal boundary, *)
(* inside a single guardedProbeOnce.  It takes the native guard            *)
(* .coordination.lock, then tries the thread lock, then gives both back.   *)
(* Its JavaScript never yields inside the guard, but the other processes   *)
(* run between any two system calls.  A writer (external: Codex itself,    *)
(* as docs/research-lock-attribution.md reads its source) holds the guard  *)
(* while it opens, locks, closes or unlinks the thread file.               *)
(***************************************************************************)
EXTENDS Naturals

CONSTANTS
  Probers, Writers,
  SignalBoundary, \* probers in the single guardedProbeOnce before a signal
  Parents,       \* inodes of the thread-writer-locks directory
  GuardInodes,   \* inodes that may be .coordination.lock
  ThreadInodes,  \* inodes that may be <thread>.lock
  OddInodes,     \* those of ThreadInodes that are no regular file
  NoInode, NoOne,
  RetryTicks,    \* NATIVE_COORDINATION_RETRY_MS / RETRY_INTERVAL_MS
  TamperBound,   \* how often somebody replaces the guard or a directory
  ProbersMayDie  \* whether probing processes are killed

ASSUME ProbeAssumption ==
  /\ Probers \cap Writers = {} /\ SignalBoundary \subseteq Probers
  /\ NoOne \notin Probers \cup Writers
  /\ NoInode \notin Parents \cup GuardInodes \cup ThreadInodes
  /\ OddInodes \subseteq ThreadInodes
  /\ RetryTicks \in Nat \ {0}
  /\ TamperBound \in Nat
  /\ ProbersMayDie \in BOOLEAN

VARIABLES
  parentAt,    \* the inode that the lock directory's path names
  guardAt,     \* guardAt[d]: the guard file in directory d
  guardSafe,   \* guard inodes that are regular, ours and have one link
  threadAt,    \* threadAt[d]: the thread's lock file in directory d
  guardOwner,  \* who holds the exclusive flock of a guard inode
  threadOwner, \* who holds the exclusive flock of a thread inode
  probe,       \* probe[p]: the locals of the prober's call
  writer,      \* writer[w]: the state of a Codex writer
  bypassed,    \* history: the guard was replaced, or lost by a dying prober
  moved,       \* history: the thread file was replaced outside the guard
  tampers      \* history: how often others interfered

vars == <<parentAt, guardAt, guardSafe, threadAt, guardOwner, threadOwner,
          probe, writer, bypassed, moved, tampers>>
history == <<bypassed, moved, tampers>>
paths == <<parentAt, guardAt, guardSafe, threadAt>>

Guard == guardAt[parentAt]     \* what the guard's path names
Thread == threadAt[parentAt]   \* what the thread file's path names

Outside == {"idle", "asleep", "done", "dead"}
Inside == {"observe", "statGuard", "openGuard", "flockGuard", "recheckGuard",
           "openThread", "flockThread", "recheckThread", "unlockThread",
           "closeThread", "finalCheck", "unlockGuard", "closeGuard", "decide"}

Probe == [pc : Outside \cup Inside \cup {"dying"},
          seen : ThreadInodes \cup {NoInode},    \* observeLockFile
          parent : Parents \cup {NoInode},       \* parentBefore
          before : GuardInodes \cup {NoInode},   \* lstat of the guard path
          gfd : GuardInodes \cup {NoInode},
          tfd : ThreadInodes \cup {NoInode},
          verdict : {"none", "free", "held", "unknown"},
          guard : {"none", "acquired", "busy", "changed", "absent", "unsafe"},
          spent : 0..RetryTicks,                 \* ticks since the call
          slept : 0..RetryTicks]                 \* spent when it went to sleep

Writer == [pc : {"idle", "inside", "opened", "granted", "denied", "owning",
                 "dropping", "closed"},
           fd : ThreadInodes \cup {NoInode}]

TypeOK ==
  /\ parentAt \in Parents
  /\ guardAt \in [Parents -> GuardInodes \cup {NoInode}]
  /\ guardSafe \subseteq GuardInodes
  /\ threadAt \in [Parents -> ThreadInodes \cup {NoInode}]
  /\ guardOwner \in [GuardInodes -> Probers \cup Writers \cup {NoOne}]
  /\ threadOwner \in [ThreadInodes -> Probers \cup Writers \cup {NoOne}]
  /\ probe \in [Probers -> Probe]
  /\ writer \in [Writers -> Writer]
  /\ bypassed \in BOOLEAN /\ moved \in BOOLEAN
  /\ tampers \in 0..TamperBound

\* The call has not started, or starts over for its next attempt.
Fresh(spent) ==
  [pc |-> "observe", seen |-> NoInode, parent |-> NoInode,
   before |-> NoInode, gfd |-> NoInode, tfd |-> NoInode, verdict |-> "none",
   guard |-> "none", spent |-> spent, slept |-> 0]

Init ==
  /\ parentAt \in Parents
  /\ guardAt = [d \in Parents |-> NoInode]   \* until a writer creates one
  /\ guardSafe = GuardInodes
  /\ threadAt = [d \in Parents |-> NoInode]
  /\ guardOwner = [g \in GuardInodes |-> NoOne]
  /\ threadOwner = [t \in ThreadInodes |-> NoOne]
  /\ probe = [p \in Probers |-> [Fresh(0) EXCEPT !.pc = "idle"]]
  /\ writer = [w \in Writers |-> [pc |-> "idle", fd |-> NoInode]]
  /\ bypassed = FALSE /\ moved = FALSE
  /\ tampers = 0

-----------------------------------------------------------------------------
(* The prober: guardedProbeOnce, with probeThreadLockOnce in its middle.   *)

At(p, stage) == probe[p].pc = stage

\* One more step of p's call that changes its locals only.
Local(p, rec) ==
  /\ probe' = [probe EXCEPT ![p] = rec]
  /\ UNCHANGED <<paths, guardOwner, threadOwner, writer, history>>

Advance(p, stage) == Local(p, [probe[p] EXCEPT !.pc = stage])

\* The attempt has its result; `stage` is where its cleanup starts.
Result(p, verdict, guard, stage) ==
  Local(p, [probe[p] EXCEPT !.pc = stage, !.verdict = verdict, !.guard = guard])

\* Calls start again and again; a dead process is replaced by another.
Begin(p) ==
  /\ probe[p].pc \in {"idle", "done", "dead"}
  /\ Local(p, Fresh(0))

Observe(p) ==
  /\ At(p, "observe")
  /\ \/ /\ Thread = NoInode                       \* confirmed absent
        /\ Result(p, "free", "none", "decide")
     \/ /\ Thread \in OddInodes                   \* symlink, directory, ...
        /\ Result(p, "unknown", "unsafe", "decide")
     \/ /\ Thread \in ThreadInodes \ OddInodes
        /\ Local(p, [probe[p] EXCEPT !.pc = "statGuard", !.seen = Thread])

\* lstat fails with anything but ENOENT, or the directory is unusable.
ObserveFails(p) ==
  /\ At(p, "observe")
  /\ Result(p, "unknown", "none", "decide")

SafeGuard(g) == g # NoInode /\ g \in guardSafe

StatGuard(p) ==
  /\ At(p, "statGuard")
  /\ \/ /\ Guard = NoInode
        /\ Result(p, "unknown", "absent", "decide")
     \/ /\ Guard # NoInode /\ ~SafeGuard(Guard)
        /\ Result(p, "unknown", "unsafe", "decide")
     \/ /\ SafeGuard(Guard)
        /\ Local(p, [probe[p] EXCEPT !.pc = "openGuard", !.before = Guard,
                                     !.parent = parentAt])

OpenGuard(p) ==
  /\ At(p, "openGuard")
  /\ \/ /\ Guard = NoInode                        \* ENOENT: caught
        /\ Result(p, "unknown", "unsafe", "decide")
     \/ /\ SafeGuard(Guard) /\ Guard = probe[p].before
        /\ Local(p, [probe[p] EXCEPT !.pc = "flockGuard", !.gfd = Guard])
     \/ /\ Guard # NoInode
        /\ ~(SafeGuard(Guard) /\ Guard = probe[p].before)
        /\ Local(p, [probe[p] EXCEPT !.pc = "closeGuard", !.gfd = Guard,
                               !.verdict = "unknown", !.guard = "changed"])

\* A faulty probe goes on without the guard when the guard is busy.
LockGuardOrGoOn(p) ==
  /\ At(p, "flockGuard")
  /\ guardOwner' = [guardOwner EXCEPT ![probe[p].gfd] = IF @ = NoOne THEN p ELSE @]
  /\ probe' = [probe EXCEPT ![p].pc = "recheckGuard"]
  /\ UNCHANGED <<paths, threadOwner, writer, history>>

LockGuard(p) ==
  /\ At(p, "flockGuard")
  /\ \/ /\ guardOwner[probe[p].gfd] = NoOne
        /\ guardOwner' = [guardOwner EXCEPT ![probe[p].gfd] = p]
        /\ probe' = [probe EXCEPT ![p].pc = "recheckGuard"]
        /\ UNCHANGED <<paths, threadOwner, writer, history>>
     \/ /\ guardOwner[probe[p].gfd] # NoOne
        /\ Result(p, "unknown", "busy", "finalCheck")

LockGuardFails(p) ==
  /\ At(p, "flockGuard")
  /\ Result(p, "unknown", "unsafe", "closeGuard")

\* The path still names the guard that is open, in the same directory.
SameGuard(p) ==
  /\ SafeGuard(Guard)
  /\ Guard = probe[p].gfd
  /\ parentAt = probe[p].parent

RecheckGuard(p) ==
  /\ At(p, "recheckGuard")
  /\ \/ /\ SameGuard(p)
        /\ Local(p, [probe[p] EXCEPT !.pc = "openThread", !.guard = "acquired"])
     \/ /\ Guard # NoInode /\ ~SameGuard(p)
        /\ Result(p, "unknown", "changed", "finalCheck")
     \/ /\ Guard = NoInode                        \* lstat throws: caught
        /\ Result(p, "unknown", "unsafe", "unlockGuard")

\* A faulty probe gives the guard back before it tries the thread lock.
OpenThreadUnguarded(p) ==
  /\ At(p, "openThread")
  /\ Thread = probe[p].seen
  /\ probe' = [probe EXCEPT ![p].pc = "flockThread", ![p].tfd = Thread]
  /\ guardOwner' = [g \in GuardInodes |-> IF guardOwner[g] = p THEN NoOne
                                         ELSE guardOwner[g]]
  /\ UNCHANGED <<paths, threadOwner, writer, history>>

OpenThread(p) ==
  /\ At(p, "openThread")
  /\ IF Thread = probe[p].seen
     THEN Local(p, [probe[p] EXCEPT !.pc = "flockThread", !.tfd = Thread])
     ELSE Result(p, "unknown", "acquired", "finalCheck")

\* Faulty readings of flock(): contention taken for success, and the status
\* of the guard taken for the verdict on the thread lock.
ContentionIsFree(t) == "free"
GuardStatusAsVerdict(t) == IF threadOwner[t] = NoOne THEN "acquired" ELSE "busy"

\* The verdict of flock(LOCK_EX | LOCK_NB) on the thread file.
FlockVerdict(t) == IF threadOwner[t] = NoOne THEN "free" ELSE "held"

LockThread(p) ==
  /\ At(p, "flockThread")
  /\ probe' = [probe EXCEPT ![p].pc = "recheckThread",
                            ![p].verdict = FlockVerdict(probe[p].tfd)]
  /\ threadOwner' = [threadOwner EXCEPT
                       ![probe[p].tfd] = IF @ = NoOne THEN p ELSE @]
  /\ UNCHANGED <<paths, guardOwner, writer, history>>

LockThreadFails(p) ==
  /\ At(p, "flockThread")
  /\ Result(p, "unknown", "acquired", "recheckThread")

RecheckThread(p) ==
  /\ At(p, "recheckThread")
  /\ IF Thread = probe[p].tfd
     THEN Advance(p, "unlockThread")
     ELSE Result(p, "unknown", "acquired", "unlockThread")

Without(owner, p) == [i \in DOMAIN owner |->
                        IF owner[i] = p THEN NoOne ELSE owner[i]]

\* flock "un" on the thread file; when it throws, close frees the lock.
UnlockThread(p) ==
  /\ At(p, "unlockThread")
  /\ \/ /\ threadOwner' = Without(threadOwner, p)
        /\ probe' = [probe EXCEPT ![p].pc = "closeThread"]
        /\ UNCHANGED <<paths, guardOwner, writer, history>>
     \/ /\ threadOwner[probe[p].tfd] = p
        /\ Result(p, "unknown", "acquired", "closeThread")

\* A faulty cleanup leaves the thread file open, and locked.
ThreadLeftOpen(p) ==
  /\ At(p, "closeThread")
  /\ threadOwner' = [threadOwner EXCEPT ![probe[p].tfd] = IF @ = NoOne THEN p ELSE @]
  /\ probe' = [probe EXCEPT ![p].pc = "finalCheck", ![p].tfd = NoInode]
  /\ UNCHANGED <<paths, guardOwner, writer, history>>

CloseThread(p) ==
  /\ At(p, "closeThread")
  /\ \E verdict \in {probe[p].verdict, "unknown"} :   \* close may fail
       probe' = [probe EXCEPT ![p].pc = "finalCheck", ![p].tfd = NoInode,
                              ![p].verdict = verdict]
  /\ threadOwner' = Without(threadOwner, p)
  /\ UNCHANGED <<paths, guardOwner, writer, history>>

\* A faulty final check whose exception skips the cleanup.
FinalCheckThrows(p) ==
  /\ At(p, "finalCheck")
  /\ IF SameGuard(p) THEN Advance(p, "unlockGuard")
     ELSE Result(p, "unknown", "unsafe", "decide")

FinalCheck(p) ==
  /\ At(p, "finalCheck")
  /\ \/ /\ SameGuard(p)
        /\ Advance(p, "unlockGuard")
     \/ /\ Guard # NoInode /\ ~SameGuard(p)
        /\ Result(p, "unknown", "changed", "unlockGuard")
     \/ /\ Guard = NoInode
        /\ Result(p, "unknown", "unsafe", "unlockGuard")

UnlockGuard(p) ==
  /\ At(p, "unlockGuard")
  /\ \/ /\ guardOwner' = Without(guardOwner, p)
        /\ probe' = [probe EXCEPT ![p].pc = "closeGuard"]
        /\ UNCHANGED <<paths, threadOwner, writer, history>>
     \/ /\ guardOwner[probe[p].gfd] = p
        /\ Result(p, "unknown", "unsafe", "closeGuard")

CloseGuard(p) ==
  /\ At(p, "closeGuard")
  /\ \/ probe' = [probe EXCEPT ![p].pc = "decide", ![p].gfd = NoInode]
     \/ probe' = [probe EXCEPT ![p].pc = "decide", ![p].gfd = NoInode,
                               ![p].verdict = "unknown", ![p].guard = "unsafe"]
  /\ guardOwner' = Without(guardOwner, p)
  /\ UNCHANGED <<paths, threadOwner, writer, history>>

\* A faulty retry loop without a deadline.
NeverGivesUp(p) == p \in SignalBoundary \/ probe[p].guard # "busy"

\* probeWithRetry: retry contention only, until the deadline.
GivesUp(p) == \/ p \in SignalBoundary
              \/ probe[p].guard # "busy"
              \/ probe[p].spent = RetryTicks

Decide(p) ==
  /\ At(p, "decide")
  /\ IF GivesUp(p)
     THEN Advance(p, "done")
     ELSE Local(p, [probe[p] EXCEPT !.pc = "asleep", !.slept = probe[p].spent])

\* delay(min(RETRY_INTERVAL_MS, remaining)) is over: observe anew.
Wake(p) ==
  /\ At(p, "asleep")
  /\ probe[p].spent > probe[p].slept
  /\ Local(p, Fresh(probe[p].spent))

\* The monotonic clock moves while the call runs or sleeps.
Elapse(p) ==
  /\ probe[p].pc \in {"asleep", "decide"}
  /\ probe[p].spent < RetryTicks
  /\ Local(p, [probe[p] EXCEPT !.spent = @ + 1])

\* The process is killed; the kernel closes its descriptors one by one.
Die(p) ==
  /\ ProbersMayDie
  /\ probe[p].pc \in Inside \cup {"asleep"}
  /\ Advance(p, "dying")

DyingClosesThread(p) ==
  /\ At(p, "dying")
  /\ probe[p].tfd # NoInode
  /\ probe' = [probe EXCEPT ![p].tfd = NoInode]
  /\ threadOwner' = Without(threadOwner, p)
  /\ UNCHANGED <<paths, guardOwner, writer, history>>

DyingClosesGuard(p) ==
  /\ At(p, "dying")
  /\ probe[p].gfd # NoInode
  /\ probe' = [probe EXCEPT ![p].gfd = NoInode]
  /\ guardOwner' = Without(guardOwner, p)
  /\ bypassed' = (bypassed \/ probe[p].tfd # NoInode)
  /\ UNCHANGED <<paths, threadOwner, writer, moved, tampers>>

Dead(p) ==
  /\ At(p, "dying")
  /\ probe[p].gfd = NoInode /\ probe[p].tfd = NoInode
  /\ Advance(p, "dead")

GuardedStep(p) ==
  \/ Observe(p) \/ ObserveFails(p)
  \/ StatGuard(p) \/ OpenGuard(p) \/ LockGuard(p) \/ LockGuardFails(p)
  \/ RecheckGuard(p)
  \/ OpenThread(p) \/ LockThread(p) \/ LockThreadFails(p) \/ RecheckThread(p)
  \/ UnlockThread(p) \/ CloseThread(p)
  \/ FinalCheck(p) \/ UnlockGuard(p) \/ CloseGuard(p)

\* What the event loop and the kernel carry on with by themselves.
Proceed(p) ==
  \/ GuardedStep(p) \/ Decide(p) \/ Wake(p)
  \/ DyingClosesThread(p) \/ DyingClosesGuard(p) \/ Dead(p)

-----------------------------------------------------------------------------
(* Codex writers (external), following the coordination protocol.          *)

InState(w, stage) == writer[w].pc = stage

FreshGuard(g) == /\ \A d \in Parents : guardAt[d] # g
                 /\ \A p \in Probers : probe[p].gfd # g
                 /\ guardOwner[g] = NoOne

FreshThread(t) == /\ t \notin OddInodes
                  /\ \A d \in Parents : threadAt[d] # t
                  /\ \A p \in Probers : probe[p].tfd # t
                  /\ \A w \in Writers : writer[w].fd # t

\* The blocking lock of the coordinator, created when there is none.
TakeGuard(w) ==
  \/ /\ Guard # NoInode /\ guardOwner[Guard] = NoOne
     /\ guardOwner' = [guardOwner EXCEPT ![Guard] = w]
     /\ UNCHANGED paths
  \/ /\ Guard = NoInode
     /\ \E g \in GuardInodes :
          /\ FreshGuard(g)
          /\ guardAt' = [guardAt EXCEPT ![parentAt] = g]
          /\ guardSafe' = guardSafe \cup {g}
          /\ guardOwner' = [guardOwner EXCEPT ![g] = w]
     /\ UNCHANGED <<parentAt, threadAt>>

WriterEnters(w) ==
  /\ InState(w, "idle")
  /\ TakeGuard(w)
  /\ writer' = [writer EXCEPT ![w].pc = "inside"]
  /\ UNCHANGED <<threadOwner, probe, history>>

\* The start-up cleanup unlinks a lock file that nobody has locked.
WriterRemovesStale(w) ==
  /\ InState(w, "inside")
  /\ Thread # NoInode /\ threadOwner[Thread] = NoOne
  /\ threadAt' = [threadAt EXCEPT ![parentAt] = NoInode]
  /\ UNCHANGED <<parentAt, guardAt, guardSafe, guardOwner, threadOwner, probe,
                 writer, history>>

WriterOpens(w) ==
  /\ InState(w, "inside")
  /\ \/ /\ Thread \in ThreadInodes \ OddInodes
        /\ writer' = [writer EXCEPT ![w] = [pc |-> "opened", fd |-> Thread]]
        /\ UNCHANGED threadAt
     \/ /\ Thread = NoInode
        /\ \E t \in ThreadInodes :
             /\ FreshThread(t)
             /\ threadAt' = [threadAt EXCEPT ![parentAt] = t]
             /\ writer' = [writer EXCEPT ![w] = [pc |-> "opened", fd |-> t]]
  /\ UNCHANGED <<parentAt, guardAt, guardSafe, guardOwner, threadOwner, probe,
                 history>>

WriterTries(w) ==
  /\ InState(w, "opened")
  /\ IF threadOwner[writer[w].fd] = NoOne
     THEN /\ threadOwner' = [threadOwner EXCEPT ![writer[w].fd] = w]
          /\ writer' = [writer EXCEPT ![w].pc = "granted"]
     ELSE /\ writer' = [writer EXCEPT ![w].pc = "denied"]
          /\ UNCHANGED threadOwner
  /\ UNCHANGED <<paths, guardOwner, probe, history>>

\* The guard goes back; a writer that was denied has closed its file first.
WriterLeaves(w) ==
  /\ writer[w].pc \in {"granted", "denied"}
  /\ writer' = [writer EXCEPT ![w] =
                  IF @.pc = "granted" THEN [@ EXCEPT !.pc = "owning"]
                  ELSE [pc |-> "idle", fd |-> NoInode]]
  /\ guardOwner' = Without(guardOwner, w)
  /\ UNCHANGED <<paths, threadOwner, probe, history>>

WriterDrops(w) ==
  /\ InState(w, "owning")
  /\ TakeGuard(w)
  /\ writer' = [writer EXCEPT ![w].pc = "dropping"]
  /\ UNCHANGED <<threadOwner, probe, history>>

WriterCloses(w) ==
  /\ InState(w, "dropping")
  /\ writer' = [writer EXCEPT ![w] = [pc |-> "closed", fd |-> NoInode]]
  /\ threadOwner' = Without(threadOwner, w)
  /\ UNCHANGED <<paths, guardOwner, probe, history>>

WriterUnlinks(w) ==
  /\ InState(w, "closed")
  /\ writer' = [writer EXCEPT ![w].pc = "idle"]
  /\ threadAt' = [threadAt EXCEPT ![parentAt] = NoInode]
  /\ guardOwner' = Without(guardOwner, w)
  /\ UNCHANGED <<parentAt, guardAt, guardSafe, threadOwner, probe, history>>

\* Killed, or unable to take the guard for its drop: all its files close and
\* the lock file stays as residue.
WriterEnds(w) ==
  /\ ~InState(w, "idle")
  /\ writer' = [writer EXCEPT ![w] = [pc |-> "idle", fd |-> NoInode]]
  /\ threadOwner' = Without(threadOwner, w)
  /\ guardOwner' = Without(guardOwner, w)
  /\ UNCHANGED <<paths, probe, history>>

WriterStep(w) ==
  \/ WriterEnters(w) \/ WriterRemovesStale(w) \/ WriterOpens(w)
  \/ WriterTries(w) \/ WriterLeaves(w) \/ WriterDrops(w) \/ WriterCloses(w)
  \/ WriterUnlinks(w) \/ WriterEnds(w)

-----------------------------------------------------------------------------
(* Somebody who does not follow the protocol.                              *)

Tamper == tampers < TamperBound /\ tampers' = tampers + 1

ReplaceGuard ==
  /\ Tamper
  /\ \E g \in GuardInodes \cup {NoInode} :
       /\ g # Guard
       /\ \A d \in Parents : guardAt[d] = g => g = NoInode
       /\ guardAt' = [guardAt EXCEPT ![parentAt] = g]
  /\ bypassed' = TRUE
  /\ UNCHANGED <<parentAt, guardSafe, threadAt, guardOwner, threadOwner, probe,
                 writer, moved>>

\* Another link, another owner: the guard stays but is no longer accepted.
SpoilGuard ==
  /\ Tamper
  /\ Guard # NoInode /\ guardSafe' = guardSafe \ {Guard}
  /\ UNCHANGED <<parentAt, guardAt, threadAt, guardOwner, threadOwner, probe,
                 writer, bypassed, moved>>

ReplaceThread ==
  /\ Tamper
  /\ \E t \in ThreadInodes \cup {NoInode} :
       /\ t # Thread
       /\ \A d \in Parents : threadAt[d] = t => t = NoInode
       /\ threadAt' = [threadAt EXCEPT ![parentAt] = t]
  /\ moved' = TRUE
  /\ UNCHANGED <<parentAt, guardAt, guardSafe, guardOwner, threadOwner, probe,
                 writer, bypassed>>

MoveParent ==
  /\ Tamper
  /\ \E d \in Parents \ {parentAt} : parentAt' = d
  /\ bypassed' = TRUE /\ moved' = TRUE
  /\ UNCHANGED <<guardAt, guardSafe, threadAt, guardOwner, threadOwner, probe,
                 writer>>

Others == ReplaceGuard \/ SpoilGuard \/ ReplaceThread \/ MoveParent

Next ==
  \/ \E p \in Probers : Begin(p) \/ Proceed(p) \/ Elapse(p) \/ Die(p)
  \/ \E w \in Writers : WriterStep(w)
  \/ Others

Spec == Init /\ [][Next]_vars

\* A probing process keeps running and its clock keeps moving.  Nothing is
\* assumed of the writers: one may be stopped while it holds the guard.
LiveSpec == /\ Spec
            /\ \A p \in Probers : WF_vars(Proceed(p)) /\ WF_vars(Elapse(p))

-----------------------------------------------------------------------------
Owns(w) == writer[w].pc \in {"granted", "owning", "dropping"}

\* "No probe-induced WouldBlock": when a coordinated writer tries the thread
\* lock, no probe has it, unless the guard itself was replaced or its holder
\* was killed.  Probers that found the guard busy or changed never touch it.
NoInducedWouldBlock ==
  \A w \in Writers :
    (InState(w, "opened") /\ ~bypassed)
      => threadOwner[writer[w].fd] \notin Probers

\* A probe is never told "held" by another diagnostic's probe: what it reads
\* as a writer's lock is a writer's lock.
HeldMeansWriter ==
  \A p \in Probers :
    (At(p, "flockThread") /\ ~bypassed)
      => threadOwner[probe[p].tfd] \notin Probers

\* Between attempts, while it sleeps, when it returns and once it is dead, a
\* probe keeps neither descriptor and neither lock: the guard is not held
\* across an await, a signal or a wait.
NothingRetained ==
  \A p \in Probers :
    probe[p].pc \in Outside =>
      /\ probe[p].gfd = NoInode /\ probe[p].tfd = NoInode
      /\ \A g \in GuardInodes : guardOwner[g] # p
      /\ \A t \in ThreadInodes : threadOwner[t] # p

\* The thread lock is tried only by a prober that has the native guard: lock
\* order guard -> thread, whatever is replaced meanwhile.
GuardBeforeThread ==
  \A p \in Probers :
    (probe[p].tfd # NoInode /\ ~At(p, "dying"))
      => guardOwner[probe[p].gfd] = p

\* Whenever a probe comes to the verdict "free", by the lock or because the
\* file is absent, no writer has the thread at that moment.
FreeIsTrue ==
  [][\A p \in Probers :
       (probe[p].verdict # "free" /\ probe'[p].verdict = "free")
         => (bypassed \/ moved \/ ~\E w \in Writers : Owns(w))]_vars

\* Every call returns within its budget of retries, even while a writer stays
\* stopped inside the guard.
ProbeReturns ==
  \A p \in Probers : (probe[p].pc \in Inside) ~> (probe[p].pc \in {"done", "dead"})

\* To the writers the probes do not exist: they see the abstract service.
TheHolder == IF \E w \in Writers : Owns(w)
             THEN CHOOSE w \in Writers : Owns(w) ELSE NoOne

TheAnswer == [w \in Writers |-> IF Owns(w) THEN "granted"
                                ELSE IF InState(w, "denied") THEN "denied"
                                ELSE "none"]

Service == INSTANCE WriterService WITH holder <- TheHolder, answer <- TheAnswer

ServiceSpec == Service!Spec
=============================================================================
