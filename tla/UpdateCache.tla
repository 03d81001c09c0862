---------------------------- MODULE UpdateCache ----------------------------
(***************************************************************************)
(* The update cache of src/src/update.ts: processes that refresh it        *)
(* (refreshUpdateCache) or check for an update (checkForUpdate), one at a  *)
(* time under the flock lease on update.lock, replacing update.json by a   *)
(* temporary file that is written, synced and renamed.  Processes are      *)
(* killed and the power fails between any two system calls.                *)
(***************************************************************************)
EXTENDS Naturals, FiniteSets

CONSTANTS
  Processes, NoProcess,
  MaxRuns,   \* bound: refreshes and checks that are begun, and so files
  MaxClock,  \* bound: Date.now(), in units of hours
  TTL,       \* UPDATE_CACHE_TTL_MS
  MaxMishaps,\* bound: kinds of mishap that happen, each once
  Skew       \* UPDATE_CACHE_FUTURE_SKEW_MS

ASSUME CacheAssumption ==
  /\ NoProcess \notin Processes
  /\ MaxRuns \in Nat \ {0} /\ MaxClock \in Nat /\ MaxMishaps \in Nat
  /\ TTL \in Nat /\ Skew \in Nat

Files == 1..MaxRuns
None == 0           \* no file; no descriptor
Locks == 1..2       \* the inodes that update.lock has named

VARIABLES
  clock,       \* the wall clock
  mishaps,     \* what has happened: see Mishaps
  lockFile,    \* the inode update.lock names
  holder,      \* holder[i]: who has the flock on the inode
  target,      \* the file update.json names
  onDisk,      \* what it may name after the power fails
  made,        \* temporary files created so far
  stamp,       \* stamp[f]: checkedAt of the record written to f
  whole,       \* files with a whole record
  synced,      \* files whose content is on disk
  reported,    \* the file of the last refresh reported as written
  runs,        \* runs begun
  pc, kind,    \* per process: the next step; "refresh" or "check"
  fd,          \* the lock inode it has open
  asked,       \* when it began
  checkedAt,   \* nowMs: of its fetch, or of its read of the cache
  temp,        \* its file, until the rename a temporary one
  seen,        \* the file that lstat, then open, found
  answer       \* checkedAt of the record last returned; {} after a failure

disk == <<target, onDisk, made, stamp, whole, synced>>
world == <<clock, mishaps>>
vars == <<world, disk, lockFile, holder, reported, runs, pc, kind, fd, asked,
          checkedAt, temp, seen, answer>>

\* The clock set back, update.lock removed, the power failed.
Mishaps == {"set_back", "lock_removed", "power_lost"}
Steps == {"idle", "lock", "flock", "fetch", "fetching", "create", "write",
          "sync", "rename", "sync_directory", "confirm", "read", "open", "fstat",
          "judge"}

TypeOK ==
  /\ clock \in 0..MaxClock /\ mishaps \subseteq Mishaps
  /\ lockFile \in Locks \cup {None}
  /\ holder \in [Locks -> Processes \cup {NoProcess}]
  /\ target \in Files \cup {None} /\ onDisk \subseteq Files \cup {None}
  /\ made \in 0..MaxRuns /\ stamp \in [Files -> 0..MaxClock]
  /\ whole \subseteq 1..made /\ synced \subseteq 1..made
  /\ reported \in Files \cup {None}
  /\ runs \in 0..MaxRuns
  /\ pc \in [Processes -> Steps]
  /\ kind \in [Processes -> {"refresh", "check"}]
  /\ fd \in [Processes -> Locks \cup {None}]
  /\ asked \in [Processes -> 0..MaxClock]
  /\ checkedAt \in [Processes -> 0..MaxClock]
  /\ temp \in [Processes -> Files \cup {None}]
  /\ seen \in [Processes -> Files \cup {None}]
  /\ answer \in SUBSET (0..MaxClock) /\ Cardinality(answer) <= 1

Init ==
  /\ clock = 0 /\ mishaps = {}
  /\ lockFile = None
  /\ holder = [i \in Locks |-> NoProcess]
  /\ target = None /\ onDisk = {None}
  /\ made = 0 /\ stamp = [f \in Files |-> 0] /\ whole = {} /\ synced = {}
  /\ reported = None /\ runs = 0
  /\ pc = [p \in Processes |-> "idle"]
  /\ kind = [p \in Processes |-> "refresh"]
  /\ fd = [p \in Processes |-> None]
  /\ asked = [p \in Processes |-> 0]
  /\ checkedAt = [p \in Processes |-> 0]
  /\ temp = [p \in Processes |-> None]
  /\ seen = [p \in Processes |-> None]
  /\ answer = {}

Goto(p, step) == pc' = [pc EXCEPT ![p] = step]

\* lease.release(), and what the kernel does when the process dies: closing
\* the descriptor unlocks it.
Unlocked(p) ==
  [i \in Locks |-> IF holder[i] = p THEN NoProcess ELSE holder[i]]

\* The run returns; whatever it returns, its finally blocks release the lease
\* and remove a temporary file that was not renamed.
Return(p, record) ==
  /\ Goto(p, "idle")
  /\ answer' = record
  /\ kind' = [kind EXCEPT ![p] = "refresh"]
  /\ holder' = Unlocked(p)
  /\ fd' = [fd EXCEPT ![p] = None]
  /\ temp' = [temp EXCEPT ![p] = None]
  /\ seen' = [seen EXCEPT ![p] = None]
  /\ asked' = [asked EXCEPT ![p] = 0]
  /\ checkedAt' = [checkedAt EXCEPT ![p] = 0]

-----------------------------------------------------------------------------
(* acquireUpdateRefreshLease.                                              *)

Begin(p, k) ==
  /\ pc[p] = "idle" /\ runs < MaxRuns
  /\ runs' = runs + 1
  /\ kind' = [kind EXCEPT ![p] = k]
  /\ asked' = [asked EXCEPT ![p] = clock]
  /\ Goto(p, "lock")
  /\ UNCHANGED <<world, disk, lockFile, holder, reported, fd, checkedAt, temp, seen,
                 answer>>

\* openSync of update.lock with O_CREAT.
OpenLock(p) ==
  /\ pc[p] = "lock"
  /\ lockFile' = IF lockFile # None THEN lockFile ELSE IF "lock_removed" \in mishaps THEN 2 ELSE 1
  /\ fd' = [fd EXCEPT ![p] = lockFile']
  /\ Goto(p, "flock")
  /\ UNCHANGED <<world, disk, holder, reported, runs, kind, asked, checkedAt,
                 temp, seen, answer>>

\* Nobody else has the flock.
Granted(p) == holder[fd[p]] = NoProcess

\* flockSync(descriptor, "exnb") succeeds.
TakeLease(p) ==
  /\ pc[p] = "flock" /\ Granted(p)
  /\ holder' = [holder EXCEPT ![fd[p]] = p]
  /\ Goto(p, "fetch")
  /\ UNCHANGED <<world, disk, lockFile, reported, runs, kind, fd, asked,
                 checkedAt, temp, seen, answer>>

\* It is held: a refresh is skipped, a check turns to the cache, with the time
\* of now.
Contended(p) ==
  /\ pc[p] = "flock" /\ ~Granted(p)
  /\ \/ /\ kind[p] = "refresh"
        /\ Return(p, {})
     \/ /\ kind[p] = "check"
        /\ fd' = [fd EXCEPT ![p] = None]
        /\ checkedAt' = [checkedAt EXCEPT ![p] = clock]
        /\ Goto(p, "read")
        /\ UNCHANGED <<holder, kind, asked, temp, seen, answer>>
  /\ UNCHANGED <<world, disk, lockFile, reported, runs>>

\* The directory or the lock file is unsafe, or open, flock, ftruncate or fsync
\* fails: a refresh fails, a check goes on without a lease.
Unavailable(p) ==
  /\ pc[p] \in {"lock", "flock"}
  /\ \/ /\ kind[p] = "refresh"
        /\ Return(p, {})
     \/ /\ kind[p] = "check"
        /\ fd' = [fd EXCEPT ![p] = None]
        /\ Goto(p, "fetch")
        /\ UNCHANGED <<holder, kind, asked, checkedAt, temp, seen, answer>>
  /\ UNCHANGED <<world, disk, lockFile, reported, runs>>

-----------------------------------------------------------------------------
(* fetchNpmLatest.                                                         *)

\* A faulty fetch that dates its record from the start of the command.
TimeOfCommand(p) == asked[p]

\* nowMs: taken as the fetch begins, under the lease.
TimeOfFetch(p) == clock

Fetch(p) ==
  /\ pc[p] = "fetch"
  /\ checkedAt' = [checkedAt EXCEPT ![p] = TimeOfFetch(p)]
  /\ Goto(p, "fetching")
  /\ UNCHANGED <<world, disk, lockFile, holder, reported, runs, kind, fd, asked,
                 temp, seen, answer>>

\* The registry answers: without a lease the record is only returned.
Answered(p) ==
  /\ pc[p] = "fetching"
  /\ \/ /\ fd[p] # None
        /\ Goto(p, "create")
        /\ UNCHANGED <<holder, kind, fd, asked, checkedAt, temp, seen, answer>>
     \/ /\ fd[p] = None
        /\ Return(p, {checkedAt[p]})
  /\ UNCHANGED <<world, disk, lockFile, reported, runs>>

\* It fails, or the time limit aborts it.
FetchFails(p) ==
  /\ pc[p] = "fetching"
  /\ Return(p, {})
  /\ UNCHANGED <<world, disk, lockFile, reported, runs>>

-----------------------------------------------------------------------------
(* writeUpdateCache.                                                       *)

\* A check has its record all the same and returns it with a warning.
WriteFails(p) ==
  /\ Return(p, IF kind[p] = "check" THEN {checkedAt[p]} ELSE {})
  /\ UNCHANGED <<world, disk, lockFile, reported, runs>>

\* The directory, the target, the temporary file or the system refuses.
Refused(p) ==
  /\ pc[p] \in {"create", "write", "sync", "rename", "sync_directory", "confirm"}
  /\ WriteFails(p)

\* ensurePrivateDirectory and validateExistingTarget have agreed: O_CREAT |
\* O_EXCL under a name of its own.
CreateTemporary(p) ==
  /\ pc[p] = "create"
  /\ made' = made + 1
  /\ temp' = [temp EXCEPT ![p] = made']
  /\ Goto(p, "write")
  /\ UNCHANGED <<world, target, onDisk, stamp, whole, synced, lockFile, holder,
                 reported, runs, kind, fd, asked, checkedAt, seen, answer>>

WriteTemporary(p) ==
  /\ pc[p] = "write"
  /\ stamp' = [stamp EXCEPT ![temp[p]] = checkedAt[p]]
  /\ whole' = whole \cup {temp[p]}
  /\ Goto(p, "sync")
  /\ UNCHANGED <<world, target, onDisk, made, synced, lockFile, holder, reported,
                 runs, kind, fd, asked, checkedAt, temp, seen, answer>>

SyncTemporary(p) ==
  /\ pc[p] = "sync"
  /\ synced' = synced \cup {temp[p]}
  /\ Goto(p, "rename")
  /\ UNCHANGED <<world, target, onDisk, made, stamp, whole, lockFile, holder,
                 reported, runs, kind, fd, asked, checkedAt, temp, seen, answer>>

\* validateExistingTarget has agreed again.  renameSync: the name refers to the
\* new file at once, on disk perhaps later.
Rename(p) ==
  /\ pc[p] = "rename"
  /\ target' = temp[p]
  /\ onDisk' = onDisk \cup {temp[p]}
  /\ Goto(p, "sync_directory")
  /\ UNCHANGED <<world, made, stamp, whole, synced, lockFile, holder, reported,
                 runs, kind, fd, asked, checkedAt, temp, seen, answer>>

\* A faulty write that leaves the directory to the page cache.
LeaveDirectory(p) ==
  /\ pc[p] = "sync_directory"
  /\ Goto(p, "confirm")
  /\ UNCHANGED <<world, disk, lockFile, holder, reported, runs, kind, fd, asked,
                 checkedAt, temp, seen, answer>>

\* fsyncSync of the directory.
SyncDirectory(p) ==
  /\ pc[p] = "sync_directory"
  /\ onDisk' = {target}
  /\ Goto(p, "confirm")
  /\ UNCHANGED <<world, target, made, stamp, whole, synced, lockFile, holder,
                 reported, runs, kind, fd, asked, checkedAt, temp, seen, answer>>

\* update.json is opened once more and is a private regular file, whoever's.
Confirm(p) ==
  /\ pc[p] = "confirm" /\ target # None
  /\ reported' = temp[p]
  /\ Return(p, {checkedAt[p]})
  /\ UNCHANGED <<world, disk, lockFile, runs>>

-----------------------------------------------------------------------------
(* readUpdateCache, for a check that found the lease held.                 *)

NotFresh(p) ==
  /\ Return(p, {})
  /\ UNCHANGED <<world, disk, lockFile, reported, runs>>

\* lstatSync: no file, or one that is looked at.
Look(p) ==
  /\ pc[p] = "read"
  /\ \/ target = None /\ NotFresh(p)
     \/ /\ target # None
        /\ seen' = [seen EXCEPT ![p] = target]
        /\ Goto(p, "open")
        /\ UNCHANGED <<world, disk, lockFile, holder, reported, runs, kind, fd,
                       asked, checkedAt, temp, answer>>

\* openSync, and the comparison of the inode that follows.
OpenCache(p) ==
  /\ pc[p] = "open"
  /\ \/ target # seen[p] /\ NotFresh(p)
     \/ /\ target = seen[p]
        /\ Goto(p, "fstat")
        /\ UNCHANGED <<world, disk, lockFile, holder, reported, runs, kind, fd,
                       asked, checkedAt, temp, seen, answer>>

\* fstatSync: a file replaced since has no link left and is not read.
Fstat(p) ==
  /\ pc[p] = "fstat"
  /\ \/ target # seen[p] /\ NotFresh(p)
     \/ /\ target = seen[p]
        /\ Goto(p, "judge")
        /\ UNCHANGED <<world, disk, lockFile, holder, reported, runs, kind, fd,
                       asked, checkedAt, temp, seen, answer>>

\* A faulty judgement of any record that can be read.
AnyAge(p) == seen[p] \in whole

\* The record is whole, not of the future and not older than the TTL.
Fresh(p) ==
  /\ seen[p] \in whole
  /\ stamp[seen[p]] <= checkedAt[p] + Skew
  /\ checkedAt[p] <= stamp[seen[p]] + TTL

\* The descriptor is read, whatever update.json names by now.
Judge(p) ==
  /\ pc[p] = "judge"
  /\ \/ ~Fresh(p) /\ NotFresh(p)
     \/ /\ Fresh(p)
        /\ Return(p, {stamp[seen[p]]})
        /\ UNCHANGED <<world, disk, lockFile, reported, runs>>

\* Any call of the read fails.
ReadFails(p) ==
  /\ pc[p] \in {"read", "open", "fstat", "judge"}
  /\ NotFresh(p)

-----------------------------------------------------------------------------
(* The world (external).                                                   *)

Tick ==
  /\ clock < MaxClock
  /\ clock' = clock + 1
  /\ UNCHANGED <<mishaps, disk, lockFile, holder, reported, runs, pc, kind, fd,
                 asked, checkedAt, temp, seen, answer>>

Mishap(what) ==
  /\ what \notin mishaps /\ Cardinality(mishaps) < MaxMishaps
  /\ mishaps' = mishaps \cup {what}

SetBack ==
  /\ Mishap("set_back")
  /\ clock > 0 /\ clock' = 0
  /\ UNCHANGED <<disk, lockFile, holder, reported, runs, pc, kind, fd, asked,
                 checkedAt, temp, seen, answer>>

\* Somebody tidies the cache directory: the lock file goes, its flock stays.
RemoveLock ==
  /\ Mishap("lock_removed")
  /\ lockFile # None /\ lockFile' = None
  /\ UNCHANGED <<clock, disk, holder, reported, runs, pc, kind, fd, asked,
                 checkedAt, temp, seen, answer>>

\* A process is killed: its flock goes, its temporary file stays for good.
Die(p) ==
  /\ pc[p] # "idle"
  /\ Return(p, {})
  /\ UNCHANGED <<world, disk, lockFile, reported, runs>>

\* The power fails: what was not synced is lost or not.
PowerLoss ==
  /\ Mishap("power_lost")
  /\ target' \in onDisk /\ onDisk' = {target'}
  /\ \E kept \in SUBSET (whole \ synced) :
       whole' = (whole \cap synced) \cup kept
  /\ holder' = [i \in Locks |-> NoProcess]
  /\ pc' = [p \in Processes |-> "idle"]
  /\ fd' = [p \in Processes |-> None]
  /\ temp' = [p \in Processes |-> None]
  /\ seen' = [p \in Processes |-> None]
  /\ asked' = [p \in Processes |-> 0]
  /\ checkedAt' = [p \in Processes |-> 0]
  /\ answer' = {}
  /\ kind' = [p \in Processes |-> "refresh"]
  /\ UNCHANGED <<clock, made, stamp, synced, lockFile,
                 reported, runs>>

Step(p) ==
  \/ OpenLock(p) \/ TakeLease(p) \/ Contended(p) \/ Unavailable(p)
  \/ Fetch(p) \/ Answered(p) \/ FetchFails(p)
  \/ CreateTemporary(p) \/ WriteTemporary(p) \/ SyncTemporary(p)
  \/ Rename(p) \/ SyncDirectory(p) \/ Confirm(p) \/ Refused(p)
  \/ Look(p) \/ OpenCache(p) \/ Fstat(p) \/ Judge(p) \/ ReadFails(p)

Next ==
  \/ \E p \in Processes :
       Step(p) \/ Die(p) \/ \E k \in {"refresh", "check"} : Begin(p, k)
  \/ Tick \/ SetBack \/ RemoveLock \/ PowerLoss

Spec == Init /\ [][Next]_vars

-----------------------------------------------------------------------------
\* Whoever is killed and whenever the power fails, update.json names nothing or
\* a whole record (fsync comes before rename), and a refresh that reported
\* success has reached the disk: it, or a later one, is there afterwards.  All
\* that on states of their types.
CacheIsDurable ==
  /\ TypeOK
  /\ target # None => target \in whole
  /\ (reported # None /\ mishaps \subseteq {"power_lost"}) =>
       target # None /\ stamp[target] >= stamp[reported]

\* One refresh does not undo a later one: while the lock file stays in place
\* and the clock runs forward, update.json never goes from a record to an
\* older one, but by a loss of power.
NeverOlder ==
  [][(/\ target # None /\ target' # None /\ mishaps' = mishaps
      /\ mishaps \subseteq {"power_lost"})
       => stamp[target'] >= stamp[target]]_vars

\* A record that a check returns, fetched or from the cache, was current no
\* longer than the TTL before the check began.
AnswerIsRecent ==
  [][\A p \in Processes :
       (pc[p] # "idle" /\ pc'[p] = "idle" /\ "set_back" \notin mishaps) =>
         \A at \in answer' : at + TTL >= asked[p]]_vars
=============================================================================
