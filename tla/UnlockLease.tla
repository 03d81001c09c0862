----------------------------- MODULE UnlockLease -----------------------------
(***************************************************************************)
(* The per-thread unlock operation lease of src/src/coordination.ts, one   *)
(* system call per step, taken by several processes that share one file    *)
(* system with whoever else may rename, remove or replace the coordination *)
(* directory and the lease file between two of those calls.                *)
(*                                                                         *)
(* A client is one process running acquireUnlockLease.  The JavaScript is  *)
(* synchronous, so a client runs its calls in order, but other processes   *)
(* run between any two of them.  An inode stays allocated while a path     *)
(* names it or a descriptor holds it, so a lease file that was unlinked is *)
(* still lockable by those that opened it before.                          *)
(***************************************************************************)
EXTENDS Naturals

CONSTANTS
  Clients,       \* processes that call acquireUnlockLease
  Homes,         \* spellings of a Codex home: links, case variants, aliases
  Resolves,      \* Resolves[h]: the physical lock directory h leads to
  Threads,       \* thread UUIDs
  DirInodes,     \* inodes that may be named by <parent>/codex-unlock
  FileInodes,    \* inodes that may be lease files
  NoInode,       \* no inode: an absent path entry, a closed descriptor
  NoOne,         \* no owner of an advisory lock
  TamperBound    \* how often others change the coordination directory

ASSUME LeaseAssumption ==
  /\ Resolves \in [Homes -> Homes]
  /\ NoInode \notin DirInodes \cup FileInodes
  /\ NoOne \notin Clients
  /\ TamperBound \in Nat

Keys == Homes \X Threads

VARIABLES
  dirAt,       \* the inode <parent>/codex-unlock names
  dirPrivate,  \* directory inodes that are ours with mode 0700
  fileAt,      \* fileAt[<<d, k>>]: the inode of entry k of directory d
  filePrivate, \* regular files of ours with mode 0600
  flockOwner,  \* who holds the exclusive flock of each file inode
  pc,          \* pc[c]: the next system call of client c
  asked,       \* asked[c]: the home and thread c was called with
  dirSeen,     \* directoryValue: the directory inode c validated
  dirSame,     \* the directory still matched when c looked again
  fd,          \* fd[c]: the inode behind c's open descriptor
  replaced,    \* history: the lease path changed since c's lease was granted
  tampers      \* history: changes made by others so far

fs == <<dirAt, dirPrivate, fileAt, filePrivate>>
locals == <<asked, dirSeen, dirSame, fd>>
vars == <<dirAt, dirPrivate, fileAt, filePrivate, flockOwner, pc, asked,
          dirSeen, dirSame, fd, replaced, tampers>>

\* The calls of acquireUnlockLease in their order, then of release().
Working == {"mkdir", "lstatDir", "chmod", "open", "fstat", "flock",
            "lstatDirAfter", "lstatPathAfter"}
Holding == {"held"}
Leaving == {"unlocked"}
AtRest == {"idle", "contended", "unknown", "released", "dead"}
Stages == Working \cup Holding \cup Leaving \cup AtRest

TypeOK ==
  /\ dirAt \in DirInodes \cup {NoInode}
  /\ dirPrivate \subseteq DirInodes
  /\ fileAt \in [DirInodes \X Keys -> FileInodes \cup {NoInode}]
  /\ filePrivate \subseteq FileInodes
  /\ flockOwner \in [FileInodes -> Clients \cup {NoOne}]
  /\ pc \in [Clients -> Stages]
  /\ asked \in [Clients -> Homes \X Threads]
  /\ dirSeen \in [Clients -> DirInodes \cup {NoInode}]
  /\ dirSame \in [Clients -> BOOLEAN]
  /\ fd \in [Clients -> FileInodes \cup {NoInode}]
  /\ replaced \in [Clients -> BOOLEAN]
  /\ tampers \in 0..TamperBound

-----------------------------------------------------------------------------
\* The name of the lease file: the physical lock directory and the thread.
LeaseKey(home, thread) == <<Resolves[home], thread>>

KeyOf(c) == LeaseKey(asked[c][1], asked[c][2])

\* The inode that key k names through directory d, d possibly absent.
Entry(files, d, k) == IF d = NoInode THEN NoInode ELSE files[<<d, k>>]
Named(c) == Entry(fileAt, dirAt, KeyOf(c))

\* nlink = 1: exactly one entry names f.
SoleLink(f) == \E e \in DOMAIN fileAt :
                 /\ fileAt[e] = f
                 /\ \A x \in DOMAIN fileAt : fileAt[x] = f => x = e

PrivateDirectory(d) == d # NoInode /\ d \in dirPrivate
PrivateLeaseFile(f) == f \in filePrivate /\ SoleLink(f)

\* An inode nobody names and nobody has open can be given to a new file.
FreeFile(f) == /\ \A e \in DOMAIN fileAt : fileAt[e] # f
               /\ \A c \in Clients : fd[c] # f

Init ==
  /\ dirAt = NoInode
  /\ dirPrivate = {}
  /\ fileAt = [e \in DirInodes \X Keys |-> NoInode]
  /\ filePrivate = {}
  /\ flockOwner = [f \in FileInodes |-> NoOne]
  /\ pc = [c \in Clients |-> "idle"]
  /\ asked \in [Clients -> Homes \X Threads]
  /\ dirSeen = [c \in Clients |-> NoInode]
  /\ dirSame = [c \in Clients |-> FALSE]
  /\ fd = [c \in Clients |-> NoInode]
  /\ replaced = [c \in Clients |-> FALSE]
  /\ tampers = 0

Goto(c, stage) == pc' = [pc EXCEPT ![c] = stage]

\* Closing the last descriptor of an open file drops its advisory lock.
DropLock(c) ==
  flockOwner' = [f \in FileInodes |->
                   IF flockOwner[f] = c THEN NoOne ELSE flockOwner[f]]

Close(c) == /\ fd' = [fd EXCEPT ![c] = NoInode]
            /\ DropLock(c)

\* A faulty return: closeQuietly is forgotten.
ReturnWithoutClose(c, status) ==
  /\ Goto(c, status)
  /\ UNCHANGED <<fs, flockOwner, locals, replaced, tampers>>

\* closeQuietly, then return an attempt that is not acquired.
GiveUp(c, status) ==
  /\ Goto(c, status)
  /\ Close(c)
  /\ UNCHANGED <<fs, asked, dirSeen, dirSame, replaced, tampers>>

-----------------------------------------------------------------------------
\* leaseLocation succeeds: a call with some spelling of some home begins.
Locate(c) ==
  /\ pc[c] = "idle"
  /\ Goto(c, "mkdir")
  /\ UNCHANGED <<fs, flockOwner, locals, replaced, tampers>>

\* leaseLocation throws: the lock directory or its parent is unusable.
LocateFails(c) ==
  /\ pc[c] = "idle"
  /\ GiveUp(c, "unknown")

\* mkdirSync: EEXIST is fine; a new directory is private from the start.
MakeDirectory(c) ==
  /\ pc[c] = "mkdir"
  /\ Goto(c, "lstatDir")
  /\ \/ /\ dirAt # NoInode
        /\ UNCHANGED fs
     \/ /\ dirAt = NoInode
        /\ \E d \in DirInodes :
             /\ \A k \in Keys : fileAt[<<d, k>>] = NoInode
             /\ dirAt' = d
             /\ dirPrivate' = dirPrivate \cup {d}
        /\ UNCHANGED <<fileAt, filePrivate>>
  /\ UNCHANGED <<flockOwner, locals, replaced, tampers>>

ValidateDirectory(c) ==
  /\ pc[c] = "lstatDir"
  /\ IF PrivateDirectory(dirAt)
     THEN /\ Goto(c, "chmod")
          /\ dirSeen' = [dirSeen EXCEPT ![c] = dirAt]
          /\ UNCHANGED <<fs, flockOwner, asked, dirSame, fd, replaced, tampers>>
     ELSE GiveUp(c, "unknown")

\* A faulty chmod: it takes for granted that the directory is still there.
ChmodUnchecked(c) ==
  /\ pc[c] = "chmod"
  /\ Goto(c, "open")
  /\ dirPrivate' = dirPrivate \cup {dirAt}
  /\ UNCHANGED <<dirAt, fileAt, filePrivate, flockOwner, locals, replaced, tampers>>

\* chmodSync follows the path: it may reach a directory that came after the
\* one that was validated.
ChmodDirectory(c) ==
  /\ pc[c] = "chmod"
  /\ IF dirAt # NoInode
     THEN /\ Goto(c, "open")
          /\ dirPrivate' = dirPrivate \cup {dirAt}
          /\ UNCHANGED <<dirAt, fileAt, filePrivate, flockOwner, locals,
                         replaced, tampers>>
     ELSE GiveUp(c, "unknown")

\* openSync(O_CREAT | O_RDWR | O_NOFOLLOW, 0600).
OpenLease(c) ==
  /\ pc[c] = "open"
  /\ IF dirAt = NoInode
     THEN GiveUp(c, "unknown")
     ELSE /\ Goto(c, "fstat")
          /\ \/ /\ Named(c) # NoInode
                /\ fd' = [fd EXCEPT ![c] = Named(c)]
                /\ UNCHANGED <<fs, flockOwner>>
             \/ /\ Named(c) = NoInode
                /\ \E f \in FileInodes :
                     /\ FreeFile(f)
                     /\ fileAt' = [fileAt EXCEPT ![<<dirAt, KeyOf(c)>>] = f]
                     /\ filePrivate' = filePrivate \cup {f}
                     /\ fd' = [fd EXCEPT ![c] = f]
                /\ UNCHANGED <<dirAt, dirPrivate, flockOwner>>
          /\ UNCHANGED <<asked, dirSeen, dirSame, replaced, tampers>>

CheckLeaseFile(c) ==
  /\ pc[c] = "fstat"
  /\ IF PrivateLeaseFile(fd[c])
     THEN /\ Goto(c, "flock")
          /\ UNCHANGED <<fs, flockOwner, locals, replaced, tampers>>
     ELSE GiveUp(c, "unknown")

\* flockSync(descriptor, "exnb"): the lock, or EWOULDBLOCK.
Contended(c) == flockOwner[fd[c]] # NoOne

LockLease(c) ==
  /\ pc[c] = "flock"
  /\ IF Contended(c)
     THEN GiveUp(c, "contended")
     ELSE /\ Goto(c, "lstatDirAfter")
          /\ flockOwner' = [flockOwner EXCEPT ![fd[c]] = c]
          /\ UNCHANGED <<fs, locals, replaced, tampers>>

\* flockSync fails for another reason: coordination_lock_failed.
LockLeaseFails(c) ==
  /\ pc[c] = "flock"
  /\ GiveUp(c, "unknown")

\* directoryAfter: a missing directory throws, a different one is remembered.
ReexamineDirectory(c) ==
  /\ pc[c] = "lstatDirAfter"
  /\ IF dirAt = NoInode
     THEN GiveUp(c, "unknown")
     ELSE /\ Goto(c, "lstatPathAfter")
          /\ dirSame' = [dirSame EXCEPT
                           ![c] = dirAt = dirSeen[c] /\ PrivateDirectory(dirAt)]
          /\ UNCHANGED <<fs, flockOwner, asked, dirSeen, fd, replaced, tampers>>

\* A faulty check: the path names some file, no matter which.
SomeFileThere(c) == Named(c) # NoInode

\* The path must still name the locked inode.
StillTheLockedFile(c) == Named(c) # NoInode /\ Named(c) = fd[c]

GrantLease(c) ==
  /\ pc[c] = "lstatPathAfter"
  /\ IF dirSame[c] /\ StillTheLockedFile(c)
     THEN /\ Goto(c, "held")
          /\ replaced' = [replaced EXCEPT ![c] = FALSE]
          /\ UNCHANGED <<fs, flockOwner, locals, tampers>>
     ELSE GiveUp(c, "unknown")

\* release(): flock "un", then close, whether or not the first succeeds.
ReleaseLock(c) ==
  /\ pc[c] = "held"
  /\ Goto(c, "unlocked")
  /\ DropLock(c)
  /\ UNCHANGED <<fs, locals, replaced, tampers>>

\* flock "un" throws: the close that follows is what frees the lock.
ReleaseLockFails(c) ==
  /\ pc[c] = "held"
  /\ Goto(c, "unlocked")
  /\ UNCHANGED <<fs, flockOwner, locals, replaced, tampers>>

CloseLease(c) ==
  /\ pc[c] = "unlocked"
  /\ GiveUp(c, "released")

\* The process dies at any point; the kernel closes its descriptors.
Die(c) ==
  /\ pc[c] \notin AtRest
  /\ GiveUp(c, "dead")

\* Another unlock, by a process in the place of one that is done.
Again(c) ==
  /\ pc[c] \in AtRest \ {"idle"}
  /\ Goto(c, "idle")
  /\ \E a \in Homes \X Threads : asked' = [asked EXCEPT ![c] = a]
  /\ dirSeen' = [dirSeen EXCEPT ![c] = NoInode]
  /\ dirSame' = [dirSame EXCEPT ![c] = FALSE]
  /\ UNCHANGED <<fs, flockOwner, fd, replaced, tampers>>

-----------------------------------------------------------------------------
(***************************************************************************)
(* Everyone else.  Any inode may be moved to or away from either path, and *)
(* back, and its ownership and mode may change.                            *)
(***************************************************************************)
\* The lease files in force whose path no longer names what they locked.
NoteReplacement ==
  replaced' = [c \in Clients |->
                 \/ replaced[c]
                 \/ pc[c] = "held" /\ Entry(fileAt', dirAt', KeyOf(c)) # fd[c]]

MoveDirectory ==
  /\ tampers < TamperBound
  /\ tampers' = tampers + 1
  /\ \E d \in (DirInodes \cup {NoInode}) \ {dirAt} : dirAt' = d
  /\ UNCHANGED <<dirPrivate, fileAt, filePrivate, flockOwner, pc, locals>>
  /\ NoteReplacement

MoveLeaseFile ==
  /\ tampers < TamperBound
  /\ tampers' = tampers + 1
  /\ \E d \in DirInodes, h \in Homes, t \in Threads,
        f \in FileInodes \cup {NoInode} :
       fileAt' = [fileAt EXCEPT ![<<d, LeaseKey(h, t)>>] = f]
  /\ UNCHANGED <<dirAt, dirPrivate, filePrivate, flockOwner, pc, locals>>
  /\ NoteReplacement

ChangeOwnership ==
  /\ tampers < TamperBound
  /\ tampers' = tampers + 1
  /\ \/ /\ \E d \in DirInodes : dirPrivate' = dirPrivate \ {d}
        /\ UNCHANGED filePrivate
     \/ /\ \E f \in FileInodes : filePrivate' = filePrivate \ {f}
        /\ UNCHANGED dirPrivate
  /\ UNCHANGED <<dirAt, fileAt, flockOwner, pc, locals, replaced>>

Step(c) ==
  \/ Locate(c) \/ LocateFails(c)
  \/ MakeDirectory(c) \/ ValidateDirectory(c) \/ ChmodDirectory(c)
  \/ OpenLease(c) \/ CheckLeaseFile(c)
  \/ LockLease(c) \/ LockLeaseFails(c)
  \/ ReexamineDirectory(c) \/ GrantLease(c)
  \/ ReleaseLock(c) \/ ReleaseLockFails(c) \/ CloseLease(c)
  \/ Die(c) \/ Again(c)

Next ==
  \/ \E c \in Clients : Step(c)
  \/ MoveDirectory \/ MoveLeaseFile \/ ChangeOwnership

Spec == Init /\ [][Next]_vars

-----------------------------------------------------------------------------
Holds(c) == pc[c] \in Holding

\* Two calls for the same thread of the same physical lock directory.
SameLease(c, d) ==
  /\ Resolves[asked[c][1]] = Resolves[asked[d][1]]
  /\ asked[c][2] = asked[d][2]

\* Two processes hold the lease of one thread only if somebody replaced the
\* path after one of the two was granted it: aliases of a home, a directory
\* or a file swapped between the calls of an attempt never let two in.
LeaseExclusion ==
  \A c, d \in Clients :
    (c # d /\ Holds(c) /\ Holds(d) /\ SameLease(c, d))
      => (replaced[c] \/ replaced[d])

\* Whatever way an attempt ends, refused, contended, released or killed, its
\* process keeps neither the descriptor nor the advisory lock, so no later
\* unlock of the thread is turned away by one that is over.
NothingLeftBehind ==
  \A c \in Clients :
    pc[c] \in AtRest => /\ fd[c] = NoInode
                        /\ \A f \in FileInodes : flockOwner[f] # c
=============================================================================
