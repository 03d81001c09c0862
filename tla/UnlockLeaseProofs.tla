-------------------------- MODULE UnlockLeaseProofs --------------------------
(***************************************************************************)
(* Proofs about UnlockLease for every set of processes, homes, threads and *)
(* inodes and for any number of changes made by others.                    *)
(***************************************************************************)
EXTENDS UnlockLease, TLAPS

\* The stages between open and the return of the attempt or of release().
Opened == {"fstat", "flock"} \cup {"lstatDirAfter", "lstatPathAfter", "held"}
            \cup {"unlocked"}
Locked == {"lstatDirAfter", "lstatPathAfter", "held"}

\* A descriptor is open exactly in the stages between open and return.
DescriptorInv ==
  \A c \in Clients : /\ pc[c] \in Opened => fd[c] \in FileInodes
                     /\ pc[c] \notin Opened => fd[c] = NoInode

\* An advisory lock belongs to a process that has the file open ...
OwnerInv ==
  \A f \in FileInodes, c \in Clients :
    flockOwner[f] = c => /\ fd[c] = f
                         /\ pc[c] \in Locked \cup {"unlocked"}

\* ... and a process past flock() has the lock of the file it opened.
LockedInv ==
  \A c \in Clients : pc[c] \in Locked => flockOwner[fd[c]] = c

\* A lease in force that nobody disturbed is the one the path names.
GrantedInv ==
  \A c \in Clients : (pc[c] = "held" /\ ~replaced[c]) => Named(c) = fd[c]

IInv == TypeOK /\ DescriptorInv /\ OwnerInv /\ LockedInv /\ GrantedInv

LEMMA StageFacts ==
  /\ AtRest \subseteq Stages /\ Working \subseteq Stages
  /\ Opened \subseteq Stages /\ Locked \subseteq Opened
  /\ AtRest \cap Opened = {}
  /\ {"mkdir", "lstatDir", "chmod", "open"} \cap Opened = {}
BY DEF Stages, Working, Holding, Leaving, AtRest, Opened, Locked

LEMMA InitIInv == Init => IInv
<1> SUFFICES ASSUME Init PROVE IInv
  OBVIOUS
<1>1. TypeOK
  BY LeaseAssumption DEF Init, TypeOK, Stages, AtRest, Keys
<1>2. \A c \in Clients : pc[c] \notin Opened /\ pc[c] \notin Locked
  BY DEF Init, Opened, Locked
<1>3. DescriptorInv /\ LockedInv
  BY <1>2 DEF Init, DescriptorInv, LockedInv
<1>4. OwnerInv
  BY LeaseAssumption DEF Init, OwnerInv
<1>5. GrantedInv
  BY DEF Init, GrantedInv
<1> QED
  BY <1>1, <1>3, <1>4, <1>5 DEF IInv

\* Ending an attempt closes its descriptor, which frees its lock and nobody
\* else's.
LEMMA GiveUpIInv ==
  ASSUME IInv, NEW c \in Clients, NEW s \in AtRest, GiveUp(c, s)
  PROVE  IInv'
<1> USE DEF GiveUp, Goto, Close, DropLock, fs
<1>1. TypeOK'
  BY LeaseAssumption, StageFacts DEF IInv, TypeOK
<1>2. /\ \A d \in Clients \ {c} : pc'[d] = pc[d] /\ fd'[d] = fd[d]
      /\ pc'[c] = s /\ fd'[c] = NoInode
  BY DEF IInv, TypeOK
<1>3. \A f \in FileInodes :
        flockOwner'[f] = IF flockOwner[f] = c THEN NoOne ELSE flockOwner[f]
  OBVIOUS
<1>4. s \notin Opened /\ s \notin Locked /\ s # "held"
  BY StageFacts DEF Opened, Locked
<1>5. DescriptorInv'
  BY <1>2, <1>4 DEF IInv, DescriptorInv
<1>6. OwnerInv'
  BY <1>2, <1>3, LeaseAssumption DEF IInv, OwnerInv
<1>7. LockedInv'
  <2> SUFFICES ASSUME NEW d \in Clients, pc'[d] \in Locked
               PROVE  flockOwner'[fd'[d]] = d
    BY DEF LockedInv
  <2>1. d # c /\ fd'[d] = fd[d] /\ pc[d] \in Locked
    BY <1>2, <1>4
  <2>2. flockOwner[fd[d]] = d /\ fd[d] \in FileInodes
    BY <2>1, StageFacts DEF IInv, LockedInv, DescriptorInv
  <2> QED
    BY <1>3, <2>1, <2>2
<1>8. GrantedInv'
  BY <1>2, <1>4 DEF IInv, GrantedInv, Named, KeyOf, Entry
<1> QED
  BY <1>1, <1>5, <1>6, <1>7, <1>8 DEF IInv

\* A step to another stage of the attempt, before the file is opened or
\* after it, that touches neither the descriptors nor the locks and leaves
\* every named lease file of the others where it is.
LEMMA QuietIInv ==
  ASSUME IInv, TypeOK', NEW c \in Clients, NEW s \in Stages,
         Goto(c, s), s # "held",
         UNCHANGED <<flockOwner, asked, fd, replaced>>,
         pc[c] \in Opened <=> s \in Opened,
         pc[c] \in Locked <=> s \in Locked,
         pc[c] = "unlocked" => s = "unlocked",
         \A d \in Clients : Named(d) # NoInode => Named(d)' = Named(d)
  PROVE  IInv'
<1> USE DEF Goto
<1>1. /\ \A d \in Clients \ {c} : pc'[d] = pc[d]
      /\ pc'[c] = s
  BY DEF IInv, TypeOK
<1>2. DescriptorInv'
  BY <1>1 DEF IInv, DescriptorInv
<1>3. OwnerInv'
  BY <1>1 DEF IInv, OwnerInv
<1>4. LockedInv'
  BY <1>1 DEF IInv, LockedInv
<1>5. GrantedInv'
  <2> SUFFICES ASSUME NEW d \in Clients, pc'[d] = "held", ~replaced[d]
               PROVE  Named(d)' = fd[d]
    BY DEF GrantedInv
  <2>1. d # c /\ pc[d] = "held"
    BY <1>1
  <2>2. Named(d) = fd[d] /\ fd[d] \in FileInodes
    BY <2>1 DEF IInv, GrantedInv, DescriptorInv, Opened
  <2> QED
    BY <2>2, LeaseAssumption
<1> QED
  BY <1>2, <1>3, <1>4, <1>5 DEF IInv

\* Releasing the lock of the lease in force, before the close.
LEMMA ReleaseIInv ==
  ASSUME IInv, NEW c \in Clients, ReleaseLock(c) \/ ReleaseLockFails(c)
  PROVE  IInv'
<1> USE DEF ReleaseLock, ReleaseLockFails, Goto, DropLock, fs, locals
<1>1. TypeOK'
  BY LeaseAssumption DEF IInv, TypeOK, Stages, Leaving
<1>2. /\ \A d \in Clients \ {c} : pc'[d] = pc[d]
      /\ pc[c] = "held" /\ pc'[c] = "unlocked" /\ fd' = fd
  BY DEF IInv, TypeOK
<1>3. \A f \in FileInodes : \/ flockOwner'[f] = flockOwner[f]
                            \/ flockOwner[f] = c /\ flockOwner'[f] = NoOne
  OBVIOUS
<1>4. DescriptorInv'
  BY <1>2 DEF IInv, DescriptorInv, Opened
<1>5. OwnerInv'
  BY <1>2, <1>3, LeaseAssumption DEF IInv, OwnerInv
<1>6. LockedInv'
  BY <1>2, <1>3 DEF IInv, LockedInv, DescriptorInv, Locked, Opened
<1>7. GrantedInv'
  BY <1>2 DEF IInv, GrantedInv, Named, KeyOf, Entry
<1> QED
  BY <1>1, <1>4, <1>5, <1>6, <1>7 DEF IInv

LEMMA MakeDirectoryIInv ==
  ASSUME IInv, NEW c \in Clients, MakeDirectory(c)
  PROVE  IInv'
<1> USE DEF MakeDirectory, fs, locals
<1>1. TypeOK'
  BY DEF IInv, TypeOK, Stages, Working, Goto
<1>2. \A d \in Clients : Named(d) # NoInode => Named(d)' = Named(d)
  BY DEF Named, KeyOf, Entry
<1>3. "lstatDir" \in Stages
  BY DEF Stages, Working
<1> QED
  BY <1>1, <1>2, <1>3, QuietIInv DEF Opened, Locked

LEMMA OpenLeaseIInv ==
  ASSUME IInv, NEW c \in Clients, OpenLease(c)
  PROVE  IInv'
<1>1. CASE dirAt = NoInode
  BY <1>1, GiveUpIInv DEF OpenLease, AtRest
<1>2. CASE dirAt # NoInode
  <2> DEFINE k == KeyOf(c)
  <2>0. k \in Keys
    BY LeaseAssumption DEF IInv, TypeOK, Keys, KeyOf, LeaseKey
  <2>1. PICK f \in FileInodes :
          /\ fd' = [fd EXCEPT ![c] = f]
          /\ \/ /\ Named(c) = f
                /\ UNCHANGED <<fileAt, filePrivate>>
             \/ /\ Named(c) = NoInode
                /\ fileAt' = [fileAt EXCEPT ![<<dirAt, k>>] = f]
                /\ filePrivate' = filePrivate \cup {f}
    <3>1. Named(c) \in FileInodes \cup {NoInode}
      BY <2>0 DEF IInv, TypeOK, Named, Entry
    <3> QED
      BY <1>2, <3>1 DEF OpenLease, fs
  <2>2. /\ pc[c] = "open" /\ pc' = [pc EXCEPT ![c] = "fstat"]
        /\ UNCHANGED <<dirAt, dirPrivate, flockOwner, asked, dirSeen, dirSame,
                       replaced, tampers>>
    BY <1>2 DEF OpenLease, fs, Goto
  <2>3. TypeOK'
    BY <2>0, <2>1, <2>2 DEF IInv, TypeOK, Stages, Working
  <2>4. /\ \A d \in Clients \ {c} : pc'[d] = pc[d] /\ fd'[d] = fd[d]
        /\ pc'[c] = "fstat" /\ fd'[c] = f /\ fd[c] = NoInode
    BY <2>1, <2>2 DEF IInv, TypeOK, DescriptorInv, Opened
  <2>5. DescriptorInv'
    BY <2>4 DEF IInv, DescriptorInv, Opened
  <2>6. OwnerInv'
    BY <2>2, <2>4, LeaseAssumption DEF IInv, OwnerInv
  <2>7. LockedInv'
    BY <2>2, <2>4 DEF IInv, LockedInv, Locked
  <2>8. GrantedInv'
    <3> SUFFICES ASSUME NEW d \in Clients, pc'[d] = "held", ~replaced'[d]
                 PROVE  Named(d)' = fd'[d]
      BY DEF GrantedInv
    <3>1. d # c /\ pc[d] = "held" /\ fd'[d] = fd[d] /\ ~replaced[d]
      BY <2>2, <2>4
    <3>2. Named(d) = fd[d] /\ fd[d] \in FileInodes
      BY <3>1 DEF IInv, GrantedInv, DescriptorInv, Opened
    <3>3. Named(d) = fileAt[<<dirAt, KeyOf(d)>>]
      BY <1>2 DEF Named, Entry
    <3>4. KeyOf(d)' = KeyOf(d) /\ KeyOf(d) \in Keys
      BY <2>2, LeaseAssumption DEF IInv, TypeOK, Keys, KeyOf, LeaseKey
    <3>5. Named(d)' = fileAt'[<<dirAt, KeyOf(d)>>]
      BY <1>2, <2>2, <3>4 DEF Named, Entry
    <3>6. Named(c) = fileAt[<<dirAt, k>>]
      BY <1>2 DEF Named, Entry
    <3>7. fileAt'[<<dirAt, KeyOf(d)>>] = fileAt[<<dirAt, KeyOf(d)>>]
      BY <1>2, <2>0, <2>1, <3>2, <3>3, <3>4, <3>6, LeaseAssumption
         DEF IInv, TypeOK
    <3> QED
      BY <3>1, <3>2, <3>3, <3>5, <3>7
  <2> QED
    BY <2>3, <2>5, <2>6, <2>7, <2>8 DEF IInv
<1> QED
  BY <1>1, <1>2

\* flock() succeeds only on a file nobody else has locked.
LEMMA LockLeaseIInv ==
  ASSUME IInv, NEW c \in Clients, LockLease(c)
  PROVE  IInv'
<1>1. CASE Contended(c)
  BY <1>1, GiveUpIInv DEF LockLease, AtRest
<1>2. CASE ~Contended(c)
  <2> USE DEF LockLease, Goto, fs, locals
  <2>1. fd[c] \in FileInodes /\ flockOwner[fd[c]] = NoOne
    BY <1>2 DEF IInv, DescriptorInv, Opened, Contended
  <2>2. TypeOK'
    BY <1>2 DEF IInv, TypeOK, Stages, Working
  <2>3. /\ \A d \in Clients \ {c} : pc'[d] = pc[d]
        /\ pc[c] = "flock" /\ pc'[c] = "lstatDirAfter"
        /\ fd' = fd /\ replaced' = replaced
    BY <1>2 DEF IInv, TypeOK
  <2>4. /\ flockOwner'[fd[c]] = c
        /\ \A f \in FileInodes \ {fd[c]} : flockOwner'[f] = flockOwner[f]
    BY <1>2, <2>1 DEF IInv, TypeOK
  <2>5. DescriptorInv'
    BY <2>3 DEF IInv, DescriptorInv, Opened
  <2>6. OwnerInv'
    BY <2>3, <2>4 DEF IInv, OwnerInv, Locked
  <2>7. LockedInv'
    <3> SUFFICES ASSUME NEW d \in Clients, pc'[d] \in Locked
                 PROVE  flockOwner'[fd[d]] = d
      BY <2>3 DEF LockedInv
    <3>1. CASE d = c
      BY <2>4, <3>1
    <3>2. CASE d # c
      <4>1. flockOwner[fd[d]] = d /\ fd[d] \in FileInodes
        BY <2>3, <3>2, StageFacts DEF IInv, LockedInv, DescriptorInv
      <4>2. fd[d] # fd[c]
        BY <2>1, <4>1, LeaseAssumption
      <4> QED
        BY <2>4, <4>1, <4>2
    <3> QED
      BY <3>1, <3>2
  <2>8. GrantedInv'
    BY <1>2, <2>3 DEF IInv, GrantedInv, Named, KeyOf, Entry
  <2> QED
    BY <2>2, <2>5, <2>6, <2>7, <2>8 DEF IInv
<1> QED
  BY <1>1, <1>2

LEMMA GrantLeaseIInv ==
  ASSUME IInv, NEW c \in Clients, GrantLease(c)
  PROVE  IInv'
<1>1. CASE ~(dirSame[c] /\ StillTheLockedFile(c))
  BY <1>1, GiveUpIInv DEF GrantLease, AtRest
<1>2. CASE dirSame[c] /\ StillTheLockedFile(c)
  <2> USE DEF GrantLease, Goto, fs, locals
  <2>1. TypeOK'
    BY <1>2 DEF IInv, TypeOK, Stages, Holding
  <2>2. /\ \A d \in Clients \ {c} : pc'[d] = pc[d] /\ replaced'[d] = replaced[d]
        /\ pc[c] = "lstatPathAfter" /\ pc'[c] = "held"
        /\ UNCHANGED <<fd, flockOwner, dirAt, fileAt, asked>>
    BY <1>2 DEF IInv, TypeOK
  <2>3. DescriptorInv' /\ OwnerInv' /\ LockedInv'
    BY <2>2 DEF IInv, DescriptorInv, OwnerInv, LockedInv, Opened, Locked
  <2>4. GrantedInv'
    BY <1>2, <2>2 DEF IInv, GrantedInv, Named, KeyOf, Entry, StillTheLockedFile
  <2> QED
    BY <2>1, <2>3, <2>4 DEF IInv
<1> QED
  BY <1>1, <1>2

\* The calls that only look, or move on: no descriptor, lock or path changes.
LEMMA LookIInv ==
  ASSUME IInv, NEW c \in Clients,
         \/ Locate(c) \/ ValidateDirectory(c) \/ ChmodDirectory(c)
         \/ CheckLeaseFile(c) \/ ReexamineDirectory(c)
  PROVE  IInv'
<1> DEFINE Refused == GiveUp(c, "unknown")
<1>0. ASSUME UNCHANGED <<dirAt, fileAt, asked>>
      PROVE  \A d \in Clients : Named(d)' = Named(d)
  BY <1>0 DEF Named, KeyOf, Entry
<1>1. CASE Refused
  BY <1>1, GiveUpIInv DEF AtRest
<1> USE DEF Goto, fs, locals
<1>2. CASE Locate(c)
  <2>1. TypeOK'
    BY <1>2 DEF Locate, IInv, TypeOK, Stages, Working
  <2> QED
    BY <1>0, <1>2, <2>1, QuietIInv
       DEF Locate, Opened, Locked, Stages, Working
<1>3. CASE ValidateDirectory(c) /\ ~Refused
  <2>1. PrivateDirectory(dirAt)
    BY <1>3 DEF ValidateDirectory
  <2>2. TypeOK'
    BY <1>3, <2>1
       DEF ValidateDirectory, PrivateDirectory, IInv, TypeOK, Stages, Working
  <2> QED
    BY <1>0, <1>3, <2>1, <2>2, QuietIInv
       DEF ValidateDirectory, Opened, Locked, Stages, Working
<1>4. CASE ChmodDirectory(c) /\ ~Refused
  <2>1. dirAt # NoInode
    BY <1>4 DEF ChmodDirectory
  <2>2. TypeOK'
    BY <1>4, <2>1 DEF ChmodDirectory, IInv, TypeOK, Stages, Working
  <2> QED
    BY <1>0, <1>4, <2>1, <2>2, QuietIInv
       DEF ChmodDirectory, Opened, Locked, Stages, Working
<1>5. CASE CheckLeaseFile(c) /\ ~Refused
  <2>1. PrivateLeaseFile(fd[c])
    BY <1>5 DEF CheckLeaseFile
  <2>2. TypeOK'
    BY <1>5, <2>1 DEF CheckLeaseFile, IInv, TypeOK, Stages, Working
  <2> QED
    BY <1>0, <1>5, <2>1, <2>2, QuietIInv
       DEF CheckLeaseFile, Opened, Locked, Stages, Working
<1>6. CASE ReexamineDirectory(c) /\ ~Refused
  <2>1. dirAt # NoInode
    BY <1>6 DEF ReexamineDirectory
  <2>2. TypeOK'
    BY <1>6, <2>1 DEF ReexamineDirectory, IInv, TypeOK, Stages, Working
  <2> QED
    BY <1>0, <1>6, <2>1, <2>2, QuietIInv
       DEF ReexamineDirectory, Opened, Locked, Stages, Working
<1> QED
  BY <1>1, <1>2, <1>3, <1>4, <1>5, <1>6

LEMMA EndIInv ==
  ASSUME IInv, NEW c \in Clients,
         LocateFails(c) \/ LockLeaseFails(c) \/ CloseLease(c) \/ Die(c)
  PROVE  IInv'
BY GiveUpIInv DEF LocateFails, LockLeaseFails, CloseLease, Die, AtRest

\* A new attempt starts from an attempt that left nothing behind.
LEMMA AgainIInv ==
  ASSUME IInv, NEW c \in Clients, Again(c)
  PROVE  IInv'
<1> USE DEF Again, Goto, fs
<1>1. TypeOK'
  BY LeaseAssumption DEF IInv, TypeOK, Stages, AtRest
<1>2. /\ \A d \in Clients \ {c} : pc'[d] = pc[d] /\ asked'[d] = asked[d]
      /\ pc'[c] = "idle" /\ pc[c] \notin Opened
      /\ UNCHANGED <<fd, flockOwner, replaced, dirAt, fileAt>>
  BY StageFacts DEF IInv, TypeOK
<1>3. DescriptorInv'
  BY <1>2 DEF IInv, DescriptorInv, Opened
<1>4. OwnerInv' /\ LockedInv'
  BY <1>2 DEF IInv, OwnerInv, LockedInv, Locked, Opened
<1>5. GrantedInv'
  BY <1>2 DEF IInv, GrantedInv, Named, KeyOf, Entry
<1> QED
  BY <1>1, <1>3, <1>4, <1>5 DEF IInv

\* Whatever others do to the paths, a lease they separate from its path is
\* marked as replaced.
LEMMA TamperIInv ==
  ASSUME IInv, MoveDirectory \/ MoveLeaseFile \/ ChangeOwnership
  PROVE  IInv'
<1> USE DEF MoveDirectory, MoveLeaseFile, ChangeOwnership, locals
<1>1. TypeOK'
  <2>1. tampers' \in 0..TamperBound
    BY LeaseAssumption DEF IInv, TypeOK
  <2>2. fileAt' \in [DirInodes \X Keys -> FileInodes \cup {NoInode}]
    BY LeaseAssumption DEF IInv, TypeOK, LeaseKey, Keys
  <2>3. replaced' \in [Clients -> BOOLEAN]
    BY DEF IInv, TypeOK, NoteReplacement
  <2> QED
    BY <2>1, <2>2, <2>3 DEF IInv, TypeOK
<1>2. UNCHANGED <<pc, fd, flockOwner, asked>>
  OBVIOUS
<1>3. DescriptorInv' /\ OwnerInv' /\ LockedInv'
  BY <1>2 DEF IInv, DescriptorInv, OwnerInv, LockedInv
<1>4. GrantedInv'
  <2>1. CASE ChangeOwnership
    BY <2>1, <1>2 DEF IInv, GrantedInv, Named, KeyOf, Entry
  <2>2. CASE NoteReplacement
    BY <2>2, <1>2 DEF NoteReplacement, GrantedInv, Named, KeyOf
  <2> QED
    BY <2>1, <2>2
<1> QED
  BY <1>1, <1>3, <1>4 DEF IInv

LEMMA NextIInv == IInv /\ [Next]_vars => IInv'
<1> SUFFICES ASSUME IInv, [Next]_vars PROVE IInv'
  OBVIOUS
<1>1. CASE UNCHANGED vars
  BY <1>1 DEF vars, IInv, TypeOK, DescriptorInv, OwnerInv, LockedInv,
              GrantedInv, Named, KeyOf, Entry
<1>2. ASSUME NEW c \in Clients, Step(c) PROVE IInv'
  BY <1>2, LookIInv, EndIInv, MakeDirectoryIInv, OpenLeaseIInv, LockLeaseIInv,
     GrantLeaseIInv, ReleaseIInv, AgainIInv DEF Step
<1> QED
  BY <1>1, <1>2, TamperIInv DEF Next

-----------------------------------------------------------------------------
\* The strengthened invariant holds in every reachable state.
THEOREM Invariant == Spec => []IInv
<1> QED
  BY InitIInv, NextIInv, PTL DEF Spec

\* Every variable keeps its type, whatever others do to the directory.
THEOREM TypeCorrect == Spec => []TypeOK
<1>1. IInv => TypeOK
  BY DEF IInv
<1> QED
  BY <1>1, Invariant, PTL

\* Two processes never hold the lease of one thread of one physical lock
\* directory unless the path of one was replaced after it was granted.
THEOREM Exclusion == Spec => []LeaseExclusion
<1>1. IInv => LeaseExclusion
  <2> SUFFICES ASSUME IInv, NEW c \in Clients, NEW d \in Clients,
                      c # d, Holds(c), Holds(d), SameLease(c, d),
                      ~replaced[c], ~replaced[d]
               PROVE  FALSE
    BY DEF LeaseExclusion
  <2>1. pc[c] = "held" /\ pc[d] = "held"
    BY DEF Holds, Holding
  <2>2. KeyOf(c) = KeyOf(d)
    BY DEF SameLease, KeyOf, LeaseKey
  <2>3. fd[c] = fd[d]
    BY <2>1, <2>2 DEF IInv, GrantedInv, Named
  <2>4. flockOwner[fd[c]] = c /\ flockOwner[fd[d]] = d
    BY <2>1 DEF IInv, LockedInv, Locked
  <2> QED
    BY <2>3, <2>4
<1> QED
  BY <1>1, Invariant, PTL

\* An attempt or a lease that is over owns no descriptor and no lock.
THEOREM CleanEnd == Spec => []NothingLeftBehind
<1>1. IInv => NothingLeftBehind
  <2> SUFFICES ASSUME IInv, NEW c \in Clients, pc[c] \in AtRest
               PROVE  fd[c] = NoInode /\ \A f \in FileInodes : flockOwner[f] # c
    BY DEF NothingLeftBehind
  <2>1. pc[c] \notin Opened
    BY StageFacts
  <2> QED
    BY <2>1 DEF IInv, DescriptorInv, OwnerInv, Opened, Locked
<1> QED
  BY <1>1, Invariant, PTL
=============================================================================
