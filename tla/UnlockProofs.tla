---------------------------- MODULE UnlockProofs ----------------------------
(***************************************************************************)
(* The unlock decision for any number of clients, processes, births, lock  *)
(* files and transcript versions: whom SIGTERM reaches, and what was still *)
(* true of it.                                                             *)
(*                                                                         *)
(* Evidence is collected over many steps of a world that does not wait.    *)
(* The argument is that start labels and lock files are never given twice: *)
(* what agrees at two moments agreed all the time in between, so that one  *)
(* observation can vouch for another although they were made apart.        *)
(***************************************************************************)
EXTENDS Unlock, FiniteSetTheorems, TLAPS

-----------------------------------------------------------------------------
(* The invariant, of the world and of each call.                           *)

\* A lock file is open only to its holder and to the writer in the guard.
LocksInv ==
  /\ file <= files
  /\ \A p \in Pids :
       /\ start[p] <= births /\ open[p] <= files
       /\ open[p] # 0 => Alive(p) /\ (p \in locked \/ p = section)
       /\ p \in locked => open[p] # 0 /\ p # section
       /\ p = section => open[p] # 0
  /\ \A p, q \in locked : open[p] = open[q] => p = q

After == {"finalHash", "lockSet", "startTime", "snapshot", "lockPath", "probe",
          "decide"}
Confirmed == {"ownerLocks", "lease", "hash"} \cup After

\* The stages in which a call has the operation lease.
Leased(call) ==
  \/ call.pc \in {"hash", "observe"} \cup After
  \/ call.pc \in {"sample", "pending", "ownerLocks"} /\ call.look >= 3

\* What is known of the classification, and what is still to be asked.
Shape(call) ==
  /\ call.pc \in Confirmed => call.ok /\ call.kind = "live_owner"
  /\ call.pc = "ownerLocks" => call.look \in {2, 4}
  /\ call.pc \in {"lease", "hash"} => call.look = 2
  /\ call.pc \in After => call.look = 4
  /\ call.pc # "pending" => call.pending = {}
  /\ call.pc = "sample" =>
       IF call.ok THEN /\ call.kind \in {"undecided", "live_owner"}
                       /\ call.look # 1 => call.kind = "live_owner"
       ELSE call.kind \in {"absent", "stale_residue"}

\* The same within a window.
Asking(call) ==
  IF call.ok
  THEN /\ call.kind \in {"undecided", "live_owner"}
       /\ "probe" \notin call.pending => call.kind = "live_owner"
       /\ "lsof" \in call.pending => {"start", "image"} \cap call.pending = {}
  ELSE call.pending \subseteq {"probe"} /\
       (call.kind \in {"absent", "stale_residue"} \/ call.pending = {"probe"})

\* The evidence that is complete: from the second window on, and in the first
\* as soon as it is no longer pending.
Known(call, item) ==
  /\ call.ok
  /\ \/ call.pc \in Confirmed
     \/ call.pc = "sample" /\ call.look # 1
     \/ call.pc = "pending" /\ (call.look # 1 \/ item \notin call.pending)

\* It is confirmed for the last time in this inspection.
Last(call, item) ==
  /\ call.ok
  /\ \/ call.pc \in Confirmed
     \/ call.pc = "pending" /\ call.look \in {2, 4} /\ item \notin call.pending

\* The evidence of the second inspection's last look at the openers.
Attributed(call) == Last(call, "lsof") /\ call.look = 4

IsSubject(call) == start[call.evidence.pid] = call.evidence.start

EvidenceInv(call) ==
  /\ call.evidence.start <= births /\ call.evidence.file <= files
  /\ Known(call, "lsof") => call.evidence.pid \in Pids
  /\ Known(call, "lsof") /\ Known(call, "start") => call.evidence.start # 0

\* The turn was complete, and appends after the snapshot are on record.
TurnInv(call, seen) ==
  /\ Last(call, "transcript") => call.evidence.version \in complete
  /\ call.pc \in {"lockPath", "probe", "decide"} =>
       version = call.evidence.version \/ "append" \in seen

\* No other lock since the second lock set, but those on record.
OthersInv(call, seen) ==
  call.pc \in After \ {"finalHash", "lockSet"} =>
    call.evidence.pid \notin other \/ "lockset" \in seen

\* The process that has the PID is the inspected one, or its exit is on record.
IdentityInv(call, seen) ==
  call.pc \in {"snapshot", "lockPath", "probe", "decide"} =>
    IsSubject(call) \/ "exit" \in seen

\* The inspected process runs what it ran, or its exec is on record.
ProgramInv(call, seen) ==
  Attributed(call) /\ Last(call, "image") /\ IsSubject(call) =>
    image[call.evidence.pid] = "codex" \/ "exec" \in seen

\* While the lock path names the file that was inspected, the inspected
\* process has it locked, or is about to lock it with nobody in its way.
HolderInv(call, seen) ==
  LET p == call.evidence.pid
  IN /\ Attributed(call) /\ IsSubject(call) /\ "lost" \notin seen
          /\ file = call.evidence.file /\ file # 0 =>
          /\ open[p] = file
          /\ p \in locked \/ (p = section /\ \A q \in Pids \ {p} : open[q] # file)
     /\ call.pc = "decide" /\ IsSubject(call) /\ "lost" \notin seen =>
          call.heldBy = call.evidence.start

CallInv(call, seen) ==
  /\ Shape(call)
  /\ call.pc = "pending" => Asking(call)
  /\ EvidenceInv(call)
  /\ TurnInv(call, seen) /\ OthersInv(call, seen) /\ IdentityInv(call, seen)
  /\ ProgramInv(call, seen) /\ HolderInv(call, seen)

LeaseInv == \A c \in Clients : Leased(cl[c]) => lease = c

CallsInv == \A c \in Clients : CallInv(cl[c], window[c])

IInv == TypeOK /\ LocksInv /\ LeaseInv /\ CallsInv

LEMMA Bounds ==
  /\ MaxBirths \in Nat /\ MaxFiles \in Nat /\ MaxVersions \in Nat
  /\ MaxResidues \in Nat /\ MaxRuns \in Nat
  /\ 1 <= MaxBirths /\ 1 <= MaxFiles /\ 1 <= MaxVersions
  /\ Nobody \notin Clients /\ Nobody \notin Pids
BY UnlockAssumption

\* A call that can only refuse, or is over, owes nothing.
LEMMA NewCallType ==
  ASSUME NEW stage \in Stages, NEW outcome \in Outcomes
  PROVE  /\ NewCall \in Client
         /\ [NewCall EXCEPT !.pc = stage] \in Client
         /\ [NewCall EXCEPT !.pc = stage, !.outcome = outcome] \in Client
         /\ [NewCall EXCEPT !.pc = stage, !.ok = FALSE, !.kind = "unknown"] \in Client
<1>1. NewCall \in Client
  <2>1. Blank \in Evidence
    BY Bounds DEF Blank, Evidence
  <2>2. 0 \in 0..MaxBirths
    BY Bounds
  <2> QED BY <2>1, <2>2 DEF NewCall, Client, Stages, Outcomes, Classifications,
                             Observations
<1>2. [NewCall EXCEPT !.pc = stage] \in Client
  BY <1>1 DEF Client
<1>3. [NewCall EXCEPT !.pc = stage, !.outcome = outcome] \in Client
  BY <1>1 DEF Client
<1>4. [NewCall EXCEPT !.pc = stage, !.ok = FALSE, !.kind = "unknown"] \in Client
  <2>1. FALSE \in BOOLEAN /\ "unknown" \in Classifications
    BY DEF Classifications
  <2> QED BY <1>1, <2>1 DEF Client
<1> QED BY <1>1, <1>2, <1>3, <1>4

LEMMA InitIInv == Init => IInv
<1> SUFFICES ASSUME Init PROVE IInv
  OBVIOUS
<1> USE Bounds DEF Init
<1>1. PICK p \in Pids :
        /\ start = [q \in Pids |-> IF q = p THEN 1 ELSE 0]
        /\ image = [q \in Pids |-> IF q = p THEN "codex" ELSE "none"]
        /\ open = [q \in Pids |-> IF q = p THEN 1 ELSE 0]
        /\ locked = {p}
  OBVIOUS
<1>2. [NewCall EXCEPT !.pc = "idle"] \in Client
  BY NewCallType DEF Stages, Outcomes
<1>3. TypeOK
  BY <1>1, <1>2 DEF TypeOK, Images
<1>4. LocksInv
  BY <1>1 DEF LocksInv, Alive
<1>5. ASSUME NEW c \in Clients
      PROVE  ~Leased(cl[c]) /\ CallInv(cl[c], window[c])
  BY DEF NewCall, Blank, Leased, CallInv, Shape, EvidenceInv, TurnInv, OthersInv,
         IdentityInv, ProgramInv, HolderInv, Known, Last, Attributed, After, Confirmed
<1> QED BY <1>3, <1>4, <1>5 DEF IInv, LeaseInv, CallsInv

-----------------------------------------------------------------------------
(* The world moves.                                                        *)

LEMMA WorldType == ASSUME IInv, World PROVE TypeOK'
<1> USE Bounds DEF IInv, TypeOK, callers, lockFile, processes, transcript
<1>1. ASSUME NEW event \in Events, NEW p, Mark(event, p)
      PROVE  window' \in [Clients -> SUBSET Events]
  BY <1>1 DEF Mark
<1>2. CASE Spawn
  BY <1>2 DEF Spawn, Images
<1>3. CASE Unlinked
  BY <1>3 DEF Unlinked
<1>4. ASSUME NEW p \in Pids, Exec(p) PROVE TypeOK'
  BY <1>1, <1>4 DEF Exec, Images, Events
<1>5. ASSUME NEW p \in Pids, Exit(p) PROVE TypeOK'
  <2>1. residues' \in 0..MaxResidues
    BY <1>5 DEF Exit
  <2>2. section' \in Pids \cup {Nobody}
    BY <1>5 DEF Exit
  <2> QED BY <1>1, <1>5, <2>1, <2>2 DEF Exit, Images, Events
<1>6. ASSUME NEW p \in Pids, WriterOpens(p) PROVE TypeOK'
  BY <1>6 DEF WriterOpens
<1>7. ASSUME NEW p \in Pids, WriterTries(p) PROVE TypeOK'
  BY <1>7 DEF WriterTries
<1>8. ASSUME NEW p \in Pids, WriterDrops(p) PROVE TypeOK'
  BY <1>8 DEF WriterDrops
<1>9. ASSUME NEW p \in Pids, WriterLoses(p) PROVE TypeOK'
  BY <1>1, <1>9 DEF WriterLoses, Events
<1>10. ASSUME NEW p \in Pids, TakesOther(p) PROVE TypeOK'
  BY <1>1, <1>10 DEF TakesOther, Events
<1>11. ASSUME NEW p \in Pids, Appends(p) PROVE TypeOK'
  <2>1. version' \in 1..MaxVersions /\ complete' \subseteq 1..MaxVersions
    <3>1. version + 1 \in 1..MaxVersions
      BY <1>11 DEF Appends
    <3>2. version' = version + 1 /\ (complete' = complete \cup {version + 1} \/ complete' = complete)
      BY <1>11 DEF Appends
    <3> QED BY <3>1, <3>2
  <2>2. window' \in [Clients -> SUBSET Events]
    BY <1>11 DEF Appends, Events
  <2> QED BY <1>11, <2>1, <2>2 DEF Appends
<1> QED BY <1>2, <1>3, <1>4, <1>5, <1>6, <1>7, <1>8, <1>9, <1>10, <1>11 DEF World

LEMMA WorldLocks == ASSUME IInv, World PROVE LocksInv'
<1> USE Bounds DEF IInv, TypeOK, LocksInv, Alive, callers, lockFile, processes, transcript
<1>1. CASE Spawn
  BY <1>1 DEF Spawn
<1>2. CASE Unlinked
  BY <1>2 DEF Unlinked
<1>3. ASSUME NEW p \in Pids, Exec(p) \/ TakesOther(p) \/ Appends(p) PROVE LocksInv'
  BY <1>3 DEF Exec, TakesOther, Appends
<1>4. ASSUME NEW p \in Pids, Exit(p) PROVE LocksInv'
  BY <1>4 DEF Exit
<1>5. ASSUME NEW p \in Pids, WriterOpens(p) PROVE LocksInv'
  BY <1>5 DEF WriterOpens
<1>6. ASSUME NEW p \in Pids, WriterTries(p) PROVE LocksInv'
  BY <1>6 DEF WriterTries, Holders
<1>7. ASSUME NEW p \in Pids, WriterDrops(p) \/ WriterLoses(p) PROVE LocksInv'
  BY <1>7 DEF WriterDrops, WriterLoses
<1> QED BY <1>1, <1>2, <1>3, <1>4, <1>5, <1>6, <1>7 DEF World

\* The calls stand still meanwhile, and the record of events only grows.
LEMMA WorldWindow ==
  ASSUME IInv, World, NEW c \in Clients
  PROVE  /\ cl' = cl /\ lease' = lease /\ runs' = runs
         /\ window[c] \subseteq window'[c]
<1> USE DEF callers
<1>1. ASSUME NEW event, NEW p, Mark(event, p) PROVE window[c] \subseteq window'[c]
  BY <1>1 DEF Mark
<1> QED BY <1>1 DEF World, Spawn, Unlinked, Exec, Exit, WriterOpens, WriterTries,
                    WriterDrops, WriterLoses, TakesOther, Appends

LEMMA WorldEvidence ==
  ASSUME IInv, World, NEW c \in Clients
  PROVE  EvidenceInv(cl[c])'
<1>1. cl' = cl
  BY WorldWindow
<1>2. births <= births' /\ files <= files'
  BY DEF IInv, TypeOK, World, Spawn, Unlinked, Exec, Exit, WriterOpens, WriterTries,
         WriterDrops, WriterLoses, TakesOther, Appends, processes, lockFile
<1>3. cl[c] \in Client /\ EvidenceInv(cl[c])
  BY DEF IInv, TypeOK, CallsInv, CallInv
<1>4. births \in Nat /\ births' \in Nat /\ files \in Nat /\ files' \in Nat
  BY WorldType, Bounds DEF IInv, TypeOK
<1>5. cl[c].evidence.start \in Nat /\ cl[c].evidence.file \in Nat
  BY <1>3, Bounds DEF Client, Evidence
<1> QED BY <1>1, <1>2, <1>3, <1>4, <1>5 DEF EvidenceInv, Known

LEMMA WorldTurn ==
  ASSUME IInv, World, NEW c \in Clients
  PROVE  TurnInv(cl[c], window[c])'
<1>1. cl' = cl /\ window[c] \subseteq window'[c]
  BY WorldWindow
<1>2. TurnInv(cl[c], window[c])
  BY DEF IInv, CallsInv, CallInv
<1>3. complete \subseteq complete'
  BY DEF World, Spawn, Unlinked, Exec, Exit, WriterOpens, WriterTries, WriterDrops,
         WriterLoses, TakesOther, Appends, transcript
<1>4. \/ version' = version
      \/ cl[c].pc \in {"lockPath", "probe", "decide"} => "append" \in window'[c]
  BY DEF World, Spawn, Unlinked, Exec, Exit, WriterOpens, WriterTries, WriterDrops,
         WriterLoses, TakesOther, Appends, transcript, Unwatched
<1> QED BY <1>1, <1>2, <1>3, <1>4 DEF TurnInv, Last

LEMMA WorldOthers ==
  ASSUME IInv, World, NEW c \in Clients
  PROVE  OthersInv(cl[c], window[c])'
<1>1. cl' = cl /\ window[c] \subseteq window'[c]
  BY WorldWindow
<1>2. OthersInv(cl[c], window[c])
  BY DEF IInv, CallsInv, CallInv
<1>3. \/ cl[c].evidence.pid \in other' => cl[c].evidence.pid \in other
      \/ cl[c].pc \in After \ {"finalHash", "lockSet"} => "lockset" \in window'[c]
  BY DEF World, Spawn, Unlinked, Exec, Exit, WriterOpens, WriterTries, WriterDrops,
         WriterLoses, TakesOther, Appends, Mark, Unnoticed, Unwatched, After
<1> QED BY <1>1, <1>2, <1>3 DEF OthersInv

\* The inspected process is alive, so only its exit ends the agreement; a new
\* process never gets its start label.
LEMMA WorldSubject ==
  ASSUME IInv, World, NEW c \in Clients,
         Known(cl[c], "lsof"), Known(cl[c], "start")
  PROVE  \/ start'[cl[c].evidence.pid] = start[cl[c].evidence.pid]
         \/ IsSubject(cl[c]) /\ Exit(cl[c].evidence.pid) /\ start'[cl[c].evidence.pid] = 0
         \/ ~IsSubject(cl[c]) /\ start'[cl[c].evidence.pid] # cl[c].evidence.start
<1> DEFINE p == cl[c].evidence.pid
           label == cl[c].evidence.start
<1>1. p \in Pids /\ label # 0 /\ label <= births /\ label \in Nat
  BY Bounds DEF IInv, TypeOK, CallsInv, CallInv, EvidenceInv, Client, Evidence
<1>2. start \in [Pids -> 0..MaxBirths] /\ births \in Nat
  BY Bounds DEF IInv, TypeOK
<1> HIDE DEF p, label
<1>3. \/ start'[p] = start[p]
      \/ start[p] = label /\ Exit(p) /\ start'[p] = 0
      \/ start[p] # label /\ start'[p] # label
  <2>1. CASE Spawn
    BY <2>1, <1>1, <1>2 DEF Spawn, Alive
  <2>2. ASSUME NEW q \in Pids, Exit(q)
        PROVE  \/ start'[p] = start[p]
               \/ start[p] = label /\ Exit(p) /\ start'[p] = 0
               \/ start[p] # label /\ start'[p] # label
    <3>1. start' = [start EXCEPT ![q] = 0]
      BY <2>2 DEF Exit
    <3> QED BY <2>2, <3>1, <1>1, <1>2
  <2>3. CASE ~Spawn /\ ~\E q \in Pids : Exit(q)
    <3>1. start' = start
      BY <2>3 DEF World, Unlinked, Exec, WriterOpens, WriterTries, WriterDrops,
                  WriterLoses, TakesOther, Appends, processes
    <3> QED BY <3>1
  <2> QED BY <2>1, <2>2, <2>3
<1> QED BY <1>3 DEF p, label, IsSubject

LEMMA WorldIdentity ==
  ASSUME IInv, World, NEW c \in Clients
  PROVE  IdentityInv(cl[c], window[c])'
<1> SUFFICES ASSUME cl[c].pc \in {"snapshot", "lockPath", "probe", "decide"}
             PROVE  IsSubject(cl[c])' \/ "exit" \in window'[c]
  BY WorldWindow DEF IdentityInv
<1>1. cl' = cl /\ window[c] \subseteq window'[c]
  BY WorldWindow
<1>2. Shape(cl[c]) /\ IdentityInv(cl[c], window[c])
  BY DEF IInv, CallsInv, CallInv
<1>3. Known(cl[c], "lsof") /\ Known(cl[c], "start")
  BY <1>2 DEF Shape, Known, Confirmed, After
<1>4. IsSubject(cl[c]) \/ "exit" \in window[c]
  BY <1>2 DEF IdentityInv
<1>5. Exit(cl[c].evidence.pid) => "exit" \in window'[c]
  BY DEF Exit, Mark, Unnoticed, Unwatched
<1> QED BY <1>1, <1>3, <1>4, <1>5, WorldSubject DEF IsSubject

\* If the process is still the inspected one, it was so before.
LEMMA WorldSame ==
  ASSUME IInv, World, NEW c \in Clients, Attributed(cl[c]), IsSubject(cl[c])'
  PROVE  /\ IsSubject(cl[c]) /\ cl[c].evidence.pid \in Pids
         /\ Alive(cl[c].evidence.pid)
         /\ start'[cl[c].evidence.pid] # 0
         /\ cl[c].look = 4 /\ "lsof" \notin cl[c].pending
         /\ cl[c].pc \in Unwatched["exec"] /\ cl[c].pc \in Unwatched["lost"]
<1>1. cl' = cl
  BY WorldWindow
<1>2. Shape(cl[c]) /\ EvidenceInv(cl[c])
  BY DEF IInv, CallsInv, CallInv
<1>3. Known(cl[c], "lsof") /\ Known(cl[c], "start")
  BY DEF Attributed, Known, Last
<1>4. /\ cl[c].look = 4 /\ "lsof" \notin cl[c].pending
      /\ cl[c].pc \in Unwatched["exec"] /\ cl[c].pc \in Unwatched["lost"]
  BY <1>2 DEF Attributed, Last, Shape, Confirmed, After, Unwatched
<1>5. cl[c].evidence.pid \in Pids /\ cl[c].evidence.start # 0
  BY <1>2, <1>3 DEF EvidenceInv
<1> QED BY <1>1, <1>3, <1>4, <1>5, WorldSubject DEF IsSubject, Alive

LEMMA WorldProgram ==
  ASSUME IInv, World, NEW c \in Clients
  PROVE  ProgramInv(cl[c], window[c])'
<1>1. cl' = cl /\ window[c] \subseteq window'[c]
  BY WorldWindow
<1> SUFFICES ASSUME Attributed(cl[c]), Last(cl[c], "image"), IsSubject(cl[c])'
             PROVE  image'[cl[c].evidence.pid] = "codex" \/ "exec" \in window'[c]
  BY <1>1 DEF ProgramInv, Attributed, Last
<1> DEFINE p == cl[c].evidence.pid
<1>2. /\ IsSubject(cl[c]) /\ p \in Pids /\ start[p] # 0 /\ start'[p] # 0
      /\ cl[c].look = 4 /\ "lsof" \notin cl[c].pending
      /\ cl[c].pc \in Unwatched["exec"]
  BY WorldSame DEF Alive
<1>3. image[p] = "codex" \/ "exec" \in window[c]
  BY <1>2 DEF IInv, CallsInv, CallInv, ProgramInv
<1>4. "image" \notin cl[c].pending
  <2>1. Shape(cl[c])
    BY DEF IInv, CallsInv, CallInv
  <2> QED BY <2>1 DEF Last, Shape, Confirmed, After
<1>5. ASSUME NEW q \in Pids, Exec(q) PROVE image'[p] = image[p] \/ "exec" \in window'[c]
  BY <1>2, <1>4, <1>5 DEF Exec, Mark, Unnoticed
<1>6. ASSUME NEW q \in Pids, Exit(q) PROVE image'[p] = image[p]
  BY <1>2, <1>6 DEF Exit, IInv, TypeOK
<1>7. CASE Spawn
  BY <1>2, <1>3, <1>1, <1>7 DEF Spawn, Alive, IInv, TypeOK
<1>8. CASE ~Spawn /\ ~\E q \in Pids : Exit(q) \/ Exec(q)
  BY <1>1, <1>3, <1>8 DEF World, Unlinked, WriterOpens, WriterTries, WriterDrops,
              WriterLoses, TakesOther, Appends, processes
<1> QED BY <1>1, <1>3, <1>5, <1>6, <1>7, <1>8

LEMMA WorldHolder ==
  ASSUME IInv, World, NEW c \in Clients
  PROVE  HolderInv(cl[c], window[c])'
<1> DEFINE p == cl[c].evidence.pid
           f == cl[c].evidence.file
           Its(open0, locked0, section0) ==
             /\ open0[p] = f
             /\ p \in locked0 \/ (p = section0 /\ \A q \in Pids \ {p} : open0[q] # f)
<1>1. cl' = cl /\ window[c] \subseteq window'[c]
  BY WorldWindow
<1>2. HolderInv(cl[c], window[c]) /\ Shape(cl[c]) /\ EvidenceInv(cl[c])
  BY DEF IInv, CallsInv, CallInv
<1>3. ASSUME cl[c].pc = "decide", IsSubject(cl[c])', "lost" \notin window'[c]
      PROVE  cl[c].heldBy = cl[c].evidence.start
  <2>1. Attributed(cl[c])
    BY <1>2, <1>3 DEF Attributed, Last, Shape, Confirmed, After
  <2> QED BY <1>1, <1>2, <1>3, <2>1, WorldSame DEF HolderInv
<1>4. ASSUME Attributed(cl[c]), IsSubject(cl[c])', "lost" \notin window'[c],
             file' = f, file' # 0
      PROVE  Its(open', locked', section')
  <2>1. /\ IsSubject(cl[c]) /\ p \in Pids /\ start[p] # 0 /\ start'[p] # 0
        /\ cl[c].look = 4 /\ "lsof" \notin cl[c].pending
        /\ cl[c].pc \in Unwatched["lost"]
    BY <1>4, WorldSame DEF Alive
  <2>2. file = f
    <3>1. f <= files /\ files \in Nat /\ f \in Nat
      BY <1>2, Bounds DEF EvidenceInv, IInv, TypeOK, Client, Evidence
    <3>2. file' = file \/ file' = 0 \/ file' = files + 1
      BY DEF World, Spawn, Unlinked, Exec, Exit, WriterOpens, WriterTries,
             WriterDrops, WriterLoses, TakesOther, Appends, lockFile
    <3> QED BY <1>4, <3>1, <3>2
  <2>3. Its(open, locked, section)
    BY <1>1, <1>2, <1>4, <2>1, <2>2 DEF HolderInv
  <2>4. /\ open \in [Pids -> 0..MaxFiles] /\ LocksInv /\ section \in Pids \cup {Nobody}
        /\ Nobody \notin Pids
    BY Bounds DEF IInv, TypeOK
  <2> HIDE DEF p, f
  <2>5. ASSUME NEW q \in Pids, Exit(q) PROVE Its(open', locked', section')
    <3>1. q # p
      BY <2>1, <2>5 DEF Exit, IInv, TypeOK
    <3> QED BY <1>4, <2>1, <2>3, <2>4, <2>5, <3>1 DEF Exit
  <2>6. ASSUME NEW q \in Pids, WriterOpens(q) PROVE Its(open', locked', section')
    <3>1. q # p /\ p \in locked
      BY <1>4, <2>2, <2>3, <2>4, <2>6, <2>1 DEF WriterOpens
    <3> QED BY <2>1, <2>3, <2>4, <2>6, <3>1 DEF WriterOpens
  <2>7. ASSUME NEW q \in Pids, WriterTries(q) PROVE Its(open', locked', section')
    <3>1. CASE q = p
      <4>1. p \notin locked
        BY <2>1, <2>4, <2>7, <3>1 DEF WriterTries, LocksInv
      <4>2. Holders(open[p]) = {}
        BY <2>3, <2>4, <4>1 DEF Holders, IInv, TypeOK
      <4> QED BY <2>3, <2>7, <3>1, <4>2 DEF WriterTries
    <3>2. CASE q # p
      BY <2>1, <2>3, <2>4, <2>7, <3>2 DEF WriterTries
    <3> QED BY <3>1, <3>2
  <2>8. ASSUME NEW q \in Pids, WriterDrops(q) PROVE Its(open', locked', section')
    BY <1>4, <2>8 DEF WriterDrops
  <2>9. ASSUME NEW q \in Pids, WriterLoses(q) PROVE Its(open', locked', section')
    <3>1. q # p
      BY <1>4, <2>1, <2>9 DEF WriterLoses, Mark, Unnoticed, p
    <3> QED BY <1>4, <2>1, <2>3, <2>4, <2>9, <3>1 DEF WriterLoses
  <2>10. CASE \/ Spawn \/ Unlinked
              \/ \E q \in Pids : Exec(q) \/ TakesOther(q) \/ Appends(q)
    <3>1. UNCHANGED <<open, locked, section>>
      BY <2>10 DEF Spawn, Unlinked, Exec, TakesOther, Appends, lockFile
    <3> QED BY <2>3, <3>1
  <2> QED BY <2>5, <2>6, <2>7, <2>8, <2>9, <2>10 DEF World
<1> QED BY <1>1, <1>3, <1>4 DEF HolderInv, Attributed, Last

LEMMA WorldIInv == ASSUME IInv, World PROVE IInv'
<1>1. ASSUME NEW c \in Clients
      PROVE  (Leased(cl[c]) => lease = c)' /\ CallInv(cl[c], window[c])'
  <2>1. cl' = cl /\ lease' = lease
    BY WorldWindow
  <2>2. (Leased(cl[c]) => lease = c)'
    BY <2>1 DEF IInv, LeaseInv, Leased
  <2>3. Shape(cl[c])' /\ (cl[c].pc = "pending" => Asking(cl[c]))'
    <3>1. Shape(cl[c]) /\ (cl[c].pc = "pending" => Asking(cl[c]))
      BY DEF IInv, CallsInv, CallInv
    <3> QED BY <2>1, <3>1 DEF Shape, Asking
  <2> QED BY <2>2, <2>3, WorldEvidence, WorldTurn, WorldOthers, WorldIdentity,
             WorldProgram, WorldHolder DEF CallInv
<1> QED BY <1>1, WorldType, WorldLocks DEF IInv, LeaseInv, CallsInv

-----------------------------------------------------------------------------
(* A call moves.                                                           *)

\* Whoever does not move keeps what it has.
LEMMA OthersKeep ==
  ASSUME IInv, UNCHANGED world, NEW d \in Clients, cl'[d] = cl[d],
         window[d] \subseteq window'[d]
  PROVE  CallInv(cl[d], window[d])'
<1> USE DEF world, processes, lockFile, transcript
<1>1. CallInv(cl[d], window[d])
  BY DEF IInv, CallsInv
<1>2. Shape(cl[d])' /\ (cl[d].pc = "pending" => Asking(cl[d]))' /\ EvidenceInv(cl[d])'
  BY <1>1 DEF CallInv, Shape, Asking, EvidenceInv, Known
<1>3. TurnInv(cl[d], window[d])' /\ OthersInv(cl[d], window[d])'
      /\ IdentityInv(cl[d], window[d])'
  BY <1>1 DEF CallInv, TurnInv, OthersInv, IdentityInv, IsSubject, Last
<1>4. ProgramInv(cl[d], window[d])' /\ HolderInv(cl[d], window[d])'
  BY <1>1 DEF CallInv, ProgramInv, HolderInv, IsSubject, Attributed, Last
<1> QED BY <1>2, <1>3, <1>4 DEF CallInv

\* c's record becomes call, and the record of events about it seen.
LEMMA StepIInv ==
  ASSUME IInv, NEW c \in Clients, NEW call \in Client, NEW seen,
         UNCHANGED world, cl' = [cl EXCEPT ![c] = call],
         window' \in [Clients -> SUBSET Events], window'[c] = seen,
         \A d \in Clients \ {c} : window[d] \subseteq window'[d],
         \/ lease' = lease
         \/ lease = c /\ lease' = Nobody
         \/ lease = Nobody /\ lease' = c,
         Leased(call) => lease' = c,
         runs' \in 0..MaxRuns,
         CallInv(call, seen)
  PROVE  IInv'
<1> USE DEF world, processes, lockFile, transcript
<1>1. TypeOK'
  BY DEF IInv, TypeOK
<1>2. LocksInv'
  BY DEF IInv, LocksInv, Alive
<1>3. cl'[c] = call /\ \A d \in Clients \ {c} : cl'[d] = cl[d]
  BY DEF IInv, TypeOK
<1>4. CallInv(call, seen)'
  <2>1. (call.pc = "pending" => Asking(call))'
    BY DEF CallInv
  <2>2. EvidenceInv(call)' /\ TurnInv(call, seen)' /\ OthersInv(call, seen)'
        /\ IdentityInv(call, seen)'
    BY DEF CallInv, EvidenceInv, TurnInv, OthersInv, IdentityInv, IsSubject
  <2>3. ProgramInv(call, seen)' /\ HolderInv(call, seen)'
    BY DEF CallInv, ProgramInv, HolderInv, IsSubject
  <2> QED BY <2>1, <2>2, <2>3 DEF CallInv
<1>5. CallsInv'
  <2> SUFFICES ASSUME NEW d \in Clients PROVE CallInv(cl[d], window[d])'
    BY DEF CallsInv
  <2>1. CASE d = c
    BY <1>3, <1>4, <2>1
  <2>2. CASE d # c
    BY <1>3, <2>2, OthersKeep
  <2> QED BY <2>1, <2>2
<1>6. LeaseInv'
  <2> SUFFICES ASSUME NEW d \in Clients, Leased(cl'[d]) PROVE lease' = d
    BY DEF LeaseInv
  <2>1. CASE d = c
    BY <1>3, <2>1
  <2>2. CASE d # c
    BY <1>3, <2>2, Bounds DEF IInv, LeaseInv
  <2> QED BY <2>1, <2>2
<1> QED BY <1>1, <1>2, <1>5, <1>6 DEF IInv

\* A call without a claim.
LEMMA IdleInv ==
  ASSUME NEW stage \in {"idle", "refuse", "observe", "done", "notLocked"},
         NEW call \in Client, NEW seen, call.pc = stage, call.pending = {},
         call.evidence.start = 0, call.evidence.file = 0, IInv
  PROVE  CallInv(call, seen)
BY Bounds DEF CallInv, Shape, EvidenceInv, TurnInv, OthersInv, IdentityInv, ProgramInv,
   HolderInv, Attributed, Known, Last, Confirmed, After, IInv, TypeOK

LEMMA FinishIInv ==
  ASSUME IInv, NEW c \in Clients, NEW outcome \in Outcomes, Finish(c, outcome)
  PROVE  IInv'
<1>1. PICK call : call = [NewCall EXCEPT !.pc = "done", !.outcome = outcome]
  OBVIOUS
<1>2. call \in Client
  BY <1>1, NewCallType DEF Stages
<1>3. /\ call.pc = "done" /\ call.pending = {} /\ ~Leased(call)
      /\ call.evidence.start = 0 /\ call.evidence.file = 0
  BY <1>1 DEF NewCall, Blank, Leased, After
<1>4. CallInv(call, {})
  BY <1>2, <1>3, IdleInv
<1>5. /\ cl' = [cl EXCEPT ![c] = call] /\ UNCHANGED <<world, runs>>
      /\ window' = [window EXCEPT ![c] = {}]
      /\ lease' = IF lease = c THEN Nobody ELSE lease
  BY <1>1 DEF Finish
<1>6. /\ window' \in [Clients -> SUBSET Events] /\ window'[c] = {}
      /\ \A d \in Clients \ {c} : window[d] \subseteq window'[d]
  BY <1>5 DEF IInv, TypeOK
<1> QED BY <1>2, <1>3, <1>4, <1>5, <1>6, StepIInv DEF IInv, TypeOK

\* Going on, with or without a reason to refuse.
LEMMA ContinueIInv ==
  ASSUME IInv, NEW c \in Clients, NEW call \in Client, Continue(c, call),
         Blocked(call) \/ CallInv(call, window[c]), Leased(call) => lease = c
  PROVE  IInv'
<1>1. UNCHANGED <<world, lease, runs>> /\ runs' \in 0..MaxRuns
  BY DEF Continue, IInv, TypeOK
<1>2. CASE Blocked(call)
  <2>1. PICK r : r = [NewCall EXCEPT !.pc = "refuse", !.ok = FALSE, !.kind = "unknown"]
    OBVIOUS
  <2>2. r \in Client
    BY <2>1, NewCallType DEF Stages, Outcomes
  <2>3. /\ r.pc = "refuse" /\ r.pending = {} /\ ~Leased(r)
        /\ r.evidence.start = 0 /\ r.evidence.file = 0
    BY <2>1 DEF NewCall, Blank, Leased, After
  <2>4. CallInv(r, {})
    BY <2>2, <2>3, IdleInv
  <2>5. cl' = [cl EXCEPT ![c] = r] /\ window' = [window EXCEPT ![c] = {}]
    BY <1>2, <2>1 DEF Continue
  <2>6. /\ window' \in [Clients -> SUBSET Events] /\ window'[c] = {}
        /\ \A d \in Clients \ {c} : window[d] \subseteq window'[d]
    BY <2>5 DEF IInv, TypeOK
  <2> QED BY <1>1, <2>2, <2>3, <2>4, <2>5, <2>6, StepIInv
<1>3. CASE ~Blocked(call)
  <2>1. PICK r : r = IF call.ok THEN call
                     ELSE [call EXCEPT !.evidence = [Blank EXCEPT !.file = call.evidence.file]]
    OBVIOUS
  <2>2. cl' = [cl EXCEPT ![c] = r] /\ window' = window
    BY <1>3, <2>1 DEF Continue
  <2>3. CallInv(call, window[c])
    BY <1>3
  <2>4. CASE call.ok
    BY <1>1, <2>1, <2>2, <2>3, <2>4, StepIInv DEF IInv, TypeOK
  <2>5. CASE ~call.ok
    <3>1. PICK e : e = [Blank EXCEPT !.file = call.evidence.file]
      OBVIOUS
    <3>2. e \in Evidence /\ e.start = 0 /\ e.file = call.evidence.file
      BY <3>1, Bounds DEF Blank, Evidence, Client
    <3>3. r = [call EXCEPT !.evidence = e]
      BY <2>1, <2>5, <3>1
    <3>4. /\ r \in Client /\ r.pc = call.pc /\ r.look = call.look /\ r.ok = call.ok
          /\ r.kind = call.kind /\ r.pending = call.pending /\ r.evidence = e
      BY <3>2, <3>3 DEF Client
    <3>5. Leased(r) => lease = c
      BY <3>4 DEF Leased
    <3>6. Shape(r) /\ (r.pc = "pending" => Asking(r)) /\ r.pc \notin Confirmed
      BY <2>3, <2>5, <3>4 DEF CallInv, Shape, Asking
    <3>7. CallInv(r, window[c])
      BY <2>3, <2>5, <3>2, <3>4, <3>6, Bounds
         DEF CallInv, EvidenceInv, TurnInv, OthersInv, IdentityInv, ProgramInv,
             HolderInv, Attributed, Known, Last, Confirmed, After, IInv, TypeOK
    <3> QED BY <1>1, <2>2, <3>4, <3>5, <3>7, StepIInv DEF IInv, TypeOK
  <2> QED BY <2>4, <2>5
<1> QED BY <1>2, <1>3

\* A window goes on, or ends and leads to the next stage.
LEMMA ProceedIInv ==
  ASSUME IInv, NEW c \in Clients, NEW call \in Client, Proceed(c, call),
         NEW w, w = [call EXCEPT !.pc = "pending"],
         Blocked(w) \/ CallInv(w, window[c]), w.look >= 3 => lease = c
  PROVE  IInv'
<1> DEFINE stage == AfterWindow(call)
           look == IF stage = "sample" THEN call.look + 1 ELSE call.look
<1>1. PICK r : r = [call EXCEPT !.pc = stage,
                                !.look = IF stage = "sample" THEN @ + 1 ELSE @]
  OBVIOUS
<1>2. Continue(c, r)
  BY <1>1 DEF Proceed
<1>3. stage \in Stages /\ look \in 1..4
  BY DEF AfterWindow, Stages, Client
<1>4. /\ r \in Client /\ r.pc = stage /\ r.look = look /\ r.pending = call.pending
      /\ r.kind = call.kind /\ r.ok = call.ok /\ r.evidence = call.evidence
  BY <1>1, <1>3 DEF Client
<1>5. /\ w \in Client /\ w.pc = "pending" /\ w.look = call.look
      /\ w.pending = call.pending /\ w.kind = call.kind /\ w.ok = call.ok
      /\ w.evidence = call.evidence
  BY DEF Client, Stages
<1> HIDE DEF stage, look
<1>6. ASSUME Blocked(w) PROVE Blocked(r)
  BY <1>4, <1>5, <1>6 DEF Blocked
<1>7. ASSUME ~Blocked(w) PROVE CallInv(r, window[c])
  <2>1. CallInv(w, window[c]) /\ Asking(w)
    BY <1>5, <1>7 DEF CallInv
  <2>2. CASE call.pending # {}
    <3>1. stage = "pending" /\ look = call.look
      BY <2>2 DEF stage, look, AfterWindow
    <3>2. Shape(r) /\ Asking(r)
      BY <1>4, <1>5, <2>1, <3>1 DEF CallInv, Shape, Asking, Confirmed, After
    <3> QED BY <1>4, <1>5, <2>1, <3>1, <3>2
            DEF CallInv, EvidenceInv, TurnInv, OthersInv, IdentityInv, ProgramInv,
                HolderInv, Attributed, Known, Last, Confirmed, After, IsSubject
  <2>3. CASE call.pending = {} /\ call.look \in {1, 3}
    <3>1. stage = "sample" /\ look = call.look + 1 /\ look # 1
      BY <2>3 DEF stage, look, AfterWindow
    <3>2. Shape(r)
      BY <1>4, <1>5, <2>1, <2>3, <3>1 DEF Shape, Asking, Confirmed, After
    <3> QED BY <1>4, <1>5, <2>1, <2>3, <3>1, <3>2
            DEF CallInv, EvidenceInv, TurnInv, OthersInv, IdentityInv, ProgramInv,
                HolderInv, Attributed, Known, Last, Confirmed, After
  <2>4. CASE call.pending = {} /\ call.look \notin {1, 3}
             /\ call.kind \in {"absent", "stale_residue"}
    <3>1. stage = "notLocked" /\ look = call.look
      BY <2>4 DEF stage, look, AfterWindow
    <3>2. Shape(r)
      BY <1>4, <1>5, <2>1, <2>4, <3>1 DEF Shape, Confirmed, After
    <3> QED BY <1>4, <1>5, <2>1, <2>4, <3>1, <3>2
            DEF CallInv, EvidenceInv, TurnInv, OthersInv, IdentityInv, ProgramInv,
                HolderInv, Attributed, Known, Last, Confirmed, After
  <2>5. CASE call.pending = {} /\ call.look \notin {1, 3}
             /\ call.kind \notin {"absent", "stale_residue"}
    <3>1. stage = "ownerLocks" /\ look = call.look /\ look \in {2, 4}
      BY <2>5, <1>3 DEF stage, look, AfterWindow
    <3>2. call.ok /\ call.kind = "live_owner"
      BY <1>5, <2>1, <2>5 DEF Asking
    <3>3. Shape(r)
      BY <1>4, <2>5, <3>1, <3>2 DEF Shape, Confirmed, After
    <3> QED BY <1>4, <1>5, <2>1, <2>5, <3>1, <3>2, <3>3
            DEF CallInv, EvidenceInv, TurnInv, OthersInv, IdentityInv, ProgramInv,
                HolderInv, Attributed, Known, Last, Confirmed, After, IsSubject
  <2> QED BY <2>2, <2>3, <2>4, <2>5
<1>8. Leased(r) => lease = c
  <2>1. CASE call.pending = {} /\ call.look \in {1, 3}
    BY <1>4, <1>5, <2>1 DEF Leased, stage, look, AfterWindow, After
  <2>2. CASE ~(call.pending = {} /\ call.look \in {1, 3})
    BY <1>4, <1>5, <2>2 DEF Leased, stage, look, AfterWindow, After
  <2> QED BY <2>1, <2>2
<1> QED BY <1>2, <1>4, <1>6, <1>7, <1>8, ContinueIInv

LEMMA SampleIInv == ASSUME IInv, NEW c \in Clients, SampleLock(c) PROVE IInv'
<1> DEFINE call == cl[c]
           first == call.look = 1
           absent == file = 0 /\ (first \/ call.kind = "absent")
           same == file # 0 /\ (first \/ file = call.evidence.file)
<1>1. PICK kind : kind = IF absent THEN "absent" ELSE IF same THEN call.kind ELSE "unknown"
  OBVIOUS
<1>2. PICK pending : pending = IF ~same THEN {}
                      ELSE IF call.ok THEN {"probe", "lsof", "transcript"}
                      ELSE {"probe"}
  OBVIOUS
<1>3. PICK ok : ok = (call.ok /\ same)
  OBVIOUS
<1>4. PICK n : n = [call EXCEPT !.kind = kind, !.ok = ok, !.evidence.file = file,
                                !.pending = pending]
  OBVIOUS
<1>5. Proceed(c, n) /\ call.pc = "sample"
  BY <1>1, <1>2, <1>3, <1>4 DEF SampleLock, In
<1>6. call \in Client /\ file \in 0..MaxFiles /\ files \in Nat
  BY Bounds DEF IInv, TypeOK
<1>7. kind \in Classifications /\ pending \in SUBSET Observations /\ ok \in BOOLEAN
  BY <1>1, <1>2, <1>3, <1>6 DEF Client, Classifications, Observations
<1>8. PICK e : e = [call.evidence EXCEPT !.file = file]
  OBVIOUS
<1>9. e \in Evidence /\ e.pid = call.evidence.pid /\ e.start = call.evidence.start
      /\ e.version = call.evidence.version /\ e.file = file
  BY <1>6, <1>8 DEF Client, Evidence
<1>10. PICK w : w = [n EXCEPT !.pc = "pending"]
  OBVIOUS
<1>11. n \in Client
  <2>1. n = [[call EXCEPT !.kind = kind, !.ok = ok] EXCEPT !.evidence = e, !.pending = pending]
    BY <1>4, <1>6, <1>8 DEF Client
  <2>2. [call EXCEPT !.kind = kind, !.ok = ok] \in Client
    BY <1>6, <1>7 DEF Client
  <2> QED BY <1>7, <1>9, <2>1, <2>2 DEF Client
<1>12. /\ w.pc = "pending" /\ w.look = call.look /\ w.kind = kind /\ w.ok = ok
       /\ w.pending = pending /\ w.evidence = e
  BY <1>4, <1>6, <1>8, <1>10 DEF Client
<1>13. CallInv(call, window[c]) /\ Shape(call) /\ EvidenceInv(call)
  BY DEF IInv, CallsInv, CallInv
<1>14. Blocked(w) \/ (Shape(w) /\ Asking(w))
  <2> HIDE DEF call
  <2>1. CASE same /\ call.ok
    BY <1>1, <1>2, <1>3, <1>5, <1>12, <1>13, <2>1 DEF Shape, Asking, Confirmed, After
  <2>2. CASE same /\ ~call.ok
    BY <1>1, <1>2, <1>3, <1>5, <1>12, <1>13, <2>2 DEF Shape, Asking, Confirmed, After
  <2>3. CASE ~same
    BY <1>1, <1>2, <1>3, <1>12, <2>3 DEF Shape, Asking, Blocked, Confirmed, After
  <2> QED BY <2>1, <2>2, <2>3
<1>15. EvidenceInv(w)
  <2>1. Known(w, "lsof") => Known(call, "lsof") /\ Known(call, "start")
    BY <1>2, <1>3, <1>5, <1>12 DEF Known, Confirmed, After
  <2> QED BY <1>9, <1>12, <1>13, <2>1 DEF EvidenceInv, IInv, LocksInv
<1>16. ~Last(w, "lsof") /\ ~Last(w, "transcript")
  BY <1>2, <1>3, <1>12 DEF Last, Confirmed, After
<1>17. Blocked(w) \/ CallInv(w, window[c])
  BY <1>12, <1>14, <1>15, <1>16
     DEF CallInv, TurnInv, OthersInv, IdentityInv, ProgramInv, HolderInv, Attributed, After
<1>18. w.look >= 3 => lease = c
  BY <1>5, <1>12 DEF IInv, LeaseInv, Leased
<1> QED BY <1>5, <1>10, <1>11, <1>17, <1>18, ProceedIInv

LEMMA ProbeIInv == ASSUME IInv, NEW c \in Clients, ProbeAnswers(c) PROVE IInv'
<1> DEFINE call == cl[c]
<1>1. PICK verdict \in {Probed, "unknown"} :
        LET kind == Classified(call.kind, verdict)
        IN Proceed(c, [call EXCEPT
             !.kind = kind, !.ok = @ /\ kind = "live_owner",
             !.pending = IF kind = "live_owner" THEN @ \ {"probe"} ELSE {}])
  BY DEF ProbeAnswers
<1>2. PICK kind : kind = Classified(call.kind, verdict)
  OBVIOUS
<1>3. PICK ok : ok = (call.ok /\ kind = "live_owner")
  OBVIOUS
<1>4. PICK pending : pending = IF kind = "live_owner" THEN call.pending \ {"probe"} ELSE {}
  OBVIOUS
<1>5. PICK n : n = [call EXCEPT !.kind = kind, !.ok = ok, !.pending = pending]
  OBVIOUS
<1>6. Proceed(c, n)
  BY <1>1, <1>2, <1>3, <1>4, <1>5
<1>7. call \in Client /\ call.pc = "pending"
  BY DEF ProbeAnswers, In, IInv, TypeOK
<1>8. kind \in {"live_owner", "stale_residue", "unknown"}
  BY <1>2 DEF Classified
<1>9. n \in Client
  <2>1. kind \in Classifications /\ ok \in BOOLEAN /\ pending \in SUBSET Observations
    BY <1>3, <1>4, <1>7, <1>8 DEF Classifications, Client
  <2>2. n = [[call EXCEPT !.kind = kind, !.ok = ok] EXCEPT !.pending = pending]
    BY <1>5, <1>7 DEF Client
  <2>3. [call EXCEPT !.kind = kind, !.ok = ok] \in Client
    BY <1>7, <2>1 DEF Client
  <2> QED BY <2>1, <2>2, <2>3 DEF Client
<1>10. PICK w : w = [n EXCEPT !.pc = "pending"]
  OBVIOUS
<1>11. /\ w.pc = "pending" /\ w.look = call.look /\ w.kind = kind /\ w.ok = ok
       /\ w.pending = pending /\ w.evidence = call.evidence
  BY <1>5, <1>7, <1>10 DEF Client
<1>12. CallInv(call, window[c]) /\ Asking(call)
  BY <1>7 DEF IInv, CallsInv, CallInv
<1>13. Blocked(w) \/ CallInv(w, window[c])
  <2> HIDE DEF call
  <2>1. CASE ~ok
    <3>1. Blocked(w) \/ (Shape(w) /\ Asking(w))
      BY <1>3, <1>4, <1>8, <1>11, <2>1 DEF Blocked, Shape, Asking, Confirmed, After
    <3> QED BY <1>11, <1>12, <2>1, <3>1
            DEF CallInv, EvidenceInv, TurnInv, OthersInv, IdentityInv, ProgramInv,
                HolderInv, Attributed, Known, Last, Confirmed, After
  <2>2. CASE ok
    <3>1. Shape(w) /\ Asking(w)
      BY <1>3, <1>4, <1>11, <1>12, <2>2 DEF Shape, Asking, Confirmed, After
    <3>2. \A item \in {"lsof", "start", "image", "transcript"} :
            /\ Known(w, item) => Known(call, item)
            /\ Last(w, item) => Last(call, item)
      BY <1>3, <1>4, <1>7, <1>11, <2>2 DEF Known, Last, Confirmed, After
    <3> QED BY <1>7, <1>11, <1>12, <3>1, <3>2
            DEF CallInv, EvidenceInv, TurnInv, OthersInv, IdentityInv, ProgramInv,
                HolderInv, Attributed, After, IsSubject
  <2> QED BY <2>1, <2>2
<1>14. w.look >= 3 => lease = c
  BY <1>7, <1>11 DEF IInv, LeaseInv, Leased
<1> QED BY <1>6, <1>9, <1>10, <1>13, <1>14, ProceedIInv

\* An observation fails, or it is good and leaves the call in a state that
\* satisfies the invariant.
LEMMA ObserveIInv ==
  ASSUME IInv, NEW c \in Clients, cl[c].pc = "pending", cl[c].ok,
         NEW n \in Client, Proceed(c, n),
         NEW w \in Client, w = [n EXCEPT !.pc = "pending"],
         w.pc = "pending", w.look = cl[c].look, w.kind = cl[c].kind,
         w.evidence.start <= births, w.evidence.file <= files,
         ~w.ok => w.pending = cl[c].pending \cap {"probe"},
         w.ok => CallInv(w, window[c])
  PROVE  IInv'
<1>1. CallInv(cl[c], window[c]) /\ Asking(cl[c])
  BY DEF IInv, CallsInv, CallInv
<1>2. ASSUME ~w.ok PROVE Blocked(w) \/ CallInv(w, window[c])
  <2>1. Blocked(w) \/ (Shape(w) /\ Asking(w))
    BY <1>1, <1>2 DEF Blocked, Shape, Asking, Confirmed, After
  <2> QED BY <1>2, <2>1
          DEF CallInv, EvidenceInv, TurnInv, OthersInv, IdentityInv, ProgramInv,
              HolderInv, Attributed, Known, Last, Confirmed, After
<1>3. w.look >= 3 => lease = c
  BY DEF IInv, LeaseInv, Leased
<1> QED BY <1>2, <1>3, ProceedIInv

\* What lsof listed is the one process that has the file open.
LEMMA SoleOpenerIsIt ==
  ASSUME IInv
  PROVE  /\ SoleOpener \in Pids \cup {Nobody}
         /\ SoleOpener # Nobody =>
              /\ SoleOpener \in Pids /\ file # 0 /\ open[SoleOpener] = file
              /\ SoleOpener \in locked \/ SoleOpener = section
              /\ \A q \in Pids \ {SoleOpener} : open[q] # file
<1>1. CASE Cardinality(Openers(file)) # 1
  BY <1>1 DEF SoleOpener
<1>2. CASE Cardinality(Openers(file)) = 1
  <2>1. Openers(file) \subseteq Pids /\ IsFiniteSet(Openers(file))
    BY UnlockAssumption, FS_Subset, FS_EmptySet DEF Openers
  <2>2. PICK p : Openers(file) = {p}
    BY <1>2, <2>1, FS_Singleton
  <2>3. SoleOpener = p
    BY <1>2, <2>2 DEF SoleOpener
  <2>4. file # 0 /\ Openers(file) = {q \in Pids : Alive(q) /\ open[q] = file}
    BY <2>2 DEF Openers
  <2> QED BY <2>2, <2>3, <2>4, Bounds DEF IInv, LocksInv
<1> QED BY <1>1, <1>2

\* The evidence of a running call.
LEMMA PendingCall ==
  ASSUME IInv, NEW c \in Clients, cl[c].pc = "pending"
  PROVE  /\ cl[c] \in Client /\ cl[c].evidence \in Evidence
         /\ CallInv(cl[c], window[c]) /\ Asking(cl[c]) /\ EvidenceInv(cl[c])
         /\ cl[c].evidence.start <= births /\ cl[c].evidence.file <= files
BY DEF IInv, TypeOK, CallsInv, CallInv, EvidenceInv, Client

LEMMA LsofIInv == ASSUME IInv, NEW c \in Clients, LsofAnswers(c) PROVE IInv'
<1> DEFINE call == cl[c]
           sole == SoleOpener # Nobody /\ (First(c) \/ SoleOpener = call.evidence.pid)
<1>1. PICK e : e = [call.evidence EXCEPT !.pid = SoleOpener]
  OBVIOUS
<1>2. /\ call.pc = "pending" /\ "lsof" \in call.pending
  BY DEF LsofAnswers, Observe, In
<1>a. PICK ok \in {call.ok /\ sole, FALSE} :
        Proceed(c, [call EXCEPT
          !.ok = ok, !.evidence = e,
          !.pending = IF ok THEN (@ \ {"lsof"}) \cup {"start", "image"} ELSE @ \cap {"probe"}])
  BY <1>1 DEF LsofAnswers, Observe
<1>c. PICK pending : pending = IF ok THEN (call.pending \ {"lsof"}) \cup {"start", "image"}
                                     ELSE call.pending \cap {"probe"}
  OBVIOUS
<1>d. PICK n : n = [call EXCEPT !.ok = ok, !.evidence = e, !.pending = pending]
  OBVIOUS
<1>e. Proceed(c, n)
  BY <1>a, <1>c, <1>d
<1>f. pending \in SUBSET Observations /\ (ok => pending = (call.pending \ {"lsof"}) \cup {"start", "image"})
  BY <1>2, <1>c, PendingCall DEF Client, Observations
<1>g. PICK w : w = [n EXCEPT !.pc = "pending"]
  OBVIOUS
<1>b. ok \in BOOLEAN /\ (ok => sole)
  BY Zenon
<1>3. /\ e \in Evidence /\ e.pid = SoleOpener /\ e.start = call.evidence.start
      /\ e.file = call.evidence.file /\ e.version = call.evidence.version
  BY <1>1, <1>2, PendingCall, SoleOpenerIsIt DEF Evidence
<1>h. /\ n \in Client /\ w \in Client
      /\ w.pc = "pending" /\ w.look = call.look /\ w.kind = call.kind /\ w.ok = ok
      /\ w.pending = pending /\ w.evidence = e
  <2>1. call \in Client /\ e \in Evidence
    BY <1>1, <1>2, <1>3, PendingCall
  <2>2. [call EXCEPT !.ok = ok, !.evidence = e] \in Client
    BY <1>b, <2>1 DEF Client
  <2>3. n = [[call EXCEPT !.ok = ok, !.evidence = e] EXCEPT !.pending = pending]
    BY <1>d, <2>1 DEF Client
  <2>4. n \in Client
    BY <1>f, <2>2, <2>3 DEF Client
  <2>5. w \in Client
    BY <1>g, <2>4 DEF Client, Stages
  <2> QED BY <1>d, <1>g, <2>1, <2>4, <2>5 DEF Client
<1>4. ASSUME w.ok PROVE CallInv(w, window[c])
  <2>1. CallInv(call, window[c]) /\ Asking(call) /\ EvidenceInv(call) /\ call \in Client
    BY <1>b, <1>f, <1>2, PendingCall
  <2>2. call.ok
    BY <1>b, <1>f, <1>2, <2>1 DEF Asking
  <2>3. Shape(w) /\ Asking(w)
    BY <1>b, <1>f, <1>4, <1>h, <2>1, <2>2 DEF Shape, Asking, Confirmed, After
  <2>4. EvidenceInv(w)
    BY <1>b, <1>f, <1>2, <1>3, <1>4, <1>h, <2>1, <2>2, SoleOpenerIsIt DEF EvidenceInv, Known, Confirmed, After
  <2>5. TurnInv(w, window[c])
    BY <1>b, <1>f, <1>2, <1>3, <1>4, <1>h, <2>1, <2>2 DEF CallInv, TurnInv, Last, Confirmed, After
  <2>6. ProgramInv(w, window[c])
    BY <1>b, <1>f, <1>4, <1>h DEF ProgramInv, Last, Confirmed, After
  <2>7. HolderInv(w, window[c])
    BY <1>b, <1>f, <1>3, <1>4, <1>h, SoleOpenerIsIt DEF HolderInv
  <2> QED BY <1>b, <1>f, <1>4, <1>h, <2>3, <2>4, <2>5, <2>6, <2>7 DEF CallInv, OthersInv, IdentityInv, After
<1>i. call.ok /\ (~w.ok => w.pending = call.pending \cap {"probe"})
  BY <1>c, <1>h, <1>2, PendingCall DEF Asking
<1>j. w.evidence.start <= births /\ w.evidence.file <= files
  BY <1>h, <1>2, <1>3, PendingCall
<1> QED BY <1>e, <1>g, <1>h, <1>i, <1>j, <1>2, <1>4, ObserveIInv

LEMMA StartIInv == ASSUME IInv, NEW c \in Clients, StartAnswers(c) PROVE IInv'
<1> DEFINE call == cl[c]
           now == start[call.evidence.pid]
           agrees == now # 0 /\ (First(c) \/ now = call.evidence.start)
<1>1. PICK e : e = [call.evidence EXCEPT !.start = now]
  OBVIOUS
<1>2. /\ call.pc = "pending" /\ "start" \in call.pending
  BY DEF StartAnswers, Observe, In
<1>a. PICK ok \in {call.ok /\ agrees, FALSE} :
        Proceed(c, [call EXCEPT
          !.ok = ok, !.evidence = e,
          !.pending = IF ok THEN (@ \ {"start"}) \cup {} ELSE @ \cap {"probe"}])
  BY <1>1 DEF StartAnswers, Observe
<1>c. PICK pending : pending = IF ok THEN (call.pending \ {"start"}) \cup {}
                                     ELSE call.pending \cap {"probe"}
  OBVIOUS
<1>d. PICK n : n = [call EXCEPT !.ok = ok, !.evidence = e, !.pending = pending]
  OBVIOUS
<1>e. Proceed(c, n)
  BY <1>a, <1>c, <1>d
<1>f. pending \in SUBSET Observations /\ (ok => pending = call.pending \ {"start"})
  BY <1>2, <1>c, PendingCall DEF Client, Observations
<1>g. PICK w : w = [n EXCEPT !.pc = "pending"]
  OBVIOUS
<1>b. ok \in BOOLEAN /\ (ok => agrees)
  BY Zenon
<1>3. CallInv(call, window[c]) /\ Asking(call) /\ EvidenceInv(call) /\ call \in Client
  BY <1>2, PendingCall
<1>4. call.ok /\ "lsof" \notin call.pending
  BY <1>2, <1>3 DEF Asking
<1>5. call.evidence.pid \in Pids
  BY <1>2, <1>3, <1>4 DEF EvidenceInv, Known
<1>6. now \in 0..MaxBirths /\ now <= births
  BY <1>5 DEF IInv, TypeOK, LocksInv
<1>7. /\ e \in Evidence /\ e.pid = call.evidence.pid /\ e.start = now
      /\ e.file = call.evidence.file /\ e.version = call.evidence.version
  BY <1>1, <1>2, <1>6, PendingCall DEF Evidence
<1>h. /\ n \in Client /\ w \in Client
      /\ w.pc = "pending" /\ w.look = call.look /\ w.kind = call.kind /\ w.ok = ok
      /\ w.pending = pending /\ w.evidence = e
  <2>1. call \in Client /\ e \in Evidence
    BY <1>1, <1>2, <1>7, PendingCall
  <2>2. [call EXCEPT !.ok = ok, !.evidence = e] \in Client
    BY <1>b, <2>1 DEF Client
  <2>3. n = [[call EXCEPT !.ok = ok, !.evidence = e] EXCEPT !.pending = pending]
    BY <1>d, <2>1 DEF Client
  <2>4. n \in Client
    BY <1>f, <2>2, <2>3 DEF Client
  <2>5. w \in Client
    BY <1>g, <2>4 DEF Client, Stages
  <2> QED BY <1>d, <1>g, <2>1, <2>4, <2>5 DEF Client
<1>8. ASSUME w.ok PROVE CallInv(w, window[c])
  <2>1. First(c) \/ e = call.evidence
    BY <1>b, <1>f, <1>3, <1>7, <1>8, <1>h DEF Client, Evidence
  <2>2. Shape(w) /\ Asking(w)
    BY <1>b, <1>f, <1>3, <1>4, <1>8, <1>h DEF Shape, Asking, Confirmed, After
  <2>3. EvidenceInv(w)
    BY <1>b, <1>f, <1>2, <1>3, <1>4, <1>5, <1>6, <1>7, <1>8, <1>h DEF EvidenceInv, Known, Confirmed, After
  <2>4. TurnInv(w, window[c])
    BY <1>b, <1>f, <1>2, <1>3, <1>4, <1>7, <1>8, <1>h DEF CallInv, TurnInv, Last, Confirmed, After
  <2>5. ProgramInv(w, window[c]) /\ HolderInv(w, window[c])
    BY <1>b, <1>f, <1>2, <1>3, <1>4, <1>8, <1>h, <2>1
       DEF CallInv, ProgramInv, HolderInv, Attributed, Last, Confirmed, After, IsSubject, First
  <2> QED BY <1>b, <1>f, <1>8, <1>h, <2>2, <2>3, <2>4, <2>5 DEF CallInv, OthersInv, IdentityInv, After
<1>i. call.ok /\ (~w.ok => w.pending = call.pending \cap {"probe"})
  BY <1>c, <1>h, <1>2, PendingCall DEF Asking
<1>j. w.evidence.start <= births /\ w.evidence.file <= files
  BY <1>h, <1>2, <1>6, <1>7, PendingCall
<1> QED BY <1>e, <1>g, <1>h, <1>i, <1>j, <1>2, <1>8, ObserveIInv

LEMMA ImageIInv == ASSUME IInv, NEW c \in Clients, ImageAnswers(c) PROVE IInv'
<1> DEFINE call == cl[c]
           codex == image[call.evidence.pid] = "codex" \/ call.look \in {1, 3}
<1>1. PICK e : e = call.evidence
  OBVIOUS
<1>2. /\ call.pc = "pending" /\ "image" \in call.pending
  BY DEF ImageAnswers, Observe, In
<1>a. PICK ok \in {call.ok /\ codex, FALSE} :
        Proceed(c, [call EXCEPT
          !.ok = ok, !.evidence = e,
          !.pending = IF ok THEN (@ \ {"image"}) \cup {} ELSE @ \cap {"probe"}])
  BY <1>1 DEF ImageAnswers, Observe
<1>c. PICK pending : pending = IF ok THEN (call.pending \ {"image"}) \cup {}
                                     ELSE call.pending \cap {"probe"}
  OBVIOUS
<1>d. PICK n : n = [call EXCEPT !.ok = ok, !.evidence = e, !.pending = pending]
  OBVIOUS
<1>e. Proceed(c, n)
  BY <1>a, <1>c, <1>d
<1>f. pending \in SUBSET Observations /\ (ok => pending = call.pending \ {"image"})
  BY <1>2, <1>c, PendingCall DEF Client, Observations
<1>g. PICK w : w = [n EXCEPT !.pc = "pending"]
  OBVIOUS
<1>b. ok \in BOOLEAN /\ (ok => codex)
  BY Zenon
<1>3. CallInv(call, window[c]) /\ Asking(call) /\ EvidenceInv(call) /\ call \in Client
  BY <1>2, PendingCall
<1>4. call.ok /\ "lsof" \notin call.pending
  BY <1>2, <1>3 DEF Asking
<1>h. /\ n \in Client /\ w \in Client
      /\ w.pc = "pending" /\ w.look = call.look /\ w.kind = call.kind /\ w.ok = ok
      /\ w.pending = pending /\ w.evidence = e
  <2>1. call \in Client /\ e \in Evidence
    BY <1>1, <1>2, PendingCall
  <2>2. [call EXCEPT !.ok = ok, !.evidence = e] \in Client
    BY <1>b, <2>1 DEF Client
  <2>3. n = [[call EXCEPT !.ok = ok, !.evidence = e] EXCEPT !.pending = pending]
    BY <1>d, <2>1 DEF Client
  <2>4. n \in Client
    BY <1>f, <2>2, <2>3 DEF Client
  <2>5. w \in Client
    BY <1>g, <2>4 DEF Client, Stages
  <2> QED BY <1>d, <1>g, <2>1, <2>4, <2>5 DEF Client
<1>5. ASSUME w.ok PROVE CallInv(w, window[c])
  <2>1. Shape(w) /\ Asking(w)
    BY <1>b, <1>f, <1>3, <1>4, <1>5, <1>h DEF Shape, Asking, Confirmed, After
  <2>2. EvidenceInv(w) /\ TurnInv(w, window[c])
    BY <1>b, <1>f, <1>1, <1>2, <1>3, <1>4, <1>5, <1>h
       DEF CallInv, EvidenceInv, TurnInv, Known, Last, Confirmed, After
  <2>3. ProgramInv(w, window[c])
    BY <1>b, <1>f, <1>1, <1>5, <1>h DEF ProgramInv, Attributed
  <2>4. HolderInv(w, window[c])
    BY <1>b, <1>f, <1>1, <1>2, <1>3, <1>4, <1>5, <1>h
       DEF CallInv, HolderInv, Attributed, Last, Confirmed, After, IsSubject
  <2> QED BY <1>b, <1>f, <1>5, <1>h, <2>1, <2>2, <2>3, <2>4 DEF CallInv, OthersInv, IdentityInv, After
<1>i. call.ok /\ (~w.ok => w.pending = call.pending \cap {"probe"})
  BY <1>c, <1>h, <1>2, PendingCall DEF Asking
<1>j. w.evidence.start <= births /\ w.evidence.file <= files
  BY <1>h, <1>2, <1>1, PendingCall
<1> QED BY <1>e, <1>g, <1>h, <1>i, <1>j, <1>2, <1>5, ObserveIInv

LEMMA TranscriptIInv == ASSUME IInv, NEW c \in Clients, TranscriptAnswers(c) PROVE IInv'
<1> DEFINE call == cl[c]
           last == /\ First(c) \/ version = call.evidence.version
                   /\ call.look \in {1, 3} \/ version \in complete
<1>1. PICK e : e = [call.evidence EXCEPT !.version = version]
  OBVIOUS
<1>2. /\ call.pc = "pending" /\ "transcript" \in call.pending
  BY DEF TranscriptAnswers, Observe, In
<1>a. PICK ok \in {call.ok /\ last, FALSE} :
        Proceed(c, [call EXCEPT
          !.ok = ok, !.evidence = e,
          !.pending = IF ok THEN (@ \ {"transcript"}) \cup {} ELSE @ \cap {"probe"}])
  BY <1>1 DEF TranscriptAnswers, Observe
<1>c. PICK pending : pending = IF ok THEN (call.pending \ {"transcript"}) \cup {}
                                     ELSE call.pending \cap {"probe"}
  OBVIOUS
<1>d. PICK n : n = [call EXCEPT !.ok = ok, !.evidence = e, !.pending = pending]
  OBVIOUS
<1>e. Proceed(c, n)
  BY <1>a, <1>c, <1>d
<1>f. pending \in SUBSET Observations /\ (ok => pending = call.pending \ {"transcript"})
  BY <1>2, <1>c, PendingCall DEF Client, Observations
<1>g. PICK w : w = [n EXCEPT !.pc = "pending"]
  OBVIOUS
<1>b. ok \in BOOLEAN /\ (ok => last)
  BY Zenon
<1>3. CallInv(call, window[c]) /\ Asking(call) /\ EvidenceInv(call) /\ call \in Client
  BY <1>2, PendingCall
<1>4. call.ok
  BY <1>2, <1>3 DEF Asking
<1>5. /\ e \in Evidence /\ e.pid = call.evidence.pid /\ e.start = call.evidence.start
      /\ e.file = call.evidence.file /\ e.version = version
  BY <1>1, <1>2, PendingCall, Bounds DEF Evidence, IInv, TypeOK
<1>h. /\ n \in Client /\ w \in Client
      /\ w.pc = "pending" /\ w.look = call.look /\ w.kind = call.kind /\ w.ok = ok
      /\ w.pending = pending /\ w.evidence = e
  <2>1. call \in Client /\ e \in Evidence
    BY <1>1, <1>2, <1>5, PendingCall
  <2>2. [call EXCEPT !.ok = ok, !.evidence = e] \in Client
    BY <1>b, <2>1 DEF Client
  <2>3. n = [[call EXCEPT !.ok = ok, !.evidence = e] EXCEPT !.pending = pending]
    BY <1>d, <2>1 DEF Client
  <2>4. n \in Client
    BY <1>f, <2>2, <2>3 DEF Client
  <2>5. w \in Client
    BY <1>g, <2>4 DEF Client, Stages
  <2> QED BY <1>d, <1>g, <2>1, <2>4, <2>5 DEF Client
<1>6. ASSUME w.ok PROVE CallInv(w, window[c])
  <2>1. Shape(w) /\ Asking(w)
    BY <1>b, <1>f, <1>3, <1>4, <1>6, <1>h DEF Shape, Asking, Confirmed, After
  <2>2. EvidenceInv(w)
    BY <1>b, <1>f, <1>2, <1>3, <1>4, <1>5, <1>6, <1>h DEF EvidenceInv, Known, Confirmed, After
  <2>3. TurnInv(w, window[c])
    BY <1>b, <1>f, <1>5, <1>6, <1>h DEF TurnInv, Last, Confirmed, After
  <2>4. ProgramInv(w, window[c]) /\ HolderInv(w, window[c])
    BY <1>b, <1>f, <1>2, <1>3, <1>4, <1>5, <1>6, <1>h
       DEF CallInv, ProgramInv, HolderInv, Attributed, Last, Confirmed, After, IsSubject
  <2> QED BY <1>b, <1>f, <1>6, <1>h, <2>1, <2>2, <2>3, <2>4 DEF CallInv, OthersInv, IdentityInv, After
<1>i. call.ok /\ (~w.ok => w.pending = call.pending \cap {"probe"})
  BY <1>c, <1>h, <1>2, PendingCall DEF Asking
<1>j. w.evidence.start <= births /\ w.evidence.file <= files
  BY <1>h, <1>2, <1>5, PendingCall
<1> QED BY <1>e, <1>g, <1>h, <1>i, <1>j, <1>2, <1>6, ObserveIInv


LEMMA OwnerLocksIInv == ASSUME IInv, NEW c \in Clients, OwnerLocks(c) PROVE IInv'
<1> DEFINE call == cl[c]
           next == IF call.look = 2 THEN "lease" ELSE "finalHash"
<1>1. PICK single \in {OnlyThisLock(call.evidence.pid), FALSE} :
        Continue(c, [call EXCEPT !.pc = next, !.ok = @ /\ single])
  BY DEF OwnerLocks
<1>2. /\ call \in Client /\ call.pc = "ownerLocks" /\ call.ok
      /\ call.kind = "live_owner" /\ call.pending = {} /\ call.look \in {2, 4}
      /\ CallInv(call, window[c])
  BY DEF OwnerLocks, In, IInv, TypeOK, CallsInv, CallInv, Shape, Confirmed
<1>3. PICK ok : ok = (call.ok /\ single)
  OBVIOUS
<1>4. PICK n : n = [call EXCEPT !.pc = next, !.ok = ok]
  OBVIOUS
<1>5. Continue(c, n) /\ ok \in BOOLEAN
  BY <1>1, <1>3, <1>4
<1>6. /\ n \in Client /\ n.pc = next /\ n.ok = ok /\ n.look = call.look
      /\ n.kind = call.kind /\ n.pending = call.pending /\ n.evidence = call.evidence
  BY <1>2, <1>4, <1>5 DEF Client, Stages
<1>7. ASSUME n.ok PROVE CallInv(n, window[c])
  <2>1. Shape(n) /\ n.pc # "pending"
    BY <1>2, <1>6, <1>7 DEF Shape, Confirmed, After
  <2>2. \A item \in {"lsof", "start", "image", "transcript"} :
          Known(call, item) /\ Last(call, item)
    BY <1>2 DEF Known, Last, Confirmed
  <2> QED BY <1>2, <1>6, <2>1, <2>2
          DEF CallInv, EvidenceInv, TurnInv, OthersInv, IdentityInv, ProgramInv,
              HolderInv, Attributed, After, IsSubject
<1>8. ~n.ok => Blocked(n)
  BY <1>2, <1>6 DEF Blocked
<1>9. Leased(n) => lease = c
  BY <1>2, <1>6 DEF Leased, IInv, LeaseInv, After
<1> QED BY <1>5, <1>6, <1>7, <1>8, <1>9, ContinueIInv

LEMMA AcquireIInv == ASSUME IInv, NEW c \in Clients, AcquireLease(c) PROVE IInv'
<1>1. CASE Finish(c, "refused")
  BY <1>1, FinishIInv DEF Outcomes
<1>2. CASE /\ lease = Nobody /\ lease' = c
           /\ cl' = [cl EXCEPT ![c].pc = "hash"]
           /\ UNCHANGED <<world, window, runs>>
  <2>1. PICK n : n = [cl[c] EXCEPT !.pc = "hash"]
    OBVIOUS
  <2>2. cl[c] \in Client /\ cl[c].pc = "lease" /\ CallInv(cl[c], window[c])
    BY DEF AcquireLease, In, IInv, TypeOK, CallsInv
  <2>3. /\ n \in Client /\ n.pc = "hash" /\ n.ok = cl[c].ok /\ n.look = cl[c].look
        /\ n.kind = cl[c].kind /\ n.pending = cl[c].pending
        /\ n.evidence = cl[c].evidence
    BY <2>1, <2>2 DEF Client, Stages
  <2>4. Shape(n) /\ n.look = 2
    BY <2>2, <2>3 DEF CallInv, Shape, Confirmed, After
  <2>5. CallInv(n, window[c])
    BY <2>2, <2>3, <2>4
       DEF CallInv, EvidenceInv, TurnInv, OthersInv, IdentityInv, ProgramInv,
           HolderInv, Attributed, Known, Last, Confirmed, After
  <2>6. cl' = [cl EXCEPT ![c] = n]
    BY <1>2, <2>1 DEF IInv, TypeOK
  <2> QED BY <1>2, <2>3, <2>5, <2>6, StepIInv DEF IInv, TypeOK
<1> QED BY <1>1, <1>2 DEF AcquireLease

LEMMA HashIInv == ASSUME IInv, NEW c \in Clients, Hash(c) PROVE IInv'
<1> DEFINE call == cl[c]
<1>1. PICK ok \in {version = call.evidence.version, FALSE} :
        Continue(c, [call EXCEPT !.pc = "sample", !.look = 3, !.ok = ok])
  BY DEF Hash
<1>2. ok \in BOOLEAN
  BY Zenon
<1>3. /\ call \in Client /\ call.pc = "hash" /\ CallInv(call, window[c])
      /\ call.ok /\ call.kind = "live_owner" /\ call.pending = {}
  BY DEF Hash, In, IInv, TypeOK, CallsInv, CallInv, Shape, Confirmed
<1>4. PICK n : n = [call EXCEPT !.pc = "sample", !.look = 3, !.ok = ok]
  OBVIOUS
<1>5. Continue(c, n)
  BY <1>1, <1>4
<1>6. /\ n \in Client /\ n.pc = "sample" /\ n.ok = ok /\ n.look = 3
      /\ n.kind = call.kind /\ n.pending = call.pending /\ n.evidence = call.evidence
  <2>1. [call EXCEPT !.pc = "sample", !.look = 3] \in Client
    <3>1. "sample" \in Stages /\ 3 \in 1..4
      BY DEF Stages
    <3> QED BY <1>3, <3>1 DEF Client
  <2>2. n = [[call EXCEPT !.pc = "sample", !.look = 3] EXCEPT !.ok = ok]
    BY <1>3, <1>4 DEF Client
  <2> QED BY <1>2, <1>3, <2>1, <2>2 DEF Client
<1>7. ASSUME n.ok PROVE CallInv(n, window[c])
  <2>1. Shape(n) /\ n.pc # "pending"
    BY <1>3, <1>6, <1>7 DEF Shape, Confirmed, After
  <2>2. Known(call, "lsof") /\ Known(call, "start")
    BY <1>3 DEF Known, Confirmed
  <2> QED BY <1>3, <1>6, <2>1, <2>2
          DEF CallInv, EvidenceInv, TurnInv, OthersInv, IdentityInv, ProgramInv,
              HolderInv, Attributed, Last, Confirmed, After
<1>8. ~n.ok => Blocked(n)
  BY <1>3, <1>6 DEF Blocked
<1>9. Leased(n) => lease = c
  BY <1>3 DEF Leased, IInv, LeaseInv
<1> QED BY <1>5, <1>6, <1>7, <1>8, <1>9, ContinueIInv

\* The last observations, each of which vouches for its part of the evidence.
LEMMA RecheckIInv ==
  ASSUME IInv, NEW c \in Clients,
         FinalHash(c) \/ LockSet(c) \/ StartTime(c) \/ Snapshot(c) \/ LockPath(c)
  PROVE  IInv'
<1> DEFINE call == cl[c]
           e == call.evidence
           Vouched(next) ==
             \/ call.pc = "finalHash" /\ next = "lockSet"
             \/ call.pc = "lockSet" /\ next = "startTime" /\ e.pid \notin other
             \/ call.pc = "startTime" /\ next = "snapshot" /\ IsSubject(call)
             \/ call.pc = "snapshot" /\ next = "lockPath" /\ version = e.version
             \/ call.pc = "lockPath" /\ next = "probe"
<1>1. PICK ok \in BOOLEAN, next \in {"lockSet", "startTime", "snapshot", "lockPath", "probe"} :
        /\ Continue(c, [call EXCEPT !.pc = next, !.ok = ok])
        /\ ok => Vouched(next)
  <2>1. CASE FinalHash(c)
    <3>1. PICK ok \in {version = e.version, FALSE} :
            Continue(c, [call EXCEPT !.pc = "lockSet", !.ok = ok])
      BY <2>1 DEF FinalHash, Recheck
    <3>2. ok \in BOOLEAN
      BY Zenon
    <3> QED BY <2>1, <3>1, <3>2 DEF FinalHash, Recheck, In
  <2>2. CASE LockSet(c)
    <3>1. PICK ok \in {OnlyThisLock(e.pid), FALSE} :
            Continue(c, [call EXCEPT !.pc = "startTime", !.ok = ok])
      BY <2>2 DEF LockSet, Recheck
    <3>2. ok \in BOOLEAN /\ (ok => e.pid \notin other)
      BY Zenon DEF OnlyThisLock
    <3> QED BY <2>2, <3>1, <3>2 DEF LockSet, Recheck, In
  <2>3. CASE StartTime(c)
    <3>1. PICK ok \in {SameStart(c), FALSE} :
            Continue(c, [call EXCEPT !.pc = "snapshot", !.ok = ok])
      BY <2>3 DEF StartTime, Recheck
    <3>2. ok \in BOOLEAN /\ (ok => IsSubject(call))
      BY Zenon DEF SameStart, IsSubject
    <3> QED BY <2>3, <3>1, <3>2 DEF StartTime, Recheck, In
  <2>4. CASE Snapshot(c)
    <3>1. PICK ok \in {version = e.version, FALSE} :
            Continue(c, [call EXCEPT !.pc = "lockPath", !.ok = ok])
      BY <2>4 DEF Snapshot, Recheck
    <3>2. ok \in BOOLEAN /\ (ok => version = e.version)
      BY Zenon
    <3> QED BY <2>4, <3>1, <3>2 DEF Snapshot, Recheck, In
  <2>5. CASE LockPath(c)
    <3>1. PICK ok \in {file = e.file, FALSE} :
            Continue(c, [call EXCEPT !.pc = "probe", !.ok = ok])
      BY <2>5 DEF LockPath, Recheck
    <3>2. ok \in BOOLEAN
      BY Zenon
    <3> QED BY <2>5, <3>1, <3>2 DEF LockPath, Recheck, In
  <2> QED BY <2>1, <2>2, <2>3, <2>4, <2>5
<1>2. call.pc \in After \ {"probe", "decide"}
  BY DEF FinalHash, LockSet, StartTime, Snapshot, LockPath, Recheck, In, After
<1>3. /\ call \in Client /\ CallInv(call, window[c]) /\ call.ok
      /\ call.kind = "live_owner" /\ call.pending = {} /\ call.look = 4
  BY <1>2 DEF IInv, TypeOK, CallsInv, CallInv, Shape, Confirmed, After
<1>4. PICK n : n = [call EXCEPT !.pc = next, !.ok = ok]
  OBVIOUS
<1>5. Continue(c, n)
  BY <1>1, <1>4
<1>6. /\ n \in Client /\ n.pc = next /\ n.ok = ok /\ n.look = call.look
      /\ n.kind = call.kind /\ n.pending = call.pending /\ n.evidence = call.evidence
  BY <1>1, <1>3, <1>4 DEF Client, Stages
<1>7. ASSUME n.ok PROVE CallInv(n, window[c])
  <2>1. Shape(n) /\ n.pc # "pending"
    BY <1>1, <1>3, <1>6, <1>7 DEF Shape, Confirmed, After
  <2>2. \A item \in {"lsof", "start", "image", "transcript"} :
          Known(call, item) /\ Last(call, item)
    BY <1>2, <1>3 DEF Known, Last, Confirmed, After
  <2>3. Vouched(next)
    BY <1>1, <1>6, <1>7
  <2>4. EvidenceInv(n) /\ TurnInv(n, window[c])
    BY <1>3, <1>6, <2>2, <2>3 DEF CallInv, EvidenceInv, TurnInv
  <2>5. OthersInv(n, window[c])
    BY <1>3, <1>6, <2>3 DEF CallInv, OthersInv, After
  <2>6. IdentityInv(n, window[c])
    BY <1>3, <1>6, <2>3 DEF CallInv, IdentityInv, IsSubject
  <2>7. ProgramInv(n, window[c]) /\ HolderInv(n, window[c])
    BY <1>1, <1>3, <1>6, <2>2 DEF CallInv, ProgramInv, HolderInv, Attributed, IsSubject
  <2> QED BY <2>1, <2>4, <2>5, <2>6, <2>7 DEF CallInv
<1>8. ~n.ok => Blocked(n)
  BY <1>3, <1>6 DEF Blocked
<1>9. Leased(n) => lease = c
  BY <1>2 DEF Leased, IInv, LeaseInv
<1> QED BY <1>5, <1>6, <1>7, <1>8, <1>9, ContinueIInv

\* The last probe finds the lock held, and nobody but the inspected process
\* can hold it.
LEMMA ProbeOnceIInv == ASSUME IInv, NEW c \in Clients, ProbeOnce(c) PROVE IInv'
<1> DEFINE call == cl[c]
           holder == CHOOSE p \in Holders(file) : TRUE
           good == file = call.evidence.file /\ Probed = "held"
<1>1. PICK ok \in {good, FALSE} :
        Continue(c, [call EXCEPT !.pc = "decide", !.ok = ok,
                                 !.heldBy = IF ok THEN start[holder] ELSE 0])
  BY DEF ProbeOnce
<1>2. ok \in BOOLEAN /\ (ok => good)
  BY Zenon
<1>3. /\ call.pc = "probe" /\ call \in Client /\ CallInv(call, window[c]) /\ call.ok
      /\ call.kind = "live_owner" /\ call.pending = {} /\ call.look = 4
  BY DEF ProbeOnce, In, IInv, TypeOK, CallsInv, CallInv, Shape, Confirmed, After
<1>4. good => /\ file # 0 /\ file = call.evidence.file /\ section = Nobody
              /\ holder \in locked /\ holder \in Pids /\ open[holder] = file
  <2>1. good => file # 0 /\ section = Nobody /\ Holders(file) # {}
    BY DEF Probed
  <2> QED BY <2>1 DEF Holders, IInv, TypeOK
<1>5. PICK heldBy : heldBy = IF ok THEN start[holder] ELSE 0
  <2> HIDE DEF holder, good
  <2>1. CASE ok
    <3>1. start[holder] = IF ok THEN start[holder] ELSE 0
      BY <2>1, Zenon
    <3> QED BY <3>1, Zenon
  <2>2. CASE ~ok
    <3>1. 0 = IF ok THEN start[holder] ELSE 0
      BY <2>2, Zenon
    <3> QED BY <3>1, Zenon
  <2> QED BY <2>1, <2>2
<1>6. heldBy \in 0..MaxBirths
  <2>1. 0 \in 0..MaxBirths
    BY Bounds
  <2>2. CASE ok
    BY <1>2, <1>4, <1>5, <2>2 DEF IInv, TypeOK
  <2>3. CASE ~ok
    BY <1>5, <2>1, <2>3
  <2> QED BY <2>2, <2>3
<1>7. PICK n : n = [call EXCEPT !.pc = "decide", !.ok = ok, !.heldBy = heldBy]
  OBVIOUS
<1>8. Continue(c, n)
  BY <1>1, <1>5, <1>7
<1>9. /\ n \in Client /\ n.pc = "decide" /\ n.ok = ok /\ n.look = call.look
      /\ n.kind = call.kind /\ n.pending = call.pending /\ n.evidence = call.evidence
      /\ n.heldBy = heldBy
  <2>1. [call EXCEPT !.pc = "decide", !.heldBy = heldBy] \in Client
    BY <1>3, <1>6 DEF Client, Stages
  <2>2. n = [[call EXCEPT !.pc = "decide", !.heldBy = heldBy] EXCEPT !.ok = ok]
    BY <1>3, <1>7 DEF Client
  <2> QED BY <1>2, <1>3, <2>1, <2>2 DEF Client
<1>10. ASSUME n.ok PROVE CallInv(n, window[c])
  <2>1. Shape(n) /\ n.pc # "pending"
    BY <1>3, <1>9, <1>10 DEF Shape, Confirmed, After
  <2>2. \A item \in {"lsof", "start", "image", "transcript"} :
          Known(call, item) /\ Last(call, item)
    BY <1>3 DEF Known, Last, Confirmed, After
  <2>3. ASSUME IsSubject(call), "lost" \notin window[c]
        PROVE  heldBy = call.evidence.start
    <3> DEFINE p == call.evidence.pid
    <3>1. good
      BY <1>2, <1>9, <1>10
    <3>2. p \in Pids
      BY <1>3, <2>2 DEF CallInv, EvidenceInv
    <3>3. open[p] = file /\ (p \in locked \/ p = section)
      BY <1>3, <1>4, <2>2, <2>3, <3>1 DEF CallInv, HolderInv, Attributed
    <3>4. p \in locked
      BY <1>4, <3>1, <3>2, <3>3, Bounds
    <3>5. holder = p
      BY <1>4, <3>1, <3>3, <3>4 DEF IInv, LocksInv
    <3> QED BY <1>5, <1>9, <1>10, <2>3, <3>5 DEF IsSubject
  <2>4. EvidenceInv(n) /\ TurnInv(n, window[c]) /\ OthersInv(n, window[c])
        /\ IdentityInv(n, window[c])
    BY <1>3, <1>9, <2>2
       DEF CallInv, EvidenceInv, TurnInv, OthersInv, IdentityInv, IsSubject, After
  <2>5. ProgramInv(n, window[c]) /\ HolderInv(n, window[c])
    BY <1>3, <1>9, <2>2, <2>3 DEF CallInv, ProgramInv, HolderInv, Attributed, IsSubject
  <2> QED BY <2>1, <2>4, <2>5 DEF CallInv
<1>11. ~n.ok => Blocked(n)
  BY <1>3, <1>9 DEF Blocked
<1>12. Leased(n) => lease = c
  BY <1>3 DEF Leased, IInv, LeaseInv, After
<1> QED BY <1>8, <1>9, <1>10, <1>11, <1>12, ContinueIInv

LEMMA BeginIInv == ASSUME IInv, NEW c \in Clients, Begin(c) PROVE IInv'
<1>1. PICK n : n = NewCall
  OBVIOUS
<1>2. n \in Client
  BY <1>1, NewCallType DEF Stages, Outcomes
<1>3. CallInv(n, window[c]) /\ ~Leased(n)
  BY <1>1, Bounds
     DEF NewCall, Blank, CallInv, Shape, EvidenceInv, TurnInv, OthersInv, IdentityInv,
         ProgramInv, HolderInv, Attributed, Known, Last, Leased, Confirmed, After,
         IInv, TypeOK
<1>4. /\ cl' = [cl EXCEPT ![c] = n] /\ UNCHANGED <<world, lease, window>>
      /\ runs' \in 0..MaxRuns
  BY <1>1, Bounds DEF Begin, IInv, TypeOK
<1> QED BY <1>2, <1>3, <1>4, StepIInv DEF IInv, TypeOK

LEMMA KillIInv == ASSUME IInv, NEW c \in Clients, Kill(c) PROVE IInv'
<1>1. CASE Finish(c, "termination_failed")
  BY <1>1, FinishIInv DEF Outcomes
<1>2. CASE /\ cl' = [cl EXCEPT ![c] = [NewCall EXCEPT !.pc = "observe"]]
           /\ window' = [d \in Clients |->
                IF d = c THEN {}
                ELSE IF cl[d].evidence.pid = cl[c].evidence.pid
                THEN window[d] \cup {"signalled"} ELSE window[d]]
           /\ UNCHANGED <<world, lease, runs>>
  <2>1. PICK n : n = [NewCall EXCEPT !.pc = "observe"]
    OBVIOUS
  <2>2. n \in Client
    BY <2>1, NewCallType DEF Stages, Outcomes
  <2>3. /\ n.pc = "observe" /\ n.pending = {}
        /\ n.evidence.start = 0 /\ n.evidence.file = 0
    BY <2>1 DEF NewCall, Blank
  <2>4. CallInv(n, {})
    BY <2>2, <2>3, IdleInv
  <2>5. lease = c
    BY DEF Kill, In, IInv, LeaseInv, Leased, After
  <2>6. /\ window' \in [Clients -> SUBSET Events] /\ window'[c] = {}
        /\ \A d \in Clients \ {c} : window[d] \subseteq window'[d]
    BY <1>2 DEF IInv, TypeOK, Events
  <2>7. cl' = [cl EXCEPT ![c] = n]
    BY <1>2, <2>1
  <2> QED BY <1>2, <2>2, <2>4, <2>5, <2>6, <2>7, StepIInv DEF IInv, TypeOK
<1> QED BY <1>1, <1>2 DEF Kill

LEMMA CallIInv == ASSUME IInv, NEW c \in Clients, Call(c) PROVE IInv'
<1>1. CASE Refuse(c) \/ NotLocked(c) \/ Observed(c) \/ Die(c)
  BY <1>1, FinishIInv DEF Refuse, NotLocked, Observed, Die, Outcomes
<1> QED BY <1>1, BeginIInv, SampleIInv, ProbeIInv, LsofIInv, StartIInv, ImageIInv,
           TranscriptIInv, OwnerLocksIInv, AcquireIInv, HashIInv, RecheckIInv,
           ProbeOnceIInv, KillIInv DEF Call, Inspect

LEMMA NextIInv == IInv /\ [Next]_vars => IInv'
<1> SUFFICES ASSUME IInv, [Next]_vars PROVE IInv'
  OBVIOUS
<1>1. CASE UNCHANGED vars
  <2> USE <1>1 DEF vars
  <2>1. \A d \in Clients : CallInv(cl[d], window[d])'
    BY OthersKeep
  <2>2. TypeOK' /\ LocksInv' /\ LeaseInv'
    BY DEF IInv, TypeOK, LocksInv, Alive, LeaseInv, Leased, world, processes, lockFile,
           transcript
  <2> QED BY <2>1, <2>2 DEF IInv, CallsInv
<1>2. CASE Next
  BY <1>2, WorldIInv, CallIInv DEF Next
<1> QED BY <1>1, <1>2

-----------------------------------------------------------------------------
\* The invariant holds in every state, whoever unlocks and whatever happens.
THEOREM Invariant == Spec => []IInv
<1> QED BY InitIInv, NextIInv, PTL DEF Spec

\* The evidence, the stages and the world keep their types: every PID that is
\* asked about is one, also where the code skips what cannot matter any more.
THEOREM TypeCorrect == Spec => []TypeOK
<1>1. IInv => TypeOK
  BY DEF IInv
<1> QED BY <1>1, Invariant, PTL

\* What the invariant says of a call that is about to signal.
LEMMA AtSignal ==
  ASSUME IInv, NEW c \in Clients, Signals(c)
  PROVE  /\ lease = c
         /\ cl[c].evidence.version \in complete
         /\ version = cl[c].evidence.version \/ "append" \in window[c]
         /\ Subject(c) \notin other \/ "lockset" \in window[c]
         /\ Target(c) = cl[c].evidence.start \/ "exit" \in window[c]
         /\ Target(c) = cl[c].evidence.start =>
              /\ image[Subject(c)] = "codex" \/ "exec" \in window[c]
              /\ cl[c].heldBy = Target(c) \/ "lost" \in window[c]
<1>1. cl[c].pc = "decide" /\ CallInv(cl[c], window[c])
  BY DEF Signals, In, IInv, CallsInv
<1>2. cl[c].ok /\ cl[c].look = 4
  BY <1>1 DEF CallInv, Shape, Confirmed, After
<1>3. \A item \in {"lsof", "image", "transcript"} : Last(cl[c], item)
  BY <1>1, <1>2 DEF Last, Confirmed, After
<1>4. lease = c
  BY <1>1 DEF IInv, LeaseInv, Leased, After
<1>5. /\ cl[c].evidence.version \in complete
      /\ version = cl[c].evidence.version \/ "append" \in window[c]
      /\ Subject(c) \notin other \/ "lockset" \in window[c]
  BY <1>1, <1>3 DEF CallInv, TurnInv, OthersInv, After, Subject
<1>6. IsSubject(cl[c]) <=> Target(c) = cl[c].evidence.start
  BY DEF IsSubject, Target, Subject
<1> QED BY <1>1, <1>2, <1>3, <1>4, <1>5, <1>6
        DEF CallInv, IdentityInv, ProgramInv, HolderInv, Attributed, IsSubject, Target,
            Subject

\* SIGTERM reaches the process that was identified, unless it exited or
\* executed another program after the code's last look at that.
THEOREM Identity == Spec => IdentityAtSignal
<1>1. IInv /\ [Next]_vars =>
        [\A c \in Clients : Signals(c) =>
           \/ /\ Target(c) = cl[c].evidence.start
              /\ image[Subject(c)] = "codex" \/ "exec" \in window[c]
           \/ "exit" \in window[c]]_vars
  BY AtSignal
<1> QED BY <1>1, Invariant, PTL DEF Spec, IdentityAtSignal

\* The inspected process held the lock at the last probe, although lsof and
\* the probe never look at the same moment.
THEOREM Holder == Spec => HolderAtSignal
<1>1. IInv /\ [Next]_vars =>
        [\A c \in Clients :
           (Signals(c) /\ Target(c) = cl[c].evidence.start)
             => (cl[c].heldBy = Target(c) \/ "lost" \in window[c])]_vars
  BY AtSignal
<1> QED BY <1>1, Invariant, PTL DEF Spec, HolderAtSignal

\* The turn is complete and nothing was appended up to the last snapshot.
THEOREM CompleteTurn == Spec => TranscriptAtSignal
<1>1. IInv /\ [Next]_vars =>
        [\A c \in Clients : Signals(c) =>
           /\ cl[c].evidence.version \in complete
           /\ version = cl[c].evidence.version \/ "append" \in window[c]]_vars
  BY AtSignal
<1> QED BY <1>1, Invariant, PTL DEF Spec, TranscriptAtSignal

\* The process has no other thread's lock, unless it took one since.
THEOREM OnlyLock == Spec => LockSetAtSignal
<1>1. IInv /\ [Next]_vars =>
        [\A c \in Clients :
           (Signals(c) /\ Target(c) = cl[c].evidence.start)
             => (Subject(c) \notin other \/ "lockset" \in window[c])]_vars
  BY AtSignal
<1> QED BY <1>1, Invariant, PTL DEF Spec, LockSetAtSignal

\* Two unlocks never have a signal in flight at once: each has the lease.
THEOREM OneInFlight == Spec => OneSignalInFlight
<1>1. IInv /\ [Next]_vars =>
        [\A c, d \in Clients : (c # d /\ Signals(c)) => ~In(d, "observe")]_vars
  <2> SUFFICES ASSUME IInv, NEW c \in Clients, NEW d \in Clients, c # d, Signals(c),
                      In(d, "observe")
               PROVE  FALSE
    OBVIOUS
  <2>1. lease = d
    BY DEF In, IInv, LeaseInv, Leased
  <2> QED BY <2>1, AtSignal
<1> QED BY <1>1, Invariant, PTL DEF Spec, OneSignalInFlight
=============================================================================
