------------------------- MODULE UpdateCacheProofs -------------------------
(***************************************************************************)
(* The update cache for any number of processes and runs, any clock and    *)
(* any TTL: update.json is whole and durable, never goes back to an older  *)
(* record, and an answer is recent.                                        *)
(*                                                                         *)
(* A file is written only while it has its temporary name, so what         *)
(* update.json may name after a loss of power does not change any more;    *)
(* and the lease orders the fetches, each of which is dated under it.      *)
(***************************************************************************)
EXTENDS UpdateCache, FiniteSetTheorems, TLAPS

Coming == {"lock", "flock", "fetch", "fetching", "create"}
Owning == {"write", "sync", "rename", "sync_directory", "confirm"}
Reading == {"read", "open", "fstat", "judge"}

\* The runs that may still create a file.
Runners == {p \in Processes : pc[p] \in Coming}

\* A run creates one file at most.
Counted == IsFiniteSet(Runners) /\ made + Cardinality(Runners) <= runs

\* Who has the lock file open after flock() has its lock.
LeaseInv ==
  \A p \in Processes :
    /\ pc[p] \in {"flock", "create"} \cup Owning => fd[p] # None
    /\ fd[p] # None /\ pc[p] # "flock" => holder[fd[p]] = p

\* Whatever update.json may name has been written and synced, and is nobody's
\* temporary file any more.
FilesInv ==
  /\ target \in onDisk /\ onDisk \subseteq (whole \cap synced) \cup {None}
  /\ reported <= made
  /\ \A p \in Processes :
       /\ pc[p] \in Owning => temp[p] \in 1..made
       /\ pc[p] \in Owning \ {"write"} => temp[p] \in whole
       /\ pc[p] \in Owning \ {"write", "sync"} => temp[p] \in synced
       /\ pc[p] \in {"write", "sync", "rename"} => temp[p] \notin onDisk \cup {reported}
  /\ \A p, q \in Processes :
       pc[p] \in Owning /\ pc[q] \in Owning /\ temp[p] = temp[q] => p = q

\* Nothing is dated in the future.
DatedInv ==
  "set_back" \notin mishaps =>
    /\ \A f \in Files : stamp[f] <= clock
    /\ \A p \in Processes :
         /\ asked[p] <= clock /\ checkedAt[p] <= clock
         /\ pc[p] \in {"fetching", "create"} \cup Owning \cup Reading
              => asked[p] <= checkedAt[p]

\* Under the lease: no record that update.json may name is younger than the one
\* that is being fetched or written.
SuccessionOf(p) ==
  /\ fd[p] \in {None, 1}
  /\ fd[p] # None /\ pc[p] \in {"fetching", "create", "write", "sync", "rename"} =>
       \A f \in onDisk \ {None} : stamp[f] <= checkedAt[p]
  /\ pc[p] \in Owning \ {"write"} => stamp[temp[p]] = checkedAt[p]
  /\ pc[p] \in {"sync_directory", "confirm"} => target = temp[p]
  /\ pc[p] = "confirm" => onDisk = {target}

SuccessionInv ==
  mishaps \subseteq {"power_lost"} =>
    /\ lockFile \in {None, 1}
    /\ \A p \in Processes : SuccessionOf(p)
    /\ reported # None =>
         None \notin onDisk /\ \A f \in onDisk : stamp[reported] <= stamp[f]

IInv == TypeOK /\ Counted /\ LeaseInv /\ FilesInv /\ DatedInv /\ SuccessionInv

LEMMA Bounds ==
  /\ MaxRuns \in Nat /\ 1 <= MaxRuns /\ MaxClock \in Nat
  /\ TTL \in Nat /\ Skew \in Nat
  /\ NoProcess \notin Processes
BY CacheAssumption

\* A record, or none.
LEMMA RecordType ==
  ASSUME NEW at \in 0..MaxClock
  PROVE  /\ {at} \in SUBSET (0..MaxClock) /\ Cardinality({at}) <= 1
         /\ {} \in SUBSET (0..MaxClock) /\ Cardinality({}) <= 1
<1>1. Cardinality({at}) = 1 /\ Cardinality({}) = 0
  BY FS_Singleton, FS_EmptySet
<1> QED BY <1>1

\* The file f may be the one reported last as far as others than p go.
Vouched(p, f) ==
  /\ f <= made
  /\ \A q \in Processes \ {p} : pc[q] \in {"write", "sync", "rename"} => temp[q] # f
  /\ mishaps \subseteq {"power_lost"} =>
       None \notin onDisk /\ \A g \in onDisk : stamp[f] <= stamp[g]

Reportable(p) == {reported} \cup {f \in Files : Vouched(p, f)}

LEMMA InitIInv == Init => IInv
<1> SUFFICES ASSUME Init PROVE IInv
  OBVIOUS
<1> USE Bounds DEF Init
<1>1. TypeOK
  <2>1. answer \in SUBSET (0..MaxClock) /\ Cardinality(answer) <= 1
    BY FS_EmptySet
  <2>2. /\ stamp \in [Files -> 0..MaxClock] /\ asked \in [Processes -> 0..MaxClock]
        /\ checkedAt \in [Processes -> 0..MaxClock] /\ clock \in 0..MaxClock
    OBVIOUS
  <2> QED BY <2>1, <2>2 DEF TypeOK, Steps, Mishaps
<1>2. Counted
  <2>1. Runners = {}
    BY DEF Runners, Coming
  <2> QED BY <2>1, FS_EmptySet DEF Counted
<1>3. LeaseInv /\ FilesInv
  BY DEF LeaseInv, FilesInv, Owning, None
<1>4. DatedInv /\ SuccessionInv
  BY DEF DatedInv, SuccessionInv, SuccessionOf, Owning, Reading, None
<1> QED BY <1>1, <1>2, <1>3, <1>4 DEF IInv

\* The number of runs that may still create a file.
LEMMA RunnersMove ==
  ASSUME IInv, NEW p \in Processes, NEW step, pc' = [pc EXCEPT ![p] = step]
  PROVE  /\ IsFiniteSet(Runners') /\ Cardinality(Runners') \in Nat
         /\ Cardinality(Runners) \in Nat
         /\ step \notin Coming => Cardinality(Runners') <= Cardinality(Runners)
         /\ step \in Coming => Cardinality(Runners') <= Cardinality(Runners) + 1
         /\ step \in Coming /\ pc[p] \in Coming =>
              Cardinality(Runners') = Cardinality(Runners)
         /\ step \notin Coming /\ pc[p] \in Coming =>
              Cardinality(Runners') = Cardinality(Runners) - 1
<1>1. IsFiniteSet(Runners) /\ pc \in [Processes -> Steps]
  BY DEF IInv, Counted, TypeOK
<1>2. Cardinality(Runners) \in Nat
  BY <1>1, FS_CardinalityType
<1>3. CASE step \in Coming
  <2>1. Runners' = Runners \cup {p}
    BY <1>1, <1>3 DEF Runners
  <2>2. /\ IsFiniteSet(Runners \cup {p})
        /\ Cardinality(Runners \cup {p}) =
             IF p \in Runners THEN Cardinality(Runners) ELSE Cardinality(Runners) + 1
    BY <1>1, FS_AddElement
  <2>3. p \in Runners <=> pc[p] \in Coming
    BY DEF Runners
  <2> QED BY <1>2, <1>3, <2>1, <2>2, <2>3
<1>4. CASE step \notin Coming
  <2>1. Runners' = Runners \ {p}
    BY <1>1, <1>4 DEF Runners
  <2>2. /\ IsFiniteSet(Runners \ {p})
        /\ Cardinality(Runners \ {p}) =
             IF p \in Runners THEN Cardinality(Runners) - 1 ELSE Cardinality(Runners)
    BY <1>1, FS_RemoveElement
  <2>3. Cardinality(Runners \ {p}) \in Nat
    BY <2>2, FS_CardinalityType
  <2>4. p \in Runners <=> pc[p] \in Coming
    BY DEF Runners
  <2> QED BY <1>2, <1>4, <2>1, <2>2, <2>3, <2>4
<1> QED BY <1>3, <1>4

\* A step of one process that leaves the files alone.
LEMMA OwnIInv ==
  ASSUME IInv, NEW p \in Processes, NEW step \in Steps \ Owning,
         pc' = [pc EXCEPT ![p] = step], TypeOK',
         UNCHANGED <<world, disk>>, reported' \in Reportable(p),
         runs' = runs \/ runs' = runs + 1,
         step \in Coming /\ pc[p] \notin Coming => runs' = runs + 1,
         \A q \in Processes \ {p} :
           /\ fd'[q] = fd[q] /\ asked'[q] = asked[q] /\ checkedAt'[q] = checkedAt[q]
           /\ temp'[q] = temp[q]
           /\ \A i \in Locks : holder[i] = q => holder'[i] = q,
         step \in {"flock", "create"} => fd'[p] # None,
         fd'[p] # None /\ step # "flock" => holder'[fd'[p]] = p,
         "set_back" \notin mishaps =>
           /\ asked'[p] <= clock /\ checkedAt'[p] <= clock
           /\ step \in {"fetching", "create"} \cup Reading => asked'[p] <= checkedAt'[p],
         mishaps \subseteq {"power_lost"} =>
           /\ lockFile' \in {None, 1} /\ fd'[p] \in {None, 1}
           /\ fd'[p] # None /\ step \in {"fetching", "create"} =>
                \A f \in onDisk \ {None} : stamp[f] <= checkedAt'[p]
  PROVE  IInv'
<1> USE DEF world, disk
<1>1. pc \in [Processes -> Steps] /\ pc'[p] = step
      /\ \A q \in Processes \ {p} : pc'[q] = pc[q]
  BY DEF IInv, TypeOK
<1>2. Counted'
  <2>1. made \in Nat /\ runs \in Nat
    BY Bounds DEF IInv, TypeOK
  <2>2. PICK c \in Nat, d \in Nat :
          /\ c = Cardinality(Runners) /\ d = Cardinality(Runners')
          /\ step \notin Coming => d <= c
          /\ step \in Coming => d <= c + 1
          /\ step \in Coming /\ pc[p] \in Coming => d = c
    BY RunnersMove
  <2>3. made + c <= runs
    BY <2>2 DEF IInv, Counted
  <2>4. d <= c \/ (d <= c + 1 /\ runs' = runs + 1)
    BY <2>2
  <2>5. made' + d <= runs'
    BY <2>1, <2>3, <2>4
  <2> QED BY <2>2, <2>5, RunnersMove DEF Counted
<1>3. LeaseInv'
  <2> SUFFICES ASSUME NEW q \in Processes
      PROVE /\ pc'[q] \in {"flock", "create"} \cup Owning => fd'[q] # None
            /\ fd'[q] # None /\ pc'[q] # "flock" => holder'[fd'[q]] = q
    BY DEF LeaseInv
  <2>1. CASE q = p
    BY <1>1, <2>1
  <2>2. CASE q # p
    <3>1. fd[q] \in Locks \cup {None}
      BY DEF IInv, TypeOK
    <3> QED BY <1>1, <2>2, <3>1 DEF IInv, LeaseInv
  <2> QED BY <2>1, <2>2
<1>4. FilesInv'
  <2>1. pc'[p] \notin Owning /\ {"write", "sync", "rename"} \subseteq Owning
    BY <1>1 DEF Owning
  <2>2. \A q \in Processes : pc'[q] \in Owning =>
          q # p /\ pc'[q] = pc[q] /\ temp'[q] = temp[q]
    BY <1>1, <2>1
  <2>3. \A q \in Processes :
          /\ pc'[q] \in Owning => temp'[q] \in 1..made
          /\ pc'[q] \in Owning \ {"write"} => temp'[q] \in whole
          /\ pc'[q] \in Owning \ {"write", "sync"} => temp'[q] \in synced
          /\ pc'[q] \in {"write", "sync", "rename"} => temp'[q] \notin onDisk \cup {reported'}
    BY <2>1, <2>2 DEF IInv, FilesInv, Reportable, Vouched
  <2>4. \A q, r \in Processes :
          pc'[q] \in Owning /\ pc'[r] \in Owning /\ temp'[q] = temp'[r] => q = r
    BY <2>2 DEF IInv, FilesInv
  <2>5. target \in onDisk /\ onDisk \subseteq (whole \cap synced) \cup {None}
        /\ reported' <= made
    BY DEF IInv, FilesInv, Reportable, Vouched
  <2> QED BY <2>3, <2>4, <2>5 DEF FilesInv
<1>5. DatedInv'
  <2> SUFFICES ASSUME "set_back" \notin mishaps, NEW q \in Processes
      PROVE /\ asked'[q] <= clock /\ checkedAt'[q] <= clock
            /\ pc'[q] \in {"fetching", "create"} \cup Owning \cup Reading
                  => asked'[q] <= checkedAt'[q]
    BY DEF IInv, DatedInv
  <2>1. CASE q = p
    BY <1>1, <2>1
  <2>2. CASE q # p
    BY <1>1, <2>2 DEF IInv, DatedInv
  <2> QED BY <2>1, <2>2
<1>6. SuccessionInv'
  <2> SUFFICES ASSUME mishaps \subseteq {"power_lost"} PROVE SuccessionInv'
    BY DEF SuccessionInv
  <2>1. ASSUME NEW q \in Processes PROVE SuccessionOf(q)'
    <3>1. CASE q = p
      BY <1>1, <3>1 DEF SuccessionOf, Owning
    <3>2. CASE q # p
      BY <1>1, <3>2 DEF IInv, SuccessionInv, SuccessionOf
    <3> QED BY <3>1, <3>2
  <2>2. reported' # None =>
          None \notin onDisk /\ \A f \in onDisk : stamp[reported'] <= stamp[f]
    BY DEF IInv, SuccessionInv, Reportable, Vouched
  <2> QED BY <2>1, <2>2 DEF SuccessionInv
<1> QED BY <1>2, <1>3, <1>4, <1>5, <1>6 DEF IInv

\* A run returns.
LEMMA ReturnIInv ==
  ASSUME IInv, NEW p \in Processes,
         NEW record \in SUBSET (0..MaxClock), Cardinality(record) <= 1,
         Return(p, record), UNCHANGED <<world, disk, lockFile, runs>>, reported' \in Reportable(p)
  PROVE  IInv'
<1> USE DEF Return, Goto
<1>1. TypeOK'
  <2>1. holder' \in [Locks -> Processes \cup {NoProcess}]
    BY DEF Unlocked, IInv, TypeOK
  <2>2. /\ pc' \in [Processes -> Steps] /\ kind' \in [Processes -> {"refresh", "check"}]
        /\ fd' \in [Processes -> Locks \cup {None}]
        /\ temp' \in [Processes -> Files \cup {None}]
        /\ seen' \in [Processes -> Files \cup {None}]
    BY DEF IInv, TypeOK, Steps
  <2>3. asked' \in [Processes -> 0..MaxClock] /\ checkedAt' \in [Processes -> 0..MaxClock]
    BY Bounds DEF IInv, TypeOK
  <2>4. reported' \in Files \cup {None}
    BY DEF Reportable, IInv, TypeOK
  <2> QED BY <2>1, <2>2, <2>3, <2>4 DEF IInv, TypeOK, world, disk
<1>2. \A q \in Processes \ {p} :
        /\ fd'[q] = fd[q] /\ asked'[q] = asked[q] /\ checkedAt'[q] = checkedAt[q]
        /\ temp'[q] = temp[q]
        /\ \A i \in Locks : holder[i] = q => holder'[i] = q
  BY DEF Unlocked, IInv, TypeOK
<1>3. fd'[p] = None /\ asked'[p] = 0 /\ checkedAt'[p] = 0 /\ 0 <= clock
  BY DEF IInv, TypeOK
<1>4. mishaps \subseteq {"power_lost"} => lockFile \in {None, 1}
  BY DEF IInv, SuccessionInv
<1> PICK step \in Steps \ Owning : step = "idle"
  BY DEF Steps, Owning
<1>5. /\ pc' = [pc EXCEPT ![p] = step] /\ UNCHANGED <<world, disk>>
      /\ runs' = runs /\ step \notin Coming
      /\ step \notin {"flock", "create", "fetching"} \cup Reading
  BY DEF Coming, Reading
<1>6. "set_back" \notin mishaps =>
        /\ asked'[p] <= clock /\ checkedAt'[p] <= clock
        /\ step \in {"fetching", "create"} \cup Reading => asked'[p] <= checkedAt'[p]
  BY <1>3
<1>7. mishaps \subseteq {"power_lost"} =>
        /\ lockFile' \in {None, 1} /\ fd'[p] \in {None, 1}
        /\ fd'[p] # None /\ step \in {"fetching", "create"} =>
             \A f \in onDisk \ {None} : stamp[f] <= checkedAt'[p]
  BY <1>3, <1>4
<1> QED BY <1>1, <1>2, <1>3, <1>5, <1>6, <1>7, OwnIInv

LEMMA AcquireIInv ==
  ASSUME IInv, NEW p \in Processes,
         \/ \E k \in {"refresh", "check"} : Begin(p, k)
         \/ OpenLock(p) \/ TakeLease(p)
  PROVE  IInv'
<1> USE DEF Goto, Reportable
<1>1. TypeOK'
  <2>1. runs < MaxRuns => runs + 1 \in 0..MaxRuns
    BY Bounds DEF IInv, TypeOK
  <2>2. pc[p] = "flock" => fd[p] \in Locks
    BY DEF IInv, TypeOK, LeaseInv
  <2>3. CASE \E k \in {"refresh", "check"} : Begin(p, k)
    BY <2>1, <2>3 DEF Begin, IInv, TypeOK, world, disk, Steps
  <2>4. CASE OpenLock(p)
    <3>1. lockFile' \in Locks
      BY <2>4 DEF OpenLock, IInv, TypeOK, Locks
    <3> QED BY <2>4, <3>1 DEF OpenLock, IInv, TypeOK, world, disk, Steps
  <2>5. CASE TakeLease(p)
    BY <2>2, <2>5 DEF TakeLease, IInv, TypeOK, world, disk, Steps
  <2> QED BY <2>3, <2>4, <2>5
<1>2. ASSUME NEW k \in {"refresh", "check"}, Begin(p, k) PROVE IInv'
  <2>1. PICK step \in Steps \ Owning : step = "lock"
    BY DEF Steps, Owning
  <2>2. /\ pc' = [pc EXCEPT ![p] = step] /\ UNCHANGED <<world, disk, reported>>
        /\ runs' = runs + 1 /\ step \notin {"flock", "create", "fetching"} \cup Reading
    BY <1>2, <2>1 DEF Begin, Reading
  <2>3. /\ \A q \in Processes \ {p} :
             /\ fd'[q] = fd[q] /\ asked'[q] = asked[q] /\ checkedAt'[q] = checkedAt[q]
             /\ temp'[q] = temp[q]
             /\ \A i \in Locks : holder[i] = q => holder'[i] = q
        /\ fd'[p] # None /\ step # "flock" => holder'[fd'[p]] = p
    BY <1>2 DEF Begin, IInv, TypeOK, LeaseInv
  <2>4. "set_back" \notin mishaps => asked'[p] <= clock /\ checkedAt'[p] <= clock
    BY <1>2 DEF Begin, IInv, TypeOK, DatedInv
  <2>5. mishaps \subseteq {"power_lost"} => lockFile' \in {None, 1} /\ fd'[p] \in {None, 1}
    BY <1>2 DEF Begin, IInv, SuccessionInv, SuccessionOf
  <2> QED BY <1>1, <2>2, <2>3, <2>4, <2>5, OwnIInv
<1>3. CASE OpenLock(p)
  <2>1. PICK step \in Steps \ Owning : step = "flock"
    BY DEF Steps, Owning
  <2>2. /\ pc' = [pc EXCEPT ![p] = step] /\ UNCHANGED <<world, disk, reported>>
        /\ runs' = runs /\ pc[p] \in Coming
        /\ step \notin {"create", "fetching"} \cup Reading
    BY <1>3, <2>1 DEF OpenLock, Reading, Coming
  <2>3. /\ \A q \in Processes \ {p} :
             /\ fd'[q] = fd[q] /\ asked'[q] = asked[q] /\ checkedAt'[q] = checkedAt[q]
             /\ temp'[q] = temp[q]
             /\ \A i \in Locks : holder[i] = q => holder'[i] = q
        /\ fd'[p] # None
    BY <1>3 DEF OpenLock, IInv, TypeOK, None
  <2>4. "set_back" \notin mishaps => asked'[p] <= clock /\ checkedAt'[p] <= clock
    BY <1>3 DEF OpenLock, IInv, DatedInv
  <2>5. mishaps \subseteq {"power_lost"} => lockFile' \in {None, 1} /\ fd'[p] \in {None, 1}
    BY <1>3 DEF OpenLock, IInv, TypeOK, SuccessionInv
  <2> QED BY <1>1, <2>1, <2>2, <2>3, <2>4, <2>5, OwnIInv
<1>4. CASE TakeLease(p)
  <2>1. PICK step \in Steps \ Owning : step = "fetch"
    BY DEF Steps, Owning
  <2>2. /\ pc' = [pc EXCEPT ![p] = step] /\ UNCHANGED <<world, disk, reported>>
        /\ runs' = runs /\ pc[p] \in Coming
        /\ step \notin {"flock", "create", "fetching"} \cup Reading
    BY <1>4, <2>1 DEF TakeLease, Reading, Coming
  <2>3. fd[p] \in Locks /\ holder[fd[p]] = NoProcess /\ fd' = fd
    BY <1>4 DEF TakeLease, Granted, IInv, TypeOK, LeaseInv
  <2>4. /\ \A q \in Processes \ {p} :
             /\ fd'[q] = fd[q] /\ asked'[q] = asked[q] /\ checkedAt'[q] = checkedAt[q]
             /\ temp'[q] = temp[q]
             /\ \A i \in Locks : holder[i] = q => holder'[i] = q
        /\ holder'[fd'[p]] = p
    BY <1>4, <2>3, Bounds DEF TakeLease, IInv, TypeOK
  <2>5. "set_back" \notin mishaps => asked'[p] <= clock /\ checkedAt'[p] <= clock
    BY <1>4 DEF TakeLease, IInv, DatedInv
  <2>6. mishaps \subseteq {"power_lost"} => lockFile' \in {None, 1} /\ fd'[p] \in {None, 1}
    BY <1>4 DEF TakeLease, IInv, SuccessionInv, SuccessionOf
  <2> QED BY <1>1, <2>1, <2>2, <2>4, <2>5, <2>6, OwnIInv
<1> QED BY <1>2, <1>3, <1>4

\* Without a lease a check reads the cache or fetches all the same.
LEMMA UnleasedIInv ==
  ASSUME IInv, NEW p \in Processes, Contended(p) \/ Unavailable(p)
  PROVE  IInv'
<1> USE DEF Goto, Reportable
<1>1. CASE Return(p, {}) /\ UNCHANGED <<world, disk, lockFile, reported, runs>>
  BY <1>1, ReturnIInv, FS_EmptySet
<1>2. ASSUME NEW step \in {"read", "fetch"}, pc' = [pc EXCEPT ![p] = step],
             pc[p] \in {"lock", "flock"}, fd' = [fd EXCEPT ![p] = None],
             checkedAt' = [checkedAt EXCEPT ![p] = clock] \/ (checkedAt' = checkedAt /\ step = "fetch"),
             UNCHANGED <<world, disk, lockFile, reported, runs, holder, kind, asked,
                         temp, seen, answer>>
      PROVE  IInv'
  <2>1. TypeOK'
    BY <1>2 DEF IInv, TypeOK, world, disk, Steps, Locks
  <2>2. step \in Steps \ Owning /\ pc[p] \in Coming
        /\ step \notin {"flock", "create", "fetching"}
    BY <1>2 DEF Steps, Owning, Coming
  <2>3. /\ \A q \in Processes \ {p} :
             /\ fd'[q] = fd[q] /\ asked'[q] = asked[q] /\ checkedAt'[q] = checkedAt[q]
             /\ temp'[q] = temp[q]
             /\ \A i \in Locks : holder[i] = q => holder'[i] = q
        /\ fd'[p] = None
    BY <1>2 DEF IInv, TypeOK
  <2>4. "set_back" \notin mishaps =>
          /\ asked'[p] <= clock /\ checkedAt'[p] <= clock
          /\ step \in {"fetching", "create"} \cup Reading => asked'[p] <= checkedAt'[p]
    BY <1>2 DEF IInv, TypeOK, DatedInv, Reading
  <2>5. mishaps \subseteq {"power_lost"} => lockFile' \in {None, 1} /\ fd'[p] \in {None, 1}
    BY <1>2, <2>3 DEF IInv, SuccessionInv
  <2> QED BY <1>2, <2>1, <2>2, <2>3, <2>4, <2>5, OwnIInv
<1>3. CASE Contended(p)
  BY <1>1, <1>2, <1>3 DEF Contended
<1>4. CASE Unavailable(p)
  BY <1>1, <1>2, <1>4 DEF Unavailable
<1> QED BY <1>3, <1>4

LEMMA FetchIInv ==
  ASSUME IInv, NEW p \in Processes, Fetch(p) \/ Answered(p) \/ FetchFails(p)
  PROVE  IInv'
<1> USE DEF Goto, Reportable
<1>1. ASSUME NEW step \in {"fetching", "create"}, pc' = [pc EXCEPT ![p] = step],
             pc[p] \in {"fetch", "fetching"}, step = "create" => fd[p] # None,
             \/ checkedAt' = [checkedAt EXCEPT ![p] = clock]
             \/ checkedAt' = checkedAt /\ pc[p] = "fetching",
             UNCHANGED <<world, disk, lockFile, reported, runs, holder, kind, fd, asked,
                         temp, seen, answer>>
      PROVE  IInv'
  <2>1. TypeOK'
    BY <1>1 DEF IInv, TypeOK, world, disk, Steps
  <2>2. step \in Steps \ Owning /\ pc[p] \in Coming /\ step # "flock"
    BY <1>1 DEF Steps, Owning, Coming
  <2>3. /\ \A q \in Processes \ {p} :
             /\ fd'[q] = fd[q] /\ asked'[q] = asked[q] /\ checkedAt'[q] = checkedAt[q]
             /\ temp'[q] = temp[q]
             /\ \A i \in Locks : holder[i] = q => holder'[i] = q
        /\ step \in {"flock", "create"} => fd'[p] # None
        /\ fd'[p] # None => holder'[fd'[p]] = p
    BY <1>1 DEF IInv, TypeOK, LeaseInv
  <2>4. "set_back" \notin mishaps =>
          /\ asked'[p] <= clock /\ checkedAt'[p] <= clock
          /\ step \in {"fetching", "create"} \cup Reading => asked'[p] <= checkedAt'[p]
    BY <1>1 DEF IInv, TypeOK, DatedInv
  <2>5. mishaps \subseteq {"power_lost"} =>
          /\ lockFile' \in {None, 1} /\ fd'[p] \in {None, 1}
          /\ fd'[p] # None /\ step \in {"fetching", "create"} =>
               \A f \in onDisk \ {None} : stamp[f] <= checkedAt'[p]
    <3> SUFFICES ASSUME mishaps \subseteq {"power_lost"}
        PROVE /\ lockFile \in {None, 1} /\ fd[p] \in {None, 1}
              /\ fd[p] # None => \A f \in onDisk \ {None} : stamp[f] <= checkedAt'[p]
      BY <1>1
    <3>1. lockFile \in {None, 1} /\ SuccessionOf(p)
      BY DEF IInv, SuccessionInv
    <3>2. \A f \in onDisk \ {None} : f \in Files /\ stamp[f] <= clock
      BY DEF IInv, TypeOK, DatedInv
    <3>3. CASE checkedAt' = [checkedAt EXCEPT ![p] = clock]
      <4>1. checkedAt'[p] = clock
        BY <3>3 DEF IInv, TypeOK
      <4> QED BY <3>1, <3>2, <4>1 DEF SuccessionOf
    <3>4. CASE checkedAt' = checkedAt /\ pc[p] = "fetching"
      BY <3>1, <3>4 DEF SuccessionOf
    <3> QED BY <1>1, <3>3, <3>4
  <2> QED BY <1>1, <2>1, <2>2, <2>3, <2>4, <2>5, OwnIInv
<1>2. CASE Fetch(p)
  BY <1>1, <1>2 DEF Fetch, TimeOfFetch
<1>3. CASE Answered(p)
  <2>1. checkedAt[p] \in 0..MaxClock
    BY DEF IInv, TypeOK
  <2> QED BY <1>1, <1>3, <2>1, ReturnIInv, RecordType DEF Answered
<1>4. CASE FetchFails(p)
  BY <1>4, ReturnIInv, FS_EmptySet DEF FetchFails
<1> QED BY <1>2, <1>3, <1>4

\* readUpdateCache holds no lease and changes no file.
LEMMA ReadIInv ==
  ASSUME IInv, NEW p \in Processes,
         Look(p) \/ OpenCache(p) \/ Fstat(p) \/ Judge(p) \/ ReadFails(p)
  PROVE  IInv'
<1> USE DEF Goto, Reportable
<1>1. CASE NotFresh(p)
  BY <1>1, ReturnIInv, FS_EmptySet DEF NotFresh
<1>2. CASE Return(p, {stamp[seen[p]]}) /\ seen[p] \in whole
           /\ UNCHANGED <<world, disk, lockFile, reported, runs>>
  <2>1. whole \subseteq Files
    BY Bounds DEF IInv, TypeOK, Files
  <2>2. stamp[seen[p]] \in 0..MaxClock
    BY <1>2, <2>1 DEF IInv, TypeOK
  <2> QED BY <1>2, <2>2, ReturnIInv, RecordType
<1>3. ASSUME NEW step \in {"open", "fstat", "judge"}, pc' = [pc EXCEPT ![p] = step],
             pc[p] \in Reading, seen' \in [Processes -> Files \cup {None}],
             UNCHANGED <<world, disk, lockFile, holder, reported, runs, kind, fd, asked,
                         checkedAt, temp, answer>>
      PROVE  IInv'
  <2>1. TypeOK'
    BY <1>3 DEF IInv, TypeOK, world, disk, Steps
  <2>2. step \in Steps \ Owning /\ step \notin Coming /\ pc[p] # "flock"
        /\ step \notin {"flock", "create", "fetching"}
    BY <1>3 DEF Steps, Owning, Coming, Reading
  <2>3. /\ \A q \in Processes \ {p} :
             /\ fd'[q] = fd[q] /\ asked'[q] = asked[q] /\ checkedAt'[q] = checkedAt[q]
             /\ temp'[q] = temp[q]
             /\ \A i \in Locks : holder[i] = q => holder'[i] = q
        /\ fd'[p] # None => holder'[fd'[p]] = p
    BY <1>3, <2>2 DEF IInv, LeaseInv
  <2>4. "set_back" \notin mishaps =>
          /\ asked'[p] <= clock /\ checkedAt'[p] <= clock
          /\ asked'[p] <= checkedAt'[p]
    BY <1>3 DEF IInv, DatedInv
  <2>5. mishaps \subseteq {"power_lost"} => lockFile' \in {None, 1} /\ fd'[p] \in {None, 1}
    BY <1>3 DEF IInv, SuccessionInv, SuccessionOf
  <2> QED BY <1>3, <2>1, <2>2, <2>3, <2>4, <2>5, OwnIInv
<1>4. CASE Look(p)
  BY <1>1, <1>3, <1>4 DEF Look, Reading, IInv, TypeOK
<1>5. CASE OpenCache(p) \/ Fstat(p)
  BY <1>1, <1>3, <1>5 DEF OpenCache, Fstat, Reading, IInv, TypeOK
<1>6. CASE Judge(p) \/ ReadFails(p)
  BY <1>1, <1>2, <1>6 DEF Judge, Fresh, ReadFails
<1> QED BY <1>4, <1>5, <1>6

-----------------------------------------------------------------------------
(* writeUpdateCache.                                                       *)

\* What follows from the counting, the lease and the dates for a step between
\* the creation of the temporary file and the return.
LEMMA WriterIInv ==
  ASSUME IInv, NEW p \in Processes, NEW step \in Owning,
         pc' = [pc EXCEPT ![p] = step], pc[p] \in {"create"} \cup Owning,
         UNCHANGED <<runs, fd, holder, asked, checkedAt, clock, mishaps>>,
         IF pc[p] = "create" THEN made' = made + 1 ELSE made' = made,
         "set_back" \notin mishaps => \A f \in Files : stamp'[f] <= clock
  PROVE  Counted' /\ LeaseInv' /\ DatedInv'
<1>1. pc \in [Processes -> Steps] /\ pc'[p] = step
      /\ \A q \in Processes \ {p} : pc'[q] = pc[q]
  BY DEF IInv, TypeOK
<1>2. step \notin Coming /\ "create" \in Coming /\ "flock" \notin {"create"} \cup Owning
      /\ step # "flock"
  BY DEF Owning, Coming
<1>3. Counted'
  <2>1. made \in Nat /\ runs \in Nat
    BY Bounds DEF IInv, TypeOK
  <2>2. PICK c \in Nat, d \in Nat :
          /\ c = Cardinality(Runners) /\ d = Cardinality(Runners')
          /\ d <= c /\ (pc[p] = "create" => d = c - 1)
    BY <1>2, RunnersMove
  <2>3. made + c <= runs
    BY <2>2 DEF IInv, Counted
  <2>4. made' + d <= runs
    BY <2>1, <2>2, <2>3
  <2> QED BY <2>2, <2>4, RunnersMove DEF Counted
<1>4. LeaseInv'
  BY <1>1, <1>2 DEF IInv, LeaseInv
<1>5. DatedInv'
  <2> SUFFICES ASSUME "set_back" \notin mishaps, NEW q \in Processes
      PROVE /\ asked[q] <= clock /\ checkedAt[q] <= clock
            /\ pc'[q] \in {"fetching", "create"} \cup Owning \cup Reading
                  => asked[q] <= checkedAt[q]
    BY DEF DatedInv
  <2>1. CASE q = p
    BY <2>1 DEF IInv, DatedInv
  <2>2. CASE q # p
    BY <1>1, <2>2 DEF IInv, DatedInv
  <2> QED BY <2>1, <2>2
<1> QED BY <1>3, <1>4, <1>5

\* While update.lock stays in place one process at a time has the lease.
LEMMA OneLease ==
  ASSUME IInv, mishaps \subseteq {"power_lost"},
         NEW p \in Processes, NEW q \in Processes,
         fd[p] # None, fd[q] # None, pc[p] # "flock", pc[q] # "flock"
  PROVE  p = q
<1>1. fd[p] = 1 /\ fd[q] = 1
  BY DEF IInv, SuccessionInv, SuccessionOf
<1>2. holder[1] = p /\ holder[1] = q
  BY <1>1 DEF IInv, LeaseInv
<1> QED BY <1>2

LEMMA CreateIInv ==
  ASSUME IInv, NEW p \in Processes, CreateTemporary(p) PROVE IInv'
<1> USE DEF CreateTemporary, Goto, world
<1>1. /\ pc' = [pc EXCEPT ![p] = "write"] /\ pc[p] = "create"
      /\ made \in 0..MaxRuns /\ made + 1 \in Files
  <2>1. p \in Runners /\ IsFiniteSet(Runners)
    BY DEF Runners, Coming, IInv, Counted
  <2>2. Cardinality(Runners) \in Nat /\ Cardinality(Runners) # 0
    BY <2>1, FS_EmptySet, FS_CardinalityType
  <2> QED BY <2>2, Bounds DEF IInv, Counted, TypeOK, Files
<1>2. TypeOK'
  <2>1. made' \in 0..MaxRuns /\ 1..made \subseteq 1..made'
    BY <1>1, Bounds DEF Files
  <2>2. temp' \in [Processes -> Files \cup {None}]
    BY <1>1 DEF IInv, TypeOK
  <2> QED BY <2>1, <2>2 DEF IInv, TypeOK, Steps
<1>3. Counted' /\ LeaseInv' /\ DatedInv'
  <2>1. "write" \in Owning
    BY DEF Owning
  <2> QED BY <1>1, <2>1, WriterIInv DEF IInv, DatedInv
<1>4. /\ pc'[p] = "write" /\ temp'[p] = made + 1
      /\ \A q \in Processes \ {p} : pc'[q] = pc[q] /\ temp'[q] = temp[q]
  BY DEF IInv, TypeOK
<1>5. FilesInv'
  <2>1. made + 1 \in 1..made' /\ 1..made \subseteq 1..made' /\ made + 1 \notin 1..made
        /\ reported <= made /\ made + 1 # None
    BY <1>1 DEF IInv, FilesInv, None
  <2>2. made + 1 \notin onDisk \cup {reported}
    BY <2>1 DEF IInv, FilesInv, TypeOK
  <2>3. reported <= made'
    BY <1>1 DEF IInv, FilesInv, TypeOK, Files, None
  <2>4. \A q \in Processes \ {p} : pc'[q] \in Owning => temp'[q] # temp'[p]
    BY <1>4, <2>1 DEF IInv, FilesInv
  <2>5. \A q, r \in Processes :
          pc'[q] \in Owning /\ pc'[r] \in Owning /\ temp'[q] = temp'[r] => q = r
    BY <1>4, <2>4 DEF IInv, FilesInv
  <2>6. \A q \in Processes :
          /\ pc'[q] \in Owning => temp'[q] \in 1..made'
          /\ pc'[q] \in Owning \ {"write"} => temp'[q] \in whole
          /\ pc'[q] \in Owning \ {"write", "sync"} => temp'[q] \in synced
          /\ pc'[q] \in {"write", "sync", "rename"} => temp'[q] \notin onDisk \cup {reported}
    BY <1>4, <2>1, <2>2 DEF IInv, FilesInv
  <2> QED BY <2>3, <2>5, <2>6 DEF IInv, FilesInv
<1>6. SuccessionInv'
  BY <1>1, <1>4 DEF IInv, SuccessionInv, SuccessionOf, Owning
<1> QED BY <1>2, <1>3, <1>5, <1>6 DEF IInv

LEMMA WriteIInv ==
  ASSUME IInv, NEW p \in Processes, WriteTemporary(p) PROVE IInv'
<1> USE DEF WriteTemporary, Goto, world
<1> DEFINE f == temp[p]
<1>1. /\ f \in Files /\ f \in 1..made /\ f # None /\ f \notin onDisk \cup {reported}
      /\ checkedAt[p] \in 0..MaxClock
  BY Bounds DEF IInv, FilesInv, TypeOK, Owning, Files, None
<1>2. TypeOK'
  BY <1>1 DEF IInv, TypeOK, Steps
<1>3. Counted' /\ LeaseInv' /\ DatedInv'
  <2>1. "write" \in Owning /\ "sync" \in Owning
    BY DEF Owning
  <2>2. "set_back" \notin mishaps => \A g \in Files : stamp'[g] <= clock
    BY <1>1 DEF IInv, DatedInv, TypeOK
  <2> QED BY <2>1, <2>2, WriterIInv
<1>4. pc'[p] = "sync" /\ \A q \in Processes \ {p} : pc'[q] = pc[q]
  BY DEF IInv, TypeOK
<1>5. FilesInv'
  <2>1. \A q \in Processes : pc'[q] \in Owning => pc[q] \in Owning
    BY <1>4 DEF Owning
  <2> QED BY <1>1, <1>4, <2>1 DEF IInv, FilesInv, Owning
<1>6. SuccessionInv'
  <2> SUFFICES ASSUME mishaps \subseteq {"power_lost"} PROVE SuccessionInv'
    BY DEF SuccessionInv
  <2>1. \A g \in onDisk \cup {reported} : stamp'[g] = stamp[g]
    BY <1>1 DEF IInv, TypeOK
  <2>2. stamp'[f] = checkedAt[p]
    BY <1>1 DEF IInv, TypeOK
  <2>3. \A q \in Processes \ {p} : pc[q] \in Owning => temp[q] # f
    BY DEF IInv, FilesInv, Owning
  <2>4. \A q \in Processes \ {p} : pc[q] \in Owning => stamp'[temp[q]] = stamp[temp[q]]
    <3> SUFFICES ASSUME NEW q \in Processes \ {p}, pc[q] \in Owning
                 PROVE stamp'[temp[q]] = stamp[temp[q]]
      OBVIOUS
    <3>1. temp[q] \in Files
      BY Bounds DEF IInv, FilesInv, TypeOK, Files
    <3> QED BY <2>3, <3>1 DEF IInv, TypeOK
  <2>5. ASSUME NEW q \in Processes PROVE SuccessionOf(q)'
    <3>1. SuccessionOf(q)
      BY DEF IInv, SuccessionInv
    <3>2. CASE q = p
      BY <1>4, <2>1, <2>2, <3>1, <3>2 DEF SuccessionOf, Owning
    <3>3. CASE q # p
      BY <1>4, <2>1, <2>4, <3>1, <3>3 DEF SuccessionOf
    <3> QED BY <3>2, <3>3
  <2> QED BY <2>1, <2>5 DEF IInv, SuccessionInv
<1> QED BY <1>2, <1>3, <1>5, <1>6 DEF IInv

LEMMA SyncIInv ==
  ASSUME IInv, NEW p \in Processes, SyncTemporary(p) PROVE IInv'
<1> USE DEF SyncTemporary, Goto, world
<1>1. TypeOK'
  <2>1. temp[p] \in 1..made
    BY DEF IInv, FilesInv, Owning
  <2> QED BY <2>1 DEF IInv, TypeOK, Steps
<1>2. Counted' /\ LeaseInv' /\ DatedInv'
  <2>1. "sync" \in Owning /\ "rename" \in Owning
    BY DEF Owning
  <2> QED BY <2>1, WriterIInv DEF IInv, DatedInv
<1>3. pc'[p] = "rename" /\ \A q \in Processes \ {p} : pc'[q] = pc[q]
  BY DEF IInv, TypeOK
<1>4. FilesInv'
  <2>1. \A q \in Processes : pc'[q] \in Owning => pc[q] \in Owning
    BY <1>3 DEF Owning
  <2> QED BY <1>3, <2>1 DEF IInv, FilesInv, Owning
<1>5. SuccessionInv'
  BY <1>3 DEF IInv, SuccessionInv, SuccessionOf, Owning
<1> QED BY <1>1, <1>2, <1>4, <1>5 DEF IInv

LEMMA RenameIInv ==
  ASSUME IInv, NEW p \in Processes, Rename(p) PROVE IInv'
<1> USE DEF Rename, Goto, world
<1> DEFINE f == temp[p]
<1>1. /\ f \in 1..made /\ f \in Files /\ f # None /\ f \in whole \cap synced
      /\ f # reported /\ fd[p] # None
  BY Bounds DEF IInv, FilesInv, TypeOK, Owning, Files, None, LeaseInv
<1>2. TypeOK'
  BY <1>1 DEF IInv, TypeOK, Steps
<1>3. Counted' /\ LeaseInv' /\ DatedInv'
  <2>1. "rename" \in Owning /\ "sync_directory" \in Owning
    BY DEF Owning
  <2> QED BY <2>1, WriterIInv DEF IInv, DatedInv
<1>4. pc'[p] = "sync_directory" /\ \A q \in Processes \ {p} : pc'[q] = pc[q]
  BY DEF IInv, TypeOK
<1>5. FilesInv'
  <2>1. \A q \in Processes : pc'[q] \in Owning => pc[q] \in Owning
    BY <1>4 DEF Owning
  <2>2. \A q \in Processes \ {p} : pc[q] \in Owning => temp[q] # f
    BY DEF IInv, FilesInv, Owning
  <2> QED BY <1>1, <1>4, <2>1, <2>2 DEF IInv, FilesInv, Owning
<1>6. SuccessionInv'
  <2> SUFFICES ASSUME mishaps \subseteq {"power_lost"} PROVE SuccessionInv'
    BY DEF SuccessionInv
  <2>1. SuccessionOf(p) /\ stamp[f] = checkedAt[p]
        /\ \A g \in onDisk \ {None} : stamp[g] <= stamp[f]
    BY <1>1 DEF IInv, SuccessionInv, SuccessionOf, Owning
  <2>2. \A q \in Processes \ {p} :
          /\ fd[q] # None => pc[q] \notin {"fetching", "create"} \cup Owning
          /\ pc[q] \notin Owning
    <3> SUFFICES ASSUME NEW q \in Processes \ {p},
                        pc[q] \in {"fetching", "create"} \cup Owning,
                        fd[q] # None \/ pc[q] \in Owning
                 PROVE FALSE
      BY DEF Owning
    <3>1. fd[q] # None /\ pc[q] # "flock"
      BY DEF IInv, LeaseInv, Owning
    <3> QED BY <1>1, <3>1, OneLease
  <2>3. ASSUME NEW q \in Processes PROVE SuccessionOf(q)'
    <3>1. SuccessionOf(q)
      BY DEF IInv, SuccessionInv
    <3>2. CASE q = p
      BY <1>4, <2>1, <3>1, <3>2 DEF SuccessionOf, Owning
    <3>3. CASE q # p
      BY <1>4, <2>2, <3>1, <3>3 DEF SuccessionOf, Owning
    <3> QED BY <3>2, <3>3
  <2>4. reported # None =>
          None \notin onDisk' /\ \A g \in onDisk' : stamp[reported] <= stamp[g]
    <3> SUFFICES ASSUME reported # None
                 PROVE None \notin onDisk' /\ \A g \in onDisk' : stamp[reported] <= stamp[g]
      OBVIOUS
    <3>1. None \notin onDisk /\ target \in onDisk
          /\ \A g \in onDisk : stamp[reported] <= stamp[g]
      BY DEF IInv, SuccessionInv, FilesInv
    <3>2. stamp[reported] <= stamp[target] /\ stamp[target] <= stamp[f]
      BY <2>1, <3>1
    <3>3. reported \in Files /\ target \in Files
      BY <3>1 DEF IInv, TypeOK
    <3>4. stamp[reported] \in Nat /\ stamp[target] \in Nat /\ stamp[f] \in Nat
      BY <1>1, <3>3, Bounds DEF IInv, TypeOK
    <3> QED BY <1>1, <3>1, <3>2, <3>4
  <2> QED BY <2>3, <2>4 DEF IInv, SuccessionInv
<1> QED BY <1>2, <1>3, <1>5, <1>6 DEF IInv

LEMMA SyncDirectoryIInv ==
  ASSUME IInv, NEW p \in Processes, SyncDirectory(p) PROVE IInv'
<1> USE DEF SyncDirectory, Goto, world
<1>1. TypeOK'
  BY DEF IInv, TypeOK, Steps
<1>2. Counted' /\ LeaseInv' /\ DatedInv'
  <2>1. "sync_directory" \in Owning /\ "confirm" \in Owning
    BY DEF Owning
  <2> QED BY <2>1, WriterIInv DEF IInv, DatedInv
<1>3. pc'[p] = "confirm" /\ \A q \in Processes \ {p} : pc'[q] = pc[q]
  BY DEF IInv, TypeOK
<1>4. onDisk' \subseteq onDisk
  BY DEF IInv, FilesInv
<1>5. FilesInv'
  <2>1. \A q \in Processes : pc'[q] \in Owning => pc[q] \in Owning
    BY <1>3 DEF Owning
  <2> QED BY <1>3, <1>4, <2>1 DEF IInv, FilesInv, Owning
<1>6. SuccessionInv'
  <2> SUFFICES ASSUME mishaps \subseteq {"power_lost"} PROVE SuccessionInv'
    BY DEF SuccessionInv
  <2>1. ASSUME NEW q \in Processes PROVE SuccessionOf(q)'
    <3>1. SuccessionOf(q)
      BY DEF IInv, SuccessionInv
    <3>2. CASE q = p
      BY <1>3, <1>4, <3>1, <3>2 DEF SuccessionOf, Owning
    <3>3. CASE q # p
      BY <1>3, <1>4, <3>1, <3>3 DEF SuccessionOf, Owning
    <3> QED BY <3>2, <3>3
  <2> QED BY <1>4, <2>1 DEF IInv, SuccessionInv
<1> QED BY <1>1, <1>2, <1>5, <1>6 DEF IInv

\* The refresh that is reported is the one that update.json names, on disk too.
LEMMA ConfirmIInv ==
  ASSUME IInv, NEW p \in Processes, Confirm(p) PROVE IInv'
<1> USE DEF Confirm
<1> DEFINE f == temp[p]
<1>1. f \in Files /\ f <= made
  BY Bounds DEF IInv, FilesInv, TypeOK, Owning, Files
<1>2. \A q \in Processes \ {p} : pc[q] \in {"write", "sync", "rename"} => temp[q] # f
  BY DEF IInv, FilesInv, Owning
<1>3. ASSUME mishaps \subseteq {"power_lost"}
      PROVE  None \notin onDisk /\ \A g \in onDisk : stamp[f] <= stamp[g]
  <2>1. onDisk = {f}
    BY <1>3 DEF IInv, SuccessionInv, SuccessionOf
  <2>2. stamp[f] \in Nat
    BY <1>1, Bounds DEF IInv, TypeOK
  <2> QED BY <1>1, <2>1, <2>2 DEF None, Files
<1>4. reported' \in Reportable(p)
  BY <1>1, <1>2, <1>3 DEF Reportable, Vouched
<1>5. checkedAt[p] \in 0..MaxClock
  BY DEF IInv, TypeOK
<1> QED BY <1>4, <1>5, ReturnIInv, RecordType

LEMMA RefusedIInv ==
  ASSUME IInv, NEW p \in Processes, Refused(p) PROVE IInv'
<1>1. checkedAt[p] \in 0..MaxClock
  BY DEF IInv, TypeOK
<1> QED BY <1>1, ReturnIInv, RecordType DEF Refused, WriteFails, Reportable

-----------------------------------------------------------------------------
(* The world.                                                              *)

LEMMA DieIInv ==
  ASSUME IInv, NEW p \in Processes, Die(p) PROVE IInv'
BY ReturnIInv, FS_EmptySet DEF Die, Reportable

\* Time passes, or is set back; or update.lock is removed.
LEMMA WorldIInv == ASSUME IInv, Tick \/ SetBack \/ RemoveLock PROVE IInv'
<1> USE Bounds DEF Mishap
<1>1. TypeOK'
  <2>1. CASE Tick
    BY <2>1 DEF Tick, IInv, TypeOK, disk
  <2>2. CASE SetBack
    BY <2>2 DEF SetBack, IInv, TypeOK, disk, Mishaps
  <2>3. CASE RemoveLock
    BY <2>3 DEF RemoveLock, IInv, TypeOK, disk, Mishaps
  <2> QED BY <2>1, <2>2, <2>3
<1>2. UNCHANGED <<disk, holder, reported, runs, pc, kind, fd, asked, checkedAt, temp>>
  BY DEF Tick, SetBack, RemoveLock
<1>3. Counted' /\ LeaseInv' /\ FilesInv'
  BY <1>2 DEF IInv, Counted, Runners, LeaseInv, FilesInv, disk
<1>4. DatedInv' /\ SuccessionInv'
  <2>1. CASE Tick
    BY <1>2, <2>1 DEF Tick, IInv, TypeOK, DatedInv, SuccessionInv, SuccessionOf, disk
  <2>2. CASE SetBack
    BY <1>2, <2>2 DEF SetBack, DatedInv, SuccessionInv
  <2>3. CASE RemoveLock
    BY <1>2, <2>3 DEF RemoveLock, IInv, DatedInv, SuccessionInv, disk
  <2> QED BY <2>1, <2>2, <2>3
<1> QED BY <1>1, <1>3, <1>4 DEF IInv

LEMMA PowerLossIInv == ASSUME IInv, PowerLoss PROVE IInv'
<1> USE DEF PowerLoss, Mishap
<1>1. PICK kept \in SUBSET (whole \ synced) : whole' = (whole \cap synced) \cup kept
  OBVIOUS
<1>2. target' \in onDisk /\ onDisk' = {target'} /\ synced' = synced /\ stamp' = stamp
      /\ made' = made /\ reported' = reported /\ \A p \in Processes : pc'[p] = "idle"
  OBVIOUS
<1>3. TypeOK'
  <2>1. answer' \in SUBSET (0..MaxClock) /\ Cardinality(answer') <= 1
    BY FS_EmptySet
  <2>2. whole' \subseteq 1..made
    BY <1>1 DEF IInv, TypeOK
  <2>3. asked' \in [Processes -> 0..MaxClock] /\ checkedAt' \in [Processes -> 0..MaxClock]
    BY Bounds
  <2> QED BY <2>1, <2>2, <2>3 DEF IInv, TypeOK, Mishaps, Steps
<1>4. Counted'
  <2>1. Runners' = {}
    BY <1>2 DEF Runners, Coming
  <2>2. IsFiniteSet(Runners') /\ Cardinality(Runners') = 0
    BY <2>1, FS_EmptySet
  <2>3. PICK c \in Nat : c = Cardinality(Runners)
    BY FS_CardinalityType DEF IInv, Counted
  <2>4. made \in Nat /\ runs \in Nat /\ made + c <= runs
    BY <2>3, Bounds DEF IInv, TypeOK, Counted
  <2> QED BY <2>2, <2>4 DEF Counted
<1>5. LeaseInv'
  BY <1>2 DEF LeaseInv, Owning
<1>6. FilesInv'
  BY <1>1, <1>2 DEF IInv, FilesInv, Owning
<1>7. DatedInv'
  BY <1>2 DEF IInv, TypeOK, DatedInv, Owning, Reading
<1>8. SuccessionInv'
  BY <1>2 DEF IInv, SuccessionInv, SuccessionOf, Owning
<1> QED BY <1>3, <1>4, <1>5, <1>6, <1>7, <1>8 DEF IInv

-----------------------------------------------------------------------------
LEMMA NextIInv == ASSUME IInv, Next PROVE IInv'
<1>1. ASSUME NEW p \in Processes, Step(p) PROVE IInv'
  BY <1>1, AcquireIInv, UnleasedIInv, FetchIInv, ReadIInv, CreateIInv, WriteIInv,
     SyncIInv, RenameIInv, SyncDirectoryIInv, ConfirmIInv, RefusedIInv DEF Step
<1>2. ASSUME NEW p \in Processes,
             Die(p) \/ \E k \in {"refresh", "check"} : Begin(p, k)
      PROVE  IInv'
  BY <1>2, DieIInv, AcquireIInv
<1> QED BY <1>1, <1>2, WorldIInv, PowerLossIInv DEF Next

LEMMA StutterIInv == ASSUME IInv, UNCHANGED vars PROVE IInv'
BY DEF vars, world, disk, IInv, TypeOK, Counted, Runners, LeaseInv, FilesInv, DatedInv,
       SuccessionInv, SuccessionOf

\* Whatever update.json may name is whole, synced and nobody's temporary file,
\* the lease is one process's, and dates follow the order of the leases.
THEOREM Invariant == Spec => []IInv
<1>1. IInv /\ [Next]_vars => IInv'
  BY NextIInv, StutterIInv
<1> QED BY <1>1, InitIInv, PTL DEF Spec

\* update.json names nothing or a whole record, and a refresh that was reported
\* as written, or a later one, is there after a loss of power.
THEOREM Durable == Spec => []CacheIsDurable
<1>1. IInv => CacheIsDurable
  <2> SUFFICES ASSUME IInv PROVE CacheIsDurable
    OBVIOUS
  <2>1. target \in onDisk /\ (target # None => target \in whole)
    BY DEF IInv, FilesInv
  <2>2. ASSUME reported # None, mishaps \subseteq {"power_lost"}
        PROVE  target # None /\ stamp[target] >= stamp[reported]
    <3>1. target # None /\ stamp[reported] <= stamp[target]
      BY <2>1, <2>2 DEF IInv, SuccessionInv
    <3>2. stamp[reported] \in Nat /\ stamp[target] \in Nat
      BY <2>2, <3>1, Bounds DEF IInv, TypeOK
    <3> QED BY <3>1, <3>2
  <2> QED BY <2>1, <2>2 DEF CacheIsDurable, IInv
<1> QED BY <1>1, Invariant, PTL

\* update.json goes from a record to one that is no older, while update.lock
\* stays and the clock is not set back, but for a loss of power.
THEOREM Forward == Spec => NeverOlder
<1> DEFINE Kept ==
      (/\ target # None /\ target' # None /\ mishaps' = mishaps
       /\ mishaps \subseteq {"power_lost"})
        => stamp[target'] >= stamp[target]
<1>1. IInv /\ [Next]_vars => [Kept]_vars
  <2> SUFFICES ASSUME IInv, Next, target # None, target' # None, mishaps' = mishaps,
                      mishaps \subseteq {"power_lost"}
               PROVE  stamp[target'] >= stamp[target]
    OBVIOUS
  <2>1. target \in Files /\ target \in onDisk /\ stamp[target] \in Nat
    BY Bounds DEF IInv, TypeOK, FilesInv
  <2>2. CASE target' = target
    BY <2>1, <2>2
  <2>3. ASSUME NEW p \in Processes, Rename(p) PROVE stamp[target'] >= stamp[target]
    <3>1. stamp[temp[p]] = checkedAt[p] /\ fd[p] # None
      BY <2>3 DEF Rename, IInv, SuccessionInv, SuccessionOf, LeaseInv, Owning
    <3>2. stamp[target] <= checkedAt[p] /\ checkedAt[p] \in Nat
      BY <2>1, <2>3, <3>1, Bounds
         DEF Rename, IInv, SuccessionInv, SuccessionOf, TypeOK
    <3> QED BY <2>1, <2>3, <3>1, <3>2 DEF Rename
  <2>4. CASE PowerLoss
    BY <2>4 DEF PowerLoss, Mishap
  <2>5. target' = target \/ PowerLoss \/ \E p \in Processes : Rename(p)
    BY DEF Next, Step, Die, Begin, Tick, SetBack, RemoveLock, OpenLock, TakeLease, Contended,
           Unavailable, Fetch, Answered, FetchFails, CreateTemporary, WriteTemporary,
           SyncTemporary, SyncDirectory, Confirm, Refused, WriteFails, Look, OpenCache,
           Fstat, Judge, ReadFails, NotFresh, disk
  <2> QED BY <2>2, <2>3, <2>4, <2>5
<1> QED BY <1>1, Invariant, PTL DEF Spec, NeverOlder

\* What a check returns was current within the TTL before it began.
THEOREM Recent == Spec => AnswerIsRecent
<1> DEFINE Dated ==
      \A p \in Processes :
        (pc[p] # "idle" /\ pc'[p] = "idle" /\ "set_back" \notin mishaps) =>
          \A at \in answer' : at + TTL >= asked[p]
<1>1. IInv /\ [Next]_vars => [Dated]_vars
  <2> SUFFICES ASSUME IInv, Next, NEW p \in Processes, pc[p] # "idle", pc'[p] = "idle",
                      "set_back" \notin mishaps, NEW at \in answer'
               PROVE  at + TTL >= asked[p]
    OBVIOUS
  <2>1. /\ asked[p] \in Nat /\ checkedAt[p] \in Nat /\ TTL \in Nat
        /\ pc[p] \in {"fetching", "create"} \cup Owning \cup Reading => asked[p] <= checkedAt[p]
    BY Bounds DEF IInv, TypeOK, DatedInv
  <2>2. ASSUME NEW q \in Processes, Step(q) PROVE q = p
    <3>1. q # p => pc'[p] = pc[p]
      BY <2>2 DEF IInv, TypeOK, Step, Goto, Return, OpenLock, TakeLease, Contended,
           Unavailable, Fetch, Answered, FetchFails, CreateTemporary, WriteTemporary,
           SyncTemporary, Rename, SyncDirectory, Confirm, Refused, WriteFails, Look,
           OpenCache, Fstat, Judge, ReadFails, NotFresh
    <3> QED BY <3>1
  <2>3. CASE Step(p)
    <3>1. pc \in [Processes -> Steps]
      BY DEF IInv, TypeOK
    <3>2. CASE Answered(p) \/ Refused(p) \/ Confirm(p)
      <4>1. at = checkedAt[p] /\ asked[p] <= checkedAt[p]
        BY <2>1, <3>1, <3>2 DEF Answered, Refused, WriteFails, Confirm, Return, Goto, Owning
      <4> QED BY <2>1, <4>1
    <3>3. CASE Judge(p)
      <4>1. Fresh(p) /\ at = stamp[seen[p]]
        <5>1. answer' = {} \/ (Fresh(p) /\ answer' = {stamp[seen[p]]})
          BY <3>3, Zenon DEF Judge, NotFresh, Return
        <5> QED BY <5>1
      <4>2. seen[p] \in whole /\ checkedAt[p] <= stamp[seen[p]] + TTL
        BY <4>1 DEF Fresh
      <4>3. whole \subseteq Files
        BY Bounds DEF IInv, TypeOK, Files
      <4>4. stamp[seen[p]] \in Nat
        <5>1. PICK f \in Files : f = seen[p]
          BY <4>2, <4>3
        <5>2. stamp[f] \in 0..MaxClock
          BY DEF IInv, TypeOK
        <5> QED BY <5>1, <5>2, Bounds
      <4>5. asked[p] <= checkedAt[p]
        BY <2>1, <3>3 DEF Judge, Reading
      <4> QED BY <2>1, <4>1, <4>2, <4>4, <4>5
    <3>4. Answered(p) \/ Refused(p) \/ Confirm(p) \/ Judge(p) \/ answer' = {}
      BY <2>3, <3>1 DEF Step, OpenLock, TakeLease, Contended, Unavailable, Fetch, FetchFails,
           CreateTemporary, WriteTemporary, SyncTemporary, Rename, SyncDirectory, Look,
           OpenCache, Fstat, ReadFails, NotFresh, Return, Goto
    <3> QED BY <3>2, <3>3, <3>4
  <2>4. CASE \E q \in Processes : Die(q)
    BY <2>4 DEF Die, Return
  <2>5. CASE PowerLoss
    BY <2>5 DEF PowerLoss
  <2>6. CASE Tick \/ SetBack \/ RemoveLock \/ \E q \in Processes, k \in {"refresh", "check"} : Begin(q, k)
    BY <2>6 DEF Tick, SetBack, RemoveLock, Begin, Goto, IInv, TypeOK
  <2> QED BY <2>2, <2>3, <2>4, <2>5, <2>6 DEF Next
<1> QED BY <1>1, Invariant, PTL DEF Spec, AnswerIsRecent
=============================================================================
