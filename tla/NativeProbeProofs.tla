-------------------------- MODULE NativeProbeProofs --------------------------
(***************************************************************************)
(* The guarded probe for any number of probers, writers, inodes, retries   *)
(* and interferences: its descriptors and locks, the lock order, and that  *)
(* coordinated writers and other probes never meet its thread lock; and    *)
(* that the probe and the writers implement WriterService.                 *)
(***************************************************************************)
EXTENDS NativeProbe, TLAPS

GuardOpen == {"flockGuard", "recheckGuard", "openThread", "flockThread",
              "recheckThread", "unlockThread", "closeThread", "finalCheck",
              "unlockGuard", "closeGuard"}
ThreadOpen == {"flockThread", "recheckThread", "unlockThread", "closeThread"}
GuardHeld == {"recheckGuard", "openThread"} \cup ThreadOpen

\* What a prober whose locals are r has open and locked.
Holds(p, r) ==
  /\ r.pc \in GuardOpen => r.gfd # NoInode
  /\ r.gfd # NoInode => r.pc \in GuardOpen \cup {"dying"}
  /\ r.pc \in ThreadOpen => r.tfd # NoInode
  /\ r.tfd # NoInode => r.pc \in ThreadOpen \cup {"dying"}
  /\ r.pc \in {"statGuard", "openGuard", "flockGuard", "recheckGuard", "openThread"}
       => r.seen # NoInode
  /\ \A g \in GuardInodes : guardOwner[g] = p => r.gfd = g
  /\ \A t \in ThreadInodes : threadOwner[t] = p => r.tfd = t /\ r.pc # "flockThread"
  /\ r.pc \in GuardHeld => guardOwner[r.gfd] = p

\* Unless the guard was replaced or lost, it is one inode, and whoever has the
\* thread file open has it.
KeepsGuard(p, r) ==
  ~bypassed =>
    /\ r.gfd # NoInode => r.gfd = Guard
    /\ r.tfd # NoInode => r.gfd # NoInode /\ guardOwner[r.gfd] = p

Coordinated == {"inside", "opened", "granted", "denied", "dropping", "closed"}

WriterGuarded(w) ==
  (~bypassed /\ writer[w].pc \in Coordinated) =>
    Guard # NoInode /\ guardOwner[Guard] = w

Probing == \A p \in Probers : Holds(p, probe[p]) /\ KeepsGuard(p, probe[p])
Writing ==
  \A w \in Writers :
    WriterGuarded(w) /\ (writer[w].pc = "opened" => writer[w].fd # NoInode)

IInv == TypeOK /\ Probing /\ Writing

LEMMA FreshProbe ==
  ASSUME NEW n \in 0..RetryTicks
  PROVE Fresh(n) \in Probe /\ [Fresh(n) EXCEPT !.pc = "idle"] \in Probe
<1> USE ProbeAssumption
<1>1. 0 \in 0..RetryTicks
  OBVIOUS
<1> QED BY <1>1 DEF Fresh, Probe, Inside, Outside

LEMMA InitIInv == Init => IInv
<1> SUFFICES ASSUME Init PROVE IInv
  OBVIOUS
<1> USE ProbeAssumption DEF Init
<1>1. TypeOK
  <2>1. guardOwner \in [GuardInodes -> Probers \cup Writers \cup {NoOne}]
    OBVIOUS
  <2>2. threadOwner \in [ThreadInodes -> Probers \cup Writers \cup {NoOne}]
    OBVIOUS
  <2>3. probe \in [Probers -> Probe]
    BY FreshProbe
  <2>4. writer \in [Writers -> Writer]
    BY DEF Writer
  <2>5. bypassed \in BOOLEAN /\ moved \in BOOLEAN
    BY Zenon
  <2>6. /\ parentAt \in Parents /\ guardSafe \subseteq GuardInodes
        /\ guardAt \in [Parents -> GuardInodes \cup {NoInode}]
        /\ threadAt \in [Parents -> ThreadInodes \cup {NoInode}]
        /\ tampers \in 0..TamperBound
    OBVIOUS
  <2> QED BY <2>1, <2>2, <2>3, <2>4, <2>5, <2>6 DEF TypeOK
<1>2. Probing
  <2> SUFFICES ASSUME NEW p \in Probers
               PROVE Holds(p, probe[p]) /\ KeepsGuard(p, probe[p])
    BY DEF Probing
  <2>1. /\ probe[p].pc = "idle" /\ probe[p].gfd = NoInode /\ probe[p].tfd = NoInode
    BY DEF Fresh
  <2>2. /\ \A g \in GuardInodes : guardOwner[g] # p
        /\ \A t \in ThreadInodes : threadOwner[t] # p
    OBVIOUS
  <2> QED BY <2>1, <2>2
          DEF Holds, KeepsGuard, GuardOpen, ThreadOpen, GuardHeld
<1>3. Writing
  BY DEF Writing, WriterGuarded, Coordinated
<1> QED BY <1>1, <1>2, <1>3 DEF IInv

\* A step of one prober that touches no lock but its own.
LEMMA ProberIInv ==
  ASSUME IInv, NEW p \in Probers, NEW rec \in Probe,
         probe' = [probe EXCEPT ![p] = rec],
         UNCHANGED <<paths, writer, moved, tampers>>,
         bypassed' \in BOOLEAN, bypassed => bypassed',
         guardOwner' \in [GuardInodes -> Probers \cup Writers \cup {NoOne}],
         threadOwner' \in [ThreadInodes -> Probers \cup Writers \cup {NoOne}],
         \A g \in GuardInodes :
           \/ guardOwner'[g] = guardOwner[g]
           \/ guardOwner[g] \in {p, NoOne} /\ guardOwner'[g] \in {p, NoOne},
         \A t \in ThreadInodes :
           \/ threadOwner'[t] = threadOwner[t]
           \/ threadOwner[t] \in {p, NoOne} /\ threadOwner'[t] \in {p, NoOne},
         Holds(p, rec)', KeepsGuard(p, rec)'
  PROVE IInv'
<1> USE ProbeAssumption DEF IInv
<1>1. TypeOK'
  BY DEF TypeOK, paths
<1>2. Guard' = Guard /\ Guard \in GuardInodes \cup {NoInode}
  BY DEF Guard, paths, TypeOK
<1>3. Probing'
  <2> SUFFICES ASSUME NEW q \in Probers
               PROVE Holds(q, probe[q])' /\ KeepsGuard(q, probe[q])'
    BY DEF Probing
  <2>1. CASE q = p
    <3>1. probe'[q] = rec
      BY <2>1 DEF TypeOK
    <3> QED BY <2>1, <3>1 DEF Holds, KeepsGuard
  <2>2. CASE q # p
    <3>1. probe'[q] = probe[q] /\ probe[q] \in Probe
      BY <2>2 DEF TypeOK
    <3>2. /\ probe[q].gfd \in GuardInodes \cup {NoInode}
          /\ Holds(q, probe[q]) /\ KeepsGuard(q, probe[q]) /\ q # NoOne
      BY <3>1 DEF Probe, Probing
    <3>3. /\ \A g \in GuardInodes : guardOwner'[g] = q <=> guardOwner[g] = q
          /\ \A t \in ThreadInodes : threadOwner'[t] = q <=> threadOwner[t] = q
      BY <2>2, <3>2
    <3>4. Holds(q, probe[q])'
      BY <3>1, <3>2, <3>3 DEF Holds, GuardHeld, GuardOpen, ThreadOpen
    <3>5. KeepsGuard(q, probe[q])'
      BY <1>2, <3>1, <3>2, <3>3 DEF KeepsGuard
    <3> QED BY <3>4, <3>5
  <2> QED BY <2>1, <2>2
<1>4. Writing'
  <2> SUFFICES ASSUME NEW w \in Writers, ~bypassed', writer[w].pc \in Coordinated
               PROVE Guard # NoInode /\ guardOwner'[Guard] = w
    BY <1>2 DEF Writing, WriterGuarded
  <2>1. Guard # NoInode /\ guardOwner[Guard] = w /\ w \notin {p, NoOne}
    BY DEF Writing, WriterGuarded
  <2> QED BY <1>2, <2>1
<1> QED BY <1>1, <1>3, <1>4

\* A step that changes the prober's locals alone.
LEMMA LocalIInv ==
  ASSUME IInv, NEW p \in Probers, NEW rec \in Probe, Local(p, rec),
         Holds(p, rec), KeepsGuard(p, rec)
  PROVE IInv'
<1>1. /\ UNCHANGED <<paths, guardOwner, threadOwner, writer, bypassed, moved, tampers>>
      /\ probe' = [probe EXCEPT ![p] = rec]
  BY DEF Local, history
<1>2. Holds(p, rec)' /\ KeepsGuard(p, rec)'
  BY <1>1 DEF Holds, KeepsGuard, Guard, paths
<1>3. /\ bypassed' \in BOOLEAN
      /\ guardOwner' \in [GuardInodes -> Probers \cup Writers \cup {NoOne}]
      /\ threadOwner' \in [ThreadInodes -> Probers \cup Writers \cup {NoOne}]
  BY <1>1 DEF IInv, TypeOK
<1> QED BY <1>1, <1>2, <1>3, ProberIInv

\* The locals of a prober and what they say of it.
LEMMA Own ==
  ASSUME IInv, NEW p \in Probers
  PROVE /\ probe[p] \in Probe /\ Holds(p, probe[p]) /\ KeepsGuard(p, probe[p])
        /\ Guard \in GuardInodes \cup {NoInode}
        /\ Thread \in ThreadInodes \cup {NoInode}
        /\ p # NoOne
  BY ProbeAssumption DEF IInv, TypeOK, Probing, Guard, Thread

\* The attempt's result is well-typed.
WithResult(r, stage, verdict, guard) ==
  [r EXCEPT !.pc = stage, !.verdict = verdict, !.guard = guard]

LEMMA ResultType ==
  ASSUME NEW r \in Probe, NEW stage \in Inside,
         NEW verdict \in {"none", "free", "held", "unknown"},
         NEW guard \in {"none", "acquired", "busy", "changed", "absent", "unsafe"}
  PROVE WithResult(r, stage, verdict, guard) \in Probe
<1> DEFINE s == [r EXCEPT !.pc = stage, !.verdict = verdict]
<1>1. s \in Probe
  BY DEF Probe
<1>2. WithResult(r, stage, verdict, guard) = [s EXCEPT !.guard = guard]
  BY DEF WithResult
<1> HIDE DEF s
<1>3. [s EXCEPT !.guard = guard] \in Probe
  BY <1>1 DEF Probe
<1> QED BY <1>2, <1>3

\* Before the guard is open: nothing is held, whatever the step finds.
LEMMA UnguardedIInv ==
  ASSUME IInv, NEW p \in Probers,
         \/ Begin(p) \/ Observe(p) \/ ObserveFails(p) \/ StatGuard(p)
         \/ Decide(p) \/ Wake(p) \/ Elapse(p)
  PROVE IInv'
<1> USE ProbeAssumption
<1> DEFINE r == probe[p]
<1>1. /\ r \in Probe /\ Holds(p, r) /\ KeepsGuard(p, r)
      /\ Thread \in ThreadInodes \cup {NoInode}
      /\ Guard \in GuardInodes \cup {NoInode} /\ parentAt \in Parents
  BY Own DEF IInv, TypeOK
<1>2. r.pc \in Outside \cup {"observe", "statGuard", "decide"}
  BY DEF Begin, Observe, ObserveFails, StatGuard, Decide, Wake, Elapse, At, Outside
<1>3. /\ r.gfd = NoInode /\ r.tfd = NoInode
      /\ \A g \in GuardInodes : guardOwner[g] # p
      /\ \A t \in ThreadInodes : threadOwner[t] # p
  BY <1>1, <1>2 DEF Holds, GuardOpen, ThreadOpen, Outside
<1>4. ASSUME NEW rec \in Probe, rec.gfd = NoInode, rec.tfd = NoInode,
             rec.pc \in Outside \cup {"observe", "statGuard", "openGuard", "decide"},
             rec.pc \in {"statGuard", "openGuard"} => rec.seen # NoInode,
             Local(p, rec)
      PROVE IInv'
  <2>1. Holds(p, rec) /\ KeepsGuard(p, rec)
    BY <1>3, <1>4 DEF Holds, KeepsGuard, GuardOpen, ThreadOpen, GuardHeld, Outside
  <2> QED BY <1>4, <2>1, LocalIInv
<1>5. CASE Begin(p)
  <2>1. 0 \in 0..RetryTicks
    OBVIOUS
  <2>2. Fresh(0) \in Probe
    BY <2>1, FreshProbe
  <2> QED BY <1>4, <1>5, <2>2 DEF Begin, Fresh
<1>6. ASSUME NEW verdict \in {"free", "unknown"},
             NEW guard \in {"none", "unsafe", "absent"},
             Result(p, verdict, guard, "decide")
      PROVE IInv'
  <2> DEFINE rec == WithResult(r, "decide", verdict, guard)
  <2>1. /\ "decide" \in Inside /\ verdict \in {"none", "free", "held", "unknown"}
        /\ guard \in {"none", "acquired", "busy", "changed", "absent", "unsafe"}
    BY DEF Inside
  <2>2. Local(p, rec)
    BY <1>6 DEF Result, WithResult
  <2>3. rec \in Probe
    BY <1>1, <2>1, ResultType
  <2>4. rec.pc = "decide" /\ rec.gfd = r.gfd /\ rec.tfd = r.tfd
    BY <1>1 DEF Probe, WithResult
  <2> HIDE DEF rec
  <2> QED BY <1>3, <1>4, <2>2, <2>3, <2>4
<1>7. CASE Observe(p) \/ ObserveFails(p)
  <2> DEFINE rec == [r EXCEPT !.pc = "statGuard", !.seen = Thread]
  <2>1. CASE Thread \in ThreadInodes /\ Local(p, rec)
    <3>1. /\ rec \in Probe /\ rec.gfd = NoInode /\ rec.tfd = NoInode
          /\ rec.pc = "statGuard" /\ rec.seen # NoInode
      BY <1>1, <1>3, <2>1 DEF Probe, Inside
    <3> HIDE DEF rec
    <3> QED BY <1>4, <2>1, <3>1
  <2> QED BY <1>6, <1>7, <2>1 DEF Observe, ObserveFails, Result, Local
<1>8. CASE StatGuard(p)
  <2> DEFINE rec == [r EXCEPT !.pc = "openGuard", !.before = Guard, !.parent = parentAt]
  <2>1. CASE Local(p, rec)
    <3>1. r.seen # NoInode
      BY <1>1, <1>8 DEF StatGuard, At, Holds
    <3>2. /\ rec \in Probe /\ rec.gfd = NoInode /\ rec.tfd = NoInode
          /\ rec.pc = "openGuard" /\ rec.seen # NoInode
      BY <1>1, <1>3, <3>1 DEF Probe, Inside
    <3> HIDE DEF rec
    <3> QED BY <1>4, <2>1, <3>2
  <2> QED BY <1>6, <1>8, <2>1 DEF StatGuard, Result, Local
<1>9. ASSUME NEW stage \in {"done", "asleep"}, NEW slept \in 0..RetryTicks,
             Local(p, [r EXCEPT !.pc = stage, !.slept = slept])
      PROVE IInv'
  <2> DEFINE rec == [r EXCEPT !.pc = stage, !.slept = slept]
  <2>1. rec \in Probe /\ rec.gfd = NoInode /\ rec.tfd = NoInode /\ rec.pc \in Outside
    BY <1>1, <1>3 DEF Probe, Outside
  <2>2. Local(p, rec)
    BY <1>9
  <2> HIDE DEF rec
  <2> QED BY <1>4, <2>1, <2>2 DEF Outside
<1>10. CASE Decide(p)
  <2>1. r.spent \in 0..RetryTicks /\ r.slept \in 0..RetryTicks
    BY <1>1 DEF Probe
  <2>2. [r EXCEPT !.pc = "done"] = [r EXCEPT !.pc = "done", !.slept = r.slept]
    BY <1>1 DEF Probe
  <2> QED BY <1>9, <1>10, <2>1, <2>2 DEF Decide, Advance
<1>11. CASE Wake(p)
  <2>1. Local(p, Fresh(r.spent)) /\ r.spent \in 0..RetryTicks
    BY <1>1, <1>11 DEF Wake, Probe
  <2>2. Fresh(r.spent) \in Probe
    BY <2>1, FreshProbe
  <2> QED BY <1>4, <2>1, <2>2 DEF Fresh
<1>12. CASE Elapse(p)
  <2>1. /\ Local(p, [r EXCEPT !.spent = @ + 1])
        /\ r.pc \in {"asleep", "decide"} /\ r.spent < RetryTicks
    BY <1>12 DEF Elapse
  <2>2. r.spent + 1 \in 0..RetryTicks
    BY <1>1, <2>1 DEF Probe
  <2>3. [r EXCEPT !.spent = @ + 1] \in Probe
    BY <1>1, <2>2 DEF Probe
  <2> QED BY <1>1, <1>3, <1>4, <2>1, <2>3 DEF Probe, Outside
<1> QED BY <1>5, <1>7, <1>8, <1>10, <1>11, <1>12

\* The attempt ends with a result and goes on to `stage`, where it has less
\* to give back, or as much.
LEMMA ResultIInv ==
  ASSUME IInv, NEW p \in Probers, NEW stage \in Inside,
         NEW verdict \in {"none", "free", "held", "unknown"},
         NEW guard \in {"none", "acquired", "busy", "changed", "absent", "unsafe"},
         Result(p, verdict, guard, stage),
         \/ /\ probe[p].pc \in GuardOpen \ ThreadOpen
            /\ stage \in {"finalCheck", "unlockGuard", "closeGuard"}
         \/ /\ probe[p].pc \in ThreadOpen
            /\ stage \in {"recheckThread", "unlockThread", "closeThread"}
         \/ /\ probe[p].pc = "openGuard" /\ stage = "decide"
  PROVE IInv'
<1> DEFINE r == probe[p]
           rec == WithResult(r, stage, verdict, guard)
<1>1. r \in Probe /\ Holds(p, r) /\ KeepsGuard(p, r)
  BY Own
<1>2. Local(p, rec)
  BY DEF Result, WithResult
<1>3. /\ rec \in Probe /\ rec.pc = stage
      /\ rec.gfd = r.gfd /\ rec.tfd = r.tfd /\ rec.seen = r.seen
  <2>1. rec \in Probe
    BY <1>1, ResultType
  <2> QED BY <1>1, <2>1 DEF Probe, WithResult
<1> HIDE DEF rec
<1>4. Holds(p, rec)
  BY <1>1, <1>3 DEF Holds, GuardOpen, ThreadOpen, GuardHeld
<1>5. KeepsGuard(p, rec)
  BY <1>1, <1>3 DEF KeepsGuard
<1> QED BY <1>1, <1>2, <1>3, <1>4, <1>5, LocalIInv

\* The attempt goes on with what it has.
LEMMA AdvanceIInv ==
  ASSUME IInv, NEW p \in Probers, NEW stage \in Inside \cup Outside \cup {"dying"},
         Advance(p, stage),
         \/ probe[p].pc = "recheckThread" /\ stage = "unlockThread"
         \/ probe[p].pc = "finalCheck" /\ stage = "unlockGuard"
         \/ stage = "dying"
         \/ stage = "dead" /\ probe[p].gfd = NoInode /\ probe[p].tfd = NoInode
  PROVE IInv'
<1> USE ProbeAssumption
<1> DEFINE r == probe[p]
           rec == [r EXCEPT !.pc = stage]
<1>1. r \in Probe /\ Holds(p, r) /\ KeepsGuard(p, r)
  BY Own
<1>2. /\ rec \in Probe /\ rec.pc = stage
      /\ rec.gfd = r.gfd /\ rec.tfd = r.tfd /\ rec.seen = r.seen
  BY <1>1 DEF Probe
<1>3. Local(p, rec)
  BY DEF Advance
<1> HIDE DEF rec
<1>4. Holds(p, rec)
  BY <1>1, <1>2 DEF Holds, GuardOpen, ThreadOpen, GuardHeld
<1>5. KeepsGuard(p, rec)
  BY <1>1, <1>2 DEF KeepsGuard
<1> QED BY <1>1, <1>2, <1>3, <1>4, <1>5, LocalIInv

\* Up to the thread file: the guard is opened, locked and looked at again.
LEMMA OpenGuardIInv ==
  ASSUME IInv, NEW p \in Probers, OpenGuard(p) PROVE IInv'
<1> DEFINE r == probe[p]
<1>1. /\ r \in Probe /\ Holds(p, r) /\ KeepsGuard(p, r)
      /\ Guard \in GuardInodes \cup {NoInode} /\ r.pc = "openGuard"
  BY Own DEF OpenGuard, At
<1>2. /\ r.gfd = NoInode /\ r.tfd = NoInode /\ r.seen # NoInode
      /\ \A g \in GuardInodes : guardOwner[g] # p
      /\ \A t \in ThreadInodes : threadOwner[t] # p
  BY <1>1, ProbeAssumption DEF Holds, GuardOpen, ThreadOpen
<1>3. CASE Result(p, "unknown", "unsafe", "decide")
  BY <1>1, <1>3, ResultIInv DEF Inside
<1>4. ASSUME NEW rec \in Probe, Local(p, rec), Guard # NoInode,
             rec.gfd = Guard, rec.tfd = NoInode, rec.seen = r.seen,
             rec.pc \in {"flockGuard", "closeGuard"}
      PROVE IInv'
  <2>1. Holds(p, rec)
    BY <1>2, <1>4 DEF Holds, GuardOpen, ThreadOpen, GuardHeld
  <2>2. KeepsGuard(p, rec)
    BY <1>4 DEF KeepsGuard
  <2> QED BY <1>4, <2>1, <2>2, LocalIInv
<1>5. CASE Guard # NoInode /\ Local(p, [r EXCEPT !.pc = "flockGuard", !.gfd = Guard])
  <2> DEFINE rec == [r EXCEPT !.pc = "flockGuard", !.gfd = Guard]
  <2>1. rec \in Probe
    BY <1>1 DEF Probe, Inside
  <2>2. /\ rec.gfd = Guard /\ rec.tfd = NoInode /\ rec.seen = r.seen
        /\ rec.pc = "flockGuard"
    BY <1>1, <1>2 DEF Probe
  <2> HIDE DEF rec
  <2> QED BY <1>4, <1>5, <2>1, <2>2 DEF rec
<1>6. CASE /\ Guard # NoInode
           /\ Local(p, [r EXCEPT !.pc = "closeGuard", !.gfd = Guard,
                                 !.verdict = "unknown", !.guard = "changed"])
  <2> DEFINE s == [r EXCEPT !.pc = "closeGuard", !.gfd = Guard]
             rec == [r EXCEPT !.pc = "closeGuard", !.gfd = Guard,
                              !.verdict = "unknown", !.guard = "changed"]
  <2>1. s \in Probe
    BY <1>1 DEF Probe, Inside
  <2>2. rec = [s EXCEPT !.verdict = "unknown", !.guard = "changed"]
    OBVIOUS
  <2>3. /\ rec.gfd = Guard /\ rec.tfd = NoInode /\ rec.seen = r.seen
        /\ rec.pc = "closeGuard"
    BY <1>1, <1>2 DEF Probe
  <2> HIDE DEF s
  <2>4. [s EXCEPT !.verdict = "unknown", !.guard = "changed"] \in Probe
    BY <2>1 DEF Probe
  <2>5. rec \in Probe
    BY <2>2, <2>4
  <2> HIDE DEF rec
  <2> QED BY <1>4, <1>6, <2>3, <2>5 DEF rec
<1> QED BY <1>3, <1>5, <1>6 DEF OpenGuard, SafeGuard

LEMMA LockGuardIInv ==
  ASSUME IInv, NEW p \in Probers, LockGuard(p) PROVE IInv'
<1> USE ProbeAssumption
<1> DEFINE r == probe[p]
<1> PICK rec : rec = [r EXCEPT !.pc = "recheckGuard"]
  OBVIOUS
<1>1. /\ r \in Probe /\ Holds(p, r) /\ KeepsGuard(p, r)
      /\ r.pc = "flockGuard" /\ p # NoOne
  BY Own DEF LockGuard, At
<1>2. CASE Result(p, "unknown", "busy", "finalCheck")
  BY <1>1, <1>2, ResultIInv DEF Inside, GuardOpen, ThreadOpen
<1>3. CASE /\ guardOwner[r.gfd] = NoOne
           /\ guardOwner' = [guardOwner EXCEPT ![r.gfd] = p]
           /\ probe' = [probe EXCEPT ![p].pc = "recheckGuard"]
           /\ UNCHANGED <<paths, threadOwner, writer, history>>
  <2>1. /\ r.gfd \in GuardInodes /\ r.tfd = NoInode /\ r.seen # NoInode
        /\ \A g \in GuardInodes : guardOwner[g] # p
        /\ \A t \in ThreadInodes : threadOwner[t] # p
    BY <1>1, <1>3 DEF Holds, GuardOpen, ThreadOpen, Probe
  <2>2. /\ rec \in Probe /\ rec.pc = "recheckGuard"
        /\ rec.gfd = r.gfd /\ rec.tfd = r.tfd /\ rec.seen = r.seen
    BY <1>1 DEF Probe, Inside
  <2>3. probe' = [probe EXCEPT ![p] = rec]
    BY <1>3 DEF IInv, TypeOK
  <2>4. /\ guardOwner' \in [GuardInodes -> Probers \cup Writers \cup {NoOne}]
        /\ guardOwner'[r.gfd] = p
        /\ \A g \in GuardInodes : g # r.gfd => guardOwner'[g] = guardOwner[g]
    BY <1>3, <2>1 DEF IInv, TypeOK
  <2>5. /\ threadOwner' \in [ThreadInodes -> Probers \cup Writers \cup {NoOne}]
        /\ threadOwner' = threadOwner
        /\ UNCHANGED <<paths, writer, moved, tampers, bypassed>>
        /\ bypassed' \in BOOLEAN
    BY <1>3 DEF IInv, TypeOK, history
  <2>6. Holds(p, rec)'
    BY <2>1, <2>2, <2>4, <2>5 DEF Holds, GuardOpen, ThreadOpen, GuardHeld
  <2>7. KeepsGuard(p, rec)'
    BY <1>1, <2>1, <2>2, <2>5 DEF KeepsGuard, Guard, paths
  <2> QED BY <1>3, <2>2, <2>3, <2>4, <2>5, <2>6, <2>7, ProberIInv
<1> QED BY <1>2, <1>3 DEF LockGuard

LEMMA OpenThreadIInv ==
  ASSUME IInv, NEW p \in Probers, RecheckGuard(p) \/ OpenThread(p) PROVE IInv'
<1> DEFINE r == probe[p]
<1>1. /\ r \in Probe /\ Holds(p, r) /\ KeepsGuard(p, r)
      /\ Thread \in ThreadInodes \cup {NoInode}
      /\ r.pc \in {"recheckGuard", "openThread"}
  BY Own DEF RecheckGuard, OpenThread, At
<1>2. ASSUME NEW verdict \in {"none", "free", "held", "unknown"},
             NEW guard \in {"acquired", "changed", "unsafe"},
             NEW stage \in {"finalCheck", "unlockGuard"},
             Result(p, verdict, guard, stage)
      PROVE IInv'
  <2>1. stage \in Inside /\ r.pc \in GuardOpen \ ThreadOpen
    BY <1>1 DEF Inside, GuardOpen, ThreadOpen
  <2> QED BY <1>2, <2>1, ResultIInv
<1>3. CASE /\ r.pc = "recheckGuard"
           /\ Local(p, [r EXCEPT !.pc = "openThread", !.guard = "acquired"])
  <2> PICK rec : rec = [r EXCEPT !.pc = "openThread", !.guard = "acquired"]
    OBVIOUS
  <2>1. /\ rec \in Probe /\ rec.pc = "openThread"
        /\ rec.gfd = r.gfd /\ rec.tfd = r.tfd /\ rec.seen = r.seen
    BY <1>1 DEF Probe, Inside
  <2>2. Holds(p, rec) /\ KeepsGuard(p, rec)
    BY <1>1, <1>3, <2>1 DEF Holds, KeepsGuard, GuardOpen, ThreadOpen, GuardHeld
  <2> QED BY <1>3, <2>1, <2>2, LocalIInv
<1>4. CASE /\ r.pc = "openThread" /\ Thread = r.seen
           /\ Local(p, [r EXCEPT !.pc = "flockThread", !.tfd = Thread])
  <2> PICK rec : rec = [r EXCEPT !.pc = "flockThread", !.tfd = Thread]
    OBVIOUS
  <2>1. /\ rec \in Probe /\ rec.pc = "flockThread"
        /\ rec.gfd = r.gfd /\ rec.tfd = r.seen /\ rec.seen = r.seen
    BY <1>1, <1>4 DEF Probe, Inside
  <2>2. /\ r.seen # NoInode /\ r.tfd = NoInode /\ r.gfd # NoInode
        /\ guardOwner[r.gfd] = p
        /\ \A t \in ThreadInodes : threadOwner[t] # p
    BY <1>1, <1>4, ProbeAssumption DEF Holds, GuardOpen, ThreadOpen, GuardHeld
  <2>3. Holds(p, rec)
    BY <1>1, <2>1, <2>2 DEF Holds, GuardOpen, ThreadOpen, GuardHeld
  <2>4. KeepsGuard(p, rec)
    BY <1>1, <2>1, <2>2 DEF KeepsGuard
  <2> QED BY <1>4, <2>1, <2>3, <2>4, LocalIInv
<1>5. CASE RecheckGuard(p)
  BY <1>2, <1>3, <1>5 DEF RecheckGuard, At, Result, Local
<1>6. CASE OpenThread(p)
  BY <1>2, <1>4, <1>6 DEF OpenThread, At, Result, Local
<1> QED BY <1>5, <1>6

\* The thread lock is tried, by a prober that has the guard.
LEMMA LockThreadIInv ==
  ASSUME IInv, NEW p \in Probers, LockThread(p) PROVE IInv'
<1> USE ProbeAssumption
<1> DEFINE r == probe[p]
<1> PICK rec : rec = [r EXCEPT !.pc = "recheckThread", !.verdict = FlockVerdict(r.tfd)]
  OBVIOUS
<1>1. /\ r \in Probe /\ Holds(p, r) /\ KeepsGuard(p, r)
      /\ r.pc = "flockThread" /\ p # NoOne
  BY Own DEF LockThread, At
<1>2. /\ r.tfd \in ThreadInodes /\ r.gfd # NoInode /\ guardOwner[r.gfd] = p
      /\ \A t \in ThreadInodes : threadOwner[t] # p
  BY <1>1 DEF Holds, GuardOpen, ThreadOpen, GuardHeld, Probe
<1>3. FlockVerdict(r.tfd) \in {"none", "free", "held", "unknown"}
  BY DEF FlockVerdict
<1>4. /\ rec \in Probe /\ rec.pc = "recheckThread"
      /\ rec.gfd = r.gfd /\ rec.tfd = r.tfd /\ rec.seen = r.seen
  BY <1>1, <1>3 DEF Probe, Inside
<1>5. probe' = [probe EXCEPT ![p] = rec]
  BY DEF LockThread, IInv, TypeOK
<1>6. /\ threadOwner' \in [ThreadInodes -> Probers \cup Writers \cup {NoOne}]
      /\ \A t \in ThreadInodes :
           \/ threadOwner'[t] = threadOwner[t]
           \/ t = r.tfd /\ threadOwner[t] = NoOne /\ threadOwner'[t] = p
  BY <1>2 DEF LockThread, IInv, TypeOK
<1>7. /\ guardOwner' \in [GuardInodes -> Probers \cup Writers \cup {NoOne}]
      /\ guardOwner' = guardOwner
      /\ UNCHANGED <<paths, writer, moved, tampers, bypassed>>
      /\ bypassed' \in BOOLEAN
  BY DEF LockThread, IInv, TypeOK, history
<1>8. Holds(p, rec)'
  BY <1>1, <1>2, <1>4, <1>6, <1>7 DEF Holds, GuardOpen, ThreadOpen, GuardHeld
<1>9. KeepsGuard(p, rec)'
  BY <1>1, <1>4, <1>7 DEF KeepsGuard, Guard, paths
<1> QED BY <1>4, <1>5, <1>6, <1>7, <1>8, <1>9, ProberIInv

\* The prober gives the thread file back: its lock, then its descriptor.
LEMMA ReleaseThreadIInv ==
  ASSUME IInv, NEW p \in Probers, NEW rec \in Probe,
         probe' = [probe EXCEPT ![p] = rec],
         threadOwner' = Without(threadOwner, p),
         UNCHANGED <<paths, guardOwner, writer, history>>,
         rec.gfd = probe[p].gfd,
         \/ /\ probe[p].pc = "unlockThread" /\ rec.pc = "closeThread"
            /\ rec.tfd = probe[p].tfd
         \/ /\ probe[p].pc = "closeThread" /\ rec.pc = "finalCheck"
            /\ rec.tfd = NoInode
         \/ /\ probe[p].pc = "dying" /\ rec.pc = "dying" /\ rec.tfd = NoInode
  PROVE IInv'
<1> USE ProbeAssumption
<1>1. /\ probe[p] \in Probe /\ Holds(p, probe[p]) /\ KeepsGuard(p, probe[p]) /\ p # NoOne
  BY Own
<1>2. /\ threadOwner' \in [ThreadInodes -> Probers \cup Writers \cup {NoOne}]
      /\ \A t \in ThreadInodes :
           IF threadOwner[t] = p THEN threadOwner'[t] = NoOne
           ELSE threadOwner'[t] = threadOwner[t]
  BY DEF Without, IInv, TypeOK
<1>3. /\ guardOwner' \in [GuardInodes -> Probers \cup Writers \cup {NoOne}]
      /\ guardOwner' = guardOwner
      /\ UNCHANGED <<paths, writer, moved, tampers, bypassed>>
      /\ bypassed' \in BOOLEAN
  BY DEF IInv, TypeOK, history
<1>4. Holds(p, rec)'
  BY <1>1, <1>2, <1>3 DEF Holds, GuardOpen, ThreadOpen, GuardHeld
<1>5. KeepsGuard(p, rec)'
  BY <1>1, <1>3 DEF KeepsGuard, Guard, paths
<1> QED BY <1>2, <1>3, <1>4, <1>5, ProberIInv

\* Likewise the guard; a prober that dies may lose it before the thread file.
LEMMA ReleaseGuardIInv ==
  ASSUME IInv, NEW p \in Probers, NEW rec \in Probe,
         probe' = [probe EXCEPT ![p] = rec],
         guardOwner' = Without(guardOwner, p),
         UNCHANGED <<paths, threadOwner, writer, moved, tampers>>,
         rec.tfd = probe[p].tfd,
         \/ /\ probe[p].pc = "unlockGuard" /\ rec.pc = "closeGuard"
            /\ rec.gfd = probe[p].gfd /\ UNCHANGED bypassed
         \/ /\ probe[p].pc = "closeGuard" /\ rec.pc = "decide"
            /\ rec.gfd = NoInode /\ UNCHANGED bypassed
         \/ /\ probe[p].pc = "dying" /\ rec.pc = "dying" /\ rec.gfd = NoInode
            /\ bypassed' = (bypassed \/ probe[p].tfd # NoInode)
  PROVE IInv'
<1> USE ProbeAssumption
<1>1. /\ probe[p] \in Probe /\ Holds(p, probe[p]) /\ KeepsGuard(p, probe[p]) /\ p # NoOne
  BY Own
<1>2. /\ guardOwner' \in [GuardInodes -> Probers \cup Writers \cup {NoOne}]
      /\ \A g \in GuardInodes :
           IF guardOwner[g] = p THEN guardOwner'[g] = NoOne
           ELSE guardOwner'[g] = guardOwner[g]
  BY DEF Without, IInv, TypeOK
<1>3. /\ threadOwner' \in [ThreadInodes -> Probers \cup Writers \cup {NoOne}]
      /\ threadOwner' = threadOwner
  BY DEF IInv, TypeOK
<1>4. bypassed' \in BOOLEAN /\ (bypassed => bypassed')
  BY Zenon DEF IInv, TypeOK
<1>5. rec.tfd # NoInode => bypassed'
  <2>1. CASE probe[p].pc = "dying"
    BY <1>1, <2>1
  <2>2. CASE probe[p].pc # "dying"
    BY <1>1, <2>2 DEF Holds, ThreadOpen
  <2> QED BY <2>1, <2>2
<1>6. Holds(p, rec)'
  BY <1>1, <1>2, <1>3 DEF Holds, GuardOpen, ThreadOpen, GuardHeld
<1>7. KeepsGuard(p, rec)'
  BY <1>1, <1>4, <1>5 DEF KeepsGuard, Guard, paths
<1> QED BY <1>2, <1>3, <1>4, <1>6, <1>7, ProberIInv

\* The steps that only record a result or go on.
LEMMA CleanupIInv ==
  ASSUME IInv, NEW p \in Probers,
         \/ LockGuardFails(p) \/ LockThreadFails(p) \/ RecheckThread(p)
         \/ FinalCheck(p) \/ Die(p) \/ Dead(p)
  PROVE IInv'
<1>1. ASSUME NEW guard \in {"acquired", "changed", "unsafe"},
             NEW stage \in {"recheckThread", "unlockThread", "unlockGuard", "closeGuard"},
             Result(p, "unknown", guard, stage),
             \/ /\ probe[p].pc \in GuardOpen \ ThreadOpen
                /\ stage \in {"finalCheck", "unlockGuard", "closeGuard"}
             \/ /\ probe[p].pc \in ThreadOpen
                /\ stage \in {"recheckThread", "unlockThread", "closeThread"}
      PROVE IInv'
  <2>1. stage \in Inside
    BY DEF Inside
  <2> QED BY <1>1, <2>1, ResultIInv
<1>2. CASE LockGuardFails(p)
  BY <1>1, <1>2 DEF LockGuardFails, At, GuardOpen, ThreadOpen, Result, Local
<1>3. CASE LockThreadFails(p)
  BY <1>1, <1>3 DEF LockThreadFails, At, ThreadOpen, Result, Local
<1>4. CASE RecheckThread(p)
  <2>1. CASE Advance(p, "unlockThread")
    BY <1>4, <2>1, AdvanceIInv DEF RecheckThread, At, Inside
  <2> QED BY <1>1, <1>4, <2>1 DEF RecheckThread, At, ThreadOpen, Result, Local
<1>5. CASE FinalCheck(p)
  <2>1. CASE Advance(p, "unlockGuard")
    BY <1>5, <2>1, AdvanceIInv DEF FinalCheck, At, Inside
  <2> QED BY <1>1, <1>5, <2>1
             DEF FinalCheck, At, GuardOpen, ThreadOpen, Result, Local
<1>6. CASE Die(p)
  BY <1>6, AdvanceIInv DEF Die
<1>7. CASE Dead(p)
  BY <1>7, AdvanceIInv DEF Dead, Outside
<1> QED BY <1>2, <1>3, <1>4, <1>5, <1>6, <1>7

\* The steps that give a lock or a descriptor back.
LEMMA ReleaseIInv ==
  ASSUME IInv, NEW p \in Probers,
         \/ UnlockThread(p) \/ CloseThread(p) \/ DyingClosesThread(p)
         \/ UnlockGuard(p) \/ CloseGuard(p) \/ DyingClosesGuard(p)
  PROVE IInv'
<1> DEFINE r == probe[p]
<1>1. r \in Probe /\ probe \in [Probers -> Probe]
  BY Own DEF IInv, TypeOK
<1>2. CASE UnlockThread(p)
  <2>1. CASE Result(p, "unknown", "acquired", "closeThread")
    BY <1>2, <2>1, ResultIInv DEF UnlockThread, At, ThreadOpen, Inside
  <2>2. CASE /\ threadOwner' = Without(threadOwner, p)
             /\ probe' = [probe EXCEPT ![p].pc = "closeThread"]
             /\ UNCHANGED <<paths, guardOwner, writer, history>>
    <3> PICK rec : rec = [r EXCEPT !.pc = "closeThread"]
      OBVIOUS
    <3>1. /\ rec \in Probe /\ rec.pc = "closeThread"
          /\ rec.gfd = r.gfd /\ rec.tfd = r.tfd
      BY <1>1 DEF Probe, Inside
    <3>2. probe' = [probe EXCEPT ![p] = rec] /\ r.pc = "unlockThread"
      BY <1>1, <1>2, <2>2 DEF UnlockThread, At
    <3> QED BY <2>2, <3>1, <3>2, ReleaseThreadIInv
  <2> QED BY <1>2, <2>1, <2>2 DEF UnlockThread
<1>3. CASE CloseThread(p)
  <2> PICK verdict \in {r.verdict, "unknown"} :
        probe' = [probe EXCEPT ![p].pc = "finalCheck", ![p].tfd = NoInode,
                               ![p].verdict = verdict]
    BY <1>3 DEF CloseThread
  <2> PICK rec : rec = [r EXCEPT !.pc = "finalCheck", !.tfd = NoInode, !.verdict = verdict]
    OBVIOUS
  <2>1. rec \in Probe
    <3> DEFINE s == [r EXCEPT !.pc = "finalCheck", !.tfd = NoInode]
    <3>1. s \in Probe
      BY <1>1 DEF Probe, Inside
    <3>2. rec = [s EXCEPT !.verdict = verdict]
      OBVIOUS
    <3>3. verdict \in {"none", "free", "held", "unknown"}
      BY <1>1 DEF Probe
    <3> HIDE DEF s
    <3> QED BY <3>1, <3>2, <3>3 DEF Probe
  <2>2. rec.pc = "finalCheck" /\ rec.gfd = r.gfd /\ rec.tfd = NoInode
    BY <1>1 DEF Probe
  <2>3. probe' = [probe EXCEPT ![p] = rec] /\ r.pc = "closeThread"
    BY <1>1, <1>3 DEF CloseThread, At
  <2> QED BY <1>3, <2>1, <2>2, <2>3, ReleaseThreadIInv DEF CloseThread
<1>4. CASE DyingClosesThread(p)
  <2> PICK rec : rec = [r EXCEPT !.tfd = NoInode]
    OBVIOUS
  <2>1. /\ rec \in Probe /\ rec.pc = r.pc /\ rec.gfd = r.gfd /\ rec.tfd = NoInode
    BY <1>1 DEF Probe
  <2>2. probe' = [probe EXCEPT ![p] = rec] /\ r.pc = "dying"
    BY <1>1, <1>4 DEF DyingClosesThread, At
  <2> QED BY <1>4, <2>1, <2>2, ReleaseThreadIInv DEF DyingClosesThread
<1>5. CASE UnlockGuard(p)
  <2>1. CASE Result(p, "unknown", "unsafe", "closeGuard")
    BY <1>5, <2>1, ResultIInv DEF UnlockGuard, At, GuardOpen, ThreadOpen, Inside
  <2>2. CASE /\ guardOwner' = Without(guardOwner, p)
             /\ probe' = [probe EXCEPT ![p].pc = "closeGuard"]
             /\ UNCHANGED <<paths, threadOwner, writer, history>>
    <3> PICK rec : rec = [r EXCEPT !.pc = "closeGuard"]
      OBVIOUS
    <3>1. /\ rec \in Probe /\ rec.pc = "closeGuard"
          /\ rec.gfd = r.gfd /\ rec.tfd = r.tfd
      BY <1>1 DEF Probe, Inside
    <3>2. probe' = [probe EXCEPT ![p] = rec] /\ r.pc = "unlockGuard"
      BY <1>1, <1>5, <2>2 DEF UnlockGuard, At
    <3> QED BY <2>2, <3>1, <3>2, ReleaseGuardIInv DEF history
  <2> QED BY <1>5, <2>1, <2>2 DEF UnlockGuard
<1>6. CASE CloseGuard(p)
  <2>1. /\ r.pc = "closeGuard" /\ guardOwner' = Without(guardOwner, p)
        /\ UNCHANGED <<paths, threadOwner, writer, bypassed, moved, tampers>>
    BY <1>6 DEF CloseGuard, At, history
  <2> DEFINE s == [r EXCEPT !.pc = "decide", !.gfd = NoInode]
  <2>2. /\ s \in Probe /\ s.pc = "decide" /\ s.gfd = NoInode /\ s.tfd = r.tfd
    BY <1>1 DEF Probe, Inside
  <2>3. CASE probe' = [probe EXCEPT ![p] = s]
    <3> PICK rec : rec = s
      OBVIOUS
    <3> HIDE DEF s
    <3> QED BY <2>1, <2>2, <2>3, ReleaseGuardIInv
  <2>4. CASE probe' = [probe EXCEPT ![p] = [s EXCEPT !.verdict = "unknown",
                                                     !.guard = "unsafe"]]
    <3> HIDE DEF s
    <3> PICK rec : rec = [s EXCEPT !.verdict = "unknown", !.guard = "unsafe"]
      OBVIOUS
    <3>1. /\ rec \in Probe /\ rec.pc = "decide" /\ rec.gfd = NoInode /\ rec.tfd = r.tfd
      BY <2>2 DEF Probe
    <3> QED BY <2>1, <2>4, <3>1, ReleaseGuardIInv
  <2> QED BY <1>1, <1>6, <2>3, <2>4 DEF CloseGuard
<1>7. CASE DyingClosesGuard(p)
  <2> PICK rec : rec = [r EXCEPT !.gfd = NoInode]
    OBVIOUS
  <2>1. /\ rec \in Probe /\ rec.pc = r.pc /\ rec.gfd = NoInode /\ rec.tfd = r.tfd
    BY <1>1 DEF Probe
  <2>2. probe' = [probe EXCEPT ![p] = rec] /\ r.pc = "dying"
    BY <1>1, <1>7 DEF DyingClosesGuard, At
  <2> QED BY <1>7, <2>1, <2>2, ReleaseGuardIInv DEF DyingClosesGuard
<1> QED BY <1>2, <1>3, <1>4, <1>5, <1>6, <1>7

-----------------------------------------------------------------------------
(* The writers and the rest of the world.                                  *)

\* A writer takes the guard only from nobody.
LEMMA TakeGuardIInv ==
  ASSUME IInv, NEW w \in Writers, TakeGuard(w),
         writer' \in [Writers -> Writer],
         \A v \in Writers : v # w => writer'[v] = writer[v],
         writer'[w].pc # "opened",
         UNCHANGED <<threadOwner, probe, history>>
  PROVE IInv'
<1> USE ProbeAssumption
<1>1. /\ w # NoOne /\ w \notin Probers
      /\ UNCHANGED <<parentAt, threadAt, threadOwner, probe, bypassed, moved, tampers>>
  BY DEF TakeGuard, history, paths
<1>2. /\ Guard' \in GuardInodes /\ guardOwner'[Guard'] = w
      /\ \A g \in GuardInodes :
           guardOwner'[g] = guardOwner[g] \/ (guardOwner[g] = NoOne /\ guardOwner'[g] = w)
      /\ \/ Guard' = Guard /\ guardOwner[Guard] = NoOne
         \/ Guard = NoInode
  BY <1>1 DEF TakeGuard, FreshGuard, Guard, IInv, TypeOK, paths
<1>3. TypeOK'
  <2>1. /\ guardAt' \in [Parents -> GuardInodes \cup {NoInode}]
        /\ guardSafe' \subseteq GuardInodes
        /\ guardOwner' \in [GuardInodes -> Probers \cup Writers \cup {NoOne}]
    BY DEF TakeGuard, Guard, IInv, TypeOK, paths
  <2> QED BY <1>1, <2>1 DEF IInv, TypeOK
<1>4. Probing'
  <2> SUFFICES ASSUME NEW p \in Probers
               PROVE Holds(p, probe[p])' /\ KeepsGuard(p, probe[p])'
    BY DEF Probing
  <2>1. /\ probe[p] \in Probe /\ Holds(p, probe[p]) /\ KeepsGuard(p, probe[p])
        /\ p # NoOne
    BY Own
  <2>2. /\ probe[p].gfd \in GuardInodes \cup {NoInode}
        /\ \A g \in GuardInodes : guardOwner'[g] = p <=> guardOwner[g] = p
    BY <1>1, <1>2, <2>1 DEF Probe
  <2>3. Holds(p, probe[p])'
    BY <1>1, <2>1, <2>2 DEF Holds, GuardHeld, GuardOpen, ThreadOpen
  <2>4. KeepsGuard(p, probe[p])'
    BY <1>1, <1>2, <2>1, <2>2 DEF KeepsGuard
  <2> QED BY <2>3, <2>4
<1>5. Writing'
  <2> SUFFICES ASSUME NEW v \in Writers, ~bypassed, writer'[v].pc \in Coordinated
               PROVE Guard' # NoInode /\ guardOwner'[Guard'] = v
    BY <1>1 DEF IInv, Writing, WriterGuarded
  <2>1. CASE v = w
    BY <1>2, <2>1
  <2>2. CASE v # w
    <3>1. Guard # NoInode /\ guardOwner[Guard] = v /\ v # NoOne
      BY <2>2 DEF IInv, Writing, WriterGuarded
    <3> QED BY <1>2, <3>1
  <2> QED BY <2>1, <2>2
<1> QED BY <1>3, <1>4, <1>5 DEF IInv

\* The other steps of a writer touch no lock but its own.
LEMMA WriterIInv ==
  ASSUME IInv, NEW w \in Writers,
         UNCHANGED <<parentAt, guardAt, guardSafe, probe, history>>,
         threadAt' \in [Parents -> ThreadInodes \cup {NoInode}],
         guardOwner' \in [GuardInodes -> Probers \cup Writers \cup {NoOne}],
         threadOwner' \in [ThreadInodes -> Probers \cup Writers \cup {NoOne}],
         writer' \in [Writers -> Writer],
         \A g \in GuardInodes :
           guardOwner'[g] = guardOwner[g] \/ (guardOwner[g] = w /\ guardOwner'[g] = NoOne),
         \A t \in ThreadInodes :
           \/ threadOwner'[t] = threadOwner[t]
           \/ threadOwner[t] \in {w, NoOne} /\ threadOwner'[t] \in {w, NoOne},
         \A v \in Writers : v # w => writer'[v] = writer[v],
         writer'[w].pc = "opened" => writer'[w].fd # NoInode,
         writer'[w].pc \in Coordinated =>
           writer[w].pc \in Coordinated /\ guardOwner' = guardOwner
  PROVE IInv'
<1> USE ProbeAssumption
<1>1. /\ w # NoOne /\ w \notin Probers /\ Guard' = Guard
      /\ Guard \in GuardInodes \cup {NoInode}
      /\ UNCHANGED <<bypassed, moved, tampers>>
  BY DEF Guard, IInv, TypeOK, history
<1>2. TypeOK'
  BY <1>1 DEF IInv, TypeOK
<1>3. Probing'
  <2> SUFFICES ASSUME NEW p \in Probers
               PROVE Holds(p, probe[p])' /\ KeepsGuard(p, probe[p])'
    BY DEF Probing
  <2>1. /\ probe[p] \in Probe /\ Holds(p, probe[p]) /\ KeepsGuard(p, probe[p])
        /\ p # NoOne /\ p # w
    BY <1>1, Own
  <2>2. /\ probe[p].gfd \in GuardInodes \cup {NoInode}
        /\ \A g \in GuardInodes : guardOwner'[g] = p <=> guardOwner[g] = p
        /\ \A t \in ThreadInodes : threadOwner'[t] = p <=> threadOwner[t] = p
    BY <1>1, <2>1 DEF Probe
  <2>3. Holds(p, probe[p])'
    BY <2>1, <2>2 DEF Holds, GuardHeld, GuardOpen, ThreadOpen
  <2>4. KeepsGuard(p, probe[p])'
    BY <1>1, <2>1, <2>2 DEF KeepsGuard
  <2> QED BY <2>3, <2>4
<1>4. Writing'
  <2> SUFFICES ASSUME NEW v \in Writers, ~bypassed, writer'[v].pc \in Coordinated
               PROVE Guard # NoInode /\ guardOwner'[Guard] = v
    BY <1>1 DEF IInv, Writing, WriterGuarded
  <2>1. writer[v].pc \in Coordinated
    OBVIOUS
  <2>2. Guard # NoInode /\ guardOwner[Guard] = v
    BY <2>1 DEF IInv, Writing, WriterGuarded
  <2> QED BY <1>1, <2>2
<1> QED BY <1>2, <1>3, <1>4 DEF IInv

LEMMA WriterStepIInv ==
  ASSUME IInv, NEW w \in Writers, WriterStep(w) PROVE IInv'
<1> USE ProbeAssumption
<1>1. /\ writer \in [Writers -> Writer] /\ writer[w] \in Writer
      /\ parentAt \in Parents
      /\ threadAt \in [Parents -> ThreadInodes \cup {NoInode}]
      /\ guardOwner \in [GuardInodes -> Probers \cup Writers \cup {NoOne}]
      /\ threadOwner \in [ThreadInodes -> Probers \cup Writers \cup {NoOne}]
  BY DEF IInv, TypeOK
<1>2. CASE WriterEnters(w) \/ WriterDrops(w)
  <2>1. /\ writer' \in [Writers -> Writer]
        /\ \A v \in Writers : v # w => writer'[v] = writer[v]
        /\ writer'[w].pc # "opened"
    BY <1>1, <1>2 DEF WriterEnters, WriterDrops, Writer
  <2> QED BY <1>2, <2>1, TakeGuardIInv DEF WriterEnters, WriterDrops
<1>3. CASE WriterRemovesStale(w)
  <2>1. writer[w].pc = "inside"
    BY <1>3 DEF WriterRemovesStale, InState
  <2> QED BY <1>1, <1>3, <2>1, WriterIInv DEF WriterRemovesStale, InState
<1>4. CASE WriterOpens(w)
  <2>1. /\ threadAt' \in [Parents -> ThreadInodes \cup {NoInode}]
        /\ writer' \in [Writers -> Writer] /\ writer'[w].fd # NoInode
        /\ \A v \in Writers : v # w => writer'[v] = writer[v]
    BY <1>1, <1>4 DEF WriterOpens, Writer
  <2>2. writer[w].pc \in Coordinated
    BY <1>4 DEF WriterOpens, InState, Coordinated
  <2> QED BY <1>1, <1>4, <2>1, <2>2, WriterIInv DEF WriterOpens
<1>5. CASE WriterTries(w)
  <2>1. /\ threadOwner' \in [ThreadInodes -> Probers \cup Writers \cup {NoOne}]
        /\ \A t \in ThreadInodes :
             \/ threadOwner'[t] = threadOwner[t]
             \/ threadOwner[t] = NoOne /\ threadOwner'[t] = w
        /\ writer' \in [Writers -> Writer]
        /\ \A v \in Writers : v # w => writer'[v] = writer[v]
        /\ writer'[w].pc # "opened"
    BY <1>1, <1>5 DEF WriterTries, Writer
  <2>2. writer[w].pc \in Coordinated
    BY <1>5 DEF WriterTries, InState, Coordinated
  <2> QED BY <1>1, <1>5, <2>1, <2>2, WriterIInv DEF WriterTries, paths
<1>6. CASE WriterCloses(w)
  <2>1. /\ threadOwner' \in [ThreadInodes -> Probers \cup Writers \cup {NoOne}]
        /\ \A t \in ThreadInodes :
             \/ threadOwner'[t] = threadOwner[t]
             \/ threadOwner[t] = w /\ threadOwner'[t] = NoOne
        /\ writer' \in [Writers -> Writer]
        /\ \A v \in Writers : v # w => writer'[v] = writer[v]
        /\ writer'[w].pc # "opened"
    BY <1>1, <1>6 DEF WriterCloses, Writer, Without
  <2>2. writer[w].pc \in Coordinated
    BY <1>6 DEF WriterCloses, InState, Coordinated
  <2> QED BY <1>1, <1>6, <2>1, <2>2, WriterIInv DEF WriterCloses, paths
<1>7. CASE WriterLeaves(w) \/ WriterUnlinks(w) \/ WriterEnds(w)
  <2>1. /\ guardOwner' = Without(guardOwner, w)
        /\ threadOwner' \in {threadOwner, Without(threadOwner, w)}
        /\ UNCHANGED <<parentAt, guardAt, guardSafe, probe, history>>
    BY <1>7 DEF WriterLeaves, WriterUnlinks, WriterEnds, paths
  <2>2. /\ guardOwner' \in [GuardInodes -> Probers \cup Writers \cup {NoOne}]
        /\ \A g \in GuardInodes :
             guardOwner'[g] = guardOwner[g] \/ (guardOwner[g] = w /\ guardOwner'[g] = NoOne)
    BY <1>1, <2>1 DEF Without
  <2>3. /\ threadOwner' \in [ThreadInodes -> Probers \cup Writers \cup {NoOne}]
        /\ \A t \in ThreadInodes :
             \/ threadOwner'[t] = threadOwner[t]
             \/ threadOwner[t] = w /\ threadOwner'[t] = NoOne
    BY <1>1, <2>1 DEF Without
  <2>4. threadAt' \in [Parents -> ThreadInodes \cup {NoInode}]
    BY <1>1, <1>7 DEF WriterLeaves, WriterUnlinks, WriterEnds, paths
  <2>5. /\ writer' \in [Writers -> Writer]
        /\ writer'[w].pc \notin Coordinated /\ writer'[w].pc # "opened"
        /\ \A v \in Writers : v # w => writer'[v] = writer[v]
    BY <1>1, <1>7 DEF WriterLeaves, WriterUnlinks, WriterEnds, Writer, Coordinated
  <2> QED BY <2>1, <2>2, <2>3, <2>4, <2>5, WriterIInv
<1> QED BY <1>2, <1>3, <1>4, <1>5, <1>6, <1>7 DEF WriterStep

\* Whoever breaks the protocol leaves the locks as they are.
LEMMA OthersIInv == ASSUME IInv, Others PROVE IInv'
<1> USE ProbeAssumption
<1>1. /\ UNCHANGED <<guardOwner, threadOwner, probe, writer>>
      /\ tampers' \in 0..TamperBound
      /\ \/ bypassed' = TRUE
         \/ UNCHANGED <<bypassed, parentAt, guardAt>>
  BY DEF Others, ReplaceGuard, SpoilGuard, ReplaceThread, MoveParent, Tamper, IInv, TypeOK
<1>2. TypeOK'
  <2>1. /\ parentAt' \in Parents /\ guardSafe' \subseteq GuardInodes
        /\ guardAt' \in [Parents -> GuardInodes \cup {NoInode}]
        /\ threadAt' \in [Parents -> ThreadInodes \cup {NoInode}]
    BY DEF Others, ReplaceGuard, SpoilGuard, ReplaceThread, MoveParent, IInv, TypeOK
  <2>2. bypassed' \in BOOLEAN /\ moved' \in BOOLEAN
    BY Zenon DEF Others, ReplaceGuard, SpoilGuard, ReplaceThread, MoveParent, IInv, TypeOK
  <2> QED BY <1>1, <2>1, <2>2 DEF IInv, TypeOK
<1>3. Probing'
  BY <1>1 DEF IInv, Probing, Holds, KeepsGuard, Guard
<1>4. Writing'
  BY <1>1 DEF IInv, Writing, WriterGuarded, Guard
<1> QED BY <1>2, <1>3, <1>4 DEF IInv

LEMMA NextIInv == IInv /\ [Next]_vars => IInv'
<1> SUFFICES ASSUME IInv, [Next]_vars PROVE IInv'
  OBVIOUS
<1>1. CASE UNCHANGED vars
  BY <1>1 DEF vars, IInv, TypeOK, Probing, Writing, Holds, KeepsGuard, WriterGuarded, Guard
<1>2. ASSUME NEW p \in Probers, Begin(p) \/ Proceed(p) \/ Elapse(p) \/ Die(p) PROVE IInv'
  BY <1>2, UnguardedIInv, OpenGuardIInv, LockGuardIInv, OpenThreadIInv, LockThreadIInv,
     CleanupIInv, ReleaseIInv DEF Proceed, GuardedStep
<1>3. CASE Next
  BY <1>2, <1>3, WriterStepIInv, OthersIInv DEF Next
<1> QED BY <1>1, <1>3

-----------------------------------------------------------------------------
\* The invariant holds in every state, for whatever others replace or kill.
THEOREM Invariant == Spec => []IInv
<1> QED BY InitIInv, NextIInv, PTL DEF Spec

\* The probe's variables keep their types.
THEOREM TypeCorrect == Spec => []TypeOK
<1>1. IInv => TypeOK
  BY DEF IInv
<1> QED BY <1>1, Invariant, PTL

\* A probe that sleeps, is over or is dead has neither descriptor nor lock.
THEOREM CleanEnd == Spec => []NothingRetained
<1>1. IInv => NothingRetained
  <2> SUFFICES ASSUME IInv, NEW p \in Probers, probe[p].pc \in Outside
               PROVE /\ probe[p].gfd = NoInode /\ probe[p].tfd = NoInode
                     /\ \A g \in GuardInodes : guardOwner[g] # p
                     /\ \A t \in ThreadInodes : threadOwner[t] # p
    BY DEF NothingRetained
  <2>1. Holds(p, probe[p])
    BY DEF IInv, Probing
  <2> QED BY <2>1, ProbeAssumption DEF Holds, Outside, GuardOpen, ThreadOpen
<1> QED BY <1>1, Invariant, PTL

\* Lock order: whoever has the thread file open has the native guard.
THEOREM LockOrder == Spec => []GuardBeforeThread
<1>1. IInv => GuardBeforeThread
  BY DEF IInv, Probing, Holds, GuardBeforeThread, GuardHeld, At
<1> QED BY <1>1, Invariant, PTL

\* Two that are both inside the guard cannot be a writer and a probe with the
\* thread's lock.
LEMMA LockerHasGuard ==
  ASSUME IInv, ~bypassed, NEW p \in Probers, NEW t \in ThreadInodes,
         threadOwner[t] = p
  PROVE guardOwner[Guard] = p /\ probe[p].tfd = t /\ ~At(p, "flockThread")
<1>1. probe[p] \in Probe /\ Holds(p, probe[p]) /\ KeepsGuard(p, probe[p])
  BY Own
<1>2. probe[p].tfd = t /\ t # NoInode /\ probe[p].pc # "flockThread"
  BY <1>1, ProbeAssumption DEF Holds
<1> QED BY <1>1, <1>2 DEF KeepsGuard, At

\* No probe makes a coordinated writer's attempt on the thread lock fail.
THEOREM Invisible == Spec => []NoInducedWouldBlock
<1>1. IInv => NoInducedWouldBlock
  <2> SUFFICES ASSUME IInv, NEW w \in Writers, InState(w, "opened"), ~bypassed,
                      threadOwner[writer[w].fd] \in Probers
               PROVE FALSE
    BY DEF NoInducedWouldBlock
  <2>1. guardOwner[Guard] = w
    BY DEF IInv, Writing, WriterGuarded, InState, Coordinated
  <2>2. writer[w].fd \in ThreadInodes
    BY DEF IInv, TypeOK, Writing, Writer, InState
  <2>3. guardOwner[Guard] = threadOwner[writer[w].fd]
    BY <2>2, LockerHasGuard
  <2> QED BY <2>1, <2>3, ProbeAssumption
<1> QED BY <1>1, Invariant, PTL

\* What a probe reads as a held lock is held by a writer.
THEOREM HeldIsTrue == Spec => []HeldMeansWriter
<1>1. IInv => HeldMeansWriter
  <2> SUFFICES ASSUME IInv, NEW p \in Probers, At(p, "flockThread"), ~bypassed,
                      NEW q \in Probers, threadOwner[probe[p].tfd] = q
               PROVE FALSE
    BY DEF HeldMeansWriter
  <2>1. /\ probe[p] \in Probe /\ Holds(p, probe[p]) /\ KeepsGuard(p, probe[p])
    BY Own
  <2>2. probe[p].tfd \in ThreadInodes /\ guardOwner[Guard] = p
    BY <2>1 DEF Holds, KeepsGuard, At, Probe, ThreadOpen
  <2>3. guardOwner[Guard] = q /\ ~At(q, "flockThread")
    BY <2>2, LockerHasGuard
  <2> QED BY <2>2, <2>3
<1> QED BY <1>1, Invariant, PTL

-----------------------------------------------------------------------------
(* The guarded probe and the writers implement WriterService, where probes *)
(* do not occur, as long as nobody replaces the guard, the thread file or  *)
(* the directory, and no probe that is killed loses the guard first.  A    *)
(* probe's verdict "free" is true under the same condition.                *)

Undisturbed == ~bypassed /\ ~moved

\* A writer's lock is the lock of the file that the path names.
OwnerHasThread ==
  \A w \in Writers :
    Owns(w) => /\ writer[w].fd = Thread /\ Thread # NoInode
               /\ threadOwner[Thread] = w

OwnersOwn ==
  \A w \in Writers, t \in ThreadInodes : threadOwner[t] = w => Owns(w)

\* Inside the guard the path stays what it was at the open.
OpenedIsThread ==
  /\ \A w \in Writers : InState(w, "opened") => writer[w].fd = Thread
  /\ \A p \in Probers : probe[p].tfd # NoInode => probe[p].tfd = Thread

\* Between its close and its unlink nobody has the thread.
ClosedIsFree ==
  \A w \in Writers : InState(w, "closed") => \A v \in Writers : ~Owns(v)

ServiceInv == Undisturbed =>
  OwnerHasThread /\ OwnersOwn /\ OpenedIsThread /\ ClosedIsFree

SInv == IInv /\ ServiceInv

\* Two that are inside the guard are one.
LEMMA OneInside ==
  ASSUME IInv, ~bypassed, NEW v \in Writers, NEW w \in Writers,
         writer[v].pc \in Coordinated, writer[w].pc \in Coordinated
  PROVE v = w
  BY DEF IInv, Writing, WriterGuarded

LEMMA NoProbeInside ==
  ASSUME IInv, ~bypassed, NEW w \in Writers, writer[w].pc \in Coordinated,
         NEW p \in Probers
  PROVE probe[p].tfd = NoInode
<1> SUFFICES ASSUME probe[p].tfd # NoInode PROVE FALSE
  OBVIOUS
<1>1. guardOwner[Guard] = p
  BY Own DEF KeepsGuard
<1>2. guardOwner[Guard] = w
  BY DEF IInv, Writing, WriterGuarded
<1> QED BY <1>1, <1>2, ProbeAssumption

LEMMA InitSInv == Init => SInv
<1> SUFFICES ASSUME Init PROVE ServiceInv
  BY InitIInv DEF SInv
<1>1. \A w \in Writers : writer[w].pc = "idle"
  BY DEF Init
<1>2. \A p \in Probers : probe[p].tfd = NoInode
  BY DEF Init, Fresh
<1>3. \A t \in ThreadInodes : threadOwner[t] = NoOne
  BY DEF Init
<1> QED BY <1>1, <1>2, <1>3, ProbeAssumption
        DEF ServiceInv, OwnerHasThread, OwnersOwn, OpenedIsThread, ClosedIsFree, Owns, InState

\* What a step of a prober may do to the thread's file, its lock and paths.
Frame(p) ==
  /\ UNCHANGED <<parentAt, threadAt, writer, moved>> /\ (bypassed => bypassed')
  /\ \A q \in Probers : q # p => probe'[q] = probe[q]
  /\ probe'[p].tfd \in {probe[p].tfd, NoInode, Thread}
  /\ \A t \in ThreadInodes :
       \/ threadOwner'[t] = threadOwner[t]
       \/ threadOwner[t] \in {p, NoOne} /\ threadOwner'[t] \in {p, NoOne}

LEMMA LocalFrame ==
  ASSUME IInv, NEW p \in Probers, NEW rec, Local(p, rec),
         rec.tfd \in {probe[p].tfd, NoInode, Thread}
  PROVE Frame(p)
<1>1. probe \in [Probers -> Probe]
  BY DEF IInv, TypeOK
<1> QED BY <1>1 DEF Frame, Local, paths, history

LEMMA ResultFrame ==
  ASSUME IInv, NEW p \in Probers, NEW verdict, NEW guard, NEW stage,
         Result(p, verdict, guard, stage)
  PROVE Frame(p)
<1>1. probe[p] \in Probe
  BY DEF IInv, TypeOK
<1> PICK rec : rec = [probe[p] EXCEPT !.pc = stage, !.verdict = verdict, !.guard = guard]
  OBVIOUS
<1>2. Local(p, rec) /\ rec.tfd = probe[p].tfd
  BY <1>1 DEF Result, Probe
<1> QED BY <1>2, LocalFrame

LEMMA AdvanceFrame ==
  ASSUME IInv, NEW p \in Probers, NEW stage, Advance(p, stage)
  PROVE Frame(p)
<1>1. probe[p] \in Probe
  BY DEF IInv, TypeOK
<1> PICK rec : rec = [probe[p] EXCEPT !.pc = stage]
  OBVIOUS
<1>2. Local(p, rec) /\ rec.tfd = probe[p].tfd
  BY <1>1 DEF Advance, Probe
<1> QED BY <1>2, LocalFrame

LEMMA ProberFrame ==
  ASSUME IInv, NEW p \in Probers, Begin(p) \/ Proceed(p) \/ Elapse(p) \/ Die(p)
  PROVE Frame(p)
<1> DEFINE r == probe[p]
<1>1. /\ r \in Probe /\ probe \in [Probers -> Probe]
      /\ threadOwner \in [ThreadInodes -> Probers \cup Writers \cup {NoOne}]
  BY DEF IInv, TypeOK
<1>2. CASE Begin(p) \/ Wake(p)
  <2>1. ASSUME NEW n, Local(p, Fresh(n)) PROVE Frame(p)
    BY <2>1, LocalFrame DEF Fresh
  <2> QED BY <1>2, <2>1 DEF Begin, Wake, Local
<1>3. CASE Observe(p) \/ ObserveFails(p)
  <2>1. CASE Local(p, [r EXCEPT !.pc = "statGuard", !.seen = Thread])
    <3> PICK rec : rec = [r EXCEPT !.pc = "statGuard", !.seen = Thread]
      OBVIOUS
    <3>1. rec.tfd = r.tfd
      BY <1>1 DEF Probe
    <3> QED BY <2>1, <3>1, LocalFrame
  <2> QED BY <1>3, <2>1, ResultFrame DEF Observe, ObserveFails, Result, Local
<1>4. CASE StatGuard(p)
  <2>1. CASE Local(p, [r EXCEPT !.pc = "openGuard", !.before = Guard, !.parent = parentAt])
    <3> PICK rec : rec = [r EXCEPT !.pc = "openGuard", !.before = Guard, !.parent = parentAt]
      OBVIOUS
    <3>1. rec.tfd = r.tfd
      BY <1>1 DEF Probe
    <3> QED BY <2>1, <3>1, LocalFrame
  <2> QED BY <1>4, <2>1, ResultFrame DEF StatGuard, Result, Local
<1>5. CASE OpenGuard(p)
  <2>1. CASE Local(p, [r EXCEPT !.pc = "flockGuard", !.gfd = Guard])
    <3> PICK rec : rec = [r EXCEPT !.pc = "flockGuard", !.gfd = Guard]
      OBVIOUS
    <3>1. rec.tfd = r.tfd
      BY <1>1 DEF Probe
    <3> QED BY <2>1, <3>1, LocalFrame
  <2>2. CASE Local(p, [r EXCEPT !.pc = "closeGuard", !.gfd = Guard,
                                !.verdict = "unknown", !.guard = "changed"])
    <3> PICK rec : rec = [r EXCEPT !.pc = "closeGuard", !.gfd = Guard,
                                   !.verdict = "unknown", !.guard = "changed"]
      OBVIOUS
    <3>1. rec.tfd = r.tfd
      BY <1>1 DEF Probe
    <3> QED BY <2>2, <3>1, LocalFrame
  <2> QED BY <1>5, <2>1, <2>2, ResultFrame DEF OpenGuard, Result, Local
<1>6. CASE RecheckGuard(p)
  <2>1. CASE Local(p, [r EXCEPT !.pc = "openThread", !.guard = "acquired"])
    <3> PICK rec : rec = [r EXCEPT !.pc = "openThread", !.guard = "acquired"]
      OBVIOUS
    <3>1. rec.tfd = r.tfd
      BY <1>1 DEF Probe
    <3> QED BY <2>1, <3>1, LocalFrame
  <2> QED BY <1>6, <2>1, ResultFrame DEF RecheckGuard, Result, Local
<1>7. CASE OpenThread(p)
  <2>1. CASE Local(p, [r EXCEPT !.pc = "flockThread", !.tfd = Thread])
    <3> PICK rec : rec = [r EXCEPT !.pc = "flockThread", !.tfd = Thread]
      OBVIOUS
    <3>1. rec.tfd = Thread
      BY <1>1 DEF Probe
    <3> QED BY <2>1, <3>1, LocalFrame
  <2> QED BY <1>7, <2>1, ResultFrame DEF OpenThread, Result, Local
<1>8. CASE LockGuardFails(p) \/ LockThreadFails(p)
  BY <1>8, ResultFrame DEF LockGuardFails, LockThreadFails, Result, Local
<1>9. CASE RecheckThread(p) \/ FinalCheck(p)
  BY <1>9, ResultFrame, AdvanceFrame
     DEF RecheckThread, FinalCheck, Result, Advance, Local
<1>10. CASE Die(p) \/ Dead(p)
  BY <1>10, AdvanceFrame DEF Die, Dead, Advance, Local
<1>11. CASE Decide(p)
  <2>1. CASE Local(p, [r EXCEPT !.pc = "asleep", !.slept = r.spent])
    <3> PICK rec : rec = [r EXCEPT !.pc = "asleep", !.slept = r.spent]
      OBVIOUS
    <3>1. rec.tfd = r.tfd
      BY <1>1 DEF Probe
    <3> QED BY <2>1, <3>1, LocalFrame
  <2> QED BY <1>11, <2>1, AdvanceFrame DEF Decide, Advance, Local
<1>12. CASE Elapse(p)
  <2> PICK rec : rec = [r EXCEPT !.spent = @ + 1]
    OBVIOUS
  <2>1. rec.tfd = r.tfd
    BY <1>1 DEF Probe
  <2> QED BY <1>12, <2>1, LocalFrame DEF Elapse
<1>13. CASE LockGuard(p)
  <2>1. CASE Result(p, "unknown", "busy", "finalCheck")
    BY <2>1, ResultFrame DEF Result, Local
  <2> QED BY <1>1, <1>13, <2>1 DEF LockGuard, Frame, paths, history, Probe
<1>14. CASE LockThread(p)
  BY <1>1, <1>14 DEF LockThread, Frame, paths, history, Probe
<1>15. CASE UnlockThread(p) \/ UnlockGuard(p)
  <2>1. ASSUME NEW guard, NEW stage, Result(p, "unknown", guard, stage) PROVE Frame(p)
    BY <2>1, ResultFrame
  <2>2. CASE /\ threadOwner' = Without(threadOwner, p)
             /\ probe' = [probe EXCEPT ![p].pc = "closeThread"]
             /\ UNCHANGED <<paths, guardOwner, writer, history>>
    BY <1>1, <2>2 DEF Frame, Without, paths, history, Probe
  <2>3. CASE /\ guardOwner' = Without(guardOwner, p)
             /\ probe' = [probe EXCEPT ![p].pc = "closeGuard"]
             /\ UNCHANGED <<paths, threadOwner, writer, history>>
    BY <1>1, <2>3 DEF Frame, paths, history, Probe
  <2> QED BY <1>15, <2>1, <2>2, <2>3 DEF UnlockThread, UnlockGuard, Result, Local
<1>16. CASE CloseThread(p)
  BY <1>1, <1>16 DEF CloseThread, Frame, Without, paths, history, Probe
<1>17. CASE CloseGuard(p)
  BY <1>1, <1>17 DEF CloseGuard, Frame, Without, paths, history, Probe
<1>18. CASE DyingClosesThread(p)
  BY <1>1, <1>18 DEF DyingClosesThread, Frame, Without, paths, history, Probe
<1>19. CASE DyingClosesGuard(p)
  <2>1. bypassed => bypassed'
    BY <1>19, Zenon DEF DyingClosesGuard
  <2> QED BY <1>1, <1>19, <2>1 DEF DyingClosesGuard, Frame, paths, Probe
<1> QED BY <1>2, <1>3, <1>4, <1>5, <1>6, <1>7, <1>8, <1>9, <1>10, <1>11, <1>12, <1>13,
           <1>14, <1>15, <1>16, <1>17, <1>18, <1>19 DEF Proceed, GuardedStep

LEMMA ProberService ==
  ASSUME SInv, NEW p \in Probers, Frame(p) PROVE ServiceInv'
<1> USE ProbeAssumption
<1>1. /\ IInv /\ ServiceInv /\ p \notin Writers /\ p # NoOne
      /\ Thread' = Thread /\ Thread \in ThreadInodes \cup {NoInode}
      /\ UNCHANGED <<writer, moved>> /\ (bypassed => bypassed')
  BY Own DEF SInv, Frame, Thread
<1> SUFFICES ASSUME Undisturbed
             PROVE OwnerHasThread' /\ OwnersOwn' /\ OpenedIsThread' /\ ClosedIsFree'
  BY <1>1 DEF ServiceInv, Undisturbed
<1>2. OwnerHasThread /\ OwnersOwn /\ OpenedIsThread /\ ClosedIsFree
  BY <1>1 DEF ServiceInv
<1>3. \A w \in Writers, t \in ThreadInodes : threadOwner'[t] = w <=> threadOwner[t] = w
  BY <1>1 DEF Frame
<1>4. OwnerHasThread' /\ OwnersOwn' /\ ClosedIsFree'
  BY <1>1, <1>2, <1>3 DEF OwnerHasThread, OwnersOwn, ClosedIsFree, Owns, InState
<1>5. OpenedIsThread'
  BY <1>1, <1>2 DEF OpenedIsThread, InState, Frame
<1> QED BY <1>4, <1>5

\* A writer comes to own the thread, and leaves it, only inside the guard.
LEMMA WriterServiceInv ==
  ASSUME SInv, NEW w \in Writers, WriterStep(w) PROVE ServiceInv'
<1> USE ProbeAssumption
<1>1. /\ IInv /\ ServiceInv /\ w \notin Probers /\ w # NoOne
      /\ writer \in [Writers -> Writer] /\ parentAt \in Parents
      /\ threadAt \in [Parents -> ThreadInodes \cup {NoInode}]
      /\ threadOwner \in [ThreadInodes -> Probers \cup Writers \cup {NoOne}]
      /\ Thread \in ThreadInodes \cup {NoInode}
  BY DEF SInv, IInv, TypeOK, Thread
<1>2. UNCHANGED <<parentAt, probe, bypassed, moved>>
  BY DEF WriterStep, WriterEnters, WriterRemovesStale, WriterOpens, WriterTries,
     WriterLeaves, WriterDrops, WriterCloses, WriterUnlinks, WriterEnds, TakeGuard,
     paths, history
<1> SUFFICES ASSUME Undisturbed
             PROVE OwnerHasThread' /\ OwnersOwn' /\ OpenedIsThread' /\ ClosedIsFree'
  BY <1>2 DEF ServiceInv, Undisturbed
<1>3. OwnerHasThread /\ OwnersOwn /\ OpenedIsThread /\ ClosedIsFree
  BY <1>1 DEF ServiceInv
<1>4. writer[w].pc \in Coordinated =>
        /\ \A v \in Writers : v # w => writer[v].pc \notin Coordinated
        /\ \A p \in Probers : probe[p].tfd = NoInode
  BY <1>1, OneInside, NoProbeInside DEF Undisturbed
<1>5. CASE WriterEnters(w) \/ WriterDrops(w)
  <2>1. /\ UNCHANGED <<threadAt, threadOwner>>
        /\ \A v \in Writers : v # w => writer'[v] = writer[v]
        /\ writer'[w].fd = writer[w].fd
        /\ \/ writer[w].pc = "idle" /\ writer'[w].pc = "inside"
           \/ writer[w].pc = "owning" /\ writer'[w].pc = "dropping"
    BY <1>1, <1>5 DEF WriterEnters, WriterDrops, TakeGuard, InState, paths, Writer
  <2>2. Thread' = Thread
    BY <1>2, <2>1 DEF Thread
  <2>3. /\ \A v \in Writers : Owns(v)' <=> Owns(v)
        /\ \A v \in Writers : writer'[v].fd = writer[v].fd
        /\ \A v \in Writers : InState(v, "opened")' <=> InState(v, "opened")
        /\ \A v \in Writers : InState(v, "closed")' <=> InState(v, "closed")
    BY <1>1, <2>1 DEF Owns, InState
  <2> QED BY <1>2, <1>3, <2>1, <2>2, <2>3
          DEF OwnerHasThread, OwnersOwn, OpenedIsThread, ClosedIsFree
<1>6. CASE WriterRemovesStale(w)
  <2>1. /\ UNCHANGED <<writer, threadOwner>> /\ writer[w].pc = "inside"
        /\ Thread # NoInode /\ threadOwner[Thread] = NoOne
    BY <1>6 DEF WriterRemovesStale, InState
  <2>2. \A v \in Writers : ~Owns(v)
    BY <1>3, <2>1 DEF OwnerHasThread
  <2>3. \A v \in Writers : writer[v].pc # "opened"
    BY <1>4, <2>1 DEF Coordinated
  <2>4. \A p \in Probers : probe[p].tfd = NoInode
    BY <1>4, <2>1 DEF Coordinated
  <2> QED BY <1>2, <1>3, <2>1, <2>2, <2>3, <2>4
          DEF OwnerHasThread, OwnersOwn, OpenedIsThread, ClosedIsFree, Owns, InState
<1>7. CASE WriterOpens(w)
  <2>1. /\ threadOwner' = threadOwner /\ writer[w].pc = "inside"
        /\ writer'[w].pc = "opened" /\ writer'[w].fd = Thread'
        /\ \A v \in Writers : v # w => writer'[v] = writer[v]
        /\ Thread' = Thread \/ Thread = NoInode
    BY <1>1, <1>2, <1>7 DEF WriterOpens, InState, Thread, Writer
  <2>2. \A v \in Writers : v # w => writer[v].pc \notin {"opened", "closed"}
    BY <1>4, <2>1 DEF Coordinated
  <2>3. \A p \in Probers : probe[p].tfd = NoInode
    BY <1>4, <2>1 DEF Coordinated
  <2>4. OwnerHasThread' /\ OwnersOwn'
    BY <1>3, <2>1 DEF OwnerHasThread, OwnersOwn, Owns
  <2> QED BY <1>2, <2>1, <2>2, <2>3, <2>4
          DEF OpenedIsThread, ClosedIsFree, InState
<1>8. CASE WriterTries(w)
  <2>1. /\ UNCHANGED threadAt /\ Thread' = Thread
        /\ writer[w].pc = "opened" /\ writer[w].fd = Thread /\ writer'[w].fd = Thread
        /\ Thread \in ThreadInodes
        /\ \A v \in Writers : v # w => writer'[v] = writer[v]
    BY <1>1, <1>2, <1>3, <1>8
       DEF WriterTries, InState, Thread, OpenedIsThread, paths, Writer, SInv, IInv, Writing
  <2>2. \A v \in Writers : v # w => writer[v].pc \notin {"opened", "closed"}
    BY <1>4, <2>1 DEF Coordinated
  <2>3. CASE threadOwner[Thread] = NoOne
    <3>1. /\ writer'[w].pc = "granted" /\ threadOwner'[Thread] = w
          /\ \A t \in ThreadInodes : t # Thread => threadOwner'[t] = threadOwner[t]
      BY <1>1, <1>8, <2>1, <2>3 DEF WriterTries, Writer
    <3>2. \A v \in Writers : ~Owns(v)
      BY <1>3, <2>3 DEF OwnerHasThread
    <3> QED BY <1>2, <1>3, <2>1, <2>2, <3>1, <3>2
            DEF OwnerHasThread, OwnersOwn, OpenedIsThread, ClosedIsFree, Owns, InState
  <2>4. CASE threadOwner[Thread] # NoOne
    <3>1. writer'[w].pc = "denied" /\ threadOwner' = threadOwner
      BY <1>1, <1>8, <2>1, <2>4 DEF WriterTries, Writer
    <3> QED BY <1>2, <1>3, <2>1, <2>2, <3>1
            DEF OwnerHasThread, OwnersOwn, OpenedIsThread, ClosedIsFree, Owns, InState
  <2> QED BY <2>3, <2>4
<1>9. CASE WriterLeaves(w)
  <2>1. /\ UNCHANGED <<threadAt, threadOwner>> /\ Thread' = Thread
        /\ \A v \in Writers : v # w => writer'[v] = writer[v]
        /\ \/ /\ writer[w].pc = "granted" /\ writer'[w].pc = "owning"
              /\ writer'[w].fd = writer[w].fd
           \/ writer[w].pc = "denied" /\ writer'[w].pc = "idle"
    BY <1>1, <1>2, <1>9 DEF WriterLeaves, Thread, paths, Writer
  <2> QED BY <1>2, <1>3, <2>1
          DEF OwnerHasThread, OwnersOwn, OpenedIsThread, ClosedIsFree, Owns, InState
<1>10. CASE WriterCloses(w) \/ WriterEnds(w)
  <2>1. /\ UNCHANGED threadAt /\ Thread' = Thread
        /\ \A v \in Writers : v # w => writer'[v] = writer[v]
        /\ \/ writer[w].pc = "dropping" /\ writer'[w].pc = "closed"
           \/ writer'[w].pc = "idle"
        /\ \A t \in ThreadInodes : IF threadOwner[t] = w THEN threadOwner'[t] = NoOne
                                   ELSE threadOwner'[t] = threadOwner[t]
    BY <1>1, <1>2, <1>10 DEF WriterCloses, WriterEnds, Thread, paths, Writer, InState, Without
  <2>2. OwnerHasThread'
    BY <1>1, <1>3, <2>1 DEF OwnerHasThread, Owns
  <2>3. OwnersOwn'
    BY <1>1, <1>3, <2>1 DEF OwnersOwn, Owns
  <2>4. OpenedIsThread'
    BY <1>2, <1>3, <2>1 DEF OpenedIsThread, InState
  <2>5. ClosedIsFree'
    <3>1. ASSUME writer[w].pc = "dropping", NEW v \in Writers, Owns(v) PROVE v = w
      BY <1>3, <3>1 DEF OwnerHasThread, Owns
    <3> QED BY <1>3, <2>1, <3>1 DEF ClosedIsFree, Owns, InState
  <2> QED BY <2>2, <2>3, <2>4, <2>5
<1>11. CASE WriterUnlinks(w)
  <2>1. /\ threadOwner' = threadOwner
        /\ writer[w].pc = "closed" /\ writer'[w].pc = "idle"
        /\ \A v \in Writers : v # w => writer'[v] = writer[v]
    BY <1>1, <1>11 DEF WriterUnlinks, InState, Writer
  <2>2. \A v \in Writers : ~Owns(v) /\ ~Owns(v)' /\ writer'[v].pc # "opened"
    BY <1>3, <1>4, <2>1 DEF ClosedIsFree, InState, Owns, Coordinated
  <2>3. \A p \in Probers : probe[p].tfd = NoInode
    BY <1>4, <2>1 DEF Coordinated
  <2> QED BY <1>2, <1>3, <2>1, <2>2, <2>3
          DEF OwnerHasThread, OwnersOwn, OpenedIsThread, ClosedIsFree, InState
<1> QED BY <1>5, <1>6, <1>7, <1>8, <1>9, <1>10, <1>11 DEF WriterStep

LEMMA NextSInv == SInv /\ [Next]_vars => SInv'
<1> SUFFICES ASSUME SInv, [Next]_vars PROVE ServiceInv'
  BY NextIInv DEF SInv
<1>1. CASE UNCHANGED vars
  BY <1>1 DEF vars, SInv, ServiceInv, Undisturbed, OwnerHasThread, OwnersOwn,
     OpenedIsThread, ClosedIsFree, Owns, InState, Thread
<1>2. ASSUME NEW p \in Probers, Begin(p) \/ Proceed(p) \/ Elapse(p) \/ Die(p)
      PROVE ServiceInv'
  BY <1>2, ProberFrame, ProberService DEF SInv
<1>3. CASE Others
  <2>1. CASE SpoilGuard
    BY <2>1 DEF SpoilGuard, SInv, ServiceInv, Undisturbed, OwnerHasThread, OwnersOwn,
       OpenedIsThread, ClosedIsFree, Owns, InState, Thread
  <2>2. CASE ReplaceGuard \/ ReplaceThread \/ MoveParent
    BY <2>2 DEF ReplaceGuard, ReplaceThread, MoveParent, ServiceInv, Undisturbed
  <2> QED BY <1>3, <2>1, <2>2 DEF Others
<1> QED BY <1>1, <1>2, <1>3, WriterServiceInv DEF Next

THEOREM ServiceInvariant == Spec => []SInv
<1> QED BY InitSInv, NextSInv, PTL DEF Spec

-----------------------------------------------------------------------------
\* Only these steps come to the verdict "free", and only a kill makes a prober
\* die.
LEMMA VerdictFrame ==
  ASSUME IInv, NEW p \in Probers, Begin(p) \/ Proceed(p) \/ Elapse(p) \/ Die(p)
  PROVE /\ \/ probe'[p].verdict \in {probe[p].verdict, "none", "unknown", "held"}
           \/ At(p, "observe") /\ Thread = NoInode
           \/ At(p, "flockThread") /\ threadOwner[probe[p].tfd] = NoOne
        /\ probe'[p].pc = "dying" => At(p, "dying") \/ ProbersMayDie
<1> DEFINE r == probe[p]
<1>1. r \in Probe /\ probe \in [Probers -> Probe]
  BY DEF IInv, TypeOK
<1>2. ASSUME NEW verdict, NEW guard, NEW stage, Result(p, verdict, guard, stage)
      PROVE probe'[p].verdict = verdict /\ probe'[p].pc = stage
  BY <1>1, <1>2 DEF Result, Local, Probe
<1>3. ASSUME NEW stage, Advance(p, stage) PROVE probe'[p].verdict = r.verdict /\ probe'[p].pc = stage
  BY <1>1, <1>3 DEF Advance, Local, Probe
<1>4. CASE Begin(p) \/ Wake(p)
  BY <1>1, <1>4 DEF Begin, Wake, Local, Fresh
<1>5. CASE Observe(p) \/ ObserveFails(p)
  <2>1. CASE Result(p, "free", "none", "decide") /\ Thread = NoInode
    <3>1. At(p, "observe") /\ probe'[p].pc = "decide"
      BY <1>2, <1>5, <2>1 DEF Observe, ObserveFails
    <3> QED BY <2>1, <3>1
  <2>2. CASE Local(p, [r EXCEPT !.pc = "statGuard", !.seen = Thread])
    BY <1>1, <2>2 DEF Local, Probe
  <2>3. CASE Result(p, "unknown", "unsafe", "decide") \/ Result(p, "unknown", "none", "decide")
    BY <1>2, <2>3
  <2> QED BY <1>5, <2>1, <2>2, <2>3 DEF Observe, ObserveFails
<1>6. CASE StatGuard(p)
  <2>1. CASE Local(p, [r EXCEPT !.pc = "openGuard", !.before = Guard, !.parent = parentAt])
    BY <1>1, <2>1 DEF Local, Probe
  <2>2. CASE Result(p, "unknown", "absent", "decide") \/ Result(p, "unknown", "unsafe", "decide")
    BY <1>2, <2>2
  <2> QED BY <1>6, <2>1, <2>2 DEF StatGuard
<1>7. CASE OpenGuard(p)
  <2>1. CASE Local(p, [r EXCEPT !.pc = "flockGuard", !.gfd = Guard])
    BY <1>1, <2>1 DEF Local, Probe
  <2>2. CASE Local(p, [r EXCEPT !.pc = "closeGuard", !.gfd = Guard,
                                !.verdict = "unknown", !.guard = "changed"])
    BY <1>1, <2>2 DEF Local, Probe
  <2>3. CASE Result(p, "unknown", "unsafe", "decide")
    BY <1>2, <2>3
  <2> QED BY <1>7, <2>1, <2>2, <2>3 DEF OpenGuard
<1>8. CASE RecheckGuard(p)
  <2>1. CASE Local(p, [r EXCEPT !.pc = "openThread", !.guard = "acquired"])
    BY <1>1, <2>1 DEF Local, Probe
  <2>2. CASE \/ Result(p, "unknown", "changed", "finalCheck")
             \/ Result(p, "unknown", "unsafe", "unlockGuard")
    BY <1>2, <2>2
  <2> QED BY <1>8, <2>1, <2>2 DEF RecheckGuard
<1>9. CASE OpenThread(p)
  <2>1. CASE Local(p, [r EXCEPT !.pc = "flockThread", !.tfd = Thread])
    BY <1>1, <2>1 DEF Local, Probe
  <2>2. CASE Result(p, "unknown", "acquired", "finalCheck")
    BY <1>2, <2>2
  <2> QED BY <1>9, <2>1, <2>2 DEF OpenThread
<1>10. CASE LockGuard(p)
  <2>1. CASE Result(p, "unknown", "busy", "finalCheck")
    BY <1>2, <2>1
  <2> QED BY <1>1, <1>10, <2>1 DEF LockGuard, Probe
<1>11. CASE LockThread(p)
  BY <1>1, <1>11 DEF LockThread, FlockVerdict, Probe
<1>12. CASE LockGuardFails(p) \/ LockThreadFails(p)
  <2>1. \/ Result(p, "unknown", "unsafe", "closeGuard")
        \/ Result(p, "unknown", "acquired", "recheckThread")
    BY <1>12 DEF LockGuardFails, LockThreadFails
  <2> QED BY <1>2, <2>1
<1>13. CASE RecheckThread(p) \/ FinalCheck(p)
  <2>1. \/ Result(p, "unknown", "acquired", "unlockThread")
        \/ Result(p, "unknown", "changed", "unlockGuard")
        \/ Result(p, "unknown", "unsafe", "unlockGuard")
        \/ Advance(p, "unlockThread") \/ Advance(p, "unlockGuard")
    BY <1>13 DEF RecheckThread, FinalCheck
  <2> QED BY <1>2, <1>3, <2>1
<1>14. CASE UnlockThread(p) \/ UnlockGuard(p)
  <2>1. CASE \/ probe' = [probe EXCEPT ![p].pc = "closeThread"]
             \/ probe' = [probe EXCEPT ![p].pc = "closeGuard"]
    BY <1>1, <2>1 DEF Probe
  <2>2. CASE \/ Result(p, "unknown", "acquired", "closeThread")
             \/ Result(p, "unknown", "unsafe", "closeGuard")
    BY <1>2, <2>2
  <2> QED BY <1>14, <2>1, <2>2 DEF UnlockThread, UnlockGuard
<1>15. CASE CloseThread(p)
  BY <1>1, <1>15 DEF CloseThread, Probe
<1>16. CASE CloseGuard(p)
  BY <1>1, <1>16 DEF CloseGuard, Probe
<1>17. CASE Decide(p)
  <2>1. CASE Local(p, [r EXCEPT !.pc = "asleep", !.slept = r.spent])
    BY <1>1, <2>1 DEF Local, Probe
  <2> QED BY <1>3, <1>17, <2>1 DEF Decide
<1>18. CASE Elapse(p)
  BY <1>1, <1>18 DEF Elapse, Local, Probe, At
<1>19. CASE Die(p) \/ Dead(p)
  BY <1>3, <1>19 DEF Die, Dead, Advance, Local
<1>20. CASE DyingClosesThread(p) \/ DyingClosesGuard(p)
  BY <1>1, <1>20 DEF DyingClosesThread, DyingClosesGuard, Probe, At
<1> QED BY <1>4, <1>5, <1>6, <1>7, <1>8, <1>9, <1>10, <1>11, <1>12, <1>13, <1>14, <1>15,
           <1>16, <1>17, <1>18, <1>19, <1>20 DEF Proceed, GuardedStep

\* A verdict "free" is true when it is reached: no writer has the thread.
THEOREM FreeIsFree == Spec => FreeIsTrue
<1> DEFINE Told ==
      \A p \in Probers :
        (probe[p].verdict # "free" /\ probe'[p].verdict = "free")
          => (bypassed \/ moved \/ ~\E w \in Writers : Owns(w))
<1>1. SInv /\ [Next]_vars => [Told]_vars
  <2> SUFFICES ASSUME SInv, Next, Undisturbed, NEW q \in Probers,
                      probe[q].verdict # "free", probe'[q].verdict = "free",
                      NEW w \in Writers, Owns(w)
               PROVE FALSE
    BY DEF Told, Undisturbed
  <2>1. /\ IInv /\ writer[w].fd = Thread /\ Thread # NoInode /\ threadOwner[Thread] = w
        /\ w # NoOne
    BY ProbeAssumption DEF SInv, ServiceInv, OwnerHasThread
  <2>2. PICK p \in Probers : Begin(p) \/ Proceed(p) \/ Elapse(p) \/ Die(p)
    <3>1. ASSUME NEW v \in Writers, WriterStep(v) PROVE UNCHANGED probe
      BY <3>1 DEF WriterStep, WriterEnters, WriterRemovesStale, WriterOpens, WriterTries,
         WriterLeaves, WriterDrops, WriterCloses, WriterUnlinks, WriterEnds
    <3>2. Others => UNCHANGED probe
      BY DEF Others, ReplaceGuard, SpoilGuard, ReplaceThread, MoveParent
    <3> QED BY <3>1, <3>2 DEF Next
  <2>3. Frame(p)
    BY <2>1, <2>2, ProberFrame
  <2>4. q = p
    BY <2>3 DEF Frame
  <2>5. At(p, "flockThread") /\ threadOwner[probe[p].tfd] = NoOne
    BY <2>1, <2>2, <2>4, VerdictFrame
  <2>6. probe[p].tfd = Thread
    <3>1. probe[p].tfd # NoInode
      BY <2>1, <2>5, Own DEF Holds, ThreadOpen, At
    <3> QED BY <3>1 DEF SInv, ServiceInv, OpenedIsThread
  <2> QED BY <2>1, <2>5, <2>6
<1> QED BY <1>1, ServiceInvariant, PTL DEF Spec, FreeIsTrue

-----------------------------------------------------------------------------
(* The refinement.                                                         *)

LEMMA HolderIs ==
  ASSUME SInv, Undisturbed
  PROVE /\ \A w \in Writers : Owns(w) => TheHolder = w
        /\ (\A w \in Writers : ~Owns(w)) => TheHolder = NoOne
<1>1. \A v, w \in Writers : Owns(v) /\ Owns(w) => v = w
  BY DEF SInv, ServiceInv, OwnerHasThread
<1> QED BY <1>1 DEF TheHolder

\* What a writer has been told, before and after a step of one writer.
LEMMA StutterService ==
  ASSUME \A v \in Writers : /\ Owns(v)' <=> Owns(v)
                            /\ InState(v, "denied")' <=> InState(v, "denied")
  PROVE UNCHANGED <<TheHolder, TheAnswer>>
<1>1. TheHolder' = TheHolder
  <2>1. CASE \E w \in Writers : Owns(w)
    <3>1. (CHOOSE w \in Writers : Owns(w))' = CHOOSE w \in Writers : Owns(w)
      OBVIOUS
    <3> QED BY <2>1, <3>1 DEF TheHolder
  <2>2. CASE \A w \in Writers : ~Owns(w)
    BY <2>2 DEF TheHolder
  <2> QED BY <2>1, <2>2
<1>2. TheAnswer' = TheAnswer
  BY DEF TheAnswer
<1> QED BY <1>1, <1>2

\* Whom a writer that tries the lock finds there is another writer.
LEMMA NoProbeLock ==
  ASSUME IInv, ~bypassed, NEW w \in Writers, InState(w, "opened")
  PROVE threadOwner[writer[w].fd] \notin Probers
<1> SUFFICES ASSUME NEW p \in Probers, threadOwner[writer[w].fd] = p PROVE FALSE
  OBVIOUS
<1>1. writer[w].fd \in ThreadInodes
  BY DEF IInv, TypeOK, Writing, Writer, InState
<1>2. probe[p].tfd = writer[w].fd
  BY <1>1, LockerHasGuard
<1>3. probe[p].tfd = NoInode
  BY NoProbeInside DEF InState, Coordinated
<1> QED BY <1>1, <1>2, <1>3, ProbeAssumption

LEMMA AnswerStep ==
  ASSUME SInv, SInv', Undisturbed, Undisturbed', NEW w \in Writers, WriterStep(w)
  PROVE [Service!Next]_<<TheHolder, TheAnswer>>
<1> USE ProbeAssumption
<1>1. /\ writer \in [Writers -> Writer] /\ w # NoOne
      /\ \A v \in Writers : v # w => writer'[v] = writer[v]
  BY DEF SInv, IInv, TypeOK, WriterStep, WriterEnters, WriterRemovesStale, WriterOpens,
     WriterTries, WriterLeaves, WriterDrops, WriterCloses, WriterUnlinks, WriterEnds
<1>2. \A v \in Writers : v # w => /\ Owns(v)' <=> Owns(v)
                                  /\ InState(v, "denied")' <=> InState(v, "denied")
  BY <1>1 DEF Owns, InState
<1>3. /\ \A v \in Writers : Owns(v) => TheHolder = v
      /\ (\A v \in Writers : ~Owns(v)) => TheHolder = NoOne
  BY HolderIs
<1>4. /\ \A v \in Writers : Owns(v)' => TheHolder' = v
      /\ (\A v \in Writers : ~Owns(v)') => TheHolder' = NoOne
  <2>1. \A u, v \in Writers : Owns(u)' /\ Owns(v)' => u = v
    BY DEF SInv, ServiceInv, OwnerHasThread
  <2> QED BY <2>1 DEF TheHolder
<1>5. TheAnswer' = [TheAnswer EXCEPT ![w] = TheAnswer'[w]]
  <2>1. \A v \in Writers : v # w => TheAnswer'[v] = TheAnswer[v]
    BY <1>2 DEF TheAnswer
  <2>2. /\ TheAnswer = [v \in Writers |-> TheAnswer[v]]
        /\ TheAnswer' = [v \in Writers |-> TheAnswer'[v]]
    BY DEF TheAnswer
  <2> QED BY <2>1, <2>2
<1>6. CASE /\ Owns(w)' <=> Owns(w)
           /\ InState(w, "denied")' <=> InState(w, "denied")
  BY <1>2, <1>6, StutterService
<1>7. CASE InState(w, "opened") /\ Owns(w)' /\ \A v \in Writers : ~Owns(v)
  <2>1. TheAnswer[w] = "none" /\ TheAnswer'[w] = "granted"
    BY <1>7 DEF TheAnswer, InState
  <2>2. Service!Grant(w)
    BY <1>3, <1>4, <1>5, <1>7, <2>1 DEF Service!Grant
  <2> QED BY <2>2 DEF Service!Next
<1>8. CASE InState(w, "opened") /\ InState(w, "denied")' /\ \E v \in Writers : Owns(v)
  <2>1. ~Owns(w) /\ ~Owns(w)'
    BY <1>8 DEF Owns, InState
  <2>2. TheAnswer[w] = "none" /\ TheAnswer'[w] = "denied"
    BY <1>8, <2>1 DEF TheAnswer, InState
  <2>3. PICK v \in Writers : Owns(v) /\ v # w /\ Owns(v)'
    BY <1>2, <1>8, <2>1
  <2>4. TheHolder = v /\ TheHolder' = v
    BY <1>3, <1>4, <2>3
  <2>5. Service!Deny(w)
    BY <1>5, <2>2, <2>3, <2>4 DEF Service!Deny
  <2> QED BY <2>5 DEF Service!Next
<1>9. CASE Owns(w) /\ ~Owns(w)' /\ ~InState(w, "denied")'
  <2>1. TheAnswer'[w] = "none"
    BY <1>9 DEF TheAnswer
  <2>2. \A v \in Writers : ~Owns(v)'
    <3>1. \A v \in Writers : Owns(v) => v = w
      BY <1>3, <1>9
    <3> QED BY <1>2, <1>9, <3>1
  <2>3. Service!Release(w)
    BY <1>3, <1>4, <1>5, <1>9, <2>1, <2>2 DEF Service!Release
  <2> QED BY <2>3 DEF Service!Next
<1>10. CASE InState(w, "denied") /\ ~Owns(w)' /\ ~InState(w, "denied")'
  <2>1. ~Owns(w)
    BY <1>10 DEF Owns, InState
  <2>2. TheAnswer[w] = "denied" /\ TheAnswer'[w] = "none"
    BY <1>10, <2>1 DEF TheAnswer
  <2>3. TheHolder' = TheHolder
    <3>1. CASE \E v \in Writers : Owns(v)
      BY <1>2, <1>3, <1>4, <2>1, <3>1
    <3>2. CASE \A v \in Writers : ~Owns(v)
      BY <1>2, <1>3, <1>4, <1>10, <3>2
    <3> QED BY <3>1, <3>2
  <2>4. Service!Retire(w)
    BY <1>5, <2>2, <2>3 DEF Service!Retire
  <2> QED BY <2>4 DEF Service!Next
<1>11. CASE WriterTries(w)
  <2>1. IInv /\ OwnerHasThread /\ OwnersOwn /\ writer[w].fd = Thread /\ Thread # NoInode
    BY <1>11 DEF SInv, ServiceInv, OpenedIsThread, WriterTries, InState, IInv, Writing
  <2>2. InState(w, "opened")
    BY <1>11 DEF WriterTries
  <2>3. CASE threadOwner[writer[w].fd] = NoOne
    <3>1. Owns(w)'
      BY <1>1, <1>11, <2>3 DEF WriterTries, Owns, Writer
    <3>2. \A v \in Writers : ~Owns(v)
      BY <2>1, <2>3 DEF OwnerHasThread
    <3> QED BY <1>7, <2>2, <3>1, <3>2
  <2>4. CASE threadOwner[writer[w].fd] # NoOne
    <3>1. InState(w, "denied")'
      BY <1>1, <1>11, <2>4 DEF WriterTries, InState, Writer
    <3>2. threadOwner[writer[w].fd] \notin Probers
      BY <2>1, <2>2, NoProbeLock DEF Undisturbed
    <3>3. threadOwner[Thread] \in Writers
      BY <2>1, <2>4, <3>2, Own DEF IInv, TypeOK, Thread
    <3>4. \E v \in Writers : Owns(v)
      BY <2>1, <3>3 DEF OwnersOwn, IInv, TypeOK, Thread
    <3> QED BY <1>8, <2>2, <3>1, <3>4
  <2> QED BY <2>3, <2>4
<1>12. CASE WriterLeaves(w) \/ WriterCloses(w) \/ WriterEnds(w)
  <2>1. \/ InState(w, "granted") /\ writer'[w].pc = "owning"
        \/ InState(w, "denied") /\ writer'[w].pc = "idle"
        \/ InState(w, "dropping") /\ writer'[w].pc = "closed"
        \/ writer'[w].pc = "idle"
    BY <1>1, <1>12 DEF WriterLeaves, WriterCloses, WriterEnds, InState, Writer
  <2> QED BY <1>6, <1>9, <1>10, <2>1 DEF Owns, InState
<1>13. CASE \/ WriterEnters(w) \/ WriterRemovesStale(w) \/ WriterOpens(w)
            \/ WriterDrops(w) \/ WriterUnlinks(w)
  BY <1>1, <1>6, <1>13 DEF WriterEnters, WriterRemovesStale, WriterOpens, WriterDrops,
     WriterUnlinks, Owns, InState, Writer
<1> QED BY <1>11, <1>12, <1>13 DEF WriterStep

\* As long as neither the guard nor the thread file is replaced, nor the guard
\* lost by a probe that dies, every step is one of WriterService or none of it.
THEOREM Implements == Spec /\ []Undisturbed => ServiceSpec
<1>1. Init => Service!Init
  <2> SUFFICES ASSUME Init PROVE TheHolder = NoOne /\ TheAnswer = [w \in Writers |-> "none"]
    BY DEF Service!Init
  <2>1. \A w \in Writers : ~Owns(w) /\ ~InState(w, "denied")
    BY DEF Init, Owns, InState
  <2> QED BY <2>1 DEF TheHolder, TheAnswer
<1>2. SInv /\ SInv' /\ Undisturbed /\ Undisturbed' /\ [Next]_vars
        => [Service!Next]_<<TheHolder, TheAnswer>>
  <2> SUFFICES ASSUME SInv, SInv', Undisturbed, Undisturbed', [Next]_vars
               PROVE [Service!Next]_<<TheHolder, TheAnswer>>
    OBVIOUS
  <2>1. CASE UNCHANGED writer
    BY <2>1, StutterService DEF Owns, InState
  <2>2. (\E w \in Writers : WriterStep(w)) \/ UNCHANGED writer
    <3>1. ASSUME NEW p \in Probers, Begin(p) \/ Proceed(p) \/ Elapse(p) \/ Die(p)
          PROVE UNCHANGED writer
      BY <3>1, ProberFrame DEF SInv, Frame
    <3>2. Others => UNCHANGED writer
      BY DEF Others, ReplaceGuard, SpoilGuard, ReplaceThread, MoveParent
    <3> QED BY <3>1, <3>2 DEF Next, vars
  <2> QED BY <2>1, <2>2, AnswerStep
<1> QED BY <1>1, <1>2, ServiceInvariant, PTL DEF Spec, ServiceSpec, Service!Spec

\* Without interference and kills the condition always holds: probes are
\* invisible to writers.
THEOREM Transparent ==
  ASSUME TamperBound = 0, ~ProbersMayDie
  PROVE Spec => ServiceSpec
<1> DEFINE Quiet == Undisturbed /\ \A p \in Probers : probe[p].pc # "dying"
<1>1. Init => Quiet
  BY DEF Init, Undisturbed, Fresh
<1>2. SInv /\ Quiet /\ [Next]_vars => Quiet'
  <2> SUFFICES ASSUME SInv, Quiet, [Next]_vars PROVE Quiet'
    OBVIOUS
  <2>1. CASE UNCHANGED vars
    BY <2>1 DEF vars, Undisturbed
  <2>2. ASSUME NEW p \in Probers, Begin(p) \/ Proceed(p) \/ Elapse(p) \/ Die(p)
        PROVE Quiet'
    <3>1. IInv /\ Frame(p)
      BY <2>2, ProberFrame DEF SInv
    <3>2. \A q \in Probers : probe'[q].pc # "dying"
      BY <2>2, <3>1, VerdictFrame DEF Frame, At
    <3>3. UNCHANGED <<bypassed, moved>>
      <4>1. ~DyingClosesGuard(p)
        BY DEF DyingClosesGuard, At
      <4>2. CASE LockGuard(p) \/ LockThread(p) \/ UnlockThread(p) \/ CloseThread(p)
                 \/ UnlockGuard(p) \/ CloseGuard(p) \/ DyingClosesThread(p)
        BY <4>2 DEF LockGuard, LockThread, UnlockThread, CloseThread, UnlockGuard,
           CloseGuard, DyingClosesThread, Result, Local, history
      <4>3. CASE \E rec : Local(p, rec)
        BY <4>3 DEF Local, history
      <4> QED BY <2>2, <4>1, <4>2, <4>3
              DEF Begin, Elapse, Die, Proceed, GuardedStep, Observe, ObserveFails,
                  StatGuard, OpenGuard, LockGuardFails, RecheckGuard, OpenThread,
                  LockThreadFails, RecheckThread, FinalCheck, Decide, Wake, Dead,
                  Result, Advance, Local, history
    <3> QED BY <3>2, <3>3 DEF Undisturbed
  <2>3. ASSUME NEW w \in Writers, WriterStep(w) PROVE Quiet'
    BY <2>3 DEF WriterStep, WriterEnters, WriterRemovesStale, WriterOpens, WriterTries,
       WriterLeaves, WriterDrops, WriterCloses, WriterUnlinks, WriterEnds, history,
       Undisturbed
  <2>4. ~Others
    BY DEF Others, ReplaceGuard, SpoilGuard, ReplaceThread, MoveParent, Tamper,
       SInv, IInv, TypeOK
  <2> QED BY <2>1, <2>2, <2>3, <2>4 DEF Next
<1>3. Quiet => Undisturbed
  OBVIOUS
<1>4. Spec => []Undisturbed
  BY <1>1, <1>2, <1>3, ServiceInvariant, PTL DEF Spec
<1> QED BY <1>4, Implements, PTL
=============================================================================
