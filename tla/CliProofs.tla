----------------------------- MODULE CliProofs -----------------------------
(***************************************************************************)
(* One invocation of codex-unlock, for every argument list, environment,   *)
(* number of threads, limit of the answer and answer of the registry: the  *)
(* usage is decided as the roles of the arguments say, the caller gets one *)
(* verdict, the advisory keeps to its policy, a version that is reported   *)
(* is vouched for, and the list that is written is complete.  The loops    *)
(* over argv are recursive functions; what they compute is proved by       *)
(* induction on the number of arguments that were taken (UpTo).            *)
(***************************************************************************)
EXTENDS Cli, FiniteSetTheorems, SequenceTheorems, WellFoundedInduction,
        NaturalsInduction, TLAPS

-----------------------------------------------------------------------------
(* The worker pool of the list command.                                    *)

\* The threads up to nextIndex are stored, failed or at a worker, and no others.
Accounted ==
  \A t \in 1..Threads :
    t <= nextIndex <=> (t \in sessions \cup errors \/ \E w \in Workers : at[w] = t)

\* A worker that has retired has nothing to do, nor will it again.
Retired ==
  \A w \in Workers \ running : ~Busy(w) /\ ~MayDispatch

Ended ==
  /\ failed <=> errors # {}
  /\ outcome # "pending" => running = {}
  /\ outcome = "listed" => ~failed

IInv == TypeOK /\ Accounted /\ EachOnce /\ Retired /\ Ended

\* The first worker exists unless there is nothing to inspect.
LEMMA SomeWorker == ASSUME Threads # 0 PROVE 1 \in Workers
  BY ListAssumption DEF Workers

LEMMA InitIInv == Init => IInv
<1> SUFFICES ASSUME Init PROVE IInv
  OBVIOUS
<1> USE ListAssumption DEF Init, None
<1>1. \A w \in Workers : at[w] = 0
  OBVIOUS
<1>2. TypeOK
  <2>1. at \in [Workers -> 0..Threads]
    OBVIOUS
  <2>2. nextIndex \in 0..Threads /\ firstError \in 0..Threads
    OBVIOUS
  <2>3. /\ running \subseteq Workers /\ sessions \subseteq 1..Threads
        /\ errors \subseteq 1..Threads
    OBVIOUS
  <2>4. failed \in BOOLEAN /\ outcome \in {"pending", "listed", "threw"}
    BY Zenon
  <2> QED BY <2>1, <2>2, <2>3, <2>4, Zenon DEF TypeOK
<1>3. Accounted
  BY <1>1 DEF Accounted
<1>4. EachOnce /\ Retired /\ Ended
  BY <1>1 DEF EachOnce, Retired, Ended, Busy
<1> QED BY <1>2, <1>3, <1>4 DEF IInv

\* Taking the next thread: it was neither stored nor failed nor at a worker.
LEMMA DispatchIInv ==
  ASSUME IInv, NEW w \in Workers, Dispatch(w) PROVE IInv'
<1> USE ListAssumption
<1>1. /\ nextIndex \in 0..Threads /\ nextIndex < Threads /\ ~failed
      /\ nextIndex' = nextIndex + 1 /\ nextIndex' \in 1..Threads
      /\ at \in [Workers -> 0..Threads]
      /\ at' = [at EXCEPT ![w] = nextIndex'] /\ at[w] = 0 /\ w \in running
  BY DEF IInv, TypeOK, Dispatch, MayDispatch, Busy, None
<1>2. UNCHANGED <<running, sessions, failed, firstError, errors, outcome>>
  BY DEF Dispatch
<1>3. TypeOK'
  BY <1>1, <1>2 DEF IInv, TypeOK
<1>4. at'[w] = nextIndex' /\ \A v \in Workers : v # w => at'[v] = at[v]
  BY <1>1
<1>5. /\ nextIndex' \notin sessions \cup errors
      /\ \A v \in Workers : at[v] # nextIndex'
  <2>1. ~(nextIndex' <= nextIndex)
    BY <1>1
  <2> QED BY <1>1, <2>1 DEF IInv, Accounted
<1>6. Accounted'
  <2> SUFFICES ASSUME NEW t \in 1..Threads
               PROVE t <= nextIndex' <=> (t \in sessions \cup errors
                                          \/ \E v \in Workers : at'[v] = t)
    BY <1>2 DEF Accounted
  <2>1. t <= nextIndex <=> (t \in sessions \cup errors \/ \E v \in Workers : at[v] = t)
    BY DEF IInv, Accounted
  <2>2. t <= nextIndex' <=> (t <= nextIndex \/ t = nextIndex')
    BY <1>1
  <2>3. (\E v \in Workers : at'[v] = t) <=> (t = nextIndex' \/ \E v \in Workers : at[v] = t)
    BY <1>1, <1>4
  <2> QED BY <2>1, <2>2, <2>3
<1>7. EachOnce'
  BY <1>1, <1>2, <1>4, <1>5 DEF IInv, EachOnce, Busy, None
<1>8. Retired'
  <2>1. running = Workers
    BY <1>1 DEF IInv, Retired, MayDispatch, TypeOK
  <2> QED BY <1>2, <2>1 DEF Retired
<1>9. Ended'
  BY <1>2 DEF IInv, Ended
<1> QED BY <1>3, <1>6, <1>7, <1>8, <1>9 DEF IInv

LEMMA RetireIInv ==
  ASSUME IInv, NEW w \in Workers, Retire(w) PROVE IInv'
<1>1. /\ running' = running \ {w} /\ w \in running /\ ~Busy(w) /\ ~MayDispatch
      /\ UNCHANGED <<nextIndex, at, sessions, failed, firstError, errors, outcome>>
  BY DEF Retire
<1>2. TypeOK' /\ Accounted' /\ EachOnce' /\ Ended'
  BY <1>1 DEF IInv, TypeOK, Accounted, EachOnce, Ended, Busy
<1>3. Retired'
  BY <1>1 DEF IInv, Retired, Busy, MayDispatch
<1> QED BY <1>2, <1>3 DEF IInv

\* A worker's thread leaves it for sessions or for errors.
LEMMA FinishedIInv ==
  ASSUME IInv, NEW w \in Workers, Busy(w), at' = [at EXCEPT ![w] = None],
         sessions' \cup errors' = sessions \cup errors \cup {at[w]},
         UNCHANGED <<nextIndex, running>>,
         failed => failed'
  PROVE Accounted' /\ EachOnce' /\ Retired'
<1> USE ListAssumption
<1>1. at \in [Workers -> 0..Threads] /\ at[w] \in 1..Threads /\ running \subseteq Workers
  BY DEF IInv, TypeOK, Busy, None
<1>2. at'[w] = 0 /\ \A v \in Workers : v # w => at'[v] = at[v]
  BY <1>1 DEF None
<1>3. \A v \in Workers : at[v] = at[w] => v = w
  BY DEF IInv, EachOnce
<1>4. Accounted'
  <2> SUFFICES ASSUME NEW t \in 1..Threads
               PROVE t <= nextIndex <=> (t \in sessions' \cup errors'
                                         \/ \E v \in Workers : at'[v] = t)
    BY DEF Accounted
  <2>1. t <= nextIndex <=> (t \in sessions \cup errors \/ \E v \in Workers : at[v] = t)
    BY DEF IInv, Accounted
  <2>2. (\E v \in Workers : at[v] = t) <=> (t = at[w] \/ \E v \in Workers : at'[v] = t)
    BY <1>1, <1>2
  <2> QED BY <2>1, <2>2
<1>5. EachOnce'
  BY <1>1, <1>2, <1>3 DEF IInv, EachOnce, Busy, None
<1>6. Retired'
  BY <1>1, <1>2 DEF IInv, Retired, Busy, MayDispatch, None
<1> QED BY <1>4, <1>5, <1>6

LEMMA SucceedsIInv ==
  ASSUME IInv, NEW w \in Workers, Succeeds(w) PROVE IInv'
<1>1. /\ at[w] \in 1..Threads /\ at \in [Workers -> 0..Threads]
      /\ running \in SUBSET Workers
  BY ListAssumption DEF IInv, TypeOK, Succeeds, Busy, None
<1>2. TypeOK'
  <2>1. 0 \in 0..Threads /\ at' = [at EXCEPT ![w] = 0]
    BY ListAssumption DEF Succeeds, None
  <2>2. at' \in [Workers -> 0..Threads]
    BY <1>1, <2>1
  <2>3. sessions' \subseteq 1..Threads
    BY <1>1 DEF IInv, TypeOK, Succeeds
  <2> QED BY <2>2, <2>3, Zenon DEF IInv, TypeOK, Succeeds
<1>3. Ended'
  BY DEF IInv, Ended, Succeeds
<1>4. Accounted' /\ EachOnce' /\ Retired'
  BY FinishedIInv DEF Succeeds
<1> QED BY <1>2, <1>3, <1>4 DEF IInv

LEMMA ThrowsIInv ==
  ASSUME IInv, NEW w \in Workers, Throws(w) PROVE IInv'
<1>1. /\ at[w] \in 1..Threads /\ at \in [Workers -> 0..Threads]
      /\ running \in SUBSET Workers
  BY ListAssumption DEF IInv, TypeOK, Throws, Busy, None
<1>2. TypeOK'
  <2>1. 0 \in 0..Threads /\ at' = [at EXCEPT ![w] = 0] /\ at[w] \in 0..Threads
    BY <1>1, ListAssumption DEF Throws, None
  <2>2. at' \in [Workers -> 0..Threads]
    BY <1>1, <2>1
  <2>3. errors' \subseteq 1..Threads
    BY <1>1 DEF IInv, TypeOK, Throws
  <2>4. firstError' \in 0..Threads
    BY <2>1 DEF IInv, TypeOK, Throws, KeepFirst
  <2>5. failed' \in BOOLEAN
    BY Zenon DEF Throws
  <2> QED BY <2>2, <2>3, <2>4, <2>5, Zenon DEF IInv, TypeOK, Throws
<1>3. Ended'
  <2>1. w \in running
    BY DEF IInv, Retired, Throws
  <2> QED BY <2>1 DEF IInv, Ended, Throws
<1>4. Accounted' /\ EachOnce' /\ Retired'
  BY FinishedIInv DEF Throws
<1> QED BY <1>2, <1>3, <1>4 DEF IInv

LEMMA SettleIInv == ASSUME IInv, Settle PROVE IInv'
<1>1. TypeOK' /\ Accounted' /\ EachOnce' /\ Retired'
  BY DEF IInv, TypeOK, Accounted, EachOnce, Retired, Settle, Busy, MayDispatch
<1>2. Ended'
  BY DEF IInv, Ended, Settle, Drained
<1> QED BY <1>1, <1>2 DEF IInv

LEMMA NextIInv == IInv /\ [Next]_vars => IInv'
<1> SUFFICES ASSUME IInv, [Next]_vars PROVE IInv'
  OBVIOUS
<1>1. CASE Settle
  BY <1>1, SettleIInv
<1>2. ASSUME NEW w \in Workers, Worker(w) PROVE IInv'
  BY <1>2, DispatchIInv, RetireIInv, SucceedsIInv, ThrowsIInv DEF Worker
<1>3. CASE UNCHANGED vars
  BY <1>3 DEF vars, IInv, TypeOK, Accounted, EachOnce, Retired, Ended, Busy, MayDispatch
<1> QED BY <1>1, <1>2, <1>3 DEF Next

\* The invariant holds throughout.
THEOREM Invariant == Spec => []IInv
  BY InitIInv, NextIInv, PTL DEF Spec

\* Every variable keeps its type.
THEOREM TypeCorrect == Spec => []TypeOK
<1>1. IInv => TypeOK
  BY DEF IInv
<1> QED BY <1>1, Invariant, PTL

\* No thread is inspected twice, by one worker or by two.
THEOREM InspectedOnce == Spec => []EachOnce
<1>1. IInv => EachOnce
  BY DEF IInv
<1> QED BY <1>1, Invariant, PTL

\* The caller learns the result only when every inspection has ended.
THEOREM AllDrained == Spec => []NoStragglers
<1>1. IInv => NoStragglers
  BY DEF IInv, NoStragglers, Retired, Ended
<1> QED BY <1>1, Invariant, PTL

LEMMA NoneMissed == IInv => Complete
<1> SUFFICES ASSUME IInv, outcome = "listed"
             PROVE sessions = 1..Threads /\ errors = {}
  BY DEF Complete
<1>1. /\ running = {} /\ ~failed /\ errors = {}
      /\ nextIndex \in 0..Threads /\ sessions \subseteq 1..Threads
  BY DEF IInv, Ended, TypeOK
<1>2. \A w \in Workers : at[w] = 0 /\ ~MayDispatch
  BY <1>1 DEF IInv, Retired, Busy, None
<1>3. nextIndex = Threads
  <2>1. CASE Threads = 0
    BY <1>1, <2>1
  <2>2. CASE Threads # 0
    BY <1>1, <1>2, <2>2, SomeWorker, ListAssumption DEF MayDispatch
  <2> QED BY <2>1, <2>2
<1>4. ASSUME NEW t \in 1..Threads PROVE t \in sessions
  <2>1. t # 0 /\ t <= nextIndex
    BY <1>3, ListAssumption
  <2> QED BY <1>1, <1>2, <2>1 DEF IInv, Accounted
<1> QED BY <1>1, <1>4

\* A list that is returned has a result for every thread.
THEOREM ListComplete == Spec => []Complete
  BY NoneMissed, Invariant, PTL

\* After the first failure no step changes the error that will be thrown or
\* dispatches a thread.
THEOREM FirstErrorKept == Spec => FirstErrorStands
<1>1. [Next]_vars => [failed => firstError' = firstError /\ nextIndex' = nextIndex]_vars
  BY DEF Next, Worker, Settle, Dispatch, MayDispatch, Retire, Succeeds, Throws,
         KeepFirst, vars
<1> QED BY <1>1, PTL DEF Spec, FirstErrorStands

-----------------------------------------------------------------------------
(* Loops over a sequence.                                                  *)

\* Induction over the numbers up to a bound, without an operator parameter.
LEMMA UpTo ==
  ASSUME NEW n \in Nat, NEW T, 0 \in T,
         \A k \in 0..(n - 1) : k \in T => k + 1 \in T
  PROVE  \A k \in 0..n : k \in T
<1> DEFINE Missed == {k \in 0..n : k \notin T}
<1> SUFFICES ASSUME Missed # {} PROVE FALSE
  OBVIOUS
<1>1. IsWellFoundedOn(OpToRel(<, Nat), Nat)
  BY NatLessThanWellFounded
<1>2. Missed \subseteq Nat
  OBVIOUS
<1>3. PICK m \in Missed : \A k \in Missed : <<k, m>> \notin OpToRel(<, Nat)
  <2> HIDE DEF Missed
  <2> QED BY <1>1, <1>2, WFMin
<1>4. \A k \in Missed : ~(k < m)
  BY <1>2, <1>3 DEF OpToRel
<1>5. m # 0 /\ m - 1 \in 0..(n - 1)
  OBVIOUS
<1>6. m - 1 \notin Missed
  BY <1>4, <1>5
<1> QED BY <1>5, <1>6

\* f[k] is the state of a loop after k elements of the sequence s.
Loop(f, S, base, turn, s) ==
  /\ f \in [0..Len(s) -> S]
  /\ f[0] = base
  /\ \A k \in 1..Len(s) : f[k] = turn[<<f[k - 1], s[k]>>]

LEMMA LoopExists ==
  ASSUME NEW S, NEW R, NEW base \in S, NEW turn \in [S \X R -> S], NEW s \in Seq(R)
  PROVE  \E f : Loop(f, S, base, turn, s)
<1> DEFINE n == Len(s)
           Runs0(f, m) == /\ f \in [0..m -> S] /\ f[0] = base
                          /\ \A k \in 1..m : f[k] = turn[<<f[k - 1], s[k]>>]
           Done == {m \in 0..n : \E f : Runs0(f, m)}
<1>1. 0 \in Done
  <2>1. Runs0([k \in 0..0 |-> base], 0)
    OBVIOUS
  <2>2. 0 \in 0..n
    OBVIOUS
  <2> QED BY <2>1, <2>2
<1>2. ASSUME NEW m \in 0..(n - 1), m \in Done PROVE m + 1 \in Done
  <2>1. PICK f : Runs0(f, m)
    BY <1>2
  <2> DEFINE g == [k \in 0..(m + 1) |-> IF k = m + 1 THEN turn[<<f[m], s[m + 1]>>] ELSE f[k]]
  <2>2. turn[<<f[m], s[m + 1]>>] \in S
    <3>1. f[m] \in S /\ s[m + 1] \in R
      BY <2>1
    <3> QED BY <3>1
  <2>3. g \in [0..(m + 1) -> S]
    BY <2>1, <2>2
  <2>4. g[0] = base /\ g[m + 1] = turn[<<f[m], s[m + 1]>>] /\ \A k \in 0..m : g[k] = f[k]
    BY <2>1
  <2> HIDE DEF g
  <2>5. \A k \in 1..(m + 1) : g[k] = turn[<<g[k - 1], s[k]>>]
    <3> SUFFICES ASSUME NEW k \in 1..(m + 1) PROVE g[k] = turn[<<g[k - 1], s[k]>>]
      OBVIOUS
    <3>1. CASE k = m + 1
      <4> k - 1 = m
        BY <3>1
      <4> QED BY <3>1, <2>4
    <3>2. CASE k # m + 1
      <4>1. k \in 1..m /\ k - 1 \in 0..m
        BY <3>2
      <4>2. f[k] = turn[<<f[k - 1], s[k]>>]
        BY <2>1, <4>1
      <4>3. g[k] = f[k] /\ g[k - 1] = f[k - 1]
        BY <2>4, <4>1
      <4> QED BY <4>2, <4>3, Zenon
    <3> QED BY <3>1, <3>2
  <2>6. m + 1 \in 0..n
    OBVIOUS
  <2>7. Runs0(g, m + 1)
    BY <2>3, <2>4, <2>5
  <2> QED BY <2>6, <2>7
<1>3. n \in Done
  <2>1. n \in Nat
    OBVIOUS
  <2> HIDE DEF Done, n
  <2>2. \A k \in 0..n : k \in Done
    BY <1>1, <1>2, <2>1, UpTo
  <2> QED BY <2>1, <2>2
<1> QED BY <1>3 DEF Loop

-----------------------------------------------------------------------------
(* parseArguments and requestedCommand take the arguments one by one.       *)

Options(R) ==
  [json : BOOLEAN, quiet : BOOLEAN, lock : BOOLEAN, home : R \cup {"default"},
   stability : Stabilities, timeout : Timeouts]

\* The states of parseArguments' loop over arguments from R.
Scans(R) ==
  [awaiting : {""} \cup ValueOptions, words : Seq(R),
   standalone : {"", "help", "version"}, failed : BOOLEAN, options : Options(R)]

LEMMA DefaultsTyped == ASSUME NEW R PROVE Defaults \in Options(R)
<1>1. 1000 \in Stabilities /\ 5000 \in Timeouts
  BY DEF Stabilities, Timeouts
<1> QED BY <1>1, SMT DEF Defaults, Options

LEMMA ScanIsOne == ASSUME NEW R PROVE Scan \in Scans(R)
<1>1. <<>> \in Seq(R)
  OBVIOUS
<1> QED BY <1>1, DefaultsTyped DEF Scan, Scans

LEMMA NumbersInRange ==
  ASSUME NEW value
  PROVE  /\ InRange(value, Stabilities) => Numbers[value] \in Stabilities
         /\ InRange(value, Timeouts) => Numbers[value] \in Timeouts
  BY DEF InRange

LEMMA ScanValueTyped ==
  ASSUME NEW R, NEW s \in Scans(R), NEW value \in R, s.awaiting # ""
  PROVE  ScanValue(s, value) \in Scans(R)
<1> DEFINE taken(o) == [s EXCEPT !.awaiting = "", !.options = o]
           error == [s EXCEPT !.failed = TRUE]
           number == Numbers[value]
<1>1. \A o \in Options(R) : taken(o) \in Scans(R)
  BY DEF Scans
<1>2. error \in Scans(R)
  BY DEF Scans
<1>3. s.options \in Options(R)
  BY DEF Scans
<1>4. [s.options EXCEPT !.home = value] \in Options(R)
  BY <1>3 DEF Options
<1>5. number \in Stabilities => [s.options EXCEPT !.stability = number] \in Options(R)
  BY <1>3 DEF Options
<1>6. number \in Timeouts => [s.options EXCEPT !.timeout = number] \in Options(R)
  BY <1>3 DEF Options
<1>7. \/ ScanValue(s, value) = taken([s.options EXCEPT !.home = value])
      \/ /\ ScanValue(s, value) = taken([s.options EXCEPT !.stability = number])
         /\ number \in Stabilities
      \/ /\ ScanValue(s, value) = taken([s.options EXCEPT !.timeout = number])
         /\ number \in Timeouts
      \/ ScanValue(s, value) = error
  <2> DEFINE h == [s EXCEPT !.awaiting = "", !.options.home = value]
             i == [s EXCEPT !.awaiting = "", !.options.stability = Numbers[value]]
             t == [s EXCEPT !.awaiting = "", !.options.timeout = Numbers[value]]
  <2>1. /\ h = taken([s.options EXCEPT !.home = value])
        /\ i = taken([s.options EXCEPT !.stability = number])
        /\ t = taken([s.options EXCEPT !.timeout = number])
    BY DEF Scans
  <2>2. InRange(value, Stabilities) => number \in Stabilities
    BY NumbersInRange
  <2>3. InRange(value, Timeouts) => number \in Timeouts
    BY NumbersInRange
  <2> DEFINE H == s.awaiting = "--codex-home" /\ value \notin Dashed /\ value # ""
             I == s.awaiting = "--stability-ms" /\ InRange(value, Stabilities)
             T == s.awaiting = "--timeout-ms" /\ InRange(value, Timeouts)
  <2>4. ScanValue(s, value) = CASE H -> h [] I -> i [] T -> t [] OTHER -> error
    BY DEF ScanValue
  <2>5. (I => number \in Stabilities) /\ (T => number \in Timeouts)
    BY <2>2, <2>3
  <2> HIDE DEF h, i, t, taken, error, number, H, I, T
  <2>6. \/ ScanValue(s, value) = h
        \/ ScanValue(s, value) = i /\ I
        \/ ScanValue(s, value) = t /\ T
        \/ ScanValue(s, value) = error
    BY <2>4
  <2> QED BY <2>1, <2>5, <2>6
<1> HIDE DEF taken, error, number
<1> QED BY <1>1, <1>2, <1>4, <1>5, <1>6, <1>7

LEMMA ScanTyped ==
  ASSUME NEW R, NEW s \in Scans(R), NEW argument \in R
  PROVE  ScanArgument(s, argument) \in Scans(R)
<1>1. FirstStandalone(s, "help") \in {"", "help", "version"}
  BY DEF FirstStandalone, Scans
<1>2. FirstStandalone(s, "version") \in {"", "help", "version"}
  BY DEF FirstStandalone, Scans
<1>3. [s EXCEPT !.standalone = FirstStandalone(s, "help")] \in Scans(R)
  BY <1>1 DEF Scans
<1>4. [s EXCEPT !.standalone = FirstStandalone(s, "version")] \in Scans(R)
  BY <1>2 DEF Scans
<1>5. /\ [s EXCEPT !.options.json = TRUE] \in Scans(R)
      /\ [s EXCEPT !.options.quiet = TRUE] \in Scans(R)
  <2>1. /\ [s.options EXCEPT !.json = TRUE] \in Options(R)
        /\ [s.options EXCEPT !.quiet = TRUE] \in Options(R)
    BY DEF Scans, Options
  <2> QED BY <2>1 DEF Scans
<1>6. argument \in ValueOptions =>
        [s EXCEPT !.awaiting = argument, !.options.lock = TRUE] \in Scans(R)
  <2>1. [s.options EXCEPT !.lock = TRUE] \in Options(R)
    BY DEF Scans, Options
  <2> QED BY <2>1 DEF Scans
<1>7. [s EXCEPT !.failed = TRUE] \in Scans(R)
  BY DEF Scans
<1>8. [s EXCEPT !.words = Append(@, argument)] \in Scans(R)
  <2>1. s.words \in Seq(R)
    BY DEF Scans
  <2>2. Append(s.words, argument) \in Seq(R)
    BY <2>1
  <2> QED BY <2>2 DEF Scans
<1>9. s.awaiting # "" => ScanValue(s, argument) \in Scans(R)
  BY ScanValueTyped
<1> QED BY <1>3, <1>4, <1>5, <1>6, <1>7, <1>8, <1>9 DEF ScanArgument

\* What the loop of parseArguments is after each argument.
Arguments(a) == {a[i] : i \in 1..Len(a)}

ScanRun(a, f) ==
  /\ f \in [0..Len(a) -> Scans(Arguments(a))]
  /\ f[0] = Scan
  /\ \A k \in 1..Len(a) : f[k] = ScanArgument(f[k - 1], a[k])

LEMMA ScanRuns ==
  ASSUME NEW a \in Seq(STRING)
  PROVE  \E f : ScanRun(a, f) /\ Scanned(a) = f[Len(a)]
<1> DEFINE R == Arguments(a)
           turn == [p \in Scans(R) \X R |-> ScanArgument(p[1], p[2])]
           Follows(f) == f = [n \in 0..Len(a) |->
                                IF n = 0 THEN Scan ELSE ScanArgument(f[n - 1], a[n])]
           after == CHOOSE f : Follows(f)
<1>0. a \in Seq(R)
  BY DEF Arguments
<1> HIDE DEF R
<1>1. turn \in [Scans(R) \X R -> Scans(R)]
  BY ScanTyped
<1>2. \A s \in Scans(R), x \in R : turn[<<s, x>>] = ScanArgument(s, x)
  OBVIOUS
<1> HIDE DEF turn
<1>3. PICK g : Loop(g, Scans(R), Scan, turn, a)
  BY <1>0, <1>1, ScanIsOne, LoopExists
<1>4. ASSUME NEW k \in 1..Len(a) PROVE g[k] = ScanArgument(g[k - 1], a[k])
  <2>1. g[k - 1] \in Scans(R) /\ a[k] \in R
    BY <1>0, <1>3 DEF Loop
  <2> QED BY <1>2, <1>3, <2>1 DEF Loop
<1>5. ScanRun(a, g)
  BY <1>3, <1>4 DEF ScanRun, Loop, R
<1>6. Follows(g)
  <2>1. ASSUME NEW k \in 0..Len(a)
        PROVE  g[k] = IF k = 0 THEN Scan ELSE ScanArgument(g[k - 1], a[k])
    <3>1. k # 0 => k \in 1..Len(a)
      OBVIOUS
    <3> QED BY <1>5, <3>1 DEF ScanRun
  <2>2. g = [k \in 0..Len(a) |-> g[k]]
    BY <1>3 DEF Loop
  <2> QED BY <2>1, <2>2
<1>7. Follows(after)
  <2> HIDE DEF Follows
  <2> QED BY <1>6
<1>8. Scanned(a) = after[Len(a)]
  BY DEF Scanned
<1> HIDE DEF after
<1>9. \A k \in 0..Len(a) : after[k] = g[k]
  <2> DEFINE T == {k \in 0..Len(a) : after[k] = g[k]}
  <2>1. \A k \in 0..Len(a) : after[k] = IF k = 0 THEN Scan ELSE ScanArgument(after[k - 1], a[k])
    BY <1>7, Zenon
  <2>2. 0 \in T
    BY <1>5, <2>1 DEF ScanRun
  <2>3. ASSUME NEW k \in 0..(Len(a) - 1), k \in T PROVE k + 1 \in T
    <3>1. k + 1 \in 1..Len(a) /\ (k + 1) - 1 = k /\ after[k] = g[k] /\ k + 1 \in 0..Len(a)
      BY <2>3
    <3>2. g[k + 1] = ScanArgument(g[k], a[k + 1])
      BY <1>5, <3>1 DEF ScanRun
    <3>3. after[k + 1] = ScanArgument(after[k], a[k + 1])
      BY <2>1, <3>1
    <3> QED BY <3>1, <3>2, <3>3
  <2>4. Len(a) \in Nat
    OBVIOUS
  <2> HIDE DEF T
  <2>5. \A k \in 0..Len(a) : k \in T
    BY <2>2, <2>3, <2>4, UpTo
  <2> QED BY <2>5 DEF T
<1>10. Len(a) \in 0..Len(a)
  OBVIOUS
<1> QED BY <1>5, <1>8, <1>9, <1>10

\* The same for requestedCommand.
Looks(R) == [skip : BOOLEAN, found : Seq(R)]

LookRun(a, f) ==
  /\ f \in [0..Len(a) -> Looks(Arguments(a))]
  /\ f[0] = Unseen
  /\ \A k \in 1..Len(a) : f[k] = Look(f[k - 1], a[k])

LEMMA UnseenIsOne == ASSUME NEW R PROVE Unseen \in Looks(R)
<1>1. <<>> \in Seq(R)
  OBVIOUS
<1> QED BY <1>1 DEF Unseen, Looks

LEMMA LookTyped ==
  ASSUME NEW R, NEW s \in Looks(R), NEW argument \in R
  PROVE  Look(s, argument) \in Looks(R)
<1>1. <<argument>> \in Seq(R)
  OBVIOUS
<1>2. /\ [s EXCEPT !.skip = FALSE] \in Looks(R) /\ [s EXCEPT !.skip = TRUE] \in Looks(R)
      /\ [s EXCEPT !.found = <<argument>>] \in Looks(R)
  BY <1>1 DEF Looks
<1> QED BY <1>2 DEF Look

LEMMA LookRuns ==
  ASSUME NEW a \in Seq(STRING)
  PROVE  \E f : LookRun(a, f) /\ FirstWord(a) = f[Len(a)].found
<1> DEFINE R == Arguments(a)
           turn == [p \in Looks(R) \X R |-> Look(p[1], p[2])]
           Follows(f) == f = [n \in 0..Len(a) |->
                                IF n = 0 THEN Unseen ELSE Look(f[n - 1], a[n])]
           after == CHOOSE f : Follows(f)
<1>0. a \in Seq(R)
  BY DEF Arguments
<1> HIDE DEF R
<1>1. turn \in [Looks(R) \X R -> Looks(R)]
  BY LookTyped
<1>2. \A s \in Looks(R), x \in R : turn[<<s, x>>] = Look(s, x)
  OBVIOUS
<1> HIDE DEF turn
<1>3. PICK g : Loop(g, Looks(R), Unseen, turn, a)
  BY <1>0, <1>1, UnseenIsOne, LoopExists
<1>4. ASSUME NEW k \in 1..Len(a) PROVE g[k] = Look(g[k - 1], a[k])
  <2>1. g[k - 1] \in Looks(R) /\ a[k] \in R
    BY <1>0, <1>3 DEF Loop
  <2> QED BY <1>2, <1>3, <2>1 DEF Loop
<1>5. LookRun(a, g)
  BY <1>3, <1>4 DEF LookRun, Loop, R
<1>6. Follows(g)
  <2>1. ASSUME NEW k \in 0..Len(a)
        PROVE  g[k] = IF k = 0 THEN Unseen ELSE Look(g[k - 1], a[k])
    <3>1. k # 0 => k \in 1..Len(a)
      OBVIOUS
    <3> QED BY <1>5, <3>1 DEF LookRun
  <2>2. g = [k \in 0..Len(a) |-> g[k]]
    BY <1>3 DEF Loop
  <2> QED BY <2>1, <2>2
<1>7. Follows(after)
  <2> HIDE DEF Follows
  <2> QED BY <1>6
<1>8. FirstWord(a) = after[Len(a)].found
  BY DEF FirstWord
<1> HIDE DEF after
<1>9. \A k \in 0..Len(a) : after[k] = g[k]
  <2> DEFINE T == {k \in 0..Len(a) : after[k] = g[k]}
  <2>1. \A k \in 0..Len(a) : after[k] = IF k = 0 THEN Unseen ELSE Look(after[k - 1], a[k])
    BY <1>7, Zenon
  <2>2. 0 \in T
    BY <1>5, <2>1 DEF LookRun
  <2>3. ASSUME NEW k \in 0..(Len(a) - 1), k \in T PROVE k + 1 \in T
    <3>1. k + 1 \in 1..Len(a) /\ (k + 1) - 1 = k /\ after[k] = g[k] /\ k + 1 \in 0..Len(a)
      BY <2>3
    <3>2. g[k + 1] = Look(g[k], a[k + 1])
      BY <1>5, <3>1 DEF LookRun
    <3>3. after[k + 1] = Look(after[k], a[k + 1])
      BY <2>1, <3>1
    <3> QED BY <3>1, <3>2, <3>3
  <2>4. Len(a) \in Nat
    OBVIOUS
  <2> HIDE DEF T
  <2>5. \A k \in 0..Len(a) : k \in T
    BY <2>2, <2>3, <2>4, UpTo
  <2> QED BY <2>5 DEF T
<1>10. Len(a) \in 0..Len(a)
  OBVIOUS
<1> QED BY <1>5, <1>8, <1>9, <1>10

-----------------------------------------------------------------------------
(* One turn of parseArguments' loop.                                       *)

Flags == {"--help", "--version", "--json", "--no-update-notice"}

\* t is what s becomes with the next argument.
Turned(s, argument, t) ==
  /\ t.failed <=> \/ s.awaiting # "" /\ ~Valid(s.awaiting, argument)
                  \/ s.awaiting = "" /\ argument \in Dashed \ (ValueOptions \cup Flags)
  /\ ~t.failed =>
       /\ t.awaiting = IF s.awaiting = "" /\ argument \in ValueOptions THEN argument ELSE ""
       /\ t.options.json <=> (s.options.json \/ argument = "--json")
       /\ t.options.quiet <=> (s.options.quiet \/ argument = "--no-update-notice")
       /\ t.options.lock <=> (s.options.lock \/ (s.awaiting = "" /\ argument \in ValueOptions))
       /\ t.standalone = "" <=>
            (s.standalone = "" /\ ~(s.awaiting = "" /\ argument \in {"--help", "--version"}))
       /\ t.words = IF s.awaiting = "" /\ argument \notin Dashed
                    THEN Append(s.words, argument) ELSE s.words

\* The values of options are not options themselves.
LEMMA ValidIsPlain ==
  ASSUME NEW option \in ValueOptions, NEW value, Valid(option, value)
  PROVE  value \notin Dashed
<1>1. option \in {"--codex-home", "--stability-ms", "--timeout-ms"}
  BY DEF ValueOptions
<1>2. value \in DOMAIN Numbers => value \notin Dashed
  BY LaunchAssumption
<1>3. CASE option = "--codex-home"
  BY <1>3 DEF Valid
<1>4. CASE option = "--stability-ms"
  BY <1>2, <1>4 DEF Valid
<1>5. CASE option = "--timeout-ms"
  BY <1>2, <1>5 DEF Valid
<1> QED BY <1>1, <1>3, <1>4, <1>5

LEMMA ValueTurn ==
  ASSUME NEW R, NEW s \in Scans(R), NEW argument \in R, ~s.failed, s.awaiting # ""
  PROVE  Turned(s, argument, ScanValue(s, argument))
<1> DEFINE H == s.awaiting = "--codex-home" /\ argument \notin Dashed /\ argument # ""
           I == s.awaiting = "--stability-ms" /\ InRange(argument, Stabilities)
           T == s.awaiting = "--timeout-ms" /\ InRange(argument, Timeouts)
           t == ScanValue(s, argument)
<1>1. s.awaiting \in {"--codex-home", "--stability-ms", "--timeout-ms"}
  BY DEF Scans, ValueOptions
<1>2. Valid(s.awaiting, argument) <=> (H \/ I \/ T)
  BY <1>1 DEF Valid, InRange
<1>3. ~(H \/ I \/ T) => t = [s EXCEPT !.failed = TRUE]
  BY DEF ScanValue
<1>4. /\ H => t = [s EXCEPT !.awaiting = "", !.options.home = argument]
      /\ I => t = [s EXCEPT !.awaiting = "", !.options.stability = Numbers[argument]]
      /\ T => t = [s EXCEPT !.awaiting = "", !.options.timeout = Numbers[argument]]
  BY DEF ScanValue
<1>5. H \/ I \/ T => argument \notin Dashed
  <2>1. s.awaiting \in ValueOptions
    BY DEF Scans
  <2> QED BY <1>2, <2>1, ValidIsPlain
<1> DEFINE Untouched == /\ t.failed = s.failed /\ t.awaiting = ""
                        /\ t.words = s.words /\ t.standalone = s.standalone
                        /\ t.options.json = s.options.json
                        /\ t.options.quiet = s.options.quiet
                        /\ t.options.lock = s.options.lock
<1>8. (H => Untouched) /\ (I => Untouched) /\ (T => Untouched)
  <2> HIDE DEF H, I, T
  <2>1. CASE H
    <3>1. t = [s EXCEPT !.awaiting = "", !.options.home = argument]
      BY <1>4, <2>1
    <3> HIDE DEF t
    <3> QED BY <3>1 DEF Scans, Options
  <2>2. CASE I
    <3>1. t = [s EXCEPT !.awaiting = "", !.options.stability = Numbers[argument]]
      BY <1>4, <2>2
    <3> HIDE DEF t
    <3> QED BY <3>1 DEF Scans, Options
  <2>3. CASE T
    <3>1. t = [s EXCEPT !.awaiting = "", !.options.timeout = Numbers[argument]]
      BY <1>4, <2>3
    <3> HIDE DEF t
    <3> QED BY <3>1 DEF Scans, Options
  <2> QED BY <2>1, <2>2, <2>3
<1>6. ~(H \/ I \/ T) => t.failed
  BY <1>3 DEF Scans
<1>7. "--json" \in Dashed /\ "--no-update-notice" \in Dashed
  BY LaunchAssumption
<1> HIDE DEF H, I, T, t
<1> QED BY <1>2, <1>5, <1>6, <1>7, <1>8 DEF Turned, t

LEMMA ArgumentTurn ==
  ASSUME NEW R, NEW s \in Scans(R), NEW argument \in R, ~s.failed
  PROVE  Turned(s, argument, ScanArgument(s, argument))
<1> DEFINE t == ScanArgument(s, argument)
<1>1. CASE s.awaiting # ""
  <2>1. t = ScanValue(s, argument)
    BY <1>1 DEF ScanArgument
  <2> QED BY <1>1, <2>1, ValueTurn
<1>2. CASE s.awaiting = ""
  <2>1. ValueOptions \subseteq Dashed /\ Flags \subseteq Dashed /\ ValueOptions \cap Flags = {}
    BY LaunchAssumption DEF Flags, ValueOptions
  <2>2. "" \notin Dashed
    BY LaunchAssumption
  <2> DEFINE first == s.standalone = ""
  <2>3. CASE argument = "--help"
    <3>1. t = [s EXCEPT !.standalone = FirstStandalone(s, "help")]
      BY <1>2, <2>3 DEF ScanArgument
    <3>2. FirstStandalone(s, "help") # ""
      BY DEF FirstStandalone
    <3>3. argument \in Flags
      BY <2>3 DEF Flags
    <3> HIDE DEF t
    <3> QED BY <1>2, <2>1, <2>3, <3>1, <3>2, <3>3 DEF Turned, Scans, Options, t
  <2>4. CASE argument = "--version"
    <3>1. t = [s EXCEPT !.standalone = FirstStandalone(s, "version")]
      BY <1>2, <2>4 DEF ScanArgument
    <3>2. FirstStandalone(s, "version") # ""
      BY DEF FirstStandalone
    <3>3. argument \in Flags
      BY <2>4 DEF Flags
    <3> HIDE DEF t
    <3> QED BY <1>2, <2>1, <2>4, <3>1, <3>2, <3>3 DEF Turned, Scans, Options, t
  <2>5. CASE argument = "--json"
    <3>1. t = [s EXCEPT !.options.json = TRUE]
      BY <1>2, <2>5 DEF ScanArgument
    <3>3. argument \in Flags
      BY <2>5 DEF Flags
    <3> HIDE DEF t
    <3> QED BY <1>2, <2>1, <2>5, <3>1, <3>3 DEF Turned, Scans, Options, t
  <2>6. CASE argument = "--no-update-notice"
    <3>1. t = [s EXCEPT !.options.quiet = TRUE]
      BY <1>2, <2>6 DEF ScanArgument
    <3>3. argument \in Flags
      BY <2>6 DEF Flags
    <3> HIDE DEF t
    <3> QED BY <1>2, <2>1, <2>6, <3>1, <3>3 DEF Turned, Scans, Options, t
  <2>7. CASE argument \in ValueOptions
    <3>1. argument \notin Flags
      BY <2>1, <2>7
    <3>2. t = [s EXCEPT !.awaiting = argument, !.options.lock = TRUE]
      BY <1>2, <2>7, <3>1 DEF ScanArgument, Flags
    <3>3. /\ argument # "--help" /\ argument # "--version" /\ argument # "--json"
          /\ argument # "--no-update-notice"
      BY <3>1 DEF Flags
    <3>4. /\ t.failed = s.failed /\ t.awaiting = argument /\ t.standalone = s.standalone
          /\ t.words = s.words /\ t.options.lock
          /\ t.options.json = s.options.json /\ t.options.quiet = s.options.quiet
      <4> HIDE DEF t
      <4> QED BY <3>2 DEF Scans, Options
    <3> HIDE DEF t
    <3> QED BY <1>2, <2>1, <2>7, <3>3, <3>4 DEF Turned, t
  <2>8. CASE argument \in Dashed \ (ValueOptions \cup Flags)
    <3>1. t = [s EXCEPT !.failed = TRUE]
      BY <1>2, <2>8 DEF ScanArgument, Flags
    <3>2. t.failed
      BY <3>1 DEF Scans
    <3> HIDE DEF t
    <3> QED BY <1>2, <2>8, <3>2 DEF Turned, t
  <2>9. CASE argument \notin Dashed
    <3>1. argument \notin Flags /\ argument \notin ValueOptions
      BY <2>1, <2>9
    <3>2. t = [s EXCEPT !.words = Append(@, argument)]
      BY <1>2, <2>9, <3>1 DEF ScanArgument, Flags
    <3>3. /\ argument # "--help" /\ argument # "--version" /\ argument # "--json"
          /\ argument # "--no-update-notice"
      BY <3>1 DEF Flags
    <3>4. /\ t.failed = s.failed /\ t.awaiting = s.awaiting /\ t.standalone = s.standalone
          /\ t.options = s.options /\ t.words = Append(s.words, argument)
      BY <3>2 DEF Scans
    <3> HIDE DEF t
    <3> QED BY <1>2, <2>9, <3>1, <3>3, <3>4 DEF Turned, t
  <2> QED BY <2>3, <2>4, <2>5, <2>6, <2>7, <2>8, <2>9 DEF Flags
<1> QED BY <1>1, <1>2

\* An error ends the loop.
LEMMA FailedStays ==
  ASSUME NEW s, s.failed, NEW argument
  PROVE  ScanArgument(s, argument) = s
  BY DEF ScanArgument

\* The flags that were met.
Met(a, n, flag) == \E i \in 1..n : a[i] = flag

LEMMA FlagsMet ==
  ASSUME NEW a \in Seq(STRING), NEW f, ScanRun(a, f)
  PROVE  \A k \in 0..Len(a) : ~f[k].failed =>
           /\ (f[k].options.json <=> Met(a, k, "--json"))
           /\ (f[k].options.quiet <=> Met(a, k, "--no-update-notice"))
<1> DEFINE Shows(k) == ~f[k].failed =>
                         /\ (f[k].options.json <=> Met(a, k, "--json"))
                         /\ (f[k].options.quiet <=> Met(a, k, "--no-update-notice"))
           T == {k \in 0..Len(a) : Shows(k)}
<1>1. Len(a) \in Nat
  OBVIOUS
<1>2. 0 \in T
  <2>1. f[0] = Scan
    BY DEF ScanRun
  <2>2. ~f[0].options.json /\ ~f[0].options.quiet
    <3>1. Scan.options = Defaults
      BY DEF Scan
    <3>2. Defaults.json = FALSE /\ Defaults.quiet = FALSE
      BY DEF Defaults
    <3> QED BY <2>1, <3>1, <3>2
  <2>3. ~Met(a, 0, "--json") /\ ~Met(a, 0, "--no-update-notice")
    BY DEF Met
  <2> QED BY <2>2, <2>3
<1>3. ASSUME NEW k \in 0..(Len(a) - 1), k \in T PROVE k + 1 \in T
  <2> DEFINE R == Arguments(a)
  <2>1. k + 1 \in 1..Len(a) /\ (k + 1) - 1 = k /\ k \in 0..Len(a) /\ k + 1 \in 0..Len(a)
    OBVIOUS
  <2>2. f[k] \in Scans(R) /\ a[k + 1] \in R /\ f[k + 1] = ScanArgument(f[k], a[k + 1])
    BY <2>1 DEF ScanRun, Arguments
  <2>3. Shows(k)
    BY <1>3
  <2>4. Shows(k + 1)
    <3>1. CASE f[k].failed
      <4>1. f[k + 1] = f[k]
        BY <2>2, <3>1, FailedStays
      <4> QED BY <3>1, <4>1
    <3>2. CASE ~f[k].failed
      <4>1. Turned(f[k], a[k + 1], f[k + 1])
        BY <2>2, <3>2, ArgumentTurn
      <4>2. \A flag : Met(a, k + 1, flag) <=> (Met(a, k, flag) \/ a[k + 1] = flag)
        BY <2>1 DEF Met
      <4>3. ~f[k + 1].failed =>
              /\ (f[k + 1].options.json <=> (f[k].options.json \/ a[k + 1] = "--json"))
              /\ (f[k + 1].options.quiet <=>
                    (f[k].options.quiet \/ a[k + 1] = "--no-update-notice"))
        BY <4>1 DEF Turned
      <4> QED BY <2>3, <3>2, <4>2, <4>3
    <3> QED BY <3>1, <3>2
  <2> QED BY <2>1, <2>4
<1>4. \A k \in 0..Len(a) : k \in T
  <2> HIDE DEF T
  <2> QED BY <1>1, <1>2, <1>3, UpTo
<1>5. \A k \in 0..Len(a) : Shows(k)
  BY <1>4
<1> QED BY <1>5

-----------------------------------------------------------------------------
(* What the loop does, told by the roles of the arguments.                  *)

\* p: where the words are in the first k arguments.
Positions(a, role, k, words, p) ==
  /\ p \in [1..Len(words) -> 1..k]
  /\ \A i, j \in 1..Len(words) : i < j => p[i] < p[j]
  /\ \A i \in 1..Len(words) : role[p[i]] = "word" /\ words[i] = a[p[i]]
  /\ \A i \in 1..k : role[i] = "word" => \E j \in 1..Len(words) : p[j] = i

LEMMA PositionsStay ==
  ASSUME NEW a, NEW role, NEW k \in Nat, NEW words, Len(words) \in Nat, NEW p,
         Positions(a, role, k, words, p), role[k + 1] # "word"
  PROVE  Positions(a, role, k + 1, words, p)
<1>1. p \in [1..Len(words) -> 1..(k + 1)]
  <2>1. \A i \in 1..Len(words) : p[i] \in 1..(k + 1)
    BY DEF Positions
  <2>2. p = [i \in 1..Len(words) |-> p[i]]
    BY DEF Positions
  <2> QED BY <2>1, <2>2
<1>2. \A i \in 1..(k + 1) : i \in 1..k \/ i = k + 1
  OBVIOUS
<1> QED BY <1>1, <1>2 DEF Positions

LEMMA PositionsGrow ==
  ASSUME NEW R, NEW a, NEW role, NEW k \in Nat, NEW words \in Seq(R), NEW p, a[k + 1] \in R,
         Positions(a, role, k, words, p), role[k + 1] = "word"
  PROVE  \E q : Positions(a, role, k + 1, Append(words, a[k + 1]), q)
<1> DEFINE m == Len(words)
           more == Append(words, a[k + 1])
           q == [j \in 1..(m + 1) |-> IF j = m + 1 THEN k + 1 ELSE p[j]]
<1>1. m \in Nat /\ Len(more) = m + 1
  OBVIOUS
<1>2. more[m + 1] = a[k + 1] /\ \A j \in 1..m : more[j] = words[j]
  OBVIOUS
<1>3. q[m + 1] = k + 1 /\ \A j \in 1..m : q[j] = p[j]
  BY <1>1
<1>4. \A j \in 1..(m + 1) : j \in 1..m \/ j = m + 1
  BY <1>1
<1>5. m + 1 \in 1..(m + 1) /\ \A j \in 1..m : j \in 1..(m + 1)
  BY <1>1
<1>6. q \in [1..(m + 1) -> 1..(k + 1)]
  <2>1. \A j \in 1..m : p[j] \in 1..k
    BY DEF Positions
  <2> QED BY <1>4, <2>1
<1>8. \A j \in 1..m : p[j] \in 1..k
  BY DEF Positions
<1> HIDE DEF q, more, m
<1>7. Positions(a, role, k + 1, more, q)
  <2>1. \A i, j \in 1..(m + 1) : i < j => q[i] < q[j]
    <3> SUFFICES ASSUME NEW i \in 1..(m + 1), NEW j \in 1..(m + 1), i < j PROVE q[i] < q[j]
      OBVIOUS
    <3>1. i \in 1..m
      BY <1>1
    <3>2. CASE j = m + 1
      <4>1. q[j] = k + 1 /\ q[i] \in 1..k
        BY <1>3, <1>8, <3>1, <3>2
      <4> QED BY <4>1
    <3>3. CASE j \in 1..m
      <4>1. q[i] = p[i] /\ q[j] = p[j]
        BY <1>3, <3>1, <3>3
      <4>2. p[i] < p[j]
        BY <3>1, <3>3 DEF Positions, m
      <4> QED BY <4>1, <4>2
    <3> QED BY <1>4, <3>2, <3>3
  <2>2. \A i \in 1..(m + 1) : role[q[i]] = "word" /\ more[i] = a[q[i]]
    <3>1. \A i \in 1..m : role[p[i]] = "word" /\ words[i] = a[p[i]]
      BY DEF Positions, m
    <3> QED BY <1>2, <1>3, <1>4, <3>1
  <2>3. \A i \in 1..(k + 1) : role[i] = "word" => \E j \in 1..(m + 1) : q[j] = i
    <3> SUFFICES ASSUME NEW i \in 1..(k + 1), role[i] = "word" PROVE \E j \in 1..(m + 1) : q[j] = i
      OBVIOUS
    <3>1. CASE i = k + 1
      BY <1>3, <1>5, <3>1
    <3>2. CASE i \in 1..k
      <4>1. PICK j \in 1..m : p[j] = i
        BY <3>2 DEF Positions, m
      <4> QED BY <1>3, <1>5, <4>1
    <3> QED BY <3>1, <3>2
  <2> QED BY <1>1, <1>6, <2>1, <2>2, <2>3 DEF Positions
<1> QED BY <1>7 DEF more

\* What a role says of an argument that parseArguments rejects.
Rejected(a, role, i) ==
  \/ role[i] = "value" /\ ~Valid(a[i - 1], a[i])
  \/ role[i] = "flag" /\ a[i] \notin Flags

\* s is the state after k arguments with these roles.
Told(a, role, k, s) ==
  /\ s.failed <=> \E i \in 1..k : Rejected(a, role, i)
  /\ ~s.failed =>
       /\ s.awaiting = IF k # 0 /\ role[k] = "option" THEN a[k] ELSE ""
       /\ s.options.lock <=> \E i \in 1..k : role[i] = "option"
       /\ s.standalone = "" <=>
            ~ \E i \in 1..k : role[i] = "flag" /\ a[i] \in {"--help", "--version"}
       /\ \E p : Positions(a, role, k, s.words, p)

LEMMA RolesDecided ==
  ASSUME NEW a \in Seq(STRING), NEW role \in Roles(a), NEW i \in 1..Len(a)
  PROVE  /\ role[i] = "value" <=> (i > 1 /\ role[i - 1] = "option")
         /\ role[i] = "option" <=> (role[i] # "value" /\ a[i] \in ValueOptions)
         /\ role[i] = "flag" <=> (role[i] # "value" /\ a[i] \in Dashed \ ValueOptions)
         /\ role[i] = "word" <=> (role[i] # "value" /\ a[i] \notin Dashed)
<1>1. ValueOptions \subseteq Dashed
  BY LaunchAssumption
<1>2. role[i] \in {"option", "value", "flag", "word"}
  BY DEF Roles
<1>3. /\ (role[i] = "value") = (i > 1 /\ role[i - 1] = "option")
      /\ role[i] = "option" => a[i] \in ValueOptions
      /\ role[i] = "flag" => a[i] \in Dashed \ ValueOptions
      /\ role[i] = "word" => a[i] \notin Dashed
  BY DEF Roles
<1>4. role[i] = "value" <=> (i > 1 /\ role[i - 1] = "option")
  BY <1>3
<1> QED BY <1>1, <1>2, <1>3, <1>4

LEMMA ToldFirst ==
  ASSUME NEW a \in Seq(STRING), NEW role \in Roles(a)
  PROVE  Told(a, role, 0, Scan)
<1>1. /\ Scan.failed = FALSE /\ Scan.awaiting = "" /\ Scan.options = Defaults
      /\ Scan.standalone = "" /\ Scan.words = <<>>
  BY DEF Scan
<1>2. Defaults.lock = FALSE
  BY DEF Defaults
<1>3. Positions(a, role, 0, <<>>, <<>>)
  <2>1. <<>> \in [1..Len(<<>>) -> 1..0]
    OBVIOUS
  <2> QED BY <2>1 DEF Positions
<1>4. ~ \E i \in 1..0 : Rejected(a, role, i) \/ role[i] = "option" \/ role[i] = "flag"
  OBVIOUS
<1>5. /\ Scan.failed <=> \E i \in 1..0 : Rejected(a, role, i)
      /\ Scan.options.lock <=> \E i \in 1..0 : role[i] = "option"
      /\ Scan.standalone = "" <=>
           ~ \E i \in 1..0 : role[i] = "flag" /\ a[i] \in {"--help", "--version"}
      /\ \E p : Positions(a, role, 0, Scan.words, p)
  BY <1>1, <1>2, <1>3, <1>4
<1>6. Scan.awaiting = IF 0 # 0 /\ role[0] = "option" THEN a[0] ELSE ""
  BY <1>1
<1> QED BY <1>5, <1>6, Zenon DEF Told

LEMMA ToldNext ==
  ASSUME NEW a \in Seq(STRING), NEW role \in Roles(a), NEW R, NEW k \in 0..(Len(a) - 1),
         NEW s \in Scans(R), a[k + 1] \in R, Told(a, role, k, s)
  PROVE  Told(a, role, k + 1, ScanArgument(s, a[k + 1]))
<1> DEFINE x == a[k + 1]
           t == ScanArgument(s, x)
<1>1. /\ k \in Nat /\ k + 1 \in 1..Len(a) /\ (k + 1) - 1 = k /\ (k # 0 => k \in 1..Len(a))
      /\ (k + 1 > 1 <=> k # 0)
  OBVIOUS
<1>2. \A i : i \in 1..(k + 1) <=> (i \in 1..k \/ i = k + 1)
  BY <1>1
<1>3. CASE s.failed
  <2>1. t = s
    BY <1>3, FailedStays
  <2>2. \E i \in 1..(k + 1) : Rejected(a, role, i)
    BY <1>2, <1>3 DEF Told
  <2> HIDE DEF t
  <2> QED BY <1>3, <2>1, <2>2 DEF Told, t
<1>4. CASE ~s.failed
  <2>1. Turned(s, x, t)
    BY <1>4, ArgumentTurn
  <2> HIDE DEF t
  <2>2. /\ s.awaiting = IF k # 0 /\ role[k] = "option" THEN a[k] ELSE ""
        /\ s.options.lock <=> \E i \in 1..k : role[i] = "option"
        /\ s.standalone = "" <=>
             ~ \E i \in 1..k : role[i] = "flag" /\ a[i] \in {"--help", "--version"}
        /\ \E p : Positions(a, role, k, s.words, p)
        /\ ~ \E i \in 1..k : Rejected(a, role, i)
    BY <1>4 DEF Told
  <2>3. role[k + 1] = "value" <=> (k # 0 /\ role[k] = "option")
    BY <1>1, RolesDecided
  <2>4. /\ role[k + 1] = "option" <=> (role[k + 1] # "value" /\ x \in ValueOptions)
        /\ role[k + 1] = "flag" <=> (role[k + 1] # "value" /\ x \in Dashed \ ValueOptions)
        /\ role[k + 1] = "word" <=> (role[k + 1] # "value" /\ x \notin Dashed)
    BY <1>1, RolesDecided
  <2>5. s.awaiting # "" <=> role[k + 1] = "value"
    <3>1. k # 0 /\ role[k] = "option" => a[k] \in Dashed
      BY <1>1, RolesDecided, LaunchAssumption
    <3>2. "" \notin Dashed
      BY LaunchAssumption
    <3> QED BY <2>2, <2>3, <3>1, <3>2
  <2>6. role[k + 1] = "value" => s.awaiting = a[k]
    BY <2>2, <2>3
  <2>7. /\ Flags \subseteq Dashed /\ Flags \cap ValueOptions = {}
        /\ {"--help", "--version"} \subseteq Flags
    BY LaunchAssumption DEF Flags, ValueOptions
  <2>8. t.failed <=> Rejected(a, role, k + 1)
    BY <1>1, <2>1, <2>4, <2>5, <2>6 DEF Turned, Rejected
  <2>9. t.failed <=> \E i \in 1..(k + 1) : Rejected(a, role, i)
    BY <1>2, <2>2, <2>8
  <2>10. ASSUME ~t.failed
         PROVE  /\ t.awaiting = IF k + 1 # 0 /\ role[k + 1] = "option" THEN x ELSE ""
                /\ t.options.lock <=> \E i \in 1..(k + 1) : role[i] = "option"
                /\ t.standalone = "" <=>
                     ~ \E i \in 1..(k + 1) : role[i] = "flag" /\ a[i] \in {"--help", "--version"}
                /\ \E p : Positions(a, role, k + 1, t.words, p)
    <3>1. t.awaiting = IF s.awaiting = "" /\ x \in ValueOptions THEN x ELSE ""
      BY <2>1, <2>10 DEF Turned
    <3>2. s.awaiting = "" /\ x \in ValueOptions <=> role[k + 1] = "option"
      BY <2>4, <2>5
    <3>3. t.awaiting = IF k + 1 # 0 /\ role[k + 1] = "option" THEN x ELSE ""
      <4>1. k + 1 # 0
        BY <1>1
      <4> QED BY <3>1, <3>2, <4>1, Zenon
    <3>4. t.options.lock <=> (s.options.lock \/ (s.awaiting = "" /\ x \in ValueOptions))
      BY <2>1, <2>10 DEF Turned
    <3>5. t.options.lock <=> \E i \in 1..(k + 1) : role[i] = "option"
      BY <1>2, <2>2, <3>2, <3>4
    <3>6. t.standalone = "" <=>
            (s.standalone = "" /\ ~(s.awaiting = "" /\ x \in {"--help", "--version"}))
      BY <2>1, <2>10 DEF Turned
    <3>7. s.awaiting = "" /\ x \in {"--help", "--version"} <=>
            role[k + 1] = "flag" /\ x \in {"--help", "--version"}
      BY <2>4, <2>5, <2>7
    <3>8. t.standalone = "" <=>
            ~ \E i \in 1..(k + 1) : role[i] = "flag" /\ a[i] \in {"--help", "--version"}
      BY <1>2, <2>2, <3>6, <3>7
    <3>9. \E p : Positions(a, role, k + 1, t.words, p)
      <4>1. PICK p : Positions(a, role, k, s.words, p)
        BY <2>2
      <4>2. t.words = IF s.awaiting = "" /\ x \notin Dashed THEN Append(s.words, x) ELSE s.words
        BY <2>1, <2>10 DEF Turned
      <4>3. s.words \in Seq(R) /\ Len(s.words) \in Nat
        <5>1. s.words \in Seq(R)
          BY DEF Scans
        <5> QED BY <5>1
      <4>4. CASE role[k + 1] = "word"
        <5>1. t.words = Append(s.words, a[k + 1])
          BY <2>4, <2>5, <4>2, <4>4
        <5>2. \E q : Positions(a, role, k + 1, Append(s.words, a[k + 1]), q)
          BY <1>1, <4>1, <4>3, <4>4, PositionsGrow
        <5> QED BY <5>1, <5>2
      <4>5. CASE role[k + 1] # "word"
        <5>1. t.words = s.words
          BY <2>4, <2>5, <4>2, <4>5
        <5>2. Positions(a, role, k + 1, s.words, p)
          BY <1>1, <4>1, <4>3, <4>5, PositionsStay
        <5> QED BY <5>1, <5>2
      <4> QED BY <4>4, <4>5
    <3> QED BY <3>3, <3>5, <3>8, <3>9
  <2>11. Told(a, role, k + 1, t)
    BY <2>9, <2>10, Zenon DEF Told
  <2> QED BY <2>11 DEF t
<1> QED BY <1>3, <1>4

LEMMA ToldThroughout ==
  ASSUME NEW a \in Seq(STRING), NEW role \in Roles(a), NEW f, ScanRun(a, f)
  PROVE  \A k \in 0..Len(a) : Told(a, role, k, f[k])
<1> DEFINE T == {k \in 0..Len(a) : Told(a, role, k, f[k])}
<1>1. Len(a) \in Nat
  OBVIOUS
<1>2. 0 \in T
  BY <1>1, ToldFirst DEF ScanRun
<1>3. ASSUME NEW k \in 0..(Len(a) - 1), k \in T PROVE k + 1 \in T
  <2>1. k + 1 \in 1..Len(a) /\ (k + 1) - 1 = k /\ k \in 0..Len(a) /\ k + 1 \in 0..Len(a)
    OBVIOUS
  <2>2. /\ f[k] \in Scans(Arguments(a)) /\ a[k + 1] \in Arguments(a)
        /\ f[k + 1] = ScanArgument(f[k], a[k + 1])
    BY <2>1 DEF ScanRun, Arguments
  <2>3. Told(a, role, k, f[k])
    BY <1>3
  <2>4. Told(a, role, k + 1, f[k + 1])
    BY <2>2, <2>3, ToldNext
  <2> QED BY <2>1, <2>4
<1>4. \A k \in 0..Len(a) : k \in T
  <2> HIDE DEF T
  <2> QED BY <1>1, <1>2, <1>3, UpTo
<1> QED BY <1>4

\* Without an error at the end there never was one.
LEMMA NeverFailed ==
  ASSUME NEW a \in Seq(STRING), NEW f, ScanRun(a, f), ~f[Len(a)].failed
  PROVE  \A k \in 0..Len(a) : ~f[k].failed
<1> DEFINE n == Len(a)
           T == {j \in 0..n : ~f[n - j].failed}
<1>1. n \in Nat
  OBVIOUS
<1>2. 0 \in T
  BY <1>1
<1>3. ASSUME NEW j \in 0..(n - 1), j \in T PROVE j + 1 \in T
  <2>1. n - j \in 1..n /\ (n - j) - 1 = n - (j + 1) /\ j + 1 \in 0..n
    BY <1>1
  <2>2. f[n - j] = ScanArgument(f[n - (j + 1)], a[n - j])
    BY <2>1 DEF ScanRun
  <2>3. ~f[n - j].failed
    BY <1>3
  <2>4. ~f[n - (j + 1)].failed
    BY <2>2, <2>3, FailedStays
  <2> QED BY <2>1, <2>4
<1> HIDE DEF T, n
<1>4. \A j \in 0..n : j \in T
  BY <1>1, <1>2, <1>3, UpTo
<1>5. ASSUME NEW k \in 0..n PROVE ~f[k].failed
  <2>1. n - k \in 0..n /\ n - (n - k) = k
    BY <1>1
  <2>2. n - k \in T
    BY <1>4, <2>1
  <2> QED BY <2>1, <2>2 DEF T
<1> QED BY <1>5 DEF n

\* What the loop takes the arguments for is a way to read them.
LEMMA ScanHasRoles ==
  ASSUME NEW a \in Seq(STRING), NEW f, ScanRun(a, f), ~f[Len(a)].failed
  PROVE  \E role : role \in Roles(a)
<1> DEFINE n == Len(a)
           kind(i) == IF f[i - 1].awaiting # "" THEN "value"
                      ELSE IF a[i] \in ValueOptions THEN "option"
                      ELSE IF a[i] \in Dashed THEN "flag" ELSE "word"
           role == [i \in 1..n |-> kind(i)]
<1>1. n \in Nat
  OBVIOUS
<1>2. \A i \in 1..n : role[i] = kind(i)
  OBVIOUS
<1>3. role \in [1..n -> {"option", "value", "flag", "word"}]
  OBVIOUS
<1>4. ASSUME NEW i \in 1..n
      PROVE  f[i].awaiting = IF f[i - 1].awaiting = "" /\ a[i] \in ValueOptions THEN a[i] ELSE ""
  <2>1. i - 1 \in 0..n /\ i \in 0..n
    BY <1>1
  <2>2. ~f[i - 1].failed /\ ~f[i].failed
    BY <2>1, NeverFailed
  <2>3. /\ f[i - 1] \in Scans(Arguments(a)) /\ a[i] \in Arguments(a)
        /\ f[i] = ScanArgument(f[i - 1], a[i])
    BY <2>1 DEF ScanRun, Arguments
  <2>4. Turned(f[i - 1], a[i], f[i])
    BY <2>2, <2>3, ArgumentTurn
  <2> QED BY <2>2, <2>4 DEF Turned
<1>5. "" \notin ValueOptions
  BY DEF ValueOptions
<1>6. f[0].awaiting = ""
  <2>1. Scan.awaiting = ""
    BY DEF Scan
  <2> QED BY <2>1 DEF ScanRun
<1>7. ASSUME NEW i \in 1..n PROVE (role[i] = "value") = (i > 1 /\ role[i - 1] = "option")
  <2> HIDE DEF role
  <2>1. role[i] = "value" <=> f[i - 1].awaiting # ""
    BY <1>2
  <2>2. CASE i = 1
    <3>1. i - 1 = 0 /\ ~(i > 1)
      BY <2>2
    <3>2. role[i] # "value"
      BY <1>6, <2>1, <3>1
    <3> QED BY <3>1, <3>2, Zenon
  <2>3. CASE i # 1
    <3>1. i - 1 \in 1..n /\ i > 1
      BY <1>1, <2>3
    <3>2. role[i - 1] = "option" <=> (f[(i - 1) - 1].awaiting = "" /\ a[i - 1] \in ValueOptions)
      BY <1>2, <3>1
    <3>3. f[i - 1].awaiting # "" <=> (f[(i - 1) - 1].awaiting = "" /\ a[i - 1] \in ValueOptions)
      BY <1>4, <1>5, <3>1
    <3> QED BY <2>1, <3>1, <3>2, <3>3
  <2> QED BY <2>2, <2>3
<1>8. ASSUME NEW i \in 1..n
      PROVE  /\ role[i] = "option" => a[i] \in ValueOptions
             /\ role[i] = "flag" => a[i] \in Dashed \ ValueOptions
             /\ role[i] = "word" => a[i] \notin Dashed
  BY <1>2
<1> HIDE DEF role
<1>9. role \in Roles(a)
  BY <1>3, <1>7, <1>8 DEF Roles
<1> QED BY <1>9

-----------------------------------------------------------------------------
(* The grammar: what parseArguments accepts is what the roles describe.     *)

LEMMA AcceptedWords ==
  ASSUME NEW words, NEW options, AcceptsWords(words, options)
  PROVE  words[1] \in Commands
<1>1. <<"list">>[1] = "list" /\ <<"check-update">>[1] = "check-update"
  OBVIOUS
<1>2. {"list", "check-update", "inspect", "unlock"} \subseteq Commands
  BY DEF Commands
<1>3. \/ words = <<"list">> \/ words = <<"check-update">> \/ words[1] \in {"inspect", "unlock"}
  BY DEF AcceptsWords
<1> QED BY <1>1, <1>2, <1>3

\* The command is decided by the last state of the loop.
Decided(a, s) ==
  \A c \in Commands : ParseArguments(a).what = c <=>
    /\ ~s.failed /\ s.awaiting = "" /\ s.standalone = ""
    /\ AcceptsWords(s.words, s.options) /\ s.words[1] = c

\* What ParseArguments makes of the last state of the loop.
LEMMA Parses ==
  ASSUME NEW a \in Seq(STRING), NEW f, ScanRun(a, f), Scanned(a) = f[Len(a)],
         NEW s, s = f[Len(a)]
  PROVE  /\ s \in Scans(Arguments(a))
         /\ ParseArguments(a).options = s.options
         /\ ParseArguments(a).what \in {"help", "version", "usage_error"} \cup Commands
         /\ ParseArguments(a).what # "usage_error" => ~s.failed
         /\ ParseArguments(a).what \in {"help", "version"} => ~s.options.json
         /\ Decided(a, s)
<1>1. s \in Scans(Arguments(a)) /\ Scanned(a) = s
  BY DEF ScanRun
<1> DEFINE ok == ~s.failed /\ s.awaiting = ""
           alone == ok /\ s.standalone # "" /\ ~s.options.json
           accepted == ok /\ s.standalone = "" /\ AcceptsWords(s.words, s.options)
<1>2. ParseArguments(a) = CASE alone -> Parse(s.standalone, s.options)
                            [] accepted -> Parse(s.words[1], s.options)
                            [] OTHER -> Parse("usage_error", s.options)
  BY <1>1 DEF ParseArguments
<1>3. ~(alone /\ accepted)
  OBVIOUS
<1>4. alone => s.standalone \in {"help", "version"}
  BY <1>1 DEF Scans
<1>5. accepted => s.words[1] \in Commands
  BY AcceptedWords
<1>6. {"help", "version", "usage_error"} \cap Commands = {}
  BY DEF Commands
<1>7. alone => ~s.failed
  OBVIOUS
<1>8. accepted => ~s.failed
  OBVIOUS
<1>9. \A what : Parse(what, s.options).what = what /\ Parse(what, s.options).options = s.options
  BY DEF Parse
<1>10. /\ alone => ParseArguments(a) = Parse(s.standalone, s.options)
       /\ accepted => ParseArguments(a) = Parse(s.words[1], s.options)
       /\ ~alone /\ ~accepted => ParseArguments(a) = Parse("usage_error", s.options)
  <2> HIDE DEF alone, accepted
  <2> QED BY <1>2, <1>3
<1>11. ASSUME NEW c \in Commands
       PROVE  ParseArguments(a).what = c <=> (accepted /\ s.words[1] = c)
  <2> HIDE DEF alone, accepted
  <2> QED BY <1>3, <1>4, <1>5, <1>6, <1>9, <1>10
<1>12. ParseArguments(a).options = s.options
  <2> HIDE DEF alone, accepted
  <2> QED BY <1>9, <1>10
<1>13. ParseArguments(a).what \in {"help", "version", "usage_error"} \cup Commands
  <2> HIDE DEF alone, accepted
  <2> QED BY <1>4, <1>5, <1>9, <1>10
<1>14. ParseArguments(a).what # "usage_error" => ~s.failed
  <2> HIDE DEF alone, accepted
  <2> QED BY <1>7, <1>8, <1>9, <1>10
<1>15. alone => ~s.options.json
  OBVIOUS
<1>16. ParseArguments(a).what \in {"help", "version"} => ~s.options.json
  <2>1. accepted => s.words[1] \notin {"help", "version"}
    BY <1>5, <1>6
  <2> HIDE DEF alone, accepted
  <2> QED BY <1>9, <1>10, <1>15, <2>1
<1>17. Decided(a, s)
  <2> HIDE DEF alone, accepted
  <2>1. accepted <=> /\ ~s.failed /\ s.awaiting = "" /\ s.standalone = ""
                     /\ AcceptsWords(s.words, s.options)
    BY DEF accepted, ok
  <2> QED BY <1>11, <2>1 DEF Decided
<1> QED BY <1>1, <1>12, <1>13, <1>14, <1>16, <1>17

Words(role, n) == {k \in 1..n : role[k] = "word"}
IsFirst(role, n, i) == role[i] = "word" /\ \A k \in 1..n : role[k] = "word" => k >= i

\* As many words as positions.
LEMMA PositionsCount ==
  ASSUME NEW a, NEW role, NEW n \in Nat, NEW words, Len(words) \in Nat, NEW p,
         Positions(a, role, n, words, p)
  PROVE  Cardinality(Words(role, n)) = Len(words)
<1> DEFINE m == Len(words)
           W == Words(role, n)
<1>1. p \in Bijection(1..m, W)
  <2>1. \A j \in 1..m : p[j] \in W
    BY DEF Positions, Words
  <2>2. p \in [1..m -> W]
    BY <2>1 DEF Positions
  <2>3. \A i, j \in 1..m : i # j => p[i] # p[j]
    <3> SUFFICES ASSUME NEW i \in 1..m, NEW j \in 1..m, i # j PROVE p[i] # p[j]
      OBVIOUS
    <3>1. i < j \/ j < i
      OBVIOUS
    <3>2. p[i] \in Nat /\ p[j] \in Nat
      BY DEF Positions
    <3>3. p[i] < p[j] \/ p[j] < p[i]
      BY <3>1 DEF Positions
    <3> QED BY <3>2, <3>3
  <2>4. \A i \in W : \E j \in 1..m : p[j] = i
    BY DEF Positions, Words
  <2> HIDE DEF W, m
  <2> QED BY <2>2, <2>3, <2>4 DEF Bijection, Injection, Surjection, IsInjective
<1>2. IsFiniteSet(1..m) /\ Cardinality(1..m) = m
  <2>1. m \in Nat
    OBVIOUS
  <2> HIDE DEF m
  <2>2. Cardinality(1..m) = IF 1 > m THEN 0 ELSE m - 1 + 1
    BY <2>1, FS_Interval
  <2> QED BY <2>1, <2>2, FS_Interval
<1>3. Cardinality(1..m) = Cardinality(W)
  <2> HIDE DEF W, m
  <2>1. ExistsBijection(1..m, W)
    BY <1>1 DEF ExistsBijection
  <2> QED BY <1>2, <2>1, FS_Bijection
<1> QED BY <1>2, <1>3

LEMMA Single ==
  ASSUME NEW R, NEW s \in Seq(R), NEW x
  PROVE  s = <<x>> <=> (Len(s) = 1 /\ s[1] = x)
<1>1. Len(<<x>>) = 1 /\ <<x>>[1] = x
  OBVIOUS
<1>2. ASSUME Len(s) = 1, s[1] = x PROVE s = <<x>>
  <2>1. s = [i \in 1..Len(s) |-> s[i]]
    OBVIOUS
  <2>2. <<x>> = [i \in 1..1 |-> x]
    OBVIOUS
  <2>3. \A i \in 1..1 : s[i] = x
    BY <1>2
  <2> QED BY <1>2, <2>1, <2>2, <2>3
<1> QED BY <1>1, <1>2

\* Runs, with its local definitions expanded.
Describes(a, role, c) ==
  /\ \A i \in 1..Len(a) : role[i] = "flag" => a[i] \in {"--json", "--no-update-notice"}
  /\ \A i \in 1..Len(a) : role[i] = "option" =>
       i + 1 \in 1..Len(a) /\ role[i + 1] = "value" /\ Valid(a[i], a[i + 1])
  /\ \E i \in 1..Len(a) :
       /\ role[i] = "word" /\ a[i] = c
       /\ \A k \in 1..Len(a) : role[k] = "word" => k >= i
       /\ \A k \in 1..Len(a) : role[k] = "word" /\ k # i => a[k] \in ThreadIds
       /\ Cardinality({k \in 1..Len(a) : role[k] = "word"}) =
            IF c \in {"inspect", "unlock"} THEN 2 ELSE 1
  /\ c = "check-update" => ~ \E i \in 1..Len(a) : role[i] = "option"

LEMMA RunsDescribes ==
  ASSUME NEW a, NEW c
  PROVE  Runs(a, c) <=> \E role \in Roles(a) : Describes(a, role, c)
<1>1. ASSUME NEW role \in Roles(a)
      PROVE  LET At(kind) == {i \in 1..Len(a) : role[i] = kind}
                 args(kind) == {a[i] : i \in At(kind)}
             IN  (/\ args("flag") \subseteq {"--json", "--no-update-notice"}
                  /\ \A i \in At("option") : i + 1 \in At("value") /\ Valid(a[i], a[i+1])
                  /\ \E i \in At("word") :
                       /\ a[i] = c /\ \A k \in At("word") : k >= i
                       /\ \A k \in At("word") \ {i} : a[k] \in ThreadIds
                       /\ Cardinality(At("word")) = IF c \in {"inspect", "unlock"} THEN 2 ELSE 1
                  /\ c = "check-update" => At("option") = {})
                 <=> Describes(a, role, c)
  BY DEF Describes
<1> QED BY <1>1 DEF Runs

\* The first of the words, and the second.
LEMMA FirstPosition ==
  ASSUME NEW a, NEW role, NEW n \in Nat, NEW words, Len(words) \in Nat, NEW p,
         Positions(a, role, n, words, p), NEW i \in 1..n
  PROVE  IsFirst(role, n, i) <=> (Len(words) # 0 /\ p[1] = i)
<1> DEFINE m == Len(words)
<1>1. \A j \in 1..m : p[j] \in 1..n /\ role[p[j]] = "word"
  BY DEF Positions
<1>2. \A k \in 1..n : role[k] = "word" => \E j \in 1..m : p[j] = k
  BY DEF Positions
<1>3. \A j \in 1..m : j # 1 => p[1] < p[j]
  <2> SUFFICES ASSUME NEW j \in 1..m, j # 1 PROVE p[1] < p[j]
    OBVIOUS
  <2>1. 1 \in 1..m /\ 1 < j
    OBVIOUS
  <2> QED BY <2>1 DEF Positions
<1>4. m \in Nat
  OBVIOUS
<1> HIDE DEF m
<1>5. ASSUME role[i] = "word", \A k \in 1..n : role[k] = "word" => k >= i
      PROVE  m # 0 /\ p[1] = i
  <2>1. PICK j \in 1..m : p[j] = i
    BY <1>2, <1>5
  <2>2. m # 0 /\ 1 \in 1..m
    BY <1>4
  <2>3. p[1] \in 1..n /\ p[1] >= i
    BY <1>1, <1>5, <2>2
  <2>4. j = 1
    BY <1>3, <2>1, <2>3
  <2> QED BY <2>1, <2>2, <2>4
<1>6. ASSUME m # 0, p[1] = i
      PROVE  role[i] = "word" /\ \A k \in 1..n : role[k] = "word" => k >= i
  <2>1. 1 \in 1..m
    BY <1>4, <1>6
  <2>2. role[i] = "word"
    BY <1>1, <1>6, <2>1
  <2>3. ASSUME NEW k \in 1..n, role[k] = "word" PROVE k >= i
    <3>1. PICK j \in 1..m : p[j] = k
      BY <1>2, <2>3
    <3>2. j = 1 \/ i < k
      BY <1>3, <1>6, <3>1
    <3> QED BY <1>6, <3>1, <3>2
  <2> QED BY <2>2, <2>3
<1> QED BY <1>5, <1>6 DEF m, IsFirst

\* The words of a command that is accepted.
LEMMA WordsAccepted ==
  ASSUME NEW R, NEW words \in Seq(R), NEW options, NEW c \in Commands
  PROVE  (AcceptsWords(words, options) /\ words[1] = c) <=>
           /\ Len(words) = IF c \in {"inspect", "unlock"} THEN 2 ELSE 1
           /\ words[1] = c
           /\ \A j \in 1..Len(words) : j # 1 => words[j] \in ThreadIds
           /\ c = "check-update" => ~options.lock
<1>1. c \in {"list", "inspect", "unlock", "check-update"}
  BY DEF Commands
<1>2. Len(words) \in Nat /\ (words # <<>> <=> Len(words) # 0)
  OBVIOUS
<1>3. /\ words = <<"list">> <=> (Len(words) = 1 /\ words[1] = "list")
      /\ words = <<"check-update">> <=> (Len(words) = 1 /\ words[1] = "check-update")
  BY Single
<1>4. /\ Len(words) = 1 => ~ \E j \in 1..Len(words) : j # 1
      /\ Len(words) = 2 => \A j \in 1..Len(words) : j # 1 <=> j = 2
      /\ Len(words) = 2 => 2 \in 1..Len(words)
  <2>1. \A m \in Nat : /\ m = 1 => \A j \in 1..m : j = 1
                      /\ m = 2 => 2 \in 1..m /\ \A j \in 1..m : j # 1 <=> j = 2
    OBVIOUS
  <2> DEFINE m == Len(words)
  <2>2. m \in Nat
    BY <1>2
  <2> HIDE DEF m
  <2>3. /\ m = 1 => ~ \E j \in 1..m : j # 1
        /\ m = 2 => \A j \in 1..m : j # 1 <=> j = 2
        /\ m = 2 => 2 \in 1..m
    BY <2>1, <2>2
  <2> QED BY <2>3 DEF m
<1>5. CASE c = "list"
  BY <1>2, <1>3, <1>4, <1>5 DEF AcceptsWords
<1>6. CASE c = "check-update"
  BY <1>2, <1>3, <1>4, <1>6 DEF AcceptsWords
<1>7. CASE c \in {"inspect", "unlock"}
  <2>1. c # "check-update" /\ c # "list"
    BY <1>7
  <2>2. AcceptsWords(words, options) /\ words[1] = c <=>
          Len(words) = 2 /\ words[1] = c /\ words[2] \in ThreadIds
    BY <1>2, <1>3, <1>7, <2>1 DEF AcceptsWords
  <2>3. Len(words) = 2 =>
          (words[2] \in ThreadIds <=> \A j \in 1..Len(words) : j # 1 => words[j] \in ThreadIds)
    BY <1>4
  <2> QED BY <1>7, <2>1, <2>2, <2>3
<1> QED BY <1>1, <1>5, <1>6, <1>7

\* With these roles, the state at the end says whether the command runs.
LEMMA AcceptedDescribes ==
  ASSUME NEW a \in Seq(STRING), NEW role \in Roles(a), NEW R, NEW s \in Scans(R),
         Told(a, role, Len(a), s), NEW c \in Commands
  PROVE  Describes(a, role, c) <=>
           /\ ~s.failed /\ s.awaiting = "" /\ s.standalone = ""
           /\ AcceptsWords(s.words, s.options) /\ s.words[1] = c
<1> DEFINE n == Len(a)
           W == Words(role, n)
<1>1. /\ n \in Nat /\ \A i \in 1..n : i > 1 => i - 1 \in 1..n
      /\ \A i \in 1..n : i # n => i + 1 \in 1..n /\ (i + 1) - 1 = i /\ i + 1 > 1
      /\ n + 1 \notin 1..n /\ (n # 0 => n \in 1..n)
  OBVIOUS
<1>2. \A i \in 1..n :
        /\ role[i] = "value" <=> (i > 1 /\ role[i - 1] = "option")
        /\ role[i] = "option" <=> (role[i] # "value" /\ a[i] \in ValueOptions)
        /\ role[i] = "flag" <=> (role[i] # "value" /\ a[i] \in Dashed \ ValueOptions)
  BY RolesDecided
<1>3. s.words \in Seq(R)
  BY DEF Scans
<1>4. Len(s.words) \in Nat
  BY <1>3
<1>5. /\ s.failed <=> \E i \in 1..n : Rejected(a, role, i)
      /\ ~s.failed => /\ s.awaiting = IF n # 0 /\ role[n] = "option" THEN a[n] ELSE ""
                      /\ s.options.lock <=> \E i \in 1..n : role[i] = "option"
                      /\ s.standalone = "" <=>
                           ~ \E i \in 1..n : role[i] = "flag" /\ a[i] \in {"--help", "--version"}
                      /\ \E p : Positions(a, role, n, s.words, p)
  BY DEF Told
<1>6. \A x : x \in {"--json", "--no-update-notice"} <=>
        (x \in Flags /\ x \notin {"--help", "--version"})
  BY DEF Flags
<1>7. "" \notin ValueOptions
  BY DEF ValueOptions
<1> HIDE DEF n
<1>8. ~s.failed /\ s.awaiting = "" /\ s.standalone = "" <=>
        /\ \A i \in 1..n : role[i] = "flag" => a[i] \in {"--json", "--no-update-notice"}
        /\ \A i \in 1..n : role[i] = "option" =>
             i + 1 \in 1..n /\ role[i + 1] = "value" /\ Valid(a[i], a[i + 1])
  <2>1. ASSUME ~s.failed, s.awaiting = "", s.standalone = "",
               NEW i \in 1..n, role[i] = "flag"
        PROVE  a[i] \in {"--json", "--no-update-notice"}
    <3>1. ~Rejected(a, role, i) /\ a[i] \notin {"--help", "--version"}
      BY <1>5, <2>1
    <3> QED BY <1>6, <2>1, <3>1 DEF Rejected
  <2>2. ASSUME ~s.failed, s.awaiting = "", s.standalone = "",
               NEW i \in 1..n, role[i] = "option"
        PROVE  i + 1 \in 1..n /\ role[i + 1] = "value" /\ Valid(a[i], a[i + 1])
    <3>1. i # n
      <4> SUFFICES ASSUME i = n PROVE FALSE
        OBVIOUS
      <4>1. n # 0
        BY <1>1
      <4>2. s.awaiting = a[n]
        BY <1>5, <2>2, <4>1
      <4>3. a[n] \in ValueOptions
        BY <1>2, <2>2
      <4> QED BY <1>7, <2>2, <4>2, <4>3
    <3>2. i + 1 \in 1..n /\ (i + 1) - 1 = i /\ i + 1 > 1
      BY <1>1, <3>1
    <3>3. role[i + 1] = "value"
      BY <1>2, <2>2, <3>2
    <3>4. ~Rejected(a, role, i + 1)
      BY <1>5, <2>2, <3>2
    <3> QED BY <3>2, <3>3, <3>4 DEF Rejected
  <2>3. ASSUME \A i \in 1..n : role[i] = "flag" => a[i] \in {"--json", "--no-update-notice"},
               \A i \in 1..n : role[i] = "option" =>
                 i + 1 \in 1..n /\ role[i + 1] = "value" /\ Valid(a[i], a[i + 1])
        PROVE  ~s.failed /\ s.awaiting = "" /\ s.standalone = ""
    <3>1. ASSUME NEW i \in 1..n, Rejected(a, role, i) PROVE FALSE
      <4>1. CASE role[i] = "flag" /\ a[i] \notin Flags
        BY <1>6, <2>3, <4>1
      <4>2. CASE role[i] = "value" /\ ~Valid(a[i - 1], a[i])
        <5>1. i > 1 /\ role[i - 1] = "option" /\ i - 1 \in 1..n
          BY <1>1, <1>2, <4>2
        <5>2. (i - 1) + 1 = i
          BY <1>1
        <5>3. Valid(a[i - 1], a[(i - 1) + 1])
          BY <2>3, <5>1
        <5> QED BY <4>2, <5>2, <5>3
      <4> QED BY <3>1, <4>1, <4>2 DEF Rejected
    <3>2. ~s.failed
      BY <1>5, <3>1
    <3>3. s.awaiting = ""
      <4>1. n # 0 => role[n] # "option"
        BY <1>1, <2>3
      <4> QED BY <1>5, <3>2, <4>1
    <3>4. s.standalone = ""
      BY <1>5, <1>6, <2>3, <3>2
    <3> QED BY <3>2, <3>3, <3>4
  <2> QED BY <2>1, <2>2, <2>3
<1>9. ASSUME ~s.failed
      PROVE  AcceptsWords(s.words, s.options) /\ s.words[1] = c <=>
               /\ \E i \in 1..n :
                    /\ role[i] = "word" /\ a[i] = c
                    /\ \A k \in 1..n : role[k] = "word" => k >= i
                    /\ \A k \in 1..n : role[k] = "word" /\ k # i => a[k] \in ThreadIds
                    /\ Cardinality(W) = IF c \in {"inspect", "unlock"} THEN 2 ELSE 1
               /\ c = "check-update" => ~ \E i \in 1..n : role[i] = "option"
  <2>1. PICK p : Positions(a, role, n, s.words, p)
    BY <1>5, <1>9
  <2> DEFINE m == Len(s.words)
  <2>12. n \in Nat
    BY <1>1
  <2>2. Cardinality(W) = m /\ \A i \in 1..n : role[i] = "word" <=> \E j \in 1..m : p[j] = i
    <3>1. Cardinality(W) = m
      BY <1>4, <2>1, <2>12, PositionsCount
    <3> QED BY <2>1, <3>1 DEF Positions
  <2>3. \A i \in 1..n : (role[i] = "word" /\ \A k \in 1..n : role[k] = "word" => k >= i) <=>
                          (m # 0 /\ p[1] = i)
    <3>1. \A i \in 1..n : IsFirst(role, n, i) <=> (m # 0 /\ p[1] = i)
      BY <1>4, <2>1, <2>12, FirstPosition
    <3> QED BY <3>1 DEF IsFirst
  <2>4. \A j \in 1..m : p[j] \in 1..n /\ s.words[j] = a[p[j]]
    BY <2>1 DEF Positions
  <2>5. \A j \in 1..m : j # 1 => p[j] # p[1]
    <3> SUFFICES ASSUME NEW j \in 1..m, j # 1 PROVE p[j] # p[1]
      OBVIOUS
    <3>1. 1 \in 1..m /\ 1 < j
      BY <1>4
    <3>2. p[1] < p[j] /\ p[1] \in Int
      BY <2>1, <2>4, <3>1 DEF Positions
    <3> QED BY <3>2
  <2>6. m # 0 => 1 \in 1..m
    BY <1>4
  <2>7. s.options.lock <=> \E i \in 1..n : role[i] = "option"
    BY <1>5, <1>9
  <2>8. AcceptsWords(s.words, s.options) /\ s.words[1] = c <=>
          /\ m = IF c \in {"inspect", "unlock"} THEN 2 ELSE 1
          /\ s.words[1] = c
          /\ \A j \in 1..m : j # 1 => s.words[j] \in ThreadIds
          /\ c = "check-update" => ~s.options.lock
    BY <1>3, WordsAccepted
  <2> HIDE DEF m, W
  <2>9. ASSUME AcceptsWords(s.words, s.options), s.words[1] = c
        PROVE  \E i \in 1..n :
                 /\ role[i] = "word" /\ a[i] = c
                 /\ \A k \in 1..n : role[k] = "word" => k >= i
                 /\ \A k \in 1..n : role[k] = "word" /\ k # i => a[k] \in ThreadIds
                 /\ Cardinality(W) = IF c \in {"inspect", "unlock"} THEN 2 ELSE 1
    <3>1. m = IF c \in {"inspect", "unlock"} THEN 2 ELSE 1
      BY <2>8, <2>9
    <3>2. m # 0
      BY <3>1
    <3>3. p[1] \in 1..n /\ a[p[1]] = c
      BY <2>4, <2>6, <2>9, <3>2
    <3>4. role[p[1]] = "word" /\ \A k \in 1..n : role[k] = "word" => k >= p[1]
      BY <2>3, <3>2, <3>3
    <3>5. ASSUME NEW k \in 1..n, role[k] = "word", k # p[1] PROVE a[k] \in ThreadIds
      <4>1. PICK j \in 1..m : p[j] = k
        BY <2>2, <3>5
      <4>2. j # 1 /\ s.words[j] = a[k]
        BY <2>4, <3>5, <4>1
      <4> QED BY <2>8, <2>9, <4>2
    <3> QED BY <2>2, <3>1, <3>3, <3>4, <3>5
  <2>10. ASSUME NEW i \in 1..n, role[i] = "word", a[i] = c,
                \A k \in 1..n : role[k] = "word" => k >= i,
                \A k \in 1..n : role[k] = "word" /\ k # i => a[k] \in ThreadIds,
                Cardinality(W) = IF c \in {"inspect", "unlock"} THEN 2 ELSE 1
         PROVE  /\ m = IF c \in {"inspect", "unlock"} THEN 2 ELSE 1
                /\ s.words[1] = c
                /\ \A j \in 1..m : j # 1 => s.words[j] \in ThreadIds
    <3>1. m # 0 /\ p[1] = i
      BY <2>3, <2>10
    <3>2. s.words[1] = c
      BY <2>4, <2>6, <2>10, <3>1
    <3>3. ASSUME NEW j \in 1..m, j # 1 PROVE s.words[j] \in ThreadIds
      <4>1. p[j] \in 1..n /\ p[j] # i /\ role[p[j]] = "word" /\ s.words[j] = a[p[j]]
        BY <2>2, <2>4, <2>5, <3>1, <3>3
      <4> QED BY <2>10, <4>1
    <3> QED BY <2>2, <2>10, <3>2, <3>3
  <2> QED BY <2>7, <2>8, <2>9, <2>10
<1> QED BY <1>8, <1>9 DEF Describes, Words, n

\* A command runs exactly if the argument list describes it.
LEMMA Grammar ==
  ASSUME NEW a \in Seq(STRING), NEW c \in Commands
  PROVE  Runs(a, c) <=> ParseArguments(a).what = c
<1>1. PICK f : ScanRun(a, f) /\ Scanned(a) = f[Len(a)]
  BY ScanRuns
<1> DEFINE s == f[Len(a)]
<1>2. /\ s \in Scans(Arguments(a))
      /\ ParseArguments(a).what = c <=>
           /\ ~s.failed /\ s.awaiting = "" /\ s.standalone = ""
           /\ AcceptsWords(s.words, s.options) /\ s.words[1] = c
  <2>1. s \in Scans(Arguments(a)) /\ Decided(a, s)
    BY <1>1, Parses
  <2> HIDE DEF s
  <2> QED BY <2>1 DEF Decided
<1>3. \A role \in Roles(a) : Told(a, role, Len(a), s)
  <2>1. Len(a) \in 0..Len(a)
    OBVIOUS
  <2> QED BY <1>1, <2>1, ToldThroughout
<1>4. \A role \in Roles(a) : Describes(a, role, c) <=> ParseArguments(a).what = c
  <2> HIDE DEF s
  <2> QED BY <1>2, <1>3, AcceptedDescribes
<1>5. ParseArguments(a).what = c => \E role : role \in Roles(a)
  <2>1. ~s.failed => \E role : role \in Roles(a)
    BY <1>1, ScanHasRoles
  <2> HIDE DEF s
  <2> QED BY <1>2, <2>1
<1> QED BY <1>4, <1>5, RunsDescribes

\* requestedCommand stops at the first word.
LEMMA FirstWordFound ==
  ASSUME NEW a \in Seq(STRING), NEW role \in Roles(a), NEW w \in 1..Len(a),
         role[w] = "word", \A j \in 1..(w - 1) : role[j] # "word"
  PROVE  FirstWord(a) = <<a[w]>>
<1>1. PICK f : LookRun(a, f) /\ FirstWord(a) = f[Len(a)].found
  BY LookRuns
<1> DEFINE n == Len(a)
           So(k) == IF k < w
                    THEN f[k].found = <<>> /\ (f[k].skip <=> (k # 0 /\ role[k] = "option"))
                    ELSE f[k].found = <<a[w]>>
           T == {k \in 0..n : So(k)}
<1>2. n \in Nat /\ w \in 1..n /\ 0 < w
  OBVIOUS
<1>3. <<a[w]>> # <<>>
  OBVIOUS
<1>4. So(0)
  <2>1. Unseen.skip = FALSE /\ Unseen.found = <<>>
    BY DEF Unseen
  <2> QED BY <1>1, <1>2, <2>1 DEF LookRun
<1>5. ASSUME NEW k \in 0..(n - 1), k \in T PROVE k + 1 \in T
  <2>1. k + 1 \in 1..n /\ (k + 1) - 1 = k /\ k \in 0..n /\ k + 1 \in 0..n /\ k \in Nat /\ n \in Nat
    BY <1>2
  <2>2. /\ f[k] \in Looks(Arguments(a)) /\ f[k + 1] = Look(f[k], a[k + 1])
    BY <1>1, <2>1 DEF LookRun
  <2>3. So(k)
    BY <1>5
  <2> DEFINE x == a[k + 1]
  <2>4. /\ role[k + 1] = "value" <=> (k + 1 > 1 /\ role[k] = "option")
        /\ role[k + 1] = "option" <=> (role[k + 1] # "value" /\ x \in ValueOptions)
        /\ role[k + 1] = "flag" <=> (role[k + 1] # "value" /\ x \in Dashed \ ValueOptions)
        /\ role[k + 1] = "word" <=> (role[k + 1] # "value" /\ x \notin Dashed)
    <3> HIDE DEF n
    <3>1. k + 1 \in 1..Len(a)
      BY <2>1 DEF n
    <3>2. (k + 1) - 1 = k
      BY <2>1
    <3> QED BY <3>1, <3>2, RolesDecided
  <2>5. k + 1 > 1 <=> k # 0
    BY <2>1
  <2>6. CASE k >= w
    <3>1. f[k].found = <<a[w]>> /\ ~(k + 1 < w)
      BY <1>2, <2>1, <2>3, <2>6
    <3>2. f[k + 1] = f[k]
      BY <1>3, <2>2, <3>1 DEF Look
    <3> QED BY <2>1, <3>1, <3>2
  <2>7. CASE k < w
    <3>1. f[k].found = <<>> /\ (f[k].skip <=> role[k + 1] = "value")
      BY <2>3, <2>4, <2>5, <2>7
    <3>2. CASE k + 1 = w
      <4>1. ~f[k].skip /\ x \notin Dashed /\ x \notin ValueOptions
        BY <2>4, <3>1, <3>2, LaunchAssumption
      <4>2. f[k + 1] = [f[k] EXCEPT !.found = <<x>>]
        BY <2>2, <3>1, <4>1 DEF Look
      <4>3. f[k + 1].found = <<x>>
        BY <2>2, <4>2 DEF Looks
      <4>4. ~(k + 1 < w)
        BY <2>1, <3>2
      <4> QED BY <2>1, <3>2, <4>3, <4>4
    <3>3. CASE k + 1 # w
      <4>1. k + 1 < w /\ k + 1 \in 1..(w - 1)
        BY <1>2, <2>1, <2>7, <3>3
      <4>2. role[k + 1] # "word"
        BY <4>1
      <4>3. f[k + 1].found = <<>> /\ (f[k + 1].skip <=> role[k + 1] = "option")
        <5>1. CASE f[k].skip
          <6>1. f[k + 1] = [f[k] EXCEPT !.skip = FALSE]
            BY <2>2, <3>1, <5>1 DEF Look
          <6>2. f[k + 1].found = <<>> /\ ~f[k + 1].skip
            BY <2>2, <3>1, <6>1 DEF Looks
          <6> QED BY <2>4, <3>1, <5>1, <6>2
        <5>2. CASE ~f[k].skip /\ x \in ValueOptions
          <6>1. f[k + 1] = [f[k] EXCEPT !.skip = TRUE]
            BY <2>2, <3>1, <5>2 DEF Look
          <6>2. f[k + 1].found = <<>> /\ f[k + 1].skip
            BY <2>2, <3>1, <6>1 DEF Looks
          <6> QED BY <2>4, <3>1, <5>2, <6>2
        <5>3. CASE ~f[k].skip /\ x \notin ValueOptions
          <6>1. x \in Dashed
            BY <2>4, <3>1, <4>2, <5>3
          <6>2. f[k + 1] = f[k]
            BY <2>2, <3>1, <5>3, <6>1 DEF Look
          <6> QED BY <2>4, <3>1, <5>3, <6>2
        <5> QED BY <5>1, <5>2, <5>3
      <4>4. k + 1 # 0
        BY <2>1
      <4> QED BY <2>1, <4>1, <4>3, <4>4
    <3> QED BY <3>2, <3>3
  <2>8. k >= w \/ k < w
    BY <1>2, <2>1
  <2> QED BY <2>6, <2>7, <2>8
<1>6. 0 \in T
  BY <1>2, <1>4
<1>7. n \in 0..n /\ ~(n < w)
  BY <1>2
<1> HIDE DEF T, n
<1>8. \A k \in 0..n : k \in T
  BY <1>2, <1>5, <1>6, UpTo
<1>9. So(n)
  BY <1>7, <1>8 DEF T
<1> QED BY <1>1, <1>7, <1>9 DEF n

-----------------------------------------------------------------------------
(* The request to the registry.                                            *)

\* A body is read only after a good answer, within the limit, and the race is
\* won with it only before the timer.
FetchInv ==
  /\ FetchTypeOK
  /\ request \in {"unsent", "sent"} => sent = 0 /\ kept = 0
  /\ request = "reading" \/ fetched = "ok" =>
       HeaderProblem(response) = "none" /\ kept = sent /\ sent <= MaximumBytes
  /\ fetched = "ok" => request = "settled" /\ deadline \notin {"armed", "fired"}

LEMMA FetchInitInv == FetchInit => FetchInv
<1> SUFFICES ASSUME FetchInit PROVE FetchInv
  OBVIOUS
<1>1. NoAnswer \in Answers
  BY DEF NoAnswer, Answers
<1>2. 0 \in 0..BodyBytes
  BY FetchAssumption
<1> QED BY <1>1, <1>2 DEF FetchInit, FetchInv, FetchTypeOK

LEMMA WinsTyped ==
  ASSUME FetchInv, NEW result \in {"ok"} \cup Reasons, Wins(result)
  PROVE  /\ fetched' \in {"none", "ok"} \cup Reasons
         /\ deadline' \in {"unset", "armed", "fired", "cleared"}
         /\ deadline # "fired" => deadline' \notin {"armed", "fired"}
         /\ fetched' = "ok" => fetched = "ok" \/ result = "ok"
  BY DEF Wins, FetchInv, FetchTypeOK

LEMMA FetchNextInv ==
  ASSUME FetchInv, FetchStep \/ StartFetch PROVE FetchInv'
<1> USE FetchAssumption
<1>1. CASE StartFetch
  BY <1>1 DEF StartFetch, FetchInv, FetchTypeOK
<1>2. CASE RequestFails
  <2> DEFINE why == IF request = "reading" THEN "invalid_response"
                    ELSE IF deadline = "fired" THEN "timeout" ELSE "network_error"
  <2>1. why \in {"ok"} \cup Reasons /\ why # "ok"
    BY DEF Reasons
  <2>2. Wins(why) /\ request' = "settled" /\ UNCHANGED <<response, sent, kept>>
        /\ request \in {"sent", "reading"}
    BY <1>2 DEF RequestFails, Settles
  <2>3. fetched # "ok"
    BY <2>2 DEF FetchInv
  <2> HIDE DEF why
  <2>4. fetched' # "ok"
    BY <2>1, <2>2, <2>3, WinsTyped
  <2> QED BY <2>1, <2>2, <2>4, WinsTyped DEF FetchInv, FetchTypeOK
<1>3. CASE Answered
  <2>1. /\ request = "sent" /\ response' \in Answers /\ UNCHANGED <<sent, kept>>
        /\ deadline # "fired" /\ fetched # "ok"
    BY <1>3 DEF Answered, FetchInv
  <2>2. CASE HeaderProblem(response') = "none"
    <3>1. kept = sent /\ sent <= MaximumBytes
      BY <2>1 DEF FetchInv
    <3> QED BY <1>3, <2>1, <2>2, <3>1 DEF Answered, FetchInv, FetchTypeOK
  <2>3. CASE HeaderProblem(response') # "none"
    <3>1. Wins(HeaderProblem(response')) /\ request' = "settled"
      BY <1>3, <2>3 DEF Answered, Settles
    <3>2. HeaderProblem(response') \in {"ok"} \cup Reasons /\ HeaderProblem(response') # "ok"
      BY <2>3 DEF HeaderProblem, Reasons
    <3>3. fetched' # "ok"
      BY <2>1, <3>1, <3>2, WinsTyped
    <3> QED BY <2>1, <3>1, <3>2, <3>3, WinsTyped DEF FetchInv, FetchTypeOK
  <2> QED BY <2>2, <2>3
<1>4. CASE ReadChunk
  <2>1. PICK n \in 1..(BodyBytes - sent) : sent' = sent + n /\ TakeChunk(n)
    BY <1>4 DEF ReadChunk
  <2>2. /\ request = "reading" /\ UNCHANGED <<response, deadline, fetched>>
        /\ sent \in 0..BodyBytes /\ kept \in 0..BodyBytes /\ kept = sent /\ fetched # "ok"
    BY <1>4, <2>1 DEF ReadChunk, TakeChunk, FetchInv, FetchTypeOK
  <2>3. sent' \in 0..BodyBytes
    BY <2>1, <2>2
  <2>4. CASE sent + n > MaximumBytes
    BY <2>1, <2>2, <2>3, <2>4 DEF TakeChunk, FetchInv, FetchTypeOK
  <2>5. CASE ~(sent + n > MaximumBytes)
    <3>1. kept' = sent' /\ request' = "reading" /\ sent' <= MaximumBytes
      BY <2>1, <2>2, <2>3, <2>5 DEF TakeChunk
    <3> QED BY <2>2, <2>3, <3>1 DEF FetchInv, FetchTypeOK
  <2> QED BY <2>4, <2>5
<1>5. CASE Cancelled
  <2>1. /\ Wins("response_too_large") /\ request' = "settled" /\ fetched # "ok"
        /\ UNCHANGED <<response, sent, kept>>
    BY <1>5 DEF Cancelled, Settles, FetchInv
  <2>2. "response_too_large" \in {"ok"} \cup Reasons
    BY DEF Reasons
  <2>3. fetched' # "ok"
    BY <2>1, <2>2, WinsTyped
  <2> QED BY <2>1, <2>2, <2>3, WinsTyped DEF FetchInv, FetchTypeOK
<1>6. CASE ReadDone
  <2>1. PICK result \in {"ok", "invalid_response"} : Wins(result)
    BY <1>6 DEF ReadDone, Settles
  <2>2. /\ request' = "settled" /\ UNCHANGED <<response, sent, kept>> /\ deadline # "fired"
        /\ request = "reading"
    BY <1>6 DEF ReadDone, Settles
  <2>3. result \in {"ok"} \cup Reasons
    BY DEF Reasons
  <2>4. HeaderProblem(response') = "none" /\ kept' = sent' /\ sent' <= MaximumBytes
    BY <2>2 DEF FetchInv
  <2> QED BY <2>1, <2>2, <2>3, <2>4, WinsTyped DEF FetchInv, FetchTypeOK
<1>7. CASE FetchTimeout
  BY <1>7 DEF FetchTimeout, FetchInv, FetchTypeOK, Reasons
<1> QED BY <1>1, <1>2, <1>3, <1>4, <1>5, <1>6, <1>7 DEF FetchStep

LEMMA Parsed ==
  ASSUME NEW a \in Seq(STRING), NEW q, q = ParseArguments(a)
  PROVE  /\ q.what \in {"help", "version", "usage_error"} \cup Commands
         /\ q.options \in Options(Arguments(a))
         /\ q.what # "usage_error" =>
              /\ q.options.json <=> Met(a, Len(a), "--json")
              /\ q.options.quiet <=> Met(a, Len(a), "--no-update-notice")
         /\ q.what \in {"help", "version"} => ~q.options.json
<1>1. PICK f : ScanRun(a, f) /\ Scanned(a) = f[Len(a)]
  BY ScanRuns
<1> DEFINE s == f[Len(a)]
<1>2. /\ s \in Scans(Arguments(a)) /\ ParseArguments(a).options = s.options
      /\ ParseArguments(a).what \in {"help", "version", "usage_error"} \cup Commands
      /\ ParseArguments(a).what # "usage_error" => ~s.failed
      /\ ParseArguments(a).what \in {"help", "version"} => ~s.options.json
  BY <1>1, Parses
<1> HIDE DEF s
<1>3. /\ s \in Scans(Arguments(a)) /\ q.options = s.options
      /\ q.what \in {"help", "version", "usage_error"} \cup Commands
      /\ q.what # "usage_error" => ~s.failed
      /\ q.what \in {"help", "version"} => ~s.options.json
  BY <1>2
<1>4. ~s.failed => /\ s.options.json <=> Met(a, Len(a), "--json")
                   /\ s.options.quiet <=> Met(a, Len(a), "--no-update-notice")
  <2>1. Len(a) \in 0..Len(a)
    OBVIOUS
  <2> QED BY <1>1, <2>1, FlagsMet DEF s
<1>5. s.options \in Options(Arguments(a))
  BY <1>3 DEF Scans
<1> QED BY <1>3, <1>4, <1>5

\* The argument of the detached refresh is no command.
LEMMA RefreshIsNone ==
  ASSUME NEW c \in Commands
  PROVE  ~Runs(<<RefreshArg>>, c)
<1> SUFFICES ASSUME Runs(<<RefreshArg>>, c) PROVE FALSE
  OBVIOUS
<1> DEFINE a == <<RefreshArg>>
<1>1. PICK role \in Roles(a) : Describes(a, role, c)
  BY RunsDescribes
<1>2. Len(a) = 1 /\ a[1] = RefreshArg
  OBVIOUS
<1>3. RefreshArg \in Dashed /\ RefreshArg \notin Commands
  BY LaunchAssumption DEF RefreshArg, Commands
<1> HIDE DEF a
<1>4. PICK i \in 1..Len(a) : a[i] = c
  BY <1>1 DEF Describes
<1>5. i = 1
  BY <1>2, <1>4
<1> QED BY <1>2, <1>3, <1>4, <1>5

-----------------------------------------------------------------------------
(* The invocation.                                                         *)

Asked == Mentions("--json")
Silenced == Mentions("--no-update-notice")

\* Where main is, and what that says of the arguments and of the exit code.
Control ==
  /\ launch \in Launches
  /\ step \in {"parse", "advise", "run", "finish", "return", "refresh", "done"}
  /\ parsed = IF step = "parse" \/ argv = <<RefreshArg>> THEN Unparsed ELSE ParseArguments(argv)
  /\ argv = <<RefreshArg>> => step \in {"parse", "refresh", "return", "done"}
  /\ step = "refresh" => argv = <<RefreshArg>>
  /\ step = "run" => parsed.what \in Commands
  /\ step \in {"advise", "finish"} => parsed.what \in {"usage_error", "list", "inspect", "unlock"}
  /\ lease \in {"unasked", "acquired", "contended", "unavailable"}
  /\ broken \in {"no", "EPIPE", "other"} /\ (step # "done" => broken = "no")
  /\ exitCode = IF step # "done" THEN Unset ELSE IF broken = "other" THEN 3 ELSE verdict

\* The advisory is prepared once, from the flags in argv, by the commands that
\* have one, and a refresh is spawned only if it says so.
Advice ==
  /\ \/ (advisory = NoAdvisory /\ cacheRead = FALSE)
     \/ /\ parsed.what \in {"usage_error", "list", "inspect", "unlock"}
        /\ step \in {"run", "finish", "return", "done"}
        /\ advisory = PrepareAdvisory(Asked, Silenced)
        /\ cacheRead = (~Disabled(Silenced) /\ LooksAtCache(Asked))
  /\ children \in {0, 1}
  /\ children = 1 => advisory.refresh

Failures == {"invalid_usage", "command_failed", "refused", "failed"}

\* What has been written once there is a verdict.
Shown ==
  \E command, kind, client :
    /\ verdict = 0 <=> kind \notin Failures
    /\ kind = "invalid_usage" => command = RequestedCommand(argv)
    /\ IF Asked
       THEN stdout = <<Document(command, kind, verdict, client)>> /\ stderr = <<>>
       ELSE stdout = <<Text(kind)>> \/ (stdout = <<>> /\ kind \in Failures)

Output ==
  IF step \in {"parse", "advise", "run", "refresh"}
  THEN stdout = <<>> /\ stderr = <<>> /\ verdict = Unset
  ELSE IF argv = <<RefreshArg>> THEN stdout = <<>> /\ verdict = 0
  ELSE \/ stdout = <<>> /\ verdict = 1
       \/ verdict \in {0, 2, 3, 64} /\ Shown

ListVerdict ==
  (parsed.what = "list" /\ verdict \notin {Unset, 1}) => (verdict = 0 <=> outcome = "listed")

CliInv ==
  /\ IInv /\ FetchInv /\ Control /\ Advice /\ Output /\ ListVerdict /\ VersionIsVouched

LEMMA ArgvTyped == ASSUME launch \in Launches PROVE argv \in Seq(STRING)
  BY LaunchAssumption DEF argv

\* What the arguments say, once they are parsed.
LEMMA ParsedSays ==
  ASSUME Control, step # "parse", argv # <<RefreshArg>>
  PROVE  /\ parsed = ParseArguments(argv)
         /\ parsed.what \in {"help", "version", "usage_error"} \cup Commands
         /\ parsed.options \in Options(Arguments(argv))
         /\ parsed.what # "usage_error" => (json <=> Asked) /\ (parsed.options.quiet <=> Silenced)
<1>1. argv \in Seq(STRING) /\ parsed = ParseArguments(argv)
  BY ArgvTyped DEF Control
<1>2. \A flag : Met(argv, Len(argv), flag) <=> Mentions(flag)
  BY DEF Met, Mentions
<1> QED BY <1>1, <1>2, Parsed DEF json, Asked, Silenced

LEMMA Joined ==
  ASSUME NEW x
  PROVE  <<>> \o <<x>> = <<x>> /\ <<>> \o <<>> = <<>>
<1>1. <<x>> \in Seq({x}) /\ <<>> \in Seq({x})
  OBVIOUS
<1> QED BY <1>1

LEMMA CliInitInv == CliInit => CliInv
<1> SUFFICES ASSUME CliInit PROVE CliInv
  OBVIOUS
<1>1. IInv /\ FetchInv
  BY InitIInv, FetchInitInv DEF CliInit
<1>2. Control /\ Advice
  <2>1. argv = <<RefreshArg>> => step \in {"parse", "refresh", "return", "done"}
    BY DEF CliInit
  <2> QED BY <2>1 DEF CliInit, Control, Advice
<1>3. Output
  BY DEF CliInit, Output
<1>4. Unparsed.what = "unparsed"
  BY DEF Unparsed, Parse
<1>5. ListVerdict /\ VersionIsVouched
  BY <1>4 DEF CliInit, ListVerdict, VersionIsVouched
<1> QED BY <1>1, <1>2, <1>3, <1>5 DEF CliInv

\* The invocation itself never changes.
LEMMA Steady ==
  ASSUME launch' = launch
  PROVE  /\ argv' = argv /\ ctx' = ctx
         /\ Asked' = Asked /\ Silenced' = Silenced
         /\ PrepareAdvisory(Asked, Silenced)' = PrepareAdvisory(Asked, Silenced)
         /\ (~Disabled(Silenced) /\ LooksAtCache(Asked))' =
              (~Disabled(Silenced) /\ LooksAtCache(Asked))
<1>1. argv' = argv /\ ctx' = ctx
  BY DEF argv, ctx
<1>2. Asked' = Asked /\ Silenced' = Silenced
  BY <1>1 DEF Asked, Silenced, Mentions
<1>3. /\ Disabled(Silenced)' = Disabled(Silenced)
      /\ LooksAtCache(Asked)' = LooksAtCache(Asked)
      /\ Foreign(Asked)' = Foreign(Asked)
  BY <1>1, <1>2 DEF Disabled, LooksAtCache, Foreign, ReadsCache
<1>4. Fresh(Asked)' = Fresh(Asked) /\ ShowsNotice(Asked)' = ShowsNotice(Asked)
      /\ Refreshes' = Refreshes
  BY <1>1, <1>2, <1>3 DEF Fresh, ShowsNotice, Refreshes
<1>5. ProvesNewer(Asked)' = ProvesNewer(Asked)
  BY <1>1, <1>2, <1>4 DEF ProvesNewer
<1>6. PrepareAdvisory(Asked, Silenced)' = PrepareAdvisory(Asked, Silenced)
  BY <1>2, <1>3, <1>4, <1>5 DEF PrepareAdvisory
<1>7. (~Disabled(Silenced) /\ LooksAtCache(Asked))' =
        (~Disabled(Silenced) /\ LooksAtCache(Asked))
  BY <1>3
<1> QED BY <1>1, <1>2, <1>6, <1>7

LEMMA ShownStays ==
  ASSUME Shown, UNCHANGED <<launch, stdout, verdict>>, stderr' = stderr \/ ~Asked
  PROVE  Shown'
<1>1. PICK command, kind, client :
        /\ verdict = 0 <=> kind \notin Failures
        /\ kind = "invalid_usage" => command = RequestedCommand(argv)
        /\ IF Asked
           THEN stdout = <<Document(command, kind, verdict, client)>> /\ stderr = <<>>
           ELSE stdout = <<Text(kind)>> \/ (stdout = <<>> /\ kind \in Failures)
  BY DEF Shown
<1>2. argv' = argv /\ Asked' = Asked
  BY Steady
<1>3. /\ verdict' = 0 <=> kind \notin Failures
      /\ kind = "invalid_usage" => command = RequestedCommand(argv')
      /\ IF Asked'
         THEN stdout' = <<Document(command, kind, verdict', client)>> /\ stderr' = <<>>
         ELSE stdout' = <<Text(kind)>> \/ (stdout' = <<>> /\ kind \in Failures)
  BY <1>1, <1>2
<1> QED BY <1>3 DEF Shown

\* A command that reports ends with one document, or with one entry of text.
LEMMA ReportShown ==
  ASSUME stdout = <<>>, stderr = <<>>, json <=> Asked, launch' = launch,
         NEW command, NEW kind, NEW code, Report(command, kind, code),
         code = 0 <=> kind \notin Failures, kind # "invalid_usage"
  PROVE  Shown' /\ verdict' = code
<1>1. verdict' = code
  BY DEF Report
<1>2. argv' = argv /\ Asked' = Asked
  BY Steady
<1>3. CASE Asked
  <2>1. Emit(<<Document(command, kind, code, advisory.client)>>, <<>>)
    BY <1>3 DEF Report
  <2>2. stdout' = <<Document(command, kind, verdict', advisory.client)>> /\ stderr' = <<>>
    BY <1>1, <2>1, Joined DEF Emit
  <2> DEFINE client == advisory.client
  <2> HIDE DEF client
  <2>3. stdout' = <<Document(command, kind, verdict', client)>>
    BY <2>2 DEF client
  <2> QED BY <1>1, <1>2, <1>3, <2>2, <2>3 DEF Shown
<1>4. CASE ~Asked
  <2>1. CASE kind = "command_failed"
    <3>1. Emit(<<>>, <<Text(kind)>>)
      BY <1>4, <2>1 DEF Report
    <3>2. stdout' = <<>> /\ kind \in Failures
      BY <2>1, <3>1, Joined DEF Emit, Failures
    <3> QED BY <1>1, <1>2, <1>4, <3>2 DEF Shown
  <2>2. CASE kind # "command_failed"
    <3>1. Emit(<<Text(kind)>>, <<>>)
      BY <1>4, <2>2 DEF Report
    <3>2. stdout' = <<Text(kind)>>
      BY <3>1, Joined DEF Emit
    <3> QED BY <1>1, <1>2, <1>4, <3>2 DEF Shown
  <2> QED BY <2>1, <2>2
<1> QED BY <1>1, <1>3, <1>4

LEMMA SameIInv == ASSUME IInv, UNCHANGED vars PROVE IInv'
  BY NextIInv

LEMMA SameFetchInv == ASSUME FetchInv, UNCHANGED fetchVars PROVE FetchInv'
  BY DEF FetchInv, FetchTypeOK, fetchVars

-----------------------------------------------------------------------------
(* Every action preserves the invariant.                                   *)

LEMMA AdviceMoves ==
  ASSUME Advice, UNCHANGED <<launch, advisory, cacheRead>>, parsed' = parsed,
         step' \in {"run", "finish", "return", "done"} \/ (advisory = NoAdvisory /\ cacheRead = FALSE),
         children' \in {0, 1}, children' = 1 => advisory.refresh
  PROVE  Advice'
<1>1. /\ PrepareAdvisory(Asked, Silenced)' = PrepareAdvisory(Asked, Silenced)
      /\ (~Disabled(Silenced) /\ LooksAtCache(Asked))' =
           (~Disabled(Silenced) /\ LooksAtCache(Asked))
  BY Steady
<1>2. NoAdvisory' = NoAdvisory
  BY DEF NoAdvisory, Advisory
<1>3. CASE advisory = NoAdvisory /\ cacheRead = FALSE
  BY <1>2, <1>3 DEF Advice
<1>4. CASE ~(advisory = NoAdvisory /\ cacheRead = FALSE)
  <2>1. /\ parsed.what \in {"usage_error", "list", "inspect", "unlock"}
        /\ advisory = PrepareAdvisory(Asked, Silenced)
        /\ cacheRead = (~Disabled(Silenced) /\ LooksAtCache(Asked))
    BY <1>4 DEF Advice
  <2>2. /\ parsed'.what \in {"usage_error", "list", "inspect", "unlock"}
        /\ step' \in {"run", "finish", "return", "done"}
        /\ advisory' = PrepareAdvisory(Asked, Silenced)'
        /\ cacheRead' = (~Disabled(Silenced) /\ LooksAtCache(Asked))'
    BY <1>1, <1>4, <2>1
  <2> QED BY <2>1, <2>2 DEF Advice
<1> QED BY <1>3, <1>4

LEMMA AdviceStays ==
  ASSUME Advice, UNCHANGED <<launch, advisory, cacheRead, children>>, parsed' = parsed,
         step' \in {"run", "finish", "return", "done"} \/ (advisory = NoAdvisory /\ cacheRead = FALSE)
  PROVE  Advice'
<1>1. children' \in {0, 1} /\ (children' = 1 => advisory.refresh)
  BY DEF Advice
<1> QED BY <1>1, AdviceMoves

\* The steps of the worker pool and of the request.
LEMMA AwaitInv ==
  ASSUME CliInv, UNCHANGED cliVars, step \in {"run", "refresh"}
  PROVE  Control' /\ Advice' /\ Output' /\ ListVerdict' /\ VersionIsVouched'
<1>0. Control /\ Advice /\ Output
  BY DEF CliInv
<1>1. UNCHANGED <<launch, step, parsed, advisory, cacheRead, stdout, stderr, lease,
                  children, verdict, exitCode, broken>> /\ argv' = argv
  BY Steady DEF cliVars
<1>2. Control'
  BY <1>0, <1>1 DEF Control
<1>3. Advice'
  <2>1. step' \in {"run", "finish", "return", "done"} \/ (advisory = NoAdvisory /\ cacheRead = FALSE)
    BY <1>0, <1>1 DEF Advice
  <2>2. UNCHANGED <<launch, advisory, cacheRead, children>> /\ parsed' = parsed
    BY <1>1
  <2> QED BY <1>0, <2>1, <2>2, AdviceStays
<1>4. Output'
  BY <1>0, <1>1 DEF Output
<1>5. verdict' = Unset /\ Unset # 0
  BY <1>0, <1>1 DEF Output, Unset
<1>6. ListVerdict' /\ VersionIsVouched'
  BY <1>5 DEF ListVerdict, VersionIsVouched
<1> QED BY <1>2, <1>3, <1>4, <1>6

\* A command ends: what it wrote, and its code.
LEMMA EndsInv ==
  ASSUME CliInv, NEW c \in Commands, Running(c), Shown', verdict' \in {0, 2, 3},
         c = "list" => (verdict' = 0 <=> outcome = "listed"),
         Kept, UNCHANGED <<vars, fetchVars>>,
         step' = "return" \/ (step' = "finish" /\ c # "check-update"),
         VersionIsVouched'
  PROVE  CliInv'
<1>0. /\ Control /\ Advice /\ IInv /\ FetchInv /\ step = "run" /\ parsed.what = c
      /\ UNCHANGED <<launch, parsed, advisory, cacheRead, lease, children, exitCode, broken>>
      /\ argv' = argv
  BY Steady DEF CliInv, Running, Kept
<1>1. IInv' /\ FetchInv'
  BY <1>0, SameIInv, SameFetchInv
<1>2. argv # <<RefreshArg>>
  BY <1>0 DEF Control
<1>3. Control'
  BY <1>0, <1>2 DEF Control, Commands
<1>4. Advice'
  <2>1. step' \in {"run", "finish", "return", "done"}
    OBVIOUS
  <2>2. UNCHANGED <<launch, advisory, cacheRead, children>> /\ parsed' = parsed
    BY <1>0
  <2> QED BY <1>0, <2>1, <2>2, AdviceStays
<1>5. Output'
  BY <1>0, <1>2 DEF Output
<1>6. ListVerdict'
  <2>1. outcome' = outcome
    BY DEF vars
  <2> QED BY <1>0, <2>1 DEF ListVerdict
<1> QED BY <1>1, <1>3, <1>4, <1>5, <1>6 DEF CliInv

\* What is known when a command runs.
LEMMA RunningSays ==
  ASSUME CliInv, NEW c \in Commands, Running(c)
  PROVE  (json <=> Asked) /\ stdout = <<>> /\ stderr = <<>>
<1>1. /\ Control /\ Output /\ step = "run" /\ parsed.what = c /\ c # "usage_error"
  BY DEF CliInv, Running, Commands
<1>2. argv # <<RefreshArg>>
  BY <1>1 DEF Control
<1> QED BY <1>1, <1>2, ParsedSays DEF Output

LEMMA ReportInv ==
  ASSUME CliInv, NEW c \in {"list", "inspect", "unlock"}, Running(c),
         NEW kind, NEW code \in {0, 2, 3}, Report(c, kind, code),
         code = 0 <=> kind \notin Failures, kind # "invalid_usage",
         c = "list" => (code = 0 <=> outcome = "listed"),
         Finishing, Kept, UNCHANGED <<vars, fetchVars>>
  PROVE  CliInv'
<1>1. c \in Commands /\ c # "check-update" /\ launch' = launch /\ parsed'.what = c
  BY DEF Commands, Kept, Running
<1>2. Shown' /\ verdict' = code
  BY <1>1, RunningSays, ReportShown
<1>3. VersionIsVouched'
  BY <1>1 DEF VersionIsVouched
<1> QED BY <1>1, <1>2, <1>3, EndsInv DEF Finishing

LEMMA ListInv ==
  ASSUME CliInv, ListRuns \/ ListFails \/ ListEnds PROVE CliInv'
<1>0. "list" \in {"list", "inspect", "unlock"} /\ "list" \in Commands
  BY DEF Commands
<1>1. CASE ListRuns
  <2>1. Control' /\ Advice' /\ Output' /\ ListVerdict' /\ VersionIsVouched'
    BY <1>1, AwaitInv DEF ListRuns, Running
  <2>2. Next /\ UNCHANGED fetchVars
    BY <1>1 DEF ListRuns, Next
  <2>3. IInv' /\ FetchInv'
    BY <2>2, NextIInv, SameFetchInv DEF CliInv
  <2> QED BY <2>1, <2>3 DEF CliInv
<1>2. CASE ListFails
  <2>1. "command_failed" \in Failures /\ 3 \in {0, 2, 3} /\ "command_failed" # "invalid_usage"
    BY DEF Failures
  <2>2. /\ Running("list") /\ Report("list", "command_failed", 3) /\ Finishing /\ Kept
        /\ UNCHANGED <<vars, fetchVars>> /\ outcome # "listed"
    BY <1>2 DEF ListFails
  <2> QED BY <1>0, <2>1, <2>2, ReportInv
<1>3. CASE ListEnds
  <2>0. /\ Running("list") /\ Finishing /\ Kept /\ UNCHANGED <<vars, fetchVars>>
        /\ IF outcome = "listed" THEN Report("list", "sessions", 0)
           ELSE Report("list", "command_failed", 3)
    BY <1>3 DEF ListEnds
  <2>1. CASE outcome = "listed"
    <3>1. "sessions" \notin Failures /\ 0 \in {0, 2, 3} /\ "sessions" # "invalid_usage"
      BY DEF Failures
    <3> QED BY <1>0, <2>0, <2>1, <3>1, ReportInv
  <2>2. CASE outcome # "listed"
    <3>1. "command_failed" \in Failures /\ 3 \in {0, 2, 3} /\ "command_failed" # "invalid_usage"
      BY DEF Failures
    <3> QED BY <1>0, <2>0, <2>2, <3>1, ReportInv
  <2> QED BY <2>1, <2>2
<1> QED BY <1>1, <1>2, <1>3

LEMMA InspectInv == ASSUME CliInv, InspectEnds PROVE CliInv'
<1>0. /\ "inspect" \in {"list", "inspect", "unlock"} /\ "inspect" \in Commands
      /\ 0 \in {0, 2, 3} /\ 3 \in {0, 2, 3} /\ "inspect" # "list"
  BY DEF Commands
<1>1. "command_failed" \in Failures /\ "inspection" \notin Failures
      /\ "command_failed" # "invalid_usage" /\ "inspection" # "invalid_usage"
  BY DEF Failures
<1>2. /\ Running("inspect") /\ Finishing /\ Kept /\ UNCHANGED <<vars, fetchVars>>
      /\ Report("inspect", "inspection", 0) \/ Report("inspect", "command_failed", 3)
  BY DEF InspectEnds
<1>3. CASE Report("inspect", "inspection", 0)
  BY <1>0, <1>1, <1>2, <1>3, ReportInv
<1>4. CASE Report("inspect", "command_failed", 3)
  BY <1>0, <1>1, <1>2, <1>4, ReportInv
<1> QED BY <1>2, <1>3, <1>4

LEMMA UnlockInv == ASSUME CliInv, UnlockEnds PROVE CliInv'
<1>0. /\ "unlock" \in {"list", "inspect", "unlock"} /\ "unlock" \in Commands
      /\ 3 \in {0, 2, 3} /\ "unlock" # "list"
  BY DEF Commands
<1>1. /\ Running("unlock") /\ Finishing /\ Kept /\ UNCHANGED <<vars, fetchVars>>
      /\ \/ \E result \in {"unlocked", "not_locked", "refused", "failed"} :
              Report("unlock", result, CodeOf(result))
         \/ Report("unlock", "command_failed", 3)
  BY DEF UnlockEnds
<1>2. CASE Report("unlock", "command_failed", 3)
  <2>1. "command_failed" \in Failures /\ "command_failed" # "invalid_usage"
    BY DEF Failures
  <2> QED BY <1>0, <1>1, <1>2, <2>1, ReportInv
<1>3. ASSUME NEW result \in {"unlocked", "not_locked", "refused", "failed"},
             Report("unlock", result, CodeOf(result))
      PROVE  CliInv'
  <2>1. PICK code : code = CodeOf(result)
    OBVIOUS
  <2>2. code \in {0, 2, 3} /\ (code = 0 <=> result \notin Failures)
    BY <2>1 DEF CodeOf, Failures
  <2>3. Report("unlock", result, code) /\ result # "invalid_usage"
    BY <1>3, <2>1
  <2> QED BY <1>0, <1>1, <2>2, <2>3, ReportInv
<1> QED BY <1>1, <1>2, <1>3

LEMMA RequestInv == ASSUME CliInv, SendRequest \/ AwaitRegistry PROVE CliInv'
<1>1. UNCHANGED <<cliVars, vars>> /\ Updating /\ (StartFetch \/ FetchStep)
  BY DEF SendRequest, AwaitRegistry
<1>2. step \in {"run", "refresh"}
  BY <1>1 DEF Updating, Running
<1>3. Control' /\ Advice' /\ Output' /\ ListVerdict' /\ VersionIsVouched'
  BY <1>1, <1>2, AwaitInv
<1>4. IInv' /\ FetchInv'
  BY <1>1, SameIInv, FetchNextInv DEF CliInv
<1> QED BY <1>3, <1>4 DEF CliInv

LEMMA LeaseInv == ASSUME CliInv, AskLease PROVE CliInv'
<1>1. /\ Control /\ Advice /\ Output /\ IInv /\ FetchInv /\ Updating
      /\ lease' \in {"acquired", "contended", "unavailable"}
      /\ UNCHANGED <<launch, step, parsed, advisory, cacheRead, stdout, stderr, children,
                     verdict, exitCode, broken, vars, fetchVars>>
  BY DEF AskLease, CliInv
<1>2. argv' = argv
  BY <1>1, Steady
<1>3. IInv' /\ FetchInv'
  BY <1>1, SameIInv, SameFetchInv
<1>4. Control'
  BY <1>1, <1>2 DEF Control
<1>5. Advice'
  <2>1. step' \in {"run", "finish", "return", "done"} \/ (advisory = NoAdvisory /\ cacheRead = FALSE)
    BY <1>1 DEF Advice, Updating, Running
  <2>2. UNCHANGED <<launch, advisory, cacheRead, children>> /\ parsed' = parsed
    BY <1>1
  <2> QED BY <1>1, <2>1, <2>2, AdviceStays
<1>6. Output' /\ verdict' = Unset
  BY <1>1, <1>2 DEF Output, Updating, Running
<1>7. ListVerdict' /\ VersionIsVouched'
  BY <1>6 DEF ListVerdict, VersionIsVouched, Unset
<1> QED BY <1>3, <1>4, <1>5, <1>6, <1>7 DEF CliInv

LEMMA BeginInv == ASSUME CliInv, BeginRefresh PROVE CliInv'
<1>1. /\ Control /\ Advice /\ Output /\ IInv /\ FetchInv /\ step = "parse" /\ step' = "refresh"
      /\ argv = <<RefreshArg>>
      /\ UNCHANGED <<launch, parsed, advisory, cacheRead, stdout, stderr, lease, children,
                     verdict, exitCode, broken, vars, fetchVars>>
  BY DEF BeginRefresh, CliInv
<1>2. argv' = argv
  BY <1>1, Steady
<1>3. IInv' /\ FetchInv'
  BY <1>1, SameIInv, SameFetchInv
<1>4. Control'
  BY <1>1, <1>2 DEF Control
<1>5. Advice'
  <2>1. advisory = NoAdvisory /\ cacheRead = FALSE
    BY <1>1 DEF Advice
  <2>2. UNCHANGED <<launch, advisory, cacheRead, children>> /\ parsed' = parsed
    BY <1>1
  <2> QED BY <1>1, <2>1, <2>2, AdviceStays
<1>6. Output' /\ verdict' = Unset
  BY <1>1, <1>2 DEF Output
<1>7. ListVerdict' /\ VersionIsVouched'
  BY <1>6 DEF ListVerdict, VersionIsVouched, Unset
<1> QED BY <1>3, <1>4, <1>5, <1>6, <1>7 DEF CliInv

LEMMA RefreshInv == ASSUME CliInv, RefreshEnds PROVE CliInv'
<1>1. /\ Control /\ Advice /\ Output /\ IInv /\ FetchInv /\ step = "refresh" /\ step' = "return"
      /\ UNCHANGED <<launch, parsed, advisory, cacheRead, stdout, stderr, lease, children,
                     exitCode, broken, vars, fetchVars>> /\ verdict' = 0
  BY DEF RefreshEnds, Kept, CliInv
<1>2. argv' = argv /\ argv = <<RefreshArg>> /\ parsed = Unparsed
  BY <1>1, Steady DEF Control
<1>3. IInv' /\ FetchInv'
  BY <1>1, SameIInv, SameFetchInv
<1>4. Control'
  BY <1>1, <1>2 DEF Control
<1>5. Advice'
  <2>1. step' \in {"run", "finish", "return", "done"}
    BY <1>1
  <2>2. UNCHANGED <<launch, advisory, cacheRead, children>> /\ parsed' = parsed
    BY <1>1
  <2> QED BY <1>1, <2>1, <2>2, AdviceStays
<1>6. Output'
  BY <1>1, <1>2 DEF Output
<1>7. parsed'.what = "unparsed"
  BY <1>1, <1>2 DEF Unparsed, Parse
<1>8. ListVerdict' /\ VersionIsVouched'
  BY <1>7 DEF ListVerdict, VersionIsVouched
<1> QED BY <1>3, <1>4, <1>5, <1>6, <1>8 DEF CliInv

\* A notice is for a reader of text.
LEMMA NoticeIsText == ASSUME Advice, Asked PROVE ~advisory.notice
<1>1. CASE advisory = NoAdvisory
  BY <1>1 DEF NoAdvisory, Advisory
<1>2. CASE advisory = PrepareAdvisory(Asked, Silenced)
  BY <1>2 DEF PrepareAdvisory, NoAdvisory, Advisory, ShowsNotice
<1> QED BY <1>1, <1>2 DEF Advice

\* main has returned: the output keeps what it says.
LEMMA DoneInv ==
  ASSUME CliInv, step \in {"finish", "return", "done"}, step' = "done",
         UNCHANGED <<launch, parsed, advisory, cacheRead, stdout, lease, verdict, vars, fetchVars>>,
         stderr' = stderr \/ ~Asked,
         children' \in {0, 1}, children' = 1 => advisory.refresh,
         broken' \in {"no", "EPIPE", "other"},
         exitCode' = IF broken' = "other" THEN 3 ELSE verdict
  PROVE  CliInv'
<1>1. /\ Control /\ Advice /\ Output /\ IInv /\ FetchInv /\ ListVerdict /\ VersionIsVouched
      /\ UNCHANGED <<launch, advisory, cacheRead>> /\ parsed' = parsed
      /\ UNCHANGED <<launch, stdout, verdict>>
  BY DEF CliInv
<1>2. argv' = argv /\ ctx' = ctx
  BY <1>1, Steady
<1>3. IInv' /\ FetchInv'
  BY <1>1, SameIInv, SameFetchInv
<1>4. Control'
  BY <1>1, <1>2 DEF Control
<1>5. Advice'
  <2>1. step' \in {"run", "finish", "return", "done"}
    OBVIOUS
  <2> QED BY <1>1, <2>1, AdviceMoves
<1>6. Output'
  <2>1. Shown => Shown'
    BY <1>1, ShownStays
  <2> QED BY <1>1, <1>2, <2>1 DEF Output
<1>7. ListVerdict'
  BY <1>1 DEF ListVerdict, vars
<1>8. VersionIsVouched'
  BY <1>1, <1>2 DEF VersionIsVouched, fetchVars
<1> QED BY <1>3, <1>4, <1>5, <1>6, <1>7, <1>8 DEF CliInv

LEMMA FinishInv == ASSUME CliInv, Finish PROVE CliInv'
<1>1. /\ Control /\ Advice /\ Output /\ step = "finish" /\ step' = "done" /\ exitCode' = verdict
      /\ children' \in IF advisory.refresh THEN {0, 1} ELSE {0}
      /\ stderr' \in {stderr, stderr \o IF advisory.notice THEN <<Text("notice")>> ELSE <<>>}
      /\ UNCHANGED <<launch, parsed, advisory, cacheRead, stdout, lease, verdict, broken,
                     vars, fetchVars>>
  BY DEF Finish, SpawnRefresh, CliInv
<1>2. broken' = "no"
  BY <1>1 DEF Control
<1>3. children' \in {0, 1} /\ (children' = 1 => advisory.refresh)
  BY <1>1
<1>4. CASE stderr' = stderr \/ ~Asked
  BY <1>1, <1>2, <1>3, <1>4, DoneInv
<1>5. CASE Asked /\ stderr' # stderr
  <2>1. stderr' = stderr \o <<>>
    BY <1>1, <1>5, NoticeIsText
  <2>2. ~Shown
    <3>1. Shown => stderr = <<>>
      BY <1>5 DEF Shown
    <3> QED BY <1>5, <2>1, <3>1, Joined
  <2>3. stdout = <<>> /\ verdict = 1
    BY <1>1, <2>2 DEF Output, Control
  <2>4. UNCHANGED <<launch, advisory, cacheRead>> /\ parsed' = parsed
        /\ step' \in {"run", "finish", "return", "done"} /\ IInv /\ FetchInv
        /\ ListVerdict /\ VersionIsVouched
    BY <1>1 DEF CliInv
  <2>5. argv' = argv /\ ctx' = ctx
    BY <2>4, Steady
  <2>6. IInv' /\ FetchInv' /\ Advice'
    BY <1>1, <1>3, <2>4, SameIInv, SameFetchInv, AdviceMoves
  <2>7. Control'
    BY <1>1, <1>2, <2>5 DEF Control
  <2>8. Output'
    BY <1>1, <2>3, <2>5 DEF Output, Control
  <2>9. ListVerdict' /\ VersionIsVouched'
    BY <1>1, <2>3 DEF ListVerdict, VersionIsVouched
  <2> QED BY <2>6, <2>7, <2>8, <2>9 DEF CliInv
<1> QED BY <1>4, <1>5

LEMMA ReturnInv == ASSUME CliInv, Return PROVE CliInv'
<1>1. /\ Control /\ Advice /\ step = "return" /\ step' = "done" /\ exitCode' = verdict
      /\ UNCHANGED <<launch, parsed, advisory, cacheRead, stdout, stderr, lease, children,
                     verdict, broken, vars, fetchVars>>
  BY DEF Return, CliInv
<1>2. broken' = "no"
  BY <1>1 DEF Control
<1>3. children' \in {0, 1} /\ (children' = 1 => advisory.refresh)
  BY <1>1 DEF Advice
<1> QED BY <1>1, <1>2, <1>3, DoneInv

LEMMA BrokenInv == ASSUME CliInv, StdoutFails PROVE CliInv'
<1>1. /\ Control /\ Advice /\ step = "done" /\ broken = "no"
      /\ broken' \in {"EPIPE", "other"}
      /\ exitCode' = IF broken' = "EPIPE" THEN exitCode ELSE 3
      /\ UNCHANGED <<launch, step, parsed, advisory, cacheRead, stdout, stderr, lease,
                     children, verdict, vars, fetchVars>>
  BY DEF StdoutFails, CliInv
<1>2. exitCode' = IF broken' = "other" THEN 3 ELSE verdict
  BY <1>1 DEF Control
<1>3. children' \in {0, 1} /\ (children' = 1 => advisory.refresh)
  BY <1>1 DEF Advice
<1>4. step' = "done"
  BY <1>1
<1> QED BY <1>1, <1>2, <1>3, <1>4, DoneInv

LEMMA StutterInv == ASSUME CliInv, UNCHANGED allVars PROVE CliInv'
<1>1. UNCHANGED <<launch, step, parsed, advisory, cacheRead, stdout, stderr, lease, children,
                  verdict, exitCode, broken, vars, fetchVars>>
  BY DEF allVars, cliVars
<1>2. argv' = argv /\ ctx' = ctx
  BY <1>1, Steady
<1>3. IInv' /\ FetchInv'
  BY <1>1, SameIInv, SameFetchInv DEF CliInv
<1>4. Control'
  BY <1>1, <1>2 DEF Control, CliInv
<1>5. Advice'
  <2>1. CASE step \in {"run", "finish", "return", "done"}
    BY <1>1, <2>1, AdviceStays DEF CliInv
  <2>2. CASE ~(step \in {"run", "finish", "return", "done"})
    <3>1. advisory = NoAdvisory /\ cacheRead = FALSE
      BY <2>2 DEF CliInv, Advice
    <3> QED BY <1>1, <3>1, AdviceStays DEF CliInv
  <2> QED BY <2>1, <2>2
<1>6. Output'
  <2>1. Shown => Shown'
    BY <1>1, ShownStays
  <2> QED BY <1>1, <1>2, <2>1 DEF Output, CliInv
<1>7. ListVerdict' /\ VersionIsVouched'
  BY <1>1, <1>2 DEF ListVerdict, VersionIsVouched, CliInv, vars, fetchVars
<1> QED BY <1>3, <1>4, <1>5, <1>6, <1>7 DEF CliInv

LEMMA ParseInv == ASSUME CliInv, ParseArgv PROVE CliInv'
<1>1. /\ Control /\ Advice /\ Output /\ IInv /\ FetchInv
      /\ step = "parse" /\ argv # <<RefreshArg>> /\ parsed' = ParseArguments(argv)
      /\ UNCHANGED <<launch, advisory, cacheRead, lease, children, exitCode, broken, vars,
                     fetchVars>>
  BY DEF ParseArgv, CliInv
<1>2. /\ argv' = argv /\ Asked' = Asked /\ argv \in Seq(STRING)
      /\ stdout = <<>> /\ stderr = <<>> /\ verdict = Unset
  BY <1>1, Steady, ArgvTyped DEF Control, Output
<1>3. /\ parsed'.what \in {"help", "version", "usage_error"} \cup Commands
      /\ parsed'.what \in {"help", "version"} => ~Asked
  <2>1. Met(argv, Len(argv), "--json") <=> Asked
    BY DEF Met, Asked, Mentions
  <2> QED BY <1>1, <1>2, <2>1, Parsed
<1>4. IInv' /\ FetchInv'
  BY <1>1, SameIInv, SameFetchInv
<1>5. advisory = NoAdvisory /\ cacheRead = FALSE
  BY <1>1 DEF Advice
<1>6. Advice'
  <2>1. NoAdvisory' = NoAdvisory
    BY DEF NoAdvisory, Advisory
  <2> QED BY <1>1, <1>5, <2>1 DEF Advice
<1>7. Unset \notin {0, 1, 2, 3, 64}
  BY DEF Unset
<1>8. CASE parsed'.what = "help"
  <2>1. Emit(<<Text("help")>>, <<>>) /\ verdict' = 0 /\ step' = "return"
    BY <1>8 DEF ParseArgv
  <2>2. stdout' = <<Text("help")>> /\ "help" \notin Failures /\ "help" # "invalid_usage"
    BY <1>2, <2>1, Joined DEF Emit, Failures
  <2>3. Shown'
    BY <1>2, <1>3, <1>8, <2>1, <2>2 DEF Shown
  <2>4. Control' /\ Output'
    BY <1>1, <1>2, <1>8, <2>1, <2>3 DEF Control, Output
  <2>5. ListVerdict' /\ VersionIsVouched'
    BY <1>8 DEF ListVerdict, VersionIsVouched
  <2> QED BY <1>4, <1>6, <2>4, <2>5 DEF CliInv
<1>9. CASE parsed'.what = "version"
  <2>1. /\ step' = "return"
        /\ IF ctx.manifest THEN Emit(<<Text("version")>>, <<>>) /\ verdict' = 0
           ELSE Emit(<<>>, <<Text("uncaught")>>) /\ verdict' = 1
    BY <1>9 DEF ParseArgv
  <2>2. (stdout' = <<>> /\ verdict' = 1) \/ (verdict' \in {0, 2, 3, 64} /\ Shown')
    <3>1. CASE ctx.manifest
      <4>1. /\ stdout' = <<Text("version")>> /\ "version" \notin Failures
            /\ "version" # "invalid_usage" /\ verdict' = 0
        BY <1>2, <2>1, <3>1, Joined DEF Emit, Failures
      <4> QED BY <1>2, <1>3, <1>9, <4>1 DEF Shown
    <3>2. CASE ~ctx.manifest
      BY <1>2, <2>1, <3>2, Joined DEF Emit
    <3> QED BY <3>1, <3>2
  <2>3. Control' /\ Output'
    BY <1>1, <1>2, <1>9, <2>1, <2>2 DEF Control, Output
  <2>4. ListVerdict' /\ VersionIsVouched'
    BY <1>9 DEF ListVerdict, VersionIsVouched
  <2> QED BY <1>4, <1>6, <2>3, <2>4 DEF CliInv
<1>10. CASE parsed'.what \notin {"help", "version"}
  <2>1. step' = (IF parsed'.what = "check-update" THEN "run" ELSE "advise") /\ Silent
    BY <1>3, <1>10 DEF ParseArgv
  <2>2. stdout' = <<>> /\ stderr' = <<>> /\ verdict' = Unset
    BY <1>2, <2>1 DEF Silent
  <2>3. Control' /\ Output'
    BY <1>1, <1>2, <1>3, <1>10, <2>1, <2>2 DEF Control, Output, Commands
  <2>4. ListVerdict' /\ VersionIsVouched'
    BY <1>7, <2>2 DEF ListVerdict, VersionIsVouched
  <2> QED BY <1>4, <1>6, <2>3, <2>4 DEF CliInv
<1> QED BY <1>8, <1>9, <1>10

LEMMA AdviseInv == ASSUME CliInv, Advise PROVE CliInv'
<1> DEFINE usageError == parsed.what = "usage_error"
           asJson == IF usageError THEN Mentions("--json") ELSE json
           quiet == IF usageError THEN Mentions("--no-update-notice") ELSE parsed.options.quiet
<1>1. /\ Control /\ Advice /\ Output /\ IInv /\ FetchInv /\ step = "advise"
      /\ UNCHANGED <<launch, parsed, lease, children, exitCode, broken, vars, fetchVars>>
  BY DEF Advise, CliInv
<1>2. /\ \/ /\ Emit(<<>>, <<Text("uncaught")>>) /\ verdict' = 1 /\ step' = "return"
            /\ UNCHANGED <<advisory, cacheRead>>
         \/ /\ advisory' = PrepareAdvisory(asJson, quiet)
            /\ cacheRead' = (~Disabled(quiet) /\ LooksAtCache(asJson))
            /\ IF usageError THEN UsageError
               ELSE step' = "run" /\ Silent
  BY DEF Advise
<1>3. /\ argv # <<RefreshArg>> /\ stdout = <<>> /\ stderr = <<>> /\ verdict = Unset
      /\ parsed.what \in {"usage_error", "list", "inspect", "unlock"}
      /\ argv' = argv /\ Asked' = Asked /\ Unset \notin {0, 1, 2, 3, 64}
  BY <1>1, Steady DEF Control, Output, Unset
<1>4. asJson = Asked /\ quiet = Silenced
  <2>1. Asked \in BOOLEAN /\ Silenced \in BOOLEAN
    BY DEF Asked, Silenced, Mentions
  <2>2. CASE usageError
    BY <2>2 DEF Asked, Silenced
  <2>3. CASE ~usageError
    <3>1. /\ parsed.options \in Options(Arguments(argv))
          /\ (json <=> Asked) /\ (parsed.options.quiet <=> Silenced)
      BY <1>1, <1>3, <2>3, ParsedSays
    <3>2. json \in BOOLEAN /\ parsed.options.quiet \in BOOLEAN
      BY <3>1 DEF Options, json
    <3> QED BY <2>1, <2>3, <3>1, <3>2
  <2> QED BY <2>2, <2>3
<1>5. IInv' /\ FetchInv'
  BY <1>1, SameIInv, SameFetchInv
<1> HIDE DEF asJson, quiet
<1>6. CASE Emit(<<>>, <<Text("uncaught")>>) /\ verdict' = 1 /\ step' = "return"
           /\ UNCHANGED <<advisory, cacheRead>>
  <2>1. stdout' = <<>>
    BY <1>3, <1>6, Joined DEF Emit
  <2>2. Control' /\ Output'
    BY <1>1, <1>3, <1>6, <2>1 DEF Control, Output
  <2>3. Advice'
    <3>1. step' \in {"run", "finish", "return", "done"}
      BY <1>6
    <3>2. UNCHANGED <<launch, advisory, cacheRead, children>> /\ parsed' = parsed
      BY <1>1, <1>6
    <3> QED BY <1>1, <3>1, <3>2, AdviceStays
  <2>4. ListVerdict' /\ VersionIsVouched'
    BY <1>6 DEF ListVerdict, VersionIsVouched
  <2> QED BY <1>5, <2>2, <2>3, <2>4 DEF CliInv
<1>7. CASE /\ advisory' = PrepareAdvisory(asJson, quiet)
           /\ cacheRead' = (~Disabled(quiet) /\ LooksAtCache(asJson))
           /\ IF usageError THEN UsageError
              ELSE step' = "run" /\ Silent
  <2>1. step' \in {"run", "finish"}
    BY <1>7 DEF UsageError
  <2>2. Advice'
    <3>1. /\ PrepareAdvisory(Asked, Silenced)' = PrepareAdvisory(Asked, Silenced)
          /\ (~Disabled(Silenced) /\ LooksAtCache(Asked))' =
               (~Disabled(Silenced) /\ LooksAtCache(Asked))
      BY <1>1, Steady
    <3>2. children = 0
      BY <1>1 DEF Advice, NoAdvisory, Advisory
    <3>3. /\ parsed'.what \in {"usage_error", "list", "inspect", "unlock"}
          /\ advisory' = PrepareAdvisory(Asked, Silenced)'
          /\ cacheRead' = (~Disabled(Silenced) /\ LooksAtCache(Asked))'
          /\ children' = 0
      BY <1>1, <1>3, <1>4, <1>7, <3>1, <3>2
    <3> QED BY <2>1, <3>3 DEF Advice
  <2>3. CASE usageError
    <3>1. /\ verdict' = 64 /\ step' = "finish"
          /\ IF Asked
             THEN Emit(<<Document(RequestedCommand(argv), "invalid_usage", 64,
                                  advisory'.client)>>, <<>>)
             ELSE Emit(<<>>, <<Text("invalid_usage")>>)
      BY <1>7, <2>3 DEF UsageError, Asked
    <3>2. Shown'
      <4>1. CASE Asked
        <5> DEFINE client == advisory'.client
        <5>1. stdout' = <<Document(RequestedCommand(argv), "invalid_usage", 64, client)>>
              /\ stderr' = <<>>
          BY <1>3, <3>1, <4>1, Joined DEF Emit
        <5> HIDE DEF client
        <5> QED BY <1>3, <3>1, <4>1, <5>1 DEF Shown, Failures
      <4>2. CASE ~Asked
        <5>1. stdout' = <<>>
          BY <1>3, <3>1, <4>2, Joined DEF Emit
        <5>2. "invalid_usage" \in Failures
          BY DEF Failures
        <5> QED BY <1>3, <3>1, <4>2, <5>1, <5>2 DEF Shown
      <4> QED BY <4>1, <4>2
    <3>3. Control' /\ Output'
      BY <1>1, <1>3, <2>3, <3>1, <3>2 DEF Control, Output
    <3>4. parsed'.what = "usage_error"
      BY <1>1, <2>3
    <3>5. ListVerdict' /\ VersionIsVouched'
      BY <3>4 DEF ListVerdict, VersionIsVouched
    <3> QED BY <1>5, <2>2, <3>3, <3>5 DEF CliInv
  <2>4. CASE ~usageError
    <3>1. step' = "run" /\ stdout' = <<>> /\ stderr' = <<>> /\ verdict' = Unset
      BY <1>3, <1>7, <2>4 DEF Silent
    <3>2. Control' /\ Output'
      BY <1>1, <1>3, <2>4, <3>1 DEF Control, Output, Commands
    <3>3. ListVerdict' /\ VersionIsVouched'
      BY <1>3, <3>1 DEF ListVerdict, VersionIsVouched
    <3> QED BY <1>5, <2>2, <3>2, <3>3 DEF CliInv
  <2> QED BY <2>3, <2>4
<1> QED BY <1>2, <1>6, <1>7

LEMMA CheckInv == ASSUME CliInv, CheckEnds PROVE CliInv'
<1>1. /\ Running("check-update") /\ step' = "return" /\ Kept /\ UNCHANGED <<vars, fetchVars>>
      /\ FetchInv /\ launch' = launch
  BY DEF CheckEnds, CliInv, Kept
<1>2. "check-update" \in Commands
  BY DEF Commands
<1>3. (json <=> Asked) /\ stdout = <<>> /\ stderr = <<>>
  BY <1>1, <1>2, RunningSays
<1>4. ctx' = ctx /\ argv' = argv /\ Asked' = Asked
  BY <1>1, Steady
<1>5. CASE Report("check-update", "command_failed", 3)
  <2>1. "command_failed" \in Failures /\ "command_failed" # "invalid_usage"
    BY DEF Failures
  <2>2. Shown' /\ verdict' = 3
    BY <1>1, <1>3, <1>5, <2>1, ReportShown
  <2>3. VersionIsVouched'
    BY <2>2 DEF VersionIsVouched
  <2> QED BY <1>1, <1>2, <2>2, <2>3, EndsInv
<1>6. ASSUME NEW latest, ReportUpdate(latest), ~Report("check-update", "command_failed", 3),
             (lease = "contended" /\ ctx.cache = "fresh") \/ fetched = "ok"
      PROVE  CliInv'
  <2>1. PICK warned :
          /\ verdict' = 0
          /\ IF json
             THEN Emit(<<Document("check-update", "update", 0, Older(ctx.current, latest))>>, <<>>)
             ELSE Emit(<<Text("update")>>, IF warned THEN <<Text("cache_warning")>> ELSE <<>>)
    BY <1>6 DEF ReportUpdate
  <2>2. "update" \notin Failures /\ "update" # "invalid_usage"
    BY DEF Failures
  <2>3. Shown'
    <3>1. CASE Asked
      <4> DEFINE client == Older(ctx.current, latest)
      <4>1. stdout' = <<Document("check-update", "update", 0, client)>> /\ stderr' = <<>>
        BY <1>3, <2>1, <3>1, Joined DEF Emit
      <4> HIDE DEF client
      <4> QED BY <1>4, <2>1, <2>2, <3>1, <4>1 DEF Shown
    <3>2. CASE ~Asked
      <4>1. stdout' = <<Text("update")>>
        BY <1>3, <2>1, <3>2, Joined DEF Emit
      <4> QED BY <1>4, <2>1, <2>2, <3>2, <4>1 DEF Shown
    <3> QED BY <3>1, <3>2
  <2>4. VersionIsVouched'
    <3>1. UNCHANGED <<lease, fetched, deadline, response, kept, sent>>
      BY <1>1 DEF Kept, fetchVars
    <3>2. CASE fetched = "ok"
      <4>1. /\ HeaderProblem(response) = "none" /\ kept = sent /\ sent <= MaximumBytes
            /\ deadline # "fired" /\ response \in Answers
        BY <1>1, <3>2 DEF FetchInv, FetchTypeOK
      <4>2. response.status = "2xx" /\ ~response.redirected /\ response.json
        BY <4>1 DEF HeaderProblem
      <4> QED BY <3>1, <3>2, <4>1, <4>2 DEF VersionIsVouched
    <3>3. CASE lease = "contended" /\ ctx.cache = "fresh"
      BY <1>4, <3>1, <3>3 DEF VersionIsVouched
    <3> QED BY <1>6, <3>2, <3>3
  <2> QED BY <1>1, <1>2, <2>1, <2>3, <2>4, EndsInv
<1>7. \/ lease = "contended" /\ FreshCache /\ ReportUpdate(ctx.cached)
      \/ fetched = "ok" /\ ReportUpdate(ctx.published)
      \/ Report("check-update", "command_failed", 3)
  BY DEF CheckEnds
<1> QED BY <1>5, <1>6, <1>7 DEF FreshCache

LEMMA CliNextInv == CliInv /\ [CliNext]_allVars => CliInv'
<1> SUFFICES ASSUME CliInv, [CliNext]_allVars PROVE CliInv'
  OBVIOUS
<1>1. CASE ParseArgv
  BY <1>1, ParseInv
<1>2. CASE Advise
  BY <1>2, AdviseInv
<1>3. CASE ListRuns \/ ListFails \/ ListEnds
  BY <1>3, ListInv
<1>4. CASE InspectEnds
  BY <1>4, InspectInv
<1>5. CASE UnlockEnds
  BY <1>5, UnlockInv
<1>6. CASE BeginRefresh
  BY <1>6, BeginInv
<1>7. CASE AskLease
  BY <1>7, LeaseInv
<1>8. CASE SendRequest \/ AwaitRegistry
  BY <1>8, RequestInv
<1>9. CASE CheckEnds
  BY <1>9, CheckInv
<1>10. CASE RefreshEnds
  BY <1>10, RefreshInv
<1>11. CASE Finish
  BY <1>11, FinishInv
<1>12. CASE Return
  BY <1>12, ReturnInv
<1>13. CASE StdoutFails
  BY <1>13, BrokenInv
<1>14. CASE UNCHANGED allVars
  BY <1>14, StutterInv
<1> QED BY <1>1, <1>2, <1>3, <1>4, <1>5, <1>6, <1>7, <1>8, <1>9, <1>10, <1>11, <1>12, <1>13, <1>14
        DEF CliNext, CliStep

\* The invariant of an invocation.
THEOREM CliInvariant == CliSpec => []CliInv
<1>1. CliInit => CliInv
  BY CliInitInv
<1> QED BY <1>1, CliNextInv, PTL DEF CliSpec

\* check-update reports a version only when a fresh cache or a whole, good
\* answer vouches for it.
THEOREM CliVouched == CliSpec => []VersionIsVouched
<1>1. CliInv => VersionIsVouched
  BY DEF CliInv
<1> QED BY <1>1, CliInvariant, PTL

\* The list that is written has every thread, and no inspection failed.
THEOREM CliComplete == CliSpec => []Complete
<1>1. CliInv => Complete
  BY NoneMissed DEF CliInv
<1> QED BY <1>1, CliInvariant, PTL

\* Every variable of an invocation keeps its type.
THEOREM CliTypeCorrect == CliSpec => []CliTypeOK
<1>1. ASSUME CliInv PROVE CliTypeOK
  <2>1. /\ TypeOK /\ FetchTypeOK /\ Control /\ Advice /\ Output
    BY <1>1 DEF CliInv, IInv, FetchInv
  <2>2. /\ parsed.what \in {"unparsed", "help", "version", "usage_error"} \cup Commands
        /\ parsed.options.stability \in Stabilities /\ parsed.options.timeout \in Timeouts
    <3>1. CASE step = "parse" \/ argv = <<RefreshArg>>
      <4>1. parsed = Unparsed
        BY <2>1, <3>1 DEF Control
      <4>2. parsed.what = "unparsed" /\ parsed.options = Defaults
        BY <4>1 DEF Unparsed, Parse
      <4>3. Defaults \in Options({})
        BY DefaultsTyped
      <4> QED BY <4>2, <4>3 DEF Options
    <3>2. CASE step # "parse" /\ argv # <<RefreshArg>>
      <4>1. /\ parsed.what \in {"help", "version", "usage_error"} \cup Commands
            /\ parsed.options \in Options(Arguments(argv))
        BY <2>1, <3>2, ParsedSays
      <4> QED BY <4>1 DEF Options
    <3> QED BY <3>1, <3>2
  <2>3. advisory \in [client : BOOLEAN, notice : BOOLEAN, refresh : BOOLEAN]
        /\ cacheRead \in BOOLEAN
    <3>1. NoAdvisory \in [client : BOOLEAN, notice : BOOLEAN, refresh : BOOLEAN]
      BY DEF NoAdvisory, Advisory
    <3>2. Advisory(ProvesNewer(Asked) /\ Asked, ProvesNewer(Asked) /\ ShowsNotice(Asked),
                   Refreshes /\ ~Foreign(Asked) /\ ~Fresh(Asked))
            \in [client : BOOLEAN, notice : BOOLEAN, refresh : BOOLEAN]
      BY DEF Advisory
    <3>3. PrepareAdvisory(Asked, Silenced)
            \in [client : BOOLEAN, notice : BOOLEAN, refresh : BOOLEAN]
      BY <3>1, <3>2 DEF PrepareAdvisory
    <3> QED BY <2>1, <3>1, <3>3 DEF Advice
  <2>4. verdict \in {Unset, 0, 1, 2, 3, 64}
    BY <2>1 DEF Output
  <2>5. exitCode \in {Unset, 0, 1, 2, 3, 64}
    BY <2>1, <2>4 DEF Control
  <2>6. children \in 0..1
    BY <2>1 DEF Advice
  <2> QED BY <2>1, <2>2, <2>3, <2>4, <2>5, <2>6 DEF CliTypeOK, Control
<1> QED BY <1>1, CliInvariant, PTL

-----------------------------------------------------------------------------
(* What the invariant says of the output.                                  *)

LEMMA CommandNamed ==
  ASSUME NEW a \in Seq(STRING), NEW role \in Roles(a), NEW k \in 1..Len(a),
         role[k] = "word", \A j \in 1..(k - 1) : role[j] # "word"
  PROVE  RequestedCommand(a) = IF a[k] \in Commands THEN a[k] ELSE "null"
<1>1. FirstWord(a) = <<a[k]>>
  BY FirstWordFound
<1>2. PICK x : x = a[k]
  OBVIOUS
<1>3. FirstWord(a) # <<>> /\ FirstWord(a)[1] = x
  BY <1>1, <1>2
<1> QED BY <1>2, <1>3 DEF RequestedCommand

\* What stdout holds at the end, entry by entry.
LEMMA ShownSays ==
  ASSUME Shown
  PROVE  /\ Asked => /\ Len(stdout) = 1 /\ stdout[1].json /\ stdout[1].code = verdict
                     /\ stderr = <<>>
         /\ \A i \in 1..Len(stdout) : stdout[i].json => Asked
         /\ \A i \in 1..Len(stdout) : stdout[i].json /\ stdout[i].kind = "invalid_usage" =>
              stdout[i].command = RequestedCommand(argv)
         /\ verdict = 0 <=> (stdout # <<>> /\ stdout[1].kind \notin Failures)
<1>1. PICK command, kind, client :
        /\ verdict = 0 <=> kind \notin Failures
        /\ kind = "invalid_usage" => command = RequestedCommand(argv)
        /\ IF Asked
           THEN stdout = <<Document(command, kind, verdict, client)>> /\ stderr = <<>>
           ELSE stdout = <<Text(kind)>> \/ (stdout = <<>> /\ kind \in Failures)
  BY DEF Shown
<1>2. CASE Asked
  <2>1. PICK d : d = Document(command, kind, verdict, client)
    OBVIOUS
  <2>2. d.json = TRUE /\ d.command = command /\ d.kind = kind /\ d.code = verdict
    BY <2>1 DEF Document
  <2>3. stdout = <<d>> /\ stderr = <<>>
    BY <1>1, <1>2, <2>1
  <2>4. Len(stdout) = 1 /\ stdout[1] = d /\ stdout # <<>>
    BY <2>3
  <2> QED BY <1>1, <1>2, <2>2, <2>3, <2>4
<1>3. CASE ~Asked /\ stdout = <<Text(kind)>>
  <2>1. PICK d : d = Text(kind)
    OBVIOUS
  <2>2. d.json = FALSE /\ d.kind = kind
    BY <2>1 DEF Text
  <2>3. Len(stdout) = 1 /\ stdout[1] = d /\ stdout # <<>>
    BY <1>3, <2>1
  <2> QED BY <1>1, <1>3, <2>2, <2>3
<1>4. CASE ~Asked /\ stdout = <<>> /\ kind \in Failures
  <2>1. Len(stdout) = 0
    BY <1>4
  <2> QED BY <1>1, <1>4, <2>1
<1> QED BY <1>1, <1>2, <1>3, <1>4

LEMMA UsageComesFirst == ASSUME CliInv PROVE UsageFirst
<1> SUFFICES ASSUME step = "done" PROVE UsageFirst
  BY DEF UsageFirst
<1>1. Control /\ Output /\ argv \in Seq(STRING)
  BY ArgvTyped DEF CliInv, Control
<1>2. CASE argv = <<RefreshArg>>
  <2>1. parsed.what = "unparsed" /\ stdout = <<>>
    BY <1>1, <1>2 DEF Control, Output, Unparsed, Parse
  <2>2. "unparsed" \notin Commands /\ Len(stdout) = 0
    BY <2>1 DEF Commands
  <2>3. \A c \in Commands : ~Runs(argv, c)
    BY <1>2, RefreshIsNone
  <2> QED BY <2>1, <2>2, <2>3 DEF UsageFirst
<1>3. CASE argv # <<RefreshArg>>
  <2>1. parsed = ParseArguments(argv)
    BY <1>1, <1>3 DEF Control
  <2>2. \A c \in Commands : Runs(argv, c) <=> parsed.what = c
    BY <1>1, <2>1, Grammar
  <2>3. ASSUME NEW i \in 1..Len(stdout), stdout[i].json, stdout[i].kind = "invalid_usage",
               NEW role \in Roles(argv), NEW k \in 1..Len(argv),
               role[k] = "word", \A j \in 1..(k-1) : role[j] # "word"
        PROVE  stdout[i].command = IF argv[k] \in Commands THEN argv[k] ELSE "null"
    <3>1. stdout # <<>>
      BY <2>3
    <3>2. Shown
      BY <1>1, <1>3, <3>1 DEF Output
    <3>3. stdout[i].command = RequestedCommand(argv)
      BY <2>3, <3>2, ShownSays
    <3>4. RequestedCommand(argv) = IF argv[k] \in Commands THEN argv[k] ELSE "null"
      BY <1>1, <2>3, CommandNamed
    <3> QED BY <3>3, <3>4
  <2>4. \A c \in Commands : Runs(argv, c) => parsed.what = c
    BY <2>2
  <2>5. parsed.what \in Commands => Runs(argv, parsed.what)
    BY <2>2
  <2> QED BY <2>3, <2>4, <2>5 DEF UsageFirst
<1> QED BY <1>2, <1>3

\* A caller gets one verdict: the usage comes first, the JSON document is one
\* and alone, and the exit code is the command's.
THEOREM CliOneVerdict == CliSpec => []OneVerdict
<1>1. ASSUME CliInv PROVE OneVerdict
  <2>1. Control /\ Output /\ ListVerdict /\ UsageFirst
    BY <1>1, UsageComesFirst DEF CliInv
  <2>2. ASSUME step = "done", verdict # 1, argv # <<RefreshArg>>
        PROVE  /\ exitCode = IF broken = "other" THEN 3 ELSE verdict
               /\ IF Mentions("--json")
                  THEN /\ Len(stdout) = 1 /\ stdout[1].json /\ stdout[1].code = verdict
                       /\ stderr = <<>>
                  ELSE \A i \in 1..Len(stdout) : ~stdout[i].json
               /\ parsed.what = "list" => (verdict = 0) = (outcome = "listed")
               /\ (verdict = 0) = (stdout # <<>> /\ stdout[1].kind \notin
                    {"invalid_usage", "command_failed", "refused", "failed"})
    <3>1. Shown /\ verdict \in {0, 2, 3, 64}
      BY <2>1, <2>2 DEF Output
    <3>2. exitCode = IF broken = "other" THEN 3 ELSE verdict
      BY <2>1, <2>2 DEF Control
    <3>3. IF Mentions("--json")
          THEN /\ Len(stdout) = 1 /\ stdout[1].json /\ stdout[1].code = verdict
               /\ stderr = <<>>
          ELSE \A i \in 1..Len(stdout) : ~stdout[i].json
      BY <3>1, ShownSays DEF Asked
    <3>4. parsed.what = "list" => (verdict = 0) = (outcome = "listed")
      BY <2>1, <2>2, <3>1 DEF ListVerdict, Unset
    <3>5. (verdict = 0) = (stdout # <<>> /\ stdout[1].kind \notin
            {"invalid_usage", "command_failed", "refused", "failed"})
      BY <3>1, ShownSays DEF Failures
    <3> QED BY <3>2, <3>3, <3>4, <3>5
  <2> QED BY <2>1, <2>2 DEF OneVerdict
<1> QED BY <1>1, CliInvariant, PTL

-----------------------------------------------------------------------------
(* The advisory.                                                           *)

LEMMA Scaled ==
  ASSUME NEW B \in Nat \ {0}, NEW a \in Nat, NEW b \in Nat, a < b,
         NEW c \in 0..(B - 1), NEW d \in Nat
  PROVE  B * a + c < B * b + d
<1>1. PICK e \in Nat : b = a + 1 + e
  <2>1. b - a - 1 \in Nat /\ b = a + 1 + (b - a - 1)
    OBVIOUS
  <2> QED BY <2>1
<1>2. B * b = B * a + B + B * e
  BY <1>1
<1>3. B * e \in Nat /\ B * a \in Nat
  BY <1>1
<1> QED BY <1>2, <1>3

\* The order of versions is the order of their ordinals.
LEMMA OlderIsBefore ==
  ASSUME NEW left \in [1..3 -> 0..(Parts - 1)], NEW right \in [1..3 -> 0..(Parts - 1)],
         Older(left, right)
  PROVE  Ordinal(left) < Ordinal(right)
<1>0. /\ Parts \in Nat \ {0}
      /\ left[1] \in 0..(Parts - 1) /\ left[2] \in 0..(Parts - 1) /\ left[3] \in 0..(Parts - 1)
      /\ right[1] \in 0..(Parts - 1) /\ right[2] \in 0..(Parts - 1) /\ right[3] \in 0..(Parts - 1)
  <2>1. Parts \in Nat \ {0}
    BY LaunchAssumption
  <2>2. 1 \in 1..3 /\ 2 \in 1..3 /\ 3 \in 1..3
    OBVIOUS
  <2> QED BY <2>1, <2>2
<1> DEFINE l == Parts * left[1] + left[2]
           r == Parts * right[1] + right[2]
<1>1. l \in Nat /\ r \in Nat
  BY <1>0
<1>2. PICK i \in 1..3 : left[i] < right[i] /\ \A j \in 1..(i-1) : left[j] = right[j]
  BY DEF Older
<1>3. CASE i = 1
  <2>1. l < r
    BY <1>0, <1>2, <1>3, Scaled
  <2> HIDE DEF l, r
  <2> QED BY <1>0, <1>1, <2>1, Scaled DEF Ordinal, l, r
<1>4. CASE i = 2
  <2>1. 1 \in 1..(i - 1)
    BY <1>4
  <2>2. left[1] = right[1] /\ left[2] < right[2]
    BY <1>2, <1>4, <2>1
  <2>3. l < r
    BY <1>0, <2>2
  <2> QED BY <1>0, <1>1, <2>3, Scaled DEF Ordinal
<1>5. CASE i = 3
  <2>1. 1 \in 1..(i - 1) /\ 2 \in 1..(i - 1)
    BY <1>5
  <2>2. left[1] = right[1] /\ left[2] = right[2] /\ left[3] < right[3]
    BY <1>2, <1>5, <2>1
  <2>3. l = r
    BY <2>2
  <2>4. Parts * l \in Nat
    BY <1>0, <1>1
  <2> QED BY <1>0, <2>2, <2>3, <2>4 DEF Ordinal
<1> QED BY <1>2, <1>3, <1>4, <1>5

\* The advisory keeps to the policy of update-security.md, and never offers a
\* version that is not newer.
THEOREM CliPolicy == CliSpec => []AdvisoryKeepsToPolicy
<1>1. ASSUME CliInv PROVE AdvisoryKeepsToPolicy
  <2>1. Control /\ Advice
    BY <1>1 DEF CliInv
  <2>2. CASE advisory = NoAdvisory /\ cacheRead = FALSE
    <3>1. ~advisory.client /\ ~advisory.notice /\ ~advisory.refresh
      BY <2>2 DEF NoAdvisory, Advisory
    <3> QED BY <2>1, <2>2, <3>1 DEF Advice, AdvisoryKeepsToPolicy
  <2>3. CASE /\ parsed.what \in {"usage_error", "list", "inspect", "unlock"}
             /\ advisory = PrepareAdvisory(Asked, Silenced)
             /\ cacheRead = (~Disabled(Silenced) /\ LooksAtCache(Asked))
             /\ ~(advisory = NoAdvisory /\ cacheRead = FALSE)
    <3>1. ~Disabled(Silenced)
      BY <2>3 DEF PrepareAdvisory
    <3>2. advisory = Advisory(ProvesNewer(Asked) /\ Asked,
                              ProvesNewer(Asked) /\ ShowsNotice(Asked),
                              Refreshes /\ ~Foreign(Asked) /\ ~Fresh(Asked))
      BY <2>3, <3>1 DEF PrepareAdvisory
    <3>3. /\ advisory.client <=> (ProvesNewer(Asked) /\ Asked)
          /\ advisory.notice <=> (ProvesNewer(Asked) /\ ShowsNotice(Asked))
          /\ advisory.refresh <=> (Refreshes /\ ~Foreign(Asked) /\ ~Fresh(Asked))
      BY <3>2 DEF Advisory
    <3>4. ~Mentions("--no-update-notice") /\ ~ctx.noticeOff
      BY <3>1 DEF Disabled, Silenced
    <3>5. children \in {0, 1} /\ (children = 1 => Refreshes /\ ~Foreign(Asked) /\ ~Fresh(Asked))
      BY <2>1, <3>3 DEF Advice
    <3>6. (ctx.ci \/ ~ctx.stdoutTTY \/ ~ctx.stderrTTY) => children = 0
      BY <3>5 DEF Refreshes
    <3>7. ~(argv = <<RefreshArg>> \/ parsed.what \in {"check-update", "help", "version"})
      BY <2>1, <2>3 DEF Control, Unparsed, Parse
    <3>8. ctx.cacheRoot # "ours" => ~cacheRead
      BY <2>3 DEF LooksAtCache, Foreign
    <3>9. children = 1 => ctx.cache # "fresh"
      BY <3>5 DEF Refreshes, Fresh, LooksAtCache, ReadsCache
    <3>10. ASSUME advisory.client \/ advisory.notice
           PROVE  Stable(ctx.current) /\ Ordinal(ctx.current) < Ordinal(ctx.cached)
      <4>1. Stable(ctx.current) /\ Older(ctx.current, ctx.cached)
        BY <3>3, <3>10 DEF ProvesNewer
      <4>2. /\ ctx.current \in Seq(0..(Parts - 1))
            /\ ctx.cached \in [1..3 -> 0..(Parts - 1)]
        BY <2>1, LaunchAssumption DEF Control, ctx
      <4>3. ctx.current \in [1..3 -> 0..(Parts - 1)]
        <5>1. PICK v : v = ctx.current
          OBVIOUS
        <5>2. v \in Seq(0..(Parts - 1)) /\ Len(v) = 3
          BY <4>1, <4>2, <5>1 DEF Stable
        <5>3. v \in [1..Len(v) -> 0..(Parts - 1)]
          BY <5>2, LenProperties
        <5> QED BY <5>1, <5>2, <5>3
      <4> QED BY <4>1, <4>2, <4>3, OlderIsBefore
    <3> QED BY <3>4, <3>6, <3>7, <3>8, <3>9, <3>10 DEF AdvisoryKeepsToPolicy
  <2> QED BY <2>1, <2>2, <2>3 DEF Advice
<1> QED BY <1>1, CliInvariant, PTL
=============================================================================
