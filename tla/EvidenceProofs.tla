--------------------------- MODULE EvidenceProofs ---------------------------
(***************************************************************************)
(* Proofs about Evidence.                                                  *)
(*                                                                         *)
(* The diagnostic subprocess (RunCommand, IInv): a result without a        *)
(* failure is whole, and the first failure is the one reported.            *)
(*                                                                         *)
(* The transcript (TranscriptScan, TranscriptInv): while the time stamp is *)
(* the one of the first snapshot nothing was written, and what was read is *)
(* the end or the beginning of what the file has; so a record found between *)
(* two equal snapshots is the file's last line.                            *)
(*                                                                         *)
(* In Evidence one of the three runs and the others stay as they begin,    *)
(* which carries what is proved of RunCommand alone to SourcesSpec.        *)
(***************************************************************************)
EXTENDS Evidence, FiniteSetTheorems, SequenceTheorems, WellFoundedInduction,
        NaturalsInduction, TLAPS

-----------------------------------------------------------------------------
(* The diagnostic subprocess.                                              *)

\* Before the spawn there is nothing, and without pipes nothing is written.
Unspawned ==
  /\ spawned = "no" => /\ ~Settled /\ failure = "none" /\ status = "none"
                       /\ alive = {} /\ ~error /\ deadline = "unset"
  /\ spawned # "running" => /\ writers = {}
                            /\ \A s \in Streams : output[s] = 0

\* "data" events deliver no more than was written, and all of it is captured
\* as long as nothing has failed.
Delivery ==
  \A s \in Streams :
    /\ received[s] <= output[s]
    /\ failure = "none" => captured[s] = received[s]

\* A result without a failure came at the close of the pipes, which nobody
\* can open any more.
Final ==
  Settled /\ result.failure = "none" =>
    /\ writers = {} /\ received = output
    /\ result.captured = output /\ result.status # "none"

IInv == TypeOK /\ Unspawned /\ Delivery /\ Final

LEMMA InitIInv == Init => IInv
<1> SUFFICES ASSUME Init PROVE IInv
  OBVIOUS
<1> USE CommandAssumption DEF Init
<1>1. TypeOK
  <2>1. output \in [Streams -> 0..Written] /\ received \in [Streams -> 0..Written]
    OBVIOUS
  <2>2. captured \in [Streams -> 0..Limit]
    OBVIOUS
  <2>3. error \in BOOLEAN
    BY Zenon
  <2>4. /\ failure \in Failures /\ status \in Statuses
        /\ deadline \in Timers /\ grace \in Timers
    BY DEF Timers, Failures, Statuses
  <2> QED BY <2>1, <2>2, <2>3, <2>4 DEF TypeOK
<1>2. Unspawned /\ Delivery /\ Final
  BY DEF Unspawned, Delivery, Final, Settled
<1> QED BY <1>1, <1>2 DEF IInv

\* The processes: they write while somebody has the pipes, and nobody gets
\* the pipes from nobody.
LEMMA ProcessIInv ==
  ASSUME IInv,
         \/ \E s \in Streams : Writes(s)
         \/ \E p \in Group : ExitsItself(p) \/ Dies(p)
         \/ \E h \in Helpers : Forks(h)
  PROVE IInv'
<1> USE CommandAssumption DEF IInv
<1>1. ASSUME NEW s \in Streams, Writes(s) PROVE IInv'
  <2> USE <1>1 DEF Writes
  <2>1. output[s] \in 0..Written /\ output[s] + 1 \in 0..Written
    BY DEF TypeOK
  <2>2. TypeOK'
    BY <2>1 DEF TypeOK
  <2>3. \A r \in Streams : output'[r] = output[r] \/ output'[r] = output[r] + 1
    BY DEF TypeOK
  <2>4. Unspawned'
    BY DEF Unspawned, Settled
  <2>5. Delivery'
    BY <2>3 DEF Delivery, TypeOK
  <2>6. Final'
    BY DEF Final, Settled
  <2> QED BY <2>2, <2>4, <2>5, <2>6
<1>2. ASSUME NEW p \in Group, ExitsItself(p) \/ Dies(p) PROVE IInv'
  <2> USE <1>2 DEF Ends, ExitsItself, Dies
  <2>1. TypeOK'
    BY DEF TypeOK, Statuses
  <2>2. Unspawned'
    BY DEF Unspawned, Settled
  <2>3. Delivery' /\ Final'
    BY DEF Delivery, Final, Settled
  <2> QED BY <2>1, <2>2, <2>3
<1>3. ASSUME NEW h \in Helpers, Forks(h) PROVE IInv'
  <2> USE <1>3 DEF Forks
  <2>1. TypeOK'
    BY DEF TypeOK, Group
  <2>2. writers = {} => writers' = {}
    OBVIOUS
  <2>3. Unspawned' /\ Delivery' /\ Final'
    BY <2>2 DEF Unspawned, Delivery, Final, Settled
  <2> QED BY <2>1, <2>3
<1> QED BY <1>1, <1>2, <1>3

\* The four ways in which spawn() can turn out.
LEMMA SpawnIInv ==
  ASSUME IInv, SpawnThrows \/ SpawnStarts \/ SpawnMissing \/ SpawnPipeless
  PROVE IInv'
<1> USE CommandAssumption DEF IInv
<1>1. /\ spawned = "no" /\ failure = "none" /\ ~Settled /\ writers = {}
      /\ \A s \in Streams : output[s] = 0 /\ received[s] = 0 /\ captured[s] = 0
  <2>1. spawned = "no"
    BY DEF SpawnThrows, SpawnStarts, SpawnMissing, SpawnPipeless
  <2> QED BY <2>1 DEF Unspawned, Delivery, TypeOK
<1>2. CASE SpawnThrows
  <2>1. result' \in Results /\ result'.failure = "spawn_error"
    BY <1>2 DEF SpawnThrows, Results, TypeOK, Failures, Statuses
  <2>2. TypeOK'
    BY <1>2, <2>1 DEF SpawnThrows, TypeOK
  <2>3. Unspawned' /\ Delivery' /\ Final'
    BY <1>1, <1>2, <2>1 DEF SpawnThrows, Unspawned, Delivery, Final
  <2> QED BY <2>2, <2>3
<1>3. CASE SpawnStarts
  <2>1. TypeOK'
    BY <1>3 DEF SpawnStarts, TypeOK, Group, Timers
  <2>2. Unspawned' /\ Delivery' /\ Final'
    BY <1>1, <1>3 DEF SpawnStarts, Unspawned, Delivery, Final, Settled
  <2> QED BY <2>1, <2>2
<1>4. CASE SpawnMissing
  <2>1. error' \in BOOLEAN
    BY <1>4, Zenon DEF SpawnMissing
  <2>2. TypeOK'
    BY <1>4, <2>1 DEF SpawnMissing, TypeOK, Timers, Statuses
  <2>3. Unspawned' /\ Delivery' /\ Final'
    BY <1>1, <1>4 DEF SpawnMissing, Unspawned, Delivery, Final, Settled
  <2> QED BY <2>2, <2>3
<1>5. CASE SpawnPipeless
  <2>1. TypeOK'
    BY <1>5 DEF SpawnPipeless, TypeOK, Group, Timers
  <2>2. Unspawned' /\ Delivery' /\ Final'
    BY <1>1, <1>5 DEF SpawnPipeless, Unspawned, Delivery, Final, Settled
  <2> QED BY <2>1, <2>2
<1> QED BY <1>2, <1>3, <1>4, <1>5

\* What settle() records is a result, and it is not the pending one.
LEMMA SettleType ==
  ASSUME TypeOK, NEW how \in Statuses, NEW why \in Failures, Settle(how, why)
  PROVE /\ result' \in Results /\ result'.failure = why
        /\ result'.status = how /\ result'.captured = captured
        /\ deadline' \in Timers /\ grace' \in Timers
  BY DEF Settle, Results, Timers, TypeOK

\* The events that report a failed spawn.
LEMMA SpawnErrorIInv ==
  ASSUME IInv, ErrorEvent \/ Immediate PROVE IInv'
<1> USE DEF IInv
<1>1. failure' \in Failures /\ failure' # "none" /\ error' \in BOOLEAN
  <2>1. error' \in BOOLEAN
    BY Zenon DEF ErrorEvent, Immediate, TypeOK
  <2>2. failure' \in Failures /\ failure' # "none"
    BY DEF ErrorEvent, Immediate, TypeOK, Failures
  <2> QED BY <2>1, <2>2
<1>2. \/ UNCHANGED <<result, deadline, grace>>
      \/ /\ result' \in Results /\ result'.failure = failure'
         /\ deadline' \in Timers /\ grace' \in Timers /\ spawned = "pipeless"
  <2>1. \/ UNCHANGED <<result, deadline, grace>>
        \/ Settle("none", failure') /\ spawned = "pipeless"
    BY DEF ErrorEvent, Immediate
  <2>2. "none" \in Statuses
    BY DEF Statuses
  <2> QED BY <1>1, <2>1, <2>2, SettleType
<1>3. UNCHANGED <<kernel, received, captured>>
  BY DEF ErrorEvent, Immediate
<1>4. TypeOK'
  BY <1>1, <1>2, <1>3 DEF TypeOK, kernel
<1>5. Unspawned'
  <2>1. spawned # "no"
    <3>1. CASE Immediate
      BY <3>1 DEF Immediate
    <3>2. CASE ErrorEvent
      BY <3>2 DEF ErrorEvent, Unspawned
    <3> QED BY <3>1, <3>2
  <2> QED BY <1>3, <2>1 DEF Unspawned, kernel
<1>6. Delivery'
  BY <1>1, <1>3 DEF Delivery, kernel
<1>7. Final'
  BY <1>1, <1>2, <1>3 DEF Final, Settled, kernel
<1> QED BY <1>4, <1>5, <1>6, <1>7

\* fail() and the escalation leave the streams alone.
LEMMA FailType ==
  ASSUME TypeOK, NEW kind \in Failures \ {"none"}, Fail(kind)
  PROVE /\ failure' \in Failures \ {"none"} /\ dying' \subseteq Group
        /\ grace' \in Timers /\ (failure # "none" => failure' = failure)
  BY DEF Fail, Terminate, TypeOK, Timers

\* A chunk: nothing is lost without a failure, and after a clean result there
\* is none left to come.
LEMMA DataIInv ==
  ASSUME IInv, NEW s \in Streams, Data(s) PROVE IInv'
<1> USE CommandAssumption DEF IInv
<1> PICK n \in 1..(output[s] - received[s]) :
      received' = [received EXCEPT ![s] = @ + n] /\ Capture(s, n)
  BY DEF Data
<1>1. /\ output \in [Streams -> 0..Written] /\ received \in [Streams -> 0..Written]
      /\ captured \in [Streams -> 0..Limit] /\ Limit \in Nat /\ Written \in Nat
      /\ n \in Nat /\ n > 0 /\ received[s] + n <= output[s]
  BY DEF TypeOK
<1>2. /\ UNCHANGED <<spawned, alive, deaf, writers, status, output, error,
                     deadline, result>>
      /\ spawned = "running"
  BY DEF Data
<1>3. /\ captured' = [captured EXCEPT ![s] = Least(@ + n, Limit)]
      /\ Least(captured[s] + n, Limit) \in 0..Limit
  BY <1>1 DEF Capture, Least
<1>4. \/ UNCHANGED <<failure, dying, grace>> /\ captured[s] + n <= Limit
      \/ /\ failure' \in Failures \ {"none"} /\ dying' \subseteq Group
         /\ grace' \in Timers
  <2>1. CASE captured[s] + n > Limit
    <3>1. PICK kind \in {"stdout_limit", "stderr_limit"} : Fail(kind)
      BY <2>1 DEF Capture
    <3> QED BY <3>1, FailType DEF Failures
  <2>2. CASE ~(captured[s] + n > Limit)
    BY <1>1, <2>2 DEF Capture
  <2> QED BY <2>1, <2>2
<1>5. TypeOK'
  <2>1. received' \in [Streams -> 0..Written] /\ captured' \in [Streams -> 0..Limit]
    BY <1>1, <1>3
  <2> QED BY <1>2, <1>4, <2>1 DEF TypeOK
<1>6. Unspawned'
  BY <1>2 DEF Unspawned
<1>7. Delivery'
  <2> SUFFICES ASSUME NEW r \in Streams
               PROVE /\ received'[r] <= output'[r]
                     /\ failure' = "none" => captured'[r] = received'[r]
    BY DEF Delivery
  <2>1. CASE r = s
    <3>1. received'[s] = received[s] + n
      BY <1>1
    <3>2. failure' = "none" =>
            captured'[s] = captured[s] + n /\ captured[s] = received[s]
      BY <1>1, <1>3, <1>4 DEF Least, Delivery
    <3> QED BY <1>1, <1>2, <2>1, <3>1, <3>2
  <2>2. CASE r # s
    BY <1>1, <1>2, <1>3, <1>4, <2>2 DEF Delivery
  <2> QED BY <2>1, <2>2
<1>8. Final'
  <2>1. received # output
    BY <1>1
  <2> QED BY <1>2, <2>1 DEF Final, Settled
<1> QED BY <1>5, <1>6, <1>7, <1>8

\* The two timers.
LEMMA TimerIInv ==
  ASSUME IInv, Timeout \/ ForceKill PROVE IInv'
<1> USE DEF IInv
<1>1. /\ UNCHANGED <<spawned, alive, deaf, writers, status, output, received,
                     captured, error, result>>
      /\ deadline' \in Timers /\ grace' \in Timers /\ dying' \subseteq Group
      /\ failure' \in Failures /\ (failure' = "none" => failure = "none")
  <2>1. CASE Timeout
    <3>1. Fail("timeout") /\ "timeout" \in Failures \ {"none"}
      BY <2>1 DEF Timeout, Failures
    <3> QED BY <2>1, <3>1, FailType DEF Timeout, Timers
  <2>2. CASE ForceKill
    BY <2>2 DEF ForceKill, Killed, TypeOK, Timers
  <2> QED BY <2>1, <2>2
<1>2. spawned = "no" => UNCHANGED <<failure, deadline>>
  BY DEF Timeout, ForceKill, Unspawned
<1>3. TypeOK'
  BY <1>1 DEF TypeOK
<1>4. Unspawned' /\ Delivery' /\ Final'
  BY <1>1, <1>2 DEF Unspawned, Delivery, Final, Settled
<1> QED BY <1>3, <1>4

\* The close event: all was delivered, and without a failure all was captured.
LEMMA CloseIInv ==
  ASSUME IInv, Close PROVE IInv'
<1> USE DEF IInv
<1>1. /\ UNCHANGED <<kernel, received, captured, error, failure>>
      /\ spawned # "no" /\ writers = {} /\ received = output /\ status # "none"
  BY DEF Close, Closed
<1>2. /\ result' \in Results /\ result'.failure = failure
      /\ result'.status = status /\ result'.captured = captured
      /\ deadline' \in Timers /\ grace' \in Timers
  BY SettleType DEF Close, TypeOK
<1>3. TypeOK'
  BY <1>1, <1>2 DEF TypeOK, kernel
<1>4. Unspawned' /\ Delivery'
  BY <1>1 DEF Unspawned, Delivery, kernel
<1>5. Final'
  <2>1. failure = "none" => captured = output
    BY <1>1 DEF Delivery, TypeOK
  <2> QED BY <1>1, <1>2, <2>1 DEF Final, kernel
<1> QED BY <1>3, <1>4, <1>5

LEMMA NextIInv == IInv /\ [Next]_vars => IInv'
<1> SUFFICES ASSUME IInv, [Next]_vars PROVE IInv'
  OBVIOUS
<1>1. CASE UNCHANGED vars
  BY <1>1 DEF IInv, TypeOK, Unspawned, Delivery, Final, Settled, vars, kernel
<1>2. CASE Next
  BY <1>2, ProcessIInv, SpawnIInv, SpawnErrorIInv, DataIInv, TimerIInv, CloseIInv
     DEF Next, Command
<1> QED BY <1>1, <1>2

-----------------------------------------------------------------------------
\* The invariant holds in every state, whatever the limits.
THEOREM Invariant == Spec => []IInv
<1> QED BY InitIInv, NextIInv, PTL DEF Spec

\* The variables of runCommand keep their types.
THEOREM TypeCorrect == Spec => []TypeOK
<1>1. IInv => TypeOK
  BY DEF IInv
<1> QED BY <1>1, Invariant, PTL

\* A result without a failure has all that was written to the two streams.
THEOREM NothingCut == Spec => []CleanIsWhole
<1>1. IInv => CleanIsWhole
  BY DEF IInv, Final, CleanIsWhole
<1> QED BY <1>1, Invariant, PTL

\* Neither a recorded failure nor a result ever changes.
THEOREM FirstFailure == Spec => FirstFailureKept
<1> DEFINE Kept == /\ failure # "none" => failure' = failure
                   /\ Settled => result' = result
<1>1. IInv /\ [Next]_vars => [Kept]_vars
  <2> SUFFICES ASSUME IInv, Next PROVE Kept
    BY DEF Kept
  <2>1. ASSUME NEW s \in Streams, Data(s) PROVE Kept
    BY <2>1 DEF Data, Capture, Fail
  <2>2. CASE Timeout \/ ForceKill
    BY <2>2 DEF Timeout, ForceKill, Fail
  <2>3. CASE SpawnThrows \/ SpawnStarts \/ SpawnMissing \/ SpawnPipeless
    BY <2>3 DEF IInv, Unspawned, SpawnThrows, SpawnStarts, SpawnMissing, SpawnPipeless
  <2>4. CASE ErrorEvent \/ Immediate \/ Close
    BY <2>4 DEF ErrorEvent, Immediate, Close
  <2>5. ASSUME \/ \E s \in Streams : Writes(s)
               \/ \E p \in Group : ExitsItself(p) \/ Dies(p)
               \/ \E h \in Helpers : Forks(h)
        PROVE Kept
    BY <2>5 DEF Writes, ExitsItself, Dies, Ends, Forks
  <2> QED BY <2>1, <2>2, <2>3, <2>4, <2>5 DEF Next, Command
<1> QED BY <1>1, Invariant, PTL DEF Spec, FirstFailureKept

-----------------------------------------------------------------------------
(* The transcript.                                                         *)

Symbols == {"x", "}", "n"}

LEMMA Piece ==
  ASSUME NEW s \in Seq(Symbols), NEW m \in 1..(Len(s) + 1), NEW n \in (m - 1)..Len(s)
  PROVE  /\ SubSeq(s, m, n) \in Seq(Symbols)
         /\ Len(SubSeq(s, m, n)) = n - m + 1
         /\ \A i \in 1..(n - m + 1) : SubSeq(s, m, n)[i] = s[m + i - 1]
<1>1. m \in Int /\ n \in Int /\ Len(s) \in Nat
  OBVIOUS
<1>2. \A i \in m..n : s[i] \in Symbols
  BY ElementOfSeq
<1>3. /\ SubSeq(s, m, n) \in Seq(Symbols)
      /\ Len(SubSeq(s, m, n)) = IF m <= n THEN n - m + 1 ELSE 0
      /\ \A i \in 1..(n - m + 1) : SubSeq(s, m, n)[i] = s[m + i - 1]
  BY <1>1, <1>2, SubSeqProperties
<1> QED BY <1>1, <1>3

\* A set of numbers up to a bound has a greatest element, and Max is it.
LEMMA Greatest ==
  ASSUME NEW n \in Nat, NEW S \in SUBSET (0..n), S # {}
  PROVE  Max(S) \in S /\ \A y \in S : Max(S) >= y
<1> DEFINE Mirror == {k \in 0..n : n - k \in S}
<1>1. Mirror \subseteq Nat /\ Mirror # {}
  <2>1. PICK y \in S : TRUE
    OBVIOUS
  <2>2. n - y \in 0..n /\ n - (n - y) = y
    OBVIOUS
  <2>3. n - y \in Mirror
    BY <2>2
  <2>4. 0..n \subseteq Nat
    OBVIOUS
  <2> QED BY <2>3, <2>4
<1>2. IsWellFoundedOn(OpToRel(<, Nat), Nat)
  BY NatLessThanWellFounded
<1>3. PICK m \in Mirror : \A k \in Mirror : <<k, m>> \notin OpToRel(<, Nat)
  <2> HIDE DEF Mirror
  <2> QED BY <1>1, <1>2, WFMin
<1>4. \A k \in Mirror : ~(k < m)
  BY <1>1, <1>3 DEF OpToRel
<1>5. n - m \in S
  OBVIOUS
<1>6. ASSUME NEW y \in S PROVE n - m >= y
  <2>1. n - y \in 0..n /\ n - (n - y) = y
    OBVIOUS
  <2>2. ~(n - y < m)
    BY <1>4, <2>1
  <2> QED BY <2>1, <2>2
<1>7. \E x \in S : \A y \in S : x >= y
  BY <1>5, <1>6
<1> QED BY <1>7 DEF Max

\* Where the last line that is not empty ends.
End(c) == Max({i \in DOMAIN c : c[i] # "n"} \cup {0})

LEMMA EndIsLast ==
  ASSUME NEW c \in Seq(Symbols)
  PROVE  /\ End(c) \in 0..Len(c)
         /\ End(c) # 0 => c[End(c)] # "n"
         /\ \A i \in 1..Len(c) : i > End(c) => c[i] = "n"
<1> DEFINE S == {i \in DOMAIN c : c[i] # "n"} \cup {0}
<1>1. Len(c) \in Nat /\ DOMAIN c = 1..Len(c)
  OBVIOUS
<1>2. S \in SUBSET (0..Len(c)) /\ S # {}
  BY <1>1
<1>3. Max(S) \in S /\ \A y \in S : Max(S) >= y
  <2> HIDE DEF S
  <2> QED BY <1>1, <1>2, Greatest
<1>4. End(c) = Max(S)
  BY DEF End
<1>5. End(c) \in S /\ \A y \in S : End(c) >= y
  BY <1>3, <1>4
<1> HIDE <1>4
<1>6. ASSUME NEW i \in 1..Len(c), i > End(c) PROVE c[i] = "n"
  <2>1. i \notin S
    BY <1>2, <1>5, <1>6
  <2> QED BY <1>1, <2>1
<1> QED BY <1>1, <1>2, <1>5, <1>6

\* Where that end is: nothing but newlines after it.
LEMMA EndIs ==
  ASSUME NEW c \in Seq(Symbols), NEW e \in 1..Len(c), c[e] # "n",
         \A i \in 1..Len(c) : i > e => c[i] = "n"
  PROVE  End(c) = e
<1>1. /\ End(c) \in 0..Len(c)
      /\ End(c) # 0 => c[End(c)] # "n"
      /\ \A i \in 1..Len(c) : i > End(c) => c[i] = "n"
  BY EndIsLast
<1>2. Len(c) \in Nat
  OBVIOUS
<1>3. ~(End(c) > e)
  BY <1>1, <1>2
<1>4. ~(e > End(c))
  BY <1>1, <1>2
<1> QED BY <1>1, <1>2, <1>3, <1>4

\* What LastLine finds is the last line of the whole, and is whole.
IsLastLine(line, c) ==
  /\ \E start \in 1..(End(c) + 1) :
       /\ line = SubSeq(c, start, End(c))
       /\ "n" \notin Range(line)
       /\ start = 1 \/ c[start - 1] = "n"
  /\ line = <<>> => c = <<>>

LEMMA NewlineIsLast ==
  ASSUME NEW b \in Seq(Symbols), NEW e \in 1..Len(b), NEW z,
         z = Max({i \in 1..e : b[i] = "n"} \cup {0})
  PROVE  /\ z \in 0..e
         /\ z # 0 => b[z] = "n"
         /\ \A i \in 1..e : i > z => b[i] # "n"
<1> DEFINE S == {i \in 1..e : b[i] = "n"} \cup {0}
<1>1. S \in SUBSET (0..e) /\ S # {} /\ e \in Nat
  OBVIOUS
<1>2. Max(S) \in S /\ \A y \in S : Max(S) >= y
  <2> HIDE DEF S
  <2> QED BY <1>1, Greatest
<1>3. z \in S /\ \A y \in S : z >= y
  BY <1>2
<1>4. ASSUME NEW i \in 1..e, i > z PROVE b[i] # "n"
  <2>1. i \notin S
    BY <1>1, <1>3, <1>4
  <2> QED BY <1>1, <2>1
<1> QED BY <1>1, <1>3, <1>4

LEMMA LineIsLast ==
  ASSUME NEW c \in Seq(Symbols), NEW p \in 0..Len(c), NEW b,
         b = SubSeq(c, p + 1, Len(c)), LastLine(b, p = 0) # <<>>
  PROVE  IsLastLine(LastLine(b, p = 0), c)
<1>1. Len(c) \in Nat /\ p \in Nat
  OBVIOUS
<1>2. /\ b \in Seq(Symbols) /\ Len(b) = Len(c) - p
      /\ \A i \in 1..Len(b) : b[i] = c[p + i]
  <2>1. \A i \in (p + 1)..Len(c) : c[i] \in Symbols
    BY ElementOfSeq
  <2> QED BY <1>1, <2>1, SubSeqProperties
<1> DEFINE e == End(b)
           z == Max({i \in 1..e : b[i] = "n"} \cup {0})
<1>3. LastLine(b, p = 0) = IF e = 0 \/ (z = 0 /\ ~(p = 0)) THEN <<>> ELSE SubSeq(b, z + 1, e)
  BY DEF LastLine, End
<1>4. e # 0 /\ (z # 0 \/ p = 0) /\ LastLine(b, p = 0) = SubSeq(b, z + 1, e)
  <2> HIDE DEF e, z
  <2> QED BY <1>3
<1>5. /\ e \in 1..Len(b) /\ b[e] # "n"
      /\ \A i \in 1..Len(b) : i > e => b[i] = "n"
  <2>1. Len(b) \in Nat
    BY <1>2
  <2>2. /\ End(b) \in 0..Len(b) /\ (End(b) # 0 => b[End(b)] # "n")
        /\ \A i \in 1..Len(b) : i > End(b) => b[i] = "n"
    BY <1>2, EndIsLast
  <2> QED BY <1>4, <2>1, <2>2
<1> HIDE DEF e
<1>6. /\ z \in 0..e /\ (z # 0 => b[z] = "n")
      /\ \A i \in 1..e : i > z => b[i] # "n"
  BY <1>2, <1>5, NewlineIsLast
<1> HIDE DEF z
<1>7. p + e \in 1..Len(c) /\ c[p + e] # "n"
  BY <1>1, <1>2, <1>5
<1>8. ASSUME NEW i \in 1..Len(c), i > p + e PROVE c[i] = "n"
  <2>1. i - p \in 1..Len(b) /\ i - p > e /\ p + (i - p) = i
    BY <1>1, <1>2, <1>5, <1>8
  <2> QED BY <1>2, <1>5, <2>1
<1>9. End(c) = p + e
  BY <1>7, <1>8, EndIs
<1>10. z # e
  BY <1>5, <1>6
<1> DEFINE line == LastLine(b, p = 0)
           start == p + z + 1
<1>11. /\ line \in Seq(Symbols) /\ Len(line) = e - z
       /\ \A i \in 1..Len(line) : line[i] = b[z + i]
  <2>1. \A i \in (z + 1)..e : b[i] \in Symbols
    BY <1>2, <1>5, <1>6, ElementOfSeq
  <2>2. z + 1 \in Int /\ e \in Int /\ z + 1 <= e
    BY <1>2, <1>5, <1>6, <1>10
  <2>3. line = SubSeq(b, z + 1, e)
    BY <1>4
  <2> HIDE DEF line
  <2>4. /\ SubSeq(b, z + 1, e) \in Seq(Symbols)
        /\ Len(SubSeq(b, z + 1, e)) = e - (z + 1) + 1
        /\ \A i \in 1..(e - (z + 1) + 1) : SubSeq(b, z + 1, e)[i] = b[(z + 1) + i - 1]
    <3>1. z + 1 \in 1..(Len(b) + 1) /\ e \in ((z + 1) - 1)..Len(b)
      BY <1>2, <1>5, <1>6, <1>10
    <3> QED BY <1>2, <3>1, Piece
  <2>5. e - (z + 1) + 1 = e - z /\ \A i \in 1..(e - z) : (z + 1) + i - 1 = z + i
    BY <2>2, <1>6
  <2> QED BY <2>3, <2>4, <2>5
<1> HIDE DEF line
<1>12. line = SubSeq(c, start, End(c))
  <2>1. \A i \in start..End(c) : c[i] \in Symbols
    BY <1>1, <1>6, <1>7, <1>9, ElementOfSeq
  <2>2. /\ SubSeq(c, start, End(c)) \in Seq(Symbols)
        /\ Len(SubSeq(c, start, End(c))) = e - z
        /\ \A i \in 1..(e - z) : SubSeq(c, start, End(c))[i] = c[start + i - 1]
    BY <1>1, <1>5, <1>6, <1>9, <1>10, <2>1, SubSeqProperties
  <2>3. ASSUME NEW i \in 1..Len(line) PROVE line[i] = SubSeq(c, start, End(c))[i]
    <3>1. z + i \in 1..Len(b) /\ p + (z + i) = start + i - 1
      BY <1>1, <1>2, <1>5, <1>6, <1>11
    <3> QED BY <1>2, <1>11, <2>2, <3>1
  <2> QED BY <1>11, <2>2, <2>3, SeqEqual
<1>13. "n" \notin Range(line)
  <2>1. ASSUME NEW i \in 1..Len(line) PROVE line[i] # "n"
    <3>1. z + i \in 1..e /\ z + i > z
      BY <1>5, <1>6, <1>11
    <3> QED BY <1>6, <1>11, <3>1
  <2> QED BY <1>11, <2>1, RangeEquality
<1>14. start = 1 \/ c[start - 1] = "n"
  <2>1. CASE z = 0
    BY <1>1, <1>4, <2>1
  <2>2. CASE z # 0
    <3>1. z \in 1..Len(b) /\ start - 1 = p + z
      BY <1>1, <1>2, <1>5, <1>6, <2>2
    <3> QED BY <1>2, <1>6, <2>2, <3>1
  <2> QED BY <2>1, <2>2
<1>15. start \in 1..(End(c) + 1) /\ line # <<>>
  BY <1>1, <1>5, <1>6, <1>9, <1>10, <1>11
<1>16. IsLastLine(line, c)
  <2> HIDE DEF start
  <2> QED BY <1>12, <1>13, <1>14, <1>15 DEF IsLastLine
<1> QED BY <1>16 DEF line

LEMMA EmptyHasNone == IsLastLine(<<>>, <<>>)
<1>1. End(<<>>) \in 0..0
  <2>1. <<>> \in Seq(Symbols) /\ Len(<<>>) = 0
    OBVIOUS
  <2> QED BY <2>1, EndIsLast
<1>2. <<>> = SubSeq(<<>>, 1, 0)
  OBVIOUS
<1>3. "n" \notin Range(<<>>)
  BY DEF Range
<1> QED BY <1>1, <1>2, <1>3 DEF IsLastLine

LEMMA Smaller ==
  ASSUME NEW a \in Nat, NEW b \in Nat
  PROVE  Min({a, b}) = IF a <= b THEN a ELSE b
<1>1. Min({a, b}) \in {a, b} /\ \A y \in {a, b} : Min({a, b}) =< y
  <2>1. \E x \in {a, b} : \A y \in {a, b} : x =< y
    <3>1. CASE a <= b
      <4>1. \A y \in {a, b} : a =< y
        BY <3>1
      <4> QED BY <4>1
    <3>2. CASE ~(a <= b)
      <4>1. \A y \in {a, b} : b =< y
        BY <3>2
      <4> QED BY <4>1
    <3> QED BY <3>1, <3>2
  <2> QED BY <2>1 DEF Min
<1> QED BY <1>1

Places == Directories \cup {"none"}
FileStates ==
  [content : Seq(Symbols), mtime : Nat, where : Places, twin : Places, changes : Nat]
ScanStates ==
  [step : {"walk", "before", "read", "after"}, walked : SUBSET Directories,
   candidates : SUBSET ({"file", "twin"} \X Directories),
   before : [size : Nat, mtime : Nat], position : Nat,
   buffer : Seq(Symbols), line : Seq(Symbols)]
Verdicts ==
  [status : {"none", "found", "missing", "ambiguous", "unreadable", "hashed"},
   record : Seq(Symbols), stable : BOOLEAN]

TranscriptTyped ==
  /\ task \in {"inspect", "hash"}
  /\ file \in FileStates /\ Len(file.content) <= FileLength /\ file.changes <= MaxChanges
  /\ scan \in ScanStates
  /\ inspection \in Verdicts /\ (inspection.status = "none" <=> Inspecting)

\* As long as Codex changes nothing the search has found what there is in the
\* directories that it has walked.
Searched ==
  /\ file.twin # "none" => file.where # "none"
  /\ task = "hash" => file.twin = "none" /\ scan.step # "walk"
  /\ (file.changes = 0 /\ task = "inspect") =>
       /\ (Inspecting /\ scan.step = "walk") =>
            scan.candidates = {f \in Files : f[2] \in scan.walked}
       /\ scan.step # "walk" => file.twin = "none"

\* What was read of the content, and what it is at the end.
Copied ==
  /\ scan.before.size = Len(Content)
  /\ scan.position <= Len(Content)
  /\ task = "inspect" => /\ scan.buffer = SubSeq(Content, scan.position + 1, Len(Content))
                         /\ scan.step = "after" => IsLastLine(scan.line, Content)
  /\ task = "hash" => /\ scan.buffer = SubSeq(Content, 1, scan.position)
                      /\ scan.step = "after" => scan.buffer = Content

\* While the time stamp is the one of the first snapshot nothing was written,
\* and what was read is the end or the beginning of what the file has.
Reading ==
  Inspecting =>
    /\ scan.step \in {"walk", "before"} => scan.buffer = <<>>
    /\ scan.step # "after" => scan.line = <<>>
    /\ scan.step \in {"read", "after"} =>
         /\ ~Twin => scan.before.mtime <= file.mtime
         /\ scan.before.mtime = Snapshot.mtime => Copied

TranscriptInv == TranscriptTyped /\ Searched /\ Reading /\ StableIsLast

LEMMA ContentTyped ==
  ASSUME TranscriptTyped
  PROVE  /\ Content \in Seq(Symbols) /\ Len(Content) \in Nat
         /\ Snapshot.size = Len(Content) /\ Snapshot.mtime = IF Twin THEN 0 ELSE file.mtime
         /\ Snapshot \in [size : Nat, mtime : Nat]
         /\ task = "hash" /\ file.twin = "none" => ~Twin
<1>1. file.content \in Seq(Symbols) /\ file.mtime \in Nat
  BY DEF TranscriptTyped, FileStates
<1>2. <<"}">> \in Seq(Symbols)
  BY DEF Symbols
<1>3. Content \in Seq(Symbols)
  BY <1>1, <1>2 DEF Content
<1>4. Len(Content) \in Nat
  BY <1>3
<1>5. Snapshot.size = Len(Content) /\ Snapshot.mtime = IF Twin THEN 0 ELSE file.mtime
  BY DEF Snapshot
<1>6. Snapshot \in [size : Nat, mtime : Nat]
  BY <1>1, <1>4 DEF Snapshot
<1>7. "none" \notin Directories
  BY DEF Directories
<1>8. <<"twin", "none">> \notin scan.candidates
  BY <1>7 DEF TranscriptTyped, ScanStates
<1>9. file.twin = "none" => ~Twin
  BY <1>8 DEF Twin
<1> QED BY <1>3, <1>4, <1>5, <1>6, <1>9

LEMMA BoundedIsTyped ==
  ASSUME NEW n \in Nat, NEW S, NEW c \in BoundedSeq(S, n)
  PROVE  c \in Seq(S) /\ Len(c) <= n
<1>1. PICK m \in 0..n : c \in [1..m -> S]
  BY DEF BoundedSeq, SeqOf
<1>2. m \in Nat /\ m <= n
  OBVIOUS
<1>3. c \in Seq(S)
  BY <1>1, <1>2, SeqDef
<1>4. Len(c) \in Nat /\ 1..Len(c) = 1..m
  BY <1>1, <1>3, LenProperties
<1> DEFINE k == Len(c)
<1> HIDE DEF k
<1>5. k \in Nat /\ 1..k = 1..m
  BY <1>4 DEF k
<1>6. k <= m
  <2>1. k # 0 => k \in 1..m
    BY <1>5
  <2> QED BY <1>2, <1>5, <2>1
<1> QED BY <1>2, <1>3, <1>5, <1>6 DEF k

LEMMA SourcesTranscriptInit == SourcesInit => TranscriptInv
<1> SUFFICES ASSUME SourcesInit PROVE TranscriptInv
  OBVIOUS
<1>1. <<>> \in Seq(Symbols) /\ Len(<<>>) = 0
  OBVIOUS
<1>2. FileLength \in Nat /\ MaxChanges \in Nat
  BY TranscriptAssumption
<1>3. inspection = Uninspected /\ inspection.status = "none" /\ inspection \in Verdicts
  <2>1. inspection = Uninspected
    BY DEF SourcesInit, TranscriptInit
  <2>2. Uninspected.status = "none" /\ Uninspected \in Verdicts
    BY <1>1 DEF Uninspected, Verdicts
  <2> QED BY <2>1, <2>2
<1>4. /\ task \in {"inspect", "hash"}
      /\ file \in FileStates /\ Len(file.content) <= FileLength /\ file.changes = 0
      /\ file.twin # "none" => file.where # "none"
      /\ task = "hash" => file.twin = "none"
  <2>1. CASE source = "transcript"
    <3>1. PICK content \in BoundedSeq({"x", "}", "n"}, FileLength),
               where \in Directories \cup {"none"}, twin \in Directories \cup {"none"} :
            file = [content |-> content, mtime |-> 0, where |-> where, twin |-> twin, changes |-> 0]
      BY <2>1 DEF SourcesInit, TranscriptInit
    <3>2. content \in Seq(Symbols) /\ Len(content) <= FileLength
      <4>1. content \in BoundedSeq(Symbols, FileLength)
        BY DEF Symbols
      <4> QED BY <1>2, <4>1, BoundedIsTyped
    <3>3. file \in FileStates /\ file.content = content /\ file.changes = 0
      BY <3>1, <3>2 DEF FileStates, Places
    <3> QED BY <2>1, <3>2, <3>3 DEF SourcesInit, TranscriptInit
  <2>2. CASE source # "transcript"
    <3>1. /\ task = "hash"
          /\ file = [content |-> <<>>, mtime |-> 0, where |-> "sessions", twin |-> "none",
                     changes |-> 0]
      BY <2>2 DEF SourcesInit
    <3>2. file \in FileStates /\ Len(file.content) = 0 /\ file.changes = 0 /\ file.twin = "none"
      BY <1>1, <3>1 DEF FileStates, Places, Directories
    <3> QED BY <1>2, <3>1, <3>2
  <2> QED BY <2>1, <2>2
<1>5. /\ scan \in ScanStates /\ scan.buffer = <<>> /\ scan.line = <<>>
      /\ scan.step = "before" \/ (scan.step = "walk" /\ scan.walked = {} /\ scan.candidates = {})
      /\ task = "hash" <=> scan.step = "before"
  <2>1. CASE source = "transcript"
    <3>1. scan = [step |-> IF task = "hash" THEN "before" ELSE "walk", walked |-> {},
                  candidates |-> IF task = "hash" THEN {<<"file", "sessions">>} ELSE {},
                  before |-> [size |-> 0, mtime |-> 0], position |-> 0, buffer |-> <<>>,
                  line |-> <<>>]
      BY <2>1 DEF SourcesInit, TranscriptInit
    <3>2. {<<"file", "sessions">>} \in SUBSET ({"file", "twin"} \X Directories)
      BY DEF Directories
    <3>3. [size |-> 0, mtime |-> 0] \in [size : Nat, mtime : Nat]
      OBVIOUS
    <3>4. CASE task = "hash"
      BY <1>1, <3>1, <3>2, <3>3, <3>4 DEF ScanStates
    <3>5. CASE task # "hash"
      BY <1>1, <3>1, <3>3, <3>5 DEF ScanStates
    <3> QED BY <3>4, <3>5
  <2>2. CASE source # "transcript"
    <3>1. /\ task = "hash"
          /\ scan = [step |-> "before", walked |-> {}, candidates |-> {},
                     before |-> [size |-> 0, mtime |-> 0], position |-> 0,
                     buffer |-> <<>>, line |-> <<>>]
      BY <2>2 DEF SourcesInit
    <3>2. [size |-> 0, mtime |-> 0] \in [size : Nat, mtime : Nat]
      OBVIOUS
    <3> QED BY <1>1, <3>1, <3>2 DEF ScanStates
  <2> QED BY <2>1, <2>2
<1>6. TranscriptTyped
  BY <1>2, <1>3, <1>4, <1>5 DEF TranscriptTyped, Inspecting
<1>7. Searched
  <2>1. scan.step = "walk" => scan.candidates = {f \in Files : f[2] \in scan.walked}
    BY <1>5
  <2> QED BY <1>4, <1>5, <2>1 DEF Searched
<1>8. Reading
  BY <1>5 DEF Reading
<1>9. StableIsLast
  BY <1>3 DEF StableIsLast, Inspecting
<1> QED BY <1>6, <1>7, <1>8, <1>9 DEF TranscriptInv

-----------------------------------------------------------------------------
(* One step after the other.                                                *)

\* What depends on the file and the chosen candidate only.
LEMMA SameContent ==
  ASSUME file' = file, scan'.candidates = scan.candidates
  PROVE  (Twin' <=> Twin) /\ Content' = Content /\ Snapshot' = Snapshot /\ InPlace' = InPlace
<1>1. Twin' <=> Twin
  BY DEF Twin
<1>2. Content' = Content
  BY <1>1 DEF Content
<1>3. Snapshot' = Snapshot
  BY <1>1, <1>2 DEF Snapshot
<1> QED BY <1>1, <1>2, <1>3 DEF InPlace, Files

LEMMA SameCopied ==
  ASSUME Content' = Content, scan' = scan, task' = task
  PROVE  Copied' <=> Copied
BY DEF Copied

LEMMA TranscriptStays ==
  ASSUME TranscriptInv, UNCHANGED transcriptVars
  PROVE  TranscriptInv'
<1>1. task' = task /\ file' = file /\ scan' = scan /\ inspection' = inspection
  BY DEF transcriptVars
<1>2. (Twin' <=> Twin) /\ Content' = Content /\ Snapshot' = Snapshot /\ (Copied' <=> Copied)
  BY <1>1, SameContent, SameCopied
<1>3. TranscriptTyped'
  BY <1>1 DEF TranscriptInv, TranscriptTyped, Inspecting
<1>4. Searched'
  BY <1>1 DEF TranscriptInv, Searched, Inspecting, Files
<1>5. Reading'
  BY <1>1, <1>2 DEF TranscriptInv, Reading, Inspecting
<1>6. StableIsLast'
  BY <1>1, <1>2 DEF TranscriptInv, StableIsLast, Inspecting
<1> QED BY <1>3, <1>4, <1>5, <1>6 DEF TranscriptInv

\* Whatever Codex writes has another time stamp than the first snapshot.
LEMMA ChangesKeep ==
  ASSUME TranscriptInv, NEW content \in Seq(Symbols), Len(content) <= FileLength,
         NEW where \in Places, file.twin # "none" => where # "none",
         Changes(content, where)
  PROVE  TranscriptInv'
<1>1. /\ Inspecting /\ Inspecting' /\ task' = task /\ scan' = scan /\ inspection' = inspection
      /\ file.changes < MaxChanges
      /\ file' = [file EXCEPT !.content = content, !.where = where, !.changes = @ + 1,
                              !.mtime = IF content = file.content THEN @ ELSE @ + 1]
  BY DEF Changes, Inspecting
<1>2. TranscriptTyped /\ Searched /\ Reading /\ StableIsLast
  BY DEF TranscriptInv
<1>3. /\ file \in FileStates /\ scan \in ScanStates /\ file.mtime \in Nat /\ file.changes \in Nat
      /\ scan.before.mtime \in Nat
  BY <1>2 DEF TranscriptTyped, FileStates, ScanStates
<1>4. /\ file' \in FileStates /\ file'.content = content /\ file'.where = where
      /\ file'.changes = file.changes + 1 /\ file'.twin = file.twin
      /\ file'.mtime = IF content = file.content THEN file.mtime ELSE file.mtime + 1
  <2> DEFINE stamp == IF content = file.content THEN file.mtime ELSE file.mtime + 1
  <2>1. stamp \in Nat /\ file.changes + 1 \in Nat
    BY <1>3
  <2>2. file' = [file EXCEPT !.content = content, !.where = where,
                             !.changes = file.changes + 1, !.mtime = stamp]
    BY <1>1, <1>3 DEF FileStates
  <2> HIDE DEF stamp
  <2>3. /\ file' \in FileStates /\ file'.content = content /\ file'.where = where
        /\ file'.changes = file.changes + 1 /\ file'.twin = file.twin /\ file'.mtime = stamp
    BY <1>3, <2>1, <2>2 DEF FileStates
  <2> QED BY <2>3 DEF stamp
<1>5. (Twin' <=> Twin) /\ Content' = IF Twin THEN Content ELSE content
  BY <1>1, <1>4 DEF Twin, Content
<1>6. Snapshot' = [size |-> Len(Content'), mtime |-> IF Twin THEN 0 ELSE file'.mtime]
  BY <1>5 DEF Snapshot
<1>7. TranscriptTyped'
  <2>1. file.changes + 1 <= MaxChanges
    BY <1>1, <1>3, TranscriptAssumption
  <2> QED BY <1>1, <1>2, <1>4, <2>1 DEF TranscriptTyped
<1>8. Searched'
  <2>1. file'.changes # 0
    BY <1>3, <1>4
  <2> QED BY <1>1, <1>2, <1>4, <2>1 DEF Searched
<1>9. Reading'
  <2>1. CASE Content' = Content /\ Snapshot'.mtime = Snapshot.mtime
    <3>1. Copied' <=> Copied
      BY <1>1, <2>1, SameCopied
    <3>2. file.mtime <= file'.mtime
      BY <1>3, <1>4
    <3>3. (~Twin' /\ scan.step \in {"read", "after"}) => scan.before.mtime <= file'.mtime
      BY <1>1, <1>2, <1>3, <1>4, <1>5, <3>2 DEF Reading
    <3> QED BY <1>1, <1>2, <2>1, <3>1, <3>3 DEF Reading
  <2>2. CASE ~(Content' = Content /\ Snapshot'.mtime = Snapshot.mtime)
    <3>1. ~Twin /\ file'.mtime = file.mtime + 1
      BY <1>4, <1>5, <1>6, <2>2 DEF Snapshot, Content
    <3>2. scan.step \in {"read", "after"} => scan.before.mtime <= file'.mtime
                                             /\ scan.before.mtime # file'.mtime
      BY <1>1, <1>2, <1>3, <3>1 DEF Reading
    <3>3. Snapshot'.mtime = file'.mtime
      BY <1>6, <3>1
    <3> QED BY <1>1, <1>2, <3>2, <3>3 DEF Reading
  <2> QED BY <2>1, <2>2
<1>10. StableIsLast'
  <2>1. file'.changes # 0
    BY <1>3, <1>4
  <2>2. inspection'.status = "none"
    BY <1>1 DEF Inspecting, Uninspected
  <2> QED BY <2>1, <2>2 DEF StableIsLast
<1> QED BY <1>7, <1>8, <1>9, <1>10 DEF TranscriptInv

LEMMA Named ==
  ASSUME NEW S, NEW e \in S
  PROVE  \E c \in S : c = e
OBVIOUS

LEMMA CodexKeeps ==
  ASSUME TranscriptInv, Codex
  PROVE  TranscriptInv'
<1>1. /\ file \in FileStates /\ file.content \in Seq(Symbols) /\ Len(file.content) <= FileLength
      /\ Len(file.content) \in Nat
      /\ file.where \in Places
      /\ file.twin # "none" => file.where # "none"
  BY DEF TranscriptInv, TranscriptTyped, FileStates, Searched
<1> DEFINE Good(c, w) == /\ Len(c) <= FileLength /\ (file.twin # "none" => w # "none")
                         /\ Changes(c, w)
<1>2. ASSUME NEW symbol \in Symbols, Len(file.content) < FileLength,
             Changes(Append(file.content, symbol), file.where)
      PROVE  \E c \in Seq(Symbols), w \in Places : Good(c, w)
  <2>1. /\ Append(file.content, symbol) \in Seq(Symbols)
        /\ Len(Append(file.content, symbol)) <= FileLength
    BY <1>1, <1>2, TranscriptAssumption
  <2>2. \E c \in Seq(Symbols) : c = Append(file.content, symbol)
    BY <2>1, Named
  <2>3. PICK c \in Seq(Symbols) : c = Append(file.content, symbol)
    BY <2>2
  <2>4. PICK w \in Places : w = file.where
    BY <1>1, Named
  <2>5. Changes(c, w)
    BY <1>2, <2>3, <2>4 DEF Changes
  <2> QED BY <1>1, <2>1, <2>3, <2>4, <2>5
<1>3. ASSUME NEW part \in Prefixes(file.content), Changes(part, file.where)
      PROVE  \E c \in Seq(Symbols), w \in Places : Good(c, w)
  <2>1. PICK n \in 0..Len(file.content) : part = SubSeq(file.content, 1, n)
    BY <1>1 DEF Prefixes
  <2>2. part \in Seq(Symbols) /\ Len(part) <= FileLength
    <3>1. 1 \in 1..(Len(file.content) + 1) /\ n \in (1 - 1)..Len(file.content)
      BY <1>1
    <3>2. part \in Seq(Symbols) /\ Len(part) = n - 1 + 1
      BY <1>1, <2>1, <3>1, Piece
    <3> QED BY <1>1, <3>1, <3>2, TranscriptAssumption
  <2>3. PICK c \in Seq(Symbols) : c = part
    BY <2>2
  <2>4. PICK w \in Places : w = file.where
    BY <1>1, Named
  <2>5. Changes(c, w)
    BY <1>3, <2>3, <2>4 DEF Changes
  <2> QED BY <1>1, <2>2, <2>3, <2>4, <2>5
<1>4. ASSUME Changes(file.content, "archived_sessions")
      PROVE  \E c \in Seq(Symbols), w \in Places : Good(c, w)
  <2>1. "archived_sessions" \in Places
    BY DEF Places, Directories
  <2>2. Good(file.content, "archived_sessions")
    BY <1>1, <1>4
  <2> HIDE DEF Good
  <2> QED BY <1>1, <2>1, <2>2
<1>5. \E c \in Seq(Symbols), w \in Places : Good(c, w)
  <2> HIDE DEF Good
  <2> QED BY <1>2, <1>3, <1>4 DEF Codex, Symbols
<1>6. PICK c \in Seq(Symbols), w \in Places : Good(c, w)
  BY <1>5
<1> QED BY <1>6, ChangesKeep

\* Until there is a verdict nothing is claimed.
LEMMA NothingClaimed ==
  ASSUME inspection' = Uninspected
  PROVE  StableIsLast'
<1>1. inspection'.status = "none"
  BY DEF Uninspected
<1> QED BY <1>1 DEF StableIsLast, Inspecting

LEMMA WalkKeeps ==
  ASSUME TranscriptInv, NEW directory \in Directories, Walk(directory)
  PROVE  TranscriptInv'
<1>1. /\ Inspecting /\ Inspecting' /\ inspection' = inspection /\ task' = task /\ file' = file
      /\ scan.step = "walk"
      /\ scan' = [scan EXCEPT !.walked = @ \cup {directory},
                    !.candidates = @ \cup {f \in Files : f[2] = directory}]
  BY DEF Walk, Inspecting
<1>2. TranscriptTyped /\ Searched /\ Reading
  BY DEF TranscriptInv
<1>3. {f \in Files : f[2] = directory} \subseteq {"file", "twin"} \X Directories
  BY DEF Files
<1>4. /\ scan' \in ScanStates /\ scan'.step = "walk"
      /\ scan'.walked = scan.walked \cup {directory}
      /\ scan'.candidates = scan.candidates \cup {f \in Files : f[2] = directory}
      /\ scan'.buffer = scan.buffer /\ scan'.line = scan.line
  <2> DEFINE walked == scan.walked \cup {directory}
             candidates == scan.candidates \cup {f \in Files : f[2] = directory}
  <2>1. scan \in ScanStates
    BY <1>2 DEF TranscriptTyped
  <2>2. scan' = [scan EXCEPT !.walked = walked, !.candidates = candidates]
    BY <1>1, <2>1 DEF ScanStates
  <2>3. /\ walked \in SUBSET Directories
        /\ candidates \in SUBSET ({"file", "twin"} \X Directories)
    BY <1>3, <2>1 DEF ScanStates
  <2> HIDE DEF walked, candidates
  <2>4. /\ scan' \in ScanStates /\ scan'.step = "walk"
        /\ scan'.walked = walked /\ scan'.candidates = candidates
        /\ scan'.buffer = scan.buffer /\ scan'.line = scan.line
    BY <1>1, <2>1, <2>2, <2>3 DEF ScanStates
  <2> QED BY <2>4 DEF walked, candidates
<1>5. TranscriptTyped'
  BY <1>1, <1>2, <1>4 DEF TranscriptTyped
<1>6. Searched'
  <2>1. task # "hash"
    BY <1>1, <1>2 DEF Searched
  <2>2. file.changes = 0 => scan'.candidates = {f \in Files : f[2] \in scan'.walked}
    BY <1>1, <1>2, <1>4, <2>1 DEF Searched, TranscriptTyped
  <2> QED BY <1>1, <1>2, <1>4, <2>1, <2>2 DEF Searched, Files
<1>7. Reading'
  BY <1>1, <1>2, <1>4 DEF Reading
<1>8. StableIsLast'
  BY <1>1, NothingClaimed DEF Inspecting
<1> QED BY <1>5, <1>6, <1>7, <1>8 DEF TranscriptInv

LEMMA TwoAtMost ==
  ASSUME NEW S, S \subseteq {"file", "twin"} \X Directories
  PROVE  IsFiniteSet(S) /\ (Cardinality(S) = 1 <=> \E x : S = {x})
<1>1. \A a, b : IsFiniteSet({a, b})
  <2> TAKE a, b
  <2>1. IsFiniteSet({a} \cup {b})
    BY FS_Singleton, FS_AddElement
  <2>2. {a, b} = {a} \cup {b}
    OBVIOUS
  <2> QED BY <2>1, <2>2
<1>2. IsFiniteSet({"file", "twin"}) /\ IsFiniteSet(Directories)
  BY <1>1 DEF Directories
<1>3. IsFiniteSet({"file", "twin"} \X Directories)
  BY <1>2, FS_Product
<1>4. IsFiniteSet(S)
  BY <1>3, FS_Subset
<1> QED BY <1>4, FS_Singleton

LEMMA ChooseKeeps ==
  ASSUME TranscriptInv, Choose
  PROVE  TranscriptInv'
<1>1. /\ Inspecting /\ task' = task /\ file' = file
      /\ scan.step = "walk" /\ scan.walked = Directories
  BY DEF Choose
<1>2. TranscriptTyped /\ Searched /\ Reading
  BY DEF TranscriptInv
<1>3. /\ scan \in ScanStates /\ task = "inspect"
      /\ scan.candidates \subseteq {"file", "twin"} \X Directories
      /\ file.where \in Places /\ file.twin \in Places
      /\ "none" \notin Directories
      /\ \A d \in Places : d # "none" => d \in Directories
  BY <1>1, <1>2 DEF TranscriptTyped, ScanStates, FileStates, Searched, Places, Directories
<1>4. Cardinality(scan.candidates) = 1 <=> \E x : scan.candidates = {x}
  BY <1>3, TwoAtMost
<1>5. file.changes = 0 =>
        /\ \A f : f \in scan.candidates <=> (f \in Files /\ f[2] \in Directories)
        /\ (file.twin # "none" => file.where # "none")
  BY <1>1, <1>2, <1>3 DEF Searched
<1>6. file.changes = 0 =>
        /\ (file.where # "none" => <<"file", file.where>> \in scan.candidates)
        /\ (file.twin # "none" => <<"twin", file.twin>> \in scan.candidates)
        /\ (file.twin = "none" => scan.candidates \subseteq {<<"file", file.where>>})
  BY <1>3, <1>5 DEF Files
<1>7. CASE Cardinality(scan.candidates) = 1
  <2>1. scan' = [scan EXCEPT !.step = "before"] /\ inspection' = inspection /\ Inspecting'
    BY <1>1, <1>7 DEF Choose, Inspecting
  <2>2. /\ scan' \in ScanStates /\ scan'.step = "before" /\ scan'.buffer = scan.buffer
        /\ scan'.line = scan.line
    BY <1>3, <2>1 DEF ScanStates
  <2>3. file.changes = 0 => file.twin = "none"
    <3>1. <<"file", file.where>> # <<"twin", file.twin>>
      OBVIOUS
    <3> QED BY <1>4, <1>5, <1>6, <1>7, <3>1
  <2>4. TranscriptTyped'
    BY <1>1, <1>2, <2>1, <2>2 DEF TranscriptTyped, Inspecting
  <2>5. Searched'
    BY <1>1, <1>2, <1>3, <2>2, <2>3 DEF Searched
  <2>6. Reading'
    BY <1>1, <1>2, <2>1, <2>2 DEF Reading
  <2>7. StableIsLast'
    BY <2>1, NothingClaimed DEF Inspecting
  <2> QED BY <2>4, <2>5, <2>6, <2>7 DEF TranscriptInv
<1>8. CASE Cardinality(scan.candidates) # 1
  <2> DEFINE verdict == IF scan.candidates = {} THEN "missing" ELSE "ambiguous"
  <2>1. /\ scan' = scan
        /\ inspection' = [status |-> verdict, record |-> <<>>, stable |-> FALSE]
    BY <1>8 DEF Choose, Inspected
  <2>2. /\ inspection' \in Verdicts /\ inspection'.status = verdict
        /\ ~Inspecting' /\ verdict \in {"missing", "ambiguous"}
    BY <2>1 DEF Verdicts, Inspecting, Uninspected
  <2>3. file.changes = 0 => /\ (verdict = "missing" => file.where = "none")
                            /\ (verdict = "ambiguous" <=> file.twin # "none")
    <3>1. file.changes = 0 /\ file.twin = "none" => scan.candidates = {}
      BY <1>4, <1>6, <1>8
    <3> QED BY <1>5, <1>6, <3>1
  <2> HIDE DEF verdict
  <2>4. TranscriptTyped'
    BY <1>1, <1>2, <2>1, <2>2 DEF TranscriptTyped
  <2>5. Searched'
    BY <1>1, <1>2, <2>1, <2>2 DEF Searched
  <2>6. Reading'
    BY <2>2 DEF Reading
  <2>7. StableIsLast'
    BY <1>1, <2>2, <2>3 DEF StableIsLast
  <2> QED BY <2>4, <2>5, <2>6, <2>7 DEF TranscriptInv
<1> QED BY <1>7, <1>8

\* A verdict after the search.
LEMMA VerdictKeeps ==
  ASSUME TranscriptInv, Inspecting, scan.step # "walk",
         task' = task, file' = file, scan' = scan,
         inspection' \in Verdicts,
         inspection'.status \in {"found", "unreadable", "hashed"},
         (inspection'.status = "found" /\ inspection'.stable) =>
           IsLastLine(inspection'.record, Content),
         inspection'.status = "hashed" => inspection'.record = file.content
  PROVE  TranscriptInv'
<1>1. task' = task /\ file' = file /\ scan' = scan
  OBVIOUS
<1>2. (Twin' <=> Twin) /\ Content' = Content
  BY <1>1, SameContent
<1>3. TranscriptTyped /\ Searched
  BY DEF TranscriptInv
<1>4. ~Inspecting' /\ inspection'.status # "none"
  BY DEF Inspecting, Uninspected
<1>5. TranscriptTyped'
  BY <1>1, <1>3, <1>4 DEF TranscriptTyped
<1>6. Searched'
  BY <1>1, <1>3, <1>4 DEF Searched
<1>7. Reading'
  BY <1>4 DEF Reading
<1>8. StableIsLast'
  <2>1. (inspection'.status = "found" /\ inspection'.stable) =>
          IsLastLine(inspection'.record, Content')
    BY <1>2
  <2>2. inspection'.status = "hashed" => inspection'.record = file'.content
    BY <1>1
  <2>3. (file'.changes = 0 /\ task' = "inspect") => file'.twin = "none"
    BY <1>1, <1>3 DEF Searched
  <2> QED BY <1>4, <2>1, <2>2, <2>3 DEF StableIsLast, IsLastLine, End
<1> QED BY <1>5, <1>6, <1>7, <1>8 DEF TranscriptInv

\* The step that goes on reading changes neither the file nor the candidates.
LEMMA GoesOn ==
  ASSUME TranscriptInv, Inspecting, task' = task, file' = file, inspection' = inspection,
         scan.step # "walk", scan'.step \in {"read", "after"}, scan' \in ScanStates,
         scan'.candidates = scan.candidates,
         scan'.step # "after" => scan'.line = <<>>,
         ~Twin => scan'.before.mtime <= file.mtime,
         scan'.before.mtime = Snapshot.mtime => Copied'
  PROVE  TranscriptInv'
<1>1. task' = task /\ file' = file /\ inspection' = inspection /\ Inspecting'
  BY DEF Inspecting
<1>2. (Twin' <=> Twin) /\ Snapshot' = Snapshot
  BY <1>1, SameContent
<1>3. TranscriptTyped /\ Searched
  BY DEF TranscriptInv
<1>4. TranscriptTyped'
  BY <1>1, <1>3 DEF TranscriptTyped, Inspecting
<1>5. Searched'
  BY <1>1, <1>3 DEF Searched
<1>6. Reading'
  BY <1>1, <1>2 DEF Reading
<1>7. StableIsLast'
  BY <1>1, NothingClaimed DEF Inspecting
<1> QED BY <1>4, <1>5, <1>6, <1>7 DEF TranscriptInv

LEMMA NoPiece ==
  ASSUME NEW c \in Seq(Symbols), NEW i \in 0..Len(c)
  PROVE  SubSeq(c, i + 1, i) = <<>>
<1>1. Len(c) \in Nat
  OBVIOUS
<1>2. i + 1 \in 1..(Len(c) + 1) /\ i \in ((i + 1) - 1)..Len(c) /\ i - (i + 1) + 1 = 0
  BY <1>1
<1>3. SubSeq(c, i + 1, i) \in Seq(Symbols) /\ Len(SubSeq(c, i + 1, i)) = 0
  BY <1>2, Piece
<1> QED BY <1>3, EmptySeq

\* Two pieces that meet.
LEMMA PiecesMeet ==
  ASSUME NEW c \in Seq(Symbols), NEW i \in 0..Len(c), NEW j \in i..Len(c), NEW k \in j..Len(c)
  PROVE  SubSeq(c, i + 1, j) \o SubSeq(c, j + 1, k) = SubSeq(c, i + 1, k)
<1>1. Len(c) \in Nat
  OBVIOUS
<1>2. i + 1 \in 1..(Len(c) + 1) /\ j \in ((i + 1) - 1)..Len(c)
  BY <1>1
<1> QED BY <1>2, ConcatAdjacentSubSeq

LEMMA UnreadableKeeps ==
  ASSUME TranscriptInv, Inspecting, scan.step # "walk",
         task' = task, file' = file, scan' = scan,
         Inspected("unreadable", <<>>, FALSE)
  PROVE  TranscriptInv'
<1>1. inspection' = [status |-> "unreadable", record |-> <<>>, stable |-> FALSE]
  BY DEF Inspected
<1>2. inspection' \in Verdicts /\ inspection'.status = "unreadable"
  BY <1>1 DEF Verdicts
<1> QED BY <1>2, VerdictKeeps

LEMMA BeforeKeeps ==
  ASSUME TranscriptInv, Before
  PROVE  TranscriptInv'
<1>1. Inspecting /\ TranscriptTyped /\ Searched /\ Reading /\ scan \in ScanStates
  BY DEF Before, TranscriptInv, TranscriptTyped
<1>2. CASE Lost("before")
  BY <1>1, <1>2, UnreadableKeeps DEF Lost
<1>3. CASE /\ scan.step = "before"
           /\ scan' = [scan EXCEPT !.step = "read", !.before = Snapshot,
                         !.position = IF task = "inspect" THEN Snapshot.size ELSE 0]
           /\ UNCHANGED <<task, file, inspection>>
  <2> DEFINE size == Len(Content)
             position == IF task = "inspect" THEN size ELSE 0
  <2>1. /\ Content \in Seq(Symbols) /\ size \in Nat /\ Snapshot.size = size
        /\ Snapshot \in [size : Nat, mtime : Nat]
        /\ Snapshot.mtime = IF Twin THEN 0 ELSE file.mtime
    BY <1>1, ContentTyped
  <2>2. scan' = [scan EXCEPT !.step = "read", !.before = Snapshot, !.position = position]
    BY <1>3, <2>1
  <2>3. position \in Nat /\ position <= size
    BY <2>1
  <2>4. /\ scan' \in ScanStates /\ scan'.step = "read" /\ scan'.before = Snapshot
        /\ scan'.position = position /\ scan'.candidates = scan.candidates
        /\ scan'.buffer = <<>> /\ scan'.line = <<>>
    <3> HIDE DEF position
    <3>1. scan.buffer = <<>> /\ scan.line = <<>>
      BY <1>1, <1>3 DEF Reading
    <3> QED BY <1>1, <2>1, <2>2, <2>3, <3>1 DEF ScanStates
  <2>5. Content' = Content /\ task' = task
    BY <1>3, <2>4, SameContent
  <2>6. Copied'
    <3>1. task = "inspect" => scan'.buffer = SubSeq(Content, scan'.position + 1, Len(Content))
      <4>1. size \in 0..Len(Content)
        BY <2>1
      <4> QED BY <2>1, <2>4, <4>1, NoPiece
    <3>2. task = "hash" => scan'.buffer = SubSeq(Content, 1, scan'.position)
      <4>1. 0 \in 0..Len(Content) /\ 0 + 1 = 1
        BY <2>1
      <4>2. SubSeq(Content, 0 + 1, 0) = <<>>
        BY <2>1, <4>1, NoPiece
      <4> QED BY <2>4, <4>1, <4>2
    <3>3. scan'.before.size = Len(Content) /\ scan'.position <= Len(Content)
      BY <2>1, <2>3, <2>4
    <3> QED BY <2>4, <2>5, <3>1, <3>2, <3>3 DEF Copied
  <2>7. ~Twin => scan'.before.mtime <= file.mtime
    BY <1>1, <2>1, <2>4 DEF TranscriptTyped, FileStates
  <2> QED BY <1>1, <1>3, <2>4, <2>6, <2>7, GoesOn
<1> QED BY <1>2, <1>3 DEF Before

LEMMA Chunk ==
  ASSUME NEW c \in Seq(Symbols), NEW p \in Nat, NEW m \in Nat, m <= Len(c)
  PROVE  SubSeq(c, p + 1, m) \in Seq(Symbols)
<1>1. Len(c) \in Nat /\ p + 1 \in Int /\ m \in Int
  OBVIOUS
<1>2. \A i \in (p + 1)..m : c[i] \in Symbols
  BY <1>1, ElementOfSeq
<1> QED BY <1>1, <1>2, SubSeqProperties

LEMMA ChunkLength ==
  ASSUME NEW c \in Seq(Symbols), NEW m \in 0..Len(c), NEW p \in 0..m
  PROVE  Len(SubSeq(c, p + 1, m)) = m - p
<1>1. Len(c) \in Nat
  OBVIOUS
<1>2. p + 1 \in 1..(Len(c) + 1) /\ m \in ((p + 1) - 1)..Len(c) /\ m - (p + 1) + 1 = m - p
  BY <1>1
<1>3. Len(SubSeq(c, p + 1, m)) = m - (p + 1) + 1
  BY <1>2, Piece
<1> QED BY <1>2, <1>3

LEMMA LastLineTyped ==
  ASSUME NEW b \in Seq(Symbols), NEW atStart \in BOOLEAN
  PROVE  LastLine(b, atStart) \in Seq(Symbols)
<1> DEFINE e == End(b)
           z == Max({i \in 1..e : b[i] = "n"} \cup {0})
<1>1. LastLine(b, atStart) = IF e = 0 \/ (z = 0 /\ ~atStart) THEN <<>> ELSE SubSeq(b, z + 1, e)
  BY DEF LastLine, End
<1>2. Len(b) \in Nat /\ e \in 0..Len(b)
  BY EndIsLast
<1> HIDE DEF e
<1>3. CASE e = 0
  <2> HIDE DEF z
  <2> QED BY <1>1, <1>3
<1>4. CASE e # 0
  <2>1. z \in 0..e
    BY <1>2, <1>4, NewlineIsLast
  <2> HIDE DEF z
  <2>2. \A i \in (z + 1)..e : b[i] \in Symbols
    BY <1>2, <2>1, ElementOfSeq
  <2>3. SubSeq(b, z + 1, e) \in Seq(Symbols)
    BY <1>2, <2>1, <2>2, SubSeqProperties
  <2> QED BY <1>1, <2>3
<1> QED BY <1>3, <1>4

LEMMA ReadBackwardKeeps ==
  ASSUME TranscriptInv, ReadBackward
  PROVE  TranscriptInv'
<1> DEFINE length == Min({ReadChunkBytes, scan.position})
           position == scan.position - length
           buffer == Bytes(position, length) \o scan.buffer
           line == LastLine(buffer, position = 0)
           ends == scan.before.size = 0
           refuses == scan.position = 0 \/ Len(scan.buffer) >= MaxLastRecord
<1>1. /\ Inspecting /\ task = "inspect" /\ scan.step = "read"
      /\ task' = task /\ file' = file
  BY DEF ReadBackward
<1>2. TranscriptTyped /\ Reading /\ scan \in ScanStates
  BY DEF TranscriptInv, TranscriptTyped
<1>3. /\ Content \in Seq(Symbols) /\ Len(Content) \in Nat
      /\ scan.position \in Nat /\ scan.buffer \in Seq(Symbols) /\ scan.line = <<>>
  BY <1>1, <1>2, ContentTyped DEF ScanStates, Reading
<1>4. /\ length \in Nat /\ length <= scan.position
      /\ position \in Nat /\ position + length = scan.position /\ position <= scan.position
  <2>1. ReadChunkBytes \in Nat
    BY TranscriptAssumption
  <2>2. length = IF ReadChunkBytes <= scan.position THEN ReadChunkBytes ELSE scan.position
    BY <1>3, <2>1, Smaller
  <2> HIDE DEF length
  <2> QED BY <1>3, <2>1, <2>2
<1>5. \/ ends /\ scan' = [scan EXCEPT !.step = "after"] /\ inspection' = inspection
      \/ Unreadable
      \/ line = <<>> /\ scan' = [scan EXCEPT !.position = position, !.buffer = buffer]
           /\ inspection' = inspection
      \/ line # <<>> /\ scan' = [scan EXCEPT !.step = "after", !.line = line]
           /\ inspection' = inspection
  BY DEF ReadBackward
<1> HIDE DEF length
<1>6. /\ buffer \in Seq(Symbols) /\ line \in Seq(Symbols)
      /\ scan.position <= Len(Content) =>
           Bytes(position, length) = SubSeq(Content, position + 1, scan.position)
  <2> DEFINE m == Min({Len(Content), position + length})
  <2>1. /\ m \in Nat /\ (m = Len(Content) \/ m = position + length)
        /\ m <= Len(Content) /\ m <= position + length
        /\ SubSeq(Content, position + 1, m) \in Seq(Symbols)
    <3>1. m = IF Len(Content) <= position + length THEN Len(Content) ELSE position + length
      <4> HIDE DEF position
      <4> QED BY <1>3, <1>4, Smaller
    <3> HIDE DEF position, m
    <3>2. /\ m \in Nat /\ (m = Len(Content) \/ m = position + length)
          /\ m <= Len(Content) /\ m <= position + length
      BY <1>3, <1>4, <3>1
    <3> QED BY <1>3, <1>4, <3>2, Chunk
  <2>2. Bytes(position, length) = SubSeq(Content, position + 1, m)
    BY DEF Bytes
  <2> HIDE DEF m
  <2>3. scan.position <= Len(Content) => m = scan.position
    BY <1>3, <1>4, <2>1
  <2>4. buffer \in Seq(Symbols)
    BY <1>3, <2>1, <2>2, ConcatProperties
  <2>5. line \in Seq(Symbols)
    <3> HIDE DEF buffer
    <3> QED BY <2>4, LastLineTyped
  <2> QED BY <2>2, <2>3, <2>4, <2>5
<1>7. Copied => buffer = SubSeq(Content, position + 1, Len(Content))
  <2> SUFFICES ASSUME Copied PROVE buffer = SubSeq(Content, position + 1, Len(Content))
    OBVIOUS
  <2>1. /\ scan.position <= Len(Content)
        /\ scan.buffer = SubSeq(Content, scan.position + 1, Len(Content))
    BY <1>1 DEF Copied
  <2>2. buffer = SubSeq(Content, position + 1, scan.position)
                   \o SubSeq(Content, scan.position + 1, Len(Content))
    BY <1>6, <2>1
  <2>3. /\ position \in 0..Len(Content) /\ scan.position \in position..Len(Content)
        /\ Len(Content) \in scan.position..Len(Content)
    BY <1>3, <1>4, <2>1
  <2> HIDE DEF position, buffer
  <2> QED BY <1>3, <2>2, <2>3, PiecesMeet
<1>8. Copied /\ line # <<>> => IsLastLine(line, Content)
  <2>1. position \in Nat /\ (Copied => position \in 0..Len(Content))
    BY <1>3, <1>4 DEF Copied
  <2> HIDE DEF position, buffer
  <2> QED BY <1>3, <1>7, <2>1, LineIsLast
<1> HIDE DEF position, buffer, line
<1>9. scan.before.mtime = Snapshot.mtime => Copied
  BY <1>1, <1>2 DEF Reading
<1>10. ~Twin => scan.before.mtime <= file.mtime
  BY <1>1, <1>2 DEF Reading
<1>11. CASE ends /\ scan' = [scan EXCEPT !.step = "after"] /\ inspection' = inspection
  <2>1. /\ scan' \in ScanStates /\ scan'.step = "after" /\ scan'.before = scan.before
        /\ scan'.position = scan.position /\ scan'.candidates = scan.candidates
        /\ scan'.buffer = scan.buffer /\ scan'.line = <<>>
    BY <1>2, <1>3, <1>11 DEF ScanStates
  <2>2. Content' = Content
    BY <1>1, <2>1, SameContent
  <2>3. Copied => Content = <<>>
    BY <1>3, <1>11, EmptySeq DEF Copied
  <2>4. Copied => Copied'
    BY <1>1, <2>1, <2>2, <2>3, EmptyHasNone DEF Copied
  <2> QED BY <1>1, <1>9, <1>10, <1>11, <2>1, <2>4, GoesOn
<1>12. CASE Unreadable
  BY <1>1, <1>12, UnreadableKeeps DEF Unreadable
<1>13. CASE scan' = [scan EXCEPT !.position = position, !.buffer = buffer]
              /\ inspection' = inspection
  <2>1. /\ scan' \in ScanStates /\ scan'.step = "read" /\ scan'.before = scan.before
        /\ scan'.position = position /\ scan'.candidates = scan.candidates
        /\ scan'.buffer = buffer /\ scan'.line = <<>>
    BY <1>1, <1>2, <1>3, <1>4, <1>6, <1>13 DEF ScanStates
  <2>2. Content' = Content
    BY <1>1, <2>1, SameContent
  <2>3. Copied => position <= Len(Content)
    BY <1>3, <1>4 DEF Copied
  <2>4. Copied => Copied'
    BY <1>1, <1>7, <2>1, <2>2, <2>3 DEF Copied
  <2> QED BY <1>1, <1>9, <1>10, <1>13, <2>1, <2>4, GoesOn
<1>14. CASE line # <<>> /\ scan' = [scan EXCEPT !.step = "after", !.line = line]
              /\ inspection' = inspection
  <2>1. /\ scan' \in ScanStates /\ scan'.step = "after" /\ scan'.before = scan.before
        /\ scan'.position = scan.position /\ scan'.candidates = scan.candidates
        /\ scan'.buffer = scan.buffer /\ scan'.line = line
    BY <1>2, <1>6, <1>14 DEF ScanStates
  <2>2. Content' = Content
    BY <1>1, <2>1, SameContent
  <2>3. Copied => Copied'
    BY <1>1, <1>8, <1>14, <2>1, <2>2 DEF Copied
  <2> QED BY <1>1, <1>9, <1>10, <1>14, <2>1, <2>3, GoesOn
<1> QED BY <1>5, <1>11, <1>12, <1>13, <1>14

LEMMA ReadForwardKeeps ==
  ASSUME TranscriptInv, ReadForward
  PROVE  TranscriptInv'
<1> DEFINE chunk == Bytes(scan.position, ReadChunkBytes)
           m == Min({Len(Content), scan.position + ReadChunkBytes})
<1>1. /\ Inspecting /\ task = "hash" /\ scan.step = "read"
      /\ task' = task /\ file' = file /\ inspection' = inspection
      /\ scan' = IF chunk = <<>> THEN [scan EXCEPT !.step = "after"]
                 ELSE [scan EXCEPT !.buffer = @ \o chunk, !.position = @ + Len(chunk)]
  BY DEF ReadForward
<1>2. TranscriptTyped /\ Reading /\ scan \in ScanStates
  BY DEF TranscriptInv, TranscriptTyped
<1>3. /\ Content \in Seq(Symbols) /\ Len(Content) \in Nat /\ ReadChunkBytes \in Nat \ {0}
      /\ scan.position \in Nat /\ scan.buffer \in Seq(Symbols) /\ scan.line = <<>>
  BY <1>1, <1>2, ContentTyped, TranscriptAssumption DEF ScanStates, Reading
<1>4. /\ m \in Nat /\ m <= Len(Content) /\ m <= scan.position + ReadChunkBytes
      /\ (m = Len(Content) \/ m = scan.position + ReadChunkBytes)
      /\ SubSeq(Content, scan.position + 1, m) \in Seq(Symbols)
  <2>1. ReadChunkBytes \in Nat /\ scan.position + ReadChunkBytes \in Nat
    BY <1>3
  <2>2. m = IF Len(Content) <= scan.position + ReadChunkBytes THEN Len(Content)
            ELSE scan.position + ReadChunkBytes
    BY <1>3, <2>1, Smaller
  <2> HIDE DEF m
  <2>3. /\ m \in Nat /\ m <= Len(Content) /\ m <= scan.position + ReadChunkBytes
        /\ (m = Len(Content) \/ m = scan.position + ReadChunkBytes)
    BY <1>3, <2>1, <2>2
  <2> QED BY <1>3, <2>3, Chunk
<1>5. chunk = SubSeq(Content, scan.position + 1, m)
  BY DEF Bytes
<1> HIDE DEF m, chunk
<1>6. chunk \in Seq(Symbols) /\ Len(chunk) \in Nat /\ scan.buffer \o chunk \in Seq(Symbols)
  BY <1>3, <1>4, <1>5, ConcatProperties
<1>7. chunk = <<>> => Len(chunk) = 0
  OBVIOUS
<1>8. /\ scan.before.mtime = Snapshot.mtime => Copied
      /\ ~Twin => scan.before.mtime <= file.mtime
  BY <1>1, <1>2 DEF Reading
<1>9. CASE chunk = <<>>
  <2>1. /\ scan' \in ScanStates /\ scan'.step = "after" /\ scan'.before = scan.before
        /\ scan'.position = scan.position /\ scan'.candidates = scan.candidates
        /\ scan'.buffer = scan.buffer
    BY <1>1, <1>2, <1>9 DEF ScanStates
  <2>2. Content' = Content
    BY <1>1, <2>1, SameContent
  <2>3. Copied => Copied'
    <3> SUFFICES ASSUME Copied PROVE Copied'
      OBVIOUS
    <3>1. /\ scan.before.size = Len(Content) /\ scan.position <= Len(Content)
          /\ scan.buffer = SubSeq(Content, 1, scan.position)
      BY <1>1 DEF Copied
    <3>2. scan.position = Len(Content)
      <4>1. m \in 0..Len(Content) /\ scan.position \in 0..m
        BY <1>3, <1>4, <3>1
      <4>2. m - scan.position = 0
        BY <1>3, <1>5, <1>7, <1>9, <4>1, ChunkLength
      <4> QED BY <1>3, <1>4, <4>1, <4>2
    <3>3. scan.buffer = Content
      BY <1>3, <3>1, <3>2, SubSeqFull
    <3> QED BY <1>1, <2>1, <2>2, <3>1, <3>3 DEF Copied
  <2> QED BY <1>1, <1>8, <2>1, <2>3, GoesOn
<1>10. CASE chunk # <<>>
  <2>1. /\ scan' \in ScanStates /\ scan'.step = "read" /\ scan'.before = scan.before
        /\ scan'.position = scan.position + Len(chunk) /\ scan'.candidates = scan.candidates
        /\ scan'.buffer = scan.buffer \o chunk /\ scan'.line = <<>>
    <3>1. scan.position + Len(chunk) \in Nat
      BY <1>3, <1>6
    <3>2. scan' = [scan EXCEPT !.buffer = scan.buffer \o chunk,
                               !.position = scan.position + Len(chunk)]
      BY <1>1, <1>2, <1>10 DEF ScanStates
    <3> QED BY <1>1, <1>2, <1>3, <1>6, <3>1, <3>2 DEF ScanStates
  <2>2. Content' = Content
    BY <1>1, <2>1, SameContent
  <2>3. Copied => Copied'
    <3> SUFFICES ASSUME Copied PROVE Copied'
      OBVIOUS
    <3>1. /\ scan.before.size = Len(Content) /\ scan.position <= Len(Content)
          /\ scan.buffer = SubSeq(Content, 1, scan.position)
      BY <1>1 DEF Copied
    <3>2. m \in scan.position..Len(Content) /\ scan.position + Len(chunk) = m
      <4>1. ReadChunkBytes \in Nat /\ scan.position <= m
        BY <1>3, <1>4, <3>1
      <4>2. m \in 0..Len(Content) /\ scan.position \in 0..m
        BY <1>3, <1>4, <4>1
      <4>3. Len(chunk) = m - scan.position
        BY <1>3, <1>5, <4>2, ChunkLength
      <4> QED BY <1>3, <1>4, <4>2, <4>3
    <3>3. SubSeq(Content, 1, scan.position) \o SubSeq(Content, scan.position + 1, m)
            = SubSeq(Content, 1, m)
      <4>1. 0 \in 0..Len(Content) /\ scan.position \in 0..Len(Content) /\ 0 + 1 = 1
        BY <1>3, <3>1
      <4>2. SubSeq(Content, 0 + 1, scan.position) \o SubSeq(Content, scan.position + 1, m)
              = SubSeq(Content, 0 + 1, m)
        BY <1>3, <3>2, <4>1, PiecesMeet
      <4> QED BY <4>1, <4>2
    <3>4. scan'.buffer = SubSeq(Content, 1, scan'.position)
      BY <1>5, <2>1, <3>1, <3>2, <3>3
    <3>5. scan'.position <= Len(Content)
      BY <1>3, <2>1, <3>2
    <3> QED BY <1>1, <2>1, <2>2, <3>1, <3>4, <3>5 DEF Copied
  <2> QED BY <1>1, <1>8, <2>1, <2>3, GoesOn
<1> QED BY <1>9, <1>10

LEMMA AfterKeeps ==
  ASSUME TranscriptInv, After
  PROVE  TranscriptInv'
<1>1. Inspecting /\ TranscriptTyped /\ Searched /\ Reading /\ scan \in ScanStates
  BY DEF After, TranscriptInv, TranscriptTyped
<1>2. CASE Lost("after")
  BY <1>1, <1>2, UnreadableKeeps DEF Lost
<1>3. CASE /\ scan.step = "after"
           /\ LET stable == SameSnapshot(scan.before, Snapshot)
              IN IF task = "inspect" THEN Inspected("found", scan.line, stable)
                 ELSE IF stable THEN Inspected("hashed", scan.buffer, TRUE)
                 ELSE Inspected("unreadable", <<>>, FALSE)
           /\ UNCHANGED <<task, file, scan>>
  <2> DEFINE stable == scan.before = Snapshot
  <2>1. task' = task /\ file' = file /\ scan' = scan /\ scan.step # "walk"
    BY <1>3
  <2>2. \/ task = "inspect" /\ inspection' = [status |-> "found", record |-> scan.line,
                                              stable |-> stable]
        \/ /\ task = "hash" /\ stable
           /\ inspection' = [status |-> "hashed", record |-> scan.buffer, stable |-> TRUE]
        \/ Inspected("unreadable", <<>>, FALSE)
    BY <1>1, <1>3 DEF Inspected, SameSnapshot, TranscriptTyped
  <2>3. stable => Copied
    BY <1>1, <1>3 DEF Reading
  <2>4. stable \in BOOLEAN /\ scan.line \in Seq(Symbols) /\ scan.buffer \in Seq(Symbols)
    BY <1>1 DEF ScanStates
  <2> HIDE DEF stable
  <2>5. CASE task = "inspect" /\ inspection' = [status |-> "found", record |-> scan.line,
                                                stable |-> stable]
    <3>1. /\ inspection' \in Verdicts /\ inspection'.status = "found"
          /\ inspection'.record = scan.line /\ inspection'.stable = stable
      BY <2>4, <2>5 DEF Verdicts
    <3>2. stable => IsLastLine(scan.line, Content)
      BY <1>3, <2>3, <2>5 DEF Copied
    <3> QED BY <1>1, <2>1, <3>1, <3>2, VerdictKeeps
  <2>6. CASE /\ task = "hash" /\ stable
             /\ inspection' = [status |-> "hashed", record |-> scan.buffer, stable |-> TRUE]
    <3>1. /\ inspection' \in Verdicts /\ inspection'.status = "hashed"
          /\ inspection'.record = scan.buffer
      BY <2>4, <2>6 DEF Verdicts
    <3>2. ~Twin
      BY <1>1, <2>6, ContentTyped DEF Searched
    <3>3. scan.buffer = file.content
      BY <1>3, <2>3, <2>6, <3>2 DEF Copied, Content
    <3> QED BY <1>1, <2>1, <3>1, <3>3, VerdictKeeps
  <2>7. CASE Inspected("unreadable", <<>>, FALSE)
    BY <1>1, <2>1, <2>7, UnreadableKeeps
  <2> QED BY <2>2, <2>5, <2>6, <2>7
<1> QED BY <1>2, <1>3 DEF After

LEMMA TranscriptKeeps ==
  ASSUME TranscriptInv, [SourcesNext]_sourcesVars
  PROVE  TranscriptInv'
<1>1. CASE UNCHANGED transcriptVars
  BY <1>1, TranscriptStays
<1>2. CASE TranscriptStep
  <2>1. ASSUME NEW directory \in Directories, Walk(directory) PROVE TranscriptInv'
    BY <2>1, WalkKeeps
  <2> QED BY <1>2, <2>1, CodexKeeps, ChooseKeeps, BeforeKeeps, ReadBackwardKeeps,
             ReadForwardKeeps, AfterKeeps DEF TranscriptStep
<1> QED BY <1>1, <1>2 DEF SourcesNext, sourcesVars, Runs, Concluding, Scanning
-----------------------------------------------------------------------------
(* Loops over a sequence.                                                  *)

\* Induction over the numbers up to a bound, without an operator parameter.
LEMMA UpTo ==
  ASSUME NEW n \in Nat, NEW T, 0 \in T,
         \A k \in 0..(n - 1) : k \in T => k + 1 \in T
  PROVE  \A k \in 0..n : k \in T
<1> DEFINE Missed == {k \in 0..n : k \notin T}
<1> SUFFICES ASSUME Missed # {} PROVE FALSE
  OBVIOUS
<1>1. IsWellFoundedOn(OpToRel(<, Nat), Nat)
  BY NatLessThanWellFounded
<1>2. Missed \subseteq Nat
  OBVIOUS
<1>3. PICK m \in Missed : \A k \in Missed : <<k, m>> \notin OpToRel(<, Nat)
  <2> HIDE DEF Missed
  <2> QED BY <1>1, <1>2, WFMin
<1>4. \A k \in Missed : ~(k < m)
  BY <1>2, <1>3 DEF OpToRel
<1>5. m # 0 /\ m - 1 \in 0..(n - 1)
  OBVIOUS
<1>6. m - 1 \notin Missed
  BY <1>4, <1>5
<1> QED BY <1>5, <1>6

\* f[k] is the state of a loop after k elements of the sequence s.
Loop(f, S, base, turn, s) ==
  /\ f \in [0..Len(s) -> S]
  /\ f[0] = base
  /\ \A k \in 1..Len(s) : f[k] = turn[<<f[k - 1], s[k]>>]

LEMMA LoopExists ==
  ASSUME NEW S, NEW R, NEW base \in S, NEW turn \in [S \X R -> S], NEW s \in Seq(R)
  PROVE  \E f : Loop(f, S, base, turn, s)
<1> DEFINE n == Len(s)
           Runs0(f, m) == /\ f \in [0..m -> S] /\ f[0] = base
                          /\ \A k \in 1..m : f[k] = turn[<<f[k - 1], s[k]>>]
           Done == {m \in 0..n : \E f : Runs0(f, m)}
<1>1. 0 \in Done
  <2>1. Runs0([k \in 0..0 |-> base], 0)
    OBVIOUS
  <2>2. 0 \in 0..n
    OBVIOUS
  <2> QED BY <2>1, <2>2
<1>2. ASSUME NEW m \in 0..(n - 1), m \in Done PROVE m + 1 \in Done
  <2>1. PICK f : Runs0(f, m)
    BY <1>2
  <2> DEFINE g == [k \in 0..(m + 1) |-> IF k = m + 1 THEN turn[<<f[m], s[m + 1]>>] ELSE f[k]]
  <2>2. turn[<<f[m], s[m + 1]>>] \in S
    <3>1. f[m] \in S /\ s[m + 1] \in R
      BY <2>1
    <3> QED BY <3>1
  <2>3. g \in [0..(m + 1) -> S]
    BY <2>1, <2>2
  <2>4. g[0] = base /\ g[m + 1] = turn[<<f[m], s[m + 1]>>] /\ \A k \in 0..m : g[k] = f[k]
    BY <2>1
  <2> HIDE DEF g
  <2>5. \A k \in 1..(m + 1) : g[k] = turn[<<g[k - 1], s[k]>>]
    <3> SUFFICES ASSUME NEW k \in 1..(m + 1) PROVE g[k] = turn[<<g[k - 1], s[k]>>]
      OBVIOUS
    <3>1. CASE k = m + 1
      <4> k - 1 = m
        BY <3>1
      <4> QED BY <3>1, <2>4
    <3>2. CASE k # m + 1
      <4>1. k \in 1..m /\ k - 1 \in 0..m
        BY <3>2
      <4>2. f[k] = turn[<<f[k - 1], s[k]>>]
        BY <2>1, <4>1
      <4>3. g[k] = f[k] /\ g[k - 1] = f[k - 1]
        BY <2>4, <4>1
      <4> QED BY <4>2, <4>3, Zenon
    <3> QED BY <3>1, <3>2
  <2>6. m + 1 \in 0..n
    OBVIOUS
  <2>7. Runs0(g, m + 1)
    BY <2>3, <2>4, <2>5
  <2> QED BY <2>6, <2>7
<1>3. n \in Done
  <2>1. n \in Nat
    OBVIOUS
  <2> HIDE DEF Done, n
  <2>2. \A k \in 0..n : k \in Done
    BY <1>1, <1>2, <2>1, UpTo
  <2> QED BY <2>1, <2>2
<1> QED BY <1>3 DEF Loop

-----------------------------------------------------------------------------
(* classifyCodexMode takes the arguments one by one.                        *)

Modes == {"interactive", "exec", "resume"}
ValuedOptions == RootValueOptions \cup ExecValueOptions
Tokens ==
  [mode : Modes, chosen : BOOLEAN, literal : BOOLEAN, operands : Nat, cyber : BOOLEAN,
   wants : {"none"} \cup ValuedOptions, verdict : {"unshared", "shared", "error"}]

LEMMA NoTokenTyped == NoToken \in Tokens
BY DEF NoToken, Tokens, Modes

\* What the values of attached options are.
LEMMA AttachedAre ==
  /\ DOMAIN Attached = {"--model=v", "--cyber=standard"}
  /\ Attached["--model=v"][1] = "--model" /\ Attached["--model=v"][2] = "v"
  /\ Attached["--cyber=standard"][1] = "--cyber" /\ Attached["--cyber=standard"][2] = "standard"
<1> DEFINE value(t) == IF t = "--model=v" THEN <<"--model", "v">> ELSE <<"--cyber", "standard">>
<1>1. Attached = [t \in {"--model=v", "--cyber=standard"} |-> value(t)]
  BY DEF Attached
<1>2. /\ value("--model=v") = <<"--model", "v">>
      /\ value("--cyber=standard") = <<"--cyber", "standard">>
  OBVIOUS
<1> HIDE DEF value
<1>3. /\ DOMAIN Attached = {"--model=v", "--cyber=standard"}
      /\ Attached["--model=v"] = <<"--model", "v">>
      /\ Attached["--cyber=standard"] = <<"--cyber", "standard">>
  BY <1>1, <1>2
<1> QED BY <1>3

LEMMA DecidedTyped ==
  ASSUME NEW s \in Tokens, NEW v \in {"shared", "error"}
  PROVE  Decided(s, v) \in Tokens /\ Decided(s, v).verdict = v
BY DEF Decided, Tokens

LEMMA TakeValueTyped ==
  ASSUME NEW s \in Tokens, NEW option, NEW v
  PROVE  TakeValue(s, option, v) \in Tokens
<1>1. [s EXCEPT !.wants = "none"] \in Tokens
  BY DEF Tokens
<1>2. [s EXCEPT !.wants = "none", !.cyber = s.cyber \/ option = "--cyber"] \in Tokens
  <2> DEFINE c == s.cyber \/ option = "--cyber"
  <2>1. c \in BOOLEAN
    OBVIOUS
  <2> HIDE DEF c
  <2>2. [s EXCEPT !.wants = "none", !.cyber = c] \in Tokens
    BY <2>1 DEF Tokens
  <2> QED BY <2>2 DEF c
<1>3. \/ TakeValue(s, option, v) = Decided([s EXCEPT !.wants = "none"], "error")
      \/ TakeValue(s, option, v) =
           [s EXCEPT !.wants = "none", !.cyber = s.cyber \/ option = "--cyber"]
  BY DEF TakeValue, Tokens
<1> QED BY <1>1, <1>2, <1>3, DecidedTyped

LEMMA TakePromptTyped ==
  ASSUME NEW s \in Tokens, NEW t
  PROVE  TakePrompt(s, t) \in Tokens
<1>1. s.operands \in Nat
  BY DEF Tokens
<1>2. [s EXCEPT !.operands = s.operands + 1] \in Tokens
  BY <1>1 DEF Tokens
<1>3. \/ TakePrompt(s, t) = Decided(s, "error")
      \/ TakePrompt(s, t) = [s EXCEPT !.operands = s.operands + 1]
  BY DEF TakePrompt, Tokens
<1> QED BY <1>2, <1>3, DecidedTyped

LEMMA TakeTokenTyped ==
  ASSUME NEW s \in Tokens, NEW t
  PROVE  TakeToken(s, t) \in Tokens
<1>1. [s EXCEPT !.literal = TRUE] \in Tokens
  BY DEF Tokens
<1>2. [s EXCEPT !.chosen = TRUE] \in Tokens
  BY DEF Tokens
<1>3. t \in {"exec", "resume"} => [s EXCEPT !.chosen = TRUE, !.mode = t] \in Tokens
  BY DEF Tokens, Modes
<1>4. \A v \in {"shared", "error"} : Decided(s, v) \in Tokens
  BY DecidedTyped
<1>5. FirstOperand(s, t) \in Tokens
  BY <1>2, <1>3, <1>4, TakePromptTyped DEF FirstOperand
<1>6. TakeOption(s, t) \in Tokens
  <2> DEFINE option == IF t \in DOMAIN Attached THEN Attached[t][1] ELSE t
  <2>1. option \in ValueOptions(s.mode) => [s EXCEPT !.wants = option] \in Tokens
    <3>1. option \in ValueOptions(s.mode) => option \in ValuedOptions
      BY DEF ValueOptions, ValuedOptions
    <3> HIDE DEF option
    <3> QED BY <3>1 DEF Tokens
  <2>2. \/ TakeOption(s, t) = Decided(s, "shared") \/ TakeOption(s, t) = Decided(s, "error")
        \/ TakeOption(s, t) = s
        \/ TakeOption(s, t) = TakeValue(s, option, Attached[t][2])
        \/ option \in ValueOptions(s.mode) /\ TakeOption(s, t) = [s EXCEPT !.wants = option]
    <3> USE DEF TakeOption
    <3> QED OBVIOUS
  <2> HIDE DEF option
  <2> QED BY <1>4, <2>1, <2>2, TakeValueTyped
<1> QED BY <1>1, <1>5, <1>6, TakeValueTyped, TakePromptTyped DEF TakeToken

TokenRun(w, f) ==
  /\ f \in [0..Len(w) -> Tokens]
  /\ f[0] = NoToken
  /\ \A k \in 1..Len(w) : f[k] = TakeToken(f[k - 1], w[k])

LEMMA TokenRuns ==
  ASSUME NEW w \in Seq(Words)
  PROVE  \E f : TokenRun(w, f) /\ TakeTokens(w) = f[Len(w)]
<1> DEFINE turn == [p \in Tokens \X Words |-> TakeToken(p[1], p[2])]
           Follows(f) == f = [n \in 0..Len(w) |->
                                IF n = 0 THEN NoToken ELSE TakeToken(f[n - 1], w[n])]
           after == CHOOSE f : Follows(f)
<1>1. turn \in [Tokens \X Words -> Tokens]
  BY TakeTokenTyped
<1>2. \A s \in Tokens, x \in Words : turn[<<s, x>>] = TakeToken(s, x)
  OBVIOUS
<1> HIDE DEF turn
<1>3. PICK g : Loop(g, Tokens, NoToken, turn, w)
  BY <1>1, NoTokenTyped, LoopExists
<1>4. ASSUME NEW k \in 1..Len(w) PROVE g[k] = TakeToken(g[k - 1], w[k])
  <2>1. g[k - 1] \in Tokens /\ w[k] \in Words
    BY <1>3 DEF Loop
  <2> QED BY <1>2, <1>3, <2>1 DEF Loop
<1>5. TokenRun(w, g)
  BY <1>3, <1>4 DEF TokenRun, Loop
<1>6. Follows(g)
  <2>1. ASSUME NEW k \in 0..Len(w)
        PROVE  g[k] = IF k = 0 THEN NoToken ELSE TakeToken(g[k - 1], w[k])
    <3>1. k # 0 => k \in 1..Len(w)
      OBVIOUS
    <3> QED BY <1>5, <3>1 DEF TokenRun
  <2>2. g = [k \in 0..Len(w) |-> g[k]]
    BY <1>3 DEF Loop
  <2> QED BY <2>1, <2>2
<1>7. Follows(after)
  <2> HIDE DEF Follows
  <2> QED BY <1>6
<1>8. TakeTokens(w) = after[Len(w)]
  BY DEF TakeTokens
<1> HIDE DEF after
<1>9. \A k \in 0..Len(w) : after[k] = g[k]
  <2> DEFINE T == {k \in 0..Len(w) : after[k] = g[k]}
  <2>1. \A k \in 0..Len(w) : after[k] = IF k = 0 THEN NoToken ELSE TakeToken(after[k - 1], w[k])
    BY <1>7, Zenon
  <2>2. 0 \in T
    BY <1>5, <2>1 DEF TokenRun
  <2>3. ASSUME NEW k \in 0..(Len(w) - 1), k \in T PROVE k + 1 \in T
    <3>1. k + 1 \in 1..Len(w) /\ (k + 1) - 1 = k /\ after[k] = g[k] /\ k + 1 \in 0..Len(w)
      BY <2>3
    <3>2. g[k + 1] = TakeToken(g[k], w[k + 1])
      BY <1>5, <3>1 DEF TokenRun
    <3>3. after[k + 1] = TakeToken(after[k], w[k + 1])
      BY <2>1, <3>1
    <3> QED BY <3>1, <3>2, <3>3
  <2>4. Len(w) \in Nat
    OBVIOUS
  <2> HIDE DEF T
  <2>5. \A k \in 0..Len(w) : k \in T
    BY <2>2, <2>3, <2>4, UpTo
  <2> QED BY <2>5 DEF T
<1>10. Len(w) \in 0..Len(w)
  OBVIOUS
<1> QED BY <1>5, <1>8, <1>9, <1>10

-----------------------------------------------------------------------------
(* The reviewed grammar, which Accepted states of the whole of argv.        *)

LEMMA LeastIsOne ==
  ASSUME NEW S, S \subseteq Nat, S # {}
  PROVE  Min(S) \in S /\ \A y \in S : Min(S) <= y
<1>1. IsWellFoundedOn(OpToRel(<, Nat), Nat)
  BY NatLessThanWellFounded
<1>2. PICK m \in S : \A k \in S : <<k, m>> \notin OpToRel(<, Nat)
  BY <1>1, WFMin
<1>3. \A k \in S : ~(k < m)
  BY <1>2 DEF OpToRel
<1>4. \E x \in S : \A y \in S : x =< y
  BY <1>3
<1> QED BY <1>4 DEF Min

LiteralOf(w) == Min({i \in DOMAIN w : w[i] = "--"} \cup {Len(w) + 1})
OptionsOf(w) == {i \in DOMAIN w : i < LiteralOf(w) /\ w[i] \in Options}
NameAt(w, i) == IF w[i] \in DOMAIN Attached THEN Attached[w[i]][1] ELSE w[i]
ValuesOf(w) == {i + 1 : i \in {j \in OptionsOf(w) : w[j] \in ValuedOptions}}
OperandsOf(w) == DOMAIN w \ (OptionsOf(w) \cup ValuesOf(w) \cup {LiteralOf(w)})
FirstOf(w) == Min(OperandsOf(w) \cup {Len(w) + 1})
ModeOf(w) ==
  IF FirstOf(w) < LiteralOf(w) /\ FirstOf(w) < Len(w) + 1 /\ w[FirstOf(w)] \in {"exec", "resume"}
  THEN w[FirstOf(w)] ELSE "interactive"
ScopeAt(w, i) == IF i > FirstOf(w) THEN ModeOf(w) ELSE "interactive"
PromptsOf(w) ==
  IF ModeOf(w) = "interactive" THEN OperandsOf(w) ELSE OperandsOf(w) \ {FirstOf(w)}
CyberOf(w) == {i \in OptionsOf(w) : NameAt(w, i) = "--cyber"}

\* What is no first operand.
Refused == SharedModes \cup OtherModes \cup (ServiceWords \ Prompts)

LEMMA AcceptedMeans ==
  ASSUME NEW w
  PROVE  Accepted(w) <=>
           /\ \A i \in OptionsOf(w) :
                NameAt(w, i) \in ValueOptions(ScopeAt(w, i)) \/ w[i] \in Flags(ScopeAt(w, i))
           /\ \A i \in ValuesOf(w) : i \in DOMAIN w /\ ~Dashed(w[i])
           /\ Cardinality(CyberOf(w)) <= 1
           /\ \A i \in CyberOf(w) : w[i] = "--cyber" => w[i + 1] = "standard"
           /\ FirstOf(w) = Len(w) + 1 \/ w[FirstOf(w)] \notin Refused
           /\ (ModeOf(w) = "exec" /\ PromptsOf(w) # {}) =>
                w[Min(PromptsOf(w))] \notin {"resume", "review"}
           /\ Cardinality(PromptsOf(w)) <= IF ModeOf(w) = "resume" THEN 2 ELSE 1
BY DEF Accepted, LiteralOf, OptionsOf, NameAt, ValuesOf, OperandsOf, FirstOf, ModeOf, ScopeAt,
       PromptsOf, CyberOf, Refused, ValuedOptions

LEMMA LiteralIs ==
  ASSUME NEW w \in Seq(Words)
  PROVE  /\ LiteralOf(w) \in 1..(Len(w) + 1)
         /\ LiteralOf(w) # Len(w) + 1 => w[LiteralOf(w)] = "--"
         /\ \A i \in 1..Len(w) : w[i] = "--" => LiteralOf(w) <= i
<1> DEFINE S == {i \in DOMAIN w : w[i] = "--"} \cup {Len(w) + 1}
<1>1. Len(w) \in Nat /\ DOMAIN w = 1..Len(w)
  OBVIOUS
<1>2. S \subseteq Nat /\ S # {}
  BY <1>1
<1>3. Min(S) \in S /\ \A y \in S : Min(S) <= y
  <2> HIDE DEF S
  <2> QED BY <1>2, LeastIsOne
<1>4. LiteralOf(w) = Min(S)
  BY DEF LiteralOf
<1>5. LiteralOf(w) \in S /\ \A y \in S : LiteralOf(w) <= y
  BY <1>3, <1>4
<1> HIDE <1>4
<1> QED BY <1>1, <1>5

LEMMA FirstIs ==
  ASSUME NEW w \in Seq(Words)
  PROVE  /\ FirstOf(w) \in 1..(Len(w) + 1)
         /\ FirstOf(w) # Len(w) + 1 => FirstOf(w) \in OperandsOf(w)
         /\ \A i \in OperandsOf(w) : i \in 1..Len(w) /\ FirstOf(w) <= i
<1> DEFINE S == OperandsOf(w) \cup {Len(w) + 1}
<1>1. Len(w) \in Nat /\ OperandsOf(w) \subseteq 1..Len(w)
  BY DEF OperandsOf
<1>2. S \subseteq Nat /\ S # {}
  BY <1>1
<1>3. Min(S) \in S /\ \A y \in S : Min(S) <= y
  <2> HIDE DEF S
  <2> QED BY <1>2, LeastIsOne
<1>4. FirstOf(w) = Min(S)
  BY DEF FirstOf
<1>5. FirstOf(w) \in S /\ \A y \in S : FirstOf(w) <= y
  BY <1>3, <1>4
<1> HIDE <1>4
<1> QED BY <1>1, <1>5

\* The role of the next argument, told by those before it.
LEMMA RoleOf ==
  ASSUME NEW w \in Seq(Words), NEW n \in Nat, n + 1 \in 1..Len(w)
  PROVE  /\ n + 1 \in OptionsOf(w) <=> (n + 1 < LiteralOf(w) /\ w[n + 1] \in Options)
         /\ n + 1 \in ValuesOf(w) <=> (n \in OptionsOf(w) /\ w[n] \in ValuedOptions)
         /\ n + 1 \in OperandsOf(w) <=>
              /\ n + 1 \notin OptionsOf(w) /\ n + 1 \notin ValuesOf(w)
              /\ n + 1 # LiteralOf(w)
         /\ (w[n + 1] = "--" /\ ~(LiteralOf(w) <= n)) => LiteralOf(w) = n + 1
         /\ LiteralOf(w) = n + 1 => w[n + 1] = "--"
<1>1. Len(w) \in Nat /\ DOMAIN w = 1..Len(w)
  OBVIOUS
<1>2. /\ LiteralOf(w) \in 1..(Len(w) + 1)
      /\ LiteralOf(w) # Len(w) + 1 => w[LiteralOf(w)] = "--"
      /\ \A i \in 1..Len(w) : w[i] = "--" => LiteralOf(w) <= i
  BY LiteralIs
<1>3. n + 1 \in OptionsOf(w) <=> (n + 1 < LiteralOf(w) /\ w[n + 1] \in Options)
  BY <1>1 DEF OptionsOf
<1>4. n + 1 \in ValuesOf(w) <=> (n \in OptionsOf(w) /\ w[n] \in ValuedOptions)
  <2>1. \A i \in OptionsOf(w) : i \in Nat
    BY <1>1 DEF OptionsOf
  <2>2. \A i \in Nat : i + 1 = n + 1 => i = n
    OBVIOUS
  <2> QED BY <2>1, <2>2 DEF ValuesOf
<1>5. n + 1 \in OperandsOf(w) <=>
              /\ n + 1 \notin OptionsOf(w) /\ n + 1 \notin ValuesOf(w)
              /\ n + 1 # LiteralOf(w)
  BY <1>1 DEF OperandsOf
<1>6. (w[n + 1] = "--" /\ ~(LiteralOf(w) <= n)) => LiteralOf(w) = n + 1
  BY <1>1, <1>2
<1>7. LiteralOf(w) = n + 1 => w[n + 1] = "--"
  BY <1>1, <1>2
<1> QED BY <1>3, <1>4, <1>5, <1>6, <1>7

PromptsUpTo(w, n) == {p \in PromptsOf(w) : p <= n}

\* The options --cyber whose values have been taken.
CyberTaken(w, n) == {i \in CyberOf(w) : i <= n /\ (w[i] = "--cyber" => i + 1 <= n)}

\* What the state of the loop says about the first n arguments, of which none
\* is against the grammar.
TellsOptions(w, n, s) ==
  /\ s.literal <=> LiteralOf(w) <= n
  /\ s.wants = IF n \in OptionsOf(w) /\ w[n] \in ValuedOptions THEN w[n] ELSE "none"
  /\ \A i \in OptionsOf(w) : i <= n =>
       NameAt(w, i) \in ValueOptions(ScopeAt(w, i)) \/ w[i] \in Flags(ScopeAt(w, i))
  /\ \A i \in ValuesOf(w) : i <= n => ~Dashed(w[i])

TellsOperands(w, n, s) ==
  /\ s.chosen <=> FirstOf(w) <= n
  /\ s.mode = IF FirstOf(w) <= n THEN ModeOf(w) ELSE "interactive"
  /\ s.operands = Cardinality(PromptsUpTo(w, n))
  /\ s.operands <= OperandLimit(ModeOf(w))
  /\ FirstOf(w) <= n => w[FirstOf(w)] \notin Refused
  /\ ModeOf(w) = "exec" => \A p \in PromptsUpTo(w, n) :
       (\A q \in PromptsOf(w) : p <= q) => w[p] \notin {"resume", "review"}

TellsCyber(w, n, s) ==
  /\ s.cyber <=> CyberTaken(w, n) # {}
  /\ \A i, j \in CyberTaken(w, n) : i = j
  /\ \A i \in CyberTaken(w, n) : w[i] = "--cyber" => w[i + 1] = "standard"

Tells(w, n, s) == TellsOptions(w, n, s) /\ TellsOperands(w, n, s) /\ TellsCyber(w, n, s)

\* A verdict stands only against arguments that are not accepted.
Judged(w, n, s) == IF s.verdict = "unshared" THEN Tells(w, n, s) ELSE ~Accepted(w)

LEMMA WithinArguments ==
  ASSUME NEW w \in Seq(Words)
  PROVE  /\ OptionsOf(w) \subseteq 1..Len(w) /\ CyberOf(w) \subseteq OptionsOf(w)
         /\ OperandsOf(w) \subseteq 1..Len(w) /\ PromptsOf(w) \subseteq OperandsOf(w)
         /\ Len(w) \in Nat
         /\ IsFiniteSet(CyberOf(w)) /\ IsFiniteSet(PromptsOf(w))
         /\ \A n : IsFiniteSet(PromptsUpTo(w, n))
<1>1. Len(w) \in Nat /\ DOMAIN w = 1..Len(w)
  OBVIOUS
<1>2. /\ OptionsOf(w) \subseteq 1..Len(w) /\ CyberOf(w) \subseteq OptionsOf(w)
      /\ OperandsOf(w) \subseteq 1..Len(w) /\ PromptsOf(w) \subseteq OperandsOf(w)
  BY <1>1 DEF OptionsOf, CyberOf, OperandsOf, PromptsOf
<1>3. IsFiniteSet(1..Len(w))
  BY <1>1, FS_Interval
<1>4. IsFiniteSet(CyberOf(w)) /\ IsFiniteSet(PromptsOf(w))
  BY <1>2, <1>3, FS_Subset
<1>5. \A n : IsFiniteSet(PromptsUpTo(w, n))
  <2> TAKE n
  <2>1. PromptsUpTo(w, n) \in SUBSET PromptsOf(w)
    BY DEF PromptsUpTo
  <2> QED BY <1>4, <2>1, FS_Subset
<1> QED BY <1>1, <1>2, <1>4, <1>5

LEMMA OneCyber ==
  ASSUME NEW w \in Seq(Words)
  PROVE  Cardinality(CyberOf(w)) <= 1 <=> \A i, j \in CyberOf(w) : i = j
<1> DEFINE C == CyberOf(w)
<1>1. IsFiniteSet(C)
  BY WithinArguments
<1> HIDE DEF C
<1>2. Cardinality(C) \in Nat
  BY <1>1, FS_CardinalityType
<1>3. Cardinality(C) = 0 <=> C = {}
  BY <1>1, FS_EmptySet
<1>4. Cardinality(C) = 1 <=> \E x : C = {x}
  BY <1>1, FS_Singleton
<1>5. Cardinality(C) <= 1 <=> (Cardinality(C) = 0 \/ Cardinality(C) = 1)
  BY <1>2
<1>6. (\A i, j \in C : i = j) <=> (C = {} \/ \E x : C = {x})
  <2>1. ASSUME \A i, j \in C : i = j, C # {} PROVE \E x : C = {x}
    <3>1. PICK x \in C : TRUE
      BY <2>1
    <3>2. C = {x}
      BY <2>1, <3>1
    <3> QED BY <3>2
  <2>2. ASSUME NEW x, C = {x} PROVE \A i, j \in C : i = j
    BY <2>2
  <2> QED BY <2>1, <2>2
<1>7. Cardinality(C) <= 1 <=> \A i, j \in C : i = j
  BY <1>3, <1>4, <1>5, <1>6
<1> QED BY <1>7 DEF C

\* An argument that is no operand.
LEMMA NoOperandKeeps ==
  ASSUME NEW w \in Seq(Words), NEW n \in Nat, n + 1 \in 1..Len(w), n + 1 \notin OperandsOf(w),
         NEW s, NEW r, TellsOperands(w, n, s),
         r.chosen = s.chosen, r.mode = s.mode, r.operands = s.operands
  PROVE  TellsOperands(w, n + 1, r)
<1>1. FirstOf(w) \in Nat /\ FirstOf(w) # n + 1
  BY FirstIs, WithinArguments
<1>2. FirstOf(w) <= n + 1 <=> FirstOf(w) <= n
  BY <1>1
<1>3. PromptsUpTo(w, n + 1) = PromptsUpTo(w, n)
  <2>1. \A p \in PromptsOf(w) : p \in Nat /\ p # n + 1
    BY WithinArguments
  <2>2. \A p \in PromptsOf(w) : p <= n + 1 <=> p <= n
    BY <2>1
  <2> QED BY <2>2 DEF PromptsUpTo
<1> QED BY <1>2, <1>3 DEF TellsOperands

\* An argument that completes no option --cyber.
LEMMA NoCyberKeeps ==
  ASSUME NEW w \in Seq(Words), NEW n \in Nat, n + 1 \in 1..Len(w),
         n + 1 \in CyberOf(w) => w[n + 1] = "--cyber",
         ~(n \in CyberOf(w) /\ w[n] = "--cyber"),
         NEW s, NEW r, TellsCyber(w, n, s), r.cyber = s.cyber
  PROVE  TellsCyber(w, n + 1, r)
<1>1. \A i \in CyberOf(w) : i \in Nat /\ (i = n + 1 => w[i] = "--cyber")
  BY WithinArguments
<1>2. \A i \in CyberOf(w) : (i <= n + 1 /\ (w[i] = "--cyber" => i + 1 <= n + 1))
                              <=> (i <= n /\ (w[i] = "--cyber" => i + 1 <= n))
  <2> TAKE i \in CyberOf(w)
  <2>1. i \in Nat /\ (i = n + 1 => w[i] = "--cyber") /\ (w[i] = "--cyber" => i # n)
    BY <1>1
  <2> QED BY <2>1
<1>3. CyberTaken(w, n + 1) = CyberTaken(w, n)
  BY <1>2 DEF CyberTaken
<1> QED BY <1>3 DEF TellsCyber

\* Without a value left to take, no --cyber is open.
LEMMA CyberGrows ==
  ASSUME NEW w \in Seq(Words), NEW n \in Nat, NEW x \in CyberOf(w),
         CyberTaken(w, n) = {}, CyberTaken(w, n + 1) = {x},
         w[x] = "--cyber" => w[x + 1] = "standard", NEW r, r.cyber
  PROVE  TellsCyber(w, n + 1, r)
BY DEF TellsCyber

\* The value of an option.
LEMMA ValueJudged ==
  ASSUME NEW w \in Seq(Words), NEW n \in Nat, n + 1 \in 1..Len(w),
         NEW s \in Tokens, s.verdict = "unshared", Tells(w, n, s), s.wants # "none",
         NEW r, r = TakeValue(s, s.wants, w[n + 1])
  PROVE  Judged(w, n + 1, r)
<1> DEFINE t == w[n + 1]
<1>1. n \in OptionsOf(w) /\ w[n] \in ValuedOptions /\ s.wants = w[n] /\ n \in 1..Len(w)
  BY WithinArguments DEF Tells, TellsOptions
<1>2. n + 1 \in ValuesOf(w) /\ n + 1 \notin OperandsOf(w)
  BY <1>1, RoleOf
<1>3. w[n] = "--cyber" <=> (n \in CyberOf(w) /\ w[n] = "--cyber")
  <2>1. w[n] = "--cyber" => NameAt(w, n) = "--cyber"
    BY AttachedAre DEF NameAt
  <2> QED BY <1>1, <2>1 DEF CyberOf
<1>4. CASE Dashed(t)
  <2>1. r.verdict = "error"
    BY <1>4 DEF TakeValue, Decided, Tokens
  <2>2. ~Accepted(w)
    BY <1>2, <1>4, AcceptedMeans
  <2> QED BY <2>1, <2>2 DEF Judged
<1>5. CASE w[n] = "--cyber" /\ (s.cyber \/ t # "standard") /\ ~Dashed(t)
  <2>1. r.verdict = "error"
    BY <1>1, <1>5 DEF TakeValue, Decided, Tokens
  <2>2. ~Accepted(w)
    <3>1. CASE s.cyber
      <4>1. PICK i \in CyberTaken(w, n) : TRUE
        BY <3>1 DEF Tells, TellsCyber
      <4>2. i \in CyberOf(w) /\ i # n
        <5>1. n + 1 <= n <=> FALSE
          OBVIOUS
        <5> QED BY <1>5, <4>1, <5>1 DEF CyberTaken
      <4>3. ~(Cardinality(CyberOf(w)) <= 1)
        BY <1>3, <1>5, <4>2, OneCyber
      <4> QED BY <4>3, AcceptedMeans
    <3>2. CASE t # "standard"
      BY <1>3, <1>5, <3>2, AcceptedMeans
    <3> QED BY <1>5, <3>1, <3>2
  <2> QED BY <2>1, <2>2 DEF Judged
<1>6. CASE ~Dashed(t) /\ ~(w[n] = "--cyber" /\ (s.cyber \/ t # "standard"))
  <2>1. /\ r.verdict = "unshared" /\ r.chosen = s.chosen /\ r.mode = s.mode
        /\ r.operands = s.operands /\ r.literal = s.literal /\ r.wants = "none"
        /\ r.cyber = (s.cyber \/ w[n] = "--cyber")
    <3>1. r = [s EXCEPT !.wants = "none", !.cyber = s.cyber \/ w[n] = "--cyber"]
      BY <1>1, <1>6 DEF TakeValue, Tokens
    <3> DEFINE c == s.cyber \/ w[n] = "--cyber"
    <3> HIDE DEF c
    <3>2. r = [s EXCEPT !.wants = "none", !.cyber = c]
      BY <3>1 DEF c
    <3>3. /\ r.verdict = "unshared" /\ r.chosen = s.chosen /\ r.mode = s.mode
          /\ r.operands = s.operands /\ r.literal = s.literal /\ r.wants = "none"
          /\ r.cyber = c
      BY <3>2 DEF Tokens
    <3> QED BY <3>3 DEF c
  <2>2. t # "--" /\ t \notin Options
    BY <1>6 DEF Dashed
  <2>3. LiteralOf(w) \in Nat /\ LiteralOf(w) # n + 1 /\ n + 1 \notin OptionsOf(w)
    BY <2>2, RoleOf, LiteralIs, WithinArguments
  <2>4. TellsOptions(w, n + 1, r)
    <3>1. LiteralOf(w) <= n + 1 <=> LiteralOf(w) <= n
      BY <2>3
    <3>2. \A i \in OptionsOf(w) : i <= n + 1 => i <= n
      BY <2>3, WithinArguments
    <3>3. \A i \in ValuesOf(w) : i <= n + 1 => ~Dashed(w[i])
      <4>1. \A i \in ValuesOf(w) : i \in Nat
        BY WithinArguments DEF ValuesOf
      <4>2. \A i \in ValuesOf(w) : i <= n + 1 => (i <= n \/ i = n + 1)
        BY <4>1
      <4> QED BY <1>6, <4>2 DEF Tells, TellsOptions
    <3> QED BY <2>1, <2>3, <3>1, <3>2, <3>3 DEF Tells, TellsOptions
  <2>5. TellsOperands(w, n + 1, r)
    BY <1>2, <2>1, NoOperandKeeps DEF Tells
  <2>6. TellsCyber(w, n + 1, r)
    <3>1. n + 1 \notin CyberOf(w)
      BY <2>3 DEF CyberOf
    <3>2. CASE w[n] # "--cyber"
      <4>1. r.cyber = s.cyber
        BY <2>1, <3>2 DEF Tokens
      <4>2. ~(n \in CyberOf(w) /\ w[n] = "--cyber") /\ TellsCyber(w, n, s)
        BY <3>2 DEF Tells
      <4> QED BY <3>1, <4>1, <4>2, NoCyberKeeps
    <3>3. CASE w[n] = "--cyber"
      <4>1. CyberTaken(w, n) = {} /\ r.cyber /\ t = "standard"
        BY <1>6, <2>1, <3>3 DEF Tells, TellsCyber
      <4>2. \A i \in CyberOf(w) : i \in Nat /\ i # n + 1
        BY <3>1, WithinArguments
      <4>3. \A i \in CyberTaken(w, n + 1) : i = n
        <5> TAKE i \in CyberTaken(w, n + 1)
        <5>1. i \in CyberOf(w) /\ i \in Nat /\ i <= n
          BY <4>2 DEF CyberTaken
        <5>2. i < n => i + 1 <= n
          BY <5>1
        <5>3. i < n => i \in CyberTaken(w, n)
          BY <5>1, <5>2 DEF CyberTaken
        <5> QED BY <4>1, <5>1, <5>3
      <4>4. n \in CyberTaken(w, n + 1)
        BY <1>3, <3>3 DEF CyberTaken
      <4>5. CyberTaken(w, n + 1) = {n}
        BY <4>3, <4>4
      <4> QED BY <1>3, <3>3, <4>1, <4>5, CyberGrows
    <3> QED BY <3>2, <3>3
  <2> QED BY <2>1, <2>4, <2>5, <2>6 DEF Judged, Tells
<1> QED BY <1>4, <1>5, <1>6

\* When no value is wanted, the next argument is none.
LEMMA NoValueWanted ==
  ASSUME NEW w \in Seq(Words), NEW n \in Nat, n + 1 \in 1..Len(w),
         NEW s, TellsOptions(w, n, s), s.wants = "none"
  PROVE  n + 1 \notin ValuesOf(w) /\ ~(n \in CyberOf(w) /\ w[n] = "--cyber")
<1>1. "none" \notin ValuedOptions /\ "--cyber" \in ValuedOptions
  BY DEF ValuedOptions, RootValueOptions, ExecValueOptions
<1>2. ~(n \in OptionsOf(w) /\ w[n] \in ValuedOptions)
  BY <1>1 DEF TellsOptions
<1> QED BY <1>1, <1>2, RoleOf DEF CyberOf

\* An argument that is no option and no value.
LEMMA NoOptionKeeps ==
  ASSUME NEW w \in Seq(Words), NEW n \in Nat, n + 1 \in 1..Len(w),
         n + 1 \notin OptionsOf(w), n + 1 \notin ValuesOf(w),
         NEW s, TellsOptions(w, n, s),
         NEW r, r.wants = "none", r.literal <=> LiteralOf(w) <= n + 1
  PROVE  TellsOptions(w, n + 1, r)
<1>1. \A i \in OptionsOf(w) : i <= n + 1 => i <= n
  BY WithinArguments
<1>2. \A i \in ValuesOf(w) : i \in Nat
  BY WithinArguments DEF ValuesOf
<1>3. \A i \in ValuesOf(w) : i <= n + 1 => i <= n
  BY <1>2
<1>4. \A i \in OptionsOf(w) : i <= n + 1 =>
        NameAt(w, i) \in ValueOptions(ScopeAt(w, i)) \/ w[i] \in Flags(ScopeAt(w, i))
  BY <1>1 DEF TellsOptions
<1>5. \A i \in ValuesOf(w) : i <= n + 1 => ~Dashed(w[i])
  BY <1>3 DEF TellsOptions
<1>6. r.wants = IF n + 1 \in OptionsOf(w) /\ w[n + 1] \in ValuedOptions THEN w[n + 1] ELSE "none"
  OBVIOUS
<1> QED BY <1>4, <1>5, <1>6 DEF TellsOptions

\* The argument that ends the options.
LEMMA LiteralJudged ==
  ASSUME NEW w \in Seq(Words), NEW n \in Nat, n + 1 \in 1..Len(w),
         NEW s \in Tokens, s.verdict = "unshared", Tells(w, n, s), s.wants = "none",
         w[n + 1] = "--", ~s.literal,
         NEW r, r = [s EXCEPT !.literal = TRUE]
  PROVE  Judged(w, n + 1, r)
<1>1. /\ r.verdict = "unshared" /\ r.chosen = s.chosen /\ r.mode = s.mode /\ r.cyber = s.cyber
      /\ r.operands = s.operands /\ r.literal /\ r.wants = "none"
  BY DEF Tokens
<1>2. LiteralOf(w) = n + 1
  BY RoleOf DEF Tells, TellsOptions
<1>3. n + 1 \notin ValuesOf(w) /\ ~(n \in CyberOf(w) /\ w[n] = "--cyber")
  BY NoValueWanted DEF Tells
<1>4. n + 1 \notin OptionsOf(w) /\ n + 1 \notin OperandsOf(w)
  BY <1>2, RoleOf
<1>5. n + 1 \notin CyberOf(w)
  BY <1>4 DEF CyberOf
<1>6. TellsOptions(w, n + 1, r)
  <2>1. r.literal <=> LiteralOf(w) <= n + 1
    BY <1>1, <1>2
  <2>2. TellsOptions(w, n, s)
    BY DEF Tells
  <2> QED BY <1>1, <1>3, <1>4, <2>1, <2>2, NoOptionKeeps
<1>7. TellsOperands(w, n + 1, r)
  BY <1>1, <1>4, NoOperandKeeps DEF Tells
<1>8. TellsCyber(w, n + 1, r)
  BY <1>1, <1>3, <1>5, NoCyberKeeps DEF Tells
<1> QED BY <1>1, <1>6, <1>7, <1>8 DEF Judged, Tells

\* An option that its scope allows.
LEMMA OptionKeeps ==
  ASSUME NEW w \in Seq(Words), NEW n \in Nat, n + 1 \in 1..Len(w),
         n + 1 \in OptionsOf(w), n + 1 \notin ValuesOf(w), n + 1 < LiteralOf(w),
         \/ NameAt(w, n + 1) \in ValueOptions(ScopeAt(w, n + 1))
         \/ w[n + 1] \in Flags(ScopeAt(w, n + 1)),
         NEW s, TellsOptions(w, n, s),
         NEW r, r.wants = IF w[n + 1] \in ValuedOptions THEN w[n + 1] ELSE "none",
         r.literal = s.literal
  PROVE  TellsOptions(w, n + 1, r)
<1>1. \A i \in OptionsOf(w) : i \in Nat
  BY WithinArguments
<1>2. \A i \in OptionsOf(w) : i <= n + 1 => (i <= n \/ i = n + 1)
  BY <1>1
<1>3. \A i \in ValuesOf(w) : i \in Nat
  BY WithinArguments DEF ValuesOf
<1>4. \A i \in ValuesOf(w) : i <= n + 1 => i <= n
  BY <1>3
<1>5. LiteralOf(w) \in Nat
  BY LiteralIs, WithinArguments
<1>6. ~(LiteralOf(w) <= n + 1) /\ ~(LiteralOf(w) <= n)
  BY <1>5
<1> QED BY <1>2, <1>4, <1>6 DEF TellsOptions

LEMMA ScopeIsMode ==
  ASSUME NEW w \in Seq(Words), NEW n \in Nat, n + 1 \in 1..Len(w), n + 1 \notin OperandsOf(w),
         NEW s, TellsOperands(w, n, s)
  PROVE  ScopeAt(w, n + 1) = s.mode
<1>1. FirstOf(w) \in Nat /\ FirstOf(w) # n + 1
  BY FirstIs, WithinArguments
<1>2. n + 1 > FirstOf(w) <=> FirstOf(w) <= n
  BY <1>1
<1> QED BY <1>2 DEF ScopeAt, TellsOperands

\* What the options are, one by one.
LEMMA OptionKinds ==
  ASSUME NEW t \in Options, NEW m, NEW o,
         o = IF t \in DOMAIN Attached THEN Attached[t][1] ELSE t
  PROVE  /\ o \in RemoteOptions => o \notin ValueOptions(m) /\ t \notin Flags(m)
         /\ t \in Flags(m) => o = t /\ t \notin ValuedOptions /\ o # "--cyber"
         /\ t \in DOMAIN Attached => t \notin ValuedOptions /\ t # "--cyber"
         /\ o \in ValueOptions(m) /\ t \notin DOMAIN Attached => t \in ValuedOptions /\ o = t
         /\ t # "--" /\ o # "none"
BY AttachedAre DEF Options, RemoteOptions, ValueOptions, Flags, ValuedOptions, RootValueOptions,
   RootFlags, ExecValueOptions, ExecFlags, ResumeFlags

\* An option.
LEMMA OptionJudged ==
  ASSUME NEW w \in Seq(Words), NEW n \in Nat, n + 1 \in 1..Len(w),
         NEW s \in Tokens, s.verdict = "unshared", Tells(w, n, s), s.wants = "none",
         w[n + 1] \in Options, ~s.literal,
         NEW r, r = TakeOption(s, w[n + 1])
  PROVE  Judged(w, n + 1, r)
<1> DEFINE t == w[n + 1]
           o == NameAt(w, n + 1)
<1>1. o = IF t \in DOMAIN Attached THEN Attached[t][1] ELSE t
  BY DEF NameAt
<1>2. /\ \A m : /\ o \in RemoteOptions => o \notin ValueOptions(m) /\ t \notin Flags(m)
                /\ t \in Flags(m) => o = t /\ t \notin ValuedOptions /\ o # "--cyber"
                /\ o \in ValueOptions(m) /\ t \notin DOMAIN Attached => t \in ValuedOptions /\ o = t
      /\ t \in DOMAIN Attached => t \notin ValuedOptions /\ t # "--cyber"
      /\ t # "--" /\ o # "none"
  <2> HIDE DEF o
  <2> QED BY <1>1, OptionKinds
<1>3. n + 1 \notin ValuesOf(w) /\ ~(n \in CyberOf(w) /\ w[n] = "--cyber")
  BY NoValueWanted DEF Tells
<1>4. /\ LiteralOf(w) \in Nat /\ n + 1 < LiteralOf(w) /\ n + 1 \in OptionsOf(w)
      /\ n + 1 \notin OperandsOf(w)
  <2>1. ~(LiteralOf(w) <= n) /\ LiteralOf(w) \in Nat
    BY LiteralIs, WithinArguments DEF Tells, TellsOptions
  <2>2. LiteralOf(w) # n + 1
    BY <1>2, RoleOf
  <2>3. n + 1 < LiteralOf(w)
    BY <2>1, <2>2
  <2> QED BY <2>1, <2>3, RoleOf
<1>5. ScopeAt(w, n + 1) = s.mode
  BY <1>4, ScopeIsMode DEF Tells
<1>6. n + 1 \in CyberOf(w) <=> o = "--cyber"
  BY <1>4 DEF CyberOf
<1>7. r = IF o \in RemoteOptions THEN Decided(s, "shared")
          ELSE IF o \in ValueOptions(s.mode)
          THEN IF t \in DOMAIN Attached THEN TakeValue(s, o, Attached[t][2])
               ELSE [s EXCEPT !.wants = o]
          ELSE IF t \in Flags(s.mode) THEN s ELSE Decided(s, "error")
  BY <1>1 DEF TakeOption
<1> HIDE DEF o
<1>8. CASE o \notin ValueOptions(s.mode) /\ t \notin Flags(s.mode)
  <2>1. ~Accepted(w)
    <3>1. ~(NameAt(w, n + 1) \in ValueOptions(ScopeAt(w, n + 1)) \/ w[n + 1] \in Flags(ScopeAt(w, n + 1)))
      BY <1>5, <1>8 DEF o
    <3> QED BY <1>4, <3>1, AcceptedMeans
  <2>2. r.verdict # "unshared"
    BY <1>7, <1>8, DecidedTyped
  <2> QED BY <2>1, <2>2 DEF Judged
<1>9. ASSUME o \in ValueOptions(s.mode) \/ t \in Flags(s.mode),
             r.verdict = "unshared", r.chosen = s.chosen, r.mode = s.mode,
             r.operands = s.operands, r.literal = s.literal,
             r.wants = IF t \in ValuedOptions THEN t ELSE "none",
             TellsCyber(w, n + 1, r)
      PROVE  Judged(w, n + 1, r)
  <2>1. \/ NameAt(w, n + 1) \in ValueOptions(ScopeAt(w, n + 1))
        \/ w[n + 1] \in Flags(ScopeAt(w, n + 1))
    BY <1>5, <1>9 DEF o
  <2>2. TellsOptions(w, n, s) /\ TellsOperands(w, n, s)
    BY DEF Tells
  <2>3. TellsOptions(w, n + 1, r)
    BY <1>3, <1>4, <1>9, <2>1, <2>2, OptionKeeps
  <2>4. TellsOperands(w, n + 1, r)
    BY <1>4, <1>9, <2>2, NoOperandKeeps
  <2> QED BY <1>9, <2>3, <2>4 DEF Judged, Tells
<1>10. CASE o \notin ValueOptions(s.mode) /\ t \in Flags(s.mode)
  <2>1. o \notin RemoteOptions /\ t \notin ValuedOptions /\ o # "--cyber"
    BY <1>2, <1>10
  <2>2. r = s
    BY <1>7, <1>10, <2>1
  <2>3. TellsCyber(w, n, s)
    BY DEF Tells
  <2>4. TellsCyber(w, n + 1, r)
    BY <1>3, <1>6, <2>1, <2>2, <2>3, NoCyberKeeps
  <2> QED BY <1>9, <1>10, <2>1, <2>2, <2>4
<1>11. CASE o \in ValueOptions(s.mode) /\ t \notin DOMAIN Attached
  <2>1. o \notin RemoteOptions /\ t \in ValuedOptions /\ o = t
    BY <1>2, <1>11
  <2>2. r = [s EXCEPT !.wants = t]
    BY <1>7, <1>11, <2>1
  <2>3. /\ r.verdict = "unshared" /\ r.chosen = s.chosen /\ r.mode = s.mode
        /\ r.operands = s.operands /\ r.literal = s.literal /\ r.wants = t /\ r.cyber = s.cyber
    BY <2>2 DEF Tokens
  <2>4. TellsCyber(w, n, s)
    BY DEF Tells
  <2>5. TellsCyber(w, n + 1, r)
    BY <1>3, <1>6, <2>1, <2>3, <2>4, NoCyberKeeps
  <2> QED BY <1>9, <1>11, <2>1, <2>3, <2>5
<1>12. CASE o \in ValueOptions(s.mode) /\ t \in DOMAIN Attached
  <2>1. o \notin RemoteOptions /\ t \notin ValuedOptions /\ t # "--cyber"
    BY <1>2, <1>12
  <2>2. ~Dashed(Attached[t][2]) /\ (o = "--cyber" => Attached[t][2] = "standard")
    BY <1>1, <1>12, AttachedAre DEF Dashed, Options, RootValueOptions, RootFlags,
       ExecValueOptions, ExecFlags, ResumeFlags, RemoteOptions
  <2>3. CASE o = "--cyber" /\ s.cyber
    <3>1. r.verdict # "unshared"
      <4>1. r = Decided([s EXCEPT !.wants = "none"], "error")
        BY <1>7, <1>12, <2>1, <2>3 DEF TakeValue
      <4>2. [s EXCEPT !.wants = "none"] \in Tokens
        BY DEF Tokens
      <4> QED BY <4>1, <4>2, DecidedTyped
    <3>2. PICK i \in CyberTaken(w, n) : TRUE
      BY <2>3 DEF Tells, TellsCyber
    <3>3. i \in CyberOf(w) /\ i # n + 1
      <4>1. ~(n + 1 <= n)
        OBVIOUS
      <4> QED BY <3>2, <4>1 DEF CyberTaken
    <3>4. ~(Cardinality(CyberOf(w)) <= 1)
      BY <1>6, <2>3, <3>3, OneCyber
    <3>5. ~Accepted(w)
      BY <3>4, AcceptedMeans
    <3> QED BY <3>1, <3>5 DEF Judged
  <2>4. CASE ~(o = "--cyber" /\ s.cyber)
    <3> DEFINE c == s.cyber \/ o = "--cyber"
    <3>1. r = [s EXCEPT !.wants = "none", !.cyber = c]
      BY <1>7, <1>12, <2>1, <2>2, <2>4 DEF TakeValue, Tokens
    <3> HIDE DEF c
    <3>2. /\ r.verdict = "unshared" /\ r.chosen = s.chosen /\ r.mode = s.mode
          /\ r.operands = s.operands /\ r.literal = s.literal /\ r.wants = "none" /\ r.cyber = c
      BY <3>1 DEF Tokens
    <3>3. TellsCyber(w, n, s)
      BY DEF Tells
    <3>4. TellsCyber(w, n + 1, r)
      <4>1. CASE o # "--cyber"
        <5>1. r.cyber = s.cyber
          BY <3>2, <4>1 DEF c, Tokens
        <5> QED BY <1>3, <1>6, <3>3, <4>1, <5>1, NoCyberKeeps
      <4>2. CASE o = "--cyber"
        <5>1. CyberTaken(w, n) = {} /\ r.cyber
          BY <2>4, <3>2, <3>3, <4>2 DEF c, TellsCyber
        <5>2. n + 1 \in CyberTaken(w, n + 1)
          BY <1>6, <2>1, <4>2 DEF CyberTaken
        <5>3. \A i \in CyberTaken(w, n + 1) : i = n + 1
          <6> TAKE i \in CyberTaken(w, n + 1)
          <6>1. i \in CyberOf(w) /\ i \in Nat /\ i <= n + 1
            BY WithinArguments DEF CyberTaken
          <6>2. SUFFICES ASSUME i # n + 1 PROVE FALSE
            OBVIOUS
          <6>3. i <= n
            BY <6>1, <6>2
          <6>4. w[i] = "--cyber" => i + 1 <= n
            BY <1>3, <6>1, <6>3
          <6> QED BY <5>1, <6>1, <6>3, <6>4 DEF CyberTaken
        <5>4. CyberTaken(w, n + 1) = {n + 1}
          BY <5>2, <5>3
        <5>5. n + 1 \in CyberOf(w) /\ w[n + 1] # "--cyber"
          BY <1>6, <2>1, <4>2
        <5> QED BY <5>1, <5>4, <5>5, CyberGrows
      <4> QED BY <4>1, <4>2
    <3> QED BY <1>9, <1>12, <2>1, <3>2, <3>4
  <2> QED BY <2>3, <2>4
<1> QED BY <1>8, <1>10, <1>11, <1>12

\* The prompts among the first arguments.
LEMMA PromptsGrow ==
  ASSUME NEW w \in Seq(Words), NEW n \in Nat, n + 1 \in PromptsOf(w)
  PROVE  /\ PromptsUpTo(w, n + 1) = PromptsUpTo(w, n) \cup {n + 1}
         /\ Cardinality(PromptsUpTo(w, n)) \in Nat
         /\ Cardinality(PromptsUpTo(w, n + 1)) = Cardinality(PromptsUpTo(w, n)) + 1
         /\ Cardinality(PromptsOf(w)) \in Nat
         /\ Cardinality(PromptsUpTo(w, n + 1)) <= Cardinality(PromptsOf(w))
<1>1. \A p \in PromptsOf(w) : p \in Nat
  BY WithinArguments
<1>2. \A p \in PromptsOf(w) : p <= n + 1 <=> (p <= n \/ p = n + 1)
  BY <1>1
<1>3. PromptsUpTo(w, n + 1) = PromptsUpTo(w, n) \cup {n + 1}
  BY <1>2 DEF PromptsUpTo
<1>4. n + 1 \notin PromptsUpTo(w, n)
  <2>1. ~(n + 1 <= n)
    OBVIOUS
  <2> QED BY <2>1 DEF PromptsUpTo
<1>5. IsFiniteSet(PromptsUpTo(w, n)) /\ IsFiniteSet(PromptsOf(w))
  BY WithinArguments
<1>6. Cardinality(PromptsUpTo(w, n)) \in Nat /\ Cardinality(PromptsOf(w)) \in Nat
  BY <1>5, FS_CardinalityType
<1>7. Cardinality(PromptsUpTo(w, n) \cup {n + 1}) = Cardinality(PromptsUpTo(w, n)) + 1
  BY <1>4, <1>5, FS_AddElement
<1>8. PromptsUpTo(w, n + 1) \in SUBSET PromptsOf(w)
  BY DEF PromptsUpTo
<1>9. Cardinality(PromptsUpTo(w, n + 1)) <= Cardinality(PromptsOf(w))
  BY <1>5, <1>8, FS_Subset
<1> QED BY <1>3, <1>6, <1>7, <1>9

\* A prompt.
LEMMA PromptJudged ==
  ASSUME NEW w \in Seq(Words), NEW n \in Nat, n + 1 \in 1..Len(w), n + 1 \in PromptsOf(w),
         NEW s \in Tokens, s.verdict = "unshared", s.chosen, FirstOf(w) <= n + 1,
         s.mode = ModeOf(w), w[FirstOf(w)] \notin Refused,
         s.operands = Cardinality(PromptsUpTo(w, n)), s.operands <= OperandLimit(ModeOf(w)),
         ModeOf(w) = "exec" => \A p \in PromptsUpTo(w, n) :
           (\A q \in PromptsOf(w) : p <= q) => w[p] \notin {"resume", "review"},
         NEW r, r = TakePrompt(s, w[n + 1])
  PROVE  \/ r.verdict # "unshared" /\ ~Accepted(w)
         \/ /\ r.verdict = "unshared" /\ r.literal = s.literal /\ r.wants = s.wants
            /\ r.cyber = s.cyber /\ TellsOperands(w, n + 1, r)
<1> DEFINE t == w[n + 1]
           C == Cardinality(PromptsUpTo(w, n))
<1>1. /\ PromptsUpTo(w, n + 1) = PromptsUpTo(w, n) \cup {n + 1}
      /\ C \in Nat /\ Cardinality(PromptsUpTo(w, n + 1)) = C + 1
      /\ Cardinality(PromptsOf(w)) \in Nat
      /\ C + 1 <= Cardinality(PromptsOf(w))
  BY PromptsGrow
<1>2. \A p \in PromptsOf(w) : p \in Nat /\ p \in 1..Len(w)
  BY WithinArguments
<1>3. C = 0 <=> PromptsUpTo(w, n) = {}
  BY WithinArguments, FS_EmptySet
<1>4. PromptsUpTo(w, n) = {} <=> \A q \in PromptsOf(w) : n + 1 <= q
  <2>1. \A q \in PromptsOf(w) : n + 1 <= q <=> ~(q <= n)
    BY <1>2
  <2> QED BY <2>1 DEF PromptsUpTo
<1>5. CASE s.mode = "exec" /\ s.operands = 0 /\ t \in {"resume", "review"}
  <2>1. \A q \in PromptsOf(w) : n + 1 <= q
    BY <1>3, <1>4, <1>5
  <2>2. Min(PromptsOf(w)) = n + 1
    <3>1. PromptsOf(w) \subseteq Nat /\ PromptsOf(w) # {}
      BY <1>2
    <3>2. Min(PromptsOf(w)) \in PromptsOf(w) /\ \A y \in PromptsOf(w) : Min(PromptsOf(w)) <= y
      BY <3>1, LeastIsOne
    <3> HIDE DEF Min
    <3>3. Min(PromptsOf(w)) \in Nat /\ Min(PromptsOf(w)) <= n + 1 /\ n + 1 <= Min(PromptsOf(w))
      BY <1>2, <2>1, <3>2
    <3> QED BY <3>3
  <2>3. ~Accepted(w)
    <3>1. ~((ModeOf(w) = "exec" /\ PromptsOf(w) # {}) =>
                w[Min(PromptsOf(w))] \notin {"resume", "review"})
      BY <1>5, <2>2
    <3> QED BY <3>1, AcceptedMeans
  <2>4. r.verdict # "unshared"
    <3>1. r = Decided(s, "error")
      BY <1>5 DEF TakePrompt
    <3> QED BY <3>1, DecidedTyped
  <2> QED BY <2>3, <2>4
<1>6. OperandLimit(ModeOf(w)) = (IF ModeOf(w) = "resume" THEN 2 ELSE 1)
  BY DEF OperandLimit
<1>7. CASE s.operands = OperandLimit(s.mode)
  <2>1. ~(Cardinality(PromptsOf(w)) <= IF ModeOf(w) = "resume" THEN 2 ELSE 1)
    BY <1>1, <1>6, <1>7
  <2>2. ~Accepted(w)
    BY <2>1, AcceptedMeans
  <2>3. r.verdict # "unshared"
    <3>1. r = Decided(s, "error")
      BY <1>7 DEF TakePrompt
    <3> QED BY <3>1, DecidedTyped
  <2> QED BY <2>2, <2>3
<1>8. CASE /\ ~(s.mode = "exec" /\ s.operands = 0 /\ t \in {"resume", "review"})
           /\ s.operands # OperandLimit(s.mode)
  <2>1. r = [s EXCEPT !.operands = s.operands + 1]
    BY <1>8 DEF TakePrompt
  <2>2. /\ r.verdict = "unshared" /\ r.literal = s.literal /\ r.wants = s.wants /\ r.cyber = s.cyber
        /\ r.chosen = s.chosen /\ r.mode = s.mode /\ r.operands = s.operands + 1
    BY <2>1 DEF Tokens
  <2>3. r.operands = Cardinality(PromptsUpTo(w, n + 1)) /\ r.operands <= OperandLimit(ModeOf(w))
    BY <1>1, <1>6, <1>8, <2>2
  <2>4. ASSUME ModeOf(w) = "exec", NEW p \in PromptsUpTo(w, n + 1), \A q \in PromptsOf(w) : p <= q
        PROVE  w[p] \notin {"resume", "review"}
    <3>1. CASE p = n + 1
      BY <1>3, <1>4, <1>8, <2>4, <3>1
    <3>2. CASE p \in PromptsUpTo(w, n)
      BY <2>4, <3>2
    <3> QED BY <1>1, <3>1, <3>2
  <2>5. TellsOperands(w, n + 1, r)
    BY <2>2, <2>3, <2>4 DEF TellsOperands
  <2> QED BY <2>2, <2>5
<1> QED BY <1>5, <1>7, <1>8

\* The first operand.
LEMMA FirstJudged ==
  ASSUME NEW w \in Seq(Words), NEW n \in Nat, n + 1 \in 1..Len(w), n + 1 \in OperandsOf(w),
         NEW s \in Tokens, s.verdict = "unshared", TellsOperands(w, n, s), ~s.chosen,
         s.literal <=> LiteralOf(w) <= n,
         NEW r, r = FirstOperand(s, w[n + 1])
  PROVE  \/ r.verdict # "unshared" /\ ~Accepted(w)
         \/ /\ r.verdict = "unshared" /\ r.literal = s.literal /\ r.wants = s.wants
            /\ r.cyber = s.cyber /\ TellsOperands(w, n + 1, r)
<1> DEFINE t == w[n + 1]
<1>1. /\ FirstOf(w) = n + 1 /\ ~(FirstOf(w) <= n) /\ FirstOf(w) <= n + 1
      /\ FirstOf(w) # Len(w) + 1 /\ Len(w) \in Nat
  <2>1. FirstOf(w) \in Nat /\ FirstOf(w) <= n + 1 /\ Len(w) \in Nat
    BY FirstIs, WithinArguments
  <2>2. ~(FirstOf(w) <= n)
    BY DEF TellsOperands
  <2> QED BY <2>1, <2>2
<1>2. s.mode = "interactive" /\ s.operands = Cardinality(PromptsUpTo(w, n))
      /\ s.operands <= OperandLimit(ModeOf(w))
      /\ (ModeOf(w) = "exec" => \A p \in PromptsUpTo(w, n) :
           (\A q \in PromptsOf(w) : p <= q) => w[p] \notin {"resume", "review"})
  BY <1>1 DEF TellsOperands
<1>3. CASE t \in Refused
  <2>1. r.verdict # "unshared"
    <3>1. r \in {Decided(s, "shared"), Decided(s, "error")}
      BY <1>3 DEF FirstOperand, Refused
    <3> QED BY <3>1, DecidedTyped
  <2>2. ~Accepted(w)
    <3>1. ~(FirstOf(w) = Len(w) + 1 \/ w[FirstOf(w)] \notin Refused)
      BY <1>1, <1>3
    <3> QED BY <3>1, AcceptedMeans
  <2> QED BY <2>1, <2>2
<1>4. LiteralOf(w) \in Nat /\ LiteralOf(w) # n + 1
  BY LiteralIs, WithinArguments, RoleOf
<1>5. ModeOf(w) = IF t \in {"exec", "resume"} /\ ~s.literal THEN t ELSE "interactive"
  <2>1. FirstOf(w) < LiteralOf(w) <=> ~s.literal
    BY <1>1, <1>4
  <2>2. FirstOf(w) < Len(w) + 1
    BY <1>1
  <2> QED BY <1>1, <2>1, <2>2 DEF ModeOf
<1>6. CASE t \notin Refused /\ t \in {"exec", "resume"} /\ ~s.literal
  <2>1. r = [s EXCEPT !.chosen = TRUE, !.mode = t]
    BY <1>6 DEF FirstOperand, Refused
  <2>2. /\ r.verdict = "unshared" /\ r.literal = s.literal /\ r.wants = s.wants /\ r.cyber = s.cyber
        /\ r.chosen /\ r.mode = t /\ r.operands = s.operands
    BY <2>1 DEF Tokens
  <2>3. ModeOf(w) = t /\ t # "interactive"
    BY <1>5, <1>6
  <2>4. PromptsUpTo(w, n + 1) = PromptsUpTo(w, n)
    <3>1. \A p \in PromptsOf(w) : p \in Nat /\ p # n + 1
      <4>1. PromptsOf(w) = OperandsOf(w) \ {n + 1}
        BY <1>1, <2>3 DEF PromptsOf
      <4>2. \A p \in PromptsOf(w) : p \in Nat
        BY WithinArguments
      <4> QED BY <4>1, <4>2
    <3>2. \A p \in PromptsOf(w) : p <= n + 1 <=> p <= n
      BY <3>1
    <3> QED BY <3>2 DEF PromptsUpTo
  <2>5. TellsOperands(w, n + 1, r)
    BY <1>1, <1>2, <1>6, <2>2, <2>3, <2>4 DEF TellsOperands
  <2> QED BY <2>2, <2>5
<1>7. CASE t \notin Refused /\ ~(t \in {"exec", "resume"} /\ ~s.literal)
  <2> DEFINE u == [s EXCEPT !.chosen = TRUE]
  <2>1. r = TakePrompt(u, t)
    BY <1>7 DEF FirstOperand, Refused
  <2>2. /\ u \in Tokens /\ u.verdict = "unshared" /\ u.chosen /\ u.mode = s.mode
        /\ u.operands = s.operands
        /\ u.literal = s.literal /\ u.wants = s.wants /\ u.cyber = s.cyber
    BY DEF Tokens
  <2> HIDE DEF u
  <2>3. ModeOf(w) = "interactive"
    BY <1>5, <1>7
  <2>4. n + 1 \in PromptsOf(w)
    BY <2>3 DEF PromptsOf
  <2>5. w[FirstOf(w)] \notin Refused /\ u.mode = ModeOf(w)
    BY <1>1, <1>2, <1>7, <2>2, <2>3
  <2>6. /\ u.operands = Cardinality(PromptsUpTo(w, n)) /\ u.operands <= OperandLimit(ModeOf(w))
        /\ ModeOf(w) # "exec"
    BY <1>2, <2>2, <2>3
  <2>7. \/ r.verdict # "unshared" /\ ~Accepted(w)
        \/ /\ r.verdict = "unshared" /\ r.literal = u.literal /\ r.wants = u.wants
           /\ r.cyber = u.cyber /\ TellsOperands(w, n + 1, r)
    BY <1>1, <2>1, <2>2, <2>4, <2>5, <2>6, PromptJudged
  <2> QED BY <2>2, <2>7
<1> QED BY <1>3, <1>6, <1>7

\* An operand.
LEMMA OperandJudged ==
  ASSUME NEW w \in Seq(Words), NEW n \in Nat, n + 1 \in 1..Len(w),
         NEW s \in Tokens, s.verdict = "unshared", Tells(w, n, s), s.wants = "none",
         ~(w[n + 1] = "--" /\ ~s.literal), ~(w[n + 1] \in Options /\ ~s.literal),
         NEW r, r = IF s.chosen THEN TakePrompt(s, w[n + 1]) ELSE FirstOperand(s, w[n + 1])
  PROVE  Judged(w, n + 1, r)
<1>1. TellsOptions(w, n, s) /\ TellsOperands(w, n, s) /\ TellsCyber(w, n, s)
  BY DEF Tells
<1>2. n + 1 \notin ValuesOf(w) /\ ~(n \in CyberOf(w) /\ w[n] = "--cyber")
  BY <1>1, NoValueWanted
<1>3. (s.literal <=> LiteralOf(w) <= n) /\ LiteralOf(w) \in Nat
  BY <1>1, LiteralIs, WithinArguments DEF TellsOptions
<1>4. LiteralOf(w) # n + 1
  <2>1. SUFFICES ASSUME LiteralOf(w) = n + 1 PROVE FALSE
    OBVIOUS
  <2>2. w[n + 1] = "--"
    BY <2>1, RoleOf
  <2>3. ~(LiteralOf(w) <= n)
    BY <2>1
  <2> QED BY <1>3, <2>2, <2>3
<1>5. n + 1 \notin OptionsOf(w)
  <2>1. n + 1 < LiteralOf(w) => ~(LiteralOf(w) <= n)
    BY <1>3
  <2> QED BY <1>3, <2>1, RoleOf
<1>6. n + 1 \in OperandsOf(w) /\ n + 1 \notin CyberOf(w)
  BY <1>2, <1>4, <1>5, RoleOf DEF CyberOf
<1>7. ASSUME \/ r.verdict # "unshared" /\ ~Accepted(w)
             \/ /\ r.verdict = "unshared" /\ r.literal = s.literal /\ r.wants = s.wants
                /\ r.cyber = s.cyber /\ TellsOperands(w, n + 1, r)
      PROVE  Judged(w, n + 1, r)
  <2>1. CASE r.verdict # "unshared" /\ ~Accepted(w)
    BY <2>1 DEF Judged
  <2>2. CASE /\ r.verdict = "unshared" /\ r.literal = s.literal /\ r.wants = s.wants
             /\ r.cyber = s.cyber /\ TellsOperands(w, n + 1, r)
    <3>1. r.literal <=> LiteralOf(w) <= n + 1
      <4>1. LiteralOf(w) <= n + 1 <=> LiteralOf(w) <= n
        BY <1>3, <1>4
      <4> QED BY <1>3, <2>2, <4>1
    <3>2. r.wants = "none"
      BY <2>2
    <3>3. TellsOptions(w, n + 1, r)
      BY <1>1, <1>2, <1>5, <3>1, <3>2, NoOptionKeeps
    <3>4. TellsCyber(w, n + 1, r)
      BY <1>1, <1>2, <1>6, <2>2, NoCyberKeeps
    <3> QED BY <2>2, <3>3, <3>4 DEF Judged, Tells
  <2> QED BY <1>7, <2>1, <2>2
<1>8. CASE s.chosen
  <2>1. FirstOf(w) <= n /\ FirstOf(w) \in Nat
    BY <1>1, <1>8, FirstIs, WithinArguments DEF TellsOperands
  <2>2. FirstOf(w) <= n + 1 /\ FirstOf(w) # n + 1
    BY <2>1
  <2>3. n + 1 \in PromptsOf(w)
    BY <1>6, <2>2 DEF PromptsOf
  <2>4. /\ s.mode = ModeOf(w) /\ w[FirstOf(w)] \notin Refused
        /\ s.operands = Cardinality(PromptsUpTo(w, n)) /\ s.operands <= OperandLimit(ModeOf(w))
        /\ (ModeOf(w) = "exec" => \A p \in PromptsUpTo(w, n) :
              (\A q \in PromptsOf(w) : p <= q) => w[p] \notin {"resume", "review"})
    BY <1>1, <2>1 DEF TellsOperands
  <2>5. r = TakePrompt(s, w[n + 1])
    BY <1>8
  <2> QED BY <1>7, <1>8, <2>2, <2>3, <2>4, <2>5, PromptJudged
<1>9. CASE ~s.chosen
  <2>1. r = FirstOperand(s, w[n + 1])
    BY <1>9
  <2> QED BY <1>1, <1>3, <1>6, <1>7, <1>9, <2>1, FirstJudged
<1> QED BY <1>8, <1>9

\* Every argument is judged.
LEMMA NextJudged ==
  ASSUME NEW w \in Seq(Words), NEW n \in Nat, n + 1 \in 1..Len(w),
         NEW s \in Tokens, Judged(w, n, s)
  PROVE  Judged(w, n + 1, TakeToken(s, w[n + 1]))
<1> DEFINE t == w[n + 1]
           r == TakeToken(s, t)
<1>1. CASE s.verdict # "unshared"
  BY <1>1 DEF TakeToken, Judged
<1>2. CASE s.verdict = "unshared"
  <2>1. Tells(w, n, s)
    BY <1>2 DEF Judged
  <2>2. CASE s.wants # "none"
    <3>1. r = TakeValue(s, s.wants, w[n + 1])
      BY <1>2, <2>2 DEF TakeToken
    <3> HIDE DEF r
    <3>2. Judged(w, n + 1, r)
      BY <1>2, <2>1, <2>2, <3>1, ValueJudged
    <3> QED BY <3>2 DEF r
  <2>3. CASE s.wants = "none" /\ t = "--" /\ ~s.literal
    <3>1. r = [s EXCEPT !.literal = TRUE]
      BY <1>2, <2>3 DEF TakeToken
    <3> HIDE DEF r
    <3>2. Judged(w, n + 1, r)
      BY <1>2, <2>1, <2>3, <3>1, LiteralJudged
    <3> QED BY <3>2 DEF r
  <2>4. CASE s.wants = "none" /\ ~(t = "--" /\ ~s.literal) /\ t \in Options /\ ~s.literal
    <3>1. r = TakeOption(s, w[n + 1])
      BY <1>2, <2>4 DEF TakeToken
    <3> HIDE DEF r
    <3>2. Judged(w, n + 1, r)
      BY <1>2, <2>1, <2>4, <3>1, OptionJudged
    <3> QED BY <3>2 DEF r
  <2>5. CASE s.wants = "none" /\ ~(t = "--" /\ ~s.literal) /\ ~(t \in Options /\ ~s.literal)
    <3>1. r = IF s.chosen THEN TakePrompt(s, w[n + 1]) ELSE FirstOperand(s, w[n + 1])
      BY <1>2, <2>5 DEF TakeToken
    <3> HIDE DEF r
    <3>2. Judged(w, n + 1, r)
      BY <1>2, <2>1, <2>5, <3>1, OperandJudged
    <3> QED BY <3>2 DEF r
  <2> QED BY <2>2, <2>3, <2>4, <2>5
<1> QED BY <1>1, <1>2

LEMMA NothingJudged ==
  ASSUME NEW w \in Seq(Words)
  PROVE  Judged(w, 0, NoToken)
<1>1. /\ \A i \in OptionsOf(w) : ~(i <= 0)
      /\ \A i \in ValuesOf(w) : ~(i <= 0)
      /\ \A i \in CyberOf(w) : ~(i <= 0)
      /\ \A i \in PromptsOf(w) : ~(i <= 0)
      /\ ~(LiteralOf(w) <= 0) /\ ~(FirstOf(w) <= 0)
      /\ 0 \notin OptionsOf(w)
  <2>1. /\ \A i \in OptionsOf(w) : i \in 1..Len(w)
        /\ \A i \in PromptsOf(w) : i \in 1..Len(w)
        /\ \A i \in CyberOf(w) : i \in 1..Len(w)
        /\ Len(w) \in Nat
    BY WithinArguments
  <2>2. \A i \in ValuesOf(w) : i \in Nat /\ i > 0
    BY <2>1 DEF ValuesOf
  <2>3. LiteralOf(w) \in 1..(Len(w) + 1) /\ FirstOf(w) \in 1..(Len(w) + 1)
    BY LiteralIs, FirstIs
  <2> QED BY <2>1, <2>2, <2>3
<1>2. CyberTaken(w, 0) = {} /\ PromptsUpTo(w, 0) = {}
  BY <1>1 DEF CyberTaken, PromptsUpTo
<1>3. TellsOptions(w, 0, NoToken)
  BY <1>1 DEF TellsOptions, NoToken
<1>4. TellsOperands(w, 0, NoToken)
  <2>1. Cardinality(PromptsUpTo(w, 0)) = 0
    BY <1>2, FS_EmptySet
  <2>2. 0 <= OperandLimit(ModeOf(w))
    BY DEF OperandLimit
  <2> QED BY <1>1, <1>2, <2>1, <2>2 DEF TellsOperands, NoToken
<1>5. TellsCyber(w, 0, NoToken)
  BY <1>2 DEF TellsCyber, NoToken
<1>6. NoToken.verdict = "unshared"
  BY DEF NoToken
<1> QED BY <1>3, <1>4, <1>5, <1>6 DEF Judged, Tells

\* What the loop makes of all the arguments is what the grammar says of them.
LEMMA GrammarIsKept ==
  ASSUME NEW w \in Seq(Words)
  PROVE  (TakeTokens(w).verdict = "unshared" /\ TakeTokens(w).wants = "none") <=> Accepted(w)
<1> DEFINE n == Len(w)
           s == TakeTokens(w)
<1>1. PICK f : TokenRun(w, f) /\ s = f[n]
  BY TokenRuns
<1>2. n \in Nat /\ DOMAIN w = 1..n
  OBVIOUS
<1>3. s \in Tokens /\ Judged(w, n, s)
  <2> DEFINE T == {k \in 0..n : Judged(w, k, f[k])}
  <2>1. 0 \in T
    BY <1>1, <1>2, NothingJudged DEF TokenRun
  <2>2. ASSUME NEW k \in 0..(n - 1), k \in T PROVE k + 1 \in T
    <3>1. k + 1 \in 1..n /\ (k + 1) - 1 = k /\ k \in Nat /\ k \in 0..n /\ k + 1 \in 0..n
      BY <1>2
    <3>2. f[k] \in Tokens /\ f[k + 1] = TakeToken(f[k], w[k + 1])
      BY <1>1, <3>1 DEF TokenRun
    <3>3. Judged(w, k, f[k])
      BY <2>2
    <3>4. Judged(w, k + 1, TakeToken(f[k], w[k + 1]))
      BY <3>1, <3>2, <3>3, NextJudged
    <3> QED BY <3>1, <3>2, <3>4
  <2>3. n \in 0..n
    BY <1>2
  <2> HIDE DEF T
  <2>4. \A k \in 0..n : k \in T
    BY <1>2, <2>1, <2>2, UpTo
  <2>5. n \in T
    BY <2>3, <2>4
  <2> QED BY <1>1, <2>3, <2>5 DEF T, TokenRun
<1> HIDE DEF s
<1>4. CASE s.verdict # "unshared"
  BY <1>3, <1>4 DEF Judged, s
<1>5. CASE s.verdict = "unshared"
  <2>1. TellsOptions(w, n, s) /\ TellsOperands(w, n, s) /\ TellsCyber(w, n, s)
    BY <1>3, <1>5 DEF Judged, Tells
  <2>2. "none" \notin ValuedOptions /\ "--cyber" \in ValuedOptions
    BY DEF ValuedOptions, RootValueOptions, ExecValueOptions
  <2>3. /\ \A i \in OptionsOf(w) : i \in Nat /\ i <= n
        /\ \A i \in PromptsOf(w) : i \in Nat /\ i <= n
        /\ CyberOf(w) \subseteq OptionsOf(w)
    BY WithinArguments
  <2>4. CASE s.wants # "none"
    <3>1. n \in OptionsOf(w) /\ w[n] \in ValuedOptions
      BY <2>1, <2>4 DEF TellsOptions
    <3>2. n + 1 \in ValuesOf(w) /\ n + 1 \notin DOMAIN w
      BY <1>2, <3>1 DEF ValuesOf
    <3>3. ~Accepted(w)
      BY <3>2, AcceptedMeans
    <3> QED BY <2>4, <3>3 DEF s
  <2>5. CASE s.wants = "none"
    <3>1. ~(n \in OptionsOf(w) /\ w[n] \in ValuedOptions)
      BY <2>1, <2>2, <2>5 DEF TellsOptions
    <3>2. \A i \in OptionsOf(w) : w[i] \in ValuedOptions => i + 1 <= n
      <4> SUFFICES ASSUME NEW i \in OptionsOf(w), w[i] \in ValuedOptions PROVE i + 1 <= n
        OBVIOUS
      <4>1. i \in Nat /\ i <= n
        BY <2>3
      <4>2. i # n
        BY <3>1
      <4>3. \A a, b \in Nat : (a <= b /\ a # b) => a + 1 <= b
        OBVIOUS
      <4> HIDE DEF n
      <4> QED BY <1>2, <4>1, <4>2, <4>3, Zenon
    <3>3. \A i \in OptionsOf(w) :
            NameAt(w, i) \in ValueOptions(ScopeAt(w, i)) \/ w[i] \in Flags(ScopeAt(w, i))
      BY <2>1, <2>3 DEF TellsOptions
    <3>4. \A i \in ValuesOf(w) : i \in DOMAIN w /\ ~Dashed(w[i])
      <4>1. \A i \in ValuesOf(w) : i \in Nat /\ i >= 1 /\ i <= n
        BY <2>3, <3>2 DEF ValuesOf
      <4> QED BY <1>2, <2>1, <4>1 DEF TellsOptions
    <3>5. CyberTaken(w, n) = CyberOf(w)
      BY <2>2, <2>3, <3>2 DEF CyberTaken
    <3>6. Cardinality(CyberOf(w)) <= 1
      BY <2>1, <3>5, OneCyber DEF TellsCyber
    <3>7. \A i \in CyberOf(w) : w[i] = "--cyber" => w[i + 1] = "standard"
      BY <2>1, <3>5 DEF TellsCyber
    <3>8. FirstOf(w) = n + 1 \/ w[FirstOf(w)] \notin Refused
      <4>1. FirstOf(w) \in 1..(n + 1)
        BY FirstIs
      <4>2. FirstOf(w) = n + 1 \/ FirstOf(w) <= n
        BY <1>2, <4>1
      <4> QED BY <2>1, <4>2 DEF TellsOperands
    <3>9. PromptsUpTo(w, n) = PromptsOf(w)
      BY <2>3 DEF PromptsUpTo
    <3>10. (ModeOf(w) = "exec" /\ PromptsOf(w) # {}) => w[Min(PromptsOf(w))] \notin {"resume", "review"}
      <4> SUFFICES ASSUME ModeOf(w) = "exec", PromptsOf(w) # {}
                   PROVE  w[Min(PromptsOf(w))] \notin {"resume", "review"}
        OBVIOUS
      <4>1. PromptsOf(w) \subseteq Nat
        BY <2>3
      <4>2. Min(PromptsOf(w)) \in PromptsOf(w) /\ \A y \in PromptsOf(w) : Min(PromptsOf(w)) <= y
        BY <4>1, LeastIsOne
      <4> HIDE DEF Min
      <4> QED BY <2>1, <3>9, <4>2 DEF TellsOperands
    <3>11. Cardinality(PromptsOf(w)) <= IF ModeOf(w) = "resume" THEN 2 ELSE 1
      BY <2>1, <3>9 DEF TellsOperands, OperandLimit
    <3>12. Accepted(w)
      BY <3>3, <3>4, <3>6, <3>7, <3>8, <3>10, <3>11, AcceptedMeans
    <3> QED BY <1>5, <2>5, <3>12 DEF s
  <2> QED BY <2>4, <2>5
<1> QED BY <1>4, <1>5

-----------------------------------------------------------------------------
(* What ps says, and what is made of arguments.                             *)

\* A value that ps gives is the one that is there.
LEMMA PsSays ==
  ASSUME NEW exists \in BOOLEAN, NEW v, NEW r \in Ps(exists, v)
  PROVE  /\ StartTime(r).status \in {"unknown", "absent", "present"}
         /\ StartTime(r).status = "present" => exists /\ StartTime(r).value = <<v>>
<1> DEFINE text == IF exists THEN <<v>> ELSE <<>>
           code == IF exists THEN "zero" ELSE "one"
<1>1. Len(text) \in 0..1 /\ (Len(text) = 1 => text = <<v>> /\ exists)
  OBVIOUS
<1>2. ASSUME NEW part \in Prefixes(text) PROVE part = <<>> \/ part = text
  <2>1. PICK l \in 0..Len(text) : part = SubSeq(text, 1, l)
    BY <1>2 DEF Prefixes
  <2>2. CASE exists
    <3>1. l = 0 \/ l = 1
      BY <2>1, <2>2
    <3>2. <<v>> \in Seq({v}) /\ Len(<<v>>) = 1
      OBVIOUS
    <3>3. SubSeq(<<v>>, 1, 0) = <<>> /\ SubSeq(<<v>>, 1, 1) = <<v>>
      <4> DEFINE one == <<v>>
      <4>1. one \in Seq({v}) /\ Len(one) = 1
        BY <3>2
      <4> HIDE DEF one
      <4>2. SubSeq(one, 1, Len(one)) = one
        BY <4>1, SubSeqFull
      <4>3. 1 \in Int /\ 0 \in Int /\ 0 < 1
        OBVIOUS
      <4>4. SubSeq(one, 1, 0) = <<>>
        BY <4>3, SubSeqEmpty
      <4> QED BY <4>1, <4>2, <4>4 DEF one
    <3> QED BY <2>1, <2>2, <3>1, <3>3
  <2>3. CASE ~exists
    <3>1. l = 0
      BY <2>1, <2>3
    <3>2. SubSeq(<<>>, 1, 0) = <<>>
      OBVIOUS
    <3> QED BY <2>1, <2>3, <3>1, <3>2
  <2> QED BY <2>2, <2>3
<1>3. /\ r.failure \in BOOLEAN /\ r.garbled \in BOOLEAN
      /\ r.text = <<>> \/ r.text = text
  <2>1. CASE r \in Diagnostic(code, text)
    <3>1. CASE r = Says(code, text)
      BY <3>1 DEF Says
    <3>2. ASSUME NEW part \in Prefixes(text), NEW failed \in BOOLEAN,
                 r = [Says("killed", part) EXCEPT !.failure = failed]
          PROVE  <1>3!1 /\ <1>3!2
      BY <1>2, <3>2 DEF Says
    <3>3. ASSUME NEW s, NEW part \in Prefixes(text), r = [Says(s, part) EXCEPT !.warned = TRUE]
          PROVE  <1>3!1 /\ <1>3!2
      BY <1>2, <3>3 DEF Says
    <3> QED BY <2>1, <3>1, <3>2, <3>3 DEF Diagnostic
  <2>2. CASE r = Says("one", <<>>)
    BY <2>2 DEF Says
  <2>3. CASE r = [Says("zero", text) EXCEPT !.garbled = TRUE]
    BY <2>3 DEF Says
  <2>4. Ps(exists, v) = Diagnostic(code, text)
                          \cup {Says("one", <<>>), [Says("zero", text) EXCEPT !.garbled = TRUE]}
    BY DEF Ps
  <2> QED BY <2>1, <2>2, <2>3, <2>4
<1>4. text # <<>> => exists /\ text = <<v>>
  OBVIOUS
<1> HIDE DEF text
<1> QED BY <1>3, <1>4 DEF StartTime, PsField, Unknown, Absent

Arguments == [run : {"codex", "codex-daemon", "other"}, words : Seq(Words)]

\* Arguments are unshared when they are Codex's and accepted.
LEMMA UnsharedMeans ==
  ASSUME NEW argv \in Arguments
  PROVE  /\ ClassifyCodexMode(argv) \in {"error", "shared", "unshared"}
         /\ ClassifyCodexMode(argv) = "unshared" <=>
              (argv.run = "codex" /\ Accepted(argv.words))
<1> DEFINE s == TakeTokens(argv.words)
<1>1. argv.words \in Seq(Words) /\ argv.run \in {"codex", "codex-daemon", "other"}
  BY DEF Arguments
<1>2. s \in Tokens
  <2>1. PICK f : TokenRun(argv.words, f) /\ s = f[Len(argv.words)]
    BY <1>1, TokenRuns
  <2>2. Len(argv.words) \in 0..Len(argv.words)
    BY <1>1
  <2> QED BY <2>1, <2>2 DEF TokenRun
<1>3. (s.verdict = "unshared" /\ s.wants = "none") <=> Accepted(argv.words)
  BY <1>1, GrammarIsKept
<1> HIDE DEF s
<1>4. CASE argv.run = "other"
  <2>1. ClassifyCodexMode(argv) = "error"
    BY <1>4 DEF ClassifyCodexMode
  <2> QED BY <1>4, <2>1
<1>5. CASE argv.run = "codex-daemon"
  <2>1. ClassifyCodexMode(argv) = "shared"
    BY <1>5 DEF ClassifyCodexMode
  <2> QED BY <1>5, <2>1
<1>6. CASE argv.run = "codex"
  <2>1. ClassifyCodexMode(argv)
          = IF s.verdict = "unshared" /\ s.wants # "none" THEN "error" ELSE s.verdict
    BY <1>6 DEF ClassifyCodexMode, s
  <2>2. s.verdict \in {"unshared", "shared", "error"}
    BY <1>2 DEF Tokens
  <2> QED BY <1>3, <1>6, <2>1, <2>2
<1> QED BY <1>1, <1>4, <1>5, <1>6

\* What is said of arguments that ps and the kernel have told.
ArgumentsJudged(v, argv, linux) ==
  LET unshared == v.arguments /\ ~v.shared
      accepted == argv.run = "codex" /\ Accepted(argv.words)
  IN /\ linux => (unshared => accepted)
     /\ (linux /\ ~v.cut /\ v.whole /\ accepted) => unshared
     /\ (~linux /\ unshared) => ~FlattenedSharedService(argv)

LEMMA ReconciledMeans ==
  ASSUME NEW argv \in Arguments, NEW linux \in BOOLEAN, NEW ps \in PsArguments(argv, linux),
         NEW told \in KernelArguments(argv, linux), NEW v,
         v.arguments = ReconcileArguments(ps, told).arguments,
         v.shared = ReconcileArguments(ps, told).shared,
         v.cut = (ps # argv), v.whole = (told.status = "present")
  PROVE  ArgumentsJudged(v, argv, linux)
<1> DEFINE mode == ClassifyCodexMode(argv)
           flat == FlattenedSharedService(ps) \/ FlattenedSharedService(told.argv)
<1>1. mode \in {"error", "shared", "unshared"}
      /\ (mode = "unshared" <=> (argv.run = "codex" /\ Accepted(argv.words)))
  BY UnsharedMeans
<1>2. argv # Nobody
  BY DEF Arguments, Nobody
<1> HIDE DEF mode
<1>3. CASE linux
  <2>1. \/ told = [status |-> "present", argv |-> argv]
        \/ told = [status |-> "unknown", argv |-> Nobody]
    BY <1>3 DEF KernelArguments
  <2>2. CASE told.status = "unknown"
    <3>1. ~ReconcileArguments(ps, told).arguments
      BY <2>2 DEF ReconcileArguments
    <3> QED BY <1>3, <2>2, <3>1 DEF ArgumentsJudged
  <2>3. CASE told.status = "present" /\ told.argv = argv
    <3>1. CASE ps = argv /\ mode # "error"
      <4>1. ReconcileArguments(ps, told) = [arguments |-> TRUE, shared |-> mode = "shared"]
        BY <1>2, <2>3, <3>1 DEF ReconcileArguments, mode
      <4>2. v.arguments = TRUE /\ v.shared = (mode = "shared")
        BY <4>1
      <4>3. (v.arguments /\ ~v.shared) <=> (argv.run = "codex" /\ Accepted(argv.words))
        BY <1>1, <3>1, <4>2
      <4> QED BY <1>3, <4>3 DEF ArgumentsJudged
    <3>2. CASE ps # argv \/ mode = "error"
      <4>1. ~ReconcileArguments(ps, told).arguments
        BY <2>3, <3>2 DEF ReconcileArguments, mode
      <4>2. ~v.arguments
        BY <4>1
      <4>3. v.cut \/ ~(argv.run = "codex" /\ Accepted(argv.words))
        BY <1>1, <3>2
      <4> QED BY <1>3, <4>2, <4>3 DEF ArgumentsJudged
    <3> QED BY <3>1, <3>2
  <2> QED BY <2>1, <2>2, <2>3
<1>4. CASE ~linux
  <2>1. told = [status |-> "none", argv |-> Nobody] /\ (ps = Nobody \/ ps = argv)
    BY <1>4 DEF KernelArguments, PsArguments
  <2>2. ReconcileArguments(ps, told) = [arguments |-> ps # Nobody, shared |-> flat]
    BY <2>1 DEF ReconcileArguments
  <2>3. v.arguments /\ ~v.shared => ps = argv /\ ~FlattenedSharedService(ps)
    BY <2>1, <2>2
  <2> QED BY <1>4, <2>3 DEF ArgumentsJudged
<1> QED BY <1>3, <1>4

\* The two that a process is started as.
LEMMA TwoModes ==
  /\ Interactive \in Arguments /\ Service \in Arguments
  /\ ClassifyCodexMode(Interactive) = "unshared" /\ ClassifyCodexMode(Service) = "shared"
  /\ ~FlattenedSharedService(Interactive) /\ FlattenedSharedService(Service)
  /\ ~FlattenedSharedService(Nobody) /\ Interactive # Nobody /\ Service # Nobody
<1>1. "word" \in Words /\ "app-server" \in Words
  BY DEF Words, Prompts, SharedModes
<1>2. Interactive \in Arguments /\ Service \in Arguments
  BY <1>1 DEF Arguments, Interactive, Service
<1>3. ASSUME NEW x \in Words
      PROVE  TakeTokens(<<x>>) = TakeToken(NoToken, x)
  <2>1. <<x>> \in Seq(Words) /\ Len(<<x>>) = 1 /\ <<x>>[1] = x
    OBVIOUS
  <2>2. PICK f : TokenRun(<<x>>, f) /\ TakeTokens(<<x>>) = f[Len(<<x>>)]
    BY <2>1, TokenRuns
  <2>3. 1 \in 1..Len(<<x>>) /\ 1 - 1 = 0
    BY <2>1
  <2> QED BY <2>1, <2>2, <2>3 DEF TokenRun
<1>4. TakeToken(NoToken, "word").verdict = "unshared" /\ TakeToken(NoToken, "word").wants = "none"
  <2>1. "word" \notin Options /\ "word" \notin SharedModes \cup OtherModes \cup ServiceWords
    BY AttachedAre DEF Options, RootValueOptions, RootFlags, ExecValueOptions, ExecFlags,
       ResumeFlags, RemoteOptions, SharedModes, OtherModes, ServiceWords
  <2>2. TakeToken(NoToken, "word") = FirstOperand(NoToken, "word")
    BY <2>1 DEF TakeToken, NoToken
  <2>3. FirstOperand(NoToken, "word") = TakePrompt([NoToken EXCEPT !.chosen = TRUE], "word")
    BY <2>1 DEF FirstOperand
  <2> DEFINE u == [NoToken EXCEPT !.chosen = TRUE]
  <2>4. u.mode = "interactive" /\ u.operands = 0 /\ u.verdict = "unshared" /\ u.wants = "none"
        /\ u = [NoToken EXCEPT !.chosen = TRUE]
    BY DEF NoToken
  <2>5. TakePrompt(u, "word") = [u EXCEPT !.operands = u.operands + 1]
    <3> HIDE DEF u
    <3> QED BY <2>4 DEF TakePrompt, OperandLimit
  <2>6. TakePrompt(u, "word").verdict = "unshared" /\ TakePrompt(u, "word").wants = "none"
    BY <2>5 DEF NoToken
  <2> QED BY <2>2, <2>3, <2>6
<1>5. TakeToken(NoToken, "app-server").verdict = "shared"
  <2>1. "app-server" \notin Options /\ "app-server" \in SharedModes
    BY AttachedAre DEF Options, RootValueOptions, RootFlags, ExecValueOptions, ExecFlags,
       ResumeFlags, RemoteOptions, SharedModes
  <2>2. TakeToken(NoToken, "app-server") = FirstOperand(NoToken, "app-server")
    BY <2>1 DEF TakeToken, NoToken
  <2> QED BY <2>1, <2>2 DEF FirstOperand, Decided, NoToken
<1>6. ClassifyCodexMode(Interactive) = "unshared"
  <2>1. TakeTokens(Interactive.words) = TakeToken(NoToken, "word") /\ Interactive.run = "codex"
    BY <1>1, <1>3 DEF Interactive
  <2> QED BY <1>4, <2>1 DEF ClassifyCodexMode
<1>7. ClassifyCodexMode(Service) = "shared"
  <2>1. TakeTokens(Service.words) = TakeToken(NoToken, "app-server") /\ Service.run = "codex"
    BY <1>1, <1>3 DEF Service
  <2> QED BY <1>5, <2>1 DEF ClassifyCodexMode
<1>8. Range(<<"word">>) = {"word"} /\ Range(<<"app-server">>) = {"app-server"} /\ Range(<<>>) = {}
  BY DEF Range
<1>9. /\ ~FlattenedSharedService(Interactive) /\ FlattenedSharedService(Service)
      /\ ~FlattenedSharedService(Nobody) /\ Interactive # Nobody /\ Service # Nobody
  BY <1>8 DEF FlattenedSharedService, Interactive, Service, Nobody, ServiceWords, RemoteOptions
<1> QED BY <1>2, <1>6, <1>7, <1>9

-----------------------------------------------------------------------------
(* The process that is asked about.                                         *)

Processes ==
  [who : 0..2, zombie : BOOLEAN, reused : BOOLEAN, changed : BOOLEAN,
   argv : {Interactive, Service}, starts : {<<1, 2>>, <<1, 1>>}]

Kinds == {"openers", "table", "exit", "arguments", "inspect", "locks"}

ArgumentsHold ==
  query.kind = "arguments" =>
    /\ query.linux \in BOOLEAN /\ machine.argv \in Arguments
    /\ answer.done => ArgumentsJudged(answer.value, machine.argv, query.linux)

TruthOf(m, field) ==
  CASE field = "args" -> IF m.zombie THEN [run |-> "other", words |-> <<>>] ELSE m.argv
    [] field = "start" -> m.starts[m.who]
    [] OTHER -> m.who

\* What an observation says of the process m.
Told(m, field, said) ==
  IF field = "kernel"
  THEN \/ said = [status |-> "unknown", argv |-> Nobody]
       \/ said = [status |-> "present", argv |-> IF m.zombie THEN Nobody ELSE m.argv]
  ELSE said.status = "present" => m.who # 0 /\ said.value = <<TruthOf(m, field)>>

Identified(v, m) ==
  (v.complete /\ ~m.changed) =>
    /\ v.who = {<<m.who>>}
    /\ ~m.zombie => v.shared = (m.argv = Service)

InspectHolds ==
  query.kind = "inspect" =>
    /\ query.linux \in BOOLEAN /\ machine \in Processes
    /\ DOMAIN seen \subseteq Fields
    /\ ~machine.changed => \A f \in DOMAIN seen : Told(machine, f, seen[f])
    /\ answer.done => Identified(answer.value, machine)

\* The process that was asked about no longer runs; it never runs again.
Left(m) == m.who # 1 \/ m.zombie

\* An observation of m and what the process is now.
Sampled(o, m, now) ==
  /\ m \in Processes /\ m.starts = now.starts /\ (Left(m) => Left(now))
  /\ o.status \in {"unknown", "absent", "present"}
  /\ o.status = "present" =>
       m.who # 0 /\ o.value = <<[start |-> m.starts[m.who], zombie |-> m.zombie]>>

ExitJudged(v, s, now) ==
  /\ v \in {"unknown", "exited", "running"}
  /\ v = "exited" => Left(now)
  /\ v = "running" => ~s[2].zombie /\ now.starts[s[2].who] = now.starts[1]

ExitHolds ==
  query.kind = "exit" =>
    /\ machine \in Processes
    /\ seen = <<>> \/ \E o, m : seen = <<o, m>> /\ Sampled(o, m, machine)
    /\ answer.done => ExitJudged(answer.value, seen, machine)

ProcessInv ==
  /\ query.kind \in Kinds /\ answer.done \in BOOLEAN
  /\ ArgumentsHold /\ InspectHolds /\ ExitHolds

LEMMA ProcessInvHolds == ProcessInv => EvidenceTypeOK /\ NoServicePasses /\ ExitIsReal
<1> SUFFICES ASSUME ProcessInv PROVE EvidenceTypeOK /\ NoServicePasses /\ ExitIsReal
  OBVIOUS
<1>1. query.kind \in Kinds /\ answer.done \in BOOLEAN /\ ArgumentsHold /\ InspectHolds /\ ExitHolds
  BY DEF ProcessInv
<1>2. EvidenceTypeOK
  BY <1>1 DEF EvidenceTypeOK, Kinds, InspectHolds, ExitHolds, Processes, ExitJudged
<1>3. NoServicePasses
  <2>1. Answered("arguments") => ArgumentsJudged(answer.value, machine.argv, query.linux)
    BY <1>1 DEF Answered, ArgumentsHold
  <2>2. Answered("inspect") => Identified(answer.value, machine)
    BY <1>1 DEF Answered, InspectHolds
  <2> QED BY <2>1, <2>2 DEF NoServicePasses, ArgumentsJudged, Identified
<1>4. ExitIsReal
  BY <1>1 DEF ExitIsReal, Answered, ExitHolds, ExitJudged, Left
<1> QED BY <1>2, <1>3, <1>4

LEMMA ProcessStays ==
  ASSUME ProcessInv, UNCHANGED evidenceVars
  PROVE  ProcessInv'
<1>1. query' = query /\ machine' = machine /\ seen' = seen /\ answer' = answer
  BY DEF evidenceVars
<1>2. query.kind \in Kinds /\ answer.done \in BOOLEAN /\ ArgumentsHold /\ InspectHolds /\ ExitHolds
  BY DEF ProcessInv
<1>3. ArgumentsHold'
  BY <1>1, <1>2 DEF ArgumentsHold
<1>4. InspectHolds'
  BY <1>1, <1>2 DEF InspectHolds, Fields
<1>5. ExitHolds'
  BY <1>1, <1>2 DEF ExitHolds
<1> QED BY <1>1, <1>2, <1>3, <1>4, <1>5 DEF ProcessInv

\* A step of another query.
LEMMA OtherKeeps ==
  ASSUME ProcessInv, query' = query, answer'.done \in BOOLEAN,
         query.kind \notin {"arguments", "inspect", "exit"}
  PROVE  ProcessInv'
BY DEF ProcessInv, ArgumentsHold, InspectHolds, ExitHolds

LEMMA JudgeKeeps ==
  ASSUME ProcessInv, JudgeArguments
  PROVE  ProcessInv'
<1>1. /\ query.kind = "arguments" /\ query' = query /\ machine' = machine
      /\ machine.argv \in Arguments /\ query.linux \in BOOLEAN
  BY DEF ProcessInv, JudgeArguments, ArgumentsHold
<1>2. PICK ps \in PsArguments(machine.argv, query.linux),
           told \in KernelArguments(machine.argv, query.linux) :
        answer' = [done |-> TRUE, value |->
                   [arguments |-> ReconcileArguments(ps, told).arguments,
                    shared |-> ReconcileArguments(ps, told).shared,
                    cut |-> ps # machine.argv, whole |-> told.status = "present"]]
  BY DEF JudgeArguments, Answers
<1>3. ArgumentsJudged(answer'.value, machine.argv, query.linux)
  <2> DEFINE v == [arguments |-> ReconcileArguments(ps, told).arguments,
                   shared |-> ReconcileArguments(ps, told).shared,
                   cut |-> ps # machine.argv, whole |-> told.status = "present"]
  <2>1. /\ v.arguments = ReconcileArguments(ps, told).arguments
        /\ v.shared = ReconcileArguments(ps, told).shared
        /\ v.cut = (ps # machine.argv) /\ v.whole = (told.status = "present")
    OBVIOUS
  <2>2. answer'.value = v
    BY <1>2
  <2> HIDE DEF v
  <2>3. ArgumentsJudged(v, machine.argv, query.linux)
    BY <1>1, <2>1, ReconciledMeans
  <2> QED BY <2>2, <2>3
<1>4. answer'.done = TRUE
  BY <1>2
<1> QED BY <1>1, <1>3, <1>4 DEF ProcessInv, ArgumentsHold, InspectHolds, ExitHolds

LEMMA ReadExitKeeps ==
  ASSUME ProcessInv, ~answer.done, ReadExit
  PROVE  ProcessInv'
<1>1. /\ query.kind = "exit" /\ query' = query /\ machine' = machine /\ answer' = answer
      /\ machine \in Processes /\ seen = <<>> /\ answer.done \in BOOLEAN
  BY DEF ProcessInv, ReadExit, ExitHolds
<1> DEFINE v == IF machine.who = 0 THEN Gone ELSE Sample
<1>2. PICK r \in Ps(machine.who # 0, v) : seen' = <<StartTime(r), machine>>
  BY DEF ReadExit
<1>3. /\ StartTime(r).status \in {"unknown", "absent", "present"}
      /\ StartTime(r).status = "present" => machine.who # 0 /\ StartTime(r).value = <<v>>
  <2> DEFINE exists == machine.who # 0
  <2>1. exists \in BOOLEAN
    OBVIOUS
  <2> HIDE DEF exists, v
  <2>2. r \in Ps(exists, v)
    BY <1>2 DEF exists
  <2> QED BY <2>1, <2>2, PsSays DEF exists
<1>4. machine.who # 0 => v = [start |-> machine.starts[machine.who], zombie |-> machine.zombie]
  BY DEF Sample
<1> HIDE DEF v
<1>5. Sampled(StartTime(r), machine, machine)
  BY <1>1, <1>3, <1>4 DEF Sampled
<1>6. \E o, m : seen' = <<o, m>> /\ Sampled(o, m, machine')
  BY <1>1, <1>2, <1>5
<1> QED BY <1>1, <1>6 DEF ProcessInv, ExitHolds, ArgumentsHold, InspectHolds

LEMMA ConfirmExitKeeps ==
  ASSUME ProcessInv, ConfirmExit
  PROVE  ProcessInv'
<1>1. /\ query.kind = "exit" /\ query' = query /\ machine' = machine /\ seen' = seen
      /\ machine \in Processes
  BY DEF ProcessInv, ConfirmExit, ExitHolds
<1>2. PICK o, m : seen = <<o, m>> /\ Sampled(o, m, machine)
  BY DEF ProcessInv, ConfirmExit, ExitHolds
<1>3. PICK c \in IF o.status = "absent" THEN ConfirmAbsence(machine.who # 0) ELSE {o} :
        answer' = [done |-> TRUE, value |-> OriginalProcessExited(c, machine.starts[1])]
  <2>1. seen[1] = o
    BY <1>2
  <2> QED BY <2>1 DEF ConfirmExit, Answers
<1> DEFINE v == OriginalProcessExited(c, machine.starts[1])
<1>4. ExitJudged(v, seen, machine)
  <2>1. CASE c.status = "unknown"
    <3>1. v = "unknown"
      BY <2>1 DEF OriginalProcessExited
    <3> QED BY <3>1 DEF ExitJudged
  <2>2. CASE c.status = "absent"
    <3>1. v = "exited"
      BY <2>2 DEF OriginalProcessExited
    <3>2. machine.who = 0
      BY <1>3, <2>2 DEF ConfirmAbsence, Unknown, Absent
    <3> QED BY <3>1, <3>2 DEF ExitJudged, Left
  <2>3. CASE c = o /\ o.status = "present"
    <3>1. /\ m.who # 0 /\ o.value[1].start = m.starts[m.who] /\ o.value[1].zombie = m.zombie
          /\ m.starts = machine.starts /\ (Left(m) => Left(machine)) /\ m.zombie \in BOOLEAN
      BY <1>2, <2>3 DEF Sampled, Processes
    <3>2. seen[2] = m
      BY <1>2
    <3>3. v = IF o.value[1].start # machine.starts[1] \/ o.value[1].zombie
              THEN "exited" ELSE "running"
      BY <2>3 DEF OriginalProcessExited
    <3> HIDE DEF v
    <3>4. CASE m.starts[m.who] # machine.starts[1]
      <4>1. v = "exited" /\ Left(m)
        BY <3>1, <3>3, <3>4 DEF Left
      <4> QED BY <3>1, <4>1 DEF ExitJudged
    <3>5. CASE m.zombie
      <4>1. v = "exited" /\ Left(m)
        BY <3>1, <3>3, <3>5 DEF Left
      <4> QED BY <3>1, <4>1 DEF ExitJudged
    <3>6. CASE m.starts[m.who] = machine.starts[1] /\ ~m.zombie
      <4>1. v = "running"
        BY <3>1, <3>3, <3>6
      <4> QED BY <3>1, <3>2, <3>6, <4>1 DEF ExitJudged
    <3> QED BY <3>4, <3>5, <3>6
  <2>4. o.status \in {"unknown", "absent", "present"}
    BY <1>2 DEF Sampled
  <2>5. c.status \in {"unknown", "absent"} \/ c = o
    BY <1>3 DEF ConfirmAbsence, Unknown, Absent
  <2> QED BY <2>1, <2>2, <2>3, <2>4, <2>5
<1> HIDE DEF v
<1>5. answer'.done = TRUE /\ answer'.value = v
  BY <1>3 DEF v
<1>6. \E a, b : seen' = <<a, b>> /\ Sampled(a, b, machine')
  BY <1>1, <1>2
<1> QED BY <1>1, <1>4, <1>5, <1>6 DEF ProcessInv, ExitHolds, ArgumentsHold, InspectHolds

\* What is read of a process that does not change is what it is.
LEMMA FieldTold ==
  ASSUME machine \in Processes, NEW f \in Fields, NEW said \in FieldAnswers(f)
  PROVE  Told(machine, f, said)
<1>1. CASE f = "kernel"
  BY <1>1 DEF FieldAnswers, Told
<1>2. CASE f # "kernel"
  <2> DEFINE v == IF machine.who = 0 THEN 0 ELSE Truth(f)
             exists == machine.who # 0
  <2>1. PICK r \in Ps(exists, v) : said = StartTime(r)
    BY <1>2 DEF FieldAnswers
  <2>2. exists \in BOOLEAN
    OBVIOUS
  <2>3. exists => v = TruthOf(machine, f)
    BY DEF Truth, TruthOf
  <2> HIDE DEF v, exists
  <2>4. said.status = "present" => exists /\ said.value = <<v>>
    BY <2>1, <2>2, PsSays
  <2>5. said.status = "present" => exists /\ said.value = <<TruthOf(machine, f)>>
    BY <2>3, <2>4
  <2> QED BY <1>2, <2>5 DEF Told, exists
<1> QED BY <1>1, <1>2

\* It is told of the process, whether it changed before or not.
LEMMA SameTold ==
  ASSUME NEW m, NEW n, m.who = n.who, m.zombie = n.zombie, m.argv = n.argv, m.starts = n.starts,
         NEW f, NEW said, Told(m, f, said)
  PROVE  Told(n, f, said)
BY DEF Told, TruthOf

LEMMA ObserveKeeps ==
  ASSUME ProcessInv, ~answer.done, NEW f, ObserveField(f)
  PROVE  ProcessInv'
<1>1. /\ query.kind = "inspect" /\ query' = query /\ answer' = answer
      /\ f \in Fields /\ f \notin DOMAIN seen /\ Fields' = Fields
      /\ query.linux \in BOOLEAN /\ machine \in Processes /\ DOMAIN seen \subseteq Fields
      /\ ~machine.changed => \A g \in DOMAIN seen : Told(machine, g, seen[g])
  BY DEF ProcessInv, InspectHolds, ObserveField, Fields
<1>2. PICK said \in FieldAnswers(f) :
        \E o \in IF f = "start" /\ said.status = "absent" THEN ConfirmAbsence(machine.who # 0)
                 ELSE {said} :
          seen' = [g \in DOMAIN seen \cup {f} |-> IF g = f THEN o ELSE seen[g]]
  BY DEF ObserveField
<1>3. PICK o \in IF f = "start" /\ said.status = "absent" THEN ConfirmAbsence(machine.who # 0)
                 ELSE {said} :
          seen' = [g \in DOMAIN seen \cup {f} |-> IF g = f THEN o ELSE seen[g]]
  BY <1>2
<1>4. Told(machine, f, o)
  <2>1. CASE o = said
    BY <1>1, <2>1, FieldTold
  <2>2. CASE f = "start" /\ o \in ConfirmAbsence(machine.who # 0)
    <3>1. o.status # "present"
      BY <2>2 DEF ConfirmAbsence, Unknown, Absent
    <3> QED BY <2>2, <3>1 DEF Told
  <2> QED BY <1>3, <2>1, <2>2
<1>5. /\ DOMAIN seen' = DOMAIN seen \cup {f} /\ seen'[f] = o
      /\ \A g \in DOMAIN seen : seen'[g] = seen[g]
  BY <1>1, <1>3
<1> DEFINE c == machine.changed /\ DOMAIN seen # {}
<1>6. machine' = [machine EXCEPT !.changed = c]
  BY <1>1 DEF ObserveField, Processes
<1>7. c \in BOOLEAN /\ (~c => (~machine.changed \/ DOMAIN seen = {}))
  OBVIOUS
<1> HIDE DEF c
<1>8. /\ machine' \in Processes /\ machine'.changed = c /\ machine'.who = machine.who
      /\ machine'.zombie = machine.zombie /\ machine'.argv = machine.argv
      /\ machine'.starts = machine.starts
  BY <1>1, <1>6, <1>7 DEF Processes
<1>9. ASSUME ~machine'.changed, NEW g \in DOMAIN seen'
      PROVE  Told(machine', g, seen'[g])
  <2>1. CASE g = f
    <3>1. Told(machine, f, seen'[g])
      BY <1>4, <1>5, <2>1
    <3> QED BY <1>8, <2>1, <3>1, SameTold
  <2>2. CASE g \in DOMAIN seen
    <3>1. Told(machine, g, seen'[g])
      BY <1>1, <1>5, <1>7, <1>8, <1>9, <2>2
    <3> QED BY <1>8, <3>1, SameTold
  <2> QED BY <1>5, <1>9, <2>1, <2>2
<1>10. InspectHolds'
  <2>1. DOMAIN seen' \subseteq Fields'
    BY <1>1, <1>5
  <2> QED BY <1>1, <1>8, <1>9, <2>1 DEF InspectHolds
<1> QED BY <1>1, <1>10 DEF ProcessInv, ArgumentsHold, ExitHolds

LEMMA InspectKeeps ==
  ASSUME ProcessInv, InspectProcess
  PROVE  ProcessInv'
<1>1. /\ query.kind = "inspect" /\ query' = query /\ machine' = machine /\ seen' = seen
      /\ DOMAIN seen = Fields /\ Fields' = Fields
      /\ query.linux \in BOOLEAN /\ machine \in Processes
      /\ ~machine.changed => \A g \in DOMAIN seen : Told(machine, g, seen[g])
  BY DEF ProcessInv, InspectHolds, InspectProcess, Fields
<1> DEFINE ps == IF seen["args"].status = "present" THEN seen["args"].value[1] ELSE Nobody
           told == IF query.linux THEN seen["kernel"] ELSE [status |-> "none", argv |-> Nobody]
           evidence == ReconcileArguments(ps, told)
           complete == /\ \A f \in {"ppid", "start", "comm"} : seen[f].status = "present"
                       /\ evidence.arguments
           v == [complete |-> complete, shared |-> evidence.shared,
                 who |-> {seen[f].value : f \in {"ppid", "comm"}}]
<1>2. answer' = [done |-> TRUE, value |-> v]
  BY DEF InspectProcess, Answers
<1>3. /\ v.complete = complete /\ v.shared = evidence.shared
      /\ v.who = {seen["ppid"].value, seen["comm"].value}
  OBVIOUS
<1>4. Identified(v, machine)
  <2> HIDE DEF v, evidence
  <2> SUFFICES ASSUME complete, ~machine.changed
               PROVE  /\ v.who = {<<machine.who>>}
                      /\ ~machine.zombie => v.shared = (machine.argv = Service)
    BY <1>3 DEF Identified
  <2>1. {"ppid", "start", "comm", "args"} \subseteq DOMAIN seen
    BY <1>1 DEF Fields
  <2>2. /\ seen["ppid"].value = <<machine.who>> /\ seen["comm"].value = <<machine.who>>
    BY <1>1, <2>1 DEF Told, TruthOf
  <2>3. v.who = {<<machine.who>>}
    BY <1>3, <2>2
  <2>4. ASSUME ~machine.zombie PROVE v.shared = (machine.argv = Service)
    <3>1. machine.argv \in {Interactive, Service}
      BY <1>1 DEF Processes
    <3>2. ps = Nobody \/ ps = machine.argv
      <4>1. Told(machine, "args", seen["args"])
        BY <1>1, <2>1
      <4>2. seen["args"].status = "present" => seen["args"].value[1] = machine.argv
        BY <2>4, <4>1 DEF Told, TruthOf
      <4> QED BY <4>2
    <3>3. evidence.arguments
      OBVIOUS
    <3>4. CASE query.linux
      <4>1. "kernel" \in DOMAIN seen
        BY <1>1, <3>4 DEF Fields
      <4>2. \/ told = [status |-> "unknown", argv |-> Nobody]
            \/ told = [status |-> "present", argv |-> machine.argv]
        BY <1>1, <2>4, <3>4, <4>1 DEF Told
      <4> HIDE DEF ps, told
      <4>3. told.status \in {"unknown", "present"} /\ told.status # "none"
        BY <4>2
      <4>4. ps # Nobody /\ told.status = "present" /\ ps = told.argv
            /\ ClassifyCodexMode(told.argv) # "error"
        BY <3>3, <4>3 DEF evidence, ReconcileArguments
      <4>5. evidence.shared = (ClassifyCodexMode(told.argv) = "shared") /\ told.argv = machine.argv
        BY <4>2, <4>4 DEF evidence, ReconcileArguments
      <4> QED BY <1>3, <3>1, <4>5, TwoModes
    <3>5. CASE ~query.linux
      <4>1. told = [status |-> "none", argv |-> Nobody]
        BY <3>5
      <4> HIDE DEF ps, told
      <4>2. evidence = [arguments |-> ps # Nobody,
                        shared |-> FlattenedSharedService(ps) \/ FlattenedSharedService(Nobody)]
        BY <4>1 DEF evidence, ReconcileArguments
      <4>3. ps = machine.argv
        BY <3>2, <3>3, <4>2
      <4>4. evidence.shared = (FlattenedSharedService(machine.argv) \/ FlattenedSharedService(Nobody))
        BY <4>2, <4>3
      <4>5. ~FlattenedSharedService(Nobody) /\ ~FlattenedSharedService(Interactive)
            /\ FlattenedSharedService(Service)
        BY TwoModes
      <4>6. Interactive # Service
        BY <4>5
      <4>7. evidence.shared = (machine.argv = Service)
        BY <3>1, <4>4, <4>5, <4>6
      <4> QED BY <1>3, <4>7
    <3> QED BY <3>4, <3>5
  <2> QED BY <2>3, <2>4
<1> HIDE DEF v
<1>5. answer'.done = TRUE /\ answer'.value = v
  BY <1>2
<1>6. InspectHolds'
  BY <1>1, <1>4, <1>5 DEF InspectHolds
<1> QED BY <1>1, <1>5, <1>6 DEF ProcessInv, ArgumentsHold, ExitHolds

\* A change of the process, which is gone for good once it is gone.
LEMMA ChangeKeeps ==
  ASSUME ProcessInv, ~answer.done, Lives, machine' \in Processes, machine'.changed,
         machine'.starts = machine.starts, Left(machine) => Left(machine')
  PROVE  ProcessInv'
<1>1. /\ query' = query /\ seen' = seen /\ answer' = answer /\ query.kind \in {"exit", "inspect"}
      /\ query.kind \in Kinds
  BY DEF Lives, ProcessInv
<1>2. InspectHolds'
  BY <1>1 DEF ProcessInv, InspectHolds, Fields
<1>3. ExitHolds'
  <2>1. SUFFICES ASSUME query.kind = "exit" PROVE ExitHolds'
    BY <1>1 DEF ExitHolds
  <2>2. CASE seen = <<>>
    BY <1>1, <2>2 DEF ExitHolds
  <2>3. CASE seen # <<>>
    <3>1. PICK o, m : seen = <<o, m>> /\ Sampled(o, m, machine)
      BY <2>1, <2>3 DEF ProcessInv, ExitHolds
    <3>2. Sampled(o, m, machine')
      BY <3>1 DEF Sampled
    <3>3. \E a, b : seen' = <<a, b>> /\ Sampled(a, b, machine')
      BY <1>1, <3>1, <3>2
    <3> QED BY <1>1, <3>3 DEF ExitHolds
  <2> QED BY <2>2, <2>3
<1> QED BY <1>1, <1>2, <1>3 DEF ProcessInv, ArgumentsHold

LEMMA WorldKeeps ==
  ASSUME ProcessInv, ~answer.done, World
  PROVE  ProcessInv'
<1>1. CASE FilesChange
  BY <1>1, OtherKeeps DEF FilesChange, ProcessInv
<1>2. Lives => machine \in Processes
  BY DEF Lives, ProcessInv, InspectHolds, ExitHolds
<1>3. CASE Execs
  <2> DEFINE m == [machine EXCEPT !.argv = Service]
  <2>1. Lives /\ machine \in Processes /\ machine' = [m EXCEPT !.changed = TRUE]
    BY <1>2, <1>3 DEF Execs, Becomes
  <2>2. machine' \in Processes /\ machine'.changed /\ machine'.starts = machine.starts
        /\ machine'.who = machine.who /\ machine'.zombie = machine.zombie
    BY <2>1 DEF Processes
  <2> QED BY <2>1, <2>2, ChangeKeeps DEF Left
<1>4. CASE Exits
  <2> DEFINE m == [machine EXCEPT !.zombie = TRUE]
  <2>1. Lives /\ machine \in Processes /\ machine' = [m EXCEPT !.changed = TRUE]
    BY <1>2, <1>4 DEF Exits, Becomes
  <2>2. machine' \in Processes /\ machine'.changed /\ machine'.starts = machine.starts
        /\ machine'.zombie
    BY <2>1 DEF Processes
  <2> QED BY <2>1, <2>2, ChangeKeeps DEF Left
<1>5. CASE Reaped
  <2> DEFINE m == [machine EXCEPT !.zombie = FALSE, !.who = 0]
  <2>1. Lives /\ machine \in Processes /\ machine' = [m EXCEPT !.changed = TRUE]
    BY <1>2, <1>5 DEF Reaped, Becomes
  <2>3. m \in Processes /\ m.starts = machine.starts /\ m.who = 0
    <3> DEFINE k == [machine EXCEPT !.zombie = FALSE]
    <3>1. k \in Processes /\ k.starts = machine.starts
      BY <2>1 DEF Processes
    <3>2. m = [k EXCEPT !.who = 0]
      OBVIOUS
    <3> HIDE DEF k, m
    <3> QED BY <3>1, <3>2 DEF Processes
  <2> HIDE DEF m
  <2>2. machine' \in Processes /\ machine'.changed /\ machine'.starts = machine.starts
        /\ machine'.who = 0
    BY <2>1, <2>3 DEF Processes
  <2> QED BY <2>1, <2>2, ChangeKeeps DEF Left
<1>6. CASE PidReused
  <2>1. PICK a \in {Interactive, Service} :
          machine' = [[machine EXCEPT !.who = 2, !.reused = TRUE, !.argv = a] EXCEPT !.changed = TRUE]
    BY <1>6 DEF PidReused, Becomes
  <2>2. Lives /\ machine \in Processes
    BY <1>2, <1>6 DEF PidReused
  <2> DEFINE m == [machine EXCEPT !.who = 2, !.reused = TRUE, !.argv = a]
  <2>4. /\ m \in Processes /\ m.starts = machine.starts /\ m.who = 2
        /\ machine' = [m EXCEPT !.changed = TRUE]
    <3> DEFINE k == [machine EXCEPT !.who = 2]
               l == [k EXCEPT !.reused = TRUE]
    <3>1. k \in Processes /\ k.starts = machine.starts /\ k.who = 2
      BY <2>2 DEF Processes
    <3>2. m = [l EXCEPT !.argv = a] /\ machine' = [m EXCEPT !.changed = TRUE]
      BY <2>1
    <3> HIDE DEF k, m
    <3>3. l \in Processes /\ l.starts = k.starts /\ l.who = k.who
      BY <3>1 DEF Processes
    <3> HIDE DEF l
    <3>4. m \in Processes /\ m.starts = l.starts /\ m.who = l.who
      BY <3>2, <3>3 DEF Processes
    <3> QED BY <3>1, <3>2, <3>3, <3>4
  <2> HIDE DEF m
  <2>3. machine' \in Processes /\ machine'.changed /\ machine'.starts = machine.starts
        /\ machine'.who = 2
    BY <2>4 DEF Processes
  <2> QED BY <2>2, <2>3, ChangeKeeps DEF Left
<1> QED BY <1>1, <1>3, <1>4, <1>5, <1>6 DEF World

LEMMA ProcessStepKeeps ==
  ASSUME ProcessInv, EvidenceStep
  PROVE  ProcessInv'
<1>1. ~answer.done
  BY DEF EvidenceStep
<1>2. CASE World
  BY <1>1, <1>2, WorldKeeps
<1>3. CASE FindLockOpeners
  BY <1>3, OtherKeeps DEF FindLockOpeners, Answers
<1>4. CASE ReadProcessTable
  BY <1>4, OtherKeeps DEF ReadProcessTable, Answers
<1>5. CASE ReadOpenFiles
  BY <1>5, OtherKeeps DEF ReadOpenFiles, ProcessInv
<1>6. CASE LockFilesOpenedByProcess
  BY <1>6, OtherKeeps DEF LockFilesOpenedByProcess, Answers
<1>7. CASE ReadExit
  BY <1>1, <1>7, ReadExitKeeps
<1>8. CASE ConfirmExit
  BY <1>8, ConfirmExitKeeps
<1>9. CASE JudgeArguments
  BY <1>9, JudgeKeeps
<1>10. CASE InspectProcess
  BY <1>10, InspectKeeps
<1>11. ASSUME NEW f, ObserveField(f) PROVE ProcessInv'
  BY <1>1, <1>11, ObserveKeeps
<1> QED BY <1>2, <1>3, <1>4, <1>5, <1>6, <1>7, <1>8, <1>9, <1>10, <1>11 DEF EvidenceStep, Concludes

LEMMA ProcessBegins == SourcesInit => ProcessInv
<1> SUFFICES ASSUME SourcesInit PROVE ProcessInv
  OBVIOUS
<1>1. CASE source # "process"
  <2>1. query = [kind |-> "openers"] /\ answer = [done |-> FALSE]
    BY <1>1 DEF SourcesInit, Unanswered
  <2>2. query.kind = "openers" /\ answer.done = FALSE
    BY <2>1
  <2> QED BY <2>2 DEF ProcessInv, Kinds, ArgumentsHold, InspectHolds, ExitHolds
<1>2. CASE source = "process"
  <2>1. EvidenceInit
    BY <1>2 DEF SourcesInit
  <2>2. seen = <<>> /\ answer.done = FALSE /\ DOMAIN seen = {}
    BY <2>1 DEF EvidenceInit, Unanswered
  <2>3. ASSUME NEW m \in Process PROVE m \in Processes
    <3>1. 1 \in 0..2 /\ FALSE \in BOOLEAN
      OBVIOUS
    <3>2. m = [who |-> m.who, zombie |-> m.zombie, reused |-> m.reused, changed |-> m.changed,
               argv |-> m.argv, starts |-> m.starts]
          /\ m.who = 1 /\ m.zombie = FALSE /\ m.reused = FALSE /\ m.changed = FALSE
          /\ m.argv \in {Interactive, Service} /\ m.starts \in {<<1, 2>>, <<1, 1>>}
      BY <2>3 DEF Process
    <3> QED BY <3>1, <3>2 DEF Processes
  <2>4. ASSUME NEW a \in Argvs PROVE a \in Arguments
    <3>1. \A n \in Nat : BoundedSeq(Words, n) \subseteq Seq(Words)
      BY DEF BoundedSeq, SeqOf
    <3>2. BoundedSeq(Words, MaxArguments) \subseteq Seq(Words) /\ BoundedSeq(Words, 1) \subseteq Seq(Words)
      BY <3>1, EvidenceAssumption
    <3> QED BY <2>4, <3>2 DEF Argvs, Arguments
  <2>5. PICK c \in Cases : query = c[1] /\ machine = c[2]
    BY <2>1 DEF EvidenceInit
  <2>6. \/ query.kind \in {"openers", "table", "locks"}
        \/ query.kind = "exit" /\ machine \in Process
        \/ query.kind = "inspect" /\ query.linux \in BOOLEAN /\ machine \in Process
        \/ /\ query.kind = "arguments" /\ query.linux \in BOOLEAN
           /\ \E a \in Argvs : machine = [argv |-> a]
    BY <2>5 DEF Cases
  <2>7. CASE query.kind \in {"openers", "table", "locks"}
    BY <2>2, <2>7 DEF ProcessInv, Kinds, ArgumentsHold, InspectHolds, ExitHolds
  <2>8. CASE query.kind = "exit" /\ machine \in Process
    BY <2>2, <2>3, <2>8 DEF ProcessInv, Kinds, ArgumentsHold, InspectHolds, ExitHolds
  <2>9. CASE query.kind = "inspect" /\ query.linux \in BOOLEAN /\ machine \in Process
    BY <2>2, <2>3, <2>9 DEF ProcessInv, Kinds, ArgumentsHold, InspectHolds, ExitHolds
  <2>10. CASE /\ query.kind = "arguments" /\ query.linux \in BOOLEAN
              /\ \E a \in Argvs : machine = [argv |-> a]
    <3>1. machine.argv \in Arguments
      BY <2>4, <2>10
    <3> QED BY <2>2, <2>10, <3>1 DEF ProcessInv, Kinds, ArgumentsHold, InspectHolds, ExitHolds
  <2> QED BY <2>6, <2>7, <2>8, <2>9, <2>10
<1> QED BY <1>1, <1>2

LEMMA ProcessKeeps ==
  ASSUME ProcessInv, [SourcesNext]_sourcesVars
  PROVE  ProcessInv'
<1>1. CASE UNCHANGED evidenceVars
  BY <1>1, ProcessStays
<1>2. CASE EvidenceStep
  BY <1>2, ProcessStepKeeps
<1> QED BY <1>1, <1>2 DEF SourcesNext, sourcesVars, Runs, Concluding, Scanning

-----------------------------------------------------------------------------
(* Sequences of sequences, and of the elements of a set.                    *)

\* A sequence of the elements of a finite set has them all.
LEMMA AllInSeq ==
  ASSUME NEW S, IsFiniteSet(S)
  PROVE  /\ SetToSeq(S) \in [1..Cardinality(S) -> S]
         /\ Cardinality(S) \in Nat
         /\ S = {SetToSeq(S)[i] : i \in 1..Cardinality(S)}
<1> DEFINE n == Cardinality(S)
           f == SetToSeq(S)
           Orders == {g \in [1..n -> S] : IsInjective(g)}
<1>1. n \in Nat /\ ExistsBijection(1..n, S)
  BY FS_CardinalityType
<1>2. Orders # {}
  BY <1>1 DEF ExistsBijection, Bijection, Injection
<1>3. f \in Orders
  BY <1>2 DEF SetToSeq
<1>4. f \in Injection(1..n, S)
  BY <1>3 DEF Injection
<1>5. IsFiniteSet(1..n) /\ Cardinality(1..n) = n
  BY <1>1, FS_Interval
<1> HIDE DEF f, n
<1>6. f \in Surjection(1..n, S)
  BY <1>1, <1>4, <1>5, FS_Injection DEF n
<1>7. f \in [1..n -> S] /\ \A x \in S : \E i \in 1..n : f[i] = x
  BY <1>6 DEF Surjection
<1>8. S = {f[i] : i \in 1..n}
  BY <1>7
<1> QED BY <1>1, <1>7, <1>8 DEF f, n

\* h[k] is the first k sequences of t, one after the other.
Joined(S, t, h) ==
  /\ h \in [0..Len(t) -> Seq(S)]
  /\ h[0] = <<>>
  /\ \A k \in 1..Len(t) : h[k] = h[k - 1] \o t[k]

LEMMA FlattenRuns ==
  ASSUME NEW S, NEW t \in Seq(Seq(S))
  PROVE  \E h : Joined(S, t, h) /\ FlattenSeq(t) = h[Len(t)]
<1> DEFINE turn == [p \in Seq(S) \X Seq(S) |-> p[1] \o p[2]]
           n == Len(t)
           Follows(f) == f = [i \in 1..n |-> IF i = 1 THEN t[i] ELSE f[i - 1] \o t[i]]
           flat == CHOOSE f : Follows(f)
<1>1. turn \in [Seq(S) \X Seq(S) -> Seq(S)] /\ \A a, b \in Seq(S) : turn[<<a, b>>] = a \o b
  <2>1. \A a, b \in Seq(S) : a \o b \in Seq(S)
    BY ConcatProperties
  <2> QED BY <2>1
<1> HIDE DEF turn
<1>2. <<>> \in Seq(S) /\ n \in Nat /\ \A k \in 1..n : t[k] \in Seq(S)
  <2> DEFINE R == Seq(S)
  <2>1. t \in Seq(R)
    OBVIOUS
  <2> HIDE DEF R
  <2>2. \A k \in 1..Len(t) : t[k] \in R
    BY <2>1
  <2> QED BY <2>2 DEF R
<1>3. PICK h : Loop(h, Seq(S), <<>>, turn, t)
  BY <1>1, <1>2, LoopExists
<1>4. Joined(S, t, h)
  <2>1. ASSUME NEW k \in 1..n PROVE h[k] = h[k - 1] \o t[k]
    <3>1. h[k - 1] \in Seq(S) /\ t[k] \in Seq(S)
      <4>1. k - 1 \in 0..n
        OBVIOUS
      <4> QED BY <1>2, <1>3, <4>1 DEF Loop
    <3> QED BY <1>1, <1>3, <3>1 DEF Loop
  <2> QED BY <1>3, <2>1 DEF Joined, Loop
<1>5. CASE n = 0
  <2>1. FlattenSeq(t) = t /\ t = <<>>
    BY <1>5 DEF FlattenSeq
  <2> QED BY <1>4, <1>5, <2>1 DEF Joined
<1>6. CASE n # 0
  <2>1. n \in 1..n /\ 1 \in 1..n
    BY <1>2, <1>6
  <2> DEFINE g == [k \in 1..n |-> h[k]]
  <2>2. \A k \in 1..n : g[k] = IF k = 1 THEN t[k] ELSE g[k - 1] \o t[k]
    <3> SUFFICES ASSUME NEW k \in 1..n PROVE g[k] = IF k = 1 THEN t[k] ELSE g[k - 1] \o t[k]
      OBVIOUS
    <3>1. h[k] = h[k - 1] \o t[k] /\ t[k] \in Seq(S)
      BY <1>2, <1>4 DEF Joined
    <3>2. CASE k = 1
      <4>1. <<>> \o t[k] = t[k]
        BY <3>1, ConcatEmptySeq
      <4>2. h[k - 1] = <<>>
        BY <1>4, <3>2 DEF Joined
      <4>3. h[k] = t[k]
        BY <3>1, <4>1, <4>2
      <4> QED BY <3>2, <4>3
    <3>3. CASE k # 1
      <4>1. k - 1 \in 1..n
        BY <3>3
      <4> QED BY <3>1, <3>3, <4>1
    <3> QED BY <3>2, <3>3
  <2>3. Follows(g)
    <3>1. g = [k \in 1..n |-> g[k]]
      OBVIOUS
    <3> HIDE DEF g
    <3> QED BY <2>2, <3>1
  <2>4. Follows(flat)
    <3> HIDE DEF Follows
    <3> QED BY <2>3
  <2>5. FlattenSeq(t) = flat[n]
    BY <1>6 DEF FlattenSeq
  <2> HIDE DEF flat
  <2>6. \A k \in 1..n : flat[k] = IF k = 1 THEN t[k] ELSE flat[k - 1] \o t[k]
    BY <2>4, Zenon
  <2> DEFINE T == {k \in 0..n : k = 0 \/ flat[k] = g[k]}
  <2>7. 0 \in T
    BY <1>2
  <2>8. ASSUME NEW k \in 0..(n - 1), k \in T PROVE k + 1 \in T
    <3>1. k + 1 \in 1..n /\ k + 1 \in 0..n /\ (k + 1) - 1 = k /\ (k = 0 <=> k + 1 = 1)
      BY <1>2
    <3>2. k # 0 => flat[k] = g[k]
      BY <2>8
    <3> HIDE DEF g
    <3>3. flat[k + 1] = IF k + 1 = 1 THEN t[k + 1] ELSE flat[k] \o t[k + 1]
      BY <2>6, <3>1
    <3>4. g[k + 1] = IF k + 1 = 1 THEN t[k + 1] ELSE g[k] \o t[k + 1]
      BY <2>2, <3>1
    <3>5. flat[k + 1] = g[k + 1]
      BY <3>1, <3>2, <3>3, <3>4
    <3> QED BY <3>1, <3>5
  <2> HIDE DEF T, g
  <2>9. \A k \in 0..n : k \in T
    BY <1>2, <2>7, <2>8, UpTo
  <2>10. flat[n] = g[n]
    BY <1>2, <1>6, <2>1, <2>9 DEF T
  <2> QED BY <1>4, <2>1, <2>5, <2>10 DEF g
<1> QED BY <1>5, <1>6

-----------------------------------------------------------------------------
(* The openers of a lock.                                                   *)

LEMMA ProcessesJoin ==
  ASSUME NEW S, NEW a \in Seq(S), NEW b \in Seq(S)
  PROVE  ParseLsofProcesses(a \o b) = ParseLsofProcesses(a) \cup ParseLsofProcesses(b)
<1> DEFINE c == a \o b
<1>1. /\ c \in Seq(S) /\ Len(c) = Len(a) + Len(b) /\ Len(a) \in Nat /\ Len(b) \in Nat
      /\ \A i \in 1..(Len(a) + Len(b)) : c[i] = IF i <= Len(a) THEN a[i] ELSE b[i - Len(a)]
  BY ConcatProperties
<1>2. DOMAIN a = 1..Len(a) /\ DOMAIN b = 1..Len(b) /\ DOMAIN c = 1..(Len(a) + Len(b))
  <2> HIDE DEF c
  <2> QED BY <1>1
<1> HIDE DEF c
<1>3. ASSUME NEW x \in ParseLsofProcesses(a) PROVE x \in ParseLsofProcesses(c)
  <2>1. PICK i \in DOMAIN a : a[i][1] = "p" /\ x = a[i][2]
    BY DEF ParseLsofProcesses
  <2>2. i \in DOMAIN c /\ c[i] = a[i]
    BY <1>1, <1>2
  <2> QED BY <2>1, <2>2 DEF ParseLsofProcesses
<1>4. ASSUME NEW x \in ParseLsofProcesses(b) PROVE x \in ParseLsofProcesses(c)
  <2>1. PICK i \in DOMAIN b : b[i][1] = "p" /\ x = b[i][2]
    BY DEF ParseLsofProcesses
  <2>2. i + Len(a) \in DOMAIN c /\ c[i + Len(a)] = b[i]
    BY <1>1, <1>2
  <2> QED BY <2>1, <2>2 DEF ParseLsofProcesses
<1>5. ASSUME NEW x \in ParseLsofProcesses(c)
      PROVE  x \in ParseLsofProcesses(a) \cup ParseLsofProcesses(b)
  <2>1. PICK i \in DOMAIN c : c[i][1] = "p" /\ x = c[i][2]
    BY DEF ParseLsofProcesses
  <2>2. CASE i <= Len(a)
    <3>1. i \in DOMAIN a /\ c[i] = a[i]
      BY <1>1, <1>2, <2>2
    <3> QED BY <2>1, <3>1 DEF ParseLsofProcesses
  <2>3. CASE ~(i <= Len(a))
    <3>1. i - Len(a) \in DOMAIN b /\ c[i] = b[i - Len(a)]
      BY <1>1, <1>2, <2>3
    <3> QED BY <2>1, <3>1 DEF ParseLsofProcesses
  <2> QED BY <2>2, <2>3
<1> QED BY <1>3, <1>4, <1>5 DEF c

\* lsof's fields give every opener.
LEMMA OpenersAreParsed ==
  ASSUME NEW pids, IsFiniteSet(pids)
  PROVE  ParseLsofProcesses(OpenerFields(pids)) = pids
<1> DEFINE n == Cardinality(pids)
           order == SetToSeq(pids)
           S == {"p", "c", "u"} \X pids
           said(p) == << <<"p", p>>, <<"c", p>>, <<"u", p>> >>
           t == [i \in 1..n |-> said(order[i])]
<1>1. order \in [1..n -> pids] /\ n \in Nat /\ pids = {order[i] : i \in 1..n}
  BY AllInSeq
<1>2. OpenerFields(pids) = FlattenSeq(t)
  BY DEF OpenerFields
<1> HIDE DEF n, order
<1>3. \A p \in pids : said(p) \in Seq(S)
  OBVIOUS
<1>4. \A p : ParseLsofProcesses(said(p)) = {p}
  <2> TAKE p
  <2>1. /\ DOMAIN said(p) = 1..3 /\ said(p)[1] = <<"p", p>> /\ said(p)[2] = <<"c", p>>
        /\ said(p)[3] = <<"u", p>>
    OBVIOUS
  <2> HIDE DEF said
  <2> QED BY <2>1 DEF ParseLsofProcesses
<1> HIDE DEF S, said
<1>5. t \in Seq(Seq(S)) /\ Len(t) = n
  <2> DEFINE R == Seq(S)
  <2>1. \A i \in 1..n : t[i] \in R
    BY <1>1, <1>3
  <2> HIDE DEF R
  <2>2. t \in [1..n -> R]
    BY <2>1
  <2>3. t \in Seq(R) /\ Len(t) = n
    BY <1>1, <2>2
  <2> QED BY <2>3 DEF R
<1>6. PICK h : Joined(S, t, h) /\ FlattenSeq(t) = h[Len(t)]
  BY <1>5, FlattenRuns
<1> DEFINE T == {k \in 0..n : ParseLsofProcesses(h[k]) = {order[i] : i \in 1..k}}
<1>7. 0 \in T
  <2>1. h[0] = <<>> /\ 0 \in 0..n
    BY <1>1, <1>6 DEF Joined
  <2>2. ParseLsofProcesses(<<>>) = {}
    BY DEF ParseLsofProcesses
  <2> QED BY <2>1, <2>2
<1>8. ASSUME NEW k \in 0..(n - 1), k \in T PROVE k + 1 \in T
  <2>1. k + 1 \in 1..n /\ k + 1 \in 0..n /\ (k + 1) - 1 = k /\ k \in 0..n
    BY <1>1
  <2>2. h[k] \in Seq(S) /\ t[k + 1] \in Seq(S) /\ h[k + 1] = h[k] \o t[k + 1]
    <3>1. t[k + 1] = said(order[k + 1]) /\ order[k + 1] \in pids
      BY <1>1, <2>1
    <3> HIDE DEF t
    <3>2. h \in [0..n -> Seq(S)] /\ h[k + 1] = h[(k + 1) - 1] \o t[k + 1]
      BY <1>5, <1>6, <2>1 DEF Joined
    <3> QED BY <1>3, <2>1, <3>1, <3>2
  <2>3. ParseLsofProcesses(t[k + 1]) = {order[k + 1]}
    BY <1>4, <2>1
  <2> HIDE DEF t
  <2>4. ParseLsofProcesses(h[k + 1]) = {order[i] : i \in 1..k} \cup {order[k + 1]}
    <3>1. ParseLsofProcesses(h[k] \o t[k + 1])
            = ParseLsofProcesses(h[k]) \cup ParseLsofProcesses(t[k + 1])
      BY <2>2, ProcessesJoin
    <3> QED BY <1>8, <2>2, <2>3, <3>1
  <2>5. {order[i] : i \in 1..(k + 1)} = {order[i] : i \in 1..k} \cup {order[k + 1]}
    <3>1. 1..(k + 1) = 1..k \cup {k + 1}
      BY <2>1
    <3> QED BY <3>1
  <2> QED BY <2>1, <2>4, <2>5
<1> HIDE DEF T
<1>9. \A k \in 0..n : k \in T
  BY <1>1, <1>7, <1>8, UpTo
<1>10. n \in T
  BY <1>1, <1>9
<1> QED BY <1>1, <1>2, <1>5, <1>6, <1>10 DEF T

\* A result without a failure or a warning, of a tool that was not killed, is
\* what the tool had to say.
LEMMA WholeResult ==
  ASSUME NEW code, NEW text, NEW r \in Diagnostic(code, text),
         ~r.failure, ~r.warned, r.status # "killed"
  PROVE  r.text = text /\ r.status = code
<1>1. CASE r = Says(code, text)
  BY <1>1 DEF Says
<1>2. ASSUME NEW part, NEW failed, r = [Says("killed", part) EXCEPT !.failure = failed]
      PROVE  FALSE
  BY <1>2 DEF Says
<1>3. ASSUME NEW s, NEW part, r = [Says(s, part) EXCEPT !.warned = TRUE]
      PROVE  FALSE
  BY <1>3 DEF Says
<1> QED BY <1>1, <1>2, <1>3 DEF Diagnostic

LEMMA OpenersAreAll ==
  ASSUME NEW pids, IsFiniteSet(pids), NEW code, NEW r \in Diagnostic(code, OpenerFields(pids)),
         ~LockOpeners(r).error
  PROVE  LockOpeners(r).pids = pids
<1> DEFINE found == IF r.failure THEN {} ELSE ParseLsofProcesses(r.text)
           bad == \/ r.failure \/ r.warned
                  \/ ~(r.status = "zero" \/ (r.status = "one" /\ found = {}))
<1>1. LockOpeners(r) = [pids |-> found, error |-> bad]
  BY DEF LockOpeners
<1> HIDE DEF found, bad
<1>2. LockOpeners(r).pids = found /\ ~bad
  BY <1>1
<1>3. ~r.failure /\ ~r.warned /\ r.status # "killed"
  BY <1>2 DEF bad
<1>4. r.text = OpenerFields(pids)
  BY <1>3, WholeResult
<1> QED BY <1>2, <1>3, <1>4, OpenersAreParsed DEF found

-----------------------------------------------------------------------------
(* The process table.                                                       *)

Below(people, parents, pid) ==
  LET ofChildren(S) == \A p \in people : parents[p] \in S \cup {pid} => p \in S
  IN {p \in people : \A S \in SUBSET people : ofChildren(S) => p \in S}

Above(people, parents, pid) ==
  LET ofParents(S) == /\ pid \in S
                      /\ \A p \in S : parents[p] # 0 => parents[p] \in S
  IN {p \in people : \A S \in SUBSET people : ofParents(S) => p \in S}

\* A loop that makes n turns.
Turns(f, S, base, turn, n) ==
  /\ f \in [0..n -> S] /\ f[0] = base
  /\ \A k \in 0..(n - 1) : f[k + 1] = turn[f[k]]

LEMMA TurnsExist ==
  ASSUME NEW S, NEW base \in S, NEW turn \in [S -> S], NEW n \in Nat
  PROVE  \E f : Turns(f, S, base, turn, n)
<1> DEFINE both == [p \in S \X {0} |-> turn[p[1]]]
           s == [i \in 1..n |-> 0]
<1>1. both \in [S \X {0} -> S] /\ \A x \in S : both[<<x, 0>>] = turn[x]
  OBVIOUS
<1>2. s \in Seq({0}) /\ Len(s) = n /\ \A i \in 1..n : s[i] = 0
  OBVIOUS
<1> HIDE DEF both, s
<1>3. PICK f : Loop(f, S, base, both, s)
  BY <1>1, <1>2, LoopExists
<1>4. f \in [0..n -> S] /\ f[0] = base
  BY <1>2, <1>3 DEF Loop
<1>5. ASSUME NEW k \in 0..(n - 1) PROVE f[k + 1] = turn[f[k]]
  <2>1. k + 1 \in 1..n /\ (k + 1) - 1 = k /\ k \in 0..n
    OBVIOUS
  <2>2. f[k + 1] = both[<<f[(k + 1) - 1], s[k + 1]>>]
    BY <1>2, <1>3, <2>1 DEF Loop
  <2> QED BY <1>1, <1>2, <1>4, <2>1, <2>2
<1> QED BY <1>4, <1>5 DEF Turns

\* What a recursive function of a loop has for its last value.
LEMMA TurnsAreUnique ==
  ASSUME NEW S, NEW base, NEW turn, NEW n \in Nat, NEW f, Turns(f, S, base, turn, n),
         NEW g, g[0] = base, \A k \in 0..(n - 1) : g[k] \in S => g[k + 1] = turn[g[k]]
  PROVE  g[n] = f[n]
<1> DEFINE T == {k \in 0..n : g[k] = f[k]}
<1>1. 0 \in T
  BY DEF Turns
<1>2. ASSUME NEW k \in 0..(n - 1), k \in T PROVE k + 1 \in T
  <2>1. k \in 0..n /\ k + 1 \in 0..n /\ g[k] = f[k]
    BY <1>2
  <2>2. f[k] \in S /\ f[k + 1] = turn[f[k]]
    BY <2>1 DEF Turns
  <2> QED BY <2>1, <2>2
<1> HIDE DEF T
<1>3. \A k \in 0..n : k \in T
  BY <1>1, <1>2, UpTo
<1> QED BY <1>3 DEF T

\* A set that grows for as long as it is not closed has closed when it cannot
\* have grown any more.
LEMMA GrowthEnds ==
  ASSUME NEW people, IsFiniteSet(people), NEW f, NEW turn,
         Turns(f, SUBSET people, f[0], turn, Cardinality(people)),
         \A X \in SUBSET people : X \subseteq turn[X], turn[f[0]] = f[0] \/ f[0] # {}
  PROVE  turn[f[Cardinality(people)]] = f[Cardinality(people)]
<1> DEFINE n == Cardinality(people)
           T == {k \in 0..n : turn[f[k]] = f[k] \/ Cardinality(f[k]) >= k + 1}
<1>1. n \in Nat
  BY FS_CardinalityType
<1>2. \A X \in SUBSET people : IsFiniteSet(X) /\ Cardinality(X) \in Nat /\ Cardinality(X) <= n
  BY FS_Subset, FS_CardinalityType
<1> HIDE DEF n
<1>3. /\ \A k \in 0..n : f[k] \in SUBSET people
      /\ \A k \in 0..(n - 1) : f[k + 1] = turn[f[k]]
  BY DEF Turns, n
<1>4. 0 \in T
  <2>1. 0 \in 0..n /\ f[0] \in SUBSET people
    BY <1>1, <1>3
  <2>2. f[0] # {} => Cardinality(f[0]) # 0
    BY <1>2, <2>1, FS_EmptySet
  <2>3. f[0] # {} => Cardinality(f[0]) >= 0 + 1
    BY <1>2, <2>1, <2>2
  <2> QED BY <2>1, <2>3
<1>5. ASSUME NEW k \in 0..(n - 1), k \in T PROVE k + 1 \in T
  <2>1. k \in 0..n /\ k + 1 \in 0..n /\ f[k] \in SUBSET people /\ f[k + 1] \in SUBSET people
        /\ f[k + 1] = turn[f[k]]
    BY <1>1, <1>3
  <2>2. CASE turn[f[k]] = f[k]
    BY <2>1, <2>2
  <2>3. CASE turn[f[k]] # f[k]
    <3>1. f[k] \in SUBSET f[k + 1] /\ f[k] # f[k + 1] /\ Cardinality(f[k]) >= k + 1
      BY <1>5, <2>1, <2>3
    <3>2. IsFiniteSet(f[k + 1]) /\ Cardinality(f[k + 1]) \in Nat /\ Cardinality(f[k]) \in Nat
      BY <1>2, <2>1
    <3>3. Cardinality(f[k]) <= Cardinality(f[k + 1]) /\ Cardinality(f[k]) # Cardinality(f[k + 1])
      BY <3>1, <3>2, FS_Subset
    <3>4. Cardinality(f[k + 1]) >= (k + 1) + 1
      BY <2>1, <3>1, <3>2, <3>3
    <3> QED BY <2>1, <3>4
  <2> QED BY <2>2, <2>3
<1> HIDE DEF T
<1>6. \A k \in 0..n : k \in T
  BY <1>1, <1>4, <1>5, UpTo
<1>7. n \in T /\ f[n] \in SUBSET people
  BY <1>1, <1>3, <1>6
<1>8. ~(Cardinality(f[n]) >= n + 1)
  BY <1>1, <1>2, <1>7
<1>9. turn[f[n]] = f[n]
  BY <1>7, <1>8 DEF T
<1> QED BY <1>9 DEF n

\* A search breadth first finds all descendants.
LEMMA DescendantsAre ==
  ASSUME NEW people, IsFiniteSet(people), NEW parents, DOMAIN parents = people, NEW pid
  PROVE  DescendantPids(parents, pid) = Below(people, parents, pid)
<1> DEFINE size == Cardinality(people)
           children(p) == {c \in people : parents[c] = p}
           more == [X \in SUBSET people |-> X \cup UNION {children(p) : p \in X}]
           first == children(pid)
           Follows(g) == g = [n \in 0..size |->
             IF n = 0 THEN children(pid) ELSE g[n - 1] \cup UNION {children(p) : p \in g[n - 1]}]
           found == CHOOSE g : Follows(g)
<1>1. more \in [SUBSET people -> SUBSET people] /\ first \in SUBSET people
  OBVIOUS
<1>2. \A X \in SUBSET people :
        more[X] = X \cup UNION {children(p) : p \in X} /\ X \subseteq more[X]
  OBVIOUS
<1>3. DescendantPids(parents, pid) = found[size]
  BY DEF DescendantPids
<1>4. size \in Nat
  BY FS_CardinalityType
<1> HIDE DEF more, size
<1>5. PICK f : Turns(f, SUBSET people, first, more, size)
  BY <1>1, <1>4, TurnsExist
<1>6. /\ f \in [0..size -> SUBSET people] /\ f[0] = first
      /\ \A k \in 0..(size - 1) : f[k + 1] = more[f[k]]
      /\ size \in 0..size /\ 0 \in 0..size
  BY <1>4, <1>5 DEF Turns
<1>7. Follows(f)
  <2>1. ASSUME NEW n \in 0..size
        PROVE  f[n] = IF n = 0 THEN children(pid)
                      ELSE f[n - 1] \cup UNION {children(p) : p \in f[n - 1]}
    <3>1. CASE n = 0
      BY <1>6, <3>1
    <3>2. CASE n # 0
      <4>1. n - 1 \in 0..(size - 1) /\ (n - 1) + 1 = n /\ n - 1 \in 0..size
        BY <1>4, <3>2
      <4>2. f[n] = more[f[n - 1]] /\ f[n - 1] \in SUBSET people
        BY <1>6, <4>1
      <4> HIDE DEF children
      <4> QED BY <1>2, <3>2, <4>2
    <3> QED BY <3>1, <3>2
  <2>2. f = [n \in 0..size |-> f[n]]
    BY <1>6
  <2> HIDE DEF children
  <2> QED BY <2>1, <2>2
<1>8. Follows(found)
  <2> HIDE DEF Follows
  <2> QED BY <1>7
<1>9. found[size] = f[size]
  <2> HIDE DEF found, children
  <2>1. \A n \in 0..size : found[n] =
          IF n = 0 THEN children(pid) ELSE found[n - 1] \cup UNION {children(p) : p \in found[n - 1]}
    BY <1>8, Zenon
  <2>2. found[0] = first
    BY <1>6, <2>1
  <2>3. ASSUME NEW k \in 0..(size - 1), found[k] \in SUBSET people
        PROVE  found[k + 1] = more[found[k]]
    <3>1. k + 1 \in 0..size /\ k + 1 # 0 /\ (k + 1) - 1 = k
      BY <1>4
    <3>2. found[k + 1] = found[k] \cup UNION {children(p) : p \in found[k]}
      BY <2>1, <3>1
    <3> QED BY <1>2, <2>3, <3>2
  <2> HIDE DEF first
  <2> QED BY <1>4, <1>5, <2>2, <2>3, TurnsAreUnique
<1>10. more[f[size]] = f[size]
  <2>1. more[first] = first \/ first # {}
    BY <1>1, <1>2
  <2> HIDE DEF first
  <2>2. \A X \in SUBSET people : X \subseteq more[X]
    BY <1>2
  <2>3. Turns(f, SUBSET people, f[0], more, Cardinality(people))
    BY <1>5, <1>6 DEF size
  <2>4. more[f[Cardinality(people)]] = f[Cardinality(people)]
    BY <1>6, <2>1, <2>2, <2>3, GrowthEnds
  <2> QED BY <2>4 DEF size
<1>11. first \subseteq f[size]
  <2> DEFINE T == {k \in 0..size : first \subseteq f[k]}
  <2>1. 0 \in T
    BY <1>6
  <2>2. ASSUME NEW k \in 0..(size - 1), k \in T PROVE k + 1 \in T
    <3>1. k + 1 \in 0..size /\ k \in 0..size
      BY <1>4
    <3>2. f[k] \subseteq f[k + 1]
      BY <1>2, <1>6, <3>1
    <3> HIDE DEF first
    <3> QED BY <2>2, <3>1, <3>2
  <2> HIDE DEF T
  <2>3. \A k \in 0..size : k \in T
    BY <1>4, <2>1, <2>2, UpTo
  <2> QED BY <1>6, <2>3 DEF T
<1>12. \A p \in people : parents[p] \in f[size] \cup {pid} => p \in f[size]
  <2> SUFFICES ASSUME NEW p \in people, parents[p] \in f[size] \cup {pid} PROVE p \in f[size]
    OBVIOUS
  <2>1. CASE parents[p] = pid
    BY <1>11, <2>1
  <2>2. CASE parents[p] \in f[size]
    <3>1. p \in children(parents[p])
      OBVIOUS
    <3>2. f[size] \in SUBSET people
      BY <1>6
    <3>3. p \in more[f[size]]
      <4> HIDE DEF children
      <4> QED BY <1>2, <2>2, <3>1, <3>2
    <3> QED BY <1>10, <3>3
  <2> QED BY <2>1, <2>2
<1>13. ASSUME NEW U \in SUBSET people,
              \A p \in people : parents[p] \in U \cup {pid} => p \in U
       PROVE  f[size] \subseteq U
  <2> DEFINE T == {k \in 0..size : f[k] \subseteq U}
  <2>1. 0 \in T
    BY <1>6, <1>13
  <2>2. ASSUME NEW k \in 0..(size - 1), k \in T PROVE k + 1 \in T
    <3>1. k + 1 \in 0..size /\ k \in 0..size /\ f[k] \subseteq U /\ f[k] \in SUBSET people
      BY <1>4, <1>6, <2>2
    <3>2. f[k + 1] = f[k] \cup UNION {children(p) : p \in f[k]}
      <4>1. f[k + 1] = more[f[k]]
        BY <1>6
      <4> HIDE DEF children
      <4> QED BY <1>2, <3>1, <4>1
    <3>3. \A p \in f[k] : children(p) \subseteq U
      BY <1>13, <3>1
    <3> HIDE DEF children
    <3> QED BY <3>1, <3>2, <3>3
  <2> HIDE DEF T
  <2>3. \A k \in 0..size : k \in T
    BY <1>4, <2>1, <2>2, UpTo
  <2> QED BY <1>6, <2>3 DEF T
<1>14. f[size] \in SUBSET people
  BY <1>6
<1>15. f[size] = Below(people, parents, pid)
  <2> HIDE DEF found, children, first
  <2> QED BY <1>12, <1>13, <1>14 DEF Below
<1> QED BY <1>3, <1>9, <1>15

LEMMA Appended ==
  ASSUME NEW S, NEW f \in Seq(S), NEW x \in S
  PROVE  /\ Append(f, x) \in Seq(S) /\ Len(Append(f, x)) = Len(f) + 1 /\ Len(f) \in Nat
         /\ \A i \in 1..Len(f) : Append(f, x)[i] = f[i]
         /\ Append(f, x)[Len(f) + 1] = x
         /\ Range(Append(f, x)) = Range(f) \cup {x}
<1> DEFINE g == Append(f, x)
           n == Len(f)
<1>1. /\ g \in Seq(S) /\ Len(g) = n + 1 /\ n \in Nat
      /\ \A i \in 1..n : g[i] = f[i]
      /\ g[n + 1] = x /\ DOMAIN f = 1..n /\ DOMAIN g = 1..(n + 1)
  OBVIOUS
<1> HIDE DEF g, n
<1>2. Range(g) = Range(f) \cup {x}
  <2>1. 1..(n + 1) = 1..n \cup {n + 1}
    BY <1>1
  <2> QED BY <1>1, <2>1 DEF Range
<1> QED BY <1>1, <1>2 DEF g, n

\* Up the parents, a loop finds all ancestors.
LEMMA FamilyIs ==
  ASSUME NEW people, IsFiniteSet(people), 0 \notin people,
         NEW parents \in [people -> people \cup {0}], NEW self \in people
  PROVE  CurrentProcessFamily(parents, self) = Above(people, parents, self)
<1> DEFINE size == Cardinality(people)
           up(p) == IF p \in DOMAIN parents THEN parents[p] ELSE 0
           Next1(f) == LET p == up(Last(f))
                       IN IF p = 0 \/ p \in Range(f) THEN f ELSE Append(f, p)
           Follows(g) == g = [n \in 0..size |-> IF n = 0 THEN <<self>> ELSE Next1(g[n - 1])]
           family == CHOOSE g : Follows(g)
           S == Seq(people) \ {<<>>}
           more == [f \in S |-> Next1(f)]
<1>1. CurrentProcessFamily(parents, self) = Range(family[size])
  BY DEF CurrentProcessFamily
<1>2. size \in Nat
  BY FS_CardinalityType
<1>3. ASSUME NEW f \in S
      PROVE  /\ Len(f) \in Nat /\ Len(f) >= 1 /\ DOMAIN f = 1..Len(f)
             /\ \A i \in 1..Len(f) : f[i] \in people
             /\ \/ Next1(f) = f /\ (parents[f[Len(f)]] = 0 \/ parents[f[Len(f)]] \in Range(f))
                \/ /\ parents[f[Len(f)]] \in people /\ parents[f[Len(f)]] \notin Range(f)
                   /\ Next1(f) = Append(f, parents[f[Len(f)]])
             /\ Next1(f) \in S
  <2>1. /\ Len(f) \in Nat /\ Len(f) >= 1 /\ DOMAIN f = 1..Len(f)
        /\ \A i \in 1..Len(f) : f[i] \in people
    BY EmptySeq
  <2>2. Len(f) \in 1..Len(f) /\ f[Len(f)] \in people
    BY <2>1
  <2>3. Last(f) = f[Len(f)] /\ up(Last(f)) = parents[f[Len(f)]]
    BY <2>2 DEF Last
  <2> DEFINE p == parents[f[Len(f)]]
  <2>4. p \in people \cup {0}
    BY <2>2
  <2>5. Next1(f) = IF p = 0 \/ p \in Range(f) THEN f ELSE Append(f, p)
    BY <2>3
  <2> HIDE DEF Next1
  <2>6. CASE p = 0 \/ p \in Range(f)
    BY <2>1, <2>5, <2>6
  <2>7. CASE ~(p = 0 \/ p \in Range(f))
    <3>1. Append(f, p) \in Seq(people) /\ Len(Append(f, p)) = Len(f) + 1
      BY <2>4, <2>7
    <3>2. Append(f, p) # <<>>
      BY <2>1, <3>1
    <3> QED BY <2>1, <2>4, <2>5, <2>7, <3>1, <3>2
  <2> QED BY <2>6, <2>7
<1>4. more \in [S -> S] /\ <<self>> \in S /\ \A f \in S : more[f] = Next1(f)
  <2>1. <<self>> \in S
    BY EmptySeq
  <2> HIDE DEF S, Next1
  <2> QED BY <1>3, <2>1
<1> HIDE DEF more, size, S
<1>5. PICK f : Turns(f, S, <<self>>, more, size)
  BY <1>2, <1>4, TurnsExist
<1>6. /\ f \in [0..size -> S] /\ f[0] = <<self>>
      /\ \A k \in 0..(size - 1) : f[k + 1] = Next1(f[k])
      /\ size \in 0..size /\ 0 \in 0..size
  <2>1. /\ f \in [0..size -> S] /\ f[0] = <<self>>
        /\ \A k \in 0..(size - 1) : f[k + 1] = more[f[k]]
    BY <1>5 DEF Turns
  <2>2. \A k \in 0..(size - 1) : k \in 0..size
    BY <1>2
  <2> HIDE DEF Next1
  <2>3. \A k \in 0..(size - 1) : f[k] \in S
    BY <2>1, <2>2
  <2> QED BY <1>2, <1>4, <2>1, <2>3
<1> HIDE DEF Next1
<1>7. Follows(f)
  <2>1. ASSUME NEW n \in 0..size
        PROVE  f[n] = IF n = 0 THEN <<self>> ELSE Next1(f[n - 1])
    <3>1. CASE n = 0
      BY <1>6, <3>1
    <3>2. CASE n # 0
      <4>1. n - 1 \in 0..(size - 1) /\ (n - 1) + 1 = n
        BY <1>2, <3>2
      <4> QED BY <1>6, <3>2, <4>1
    <3> QED BY <3>1, <3>2
  <2>2. f = [n \in 0..size |-> f[n]]
    BY <1>6
  <2> QED BY <2>1, <2>2
<1>8. Follows(family)
  <2> HIDE DEF Follows
  <2> QED BY <1>7
<1>9. family[size] = f[size]
  <2> HIDE DEF family
  <2>1. \A n \in 0..size : family[n] = IF n = 0 THEN <<self>> ELSE Next1(family[n - 1])
    BY <1>8, Zenon
  <2>2. family[0] = <<self>>
    BY <1>6, <2>1
  <2>3. ASSUME NEW k \in 0..(size - 1), family[k] \in S
        PROVE  family[k + 1] = more[family[k]]
    <3>1. k + 1 \in 0..size /\ k + 1 # 0 /\ (k + 1) - 1 = k
      BY <1>2
    <3>2. family[k + 1] = Next1(family[k])
      BY <2>1, <3>1
    <3> QED BY <1>4, <2>3, <3>2
  <2> QED BY <1>2, <1>5, <2>2, <2>3, TurnsAreUnique
<1> DEFINE Climbs(k) ==
             /\ self \in Range(f[k])
             /\ \A i \in 1..(Len(f[k]) - 1) :
                  parents[f[k][i]] = 0 \/ parents[f[k][i]] \in Range(f[k])
             /\ Cardinality(Range(f[k])) = Len(f[k])
             /\ Next1(f[k]) = f[k] \/ Len(f[k]) >= k + 1
             /\ \A U \in SUBSET people :
                  (self \in U /\ \A p \in U : parents[p] # 0 => parents[p] \in U)
                    => Range(f[k]) \subseteq U
           T == {k \in 0..size : Climbs(k)}
<1>10. 0 \in T
  <2>1. Cardinality({self}) = 1
    BY FS_Singleton
  <2> DEFINE g == <<self>>
  <2>2. Len(g) = 1 /\ DOMAIN g = {1} /\ g[1] = self /\ f[0] = g
    BY <1>6
  <2> HIDE DEF g
  <2>3. Range(g) = {self}
    BY <2>2 DEF Range
  <2>4. \A U \in SUBSET people :
          (self \in U /\ \A p \in U : parents[p] # 0 => parents[p] \in U)
            => Range(g) \subseteq U
    BY <2>3
  <2>5. Len(g) >= 0 + 1 /\ 1..(Len(g) - 1) = {}
    BY <2>2
  <2>6. Climbs(0)
    BY <2>1, <2>2, <2>3, <2>4, <2>5
  <2> QED BY <1>6, <2>6
<1>11. ASSUME NEW k \in 0..(size - 1), k \in T PROVE k + 1 \in T
  <2>1. k \in 0..size /\ k + 1 \in 0..size /\ k \in Nat /\ f[k] \in S /\ Climbs(k)
        /\ f[k + 1] = Next1(f[k])
    BY <1>2, <1>6, <1>11
  <2> DEFINE g == f[k]
             last == parents[g[Len(g)]]
  <2>2. /\ Len(g) \in Nat /\ Len(g) >= 1 /\ DOMAIN g = 1..Len(g)
        /\ \A i \in 1..Len(g) : g[i] \in people
        /\ \/ Next1(g) = g /\ (last = 0 \/ last \in Range(g))
           \/ last \in people /\ last \notin Range(g) /\ Next1(g) = Append(g, last)
    BY <1>3, <2>1
  <2>3. CASE Next1(g) = g
    <3>1. f[k + 1] = f[k]
      BY <2>1, <2>3
    <3>2. Climbs(k + 1)
      BY <2>1, <2>3, <3>1
    <3> QED BY <2>1, <3>2
  <2>4. CASE Next1(g) # g
    <3>1. last \in people /\ last \notin Range(g) /\ f[k + 1] = Append(g, last)
      BY <2>1, <2>2, <2>4
    <3>2. g \in Seq(people)
      BY <2>1 DEF S
    <3>3. /\ Len(Append(g, last)) = Len(g) + 1
          /\ \A i \in 1..Len(g) : Append(g, last)[i] = g[i]
          /\ Range(Append(g, last)) = Range(g) \cup {last}
      BY <3>1, <3>2, Appended
    <3>4. /\ self \in Range(g) /\ Cardinality(Range(g)) = Len(g) /\ Len(g) >= k + 1
          /\ \A i \in 1..(Len(g) - 1) : parents[g[i]] = 0 \/ parents[g[i]] \in Range(g)
      BY <2>1, <2>4
    <3>5. \A U \in SUBSET people :
            (self \in U /\ \A p \in U : parents[p] # 0 => parents[p] \in U)
              => Range(g) \subseteq U
      BY <2>1
    <3>6. g[Len(g)] \in Range(g) /\ Range(g) \subseteq people
      BY <2>2 DEF Range
    <3>7. IsFiniteSet(Range(g))
      BY <3>6, FS_Subset
    <3> DEFINE a == Append(g, last)
    <3>8. /\ Len(a) = Len(g) + 1 /\ \A i \in 1..Len(g) : a[i] = g[i]
          /\ Range(a) = Range(g) \cup {last} /\ f[k + 1] = a
      BY <3>1, <3>3
    <3> HIDE DEF a, g, last
    <3>9. Cardinality(Range(a)) = Len(a)
      BY <3>1, <3>4, <3>7, <3>8, FS_AddElement
    <3>10. \A i \in 1..(Len(a) - 1) : parents[a[i]] = 0 \/ parents[a[i]] \in Range(a)
      <4> SUFFICES ASSUME NEW i \in 1..(Len(a) - 1)
                   PROVE  parents[a[i]] = 0 \/ parents[a[i]] \in Range(a)
        OBVIOUS
      <4>1. i \in 1..Len(g) /\ a[i] = g[i]
        BY <2>2, <3>8
      <4>2. CASE i = Len(g)
        BY <3>8, <4>1, <4>2 DEF last
      <4>3. CASE i # Len(g)
        <5>1. Len(g) \in Nat /\ i \in 1..Len(g)
          BY <2>2, <4>1
        <5>2. i \in 1..(Len(g) - 1)
          BY <4>3, <5>1
        <5> QED BY <3>4, <3>8, <4>1, <5>2
      <4> QED BY <4>2, <4>3
    <3>11. \A U \in SUBSET people :
            (self \in U /\ \A p \in U : parents[p] # 0 => parents[p] \in U)
              => Range(a) \subseteq U
      <4> SUFFICES ASSUME NEW U \in SUBSET people, self \in U,
                          \A p \in U : parents[p] # 0 => parents[p] \in U
                   PROVE  Range(a) \subseteq U
        OBVIOUS
      <4>1. Range(g) \subseteq U
        BY <3>5
      <4>2. last # 0
        BY <3>1
      <4>3. last \in U
        BY <3>6, <4>1, <4>2 DEF last
      <4> QED BY <3>8, <4>1, <4>3
    <3>12. self \in Range(a) /\ Len(a) >= (k + 1) + 1
      BY <2>1, <2>2, <3>4, <3>8
    <3>13. Climbs(k + 1)
      BY <3>8, <3>9, <3>10, <3>11, <3>12
    <3> QED BY <2>1, <3>13
  <2> QED BY <2>3, <2>4
<1> HIDE DEF T
<1>12. \A k \in 0..size : k \in T
  BY <1>2, <1>10, <1>11, UpTo
<1>13. Climbs(size) /\ f[size] \in S
  <2>1. size \in T
    BY <1>6, <1>12
  <2> QED BY <1>6, <2>1 DEF T
<1> DEFINE g == f[size]
<1>14. /\ Len(g) \in Nat /\ Len(g) >= 1 /\ DOMAIN g = 1..Len(g)
       /\ \A i \in 1..Len(g) : g[i] \in people
       /\ \/ Next1(g) = g /\ (parents[g[Len(g)]] = 0 \/ parents[g[Len(g)]] \in Range(g))
          \/ /\ parents[g[Len(g)]] \in people /\ parents[g[Len(g)]] \notin Range(g)
             /\ Next1(g) = Append(g, parents[g[Len(g)]])
  BY <1>3, <1>13
<1>15. Range(g) \subseteq people
  BY <1>14 DEF Range
<1>16. Next1(g) = g
  <2>1. Cardinality(Range(g)) <= size
    BY <1>15, FS_Subset DEF size
  <2> QED BY <1>2, <1>13, <1>14, <2>1
<1>17. parents[g[Len(g)]] = 0 \/ parents[g[Len(g)]] \in Range(g)
  <2>1. ASSUME NEW x, Append(g, x) = g, x \in people PROVE FALSE
    <3>1. g \in Seq(people)
      BY <1>13 DEF S
    <3>2. Len(Append(g, x)) = Len(g) + 1
      BY <2>1, <3>1, Appended
    <3> QED BY <1>14, <2>1, <3>2
  <2> QED BY <1>14, <1>16, <2>1
<1>18. \A p \in Range(g) : parents[p] # 0 => parents[p] \in Range(g)
  <2> SUFFICES ASSUME NEW p \in Range(g), parents[p] # 0 PROVE parents[p] \in Range(g)
    OBVIOUS
  <2>1. PICK i \in 1..Len(g) : p = g[i]
    BY <1>14 DEF Range
  <2>2. CASE i = Len(g)
    BY <1>17, <2>1, <2>2
  <2>3. CASE i # Len(g)
    <3>1. i \in 1..(Len(g) - 1)
      BY <1>14, <2>3
    <3> QED BY <1>13, <2>1, <3>1
  <2> QED BY <2>2, <2>3
<1>19. Range(g) = Above(people, parents, self)
  <2>1. /\ self \in Range(g)
        /\ \A U \in SUBSET people :
             (self \in U /\ \A p \in U : parents[p] # 0 => parents[p] \in U)
               => Range(g) \subseteq U
    BY <1>13
  <2> HIDE DEF g
  <2> QED BY <1>15, <1>18, <2>1 DEF Above
<1> QED BY <1>1, <1>9, <1>19

-----------------------------------------------------------------------------
(* The open files of a process.                                             *)

FileRecords == [name : Names \cup {""}, device : {0, 1}, inode : {0, 1, 2, 3}]
Parsed == [files : Seq(FileRecords), file : FileRecords]
NoneParsed == [files |-> <<>>, file |-> NoFile]
FieldTokens == ({"f"} \X {0}) \cup ({"D"} \X {1}) \cup ({"i"} \X {1, 2, 3}) \cup ({"n"} \X Names)

\* The file that lsof's fields of an open file stand for.
FileOf(o) == [name |-> o.name, device |-> IF o.identified THEN 1 ELSE 0,
              inode |-> IF o.identified THEN o.inode ELSE 0]

LEMMA FieldSet ==
  ASSUME NEW r \in FileRecords, NEW v
  PROVE  /\ [r EXCEPT !.name = v] = [name |-> v, device |-> r.device, inode |-> r.inode]
         /\ [r EXCEPT !.device = v] = [name |-> r.name, device |-> v, inode |-> r.inode]
         /\ [r EXCEPT !.inode = v] = [name |-> r.name, device |-> r.device, inode |-> v]
<1>1. r = [name |-> r.name, device |-> r.device, inode |-> r.inode]
  BY DEF FileRecords
<1>2. [r EXCEPT !.name = v] = [name |-> v, device |-> r.device, inode |-> r.inode]
  BY <1>1
<1>3. [r EXCEPT !.device = v] = [name |-> r.name, device |-> v, inode |-> r.inode]
  BY <1>1
<1>4. [r EXCEPT !.inode = v] = [name |-> r.name, device |-> r.device, inode |-> v]
  BY <1>1
<1> QED BY <1>2, <1>3, <1>4

LEMMA NoneParsedTyped == NoneParsed \in Parsed /\ NoFile \in FileRecords
BY DEF NoneParsed, Parsed, FileRecords, NoFile

LEMMA TakeFieldTyped ==
  ASSUME NEW s \in Parsed, NEW x \in FieldTokens
  PROVE  TakeField(s, x) \in Parsed
<1> DEFINE new == s.file = NoFile \/ Repeats(s.file, x[1])
           file0 == IF new THEN NoFile ELSE s.file
           files0 == IF new /\ s.file.name # "" THEN Append(s.files, s.file) ELSE s.files
           file1 == CASE x[1] = "D" -> [file0 EXCEPT !.device = x[2]]
                      [] x[1] = "i" -> [file0 EXCEPT !.inode = x[2]]
                      [] x[1] = "n" -> [file0 EXCEPT !.name = x[2]]
                      [] OTHER -> file0
<1>1. TakeField(s, x) = [files |-> files0, file |-> file1]
  BY DEF TakeField
<1>2. s.file \in FileRecords /\ s.files \in Seq(FileRecords)
  BY DEF Parsed
<1>3. file0 \in FileRecords
  BY <1>2, NoneParsedTyped
<1>4. files0 \in Seq(FileRecords)
  <2> HIDE DEF new
  <2>1. Append(s.files, s.file) \in Seq(FileRecords)
    BY <1>2
  <2> QED BY <1>2, <2>1
<1>5. \/ x[1] = "f"
      \/ x[1] = "D" /\ x[2] \in {0, 1}
      \/ x[1] = "i" /\ x[2] \in {0, 1, 2, 3}
      \/ x[1] = "n" /\ x[2] \in Names \cup {""}
  BY DEF FieldTokens
<1> HIDE DEF file0
<1>6. file1 \in FileRecords
  BY <1>3, <1>5 DEF FileRecords
<1> HIDE DEF files0, file1
<1> QED BY <1>1, <1>4, <1>6 DEF Parsed

FieldRun(w, f) ==
  /\ f \in [0..Len(w) -> Parsed] /\ f[0] = NoneParsed
  /\ \A k \in 1..Len(w) : f[k] = TakeField(f[k - 1], w[k])

LEMMA FieldRuns ==
  ASSUME NEW w \in Seq(FieldTokens)
  PROVE  \E f : FieldRun(w, f) /\ TakeFields(w) = f[Len(w)]
<1> DEFINE turn == [p \in Parsed \X FieldTokens |-> TakeField(p[1], p[2])]
           Follows(f) == f = [n \in 0..Len(w) |->
                                IF n = 0 THEN [files |-> <<>>, file |-> NoFile]
                                ELSE TakeField(f[n - 1], w[n])]
           after == CHOOSE f : Follows(f)
<1>1. turn \in [Parsed \X FieldTokens -> Parsed]
  BY TakeFieldTyped
<1>2. \A s \in Parsed, x \in FieldTokens : turn[<<s, x>>] = TakeField(s, x)
  OBVIOUS
<1> HIDE DEF turn
<1>3. PICK g : Loop(g, Parsed, NoneParsed, turn, w)
  BY <1>1, NoneParsedTyped, LoopExists
<1>4. ASSUME NEW k \in 1..Len(w) PROVE g[k] = TakeField(g[k - 1], w[k])
  <2>1. g[k - 1] \in Parsed /\ w[k] \in FieldTokens
    BY <1>3 DEF Loop
  <2> QED BY <1>2, <1>3, <2>1 DEF Loop
<1>5. FieldRun(w, g)
  BY <1>3, <1>4 DEF FieldRun, Loop
<1>6. Follows(g)
  <2>1. ASSUME NEW k \in 0..Len(w)
        PROVE  g[k] = IF k = 0 THEN [files |-> <<>>, file |-> NoFile]
                      ELSE TakeField(g[k - 1], w[k])
    <3>1. k # 0 => k \in 1..Len(w)
      OBVIOUS
    <3> QED BY <1>5, <3>1 DEF FieldRun, NoneParsed
  <2>2. g = [k \in 0..Len(w) |-> g[k]]
    BY <1>3 DEF Loop
  <2> QED BY <2>1, <2>2
<1>7. Follows(after)
  <2> HIDE DEF Follows
  <2> QED BY <1>6
<1>8. TakeFields(w) = after[Len(w)]
  BY DEF TakeFields
<1> HIDE DEF after
<1>9. \A k \in 0..Len(w) : after[k] = g[k]
  <2> DEFINE T == {k \in 0..Len(w) : after[k] = g[k]}
  <2>1. \A k \in 0..Len(w) : after[k] =
          IF k = 0 THEN [files |-> <<>>, file |-> NoFile] ELSE TakeField(after[k - 1], w[k])
    BY <1>7, Zenon
  <2>2. 0 \in T
    BY <1>5, <2>1 DEF FieldRun, NoneParsed
  <2>3. ASSUME NEW k \in 0..(Len(w) - 1), k \in T PROVE k + 1 \in T
    <3>1. k + 1 \in 1..Len(w) /\ (k + 1) - 1 = k /\ after[k] = g[k] /\ k + 1 \in 0..Len(w)
      BY <2>3
    <3>2. g[k + 1] = TakeField(g[k], w[k + 1])
      BY <1>5, <3>1 DEF FieldRun
    <3>3. after[k + 1] = TakeField(after[k], w[k + 1])
      BY <2>1, <3>1
    <3> QED BY <3>1, <3>2, <3>3
  <2>4. Len(w) \in Nat
    OBVIOUS
  <2> HIDE DEF T
  <2>5. \A k \in 0..Len(w) : k \in T
    BY <2>2, <2>3, <2>4, UpTo
  <2> QED BY <2>5 DEF T
<1>10. Len(w) \in 0..Len(w)
  OBVIOUS
<1> QED BY <1>5, <1>8, <1>9, <1>10

\* One field more.
LEMMA FieldMore ==
  ASSUME NEW a \in Seq(FieldTokens), NEW x \in FieldTokens
  PROVE  /\ TakeFields(a) \in Parsed
         /\ TakeFields(Append(a, x)) = TakeField(TakeFields(a), x)
         /\ Append(a, x) \in Seq(FieldTokens)
<1> DEFINE b == Append(a, x)
           n == Len(a)
<1>1. /\ b \in Seq(FieldTokens) /\ Len(b) = n + 1 /\ n \in Nat
      /\ \A i \in 1..n : b[i] = a[i]
      /\ b[n + 1] = x
  OBVIOUS
<1> HIDE DEF b
<1>2. PICK f : FieldRun(a, f) /\ TakeFields(a) = f[n]
  BY FieldRuns
<1>3. PICK g : FieldRun(b, g) /\ TakeFields(b) = g[Len(b)]
  BY <1>1, FieldRuns
<1> HIDE DEF n
<1> DEFINE T == {k \in 0..n : g[k] = f[k]}
<1>4. 0 \in T
  BY <1>1, <1>2, <1>3 DEF FieldRun
<1>5. ASSUME NEW k \in 0..(n - 1), k \in T PROVE k + 1 \in T
  <2>1. k + 1 \in 1..n /\ k + 1 \in 1..(n + 1) /\ k + 1 \in 0..n /\ (k + 1) - 1 = k /\ g[k] = f[k]
    BY <1>1, <1>5
  <2>2. g[k + 1] = TakeField(g[k], b[k + 1])
    BY <1>1, <1>3, <2>1 DEF FieldRun
  <2>3. f[k + 1] = TakeField(f[k], a[k + 1])
    BY <1>2, <2>1 DEF FieldRun, n
  <2> QED BY <1>1, <2>1, <2>2, <2>3
<1> HIDE DEF T
<1>6. \A k \in 0..n : k \in T
  BY <1>1, <1>4, <1>5, UpTo
<1>7. n \in 0..n /\ n + 1 \in 1..(n + 1) /\ (n + 1) - 1 = n
  BY <1>1
<1>8. g[n] = f[n]
  BY <1>6, <1>7 DEF T
<1>9. g[n + 1] = TakeField(g[n], x)
  BY <1>1, <1>3, <1>7 DEF FieldRun
<1>10. f[n] \in Parsed
  BY <1>2, <1>7 DEF FieldRun, n
<1> QED BY <1>1, <1>2, <1>3, <1>8, <1>9, <1>10 DEF b

\* Between two files.
Between(s) == s.file = NoFile \/ s.file.name # ""

TakeFile(s, o) ==
  [files |-> IF s.file.name = "" THEN s.files ELSE Append(s.files, s.file), file |-> FileOf(o)]

\* The fields of one file, when f begins it or is left out, and when its
\* device and inode are known or not.
LEMMA MarkTaken ==
  ASSUME NEW s \in Parsed, Between(s)
  PROVE  TakeField(s, <<"f", 0>>) =
           [files |-> IF s.file.name = "" THEN s.files ELSE Append(s.files, s.file),
            file |-> NoFile]
BY DEF TakeField, Repeats, Between, NoFile

LEMMA NameTaken ==
  ASSUME NEW s \in Parsed, Between(s), NEW o \in Opens, ~o.identified
  PROVE  TakeField(s, <<"n", o.name>>) = TakeFile(s, o)
<1>1. o.name \in Names
  BY DEF Opens
<1> DEFINE x == <<"n", o.name>>
<1>2. x[1] = "n" /\ x[2] = o.name
  OBVIOUS
<1> HIDE DEF x
<1>3. s.file = NoFile \/ Repeats(s.file, x[1])
  BY <1>2 DEF Between, Repeats
<1>4. TakeField(s, x) =
        [files |-> IF s.file.name = "" THEN s.files ELSE Append(s.files, s.file),
         file |-> [NoFile EXCEPT !.name = o.name]]
  BY <1>2, <1>3 DEF TakeField
<1>5. [NoFile EXCEPT !.name = o.name] = FileOf(o)
  <2>1. [NoFile EXCEPT !.name = o.name]
          = [name |-> o.name, device |-> NoFile.device, inode |-> NoFile.inode]
    BY NoneParsedTyped, FieldSet
  <2>2. NoFile.device = 0 /\ NoFile.inode = 0
    BY DEF NoFile
  <2>3. FileOf(o) = [name |-> o.name, device |-> 0, inode |-> 0]
    BY DEF FileOf
  <2> QED BY <2>1, <2>2, <2>3
<1> QED BY <1>4, <1>5 DEF TakeFile, x

LEMMA IdentityTaken ==
  ASSUME NEW s \in Parsed, Between(s), NEW o \in Opens, o.identified
  PROVE  TakeField(TakeField(TakeField(s, <<"D", 1>>), <<"i", o.inode>>), <<"n", o.name>>)
           = TakeFile(s, o)
<1> DEFINE x == <<"D", 1>>
           y == <<"i", o.inode>>
           z == <<"n", o.name>>
           old == IF s.file.name = "" THEN s.files ELSE Append(s.files, s.file)
           s1 == TakeField(s, x)
           s2 == TakeField(s1, y)
           s3 == TakeField(s2, z)
           f1 == [name |-> "", device |-> 1, inode |-> 0]
           f2 == [name |-> "", device |-> 1, inode |-> o.inode]
           f3 == [name |-> o.name, device |-> 1, inode |-> o.inode]
<1>1. /\ x[1] = "D" /\ x[2] = 1 /\ y[1] = "i" /\ y[2] = o.inode /\ z[1] = "n" /\ z[2] = o.name
  OBVIOUS
<1>2. o.inode \in {1, 2, 3} /\ o.name \in Names
  BY DEF Opens
<1>3. /\ [NoFile EXCEPT !.device = 1] = f1 /\ [f1 EXCEPT !.inode = o.inode] = f2
      /\ [f2 EXCEPT !.name = o.name] = f3 /\ f1 # NoFile /\ f2 # NoFile
  <2>1. NoFile.name = "" /\ NoFile.device = 0 /\ NoFile.inode = 0
    BY DEF NoFile
  <2>2. f1 \in FileRecords /\ f2 \in FileRecords
    BY <1>2 DEF FileRecords
  <2>3. [NoFile EXCEPT !.device = 1] = f1
    <3>1. [NoFile EXCEPT !.device = 1]
            = [name |-> NoFile.name, device |-> 1, inode |-> NoFile.inode]
      BY NoneParsedTyped, FieldSet
    <3> QED BY <2>1, <3>1
  <2>4. f1.name = "" /\ f1.device = 1 /\ f1.inode = 0
        /\ f2.name = "" /\ f2.device = 1 /\ f2.inode = o.inode
    OBVIOUS
  <2> HIDE DEF f1, f2
  <2>5. [f1 EXCEPT !.inode = o.inode] = [name |-> f1.name, device |-> f1.device, inode |-> o.inode]
    BY <2>2, FieldSet
  <2>6. [f2 EXCEPT !.name = o.name] = [name |-> o.name, device |-> f2.device, inode |-> f2.inode]
    BY <2>2, FieldSet
  <2>7. [f1 EXCEPT !.inode = o.inode] = f2
    BY <2>4, <2>5 DEF f2
  <2>8. [f2 EXCEPT !.name = o.name] = f3
    BY <2>4, <2>6
  <2>9. f1 # NoFile /\ f2 # NoFile
    <3>1. f1.device = 1 /\ f2.device = 1 /\ NoFile.device = 0
      BY <2>1, <2>4, Zenon
    <3>2. 1 # 0
      OBVIOUS
    <3> QED BY <3>1, <3>2, Zenon
  <2> QED BY <2>3, <2>7, <2>8, <2>9
<1>4. f1.name = "" /\ f1.inode = 0 /\ f2.name = ""
  OBVIOUS
<1> HIDE DEF x, y, z, f1, f2, f3
<1>5. s1 = [files |-> old, file |-> f1]
  <2>1. s.file = NoFile \/ Repeats(s.file, x[1])
    BY <1>1 DEF Between, Repeats
  <2> QED BY <1>1, <1>3, <2>1 DEF TakeField
<1> HIDE DEF s1, old
<1>6. s1.file = f1 /\ s1.files = old
  BY <1>5
<1>7. s2 = [files |-> old, file |-> f2]
  <2>1. ~(s1.file = NoFile \/ Repeats(s1.file, y[1]))
    BY <1>1, <1>3, <1>4, <1>6 DEF Repeats
  <2> QED BY <1>1, <1>3, <1>6, <2>1 DEF TakeField
<1> HIDE DEF s2
<1>8. s2.file = f2 /\ s2.files = old
  BY <1>7
<1>9. s3 = [files |-> old, file |-> f3]
  <2>1. ~(s2.file = NoFile \/ Repeats(s2.file, z[1]))
    BY <1>1, <1>3, <1>4, <1>8 DEF Repeats
  <2> QED BY <1>1, <1>3, <1>8, <2>1 DEF TakeField
<1>10. FileOf(o) = f3
  BY DEF FileOf, f3
<1> QED BY <1>9, <1>10 DEF TakeFile, old, s1, s2, x, y, z

\* What follows is the second sequence, moved by the length of the first.
LEMMA JoinIs ==
  ASSUME NEW S, NEW p \in Seq(S), NEW q \in Seq(S), NEW r \in Seq(S), Len(r) = Len(p) + Len(q),
         \A i \in 1..Len(p) : r[i] = p[i], \A i \in 1..Len(q) : r[i + Len(p)] = q[i]
  PROVE  p \o q = r
<1> DEFINE c == p \o q
<1>1. /\ c \in Seq(S) /\ Len(c) = Len(p) + Len(q)
      /\ \A i \in 1..(Len(p) + Len(q)) : c[i] = IF i <= Len(p) THEN p[i] ELSE q[i - Len(p)]
  BY ConcatProperties
<1> HIDE DEF c
<1>2. \A i \in 1..Len(r) : c[i] = r[i]
  <2> SUFFICES ASSUME NEW i \in 1..Len(r) PROVE c[i] = r[i]
    OBVIOUS
  <2>1. Len(p) \in Nat /\ Len(q) \in Nat
    OBVIOUS
  <2>2. CASE i <= Len(p)
    <3>1. i \in 1..Len(p) /\ i \in 1..(Len(p) + Len(q))
      BY <2>1, <2>2
    <3> QED BY <1>1, <2>2, <3>1
  <2>3. CASE ~(i <= Len(p))
    <3>1. i - Len(p) \in 1..Len(q) /\ i \in 1..(Len(p) + Len(q)) /\ (i - Len(p)) + Len(p) = i
      BY <2>1, <2>3
    <3>2. r[(i - Len(p)) + Len(p)] = q[i - Len(p)]
      BY <3>1
    <3> QED BY <1>1, <2>3, <3>1, <3>2
  <2> QED BY <2>2, <2>3
<1> QED BY <1>1, <1>2, SeqEqual DEF c

LEMMA Tuples ==
  ASSUME NEW S, NEW m \in S, NEW x \in S, NEW y \in S, NEW z \in S
  PROVE  /\ (<<>> \o <<x, y>>) \o <<z>> = <<x, y, z>>
         /\ (<<m>> \o <<>>) \o <<z>> = <<m, z>>
         /\ (<<m>> \o <<x, y>>) \o <<z>> = <<m, x, y, z>>
<1>1. <<>> \o <<x, y>> = <<x, y>> /\ <<m>> \o <<>> = <<m>>
  <2>1. <<x, y>> \in Seq(S) /\ <<m>> \in Seq(S)
    OBVIOUS
  <2> QED BY <2>1, ConcatEmptySeq
<1>2. <<x, y>> \o <<z>> = <<x, y, z>>
  <2> DEFINE p == <<x, y>>
             q == <<z>>
             r == <<x, y, z>>
  <2>1. /\ p \in Seq(S) /\ q \in Seq(S) /\ r \in Seq(S)
        /\ Len(p) = 2 /\ Len(q) = 1 /\ Len(r) = 3
        /\ p[1] = r[1] /\ p[2] = r[2]
        /\ q[1] = r[3]
    OBVIOUS
  <2> HIDE DEF p, q, r
  <2>2. \A i \in 1..Len(p) : r[i] = p[i]
    BY <2>1
  <2>3. \A i \in 1..Len(q) : r[i + Len(p)] = q[i]
    BY <2>1
  <2>4. Len(r) = Len(p) + Len(q)
    BY <2>1
  <2>5. p \o q = r
    BY <2>1, <2>2, <2>3, <2>4, JoinIs
  <2> QED BY <2>5 DEF p, q, r
<1>3. <<m>> \o <<z>> = <<m, z>>
  <2> DEFINE p == <<m>>
             q == <<z>>
             r == <<m, z>>
  <2>1. /\ p \in Seq(S) /\ q \in Seq(S) /\ r \in Seq(S)
        /\ Len(p) = 1 /\ Len(q) = 1 /\ Len(r) = 2
        /\ p[1] = r[1]
        /\ q[1] = r[2]
    OBVIOUS
  <2> HIDE DEF p, q, r
  <2>2. \A i \in 1..Len(p) : r[i] = p[i]
    BY <2>1
  <2>3. \A i \in 1..Len(q) : r[i + Len(p)] = q[i]
    BY <2>1
  <2>4. Len(r) = Len(p) + Len(q)
    BY <2>1
  <2>5. p \o q = r
    BY <2>1, <2>2, <2>3, <2>4, JoinIs
  <2> QED BY <2>5 DEF p, q, r
<1>4. <<m>> \o <<x, y>> = <<m, x, y>>
  <2> DEFINE p == <<m>>
             q == <<x, y>>
             r == <<m, x, y>>
  <2>1. /\ p \in Seq(S) /\ q \in Seq(S) /\ r \in Seq(S)
        /\ Len(p) = 1 /\ Len(q) = 2 /\ Len(r) = 3
        /\ p[1] = r[1]
        /\ q[1] = r[2] /\ q[2] = r[3]
    OBVIOUS
  <2> HIDE DEF p, q, r
  <2>2. \A i \in 1..Len(p) : r[i] = p[i]
    BY <2>1
  <2>3. \A i \in 1..Len(q) : r[i + Len(p)] = q[i]
    BY <2>1
  <2>4. Len(r) = Len(p) + Len(q)
    BY <2>1
  <2>5. p \o q = r
    BY <2>1, <2>2, <2>3, <2>4, JoinIs
  <2> QED BY <2>5 DEF p, q, r
<1>5. <<m, x, y>> \o <<z>> = <<m, x, y, z>>
  <2> DEFINE p == <<m, x, y>>
             q == <<z>>
             r == <<m, x, y, z>>
  <2>1. /\ p \in Seq(S) /\ q \in Seq(S) /\ r \in Seq(S)
        /\ Len(p) = 3 /\ Len(q) = 1 /\ Len(r) = 4
        /\ p[1] = r[1] /\ p[2] = r[2] /\ p[3] = r[3]
        /\ q[1] = r[4]
    OBVIOUS
  <2> HIDE DEF p, q, r
  <2>2. \A i \in 1..Len(p) : r[i] = p[i]
    BY <2>1
  <2>3. \A i \in 1..Len(q) : r[i + Len(p)] = q[i]
    BY <2>1
  <2>4. Len(r) = Len(p) + Len(q)
    BY <2>1
  <2>5. p \o q = r
    BY <2>1, <2>2, <2>3, <2>4, JoinIs
  <2> QED BY <2>5 DEF p, q, r
<1> QED BY <1>1, <1>2, <1>3, <1>4, <1>5

\* After a file's fields, the file is known and the one before is complete.
LEMMA FileTaken ==
  ASSUME NEW a \in Seq(FieldTokens), NEW o \in Opens, NEW marked \in BOOLEAN,
         Between(TakeFields(a))
  PROVE  TakeFields(a \o FileFields(o, marked)) = TakeFile(TakeFields(a), o)
<1> DEFINE m == <<"f", 0>>
           x == <<"D", 1>>
           y == <<"i", o.inode>>
           z == <<"n", o.name>>
           F == FieldTokens
           fields == FileFields(o, marked)
           s == TakeFields(a)
<1>1. m \in F /\ x \in F /\ y \in F /\ z \in F
  <2>1. o.name \in Names /\ o.inode \in {1, 2, 3}
    BY DEF Opens
  <2> QED BY <2>1 DEF FieldTokens
<1>2. /\ fields = (IF marked THEN <<m>> ELSE <<>>)
                  \o (IF o.identified THEN <<x, y>> ELSE <<>>) \o <<z>>
      /\ o.identified \in BOOLEAN
  BY DEF FileFields, Opens
<1>3. s \in Parsed
  BY <1>1, FieldMore
<1>4. /\ ~o.identified => TakeField(s, z) = TakeFile(s, o)
      /\ o.identified => TakeField(TakeField(TakeField(s, x), y), z) = TakeFile(s, o)
  BY <1>3, NameTaken, IdentityTaken
<1>5. TakeField(s, m) = [files |-> IF s.file.name = "" THEN s.files ELSE Append(s.files, s.file),
                         file |-> NoFile]
  BY <1>3, MarkTaken
<1> DEFINE t == TakeField(s, m)
<1>6. t \in Parsed /\ Between(t) /\ t.file = NoFile /\ TakeFile(t, o) = TakeFile(s, o)
  <2>1. t \in Parsed
    BY <1>1, <1>3, TakeFieldTyped
  <2>2. NoFile.name = ""
    BY DEF NoFile
  <2> HIDE DEF t, s
  <2>4. t = [files |-> IF s.file.name = "" THEN s.files ELSE Append(s.files, s.file),
             file |-> NoFile]
    BY <1>5 DEF t
  <2>3. /\ t.files = IF s.file.name = "" THEN s.files ELSE Append(s.files, s.file)
        /\ t.file = NoFile
    BY <2>4
  <2> QED BY <2>1, <2>2, <2>3 DEF TakeFile, Between
<1>7. /\ ~o.identified => TakeField(t, z) = TakeFile(t, o)
      /\ o.identified => TakeField(TakeField(TakeField(t, x), y), z) = TakeFile(t, o)
  <2> HIDE DEF t
  <2> QED BY <1>6, NameTaken, IdentityTaken
<1> HIDE DEF m, x, y, z, F, fields
<1>8. a \in Seq(F)
  BY DEF F
<1>9. CASE ~marked /\ ~o.identified
  <2>1. fields = <<z>>
    BY <1>2, <1>9
  <2>2. a \o fields = Append(a, z)
    BY <1>1, <1>8, <2>1, AppendIsConcat
  <2>3. TakeFields(Append(a, z)) = TakeField(s, z)
    BY <1>1, <1>8, FieldMore DEF F
  <2> QED BY <1>4, <1>9, <2>2, <2>3 DEF fields
<1>10. CASE ~marked /\ o.identified
  <2>1. fields = <<x, y, z>>
    BY <1>1, <1>2, <1>10, Tuples
  <2> DEFINE b == Append(a, x)
             c == Append(b, y)
             d == Append(c, z)
  <2>2. a \o <<x, y, z>> = d
    BY <1>1, <1>8
  <2>3. b \in Seq(F) /\ TakeFields(b) = TakeField(s, x)
    BY <1>1, <1>8, FieldMore DEF F
  <2> HIDE DEF b
  <2>4. c \in Seq(F) /\ TakeFields(c) = TakeField(TakeFields(b), y)
    BY <1>1, <2>3, FieldMore DEF F
  <2> HIDE DEF c
  <2>5. TakeFields(d) = TakeField(TakeFields(c), z)
    BY <1>1, <2>4, FieldMore DEF F
  <2> HIDE DEF d
  <2> QED BY <1>4, <1>10, <2>1, <2>2, <2>3, <2>4, <2>5 DEF fields
<1>11. CASE marked /\ ~o.identified
  <2>1. fields = <<m, z>>
    BY <1>1, <1>2, <1>11, Tuples
  <2> DEFINE b == Append(a, m)
             c == Append(b, z)
  <2>2. a \o <<m, z>> = c
    BY <1>1, <1>8
  <2>3. b \in Seq(F) /\ TakeFields(b) = t
    BY <1>1, <1>8, FieldMore DEF F
  <2> HIDE DEF b
  <2>4. TakeFields(c) = TakeField(TakeFields(b), z)
    BY <1>1, <2>3, FieldMore DEF F
  <2> HIDE DEF c, t
  <2> QED BY <1>6, <1>7, <1>11, <2>1, <2>2, <2>3, <2>4 DEF fields
<1>12. CASE marked /\ o.identified
  <2>1. fields = <<m, x, y, z>>
    BY <1>1, <1>2, <1>12, Tuples
  <2> DEFINE b == Append(a, m)
             c == Append(b, x)
             d == Append(c, y)
             e == Append(d, z)
  <2>2. a \o <<m, x, y, z>> = e
    BY <1>1, <1>8
  <2>3. b \in Seq(F) /\ TakeFields(b) = t
    BY <1>1, <1>8, FieldMore DEF F
  <2> HIDE DEF b
  <2>4. c \in Seq(F) /\ TakeFields(c) = TakeField(TakeFields(b), x)
    BY <1>1, <2>3, FieldMore DEF F
  <2> HIDE DEF c
  <2>5. d \in Seq(F) /\ TakeFields(d) = TakeField(TakeFields(c), y)
    BY <1>1, <2>4, FieldMore DEF F
  <2> HIDE DEF d
  <2>6. TakeFields(e) = TakeField(TakeFields(d), z)
    BY <1>1, <2>5, FieldMore DEF F
  <2> HIDE DEF e, t
  <2> QED BY <1>6, <1>7, <1>12, <2>1, <2>2, <2>3, <2>4, <2>5, <2>6 DEF fields
<1> QED BY <1>2, <1>9, <1>10, <1>11, <1>12

OpenText(opens, marked) == FlattenSeq([i \in DOMAIN opens |-> FileFields(opens[i], marked)])

\* lsof's fields give every open file.
LEMMA FilesAreParsed ==
  ASSUME NEW opens \in Seq(Opens), NEW marked \in BOOLEAN
  PROVE  Range(ParseLsofFiles(OpenText(opens, marked))) = {FileOf(o) : o \in Range(opens)}
<1> DEFINE n == Len(opens)
           t == [i \in DOMAIN opens |-> FileFields(opens[i], marked)]
           S == FieldTokens
<1>1. n \in Nat /\ DOMAIN opens = 1..n /\ \A i \in 1..n : opens[i] \in Opens
  OBVIOUS
<1> HIDE DEF n
<1>2. ASSUME NEW o \in Opens PROVE FileFields(o, marked) \in Seq(S)
  <2> DEFINE m == <<"f", 0>>
             x == <<"D", 1>>
             y == <<"i", o.inode>>
             z == <<"n", o.name>>
  <2>1. m \in S /\ x \in S /\ y \in S /\ z \in S
    <3>1. o.name \in Names /\ o.inode \in {1, 2, 3}
      BY DEF Opens
    <3> QED BY <3>1 DEF FieldTokens
  <2>2. FileFields(o, marked) = (IF marked THEN <<m>> ELSE <<>>)
                  \o (IF o.identified THEN <<x, y>> ELSE <<>>) \o <<z>>
    BY DEF FileFields
  <2> HIDE DEF m, x, y, z, S
  <2>3. (IF marked THEN <<m>> ELSE <<>>) \in Seq(S)
        /\ (IF o.identified THEN <<x, y>> ELSE <<>>) \in Seq(S) /\ <<z>> \in Seq(S)
    BY <2>1
  <2> QED BY <2>2, <2>3
<1> HIDE DEF S
<1>3. t \in Seq(Seq(S)) /\ Len(t) = n
  <2> DEFINE R == Seq(S)
  <2>1. \A i \in 1..n : t[i] \in R
    BY <1>1, <1>2
  <2> HIDE DEF R
  <2>2. t \in [1..n -> R]
    BY <1>1, <2>1
  <2>3. t \in Seq(R) /\ Len(t) = n
    BY <1>1, <2>2
  <2> QED BY <2>3 DEF R
<1>4. PICK h : Joined(S, t, h) /\ FlattenSeq(t) = h[Len(t)]
  BY <1>3, FlattenRuns
<1> DEFINE Known(s, k) == /\ Between(s)
                          /\ s.file = IF k = 0 THEN NoFile ELSE FileOf(opens[k])
                          /\ Range(s.files) = {FileOf(opens[i]) : i \in 1..(k - 1)}
           T == {k \in 0..n : Known(TakeFields(h[k]), k)}
<1>5. 0 \in T
  <2>1. h[0] = <<>> /\ 0 \in 0..n
    BY <1>1, <1>4 DEF Joined
  <2>2. TakeFields(<<>>) = NoneParsed
    <3>1. <<>> \in Seq(FieldTokens) /\ Len(<<>>) = 0
      OBVIOUS
    <3>2. PICK f : FieldRun(<<>>, f) /\ TakeFields(<<>>) = f[Len(<<>>)]
      BY <3>1, FieldRuns
    <3> QED BY <3>1, <3>2 DEF FieldRun
  <2>3. Known(NoneParsed, 0)
    <3>1. NoneParsed.file = NoFile /\ NoneParsed.files = <<>> /\ Range(<<>>) = {}
      BY DEF NoneParsed, Range
    <3>2. 1..(0 - 1) = {}
      OBVIOUS
    <3> QED BY <3>1, <3>2 DEF Between
  <2> HIDE DEF Known
  <2> QED BY <2>1, <2>2, <2>3
<1>6. ASSUME NEW k \in 0..(n - 1), k \in T PROVE k + 1 \in T
  <2>1. k + 1 \in 1..n /\ k + 1 \in 0..n /\ (k + 1) - 1 = k /\ k \in 0..n /\ k + 1 # 0
    BY <1>1
  <2>2. h[k] \in Seq(FieldTokens) /\ h[k + 1] = h[k] \o FileFields(opens[k + 1], marked)
    <3>1. h \in [0..n -> Seq(S)] /\ h[k + 1] = h[(k + 1) - 1] \o t[k + 1]
      BY <1>3, <1>4, <2>1 DEF Joined
    <3>2. t[k + 1] = FileFields(opens[k + 1], marked)
      BY <1>1, <2>1
    <3> HIDE DEF t
    <3> QED BY <2>1, <3>1, <3>2 DEF S
  <2> DEFINE s == TakeFields(h[k])
             o == opens[k + 1]
  <2>3. /\ Between(s) /\ s.file = IF k = 0 THEN NoFile ELSE FileOf(opens[k])
        /\ Range(s.files) = {FileOf(opens[i]) : i \in 1..(k - 1)}
    BY <1>6
  <2>4. o \in Opens /\ s \in Parsed
    <3>1. <<"f", 0>> \in FieldTokens
      BY DEF FieldTokens
    <3> QED BY <1>1, <2>1, <2>2, <3>1, FieldMore
  <2>5. TakeFields(h[k + 1]) = TakeFile(s, o)
    BY <2>2, <2>3, <2>4, FileTaken
  <2> HIDE DEF s, o
  <2> DEFINE u == TakeFile(s, o)
  <2>6. /\ u.file = FileOf(o)
        /\ u.files = IF s.file.name = "" THEN s.files ELSE Append(s.files, s.file)
    BY DEF TakeFile
  <2> HIDE DEF u
  <2>7. Between(u)
    <3>1. o.name # "" /\ FileOf(o).name = o.name
      BY <2>4 DEF Opens, Names, FileOf
    <3> QED BY <2>6, <3>1 DEF Between
  <2>8. Range(u.files) = {FileOf(opens[i]) : i \in 1..k}
    <3>1. CASE k = 0
      <4>1. NoFile.name = ""
        BY DEF NoFile
      <4>2. 1..k = {} /\ 1..(k - 1) = {}
        BY <3>1
      <4> QED BY <2>3, <2>6, <3>1, <4>1, <4>2
    <3>2. CASE k # 0
      <4>1. k \in 1..n /\ opens[k] \in Opens
        BY <1>1, <2>1, <3>2
      <4>2. s.file = FileOf(opens[k]) /\ s.file.name # ""
        <5>1. opens[k].name # "" /\ FileOf(opens[k]).name = opens[k].name
          BY <4>1 DEF Opens, Names, FileOf
        <5> QED BY <2>3, <3>2, <5>1
      <4>3. s.files \in Seq(FileRecords) /\ s.file \in FileRecords
        BY <2>4 DEF Parsed
      <4>4. Range(Append(s.files, s.file)) = Range(s.files) \cup {s.file}
        BY <4>3, Appended
      <4>5. 1..k = 1..(k - 1) \cup {k}
        BY <4>1
      <4>6. u.files = Append(s.files, s.file)
        BY <2>6, <4>2
      <4>7. Range(u.files) = {FileOf(opens[i]) : i \in 1..(k - 1)} \cup {FileOf(opens[k])}
        BY <2>3, <4>2, <4>4, <4>6
      <4> QED BY <4>5, <4>7
    <3> QED BY <3>1, <3>2
  <2>9. Known(u, k + 1)
    BY <2>1, <2>6, <2>7, <2>8 DEF o
  <2> HIDE DEF Known
  <2> QED BY <2>1, <2>5, <2>9 DEF u
<1> HIDE DEF T
<1>7. \A k \in 0..n : k \in T
  BY <1>1, <1>5, <1>6, UpTo
<1> DEFINE end == TakeFields(h[n])
<1>8. Known(end, n) /\ end \in Parsed
  <2>1. n \in 0..n
    BY <1>1
  <2>2. n \in T
    BY <1>7, <2>1
  <2>3. h[n] \in Seq(FieldTokens)
    BY <1>3, <1>4, <2>1 DEF Joined, S
  <2>4. <<"f", 0>> \in FieldTokens
    BY DEF FieldTokens
  <2> HIDE DEF Known
  <2> QED BY <2>2, <2>3, <2>4, FieldMore DEF T
<1>9. OpenText(opens, marked) = h[n]
  BY <1>3, <1>4 DEF OpenText
<1>10. ParseLsofFiles(OpenText(opens, marked))
         = IF end.file.name = "" THEN end.files ELSE Append(end.files, end.file)
  BY <1>9 DEF ParseLsofFiles
<1> HIDE DEF end
<1>11. {FileOf(o) : o \in Range(opens)} = {FileOf(opens[i]) : i \in 1..n}
  BY <1>1 DEF Range
<1>12. CASE n = 0
  <2>1. NoFile.name = ""
    BY DEF NoFile
  <2>2. 1..n = {} /\ 1..(n - 1) = {}
    BY <1>12
  <2> QED BY <1>8, <1>10, <1>11, <1>12, <2>1, <2>2
<1>13. CASE n # 0
  <2>1. n \in 1..n /\ opens[n] \in Opens
    BY <1>1, <1>13
  <2>2. end.file = FileOf(opens[n]) /\ end.file.name # ""
    <3>1. opens[n].name # "" /\ FileOf(opens[n]).name = opens[n].name
      BY <2>1 DEF Opens, Names, FileOf
    <3> QED BY <1>8, <1>13, <3>1
  <2>3. end.files \in Seq(FileRecords) /\ end.file \in FileRecords
    BY <1>8 DEF Parsed
  <2>4. Range(Append(end.files, end.file)) = Range(end.files) \cup {end.file}
    BY <2>3, Appended
  <2>5. Range(ParseLsofFiles(OpenText(opens, marked)))
          = {FileOf(opens[i]) : i \in 1..(n - 1)} \cup {FileOf(opens[n])}
    BY <1>8, <1>10, <2>2, <2>4
  <2>6. 1..n = 1..(n - 1) \cup {n}
    BY <2>1
  <2> QED BY <1>11, <2>5, <2>6
<1> QED BY <1>12, <1>13

\* The open locks of a process, by the intended lock's inode.
LocksOf(opens, intended) ==
  {IF o.identified /\ o.inode = intended THEN "intended" ELSE o.name :
     o \in {p \in Range(opens) : p.name \in ThreadLockNames}}

LEMMA LocksAreAll ==
  ASSUME NEW opens \in Seq(Opens), NEW marked \in BOOLEAN,
         NEW r \in Diagnostic("zero", OpenText(opens, marked)),
         NEW intended, NEW sound \in BOOLEAN, ~OpenedLocks(r, intended, sound).error
  PROVE  /\ OpenedLocks(r, intended, sound).paths = LocksOf(opens, intended)
         /\ \A o \in Range(opens) : o.name # "deleted"
<1> DEFINE candidates == {f \in Range(ParseLsofFiles(r.text)) : f.name \in ThreadLockNames}
           locks == {LockOf(f, intended, sound) : f \in candidates}
           bad == \/ r.failure \/ r.status # "zero" \/ r.warned
                  \/ intended = 0 \/ "error" \in locks
<1>1. OpenedLocks(r, intended, sound)
        = IF bad THEN [error |-> TRUE, paths |-> {}] ELSE [error |-> FALSE, paths |-> locks]
  BY DEF OpenedLocks
<1> HIDE DEF locks, bad
<1>2. ~bad /\ OpenedLocks(r, intended, sound).paths = locks
  <2>1. CASE bad
    BY <1>1, <2>1
  <2>2. CASE ~bad
    BY <1>1, <2>2
  <2> QED BY <2>1, <2>2
<1>3. ~r.failure /\ r.status = "zero" /\ ~r.warned /\ intended # 0 /\ "error" \notin locks
  BY <1>2 DEF bad
<1>4. r.text = OpenText(opens, marked)
  <2>1. r.status # "killed"
    BY <1>3
  <2> QED BY <1>3, <2>1, WholeResult
<1>5. Range(ParseLsofFiles(r.text)) = {FileOf(o) : o \in Range(opens)}
  BY <1>4, FilesAreParsed
<1>6. ASSUME NEW o \in Range(opens)
      PROVE  o \in Opens /\ FileOf(o).name = o.name
             /\ (FileOf(o).device = 1 /\ FileOf(o).inode = intended
                   <=> o.identified /\ o.inode = intended)
  <2>1. o \in Opens /\ o.identified \in BOOLEAN
    <3>1. DOMAIN opens = 1..Len(opens) /\ \A i \in 1..Len(opens) : opens[i] \in Opens
      OBVIOUS
    <3> QED BY <3>1 DEF Range, Opens
  <2>2. CASE o.identified
    <3>1. FileOf(o).name = o.name /\ FileOf(o).device = 1 /\ FileOf(o).inode = o.inode
      BY <2>2 DEF FileOf
    <3> QED BY <2>1, <2>2, <3>1
  <2>3. CASE ~o.identified
    <3>1. FileOf(o).name = o.name /\ FileOf(o).device = 0
      BY <2>3 DEF FileOf
    <3> QED BY <2>1, <2>3, <3>1
  <2> QED BY <2>1, <2>2, <2>3
<1> DEFINE lock(o) == IF o.identified /\ o.inode = intended THEN "intended" ELSE o.name
           held == {p \in Range(opens) : p.name \in ThreadLockNames}
<1>7. ASSUME NEW o \in held
      PROVE  LockOf(FileOf(o), intended, sound) \in locks
  <2>1. FileOf(o) \in candidates
    BY <1>5, <1>6
  <2> QED BY <2>1 DEF locks
<1>8. ASSUME NEW o \in held
      PROVE  o.name # "deleted" /\ LockOf(FileOf(o), intended, sound) = lock(o)
  <2>1. LockOf(FileOf(o), intended, sound) # "error"
    BY <1>3, <1>7
  <2> QED BY <1>6, <2>1 DEF LockOf
<1>9. locks = {lock(o) : o \in held}
  <2>1. ASSUME NEW x \in locks PROVE x \in {lock(o) : o \in held}
    <3>1. PICK f \in candidates : x = LockOf(f, intended, sound)
      BY DEF locks
    <3>2. PICK o \in Range(opens) : f = FileOf(o)
      BY <1>5
    <3>3. o \in held
      BY <1>6, <3>1, <3>2
    <3> QED BY <1>8, <3>1, <3>2, <3>3
  <2>2. ASSUME NEW o \in held PROVE lock(o) \in locks
    <3>1. LockOf(FileOf(o), intended, sound) = lock(o) /\ LockOf(FileOf(o), intended, sound) \in locks
      BY <1>7, <1>8
    <3> HIDE DEF lock
    <3> QED BY <3>1
  <2> HIDE DEF lock, held
  <2> QED BY <2>1, <2>2
<1>10. \A o \in Range(opens) : o.name # "deleted"
  <2> SUFFICES ASSUME NEW o \in Range(opens), o.name = "deleted" PROVE FALSE
    OBVIOUS
  <2>1. o \in held
    BY DEF ThreadLockNames, Names
  <2> QED BY <1>8, <2>1
<1> QED BY <1>2, <1>9, <1>10 DEF LocksOf

\* A table that ps printed whole gives all relatives.
LEMMA RelativesAreAll ==
  ASSUME NEW people, IsFiniteSet(people), 0 \notin people,
         NEW parents \in [people -> people \cup {0}], NEW pid \in people,
         NEW t \in ProcessTables(parents), t.rows # {}, t.whole
  PROVE  /\ DescendantPids(Restrict(parents, t.rows), pid) = Below(people, parents, pid)
         /\ CurrentProcessFamily(Restrict(parents, t.rows), pid) = Above(people, parents, pid)
<1> DEFINE rows == SetToSeq(DOMAIN parents)
<1>1. DOMAIN parents = people
  OBVIOUS
<1>2. rows \in [1..Cardinality(people) -> people]
      /\ people = {rows[i] : i \in 1..Cardinality(people)}
  BY <1>1, AllInSeq
<1>3. PICK r \in Diagnostic("zero", rows) :
        t = [whole |-> r.text = rows,
             rows |-> IF r.failure \/ r.status # "zero" THEN {} ELSE Range(r.text)]
  BY DEF ProcessTables
<1> HIDE DEF rows
<1>4. r.text = rows /\ t.rows = IF r.failure \/ r.status # "zero" THEN {} ELSE Range(r.text)
  BY <1>3
<1>5. t.rows = Range(rows)
  BY <1>4
<1>6. Range(rows) = people
  BY <1>2 DEF Range
<1>7. Restrict(parents, t.rows) = parents
  <2>1. Restrict(parents, people) = [x \in people |-> parents[x]]
    BY DEF Restrict
  <2> QED BY <1>5, <1>6, <2>1
<1> QED BY <1>1, <1>7, DescendantsAre, FamilyIs

-----------------------------------------------------------------------------
(* What has been answered hides nothing.                                    *)

OpenersHold ==
  query.kind = "openers" =>
    /\ IsFiniteSet(machine.openers)
    /\ answer.done => answer.value.error \/ answer.value.pids = machine.openers

TableHolds ==
  query.kind = "table" =>
    /\ query.pid = 1 /\ machine.parents \in [1..Pids -> 0..Pids]
    /\ (answer.done /\ answer.value.known /\ answer.value.whole) =>
         /\ answer.value.below = Below(1..Pids, machine.parents, query.pid)
         /\ answer.value.above = Above(1..Pids, machine.parents, query.pid)

OpenFiles == [opens : Seq(Opens), intended : 0..2, sound : BOOLEAN]

LocksHold ==
  query.kind = "locks" =>
    /\ query.marked \in BOOLEAN /\ machine \in OpenFiles
    /\ seen = <<>> \/ \E r \in Diagnostic("zero", OpenText(machine.opens, query.marked)) : seen = <<r>>
    /\ (answer.done /\ ~answer.value.error) =>
         /\ answer.value.paths = LocksOf(machine.opens, machine.intended)
         /\ \A o \in Range(machine.opens) : o.name # "deleted"

HiddenInv == OpenersHold /\ TableHolds /\ LocksHold

LEMMA HiddenInvHolds == HiddenInv => NothingHidden
BY DEF HiddenInv, OpenersHold, TableHolds, LocksHold, NothingHidden, Answered, Below, Above, LocksOf

LEMMA HiddenStays ==
  ASSUME HiddenInv, UNCHANGED evidenceVars
  PROVE  HiddenInv'
<1>1. query' = query /\ machine' = machine /\ seen' = seen /\ answer' = answer
  BY DEF evidenceVars
<1>2. OpenersHold /\ TableHolds /\ LocksHold
  BY DEF HiddenInv
<1>3. OpenersHold'
  BY <1>1, <1>2 DEF OpenersHold
<1>4. TableHolds'
  BY <1>1, <1>2 DEF TableHolds
<1>5. LocksHold'
  BY <1>1, <1>2 DEF LocksHold
<1> QED BY <1>3, <1>4, <1>5 DEF HiddenInv

LEMMA OpenersKeep ==
  ASSUME HiddenInv, FindLockOpeners
  PROVE  HiddenInv'
<1>1. query.kind = "openers" /\ query' = query /\ machine' = machine /\ IsFiniteSet(machine.openers)
  BY DEF FindLockOpeners, HiddenInv, OpenersHold
<1>2. PICK r \in Diagnostic(IF machine.openers = {} THEN "one" ELSE "zero",
                            OpenerFields(machine.openers)) :
        answer' = [done |-> TRUE, value |-> LockOpeners(r)]
  BY DEF FindLockOpeners, Answers
<1>3. answer'.value = LockOpeners(r)
  BY <1>2
<1>4. LockOpeners(r).error \/ LockOpeners(r).pids = machine.openers
  <2> DEFINE code == IF machine.openers = {} THEN "one" ELSE "zero"
  <2>1. r \in Diagnostic(code, OpenerFields(machine.openers))
    BY <1>2
  <2> HIDE DEF code
  <2> QED BY <1>1, <2>1, OpenersAreAll
<1>5. OpenersHold'
  BY <1>1, <1>3, <1>4 DEF OpenersHold
<1> QED BY <1>1, <1>5 DEF HiddenInv, TableHolds, LocksHold

LEMMA TableKeeps ==
  ASSUME HiddenInv, ReadProcessTable
  PROVE  HiddenInv'
<1>1. /\ query.kind = "table" /\ query' = query /\ machine' = machine /\ query.pid = 1
      /\ machine.parents \in [1..Pids -> 0..Pids]
  BY DEF ReadProcessTable, HiddenInv, TableHolds
<1>2. PICK t \in ProcessTables(machine.parents) :
        answer' = [done |-> TRUE, value |->
                   [known |-> t.rows # {}, whole |-> t.whole,
                    below |-> DescendantPids(Restrict(machine.parents, t.rows), query.pid),
                    above |-> CurrentProcessFamily(Restrict(machine.parents, t.rows), query.pid)]]
  BY DEF ReadProcessTable, Answers
<1> DEFINE v == answer'.value
<1>3. /\ v.known = (t.rows # {}) /\ v.whole = t.whole
      /\ v.below = DescendantPids(Restrict(machine.parents, t.rows), query.pid)
      /\ v.above = CurrentProcessFamily(Restrict(machine.parents, t.rows), query.pid)
  BY <1>2
<1>4. /\ IsFiniteSet(1..Pids) /\ 0 \notin 1..Pids /\ 0..Pids = 1..Pids \cup {0} /\ 1 \in 1..Pids
  BY EvidenceAssumption, FS_Interval
<1>5. v.known /\ v.whole =>
        /\ v.below = Below(1..Pids, machine.parents, query.pid)
        /\ v.above = Above(1..Pids, machine.parents, query.pid)
  <2> SUFFICES ASSUME v.known, v.whole
               PROVE  /\ v.below = Below(1..Pids, machine.parents, query.pid)
                      /\ v.above = Above(1..Pids, machine.parents, query.pid)
    OBVIOUS
  <2>1. t.rows # {} /\ t.whole
    BY <1>3
  <2> DEFINE people == 1..Pids
  <2>2. machine.parents \in [people -> people \cup {0}] /\ query.pid \in people
    BY <1>1, <1>4
  <2>3. IsFiniteSet(people) /\ 0 \notin people
    BY <1>4
  <2> HIDE DEF people
  <2>4. /\ DescendantPids(Restrict(machine.parents, t.rows), query.pid)
             = Below(people, machine.parents, query.pid)
        /\ CurrentProcessFamily(Restrict(machine.parents, t.rows), query.pid)
             = Above(people, machine.parents, query.pid)
    BY <1>2, <2>1, <2>2, <2>3, RelativesAreAll
  <2> QED BY <1>3, <2>4 DEF people
<1> HIDE DEF v
<1>6. TableHolds'
  BY <1>1, <1>5 DEF TableHolds, v
<1> QED BY <1>1, <1>6 DEF HiddenInv, OpenersHold, LocksHold

LEMMA FilesKeep ==
  ASSUME HiddenInv, ~answer.done, ReadOpenFiles \/ FilesChange \/ LockFilesOpenedByProcess
  PROVE  HiddenInv'
<1>1. /\ query.kind = "locks" /\ query' = query /\ query.marked \in BOOLEAN /\ machine \in OpenFiles
      /\ seen = <<>> \/ \E r \in Diagnostic("zero", OpenText(machine.opens, query.marked)) : seen = <<r>>
  BY DEF ReadOpenFiles, FilesChange, LockFilesOpenedByProcess, HiddenInv, LocksHold
<1>2. CASE ReadOpenFiles
  <2>1. machine' = machine /\ answer' = answer
        /\ \E r \in Diagnostic("zero", OpenText(machine.opens, query.marked)) : seen' = <<r>>
    BY <1>2 DEF ReadOpenFiles, OpenText
  <2>2. LocksHold'
    BY <1>1, <2>1 DEF LocksHold
  <2> QED BY <1>1, <2>2 DEF HiddenInv, OpenersHold, TableHolds
<1>3. CASE FilesChange
  <2>1. PICK inode \in {0, 1, 2}, sound \in BOOLEAN :
          machine' = [machine EXCEPT !.intended = inode, !.sound = sound]
    BY <1>3 DEF FilesChange
  <2>2. machine' \in OpenFiles /\ machine'.opens = machine.opens
    <3> DEFINE k == [machine EXCEPT !.intended = inode]
    <3>1. k \in OpenFiles /\ k.opens = machine.opens
      BY <1>1 DEF OpenFiles
    <3>2. machine' = [k EXCEPT !.sound = sound]
      BY <2>1
    <3> HIDE DEF k
    <3> QED BY <3>1, <3>2 DEF OpenFiles
  <2>3. seen' = seen /\ answer' = answer
    BY <1>3 DEF FilesChange
  <2>4. LocksHold'
    BY <1>1, <2>2, <2>3 DEF LocksHold
  <2> QED BY <1>1, <2>4 DEF HiddenInv, OpenersHold, TableHolds
<1>4. CASE LockFilesOpenedByProcess
  <2>1. machine' = machine /\ seen' = seen /\ seen # <<>>
        /\ answer' = [done |-> TRUE, value |-> OpenedLocks(seen[1], machine.intended, machine.sound)]
    BY <1>4 DEF LockFilesOpenedByProcess, Answers
  <2>2. PICK r \in Diagnostic("zero", OpenText(machine.opens, query.marked)) : seen = <<r>>
    BY <1>1, <2>1
  <2>3. seen[1] = r
    BY <2>2
  <2>4. answer'.value = OpenedLocks(r, machine.intended, machine.sound)
    BY <2>1, <2>3
  <2>5. machine.opens \in Seq(Opens) /\ machine.sound \in BOOLEAN
    BY <1>1 DEF OpenFiles
  <2>6. ~OpenedLocks(r, machine.intended, machine.sound).error =>
          /\ OpenedLocks(r, machine.intended, machine.sound).paths
               = LocksOf(machine.opens, machine.intended)
          /\ \A o \in Range(machine.opens) : o.name # "deleted"
    BY <1>1, <2>2, <2>5, LocksAreAll
  <2>7. LocksHold'
    BY <1>1, <2>1, <2>4, <2>6 DEF LocksHold
  <2> QED BY <1>1, <2>7 DEF HiddenInv, OpenersHold, TableHolds
<1> QED BY <1>2, <1>3, <1>4

\* A query about a process leaves these alone.
LEMMA HiddenOther ==
  ASSUME HiddenInv, query' = query, query.kind \notin {"openers", "table", "locks"}
  PROVE  HiddenInv'
BY DEF HiddenInv, OpenersHold, TableHolds, LocksHold

LEMMA HiddenStepKeeps ==
  ASSUME HiddenInv, EvidenceStep
  PROVE  HiddenInv'
<1>1. ~answer.done
  BY DEF EvidenceStep
<1>2. CASE FindLockOpeners
  BY <1>2, OpenersKeep
<1>3. CASE ReadProcessTable
  BY <1>3, TableKeeps
<1>4. CASE ReadOpenFiles \/ FilesChange \/ LockFilesOpenedByProcess
  BY <1>1, <1>4, FilesKeep
<1>5. CASE ReadExit \/ ConfirmExit \/ JudgeArguments \/ InspectProcess
  BY <1>5, HiddenOther DEF ReadExit, ConfirmExit, JudgeArguments, InspectProcess
<1>6. ASSUME NEW f, ObserveField(f) PROVE HiddenInv'
  BY <1>6, HiddenOther DEF ObserveField
<1>7. CASE Execs \/ Exits \/ Reaped \/ PidReused
  BY <1>7, HiddenOther DEF Execs, Exits, Reaped, PidReused, Lives
<1> QED BY <1>2, <1>3, <1>4, <1>5, <1>6, <1>7 DEF EvidenceStep, Concludes, World

LEMMA HiddenBegins == SourcesInit => HiddenInv
<1> SUFFICES ASSUME SourcesInit PROVE HiddenInv
  OBVIOUS
<1>1. CASE source # "process"
  <2>1. query = [kind |-> "openers"] /\ machine = [openers |-> {}] /\ answer = [done |-> FALSE]
    BY <1>1 DEF SourcesInit, Unanswered
  <2>2. query.kind = "openers" /\ machine.openers = {} /\ answer.done = FALSE
    BY <2>1
  <2> QED BY <2>2, FS_EmptySet DEF HiddenInv, OpenersHold, TableHolds, LocksHold
<1>2. CASE source = "process"
  <2>1. EvidenceInit
    BY <1>2 DEF SourcesInit
  <2>2. seen = <<>> /\ answer.done = FALSE
    BY <2>1 DEF EvidenceInit, Unanswered
  <2>3. PICK c \in Cases : query = c[1] /\ machine = c[2]
    BY <2>1 DEF EvidenceInit
  <2>4. \/ query.kind \in {"exit", "inspect", "arguments"}
        \/ query.kind = "openers" /\ \E o \in SUBSET (1..2) : machine = [openers |-> o]
        \/ /\ query.kind = "table" /\ query.pid = 1
           /\ \E t \in [1..Pids -> 0..Pids] : machine = [parents |-> t]
        \/ /\ query.kind = "locks" /\ query.marked \in BOOLEAN
           /\ \E o \in BoundedSeq(Opens, MaxOpens) :
                machine = [opens |-> o, intended |-> 1, sound |-> TRUE]
    <3>1. CASE c \in {<<[kind |-> "openers"], [openers |-> o]>> : o \in SUBSET (1..2)}
      BY <2>3, <3>1
    <3>2. CASE c \in {<<[kind |-> "exit"], m>> : m \in Process}
               \cup {<<[kind |-> "inspect", linux |-> l], m>> : l \in BOOLEAN, m \in Process}
               \cup {<<[kind |-> "arguments", linux |-> l], [argv |-> a]>> :
                       l \in BOOLEAN, a \in Argvs}
      <4>1. c[1].kind \in {"exit", "inspect", "arguments"}
        BY <3>2
      <4> QED BY <2>3, <4>1
    <3>3. CASE c \in {<<[kind |-> "table", pid |-> 1], [parents |-> t]>> :
                       t \in [1..Pids -> 0..Pids]}
      <4>1. PICK t \in [1..Pids -> 0..Pids] :
              c = <<[kind |-> "table", pid |-> 1], [parents |-> t]>>
        BY <3>3
      <4>2. query = [kind |-> "table", pid |-> 1] /\ machine = [parents |-> t]
        BY <2>3, <4>1
      <4>3. query.kind = "table" /\ query.pid = 1
        BY <4>2
      <4> QED BY <4>2, <4>3
    <3>4. CASE c \in {<<[kind |-> "locks", marked |-> f],
                        [opens |-> o, intended |-> 1, sound |-> TRUE]>> :
                       f \in BOOLEAN, o \in BoundedSeq(Opens, MaxOpens)}
      <4>1. PICK f \in BOOLEAN, o \in BoundedSeq(Opens, MaxOpens) :
              c = <<[kind |-> "locks", marked |-> f],
                    [opens |-> o, intended |-> 1, sound |-> TRUE]>>
        BY <3>4
      <4>2. /\ query = [kind |-> "locks", marked |-> f]
            /\ machine = [opens |-> o, intended |-> 1, sound |-> TRUE]
        BY <2>3, <4>1
      <4>3. query.kind = "locks" /\ query.marked \in BOOLEAN
        BY <4>2
      <4> QED BY <4>2, <4>3
    <3> QED BY <3>1, <3>2, <3>3, <3>4 DEF Cases
  <2>5. CASE query.kind \in {"exit", "inspect", "arguments"}
    BY <2>5 DEF HiddenInv, OpenersHold, TableHolds, LocksHold
  <2>6. CASE query.kind = "openers" /\ \E o \in SUBSET (1..2) : machine = [openers |-> o]
    <3>1. machine.openers \in SUBSET (1..2)
      BY <2>6
    <3>2. IsFiniteSet(machine.openers)
      <4>1. \A n \in Nat : IsFiniteSet(1..n)
        BY FS_Interval
      <4>2. IsFiniteSet(1..2)
        BY <4>1
      <4> QED BY <3>1, <4>2, FS_Subset
    <3> QED BY <2>2, <2>6, <3>2 DEF HiddenInv, OpenersHold, TableHolds, LocksHold
  <2>7. CASE /\ query.kind = "table" /\ query.pid = 1
             /\ \E t \in [1..Pids -> 0..Pids] : machine = [parents |-> t]
    <3>1. machine.parents \in [1..Pids -> 0..Pids]
      BY <2>7
    <3> QED BY <2>2, <2>7, <3>1 DEF HiddenInv, OpenersHold, TableHolds, LocksHold
  <2>8. CASE /\ query.kind = "locks" /\ query.marked \in BOOLEAN
             /\ \E o \in BoundedSeq(Opens, MaxOpens) :
                  machine = [opens |-> o, intended |-> 1, sound |-> TRUE]
    <3>1. \A n \in Nat : BoundedSeq(Opens, n) \subseteq Seq(Opens)
      BY DEF BoundedSeq, SeqOf
    <3>2. machine \in OpenFiles
      BY <2>8, <3>1, EvidenceAssumption DEF OpenFiles
    <3> QED BY <2>2, <2>8, <3>2 DEF HiddenInv, OpenersHold, TableHolds, LocksHold
  <2> QED BY <2>4, <2>5, <2>6, <2>7, <2>8
<1> QED BY <1>1, <1>2

LEMMA HiddenKeeps ==
  ASSUME HiddenInv, [SourcesNext]_sourcesVars
  PROVE  HiddenInv'
<1>1. CASE UNCHANGED evidenceVars
  BY <1>1, HiddenStays
<1>2. CASE EvidenceStep
  BY <1>2, HiddenStepKeeps
<1> QED BY <1>1, <1>2 DEF SourcesNext, sourcesVars, Runs, Concluding, Scanning

-----------------------------------------------------------------------------
(* Evidence.                                                               *)

\* A step of the others leaves the command as it is.
LEMMA CommandMoves == [SourcesNext]_sourcesVars => [Next]_vars
BY DEF SourcesNext, sourcesVars, Runs, Concluding, Scanning

LEMMA CommandBegins == SourcesInit => Init
BY DEF SourcesInit

\* The invariants of the three hold, whichever of them runs.
THEOREM SourcesInvariant == SourcesSpec => [](IInv /\ TranscriptInv /\ ProcessInv /\ HiddenInv)
<1>1. SourcesInit => IInv /\ TranscriptInv /\ ProcessInv /\ HiddenInv
  BY CommandBegins, InitIInv, SourcesTranscriptInit, ProcessBegins, HiddenBegins
<1>2. (IInv /\ TranscriptInv /\ ProcessInv /\ HiddenInv) /\ [SourcesNext]_sourcesVars
        => (IInv /\ TranscriptInv /\ ProcessInv /\ HiddenInv)'
  BY CommandMoves, NextIInv, TranscriptKeeps, ProcessKeeps, HiddenKeeps
<1> QED BY <1>1, <1>2, PTL DEF SourcesSpec

\* The variables of the three keep their types.
THEOREM SourcesTypeCorrect == SourcesSpec => []SourcesTypeOK
<1>1. IInv /\ TranscriptInv /\ ProcessInv => SourcesTypeOK
  <2> SUFFICES ASSUME IInv, TranscriptTyped, ProcessInv PROVE SourcesTypeOK
    BY DEF TranscriptInv
  <2>1. TypeOK /\ EvidenceTypeOK
    BY ProcessInvHolds DEF IInv
  <2>2. TranscriptTypeOK
    BY DEF TranscriptTyped, TranscriptTypeOK, ScanStates, Verdicts, Places
  <2> QED BY <2>1, <2>2 DEF SourcesTypeOK
<1> QED BY <1>1, SourcesInvariant, PTL

\* Arguments that are called complete and unshared are accepted by the reviewed
\* grammar, however ps and /proc answer, and a service that still runs is never
\* taken for an owner.
THEOREM NoServiceTaken == SourcesSpec => []NoServicePasses
<1>1. IInv /\ TranscriptInv /\ ProcessInv => NoServicePasses
  BY ProcessInvHolds
<1> QED BY <1>1, SourcesInvariant, PTL

\* What ps and lsof are taken to say is so: a process that is said to have
\* exited has, one that is said to run was seen alive, an answer without an error
\* leaves out no opener and no open lock, whatever lsof omits and however the
\* files change, and a process table that was printed whole no relative.
THEOREM AnswersTrue == SourcesSpec => []AnswersAreTrue
<1>1. IInv /\ TranscriptInv /\ ProcessInv /\ HiddenInv => AnswersAreTrue
  BY ProcessInvHolds, HiddenInvHolds DEF AnswersAreTrue
<1> QED BY <1>1, SourcesInvariant, PTL

\* A result without a failure has all that was written to the two streams.
THEOREM WholeOrFailed == SourcesSpec => []CleanIsWhole
<1>1. IInv /\ TranscriptInv /\ ProcessInv => CleanIsWhole
  BY DEF IInv, Final, CleanIsWhole
<1> QED BY <1>1, SourcesInvariant, PTL

\* Neither a recorded failure nor a result ever changes.
THEOREM FirstFailureStays == SourcesSpec => FirstFailureKept
<1>1. SourcesSpec => Spec
  BY CommandBegins, CommandMoves, PTL DEF SourcesSpec, Spec
<1> QED BY <1>1, FirstFailure

\* The record of an inspection that is called stable is the last line of the
\* transcript that is there, and its hash is of all of it, however Codex writes,
\* cuts or moves the file between the reads.
THEOREM StableRecord == SourcesSpec => []StableIsLast
<1>1. IInv /\ TranscriptInv /\ ProcessInv => StableIsLast
  BY DEF TranscriptInv
<1> QED BY <1>1, SourcesInvariant, PTL
=============================================================================
