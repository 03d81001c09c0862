-------------------------- MODULE TerminationProofs --------------------------
(***************************************************************************)
(* The outcome of an unlock for any number of listed and later             *)
(* descendants, appends and readings of the clocks: what it claims is      *)
(* true.                                                                   *)
(*                                                                         *)
(* Everything the call learns was true at another moment.  The argument is *)
(* that what it needs stays true: a process that does not run any more     *)
(* runs never again, appends nothing and forks nobody, and the description *)
(* that it locked, once closed by all, is closed for good.                 *)
(***************************************************************************)
EXTENDS Termination, TLAPS

\* Nobody has the lock that the owner took, on the file the path names.
Gone == path = "old" => sharers = {}

\* The kernel's side: a process that has ended has no descriptor.
Ended ==
  /\ owner # "running" => Owner \notin sharers
  /\ appends = 0 => ~wrote

\* What the observations said is still true.
Learnt ==
  /\ answer.exited = "yes" => owner # "running"
  /\ answer.probe = "free" => Gone
  /\ state.exited = "yes" => owner # "running"
  /\ state.probe = "free" => Gone
  /\ pc \in {"lsof", "identify"} => owner # "running"
  /\ pc = "identify" => (path = "old" => sharers \subseteq seen)
  /\ state.exited = "yes" /\ state.unchanged = "yes" => ~wrote

\* The transcript is compared and the outcome decided after the observations.
Ordered ==
  /\ pc \notin {"report", "done"} => state.unchanged = "unknown"
  /\ pc # "done" => state.outcome = "none"
  /\ state.outcome = "unlocked" =>
       /\ state.exited = "yes" /\ state.probe = "free"
       /\ state.unchanged = "yes"

\* A reported reacquisition is nobody's that the first inspection listed.
Reacquired ==
  state.reacquired # {} =>
    owner # "running" /\ (path = "old" => sharers \subseteq Late)

IInv == TypeOK /\ Ended /\ Learnt /\ Ordered /\ Reacquired

USE DEF Stages, Verdicts, Answers, Outcomes, State

LEMMA InitIInv == Init => IInv
<1> SUFFICES ASSUME Init PROVE IInv
  OBVIOUS
<1> USE TerminationAssumption DEF Init, NoState, NoAnswer
<1>1. TypeOK
  <2>1. /\ holds \in BOOLEAN /\ section \in BOOLEAN /\ wrote \in BOOLEAN
        /\ late \in BOOLEAN /\ wall \in BOOLEAN
    BY Zenon
  <2>2. sharers \subseteq Processes \ {Successor} /\ alive \subseteq Processes \ {Owner}
    BY DEF Processes, Descendants
  <2>3. state \in State /\ answer \in [exited : Answers, probe : Verdicts]
    OBVIOUS
  <2> QED BY <2>1, <2>2, <2>3 DEF TypeOK, Processes
<1>2. Ended /\ Learnt /\ Ordered /\ Reacquired
  BY DEF Ended, Learnt, Ordered, Reacquired
<1> QED BY <1>1, <1>2 DEF IInv

\* While the call stands still nothing it has learnt gets false.
LEMMA Lasting ==
  ASSUME IInv, UNCHANGED call,
         owner # "running" => /\ owner' # "running" /\ sharers' \subseteq sharers
                              /\ wrote' = wrote,
         path' = "old" => path = "old",
         sharers = {} => sharers' = {},
         TypeOK', Ended'
  PROVE  IInv'
<1> USE DEF IInv, call
<1>1. Gone => Gone'
  BY DEF Gone
<1>2. Learnt'
  BY <1>1 DEF Learnt
<1>3. Ordered'
  BY DEF Ordered
<1>4. Reacquired'
  BY DEF Reacquired
<1> QED BY <1>2, <1>3, <1>4

LEMMA OwnerIInv ==
  ASSUME IInv, OwnerAppends \/ OwnerDrops \/ OwnerExits \/ Reaped
  PROVE  IInv'
<1> USE TerminationAssumption DEF IInv, TypeOK, Ended, locks, clocks, call
<1>1. CASE OwnerAppends
  BY <1>1, Lasting DEF OwnerAppends
<1>2. CASE OwnerDrops
  BY <1>2, Lasting DEF OwnerDrops
<1>3. CASE OwnerExits
  BY <1>3, Lasting DEF OwnerExits
<1>4. CASE Reaped
  BY <1>4, Lasting DEF Reaped
<1> QED BY <1>1, <1>2, <1>3, <1>4

LEMMA DescendantIInv ==
  ASSUME IInv, NEW d \in Descendants, Forks(d) \/ DescendantExits(d)
  PROVE  IInv'
<1> USE TerminationAssumption
    DEF IInv, TypeOK, Ended, Descendants, Processes, clocks, call
<1>1. CASE Forks(d)
  BY <1>1, Lasting DEF Forks
<1>2. CASE DescendantExits(d)
  BY <1>2, Lasting DEF DescendantExits
<1> QED BY <1>1, <1>2

LEMMA SuccessorIInv ==
  ASSUME IInv,
         \/ SuccessorStarts \/ SuccessorOpens \/ SuccessorTries
         \/ SuccessorDrops \/ SuccessorAppends
  PROVE  IInv'
<1> USE TerminationAssumption DEF IInv, TypeOK, Ended, locks, clocks, call
<1>1. CASE SuccessorStarts
  <2>1. FreePids \subseteq Processes
    BY DEF FreePids, Processes, Descendants
  <2> QED BY <1>1, <2>1, Lasting DEF SuccessorStarts, Processes, Descendants
<1>2. CASE SuccessorOpens
  <2>1. path' \in {"old", "new", "none"} /\ taken' \in {"old", "new", "none"}
    BY <1>2 DEF SuccessorOpens
  <2>2. section' \in BOOLEAN
    BY <1>2, Zenon DEF SuccessorOpens
  <2> QED BY <1>2, <2>1, <2>2, Lasting DEF SuccessorOpens
<1>3. CASE SuccessorTries
  <2>1. holds' \in BOOLEAN /\ section' \in BOOLEAN
    BY <1>3, Zenon DEF SuccessorTries
  <2>2. taken' \in {"old", "new", "none"}
    BY <1>3 DEF SuccessorTries
  <2> QED BY <1>3, <2>1, <2>2, Lasting DEF SuccessorTries
<1>4. CASE SuccessorDrops
  <2>1. holds' \in BOOLEAN
    BY <1>4, Zenon DEF SuccessorDrops
  <2>2. path' \in {"none", path} /\ taken' = "none"
    BY <1>4 DEF SuccessorDrops
  <2> QED BY <1>4, <2>1, <2>2, Lasting DEF SuccessorDrops
<1>5. CASE SuccessorAppends
  BY <1>5, Lasting DEF SuccessorAppends
<1> QED BY <1>1, <1>2, <1>3, <1>4, <1>5

LEMMA ClockIInv == ASSUME IInv, Elapse \/ ClockIsSet PROVE IInv'
<1>1. late' \in BOOLEAN /\ wall' \in BOOLEAN
  BY Zenon DEF IInv, TypeOK, Elapse, ClockIsSet
<1>2. UNCHANGED <<world, call>>
  BY Zenon DEF Elapse, ClockIsSet
<1>3. TypeOK' /\ Ended'
  BY <1>1, <1>2 DEF IInv, TypeOK, Ended, world, locks, call
<1> QED BY <1>2, <1>3, Lasting DEF IInv, TypeOK, world, locks

\* What the code does when both observations have answered.
LEMMA JudgeIInv ==
  ASSUME IInv, pc = "observe", pending' \subseteq pending,
         answer' \in [exited : Answers, probe : Verdicts],
         answer'.exited = "yes" => owner # "running",
         answer'.probe = "free" => Gone,
         Judge(answer') \/ UNCHANGED <<pc, state>>,
         UNCHANGED <<world, clocks, seen>>
  PROVE  IInv'
<1> USE TerminationAssumption
    DEF IInv, world, locks, clocks, Judge, Released
<1>1. TypeOK'
  <2>1. state' \in State /\ pc' \in Stages
    BY DEF TypeOK
  <2> QED BY <2>1 DEF TypeOK
<1>2. Ended'
  BY DEF Ended
<1>3. Learnt'
  BY DEF TypeOK, Learnt, Ordered, Gone
<1>4. Ordered' /\ Reacquired'
  BY DEF TypeOK, Ordered, Reacquired
<1> QED BY <1>1, <1>2, <1>3, <1>4

LEMMA ObserveIInv == ASSUME IInv, ObserveExit \/ ObserveProbe PROVE IInv'
<1> USE DEF Answered
<1>1. CASE ObserveExit
  <2>1. PICK exited \in {Exited, "unknown"} :
               Answered("exit", [answer EXCEPT !.exited = exited])
    BY <1>1 DEF ObserveExit
  <2>2. /\ answer' = [answer EXCEPT !.exited = exited]
        /\ exited \in Answers /\ (exited = "yes" => owner # "running")
    BY <2>1 DEF Exited, IInv, TypeOK
  <2>3. /\ answer' \in [exited : Answers, probe : Verdicts]
        /\ answer'.exited = "yes" => owner # "running"
        /\ answer'.probe = "free" => Gone
    <3>1. answer \in [exited : Answers, probe : Verdicts]
      BY DEF IInv, TypeOK
    <3>2. /\ answer' \in [exited : Answers, probe : Verdicts]
          /\ answer'.exited = exited /\ answer'.probe = answer.probe
      BY <2>2, <3>1
    <3> QED BY <2>2, <3>2 DEF IInv, Learnt
  <2>4. /\ pc = "observe" /\ pending' \subseteq pending
        /\ Judge(answer') \/ UNCHANGED <<pc, state>>
        /\ UNCHANGED <<world, clocks, seen>>
    BY <2>1
  <2> QED BY <2>3, <2>4, JudgeIInv
<1>2. CASE ObserveProbe
  <2>1. PICK verdict \in {Probed, "unknown"} :
               Answered("probe", [answer EXCEPT !.probe = verdict])
    BY <1>2 DEF ObserveProbe
  <2>2. /\ answer' = [answer EXCEPT !.probe = verdict]
        /\ verdict \in Verdicts /\ (verdict = "free" => Gone)
    BY <2>1 DEF Probed, Held, Gone
  <2>3. /\ answer' \in [exited : Answers, probe : Verdicts]
        /\ answer'.exited = "yes" => owner # "running"
        /\ answer'.probe = "free" => Gone
    <3>1. answer \in [exited : Answers, probe : Verdicts]
      BY DEF IInv, TypeOK
    <3>2. /\ answer' \in [exited : Answers, probe : Verdicts]
          /\ answer'.exited = answer.exited /\ answer'.probe = verdict
      BY <2>2, <3>1
    <3> QED BY <2>2, <3>2 DEF IInv, Learnt
  <2>4. /\ pc = "observe" /\ pending' \subseteq pending
        /\ Judge(answer') \/ UNCHANGED <<pc, state>>
        /\ UNCHANGED <<world, clocks, seen>>
    BY <2>1
  <2> QED BY <2>3, <2>4, JudgeIInv
<1> QED BY <1>1, <1>2

LEMMA ListIInv == ASSUME IInv, ListOpeners PROVE IInv'
<1> USE TerminationAssumption
    DEF IInv, ListOpeners, world, locks, clocks
<1>1. PICK listed \in {{Pid(p) : p \in Openers}, {}} :
         /\ seen' = listed
         /\ pc' = IF listed = {} THEN "delay" ELSE "identify"
  OBVIOUS
<1>2. Openers \subseteq Processes /\ (path = "old" => sharers \subseteq Openers)
  BY DEF Openers, TypeOK, Processes
<1>3. \A p \in Processes : Pid(p) \in Processes /\ (p # Successor => Pid(p) = p)
  BY DEF Pid, TypeOK
<1>4. TypeOK'
  BY <1>1, <1>2, <1>3 DEF TypeOK
<1>5. pc' = "identify" => (path = "old" => sharers \subseteq seen')
  BY <1>1, <1>2, <1>3 DEF TypeOK
<1>6. Learnt'
  BY <1>1, <1>5 DEF Learnt, Gone
<1>7. Ended' /\ Ordered' /\ Reacquired'
  BY <1>1 DEF Ended, Ordered, Reacquired
<1> QED BY <1>4, <1>6, <1>7

LEMMA IdentifyIInv == ASSUME IInv, IdentifyReacquisition PROVE IInv'
<1> USE TerminationAssumption
    DEF IInv, IdentifyReacquisition, OtherOwner, world, locks, clocks
<1>1. TypeOK'
  BY DEF TypeOK
<1>2. \/ pc' = "hash" /\ state' = [state EXCEPT !.reacquired = seen]
                      /\ seen \cap Known = {}
      \/ pc' = "delay" /\ state' = state
  OBVIOUS
<1>3. Learnt' /\ Ended' /\ Ordered'
  BY <1>2 DEF TypeOK, Learnt, Ended, Ordered, Gone
<1>4. Reacquired'
  <2>1. CASE state' = state
    BY <2>1 DEF Reacquired
  <2>2. CASE state' = [state EXCEPT !.reacquired = seen] /\ seen \cap Known = {}
    <3>1. owner # "running" /\ (path = "old" => sharers \subseteq seen)
      BY DEF Learnt
    <3>2. sharers \subseteq Known \cup Late
      BY <3>1 DEF Ended, TypeOK, Processes, Descendants
    <3> QED BY <2>2, <3>1, <3>2 DEF Reacquired
  <2> QED BY <1>2, <2>1, <2>2
<1> QED BY <1>1, <1>3, <1>4

LEMMA CallIInv == ASSUME IInv, Call \/ Throws PROVE IInv'
<1> USE TerminationAssumption DEF IInv, world, locks, clocks
<1>1. CASE Kill
  BY <1>1 DEF Kill, TypeOK, Ended, Learnt, Ordered, Reacquired, Gone
<1>2. CASE Loop
  <2>1. TypeOK'
    <3>1. pc' \in Stages /\ pending' \subseteq {"exit", "probe"}
      BY <1>2 DEF Loop, TypeOK
    <3> QED BY <1>2, <3>1 DEF Loop, TypeOK, NoAnswer
  <2>2. Ended' /\ Learnt' /\ Ordered' /\ Reacquired'
    BY <1>2 DEF Loop, NoAnswer, Ended, Learnt, Ordered, Reacquired, Gone
  <2> QED BY <2>1, <2>2
<1>3. CASE Delay
  BY <1>3 DEF Delay, TypeOK, Ended, Learnt, Ordered, Reacquired, Gone
<1>4. CASE Hash
  <2>1. PICK unchanged \in {IF appends = 0 THEN "yes" ELSE "no", "unknown"} :
               state' = [state EXCEPT !.unchanged = unchanged]
    BY <1>4 DEF Hash
  <2>2. TypeOK'
    BY <1>4, <2>1 DEF Hash, TypeOK
  <2>3. unchanged = "yes" => ~wrote
    BY <2>1 DEF Ended
  <2>4. Ended' /\ Learnt' /\ Ordered' /\ Reacquired'
    BY <1>4, <2>1, <2>3 DEF Hash, TypeOK, Ended, Learnt, Ordered, Reacquired, Gone
  <2> QED BY <2>2, <2>4
<1>5. CASE Report
  BY <1>5 DEF Report, Verified, Terminated, Released, TypeOK, Ended, Learnt,
              Ordered, Reacquired, Gone
<1>6. CASE Throws
  <2>1. TypeOK'
    BY <1>6 DEF Throws, TypeOK, NoAnswer
  <2>2. Ended' /\ Learnt' /\ Ordered' /\ Reacquired'
    BY <1>6 DEF Throws, NoAnswer, TypeOK, Ended, Learnt, Ordered, Reacquired, Gone
  <2> QED BY <2>1, <2>2
<1> QED BY <1>1, <1>2, <1>3, <1>4, <1>5, <1>6, ObserveIInv, ListIInv, IdentifyIInv
        DEF Call

LEMMA NextIInv == IInv /\ [Next]_vars => IInv'
<1> SUFFICES ASSUME IInv, [Next]_vars PROVE IInv'
  OBVIOUS
<1>1. CASE UNCHANGED vars
  BY <1>1, Lasting DEF IInv, TypeOK, Ended, vars, world, locks, clocks, call
<1>2. CASE Next
  BY <1>2, OwnerIInv, DescendantIInv, SuccessorIInv, ClockIInv, CallIInv
     DEF Next, World
<1> QED BY <1>1, <1>2

-----------------------------------------------------------------------------
\* The invariant holds in every state, whatever the owner's family does.
THEOREM Invariant == Spec => []IInv
<1> QED BY InitIInv, NextIInv, PTL DEF Spec

\* The report of observeTermination and terminateRevalidatedOwner is true:
\* "unlocked" and lock_reacquired_by_other_owner mean what they say, however
\* the answers of one round were spread over time.
THEOREM ReportIsTrue == Spec => []OutcomeIsTrue
<1>1. IInv => OutcomeIsTrue
  BY DEF IInv, Learnt, Ordered, Reacquired, Gone, OutcomeIsTrue
<1> QED BY <1>1, Invariant, PTL
=============================================================================
