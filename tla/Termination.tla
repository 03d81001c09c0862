---------------------------- MODULE Termination ----------------------------
(***************************************************************************)
(* terminateRevalidatedOwner, observeTermination and identifyReacquisition *)
(* of src/src/unlock.ts: the SIGTERM, the loop that watches the owner's    *)
(* exit and the release of its lock until a deadline, the transcript's     *)
(* last hash and the outcome.                                              *)
(*                                                                         *)
(* The world is external.  The owner may ignore the signal, append to the  *)
(* transcript while it shuts down, drop its lock in order or just exit; it *)
(* may stay a zombie.  flock belongs to the open file description: a       *)
(* descendant that inherited the descriptor keeps the lock alive.  A       *)
(* successor takes the lock under the native guard, perhaps with the PID   *)
(* of a process that is gone.                                              *)
(***************************************************************************)
EXTENDS Naturals

CONSTANTS
  Owner,      \* the process that is sent SIGTERM, under its PID
  Known,      \* its descendants that the first inspection listed
  Late,       \* descendants that are forked later, or were not listed
  Successor,  \* another Codex process
  Nobody,
  MaxAppends  \* appends to the transcript after its first hash

Descendants == Known \cup Late
Processes == {Owner, Successor} \cup Descendants

ASSUME TerminationAssumption ==
  /\ Known \cap Late = {} /\ Owner # Successor
  /\ {Owner, Successor} \cap Descendants = {}
  /\ Nobody \notin Processes
  /\ MaxAppends \in Nat

VARIABLES
  owner,    \* "running", "zombie" or "reaped"
  alive,    \* the other processes that exist
  pidOf,    \* the PID of the successor: its own or that of one that is gone
  sharers,  \* processes with a descriptor of the description the owner locked
  path,     \* the file that the lock path names: "old", "new" or "none"
  taken,    \* the file that the successor has open
  holds,    \* the successor has the flock of that file
  section,  \* the successor is between open and try_lock, inside the guard
  appends,  \* appends since the first hash
  wrote,    \* history: the owner made one of them
  late,     \* the monotonic clock is past the deadline
  wall,     \* the wall clock is past it
  pc,       \* where the call is
  pending,  \* the parallel observations that have not answered
  answer,   \* what the answered ones said
  seen,     \* the PIDs that lsof listed
  state     \* PostSignalState, and the outcome

locks == <<owner, alive, pidOf, sharers, path, taken, holds, section>>
clocks == <<late, wall>>
world == <<locks, appends, wrote>>
call == <<pc, pending, answer, seen, state>>
vars == <<world, clocks, call>>

Stages == {"kill", "top", "observe", "lsof", "identify", "delay", "hash",
           "report", "done"}
Verdicts == {"held", "free", "unknown"}
Answers == {"yes", "no", "unknown"}
Outcomes == {"none", "unlocked", "verification_failed", "termination_failed"}

State == [exited : Answers, probe : Verdicts, reacquired : SUBSET Processes,
          unchanged : Answers, threw : BOOLEAN, outcome : Outcomes]

NoState == [exited |-> "unknown", probe |-> "unknown", reacquired |-> {},
            unchanged |-> "unknown", threw |-> FALSE, outcome |-> "none"]
NoAnswer == [exited |-> "unknown", probe |-> "unknown"]

TypeOK ==
  /\ owner \in {"running", "zombie", "reaped"}
  /\ alive \subseteq Processes \ {Owner}
  /\ pidOf \in Processes
  /\ sharers \subseteq Processes \ {Successor}
  /\ path \in {"old", "new", "none"} /\ taken \in {"old", "new", "none"}
  /\ holds \in BOOLEAN /\ section \in BOOLEAN
  /\ appends \in 0..MaxAppends /\ wrote \in BOOLEAN
  /\ late \in BOOLEAN /\ wall \in BOOLEAN
  /\ pc \in Stages /\ pending \subseteq {"exit", "probe"}
  /\ answer \in [exited : Answers, probe : Verdicts]
  /\ seen \subseteq Processes
  /\ state \in State

Init ==
  /\ owner = "running" /\ alive = Known /\ pidOf = Successor
  /\ \E inherited \in SUBSET Known : sharers = {Owner} \cup inherited
  /\ path = "old" /\ taken = "none" /\ holds = FALSE /\ section = FALSE
  /\ appends = 0 /\ wrote = FALSE
  /\ late = FALSE /\ wall = FALSE
  /\ pc = "kill" /\ pending = {} /\ answer = NoAnswer /\ seen = {}
  /\ state = NoState

-----------------------------------------------------------------------------
(* The world (external).                                                   *)

OwnerAppends ==
  /\ owner = "running" /\ appends < MaxAppends
  /\ appends' = appends + 1 /\ wrote' = TRUE
  /\ UNCHANGED <<locks, clocks, call>>

\* An orderly drop closes the owner's descriptor and unlinks the lock file.
OwnerDrops ==
  /\ owner = "running" /\ Owner \in sharers /\ ~section
  /\ sharers' = sharers \ {Owner}
  /\ path' = "none"
  /\ UNCHANGED <<owner, alive, pidOf, taken, holds, section, appends, wrote,
                 clocks, call>>

OwnerExits ==
  /\ owner = "running"
  /\ owner' \in {"zombie", "reaped"}
  /\ sharers' = sharers \ {Owner}
  /\ UNCHANGED <<alive, pidOf, path, taken, holds, section, appends, wrote,
                 clocks, call>>

Reaped ==
  /\ owner = "zombie"
  /\ owner' = "reaped"
  /\ UNCHANGED <<alive, pidOf, sharers, path, taken, holds, section, appends,
                 wrote, clocks, call>>

\* The child inherits the descriptor if the owner still has it.
Forks(d) ==
  /\ owner = "running" /\ d \in Late \ alive
  /\ alive' = alive \cup {d}
  /\ sharers' = IF Owner \in sharers THEN sharers \cup {d} ELSE sharers
  /\ UNCHANGED <<owner, pidOf, path, taken, holds, section, appends, wrote,
                 clocks, call>>

DescendantExits(d) ==
  /\ d \in alive
  /\ alive' = alive \ {d} /\ sharers' = sharers \ {d}
  /\ UNCHANGED <<owner, pidOf, path, taken, holds, section, appends, wrote,
                 clocks, call>>

\* PIDs that no process has.
FreePids == {Successor} \cup (Known \ alive)
              \cup (IF owner = "reaped" THEN {Owner} ELSE {})

SuccessorStarts ==
  /\ Successor \notin alive
  /\ alive' = alive \cup {Successor}
  /\ pidOf' \in FreePids
  /\ UNCHANGED <<owner, sharers, path, taken, holds, section, appends, wrote,
                 clocks, call>>

SuccessorOpens ==
  /\ Successor \in alive /\ taken = "none"
  /\ section' = TRUE
  /\ path' = IF path = "none" THEN "new" ELSE path
  /\ taken' = path'
  /\ UNCHANGED <<owner, alive, pidOf, sharers, holds, appends, wrote, clocks, call>>

SuccessorTries ==
  /\ section
  /\ IF taken = "old" /\ sharers # {}
     THEN taken' = "none" /\ UNCHANGED holds
     ELSE holds' = TRUE /\ UNCHANGED taken
  /\ section' = FALSE
  /\ UNCHANGED <<owner, alive, pidOf, sharers, path, appends, wrote, clocks, call>>

\* It drops the lock in order, or exits and leaves the file.
SuccessorDrops ==
  /\ holds
  /\ path' \in {"none", path}
  /\ taken' = "none" /\ holds' = FALSE
  /\ UNCHANGED <<owner, alive, pidOf, sharers, section, appends, wrote, clocks, call>>

SuccessorAppends ==
  /\ holds /\ appends < MaxAppends
  /\ appends' = appends + 1
  /\ UNCHANGED <<locks, wrote, clocks, call>>

World ==
  \/ OwnerAppends \/ OwnerDrops \/ OwnerExits \/ Reaped
  \/ \E d \in Descendants : Forks(d) \/ DescendantExits(d)
  \/ SuccessorStarts \/ SuccessorOpens \/ SuccessorTries \/ SuccessorDrops
  \/ SuccessorAppends

\* Time passes; the wall clock may also be set, to and fro.
Elapse == late' = TRUE /\ UNCHANGED <<wall, world, call>>
ClockIsSet == wall' = ~wall /\ UNCHANGED <<late, world, call>>

-----------------------------------------------------------------------------
(* The call.                                                               *)

Openers ==
  CASE path = "old" -> sharers \cup (IF taken = "old" THEN {Successor} ELSE {})
    [] path = "new" -> IF taken = "new" THEN {Successor} ELSE {}
    [] OTHER -> {}

Held ==
  CASE path = "old" -> sharers # {} \/ (holds /\ taken = "old")
    [] path = "new" -> holds /\ taken = "new"
    [] OTHER -> FALSE

Pid(p) == IF p = Successor THEN pidOf ELSE p

\* The process with the owner's PID is another one, with another start label.
PidReused == owner = "reaped" /\ Successor \in alive /\ pidOf = Owner

\* process.kill(owner.pid, "SIGTERM"): it reaches the owner, even a zombie, or
\* whoever has its PID, or it throws and nothing is changed or observed.
Kill ==
  /\ pc = "kill"
  /\ \/ /\ owner # "reaped" \/ PidReused
        /\ pc' = "top"
        /\ UNCHANGED state
     \/ /\ owner = "reaped" /\ ~PidReused
        /\ pc' = "done"
        /\ state' = [state EXCEPT !.outcome = "termination_failed"]
  /\ UNCHANGED <<world, clocks, pending, answer, seen>>

\* A faulty loop that trusts the wall clock alone.
WallClockOnly == ~wall

\* Date.now() <= deadline && performance.now() <= probeDeadline
InTime == ~wall /\ ~late

Loop ==
  /\ pc = "top"
  /\ IF InTime
     THEN pc' = "observe" /\ pending' = {"exit", "probe"}
     ELSE pc' = "hash" /\ UNCHANGED pending
  /\ answer' = NoAnswer
  /\ UNCHANGED <<world, clocks, seen, state>>

\* originalProcessExited of processExitObservation: the PID is absent, belongs
\* to a process with another start label, or is a zombie's.
Exited ==
  IF owner \in {"zombie", "reaped"} THEN "yes" ELSE "no"

\* The guarded probe, retried while the guard is busy.
Probed == IF section THEN "unknown" ELSE IF Held THEN "held" ELSE "free"

\* A faulty reading of a probe that learned nothing.
NotHeld(verdict) == verdict # "held"

\* state.lockReleased
Released(verdict) == verdict = "free"

\* When both have answered: done, or find out who has the lock, or wait.
Judge(now) ==
  /\ state' = [state EXCEPT !.exited = now.exited, !.probe = now.probe]
  /\ pc' = IF now.exited = "yes" /\ Released(now.probe) THEN "hash"
           ELSE IF now.exited = "yes" /\ now.probe = "held" THEN "lsof"
           ELSE "delay"

Answered(item, now) ==
  /\ pc = "observe" /\ item \in pending
  /\ pending' = pending \ {item}
  /\ answer' = now
  /\ IF pending' = {} THEN Judge(now) ELSE UNCHANGED <<pc, state>>
  /\ UNCHANGED <<world, clocks, seen>>

ObserveExit ==
  \E exited \in {Exited, "unknown"} :
    Answered("exit", [answer EXCEPT !.exited = exited])

ObserveProbe ==
  \E verdict \in {Probed, "unknown"} :
    Answered("probe", [answer EXCEPT !.probe = verdict])

\* findLockOpeners fails, finds nobody, or lists the openers' PIDs.
ListOpeners ==
  /\ pc = "lsof"
  /\ \E listed \in {{Pid(p) : p \in Openers}, {}} :
       /\ seen' = listed
       /\ pc' = IF listed = {} THEN "delay" ELSE "identify"
  /\ UNCHANGED <<world, clocks, pending, answer, state>>

\* Every opener differs from the owner, by its PID or by the start label that
\* ps gives for it, and none is a known descendant.
OtherOwner(different) == different /\ seen \cap Known = {}

IdentifyReacquisition ==
  /\ pc = "identify"
  /\ \E labelled \in {PidReused, FALSE} :
       IF OtherOwner(Owner \in seen => labelled)
       THEN pc' = "hash" /\ state' = [state EXCEPT !.reacquired = seen]
       ELSE pc' = "delay" /\ UNCHANGED state
  /\ seen' = {}
  /\ UNCHANGED <<world, clocks, pending, answer>>

Delay ==
  /\ pc = "delay"
  /\ pc' = "top"
  /\ UNCHANGED <<world, clocks, pending, answer, seen, state>>

\* stableFileHash of the transcript against the first hash.
Hash ==
  /\ pc = "hash"
  /\ pc' = "report"
  /\ \E unchanged \in {IF appends = 0 THEN "yes" ELSE "no", "unknown"} :
       state' = [state EXCEPT !.unchanged = unchanged]
  /\ UNCHANGED <<world, clocks, pending, answer, seen>>

\* Anything in observeTermination throws: what was learned so far stays.
Throws ==
  /\ pc \in {"top", "observe", "lsof", "identify", "delay"}
  /\ pc' = "report" /\ pending' = {} /\ answer' = NoAnswer /\ seen' = {}
  /\ state' = [state EXCEPT !.threw = TRUE]
  /\ UNCHANGED <<world, clocks>>

Verified ==
  /\ state.exited = "yes" /\ Released(state.probe)
  /\ state.unchanged = "yes" /\ ~state.threw

Terminated ==
  state.exited = "yes" /\ (Released(state.probe) \/ state.reacquired # {})

Report ==
  /\ pc = "report"
  /\ pc' = "done"
  /\ state' = [state EXCEPT !.outcome =
       IF Verified THEN "unlocked"
       ELSE IF Terminated THEN "verification_failed"
       ELSE "termination_failed"]
  /\ UNCHANGED <<world, clocks, pending, answer, seen>>

Call ==
  \/ Kill \/ Loop \/ ObserveExit \/ ObserveProbe \/ ListOpeners
  \/ IdentifyReacquisition \/ Delay \/ Hash \/ Report

Next == World \/ Elapse \/ ClockIsSet \/ Call \/ Throws

Spec == Init /\ [][Next]_vars

\* Every observation answers, by itself or by its own time limit, and the
\* monotonic clock runs.  Nothing is assumed of the wall clock or the world.
FairSpec == Spec /\ WF_vars(Call) /\ WF_vars(Elapse)

-----------------------------------------------------------------------------
\* What the report claims is true.  "unlocked": the owner does not run any more,
\* the lock that it had is no longer on the file that the lock path names,
\* neither by the owner nor by a process that inherited it, and the owner
\* appended nothing after the hash that authorized the signal, not even while it
\* was shutting down.  And whoever is reported to have reacquired the lock does
\* not have it from the owner through a descriptor that the first inspection
\* could know of.  All that on states of their types.
OutcomeIsTrue ==
  /\ TypeOK
  /\ state.outcome = "unlocked" =>
       /\ owner # "running"
       /\ path = "old" => sharers = {}
       /\ ~wrote
  /\ state.reacquired # {} =>
       owner # "running" /\ (path = "old" => sharers \subseteq Late)

\* The call returns, whatever the wall clock and the owner do.
Returns == <>(pc = "done")

\* docs/json-v1.md: verification_failed means that the owner exited and
\* released its lock, but a later check failed.
ReleasedIfVerificationFailed ==
  state.outcome = "verification_failed" =>
    owner # "running" /\ (path = "old" => sharers = {})
=============================================================================
