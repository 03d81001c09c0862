----------------------------- MODULE RunCommand -----------------------------
(***************************************************************************)
(* runCommand of src/src/util.ts: one diagnostic subprocess (ps, lsof)     *)
(* with a time limit, an output limit for each stream, a process group of  *)
(* its own that is sent SIGTERM and, after a grace period, SIGKILL, and a  *)
(* result that is settled once.  Spawn failures, output, timers and the    *)
(* close event arrive in any order that Node and the kernel allow.         *)
(***************************************************************************)
EXTENDS Naturals, FiniteSets

CONSTANTS
  Leader,   \* the spawned process
  Helpers,  \* processes it has forked into its process group
  Limit,    \* maxStdoutBytes and maxStderrBytes
  Written   \* the most that is written to a stream

ASSUME CommandAssumption ==
  /\ Leader \notin Helpers
  /\ Limit \in Nat /\ Written \in Nat

Group == {Leader} \cup Helpers
Streams == {"stdout", "stderr"}

VARIABLES
  spawned,   \* "no", "threw", "running", "missing" (ENOENT) or "pipeless"
  alive,     \* processes of the group
  deaf,      \* those that ignore SIGTERM
  writers,   \* those that have the pipes open
  dying,     \* those that got a signal they die of
  status,    \* how the leader ended: "none", "zero", "nonzero", "signal"
  output,    \* output[s]: bytes written to the stream
  received,  \* received[s]: bytes that "data" events have delivered
  captured,  \* captured[s]: stdoutBytes, stderrBytes
  error,     \* an "error" event is due
  failure,   \* the recorded CommandFailure's kind, or "none"
  deadline,  \* the timeout: "unset", "armed", "fired", "cleared"
  grace,     \* forceKillTimer: likewise
  result     \* what the promise resolved with

kernel == <<spawned, alive, deaf, writers, dying, status, output>>
vars == <<kernel, received, captured, error, failure, deadline, grace, result>>

Failures == {"none", "spawn_error", "timeout", "stdout_limit", "stderr_limit"}
Timers == {"unset", "armed", "fired", "cleared"}
Statuses == {"none", "zero", "nonzero", "signal"}
Results == [status : Statuses, failure : Failures, captured : [Streams -> 0..Limit]]
Pending == [status |-> "pending", failure |-> "none",
            captured |-> [s \in Streams |-> 0]]

Settled == result # Pending

TypeOK ==
  /\ spawned \in {"no", "threw", "running", "missing", "pipeless"}
  /\ alive \subseteq Group /\ deaf \subseteq Group
  /\ writers \subseteq Group /\ dying \subseteq Group
  /\ status \in Statuses
  /\ output \in [Streams -> 0..Written]
  /\ received \in [Streams -> 0..Written]
  /\ captured \in [Streams -> 0..Limit]
  /\ error \in BOOLEAN
  /\ failure \in Failures
  /\ deadline \in Timers /\ grace \in Timers
  /\ result \in Results \cup {Pending}

Init ==
  /\ spawned = "no"
  /\ alive = {} /\ deaf = {} /\ writers = {} /\ dying = {}
  /\ status = "none"
  /\ output = [s \in Streams |-> 0]
  /\ received = [s \in Streams |-> 0]
  /\ captured = [s \in Streams |-> 0]
  /\ error = FALSE /\ failure = "none"
  /\ deadline = "unset" /\ grace = "unset"
  /\ result = Pending

-----------------------------------------------------------------------------
(* The subprocess (external).                                              *)

Writes(s) ==
  /\ writers # {} /\ output[s] < Written
  /\ output' = [output EXCEPT ![s] = @ + 1]
  /\ UNCHANGED <<spawned, alive, deaf, writers, dying, status, received,
                 captured, error, failure, deadline, grace, result>>

Ends(p) ==
  /\ p \in alive
  /\ alive' = alive \ {p} /\ dying' = dying \ {p} /\ writers' = writers \ {p}
  /\ UNCHANGED <<spawned, deaf, output, received, captured, error, failure,
                 deadline, grace, result>>

ExitsItself(p) ==
  /\ Ends(p)
  /\ IF p = Leader THEN status' \in {"zero", "nonzero"} ELSE UNCHANGED status

\* A process that no signal has caught forks another into the group.
Forks(h) ==
  /\ h \notin alive /\ alive \ dying # {}
  /\ alive' = alive \cup {h}
  /\ deaf' \in {deaf \cup {h}, deaf \ {h}}
  /\ writers' \in {writers, writers \cup (IF writers = {} THEN {} ELSE {h})}
  /\ UNCHANGED <<spawned, dying, status, output, received, captured, error,
                 failure, deadline, grace, result>>

Dies(p) ==
  /\ p \in dying
  /\ Ends(p)
  /\ status' = IF p = Leader THEN "signal" ELSE status

-----------------------------------------------------------------------------
(* runCommand.                                                             *)

\* settle(status): once; it clears both timers.
Settle(how, why) ==
  /\ result' = [status |-> how, failure |-> why, captured |-> captured]
  /\ deadline' = "cleared"
  /\ grace' = IF grace = "unset" THEN "unset" ELSE "cleared"

\* signalDiagnosticProcess("SIGTERM") to the group, then the grace period.
Terminate ==
  /\ dying' = dying \cup (alive \ deaf)
  /\ grace' = IF grace = "unset" THEN "armed" ELSE grace

\* A faulty record that a later failure replaces.
Overwrite(kind) == failure' = kind /\ Terminate

\* fail(): the first failure is kept and terminates the command.
Fail(kind) ==
  IF failure # "none" THEN UNCHANGED <<failure, dying, grace>>
  ELSE failure' = kind /\ Terminate

\* spawn throws: resolved at once.
SpawnThrows ==
  /\ spawned = "no"
  /\ spawned' = "threw"
  /\ result' = [status |-> "none", failure |-> "spawn_error", captured |-> captured]
  /\ UNCHANGED <<alive, deaf, writers, dying, status, output, received,
                 captured, error, failure, deadline, grace>>

SpawnStarts ==
  /\ spawned = "no"
  /\ spawned' = "running"
  /\ \E helpers \in SUBSET Helpers, ignoring \in SUBSET Group, piped \in SUBSET Helpers :
       /\ alive' = {Leader} \cup helpers
       /\ deaf' = ignoring
       /\ writers' = {Leader} \cup (piped \cap helpers)
  /\ deadline' = "armed"
  /\ UNCHANGED <<dying, status, output, received, captured, error, failure,
                 grace, result>>

\* The executable is missing: no process, an "error" event, then "close".
SpawnMissing ==
  /\ spawned = "no"
  /\ spawned' = "missing"
  /\ error' = TRUE
  /\ status' = "nonzero"
  /\ deadline' = "armed"
  /\ UNCHANGED <<alive, deaf, writers, dying, output, received, captured,
                 failure, grace, result>>

\* EMFILE: a child without pipes, perhaps without a process, perhaps with an
\* "error" event to come.  What runs is sent SIGTERM.
SpawnPipeless ==
  /\ spawned = "no"
  /\ spawned' = "pipeless"
  /\ deadline' = "armed"
  /\ error' \in BOOLEAN
  /\ \E started \in {{}, {Leader}}, ignoring \in SUBSET {Leader} :
       /\ alive' = started
       /\ deaf' = ignoring
       /\ dying' = started \ ignoring
       /\ grace' = IF started = {} THEN "unset" ELSE "armed"
  /\ UNCHANGED <<writers, status, output, received, captured, failure, result>>

\* child.on("error"): it settles only when there are no pipes.
ErrorEvent ==
  /\ error
  /\ error' = FALSE
  /\ failure' = IF failure = "none" THEN "spawn_error" ELSE failure
  /\ IF spawned = "pipeless" /\ ~Settled
     THEN Settle("none", failure') ELSE UNCHANGED <<result, deadline, grace>>
  /\ UNCHANGED <<kernel, received, captured>>

\* setImmediate for a child without pipes; an "error" event that is due comes
\* first.
Immediate ==
  /\ spawned = "pipeless" /\ ~error /\ ~Settled
  /\ failure' = IF failure = "none" THEN "spawn_error" ELSE failure
  /\ Settle("none", failure')
  /\ UNCHANGED <<kernel, received, captured, error>>

Least(a, b) == IF a < b THEN a ELSE b

\* A faulty capture that cuts the output without a failure.
Truncate(s, n) ==
  /\ captured' = [captured EXCEPT ![s] = Least(@ + n, Limit)]
  /\ UNCHANGED <<failure, dying, grace>>

\* A faulty capture that keeps the chunk that went over the limit.
Hoard(s, n) ==
  /\ captured' = [captured EXCEPT ![s] = @ + n]
  /\ IF captured[s] + n > Limit
     THEN Fail(IF s = "stdout" THEN "stdout_limit" ELSE "stderr_limit")
     ELSE UNCHANGED <<failure, dying, grace>>

\* capture(): what fits is kept; more than the limit fails the command.
Capture(s, n) ==
  /\ captured' = [captured EXCEPT ![s] = Least(@ + n, Limit)]
  /\ IF captured[s] + n > Limit
     THEN Fail(IF s = "stdout" THEN "stdout_limit" ELSE "stderr_limit")
     ELSE UNCHANGED <<failure, dying, grace>>

\* child.stdout.on("data"), child.stderr.on("data"): a chunk of any size.
Data(s) ==
  /\ spawned = "running"
  /\ \E n \in 1..(output[s] - received[s]) :
       /\ received' = [received EXCEPT ![s] = @ + n]
       /\ Capture(s, n)
  /\ UNCHANGED <<spawned, alive, deaf, writers, status, output, error, deadline,
                 result>>

\* The time limit.
Timeout ==
  /\ deadline = "armed"
  /\ deadline' = "fired"
  /\ Fail("timeout")
  /\ UNCHANGED <<spawned, alive, deaf, writers, status, output, received,
                 captured, error, result>>

\* A faulty end of the grace period that repeats SIGTERM.
TermAgain == alive \ deaf

\* Whom SIGKILL reaches.
Killed == alive

ForceKill ==
  /\ grace = "armed"
  /\ grace' = "fired"
  /\ dying' = dying \cup Killed
  /\ UNCHANGED <<spawned, alive, deaf, writers, status, output, received,
                 captured, error, failure, deadline, result>>

\* "close" comes when the process has ended, nobody has the pipes open and
\* everything written was delivered.
Closed ==
  /\ status # "none" /\ ~error
  /\ writers = {} /\ received = output

Close ==
  /\ spawned \in {"running", "missing"} /\ ~Settled
  /\ Closed
  /\ Settle(status, failure)
  /\ UNCHANGED <<kernel, received, captured, error, failure>>

Command ==
  \/ SpawnThrows \/ SpawnStarts \/ SpawnMissing \/ SpawnPipeless
  \/ ErrorEvent \/ Immediate \/ Close

Next ==
  \/ Command \/ Timeout \/ ForceKill
  \/ \E s \in Streams : Writes(s) \/ Data(s)
  \/ \E p \in Group : ExitsItself(p) \/ Dies(p)
  \/ \E h \in Helpers : Forks(h)

Spec == Init /\ [][Next]_vars

-----------------------------------------------------------------------------
\* Output that was cut is never taken for the whole: a result without a
\* failure has everything that anybody wrote to the pipes, whatever the order
\* of data, timers, exit and close.
CleanIsWhole ==
  (Settled /\ result.failure = "none") =>
    result.captured = output /\ result.status # "none"

\* The first failure is the one reported, although the command that it ends
\* may still overflow, time out or exit with status zero.
FirstFailureKept ==
  [][/\ failure # "none" => failure' = failure
     /\ Settled => result' = result]_vars
=============================================================================
