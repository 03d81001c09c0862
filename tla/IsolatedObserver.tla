-------------------------- MODULE IsolatedObserver --------------------------
(***************************************************************************)
(* src/experimental/126-guard-liveness/lib/isolated-observer.mjs: product  *)
(* code runs in a child that writes a handshake and one line at each stage *)
(* boundary; the parent collects the lines under a startup and a stage     *)
(* budget and an output limit, sends no signal, and on a budget closes the *)
(* pipes and reports the open stage.  The child can stall in a stage, die, *)
(* or leave a descendant with its stderr; it sees that the parent has gone *)
(* by end of file on stdin or by a write that fails, and stops at the next *)
(* boundary.                                                               *)
(*                                                                         *)
(* A line is two units of output, so that a chunk, a limit and a death can *)
(* split it.                                                               *)
(***************************************************************************)
EXTENDS Naturals, Sequences, FiniteSets, SequencesExt

CONSTANTS
  Stages,     \* the stages of the child, 1..Stages
  LineLimits  \* values of maxStdoutBytes, in units

ASSUME IsolatedAssumption == Stages \in Nat /\ LineLimits \subseteq Nat

VARIABLES
  lineLimit,  \* maxStdoutBytes of this run
  child,    \* its step, stage, exit code, and what it knows of the parent
  lines,    \* the records that it has written to stdout
  torn,     \* it died within a line
  heirs,    \* a descendant has its stderr
  arrived,  \* units that "data" events have brought
  budget,   \* the armed bound: "none", "startup", "stages"
  outcome   \* what runIsolated resolved with

isolatedVars == <<lineLimit, child, lines, torn, heirs, arrived, budget, outcome>>

Waiting == [settled |-> FALSE]
Settled == outcome.settled

Record(kind, stage) == [kind |-> kind, stage |-> stage]

-----------------------------------------------------------------------------
(* LineCollector and summarizeStages.                                      *)

Units == 2 * Len(lines) - (IF torn THEN 1 ELSE 0)

\* The complete lines among the units kept under the limit.
CompleteLines(units) == units \div 2

Kept(units) == IF units > lineLimit THEN lineLimit ELSE units

CollectorFaults(units) ==
  (IF units > lineLimit THEN {"stdout_limit"} ELSE {})
  \cup (IF Kept(units) % 2 = 1 THEN {"unterminated_line"} ELSE {})

Collected == SubSeq(lines, 1, CompleteLines(Kept(arrived)))

\* One record after the handshake.
Absorb(sum, r) ==
  IF sum.terminal # "none" THEN [sum EXCEPT !.faults = @ \cup {"record_after_terminal"}]
  ELSE
  CASE r.kind = "hello" -> [sum EXCEPT !.faults = @ \cup {"unexpected_hello"}]
    [] r.kind \in {"final", "stop"} ->
         [sum EXCEPT !.terminal = r.kind,
            !.faults = @ \cup (IF sum.open # 0 THEN {"terminal_inside_stage"} ELSE {})
                         \cup (IF r.kind = "stop" THEN {"stopped"} ELSE {})]
    [] r.kind = "begin" ->
         [sum EXCEPT !.open = r.stage,
            !.faults = @ \cup (IF sum.open # 0 THEN {"nested_stage"} ELSE {})]
    [] r.kind = "end" ->
         [sum EXCEPT !.open = 0,
            !.stages = IF sum.open = r.stage THEN Append(@, r.stage) ELSE @,
            !.faults = @ \cup (IF sum.open = r.stage THEN {} ELSE {"unmatched_end"})]

NoRecords == [stages |-> <<>>, open |-> 0, terminal |-> "none", faults |-> {}]

\* The record at 1 is the handshake.
SummarizeStages(records) ==
  LET after[n \in 1..Len(records)] ==
        IF n = 1 THEN NoRecords ELSE Absorb(after[n - 1], records[n])
  IN IF records = <<>> \/ records[1].kind # "hello"
     THEN [NoRecords EXCEPT !.faults = {"missing_hello"}]
     ELSE after[Len(records)]

-----------------------------------------------------------------------------
(* childStages.                                                            *)

\* write: nothing once the parent is gone, and a failed write tells that it is.
Write(r) ==
  /\ lines' = IF child.gone \/ Settled THEN lines ELSE Append(lines, r)
  /\ UNCHANGED torn

\* A faulty child that learns of it by end of file alone.
LearnsByEof == child.gone

Learns == child.gone \/ Settled

\* The stages begun after the parent gave up.
Strays == IF Settled THEN 1 ELSE 0

Hello ==
  /\ child.step = "starting"
  /\ Write(Record("hello", 0))
  /\ child' = [child EXCEPT !.step = "boundary", !.gone = Learns]
  /\ UNCHANGED <<heirs, arrived, budget, outcome>>

\* End of file on stdin reaches the child's event loop.
SeesEof ==
  /\ child.step = "boundary" /\ Settled /\ ~child.gone
  /\ child' = [child EXCEPT !.gone = TRUE]
  /\ UNCHANGED <<lines, torn, heirs, arrived, budget, outcome>>

Exits(how) == [child EXCEPT !.step = "exited", !.code = how]

\* boundary: parent_gone leaves no record, the lifetime does.
Stop ==
  /\ child.step = "boundary"
  /\ \/ child.gone /\ child' = Exits("parent_gone")
     \/ ~child.gone /\ child' = Exits("lifetime")
  /\ Write(Record("stop", 0))
  /\ UNCHANGED <<heirs, arrived, budget, outcome>>

BeginStage ==
  /\ child.step = "boundary" /\ ~child.gone /\ child.stage < Stages
  /\ Write(Record("begin", child.stage + 1))
  /\ child' = [child EXCEPT !.step = "running", !.stage = @ + 1,
                            !.gone = Learns, !.strays = @ + Strays]
  /\ UNCHANGED <<heirs, arrived, budget, outcome>>

\* A stage ends with a result or an error; it may leave a descendant behind.
EndStage ==
  /\ child.step = "running"
  /\ Write(Record("end", child.stage))
  /\ child' = [child EXCEPT !.step = "boundary", !.gone = Learns]
  /\ heirs' \in {heirs, TRUE}
  /\ UNCHANGED <<arrived, budget, outcome>>

\* A synchronous call that stalls, or work that never settles.
Stall ==
  /\ child.step = "running"
  /\ child' = [child EXCEPT !.step = "stuck"]
  /\ UNCHANGED <<lines, torn, heirs, arrived, budget, outcome>>

FinishStages ==
  /\ child.step = "boundary" /\ ~child.gone /\ child.stage = Stages
  /\ Write(Record("final", 0))
  /\ child' = Exits("zero")
  /\ UNCHANGED <<heirs, arrived, budget, outcome>>

\* It is killed, crashes or leaves by process.exit, perhaps within its last line.
Crash ==
  /\ child.step \in {"starting", "boundary", "running", "stuck"}
  /\ \E code \in {"failed", "zero"} : child' = Exits(code)
  /\ torn' \in {FALSE, lines # <<>> /\ ~Settled /\ arrived < Units}
  /\ UNCHANGED <<lines, heirs, arrived, budget, outcome>>

HeirEnds ==
  /\ heirs /\ heirs' = FALSE
  /\ UNCHANGED <<child, lines, torn, arrived, budget, outcome>>

-----------------------------------------------------------------------------
(* runIsolated.                                                            *)

IsolatedInit ==
  /\ child = [step |-> "none", stage |-> 0, code |-> "none", gone |-> FALSE, strays |-> 0]
  /\ lines = <<>> /\ torn = FALSE /\ heirs = FALSE
  /\ arrived = 0 /\ budget = "none" /\ outcome = Waiting
  /\ lineLimit \in LineLimits

\* finish: the summary, the collectors' and the exit's faults.
Outcome(incomplete) ==
  LET sum == SummarizeStages(Collected)
  IN [settled |-> TRUE, incomplete |-> incomplete, stages |-> sum.stages,
      open |-> sum.open, late |-> "none",
      faults |-> sum.faults \cup CollectorFaults(arrived)
        \cup (IF incomplete THEN {} ELSE
               (IF child.code # "zero" THEN {"exit"} ELSE {})
               \cup (IF sum.terminal # "final" THEN {"no_final_record"} ELSE {})
               \cup (IF sum.open # 0 THEN {"stage_not_ended"} ELSE {}))]

\* spawn, or its "error" event.
SpawnChild ==
  /\ child.step = "none"
  /\ \E starts \in BOOLEAN :
       child' = [child EXCEPT !.step = IF starts THEN "starting" ELSE "exited",
                              !.code = IF starts THEN "none" ELSE "spawn"]
  /\ budget' = "startup"
  /\ UNCHANGED <<lines, torn, heirs, arrived, outcome>>

\* A chunk of stdout; the first complete line starts the stage budget.
Chunk ==
  /\ budget # "none" /\ arrived < Units
  /\ \E n \in 1..(Units - arrived) : arrived' = arrived + n
  /\ budget' = IF CompleteLines(Kept(arrived')) > 0 THEN "stages" ELSE budget
  /\ UNCHANGED <<child, lines, torn, heirs, outcome>>

\* exited and closed: both streams are at their end.
Drained == child.step = "exited" /\ ~heirs /\ arrived = Units

ChildDone ==
  /\ budget # "none" /\ Drained
  /\ outcome' = Outcome(FALSE) /\ budget' = "none"
  /\ UNCHANGED <<child, lines, torn, heirs, arrived>>

\* A faulty bound that is disarmed by the handshake and not armed again.
StartupOnly == budget = "startup"

\* The timer of the startup bound, and then that of the stages.
Bounded == budget # "none"

BudgetSpent ==
  /\ Bounded
  /\ outcome' = Outcome(TRUE) /\ budget' = "none"
  /\ UNCHANGED <<child, lines, torn, heirs, arrived>>

\* lateExitStatus
LateExit ==
  /\ Settled /\ outcome.incomplete /\ outcome.late = "none"
  /\ outcome' = [outcome EXCEPT !.late =
       IF child.step = "exited" THEN "exited" ELSE "unconfirmed"]
  /\ UNCHANGED <<child, lines, torn, heirs, arrived, budget>>

ChildStep ==
  /\ Hello \/ SeesEof \/ Stop \/ BeginStage \/ EndStage \/ FinishStages
  /\ UNCHANGED lineLimit

ParentStep ==
  /\ SpawnChild \/ Chunk \/ ChildDone \/ BudgetSpent \/ LateExit
  /\ UNCHANGED lineLimit

-----------------------------------------------------------------------------
IsolatedTypeOK ==
  /\ child.step \in {"none", "starting", "boundary", "running", "stuck", "exited"}
  /\ child.stage \in 0..Stages /\ child.gone \in BOOLEAN
  /\ arrived \in 0..(2 * (2 * Stages + 2)) /\ lineLimit \in LineLimits
  /\ budget \in {"none", "startup", "stages"}
  /\ Settled => outcome.incomplete \in BOOLEAN

\* A collected result is without a fault exactly when the child ran every stage
\* in order, wrote its final record within the limit and exited with zero,
\* whichever of its lines, its exit, its descendants' pipes and the budgets came
\* first.  Any result reports as ended only stages that have ended, and as open
\* the next of them.  A parent that gave up leaves a child that begins at most
\* one more stage.
ObservationIsWhole ==
  /\ (Settled /\ ~outcome.incomplete) =>
       (outcome.faults = {} <=>
          /\ child.code = "zero" /\ ~torn /\ Units <= lineLimit
          /\ lines # <<>> /\ Last(lines).kind = "final"
          /\ outcome.stages = [i \in 1..Stages |-> i])
  /\ Settled => /\ outcome.stages = [i \in 1..Len(outcome.stages) |-> i]
                /\ Len(outcome.stages) <= child.stage
                /\ outcome.open \in {0, Len(outcome.stages) + 1}
                /\ outcome.late = "exited" => child.step = "exited"
  /\ child.strays <= 1
=============================================================================
