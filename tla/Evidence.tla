------------------------------ MODULE Evidence ------------------------------
(***************************************************************************)
(* Where the evidence of an inspection comes from: one diagnostic          *)
(* subprocess (RunCommand), the conclusions from ps, lsof and /proc        *)
(* (ProcessEvidence), which take from RunCommand that a result without a   *)
(* failure is whole, and the transcript (TranscriptScan).  A behaviour is  *)
(* one of one of the three, and the others stay as they begin.             *)
(***************************************************************************)
EXTENDS RunCommand, ProcessEvidence, TranscriptScan

VARIABLE source   \* the one that runs

sourcesVars == <<source, vars, evidenceVars, transcriptVars>>

SourcesInit ==
  /\ source \in {"command", "process", "transcript"}
  /\ Init
  /\ IF source = "process" THEN EvidenceInit
     ELSE /\ query = [kind |-> "openers"] /\ machine = [openers |-> {}]
          /\ seen = <<>> /\ answer = Unanswered
  /\ IF source = "transcript" THEN TranscriptInit
     ELSE /\ task = "hash" /\ inspection = Uninspected
          /\ file = [content |-> <<>>, mtime |-> 0, where |-> "sessions", twin |-> "none",
                     changes |-> 0]
          /\ scan = [step |-> "before", walked |-> {}, candidates |-> {},
                     before |-> [size |-> 0, mtime |-> 0], position |-> 0,
                     buffer |-> <<>>, line |-> <<>>]

\* A step of the command.
Runs(step) == source = "command" /\ step /\ UNCHANGED <<source, evidenceVars, transcriptVars>>

Concluding ==
  source = "process" /\ EvidenceStep /\ UNCHANGED <<source, vars, transcriptVars>>
Scanning ==
  source = "transcript" /\ TranscriptStep /\ UNCHANGED <<source, vars, evidenceVars>>

SourcesNext == Runs(Next) \/ Concluding \/ Scanning

\* The event loop delivers what is due, and a process that was sent a signal it
\* dies of, dies.  Nobody need exit by himself.
SourcesSpec ==
  /\ SourcesInit /\ [][SourcesNext]_sourcesVars
  /\ WF_sourcesVars(Runs(Command)) /\ WF_sourcesVars(Runs(Timeout))
  /\ WF_sourcesVars(Runs(ForceKill))
  /\ \A s \in Streams : WF_sourcesVars(Runs(Data(s)))
  /\ \A p \in Group : WF_sourcesVars(Runs(Dies(p)))

-----------------------------------------------------------------------------
\* The variables of the three keep their types.
SourcesTypeOK == TypeOK /\ EvidenceTypeOK /\ TranscriptTypeOK

\* Every command settles, even if it ignores SIGTERM, never exits by itself,
\* overflows its limits or leaves the pipes to helpers that outlive it.
CommandSettles == source = "command" => <>Settled
=============================================================================
