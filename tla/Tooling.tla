------------------------------ MODULE Tooling ------------------------------
(***************************************************************************)
(* The repository's own tooling: the publication of a Windows prerelease,  *)
(* the evaluation of Windows observation evidence, and the isolated        *)
(* observer of the research runs.  The three share no state, so a behaviour *)
(* is one of one of them, and the others stay as they begin, in one state. *)
(***************************************************************************)
EXTENDS WindowsRelease, ObserverEvidence, IsolatedObserver

VARIABLE tool   \* the one that runs

toolingVars == <<tool, releaseVars, observerVars, isolatedVars>>

ToolingInit ==
  /\ tool \in {"release", "evidence", "isolated"}
  /\ ReleaseInit /\ ObserverInit /\ IsolatedInit
  /\ tool = "release" \/ previous = [public |-> TRUE, immutable |-> TRUE, tag |-> 3, matches |-> TRUE]
  /\ tool = "evidence" \/ producer = "contract"
  /\ tool = "isolated" \/ lineLimit = CHOOSE limit \in LineLimits : TRUE

Releasing == tool = "release" /\ ReleaseStep /\ UNCHANGED <<tool, observerVars, isolatedVars>>
Judging == tool = "evidence" /\ ObserverStep /\ UNCHANGED <<tool, releaseVars, isolatedVars>>

InChild ==
  tool = "isolated" /\ ChildStep /\ UNCHANGED <<tool, releaseVars, observerVars>>
InParent ==
  tool = "isolated" /\ ParentStep /\ UNCHANGED <<tool, releaseVars, observerVars>>
Around ==
  /\ tool = "isolated" /\ (Stall \/ Crash \/ HeirEnds)
  /\ UNCHANGED <<tool, lineLimit, releaseVars, observerVars>>

ToolingNext == Releasing \/ Judging \/ InChild \/ InParent \/ Around

\* The operating system schedules the child, and node the parent's timers.
ToolingSpec ==
  /\ ToolingInit /\ [][ToolingNext]_toolingVars
  /\ WF_toolingVars(InChild) /\ WF_toolingVars(InParent)

-----------------------------------------------------------------------------
\* The variables of the three tools keep their types.
ToolingTypeOK == ReleaseTypeOK /\ ObserverTypeOK /\ IsolatedTypeOK

\* The parent of an isolated observation always settles, whatever the child and
\* its descendants do, and a child that is not stuck in a stage ends.
Observed ==
  tool = "isolated" => <>(Settled /\ child.step \in {"exited", "stuck"})
=============================================================================
