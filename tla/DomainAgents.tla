---------------------------- MODULE DomainAgents ----------------------------
(***************************************************************************)
(* The agents an orchestrator hands its tasks to.  A conversation runs one   *)
(* task at a time; those of the Home Assistant agent and of the agents that  *)
(* read share the agent loop.  The world goes on: events arrive,             *)
(* sources are refreshed, snapshots grow old.                                *)
(***************************************************************************)
EXTENDS HomeAssistantTask, MediaTask, InformationTask

homeOnly == <<htAt, execution, touched>>
domainVars == <<homeOnly, mediaVars, infoOnly, loopVars>>

DomainInit == HtInit /\ MediaInit /\ InfoInit

AllIdle == htAt = "idle" /\ mAt = "idle" /\ itAt = "idle"

\* A task of a plan, or an answer to the question of an agent: resume_clarification() puts
\* the answer into the request and runs it again.
TaskBegins ==
    /\ AllIdle
    /\ \/ HtBegin /\ UNCHANGED <<mediaVars, infoOnly>>
       \/ MediaBegin /\ UNCHANGED <<homeOnly, infoOnly, loopVars>>
       \/ InfoBegin /\ UNCHANGED <<homeOnly, mediaVars>>

TaskSteps ==
    \/ HtStep /\ UNCHANGED <<mediaVars, infoOnly>>
    \/ MediaStep /\ UNCHANGED <<homeOnly, infoOnly, loopVars>>
    \/ InfoStep /\ UNCHANGED <<homeOnly, mediaVars>>

TaskEnds ==
    \/ HtEnd /\ UNCHANGED <<mediaVars, infoOnly>>
    \/ MediaEnd /\ UNCHANGED <<homeOnly, infoOnly, loopVars>>
    \/ InfoEnd /\ UNCHANGED <<homeOnly, mediaVars>>

\* Only where a task can see it: other agents neither read the speakers nor the sources.
WorldGoesOn ==
    /\ UNCHANGED <<homeOnly, loopVars>>
    /\ \/ mAt # "idle" /\ InventoryCatchesUp /\ UNCHANGED infoOnly
       \/ itAt # "idle" /\ Background /\ UNCHANGED mediaVars

DomainNext == TaskBegins \/ TaskSteps \/ TaskEnds \/ WorldGoesOn

DomainSpec == DomainInit /\ [][DomainNext]_domainVars

=============================================================================
