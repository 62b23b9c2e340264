---------------------------- MODULE OllamaCalls ----------------------------
(***************************************************************************)
(* The race of an agent loop on the shared connection: the two HTTP         *)
(* requests of ModelRace are the requests of OllamaGate, next to a residency *)
(* check and a close.  A request runs once it holds a lease, and it is over  *)
(* when the lease has been returned.                                         *)
(***************************************************************************)
EXTENDS OllamaGate, ModelRace

ASSUME RequestsAreTheRace == Requests = Models

callsVars == <<gateVars, raceVars>>

CallsInit == GateInit /\ RaceInit

\* chat() of the connection, run by the race's task.
Enters(m) == call[m] = "running" /\ RequestEnters(m) /\ UNCHANGED raceVars
Served(m) == RequestServed(m) /\ UNCHANGED raceVars
Leaves(m) == at[m] = "in" /\ Answers(m) /\ RequestLeaves(m)
CancelArrives(m) ==
    /\ CancelLands(m)
    /\ RequestLeaves(m) \/ RequestCancelled(m) \/ (at[m] = "out" /\ UNCHANGED gateVars)

RaceStep ==
    /\ BackoffExpires \/ StartChat \/ CloudFirst \/ LocalAwaited \/ LocalFirst \/ CloudAwaited
       \/ CloudInGrace \/ GraceOver \/ DropLoser \/ DropBoth \/ RaceCancelled
    /\ UNCHANGED gateVars

CallsNext ==
    \/ \E m \in Models : Enters(m) \/ Served(m) \/ Leaves(m) \/ CancelArrives(m)
    \/ RaceStep
    \/ \E t \in Repairs : RepairCall(t) /\ UNCHANGED raceVars
    \/ \E t \in Closers : CloseCall(t) /\ UNCHANGED raceVars

\* A woken task runs.  Nothing makes a model answer: what ends a request is the deadline of
\* the loop, asyncio.timeout(response_timeout_seconds), which cancels the race.
CallsSpec ==
    /\ CallsInit /\ [][CallsNext]_callsVars
    /\ WF_callsVars(RaceCancelled /\ UNCHANGED gateVars)
    /\ WF_callsVars(DropLoser /\ UNCHANGED gateVars)
    /\ WF_callsVars(DropBoth /\ UNCHANGED gateVars)
    /\ \A m \in Models : WF_callsVars(CancelArrives(m)) /\ WF_callsVars(Enters(m) /\ at[m] = "woken")
    /\ \A t \in Exclusives :
          WF_callsVars(at[t] = "woken" /\ ExclusiveEnters(t) /\ UNCHANGED raceVars)
    /\ \A t \in Repairs : WF_callsVars(RepairEnds(t, "failed") /\ UNCHANGED raceVars)
    /\ \A t \in Closers : WF_callsVars(Close(t) /\ UNCHANGED raceVars)

-----------------------------------------------------------------------------
\* When chat() of the race is over no request of it holds or awaits a lease of the gate:
\* the deadline cancels the model operation and drains it (agent_loop/README.md 82-87,
\* agent_loop_ollama_connection.py 76-121).
RaceLeavesNobody == race = "idle" => \A m \in Models : at[m] = "out" /\ Over(m)

=============================================================================
