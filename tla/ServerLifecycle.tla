--------------------------- MODULE ServerLifecycle ---------------------------
(***************************************************************************)
(* run_server(): the resources of the server are opened one after the other, *)
(* while a task watches that the protected model stays on the GPU; a signal, *)
(* a failure of that task or of the start-up closes them again, within one    *)
(* grace period.  A close may raise, may hang, and may swallow the            *)
(* cancellation with which the grace period ends.                            *)
(***************************************************************************)
EXTENDS FiniteSets

VARIABLES
    sAt,            \* where run_server() is
    open,           \* the resources open so far, and not closed yet
    dropped,        \* the microphones run, and run_server() has not got their manager
    residency,      \* the residency task
    signalled,      \* shutdown_started; absent until the handlers are installed
    inputs,         \* what the concurrent closes of the inputs are doing
    raised,         \* what is on its way out: an exception, or the deadline's CancelledError
    deadline,       \* the grace period
    exit            \* how the process ended

serverVars == <<sAt, open, dropped, residency, signalled, inputs, raised, deadline, exit>>

Inputs == {"microphones", "websocket"}
StartUp == {"home", "agent", "residency", "microphones", "setup", "site", "abandoning"}
CloseDown == {"inputs", "cancelled", "closeAgent", "closeHome", "closeOllama"}

ServerInit ==
    /\ sAt = "home" /\ open = {"ollama"} /\ dropped = FALSE
    /\ residency = "none" /\ signalled = "absent"
    /\ inputs = [i \in Inputs |-> "open"] /\ raised = "no"
    /\ deadline = "none" /\ exit = "none"

\* The finally clause is entered with an exception.
Fails == sAt' = "finally" /\ raised' = "error"
Goes(place) == sAt' = place /\ UNCHANGED raised
Opens(r) == open' = open \cup {r}

-----------------------------------------------------------------------------
(* Start-up.  A step fails, or is interrupted by the user: as long as no       *)
(* handler is installed, SIGINT cancels run_server().                         *)

\* The connection is known before it is started, so that it is closed if it does not start.
StartHome ==
    /\ sAt = "home" /\ Opens("home") /\ (Goes("agent") \/ Fails)
    /\ UNCHANGED <<dropped, residency, signalled, inputs, deadline, exit>>

\* create_agent() closes the agent it created if preloading fails.
StartAgent ==
    /\ sAt = "agent"
    /\ \/ Opens("agent") /\ Goes("residency")
       \/ Fails /\ UNCHANGED open
    /\ UNCHANGED <<dropped, residency, signalled, inputs, deadline, exit>>

\* No protected model, or one that is verified and then watched.
StartResidency ==
    /\ sAt = "residency"
    /\ \/ Goes("microphones") /\ residency' \in {"none", "running"}
       \/ Fails /\ UNCHANGED residency
    /\ UNCHANGED <<open, dropped, signalled, inputs, deadline, exit>>

ResidencyFails ==
    /\ residency = "running" /\ sAt # "over" /\ residency' = "failed"
    /\ UNCHANGED <<sAt, open, dropped, signalled, inputs, raised, deadline, exit>>

AfterStep == [microphones |-> "setup", setup |-> "site", site |-> "serving"]

\* The runner is known, and will be cleaned up, before its set-up begins.
Begun(step) == IF step = "setup" THEN open \cup {"websocket"} ELSE open

\* An operation that is done counts, and the residency task is looked at after it.
OperationDone ==
    /\ sAt \in DOMAIN AfterStep
    /\ open' = IF sAt = "microphones" THEN open \cup {"microphones"} ELSE Begun(sAt)
    /\ IF residency = "failed" THEN Fails ELSE Goes(AfterStep[sAt])
    /\ signalled' = IF sAt' = "serving" THEN "no" ELSE signalled
    /\ UNCHANGED <<dropped, residency, inputs, deadline, exit>>

\* It raises, or is interrupted where nothing watches it; MicrophoneManager.start()
\* closes what it had started.
OperationFails ==
    /\ sAt \in DOMAIN AfterStep
    /\ open' = Begun(sAt) /\ Fails
    /\ UNCHANGED <<dropped, residency, signalled, inputs, deadline, exit>>

\* Seeded fault: an operation of the start-up is waited for alone.
AbandonedOnlyBefore == residency = "failed" /\ sAt = "nowhere"

Abandoned == residency = "failed"

\* _await_startup_operation() cancels the operation and awaits it, without a deadline.
Abandons == open' = Begun(sAt) /\ Goes("abandoning") /\ UNCHANGED dropped

\* The residency task failed first.
OperationAbandoned ==
    /\ sAt \in DOMAIN AfterStep /\ Abandoned
    /\ Abandons
    /\ UNCHANGED <<residency, signalled, inputs, deadline, exit>>

\* An interrupt of asyncio.wait().  An operation that is done by then is not cancelled, and
\* its result, the manager of microphones that run, is dropped.
StartUpInterrupted ==
    /\ sAt \in DOMAIN AfterStep /\ residency # "none"
    /\ \/ Abandons
       \/ /\ sAt = "microphones" /\ Fails
          /\ open' = open \cup {"microphones"} /\ dropped' = TRUE
    /\ UNCHANGED <<residency, signalled, inputs, deadline, exit>>

\* The operation ends when its own clean-up does.
AbandonedEnds ==
    /\ sAt = "abandoning" /\ Fails
    /\ UNCHANGED <<open, dropped, residency, signalled, inputs, deadline, exit>>

-----------------------------------------------------------------------------
(* Serving, and signals.                                                    *)

\* Once the server listens a signal is a request to stop, and the second one is final.
FirstSignal ==
    /\ signalled = "no" /\ sAt # "over" /\ signalled' = "yes"
    /\ UNCHANGED <<sAt, open, dropped, residency, inputs, raised, deadline, exit>>

SecondSignal ==
    /\ signalled = "yes" /\ sAt # "over"
    /\ sAt' = "over" /\ exit' = "hard"
    /\ UNCHANGED <<open, dropped, residency, signalled, inputs, raised, deadline>>

ServingEnds ==
    /\ sAt = "serving"
    /\ \/ residency = "failed" /\ Fails
       \/ signalled = "yes" /\ residency # "failed" /\ Goes("finally")
    /\ UNCHANGED <<open, dropped, residency, signalled, inputs, deadline, exit>>

-----------------------------------------------------------------------------
(* _close_runtime()                                                         *)

\* What run_server() knows to be open.
Known == open \ (IF dropped THEN {"microphones"} ELSE {})

\* The tasks of run_server() are cancelled, and the grace period begins.
CloseBegins ==
    /\ sAt = "finally" /\ Goes("inputs")
    /\ residency' = IF residency = "running" THEN "cancelled" ELSE residency
    /\ inputs' = [i \in Inputs |-> IF i \in Known THEN "closing" ELSE "closed"]
    /\ deadline' = "running"
    /\ UNCHANGED <<open, dropped, signalled, exit>>

\* One close is done, or raises; the other goes on by itself.
InputCloses(i) ==
    /\ inputs[i] = "closing" /\ sAt \in CloseDown
    /\ \/ inputs' = [inputs EXCEPT ![i] = "closed"] /\ open' = open \ {i}
       \/ inputs' = [inputs EXCEPT ![i] = "raised"] /\ UNCHANGED open
    /\ UNCHANGED <<sAt, dropped, residency, signalled, raised, deadline, exit>>

\* Seeded fault: the first input that has closed lets the rest begin.
FirstHasClosed == \E i \in Inputs : inputs[i] = "closed"

AllHaveClosed == \A i \in Inputs : inputs[i] = "closed"

OneHasRaised == \E i \in Inputs : inputs[i] = "raised"

\* gather() raises what the first of them has raised, and leaves the other alone.
InputsClosed ==
    /\ sAt = "inputs"
    /\ \/ AllHaveClosed /\ Goes("closeAgent")
       \/ OneHasRaised /\ sAt' = "closeOllama" /\ raised' = "error"
    /\ UNCHANGED <<open, dropped, residency, signalled, inputs, deadline, exit>>

NextClose == [closeAgent |-> "closeHome", closeHome |-> "closeOllama"]
ClosedThere == [closeAgent |-> "agent", closeHome |-> "home"]

\* What a close that was cancelled may raise, and one that was not.
MayRaise == IF deadline = "expired" THEN {"error", "cut"} ELSE {"error"}

\* agent.close(), home_assistant_connection.close().  They await tasks they have cancelled,
\* and take a CancelledError of their own for one of those: then they go on.
SharedCloses ==
    /\ sAt \in DOMAIN NextClose
    /\ \/ open' = open \ {ClosedThere[sAt]} /\ Goes(NextClose[sAt])
       \/ sAt' = "closeOllama" /\ raised' \in MayRaise /\ UNCHANGED open
    /\ UNCHANGED <<dropped, residency, signalled, inputs, deadline, exit>>

\* Whatever happened before, the connection to Ollama is closed, when its last request ends.
OllamaCloses ==
    /\ sAt = "closeOllama"
    /\ sAt' = "over" /\ open' = open \ {"ollama"}
    /\ exit' = [no |-> "zero", error |-> "error", cut |-> "hard"][raised]
    /\ deadline' = IF deadline = "running" THEN "met" ELSE deadline
    /\ UNCHANGED <<dropped, residency, signalled, inputs, raised>>

\* Seeded fault: no grace period for the closing of the inputs.
ExpiresLater == deadline = "running" /\ sAt \in CloseDown \ {"inputs"}

Expires == deadline = "running" /\ sAt \in CloseDown

\* wait_for() cancels _close_runtime(), which is a CancelledError in the close it awaits,
\* and waits for it.
DeadlineExpires ==
    /\ Expires
    /\ deadline' = "expired"
    /\ CASE sAt = "inputs" -> sAt' = "cancelled" /\ UNCHANGED exit
         [] sAt \in DOMAIN NextClose -> UNCHANGED <<sAt, exit>>
         [] sAt = "closeOllama" -> sAt' = "over" /\ exit' = "hard"
    /\ UNCHANGED <<open, dropped, residency, signalled, inputs, raised>>

\* The closes of the inputs have been cancelled as well: gather() ends with the first that
\* raises, or when all have closed in spite of it (MicrophoneManager.close() swallows it).
InputsCancelled ==
    /\ sAt = "cancelled" /\ sAt' = "closeOllama"
    /\ \/ OneHasRaised /\ raised' \in MayRaise
       \/ AllHaveClosed /\ raised' = "cut"
    /\ UNCHANGED <<open, dropped, residency, signalled, inputs, deadline, exit>>

ServerNext ==
    \/ StartHome \/ StartAgent \/ StartResidency \/ ResidencyFails
    \/ OperationDone \/ OperationFails \/ OperationAbandoned
    \/ StartUpInterrupted \/ AbandonedEnds
    \/ FirstSignal \/ SecondSignal \/ ServingEnds \/ CloseBegins
    \/ \E i \in Inputs : InputCloses(i)
    \/ InputsClosed \/ SharedCloses \/ OllamaCloses \/ DeadlineExpires \/ InputsCancelled

ServerSpec == ServerInit /\ [][ServerNext]_serverVars

\* The server's own steps, the grace period, and the close of the connection to Ollama, whose
\* requests have a timeout.  The operations of the start-up and the closes of the other
\* resources may hang, also when they have been cancelled.
ServerFairSpec ==
    /\ ServerSpec
    /\ WF_serverVars(OperationAbandoned) /\ WF_serverVars(ServingEnds)
    /\ WF_serverVars(CloseBegins) /\ WF_serverVars(InputsClosed)
    /\ WF_serverVars(DeadlineExpires) /\ WF_serverVars(InputsCancelled)
    /\ WF_serverVars(OllamaCloses)

-----------------------------------------------------------------------------
(* What must hold.                                                          *)

ServerTypeOK ==
    /\ sAt \in StartUp \cup CloseDown \cup {"serving", "finally", "over"}
    /\ open \subseteq Inputs \cup {"home", "agent", "ollama"}
    /\ dropped \in BOOLEAN
    /\ signalled \in {"absent", "no", "yes"}
    /\ residency \in {"none", "running", "failed", "cancelled"}
    /\ inputs \in [Inputs -> {"open", "closing", "closed", "raised"}]
    /\ raised \in {"no", "error", "cut"}
    /\ deadline \in {"none", "running", "expired", "met"}
    /\ exit \in {"none", "zero", "error", "hard"}

\* What the inputs share outlives those that run_server() knows: as long as it has a
\* microphone or the websocket open the agent is, and with it the connection to Home
\* Assistant; and the connection to Ollama, which the finally clause closes whatever
\* happens, is closed under an input only when the close of an input has raised
\* (server.py 220-234).
SharedOutlivesInputs ==
    /\ Known \cap Inputs # {} => "agent" \in open
    /\ "agent" \in open => "home" \in open
    /\ Known \cap Inputs # {} /\ "ollama" \notin open => OneHasRaised

\* The same of all inputs, which does not hold: an interrupt in the loop turn in which the
\* start of the microphones has finished drops their manager (server.py 258-266).
EveryInputHasItsAgent == open \cap Inputs # {} => "agent" \in open

\* What has no deadline: the clean-up of a start-up operation that was cancelled, and the
\* close of an input, of the agent or of Home Assistant that the deadline has cancelled.
Hangs ==
    \/ sAt = "abandoning"
    \/ sAt = "cancelled" /\ \E i \in Inputs : inputs[i] = "closing"
    \/ sAt \in DOMAIN NextClose /\ deadline = "expired"

\* The server stops in the end, after a signal, and when the protected model is lost, during
\* the start-up as well: nothing keeps it but an await without a deadline that does not end
\* although it was cancelled, whatever else hangs (server.py 172-210, 237-270).
StopsInTheEnd ==
    (signalled = "yes" \/ residency = "failed" ~> exit # "none") \/ <>[]Hangs

\* The grace period is the limit: nothing else happens once it is over
\* (ai-server-conversation-protocol.md, CP-SHUTDOWN-002).
LimitIsHard ==
    [][deadline = "expired" /\ exit = "none" => exit' = "hard"]_serverVars

=============================================================================
