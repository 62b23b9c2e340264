------------------------- MODULE ConversationBridge -------------------------
(***************************************************************************)
(* ai_server/conversations/bridge.py: the coroutine that joins one input   *)
(* conversation (a websocket client or a microphone) to one agent          *)
(* conversation and is the only place where their races are decided.       *)
(*                                                                         *)
(* Between two awaits the coroutine runs alone on the event loop, so one   *)
(* bridge action is the code from the wake-up after one await to the next  *)
(* await.  Awaited work runs in tasks of its own: `op` is the operation    *)
(* the bridge owns, `inputTask` its standing receive_control() call.       *)
(*                                                                         *)
(* The two sides are modelled by what the implementations in this          *)
(* repository do at their interface: `medium` says which input binding     *)
(* (websocket_server.py or microphones/conversation_adapter.py), the agent *)
(* is a worker behind agent_runtime.py.                                    *)
(***************************************************************************)
EXTENDS Naturals

CONSTANTS
    Media,   \* the bindings a conversation may come from
    Faults   \* the failures of the neighbours this instance explores

ASSUME ConstantAssumption ==
    /\ Media \subseteq {"TEXT", "VOICE"}
    /\ Faults \subseteq {"slow", "entry", "worker", "loss", "input"}

None == "none"

VARIABLES
    medium,         \* the binding of this conversation
    state,          \* _state
    pc,             \* the await the coroutine is suspended at
    op,             \* the owned operation: its kind and its result so far
    raced,          \* the kind of the operation a terminal input event beat
    inputTask,      \* _input_task: none, pending, or the event it returned
    scoped,         \* the agent scope is on the exit stack
    sinkStarted,    \* _sink_started
    sinkCompleted,  \* _sink_completed
    reason,         \* the ConversationEnded reason chosen
    failure         \* what sent the bridge to _fatal

VARIABLES
    control,        \* the one-slot control queue of the input conversation
    session,        \* the input session: up, closing, or its device lost
    followUp,       \* the follow-up gate of the input conversation
    outcome,        \* the follow-up outcome the user has committed to
    sink,           \* the state of the assistant output sink
    told            \* the reason end_conversation() was first called with

VARIABLES
    agent,          \* the agent worker as its channel shows it
    cancelReason    \* the reason the worker was cancelled with

flags == <<sinkStarted, sinkCompleted>>
inputSide == <<control, session, followUp, outcome, sink>>
bridgeVars == <<state, pc, op, raced, inputTask, scoped, flags, reason,
                failure>>
inputVars == <<inputSide, told>>
agentVars == <<agent, cancelReason>>
vars == <<medium, bridgeVars, inputVars, agentVars>>

-----------------------------------------------------------------------------
(* The vocabulary of messages.py                                           *)

TerminalEvents == {"ConversationCancelled", "InputConversationFailed",
                   "InputSessionClosed"}
FollowUpEvents == {"UserMessage", "FollowUpTimedOut"}
InputEvents == TerminalEvents \cup FollowUpEvents

AgentEvents == {"ProcessingUpdate", "AssistantMessageStarted",
                "AssistantTextChunk", "AssistantMessageCompleted",
                "EndConversation", "RequestFollowUp",
                "AgentConversationFailed"}

InputReasons == {"INPUT_CANCELLED", "INPUT_FAILED", "INPUT_SESSION_CLOSED",
                 "FOLLOW_UP_TIMEOUT"}
Reasons == InputReasons \cup {"COMPLETED", "AGENT_FAILED",
              "CONTEXT_REJECTED", "CONTEXT_UNAVAILABLE", "INTERNAL_FAILURE"}

\* _ended_from_input
EndedFromInput(event) ==
    CASE event = "ConversationCancelled" -> "INPUT_CANCELLED"
      [] event = "InputConversationFailed" -> "INPUT_FAILED"
      [] event = "InputSessionClosed" -> "INPUT_SESSION_CLOSED"
      [] event = "FollowUpTimedOut" -> "FOLLOW_UP_TIMEOUT"

\* Seeded fault: the worker is given the end reason untranslated.
AgentReasonUntranslated(why) == why

\* _agent_reason, of the reason the event ends the conversation with.
AgentReason(why) ==
    IF why = "FOLLOW_UP_TIMEOUT" THEN "INPUT_CANCELLED" ELSE why

SinkKinds == {"processing", "start", "text", "complete"}
Kinds == SinkKinds \cup {None, "enter", "deliver", "receive", "follow_up",
                         "cancel", "abort", "end", "exit"}
Results == {"ok", "closed", "error", "asserted", "cancelled", "terminated"}
                \cup AgentEvents

States == {"STARTING", "DELIVERING_USER_MESSAGE", "WAITING_FOR_AGENT",
           "STREAMING_ASSISTANT", "WAITING_FOR_DISPOSITION",
           "COMMITTING_FOLLOW_UP", "WAITING_FOR_FOLLOW_UP", "ENDING",
           "CLOSED"}
PCs == {"run", "race", "settle", "cancel", "abort", "end", "follow_up",
        "exit", "fatal", "closed", "terminated"}
Failures == {None, "context", "agent_slow", "operation_slow", "agent_protocol",
             "input_protocol", "sink", "sink_aborted", "follow_up",
             "acknowledge", "ended_twice", "session_closed", "assertion"}

TypeOK ==
    /\ medium \in Media
    /\ state \in States
    /\ pc \in PCs
    /\ op \in [kind : Kinds, result : Results \cup {"running", "hung"}]
    /\ raced \in Kinds
    /\ inputTask \in InputEvents \cup {None, "pending"}
    /\ scoped \in BOOLEAN
    /\ sinkStarted \in BOOLEAN
    /\ sinkCompleted \in BOOLEAN
    /\ reason \in Reasons \cup {None}
    /\ failure \in Failures
    /\ control \in InputEvents \cup {None}
    /\ session \in {"up", "closing", "lost"}
    /\ followUp \in {None, "committing", "awaiting", "spent"}
    /\ outcome \in FollowUpEvents \cup {"shut", "open"}
    /\ sink \in {"not_started", "open", "completed", "aborted"}
    /\ told \in Reasons \cup {None}
    /\ agent \in {"absent", "waiting", "active", "streaming", "streamed",
                  "ended", "failing", "dead", "cancelled", "closed"}
    /\ cancelReason \in Reasons \cup {None}

NoOp == [kind |-> None, result |-> "ok"]
Running(kind) == [kind |-> kind, result |-> "running"]
Done == op.result \in Results

Init ==
    /\ medium \in Media
    /\ state = "STARTING"
    /\ pc = "run"
    /\ op = NoOp
    /\ raced = None
    /\ inputTask = None
    /\ scoped = FALSE
    /\ sinkStarted = FALSE
    /\ sinkCompleted = FALSE
    /\ reason = None
    /\ failure = None
    /\ control = None
    /\ session = "up"
    /\ followUp = None
    /\ outcome = "shut"
    /\ sink = "not_started"
    /\ told = None
    /\ agent = "absent"
    /\ cancelReason = None

-----------------------------------------------------------------------------
(* How a bridge step ends.  Each of these chooses pc, op, reason, failure, *)
(* told and cancelReason; the action around it says the rest.              *)

Race(kind) ==
    /\ pc' = "race"
    /\ op' = Running(kind)
    /\ UNCHANGED <<reason, failure, told, cancelReason>>

\* _finish up to its await: a second call would raise in the binding.
Finish(why) ==
    /\ pc' = "end"
    /\ reason' = why
    /\ told' = IF told = None THEN why ELSE told
    /\ op' = [kind |-> "end",
              result |-> IF told = None THEN "running" ELSE "error"]
    /\ UNCHANGED <<failure, cancelReason>>

\* _cancel_agent up to its await.  The worker keeps the first reason.
CancelAgent(why) ==
    /\ pc' = "cancel"
    /\ reason' = why
    /\ op' = Running("cancel")
    /\ cancelReason' = IF cancelReason = None THEN AgentReason(why)
                                              ELSE cancelReason
    /\ UNCHANGED <<failure, told>>

AbortSink(why) ==
    /\ pc' = "abort"
    /\ reason' = why
    /\ op' = Running("abort")
    /\ UNCHANGED <<failure, told, cancelReason>>

\* The condition under which the bridge believes a stream is open.
StreamOpen == sinkStarted /\ ~sinkCompleted

AgentFailed == IF StreamOpen THEN AbortSink("AGENT_FAILED")
                             ELSE Finish("AGENT_FAILED")

\* `await self._fatal(...)`: no exit stack unwinds before the process ends.
Fatal(cause) ==
    /\ pc' = "fatal"
    /\ op' = NoOp
    /\ failure' = cause
    /\ UNCHANGED <<reason, told, cancelReason>>

\* An exception leaves the body of run(): the exit stack closes the agent
\* scope, then the `except Exception` clause calls _fatal.
Raise(cause) ==
    /\ pc' = IF scoped THEN "exit" ELSE "fatal"
    /\ op' = IF scoped THEN Running("exit") ELSE NoOp
    /\ failure' = cause
    /\ UNCHANGED <<reason, told, cancelReason>>

-----------------------------------------------------------------------------
(* run() and _enter_agent                                                  *)

\* Nothing is awaited between the creation of the input task and the ready
\* check at line 108, so the check cannot find an event.
Run ==
    /\ pc = "run"
    /\ inputTask' = "pending"
    /\ \/ Race("enter")
       \/ Finish("CONTEXT_REJECTED")
       \/ Finish("CONTEXT_UNAVAILABLE")
       \/ Raise("context")
    /\ state' = IF pc' = "end" THEN "ENDING" ELSE state
    /\ UNCHANGED <<raced, scoped, flags, inputSide, agent>>

InputReady == inputTask \in InputEvents

\* _race_operation looks at a failed sink operation first, then at the input,
\* then at the result of the operation.
FailureWins ==
    op.kind \in SinkKinds /\ op.result \in {"closed", "error", "asserted"}
InputWins == pc = "race" /\ InputReady /\ ~FailureWins

\* Seeded fault: a finished operation is looked at before the input.
OperationFirst == pc = "race" /\ Done

OperationWins == pc = "race" /\ Done /\ (FailureWins \/ ~InputReady)

Entered ==
    /\ OperationWins
    /\ op.kind = "enter"
    /\ \/ /\ op.result = "ok"
          /\ scoped' = TRUE
          /\ state' = "DELIVERING_USER_MESSAGE"
          /\ Race("deliver")
       \/ /\ op.result = "error"
          /\ state' = "ENDING"
          /\ Finish("AGENT_FAILED")
          /\ UNCHANGED scoped
    /\ UNCHANGED <<raced, inputTask, flags, inputSide, agent>>

-----------------------------------------------------------------------------
(* A ready input event                                                     *)

\* _InputWon.  Every race admits terminal events only: for another event
\* _validate_input_event raises.
InputInterrupts ==
    /\ InputWins
    /\ inputTask' = None
    /\ IF inputTask \in TerminalEvents
       THEN /\ pc' = "settle"
            /\ reason' = EndedFromInput(inputTask)
            /\ raced' = op.kind
            /\ UNCHANGED <<op, failure, told, cancelReason>>
       ELSE Raise("input_protocol") /\ UNCHANGED raced
    /\ UNCHANGED <<state, scoped, flags, inputSide, agent>>

\* Seeded fault: the conversation is finished under a running worker.
SettledWithoutCancel ==
    /\ pc = "settle"
    /\ Done
    /\ Finish(reason)
    /\ state' = "ENDING"
    /\ UNCHANGED <<raced, inputTask, scoped, flags, inputSide, agent>>

\* _cancel_task returned: the operation is over, one way or another.  An
\* agent that was entered after all is put on the exit stack first.
Settled ==
    /\ pc = "settle"
    /\ Done
    /\ scoped' = (scoped \/ (raced = "enter" /\ op.result = "ok"))
    /\ IF scoped' THEN CancelAgent(reason) ELSE Finish(reason)
    /\ state' = IF scoped' THEN state ELSE "ENDING"
    /\ UNCHANGED <<raced, inputTask, flags, inputSide, agent>>

\* Seeded fault: the flags alone decide whether to abort the stream.
AgentCancelledByFlags ==
    /\ pc = "cancel"
    /\ op.result = "ok"
    /\ IF StreamOpen
       THEN AbortSink(reason) /\ UNCHANGED state
       ELSE Finish(reason) /\ state' = "ENDING"
    /\ UNCHANGED <<raced, inputTask, scoped, flags, inputSide, agent>>

\* _cancel_agent returned.  A cancelled sink operation may have opened the
\* stream unseen, so _race_sink aborts whatever the flags say; abort() is
\* idempotent, and the second call of _finish_from_input finds nothing to do.
AgentCancelled ==
    /\ pc = "cancel"
    /\ op.result = "ok"
    /\ IF raced \in SinkKinds \/ StreamOpen
       THEN AbortSink(reason) /\ UNCHANGED state
       ELSE Finish(reason) /\ state' = "ENDING"
    /\ UNCHANGED <<raced, inputTask, scoped, flags, inputSide, agent>>

\* _abort_sink returned, or raised InputSessionClosed, which nothing between
\* it and run() catches.
SinkAborted ==
    /\ pc = "abort"
    /\ \/ op.result = "ok" /\ Finish(reason) /\ state' = "ENDING"
       \/ op.result = "closed" /\ Raise("session_closed") /\ UNCHANGED state
    /\ UNCHANGED <<raced, inputTask, scoped, flags, inputSide, agent>>

-----------------------------------------------------------------------------
(* _deliver_message and _run_turn                                          *)

\* Seeded fault: the state is left as the previous turn left it.
DeliveredInOldState ==
    /\ OperationWins
    /\ op.kind = "deliver"
    /\ \/ op.result = "ok" /\ Race("receive") /\ UNCHANGED state
       \/ op.result = "error" /\ Finish("AGENT_FAILED") /\ state' = "ENDING"
    /\ UNCHANGED <<raced, inputTask, scoped, flags, inputSide, agent>>

Delivered ==
    /\ OperationWins
    /\ op.kind = "deliver"
    /\ \/ /\ op.result = "ok"
          /\ state' = "WAITING_FOR_AGENT"
          /\ Race("receive")
       \/ /\ op.result = "error"
          /\ state' = "ENDING"
          /\ Finish("AGENT_FAILED")
    /\ UNCHANGED <<raced, inputTask, scoped, flags, inputSide, agent>>

AgentEvent(event) ==
    /\ OperationWins
    /\ op.kind = "receive"
    /\ op.result = event
    /\ UNCHANGED <<raced, inputTask, scoped, flags, inputSide, agent>>

\* An event that the current state does not admit raises AssertionError.
Admits(states, kind) ==
    /\ IF state \in states THEN Race(kind) ELSE Raise("agent_protocol")
    /\ UNCHANGED state

ProcessingUpdate ==
    AgentEvent("ProcessingUpdate") /\ Admits({"WAITING_FOR_AGENT"}, "processing")

AssistantMessageStarted ==
    AgentEvent("AssistantMessageStarted") /\ Admits({"WAITING_FOR_AGENT"}, "start")

AssistantTextChunk ==
    AgentEvent("AssistantTextChunk") /\ Admits({"STREAMING_ASSISTANT"}, "text")

AssistantMessageCompleted ==
    AgentEvent("AssistantMessageCompleted")
        /\ Admits({"STREAMING_ASSISTANT"}, "complete")

TurnDisposition(event) ==
    /\ AgentEvent(event)
    /\ IF state \notin {"WAITING_FOR_AGENT", "WAITING_FOR_DISPOSITION"}
       THEN Raise("agent_protocol") /\ UNCHANGED state
       ELSE IF event = "EndConversation"
       THEN Finish("COMPLETED") /\ state' = "ENDING"
       ELSE Race("follow_up") /\ state' = "COMMITTING_FOLLOW_UP"

AgentEnds ==
    /\ \/ AgentEvent("AgentConversationFailed")
       \/ AgentEvent("error")
    /\ AgentFailed
    /\ state' = IF pc' = "end" THEN "ENDING" ELSE state

-----------------------------------------------------------------------------
(* _race_sink: the four operations on the input conversation's output      *)

\* Seeded fault: the completion of the stream is not recorded.
SinkAcceptedUnrecorded ==
    /\ OperationWins
    /\ op.kind \in SinkKinds
    /\ op.result = "ok"
    /\ sinkStarted' = (sinkStarted \/ op.kind = "start")
    /\ state' = CASE op.kind = "start" -> "STREAMING_ASSISTANT"
                  [] op.kind = "complete" -> "WAITING_FOR_DISPOSITION"
                  [] OTHER -> state
    /\ Race("receive")
    /\ UNCHANGED <<raced, inputTask, scoped, sinkCompleted, inputSide,
                   agent>>

SinkAccepted ==
    /\ OperationWins
    /\ op.kind \in SinkKinds
    /\ op.result = "ok"
    /\ sinkStarted' = (sinkStarted \/ op.kind = "start")
    /\ sinkCompleted' = (sinkCompleted \/ op.kind = "complete")
    /\ state' = CASE op.kind = "start" -> "STREAMING_ASSISTANT"
                  [] op.kind = "complete" -> "WAITING_FOR_DISPOSITION"
                  [] OTHER -> state
    /\ Race("receive")
    /\ UNCHANGED <<raced, inputTask, scoped, inputSide, agent>>

SinkFailed ==
    /\ OperationWins
    /\ op.kind \in SinkKinds
    /\ \/ op.result = "closed" /\ CancelAgent("INPUT_SESSION_CLOSED")
       \/ op.result = "error" /\ Fatal("sink")
       \/ op.result = "asserted" /\ Fatal("assertion")
       \/ op.result = "terminated" /\ Fatal("sink_aborted")
    /\ UNCHANGED <<state, raced, inputTask, scoped, flags, inputSide, agent>>

-----------------------------------------------------------------------------
(* _follow_up                                                              *)

\* acknowledge_follow_up_ready raises in the websocket binding when the
\* session is no longer committing, or when the queue has no room for the
\* outcome it held back; otherwise, in both, it opens the gate.
FollowUpCommitted ==
    /\ OperationWins
    /\ op.kind = "follow_up"
    /\ op.result = "ok"
    /\ state' = "WAITING_FOR_FOLLOW_UP"
    /\ IF \/ medium = "TEXT" /\ session # "up"
          \/ medium = "TEXT" /\ outcome \in FollowUpEvents /\ control # None
       THEN Raise("acknowledge") /\ UNCHANGED <<control, followUp, outcome>>
       ELSE /\ pc' = "follow_up"
            /\ op' = NoOp
            /\ IF medium = "TEXT" /\ outcome \in FollowUpEvents
               THEN control' = outcome /\ outcome' = "shut" /\ followUp' = None
               ELSE followUp' = "awaiting" /\ UNCHANGED <<control, outcome>>
            /\ UNCHANGED <<reason, failure, told, cancelReason>>
    /\ UNCHANGED <<raced, inputTask, scoped, flags, session, sink, agent>>

FollowUpRefused ==
    /\ OperationWins
    /\ op.kind = "follow_up"
    /\ \/ op.result = "closed" /\ CancelAgent("INPUT_SESSION_CLOSED")
       \/ op.result = "error" /\ Fatal("follow_up")
       \/ op.result = "asserted" /\ Fatal("assertion")
    /\ UNCHANGED <<state, raced, inputTask, scoped, flags, inputSide, agent>>

FollowUpArrived ==
    /\ pc = "follow_up"
    /\ InputReady
    /\ IF inputTask = "UserMessage"
       THEN /\ inputTask' = "pending"
            /\ state' = "DELIVERING_USER_MESSAGE"
            /\ Race("deliver")
       ELSE /\ inputTask' = None
            /\ CancelAgent(EndedFromInput(inputTask))
            /\ UNCHANGED state
    /\ UNCHANGED <<raced, scoped, flags, inputSide, agent>>

-----------------------------------------------------------------------------
(* _finish after its await, _exit_agent_scope, the end of run(), _fatal    *)

Ended ==
    /\ pc = "end"
    /\ Done
    /\ IF op.result = "error"
       THEN Raise("ended_twice") /\ UNCHANGED <<state, inputTask>>
       ELSE /\ state' = "CLOSED"
            /\ pc' = IF scoped THEN "exit" ELSE "closed"
            /\ op' = IF scoped THEN Running("exit") ELSE NoOp
            /\ inputTask' = IF scoped THEN inputTask ELSE None
            /\ UNCHANGED <<reason, failure, told, cancelReason>>
    /\ UNCHANGED <<raced, scoped, flags, inputSide, agent>>

\* Seeded fault: no `finally` clause cancels the standing receive.
ScopeExitedReceiving ==
    /\ pc = "exit"
    /\ op.result = "ok"
    /\ pc' = IF failure = None THEN "closed" ELSE "fatal"
    /\ op' = NoOp
    /\ UNCHANGED <<state, raced, inputTask, scoped, flags, reason, failure,
                   inputVars, agentVars>>

ScopeExited ==
    /\ pc = "exit"
    /\ op.result = "ok"
    /\ pc' = IF failure = None THEN "closed" ELSE "fatal"
    /\ op' = NoOp
    /\ inputTask' = IF failure = None THEN None ELSE inputTask
    /\ UNCHANGED <<state, raced, scoped, flags, reason, failure, inputVars,
                   agentVars>>

\* The entry, an owned operation that was cancelled, the worker's
\* acknowledgement or the scope's exit takes longer than its deadline.
DeadlineExpired ==
    /\ "slow" \in Faults
    /\ ~Done
    /\ \/ pc = "race" /\ op.kind = "enter" /\ ~InputReady
       \/ pc \in {"settle", "cancel", "exit"}
    /\ Fatal(IF pc = "settle" THEN "operation_slow" ELSE "agent_slow")
    /\ UNCHANGED <<state, raced, inputTask, scoped, flags, inputSide, agent>>

\* _fatal: two bounded notifications, of which only the calls are certain,
\* then the process ends (server.py's controller calls os._exit).
FatalNotified ==
    /\ pc = "fatal"
    /\ sink' \in {sink} \cup (IF StreamOpen /\ sink = "open"
                               THEN {"aborted"} ELSE {})
    /\ told' = IF told = None THEN "INTERNAL_FAILURE" ELSE told
    /\ pc' = "terminated"
    /\ UNCHANGED <<state, op, raced, inputTask, scoped, flags, reason,
                   failure, control, session, followUp, outcome, agentVars>>

BridgeStep ==
    \/ Run \/ Entered \/ InputInterrupts
    \/ Settled \/ AgentCancelled \/ SinkAborted
    \/ Delivered
    \/ ProcessingUpdate \/ AssistantMessageStarted \/ AssistantTextChunk
    \/ AssistantMessageCompleted \/ AgentEnds
    \/ TurnDisposition("EndConversation")
    \/ TurnDisposition("RequestFollowUp")
    \/ SinkAccepted \/ SinkFailed
    \/ FollowUpCommitted \/ FollowUpRefused \/ FollowUpArrived
    \/ Ended \/ ScopeExited \/ DeadlineExpired \/ FatalNotified

-----------------------------------------------------------------------------
(* The agent: a worker behind an AgentChannel (agent_runtime.py)           *)

InFlight(kinds) == op.kind \in kinds /\ op.result = "running"

OpResult(r) == op' = [op EXCEPT !.result = r]

OpOnly == UNCHANGED <<state, pc, raced, inputTask, scoped, flags, reason,
                      failure>>

Enter ==
    /\ InFlight({"enter"})
    /\ \/ OpResult("ok") /\ agent' = "waiting"
       \/ "entry" \in Faults /\ OpResult("error") /\ UNCHANGED agent
    /\ OpOnly /\ UNCHANGED <<inputVars, cancelReason>>

\* send_user_message: the worker takes the message, or has stopped and its
\* channel refuses it.
AcceptMessage ==
    /\ InFlight({"deliver"})
    /\ \/ agent = "waiting" /\ OpResult("ok") /\ agent' = "active"
       \/ agent = "dead" /\ OpResult("error") /\ UNCHANGED agent
    /\ OpOnly /\ UNCHANGED <<inputVars, cancelReason>>

\* Seeded fault: an agent that opens a second stream in a turn.
HandoverTwoStreams ==
    {<<"active", "ProcessingUpdate", "active">>,
     <<"active", "AssistantMessageStarted", "streaming">>,
     <<"streaming", "AssistantMessageCompleted", "streamed">>,
     <<"streamed", "AssistantMessageStarted", "streaming">>}

\* What the worker may hand over in each phase, and the phase it leaves.
\* The agents of this repository stream at most once per turn.
Handover ==
    {<<"active", "ProcessingUpdate", "active">>,
     <<"active", "AssistantMessageStarted", "streaming">>,
     <<"active", "EndConversation", "ended">>,
     <<"active", "RequestFollowUp", "waiting">>,
     <<"streaming", "AssistantTextChunk", "streaming">>,
     <<"streaming", "AssistantMessageCompleted", "streamed">>,
     <<"streamed", "EndConversation", "ended">>,
     <<"streamed", "RequestFollowUp", "waiting">>,
     <<"failing", "AgentConversationFailed", "dead">>,
     <<"dead", "error", "dead">>}

EmitEvent ==
    /\ InFlight({"receive"})
    /\ \E h \in Handover :
         /\ agent = h[1]
         /\ OpResult(h[2])
         /\ agent' = h[3]
    /\ OpOnly /\ UNCHANGED <<inputVars, cancelReason>>

\* The worker returns or raises on its own.  It reports a failure only in a
\* turn; a return without disposition just closes its channel.
WorkerStops ==
    /\ "worker" \in Faults
    /\ \/ agent \in {"waiting", "active", "streaming", "streamed"}
             /\ agent' = "dead"
       \/ agent \in {"active", "streaming", "streamed"} /\ agent' = "failing"
    /\ UNCHANGED <<bridgeVars, inputVars, cancelReason>>

\* cancel() and close() return once the worker task has finished.
WorkerCancelled ==
    /\ InFlight({"cancel", "exit"})
    /\ OpResult("ok")
    /\ agent' = IF op.kind = "cancel" THEN "cancelled" ELSE "closed"
    /\ OpOnly /\ UNCHANGED <<inputVars, cancelReason>>

AgentStep == Enter \/ AcceptMessage \/ EmitEvent \/ WorkerStops
                \/ WorkerCancelled

-----------------------------------------------------------------------------
(* The input conversation: its operations                                  *)

InputOnly == OpOnly /\ UNCHANGED agentVars

\* The sink's one-shot state machine, alike in both bindings.
SinkAdmits ==
    CASE op.kind = "start" -> sink = "not_started"
      [] op.kind \in {"text", "complete"} -> sink = "open"
      [] OTHER -> TRUE

SinkAfter ==
    CASE op.kind = "start" -> "open"
      [] op.kind = "complete" -> "completed"
      [] op.kind = "abort" /\ sink \in {"not_started", "open"} -> "aborted"
      [] OTHER -> sink

\* Seeded fault: the microphone's abort needs the microphone.
UsesDeviceToAbort ==
    \/ op.kind \in SinkKinds
    \/ op.kind = "follow_up"
    \/ op.kind = "abort" /\ sink = "open"
    \/ medium = "TEXT" /\ op.kind = "end"

\* The operation needs the device: abort() writes only for an open stream,
\* and the microphone is not told that a conversation has ended.
UsesDevice ==
    \/ op.kind \in SinkKinds
    \/ op.kind = "follow_up"
    \/ medium = "TEXT" /\ op.kind = "abort" /\ sink = "open"
    \/ medium = "TEXT" /\ op.kind = "end"

OutputKinds == SinkKinds \cup {"abort", "end"}

OutputSucceeds ==
    /\ InFlight(OutputKinds)
    /\ SinkAdmits
    /\ medium = "TEXT" /\ UsesDevice => session # "lost"
    /\ OpResult("ok")
    /\ sink' = SinkAfter
    /\ InputOnly /\ UNCHANGED <<control, session, followUp, outcome, told>>

\* start(), send_text() and complete() on a sink that is not in the state
\* they need; complete() on a terminal sink answers with that state.
OutputRefused ==
    /\ InFlight(OutputKinds)
    /\ ~SinkAdmits
    /\ OpResult(IF op.kind = "complete" /\ sink = "completed" THEN "ok"
                ELSE IF op.kind = "complete" /\ sink = "aborted"
                THEN "terminated" ELSE "error")
    /\ InputOnly /\ UNCHANGED inputVars

\* Seeded fault: the control queue is given the transport's own exception.
DeviceLostUntyped ==
    /\ InFlight(Kinds)
    /\ UsesDevice
    /\ SinkAdmits
    /\ IF medium = "TEXT" THEN session = "lost" ELSE "loss" \in Faults
    /\ OpResult("closed")
    /\ session' = "lost"
    /\ control' = "ClientConnectionResetError"
    /\ InputOnly /\ UNCHANGED <<followUp, outcome, sink, told>>

\* A write on a reset transport, or a microphone command that reports the
\* microphone unavailable: the session is closed before the operation raises.
DeviceLost ==
    /\ InFlight(Kinds)
    /\ UsesDevice
    /\ SinkAdmits
    /\ IF medium = "TEXT" THEN session = "lost" ELSE "loss" \in Faults
    /\ OpResult("closed")
    /\ session' = "lost"
    /\ control' = "InputSessionClosed"
    /\ InputOnly /\ UNCHANGED <<followUp, outcome, sink, told>>

\* _fail_input: an assertion of the microphone's is raised again.  Otherwise
\* the microphone recovered, the conversation did not: the operation publishes
\* the failure and never returns; a close stays.
InputFails ==
    /\ medium = "VOICE"
    /\ "input" \in Faults
    /\ InFlight(SinkKinds \cup {"follow_up"})
    /\ SinkAdmits
    /\ \/ OpResult("asserted") /\ UNCHANGED control
       \/ /\ OpResult("hung")
          /\ control' = IF control = "InputSessionClosed" THEN control
                                              ELSE "InputConversationFailed"
    /\ InputOnly /\ UNCHANGED <<session, followUp, outcome, sink, told>>

\* The websocket commits the request when it hands the frame to the writer,
\* the microphone when it has presented that it listens.
FollowUpHandoff ==
    /\ InFlight({"follow_up"})
    /\ medium = "TEXT" => session = "up"
    /\ followUp = None
    /\ followUp' = "committing"
    /\ outcome' = "open"
    /\ IF medium = "VOICE" THEN OpResult("ok") ELSE UNCHANGED op
    /\ InputOnly /\ UNCHANGED <<control, session, sink, told>>

FollowUpSent ==
    /\ medium = "TEXT"
    /\ InFlight({"follow_up"})
    /\ followUp = "committing"
    /\ session # "lost"
    /\ OpResult("ok")
    /\ InputOnly /\ UNCHANGED inputVars

\* The AssertionErrors at the top of request_follow_up.  A session that is
\* no longer active has published its close at least two event-loop turns
\* before the bridge can see the error, so a standing receive has it by then.
FollowUpAsserts ==
    /\ InFlight({"follow_up"})
    /\ \/ /\ medium = "TEXT"
          /\ session # "up"
          /\ followUp = None
          /\ IF inputTask = "pending"
             THEN control' = None /\ inputTask' = "InputSessionClosed"
             ELSE UNCHANGED <<control, inputTask>>
       \/ /\ medium = "VOICE"
          /\ followUp # None
          /\ UNCHANGED <<control, inputTask>>
    /\ OpResult("error")
    /\ UNCHANGED <<state, pc, raced, scoped, flags, reason, failure,
                   agentVars, session, followUp, outcome, sink, told>>

\* _cancel_task on an operation that has not finished.  A write that was
\* handed to the transport completes all the same (OutputSucceeds,
\* DeviceLost); anything else stops here without an effect.
OperationCancelled ==
    /\ pc = "settle"
    /\ op.result \in {"running", "hung"}
    /\ OpResult("cancelled")
    /\ InputOnly /\ UNCHANGED inputVars

-----------------------------------------------------------------------------
(* The input conversation: its control events                              *)

Open == pc \notin {"closed", "terminated"}

\* The queue's getter resumes after the put, and takes what is queued then.
ReceiveControl ==
    /\ inputTask = "pending"
    /\ control # None
    /\ inputTask' = control
    /\ control' = None
    /\ UNCHANGED <<state, pc, op, raced, scoped, flags, reason, failure,
                   session, followUp, outcome, sink, told, agentVars>>

\* cancel_conversation from a text client: it revokes a follow-up outcome,
\* and closes the session when the queue still holds an event.
ClientCancels ==
    /\ Open
    /\ medium = "TEXT"
    /\ session = "up"
    /\ outcome' = "shut"
    /\ IF control = None
       THEN control' = "ConversationCancelled" /\ UNCHANGED session
       ELSE control' = "InputSessionClosed" /\ session' = "lost"
    /\ UNCHANGED <<bridgeVars, followUp, sink, told, agentVars>>

\* Seeded fault: the outcome is not held back until the acknowledgement.
UserDecidesUngated(o) ==
    /\ Open
    /\ outcome = "open"
    /\ followUp \in {"committing", "awaiting"}
    /\ session = "up"
    /\ control' = o
    /\ followUp' = None
    /\ outcome' = "shut"
    /\ UNCHANGED <<bridgeVars, session, sink, told, agentVars>>

\* The user answers, or says nothing in time.  The text client's outcome
\* goes to the queue at once if the bridge has acknowledged (and closes the
\* session when the queue still holds an event), and is retained otherwise;
\* the microphone's collector waits for the acknowledgement.
UserDecides(o) ==
    /\ Open
    /\ outcome = "open"
    /\ followUp \in {"committing", "awaiting"}
    /\ medium = "TEXT" => session = "up"
    /\ IF medium = "TEXT" /\ followUp = "awaiting"
       THEN /\ followUp' = None
            /\ outcome' = "shut"
            /\ IF control = None
               THEN control' = o /\ UNCHANGED session
               ELSE control' = "InputSessionClosed" /\ session' = "lost"
       ELSE outcome' = o /\ UNCHANGED <<control, followUp, session>>
    /\ UNCHANGED <<bridgeVars, sink, told, agentVars>>

CollectorReleases ==
    /\ Open
    /\ medium = "VOICE"
    /\ followUp = "awaiting"
    /\ outcome \in FollowUpEvents
    /\ IF session = "up" THEN control' = outcome ELSE UNCHANGED control
    /\ followUp' = "spent"
    /\ outcome' = "shut"
    /\ UNCHANGED <<bridgeVars, session, sink, told, agentVars>>

\* _collect_follow_up fails: the microphone recovers or does not.
CollectorFails ==
    /\ Open
    /\ medium = "VOICE"
    /\ "input" \in Faults
    /\ followUp \in {"committing", "awaiting"}
    /\ outcome = "open"
    /\ outcome' = "shut"
    /\ followUp' = "spent"
    /\ control' = IF control = "InputSessionClosed" THEN control
                                              ELSE "InputConversationFailed"
    /\ UNCHANGED <<bridgeVars, session, sink, told, agentVars>>

\* The session closes: by the server with the transport still open, or
\* because its transport or microphone is gone.
SessionCloses(how) ==
    /\ Open
    /\ how = "lost" => "loss" \in Faults
    /\ \/ session = "up"
       \/ session = "closing" /\ how = "lost"
    /\ session' = how
    /\ control' = "InputSessionClosed"
    /\ UNCHANGED <<bridgeVars, followUp, outcome, sink, told, agentVars>>

InputStep ==
    \/ OutputSucceeds \/ OutputRefused \/ DeviceLost \/ InputFails
    \/ FollowUpHandoff \/ FollowUpSent \/ FollowUpAsserts
    \/ OperationCancelled
    \/ ReceiveControl \/ ClientCancels
    \/ \E o \in FollowUpEvents : UserDecides(o)
    \/ CollectorReleases \/ CollectorFails
    \/ \E how \in {"closing", "lost"} : SessionCloses(how)

-----------------------------------------------------------------------------

\* run() has returned or the process has ended; the run stops nowhere else.
Over == pc \in {"closed", "terminated"} /\ UNCHANGED vars

Next ==
    \/ (BridgeStep \/ AgentStep \/ InputStep) /\ UNCHANGED medium
    \/ Over

Spec == Init /\ [][Next]_vars

\* The event loop resumes the bridge whenever its await is over; the queue's
\* getter whenever there is an event; and a cancelled or bounded operation,
\* an abort and an end notification return.  Nothing obliges the agent to
\* make progress in a turn or the user to speak.
Settling == pc \in {"settle", "cancel", "abort", "end", "exit"}

Fairness ==
    /\ WF_vars(BridgeStep /\ UNCHANGED medium)
    /\ WF_vars(ReceiveControl /\ UNCHANGED medium)
    /\ WF_vars(/\ Settling
               /\ WorkerCancelled \/ OperationCancelled \/ OutputSucceeds
                    \/ DeviceLost
               /\ UNCHANGED medium)

FairSpec == Spec /\ Fairness

-----------------------------------------------------------------------------
(* Safety                                                                  *)

\* A conversation that the input side ended is reported as ended only when
\* the agent worker no longer runs, so no turn works on for a user who has
\* gone (CP-AGENT cancellation before _finish in every input path).
AgentStoppedBeforeInputEnd ==
    told \in InputReasons => agent \in {"absent", "cancelled", "closed"}

\* The agent and the client are given the same account of the ending: the
\* worker is cancelled exactly when the input side ended the conversation,
\* with the reason that corresponds to the one the client is told: an agent
\* has no word for a user who fell silent but that the input cancelled.
AccountsAgree ==
    told \notin {None, "INTERNAL_FAILURE"} =>
        IF told \in InputReasons /\ agent # "absent"
        THEN \/ cancelReason = told /\ told # "FOLLOW_UP_TIMEOUT"
             \/ cancelReason = "INPUT_CANCELLED" /\ told = "FOLLOW_UP_TIMEOUT"
        ELSE cancelReason = None

\* The client hears of the end of the conversation only when its assistant
\* stream has its own end: the abort in _race_sink must catch the stream
\* that a cancelled start() opened although the bridge never saw it open.
NoStreamLeftOpen ==
    told # None /\ failure = None => sink # "open"

\* _sink_started and _sink_completed are never reset between turns, yet at
\* every point where the bridge could be told to end they agree with the
\* sink about whether a stream is open.
FlagsTrackSink ==
    pc = "race" /\ op.kind \in {"deliver", "receive", "follow_up"} =>
        (StreamOpen <=> sink = "open")

\* What the user answers comes within reach of the input task only once the
\* bridge waits for it, so the AssertionError of _validate_input_event never fires:
\* the bindings' gates and the bridge's acknowledgement fit together.
OutcomeOnlyWhenAwaited ==
    /\ (\/ inputTask \in FollowUpEvents
        \/ inputTask = "pending" /\ control \in FollowUpEvents) =>
            pc = "follow_up" /\ state = "WAITING_FOR_FOLLOW_UP"
    /\ failure # "input_protocol"

\* The worker's channel and the bridge's states admit the same events in
\* every turn: no event of a well-behaved agent raises in _run_turn.
AgentEventsAdmitted == failure # "agent_protocol"

\* run() returns with everything it owned released: no operation, no input
\* task, no worker; and with the client told why, once.
NothingLeftBehind ==
    pc = "closed" =>
        /\ op = NoOp
        /\ inputTask = None
        /\ agent \in {"absent", "closed"}
        /\ told = reason
        /\ told \notin {None, "INTERNAL_FAILURE"}

\* _fatal, which ends the process for every conversation, is reached by a
\* failure of a neighbour (a context provider or an input that raises, a
\* deadline missed) and otherwise in exactly four situations: a transport is
\* lost under an open text stream, a text follow-up is acknowledged when the
\* input has ended the conversation already, a message is streamed after the
\* first is complete, a microphone is asked for a second follow-up.  No order
\* of two events breaks the protocol between the agent, the bridge and the
\* input, and the loss of a microphone is never fatal.
OnlyKnownFatalities ==
    /\ failure \notin {"agent_protocol", "input_protocol", "sink_aborted",
                       "ended_twice"}
    /\ failure = "session_closed" =>
            medium = "TEXT" /\ session = "lost" /\ sink \in {"open", "aborted"}
    /\ failure = "acknowledge" =>
            /\ medium = "TEXT"
            /\ \/ session # "up"
               \/ control \in TerminalEvents
               \/ inputTask \in TerminalEvents
    /\ failure = "sink" => sink = "completed"
    /\ failure = "follow_up" => medium = "VOICE" /\ followUp = "spent"

\* A step that finds an input event ready starts no further work on either
\* side: cancellation wins every race it is visible in, unless the sink
\* operation has failed already.
ReadyInputStopsWork ==
    [][pc = "race" /\ InputReady /\ op # op' =>
         op'.kind \in {op.kind, None, "cancel", "exit"}]_vars

\* When the bridge has a terminal event in hand, or has chosen how to end,
\* the conversation closes or the process ends, whatever the worker, the
\* client and the device do meanwhile.
EndIsReached ==
    (inputTask \in TerminalEvents \/ reason # None)
        ~> (pc \in {"closed", "terminated"})

\* Whatever the interleaving, the bridge's conversation is one the abstract
\* ConversationOutcome allows: one worker, one verdict, a stopped worker
\* before an input-side verdict and before a close.
Worker ==
    CASE agent = "absent" -> "none"
      [] agent \in {"cancelled", "closed"} -> "stopped"
      [] OTHER -> "running"

O == INSTANCE ConversationOutcome WITH
        InputReason <- InputReasons,
        OtherReason <- Reasons \ (InputReasons \cup {"INTERNAL_FAILURE"}),
        Internal <- "INTERNAL_FAILURE",
        NoVerdict <- None,
        worker <- Worker,
        verdict <- told,
        over <- IF pc \in {"closed", "terminated"} THEN pc ELSE "no"

ImplementsOutcome == O!Spec

\* The agent this module assumes is one that AgentRuntime provides: it keeps
\* the contract of AgentPort, which AgentRuntime implements.
P == INSTANCE AgentPort WITH
        agent <- IF agent \in {"cancelled", "closed"} THEN "stopped" ELSE agent

AgentKeepsPort == P!Spec

\* The input this module assumes, of either binding, is one that the sessions
\* provide: it keeps the contract of InputPort for as long as the bridge's
\* receive lasts, and the bridge keeps its own side of it.
IP == INSTANCE InputPort WITH
        Outcomes <- FollowUpEvents, Cancelled <- "ConversationCancelled",
        Failed <- "InputConversationFailed", Closed <- "InputSessionClosed",
        ear <- inputTask,
        queue <- IF inputTask = None THEN None ELSE control,
        gate <- IF inputTask = None THEN "shut"
                ELSE IF pc = "follow_up" THEN "waiting"
                ELSE IF op.kind = "follow_up" THEN "asked" ELSE "shut"

InputKeepsPort == IP!Spec
=============================================================================
