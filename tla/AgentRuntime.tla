---------------------------- MODULE AgentRuntime ----------------------------
(***************************************************************************)
(* ai_server/conversations/agent_runtime.py: one agent conversation, that  *)
(* is, the worker task, the AgentChannel it talks through, the two         *)
(* rendezvous that connect it to the bridge, and the heartbeat task of     *)
(* ai_server/utils/processing.py that reports progress while the worker    *)
(* awaits a model or a tool.                                               *)
(*                                                                         *)
(* A step is the code between two awaits of one task.  The rendezvous are  *)
(* those of module Rendezvous: an offer is queued, or taken although its   *)
(* sender has not resumed yet, and a cancellation that finds its offer     *)
(* taken is dropped.  The bridge appears as far as it calls this module:   *)
(* one operation at a time, cancel() at most once, close() at the end.     *)
(***************************************************************************)
EXTENDS SequencesExt

CONSTANT AgentKinds   \* "plain"; "helped" by a model, with processing updates

ASSUME KindsAssumption == AgentKinds \subseteq {"plain", "helped"}

VARIABLES
    kind,             \* which kind of agent this is
    worker,           \* the await the worker task is suspended at
    event,            \* the event the worker sends
    resume,           \* what the awaitable under a heartbeat came to
    heartbeat,        \* the await of the heartbeat task
    heartbeatCancel,  \* a CancelledError is on its way to it
    phase,            \* AgentChannel._phase
    streamOpen,       \* AgentChannel._stream_open
    workerFailure     \* _worker_failure is set

VARIABLES
    message,          \* the offer in _incoming
    incomingClosed,
    outgoing,         \* the senders whose offers queue in _outgoing
    taken,            \* the senders whose offer was taken, not yet resumed
    outgoingClosed

VARIABLES
    bridge,           \* the call the bridge is in
    heard,            \* what the bridge knows of the conversation
    lost              \* the CancelledError of cancel() or close() was dropped

workerVars == <<worker, event, resume, heartbeat, heartbeatCancel>>
channelVars == <<phase, streamOpen, workerFailure>>
outgoingVars == <<outgoing, taken, outgoingClosed>>
bridgeVars == <<bridge, heard, lost>>
vars == <<kind, workerVars, channelVars, message, incomingClosed, outgoingVars,
          bridgeVars>>

Dispositions == {"EndConversation", "RequestFollowUp"}
Events == Dispositions \cup
    {"ProcessingUpdate", "AssistantMessageStarted", "AssistantTextChunk",
     "AssistantMessageCompleted", "AgentConversationFailed"}

InTurn == {"WAITING_FOR_AGENT", "STREAMING_ASSISTANT",
           "WAITING_FOR_DISPOSITION"}
Senders == {"worker", "heartbeat"}

TypeOK ==
    /\ kind \in AgentKinds
    /\ worker \in {"absent", "starting", "receiving", "thinking", "helped",
                   "joining", "sending", "reporting", "cancelled", "done"}
    /\ event \in Events
    /\ resume \in {"value", "raise", "cancelled"}
    /\ heartbeat \in {"none", "sleeping", "sending", "finished"}
    /\ heartbeatCancel \in BOOLEAN
    /\ phase \in {"WAITING_FOR_INITIAL_INPUT", "ACTIVE",
                  "WAITING_FOR_FOLLOW_UP", "ENDED"}
    /\ streamOpen \in BOOLEAN
    /\ workerFailure \in BOOLEAN
    /\ message \in {"none", "offered", "accepted"}
    /\ incomingClosed \in BOOLEAN
    /\ outgoing \in Seq(Senders)
    /\ taken \subseteq Senders
    /\ outgoingClosed \in BOOLEAN
    /\ bridge \in {"outside", "idle", "delivering", "receiving",
                   "cancelling", "acknowledged", "closing", "left",
                   "terminated"}
    /\ heard \in InTurn \cup {"DELIVERING", "ENDED", "FAILED", "CUT",
                              "BROKEN"}
    /\ lost \in BOOLEAN

Init ==
    /\ kind \in AgentKinds
    /\ worker = "absent"
    /\ event = "ProcessingUpdate"
    /\ resume = "value"
    /\ heartbeat = "none"
    /\ heartbeatCancel = FALSE
    /\ phase = "WAITING_FOR_INITIAL_INPUT"
    /\ streamOpen = FALSE
    /\ workerFailure = FALSE
    /\ message = "none"
    /\ incomingClosed = FALSE
    /\ outgoing = <<>>
    /\ taken = {}
    /\ outgoingClosed = FALSE
    /\ bridge = "outside"
    /\ heard = "DELIVERING"
    /\ lost = FALSE

-----------------------------------------------------------------------------
(* The worker task: _run around run_agent_conversation                     *)

ActiveTurn == phase = "ACTIVE"
WaitingForInput == phase \in {"WAITING_FOR_INITIAL_INPUT",
                              "WAITING_FOR_FOLLOW_UP"}

\* The `finally` clause of _run; queued offers are refused.
Unwind ==
    /\ worker' = "done"
    /\ incomingClosed' = TRUE
    /\ outgoingClosed' = TRUE
    /\ outgoing' = <<>>

\* Seeded fault: a failure is reported only from within a stream.
ReportsInStream == streamOpen

\* The condition under which _run reports a failure to the bridge.
Reports == ActiveTurn

\* An Exception reaches _run.
Raise ==
    /\ workerFailure' = TRUE
    /\ IF Reports
       THEN /\ worker' = "reporting"
            /\ event' = "AgentConversationFailed"
            /\ outgoing' = Append(outgoing, "worker")
            /\ UNCHANGED <<incomingClosed, outgoingClosed>>
       ELSE Unwind /\ UNCHANGED event

\* A task cancelled before its first step never runs.
StopAsked == bridge \in {"cancelling", "closing", "terminated"}

WorkerStarts ==
    /\ worker = "starting"
    /\ worker' = IF StopAsked THEN "done" ELSE "receiving"
    /\ UNCHANGED <<event, resume, heartbeat, heartbeatCancel, channelVars,
                   message, incomingClosed, outgoingVars, bridgeVars>>

\* receive_user_message
WorkerAccepts ==
    /\ worker = "receiving"
    /\ message = "offered"
    /\ message' = "accepted"
    /\ worker' = "thinking"
    /\ phase' = "ACTIVE"
    /\ UNCHANGED <<event, resume, heartbeat, heartbeatCancel, streamOpen,
                   workerFailure, incomingClosed, outgoingVars, bridgeVars>>

\* What AgentChannel lets the worker send.  No agent of this repository
\* opens a second stream in a turn or reports progress after its stream,
\* which the channel would not refuse.
StreamHeard == heard = "WAITING_FOR_DISPOSITION"

MaySend(e) ==
    /\ ActiveTurn
    /\ CASE e \in {"ProcessingUpdate", "AssistantMessageStarted"} ->
                ~streamOpen /\ ~StreamHeard
         [] e \in {"AssistantTextChunk", "AssistantMessageCompleted"} ->
                streamOpen
         [] e \in Dispositions -> ~streamOpen
         [] OTHER -> FALSE

\* Seeded fault: the completion does not clear the flag.
StreamOpenAfterStart(e) == streamOpen \/ e = "AssistantMessageStarted"

StreamOpenAfter(e) ==
    CASE e = "AssistantMessageStarted" -> TRUE
      [] e = "AssistantMessageCompleted" -> FALSE
      [] OTHER -> streamOpen

WorkerSends(e) ==
    /\ worker = "thinking"
    /\ MaySend(e)
    /\ worker' = "sending"
    /\ event' = e
    /\ streamOpen' = StreamOpenAfter(e)
    /\ outgoing' = Append(outgoing, "worker")
    /\ UNCHANGED <<resume, heartbeat, heartbeatCancel, phase, workerFailure,
                   message, incomingClosed, taken, outgoingClosed,
                   bridgeVars>>

\* Seeded fault: the phase does not follow the disposition.
PhaseUnchanged == phase

\* Seeded fault: the disposition is stored where the phase belongs.
PhaseIsDisposition == IF event \in Dispositions THEN event ELSE phase

PhaseAfterSend ==
    CASE event = "EndConversation" -> "ENDED"
      [] event = "RequestFollowUp" -> "WAITING_FOR_FOLLOW_UP"
      [] OTHER -> phase

WorkerSent ==
    /\ worker = "sending"
    /\ "worker" \in taken
    /\ taken' = taken \ {"worker"}
    /\ worker' = "thinking"
    /\ phase' = PhaseAfterSend
    /\ UNCHANGED <<event, resume, heartbeat, heartbeatCancel, streamOpen,
                   workerFailure, message, incomingClosed, outgoing,
                   outgoingClosed, bridgeVars>>

WorkerReported ==
    /\ worker = "reporting"
    /\ "worker" \in taken
    /\ taken' = taken \ {"worker"}
    /\ Unwind
    /\ UNCHANGED <<event, resume, heartbeat, heartbeatCancel, channelVars,
                   message, bridgeVars>>

\* The next turn of a conversation with a follow-up.
WorkerReceives ==
    /\ worker = "thinking"
    /\ WaitingForInput
    /\ worker' = "receiving"
    /\ UNCHANGED <<event, resume, heartbeat, heartbeatCancel, channelVars,
                   message, incomingClosed, outgoingVars, bridgeVars>>

\* run_agent_conversation returns, with the RuntimeError of _run when input
\* was still required, or raises.
WorkerReturns ==
    /\ worker = "thinking"
    /\ workerFailure' = WaitingForInput
    /\ Unwind
    /\ UNCHANGED <<event, resume, heartbeat, heartbeatCancel, phase,
                   streamOpen, message, taken, bridgeVars>>

WorkerRaises ==
    /\ worker = "thinking"
    /\ Raise
    /\ UNCHANGED <<resume, heartbeat, heartbeatCancel, phase, streamOpen,
                   message, taken, bridgeVars>>

\* The CancelledError has passed through what the agent was awaiting, and
\* through the clean-up of each.
WorkerStopped ==
    /\ worker = "cancelled"
    /\ Unwind
    /\ UNCHANGED <<event, resume, heartbeat, heartbeatCancel, channelVars,
                   message, taken, bridgeVars>>

-----------------------------------------------------------------------------
(* await_with_processing_updates                                           *)

HelpStarts ==
    /\ kind = "helped"
    /\ worker = "thinking"
    /\ ActiveTurn
    /\ ~streamOpen /\ ~StreamHeard
    /\ worker' = "helped"
    /\ heartbeat' = "sleeping"
    /\ heartbeatCancel' = FALSE
    /\ UNCHANGED <<event, resume, channelVars, message, incomingClosed,
                   outgoingVars, bridgeVars>>

\* Seeded fault: the heartbeat is cancelled but not awaited.
DoesNotJoin(how) == IF how = "value" THEN "thinking" ELSE "done"

\* `await heartbeat_task` in the `finally` clause.
Joins(how) == "joining"

HelpEnds(how) ==
    /\ worker = "helped"
    /\ resume' = how
    /\ heartbeatCancel' = TRUE
    /\ worker' = Joins(how)
    /\ UNCHANGED <<event, heartbeat, channelVars, message, incomingClosed,
                   outgoingVars, bridgeVars>>

\* The heartbeat is over: what the awaitable came to goes on.  A
\* CancelledError of the await itself is passed over.
Joined ==
    /\ worker = "joining"
    /\ heartbeat = "finished"
    /\ heartbeat' = "none"
    /\ \/ /\ resume = "value"
          /\ worker' = "thinking"
          /\ UNCHANGED <<event, workerFailure, incomingClosed, outgoing,
                         outgoingClosed>>
       \/ resume = "raise" /\ Raise
       \/ /\ resume = "cancelled"
          /\ worker' = "cancelled"
          /\ UNCHANGED <<event, workerFailure, incomingClosed, outgoing,
                         outgoingClosed>>
    /\ UNCHANGED <<resume, heartbeatCancel, phase, streamOpen, message, taken,
                   bridgeVars>>

\* The interval is over and the channel admits an update; otherwise its
\* AssertionError is logged and the heartbeat sleeps on.
HeartbeatBeats ==
    /\ heartbeat = "sleeping"
    /\ ~heartbeatCancel
    /\ ActiveTurn /\ ~streamOpen
    /\ heartbeat' = "sending"
    /\ outgoing' = Append(outgoing, "heartbeat")
    /\ UNCHANGED <<worker, event, resume, heartbeatCancel, channelVars,
                   message, incomingClosed, taken, outgoingClosed,
                   bridgeVars>>

\* send() returns, and drops a cancellation that came after the offer was
\* taken.
HeartbeatSent ==
    /\ heartbeat = "sending"
    /\ "heartbeat" \in taken
    /\ taken' = taken \ {"heartbeat"}
    /\ heartbeat' = "sleeping"
    /\ heartbeatCancel' = FALSE
    /\ UNCHANGED <<worker, event, resume, channelVars, message,
                   incomingClosed, outgoing, outgoingClosed, bridgeVars>>

HeartbeatStops ==
    /\ heartbeatCancel
    /\ \/ heartbeat = "sleeping" /\ UNCHANGED outgoing
       \/ /\ heartbeat = "sending"
          /\ \E k \in DOMAIN outgoing :
                outgoing[k] = "heartbeat" /\ outgoing' = RemoveAt(outgoing, k)
    /\ heartbeat' = "finished"
    /\ heartbeatCancel' = FALSE
    /\ UNCHANGED <<worker, event, resume, channelVars, message,
                   incomingClosed, taken, outgoingClosed, bridgeVars>>

-----------------------------------------------------------------------------
(* The bridge's calls                                                      *)

\* Seeded fault: cancel() closes the input rendezvous and forgets the task.
CancelForgotten == UNCHANGED <<worker, resume, heartbeatCancel, lost>>

\* An await that the CancelledError ends.
PassesOn == worker \in {"receiving", "thinking", "sending", "reporting"}

\* A model race of the agent is over and drains its loser, whose
\* CancelledError cannot be told from the worker's own.
MayDrain == kind = "helped" /\ worker = "thinking" /\ ActiveTurn

\* Task.cancel() on the worker, and its effect at the await it finds.
CancelWorker ==
    \/ /\ worker \in {"starting", "done"}
       /\ UNCHANGED <<worker, resume, heartbeatCancel, lost>>
    \/ /\ PassesOn
       /\ worker' = "cancelled"
       /\ UNCHANGED <<resume, heartbeatCancel, lost>>
    \/ /\ worker = "helped"
       /\ worker' = Joins("cancelled")
       /\ resume' = "cancelled"
       /\ heartbeatCancel' = TRUE
       /\ UNCHANGED lost
    \/ /\ worker = "joining"    \* the await passes it on, and drops it
       /\ heartbeatCancel' = (heartbeat # "finished")
       /\ lost' = TRUE
       /\ UNCHANGED <<worker, resume>>
    \/ /\ MayDrain
       /\ lost' = TRUE
       /\ UNCHANGED <<worker, resume, heartbeatCancel>>

\* __aenter__: start()
Enter ==
    /\ bridge = "outside"
    /\ bridge' = "idle"
    /\ worker' = "starting"
    /\ UNCHANGED <<event, resume, heartbeat, heartbeatCancel, channelVars,
                   message, incomingClosed, outgoingVars, heard, lost>>

\* send_user_message
Deliver ==
    /\ bridge = "idle"
    /\ heard = "DELIVERING"
    /\ IF incomingClosed
       THEN heard' = "CUT" /\ UNCHANGED <<bridge, message>>
       ELSE bridge' = "delivering" /\ message' = "offered" /\ UNCHANGED heard
    /\ UNCHANGED <<workerVars, channelVars, incomingClosed, outgoingVars,
                   lost>>

Delivered ==
    /\ bridge = "delivering"
    /\ bridge' = "idle"
    /\ \/ message = "accepted" /\ heard' = "WAITING_FOR_AGENT"
       \/ message = "offered" /\ incomingClosed /\ heard' = "CUT"
    /\ message' = "none"
    /\ UNCHANGED <<workerVars, channelVars, incomingClosed, outgoingVars,
                   lost>>

\* receive_event
Receive ==
    /\ bridge = "idle"
    /\ heard \in InTurn
    /\ bridge' = "receiving"
    /\ UNCHANGED <<workerVars, channelVars, message, incomingClosed,
                   outgoingVars, heard, lost>>

EventOf(s) == IF s = "worker" THEN event ELSE "ProcessingUpdate"

\* The bridge's state after an event; BROKEN where its state does not admit
\* the event.
HeardAfter(e) ==
    CASE e = "ProcessingUpdate" /\ heard = "WAITING_FOR_AGENT" -> heard
      [] e = "AssistantMessageStarted" /\ heard = "WAITING_FOR_AGENT" ->
            "STREAMING_ASSISTANT"
      [] e = "AssistantTextChunk" /\ heard = "STREAMING_ASSISTANT" -> heard
      [] e = "AssistantMessageCompleted" /\ heard = "STREAMING_ASSISTANT" ->
            "WAITING_FOR_DISPOSITION"
      [] e = "EndConversation" /\ heard # "STREAMING_ASSISTANT" -> "ENDED"
      [] e = "RequestFollowUp" /\ heard # "STREAMING_ASSISTANT" ->
            "DELIVERING"
      [] e = "AgentConversationFailed" -> "FAILED"
      [] OTHER -> "BROKEN"

ReceiveEvent ==
    /\ bridge = "receiving"
    /\ outgoing # <<>>
    /\ outgoing' = Tail(outgoing)
    /\ taken' = taken \cup {Head(outgoing)}
    /\ heard' = HeardAfter(EventOf(Head(outgoing)))
    /\ bridge' = "idle"
    /\ UNCHANGED <<workerVars, channelVars, message, incomingClosed,
                   outgoingClosed, lost>>

ReceiveFindsClosed ==
    /\ bridge = "receiving"
    /\ outgoing = <<>>
    /\ outgoingClosed
    /\ heard' = "CUT"
    /\ bridge' = "idle"
    /\ UNCHANGED <<workerVars, channelVars, message, incomingClosed,
                   outgoingVars, lost>>

\* By the time the bridge can call cancel() or close() the sender whose offer
\* it took last has resumed: the sender needs two turns of the event loop,
\* the bridge, which waits for its own receive task first, more.
SenderResumed == taken = {}

\* A terminal input event: the operation is cancelled, then cancel().
Cancel ==
    /\ bridge \in {"idle", "delivering", "receiving"}
    /\ SenderResumed
    /\ bridge' = "cancelling"
    /\ message' = IF message = "offered" THEN "none" ELSE message
    /\ incomingClosed' = TRUE
    /\ CancelWorker
    /\ UNCHANGED <<event, heartbeat, channelVars, outgoingVars, heard>>

Acknowledged ==
    /\ bridge = "cancelling"
    /\ worker = "done"
    /\ bridge' = "acknowledged"
    /\ UNCHANGED <<workerVars, channelVars, message, incomingClosed,
                   outgoingVars, heard, lost>>

\* __aexit__: close()
Close ==
    /\ bridge \in {"idle", "acknowledged"}
    /\ SenderResumed
    /\ bridge' = "closing"
    /\ CancelWorker
    /\ UNCHANGED <<event, heartbeat, channelVars, message, incomingClosed,
                   outgoingVars, heard>>

Closed ==
    /\ bridge = "closing"
    /\ worker = "done"
    /\ bridge' = "left"
    /\ incomingClosed' = TRUE
    /\ outgoingClosed' = TRUE
    /\ outgoing' = <<>>
    /\ UNCHANGED <<workerVars, channelVars, message, taken, heard, lost>>

\* A task that is being cancelled, or joins a cancelled heartbeat, resumes
\* by itself, and the deadline is long for that; it is real time for a worker
\* that goes on.
StopsByItself == ~lost /\ worker \in {"starting", "joining", "cancelled"}

\* The bridge's deadline for cancel() and close(), after which the process
\* ends.
DeadlineExpired ==
    /\ bridge \in {"cancelling", "closing"}
    /\ worker # "done"
    /\ ~StopsByItself
    /\ bridge' = "terminated"
    /\ UNCHANGED <<workerVars, channelVars, message, incomingClosed,
                   outgoingVars, heard, lost>>

-----------------------------------------------------------------------------

WorkerResumes ==
    \/ WorkerStarts \/ WorkerAccepts \/ WorkerSent \/ WorkerReported \/ Joined
    \/ WorkerStopped

WorkerDecides ==
    \/ \E e \in Events : WorkerSends(e)
    \/ WorkerReceives \/ WorkerReturns \/ WorkerRaises
    \/ HelpStarts
    \/ \E how \in {"value", "raise"} : HelpEnds(how)

HeartbeatResumes == HeartbeatSent \/ HeartbeatStops

BridgeResumes ==
    Delivered \/ ReceiveEvent \/ ReceiveFindsClosed \/ Acknowledged \/ Closed

BridgeCalls == Enter \/ Deliver \/ Receive \/ Cancel \/ Close

Over == bridge \in {"left", "terminated"} /\ UNCHANGED vars

Next ==
    \/ /\ \/ WorkerResumes \/ WorkerDecides
          \/ HeartbeatBeats \/ HeartbeatResumes
          \/ BridgeResumes \/ BridgeCalls \/ DeadlineExpired
       /\ UNCHANGED kind
    \/ Over

Spec == Init /\ [][Next]_vars

\* The event loop resumes every task whose await is over, and time passes.
\* What the worker awaits of its own need not come, but ends when cancelled;
\* the bridge need not call.
FairSpec ==
    /\ Spec
    /\ WF_vars(WorkerResumes /\ UNCHANGED kind)
    /\ WF_vars(HeartbeatResumes /\ UNCHANGED kind)
    /\ WF_vars(BridgeResumes /\ UNCHANGED kind)
    /\ WF_vars(DeadlineExpired /\ UNCHANGED kind)

-----------------------------------------------------------------------------
(* Properties                                                              *)

\* Every event reaches the bridge in a state that admits it, although the
\* heartbeat sends into the same rendezvous as the worker: the join in
\* await_with_processing_updates keeps its updates out of the stream.
EventsAdmitted == heard # "BROKEN"

\* cancel() and close() return only when nothing of the conversation runs.
QuietWhenStopped ==
    bridge \in {"acknowledged", "left"} =>
        worker = "done" /\ heartbeat \in {"none", "finished"}

\* A worker that raises in a turn is heard as AgentConversationFailed, never
\* as a rendezvous that merely closed.
FailureIsReported ==
    heard = "CUT" /\ workerFailure => phase # "ACTIVE"

\* Between two events the channel and the bridge agree on where in the turn
\* the conversation is.
ChannelAgreesWithBridge ==
    worker = "thinking" /\ bridge \in {"idle", "receiving"} /\ heard # "CUT"
            /\ message # "accepted" =>
        /\ streamOpen <=> heard = "STREAMING_ASSISTANT"
        /\ ActiveTurn <=> heard \in InTurn
        /\ WaitingForInput <=> heard = "DELIVERING"

\* cancel() and close() return, with and without a heartbeat, wherever they
\* meet the worker - unless the CancelledError was dropped in one of two
\* places, and even then the bridge does not wait for ever.
StopIsAcknowledged ==
    (bridge \in {"cancelling", "closing"})
        ~> (\/ bridge \in {"acknowledged", "left"}
            \/ bridge = "terminated" /\ lost)

\* cancel() "returns AgentCancellationAcknowledged after all owned work is
\* quiescent" (docs/ai-server-conversation-protocol.md:142), so that no
\* deadline is missed and the process goes on.  For an agent that a model
\* helps it may be missed: await_with_processing_updates' join drops the
\* CancelledError, and so does the drain of a model race's loser.
DeadlineKept == bridge # "terminated"

\* The agent the bridge sees keeps the contract of AgentPort.
Agent ==
    IF bridge = "outside" THEN "absent"
    ELSE IF worker = "done" /\ bridge \in {"cancelling", "acknowledged",
                                           "closing", "left"} THEN "stopped"
    ELSE IF heard = "ENDED" THEN "ended"
    ELSE IF worker = "done" \/ heard \in {"FAILED", "CUT"} THEN "dead"
    ELSE IF \/ worker = "reporting"
            \/ worker = "cancelled" /\ workerFailure THEN "failing"
    ELSE CASE heard = "WAITING_FOR_AGENT" -> "active"
           [] heard = "STREAMING_ASSISTANT" -> "streaming"
           [] heard = "WAITING_FOR_DISPOSITION" -> "streamed"
           [] heard = "DELIVERING" /\ message = "accepted" -> "active"
           [] OTHER -> "waiting"

P == INSTANCE AgentPort WITH agent <- Agent

ImplementsPort == P!Spec
=============================================================================
