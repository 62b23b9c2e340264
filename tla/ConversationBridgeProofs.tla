---------------------- MODULE ConversationBridgeProofs ----------------------
(***************************************************************************)
(* Proofs about the conversation bridge, for any bindings and any faults.   *)
(***************************************************************************)
EXTENDS ConversationBridge, TLAPS

RaceKinds == SinkKinds \cup {"enter", "deliver", "receive", "follow_up"}

\* The await, the operation the bridge owns there, and the scope of the agent.
PhaseInv ==
    /\ pc \in {"run", "follow_up", "fatal", "closed", "terminated"} => op = NoOp
    /\ pc = "race" => op.kind \in RaceKinds /\ inputTask # None
    /\ pc = "settle" => op.kind = raced /\ raced \in RaceKinds /\ inputTask = None
    /\ pc \in {"race", "settle"} => (op.kind = "enter" <=> ~scoped)
    /\ pc = "cancel" => op.kind = "cancel" /\ scoped
    /\ pc = "abort" => op.kind = "abort" /\ scoped
    /\ pc = "end" => op.kind = "end" /\ op.result # "error"
    /\ pc = "exit" => op.kind = "exit" /\ scoped
    /\ pc = "follow_up" => scoped /\ inputTask # None
    /\ pc = "run" => ~scoped /\ inputTask = None

\* The state of the turn fits the operation that is raced in it.
TurnInv ==
    /\ pc = "run" => state = "STARTING"
    /\ pc \in {"race", "settle"} =>
        CASE op.kind = "enter" -> state = "STARTING"
          [] op.kind = "deliver" -> state = "DELIVERING_USER_MESSAGE"
          [] op.kind = "receive" -> state \in {"WAITING_FOR_AGENT", "STREAMING_ASSISTANT",
                                               "WAITING_FOR_DISPOSITION"}
          [] op.kind \in {"processing", "start"} -> state = "WAITING_FOR_AGENT"
          [] op.kind \in {"text", "complete"} -> state = "STREAMING_ASSISTANT"
          [] OTHER -> state = "COMMITTING_FOLLOW_UP"
    /\ pc = "follow_up" => state = "WAITING_FOR_FOLLOW_UP"

\* What has been decided, and told.
Early == {"run", "race", "settle", "cancel", "abort", "follow_up"}

VerdictInv ==
    /\ pc \in Early => told = None /\ failure = None
    /\ pc \in {"end", "closed"} => told # None /\ failure = None
    /\ pc = "exit" => failure # None \/ told # None
    /\ pc = "fatal" => failure # None
    /\ pc = "terminated" => failure # None
    /\ told \notin {None, "INTERNAL_FAILURE"} => told = reason
    /\ told = "INTERNAL_FAILURE" => pc = "terminated"
    /\ reason # "INTERNAL_FAILURE"
    /\ pc \in {"settle", "cancel"} => reason \in InputReasons
    /\ pc \in {"abort", "end"} => reason # None
    /\ pc = "closed" => inputTask = None

\* The flags agree with the sink, except for an operation that has just changed it.
FlagsAgree ==
    /\ sinkStarted <=> sink \in {"open", "completed"}
    /\ sinkCompleted <=> sink = "completed"

SinkInv ==
    /\ pc = "run" => sink = "not_started"
    /\ pc \in {"run", "follow_up"} => FlagsAgree /\ sink # "open"
    /\ pc \in {"race", "settle"} =>
        /\ op.kind = "enter" => sink = "not_started"
        /\ StreamOpen <=> state = "STREAMING_ASSISTANT"
        /\ CASE op.kind = "start" /\ op.result = "ok" ->
                    sink = "open" /\ ~sinkStarted /\ ~sinkCompleted
             [] op.kind = "complete" /\ op.result = "ok" ->
                    sink = "completed" /\ sinkStarted /\ ~sinkCompleted
             [] OTHER -> FlagsAgree
    /\ pc = "cancel" => raced \in SinkKinds \/ FlagsAgree
    /\ pc = "abort" /\ op.result = "ok" => sink # "open"
    /\ pc \in {"end", "exit", "closed"} /\ failure = None => sink # "open"

\* Where the worker is when the bridge is where it is.
Stopped == agent \in {"cancelled", "closed"}

AgentInv ==
    /\ pc = "run" => agent = "absent"
    /\ scoped => agent # "absent"
    /\ pc \in {"race", "settle"} /\ op.kind = "enter" =>
            (agent = "absent" <=> op.result # "ok")
    /\ pc \in {"end", "closed"} /\ ~scoped => agent = "absent"
    /\ pc \in {"run", "race", "settle", "follow_up"} => ~Stopped
    /\ pc = "cancel" /\ op.result = "ok" => agent = "cancelled"
    /\ pc \in {"abort", "end"} /\ reason \in InputReasons => agent \in {"absent", "cancelled"}
    /\ pc = "closed" => agent \in {"absent", "closed"}
    /\ pc = "exit" /\ op.result = "ok" => agent = "closed"
    /\ told \in InputReasons => agent = "absent" \/ Stopped

\* The worker is cancelled for what the input side decided, and for nothing else.
CancelInv ==
    /\ pc \in {"run", "race", "settle", "follow_up"} => cancelReason = None
    /\ pc \in {"cancel", "abort", "end"} =>
            cancelReason = IF reason \in InputReasons /\ scoped THEN AgentReason(reason) ELSE None
    /\ told \notin {None, "INTERNAL_FAILURE"} =>
            cancelReason = IF reason \in InputReasons /\ agent # "absent"
                           THEN AgentReason(reason) ELSE None

\* The worker's phase fits the state of the turn and the event on its way.
PhaseOf(s) ==
    CASE s = "WAITING_FOR_AGENT" -> "active"
      [] s = "STREAMING_ASSISTANT" -> "streaming"
      [] OTHER -> "streamed"

Ahead == {"failing", "dead"}

AdmitInv ==
    /\ pc \in {"race", "settle"} =>
        CASE op.kind = "enter" -> op.result = "ok" => agent \in Ahead \cup {"waiting"}
          [] op.kind = "deliver" ->
                agent \in Ahead \cup {IF op.result = "ok" THEN "active" ELSE "waiting"}
          [] op.kind = "receive" ->
                CASE op.result = "ProcessingUpdate" ->
                        state = "WAITING_FOR_AGENT" /\ agent \in Ahead \cup {"active"}
                  [] op.result = "AssistantMessageStarted" ->
                        state = "WAITING_FOR_AGENT" /\ agent \in Ahead \cup {"streaming"}
                  [] op.result = "AssistantTextChunk" ->
                        state = "STREAMING_ASSISTANT" /\ agent \in Ahead \cup {"streaming"}
                  [] op.result = "AssistantMessageCompleted" ->
                        state = "STREAMING_ASSISTANT" /\ agent \in Ahead \cup {"streamed"}
                  [] op.result \in {"EndConversation", "RequestFollowUp"} ->
                        /\ state # "STREAMING_ASSISTANT"
                        /\ agent \in Ahead \cup {IF op.result = "EndConversation"
                                                 THEN "ended" ELSE "waiting"}
                  [] OTHER -> agent \in Ahead \cup {PhaseOf(state)}
          [] op.kind = "processing" -> agent \in Ahead \cup {"active"}
          [] op.kind \in {"start", "text"} -> agent \in Ahead \cup {"streaming"}
          [] op.kind = "complete" -> agent \in Ahead \cup {"streamed"}
          [] OTHER -> agent \in Ahead \cup {"waiting"}
    /\ pc = "follow_up" => agent \in Ahead \cup {"waiting"}
    /\ failure # "agent_protocol"

\* The user's answer is on its way only while the bridge waits for it.
AnswerInv ==
    /\ pc = "run" => followUp = None /\ control \notin FollowUpEvents
    /\ followUp = "awaiting" => pc = "follow_up" \/ inputTask = None
    /\ inputTask \in FollowUpEvents \/ (inputTask = "pending" /\ control \in FollowUpEvents)
            => pc = "follow_up" /\ followUp # "awaiting"
    /\ inputTask \in FollowUpEvents => control \notin FollowUpEvents
    /\ failure # "input_protocol"

\* What leads to a fatal situation.
CauseInv ==
    /\ op.kind = "abort" /\ op.result = "closed" =>
            medium = "TEXT" /\ session = "lost" /\ sink = "open"
    /\ pc \in {"run", "race", "settle", "cancel", "follow_up"} => sink # "aborted"
    /\ pc = "race" /\ op.kind \in SinkKinds /\ op.result \in {"error", "terminated"} =>
            op.result = "error" /\ sink = "completed"
    /\ medium = "VOICE" /\ followUp = "committing" =>
            /\ pc \notin {"run", "follow_up"}
            /\ pc = "race" => op.kind = "follow_up" /\ op.result = "ok"
    /\ pc = "race" /\ op.kind = "follow_up" /\ op.result = "error" =>
            InputReady \/ (medium = "VOICE" /\ followUp = "spent")

\* No step takes the situation away that sent the bridge to _fatal.
SituationInv ==
    /\ OnlyKnownFatalities
    /\ failure = "acknowledge" => inputTask # None

BridgeInv ==
    TypeOK /\ PhaseInv /\ TurnInv /\ VerdictInv /\ SinkInv /\ AgentInv /\ CancelInv /\ AdmitInv
        /\ AnswerInv

-----------------------------------------------------------------------------
(* Typing                                                                  *)

\* Every step of the bridge, of the agent and of the input conversation
\* keeps the types.
LEMMA TypeStep ==
  ASSUME TypeOK, [Next]_vars
  PROVE  TypeOK'
<1> USE ConstantAssumption DEF TypeOK, bridgeVars, flags, inputSide, inputVars,
        agentVars, InputEvents, TerminalEvents, FollowUpEvents, Kinds,
        SinkKinds, Results, AgentEvents, Reasons, InputReasons, States, PCs,
        Failures, NoOp, Running, None
<1>1. ASSUME Run, medium' = medium  PROVE  TypeOK'
  BY <1>1 DEF Run, Race, Finish, Raise
<1>2. ASSUME Entered, medium' = medium  PROVE  TypeOK'
  <2>1. CASE scoped' = TRUE /\ state' = "DELIVERING_USER_MESSAGE" /\ Race("deliver")
    BY <1>2, <2>1 DEF Entered, Race
  <2>2. CASE scoped' = scoped /\ state' = "ENDING" /\ Finish("AGENT_FAILED")
    BY <1>2, <2>2 DEF Entered, Finish
  <2> QED  BY <1>2, <2>1, <2>2 DEF Entered
<1>3. ASSUME InputInterrupts, medium' = medium  PROVE  TypeOK'
  BY <1>3
  DEF InputInterrupts, InputWins, FailureWins, InputReady, Raise,
      EndedFromInput
<1>4. ASSUME Settled, medium' = medium  PROVE  TypeOK'
  BY <1>4 DEF Settled, Done, CancelAgent, AgentReason, Finish
<1>5. ASSUME AgentCancelled, medium' = medium  PROVE  TypeOK'
  BY <1>5 DEF AgentCancelled, AbortSink, Finish, StreamOpen
<1>6. ASSUME SinkAborted, medium' = medium  PROVE  TypeOK'
  BY <1>6 DEF SinkAborted, Finish, Raise
<1>7. ASSUME Delivered, medium' = medium  PROVE  TypeOK'
  BY <1>7
  DEF Delivered, OperationWins, FailureWins, Done, InputReady, Race, Finish
<1>8. ASSUME ProcessingUpdate, medium' = medium  PROVE  TypeOK'
  BY <1>8
  DEF ProcessingUpdate, AgentEvent, Admits, OperationWins, FailureWins, Done,
      InputReady, Race, Raise
<1>9. ASSUME AssistantMessageStarted, medium' = medium  PROVE  TypeOK'
  BY <1>9
  DEF AssistantMessageStarted, AgentEvent, Admits, OperationWins, FailureWins,
      Done, InputReady, Race, Raise
<1>10. ASSUME AssistantTextChunk, medium' = medium  PROVE  TypeOK'
  BY <1>10
  DEF AssistantTextChunk, AgentEvent, Admits, OperationWins, FailureWins, Done,
      InputReady, Race, Raise
<1>11. ASSUME AssistantMessageCompleted, medium' = medium  PROVE  TypeOK'
  BY <1>11
  DEF AssistantMessageCompleted, AgentEvent, Admits, OperationWins,
      FailureWins, Done, InputReady, Race, Raise
<1>12. ASSUME AgentEnds, medium' = medium  PROVE  TypeOK'
  BY <1>12
  DEF AgentEnds, AgentEvent, AgentFailed, StreamOpen, AbortSink, Finish,
      OperationWins, FailureWins, Done, InputReady
<1>13. ASSUME TurnDisposition("EndConversation"), medium' = medium  PROVE  TypeOK'
  BY <1>13
  DEF TurnDisposition, AgentEvent, OperationWins, FailureWins, Done,
      InputReady, Race, Raise, Finish
<1>14. ASSUME TurnDisposition("RequestFollowUp"), medium' = medium  PROVE  TypeOK'
  BY <1>14
  DEF TurnDisposition, AgentEvent, OperationWins, FailureWins, Done,
      InputReady, Race, Raise, Finish
<1>15. ASSUME SinkAccepted, medium' = medium  PROVE  TypeOK'
  BY <1>15
  DEF SinkAccepted, OperationWins, FailureWins, Done, InputReady, Race,
      StreamOpen
<1>16. ASSUME SinkFailed, medium' = medium  PROVE  TypeOK'
  BY <1>16
  DEF SinkFailed, OperationWins, FailureWins, Done, InputReady, CancelAgent,
      AgentReason, Fatal
<1>17. ASSUME FollowUpCommitted, medium' = medium  PROVE  TypeOK'
  BY <1>17
  DEF FollowUpCommitted, OperationWins, FailureWins, Done, InputReady, Raise
<1>18. ASSUME FollowUpRefused, medium' = medium  PROVE  TypeOK'
  BY <1>18
  DEF FollowUpRefused, OperationWins, FailureWins, Done, InputReady,
      CancelAgent, AgentReason, Fatal
<1>19. ASSUME FollowUpArrived, medium' = medium  PROVE  TypeOK'
  BY <1>19
  DEF FollowUpArrived, InputReady, Race, CancelAgent, AgentReason,
      EndedFromInput
<1>20. ASSUME Ended, medium' = medium  PROVE  TypeOK'
  BY <1>20 DEF Ended, Done, Raise
<1>21. ASSUME ScopeExited, medium' = medium  PROVE  TypeOK'
  BY <1>21 DEF ScopeExited
<1>22. ASSUME DeadlineExpired, medium' = medium  PROVE  TypeOK'
  BY <1>22 DEF DeadlineExpired, Done, Fatal, InputReady
<1>23. ASSUME FatalNotified, medium' = medium  PROVE  TypeOK'
  BY <1>23 DEF FatalNotified, StreamOpen
<1>24. ASSUME Enter, medium' = medium  PROVE  TypeOK'
  BY <1>24 DEF Enter, InFlight, OpResult, OpOnly
<1>25. ASSUME AcceptMessage, medium' = medium  PROVE  TypeOK'
  BY <1>25 DEF AcceptMessage, InFlight, OpResult, OpOnly
<1>26. ASSUME EmitEvent, medium' = medium  PROVE  TypeOK'
  BY <1>26 DEF EmitEvent, Handover, InFlight, OpResult, OpOnly
<1>27. ASSUME WorkerStops, medium' = medium  PROVE  TypeOK'
  BY <1>27 DEF WorkerStops
<1>28. ASSUME WorkerCancelled, medium' = medium  PROVE  TypeOK'
  BY <1>28 DEF WorkerCancelled, InFlight, OpResult, OpOnly
<1>29. ASSUME OutputSucceeds, medium' = medium  PROVE  TypeOK'
  BY <1>29
  DEF OutputSucceeds, InFlight, OutputKinds, SinkAdmits, SinkAfter, UsesDevice,
      OpResult, InputOnly, OpOnly
<1>30. ASSUME OutputRefused, medium' = medium  PROVE  TypeOK'
  BY <1>30
  DEF OutputRefused, InFlight, OutputKinds, SinkAdmits, OpResult, InputOnly,
      OpOnly
<1>31. ASSUME DeviceLost, medium' = medium  PROVE  TypeOK'
  BY <1>31
  DEF DeviceLost, InFlight, UsesDevice, SinkAdmits, OpResult, InputOnly, OpOnly
<1>32. ASSUME InputFails, medium' = medium  PROVE  TypeOK'
  BY <1>32 DEF InputFails, InFlight, SinkAdmits, OpResult, InputOnly, OpOnly
<1>33. ASSUME FollowUpHandoff, medium' = medium  PROVE  TypeOK'
  BY <1>33 DEF FollowUpHandoff, InFlight, OpResult, InputOnly, OpOnly
<1>34. ASSUME FollowUpSent, medium' = medium  PROVE  TypeOK'
  BY <1>34 DEF FollowUpSent, InFlight, OpResult, InputOnly, OpOnly
<1>35. ASSUME FollowUpAsserts, medium' = medium  PROVE  TypeOK'
  BY <1>35 DEF FollowUpAsserts, InFlight, OpResult
<1>36. ASSUME OperationCancelled, medium' = medium  PROVE  TypeOK'
  BY <1>36 DEF OperationCancelled, OpResult, InputOnly, OpOnly
<1>37. ASSUME ReceiveControl, medium' = medium  PROVE  TypeOK'
  BY <1>37 DEF ReceiveControl
<1>38. ASSUME ClientCancels, medium' = medium  PROVE  TypeOK'
  BY <1>38 DEF ClientCancels, Open
<1>39. ASSUME \E o \in FollowUpEvents : UserDecides(o), medium' = medium  PROVE  TypeOK'
  BY <1>39 DEF UserDecides, Open
<1>40. ASSUME CollectorReleases, medium' = medium  PROVE  TypeOK'
  BY <1>40 DEF CollectorReleases, Open
<1>41. ASSUME CollectorFails, medium' = medium  PROVE  TypeOK'
  BY <1>41 DEF CollectorFails, Open
<1>42. ASSUME \E how \in {"closing", "lost"} : SessionCloses(how), medium' = medium  PROVE  TypeOK'
  BY <1>42 DEF SessionCloses, Open
<1>43. CASE UNCHANGED vars
  BY <1>43 DEF vars
<1> QED
  BY <1>1, <1>2, <1>3, <1>4, <1>5, <1>6, <1>7, <1>8, <1>9, <1>10, <1>11, <1>12,
     <1>13, <1>14, <1>15, <1>16, <1>17, <1>18, <1>19, <1>20, <1>21, <1>22,
     <1>23, <1>24, <1>25, <1>26, <1>27, <1>28, <1>29, <1>30, <1>31, <1>32,
     <1>33, <1>34, <1>35, <1>36, <1>37, <1>38, <1>39, <1>40, <1>41, <1>42,
        <1>43 DEF Next, BridgeStep, AgentStep, InputStep, Over

-----------------------------------------------------------------------------
\* The steps of the bridge itself.
LEMMA BridgeKeepsInv ==
  ASSUME BridgeInv, TypeOK', BridgeStep, medium' = medium
  PROVE  BridgeInv'
<1> USE ConstantAssumption DEF BridgeInv, TypeOK, RaceKinds, PhaseInv, TurnInv,
        Early, VerdictInv, FlagsAgree, SinkInv, Stopped, AgentInv, CancelInv,
        PhaseOf, Ahead, AdmitInv, AnswerInv, StreamOpen, AgentReason,
        bridgeVars, flags, inputSide, inputVars, agentVars, InputEvents,
        TerminalEvents, FollowUpEvents, Kinds, SinkKinds, Results, AgentEvents,
        Reasons, InputReasons, States, PCs, Failures, NoOp, Running, None
<1>1. ASSUME Run, medium' = medium  PROVE  BridgeInv'
  BY <1>1 DEF Run, Race, Finish, Raise
<1>2. ASSUME Entered, medium' = medium  PROVE  BridgeInv'
  BY <1>2 DEF Entered, OperationWins, FailureWins, Done, Race, Finish
<1>3. ASSUME InputInterrupts, medium' = medium  PROVE  BridgeInv'
  BY <1>3
  DEF InputInterrupts, InputWins, FailureWins, InputReady, Raise,
      EndedFromInput
<1>4. ASSUME Settled, medium' = medium  PROVE  BridgeInv'
  <2> USE <1>4 DEF Settled, Done
  <2>1. CASE scoped \/ (raced = "enter" /\ op.result = "ok")
    <3>1. scoped' /\ CancelAgent(reason) /\ state' = state
      BY <2>1
    <3> QED  BY <2>1, <3>1 DEF CancelAgent
  <2>2. CASE ~(scoped \/ (raced = "enter" /\ op.result = "ok"))
    <3>1. ~scoped' /\ Finish(reason) /\ state' = "ENDING"
      BY <2>2
    <3>2. ~scoped /\ op.kind = "enter" /\ agent = "absent"
      BY <2>2
    <3> QED  BY <3>1, <3>2 DEF Finish
  <2> QED  BY <2>1, <2>2
<1>5. ASSUME AgentCancelled, medium' = medium  PROVE  BridgeInv'
  BY <1>5 DEF AgentCancelled, AbortSink, Finish, StreamOpen
<1>6. ASSUME SinkAborted, medium' = medium  PROVE  BridgeInv'
  BY <1>6 DEF SinkAborted, Finish, Raise
<1>7. ASSUME Delivered, medium' = medium  PROVE  BridgeInv'
  BY <1>7
  DEF Delivered, OperationWins, FailureWins, Done, InputReady, Race, Finish
<1>8. ASSUME ProcessingUpdate, medium' = medium  PROVE  BridgeInv'
  BY <1>8
  DEF ProcessingUpdate, AgentEvent, Admits, OperationWins, FailureWins, Done,
      InputReady, Race, Raise
<1>9. ASSUME AssistantMessageStarted, medium' = medium  PROVE  BridgeInv'
  BY <1>9
  DEF AssistantMessageStarted, AgentEvent, Admits, OperationWins, FailureWins,
      Done, InputReady, Race, Raise
<1>10. ASSUME AssistantTextChunk, medium' = medium  PROVE  BridgeInv'
  BY <1>10
  DEF AssistantTextChunk, AgentEvent, Admits, OperationWins, FailureWins, Done,
      InputReady, Race, Raise
<1>11. ASSUME AssistantMessageCompleted, medium' = medium  PROVE  BridgeInv'
  BY <1>11
  DEF AssistantMessageCompleted, AgentEvent, Admits, OperationWins,
      FailureWins, Done, InputReady, Race, Raise
<1>12. ASSUME AgentEnds, medium' = medium  PROVE  BridgeInv'
  BY <1>12
  DEF AgentEnds, AgentEvent, AgentFailed, StreamOpen, AbortSink, Finish,
      OperationWins, FailureWins, Done, InputReady
<1>13. ASSUME TurnDisposition("EndConversation"), medium' = medium  PROVE  BridgeInv'
  BY <1>13
  DEF TurnDisposition, AgentEvent, OperationWins, FailureWins, Done,
      InputReady, Race, Raise, Finish
<1>14. ASSUME TurnDisposition("RequestFollowUp"), medium' = medium  PROVE  BridgeInv'
  BY <1>14
  DEF TurnDisposition, AgentEvent, OperationWins, FailureWins, Done,
      InputReady, Race, Raise, Finish
<1>15. ASSUME SinkAccepted, medium' = medium  PROVE  BridgeInv'
  BY <1>15
  DEF SinkAccepted, OperationWins, FailureWins, Done, InputReady, Race,
      StreamOpen
<1>16. ASSUME SinkFailed, medium' = medium  PROVE  BridgeInv'
  BY <1>16
  DEF SinkFailed, OperationWins, FailureWins, Done, InputReady, CancelAgent,
      AgentReason, Fatal
<1>17. ASSUME FollowUpCommitted, medium' = medium  PROVE  BridgeInv'
  BY <1>17
  DEF FollowUpCommitted, OperationWins, FailureWins, Done, InputReady, Raise
<1>18. ASSUME FollowUpRefused, medium' = medium  PROVE  BridgeInv'
  BY <1>18
  DEF FollowUpRefused, OperationWins, FailureWins, Done, InputReady,
      CancelAgent, AgentReason, Fatal
<1>19. ASSUME FollowUpArrived, medium' = medium  PROVE  BridgeInv'
  BY <1>19
  DEF FollowUpArrived, InputReady, Race, CancelAgent, AgentReason,
      EndedFromInput
<1>20. ASSUME Ended, medium' = medium  PROVE  BridgeInv'
  BY <1>20 DEF Ended, Done, Raise
<1>21. ASSUME ScopeExited, medium' = medium  PROVE  BridgeInv'
  BY <1>21 DEF ScopeExited
<1>22. ASSUME DeadlineExpired, medium' = medium  PROVE  BridgeInv'
  BY <1>22 DEF DeadlineExpired, Done, Fatal, InputReady
<1>23. ASSUME FatalNotified, medium' = medium  PROVE  BridgeInv'
  BY <1>23 DEF FatalNotified, StreamOpen
<1> QED
  BY <1>1, <1>2, <1>3, <1>4, <1>5, <1>6, <1>7, <1>8, <1>9, <1>10, <1>11, <1>12,
     <1>13, <1>14, <1>15, <1>16, <1>17, <1>18, <1>19, <1>20, <1>21, <1>22,
        <1>23 DEF BridgeStep

-----------------------------------------------------------------------------
\* The steps of the worker.
LEMMA AgentKeepsInv ==
  ASSUME BridgeInv, TypeOK', AgentStep, medium' = medium
  PROVE  BridgeInv'
<1> USE ConstantAssumption DEF BridgeInv, TypeOK, RaceKinds, PhaseInv, TurnInv,
        Early, VerdictInv, FlagsAgree, SinkInv, Stopped, AgentInv, CancelInv,
        PhaseOf, Ahead, AdmitInv, AnswerInv, StreamOpen, AgentReason,
        bridgeVars, flags, inputSide, inputVars, agentVars, InputEvents,
        TerminalEvents, FollowUpEvents, Kinds, SinkKinds, Results, AgentEvents,
        Reasons, InputReasons, States, PCs, Failures, NoOp, Running, None
<1>1. ASSUME Enter, medium' = medium  PROVE  BridgeInv'
  BY <1>1 DEF Enter, InFlight, OpResult, OpOnly
<1>2. ASSUME AcceptMessage, medium' = medium  PROVE  BridgeInv'
  BY <1>2 DEF AcceptMessage, InFlight, OpResult, OpOnly
<1>3. ASSUME EmitEvent, medium' = medium  PROVE  BridgeInv'
  BY <1>3 DEF EmitEvent, Handover, InFlight, OpResult, OpOnly
<1>4. ASSUME WorkerStops, medium' = medium  PROVE  BridgeInv'
  BY <1>4 DEF WorkerStops
<1>5. ASSUME WorkerCancelled, medium' = medium  PROVE  BridgeInv'
  BY <1>5 DEF WorkerCancelled, InFlight, OpResult, OpOnly
<1> QED
  BY <1>1, <1>2, <1>3, <1>4, <1>5 DEF AgentStep

-----------------------------------------------------------------------------
\* The steps of the input conversation.
LEMMA InputKeepsInv ==
  ASSUME BridgeInv, TypeOK', InputStep, medium' = medium
  PROVE  BridgeInv'
<1> USE ConstantAssumption DEF BridgeInv, TypeOK, RaceKinds, PhaseInv, TurnInv,
        Early, VerdictInv, FlagsAgree, SinkInv, Stopped, AgentInv, CancelInv,
        PhaseOf, Ahead, AdmitInv, AnswerInv, StreamOpen, AgentReason,
        bridgeVars, flags, inputSide, inputVars, agentVars, InputEvents,
        TerminalEvents, FollowUpEvents, Kinds, SinkKinds, Results, AgentEvents,
        Reasons, InputReasons, States, PCs, Failures, NoOp, Running, None
<1>1. ASSUME OutputSucceeds, medium' = medium  PROVE  BridgeInv'
  BY <1>1
  DEF OutputSucceeds, InFlight, OutputKinds, SinkAdmits, SinkAfter, UsesDevice,
      OpResult, InputOnly, OpOnly
<1>2. ASSUME OutputRefused, medium' = medium  PROVE  BridgeInv'
  BY <1>2
  DEF OutputRefused, InFlight, OutputKinds, SinkAdmits, OpResult, InputOnly,
      OpOnly
<1>3. ASSUME DeviceLost, medium' = medium  PROVE  BridgeInv'
  BY <1>3
  DEF DeviceLost, InFlight, UsesDevice, SinkAdmits, OpResult, InputOnly, OpOnly
<1>4. ASSUME InputFails, medium' = medium  PROVE  BridgeInv'
  BY <1>4 DEF InputFails, InFlight, SinkAdmits, OpResult, InputOnly, OpOnly
<1>5. ASSUME FollowUpHandoff, medium' = medium  PROVE  BridgeInv'
  BY <1>5 DEF FollowUpHandoff, InFlight, OpResult, InputOnly, OpOnly
<1>6. ASSUME FollowUpSent, medium' = medium  PROVE  BridgeInv'
  BY <1>6 DEF FollowUpSent, InFlight, OpResult, InputOnly, OpOnly
<1>7. ASSUME FollowUpAsserts, medium' = medium  PROVE  BridgeInv'
  BY <1>7 DEF FollowUpAsserts, InFlight, OpResult
<1>8. ASSUME OperationCancelled, medium' = medium  PROVE  BridgeInv'
  BY <1>8 DEF OperationCancelled, OpResult, InputOnly, OpOnly
<1>9. ASSUME ReceiveControl, medium' = medium  PROVE  BridgeInv'
  BY <1>9 DEF ReceiveControl
<1>10. ASSUME ClientCancels, medium' = medium  PROVE  BridgeInv'
  BY <1>10 DEF ClientCancels, Open
<1>11. ASSUME \E o \in FollowUpEvents : UserDecides(o), medium' = medium  PROVE  BridgeInv'
  BY <1>11 DEF UserDecides, Open
<1>12. ASSUME CollectorReleases, medium' = medium  PROVE  BridgeInv'
  BY <1>12 DEF CollectorReleases, Open
<1>13. ASSUME CollectorFails, medium' = medium  PROVE  BridgeInv'
  BY <1>13 DEF CollectorFails, Open
<1>14. ASSUME \E how \in {"closing", "lost"} : SessionCloses(how), medium' = medium  PROVE  BridgeInv'
  BY <1>14 DEF SessionCloses, Open
<1> QED
  BY <1>1, <1>2, <1>3, <1>4, <1>5, <1>6, <1>7, <1>8, <1>9, <1>10, <1>11, <1>12,
     <1>13, <1>14
  DEF InputStep

-----------------------------------------------------------------------------
(* What ends the process                                                   *)

\* What a step leads to.
LEMMA CauseStep ==
  ASSUME TypeOK, PhaseInv, TurnInv, SinkInv, AnswerInv, CauseInv, [Next]_vars
  PROVE  CauseInv'
<1>o. \A r : OpResult(r) => op'.kind = op.kind /\ op'.result = r
  BY DEF TypeOK, OpResult
<1>r. medium \in {"TEXT", "VOICE"} /\ session \in {"up", "closing", "lost"}
  BY ConstantAssumption DEF TypeOK
<1> USE DEF RaceKinds, PhaseInv, CauseInv, InputReady, bridgeVars, flags,
        inputSide, inputVars, agentVars, SinkKinds, NoOp, Running, None
<1>1. ASSUME Run, medium' = medium  PROVE  CauseInv'
  BY <1>1, <1>o, <1>r DEF Run, Race, Finish, Raise, SinkInv, AnswerInv
<1>2. ASSUME Entered, medium' = medium  PROVE  CauseInv'
  BY <1>2, <1>o, <1>r DEF Entered, OperationWins, FailureWins, Done, Race,
      Finish
<1>3. ASSUME InputInterrupts, medium' = medium  PROVE  CauseInv'
  BY <1>3, <1>o, <1>r DEF InputInterrupts, InputWins, FailureWins, Raise,
      EndedFromInput
<1>4. ASSUME Settled, medium' = medium  PROVE  CauseInv'
  BY <1>4, <1>o, <1>r DEF Settled, Done, CancelAgent, Finish
<1>5. ASSUME AgentCancelled, medium' = medium  PROVE  CauseInv'
  BY <1>5, <1>o, <1>r DEF AgentCancelled, AbortSink, Finish
<1>6. ASSUME SinkAborted, medium' = medium  PROVE  CauseInv'
  BY <1>6, <1>o, <1>r DEF SinkAborted, Finish, Raise, SinkInv
<1>7. ASSUME Delivered, medium' = medium  PROVE  CauseInv'
  BY <1>7, <1>o, <1>r DEF Delivered, OperationWins, FailureWins, Done, Race,
      Finish
<1>8. ASSUME ProcessingUpdate, medium' = medium  PROVE  CauseInv'
  BY <1>8, <1>o, <1>r DEF ProcessingUpdate, AgentEvent, Admits, OperationWins,
      FailureWins, Done, Race, Raise
<1>9. ASSUME AssistantMessageStarted, medium' = medium  PROVE  CauseInv'
  BY <1>9, <1>o, <1>r DEF AssistantMessageStarted, AgentEvent, Admits,
      OperationWins, FailureWins, Done, Race, Raise
<1>10. ASSUME AssistantTextChunk, medium' = medium  PROVE  CauseInv'
  BY <1>10, <1>o, <1>r DEF AssistantTextChunk, AgentEvent, Admits,
      OperationWins, FailureWins, Done, Race, Raise
<1>11. ASSUME AssistantMessageCompleted, medium' = medium  PROVE  CauseInv'
  BY <1>11, <1>o, <1>r DEF AssistantMessageCompleted, AgentEvent, Admits,
      OperationWins, FailureWins, Done, Race, Raise
<1>12. ASSUME AgentEnds, medium' = medium  PROVE  CauseInv'
  BY <1>12, <1>o, <1>r DEF AgentEnds, AgentEvent, AgentFailed, AbortSink,
      Finish, OperationWins, FailureWins, Done
<1>13. ASSUME TurnDisposition("EndConversation"), medium' = medium
      PROVE  CauseInv'
  BY <1>13, <1>o, <1>r DEF TurnDisposition, AgentEvent, OperationWins,
      FailureWins, Done, Race, Raise, Finish
<1>14. ASSUME TurnDisposition("RequestFollowUp"), medium' = medium
      PROVE  CauseInv'
  BY <1>14, <1>o, <1>r DEF TurnDisposition, AgentEvent, OperationWins,
      FailureWins, Done, Race, Raise, Finish
<1>15. ASSUME SinkAccepted, medium' = medium  PROVE  CauseInv'
  BY <1>15, <1>o, <1>r DEF SinkAccepted, OperationWins, FailureWins, Done,
      Race
<1>16. ASSUME SinkFailed, medium' = medium  PROVE  CauseInv'
  BY <1>16, <1>o, <1>r DEF SinkFailed, OperationWins, FailureWins, Done,
      CancelAgent, Fatal
<1>17. ASSUME FollowUpCommitted, medium' = medium  PROVE  CauseInv'
  BY <1>17, <1>o, <1>r DEF FollowUpCommitted, OperationWins, FailureWins,
      Done, Raise
<1>18. ASSUME FollowUpRefused, medium' = medium  PROVE  CauseInv'
  BY <1>18, <1>o, <1>r DEF FollowUpRefused, OperationWins, FailureWins, Done,
      CancelAgent, Fatal
<1>19. ASSUME FollowUpArrived, medium' = medium  PROVE  CauseInv'
  BY <1>19, <1>o, <1>r DEF FollowUpArrived, Race, CancelAgent, EndedFromInput
<1>20. ASSUME Ended, medium' = medium  PROVE  CauseInv'
  BY <1>20, <1>o, <1>r DEF Ended, Done, Raise
<1>21. ASSUME ScopeExited, medium' = medium  PROVE  CauseInv'
  BY <1>21, <1>o, <1>r DEF ScopeExited
<1>22. ASSUME DeadlineExpired, medium' = medium  PROVE  CauseInv'
  BY <1>22, <1>o, <1>r DEF DeadlineExpired, Done, Fatal
<1>23. ASSUME FatalNotified, medium' = medium  PROVE  CauseInv'
  BY <1>23, <1>o, <1>r DEF FatalNotified
<1>24. ASSUME AgentStep, medium' = medium  PROVE  CauseInv'
  BY <1>24, <1>o, <1>r DEF AgentStep, Enter, AcceptMessage, EmitEvent,
      WorkerStops, WorkerCancelled, Handover, InFlight, OpOnly
<1>25. ASSUME OutputSucceeds, medium' = medium  PROVE  CauseInv'
  BY <1>25, <1>o, <1>r DEF OutputSucceeds, InFlight, OutputKinds, SinkAdmits,
      SinkAfter, UsesDevice, InputOnly, OpOnly
<1>26. ASSUME OutputRefused, medium' = medium  PROVE  CauseInv'
  <2>1. /\ op.kind \in OutputKinds /\ op.result = "running" /\ ~SinkAdmits
        /\ UNCHANGED <<pc, inputTask, session, sink, followUp>>
        /\ op'.kind = op.kind
    BY <1>26, <1>o DEF OutputRefused, InFlight, InputOnly, OpOnly
  <2>2. op.kind # "abort" \/ op'.result # "closed"
    BY <1>26, <1>o DEF OutputRefused
  <2>3. ASSUME pc = "race", op.kind \in SinkKinds
        PROVE  op'.result \notin {"error", "terminated"} \/
               (op'.result = "error" /\ sink = "completed")
    <3>1. CASE op.kind = "start"
      <4>1. FlagsAgree /\ ~StreamOpen /\ sink \notin {"not_started", "aborted"}
        BY <2>1, <2>3, <3>1 DEF TurnInv, SinkInv, SinkAdmits
      <4>2. op'.result = "error" /\ sink = "completed"
        BY <1>26, <1>o, <3>1, <4>1 DEF OutputRefused, FlagsAgree, StreamOpen, TypeOK
      <4> QED  BY <4>2
    <3>2. CASE op.kind \in {"text", "complete"}
      BY <2>1, <2>3, <3>2
      DEF TurnInv, SinkInv, SinkAdmits, FlagsAgree, StreamOpen, TypeOK
    <3> QED  BY <2>1, <2>3, <3>1, <3>2 DEF SinkAdmits
  <2>4. op.kind # "follow_up"
    BY <2>1 DEF OutputKinds
  <2> QED  BY <1>26, <2>1, <2>2, <2>3, <2>4
<1>27. ASSUME DeviceLost, medium' = medium  PROVE  CauseInv'
  BY <1>27, <1>o, <1>r DEF DeviceLost, InFlight, UsesDevice, SinkAdmits,
      InputOnly, OpOnly
<1>28. ASSUME InputFails, medium' = medium  PROVE  CauseInv'
  BY <1>28, <1>o, <1>r DEF InputFails, InFlight, SinkAdmits, InputOnly, OpOnly
<1>29. ASSUME FollowUpHandoff, medium' = medium  PROVE  CauseInv'
  BY <1>29, <1>o, <1>r DEF FollowUpHandoff, InFlight, InputOnly, OpOnly
<1>30. ASSUME FollowUpSent, medium' = medium  PROVE  CauseInv'
  BY <1>30, <1>o, <1>r DEF FollowUpSent, InFlight, InputOnly, OpOnly
<1>31. ASSUME FollowUpAsserts, medium' = medium  PROVE  CauseInv'
  BY <1>31, <1>o, <1>r DEF FollowUpAsserts, InFlight, AnswerInv, InputEvents,
      TerminalEvents, TypeOK
<1>32. ASSUME OperationCancelled, medium' = medium  PROVE  CauseInv'
  BY <1>32, <1>o, <1>r DEF OperationCancelled, InputOnly, OpOnly
<1>33. ASSUME ReceiveControl, medium' = medium  PROVE  CauseInv'
  BY <1>33, <1>o, <1>r DEF ReceiveControl, InputEvents, TypeOK
<1>34. ASSUME ClientCancels, medium' = medium  PROVE  CauseInv'
  BY <1>34, <1>o, <1>r DEF ClientCancels, Open
<1>35. ASSUME \E o \in FollowUpEvents : UserDecides(o), medium' = medium
      PROVE  CauseInv'
  BY <1>35, <1>o, <1>r DEF UserDecides, Open
<1>36. ASSUME CollectorReleases, medium' = medium  PROVE  CauseInv'
  BY <1>36, <1>o, <1>r DEF CollectorReleases, Open
<1>37. ASSUME CollectorFails, medium' = medium  PROVE  CauseInv'
  BY <1>37, <1>o, <1>r DEF CollectorFails, Open
<1>38. ASSUME \E how \in {"closing", "lost"} : SessionCloses(how), medium' = medium
      PROVE  CauseInv'
  BY <1>38, <1>o, <1>r DEF SessionCloses, Open
<1>39. CASE Over \/ UNCHANGED vars
  BY <1>39 DEF Over, vars
<1> QED
  BY <1>1, <1>2, <1>3, <1>4, <1>5, <1>6, <1>7, <1>8, <1>9, <1>10, <1>11,
     <1>12, <1>13, <1>14, <1>15, <1>16, <1>17, <1>18, <1>19, <1>20, <1>21,
     <1>22, <1>23, <1>24, <1>25, <1>26, <1>27, <1>28, <1>29, <1>30, <1>31,
     <1>32, <1>33, <1>34, <1>35, <1>36, <1>37, <1>38, <1>39
  DEF Next, BridgeStep, InputStep

\* Every step that reaches _fatal does so in one of the known situations.
LEMMA SituationStep ==
  ASSUME TypeOK, PhaseInv, VerdictInv, AnswerInv, CauseInv, SituationInv,
         failure' \notin {"agent_protocol", "input_protocol"}, [Next]_vars
  PROVE  SituationInv'
<1>o. \A r : OpResult(r) => op'.kind = op.kind /\ op'.result = r
  BY DEF TypeOK, OpResult
<1>r. medium \in {"TEXT", "VOICE"} /\ session \in {"up", "closing", "lost"}
  BY ConstantAssumption DEF TypeOK
<1>f. failure # None =>
        pc \in {"exit", "fatal", "terminated"} /\ op.kind \in {None, "exit"}
  BY DEF TypeOK, PCs, VerdictInv, Early, PhaseInv, NoOp, None
<1>e. pc = "end" => op.result # "error"
  BY DEF PhaseInv
<1> USE DEF SituationInv, OnlyKnownFatalities, InputReady, bridgeVars, flags,
        inputSide, inputVars, agentVars, SinkKinds, NoOp, Running, None
<1>1. ASSUME Run, medium' = medium  PROVE  SituationInv'
  BY <1>1, <1>o, <1>r, <1>f, <1>e DEF Run, Race, Finish, Raise
<1>2. ASSUME Entered, medium' = medium  PROVE  SituationInv'
  BY <1>2, <1>o, <1>r, <1>f, <1>e DEF Entered, OperationWins, FailureWins,
      Done, Race, Finish
<1>3. ASSUME InputInterrupts, medium' = medium  PROVE  SituationInv'
  BY <1>3, <1>o, <1>r, <1>f, <1>e DEF InputInterrupts, InputWins, FailureWins,
      Raise, EndedFromInput
<1>4. ASSUME Settled, medium' = medium  PROVE  SituationInv'
  BY <1>4, <1>o, <1>r, <1>f, <1>e DEF Settled, Done, CancelAgent, Finish
<1>5. ASSUME AgentCancelled, medium' = medium  PROVE  SituationInv'
  BY <1>5, <1>o, <1>r, <1>f, <1>e DEF AgentCancelled, AbortSink, Finish
<1>6. ASSUME SinkAborted, medium' = medium  PROVE  SituationInv'
  BY <1>6, <1>o, <1>r, <1>f, <1>e DEF SinkAborted, Finish, Raise, CauseInv,
      PhaseInv
<1>7. ASSUME Delivered, medium' = medium  PROVE  SituationInv'
  BY <1>7, <1>o, <1>r, <1>f, <1>e DEF Delivered, OperationWins, FailureWins,
      Done, Race, Finish
<1>8. ASSUME ProcessingUpdate, medium' = medium  PROVE  SituationInv'
  BY <1>8, <1>o, <1>r, <1>f, <1>e DEF ProcessingUpdate, AgentEvent, Admits,
      OperationWins, FailureWins, Done, Race, Raise
<1>9. ASSUME AssistantMessageStarted, medium' = medium  PROVE  SituationInv'
  BY <1>9, <1>o, <1>r, <1>f, <1>e DEF AssistantMessageStarted, AgentEvent,
      Admits, OperationWins, FailureWins, Done, Race, Raise
<1>10. ASSUME AssistantTextChunk, medium' = medium  PROVE  SituationInv'
  BY <1>10, <1>o, <1>r, <1>f, <1>e DEF AssistantTextChunk, AgentEvent, Admits,
      OperationWins, FailureWins, Done, Race, Raise
<1>11. ASSUME AssistantMessageCompleted, medium' = medium  PROVE  SituationInv'
  BY <1>11, <1>o, <1>r, <1>f, <1>e DEF AssistantMessageCompleted, AgentEvent,
      Admits, OperationWins, FailureWins, Done, Race, Raise
<1>12. ASSUME AgentEnds, medium' = medium  PROVE  SituationInv'
  BY <1>12, <1>o, <1>r, <1>f, <1>e DEF AgentEnds, AgentEvent, AgentFailed,
      AbortSink, Finish, OperationWins, FailureWins, Done
<1>13. ASSUME TurnDisposition("EndConversation"), medium' = medium
      PROVE  SituationInv'
  BY <1>13, <1>o, <1>r, <1>f, <1>e DEF TurnDisposition, AgentEvent,
      OperationWins, FailureWins, Done, Race, Raise, Finish
<1>14. ASSUME TurnDisposition("RequestFollowUp"), medium' = medium
      PROVE  SituationInv'
  BY <1>14, <1>o, <1>r, <1>f, <1>e DEF TurnDisposition, AgentEvent,
      OperationWins, FailureWins, Done, Race, Raise, Finish
<1>15. ASSUME SinkAccepted, medium' = medium  PROVE  SituationInv'
  BY <1>15, <1>o, <1>r, <1>f, <1>e DEF SinkAccepted, OperationWins,
      FailureWins, Done, Race
<1>16. ASSUME SinkFailed, medium' = medium  PROVE  SituationInv'
  BY <1>16, <1>o, <1>r, <1>f, <1>e DEF SinkFailed, OperationWins, FailureWins,
      Done, CancelAgent, Fatal, CauseInv
<1>17. ASSUME FollowUpCommitted, medium' = medium  PROVE  SituationInv'
  BY <1>17, <1>o, <1>r, <1>f, <1>e DEF FollowUpCommitted, OperationWins,
      FailureWins, Done, Raise, PhaseInv, AnswerInv, TypeOK, InputEvents
<1>18. ASSUME FollowUpRefused, medium' = medium  PROVE  SituationInv'
  BY <1>18, <1>o, <1>r, <1>f, <1>e DEF FollowUpRefused, OperationWins,
      FailureWins, Done, CancelAgent, Fatal, CauseInv
<1>19. ASSUME FollowUpArrived, medium' = medium  PROVE  SituationInv'
  BY <1>19, <1>o, <1>r, <1>f, <1>e DEF FollowUpArrived, Race, CancelAgent,
      EndedFromInput
<1>20. ASSUME Ended, medium' = medium  PROVE  SituationInv'
  BY <1>20, <1>o, <1>r, <1>f, <1>e DEF Ended, Done, Raise
<1>21. ASSUME ScopeExited, medium' = medium  PROVE  SituationInv'
  BY <1>21, <1>o, <1>r, <1>f, <1>e DEF ScopeExited
<1>22. ASSUME DeadlineExpired, medium' = medium  PROVE  SituationInv'
  BY <1>22, <1>o, <1>r, <1>f, <1>e DEF DeadlineExpired, Done, Fatal
<1>23. ASSUME FatalNotified, medium' = medium  PROVE  SituationInv'
  BY <1>23, <1>o, <1>r, <1>f, <1>e DEF FatalNotified, StreamOpen
<1>24. ASSUME AgentStep, medium' = medium  PROVE  SituationInv'
  BY <1>24, <1>o, <1>r, <1>f, <1>e DEF AgentStep, Enter, AcceptMessage,
      EmitEvent, WorkerStops, WorkerCancelled, Handover, InFlight, OpOnly
<1>25. ASSUME OutputSucceeds, medium' = medium  PROVE  SituationInv'
  BY <1>25, <1>o, <1>r, <1>f, <1>e DEF OutputSucceeds, InFlight, OutputKinds,
      SinkAdmits, SinkAfter, UsesDevice, InputOnly, OpOnly
<1>26. ASSUME OutputRefused, medium' = medium  PROVE  SituationInv'
  BY <1>26, <1>o, <1>r, <1>f, <1>e DEF OutputRefused, InFlight, OutputKinds,
      SinkAdmits, InputOnly, OpOnly
<1>27. ASSUME DeviceLost, medium' = medium  PROVE  SituationInv'
  BY <1>27, <1>o, <1>r, <1>f, <1>e DEF DeviceLost, InFlight, UsesDevice,
      SinkAdmits, InputOnly, OpOnly, OutputKinds
<1>28. ASSUME InputFails, medium' = medium  PROVE  SituationInv'
  BY <1>28, <1>o, <1>r, <1>f, <1>e DEF InputFails, InFlight, SinkAdmits,
      InputOnly, OpOnly
<1>29. ASSUME FollowUpHandoff, medium' = medium  PROVE  SituationInv'
  BY <1>29, <1>o, <1>r, <1>f, <1>e DEF FollowUpHandoff, InFlight, InputOnly,
      OpOnly
<1>30. ASSUME FollowUpSent, medium' = medium  PROVE  SituationInv'
  BY <1>30, <1>o, <1>r, <1>f, <1>e DEF FollowUpSent, InFlight, InputOnly,
      OpOnly
<1>31. ASSUME FollowUpAsserts, medium' = medium  PROVE  SituationInv'
  BY <1>31, <1>o, <1>r, <1>f, <1>e DEF FollowUpAsserts, InFlight
<1>32. ASSUME OperationCancelled, medium' = medium  PROVE  SituationInv'
  BY <1>32, <1>o, <1>r, <1>f, <1>e DEF OperationCancelled, InputOnly, OpOnly
<1>33. ASSUME ReceiveControl, medium' = medium  PROVE  SituationInv'
  BY <1>33, <1>o, <1>r, <1>f, <1>e DEF ReceiveControl, InputEvents,
      TerminalEvents
<1>34. ASSUME ClientCancels, medium' = medium  PROVE  SituationInv'
  BY <1>34, <1>o, <1>r, <1>f, <1>e DEF ClientCancels, Open, TerminalEvents
<1>35. ASSUME \E o \in FollowUpEvents : UserDecides(o), medium' = medium
      PROVE  SituationInv'
  BY <1>35, <1>o, <1>r, <1>f, <1>e DEF UserDecides, Open, AnswerInv, TypeOK,
      InputEvents, TerminalEvents, FollowUpEvents
<1>36. ASSUME CollectorReleases, medium' = medium  PROVE  SituationInv'
  BY <1>36, <1>o, <1>r, <1>f, <1>e DEF CollectorReleases, Open
<1>37. ASSUME CollectorFails, medium' = medium  PROVE  SituationInv'
  BY <1>37, <1>o, <1>r, <1>f, <1>e DEF CollectorFails, Open, TerminalEvents
<1>38. ASSUME \E how \in {"closing", "lost"} : SessionCloses(how), medium' = medium
      PROVE  SituationInv'
  BY <1>38, <1>o, <1>r, <1>f, <1>e DEF SessionCloses, Open, TerminalEvents
<1>39. CASE Over \/ UNCHANGED vars
  BY <1>39 DEF Over, vars
<1> QED
  BY <1>1, <1>2, <1>3, <1>4, <1>5, <1>6, <1>7, <1>8, <1>9, <1>10, <1>11,
     <1>12, <1>13, <1>14, <1>15, <1>16, <1>17, <1>18, <1>19, <1>20, <1>21,
     <1>22, <1>23, <1>24, <1>25, <1>26, <1>27, <1>28, <1>29, <1>30, <1>31,
     <1>32, <1>33, <1>34, <1>35, <1>36, <1>37, <1>38, <1>39
  DEF Next, BridgeStep, InputStep

-----------------------------------------------------------------------------
(* What the three parties leave alone                                      *)

\* No step of the bridge moves the worker: cancel() and close() only ask.
LEMMA BridgeFrame ==
  ASSUME BridgeStep
  PROVE  UNCHANGED agent
  BY DEF BridgeStep, Run, Entered, InputInterrupts, Settled, AgentCancelled,
      SinkAborted, Delivered, AgentEvent, ProcessingUpdate,
      AssistantMessageStarted, AssistantTextChunk, AssistantMessageCompleted,
      AgentEnds, TurnDisposition, SinkAccepted, SinkFailed, FollowUpCommitted,
      FollowUpRefused, FollowUpArrived, Ended, ScopeExited, DeadlineExpired,
      FatalNotified, agentVars

\* A step of the worker decides nothing and tells nobody.
LEMMA AgentFrame ==
  ASSUME TypeOK, AgentStep
  PROVE  UNCHANGED <<pc, told>> /\ op'.kind = op.kind
  BY DEF AgentStep, Enter, AcceptMessage, EmitEvent, WorkerStops,
      WorkerCancelled, OpResult, OpOnly, TypeOK, bridgeVars, inputVars

\* Nor does a step of the input conversation, and it leaves the worker alone.
LEMMA InputFrame ==
  ASSUME TypeOK, InputStep
  PROVE  UNCHANGED <<pc, told, agent>> /\ op'.kind = op.kind
  BY DEF InputStep, OutputSucceeds, OutputRefused, DeviceLost, InputFails,
      FollowUpHandoff, FollowUpSent, FollowUpAsserts, OperationCancelled,
      ReceiveControl, ClientCancels, UserDecides, CollectorReleases,
      CollectorFails, SessionCloses, InputOnly, OpResult, OpOnly, TypeOK,
      bridgeVars, inputSide, inputVars, agentVars

-----------------------------------------------------------------------------
(* Cancellation wins the races it is visible in                            *)

\* With an input event ready, only _InputWon and a failed sink operation get
\* past _race_operation, and neither starts new work.
LEMMA ReadyStep ==
  ASSUME BridgeInv, [Next]_vars, pc = "race", InputReady, op # op'
  PROVE  op'.kind \in {op.kind, None, "cancel", "exit"}
<1> USE DEF BridgeInv, TypeOK, NoOp, Running
<1>1. CASE AgentStep \/ InputStep
  BY <1>1, AgentFrame, InputFrame
<1>2. CASE InputInterrupts
  BY <1>2 DEF InputInterrupts, Raise
<1>3. CASE SinkFailed
  BY <1>3 DEF SinkFailed, CancelAgent, Fatal
<1>4. ~(\/ Entered \/ Delivered \/ ProcessingUpdate \/ AssistantMessageStarted
        \/ AssistantTextChunk \/ AssistantMessageCompleted \/ AgentEnds
        \/ TurnDisposition("EndConversation")
        \/ TurnDisposition("RequestFollowUp") \/ SinkAccepted
        \/ FollowUpCommitted \/ FollowUpRefused)
  BY DEF Entered, Delivered, ProcessingUpdate, AssistantMessageStarted,
      AssistantTextChunk, AssistantMessageCompleted, AgentEnds, AgentEvent,
      TurnDisposition, SinkAccepted, FollowUpCommitted, FollowUpRefused,
      OperationWins, FailureWins, SinkKinds
<1>5. ~(\/ Run \/ Settled \/ AgentCancelled \/ SinkAborted \/ FollowUpArrived
        \/ Ended \/ ScopeExited \/ DeadlineExpired \/ FatalNotified \/ Over)
  BY DEF Run, Settled, AgentCancelled, SinkAborted, FollowUpArrived, Ended,
      ScopeExited, DeadlineExpired, FatalNotified, Over
<1> QED
  BY <1>1, <1>2, <1>3, <1>4, <1>5 DEF Next, BridgeStep, vars, bridgeVars

-----------------------------------------------------------------------------
(* The bridge implements ConversationOutcome                               *)

\* _finish tells one verdict, of the input side only over a stopped worker.
LEMMA FinishTells ==
  ASSUME NEW why \in Reasons \ {"INTERNAL_FAILURE"}, Finish(why), told = None,
         pc \in Early, UNCHANGED agent,
         why \in InputReasons => agent = "absent" \/ Stopped
  PROVE  O!Next
<1>1. O!Tell(why)
  BY DEF O!Tell, Finish, Worker, Stopped, Early, InputReasons, Reasons, None
<1> QED
  BY <1>1 DEF O!Next, Reasons

\* Every step of the bridge is one of the abstract conversation.
LEMMA OutcomeOfBridge ==
  ASSUME BridgeInv, TypeOK', BridgeStep
  PROVE  [O!Next]_(O!vars)
<1> USE DEF BridgeInv, TypeOK, PhaseInv, VerdictInv, AgentInv, InputReasons,
        Reasons, None
<1>1. UNCHANGED Worker
  BY BridgeFrame DEF Worker
<1>2. ASSUME UNCHANGED told, pc' \notin {"closed", "terminated"}
      PROVE  [O!Next]_(O!vars)
  <2>1. CASE pc \in {"closed", "terminated"}
    BY <2>1
    DEF BridgeStep, Run, Entered, InputInterrupts, InputWins, Settled,
        AgentCancelled, SinkAborted, Delivered, AgentEvent, ProcessingUpdate,
        AssistantMessageStarted, AssistantTextChunk, AssistantMessageCompleted,
        AgentEnds, TurnDisposition, SinkAccepted, SinkFailed,
        FollowUpCommitted, FollowUpRefused, FollowUpArrived, Ended,
        ScopeExited, DeadlineExpired, FatalNotified, OperationWins
  <2> QED  BY <1>1, <1>2, <2>1 DEF O!vars
<1>3. CASE Run
  <2>1. \A why \in {"CONTEXT_REJECTED", "CONTEXT_UNAVAILABLE"} :
           Finish(why) => O!Next
    BY <1>3, FinishTells DEF Run, Early
  <2> QED  BY <1>2, <1>3, <2>1 DEF Run, Race, Raise
<1>4. CASE Entered \/ Delivered
  <2>1. Finish("AGENT_FAILED") => O!Next
    BY <1>4, FinishTells, BridgeFrame
    DEF Entered, Delivered, OperationWins, Early
  <2> QED  BY <1>2, <1>4, <2>1 DEF Entered, Delivered, Race
<1>5. CASE Settled
  <2>1. Finish(reason) => O!Next
    <3>1. ~scoped' => agent = "absent"
      BY <1>5 DEF Settled
    <3>2. Finish(reason) /\ scoped' => FALSE
      BY <1>5 DEF Settled, CancelAgent, Finish
    <3> QED  BY <1>5, <3>1, <3>2, FinishTells DEF Settled, Early
  <2> QED  BY <1>2, <1>5, <2>1 DEF Settled, CancelAgent
<1>6. CASE AgentCancelled
  <2>1. Finish(reason) => O!Next
    BY <1>6, FinishTells DEF AgentCancelled, Early, Stopped
  <2> QED  BY <1>2, <1>6, <2>1 DEF AgentCancelled, AbortSink
<1>7. CASE SinkAborted
  <2>1. Finish(reason) => O!Next
    BY <1>7, FinishTells DEF SinkAborted, Early, Stopped
  <2> QED  BY <1>2, <1>7, <2>1 DEF SinkAborted, Raise
<1>8. CASE AgentEnds
  <2>1. Finish("AGENT_FAILED") => O!Next
    BY <1>8, FinishTells DEF AgentEnds, AgentEvent, OperationWins, Early
  <2> QED  BY <1>2, <1>8, <2>1 DEF AgentEnds, AgentFailed, AbortSink
<1>9. CASE TurnDisposition("EndConversation") \/ TurnDisposition("RequestFollowUp")
  <2>1. Finish("COMPLETED") => O!Next
    BY <1>9, FinishTells DEF TurnDisposition, AgentEvent, OperationWins, Early
  <2> QED  BY <1>2, <1>9, <2>1 DEF TurnDisposition, Race, Raise
<1>10. CASE Ended \/ ScopeExited
  <2>1. CASE pc' = "closed"
    <3>1. O!Close
      BY <1>1, <1>10, <2>1
      DEF Ended, ScopeExited, Raise, inputVars, O!Close, Worker
    <3> QED  BY <3>1 DEF O!Next
  <2>2. UNCHANGED told /\ pc' # "terminated"
    BY <1>10 DEF Ended, ScopeExited, Raise, inputVars
  <2> QED  BY <1>2, <2>1, <2>2
<1>11. CASE FatalNotified
  <2>1. O!Terminate
    BY <1>1, <1>11 DEF FatalNotified, O!Terminate
  <2> QED  BY <2>1 DEF O!Next
<1>12. CASE \/ InputInterrupts \/ ProcessingUpdate \/ AssistantMessageStarted
            \/ AssistantTextChunk \/ AssistantMessageCompleted
            \/ SinkAccepted \/ SinkFailed \/ FollowUpCommitted
            \/ FollowUpRefused \/ FollowUpArrived \/ DeadlineExpired
  <2>1. UNCHANGED told /\ pc' \notin {"closed", "terminated"}
    BY <1>12
    DEF InputInterrupts, ProcessingUpdate, AssistantMessageStarted,
        AssistantTextChunk, AssistantMessageCompleted, SinkAccepted,
        SinkFailed, FollowUpCommitted, FollowUpRefused, FollowUpArrived,
        DeadlineExpired, Admits, Race, Raise, CancelAgent, Fatal
  <2> QED  BY <1>2, <2>1
<1> QED
  BY <1>3, <1>4, <1>5, <1>6, <1>7, <1>8, <1>9, <1>10, <1>11, <1>12
  DEF BridgeStep

\* The worker engages and stops; whatever else it does is a stutter.
LEMMA OutcomeOfAgent ==
  ASSUME BridgeInv, TypeOK', AgentStep
  PROVE  [O!Next]_(O!vars)
<1> USE DEF BridgeInv, TypeOK
<1>1. UNCHANGED <<pc, told>>
  BY AgentFrame
<1>2. CASE Enter
  <2>1. pc \in {"race", "settle"} /\ agent = "absent" /\ told = None
    BY <1>2
    DEF Enter, InFlight, PhaseInv, AgentInv, VerdictInv, Early, PCs, RaceKinds,
        SinkKinds, NoOp, None
  <2>2. agent' \in {"absent", "waiting"}
    BY <1>2, <2>1 DEF Enter
  <2> QED  BY <1>1, <2>1, <2>2 DEF O!Next, O!Engage, O!vars, Worker
<1>3. CASE AcceptMessage \/ EmitEvent \/ WorkerStops
  <2>1. agent \notin {"absent", "cancelled", "closed"}
    BY <1>3 DEF AcceptMessage, EmitEvent, Handover, WorkerStops
  <2>2. agent' \notin {"absent", "cancelled", "closed"}
    BY <1>3 DEF AcceptMessage, EmitEvent, Handover, WorkerStops
  <2> QED  BY <1>1, <2>1, <2>2 DEF O!vars, Worker
<1>4. CASE WorkerCancelled
  <2>1. agent # "absent" /\ agent' \in {"cancelled", "closed"}
    BY <1>4
    DEF WorkerCancelled, InFlight, PhaseInv, AgentInv, RaceKinds, SinkKinds,
        NoOp, None, PCs
  <2> QED  BY <1>1, <2>1 DEF O!Next, O!Stop, O!vars, Worker
<1> QED
  BY <1>2, <1>3, <1>4 DEF AgentStep

LEMMA OutcomeStep ==
  ASSUME BridgeInv, TypeOK', [Next]_vars
  PROVE  [O!Next]_(O!vars)
<1>1. CASE InputStep
  BY <1>1, InputFrame DEF BridgeInv, O!vars, Worker
<1>2. CASE Over \/ UNCHANGED vars
  BY <1>2 DEF Over, vars, inputVars, bridgeVars, agentVars, O!vars, Worker
<1> QED
  BY <1>1, <1>2, OutcomeOfBridge, OutcomeOfAgent DEF Next

-----------------------------------------------------------------------------
(* The agent keeps the contract of AgentPort                               *)

\* What AgentPort knows of the agent.
AgentAtPort == IF Stopped THEN "stopped" ELSE agent

LEMMA PortStep ==
  ASSUME BridgeInv, [Next]_vars
  PROVE  [P!Next]_AgentAtPort
<1> USE DEF BridgeInv, TypeOK, AgentAtPort, Stopped, P!Next, P!Step
<1>1. CASE BridgeStep \/ InputStep
  BY <1>1, BridgeFrame, InputFrame
<1>2. CASE Over \/ UNCHANGED vars
  BY <1>2 DEF Over, vars, agentVars
<1>3. CASE Enter
  BY <1>3
  DEF Enter, InFlight, PhaseInv, AgentInv, PCs, RaceKinds, SinkKinds, NoOp,
      None, P!Enter
<1>4. CASE AcceptMessage
  BY <1>4 DEF AcceptMessage, P!Accept
<1>5. CASE EmitEvent
  BY <1>5 DEF EmitEvent, Handover, P!Emit
<1>6. CASE WorkerStops
  BY <1>6 DEF WorkerStops, P!Fail
<1>7. CASE WorkerCancelled
  BY <1>7
  DEF WorkerCancelled, InFlight, PhaseInv, AgentInv, RaceKinds, SinkKinds,
      NoOp, None, PCs, P!Stop, P!Running
<1> QED
  BY <1>1, <1>2, <1>3, <1>4, <1>5, <1>6, <1>7 DEF Next, AgentStep

-----------------------------------------------------------------------------
(* The input keeps the contract of InputPort                               *)

\* What the queue can hold where the standing receive may still take it: a
\* session that is not up has left its close there; a microphone that is up
\* has at most the failure of an operation that does not return, or the end of
\* the only follow-up.
QueueInv ==
    /\ session # "up" /\ (pc = "run" \/ inputTask \in {"pending", "UserMessage"})
            => control = "InputSessionClosed"
    /\ medium = "VOICE" /\ session = "up" /\ control # None /\ (pc = "run" \/ inputTask # None)
            => op.result = "hung" \/ (followUp # None /\ outcome = "shut")
    /\ op.result = "hung" => op.kind \in SinkKinds \cup {"follow_up"}

LEMMA QueueOfBridge ==
  ASSUME BridgeInv, QueueInv, BridgeStep, medium' = medium
  PROVE  QueueInv'
<1> USE DEF BridgeInv, TypeOK, PhaseInv, AnswerInv, QueueInv, InputReady,
        OperationWins, InputWins, FailureWins, Done, Results, bridgeVars,
        flags, inputVars, inputSide, agentVars, NoOp, Running, None,
        FollowUpEvents, TerminalEvents, InputEvents, SinkKinds, AgentEvents
<1>1. CASE Run
  BY <1>1 DEF Run, Race, Finish, Raise
<1>2. CASE FollowUpCommitted
  BY <1>2 DEF FollowUpCommitted, Raise
<1>3. CASE FollowUpArrived
  BY <1>3 DEF FollowUpArrived, Race, CancelAgent
<1>4. CASE InputInterrupts \/ Ended \/ ScopeExited \/ FatalNotified
  BY <1>4 DEF InputInterrupts, Raise, Ended, ScopeExited, FatalNotified
<1>5. CASE Entered \/ Settled \/ AgentCancelled \/ SinkAborted \/ Delivered
  BY <1>5
  DEF Entered, Settled, AgentCancelled, SinkAborted, Delivered, Race, Finish,
      CancelAgent, AbortSink, Raise
<1>6. CASE \/ ProcessingUpdate \/ AssistantMessageStarted \/ AssistantTextChunk
           \/ AssistantMessageCompleted \/ AgentEnds
           \/ TurnDisposition("EndConversation") \/ TurnDisposition("RequestFollowUp")
  BY <1>6
  DEF ProcessingUpdate, AssistantMessageStarted, AssistantTextChunk,
      AssistantMessageCompleted, AgentEnds, TurnDisposition, AgentEvent,
      Admits, Race, Raise, Finish, AgentFailed, AbortSink
<1>7. CASE SinkAccepted \/ SinkFailed \/ FollowUpRefused \/ DeadlineExpired
  BY <1>7
  DEF SinkAccepted, SinkFailed, FollowUpRefused, DeadlineExpired, Race,
      CancelAgent, Fatal
<1> QED
  BY <1>1, <1>2, <1>3, <1>4, <1>5, <1>6, <1>7 DEF BridgeStep

LEMMA QueueOfInput ==
  ASSUME BridgeInv, QueueInv, InputStep, medium' = medium
  PROVE  QueueInv'
<1> USE DEF BridgeInv, TypeOK, PhaseInv, AnswerInv, QueueInv, InFlight,
        OpResult, InputOnly, OpOnly, flags, inputVars, inputSide, bridgeVars,
        agentVars, None, FollowUpEvents
<1>1. CASE OutputSucceeds \/ OutputRefused \/ FollowUpSent \/ OperationCancelled
  BY <1>1
  DEF OutputSucceeds, OutputRefused, FollowUpSent, OperationCancelled
<1>2. CASE DeviceLost \/ FollowUpAsserts \/ ReceiveControl
  BY <1>2 DEF DeviceLost, FollowUpAsserts, ReceiveControl
<1>3. CASE InputFails \/ FollowUpHandoff
  BY <1>3 DEF InputFails, FollowUpHandoff
<1>4. CASE ClientCancels \/ \E o \in FollowUpEvents : UserDecides(o)
  BY <1>4, ConstantAssumption DEF ClientCancels, UserDecides
<1>5. CASE CollectorReleases \/ CollectorFails
  BY <1>5 DEF CollectorReleases, CollectorFails
<1>6. CASE \E how \in {"closing", "lost"} : SessionCloses(how)
  BY <1>6 DEF SessionCloses
<1> QED
  BY <1>1, <1>2, <1>3, <1>4, <1>5, <1>6 DEF InputStep

LEMMA QueueStep ==
  ASSUME BridgeInv, QueueInv, [Next]_vars
  PROVE  QueueInv'
<1>1. CASE AgentStep /\ medium' = medium
  BY <1>1
  DEF BridgeInv, TypeOK, QueueInv, AgentStep, Enter, AcceptMessage, EmitEvent,
      Handover, WorkerStops, WorkerCancelled, InFlight, OpResult, OpOnly,
      bridgeVars, flags, inputVars, inputSide
<1>2. CASE Over \/ UNCHANGED vars
  BY <1>2 DEF QueueInv, Over, vars, bridgeVars, inputVars, inputSide
<1> QED
  BY <1>1, <1>2, QueueOfBridge, QueueOfInput DEF Next

\* What InputPort knows of the input.
Heard == inputTask
Queued == IF inputTask = None THEN None ELSE control
Awaited == IF inputTask = None THEN "shut"
           ELSE IF pc = "follow_up" THEN "waiting"
           ELSE IF op.kind = "follow_up" THEN "asked" ELSE "shut"

LEMMA InputPortOfBridge ==
  ASSUME BridgeInv, QueueInv, BridgeStep, medium' = medium
  PROVE  [IP!Next]_<<Heard, Queued, Awaited>>
<1> USE DEF BridgeInv, TypeOK, PhaseInv, AnswerInv, InputReady, Heard, Queued,
        Awaited, RaceKinds, SinkKinds,
        OperationWins, InputWins, FailureWins, Done, bridgeVars,
        flags, inputVars, inputSide, agentVars, NoOp, Running, None,
        FollowUpEvents, TerminalEvents, InputEvents,
        IP!Next, IP!Nothing
<1>1. CASE Run
  BY <1>1 DEF Run, Race, Finish, Raise, IP!Begin, IP!Terminal
<1>2. CASE FollowUpCommitted
  BY <1>2 DEF FollowUpCommitted, Raise, IP!Acknowledge, IP!Withdraw
<1>3. CASE FollowUpArrived
  BY <1>3 DEF FollowUpArrived, Race, CancelAgent, IP!Resume, IP!GiveUp
<1>4. CASE InputInterrupts \/ Ended \/ ScopeExited \/ FatalNotified
  BY <1>4
  DEF InputInterrupts, Raise, Ended, ScopeExited, FatalNotified, IP!GiveUp
<1>5. CASE Entered \/ Settled \/ AgentCancelled \/ SinkAborted \/ Delivered
  BY <1>5
  DEF Entered, Settled, AgentCancelled, SinkAborted, Delivered, Race, Finish,
      CancelAgent, AbortSink, Raise
<1>6. CASE \/ ProcessingUpdate \/ AssistantMessageStarted \/ AssistantTextChunk
           \/ AssistantMessageCompleted \/ AgentEnds
           \/ TurnDisposition("EndConversation") \/ TurnDisposition("RequestFollowUp")
  BY <1>6
  DEF ProcessingUpdate, AssistantMessageStarted, AssistantTextChunk,
      AssistantMessageCompleted, AgentEnds, TurnDisposition, AgentEvent,
      Admits, Race, Raise, Finish, AgentFailed, AbortSink, IP!Ask
<1>7. CASE SinkAccepted \/ SinkFailed \/ FollowUpRefused \/ DeadlineExpired
  BY <1>7
  DEF SinkAccepted, SinkFailed, FollowUpRefused, DeadlineExpired, Race,
      CancelAgent, Fatal, IP!Withdraw
<1> QED
  BY <1>1, <1>2, <1>3, <1>4, <1>5, <1>6, <1>7 DEF BridgeStep

LEMMA InputPortOfInput ==
  ASSUME BridgeInv, QueueInv, InputStep, medium' = medium
  PROVE  [IP!Next]_<<Heard, Queued, Awaited>>
<1>0. UNCHANGED pc /\ op'.kind = op.kind
  BY InputFrame DEF BridgeInv
<1> USE <1>0 DEF BridgeInv, TypeOK, PhaseInv, AnswerInv, QueueInv, Heard,
        Queued, Awaited, InFlight, InputOnly, OpOnly, flags, inputVars,
        inputSide, bridgeVars, agentVars, None, FollowUpEvents, NoOp,
        IP!Next, IP!Nothing
<1>1. CASE OutputSucceeds \/ OutputRefused \/ FollowUpSent \/ OperationCancelled
  BY <1>1
  DEF OutputSucceeds, OutputRefused, FollowUpSent, OperationCancelled
<1>2. CASE DeviceLost \/ InputFails
  BY <1>2 DEF DeviceLost, InputFails, IP!Interrupt
<1>3. CASE FollowUpHandoff \/ FollowUpAsserts \/ ReceiveControl
  BY <1>3 DEF FollowUpHandoff, FollowUpAsserts, ReceiveControl, IP!Hear
<1>4. CASE ClientCancels
  BY <1>4 DEF ClientCancels, IP!Interrupt
<1>5. CASE \E o \in FollowUpEvents : UserDecides(o)
  BY <1>5 DEF UserDecides, IP!Answer, IP!Interrupt
<1>6. CASE CollectorReleases
  BY <1>6 DEF CollectorReleases, IP!Answer
<1>7. CASE CollectorFails \/ \E how \in {"closing", "lost"} : SessionCloses(how)
  BY <1>7 DEF CollectorFails, SessionCloses, IP!Interrupt
<1> QED
  BY <1>1, <1>2, <1>3, <1>4, <1>5, <1>6, <1>7 DEF InputStep

LEMMA InputPortStep ==
  ASSUME BridgeInv, QueueInv, [Next]_vars
  PROVE  [IP!Next]_<<Heard, Queued, Awaited>>
<1>1. CASE AgentStep /\ medium' = medium
  BY <1>1, AgentFrame
  DEF BridgeInv, TypeOK, Heard, Queued, Awaited, AgentStep, Enter,
      AcceptMessage, EmitEvent, WorkerStops, WorkerCancelled, OpOnly,
      bridgeVars, flags, inputVars, inputSide
<1>2. CASE Over \/ UNCHANGED vars
  BY <1>2 DEF Heard, Queued, Awaited, Over, vars, bridgeVars, inputVars, inputSide
<1> QED
  BY <1>1, <1>2, InputPortOfBridge, InputPortOfInput DEF Next

-----------------------------------------------------------------------------
(* The theorems                                                            *)

\* The bridge's own awaits, flags and decisions fit the state of the input
\* and of the worker, for any bindings and faults.
THEOREM BridgeInvariant == Spec => []BridgeInv
<1>1. Init => BridgeInv
  <2> SUFFICES ASSUME Init  PROVE BridgeInv
    OBVIOUS
  <2> USE DEF Init, NoOp
  <2>1. TypeOK
    BY ConstantAssumption
    DEF TypeOK, InputEvents, FollowUpEvents, Kinds, Results, States, PCs,
        Failures, None
  <2>2. PhaseInv /\ TurnInv /\ VerdictInv /\ AgentInv /\ CancelInv /\ AdmitInv
    BY DEF PhaseInv, TurnInv, Early, VerdictInv, Stopped, AgentInv, CancelInv,
        AdmitInv, None, InputReasons
  <2>3. SinkInv /\ AnswerInv
    BY DEF SinkInv, FlagsAgree, AnswerInv, FollowUpEvents, None
  <2> QED  BY <2>1, <2>2, <2>3 DEF BridgeInv
<1>2. BridgeInv /\ [Next]_vars => BridgeInv'
  <2> SUFFICES ASSUME BridgeInv, [Next]_vars  PROVE BridgeInv'
    OBVIOUS
  <2>1. TypeOK'
    BY TypeStep DEF BridgeInv
  <2>2. CASE Over \/ UNCHANGED vars
    BY <2>2
    DEF Over, vars, bridgeVars, flags, inputVars, inputSide, agentVars,
        BridgeInv, TypeOK, PhaseInv, TurnInv, VerdictInv, FlagsAgree, SinkInv,
        Stopped, AgentInv, CancelInv, AdmitInv, AnswerInv, StreamOpen, PhaseOf
  <2> QED
    BY <2>1, <2>2, BridgeKeepsInv, AgentKeepsInv, InputKeepsInv DEF Next
<1> QED
  BY <1>1, <1>2, PTL DEF Spec

\* Every variable of the bridge, its input conversation and its worker keeps
\* its type (TypeOK).
THEOREM BridgeTypes == Spec => []TypeOK
<1>1. BridgeInv => TypeOK
  BY DEF BridgeInv
<1> QED
  BY <1>1, BridgeInvariant, PTL

\* A client that is told of the end finds no assistant stream open, also when
\* a cancelled start() had opened it unseen (bridge.py:357, _race_sink).
THEOREM StreamsAreClosed == Spec => []NoStreamLeftOpen
<1>1. BridgeInv => NoStreamLeftOpen
  BY DEF BridgeInv, TypeOK, PCs, VerdictInv, Early, SinkInv, NoStreamLeftOpen
<1> QED
  BY <1>1, BridgeInvariant, PTL

\* The process is ended only by the failure of a neighbour or in one of the
\* situations the property names, each of them a fact about the session, the
\* sink and the follow-up (bridge.py:470, :344, :383, :339).
THEOREM FatalitiesAreKnown == Spec => []OnlyKnownFatalities
<1>1. Init => CauseInv /\ SituationInv
  BY DEF Init, NoOp, None, CauseInv, SituationInv, OnlyKnownFatalities
<1>2. BridgeInv /\ CauseInv /\ [Next]_vars => CauseInv'
  BY CauseStep DEF BridgeInv
<1>3. /\ BridgeInv /\ BridgeInv' /\ CauseInv /\ SituationInv
      /\ [Next]_vars
      => SituationInv'
  BY SituationStep DEF BridgeInv, AdmitInv, AnswerInv
<1>4. SituationInv => OnlyKnownFatalities
  BY DEF SituationInv
<1> QED
  BY <1>1, <1>2, <1>3, <1>4, BridgeInvariant, PTL DEF Spec

\* The worker has stopped before the client hears that the input ended the
\* conversation (bridge.py:460), and was given the same account of it.
THEOREM EndingIsConsistent ==
  Spec => [](AgentStoppedBeforeInputEnd /\ AccountsAgree)
<1>1. BridgeInv => AgentStoppedBeforeInputEnd
  BY DEF BridgeInv, AgentInv, Stopped, AgentStoppedBeforeInputEnd
<1>2. BridgeInv => AccountsAgree
  BY DEF BridgeInv, TypeOK, VerdictInv, CancelInv, AgentReason, AccountsAgree,
      InputReasons, None
<1> QED
  BY <1>1, <1>2, BridgeInvariant, PTL

\* No assertion of the bridge fires: what the user answers and what the agent
\* sends arrive only in the states that admit them, in any number of turns.
THEOREM NoAssertionFires ==
  Spec => [](OutcomeOnlyWhenAwaited /\ AgentEventsAdmitted /\ FlagsTrackSink)
<1>1. BridgeInv => OutcomeOnlyWhenAwaited
  BY DEF BridgeInv, TurnInv, AnswerInv, OutcomeOnlyWhenAwaited
<1>2. BridgeInv => AgentEventsAdmitted
  BY DEF BridgeInv, AdmitInv, AgentEventsAdmitted
<1>3. BridgeInv => FlagsTrackSink
  BY DEF BridgeInv, SinkInv, FlagsAgree, StreamOpen, FlagsTrackSink
<1> QED
  BY <1>1, <1>2, <1>3, BridgeInvariant, PTL

\* run() returns with the operation, the input task and the worker released
\* and the client told why.
THEOREM ReturnIsClean == Spec => []NothingLeftBehind
<1>1. BridgeInv => NothingLeftBehind
  BY DEF BridgeInv, PhaseInv, VerdictInv, AgentInv, NothingLeftBehind, None
<1> QED
  BY <1>1, BridgeInvariant, PTL

\* A ready input event starts no further work (bridge.py:391,
\* _race_operation).
THEOREM CancellationWins == Spec => ReadyInputStopsWork
<1>1. BridgeInv /\ [Next]_vars =>
        [pc = "race" /\ InputReady /\ op # op' =>
            op'.kind \in {op.kind, None, "cancel", "exit"}]_vars
  BY ReadyStep
<1> QED
  BY <1>1, BridgeInvariant, PTL DEF Spec, ReadyInputStopsWork

\* The bridge implements the abstract conversation: one worker, one verdict
\* that is never revised, and an end that waits for both.
THEOREM BridgeIsOutcome == Spec => ImplementsOutcome
<1>1. Init => O!Init
  BY DEF Init, O!Init, Worker
<1>2. BridgeInv /\ BridgeInv' /\ [Next]_vars => [O!Next]_(O!vars)
  BY OutcomeStep DEF BridgeInv
<1> QED
  BY <1>1, <1>2, BridgeInvariant, PTL DEF Spec, ImplementsOutcome, O!Spec

\* The agent as the bridge sees it keeps the contract of AgentPort.
THEOREM BridgeAgentIsPort == Spec => AgentKeepsPort
<1>1. Init => P!Init
  BY DEF Init, P!Init
<1>2. BridgeInv /\ [Next]_vars =>
        [P!Next]_(IF agent \in {"cancelled", "closed"} THEN "stopped" ELSE agent)
  BY PortStep DEF AgentAtPort, Stopped
<1> QED
  BY <1>1, <1>2, BridgeInvariant, PTL DEF Spec, AgentKeepsPort, P!Spec

\* Neither side breaks the contract of InputPort: the input as the bridge sees
\* it keeps it, and so does the bridge towards its input.
THEOREM BridgeInputIsPort == Spec => InputKeepsPort
<1>1. Init => QueueInv /\ IP!Init
  BY DEF Init, NoOp, None, QueueInv, IP!Init, IP!Nothing
<1>2. BridgeInv /\ QueueInv /\ [Next]_vars => QueueInv'
  BY QueueStep
<1>3. BridgeInv /\ QueueInv /\ [Next]_vars => [IP!Next]_(IP!portVars)
  BY InputPortStep DEF Heard, Queued, Awaited, IP!portVars
<1> QED
  BY <1>1, <1>2, <1>3, BridgeInvariant, PTL DEF Spec, InputKeepsPort, IP!Spec

\* At most one outcome is between the user and the bridge, and only while it
\* waits; a bridge that does not listen has nothing queued for it.
ContractInv ==
    /\ IP!OutcomesAwaited
    /\ Heard \in FollowUpEvents => Queued \notin FollowUpEvents
    /\ Heard = None => Queued = None

CloseStays ==
    Queued = "InputSessionClosed" /\ Queued' # "InputSessionClosed" =>
        Heard' \in {"InputSessionClosed", None}

LEMMA ContractStep ==
  ASSUME ContractInv, [IP!Next]_<<Heard, Queued, Awaited>>
  PROVE  ContractInv' /\ CloseStays
<1> USE DEF ContractInv, CloseStays, Heard, Queued, Awaited,
        IP!OutcomesAwaited, IP!Nothing, IP!Terminal, FollowUpEvents, None
<1>1. CASE IP!Begin
  BY <1>1 DEF IP!Begin
<1>2. CASE IP!Ask \/ IP!Withdraw
  BY <1>2 DEF IP!Ask, IP!Withdraw
<1>3. CASE IP!Acknowledge \/ IP!Answer
  BY <1>3 DEF IP!Acknowledge, IP!Answer
<1>4. CASE IP!Interrupt
  BY <1>4 DEF IP!Interrupt
<1>5. CASE IP!Hear \/ IP!Resume
  BY <1>5 DEF IP!Hear, IP!Resume
<1>6. CASE IP!GiveUp \/ UNCHANGED <<Heard, Queued, Awaited>>
  BY <1>6 DEF IP!GiveUp
<1> QED
  BY <1>1, <1>2, <1>3, <1>4, <1>5, <1>6 DEF IP!Next

\* What the contract is worth to the bridge: an answer, from the moment it
\* enters the queue, finds it waiting, and once the session's close is queued
\* nothing else reaches it.
THEOREM CloseReachesTheBridge ==
    Spec => []IP!OutcomesAwaited /\ IP!CloseComesThrough
<1>1. IP!Init => ContractInv
  BY DEF IP!Init, ContractInv, Heard, Queued, IP!OutcomesAwaited, IP!Nothing,
      FollowUpEvents, None
<1>2. ContractInv /\ [IP!Next]_(IP!portVars) => ContractInv' /\ CloseStays
  <2> SUFFICES ASSUME ContractInv, [IP!Next]_<<Heard, Queued, Awaited>>
               PROVE  ContractInv' /\ CloseStays
    BY DEF Heard, Queued, Awaited, IP!portVars
  <2> QED  BY ContractStep
<1>3. ContractInv => IP!OutcomesAwaited
  BY DEF ContractInv
<1>4. IP!Spec => []ContractInv
  BY <1>1, <1>2, PTL DEF IP!Spec
<1>5. ContractInv /\ [IP!Next]_(IP!portVars) =>
        [(Queued = "InputSessionClosed" /\ Queued' # "InputSessionClosed")
            => Heard' \in {"InputSessionClosed", None}]_(IP!portVars)
  BY <1>2 DEF CloseStays
<1>6. IP!Spec => IP!CloseComesThrough
  BY <1>4, <1>5, PTL DEF IP!Spec, IP!CloseComesThrough, Heard, Queued, None
<1> QED
  BY <1>3, <1>4, <1>6, BridgeInputIsPort, PTL DEF InputKeepsPort
=============================================================================
