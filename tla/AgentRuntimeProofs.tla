------------------------- MODULE AgentRuntimeProofs -------------------------
(***************************************************************************)
(* Proofs about an agent conversation, for agents with and without         *)
(* heartbeats.                                                             *)
(***************************************************************************)
EXTENDS AgentRuntime, TLAPS

Stopping == {"cancelling", "acknowledged", "closing", "left", "terminated"}

\* The bridge's calls, and the offer of a user message.
CallInv ==
    /\ bridge = "outside" <=> worker = "absent"
    /\ bridge \in {"acknowledged", "left"} => worker = "done"
    /\ bridge = "receiving" => heard \in InTurn
    /\ message # "none" => heard = "DELIVERING"
    /\ bridge = "delivering" <=> (message # "none" /\ bridge \notin Stopping)
    /\ message = "offered" => bridge = "delivering"
    /\ incomingClosed => worker = "done" \/ bridge \in Stopping
    /\ worker = "cancelled" \/ (worker = "joining" /\ resume = "cancelled") =>
            StopAsked
    /\ StopAsked /\ ~lost =>
            \/ worker \in {"starting", "cancelled", "done"}
            \/ worker = "joining" /\ resume = "cancelled"
    /\ bridge = "terminated" => lost

\* At most one offer is outstanding: the join in await_with_processing_updates
\* keeps the heartbeat's and the worker's apart.
OfferInv ==
    /\ outgoing \in {<<>>, <<"worker">>, <<"heartbeat">>}
    /\ worker \in {"sending", "reporting"} =>
            outgoing = <<"worker">> \/ "worker" \in taken
    /\ "worker" \in taken => worker \in {"sending", "reporting"}
    /\ outgoing = <<"worker">> =>
            worker \in {"sending", "reporting", "cancelled"}
    /\ (outgoing = <<"heartbeat">> \/ "heartbeat" \in taken) <=>
            heartbeat = "sending"
    /\ outgoing # <<>> => taken = {}
    /\ heartbeat # "none" <=> worker \in {"helped", "joining"}
    /\ heartbeat = "finished" => worker = "joining"
    /\ heartbeatCancel => worker = "joining" /\ heartbeat # "finished"
    /\ outgoingClosed => worker = "done"

\* What the bridge has heard, once an accepted message has been reported.
Turn == IF message = "accepted" THEN "WAITING_FOR_AGENT" ELSE heard

\* Where the turn is before the event on its way, and after it.
BeforeEvent ==
    CASE event \in {"ProcessingUpdate", "AssistantMessageStarted"} ->
            {"WAITING_FOR_AGENT"}
      [] event \in {"AssistantTextChunk", "AssistantMessageCompleted"} ->
            {"STREAMING_ASSISTANT"}
      [] OTHER -> {"WAITING_FOR_AGENT", "WAITING_FOR_DISPOSITION"}

AfterEvent ==
    CASE event = "ProcessingUpdate" -> "WAITING_FOR_AGENT"
      [] event \in {"AssistantMessageStarted", "AssistantTextChunk"} ->
            "STREAMING_ASSISTANT"
      [] event = "AssistantMessageCompleted" -> "WAITING_FOR_DISPOSITION"
      [] event = "EndConversation" -> "ENDED"
      [] OTHER -> "DELIVERING"

\* The worker, its channel and what the bridge has heard of the turn.
TurnInv ==
    /\ worker \in {"absent", "starting", "receiving"} =>
            WaitingForInput /\ ~streamOpen /\ Turn = "DELIVERING"
    /\ worker = "thinking" =>
            \/ ActiveTurn /\ Turn \in InTurn
                    /\ (streamOpen <=> Turn = "STREAMING_ASSISTANT")
            \/ WaitingForInput /\ ~streamOpen /\ Turn = "DELIVERING"
            \/ phase = "ENDED" /\ ~streamOpen /\ Turn = "ENDED"
    /\ worker \in {"helped", "joining"} =>
            ActiveTurn /\ ~streamOpen /\ Turn = "WAITING_FOR_AGENT"
    /\ worker = "sending" =>
            /\ ActiveTurn
            /\ event # "AgentConversationFailed"
            /\ streamOpen <=> event \in {"AssistantMessageStarted", "AssistantTextChunk"}
            /\ IF taken = {} THEN Turn \in BeforeEvent ELSE Turn = AfterEvent
    /\ worker = "reporting" =>
            /\ ActiveTurn
            /\ event = "AgentConversationFailed"
            /\ IF taken = {} THEN Turn \in InTurn ELSE Turn = "FAILED"
    /\ heard # "BROKEN"

\* How a worker that stopped by itself is heard of.
FailureInv ==
    /\ workerFailure => worker \in {"reporting", "cancelled", "done"}
    /\ worker = "reporting" => workerFailure
    /\ heard = "CUT" => worker = "done"
    /\ heard = "FAILED" => worker \in {"reporting", "done"}
    /\ workerFailure /\ worker = "done" /\ ActiveTurn =>
            heard = "FAILED" \/ (bridge \in Stopping /\ heard # "CUT")

\* The parts that fit together, apart from the types.
RuntimeParts == CallInv /\ OfferInv /\ TurnInv /\ FailureInv

RuntimeInv == TypeOK /\ RuntimeParts

-----------------------------------------------------------------------------
\* The queue never holds more than one offer.
LEMMA OneOffer ==
  ASSUME NEW s \in Senders
  PROVE  /\ Append(<<>>, s) = <<s>>
         /\ Head(<<s>>) = s
         /\ Tail(<<s>>) = <<>>
         /\ DOMAIN <<s>> = {1} /\ <<s>>[1] = s /\ <<s>> # <<>>
         /\ RemoveAt(<<s>>, 1) = <<>>
         /\ <<s>> \in Seq(Senders) /\ <<>> \in Seq(Senders)
BY DEF RemoveAt, Senders

\* Every step keeps the types, given that the queue of offers stays one.
LEMMA TypeStep ==
  ASSUME TypeOK, [Next]_vars, outgoing' \in Seq(Senders)
  PROVE  TypeOK'
<1> USE KindsAssumption DEF TypeOK, Events, Dispositions, InTurn, Senders,
        workerVars, channelVars, outgoingVars, bridgeVars
<1>1. ASSUME WorkerStarts, kind' = kind  PROVE  TypeOK'
  BY <1>1 DEF WorkerStarts, StopAsked
<1>2. ASSUME WorkerAccepts, kind' = kind  PROVE  TypeOK'
  BY <1>2 DEF WorkerAccepts
<1>3. ASSUME WorkerSent, kind' = kind  PROVE  TypeOK'
  BY <1>3 DEF WorkerSent, PhaseAfterSend
<1>4. ASSUME WorkerReported, kind' = kind  PROVE  TypeOK'
  BY <1>4 DEF WorkerReported, Unwind
<1>5. ASSUME Joined, kind' = kind  PROVE  TypeOK'
  <2>1. /\ workerFailure' \in BOOLEAN
        /\ incomingClosed' \in BOOLEAN
        /\ outgoingClosed' \in BOOLEAN
    BY <1>5 DEF Joined, Raise, Reports, Unwind, WaitingForInput
  <2> QED
    BY <1>5, <2>1 DEF Joined, Raise, Reports, Unwind
<1>6. ASSUME \E e \in Events : WorkerSends(e), kind' = kind  PROVE  TypeOK'
  <2>1. PICK e \in Events : WorkerSends(e)
    BY <1>6
  <2>2. streamOpen' \in BOOLEAN
    BY <2>1 DEF WorkerSends, StreamOpenAfter
  <2> QED
    BY <1>6, <2>1, <2>2 DEF WorkerSends
<1>7. ASSUME WorkerReceives, kind' = kind  PROVE  TypeOK'
  BY <1>7 DEF WorkerReceives
<1>8. ASSUME WorkerReturns, kind' = kind  PROVE  TypeOK'
  <2>1. /\ workerFailure' \in BOOLEAN
        /\ incomingClosed' \in BOOLEAN
        /\ outgoingClosed' \in BOOLEAN
    BY <1>8 DEF WorkerReturns, Unwind, WaitingForInput
  <2> QED
    BY <1>8, <2>1 DEF WorkerReturns, Unwind
<1>9. ASSUME WorkerRaises, kind' = kind  PROVE  TypeOK'
  <2>1. /\ workerFailure' \in BOOLEAN
        /\ incomingClosed' \in BOOLEAN
        /\ outgoingClosed' \in BOOLEAN
    BY <1>9 DEF WorkerRaises, Raise, Reports, Unwind, WaitingForInput
  <2> QED
    BY <1>9, <2>1 DEF WorkerRaises, Raise, Reports, Unwind
<1>10. ASSUME HelpStarts, kind' = kind  PROVE  TypeOK'
  <2>1. heartbeatCancel' \in BOOLEAN
    BY <1>10 DEF HelpStarts, StreamHeard, WaitingForInput
  <2> QED
    BY <1>10, <2>1 DEF HelpStarts, StreamHeard
<1>11. ASSUME \E how \in {"value", "raise"} : HelpEnds(how), kind' = kind  PROVE  TypeOK'
  BY <1>11 DEF HelpEnds, Joins
<1>12. ASSUME HeartbeatBeats, kind' = kind  PROVE  TypeOK'
  BY <1>12 DEF HeartbeatBeats
<1>13. ASSUME HeartbeatSent, kind' = kind  PROVE  TypeOK'
  <2>1. heartbeatCancel' \in BOOLEAN
    BY <1>13 DEF HeartbeatSent, WaitingForInput
  <2> QED
    BY <1>13, <2>1 DEF HeartbeatSent
<1>14. ASSUME HeartbeatStops, kind' = kind  PROVE  TypeOK'
  <2>1. heartbeatCancel' \in BOOLEAN
    BY <1>14 DEF HeartbeatStops, WaitingForInput
  <2> QED
    BY <1>14, <2>1 DEF HeartbeatStops
<1>15. ASSUME Delivered, kind' = kind  PROVE  TypeOK'
  BY <1>15 DEF Delivered
<1>16. ASSUME ReceiveEvent, kind' = kind  PROVE  TypeOK'
  BY <1>16 DEF ReceiveEvent, EventOf, HeardAfter
<1>17. ASSUME ReceiveFindsClosed, kind' = kind  PROVE  TypeOK'
  BY <1>17 DEF ReceiveFindsClosed
<1>18. ASSUME Acknowledged, kind' = kind  PROVE  TypeOK'
  BY <1>18 DEF Acknowledged
<1>19. ASSUME Closed, kind' = kind  PROVE  TypeOK'
  BY <1>19 DEF Closed
<1>20. ASSUME Enter, kind' = kind  PROVE  TypeOK'
  BY <1>20 DEF Enter
<1>21. ASSUME Deliver, kind' = kind  PROVE  TypeOK'
  BY <1>21 DEF Deliver
<1>22. ASSUME Receive, kind' = kind  PROVE  TypeOK'
  BY <1>22 DEF Receive
<1>23. ASSUME Cancel, kind' = kind  PROVE  TypeOK'
  <2>1. heartbeatCancel' \in BOOLEAN /\ lost' \in BOOLEAN
    BY <1>23
    DEF Cancel, SenderResumed, CancelWorker, PassesOn, MayDrain, Joins,
        WaitingForInput
  <2> QED
    BY <1>23, <2>1
    DEF Cancel, SenderResumed, CancelWorker, PassesOn, MayDrain, Joins
<1>24. ASSUME Close, kind' = kind  PROVE  TypeOK'
  <2>1. heartbeatCancel' \in BOOLEAN /\ lost' \in BOOLEAN
    BY <1>24
    DEF Close, SenderResumed, CancelWorker, PassesOn, MayDrain, Joins,
        WaitingForInput
  <2> QED
    BY <1>24, <2>1 DEF Close, SenderResumed, CancelWorker, PassesOn, MayDrain, Joins
<1>25. ASSUME DeadlineExpired, kind' = kind  PROVE  TypeOK'
  BY <1>25 DEF DeadlineExpired, StopsByItself
<1>26. ASSUME WorkerStopped, kind' = kind  PROVE  TypeOK'
  BY <1>26 DEF WorkerStopped, Unwind
<1>27. CASE UNCHANGED vars
  BY <1>27 DEF vars
<1> QED
  BY <1>1, <1>2, <1>3, <1>4, <1>5, <1>6, <1>7, <1>8, <1>9, <1>10, <1>11, <1>12,
     <1>13, <1>14, <1>15, <1>16, <1>17, <1>18, <1>19, <1>20, <1>21, <1>22,
     <1>23, <1>24, <1>25, <1>26, <1>27
  DEF Next, WorkerResumes, WorkerDecides, HeartbeatResumes, BridgeResumes,
      BridgeCalls, Over
\* Every step keeps the parts of the invariant.
LEMMA PartsStep ==
  ASSUME RuntimeInv, [Next]_vars
  PROVE  RuntimeParts'
<1> USE KindsAssumption, OneOffer DEF RuntimeParts, RuntimeInv, TypeOK,
        Stopping, StopAsked, CallInv, OfferInv, Turn, BeforeEvent, AfterEvent,
        TurnInv, FailureInv, Events, Dispositions, InTurn, Senders, ActiveTurn,
        WaitingForInput, workerVars, channelVars, outgoingVars, bridgeVars
<1>1. ASSUME WorkerStarts, kind' = kind  PROVE  RuntimeParts'
  BY <1>1 DEF WorkerStarts, StopAsked
<1>2. ASSUME WorkerAccepts, kind' = kind  PROVE  RuntimeParts'
  BY <1>2 DEF WorkerAccepts
<1>3. ASSUME WorkerSent, kind' = kind  PROVE  RuntimeParts'
  BY <1>3 DEF WorkerSent, PhaseAfterSend
<1>4. ASSUME WorkerReported, kind' = kind  PROVE  RuntimeParts'
  BY <1>4 DEF WorkerReported, Unwind
<1>5. ASSUME Joined, kind' = kind  PROVE  RuntimeParts'
  BY <1>5 DEF Joined, Raise, Reports, Unwind
<1>6. ASSUME \E e \in Events : WorkerSends(e), kind' = kind  PROVE  RuntimeParts'
  <2>1. PICK e \in Events : WorkerSends(e)
    BY <1>6
  <2>2. outgoing = <<>> /\ outgoing' = <<"worker">>
    BY <2>1 DEF WorkerSends
  <2>3. CallInv' /\ FailureInv'
    BY <2>1 DEF WorkerSends
  <2>4. OfferInv'
    BY <2>1, <2>2 DEF WorkerSends
  <2>5. TurnInv'
    BY <2>1 DEF WorkerSends, MaySend, StreamHeard, StreamOpenAfter
  <2> QED  BY <2>3, <2>4, <2>5
<1>7. ASSUME WorkerReceives, kind' = kind  PROVE  RuntimeParts'
  BY <1>7 DEF WorkerReceives
<1>8. ASSUME WorkerReturns, kind' = kind  PROVE  RuntimeParts'
  BY <1>8 DEF WorkerReturns, Unwind
<1>9. ASSUME WorkerRaises, kind' = kind  PROVE  RuntimeParts'
  BY <1>9 DEF WorkerRaises, Raise, Reports, Unwind
<1>10. ASSUME HelpStarts, kind' = kind  PROVE  RuntimeParts'
  BY <1>10 DEF HelpStarts, StreamHeard
<1>11. ASSUME \E how \in {"value", "raise"} : HelpEnds(how), kind' = kind  PROVE  RuntimeParts'
  BY <1>11 DEF HelpEnds, Joins
<1>12. ASSUME HeartbeatBeats, kind' = kind  PROVE  RuntimeParts'
  BY <1>12 DEF HeartbeatBeats
<1>13. ASSUME HeartbeatSent, kind' = kind  PROVE  RuntimeParts'
  BY <1>13 DEF HeartbeatSent
<1>14. ASSUME HeartbeatStops, kind' = kind  PROVE  RuntimeParts'
  BY <1>14 DEF HeartbeatStops
<1>15. ASSUME Delivered, kind' = kind  PROVE  RuntimeParts'
  BY <1>15 DEF Delivered
<1>16. ASSUME ReceiveEvent, kind' = kind  PROVE  RuntimeParts'
  BY <1>16 DEF ReceiveEvent, EventOf, HeardAfter
<1>17. ASSUME ReceiveFindsClosed, kind' = kind  PROVE  RuntimeParts'
  BY <1>17 DEF ReceiveFindsClosed
<1>18. ASSUME Acknowledged, kind' = kind  PROVE  RuntimeParts'
  BY <1>18 DEF Acknowledged
<1>19. ASSUME Closed, kind' = kind  PROVE  RuntimeParts'
  BY <1>19 DEF Closed
<1>20. ASSUME Enter, kind' = kind  PROVE  RuntimeParts'
  BY <1>20 DEF Enter
<1>21. ASSUME Deliver, kind' = kind  PROVE  RuntimeParts'
  BY <1>21 DEF Deliver
<1>22. ASSUME Receive, kind' = kind  PROVE  RuntimeParts'
  BY <1>22 DEF Receive
<1>23. ASSUME Cancel, kind' = kind  PROVE  RuntimeParts'
  BY <1>23 DEF Cancel, SenderResumed, CancelWorker, PassesOn, MayDrain, Joins
<1>24. ASSUME Close, kind' = kind  PROVE  RuntimeParts'
  BY <1>24 DEF Close, SenderResumed, CancelWorker, PassesOn, MayDrain, Joins
<1>25. ASSUME DeadlineExpired, kind' = kind  PROVE  RuntimeParts'
  BY <1>25 DEF DeadlineExpired, StopsByItself
<1>26. ASSUME WorkerStopped, kind' = kind  PROVE  RuntimeParts'
  BY <1>26 DEF WorkerStopped, Unwind
<1>27. CASE UNCHANGED vars
  BY <1>27 DEF vars
<1> QED
  BY <1>1, <1>2, <1>3, <1>4, <1>5, <1>6, <1>7, <1>8, <1>9, <1>10, <1>11, <1>12,
     <1>13, <1>14, <1>15, <1>16, <1>17, <1>18, <1>19, <1>20, <1>21, <1>22,
     <1>23, <1>24, <1>25, <1>26, <1>27
  DEF Next, WorkerResumes, WorkerDecides, HeartbeatResumes, BridgeResumes,
      BridgeCalls, Over

-----------------------------------------------------------------------------
(* The worker behind its channel is an AgentPort                           *)

\* Every step is one of the port's or leaves what the bridge sees of the
\* agent alone.
LEMMA PortStep ==
  ASSUME RuntimeInv, [Next]_vars
  PROVE  [P!Next]_Agent
<1> USE DEF RuntimeInv, RuntimeParts, TypeOK, Stopping, StopAsked, CallInv, OfferInv,
        Turn, BeforeEvent, AfterEvent, TurnInv, FailureInv, Events,
        Dispositions, InTurn, Senders, ActiveTurn, WaitingForInput, workerVars,
        channelVars, outgoingVars, bridgeVars, Agent, P!Next, P!Enter,
        P!Accept, P!Emit, P!Fail, P!Stop, P!Step, P!Running
<1>1. ASSUME WorkerStarts, kind' = kind  PROVE  [P!Next]_Agent
  BY <1>1, OneOffer DEF WorkerStarts, StopAsked
<1>2. ASSUME WorkerAccepts, kind' = kind  PROVE  [P!Next]_Agent
  BY <1>2, OneOffer DEF WorkerAccepts
<1>3. ASSUME WorkerSent, kind' = kind  PROVE  [P!Next]_Agent
  BY <1>3, OneOffer DEF WorkerSent, PhaseAfterSend
<1>4. ASSUME WorkerReported, kind' = kind  PROVE  [P!Next]_Agent
  BY <1>4, OneOffer DEF WorkerReported, Unwind
<1>5. ASSUME Joined, kind' = kind  PROVE  [P!Next]_Agent
  BY <1>5, OneOffer DEF Joined, Raise, Reports, Unwind
<1>6. ASSUME \E e \in Events : WorkerSends(e), kind' = kind  PROVE  [P!Next]_Agent
  BY <1>6, OneOffer DEF WorkerSends, MaySend, StreamHeard, StreamOpenAfter
<1>7. ASSUME WorkerReceives, kind' = kind  PROVE  [P!Next]_Agent
  BY <1>7, OneOffer DEF WorkerReceives
<1>8. ASSUME WorkerReturns, kind' = kind  PROVE  [P!Next]_Agent
  BY <1>8, OneOffer DEF WorkerReturns, Unwind
<1>9. ASSUME WorkerRaises, kind' = kind  PROVE  [P!Next]_Agent
  BY <1>9, OneOffer DEF WorkerRaises, Raise, Reports, Unwind
<1>10. ASSUME HelpStarts, kind' = kind  PROVE  [P!Next]_Agent
  BY <1>10, OneOffer DEF HelpStarts, StreamHeard
<1>11. ASSUME \E how \in {"value", "raise"} : HelpEnds(how), kind' = kind  PROVE  [P!Next]_Agent
  BY <1>11, OneOffer DEF HelpEnds, Joins
<1>12. ASSUME HeartbeatBeats, kind' = kind  PROVE  [P!Next]_Agent
  BY <1>12, OneOffer DEF HeartbeatBeats
<1>13. ASSUME HeartbeatSent, kind' = kind  PROVE  [P!Next]_Agent
  BY <1>13, OneOffer DEF HeartbeatSent
<1>14. ASSUME HeartbeatStops, kind' = kind  PROVE  [P!Next]_Agent
  BY <1>14, OneOffer DEF HeartbeatStops
<1>15. ASSUME Delivered, kind' = kind  PROVE  [P!Next]_Agent
  BY <1>15, OneOffer DEF Delivered
<1>16. ASSUME ReceiveEvent, kind' = kind  PROVE  [P!Next]_Agent
  BY <1>16, OneOffer DEF ReceiveEvent, EventOf, HeardAfter
<1>17. ASSUME ReceiveFindsClosed, kind' = kind  PROVE  [P!Next]_Agent
  BY <1>17, OneOffer DEF ReceiveFindsClosed
<1>18. ASSUME Acknowledged, kind' = kind  PROVE  [P!Next]_Agent
  BY <1>18, OneOffer DEF Acknowledged
<1>19. ASSUME Closed, kind' = kind  PROVE  [P!Next]_Agent
  BY <1>19, OneOffer DEF Closed
<1>20. ASSUME Enter, kind' = kind  PROVE  [P!Next]_Agent
  BY <1>20, OneOffer DEF Enter
<1>21. ASSUME Deliver, kind' = kind  PROVE  [P!Next]_Agent
  BY <1>21, OneOffer DEF Deliver
<1>22. ASSUME Receive, kind' = kind  PROVE  [P!Next]_Agent
  BY <1>22, OneOffer DEF Receive
<1>23. ASSUME Cancel, kind' = kind  PROVE  [P!Next]_Agent
  BY <1>23, OneOffer
  DEF Cancel, SenderResumed, CancelWorker, PassesOn, MayDrain, Joins
<1>24. ASSUME Close, kind' = kind  PROVE  [P!Next]_Agent
  BY <1>24, OneOffer
  DEF Close, SenderResumed, CancelWorker, PassesOn, MayDrain, Joins
<1>25. ASSUME DeadlineExpired, kind' = kind  PROVE  [P!Next]_Agent
  BY <1>25, OneOffer DEF DeadlineExpired, StopsByItself
<1>26. ASSUME WorkerStopped, kind' = kind  PROVE  [P!Next]_Agent
  BY <1>26, OneOffer DEF WorkerStopped, Unwind
<1>27. CASE UNCHANGED vars
  BY <1>27 DEF vars
<1> QED
  BY <1>1, <1>2, <1>3, <1>4, <1>5, <1>6, <1>7, <1>8, <1>9, <1>10, <1>11, <1>12,
     <1>13, <1>14, <1>15, <1>16, <1>17, <1>18, <1>19, <1>20, <1>21, <1>22,
     <1>23, <1>24, <1>25, <1>26, <1>27
  DEF Next, WorkerResumes, WorkerDecides, HeartbeatResumes, BridgeResumes,
      BridgeCalls, Over

-----------------------------------------------------------------------------
(* The theorems                                                            *)

LEMMA RuntimeInvariant == Spec => []RuntimeInv
<1>1. Init => RuntimeInv
  BY OneOffer
  DEF Init, RuntimeInv, RuntimeParts, TypeOK, Stopping, StopAsked, CallInv,
      OfferInv, Turn, TurnInv, FailureInv, Events, Dispositions, InTurn, Senders,
      WaitingForInput
<1>2. RuntimeInv /\ [Next]_vars => RuntimeInv'
  <2> SUFFICES ASSUME RuntimeInv, [Next]_vars  PROVE RuntimeInv'
    OBVIOUS
  <2>1. RuntimeParts'
    BY PartsStep
  <2>2. outgoing' \in Seq(Senders)
    BY <2>1, OneOffer DEF RuntimeParts, OfferInv, Senders
  <2> QED
    BY <2>1, <2>2, TypeStep DEF RuntimeInv
<1> QED
  BY <1>1, <1>2, PTL DEF Spec

\* Every variable of the worker, its channel, the two rendezvous and the
\* bridge's calls keeps its type.
THEOREM RuntimeTypes == Spec => []TypeOK
<1>1. RuntimeInv => TypeOK
  BY DEF RuntimeInv
<1> QED
  BY <1>1, RuntimeInvariant, PTL

\* cancel() and close() of _ActiveAgentConversation return only when neither
\* the worker nor its heartbeat runs (agent_runtime.py:171, :187).
THEOREM StoppedIsQuiet == Spec => []QuietWhenStopped
<1>1. RuntimeInv => QuietWhenStopped
  BY DEF RuntimeInv, RuntimeParts, TypeOK, CallInv, OfferInv, QuietWhenStopped
<1> QED
  BY <1>1, RuntimeInvariant, PTL

\* The join of await_with_processing_updates keeps progress reports out of
\* the stream: every event reaches the bridge in a state that admits it, and
\* between two events both sides agree where in the turn they are.
THEOREM EventsFit == Spec => [](EventsAdmitted /\ ChannelAgreesWithBridge)
<1>1. RuntimeInv => EventsAdmitted
  BY DEF RuntimeInv, RuntimeParts, TurnInv, EventsAdmitted
<1>2. RuntimeInv => ChannelAgreesWithBridge
  BY DEF RuntimeInv, RuntimeParts, TypeOK, CallInv, TurnInv, Turn, InTurn,
      ActiveTurn, WaitingForInput, ChannelAgreesWithBridge
<1> QED
  BY <1>1, <1>2, RuntimeInvariant, PTL

\* A worker that raises in a turn is heard as AgentConversationFailed (_run,
\* agent_runtime.py:198).
THEOREM FailuresAreHeard == Spec => []FailureIsReported
<1>1. RuntimeInv => FailureIsReported
  BY DEF RuntimeInv, RuntimeParts, FailureInv, ActiveTurn, FailureIsReported
<1> QED
  BY <1>1, RuntimeInvariant, PTL

\* The deadline of cancel() and close() ends the process only when the
\* CancelledError was dropped, in the join of a heartbeat (processing.py:70)
\* or in the drain of a model race (agent_loop_ollama_connection.py:253).
THEOREM OnlyLostStopsExpire == Spec => [](bridge = "terminated" => lost)
<1>1. RuntimeInv => (bridge = "terminated" => lost)
  BY DEF RuntimeInv, RuntimeParts, CallInv
<1> QED
  BY <1>1, RuntimeInvariant, PTL

\* An agent conversation of agent_runtime.py keeps the contract the bridge
\* relies on, whatever its heartbeat, its failures and the bridge's
\* cancellation do.
THEOREM RuntimeIsPort == Spec => ImplementsPort
<1>1. Init => P!Init
  BY DEF Init, P!Init, Agent
<1>2. RuntimeInv /\ [Next]_vars => [P!Next]_Agent
  BY PortStep
<1> QED
  BY <1>1, <1>2, RuntimeInvariant, PTL DEF Spec, ImplementsPort, P!Spec
=============================================================================
