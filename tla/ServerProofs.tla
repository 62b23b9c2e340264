---------------------------- MODULE ServerProofs ----------------------------
(***************************************************************************)
(* Proofs about the server: the order in which its resources are opened    *)
(* and closed, and the websocket sessions it serves.                       *)
(***************************************************************************)
EXTENDS WebsocketSession, ServerLifecycle, TLAPS

-----------------------------------------------------------------------------
(* The lifecycle                                                           *)

\* What is open where run_server() is: the start-up opens in one order, a
\* manager is dropped only before the websocket is opened, and the shared
\* resources are not closed before the inputs that are known have been.
LifecycleInv ==
    /\ ServerTypeOK
    /\ SharedOutlivesInputs
    /\ sAt = "home" => open = {"ollama"}
    /\ sAt = "agent" => open = {"home", "ollama"}
    /\ sAt \in {"residency", "microphones", "setup", "site", "abandoning", "serving"} =>
            {"home", "agent"} \subseteq open
    /\ sAt \in {"residency", "microphones"} => open \cap Inputs = {}
    /\ sAt \in (StartUp \ {"abandoning"}) \cup {"serving"} => ~dropped
    /\ dropped => "websocket" \notin open
    /\ sAt # "over" => "ollama" \in open
    /\ sAt \in CloseDown => \A i \in Inputs : inputs[i] = "closed" => i \notin Known
    /\ sAt = "cancelled" => deadline = "expired"
    /\ sAt = "closeAgent" => Known \cap Inputs = {}
    /\ sAt = "closeHome" => Known \subseteq {"home", "ollama"}
    /\ sAt = "closeOllama" => Known \cap Inputs = {} \/ OneHasRaised

\* A step of run_server(), or of a close it waits for, keeps it.
LEMMA LifecycleStep ==
  ASSUME LifecycleInv, ServerNext
  PROVE  LifecycleInv'
<1> USE DEF LifecycleInv, ServerTypeOK, SharedOutlivesInputs, Inputs, StartUp,
        CloseDown, Goes, Fails, Opens, Known, OneHasRaised
<1>1. CASE StartHome \/ StartAgent \/ StartResidency
  <2>1. CASE StartHome
    <3>1. open' = {"home", "ollama"} /\ sAt' \in {"agent", "finally"}
      BY <2>1 DEF StartHome
    <3> QED  BY <2>1, <3>1 DEF StartHome
  <2>2. CASE StartAgent
    <3>1. \/ open' = {"home", "ollama", "agent"} /\ sAt' = "residency"
          \/ open' = {"home", "ollama"} /\ sAt' = "finally"
      BY <2>2 DEF StartAgent
    <3> QED  BY <2>2, <3>1 DEF StartAgent
  <2>3. CASE StartResidency
    BY <2>3 DEF StartResidency
  <2> QED  BY <1>1, <2>1, <2>2, <2>3
<1>2. CASE ResidencyFails \/ FirstSignal \/ SecondSignal \/ ServingEnds
  <2>1. CASE ResidencyFails
    BY <2>1 DEF ResidencyFails
  <2>2. CASE FirstSignal
    BY <2>2 DEF FirstSignal
  <2>3. CASE SecondSignal
    BY <2>3 DEF SecondSignal
  <2>4. CASE ServingEnds
    BY <2>4 DEF ServingEnds
  <2> QED  BY <1>2, <2>1, <2>2, <2>3, <2>4
<1>3. CASE OperationDone \/ OperationFails \/ OperationAbandoned \/ StartUpInterrupted
  <2> USE DEF OperationDone, OperationFails, OperationAbandoned,
          StartUpInterrupted, Abandons, AfterStep
  <2>1. sAt \in {"microphones", "setup", "site"}
    BY <1>3
  <2>2. sAt' \in {"setup", "site", "serving", "abandoning", "finally"}
    BY <1>3
  <2>3. /\ open \subseteq open'
        /\ open' \subseteq open \cup Inputs
        /\ UNCHANGED <<residency, inputs, deadline, exit>>
        /\ signalled' \in {signalled, "no"}
        /\ raised' \in {raised, "error"}
    BY <1>3 DEF Begun
  <2>4. \/ dropped' = dropped
        \/ /\ dropped' = TRUE /\ sAt = "microphones" /\ sAt' = "finally"
           /\ open' = open \cup {"microphones"}
    BY <1>3
  <2>5. {"home", "agent", "ollama"} \subseteq open'
    BY <2>1, <2>3
  <2>6. /\ sAt' # "finally" => ~dropped'
        /\ dropped' => "websocket" \notin open'
    BY <2>1, <2>4
  <2>7. ServerTypeOK'
    <3>1. dropped' \in BOOLEAN
      BY <2>4
    <3>2. raised' \in {"no", "error", "cut"}
      BY <2>3
    <3>3. open' \subseteq Inputs \cup {"home", "agent", "ollama"}
      BY <2>3
    <3> QED  BY <2>2, <2>3, <3>1, <3>2, <3>3
  <2> QED  BY <2>2, <2>5, <2>6, <2>7
<1>4. CASE CloseBegins
  BY <1>4 DEF CloseBegins
<1>5. CASE \E i \in Inputs : InputCloses(i)
  <2>1. PICK i \in Inputs : InputCloses(i)
    BY <1>5
  <2>2. CASE inputs' = [inputs EXCEPT ![i] = "closed"] /\ open' = open \ {i}
    BY <2>1, <2>2 DEF InputCloses
  <2>3. CASE inputs' = [inputs EXCEPT ![i] = "raised"] /\ open' = open
    BY <2>1, <2>3 DEF InputCloses
  <2> QED  BY <2>1, <2>2, <2>3 DEF InputCloses
<1>6. CASE InputsClosed
  BY <1>6 DEF InputsClosed, AllHaveClosed
<1>7. CASE SharedCloses
  <2>1. /\ sAt \in {"closeAgent", "closeHome"} /\ Known \cap Inputs = {}
        /\ UNCHANGED <<dropped, residency, signalled, inputs, deadline, exit>>
    BY <1>7 DEF SharedCloses, NextClose
  <2>2. CASE /\ sAt = "closeAgent" /\ sAt' = "closeHome"
             /\ open' = open \ {"agent"} /\ raised' = raised
    BY <2>1, <2>2
  <2>3. CASE /\ sAt = "closeHome" /\ sAt' = "closeOllama"
             /\ open' = open \ {"home"} /\ raised' = raised
    BY <2>1, <2>3
  <2>4. CASE sAt' = "closeOllama" /\ raised' \in {"error", "cut"} /\ open' = open
    BY <2>1, <2>4
  <2> QED
    BY <1>7, <2>1, <2>2, <2>3, <2>4
    DEF SharedCloses, NextClose, ClosedThere, MayRaise
<1>8. CASE OllamaCloses
  BY <1>8 DEF OllamaCloses
<1>9. CASE DeadlineExpires
  <2>1. /\ UNCHANGED <<open, dropped, residency, signalled, inputs, raised>>
        /\ deadline' = "expired"
    BY <1>9 DEF DeadlineExpires
  <2>2. sAt \in CloseDown \ {"cancelled"}
    BY <1>9 DEF DeadlineExpires, Expires
  <2>3. DOMAIN NextClose = {"closeAgent", "closeHome"}
    BY DEF NextClose
  <2>4. /\ sAt' \in {"cancelled", "over", sAt}
        /\ exit' \in {exit, "hard"}
    BY <1>9, <2>2, <2>3 DEF DeadlineExpires
  <2> QED  BY <2>1, <2>2, <2>4
<1>10. CASE InputsCancelled
  BY <1>10 DEF InputsCancelled, AllHaveClosed, MayRaise
<1>11. CASE AbandonedEnds
  BY <1>11 DEF AbandonedEnds
<1> QED
  BY <1>1, <1>2, <1>3, <1>4, <1>5, <1>6, <1>7, <1>8, <1>9, <1>10, <1>11
  DEF ServerNext

\* The agent and the connection to Home Assistant outlive the microphones and
\* the websocket that run_server() knows, whatever fails, hangs, interrupts, is
\* signalled or runs out of time, and so does the connection to Ollama unless
\* the close of an input raises (server.py:220-234).
THEOREM InputsCloseFirst == ServerSpec => []SharedOutlivesInputs
<1>1. ServerInit => LifecycleInv
  BY DEF ServerInit, LifecycleInv, ServerTypeOK, SharedOutlivesInputs, Inputs,
      StartUp, CloseDown, Known
<1>2. LifecycleInv /\ [ServerNext]_serverVars => LifecycleInv'
  <2>1. CASE UNCHANGED serverVars
    BY <2>1 DEF serverVars, LifecycleInv, ServerTypeOK, SharedOutlivesInputs,
        Known, OneHasRaised
  <2> QED  BY <2>1, LifecycleStep
<1>3. LifecycleInv => SharedOutlivesInputs
  BY DEF LifecycleInv
<1> QED
  BY <1>1, <1>2, <1>3, PTL DEF ServerSpec

-----------------------------------------------------------------------------
(* The websocket sessions                                                  *)

Frames == {"SessionStart", "conversation", "InputSessionClosed"}

Holds(s, e) == \E i \in 1..Len(s) : s[i] = e

\* Nothing but the close is twice in the queue.
OnlyOnce(s) ==
    \A i, j \in 1..Len(s) :
        s[i] = s[j] /\ s[i] # "InputSessionClosed" => i = j

\* What a put and a get do to a queue.
LEMMA PutKeeps ==
  ASSUME NEW s \in Seq(Frames), NEW x \in Frames
  PROVE  /\ Append(s, x) \in Seq(Frames)
         /\ \A e \in Frames : Holds(Append(s, x), e) <=> Holds(s, e) \/ e = x
         /\ OnlyOnce(s) /\ ~Holds(s, x) => OnlyOnce(Append(s, x))
<1>1. /\ Append(s, x) \in Seq(Frames)
      /\ Len(Append(s, x)) = Len(s) + 1
      /\ \A i \in 1..Len(s) : Append(s, x)[i] = s[i]
      /\ Append(s, x)[Len(s) + 1] = x
      /\ Len(s) \in Nat
  OBVIOUS
<1>2. \A i \in 1..(Len(s) + 1) : i \in 1..Len(s) \/ i = Len(s) + 1
  BY <1>1
<1>3. 1..Len(s) \subseteq 1..(Len(s) + 1) /\ Len(s) + 1 \in 1..(Len(s) + 1)
  BY <1>1
<1>4. ASSUME NEW e \in Frames
      PROVE  Holds(Append(s, x), e) <=> Holds(s, e) \/ e = x
  BY <1>1, <1>2, <1>3 DEF Holds
<1>5. ASSUME OnlyOnce(s), ~Holds(s, x)
      PROVE  OnlyOnce(Append(s, x))
  BY <1>1, <1>2, <1>3, <1>5 DEF Holds, OnlyOnce
<1> QED  BY <1>1, <1>4, <1>5

\* The head is taken, and what is left was there.
LEMMA GetKeeps ==
  ASSUME NEW s \in Seq(Frames), s # <<>>
  PROVE  /\ Head(s) \in Frames /\ Tail(s) \in Seq(Frames)
         /\ Holds(s, Head(s))
         /\ \A e \in Frames : Holds(Tail(s), e) => Holds(s, e)
         /\ OnlyOnce(s) =>
                /\ OnlyOnce(Tail(s))
                /\ Head(s) # "InputSessionClosed" => ~Holds(Tail(s), Head(s))
<1>1. /\ Head(s) = s[1] /\ Head(s) \in Frames /\ Tail(s) \in Seq(Frames)
      /\ Len(s) \in Nat /\ Len(s) >= 1
      /\ Len(Tail(s)) = Len(s) - 1
      /\ \A i \in 1..(Len(s) - 1) : Tail(s)[i] = s[i + 1]
  OBVIOUS
<1>2. 1 \in 1..Len(s) /\ \A i \in 1..(Len(s) - 1) : i + 1 \in 1..Len(s)
  BY <1>1
<1>3. OnlyOnce(s) => OnlyOnce(Tail(s))
  BY <1>1, <1>2 DEF OnlyOnce
<1>4. ASSUME OnlyOnce(s), Head(s) # "InputSessionClosed"
      PROVE  ~Holds(Tail(s), Head(s))
  BY <1>1, <1>2, <1>4 DEF OnlyOnce, Holds
<1>5. Holds(s, Head(s))
  BY <1>1, <1>2 DEF Holds
<1>6. \A e \in Frames : Holds(Tail(s), e) => Holds(s, e)
  BY <1>1, <1>2 DEF Holds
<1> QED  BY <1>1, <1>3, <1>4, <1>5, <1>6

\* The two queues that are written down as such.
LEMMA FewFrames ==
  /\ <<>> \in Seq(Frames) /\ <<"InputSessionClosed">> \in Seq(Frames)
  /\ \A e \in Frames : ~Holds(<<>>, e)
  /\ \A e \in Frames : Holds(<<"InputSessionClosed">>, e)
                            <=> e = "InputSessionClosed"
  /\ OnlyOnce(<<>>) /\ OnlyOnce(<<"InputSessionClosed">>)
BY DEF Frames, Holds, OnlyOnce

\* What is queued for the handler, and where it takes it.
QueueInv ==
    /\ incoming \in Seq(Frames)
    /\ OnlyOnce(incoming)
    /\ Holds(incoming, "SessionStart") =>
            handshaken /\ handler \in {"start", "close", "done"}
    /\ Holds(incoming, "conversation") =>
            active /\ handler \in {"ready", "accept", "close", "done"}

\* A conversation is active from its commit to the end of its scope.
ScopeInv ==
    /\ scopeExited = ~active
    /\ handler \in {"started", "exit", "terminated"} \cup BridgePCs => active
    /\ handler \in {"start", "accepted"} => ~active
    /\ handler \notin {"start", "close", "done"} => handshaken
    /\ handler \notin {"exit", "terminated"} \cup BridgePCs => heard = None
    /\ state \in InConversation => active
    /\ finish \in {"transport", "done"} => ~transport /\ ~active

AfterRequest == {"ending", "exit"}

\* The states in which the handler can be at an await.
PlaceInv ==
    /\ state = "HANDSHAKE" => handler \in {"start", "accepted", "close", "done"}
    /\ state = "ACCEPTING" =>
            ~active /\ handler \in {"ready", "accept", "close", "done"}
    /\ state = "FOLLOW_UP_COMMITTING" =>
            handler \in {"requesting", "requested"} \cup AfterRequest
    /\ state = "AWAITING_FOLLOW_UP" => handler \in {"awaiting"} \cup AfterRequest
    /\ state \in Interval /\ handler \in AfterRequest => heard # "pending"

\* An outcome is on its way only to a bridge that waits for it.
AnswerInv ==
    /\ \A o \in Outcomes : control = <<o>> =>
            /\ state \in {"ACTIVE"} \cup Closing
            /\ handler \in {"awaiting"} \cup AfterRequest
            /\ handler \in AfterRequest => heard # "pending"
            /\ heard # "UserMessage"
    /\ heard \in Outcomes =>
            /\ state \in {"ACTIVE"} \cup Closing
            /\ handler \in {"awaiting"} \cup AfterRequest

\* An outcome is held back only while nothing else is on its way: the frames
\* of one burst cancel the lease or commit the outcome.
HeldInv ==
    /\ burst /\ state = "FOLLOW_UP_COMMITTING" => committed \/ lease = None
    /\ state = "FOLLOW_UP_COMMITTING" /\ retained # None /\ heard = "pending" =>
            control = <<>>

\* The bridge of a session that closes has heard of it or is going to.
CloseInv ==
    state \in Closing /\ active =>
        control = <<"InputSessionClosed">> \/ heard = "InputSessionClosed"

\* TypeOK in two parts; QueueInv has the type of the queue.
FlagsOK ==
    /\ handshaken \in BOOLEAN /\ active \in BOOLEAN /\ scopeExited \in BOOLEAN
    /\ committed \in BOOLEAN /\ retired \in BOOLEAN /\ burst \in BOOLEAN
    /\ transport \in BOOLEAN

FieldsOK ==
    /\ state \in States
    /\ control = <<>> \/ \E e \in ControlEvents : control = <<e>>
    /\ retained \in Outcomes \cup {None}
    /\ lease \in {None, "running", "expiring"}
    /\ handler \in {"start", "accepted", "ready", "accept", "started",
                    "exit", "close", "done", "terminated"} \cup BridgePCs
    /\ write \in {None, "queued", "begun", "written", "reset"}
    /\ heard \in {None, "pending"} \cup ControlEvents
    /\ reader \in {"receiving", "rejecting", "done"}
    /\ finish \in {None, "reader", "retired", "scope", "transport", "done"}
    /\ failure \in {None, "no_deadline", "no_control", "overflow",
                    "accept", "acknowledge", "request"}

SessionInv ==
    /\ FlagsOK
    /\ FieldsOK
    /\ QueueInv
    /\ ScopeInv
    /\ PlaceInv
    /\ AnswerInv
    /\ HeldInv
    /\ CloseInv
    /\ AssertionsHold

\* _enqueue_control in a session that has a control queue.
LEMMA EnqueueFits ==
  ASSUME NEW e, NEW to, active, EnqueueControl(e, to)
  PROVE  \/ /\ control = <<>> /\ control' = <<e>> /\ state' = to /\ CancelLease
            /\ UNCHANGED <<incoming, reader, transport, failure>>
         \/ Reject /\ UNCHANGED failure
BY DEF EnqueueControl

\* No step makes a flag anything but a flag.
LEMMA FlagsStep ==
  ASSUME SessionInv, Next
  PROVE  FlagsOK'
<1> USE DEF SessionInv, FlagsOK
<1>1. CASE Frame
  BY <1>1
  DEF Frame, BadFrame, SessionStart, StartConversation, CancelConversation,
      FollowUpOutcome, FollowUpLate, EnqueueControl, ReaderFails, Reject,
      ReaderOnly, KeepLease, CancelLease
<1>2. CASE ReaderResumes
  BY <1>2
  DEF ReaderResumes, ReaderCloses, ReaderSeesClose, ReaderOnly, sessionVars,
      followUpVars, CommitTransportClosed, CancelLease
<1>3. CASE ControlResumes \/ BridgeDecides
  BY <1>3
  DEF ControlResumes, BridgeDecides, BridgeHears, BridgeWrites, BridgeRequests,
      BridgeEnds, BridgeOnly, HandlerOnly, followUpVars, CancelLease
<1>4. CASE CloseResumes \/ LeaseResumes \/ Outside
  BY <1>4
  DEF CloseResumes, LeaseResumes, Outside, FinishReader, FinishRetired,
      FinishScope, FinishTransport, LeaseExpires, LeaseEnds, ClientCloses,
      StartTimesOut, ShutdownCloses, CloseCall, CancelLease, sessionVars,
      followUpVars
<1>5. CASE HandlerResumes
  <2>1. CASE \/ WriteHandoff \/ WriteReset \/ StartTakes \/ ReadySent
             \/ HandshakeAccepted \/ HandshakeOrReadyReset
    BY <1>5, <2>1
    DEF HandlerResumes, WriteHandoff, WriteReset, StartTakes,
        HandshakeAccepted, HandshakeOrReadyReset, ReadySent, Resets,
        CommitTransportClosed, CancelLease, sessionVars, followUpVars,
        HandlerOnly
  <2>2. CASE AcceptTakes \/ StartedSent \/ StartedReset \/ ScopeExited
    BY <1>5, <2>2
    DEF HandlerResumes, AcceptTakes, StartedSent, StartedReset, ExitScope,
        ScopeExited, Resets, CommitTransportClosed, CancelLease, sessionVars,
        followUpVars, HandlerOnly
  <2>3. CASE \/ BridgeWritten \/ BridgeAcknowledges \/ BridgeResumes
             \/ BridgeReset \/ BridgeEnded \/ BridgeEnds
    BY <1>5, <2>3
    DEF HandlerResumes, BridgeWritten, BridgeAcknowledges, BridgeResumes,
        BridgeReset, BridgeEnded, BridgeEnds, ExitScope, Resets,
        CommitTransportClosed, CancelLease, sessionVars, followUpVars,
        HandlerOnly, BridgeOnly
  <2>4. CASE HandlerCloses \/ SlotFreed
    BY <1>5, <2>4
    DEF HandlerResumes, HandlerCloses, CloseCall, SlotFreed, sessionVars,
        followUpVars
  <2> QED BY <1>5, <2>1, <2>2, <2>3, <2>4 DEF HandlerResumes
<1>6. CASE Over
  BY <1>6 DEF Over, vars, sessionVars, followUpVars
<1> QED
  BY <1>1, <1>2, <1>3, <1>4, <1>5, <1>6 DEF Next

\* The same of the fields.
LEMMA FieldsStep ==
  ASSUME SessionInv, Next
  PROVE  FieldsOK'
<1> USE DEF SessionInv, FieldsOK, None, States, InConversation, Interval,
        Closing, Outcomes, ControlEvents, BridgePCs, CommitClosing,
        PublishClose, BeginWrite, Begin
<1>1. CASE Frame
  BY <1>1
  DEF Frame, BadFrame, SessionStart, StartConversation, CancelConversation,
      FollowUpOutcome, FollowUpLate, HoldsBack, EnqueueControl, ReaderFails,
      Reject, ReaderOnly, KeepLease, CancelLease
<1>2. CASE ReaderResumes
  BY <1>2
  DEF ReaderResumes, ReaderCloses, ReaderSeesClose, ReaderOnly, sessionVars,
      followUpVars, CommitTransportClosed, CancelLease
<1>3. CASE ControlResumes \/ BridgeDecides
  BY <1>3
  DEF ControlResumes, BridgeDecides, BridgeHears, BridgeWrites, BridgeRequests,
      BridgeEnds, BridgeOnly, HandlerOnly, followUpVars, CancelLease
<1>4. CASE CloseResumes \/ LeaseResumes \/ Outside
  BY <1>4
  DEF CloseResumes, LeaseResumes, Outside, FinishReader, FinishRetired,
      FinishScope, FinishTransport, LeaseExpires, LeaseEnds, ClientCloses,
      StartTimesOut, ShutdownCloses, CloseCall, CancelLease, sessionVars,
      followUpVars
<1>5. CASE HandlerResumes
  <2>1. CASE \/ WriteHandoff \/ WriteReset \/ StartTakes \/ ReadySent
             \/ HandshakeAccepted \/ HandshakeOrReadyReset
    BY <1>5, <2>1
    DEF HandlerResumes, WriteHandoff, StateAfterRequest, WriteReset,
        StartTakes, HandshakeAccepted, HandshakeOrReadyReset, ReadySent,
        Resets, CommitTransportClosed, CancelLease, sessionVars, followUpVars,
        HandlerOnly
  <2>2. CASE AcceptTakes \/ StartedSent \/ StartedReset \/ ScopeExited
    BY <1>5, <2>2
    DEF HandlerResumes, AcceptTakes, StartedSent, StartedReset, ExitScope,
        ScopeExited, Resets, CommitTransportClosed, CancelLease, sessionVars,
        followUpVars, HandlerOnly
  <2>3. CASE \/ BridgeWritten \/ BridgeAcknowledges \/ BridgeResumes
             \/ BridgeReset \/ BridgeEnded \/ BridgeEnds
    BY <1>5, <2>3
    DEF HandlerResumes, BridgeWritten, BridgeAcknowledges, BridgeResumes,
        BridgeReset, BridgeEnded, BridgeEnds, ExitScope, Resets,
        CommitTransportClosed, CancelLease, sessionVars, followUpVars,
        HandlerOnly, BridgeOnly
  <2>4. CASE HandlerCloses \/ SlotFreed
    BY <1>5, <2>4
    DEF HandlerResumes, HandlerCloses, CloseCall, SlotFreed, sessionVars,
        followUpVars
  <2> QED BY <1>5, <2>1, <2>2, <2>3, <2>4 DEF HandlerResumes
<1>6. CASE Over
  BY <1>6 DEF Over, vars, sessionVars, followUpVars
<1> QED
  BY <1>1, <1>2, <1>3, <1>4, <1>5, <1>6 DEF Next

\* Where everything but the queue is consistent.
ShapeInv == ScopeInv /\ PlaceInv /\ AnswerInv /\ HeldInv /\ CloseInv

\* Whoever closes the session: the bridge is told.
LEMMA ClosingKeeps ==
  ASSUME SessionInv, FieldsOK', state' \in Closing, PublishClose,
         UNCHANGED <<handshaken, active, scopeExited, handler, heard>>,
         finish' \in {"transport", "done"} => ~transport' /\ ~active
  PROVE  ShapeInv'
BY DEF SessionInv, FieldsOK, FlagsOK, ShapeInv, ScopeInv, PlaceInv, AnswerInv,
    HeldInv, CloseInv, PublishClose, InConversation, Interval, Closing,
    Outcomes, AfterRequest

\* A rejection does nothing or closes the session.
LEMMA RejectKeeps ==
  ASSUME SessionInv, FieldsOK', Reject, ReaderOnly
  PROVE  ShapeInv'
<1>1. CASE state \in Closing
  BY <1>1
  DEF SessionInv, FieldsOK, FlagsOK, ShapeInv, ScopeInv, PlaceInv, AnswerInv,
      HeldInv, CloseInv, Reject, ReaderOnly, InConversation, Interval, Closing,
      Outcomes, AfterRequest
<1>2. CASE state \notin Closing
  BY <1>2, ClosingKeeps DEF SessionInv, ScopeInv, Reject, ReaderOnly, Closing
<1> QED  BY <1>1, <1>2

\* A frame of the client.
LEMMA FrameKeeps ==
  ASSUME SessionInv, FieldsOK', Frame
  PROVE  ShapeInv' /\ AssertionsHold'
<1>f. /\ burst' = TRUE
      /\ burst \/ handler \notin BridgePCs \/ heard # "pending" \/ control = <<>>
  BY DEF Frame
<1>1. CASE BadFrame
  BY <1>1, RejectKeeps DEF BadFrame, SessionInv, AssertionsHold
<1>2. CASE SessionStart
  <2>1. CASE \/ state # "HANDSHAKE" \/ handshaken
         \/ Len(incoming) = IngressCapacity
    BY <1>2, <2>1, RejectKeeps
    DEF SessionStart, SessionInv, AssertionsHold, ReaderOnly
  <2>2. CASE ~(state # "HANDSHAKE" \/ handshaken \/ Len(incoming) = IngressCapacity)
    BY <1>2, <2>2
    DEF SessionStart, SessionInv, AssertionsHold, FieldsOK, FlagsOK, ShapeInv,
        ScopeInv, PlaceInv, AnswerInv, HeldInv, CloseInv, InConversation,
        Interval, Closing, Outcomes, AfterRequest
  <2> QED  BY <2>1, <2>2
<1>3. CASE StartConversation
  <2>1. CASE ~Accepting \/ Len(incoming) = IngressCapacity
    BY <1>3, <2>1, RejectKeeps
    DEF StartConversation, SessionInv, AssertionsHold, ReaderOnly
  <2>2. CASE ~(~Accepting \/ Len(incoming) = IngressCapacity)
    BY <1>3, <2>2
    DEF StartConversation, Accepting, SessionInv, AssertionsHold, Reading,
        FieldsOK, FlagsOK, ShapeInv, ScopeInv, PlaceInv, AnswerInv, HeldInv,
        BridgePCs, CloseInv, InConversation, Interval, Closing, Outcomes,
        AfterRequest
  <2> QED  BY <2>1, <2>2
<1>4. CASE CancelConversation
  <2>1. CASE state \notin InConversation
    BY <1>4, <2>1, RejectKeeps
    DEF CancelConversation, SessionInv, AssertionsHold, ReaderOnly
  <2>2. CASE state \in InConversation
    <3>1. EnqueueControl("ConversationCancelled", state) /\ active
      BY <1>4, <2>2 DEF CancelConversation, SessionInv, ScopeInv
    <3>2. CASE Reject /\ UNCHANGED failure
      BY <1>4, <3>2, RejectKeeps
      DEF CancelConversation, SessionInv, AssertionsHold
    <3>3. CASE ~(Reject /\ UNCHANGED failure)
      <4>1. /\ control = <<>> /\ control' = <<"ConversationCancelled">> /\ state' = state
            /\ lease' = None /\ UNCHANGED <<failure, transport>>
        BY <3>1, <3>3, EnqueueFits DEF CancelLease
      <4>2. committed' = FALSE /\ retained' = None
        BY <1>4, <2>2 DEF CancelConversation
      <4> QED
       BY <4>1, <4>2, <1>4, <2>2
       DEF CancelConversation, ReaderOnly, SessionInv, AssertionsHold,
           FieldsOK, FlagsOK, ShapeInv, ScopeInv, PlaceInv, AnswerInv, HeldInv,
           BridgePCs, CloseInv, InConversation, Interval, Closing, Outcomes,
           AfterRequest
    <3> QED BY <3>2, <3>3
  <2> QED  BY <2>1, <2>2
<1>5. CASE \E o \in Outcomes : FollowUpOutcome(o)
  <2>1. PICK o \in Outcomes : FollowUpOutcome(o)
    BY <1>5
  <2>2. CASE committed \/ state \notin Interval
    BY <2>1, <2>2, RejectKeeps DEF FollowUpOutcome, SessionInv, AssertionsHold
  <2>3. CASE ~committed /\ state \in Interval /\ lease = None
    BY <2>1, <2>3, ClosingKeeps
    DEF FollowUpOutcome, ReaderFails, SessionInv, ScopeInv, AssertionsHold,
        ReaderOnly, CommitClosing, Closing
  <2>4. CASE ~committed /\ state \in Interval /\ lease # None /\ HoldsBack
    <3>1. /\ committed' = TRUE /\ state = "FOLLOW_UP_COMMITTING"
          /\ UNCHANGED <<state, control, failure, transport>>
      BY <2>1, <2>4 DEF FollowUpOutcome, HoldsBack
    <3>2. heard = "pending" /\ handler \in BridgePCs => control = <<>>
      BY <1>f, <2>4, <3>1 DEF SessionInv, HeldInv
    <3> QED
      BY <2>1, <3>1, <3>2
      DEF FollowUpOutcome, ReaderOnly, SessionInv, AssertionsHold, FieldsOK,
          FlagsOK, ShapeInv, ScopeInv, PlaceInv, AnswerInv, HeldInv, BridgePCs,
          CloseInv, InConversation, Interval, Closing, Outcomes, AfterRequest
  <2>5. CASE ~committed /\ state \in Interval /\ lease # None /\ ~HoldsBack
    <3>1. EnqueueControl(o, "ACTIVE") /\ active /\ state = "AWAITING_FOLLOW_UP"
      BY <2>1, <2>5
      DEF FollowUpOutcome, SessionInv, ScopeInv, HoldsBack, Interval,
          InConversation
    <3>2. CASE Reject /\ UNCHANGED failure
      BY <2>1, <3>2, RejectKeeps
      DEF FollowUpOutcome, SessionInv, AssertionsHold
    <3>3. CASE ~(Reject /\ UNCHANGED failure)
      <4>1. /\ control = <<>> /\ control' = <<o>> /\ state' = "ACTIVE"
            /\ lease' = None /\ UNCHANGED <<failure, transport>>
        BY <3>1, <3>3, EnqueueFits DEF CancelLease
      <4>2. \A p : <<o>> = <<p>> => o = p
        OBVIOUS
      <4> QED
       BY <4>1, <4>2, <2>1, <3>1
       DEF FollowUpOutcome, ReaderOnly, SessionInv, AssertionsHold, FieldsOK,
           FlagsOK, ShapeInv, ScopeInv, PlaceInv, AnswerInv, HeldInv,
           BridgePCs, CloseInv, InConversation, Interval, Closing, Outcomes,
           AfterRequest
    <3> QED BY <3>2, <3>3
  <2> QED  BY <2>2, <2>3, <2>4, <2>5
<1>6. CASE FollowUpLate
  BY <1>6, ClosingKeeps
  DEF FollowUpLate, SessionInv, AssertionsHold, ReaderOnly, Closing, ScopeInv
<1> QED
  BY <1>1, <1>2, <1>3, <1>4, <1>5, <1>6 DEF Frame

\* A step of the handler or of its bridge.
LEMMA HandlerKeeps ==
  ASSUME SessionInv, FieldsOK',
         HandlerResumes \/ ControlResumes \/ BridgeDecides,
         handler \notin {"done", "terminated"}
  PROVE  ShapeInv' /\ AssertionsHold'
<1> USE DEF SessionInv, FlagsOK, FieldsOK, ShapeInv, ScopeInv, PlaceInv,
        AnswerInv, HeldInv, CloseInv, AssertionsHold, States, InConversation,
        Interval, Closing, Outcomes, BridgePCs, AfterRequest, None,
        HandlerOnly, BridgeOnly, CommitClosing, PublishClose, Returns, Resets,
        CommitTransportClosed, sessionVars, followUpVars
<1>1. burst' = FALSE
  BY DEF HandlerResumes, ControlResumes, BridgeDecides
<1>2. CASE WriteHandoff
  BY <1>1, <1>2 DEF WriteHandoff, StateAfterRequest
<1>3. CASE WriteReset \/ ReadySent \/ StartTimesOut
  BY <1>1, <1>3 DEF WriteReset, ReadySent, StartTimesOut
<1>4. CASE StartTakes
  <2>1. Head(incoming) = "SessionStart" => handshaken
    BY <1>4, GetKeeps DEF StartTakes, QueueInv
  <2> QED  BY <1>1, <1>4, <2>1 DEF StartTakes
<1>5. CASE HandshakeAccepted
  BY <1>1, <1>5 DEF HandshakeAccepted
<1>6. CASE HandshakeOrReadyReset
  BY <1>1, <1>6 DEF HandshakeOrReadyReset
<1>7. CASE AcceptTakes
  <2>1. Head(incoming) = "conversation" => active
    BY <1>7, GetKeeps DEF AcceptTakes, QueueInv
  <2>2. Head(incoming) # "SessionStart"
    BY <1>7, GetKeeps DEF AcceptTakes, QueueInv
  <2> QED  BY <1>1, <1>7, <2>1, <2>2 DEF AcceptTakes
<1>8. CASE StartedSent
  BY <1>1, <1>8 DEF StartedSent
<1>9. CASE StartedReset
  BY <1>1, <1>9 DEF StartedReset, ExitScope
<1>10. CASE ScopeExited
  BY <1>1, <1>10 DEF ScopeExited
<1>11. CASE BridgeWritten
  BY <1>1, <1>11 DEF BridgeWritten
<1>12. CASE BridgeAcknowledges
  <2>1. ~(state = "FOLLOW_UP_COMMITTING" /\ retained # None /\ control # <<>>)
    BY <1>12 DEF BridgeAcknowledges
  <2>2. CASE state # "FOLLOW_UP_COMMITTING"
    BY <1>1, <1>12, <2>2 DEF BridgeAcknowledges
  <2>3. CASE state = "FOLLOW_UP_COMMITTING" /\ retained = None
    BY <1>1, <1>12, <2>3 DEF BridgeAcknowledges
  <2>4. CASE state = "FOLLOW_UP_COMMITTING" /\ retained # None
    BY <1>1, <1>12, <2>1, <2>4 DEF BridgeAcknowledges
  <2> QED  BY <2>2, <2>3, <2>4
<1>13. CASE BridgeResumes
  BY <1>1, <1>13 DEF BridgeResumes
<1>14. CASE BridgeReset
  BY <1>1, <1>14 DEF BridgeReset, Begin
<1>15. CASE BridgeEnded
  BY <1>1, <1>15 DEF BridgeEnded, ExitScope
<1>16. CASE BridgeEnds
  BY <1>1, <1>16 DEF BridgeEnds, Begin
<1>17. CASE BridgeHears
  <2>1. PICK e \in ControlEvents : control = <<e>>
    BY <1>17 DEF BridgeHears
  <2>2. heard' = e
    BY <1>17, <2>1 DEF BridgeHears
  <2> QED  BY <1>1, <1>17, <2>1, <2>2 DEF BridgeHears
<1>18. CASE BridgeWrites
  BY <1>1, <1>18 DEF BridgeWrites, Begin
<1>19. CASE BridgeRequests
  BY <1>1, <1>19 DEF BridgeRequests, Begin
<1>20. CASE HandlerCloses
  BY <1>1, <1>20 DEF HandlerCloses, CloseCall
<1>21. CASE SlotFreed
  BY <1>1, <1>21 DEF SlotFreed
<1> QED
  BY <1>2, <1>3, <1>4, <1>5, <1>6, <1>7, <1>8, <1>9, <1>10, <1>11, <1>12,
     <1>13, <1>14, <1>15, <1>16, <1>17, <1>18, <1>19, <1>20, <1>21
  DEF HandlerResumes, ControlResumes, BridgeDecides

\* A step of the reader's end, the lease, close() or of what is outside.
LEMMA OthersKeep ==
  ASSUME SessionInv, FieldsOK',
         ReaderResumes \/ LeaseResumes \/ CloseResumes \/ Outside \/ Over
  PROVE  ShapeInv' /\ AssertionsHold'
<1> USE DEF SessionInv, FlagsOK, FieldsOK, ShapeInv, ScopeInv, PlaceInv,
        AnswerInv, HeldInv, CloseInv, AssertionsHold, States, InConversation,
        Interval, Closing, Outcomes, BridgePCs, AfterRequest, None,
        CommitClosing, sessionVars, followUpVars
<1>1. CASE ReaderResumes
  <2>1. CASE ReaderCloses
    BY <1>1, <2>1 DEF ReaderResumes, ReaderCloses
  <2>2. CASE ReaderSeesClose
    BY <1>1, <2>2, ClosingKeeps
    DEF ReaderResumes, ReaderSeesClose, CommitTransportClosed, ReaderOnly
  <2> QED  BY <1>1, <2>1, <2>2 DEF ReaderResumes
<1>2. CASE LeaseResumes
  <2>1. CASE LeaseExpires /\ state \in Interval /\ ~committed
    BY <1>2, <2>1, ClosingKeeps DEF LeaseExpires
  <2>2. CASE LeaseExpires /\ ~(state \in Interval /\ ~committed)
    BY <1>2, <2>2 DEF LeaseResumes, LeaseExpires
  <2>3. CASE LeaseEnds
    BY <1>2, <2>3 DEF LeaseResumes, LeaseEnds
  <2> QED  BY <1>2, <2>1, <2>2, <2>3 DEF LeaseResumes
<1>3. CASE CloseResumes
  <2>1. CASE FinishReader
    BY <1>3, <2>1 DEF CloseResumes, FinishReader, CancelLease
  <2>3. CASE FinishRetired
    BY <1>3, <2>3 DEF CloseResumes, FinishRetired
  <2>4. CASE FinishScope
    BY <1>3, <2>4 DEF CloseResumes, FinishScope
  <2>2. CASE FinishTransport
    BY <1>3, <2>2 DEF CloseResumes, FinishTransport
  <2> QED  BY <1>3, <2>1, <2>2, <2>3, <2>4 DEF CloseResumes
<1>4. CASE Outside
  <2>1. CASE ClientCloses \/ StartTimesOut
    BY <1>4, <2>1 DEF Outside, ClientCloses, StartTimesOut
  <2>2. CASE ShutdownCloses
    BY <1>4, <2>2, ClosingKeeps DEF Outside, ShutdownCloses, CloseCall
  <2> QED  BY <1>4, <2>1, <2>2 DEF Outside
<1>5. CASE Over
  BY <1>5 DEF Over, vars
<1> QED
  BY <1>1, <1>2, <1>3, <1>4, <1>5

\* The frames in the queue stay those the handler is there to take.
LEMMA QueueStep ==
  ASSUME SessionInv, Next
  PROVE  QueueInv'
<1> USE FewFrames DEF SessionInv, FlagsOK, FieldsOK, ScopeInv, PlaceInv,
        QueueInv, BridgePCs, None, HandlerOnly, BridgeOnly, PublishClose,
        Returns, Resets, CommitTransportClosed, ReaderOnly, Reject,
        sessionVars, followUpVars
<1>a. /\ "SessionStart" \in Frames /\ "conversation" \in Frames
      /\ "InputSessionClosed" \in Frames
  BY DEF Frames
<1>1. CASE Frame
  <2>1. CASE BadFrame \/ FollowUpLate
    BY <1>a, <2>1 DEF BadFrame, FollowUpLate
  <2>2. CASE SessionStart
    <3>1. CASE \/ state # "HANDSHAKE" \/ handshaken
         \/ Len(incoming) = IngressCapacity
      BY <1>a, <2>2, <3>1 DEF SessionStart
    <3>2. CASE ~(state # "HANDSHAKE" \/ handshaken \/ Len(incoming) = IngressCapacity)
      <4>1. /\ incoming' = Append(incoming, "SessionStart")
            /\ ~Holds(incoming, "SessionStart") /\ handshaken' = TRUE
            /\ UNCHANGED <<handler, active>>
        BY <2>2, <3>2 DEF SessionStart
      <4>2. /\ incoming' \in Seq(Frames) /\ OnlyOnce(incoming')
            /\ \A e \in Frames :
                  Holds(incoming', e) <=> Holds(incoming, e) \/ e = "SessionStart"
        BY <1>a, <4>1, PutKeeps
      <4>3. handler \in {"start", "close", "done"}
        BY <3>2
      <4> QED  BY <1>a, <4>1, <4>2, <4>3
    <3> QED  BY <3>1, <3>2
  <2>3. CASE StartConversation
    <3>1. CASE ~Accepting \/ Len(incoming) = IngressCapacity
      BY <1>a, <2>3, <3>1 DEF StartConversation
    <3>2. CASE ~(~Accepting \/ Len(incoming) = IngressCapacity)
      <4>1. /\ incoming' = Append(incoming, "conversation")
            /\ ~Holds(incoming, "conversation") /\ active' = TRUE
            /\ UNCHANGED <<handler, handshaken>>
        BY <1>a, <2>3, <3>2 DEF StartConversation, Accepting
      <4>2. /\ incoming' \in Seq(Frames) /\ OnlyOnce(incoming')
            /\ \A e \in Frames :
                  Holds(incoming', e) <=> Holds(incoming, e) \/ e = "conversation"
        BY <1>a, <4>1, PutKeeps
      <4>3. handler \in {"ready", "accept", "close", "done"}
        BY <3>2 DEF Accepting
      <4> QED  BY <1>a, <4>1, <4>2, <4>3
    <3> QED  BY <3>1, <3>2
  <2>4. CASE CancelConversation
    BY <1>a, <2>4, EnqueueFits DEF CancelConversation, InConversation
  <2>5. CASE \E o \in Outcomes : FollowUpOutcome(o)
    <3>1. PICK o \in Outcomes : FollowUpOutcome(o)
      BY <2>5
    <3>2. state \in Interval => active
      BY DEF Interval, InConversation
    <3> QED
      BY <1>a, <3>1, <3>2, EnqueueFits DEF FollowUpOutcome, ReaderFails
  <2> QED  BY <1>1, <2>1, <2>2, <2>3, <2>4, <2>5 DEF Frame
<1>2. CASE ReaderResumes
  BY <1>2, <1>a DEF ReaderResumes, ReaderCloses, ReaderSeesClose
<1>3. CASE ControlResumes \/ BridgeDecides
  BY <1>3, <1>a
  DEF ControlResumes, BridgeDecides, BridgeHears, BridgeWrites, BridgeRequests,
      BridgeEnds, Begin
<1>4. CASE LeaseResumes
  BY <1>4, <1>a DEF LeaseResumes, LeaseExpires, LeaseEnds
<1>5. CASE CloseResumes
  BY <1>5, <1>a
  DEF CloseResumes, FinishReader, FinishRetired, FinishScope, FinishTransport
<1>6. CASE Outside
  BY <1>6, <1>a
  DEF Outside, ClientCloses, StartTimesOut, ShutdownCloses, CloseCall
<1>7. CASE HandlerResumes
  <2>1. CASE StartTakes
    BY <1>a, <2>1, GetKeeps DEF StartTakes
  <2>2. CASE AcceptTakes
    BY <1>a, <2>2, GetKeeps DEF AcceptTakes
  <2>3. CASE WriteHandoff \/ WriteReset
    BY <1>a, <2>3 DEF WriteHandoff, WriteReset
  <2>4. CASE HandshakeAccepted \/ HandshakeOrReadyReset \/ ReadySent
    BY <1>a, <2>4 DEF HandshakeAccepted, HandshakeOrReadyReset, ReadySent
  <2>5. CASE StartedSent \/ StartedReset \/ ScopeExited
    BY <1>a, <2>5 DEF StartedSent, StartedReset, ExitScope, ScopeExited
  <2>6. CASE BridgeWritten \/ BridgeAcknowledges \/ BridgeResumes
    BY <1>a, <2>6 DEF BridgeWritten, BridgeAcknowledges, BridgeResumes
  <2>7. CASE BridgeReset \/ BridgeEnded \/ BridgeEnds
    BY <1>a, <2>7 DEF BridgeReset, BridgeEnded, BridgeEnds, Begin, ExitScope
  <2>8. CASE HandlerCloses \/ SlotFreed
    BY <1>a, <2>8 DEF HandlerCloses, CloseCall, SlotFreed
  <2> QED  BY <1>7, <2>1, <2>2, <2>3, <2>4, <2>5, <2>6, <2>7, <2>8
           DEF HandlerResumes
<1>8. CASE Over
  BY <1>8 DEF Over, vars
<1> QED
  BY <1>1, <1>2, <1>3, <1>4, <1>5, <1>6, <1>7, <1>8 DEF Next

\* A step of the session keeps all of it.
LEMMA SessionStep ==
  ASSUME SessionInv, Next
  PROVE  SessionInv'
<1>1. FlagsOK' /\ FieldsOK' /\ QueueInv'
  BY FlagsStep, FieldsStep, QueueStep
<1>2. ShapeInv' /\ AssertionsHold'
  BY <1>1, FrameKeeps, HandlerKeeps, OthersKeep DEF Next
<1> QED
  BY <1>1, <1>2 DEF SessionInv, ShapeInv

\* The inductive invariant of the session.
THEOREM SessionInvariant == Spec => []SessionInv
<1>1. Init => SessionInv
  <2>1. Init => QueueInv
    BY FewFrames DEF Init, QueueInv, Frames
  <2>2. Init => FlagsOK /\ FieldsOK
    BY DEF Init, FlagsOK, FieldsOK, None, States, BridgePCs
  <2>3. Init => ScopeInv /\ PlaceInv /\ HeldInv /\ CloseInv /\ AssertionsHold
    BY DEF Init, ScopeInv, PlaceInv, HeldInv, CloseInv, AssertionsHold,
        InConversation, Interval, Closing, BridgePCs, None
  <2>4. Init => AnswerInv
    BY DEF Init, AnswerInv, Outcomes, None
  <2> QED  BY <2>1, <2>2, <2>3, <2>4 DEF SessionInv
<1>2. SessionInv /\ [Next]_vars => SessionInv'
  <2>1. CASE UNCHANGED vars
    BY <2>1
    DEF vars, sessionVars, followUpVars, SessionInv, FlagsOK, FieldsOK,
        QueueInv, ScopeInv, PlaceInv, AnswerInv, HeldInv, CloseInv,
        AssertionsHold
  <2> QED  BY <2>1, SessionStep
<1> QED
  BY <1>1, <1>2, PTL DEF Spec

\* Every field of the session keeps its type, for any capacity of the queue.
THEOREM SessionTypes == Spec => []TypeOK
<1>1. SessionInv => TypeOK
  BY DEF SessionInv, FlagsOK, FieldsOK, QueueInv, Frames, TypeOK
<1> QED
  BY <1>1, SessionInvariant, PTL

\* Whatever the client sends and when, no assertion that relates the tasks of
\* a session fails, a conversation is taken by the accept() it was committed
\* for, and an outcome is heard only by a bridge that waits for it
\* (websocket_server.py:437-560).
THEOREM TasksAgree ==
    Spec => [](AssertionsHold /\ AcceptedOnce /\ OutcomeOnlyWhenAwaited)
<1>1. SessionInv => AssertionsHold
  BY DEF SessionInv
<1>2. SessionInv => AcceptedOnce
  <2>1. ASSUME SessionInv, "conversation" \in {incoming[i] : i \in DOMAIN incoming}
        PROVE  Holds(incoming, "conversation")
    BY <2>1 DEF SessionInv, QueueInv, Holds
  <2> QED
    BY <2>1 DEF SessionInv, QueueInv, ScopeInv, AcceptedOnce, BridgePCs
<1>3. SessionInv => OutcomeOnlyWhenAwaited
  BY DEF SessionInv, AnswerInv, OutcomeOnlyWhenAwaited, AfterRequest
<1> QED
  BY <1>1, <1>2, <1>3, SessionInvariant, PTL

\* A bridge that has not heard its event when the session starts to close
\* hears of the close (_publish_close, websocket_server.py).
THEOREM ClosingIsHeard == Spec => CloseIsHeard
<1>1. ASSUME SessionInv, Next, state \in Closing, heard = "pending",
             heard' \in ControlEvents
      PROVE  heard' = "InputSessionClosed"
  <2> USE DEF ControlEvents, Outcomes, HandlerOnly, BridgeOnly, ReaderOnly,
          sessionVars, followUpVars, None
  <2>1. ~Frame /\ ~ReaderResumes /\ ~LeaseResumes /\ ~CloseResumes /\ ~Outside
    BY <1>1
    DEF Frame, BadFrame, SessionStart, StartConversation, CancelConversation,
        FollowUpOutcome, FollowUpLate, ReaderResumes, ReaderCloses,
        ReaderSeesClose, LeaseResumes, LeaseExpires, LeaseEnds, CloseResumes,
        FinishReader, FinishRetired, FinishScope, FinishTransport, Outside,
        ClientCloses, StartTimesOut, ShutdownCloses, CloseCall
  <2>2. ~HandlerResumes /\ ~BridgeDecides /\ ~Over
    BY <1>1
    DEF HandlerResumes, WriteHandoff, WriteReset, StartTakes,
        HandshakeAccepted, HandshakeOrReadyReset, ReadySent, AcceptTakes,
        StartedSent, StartedReset, ExitScope, ScopeExited, BridgeWritten,
        BridgeAcknowledges, BridgeResumes, BridgeReset, BridgeEnded,
        BridgeEnds, HandlerCloses, CloseCall, SlotFreed, BridgeDecides,
        BridgeWrites, BridgeRequests, Over, vars
  <2>3. BridgeHears /\ active
    BY <1>1, <2>1, <2>2
    DEF Next, ControlResumes, BridgeHears, SessionInv, ScopeInv
  <2>4. control = <<"InputSessionClosed">>
    BY <1>1, <2>3 DEF SessionInv, CloseInv
  <2> QED  BY <2>3, <2>4 DEF BridgeHears
<1>2. SessionInv /\ [Next]_vars =>
        [(state \in Closing /\ heard = "pending" /\ heard' \in ControlEvents)
            => heard' = "InputSessionClosed"]_vars
  BY <1>1
<1> QED
  BY <1>2, SessionInvariant, PTL DEF Spec, CloseIsHeard
-----------------------------------------------------------------------------
(* The session implements InputPort                                        *)

\* A bridge at work has its receive_control() open, or what it returned.
HeardInv == handler \in BridgePCs => heard # None

LEMMA HeardStep ==
  ASSUME SessionInv, HeardInv, [Next]_vars
  PROVE  HeardInv'
<1> USE DEF HeardInv, BridgePCs, sessionVars, followUpVars, ReaderOnly,
        HandlerOnly, BridgeOnly, None
<1>1. CASE Frame \/ ReaderResumes \/ LeaseResumes \/ CloseResumes \/ Outside
  BY <1>1
  DEF Frame, BadFrame, SessionStart, StartConversation, CancelConversation,
      FollowUpOutcome, FollowUpLate, ReaderResumes, ReaderCloses,
      ReaderSeesClose, LeaseResumes, LeaseExpires, LeaseEnds, CloseResumes,
      FinishReader, FinishRetired, FinishScope, FinishTransport, Outside,
      ClientCloses, StartTimesOut, ShutdownCloses, CloseCall
<1>2. CASE HandlerResumes
  BY <1>2
  DEF HandlerResumes, WriteHandoff, WriteReset, StartTakes, HandshakeAccepted,
      HandshakeOrReadyReset, ReadySent, AcceptTakes, StartedSent,
      StartedReset, ExitScope, ScopeExited, BridgeWritten,
      BridgeAcknowledges, BridgeResumes, BridgeReset, BridgeEnded, BridgeEnds,
      Resets, Returns, Begin, HandlerCloses, CloseCall, SlotFreed
<1>3. CASE ControlResumes
  <2>1. heard' \in ControlEvents
    BY <1>3 DEF ControlResumes, BridgeHears, SessionInv, FieldsOK
  <2> QED  BY <2>1 DEF ControlEvents, Outcomes
<1>4. CASE BridgeDecides
  BY <1>4 DEF BridgeDecides, BridgeWrites, BridgeRequests, BridgeEnds, Begin
<1>5. CASE Over \/ UNCHANGED vars
  BY <1>5 DEF Over, vars
<1> QED
  BY <1>1, <1>2, <1>3, <1>4, <1>5 DEF Next

\* What InputPort knows of the session.
PortEar == IF Listening THEN heard ELSE None
PortQueue == IF Listening /\ control # <<>> THEN Head(control) ELSE None
PortGate ==
    CASE handler = "awaiting" -> "waiting"
      [] handler \in {"requesting", "requested"} -> "asked"
      [] OTHER -> "shut"
Port == <<PortEar, PortQueue, PortGate>>

\* What the other tasks do to a bridge that stays where it is: they leave its
\* queue alone, put a cancellation into it when it is empty, or a close.
LEMMA InterruptsOnly ==
  ASSUME SessionInv, HeardInv, UNCHANGED <<handler, heard>>,
         \/ UNCHANGED control
         \/ control = <<>> /\ control' = <<"ConversationCancelled">>
         \/ PublishClose
  PROVE  [IP!Next]_Port
<1> USE DEF Port, PortEar, PortQueue, PortGate, Listening
<1>1. CASE UNCHANGED control \/ ~Listening
  BY <1>1
<1>2. CASE Listening /\ ~UNCHANGED control
  <2>1. PortEar # None /\ active
    BY <1>2 DEF HeardInv, SessionInv, ScopeInv
  <2>2. CASE control = <<>> /\ control' = <<"ConversationCancelled">>
    BY <1>2, <2>1, <2>2 DEF IP!Next, IP!Interrupt, IP!Nothing, None
  <2>3. CASE PublishClose
    <3>1. PortQueue' = "InputSessionClosed"
      BY <1>2, <2>1, <2>3 DEF PublishClose
    <3> QED  BY <2>1, <3>1 DEF IP!Next, IP!Interrupt, None
  <2> QED  BY <1>2, <2>2, <2>3
<1> QED  BY <1>1, <1>2

\* The reader, the lease, close() and the world outside.
LEMMA PortOfOthers ==
  ASSUME SessionInv, HeardInv,
         Frame \/ ReaderResumes \/ LeaseResumes \/ CloseResumes \/ Outside
  PROVE  [IP!Next]_Port
<1> USE DEF sessionVars, followUpVars, ReaderOnly
<1>1. CASE \E o \in Outcomes : FollowUpOutcome(o)
  <2> PICK o \in Outcomes : FollowUpOutcome(o)
    BY <1>1
  <2>0. UNCHANGED <<handler, heard>>
    BY DEF FollowUpOutcome
  <2>1. CASE UNCHANGED control \/ PublishClose
    BY <2>0, <2>1, InterruptsOnly
  <2>2. CASE ~UNCHANGED control /\ ~PublishClose
    <3>1. /\ state \in Interval /\ ~HoldsBack /\ EnqueueControl(o, "ACTIVE")
          /\ active
      BY <2>2
      DEF FollowUpOutcome, Reject, ReaderFails, SessionInv, ScopeInv, Interval,
          InConversation
    <3>2. control = <<>> /\ control' = <<o>>
      BY <2>2, <3>1, EnqueueFits DEF Reject
    <3>3. /\ handler \in {"awaiting"} \cup AfterRequest
          /\ heard \notin Outcomes
      BY <3>1 DEF HoldsBack, Interval, SessionInv, PlaceInv, AnswerInv, Closing
    <3>4. CASE handler = "awaiting"
      <4>1. /\ PortEar = heard /\ heard \notin {None} \cup Outcomes
            /\ PortQueue = None /\ PortQueue' = o
            /\ PortGate = "waiting" /\ UNCHANGED <<PortEar, PortGate>>
        BY <2>0, <3>2, <3>3, <3>4
        DEF PortEar, PortQueue, PortGate, Listening, BridgePCs, HeardInv
      <4> QED
        BY <4>1
        DEF Port, PortEar, PortQueue, PortGate, IP!Next, IP!Answer, IP!Nothing,
            None
    <3>5. CASE handler \in AfterRequest
      BY <2>0, <3>5
      DEF Port, PortEar, PortQueue, PortGate, Listening, AfterRequest, BridgePCs
    <3> QED  BY <3>3, <3>4, <3>5
  <2> QED  BY <2>1, <2>2
<1>2. CASE CancelConversation
  <2>1. UNCHANGED control \/ PublishClose
          \/ (control = <<>> /\ control' = <<"ConversationCancelled">>)
    <3>1. CASE state \notin InConversation
      BY <1>2, <3>1 DEF CancelConversation, Reject
    <3>2. CASE state \in InConversation
      <4>1. EnqueueControl("ConversationCancelled", state) /\ active
        BY <1>2, <3>2 DEF CancelConversation, SessionInv, ScopeInv
      <4> QED  BY <4>1, EnqueueFits DEF Reject
    <3> QED  BY <3>1, <3>2
  <2> QED
    BY <1>2, <2>1, InterruptsOnly DEF CancelConversation
<1>3. CASE BadFrame \/ SessionStart \/ StartConversation \/ FollowUpLate
  BY <1>3, InterruptsOnly
  DEF BadFrame, SessionStart, StartConversation, FollowUpLate, Reject
<1>4. CASE ReaderResumes \/ LeaseResumes \/ CloseResumes
  BY <1>4, InterruptsOnly
  DEF ReaderResumes, ReaderCloses, ReaderSeesClose, CommitTransportClosed,
      LeaseResumes, LeaseExpires, LeaseEnds, CloseResumes, FinishReader,
      FinishRetired, FinishScope, FinishTransport
<1>5. CASE ClientCloses \/ ShutdownCloses
  BY <1>5, InterruptsOnly DEF ClientCloses, ShutdownCloses, CloseCall
<1>6. CASE StartTimesOut
  BY <1>6
  DEF StartTimesOut, Port, PortEar, PortQueue, PortGate, Listening, BridgePCs
<1> QED
  BY <1>1, <1>2, <1>3, <1>4, <1>5, <1>6 DEF Frame, Outside

\* The handler and the bridge in it.
LEMMA PortOfHandler ==
  ASSUME SessionInv, HeardInv, HandlerResumes \/ ControlResumes \/ BridgeDecides
  PROVE  [IP!Next]_Port
<1> USE DEF Port, PortEar, PortQueue, PortGate, Listening, BridgePCs,
        sessionVars, followUpVars, HandlerOnly, BridgeOnly, IP!Next,
        IP!Nothing, None
<1>1. CASE StartedSent
  <2>1. PortQueue' \in {None} \cup IP!Terminal
    BY <1>1
    DEF StartedSent, Returns, SessionInv, FieldsOK, AnswerInv, AfterRequest,
        ControlEvents, IP!Terminal
  <2> QED
    BY <1>1, <2>1 DEF StartedSent, Returns, IP!Begin
<1>2. CASE BridgeAcknowledges
  BY <1>2
  DEF BridgeAcknowledges, SessionInv, FieldsOK, IP!Acknowledge, IP!GiveUp
<1>3. CASE BridgeResumes
  BY <1>3 DEF BridgeResumes, Outcomes, IP!Resume
<1>4. CASE ControlResumes
  <2>1. \E e \in ControlEvents : control = <<e>>
    BY <1>4 DEF ControlResumes, BridgeHears, SessionInv, FieldsOK
  <2> QED
    BY <1>4, <2>1 DEF ControlResumes, BridgeHears, ControlEvents, Outcomes, IP!Hear
<1>5. CASE BridgeWrites \/ BridgeRequests \/ BridgeEnds
  BY <1>5
  DEF BridgeWrites, BridgeRequests, BridgeEnds, Begin, HeardInv, IP!Ask,
      IP!GiveUp
<1>6. CASE BridgeReset
  BY <1>6 DEF BridgeReset, Resets, Begin, HeardInv, IP!GiveUp
<1>7. CASE BridgeWritten \/ BridgeEnded \/ ScopeExited
  BY <1>7 DEF BridgeWritten, Returns, BridgeEnded, Resets, ExitScope, ScopeExited
<1>8. CASE WriteHandoff \/ WriteReset
  BY <1>8 DEF WriteHandoff, WriteReset
<1>9. CASE StartTakes \/ HandshakeAccepted \/ HandshakeOrReadyReset \/ ReadySent
  BY <1>9
  DEF StartTakes, HandshakeAccepted, Returns, HandshakeOrReadyReset, Resets,
      ReadySent
<1>10. CASE AcceptTakes \/ StartedReset \/ HandlerCloses \/ SlotFreed
  BY <1>10
  DEF AcceptTakes, StartedReset, Resets, ExitScope, HandlerCloses, CloseCall,
      SlotFreed
<1> QED
  BY <1>1, <1>2, <1>3, <1>4, <1>5, <1>6, <1>7, <1>8, <1>9, <1>10
  DEF HandlerResumes, BridgeDecides

\* A websocket session is an input that the bridge may rely on as InputPort
\* says, whatever the client sends, whenever it closes, for any capacity.
THEOREM SessionIsInput == Spec => ImplementsInput
<1>1. Init => HeardInv /\ IP!Init
  BY DEF Init, HeardInv, BridgePCs, Listening, None, IP!Init, IP!Nothing
<1>2. SessionInv /\ HeardInv /\ [Next]_vars => HeardInv'
  BY HeardStep
<1>3. SessionInv /\ HeardInv /\ [Next]_vars => [IP!Next]_(IP!portVars)
  <2> SUFFICES ASSUME SessionInv, HeardInv, [Next]_vars
               PROVE  [IP!Next]_Port
    BY DEF Port, PortEar, PortQueue, PortGate, IP!portVars
  <2>1. CASE Over \/ UNCHANGED vars
    BY <2>1
    DEF Over, vars, sessionVars, Port, PortEar, PortQueue, PortGate, Listening
  <2> QED
    BY <2>1, PortOfOthers, PortOfHandler DEF Next
<1> QED
  BY <1>1, <1>2, <1>3, SessionInvariant, PTL DEF Spec, ImplementsInput, IP!Spec
-----------------------------------------------------------------------------
(* What the contract gives to whoever keeps it                             *)

\* At most one outcome is between the user and the bridge, and only while it
\* waits; a bridge that does not listen has nothing queued.
ContractInv ==
    /\ IP!OutcomesAwaited
    /\ PortEar \in Outcomes => PortQueue \notin Outcomes
    /\ PortEar = None => PortQueue = None

\* A close that is queued stays queued, or is heard, or the bridge has ended.
CloseStays ==
    PortQueue = "InputSessionClosed" /\ PortQueue' # "InputSessionClosed" =>
        PortEar' \in {"InputSessionClosed", None}

LEMMA ContractStep ==
  ASSUME ContractInv, [IP!Next]_Port
  PROVE  ContractInv' /\ CloseStays
<1> USE DEF ContractInv, CloseStays, Port, PortEar, PortQueue, PortGate,
        IP!OutcomesAwaited, IP!Nothing, IP!Terminal, Outcomes, None
<1>1. CASE IP!Begin
  BY <1>1 DEF IP!Begin
<1>2. CASE IP!Ask \/ IP!Withdraw
  BY <1>2 DEF IP!Ask, IP!Withdraw
<1>3. CASE IP!Acknowledge \/ IP!Answer
  BY <1>3 DEF IP!Acknowledge, IP!Answer
<1>4. CASE IP!Interrupt
  BY <1>4 DEF IP!Interrupt
<1>5. CASE IP!Hear \/ IP!Resume
  BY <1>5 DEF IP!Hear, IP!Resume
<1>6. CASE IP!GiveUp \/ UNCHANGED Port
  BY <1>6 DEF IP!GiveUp
<1> QED
  BY <1>1, <1>2, <1>3, <1>4, <1>5, <1>6 DEF IP!Next

\* So of the session: an answer, from the moment it enters the queue, finds
\* the bridge waiting for it, and once the close is queued nothing else comes.
THEOREM ContractIsKept == Spec => []IP!OutcomesAwaited /\ IP!CloseComesThrough
<1>1. IP!Init => ContractInv
  BY DEF IP!Init, ContractInv, PortEar, PortQueue, IP!OutcomesAwaited,
      IP!Nothing, Outcomes, None
<1>2. ContractInv /\ [IP!Next]_(IP!portVars) => ContractInv' /\ CloseStays
  <2> SUFFICES ASSUME ContractInv, [IP!Next]_Port
               PROVE  ContractInv' /\ CloseStays
    BY DEF Port, PortEar, PortQueue, PortGate, IP!portVars
  <2> QED  BY ContractStep
<1>3. ContractInv => IP!OutcomesAwaited
  BY DEF ContractInv
<1>4. IP!Spec => []ContractInv
  BY <1>1, <1>2, PTL DEF IP!Spec
<1>5. ContractInv /\ [IP!Next]_(IP!portVars) =>
        [(PortQueue = "InputSessionClosed" /\ PortQueue' # "InputSessionClosed")
            => PortEar' \in {"InputSessionClosed", None}]_(IP!portVars)
  BY <1>2 DEF CloseStays
<1>6. IP!Spec => IP!CloseComesThrough
  BY <1>4, <1>5, PTL DEF IP!Spec, IP!CloseComesThrough, PortEar, PortQueue, None
<1> QED
  BY <1>3, <1>4, <1>6, SessionIsInput, PTL DEF ImplementsInput
=============================================================================
