-------------------------- MODULE WebsocketSession --------------------------
(***************************************************************************)
(* ai_server/websocket_server.py: one admitted websocket connection, from  *)
(* its handshake to the release of its slot.                               *)
(*                                                                         *)
(* Five tasks share the session's fields: the handler, which accepts       *)
(* conversations and runs the bridge in each; the reader, which commits    *)
(* the client's frames; the timer of the follow-up lease; the task that    *)
(* finishes a close(); and the server's shutdown, which calls close().  A  *)
(* step is the code between two awaits of one of them.                     *)
(*                                                                         *)
(* The bridge appears as ConversationBridge has it: it looks at its input  *)
(* before it acts, asks for a follow-up at most once at a time, and ends   *)
(* the conversation once.  Its sink is modelled there.                     *)
(***************************************************************************)
EXTENDS Naturals, Sequences

CONSTANTS
    IngressCapacity,  \* websocket.ingress_queue_capacity
    EagerClient,      \* the client does not wait for conversation_ready
    Shutdown          \* the server may shut down

ASSUME ConfigAssumption ==
    /\ IngressCapacity \in Nat \ {0}
    /\ EagerClient \in BOOLEAN
    /\ Shutdown \in BOOLEAN

None == "none"

VARIABLES
    state,        \* _state
    handshaken,   \* _handshake_committed
    incoming,     \* _incoming, a bounded queue
    control,      \* _control, a queue of one
    active,       \* _active_conversation and _control are not None
    scopeExited   \* _active_scope_exited is set

VARIABLES
    retained,     \* _retained_follow_up
    committed,    \* _follow_up_outcome_committed
    lease,        \* the lease task: none, running, expiring
    retired       \* _retired_tasks is not empty

VARIABLES
    handler,      \* the await the handler is suspended at
    write,        \* the write the handler's side has in flight
    heard,        \* what the bridge's receive_control() returned
    reader,       \* the reader task
    burst,        \* the reader has not awaited anything since its last frame
    finish,       \* the task of _finish_close
    transport,    \* the websocket takes frames
    failure       \* the assertion that failed

sessionVars == <<state, handshaken, incoming, active, scopeExited>>
followUpVars == <<retained, committed, lease, retired>>
vars == <<sessionVars, control, followUpVars, handler, write, heard, reader,
          burst, finish, transport, failure>>

Closing == {"CLOSING", "CLOSED"}
InConversation == {"ACTIVE", "FOLLOW_UP_COMMITTING", "AWAITING_FOLLOW_UP"}
Interval == {"FOLLOW_UP_COMMITTING", "AWAITING_FOLLOW_UP"}
States == {"HANDSHAKE", "ACCEPTING"} \cup InConversation \cup Closing
Outcomes == {"UserMessage", "FollowUpTimedOut"}
ControlEvents == Outcomes \cup {"ConversationCancelled", "InputSessionClosed"}
BridgePCs == {"working", "writing", "requesting", "requested", "awaiting",
              "ending"}

TypeOK ==
    /\ state \in States
    /\ handshaken \in BOOLEAN
    /\ incoming \in Seq({"SessionStart", "conversation",
                         "InputSessionClosed"})
    /\ control \in {<<>>} \cup {<<e>> : e \in ControlEvents}
    /\ active \in BOOLEAN
    /\ scopeExited \in BOOLEAN
    /\ retained \in Outcomes \cup {None}
    /\ committed \in BOOLEAN
    /\ lease \in {None, "running", "expiring"}
    /\ retired \in BOOLEAN
    /\ handler \in {"start", "accepted", "ready", "accept", "started",
                    "exit", "close", "done", "terminated"} \cup BridgePCs
    /\ write \in {None, "queued", "begun", "written", "reset"}
    /\ heard \in {None, "pending"} \cup ControlEvents
    /\ reader \in {"receiving", "rejecting", "done"}
    /\ burst \in BOOLEAN
    /\ finish \in {None, "reader", "retired", "scope", "transport", "done"}
    /\ transport \in BOOLEAN
    /\ failure \in {None, "no_deadline", "no_control", "overflow",
                    "accept", "acknowledge", "request"}

Init ==
    /\ state = "HANDSHAKE"
    /\ handshaken = FALSE
    /\ incoming = <<>>
    /\ control = <<>>
    /\ active = FALSE
    /\ scopeExited = TRUE
    /\ retained = None
    /\ committed = FALSE
    /\ lease = None
    /\ retired = FALSE
    /\ handler = "start"
    /\ write = None
    /\ heard = None
    /\ reader = "receiving"
    /\ burst = FALSE
    /\ finish = None
    /\ transport = TRUE
    /\ failure = None

-----------------------------------------------------------------------------
(* What several tasks do                                                   *)

\* _cancel_lease
CancelLease ==
    /\ lease' = None
    /\ retired' = (retired \/ lease # None)

KeepLease == UNCHANGED <<lease, retired>>

\* Seeded fault: the event goes behind what the queue holds already.
PublishCloseBehind ==
    /\ control' = IF active /\ control = <<>> THEN <<"InputSessionClosed">>
                                            ELSE control
    /\ incoming' = IF active \/ Len(incoming) = IngressCapacity THEN incoming
                   ELSE Append(incoming, "InputSessionClosed")

\* _publish_close: the event replaces what the queues hold.
PublishClose ==
    /\ control' = IF active THEN <<"InputSessionClosed">> ELSE control
    /\ incoming' = IF active THEN incoming ELSE <<"InputSessionClosed">>

\* The transition to CLOSING that every closing path guards in this way.
CommitClosing == state' = IF state \in Closing THEN state ELSE "CLOSING"

\* Seeded fault: nobody is told.
CommitTransportClosedSilently ==
    CommitClosing /\ CancelLease /\ UNCHANGED <<control, incoming>>

\* _commit_transport_closed
CommitTransportClosed == CommitClosing /\ CancelLease /\ PublishClose

-----------------------------------------------------------------------------
(* The reader                                                              *)

Reading == reader = "receiving" /\ transport

ReaderOnly ==
    UNCHANGED <<handshaken, active, scopeExited, handler, write, heard,
                finish>>

\* _reject up to its first await; nothing when the session is closing.
Reject ==
    /\ UNCHANGED transport
    /\ IF state \in Closing
       THEN /\ reader' = "done"
            /\ UNCHANGED <<state, lease, retired, control, incoming>>
       ELSE /\ reader' = "rejecting"
            /\ state' = "CLOSING"
            /\ CancelLease
            /\ PublishClose

\* The `except Exception` clause of _reader_loop.  A close of the transport
\* refuses frames at once and then waits for the client.
ReaderFails(cause) ==
    /\ reader' = "done"
    /\ failure' = cause
    /\ transport' = FALSE
    /\ CommitClosing
    /\ PublishClose

\* A malformed, oversized or non-text frame.
BadFrame ==
    /\ Reading
    /\ Reject
    /\ ReaderOnly /\ UNCHANGED <<retained, committed, failure>>

SessionStart ==
    /\ Reading
    /\ IF state # "HANDSHAKE" \/ handshaken \/ Len(incoming) = IngressCapacity
       THEN Reject /\ UNCHANGED handshaken
       ELSE /\ incoming' = Append(incoming, "SessionStart")
            /\ handshaken' = TRUE
            /\ UNCHANGED <<state, control, lease, retired, reader, transport>>
    /\ UNCHANGED <<active, scopeExited, handler, write, heard, finish,
                   retained, committed, failure>>

\* Seeded fault: a conversation may be started during another.
MayStart == state \in {"ACCEPTING", "ACTIVE"}

Accepting == state = "ACCEPTING"

\* _commit_start_conversation
StartConversation ==
    /\ Reading
    /\ EagerClient \/ handler # "ready"
    /\ IF ~Accepting \/ Len(incoming) = IngressCapacity
       THEN Reject /\ UNCHANGED <<active, scopeExited>>
       ELSE /\ active' = TRUE
            /\ scopeExited' = FALSE
            /\ incoming' = Append(incoming, "conversation")
            /\ state' = "ACTIVE"
            /\ UNCHANGED <<control, lease, retired, reader, transport>>
    /\ UNCHANGED <<handshaken, handler, write, heard, finish, retained,
                   committed, failure>>

\* Seeded fault: an event that finds the queue full is put in all the same.
EnqueueUnbounded(event, to) ==
    /\ control' = Append(control, event)
    /\ state' = to
    /\ CancelLease
    /\ UNCHANGED <<incoming, reader, transport, failure>>

\* _enqueue_control on a queue of one; the caller has moved to `to`.
EnqueueControl(event, to) ==
    CASE ~active -> ReaderFails("no_control") /\ CancelLease
      [] active /\ control = <<>> ->
            /\ control' = <<event>>
            /\ state' = to
            /\ CancelLease
            /\ UNCHANGED <<incoming, reader, transport, failure>>
      [] OTHER -> Reject /\ UNCHANGED failure

CancelConversation ==
    /\ Reading
    /\ IF state \notin InConversation
       THEN Reject /\ UNCHANGED <<retained, committed, failure>>
       ELSE /\ retained' = None
            /\ committed' = FALSE
            /\ EnqueueControl("ConversationCancelled", state)
    /\ ReaderOnly

\* Seeded fault: an outcome is never held back.
HoldsBackNothing == FALSE

\* The bridge has not acknowledged that it waits.
HoldsBack == state = "FOLLOW_UP_COMMITTING"

\* _commit_follow_up_outcome.  While the timer expires the lease it holds
\* the arbiter, and the frame finds the session closing.
FollowUpOutcome(o) ==
    /\ Reading
    /\ IF committed \/ state \notin Interval
       THEN Reject /\ UNCHANGED <<retained, committed, failure>>
       ELSE IF lease = None      \* no deadline: an AssertionError
       THEN /\ ReaderFails("no_deadline")
            /\ KeepLease /\ UNCHANGED <<retained, committed>>
       ELSE /\ committed' = TRUE
            /\ IF HoldsBack
               THEN /\ retained' = o
                    /\ CancelLease
                    /\ UNCHANGED <<state, control, incoming, reader,
                                   transport, failure>>
               ELSE /\ UNCHANGED retained
                    /\ EnqueueControl(o, "ACTIVE")
    /\ ReaderOnly

\* The outcome comes after the deadline but before the timer has run.
FollowUpLate ==
    /\ Reading
    /\ state \in Interval
    /\ ~committed
    /\ lease = "running"
    /\ state' = "CLOSING"
    /\ PublishClose
    /\ reader' = "done"
    /\ transport' = FALSE
    /\ ReaderOnly
    /\ KeepLease /\ UNCHANGED <<retained, committed, failure>>

\* protocol_rejected has been sent behind the write that holds the lock.
ReaderCloses ==
    /\ reader = "rejecting"
    /\ write \notin {"begun", "written"}
    /\ reader' = "done"
    /\ transport' = FALSE
    /\ UNCHANGED <<sessionVars, control, followUpVars, handler, write, heard,
                   finish, failure>>

ReaderSeesClose ==
    /\ reader = "receiving"
    /\ ~transport
    /\ CommitTransportClosed
    /\ reader' = "done"
    /\ ReaderOnly /\ UNCHANGED <<transport, retained, committed, failure>>

ClientCloses ==
    /\ transport
    /\ transport' = FALSE
    /\ UNCHANGED <<sessionVars, control, followUpVars, handler, write, heard,
                   reader, finish, failure>>

-----------------------------------------------------------------------------
(* The lease                                                               *)

LeaseExpires ==
    /\ lease = "running"
    /\ IF state \in Interval /\ ~committed
       THEN /\ state' = "CLOSING"
            /\ PublishClose
            /\ transport' = FALSE
            /\ lease' = "expiring"
       ELSE lease' = None /\ UNCHANGED <<state, control, incoming, transport>>
    /\ UNCHANGED <<handshaken, active, scopeExited, retained, committed,
                   retired, handler, write, heard, reader, finish, failure>>

\* The client has answered the close.
LeaseEnds ==
    /\ lease = "expiring"
    /\ lease' = None
    /\ UNCHANGED <<sessionVars, control, retained, committed, retired,
                   handler, write, heard, reader, finish, transport, failure>>

-----------------------------------------------------------------------------
(* The writes of the handler's side: _send                                 *)

\* The writer lock is fair: a write comes behind the reader's rejection.
BeginWrite == write' = IF reader = "rejecting" THEN "queued" ELSE "begun"

\* A close() that waited for the scope is resumed before the first write
\* that follows the scope.
CloseIsAhead ==
    \/ finish \in {"reader", "retired"}
    \/ finish = "scope" /\ (active => scopeExited)

\* The frame is handed to the transport, which takes it or is closed.  For
\* follow_up_requested this is the commit.
StateAfterRequest == "FOLLOW_UP_COMMITTING"

HandlerOnly == UNCHANGED <<handshaken, reader, finish, transport>>

WriteHandoff ==
    /\ write = "begun" \/ (write = "queued" /\ reader # "rejecting")
    /\ handler = "ready" => ~CloseIsAhead
    /\ write' = IF transport THEN "written" ELSE "reset"
    /\ IF handler = "requesting"
       THEN /\ state' = StateAfterRequest
            /\ retained' = None
            /\ committed' = FALSE
            /\ lease' = "running"
            /\ retired' = (retired \/ lease # None)
       ELSE UNCHANGED <<state, followUpVars>>
    /\ HandlerOnly
    /\ UNCHANGED <<incoming, control, active, scopeExited, handler, heard,
                   failure>>

\* A write that was taken may still fail while it drains.
WriteReset ==
    /\ write = "written"
    /\ ~transport
    /\ write' = "reset"
    /\ UNCHANGED <<sessionVars, control, followUpVars, handler, heard, reader,
                   finish, transport, failure>>

Returns(pc) == handler = pc /\ write = "written"

\* ClientConnectionResetError: the close is committed, InputSessionClosed
\* raised.
Resets(pcs) ==
    /\ handler \in pcs
    /\ write = "reset"
    /\ CommitTransportClosed

-----------------------------------------------------------------------------
(* The handler: start(), accept_conversation(), the bridge, close()        *)

StartTakes ==
    /\ handler = "start"
    /\ incoming # <<>>
    /\ incoming' = Tail(incoming)
    /\ IF Head(incoming) = "SessionStart"
       THEN handler' = "accepted" /\ BeginWrite
       ELSE handler' = "close" /\ UNCHANGED write
    /\ HandlerOnly
    /\ UNCHANGED <<state, control, active, scopeExited, followUpVars, heard,
                   failure>>

\* The handshake times out; the transport is closed.
StartTimesOut ==
    /\ handler = "start"
    /\ incoming = <<>>
    /\ handler' = "close"
    /\ transport' = FALSE
    /\ UNCHANGED <<sessionVars, control, followUpVars, write, heard, reader,
                   finish, failure>>

\* start() goes on to IDLE whatever has happened to the state meanwhile, and
\* the handler from there to ACCEPTING without an await.
HandshakeAccepted ==
    /\ Returns("accepted")
    /\ state' = "ACCEPTING"
    /\ handler' = "ready"
    /\ BeginWrite
    /\ HandlerOnly
    /\ UNCHANGED <<incoming, control, active, scopeExited, followUpVars,
                   heard, failure>>

\* conversation_ready failed: __aenter__ raises, so __aexit__ never runs.
HandshakeOrReadyReset ==
    /\ Resets({"accepted", "ready"})
    /\ handler' = "close"
    /\ write' = None
    /\ HandlerOnly
    /\ UNCHANGED <<active, scopeExited, retained, committed, heard, failure>>

ReadySent ==
    /\ Returns("ready")
    /\ handler' = "accept"
    /\ write' = None
    /\ UNCHANGED <<sessionVars, control, followUpVars, heard, reader, finish,
                   transport, failure>>

AcceptTakes ==
    /\ handler = "accept"
    /\ incoming # <<>>
    /\ incoming' = Tail(incoming)
    /\ \/ /\ Head(incoming) = "conversation"
          /\ handler' = "started"
          /\ BeginWrite
          /\ UNCHANGED failure
       \/ /\ Head(incoming) # "conversation"
          /\ handler' = "close"
          /\ failure' = IF Head(incoming) = "SessionStart" THEN "accept"
                                                           ELSE failure
          /\ UNCHANGED write
    /\ HandlerOnly
    /\ UNCHANGED <<state, control, active, scopeExited, followUpVars, heard>>

StartedSent ==
    /\ Returns("started")
    /\ handler' = "working"
    /\ heard' = "pending"
    /\ write' = None
    /\ UNCHANGED <<sessionVars, control, followUpVars, reader, finish,
                   transport, failure>>

\* __aexit__ up to its await.
ExitScope ==
    /\ handler' = "exit"
    /\ retained' = None
    /\ committed' = FALSE
    /\ write' = None
    /\ UNCHANGED <<active, scopeExited, heard, failure>>

StartedReset == Resets({"started"}) /\ ExitScope /\ HandlerOnly

\* Seeded fault: the scope ends without a transition.
ScopeExitedSilently ==
    /\ handler = "exit"
    /\ retired' = FALSE
    /\ active' = FALSE
    /\ control' = <<>>
    /\ scopeExited' = TRUE
    /\ heard' = None
    /\ IF state \in Closing
       THEN handler' = "close" /\ UNCHANGED write
       ELSE handler' = "ready" /\ BeginWrite
    /\ HandlerOnly
    /\ UNCHANGED <<state, incoming, retained, committed, lease, failure>>

\* The rest of __aexit__, and the handler's loop.
ScopeExited ==
    /\ handler = "exit"
    /\ retired' = FALSE
    /\ active' = FALSE
    /\ control' = <<>>
    /\ scopeExited' = TRUE
    /\ heard' = None
    /\ IF state \in Closing
       THEN handler' = "close" /\ UNCHANGED <<state, write>>
       ELSE handler' = "ready" /\ state' = "ACCEPTING" /\ BeginWrite
    /\ HandlerOnly
    /\ UNCHANGED <<incoming, retained, committed, lease, failure>>

-----------------------------------------------------------------------------
(* The bridge                                                              *)

BridgeOnly == HandlerOnly /\ UNCHANGED <<incoming, active, scopeExited>>

\* receive_control
BridgeHears ==
    /\ handler \in BridgePCs
    /\ heard = "pending"
    /\ control # <<>>
    /\ heard' = Head(control)
    /\ control' = <<>>
    /\ BridgeOnly
    /\ UNCHANGED <<state, followUpVars, handler, write, failure>>

Begin(pc) == handler' = pc /\ BeginWrite

\* A processing update or a frame of the assistant's stream.
BridgeWrites ==
    /\ handler = "working"
    /\ heard = "pending"
    /\ Begin("writing")
    /\ BridgeOnly
    /\ UNCHANGED <<state, control, followUpVars, heard, failure>>

\* request_follow_up up to its write.  Where it raises AssertionError the
\* bridge has heard of the close before it sees the error.
BridgeRequests ==
    /\ handler = "working"
    /\ heard = "pending"
    /\ state = "ACTIVE" \/ control = <<>>
    /\ IF state = "ACTIVE"
       THEN Begin("requesting") /\ UNCHANGED failure
       ELSE /\ failure' = "request"
            /\ handler' = "terminated"
            /\ UNCHANGED write
    /\ BridgeOnly
    /\ UNCHANGED <<state, control, followUpVars, heard>>

BridgeWritten ==
    /\ \/ Returns("writing") /\ handler' = "working"
       \/ Returns("requesting") /\ handler' = "requested"
    /\ write' = None
    /\ BridgeOnly
    /\ UNCHANGED <<state, control, followUpVars, heard, failure>>

\* acknowledge_follow_up_ready, which has no await.
BridgeAcknowledges ==
    /\ handler = "requested"
    /\ heard = "pending"
    /\ IF state # "FOLLOW_UP_COMMITTING"
       THEN /\ failure' = "acknowledge"
            /\ handler' = "terminated"
            /\ UNCHANGED <<state, control, retained>>
       ELSE IF retained # None /\ control # <<>>
       THEN /\ failure' = "overflow"
            /\ handler' = "terminated"
            /\ UNCHANGED <<state, control, retained>>
       ELSE /\ handler' = "awaiting"
            /\ state' = IF retained = None THEN "AWAITING_FOLLOW_UP"
                                           ELSE "ACTIVE"
            /\ control' = IF retained = None THEN control ELSE <<retained>>
            /\ retained' = None
            /\ UNCHANGED failure
    /\ BridgeOnly
    /\ UNCHANGED <<committed, lease, retired, write, heard>>

BridgeResumes ==
    /\ handler = "awaiting"
    /\ heard = "UserMessage"
    /\ handler' = "working"
    /\ heard' = "pending"
    /\ BridgeOnly
    /\ UNCHANGED <<state, control, followUpVars, write, failure>>

\* end_conversation up to its write: the agent has finished, or an event was
\* heard; a write still waiting for the writer lock is dropped.
BridgeEnds ==
    /\ \/ handler = "working"
       \/ handler = "requested" /\ heard # "pending"
       \/ handler = "awaiting" /\ heard \notin {"pending", "UserMessage"}
       \/ handler \in {"writing", "requesting"} /\ heard # "pending"
             /\ write = "queued"
    /\ Begin("ending")
    /\ CancelLease
    /\ BridgeOnly
    /\ UNCHANGED <<state, control, retained, committed, heard, failure>>

\* The session is lost: the bridge cancels its agent and ends.
BridgeReset ==
    /\ Resets({"writing", "requesting"})
    /\ Begin("ending")
    /\ HandlerOnly
    /\ UNCHANGED <<active, scopeExited, retained, committed, heard, failure>>

BridgeEnded ==
    /\ \/ Returns("ending") /\ CancelLease /\ UNCHANGED <<state, control, incoming>>
       \/ Resets({"ending"})
    /\ ExitScope
    /\ HandlerOnly

-----------------------------------------------------------------------------
(* close()                                                                 *)

CloseCall ==
    /\ finish = None
    /\ CommitClosing
    /\ PublishClose
    /\ finish' = "reader"
    /\ UNCHANGED <<handshaken, active, scopeExited, followUpVars, handler,
                   write, heard, reader, transport, failure>>

HandlerCloses == handler = "close" /\ CloseCall

ShutdownCloses ==
    /\ Shutdown
    /\ handler \notin {"close", "done", "terminated"}
    /\ CloseCall

FinishReader ==
    /\ finish = "reader"
    /\ CancelLease
    /\ reader' = "done"
    /\ finish' = "retired"
    /\ UNCHANGED <<sessionVars, control, retained, committed, handler, write,
                   heard, transport, failure>>

FinishRetired ==
    /\ finish = "retired"
    /\ retired' = FALSE
    /\ finish' = "scope"
    /\ UNCHANGED <<sessionVars, control, retained, committed, lease, handler,
                   write, heard, reader, transport, failure>>

FinishScope ==
    /\ finish = "scope"
    /\ active => scopeExited
    /\ transport' = FALSE
    /\ finish' = "transport"
    /\ UNCHANGED <<sessionVars, control, followUpVars, handler, write, heard,
                   reader, failure>>

FinishTransport ==
    /\ finish = "transport"
    /\ state' = "CLOSED"
    /\ finish' = "done"
    /\ UNCHANGED <<handshaken, incoming, active, scopeExited, control,
                   followUpVars, handler, write, heard, reader, transport,
                   failure>>

\* The registry forgets the session, its slot is free.
SlotFreed ==
    /\ handler = "close"
    /\ finish = "done"
    /\ handler' = "done"
    /\ UNCHANGED <<sessionVars, control, followUpVars, write, heard, reader,
                   finish, transport, failure>>

-----------------------------------------------------------------------------

\* The client's next frame.  Frames that came together are committed without
\* an await; otherwise the loop has resumed a bridge that is to hear of the
\* one before.
Frame ==
    /\ burst \/ handler \notin BridgePCs \/ heard # "pending" \/ control = <<>>
    /\ \/ BadFrame \/ SessionStart \/ StartConversation \/ CancelConversation
       \/ \E o \in Outcomes : FollowUpOutcome(o)
       \/ FollowUpLate
    /\ burst' = TRUE

ReaderResumes == (ReaderCloses \/ ReaderSeesClose) /\ burst' = FALSE

HandlerResumes ==
    /\ \/ WriteHandoff \/ WriteReset
       \/ StartTakes \/ HandshakeAccepted \/ HandshakeOrReadyReset
       \/ ReadySent \/ AcceptTakes \/ StartedSent \/ StartedReset
       \/ ScopeExited
       \/ BridgeWritten \/ BridgeAcknowledges \/ BridgeResumes
       \/ BridgeReset \/ BridgeEnded
       \/ heard # "pending" /\ BridgeEnds
       \/ HandlerCloses \/ SlotFreed
    /\ burst' = FALSE

ControlResumes == BridgeHears /\ burst' = FALSE

BridgeDecides ==
    /\ \/ BridgeWrites \/ BridgeRequests
       \/ heard = "pending" /\ BridgeEnds
    /\ burst' = FALSE

CloseResumes ==
    /\ \/ FinishReader \/ FinishRetired \/ FinishScope \/ FinishTransport
    /\ burst' = FALSE

LeaseResumes == (LeaseExpires \/ LeaseEnds) /\ burst' = FALSE

Outside ==
    /\ ClientCloses \/ StartTimesOut \/ ShutdownCloses
    /\ burst' = FALSE

Over == handler \in {"done", "terminated"} /\ UNCHANGED vars

Next ==
    \/ handler \notin {"done", "terminated"} /\
        (\/ Frame \/ ReaderResumes \/ HandlerResumes \/ ControlResumes
         \/ BridgeDecides \/ LeaseResumes \/ CloseResumes \/ Outside)
    \/ Over

Spec == Init /\ [][Next]_vars

\* The event loop resumes every task whose await is over, timers fire, and a
\* bridge that has heard how its conversation ends lets it end.
FairSpec ==
    /\ Spec
    /\ WF_vars(ReaderResumes)
    /\ WF_vars(HandlerResumes)
    /\ WF_vars(ControlResumes)
    /\ WF_vars(CloseResumes)
    /\ WF_vars(LeaseResumes)

-----------------------------------------------------------------------------
(* Properties                                                              *)

\* The assertions that relate the session's tasks hold: an active session
\* has a control queue, a retained outcome finds it empty, accept() takes
\* what the reader committed for it, a follow-up is requested in ACTIVE.
AssertionsHold ==
    failure \notin {"no_control", "overflow", "accept", "request"}

\* The bridge hears what the user answered only where it waits for it: an
\* outcome that overtakes the acknowledgement is held back.
OutcomeOnlyWhenAwaited ==
    heard \in Outcomes =>
        handler \notin {"working", "writing", "requesting", "requested"}

\* A conversation the reader has committed is the one the next accept()
\* takes: none is queued while another is bridged, and the scope of the one
\* that is bridged is open.
AcceptedOnce ==
    /\ "conversation" \in {incoming[i] : i \in DOMAIN incoming} =>
            active /\ handler \notin BridgePCs
    /\ handler \in BridgePCs => active /\ ~scopeExited

\* Once the session is closing, the only thing the bridge can come to hear is
\* that it is: _publish_close drops an answer or a cancellation on its way.
CloseIsHeard ==
    [][(state \in Closing /\ heard = "pending" /\ heard' \in ControlEvents)
        => heard' = "InputSessionClosed"]_vars

\* A session that closes gives its slot back: the handler's close() ends,
\* whichever task closed the session and wherever the handler was.
SlotReleased ==
    (state \in Closing) ~> (handler \in {"done", "terminated"})

\* A session that is closing stays so (CP-SESSION-003).
ClosingIsFinal == [][(state \in Closing) => (state' \in Closing)]_vars

\* A frame the session cannot take is answered with protocol_rejected
\* (WS-ERROR-001); it never ends in an AssertionError of the reader.
FramesAreAnswered == failure # "no_deadline"

\* The session is an input as the bridge may expect it: until it ends the
\* conversation it hears what InputPort lets it hear, and in that order.
Listening == handler \in BridgePCs \ {"ending"}

IP == INSTANCE InputPort WITH
        Outcomes <- Outcomes, Cancelled <- "ConversationCancelled",
        Failed <- "InputConversationFailed", Closed <- "InputSessionClosed",
        ear <- IF Listening THEN heard ELSE None,
        queue <- IF Listening /\ control # <<>> THEN Head(control) ELSE None,
        gate <- CASE handler = "awaiting" -> "waiting"
                  [] handler \in {"requesting", "requested"} -> "asked"
                  [] OTHER -> "shut"

ImplementsInput == IP!Spec
=============================================================================
