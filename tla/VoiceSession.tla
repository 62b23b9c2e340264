---------------------------- MODULE VoiceSession ----------------------------
(***************************************************************************)
(* The life of one microphone's input sessions: the manager's reconnecting  *)
(* loop, the supervision of one session, the acceptance of a conversation   *)
(* and its hand-over, the follow-up collector of the conversation, and the  *)
(* closing of the session by the manager or because the microphone is lost. *)
(* What the microphone itself does is in MicrophoneBoundary; the bridge is  *)
(* here only as the task that requests a follow-up, acknowledges it and      *)
(* ends.                                                                    *)
(*                                                                         *)
(* A step is what a task does between two suspensions.  In particular the   *)
(* exit of a conversation's scope, the test of the supervising loop and the *)
(* next acceptance are one step.                                            *)
(***************************************************************************)
EXTENDS Naturals

CONSTANT MaxSessions        \* bound on the input sessions created

ASSUME SessionAssumption == MaxSessions \in Nat \ {0}

VARIABLES
    loop,       \* _run_microphone() with supervise_input() in it: where it is
    session,    \* the VoiceInputSession
    talk,       \* the VoiceInputConversation and its follow-up collector
    shutdown,   \* MicrophoneManager: closing, and how far close() has come
    made,       \* sessions created
    refused     \* an acceptance was refused by the assertion on the state

vsVars == <<loop, session, talk, shutdown, made, refused>>

NewSession == [state |-> "IDLE", accept |-> "none", active |-> FALSE, exited |-> TRUE,
               closer |-> "none", unavailable |-> FALSE]

\* control: what the queue of control events holds; collector: the follow-up task;
\* cancel: it has been cancelled; window: it waits for the receive it has cancelled itself;
\* swallowed: a cancellation was lost there.
NewTalk == [bridge |-> "none", control |-> "none", collector |-> "none", cancel |-> FALSE,
            acked |-> FALSE, swallowed |-> FALSE]

VsInit ==
    /\ loop = "check" /\ session = [NewSession EXCEPT !.state = "CLOSED"]
    /\ talk = NewTalk /\ shutdown = "running" /\ made = 0 /\ refused = FALSE

Closing == shutdown # "running"

-----------------------------------------------------------------------------
(* Closing a session: the state, the terminal event and the closing task.   *)

\* Seeded fault: the active conversation is not told.
NotPublished(t) == t

Published(t) == IF session.active THEN [t EXCEPT !.control = "closed"] ELSE t

\* close(), up to its first await.
BeginClose ==
    IF session.closer # "none" \/ session.state = "CLOSED"
    THEN UNCHANGED <<session, talk>>
    ELSE /\ session' = [session EXCEPT !.state = "CLOSING", !.closer = "started"]
         /\ talk' = Published(talk)

\* mark_unavailable()
Unavailable(s) ==
    [s EXCEPT !.unavailable = TRUE,
              !.state = IF @ = "CLOSED" THEN @ ELSE "CLOSING",
              !.closer = IF @ = "none" /\ s.state # "CLOSED" THEN "started" ELSE @]

\* _finish_close(): cancel the acceptance, then wait for the scope of the conversation.
CloserCancelsAccept ==
    /\ session.closer = "started"
    /\ session' = [session EXCEPT !.closer = "scope",
                                  !.accept = IF @ = "running" THEN "cancelled" ELSE @]
    /\ UNCHANGED <<loop, talk, shutdown, made, refused>>

\* Seeded fault: the closing task does not wait for the conversation's scope.
CloserFinishesEarly ==
    /\ session.closer = "scope"
    /\ session' = [session EXCEPT !.closer = "done", !.state = "CLOSED"]
    /\ UNCHANGED <<loop, talk, shutdown, made, refused>>

CloserFinishes ==
    /\ session.closer = "scope"
    /\ session.active => session.exited
    /\ session' = [session EXCEPT !.closer = "done", !.state = "CLOSED"]
    /\ UNCHANGED <<loop, talk, shutdown, made, refused>>

-----------------------------------------------------------------------------
(* The loop of a microphone.                                                *)

\* The supervising loop's next turn, from a session s: leave it, accept, or fail the
\* assertion that accepting is legal only in IDLE.
Turn(s) ==
    IF s.state = "CLOSED"
    THEN loop' = "leave" /\ session' = s /\ UNCHANGED refused
    ELSE IF s.state = "IDLE"
    THEN /\ loop' = "accepting" /\ UNCHANGED refused
         /\ session' = [s EXCEPT !.state = "ACCEPTING", !.accept = "running"]
    ELSE loop' = "leave_failed" /\ session' = s /\ refused' = TRUE

OpenSession ==
    /\ loop = "check" /\ ~Closing /\ made < MaxSessions
    /\ made' = made + 1
    /\ talk' = NewTalk
    /\ Turn(NewSession)
    /\ UNCHANGED shutdown

LoopEnds ==
    /\ loop = "check" /\ Closing
    /\ loop' = "ended"
    /\ UNCHANGED <<session, talk, shutdown, made, refused>>

\* The acceptance task hears a complete utterance, or fails.
AcceptCompletes ==
    /\ session.accept = "running"
    /\ session' \in {[session EXCEPT !.accept = r] : r \in {"heard", "failed", "unavailable"}}
    /\ UNCHANGED <<loop, talk, shutdown, made, refused>>

\* Seeded fault: what the acceptance returned is handed over as it is.
HandOverAnyway ==
    /\ loop = "accepting" /\ session.accept = "heard"
    /\ session' = [session EXCEPT !.active = TRUE, !.exited = FALSE]
    /\ talk' = [NewTalk EXCEPT !.bridge = "running"]
    /\ loop' = "bridge"
    /\ UNCHANGED <<shutdown, made, refused>>

\* __aenter__ resumes: close wins over a conversation that was already heard.
HandOver ==
    /\ loop = "accepting" /\ session.accept = "heard"
    /\ IF session.state = "ACCEPTING"
       THEN /\ session' = [session EXCEPT !.state = "ACTIVE", !.active = TRUE, !.exited = FALSE]
            /\ talk' = [NewTalk EXCEPT !.bridge = "running"]
            /\ loop' = "bridge"
       ELSE loop' = "leave" /\ UNCHANGED <<session, talk>>
    /\ UNCHANGED <<shutdown, made, refused>>

AcceptFails ==
    /\ loop = "accepting" /\ session.accept \in {"failed", "unavailable", "cancelled"}
    /\ loop' = IF session.accept = "cancelled" THEN "leave" ELSE "leave_failed"
    /\ UNCHANGED <<session, talk, shutdown, made, refused>>

-----------------------------------------------------------------------------
(* The conversation.                                                        *)

InBridge == loop = "bridge" /\ talk.bridge # "over"

RequestFollowUp ==
    /\ InBridge /\ talk.collector = "none"
    /\ talk' = [talk EXCEPT !.collector = "listening"]
    /\ UNCHANGED <<loop, session, shutdown, made, refused>>

\* The bridge goes on with the committed follow-up, unless a terminal event of the
\* input has come first.
Acknowledge ==
    /\ InBridge /\ talk.collector # "none" /\ ~talk.acked /\ talk.control # "closed"
    /\ talk' = [talk EXCEPT !.acked = TRUE]
    /\ UNCHANGED <<loop, session, shutdown, made, refused>>

\* The speech or the deadline comes; the other task of the race is cancelled and awaited.
CollectorDecides ==
    /\ talk.collector = "listening" /\ ~talk.cancel
    /\ talk' = [talk EXCEPT !.collector = "window"]
    /\ UNCHANGED <<loop, session, shutdown, made, refused>>

\* A cancellation that arrives in that window is suppressed with the one it awaits.
CollectorGoesOn ==
    /\ talk.collector = "window"
    /\ talk' = [talk EXCEPT !.collector = "answering", !.cancel = FALSE,
                            !.swallowed = @ \/ talk.cancel]
    /\ UNCHANGED <<loop, session, shutdown, made, refused>>

\* The outcome is published once the bridge has acknowledged, unless the input is lost.
CollectorAnswers ==
    /\ talk.collector = "answering" /\ talk.acked /\ ~talk.cancel
    /\ talk' = [talk EXCEPT !.collector = "done",
                            !.control = IF @ = "closed" THEN @ ELSE "outcome"]
    /\ UNCHANGED <<loop, session, shutdown, made, refused>>

CollectorStops ==
    /\ talk.cancel /\ talk.collector \in {"listening", "answering"}
    /\ talk' = [talk EXCEPT !.collector = "done"]
    /\ UNCHANGED <<loop, session, shutdown, made, refused>>

\* The microphone is lost, to an operation of the bridge or to the collector.
MicrophoneLost ==
    /\ loop = "bridge" /\ talk.bridge = "running" /\ ~session.unavailable
    /\ session' = Unavailable(session)
    /\ talk' = [talk EXCEPT !.control = "closed",
                            !.collector = IF @ = "listening" THEN "done" ELSE @]
    /\ UNCHANGED <<loop, shutdown, made, refused>>

\* The bridge ends: the agent is done, or the input's terminal event or the follow-up's
\* outcome has been received; its scope cancels the collector.
BridgeEnds ==
    /\ InBridge
    /\ loop' = "cleanup"
    /\ talk' = [talk EXCEPT !.bridge = "over",
                            !.cancel = talk.collector \notin {"none", "done"}]
    /\ UNCHANGED <<session, shutdown, made, refused>>

\* The rest of cleanup() may lose the microphone; then the scope is left and the
\* supervising loop takes its next turn.
ScopeExits ==
    /\ loop = "cleanup" /\ talk.collector \in {"none", "done"}
    /\ talk' = NewTalk
    /\ \E s \in {session, Unavailable(session)} :
          Turn([s EXCEPT !.active = FALSE, !.accept = "none", !.exited = TRUE,
                         !.state = IF @ = "ACTIVE" THEN "IDLE" ELSE @])
    /\ UNCHANGED <<shutdown, made>>

-----------------------------------------------------------------------------
(* Leaving a session, and the manager.                                      *)

\* The session's scope closes it.
LeaveSession ==
    /\ loop \in {"leave", "leave_failed"}
    /\ BeginClose
    /\ loop' = IF loop = "leave" THEN "closing" ELSE "closing_failed"
    /\ UNCHANGED <<shutdown, made, refused>>

\* Seeded fault: a session that ends ends the microphone.
SessionLeftForGood ==
    /\ loop \in {"closing", "closing_failed"} /\ session.state = "CLOSED"
    /\ loop' = "ended"
    /\ UNCHANGED <<session, talk, shutdown, made, refused>>

\* A session that ended for a lost microphone is replaced, as after any failure.
SessionLeft ==
    /\ loop \in {"closing", "closing_failed"} /\ session.state = "CLOSED"
    /\ loop' = IF loop = "closing" /\ ~session.unavailable THEN "ended" ELSE "recover"
    /\ UNCHANGED <<session, talk, shutdown, made, refused>>

\* The boundary is recreated; a pause follows.
Recovered ==
    /\ loop = "recover"
    /\ loop' = "check"
    /\ UNCHANGED <<session, talk, shutdown, made, refused>>

\* MicrophoneManager.close(): the sessions, then the loops, then the drivers.
ManagerCloses ==
    /\ shutdown = "running"
    /\ shutdown' = "sessions"
    /\ BeginClose
    /\ UNCHANGED <<loop, made, refused>>

SessionsClosed ==
    /\ shutdown = "sessions" /\ session.state = "CLOSED"
    /\ shutdown' = "tasks"
    /\ UNCHANGED <<loop, session, talk, made, refused>>

DriversClosed ==
    /\ shutdown = "tasks" /\ loop = "ended"
    /\ shutdown' = "closed"
    /\ UNCHANGED <<loop, session, talk, made, refused>>

-----------------------------------------------------------------------------
CollectorStep == CollectorGoesOn \/ CollectorAnswers \/ CollectorStops
LoopStep ==
    \/ OpenSession \/ LoopEnds \/ HandOver \/ AcceptFails \/ ScopeExits
    \/ LeaveSession \/ SessionLeft \/ Recovered
CloserStep == CloserCancelsAccept \/ CloserFinishes
ShutdownStep == SessionsClosed \/ DriversClosed

VsNext ==
    \/ LoopStep \/ CloserStep \/ ShutdownStep \/ CollectorStep
    \/ ManagerCloses \/ AcceptCompletes \/ MicrophoneLost
    \/ RequestFollowUp \/ Acknowledge \/ CollectorDecides \/ BridgeEnds

VsSpec == VsInit /\ [][VsNext]_vsVars

\* Tasks run; the bridge ends when it is told that the input is closed, or when it has
\* an outcome.  Nothing is said of the user, the agent or the operator.
VsFairSpec ==
    /\ VsSpec
    /\ WF_vsVars(LoopStep)
    /\ WF_vsVars(CloserStep)
    /\ WF_vsVars(ShutdownStep)
    /\ WF_vsVars(CollectorStep)
    /\ WF_vsVars(talk.control # "none" /\ BridgeEnds)

-----------------------------------------------------------------------------
(* What must hold.                                                          *)

\* Close wins: once a close has been committed no conversation is handed to the core, not
\* even one that the acceptance had already heard (CP-SESSION-002; conversation_adapter.py
\* 137-152).
CloseWins ==
    [][(talk.bridge # "running" /\ talk'.bridge = "running") => session.closer = "none"]_vsVars

\* A closed session is quiet: no conversation, acceptance or follow-up collector of it is
\* left (conversation_adapter.py 96-115).
ClosedIsQuiet ==
    session.state = "CLOSED" =>
        /\ ~session.active /\ session.accept # "running"
        /\ talk.bridge # "running" /\ talk.collector \in {"none", "done"}

\* The manager's close() returns, whatever the conversation was doing, but for a
\* cancellation of the collector lost in its window (manager.py 131-142).
CloseReturns == Closing ~> (shutdown = "closed" \/ talk.swallowed)

\* A microphone that was lost is connected again unless the manager closes, but for the
\* same lost cancellation (manager.py 144-181).
LostIsReconnected ==
    (loop = "bridge" /\ session.unavailable)
        ~> (Closing \/ loop = "accepting" \/ made = MaxSessions \/ talk.swallowed)

\* Accepting is only ever asked of an idle session (ai-server-conversation-protocol.md,
\* InputSession operation matrix; the assertion of conversation_adapter.py 139).
AcceptedOnlyWhenIdle == ~refused

\* The session is an input as the bridge may expect it (InputPort), in the part of the
\* conversation modelled here: up to the event that the bridge ends it for.
Listening == loop = "bridge" /\ talk.bridge = "running"

IP == INSTANCE InputPort WITH
        Outcomes <- {"outcome"}, Cancelled <- "cancelled", Failed <- "failed",
        Closed <- "closed",
        ear <- IF Listening THEN "pending" ELSE "none",
        queue <- IF Listening THEN talk.control ELSE "none",
        gate <- IF ~Listening \/ talk.collector = "none" THEN "shut"
                ELSE IF talk.acked THEN "waiting" ELSE "asked"

ImplementsInput == IP!Spec

=============================================================================
