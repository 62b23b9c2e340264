----------------------------- MODULE VoiceProofs -----------------------------
(***************************************************************************)
(* Proofs about a microphone: its input sessions, however many of them it    *)
(* goes through, and its boundary with the device, for any number of         *)
(* listening generations, streams, segments, playbacks and failures.         *)
(***************************************************************************)
EXTENDS VoiceSession, MicrophoneBoundary, FiniteSetTheorems, TLAPS

-----------------------------------------------------------------------------
(* The input sessions.                                                      *)

Sessions ==
    [state : {"IDLE", "ACCEPTING", "ACTIVE", "CLOSING", "CLOSED"},
     accept : {"none", "running", "heard", "failed", "unavailable", "cancelled"},
     active : BOOLEAN, exited : BOOLEAN,
     closer : {"none", "started", "scope", "done"}, unavailable : BOOLEAN]

Talks ==
    [bridge : {"none", "running", "over"}, control : {"none", "closed", "outcome"},
     collector : {"none", "listening", "window", "answering", "done"}, cancel : BOOLEAN,
     acked : BOOLEAN, swallowed : BOOLEAN]

VsTypeOK == session \in Sessions /\ talk \in Talks

InScope == loop \in {"bridge", "cleanup"}

\* The scope of a conversation is entered exactly while the loop is in it, and without one
\* there is nothing left of a conversation.
ScopeInv ==
    /\ session.active <=> InScope
    /\ session.exited <=> ~session.active
    /\ ~InScope => talk.bridge = "none" /\ talk.collector = "none"

\* A session that is being closed is past accepting; the closing task has ended the
\* acceptance before it waits for the scope, and has waited before it closes the session.
ClosingInv ==
    /\ session.closer # "none" => session.state \in {"CLOSING", "CLOSED"}
    /\ session.closer \in {"scope", "done"} \/ session.state = "CLOSED"
          => session.accept # "running"
    /\ session.state = "CLOSED" => ~InScope

VsInv == VsTypeOK /\ ScopeInv /\ ClosingInv

-----------------------------------------------------------------------------
LEMMA InitVs == VsInit => VsInv
<1> SUFFICES ASSUME VsInit PROVE VsInv
  OBVIOUS
<1>1. session \in Sessions /\ ~session.active /\ session.exited /\ session.state = "CLOSED"
      /\ session.accept = "none" /\ session.closer = "none"
  BY DEF VsInit, NewSession, Sessions
<1>2. talk \in Talks /\ talk.bridge = "none" /\ talk.collector = "none"
  BY DEF VsInit, NewTalk, Talks
<1>3. ~InScope
  BY DEF VsInit, InScope
<1> QED
  BY <1>1, <1>2, <1>3 DEF VsInv, VsTypeOK, ScopeInv, ClosingInv

\* The next turn of the supervising loop, from a session without a conversation.
LEMMA TurnInv ==
    ASSUME NEW s \in Sessions, Turn(s), talk' = NewTalk,
           ~s.active, s.exited, s.accept # "running",
           s.closer # "none" => s.state \in {"CLOSING", "CLOSED"}
    PROVE  VsInv'
<1> USE DEF VsInv, VsTypeOK, Sessions, Talks, ScopeInv, ClosingInv, InScope,
        NewTalk
<1>1. CASE s.state = "CLOSED"
  BY <1>1 DEF Turn
<1>2. CASE s.state = "IDLE"
  BY <1>2 DEF Turn
<1>3. CASE s.state \notin {"CLOSED", "IDLE"}
  BY <1>3 DEF Turn
<1> QED
  BY <1>1, <1>2, <1>3

LEMMA NextVs == VsInv /\ [VsNext]_vsVars => VsInv'
<1> SUFFICES ASSUME VsInv, [VsNext]_vsVars PROVE VsInv'
  OBVIOUS
<1> USE DEF VsInv, VsTypeOK, ScopeInv, ClosingInv, InScope
<1>1. CASE OpenSession
  BY <1>1, TurnInv DEF OpenSession, NewSession, Sessions
<1>2. CASE ScopeExits
  <2>1. PICK s \in {session, Unavailable(session)} :
          Turn([s EXCEPT !.active = FALSE, !.accept = "none", !.exited = TRUE,
                         !.state = IF @ = "ACTIVE" THEN "IDLE" ELSE @])
    BY <1>2 DEF ScopeExits
  <2>2. s \in Sessions /\ (s.closer # "none" => s.state \in {"CLOSING", "CLOSED"})
    BY DEF Unavailable, Sessions
  <2> DEFINE r == [s EXCEPT !.active = FALSE, !.accept = "none", !.exited = TRUE,
                            !.state = IF @ = "ACTIVE" THEN "IDLE" ELSE @]
  <2>3. /\ r \in Sessions /\ ~r.active /\ r.exited /\ r.accept # "running"
        /\ r.closer # "none" => r.state \in {"CLOSING", "CLOSED"}
    BY <2>2, ZenonT(60) DEF Sessions
  <2>4. Turn(r) /\ talk' = NewTalk
    BY <1>2, <2>1 DEF ScopeExits
  <2> HIDE DEF r
  <2> QED
    BY <2>3, <2>4, TurnInv
<1>3. CASE HandOver
  <2>1. CASE session.state = "ACCEPTING"
    <3>1. /\ session' \in Sessions /\ session'.active /\ ~session'.exited
          /\ session'.state = "ACTIVE" /\ session'.closer = "none"
      BY <1>3, <2>1 DEF HandOver, Sessions
    <3>2. talk' \in Talks
      BY <1>3, <2>1 DEF HandOver, NewTalk, Talks
    <3>3. loop' = "bridge"
      BY <1>3, <2>1 DEF HandOver
    <3> QED
      BY <3>1, <3>2, <3>3
  <2>2. CASE session.state # "ACCEPTING"
    BY <1>3, <2>2 DEF HandOver
  <2> QED
    BY <2>1, <2>2
<1>12. CASE AcceptFails
  BY <1>12 DEF AcceptFails
<1>13. CASE AcceptCompletes
  BY <1>13 DEF AcceptCompletes, Sessions
<1>4. CASE LoopEnds \/ SessionLeft \/ Recovered
  BY <1>4 DEF LoopEnds, SessionLeft, Recovered
<1>5. CASE CloserStep
  BY <1>5 DEF CloserStep, CloserCancelsAccept, CloserFinishes, Sessions
<1>6. CASE BeginClose /\ (loop' = loop \/ (loop \in {"leave", "leave_failed"} /\ ~InScope'))
  <2>1. CASE UNCHANGED <<session, talk>>
    BY <1>6, <2>1
  <2>2. CASE session' = [session EXCEPT !.state = "CLOSING", !.closer = "started"]
             /\ talk' = Published(talk) /\ session.closer = "none"
    <3>1. talk' \in Talks /\ talk'.bridge = talk.bridge /\ talk'.collector = talk.collector
      BY <2>2 DEF Published, Talks
    <3>2. /\ session' \in Sessions /\ session'.active = session.active
          /\ session'.exited = session.exited /\ session'.state = "CLOSING"
          /\ session'.closer = "started"
      BY <2>2 DEF Sessions
    <3> QED
      BY <1>6, <3>1, <3>2
  <2> QED
    BY <1>6, <2>1, <2>2 DEF BeginClose
<1>7. CASE LeaveSession \/ ManagerCloses
  BY <1>6, <1>7 DEF LeaveSession, ManagerCloses
<1>8. CASE ShutdownStep \/ UNCHANGED vsVars
  BY <1>8 DEF ShutdownStep, SessionsClosed, DriversClosed, vsVars
<1>9. CASE CollectorStep \/ CollectorDecides
  BY <1>9
  DEF CollectorStep, CollectorGoesOn, CollectorAnswers, CollectorStops,
      CollectorDecides, Talks
<1>10. CASE RequestFollowUp \/ Acknowledge \/ BridgeEnds
  BY <1>10 DEF RequestFollowUp, Acknowledge, BridgeEnds, InBridge, Talks
<1>11. CASE MicrophoneLost
  BY <1>11, ZenonT(60) DEF MicrophoneLost, Unavailable, Sessions, Talks
<1> QED
  BY <1>1, <1>2, <1>3, <1>4, <1>5, <1>7, <1>8, <1>9, <1>10, <1>11, <1>12, <1>13
  DEF VsNext, LoopStep

LEMMA VsInvariance == VsSpec => []VsInv
  BY InitVs, NextVs, PTL DEF VsSpec

-----------------------------------------------------------------------------
\* A closed session has no conversation, acceptance or follow-up left, however many sessions
\* the microphone has been through.
THEOREM ClosedSessionsAreQuiet == VsSpec => []ClosedIsQuiet
<1>1. VsInv => ClosedIsQuiet
  BY DEF VsInv, ScopeInv, ClosingInv, InScope, ClosedIsQuiet
<1> QED
  BY <1>1, VsInvariance, PTL

\* Once a close has been committed no conversation is handed over.
THEOREM CloseAlwaysWins == VsSpec => CloseWins
<1>1. VsInv /\ [VsNext]_vsVars
      => [(talk.bridge # "running" /\ talk'.bridge = "running") => session.closer = "none"]_vsVars
  <2> SUFFICES ASSUME VsInv, VsNext, talk.bridge # "running", talk'.bridge = "running"
               PROVE  session.closer = "none"
    BY DEF vsVars
  <2>1. CASE HandOver
    BY <2>1 DEF HandOver, VsInv, ClosingInv
  <2> USE DEF VsInv, VsTypeOK, Talks
  <2>2. CASE OpenSession \/ ScopeExits
    BY <2>2 DEF OpenSession, ScopeExits, NewTalk
  <2>3. CASE LoopEnds \/ AcceptFails \/ SessionLeft \/ Recovered \/ CloserStep \/ ShutdownStep
             \/ AcceptCompletes
    BY <2>3
    DEF LoopEnds, AcceptFails, SessionLeft, Recovered, CloserStep,
        CloserCancelsAccept, CloserFinishes, ShutdownStep, SessionsClosed,
        DriversClosed, AcceptCompletes
  <2>4. CASE LeaveSession \/ ManagerCloses
    <3>1. talk' = talk \/ talk' = Published(talk)
      BY <2>4 DEF LeaveSession, ManagerCloses, BeginClose
    <3> QED
      BY <3>1 DEF Published
  <2>5. CASE CollectorStep \/ CollectorDecides \/ MicrophoneLost
    BY <2>5
    DEF CollectorStep, CollectorGoesOn, CollectorAnswers, CollectorStops,
        CollectorDecides, MicrophoneLost
  <2>6. CASE RequestFollowUp \/ Acknowledge \/ BridgeEnds
    BY <2>6 DEF RequestFollowUp, Acknowledge, BridgeEnds
  <2> QED
    BY <2>1, <2>2, <2>3, <2>4, <2>5, <2>6 DEF VsNext, LoopStep
<1> QED
  BY <1>1, VsInvariance, PTL DEF VsSpec, CloseWins

-----------------------------------------------------------------------------
(* The session as an input.                                                 *)

\* The collector publishes its outcome last, and is not acknowledged before it exists.
TalkInv ==
    /\ talk.collector = "none" => ~talk.acked
    /\ talk.collector # "done" => talk.control # "outcome"

PortEar == IF Listening THEN "pending" ELSE "none"
PortQueue == IF Listening THEN talk.control ELSE "none"
PortGate == IF ~Listening \/ talk.collector = "none" THEN "shut"
            ELSE IF talk.acked THEN "waiting" ELSE "asked"
Port == <<PortEar, PortQueue, PortGate>>

LEMMA InputStep ==
    ASSUME VsInv, TalkInv, [VsNext]_vsVars
    PROVE  TalkInv' /\ [IP!Next]_Port
<1> USE DEF VsInv, VsTypeOK, TalkInv, Talks, Port, PortEar, PortQueue, PortGate, Listening,
        IP!Next, IP!Nothing
<1>1. CASE OpenSession
  BY <1>1 DEF OpenSession, NewTalk, Turn
<1>2. CASE ScopeExits
  BY <1>2 DEF ScopeExits, NewTalk, Turn
<1>3. CASE HandOver
  BY <1>3 DEF HandOver, NewTalk, IP!Begin
<1>4. CASE AcceptFails \/ LoopEnds \/ SessionLeft \/ Recovered
  BY <1>4 DEF AcceptFails, LoopEnds, SessionLeft, Recovered
<1>5. CASE AcceptCompletes \/ CloserStep \/ ShutdownStep \/ UNCHANGED vsVars
  BY <1>5
  DEF AcceptCompletes, CloserStep, CloserCancelsAccept, CloserFinishes, ShutdownStep,
      SessionsClosed, DriversClosed, vsVars
<1>6. CASE LeaveSession \/ ManagerCloses
  <2>1. talk' = talk \/ talk' = [talk EXCEPT !.control = "closed"]
    BY <1>6 DEF LeaveSession, ManagerCloses, BeginClose, Published
  <2>2. loop' = loop \/ (loop # "bridge" /\ loop' # "bridge")
    BY <1>6 DEF LeaveSession, ManagerCloses
  <2> QED
    BY <2>1, <2>2 DEF IP!Interrupt
<1>7. CASE CollectorStep \/ CollectorDecides
  <2>1. CASE CollectorAnswers
    BY <2>1 DEF CollectorAnswers, IP!Answer
  <2> QED
    BY <1>7, <2>1
    DEF CollectorStep, CollectorGoesOn, CollectorStops, CollectorDecides
<1>8. CASE RequestFollowUp
  BY <1>8 DEF RequestFollowUp, InBridge, IP!Ask
<1>9. CASE Acknowledge
  BY <1>9 DEF Acknowledge, InBridge, IP!Acknowledge
<1>10. CASE BridgeEnds
  BY <1>10 DEF BridgeEnds, InBridge, IP!GiveUp
<1>11. CASE MicrophoneLost
  BY <1>11 DEF MicrophoneLost, IP!Interrupt
<1> QED
  BY <1>1, <1>2, <1>3, <1>4, <1>5, <1>6, <1>7, <1>8, <1>9, <1>10, <1>11
  DEF VsNext, LoopStep

\* A voice session is an input that the bridge may rely on as InputPort says, up to the event
\* it ends the conversation for, however often the microphone is lost and found again.
THEOREM VoiceIsInput == VsSpec => ImplementsInput
<1>1. VsInit => TalkInv /\ IP!Init
  BY DEF VsInit, NewTalk, TalkInv, Listening, IP!Init, IP!Nothing
<1>2. VsInv /\ TalkInv /\ [VsNext]_vsVars => TalkInv' /\ [IP!Next]_(IP!portVars)
  BY InputStep DEF Port, PortEar, PortQueue, PortGate, IP!portVars
<1> QED
  BY <1>1, <1>2, VsInvariance, PTL DEF VsSpec, ImplementsInput, IP!Spec

-----------------------------------------------------------------------------
(* The boundary: what is in it.                                             *)

Places ==
    {"visual_idle", "arm", "arming", "waiting", "capturing", "stopping", "heard", "cue",
     "conversation", "speaking", "follow_arm", "timeout_cue", "accept_cue", "failed", "fatal"}

Protocols ==
    [state : {"DISARMED", "ARMING", "LISTENING", "CAPTURING", "STOPPING", "PLAYING_CUE",
              "PLAYING_AUDIO"},
     listen : Nat, mode : Modes \cup {"none"}, utterance : Nat]

Managers ==
    [pc : Places, by : {"acceptor", "collector", "bridge"}, then : Places \cup {"none"},
     asked : BOOLEAN, open : BOOLEAN]

Drivers ==
    [listen : Nat, mode : Modes \cup {"none"}, utterance : Nat, capture : BOOLEAN,
     run : BOOLEAN, runEnded : BOOLEAN, done : BOOLEAN, audioEnded : BOOLEAN,
     speech : BOOLEAN, connected : BOOLEAN, down : BOOLEAN, lost : BOOLEAN]

Commands ==
    [type : {"none"}]
    \cup [type : {"StartListening"}, listen : Nat, mode : Modes, phase : {"run", "service"}]
    \cup [type : {"StopListening"}, listen : Nat, phase : {"run"}]
    \cup [type : {"PlayCue", "Playback"}, phase : {"service"}]

CaptureEvent == [type : CaptureEvents, listen : Nat, utterance : Nat \ {0}]

Event ==
    CaptureEvent
    \cup [type : {"ListeningStarted"}, listen : Nat, mode : Modes]
    \cup [type : {"ListeningStopped"}, listen : Nat]
    \cup [type : {"CueFinished", "PlaybackFinished", "MicrophoneUnavailable"}]

Counters == [listens : Nat, utterances : Nat, streams : Nat, turns : Nat, failures : Nat]

BoundaryTypes ==
    /\ protocol \in Protocols /\ manager \in Managers /\ command \in Commands
    /\ driver \in Drivers /\ events \in Seq(Event) /\ device \in {"idle", "streaming"}
    /\ used \in Counters

Working == manager.pc \notin {"failed", "fatal"}
Alive == Working /\ ~driver.down
OpenMic == protocol.mode = "OPEN_MIC"
Listens == {"ARMING", "LISTENING", "CAPTURING"}

\* Where the manager's task is, who it is, and the state of the protocol.
PlaceInv ==
    Working =>
    /\ At("arming") => protocol.state = "ARMING" /\ ~By("collector")
    /\ At("waiting") => protocol.state = "LISTENING" /\ ~By("bridge")
    /\ At("capturing") => protocol.state = "CAPTURING" /\ ~By("bridge")
    /\ At("stopping") => protocol.state = "STOPPING"
    /\ At("cue") => protocol.state = "PLAYING_CUE"
    /\ At("speaking") => protocol.state = "PLAYING_AUDIO"
    /\ At("heard") => ~By("bridge")
    /\ At("heard") /\ manager.open /\ By("acceptor") => protocol.state = "LISTENING"
    /\ At("heard") /\ ~(manager.open /\ By("acceptor")) => protocol.state = "DISARMED"
    /\ ~Receiving /\ ~At("heard") => protocol.state = "DISARMED"
    /\ At("arm") => By("acceptor")
    /\ At("follow_arm") => By("bridge")

\* Where it goes after a stop, a cue or speech.
NextInv ==
    Working =>
    /\ At("stopping") => manager.then \in {"timeout_cue", "accept_cue", "visual_idle"}
    /\ At("cue") => \/ manager.then \in {"conversation", "visual_idle"}
                    \/ manager.then = "follow_arm" /\ By("bridge")
    /\ At("speaking") => manager.then = "conversation"

\* The generation that is armed is of the kind that its user listens for.
ModeInv ==
    Working /\ protocol.state \in Listens =>
        protocol.mode = IF By("acceptor") THEN NewMode ELSE "FOLLOW_UP"

\* What the task is bound for after a PROCESSING light.
Promised(pc) == pc \in {"conversation", "accept_cue"}
\* The light is PROCESSING in all that leads to playback, not only in playback itself.
LightInv ==
    At("speaking") \/ Promised(manager.pc)
      \/ (manager.pc \in {"cue", "stopping"} /\ Promised(manager.then))
    => visual = "PROCESSING"

-----------------------------------------------------------------------------
(* The operators.                                                           *)

\* What the protocol does with the events it admits.
LEMMA Admitted ==
    ASSUME NEW p, NEW e, EventOk(p, e)
    PROVE  \/ /\ e.type = "ListeningStarted" /\ p.state = "ARMING"
              /\ e.listen = p.listen /\ e.mode = p.mode
              /\ AfterEvent(p, e) = [p EXCEPT !.state = "LISTENING"]
           \/ /\ e.type = "SpeechStarted" /\ p.state = "LISTENING" /\ e.listen = p.listen
              /\ AfterEvent(p, e) = [p EXCEPT !.state = "CAPTURING", !.utterance = e.utterance]
           \/ e.type = "AudioChunk" /\ InSegment(p, e) /\ AfterEvent(p, e) = p
           \/ /\ e.type = "SpeechEnded" /\ InSegment(p, e) /\ p.mode = "OPEN_MIC"
              /\ AfterEvent(p, e) = [p EXCEPT !.state = "LISTENING", !.utterance = 0]
           \/ /\ e.type = "SpeechEnded" /\ InSegment(p, e) /\ p.mode # "OPEN_MIC"
              /\ AfterEvent(p, e) = Disarmed(p)
           \/ /\ \/ e.type = "ListeningStopped" /\ p.state = "STOPPING"
                 \/ e.type = "CueFinished" /\ p.state = "PLAYING_CUE"
                 \/ e.type = "PlaybackFinished" /\ p.state = "PLAYING_AUDIO"
              /\ AfterEvent(p, e) = Disarmed(p)
<1>1. CASE e.type = "ListeningStarted"
  BY <1>1 DEF EventOk, AfterEvent, Correlated
<1>2. CASE e.type = "SpeechStarted"
  BY <1>2 DEF EventOk, AfterEvent, Correlated
<1>3. CASE e.type = "AudioChunk"
  BY <1>3 DEF EventOk, AfterEvent
<1>4. CASE e.type = "SpeechEnded"
  BY <1>4 DEF EventOk, AfterEvent
<1>5. CASE e.type \in {"ListeningStopped", "CueFinished", "PlaybackFinished"}
  BY <1>5 DEF EventOk, AfterEvent
<1> QED
  BY <1>1, <1>2, <1>3, <1>4, <1>5 DEF EventOk

\* A step that leaves the manager with nothing to do but to recreate the boundary.
Breaks ==
    /\ manager' \in Managers /\ ~Working' /\ command' = NoCommand
    /\ protocol' \in Protocols /\ driver' \in Drivers /\ UNCHANGED events

\* The head of a queue of events is an event.
LEMMA HeadTypes ==
    ASSUME events \in Seq(Event), events # << >>
    PROVE  /\ Head(events) \in Event /\ Tail(events) \in Seq(Event)
           /\ Head(events).type \in CaptureEvents => Head(events) \in CaptureEvent
<1>1. Head(events) \in Event /\ Tail(events) \in Seq(Event)
  OBVIOUS
<1> QED
  BY <1>1 DEF Event, CaptureEvent, CaptureEvents

\* A failure, and a violation, leave the manager's task nothing but to recover.
LEMMA Failing ==
    ASSUME manager \in Managers, Failed
    PROVE  manager' \in Managers /\ ~Working' /\ command' = NoCommand
BY DEF Failed, Goto, Managers, Places, Working

LEMMA Violating ==
    ASSUME manager \in Managers, NEW kind, Violated(kind)
    PROVE  manager' \in Managers /\ ~Working' /\ command' = NoCommand /\ violation' = kind
BY DEF Violated, Goto, Managers, Places, Working

\* A command of listening waits for the run, fails, or is carried out at once.
LEMMA Entering ==
    ASSUME NEW c, c.type \notin {"PlayCue", "Playback"}, NEW next, Enter(c, next)
    PROVE  \/ /\ Entered(c).run /\ command' = [c EXCEPT !.phase = "run"] /\ manager' = next
              /\ driver' = Entered(c) /\ events' = Retained(c)
           \/ Failed /\ driver' = Disconnected(Entered(c)) /\ UNCHANGED events
           \/ ~Entered(c).run /\ AfterRun(c, Entered(c), Retained(c)) /\ manager' = next
BY DEF Enter

\* What comes of a command: it is under way, or the boundary breaks, and then a violation is
\* recorded only where the protocol or the driver was in the wrong state for it.
LEMMA SendingOutput ==
    ASSUME BoundaryTypes, NEW t \in {"PlayCue", "Playback"}, NEW next,
           Send([type |-> t, phase |-> "none"], next)
    PROVE  \/ /\ protocol.state = "DISARMED" /\ ~driver.down
              /\ protocol' = [protocol EXCEPT !.state =
                                IF t = "PlayCue" THEN "PLAYING_CUE" ELSE "PLAYING_AUDIO"]
              /\ command' = [type |-> t, phase |-> "service"]
              /\ manager' = next /\ UNCHANGED <<driver, events, violation>>
           \/ /\ Breaks
              /\ \/ violation' = violation
                 \/ protocol.state # "DISARMED"
                 \/ ~driver.down /\ t = "Playback" /\ driver.listen # 0
<1> DEFINE c == [type |-> t, phase |-> "none"]
<1> USE DEF BoundaryTypes, Protocols, Managers, Working, Places, Failed, Goto,
        Modes
<1>1. CASE ~CommandOk(protocol, c)
  BY <1>1 DEF Send, Violated, Breaks, CommandOk
<1>2. CASE CommandOk(protocol, c) /\ driver.down
  BY <1>2 DEF Send, Breaks, CommandOk, AfterCommand
<1>3. CASE CommandOk(protocol, c) /\ ~driver.down /\ ~DriverTakes(c)
  BY <1>3 DEF Send, Breaks, CommandOk, AfterCommand, Violated, DriverTakes
<1>4. CASE CommandOk(protocol, c) /\ ~driver.down /\ DriverTakes(c)
  <2>1. Enter(c, next) /\ UNCHANGED violation /\ protocol' = AfterCommand(protocol, c)
    BY <1>4 DEF Send
  <2>2. /\ command' = [c EXCEPT !.phase = "service"] /\ manager' = next
        /\ UNCHANGED <<driver, events>>
    <3>1. c.type \in {"PlayCue", "Playback"}
      OBVIOUS
    <3> QED
      BY <2>1, <3>1 DEF Enter
  <2>3. protocol.state = "DISARMED"
    BY <1>4 DEF CommandOk
  <2>4. protocol' = [protocol EXCEPT !.state =
                       IF t = "PlayCue" THEN "PLAYING_CUE" ELSE "PLAYING_AUDIO"]
    BY <2>1 DEF AfterCommand
  <2> QED
  BY <1>4, <2>1, <2>2, <2>3, <2>4
<1> QED
  BY <1>1, <1>2, <1>3, <1>4

LEMMA SendingStart ==
    ASSUME BoundaryTypes, NEW l \in Nat, NEW m \in Modes, NEW next,
           Send([type |-> "StartListening", listen |-> l, mode |-> m, phase |-> "none"], next)
    PROVE  \/ /\ protocol.state = "DISARMED" /\ ~driver.down /\ driver.listen = 0
              /\ protocol' = [protocol EXCEPT !.state = "ARMING", !.listen = l, !.mode = m]
              /\ LET c == [type |-> "StartListening", listen |-> l, mode |-> m, phase |-> "none"]
                     d == [driver EXCEPT !.listen = l, !.mode = m, !.capture = TRUE]
                 IN IF driver.run
                    THEN driver' = d /\ UNCHANGED events /\ command' = [c EXCEPT !.phase = "run"]
                    ELSE AfterRun(c, d, events)
              /\ manager' = next /\ UNCHANGED violation
           \/ /\ Breaks
              /\ \/ violation' = violation
                 \/ protocol.state # "DISARMED" \/ (~driver.down /\ driver.listen # 0)
<1> DEFINE c == [type |-> "StartListening", listen |-> l, mode |-> m, phase |-> "none"]
<1> DEFINE d == [driver EXCEPT !.listen = l, !.mode = m, !.capture = TRUE]
<1> USE DEF BoundaryTypes, Protocols, Managers, Working, Places, Failed, Goto,
        Modes
<1>1. CASE ~CommandOk(protocol, c)
  BY <1>1 DEF Send, Violated, Breaks, CommandOk
<1>0. AfterCommand(protocol, c) \in Protocols
  BY DEF AfterCommand
<1>2. CASE CommandOk(protocol, c) /\ driver.down
  BY <1>0, <1>2, Failing DEF Send, Breaks
<1>3. CASE CommandOk(protocol, c) /\ ~driver.down /\ ~DriverTakes(c)
  BY <1>0, <1>3, Violating DEF Send, Breaks, DriverTakes
<1>4. CASE CommandOk(protocol, c) /\ ~driver.down /\ DriverTakes(c)
  <2>1. Enter(c, next) /\ UNCHANGED violation /\ protocol' = AfterCommand(protocol, c)
    BY <1>4 DEF Send
  <2>2. protocol.state = "DISARMED" /\ driver.listen = 0
    BY <1>4 DEF CommandOk, DriverTakes
  <2>3. protocol' = [protocol EXCEPT !.state = "ARMING", !.listen = l, !.mode = m]
    BY <2>1 DEF AfterCommand
  <2>4. Entered(c) = d /\ Retained(c) = events
    BY DEF Entered, Retained
  <2>5. d \in Drivers /\ Disconnected(d) \in Drivers
    BY DEF Drivers, Disconnected
  <2>6. CASE d.run /\ command' = [c EXCEPT !.phase = "run"] /\ manager' = next
              /\ driver' = d /\ events' = events
    BY <1>4, <2>1, <2>2, <2>3, <2>6 DEF Drivers
  <2>7. CASE Failed /\ driver' = Disconnected(d) /\ UNCHANGED events
    BY <1>4, <2>1, <1>0, <2>5, <2>7, Failing DEF Breaks
  <2>8. CASE ~d.run /\ AfterRun(c, d, events) /\ manager' = next
    BY <1>4, <2>1, <2>2, <2>3, <2>8 DEF Drivers
  <2>9. c.type \notin {"PlayCue", "Playback"}
    OBVIOUS
  <2> HIDE DEF c, d
  <2> QED
    BY <2>1, <2>4, <2>6, <2>7, <2>8, <2>9, Entering
<1> QED
  BY <1>1, <1>2, <1>3, <1>4

LEMMA EnteringStop ==
    ASSUME BoundaryTypes, protocol' \in Protocols, NEW l \in Nat, NEW next,
           Enter([type |-> "StopListening", listen |-> l, phase |-> "none"], next)
    PROVE  \/ /\ LET c == [type |-> "StopListening", listen |-> l, phase |-> "none"]
                     d == [driver EXCEPT !.capture = FALSE]
                 IN IF driver.run
                    THEN /\ driver' = d /\ events' = Retained(c)
                         /\ command' = [c EXCEPT !.phase = "run"]
                    ELSE AfterRun(c, d, Retained(c))
              /\ manager' = next
           \/ Breaks
<1> DEFINE c == [type |-> "StopListening", listen |-> l, phase |-> "none"]
<1> DEFINE d == [driver EXCEPT !.capture = FALSE]
<1> USE DEF BoundaryTypes, Managers, Working, Places, Failed, Goto, Modes
<1>4. Entered(c) = d
  BY DEF Entered
<1>5. d \in Drivers /\ Disconnected(d) \in Drivers
  BY DEF Drivers, Disconnected
<1>6. CASE d.run /\ command' = [c EXCEPT !.phase = "run"] /\ manager' = next
            /\ driver' = d /\ events' = Retained(c)
  BY <1>6 DEF Drivers
<1>7. CASE Failed /\ driver' = Disconnected(d) /\ UNCHANGED events
  BY <1>5, <1>7, Failing DEF Breaks
<1>8. CASE ~d.run /\ AfterRun(c, d, Retained(c)) /\ manager' = next
  BY <1>8 DEF Drivers
<1>9. Enter(c, next) /\ c.type \notin {"PlayCue", "Playback"}
  OBVIOUS
<1> HIDE DEF c, d
<1> QED
  BY <1>4, <1>6, <1>7, <1>8, <1>9, Entering

LEMMA SendingStop ==
    ASSUME BoundaryTypes, NEW next, Send(StopOf(protocol), next)
    PROVE  \/ /\ protocol.state \in Listens /\ ~driver.down
              /\ protocol' = [protocol EXCEPT !.state = "STOPPING"]
              /\ Enter(StopOf(protocol), next) /\ UNCHANGED violation
           \/ /\ Breaks
              /\ \/ violation' \in {violation, "StopListening"}
                 \/ protocol.state \notin Listens
<1> DEFINE c == StopOf(protocol)
<1> USE DEF BoundaryTypes, Protocols, Managers, Working, Places, Failed, Goto,
        Modes, Listens
<1>1. CASE ~CommandOk(protocol, c)
  BY <1>1 DEF Send, Violated, Breaks, CommandOk, StopOf
<1>2. CASE CommandOk(protocol, c) /\ driver.down
  BY <1>2 DEF Send, Breaks, CommandOk, AfterCommand, StopOf
<1>3. CASE CommandOk(protocol, c) /\ ~driver.down /\ ~DriverTakes(c)
  BY <1>3
  DEF Send, Breaks, CommandOk, AfterCommand, Violated, DriverTakes, StopOf
<1>4. CASE CommandOk(protocol, c) /\ ~driver.down /\ DriverTakes(c)
  BY <1>4 DEF Send, CommandOk, AfterCommand, StopOf
<1> QED
  BY <1>1, <1>2, <1>3, <1>4

\* What the manager's task and the protocol do when an event is received.
Takes ==
    \/ /\ At("arming") /\ protocol.state = "ARMING" /\ UNCHANGED visual
       /\ protocol' = [protocol EXCEPT !.state = "LISTENING"]
       /\ manager' = [manager EXCEPT !.pc = "waiting",
                                     !.by = IF By("bridge") THEN "collector" ELSE @]
    \/ /\ At("waiting") /\ protocol.state = "LISTENING" /\ Head(events).type = "SpeechStarted"
       /\ protocol' = [protocol EXCEPT !.state = "CAPTURING", !.utterance = Head(events).utterance]
       /\ manager' = Next("capturing")
    \/ /\ At("capturing") /\ protocol.state = "CAPTURING"
       /\ UNCHANGED <<protocol, manager, visual>>
    \/ /\ At("capturing") /\ protocol.state = "CAPTURING" /\ UNCHANGED visual
       /\ protocol' = IF OpenMic
                      THEN [protocol EXCEPT !.state = "LISTENING", !.utterance = 0]
                      ELSE Disarmed(protocol)
       /\ manager' = Next("heard")
    \/ /\ manager.pc \in {"stopping", "cue", "speaking"} /\ UNCHANGED visual
       /\ protocol' = Disarmed(protocol)
       /\ manager' = [manager EXCEPT !.pc = manager.then, !.then = "none"]
    \/ /\ manager \in Managers => manager' \in Managers /\ ~Working'
       /\ UNCHANGED <<protocol, visual>>

LEMMA Taking == PlaceInv /\ Receive => Takes
<1> SUFFICES ASSUME PlaceInv, Receive PROVE Takes
  OBVIOUS
<1>1. CASE ~EventOk(protocol, Head(events))
  BY <1>1 DEF Receive, Violated, Takes, Managers, Places, Working, Goto
<1>2. CASE EventOk(protocol, Head(events))
  <2>1. /\ manager' = Received(Head(events)) /\ protocol' = AfterEvent(protocol, Head(events))
        /\ Receiving
    BY <1>2 DEF Receive
  <2>2. Working
    BY <2>1 DEF Receiving, Working
  <2>3. Head(events).type # "SpeechStarted" => UNCHANGED visual
    BY <1>2 DEF Receive
  <2> QED
    BY <1>2, <2>1, <2>2, <2>3, Admitted, ZenonT(60)
    DEF Received, PlaceInv, Takes, Receiving, At, InSegment, OpenMic
<1> QED
  BY <1>1, <1>2

\* The task's place, its protocol and its light, together.
TaskInv == PlaceInv /\ NextInv /\ ModeInv /\ LightInv

\* Every step keeps the task in step with its protocol.
LEMMA PlaceStep ==
    ASSUME BoundaryTypes, TaskInv, [BoundaryNext]_vars
    PROVE  TaskInv'
<1>t. protocol \in Protocols /\ manager \in Managers
  BY DEF BoundaryTypes
<1> USE DEF TaskInv, PlaceInv, NextInv, ModeInv, LightInv, Promised, Working,
        At, By, Goto, Next, NextThen, Listens, NewMode, Receiving, Shows
<1>0. ASSUME manager' \in Managers, ~Working'
      PROVE  TaskInv'
  BY <1>0
<1>1. CASE UNCHANGED <<protocol, manager, visual>>
  BY <1>1, <1>t
<1>2. CASE RunFinishes
  BY <1>1, <1>0, <1>2, <1>t, Failing DEF RunFinishes
<1>3. CASE CommandFails \/ BecomesIdleFails \/ ReceiveFails \/ ReceiveTimesOut
  BY <1>0, <1>3, <1>t, Failing
  DEF CommandFails, BecomesIdleFails, ReceiveFails, ReceiveTimesOut
<1>4. CASE BecomesIdle
  BY <1>4, <1>t DEF BecomesIdle, Managers, Protocols
<1>5. CASE Receive
  <2>1. Takes /\ Receiving
    BY <1>5, Taking DEF Receive
  <2> USE DEF Managers, Protocols
  <2>2. CASE At("arming")
    BY <1>t, <2>1, <2>2, <1>0, ZenonT(60) DEF Takes
  <2>3. CASE At("waiting")
    BY <1>t, <2>1, <2>3, <1>0 DEF Takes
  <2>4. CASE At("capturing")
    BY <1>t, <2>1, <2>4, <1>0 DEF Takes, Disarmed, OpenMic
  <2>5. CASE At("stopping") \/ At("cue") \/ At("speaking")
    BY <1>t, <2>1, <2>5, <1>0 DEF Takes, Disarmed
  <2> QED
    BY <2>1, <2>2, <2>3, <2>4, <2>5
<1>6. CASE Arm
  <2> DEFINE m == IF At("arm") THEN NewMode ELSE "FOLLOW_UP"
  <2>1. Send([type |-> "StartListening", listen |-> used.listens + 1, mode |-> m,
              phase |-> "none"],
             [manager EXCEPT !.pc = "arming"])
    BY <1>6 DEF Arm, StartListening
  <2>2. m \in Modes /\ used.listens + 1 \in Nat
    BY DEF Modes, BoundaryTypes, Counters
  <2>3. CASE Breaks
    BY <2>3, <1>0 DEF Breaks
  <2>4. CASE /\ manager' = [manager EXCEPT !.pc = "arming"]
             /\ protocol' = [protocol EXCEPT !.state = "ARMING", !.listen = used.listens + 1,
                                            !.mode = m]
    BY <1>6, <1>t, <2>4 DEF Arm, Managers, Protocols
  <2> HIDE DEF m
  <2> QED
    BY <2>1, <2>2, <2>3, <2>4, SendingStart
<1>7. CASE Heard \/ AcceptCue \/ TimeoutCue \/ Speak \/ PlayFollowUpCue
  <2>1. CASE Heard
    BY <1>0, <2>1, <1>t, SendingOutput, ZenonT(60)
    DEF Heard, PlayCue, Breaks, Managers, Protocols
  <2>2. CASE AcceptCue
    BY <1>0, <2>2, <1>t, SendingOutput, ZenonT(60)
    DEF AcceptCue, PlayCue, Breaks, Managers, Protocols
  <2>3. CASE TimeoutCue
    BY <1>0, <2>3, <1>t, SendingOutput, ZenonT(60)
    DEF TimeoutCue, PlayCue, Breaks, Managers, Protocols
  <2>4. CASE Speak
    BY <1>0, <2>4, <1>t, SendingOutput, ZenonT(60)
    DEF Speak, PlayCue, Breaks, Managers, Protocols
  <2>5. CASE PlayFollowUpCue
    <3>1. \/ Breaks
          \/ /\ protocol.state = "DISARMED"
             /\ protocol' = [protocol EXCEPT !.state = "PLAYING_CUE"]
             /\ manager' = [manager EXCEPT !.pc = "cue", !.by = "bridge", !.then = "follow_arm",
                                           !.asked = TRUE]
      BY <2>5, SendingOutput DEF PlayFollowUpCue, PlayCue
    <3>2. CASE Breaks
      BY <3>2, <1>0 DEF Breaks
    <3>3. CASE ~Breaks
      <4>1. /\ manager'.pc = "cue" /\ manager'.by = "bridge" /\ manager'.then = "follow_arm"
            /\ protocol'.state = "PLAYING_CUE"
        BY <3>1, <3>3, <1>t DEF Managers, Protocols
      <4> QED
        BY <4>1
    <3> QED
      BY <3>2, <3>3
  <2> QED
    BY <1>7, <2>1, <2>2, <2>3, <2>4, <2>5
<1>8. ASSUME NEW t \in {"timeout_cue", "accept_cue", "visual_idle"},
             Promised(t) => visual' = "PROCESSING",
             protocol' \in Protocols, protocol'.state = "STOPPING",
             Enter(StopOf(protocol), NextThen("stopping", t))
      PROVE  TaskInv'
  BY <1>0, <1>8, <1>t, EnteringStop, ZenonT(60) DEF StopOf, Breaks, Managers, Protocols
<1>9. CASE OpenMicAccepted \/ CollectorCancelled
  BY <1>0, <1>8, <1>9, <1>t, SendingStop
  DEF OpenMicAccepted, CollectorCancelled, Managers, Protocols, Breaks
<1>10. CASE DeadlinePasses
  <2> DEFINE p == AfterEvent(protocol, Head(events))
  <2>1. CASE Send(StopOf(protocol), NextThen("stopping", "timeout_cue"))
    BY <1>0, <1>8, <2>1, <1>t, SendingStop DEF Managers, Protocols, Breaks
  <2>2. CASE /\ events # << >> /\ EventOk(protocol, Head(events))
             /\ protocol' = AfterCommand(p, StopOf(p))
             /\ \/ Enter(StopOf(p), NextThen("stopping", "timeout_cue"))
                \/ Violated("StopListening")
    <3>1. p = [protocol EXCEPT !.state = "CAPTURING", !.utterance = Head(events).utterance]
      BY <1>10, <2>2, Admitted DEF DeadlinePasses, InSegment
    <3>2. StopOf(p) = StopOf(protocol) /\ p \in Protocols
      <4>1. Head(events).type = "SpeechStarted"
        BY <1>10, <2>2, Admitted DEF DeadlinePasses, InSegment
      <4>2. Head(events).utterance \in Nat
        BY <4>1, <2>2, HeadTypes DEF BoundaryTypes, CaptureEvent, CaptureEvents
      <4> QED
        BY <3>1, <4>2, <1>t DEF StopOf, Protocols
    <3>3. protocol' = [p EXCEPT !.state = "STOPPING"]
      BY <2>2 DEF AfterCommand, StopOf
    <3>4. protocol' \in Protocols /\ protocol'.state = "STOPPING"
      BY <3>3, <3>2 DEF Protocols
    <3> QED
      BY <2>2, <3>2, <3>4, <1>8, <1>0, <1>t, Violating
  <2> QED
    BY <1>10, <2>1, <2>2 DEF DeadlinePasses
<1>11. CASE OpenMicRejected \/ FollowUpHeard \/ ConversationEnds
  BY <1>0, <1>11, <1>t, Violating, ZenonT(60)
  DEF OpenMicRejected, FollowUpHeard, ConversationEnds, CommandOk, Managers
<1>12. CASE Recover
  BY <1>12, <1>t DEF Recover, Fresh, NewProtocol
<1>13. CASE UNCHANGED vars \/ DeviceStep \/ TransportStops \/ ServiceReturns
  BY <1>1, <1>13
  DEF vars, DeviceStep, TransportStops, ServiceReturns, DeviceStarts,
      LoudAudio, QuietAudio, DeviceStops
<1> QED
  BY <1>1, <1>2, <1>3, <1>4, <1>5, <1>6, <1>7, <1>9, <1>10, <1>11, <1>12, <1>13
  DEF BoundaryNext, DriverStep, ManagerStep, BridgeStep, DeviceStep

-----------------------------------------------------------------------------
(* The desk: the command under way, the driver, and what is queued.         *)

IdleDriver ==
    driver.listen = 0 /\ driver.mode = "none" /\ driver.utterance = 0 /\ ~driver.capture

Arming(phase) ==
    command = [type |-> "StartListening", listen |-> protocol.listen, mode |-> protocol.mode,
               phase |-> phase]

\* Disarmed, nothing is under way and nothing is queued.
QuietInv ==
    Alive /\ protocol.state = "DISARMED" =>
        command = NoCommand /\ events = << >> /\ IdleDriver /\ protocol.utterance = 0

\* A stop has dropped the audio; nothing but its answer follows.
StoppingInv ==
    Alive /\ protocol.state = "STOPPING" =>
    /\ ~driver.capture
    /\ \/ /\ command = [type |-> "StopListening", listen |-> protocol.listen, phase |-> "run"]
          /\ events = << >>
       \/ /\ command = NoCommand /\ IdleDriver
          /\ events = <<[type |-> "ListeningStopped", listen |-> protocol.listen]>>

Plays(state, type, done) ==
    protocol.state = state =>
    /\ IdleDriver
    /\ \/ command = [type |-> type, phase |-> "service"] /\ events = << >>
       \/ command = NoCommand /\ events = <<[type |-> done]>>

PlayingInv ==
    Alive => /\ Plays("PLAYING_CUE", "PlayCue", "CueFinished")
             /\ Plays("PLAYING_AUDIO", "Playback", "PlaybackFinished")

Opens == events # << >> /\ Head(events).type = "SpeechStarted"

\* While it arms, a run that is being finished may queue anything; after it nothing comes
\* before the answer but early speech.
ArmingInv ==
    Alive /\ protocol.state = "ARMING" =>
    /\ protocol.utterance = 0
    /\ \/ Arming("run")
       \/ (command = NoCommand \/ Arming("service")) /\ Opens
       \/ (command = NoCommand \/ Arming("service")) /\ driver.utterance = 0 /\ events = << >>
       \/ /\ command = NoCommand /\ driver.utterance = 0
          /\ events = <<[type |-> "ListeningStarted", listen |-> protocol.listen,
                          mode |-> protocol.mode]>>

\* The segment that is open after an event, and what may come next.  A phrase is what the
\* callbacks queue for one generation: segment after segment, each from its beginning.
SegmentAfter(e) == IF e.type = "SpeechEnded" THEN 0 ELSE e.utterance
Follows(u, e) == IF e.type = "SpeechStarted" THEN u = 0 ELSE e.utterance = u

Phrase(q, l) ==
    /\ q \in Seq(CaptureEvent)
    /\ \A i \in 1..Len(q) : q[i].listen = l
    /\ \A i \in 1..Len(q) : i > 1 => Follows(SegmentAfter(q[i-1]), q[i])

\* Outside open mic nothing follows the end of the segment.
EndsLast(q) == \A i \in 1..Len(q) : q[i].type = "SpeechEnded" => i = Len(q)

\* The next event is one the protocol can take, or the beginning of a segment that the
\* protocol does not expect because it has lost the end of the one before.
HeadFits(e) ==
    IF e.type = "SpeechStarted"
    THEN protocol.state = "CAPTURING" => OpenMic
    ELSE protocol.state = "CAPTURING" /\ e.utterance = protocol.utterance

InPhrase == protocol.state \in {"LISTENING", "CAPTURING"}

\* While it listens, the queue continues what the protocol has seen and ends where the
\* driver is.
HearingInv ==
    Alive /\ InPhrase =>
    /\ command = NoCommand /\ Phrase(events, protocol.listen)
    /\ protocol.state = "CAPTURING" <=> protocol.utterance # 0
    /\ ~OpenMic => EndsLast(events)
    /\ events # << >> => /\ HeadFits(Head(events))
                         /\ driver.utterance = SegmentAfter(events[Len(events)])
    /\ events = << >> => driver.utterance \in {0, protocol.utterance}

Armed == driver.capture /\ driver.listen = protocol.listen /\ driver.mode = protocol.mode

\* The driver captures for the generation of the protocol until it has ended the segment.
ArmedInv ==
    Working /\ protocol.state \in Listens =>
    \/ Armed /\ (~OpenMic => ~LosesEnd(events))
    \/ ~OpenMic /\ IdleDriver /\ (LosesEnd(events) \/ (driver.lost /\ ~Arming("run")))

\* A segment whose beginning the manager has taken is open in the driver, unless it has
\* ended there.
OpenInv ==
    Alive /\ protocol.state = "CAPTURING" /\ ~OpenMic /\ driver.capture => driver.utterance # 0

\* A run has not stopped, a stream that has ended has no segment, and no stream runs behind
\* a start that waits for a run that has stopped.
RunInv ==
    Alive =>
    /\ driver.run => ~driver.done
    /\ driver.audioEnded => driver.utterance = 0
    /\ device = "idle" /\ driver.capture => driver.utterance = 0
    /\ command # NoCommand /\ command.type = "StartListening" /\ command.phase = "run" /\ driver.done
         => driver.utterance = 0 /\ (device = "idle" \/ ~driver.capture)

DeskInv ==
    /\ QuietInv /\ StoppingInv /\ PlayingInv /\ ArmingInv /\ HearingInv
    /\ ArmedInv /\ OpenInv /\ RunInv

\* A failure leaves no command behind.
FailedInv == ~Working => command = NoCommand

\* The inductive invariant.
BoundaryInv ==
    /\ BoundaryTypes /\ TaskInv /\ DeskInv /\ FailedInv
    /\ violation \in {"none", "SpeechStarted", "StopListening"}

-----------------------------------------------------------------------------
(* Queues.                                                                  *)

\* A phrase without its first event is a phrase, and goes on where that event left it.
LEMMA PhraseTail ==
    ASSUME NEW q, NEW l, Phrase(q, l), q # << >>
    PROVE  /\ Head(q) \in CaptureEvent /\ Head(q).listen = l /\ Phrase(Tail(q), l)
           /\ Tail(q) # << >> => /\ Follows(SegmentAfter(Head(q)), Head(Tail(q)))
                                 /\ Tail(q)[Len(Tail(q))] = q[Len(q)]
           /\ Tail(q) = << >> => Head(q) = q[Len(q)]
<1>1. q \in Seq(CaptureEvent) /\ Len(q) \in Nat /\ Len(q) > 0
  BY DEF Phrase
<1>2. /\ Tail(q) \in Seq(CaptureEvent) /\ Len(Tail(q)) = Len(q) - 1
      /\ \A i \in 1..Len(Tail(q)) : Tail(q)[i] = q[i + 1]
      /\ Head(q) = q[1]
  BY <1>1
<1>3. \A i \in 1..Len(Tail(q)) : Tail(q)[i].listen = l
  BY <1>1, <1>2 DEF Phrase
<1>4. ASSUME NEW i \in 1..Len(Tail(q)), i > 1
      PROVE  Follows(SegmentAfter(Tail(q)[i-1]), Tail(q)[i])
  <2>1. /\ i - 1 \in 1..Len(Tail(q)) /\ i + 1 \in 1..Len(q) /\ i + 1 > 1
        /\ (i - 1) + 1 = i /\ (i + 1) - 1 = i
    BY <1>1, <1>2, <1>4
  <2>2. Tail(q)[i] = q[i + 1] /\ Tail(q)[i - 1] = q[i]
    BY <1>2, <1>4, <2>1
  <2>3. Follows(SegmentAfter(q[(i + 1) - 1]), q[i + 1])
    BY <2>1 DEF Phrase
  <2> QED
    BY <2>1, <2>2, <2>3
<1>5. Phrase(Tail(q), l)
  BY <1>2, <1>3, <1>4 DEF Phrase
<1>6. Head(q) \in CaptureEvent /\ Head(q).listen = l
  BY <1>1, <1>2 DEF Phrase
<1>7. ASSUME Tail(q) # << >>
      PROVE  /\ Follows(SegmentAfter(Head(q)), Head(Tail(q)))
             /\ Tail(q)[Len(Tail(q))] = q[Len(q)]
  <2>1. Len(q) > 1 /\ Head(Tail(q)) = q[2]
    BY <1>1, <1>2, <1>7
  <2>2. Follows(SegmentAfter(q[2 - 1]), q[2])
    BY <1>1, <2>1 DEF Phrase
  <2> QED
    BY <1>1, <1>2, <2>1, <2>2
<1>8. Tail(q) = << >> => Head(q) = q[Len(q)]
  <2>1. ASSUME Tail(q) = << >>
        PROVE  Len(q) = 1
    BY <1>1, <1>2, <2>1
  <2> QED
    BY <2>1, <1>2
<1> QED
  BY <1>5, <1>6, <1>7, <1>8

\* A phrase goes on with an event that may follow.
LEMMA PhrasePut ==
    ASSUME NEW q, NEW l, Phrase(q, l), NEW e \in CaptureEvent, e.listen = l,
           q # << >> => Follows(SegmentAfter(q[Len(q)]), e)
    PROVE  /\ Phrase(Append(q, e), l) /\ Append(q, e) # << >>
           /\ Append(q, e)[Len(Append(q, e))] = e
           /\ q # << >> => Head(Append(q, e)) = Head(q)
           /\ q = << >> => Head(Append(q, e)) = e
<1>1. q \in Seq(CaptureEvent) /\ Len(q) \in Nat
  BY DEF Phrase
<1>2. /\ Append(q, e) \in Seq(CaptureEvent) /\ Len(Append(q, e)) = Len(q) + 1
      /\ \A i \in 1..Len(q) : Append(q, e)[i] = q[i]
      /\ Append(q, e)[Len(q) + 1] = e
  BY <1>1
<1> QED
  BY <1>1, <1>2 DEF Phrase

\* The end of a segment in a queue that grows, and in one that is consumed.
LEMMA LosesEndPut ==
    ASSUME NEW S, NEW q \in Seq(S), NEW e \in S
    PROVE  /\ LosesEnd(Append(q, e)) <=> LosesEnd(q) \/ e.type = "SpeechEnded"
           /\ ~LosesEnd(q) => EndsLast(Append(q, e))
<1>1. /\ Append(q, e) \in Seq(S) /\ Len(Append(q, e)) = Len(q) + 1 /\ Len(q) \in Nat
      /\ \A i \in 1..Len(q) : Append(q, e)[i] = q[i]
      /\ Append(q, e)[Len(q) + 1] = e /\ DOMAIN q = 1..Len(q)
      /\ DOMAIN Append(q, e) = 1..(Len(q) + 1)
  OBVIOUS
<1> QED
  BY <1>1 DEF LosesEnd, EndsLast

LEMMA NothingQueued ==
    ASSUME NEW S, NEW q \in Seq(S), Len(q) = 0
    PROVE  q = << >>
OBVIOUS

LEMMA LosesEndTail ==
    ASSUME NEW S, NEW q \in Seq(S), q # << >>
    PROVE  /\ ~LosesEnd(q) => ~LosesEnd(Tail(q))
           /\ LosesEnd(q) /\ Head(q).type # "SpeechEnded" => LosesEnd(Tail(q))
           /\ EndsLast(q) => EndsLast(Tail(q))
           /\ EndsLast(q) /\ Head(q).type = "SpeechEnded" => Tail(q) = << >> /\ LosesEnd(q)
<1>1. /\ Tail(q) \in Seq(S) /\ Len(Tail(q)) = Len(q) - 1 /\ Len(q) \in Nat /\ Len(q) > 0
      /\ \A i \in 1..Len(Tail(q)) : Tail(q)[i] = q[i + 1]
      /\ Head(q) = q[1] /\ DOMAIN q = 1..Len(q) /\ DOMAIN Tail(q) = 1..(Len(q) - 1)
  OBVIOUS
<1>2. ~LosesEnd(q) => ~LosesEnd(Tail(q))
  BY <1>1 DEF LosesEnd
<1>3. ASSUME LosesEnd(q), Head(q).type # "SpeechEnded"
      PROVE  LosesEnd(Tail(q))
  <2>1. PICK i \in 1..Len(q) : q[i].type = "SpeechEnded"
    BY <1>1, <1>3 DEF LosesEnd
  <2>2. i - 1 \in 1..Len(Tail(q)) /\ Tail(q)[i - 1] = q[(i - 1) + 1] /\ (i - 1) + 1 = i
    BY <1>1, <1>3, <2>1
  <2> QED
    BY <1>1, <2>1, <2>2 DEF LosesEnd
<1>4. ASSUME EndsLast(q)
      PROVE  EndsLast(Tail(q))
  <2> SUFFICES ASSUME NEW i \in 1..Len(Tail(q)), Tail(q)[i].type = "SpeechEnded"
               PROVE  i = Len(Tail(q))
    BY DEF EndsLast
  <2>1. i + 1 \in 1..Len(q) /\ q[i + 1].type = "SpeechEnded"
    BY <1>1
  <2>2. i + 1 = Len(q)
    BY <1>4, <2>1 DEF EndsLast
  <2>3. Len(Tail(q)) = Len(q) - 1 /\ Len(q) \in Nat
    BY <1>1
  <2> QED
    BY <2>2, <2>3
<1>5. ASSUME EndsLast(q), Head(q).type = "SpeechEnded"
      PROVE  Tail(q) = << >> /\ LosesEnd(q)
  <2>1. 1 \in 1..Len(q)
    BY <1>1
  <2>2. Len(q) = 1
    BY <1>1, <1>5, <2>1 DEF EndsLast
  <2>3. Len(Tail(q)) = 0
    BY <1>1, <2>2
  <2>4. Tail(q) = << >>
    <3>1. Tail(q) \in Seq(S)
      BY <1>1
    <3> QED
      BY <2>3, <3>1, NothingQueued
  <2>5. LosesEnd(q)
    BY <1>1, <1>5, <2>1 DEF LosesEnd
  <2> QED
    BY <2>4, <2>5
<1> QED
  BY <1>2, <1>3, <1>4, <1>5

LEMMA EmptyPhrase ==
    ASSUME NEW l
    PROVE  Phrase(<< >>, l) /\ ~LosesEnd(<< >>) /\ EndsLast(<< >>)
BY DEF Phrase, LosesEnd, EndsLast

\* A stop while the microphone listens drops all that is queued.
LEMMA StopDrops ==
    ASSUME NEW c, c.type = "StopListening", Phrase(events, c.listen)
    PROVE  Retained(c) = << >>
<1>1. Kept(c) = {}
  <2>1. DOMAIN events = 1..Len(events)
    BY DEF Phrase
  <2>2. \A i \in DOMAIN events : events[i].type \in CaptureEvents /\ events[i].listen = c.listen
    <3> SUFFICES ASSUME NEW i \in 1..Len(events)
                 PROVE  events[i].type \in CaptureEvents /\ events[i].listen = c.listen
      BY <2>1
    <3>1. events[i] \in CaptureEvent /\ events[i].listen = c.listen
      BY DEF Phrase
    <3> QED
      BY <3>1 DEF CaptureEvent
  <2> QED
    BY <2>2 DEF Kept
<1>2. Cardinality(Kept(c)) = 0
  BY <1>1, FS_EmptySet
<1> QED
  BY <1>2 DEF Retained

-----------------------------------------------------------------------------
(* What a callback of the device does.                                      *)

\* The fields of the driver that a queue depends on.
SameSegment(d) ==
    /\ d.listen = driver.listen /\ d.mode = driver.mode /\ d.utterance = driver.utterance
    /\ d.capture = driver.capture /\ d.down = driver.down /\ d.lost = driver.lost

Restarted ==
    /\ driver.capture /\ device = "idle" /\ device' = "streaming"
    /\ events' = << >> /\ SameSegment(driver')
    /\ driver'.run /\ ~driver'.done /\ ~driver'.audioEnded

Continued ==
    /\ driver.capture /\ driver.utterance # 0 /\ UNCHANGED <<driver, device>>
    /\ events' = Append(events, Chunk(driver.utterance))

Began(u) ==
    /\ driver.capture /\ driver.utterance = 0 /\ ~driver.audioEnded
    /\ driver' = [driver EXCEPT !.speech = TRUE, !.utterance = u]
    /\ events' = Append(Append(events, [type |-> "SpeechStarted", listen |-> driver.listen,
                                        utterance |-> u]), Chunk(u))
    /\ device = "streaming" /\ UNCHANGED device

Ended ==
    /\ driver.capture /\ driver.utterance # 0
    /\ events' = Append(events, SpeechEnd(driver))
    /\ driver'.utterance = 0 /\ driver'.down = driver.down /\ driver'.lost = driver.lost
    /\ driver'.run => ~driver'.done
    /\ IF driver.mode = "OPEN_MIC"
       THEN driver'.listen = driver.listen /\ driver'.mode = driver.mode /\ driver'.capture
       ELSE driver'.listen = 0 /\ driver'.mode = "none" /\ ~driver'.capture
    /\ (device = "idle" => device' = "idle") /\ (driver'.done => driver.done \/ device' = "idle")

Passed ==
    /\ UNCHANGED events /\ SameSegment(driver')
    /\ driver'.run => ~driver'.done
    /\ driver'.audioEnded => driver.utterance = 0
    /\ device' = "idle" => ~driver.capture \/ driver.utterance = 0
    /\ driver'.done => \/ device' = "idle"
                       \/ driver.done /\ (UNCHANGED device \/ ~driver.capture)

\* A stream is finished: the segment is, where there is one.
LEMMA FinishSummary ==
    ASSUME driver \in Drivers, NEW d \in Drivers, FinishAudioStream(d), driver.capture,
           SameSegment(d), d.run => ~d.done, d.audioEnded => d.utterance = 0
    PROVE  /\ driver' \in Drivers /\ driver'.run = d.run /\ driver'.done = d.done
           /\ IF driver.utterance = 0
              THEN /\ UNCHANGED events /\ SameSegment(driver')
              ELSE /\ events' = Append(events, SpeechEnd(driver))
                   /\ driver'.utterance = 0 /\ driver'.down = driver.down
                   /\ driver'.lost = driver.lost
                   /\ IF driver.mode = "OPEN_MIC"
                      THEN /\ driver'.listen = driver.listen /\ driver'.mode = driver.mode
                           /\ driver'.capture
                      ELSE driver'.listen = 0 /\ driver'.mode = "none" /\ ~driver'.capture
<1> USE DEF SameSegment, SpeechEnd
<1>1. CASE d.audioEnded
  BY <1>1 DEF FinishAudioStream
<1>2. ASSUME NEW e \in Drivers, QueueSpeechEnded(e), SameSegment(e), e.run = d.run, e.done = d.done
      PROVE  /\ driver' \in Drivers /\ driver'.run = d.run /\ driver'.done = d.done
           /\ IF driver.utterance = 0
              THEN /\ UNCHANGED events /\ SameSegment(driver')
              ELSE /\ events' = Append(events, SpeechEnd(driver))
                   /\ driver'.utterance = 0 /\ driver'.down = driver.down
                   /\ driver'.lost = driver.lost
                   /\ IF driver.mode = "OPEN_MIC"
                      THEN /\ driver'.listen = driver.listen /\ driver'.mode = driver.mode
                           /\ driver'.capture
                      ELSE driver'.listen = 0 /\ driver'.mode = "none" /\ ~driver'.capture
  <2>1. CASE e.utterance = 0
    BY <1>2, <2>1 DEF QueueSpeechEnded
  <2>2. CASE e.utterance # 0 /\ e.mode = "OPEN_MIC"
    BY <1>2, <2>2 DEF QueueSpeechEnded, Drivers
  <2>3. CASE e.utterance # 0 /\ e.mode # "OPEN_MIC"
    BY <1>2, <2>3, ZenonT(60) DEF QueueSpeechEnded, Drivers
  <2> QED
    BY <2>1, <2>2, <2>3
<1>3. /\ [d EXCEPT !.speech = FALSE] \in Drivers /\ [d EXCEPT !.audioEnded = TRUE] \in Drivers
      /\ SameSegment([d EXCEPT !.speech = FALSE]) /\ SameSegment([d EXCEPT !.audioEnded = TRUE])
  BY DEF Drivers
<1>4. CASE ~d.audioEnded /\ QueueSpeechEnded([d EXCEPT !.speech = FALSE])
  BY <1>2, <1>3, <1>4 DEF Drivers
<1>5. CASE ~d.audioEnded /\ QueueSpeechEnded([d EXCEPT !.audioEnded = TRUE])
  BY <1>2, <1>3, <1>5 DEF Drivers
<1> QED
  BY <1>1, <1>4, <1>5 DEF FinishAudioStream

\* A callback restarts the segment, goes on with it, ends it, begins one, or changes none.
LEMMA DeviceSummary ==
    ASSUME BoundaryTypes, Alive, RunInv, DeviceStep
    PROVE  \/ Restarted \/ Continued \/ Ended \/ Passed
           \/ Began(used.utterances + 1) /\ ~EventWaits
<1>t. driver \in Drivers /\ device \in {"idle", "streaming"}
  BY DEF BoundaryTypes
<1>r. (driver.run => ~driver.done) /\ (driver.audioEnded => driver.utterance = 0)
      /\ (device = "idle" /\ driver.capture => driver.utterance = 0)
  BY DEF RunInv
<1>1. CASE DeviceStarts
  BY <1>1, <1>t, <1>r
  DEF DeviceStarts, HandleStart, Restarted, Passed, SameSegment, Drivers
<1>2. CASE DeviceStops
  <2> DEFINE d == [driver EXCEPT !.done = TRUE, !.run = FALSE]
  <2>1. d \in Drivers /\ SameSegment(d) /\ d.done /\ ~d.run /\ d.audioEnded = driver.audioEnded
    BY <1>t DEF Drivers, SameSegment
  <2>2. CASE ~driver.capture
    BY <1>2, <1>t, <1>r, <2>1, <2>2 DEF DeviceStops, HandleStop, Passed
  <2>3. CASE driver.capture
    <3>1. FinishAudioStream(d) /\ device' = "idle"
      BY <1>2, <2>3 DEF DeviceStops, HandleStop
    <3>2. d.utterance = driver.utterance
      BY <2>1 DEF SameSegment
    <3> HIDE DEF d
    <3> QED
      BY <1>t, <1>r, <2>1, <2>3, <3>1, <3>2, FinishSummary DEF Ended, Passed
  <2> QED
    BY <2>2, <2>3
<1>3. CASE QuietAudio
  <2>1. CASE Hearing /\ (driver.speech \/ driver.mode # "OPEN_MIC")
    <3>1. FinishAudioStream(driver) /\ UNCHANGED device
      BY <1>3, <2>1 DEF QuietAudio, HandleQuiet
    <3>2. SameSegment(driver)
      BY DEF SameSegment
    <3> QED
      BY <1>t, <1>r, <2>1, <3>1, <3>2, FinishSummary DEF Ended, Passed, Hearing
  <2>2. CASE ~(Hearing /\ (driver.speech \/ driver.mode # "OPEN_MIC"))
    BY <1>3, <1>r, <2>2 DEF QuietAudio, HandleQuiet, Passed, SameSegment
  <2> QED
    BY <2>1, <2>2
<1>4. CASE LoudAudio
  <2>1. CASE Hearing /\ ~driver.speech /\ driver.utterance = 0
    <3> DEFINE u == used.utterances + 1
    <3> DEFINE e == [type |-> "SpeechStarted", listen |-> driver.listen, utterance |-> u]
    <3>1. /\ ~EventWaits /\ events' = events \o <<e, Chunk(u)>>
          /\ driver' = [driver EXCEPT !.speech = TRUE, !.utterance = u]
          /\ device = "streaming" /\ UNCHANGED device
      BY <1>4, <2>1 DEF LoudAudio, HandleLoud
    <3>2. events \o <<e, Chunk(u)>> = Append(Append(events, e), Chunk(u))
      BY DEF BoundaryTypes
    <3> QED
      BY <2>1, <3>1, <3>2 DEF Began, Hearing
  <2>2. CASE Hearing /\ driver.speech /\ driver.utterance # 0
    BY <1>4, <2>2 DEF LoudAudio, HandleLoud, Continued, Hearing
  <2>3. CASE ~Hearing \/ (driver.speech <=> driver.utterance = 0)
    <3>1. UNCHANGED <<driver, events, device>>
      BY <1>4, <2>3 DEF LoudAudio, HandleLoud
    <3> QED
      BY <1>r, <3>1 DEF Passed, SameSegment
  <2> QED
    BY <1>t, <2>1, <2>2, <2>3 DEF Drivers
<1> QED
  BY <1>1, <1>2, <1>3, <1>4 DEF DeviceStep

LEMMA FinishTypes ==
    ASSUME events \in Seq(Event), driver \in Drivers, NEW d \in Drivers, FinishAudioStream(d)
    PROVE  driver' \in Drivers /\ events' \in Seq(Event)
<1>1. ASSUME NEW e \in Drivers, QueueSpeechEnded(e)
      PROVE  driver' \in Drivers /\ events' \in Seq(Event)
  <2>1. driver' \in Drivers
    BY <1>1 DEF QueueSpeechEnded, Drivers
  <2>2. e.utterance # 0 => SpeechEnd(e) \in Event
    BY <1>1 DEF SpeechEnd, Event, CaptureEvent, CaptureEvents, Drivers
  <2> QED
    BY <1>1, <2>1, <2>2 DEF QueueSpeechEnded
<1>2. [d EXCEPT !.speech = FALSE] \in Drivers /\ [d EXCEPT !.audioEnded = TRUE] \in Drivers
  BY DEF Drivers
<1> QED
  BY <1>1, <1>2 DEF FinishAudioStream

LEMMA DeviceTypes ==
    ASSUME BoundaryTypes, DeviceStep
    PROVE  BoundaryTypes'
<1>t. /\ driver \in Drivers /\ events \in Seq(Event) /\ used \in Counters
      /\ device \in {"idle", "streaming"}
  BY DEF BoundaryTypes
<1>0. UNCHANGED <<protocol, manager, command>>
  BY DEF DeviceStep, DeviceStarts, LoudAudio, QuietAudio, DeviceStops
<1>1. CASE DeviceStarts
  <2>1. driver' \in Drivers
    BY <1>1, <1>t, ZenonT(60) DEF DeviceStarts, HandleStart, Drivers
  <2>2. events' \in Seq(Event)
    <3>1. << >> \in Seq(Event)
      OBVIOUS
    <3>2. events' = << >> \/ events' = events
      BY <1>1 DEF DeviceStarts, HandleStart
    <3> QED
      BY <1>t, <3>1, <3>2
  <2>3. used' \in Counters /\ device' = "streaming"
    BY <1>1, <1>t DEF DeviceStarts, Count, Counters
  <2> QED
    BY <1>0, <2>1, <2>2, <2>3 DEF BoundaryTypes
<1>2. CASE DeviceStops
  <2>1. [driver EXCEPT !.done = TRUE, !.run = FALSE] \in Drivers
    BY <1>t DEF Drivers
  <2>2. driver' \in Drivers /\ events' \in Seq(Event)
    BY <1>2, <1>t, <2>1, FinishTypes DEF DeviceStops, HandleStop
  <2> QED
    BY <1>0, <1>2, <1>t, <2>2 DEF BoundaryTypes, DeviceStops
<1>3. CASE QuietAudio
  <2>1. driver' \in Drivers /\ events' \in Seq(Event)
    BY <1>3, <1>t, FinishTypes DEF QuietAudio, HandleQuiet
  <2> QED
    BY <1>0, <1>3, <1>t, <2>1 DEF BoundaryTypes, QuietAudio
<1>4. CASE LoudAudio
  <2> DEFINE u == used.utterances + 1
  <2> DEFINE e == [type |-> "SpeechStarted", listen |-> driver.listen, utterance |-> u]
  <2>1. u \in Nat \ {0} /\ e \in Event /\ Chunk(u) \in Event
    BY <1>t DEF Counters, Event, CaptureEvent, CaptureEvents, Chunk, Drivers
  <2>2. driver.utterance # 0 => Chunk(driver.utterance) \in Event
    BY <1>t DEF Event, CaptureEvent, CaptureEvents, Chunk, Drivers
  <2>3. /\ [driver EXCEPT !.speech = TRUE, !.utterance = u] \in Drivers
        /\ [used EXCEPT !.utterances = @ + 1] \in Counters
    <3>1. [driver EXCEPT !.speech = TRUE, !.utterance = u] \in Drivers
      BY <1>t, <2>1 DEF Drivers
    <3>2. [used EXCEPT !.utterances = @ + 1] \in Counters
      BY <1>t DEF Counters
    <3> QED
      BY <3>1, <3>2
  <2> HIDE DEF u, e
  <2>4. <<e, Chunk(u)>> \in Seq(Event) /\ events \o <<e, Chunk(u)>> \in Seq(Event)
    BY <1>t, <2>1
  <2>5. driver' \in Drivers /\ events' \in Seq(Event) /\ used' \in Counters
    <3>1. \/ UNCHANGED <<driver, events, used>>
          \/ /\ driver.utterance # 0 /\ events' = Append(events, Chunk(driver.utterance))
             /\ UNCHANGED <<driver, used>>
          \/ /\ driver' = [driver EXCEPT !.speech = TRUE, !.utterance = u]
             /\ events' = events \o <<e, Chunk(u)>>
             /\ used' = [used EXCEPT !.utterances = @ + 1]
      BY <1>4 DEF LoudAudio, HandleLoud, Count, u, e
    <3>2. driver.utterance # 0 => Append(events, Chunk(driver.utterance)) \in Seq(Event)
      BY <1>t, <2>2
    <3>3. driver' \in Drivers /\ events' \in Seq(Event)
      BY <1>t, <2>3, <2>4, <3>1, <3>2
    <3>4. used' \in Counters
      BY <1>t, <2>3, <3>1
    <3> QED
      BY <3>3, <3>4
  <2> QED
    BY <1>0, <1>4, <1>t, <2>5 DEF BoundaryTypes, LoudAudio
<1> QED
  BY <1>1, <1>2, <1>3, <1>4 DEF DeviceStep

LEMMA HeadPut ==
    ASSUME NEW S, NEW q \in Seq(S), NEW e \in S
    PROVE  /\ Append(q, e) # << >>
           /\ q # << >> => Head(Append(q, e)) = Head(q)
           /\ q = << >> => Head(Append(q, e)) = e
OBVIOUS

\* A start is under way only while the protocol arms.
LEMMA StartWhileArming ==
    ASSUME BoundaryTypes, DeskInv, Alive, command # NoCommand, command.type = "StartListening"
    PROVE  protocol.state = "ARMING"
<1>1. protocol.state \in {"DISARMED", "ARMING", "LISTENING", "CAPTURING", "STOPPING", "PLAYING_CUE",
              "PLAYING_AUDIO"}
  BY DEF BoundaryTypes, Protocols
<1> QED
  BY <1>1
  DEF DeskInv, QuietInv, StoppingInv, PlayingInv, Plays, HearingInv, InPhrase

LEMMA ListensPlace ==
    ASSUME BoundaryTypes, TaskInv, Working, protocol.state = "ARMING"
    PROVE  At("arming") /\ Receiving
BY DEF TaskInv, PlaceInv, BoundaryTypes, Managers, Places, At, Working,
    Receiving

\* Every callback keeps the queue and the driver as the manager expects them.
LEMMA DeviceKeeps ==
    ASSUME BoundaryTypes, TaskInv, DeskInv, DeviceStep
    PROVE  DeskInv'
<1>0. /\ UNCHANGED <<protocol, manager, command, violation>> /\ ~driver.down
  BY DEF DeviceStep, DeviceStarts, LoudAudio, QuietAudio, DeviceStops, Live
<1>1. CASE ~Working
  BY <1>0, <1>1
  DEF DeskInv, QuietInv, StoppingInv, PlayingInv, ArmingInv, HearingInv,
      ArmedInv, OpenInv, RunInv, Alive, Working
<1> SUFFICES ASSUME Working PROVE DeskInv'
  BY <1>1
<1>2. Alive
  BY <1>0 DEF Alive
<1>3. \/ Restarted \/ Continued \/ Ended \/ Passed
      \/ Began(used.utterances + 1) /\ ~EventWaits
  BY <1>2, DeviceSummary DEF DeskInv
<1>4. BoundaryTypes'
  BY DeviceTypes
<1>5. ~driver'.down /\ driver'.lost = driver.lost
  BY <1>0, <1>3
  DEF Restarted, Continued, Ended, Passed, Began, SameSegment, BoundaryTypes,
      Drivers
<1>6. ~driver.capture => Passed
  BY <1>3 DEF Restarted, Continued, Ended, Began
<1>7. QuietInv' /\ StoppingInv' /\ PlayingInv'
  BY <1>0, <1>2, <1>6
  DEF DeskInv, QuietInv, StoppingInv, PlayingInv, Plays, IdleDriver, Passed,
      SameSegment, Alive, Working
<1>t. driver \in Drivers /\ driver' \in Drivers /\ device \in {"idle", "streaming"}
  BY <1>4 DEF BoundaryTypes
<1>8. RunInv'
  <2>r. RunInv
    BY DEF DeskInv
  <2> USE DEF RunInv
  <2>1. CASE Restarted
    BY <1>0, <1>2, <2>r, <2>1 DEF Restarted
  <2>2. CASE Continued
    BY <1>0, <1>2, <2>r, <2>2 DEF Continued
  <2>3. CASE Ended
    BY <1>0, <1>2, <2>r, <2>3 DEF Ended
  <2>4. CASE Passed
    <3>1. ASSUME command # NoCommand, command.type = "StartListening", command.phase = "run",
                 driver'.done
          PROVE  driver'.utterance = 0 /\ (device' = "idle" \/ ~driver'.capture)
      <4>1. protocol.state = "ARMING"
        BY <1>2, <3>1, StartWhileArming
      <4>2. ~driver.capture => driver.utterance = 0
        BY <1>2, <4>1 DEF DeskInv, ArmedInv, Armed, IdleDriver, Listens
      <4> QED
        BY <1>0, <1>2, <2>r, <2>4, <3>1, <4>2 DEF Passed, SameSegment
    <3> QED
      BY <1>0, <1>2, <2>r, <2>4, <3>1 DEF Passed, SameSegment
  <2>5. CASE Began(used.utterances + 1)
    BY <1>0, <1>2, <1>t, <2>r, <2>5 DEF Began, Drivers
  <2> QED
    BY <1>3, <2>1, <2>2, <2>3, <2>4, <2>5
<1> DEFINE u == used.utterances + 1
<1> DEFINE b == [type |-> "SpeechStarted", listen |-> driver.listen, utterance |-> u]
<1>u. u \in Nat \ {0} /\ events \in Seq(Event) /\ driver.utterance \in Nat
  BY DEF BoundaryTypes, Counters, Drivers
<1>e. /\ driver.utterance # 0 => /\ Chunk(driver.utterance) \in CaptureEvent
                                 /\ SpeechEnd(driver) \in CaptureEvent
      /\ b \in CaptureEvent /\ Chunk(u) \in CaptureEvent
  BY <1>t, <1>u DEF CaptureEvent, CaptureEvents, Chunk, SpeechEnd, Drivers
<1>c. \A e \in CaptureEvent : e \in Event
  BY DEF Event
<1> HIDE DEF u, b
<1>9. ArmingInv'
  <2>p. protocol.state = "ARMING" => protocol'.utterance = 0
    BY <1>0, <1>2 DEF DeskInv, ArmingInv
  <2> SUFFICES ASSUME protocol.state = "ARMING", ~Arming("run"), Alive'
               PROVE  ArmingInv'
    BY <1>0, <2>p DEF ArmingInv, Arming
  <2>a. \/ (command = NoCommand \/ Arming("service")) /\ Opens
        \/ (command = NoCommand \/ Arming("service")) /\ driver.utterance = 0 /\ events = << >>
        \/ command = NoCommand /\ driver.utterance = 0 /\ events # << >>
    BY <1>2 DEF DeskInv, ArmingInv
  <2>b. Arming("service")' = Arming("service") /\ Arming("run")' = Arming("run") /\ command' = command
    BY <1>0 DEF Arming
  <2>1. CASE Restarted
    <3>1. driver'.utterance = 0 /\ events' = << >>
      BY <1>2, <2>1 DEF Restarted, SameSegment, DeskInv, RunInv
    <3> QED
      BY <2>p, <2>a, <2>b, <3>1 DEF ArmingInv
  <2>2. CASE Continued \/ Ended
    <3>1. Opens /\ (command = NoCommand \/ Arming("service"))
      BY <2>2, <2>a DEF Continued, Ended
    <3>2. Opens'
      BY <1>e, <1>c, <1>u, <2>2, <3>1, HeadPut DEF Continued, Ended, Opens
    <3> QED
      BY <2>p, <2>b, <3>1, <3>2 DEF ArmingInv
  <2>3. CASE Began(u) /\ ~EventWaits
    <3>1. command = NoCommand => events = << >>
      BY <2>3, ListensPlace DEF EventWaits
    <3>2. CASE events = << >>
      <4>1. /\ Append(events, b) \in Seq(Event) /\ Append(events, b) # << >>
            /\ Head(Append(events, b)) = b
        BY <1>e, <1>c, <1>u, <3>2, HeadPut
      <4>2. Opens'
        BY <1>e, <1>c, <2>3, <4>1, HeadPut DEF Began, Opens, b
      <4> QED
        BY <2>p, <2>a, <2>b, <4>2 DEF ArmingInv
    <3>3. CASE events # << >>
      <4>1. Arming("service") /\ Opens
        BY <2>a, <3>1, <3>3
      <4>2. /\ Append(events, b) \in Seq(Event) /\ Append(events, b) # << >>
            /\ Head(Append(events, b)) = Head(events)
        BY <1>e, <1>c, <1>u, <3>3, HeadPut
      <4>3. Opens'
        BY <1>e, <1>c, <2>3, <4>1, <4>2, HeadPut DEF Began, Opens, b
      <4> QED
        BY <2>p, <4>1, <2>b, <4>3 DEF ArmingInv
    <3> QED
      BY <3>2, <3>3
  <2>4. CASE Passed
    BY <1>0, <1>2, <2>4
    DEF Passed, SameSegment, DeskInv, ArmingInv, Opens, Arming
  <2> QED
    BY <1>3, <2>1, <2>2, <2>3, <2>4 DEF u
<1>10. ArmedInv'
  <2> SUFFICES ASSUME protocol.state \in Listens
               PROVE  ArmedInv'
    BY <1>0 DEF ArmedInv
  <2>a. \/ Armed /\ (~OpenMic => ~LosesEnd(events))
        \/ ~driver.capture
    BY DEF DeskInv, ArmedInv, IdleDriver
  <2>1. CASE Restarted
    <3>1. Armed' /\ ~LosesEnd(events')
      BY <1>0, <2>1, <2>a, EmptyPhrase DEF Restarted, SameSegment, Armed
    <3> QED
      BY <3>1 DEF ArmedInv
  <2>2. CASE Continued
    <3>1. Armed' /\ (~OpenMic => ~LosesEnd(events'))
      BY <1>0, <1>e, <1>c, <1>u, <2>2, <2>a, LosesEndPut
      DEF Continued, Armed, Chunk
    <3> QED
      BY <1>0, <3>1 DEF ArmedInv, OpenMic
  <2>3. CASE Began(u)
    <3>1. Append(events, b) \in Seq(Event) /\ (~OpenMic => ~LosesEnd(Append(events, b)))
      BY <1>e, <1>c, <1>u, <2>3, <2>a, LosesEndPut DEF Began, b
    <3>2. Armed'
      BY <1>0, <1>t, <2>3, <2>a DEF Began, Armed, Drivers
    <3>3. events' = Append(Append(events, b), Chunk(u)) /\ Chunk(u).type # "SpeechEnded"
      BY <2>3 DEF Began, b, Chunk
    <3>4. ~OpenMic => ~LosesEnd(events')
      BY <1>e, <1>c, <3>1, <3>3, LosesEndPut
    <3> QED
      BY <1>0, <3>2, <3>4 DEF ArmedInv, OpenMic
  <2>4. CASE Ended
    <3>1. Armed /\ LosesEnd(events')
      BY <1>e, <1>c, <1>u, <2>4, <2>a, LosesEndPut DEF Ended, SpeechEnd
    <3>2. IF OpenMic THEN Armed' ELSE IdleDriver'
      BY <1>0, <2>4, <3>1 DEF Ended, Armed, IdleDriver, OpenMic
    <3> QED
      BY <1>0, <3>1, <3>2 DEF ArmedInv, OpenMic
  <2>5. CASE Passed
    BY <1>0, <2>5
    DEF Passed, SameSegment, DeskInv, ArmedInv, Armed, IdleDriver, OpenMic,
        Arming
  <2> QED
    BY <1>3, <2>1, <2>2, <2>3, <2>4, <2>5 DEF u
<1>11. OpenInv'
  <2>1. ASSUME protocol.state = "CAPTURING", ~OpenMic, driver'.capture
        PROVE  driver'.utterance # 0
    <3>1. driver.capture
      BY <1>6, <2>1 DEF Passed, SameSegment
    <3>2. driver.utterance # 0 /\ driver.mode # "OPEN_MIC"
      BY <1>2, <2>1, <3>1
      DEF DeskInv, OpenInv, ArmedInv, Armed, IdleDriver, Listens, OpenMic
    <3> QED
      BY <1>2, <1>3, <2>1, <3>2
      DEF Restarted, Continued, Ended, Passed, Began, SameSegment, DeskInv,
          RunInv
  <2> QED
    BY <1>0, <2>1 DEF OpenInv, OpenMic
<1>12. HearingInv'
  <2> SUFFICES ASSUME InPhrase
               PROVE  HearingInv'
    BY <1>0 DEF HearingInv, InPhrase
  <2>h. /\ command = NoCommand /\ Phrase(events, protocol.listen)
        /\ protocol.state = "CAPTURING" <=> protocol.utterance # 0
        /\ ~OpenMic => EndsLast(events)
        /\ events # << >> => /\ HeadFits(Head(events))
                             /\ driver.utterance = SegmentAfter(events[Len(events)])
        /\ events = << >> => driver.utterance \in {0, protocol.utterance}
    BY <1>2 DEF DeskInv, HearingInv
  <2>f. \A e : HeadFits(e)' <=> HeadFits(e)
    BY <1>0 DEF HeadFits, OpenMic
  <2>a. (Armed /\ (~OpenMic => ~LosesEnd(events))) \/ ~driver.capture
    BY DEF DeskInv, ArmedInv, IdleDriver, InPhrase, Listens
  <2>1. CASE Restarted
    <3>1. driver'.utterance = 0 /\ events' = << >>
      BY <1>2, <2>1 DEF Restarted, SameSegment, DeskInv, RunInv
    <3> QED
      BY <1>0, <2>h, <3>1, EmptyPhrase DEF HearingInv, OpenMic
  <2>2. CASE Passed
    BY <1>0, <2>f, <2>h, <2>2 DEF HearingInv, Passed, SameSegment, OpenMic
  <2>3. CASE Continued
    <3> DEFINE e == Chunk(driver.utterance)
    <3>1. /\ e \in CaptureEvent /\ e.type = "AudioChunk" /\ e.listen = protocol.listen
          /\ e.utterance = driver.utterance
      BY <1>e, <2>3, <2>a DEF Continued, Chunk, Armed
    <3> HIDE DEF e
    <3>2. events # << >> => Follows(SegmentAfter(events[Len(events)]), e)
      BY <2>h, <3>1 DEF Follows
    <3>3. events' = Append(events, e) /\ UNCHANGED driver /\ driver.utterance # 0 /\ driver.capture
      BY <2>3 DEF Continued, e
    <3>4. ~OpenMic => EndsLast(events')
      BY <1>c, <1>u, <2>a, <3>1, <3>3, LosesEndPut
    <3>5. events = << >> => HeadFits(e)
      BY <2>h, <3>1, <3>3 DEF HeadFits, InPhrase
    <3> QED
      BY <1>0, <2>f, <2>h, <3>1, <3>2, <3>3, <3>4, <3>5, PhrasePut
      DEF HearingInv, SegmentAfter, OpenMic
  <2>4. CASE Ended
    <3> DEFINE e == SpeechEnd(driver)
    <3>1. /\ e \in CaptureEvent /\ e.type = "SpeechEnded" /\ e.listen = protocol.listen
          /\ e.utterance = driver.utterance
      BY <1>e, <2>4, <2>a DEF Ended, SpeechEnd, Armed
    <3> HIDE DEF e
    <3>2. events # << >> => Follows(SegmentAfter(events[Len(events)]), e)
      BY <2>h, <3>1 DEF Follows
    <3>3. /\ events' = Append(events, e) /\ driver'.utterance = 0 /\ driver.utterance # 0
          /\ driver.capture
      BY <2>4 DEF Ended, e
    <3>4. ~OpenMic => EndsLast(events')
      BY <1>c, <1>u, <2>a, <3>1, <3>3, LosesEndPut
    <3>5. events = << >> => HeadFits(e)
      BY <2>h, <3>1, <3>3 DEF HeadFits, InPhrase
    <3> QED
      BY <1>0, <2>f, <2>h, <3>1, <3>2, <3>3, <3>4, <3>5, PhrasePut
      DEF HearingInv, SegmentAfter, OpenMic
  <2>5. CASE Began(u)
    <3> DEFINE c == Chunk(u)
    <3> DEFINE q == Append(events, b)
    <3>1. /\ b \in CaptureEvent /\ b.type = "SpeechStarted" /\ b.listen = protocol.listen
          /\ b.utterance = u /\ driver.utterance = 0 /\ driver.capture
          /\ c \in CaptureEvent /\ c.type = "AudioChunk" /\ c.listen = protocol.listen
          /\ c.utterance = u
      BY <1>e, <2>5, <2>a DEF Began, Chunk, Armed, b
    <3>2. events' = Append(q, c) /\ driver'.utterance = u
      BY <1>t, <2>5 DEF Began, b, Drivers
    <3>3. events # << >> => Follows(SegmentAfter(events[Len(events)]), b)
      BY <2>h, <3>1 DEF Follows
    <3> HIDE DEF c
    <3>4. /\ Phrase(q, protocol.listen) /\ q # << >> /\ q[Len(q)] = b
          /\ events # << >> => Head(q) = Head(events)
          /\ events = << >> => Head(q) = b
      BY <2>h, <3>1, <3>3, PhrasePut
    <3>5. q \in Seq(Event) /\ (~OpenMic => ~LosesEnd(q))
      BY <1>c, <1>u, <2>a, <3>1, LosesEndPut
    <3> HIDE DEF q
    <3>6. ~OpenMic => EndsLast(events')
      BY <1>c, <3>1, <3>2, <3>5, LosesEndPut
    <3>7. Follows(SegmentAfter(q[Len(q)]), c)
      BY <3>1, <3>4 DEF Follows, SegmentAfter
    <3>8. HeadFits(Head(q))
      <4>1. CASE events # << >>
        BY <2>h, <3>4, <4>1
      <4>2. CASE events = << >>
        <5>1. protocol.state = "CAPTURING" => OpenMic
          BY <1>2, <3>1 DEF DeskInv, OpenInv
        <5> QED
          BY <3>1, <3>4, <4>2, <5>1 DEF HeadFits
      <4> QED
        BY <4>1, <4>2
    <3>9. /\ Phrase(events', protocol.listen) /\ events' # << >> /\ events'[Len(events')] = c
          /\ Head(events') = Head(q)
      BY <3>1, <3>2, <3>4, <3>7, PhrasePut
    <3> QED
      BY <1>0, <2>f, <2>h, <3>1, <3>2, <3>6, <3>8, <3>9
      DEF HearingInv, SegmentAfter, OpenMic
  <2> QED
    BY <1>3, <2>1, <2>2, <2>3, <2>4, <2>5 DEF u
<1> QED
  BY <1>7, <1>8, <1>9, <1>10, <1>11, <1>12 DEF DeskInv

-----------------------------------------------------------------------------
(* The steps of the driver and of the manager.                              *)

\* What the steps of the driver and of the manager keep, next to their place.
Refusals == {"none", "SpeechStarted", "StopListening"}
Preserved == BoundaryTypes' /\ DeskInv' /\ FailedInv' /\ violation' \in Refusals

\* After a failure nothing is promised but that no command is left.
LEMMA BrokenKeeps ==
    ASSUME ~Working', command' = NoCommand
    PROVE  DeskInv' /\ FailedInv'
BY DEF DeskInv, QuietInv, StoppingInv, PlayingInv, ArmingInv, HearingInv,
    ArmedInv, OpenInv, RunInv, FailedInv, Alive, Working

LEMMA BreaksKeeps ==
    ASSUME BoundaryTypes, Breaks, used' \in Counters, device' \in {"idle", "streaming"},
           violation' \in Refusals
    PROVE  Preserved
<1>1. NoCommand \in Commands
  BY DEF NoCommand, Commands
<1> QED
  BY <1>1, BrokenKeeps DEF Breaks, Preserved, BoundaryTypes

\* The manager's task moves and touches nothing.
LEMMA MoveKeeps ==
    ASSUME BoundaryInv, Working, Working', manager' \in Managers,
           UNCHANGED <<protocol, command, driver, events, device, used, violation>>
    PROVE  Preserved
<1>1. BoundaryTypes'
  BY DEF BoundaryInv, BoundaryTypes
<1>2. FailedInv' /\ violation' \in Refusals
  BY DEF BoundaryInv, FailedInv, Refusals
<1>3. DeskInv'
  BY DEF BoundaryInv, DeskInv, QuietInv, StoppingInv, PlayingInv, Plays,
      ArmingInv, HearingInv, ArmedInv, OpenInv, RunInv, Alive, OpenMic, Arming,
      Opens, IdleDriver, InPhrase, HeadFits, Armed
<1> QED
  BY <1>1, <1>2, <1>3 DEF Preserved

LEMMA TransportKeeps ==
    ASSUME BoundaryInv, TransportStops
    PROVE  Preserved
<1> DEFINE e == [type |-> "MicrophoneUnavailable"]
<1>1. /\ driver' = [driver EXCEPT !.down = TRUE] /\ events' = Append(events, e)
      /\ UNCHANGED <<protocol, manager, command, violation>> /\ device' = "idle"
      /\ used' = [used EXCEPT !.failures = @ + 1]
  BY DEF TransportStops, Count
<1>2. e \in Event /\ events \in Seq(Event) /\ driver \in Drivers
  BY DEF Event, BoundaryInv, BoundaryTypes
<1>3. driver' \in Drivers /\ driver'.down
  BY <1>1, <1>2 DEF Drivers
<1>4. used' \in Counters
  <2>1. used \in Counters
    BY DEF BoundaryInv, BoundaryTypes
  <2> QED
    BY <1>1, <2>1 DEF Counters
<1>5. events' \in Seq(Event)
  BY <1>1, <1>2
<1>6. BoundaryTypes' /\ violation' \in Refusals /\ FailedInv'
  BY <1>1, <1>3, <1>4, <1>5
  DEF BoundaryInv, BoundaryTypes, FailedInv, Working, Refusals
<1>7. ArmedInv'
  <2>1. LosesEnd(events') <=> LosesEnd(events)
    BY <1>1, <1>2, LosesEndPut
  <2> QED
    BY <1>1, <1>2, <2>1
    DEF BoundaryInv, DeskInv, ArmedInv, Working, Armed, OpenMic, IdleDriver,
        Arming, Drivers
<1>8. DeskInv'
  BY <1>3, <1>7
  DEF DeskInv, QuietInv, StoppingInv, PlayingInv, ArmingInv, HearingInv,
      OpenInv, RunInv, Alive
<1> QED
  BY <1>6, <1>8 DEF Preserved

LEMMA RecoverKeeps ==
    ASSUME BoundaryInv, Recover
    PROVE  Preserved
<1>1. command = NoCommand
  BY DEF BoundaryInv, FailedInv, Recover, At, Working
<1>2. protocol' = NewProtocol /\ protocol' \in Protocols
  BY DEF Recover, NewProtocol, Protocols
<1>3. driver' = NewDriver /\ driver' \in Drivers
  BY DEF Recover, NewDriver, Drivers
<1>4. manager' \in Managers
  BY DEF BoundaryInv, BoundaryTypes, Recover, Fresh, Managers, Places
<1>5. << >> \in Seq(Event) /\ events' = << >>
  BY DEF Recover
<1>6. BoundaryTypes' /\ violation' \in Refusals /\ FailedInv'
  BY <1>1, <1>2, <1>3, <1>4, <1>5
  DEF BoundaryInv, BoundaryTypes, FailedInv, Refusals, Recover
<1>7. DeskInv'
  BY <1>1, <1>2, <1>3, <1>5
  DEF Recover, DeskInv, QuietInv, StoppingInv, PlayingInv, Plays, ArmingInv,
      HearingInv, ArmedInv, OpenInv, RunInv, Alive, IdleDriver, InPhrase,
      NewProtocol, NewDriver, Listens, NoCommand
<1> QED
  BY <1>6, <1>7 DEF Preserved

LEMMA InitKeeps == BoundaryInit => BoundaryInv
<1> SUFFICES ASSUME BoundaryInit PROVE BoundaryInv
  OBVIOUS
<1>1. protocol = NewProtocol /\ protocol \in Protocols
  BY DEF BoundaryInit, NewProtocol, Protocols
<1>2. driver = NewDriver /\ driver \in Drivers
  BY DEF BoundaryInit, NewDriver, Drivers
<1>3. manager \in Managers /\ Working /\ At("visual_idle")
  <2>1. PICK open \in BOOLEAN : manager = Fresh(open)
    BY DEF BoundaryInit
  <2> QED
    BY <2>1 DEF Fresh, Managers, Places, Working, At
<1>4. << >> \in Seq(Event) /\ events = << >>
  BY DEF BoundaryInit
<1>5. NoCommand \in Commands /\ used \in Counters
  BY DEF BoundaryInit, NoCommand, Commands, Counters
<1>6. BoundaryTypes
  BY <1>1, <1>2, <1>3, <1>4, <1>5 DEF BoundaryInit, BoundaryTypes
<1>7. DeskInv /\ FailedInv
  BY <1>1, <1>2, <1>4
  DEF BoundaryInit, DeskInv, QuietInv, StoppingInv, PlayingInv, Plays,
      ArmingInv, HearingInv, ArmedInv, OpenInv, RunInv, Alive, IdleDriver,
      InPhrase, NewProtocol, NewDriver, Listens, NoCommand, FailedInv
<1>8. TaskInv
  BY <1>1, <1>3
  DEF TaskInv, PlaceInv, NextInv, ModeInv, LightInv, At, Receiving, Listens,
      NewProtocol, Promised
<1> QED
  BY <1>6, <1>7, <1>8 DEF BoundaryInv, BoundaryInit

\* A cue or speech is sent while disarmed: nothing is queued, and the driver takes it.
LEMMA OutputKeeps ==
    ASSUME BoundaryInv, Working, protocol.state = "DISARMED", NEW t \in {"PlayCue", "Playback"},
           NEW next \in Managers, next.pc \notin {"failed", "fatal"},
           Send([type |-> t, phase |-> "none"], next),
           UNCHANGED device, used' \in Counters
    PROVE  Preserved
<1>t. BoundaryTypes /\ violation \in Refusals
  BY DEF BoundaryInv, Refusals
<1>1. ~driver.down => IdleDriver /\ events = << >> /\ RunInv
  BY DEF BoundaryInv, DeskInv, QuietInv, Alive
<1>2. CASE /\ Breaks
           /\ \/ violation' = violation
              \/ ~driver.down /\ t = "Playback" /\ driver.listen # 0
  BY <1>t, <1>1, <1>2, BreaksKeeps DEF IdleDriver, BoundaryTypes
<1>3. CASE /\ ~driver.down
              /\ protocol' = [protocol EXCEPT !.state =
                                IF t = "PlayCue" THEN "PLAYING_CUE" ELSE "PLAYING_AUDIO"]
              /\ command' = [type |-> t, phase |-> "service"]
              /\ manager' = next /\ UNCHANGED <<driver, events, violation>>
  <2>1. /\ protocol' \in Protocols
        /\ protocol'.state = IF t = "PlayCue" THEN "PLAYING_CUE" ELSE "PLAYING_AUDIO"
    BY <1>t, <1>3 DEF BoundaryTypes, Protocols
  <2>2. command' \in Commands
    BY <1>3 DEF Commands
  <2>3. BoundaryTypes' /\ Working' /\ FailedInv'
    BY <1>t, <1>3, <2>1, <2>2 DEF BoundaryTypes, Working, FailedInv
  <2>4. DeskInv'
    BY <1>1, <1>3, <2>1
    DEF DeskInv, QuietInv, StoppingInv, PlayingInv, Plays, ArmingInv,
        HearingInv, ArmedInv, OpenInv, RunInv, Alive, IdleDriver, InPhrase,
        Listens, NoCommand, Working
  <2> QED
    BY <1>3, <1>t, <2>3, <2>4 DEF Preserved
<1> QED
  BY <1>t, <1>2, <1>3, SendingOutput

LEMMA FailureKeeps ==
    ASSUME BoundaryInv,
           CommandFails \/ BecomesIdleFails \/ ReceiveFails \/ ReceiveTimesOut
    PROVE  Preserved
<1>t. driver \in Drivers /\ used \in Counters /\ manager \in Managers /\ protocol \in Protocols
      /\ device \in {"idle", "streaming"} /\ violation \in Refusals
  BY DEF BoundaryInv, BoundaryTypes, Refusals
<1>1. Failed /\ UNCHANGED <<protocol, events, device, violation>>
  BY DEF CommandFails, BecomesIdleFails, ReceiveFails, ReceiveTimesOut
<1>2. driver' \in Drivers
  BY <1>t
  DEF CommandFails, BecomesIdleFails, ReceiveFails, ReceiveTimesOut,
      Disconnected, Drivers
<1>3. used' \in Counters
  <2>1. [used EXCEPT !.failures = IF driver.down THEN @ ELSE @ + 1] \in Counters
    BY <1>t DEF Counters
  <2> QED
    BY <1>t, <2>1
    DEF CommandFails, BecomesIdleFails, ReceiveFails, ReceiveTimesOut,
        CountFailure
<1> QED
  BY <1>1, <1>2, <1>3, <1>t, Failing, BreaksKeeps DEF Breaks, BoundaryInv

LEMMA IdleKeeps ==
    ASSUME BoundaryInv, BecomesIdle
    PROVE  Preserved
<1>t. /\ driver \in Drivers /\ manager \in Managers /\ BoundaryTypes /\ Working
      /\ violation \in Refusals /\ At("visual_idle")
  BY DEF BoundaryInv, BoundaryTypes, BecomesIdle, At, Working, Refusals
<1>0. UNCHANGED <<protocol, command, events, device, used, violation>>
  BY DEF BecomesIdle
<1>1. /\ driver' \in Drivers /\ SameSegment(driver') /\ ~driver.down /\ driver'.run = driver.run
      /\ driver'.done = driver.done /\ driver'.audioEnded = driver.audioEnded
  BY <1>t DEF BecomesIdle, Drivers, SameSegment
<1>2. manager' \in Managers /\ Working'
  BY <1>t DEF BecomesIdle, Managers, Places, Working
<1>3. protocol.state = "DISARMED"
  BY <1>t DEF BoundaryInv, TaskInv, PlaceInv, Receiving, At
<1>4. BoundaryTypes' /\ FailedInv' /\ violation' \in Refusals
  BY <1>0, <1>1, <1>2, <1>t DEF BoundaryTypes, FailedInv
<1>5. DeskInv'
  BY <1>0, <1>1, <1>t, <1>3
  DEF BoundaryInv, DeskInv, QuietInv, StoppingInv, PlayingInv, Plays,
      ArmingInv, HearingInv, ArmedInv, OpenInv, RunInv, Alive, IdleDriver,
      InPhrase, Listens, SameSegment
<1> QED
  BY <1>4, <1>5 DEF Preserved

LEMMA ServiceKeeps ==
    ASSUME BoundaryInv, ServiceReturns
    PROVE  Preserved
<1>t. /\ BoundaryTypes /\ events \in Seq(Event) /\ violation \in Refusals
      /\ protocol.state \in {"DISARMED", "ARMING", "LISTENING", "CAPTURING", "STOPPING",
                             "PLAYING_CUE", "PLAYING_AUDIO"}
  BY DEF BoundaryInv, BoundaryTypes, Protocols, Refusals
<1>0. /\ UNCHANGED <<protocol, manager, driver, device, used, violation>>
      /\ events' = Append(events, Answer(command)) /\ command' = NoCommand
      /\ command # NoCommand /\ command.phase = "service" /\ ~driver.down
  BY DEF ServiceReturns, Executing, Live
<1>1. Working /\ Alive
  BY <1>0 DEF BoundaryInv, FailedInv, Alive
<1>2. NoCommand \in Commands /\ FailedInv'
  BY <1>0 DEF NoCommand, Commands, FailedInv
<1>3. CASE protocol.state = "ARMING"
  <2>1. Arming("service")
    BY <1>0, <1>1, <1>3 DEF BoundaryInv, DeskInv, ArmingInv, Arming
  <2>2. Answer(command) = [type |-> "ListeningStarted", listen |-> protocol.listen,
                           mode |-> protocol.mode]
    BY <2>1 DEF Arming, Answer
  <2>3. command \in Commands /\ protocol.mode \in Modes /\ protocol.listen \in Nat
    BY <1>t, <2>1 DEF BoundaryTypes, Commands, Arming, Protocols
  <2>4. Answer(command) \in Event
    BY <2>2, <2>3 DEF Event
  <2>5. BoundaryTypes'
    BY <1>0, <1>2, <1>t, <2>4 DEF BoundaryTypes
  <2>6. \/ Opens
        \/ driver.utterance = 0 /\ events = << >>
    BY <1>0, <1>1, <1>3, <2>1 DEF BoundaryInv, DeskInv, ArmingInv, Arming
  <2>p. protocol.utterance = 0
    BY <1>1, <1>3 DEF BoundaryInv, DeskInv, ArmingInv
  <2>7. ArmingInv'
    <3>1. CASE Opens
      <4>1. Opens'
        BY <1>0, <1>t, <2>4, <3>1, HeadPut DEF Opens
      <4> QED
        BY <1>0, <2>p, <4>1 DEF ArmingInv
    <3>2. CASE driver.utterance = 0 /\ events = << >>
      <4>1. events' = <<Answer(command)>>
        BY <1>0, <3>2
      <4> QED
        BY <1>0, <2>p, <2>2, <3>2, <4>1 DEF ArmingInv
    <3> QED
      BY <2>6, <3>1, <3>2
  <2>8. ArmedInv'
    <3>1. LosesEnd(events') <=> LosesEnd(events)
      BY <1>0, <1>t, <2>2, <2>4, LosesEndPut
    <3>2. ~Arming("run") /\ ~Arming("run")'
      BY <1>0 DEF Arming, NoCommand
    <3> QED
      BY <1>0, <3>1, <3>2
      DEF BoundaryInv, DeskInv, ArmedInv, Working, Armed, OpenMic, IdleDriver
  <2>9. DeskInv'
    BY <1>0, <1>3, <2>7, <2>8
    DEF BoundaryInv, DeskInv, QuietInv, StoppingInv, PlayingInv, Plays,
        HearingInv, OpenInv, RunInv, Alive, Working, InPhrase
  <2> QED
    BY <1>0, <1>2, <1>t, <2>5, <2>9 DEF Preserved
<1>4. CASE protocol.state \in {"PLAYING_CUE", "PLAYING_AUDIO"}
  <2> DEFINE e == [type |-> IF protocol.state = "PLAYING_CUE"
                            THEN "CueFinished" ELSE "PlaybackFinished"]
  <2>1. /\ IdleDriver /\ events = << >> /\ Answer(command) = e
    <3>1. /\ IdleDriver /\ events = << >>
          /\ command = [type |-> IF protocol.state = "PLAYING_CUE" THEN "PlayCue" ELSE "Playback",
                        phase |-> "service"]
      BY <1>0, <1>1, <1>4 DEF BoundaryInv, DeskInv, PlayingInv, Plays
    <3> QED
      BY <3>1, <1>4 DEF Answer
  <2>2. e \in Event /\ events' = <<e>>
    BY <1>0, <2>1 DEF Event
  <2>3. <<e>> \in Seq(Event)
    BY <2>2
  <2>4. BoundaryTypes'
    BY <1>0, <1>2, <1>t, <2>2, <2>3 DEF BoundaryTypes
  <2>5. DeskInv'
    BY <1>0, <1>1, <1>4, <2>1, <2>2
    DEF BoundaryInv, DeskInv, QuietInv, StoppingInv, PlayingInv, Plays,
        ArmingInv, HearingInv, ArmedInv, OpenInv, RunInv, Alive, Working,
        InPhrase, Listens, IdleDriver
  <2> QED
    BY <1>0, <1>2, <1>t, <2>4, <2>5 DEF Preserved
<1>5. CASE protocol.state \notin {"ARMING", "PLAYING_CUE", "PLAYING_AUDIO"}
  <2>1. FALSE
    BY <1>0, <1>1, <1>t, <1>5
    DEF BoundaryInv, DeskInv, QuietInv, StoppingInv, HearingInv, InPhrase
  <2> QED
    BY <2>1
<1> QED
  BY <1>3, <1>4, <1>5

\* A run is finished, for a start or for a stop.
LEMMA RunKeeps ==
    ASSUME BoundaryInv, RunFinishes
    PROVE  Preserved
<1> DEFINE d == [driver EXCEPT !.run = FALSE, !.runEnded = TRUE]
<1>t. /\ BoundaryTypes /\ driver \in Drivers /\ violation \in Refusals
      /\ protocol \in Protocols
  BY DEF BoundaryInv, BoundaryTypes, Refusals
<1>0. /\ UNCHANGED <<protocol, device, used, violation>>
      /\ command # NoCommand /\ command.phase = "run" /\ ~driver.down
  BY DEF RunFinishes, Executing, Live
<1>1. Working /\ Alive
  BY <1>0 DEF BoundaryInv, FailedInv, Alive
<1>2. /\ d \in Drivers /\ SameSegment(d) /\ ~d.run /\ d.runEnded /\ d.done = driver.done
      /\ d.audioEnded = driver.audioEnded
  BY <1>t DEF Drivers, SameSegment
<1>3. CASE Stale(d) /\ Failed /\ driver' = Disconnected(d) /\ UNCHANGED events
  <2>1. driver' \in Drivers
    BY <1>2, <1>3 DEF Disconnected, Drivers
  <2> QED
    BY <1>0, <1>3, <1>t, <2>1, Failing, BreaksKeeps DEF Breaks, BoundaryTypes
<1>4. ASSUME ~Stale(d), AfterRun(command, d, events), UNCHANGED manager
      PROVE  Preserved
  <2> HIDE DEF d
  <2>0. driver.done
    BY <1>2, <1>4 DEF Stale
  <2>1. protocol.state \in {"ARMING", "STOPPING"}
    BY <1>0, <1>1, <1>t
    DEF BoundaryInv, DeskInv, QuietInv, PlayingInv, Plays, HearingInv,
        InPhrase, Protocols
  <2>2. NoCommand \in Commands /\ FailedInv'
    BY <1>1, <1>4 DEF NoCommand, Commands, FailedInv, Working
  <2>3. CASE protocol.state = "STOPPING"
    <3>1. /\ command = [type |-> "StopListening", listen |-> protocol.listen, phase |-> "run"]
          /\ events = << >> /\ ~driver.capture
      BY <1>0, <1>1, <2>3 DEF BoundaryInv, DeskInv, StoppingInv
    <3> DEFINE e == [type |-> "ListeningStopped", listen |-> protocol.listen]
    <3>2. /\ driver' = [d EXCEPT !.listen = 0, !.mode = "none", !.utterance = 0]
          /\ events' = Append(<< >>, e) /\ command' = NoCommand
      BY <1>4, <3>1 DEF AfterRun
    <3>3. e \in Event
      BY <1>t DEF Event, Protocols
    <3>4. events' = <<e>> /\ <<e>> \in Seq(Event)
      BY <3>2, <3>3
    <3>5. driver' \in Drivers /\ IdleDriver' /\ ~driver'.run /\ ~driver'.down
      BY <1>0, <1>2, <3>1, <3>2 DEF Drivers, IdleDriver, SameSegment
    <3>6. BoundaryTypes'
      BY <1>0, <1>4, <1>t, <2>2, <3>2, <3>4, <3>5 DEF BoundaryTypes
    <3>7. DeskInv'
      BY <1>0, <2>3, <3>2, <3>4, <3>5
      DEF DeskInv, QuietInv, StoppingInv, PlayingInv, Plays, ArmingInv,
          HearingInv, ArmedInv, OpenInv, RunInv, Alive, Working, InPhrase,
          Listens, IdleDriver
    <3> QED
      BY <1>0, <1>t, <2>2, <3>6, <3>7 DEF Preserved
  <2>4. CASE protocol.state = "ARMING"
    <3>1. Arming("run") /\ driver.utterance = 0 /\ (device = "idle" \/ ~driver.capture)
      <4>1. Arming("run")
        BY <1>0, <1>1, <2>4 DEF BoundaryInv, DeskInv, ArmingInv, Arming
      <4> QED
        BY <1>0, <1>1, <2>0, <4>1 DEF BoundaryInv, DeskInv, RunInv, Arming
    <3> DEFINE c == [type |-> "StartListening", listen |-> protocol.listen,
                     mode |-> protocol.mode, phase |-> "service"]
    <3> DEFINE e == [type |-> "ListeningStarted", listen |-> protocol.listen,
                     mode |-> protocol.mode]
    <3>2. /\ driver' = [d EXCEPT !.lost = LosesEnd(events)]
          /\ \/ command' = NoCommand /\ events' = <<e>>
             \/ command' = c /\ events' = << >>
      BY <1>4, <3>1 DEF AfterRun, Arming
    <3>3. protocol.mode \in Modes /\ protocol.listen \in Nat
      BY <1>t, <3>1 DEF BoundaryTypes, Commands, Arming, Protocols
    <3>4. e \in Event /\ c \in Commands
      BY <3>3 DEF Event, Commands
    <3>5. <<e>> \in Seq(Event) /\ << >> \in Seq(Event)
      BY <3>4
    <3>6. driver' \in Drivers /\ driver'.utterance = 0 /\ ~driver'.run /\ ~driver'.down
          /\ driver'.listen = driver.listen /\ driver'.mode = driver.mode
          /\ driver'.capture = driver.capture /\ driver'.lost = LosesEnd(events)
      BY <1>0, <1>2, <3>1, <3>2 DEF Drivers, SameSegment, LosesEnd
    <3>7. BoundaryTypes'
      BY <1>0, <1>4, <1>t, <2>2, <3>2, <3>4, <3>5, <3>6 DEF BoundaryTypes
    <3>p. protocol.utterance = 0
      BY <1>1, <2>4 DEF BoundaryInv, DeskInv, ArmingInv
    <3>8. ArmingInv'
      BY <1>0, <3>p, <3>2, <3>6 DEF ArmingInv, Arming
    <3>9. ~LosesEnd(events')
      BY <3>2 DEF LosesEnd
    <3>10. ArmedInv'
      <4>1. ~Arming("run")'
        BY <3>2 DEF Arming, NoCommand
      <4>2. \/ Armed /\ (~OpenMic => ~LosesEnd(events))
            \/ ~OpenMic /\ IdleDriver /\ LosesEnd(events)
        BY <1>1, <2>4, <3>1 DEF BoundaryInv, DeskInv, ArmedInv, Listens
      <4> QED
        BY <1>0, <3>6, <3>9, <4>1, <4>2
        DEF ArmedInv, Armed, OpenMic, IdleDriver
    <3>11. RunInv'
      BY <1>0, <3>2, <3>6 DEF RunInv, NoCommand
    <3>12. DeskInv'
      BY <1>0, <2>4, <3>8, <3>10, <3>11
      DEF DeskInv, QuietInv, StoppingInv, PlayingInv, Plays, HearingInv,
          OpenInv, InPhrase
    <3> QED
      BY <1>0, <1>t, <2>2, <3>7, <3>12 DEF Preserved
  <2> QED
    BY <2>1, <2>3, <2>4
<1> QED
  BY <1>3, <1>4 DEF RunFinishes

\* A generation is armed: the driver captures for it before the protocol hears of it.
LEMMA ArmKeeps ==
    ASSUME BoundaryInv, Arm
    PROVE  Preserved
<1> DEFINE m == IF At("arm") THEN NewMode ELSE "FOLLOW_UP"
<1> DEFINE l == used.listens + 1
<1> DEFINE c == [type |-> "StartListening", listen |-> l, mode |-> m, phase |-> "none"]
<1> DEFINE d == [driver EXCEPT !.listen = l, !.mode = m, !.capture = TRUE]
<1> DEFINE next == [manager EXCEPT !.pc = "arming"]
<1>t. /\ BoundaryTypes /\ driver \in Drivers /\ violation \in Refusals /\ events \in Seq(Event)
      /\ protocol \in Protocols /\ manager \in Managers /\ used \in Counters
  BY DEF BoundaryInv, BoundaryTypes, Refusals
<1>0. /\ Send(c, next) /\ UNCHANGED <<device, visual>>
      /\ used' = [used EXCEPT !.listens = @ + 1]
  BY DEF Arm, StartListening, Next, Count
<1>1. m \in Modes /\ l \in Nat /\ used' \in Counters
  BY <1>0, <1>t DEF Modes, NewMode, Counters
<1>2. Working /\ protocol.state = "DISARMED"
  BY DEF Arm, BoundaryInv, TaskInv, PlaceInv, Receiving, At, Working
<1>3. ~driver.down => /\ command = NoCommand /\ events = << >> /\ IdleDriver /\ RunInv
                       /\ protocol.utterance = 0
  BY <1>2 DEF BoundaryInv, DeskInv, QuietInv, Alive
<1>4. next \in Managers /\ next.pc = "arming"
  BY <1>t DEF Managers, Places
<1> HIDE DEF m, l
<1>5. CASE Breaks /\ (violation' = violation \/ (~driver.down /\ driver.listen # 0))
  BY <1>0, <1>1, <1>3, <1>5, <1>t, BreaksKeeps DEF IdleDriver, BoundaryTypes
<1>6. ASSUME ~driver.down,
             protocol' = [protocol EXCEPT !.state = "ARMING", !.listen = l, !.mode = m],
             IF driver.run
             THEN driver' = d /\ UNCHANGED events /\ command' = [c EXCEPT !.phase = "run"]
             ELSE AfterRun(c, d, events),
             manager' = next, UNCHANGED violation
      PROVE  Preserved
  <2>1. /\ protocol' \in Protocols /\ protocol'.state = "ARMING" /\ protocol'.listen = l
        /\ protocol'.mode = m /\ protocol'.utterance = 0
    BY <1>1, <1>3, <1>6, <1>t DEF Protocols
  <2>2. Working' /\ FailedInv' /\ manager' \in Managers
    BY <1>4, <1>6 DEF Working, FailedInv
  <2>3. /\ d \in Drivers /\ d.listen = l /\ d.mode = m /\ d.capture /\ d.utterance = 0
        /\ d.run = driver.run /\ d.done = driver.done /\ d.audioEnded = driver.audioEnded /\ ~d.down
    BY <1>1, <1>3, <1>6, <1>t DEF Drivers, IdleDriver
  <2>4. ~LosesEnd(events) /\ events = << >>
    BY <1>3, <1>6 DEF LosesEnd
  <2> DEFINE r == [type |-> "StartListening", listen |-> l, mode |-> m, phase |-> "run"]
  <2> DEFINE v == [type |-> "StartListening", listen |-> l, mode |-> m, phase |-> "service"]
  <2> DEFINE e == [type |-> "ListeningStarted", listen |-> l, mode |-> m]
  <2>5. r \in Commands /\ v \in Commands /\ NoCommand \in Commands /\ e \in Event
    BY <1>1 DEF Commands, NoCommand, Event
  <2>6. <<e>> \in Seq(Event) /\ << >> \in Seq(Event) /\ ~LosesEnd(<<e>>) /\ ~LosesEnd(<< >>)
    BY <2>5 DEF LosesEnd
  <2>7. \/ driver' = d /\ events' = << >> /\ command' = r /\ driver.run
        \/ /\ driver' = [d EXCEPT !.lost = LosesEnd(events)]
           /\ \/ command' = NoCommand /\ events' = <<e>>
              \/ command' = v /\ events' = << >>
    BY <1>6, <2>4 DEF AfterRun
  <2>8. /\ driver' \in Drivers /\ driver'.listen = l /\ driver'.mode = m /\ driver'.capture
        /\ driver'.utterance = 0 /\ driver'.run = driver.run /\ driver'.done = driver.done
        /\ driver'.audioEnded = driver.audioEnded /\ ~driver'.down
    <3> DEFINE f == [d EXCEPT !.lost = LosesEnd(events)]
    <3>1. /\ f \in Drivers /\ f.listen = d.listen /\ f.mode = d.mode /\ f.capture = d.capture
          /\ f.utterance = d.utterance /\ f.run = d.run /\ f.done = d.done
          /\ f.audioEnded = d.audioEnded /\ f.down = d.down
      <4> HIDE DEF d
      <4> QED
        BY <2>3 DEF Drivers, LosesEnd
    <3>2. driver' = d \/ driver' = f
      BY <2>7
    <3> HIDE DEF d, f
    <3> QED
      BY <2>3, <3>1, <3>2
  <2>9. BoundaryTypes'
    BY <1>0, <1>1, <1>t, <2>1, <2>2, <2>5, <2>6, <2>7, <2>8 DEF BoundaryTypes
  <2>10. ArmingInv'
    BY <2>1, <2>7, <2>8 DEF ArmingInv, Arming
  <2>11. ArmedInv'
    BY <2>1, <2>6, <2>7, <2>8 DEF ArmedInv, Armed
  <2>12. RunInv'
    <3>1. command' = r => driver.run
      BY <2>7 DEF NoCommand
    <3>2. command' # NoCommand /\ command'.phase = "run" => driver.run
      BY <2>7, <3>1
    <3>3. (driver.run => ~driver.done) /\ (driver.audioEnded => driver.utterance = 0)
      BY <1>2, <1>3, <1>6 DEF RunInv, Alive
    <3> QED
      BY <2>8, <3>2, <3>3 DEF RunInv
  <2>13. DeskInv'
    BY <2>1, <2>10, <2>11, <2>12
    DEF DeskInv, QuietInv, StoppingInv, PlayingInv, Plays, HearingInv, OpenInv,
        InPhrase
  <2> QED
    BY <1>6, <1>t, <2>2, <2>9, <2>13 DEF Preserved
<1>7. c.type = "StartListening" /\ next \in Managers
  BY <1>4
<1>8. \/ /\ ~driver.down
         /\ protocol' = [protocol EXCEPT !.state = "ARMING", !.listen = l, !.mode = m]
         /\ IF driver.run
            THEN driver' = d /\ UNCHANGED events /\ command' = [c EXCEPT !.phase = "run"]
            ELSE AfterRun(c, d, events)
         /\ manager' = next /\ UNCHANGED violation
      \/ Breaks /\ (violation' = violation \/ (~driver.down /\ driver.listen # 0))
  BY <1>0, <1>1, <1>2, <1>t, SendingStart
<1> QED
  BY <1>5, <1>6, <1>8

\* A stop empties the queue, for all that is in it belongs to the generation it stops.
LEMMA StopKeeps ==
    ASSUME BoundaryInv, Alive, InPhrase, NEW next \in Managers, next.pc \notin {"failed", "fatal"},
           protocol' \in Protocols, protocol'.state = "STOPPING", protocol'.listen = protocol.listen,
           Enter(StopOf(protocol), next), UNCHANGED <<device, used, violation>>
    PROVE  Preserved
<1> DEFINE l == protocol.listen
<1> DEFINE c == [type |-> "StopListening", listen |-> l, phase |-> "none"]
<1> DEFINE d == [driver EXCEPT !.capture = FALSE]
<1>t. /\ BoundaryTypes /\ driver \in Drivers /\ violation \in Refusals /\ events \in Seq(Event)
      /\ protocol \in Protocols /\ manager \in Managers /\ l \in Nat
  BY DEF BoundaryInv, BoundaryTypes, Refusals, Protocols
<1>0. Phrase(events, l) /\ command = NoCommand /\ RunInv /\ ~driver.down
  BY DEF BoundaryInv, DeskInv, HearingInv, Alive
<1>1. Retained(c) = << >>
  BY <1>0, StopDrops
<1>2. StopOf(protocol) = c
  BY DEF StopOf
<1>3. /\ d \in Drivers /\ ~d.capture /\ d.run = driver.run /\ d.done = driver.done
      /\ d.audioEnded = driver.audioEnded /\ ~d.down /\ d.utterance = driver.utterance
  BY <1>0, <1>t DEF Drivers
<1>4. CASE Breaks
  BY <1>4, <1>t, BreaksKeeps DEF BoundaryTypes
<1>5. ASSUME IF driver.run
             THEN driver' = d /\ events' = << >> /\ command' = [c EXCEPT !.phase = "run"]
             ELSE AfterRun(c, d, << >>),
             manager' = next
      PROVE  Preserved
  <2> DEFINE r == [type |-> "StopListening", listen |-> l, phase |-> "run"]
  <2> DEFINE e == [type |-> "ListeningStopped", listen |-> l]
  <2>1. r \in Commands /\ NoCommand \in Commands /\ e \in Event
    BY <1>t DEF Commands, NoCommand, Event
  <2>2. <<e>> \in Seq(Event) /\ << >> \in Seq(Event) /\ Append(<< >>, e) = <<e>>
    BY <2>1
  <2>3. \/ driver' = d /\ events' = << >> /\ command' = r
        \/ /\ driver' = [d EXCEPT !.listen = 0, !.mode = "none", !.utterance = 0]
           /\ events' = <<e>> /\ command' = NoCommand
    BY <1>5, <2>2 DEF AfterRun
  <2>4. /\ driver' \in Drivers /\ ~driver'.capture /\ ~driver'.down /\ driver'.run = driver.run
        /\ driver'.done = driver.done /\ driver'.audioEnded = driver.audioEnded
        /\ driver'.utterance \in {0, driver.utterance}
        /\ command' = NoCommand => IdleDriver'
    <3>1. CASE driver' = d /\ command' = r
      BY <1>3, <3>1 DEF NoCommand
    <3>2. CASE driver' = [d EXCEPT !.listen = 0, !.mode = "none", !.utterance = 0]
      <4> DEFINE f == [d EXCEPT !.listen = 0, !.mode = "none", !.utterance = 0]
      <4>1. /\ f \in Drivers /\ f.listen = 0 /\ f.mode = "none" /\ f.utterance = 0
            /\ f.capture = d.capture /\ f.down = d.down /\ f.run = d.run /\ f.done = d.done
            /\ f.audioEnded = d.audioEnded
        <5> HIDE DEF d
        <5> QED
          BY <1>3 DEF Drivers
      <4> HIDE DEF f
      <4>2. driver' = f
        BY <3>2 DEF f
      <4> QED
        BY <1>3, <4>1, <4>2 DEF IdleDriver
    <3> QED
      BY <2>3, <3>1, <3>2
  <2>6. BoundaryTypes'
    BY <1>5, <1>t, <2>1, <2>2, <2>3, <2>4 DEF BoundaryTypes
  <2>7. StoppingInv'
    BY <2>3, <2>4 DEF StoppingInv
  <2>8. RunInv'
    BY <1>0, <2>3, <2>4 DEF RunInv, NoCommand, Alive
  <2>9. FailedInv'
    BY <1>5 DEF FailedInv, Working
  <2>10. DeskInv'
    BY <2>7, <2>8
    DEF DeskInv, QuietInv, ArmingInv, ArmedInv, Listens, PlayingInv, Plays,
        HearingInv, OpenInv, InPhrase
  <2> QED
    BY <1>t, <2>6, <2>9, <2>10 DEF Preserved
<1>6. \/ /\ IF driver.run
            THEN driver' = d /\ events' = Retained(c) /\ command' = [c EXCEPT !.phase = "run"]
            ELSE AfterRun(c, d, Retained(c))
         /\ manager' = next
      \/ Breaks
  BY <1>t, <1>2, EnteringStop
<1> QED
  BY <1>1, <1>4, <1>5, <1>6

\* The protocol goes on with the next event of a phrase.
LEMMA PhraseKeeps ==
    ASSUME BoundaryInv, Alive, InPhrase, events # << >>, events' = Tail(events),
           Alive', UNCHANGED <<driver, command, device>>,
           protocol'.listen = protocol.listen, protocol'.mode = protocol.mode,
           LET h == Head(events) IN
           \/ /\ h.type = "SpeechStarted" /\ protocol.state = "LISTENING"
              /\ protocol'.state = "CAPTURING" /\ protocol'.utterance = h.utterance
           \/ h.type = "AudioChunk" /\ protocol.state = "CAPTURING" /\ UNCHANGED protocol
           \/ /\ h.type = "SpeechEnded" /\ protocol.state = "CAPTURING" /\ OpenMic
              /\ protocol'.state = "LISTENING" /\ protocol'.utterance = 0
    PROVE  DeskInv'
<1> DEFINE h == Head(events)
<1> DEFINE q == Tail(events)
<1>h. /\ command = NoCommand /\ Phrase(events, protocol.listen)
      /\ protocol.state = "CAPTURING" <=> protocol.utterance # 0
      /\ ~OpenMic => EndsLast(events)
      /\ HeadFits(h) /\ driver.utterance = SegmentAfter(events[Len(events)])
  BY DEF BoundaryInv, DeskInv, HearingInv
<1>s. events \in Seq(CaptureEvent)
  BY <1>h DEF Phrase
<1>a. \/ Armed /\ (~OpenMic => ~LosesEnd(events))
      \/ IdleDriver /\ ~OpenMic /\ (LosesEnd(events) \/ driver.lost)
  BY DEF BoundaryInv, DeskInv, ArmedInv, Alive, InPhrase, Listens
<1>1. /\ h \in CaptureEvent /\ h.listen = protocol.listen /\ Phrase(q, protocol.listen)
      /\ q # << >> => /\ Follows(SegmentAfter(h), Head(q)) /\ q[Len(q)] = events[Len(events)]
      /\ q = << >> => h = events[Len(events)]
  BY <1>h, PhraseTail
<1>2. h.utterance # 0 /\ h.utterance \in Nat
  BY <1>1 DEF CaptureEvent
<1>3. q # << >> => Head(q).utterance # 0
  <2>1. q \in Seq(CaptureEvent)
    BY <1>1 DEF Phrase
  <2>2. q # << >> => Head(q) \in CaptureEvent
    BY <2>1
  <2> QED
    BY <2>2 DEF CaptureEvent
<1>4. /\ ~OpenMic => EndsLast(q)
      /\ ~LosesEnd(events) => ~LosesEnd(q)
      /\ LosesEnd(events) /\ h.type # "SpeechEnded" => LosesEnd(q)
  BY <1>h, <1>s, LosesEndTail
<1> HIDE DEF h, q
<1>0. /\ events' = q /\ UNCHANGED <<driver, command, device>> /\ OpenMic' = OpenMic
      /\ protocol'.listen = protocol.listen /\ protocol'.mode = protocol.mode
      /\ protocol'.state \in {"LISTENING", "CAPTURING"}
  BY DEF q, h, OpenMic, InPhrase
<1>5. \/ /\ h.type = "SpeechStarted" /\ protocol.state = "LISTENING"
         /\ protocol'.state = "CAPTURING" /\ protocol'.utterance = h.utterance
      \/ h.type = "AudioChunk" /\ protocol.state = "CAPTURING" /\ UNCHANGED protocol
      \/ /\ h.type = "SpeechEnded" /\ protocol.state = "CAPTURING" /\ OpenMic
         /\ protocol'.state = "LISTENING" /\ protocol'.utterance = 0
  BY DEF h
<1>6. protocol'.state = "CAPTURING" <=> protocol'.utterance # 0
  BY <1>2, <1>h, <1>5
<1>7. ASSUME NEW g, g = Head(q), q # << >>
      PROVE  HeadFits(g)'
  <2>1. Follows(SegmentAfter(h), g) /\ g.utterance # 0
    BY <1>1, <1>3, <1>7
  <2>2. CASE h.type = "SpeechStarted"
    BY <1>2, <1>5, <2>1, <2>2 DEF HeadFits, Follows, SegmentAfter
  <2>3. CASE h.type = "AudioChunk"
    <3>1. protocol.state = "CAPTURING" /\ UNCHANGED protocol /\ h.utterance = protocol.utterance
      BY <1>5, <1>h, <2>3 DEF HeadFits
    <3> QED
      BY <1>2, <2>1, <2>3, <3>1 DEF HeadFits, Follows, SegmentAfter
  <2>4. CASE h.type = "SpeechEnded"
    BY <1>5, <2>1, <2>4 DEF HeadFits, Follows, SegmentAfter
  <2> QED
    BY <1>5, <2>2, <2>3, <2>4
<1>8. q = << >> => driver.utterance \in {0, protocol'.utterance}
  BY <1>1, <1>5, <1>h DEF SegmentAfter, HeadFits
<1>9. HearingInv'
  <2>1. q # << >> => driver.utterance = SegmentAfter(q[Len(q)])
    BY <1>1, <1>h
  <2>2. q # << >> => driver'.utterance = SegmentAfter(events'[Len(events')])
    BY <1>0, <2>1
  <2>3. q # << >> => HeadFits(Head(events))'
    BY <1>0, <1>7 DEF HeadFits
  <2> QED
    BY <1>0, <1>1, <1>4, <1>6, <1>8, <1>h, <2>2, <2>3 DEF HearingInv
<1>10. ArmedInv'
  <2>1. CASE Armed /\ (~OpenMic => ~LosesEnd(events))
    BY <1>0, <1>4, <2>1 DEF ArmedInv, Armed
  <2>2. CASE IdleDriver /\ ~OpenMic /\ (LosesEnd(events) \/ driver.lost)
    <3>1. LosesEnd(events') \/ driver'.lost
      BY <1>0, <1>4, <1>5, <2>2
    <3>2. ~Arming("run")'
      BY <1>0, <1>h DEF Arming, NoCommand
    <3> QED
      BY <1>0, <2>2, <3>1, <3>2 DEF ArmedInv, IdleDriver
  <2> QED
    BY <1>a, <2>1, <2>2
<1>11. OpenInv'
  <2>1. ASSUME ~OpenMic, driver.capture
        PROVE  driver.utterance # 0
    <3>1. ~LosesEnd(events)
      BY <1>a, <2>1 DEF IdleDriver
    <3>2. Len(events) \in DOMAIN events /\ events[Len(events)] \in CaptureEvent
      BY <1>s
    <3>3. events[Len(events)].type # "SpeechEnded"
      BY <3>1, <3>2 DEF LosesEnd
    <3> QED
      BY <1>h, <3>2, <3>3 DEF SegmentAfter, CaptureEvent
  <2> QED
    BY <1>0, <2>1 DEF OpenInv
<1>12. RunInv'
  BY <1>0 DEF BoundaryInv, DeskInv, RunInv
<1> QED
  BY <1>0, <1>9, <1>10, <1>11, <1>12
  DEF DeskInv, QuietInv, StoppingInv, PlayingInv, Plays, ArmingInv

\* An event that waits is one the protocol admits, or early speech.
LEMMA AwaitedFits ==
    ASSUME BoundaryInv, Receiving, command = NoCommand, events # << >>, ~driver.down
    PROVE  EventOk(protocol, Head(events)) \/ EarlySpeech(Head(events))
<1> DEFINE h == Head(events)
<1>t. BoundaryTypes /\ TaskInv /\ DeskInv
  BY DEF BoundaryInv
<1>1. Alive
  BY DEF Receiving, Alive, Working
<1>2. CASE protocol.state = "ARMING"
  <2>1. \/ Opens
        \/ h = [type |-> "ListeningStarted", listen |-> protocol.listen, mode |-> protocol.mode]
    BY <1>1, <1>2, <1>t DEF DeskInv, ArmingInv, Arming, NoCommand
  <2> HIDE DEF h
  <2> QED
    BY <1>2, <2>1 DEF Opens, EventOk, EarlySpeech, Correlated, h
<1>3. CASE InPhrase
  <2>1. HeadFits(h) /\ Phrase(events, protocol.listen)
    BY <1>1, <1>3, <1>t DEF DeskInv, HearingInv
  <2>2. h \in CaptureEvent /\ h.listen = protocol.listen
    BY <2>1, PhraseTail
  <2>3. h.type \in CaptureEvents
    BY <2>2 DEF CaptureEvent
  <2> HIDE DEF h
  <2>4. CASE h.type = "SpeechStarted"
    BY <1>3, <2>1, <2>2, <2>4
    DEF HeadFits, EventOk, EarlySpeech, Correlated, InPhrase, OpenMic, h
  <2>5. CASE h.type \in {"AudioChunk", "SpeechEnded"}
    BY <1>3, <2>1, <2>2, <2>5 DEF HeadFits, EventOk, InSegment, Correlated, h
  <2> QED
    BY <2>3, <2>4, <2>5 DEF CaptureEvents
<1>4. CASE protocol.state = "STOPPING"
  <2>1. h = [type |-> "ListeningStopped", listen |-> protocol.listen]
    BY <1>1, <1>4, <1>t DEF DeskInv, StoppingInv, NoCommand
  <2> HIDE DEF h
  <2> QED
    BY <1>4, <2>1 DEF EventOk, Correlated, h
<1>5. CASE protocol.state \in {"PLAYING_CUE", "PLAYING_AUDIO"}
  <2>1. h = [type |-> IF protocol.state = "PLAYING_CUE" THEN "CueFinished" ELSE "PlaybackFinished"]
    BY <1>1, <1>5, <1>t DEF DeskInv, PlayingInv, Plays, NoCommand
  <2> HIDE DEF h
  <2> QED
    BY <1>5, <2>1 DEF EventOk, h
<1>6. protocol.state # "DISARMED"
  BY <1>1, <1>t DEF DeskInv, QuietInv
<1> QED
  BY <1>2, <1>3, <1>4, <1>5, <1>6, <1>t DEF BoundaryTypes, Protocols, InPhrase

\* The manager takes the event that waits.
LEMMA ReceiveKeeps ==
    ASSUME BoundaryInv, Receive
    PROVE  Preserved
<1> DEFINE h == Head(events)
<1>t. /\ BoundaryTypes /\ driver \in Drivers /\ violation \in Refusals /\ events \in Seq(Event)
      /\ protocol \in Protocols /\ manager \in Managers /\ TaskInv
  BY DEF BoundaryInv, BoundaryTypes, Refusals
<1>0. /\ Receiving /\ command = NoCommand /\ events # << >> /\ ~driver.down
      /\ events' = Tail(events) /\ UNCHANGED <<driver, device, used>> /\ command' = NoCommand
  BY DEF Receive, Violated
<1>1. Working /\ Alive
  BY <1>0 DEF Receiving, Working, Alive
<1>2. events' \in Seq(Event) /\ NoCommand \in Commands
  BY <1>0, <1>t, HeadTypes DEF Commands, NoCommand
<1>3. CASE ~EventOk(protocol, h)
  <2>1. /\ manager' \in Managers /\ ~Working' /\ violation' = h.type /\ UNCHANGED protocol
    BY <1>3, <1>t, Violating DEF Receive
  <2>2. BoundaryTypes'
    BY <1>0, <1>2, <1>t, <2>1 DEF BoundaryTypes
  <2>3. h.type = "SpeechStarted"
    BY <1>0, <1>3, AwaitedFits DEF EarlySpeech
  <2> QED
    BY <1>0, <2>1, <2>2, <2>3, BrokenKeeps DEF Preserved, Refusals
<1>4. CASE EventOk(protocol, h)
  <2>1. UNCHANGED violation /\ manager' = Received(h) /\ protocol' = AfterEvent(protocol, h)
    BY <1>4 DEF Receive
  <2>2. manager.then \in Places \/ ~Receiving \/ manager.pc \notin {"stopping", "cue", "speaking"}
    BY <1>1, <1>t DEF TaskInv, NextInv, At, Places
  <2>3. h.type \in {"ListeningStarted", "SpeechStarted", "AudioChunk", "SpeechEnded"}
        \/ manager.pc \in {"stopping", "cue", "speaking"}
    <3>1. h.type \in {"ListeningStarted", "SpeechStarted", "AudioChunk", "SpeechEnded"}
          \/ protocol.state \in {"STOPPING", "PLAYING_CUE", "PLAYING_AUDIO"}
      BY <1>4, Admitted
    <3> QED
      BY <1>0, <1>1, <1>t, <3>1 DEF TaskInv, PlaceInv, Receiving, At
  <2>4. manager' \in Managers
    BY <1>0, <1>t, <2>1, <2>2, <2>3 DEF Received, Managers, Places, Next, By
  <2>5. manager'.pc \in {"waiting", "capturing", "heard"} \/ manager' = manager
        \/ (manager.pc \in {"stopping", "cue", "speaking"} /\ manager'.pc = manager.then)
    BY <1>0, <1>t, <2>1, <2>3 DEF Received, Managers, Places, Next
  <2>6. Working' /\ Alive'
    <3>1. manager.pc \in {"stopping", "cue", "speaking"} => manager.then \notin {"failed", "fatal"}
      BY <1>1, <1>t DEF TaskInv, NextInv, At
    <3>2. manager'.pc \notin {"failed", "fatal"}
      BY <1>1, <2>5, <3>1 DEF Working
    <3> QED
      BY <1>0, <3>2 DEF Working, Alive
  <2>7. h \in Event /\ (h.type \in CaptureEvents => h \in CaptureEvent)
    BY <1>0, <1>t, HeadTypes
  <2>8. protocol' \in Protocols
    <3>1. h.type = "SpeechStarted" => h.utterance \in Nat
      BY <2>7 DEF CaptureEvents, CaptureEvent
    <3> HIDE DEF h
    <3>2. \/ protocol' = [protocol EXCEPT !.state = "LISTENING"]
          \/ /\ h.type = "SpeechStarted"
             /\ protocol' = [protocol EXCEPT !.state = "CAPTURING", !.utterance = h.utterance]
          \/ protocol' = protocol
          \/ protocol' = [protocol EXCEPT !.state = "LISTENING", !.utterance = 0]
          \/ protocol' = Disarmed(protocol)
      BY <1>4, <2>1, Admitted
    <3>3. CASE /\ h.type = "SpeechStarted"
               /\ protocol' = [protocol EXCEPT !.state = "CAPTURING", !.utterance = h.utterance]
      BY <1>t, <3>1, <3>3 DEF Protocols
    <3>4. CASE protocol' = [protocol EXCEPT !.state = "LISTENING"]
      BY <1>t, <3>4 DEF Protocols
    <3>6. CASE protocol' = [protocol EXCEPT !.state = "LISTENING", !.utterance = 0]
      BY <1>t, <3>6 DEF Protocols
    <3>7. CASE protocol' = protocol
      BY <1>t, <3>7
    <3>5. CASE protocol' = Disarmed(protocol)
      BY <1>t, <3>5 DEF Protocols, Disarmed
    <3> QED
      BY <3>2, <3>3, <3>4, <3>5, <3>6, <3>7
  <2>9. BoundaryTypes' /\ FailedInv'
    BY <1>0, <1>2, <1>t, <2>4, <2>6, <2>8 DEF BoundaryTypes, FailedInv
  <2>10. DeskInv'
    <3> HIDE DEF h
    <3>1. CASE h.type = "ListeningStarted" /\ protocol.state = "ARMING"
      <4>1. /\ events = <<[type |-> "ListeningStarted", listen |-> protocol.listen,
                             mode |-> protocol.mode]>>
            /\ driver.utterance = 0 /\ protocol.utterance = 0
        BY <1>0, <1>1, <3>1
        DEF BoundaryInv, DeskInv, ArmingInv, Arming, NoCommand, Opens, h
      <4>2. events' = << >>
        BY <1>0, <4>1
      <4>3. protocol' = [protocol EXCEPT !.state = "LISTENING"]
        BY <1>4, <2>1, <3>1, Admitted
      <4>4. /\ protocol'.state = "LISTENING" /\ protocol'.listen = protocol.listen
            /\ protocol'.mode = protocol.mode /\ protocol'.utterance = 0
        BY <1>t, <4>1, <4>3 DEF Protocols
      <4>5. HearingInv'
        BY <1>0, <4>1, <4>2, <4>4, EmptyPhrase DEF HearingInv
      <4>6. ArmedInv'
        <5>1. ~LosesEnd(events)
          BY <4>1 DEF LosesEnd
        <5>2. Armed \/ (~OpenMic /\ IdleDriver /\ driver.lost)
          BY <1>1, <3>1, <5>1 DEF BoundaryInv, DeskInv, ArmedInv, Listens
        <5>3. ~LosesEnd(events') /\ ~Arming("run")'
          BY <1>0, <4>2, EmptyPhrase DEF Arming, NoCommand
        <5> QED
          BY <1>0, <4>4, <5>2, <5>3 DEF ArmedInv, Armed, OpenMic, IdleDriver
      <4>7. RunInv'
        BY <1>0, <1>1 DEF BoundaryInv, DeskInv, RunInv
      <4> QED
        BY <4>4, <4>5, <4>6, <4>7
        DEF DeskInv, QuietInv, StoppingInv, PlayingInv, Plays, ArmingInv,
            OpenInv
    <3>2. CASE \/ h.type = "SpeechStarted" /\ protocol.state = "LISTENING"
               \/ h.type = "AudioChunk" /\ protocol.state = "CAPTURING"
               \/ h.type = "SpeechEnded" /\ protocol.state = "CAPTURING" /\ OpenMic
      <4>1. \/ h.type = "SpeechStarted" /\ protocol.state = "LISTENING"
               /\ protocol' = [protocol EXCEPT !.state = "CAPTURING", !.utterance = h.utterance]
            \/ h.type = "AudioChunk" /\ protocol.state = "CAPTURING" /\ UNCHANGED protocol
            \/ h.type = "SpeechEnded" /\ protocol.state = "CAPTURING" /\ OpenMic
               /\ protocol' = [protocol EXCEPT !.state = "LISTENING", !.utterance = 0]
        BY <1>4, <2>1, <3>2, Admitted DEF OpenMic
      <4>2. \/ h.type = "SpeechStarted" /\ protocol.state = "LISTENING"
               /\ protocol'.state = "CAPTURING" /\ protocol'.utterance = h.utterance
            \/ h.type = "AudioChunk" /\ protocol.state = "CAPTURING" /\ UNCHANGED protocol
            \/ h.type = "SpeechEnded" /\ protocol.state = "CAPTURING" /\ OpenMic
               /\ protocol'.state = "LISTENING" /\ protocol'.utterance = 0
        BY <1>t, <4>1 DEF Protocols
      <4>3. protocol'.listen = protocol.listen /\ protocol'.mode = protocol.mode
        BY <1>t, <4>1 DEF Protocols
      <4>4. InPhrase /\ UNCHANGED <<driver, command, device>>
        BY <1>0, <4>2 DEF InPhrase
      <4> QED
        BY <1>0, <1>1, <2>6, <4>2, <4>3, <4>4, PhraseKeeps DEF h
    <3>3. CASE \/ h.type = "SpeechEnded" /\ protocol.state = "CAPTURING" /\ ~OpenMic
               \/ protocol.state \in {"STOPPING", "PLAYING_CUE", "PLAYING_AUDIO"}
      <4>1. protocol' = Disarmed(protocol)
        BY <1>4, <2>1, <3>3, Admitted DEF OpenMic, InSegment
      <4>2. protocol'.state = "DISARMED" /\ protocol'.utterance = 0
        BY <1>t, <4>1 DEF Disarmed, Protocols
      <4>3. events' = << >> /\ IdleDriver
        <5>1. CASE h.type = "SpeechEnded" /\ protocol.state = "CAPTURING" /\ ~OpenMic
          <6>1. EndsLast(events)
            BY <1>1, <5>1 DEF BoundaryInv, DeskInv, HearingInv, InPhrase
          <6>2. Tail(events) = << >> /\ LosesEnd(events)
            BY <1>0, <1>t, <5>1, <6>1, LosesEndTail DEF h
          <6> QED
            BY <1>0, <1>1, <5>1, <6>2
            DEF BoundaryInv, DeskInv, ArmedInv, Listens
        <5>2. CASE protocol.state = "STOPPING"
          BY <1>0, <1>1, <5>2 DEF BoundaryInv, DeskInv, StoppingInv, NoCommand
        <5>3. CASE protocol.state \in {"PLAYING_CUE", "PLAYING_AUDIO"}
          BY <1>0, <1>1, <5>3
          DEF BoundaryInv, DeskInv, PlayingInv, Plays, NoCommand
        <5> QED
          BY <3>3, <5>1, <5>2, <5>3
      <4>4. QuietInv' /\ RunInv'
        BY <1>0, <1>1, <4>2, <4>3
        DEF BoundaryInv, DeskInv, QuietInv, RunInv, IdleDriver
      <4> QED
        BY <4>2, <4>4
        DEF DeskInv, StoppingInv, PlayingInv, Plays, ArmingInv, HearingInv,
            InPhrase, ArmedInv, Listens, OpenInv
    <3> QED
      BY <1>4, <3>1, <3>2, <3>3, Admitted DEF InSegment, OpenMic
  <2> QED
    BY <1>t, <2>1, <2>9, <2>10 DEF Preserved
<1> QED
  BY <1>3, <1>4

\* A stop that is sent, and one whose deadline comes with the first event of a segment.
LEMMA StopSentKeeps ==
    ASSUME BoundaryInv, Working, protocol.state \in Listens, InPhrase, NEW next \in Managers,
           next.pc \notin {"failed", "fatal"},
           Send(StopOf(protocol), next), UNCHANGED <<device, used>>
    PROVE  Preserved
<1>t. BoundaryTypes /\ protocol \in Protocols /\ violation \in Refusals
  BY DEF BoundaryInv, BoundaryTypes, Refusals
<1>1. CASE /\ ~driver.down /\ protocol' = [protocol EXCEPT !.state = "STOPPING"]
           /\ Enter(StopOf(protocol), next) /\ UNCHANGED violation
  <2>1. protocol' \in Protocols /\ protocol'.state = "STOPPING" /\ protocol'.listen = protocol.listen
    BY <1>1, <1>t DEF Protocols
  <2>2. Alive
    BY <1>1 DEF Alive
  <2> QED
    BY <1>1, <2>1, <2>2, StopKeeps
<1>2. CASE Breaks /\ violation' \in {violation, "StopListening"}
  BY <1>2, <1>t, BreaksKeeps DEF BoundaryTypes, Refusals
<1> QED
  BY <1>1, <1>2, <1>t, SendingStop

LEMMA DeadlineKeeps ==
    ASSUME BoundaryInv, DeadlinePasses
    PROVE  Preserved
<1> DEFINE h == Head(events)
<1> DEFINE p == AfterEvent(protocol, h)
<1> DEFINE next == NextThen("stopping", "timeout_cue")
<1>t. /\ BoundaryTypes /\ protocol \in Protocols /\ violation \in Refusals /\ TaskInv
      /\ manager \in Managers /\ driver \in Drivers /\ events \in Seq(Event)
  BY DEF BoundaryInv, BoundaryTypes, Refusals
<1>0. At("waiting") /\ command = NoCommand /\ ~driver.down /\ UNCHANGED <<device, used>>
  BY DEF DeadlinePasses
<1>1. Working /\ Alive /\ InPhrase /\ protocol.state = "LISTENING" /\ protocol.state \in Listens
  BY <1>0, <1>t DEF TaskInv, PlaceInv, Working, Alive, At, InPhrase, Listens
<1>2. next \in Managers /\ next.pc \notin {"failed", "fatal"}
  BY <1>t DEF Managers, Places, NextThen
<1> HIDE DEF next
<1>3. CASE Send(StopOf(protocol), next)
  BY <1>0, <1>1, <1>2, <1>3, StopSentKeeps
<1>4. CASE /\ events # << >> /\ EventOk(protocol, h)
           /\ protocol' = AfterCommand(p, StopOf(p))
           /\ \/ Enter(StopOf(p), next) /\ UNCHANGED violation
              \/ Violated("StopListening") /\ UNCHANGED <<driver, events>>
  <2>1. h.type = "SpeechStarted"
        /\ p = [protocol EXCEPT !.state = "CAPTURING", !.utterance = h.utterance]
    BY <1>1, <1>4, Admitted DEF InSegment
  <2>2. h.utterance \in Nat
    BY <1>4, <1>t, <2>1, HeadTypes DEF CaptureEvent, CaptureEvents
  <2> HIDE DEF h, p
  <2>3. p \in Protocols /\ p.listen = protocol.listen
    BY <1>t, <2>1, <2>2 DEF Protocols
  <2>4. StopOf(p) = StopOf(protocol) /\ protocol' = [p EXCEPT !.state = "STOPPING"]
    BY <1>4, <2>3 DEF StopOf, AfterCommand
  <2>5. protocol' \in Protocols /\ protocol'.state = "STOPPING" /\ protocol'.listen = protocol.listen
    BY <2>3, <2>4 DEF Protocols
  <2>6. CASE Enter(StopOf(p), next) /\ UNCHANGED violation
    BY <1>0, <1>1, <1>2, <2>4, <2>5, <2>6, StopKeeps
  <2>7. CASE Violated("StopListening") /\ UNCHANGED <<driver, events>>
    <3>1. Breaks /\ violation' = "StopListening"
      BY <1>t, <2>5, <2>7, Violating DEF Breaks
    <3> QED
      BY <1>0, <1>t, <3>1, BreaksKeeps DEF BoundaryTypes, Refusals
  <2> QED
    BY <1>4, <2>6, <2>7
<1> QED
  BY <1>3, <1>4 DEF DeadlinePasses, next

LEMMA EarlyStopKeeps ==
    ASSUME BoundaryInv, OpenMicAccepted \/ CollectorCancelled
    PROVE  Preserved
<1>t. manager \in Managers /\ TaskInv
  BY DEF BoundaryInv, BoundaryTypes
<1>0. Working
  BY DEF OpenMicAccepted, CollectorCancelled, At, Working
<1>1. CASE OpenMicAccepted
  <2> DEFINE next == NextThen("stopping", "accept_cue")
  <2>1. next \in Managers /\ next.pc \notin {"failed", "fatal"}
    BY <1>t DEF Managers, Places, NextThen
  <2>2. protocol.state = "LISTENING"
    BY <1>0, <1>1, <1>t DEF OpenMicAccepted, TaskInv, PlaceInv
  <2>3. Send(StopOf(protocol), next) /\ UNCHANGED <<device, used>>
    BY <1>1 DEF OpenMicAccepted
  <2> QED
    BY <1>0, <2>1, <2>2, <2>3, StopSentKeeps DEF Listens, InPhrase
<1>2. CASE CollectorCancelled /\ protocol.state \in Listens
  <2> DEFINE next == NextThen("stopping", "visual_idle")
  <2>1. next \in Managers /\ next.pc \notin {"failed", "fatal"}
    BY <1>t DEF Managers, Places, NextThen
  <2>2. InPhrase
    BY <1>0, <1>2, <1>t
    DEF CollectorCancelled, TaskInv, PlaceInv, At, By, InPhrase, Listens
  <2>3. Send(StopOf(protocol), next) /\ UNCHANGED <<device, used>>
    BY <1>2 DEF CollectorCancelled, Listens
  <2> QED
    BY <1>0, <1>2, <2>1, <2>2, <2>3, StopSentKeeps
<1>3. CASE CollectorCancelled /\ protocol.state \notin Listens
  <2>1. /\ manager' = Next("visual_idle")
        /\ UNCHANGED <<protocol, command, driver, events, device, used, violation>>
    BY <1>3 DEF CollectorCancelled, Listens
  <2>2. manager' \in Managers /\ Working'
    BY <1>t, <2>1 DEF Next, Managers, Places, Working
  <2> QED
    BY <1>0, <2>1, <2>2, MoveKeeps
<1> QED
  BY <1>1, <1>2, <1>3

\* In open mic the driver still listens for the generation whose segment was rejected.
LEMMA RejectKeeps ==
    ASSUME BoundaryInv, OpenMicRejected
    PROVE  Preserved
<1>t. manager \in Managers /\ TaskInv
  BY DEF BoundaryInv, BoundaryTypes
<1>0. Working /\ protocol.state = "LISTENING"
  BY <1>t DEF OpenMicRejected, At, Working, TaskInv, PlaceInv
<1>1. OpenMic
  BY <1>0, <1>t
  DEF OpenMicRejected, TaskInv, ModeInv, Listens, OpenMic, NewMode
<1>2. driver.listen = protocol.listen
  BY <1>0, <1>1 DEF BoundaryInv, DeskInv, ArmedInv, Armed, Listens
<1>3. /\ manager' = Next("waiting")
      /\ UNCHANGED <<protocol, command, driver, events, device, used, violation>>
  BY <1>0, <1>2 DEF OpenMicRejected, CommandOk
<1>4. manager' \in Managers /\ Working'
  BY <1>t, <1>3 DEF Next, Managers, Places, Working
<1> QED
  BY <1>0, <1>3, <1>4, MoveKeeps

LEMMA PlayKeeps ==
    ASSUME BoundaryInv,
           \/ Heard \/ AcceptCue \/ TimeoutCue \/ Speak \/ PlayFollowUpCue
           \/ FollowUpHeard \/ ConversationEnds
    PROVE  Preserved
<1>t. manager \in Managers /\ TaskInv /\ used \in Counters
  BY DEF BoundaryInv, BoundaryTypes
<1> USE DEF At, By, Next, NextThen
<1>0. Working
  BY DEF Heard, AcceptCue, TimeoutCue, Speak, PlayFollowUpCue, FollowUpHeard,
      ConversationEnds, Working
<1>1. ASSUME Heard \/ AcceptCue \/ TimeoutCue \/ Speak \/ PlayFollowUpCue
      PROVE  protocol.state = "DISARMED"
  BY <1>0, <1>1, <1>t
  DEF TaskInv, PlaceInv, Receiving, Heard, AcceptCue, TimeoutCue, Speak,
      PlayFollowUpCue
<1>2. ASSUME NEW t \in {"PlayCue", "Playback"}, NEW next \in Managers,
             next.pc \notin {"failed", "fatal"}, protocol.state = "DISARMED",
             Send([type |-> t, phase |-> "none"], next), UNCHANGED device, used' \in Counters
      PROVE  Preserved
  BY <1>0, <1>2, OutputKeeps
<1>3. ASSUME manager' \in Managers, Working',
             UNCHANGED <<protocol, command, driver, events, device, used, violation>>
      PROVE  Preserved
  BY <1>0, <1>3, MoveKeeps
<1>4. CASE Heard
  <2> DEFINE next == [manager EXCEPT !.pc = "cue", !.then = "conversation"]
  <2>1. next \in Managers /\ next.pc \notin {"failed", "fatal"}
    BY <1>t DEF Managers, Places
  <2>2. CASE Send(PlayCue, next)
    BY <1>1, <1>2, <1>4, <1>t, <2>1, <2>2 DEF Heard, PlayCue
  <2>3. CASE /\ manager' = Next("visual_idle")
             /\ UNCHANGED <<protocol, command, driver, events, violation>>
    BY <1>3, <1>4, <1>t, <2>3 DEF Heard, Managers, Places, Working
  <2> QED
    BY <1>4, <2>2, <2>3 DEF Heard
<1>5. CASE AcceptCue
  <2> DEFINE next == [manager EXCEPT !.pc = "cue", !.then = "conversation"]
  <2>1. next \in Managers /\ next.pc \notin {"failed", "fatal"}
    BY <1>t DEF Managers, Places
  <2> QED
    BY <1>1, <1>2, <1>5, <1>t, <2>1 DEF AcceptCue, PlayCue
<1>6. CASE TimeoutCue
  <2> DEFINE next == [manager EXCEPT !.pc = "cue", !.then = "visual_idle"]
  <2>1. next \in Managers /\ next.pc \notin {"failed", "fatal"}
    BY <1>t DEF Managers, Places
  <2> QED
    BY <1>1, <1>2, <1>6, <1>t, <2>1 DEF TimeoutCue, PlayCue
<1>7. CASE Speak
  <2> DEFINE next == [manager EXCEPT !.pc = "speaking", !.by = "bridge", !.then = "conversation"]
  <2>1. next \in Managers /\ next.pc \notin {"failed", "fatal"}
    BY <1>t DEF Managers, Places
  <2>2. used' \in Counters
    BY <1>7, <1>t DEF Speak, Count, Counters
  <2> QED
    BY <1>1, <1>2, <1>7, <1>t, <2>1, <2>2 DEF Speak
<1>8. CASE PlayFollowUpCue
  <2> DEFINE next == [manager EXCEPT !.pc = "cue", !.by = "bridge", !.then = "follow_arm",
                                     !.asked = TRUE]
  <2>1. next \in Managers /\ next.pc \notin {"failed", "fatal"}
    BY <1>t DEF Managers, Places
  <2> QED
    BY <1>1, <1>2, <1>8, <1>t, <2>1 DEF PlayFollowUpCue, PlayCue
<1>9. CASE FollowUpHeard \/ ConversationEnds
  <2>1. /\ UNCHANGED <<protocol, command, driver, events, device, used, violation>>
        /\ \/ manager' = [manager EXCEPT !.pc = "conversation", !.by = "bridge"]
           \/ manager' = [manager EXCEPT !.pc = "timeout_cue"]
           \/ manager' = [manager EXCEPT !.pc = "visual_idle"]
    BY <1>9 DEF FollowUpHeard, ConversationEnds
  <2>2. manager' \in Managers /\ Working'
    BY <1>t, <2>1 DEF Managers, Places, Working
  <2> QED
    BY <1>3, <2>1, <2>2
<1> QED
  BY <1>4, <1>5, <1>6, <1>7, <1>8, <1>9

LEMMA CallbackKeeps ==
    ASSUME BoundaryInv, DeviceStep
    PROVE  Preserved
<1>1. UNCHANGED <<manager, command, violation>>
  BY DEF DeviceStep, DeviceStarts, LoudAudio, QuietAudio, DeviceStops
<1>2. FailedInv' /\ violation' \in Refusals
  BY <1>1 DEF BoundaryInv, FailedInv, Working, Refusals
<1> QED
  BY <1>2, DeviceTypes, DeviceKeeps DEF BoundaryInv, Preserved

LEMMA StutterKeeps ==
    ASSUME BoundaryInv, UNCHANGED vars
    PROVE  Preserved
<1>1. BoundaryTypes' /\ FailedInv' /\ violation' \in Refusals
  BY DEF vars, BoundaryInv, BoundaryTypes, FailedInv, Working, Refusals
<1>2. DeskInv'
  BY DEF vars, BoundaryInv, DeskInv, QuietInv, StoppingInv, PlayingInv, Plays,
      ArmingInv, HearingInv, ArmedInv, OpenInv, RunInv, Working, Alive,
      OpenMic, Arming, Opens, IdleDriver, InPhrase, HeadFits, Armed
<1> QED
  BY <1>1, <1>2 DEF Preserved

-----------------------------------------------------------------------------
(* The invariant.                                                           *)

LEMMA BoundaryStep ==
    ASSUME BoundaryInv, [BoundaryNext]_vars
    PROVE  BoundaryInv'
<1>1. TaskInv'
  BY PlaceStep DEF BoundaryInv
<1> SUFFICES Preserved
  BY <1>1 DEF BoundaryInv, Preserved, Refusals
<1>2. CASE DriverStep
  BY <1>2, RunKeeps, ServiceKeeps DEF DriverStep
<1>3. CASE ManagerStep
  BY <1>3, IdleKeeps, ArmKeeps, ReceiveKeeps, FailureKeeps, PlayKeeps,
     EarlyStopKeeps, RejectKeeps, RecoverKeeps
  DEF ManagerStep
<1>4. CASE BridgeStep
  BY <1>4, PlayKeeps, DeadlineKeeps, EarlyStopKeeps DEF BridgeStep
<1>5. CASE DeviceStep \/ TransportStops \/ CommandFails \/ BecomesIdleFails \/ UNCHANGED vars
  BY <1>5, CallbackKeeps, TransportKeeps, FailureKeeps, StutterKeeps
<1> QED
  BY <1>2, <1>3, <1>4, <1>5 DEF BoundaryNext

LEMMA BoundaryInvariance == BoundarySpec => []BoundaryInv
<1>1. BoundaryInit => BoundaryInv
  BY InitKeeps
<1>2. BoundaryInv /\ [BoundaryNext]_vars => BoundaryInv'
  BY BoundaryStep
<1> QED
  BY <1>1, <1>2, PTL DEF BoundarySpec

-----------------------------------------------------------------------------
(* What follows.                                                            *)

\* The light shows PROCESSING for as long as the assistant's speech or a processing update
\* is played, whatever the device and the bridge do and whenever the boundary is recreated
\* (manager.py 598-708).
THEOREM PlaybackStaysLit == BoundarySpec => []PlaybackShowsProcessing
<1>1. BoundaryInv => PlaybackShowsProcessing
  BY DEF BoundaryInv, TaskInv, LightInv, PlaybackShowsProcessing
<1> QED
  BY <1>1, BoundaryInvariance, PTL

\* A manager that waits for speech, with nothing queued, has a driver that captures for the
\* very generation it waits for, unless an arm has dropped the end of a segment
\* (box3_esphome.py 198-215, 477-490).
THEOREM ArmedMicrophonesHear == BoundarySpec => []ArmedMeansHearing
<1>1. BoundaryInv => ArmedMeansHearing
  <2> SUFFICES ASSUME BoundaryInv, ~driver.lost, protocol.state = "LISTENING", events = << >>,
                      At("waiting")
               PROVE  driver.capture /\ driver.listen = protocol.listen /\ driver.mode = protocol.mode
    BY DEF ArmedMeansHearing, ListeningStartedIsTrue
  <2>1. Working /\ ~LosesEnd(events)
    BY EmptyPhrase DEF Working, At
  <2> QED
    BY <2>1 DEF BoundaryInv, DeskInv, ArmedInv, Armed, Listens
<1> QED
  BY <1>1, BoundaryInvariance, PTL

\* The protocol refuses no event but early speech, neither one it has refused nor the next it
\* will be given, and the driver no command but a late stop: whatever callbacks come between
\* two awaits, no event of a stopped generation, of another segment or of a finished cue
\* reaches the manager (protocol.py 56-209).
THEOREM OnlyKnownRefusals == BoundarySpec => []OnlyEarlySpeechOrLateStop
<1>1. BoundaryInv => OnlyEarlySpeechOrLateStop
  <2> SUFFICES ASSUME BoundaryInv, NEW e \in Awaited
               PROVE  EventOk(protocol, e) \/ EarlySpeech(e)
    BY DEF OnlyEarlySpeechOrLateStop, BoundaryInv
  <2>1. EventWaits /\ ~driver.down /\ e = Head(events)
    BY DEF Awaited
  <2> QED
    BY <2>1, AwaitedFits DEF EventWaits
<1> QED
  BY <1>1, BoundaryInvariance, PTL

=============================================================================
