------------------------- MODULE MicrophoneBoundary -------------------------
(***************************************************************************)
(* One microphone: the satellite device, the Box-3 driver that turns its    *)
(* callbacks into events, the protocol state that checks every command and  *)
(* event, and the manager's side of it - one task at a time that arms,      *)
(* captures, plays cues and speech, presents follow-ups and, after any      *)
(* failure, closes the driver and starts over.                              *)
(*                                                                         *)
(* A command of the driver is one step up to its first await and one step   *)
(* per await after it; the device's callbacks run in between.  Audio is     *)
(* loud (long enough to be speech) or quiet (long enough to end it).  A     *)
(* change of the visual state is merged into the step that follows it,      *)
(* except for the first one after a (re)connection.                         *)
(***************************************************************************)
EXTENDS MicrophoneProtocol, Sequences, FiniteSets

CONSTANTS
    MaxListens,     \* bound on the listening generations
    MaxStreams,     \* bound on the audio streams the device starts
    MaxUtterances,  \* bound on the segments of speech
    MaxQueue,       \* bound on the events queued when more audio is accepted
    MaxTurns,       \* bound on what is spoken in all
    MaxFailures     \* bound on transport and service failures

ASSUME BoundaryAssumption ==
    {MaxListens, MaxStreams, MaxUtterances, MaxQueue, MaxTurns, MaxFailures} \subseteq Nat

VARIABLES
    protocol,       \* MicrophoneProtocolState
    manager,        \* the task that uses the microphone: where it is, who it is, what is next
    command,        \* the command the driver is executing
    driver,         \* fields of Box3EsphomeMicrophone
    events,         \* its event queue
    device,         \* whether the satellite streams audio
    visual,         \* the last visual state the manager set
    used,           \* counters of the bounds
    violation       \* the kind of the last protocol violation

vars == <<protocol, manager, command, driver, events, device, visual, used, violation>>

NewMode == IF manager.open THEN "OPEN_MIC" ELSE "WAKE_WORD"
\* The manager starts over; open tells whether new conversations are listened for in
\* OPEN_MIC, asked whether the conversation has had its follow-up.
Fresh(open) == [pc |-> "visual_idle", by |-> "acceptor", then |-> "none", asked |-> FALSE,
                open |-> open]
NoCommand == [type |-> "none"]
NewDriver == [listen |-> 0, mode |-> "none", utterance |-> 0, capture |-> FALSE,
              run |-> FALSE, runEnded |-> FALSE, done |-> FALSE, audioEnded |-> FALSE,
              speech |-> FALSE, connected |-> FALSE, down |-> FALSE, lost |-> FALSE]

BoundaryInit ==
    /\ protocol = NewProtocol
    /\ manager \in {Fresh(open) : open \in BOOLEAN}
    /\ command = NoCommand /\ driver = NewDriver /\ events = << >>
    /\ device = "idle" /\ visual = "none"
    /\ used = [listens |-> 0, utterances |-> 0, streams |-> 0, turns |-> 0, failures |-> 0]
    /\ violation = "none"

Receiving == manager.pc \in {"arming", "waiting", "capturing", "stopping", "cue", "speaking"}

Count(what) == used' = [used EXCEPT ![what] = @ + 1]
At(pc) == manager.pc = pc
Goto(pc) == manager' = [manager EXCEPT !.pc = pc]

-----------------------------------------------------------------------------
(* The driver's callbacks.                                                  *)

\* A stream that starts while capture is armed resets the segment and drops every
\* queued event; otherwise it is ignored.
HandleStart ==
    IF driver.capture
    THEN /\ driver' = [driver EXCEPT !.speech = FALSE, !.audioEnded = FALSE,
                                     !.runEnded = FALSE, !.run = TRUE, !.done = FALSE]
         /\ events' = << >>
    ELSE UNCHANGED <<driver, events>>

SpeechEnd(d) == [type |-> "SpeechEnded", listen |-> d.listen, utterance |-> d.utterance]

\* _queue_speech_ended(): outside open mic the end of the segment disarms the driver.
QueueSpeechEnded(d) ==
    /\ events' = IF d.utterance = 0 THEN events ELSE Append(events, SpeechEnd(d))
    /\ driver' = IF d.utterance = 0 THEN d
                 ELSE IF d.mode = "OPEN_MIC" THEN [d EXCEPT !.utterance = 0]
                 ELSE [d EXCEPT !.utterance = 0, !.listen = 0, !.mode = "none",
                                !.capture = FALSE]

\* _finish_audio_stream(): an open-mic segment ends without the stream.
FinishAudioStream(d) ==
    IF d.audioEnded
    THEN driver' = d /\ UNCHANGED events
    ELSE IF d.mode = "OPEN_MIC" /\ ~d.done
    THEN QueueSpeechEnded([d EXCEPT !.speech = FALSE])
    ELSE QueueSpeechEnded([d EXCEPT !.audioEnded = TRUE])

\* Seeded fault: the stop of the stream is not taken for the end of the segment.
StopKeepsSegment == driver' = [driver EXCEPT !.done = TRUE, !.run = FALSE] /\ UNCHANGED events

HandleStop ==
    LET d == [driver EXCEPT !.done = TRUE, !.run = FALSE]
    IN IF driver.capture THEN FinishAudioStream(d) ELSE driver' = d /\ UNCHANGED events

Hearing == driver.capture /\ ~driver.audioEnded

Chunk(u) == [type |-> "AudioChunk", listen |-> driver.listen, utterance |-> u]

\* _handle_audio() with speech: the first of it opens a segment and flushes the
\* pre-roll; a segment still open, or speech that belongs to none, makes the callback
\* fail an assertion and changes nothing.
HandleLoud ==
    IF ~Hearing
    THEN UNCHANGED <<driver, events, used>>
    ELSE IF driver.speech
    THEN /\ events' = IF driver.utterance = 0 THEN events
                      ELSE Append(events, Chunk(driver.utterance))
         /\ UNCHANGED <<driver, used>>
    ELSE IF driver.utterance # 0
    THEN UNCHANGED <<driver, events, used>>
    ELSE LET u == used.utterances + 1
         IN /\ driver' = [driver EXCEPT !.speech = TRUE, !.utterance = u]
            /\ events' = events \o <<[type |-> "SpeechStarted", listen |-> driver.listen,
                                       utterance |-> u], Chunk(u)>>
            /\ Count("utterances")

\* _handle_audio() with silence: it ends a segment, or, outside open mic, the wait for
\* its beginning.
HandleQuiet ==
    IF Hearing /\ (driver.speech \/ driver.mode # "OPEN_MIC")
    THEN FinishAudioStream(driver) ELSE UNCHANGED <<driver, events>>

-----------------------------------------------------------------------------
(* The device.                                                              *)

Live == driver.connected /\ ~driver.down

\* A segment opens after 0.2 s of speech (SPEECH_START_SECONDS); by then the manager has
\* taken an event that waits for it.
EventWaits == Receiving /\ command = NoCommand /\ events # << >>

\* The wake word is heard, the button is pressed, or a service started the stream.
DeviceStarts ==
    /\ device = "idle" /\ Live /\ used.streams < MaxStreams
    /\ device' = "streaming"
    /\ HandleStart
    /\ Count("streams")
    /\ UNCHANGED <<protocol, manager, command, visual, violation>>

LoudAudio ==
    /\ device = "streaming" /\ Live /\ Len(events) < MaxQueue
    /\ (Hearing /\ ~driver.speech)
       => ~EventWaits /\ used.utterances < MaxUtterances
    /\ HandleLoud
    /\ UNCHANGED <<protocol, manager, command, device, visual, violation>>

QuietAudio ==
    /\ device = "streaming" /\ Live
    /\ HandleQuiet
    /\ UNCHANGED <<protocol, manager, command, device, visual, used, violation>>

DeviceStops ==
    /\ device = "streaming" /\ Live
    /\ device' = "idle"
    /\ HandleStop
    /\ UNCHANGED <<protocol, manager, command, visual, used, violation>>

TransportStops ==
    /\ Live /\ used.failures < MaxFailures
    /\ driver' = [driver EXCEPT !.down = TRUE]
    /\ events' = Append(events, [type |-> "MicrophoneUnavailable"])
    /\ device' = "idle"
    /\ Count("failures")
    /\ UNCHANGED <<protocol, manager, command, visual, violation>>

-----------------------------------------------------------------------------
(* Failures.  An assertion in a task of the bridge is fatal to the process;  *)
(* every other failure recreates the boundary.                              *)

Failed == Goto("failed") /\ command' = NoCommand

Violated(kind) ==
    /\ violation' = kind
    /\ command' = NoCommand
    /\ Goto(IF manager.by = "bridge" THEN "fatal" ELSE "failed")

\* _mark_disconnected()
Disconnected(d) == [d EXCEPT !.connected = FALSE]

-----------------------------------------------------------------------------
(* send_output_event(): the parts up to the first await and after it.       *)

\* The driver's own assertions on a command.
DriverTakes(c) ==
    CASE c.type \in {"StartListening", "Playback"} -> driver.listen = 0
      [] c.type = "StopListening" -> c.listen = driver.listen
      [] OTHER -> TRUE

CaptureEvents == {"SpeechStarted", "AudioChunk", "SpeechEnded"}

\* Seeded fault: capture is left to the device's start.
EnteredWithoutCapture(c) ==
    CASE c.type = "StartListening" -> [driver EXCEPT !.listen = c.listen, !.mode = c.mode]
      [] c.type = "StopListening" -> [driver EXCEPT !.capture = FALSE]
      [] OTHER -> driver

\* Seeded fault: a stop leaves the audio of its generation in the queue.
RetainedAll(c) == events

\* What a command does at once to the fields and to the queue.
Entered(c) ==
    CASE c.type = "StartListening" ->
            [driver EXCEPT !.listen = c.listen, !.mode = c.mode, !.capture = TRUE]
      [] c.type = "StopListening" -> [driver EXCEPT !.capture = FALSE]
      [] OTHER -> driver

\* A stop takes the capture events of its generation out of the queue, where the others
\* keep their order.
Kept(c) == {i \in DOMAIN events :
              ~(events[i].type \in CaptureEvents /\ events[i].listen = c.listen)}

Retained(c) ==
    IF c.type = "StopListening"
    THEN [k \in 1..Cardinality(Kept(c)) |->
            events[CHOOSE i \in Kept(c) : Cardinality({j \in Kept(c) : j <= i}) = k]]
    ELSE events

\* History: a drain drops the end of a segment that nobody has received.
LosesEnd(queue) == \E i \in DOMAIN queue : queue[i].type = "SpeechEnded"

\* After the device's run is finished: the queue is drained and the generation is
\* started or stopped; a start by service still has that service to call.
AfterRun(c, d, queue) ==
    IF c.type = "StopListening"
    THEN /\ driver' = [d EXCEPT !.listen = 0, !.mode = "none", !.utterance = 0]
         /\ events' = Append(queue, [type |-> "ListeningStopped", listen |-> c.listen])
         /\ command' = NoCommand
    ELSE /\ driver' = [d EXCEPT !.lost = LosesEnd(queue)]
         /\ IF c.mode = "WAKE_WORD"
            THEN /\ events' = <<[type |-> "ListeningStarted", listen |-> c.listen,
                                  mode |-> c.mode]>>
                 /\ command' = NoCommand
            ELSE events' = << >> /\ command' = [c EXCEPT !.phase = "service"]

\* A run that was ended and whose stream has not stopped cannot be re-armed.
Stale(d) == d.runEnded /\ ~d.done

Enter(c, next) ==
    LET d == Entered(c) queue == Retained(c)
    IN IF c.type \in {"PlayCue", "Playback"}
       THEN /\ command' = [c EXCEPT !.phase = "service"] /\ manager' = next
            /\ UNCHANGED <<driver, events>>
       ELSE IF d.run
       THEN /\ command' = [c EXCEPT !.phase = "run"] /\ manager' = next
            /\ driver' = d /\ events' = queue
       ELSE IF Stale(d)
       THEN Failed /\ driver' = Disconnected(d) /\ UNCHANGED events
       ELSE AfterRun(c, d, queue) /\ manager' = next

\* _send_command(): the protocol, then the driver, then its transport.
Send(c, next) ==
    IF ~CommandOk(protocol, c)
    THEN Violated(c.type) /\ UNCHANGED <<protocol, driver, events>>
    ELSE /\ protocol' = AfterCommand(protocol, c)
         /\ IF driver.down
            THEN Failed /\ UNCHANGED <<driver, events, violation>>
            ELSE IF ~DriverTakes(c)
            THEN Violated(c.type) /\ UNCHANGED <<driver, events>>
            ELSE Enter(c, next) /\ UNCHANGED violation

Executing(phase) == command # NoCommand /\ command.phase = phase

\* _finish_voice_assistant_run(): the stop callback has arrived or its time is up.
RunFinishes ==
    /\ Executing("run") /\ Live
    /\ LET d == [driver EXCEPT !.run = FALSE, !.runEnded = TRUE]
       IN IF Stale(d)
          THEN Failed /\ driver' = Disconnected(d) /\ UNCHANGED events
          ELSE AfterRun(command, d, events) /\ UNCHANGED manager
    /\ UNCHANGED <<protocol, device, visual, used, violation>>

Answer(c) ==
    CASE c.type = "StartListening" ->
            [type |-> "ListeningStarted", listen |-> c.listen, mode |-> c.mode]
      [] c.type = "PlayCue" -> [type |-> "CueFinished"]
      [] c.type = "Playback" -> [type |-> "PlaybackFinished"]

\* The service has been called, or the playback has drained.
ServiceReturns ==
    /\ Executing("service") /\ Live
    /\ events' = Append(events, Answer(command))
    /\ command' = NoCommand
    /\ UNCHANGED <<protocol, manager, driver, device, visual, used, violation>>

\* A call of a service, the connection or the playback fails.
MayFail == driver.down \/ used.failures < MaxFailures
CountFailure ==
    used' = [used EXCEPT !.failures = IF driver.down THEN @ ELSE @ + 1]

CommandFails ==
    /\ command # NoCommand /\ MayFail
    /\ CountFailure
    /\ Failed /\ driver' = Disconnected(driver)
    /\ UNCHANGED <<protocol, events, device, visual, violation>>

-----------------------------------------------------------------------------
(* The manager.                                                             *)

Shows(state) == visual' = state
By(task) == manager.by = task
Next(pc) == [manager EXCEPT !.pc = pc]
NextThen(pc, then) == [manager EXCEPT !.pc = pc, !.then = then]

\* SetVisualState(IDLE), which also connects; then the acceptor starts over.
BecomesIdle ==
    /\ At("visual_idle") /\ ~driver.down
    /\ driver' = [driver EXCEPT !.connected = TRUE]
    /\ Shows("IDLE")
    /\ manager' = [manager EXCEPT !.pc = "arm", !.by = "acceptor", !.asked = FALSE]
    /\ UNCHANGED <<protocol, command, events, device, used, violation>>

BecomesIdleFails ==
    /\ At("visual_idle") /\ MayFail
    /\ CountFailure
    /\ Failed /\ driver' = Disconnected(driver)
    /\ UNCHANGED <<protocol, events, device, visual, violation>>

StartListening(mode) ==
    [type |-> "StartListening", listen |-> used.listens + 1, mode |-> mode, phase |-> "none"]

\* _begin_new_conversation_listening(), _present_follow_up_listening()
Arm ==
    /\ At("arm") \/ At("follow_arm")
    /\ used.listens < MaxListens
    /\ Count("listens")
    /\ Send(StartListening(IF At("arm") THEN NewMode ELSE "FOLLOW_UP"), Next("arming"))
    /\ UNCHANGED <<device, visual>>

\* Where the manager goes with an event the protocol admits.
Received(e) ==
    CASE e.type = "ListeningStarted" ->
            [manager EXCEPT !.pc = "waiting", !.by = IF By("bridge") THEN "collector" ELSE @]
      [] e.type = "SpeechStarted" -> Next("capturing")
      [] e.type = "AudioChunk" -> manager
      [] e.type = "SpeechEnded" -> Next("heard")
      [] OTHER -> [manager EXCEPT !.pc = manager.then, !.then = "none"]

\* _receive_event(): wait_for_event(), then the protocol.
Receive ==
    /\ Receiving /\ command = NoCommand /\ events # << >> /\ ~driver.down
    /\ LET e == Head(events)
       IN IF EventOk(protocol, e)
          THEN /\ protocol' = AfterEvent(protocol, e)
               /\ manager' = Received(e)
               /\ visual' = IF e.type = "SpeechStarted" /\ protocol.mode # "OPEN_MIC"
                            THEN "LISTENING" ELSE visual
               /\ UNCHANGED <<command, violation>>
          ELSE Violated(e.type) /\ UNCHANGED <<protocol, visual>>
    /\ events' = Tail(events)
    /\ UNCHANGED <<driver, device, used>>

ReceiveFails ==
    /\ Receiving /\ command = NoCommand /\ driver.down
    /\ Failed
    /\ UNCHANGED <<protocol, driver, events, device, visual, used, violation>>

\* The acknowledgement of an arm, or the next event of an open-mic segment, is late.
ReceiveTimesOut ==
    /\ command = NoCommand /\ events = << >>
    /\ At("arming") \/ (At("capturing") /\ protocol.mode = "OPEN_MIC")
    /\ Failed
    /\ UNCHANGED <<protocol, driver, events, device, visual, used, violation>>

StopOf(p) == [type |-> "StopListening", listen |-> p.listen, phase |-> "none"]

\* The follow-up deadline passes.  An event received after it has changed the protocol
\* and is then dropped.
DeadlinePasses ==
    /\ At("waiting") /\ By("collector") /\ command = NoCommand /\ ~driver.down
    /\ \/ /\ Send(StopOf(protocol), NextThen("stopping", "timeout_cue"))
       \/ /\ events # << >> /\ EventOk(protocol, Head(events))
          /\ LET p == AfterEvent(protocol, Head(events))
             IN /\ protocol' = AfterCommand(p, StopOf(p))
                /\ IF DriverTakes(StopOf(p))
                   THEN Enter(StopOf(p), NextThen("stopping", "timeout_cue")) /\ UNCHANGED violation
                   ELSE Violated("StopListening") /\ UNCHANGED <<driver, events>>
    /\ UNCHANGED <<device, visual, used>>

PlayCue == [type |-> "PlayCue", phase |-> "none"]

\* A wake-word utterance is accepted with a cue, or was empty.
Heard ==
    /\ At("heard") /\ By("acceptor") /\ ~manager.open
    /\ \/ /\ Shows("PROCESSING")
          /\ Send(PlayCue, [manager EXCEPT !.pc = "cue", !.then = "conversation"])
       \/ /\ manager' = Next("visual_idle")
          /\ UNCHANGED <<protocol, command, driver, events, visual, violation>>
    /\ UNCHANGED <<device, used>>

\* An open-mic utterance is accepted: listening is stopped before the cue.
OpenMicAccepted ==
    /\ At("heard") /\ By("acceptor") /\ manager.open
    /\ Shows("PROCESSING")
    /\ Send(StopOf(protocol), NextThen("stopping", "accept_cue"))
    /\ UNCHANGED <<device, used>>

\* It is rejected: the candidate is reset and listening goes on.
OpenMicRejected ==
    /\ At("heard") /\ By("acceptor") /\ manager.open
    /\ LET c == [type |-> "ResetWakeCandidate", listen |-> protocol.listen]
       IN IF CommandOk(protocol, c) /\ driver.listen = protocol.listen
          THEN manager' = Next("waiting") /\ Shows("IDLE") /\ UNCHANGED <<command, violation>>
          ELSE Violated("ResetWakeCandidate") /\ UNCHANGED visual
    /\ UNCHANGED <<protocol, driver, events, device, used>>

AcceptCue ==
    /\ At("accept_cue")
    /\ Send(PlayCue, NextThen("cue", "conversation"))
    /\ UNCHANGED <<device, visual, used>>

\* Seeded fault: the light stays as the follow-up capture left it.
FollowUpHeardInTheDark ==
    /\ At("heard") /\ By("collector")
    /\ manager' \in {Next("timeout_cue"), [manager EXCEPT !.pc = "conversation", !.by = "bridge"]}
    /\ UNCHANGED <<protocol, command, driver, events, device, visual, used, violation>>

\* A follow-up was heard and answers the bridge, or it was empty.
FollowUpHeard ==
    /\ At("heard") /\ By("collector")
    /\ \/ /\ manager' = [manager EXCEPT !.pc = "conversation", !.by = "bridge"]
          /\ Shows("PROCESSING")
       \/ manager' = Next("timeout_cue") /\ UNCHANGED visual
    /\ UNCHANGED <<protocol, command, driver, events, device, used, violation>>

\* The timeout cue, after which the conversation ends.
TimeoutCue ==
    /\ At("timeout_cue")
    /\ Send(PlayCue, NextThen("cue", "visual_idle"))
    /\ UNCHANGED <<device, visual, used>>

\* A processing update, or text of the assistant's message.
Speak ==
    /\ At("conversation") /\ used.turns < MaxTurns
    /\ Count("turns")
    /\ \/ UNCHANGED visual
       \/ Shows("PROCESSING")
    /\ Send([type |-> "Playback", phase |-> "none"],
            [manager EXCEPT !.pc = "speaking", !.by = "bridge", !.then = "conversation"])
    /\ UNCHANGED device

\* request_follow_up(), once in a conversation.
PlayFollowUpCue ==
    /\ At("conversation") /\ ~manager.asked
    /\ Shows("LISTENING")
    /\ Send(PlayCue, [manager EXCEPT !.pc = "cue", !.by = "bridge", !.then = "follow_arm",
                                     !.asked = TRUE])
    /\ UNCHANGED <<device, used>>

ConversationEnds ==
    /\ At("conversation")
    /\ manager' = Next("visual_idle")
    /\ UNCHANGED <<protocol, command, driver, events, device, visual, used, violation>>

\* The conversation ends while the follow-up is collected: _stop_listening_if_active().
CollectorCancelled ==
    /\ By("collector") /\ command = NoCommand
    /\ manager.pc \in {"waiting", "capturing", "heard"}
    /\ IF protocol.state \in {"ARMING", "LISTENING", "CAPTURING"}
       THEN Send(StopOf(protocol), NextThen("stopping", "visual_idle"))
       ELSE /\ manager' = Next("visual_idle")
            /\ UNCHANGED <<protocol, command, driver, events, violation>>
    /\ UNCHANGED <<device, visual, used>>

\* _recover_microphone_boundary(): the driver is closed, with its queue, and everybody
\* starts from the beginning.
Recover ==
    /\ At("failed")
    /\ driver' = NewDriver /\ events' = << >> /\ device' = "idle"
    /\ protocol' = NewProtocol /\ visual' = "none"
    /\ manager' = Fresh(manager.open)
    /\ UNCHANGED <<command, used, violation>>

-----------------------------------------------------------------------------
DriverStep == RunFinishes \/ ServiceReturns
ManagerStep ==
    \/ BecomesIdle \/ Arm \/ Receive \/ ReceiveFails \/ ReceiveTimesOut
    \/ Heard \/ OpenMicAccepted \/ OpenMicRejected \/ AcceptCue
    \/ FollowUpHeard \/ TimeoutCue \/ Recover
BridgeStep == Speak \/ PlayFollowUpCue \/ ConversationEnds \/ DeadlinePasses \/ CollectorCancelled
DeviceStep == DeviceStarts \/ LoudAudio \/ QuietAudio \/ DeviceStops

LostCommand == driver.down /\ (CommandFails \/ BecomesIdleFails)

BoundaryNext ==
    \/ DriverStep \/ ManagerStep \/ BridgeStep \/ DeviceStep
    \/ TransportStops \/ CommandFails \/ BecomesIdleFails

BoundarySpec == BoundaryInit /\ [][BoundaryNext]_vars

\* The manager and the driver run whenever they can, every wait of the driver has a
\* timeout, and the device ends the streams it starts.
BoundaryFairSpec ==
    /\ BoundarySpec
    /\ WF_vars(DriverStep)
    /\ WF_vars(ManagerStep)
    /\ WF_vars(LostCommand)
    /\ WF_vars(DeviceStops)

-----------------------------------------------------------------------------
(* What must hold.                                                          *)

\* A microphone the manager believes to be listening is: with nothing queued and no
\* command under way, the driver captures for the very generation the protocol has
\* armed, so that no start of the device is ignored (box3_esphome.py 198-215, 477-490).
ListeningStartedIsTrue ==
    (protocol.state = "LISTENING" /\ events = << >> /\ command = NoCommand /\ ~driver.down
       /\ At("waiting"))
    => driver.capture /\ driver.listen = protocol.listen /\ driver.mode = protocol.mode

\* The same, but for the one way the code misses it: the drain of an arm drops the end
\* of a segment that the device spoke while the run before was being finished.
ArmedMeansHearing == driver.lost \/ ListeningStartedIsTrue

\* The next event the manager takes from the queue.
Awaited == IF EventWaits /\ ~driver.down THEN {Head(events)} ELSE {}

\* Speech that begins while the microphone is still arming, or, in open mic, when the start
\* of another stream has dropped the end of the segment before it.
EarlySpeech(e) ==
    /\ e.type = "SpeechStarted"
    /\ protocol.state = "ARMING" \/ (protocol.state = "CAPTURING" /\ protocol.mode = "OPEN_MIC")

\* Whatever the device does between two awaits of the driver, the protocol refuses only
\* early speech, and the driver only a stop for a segment that it has ended itself: no
\* event of a stopped generation, of another utterance or of a finished cue ever reaches
\* the manager (protocol.py 56-209).
OnlyEarlySpeechOrLateStop ==
    /\ violation \in {"none", "SpeechStarted", "StopListening"}
    /\ \A e \in Awaited : EventOk(protocol, e) \/ EarlySpeech(e)

\* PROCESSING stays on while the assistant or a processing update is played
\* (microphone-protocol.md, MP-VISUAL-007; manager.py 598-708).
PlaybackShowsProcessing == At("speaking") => visual = "PROCESSING"

\* A capture comes to an end, whatever the device does; outside open mic the manager
\* itself has no deadline for it (manager.py 455-517).
CaptureEnds == At("capturing") ~> ~At("capturing")

\* A protocol violation closes and recreates the boundary and never ends the process
\* (microphone-protocol.md, MP-ERROR-001).
ViolationContained == ~At("fatal")

=============================================================================
