------------------------- MODULE MicrophoneProtocol -------------------------
(***************************************************************************)
(* The state machine that validates every command the microphone manager   *)
(* sends to a driver and every event it takes from it (MicrophoneProtocol-  *)
(* State).  Each operation is a condition and a successor: where the       *)
(* condition fails the code raises AssertionError.                          *)
(*                                                                         *)
(* Identifiers of listening generations and of utterances are positive      *)
(* numbers, 0 stands for None; cue and playback identifiers are made and    *)
(* matched within one operation and are left out.                           *)
(***************************************************************************)
EXTENDS Naturals

Modes == {"WAKE_WORD", "OPEN_MIC", "FOLLOW_UP"}

NewProtocol == [state |-> "DISARMED", listen |-> 0, mode |-> "none", utterance |-> 0]

\* Which commands a state admits.
CommandOk(p, c) ==
    CASE c.type \in {"StartListening", "PlayCue", "Playback"} -> p.state = "DISARMED"
      [] c.type = "StopListening" ->
            /\ p.state \in {"ARMING", "LISTENING", "CAPTURING"}
            /\ c.listen = p.listen
      [] c.type = "ResetWakeCandidate" -> p.state = "LISTENING" /\ c.listen = p.listen
      [] c.type = "SetVisualState" -> p.state # "CLOSED"
      [] OTHER -> FALSE

AfterCommand(p, c) ==
    CASE c.type = "StartListening" ->
            [p EXCEPT !.state = "ARMING", !.listen = c.listen, !.mode = c.mode]
      [] c.type = "StopListening" -> [p EXCEPT !.state = "STOPPING"]
      [] c.type = "PlayCue" -> [p EXCEPT !.state = "PLAYING_CUE"]
      [] c.type = "Playback" -> [p EXCEPT !.state = "PLAYING_AUDIO"]
      [] OTHER -> p

Correlated(p, e) == e.listen = p.listen
InSegment(p, e) == p.state = "CAPTURING" /\ Correlated(p, e) /\ e.utterance = p.utterance

\* Which events a state admits.
EventOk(p, e) ==
    CASE e.type = "ListeningStarted" ->
            p.state = "ARMING" /\ Correlated(p, e) /\ e.mode = p.mode
      [] e.type = "ListeningStopped" -> p.state = "STOPPING" /\ Correlated(p, e)
      [] e.type = "SpeechStarted" -> p.state = "LISTENING" /\ Correlated(p, e)
      [] e.type \in {"AudioChunk", "SpeechEnded"} -> InSegment(p, e)
      [] e.type = "CueFinished" -> p.state = "PLAYING_CUE"
      [] e.type = "PlaybackFinished" -> p.state = "PLAYING_AUDIO"
      [] OTHER -> FALSE

Disarmed(p) == [p EXCEPT !.state = "DISARMED", !.listen = 0, !.mode = "none", !.utterance = 0]

AfterEvent(p, e) ==
    CASE e.type = "ListeningStarted" -> [p EXCEPT !.state = "LISTENING"]
      [] e.type = "SpeechStarted" -> [p EXCEPT !.state = "CAPTURING", !.utterance = e.utterance]
      [] e.type = "AudioChunk" -> p
      [] e.type = "SpeechEnded" /\ p.mode = "OPEN_MIC" ->
            [p EXCEPT !.state = "LISTENING", !.utterance = 0]
      [] OTHER -> Disarmed(p)

=============================================================================
