----------------------------- MODULE MediaTask -----------------------------
(***************************************************************************)
(* A task of the media agent: music is started, resumed, searched for,      *)
(* moved, stopped.  The agent sees the speakers as the inventory of the     *)
(* Home Assistant connection shows them, which may be behind, and acts on   *)
(* them by service calls that can fail after reaching some of the speakers. *)
(* There is one queue of music; the speakers it is heard on are a group.    *)
(***************************************************************************)
EXTENDS Naturals, FiniteSets

CONSTANT Speakers

VARIABLES
    mAt,        \* where run_task() is
    command,    \* the parsed command, and the speakers it is about
    playing,    \* the speakers the music is heard on
    seen,       \* the speakers that play according to the inventory
    begun,      \* playing and seen when the task began
    joined,     \* the status of the join: ok, failed, or failed but found to have happened
    outcome     \* the result of the task

mediaVars == <<mAt, command, playing, seen, begun, joined, outcome>>

NoCommand == [intent |-> "none", targets |-> {}, explicit |-> FALSE, replace |-> FALSE]

MediaInit ==
    /\ mAt = "idle" /\ command = NoCommand /\ outcome = "none" /\ joined = "none"
    /\ playing = {} /\ seen = {}
    /\ begun = [playing |-> {}, seen |-> {}]

\* The states of the speakers arrive as events.
InventoryCatchesUp ==
    /\ seen # playing /\ seen' = playing
    /\ UNCHANGED <<mAt, command, playing, begun, joined, outcome>>

Ends(result) == mAt' = "done" /\ outcome' = result
Goes(place) == mAt' = place /\ UNCHANGED outcome

\* What a service call that returns failed has reached of the speakers it was for.
Reached(S, ok) == IF ok THEN {S} ELSE SUBSET S

-----------------------------------------------------------------------------
(* run_task(): the command is parsed, by a model if need be, and _targets()  *)
(* finds its speakers or asks for the room.                                  *)

\* Before the task anybody may have used the speakers, and the inventory may be behind.
MediaBegin ==
    /\ mAt = "idle"
    /\ playing' \in SUBSET Speakers /\ seen' \in SUBSET Speakers
    /\ begun' = [playing |-> playing', seen |-> seen']
    /\ joined' = "none" /\ Goes("begun")
    /\ UNCHANGED command

NotUnderstood ==
    /\ mAt = "begun" /\ \E r \in {"needs_clarification", "failed"} : Ends(r)
    /\ UNCHANGED <<command, playing, seen, begun, joined>>

Understood ==
    /\ mAt = "begun"
    /\ \E c \in [intent : {"start_last", "play_media", "transfer_playback", "stop", "other"},
                 targets : (SUBSET Speakers) \ {{}}, explicit : BOOLEAN, replace : BOOLEAN] :
         /\ c.replace => c.explicit
         /\ command' = c
         /\ CASE c.intent = "start_last" -> Goes("start")
              [] c.intent = "play_media" -> Goes("search")
              [] c.intent = "transfer_playback" -> Goes("relocate")
              [] c.intent = "stop" -> Goes("stop")
              [] c.intent = "other" -> Goes("other")
    /\ UNCHANGED <<playing, seen, begun, joined>>

Targets == command.targets

Stop ==
    /\ mAt = "stop"
    /\ \E ok \in BOOLEAN : \E reached \in Reached(Targets, ok) :
         /\ playing' = playing \ reached
         /\ Ends(IF ok THEN "ok" ELSE "failed")
    /\ UNCHANGED <<command, seen, begun, joined>>

\* The volume, what is playing now, and the configuration: music goes on as it is.
OtherCommand ==
    /\ mAt = "other" /\ \E r \in {"ok", "failed", "needs_clarification"} : Ends(r)
    /\ UNCHANGED <<command, playing, seen, begun, joined>>

-----------------------------------------------------------------------------
(* _start_last(), _play_media(): the speakers are joined, then music starts. *)

\* All play already: several are joined, and that is all.  Somewhere else: the queue moves
\* if the speakers were named.  Otherwise the queue, or the last music, starts here.
StartLast ==
    /\ mAt = "start"
    /\ CASE Targets \subseteq seen -> IF Cardinality(Targets) > 1 THEN Goes("joinPlaying")
                                      ELSE Ends("ok")
         [] ~(Targets \subseteq seen) /\ command.explicit /\ seen # {} -> Goes("relocate")
         [] OTHER -> Goes("join")
    /\ UNCHANGED <<command, playing, seen, begun, joined>>

\* The search ends with candidates, without, or raises.
SearchMedia ==
    /\ mAt = "search" /\ (Goes("join") \/ Ends("failed"))
    /\ UNCHANGED <<command, playing, seen, begun, joined>>

\* _playback_targets_for_start(): the members join the leader; those of a leader that is
\* idle leave the music.
JoinForStart ==
    /\ mAt \in {"join", "joinPlaying"}
    /\ \E leader \in Targets, ok \in BOOLEAN : \E reached \in Reached(Targets \ {leader}, ok) :
         /\ playing' = IF leader \in playing THEN playing \cup reached ELSE playing \ reached
         /\ IF ~ok THEN Ends("failed")
            ELSE IF mAt = "joinPlaying" THEN Ends("ok") ELSE Goes("play")
    /\ UNCHANGED <<command, seen, begun, joined>>

\* media_player_play or play_media: an unplayable candidate is followed by the next.
PlayMedia ==
    /\ mAt = "play"
    /\ \E ok \in BOOLEAN :
         /\ playing' = IF ok THEN playing \cup Targets ELSE playing
         /\ Ends(IF ok THEN "ok" ELSE "failed") \/ (~ok /\ Goes("play"))
    /\ UNCHANGED <<command, seen, begun, joined>>

-----------------------------------------------------------------------------
(* _relocate_current_queue()                                                *)

\* The queue is taken from the first speaker that plays according to the inventory.
Source == CHOOSE s \in begun.seen : TRUE
Desired == IF command.replace THEN Targets ELSE begun.seen \cup Targets
Released == begun.seen \ Desired

Relocate ==
    /\ mAt = "relocate"
    /\ begun' = [begun EXCEPT !.seen = seen]
    /\ joined' = "ok"
    /\ CASE seen = {} -> Ends("failed")
         [] seen # {} /\ seen = (IF command.replace THEN Targets ELSE seen \cup Targets) ->
              Ends("ok")
         [] OTHER -> Goes("attach")
    /\ UNCHANGED <<command, playing, seen>>

\* media_player_join(): the new outputs join the source.
Attach ==
    /\ mAt = "attach"
    /\ IF Desired \subseteq begun.seen THEN UNCHANGED <<playing, joined>>
       ELSE \E ok \in BOOLEAN : \E reached \in Reached(Desired \ begun.seen, ok) :
              /\ playing' = IF Source \in playing THEN playing \cup reached
                            ELSE playing \ reached
              /\ joined' = IF ok THEN "ok" ELSE "failed"
    /\ Goes("verifyJoin")
    /\ UNCHANGED <<command, seen, begun>>

\* _relocation_reached_targets(): the inventory is refreshed, and looked at even if that
\* fails.
Refreshed == {playing, seen}

\* A join that failed may have reached all the new outputs after all.
VerifyJoin ==
    /\ mAt = "verifyJoin"
    /\ IF joined = "ok" THEN UNCHANGED <<seen, joined>>
       ELSE /\ seen' \in Refreshed
            /\ joined' = IF Desired \subseteq seen' THEN "found" ELSE "failed"
    /\ Goes("release")
    /\ UNCHANGED <<command, playing, begun>>

\* Seeded fault: the old outputs are released whether the new ones have joined or not.
ReleasesAnyway == command.replace

MayRelease == command.replace /\ joined # "failed"

\* Seeded fault: a join that failed is forgotten.
UnjoinReported(ok) == ok

BothReported(ok) == ok /\ joined = "ok"

\* media_player_unjoin(): the outputs that are not wanted leave, once the others are there.
Release ==
    /\ mAt = "release"
    /\ IF MayRelease /\ Released # {}
       THEN \E ok \in BOOLEAN : \E reached \in Reached(Released, ok) :
              /\ playing' = playing \ reached
              /\ IF BothReported(ok) THEN Ends("ok") ELSE Goes("verify")
       ELSE /\ UNCHANGED playing
            /\ IF BothReported(TRUE) THEN Ends("ok") ELSE Goes("verify")
    /\ UNCHANGED <<command, seen, begun, joined>>

Verify ==
    /\ mAt = "verify"
    /\ seen' \in Refreshed
    /\ IF Desired \subseteq seen' /\ (command.replace => seen' \subseteq Desired)
       THEN Ends("ok") ELSE Goes("transfer")
    /\ UNCHANGED <<command, playing, begun, joined>>

\* music_assistant_transfer_queue(): the last resort.
Transfer ==
    /\ mAt = "transfer"
    /\ \E ok \in BOOLEAN :
         /\ playing' = IF ok THEN Desired ELSE playing
         /\ Ends(IF ok THEN "ok" ELSE "failed")
    /\ UNCHANGED <<command, seen, begun, joined>>

Relocating == mAt \in {"attach", "verifyJoin", "release", "verify", "transfer"}

MediaStep ==
    \/ NotUnderstood \/ Understood \/ Stop \/ OtherCommand
    \/ StartLast \/ SearchMedia \/ JoinForStart \/ PlayMedia
    \/ Relocate \/ Attach \/ VerifyJoin \/ Release \/ Verify \/ Transfer

MediaEnd ==
    /\ mAt = "done" /\ mAt' = "idle"
    /\ command' = NoCommand /\ joined' = "none" /\ outcome' = "none"
    /\ begun' = [playing |-> {}, seen |-> {}] /\ playing' = {} /\ seen' = {}

-----------------------------------------------------------------------------
\* A relocation that started from a true picture of the speakers never silences the music,
\* whatever part of the joining and releasing fails on the way (media_player/agent.py
\* 677-807).
MusicKeepsPlaying ==
    Relocating /\ begun.seen = begun.playing => playing # {}

\* And when it reports success, the music is on the speakers that were asked for
\* (media_player/agent.py 765-807).
OkMeansOutputs ==
    /\ mAt = "done" /\ outcome = "ok" /\ joined # "none" /\ begun.seen = begun.playing
       => Targets \subseteq playing

=============================================================================
