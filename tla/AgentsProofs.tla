---------------------------- MODULE AgentsProofs ----------------------------
(***************************************************************************)
(* Proofs about the agents, for any devices, speakers, items, providers,   *)
(* plans and limits.  A relocation of the media agent works from the       *)
(* speakers it saw at its beginning, and its invariant follows what of them, *)
(* and of the speakers asked for, still has the music.  The domain agents  *)
(* share the loop of the tools, so that what holds of it holds in a task of *)
(* each of them.  The orchestrator runs their tasks in the order its plans *)
(* allow.                                                                  *)
(***************************************************************************)
EXTENDS DomainAgents, Orchestrator, TLAPS

-----------------------------------------------------------------------------
(* A task of the media agent                                               *)

Places == {"idle", "begun", "start", "search", "join", "joinPlaying", "play", "stop",
           "other", "relocate", "attach", "verifyJoin", "release", "verify", "transfer", "done"}

MediaTypeOK ==
    /\ mAt \in Places
    /\ command.targets \subseteq Speakers /\ command.replace \in BOOLEAN
    /\ begun \in [playing : SUBSET Speakers, seen : SUBSET Speakers]
    /\ playing \subseteq Speakers /\ seen \subseteq Speakers
    /\ joined \in {"none", "ok", "failed", "found"}

TruePicture == begun.seen = begun.playing
Decided == mAt \notin {"idle", "begun", "done"}

\* Before a relocation nothing has been joined, and where one may still begin the music is
\* where the task found it.
NotYetMoved ==
    /\ Decided => Targets # {}
    /\ mAt \in {"begun", "start", "search", "relocate"} => playing = begun.playing
    /\ Decided /\ ~Relocating => joined = "none"
    /\ mAt = "begun" => joined = "none"

\* During a relocation no wanted speaker is taken to play that does not; nothing has left
\* before the release, and what was found to have joined has.
OnTheMove ==
    Relocating /\ TruePicture =>
        /\ playing # {} /\ begun.seen # {}
        /\ seen \cap Desired \subseteq playing
        /\ mAt = "attach" => playing = begun.playing /\ joined = "ok"
        /\ mAt \in {"attach", "verifyJoin", "release"} => begun.seen \subseteq playing
        /\ mAt \in {"verifyJoin", "release", "verify"} /\ joined # "failed"
             => Desired \subseteq playing

MediaInv == MediaTypeOK /\ NotYetMoved /\ OnTheMove /\ OkMeansOutputs

-----------------------------------------------------------------------------
LEMMA InitMedia == MediaInit => MediaInv
  BY DEF MediaInit, MediaInv, MediaTypeOK, NotYetMoved, OnTheMove, OkMeansOutputs, Places,
         NoCommand, Decided, Relocating

\* A call reaches nobody but the speakers it is for, and all of them if it succeeds.
LEMMA ReachedIsWithin ==
    ASSUME NEW S, NEW ok \in BOOLEAN, NEW reached \in Reached(S, ok)
    PROVE  reached \subseteq S /\ (ok => reached = S)
  BY DEF Reached

LEMMA CatchUpInv == MediaInv /\ mAt # "idle" /\ InventoryCatchesUp => MediaInv'
  BY DEF InventoryCatchesUp, MediaInv, MediaTypeOK, NotYetMoved, OnTheMove, OkMeansOutputs,
         Decided, Relocating, TruePicture, Desired, Targets

LEMMA BeginInv == MediaInv /\ MediaBegin => MediaInv'
  BY DEF MediaBegin, Goes, MediaInv, MediaTypeOK, NotYetMoved, OnTheMove, OkMeansOutputs,
         Places, Decided, Relocating

LEMMA EndInv == MediaInv /\ MediaEnd => MediaInv'
  BY DEF MediaEnd, NoCommand, MediaInv, MediaTypeOK, NotYetMoved, OnTheMove, OkMeansOutputs,
         Places, Decided, Relocating

\* What is done without a relocation joins nothing that it would have to account for.
LEMMA SimpleInv ==
    ASSUME MediaInv,
           \/ NotUnderstood \/ Understood \/ Stop \/ OtherCommand
           \/ StartLast \/ SearchMedia \/ JoinForStart \/ PlayMedia
    PROVE  MediaInv'
<1> USE DEF MediaInv, MediaTypeOK, NotYetMoved, OnTheMove, OkMeansOutputs, Places, Decided,
            Relocating, Ends, Goes, Targets
<1>1. CASE NotUnderstood \/ OtherCommand
  BY <1>1 DEF NotUnderstood, OtherCommand
<1>2. CASE Understood
  <2>1. /\ command'.targets \subseteq Speakers /\ command'.targets # {}
        /\ command'.replace \in BOOLEAN
        /\ mAt' \in {"start", "search", "relocate", "stop", "other"}
    <3>1. PICK c \in [intent : {"start_last", "play_media", "transfer_playback", "stop", "other"},
                      targets : (SUBSET Speakers) \ {{}}, explicit : BOOLEAN, replace : BOOLEAN] :
             command' = c /\ mAt' \in {"start", "search", "relocate", "stop", "other"}
      BY <1>2 DEF Understood
    <3> QED
      BY <3>1
  <2>2. mAt = "begun" /\ UNCHANGED <<playing, seen, begun, joined>>
    BY <1>2 DEF Understood
  <2> QED
    BY <2>1, <2>2
<1>3. CASE Stop
  <2>1. playing' \subseteq playing /\ mAt' = "done"
    BY <1>3 DEF Stop
  <2> QED
    BY <1>3, <2>1 DEF Stop
<1>4. CASE StartLast \/ SearchMedia
  <2>1. mAt' \in {"joinPlaying", "join", "relocate", "done"}
        /\ (mAt' = "relocate" => mAt = "start")
    BY <1>4 DEF StartLast, SearchMedia
  <2> QED
    BY <1>4, <2>1 DEF StartLast, SearchMedia
<1>5. CASE JoinForStart
  <2>1. playing' \subseteq Speakers /\ mAt' \in {"done", "play"}
    BY <1>5, ReachedIsWithin DEF JoinForStart
  <2> QED
    BY <1>5, <2>1 DEF JoinForStart
<1>6. CASE PlayMedia
  <2>1. playing' \subseteq Speakers /\ mAt' \in {"done", "play"}
    BY <1>6 DEF PlayMedia
  <2> QED
    BY <1>6, <2>1 DEF PlayMedia
<1> QED
  BY <1>1, <1>2, <1>3, <1>4, <1>5, <1>6

-----------------------------------------------------------------------------
(* The relocation                                                           *)

LEMMA RelocateInv == MediaInv /\ Relocate => MediaInv'
<1> SUFFICES ASSUME MediaInv, Relocate PROVE MediaInv'
  OBVIOUS
<1> USE DEF MediaInv, MediaTypeOK, NotYetMoved, OnTheMove, OkMeansOutputs, Places, Decided,
            Relocating, Ends, Goes, Targets, TruePicture, Desired
<1>1. /\ begun' = [playing |-> begun.playing, seen |-> seen] /\ joined' = "ok"
      /\ playing = begun.playing /\ Targets # {}
      /\ UNCHANGED <<command, playing, seen>>
  BY DEF Relocate
<1>2. MediaTypeOK'
  BY <1>1 DEF Relocate
<1>3. CASE mAt' = "attach"
  <2>1. seen # {}
    BY <1>3 DEF Relocate
  <2> QED
    BY <1>1, <1>2, <1>3, <2>1
<1>4. CASE mAt' = "done"
  <2>1. outcome' = "ok" => Targets \subseteq seen
    BY <1>4 DEF Relocate
  <2> QED
    BY <1>1, <1>2, <1>4, <2>1
<1> QED
  BY <1>3, <1>4 DEF Relocate

LEMMA AttachInv == MediaInv /\ Attach => MediaInv'
<1> SUFFICES ASSUME MediaInv, Attach PROVE MediaInv'
  OBVIOUS
<1> USE DEF MediaInv, MediaTypeOK, NotYetMoved, OnTheMove, OkMeansOutputs, Places, Decided,
            Relocating, Goes, Targets, TruePicture
<1>1. mAt = "attach" /\ mAt' = "verifyJoin" /\ UNCHANGED <<command, seen, begun>>
      /\ Desired' = Desired /\ Desired \subseteq Speakers
  BY DEF Attach, Desired
<1>2. playing' \subseteq Speakers /\ joined' \in {"none", "ok", "failed", "found"}
  <2>1. CASE Desired \subseteq begun.seen
    BY <2>1 DEF Attach
  <2>2. CASE ~(Desired \subseteq begun.seen)
    BY <2>2, <1>1, ReachedIsWithin DEF Attach
  <2> QED
    BY <2>1, <2>2
<1>3. ASSUME TruePicture
      PROVE  playing \subseteq playing' /\ (joined' # "failed" => Desired \subseteq playing')
  <2>1. playing = begun.seen /\ Source \in playing
    BY <1>1, <1>3 DEF Source
  <2>2. CASE Desired \subseteq begun.seen
    BY <2>1, <2>2 DEF Attach
  <2>3. CASE ~(Desired \subseteq begun.seen)
    <3>1. PICK ok \in BOOLEAN : \E reached \in Reached(Desired \ begun.seen, ok) :
              /\ playing' = playing \cup reached
              /\ joined' = IF ok THEN "ok" ELSE "failed"
      BY <2>1, <2>3 DEF Attach
    <3> QED
      BY <3>1, <2>1, ReachedIsWithin
  <2> QED
    BY <2>2, <2>3
<1> QED
  BY <1>1, <1>2, <1>3

LEMMA VerifyJoinInv == MediaInv /\ VerifyJoin => MediaInv'
<1> SUFFICES ASSUME MediaInv, VerifyJoin PROVE MediaInv'
  OBVIOUS
<1> USE DEF MediaInv, MediaTypeOK, NotYetMoved, OnTheMove, OkMeansOutputs, Places, Decided,
            Relocating, Goes, Targets, TruePicture
<1>1. /\ mAt = "verifyJoin" /\ mAt' = "release" /\ UNCHANGED <<command, playing, begun>>
      /\ seen' \in {playing, seen}
      /\ joined = "ok" \/ joined' = IF Desired \subseteq seen' THEN "found" ELSE "failed"
      /\ joined = "ok" => joined' = "ok"
  BY DEF VerifyJoin, Refreshed
<1>2. Desired' = Desired
  BY <1>1 DEF Desired
<1> QED
  BY <1>1, <1>2

LEMMA ReleaseInv == MediaInv /\ Release => MediaInv'
<1> SUFFICES ASSUME MediaInv, Release PROVE MediaInv'
  OBVIOUS
<1> USE DEF MediaInv, MediaTypeOK, NotYetMoved, OnTheMove, OkMeansOutputs, Places, Decided,
            Relocating, Ends, Goes, Targets, TruePicture
<1>1. /\ mAt = "release" /\ UNCHANGED <<command, seen, begun, joined>>
      /\ mAt' \in {"done", "verify"} /\ (mAt' = "done" => joined = "ok")
      /\ playing' \subseteq playing
      /\ playing' = playing \/ (MayRelease /\ playing \ Released \subseteq playing')
  <2>1. CASE MayRelease /\ Released # {}
    BY <2>1, ReachedIsWithin DEF Release, BothReported
  <2>2. CASE ~(MayRelease /\ Released # {})
    BY <2>2 DEF Release, BothReported
  <2> QED
    BY <2>1, <2>2
<1>2. Desired' = Desired
  BY <1>1 DEF Desired
<1>3. playing \cap Desired \subseteq playing'
  BY <1>1 DEF Released
<1>4. Targets \subseteq Desired /\ Targets # {}
  BY <1>1 DEF Desired
<1>5. MayRelease => joined # "failed"
  BY DEF MayRelease
<1>6. ASSUME TruePicture PROVE playing' # {}
  BY <1>1, <1>3, <1>4, <1>5, <1>6
<1> QED
  BY <1>1, <1>2, <1>3, <1>4, <1>6

LEMMA VerifyInv == MediaInv /\ Verify => MediaInv'
<1> SUFFICES ASSUME MediaInv, Verify PROVE MediaInv'
  OBVIOUS
<1> USE DEF MediaInv, MediaTypeOK, NotYetMoved, OnTheMove, OkMeansOutputs, Places, Decided,
            Relocating, Ends, Goes, Targets, TruePicture
<1>1. /\ mAt = "verify" /\ mAt' \in {"done", "transfer"}
      /\ UNCHANGED <<command, playing, begun, joined>>
      /\ seen' \in {playing, seen}
      /\ mAt' = "done" => Desired \subseteq seen'
  BY DEF Verify, Refreshed
<1>2. Desired' = Desired /\ Targets \subseteq Desired
  BY <1>1 DEF Desired
<1> QED
  BY <1>1, <1>2

LEMMA TransferInv == MediaInv /\ Transfer => MediaInv'
<1> SUFFICES ASSUME MediaInv, Transfer PROVE MediaInv'
  OBVIOUS
<1>1. /\ mAt' = "done" /\ UNCHANGED <<command, seen, begun, joined>>
      /\ playing' \subseteq Speakers
      /\ outcome' = "ok" => playing' = Desired
  BY DEF Transfer, Ends, MediaInv, MediaTypeOK, Desired, Targets
<1> QED
  BY <1>1 DEF MediaInv, MediaTypeOK, NotYetMoved, OnTheMove, OkMeansOutputs, Places, Decided,
              Relocating, Targets, Desired

\* The invariant is kept by every step of a task.
LEMMA MediaStepInv == MediaInv /\ MediaStep => MediaInv'
  BY SimpleInv, RelocateInv, AttachInv, VerifyJoinInv, ReleaseInv, VerifyInv, TransferInv
  DEF MediaStep

LEMMA MediaInvImplies == MediaInv => MusicKeepsPlaying /\ OkMeansOutputs
  BY DEF MediaInv, OnTheMove, TruePicture, MusicKeepsPlaying

-----------------------------------------------------------------------------
(* The tasks of all domain agents                                          *)

\* Every call that was counted is answered or still to be done.
LoopInv ==
    /\ LoopTypeOK
    /\ loopAt = "tools" => todo # <<>>
    /\ loopAt \in {"idle", "asking", "replied"} => todo = <<>>
    /\ loopAt # "failed" => repairs <= MaxRepairs
    /\ effects + Len(todo) <= calls
    /\ loopAt # "failed" => answered + Len(todo) = calls

\* The result of a command, and so the last of several, speaks of devices that were changed.
HomeInv == execution.status = "ok" => execution.devices \subseteq touched

\* What was known is still known, and providers are asked about what was not.
InfoInv ==
    /\ keptFirst.weather => kept.weather
    /\ keptFirst.sky # "none" => kept.sky # "none"
    /\ kept \in Kept
    /\ asked \in Nat
    /\ itAt = "provider" \/ asked > 0 => itTopic = "weather" /\ ~keptFirst.weather
    /\ itAt = "idle" => asked = 0
    /\ itAt = "loop" => itTopic \in {"weather", "wikipedia", "status"} /\ asked = 0
    /\ itAt = "begun" => asked = 0
    /\ KnownIsAnswered

-----------------------------------------------------------------------------
(* The loop                                                                 *)

LEMMA NextCallFacts ==
    ASSUME LoopTypeOK, todo # <<>>, NextCall
    PROVE  /\ todo' \in Seq(ToolCallKinds) /\ Len(todo') = Len(todo) - 1
           /\ loopAt' \in {"asking", "tools"}
           /\ loopAt' = "tools" => todo' # <<>>
           /\ loopAt' = "asking" => todo' = <<>>
<1>1. todo \in Seq(ToolCallKinds) /\ Len(todo) \in Nat /\ Len(todo) > 0
  BY DEF LoopTypeOK
<1>2. todo' = Tail(todo) /\ todo' \in Seq(ToolCallKinds) /\ Len(todo') = Len(todo) - 1
  BY <1>1 DEF NextCall
<1>3. CASE Len(todo) = 1
  BY <1>2, <1>3 DEF NextCall
<1>4. CASE Len(todo) # 1
  <2>1. loopAt' = "tools"
    BY <1>4 DEF NextCall
  <2>2. Len(todo') # 0
    BY <1>1, <1>2, <1>4
  <2> QED
    BY <1>2, <2>1, <2>2
<1> QED
  BY <1>2, <1>3, <1>4

LEMMA InitLoop == LoopInit => LoopInv
  BY LoopAssumption DEF LoopInit, LoopInv, LoopTypeOK

LEMMA LoopStepInv ==
    ASSUME LoopInv, LoopNext
    PROVE  LoopInv'
<1> USE LoopAssumption DEF LoopInv, LoopTypeOK
<1>1. CASE LoopStarts \/ LoopLeft
  <2>1. CASE LoopStarts
    BY <2>1 DEF LoopStarts
  <2>2. CASE LoopLeft
    <3>1. todo' = <<>> /\ loopAt' = "idle" /\ calls' = 0 /\ repairs' = 0 /\ effects' = 0
          /\ answered' = 0
      BY <2>2 DEF LoopLeft
    <3> QED
      BY <3>1
  <2> QED
    BY <1>1, <2>1, <2>2
<1>2. CASE ModelFails \/ ModelReplies
  BY <1>2 DEF ModelFails, ModelReplies
<1>3. CASE ModelCallsTools
  <2>0. PICK n \in 1..(MaxToolCalls + 1) : \E batch \in [1..n -> ToolCallKinds] :
           IF OverBudget(n)
           THEN loopAt' = "failed" /\ UNCHANGED <<todo, calls>>
           ELSE /\ loopAt' = "tools" /\ todo' = batch
                /\ calls' = calls + n
    BY <1>3 DEF ModelCallsTools
  <2>1. PICK batch \in [1..n -> ToolCallKinds] :
           IF OverBudget(n)
           THEN loopAt' = "failed" /\ UNCHANGED <<todo, calls>>
           ELSE /\ loopAt' = "tools" /\ todo' = batch
                /\ calls' = calls + n
    BY <2>0
  <2>2. batch \in Seq(ToolCallKinds) /\ Len(batch) = n /\ batch # <<>>
    BY <2>1
  <2>3. loopAt = "asking" /\ todo = <<>> /\ UNCHANGED <<repairs, effects, answered>>
    BY <1>3 DEF ModelCallsTools
  <2>4. CASE OverBudget(n)
    BY <2>1, <2>3, <2>4
  <2>5. CASE ~OverBudget(n)
    <3>1. calls + n <= MaxToolCalls
      BY <2>1, <2>5 DEF OverBudget
    <3> QED
      BY <2>1, <2>2, <2>3, <2>5, <3>1
  <2> QED
    BY <2>4, <2>5
<1>4. CASE ToolRuns
  <2>1. todo # <<>> /\ loopAt = "tools"
    BY <1>4 DEF ToolRuns
  <2>2. NextCall
    BY <1>4 DEF ToolRuns
  <2> QED
    BY <1>4, <2>1, <2>2, NextCallFacts DEF ToolRuns
<1>5. CASE ToolRepaired
  <2>1. todo # <<>> /\ loopAt = "tools" /\ repairs' = repairs + 1
        /\ UNCHANGED <<calls, effects>>
    BY <1>5 DEF ToolRepaired
  <2>2. CASE repairs' > MaxRepairs
    <3>1. repairs <= MaxRepairs
      BY <2>1
    <3> QED
      BY <1>5, <2>1, <2>2, <3>1 DEF ToolRepaired
  <2>3. CASE ~(repairs' > MaxRepairs)
    BY <1>5, <2>1, <2>3, NextCallFacts DEF ToolRepaired
  <2> QED
    BY <2>2, <2>3
<1> QED
  BY <1>1, <1>2, <1>3, <1>4, <1>5 DEF LoopNext

-----------------------------------------------------------------------------
(* The Home Assistant agent                                                 *)

\* One command: what it reports as changed was reached now, or in an earlier command.
LEMMA ExecuteInv ==
    ASSUME HomeInv, NEW c \in Commands, Execute(c)
    PROVE  HomeInv'
<1>1. CASE ToBeChanged(c)
  <2>1. PICK reached \in SUBSET Selected(c), fine \in SUBSET Selected(c) :
           /\ fine \subseteq reached /\ touched' = touched \cup reached
           /\ execution' = StatusOf(c, fine) \/ execution' = Failed
    BY <1>1 DEF Execute
  <2>2. execution'.status = "ok" => fine = Selected(c) /\ execution'.devices = Selected(c)
    BY <2>1 DEF StatusOf, Failed, Result
  <2> QED
    BY <2>1, <2>2 DEF HomeInv
<1>2. CASE ~ToBeChanged(c)
  <2>1. execution'.devices = {}
    BY <1>2 DEF Execute, AnsweredAtOnce, Clarification, Failed, Result
  <2> QED
    BY <2>1 DEF HomeInv
<1> QED
  BY <1>1, <1>2

LEMMA HomeStepInv ==
    ASSUME HomeInv, HtBegin \/ HtStep \/ HtEnd
    PROVE  HomeInv'
<1>1. CASE Deterministic \/ ToolExecutes
  BY <1>1, ExecuteInv DEF Deterministic, ToolExecutes
<1>2. CASE ToolRaises \/ DeterministicRaises
  BY <1>2 DEF ToolRaises, DeterministicRaises, HomeInv
<1>3. CASE LoopReturns
  BY <1>3 DEF LoopReturns, HomeInv, Failed, Result
<1>4. CASE HtBegin \/ AskLoop \/ HtLoopGoesOn
  BY <1>4 DEF HtBegin, AskLoop, HtLoopGoesOn, HomeInv
<1>5. CASE HtEnd
  BY <1>5 DEF HtEnd, NoExecution, HomeInv
<1> QED
  BY <1>1, <1>2, <1>3, <1>4, <1>5 DEF HtStep

-----------------------------------------------------------------------------
(* The agents that read                                                     *)

LEMMA InitInfo == InfoInit => InfoInv
  BY DEF InfoInit, InfoInv, KeepsNothing, Kept, KnownIsAnswered

LEMMA BackgroundInv ==
    ASSUME InfoInv, Background
    PROVE  InfoInv'
<1> USE DEF InfoInv, Kept, KnownIsAnswered
<1>1. CASE WeatherRefreshed
  BY <1>1 DEF WeatherRefreshed, Stored
<1>2. CASE SkyRefreshed
  BY <1>2 DEF SkyRefreshed, SkyFetched
<1>3. CASE StatusCollected
  BY <1>3 DEF StatusCollected
<1>4. CASE TimePasses
  BY <1>4 DEF TimePasses
<1> QED
  BY <1>1, <1>2, <1>3, <1>4 DEF Background

LEMMA InfoStepInv ==
    ASSUME InfoInv, InfoBegin \/ InfoStep \/ InfoEnd
    PROVE  InfoInv'
<1> USE DEF InfoInv, Kept, KnownIsAnswered, Answers
<1>1. CASE InfoBegin
  BY <1>1 DEF InfoBegin
<1>2. CASE InfoEnd
  BY <1>2 DEF InfoEnd, KeepsNothing
<1>3. CASE WeatherFastLane
  BY <1>3 DEF WeatherFastLane
<1>4. CASE AskProvider
  BY <1>4 DEF AskProvider
<1>5. CASE SkyFastLane
  BY <1>5 DEF SkyFastLane, SkyFetched
<1>6. CASE WikipediaFastPath \/ TimeOfZone \/ StatusRefused
  BY <1>6 DEF WikipediaFastPath, TimeOfZone, StatusRefused
<1>7. CASE TimeOfPlace
  BY <1>7 DEF TimeOfPlace
<1>8. CASE InfoAskLoop
  BY <1>8 DEF InfoAskLoop
<1>9. CASE WeatherToolRuns \/ WikipediaToolRuns
  BY <1>9 DEF WeatherToolRuns, WikipediaToolRuns, SkyFetched
<1>10. CASE InfoLoopGoesOn \/ InfoLoopReturns
  BY <1>10 DEF InfoLoopGoesOn, InfoLoopReturns, infoOnly
<1> QED
  BY <1>1, <1>2, <1>3, <1>4, <1>5, <1>6, <1>7, <1>8, <1>9, <1>10 DEF InfoStep

-----------------------------------------------------------------------------
(* All of them                                                              *)

DomainInv == LoopInv /\ HomeInv /\ InfoInv /\ MediaInv

LEMMA InitDomain == DomainInit => DomainInv
  BY InitLoop, InitInfo, InitMedia
  DEF DomainInit, DomainInv, HtInit, NoExecution, HomeInv

\* Whoever takes a step, the loop takes one of its own or none.
LEMMA LoopUnderDomain == DomainNext => LoopNext \/ UNCHANGED loopVars
  BY DEF DomainNext, TaskBegins, TaskSteps, TaskEnds, WorldGoesOn, LoopNext,
         HtBegin, HtStep, HtEnd, Deterministic, DeterministicRaises, AskLoop, ToolExecutes, ToolRaises, LoopReturns,
         HtLoopGoesOn, InfoBegin, InfoStep, InfoEnd, WeatherFastLane, AskProvider, SkyFastLane,
         WikipediaFastPath, TimeOfZone, TimeOfPlace, StatusRefused, InfoAskLoop,
         WeatherToolRuns, WikipediaToolRuns, InfoLoopGoesOn, InfoLoopReturns

LEMMA StutterInv ==
    /\ LoopInv /\ UNCHANGED loopVars => LoopInv'
    /\ HomeInv /\ UNCHANGED homeOnly => HomeInv'
    /\ InfoInv /\ UNCHANGED infoOnly => InfoInv'
    /\ MediaInv /\ UNCHANGED mediaVars => MediaInv'
<1>1. LoopInv /\ UNCHANGED loopVars => LoopInv'
  BY DEF LoopInv, LoopTypeOK, loopVars
<1>2. HomeInv /\ UNCHANGED homeOnly => HomeInv'
  BY DEF HomeInv, homeOnly
<1>3. InfoInv /\ UNCHANGED infoOnly => InfoInv'
  BY DEF InfoInv, infoOnly, KnownIsAnswered
<1>4. MediaInv /\ UNCHANGED mediaVars => MediaInv'
  BY DEF MediaInv, MediaTypeOK, NotYetMoved, OnTheMove, OkMeansOutputs, mediaVars, Decided,
         Relocating, TruePicture, Desired, Targets
<1> QED
  BY <1>1, <1>2, <1>3, <1>4

LEMMA NextDomain == DomainInv /\ [DomainNext]_domainVars => DomainInv'
<1> SUFFICES ASSUME DomainInv, [DomainNext]_domainVars PROVE DomainInv'
  OBVIOUS
<1> USE DEF DomainInv
<1>1. CASE UNCHANGED domainVars
  BY <1>1, StutterInv DEF domainVars
<1>2. CASE DomainNext
  <2>1. LoopInv'
    BY <1>2, LoopUnderDomain, LoopStepInv, StutterInv
  <2>2. HomeInv'
    BY <1>2, HomeStepInv, StutterInv
    DEF DomainNext, TaskBegins, TaskSteps, TaskEnds, WorldGoesOn
  <2>3. InfoInv'
    BY <1>2, InfoStepInv, BackgroundInv, StutterInv
    DEF DomainNext, TaskBegins, TaskSteps, TaskEnds, WorldGoesOn
  <2>4. MediaInv'
    BY <1>2, BeginInv, MediaStepInv, EndInv, CatchUpInv, StutterInv
    DEF DomainNext, TaskBegins, TaskSteps, TaskEnds, WorldGoesOn
  <2> QED
    BY <2>1, <2>2, <2>3, <2>4
<1> QED
  BY <1>1, <1>2

LEMMA DomainInvariance == DomainSpec => []DomainInv
  BY InitDomain, NextDomain, PTL DEF DomainSpec

-----------------------------------------------------------------------------
(* The theorems                                                             *)

\* Tools act on the world at most as often as the limit on a message allows, however the
\* model spreads its calls over responses and however many of them are malformed.
THEOREM ToolsAreBounded == DomainSpec => []EffectsAreBounded
<1>1. LoopInv => EffectsAreBounded
  <2> SUFFICES ASSUME LoopInv PROVE effects <= MaxToolCalls
    BY DEF EffectsAreBounded
  <2>1. Len(todo) \in Nat
    BY DEF LoopInv, LoopTypeOK
  <2> QED
    BY <2>1, LoopAssumption DEF LoopInv, LoopTypeOK
<1> QED
  BY <1>1, DomainInvariance, PTL DEF DomainInv

\* The model is never asked again while a tool call of its own is unanswered.
THEOREM CallsAreAnswered == DomainSpec => []HistoryIsComplete
<1>1. LoopInv => HistoryIsComplete
  <2> SUFFICES ASSUME LoopInv, loopAt = "asking" PROVE answered = calls
    BY DEF HistoryIsComplete
  <2>1. Len(todo) = 0
    BY DEF LoopInv
  <2> QED
    BY <2>1 DEF LoopInv, LoopTypeOK
<1> QED
  BY <1>1, DomainInvariance, PTL DEF DomainInv

\* A task that reports a whole success has changed every device it names, for any devices and any sequence of commands.
THEOREM ReportsAreTrue == DomainSpec => []SuccessHappened
<1>1. HomeInv => SuccessHappened
  BY DEF HomeInv, SuccessHappened
<1> QED
  BY <1>1, DomainInvariance, PTL DEF DomainInv

\* A relocation from a true picture does not silence the music, for any speakers.
THEOREM MusicSurvives == DomainSpec => []MusicKeepsPlaying
  BY MediaInvImplies, DomainInvariance, PTL DEF DomainInv

\* And if it reports success, the music is where it was asked for.
THEOREM RelocationArrives == DomainSpec => []OkMeansOutputs
  BY MediaInvImplies, DomainInvariance, PTL DEF DomainInv

\* What was known when a question came is answered without a model, whatever fails.
THEOREM KnowledgeIsKept == DomainSpec => []KnownIsAnswered
<1>1. InfoInv => KnownIsAnswered
  BY DEF InfoInv
<1> QED
  BY <1>1, DomainInvariance, PTL DEF DomainInv

-----------------------------------------------------------------------------
(* A conversation with the orchestrator                                    *)

\* A task needs earlier tasks only, and every task that was run found its own needs done.
PlanInv ==
    /\ Len(plan.tasks) \in Nat
    /\ \A i \in 1..Len(plan.tasks) : plan.tasks[i].needs \subseteq 1..(i - 1)

ResultsInv ==
    /\ results \in Seq(Statuses \cup {"blocked"})
    /\ Len(results) <= Len(plan.tasks)
    /\ \A i \in 1..Len(results) :
          results[i] # "blocked" => plan.tasks[i].needs \subseteq Completed

PendingInv == pending.owner \in {"nobody", "router", "dsa"}

OrchInv == PlanInv /\ ResultsInv /\ PendingInv

-----------------------------------------------------------------------------
LEMMA InitOrch == OrchInit => OrchInv
  BY DEF OrchInit, OrchInv, PlanInv, ResultsInv, PendingInv, NoPlan, Nothing

\* A plan is well formed, however many tasks it has.
LEMMA PlansAreOrdered ==
    ASSUME NEW p \in Plans
    PROVE  /\ Len(p.tasks) \in Nat
           /\ \A i \in 1..Len(p.tasks) : p.tasks[i].needs \subseteq 1..(i - 1)
<1>1. p.tasks \in UNION {{s \in [1..n -> UNION {Task(i) : i \in 1..n}] :
                             \A i \in 1..n : s[i] \in Task(i)} : n \in 0..MaxTasks}
  BY DEF Plans
<1>2. PICK n \in 0..MaxTasks :
        /\ p.tasks \in [1..n -> UNION {Task(i) : i \in 1..n}]
        /\ \A i \in 1..n : p.tasks[i] \in Task(i)
  BY <1>1
<1>3. n \in Nat
  BY OrchestratorAssumption
<1>4. Len(p.tasks) = n
  BY <1>2, <1>3
<1>5. \A i \in 1..n : p.tasks[i].needs \subseteq 1..(i - 1)
  BY <1>2 DEF Task
<1> QED
  BY <1>3, <1>4, <1>5

\* A fresh plan has no results yet.
LEMMA FreshPlanInv ==
    ASSUME NEW p, plan' = p, results' = <<>>, PendingInv', Len(p.tasks) \in Nat,
           \A i \in 1..Len(p.tasks) : p.tasks[i].needs \subseteq 1..(i - 1)
    PROVE  OrchInv'
  BY DEF OrchInv, PlanInv, ResultsInv

\* A plan of one task, which needs nothing.
LEMMA SinglePlanInv ==
    ASSUME NEW task, task.needs = {}, plan' = [tasks |-> <<task>>, asks |-> FALSE],
           results' = <<>>, PendingInv'
    PROVE  OrchInv'
<1>1. plan'.tasks = <<task>> /\ Len(<<task>>) = 1 /\ <<task>>[1] = task
  OBVIOUS
<1> QED
  BY <1>1 DEF OrchInv, PlanInv, ResultsInv

LEMMA RunTaskInv ==
    ASSUME OrchInv, RunTask
    PROVE  OrchInv'
<1> DEFINE next == Len(results) + 1
<1>1. /\ Len(results) \in Nat /\ next <= Len(plan.tasks) /\ plan' = plan
      /\ PlanInv' /\ PendingInv'
  BY DEF RunTask, OrchInv, PlanInv, ResultsInv, PendingInv
<1>2. PICK s \in Statuses \cup {"blocked"} :
        results' = Append(results, s) /\ (s # "blocked" => Ready)
  BY DEF RunTask
<1>3. /\ results' \in Seq(Statuses \cup {"blocked"}) /\ Len(results') = next
      /\ \A i \in 1..Len(results) : results'[i] = results[i]
      /\ results'[next] = s
  BY <1>2 DEF OrchInv, ResultsInv
<1>4. Completed \subseteq Completed'
  BY <1>1, <1>3 DEF Completed
<1>5. ASSUME NEW i \in 1..next, results'[i] # "blocked"
      PROVE  plan.tasks[i].needs \subseteq Completed
  <2>1. CASE i = next
    BY <1>2, <1>3, <1>5, <2>1 DEF Ready, NextTask
  <2>2. CASE i # next
    BY <1>1, <1>3, <1>5, <2>2 DEF OrchInv, ResultsInv
  <2> QED
    BY <2>1, <2>2
<1> QED
  BY <1>1, <1>3, <1>4, <1>5 DEF OrchInv, ResultsInv

LEMMA NextOrch == OrchInv /\ [OrchNext]_orchVars => OrchInv'
<1> SUFFICES ASSUME OrchInv, [OrchNext]_orchVars PROVE OrchInv'
  OBVIOUS
<1>p. PendingInv'
  <2>1. CASE Receive \/ ReceiveEnds
    <3>1. pending' = pending \/ pending' = Nothing
      BY <2>1 DEF Receive, ReceiveEnds, PlanFor, KnownUtterance, CancelWord, ResumeTask,
                  OrchInv, PendingInv
    <3> QED
      BY <3>1 DEF OrchInv, PendingInv, Nothing
  <2>2. CASE TasksDone
    <3>1. pending' = StoredPending
      BY <2>2 DEF TasksDone
    <3>2. StoredPending.owner \in {"nobody", "router", "dsa"}
      BY DEF StoredPending, Nothing
    <3> QED
      BY <3>1, <3>2 DEF PendingInv
  <2>3. CASE \/ Planned \/ PlanFails \/ RunTask \/ TaskFails \/ QuestionIsInvalid
             \/ Reply \/ ReplyFails \/ FollowUp \/ UNCHANGED orchVars
    BY <2>3 DEF Planned, PlanFails, RunTask, TaskFails, QuestionIsInvalid, Reply, ReplyFails, FollowUp, Apologise,
                orchVars, OrchInv, PendingInv
  <2>4. CASE End
    BY <2>4 DEF End, Nothing, PendingInv
  <2> QED
    BY <2>1, <2>2, <2>3, <2>4 DEF OrchNext
<1>0. UNCHANGED <<plan, results>> => OrchInv'
  BY <1>p DEF OrchInv, PlanInv, ResultsInv, Completed
<1>1. CASE Receive
  <2>1. \/ UNCHANGED <<plan, results>>
        \/ \E words : KnownUtterance(words) \/ ResumeTask(words)
    BY <1>1 DEF Receive, PlanFor, CancelWord, OrchInv, PendingInv
  <2>2. ASSUME NEW words, KnownUtterance(words) PROVE OrchInv'
    <3>1. PICK d \in Domains :
             plan' = [tasks |-> <<[domain |-> d, needs |-> {}, request |-> words]>>,
                      asks |-> FALSE]
      BY <2>2 DEF KnownUtterance
    <3> QED
      BY <1>p, <2>2, <3>1, SinglePlanInv DEF KnownUtterance
  <2>3. ASSUME NEW words, ResumeTask(words) PROVE OrchInv'
    BY <1>p, <2>3, SinglePlanInv DEF ResumeTask
  <2> QED
    BY <1>0, <2>1, <2>2, <2>3
<1>2. CASE Planned
  <2>1. UNCHANGED <<plan, results>> \/ (results' = <<>> /\ \E p \in Plans : plan' = p)
    BY <1>2 DEF Planned
  <2> QED
    BY <1>0, <1>p, <2>1, PlansAreOrdered, FreshPlanInv
<1>3. CASE RunTask
  BY <1>3, RunTaskInv
<1>4. CASE \/ ReceiveEnds \/ PlanFails \/ TaskFails \/ TasksDone \/ QuestionIsInvalid
           \/ Reply \/ ReplyFails \/ FollowUp \/ End \/ UNCHANGED orchVars
  BY <1>0, <1>4
  DEF ReceiveEnds, PlanFails, TaskFails, TasksDone, QuestionIsInvalid, Reply, ReplyFails, FollowUp, End,
      Apologise, orchVars
<1> QED
  BY <1>1, <1>2, <1>3, <1>4 DEF OrchNext

-----------------------------------------------------------------------------
\* No task is run on one that failed, was left out or asks, however long the chain of
\* dependencies between them is.
THEOREM DependenciesHold == OrchSpec => []NothingBuiltOnFailure
<1>1. OrchInv => NothingBuiltOnFailure
  <2> SUFFICES ASSUME OrchInv, NEW i \in 1..Len(results), results[i] # "blocked",
                      NEW j \in Behind(i)
               PROVE  results[j] \notin {"blocked", "failed", "needs_clarification"}
    BY DEF NothingBuiltOnFailure
  <2> DEFINE S == Completed \cap 1..(i - 1)
  <2>1. ASSUME NEW k \in S \cup {i} PROVE plan.tasks[k].needs \subseteq S
    <3>1. k \in 1..Len(results) /\ results[k] # "blocked" /\ k <= i
      BY DEF Completed, Incomplete, OrchInv, ResultsInv
    <3>2. plan.tasks[k].needs \subseteq Completed
      BY <3>1 DEF OrchInv, ResultsInv
    <3>3. plan.tasks[k].needs \subseteq 1..(k - 1) /\ 1..(k - 1) \subseteq 1..(i - 1)
      BY <3>1 DEF OrchInv, PlanInv, ResultsInv
    <3> QED
      BY <3>2, <3>3
  <2>2. S \in SUBSET (1..(i - 1))
    OBVIOUS
  <2>3. j \in S
    BY <2>1, <2>2 DEF Behind
  <2> QED
    BY <2>3 DEF Completed, Incomplete
<1> QED
  BY <1>1, InitOrch, NextOrch, PTL DEF OrchSpec
=============================================================================
