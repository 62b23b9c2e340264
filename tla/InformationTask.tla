--------------------------- MODULE InformationTask ---------------------------
(***************************************************************************)
(* A task of an agent that only reads: the weather and the sky, Wikipedia,   *)
(* the time, the state of the system.  Each answers known questions from     *)
(* what it keeps or from its sources, without a model; the rest goes to the  *)
(* agent loop.  Sources can fail; what is kept is refreshed in the           *)
(* background and grows old.                                                 *)
(***************************************************************************)
EXTENDS AgentLoop

CONSTANTS
    Items,      \* items of Wikidata, and places
    Providers   \* the number of weather providers, asked in order

ASSUME InformationAssumption == Providers \in Nat \ {0}

VARIABLES
    itAt,       \* where run_task() is
    itTopic,    \* what is asked for
    kept,       \* what the agents keep between tasks
    keptFirst,  \* what they kept when the task began
    asked,      \* weather providers asked in this task
    named,      \* the items of the summaries read in this task
    answer      \* the status of the result

infoOnly == <<itAt, itTopic, kept, keptFirst, asked, named, answer>>
infoVars == <<infoOnly, loopVars>>

Topics == {"weather", "astronomy", "wikipedia", "time", "status"}

\* located: a location is configured; weather: WeatherLocalCache; sky: the astronomy
\* snapshot; zones: the file of the timezone resolver; system: the snapshot of the collector.
Kept ==
    [located : BOOLEAN, weather : BOOLEAN, sky : {"none", "old", "fresh"},
     zones : SUBSET Items, system : {"none", "old", "fresh"}]

InfoTypeOK ==
    /\ itAt \in {"idle", "begun", "provider", "loop", "done"}
    /\ itTopic \in Topics \cup {"none"}
    /\ kept \in Kept /\ keptFirst \in Kept
    /\ asked \in 0..Providers /\ named \subseteq Items

KeepsNothing ==
    [located |-> FALSE, weather |-> FALSE, sky |-> "none", zones |-> {}, system |-> "none"]

InfoInit ==
    /\ itAt = "idle" /\ itTopic = "none"
    /\ kept = KeepsNothing /\ keptFirst = KeepsNothing
    /\ asked = 0 /\ named = {} /\ answer = "none"

Answers(status) == itAt' = "done" /\ answer' = status

-----------------------------------------------------------------------------
(* The background: refreshes that succeed or not, and time.                  *)

\* Seeded fault: what was fetched is stored even if nothing was.
StoredAnyway(found) == kept' = [kept EXCEPT !.weather = found]

\* WeatherLocalCache.refresh_once(): the providers in order; what none of them knows stays.
Stored(found) == kept' = [kept EXCEPT !.weather = @ \/ found]

WeatherRefreshed ==
    /\ kept.located
    /\ \E found \in BOOLEAN : Stored(found)
    /\ UNCHANGED <<itAt, itTopic, keptFirst, asked, named, answer, loopVars>>

\* WeatherAstronomyRefresher.ensure_fresh(): a fetch that fails leaves the old snapshot.
SkyFetched(sky) == sky \in {kept.sky} \cup (IF kept.located THEN {"fresh"} ELSE {})

SkyRefreshed ==
    /\ kept.located /\ kept.sky # "fresh"
    /\ \E sky \in {"none", "old", "fresh"} : SkyFetched(sky) /\ kept' = [kept EXCEPT !.sky = sky]
    /\ UNCHANGED <<itAt, itTopic, keptFirst, asked, named, answer, loopVars>>

StatusCollected ==
    /\ kept' = [kept EXCEPT !.system = "fresh"]
    /\ UNCHANGED <<itAt, itTopic, keptFirst, asked, named, answer, loopVars>>

TimePasses ==
    /\ \/ kept.sky = "fresh" /\ kept' = [kept EXCEPT !.sky = "old"]
       \/ kept.system = "fresh" /\ kept' = [kept EXCEPT !.system = "old"]
    /\ UNCHANGED <<itAt, itTopic, keptFirst, asked, named, answer, loopVars>>

Background == WeatherRefreshed \/ SkyRefreshed \/ StatusCollected \/ TimePasses

-----------------------------------------------------------------------------
(* Answers without a model.                                                  *)

\* What the agents keep is what the background has made of it until then.
InfoBegin ==
    /\ itAt = "idle" /\ itAt' = "begun"
    /\ itTopic' \in Topics
    /\ kept' \in Kept /\ (~kept'.located => ~kept'.weather /\ kept'.sky = "none")
    /\ keptFirst' = kept'
    /\ UNCHANGED <<asked, named, answer, loopVars>>

\* _run_fast_lane(): no configured location, the local cache, or the providers.
WeatherFastLane ==
    /\ itAt = "begun" /\ itTopic = "weather"
    /\ \/ ~kept.located /\ Answers("needs_clarification")
       \/ kept.weather /\ Answers("ok")
       \/ kept.located /\ ~kept.weather /\ itAt' = "provider" /\ UNCHANGED answer
    /\ UNCHANGED <<itTopic, kept, keptFirst, asked, named, loopVars>>

\* A request to a provider or to Wikipedia: it is answered, finds nothing, or raises.
Fetches == {"found", "nothing", "raised"}

\* _get_weather_now(): a provider that raises or knows nothing is passed over.
AskProvider ==
    /\ itAt = "provider"
    /\ asked' = asked + 1
    /\ \E fetch \in Fetches :
         IF fetch = "found" THEN Answers("ok")
         ELSE IF asked' = Providers THEN Answers("not_found") ELSE UNCHANGED <<itAt, answer>>
    /\ UNCHANGED <<itTopic, kept, keptFirst, named, loopVars>>

\* _run_astronomy_fast_lane(): a snapshot that is fresh, fetched, or old is answered.
SkyFastLane ==
    /\ itAt = "begun" /\ itTopic = "astronomy"
    /\ \E sky \in {"none", "old", "fresh"} :
         /\ IF kept.sky = "fresh" THEN sky = "fresh" ELSE SkyFetched(sky)
         /\ kept' = [kept EXCEPT !.sky = sky]
         /\ Answers(IF sky = "none" THEN "failed" ELSE "ok")
    /\ UNCHANGED <<itTopic, keptFirst, asked, named, loopVars>>

\* _source_fast_path(): a search and a summary answer the question; a source that fails
\* raises out of the task, and one that finds nothing leaves it to the loop.
WikipediaFastPath ==
    /\ itAt = "begun" /\ itTopic = "wikipedia"
    /\ \E fetch \in Fetches \ {"nothing"} : Answers(IF fetch = "found" THEN "ok" ELSE "raised")
    /\ UNCHANGED <<itTopic, kept, keptFirst, asked, named, loopVars>>

\* CurrentTimeDomainAgent.run_task(): a zone of the request or of the configuration, or
\* TimezoneResolver.resolve() with the zone of a place in its file or else online.
TimeOfZone ==
    /\ itAt = "begun" /\ itTopic = "time"
    /\ Answers("ok") \/ Answers("needs_clarification")
    /\ UNCHANGED <<itTopic, kept, keptFirst, asked, named, loopVars>>

TimeOfPlace ==
    /\ itAt = "begun" /\ itTopic = "time"
    /\ \E place \in Items :
         IF place \in kept.zones THEN Answers("ok") /\ UNCHANGED kept
         ELSE \/ Answers("ok") /\ kept' = [kept EXCEPT !.zones = @ \cup {place}]
              \/ \E status \in {"needs_clarification", "raised"} : Answers(status)
                 /\ UNCHANGED kept
    /\ UNCHANGED <<itTopic, keptFirst, asked, named, loopVars>>

\* Nobody is told the state of the system without being known.
StatusRefused ==
    /\ itAt = "begun" /\ itTopic = "status" /\ Answers("failed")
    /\ UNCHANGED <<itTopic, kept, keptFirst, asked, named, loopVars>>

-----------------------------------------------------------------------------
(* Answers of the agent loop.                                                *)

\* A snapshot of the system that is old or missing is collected before the model is asked.
InfoAskLoop ==
    /\ itAt = "begun" /\ itTopic \in {"weather", "wikipedia", "status"}
    /\ itAt' = "loop" /\ LoopStarts
    /\ kept' = IF itTopic = "status" THEN [kept EXCEPT !.system = "fresh"] ELSE kept
    /\ UNCHANGED <<itTopic, keptFirst, asked, named, answer>>

\* The weather tools read the cache and the providers as above, the astronomy tool the sky.
WeatherToolRuns ==
    /\ itAt = "loop" /\ itTopic = "weather" /\ ToolRuns
    /\ \/ UNCHANGED kept
       \/ \E sky \in {"old", "fresh"} : SkyFetched(sky) /\ kept' = [kept EXCEPT !.sky = sky]
    /\ UNCHANGED <<itAt, itTopic, keptFirst, asked, named, answer>>

\* Those of Wikipedia search, read a summary, which names an item, or read the facts of an
\* item.
WikipediaToolRuns ==
    /\ itAt = "loop" /\ itTopic = "wikipedia" /\ ToolRuns
    /\ \/ UNCHANGED named
       \/ \E item \in Items : named' = named \cup {item}
    /\ UNCHANGED <<itAt, itTopic, kept, keptFirst, asked, answer>>

\* The status agent has no tools: any call is one of an unknown tool.
InfoLoopGoesOn ==
    /\ itAt = "loop" /\ (ModelFails \/ ModelReplies \/ ModelCallsTools \/ ToolRepaired)
    /\ UNCHANGED infoOnly

\* _parse_domain_reply(): the status the model gives.  A loop that failed and a reply that
\* is not well formed are failures, except that the status agent then answers from the
\* snapshot.
InfoLoopReturns ==
    /\ itAt = "loop" /\ LoopEnded /\ LoopLeft
    /\ \/ loopAt = "replied" /\ \E s \in {"ok", "not_found", "needs_clarification"} : Answers(s)
       \/ Answers(IF itTopic = "status" THEN "ok" ELSE "failed")
    /\ UNCHANGED <<itTopic, kept, keptFirst, asked, named>>

InfoStep ==
    \/ WeatherFastLane \/ AskProvider \/ SkyFastLane \/ WikipediaFastPath
    \/ TimeOfZone \/ TimeOfPlace \/ StatusRefused
    \/ InfoAskLoop \/ WeatherToolRuns \/ WikipediaToolRuns
    \/ InfoLoopGoesOn \/ InfoLoopReturns

InfoEnd ==
    /\ itAt = "done" /\ itAt' = "idle"
    /\ itTopic' = "none" /\ kept' = KeepsNothing /\ keptFirst' = KeepsNothing
    /\ asked' = 0 /\ named' = {} /\ answer' = "none"
    /\ UNCHANGED loopVars

-----------------------------------------------------------------------------
\* What was known when the task began is answered, whatever fails since: a question about
\* the weather here or the sky that is answered without a model does not end in an empty
\* answer, even if every source is down (local_cache.py 82-101, astronomy.py 183-211).
KnownIsAnswered ==
    itAt = "done" /\ answer \in {"failed", "not_found"} =>
        /\ itTopic = "weather" /\ asked > 0 => ~keptFirst.weather
        /\ itTopic = "astronomy" => keptFirst.sky = "none"

=============================================================================
