----------------------------- MODULE ModelRace -----------------------------
(***************************************************************************)
(* One model request of an agent loop: the cloud model and the local model *)
(* are asked at once, the cloud's answer is preferred, and a cloud model    *)
(* that Ollama reports as failing is left out for a while.  The race runs   *)
(* under the response deadline of the loop, and in a conversation that may  *)
(* be cancelled: a cancellation can arrive wherever the race waits.         *)
(***************************************************************************)
VARIABLES
    call,       \* the request to each model
    race,       \* where chat() is
    answer,     \* what it returned or raised
    backoff     \* the cloud model is left out

raceVars == <<call, race, answer, backoff>>

Models == {"cloud", "local"}
Failures == {"ollama", "timeout", "error"}
Over(m) == call[m] \notin {"running", "cancelling"}

RaceInit ==
    /\ call = [m \in Models |-> "none"] /\ race = "idle" /\ answer = "none"
    /\ backoff = FALSE

\* The two HTTP requests: an answer, an error of Ollama, a timeout or another failure.
Answers(m) ==
    /\ call[m] = "running"
    /\ \E o \in Failures \cup {"ok"} : call' = [call EXCEPT ![m] = o]
    /\ UNCHANGED <<race, answer, backoff>>

CancelLands(m) ==
    /\ call[m] = "cancelling"
    /\ call' = [call EXCEPT ![m] = "cancelled"]
    /\ UNCHANGED <<race, answer, backoff>>

BackoffExpires ==
    /\ backoff /\ race = "idle" /\ backoff' = FALSE
    /\ UNCHANGED <<call, race, answer>>

\* chat(): the local model alone while the cloud model is left out.
StartChat ==
    /\ race = "idle" /\ answer' = "none"
    /\ race' = IF backoff THEN "awaitLocal" ELSE "first"
    /\ call' = [m \in Models |-> IF m = "cloud" /\ backoff THEN "none" ELSE "running"]
    /\ UNCHANGED backoff

Finished(a) == race' = "idle" /\ answer' = a
Abandoned == race' = "abortCloud" /\ answer' = "failed"

-----------------------------------------------------------------------------
(* _cloud_completed_first(): an error of Ollama leaves the race to the      *)
(* local model, any other failure ends it.                                  *)

CloudFirst ==
    /\ race = "first" /\ Over("cloud")
    /\ CASE call["cloud"] = "ok" ->
              race' = "dropLocal" /\ answer' = "cloud" /\ UNCHANGED backoff
         [] call["cloud"] = "ollama" ->
              race' = "awaitLocal" /\ backoff' = TRUE /\ UNCHANGED answer
         [] OTHER -> Abandoned /\ UNCHANGED backoff
    /\ UNCHANGED call

LocalAwaited ==
    /\ race = "awaitLocal" /\ Over("local")
    /\ IF call["local"] = "ok" THEN Finished("local") ELSE Abandoned
    /\ UNCHANGED <<call, backoff>>

-----------------------------------------------------------------------------
(* _local_completed_first(): a local answer gives the cloud a grace period, *)
(* a local failure leaves the race to the cloud.                            *)

LocalFirst ==
    /\ race = "first" /\ Over("local") /\ ~Over("cloud")
    /\ race' = IF call["local"] = "ok" THEN "grace" ELSE "awaitCloud"
    /\ UNCHANGED <<call, answer, backoff>>

CloudAwaited ==
    /\ race = "awaitCloud" /\ Over("cloud")
    /\ backoff' = (backoff \/ call["cloud"] = "ollama")
    /\ IF call["cloud"] = "ok" THEN Finished("cloud") ELSE Abandoned
    /\ UNCHANGED call

CloudInGrace ==
    /\ race = "grace" /\ Over("cloud") /\ call["cloud"] # "timeout"
    /\ backoff' = (backoff \/ call["cloud"] = "ollama")
    /\ CASE call["cloud"] = "ok" -> Finished("cloud")
         [] call["cloud"] = "ollama" -> Finished("local")
         [] OTHER -> Abandoned
    /\ UNCHANGED call

\* The grace period is over; a timeout of the cloud's own request looks the same.
GraceOver ==
    /\ race = "grace"
    /\ race' = "dropCloud" /\ answer' = "local"
    /\ UNCHANGED <<call, backoff>>

-----------------------------------------------------------------------------
(* _cancel_task(): the loser is cancelled and waited for.  A cancellation   *)
(* of the race itself is lost while it waits here.                          *)

Cancelling(m) == [call EXCEPT ![m] = "cancelling"]

Drop(place, m, next) ==
    /\ race = place
    /\ IF call[m] = "running" THEN call' = Cancelling(m) /\ UNCHANGED race
       ELSE Over(m) /\ race' = next /\ UNCHANGED call
    /\ UNCHANGED <<answer, backoff>>

DropLoser == Drop("dropLocal", "local", "idle") \/ Drop("dropCloud", "cloud", "idle")
DropBoth == Drop("abortCloud", "cloud", "abortLocal") \/ Drop("abortLocal", "local", "idle")

\* Seeded fault: only an Exception drops the two requests.  The cancellation of a task that
\* awaits another one cancels that one; the shielded cloud request lives on.
CancelsNobody ==
    /\ race \in {"first", "awaitLocal", "awaitCloud", "grace"}
    /\ race' = "idle" /\ answer' = "cancelled"
    /\ UNCHANGED <<call, backoff>>

\* The deadline expires or the conversation ends.
RaceCancelled ==
    /\ race \in {"first", "awaitLocal", "awaitCloud", "grace"}
    /\ race' = "abortCloud" /\ answer' = "cancelled"
    /\ call' = CASE race = "awaitLocal" /\ ~Over("local") -> Cancelling("local")
                 [] race = "awaitCloud" /\ ~Over("cloud") -> Cancelling("cloud")
                 [] OTHER -> call
    /\ UNCHANGED backoff

-----------------------------------------------------------------------------
RaceNext ==
    \/ \E m \in Models : Answers(m) \/ CancelLands(m)
    \/ BackoffExpires \/ StartChat
    \/ CloudFirst \/ LocalAwaited \/ LocalFirst \/ CloudAwaited \/ CloudInGrace \/ GraceOver
    \/ DropLoser \/ DropBoth \/ RaceCancelled

RaceSpec == RaceInit /\ [][RaceNext]_raceVars

RaceTypeOK ==
    /\ call \in [Models -> Failures \cup {"none", "running", "cancelling", "ok", "cancelled"}]
    /\ race \in {"idle", "first", "awaitLocal", "awaitCloud", "grace", "dropLocal",
                 "dropCloud", "abortCloud", "abortLocal"}
    /\ answer \in Models \cup {"none", "failed", "cancelled"}
    /\ backoff \in BOOLEAN

=============================================================================
