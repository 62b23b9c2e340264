---------------------------- MODULE Orchestrator ----------------------------
(***************************************************************************)
(* One conversation with the orchestrator.  A message of the user is        *)
(* planned into tasks for the domain agents, the tasks run in order, a      *)
(* question of the router or of a domain agent is kept until the user       *)
(* answers it, and a reply is written from the results.  The models and the *)
(* domain agents are outside: what they return, and that they fail, is      *)
(* chosen.  A text is here the set of the user's messages it was made from. *)
(***************************************************************************)
EXTENDS Naturals, Sequences, SequencesExt, FiniteSets

CONSTANTS
    Domains,        \* the configured domain agents
    TwoModels,      \* a clarification model other than the orchestrator model is configured
    MaxTasks,       \* bound on the tasks of a plan
    MaxTurns        \* bound on the messages of a conversation

ASSUME OrchestratorAssumption ==
    /\ Domains # {} /\ TwoModels \in BOOLEAN
    /\ MaxTasks \in Nat \ {0} /\ MaxTurns \in Nat \ {0}

VARIABLES
    turn,           \* the number of the message being handled
    at,             \* where _run_execution_context() is
    model,          \* the model being asked
    text,           \* what is planned: the messages the utterance stands for
    plan,           \* the tasks and the question of the router
    results,        \* the results of the tasks so far
    pending,        \* state["pending_clarification"]
    told            \* what the user was told last

orchVars == <<turn, at, model, text, plan, results, pending, told>>

Incomplete == {"blocked", "failed", "needs_clarification", "unsupported_domain"}
\* What a domain agent returns; another word of a model is as good as not_found.
Statuses == {"ok", "partial", "not_found", "failed", "needs_clarification"}

Nothing == [owner |-> "nobody"]
NoPlan == [tasks |-> <<>>, asks |-> FALSE]

\* What _validate_plan() lets through: the id of a task is its place, and it depends on
\* earlier tasks only.
Task(i) == [domain : Domains, needs : SUBSET (1..(i - 1)), request : {text}]
Plans ==
    [tasks : UNION {{s \in [1..n -> UNION {Task(i) : i \in 1..n}] :
                        \A i \in 1..n : s[i] \in Task(i)} : n \in 0..MaxTasks},
     asks : BOOLEAN]

OrchInit ==
    /\ turn = 0 /\ at = "receiving" /\ model = "none" /\ text = {}
    /\ plan = NoPlan /\ results = <<>> /\ pending = Nothing /\ told = "nothing"

MainModel == "orchestrator"

Fallback(m) == m = MainModel /\ TwoModels

-----------------------------------------------------------------------------
(* A message: a known utterance, an answer, or a request to be planned.     *)

PlanFor(words) ==
    /\ at' = "planning" /\ model' = MainModel /\ text' = words /\ told' = "nothing"
    /\ UNCHANGED <<plan, results, pending>>

\* _short_path_plan(): a known utterance of a domain is a plan of one task.
KnownUtterance(words) ==
    /\ \E d \in Domains :
          plan' = [tasks |-> <<[domain |-> d, needs |-> {}, request |-> words]>>, asks |-> FALSE]
    /\ at' = "running" /\ text' = words /\ results' = <<>> /\ told' = "nothing"
    /\ UNCHANGED <<model, pending>>

\* "ok", "nie", "stop" and the like drop the question, and the reply is empty.
CancelWord ==
    /\ pending' = Nothing /\ told' = "nothing" /\ at' = "replied"
    /\ UNCHANGED <<model, text, plan, results>>

\* resume_clarification() of the agent that asked, for the task it asked about; what the
\* task depended on was completed before it asked, and is not looked at again.
ResumeTask(words) ==
    /\ plan' = [tasks |-> <<[domain |-> pending.task.domain, needs |-> {},
                              request |-> pending.task.request]>>, asks |-> FALSE]
    /\ at' = "running" /\ text' = words /\ results' = <<>> /\ told' = "nothing"
    /\ UNCHANGED <<model, pending>>

Receive ==
    /\ at = "receiving" /\ turn < MaxTurns
    /\ turn' = turn + 1
    /\ LET words == {turn'} IN
       CASE pending.owner = "nobody" -> PlanFor(words) \/ KnownUtterance(words)
         [] pending.owner = "router" -> PlanFor(pending.request \cup words) \/ CancelWord
         [] pending.owner = "dsa" -> ResumeTask(words) \/ CancelWord

\* The channel is closed instead.
ReceiveEnds ==
    /\ at = "receiving" /\ at' = "ended" /\ pending' = Nothing
    /\ UNCHANGED <<turn, model, text, plan, results, told>>

\* Seeded fault: a message that could not be handled ends the conversation in silence.
GivesUpInSilence ==
    /\ at' = "failed"
    /\ UNCHANGED <<turn, model, text, plan, results, pending, told>>

\* A message could not be handled: the user is told, and the conversation is over.
Apologise ==
    /\ at' = "failed" /\ told' = "apology"
    /\ UNCHANGED <<turn, model, text, plan, results, pending>>

-----------------------------------------------------------------------------
(* Planning, and the reply.                                                 *)

\* A plan of the main model with a low confidence is made again by the other model.
Planned ==
    /\ at = "planning"
    /\ \/ \E p \in Plans : plan' = p /\ at' = "running" /\ results' = <<>> /\ UNCHANGED model
       \/ /\ Fallback(model) /\ model' = "clarification" /\ UNCHANGED <<plan, at, results>>
    /\ UNCHANGED <<turn, text, pending, told>>

\* No answer, or not a valid plan: the other model, if this was the main one.
PlanFails ==
    /\ at = "planning" /\ ~Fallback(model) /\ Apologise

Questions == {i \in 1..Len(results) : results[i] = "needs_clarification"}
First(S) == CHOOSE i \in S : \A j \in S : i <= j

\* _store_pending_clarification(): the first question of a domain agent, else the router's.
StoredPending ==
    CASE Questions # {} -> [owner |-> "dsa", task |-> plan.tasks[First(Questions)]]
      [] Questions = {} /\ plan.asks -> [owner |-> "router", request |-> {turn}]
      [] OTHER -> Nothing

TasksDone ==
    /\ at = "running" /\ Len(results) = Len(plan.tasks)
    /\ pending' = StoredPending
    /\ at' = "replying" /\ model' = MainModel
    /\ UNCHANGED <<turn, text, plan, results, told>>

\* A question of a domain agent without words, or with a continuation that cannot be kept.
QuestionIsInvalid ==
    /\ at = "running" /\ Len(results) = Len(plan.tasks) /\ Questions # {} /\ Apologise

\* The text of a single successful result as it is, or a text of a model; a model that
\* fails or writes nothing leaves it to the other one, and nothing of both is an apology.
Reply ==
    /\ at = "replying"
    /\ \/ at' = "replied" /\ told' \in {"reply", "apology"} /\ UNCHANGED model
       \/ Fallback(model) /\ model' = "clarification" /\ UNCHANGED <<at, told>>
    /\ UNCHANGED <<turn, text, plan, results, pending>>

ReplyFails == at = "replying" /\ ~Fallback(model) /\ Apologise

-----------------------------------------------------------------------------
(* _dispatch_ready_tasks()                                                  *)

Completed == {i \in 1..Len(results) : results[i] \notin Incomplete}
NextTask == plan.tasks[Len(results) + 1]

\* Seeded fault: a task that was left out does not hold back what depends on it.
ReadyUnlessFailed ==
    \A i \in NextTask.needs : results[i] \notin {"failed", "needs_clarification"}

Ready == NextTask.needs \subseteq Completed

RunTask ==
    /\ at = "running" /\ Len(results) < Len(plan.tasks)
    /\ IF Ready THEN \E s \in Statuses : results' = Append(results, s)
       ELSE results' = Append(results, "blocked")
    /\ UNCHANGED <<turn, at, model, text, plan, pending, told>>

\* run_task() or resume_clarification() raises.
TaskFails ==
    /\ at = "running" /\ Len(results) < Len(plan.tasks) /\ Ready /\ Apologise

-----------------------------------------------------------------------------
\* The reply has been sent: the next message is awaited, or the conversation ends.
FollowUp ==
    /\ at = "replied" /\ pending # Nothing
    /\ at' = "receiving"
    /\ UNCHANGED <<turn, model, text, plan, results, pending, told>>

End ==
    /\ at = "failed" \/ (at = "replied" /\ pending = Nothing)
    /\ at' = "ended" /\ pending' = Nothing
    /\ UNCHANGED <<turn, model, text, plan, results, told>>

OrchNext ==
    \/ Receive \/ ReceiveEnds
    \/ Planned \/ PlanFails \/ RunTask \/ TaskFails \/ TasksDone \/ QuestionIsInvalid
    \/ Reply \/ ReplyFails \/ FollowUp \/ End

OrchSpec == OrchInit /\ [][OrchNext]_orchVars

\* Every call of a model and of a domain agent ends, by a timeout if need be.
OrchFairSpec ==
    OrchSpec /\ WF_orchVars(OrchNext /\ at # "receiving")

-----------------------------------------------------------------------------
(* What must hold.                                                          *)

OrchTypeOK ==
    /\ turn \in 0..MaxTurns
    /\ at \in {"receiving", "planning", "running", "replying", "replied", "failed", "ended"}
    /\ model \in {"none", MainModel, "clarification"}
    /\ Len(results) <= Len(plan.tasks)
    /\ pending.owner \in {"nobody", "router", "dsa"}

\* The tasks that task i depends on, directly or through others: the least set that holds
\* them and what they need in turn.
Behind(i) ==
    {j \in 1..(i - 1) : \A S \in SUBSET (1..(i - 1)) :
        (\A k \in S \cup {i} : plan.tasks[k].needs \subseteq S) => j \in S}

\* Nothing is built on a failure: a task only runs when nothing it depends on, directly or
\* through other tasks, failed, was left out or waits for an answer of the user
\* (orchestrator.py 479-529).  A task that found nothing, or was done in part, counts as done.
NothingBuiltOnFailure ==
    \A i \in 1..Len(results) : results[i] # "blocked" =>
        \A j \in Behind(i) : results[j] \notin {"blocked", "failed", "needs_clarification"}

\* Every message is answered, by a reply or an apology, and then the user is listened to
\* again or the conversation ends: a request, a known utterance and an answer to a question,
\* whatever fails on the way (orchestrator.py 130-179, 189-342, 566-656).
MessageIsAnswered ==
    at \in {"planning", "running"} ~>
        told \in {"reply", "apology"} /\ at \in {"receiving", "ended"}

=============================================================================
