------------------------- MODULE HomeAssistantTask -------------------------
(***************************************************************************)
(* A task of the Home Assistant agent.  A climate request in a known form   *)
(* is turned into a command directly; any other request goes to the agent   *)
(* loop, whose only tool executes a command of the model.  A command is     *)
(* reduced to what decides its outcome: the devices the selection finds,    *)
(* those it leaves out, whether one or all are meant, and the change.       *)
(***************************************************************************)
EXTENDS AgentLoop, FiniteSets

CONSTANT Devices

VARIABLES
    htAt,       \* where run_task() is
    execution,  \* last_execution_result, and then the result of the task
    touched     \* the devices changed in this task

htVars == <<htAt, execution, touched, loopVars>>

NoExecution == [status |-> "none", devices |-> {}]
Result(status, devices) == [status |-> status, devices |-> devices]
Failed == Result("failed", {})
Clarification == Result("needs_clarification", {})

HtInit ==
    /\ htAt = "idle" /\ execution = NoExecution /\ touched = {} /\ LoopInit

\* found: what find_devices() returns, or the error of an area nobody knows; change: a
\* question, a change the devices support, or one that is incomplete or not supported.
Commands ==
    [found : SUBSET Devices, known : BOOLEAN, excluded : SUBSET Devices,
     scope : {"single", "all"}, change : {"query", "supported", "unclear"}]

\* _select_devices()
Selected(c) == c.found \ c.excluded
Ambiguous(c) == c.scope # "all" /\ Cardinality(Selected(c)) > 1

\* What _execute_home_assistant_task() answers before it changes anything.
AnsweredAtOnce(c) ==
    CASE ~c.known -> {Clarification, Failed}
      [] c.known /\ Ambiguous(c) -> {Clarification}
      [] c.known /\ ~Ambiguous(c) /\ c.change = "query" -> {Result("ok", {})}
      [] OTHER -> {Clarification, Failed}

ToBeChanged(c) ==
    c.known /\ ~Ambiguous(c) /\ c.change = "supported" /\ Selected(c) # {}

\* Seeded fault: one call that succeeds is enough.
StatusOfAny(c, fine) ==
    IF fine # {} THEN Result("ok", Selected(c)) ELSE Result("partial", Selected(c))

\* _modify_single_device(), _modify_multiple_devices(): fine are the devices whose calls
\* succeeded.  A batch in which any call fails, be it every one, is a partial success of all
\* its devices; a batch without an inventory fails.
StatusOf(c, fine) ==
    CASE fine = Selected(c) -> Result("ok", Selected(c))
      [] fine # Selected(c) /\ c.scope = "all" -> Result("partial", Selected(c))
      [] OTHER -> Failed

\* A call that is answered too late has failed and may still have changed its device.
Execute(c) ==
    IF ToBeChanged(c)
    THEN \E reached \in SUBSET Selected(c), fine \in SUBSET Selected(c) :
            /\ fine \subseteq reached
            /\ touched' = touched \cup reached
            /\ execution' = StatusOf(c, fine) \/ (fine = {} /\ execution' = Failed)
    ELSE execution' \in AnsweredAtOnce(c) /\ UNCHANGED touched

-----------------------------------------------------------------------------
\* _deterministic_command(): no model is asked.
Deterministic ==
    /\ htAt = "begun" /\ \E c \in Commands : Execute(c)
    /\ htAt' = "done"
    /\ UNCHANGED loopVars

\* The batch is rejected, or the connection fails: run_task() raises.
DeterministicRaises ==
    /\ htAt = "begun" /\ htAt' = "raised"
    /\ \E reached \in SUBSET Devices : touched' = touched \cup reached
    /\ UNCHANGED <<execution, loopVars>>

AskLoop ==
    /\ htAt = "begun" /\ LoopStarts
    /\ htAt' = "loop" /\ UNCHANGED <<execution, touched>>

\* execute_home_assistant_task(): each call of the model executes, and the last counts.
ToolExecutes ==
    /\ htAt = "loop" /\ ToolRuns
    /\ \E c \in Commands : Execute(c)
    /\ UNCHANGED htAt

\* The connection fails under a change: the tool raises, and whatever was executed before
\* stays the last result.
ToolRaises ==
    /\ htAt = "loop" /\ ToolRuns
    /\ \E reached \in SUBSET Devices : touched' = touched \cup reached
    /\ UNCHANGED <<htAt, execution>>

\* The loop failed, or nothing was executed: failed.  Otherwise the last execution, whatever
\* the model says of it.
LoopReturns ==
    /\ htAt = "loop" /\ LoopEnded /\ LoopLeft
    /\ execution' = IF loopAt = "failed" \/ execution = NoExecution THEN Failed ELSE execution
    /\ htAt' = "done" /\ UNCHANGED touched

HtLoopGoesOn ==
    /\ htAt = "loop" /\ (ModelFails \/ ModelReplies \/ ModelCallsTools \/ ToolRepaired)
    /\ UNCHANGED <<htAt, execution, touched>>

HtStep ==
    \/ Deterministic \/ DeterministicRaises \/ AskLoop \/ ToolExecutes \/ ToolRaises \/ HtLoopGoesOn \/ LoopReturns

HtBegin ==
    /\ htAt = "idle" /\ htAt' = "begun"
    /\ UNCHANGED <<execution, touched, loopVars>>

HtEnd ==
    /\ htAt \in {"done", "raised"} /\ htAt' = "idle"
    /\ execution' = NoExecution /\ touched' = {} /\ UNCHANGED loopVars

\* What a task reports as wholly done was done: every device the report names was changed,
\* however many commands the model had executed before and after, and whatever failed
\* (home_assistant.py 610-649, 810-822).
SuccessHappened ==
    htAt = "done" /\ execution.status = "ok" => execution.devices \subseteq touched

=============================================================================
