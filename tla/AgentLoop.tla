----------------------------- MODULE AgentLoop -----------------------------
(***************************************************************************)
(* One message to an agent loop: the model is asked, the tools it calls run *)
(* one after the other, each call is answered in the history, and the model *)
(* is asked again, until it replies in words or a limit is reached.  A tool *)
(* acts on the world, so that the number of runs matters.                   *)
(***************************************************************************)
EXTENDS Naturals, Sequences

CONSTANTS
    MaxToolCalls,       \* max_tool_calls_per_message
    MaxRepairs          \* max_tool_repair_attempts

ASSUME LoopAssumption == MaxToolCalls \in Nat \ {0} /\ MaxRepairs \in Nat

VARIABLES
    loopAt,         \* where send_user_message() is
    todo,           \* the tool calls of the last assistant message still to do
    calls,          \* tool_calls_this_message
    repairs,        \* repair_attempts
    effects,        \* tools that have run
    answered        \* tool messages in the history

loopVars == <<loopAt, todo, calls, repairs, effects, answered>>

LoopInit ==
    /\ loopAt = "idle" /\ todo = <<>>
    /\ calls = 0 /\ repairs = 0 /\ effects = 0 /\ answered = 0

LoopEnded == loopAt \in {"replied", "failed"}

\* send_user_message()
LoopStarts ==
    /\ loopAt = "idle" /\ loopAt' = "asking"
    /\ UNCHANGED <<todo, calls, repairs, effects, answered>>

\* The loop is left, and its counts are forgotten.
LoopLeft ==
    /\ LoopEnded /\ loopAt' = "idle" /\ todo' = <<>>
    /\ calls' = 0 /\ repairs' = 0 /\ effects' = 0 /\ answered' = 0

\* _send_chat_request(): no response before the deadline, or one that is not finished or
\* cannot be read, gives up.
ModelFails ==
    /\ loopAt = "asking" /\ loopAt' = "failed"
    /\ UNCHANGED <<todo, calls, repairs, effects, answered>>

ModelReplies ==
    /\ loopAt = "asking" /\ loopAt' = "replied"
    /\ UNCHANGED <<todo, calls, repairs, effects, answered>>

\* Seeded fault: the limit is on the calls of one response.
OverBudgetOnce(n) == n > MaxToolCalls

OverBudget(n) == calls + n > MaxToolCalls

\* A call is well formed or not; a call of an unknown tool or with arguments that do not
\* match the signature is refused by the tool set and is as good as malformed.
ToolCallKinds == {"fine", "malformed"}

ModelCallsTools ==
    /\ loopAt = "asking"
    /\ \E n \in 1..(MaxToolCalls + 1) : \E batch \in [1..n -> ToolCallKinds] :
         IF OverBudget(n)
         THEN loopAt' = "failed" /\ UNCHANGED <<todo, calls>>
         ELSE /\ loopAt' = "tools" /\ todo' = batch
              /\ calls' = calls + n
    /\ UNCHANGED <<repairs, effects, answered>>

\* The next call is answered in the history; after the last one the model is asked again.
NextCall == /\ todo' = Tail(todo)
         /\ loopAt' = IF Len(todo) = 1 THEN "asking" ELSE "tools"

\* The tool runs; it returns, or fails with anything but a ValueError, which costs nothing.
ToolRuns ==
    /\ loopAt = "tools" /\ Head(todo) = "fine"
    /\ effects' = effects + 1 /\ answered' = answered + 1
    /\ NextCall
    /\ UNCHANGED <<calls, repairs>>

\* Seeded fault: a call that is to be repaired is not answered.
RepairedInSilence ==
    /\ loopAt = "tools"
    /\ repairs' = repairs + 1
    /\ IF repairs' > MaxRepairs THEN loopAt' = "failed" /\ UNCHANGED todo ELSE NextCall
    /\ UNCHANGED <<calls, effects, answered>>

\* A malformed call, or a ValueError of the tool: the model may try again.
ToolRepaired ==
    /\ loopAt = "tools"
    /\ repairs' = repairs + 1
    /\ IF repairs' > MaxRepairs THEN loopAt' = "failed" /\ UNCHANGED <<todo, answered>>
       ELSE answered' = answered + 1 /\ NextCall
    /\ UNCHANGED <<calls, effects>>

LoopNext ==
    \/ LoopStarts \/ LoopLeft
    \/ ModelFails \/ ModelReplies \/ ModelCallsTools
    \/ ToolRuns \/ ToolRepaired

LoopSpec == LoopInit /\ [][LoopNext]_loopVars

LoopTypeOK ==
    /\ loopAt \in {"idle", "asking", "tools", "replied", "failed"}
    /\ todo \in Seq(ToolCallKinds)
    /\ calls \in 0..MaxToolCalls /\ repairs \in 0..MaxRepairs + 1
    /\ effects \in Nat /\ answered \in Nat

\* The model is never asked with a tool call of its own left unanswered, whatever became of
\* the call (agent_loop.py 151-222), and the tools never run more often than the limit
\* allows over all its responses (agent_loop.py 151-166).
HistoryIsComplete == loopAt = "asking" => answered = calls
EffectsAreBounded == effects <= MaxToolCalls

=============================================================================
