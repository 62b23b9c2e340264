----------------------------- MODULE InputPort -----------------------------
(***************************************************************************)
(* What the bridge may rely on about an input conversation while its       *)
(* standing receive_control() call is open: which control event can        *)
(* replace which, and when the user's answer to a follow-up comes through.  *)
(* It is the contract of ai_server/conversations/interfaces.py and of the   *)
(* protocol document.  WebsocketSession and VoiceSession implement it, and  *)
(* ConversationBridge uses an input that does.                              *)
(***************************************************************************)
CONSTANTS
    Outcomes,   \* what the user answers to a follow-up, or does not answer
    Cancelled,  \* the client cancels: only into an empty queue
    Failed,     \* the input fails: anything but a close gives way to it
    Closed      \* the session closes: everything gives way to it

VARIABLES
    ear,        \* the receive_control() call: "none", "pending", or what it returned
    queue,      \* the one-slot control queue
    gate        \* a follow-up is "shut", "asked" for, or acknowledged: "waiting"

portVars == <<ear, queue, gate>>

Nothing == "none"
Terminal == {Cancelled, Failed, Closed}

PortTypeOK ==
    /\ ear \in {"none", "pending"} \cup Outcomes \cup Terminal
    /\ queue \in {Nothing} \cup Outcomes \cup Terminal
    /\ gate \in {"shut", "asked", "waiting"}

Init == ear = "none" /\ queue = Nothing /\ gate = "shut"

\* The conversation reaches the bridge; by then it may have been ended, never answered.
Begin ==
    /\ ear = "none"
    /\ ear' = "pending" /\ queue' \in {Nothing} \cup Terminal /\ gate' = "shut"

\* The bridge asks for a follow-up, and acknowledges that it waits for the outcome,
\* which may have been held back till then.
Ask ==
    /\ gate = "shut" /\ ear # "none"
    /\ gate' = "asked" /\ UNCHANGED <<ear, queue>>

Acknowledge ==
    /\ gate = "asked" /\ ear # "none"
    /\ gate' = "waiting" /\ UNCHANGED ear
    /\ queue' = queue \/ (queue = Nothing /\ ear = "pending" /\ queue' \in Outcomes)

\* The request did not come about; the bridge has heard or will hear why.
Withdraw ==
    /\ gate = "asked" /\ ear # "none"
    /\ gate' = "shut" /\ UNCHANGED <<ear, queue>>

Answer ==
    /\ gate = "waiting" /\ ear \notin {"none"} \cup Outcomes /\ queue = Nothing
    /\ queue' \in Outcomes /\ UNCHANGED <<ear, gate>>

Interrupt ==
    /\ ear # "none"
    /\ \/ queue = Nothing /\ queue' = Cancelled
       \/ queue # Closed /\ queue' = Failed
       \/ queue' = Closed
    /\ UNCHANGED <<ear, gate>>

Hear ==
    /\ ear = "pending" /\ queue # Nothing
    /\ ear' = queue /\ queue' = Nothing /\ UNCHANGED gate

\* The answer starts the next turn, and the bridge listens again.
Resume ==
    /\ ear \in Outcomes /\ gate = "waiting"
    /\ ear' = "pending" /\ gate' = "shut" /\ UNCHANGED queue

\* The bridge ends the conversation and listens no longer.
GiveUp ==
    /\ ear # "none"
    /\ ear' = "none" /\ queue' = Nothing /\ gate' = "shut"

Next ==
    \/ Begin \/ Ask \/ Acknowledge \/ Withdraw \/ Answer \/ Interrupt
    \/ Hear \/ Resume \/ GiveUp

Spec == Init /\ [][Next]_portVars

-----------------------------------------------------------------------------
\* What follows for whoever keeps the contract.

\* An outcome is never on its way to a bridge that does not wait for it.
OutcomesAwaited == (ear \in Outcomes \/ queue \in Outcomes) => gate = "waiting"

\* Once the session has closed, that stays what the bridge hears next, unless it ends
\* the conversation without listening.
CloseComesThrough ==
    [][(queue = Closed /\ queue' # Closed) => ear' \in {Closed, "none"}]_portVars
=============================================================================
