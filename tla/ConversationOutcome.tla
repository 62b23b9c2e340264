------------------------ MODULE ConversationOutcome ------------------------
(***************************************************************************)
(* What a conversation amounts to for the user and for the process, as     *)
(* docs/ai-server-conversation-protocol.md and bridge.py have it: at most  *)
(* one worker is engaged, one verdict is told and never revised, a verdict *)
(* that the input side brought about is told only when the worker has      *)
(* stopped, and the conversation is over when both are done with - or the  *)
(* whole process is.                                                       *)
(***************************************************************************)
CONSTANTS InputReason,  \* the verdicts of the input side
          OtherReason,  \* the other verdicts of a conversation
          Internal,     \* the verdict of a dying process
          NoVerdict

VARIABLES worker, verdict, over

vars == <<worker, verdict, over>>

Init ==
    /\ worker = "none"
    /\ verdict = NoVerdict
    /\ over = "no"

Engage ==
    /\ over = "no"
    /\ verdict = NoVerdict
    /\ worker = "none"
    /\ worker' = "running"
    /\ UNCHANGED <<verdict, over>>

Stop ==
    /\ worker = "running"
    /\ worker' = "stopped"
    /\ UNCHANGED <<verdict, over>>

Tell(v) ==
    /\ over = "no"
    /\ verdict = NoVerdict
    /\ v \in InputReason => worker # "running"
    /\ verdict' = v
    /\ UNCHANGED <<worker, over>>

Close ==
    /\ over = "no"
    /\ verdict # NoVerdict
    /\ worker # "running"
    /\ over' = "closed"
    /\ UNCHANGED <<worker, verdict>>

Terminate ==
    /\ over = "no"
    /\ over' = "terminated"
    /\ verdict' = IF verdict = NoVerdict THEN Internal ELSE verdict
    /\ UNCHANGED worker

Next ==
    \/ Engage \/ Stop \/ Close \/ Terminate
    \/ \E v \in InputReason \cup OtherReason : Tell(v)

Spec == Init /\ [][Next]_vars
=============================================================================
