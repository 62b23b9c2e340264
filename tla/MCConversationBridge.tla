----------------------- MODULE MCConversationBridge -----------------------
(***************************************************************************)
(* Model-checking instances of ConversationBridge, and what the protocol   *)
(* document expects of it in three situations where the code differs.       *)
(***************************************************************************)
EXTENDS ConversationBridge

-----------------------------------------------------------------------------
(* Expectations of the documentation that the code does not meet           *)

\* A later turn may stream an assistant message like the first.
LaterTurnMayStream == failure # "sink"

\* A conversation may ask for more than one follow-up.
FollowUpMayRepeat == failure # "follow_up"

\* A client that disconnects, or a session that closes, ends its text
\* conversation but not the process.
DisconnectContained == failure \notin {"session_closed", "acknowledge"}
=============================================================================
