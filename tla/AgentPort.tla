----------------------------- MODULE AgentPort -----------------------------
(***************************************************************************)
(* What the bridge may rely on about an agent conversation: when it takes  *)
(* a user message, in which order its events come, how it stops.  It is    *)
(* the contract of ai_server/conversations/interfaces.py and the protocol  *)
(* document; AgentRuntime implements it, and ConversationBridge uses an    *)
(* agent that does.                                                        *)
(***************************************************************************)

VARIABLE agent

Running == {"waiting", "active", "streaming", "streamed", "ended", "failing",
            "dead"}

Init == agent = "absent"

Step(from, to) == agent = from /\ agent' = to

Enter == Step("absent", "waiting")

Accept == Step("waiting", "active")

\* At most one stream per turn, then exactly one disposition.
Emit ==
    \/ Step("active", "streaming")
    \/ Step("streaming", "streamed")
    \/ agent \in {"active", "streamed"} /\ agent' \in {"waiting", "ended"}
    \/ Step("failing", "dead")

\* The worker stops by itself, in a turn only after announcing it - unless it
\* simply returns.
Fail ==
    \/ agent \in {"waiting", "active", "streaming", "streamed"}
          /\ agent' = "dead"
    \/ agent \in {"active", "streaming", "streamed"} /\ agent' = "failing"

\* It is cancelled, or its scope is left.
Stop == agent \in Running /\ agent' = "stopped"

Next == Enter \/ Accept \/ Emit \/ Fail \/ Stop

Spec == Init /\ [][Next]_agent
=============================================================================
