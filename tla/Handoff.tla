------------------------------ MODULE Handoff ------------------------------
(***************************************************************************)
(* What ai_server/conversations/rendezvous.py promises its callers: a      *)
(* zero-capacity handoff.  An item is offered, and then exactly one of     *)
(* three things becomes of it: it is handed to one receiver, its sender    *)
(* withdraws it, or the closing of the handoff refuses it.  Items leave in *)
(* the order in which they were offered, and nothing is offered or handed  *)
(* over after the close.                                                   *)
(***************************************************************************)
EXTENDS Naturals, Sequences

CONSTANT Item

VARIABLES offered,   \* the items on offer, oldest first
          fate,      \* what became of each item
          open       \* FALSE once the handoff is closed

vars == <<offered, fate, open>>

Fates == {"none", "offered", "delivered", "withdrawn", "refused"}

Init ==
    /\ offered = <<>>
    /\ fate = [i \in Item |-> "none"]
    /\ open = TRUE

Offer(i) ==
    /\ open
    /\ fate[i] = "none"
    /\ offered' = Append(offered, i)
    /\ fate' = [fate EXCEPT ![i] = "offered"]
    /\ UNCHANGED open

\* The item is handed over in the step in which it is offered.
Deliver ==
    /\ open
    /\ offered # <<>>
    /\ fate' = [fate EXCEPT ![Head(offered)] = "delivered"]
    /\ offered' = Tail(offered)
    /\ UNCHANGED open

Withdraw(i) ==
    /\ fate[i] = "offered"
    /\ \E k \in DOMAIN offered :
         /\ offered[k] = i
         /\ offered' = SubSeq(offered, 1, k - 1)
                         \o SubSeq(offered, k + 1, Len(offered))
    /\ fate' = [fate EXCEPT ![i] = "withdrawn"]
    /\ UNCHANGED open

Refuse(i) ==
    /\ ~open
    /\ fate[i] = "none"
    /\ fate' = [fate EXCEPT ![i] = "refused"]
    /\ UNCHANGED <<offered, open>>

Close ==
    /\ open
    /\ open' = FALSE
    /\ fate' = [i \in Item |->
                  IF fate[i] = "offered" THEN "refused" ELSE fate[i]]
    /\ offered' = <<>>

Next ==
    \/ \E i \in Item : Offer(i) \/ Withdraw(i) \/ Refuse(i)
    \/ Deliver
    \/ Close

Spec == Init /\ [][Next]_vars
=============================================================================
