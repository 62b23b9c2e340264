----------------------------- MODULE Rendezvous -----------------------------
(***************************************************************************)
(* ai_server/conversations/rendezvous.py: the handoff that carries user    *)
(* messages to an agent worker and agent events back to the bridge.        *)
(*                                                                         *)
(* A member of SendCall (ReceiveCall) is one call of send() (receive()).   *)
(* The condition's lock is released before every suspension of a call, so  *)
(* a critical section is one step; what interleaves is the wake-up of a    *)
(* suspended call, the cancellation of the task that runs it, and close(). *)
(***************************************************************************)
EXTENDS Naturals, SequencesExt

CONSTANTS SendCall, ReceiveCall, NoCall

ASSUME CallAssumption == NoCall \notin SendCall

VARIABLES
    offers,      \* _offers: the calls whose offer waits, oldest first
    closed,      \* _closed is set
    accepted,    \* each offer's `accepted` future
    sender,      \* where each send() call is
    receiver,    \* where each receive() call is
    notified,    \* the waiting receive() calls the condition has notified
    cancelled,   \* the suspended calls whose task was asked to cancel
    received     \* the offer each receive() call returned

vars == <<offers, closed, accepted, sender, receiver, notified, cancelled,
          received>>

FutureStates == {"none", "pending", "result", "exception", "cancelled"}
SenderStates == {"idle", "offering", "sent", "closed", "cancelled"}
ReceiverStates == {"idle", "waiting", "received", "closed", "cancelled"}

TypeOK ==
    /\ offers \in Seq(SendCall)
    /\ closed \in BOOLEAN
    /\ accepted \in [SendCall -> FutureStates]
    /\ sender \in [SendCall -> SenderStates]
    /\ receiver \in [ReceiveCall -> ReceiverStates]
    /\ notified \subseteq ReceiveCall
    /\ cancelled \subseteq SendCall \cup ReceiveCall
    /\ received \in [ReceiveCall -> SendCall \cup {NoCall}]

Init ==
    /\ offers = <<>>
    /\ closed = FALSE
    /\ accepted = [s \in SendCall |-> "none"]
    /\ sender = [s \in SendCall |-> "idle"]
    /\ receiver = [r \in ReceiveCall |-> "idle"]
    /\ notified = {}
    /\ cancelled = {}
    /\ received = [r \in ReceiveCall |-> NoCall]

-----------------------------------------------------------------------------
(* send()                                                                  *)

Waiting == {r \in ReceiveCall : receiver[r] = "waiting"}

\* Seeded fault: nobody is notified.
NotifyNobody == UNCHANGED notified

NotifyAll == notified' = notified \cup Waiting

SendOffer(s) ==
    /\ sender[s] = "idle"
    /\ ~closed
    /\ offers' = Append(offers, s)
    /\ accepted' = [accepted EXCEPT ![s] = "pending"]
    /\ sender' = [sender EXCEPT ![s] = "offering"]
    /\ NotifyAll
    /\ UNCHANGED <<closed, receiver, cancelled, received>>

SendOnClosed(s) ==
    /\ sender[s] = "idle"
    /\ closed
    /\ sender' = [sender EXCEPT ![s] = "closed"]
    /\ UNCHANGED <<offers, closed, accepted, receiver, notified, cancelled,
                   received>>

\* Seeded fault: a cancelled call always reports that it was cancelled.
SenderOutcomeCancelled(s) ==
    IF s \in cancelled THEN "cancelled"
    ELSE IF accepted[s] = "result" THEN "sent" ELSE "closed"

\* What `await asyncio.shield(offer.accepted)` does on a resolved future.
SenderOutcome(s) == IF accepted[s] = "result" THEN "sent" ELSE "closed"

\* The future is resolved.  A CancelledError at the first await changes
\* nothing: the offer has left the queue, the second await answers what the
\* future says, and the cancellation is dropped.
SendReturn(s) ==
    /\ sender[s] = "offering"
    /\ accepted[s] # "pending"
    /\ sender' = [sender EXCEPT ![s] = SenderOutcome(s)]
    /\ UNCHANGED <<offers, closed, accepted, receiver, notified, cancelled,
                   received>>

\* CancelledError at the await, the offer still in the queue.
SendWithdraw(s) ==
    /\ sender[s] = "offering"
    /\ s \in cancelled
    /\ \E k \in DOMAIN offers :
         /\ offers[k] = s
         /\ offers' = RemoveAt(offers, k)
    /\ accepted' = [accepted EXCEPT ![s] = "cancelled"]
    /\ sender' = [sender EXCEPT ![s] = "cancelled"]
    /\ UNCHANGED <<closed, receiver, notified, cancelled, received>>

-----------------------------------------------------------------------------
(* receive()                                                               *)

\* Seeded fault: the newest offer is taken.
TakenLast == Last(offers)

TakenOffer == Head(offers)

\* Seeded fault: the offer is read but stays in the queue.
OffersLeftUnpopped == offers

OffersLeft == Tail(offers)

\* Seeded fault: a raw future state where a call state belongs.
EmptyHandedRaw == IF closed THEN "exception" ELSE "waiting"

EmptyHanded == IF closed THEN "closed" ELSE "waiting"

\* The body of the `while not self._offers` loop, and what follows it.
TakeOrWait(r) ==
    \/ /\ offers # <<>>
       /\ accepted' = [accepted EXCEPT ![TakenOffer] = "result"]
       /\ received' = [received EXCEPT ![r] = TakenOffer]
       /\ offers' = OffersLeft
       /\ receiver' = [receiver EXCEPT ![r] = "received"]
    \/ /\ offers = <<>>
       /\ receiver' = [receiver EXCEPT ![r] = EmptyHanded]
       /\ UNCHANGED <<offers, accepted, received>>

ReceiveEnter(r) ==
    /\ receiver[r] = "idle"
    /\ TakeOrWait(r)
    /\ UNCHANGED <<closed, sender, notified, cancelled>>

ReceiveWake(r) ==
    /\ receiver[r] = "waiting"
    /\ r \in notified
    /\ r \notin cancelled
    /\ TakeOrWait(r)
    /\ notified' = notified \ {r}
    /\ UNCHANGED <<closed, sender, cancelled>>

ReceiveCancelled(r) ==
    /\ receiver[r] = "waiting"
    /\ r \in cancelled
    /\ receiver' = [receiver EXCEPT ![r] = "cancelled"]
    /\ notified' = notified \ {r}
    /\ UNCHANGED <<offers, closed, accepted, sender, cancelled, received>>

-----------------------------------------------------------------------------
(* close() and the cancellation of a caller's task                         *)

Close ==
    /\ ~closed
    /\ closed' = TRUE
    /\ accepted' = [s \in SendCall |->
                      IF s \in Range(offers) /\ accepted[s] = "pending"
                      THEN "exception" ELSE accepted[s]]
    /\ offers' = <<>>
    /\ NotifyAll
    /\ UNCHANGED <<sender, receiver, cancelled, received>>

Suspended ==
    {s \in SendCall : sender[s] = "offering"} \cup Waiting

Cancel(c) ==
    /\ c \in Suspended \ cancelled
    /\ cancelled' = cancelled \cup {c}
    /\ UNCHANGED <<offers, closed, accepted, sender, receiver, notified,
                   received>>

-----------------------------------------------------------------------------

SendStep(s) ==
    SendOffer(s) \/ SendOnClosed(s) \/ SendReturn(s) \/ SendWithdraw(s)

ReceiveStep(r) == ReceiveEnter(r) \/ ReceiveWake(r) \/ ReceiveCancelled(r)

Next ==
    \/ \E s \in SendCall : SendStep(s)
    \/ \E r \in ReceiveCall : ReceiveStep(r)
    \/ Close
    \/ \E c \in SendCall \cup ReceiveCall : Cancel(c)

Spec == Init /\ [][Next]_vars

\* The event loop resumes every call whose future is done; nobody is obliged
\* to call, to cancel or to close.
Resume(s) == SendReturn(s) \/ SendWithdraw(s)

Fairness ==
    /\ \A s \in SendCall : WF_vars(Resume(s))
    /\ \A r \in ReceiveCall : WF_vars(ReceiveWake(r) \/ ReceiveCancelled(r))

FairSpec == Spec /\ Fairness

-----------------------------------------------------------------------------
(* Properties                                                              *)

Taken == {s \in SendCall : \E r \in ReceiveCall : received[r] = s}

\* send() reports success for exactly the items a receive() returned: the
\* cancellation or the close that races the receiver can neither make a
\* delivered item look undelivered nor the reverse (the comment at
\* rendezvous.py:46).  A call that is still suspended has not reported.
SenderTellsTheTruth ==
    \A s \in SendCall :
        /\ sender[s] = "sent" => s \in Taken
        /\ sender[s] \in {"cancelled", "closed"} => s \notin Taken

\* No two receive() calls return the same offer.
DeliveredOnce ==
    \A r, q \in ReceiveCall :
        received[r] = received[q] /\ received[r] # NoCall => r = q

\* No wake-up is lost: a receive() call sleeps without a notification only
\* while there is nothing it could do, neither an offer nor a close.
NoLostWakeup ==
    \A r \in Waiting \ notified : offers = <<>> /\ ~closed

\* An offer is queued exactly as long as its future is undecided, so that
\* nobody waits for a future that no receiver and no close() can reach.
QueuedIffPending ==
    /\ \A i, j \in DOMAIN offers : offers[i] = offers[j] => i = j
    /\ \A s \in SendCall :
         accepted[s] = "pending" <=> \E k \in DOMAIN offers : offers[k] = s

\* close() releases every suspended call.
CloseReleasesAll == closed ~> (Suspended = {})

\* A taken offer's sender returns, and returns success, even when cancelled.
TakenIsReported ==
    \A s \in SendCall : (s \in Taken) ~> (sender[s] = "sent")

\* The rendezvous implements the abstract handoff.  The fate of an offer is
\* decided by its future, before its sender learns of it.
FateOfUndecided ==
    [pending |-> "offered", result |-> "delivered", exception |-> "refused"]

FateOfReturned ==
    [idle |-> "none", closed |-> "refused", cancelled |-> "withdrawn",
     sent |-> "delivered"]

Fate(s) == IF sender[s] = "offering" THEN FateOfUndecided[accepted[s]]
                                     ELSE FateOfReturned[sender[s]]

H == INSTANCE Handoff WITH
        Item <- SendCall,
        offered <- offers,
        fate <- [s \in SendCall |-> Fate(s)],
        open <- ~closed

ImplementsHandoff == H!Spec
=============================================================================
