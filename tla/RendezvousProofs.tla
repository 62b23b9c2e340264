-------------------------- MODULE RendezvousProofs --------------------------
(***************************************************************************)
(* Proofs about Rendezvous for any number of calls.  The invariant ties    *)
(* the four places that know about an offer - the queue, its future, the   *)
(* sender and the receiver - to one another; none of the properties is     *)
(* inductive without it.                                                   *)
(***************************************************************************)
EXTENDS Rendezvous, TLAPS

\* What a suspended or finished sender's future can be.
FutureOfSender ==
    \A s \in SendCall :
        /\ sender[s] = "idle" => accepted[s] = "none"
        /\ sender[s] = "offering" =>
                accepted[s] \in {"pending", "result", "exception"}
        /\ sender[s] = "sent" => accepted[s] = "result"
        /\ sender[s] = "closed" => accepted[s] \in {"none", "exception"}
        /\ sender[s] = "cancelled" => accepted[s] = "cancelled"

ResultIffTaken ==
    /\ \A s \in SendCall : accepted[s] = "result" <=> s \in Taken
    /\ \A r \in ReceiveCall : received[r] # NoCall <=> receiver[r] = "received"

ClosedIsEmpty == closed => offers = <<>>

NotifiedWait == notified \subseteq Waiting

IInv ==
    /\ TypeOK
    /\ QueuedIffPending
    /\ FutureOfSender
    /\ ResultIffTaken
    /\ ClosedIsEmpty
    /\ NotifiedWait
    /\ DeliveredOnce
    /\ NoLostWakeup

-----------------------------------------------------------------------------
(* Lemmas about the queue                                                  *)

\* Taking the oldest offer shifts the others by one.
LEMMA TailFacts ==
    ASSUME NEW S, NEW q \in Seq(S), q # <<>>
    PROVE  /\ Tail(q) \in Seq(S)
           /\ Head(q) \in S
           /\ Head(q) = q[1]
           /\ 1 \in DOMAIN q
           /\ DOMAIN Tail(q) = 1 .. (Len(q) - 1)
           /\ \A k \in DOMAIN Tail(q) : k + 1 \in DOMAIN q /\ Tail(q)[k] = q[k + 1]
  OBVIOUS

\* Removing position k keeps every other element once.
LEMMA RemoveAtFacts ==
    ASSUME NEW S, NEW q \in Seq(S), NEW k \in DOMAIN q
    PROVE  /\ RemoveAt(q, k) \in Seq(S)
           /\ DOMAIN RemoveAt(q, k) = 1 .. (Len(q) - 1)
           /\ \A i \in 1 .. (Len(q) - 1) :
                RemoveAt(q, k)[i] = IF i < k THEN q[i] ELSE q[i + 1]
<1> DEFINE left == SubSeq(q, 1, k - 1)
           right == SubSeq(q, k + 1, Len(q))
<1>1. k \in 1 .. Len(q) /\ Len(q) \in Nat
  OBVIOUS
<1>2. left \in Seq(S) /\ Len(left) = k - 1
  BY <1>1
<1>3. right \in Seq(S) /\ Len(right) = Len(q) - k
  BY <1>1
<1>4. RemoveAt(q, k) = left \o right
  BY DEF RemoveAt
<1>5. \A i \in 1 .. (k - 1) : left[i] = q[i]
  BY <1>1
<1>6. \A i \in 1 .. (Len(q) - k) : right[i] = q[i + k]
  BY <1>1
<1> HIDE DEF left, right
<1>7. left \o right \in Seq(S) /\ Len(left \o right) = Len(q) - 1
  BY <1>1, <1>2, <1>3
<1>8. \A i \in 1 .. (Len(q) - 1) :
        (left \o right)[i] = IF i < k THEN left[i] ELSE right[i - k + 1]
  BY <1>1, <1>2, <1>3
<1>9. \A i \in 1 .. (Len(q) - 1) :
        (left \o right)[i] = IF i < k THEN q[i] ELSE q[i + 1]
  <2> SUFFICES ASSUME NEW i \in 1 .. (Len(q) - 1)
               PROVE (left \o right)[i] = IF i < k THEN q[i] ELSE q[i + 1]
    OBVIOUS
  <2>1. CASE i < k
    <3>1. i \in 1 .. (k - 1)
      BY <1>1, <2>1
    <3> QED
      BY <1>5, <1>8, <2>1, <3>1
  <2>2. CASE ~(i < k)
    <3>1. i - k + 1 \in 1 .. (Len(q) - k) /\ (i - k + 1) + k = i + 1
      BY <1>1, <2>2
    <3> QED
      BY <1>6, <1>8, <2>2, <3>1
  <2> QED
    BY <2>1, <2>2
<1> QED
  BY <1>1, <1>4, <1>7, <1>9

-----------------------------------------------------------------------------
(* The invariant is inductive: one lemma per action                        *)

USE CallAssumption DEF FutureStates, SenderStates, ReceiverStates,
    FateOfUndecided, FateOfReturned

LEMMA InitIInv == Init => IInv
<1> SUFFICES ASSUME Init PROVE IInv
  OBVIOUS
<1> USE DEF Init
<1>1. TypeOK
  <2>1. offers \in Seq(SendCall)
    OBVIOUS
  <2>2. accepted \in [SendCall -> FutureStates]
    OBVIOUS
  <2>3. sender \in [SendCall -> SenderStates]
    OBVIOUS
  <2>4. receiver \in [ReceiveCall -> ReceiverStates]
    OBVIOUS
  <2>5. received \in [ReceiveCall -> SendCall \cup {NoCall}]
    OBVIOUS
  <2> QED
    BY <2>1, <2>2, <2>3, <2>4, <2>5 DEF TypeOK
<1>2. DOMAIN offers = {}
  OBVIOUS
<1>3. QueuedIffPending
  BY <1>2 DEF QueuedIffPending
<1>4. FutureOfSender
  BY DEF FutureOfSender
<1>5. ResultIffTaken
  BY DEF ResultIffTaken, Taken
<1>6. ClosedIsEmpty /\ NotifiedWait /\ DeliveredOnce /\ NoLostWakeup
  BY DEF ClosedIsEmpty, NotifiedWait, DeliveredOnce, NoLostWakeup, Waiting
<1> QED
  BY <1>1, <1>3, <1>4, <1>5, <1>6 DEF IInv

LEMMA SendOfferIInv ==
    ASSUME IInv, NEW s \in SendCall, SendOffer(s)
    PROVE  IInv'
<1> USE DEF IInv, SendOffer
<1>1. TypeOK'
  BY DEF TypeOK, NotifyAll, Waiting
<1>2. /\ DOMAIN offers' = 1 .. (Len(offers) + 1)
      /\ \A k \in 1 .. Len(offers) : offers'[k] = offers[k]
      /\ offers'[Len(offers) + 1] = s
      /\ DOMAIN offers = 1 .. Len(offers)
      /\ Len(offers) \in Nat
  BY DEF TypeOK
<1>3. \A k \in DOMAIN offers : offers[k] # s
  BY DEF QueuedIffPending, FutureOfSender
<1>4. QueuedIffPending'
  <2>1. \A i, j \in DOMAIN offers' : offers'[i] = offers'[j] => i = j
    BY <1>2, <1>3 DEF QueuedIffPending
  <2>2. \A t \in SendCall :
          accepted'[t] = "pending" <=> \E k \in DOMAIN offers' : offers'[k] = t
    BY <1>2 DEF QueuedIffPending, TypeOK
  <2> QED
    BY <2>1, <2>2 DEF QueuedIffPending
<1>5. FutureOfSender'
  BY DEF FutureOfSender, TypeOK
<1>6. ResultIffTaken'
  BY DEF ResultIffTaken, FutureOfSender, Taken, TypeOK
<1>7. ClosedIsEmpty' /\ DeliveredOnce'
  BY DEF ClosedIsEmpty, DeliveredOnce
<1>8. NotifiedWait' /\ NoLostWakeup'
  BY DEF NotifiedWait, NoLostWakeup, NotifyAll, Waiting
<1> QED
  BY <1>1, <1>4, <1>5, <1>6, <1>7, <1>8

\* A step of a sender that leaves the queue, the futures and the receivers
\* alone.
LEMMA SenderReturnsIInv ==
    ASSUME IInv, NEW s \in SendCall, SendOnClosed(s) \/ SendReturn(s)
    PROVE  IInv'
<1> USE DEF IInv, SendOnClosed, SendReturn, SenderOutcome
<1>1. UNCHANGED <<offers, closed, accepted, receiver, notified, cancelled,
                  received>>
  OBVIOUS
<1>2. TypeOK'
  BY DEF TypeOK
<1>3. FutureOfSender'
  BY DEF FutureOfSender, TypeOK
<1> QED
  BY <1>1, <1>2, <1>3 DEF QueuedIffPending, ResultIffTaken, ClosedIsEmpty,
     NotifiedWait, DeliveredOnce, NoLostWakeup, Taken, Waiting

LEMMA SendWithdrawIInv ==
    ASSUME IInv, NEW s \in SendCall, SendWithdraw(s)
    PROVE  IInv'
<1> USE DEF IInv
<1>1. PICK k \in DOMAIN offers : offers[k] = s /\ offers' = RemoveAt(offers, k)
  BY DEF SendWithdraw
<1>2. /\ offers' \in Seq(SendCall)
      /\ DOMAIN offers' = 1 .. (Len(offers) - 1)
      /\ \A i \in 1 .. (Len(offers) - 1) :
            offers'[i] = IF i < k THEN offers[i] ELSE offers[i + 1]
  BY <1>1, RemoveAtFacts DEF TypeOK
<1>3. DOMAIN offers = 1 .. Len(offers) /\ Len(offers) \in Nat
  BY DEF TypeOK
<1>4. TypeOK'
  BY <1>2 DEF SendWithdraw, TypeOK
<1>5. accepted[s] = "pending"
  BY <1>1 DEF QueuedIffPending
<1>6. QueuedIffPending'
  <2>1. ASSUME NEW i \in DOMAIN offers', NEW j \in DOMAIN offers',
               offers'[i] = offers'[j]
        PROVE  i = j
    <3> DEFINE Old(n) == IF n < k THEN n ELSE n + 1
    <3>1. \A n \in DOMAIN offers' :
            Old(n) \in DOMAIN offers /\ offers'[n] = offers[Old(n)]
      BY <1>2, <1>3
    <3>2. Old(i) = Old(j)
      <4> HIDE DEF Old
      <4> QED
        BY <2>1, <3>1 DEF QueuedIffPending
    <3> QED
      BY <1>2, <1>3, <3>2
  <2>2. ASSUME NEW t \in SendCall
        PROVE  accepted'[t] = "pending" <=>
                 \E i \in DOMAIN offers' : offers'[i] = t
    <3>1. CASE t = s
      <4>1. accepted'[t] = "cancelled"
        BY <3>1 DEF SendWithdraw, TypeOK
      <4>2. \A i \in DOMAIN offers' : offers'[i] # t
        <5> SUFFICES ASSUME NEW i \in DOMAIN offers', offers'[i] = s
                     PROVE  FALSE
          BY <3>1
        <5>1. CASE i < k
          <6>1. i \in DOMAIN offers /\ offers[i] = s
            BY <1>2, <1>3, <5>1
          <6> QED
            BY <1>1, <1>3, <5>1, <6>1 DEF QueuedIffPending
        <5>2. CASE ~(i < k)
          <6>1. i + 1 \in DOMAIN offers /\ offers[i + 1] = s
            BY <1>2, <1>3, <5>2
          <6>2. i + 1 = k
            BY <1>1, <6>1 DEF QueuedIffPending
          <6> QED
            BY <1>2, <1>3, <5>2, <6>2
        <5> QED
          BY <5>1, <5>2
      <4> QED
        BY <4>1, <4>2
    <3>2. CASE t # s
      <4>1. accepted'[t] = accepted[t]
        BY <3>2 DEF SendWithdraw, TypeOK
      <4>2. ASSUME NEW i \in DOMAIN offers, offers[i] = t
            PROVE  \E j \in DOMAIN offers' : offers'[j] = t
        <5>1. CASE i < k
          <6>1. i \in DOMAIN offers' /\ offers'[i] = t
            BY <1>2, <1>3, <4>2, <5>1
          <6> QED
            BY <6>1
        <5>2. CASE i > k
          <6>1. i - 1 \in DOMAIN offers' /\ offers'[i - 1] = t
            BY <1>2, <1>3, <4>2, <5>2
          <6> QED
            BY <6>1
        <5>3. i # k
          BY <1>1, <3>2, <4>2
        <5>4. i < k \/ i > k
          BY <1>3, <5>3
        <5> QED
          BY <5>1, <5>2, <5>4
      <4>3. ASSUME NEW j \in DOMAIN offers', offers'[j] = t
            PROVE  \E i \in DOMAIN offers : offers[i] = t
        <5>1. CASE j < k
          BY <1>2, <1>3, <4>3, <5>1
        <5>2. CASE ~(j < k)
          <6>1. j + 1 \in DOMAIN offers /\ offers[j + 1] = t
            BY <1>2, <1>3, <4>3, <5>2
          <6> QED
            BY <6>1
        <5> QED
          BY <5>1, <5>2
      <4> QED
        BY <4>1, <4>2, <4>3 DEF QueuedIffPending
    <3> QED
      BY <3>1, <3>2
  <2> QED
    BY <2>1, <2>2 DEF QueuedIffPending
<1>7. FutureOfSender'
  BY DEF SendWithdraw, FutureOfSender, TypeOK
<1>8. ResultIffTaken'
  BY <1>5 DEF SendWithdraw, ResultIffTaken, Taken, TypeOK
<1>9. ClosedIsEmpty'
  BY <1>1, <1>3 DEF SendWithdraw, ClosedIsEmpty
<1>10. NotifiedWait' /\ DeliveredOnce'
  BY DEF SendWithdraw, NotifiedWait, DeliveredOnce, Waiting
<1>11. NoLostWakeup'
  BY <1>1, <1>3 DEF SendWithdraw, NoLostWakeup, Waiting
<1> QED
  BY <1>4, <1>6, <1>7, <1>8, <1>9, <1>10, <1>11

\* A receiver that is not done takes the oldest offer or goes to sleep; it
\* has used up its notification, if it was waiting.
LEMMA TakeOrWaitIInv ==
    ASSUME IInv, NEW r \in ReceiveCall, ReceiveEnter(r) \/ ReceiveWake(r)
    PROVE  IInv'
<1> USE DEF IInv
<1>1. /\ receiver[r] \in {"idle", "waiting"}
      /\ UNCHANGED <<closed, sender, cancelled>>
      /\ TakeOrWait(r)
      /\ notified' = notified \ {r}
  BY DEF ReceiveEnter, ReceiveWake, NotifiedWait, Waiting
<1>2. received[r] = NoCall
  BY <1>1 DEF ResultIffTaken, TypeOK
<1>3. CASE offers # <<>>
  <2> DEFINE s == Head(offers)
  <2>1. /\ s \in SendCall
        /\ offers' = Tail(offers)
        /\ accepted' = [accepted EXCEPT ![s] = "result"]
        /\ received' = [received EXCEPT ![r] = s]
        /\ receiver' = [receiver EXCEPT ![r] = "received"]
    BY <1>1, <1>3, TailFacts DEF TakeOrWait, TakenOffer, OffersLeft, TypeOK
  <2>2. /\ s = offers[1]
        /\ 1 \in DOMAIN offers
        /\ offers' \in Seq(SendCall)
        /\ DOMAIN offers' = 1 .. (Len(offers) - 1)
        /\ \A k \in DOMAIN offers' :
             k + 1 \in DOMAIN offers /\ offers'[k] = offers[k + 1]
        /\ DOMAIN offers = 1 .. Len(offers)
        /\ Len(offers) \in Nat
    BY <1>3, <2>1, TailFacts DEF TypeOK
  <2> HIDE DEF s
  <2>3. TypeOK'
    BY <1>1, <2>1, <2>2 DEF TypeOK
  <2>4. accepted[s] = "pending"
    BY <2>1, <2>2 DEF QueuedIffPending
  <2>5. QueuedIffPending'
    <3>1. \A i, j \in DOMAIN offers' : offers'[i] = offers'[j] => i = j
      <4> SUFFICES ASSUME NEW i \in DOMAIN offers', NEW j \in DOMAIN offers',
                          offers'[i] = offers'[j]
                   PROVE  i = j
        OBVIOUS
      <4>1. i + 1 = j + 1
        BY <2>2 DEF QueuedIffPending
      <4> QED
        BY <2>2, <4>1
    <3>2. ASSUME NEW t \in SendCall
          PROVE  accepted'[t] = "pending" <=>
                   \E k \in DOMAIN offers' : offers'[k] = t
      <4>1. CASE t = s
        <5>1. accepted'[t] = "result"
          BY <2>1, <4>1 DEF TypeOK
        <5>2. \A k \in DOMAIN offers' : offers'[k] # t
          <6> SUFFICES ASSUME NEW k \in DOMAIN offers', offers'[k] = s
                       PROVE  FALSE
            BY <4>1
          <6>1. k + 1 = 1
            BY <2>2 DEF QueuedIffPending
          <6> QED
            BY <2>2, <6>1
        <5> QED
          BY <5>1, <5>2
      <4>2. CASE t # s
        <5>1. accepted'[t] = accepted[t]
          BY <2>1, <4>2 DEF TypeOK
        <5>2. ASSUME NEW k \in DOMAIN offers, offers[k] = t
              PROVE  \E j \in DOMAIN offers' : offers'[j] = t
          <6>1. k # 1
            BY <2>2, <4>2, <5>2
          <6>2. k - 1 \in DOMAIN offers' /\ (k - 1) + 1 = k
            BY <2>2, <6>1
          <6> QED
            BY <2>2, <5>2, <6>2
        <5>3. ASSUME NEW j \in DOMAIN offers', offers'[j] = t
              PROVE  \E k \in DOMAIN offers : offers[k] = t
          BY <2>2, <5>3
        <5> QED
          BY <5>1, <5>2, <5>3 DEF QueuedIffPending
      <4> QED
        BY <4>1, <4>2
    <3> QED
      BY <3>1, <3>2 DEF QueuedIffPending
  <2>6. s \notin Taken
    BY <2>1, <2>4 DEF ResultIffTaken
  <2>7. sender[s] = "offering"
    BY <2>1, <2>4 DEF FutureOfSender, TypeOK
  <2>8. FutureOfSender'
    BY <1>1, <2>1, <2>7 DEF FutureOfSender, TypeOK
  <2>9. ResultIffTaken'
    <3>1. ASSUME NEW t \in SendCall
          PROVE  accepted'[t] = "result" <=> t \in Taken'
      <4>1. t \in Taken' <=> t \in Taken \/ t = s
        BY <1>2, <2>1 DEF Taken, TypeOK
      <4>2. accepted'[t] = "result" <=> accepted[t] = "result" \/ t = s
        BY <2>1 DEF TypeOK
      <4> QED
        BY <4>1, <4>2 DEF ResultIffTaken
    <3>2. \A q \in ReceiveCall :
            received'[q] # NoCall <=> receiver'[q] = "received"
      BY <2>1 DEF ResultIffTaken, TypeOK
    <3> QED
      BY <3>1, <3>2 DEF ResultIffTaken
  <2>10. ClosedIsEmpty'
    BY <1>1, <1>3 DEF ClosedIsEmpty
  <2>11. DeliveredOnce'
    BY <2>1, <2>6 DEF DeliveredOnce, Taken, TypeOK
  <2>12. NotifiedWait' /\ NoLostWakeup'
    BY <1>1, <1>3, <2>1 DEF NotifiedWait, NoLostWakeup, Waiting, TypeOK
  <2> QED
    BY <2>3, <2>5, <2>8, <2>9, <2>10, <2>11, <2>12
<1>4. CASE offers = <<>>
  <2>1. /\ receiver' = [receiver EXCEPT ![r] = IF closed THEN "closed"
                                               ELSE "waiting"]
        /\ UNCHANGED <<offers, accepted, received>>
    BY <1>1, <1>4 DEF TakeOrWait, EmptyHanded
  <2>2. TypeOK'
    BY <1>1, <2>1 DEF TypeOK
  <2>3. FutureOfSender' /\ QueuedIffPending' /\ ClosedIsEmpty' /\ DeliveredOnce'
    BY <1>1, <2>1
       DEF FutureOfSender, QueuedIffPending, ClosedIsEmpty, DeliveredOnce
  <2>4. ResultIffTaken'
    BY <1>1, <2>1 DEF ResultIffTaken, Taken, TypeOK
  <2>5. NotifiedWait' /\ NoLostWakeup'
    BY <1>1, <1>4, <2>1 DEF NotifiedWait, NoLostWakeup, Waiting, TypeOK
  <2> QED
    BY <2>2, <2>3, <2>4, <2>5
<1> QED
  BY <1>3, <1>4

LEMMA ReceiveCancelledIInv ==
    ASSUME IInv, NEW r \in ReceiveCall, ReceiveCancelled(r)
    PROVE  IInv'
<1> USE DEF IInv, ReceiveCancelled
<1>1. TypeOK'
  BY DEF TypeOK
<1>2. QueuedIffPending' /\ FutureOfSender' /\ ClosedIsEmpty' /\ DeliveredOnce'
  BY DEF QueuedIffPending, FutureOfSender, ClosedIsEmpty, DeliveredOnce
<1>3. ResultIffTaken'
  BY DEF ResultIffTaken, Taken, TypeOK
<1>4. NotifiedWait' /\ NoLostWakeup'
  BY DEF NotifiedWait, NoLostWakeup, Waiting, TypeOK
<1> QED
  BY <1>1, <1>2, <1>3, <1>4

LEMMA CloseIInv ==
    ASSUME IInv, Close
    PROVE  IInv'
<1> USE DEF IInv
<1>1. \A s \in SendCall :
        accepted'[s] = IF accepted[s] = "pending" THEN "exception"
                       ELSE accepted[s]
  BY DEF Close, QueuedIffPending, Range
<1>2. DOMAIN offers' = {} /\ offers' \in Seq(SendCall) /\ offers' = <<>>
  BY DEF Close
<1>3. TypeOK'
  <2>1. accepted' \in [SendCall -> FutureStates]
    BY DEF Close, TypeOK
  <2> QED
    BY <1>2, <2>1 DEF Close, TypeOK, NotifyAll, Waiting
<1>4. QueuedIffPending'
  BY <1>1, <1>2 DEF QueuedIffPending
<1>5. FutureOfSender'
  BY <1>1 DEF Close, FutureOfSender
<1>6. ResultIffTaken'
  BY <1>1 DEF Close, ResultIffTaken, Taken
<1>7. ClosedIsEmpty' /\ DeliveredOnce'
  BY <1>2 DEF Close, ClosedIsEmpty, DeliveredOnce
<1>8. NotifiedWait' /\ NoLostWakeup'
  BY DEF Close, NotifiedWait, NoLostWakeup, NotifyAll, Waiting
<1> QED
  BY <1>3, <1>4, <1>5, <1>6, <1>7, <1>8

\* The request to cancel, and a step that changes nothing.
LEMMA CancelIInv ==
    ASSUME IInv, (\E c \in SendCall \cup ReceiveCall : Cancel(c)) \/ UNCHANGED vars
    PROVE  IInv'
<1>1. /\ UNCHANGED <<offers, closed, accepted, sender, receiver, notified,
                     received>>
      /\ cancelled' \subseteq SendCall \cup ReceiveCall
  BY DEF Cancel, vars, IInv, TypeOK
<1> QED
  BY <1>1 DEF IInv, TypeOK, QueuedIffPending, FutureOfSender, ResultIffTaken,
     ClosedIsEmpty, NotifiedWait, DeliveredOnce, NoLostWakeup, Taken, Waiting

LEMMA NextIInv == IInv /\ [Next]_vars => IInv'
<1> SUFFICES ASSUME IInv, [Next]_vars PROVE IInv'
  OBVIOUS
<1>1. CASE \E s \in SendCall : SendStep(s)
  <2> PICK s \in SendCall : SendStep(s)
    BY <1>1
  <2> QED
    BY SendOfferIInv, SenderReturnsIInv, SendWithdrawIInv DEF SendStep
<1>2. CASE \E r \in ReceiveCall : ReceiveStep(r)
  <2> PICK r \in ReceiveCall : ReceiveStep(r)
    BY <1>2
  <2> QED
    BY TakeOrWaitIInv, ReceiveCancelledIInv DEF ReceiveStep
<1>3. CASE Close
  BY <1>3, CloseIInv
<1>4. CASE (\E c \in SendCall \cup ReceiveCall : Cancel(c)) \/ UNCHANGED vars
  BY <1>4, CancelIInv
<1> QED
  BY <1>1, <1>2, <1>3, <1>4 DEF Next

LEMMA Invariance == Spec => []IInv
<1> QED
  BY InitIInv, NextIInv, PTL DEF Spec

-----------------------------------------------------------------------------
(* Theorems                                                                *)

\* Every variable keeps its type, for any set of calls.
THEOREM TypeCorrect == Spec => []TypeOK
<1>1. IInv => TypeOK
  BY DEF IInv
<1> QED
  BY <1>1, Invariance, PTL

\* send() never misreports: it succeeds exactly when its item was returned by
\* a receive(), whatever was cancelled or closed meanwhile.
THEOREM SenderIsTruthful == Spec => []SenderTellsTheTruth
<1>1. IInv => SenderTellsTheTruth
  BY DEF IInv, SenderTellsTheTruth, FutureOfSender, ResultIffTaken
<1> QED
  BY <1>1, Invariance, PTL

\* No item is returned by two receive() calls.
THEOREM AtMostOnce == Spec => []DeliveredOnce
<1>1. IInv => DeliveredOnce
  BY DEF IInv
<1> QED
  BY <1>1, Invariance, PTL

\* The condition variable loses no wake-up.
THEOREM WakeupsArrive == Spec => []NoLostWakeup
<1>1. IInv => NoLostWakeup
  BY DEF IInv
<1> QED
  BY <1>1, Invariance, PTL

\* The queue holds exactly the offers whose future is undecided.
THEOREM QueueMatchesFutures == Spec => []QueuedIffPending
<1>1. IInv => QueuedIffPending
  BY DEF IInv
<1> QED
  BY <1>1, Invariance, PTL

-----------------------------------------------------------------------------
(* The rendezvous implements the handoff                                   *)

\* The fates the handoff sees.
Fates == [s \in SendCall |-> Fate(s)]

\* A step that touches one sender and its future changes one fate.
LEMMA OneFate ==
    ASSUME NEW s \in SendCall,
           \A t \in SendCall \ {s} : accepted'[t] = accepted[t] /\ sender'[t] = sender[t]
    PROVE  Fates' = [Fates EXCEPT ![s] = Fate(s)']
<1>1. \A t \in SendCall \ {s} : Fate(t)' = Fate(t)
  BY DEF Fate
<1> QED
  BY <1>1 DEF Fates

LEMMA SendImplements ==
    ASSUME IInv, NEW s \in SendCall, SendStep(s)
    PROVE  H!Next \/ UNCHANGED <<offers, Fates, closed>>
<1> USE DEF IInv
<1>1. Fates' = [Fates EXCEPT ![s] = Fate(s)']
  BY OneFate DEF SendStep, SendOffer, SendOnClosed, SendReturn, SendWithdraw,
     TypeOK
<1>2. CASE SendOffer(s)
  <2>1. Fate(s) = "none" /\ Fate(s)' = "offered"
    BY <1>2 DEF SendOffer, Fate, TypeOK
  <2>2. H!Offer(s)
    BY <1>1, <1>2, <2>1 DEF SendOffer, H!Offer, Fates
  <2> QED
    BY <2>2 DEF H!Next
<1>3. CASE SendOnClosed(s)
  <2>1. Fate(s) = "none" /\ Fate(s)' = "refused"
    BY <1>3 DEF SendOnClosed, Fate, TypeOK
  <2>2. H!Refuse(s)
    BY <1>1, <1>3, <2>1 DEF SendOnClosed, H!Refuse, Fates
  <2> QED
    BY <2>2 DEF H!Next
<1>4. CASE SendReturn(s)
  <2>1. Fate(s)' = Fate(s)
    BY <1>4 DEF SendReturn, SenderOutcome, Fate, TypeOK, FutureOfSender
  <2> QED
    BY <1>1, <1>4, <2>1 DEF SendReturn, Fates
<1>5. CASE SendWithdraw(s)
  <2>1. Fate(s) = "offered" /\ Fate(s)' = "withdrawn"
    BY <1>5 DEF SendWithdraw, Fate, TypeOK, QueuedIffPending
  <2>2. H!Withdraw(s)
    BY <1>1, <1>5, <2>1 DEF SendWithdraw, H!Withdraw, Fates, RemoveAt
  <2> QED
    BY <2>2 DEF H!Next
<1> QED
  BY <1>2, <1>3, <1>4, <1>5 DEF SendStep

LEMMA ReceiveImplements ==
    ASSUME IInv, NEW r \in ReceiveCall, ReceiveStep(r)
    PROVE  H!Next \/ UNCHANGED <<offers, Fates, closed>>
<1> USE DEF IInv
<1>1. UNCHANGED <<closed, sender>>
  BY DEF ReceiveStep, ReceiveEnter, ReceiveWake, ReceiveCancelled
<1>2. CASE UNCHANGED <<offers, accepted>>
  BY <1>1, <1>2 DEF Fates, Fate
<1>3. CASE ~UNCHANGED <<offers, accepted>>
  <2>1. /\ offers # <<>>
        /\ offers' = Tail(offers)
        /\ accepted' = [accepted EXCEPT ![Head(offers)] = "result"]
    BY <1>3 DEF ReceiveStep, ReceiveEnter, ReceiveWake, ReceiveCancelled,
       TakeOrWait, TakenOffer, OffersLeft
  <2>2. PICK s \in SendCall :
          s = Head(offers) /\ s = offers[1] /\ 1 \in DOMAIN offers
    BY <2>1, TailFacts DEF TypeOK
  <2>3. accepted[s] = "pending"
    BY <2>2 DEF QueuedIffPending
  <2>4. sender[s] = "offering"
    BY <2>2, <2>3 DEF FutureOfSender, TypeOK
  <2>5. Fate(s)' = "delivered"
    BY <1>1, <2>1, <2>2, <2>4 DEF Fate, TypeOK
  <2>6. Fates' = [Fates EXCEPT ![s] = Fate(s)']
    BY <1>1, <2>1, <2>2, OneFate DEF TypeOK
  <2>7. ~closed
    BY <2>1 DEF ClosedIsEmpty
  <2>8. H!Deliver
    BY <1>1, <2>1, <2>5, <2>6, <2>2, <2>7 DEF H!Deliver, Fates
  <2> QED
    BY <2>8 DEF H!Next
<1> QED
  BY <1>2, <1>3

LEMMA CloseImplements == IInv /\ Close => H!Close
<1> SUFFICES ASSUME IInv, Close PROVE H!Close
  OBVIOUS
<1> USE DEF IInv
<1>1. \A s \in SendCall :
        /\ sender'[s] = sender[s]
        /\ accepted'[s] = IF accepted[s] = "pending" THEN "exception"
                          ELSE accepted[s]
  BY DEF Close, QueuedIffPending, Range
<1>2. \A s \in SendCall :
        Fate(s)' = IF Fate(s) = "offered" THEN "refused" ELSE Fate(s)
  BY <1>1 DEF Fate, FutureOfSender, TypeOK
<1> QED
  BY <1>2 DEF H!Close, Close, Fates

\* The rendezvous is a zero-capacity handoff: every step of send(),
\* receive() and close() offers, hands over, withdraws, refuses or closes, or
\* is invisible to the handoff's users.
THEOREM RendezvousIsHandoff == Spec => ImplementsHandoff
<1>1. Init => H!Init
  BY DEF Init, H!Init, Fate
<1>2. IInv /\ [Next]_vars => [H!Next]_(H!vars)
  <2> SUFFICES ASSUME IInv, [Next]_vars
               PROVE  H!Next \/ UNCHANGED <<offers, Fates, closed>>
    BY DEF H!vars, Fates
  <2>1. CASE \E s \in SendCall : SendStep(s)
    BY <2>1, SendImplements
  <2>2. CASE \E r \in ReceiveCall : ReceiveStep(r)
    BY <2>2, ReceiveImplements
  <2>3. CASE Close
    BY <2>3, CloseImplements DEF H!Next
  <2>4. CASE (\E c \in SendCall \cup ReceiveCall : Cancel(c)) \/ UNCHANGED vars
    BY <2>4 DEF Cancel, vars, Fates, Fate
  <2> QED
    BY <2>1, <2>2, <2>3, <2>4 DEF Next
<1> QED
  BY <1>1, <1>2, Invariance, PTL DEF Spec, ImplementsHandoff, H!Spec
=============================================================================
