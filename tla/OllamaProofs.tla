---------------------------- MODULE OllamaProofs ----------------------------
(***************************************************************************)
(* Proofs about the Ollama connection, for any finite sets of calls.  The  *)
(* counters of the gate are what its guards look at, the places of the     *)
(* calls are what its properties speak of: the invariant says that they    *)
(* agree.  The race of an agent loop does nothing to the gate that a request *)
(* could not do, so that the composition keeps what the gate promises, and *)
(* it leaves no request behind.                                            *)
(***************************************************************************)
EXTENDS OllamaCalls, FiniteSetTheorems, TLAPS

-----------------------------------------------------------------------------
(* The gate                                                                *)

Leases == {t \in Requests : at[t] = "in"}
Queued == {t \in Exclusives : at[t] \in {"waiting", "woken"}}
Holders == {t \in Exclusives : at[t] = "in"}

CountsAgree == active = Cardinality(Leases) /\ waiters = Cardinality(Queued)

OneHolder ==
    /\ exclusive <=> Holders # {}
    /\ \A e, f \in Holders : e = f
    /\ exclusive => Leases = {}

GateInv == GateTypeOK /\ CountsAgree /\ OneHolder /\ WaitsForSomeone

-----------------------------------------------------------------------------
(* Lemmas about the sets and the wake-up                                    *)

LEMMA FiniteSets ==
    /\ Requests \subseteq Calls /\ Exclusives \subseteq Calls
    /\ Requests \cap Exclusives = {}
    /\ Repairs \subseteq Exclusives /\ Closers \subseteq Exclusives
    /\ IsFiniteSet(Leases) /\ IsFiniteSet(Queued)
<1>1. IsFiniteSet(Requests) /\ IsFiniteSet(Exclusives)
  BY GateAssumption, FS_Union DEF Exclusives
<1>2. Leases \in SUBSET Requests /\ Queued \in SUBSET Exclusives
  BY DEF Leases, Queued
<1>3. IsFiniteSet(Leases) /\ IsFiniteSet(Queued)
  BY <1>1, <1>2, FS_Subset
<1> QED
  BY <1>3, GateAssumption DEF Calls, Exclusives

\* A wake-up moves one call to its place and leaves nobody waiting.
LEMMA NotifyFacts ==
    ASSUME GateTypeOK, NEW t \in Calls, NEW place \in {"out", "in"}, at' = NotifyAll(t, place)
    PROVE  /\ at' \in [Calls -> {"out", "woken", "in"}]
           /\ at'[t] = place
           /\ \A u \in Calls \ {t} : /\ at'[u] = "in" <=> at[u] = "in"
                                     /\ at'[u] = "woken" <=> at[u] \in {"waiting", "woken"}
           /\ \A u \in Calls : at'[u] # "waiting"
  BY DEF NotifyAll, GateTypeOK

-----------------------------------------------------------------------------
(* The invariant                                                            *)

LEMMA InitGate == GateInit => GateInv
<1> SUFFICES ASSUME GateInit PROVE GateInv
  OBVIOUS
<1>1. Leases = {} /\ Queued = {} /\ Holders = {}
  BY FiniteSets DEF GateInit, Leases, Queued, Holders
<1>2. CountsAgree
  BY <1>1, FS_EmptySet DEF CountsAgree, GateInit
<1> QED
  BY <1>1, <1>2, FiniteSets DEF GateInv, GateTypeOK, OneHolder, WaitsForSomeone, GateInit

LEMMA RequestEntersInv ==
    ASSUME GateInv, NEW t \in Requests, RequestEnters(t)
    PROVE  GateInv'
<1> USE FiniteSets DEF GateInv
<1>t. t \in Calls /\ t \notin Exclusives /\ t \notin Leases
  BY DEF RequestEnters, Leases
<1>1. CASE RequestMayEnter
  <2>1. at' = [at EXCEPT ![t] = "in"] /\ active' = active + 1
    BY <1>1 DEF RequestEnters
  <2>2. Leases' = Leases \cup {t} /\ Queued' = Queued /\ Holders' = Holders
    BY <2>1, <1>t DEF Leases, Queued, Holders, GateTypeOK
  <2>3. GateTypeOK'
    BY <2>1 DEF RequestEnters, GateTypeOK
  <2>4. CountsAgree'
    BY <2>1, <2>2, <1>t, FS_AddElement DEF CountsAgree, RequestEnters
  <2>5. OneHolder'
    BY <2>2, <1>1 DEF OneHolder, RequestEnters, RequestMayEnter
  <2>6. WaitsForSomeone'
    BY <2>1, <2>3, <1>1, <1>t
    DEF WaitsForSomeone, RequestEnters, RequestMayEnter, ExclusiveMayEnter, GateTypeOK
  <2> QED
    BY <2>3, <2>4, <2>5, <2>6
<1>2. CASE ~RequestMayEnter
  <2>1. at' = [at EXCEPT ![t] = "waiting"] /\ active' = active
    BY <1>2 DEF RequestEnters
  <2>2. Leases' = Leases /\ Queued' = Queued /\ Holders' = Holders
    BY <2>1, <1>t DEF Leases, Queued, Holders, GateTypeOK
  <2>3. GateTypeOK'
    BY <2>1 DEF RequestEnters, GateTypeOK
  <2>4. CountsAgree' /\ OneHolder'
    BY <2>1, <2>2 DEF CountsAgree, OneHolder, RequestEnters
  <2>5. WaitsForSomeone'
    BY <2>1, <1>2, <1>t
    DEF WaitsForSomeone, RequestEnters, RequestMayEnter, ExclusiveMayEnter, GateTypeOK
  <2> QED
    BY <2>3, <2>4, <2>5
<1> QED
  BY <1>1, <1>2

LEMMA RequestEndsInv ==
    ASSUME GateInv, NEW t \in Requests, RequestServed(t) \/ RequestLeaves(t) \/ RequestCancelled(t)
    PROVE  GateInv'
<1> USE FiniteSets DEF GateInv
<1>t. t \in Calls /\ t \notin Exclusives
  OBVIOUS
<1>1. CASE RequestServed(t)
  <2>1. Leases' = Leases /\ Queued' = Queued /\ Holders' = Holders
    BY <1>1 DEF RequestServed, Leases, Queued, Holders
  <2>2. GateTypeOK'
    BY <1>1 DEF RequestServed, GateTypeOK
  <2>3. CountsAgree' /\ OneHolder'
    BY <1>1, <2>1 DEF RequestServed, CountsAgree, OneHolder
  <2>4. WaitsForSomeone'
    BY <1>1 DEF RequestServed, WaitsForSomeone, RequestMayEnter, ExclusiveMayEnter
  <2> QED
    BY <2>2, <2>3, <2>4
<1>2. CASE RequestLeaves(t)
  <2>1. at' = NotifyAll(t, "out") /\ active' = active - 1 /\ t \in Leases
    BY <1>2 DEF RequestLeaves, Leases
  <2>2. Leases' = Leases \ {t} /\ Queued' = Queued /\ Holders' = Holders
    BY <2>1, <1>t, NotifyFacts DEF Leases, Queued, Holders, GateTypeOK
  <2>3. CountsAgree' /\ active' \in Nat
    <3>1. Cardinality(Leases') = active - 1 /\ IsFiniteSet(Leases')
      BY <2>1, <2>2, FS_RemoveElement DEF CountsAgree
    <3>2. CountsAgree'
      BY <3>1, <2>1, <2>2, <1>2 DEF CountsAgree, RequestLeaves
    <3> QED
      BY <3>1, <3>2, <2>1, FS_CardinalityType
  <2>4. GateTypeOK' /\ WaitsForSomeone'
    BY <2>1, <2>3, <1>2, <1>t, NotifyFacts DEF GateTypeOK, WaitsForSomeone, RequestLeaves
  <2>5. OneHolder'
    BY <2>2, <1>2 DEF OneHolder, RequestLeaves
  <2> QED
    BY <2>3, <2>4, <2>5
<1>3. CASE RequestCancelled(t)
  <2>1. at' = [at EXCEPT ![t] = "out"] /\ t \notin Leases
    BY <1>3 DEF RequestCancelled, Leases
  <2>2. Leases' = Leases /\ Queued' = Queued /\ Holders' = Holders
    BY <2>1, <1>t DEF Leases, Queued, Holders, GateTypeOK
  <2> QED
    BY <2>1, <2>2, <1>3, <1>t
    DEF RequestCancelled, GateTypeOK, CountsAgree, OneHolder, WaitsForSomeone,
        RequestMayEnter, ExclusiveMayEnter
<1> QED
  BY <1>1, <1>2, <1>3

LEMMA ExclusiveEntersInv ==
    ASSUME GateInv, NEW t \in Exclusives, ExclusiveEnters(t)
    PROVE  GateInv'
<1> USE FiniteSets DEF GateInv
<1>t. t \in Calls /\ t \notin Requests /\ t \notin Holders
  BY DEF ExclusiveEnters, Holders
<1>w. t \in Queued <=> at[t] = "woken"
  BY DEF ExclusiveEnters, Queued
<1>r. repair' \in [Repairs -> {"none", "check", "reload", "recheck", "seen", "ok", "failed"}]
  BY DEF ExclusiveEnters, Started, GateTypeOK
<1>1. CASE ExclusiveMayEnter
  <2>1. /\ at' = NotifyAll(t, "in") /\ exclusive' = TRUE
        /\ waiters' = IF at[t] = "woken" THEN waiters - 1 ELSE waiters
    BY <1>1 DEF ExclusiveEnters
  <2>2. Leases' = Leases /\ Queued' = Queued \ {t} /\ Holders' = Holders \cup {t}
    BY <2>1, <1>t, NotifyFacts DEF Leases, Queued, Holders, GateTypeOK
  <2>3. CountsAgree' /\ waiters' \in Nat
    <3>1. Cardinality(Queued') = IF t \in Queued THEN waiters - 1 ELSE waiters
      BY <2>2, FS_RemoveElement DEF CountsAgree
    <3>2. waiters' = Cardinality(Queued') /\ active' = Cardinality(Leases')
      BY <3>1, <2>1, <2>2, <1>w DEF CountsAgree, ExclusiveEnters
    <3>3. IsFiniteSet(Queued')
      BY <2>2, FS_RemoveElement
    <3> QED
      BY <3>2, <3>3, FS_CardinalityType DEF CountsAgree
  <2>4. GateTypeOK' /\ WaitsForSomeone'
    BY <2>1, <2>3, <1>t, <1>r, NotifyFacts DEF GateTypeOK, WaitsForSomeone, ExclusiveEnters
  <2>5. Holders = {} /\ Leases = {}
    BY <1>1, FS_EmptySet DEF OneHolder, ExclusiveMayEnter, CountsAgree
  <2>6. OneHolder'
    BY <2>1, <2>2, <2>5 DEF OneHolder
  <2> QED
    BY <2>3, <2>4, <2>6
<1>2. CASE ~ExclusiveMayEnter
  <2>1. /\ at' = [at EXCEPT ![t] = "waiting"] /\ UNCHANGED <<exclusive, active>>
        /\ waiters' = IF at[t] = "woken" THEN waiters ELSE waiters + 1
    BY <1>2 DEF ExclusiveEnters
  <2>2. Leases' = Leases /\ Queued' = Queued \cup {t} /\ Holders' = Holders
    BY <2>1, <1>t DEF Leases, Queued, Holders, GateTypeOK
  <2>3. CountsAgree' /\ waiters' \in Nat
    <3>1. Cardinality(Queued') = IF t \in Queued THEN waiters ELSE waiters + 1
      BY <2>2, FS_AddElement DEF CountsAgree
    <3>2. waiters' = Cardinality(Queued') /\ active' = Cardinality(Leases')
      BY <3>1, <2>1, <2>2, <1>w DEF CountsAgree
    <3>3. IsFiniteSet(Queued')
      BY <2>2, FS_AddElement
    <3> QED
      BY <3>2, <3>3, FS_CardinalityType DEF CountsAgree
  <2>4. GateTypeOK'
    BY <2>1, <2>3, <1>r DEF GateTypeOK, ExclusiveEnters
  <2>5. OneHolder'
    BY <2>1, <2>2 DEF OneHolder
  <2>6. WaitsForSomeone'
    BY <2>1, <1>2, <1>t
    DEF WaitsForSomeone, RequestMayEnter, ExclusiveMayEnter, GateTypeOK
  <2> QED
    BY <2>3, <2>4, <2>5, <2>6
<1> QED
  BY <1>1, <1>2

LEMMA ExclusiveEndsInv ==
    ASSUME GateInv, NEW t \in Exclusives, at[t] = "in", ExclusiveLeft(t),
           UNCHANGED <<active, waiters>>, closed' \in BOOLEAN, resident' = resident,
           repair' \in [Repairs -> {"none", "check", "reload", "recheck", "seen", "ok", "failed"}]
    PROVE  GateInv'
<1> USE FiniteSets DEF GateInv
<1>1. at' = NotifyAll(t, "out") /\ exclusive' = FALSE
  BY DEF ExclusiveLeft
<1>2. Leases' = Leases /\ Queued' = Queued /\ Holders' = Holders \ {t}
  BY <1>1, NotifyFacts DEF Leases, Queued, Holders, GateTypeOK
<1>3. Holders' = {}
  BY <1>2 DEF OneHolder, Holders
<1>4. GateTypeOK' /\ WaitsForSomeone'
  BY <1>1, NotifyFacts DEF GateTypeOK, WaitsForSomeone
<1>5. CountsAgree'
  BY <1>2 DEF CountsAgree
<1>6. OneHolder'
  BY <1>1, <1>3 DEF OneHolder
<1> QED
  BY <1>4, <1>5, <1>6

LEMMA ExclusiveCancelledInv ==
    ASSUME GateInv, NEW t \in Exclusives, ExclusiveCancelled(t)
    PROVE  GateInv'
<1> USE FiniteSets DEF GateInv
<1>1. /\ at' = NotifyAll(t, "out") /\ waiters' = waiters - 1 /\ t \in Queued /\ t \notin Holders
      /\ UNCHANGED <<active, exclusive, closed, repair, resident>>
  BY DEF ExclusiveCancelled, Queued, Holders
<1>2. Leases' = Leases /\ Queued' = Queued \ {t} /\ Holders' = Holders
  BY <1>1, NotifyFacts DEF Leases, Queued, Holders, GateTypeOK
<1>3. CountsAgree' /\ waiters' \in Nat
  <2>1. Cardinality(Queued') = waiters - 1 /\ IsFiniteSet(Queued')
    BY <1>1, <1>2, FS_RemoveElement DEF CountsAgree
  <2>2. CountsAgree'
    BY <2>1, <1>1, <1>2 DEF CountsAgree
  <2> QED
    BY <2>1, <2>2, <1>1, FS_CardinalityType
<1>4. GateTypeOK' /\ WaitsForSomeone'
  BY <1>1, <1>3, NotifyFacts DEF GateTypeOK, WaitsForSomeone
<1> QED
  BY <1>1, <1>2, <1>3, <1>4 DEF OneHolder

LEMMA RepairStepInv ==
    ASSUME GateInv, NEW t \in Repairs, RepairStep(t)
    PROVE  GateInv'
<1>1. UNCHANGED <<at, active, exclusive, waiters, closed>>
  BY DEF RepairStep
<1>2. GateTypeOK'
  BY <1>1 DEF RepairStep, GateTypeOK, GateInv
<1>3. Leases' = Leases /\ Queued' = Queued /\ Holders' = Holders
  BY <1>1 DEF Leases, Queued, Holders
<1> QED
  BY <1>1, <1>2, <1>3
  DEF GateInv, CountsAgree, OneHolder, WaitsForSomeone, RequestMayEnter, ExclusiveMayEnter

LEMMA NextGate == GateInv /\ [GateNext]_gateVars => GateInv'
<1> SUFFICES ASSUME GateInv, [GateNext]_gateVars PROVE GateInv'
  OBVIOUS
<1>1. ASSUME NEW t \in Requests, RequestStep(t) PROVE GateInv'
  BY <1>1, RequestEntersInv, RequestEndsInv DEF RequestStep
<1>2. ASSUME NEW t \in Repairs, RepairCall(t) PROVE GateInv'
  <2>1. t \in Exclusives
    BY FiniteSets
  <2>2. ASSUME NEW verdict \in {"ok", "failed"}, RepairEnds(t, verdict) PROVE GateInv'
    <3>1. /\ at[t] = "in" /\ ExclusiveLeft(t) /\ UNCHANGED <<active, waiters>>
          /\ closed' \in BOOLEAN /\ resident' = resident
          /\ repair' \in [Repairs -> {"none", "check", "reload", "recheck", "seen", "ok", "failed"}]
      BY <2>2 DEF RepairEnds, GateInv, GateTypeOK
    <3> QED
      BY <3>1, <2>1, ExclusiveEndsInv
  <2> QED
    BY <1>2, <2>1, <2>2, ExclusiveEntersInv, RepairStepInv, ExclusiveCancelledInv DEF RepairCall
<1>3. ASSUME NEW t \in Closers, CloseCall(t) PROVE GateInv'
  <2>1. t \in Exclusives
    BY FiniteSets
  <2>2. ASSUME Close(t) PROVE GateInv'
    <3>1. /\ at[t] = "in" /\ ExclusiveLeft(t) /\ UNCHANGED <<active, waiters>>
          /\ closed' \in BOOLEAN /\ resident' = resident
          /\ repair' \in [Repairs -> {"none", "check", "reload", "recheck", "seen", "ok", "failed"}]
      BY <2>2 DEF Close, GateInv, GateTypeOK
    <3> QED
      BY <3>1, <2>1, ExclusiveEndsInv
  <2> QED
    BY <1>3, <2>1, <2>2, ExclusiveEntersInv, ExclusiveCancelledInv DEF CloseCall
<1>4. CASE UNCHANGED gateVars
  <2>1. Leases' = Leases /\ Queued' = Queued /\ Holders' = Holders
    BY <1>4 DEF gateVars, Leases, Queued, Holders
  <2> QED
    BY <1>4, <2>1
    DEF gateVars, GateInv, GateTypeOK, CountsAgree, OneHolder, WaitsForSomeone,
        RequestMayEnter, ExclusiveMayEnter
<1> QED
  BY <1>1, <1>2, <1>3, <1>4 DEF GateNext

LEMMA GateInvariance == GateSpec => []GateInv
  BY InitGate, NextGate, PTL DEF GateSpec

-----------------------------------------------------------------------------
(* The theorems                                                             *)

\* Whoever holds the gate exclusively is alone, however many calls there are.
THEOREM ExclusionHolds == GateSpec => []ExclusiveIsAlone
<1>1. GateInv => ExclusiveIsAlone
  <2> SUFFICES ASSUME GateInv, NEW e \in Exclusives, at[e] = "in",
                      NEW t \in Calls \ {e}, at[t] = "in"
               PROVE  FALSE
    BY DEF ExclusiveIsAlone
  <2>1. e \in Holders /\ Leases = {}
    BY DEF GateInv, OneHolder, Holders
  <2>2. t \in Holders
    BY <2>1 DEF Leases, Holders, Calls
  <2> QED
    BY <2>1, <2>2 DEF GateInv, OneHolder
<1> QED
  BY <1>1, GateInvariance, PTL

\* No wake-up of the gate is lost.
THEOREM GateWakesEveryone == GateSpec => []WaitsForSomeone
<1>1. GateInv => WaitsForSomeone
  BY DEF GateInv
<1> QED
  BY <1>1, GateInvariance, PTL

\* What the last look of a residency check found has not changed while the check is inside:
\* only a request could change it, and no request is inside with it.
LookStands == \A t \in Repairs : at[t] = "in" /\ repair[t] = "seen" => resident = "all"

LEMMA RepairsAlone ==
    ASSUME GateInv, NEW t \in Repairs, at[t] = "in"
    PROVE  Leases = {} /\ \A u \in Exclusives : at[u] = "in" => u = t
<1>1. t \in Holders
  BY FiniteSets DEF Holders
<1> QED
  BY <1>1 DEF GateInv, OneHolder, Holders

LEMMA NextLook == GateInv /\ LookStands /\ [GateNext]_gateVars => LookStands'
<1> SUFFICES ASSUME GateInv, LookStands, [GateNext]_gateVars,
                    NEW t \in Repairs, at'[t] = "in", repair'[t] = "seen"
             PROVE  resident' = "all"
  BY DEF LookStands
<1>t. t \in Calls /\ t \in Exclusives /\ t \notin Requests
  BY FiniteSets
<1>1. ASSUME NEW u \in Requests, RequestStep(u) PROVE resident' = "all"
  <2>1. at[t] = "in" /\ repair[t] = "seen"
    <3>1. u \in Calls /\ u # t /\ repair' = repair
      BY <1>1, <1>t, FiniteSets
      DEF RequestStep, RequestEnters, RequestServed, RequestLeaves, RequestCancelled
    <3>2. at'[t] = "in" => at[t] = "in"
      BY <1>1, <3>1, <1>t
      DEF RequestStep, RequestEnters, RequestServed, RequestLeaves, RequestCancelled, NotifyAll,
          GateInv, GateTypeOK
    <3> QED
      BY <3>1, <3>2
  <2>2. at[u] # "in" /\ resident = "all"
    BY <2>1, RepairsAlone DEF Leases, LookStands
  <2> QED
    BY <1>1, <2>2
    DEF RequestStep, RequestEnters, RequestServed, RequestLeaves, RequestCancelled
<1>2. ASSUME NEW u \in Repairs, RepairCall(u) PROVE resident' = "all"
  <2>1. CASE ExclusiveEnters(u) \/ ExclusiveCancelled(u)
    <3>1. resident' = resident /\ repair[t] = "seen"
      BY <2>1 DEF ExclusiveEnters, ExclusiveCancelled, Started, GateInv, GateTypeOK
    <3>2. at[t] = "in"
      BY <2>1, <1>t, FiniteSets
      DEF ExclusiveEnters, ExclusiveCancelled, Started, NotifyAll, GateInv, GateTypeOK
    <3> QED
      BY <3>1, <3>2 DEF LookStands
  <2>2. CASE RepairStep(u)
    <3>1. at' = at /\ at[u] = "in" /\ u = t
      BY <2>2, RepairsAlone, FiniteSets DEF RepairStep
    <3> QED
      BY <2>2, <3>1 DEF RepairStep, FullyResident, GateInv, GateTypeOK
  <2>3. ASSUME NEW verdict \in {"ok", "failed"}, RepairEnds(u, verdict) PROVE resident' = "all"
    <3>1. u # t /\ at[u] = "in" /\ resident' = resident
      BY <2>3, <1>t, FiniteSets DEF RepairEnds, ExclusiveLeft, NotifyAll, GateInv, GateTypeOK
    <3>2. at[t] = "in"
      BY <2>3, <3>1, <1>t DEF RepairEnds, ExclusiveLeft, NotifyAll, GateInv, GateTypeOK
    <3> QED
      BY <3>1, <3>2, RepairsAlone, FiniteSets
  <2> QED
    BY <1>2, <2>1, <2>2, <2>3 DEF RepairCall
<1>3. ASSUME NEW u \in Closers, CloseCall(u) PROVE resident' = "all"
  <2>1. u # t /\ resident' = resident /\ repair[t] = "seen"
    BY <1>3, GateAssumption
    DEF CloseCall, ExclusiveEnters, Close, ExclusiveCancelled, Started, GateInv, GateTypeOK
  <2>2. at[t] = "in"
    BY <1>3, <2>1, <1>t
    DEF CloseCall, ExclusiveEnters, Close, ExclusiveCancelled, ExclusiveLeft, NotifyAll, GateInv,
        GateTypeOK
  <2> QED
    BY <2>1, <2>2 DEF LookStands
<1>4. CASE UNCHANGED gateVars
  BY <1>4 DEF gateVars, LookStands
<1> QED
  BY <1>1, <1>2, <1>3, <1>4 DEF GateNext

\* What a residency check reports is still so when it returns: exclusion is what it needs.
THEOREM RepairIsTrue == GateSpec => VerifiedIsResident
<1>1. GateInit => LookStands
  BY DEF GateInit, LookStands
<1>2. GateInv /\ LookStands /\ [GateNext]_gateVars
      => [(\E t \in Repairs : repair[t] # "ok" /\ repair'[t] = "ok") => resident' = "all"]_gateVars
  <2> SUFFICES ASSUME GateInv, LookStands, GateNext,
                      NEW t \in Repairs, repair[t] # "ok", repair'[t] = "ok"
               PROVE  resident' = "all"
    BY DEF gateVars
  <2>1. PICK u \in Repairs : \E verdict \in {"ok", "failed"} : RepairEnds(u, verdict)
    BY DEF GateNext, RequestStep, RequestEnters, RequestServed, RequestLeaves, RequestCancelled,
           RepairCall, ExclusiveEnters, Started, RepairStep, ExclusiveCancelled, CloseCall, Close,
           GateInv, GateTypeOK
  <2>2. PICK verdict \in {"ok", "failed"} : RepairEnds(u, verdict)
    BY <2>1
  <2>3. u = t /\ verdict = "ok"
    BY <2>2 DEF RepairEnds, GateInv, GateTypeOK
  <2> QED
    BY <2>2, <2>3 DEF RepairEnds, LookStands
<1> QED
  BY <1>1, <1>2, NextLook, GateInvariance, PTL DEF GateSpec, VerifiedIsResident

-----------------------------------------------------------------------------
(* The race on the gate                                                    *)

\* Requests that need not run any more, by what the race is waiting for.
Settles ==
    /\ race \in {"idle", "awaitLocal", "dropLocal", "abortLocal"} => Over("cloud")
    /\ race \in {"idle", "grace", "awaitCloud", "dropCloud"} => Over("local")

\* A request that is over has returned its lease, and is not in the queue for one.
OverIsOut == \A m \in Models : Over(m) => at[m] = "out"

CallsInv == RaceTypeOK /\ GateTypeOK /\ Settles /\ OverIsOut

-----------------------------------------------------------------------------
(* The race is a client of the gate                                         *)

LEMMA StepIsGateStep == CallsNext => GateNext \/ UNCHANGED gateVars
<1> SUFFICES ASSUME CallsNext PROVE GateNext \/ UNCHANGED gateVars
  OBVIOUS
<1>1. ASSUME NEW m \in Models, Enters(m) \/ Served(m) \/ Leaves(m) \/ CancelArrives(m)
      PROVE  RequestStep(m) \/ UNCHANGED gateVars
  BY <1>1 DEF Enters, Served, Leaves, CancelArrives, RequestStep
<1> QED
  BY <1>1, RequestsAreTheRace DEF CallsNext, RaceStep, GateNext

\* Every behaviour of the composition is one of the gate.
THEOREM CallsKeepTheGate == CallsSpec => GateSpec
<1>1. CallsInit => GateInit
  BY DEF CallsInit
<1>2. [CallsNext]_callsVars => [GateNext]_gateVars
  BY StepIsGateStep DEF callsVars
<1> QED
  BY <1>1, <1>2, PTL DEF CallsSpec, GateSpec

-----------------------------------------------------------------------------
(* The invariant                                                            *)

LEMMA InitCalls == CallsInit => CallsInv
<1> SUFFICES ASSUME CallsInit PROVE CallsInv
  OBVIOUS
<1>1. GateTypeOK
  BY InitGate DEF CallsInit, GateInv
<1>2. RaceTypeOK /\ Settles
  BY DEF CallsInit, RaceInit, RaceTypeOK, Settles, Over, Models
<1>3. \A t \in Calls : at[t] = "out"
  BY DEF CallsInit, GateInit
<1> QED
  BY <1>1, <1>2, <1>3, RequestsAreTheRace DEF CallsInv, OverIsOut, Calls

\* Whatever another call does, a request that is out stays out.
LEMMA OthersStayOut ==
    ASSUME GateTypeOK, NEW t \in Calls, NEW m \in Calls \ {t}, at[m] = "out",
           RequestStep(t) \/ RepairCall(t) \/ CloseCall(t)
    PROVE  at'[m] = "out"
  BY DEF GateTypeOK, RequestStep, RequestEnters, RequestServed, RequestLeaves, RequestCancelled,
         RepairCall, RepairStep, RepairEnds, CloseCall, Close, ExclusiveEnters,
         ExclusiveCancelled, ExclusiveLeft, NotifyAll

LEMMA RequestIsOut ==
    ASSUME GateTypeOK, NEW m \in Requests, RequestLeaves(m) \/ RequestCancelled(m)
    PROVE  at'[m] = "out"
  BY DEF GateTypeOK, RequestLeaves, RequestCancelled, NotifyAll, Calls

LEMMA RequestStepCalls ==
    ASSUME CallsInv, GateTypeOK', NEW m \in Models,
           Enters(m) \/ Served(m) \/ Leaves(m) \/ CancelArrives(m)
    PROVE  CallsInv'
<1> DEFINE other == IF m = "cloud" THEN "local" ELSE "cloud"
<1>m. Models \subseteq Calls /\ m \in Requests /\ other \in Models /\ other # m
      /\ Models = {m, other}
  BY RequestsAreTheRace DEF Models, Calls
<1>1. CASE Enters(m) \/ Served(m)
  <2>1. UNCHANGED raceVars /\ RequestStep(m)
    BY <1>1 DEF Enters, Served, RequestStep
  <2>2. ~Over(m)
    BY <1>1, <1>m DEF Enters, Served, RequestServed, CallsInv, OverIsOut, Over
  <2>3. Over(other) => at'[other] = "out"
    BY <2>1, <1>m, OthersStayOut DEF CallsInv, OverIsOut
  <2> QED
    BY <2>1, <2>2, <2>3, <1>m DEF CallsInv, RaceTypeOK, Settles, OverIsOut, Over, raceVars
<1>2. CASE Leaves(m) \/ CancelArrives(m)
  <2>1. /\ call' \in [Models -> Failures \cup {"none", "running", "cancelling", "ok", "cancelled"}]
        /\ call'[m] \notin {"running", "cancelling"} /\ call'[other] = call[other]
        /\ UNCHANGED <<race, answer, backoff>>
    BY <1>2, <1>m DEF Leaves, CancelArrives, Answers, CancelLands, CallsInv, RaceTypeOK, Failures
  <2>2. at'[m] = "out"
    BY <1>2, <1>m, RequestIsOut DEF Leaves, CancelArrives, CallsInv, gateVars
  <2>3. Over(other) => at'[other] = "out"
    BY <1>2, <1>m, OthersStayOut
    DEF Leaves, CancelArrives, CallsInv, OverIsOut, RequestStep, gateVars
  <2>4. Settles'
    BY <2>1, <1>m DEF CallsInv, Settles, Over, Models
  <2> QED
    BY <2>1, <2>2, <2>3, <2>4, <1>m DEF CallsInv, RaceTypeOK, OverIsOut, Over
<1> QED
  BY <1>1, <1>2

LEMMA RaceStepCalls ==
    ASSUME CallsInv, RaceStep
    PROVE  CallsInv'
<1> USE DEF CallsInv, RaceTypeOK, Settles, OverIsOut, Over, Models, Failures
<1>g. GateTypeOK' /\ UNCHANGED at
  BY DEF RaceStep, gateVars, GateTypeOK
<1>1. CASE BackoffExpires \/ StartChat
  BY <1>1, <1>g DEF BackoffExpires, StartChat
<1>2. CASE CloudFirst \/ LocalAwaited \/ LocalFirst
  BY <1>2, <1>g DEF CloudFirst, LocalAwaited, LocalFirst, Finished, Abandoned
<1>3. CASE CloudAwaited \/ CloudInGrace \/ GraceOver
  BY <1>3, <1>g DEF CloudAwaited, CloudInGrace, GraceOver, Finished, Abandoned
<1>4. CASE DropLoser
  BY <1>4, <1>g DEF DropLoser, Drop, Cancelling
<1>5. CASE DropBoth
  BY <1>5, <1>g DEF DropBoth, Drop, Cancelling
<1>6. CASE RaceCancelled
  BY <1>6, <1>g DEF RaceCancelled, Cancelling
<1> QED
  BY <1>1, <1>2, <1>3, <1>4, <1>5, <1>6 DEF RaceStep

LEMMA ExclusiveStepCalls ==
    ASSUME CallsInv, GateTypeOK', UNCHANGED raceVars, NEW t \in Exclusives,
           RepairCall(t) \/ CloseCall(t)
    PROVE  CallsInv'
<1>1. t \in Calls /\ Models \subseteq Calls \ {t}
  BY RequestsAreTheRace, GateAssumption DEF Calls, Exclusives
<1>2. \A m \in Models : at[m] = "out" => at'[m] = "out"
  BY <1>1, OthersStayOut DEF CallsInv
<1> QED
  BY <1>2 DEF CallsInv, RaceTypeOK, Settles, OverIsOut, Over, raceVars

LEMMA NextCalls == CallsInv /\ GateTypeOK' /\ [CallsNext]_callsVars => CallsInv'
<1> SUFFICES ASSUME CallsInv, GateTypeOK', [CallsNext]_callsVars PROVE CallsInv'
  OBVIOUS
<1>1. CASE UNCHANGED callsVars
  BY <1>1 DEF callsVars, raceVars, gateVars, CallsInv, RaceTypeOK, Settles, OverIsOut, Over
<1> QED
  BY <1>1, RequestStepCalls, RaceStepCalls, ExclusiveStepCalls DEF CallsNext, Exclusives

-----------------------------------------------------------------------------
(* The theorems                                                             *)

\* When chat() of the race has returned, by an answer, a failure or a cancellation, neither
\* of its requests holds or awaits a lease.
THEOREM RaceReturnsItsLeases == CallsSpec => []RaceLeavesNobody
<1>1. CallsInv => RaceLeavesNobody
  BY DEF CallsInv, Settles, OverIsOut, RaceLeavesNobody, Models
<1>2. CallsSpec => []GateTypeOK
  <2>1. GateInv => GateTypeOK
    BY DEF GateInv
  <2> QED
    BY <2>1, CallsKeepTheGate, GateInvariance, PTL
<1> QED
  BY <1>1, <1>2, InitCalls, NextCalls, PTL DEF CallsSpec

\* The promises of the gate, in the composition.
THEOREM GateHoldsForTheRace ==
    CallsSpec => []ExclusiveIsAlone /\ []WaitsForSomeone /\ VerifiedIsResident
  BY CallsKeepTheGate, ExclusionHolds, GateWakesEveryone, RepairIsTrue, PTL
=============================================================================
