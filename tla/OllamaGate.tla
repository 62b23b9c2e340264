----------------------------- MODULE OllamaGate -----------------------------
(***************************************************************************)
(* The connection to Ollama that every agent shares.  Requests hold a lease *)
(* of a gate; the residency check of the protected model and close() take   *)
(* the gate exclusively and have priority over new requests.  The gate is   *)
(* an asyncio condition: whoever cannot enter waits, is woken by every      *)
(* notify_all() and looks again.  No task suspends while it holds the       *)
(* condition's lock, so that each visit to the gate is one step.            *)
(***************************************************************************)
EXTENDS Naturals, FiniteSets

CONSTANTS
    Requests,       \* calls of chat() and generate()
    Repairs,        \* calls of ensure_protected_model_gpu_residency()
    Closers         \* calls of close()

ASSUME GateAssumption ==
    /\ IsFiniteSet(Requests) /\ IsFiniteSet(Repairs) /\ IsFiniteSet(Closers)
    /\ Requests \cap (Repairs \cup Closers) = {} /\ Repairs \cap Closers = {}

VARIABLES
    at,             \* where each call is: out, waiting, woken or in
    active,         \* _active_requests
    exclusive,      \* _exclusive_active
    waiters,        \* _exclusive_waiters
    closed,         \* _closed
    repair,         \* how far the residency check is; seen: its last look found the model
    resident        \* the protected model in GPU memory: all, part or none of it

gateVars == <<at, active, exclusive, waiters, closed, repair, resident>>

Exclusives == Repairs \cup Closers
Calls == Requests \cup Exclusives

GateInit ==
    /\ at = [t \in Calls |-> "out"]
    /\ active = 0 /\ exclusive = FALSE /\ waiters = 0 /\ closed = FALSE
    /\ repair = [t \in Repairs |-> "none"]
    /\ resident \in {"all", "part", "none"}

\* t goes on to a place and everybody who waits is woken.
NotifyAll(t, place) ==
    [u \in Calls |-> IF u = t THEN place ELSE IF at[u] = "waiting" THEN "woken" ELSE at[u]]

\* The conditions of the two wait_for() calls.
\* Seeded fault: new requests do not give way to a waiting exclusive call.
RequestBarges == ~exclusive
\* Seeded fault: a request is let in while the gate is held.
RequestIgnoresHolder == waiters = 0

RequestMayEnter == ~exclusive /\ waiters = 0
\* Seeded fault: only the number of leases counts.
ExclusiveOverlaps == active = 0

ExclusiveMayEnter == ~exclusive /\ active = 0

-----------------------------------------------------------------------------
(* A lease for a request.                                                   *)

RequestEnters(t) ==
    /\ at[t] \in {"out", "woken"}
    /\ IF RequestMayEnter
       THEN at' = [at EXCEPT ![t] = "in"] /\ active' = active + 1
       ELSE at' = [at EXCEPT ![t] = "waiting"] /\ UNCHANGED active
    /\ UNCHANGED <<exclusive, waiters, closed, repair, resident>>

\* The request is served, unless the connection is closed: it can load another model and
\* push the protected one out of memory, or load the protected one.
RequestServed(t) ==
    /\ at[t] = "in" /\ ~closed
    /\ resident' \in {"all", "part"}
    /\ UNCHANGED <<at, active, exclusive, waiters, closed, repair>>

\* Seeded fault: the last lease is returned without a word.
RequestLeavesQuietly(t) ==
    /\ at[t] = "in"
    /\ active' = active - 1
    /\ at' = [at EXCEPT ![t] = "out"]
    /\ UNCHANGED <<exclusive, waiters, closed, repair, resident>>

\* It is over: answered, failed, timed out or cancelled.
RequestLeaves(t) ==
    /\ at[t] = "in"
    /\ active' = active - 1
    /\ at' = NotifyAll(t, "out")
    /\ UNCHANGED <<exclusive, waiters, closed, repair, resident>>

RequestCancelled(t) ==
    /\ at[t] \in {"waiting", "woken"}
    /\ at' = [at EXCEPT ![t] = "out"]
    /\ UNCHANGED <<active, exclusive, waiters, closed, repair, resident>>

-----------------------------------------------------------------------------
(* Exclusive access.                                                        *)

Started(t) == [u \in Repairs |-> IF u = t THEN "check" ELSE repair[u]]

\* Entered at once, or after waiting for the leases to be returned.
ExclusiveEnters(t) ==
    /\ at[t] \in {"out", "woken"}
    /\ IF ExclusiveMayEnter
       THEN /\ exclusive' = TRUE
            /\ at' = NotifyAll(t, "in")
            /\ waiters' = IF at[t] = "woken" THEN waiters - 1 ELSE waiters
            /\ repair' = Started(t)
       ELSE /\ at' = [at EXCEPT ![t] = "waiting"]
            /\ waiters' = IF at[t] = "woken" THEN waiters ELSE waiters + 1
            /\ UNCHANGED <<exclusive, repair>>
    /\ UNCHANGED <<active, closed, resident>>

ExclusiveCancelled(t) ==
    /\ at[t] \in {"waiting", "woken"}
    /\ waiters' = waiters - 1
    /\ at' = NotifyAll(t, "out")
    /\ UNCHANGED <<active, exclusive, closed, repair, resident>>

ExclusiveLeft(t) == exclusive' = FALSE /\ at' = NotifyAll(t, "out")

\* close() marks the connection and ends its HTTP session.
Close(t) ==
    /\ at[t] = "in"
    /\ closed' = TRUE
    /\ ExclusiveLeft(t)
    /\ UNCHANGED <<active, waiters, repair, resident>>

\* What the list of running models says of the protected one.
FullyResident == resident = "all"

\* The residency check: a look, and unless that finds the model, the memory is cleared,
\* the model loaded and looked at once more.  Every request of it is awaited.
RepairStep(t) ==
    /\ at[t] = "in" /\ ~closed
    /\ \/ /\ repair[t] \in {"check", "recheck"} /\ FullyResident
          /\ repair' = [repair EXCEPT ![t] = "seen"] /\ UNCHANGED resident
       \/ /\ repair[t] = "check" /\ ~FullyResident
          /\ repair' = [repair EXCEPT ![t] = "reload"] /\ resident' = "none"
       \/ /\ repair[t] = "reload"
          /\ repair' = [repair EXCEPT ![t] = "recheck"] /\ resident' \in {"all", "part"}
    /\ UNCHANGED <<at, active, exclusive, waiters, closed>>

\* It returns once a look has found the model; a failure of any request, a cancellation and
\* a model that is still not resident are raised.
RepairEnds(t, verdict) ==
    /\ at[t] = "in"
    /\ verdict = "ok" => repair[t] = "seen"
    /\ repair' = [repair EXCEPT ![t] = verdict]
    /\ ExclusiveLeft(t)
    /\ UNCHANGED <<active, waiters, closed, resident>>

\* The supervisor comes back after a minute: every woken task has run by then.
Settled == \A t \in Calls : at[t] # "woken"

-----------------------------------------------------------------------------
RequestStep(t) ==
    RequestEnters(t) \/ RequestServed(t) \/ RequestLeaves(t) \/ RequestCancelled(t)
RepairCall(t) ==
    \/ (at[t] = "out" => Settled) /\ ExclusiveEnters(t)
    \/ RepairStep(t)
    \/ \E verdict \in {"ok", "failed"} : RepairEnds(t, verdict)
    \/ ExclusiveCancelled(t)
CloseCall(t) == ExclusiveEnters(t) \/ Close(t) \/ ExclusiveCancelled(t)

GateNext ==
    \/ \E t \in Requests : RequestStep(t)
    \/ \E t \in Repairs : RepairCall(t)
    \/ \E t \in Closers : CloseCall(t)

GateSpec == GateInit /\ [][GateNext]_gateVars

\* A woken task runs, and what holds the gate ends: every request of a client or of the
\* repair has a timeout.
GateFairSpec ==
    /\ GateSpec
    /\ \A t \in Requests :
          WF_gateVars(at[t] = "woken" /\ RequestEnters(t)) /\ WF_gateVars(RequestLeaves(t))
    /\ \A t \in Exclusives : WF_gateVars(at[t] = "woken" /\ ExclusiveEnters(t))
    /\ \A t \in Repairs : WF_gateVars(RepairEnds(t, "failed"))
    /\ \A t \in Closers : WF_gateVars(Close(t))

-----------------------------------------------------------------------------
(* What must hold.                                                          *)

GateTypeOK ==
    /\ at \in [Calls -> {"out", "waiting", "woken", "in"}]
    /\ active \in Nat /\ waiters \in Nat
    /\ exclusive \in BOOLEAN /\ closed \in BOOLEAN
    /\ repair \in [Repairs -> {"none", "check", "reload", "recheck", "seen", "ok", "failed"}]
    /\ resident \in {"all", "part", "none"}

\* Whoever holds the gate exclusively is alone with the server: no request and no other
\* repair or close overlaps (ollama_connection.py 51-87).
ExclusiveIsAlone ==
    \A e \in Exclusives : at[e] = "in" => \A t \in Calls \ {e} : at[t] # "in"

\* Nobody waits without a reason: a task that has not been woken could not enter if it
\* looked (the notify_all() of every exit, ollama_connection.py 58-87).
WaitsForSomeone ==
    /\ \A t \in Requests : at[t] = "waiting" => ~RequestMayEnter
    /\ \A t \in Exclusives : at[t] = "waiting" => ~ExclusiveMayEnter

\* What a residency check reports is still true when it returns, although it looked earlier
\* and the requests around it load other models: none of them gets in between
\* (ollama_connection.py 131-205).
VerifiedIsResident ==
    [][(\E t \in Repairs : repair[t] # "ok" /\ repair'[t] = "ok") => resident' = "all"]_gateVars

\* A close is not starved by the requests that keep coming (ollama_connection.py 207-214).
CloseIsServed == \A t \in Closers : at[t] = "waiting" ~> at[t] # "waiting" /\ at[t] # "woken"

=============================================================================
