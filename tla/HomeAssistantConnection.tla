---------------------- MODULE HomeAssistantConnection ----------------------
(***************************************************************************)
(* HomeAssistantConnection keeps a cached inventory of the house.  Two      *)
(* tasks feed the cache over two separate WebSockets: a periodic refresh    *)
(* (registries, then all states, then one request per entity, then one      *)
(* commit) and a subscription that applies state_changed events in order    *)
(* and reconnects with a growing delay.  Requests resolve the names they    *)
(* are given against the inventory of that moment and then call services    *)
(* one device at a time, each over a WebSocket of its own.                  *)
(*                                                                         *)
(* Abstractions.  A device stands for its one entity.  A state is the       *)
(* number of changes the entity has had, so an older state is a smaller     *)
(* number.  Both critical sections under the connection's lock contain no   *)
(* await and are single steps.  Payloads are well formed.                   *)
(***************************************************************************)
EXTENDS Naturals, Sequences, FiniteSets, SequencesExt

CONSTANTS
    Devices,        \* the devices the house can have
    Installed,      \* the devices in the registry from the beginning
    Names,          \* what a request may call a device
    Called,         \* [Names -> SUBSET Devices], the devices that answer to a name
    AreaOf,         \* [Devices -> areas]
    PropertyOf,     \* [Devices -> domains], decides what can be modified
    Requested,      \* the sequences of names a request may carry
    MaxChanges,     \* bound on the changes of all entities together
    MaxFailures,    \* bound on the failures of refreshes, subscriptions, service calls
    MaxRequests,    \* bound on the batch requests
    MaxStarts       \* bound on the calls of start()

ASSUME HaAssumption ==
    /\ Called \in [Names -> SUBSET Devices]
    /\ Installed \subseteq Devices
    /\ DOMAIN AreaOf = Devices
    /\ DOMAIN PropertyOf = Devices
    /\ Requested \subseteq Seq(Names)
    /\ MaxChanges \in Nat /\ MaxFailures \in Nat
    /\ MaxRequests \in Nat /\ MaxStarts \in Nat

VARIABLES
    actual,         \* Home Assistant's own state of each entity
    registered,     \* Home Assistant's registry, with device and area
    refresh,        \* phase of _registry_refresh_loop
    fetched,        \* what the current refresh has read so far
    subscription,   \* phase of _state_subscription_loop
    delay,          \* its reconnect delay in seconds
    events,         \* state_changed events sent and not yet received
    details,        \* _raw_entity_details
    cache,          \* _states_by_entity_id
    inventory,      \* _inventory
    ready,          \* _inventory is not None
    closed,         \* _closed
    request,        \* the request in progress
    failures,       \* failures so far
    requests,       \* requests so far
    starts,         \* calls of start() so far
    excused         \* history: entities the cache may rightly be behind on

house == <<actual, registered>>
tasks == <<refresh, fetched, subscription, delay>>
memory == <<details, cache, inventory, ready>>
counters == <<failures, requests, starts>>
vars == <<house, tasks, events, memory, closed, request, counters, excused>>

None == "none"
NoEntity == [d \in {} |-> 0]
NothingFetched == [registry |-> {}, states |-> NoEntity, todo |-> {}, details |-> {}]
NoRequest == [phase |-> "idle", names |-> << >>, devices |-> << >>, errors |-> 0,
              results |-> << >>, status |-> None, told |-> {}]

-----------------------------------------------------------------------------
(* The inventory and the look-ups on it.                                    *)

\* Every registered entity of an inventory domain that has a state; an entity
\* without a state yet is left out.
BuildInventory(known, states) ==
    [d \in known \cap DOMAIN states |-> states[d]]

\* A name resolves only when exactly one device of the inventory answers to it.
Resolved(name) == Called[name] \cap DOMAIN inventory
Resolves(name) == Cardinality(Resolved(name)) = 1
TheDevice(name) == CHOOSE d \in Resolved(name) : TRUE

\* Names that resolve, in order and without repetition of a device; found[i] is what
\* the first i names have found.
ResolvedForBatch(names) ==
    LET found[i \in 0..Len(names)] ==
            IF i = 0 THEN << >>
            ELSE IF Resolves(names[i]) /\ TheDevice(names[i]) \notin ToSet(found[i - 1])
            THEN Append(found[i - 1], TheDevice(names[i])) ELSE found[i - 1]
    IN found[Len(names)]
UnresolvedCount(names) == Cardinality({i \in DOMAIN names : ~Resolves(names[i])})

\* The properties of an entity, by its domain and what its attributes support.
PropertiesOf(d) ==
    {"on"} \cup CASE PropertyOf[d] = "climate" -> {"target_temperature", "hvac_mode", "fan_mode"}
                  [] PropertyOf[d] = "light" -> {"brightness_percent"}
                  [] PropertyOf[d] = "fan" -> {"percentage"}
                  [] PropertyOf[d] = "cover" -> {"position"}
                  [] OTHER -> {}

\* A value becomes a service call only for a property the device has, and when it
\* is of the property's type, within its range, or among its allowed values.
AcceptsValue(d, property, valid) == property \in PropertiesOf(d) /\ valid

\* Several devices at once need a global wording, or all of them in the area of
\* the user; a request without a user message is not restricted.
BatchScopeRejected(devices, wording, area) ==
    /\ Len(devices) > 1
    /\ wording = "local"
    /\ \E d \in ToSet(devices) : AreaOf[d] # area

-----------------------------------------------------------------------------
HaInit ==
    /\ actual = [d \in Devices |-> 0]
    /\ registered = Installed
    /\ refresh = "off" /\ fetched = NothingFetched
    /\ subscription = "off" /\ delay = 1
    /\ events = << >>
    /\ details = {} /\ cache = NoEntity /\ inventory = NoEntity /\ ready = FALSE
    /\ closed = FALSE
    /\ request = NoRequest
    /\ failures = 0 /\ requests = 0 /\ starts = 0
    /\ excused = {}

\* start() creates the tasks that are not running; close() cancels both wherever
\* they wait, and keeps the cache.
Start ==
    /\ starts < MaxStarts
    /\ refresh = "off" \/ subscription = "off"
    /\ closed' = FALSE /\ starts' = starts + 1
    /\ refresh' = IF refresh = "off" THEN "connecting" ELSE refresh
    /\ subscription' = IF subscription = "off" THEN "connecting" ELSE subscription
    /\ delay' = IF subscription = "off" THEN 1 ELSE delay
    /\ UNCHANGED <<house, fetched, events, memory, request, failures, requests, excused>>

EventsLost == {events[i].entity : i \in DOMAIN events}

Close ==
    /\ ~closed /\ starts > 0
    /\ closed' = TRUE
    /\ refresh' = "off" /\ fetched' = NothingFetched
    /\ subscription' = "off" /\ events' = << >>
    /\ excused' = excused \cup EventsLost
    /\ UNCHANGED <<house, delay, memory, request, counters>>

-----------------------------------------------------------------------------
(* Home Assistant: an entity changes by itself or by a service call, and the *)
(* change is sent on the subscription when there is one.                     *)

MayChange == FoldFunction(+, 0, actual) < MaxChanges

\* What Home Assistant does when entity d changes.
Changed(d) ==
    /\ actual' = [actual EXCEPT ![d] = @ + 1]
    /\ events' = IF subscription = "subscribed"
                 THEN Append(events, [entity |-> d, state |-> actual[d] + 1])
                 ELSE events
    /\ excused' = IF subscription = "subscribed" /\ refresh # "details"
                  THEN excused ELSE excused \cup {d}

EntityChanges ==
    \E d \in Devices :
        /\ MayChange
        /\ Changed(d)
        /\ UNCHANGED <<registered, tasks, memory, closed, request, counters>>

\* A device is given an area: it appears in the registry.
EntityRegistered ==
    \E d \in Devices \ registered :
        /\ registered' = registered \cup {d}
        /\ UNCHANGED <<actual, tasks, events, memory, closed, request, counters, excused>>

-----------------------------------------------------------------------------
(* _registry_refresh_loop and refresh_inventory().                          *)

\* The area, device and entity registries.
RefreshReadsRegistry ==
    /\ refresh = "connecting"
    /\ refresh' = "states"
    /\ fetched' = [NothingFetched EXCEPT !.registry = registered]
    /\ UNCHANGED <<house, subscription, delay, events, memory, closed, request,
                   counters, excused>>

\* get_states: the snapshot that will become the cache.
RefreshReadsStates ==
    /\ refresh = "states"
    /\ refresh' = "details"
    /\ fetched' = [fetched EXCEPT !.states = actual, !.todo = fetched.registry]
    /\ UNCHANGED <<house, subscription, delay, events, memory, closed, request,
                   counters, excused>>

\* One config/entity_registry/get per entity, each a round trip.
RefreshReadsDetail ==
    /\ refresh = "details"
    /\ \E d \in fetched.todo :
        fetched' = [fetched EXCEPT !.todo = @ \ {d}, !.details = @ \cup {d}]
    /\ UNCHANGED <<house, refresh, subscription, delay, events, memory, closed, request,
                   counters, excused>>

\* Seeded fault: a state already in the cache wins over the snapshot.
RefreshMerges ==
    /\ refresh = "details" /\ fetched.todo = {}
    /\ details' = fetched.details
    /\ cache' = [d \in Devices |-> IF d \in DOMAIN cache THEN cache[d] ELSE fetched.states[d]]
    /\ inventory' = BuildInventory(fetched.details, cache') /\ ready' = TRUE
    /\ refresh' = "sleeping" /\ fetched' = NothingFetched
    /\ excused' = {d \in Devices : fetched.states[d] # actual[d]}
    /\ UNCHANGED <<house, subscription, delay, events, closed, request, counters>>

\* The cache is replaced by the snapshot and the inventory rebuilt under the lock.
RefreshCommits ==
    /\ refresh = "details" /\ fetched.todo = {}
    /\ details' = fetched.details
    /\ cache' = fetched.states
    /\ inventory' = BuildInventory(fetched.details, fetched.states) /\ ready' = TRUE
    /\ refresh' = "sleeping" /\ fetched' = NothingFetched
    /\ excused' = {d \in Devices : fetched.states[d] # actual[d]}
    /\ UNCHANGED <<house, subscription, delay, events, closed, request, counters>>

\* Seeded fault: an exception nobody listed ends the loop.
RefreshDies ==
    /\ failures < MaxFailures
    /\ refresh \in {"connecting", "states", "details"}
    /\ refresh' = "off" /\ fetched' = NothingFetched
    /\ failures' = failures + 1
    /\ UNCHANGED <<house, subscription, delay, events, memory, closed, request,
                   requests, starts, excused>>

\* A timeout, a closed socket or an error of any request: logged, and retried after
\* the same interval as a success.
RefreshFails ==
    /\ failures < MaxFailures
    /\ refresh \in {"connecting", "states", "details"}
    /\ refresh' = "sleeping" /\ fetched' = NothingFetched
    /\ failures' = failures + 1
    /\ UNCHANGED <<house, subscription, delay, events, memory, closed, request,
                   requests, starts, excused>>

RefreshWakes ==
    /\ refresh = "sleeping"
    /\ refresh' = "connecting"
    /\ UNCHANGED <<house, fetched, subscription, delay, events, memory, closed, request,
                   counters, excused>>

-----------------------------------------------------------------------------
(* _state_subscription_loop, _run_state_subscription, _handle_state_changed. *)

Subscribes ==
    /\ subscription = "connecting"
    /\ subscription' = "subscribed"
    /\ UNCHANGED <<house, refresh, fetched, delay, events, memory, closed, request,
                   counters, excused>>

\* The event goes into the cache; the inventory is rebuilt once details are known.
HandleStateChanged ==
    /\ subscription = "subscribed" /\ events # << >>
    /\ LET e == Head(events)
           states == [d \in DOMAIN cache \cup {e.entity} |->
                        IF d = e.entity THEN e.state ELSE cache[d]]
       IN /\ cache' = states /\ ready' = (ready \/ details # {})
          /\ inventory' = IF details = {} THEN inventory ELSE BuildInventory(details, states)
    /\ events' = Tail(events)
    /\ UNCHANGED <<house, tasks, details, closed, request, counters, excused>>

\* The socket fails while connecting or while subscribed.  The code sets the delay
\* back only where _run_state_subscription() returns, which it does once closed.
SubscriptionFails ==
    /\ failures < MaxFailures
    /\ subscription \in {"connecting", "subscribed"}
    /\ subscription' = "backoff" /\ events' = << >>
    /\ failures' = failures + 1
    /\ excused' = excused \cup EventsLost
    /\ UNCHANGED <<house, refresh, fetched, delay, memory, closed, request,
                   requests, starts>>

SubscriptionRetries ==
    /\ subscription = "backoff"
    /\ subscription' = "connecting"
    /\ delay' = IF delay * 2 > 30 THEN 30 ELSE delay * 2
    /\ UNCHANGED <<house, refresh, fetched, events, memory, closed, request,
                   counters, excused>>

-----------------------------------------------------------------------------
(* modify_device(s): resolve, check the scope, call the services in order.  *)

Reply(status) == request' = [request EXCEPT !.phase = "answered", !.status = status]

ModifyDevices ==
    /\ request.phase = "idle" /\ requests < MaxRequests
    /\ requests' = requests + 1
    /\ \E names \in Requested, wording \in {"local", "global"}, d \in Devices :
        IF ~ready
        THEN request' = [NoRequest EXCEPT !.phase = "answered", !.status = "not_ready",
                                          !.names = names]
        ELSE LET devices == ResolvedForBatch(names)
             IN IF BatchScopeRejected(devices, wording, AreaOf[d])
                THEN request' = [NoRequest EXCEPT !.phase = "answered", !.names = names,
                                                  !.status = "rejected"]
                ELSE request' = [NoRequest EXCEPT !.phase = "calling", !.names = names,
                                                  !.devices = devices,
                                                  !.errors = UnresolvedCount(names)]
    /\ UNCHANGED <<house, tasks, events, memory, closed, failures, starts, excused>>

NextDevice == request.devices[Len(request.results) + 1]
CallsLeft == Len(request.results) < Len(request.devices)
WithResult(r) == [request EXCEPT !.results = Append(@, r)]

\* The property or the value does not suit this device: no service is called.
DeviceSkipped ==
    /\ request.phase = "calling" /\ CallsLeft
    /\ \E property \in {"on", "brightness_percent"}, valid \in BOOLEAN :
        ~AcceptsValue(NextDevice, property, valid)
    /\ request' = WithResult("skipped")
    /\ UNCHANGED <<house, tasks, events, memory, closed, counters, excused>>

ServiceCallSucceeds ==
    /\ request.phase = "calling" /\ CallsLeft
    /\ \E d \in Devices :
          /\ d = NextDevice
          /\ request' = [WithResult("ok") EXCEPT !.told = @ \cup {d}]
          /\ IF MayChange THEN Changed(d) ELSE UNCHANGED <<actual, events, excused>>
    /\ UNCHANGED <<registered, tasks, memory, closed, counters>>

\* The call fails before Home Assistant acts, or its answer does not arrive in 15 s
\* although Home Assistant acted.
ServiceCallFails ==
    /\ request.phase = "calling" /\ CallsLeft /\ failures < MaxFailures
    /\ failures' = failures + 1
    /\ \/ /\ request' = WithResult("failed")
          /\ UNCHANGED <<actual, events, excused>>
       \/ \E d \in Devices :
             /\ d = NextDevice /\ MayChange
             /\ request' = [WithResult("failed") EXCEPT !.told = @ \cup {d}]
             /\ Changed(d)
    /\ UNCHANGED <<registered, tasks, memory, closed, requests, starts>>

\* Seeded fault: the names that did not resolve are forgotten.
BatchStatusOfResults ==
    IF request.results # << >> /\ ToSet(request.results) = {"ok"} THEN "ok" ELSE "partial"

BatchStatus ==
    IF request.results # << >> /\ ToSet(request.results) = {"ok"} /\ request.errors = 0
    THEN "ok" ELSE "partial"

BatchReturns ==
    /\ request.phase = "calling" /\ ~CallsLeft
    /\ Reply(BatchStatus)
    /\ UNCHANGED <<house, tasks, events, memory, closed, counters, excused>>

\* The caller has read the answer.
RequestForgotten ==
    /\ request.phase = "answered"
    /\ request' = NoRequest
    /\ UNCHANGED <<house, tasks, events, memory, closed, counters, excused>>

-----------------------------------------------------------------------------
RefreshStep == RefreshReadsRegistry \/ RefreshReadsStates \/ RefreshReadsDetail
               \/ RefreshCommits \/ RefreshWakes
SubscriptionStep == Subscribes \/ HandleStateChanged \/ SubscriptionRetries
RequestStep == DeviceSkipped \/ ServiceCallSucceeds \/ ServiceCallFails \/ BatchReturns
               \/ RequestForgotten

HaNext ==
    \/ Start \/ Close \/ EntityChanges \/ EntityRegistered
    \/ RefreshStep \/ RefreshFails
    \/ SubscriptionStep \/ SubscriptionFails
    \/ ModifyDevices \/ RequestStep

HaSpec == HaInit /\ [][HaNext]_vars

\* Both loops keep running: their waits are bounded by the 15 s and 60 s receive
\* timeouts and by sleeps.
HaFairSpec == HaSpec /\ WF_vars(RefreshStep) /\ WF_vars(SubscriptionStep)

-----------------------------------------------------------------------------
(* What must hold.                                                          *)

\* Pending(d): a change of d is on its way to the subscription.
Pending(d) == d \in EventsLost

\* The inventory shows an entity's present state, unless its latest change is still
\* on its way, was made while nobody was subscribed, was lost with its connection, or
\* fell between get_states and the commit that overwrote it (connection.py 607-636
\* against 687-711).
FreshUnlessExcused ==
    \A d \in DOMAIN inventory : Pending(d) \/ d \in excused \/ inventory[d] = actual[d]

\* A batch is answered "ok" only when every name of the request was understood and
\* the service of its device was called in this very request, although the inventory
\* may be replaced between two of the calls (connection.py 196-230).
OkMeansEveryDeviceTold ==
    request.status = "ok" =>
        /\ request.errors = 0
        /\ request.told = ToSet(request.devices)
        /\ \A name \in ToSet(request.names) : Called[name] \cap request.told # {}

\* While the connection stays open, a missed change is not missed for ever: once the
\* house is quiet the inventory comes to show every registered entity as it is, and
\* keeps showing it, whatever failed before (connection.py 570-606).
EventuallyFresh ==
    <>[](~closed /\ starts > 0) =>
        <>[](/\ ready
             /\ DOMAIN inventory = registered
             /\ \A d \in registered : inventory[d] = actual[d])

=============================================================================
