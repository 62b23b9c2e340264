------------------------ MODULE HomeAssistantProofs ------------------------
(***************************************************************************)
(* Proofs about the cache of the Home Assistant connection, for any house.   *)
(***************************************************************************)
EXTENDS HomeAssistantConnection, FiniteSetTheorems, WellFoundedInduction, TLAPS

Events == [entity : Devices, state : Nat]

HouseTypeOK ==
    /\ actual \in [Devices -> Nat]
    /\ events \in Seq(Events)
    /\ DOMAIN cache \subseteq Devices
    /\ DOMAIN fetched = {"registry", "states", "todo", "details"}
    /\ refresh = "details" => DOMAIN fetched.states = Devices

\* Nothing is on its way without a subscription, and the newest event of an entity carries
\* its present state.
LatestIsActual ==
    \A i \in 1..Len(events) :
        \/ events[i].state = actual[events[i].entity]
        \/ \E j \in (i + 1)..Len(events) : events[j].entity = events[i].entity

EventsInv ==
    /\ subscription # "subscribed" => events = <<>>
    /\ LatestIsActual

\* The inventory shows the cache, and the cache is behind only where it may be.
ShowsCache == inventory = BuildInventory(details, cache)

CacheInv ==
    \A d \in DOMAIN cache : Pending(d) \/ d \in excused \/ cache[d] = actual[d]

HaInv == HouseTypeOK /\ EventsInv /\ ShowsCache /\ CacheInv

-----------------------------------------------------------------------------
LEMMA InitHa == HaInit => HaInv
<1> SUFFICES ASSUME HaInit PROVE HaInv
  OBVIOUS
<1>1. HouseTypeOK /\ EventsInv /\ CacheInv
  BY DEF HaInit, HouseTypeOK, EventsInv, LatestIsActual, CacheInv, NoEntity,
         NothingFetched
<1>2. ShowsCache
  BY DEF HaInit, ShowsCache, BuildInventory, NoEntity
<1> QED
  BY <1>1, <1>2 DEF HaInv

\* What is on its way, by place.
LEMMA PendingFacts ==
    ASSUME NEW d, events \in Seq(Events)
    PROVE  Pending(d) <=> \E i \in 1..Len(events) : events[i].entity = d
  BY DEF Pending, EventsLost

\* A change of an entity is sent, or it is excused.
LEMMA ChangedInv ==
    ASSUME HaInv, NEW d \in Devices, Changed(d),
           UNCHANGED <<subscription, refresh, fetched, details, cache, inventory>>
    PROVE  HaInv'
<1> USE DEF HaInv
<1>1. actual' = [actual EXCEPT ![d] = @ + 1] /\ actual' \in [Devices -> Nat]
      /\ excused \subseteq excused'
  BY DEF Changed, HouseTypeOK
<1>2. CASE subscription = "subscribed"
  <2> DEFINE e == [entity |-> d, state |-> actual[d] + 1]
             n == Len(events) + 1
  <2>1. e \in Events /\ e.state = actual'[d] /\ Len(events) \in Nat
    BY <1>1 DEF Events, HouseTypeOK
  <2>2. events' = Append(events, e)
    BY <1>2 DEF Changed
  <2>3. /\ events' \in Seq(Events) /\ Len(events') = n /\ events'[n] = e
        /\ \A i \in 1..Len(events) : events'[i] = events[i] /\ events[i] \in Events
    BY <2>1, <2>2 DEF HouseTypeOK
  <2>4. LatestIsActual'
    <3> SUFFICES ASSUME NEW i \in 1..n
                 PROVE  \/ events'[i].state = actual'[events'[i].entity]
                        \/ \E j \in (i + 1)..n : events'[j].entity = events'[i].entity
      BY <2>3 DEF LatestIsActual
    <3>1. CASE i = n
      BY <2>1, <2>3, <3>1
    <3>2. CASE i # n /\ events[i].entity = d
      BY <2>1, <2>3, <3>2
    <3>3. CASE i # n /\ events[i].entity # d
      <4>1. i \in 1..Len(events) /\ events'[i] = events[i] /\ events[i].entity \in Devices
        BY <2>1, <2>3, <3>3 DEF Events
      <4>2. actual'[events[i].entity] = actual[events[i].entity]
        BY <1>1, <3>3, <4>1 DEF HouseTypeOK
      <4> QED
        BY <2>1, <2>3, <4>1, <4>2 DEF EventsInv, LatestIsActual
    <3> QED
      BY <3>1, <3>2, <3>3
  <2>5. Pending(d)' /\ \A c : Pending(c) => Pending(c)'
    <3>1. \A c : Pending(c) <=> \E i \in 1..Len(events) : events[i].entity = c
      BY PendingFacts DEF HouseTypeOK
    <3>2. \A c : Pending(c)' <=> \E i \in 1..Len(events') : events'[i].entity = c
      BY <2>3 DEF Pending, EventsLost
    <3> QED
      BY <2>1, <2>3, <3>1, <3>2
  <2>6. CacheInv'
    BY <1>1, <2>5 DEF CacheInv, HouseTypeOK
  <2> QED
    BY <1>1, <1>2, <2>3, <2>4, <2>6 DEF HouseTypeOK, EventsInv, ShowsCache, BuildInventory
<1>3. CASE subscription # "subscribed"
  <2>1. events = <<>> /\ events' = events /\ d \in excused'
    BY <1>3 DEF Changed, EventsInv
  <2>2. LatestIsActual'
    BY <2>1 DEF LatestIsActual
  <2>3. CacheInv'
    BY <1>1, <2>1 DEF CacheInv, HouseTypeOK, Pending, EventsLost
  <2> QED
    BY <1>1, <1>3, <2>1, <2>2, <2>3 DEF HouseTypeOK, EventsInv, ShowsCache, BuildInventory
<1> QED
  BY <1>2, <1>3

\* An event is applied: either a newer one of its entity follows, or the cache is up to date.
LEMMA HandleInv ==
    ASSUME HaInv, HandleStateChanged
    PROVE  HaInv'
<1> USE DEF HaInv
<1> DEFINE e == Head(events)
           states == [d \in DOMAIN cache \cup {e.entity} |->
                        IF d = e.entity THEN e.state ELSE cache[d]]
<1>1. /\ subscription = "subscribed" /\ events # <<>> /\ cache' = states
      /\ events' = Tail(events)
      /\ inventory' = IF details = {} THEN inventory ELSE BuildInventory(details, states)
      /\ UNCHANGED <<actual, refresh, fetched, subscription, details, excused>>
  BY DEF HandleStateChanged, house, tasks
<1>2. /\ Len(events) \in Nat /\ Len(events) >= 1 /\ events[1] = e /\ e \in Events
      /\ events' \in Seq(Events) /\ Len(events') = Len(events) - 1
      /\ \A i \in 1..Len(events') : events'[i] = events[i + 1]
  BY <1>1 DEF HouseTypeOK
<1>3. HouseTypeOK'
  BY <1>1, <1>2 DEF HouseTypeOK, Events
<1>4. LatestIsActual'
  <2> SUFFICES ASSUME NEW i \in 1..Len(events')
               PROVE  \/ events'[i].state = actual[events'[i].entity]
                      \/ \E j \in (i + 1)..Len(events') : events'[j].entity = events'[i].entity
    BY <1>1 DEF LatestIsActual
  <2>1. i + 1 \in 1..Len(events) /\ events'[i] = events[i + 1]
    BY <1>2
  <2>2. CASE events[i + 1].state = actual[events[i + 1].entity]
    BY <2>1, <2>2
  <2>3. ASSUME NEW j \in (i + 2)..Len(events), events[j].entity = events[i + 1].entity
        PROVE  \E k \in (i + 1)..Len(events') : events'[k].entity = events'[i].entity
    <3>1. j - 1 \in (i + 1)..Len(events') /\ events'[j - 1] = events[j]
      BY <1>2, <2>3
    <3> QED
      BY <2>1, <2>3, <3>1
  <2> QED
    BY <1>2, <2>1, <2>2, <2>3 DEF EventsInv, LatestIsActual
<1>5. \A c : Pending(c) <=> \E i \in 1..Len(events) : events[i].entity = c
  BY PendingFacts DEF HouseTypeOK
<1>6. \A c : Pending(c)' <=> \E i \in 1..Len(events') : events'[i].entity = c
  BY <1>2 DEF Pending, EventsLost
<1>7. ASSUME NEW c, NEW i \in 2..Len(events), events[i].entity = c PROVE Pending(c)'
  <2>1. i - 1 \in 1..Len(events') /\ events'[i - 1] = events[i]
    BY <1>2
  <2> QED
    BY <1>6, <1>7, <2>1
<1>8. CacheInv'
  <2> SUFFICES ASSUME NEW d \in DOMAIN cache'
               PROVE  Pending(d)' \/ d \in excused \/ cache'[d] = actual[d]
    BY <1>1 DEF CacheInv
  <2>1. CASE d = e.entity
    <3>1. cache'[d] = e.state
      BY <1>1, <2>1
    <3>2. e.state = actual[d] \/ \E j \in 2..Len(events) : events[j].entity = d
      BY <1>2, <2>1 DEF EventsInv, LatestIsActual
    <3> QED
      BY <1>7, <3>1, <3>2
  <2>2. CASE d # e.entity
    <3>1. d \in DOMAIN cache /\ cache'[d] = cache[d]
      BY <1>1, <2>2
    <3>2. Pending(d) => \E i \in 2..Len(events) : events[i].entity = d
      BY <1>2, <1>5, <2>2
    <3> QED
      BY <1>7, <3>1, <3>2 DEF CacheInv
  <2> QED
    BY <2>1, <2>2
<1>9. ShowsCache'
  <2>1. CASE details = {}
    <3>1. inventory = [d \in {} |-> cache[d]] /\ inventory' = inventory
      BY <1>1, <2>1 DEF ShowsCache, BuildInventory
    <3> QED
      BY <1>1, <2>1, <3>1 DEF ShowsCache, BuildInventory
  <2>2. CASE details # {}
    BY <1>1, <2>2 DEF ShowsCache, BuildInventory
  <2> QED
    BY <2>1, <2>2
<1> QED
  BY <1>1, <1>3, <1>4, <1>8, <1>9 DEF EventsInv

\* The snapshot replaces the cache, and who has changed since is excused.
LEMMA CommitInv ==
    ASSUME HaInv, RefreshCommits
    PROVE  HaInv'
<1> USE DEF HaInv
<1>1. /\ DOMAIN fetched.states = Devices
      /\ cache' = fetched.states /\ refresh' # "details" /\ DOMAIN fetched' = DOMAIN fetched
      /\ excused' = {d \in Devices : fetched.states[d] # actual[d]}
      /\ UNCHANGED <<actual, events, subscription>>
  BY DEF RefreshCommits, HouseTypeOK, NothingFetched, house
<1>2. HouseTypeOK' /\ EventsInv'
  BY <1>1 DEF HouseTypeOK, EventsInv, LatestIsActual
<1>3. CacheInv'
  BY <1>1 DEF CacheInv
<1>4. ShowsCache'
  BY DEF RefreshCommits, ShowsCache, BuildInventory
<1> QED
  BY <1>2, <1>3, <1>4

\* The connection is lost, or closed: what was on its way is excused.
LEMMA LossInv ==
    ASSUME HaInv, Close \/ SubscriptionFails
    PROVE  HaInv'
<1> USE DEF HaInv
<1>1. /\ events' = <<>> /\ excused' = excused \cup EventsLost
      /\ UNCHANGED <<actual, details, cache, inventory>>
      /\ refresh' = "details" => refresh = "details" /\ fetched' = fetched
      /\ DOMAIN fetched' = DOMAIN fetched
  BY DEF Close, SubscriptionFails, NothingFetched, HouseTypeOK, house, memory
<1>2. HouseTypeOK' /\ EventsInv'
  BY <1>1 DEF HouseTypeOK, EventsInv, LatestIsActual
<1>3. CacheInv'
  BY <1>1 DEF CacheInv, Pending
<1>4. ShowsCache'
  BY <1>1 DEF ShowsCache, BuildInventory
<1> QED
  BY <1>2, <1>3, <1>4

\* Everything that leaves the house, the events and the cache alone.
LEMMA QuietInv ==
    ASSUME HaInv, UNCHANGED <<actual, events, details, cache, inventory, excused>>,
           subscription' = subscription \/ (events = <<>> /\ subscription # "subscribed"),
           DOMAIN fetched' = DOMAIN fetched,
           refresh' = "details" => DOMAIN fetched'.states = Devices
    PROVE  HaInv'
  BY DEF HaInv, HouseTypeOK, EventsInv, LatestIsActual, CacheInv, Pending, EventsLost,
         ShowsCache, BuildInventory

-----------------------------------------------------------------------------
LEMMA NextHa == HaInv /\ [HaNext]_vars => HaInv'
<1> SUFFICES ASSUME HaInv, [HaNext]_vars PROVE HaInv'
  OBVIOUS
<1>1. CASE EntityChanges
  BY <1>1, ChangedInv DEF EntityChanges, tasks, memory
<1>2. CASE RequestStep
  <2>1. UNCHANGED <<subscription, refresh, fetched, details, cache, inventory>>
    BY <1>2 DEF RequestStep, DeviceSkipped, ServiceCallSucceeds, ServiceCallFails, BatchReturns,
                RequestForgotten, tasks, memory
  <2>2. UNCHANGED <<actual, events, excused>> \/ \E d \in Devices : Changed(d)
    BY <1>2 DEF RequestStep, DeviceSkipped, ServiceCallSucceeds, ServiceCallFails, BatchReturns,
                RequestForgotten, house
  <2> QED
    BY <2>1, <2>2, ChangedInv, QuietInv DEF HaInv, HouseTypeOK
<1>3. CASE HandleStateChanged
  BY <1>3, HandleInv
<1>4. CASE RefreshCommits
  BY <1>4, CommitInv
<1>5. CASE Close \/ SubscriptionFails
  BY <1>5, LossInv
<1>6. CASE \/ RefreshReadsRegistry \/ RefreshReadsStates \/ RefreshReadsDetail \/ RefreshWakes
           \/ RefreshFails
  <2>1. UNCHANGED <<actual, events, details, cache, inventory, excused, subscription>>
    BY <1>6 DEF RefreshReadsRegistry, RefreshReadsStates, RefreshReadsDetail, RefreshWakes,
                RefreshFails, house, memory
  <2>2. refresh' = "details" => DOMAIN fetched'.states = Devices
    BY <1>6 DEF RefreshReadsRegistry, RefreshReadsStates, RefreshReadsDetail, RefreshWakes,
                RefreshFails, HaInv, HouseTypeOK
  <2>3. DOMAIN fetched' = DOMAIN fetched
    BY <1>6 DEF RefreshReadsRegistry, RefreshReadsStates, RefreshReadsDetail, RefreshWakes,
                RefreshFails, NothingFetched, HaInv, HouseTypeOK
  <2> QED
    BY <2>1, <2>2, <2>3, QuietInv
<1>7. CASE \/ Start \/ EntityRegistered \/ Subscribes \/ SubscriptionRetries \/ ModifyDevices
           \/ UNCHANGED vars
  <2>1. /\ UNCHANGED <<actual, events, details, cache, inventory, excused>>
        /\ subscription' = subscription \/ (events = <<>> /\ subscription # "subscribed")
        /\ refresh' = "details" => refresh = "details" /\ fetched' = fetched
        /\ DOMAIN fetched' = DOMAIN fetched
    BY <1>7 DEF Start, EntityRegistered, Subscribes, SubscriptionRetries, ModifyDevices,
                house, tasks, memory, vars, HaInv, EventsInv
  <2> QED
    BY <2>1, QuietInv DEF HaInv, HouseTypeOK
<1> QED
  BY <1>1, <1>2, <1>3, <1>4, <1>5, <1>6, <1>7 DEF HaNext, RefreshStep, SubscriptionStep

\* An entity of the inventory that is shown wrongly has an event on its way, or one of the
\* excuses, in any house and after any history of failures.
THEOREM InventoryIsFresh == HaSpec => []FreshUnlessExcused
<1>1. HaInv => FreshUnlessExcused
  BY DEF HaInv, ShowsCache, BuildInventory, CacheInv, FreshUnlessExcused
<1> QED
  BY <1>1, InitHa, NextHa, PTL DEF HaSpec

-----------------------------------------------------------------------------
(* What a batch of names is resolved to.  ResolvedForBatch() goes through    *)
(* the names one by one, and what it computes is proved by induction on      *)
(* their number: a set of natural numbers that is not empty has a least      *)
(* member, which the library derives from the well-foundedness of <.         *)

LessThan == {p \in Nat \X Nat : p[1] < p[2]}

LEMMA LessThanIsWellFounded == IsWellFoundedOn(LessThan, Nat)
  BY NatLessThanWellFounded, Zenon DEF OpToRel, LessThan

LEMMA LeastMember ==
    ASSUME NEW T \in SUBSET Nat, T # {}
    PROVE  \E n \in T : \A m \in T : n <= m
<1>1. \E n \in T : \A m \in T : ~(<<m, n>> \in LessThan)
  BY LessThanIsWellFounded, WFMin
<1>2. PICK n \in T : \A m \in T : ~(<<m, n>> \in LessThan)
  BY <1>1
<1>3. ASSUME NEW m \in T PROVE n <= m
  <2>1. <<m, n>> \in Nat \X Nat /\ m \in Nat /\ n \in Nat
    OBVIOUS
  <2>2. <<m, n>>[1] = m /\ <<m, n>>[2] = n
    OBVIOUS
  <2>3. ~(m < n)
    BY <1>2, <2>1, <2>2 DEF LessThan
  <2> QED
    BY <2>1, <2>3
<1> QED
  BY <1>3

LEMMA NatInduct ==
    ASSUME NEW T, 0 \in T, \A n \in Nat : n \in T => n + 1 \in T
    PROVE  Nat \subseteq T
<1> SUFFICES ASSUME Nat \ T # {} PROVE FALSE
  OBVIOUS
<1>1. PICK n \in Nat \ T : \A m \in Nat \ T : n <= m
  BY LeastMember
<1>2. n - 1 \in Nat
  BY <1>1
<1>3. n - 1 \in T
  BY <1>1, <1>2
<1>4. (n - 1) + 1 \in T
  BY <1>2, <1>3
<1> QED
  BY <1>1, <1>4

\* One name more.
FindNext(names, i, found) ==
    IF Resolves(names[i]) /\ TheDevice(names[i]) \notin ToSet(found)
    THEN Append(found, TheDevice(names[i])) ELSE found

\* f is what the first n names find.
Finds(names, n, f) ==
    f = [i \in 0..n |-> IF i = 0 THEN << >> ELSE FindNext(names, i, f[i - 1])]

\* The recursion defines a function.
LEMMA FindsExists ==
    ASSUME NEW names, NEW n \in Nat
    PROVE  \E f : Finds(names, n, f)
<1> DEFINE T == {k \in Nat : \E f : Finds(names, k, f)}
<1>1. 0 \in T
  <2>1. Finds(names, 0, [i \in 0..0 |-> << >>])
    BY DEF Finds
  <2> QED
    BY <2>1
<1>2. ASSUME NEW k \in Nat, k \in T PROVE k + 1 \in T
  <2>1. PICK f : Finds(names, k, f)
    BY <1>2
  <2> DEFINE g == [i \in 0..(k + 1) |-> IF i <= k THEN f[i] ELSE FindNext(names, i, f[k])]
  <2>2. ASSUME NEW i \in 0..(k + 1)
        PROVE  g[i] = IF i = 0 THEN << >> ELSE FindNext(names, i, g[i - 1])
    <3>1. CASE i = 0
      BY <2>1, <3>1 DEF Finds
    <3>2. CASE i # 0 /\ i <= k
      <4>1. i \in 0..k /\ i - 1 \in 0..(k + 1) /\ i - 1 <= k
        BY <3>2
      <4>2. g[i] = f[i] /\ g[i - 1] = f[i - 1]
        BY <3>2, <4>1
      <4>3. f[i] = FindNext(names, i, f[i - 1])
        BY <2>1, <3>2, <4>1 DEF Finds
      <4> QED
        BY <3>2, <4>2, <4>3
    <3>3. CASE i = k + 1
      <4>1. i - 1 = k /\ i - 1 \in 0..(k + 1) /\ ~(i <= k) /\ i # 0
        BY <3>3
      <4>2. g[i] = FindNext(names, i, f[k]) /\ g[i - 1] = f[k]
        BY <4>1
      <4> QED
        BY <4>1, <4>2
    <3> QED
      BY <3>1, <3>2, <3>3
  <2> HIDE DEF g
  <2>3. g = [i \in 0..(k + 1) |-> IF i = 0 THEN << >> ELSE FindNext(names, i, g[i - 1])]
    <3>1. g = [i \in 0..(k + 1) |-> g[i]]
      BY DEF g
    <3> QED
      BY <2>2, <3>1
  <2> QED
    BY <2>3 DEF Finds
<1>3. Nat \subseteq T
  <2> HIDE DEF T
  <2> QED
    BY <1>1, <1>2, NatInduct
<1> QED
  BY <1>3

\* What the names resolve to is what the last of them leaves.
LEMMA ResolvedIsFound ==
    ASSUME NEW names \in Seq(Names)
    PROVE  \E f : Finds(names, Len(names), f) /\ ResolvedForBatch(names) = f[Len(names)]
<1> DEFINE f == CHOOSE g : Finds(names, Len(names), g)
<1>1. Finds(names, Len(names), f)
  BY FindsExists
<1>2. ResolvedForBatch(names) = f[Len(names)]
  BY Zenon DEF ResolvedForBatch, Finds, FindNext
<1> QED
  BY <1>1, <1>2

\* The first n names have found these devices: each that one of them resolves to, once,
\* in the order in which they were first named.
Naming(names, n, d) == {m \in 1..n : Resolves(names[m]) /\ TheDevice(names[m]) = d}

FoundSo(names, n, found) ==
    /\ found \in Seq(Devices)
    /\ \A m \in 1..n : Resolves(names[m]) => TheDevice(names[m]) \in ToSet(found)
    /\ \A i \in 1..Len(found) : Naming(names, n, found[i]) # {}
    /\ \A i, j \in 1..Len(found) : i < j =>
          /\ found[i] # found[j]
          /\ \E m \in Naming(names, n, found[i]) : \A k \in Naming(names, n, found[j]) : m < k

LEMMA TheDeviceAnswers ==
    ASSUME NEW name, Resolves(name), DOMAIN inventory \subseteq Devices
    PROVE  TheDevice(name) \in Called[name] /\ TheDevice(name) \in Devices
<1>1. Resolved(name) # {}
  BY FS_EmptySet DEF Resolves
<1>2. TheDevice(name) \in Resolved(name)
  BY <1>1, Zenon DEF TheDevice
<1> QED
  BY <1>2 DEF Resolved

LEMMA FindNextKeeps ==
    ASSUME NEW names \in Seq(Names), NEW n \in Nat, NEW found,
           FoundSo(names, n, found), DOMAIN inventory \subseteq Devices
    PROVE  FoundSo(names, n + 1, FindNext(names, n + 1, found))
<1> DEFINE d == TheDevice(names[n + 1])
           now == FindNext(names, n + 1, found)
<1> SUFFICES FoundSo(names, n + 1, now)
  OBVIOUS
<1>d. d = TheDevice(names[n + 1]) /\ now = FindNext(names, n + 1, found)
  OBVIOUS
<1> HIDE DEF d, now
<1>1. found \in Seq(Devices) /\ Len(found) \in Nat /\ ToSet(found) = {found[i] : i \in 1..Len(found)}
  BY DEF FoundSo, ToSet
<1>2. \A c : Naming(names, n, c) \subseteq Naming(names, n + 1, c)
  BY DEF Naming
<1>3. \A m \in 1..(n + 1) : m \in 1..n \/ m = n + 1
  OBVIOUS
<1>4. CASE ~Resolves(names[n + 1])
  <2>1. now = found /\ \A c : Naming(names, n + 1, c) = Naming(names, n, c)
    BY <1>3, <1>4, <1>d DEF FindNext, Naming
  <2>2. \A m \in 1..(n + 1) : Resolves(names[m]) => TheDevice(names[m]) \in ToSet(found)
    BY <1>3, <1>4 DEF FoundSo
  <2>3. \A i \in 1..Len(found) : Naming(names, n + 1, found[i]) # {}
    BY <2>1 DEF FoundSo
  <2>4. ASSUME NEW i \in 1..Len(found), NEW j \in 1..Len(found), i < j
        PROVE  /\ found[i] # found[j]
               /\ \E m \in Naming(names, n + 1, found[i]) :
                     \A k \in Naming(names, n + 1, found[j]) : m < k
    <3>1. /\ found[i] # found[j]
          /\ \E m \in Naming(names, n, found[i]) : \A k \in Naming(names, n, found[j]) : m < k
      BY <2>4 DEF FoundSo
    <3> QED
      BY <2>1, <3>1
  <2>5. \A i, j \in 1..Len(found) : i < j =>
           /\ found[i] # found[j]
           /\ \E m \in Naming(names, n + 1, found[i]) :
                 \A k \in Naming(names, n + 1, found[j]) : m < k
    BY <2>4
  <2>6. FoundSo(names, n + 1, found)
    BY <1>1, <2>2, <2>3, <2>5, Zenon DEF FoundSo
  <2> QED
    BY <2>1, <2>6, Zenon
<1>5. CASE Resolves(names[n + 1]) /\ d \in ToSet(found)
  <2>1. now = found
    BY <1>5, <1>d DEF FindNext
  <2>2. \A m \in 1..(n + 1) : Resolves(names[m]) => TheDevice(names[m]) \in ToSet(found)
    BY <1>3, <1>5, <1>d DEF FoundSo
  <2>3. ASSUME NEW i \in 1..Len(found), NEW j \in 1..Len(found), i < j
        PROVE  /\ found[i] # found[j]
               /\ \E m \in Naming(names, n + 1, found[i]) :
                     \A k \in Naming(names, n + 1, found[j]) : m < k
    <3>1. PICK m \in Naming(names, n, found[i]) : \A k \in Naming(names, n, found[j]) : m < k
      BY <2>3 DEF FoundSo
    <3>2. ASSUME NEW k \in Naming(names, n + 1, found[j]) PROVE m < k
      BY <1>3, <3>1, <3>2 DEF Naming
    <3> QED
      BY <1>2, <2>3, <3>1, <3>2 DEF FoundSo
  <2>4. \A i \in 1..Len(found) : Naming(names, n + 1, found[i]) # {}
    BY <1>2 DEF FoundSo
  <2>5. \A i, j \in 1..Len(found) : i < j =>
           /\ found[i] # found[j]
           /\ \E m \in Naming(names, n + 1, found[i]) :
                 \A k \in Naming(names, n + 1, found[j]) : m < k
    BY <2>3
  <2>6. FoundSo(names, n + 1, found)
    BY <1>1, <2>2, <2>4, <2>5, Zenon DEF FoundSo
  <2> QED
    BY <2>1, <2>6, Zenon
<1>6. CASE Resolves(names[n + 1]) /\ d \notin ToSet(found)
  <2> DEFINE l == Len(found) + 1
  <2>1. now = Append(found, d) /\ d \in Devices /\ l = Len(found) + 1 /\ l \in Nat
    BY <1>1, <1>6, <1>d, TheDeviceAnswers DEF FindNext
  <2> HIDE DEF l
  <2>2. /\ now \in Seq(Devices) /\ Len(now) = l /\ now[l] = d
        /\ \A i \in 1..Len(found) : now[i] = found[i]
    BY <1>1, <2>1
  <2>9. \A i \in 1..l : i \in 1..Len(found) \/ i = l
    BY <1>1, <2>1
  <2>3. ToSet(found) \subseteq ToSet(now) /\ d \in ToSet(now)
    <3>1. DOMAIN now = 1..l /\ l \in 1..l /\ 1..Len(found) \subseteq 1..l
      BY <1>1, <2>1, <2>2
    <3> QED
      BY <1>1, <2>2, <3>1 DEF ToSet
  <2>4. n + 1 \in Naming(names, n + 1, d) /\ Naming(names, n, d) = {}
    BY <1>6, <1>d DEF Naming, FoundSo
  <2>5. \A i \in 1..l : Naming(names, n + 1, now[i]) # {}
    <3>1. \A i \in 1..Len(found) : Naming(names, n + 1, now[i]) # {}
      BY <1>2, <2>2 DEF FoundSo
    <3> QED
      BY <2>2, <2>4, <2>9, <3>1
  <2>6. ASSUME NEW i \in 1..l, NEW j \in 1..l, i < j
        PROVE  /\ now[i] # now[j]
               /\ \E m \in Naming(names, n + 1, now[i]) :
                     \A k \in Naming(names, n + 1, now[j]) : m < k
    <3>1. i \in 1..Len(found) /\ now[i] = found[i]
      BY <1>1, <2>1, <2>2, <2>6, <2>9
    <3>2. CASE j = l
      <4>1. PICK m \in Naming(names, n, found[i]) : TRUE
        BY <3>1 DEF FoundSo
      <4>2. \A k \in Naming(names, n + 1, d) : k = n + 1
        BY <1>3, <2>4 DEF Naming
      <4>3. m \in 1..n /\ m < n + 1
        BY <4>1 DEF Naming
      <4>4. found[i] # d
        BY <1>1, <1>6, <3>1
      <4>5. m \in Naming(names, n + 1, found[i])
        BY <1>2, <4>1
      <4> QED
        BY <2>2, <3>1, <3>2, <4>2, <4>3, <4>4, <4>5
    <3>3. CASE j # l
      <4>1. j \in 1..Len(found) /\ now[j] = found[j]
        BY <1>1, <2>2, <2>9, <3>3
      <4>2. found[i] # found[j]
        BY <2>6, <3>1, <4>1 DEF FoundSo
      <4>3. PICK m \in Naming(names, n, found[i]) : \A k \in Naming(names, n, found[j]) : m < k
        BY <2>6, <3>1, <4>1 DEF FoundSo
      <4>4. \A k \in Naming(names, n + 1, found[j]) : k \in Naming(names, n, found[j])
        BY <1>1, <1>3, <1>6, <1>d, <4>1 DEF Naming
      <4> QED
        BY <1>2, <3>1, <4>1, <4>2, <4>3, <4>4
    <3> QED
      BY <3>2, <3>3
  <2>7. \A m \in 1..(n + 1) : Resolves(names[m]) => TheDevice(names[m]) \in ToSet(now)
    BY <1>3, <1>d, <2>3 DEF FoundSo
  <2>8. /\ \A i \in 1..Len(now) : Naming(names, n + 1, now[i]) # {}
        /\ \A i, j \in 1..Len(now) : i < j =>
              /\ now[i] # now[j]
              /\ \E m \in Naming(names, n + 1, now[i]) :
                    \A k \in Naming(names, n + 1, now[j]) : m < k
    BY <2>2, <2>5, <2>6
  <2> QED
    BY <2>2, <2>7, <2>8, Zenon DEF FoundSo
<1> QED
  BY <1>4, <1>5, <1>6

\* A batch is resolved to the devices that its names mean, each once and in order.
THEOREM BatchResolution ==
    ASSUME NEW names \in Seq(Names), DOMAIN inventory \subseteq Devices
    PROVE  FoundSo(names, Len(names), ResolvedForBatch(names))
<1>1. PICK f : Finds(names, Len(names), f) /\ ResolvedForBatch(names) = f[Len(names)]
  BY ResolvedIsFound
<1>2. Len(names) \in Nat
  OBVIOUS
<1> DEFINE T == {n \in Nat : n <= Len(names) => FoundSo(names, n, f[n])}
<1>3. 0 \in T
  <2>1. f[0] = << >>
    BY <1>1, <1>2 DEF Finds
  <2>2. FoundSo(names, 0, << >>)
    BY DEF FoundSo
  <2> QED
    BY <2>1, <2>2
<1>4. ASSUME NEW n \in Nat, n \in T PROVE n + 1 \in T
  <2> SUFFICES ASSUME n + 1 <= Len(names) PROVE FoundSo(names, n + 1, f[n + 1])
    OBVIOUS
  <2>1. f[n + 1] = FindNext(names, n + 1, f[n])
    <3>1. n + 1 \in 0..Len(names) /\ n + 1 # 0 /\ (n + 1) - 1 = n
      BY <1>2
    <3> QED
      BY <1>1, <3>1 DEF Finds
  <2>2. FoundSo(names, n, f[n])
    BY <1>2, <1>4
  <2> QED
    BY <2>1, <2>2, FindNextKeeps
<1>5. Nat \subseteq T
  <2> HIDE DEF T
  <2> QED
    BY <1>3, <1>4, NatInduct
<1> QED
  BY <1>1, <1>2, <1>5

-----------------------------------------------------------------------------
(* A request, from its names to its status.                                 *)

ServiceResults == {"ok", "skipped", "failed"}

RequestTypeOK ==
    request \in [phase : {"idle", "calling", "answered"}, names : Seq(Names),
                 devices : Seq(Devices), errors : Nat, results : Seq(ServiceResults),
                 status : {None, "not_ready", "rejected", "ok", "partial"},
                 told : SUBSET Devices]

\* Every name was understood as one of the devices.
Understood == \A name \in ToSet(request.names) : Called[name] \cap ToSet(request.devices) # {}

\* The devices whose turn has come.
Addressed == {request.devices[i] : i \in 1..Len(request.results)}

CallingInv ==
    request.phase = "calling" =>
        /\ request.status = None
        /\ Len(request.results) <= Len(request.devices)
        /\ \A i, j \in 1..Len(request.devices) :
              i # j => request.devices[i] # request.devices[j]
        /\ request.errors = 0 => Understood
        /\ request.told \subseteq Addressed
        /\ \A i \in 1..Len(request.results) :
              request.results[i] = "ok" => request.devices[i] \in request.told

RequestInv ==
    /\ RequestTypeOK
    /\ CallingInv
    /\ request.phase = "idle" => request = NoRequest
    /\ OkMeansEveryDeviceTold

LEMMA InitRequest == HaInit => RequestInv
  BY DEF HaInit, NoRequest, RequestInv, RequestTypeOK, CallingInv, OkMeansEveryDeviceTold, None

LEMMA UnresolvedFacts ==
    ASSUME NEW names \in Seq(Names)
    PROVE  /\ UnresolvedCount(names) \in Nat
           /\ UnresolvedCount(names) = 0 => \A i \in 1..Len(names) : Resolves(names[i])
<1> DEFINE U == {i \in DOMAIN names : ~Resolves(names[i])}
<1>1. DOMAIN names = 1..Len(names) /\ Len(names) \in Nat
  OBVIOUS
<1>2. IsFiniteSet(U)
  <2>1. IsFiniteSet(1..Len(names))
    BY <1>1, FS_Interval
  <2>2. U \subseteq 1..Len(names)
    BY <1>1
  <2> QED
    BY <2>1, <2>2, FS_Subset
<1>3. Cardinality(U) \in Nat /\ (Cardinality(U) = 0 => U = {})
  BY <1>2, FS_CardinalityType, FS_EmptySet
<1> QED
  BY <1>1, <1>3 DEF UnresolvedCount

LEMMA RequestBegins ==
    ASSUME RequestInv, ModifyDevices, DOMAIN inventory \subseteq Devices
    PROVE  RequestInv'
<1>1. PICK names \in Requested, wording \in {"local", "global"}, d \in Devices :
        IF ~ready
        THEN request' = [NoRequest EXCEPT !.phase = "answered", !.status = "not_ready",
                                          !.names = names]
        ELSE IF BatchScopeRejected(ResolvedForBatch(names), wording, AreaOf[d])
        THEN request' = [NoRequest EXCEPT !.phase = "answered", !.names = names,
                                          !.status = "rejected"]
        ELSE request' = [NoRequest EXCEPT !.phase = "calling", !.names = names,
                                          !.devices = ResolvedForBatch(names),
                                          !.errors = UnresolvedCount(names)]
  BY DEF ModifyDevices
<1>2. names \in Seq(Names)
  BY HaAssumption DEF HaAssumption
<1> DEFINE devices == ResolvedForBatch(names)
<1>3. FoundSo(names, Len(names), devices)
  BY <1>2, BatchResolution
<1>4. UnresolvedCount(names) \in Nat
      /\ (UnresolvedCount(names) = 0 => \A i \in 1..Len(names) : Resolves(names[i]))
  BY <1>2, UnresolvedFacts
<1> HIDE DEF devices
<1>5. CASE \E status \in {"not_ready", "rejected"} :
             request' = [NoRequest EXCEPT !.phase = "answered", !.status = status, !.names = names]
  <2>1. PICK status \in {"not_ready", "rejected"} :
          request' = [phase |-> "answered", names |-> names, devices |-> << >>, errors |-> 0,
                      results |-> << >>, status |-> status, told |-> {}]
    BY <1>5 DEF NoRequest
  <2>2. << >> \in Seq(Devices) /\ << >> \in Seq(ServiceResults)
    OBVIOUS
  <2>3. RequestTypeOK'
    BY <1>2, <2>1, <2>2 DEF RequestTypeOK
  <2>4. request'.phase = "answered" /\ request'.status # "ok"
    BY <2>1
  <2> QED
    BY <2>3, <2>4 DEF RequestInv, CallingInv, OkMeansEveryDeviceTold
<1>6. CASE request' = [NoRequest EXCEPT !.phase = "calling", !.names = names,
                                        !.devices = devices, !.errors = UnresolvedCount(names)]
  <2>1. /\ request'.phase = "calling" /\ request'.names = names /\ request'.devices = devices
        /\ request'.errors = UnresolvedCount(names) /\ request'.results = << >>
        /\ request'.status = None /\ request'.told = {}
    BY <1>6 DEF NoRequest
  <2>2. devices \in Seq(Devices) /\ Len(devices) \in Nat
    BY <1>3 DEF FoundSo
  <2>3. RequestTypeOK'
    <3>1. request' = [phase |-> "calling", names |-> names, devices |-> devices,
                      errors |-> UnresolvedCount(names), results |-> << >>, status |-> None,
                      told |-> {}]
      BY <1>6 DEF NoRequest
    <3>2. << >> \in Seq(ServiceResults)
      OBVIOUS
    <3> QED
      BY <1>2, <1>4, <2>2, <3>1, <3>2 DEF RequestTypeOK
  <2>4. \A i, j \in 1..Len(devices) : i # j => devices[i] # devices[j]
    <3>1. \A i, j \in 1..Len(devices) : i < j => devices[i] # devices[j]
      BY <1>3 DEF FoundSo
    <3> QED
      BY <2>2, <3>1
  <2>5. request'.errors = 0 => Understood'
    <3> SUFFICES ASSUME UnresolvedCount(names) = 0, NEW name \in ToSet(names)
                 PROVE  Called[name] \cap ToSet(devices) # {}
      BY <2>1 DEF Understood
    <3>1. PICK i \in 1..Len(names) : names[i] = name
      BY <1>2 DEF ToSet
    <3>2. Resolves(name) /\ TheDevice(name) \in ToSet(devices)
      BY <1>3, <1>4, <3>1 DEF FoundSo
    <3> QED
      BY <3>2, TheDeviceAnswers
  <2>6. CallingInv'
    BY <2>1, <2>2, <2>4, <2>5 DEF CallingInv
  <2> QED
    BY <2>1, <2>3, <2>6 DEF RequestInv, OkMeansEveryDeviceTold, None
<1> QED
  BY <1>1, <1>5, <1>6 DEF devices

LEMMA AppendFacts ==
    ASSUME NEW S, NEW s \in Seq(S), NEW e \in S
    PROVE  /\ Append(s, e) \in Seq(S) /\ Len(Append(s, e)) = Len(s) + 1
           /\ Append(s, e)[Len(s) + 1] = e
           /\ \A i \in 1..Len(s) : Append(s, e)[i] = s[i]
  OBVIOUS

\* A call of a service, of which the device hears if it succeeds.
LEMMA RequestGoesOn ==
    ASSUME RequestInv, request.phase = "calling", CallsLeft, NEW r \in ServiceResults,
           NEW told \in {request.told, request.told \cup {NextDevice}},
           r = "ok" => told = request.told \cup {NextDevice},
           request' = [WithResult(r) EXCEPT !.told = told]
    PROVE  RequestInv'
<1> DEFINE n == Len(request.results)
<1>1. /\ request.results \in Seq(ServiceResults) /\ n \in Nat
      /\ request.devices \in Seq(Devices) /\ Len(request.devices) \in Nat
      /\ n + 1 \in 1..Len(request.devices)
  BY DEF RequestInv, RequestTypeOK, CallsLeft
<1>2. NextDevice \in Devices /\ NextDevice = request.devices[n + 1]
  BY <1>1 DEF NextDevice
<1>3. /\ request'.phase = "calling" /\ request'.status = request.status
      /\ request'.names = request.names /\ request'.devices = request.devices
      /\ request'.errors = request.errors /\ request'.told = told
      /\ request'.results = Append(request.results, r)
  BY DEF WithResult, RequestInv, RequestTypeOK
<1>4. /\ request'.results \in Seq(ServiceResults) /\ Len(request'.results) = n + 1
      /\ request'.results[n + 1] = r
      /\ \A i \in 1..n : request'.results[i] = request.results[i]
  <2> DEFINE results == request.results
  <2>1. results \in Seq(ServiceResults)
    BY <1>1
  <2> HIDE DEF results
  <2>2. /\ Append(results, r) \in Seq(ServiceResults)
        /\ Len(Append(results, r)) = Len(results) + 1
        /\ Append(results, r)[Len(results) + 1] = r
        /\ \A i \in 1..Len(results) : Append(results, r)[i] = results[i]
    BY <2>1, AppendFacts
  <2> QED
    BY <1>3, <2>2 DEF results
<1>5. RequestTypeOK'
  BY <1>2, <1>4 DEF WithResult, RequestInv, RequestTypeOK
<1>6. Addressed' = Addressed \cup {NextDevice}
  <2>1. \A i \in 1..(n + 1) : i \in 1..n \/ i = n + 1
    BY <1>1
  <2>2. n + 1 \in 1..(n + 1) /\ 1..n \subseteq 1..(n + 1)
    BY <1>1
  <2> QED
    BY <1>2, <1>3, <1>4, <2>1, <2>2 DEF Addressed
<1>7. ASSUME NEW i \in 1..Len(request'.results), request'.results[i] = "ok"
      PROVE  request.devices[i] \in told
  <2>1. CASE i \in 1..n
    BY <1>4, <1>7, <2>1 DEF RequestInv, CallingInv
  <2>2. CASE i = n + 1
    BY <1>2, <1>4, <1>7, <2>2
  <2> QED
    BY <1>1, <1>4, <2>1, <2>2
<1>8. CallingInv'
  BY <1>1, <1>3, <1>4, <1>6, <1>7 DEF RequestInv, CallingInv, Understood
<1> QED
  BY <1>3, <1>5, <1>8 DEF RequestInv, CallingInv, OkMeansEveryDeviceTold, None

\* The answer: nothing is "ok" but a request of which every device was told.
LEMMA RequestAnswered ==
    ASSUME RequestInv, BatchReturns
    PROVE  RequestInv'
<1>1. /\ request.phase = "calling" /\ ~CallsLeft
      /\ request \in [phase : {"idle", "calling", "answered"}, names : Seq(Names),
                      devices : Seq(Devices), errors : Nat, results : Seq(ServiceResults),
                      status : {None, "not_ready", "rejected", "ok", "partial"},
                      told : SUBSET Devices]
      /\ request' = [request EXCEPT !.phase = "answered", !.status = BatchStatus]
  BY DEF BatchReturns, Reply, RequestInv, RequestTypeOK
<1>2. BatchStatus \in {"ok", "partial"}
  BY DEF BatchStatus
<1>3. /\ RequestTypeOK' /\ request'.phase = "answered" /\ request'.status = BatchStatus
      /\ request'.names = request.names /\ request'.devices = request.devices
      /\ request'.errors = request.errors /\ request'.told = request.told
  BY <1>1, <1>2 DEF RequestTypeOK
<1>4. ASSUME BatchStatus = "ok"
      PROVE  /\ request.errors = 0 /\ request.told = ToSet(request.devices)
             /\ \A name \in ToSet(request.names) : Called[name] \cap request.told # {}
  <2>1. ToSet(request.results) = {"ok"} /\ request.errors = 0
    BY <1>4 DEF BatchStatus
  <2>2. Len(request.results) = Len(request.devices)
    BY <1>1 DEF RequestInv, CallingInv, CallsLeft
  <2>3. \A i \in 1..Len(request.results) : request.results[i] = "ok"
    <3>1. request.results \in Seq(ServiceResults)
      BY <1>1
    <3>2. \A i \in 1..Len(request.results) : request.results[i] \in ToSet(request.results)
      BY <3>1 DEF ToSet
    <3> QED
      BY <2>1, <3>2
  <2>4. request.told \subseteq Addressed /\ Addressed \subseteq request.told
    BY <1>1, <2>3 DEF Addressed, RequestInv, CallingInv
  <2>5. Addressed = ToSet(request.devices)
    BY <1>1, <2>2 DEF Addressed, ToSet
  <2>6. Understood
    BY <1>1, <2>1 DEF RequestInv, CallingInv
  <2> QED
    BY <2>1, <2>4, <2>5, <2>6 DEF Understood
<1> QED
  BY <1>3, <1>4 DEF RequestInv, CallingInv, OkMeansEveryDeviceTold

LEMMA NextRequest == HaInv /\ RequestInv /\ [HaNext]_vars => RequestInv'
<1> SUFFICES ASSUME HaInv, RequestInv, [HaNext]_vars PROVE RequestInv'
  OBVIOUS
<1>1. CASE ModifyDevices
  <2>1. DOMAIN inventory \subseteq Devices
    BY DEF HaInv, HouseTypeOK, ShowsCache, BuildInventory
  <2> QED
    BY <1>1, <2>1, RequestBegins
<1>2. CASE DeviceSkipped
  <2>1. request' = [WithResult("skipped") EXCEPT !.told = request.told]
    BY <1>2 DEF DeviceSkipped, WithResult, RequestInv, RequestTypeOK
  <2> QED
    BY <1>2, <2>1, RequestGoesOn DEF DeviceSkipped, ServiceResults
<1>3. CASE ServiceCallSucceeds
  <2>1. request' = [WithResult("ok") EXCEPT !.told = request.told \cup {NextDevice}]
    BY <1>3 DEF ServiceCallSucceeds, WithResult
  <2> QED
    BY <1>3, <2>1, RequestGoesOn DEF ServiceCallSucceeds, ServiceResults
<1>4. CASE ServiceCallFails
  <2>1. \E told \in {request.told, request.told \cup {NextDevice}} :
          request' = [WithResult("failed") EXCEPT !.told = told]
    BY <1>4 DEF ServiceCallFails, WithResult, RequestInv, RequestTypeOK
  <2> QED
    BY <1>4, <2>1, RequestGoesOn DEF ServiceCallFails, ServiceResults
<1>5. CASE BatchReturns
  BY <1>5, RequestAnswered
<1>6. CASE RequestForgotten
  BY <1>6 DEF RequestForgotten, NoRequest, RequestInv, RequestTypeOK, CallingInv,
              OkMeansEveryDeviceTold, None
<1>7. ASSUME request' = request PROVE RequestInv'
  <2>1. Understood' = Understood /\ Addressed' = Addressed
    BY <1>7, Zenon DEF Understood, Addressed
  <2>2. RequestTypeOK' /\ OkMeansEveryDeviceTold' /\ (request'.phase = "idle" => request' = NoRequest)
    BY <1>7 DEF RequestInv, RequestTypeOK, OkMeansEveryDeviceTold
  <2>3. CallingInv'
    BY <1>7, <2>1 DEF RequestInv, CallingInv
  <2> QED
    BY <2>2, <2>3 DEF RequestInv
<1>8. CASE \/ Start \/ Close \/ EntityChanges \/ EntityRegistered
           \/ RefreshStep \/ RefreshFails
           \/ SubscriptionStep \/ SubscriptionFails
           \/ UNCHANGED vars
  <2>1. request' = request
    BY <1>8 DEF Start, Close, EntityChanges, EntityRegistered, RefreshStep,
      RefreshReadsRegistry, RefreshReadsStates, RefreshReadsDetail, RefreshCommits,
      RefreshWakes, RefreshFails, SubscriptionStep, Subscribes, HandleStateChanged,
      SubscriptionRetries, SubscriptionFails, vars
  <2> QED
    BY <1>7, <2>1
<1> QED
  BY <1>1, <1>2, <1>3, <1>4, <1>5, <1>6, <1>8 DEF HaNext, RequestStep

\* A batch that is answered "ok" was understood in full, and each of its devices was told
\* in this request, whatever names it used and whatever happened to the inventory between
\* two of its calls.
THEOREM BatchIsTrue == HaSpec => []OkMeansEveryDeviceTold
<1>1. RequestInv => OkMeansEveryDeviceTold
  BY DEF RequestInv
<1> QED
  BY <1>1, InitHa, NextHa, InitRequest, NextRequest, PTL DEF HaSpec

=============================================================================
