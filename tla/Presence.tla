------------------------------- MODULE Presence -------------------------------
(***************************************************************************)
(* Room presence: one node publishes, refreshes and retracts the record of *)
(* one room (DRPNode in packages/node/src/index.ts, with the record        *)
(* producer of packages/rendezvous/src/record-producer.ts) through a       *)
(* RegistryClient that calls its endpoints one after the other, while each *)
(* endpoint runs several requests concurrently, interleaved at the awaits  *)
(* of RegistryServer.register.  A request whose body has been read is not  *)
(* aborted when the client gives up (service.ts: handleRequest), so an     *)
(* endpoint may finish a registration its caller has already abandoned.    *)
(*                                                                         *)
(* Time is discrete; one tick stands for the 5 s of the fence, of the      *)
(* retraction and of a retired record's life.  Tick waits for every        *)
(* deadline that is due, so deadlines are met and nothing lags behind.     *)
(***************************************************************************)
EXTENDS Naturals, FiniteSets, Sequences

CONSTANTS Peer,            \* publishers of the namespace
          MaxRecordsPerNamespace, \* RegistryLimits.maxRecordsPerNamespace
          Self,            \* the node, a member of Peer
          Endpoints,       \* the client's endpoints, in its order
          Ttl,             \* ttl_ms
          RefreshInterval, \* refresh_interval_ms
          Deadline,        \* registrationDeadlineMs of a registration cycle
          Attempt,         \* RegistryClient timeoutMs
          RetireTtl,       \* life of a retired record
          Fence,           \* how long a retraction waits for the running cycle
          Retract,         \* deadline of the retraction's registration
          ServiceTimeout,  \* requestTimeoutMs of the HTTP service
          SeqPerTick,      \* sequence numbers a wall-clock tick spans
          Flaky,           \* BOUND: endpoints whose status changes, or that others use
          MaxNow,          \* BOUND: last tick
          MaxChanges,      \* BOUND: joins, leaves, stops and starts
          MaxFaults        \* BOUND: endpoint status changes, and others' registrations

VARIABLES now,     \* the clock
          up,      \* started, and the registration controller not aborted
          stored,  \* the object is in the object store
          sub,     \* the object has a message queue, i.e. is subscribed
          room,    \* its producer in _roomRendezvousProducers, 0 for none
          stores,  \* per producer created, the last sequence of its store
          cycle,   \* the registration runner: [st, at]
          jobs,    \* registrations in progress at the client
          reqs,    \* registrations in progress at the endpoints
          srv,     \* endpoint -> server
          status,  \* endpoint -> "ok", "slow" or "down"
          calm,    \* ticks since the node's last join, leave, stop or start
          steady,  \* ticks since every endpoint is ok and nobody else registered
          changes, faults

vars == <<now, up, stored, sub, room, stores, cycle, jobs, reqs, srv, status,
          calm, steady, changes, faults>>

Endpoint == 1..Len(Endpoints)
Off == [st |-> "off", at |-> 0]
Healthy(st) == \A e \in Endpoint : st[e] = "ok"

-------------------------------------------------------------------------------
(* One namespace of an endpoint: RegistryServer and the RecordValidator it *)
(* owns (registry.ts and record.ts), as operators on the value [map, made, *)
(* content, ledger].  A JavaScript Map is an object, and register keeps a  *)
(* reference to the namespace's Map across two awaits.  `map' is the       *)
(* reference #records holds for the namespace (0 when it has none), `made' *)
(* how many Maps it has had, and `content' the content of the one #records *)
(* holds: a Map it no longer holds is never read again.  `ledger' is the   *)
(* validator's #sequences.                                                 *)

\* No record, no ledger entry.
None == [seq |-> 0, exp |-> 0, live |-> FALSE]

EmptyMap == [p \in Peer |-> None]

EmptyServer == [map |-> 0, made |-> 0, content |-> EmptyMap, ledger |-> EmptyMap]

Size(m) == Cardinality({p \in Peer : m[p] # None})

Unexpired(m, at) == [p \in Peer |-> IF m[p].exp <= at THEN None ELSE m[p]]

\* #sweepExpired: drop what has expired, then a namespace left without records.
SweepExpired(s, at) ==
  LET kept == Unexpired(s.content, at)
  IN [s EXCEPT !.content = kept, !.map = IF Size(kept) = 0 THEN 0 ELSE @]

\* The synchronous head of register, on a swept server: refuse a sequence that is
\* not newer than the stored one, and a first record once the namespace is full.
Enters(s, peer, rec) ==
  IF s.content[peer] # None THEN rec.seq > s.content[peer].seq
                            ELSE Size(s.content) < MaxRecordsPerNamespace

\* #sweepExpiredReplayState.
SweepLedger(s, at) == [s EXCEPT !.ledger = Unexpired(@, at)]

\* RecordValidator.validate up to its last await, on a swept ledger: the record is
\* fresh and its sequence newer than the last one accepted from this publisher.
Fresh(s, peer, rec, at) ==
  /\ rec.exp > at
  /\ s.ledger[peer] = None \/ rec.seq > s.ledger[peer].seq

\* The rest of validate and of register: the ledger takes the sequence, and the
\* record goes to the Map captured before the awaits -- lost if #records has let go
\* of that Map since -- or, when there was none, to a new Map that replaces whatever
\* #records holds for the namespace by then.
Put(s, ref, peer, rec) ==
  LET known == [s EXCEPT !.ledger[peer] = rec]
  IN CASE ref = 0                 -> [known EXCEPT !.map = s.made + 1, !.made = @ + 1,
                                                   !.content = [EmptyMap EXCEPT ![peer] = rec]]
       [] ref # 0 /\ ref = s.map  -> [known EXCEPT !.content[peer] = rec]
       [] ref # 0 /\ ref # s.map  -> known

\* What discover answers: the swept content of the namespace's Map.
Listing(s, at) == Unexpired(s.content, at)

-------------------------------------------------------------------------------
\* The node has just started with the room's object in its store.
Init ==
  /\ now = 0 /\ up = TRUE /\ stored = TRUE /\ sub = TRUE /\ room = 1
  /\ stores = <<0>>
  /\ cycle = [st |-> "main", at |-> 0]
  /\ jobs = {} /\ reqs = {}
  /\ srv = [e \in Endpoint |-> EmptyServer]
  /\ status = [e \in Endpoint |-> "ok"]
  /\ calm = 0 /\ steady = 0 /\ changes = 0 /\ faults = 0

-------------------------------------------------------------------------------
(* The producer: each room has its own sequence store, seeded from the clock. *)

\* _addRoomRendezvousProducer: nothing if the room has a producer or if the factory
\* is gone, else a producer over new InMemorySequenceStore(Date.now()).
AddProducer ==
  IF up /\ room = 0
  THEN stores' = Append(stores, now * SeqPerTick) /\ room' = Len(stores) + 1
  ELSE UNCHANGED <<stores, room>>

\* produce: advance the store, then sign with the requested life.
Signed(p, life) == [seq |-> stores[p] + 1, exp |-> now + life, live |-> life = Ttl]

\* The job of registering a record, at the first endpoint.
NewJob(kind, p, life, limit) ==
  [kind |-> kind, p |-> p, rec |-> Signed(p, life), ep |-> 1, st |-> "ready",
   since |-> now, limit |-> limit]

-------------------------------------------------------------------------------
(* The registration cycle: _registerRendezvousRecords under its IntervalRunner. *)

\* Mutant: backfill forgets hasQueue and revives a room that was left.
CycleStartRevives ==
  /\ cycle.st = "wait" /\ now >= cycle.at
  /\ cycle' = [st |-> "main", at |-> now]
  /\ IF stored THEN AddProducer ELSE UNCHANGED <<stores, room>>
  /\ UNCHANGED <<now, up, stored, sub, jobs, reqs, srv, status, calm, steady, changes, faults>>

\* Backfill the room's producer, then register the main record.
CycleStart ==
  /\ cycle.st = "wait" /\ now >= cycle.at
  /\ cycle' = [st |-> "main", at |-> now]
  /\ IF stored /\ sub THEN AddProducer ELSE UNCHANGED <<stores, room>>
  /\ UNCHANGED <<now, up, stored, sub, jobs, reqs, srv, status, calm, steady, changes, faults>>

Rest == [st |-> "wait", at |-> now + RefreshInterval]

\* Mutant: a cycle without rooms returns false, which stops the runner.
MainSettledStops ==
  /\ cycle.st = "main"
  /\ Healthy(status) => now = cycle.at
  /\ IF room = 0 \/ now >= cycle.at + Deadline
     THEN cycle' = Off /\ UNCHANGED <<stores, jobs>>
     ELSE /\ cycle' = [cycle EXCEPT !.st = "room"]
          /\ jobs' = jobs \cup {NewJob("refresh", room, Ttl, cycle.at + Deadline)}
          /\ stores' = [stores EXCEPT ![room] = @ + 1]
  /\ UNCHANGED <<now, up, stored, sub, room, reqs, srv, status, calm, steady, changes, faults>>

\* The main record is settled (it lives in another namespace).  The rooms of that
\* moment get what is left of the deadline.
MainSettled ==
  /\ cycle.st = "main"
  /\ Healthy(status) => now = cycle.at
  /\ IF room = 0 \/ now >= cycle.at + Deadline
     THEN cycle' = Rest /\ UNCHANGED <<stores, jobs>>
     ELSE /\ cycle' = [cycle EXCEPT !.st = "room"]
          /\ jobs' = jobs \cup {NewJob("refresh", room, Ttl, cycle.at + Deadline)}
          /\ stores' = [stores EXCEPT ![room] = @ + 1]
  /\ UNCHANGED <<now, up, stored, sub, room, reqs, srv, status, calm, steady, changes, faults>>

-------------------------------------------------------------------------------
(* RegistryClient.register, one endpoint at a time. *)

\* A job leaves the set of jobs; the end of a refresh ends its cycle.
JobOver(j) ==
  /\ jobs' = jobs \ {j}
  /\ cycle' = IF j.kind = "refresh" THEN Rest ELSE cycle

\* On to the next endpoint, or done.
NextEndpoint(j) ==
  IF j.ep = Len(Endpoints) THEN JobOver(j)
  ELSE /\ jobs' = (jobs \ {j}) \cup {[j EXCEPT !.ep = @ + 1, !.st = "ready"]}
       /\ UNCHANGED cycle

Await(j) ==
  /\ jobs' = (jobs \ {j}) \cup {[j EXCEPT !.st = "waiting", !.since = now]}
  /\ UNCHANGED cycle

ClientFrame == <<now, up, stored, sub, room, stores, status, calm, steady, changes, faults>>

\* The endpoint takes the request: RegistryServer.register up to its first await.
Call(j) ==
  LET swept == SweepExpired(srv[j.ep], now)
  IN /\ j.st = "ready" /\ now < j.limit /\ status[j.ep] # "down"
     /\ srv' = [srv EXCEPT ![j.ep] = swept]
     /\ IF Enters(swept, Self, j.rec)
        THEN /\ reqs' = reqs \cup {[e |-> j.ep, peer |-> Self, rec |-> j.rec,
                                    st |-> "admitted", ref |-> swept.map, at |-> now]}
             /\ Await(j)
        ELSE NextEndpoint(j) /\ UNCHANGED reqs
     /\ UNCHANGED ClientFrame

\* The endpoint cannot be reached: the attempt fails at once, or hangs.
Unreachable(j) ==
  /\ j.st = "ready" /\ now < j.limit /\ status[j.ep] = "down"
  /\ NextEndpoint(j) \/ Await(j)
  /\ UNCHANGED <<ClientFrame, srv, reqs>>

\* withAttemptDeadline gives up on this endpoint.
AttemptTimesOut(j) ==
  /\ j.st = "waiting" /\ now >= j.since + Attempt /\ now < j.limit
  /\ NextEndpoint(j)
  /\ UNCHANGED <<ClientFrame, srv, reqs>>

\* The job's own signal aborts: register throws.
JobTimesOut(j) ==
  /\ j.st # "fence" /\ now >= j.limit
  /\ JobOver(j)
  /\ UNCHANGED <<ClientFrame, srv, reqs>>

\* The jobs waiting for a request.
Callers(r) == {j \in jobs : /\ r.peer = Self /\ j.st = "waiting"
                            /\ j.ep = r.e /\ j.rec = r.rec}

\* The endpoint answers; a caller that still waits goes on.
Answer(r) ==
  /\ reqs' = reqs \ {r}
  /\ IF Callers(r) = {} THEN UNCHANGED <<jobs, cycle>>
     ELSE \A j \in Callers(r) : NextEndpoint(j)

-------------------------------------------------------------------------------
(* RegistryServer.register after its awaits. *)

\* The admission policy has answered and the signature is verified: read the ledger.
Check(r) ==
  LET swept == SweepLedger(srv[r.e], now)
  IN /\ r.st = "admitted"
     /\ srv' = [srv EXCEPT ![r.e] = swept]
     /\ IF Fresh(swept, r.peer, r.rec, now)
        THEN /\ reqs' = (reqs \ {r}) \cup {[r EXCEPT !.st = "checked"]}
             /\ UNCHANGED <<jobs, cycle>>
        ELSE Answer(r)
     /\ UNCHANGED ClientFrame

\* The addresses are resolved: write the ledger and the captured Map.
Store(r) ==
  /\ r.st = "checked"
  /\ srv' = [srv EXCEPT ![r.e] = Put(@, r.ref, r.peer, r.rec)]
  /\ Answer(r)
  /\ UNCHANGED ClientFrame

\* The service's own deadline aborts the request, and the socket is destroyed.
ServiceAborts(r) ==
  /\ now >= r.at + ServiceTimeout
  /\ Answer(r)
  /\ UNCHANGED <<ClientFrame, srv>>

-------------------------------------------------------------------------------
(* Joining, leaving, stopping and starting. *)

Changed ==
  /\ changes < MaxChanges /\ changes' = changes + 1 /\ calm' = 0
  /\ UNCHANGED <<now, status, steady, faults, reqs, srv>>

\* createObject or connectObject, ending in subscribeObject.
Join ==
  /\ up /\ ~sub
  /\ stored' = TRUE /\ sub' = TRUE
  /\ AddProducer
  /\ Changed /\ UNCHANGED <<up, cycle, jobs>>

\* Mutant: leaving during a cycle skips the retraction.
LeaveSkips(purge) ==
  /\ sub /\ sub' = FALSE
  /\ stored' = ~purge
  /\ room' = 0
  /\ jobs' = IF room = 0 \/ ~up \/ cycle.st # "wait" THEN jobs
             ELSE jobs \cup {[kind |-> "retire", p |-> room, rec |-> None, ep |-> 0, st |-> "fence",
                              since |-> now, limit |-> now]}
  /\ Changed /\ UNCHANGED <<up, stores, cycle>>

\* unsubscribeObject: the producer leaves the map at once; the retraction waits for
\* the cycle in progress, if there is one.
Leave(purge) ==
  /\ sub /\ sub' = FALSE
  /\ stored' = ~purge
  /\ room' = 0
  /\ jobs' = IF room = 0 \/ ~up THEN jobs
             ELSE jobs \cup {[kind |-> "retire", p |-> room, rec |-> None, ep |-> 0, st |-> "fence",
                              since |-> IF cycle.st \in {"main", "room"} THEN cycle.at ELSE now,
                              limit |-> IF cycle.st \in {"main", "room"} THEN now + Fence ELSE now]}
  /\ Changed /\ UNCHANGED <<up, stores, cycle>>

\* The fence opens: the cycle that was running is over, or the fence timed out.
FenceOpens(j) == now >= j.limit \/ cycle.st = "wait" \/ cycle.at # j.since

\* The retraction signs a record that expires in RetireTtl and registers it.
Retire(j) ==
  /\ j.st = "fence" /\ FenceOpens(j)
  /\ jobs' = (jobs \ {j}) \cup {NewJob("retire", j.p, RetireTtl, now + Retract)}
  /\ stores' = [stores EXCEPT ![j.p] = @ + 1]
  /\ UNCHANGED <<now, up, stored, sub, room, cycle, reqs, srv, status, calm, steady,
                 changes, faults>>

\* stop: the controller aborts every registration; the producers and their factory
\* go, the queues are closed but kept.
StopNode ==
  /\ up /\ up' = FALSE /\ room' = 0
  /\ cycle' = Off /\ jobs' = {}
  /\ Changed /\ UNCHANGED <<stored, sub, stores>>

\* start: the runner's first cycle begins before restoreSubscriptions subscribes
\* every stored object again.
StartNode ==
  /\ ~up /\ up' = TRUE
  /\ cycle' = [st |-> "main", at |-> now]
  /\ sub' = stored
  /\ IF stored THEN stores' = Append(stores, now * SeqPerTick) /\ room' = Len(stores) + 1
               ELSE UNCHANGED <<stores, room>>
  /\ Changed /\ UNCHANGED <<stored, jobs>>

-------------------------------------------------------------------------------
(* The environment. *)

Fault ==
  /\ faults < MaxFaults /\ faults' = faults + 1 /\ steady' = 0
  /\ UNCHANGED <<now, up, stored, sub, room, stores, cycle, jobs, calm, changes>>

\* An endpoint becomes slow, goes down (losing nothing) or recovers.
StatusChanges(e) ==
  /\ \E st \in {"ok", "slow", "down"} : st # status[e] /\ status' = [status EXCEPT ![e] = st]
  /\ Fault /\ UNCHANGED <<reqs, srv>>

\* Another member of the room registers at e.
OtherRegisters(e, peer) ==
  LET swept == SweepExpired(srv[e], now)
      rec   == [seq |-> now * SeqPerTick + 1, exp |-> now + Ttl, live |-> TRUE]
  IN /\ status[e] # "down"
     /\ Enters(swept, peer, rec)
     /\ srv' = [srv EXCEPT ![e] = swept]
     /\ reqs' = reqs \cup {[e |-> e, peer |-> peer, rec |-> rec, st |-> "admitted",
                            ref |-> swept.map, at |-> now]}
     /\ Fault /\ UNCHANGED status

\* Nothing is overdue.
Settled ==
  /\ \A j \in jobs : /\ j.st # "ready" /\ now < j.limit
                     /\ j.st = "waiting" => now < j.since + Attempt
                     /\ j.st = "fence" => ~FenceOpens(j)
  /\ \A r \in reqs : status[r.e] # "ok" /\ now < r.at + ServiceTimeout
  /\ cycle.st = "wait" => now < cycle.at
  /\ cycle.st = "main" => ~Healthy(status) /\ now < cycle.at + Deadline

Tick ==
  /\ now < MaxNow /\ Settled
  /\ now' = now + 1 /\ calm' = calm + 1
  /\ steady' = IF Healthy(status) THEN steady + 1 ELSE 0
  /\ UNCHANGED <<up, stored, sub, room, stores, cycle, jobs, reqs, srv, status, changes, faults>>

-------------------------------------------------------------------------------
ClientStep ==
  \/ CycleStart \/ MainSettled
  \/ \E j \in jobs : Call(j) \/ Unreachable(j) \/ AttemptTimesOut(j) \/ JobTimesOut(j) \/ Retire(j)

ServerStep == \E r \in reqs : Check(r) \/ Store(r) \/ ServiceAborts(r)

NodeStep == Join \/ StopNode \/ StartNode \/ \E purge \in BOOLEAN : Leave(purge)

Environment ==
  \/ Tick
  \/ \E e \in Flaky : StatusChanges(e) \/ \E peer \in Peer \ {Self} : OtherRegisters(e, peer)

Next == ClientStep \/ ServerStep \/ NodeStep \/ Environment

Spec == Init /\ [][Next]_vars

-------------------------------------------------------------------------------
(* Properties. *)

\* What a joiner finds: RegistryClient.discover keeps, per publisher, the record with
\* the highest sequence among those of the endpoints that answer.  It would reject the
\* whole answer for one record its own new validator refuses; what an endpoint lists
\* is signed, unexpired and one for each publisher, so there is none.
Discovered(peer) ==
  LET found == {Listing(srv[e], now)[peer] : e \in {e \in Endpoint : status[e] # "down"}} \ {None}
  IN IF found = {} THEN None ELSE CHOOSE r \in found : \A x \in found : x.seq <= r.seq

\* How long a member may be missing once nothing disturbs it: the cycle in progress,
\* then two more, the first of which may still be refused as a replay.
HealTime == Deadline + 2 * RefreshInterval

\* A subscribed room heals: once the node has stayed in the room, and the endpoints
\* have been well, for HealTime, a joiner discovers the node -- whatever mixture of
\* rejoins, late registrations, late retractions and replaced Maps went before.
PresenceHeals ==
  up /\ sub /\ calm >= HealTime /\ steady >= HealTime => Discovered(Self).live

\* Presence lapses: a node that left the room or stopped, retraction or not, is listed
\* nowhere once Ttl has passed; nothing re-publishes the room behind its back.
PresenceLapses ==
  ~(up /\ sub) /\ calm >= Ttl => \A e \in Endpoint : Listing(srv[e], now)[Self] = None

\* Leaving retracts within seconds when the endpoints are well: the fence and the life
\* of the retired record bound how long a departed member is listed.
LeavingRetracts ==
  up /\ ~sub /\ calm >= Fence + RetireTtl /\ steady > calm + ServiceTimeout =>
    \A e \in Endpoint : Listing(srv[e], now)[Self] = None
===============================================================================
