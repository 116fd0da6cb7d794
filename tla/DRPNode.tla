------------------------------- MODULE DRPNode -------------------------------
(***************************************************************************)
(* The life of a DRPNode (packages/node/src/index.ts) and of the objects it *)
(* holds: start and stop with their awaits, the object store, the message   *)
(* queues of MessageQueueManager, the gossip topics, the interval runners   *)
(* of each object (packages/interval-runner) and the initial fetch of       *)
(* connectObject.  Calls on objects may come at any moment once the node    *)
(* has an identity, in the middle of a start or of a stop included; the     *)
(* owner awaits start and stop before the next of them, as restart does.    *)
(***************************************************************************)
EXTENDS Naturals, FiniteSets

CONSTANTS Object,     \* ids of the objects the application uses
          Kind,       \* the interval runners of an object: discovery and sync
          MaxQueues,  \* queues the manager admits, besides the general one
          MaxCalls,   \* BOUND: create, connect and unsubscribe calls
          MaxStarts   \* BOUND: start calls

VARIABLES life,     \* where start and stop are: "down", "net", "rdv", "up", "halting", "closing", "failed"
          known,    \* networkNode.peerId is not empty
          net,      \* the network node is running
          store,    \* objects in the object store
          queues,   \* object -> "none", "open" or "closed"
          handlers, \* object -> handlers of its queue
          disc,     \* the discovery queue exists
          topics,   \* gossip topics joined
          iv,       \* object -> kind -> interval runner
          rc,       \* the reconnect runner, one object across restarts
          creating, \* object -> createObject calls that await the first sync
          fetch,    \* object -> [live, stale]: connectObject calls that await a state
          retry,    \* object -> connectObject retry timers
          calls, starts

nodeVars == <<life, known, net, store, queues, handlers, disc, topics, iv, rc,
          creating, fetch, retry, calls, starts>>

-------------------------------------------------------------------------------
(* IntervalRunner.  A loop is executing (exec) or waits for its timer; `armed' says *)
(* whether _intervalId names a pending timer, which is the only one stop can clear. *)

NewRunner == [in |-> FALSE, on |-> FALSE, exec |-> 0, timers |-> 0, armed |-> FALSE]

\* start: a first execution at once.  The caller checks that it is stopped.
RunnerStart(r) == [r EXCEPT !.in = TRUE, !.on = TRUE, !.exec = @ + 1]

\* Mutant: stop clears the timer but leaves the state running.
RunnerStopMutant(r) ==
  [r EXCEPT !.timers = IF r.armed THEN @ - 1 ELSE @, !.armed = FALSE]

\* stop: no more timers, and the one in _intervalId is cleared.
RunnerStop(r) ==
  [r EXCEPT !.on = FALSE, !.timers = IF r.armed THEN @ - 1 ELSE @, !.armed = FALSE]

\* An execution ends.  A callback that answers false or throws stops the runner for good;
\* otherwise the next timer is set.  A loop of an earlier start cannot tell it is stale.
RunnerReturns(r, goesOn) ==
  LET ended == [r EXCEPT !.exec = @ - 1]
  IN  IF ~goesOn THEN RunnerStop(ended)
      ELSE IF r.on THEN [ended EXCEPT !.timers = @ + 1, !.armed = TRUE]
      ELSE ended

\* Mutant: the callback lets the error of a probe through.
CallbackThrows == BOOLEAN

\* Whether a callback goes on.  The probe of DRPIntervalSync, the discovery broadcast and
\* the redial of the bootstraps each catch what they await, and answer true.
CallbackGoesOn == {TRUE}

\* A timer fires: the one in _intervalId, or one that a later timer displaced.
RunnerFires(r, displaced) ==
  [r EXCEPT !.timers = @ - 1,
            !.armed = IF displaced THEN @ ELSE FALSE,
            !.exec = IF r.on THEN @ + 1 ELSE @]

Displaced(r) == r.timers - (IF r.armed THEN 1 ELSE 0)

Loops(r) == r.exec + r.timers

\* Mutant: an interval already in _intervals is stopped and put back, not restarted.
CreateIntervalsMutant(o) ==
  [iv EXCEPT ![o] = [k \in Kind |-> IF iv[o][k].in THEN RunnerStop(iv[o][k])
                                                   ELSE RunnerStart(NewRunner)]]

\* _createObjectIntervals: an interval already in _intervals is stopped and restarted,
\* otherwise a new one takes the place.
CreateIntervals(o) ==
  [iv EXCEPT ![o] = [k \in Kind |-> RunnerStart(IF iv[o][k].in THEN RunnerStop(iv[o][k])
                                                               ELSE NewRunner)]]

\* _stopObjectIntervals.  A loop still executing ends by itself and is forgotten.
StopIntervals(o) == [iv EXCEPT ![o] = [k \in Kind |-> NewRunner]]

-------------------------------------------------------------------------------
(* MessageQueueManager. *)

Queues == {o \in Object : queues[o] # "none"}

\* subscribe throws when a new queue would exceed the limit.
HasRoom(o) ==
  \/ queues[o] # "none"
  \/ Cardinality(Queues) + (IF disc THEN 1 ELSE 0) < MaxQueues

NodeInit ==
  /\ life = "down" /\ known = FALSE /\ net = FALSE
  /\ store = {} /\ queues = [o \in Object |-> "none"] /\ handlers = [o \in Object |-> 0]
  /\ disc = FALSE /\ topics = {}
  /\ iv = [o \in Object |-> [k \in Kind |-> NewRunner]] /\ rc = NewRunner
  /\ creating = [o \in Object |-> 0]
  /\ fetch = [o \in Object |-> [live |-> FALSE, stale |-> 0]]
  /\ retry = [o \in Object |-> 0]
  /\ calls = 0 /\ starts = 0

ObjectCalls == <<creating, fetch, retry, calls>>

-------------------------------------------------------------------------------
(* start and stop. *)

Start ==
  /\ life \in {"down", "failed"} /\ starts < MaxStarts
  /\ life' = "net" /\ starts' = starts + 1
  /\ UNCHANGED <<known, net, store, queues, handlers, disc, topics, iv, rc, ObjectCalls>>

\* keychain.start and networkNode.start settle; the latter rejects when it is running.
NetworkStarted(ok) ==
  /\ life = "net" /\ (ok => ~net)
  /\ IF ok THEN /\ life' = "rdv" /\ known' = TRUE /\ net' = TRUE /\ topics' = {}
           ELSE life' = "failed" /\ UNCHANGED <<known, net, topics>>
  /\ UNCHANGED <<store, queues, handlers, disc, iv, rc, ObjectCalls, starts>>

\* The discovery queue exists, or there is room for it.
DiscoveryFits == disc \/ Cardinality(Queues) < MaxQueues

\* There is room for the queues of these stored objects too.
Restorable(objects) == Cardinality(Queues \cup objects) + 1 <= MaxQueues

\* _startRendezvous has settled; the rest of start runs without an await.  The queues
\* start; then come the discovery queue, the reconnect interval and the stored objects.
\* MessageQueueManager.subscribe throws at the first queue it has no room for: the
\* objects before that one in the store are restored, and start rejects.
StartTail ==
  /\ life = "rdv"
  /\ disc' = DiscoveryFits
  /\ rc' = IF DiscoveryFits THEN RunnerStart(rc) ELSE rc
  /\ life' = IF DiscoveryFits /\ Restorable(store) THEN "up" ELSE "failed"
  /\ \E restored \in SUBSET store :
       /\ life' = "up" => restored = store
       /\ ~DiscoveryFits => restored = {}
       /\ DiscoveryFits => Restorable(restored)
       /\ queues' = [o \in Object |-> IF o \in restored \cup Queues THEN "open" ELSE "none"]
       /\ handlers' = [o \in Object |-> IF o \in restored \ Queues THEN 1 ELSE handlers[o]]
       /\ topics' = topics \cup restored
       /\ iv' = [o \in Object |-> IF o \in restored THEN CreateIntervals(o)[o] ELSE iv[o]]
  /\ UNCHANGED <<known, net, store, ObjectCalls, starts>>

\* stop: the coordinator is awaited first.
Stop ==
  /\ life \in {"up", "failed"}
  /\ life' = "halting"
  /\ UNCHANGED <<known, net, store, queues, handlers, disc, topics, iv, rc, ObjectCalls, starts>>

\* Then, without an await, the fetches are aborted and the intervals stopped.
StopBody ==
  /\ life = "halting" /\ life' = "closing"
  /\ fetch' = [o \in Object |-> [live |-> FALSE, stale |-> fetch[o].stale + (IF fetch[o].live THEN 1 ELSE 0)]]
  /\ iv' = [o \in Object |-> StopIntervals(o)[o]]
  /\ rc' = [RunnerStop(rc) EXCEPT !.in = FALSE]
  /\ UNCHANGED <<known, net, store, queues, handlers, disc, topics, creating, retry, calls, starts>>

\* Routing, rendezvous and network have stopped, or one of them threw: closeAll.  A stop
\* of the network that threw leaves it running, with its topics.
StopEnds ==
  /\ life = "closing" /\ life' = "down"
  /\ net' \in {FALSE, net}
  /\ topics' = IF net' THEN topics ELSE {}
  /\ queues' = [o \in Object |-> IF queues[o] = "none" THEN "none" ELSE "closed"]
  /\ UNCHANGED <<known, store, handlers, disc, iv, rc, ObjectCalls, starts>>

-------------------------------------------------------------------------------
(* Objects. *)

Called ==
  /\ known /\ calls < MaxCalls /\ calls' = calls + 1
  /\ UNCHANGED <<life, known, net, disc, rc, starts>>

\* put and subscribeObject.  A new queue is active even on a node that is down, a
\* closed one stays closed, and a topic needs the network.
Subscribe(o) ==
  /\ store' = store \cup {o}
  /\ queues' = [queues EXCEPT ![o] = IF @ = "none" THEN "open" ELSE @]
  /\ handlers' = [handlers EXCEPT ![o] = @ + 1]
  /\ topics' = IF net THEN topics \cup {o} ELSE topics

\* createObject or connectObject when the manager has no room: subscribeObject throws,
\* and the object is already in the store.
SubscribeThrows(o) ==
  /\ ~HasRoom(o)
  /\ store' = store \cup {o}
  /\ Called /\ UNCHANGED <<queues, handlers, topics, iv, creating, fetch, retry>>

\* createObject, with or without an initial sync to await.
CreateObject(o, sync) ==
  /\ HasRoom(o) /\ Subscribe(o)
  /\ IF sync THEN creating' = [creating EXCEPT ![o] = @ + 1] /\ UNCHANGED iv
             ELSE iv' = CreateIntervals(o) /\ UNCHANGED creating
  /\ Called /\ UNCHANGED <<fetch, retry>>

\* The initial sync returns; sends never throw.
CreateResumes(o) ==
  /\ creating[o] > 0
  /\ creating' = [creating EXCEPT ![o] = @ - 1]
  /\ iv' = CreateIntervals(o)
  /\ UNCHANGED <<life, known, net, store, queues, handlers, disc, topics, rc,
                 fetch, retry, calls, starts>>

\* connectObject: the intervals start before anything is awaited; a fetch of the same
\* object in progress is aborted.
ConnectObject(o) ==
  /\ HasRoom(o) /\ Subscribe(o)
  /\ iv' = CreateIntervals(o)
  /\ fetch' = [fetch EXCEPT ![o] = [live |-> TRUE, stale |-> @.stale + (IF @.live THEN 1 ELSE 0)]]
  /\ Called /\ UNCHANGED <<creating, retry>>

FetchFrame == <<life, known, net, store, queues, handlers, disc, topics, iv, rc,
                creating, calls, starts>>

\* The state response arrives, and the sync retry timer is set.
FetchAnswered(o) ==
  /\ fetch[o].live
  /\ fetch' = [fetch EXCEPT ![o].live = FALSE]
  /\ retry' = [retry EXCEPT ![o] = @ + 1]
  /\ UNCHANGED FetchFrame

\* Five seconds without one.
FetchTimesOut(o) ==
  /\ fetch[o].live
  /\ fetch' = [fetch EXCEPT ![o].live = FALSE]
  /\ UNCHANGED <<FetchFrame, retry>>

\* An aborted call returns.
FetchReturns(o) ==
  /\ fetch[o].stale > 0
  /\ fetch' = [fetch EXCEPT ![o].stale = @ - 1]
  /\ UNCHANGED <<FetchFrame, retry>>

\* The retry timer syncs once and clears itself; neither stop nor unsubscribe does.
RetryFires(o) ==
  /\ retry[o] > 0
  /\ retry' = [retry EXCEPT ![o] = @ - 1]
  /\ UNCHANGED <<FetchFrame, fetch>>

UnsubscribeObject(o, purge) ==
  /\ fetch' = [fetch EXCEPT ![o] = [live |-> FALSE, stale |-> @.stale + (IF @.live THEN 1 ELSE 0)]]
  /\ iv' = StopIntervals(o)
  /\ topics' = IF net THEN topics \ {o} ELSE topics
  /\ store' = IF purge THEN store \ {o} ELSE store
  /\ queues' = [queues EXCEPT ![o] = "none"]
  /\ handlers' = [handlers EXCEPT ![o] = 0]
  /\ o \in store \/ queues[o] # "none"
  /\ Called /\ UNCHANGED <<creating, retry>>

-------------------------------------------------------------------------------
(* The loops of the interval runners. *)

LoopFrame == <<life, known, net, store, queues, handlers, disc, topics, ObjectCalls, starts>>

LoopReturns(o, k) ==
  /\ iv[o][k].exec > 0
  /\ \E goesOn \in CallbackGoesOn : iv' = [iv EXCEPT ![o][k] = RunnerReturns(@, goesOn)]
  /\ UNCHANGED <<LoopFrame, rc>>

LoopFires(o, k) ==
  /\ \/ iv[o][k].armed /\ iv' = [iv EXCEPT ![o][k] = RunnerFires(@, FALSE)]
     \/ Displaced(iv[o][k]) > 0 /\ iv' = [iv EXCEPT ![o][k] = RunnerFires(@, TRUE)]
  /\ UNCHANGED <<LoopFrame, rc>>

ReconnectReturns ==
  /\ rc.exec > 0
  /\ \E goesOn \in CallbackGoesOn : rc' = RunnerReturns(rc, goesOn)
  /\ UNCHANGED <<LoopFrame, iv>>

ReconnectFires ==
  /\ \/ rc.armed /\ rc' = RunnerFires(rc, FALSE)
     \/ Displaced(rc) > 0 /\ rc' = RunnerFires(rc, TRUE)
  /\ UNCHANGED <<LoopFrame, iv>>

-------------------------------------------------------------------------------
Lifecycle == Start \/ (\E ok \in BOOLEAN : NetworkStarted(ok)) \/ StartTail \/ Stop \/ StopBody \/ StopEnds

Objects ==
  \E o \in Object :
    \/ SubscribeThrows(o) \/ ConnectObject(o)
    \/ \E flag \in BOOLEAN : CreateObject(o, flag) \/ UnsubscribeObject(o, flag)

Pending == \E o \in Object : \/ CreateResumes(o) \/ FetchAnswered(o) \/ FetchTimesOut(o)
                             \/ FetchReturns(o) \/ RetryFires(o)

Timers == ReconnectReturns \/ ReconnectFires
          \/ \E o \in Object, k \in Kind : LoopReturns(o, k) \/ LoopFires(o, k)

NodeNext == Lifecycle \/ Objects \/ Pending \/ Timers

\* Promises settle, timers fire, and a stop that was called goes on; calls are free.
Proceeds == StopBody \/ StopEnds \/ StartTail \/ \E ok \in BOOLEAN : NetworkStarted(ok)
NodeFairness ==
  /\ WF_nodeVars(Proceeds)
  /\ WF_nodeVars(ReconnectReturns) /\ WF_nodeVars(ReconnectFires)
  /\ \A o \in Object : /\ WF_nodeVars(CreateResumes(o)) /\ WF_nodeVars(FetchReturns(o)) /\ WF_nodeVars(RetryFires(o))
                       /\ WF_nodeVars(FetchAnswered(o) \/ FetchTimesOut(o))
                       /\ \A k \in Kind : WF_nodeVars(LoopReturns(o, k)) /\ WF_nodeVars(LoopFires(o, k))

NodeSpec == NodeInit /\ [][NodeNext]_nodeVars /\ NodeFairness

-------------------------------------------------------------------------------
(* Properties. *)

\* Anti-entropy stays alive: on a node that is up, every object it serves -- stored,
\* with a queue, its createObject no longer in progress -- has that queue open, its
\* topic and, for every kind, a runner that is on with at least one loop, whatever
\* stops, starts, repeated connects and late createObject continuations came before.
AntiEntropyAlive ==
  life = "up" => \A o \in store :
    queues[o] # "none" /\ creating[o] = 0 =>
      /\ queues[o] = "open" /\ o \in topics
      /\ \A k \in Kind : iv[o][k].in /\ iv[o][k].on /\ Loops(iv[o][k]) > 0

\* A stopped node drains: when it stays down and no call has put an interval back,
\* every loop of the reconnect runner, doubled ones included, every retry timer and
\* every fetch comes to its end.
StoppedDrains ==
  <>[](life = "down" /\ \A o \in Object, k \in Kind : ~iv[o][k].in) =>
    <>[](Loops(rc) = 0 /\ \A o \in Object : retry[o] = 0 /\ ~fetch[o].live /\ fetch[o].stale = 0)
===============================================================================
