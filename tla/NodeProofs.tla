----------------------------- MODULE NodeProofs -----------------------------
(***************************************************************************)
(* The node, its control plane, its dials and its search for creators, for *)
(* any number of objects, calls, restarts, recoveries and network events:  *)
(* the objects of a node that is up keep their queue, topic and intervals, *)
(* the control plane keeps observing, the dials tell the truth and end     *)
(* with their host, and one search for a creator runs at a time.  They are *)
(* proved one after the other; none reads the state of another.            *)
(***************************************************************************)
EXTENDS DRPNode, ControlPlane, NetworkDial, CreatorSearch, TLAPS

-------------------------------------------------------------------------------
(* Proof of AntiEntropyAlive, for any number of objects, calls and restarts. *)

\* An interval runner; _intervalId, if set, names a pending timer.
RunnerFields == [in : BOOLEAN, on : BOOLEAN, exec : Nat, timers : Nat, armed : BOOLEAN]
Runner == {r \in RunnerFields : r.armed => r.timers > 0}

\* A runner in _intervals that goes on.
Alive(r) == r.in /\ r.on /\ Loops(r) > 0

\* The types of what AntiEntropyAlive is about.
NodeTypeOK ==
  /\ store \subseteq Object /\ queues \in [Object -> {"none", "open", "closed"}]
  /\ iv \in [Object -> [Kind -> Runner]] /\ creating \in [Object -> Nat]

\* The network runs once start is past it; on a node that is up no queue is one that the
\* last stop closed, and a stored object with a queue has its topic, also while its
\* createObject is still in progress.
UpIsOpen == /\ life \in {"rdv", "up"} => net
            /\ life = "up" => /\ \A o \in Object : queues[o] # "closed"
                              /\ \A o \in store : queues[o] # "none" => o \in topics

\* The inductive invariant.
NodeInv == NodeTypeOK /\ UpIsOpen /\ AntiEntropyAlive

\* IntervalRunner.start, after stop or on a new runner, leaves a loop.
LEMMA RunnerStarts ==
  /\ NewRunner \in Runner
  /\ \A r \in Runner : RunnerStop(r) \in Runner
  /\ \A r \in Runner : RunnerStart(r) \in Runner /\ Alive(RunnerStart(r))
<1>1. NewRunner \in Runner
  BY DEF NewRunner, Runner, RunnerFields
<1>2. ASSUME NEW r \in Runner PROVE RunnerStop(r) \in Runner
  <2>1. (IF r.armed THEN r.timers - 1 ELSE r.timers) \in Nat
    BY DEF Runner, RunnerFields
  <2>2. RunnerStop(r) \in RunnerFields
    BY <2>1, Zenon DEF Runner, RunnerFields, RunnerStop
  <2>3. ~RunnerStop(r).armed
    BY DEF Runner, RunnerFields, RunnerStop
  <2> QED BY <2>2, <2>3 DEF Runner
<1>3. ASSUME NEW r \in Runner PROVE RunnerStart(r) \in Runner /\ Alive(RunnerStart(r))
  <2>1. r.exec + 1 \in Nat
    BY DEF Runner, RunnerFields
  <2>2. RunnerStart(r) \in RunnerFields
    BY <2>1, Zenon DEF Runner, RunnerFields, RunnerStart
  <2>3. /\ RunnerStart(r).in /\ RunnerStart(r).on /\ RunnerStart(r).exec = r.exec + 1
        /\ RunnerStart(r).timers = r.timers /\ RunnerStart(r).armed = r.armed
    BY DEF Runner, RunnerFields, RunnerStart
  <2>4. RunnerStart(r).exec + RunnerStart(r).timers > 0
    BY <2>3 DEF Runner, RunnerFields
  <2> QED BY <2>2, <2>3, <2>4 DEF Runner, Alive, Loops
<1> QED BY <1>1, <1>2, <1>3

\* A loop that executes goes on to its timer, and a timer to its execution, while the
\* runner is on.
LEMMA RunnerLoops ==
  ASSUME NEW r \in Runner
  PROVE  /\ r.exec > 0 => /\ RunnerReturns(r, TRUE) \in Runner
                          /\ Alive(r) => Alive(RunnerReturns(r, TRUE))
         /\ r.armed => RunnerFires(r, FALSE) \in Runner /\ (Alive(r) => Alive(RunnerFires(r, FALSE)))
         /\ Displaced(r) > 0 => RunnerFires(r, TRUE) \in Runner /\ (Alive(r) => Alive(RunnerFires(r, TRUE)))
<1>0. r \in RunnerFields /\ r.exec \in Nat /\ r.timers \in Nat /\ (r.armed => r.timers > 0)
  BY DEF Runner, RunnerFields
<1>1. ASSUME r.exec > 0
      PROVE  RunnerReturns(r, TRUE) \in Runner /\ (Alive(r) => Alive(RunnerReturns(r, TRUE)))
  <2> DEFINE ended == [r EXCEPT !.exec = @ - 1]
             after == RunnerReturns(r, TRUE)
  <2>1. r.exec - 1 \in Nat /\ r.timers + 1 \in Nat
    BY <1>0, <1>1
  <2>2. ended \in RunnerFields /\ ended.in = r.in /\ ended.on = r.on /\ ended.exec = r.exec - 1
        /\ ended.timers = r.timers /\ ended.armed = r.armed
    BY <1>0, <2>1, Zenon DEF RunnerFields
  <2>3. after = IF r.on THEN [ended EXCEPT !.timers = @ + 1, !.armed = TRUE] ELSE ended
    BY DEF RunnerReturns
  <2> HIDE DEF ended, after
  <2>4. after \in RunnerFields
    BY <2>1, <2>2, <2>3, Zenon DEF RunnerFields
  <2>5. /\ after.in = r.in /\ after.on = r.on /\ after.exec = r.exec - 1
        /\ r.on => after.timers = r.timers + 1
        /\ ~r.on => after.timers = r.timers /\ after.armed = r.armed
    BY <2>2, <2>3, Zenon DEF RunnerFields
  <2>6. CASE r.on
    <3>1. after.in = r.in /\ after.on = r.on /\ after.exec = r.exec - 1 /\ after.timers = r.timers + 1
      BY <2>5, <2>6, Zenon
    <3>2. after.timers > 0 /\ after.exec + after.timers > 0
      BY <1>0, <2>1, <3>1
    <3> QED BY <2>4, <3>1, <3>2, Zenon DEF Runner, Alive, Loops, after
  <2>7. CASE ~r.on
    BY <1>0, <2>4, <2>5, <2>7, Zenon DEF Runner, Alive, after
  <2> QED BY <2>6, <2>7, Zenon
<1>2. ASSUME NEW displaced \in BOOLEAN, r.timers > 0, displaced /\ r.armed => r.timers > 1
      PROVE  RunnerFires(r, displaced) \in Runner /\ (Alive(r) => Alive(RunnerFires(r, displaced)))
  <2>1. r.timers - 1 \in Nat /\ r.exec + 1 \in Nat
    BY <1>0, <1>2
  <2>2. RunnerFires(r, displaced) \in RunnerFields
    BY <1>0, <2>1, Zenon DEF RunnerFields, RunnerFires
  <2>3. /\ RunnerFires(r, displaced).in = r.in /\ RunnerFires(r, displaced).on = r.on
        /\ RunnerFires(r, displaced).timers = r.timers - 1
        /\ r.on => RunnerFires(r, displaced).exec = r.exec + 1
        /\ RunnerFires(r, displaced).armed => displaced /\ r.armed
    BY <1>0 DEF RunnerFields, RunnerFires
  <2>4. RunnerFires(r, displaced).armed => r.timers - 1 > 0
    BY <1>0, <1>2, <2>3
  <2>5. r.on => RunnerFires(r, displaced).exec + RunnerFires(r, displaced).timers > 0
    BY <1>0, <2>1, <2>3
  <2> QED BY <2>2, <2>3, <2>4, <2>5 DEF Runner, Alive, Loops
<1>3. r.armed => r.timers > 0
  BY <1>0
<1>4. Displaced(r) > 0 => r.timers > 0 /\ (r.armed => r.timers > 1)
  BY <1>0 DEF Displaced
<1> QED BY <1>1, <1>2, <1>3, <1>4, Zenon

\* _createObjectIntervals and _stopObjectIntervals concern one object.
LEMMA IntervalsOfOne ==
  ASSUME NodeTypeOK, NEW o \in Object
  PROVE  /\ CreateIntervals(o) \in [Object -> [Kind -> Runner]]
         /\ \A k \in Kind : Alive(CreateIntervals(o)[o][k])
         /\ StopIntervals(o) \in [Object -> [Kind -> Runner]]
         /\ \A p \in Object \ {o} : CreateIntervals(o)[p] = iv[p] /\ StopIntervals(o)[p] = iv[p]
<1>1. \A k \in Kind : iv[o][k] \in Runner
  BY DEF NodeTypeOK
<1>2. \A k \in Kind : LET r == IF iv[o][k].in THEN RunnerStop(iv[o][k]) ELSE NewRunner
                      IN  RunnerStart(r) \in Runner /\ Alive(RunnerStart(r))
  BY <1>1, RunnerStarts
<1>3. iv \in [Object -> [Kind -> Runner]]
  BY DEF NodeTypeOK
<1> QED BY <1>2, <1>3, RunnerStarts DEF CreateIntervals, StopIntervals

\* A node that was never started has no object, queue or interval.
LEMMA NodeInitHolds == NodeInit => NodeInv
BY RunnerStarts DEF NodeInit, NodeInv, NodeTypeOK, UpIsOpen, AntiEntropyAlive

\* start: nothing is up before StartTail, which restores every stored object or fails.
LEMMA NodeLifecycleKeeps == NodeInv /\ Lifecycle => NodeInv'
<1> SUFFICES ASSUME NodeInv, Lifecycle PROVE NodeInv'
  OBVIOUS
<1>1. CASE Start
  BY <1>1 DEF NodeInv, NodeTypeOK, UpIsOpen, AntiEntropyAlive, Start, ObjectCalls
<1>2. ASSUME NEW ok \in BOOLEAN, NetworkStarted(ok) PROVE NodeInv'
  BY <1>2 DEF NodeInv, NodeTypeOK, UpIsOpen, AntiEntropyAlive, NetworkStarted, ObjectCalls
<1>3. CASE StartTail
  <2>1. PICK restored \in SUBSET store :
          /\ life' = "up" => restored = store
          /\ queues' = [o \in Object |-> IF o \in restored \cup Queues THEN "open" ELSE "none"]
          /\ topics' = topics \cup restored
          /\ iv' = [o \in Object |-> IF o \in restored THEN CreateIntervals(o)[o] ELSE iv[o]]
    BY <1>3 DEF StartTail
  <2>2. life = "rdv" /\ life' \in {"up", "failed"} /\ UNCHANGED <<net, store, creating>>
    BY <1>3 DEF StartTail, ObjectCalls
  <2>3. \A o \in Object : /\ CreateIntervals(o)[o] \in [Kind -> Runner]
                          /\ \A k \in Kind : Alive(CreateIntervals(o)[o][k])
    BY IntervalsOfOne DEF NodeInv
  <2>4. NodeTypeOK'
    <3>1. iv' \in [Object -> [Kind -> Runner]]
      BY <2>1, <2>3 DEF NodeInv, NodeTypeOK
    <3> QED BY <2>1, <2>2, <3>1 DEF NodeInv, NodeTypeOK
  <2>5. UpIsOpen'
    BY <2>1, <2>2 DEF NodeInv, NodeTypeOK, UpIsOpen
  <2>6. AntiEntropyAlive'
    <3> SUFFICES ASSUME life' = "up", NEW o \in store
                 PROVE  /\ queues'[o] = "open" /\ o \in topics'
                        /\ \A k \in Kind : Alive(iv'[o][k])
      BY <2>2 DEF AntiEntropyAlive, Alive
    <3>1. o \in restored /\ o \in Object
      BY <2>1 DEF NodeInv, NodeTypeOK
    <3> QED BY <2>1, <2>3, <3>1
  <2> QED BY <2>4, <2>5, <2>6 DEF NodeInv
<1>4. CASE Stop
  BY <1>4 DEF NodeInv, NodeTypeOK, UpIsOpen, AntiEntropyAlive, Stop, ObjectCalls
<1>5. CASE StopBody
  <2>1. \A o \in Object : StopIntervals(o)[o] \in [Kind -> Runner]
    BY IntervalsOfOne DEF NodeInv
  <2>2. NodeTypeOK'
    BY <1>5, <2>1 DEF NodeInv, NodeTypeOK, StopBody
  <2> QED BY <1>5, <2>2 DEF NodeInv, UpIsOpen, AntiEntropyAlive, StopBody
<1>6. CASE StopEnds
  BY <1>6 DEF NodeInv, NodeTypeOK, UpIsOpen, AntiEntropyAlive, StopEnds, ObjectCalls
<1> QED BY <1>1, <1>2, <1>3, <1>4, <1>5, <1>6 DEF Lifecycle

\* What subscribeObject leaves of the types and of UpIsOpen, in a call of create or connect.
LEMMA SubscribeOpens ==
  ASSUME NodeInv, NEW o \in Object, Subscribe(o), UNCHANGED <<life, net>>
  PROVE  /\ store' \subseteq Object /\ queues' \in [Object -> {"none", "open", "closed"}]
         /\ UpIsOpen' /\ (life = "up" => queues'[o] = "open" /\ o \in topics')
         /\ \A p \in store' \ {o} : p \in store /\ queues'[p] = queues[p] /\ (p \in topics => p \in topics')
BY DEF NodeInv, NodeTypeOK, UpIsOpen, Subscribe

\* The intervals of one object are created, and its queue and topic are there.
LEMMA ServedWhenCreated ==
  ASSUME NodeInv, NEW o \in Object, UpIsOpen', UNCHANGED life, iv' = CreateIntervals(o),
         creating' \in [Object -> Nat], \A p \in Object \ {o} : creating'[p] = creating[p],
         queues' \in [Object -> {"none", "open", "closed"}], store' \subseteq Object,
         \A p \in store' \ {o} : p \in store /\ queues'[p] = queues[p] /\ (p \in topics => p \in topics')
  PROVE  NodeInv'
<1>1. /\ iv' \in [Object -> [Kind -> Runner]] /\ \A k \in Kind : Alive(iv'[o][k])
      /\ \A p \in Object \ {o} : iv'[p] = iv[p]
  BY IntervalsOfOne DEF NodeInv
<1>2. NodeTypeOK'
  BY <1>1 DEF NodeTypeOK
<1>3. AntiEntropyAlive'
  <2> SUFFICES ASSUME life' = "up", NEW p \in store', queues'[p] # "none", creating'[p] = 0
               PROVE  /\ queues'[p] = "open" /\ p \in topics'
                      /\ \A k \in Kind : Alive(iv'[p][k])
    BY DEF AntiEntropyAlive, Alive
  <2>1. p \in Object /\ queues'[p] = "open" /\ p \in topics'
    BY DEF UpIsOpen
  <2>2. CASE p = o
    BY <1>1, <2>1, <2>2
  <2>3. CASE p # o
    BY <1>1, <2>1, <2>3 DEF NodeInv, AntiEntropyAlive, Alive
  <2> QED BY <2>2, <2>3
<1> QED BY <1>2, <1>3 DEF NodeInv

\* createObject, connectObject and unsubscribeObject, in the middle of a start or stop too.
LEMMA ObjectsKeep == NodeInv /\ Objects => NodeInv'
<1> SUFFICES ASSUME NodeInv, NEW o \in Object,
                    \/ SubscribeThrows(o) \/ ConnectObject(o)
                    \/ \E flag \in BOOLEAN : CreateObject(o, flag) \/ UnsubscribeObject(o, flag)
             PROVE  NodeInv'
  BY DEF Objects
<1>1. CASE SubscribeThrows(o)
  <2>1. queues[o] = "none" /\ store' = store \cup {o}
        /\ UNCHANGED <<life, net, queues, topics, iv, creating>>
    BY <1>1 DEF SubscribeThrows, HasRoom, Called
  <2> QED BY <2>1 DEF NodeInv, NodeTypeOK, UpIsOpen, AntiEntropyAlive
<1>2. CASE ConnectObject(o)
  <2>1. Subscribe(o) /\ iv' = CreateIntervals(o) /\ UNCHANGED <<life, net, creating>>
    BY <1>2 DEF ConnectObject, Called
  <2>2. creating' \in [Object -> Nat]
    BY <2>1 DEF NodeInv, NodeTypeOK
  <2> QED BY <2>1, <2>2, SubscribeOpens, ServedWhenCreated
<1>3. ASSUME NEW sync \in BOOLEAN, CreateObject(o, sync) PROVE NodeInv'
  <2>1. Subscribe(o) /\ UNCHANGED <<life, net>>
    BY <1>3 DEF CreateObject, Called
  <2>2. CASE sync
    <3>1. iv' = iv /\ creating' = [creating EXCEPT ![o] = @ + 1]
      BY <1>3, <2>2 DEF CreateObject
    <3>2. creating' \in [Object -> Nat] /\ creating'[o] > 0
          /\ \A p \in Object \ {o} : creating'[p] = creating[p]
      BY <3>1 DEF NodeInv, NodeTypeOK
    <3>3. NodeTypeOK'
      BY <2>1, <3>1, <3>2, SubscribeOpens DEF NodeInv, NodeTypeOK
    <3>4. AntiEntropyAlive'
      <4> SUFFICES ASSUME life' = "up", NEW p \in store', queues'[p] # "none", creating'[p] = 0
                   PROVE  /\ queues'[p] = "open" /\ p \in topics'
                          /\ \A k \in Kind : Alive(iv'[p][k])
        BY DEF AntiEntropyAlive, Alive
      <4>1. p # o /\ p \in store' \ {o}
        BY <3>2
      <4>2. p \in store /\ p \in Object /\ queues'[p] = queues[p] /\ (p \in topics => p \in topics')
        BY <2>1, <4>1, SubscribeOpens DEF NodeInv, NodeTypeOK
      <4> QED BY <2>1, <3>1, <3>2, <4>1, <4>2 DEF NodeInv, AntiEntropyAlive, Alive
    <3> QED BY <2>1, <3>3, <3>4, SubscribeOpens DEF NodeInv
  <2>3. CASE ~sync
    <3>1. iv' = CreateIntervals(o) /\ UNCHANGED creating
      BY <1>3, <2>3 DEF CreateObject
    <3>2. creating' \in [Object -> Nat]
      BY <3>1 DEF NodeInv, NodeTypeOK
    <3> QED BY <2>1, <3>1, <3>2, SubscribeOpens, ServedWhenCreated
  <2> QED BY <2>2, <2>3
<1>4. ASSUME NEW purge \in BOOLEAN, UnsubscribeObject(o, purge) PROVE NodeInv'
  <2>1. /\ UNCHANGED <<life, net, creating>> /\ iv' = StopIntervals(o)
        /\ store' \subseteq store /\ queues' = [queues EXCEPT ![o] = "none"]
        /\ \A p \in topics : p # o => p \in topics'
    BY <1>4, SMTT(30) DEF UnsubscribeObject, Called
  <2>2. iv' \in [Object -> [Kind -> Runner]] /\ \A p \in Object \ {o} : iv'[p] = iv[p]
    BY <2>1, IntervalsOfOne DEF NodeInv
  <2>3. queues' \in [Object -> {"none", "open", "closed"}] /\ queues'[o] = "none"
        /\ \A p \in Object \ {o} : queues'[p] = queues[p]
    BY <2>1 DEF NodeInv, NodeTypeOK
  <2>4. NodeTypeOK'
    BY <2>1, <2>2, <2>3 DEF NodeInv, NodeTypeOK
  <2>5. UpIsOpen'
    BY <2>1, <2>3 DEF NodeInv, NodeTypeOK, UpIsOpen
  <2>6. AntiEntropyAlive'
    BY <2>1, <2>2, <2>3 DEF NodeInv, NodeTypeOK, AntiEntropyAlive
  <2> QED BY <2>4, <2>5, <2>6 DEF NodeInv
<1> QED BY <1>1, <1>2, <1>3, <1>4

\* The continuations of createObject and connectObject, and the retry timer.
LEMMA PendingKeep == NodeInv /\ Pending => NodeInv'
<1> SUFFICES ASSUME NodeInv, NEW o \in Object,
                    \/ CreateResumes(o) \/ FetchAnswered(o) \/ FetchTimesOut(o)
                    \/ FetchReturns(o) \/ RetryFires(o)
             PROVE  NodeInv'
  BY DEF Pending
<1>1. CASE CreateResumes(o)
  <2>1. /\ iv' = CreateIntervals(o) /\ UNCHANGED <<life, net, store, queues, topics>>
        /\ creating[o] > 0 /\ creating' = [creating EXCEPT ![o] = @ - 1]
    BY <1>1 DEF CreateResumes
  <2>2. creating' \in [Object -> Nat] /\ \A p \in Object \ {o} : creating'[p] = creating[p]
    BY <2>1 DEF NodeInv, NodeTypeOK
  <2>3. UpIsOpen'
    BY <2>1 DEF NodeInv, UpIsOpen
  <2>4. store' \subseteq Object /\ queues' \in [Object -> {"none", "open", "closed"}]
    BY <2>1 DEF NodeInv, NodeTypeOK
  <2> QED BY <2>1, <2>2, <2>3, <2>4, ServedWhenCreated
<1>2. CASE UNCHANGED FetchFrame
  BY <1>2 DEF FetchFrame, NodeInv, NodeTypeOK, UpIsOpen, AntiEntropyAlive
<1> QED BY <1>1, <1>2 DEF FetchAnswered, FetchTimesOut, FetchReturns, RetryFires

\* The loops of IntervalRunner: none of them lets a runner that is on run out of loops.
LEMMA TimersKeep == NodeInv /\ Timers => NodeInv'
<1> SUFFICES ASSUME NodeInv, Timers PROVE NodeInv'
  OBVIOUS
<1>1. CASE ReconnectReturns \/ ReconnectFires
  BY <1>1, Zenon DEF ReconnectReturns, ReconnectFires, LoopFrame, ObjectCalls,
              NodeInv, NodeTypeOK, UpIsOpen, AntiEntropyAlive
<1>2. ASSUME NEW o \in Object, NEW k \in Kind, LoopReturns(o, k) \/ LoopFires(o, k) PROVE NodeInv'
  <2>1. UNCHANGED <<life, net, store, queues, topics, creating>>
    BY <1>2, Zenon DEF LoopReturns, LoopFires, LoopFrame, ObjectCalls
  <2>2. iv[o][k] \in Runner
    BY DEF NodeInv, NodeTypeOK
  <2>3. PICK r \in Runner : /\ iv' = [iv EXCEPT ![o][k] = r]
                            /\ Alive(iv[o][k]) => Alive(r)
    BY <1>2, <2>2, RunnerLoops, Zenon DEF LoopReturns, LoopFires, CallbackGoesOn
  <2>4. /\ iv' \in [Object -> [Kind -> Runner]]
        /\ \A p \in Object, j \in Kind : Alive(iv[p][j]) => Alive(iv'[p][j])
    BY <2>3 DEF NodeInv, NodeTypeOK
  <2>5. NodeTypeOK' /\ UpIsOpen'
    BY <2>1, <2>4 DEF NodeInv, NodeTypeOK, UpIsOpen
  <2>6. AntiEntropyAlive'
    BY <2>1, <2>4 DEF NodeInv, NodeTypeOK, AntiEntropyAlive, Alive
  <2> QED BY <2>5, <2>6 DEF NodeInv
<1> QED BY <1>1, <1>2 DEF Timers

\* The node keeps its inductive invariant through every start, stop, object call, late
\* continuation and timer (start, stop and the object calls of node/src/index.ts).
THEOREM NodeInvariant == NodeSpec => []NodeInv
<1>1. NodeInv /\ [NodeNext]_nodeVars => NodeInv'
  <2>1. NodeInv /\ UNCHANGED nodeVars => NodeInv'
    BY DEF nodeVars, NodeInv, NodeTypeOK, UpIsOpen, AntiEntropyAlive
  <2> QED BY <2>1, NodeLifecycleKeeps, ObjectsKeep, PendingKeep, TimersKeep DEF NodeNext
<1> QED BY <1>1, NodeInitHolds, PTL DEF NodeSpec

\* On a node that is up every object it serves has an open queue, its topic and a running
\* interval of every kind, for any number of objects, calls and restarts (_createObjectIntervals,
\* start and stop of node/src/index.ts, IntervalRunner).
THEOREM AlwaysAntiEntropyAlive == NodeSpec => []AntiEntropyAlive
<1>1. NodeInv => AntiEntropyAlive
  BY DEF NodeInv
<1> QED BY <1>1, NodeInvariant, PTL

-----------------------------------------------------------------------------
(* Proof of the three safety properties, for any number of starts, recoveries *)
(* and network events.                                                        *)

\* What classifyObservedFault returns.
Fault == {"everything-unavailable", "delegated-router-failed", "direct-connection-failed",
          "dht-unavailable", "registry-failed", "all-registries-failed", "peer-disappeared",
          "relay-disconnected", "none"}

\* An element of #activeRecoveries.
RecoveryRecord == [ctl : Nat, fault : Fault, attempt : Nat,
                   abort : {"no", "deadline", "aborted"}, opFailed : BOOLEAN,
                   pc : {"preserving", "operating", "sleeping"}]

\* The types of the coordinator's own state.
PlaneTypeOK ==
    /\ recs \in Seq(RecoveryRecord)
    /\ ctl \in Nat /\ lifecycles \in Nat /\ stopping \in Nat /\ throws \in Nat
    /\ timer \in BOOLEAN /\ sub \in BOOLEAN

\* A timer and a subscription belong to a life cycle that is not over, and the
\* recovery that runs to the current one or to one that stop() waits for.
Owned ==
    /\ (timer => ctl # 0) /\ (sub => ctl # 0)
    /\ recs # << >> => \/ recs[1].ctl = ctl /\ ctl # 0
                       \/ stopping # 0 /\ recs[1].ctl <= stopping

\* The inductive invariant.
PlaneInv == PlaneTypeOK /\ OneRecovery /\ ObservationPending /\ Owned

\* With at most one recovery, an index of recs names the only one.
LEMMA OnlyOne ==
    ASSUME PlaneTypeOK, OneRecovery, NEW i \in DOMAIN recs
    PROVE  i = 1 /\ Len(recs) = 1 /\ recs # << >> /\ recs[1] \in RecoveryRecord
<1>1. recs \in Seq(RecoveryRecord) /\ Len(recs) \in Nat /\ DOMAIN recs = 1 .. Len(recs)
  BY DEF PlaneTypeOK
<1>2. i = 1 /\ Len(recs) = 1
  BY <1>1 DEF OneRecovery
<1>3. DOMAIN << >> = {}
  OBVIOUS
<1>4. recs # << >>
  BY <1>3, Zenon
<1> QED BY <1>1, <1>2, <1>4

\* The end of a recovery leaves none.
LEMMA FinishLeavesNone ==
    ASSUME PlaneTypeOK, OneRecovery, NEW i \in DOMAIN recs
    PROVE  SubSeq(recs, 1, i - 1) \o SubSeq(recs, i + 1, Len(recs)) = << >>
<1>1. i = 1 /\ Len(recs) = 1
  BY OnlyOne
<1>2. SubSeq(recs, 1, 0) = << >> /\ SubSeq(recs, 2, 1) = << >>
  BY DEF PlaneTypeOK
<1>3. << >> \o << >> = << >>
  OBVIOUS
<1> QED BY <1>1, <1>2, <1>3

\* #activeRecoveries when it is empty, and its first element when it is not.
LEMMA NoneOrFirst ==
    /\ << >> \in Seq(RecoveryRecord) /\ Len(<< >>) <= 1
    /\ PlaneTypeOK /\ recs # << >> => 1 \in DOMAIN recs /\ recs[1] \in RecoveryRecord
<1>1. << >> \in Seq(RecoveryRecord) /\ Len(<< >>) <= 1
  OBVIOUS
<1>2. ASSUME recs \in Seq(RecoveryRecord), recs # << >>
      PROVE  1 \in DOMAIN recs /\ recs[1] \in RecoveryRecord
  BY <1>2
<1> QED BY <1>1, <1>2 DEF PlaneTypeOK

\* A coordinator that was never started has no timer, subscription or recovery.
LEMMA PlaneInitHolds == PlaneInit => PlaneInv
<1> SUFFICES ASSUME PlaneInit PROVE PlaneInv
  OBVIOUS
<1>1. recs = << >> /\ recs \in Seq(RecoveryRecord) /\ Len(recs) <= 1
  BY NoneOrFirst DEF PlaneInit
<1>2. ctl = 0 /\ lifecycles = 0 /\ stopping = 0 /\ throws = 0 /\ timer = FALSE /\ sub = FALSE
  BY DEF PlaneInit
<1> QED BY <1>1, <1>2, Zenon DEF PlaneInv, PlaneTypeOK, OneRecovery, ObservationPending, Owned

\* #observe starts a recovery only when none is active, and arms the timer when it
\* starts none and none is active.
LEMMA ObserveKeeps ==
    ASSUME PlaneInv, ctl # 0, NEW s, NEW armed \in BOOLEAN, Observe(s, armed), UNCHANGED <<lifecycle, throws>>
    PROVE  PlaneInv'
<1> DEFINE fault == ClassifyObservedFault(s, last)
<1>1. UNCHANGED <<ctl, lifecycles, stopping, sub, throws>>
  BY DEF lifecycle
<1>2. \/ recs' = recs /\ timer' \in BOOLEAN /\ (timer' \/ recs # << >>)
      \/ recs = << >> /\ recs' = Append(recs, NewRecovery(fault)) /\ timer' \in BOOLEAN
  BY Zenon DEF Observe
<1>3. CASE recs' = recs /\ timer' \in BOOLEAN /\ (timer' \/ recs # << >>)
  BY <1>1, <1>3 DEF PlaneInv, PlaneTypeOK, OneRecovery, ObservationPending, Owned
<1>4. CASE recs = << >> /\ recs' = Append(recs, NewRecovery(fault)) /\ timer' \in BOOLEAN
  <2>1. fault \in Fault
    BY DEF ClassifyObservedFault, Fault
  <2>2. NewRecovery(fault) \in RecoveryRecord /\ NewRecovery(fault).ctl = ctl
    BY <2>1 DEF NewRecovery, RecoveryRecord, PlaneInv, PlaneTypeOK
  <2>3. recs' = << NewRecovery(fault) >>
    BY <1>4
  <2>4. recs' \in Seq(RecoveryRecord) /\ Len(recs') = 1 /\ recs' # << >> /\ recs'[1].ctl = ctl
    BY <2>2, <2>3
  <2> QED BY <1>1, <1>4, <2>4 DEF PlaneInv, PlaneTypeOK, OneRecovery, ObservationPending, Owned
<1> QED BY <1>2, <1>3, <1>4

\* A step of a recovery changes only its record, or ends it and arms the timer.
LEMMA RecoveryKeeps ==
    ASSUME PlaneInv, NEW i \in DOMAIN recs,
           Preserve(i) \/ Operate(i) \/ Wake(i) \/ Deadline(i) \/ Unwind(i)
    PROVE  PlaneInv'
<1>1. i = 1 /\ Len(recs) = 1 /\ recs # << >> /\ recs[1] \in RecoveryRecord
  BY OnlyOne DEF PlaneInv
<1>2. UNCHANGED <<ctl, lifecycles, stopping, sub, throws>>
  BY Zenon DEF Preserve, Operate, Wake, Deadline, Unwind, RecoveryFrame, lifecycle
<1>3. ASSUME recs' = << >>, timer' = Armed PROVE PlaneInv'
  <2>1. recs' \in Seq(RecoveryRecord) /\ Len(recs') <= 1
    BY <1>3, NoneOrFirst
  <2>2. timer' \in BOOLEAN /\ (timer' <=> timer \/ ctl # 0)
    BY <1>3, Zenon DEF Armed
  <2> QED BY <1>2, <1>3, <2>1, <2>2 DEF PlaneInv, PlaneTypeOK, OneRecovery, ObservationPending, Owned
<1>4. ASSUME NEW r \in RecoveryRecord, recs' = [recs EXCEPT ![1] = r], r.ctl = recs[1].ctl, timer' = timer
      PROVE  PlaneInv'
  <2>1. recs' \in Seq(RecoveryRecord) /\ Len(recs') = 1 /\ recs' # << >> /\ recs'[1].ctl = recs[1].ctl
    BY <1>1, <1>4 DEF PlaneInv, PlaneTypeOK
  <2> QED BY <1>1, <1>2, <1>4, <2>1, Zenon DEF PlaneInv, PlaneTypeOK, OneRecovery, ObservationPending, Owned
<1>5. ASSUME NEW t, NEW f, Finish(i, t, f) PROVE PlaneInv'
  <2>1. recs' = << >> /\ timer' = Armed
    BY <1>5, FinishLeavesNone DEF PlaneInv, Finish
  <2> QED BY <1>3, <2>1
<1>6. CASE Preserve(i)
  <2>1. [recs[1] EXCEPT !.pc = "operating"] \in RecoveryRecord
        /\ [recs[1] EXCEPT !.pc = "operating"].ctl = recs[1].ctl
    BY <1>1 DEF RecoveryRecord
  <2> QED BY <1>1, <1>4, <1>5, <1>6, <2>1, Zenon DEF Preserve
<1>7. CASE Operate(i)
  <2>1. [recs[1] EXCEPT !.pc = "sleeping", !.opFailed = TRUE] \in RecoveryRecord
        /\ [recs[1] EXCEPT !.pc = "sleeping", !.opFailed = TRUE].ctl = recs[1].ctl
    BY <1>1, Zenon DEF RecoveryRecord
  <2>2. [recs EXCEPT ![1].pc = "sleeping", ![1].opFailed = TRUE]
          = [recs EXCEPT ![1] = [recs[1] EXCEPT !.pc = "sleeping", !.opFailed = TRUE]]
    BY <1>1, Zenon DEF PlaneInv, PlaneTypeOK
  <2> QED BY <1>1, <1>4, <1>5, <1>7, <2>1, <2>2, Zenon DEF Operate
<1>8. CASE Wake(i)
  <2>0. recs[1].attempt + 1 \in Nat
    BY <1>1 DEF RecoveryRecord
  <2>1. [recs[1] EXCEPT !.pc = "operating", !.attempt = recs[1].attempt + 1] \in RecoveryRecord
        /\ [recs[1] EXCEPT !.pc = "operating", !.attempt = recs[1].attempt + 1].ctl = recs[1].ctl
    BY <1>1, <2>0, Zenon DEF RecoveryRecord
  <2>2. [recs EXCEPT ![1].pc = "operating", ![1].attempt = @ + 1]
          = [recs EXCEPT ![1] = [recs[1] EXCEPT !.pc = "operating", !.attempt = recs[1].attempt + 1]]
    BY <1>1, Zenon DEF PlaneInv, PlaneTypeOK, RecoveryRecord
  <2> QED BY <1>1, <1>4, <1>8, <2>1, <2>2, Zenon DEF Wake
<1>9. CASE Deadline(i)
  <2>1. [recs[1] EXCEPT !.abort = "deadline"] \in RecoveryRecord
        /\ [recs[1] EXCEPT !.abort = "deadline"].ctl = recs[1].ctl
    BY <1>1 DEF RecoveryRecord
  <2> QED BY <1>1, <1>4, <1>9, <2>1, Zenon DEF Deadline
<1>10. CASE Unwind(i)
  BY <1>5, <1>10 DEF Unwind
<1> QED BY <1>6, <1>7, <1>8, <1>9, <1>10

\* start, stop and the callbacks.
LEMMA PlaneLifecycleKeeps ==
    ASSUME PlaneInv, PlaneStart \/ StopCall \/ StopDone \/ TimerFires \/ ReadThrows \/ Notify
    PROVE  PlaneInv'
<1>1. CASE PlaneStart
  BY <1>1 DEF PlaneStart, PlaneInv, PlaneTypeOK, OneRecovery, ObservationPending, Owned
<1>2. CASE StopCall
  <2> DEFINE Stopped(r) == IF r.abort = "no" THEN [r EXCEPT !.abort = "aborted"] ELSE r
  <2>1. \A r \in RecoveryRecord : Stopped(r) \in RecoveryRecord /\ Stopped(r).ctl = r.ctl
    BY DEF RecoveryRecord
  <2>2. recs' = [i \in DOMAIN recs |-> Stopped(recs[i])]
    BY <1>2 DEF StopCall
  <2>3. /\ recs' \in Seq(RecoveryRecord) /\ Len(recs') = Len(recs)
        /\ recs' # << >> => recs # << >> /\ recs'[1].ctl = recs[1].ctl
    <3> HIDE DEF Stopped
    <3> QED BY <2>1, <2>2 DEF PlaneInv, PlaneTypeOK
  <2>4. UNCHANGED <<lifecycles, throws>> /\ ctl # 0 /\ ctl' = 0 /\ sub' = FALSE /\ timer' = FALSE
        /\ stopping = 0 /\ stopping' = ctl
    BY <1>2 DEF StopCall
  <2>5. recs' # << >> => recs'[1].ctl <= stopping'
    BY <2>3, <2>4 DEF PlaneInv, PlaneTypeOK, Owned
  <2> QED BY <2>3, <2>4, <2>5, Zenon DEF PlaneInv, PlaneTypeOK, OneRecovery, ObservationPending, Owned
<1>3. CASE StopDone
  <2>1. /\ stopping' = 0 /\ UNCHANGED <<ctl, lifecycles, sub, timer, recs, throws>>
        /\ \A i \in DOMAIN recs : recs[i].ctl > stopping
    BY <1>3, Zenon DEF StopDone, recovery
  <2>2. recs # << >> => recs[1].ctl > stopping /\ recs[1].ctl \in Nat
    <3>1. ASSUME recs # << >> PROVE 1 \in DOMAIN recs /\ recs[1].ctl \in Nat
      BY <3>1, NoneOrFirst DEF PlaneInv, RecoveryRecord
    <3> QED BY <2>1, <3>1
  <2>3. recs # << >> => recs[1].ctl = ctl
    BY <2>2 DEF PlaneInv, PlaneTypeOK, Owned
  <2> QED BY <2>1, <2>3, SMTT(30) DEF PlaneInv, PlaneTypeOK, OneRecovery, ObservationPending, Owned
<1>4. CASE TimerFires
  <2>1. ctl # 0 /\ Observe(Reading, FALSE) /\ UNCHANGED <<lifecycle, throws>>
    BY <1>4, Zenon DEF TimerFires, PlaneInv, Owned
  <2> QED BY <2>1, ObserveKeeps, Zenon
<1>5. CASE ReadThrows
  <2>1. throws' \in Nat /\ throws' # 0
    BY <1>5 DEF ReadThrows, PlaneInv, PlaneTypeOK
  <2>2. timer' = FALSE /\ UNCHANGED <<ctl, lifecycles, stopping, sub, recs>>
    BY <1>5 DEF ReadThrows, lifecycle
  <2> QED BY <2>1, <2>2, Zenon DEF PlaneInv, PlaneTypeOK, OneRecovery, ObservationPending, Owned
<1>6. CASE Notify
  <2>1. CASE sub
    <3>1. ctl # 0 /\ Observe(Reading, timer) /\ UNCHANGED <<lifecycle, throws>> /\ timer \in BOOLEAN
      BY <1>6, <2>1 DEF Notify, PlaneInv, Owned, PlaneTypeOK
    <3> QED BY <3>1, ObserveKeeps, SMTT(30)
  <2>2. CASE ~sub
    BY <1>6, <2>2 DEF Notify, lifecycle, PlaneInv, PlaneTypeOK, OneRecovery, ObservationPending, Owned
  <2> QED BY <2>1, <2>2
<1> QED BY <1>1, <1>2, <1>3, <1>4, <1>5, <1>6, SMTT(30)

\* The coordinator keeps its inductive invariant through every start(), stop(), timer,
\* status event and step of a recovery (control-plane/src/index.ts).
THEOREM PlaneInvariant == PlaneSpec => []PlaneInv
<1>1. PlaneInv /\ [PlaneNext]_planeVars => PlaneInv'
  <2> SUFFICES ASSUME PlaneInv, [PlaneNext]_planeVars PROVE PlaneInv'
    OBVIOUS
  <2>1. CASE UNCHANGED <<ctl, lifecycles, stopping, sub, timer, recs, throws>>
    BY <2>1 DEF PlaneInv, PlaneTypeOK, OneRecovery, ObservationPending, Owned
  <2>2. CASE Recovery
    BY <2>2, RecoveryKeeps DEF Recovery
  <2>3. CASE BackoffOver \/ NetworkChanges \/ \E b \in Backend : CooldownOver(b)
    BY <2>1, <2>3 DEF BackoffOver, NetworkChanges, CooldownOver, lifecycle, recovery
  <2> QED BY <2>1, <2>2, <2>3, PlaneLifecycleKeeps DEF PlaneNext, planeVars, lifecycle, recovery
<1> QED BY <1>1, PlaneInitHolds, PTL DEF PlaneSpec

\* At most one recovery runs, the observation loop of a started coordinator never dies, and
\* a stop() that has resolved leaves nothing (#observe, #scheduleObservation, recover, stop
\* of control-plane/src/index.ts).
THEOREM AlwaysObservationAlive == PlaneSpec => []ObservationAlive
<1>1. PlaneInv => ObservationAlive
  BY DEF ObservationAlive, PlaneInv, PlaneTypeOK, Owned, StopReleases
<1> QED BY <1>1, PlaneInvariant, PTL

-------------------------------------------------------------------------------
(* Proof of DialsAreSound, for any number of hosts, addresses, peers and waits. *)

\* A retry loop of _dialBootstrapWithRetry has waits left while it waits, and has made at
\* most one attempt more than there are waits.
RetryRecord == [pc : {"none", "check", "dialing", "waiting", "done"}, attempt : Nat, made : BOOLEAN]
AttemptsLeft(r) ==
    /\ r.pc \in {"check", "waiting"} => r.attempt <= RetryDelays
    /\ r.pc = "dialing" => r.attempt <= RetryDelays + 1

\* The types of what the retry loops read and write.
DialTypes ==
    /\ latest \in Hosts \cup {NoHost}
    /\ hostState \in [Hosts -> {"absent", "started", "stopping", "stopped"}]
    /\ retryAborted \in [Hosts -> BOOLEAN]
    /\ retries \in [Hosts -> [BootstrapAddress -> RetryRecord]]

\* stop() aborts the retries of a host before it stops it, and _node is a host that was
\* started.
HostsInOrder ==
    /\ \A h \in Hosts : hostState[h] \in {"stopping", "stopped"} => retryAborted[h]
    /\ latest # NoHost => hostState[latest] # "absent"

\* The inductive invariant of the loops.
LoopsInv ==
    /\ DialTypes /\ HostsInOrder /\ RetriesPersist
    /\ \A h \in Hosts, a \in BootstrapAddress : AttemptsLeft(retries[h][a])

\* No two dials of a race are to the same peer.
OwnersApart(groups) ==
    \A g, k \in groups : g # k => {OwnerOf[a] : a \in g} \cap {OwnerOf[a] : a \in k} \subseteq {Unnamed}

\* The inductive invariant of a race.
RaceInv ==
    \/ race = NoCall
    \/ race.pc = "racing" /\ OwnersApart(race.groups)
    \/ /\ race.pc = "settled" /\ OwnersApart(race.groups)
       /\ race.groups # {} => /\ race.value <=> race.outcome = "ok"
                              /\ ~race.value => race.failed = race.groups

\* dialCandidates groups the addresses of a list by peer: no peer has two groups.
LEMMA OneDialPerPeer ==
    ASSUME NEW addresses PROVE OwnersApart(dialCandidates(addresses))
<1> SUFFICES ASSUME NEW g \in dialCandidates(addresses), NEW k \in dialCandidates(addresses), g # k,
                    NEW p \in {OwnerOf[a] : a \in g}, p \in {OwnerOf[a] : a \in k}
             PROVE  p = Unnamed
  BY DEF OwnersApart
<1>1. PICK a \in g : OwnerOf[a] = p
  OBVIOUS
<1>2. PICK b \in k : OwnerOf[b] = p
  OBVIOUS
<1>3. ASSUME p # Unnamed PROVE FALSE
  <2>1. ASSUME NEW x \in dialCandidates(addresses), NEW y \in x, OwnerOf[y] = p
        PROVE  x = {z \in addresses : OwnerOf[z] = p}
    BY <1>3, <2>1, SMTT(30) DEF dialCandidates
  <2>2. g = {z \in addresses : OwnerOf[z] = p} /\ k = {z \in addresses : OwnerOf[z] = p}
    BY <1>1, <1>2, <2>1
  <2> QED BY <2>2
<1> QED BY <1>3

\* A network node that has not started races no dials.
LEMMA RaceInitHolds == DialInit => RaceInv
BY DEF DialInit, RaceInv

\* safeDial on a list keeps the invariant of the race: when it begins, when one of its dials
\* ends, when its signal aborts and when its caller has the answer.
LEMMA RaceKeeps ==
    ASSUME RaceInv,
           \/ \E l \in Lists : SafeDial(l)
           \/ \E g \in SUBSET Address, r \in Results : RaceStep(g, r)
           \/ RaceAborted \/ CallReturns
    PROVE  RaceInv'
<1>0. NoCall.pc = "idle"
  BY Zenon DEF NoCall
<1>1. CASE \E l \in Lists : SafeDial(l)
  <2>1. PICK l \in Lists : SafeDial(l)
    BY <1>1
  <2>2. OwnersApart({})
    BY DEF OwnersApart
  <2> QED BY <2>1, <2>2, OneDialPerPeer, Zenon DEF SafeDial, RaceInv
<1>2. ASSUME NEW g \in SUBSET Address, NEW r \in Results, RaceStep(g, r) PROVE RaceInv'
  <2>0. race.pc = "racing" /\ OwnersApart(race.groups)
    BY <1>0, <1>2, SMTT(30) DEF RaceStep, RaceInv
  <2>1. CASE race' = Settled("ok", TRUE)
    BY <2>0, <2>1 DEF Settled, RaceInv
  <2>2. CASE race' = [Settled("failed", FALSE) EXCEPT !.failed = race.groups]
    BY <2>0, <2>2 DEF Settled, RaceInv
  <2>3. CASE race' = [race EXCEPT !.failed = @ \cup {g}]
    BY <2>0, <2>3 DEF RaceInv
  <2> QED BY <1>2, <2>1, <2>2, <2>3, Zenon DEF RaceStep
<1>3. CASE RaceAborted
  <2>0. race.pc = "racing" /\ OwnersApart(race.groups)
    BY <1>0, <1>3 DEF RaceAborted, RaceInv
  <2>1. race' = [Settled("failed", FALSE) EXCEPT !.failed = race.groups]
    BY <1>3, Zenon DEF RaceAborted
  <2> QED BY <2>0, <2>1 DEF Settled, RaceInv
<1>4. CASE CallReturns
  BY <1>4, Zenon DEF CallReturns, RaceInv
<1> QED BY <1>1, <1>2, <1>3, <1>4

\* A network node that has not started has no retry loops.
LEMMA LoopsInitHold == DialInit => LoopsInv
<1> SUFFICES ASSUME DialInit PROVE LoopsInv
  OBVIOUS
<1>1. NoLoop \in RetryRecord /\ NoLoop.pc = "none"
  BY DEF NoLoop, RetryRecord
<1>2. DialTypes /\ HostsInOrder
  BY <1>1 DEF DialInit, DialTypes, HostsInOrder, Hosts
<1>3. \A h \in Hosts, a \in BootstrapAddress : retries[h][a] = NoLoop
  BY SMTT(30) DEF DialInit
<1> QED BY <1>1, <1>2, <1>3 DEF LoopsInv, RetriesPersist, AttemptsLeft

\* _dialBootstrapWithRetry for one host and address disturbs no other loop: what is to show
\* concerns the record it leaves behind.
LEMMA LoopKeeps ==
    ASSUME LoopsInv, NEW h \in Hosts, NEW a \in BootstrapAddress, NEW r \in RetryRecord, Retry(h, a, r),
           latest' = latest, hostState' = hostState, retryAborted' = retryAborted,
           AttemptsLeft(r),
           r.pc = "done" /\ h = latest /\ ~retryAborted[h] => r.made \/ r.attempt = RetryDelays + 1
    PROVE  LoopsInv'
<1>0. retries \in [Hosts -> [BootstrapAddress -> RetryRecord]]
  BY DEF LoopsInv, DialTypes
<1>1. retries' \in [Hosts -> [BootstrapAddress -> RetryRecord]] /\ retries'[h][a] = r
  BY <1>0 DEF Retry
<1>2. \A g \in Hosts, b \in BootstrapAddress : g # h \/ b # a => retries'[g][b] = retries[g][b]
  BY <1>0, SMTT(30) DEF Retry
<1>3. DialTypes' /\ HostsInOrder'
  BY <1>1, SMTT(30) DEF LoopsInv, DialTypes, HostsInOrder
<1>4. RetriesPersist'
  <2> SUFFICES ASSUME NEW g \in Hosts, NEW b \in BootstrapAddress,
                      retries'[g][b].pc = "done", g = latest, ~retryAborted[g]
               PROVE  retries'[g][b].made \/ retries'[g][b].attempt = RetryDelays + 1
    BY Zenon DEF RetriesPersist
  <2>1. CASE g = h /\ b = a
    BY <1>1, <2>1, SMTT(30)
  <2>2. CASE g # h \/ b # a
    BY <1>2, <2>2, SMTT(30) DEF LoopsInv, RetriesPersist
  <2> QED BY <2>1, <2>2, ZenonT(60)
<1>5. ASSUME NEW g \in Hosts, NEW b \in BootstrapAddress PROVE AttemptsLeft(retries'[g][b])
  <2>1. CASE g = h /\ b = a
    BY <1>1, <2>1, SMTT(30)
  <2>2. CASE g # h \/ b # a
    BY <1>2, <2>2 DEF LoopsInv
  <2> QED BY <2>1, <2>2
<1> QED BY <1>3, <1>4, <1>5 DEF LoopsInv, AttemptsLeft

\* The check, the dial and the wait of _dialBootstrapWithRetry keep the invariant: the check
\* gives up only with the host, a failed dial only when the waits are used up.
LEMMA RetryKeeps ==
    ASSUME LoopsInv, NEW h \in Hosts, NEW a \in BootstrapAddress, RetryStep(h, a)
    PROVE  LoopsInv'
<1> DEFINE x == retries[h][a]
<1>0. x \in RetryRecord /\ AttemptsLeft(x) /\ retryAborted[h] \in BOOLEAN
  BY DEF LoopsInv, DialTypes
<1>1. latest' = latest /\ hostState' = hostState /\ retryAborted' = retryAborted
  BY DEF RetryStep, RetryCheck, RetryWaitEnds, RetryDialEnds
<1>2. hostState[h] \in {"stopping", "stopped"} => retryAborted[h]
  BY DEF LoopsInv, HostsInOrder
<1>3. CASE RetryCheck(h, a)
  <2>1. CASE GivesUp(h)
    <3> DEFINE r == [x EXCEPT !.pc = "done"]
    <3>1. Retry(h, a, r)
      BY <1>3, <2>1 DEF RetryCheck
    <3>2. r \in RetryRecord /\ AttemptsLeft(r)
      BY <1>0 DEF RetryRecord, AttemptsLeft
    <3>3. ~(h = latest /\ ~retryAborted[h])
      BY <1>2, <2>1, SMTT(30) DEF GivesUp
    <3> HIDE DEF r
    <3> QED BY <1>1, <3>1, <3>2, <3>3, LoopKeeps
  <2>2. CASE ~GivesUp(h)
    <3> DEFINE r == [x EXCEPT !.pc = "dialing", !.attempt = @ + 1]
    <3>1. Retry(h, a, r) /\ x.pc = "check"
      BY <1>3, <2>2, SMTT(30) DEF RetryCheck
    <3>2. r \in RetryRecord /\ AttemptsLeft(r) /\ r.pc = "dialing"
      <4>1. r = [pc |-> "dialing", attempt |-> x.attempt + 1, made |-> x.made]
        <5> DEFINE y == [x EXCEPT !.pc = "dialing"]
        <5>1. y = [pc |-> "dialing", attempt |-> x.attempt, made |-> x.made]
          <6> HIDE DEF x
          <6> QED BY <1>0 DEF RetryRecord
        <5>2. r = [y EXCEPT !.attempt = x.attempt + 1]
          OBVIOUS
        <5> HIDE DEF x, y, r
        <5> QED BY <5>1, <5>2
      <4>2. x.attempt \in Nat /\ x.made \in BOOLEAN /\ x.attempt <= RetryDelays
        BY <1>0, <3>1, Zenon DEF RetryRecord, AttemptsLeft
      <4> HIDE DEF r, x
      <4> QED BY <4>1, <4>2, DialAssumption DEF RetryRecord, AttemptsLeft
    <3> HIDE DEF r
    <3> QED BY <1>1, <3>1, <3>2, LoopKeeps
  <2> QED BY <2>1, <2>2
<1>4. CASE RetryWaitEnds(h, a)
  <2> DEFINE r == [x EXCEPT !.pc = "check"]
  <2>1. Retry(h, a, r) /\ x.pc = "waiting"
    BY <1>4 DEF RetryWaitEnds
  <2>2. r \in RetryRecord /\ AttemptsLeft(r) /\ r.pc = "check"
    BY <1>0, <2>1 DEF RetryRecord, AttemptsLeft
  <2> HIDE DEF r
  <2> QED BY <1>1, <2>1, <2>2, LoopKeeps, Zenon
<1>5. ASSUME NEW result \in Results, RetryDialEnds(h, a, result) PROVE LoopsInv'
  <2>0. x.pc = "dialing"
    BY <1>5 DEF RetryDialEnds
  <2>1. CASE result = "ok"
    <3> DEFINE r == [x EXCEPT !.pc = "done", !.made = TRUE]
    <3>1. Retry(h, a, r)
      BY <1>5, <2>1 DEF RetryDialEnds
    <3>2. r \in RetryRecord /\ AttemptsLeft(r) /\ r.made
      BY <1>0, Zenon DEF RetryRecord, AttemptsLeft
    <3> HIDE DEF r
    <3> QED BY <1>1, <3>1, <3>2, LoopKeeps
  <2>2. CASE result # "ok"
    <3> DEFINE r == [x EXCEPT !.pc = IF MoreDelays(x.attempt) THEN "waiting" ELSE "done"]
    <3>1. Retry(h, a, r)
      BY <1>5, <2>2 DEF RetryDialEnds
    <3>2. /\ r \in RetryRecord /\ AttemptsLeft(r)
          /\ r.pc = "done" => r.attempt = RetryDelays + 1
      BY <1>0, <2>0, DialAssumption DEF RetryRecord, AttemptsLeft, MoreDelays
    <3> HIDE DEF r
    <3> QED BY <1>1, <3>1, <3>2, LoopKeeps
  <2> QED BY <2>1, <2>2
<1> QED BY <1>3, <1>4, <1>5 DEF RetryStep

\* start, both halves of stop, and a start after it keep the invariant: the loops of a new
\* host are its own, and those of the one before were aborted.
LEMMA HostsKeep ==
    ASSUME LoopsInv,
           \/ \E seed \in BOOLEAN : HostStarts(seed)
           \/ RetriesStop \/ HostStopping \/ \E h \in Hosts : HostStopped(h)
    PROVE  LoopsInv'
<1>0. /\ latest \in Hosts \cup {NoHost}
      /\ hostState \in [Hosts -> {"absent", "started", "stopping", "stopped"}]
      /\ retryAborted \in [Hosts -> BOOLEAN]
      /\ retries \in [Hosts -> [BootstrapAddress -> RetryRecord]]
  BY SMTT(30) DEF LoopsInv, DialTypes
<1>1. /\ \A h \in Hosts : hostState[h] \in {"stopping", "stopped"} => retryAborted[h]
      /\ latest # NoHost => hostState[latest] # "absent"
      /\ RetriesPersist
      /\ \A h \in Hosts, a \in BootstrapAddress : AttemptsLeft(retries[h][a])
  BY SMTT(30) DEF LoopsInv, HostsInOrder
<1>2. ASSUME NEW seed \in BOOLEAN, HostStarts(seed) PROVE LoopsInv'
  <2> DEFINE h == latest + 1
             r == IF seed THEN NoLoop ELSE [NoLoop EXCEPT !.pc = "check"]
  <2>1. /\ h \in Hosts /\ latest' = h /\ hostState' = [hostState EXCEPT ![h] = "started"]
        /\ retries' = [retries EXCEPT ![h] = [a \in BootstrapAddress |-> r]]
        /\ retryAborted' = [g \in Hosts |-> retryAborted[g] \/ (~seed /\ g < h)]
    BY <1>2 DEF HostStarts
  <2>2. r \in RetryRecord /\ AttemptsLeft(r) /\ r.pc # "done"
    <3>1. r = [pc |-> IF seed THEN "none" ELSE "check", attempt |-> 0, made |-> FALSE]
      BY Zenon DEF NoLoop
    <3> HIDE DEF r
    <3> QED BY <3>1, DialAssumption DEF RetryRecord, AttemptsLeft
  <2>3. h # NoHost
    BY <1>0 DEF Hosts, NoHost
  <2> HIDE DEF h, r
  <2>4. /\ retries' \in [Hosts -> [BootstrapAddress -> RetryRecord]]
        /\ \A a \in BootstrapAddress : retries'[h][a] = r
        /\ \A g \in Hosts \ {h} : retries'[g] = retries[g]
    BY <1>0, <2>1, <2>2, SMTT(30)
  <2>5. \A g \in Hosts : retryAborted[g] => retryAborted'[g]
    BY <1>0, <2>1, SMTT(30)
  <2>6. retryAborted' \in [Hosts -> BOOLEAN]
    BY <1>0, <2>1
  <2>7. /\ hostState' \in [Hosts -> {"absent", "started", "stopping", "stopped"}]
        /\ hostState'[h] = "started" /\ \A g \in Hosts \ {h} : hostState'[g] = hostState[g]
    BY <1>0, <2>1, SMTT(30)
  <2>8. DialTypes' /\ HostsInOrder'
    BY <1>1, <2>1, <2>4, <2>5, <2>6, <2>7, SMTT(30) DEF DialTypes, HostsInOrder
  <2>9. RetriesPersist'
    BY <2>1, <2>2, <2>4, SMTT(30) DEF RetriesPersist
  <2>10. \A g \in Hosts, a \in BootstrapAddress : AttemptsLeft(retries'[g][a])
    BY <1>1, <2>2, <2>4, ZenonT(60)
  <2> QED BY <2>8, <2>9, <2>10 DEF LoopsInv, AttemptsLeft
<1>3. CASE RetriesStop
  <2>1. /\ latest' = latest /\ hostState' = hostState /\ retries' = retries
        /\ retryAborted' = [retryAborted EXCEPT ![latest] = TRUE]
    BY <1>3 DEF RetriesStop
  <2>2. retryAborted' \in [Hosts -> BOOLEAN] /\ \A g \in Hosts : retryAborted[g] => retryAborted'[g]
    BY <1>0, <2>1, ZenonT(60)
  <2>3. DialTypes' /\ HostsInOrder'
    BY <1>0, <1>1, <2>1, <2>2, SMTT(30) DEF DialTypes, HostsInOrder
  <2>4. RetriesPersist'
    BY <1>1, <2>1, <2>2, ZenonT(60) DEF RetriesPersist
  <2> QED BY <1>1, <2>1, <2>3, <2>4, Zenon DEF LoopsInv, AttemptsLeft
<1>4. CASE HostStopping \/ \E h \in Hosts : HostStopped(h)
  <2>1. PICK h \in Hosts, st \in {"stopping", "stopped"} :
          /\ retryAborted[h]
          /\ latest' = latest /\ hostState' = [hostState EXCEPT ![h] = st]
          /\ retries' = retries /\ retryAborted' = retryAborted
    BY <1>0, <1>1, <1>4, SMTT(30) DEF HostStopping, HostStopped
  <2>2. DialTypes' /\ HostsInOrder'
    BY <1>0, <1>1, <2>1, SMTT(30) DEF DialTypes, HostsInOrder
  <2>3. RetriesPersist'
    BY <1>1, <2>1, SMTT(30) DEF RetriesPersist
  <2> QED BY <1>1, <2>1, <2>2, <2>3, ZenonT(60) DEF LoopsInv, AttemptsLeft
<1> QED BY <1>2, <1>3, <1>4

\* A step of a race, a hang-up or a dial that lost its race leaves the loops alone.
LEMMA LoopsFramed ==
    ASSUME LoopsInv, UNCHANGED <<latest, hostState, retryAborted, retries>>
    PROVE  LoopsInv'
BY SMTT(30) DEF LoopsInv, DialTypes, HostsInOrder, RetriesPersist, AttemptsLeft

\* A step of a host, of a retry loop or of a connection leaves the race alone.
LEMMA RaceFramed ==
    ASSUME RaceInv, race' = race
    PROVE  RaceInv'
BY DEF RaceInv

\* The inductive invariant of the dials.
DialInv == LoopsInv /\ RaceInv

\* Every step of the network node keeps it.
LEMMA DialKeeps == DialInv /\ [DialNext]_dialVars => DialInv'
<1> SUFFICES ASSUME DialInv, [DialNext]_dialVars PROVE DialInv'
  OBVIOUS
<1>0. LoopsInv /\ RaceInv
  BY DEF DialInv
<1>1. CASE \/ \E seed \in BOOLEAN : HostStarts(seed)
           \/ RetriesStop \/ HostStopping \/ \E h \in Hosts : HostStopped(h)
  <2>1. race' = race
    BY <1>1 DEF HostStarts, RetriesStop, HostStopping, HostStopped
  <2> QED BY <1>0, <1>1, <2>1, HostsKeep, RaceFramed DEF DialInv
<1>2. CASE \/ \E l \in Lists : SafeDial(l)
           \/ \E g \in SUBSET Address, r \in Results : RaceStep(g, r)
           \/ RaceAborted \/ CallReturns
  <2>1. UNCHANGED <<latest, hostState, retryAborted, retries>>
    BY <1>2, Zenon DEF SafeDial, RaceStep, RaceAborted, CallReturns
  <2> QED BY <1>0, <1>2, <2>1, RaceKeeps, LoopsFramed DEF DialInv
<1>3. CASE \/ \E s \in stray, r \in Results : StrayEnds(s, r)
           \/ \E c \in links : HangUp(c)
           \/ UNCHANGED dialVars
  <2>1. UNCHANGED <<latest, hostState, retryAborted, retries, race>>
    BY <1>3 DEF StrayEnds, HangUp, dialVars
  <2> QED BY <1>0, <2>1, RaceFramed, LoopsFramed, SMTT(30) DEF DialInv
<1>4. CASE \E h \in Hosts, a \in BootstrapAddress : RetryStep(h, a)
  <2>1. race' = race
    BY <1>4 DEF RetryStep, RetryCheck, RetryWaitEnds, RetryDialEnds
  <2> QED BY <1>0, <1>4, <2>1, RetryKeeps, RaceFramed DEF DialInv
<1> QED BY <1>1, <1>2, <1>3, <1>4 DEF DialNext

\* Only the check at the head of an attempt of _dialBootstrapWithRetry begins a dial, and it
\* found the host current, running and not asked to stop.
LEMMA DialBegins ==
    ASSUME DialInv, [DialNext]_dialVars, NEW h \in Hosts, NEW a \in BootstrapAddress,
           retries[h][a].pc # "dialing", retries'[h][a].pc = "dialing"
    PROVE  h = latest /\ hostState[h] = "started" /\ ~retryAborted[h]
<1>0. /\ retries \in [Hosts -> [BootstrapAddress -> RetryRecord]]
      /\ hostState \in [Hosts -> {"absent", "started", "stopping", "stopped"}]
      /\ latest # NoHost => hostState[latest] # "absent"
  BY Zenon DEF DialInv, LoopsInv, DialTypes, HostsInOrder
<1>1. CASE retries' = retries
  BY <1>1
<1>2. ASSUME NEW seed \in BOOLEAN, HostStarts(seed) PROVE FALSE
  <2>1. retries' = [retries EXCEPT ![latest + 1] = [b \in BootstrapAddress |->
                       IF seed THEN NoLoop ELSE [NoLoop EXCEPT !.pc = "check"]]]
    BY <1>2 DEF HostStarts
  <2>2. (IF seed THEN NoLoop ELSE [NoLoop EXCEPT !.pc = "check"]).pc # "dialing"
    BY SMTT(30) DEF NoLoop
  <2> QED BY <1>0, <2>1, <2>2
<1>3. ASSUME NEW g \in Hosts, NEW b \in BootstrapAddress, RetryStep(g, b)
      PROVE  h = latest /\ hostState[h] = "started" /\ ~retryAborted[h]
  <2>0. retries[g][b] \in RetryRecord
    BY <1>0, Zenon
  <2>1. PICK r : Retry(g, b, r) /\ (r.pc = "dialing" => ~GivesUp(g))
    <3>1. CASE RetryCheck(g, b)
      <4>1. [retries[g][b] EXCEPT !.pc = "done"].pc = "done"
        BY <2>0 DEF RetryRecord
      <4> QED BY <3>1, <4>1, Zenon DEF RetryCheck
    <3>2. CASE RetryWaitEnds(g, b)
      <4>1. [retries[g][b] EXCEPT !.pc = "check"].pc = "check"
        BY <2>0 DEF RetryRecord
      <4> QED BY <3>2, <4>1, Zenon DEF RetryWaitEnds
    <3>3. ASSUME NEW result \in Results, RetryDialEnds(g, b, result) PROVE \E r : Retry(g, b, r) /\ (r.pc = "dialing" => ~GivesUp(g))
      <4>1. /\ [retries[g][b] EXCEPT !.pc = "done", !.made = TRUE].pc = "done"
            /\ [retries[g][b] EXCEPT !.pc = IF MoreDelays(retries[g][b].attempt) THEN "waiting" ELSE "done"].pc # "dialing"
        BY <2>0 DEF RetryRecord
      <4> QED BY <3>3, <4>1, Zenon DEF RetryDialEnds
    <3> QED BY <1>3, <3>1, <3>2, <3>3, Zenon DEF RetryStep
  <2>2. g = h /\ b = a /\ retries'[h][a] = r
    BY <1>0, <2>1, SMTT(30) DEF Retry
  <2>3. ~GivesUp(h)
    BY <2>1, <2>2, SMTT(30)
  <2>4. latest # NoHost
    BY <2>3 DEF GivesUp, Hosts, NoHost
  <2> QED BY <1>0, <2>3, <2>4 DEF GivesUp
<1>4. CASE \/ RetriesStop \/ HostStopping \/ RaceAborted \/ CallReturns
           \/ \E g \in Hosts : HostStopped(g)
           \/ \E l \in Lists : SafeDial(l)
           \/ \E r \in Results : (\E g \in SUBSET Address : RaceStep(g, r)) \/ (\E s \in stray : StrayEnds(s, r))
           \/ \E c \in links : HangUp(c)
           \/ UNCHANGED dialVars
  <2>1. retries' = retries
    BY <1>4, Zenon DEF RetriesStop, HostStopping, HostStopped, RaceAborted, CallReturns, SafeDial, RaceStep, StrayEnds,
                HangUp, dialVars
  <2> QED BY <1>1, <2>1
<1> QED BY <1>2, <1>3, <1>4, Zenon DEF DialNext

\* What safeDial says of a race of dials is true, and a loop of _dialBootstrapWithRetry dials
\* on the current host only and ends early only with it, whatever starts, stops, aborts and
\* late dials come between.
THEOREM AlwaysDialsAreSound == DialSpec => DialsAreSound
<1>1. DialInit => DialInv
  BY LoopsInitHold, RaceInitHolds DEF DialInv
<1>2. DialInv /\ [DialNext]_dialVars => DialInv'
  BY DialKeeps, SMTT(30)
<1>3. DialInv => RaceIsTruthful /\ RetriesPersist
  <2>1. NoCall.pc = "idle"
    BY DEF NoCall
  <2> QED BY <2>1 DEF DialInv, LoopsInv, RaceInv, RaceIsTruthful, OwnersApart
<1>4. DialInv /\ [DialNext]_dialVars => [RetriesOnLiveHost]_dialVars
  BY DialBegins, Zenon DEF RetriesOnLiveHost
<1> QED BY <1>1, <1>2, <1>3, <1>4, PTL DEF DialSpec, DialsAreSound

-------------------------------------------------------------------------------
(* Proof of OneSearch and MisledNeverDialled, for any number of calls and records. *)

\* What _connectObjectCreator knows of one search.
SearchRecord == [at : {"new", "target", "target dial", "room", "room dial", "over"}, aborted : BOOLEAN,
                 tried : SUBSET AddressSet, count : Nat, misled : SUBSET AddressSet, dialled : SUBSET AddressSet]

\* What was dialled or was misleading is among dialedAddressSets, and is not both.
TriedFirst(x) == x.misled \subseteq x.tried /\ x.dialled \subseteq x.tried /\ x.misled \cap x.dialled = {}

\* The inductive invariant.
SearchInv ==
  /\ search \in [Call -> SearchRecord] /\ OneSearch
  /\ \A c \in Call : TriedFirst(search[c])

\* A step of one search disturbs no other, as long as the controller of another stays in
\* _connectRendezvousControllers.
LEMMA SearchStepKeeps ==
    ASSUME SearchInv, NEW c \in Call, NEW x \in SearchRecord, search' = [search EXCEPT ![c] = x], TriedFirst(x),
           x.at \in {"new", "over"} \/ x.aborted \/ registered' = c,
           \A d \in Call \ {c} : registered = d => registered' = d
    PROVE  SearchInv'
<1>1. search' \in [Call -> SearchRecord] /\ search'[c] = x /\ \A d \in Call \ {c} : search'[d] = search[d]
  BY DEF SearchInv
<1>2. \A d \in Call : TriedFirst(search'[d])
  BY <1>1 DEF SearchInv
<1>3. OneSearch'
  <2> SUFFICES ASSUME NEW d \in Call, search'[d].at \notin {"new", "over"}, ~search'[d].aborted
               PROVE  registered' = d
    BY DEF OneSearch, Running
  <2>1. CASE d = c
    BY <1>1, <2>1
  <2>2. CASE d # c
    BY <1>1, <2>2 DEF SearchInv, OneSearch, Running
  <2> QED BY <2>1, <2>2
<1> QED BY <1>1, <1>2, <1>3, Zenon DEF SearchInv, TriedFirst

\* The finally of _connectObjectCreator takes out its own controller and no later one.
LEMMA OverKeeps ==
    ASSUME SearchInv, NEW c \in Call, Over(c)
    PROVE  SearchInv'
<1> DEFINE x == [search[c] EXCEPT !.at = "over"]
<1>1. search[c] \in SearchRecord /\ TriedFirst(search[c])
  BY DEF SearchInv
<1>2. x \in SearchRecord /\ TriedFirst(x) /\ x.at = "over"
  BY <1>1 DEF SearchRecord, TriedFirst
<1>3. search' = [search EXCEPT ![c] = x]
  BY DEF Over, SearchInv
<1>4. \A d \in Call \ {c} : registered = d => registered' = d
  BY DEF Over, Release
<1> HIDE DEF x
<1> QED BY <1>2, <1>3, <1>4, SearchStepKeeps, Zenon

\* Once the registered search is aborted no search runs that is not, whoever is registered
\* next.
LEMMA AbortKeeps ==
    ASSUME SearchInv
    PROVE  /\ Aborted \in [Call -> SearchRecord]
           /\ \A c \in Call : TriedFirst(Aborted[c]) /\ Aborted[c].at = search[c].at
           /\ \A c \in Call : Aborted[c].at \in {"new", "over"} \/ Aborted[c].aborted
<1>1. ASSUME NEW c \in Call
      PROVE  /\ Aborted[c] \in SearchRecord /\ TriedFirst(Aborted[c]) /\ Aborted[c].at = search[c].at
             /\ Aborted[c].at \in {"new", "over"} \/ Aborted[c].aborted
  <2>1. search[c] \in SearchRecord /\ TriedFirst(search[c])
    BY DEF SearchInv
  <2>2. CASE c = registered
    <3>1. Aborted[c] = [search[c] EXCEPT !.aborted = TRUE]
      BY <2>2, SMTT(30) DEF Aborted
    <3> QED BY <2>1, <3>1 DEF SearchRecord, TriedFirst
  <2>3. CASE c # registered
    <3>1. Aborted[c] = search[c]
      BY <2>3 DEF Aborted
    <3> QED BY <2>1, <2>3, <3>1 DEF SearchInv, OneSearch, Running, SearchRecord
  <2> QED BY <2>2, <2>3
<1>2. Aborted = [c \in Call |-> Aborted[c]]
  BY DEF Aborted
<1> QED BY <1>1, <1>2, SMTT(30)

\* connectObject begins a search in place of the registered one, which it aborts.
LEMMA BeginKeeps ==
    ASSUME SearchInv, NEW c \in Call, Begin(c)
    PROVE  SearchInv'
<1> DEFINE A == Aborted
<1>1. /\ A \in [Call -> SearchRecord]
      /\ \A d \in Call : TriedFirst(A[d]) /\ A[d].at = search[d].at
      /\ \A d \in Call : A[d].at \in {"new", "over"} \/ A[d].aborted
  BY AbortKeeps
<1> HIDE DEF A
<1>2. PICK at \in {"over", "target", "room"} :
        /\ search' = [A EXCEPT ![c].at = at]
        /\ at # "over" => registered' = c
  BY DEF Begin, A
<1>3. [A[c] EXCEPT !.at = at] \in SearchRecord /\ TriedFirst([A[c] EXCEPT !.at = at]) /\ [A[c] EXCEPT !.at = at].at = at
  BY <1>1, ZenonT(60) DEF SearchRecord, TriedFirst
<1>4. /\ search' \in [Call -> SearchRecord] /\ search'[c] = [A[c] EXCEPT !.at = at]
      /\ \A d \in Call \ {c} : search'[d] = A[d]
  BY <1>1, <1>2, <1>3
<1>5. \A d \in Call : TriedFirst(search'[d])
  BY <1>1, <1>3, <1>4
<1>6. OneSearch'
  BY <1>1, <1>2, <1>3, <1>4 DEF OneSearch, Running
<1> QED BY <1>4, <1>5, <1>6, SMTT(30) DEF SearchInv, TriedFirst

\* unsubscribeObject and stop abort the registered search and leave none.
LEMMA AbortsKeep ==
    ASSUME SearchInv, Unsubscribe \/ DirectoryStops
    PROVE  SearchInv'
<1>1. search' = Aborted
  BY DEF Unsubscribe, DirectoryStops
<1> QED BY <1>1, AbortKeeps DEF SearchInv, OneSearch, Running, TriedFirst

\* The records, the dials and the end of one search of _connectObjectCreator keep the
\* invariant: a dial adds to dialedAddressSets what was not in it.
LEMMA OneSearchKeeps ==
    ASSUME SearchInv, NEW c \in Call,
           \/ TargetDialled(c) \/ TargetEnds(c) \/ RoomDialled(c) \/ RoomEnds(c)
           \/ \E a \in AddressSet : RoomRecord(c, a) \/ \E own \in BOOLEAN : TargetRecord(c, own, a)
    PROVE  SearchInv'
<1>0. search[c] \in SearchRecord /\ TriedFirst(search[c]) /\ search \in [Call -> SearchRecord]
  BY DEF SearchInv
<1>1. search[c].at \notin {"new", "over"} /\ ~search[c].aborted => registered = c
  BY DEF SearchInv, OneSearch, Running
<1>2. CASE Over(c)
  BY <1>2, OverKeeps
<1>3. ASSUME NEW at \in {"target", "room"}, search' = [search EXCEPT ![c].at = at], registered' = registered,
             ~search[c].aborted, search[c].at \notin {"new", "over"}
      PROVE  SearchInv'
  <2> DEFINE x == [search[c] EXCEPT !.at = at]
  <2>1. x \in SearchRecord /\ TriedFirst(x)
    BY <1>0 DEF SearchRecord, TriedFirst
  <2>2. search' = [search EXCEPT ![c] = x]
    BY <1>3
  <2> HIDE DEF x
  <2> QED BY <1>1, <1>3, <2>1, <2>2, SearchStepKeeps, Zenon
<1>4. ASSUME NEW a \in AddressSet, NEW own \in BOOLEAN, TargetRecord(c, own, a) PROVE SearchInv'
  <2>1. CASE Misdirected(c, a) /\ registered' = registered /\ search[c].at = "target"
    <3> DEFINE x == [search[c] EXCEPT !.tried = @ \cup {a},
                                      !.misled = IF a \in search[c].tried THEN @ ELSE @ \cup {a}]
    <3>1. search' = [search EXCEPT ![c] = x]
      BY <2>1 DEF Misdirected
    <3>2. x \in SearchRecord /\ TriedFirst(x) /\ x.at = search[c].at /\ x.aborted = search[c].aborted
      BY <1>0, Zenon DEF SearchRecord, TriedFirst
    <3> HIDE DEF x
    <3> QED BY <1>0, <1>1, <2>1, <3>1, <3>2, SearchStepKeeps DEF SearchRecord
  <2>2. CASE Dial(c, a, "target dial") /\ a \notin search[c].tried /\ registered' = registered
             /\ search[c].at = "target" /\ ~search[c].aborted
    <3> DEFINE x == [search[c] EXCEPT !.at = "target dial", !.tried = @ \cup {a}, !.dialled = @ \cup {a}]
    <3>1. search' = [search EXCEPT ![c] = x]
      BY <2>2 DEF Dial
    <3>2. x \in SearchRecord /\ TriedFirst(x)
      BY <1>0, <2>2, Zenon DEF SearchRecord, TriedFirst
    <3> HIDE DEF x
    <3> QED BY <1>1, <2>2, <3>1, <3>2, SearchStepKeeps, Zenon
  <2> QED BY <1>2, <1>4, <2>1, <2>2, Zenon DEF TargetRecord
<1>5. ASSUME NEW a \in AddressSet, RoomRecord(c, a) PROVE SearchInv'
  <2>1. CASE /\ search' = [search EXCEPT ![c] = [search[c] EXCEPT !.at = "room dial", !.tried = @ \cup {a},
                                                     !.dialled = @ \cup {a}, !.count = @ + 1]]
             /\ a \notin search[c].tried /\ registered' = registered /\ search[c].at = "room" /\ ~search[c].aborted
    <3> DEFINE x == [search[c] EXCEPT !.at = "room dial", !.tried = @ \cup {a}, !.dialled = @ \cup {a}, !.count = @ + 1]
    <3>1. search' = [search EXCEPT ![c] = x]
      BY <2>1
    <3>2. x \in SearchRecord /\ TriedFirst(x)
      <4> DEFINE y == [search[c] EXCEPT !.at = "room dial", !.tried = @ \cup {a}, !.dialled = @ \cup {a}]
      <4>1. y \in SearchRecord /\ TriedFirst(y)
        BY <1>0, <2>1, ZenonT(60) DEF SearchRecord, TriedFirst
      <4>2. x = [y EXCEPT !.count = search[c].count + 1]
        OBVIOUS
      <4>3. search[c].count + 1 \in Nat
        <5>1. search[c].count \in Nat
          BY <1>0 DEF SearchRecord
        <5>2. \A m \in Nat : m + 1 \in Nat
          OBVIOUS
        <5> QED BY <5>1, <5>2, Zenon
      <4> DEFINE n == search[c].count + 1
      <4> HIDE DEF n, y
      <4>4. [y EXCEPT !.count = n] \in SearchRecord /\ TriedFirst([y EXCEPT !.count = n])
        <5>1. n \in Nat
          BY <4>3 DEF n
        <5> QED BY <4>1, <5>1, ZenonT(60) DEF SearchRecord, TriedFirst
      <4> HIDE DEF x
      <4>5. x = [y EXCEPT !.count = n]
        BY <4>2 DEF n
      <4> QED BY <4>4, <4>5
    <3> HIDE DEF x
    <3> QED BY <1>1, <2>1, <3>1, <3>2, SearchStepKeeps, Zenon
  <2> QED BY <1>2, <1>5, <2>1, Zenon DEF RoomRecord
<1>6. CASE TargetDialled(c) \/ RoomDialled(c)
  BY <1>2, <1>3, <1>6 DEF TargetDialled, RoomDialled
<1>7. CASE TargetEnds(c) \/ RoomEnds(c)
  BY <1>2, <1>3, <1>7 DEF TargetEnds, RoomEnds
<1> QED BY <1>4, <1>5, <1>6, <1>7

\* Of one object at most one search for its creator runs that is not aborted, and that one
\* connectObject, unsubscribeObject or stop can abort; none dials an address set that it
\* first met under another peer (_connectObjectCreator).
THEOREM AlwaysOneSearch == SearchSpec => [](OneSearch /\ MisledNeverDialled)
<1>1. SearchInit => SearchInv
  <2> SUFFICES ASSUME SearchInit PROVE SearchInv
    OBVIOUS
  <2>1. NewSearch \in SearchRecord /\ TriedFirst(NewSearch) /\ NewSearch.at = "new"
    BY Zenon DEF NewSearch, SearchRecord, TriedFirst
  <2> QED BY <2>1, SMTT(30) DEF SearchInit, SearchInv, OneSearch, Running, TriedFirst
<1>2. SearchInv /\ [SearchNext]_searchVars => SearchInv'
  <2> SUFFICES ASSUME SearchInv, [SearchNext]_searchVars PROVE SearchInv'
    OBVIOUS
  <2>1. CASE search' = search /\ registered' = registered
    BY <2>1 DEF SearchInv, OneSearch, Running, TriedFirst
  <2>2. CASE DirectoryStarts \/ ConnectionLost \/ UNCHANGED searchVars
    BY <2>1, <2>2, SMTT(30) DEF DirectoryStarts, ConnectionLost, searchVars
  <2> QED BY <2>2, AbortsKeep, BeginKeeps, OneSearchKeeps, SMTT(30) DEF SearchNext
<1>3. SearchInv => OneSearch /\ MisledNeverDialled
  BY DEF SearchInv, MisledNeverDialled, TriedFirst
<1> QED BY <1>1, <1>2, <1>3, PTL DEF SearchSpec
=============================================================================
