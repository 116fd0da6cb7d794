---------------------------- MODULE NetworkNode ----------------------------
(***************************************************************************)
(* The life cycle of DRPNetworkNode (packages/network/src/node.ts): start, *)
(* stop, and the relay-policy driver with its initial acquisition, warm    *)
(* retries, refresh timer, disconnect listener and maintenance chain.      *)
(*                                                                         *)
(* A relay policy is numbered in creation order, and its AbortController   *)
(* carries the same number because the two are always created and dropped  *)
(* together.  What a policy does inside an operation is the business of    *)
(* RelayPolicy; here an operation waits for its turn, reserves any relays  *)
(* up to the target, and returns or throws.  All reservations of a policy  *)
(* share one expiry, so a refresh concerns all of them.  Lifecycle calls   *)
(* come one after the other, as DRPNode makes them.                        *)
(***************************************************************************)
EXTENDS Naturals, Sequences, FiniteSets

CONSTANTS
    Relay,          \* relay peers a policy may reserve with
    Target,         \* target_reservations
    NodeClosest,    \* _nodeClosestPeersEnabled(): the warm listener is armed
    MaxStarts,      \* bound: start() calls
    MaxPolicies,    \* bound: policies built
    MaxRuns,        \* bound: _runInitialRelayAcquire calls
    MaxCalls,       \* bound: retry calls parked at once, and replaceRelay calls
    MaxWarm,        \* WARM_RELAY_RETRY_MAX_ATTEMPTS
    MaxFaults       \* bound: disconnects, rejected operations, failed clean-ups

VARIABLES
    life,       \* host status; stopping is split at the awaits of stop()
    stopWaits,  \* the policy stop() is waiting for, 0 for none
    gen,        \* starts so far: the identity of the current host
    pol,        \* state of each policy
    chain,      \* calls waiting on each policy's serial chain, head first
    begun,      \* whether the head of the chain is running
    active,     \* reservations each policy holds
    aborted,    \* policies whose controller has been aborted
    cur,        \* _relayPolicy and _relayPolicyController, 0 when undefined
    failed,     \* _relayPolicyFailed
    last,       \* terminal of _lastRelayPolicyResult
    runs,       \* _runInitialRelayAcquire calls
    acq,        \* the run _relayPolicyAcquirePromise stands for, 0 if resolved
    parked,     \* retryRelayPolicyAcquisition calls and the run each awaits
    watch,      \* _reservedRelayPeerIds
    timer,      \* policy the refresh timer is armed for, 0 for none
    tail,       \* _relayMaintenanceTail
    listener,   \* policy of _relayDisconnectListener, 0 for none
    warm,       \* policy of _warmRelayIdentifyListener, 0 for none
    warmTimer,  \* policy the warm retry timer is armed for, 0 for none
    warmTries,  \* _warmRelayRetryAttempts
    conn,       \* relays the host is connected to
    calls,      \* replaceRelay calls made
    faults      \* disconnects, rejections and failed clean-ups so far

host == <<life, stopWaits, gen>>
policies == <<pol, chain, begun, active, aborted>>
driver == <<cur, failed, last, runs, acq, parked>>
maintenance == <<watch, timer, tail, listener, warm, warmTimer, warmTries>>
vars == <<host, policies, driver, maintenance, conn, calls, faults>>

Policies == 1 .. MaxPolicies

\* Who called a policy operation: an acquire run, the maintenance chain, or
\* replaceRelay on behalf of the recovery coordinator.
Call(by, id, kind, r) == [by |-> by, id |-> id, kind |-> kind, relay |-> r]
NoRelay == "none"

Init ==
    /\ life = "stopped" /\ stopWaits = 0 /\ gen = 0
    /\ pol = [p \in Policies |-> "unborn"]
    /\ chain = [p \in Policies |-> << >>]
    /\ begun = [p \in Policies |-> FALSE]
    /\ active = [p \in Policies |-> {}]
    /\ aborted = {}
    /\ cur = 0 /\ failed = FALSE /\ last = "none"
    /\ runs = << >> /\ acq = 0 /\ parked = << >>
    /\ watch = {} /\ timer = 0 /\ tail = << >>
    /\ listener = 0 /\ warm = 0 /\ warmTimer = 0 /\ warmTries = 0
    /\ conn = {} /\ calls = 0 /\ faults = 0

-----------------------------------------------------------------------------
(* The driver. *)

\* _runInitialRelayAcquire(p), up to its await.
RunAcquire(p, ch) ==
    /\ Len(runs) < MaxRuns
    /\ runs' = Append(runs, [pol |-> p, pc |-> "acquiring"])
    /\ acq' = Len(runs) + 1
    /\ chain' = [ch EXCEPT ![p] = Append(@, Call("run", Len(runs) + 1, "acquire", NoRelay))]

\* _startRelayPolicy, with _armWarmRelayAcquisition.
StartRelayPolicy ==
    LET p == 1 + Cardinality({q \in Policies : pol[q] # "unborn"}) IN
    /\ p \in Policies
    /\ pol' = [pol EXCEPT ![p] = "live"]
    /\ cur' = p
    /\ aborted' = aborted \cup ({cur} \ {0})
    /\ listener' = p
    /\ IF NodeClosest THEN warm' = p /\ warmTries' = 0 ELSE UNCHANGED <<warm, warmTries>>
    /\ last' = "none" /\ failed' = FALSE
    /\ RunAcquire(p, chain)
    /\ UNCHANGED <<begun, active, watch, timer, tail, warmTimer>>

\* As ClearRelayMaintenance, but the warm retry timer is forgotten.
ClearKeepsWarmTimer ==
    /\ timer' = 0 /\ watch' = {} /\ listener' = 0
    /\ warmTimer' = warmTimer /\ warm' = 0 /\ warmTries' = 0

\* _clearRelayMaintenance.
ClearRelayMaintenance ==
    /\ timer' = 0 /\ watch' = {} /\ listener' = 0
    /\ warmTimer' = 0 /\ warm' = 0 /\ warmTries' = 0

Stale(p) == p \in aborted \/ cur # p

\* _handleRelayPolicyResult with _scheduleRelayRefresh.
HandleRelayPolicyResult(p) ==
    IF Stale(p) THEN UNCHANGED <<last, watch, failed, timer>>
    ELSE /\ last' = IF Cardinality(active[p]) >= Target THEN "reserved" ELSE "short"
         /\ watch' = active[p]
         /\ failed' = (last' # "reserved")
         /\ timer' = IF active[p] = {} THEN 0 ELSE p

\* The catch block of _runInitialRelayAcquire, up to "await policy.stop()".
Teardown(p) ==
    /\ failed' = TRUE
    /\ aborted' = aborted \cup {p}
    /\ pol' = [pol EXCEPT ![p] = "stopping"]
    /\ ClearRelayMaintenance

-----------------------------------------------------------------------------
(* Operations on a policy's serial chain. *)

Head0(p) == Head(chain[p])

\* An operation gets its turn on a running policy: replace drops the lost
\* relay, refresh renews some reservations and drops the refused ones.
OpBegin(p) ==
    /\ chain[p] # << >> /\ ~begun[p] /\ pol[p] = "live"
    /\ begun' = [begun EXCEPT ![p] = TRUE]
    /\ CASE Head0(p).kind = "acquire" -> UNCHANGED <<active, conn>>
         [] Head0(p).kind = "replace" ->
              /\ active' = [active EXCEPT ![p] = @ \ {Head0(p).relay}]
              /\ UNCHANGED conn
         [] Head0(p).kind = "refresh" ->
              \E kept \in SUBSET active[p] :
                 /\ active' = [active EXCEPT ![p] = kept]
                 /\ conn' = conn \cup kept
    /\ UNCHANGED <<host, pol, chain, aborted, driver, maintenance, calls, faults>>

\* The running operation reserves with one more relay.
OpReserve(p, r) ==
    /\ begun[p]
    /\ p \notin aborted \/ Head0(p).by = "coordinator"
    /\ Cardinality(active[p]) < Target
    /\ r \notin active[p] /\ r # Head0(p).relay
    /\ active' = [active EXCEPT ![p] = @ \cup {r}]
    /\ conn' = conn \cup {r}
    /\ UNCHANGED <<host, pol, chain, begun, aborted, driver, maintenance, calls, faults>>

Done(p) ==
    /\ chain' = [chain EXCEPT ![p] = Tail(@)]
    /\ begun' = [begun EXCEPT ![p] = FALSE]

RunEnds(i, pc) == runs' = [runs EXCEPT ![i].pc = pc]

\* The operation returns a result, and its caller continues.
OpReturn(p) ==
    /\ begun[p]
    /\ Done(p)
    /\ CASE Head0(p).by = "run" ->
              /\ RunEnds(Head0(p).id, "done")
              /\ HandleRelayPolicyResult(p)
              /\ UNCHANGED tail
         [] Head0(p).by = "maintenance" ->
              /\ tail' = Tail(tail)
              /\ HandleRelayPolicyResult(p)
              /\ UNCHANGED runs
         [] Head0(p).by = "coordinator" ->
              UNCHANGED <<runs, tail, last, watch, failed, timer>>
    /\ UNCHANGED <<host, pol, active, aborted, cur, acq, parked, listener, warm,
                   warmTimer, warmTries, conn, calls, faults>>

\* The operation throws: the policy was stopped before its turn, or the
\* operation failed (a full operation queue, a candidate source that throws).
OpThrow(p) ==
    /\ chain[p] # << >>
    /\ \/ ~begun[p] /\ pol[p] # "live" /\ UNCHANGED faults
       \/ begun[p] /\ faults < MaxFaults /\ faults' = faults + 1
    /\ Done(p)
    /\ CASE Head0(p).by = "run" /\ ~Stale(p) ->
              /\ RunEnds(Head0(p).id, "tearing")
              /\ Teardown(p)
              /\ UNCHANGED tail
         [] Head0(p).by = "run" /\ Stale(p) ->
              /\ RunEnds(Head0(p).id, "done")
              /\ UNCHANGED <<pol, aborted, failed, maintenance>>
         [] Head0(p).by = "maintenance" ->
              /\ tail' = Tail(tail)
              /\ failed' = (failed \/ p \notin aborted)
              /\ UNCHANGED <<pol, aborted, runs, watch, timer, listener, warm,
                             warmTimer, warmTries>>
         [] Head0(p).by = "coordinator" ->
              UNCHANGED <<pol, aborted, runs, failed, maintenance>>
    /\ UNCHANGED <<host, active, cur, last, acq, parked, conn, calls>>

\* policy.stop(): once the chain is empty every reservation is released.
PolicyStopped(p) ==
    /\ pol[p] = "stopping" /\ chain[p] = << >>
    /\ pol' = [pol EXCEPT ![p] = "stopped"]
    /\ active' = [active EXCEPT ![p] = {}]
    /\ UNCHANGED <<host, chain, begun, aborted, driver, maintenance, conn, calls, faults>>

\* As TeardownEnds, but without asking which policy is the current one.
TeardownEndsUnchecked(i) ==
    /\ runs[i].pc = "tearing" /\ pol[runs[i].pol] = "stopped"
    /\ RunEnds(i, "done")
    /\ cur' = 0
    /\ UNCHANGED <<host, policies, failed, last, acq, parked, maintenance, conn, calls, faults>>

\* The finally block of _runInitialRelayAcquire.
TeardownEnds(i) ==
    /\ runs[i].pc = "tearing" /\ pol[runs[i].pol] = "stopped"
    /\ RunEnds(i, "done")
    /\ cur' = IF cur = runs[i].pol THEN 0 ELSE cur
    /\ UNCHANGED <<host, policies, failed, last, acq, parked, maintenance, conn, calls, faults>>

-----------------------------------------------------------------------------
(* Maintenance: disconnects, the refresh timer and the serial chain. *)

\* _queueRelayMaintenance captures the controller current when it is called.
Queue(kind, p, r) ==
    tail' = Append(tail, [kind |-> kind, pol |-> p, ctl |-> cur, relay |-> r, pc |-> "queued"])

\* peer:disconnect; the listener reacts only to a relay it watches.
Disconnect(r) ==
    /\ r \in conn /\ life # "stopped"
    /\ faults < MaxFaults /\ faults' = faults + 1
    /\ conn' = conn \ {r}
    /\ IF listener # 0 /\ r \in watch
       THEN watch' = watch \ {r} /\ Queue("replace", listener, r)
       ELSE UNCHANGED <<watch, tail>>
    /\ UNCHANGED <<host, policies, driver, timer, listener, warm, warmTimer,
                   warmTries, calls>>

\* The refresh timer fires.
RefreshFires ==
    /\ timer # 0
    /\ timer' = 0
    /\ Queue("refresh", timer, NoRelay)
    /\ UNCHANGED <<host, policies, driver, watch, listener, warm, warmTimer,
                   warmTries, conn, calls, faults>>

\* As MaintenanceStep, but a link of an aborted controller never ends.
MaintenanceSticks ==
    /\ tail # << >> /\ Head(tail).pc = "queued"
    /\ LET m == Head(tail) IN
       /\ m.ctl # 0 /\ m.ctl \notin aborted
       /\ tail' = [tail EXCEPT ![1].pc = "called"]
       /\ chain' = [chain EXCEPT ![m.pol] = Append(@, Call("maintenance", 0, m.kind, m.relay))]
    /\ UNCHANGED <<host, pol, begun, active, aborted, driver, watch, timer,
                   listener, warm, warmTimer, warmTries, conn, calls, faults>>

\* The next link of the maintenance chain: skipped when its controller is
\* aborted or undefined, otherwise it calls the policy.
MaintenanceStep ==
    /\ tail # << >> /\ Head(tail).pc = "queued"
    /\ LET m == Head(tail) IN
       IF m.ctl = 0 \/ m.ctl \in aborted
       THEN tail' = Tail(tail) /\ UNCHANGED chain
       ELSE /\ tail' = [tail EXCEPT ![1].pc = "called"]
            /\ chain' = [chain EXCEPT ![m.pol] = Append(@, Call("maintenance", 0, m.kind, m.relay))]
    /\ UNCHANGED <<host, pol, begun, active, aborted, driver, watch, timer,
                   listener, warm, warmTimer, warmTries, conn, calls, faults>>

-----------------------------------------------------------------------------
(* Retries and the recovery coordinator. *)

\* retryRelayPolicyAcquisition, up to its first await.
Park == parked' = Append(parked, acq)

\* createNodeRuntime retries once routing is attached.
RetryCall ==
    /\ NodeClosest /\ life = "started" /\ calls < MaxCalls
    /\ Len(parked) < MaxCalls
    /\ calls' = calls + 1
    /\ Park
    /\ UNCHANGED <<host, policies, cur, failed, last, runs, acq, maintenance, conn, faults>>

\* The rest of retryRelayPolicyAcquisition once the awaited run is over.
RetryResume ==
    /\ parked # << >>
    /\ Head(parked) = 0 \/ runs[Head(parked)].pc = "done"
    /\ parked' = Tail(parked)
    /\ \/ /\ \/ last = "reserved"
             \/ cur = 0 /\ (~failed \/ life \in {"stopped", "starting"})
          /\ UNCHANGED <<policies, cur, failed, last, runs, acq, maintenance>>
       \/ /\ last # "reserved" /\ cur = 0 /\ failed /\ life \notin {"stopped", "starting"}
          /\ StartRelayPolicy
       \/ /\ last # "reserved" /\ cur # 0
          /\ RunAcquire(cur, chain)
          /\ UNCHANGED <<pol, begun, active, aborted, cur, failed, last, maintenance>>
    /\ UNCHANGED <<host, conn, calls, faults>>

WarmBlocked(p) == Stale(p) \/ last = "reserved" \/ life \in {"stopped", "starting"}

\* peer:identify of a peer that advertises HOP arms the warm retry timer.
Identify ==
    /\ warm # 0 /\ life # "stopped"
    /\ ~WarmBlocked(warm) /\ warmTries < MaxWarm /\ warmTimer = 0
    /\ warmTimer' = warm
    /\ UNCHANGED <<host, policies, driver, watch, timer, tail, listener, warm,
                   warmTries, conn, calls, faults>>

\* The warm retry timer fires.
WarmFires ==
    /\ warmTimer # 0
    /\ warmTimer' = 0
    /\ IF WarmBlocked(warmTimer) THEN UNCHANGED <<warmTries, parked>>
       ELSE warmTries' = warmTries + 1 /\ Park
    /\ UNCHANGED <<host, policies, cur, failed, last, runs, acq, watch, timer,
                   tail, listener, warm, conn, calls, faults>>

\* replaceRelay: acquire when no relay is named, replace otherwise.
ReplaceRelay(kind, r) ==
    /\ calls < MaxCalls
    /\ calls' = calls + 1
    /\ cur # 0
    /\ chain' = [chain EXCEPT ![cur] = Append(@, Call("coordinator", 0, kind, r))]
    /\ UNCHANGED <<host, pol, begun, active, aborted, driver, maintenance, conn, faults>>

-----------------------------------------------------------------------------
(* start() and stop(). *)

\* start() up to the host factory.
StartCall ==
    /\ life = "stopped" /\ gen < MaxStarts
    /\ life' = "starting"
    /\ UNCHANGED <<stopWaits, gen, policies, driver, maintenance, conn, calls, faults>>

\* The host factory throws; the half-built host is stopped.
HostFails ==
    /\ life = "starting" /\ faults < MaxFaults
    /\ life' = "stopped" /\ faults' = faults + 1
    /\ UNCHANGED <<stopWaits, gen, policies, driver, maintenance, conn, calls>>

\* The rest of start(), which ends by starting the relay policy.
HostBuilt ==
    /\ life = "starting"
    /\ life' = "started" /\ gen' = gen + 1
    /\ StartRelayPolicy
    /\ UNCHANGED <<stopWaits, parked, conn, calls, faults>>

\* stop() up to "await relayPolicy?.stop()".
StopCall ==
    /\ life = "started"
    /\ life' = IF cur = 0 THEN "stopping tail" ELSE "stopping policy"
    /\ stopWaits' = cur
    /\ aborted' = aborted \cup ({cur} \ {0})
    /\ pol' = [p \in Policies |-> IF p = cur /\ pol[p] = "live" THEN "stopping" ELSE pol[p]]
    /\ cur' = 0 /\ failed' = FALSE
    /\ ClearRelayMaintenance
    /\ UNCHANGED <<gen, chain, begun, active, last, runs, acq, parked, tail,
                   conn, calls, faults>>

\* The policy has stopped; a failed clean-up of its client rejects stop() and
\* leaves the host running.
StopPolicyDone ==
    /\ life = "stopping policy" /\ pol[stopWaits] = "stopped"
    /\ \/ life' = "stopping tail" /\ UNCHANGED faults
       \/ life' = "started" /\ faults < MaxFaults /\ faults' = faults + 1
    /\ stopWaits' = 0
    /\ UNCHANGED <<gen, policies, driver, maintenance, conn, calls>>

\* "await this._relayMaintenanceTail".
StopTailDone ==
    /\ life = "stopping tail" /\ tail = << >>
    /\ life' = "stopping host"
    /\ UNCHANGED <<stopWaits, gen, policies, driver, maintenance, conn, calls, faults>>

\* "await this._node?.stop()": every connection closes.
HostStopped ==
    /\ life = "stopping host"
    /\ life' = "stopped" /\ conn' = {}
    /\ UNCHANGED <<stopWaits, gen, policies, driver, maintenance, calls, faults>>

-----------------------------------------------------------------------------
Operations ==
    \E p \in Policies : \/ OpBegin(p) \/ OpReturn(p) \/ OpThrow(p) \/ PolicyStopped(p)
                        \/ \E r \in Relay : OpReserve(p, r)
Timers == RefreshFires \/ WarmFires \/ MaintenanceStep \/ RetryResume
Stopping == StopPolicyDone \/ StopTailDone \/ HostStopped
Environment ==
    \/ \E r \in Relay : Disconnect(r) \/ ReplaceRelay("replace", r)
    \/ ReplaceRelay("acquire", NoRelay) \/ RetryCall \/ Identify
Next ==
    \/ StartCall \/ HostFails \/ HostBuilt \/ StopCall \/ Stopping
    \/ Operations \/ Timers \/ Environment
    \/ \E i \in DOMAIN runs : TeardownEnds(i)

\* The event loop runs every ready continuation and timer; nobody owes the
\* node a disconnect, a HOP peer, a reservation or a lifecycle call.
Fairness ==
    /\ \A p \in Policies : /\ WF_vars(OpBegin(p)) /\ WF_vars(PolicyStopped(p))
                           /\ WF_vars(OpReturn(p) \/ OpThrow(p))
    /\ WF_vars(MaintenanceStep) /\ WF_vars(RefreshFires)
    /\ WF_vars(RetryResume) /\ WF_vars(WarmFires)
    /\ WF_vars(Stopping)
    /\ \A i \in 1 .. MaxRuns : WF_vars(i \in DOMAIN runs /\ TeardownEnds(i))

Spec == Init /\ [][Next]_vars /\ Fairness

-----------------------------------------------------------------------------
(* Properties. *)

\* A policy that has not been told to stop is the one the node refers to, so
\* stop() can always reach it: no rebuild, retry or late clean-up orphans a
\* policy that holds reservations.
OneOwner == \A p \in Policies : pol[p] = "live" => p = cur

\* After stop() has resolved nothing of the relay driver is left: no timer,
\* no listener, no queued maintenance, no policy, no reservation.
QuietWhenStopped ==
    life \in {"stopped", "starting"} =>
       /\ cur = 0 /\ timer = 0 /\ warmTimer = 0 /\ listener = 0 /\ warm = 0
       /\ tail = << >> /\ watch = {}
       /\ \A p \in Policies : pol[p] \in {"unborn", "stopped"} /\ active[p] = {}

\* Both: the policy that is live is owned, and a stopped node has none left
\* (_runInitialRelayAcquire, _clearRelayMaintenance, stop).
LivePolicyOwned == OneOwner /\ QuietWhenStopped

\* stop() always settles: waiting for the policy, for the maintenance chain
\* and for the host cannot deadlock with an operation in flight.
StopSettles == []<>(life \notin {"stopping policy", "stopping tail", "stopping host"})
=============================================================================
