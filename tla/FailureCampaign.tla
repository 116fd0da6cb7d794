-------------------------- MODULE FailureCampaign --------------------------
(***************************************************************************)
(* The deterministic failure campaign of packages/network-spike/src/       *)
(* failure-campaign (index.ts, endpoint-driver.ts). Every row injects one  *)
(* fault, lets the owner of the failing endpoint run into it, exercises a  *)
(* grid coordinator, cleans up, and is judged against the contract written *)
(* in the row: terminal, status, deadline, caps, child budgets, telemetry, *)
(* clean-up, leaked work, health.                                          *)
(*                                                                         *)
(* Time is the row's ManualClock: it moves when the code advances it, and  *)
(* then fires the timers that are due one by one, earliest first. The      *)
(* endpoint owners, the relay policy and the probe runner are the ones of  *)
(* BrowserRouting, Presence, RelayPolicy and ProbeRunner; here they        *)
(* are what they do to a fixture that always fails in the same way.        *)
(***************************************************************************)
EXTENDS GridCoordinator, SequencesExt

-----------------------------------------------------------------------------
(* The table of rows. *)

Parent == 30000
CleanupMs == 5000
Budget == [registry |-> 8000, relay |-> 5000, fallback |-> 12000]

\* scenario(): one fault at its default time, one attempt and no backoff
\* unless the row says otherwise.
defaultFaultTime(fault) ==
    CASE fault = "all-reservations-refused" -> 4900
      [] fault = "stale-dnsaddr-fallback" -> 17000
      [] fault \in {"relay-loss-during-signaling", "relay-loss-after-reservation", "relay-loss-after-direct"} -> 4000
      [] fault = "control-health-degraded" -> 6000
      [] OTHER -> 2000
Row(fault, status, terminal, attempts, backoffs, required) ==
    [fault |-> fault, status |-> status, terminal |-> terminal, attempts |-> attempts,
     backoffs |-> backoffs, required |-> required, at |-> <<defaultFaultTime(fault)>>]

RoutingFaults == {"delegated-outage", "delegated-cors-dns-failure", "delegated-rate-limited"}
ResponseFaults == {"delegated-stale-response", "delegated-poisoned-response",
                   "delegated-malformed-response", "delegated-oversized-response"}
UndialableFaults == {"undialable-50", "undialable-75", "undialable-90"}
RecordFaults == {"record-replayed", "record-expired", "record-oversized", "record-forged"}
RelayLoss == {"relay-loss-during-signaling", "relay-loss-after-reservation", "relay-loss-after-direct"}

endpointScenario(fault) ==
    LET n == IF fault = "delegated-rate-limited" THEN 3 ELSE 2
    IN Row(fault, "success", "owned-fallback", n, n - 1,
           {"endpoint-attempt", "endpoint-backoff", "endpoint-failure", "fallback"})
responseScenario(fault) ==
    Row(fault, "failure", "invalid-response", 1, 0, {"routing-query", "routing-result-count", "endpoint-failure"})
undialableScenario(fault) ==
    Row(fault, "success", "reserved", 20, 0, {"routing-result-count", "dial-result", "relay-reservation"})
recordScenario(fault) ==
    Row(fault, "success", "registration-rejected", 1, 0, {"registry-register", "registry-validation-failure"})
relayLossScenario(fault) ==
    IF fault = "relay-loss-after-direct"
    THEN Row(fault, "success", "direct-retained", 2, 0, {"relay-replacement", "traffic-by-path"})
    ELSE Row(fault, "success", "replacement-recovered", 2, 0, {"relay-replacement", "milestone"})

Composed == "all-dependencies-down"
scenarios ==
    {endpointScenario(f) : f \in RoutingFaults} \cup {responseScenario(f) : f \in ResponseFaults}
    \cup {undialableScenario(f) : f \in UndialableFaults} \cup {recordScenario(f) : f \in RecordFaults}
    \cup {relayLossScenario(f) : f \in RelayLoss}
    \cup {Row("all-reservations-refused", "success", "owned-fallback", 4, 0,
              {"relay-candidate", "relay-reservation", "fallback"}),
          Row("registry-one-unavailable", "success", "failover-recovered", 2, 1,
              {"endpoint-attempt", "endpoint-backoff", "endpoint-failure", "registry-discover"}),
          Row("all-registries-unavailable", "success", "owned-fallback", 2, 1,
              {"endpoint-attempt", "endpoint-backoff", "endpoint-failure", "fallback"}),
          Row("sybil-registration-flood", "success", "registration-rejected", 64, 0, {"registry-register"}),
          Row("stale-dnsaddr-fallback", "failure", "exhausted", 4, 0, {"fallback", "registry-validation-failure"}),
          Row("control-health-degraded", "success", "reconnect-recovered", 1, 0, {"relay-replacement", "milestone"}),
          [Row(Composed, "failure", "total-outage", 8, 3,
               {"endpoint-attempt", "endpoint-backoff", "endpoint-failure", "fallback"})
              EXCEPT !.at = <<0, 0, 8000, 13000, 25000>>]}

validateScenario(row) ==
    /\ Len(row.at) > 0
    /\ \A i \in DOMAIN row.at : row.at[i] < Parent /\ (i > 1 => row.at[i - 1] <= row.at[i])

VARIABLES
    item,       \* the row
    pc,         \* where runFailureScenario is
    now,        \* ManualClock: the time,
    target,     \*   the time advanceBy is on its way to,
    timers,     \*   and the timers set, as <<due, id>> pairs
    handles,    \* CampaignResources: connections, refreshes and controllers
    held,       \* relays reserved, by the policy that holds them
    kinds,      \* event kinds emitted
    owner,      \* ownerEvidence
    budgets,    \* child budgets, each with whether its abort was observed
    health,     \* FailureControlPlaneHealthAdapter
    grid,       \* the coordinator and the relay attempts it saw
    cleanups,   \* deferred clean-ups, the last one first
    result      \* what the runner returned

vars == <<item, pc, now, target, timers, handles, held, kinds, owner, budgets, health, grid, cleanups, result>>

Evidence(attempts, backoffs, terminal) == [attempts |-> attempts, backoffs |-> backoffs, terminal |-> terminal]
NoEvidence == Evidence(0, 0, "none")
Relays == {"primary", "replacement"}

\* runFailureScenario and ProbeRunner.run up to the probe: the parent timer
\* is set on the same clock.
Init ==
    /\ item \in {row \in scenarios : validateScenario(row)}
    /\ pc = "probe" /\ now = 0 /\ target = 0
    /\ timers = {<<Parent, <<"parent">>>>} /\ handles = {} /\ held = [p \in {"owner", "grid"} |-> {}]
    /\ kinds = {} /\ owner = NoEvidence /\ budgets = << >>
    /\ health = [state |-> "healthy", attempts |-> 0, cap |-> 1]
    /\ grid = [c |-> NewCoordinator("joiner"), attempts |-> << >>, stopped |-> 0]
    /\ cleanups = << >> /\ result = [status |-> "none", terminal |-> "none", failed |-> 0, ms |-> 0]

hasFault(fault) == item.fault = fault

-----------------------------------------------------------------------------
(* FailureControlPlaneHealthAdapter *)

degrade(h) == IF h.state # "healthy" THEN [h EXCEPT !.state = "error"] ELSE [h EXCEPT !.state = "degraded"]
beginReconnect(h) ==
    IF h.state # "degraded" \/ h.attempts >= h.cap THEN [h EXCEPT !.state = "error"]
    ELSE [h EXCEPT !.state = "reconnecting", !.attempts = @ + 1]
recover(h) == IF h.state # "reconnecting" THEN [h EXCEPT !.state = "error"] ELSE [h EXCEPT !.state = "recovered"]
terminate(h) ==
    IF h.state \notin {"reconnecting", "degraded"} THEN [h EXCEPT !.state = "error"]
    ELSE [h EXCEPT !.state = "terminal"]
expectedHealthFor ==
    CASE hasFault("control-health-degraded") -> <<"recovered", 1>>
      [] hasFault(Composed) -> <<"terminal", 1>>
      [] OTHER -> <<"healthy", 0>>

-----------------------------------------------------------------------------
(* ManualClock and CampaignResources *)

advanceBy(ms) == target' = target + ms
Running == now = target

\* CampaignReservationClient: a relay that reserves opens a connection and a
\* refresh with a timer of its own; its release closes both; and, for
\* comparison, one that leaves the refresh running.
Held(policy, peers) == {<<"connection", policy, r>> : r \in peers} \cup {<<"refresh", policy, r>> : r \in peers}
RefreshTimers(policy, peers) == {t \in timers : \E r \in peers : t[2] = <<"refresh", policy, r>>}
Reserve(policy, peers) ==
    /\ held' = [held EXCEPT ![policy] = @ \cup peers]
    /\ handles' = handles \cup Held(policy, peers)
    /\ timers' = timers \cup {<<now + 30000, <<"refresh", policy, r>>>> : r \in peers}
ReleaseConnections(policy, peers) ==
    /\ held' = [held EXCEPT ![policy] = @ \ peers]
    /\ handles' = handles \ Held(policy, peers)
    /\ UNCHANGED timers
release(policy, peers) ==
    /\ held' = [held EXCEPT ![policy] = @ \ peers]
    /\ handles' = handles \ Held(policy, peers)
    /\ timers' = timers \ RefreshTimers(policy, peers)

\* One due timer fires: the parent aborts the probe, a budget aborts the
\* child's scope and with it the sleep the child is in, the clean-up timer
\* stops the clean-ups, a refresh arms itself again.
Due == {t \in timers : t[1] <= target}
Fire ==
    /\ ~Running /\ Due # {}
    /\ LET t == CHOOSE d \in Due : \A e \in Due : d[1] <= e[1]
       IN /\ now' = t[1]
          /\ timers' = CASE t[2][1] = "budget" -> {u \in timers : u[2][1] \notin {"budget", "sleep"}}
                         [] t[2][1] \in {"parent", "cleanup", "sleep"} -> timers \ {t}
                         [] OTHER -> (timers \ {t}) \cup {<<t[1] + 30000, t[2]>>}
          /\ budgets' = IF t[2][1] = "budget" THEN [budgets EXCEPT ![Len(budgets)] = TRUE] ELSE budgets
          /\ result' = IF t[2][1] = "cleanup" THEN [result EXCEPT !.failed = Len(cleanups)]
                       ELSE IF t[2][1] = "parent" THEN [result EXCEPT !.status = "aborted"] ELSE result
          /\ cleanups' = IF t[2][1] = "cleanup" THEN << >> ELSE cleanups
    /\ UNCHANGED <<item, pc, target, handles, held, kinds, owner, health, grid>>
Arrive ==
    /\ ~Running /\ Due = {}
    /\ now' = target
    /\ UNCHANGED <<item, pc, target, timers, handles, held, kinds, owner, budgets, health, grid, cleanups, result>>

-----------------------------------------------------------------------------
(* The endpoint owners (endpoint-driver.ts and runRelayFailure). *)

\* runRoutingFailure: the lookups it makes, by whether the endpoint failed;
\* only the last one of a stale response counts. A failure arms a backoff
\* that the next lookup sleeps through on the clock.
Lookups(fault) ==
    CASE fault = "delegated-rate-limited" -> <<TRUE, TRUE, TRUE>>
      [] fault \in {"delegated-outage", "delegated-cors-dns-failure", Composed} -> <<TRUE, TRUE>>
      [] fault = "delegated-stale-response" -> <<FALSE, TRUE>>
      [] OTHER -> <<TRUE>>
RoutingOwner(fault) ==
    LET tries == Lookups(fault)
        backed == {i \in DOMAIN tries : i > 1 /\ tries[i - 1]}
        fallback == fault \in RoutingFaults \cup {Composed}
    IN [evidence |-> Evidence(IF fault = "delegated-stale-response" THEN 1 ELSE Len(tries), Cardinality(backed),
                              IF fallback THEN "owned-fallback" ELSE "invalid-response"),
        ms |-> IF fault = "delegated-rate-limited" THEN 50 * Cardinality(backed)
               ELSE IF fault = "delegated-stale-response" THEN 2 ELSE 100 * Cardinality(backed),
        kinds |-> {"routing-query", "routing-result-count", "endpoint-attempt", "endpoint-failure"}
                  \cup (IF backed = {} THEN {} ELSE {"endpoint-backoff"}) \cup (IF fallback THEN {"fallback"} ELSE {})]

\* runRegistryFailure: two endpoints in order with a backoff between them.
RegistryOwner(fault) ==
    LET second == fault = "registry-one-unavailable"
    IN [evidence |-> Evidence(2, 1, IF second THEN "failover-recovered" ELSE "owned-fallback"), ms |-> 100,
        kinds |-> {"endpoint-attempt", "endpoint-backoff", "endpoint-failure",
                   IF second THEN "registry-discover" ELSE "fallback"}]

\* runRecordFailure: the hostile rows are refused, by the validator or, for
\* the last of 64 of a flood, by the namespace quota of 63.
RecordOwner(fault) ==
    LET rows == IF fault = "sybil-registration-flood" THEN 64 ELSE 1
    IN [evidence |-> Evidence(rows, 0, "registration-rejected"), ms |-> 0,
        kinds |-> {"registry-register"} \cup (IF rows = 1 THEN {"registry-validation-failure"} ELSE {})]

\* runRelayFailure: the last candidate is the only one of operator b, those
\* before it that can be dialled are of operator a. Two reservations of two
\* operators are wanted, so every candidate is tried.
Candidates(fault) == IF fault \in UndialableFaults THEN 20 ELSE 4
Refuses(fault) == fault \in {"all-reservations-refused", Composed, "stale-dnsaddr-fallback"}
RelayOwner(fault) ==
    LET stale == fault = "stale-dnsaddr-fallback"
        owned == fault = "all-reservations-refused"
    IN [evidence |-> Evidence(Candidates(fault), 0,
                              IF ~Refuses(fault) THEN "reserved" ELSE IF owned THEN "owned-fallback" ELSE "exhausted"),
        ms |-> 0, peers |-> IF Refuses(fault) THEN {} ELSE {"a", "b"},
        kinds |-> {"routing-query", "routing-result-count", "relay-candidate", "dial-attempt", "dial-result",
                   "relay-hop-support", "relay-reservation"}
                  \cup (IF stale \/ owned THEN {"fallback"} ELSE {})
                  \cup (IF stale THEN {"registry-validation-failure"} ELSE {})]

\* createFailureProbe: the composed row defers its own clean-up first, the
\* others move to the time of the fault.
ProbeBegins ==
    /\ pc = "probe" /\ Running
    /\ IF hasFault(Composed)
       THEN cleanups' = <<"close-all">> /\ pc' = "child" /\ UNCHANGED target
       ELSE /\ UNCHANGED cleanups /\ advanceBy(item.at[1])
            /\ pc' = IF item.fault \in RelayLoss THEN "join" ELSE "owner"
    /\ UNCHANGED <<item, now, timers, handles, held, kinds, owner, budgets, health, grid, result>>

\* An owner's outcome is recorded, its policy or router deferred, its
\* backoffs slept through.
Observe(out, deferred) ==
    /\ owner' = out.evidence /\ kinds' = kinds \cup out.kinds
    /\ cleanups' = deferred \o cleanups /\ advanceBy(out.ms)

\* runObservedOwner: a routing, registry, record, relay or health owner.
ObservedOwner ==
    /\ pc = "owner" /\ Running
    /\ pc' = "join"
    /\ \/ /\ item.fault \in RoutingFaults \cup ResponseFaults
          /\ Observe(RoutingOwner(item.fault), <<"routing">>) /\ UNCHANGED <<health, held, handles, timers>>
       \/ /\ item.fault \in {"registry-one-unavailable", "all-registries-unavailable"}
          /\ Observe(RegistryOwner(item.fault), << >>) /\ UNCHANGED <<health, held, handles, timers>>
       \/ /\ item.fault \in RecordFaults \cup {"sybil-registration-flood"}
          /\ Observe(RecordOwner(item.fault), << >>) /\ UNCHANGED <<health, held, handles, timers>>
       \/ /\ item.fault \in UndialableFaults \cup {"all-reservations-refused", "stale-dnsaddr-fallback"}
          /\ Observe(RelayOwner(item.fault), <<"owner">>)
          /\ Reserve("owner", RelayOwner(item.fault).peers) /\ UNCHANGED health
       \/ /\ hasFault("control-health-degraded")
          /\ health' = recover(beginReconnect(degrade(health)))
          /\ Observe([evidence |-> Evidence(0, 0, "reconnect-recovered"), ms |-> 0, kinds |-> {}], << >>)
          /\ UNCHANGED <<held, handles, timers>>
    /\ UNCHANGED <<item, now, budgets, grid, result>>

-----------------------------------------------------------------------------
(* runComposedOutage: three children, one after the other. *)

Children == <<"registry", "relay", "fallback">>
Child == Children[Len(budgets)]
Add(e, f) == Evidence(e.attempts + f.attempts, e.backoffs + f.backoffs, "total-outage")

\* runChildBudget: a scope under the parent's signal and a timer for it.
ChildBegins ==
    /\ pc = "child" /\ Running /\ Len(budgets) < Len(Children)
    /\ budgets' = Append(budgets, FALSE)
    /\ timers' = timers \cup {<<now + Budget[Children[Len(budgets) + 1]], <<"budget">>>>}
    /\ handles' = handles \cup {<<"scope">>}
    /\ pc' = "operation"
    /\ UNCHANGED <<item, now, target, held, kinds, owner, health, grid, cleanups, result>>

\* The child's operation up to ready(): what its owners run into.
ChildOperates ==
    /\ pc = "operation" /\ Running
    /\ CASE Child = "registry" ->
              LET reg == RegistryOwner(Composed) routing == RoutingOwner(Composed)
              IN /\ owner' = Add(Add(owner, reg.evidence), routing.evidence)
                 /\ kinds' = kinds \cup reg.kinds \cup routing.kinds
                 /\ cleanups' = <<"routing">> \o cleanups /\ advanceBy(reg.ms + routing.ms)
         [] Child = "relay" ->
              LET out == RelayOwner(Composed)
              IN /\ owner' = Add(owner, [out.evidence EXCEPT !.backoffs = 0])
                 /\ kinds' = kinds \cup out.kinds /\ cleanups' = <<"owner">> \o cleanups /\ advanceBy(0)
         [] Child = "fallback" ->
              owner' = Add(owner, NoEvidence) /\ kinds' = kinds \cup {"fallback"} /\ UNCHANGED <<cleanups, target>>
    /\ pc' = "sleep"
    /\ UNCHANGED <<item, now, timers, handles, held, budgets, health, grid, result>>

\* Then it sleeps for longer than its budget, and the clock is advanced to
\* the end of the budget.
ChildSleeps ==
    /\ pc = "sleep" /\ Running
    /\ timers' = timers \cup {<<now + Budget[Child] + 1, <<"sleep">>>>}
    /\ LET due == CHOOSE t \in timers : t[2][1] = "budget" IN target' = IF due[1] > now THEN due[1] ELSE now
    /\ pc' = "ended"
    /\ UNCHANGED <<item, now, handles, held, kinds, owner, budgets, health, grid, cleanups, result>>

\* The finally block of the child; after the last one the adapter reports.
ChildEnds ==
    /\ pc = "ended" /\ Running /\ \A t \in timers : t[2][1] # "sleep"
    /\ timers' = {t \in timers : t[2][1] # "budget"} /\ handles' = handles \ {<<"scope">>}
    /\ IF Len(budgets) < Len(Children)
       THEN pc' = "child" /\ UNCHANGED health
       ELSE pc' = "join" /\ health' = terminate(beginReconnect(degrade(health)))
    /\ UNCHANGED <<item, now, target, held, kinds, owner, budgets, grid, cleanups, result>>

-----------------------------------------------------------------------------
(* exerciseCoordinator *)

coordinatorHasCreator ==
    item.fault \notin ResponseFaults \cup RecordFaults
                      \cup {Composed, "all-registries-unavailable", "stale-dnsaddr-fallback", "sybil-registration-flood"}
coordinatorRelayExhausted == Refuses(item.fault)
CreatorRecord == [relay |-> "primary", sequence |-> 1]
Result(t, peers) == [terminal |-> t, relays |-> peers]
C == grid.c

\* startJoiner up to the relay: the harness's directory has the creator's
\* record or not.
GridDiscovers ==
    /\ pc = "join" /\ Running
    /\ LET c == CreatorFound(AskDirectory(NodeStarting(C)), IF coordinatorHasCreator THEN {CreatorRecord} ELSE {})
       IN /\ grid' = [grid EXCEPT !.c = IF c.error = "none" THEN RelayAsked(c) ELSE c]
          /\ pc' = IF c.error = "none" THEN "acquire" ELSE "stop"
    /\ cleanups' = <<"grid">> \o cleanups
    /\ UNCHANGED <<item, now, target, timers, handles, held, kinds, owner, budgets, health, result>>

\* The policy reserves the first relay, unless it is lost while signalling
\* (then the second) or every reservation is refused.
GridAcquires ==
    /\ pc = "acquire" /\ Running
    /\ LET lost == hasFault("relay-loss-during-signaling")
           got == IF coordinatorRelayExhausted THEN {} ELSE IF lost THEN {"replacement"} ELSE {"primary"}
           c == RelayAnswered(C, Result(IF got = {} THEN "exhausted" ELSE "reserved", got))
           d == IF c.error = "none" THEN DialBegins(c, CreatorRecord) ELSE c
       IN /\ grid' = [grid EXCEPT !.c = d, !.attempts =
                IF coordinatorRelayExhausted THEN <<"refused", "refused">>
                ELSE IF lost THEN <<"connection-failed", "reserved">> ELSE <<"reserved">>]
          /\ Reserve("grid", got)
          /\ pc' = IF d.error = "none" THEN "dial" ELSE "stop"
    /\ UNCHANGED <<item, now, target, kinds, owner, budgets, health, cleanups, result>>

\* The dial opens a connection, or finds the relay lost; then the object is
\* joined and the proof inspected.
GridDials ==
    /\ pc = "dial" /\ Running
    /\ IF hasFault("relay-loss-after-reservation")
       THEN pc' = "recover" /\ UNCHANGED <<grid, handles>>
       ELSE /\ handles' = handles \cup {<<"creator-connection">>}
            /\ grid' = [grid EXCEPT !.c = Proven(Synced(ObjectCreated(MeshReady(Dialed(C)))),
                          [open |-> TRUE, transport |-> "webrtc", ice |-> <<"host", "host">>, received |-> 2048, sent |-> 2048])]
            /\ pc' = IF item.fault \in {"relay-loss-after-direct", "control-health-degraded"} THEN "recover" ELSE "stop"
    /\ UNCHANGED <<item, now, target, timers, held, kinds, owner, budgets, health, cleanups, result>>

\* recoverRelay: the policy drops the lost relay, then reserves the other.
GridDrops ==
    /\ pc = "recover" /\ Running /\ "primary" \in held["grid"]
    /\ release("grid", {"primary"})
    /\ UNCHANGED <<item, pc, now, target, kinds, owner, budgets, health, grid, cleanups, result>>
GridRecovers ==
    /\ pc = "recover" /\ Running /\ held["grid"] = {}
    /\ Reserve("grid", {"replacement"})
    /\ grid' = [grid EXCEPT !.c = RelayRecovered([C EXCEPT !.error = "none"], Result("reserved", {"replacement"})),
                            !.attempts = Append(@, "reserved")]
    /\ pc' = "stop"
    /\ UNCHANGED <<item, now, target, kinds, owner, budgets, health, cleanups, result>>

\* coordinator.stop closes what the harness's node opened. Then the
\* terminal, and the observations made of the coordinator.
Seen(kind) == kind \in C.events
Statuses == grid.attempts
terminalFromCoordinator ==
    CASE hasFault("relay-loss-after-direct") ->
            IF Seen("direct-proof") /\ Seen("relay-recovery") THEN "direct-retained" ELSE "error"
      [] hasFault("relay-loss-during-signaling") ->
            IF Statuses = <<"connection-failed", "reserved">> /\ Seen("relay-reservation")
            THEN "replacement-recovered" ELSE "error"
      [] hasFault("relay-loss-after-reservation") ->
            IF Seen("relay-recovery") THEN "replacement-recovered" ELSE "error"
      [] hasFault("control-health-degraded") /\ Seen("relay-recovery") -> "reconnect-recovered"
      [] OTHER -> owner.terminal
CoordinatorObservations ==
    LET lost == "connection-failed" \in ToSet(Statuses)
    IN (IF Seen("relay-recovery") \/ (hasFault("relay-loss-during-signaling") /\ lost) THEN {"relay-replacement"} ELSE {})
       \cup (IF hasFault("relay-loss-after-direct") /\ Seen("direct-proof") THEN {"traffic-by-path"} ELSE {})
       \cup (IF item.fault \in RelayLoss \ {"relay-loss-after-direct"} /\ (Seen("relay-recovery") \/ lost)
             THEN {"milestone"} ELSE {})
       \cup (IF hasFault("control-health-degraded") /\ Seen("direct-proof") THEN {"milestone"} ELSE {})
GridStops ==
    /\ pc = "stop" /\ Running
    /\ handles' = handles \ {<<"creator-connection">>}
    /\ owner' = IF item.fault \in RelayLoss THEN Evidence(Len(Statuses), 0, terminalFromCoordinator) ELSE owner
    /\ kinds' = kinds \cup CoordinatorObservations
    /\ result' = [result EXCEPT !.status = IF result.status = "aborted" THEN @ ELSE item.status,
                                !.terminal = terminalFromCoordinator]
    /\ grid' = [grid EXCEPT !.stopped = @ + 1]
    /\ timers' = IF cleanups = << >> THEN timers ELSE timers \cup {<<now + CleanupMs, <<"cleanup">>>>}
    /\ pc' = "cleanup"
    /\ UNCHANGED <<item, now, target, held, budgets, health, cleanups>>

-----------------------------------------------------------------------------
(* The clean-ups, and the verdict. *)

\* policy.stop releases what the policy holds, routing.stop nothing that is
\* tracked; the composed row's clean-up sleeps to just short of its deadline.
CleanupPause == CleanupMs - 1
CleanupRuns ==
    /\ pc = "cleanup" /\ Running /\ cleanups # << >>
    /\ CASE Head(cleanups) \in {"owner", "grid"} ->
              release(Head(cleanups), held[Head(cleanups)]) /\ cleanups' = Tail(cleanups) /\ UNCHANGED <<target, pc>>
         [] Head(cleanups) = "routing" ->
              cleanups' = Tail(cleanups) /\ UNCHANGED <<target, pc, held, handles, timers>>
         [] Head(cleanups) = "close-all" ->
              advanceBy(CleanupPause) /\ pc' = "closing" /\ UNCHANGED <<cleanups, held, handles, timers>>
    /\ UNCHANGED <<item, now, kinds, owner, budgets, health, grid, result>>

closeAll ==
    /\ pc = "closing" /\ Running
    /\ handles' = {} /\ timers' = {t \in timers : t[2][1] \in {"parent", "cleanup"}}
    /\ held' = [p \in DOMAIN held |-> {}]
    /\ cleanups' = IF cleanups = << >> THEN cleanups ELSE Tail(cleanups)
    /\ pc' = "cleanup"
    /\ UNCHANGED <<item, now, target, kinds, owner, budgets, health, grid, result>>

RunEnds ==
    /\ pc = "cleanup" /\ Running /\ cleanups = << >>
    /\ timers' = {t \in timers : t[2][1] \notin {"parent", "cleanup"}}
    /\ result' = [result EXCEPT !.ms = now]
    /\ pc' = "done"
    /\ UNCHANGED <<item, now, target, handles, held, kinds, owner, budgets, health, grid, cleanups>>

Done == pc = "done" /\ UNCHANGED vars

Next ==
    \/ Fire \/ Arrive \/ ProbeBegins \/ ObservedOwner
    \/ ChildBegins \/ ChildOperates \/ ChildSleeps \/ ChildEnds
    \/ GridDiscovers \/ GridAcquires \/ GridDials \/ GridDrops \/ GridRecovers \/ GridStops
    \/ CleanupRuns \/ closeAll \/ RunEnds \/ Done

Spec == Init /\ [][Next]_vars /\ WF_vars(Next)

\* resultFor: the checks of a row.
Checks ==
    /\ result.terminal = item.terminal /\ result.status = item.status /\ result.failed = 0
    /\ result.ms <= Parent
    /\ owner.attempts <= item.attempts /\ owner.backoffs <= item.backoffs
    /\ hasFault(Composed) => budgets = <<TRUE, TRUE, TRUE>>
    /\ item.required \subseteq kinds
    /\ handles = {} /\ timers = {}
    /\ grid.stopped = 1
    /\ <<health.state, health.attempts>> = expectedHealthFor

\* Every row of the table meets its own contract, as assertFailureCampaign
\* demands: its fault leads to the terminal the row expects, within its caps
\* and the parent's deadline, and leaves no timer and no handle behind.
RowsPass == pc = "done" => Checks
RowEnded == pc = "done"
=============================================================================
