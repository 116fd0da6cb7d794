---------------------------- MODULE ControlPlane ----------------------------
(***************************************************************************)
(* Health-based recovery: the health snapshot DRPNode reads                *)
(* (packages/node/src/index.ts), the aggregator that folds it into a state *)
(* and reasons, and ControlPlaneCoordinator, which observes snapshots,     *)
(* classifies a fault and runs one bounded recovery                        *)
(* (packages/control-plane/src/index.ts).                                  *)
(*                                                                         *)
(* There is no clock: "due" says that nextRecoveryAtMs has passed, and a   *)
(* timer, a retry delay or the parent deadline fires when it likes.  The   *)
(* network changes its condition on its own; whether a mechanism repairs   *)
(* anything is up to the network.                                          *)
(***************************************************************************)
EXTENDS Naturals, Sequences, FiniteSets

CONSTANTS
    Peer, Relay, Backend,
    MaxAttempts,    \* config.maxAttempts
    MaxEvents,      \* bound: changes of the network's condition
    MaxLifecycles,  \* bound: start() calls
    MaxThrows       \* bound: status reads that throw

VARIABLES
    condition,  \* the condition of the network
    events,     \* changes of it so far
    seenPeers,  \* _lastHealthAuthenticatedPeerIds
    seenDirect, \* _lastDirectConnectionPeerIds
    notified,   \* a group-peer change is on its way to the status listener
    ctl,        \* #lifecycleController, 0 when undefined
    lifecycles, \* start() calls so far
    stopping,   \* the lifecycle stop() is waiting to finish, 0 for none
    sub,        \* #unsubscribeStatus is defined
    timer,      \* #observationTimer is armed
    due,        \* the clock has reached #nextRecoveryAtMs
    last,       \* #lastObservedStatus
    cooled,     \* #cooledDownBackends
    failedOps,  \* #failedRecoveryAttempts is not empty
    recs,       \* #activeRecoveries
    throws      \* status reads that threw

observed == <<seenPeers, seenDirect>>
lifecycle == <<ctl, lifecycles, stopping, sub>>
recovery == <<timer, due, last, cooled, failedOps, recs>>
planeVars == <<condition, events, observed, notified, lifecycle, recovery, throws>>

NoStatus == [state |-> "none", peers |-> {}, relays |-> {}]

PlaneInit ==
    /\ condition = [peers |-> Peer, direct |-> Peer, relays |-> Relay, failed |-> {},
              dht |-> TRUE, router |-> TRUE, fresh |-> TRUE, behind |-> FALSE,
              idle |-> FALSE]
    /\ events = 0 /\ throws = 0 /\ notified = FALSE
    /\ seenPeers = {} /\ seenDirect = {}
    /\ ctl = 0 /\ lifecycles = 0 /\ stopping = 0 /\ sub = FALSE
    /\ timer = FALSE /\ due = FALSE /\ last = NoStatus
    /\ cooled = {} /\ failedOps = FALSE /\ recs = << >>

-----------------------------------------------------------------------------
(* Reading and judging the health. *)

\* _readControlPlaneHealth: the condition now, and what was lost since the
\* previous read.
Reading ==
    [peers |-> condition.peers, lost |-> seenPeers \ condition.peers,
     directFailed |-> (seenDirect \ condition.direct) \cap condition.peers,
     relays |-> condition.relays, failed |-> condition.failed, dht |-> condition.dht,
     router |-> condition.router, fresh |-> condition.fresh /\ condition.failed # Backend,
     behind |-> condition.behind, idle |-> condition.idle, failedOps |-> failedOps]

Read == seenPeers' = condition.peers /\ seenDirect' = condition.direct \cap condition.peers

\* ControlPlaneHealthAggregator.aggregate: the reasons that classification
\* looks at, and the state.
Reasons(s) ==
    {reason \in {"rendezvous-stale", "no-healthy-backend", "no-live-reservation",
                 "dht-unavailable"} :
        CASE reason = "rendezvous-stale" -> ~s.fresh
          [] reason = "no-healthy-backend" -> s.failed = Backend
          [] reason = "no-live-reservation" -> s.relays = {}
          [] reason = "dht-unavailable" -> ~s.dht}

AllRequiredSignalsHealthy(s) ==
    /\ s.idle \/ s.peers # {}
    /\ ~s.behind /\ s.fresh /\ s.failed # Backend /\ s.relays # {} /\ s.router

State(s) == IF s.failedOps THEN "recovering"
            ELSE IF AllRequiredSignalsHealthy(s) THEN "healthy" ELSE "degraded"

\* As ClassifyObservedFault, but an outage counts only when it begins.
ClassifyOutageEdge(s, previous) ==
    CASE ~s.idle /\ s.peers = {} /\ previous.peers # {} -> "everything-unavailable"
      [] ~s.router -> "delegated-router-failed"
      [] s.directFailed # {} -> "direct-connection-failed"
      [] "dht-unavailable" \in Reasons(s) -> "dht-unavailable"
      [] Cardinality(s.failed) = 1 /\ s.failed # Backend -> "registry-failed"
      [] s.failed = Backend -> "all-registries-failed"
      [] s.lost # {} /\ s.behind -> "peer-disappeared"
      [] "no-live-reservation" \in Reasons(s) -> "relay-disconnected"
      [] "rendezvous-stale" \in Reasons(s) -> "all-registries-failed"
      [] OTHER -> "none"

\* classifyObservedFault: the first fault of the table that applies.
ClassifyObservedFault(s, previous) ==
    CASE ~s.idle /\ s.peers = {} -> "everything-unavailable"
      [] ~s.router -> "delegated-router-failed"
      [] s.directFailed # {} -> "direct-connection-failed"
      [] "dht-unavailable" \in Reasons(s) -> "dht-unavailable"
      [] Cardinality(s.failed) = 1 /\ s.failed # Backend -> "registry-failed"
      [] s.failed = Backend -> "all-registries-failed"
      [] s.lost # {} /\ s.behind -> "peer-disappeared"
      [] "no-live-reservation" \in Reasons(s) -> "relay-disconnected"
      [] "rendezvous-stale" \in Reasons(s) -> "all-registries-failed"
      [] s.behind /\ previous.peers \ s.peers # {} -> "peer-disappeared"
      [] OTHER -> "none"

-----------------------------------------------------------------------------
(* One recovery. *)

\* #planFor, with #registryFailurePlan and #registryRequest: what the single
\* operation of the plan asks the rendezvous sources to leave out.
CooledBy(fault, s) == IF fault = "registry-failed" THEN s.failed ELSE {}

\* recover() up to its first await.
NewRecovery(fault) ==
    [ctl |-> ctl, fault |-> fault, attempt |-> 1, abort |-> "no", opFailed |-> FALSE,
     pc |-> IF fault = "everything-unavailable" THEN "preserving" ELSE "operating"]

\* #scheduleObservation, which does nothing once the life cycle is over; and
\* the same without the check.
ArmedAlways == TRUE
Armed == timer \/ ctl # 0

Snapshot(s) == [state |-> State(s), peers |-> s.peers, relays |-> s.relays]

\* As Observe, but recoveries may overlap.
ObserveOverlapping(s, armed) ==
    LET fault == ClassifyObservedFault(s, last)
        healthy == State(s) = "healthy"
        recovers == ~healthy /\ due /\ fault # "none" IN
    /\ last' = Snapshot(s)
    /\ timer' = (armed \/ healthy \/ ~recovers)
    /\ recs' = IF recovers THEN Append(recs, NewRecovery(fault)) ELSE recs
    /\ cooled' = IF recovers THEN cooled \cup CooledBy(fault, s) ELSE cooled

\* #observe(s) for a status s just read; armed says whether the observation
\* timer is still armed.  An unhealthy status arms nothing while a recovery
\* runs, or when it starts one: the end of the recovery does.
Observe(s, armed) ==
    LET fault == ClassifyObservedFault(s, last)
        healthy == State(s) = "healthy"
        recovers == ~healthy /\ recs = << >> /\ due /\ fault # "none" IN
    /\ last' = Snapshot(s)
    /\ timer' = (armed \/ healthy \/ (recs = << >> /\ ~recovers))
    /\ recs' = IF recovers THEN Append(recs, NewRecovery(fault)) ELSE recs
    /\ cooled' = IF recovers THEN cooled \cup CooledBy(fault, s) ELSE cooled

\* As Finish, but only a recovery that succeeded schedules an observation.
FinishQuietly(i, terminal, opFailed) ==
    /\ failedOps' = (terminal # "succeeded" /\ opFailed)
    /\ recs' = SubSeq(recs, 1, i - 1) \o SubSeq(recs, i + 1, Len(recs))
    /\ due' = FALSE
    /\ timer' = IF terminal = "succeeded" THEN Armed ELSE timer

\* The end of recover() and of the observer that awaits it.
Finish(i, terminal, opFailed) ==
    /\ failedOps' = (terminal # "succeeded" /\ opFailed)
    /\ recs' = SubSeq(recs, 1, i - 1) \o SubSeq(recs, i + 1, Len(recs))
    /\ due' = FALSE
    /\ timer' = Armed

RecoveryFrame == UNCHANGED <<condition, events, observed, notified, lifecycle, last, cooled, throws>>

\* preserveLocalState succeeds, or the recovery fails.
Preserve(i) ==
    /\ recs[i].pc = "preserving" /\ recs[i].abort = "no"
    /\ \/ /\ recs' = [recs EXCEPT ![i].pc = "operating"]
          /\ UNCHANGED <<timer, due, failedOps>>
       \/ Finish(i, "failed", FALSE)
    /\ RecoveryFrame

\* The operation of one attempt of #runPlan ends.
Operate(i) ==
    /\ recs[i].pc = "operating" /\ recs[i].abort = "no"
    /\ \/ Finish(i, "succeeded", recs[i].opFailed)
       \/ /\ recs[i].attempt >= MaxAttempts
          /\ Finish(i, "exhausted", TRUE)
       \/ /\ recs[i].attempt < MaxAttempts
          /\ recs' = [recs EXCEPT ![i].pc = "sleeping", ![i].opFailed = TRUE]
          /\ UNCHANGED <<timer, due, failedOps>>
    /\ RecoveryFrame

\* The delay before the next attempt is over.
Wake(i) ==
    /\ recs[i].pc = "sleeping" /\ recs[i].abort = "no"
    /\ recs' = [recs EXCEPT ![i].pc = "operating", ![i].attempt = @ + 1]
    /\ UNCHANGED <<timer, due, failedOps>>
    /\ RecoveryFrame

\* The parent deadline expires.
Deadline(i) ==
    /\ recs[i].abort = "no"
    /\ recs' = [recs EXCEPT ![i].abort = "deadline"]
    /\ UNCHANGED <<timer, due, failedOps>>
    /\ RecoveryFrame

\* An aborted recovery unwinds; the operation in flight counts as failed.
Unwind(i) ==
    /\ recs[i].abort # "no"
    /\ Finish(i, recs[i].abort, recs[i].opFailed \/ recs[i].pc = "operating")
    /\ RecoveryFrame

\* A back-end's cool-down is over.
CooldownOver(b) ==
    /\ b \in cooled
    /\ cooled' = cooled \ {b}
    /\ UNCHANGED <<condition, events, observed, notified, lifecycle, timer, due, last,
                   failedOps, recs, throws>>

-----------------------------------------------------------------------------
(* The life cycle and the observation loop. *)

\* start(): subscribe, read the status once, arm the timer.
PlaneStart ==
    /\ ctl = 0 /\ lifecycles < MaxLifecycles
    /\ lifecycles' = lifecycles + 1 /\ ctl' = lifecycles + 1
    /\ sub' = TRUE /\ notified' = TRUE
    /\ due' = FALSE /\ timer' = TRUE
    /\ Read
    /\ last' = Snapshot(Reading)
    /\ UNCHANGED <<condition, events, stopping, cooled, failedOps, recs, throws>>

\* stop() up to its await: abort, unsubscribe, clear the timers.
StopCall ==
    /\ ctl # 0 /\ stopping = 0
    /\ ctl' = 0 /\ sub' = FALSE /\ timer' = FALSE /\ stopping' = ctl
    /\ recs' = [i \in DOMAIN recs |->
                  IF recs[i].abort = "no" THEN [recs[i] EXCEPT !.abort = "aborted"] ELSE recs[i]]
    /\ UNCHANGED <<condition, events, observed, notified, lifecycles, due, last, cooled,
                   failedOps, throws>>

\* Promise.allSettled over the recoveries that were active.
StopDone ==
    /\ stopping # 0 /\ \A i \in DOMAIN recs : recs[i].ctl > stopping
    /\ stopping' = 0
    /\ UNCHANGED <<condition, events, observed, notified, ctl, lifecycles, sub, recovery, throws>>

\* The observation timer fires and the status is read.
TimerFires ==
    /\ timer
    /\ Read /\ Observe(Reading, FALSE)
    /\ UNCHANGED <<condition, events, notified, lifecycle, due, failedOps, throws>>

\* The status read throws inside the timer callback: the timer is spent and
\* nothing arms another one.
ReadThrows ==
    /\ timer /\ throws < MaxThrows
    /\ throws' = throws + 1
    /\ timer' = FALSE
    /\ UNCHANGED <<condition, events, observed, notified, lifecycle, due, last, cooled,
                   failedOps, recs>>

\* A group-peer change reaches the status listener.
Notify ==
    /\ notified
    /\ notified' = FALSE
    /\ IF sub THEN Read /\ Observe(Reading, timer) ELSE UNCHANGED <<observed, last, timer, cooled, recs>>
    /\ UNCHANGED <<condition, events, lifecycle, due, failedOps, throws>>

BackoffOver ==
    /\ ~due /\ ctl # 0
    /\ due' = TRUE
    /\ UNCHANGED <<condition, events, observed, notified, lifecycle, timer, last, cooled,
                   failedOps, recs, throws>>

\* The network changes: one signal goes bad or comes back.
NetworkChanges ==
    /\ events < MaxEvents /\ events' = events + 1
    /\ \/ \E f \in {"dht", "router", "fresh", "behind", "idle"} :
             condition' = [condition EXCEPT ![f] = ~@] /\ UNCHANGED notified
       \/ \E b \in Backend : condition' = [condition EXCEPT !.failed = (@ \ {b}) \cup ({b} \ @)] /\ UNCHANGED notified
       \/ \E r \in Relay : condition' = [condition EXCEPT !.relays = (@ \ {r}) \cup ({r} \ @)] /\ UNCHANGED notified
       \/ \E p \in Peer : condition' = [condition EXCEPT !.direct = (@ \ {p}) \cup ({p} \ @)] /\ UNCHANGED notified
       \/ \E p \in Peer : condition' = [condition EXCEPT !.peers = (@ \ {p}) \cup ({p} \ @)] /\ notified' = TRUE
    /\ UNCHANGED <<observed, lifecycle, recovery, throws>>

-----------------------------------------------------------------------------
Recovery == \E i \in DOMAIN recs : Preserve(i) \/ Operate(i) \/ Wake(i) \/ Deadline(i) \/ Unwind(i)
PlaneNext ==
    \/ PlaneStart \/ StopCall \/ StopDone
    \/ TimerFires \/ ReadThrows \/ Notify \/ BackoffOver
    \/ Recovery \/ NetworkChanges
    \/ \E b \in Backend : CooldownOver(b)

\* Timers fire and continuations run; a mechanism that ignores its signal is
\* cut short by the parent deadline.
PlaneFairness ==
    /\ WF_planeVars(TimerFires) /\ WF_planeVars(Notify) /\ WF_planeVars(BackoffOver)
    /\ WF_planeVars(Recovery) /\ WF_planeVars(StopDone)

PlaneSpec == PlaneInit /\ [][PlaneNext]_planeVars /\ PlaneFairness

-----------------------------------------------------------------------------
(* Properties. *)

\* Whatever the order of timer, status event, stop and restart, at most one
\* recovery is ever running, also across a stop() that is still waiting for
\* the previous one (#observe returns while #activeRecoveries is not empty).
OneRecovery == Len(recs) <= 1

\* The observation loop never dies silently: while the coordinator is started
\* either its timer is armed or a recovery is running that will arm it, as
\* long as no status read has thrown.
ObservationPending == (ctl # 0 /\ throws = 0) => (timer \/ recs # << >>)

\* When stop() has resolved and nobody started again, nothing is left: no
\* timer, no subscription, no recovery (#scheduleObservation of a late
\* recovery must not arm a timer any more).
StopReleases == (ctl = 0 /\ stopping = 0) => (~timer /\ ~sub /\ recs = << >>)

\* The control plane runs at most one recovery, never loses its timer while it is started,
\* and holds nothing once stop() has resolved (#observe, #scheduleObservation, stop).
ObservationAlive == ObservationPending /\ OneRecovery /\ StopReleases

\* A node that stays started and cut off from every peer keeps trying: an
\* outage that persists is followed by recoveries again and again, each one
\* bounded.
OutageRetried ==
    <>[](ctl # 0 /\ throws = 0 /\ ~condition.idle /\ condition.peers = {})
        => ([]<>(recs # << >>) /\ []<>(recs = << >>))
=============================================================================
