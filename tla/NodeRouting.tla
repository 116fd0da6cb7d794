----------------------------- MODULE NodeRouting -----------------------------
(***************************************************************************)
(* NodeRouting of packages/routing-node/src/index.ts: measured operations  *)
(* under a lifetime operation cap and a shared request budget, closest-    *)
(* peers walks with a request window of their own, the queue of            *)
(* reachability observations, and the shared stop().                       *)
(*                                                                         *)
(* An operation is a walk (getClosestPeers on the public network) or a     *)
(* measured call (connect, findPeer, provide, ... differ in the libp2p     *)
(* call only).  A reachability status is a value of Status.                *)
(***************************************************************************)
EXTENDS Naturals, Sequences

CONSTANTS Measured, Walks,  \* operations
          MaxOperations,    \* limits.maxOperations
          MaxRequests,      \* limits.maxNetworkRequests
          Window,           \* closestPeersMaxNetworkRequests
          MaxResults,       \* limits.maxResults
          Status,           \* what an observation can say
          MaxUpdates        \* bound: self:peer:update events

VARIABLES op,        \* operation -> [pc, sent, found, timed]
          started,   \* #operations
          consumed,  \* #requestBudget
          status,    \* the host's verified addresses (external)
          updates,
          first,     \* the recording initialize() makes
          queue,     \* #reachabilityQueue: the recordings updates asked for
          log,       \* #reachability
          stop       \* "no" | "queue" | "network" | "done" | "rejected"

vars == <<op, started, consumed, status, updates, first, queue, log, stop>>
Ops == Measured \cup Walks
Recording == [stage |-> "asked", seen |-> "none"]

Init ==
    /\ op = [o \in Ops |-> [pc |-> "new", sent |-> 0, found |-> 0, timed |-> FALSE]]
    /\ started = 0 /\ consumed = 0 /\ updates = 0
    /\ status \in Status
    /\ first = Recording /\ queue = <<>>
    /\ log = <<>> /\ stop = "no"

\* #assertRunning: #stopped is set, or the host leaves "started", only once the
\* network owner has stopped.
Running == stop \notin {"done", "network"}

OpFrame == UNCHANGED <<status, updates, first, queue, log, stop>>
Ends(o, end) == op' = [op EXCEPT ![o].pc = end]

\* #measure and #measureStream: a walk of the public network is not counted.
Begin(o) ==
    /\ op[o].pc = "new"
    /\ IF ~Running THEN Ends(o, "refused") /\ UNCHANGED started
       ELSE IF o \in Walks THEN Ends(o, "running") /\ UNCHANGED started
       ELSE /\ started' = started + 1
            /\ Ends(o, IF started + 1 > MaxOperations THEN "refused" ELSE "running")
    /\ UNCHANGED consumed /\ OpFrame

\* kad-dht:query:send-query of a measured call: the budget throws when spent.
Query(o) ==
    /\ o \in Measured /\ op[o].pc = "running"
    /\ IF consumed + 1 > MaxRequests THEN Ends(o, "failed") /\ UNCHANGED consumed
       ELSE /\ consumed' = consumed + 1
            /\ op' = [op EXCEPT ![o].sent = @ + 1]
    /\ UNCHANGED started /\ OpFrame

\* The same progress event in a walk: with the window spent it closes the walk.
WalkQuery(o) ==
    /\ o \in Walks /\ op[o].pc = "running"
    /\ op' = [op EXCEPT ![o].sent = IF @ = Window THEN @ ELSE @ + 1,
                        ![o].pc = IF op[o].sent + 1 >= Window THEN "closing" ELSE @]
    /\ UNCHANGED <<started, consumed>> /\ OpFrame

\* A peer is found; the walk ends at maxResults.
Found(o) ==
    /\ o \in Walks /\ op[o].pc = "running"
    /\ op' = [op EXCEPT ![o].found = @ + 1,
                        ![o].pc = IF op[o].found + 1 >= MaxResults THEN "ended" ELSE @]
    /\ UNCHANGED <<started, consumed>> /\ OpFrame

Returns(o) ==
    /\ op[o].pc = "running" /\ ~op[o].timed
    /\ Ends(o, "ended")
    /\ UNCHANGED <<started, consumed>> /\ OpFrame

\* operationGuard: the timeout or the caller's signal fires.
GuardFires(o) ==
    /\ op[o].pc \in {"running", "closing"} /\ ~op[o].timed
    /\ op' = [op EXCEPT ![o].timed = TRUE, ![o].pc = IF @ = "running" THEN "failed" ELSE @]
    /\ UNCHANGED <<started, consumed>> /\ OpFrame

\* The catch of #walkClosestPeers: a window that closed is an end, not an error,
\* unless the guard has fired as well.
WindowCloses(o) ==
    /\ op[o].pc = "closing"
    /\ Ends(o, IF op[o].timed THEN "failed" ELSE "ended")
    /\ UNCHANGED <<started, consumed>> /\ OpFrame

-----------------------------------------------------------------------------
ReachFrame == UNCHANGED <<op, started, consumed>>

\* self:peer:update, while the listener is attached.
Update ==
    /\ stop = "no" /\ updates < MaxUpdates /\ updates' = updates + 1
    /\ \E s \in Status : status' = s
    /\ queue' = Append(queue, Recording)
    /\ UNCHANGED <<first, log, stop>> /\ ReachFrame

\* #recordReachability: sample the addresses and whether they are dialable ...
Sampled == [stage |-> "sampled", seen |-> status]

\* ... and, after the awaits, record what differs from the last observation.
Recorded(seen) ==
    IF log = <<>> \/ log[Len(log)] # seen THEN Append(log, seen) ELSE log

\* initialize() records outside the queue, before the routing is handed out.
Initialize ==
    /\ \/ first.stage = "asked" /\ first' = Sampled /\ UNCHANGED log
       \/ /\ first.stage = "sampled"
          /\ first' = [first EXCEPT !.stage = "over"]
          /\ log' = Recorded(first.seen)
    /\ UNCHANGED <<status, updates, queue, stop>> /\ ReachFrame

Record ==
    /\ queue # <<>>
    /\ \/ /\ queue[1].stage = "asked"
          /\ queue' = IF Running THEN [queue EXCEPT ![1] = Sampled] ELSE Tail(queue)
          /\ UNCHANGED log
       \/ /\ queue[1].stage = "sampled"
          /\ queue' = Tail(queue) /\ log' = Recorded(queue[1].seen)
    /\ UNCHANGED <<status, updates, first, stop>> /\ ReachFrame

\* A recording of the queue that throws (its guard fired) is dropped.
RecordFails ==
    /\ queue # <<>> /\ queue[1].stage = "sampled"
    /\ queue' = Tail(queue)
    /\ UNCHANGED <<status, updates, first, log, stop>> /\ ReachFrame

\* stop(): detach the listener, wait for the queue, stop the network owner; every
\* caller shares the one promise, a rejected one included.
StopFrame == UNCHANGED <<status, updates, first, queue, log>> /\ ReachFrame

StopCall == stop = "no" /\ first.stage = "over" /\ stop' = "queue" /\ StopFrame

\* Mutant of StopNetwork: the queue is not awaited.
StopNetworkAtOnce == stop = "queue" /\ stop' = "network" /\ StopFrame

StopNetwork == stop = "queue" /\ queue = <<>> /\ stop' = "network" /\ StopFrame

StopEnds == stop = "network" /\ stop' \in {"done", "rejected"} /\ StopFrame

Next ==
    \/ \E o \in Ops : \/ Begin(o) \/ Query(o) \/ WalkQuery(o) \/ Found(o) \/ Returns(o)
                      \/ GuardFires(o) \/ WindowCloses(o)
    \/ Update \/ Initialize \/ Record \/ RecordFails
    \/ StopCall \/ StopNetwork \/ StopEnds

Spec == Init /\ [][Next]_vars

-----------------------------------------------------------------------------
\* No observation is recorded once stop() has begun to stop the network: the
\* listener is gone and the queue was awaited first.  And consecutive
\* observations differ, although updates are sampled across awaits.
ReachabilityLog ==
    /\ stop \in {"network", "done", "rejected"} => queue = <<>>
    /\ \A k \in 1..(Len(log) - 1) : log[k] # log[k + 1]
=============================================================================
