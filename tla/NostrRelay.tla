------------------------------ MODULE NostrRelay ------------------------------
(***************************************************************************)
(* The Nostr rendezvous backend: NostrRelayDirectory of                    *)
(* packages/rendezvous/src/nostr.ts over the WebSocket connections of      *)
(* nostr-transport.ts.                                                     *)
(*                                                                         *)
(* A register signs one replaceable event and publishes it to every relay; *)
(* a discover queries every relay.  Each (operation, relay) pair is a leg  *)
(* with a socket of its own, opened for the operation and closed when the  *)
(* leg settles.  A relay (external) may answer late, never, or drop the    *)
(* socket; what a leg has sent may still reach the relay after the leg     *)
(* gave up.  Events that do not parse, do not validate or exceed the byte  *)
(* budget are not told apart from events never sent; the record cap is.    *)
(***************************************************************************)
EXTENDS Naturals, FiniteSets

CONSTANTS Relay,      \* relay endpoints
          Registers,  \* 1..n: the registrations of one record, by sequence
          Finds,      \* discover operations, numbered apart from the registrations
          Sessions,   \* the sets of operations a behaviour may consist of
          MaxRecords, \* maxResponseRecords
          MaxEvents,  \* bound: events a relay sends for one query
          MaxClock    \* bound: wall-clock seconds

VARIABLES clock,
          last,   \* #lastCreatedAtByReplacementKey of the record's key
          op,     \* operation -> [stage, created, after, end]
          leg,    \* operation -> relay -> the leg's connection
          wire,   \* EVENT frames on their way to a relay
          store   \* relay -> the event it keeps (external, NIP-01)

vars == <<clock, last, op, leg, wire, store>>

Ops == Registers \cup Finds
NoLeg == [pc |-> "none", socket |-> "none", reply |-> "none", sent |-> 0,
          queue |-> 0, got |-> 0, complete |-> FALSE, error |-> FALSE, result |-> "none"]

Init ==
    /\ clock = 0 /\ last = 0 /\ wire = {}
    /\ \E session \in Sessions :
          op = [o \in Ops |-> [stage |-> IF o \in session THEN "idle" ELSE "unused",
                               created |-> 0, after |-> {}, end |-> "none"]]
    /\ leg = [o \in Ops |-> [r \in Relay |-> NoLeg]]
    /\ store = [r \in Relay |-> [created |-> 0, seq |-> 0]]

-----------------------------------------------------------------------------
(* The operations *)

Opening == [NoLeg EXCEPT !.pc = "opening", !.socket = "connecting"]

\* register validates the record, discover goes straight to its relays.
\* `after` (history) names the registrations that had signed by then.
Start(o) ==
    /\ op[o].stage = "idle"
    /\ op' = [op EXCEPT ![o].stage = IF o \in Finds THEN "running" ELSE "signing",
                        ![o].after = {p \in Registers : op[p].created > 0}]
    /\ leg' = IF o \in Finds THEN [leg EXCEPT ![o] = [r \in Relay |-> Opening]] ELSE leg
    /\ UNCHANGED <<clock, last, wire, store>>

\* #createEvent: created_at never repeats for a replacement key, although the
\* wall clock counts whole seconds.  (0 stands for "none", so the clock is
\* shifted by one.)
\* Mutant of CreatedAt: the wall clock alone.
CreatedAtWall(wall, previous) == wall + 1

CreatedAt(wall, previous) == IF wall + 1 > previous THEN wall + 1 ELSE previous + 1

Sign(o) ==
    /\ op[o].stage = "signing" /\ op[o].created = 0
    /\ last' = CreatedAt(clock, last)
    /\ op' = [op EXCEPT ![o].created = CreatedAt(clock, last)]
    /\ UNCHANGED <<clock, leg, wire, store>>

\* The event is signed and every relay is tried; or the deadline of the
\* signer passes, which rejects the registration.
Publish(o) ==
    /\ op[o].stage = "signing" /\ op[o].created > 0
    /\ op' = [op EXCEPT ![o].stage = "running"]
    /\ leg' = [leg EXCEPT ![o] = [r \in Relay |-> Opening]]
    /\ UNCHANGED <<clock, last, wire, store>>

SignerTimesOut(o) ==
    /\ op[o].stage = "signing"
    /\ op' = [op EXCEPT ![o].stage = "settled", ![o].end = "failed"]
    /\ UNCHANGED <<clock, last, leg, wire, store>>

\* All legs have settled: one acceptance (or one answer) is success.
Settle(o) ==
    /\ op[o].stage = "running"
    /\ \A r \in Relay : leg[o][r].pc = "settled"
    /\ op' = [op EXCEPT ![o].stage = "settled",
          ![o].end = IF \E r \in Relay : leg[o][r].result = "accepted" THEN "ok" ELSE "failed"]
    /\ leg' = [leg EXCEPT ![o] = [r \in Relay |-> [NoLeg EXCEPT !.pc = "settled",
                                                              !.socket = leg[o][r].socket]]]
    /\ UNCHANGED <<clock, last, wire, store>>

-----------------------------------------------------------------------------
(* One leg: #withConnection, the socket, publish or query *)

LegIs(o, r, pcs) == leg[o][r].pc \in pcs
LegFrame == UNCHANGED <<clock, last, op, store>>

\* The leg settles: withDeadline ends, #withConnection's finally closes the
\* connection, and #terminate drops what was pending.
Settled(o, r, result) ==
    leg' = [leg EXCEPT ![o][r] = [@ EXCEPT !.pc = "settled", !.result = result,
                                           !.socket = "closed", !.reply = "none", !.queue = 0]]

\* waitForOpen resolves; the EVENT or REQ frame goes out at once.
Opened(o, r) ==
    /\ LegIs(o, r, {"opening"})
    /\ leg' = [leg EXCEPT ![o][r].socket = "open",
                          ![o][r].pc = IF o \in Finds THEN "query" ELSE "publish"]
    /\ wire' = IF o \in Finds THEN wire ELSE wire \cup {[op |-> o, relay |-> r]}
    /\ LegFrame

\* The socket fails to open, errors or closes; the open, publish or request
\* timeout passes; the caller's deadline fires.
Fails(o, r) ==
    /\ LegIs(o, r, {"opening", "publish", "query", "waiting", "validating"})
    /\ Settled(o, r, "failed")
    /\ UNCHANGED wire /\ LegFrame

\* The socket errors or closes under a query: a completed query still drains
\* its events, any other loses them and throws.
SocketLost(o, r) ==
    /\ LegIs(o, r, {"query", "waiting", "validating"}) /\ leg[o][r].socket = "open"
    /\ leg' = [leg EXCEPT ![o][r] = [@ EXCEPT !.socket = "closed",
          !.pc = IF @ = "waiting" THEN "query" ELSE @,
          !.queue = IF leg[o][r].complete THEN @ ELSE 0,
          !.error = @ \/ ~leg[o][r].complete]]
    /\ UNCHANGED wire /\ LegFrame

\* OK reaches the pending publish.
Acknowledged(o, r) ==
    /\ LegIs(o, r, {"publish"}) /\ leg[o][r].reply # "none"
    /\ Settled(o, r, leg[o][r].reply)
    /\ UNCHANGED wire /\ LegFrame

-----------------------------------------------------------------------------
(* query: the generator and the frames that wake it *)

\* The frame handler wakes a generator that waits.
Woken(l) == [l EXCEPT !.pc = IF @ = "waiting" THEN "query" ELSE @]

Listening(o, r) ==
    /\ LegIs(o, r, {"query", "waiting", "validating"}) /\ leg[o][r].socket = "open"
    /\ ~leg[o][r].complete /\ ~leg[o][r].error

EventFrame(o, r) ==
    /\ Listening(o, r) /\ leg[o][r].sent < MaxEvents
    /\ leg' = [leg EXCEPT ![o][r] = Woken([@ EXCEPT !.sent = @ + 1, !.queue = @ + 1])]
    /\ UNCHANGED wire /\ LegFrame

\* Mutant of Eose: the waiting generator is not woken.
EoseSilent(o, r) ==
    /\ Listening(o, r)
    /\ leg' = [leg EXCEPT ![o][r].complete = TRUE]
    /\ UNCHANGED wire /\ LegFrame

Eose(o, r) ==
    /\ Listening(o, r)
    /\ leg' = [leg EXCEPT ![o][r] = Woken([@ EXCEPT !.complete = TRUE])]
    /\ UNCHANGED wire /\ LegFrame

Closed(o, r) ==
    /\ Listening(o, r)
    /\ leg' = [leg EXCEPT ![o][r] = Woken([@ EXCEPT !.error = TRUE])]
    /\ UNCHANGED wire /\ LegFrame

\* Mutant of QueryLoop: completion is looked at before the queue.
QueryLoopEndsEarly(o, r) ==
    /\ LegIs(o, r, {"query"})
    /\ LET l == leg[o][r] IN
       CASE l.error -> Settled(o, r, "failed")
         [] ~l.error /\ l.complete -> Settled(o, r, "accepted")
         [] ~l.error /\ ~l.complete /\ l.queue > 0 ->
                leg' = [leg EXCEPT ![o][r] = [l EXCEPT !.queue = @ - 1, !.pc = "validating"]]
         [] OTHER -> leg' = [leg EXCEPT ![o][r].pc = "waiting"]
    /\ UNCHANGED wire /\ LegFrame

\* The generator: hand out a queued event, else end, else wait for a frame.
QueryLoop(o, r) ==
    /\ LegIs(o, r, {"query"})
    /\ LET l == leg[o][r] IN
       CASE l.queue > 0 -> leg' = [leg EXCEPT ![o][r] = [l EXCEPT !.queue = @ - 1, !.pc = "validating"]]
         [] l.queue = 0 /\ l.error -> Settled(o, r, "failed")
         [] l.queue = 0 /\ ~l.error /\ l.complete -> Settled(o, r, "accepted")
         [] OTHER -> leg' = [leg EXCEPT ![o][r].pc = "waiting"]
    /\ UNCHANGED wire /\ LegFrame

\* The consumer keeps the record and asks for the next one, unless the leg has
\* as many as it may return: then it leaves the loop.
Validated(o, r) ==
    /\ LegIs(o, r, {"validating"})
    /\ IF leg[o][r].got + 1 >= MaxRecords
       THEN leg' = [leg EXCEPT ![o][r] = [@ EXCEPT !.pc = "settled", !.result = "accepted",
                          !.socket = "closed", !.queue = 0, !.got = @ + 1]]
       ELSE leg' = [leg EXCEPT ![o][r] = [@ EXCEPT !.pc = "query", !.got = @ + 1]]
    /\ UNCHANGED wire /\ LegFrame

-----------------------------------------------------------------------------
(* The relay and the clock (external) *)

\* NIP-01: a relay keeps the replaceable event with the latest created_at, and
\* on a tie the one with the lower id, which is as good as arbitrary.
Keeps(e, kept) ==
    {e2 \in {e, kept} : \A e3 \in {e, kept} : e3.created <= e2.created}

RelayReceives(m) ==
    /\ \E kept \in Keeps([created |-> op[m.op].created, seq |-> m.op], store[m.relay]) :
          store' = [store EXCEPT ![m.relay] = kept]
    /\ wire' = wire \ {m}
    /\ \E answer \in {"none", "accepted", "failed"} :
          leg' = [leg EXCEPT ![m.op][m.relay].reply = IF LegIs(m.op, m.relay, {"publish"})
                                                     THEN answer ELSE @]
    /\ UNCHANGED <<clock, last, op>>

Lost(m) == wire' = wire \ {m} /\ UNCHANGED <<clock, last, op, leg, store>>

Tick ==
    /\ clock < MaxClock /\ clock' = clock + 1
    /\ UNCHANGED <<last, op, leg, wire, store>>

LegStep(o, r) == Fails(o, r) \/ Acknowledged(o, r) \/ QueryLoop(o, r) \/ Validated(o, r)

Frames(o, r) ==
    Opened(o, r) \/ SocketLost(o, r) \/ EventFrame(o, r) \/ Eose(o, r) \/ Closed(o, r)

OpStep(o) == Sign(o) \/ Publish(o) \/ SignerTimesOut(o) \/ Settle(o)

Next ==
    \/ \E o \in Ops : Start(o) \/ OpStep(o)
    \/ \E o \in Ops, r \in Relay : LegStep(o, r) \/ Frames(o, r)
    \/ \E m \in wire : RelayReceives(m) \/ Lost(m)
    \/ Tick

\* The generator and its consumer are run by the event loop; nothing is assumed
\* of relays, sockets or timers.
Fairness ==
    \A o \in Finds, r \in Relay : WF_vars(QueryLoop(o, r) \/ Validated(o, r))

Spec == Init /\ [][Next]_vars /\ Fairness

-----------------------------------------------------------------------------
\* A registration made after an earlier one had signed its event is never undone
\* by it: whatever is still on the wire, no relay goes back to the older record,
\* although both may be signed within one second (#lastCreatedAtByReplacementKey).
KeepsNewest ==
    \A r \in Relay : store'[r].seq # store[r].seq /\ store[r].seq # 0 =>
        store'[r].seq \notin op[store[r].seq].after

\* A leg that answered a discover holds every event its relay sent before EOSE,
\* up to the cap, although frames arrive while an earlier event is validated or
\* the generator waits (the events queue and wake of SubscriptionState).
QueryDrains ==
    \A o \in Finds, r \in Relay :
        leg[o][r].result = "accepted" =>
            leg[o][r].got = IF leg[o][r].sent < MaxRecords THEN leg[o][r].sent ELSE MaxRecords

\* A query that has its EOSE ends by itself: no frame that arrives while the
\* generator is busy is forgotten, so it never waits for a wake that has passed.
QueryEnded(o, r) == leg[o][r].complete => leg[o][r].pc = "settled"
=============================================================================
