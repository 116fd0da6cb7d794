---------------------------- MODULE GridSession ----------------------------
(***************************************************************************)
(* createGridBrowserPeer (packages/network-spike/src/grid/fixture.ts): the *)
(* creator's page and the joiner's page of a grid, each one driving a      *)
(* coordinator. They meet only in the registry, at the relays and over the *)
(* connection between them. Once the joiner has converged it has its own   *)
(* relay stopped, replaces the reservation, checks that the direct         *)
(* connection still carries data, and has the relay started again.         *)
(*                                                                         *)
(* The network is free to fail: relays refuse, dials and waits time out,   *)
(* the connection drops, the record lapses, a page is closed while the     *)
(* other is at work, and a call that starts or stops a relay may fail with *)
(* or without having had its effect.                                       *)
(***************************************************************************)
EXTENDS GridCoordinator, Integers

CONSTANT Relay      \* relays the routing endpoints return in a "success" scenario

Page == {"creator", "joiner"}
None == "none"

VARIABLES
    scenario,   \* of the joiner: "success" or "exhaustion"
    pc,         \* where createGridBrowserPeer is, per page
    coord,      \* the page's coordinator
    reserved,   \* the relay its policy holds, or None
    ops,        \* grid operations in the page's replica
    record,     \* the creator's record in the registry, a set of at most one
    found,      \* the records the joiner discovered
    link,       \* the connection between the pages: None, a relay or "direct"
    up,         \* relays that are running
    outcome,    \* the joiner's terminal
    recovery,   \* how far its relay recovery got
    failing,    \* an error is on its way out of the recovery's try block
    driver,     \* driveCreatorAfterJoin
    ctl         \* what the calls to the relay controls met with

joining == <<found, outcome, recovery, failing>>
vars == <<scenario, pc, coord, reserved, ops, record, link, up, joining, driver, ctl>>

\* FixtureGrid: a move of an actor that was added shifts its position.
Along(seen, actor, dir) == Cardinality({op \in seen : op[1] = actor /\ op[2] = dir})
position(seen, actor) ==
    IF <<actor, "add", 0>> \notin seen THEN << >>
    ELSE <<Along(seen, actor, "R") - Along(seen, actor, "L"), Along(seen, actor, "U") - Along(seen, actor, "D")>>
addUser(seen, actor) == seen \cup {<<actor, "add", 0>>}
moveUser(seen, actor, dir) ==
    IF <<actor, "add", 0>> \notin seen THEN seen
    ELSE seen \cup {<<actor, dir, Along(seen, actor, dir)>>}

Init ==
    /\ scenario \in {"success", "exhaustion"}
    /\ pc = [p \in Page |-> "idle"] /\ coord = [p \in Page |-> NewCoordinator(p)]
    /\ reserved = [p \in Page |-> None]
    /\ ops = [p \in Page |-> {}] /\ record = {} /\ found = {} /\ link = None /\ up = Relay
    /\ outcome = "success" /\ recovery = None /\ failing = FALSE
    /\ driver = "idle" /\ ctl = {}

Go(p, at, c) == pc' = [pc EXCEPT ![p] = at] /\ coord' = [coord EXCEPT ![p] = c]
Fail(p, c) == Go(p, "failed", c)
World == UNCHANGED <<record, link, up, ctl>>
Own == UNCHANGED <<reserved, ops, driver>>

-----------------------------------------------------------------------------
(* Both pages. *)

\* A page opens; the joiner's has the creator's namespace and object id.
OpenPage(p) ==
    /\ pc[p] = "idle" /\ (p = "joiner" => pc["creator"] = "ready")
    /\ Go(p, "starting", NodeStarting(coord[p]))
    /\ UNCHANGED <<reserved, ops, driver, joining>> /\ World

\* nodePort.start: the isolated host starts and the gater turns every known
\* seed away, or one of the two throws.
NodeStarts(p) ==
    /\ pc[p] = "starting"
    /\ \/ p = "creator" /\ Go(p, "acquiring", RelayAsked(NodeStarted(coord[p])))
       \/ p = "joiner" /\ Go(p, "discovering", AskDirectory(coord[p]))
       \/ Fail(p, coord[p])
    /\ UNCHANGED joining /\ Own /\ World

\* The policy behind createRelayPort: it reserves a relay that is running,
\* or ends without; the joiner of an exhaustion only gets refusing relays.
Reservable(p) == IF p = "joiner" /\ scenario = "exhaustion" THEN {} ELSE up
PolicyResults(p) ==
    {[terminal |-> "reserved", relays |-> {r}] : r \in Reservable(p)}
    \cup {[terminal |-> t, relays |-> {}] : t \in {"exhausted", "aborted"}}

\* The answer to acquire, and the page's catch: an exhaustion that was asked
\* for is an outcome, any other error leaves the page.
AcquireRelay(p) ==
    /\ pc[p] = "acquiring"
    /\ \E result \in PolicyResults(p) :
          LET c == RelayAnswered(coord[p], result)
              d == IF p = "joiner" THEN DialBegins(c, selectCreatorRecord(found)) ELSE c
              expected == p = "joiner" /\ scenario = "exhaustion" /\ result.terminal = "exhausted"
          IN /\ reserved' = [reserved EXCEPT ![p] = IF result.relays = {} THEN None
                                                    ELSE CHOOSE r \in result.relays : TRUE]
             /\ outcome' = IF expected THEN "exhausted" ELSE outcome
             /\ IF c.error # "none"
                THEN IF expected THEN Go(p, "rediscovering", c) ELSE Fail(p, c)
                ELSE IF d.error # "none" THEN Fail(p, d)
                ELSE Go(p, IF p = "creator" THEN "creating" ELSE "dialing", d)
    /\ UNCHANGED <<ops, driver, found, recovery, failing>> /\ World

\* session.stop: node and policy go together.
StopSession(p) ==
    /\ pc[p] = "ready"
    /\ Go(p, "stopped", coord[p])
    /\ reserved' = [reserved EXCEPT ![p] = None]
    /\ link' = None /\ driver' = IF p = "creator" THEN "done" ELSE driver
    /\ UNCHANGED <<ops, record, up, joining, ctl>>

\* session.move: the creator's player moves once more.
UserMoves ==
    /\ pc["creator"] = "ready" /\ <<"creator", "L", 0>> \notin ops["creator"]
    /\ ops' = [ops EXCEPT !["creator"] = moveUser(@, "creator", "L")]
    /\ Go("creator", "ready", Moved(coord["creator"]))
    /\ UNCHANGED <<reserved, driver, joining>> /\ World

-----------------------------------------------------------------------------
(* The creator. *)

CreateObject ==
    /\ pc["creator"] = "creating"
    /\ \/ /\ Go("creator", "recording", ObjectCreated(coord["creator"]))
          /\ ops' = [ops EXCEPT !["creator"] = addUser(@, "creator")]
       \/ Fail("creator", coord["creator"]) /\ UNCHANGED ops
    /\ UNCHANGED <<reserved, driver, joining>> /\ World

\* recordFactory.create waits for an address on the relay, then the record
\* is registered; both give up after a while.
RegisterRecord ==
    /\ pc["creator"] = "recording"
    /\ \/ /\ reserved["creator"] \in up
          /\ record' = {[relay |-> reserved["creator"], sequence |-> 1]}
          /\ Go("creator", "validating", Registered(coord["creator"]))
       \/ Fail("creator", coord["creator"]) /\ UNCHANGED record
    /\ UNCHANGED <<link, up, joining, ctl>> /\ Own

\* validateFixtureRecord, and driveCreatorAfterJoin started on the side.
ValidateOwn ==
    /\ pc["creator"] = "validating"
    /\ IF record # {}
       THEN Go("creator", "ready", coord["creator"]) /\ driver' = "waiting"
       ELSE Fail("creator", coord["creator"]) /\ UNCHANGED driver
    /\ UNCHANGED <<reserved, ops, joining>> /\ World

DriveCreator ==
    /\ driver = "waiting"
    /\ driver' = "done"
    /\ \/ /\ position(ops["creator"], "joiner") # << >>
          /\ ops' = [ops EXCEPT !["creator"] = moveUser(moveUser(@, "creator", "R"), "creator", "U")]
       \/ position(ops["creator"], "joiner") = << >> /\ UNCHANGED ops
    /\ UNCHANGED <<pc, coord, reserved, joining>> /\ World

-----------------------------------------------------------------------------
(* The joiner, up to the proof. *)

J == coord["joiner"]

\* directory.discover: the record, nothing, or no registry to ask.
Discover ==
    /\ pc["joiner"] = "discovering"
    /\ \/ LET c == CreatorFound(J, record)
          IN IF c.error # "none" THEN Fail("joiner", c) ELSE Go("joiner", "acquiring", RelayAsked(c))
       \/ Fail("joiner", J)
    /\ found' = record
    /\ UNCHANGED <<outcome, recovery, failing>> /\ Own /\ World

\* connect: over the relay of the creator's record, while that still holds.
DialCreator ==
    /\ pc["joiner"] = "dialing"
    /\ \/ LET via == selectCreatorRecord(found).relay
          IN via \in up /\ reserved["creator"] = via /\ link' = via /\ Go("joiner", "connecting", Dialed(J))
       \/ Fail("joiner", J) /\ UNCHANGED link
    /\ UNCHANGED <<record, up, joining, ctl>> /\ Own

\* waitUntil: the condition holds at some poll, or the wait gives up.
Await(at, holds, next, c) ==
    /\ pc["joiner"] = at
    /\ \/ holds /\ Go("joiner", next, c)
       \/ ~holds /\ Fail("joiner", NotReady(J))

AwaitConnection ==
    /\ Await("connecting", link # None, "joining", MeshReady(J))
    /\ UNCHANGED joining /\ Own /\ World

\* connectObject with a sync from the creator, then addUser.
JoinObject ==
    /\ pc["joiner"] = "joining"
    /\ \/ /\ Go("joiner", "meshing", ObjectCreated(J))
          /\ ops' = [ops EXCEPT !["joiner"] = addUser(@ \cup (IF link # None THEN ops["creator"] ELSE {}), "joiner")]
       \/ Fail("joiner", J) /\ UNCHANGED ops
    /\ UNCHANGED <<reserved, driver, joining>> /\ World

\* The wait for the object's mesh; and one without a deadline.
AwaitMeshForever ==
    /\ pc["joiner"] = "meshing" /\ link # None /\ Go("joiner", "proving", Synced(J))
    /\ UNCHANGED joining /\ Own /\ World
AwaitMesh ==
    /\ Await("meshing", link # None, "proving", Synced(J))
    /\ UNCHANGED joining /\ Own /\ World

\* inspectDirectProof: waits for the WebRTC connection and for bytes on it;
\* what it sees may still fall short of the oracle.
Proofs ==
    {[open |-> TRUE, transport |-> "webrtc", ice |-> <<"host", t>>, received |-> 1, sent |-> 1] : t \in {"srflx", "relay"}}
ProveDirect ==
    /\ pc["joiner"] = "proving"
    /\ \/ /\ link = "direct"
          /\ \E proof \in Proofs :
                LET c == Proven(J, proof)
                IN IF c.error # "none" THEN Fail("joiner", c) ELSE Go("joiner", "rediscovering", c)
       \/ link # "direct" /\ Fail("joiner", J)
    /\ UNCHANGED joining /\ Own /\ World

-----------------------------------------------------------------------------
(* The joiner's evidence and its relay recovery. *)

\* The page asks the registry again for the record it reports. Its verdict
\* is recorded, not acted on; only a missing record is an error.
Rediscover ==
    /\ pc["joiner"] = "rediscovering"
    /\ \/ record # {} /\ Go("joiner", IF outcome = "success" THEN "converging" ELSE "ready", J)
       \/ Fail("joiner", J)
    /\ UNCHANGED joining /\ Own /\ World

\* driveJoiner: the creator's moves have arrived, then the joiner's own.
DriveJoiner ==
    /\ pc["joiner"] = "converging"
    /\ \/ /\ position(ops["joiner"], "creator") = <<1, 1>>
          /\ ops' = [ops EXCEPT !["joiner"] = moveUser(moveUser(@, "joiner", "L"), "joiner", "D")]
          /\ Go("joiner", "agreeing", Moved(J))
       \/ position(ops["joiner"], "creator") # <<1, 1>> /\ Fail("joiner", J) /\ UNCHANGED ops
    /\ UNCHANGED <<reserved, driver, joining>> /\ World

AwaitAgreement ==
    /\ Await("agreeing", position(ops["joiner"], "creator") = <<1, 1>> /\ position(ops["joiner"], "joiner") = <<-1, -1>>,
             "stopping-relay", J)
    /\ UNCHANGED joining /\ Own /\ World

\* setRelayFixtureRunning(selected, false), outside the try block.
StopRelay ==
    /\ pc["joiner"] = "stopping-relay"
    /\ \/ /\ up' = up \ {reserved["joiner"]} /\ Go("joiner", "removing", J) /\ UNCHANGED ctl
       \/ /\ up' \in {up, up \ {reserved["joiner"]}} /\ Fail("joiner", J) /\ ctl' = ctl \cup {"stop"}
    /\ link' = IF link \in up' \cup {"direct", None} THEN link ELSE None
    /\ UNCHANGED <<record, joining>> /\ Own

\* The try block: any error in it leaves through the finally block.
Step(at, holds, next, c, done) ==
    /\ pc["joiner"] = at
    /\ \/ holds /\ Go("joiner", next, c) /\ recovery' = done /\ UNCHANGED failing
       \/ Go("joiner", "restarting-relay", J) /\ failing' = TRUE /\ UNCHANGED recovery

AwaitRemoval ==
    /\ Step("removing", reserved["joiner"] \notin up, "recovering", J, "removed")
    /\ UNCHANGED <<found, outcome>> /\ Own /\ World

\* recoverRelay and the move after it.
RecoverRelay ==
    /\ pc["joiner"] = "recovering"
    /\ \E result \in PolicyResults("joiner") :
          LET c == RelayRecovered(J, result)
          IN IF c.error # "none"
             THEN /\ Go("joiner", "restarting-relay", c) /\ failing' = TRUE
                  /\ reserved' = [reserved EXCEPT !["joiner"] = None] /\ UNCHANGED <<ops, recovery>>
             ELSE /\ Go("joiner", "retaining", Moved(c)) /\ recovery' = "replaced"
                  /\ reserved' = [reserved EXCEPT !["joiner"] = CHOOSE r \in result.relays : TRUE]
                  /\ ops' = [ops EXCEPT !["joiner"] = moveUser(@, "joiner", "R")]
                  /\ UNCHANGED failing
    /\ UNCHANGED <<driver, found, outcome>> /\ World

AwaitRetained ==
    /\ Step("retaining", link = "direct", "measuring", J, recovery)
    /\ UNCHANGED <<found, outcome>> /\ Own /\ World
AwaitBytes ==
    /\ Step("measuring", link = "direct", "restarting-relay", J,
            IF position(ops["joiner"], "joiner")[1] = 0 THEN "converged" ELSE "diverged")
    /\ UNCHANGED <<found, outcome>> /\ Own /\ World

\* The finally block; one that is reached only when nothing failed, and one
\* that swallows the failure.
Restart ==
    /\ \/ up' = Relay /\ Go("joiner", IF failing THEN "failed" ELSE "ready", J) /\ UNCHANGED ctl
       \/ up' \in {up, Relay} /\ Fail("joiner", J) /\ ctl' = ctl \cup {"start"}
RestartUnlessFailing ==
    /\ pc["joiner"] = "restarting-relay"
    /\ IF failing THEN Fail("joiner", J) /\ UNCHANGED <<up, ctl>> ELSE Restart
    /\ UNCHANGED <<record, link, joining>> /\ Own
RestartSwallows ==
    /\ pc["joiner"] = "restarting-relay"
    /\ up' = Relay /\ Go("joiner", "ready", J)
    /\ UNCHANGED <<record, link, joining, ctl>> /\ Own
RestartRelay ==
    /\ pc["joiner"] = "restarting-relay"
    /\ Restart
    /\ UNCHANGED <<record, link, joining>> /\ Own

-----------------------------------------------------------------------------
(* The network. *)

Upgrade ==
    /\ link \in Relay /\ link' = "direct"
    /\ UNCHANGED <<pc, coord, reserved, ops, record, up, joining, driver, ctl>>

Drop ==
    /\ link # None /\ link' = None
    /\ UNCHANGED <<pc, coord, reserved, ops, record, up, joining, driver, ctl>>

\* Gossip or anti-entropy carries one replica's operations to the other.
Deliver(p, q) ==
    /\ link # None /\ ~ops[p] \subseteq ops[q] /\ q \in {r \in Page : coord[r].object}
    /\ ops' = [ops EXCEPT ![q] = @ \cup ops[p]]
    /\ UNCHANGED <<pc, coord, reserved, record, link, up, joining, driver, ctl>>

\* Nobody renews the record.
LapseRecord ==
    /\ record # {} /\ record' = {}
    /\ UNCHANGED <<pc, coord, reserved, ops, link, up, joining, driver, ctl>>

Creator == NodeStarts("creator") \/ AcquireRelay("creator") \/ CreateObject \/ RegisterRecord \/ ValidateOwn
Joiner ==
    \/ NodeStarts("joiner") \/ Discover \/ AcquireRelay("joiner") \/ DialCreator \/ AwaitConnection
    \/ JoinObject \/ AwaitMesh \/ ProveDirect \/ Rediscover \/ DriveJoiner \/ AwaitAgreement
    \/ StopRelay \/ AwaitRemoval \/ RecoverRelay \/ AwaitRetained \/ AwaitBytes \/ RestartRelay

Next ==
    /\ UNCHANGED scenario
    /\ \/ Creator \/ Joiner \/ DriveCreator \/ UserMoves
       \/ \E p \in Page : OpenPage(p) \/ StopSession(p)
       \/ Upgrade \/ Drop \/ LapseRecord \/ Deliver("creator", "joiner") \/ Deliver("joiner", "creator")

\* Every wait of a page has a timeout, so a page that is at work moves on.
CreatorRuns == Creator /\ UNCHANGED scenario
JoinerRuns == Joiner /\ UNCHANGED scenario
Spec == Init /\ [][Next]_vars /\ WF_vars(CreatorRuns) /\ WF_vars(JoinerRuns)

-----------------------------------------------------------------------------
Settled == {"failed", "ready", "stopped"}

\* However the joiner's page ends, the relay it had stopped for its recovery
\* check is running again, unless a call to the relay's control failed: the
\* finally block runs for every failure inside the check.
RelayRestored == pc["joiner"] \in Settled /\ ctl = {} => up = Relay

\* A page reports success only with a validated direct proof, a replaced
\* relay that is running and a replica that has its own moves; it reports
\* exhaustion only without a proof.
SuccessIsProven ==
    pc["joiner"] = "ready" =>
        IF outcome = "success"
        THEN J.direct /\ J.terminal = "success" /\ recovery = "converged" /\ reserved["joiner"] \in up
        ELSE ~J.direct /\ J.terminal = "exhausted" /\ reserved["joiner"] = None

\* A page that was opened ends ready, stopped or with an error.
PageSettled(p) == pc[p] \in Settled \cup {"idle"}
=============================================================================
