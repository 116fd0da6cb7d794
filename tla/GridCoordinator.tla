-------------------------- MODULE GridCoordinator --------------------------
(***************************************************************************)
(* ControlPlaneCoordinator (packages/network-spike/src/grid/index.ts): the *)
(* cold start of a grid peer. A creator starts its node, reserves a relay, *)
(* creates the object and registers a signed record; a joiner starts its   *)
(* node, discovers and validates that record, reserves a relay of its own, *)
(* dials the creator, joins the object and proves a direct transport.      *)
(*                                                                         *)
(* A coordinator is a value, and every operator below is what it does      *)
(* between two awaits. "error" is the code of the GridCoordinatorError it  *)
(* throws, "none" as long as it throws none.                               *)
(***************************************************************************)
EXTENDS Naturals, Sequences, FiniteSets

NewCoordinator(role) ==
    [role |-> role, phase |-> "idle", events |-> {}, provenance |-> << >>, relays |-> {},
     object |-> FALSE, direct |-> FALSE, terminal |-> "none", error |-> "none"]

Throws(c, code) == [c EXCEPT !.error = code]
Note(c, kind, phase) == [c EXCEPT !.events = @ \cup {kind}, !.phase = phase]
Trace(c, steps) == [c EXCEPT !.provenance = @ \o steps]

\* #startNode, before and after the node has started.
NodeStarting(c) ==
    [Trace(c, IF c.role = "joiner" THEN <<"rendezvous register">> ELSE << >>) EXCEPT !.phase = "starting"]
NodeStarted(c) == Note(c, "host-started", "starting")

\* startJoiner up to the discovery, and what it makes of the records: a set
\* of those the directory returned, each with the relay of its address.
AskDirectory(c) == Note(Trace(NodeStarted(c), <<"discover">>), "registry-discover", "discovering-creator")
CreatorFound(c, records) ==
    IF records = {} THEN Throws(c, "CREATOR_RECORD_MISSING")
    ELSE Note(Trace(c, <<"validate">>), "record-validated", c.phase)
selectCreatorRecord(records) == CHOOSE r \in records : \A s \in records : r.sequence >= s.sequence

\* #acquireRelay: a policy that does not reserve ends the coordinator.
RelayAsked(c) ==
    Note(Trace(c, IF c.role = "joiner" THEN <<"routing-backed relay candidate">> ELSE << >>),
         "relay-discovery", "discovering-relay")
Fallen(result) == IF result.terminal = "owned-fallback" THEN "owned-fallback" ELSE "exhausted"
RelayAnswered(c, result) ==
    IF result.terminal = "reserved"
    THEN [Note(c, "relay-reservation", "reserved") EXCEPT !.relays = result.relays]
    ELSE Throws([Note(c, "terminal", "terminal") EXCEPT !.terminal = Fallen(result)], "RELAY_EXHAUSTED")

\* startCreator once it has a relay: the object, then the record.
ObjectCreated(c) == [c EXCEPT !.object = TRUE]
Registered(c) == Note(Trace(c, <<"rendezvous register">>), "registry-register", "registered")

\* circuitAddressFor and the dial. A record without a relayed address, or a
\* result without a reservation, is an error of its own.
DialBegins(c, record) ==
    IF c.relays = {} THEN Throws(c, "RELAY_EXHAUSTED")
    ELSE IF record.relay = "none" THEN Throws(c, "CREATOR_RECORD_MISSING")
    ELSE [Trace(c, <<"reservation", "dial">>) EXCEPT !.phase = "dialing-creator"]
Dialed(c) == Note(c, "creator-dial", c.phase)

\* waitUntil on the connection, connectObject, waitUntil on the mesh.
MeshReady(c) == Note(c, "mesh-ready", "mesh-ready")
Synced(c) == Note(c, "object-sync", "synced")
NotReady(c) == Throws(c, "MESH_NOT_READY")

\* isValidDirectProof: an open channel over WebRTC, both ends' selected
\* candidates direct ones, and bytes both ways.
Direct == {"host", "srflx", "prflx"}
isValidDirectProof(proof) ==
    /\ proof.open /\ proof.transport = "webrtc"
    /\ Len(proof.ice) = 2 /\ \A i \in 1..2 : proof.ice[i] \in Direct
    /\ proof.received > 0 /\ proof.sent > 0

\* #proveDirect and the end of startJoiner.
Proven(c, proof) ==
    IF ~c.object THEN Throws(c, "OBJECT_NOT_READY")
    ELSE IF ~isValidDirectProof(proof) THEN Throws(c, "DIRECT_PROOF_INVALID")
    ELSE [Note(Note(c, "direct-proof", "direct"), "terminal", "direct")
             EXCEPT !.direct = TRUE, !.terminal = "success"]

\* move and recoverRelay. A replacement leaves phase and proof alone.
Moved(c) == Note(c, "movement", c.phase)
RelayRecovered(c, result) ==
    IF result.terminal = "reserved"
    THEN [Note(c, "relay-recovery", c.phase) EXCEPT !.relays = result.relays]
    ELSE Throws([c EXCEPT !.terminal = Fallen(result)], "RELAY_EXHAUSTED")
=============================================================================
