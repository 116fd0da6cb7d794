----------------------------- MODULE RelayClient -----------------------------
(***************************************************************************)
(* Libp2pRelayClient (packages/relay-policy/src/libp2p-client.ts) on one   *)
(* relay: Identify before a reservation, RESERVE, the circuit listener,    *)
(* and the release of what was acquired. The policy abandons a call that   *)
(* misses its deadline, so a reservation may go on beside a later one and  *)
(* beside a release; RelayPolicy is the policy's side of it.               *)
(*                                                                         *)
(* The host is libp2p: a listener is made by listen(), which resolves once *)
(* its circuit address is advertised and rejects when there will be none;  *)
(* when the relay goes away its listeners are closed.                      *)
(***************************************************************************)
EXTENDS Integers, Sequences, FiniteSets

CONSTANTS Call, MaxListeners, MaxReleases

VARIABLES
    call,       \* inspect and reserve calls
    connection, \* whether the host has a connection to the relay
    listeners,  \* the host's circuit listeners: "opening", "advertised", "closed"
    entries,    \* LiveCircuitReservation objects made so far
    active,     \* #active.get(peerId): an index of entries, or 0
    inspected,  \* whether #inspectedAddresses has the relay
    watching,   \* the calls with a peer:identify listener on the host
    release,    \* the release in progress
    releases    \* how many there were

vars == <<call, connection, listeners, entries, active, inspected, watching, release, releases>>

Idle == [pc |-> "idle", listener |-> 0]
NoEntry == 0
Advertised == {l \in DOMAIN listeners : listeners[l] = "advertised"}
Goto(c, pc) == call' = [call EXCEPT ![c].pc = pc]

Init ==
    /\ call = [c \in Call |-> Idle] /\ connection = FALSE /\ listeners = << >> /\ entries = << >>
    /\ active = NoEntry /\ inspected = FALSE /\ watching = {} /\ release = Idle /\ releases = 0

-----------------------------------------------------------------------------
(* inspect: the identify listener is put in place before the dial and      *)
(* taken away in the finally. For comparison, one that goes only when the  *)
(* event came.                                                             *)

Inspect(c) ==
    /\ call[c].pc = "idle" /\ watching' = watching \cup {c}
    /\ Goto(c, "inspectConnect")
    /\ UNCHANGED <<connection, listeners, entries, active, inspected, release, releases>>
InspectConnected(c) ==
    /\ call[c].pc = "inspectConnect" /\ connection' = TRUE
    /\ Goto(c, "inspectWait")
    /\ UNCHANGED <<listeners, entries, active, inspected, watching, release, releases>>
CancelForgets(c) == watching' = watching
Cancel(c) == watching' = watching \ {c}
\* The connection is there, and the protocols are known from the peer store
\* or the event: the address is remembered whether or not HOP is among them.
InspectOk(c) ==
    /\ call[c].pc = "inspectWait" /\ connection
    /\ inspected' = TRUE /\ Goto(c, "idle") /\ Cancel(c)
    /\ UNCHANGED <<connection, listeners, entries, active, release, releases>>
\* The dial fails, waitForValue runs out, or the signal aborts.
InspectFails(c) ==
    /\ call[c].pc \in {"inspectConnect", "inspectWait"}
    /\ Goto(c, "idle") /\ Cancel(c)
    /\ UNCHANGED <<connection, listeners, entries, active, inspected, release, releases>>

-----------------------------------------------------------------------------
(* reserve and refresh. *)

\* #rememberListener: into the entry of the relay, or a new one. A call
\* without a listener to remember changes nothing.
Remember(ls) ==
    IF ls = {} THEN UNCHANGED <<entries, active>>
    ELSE IF active = NoEntry
    THEN entries' = Append(entries, [listeners |-> ls, disconnected |-> FALSE]) /\ active' = Len(entries')
    ELSE entries' = [entries EXCEPT ![active] = [listeners |-> @.listeners \cup ls, disconnected |-> FALSE]] /\ UNCHANGED active
\* #rememberMatchingListeners; for comparison, a no-op.
RememberNothing == UNCHANGED <<entries, active>>
RememberMatching == Remember(Advertised)

Reserve(c) ==
    /\ call[c].pc = "idle" /\ Goto(c, "connect")
    /\ UNCHANGED <<connection, listeners, entries, active, inspected, watching, release, releases>>
Connected(c) ==
    /\ call[c].pc = "connect" /\ connection' = TRUE /\ Goto(c, "request")
    /\ UNCHANGED <<listeners, entries, active, inspected, watching, release, releases>>
\* The relay answers anything but OK, the stream or the dial fails, the wait
\* for the connection runs out: nothing was acquired.
Refused(c) ==
    /\ call[c].pc \in {"connect", "request"} /\ Goto(c, "idle")
    /\ UNCHANGED <<connection, listeners, entries, active, inspected, watching, release, releases>>
\* OK: a circuit that is advertised already is used, otherwise one is opened.
ReserveOk(c) ==
    /\ call[c].pc = "request" /\ connection
    /\ IF Advertised # {} THEN Goto(c, "await") /\ UNCHANGED listeners
       ELSE /\ Len(listeners) < MaxListeners /\ listeners' = Append(listeners, "opening")
            /\ call' = [call EXCEPT ![c] = [pc |-> "listen", listener |-> Len(listeners')]]
    /\ UNCHANGED <<connection, entries, active, inspected, watching, release, releases>>
\* listen() resolves: what is advertised is remembered at once.
Listened(c) ==
    /\ call[c].pc = "listen" /\ listeners[call[c].listener] # "opening" /\ Goto(c, "await") /\ RememberMatching
    /\ UNCHANGED <<connection, listeners, inspected, watching, release, releases>>
\* The address is seen and its listener found.
ReserveEnds(c) ==
    /\ call[c].pc = "await" /\ Goto(c, "idle")
    /\ \E l \in Advertised : Remember({l})
    /\ UNCHANGED <<connection, listeners, inspected, watching, release, releases>>
\* listen() rejects, a wait runs out, or the signal aborts: the catch
\* remembers what there is before it throws. listen() does not take the
\* signal.
ReserveThrows(c) ==
    /\ \/ call[c].pc = "await" /\ UNCHANGED listeners
       \/ /\ call[c].pc = "listen" /\ listeners[call[c].listener] = "opening"
          /\ listeners' = [listeners EXCEPT ![call[c].listener] = "closed"]
    /\ Goto(c, "idle") /\ RememberMatching
    /\ UNCHANGED <<connection, inspected, watching, release, releases>>

-----------------------------------------------------------------------------
(* release. The policy releases what a reservation gave it, one release at *)
(* a time, so there is an entry when it begins.                            *)

Release ==
    /\ release = Idle /\ active # NoEntry /\ releases < MaxReleases
    /\ release' = [pc |-> "closing", entry |-> active, left |-> entries[active].listeners]
    /\ releases' = releases + 1
    /\ UNCHANGED <<call, connection, listeners, entries, active, inspected, watching>>
\* One listener after the other of those there were at the start; a close
\* that fails leaves the listener in the entry.
CloseListener(l, fails) ==
    /\ release.pc = "closing" /\ l \in release.left
    /\ release' = [release EXCEPT !.left = @ \ {l}]
    /\ IF fails THEN UNCHANGED <<listeners, entries>>
       ELSE /\ listeners' = [listeners EXCEPT ![l] = "closed"]
            /\ entries' = [entries EXCEPT ![release.entry].listeners = @ \ {l}]
    /\ UNCHANGED <<call, connection, active, inspected, watching, releases>>
Disconnecting ==
    /\ release.pc = "closing" /\ release.left = {}
    /\ release' = [release EXCEPT !.pc = IF entries[release.entry].disconnected THEN "ending" ELSE "disconnecting"]
    /\ UNCHANGED <<call, connection, listeners, entries, active, inspected, watching, releases>>
Disconnected(fails) ==
    /\ release.pc = "disconnecting" /\ release' = [release EXCEPT !.pc = "ending"]
    /\ IF fails THEN UNCHANGED <<connection, entries>>
       ELSE connection' = FALSE /\ entries' = [entries EXCEPT ![release.entry].disconnected = TRUE]
    /\ UNCHANGED <<call, listeners, active, inspected, watching, releases>>
\* The entry goes only when there is nothing left to release in it.
Released(e) == entries[e].listeners = {} /\ entries[e].disconnected
ReleaseEnds ==
    /\ release.pc = "ending" /\ release' = Idle
    /\ IF Released(release.entry) THEN active' = NoEntry /\ inspected' = FALSE ELSE UNCHANGED <<active, inspected>>
    /\ UNCHANGED <<call, connection, listeners, entries, watching, releases>>

\* The host: a listener begins to advertise, the relay goes away.
Advertise(l) ==
    /\ listeners[l] = "opening" /\ connection
    /\ listeners' = [listeners EXCEPT ![l] = "advertised"]
    /\ UNCHANGED <<call, connection, entries, active, inspected, watching, release, releases>>
RelayGone ==
    /\ connection /\ connection' = FALSE
    /\ listeners' = [l \in DOMAIN listeners |-> IF listeners[l] = "advertised" THEN "closed" ELSE listeners[l]]
    /\ UNCHANGED <<call, entries, active, inspected, watching, release, releases>>

Next ==
    \/ \E c \in Call :
         \/ Inspect(c) \/ InspectConnected(c) \/ InspectOk(c) \/ InspectFails(c)
         \/ Reserve(c) \/ Connected(c) \/ Refused(c) \/ ReserveOk(c)
         \/ Listened(c) \/ ReserveEnds(c) \/ ReserveThrows(c)
    \/ Release \/ Disconnecting \/ ReleaseEnds \/ RelayGone
    \/ \E fails \in BOOLEAN : Disconnected(fails) \/ \E l \in DOMAIN listeners : CloseListener(l, fails)
    \/ \E l \in DOMAIN listeners : Advertise(l)

Spec == Init /\ [][Next]_vars

-----------------------------------------------------------------------------
\* No circuit is lost: a listener that advertises is in the entry of its
\* relay, where a release finds it, unless a call is still on the way to
\* remembering it. A reservation that its deadline cut off, a close that
\* failed and a release that overtakes a late reservation leave no circuit
\* behind (#rememberMatchingListeners in the catch, the condition of the
\* delete in release).
CircuitsRemembered ==
    (\A c \in Call : call[c].pc \notin {"listen", "await"}) =>
        Advertised \subseteq (IF active = NoEntry THEN {} ELSE entries[active].listeners)

\* Identify is watched only while a call needs it (the finally of inspect).
WatchedByCalls == \A c \in watching : call[c].pc \in {"inspectConnect", "inspectWait"}
=============================================================================
