------------------------------ MODULE Invites ------------------------------
(***************************************************************************)
(* Signed invites (packages/rendezvous/src/invite.ts) and the validation   *)
(* of the contact records they carry (RecordValidator, record.ts): an      *)
(* issuer encodes an invite, a client decodes it and then asks its         *)
(* InviteDirectory for contacts again and again, while time passes, DNS    *)
(* answers change, and the invite may be altered on its way.               *)
(*                                                                         *)
(* A validation awaits the signature check and every DNS resolution, so a  *)
(* call is a sequence of steps. Each call makes a validator of its own,    *)
(* whose ledger of sequences starts empty. The addresses of a contact are  *)
(* judged by the AddressPolicy.                                            *)
(***************************************************************************)
EXTENDS Integers, Sequences, FiniteSets

CONSTANTS
    Contact,        \* signed records the issuer may know: peer, namespace,
                    \* sequence, expires, addresses, defect
    Answers,        \* what DNS may answer: sets of families and scopes
    MaxContacts,    \* MAX_CONTACTS
    MaxTime         \* bound: how far the clock runs

VARIABLES
    now,        \* the clock
    dns,        \* what DNS answers at present
    wire,       \* the invite: none, or its envelope
    invite,     \* the VerifiedInvite the client holds: none, or the payload
    call,       \* the decode or discover in flight
    outcome     \* what the last call returned or threw

vars == <<now, dns, wire, invite, call, outcome>>

None == [contacts |-> << >>, expires |-> -1]
Idle == [op |-> "idle"]
Namespaces == {c.namespace : c \in Contact}

Init ==
    /\ now = 0 /\ dns \in Answers
    /\ wire = None /\ invite = None /\ call = Idle /\ outcome = [op |-> "none"]

-----------------------------------------------------------------------------
(* AddressPolicy (address-policy.ts): the scope of a literal IP address,   *)
(* the transports of a multiaddr, and whether a target may dial it. An     *)
(* IPv4 address is a sequence of four octets; the text of an IPv6 address  *)
(* is the hextets left and right of its "::", and whether it has one.      *)

AllZero(s, from, to) == \A i \in from..to : s[i] = 0

classifyIpv4(octets) ==
    LET a == octets[1] b == octets[2] c == octets[3]
    IN CASE a = 127 -> "loopback"
         [] a = 169 /\ b = 254 -> "link-local"
         [] a = 10 \/ (a = 172 /\ b \in 16..31) \/ (a = 192 /\ b = 168) -> "private"
         [] a \in 224..239 -> "multicast"
         [] \/ a = 0 \/ a >= 240
            \/ a = 100 /\ b \in 64..127
            \/ a = 192 /\ b = 0 /\ c \in {0, 2}
            \/ a = 192 /\ b = 88 /\ c = 99
            \/ a = 198 /\ b \in {18, 19}
            \/ a = 198 /\ b = 51 /\ c = 100
            \/ a = 203 /\ b = 0 /\ c = 113 -> "reserved"
         [] OTHER -> "public"

\* The eight hextets of a text, or none when it does not have eight.
expandIpv6(text) ==
    LET missing == 8 - Len(text.left) - Len(text.right)
    IN IF ~text.gap THEN (IF Len(text.left) = 8 THEN text.left ELSE << >>)
       ELSE IF missing < 1 THEN << >>
       ELSE text.left \o [i \in 1..missing |-> 0] \o text.right

ipv4FromHextets(high, low) == <<high \div 256, high % 256, low \div 256, low % 256>>

\* The forms that carry an IPv4 address. For comparison, without 6to4.
Compatible(p) == AllZero(p, 1, 6)
Translated(p) == AllZero(p, 1, 4) /\ p[5] = 65535 /\ p[6] = 0
EmbeddedIgnores6to4(p) ==
    IF \/ Compatible(p) \/ Translated(p) \/ (AllZero(p, 1, 5) /\ p[6] = 65535)
       \/ (p[1] = 100 /\ p[2] = 65435 /\ AllZero(p, 3, 6))
    THEN ipv4FromHextets(p[7], p[8]) ELSE << >>
embeddedIpv4(p) ==
    IF \/ Compatible(p) \/ Translated(p) \/ (AllZero(p, 1, 5) /\ p[6] = 65535)
       \/ (p[1] = 100 /\ p[2] = 65435 /\ AllZero(p, 3, 6))
    THEN ipv4FromHextets(p[7], p[8])
    ELSE IF p[1] = 8194 THEN ipv4FromHextets(p[2], p[3]) ELSE << >>

\* A mask of the first n bits of a hextet clears its last 16 - n bits.
Masked(h, n) == (h \div 2^(16 - n)) * 2^(16 - n)
Ipv6Reserved(p) ==
    \/ p[1] = 100 /\ p[2] = 65435 /\ p[3] = 1
    \/ p[1] = 256 /\ AllZero(p, 2, 4)
    \/ p[1] = 8193 /\ (p[2] <= 511 \/ p[2] = 3512)
    \/ p[1] = 16383 /\ Masked(p[2], 4) = 0
classifyIpv6(text) ==
    LET p == expandIpv6(text)
        v4 == embeddedIpv4(p)
    IN CASE p = << >> -> "unknown"
         [] AllZero(p, 1, 8) -> "reserved"
         [] AllZero(p, 1, 7) /\ p[8] = 1 -> "loopback"
         [] Masked(p[1], 7) = 64512 -> "private"
         [] Masked(p[1], 10) = 65152 -> "link-local"
         [] Masked(p[1], 10) = 65216 -> "reserved"
         [] Masked(p[1], 8) = 65280 -> "multicast"
         [] v4 # << >> /\ classifyIpv4(v4) # "public" -> classifyIpv4(v4)
         [] Compatible(p) \/ Translated(p) \/ Ipv6Reserved(p) -> "reserved"
         [] OTHER -> "public"

classifyTransports(names) ==
    LET relay == "p2p-circuit" \in names
        wss == "wss" \in names \/ {"ws", "tls"} \subseteq names
        ws == ~wss /\ "ws" \in names
        found == (IF relay THEN {"relay"} ELSE {})
                 \cup (names \cap {"webrtc-direct", "webtransport"})
                 \cup (IF wss THEN {"wss"} ELSE IF ws THEN {"ws"} ELSE {})
                 \cup (IF "tcp" \in names /\ ~ws /\ ~wss /\ ~relay THEN {"tcp"} ELSE {})
                 \cup (IF "quic-v1" \in names /\ "webtransport" \notin names /\ ~relay THEN {"quic-v1"} ELSE {})
    IN IF found = {} THEN {"unknown"} ELSE found

DnsNames == {"dns", "dns4", "dns6", "dnsaddr"}

\* The scope of a host after its resolution: an address has a scope, a name
\* the answers of the resolver, each with a family and a scope.
resolverFamily(kind) == CASE kind = "dns4" -> {"ipv4"} [] kind = "dns6" -> {"ipv6"} [] OTHER -> {"ipv4", "ipv6"}
Resolution(host, answers) ==
    CASE host.kind \notin DnsNames -> [scope |-> host.scope, reasons |-> {}]
      [] answers = {} -> [scope |-> "unresolved", reasons |-> {"dns-empty"}]
      [] \E a \in answers : a.family \notin resolverFamily(host.kind) ->
            [scope |-> "unresolved", reasons |-> {"dns-family-mismatch"}]
      [] \E a \in answers : a.scope # "public" -> [scope |-> "unresolved", reasons |-> {"dns-rebinding-risk"}]
      [] OTHER -> [scope |-> "public", reasons |-> {}]

\* evaluate: the reasons not to dial an address, none when it is dialable.
evaluate(address, answers, target, allow) ==
    LET r == Resolution(address.host, answers)
        transports == classifyTransports(address.names)
    IN r.reasons
       \cup (IF r.scope = "public" \/ r.scope \in allow THEN {} ELSE {"scope"})
       \cup (IF "unknown" \in transports THEN {"unsupported-transport"} ELSE {})
       \cup (IF "ws" \in address.names /\ address.names \cap {"tls", "wss"} = {} /\ "ws" \notin allow
             THEN {"insecure-websocket"} ELSE {})
       \cup (IF target = "browser" /\ transports \cap {"tcp", "quic-v1"} # {} THEN {"node-only-transport"} ELSE {})
       \cup (IF target = "node" /\ "webrtc-direct" \in transports THEN {"browser-oriented-transport"} ELSE {})

-----------------------------------------------------------------------------
(* The issuer. *)

hasOnlyPublicContactAddresses(c) ==
    /\ c.addresses # << >>
    /\ \A i \in DOMAIN c.addresses :
          LET host == c.addresses[i].host IN host.kind \in DnsNames \/ host.scope = "public"

\* encodeInvite: the payload is signed as it is, in whatever order its
\* contacts are, with endpoints a client may not allow.
encodeInvite ==
    /\ wire = None
    /\ \E n \in 0..MaxContacts : \E contacts \in [1..n -> Contact], ns \in Namespaces, expires \in 1..MaxTime, e \in {"none", "invalid-endpoint"} :
          /\ \A i \in 1..n : hasOnlyPublicContactAddresses(contacts[i])
          /\ wire' = [contacts |-> contacts, namespace |-> ns, expires |-> expires, defect |-> e]
    /\ UNCHANGED <<now, dns, invite, call, outcome>>

\* On its way the envelope is cut short, or its payload is changed.
Alter ==
    /\ wire # None /\ wire.defect = "none"
    /\ \E e \in {"invalid-shape", "invalid-issuer-signature"} : wire' = [wire EXCEPT !.defect = e]
    /\ UNCHANGED <<now, dns, invite, call, outcome>>

Tick == now < MaxTime /\ now' = now + 1 /\ UNCHANGED <<dns, wire, invite, call, outcome>>
DnsChanges ==
    /\ dns' \in Answers \ {dns}
    /\ call' = IF call.op = "idle" THEN call ELSE [call EXCEPT !.seen = @ \cup {dns'}]
    /\ UNCHANGED <<now, wire, invite, outcome>>

-----------------------------------------------------------------------------
(* RecordValidator.validate, in its three parts. *)

\* The checks in their order: those of the form of a record, of its times,
\* of its encoding; a defect is the check it fails.
FormChecks == {"invalid-shape", "oversized", "unsupported-version", "invalid-namespace", "too-many-addresses",
               "too-many-capabilities", "unsupported-capability", "invalid-sequence", "invalid-time", "ttl-out-of-range"}
EncodingChecks == {"non-canonical", "invalid-public-key", "invalid-peer-id", "peer-id-mismatch"}
Rejection(c, expected) ==
    CASE c.defect \in FormChecks -> c.defect
      [] c.namespace # expected -> "namespace-mismatch"
      [] c.expires <= now -> "expired"
      [] c.defect \in EncodingChecks -> c.defect
      [] OTHER -> "none"

\* #validateAddresses on one address: either target may be able to dial it.
AddressRejected(c, address) ==
    \/ address.peer # c.peer
    \/ /\ evaluate(address, dns, "browser", {}) # {}
       /\ evaluate(address, dns, "node", {}) # {}

Others(ledger, c) == {e \in ledger : e.peer # c.peer}
Entry(c) == [peer |-> c.peer, sequence |-> c.sequence, expires |-> c.expires]

\* What a call validates, and with which ledger: a new one; for comparison,
\* a directory that keeps the ledger of the decoding. A call remembers when
\* it began and the DNS answers there were during it.
NewCall(op, contacts, expected, ledger) ==
    [op |-> op, contacts |-> contacts, expected |-> expected, i |-> 1, stage |-> "check", ledger |-> ledger,
     at |-> now, clock |-> now, seen |-> {dns}, accepted |-> << >>]
Returned(c, error, records) ==
    [op |-> c.op, expected |-> c.expected, at |-> c.at, until |-> now, seen |-> c.seen, error |-> error, records |-> records]
SharedLedger(kept) == {Entry(kept[i]) : i \in DOMAIN kept}
FreshLedger(kept) == {}

\* parseWire, the issuer's key and signature over the canonical payload, the
\* expiry, the endpoints: the first that fails is the error.
Undecodable(w) ==
    CASE w.defect \in {"invalid-shape", "invalid-issuer-signature"} -> w.defect
      [] w.expires <= now -> "expired"
      [] OTHER -> w.defect

\* decodeInvite up to the contacts.
BeginDecode ==
    /\ call.op = "idle" /\ wire # None /\ invite = None /\ outcome.op = "none"
    /\ IF Undecodable(wire) # "none"
       THEN outcome' = Returned(NewCall("decode", << >>, wire.namespace, {}), Undecodable(wire), {}) /\ UNCHANGED call
       ELSE call' = NewCall("decode", wire.contacts, wire.namespace, FreshLedger(<< >>)) /\ UNCHANGED outcome
    /\ UNCHANGED <<now, dns, wire, invite>>

\* InviteDirectory.discover up to the contacts.
BeginDiscover ==
    /\ call.op = "idle" /\ invite # None
    /\ \E ns \in Namespaces :
          IF invite.expires <= now \/ ns # invite.namespace
          THEN outcome' = Returned(NewCall("discover", << >>, ns, {}), "none", {}) /\ UNCHANGED call
          ELSE call' = NewCall("discover", invite.contacts, ns, FreshLedger(invite.contacts)) /\ UNCHANGED outcome
    /\ UNCHANGED <<now, dns, wire, invite>>

\* A rejected contact ends a decoding; a discovery goes on to the next. For
\* comparison, a decoding that goes on as well.
RejectSkips == call' = [call EXCEPT !.i = @ + 1, !.stage = "check"] /\ UNCHANGED outcome
Reject ==
    IF call.op = "decode"
    THEN call' = Idle /\ outcome' = Returned(call, "invalid-contact", {})
    ELSE call' = [call EXCEPT !.i = @ + 1, !.stage = "check"] /\ UNCHANGED outcome
Current == call.contacts[call.i]
Working(stage) == call.op # "idle" /\ call.i <= Len(call.contacts) /\ call.stage = stage

CheckForm ==
    /\ Working("check")
    /\ IF Rejection(Current, call.expected) # "none" THEN Reject
       ELSE call' = [call EXCEPT !.stage = "verified", !.clock = now] /\ UNCHANGED outcome
    /\ UNCHANGED <<now, dns, wire, invite>>

\* After the signature check: the ledger is swept at the time read before
\* it, then the sequence is compared.
CheckSequence ==
    /\ Working("verified")
    /\ LET swept == {e \in call.ledger : e.expires > call.clock}
       IN IF Current.defect = "invalid-signature" \/ (\E e \in swept : e.peer = Current.peer /\ Current.sequence <= e.sequence)
          THEN Reject
          ELSE call' = [call EXCEPT !.stage = "resolving", !.ledger = swept] /\ UNCHANGED outcome
    /\ UNCHANGED <<now, dns, wire, invite>>

\* The addresses are resolved; the admission decision of an invite accepts.
CheckAddresses ==
    /\ Working("resolving")
    /\ IF Current.addresses = << >> \/ \E i \in DOMAIN Current.addresses : AddressRejected(Current, Current.addresses[i])
       THEN Reject
       ELSE /\ call' = [call EXCEPT !.i = @ + 1, !.stage = "check", !.accepted = Append(@, Current),
                                    !.ledger = Others(@, Current) \cup {Entry(Current)}]
            /\ UNCHANGED outcome
    /\ UNCHANGED <<now, dns, wire, invite>>

\* reconcileValidatedRecords keeps the highest sequence of each peer; two
\* records with the same one do not get here.
reconcile(accepted) ==
    {accepted[i] : i \in {k \in DOMAIN accepted : \A l \in DOMAIN accepted :
        accepted[l].peer = accepted[k].peer => accepted[l].sequence <= accepted[k].sequence}}
Listed(records) == CHOOSE s \in [1..Cardinality(records) -> records] : {s[i] : i \in DOMAIN s} = records

End ==
    /\ call.op # "idle" /\ call.i > Len(call.contacts)
    /\ outcome' = Returned(call, "none", reconcile(call.accepted))
    /\ invite' = IF call.op = "discover" THEN invite
                 ELSE [contacts |-> Listed(reconcile(call.accepted)), namespace |-> wire.namespace, expires |-> wire.expires]
    /\ call' = Idle
    /\ UNCHANGED <<now, dns, wire>>

Next ==
    \/ encodeInvite \/ Alter \/ Tick \/ DnsChanges
    \/ BeginDecode \/ BeginDiscover \/ CheckForm \/ CheckSequence \/ CheckAddresses \/ End

Spec == Init /\ [][Next]_vars

-----------------------------------------------------------------------------
\* A record is good at a time and under a DNS answer if it has no defect,
\* has not expired, and all its addresses can be dialled by some target.
Good(c, ns, t, d) ==
    /\ c.defect = "none" /\ c.namespace = ns /\ c.expires > t /\ c.addresses # << >>
    /\ \A i \in DOMAIN c.addresses :
          /\ c.addresses[i].peer = c.peer
          /\ \E target \in {"browser", "node"} : evaluate(c.addresses[i], d, target, {}) = {}
MaybeGood(c, o) == \E d \in o.seen : Good(c, o.expected, o.at, d)
SurelyGood(c, o) == \A d \in o.seen : Good(c, o.expected, o.until, d)
Offered(s) == {s[i] : i \in DOMAIN s}

\* InviteDirectory.discover returns, whenever and however often it is asked,
\* one record for each peer that had a good one throughout the call, the
\* newest such or a newer one, and nothing that was not good when it began:
\* what earlier calls saw does not count as a replay.
DiscoverIsNewest ==
    outcome.op = "discover" =>
        /\ \A r \in outcome.records : MaybeGood(r, outcome)
        /\ \A r, q \in outcome.records : r.peer = q.peer => r = q
        /\ outcome.expected = invite.namespace /\ invite.expires > outcome.until =>
              \A c \in Offered(invite.contacts) : SurelyGood(c, outcome) =>
                  \E r \in outcome.records : r.peer = c.peer /\ r.sequence >= c.sequence

\* decodeInvite is all or nothing. It accepts an invite only if every one of
\* its contacts was good; it blames a contact only if one may have gone bad
\* since it was encoded, or follows one of its peer that is not older.
DecodeIsAllOrNothing ==
    outcome.op = "decode" =>
        /\ outcome.error = "none" => \A c \in Offered(wire.contacts) : MaybeGood(c, outcome)
        /\ outcome.error = "invalid-contact" =>
              \/ \E c \in Offered(wire.contacts) : ~SurelyGood(c, outcome)
              \/ \E i, j \in DOMAIN wire.contacts : /\ i < j /\ wire.contacts[i].peer = wire.contacts[j].peer
                                                     /\ wire.contacts[j].sequence <= wire.contacts[i].sequence
=============================================================================
