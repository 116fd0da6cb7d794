---------------------------- MODULE MCDiscovery ----------------------------
(***************************************************************************)
(* The parts of discovery and dialling that share no state, each on a small *)
(* instance.  The first state chooses the part a behaviour is about.        *)
(***************************************************************************)
EXTENDS Integers, Sequences, FiniteSets, RegistryAdmission, NetworkDial

VARIABLES part,  \* the part of the system this behaviour is of
          octets,  \* the address that part "address" classifies
          rdvNow, up, stored, sub, room, stores, cycle, jobs, reqs, srv, status, calm,
          steady, changes, faults,
          now, bootFaults, durable, mem, dirty, chain, hung, boot, due, clash,
          invNow, dns, wire, invite, call, outcome,
          op, started, consumed, walkStatus, updates, first, queue, log, stop,
          pickNow, enabled, plan, tier, at, pos, yielded, opened, closed, cutOff, seen, attested,
          observed, pool, eligible, held, pickOutcome,
          cliCall, connection, listeners, entries, active, inspected, watching, release,
          releases,
          config, pc, policy, score,
          foreign, named, directory, findConnected, registered, search,
          entry, hostConfig, hostPc, build, host, returned, adopted, counted, attached,
          retry, hostOutcome

presenceVars == <<rdvNow, up, stored, sub, room, stores, cycle, jobs, reqs, srv, status,
                  calm, steady, changes, faults>>
bootstrapVars == <<now, bootFaults, durable, mem, dirty, chain, hung, boot, due, clash>>
invitesVars == <<invNow, dns, wire, invite, call, outcome>>
routingVars == <<op, started, consumed, walkStatus, updates, first, queue, log, stop>>
sourcesVars == <<pickNow, enabled, plan, tier, at, pos, yielded, opened, closed, cutOff, seen,
                 attested, observed, pool, eligible, held, pickOutcome>>
clientVars == <<cliCall, connection, listeners, entries, active, inspected, watching,
                release, releases>>
configVars == <<config, pc, policy, score>>
creatorVars == <<foreign, named, directory, findConnected, registered, search>>
startupVars == <<entry, hostConfig, hostPc, build, host, returned, adopted, counted,
                 attached, retry, hostOutcome>>

\* Presence, in ticks of 5 s: records live 30 s and are refreshed every 10 s, so that a
\* cycle has 7.5 s, which is two ticks, and an endpoint 4 s of them.
Members == {"self", "other"}

\* Bootstrap: a peer that moves on to a newer record and once signs a sequence number
\* twice; a bootstrap of node start and one of a recovery.
Rec(peer, seq, sig, exp) == [peer |-> peer, seq |-> seq, sig |-> sig, exp |-> exp]
SourceAnswers == {<<Rec(1, 2, "a", 2)>>, <<Rec(1, 2, "b", 2)>>}
CacheStored == {<<Rec(1, 1, "a", 2), Rec(2, 1, "a", 1)>>}
CacheUndialable == {Rec(2, 1, "a", 1)}
BootSelected == [b \in {"warm", "recovery"} |->
                   IF b = "warm" THEN <<"registries", "peer-exchange">> ELSE <<"registries">>]

\* Invites: two peers, one with two records; contacts by address, by name, private, forged.
At(peer, kind, scope) ==
  [peer |-> peer, host |-> [kind |-> kind, scope |-> scope], names |-> {"tcp", "tls", "ws"}]
Public(peer) == At(peer, "ip4", "public")
Named(peer) == At(peer, "dns4", "unresolved")
Signed(peer, namespace, sequence, expires, addresses, defect) ==
  [peer |-> peer, namespace |-> namespace, sequence |-> sequence, expires |-> expires,
   addresses |-> addresses, defect |-> defect]
Contacts ==
  { Signed("p", "room", 1, 2, <<Public("p")>>, "none"),
    Signed("p", "room", 2, 3, <<Public("p"), Named("p")>>, "none"),
    Signed("q", "room", 1, 3, <<Named("q")>>, "none"),
    Signed("q", "room", 2, 3, <<At("q", "ip4", "private")>>, "none"),
    Signed("q", "room", 3, 3, <<Public("q")>>, "invalid-signature"),
    Signed("q", "other", 4, 3, <<Public("q")>>, "none") }
DnsAnswers == {{[family |-> "ipv4", scope |-> "public"]}, {[family |-> "ipv4", scope |-> "private"]}}

\* NetworkDial: one bootstrap address, another of its peer, and one that names no peer.
Owners == [a \in {"b1", "b2", "o"} |-> IF a = "b2" THEN "unnamed" ELSE "p"]

\* RelaySources: a record that expires, verified and unverified entries, repeated peers.
Item(p) == [peer |-> p, whole |-> TRUE, service |-> TRUE, here |-> TRUE, dialable |-> TRUE,
            expires |-> 1, verified |-> TRUE, group |-> 1]
Src(kind, level, items) ==
  [kind |-> kind, tier |-> level, degraded |-> kind = "connected", items |-> items]
RelayLists ==
  << Src("configured", "primary", <<Item("p")>>),
     Src("fallback", "primary", <<Item("q"), [Item("r") EXCEPT !.verified = FALSE]>>),
     Src("cache", "primary", <<[Item("p") EXCEPT !.here = FALSE], Item("s")>>),
     Src("registry", "primary", <<Item("s"), [Item("u") EXCEPT !.whole = FALSE]>>),
     Src("closest", "overflow", <<Item("x")>>),
     Src("connected", "overflow",
         <<Item("x"), Item("t"), Item("t"), [Item("v") EXCEPT !.service = FALSE], Item("w")>>),
     Src("providers", "overflow", <<Item("t"), Item("q")>>) >>
\* With node_closest_peers and without.
RelaySwitches == {1..7, (1..7) \ {6}}

\* RelayConfig: both sides of every bound; -2 stands for a number that is not finite.
Scores == {-2, 0, 1, 3, 9, 10, 11}

\* HostStartup: every configuration of the routing owner.
Configs == [enabled : BOOLEAN, public : BOOLEAN, rollout : BOOLEAN, acknowledged : BOOLEAN]

\* The address policy on one IPv4 address at a time, at the edges of every block: the first
\* and last octets of each block and their neighbours.
First == {0, 1, 9, 10, 11, 99, 100, 101, 126, 127, 128, 168, 169, 170, 171, 172, 173, 191, 192,
          193, 197, 198, 199, 202, 203, 204, 223, 224, 239, 240, 255}
Second == {0, 1, 15, 16, 17, 18, 19, 20, 31, 32, 50, 51, 52, 63, 64, 87, 88, 89, 127, 128, 167,
           168, 169, 253, 254, 255}
Third == {0, 1, 2, 3, 98, 99, 100, 101, 112, 113, 114}
Edges == {<<a, b, c, 1>> : a \in First, b \in Second, c \in Third}

\* The scopes as the address registries write them, by prefixes.
Bits(word, width) ==
    [i \in 1..(Len(word) * width) |->
        LET k == i - 1 IN (word[(k \div width) + 1] \div 2^(width - 1 - (k % width))) % 2]
Within(word, prefix, len, width) ==
    LET a == Bits(word, width) b == Bits(prefix, width) IN \A i \in 1..len : a[i] = b[i]
Ipv4Blocks == {
    <<<<127, 0, 0, 0>>, 8, "loopback">>, <<<<169, 254, 0, 0>>, 16, "link-local">>,
    <<<<10, 0, 0, 0>>, 8, "private">>, <<<<172, 16, 0, 0>>, 12, "private">>, <<<<192, 168, 0, 0>>, 16, "private">>,
    <<<<224, 0, 0, 0>>, 4, "multicast">>, <<<<0, 0, 0, 0>>, 8, "reserved">>, <<<<240, 0, 0, 0>>, 4, "reserved">>,
    <<<<100, 64, 0, 0>>, 10, "reserved">>, <<<<192, 0, 0, 0>>, 24, "reserved">>, <<<<192, 0, 2, 0>>, 24, "reserved">>,
    <<<<192, 88, 99, 0>>, 24, "reserved">>, <<<<198, 18, 0, 0>>, 15, "reserved">>,
    <<<<198, 51, 100, 0>>, 24, "reserved">>, <<<<203, 0, 113, 0>>, 24, "reserved">>}
Scope4(o) ==
    IF \E b \in Ipv4Blocks : Within(o, b[1], b[2], 8)
    THEN (CHOOSE b \in Ipv4Blocks : Within(o, b[1], b[2], 8))[3] ELSE "public"

\* The IPv6 forms that carry it: ::a.b.c.d, ::ffff:0:a.b.c.d, ::ffff:a.b.c.d,
\* 64:ff9b::a.b.c.d, 2002:a.b.c.d::
Hextets(o) == <<o[1] * 256 + o[2], o[3] * 256 + o[4]>>
Text(left, right) == [left |-> left, gap |-> TRUE, right |-> right]
Carriers(o) ==
  {Text(left, Hextets(o)) :
     left \in {<<>>, <<0, 0, 0, 0, 65535, 0>>, <<0, 0, 0, 0, 0, 65535>>, <<100, 65435>>}}
  \cup {Text(<<8194>> \o Hextets(o), <<>>)}

Rdv == INSTANCE Presence
  WITH Self <- "self", Peer <- Members, MaxRecordsPerNamespace <- 2,
       Endpoints <- <<"primary", "secondary">>, Ttl <- 6, RefreshInterval <- 2,
       Deadline <- 2, Attempt <- 1, RetireTtl <- 1, Fence <- 1, Retract <- 1,
       ServiceTimeout <- 1, SeqPerTick <- 4, Flaky <- {1}, MaxNow <- 8, MaxChanges <- 2,
       MaxFaults <- 1, now <- rdvNow

Boot == INSTANCE Bootstrap
  WITH Peer <- {1, 2}, Answers <- SourceAnswers, Stored <- CacheStored,
       Undialable <- CacheUndialable, Boot <- {"warm", "recovery"},
       Selected <- BootSelected, ReadsCache <- {"warm"}, Maximum <- 2, SourceCap <- 1,
       MaxNow <- 1, MaxFaults <- 1, faults <- bootFaults

Inv == INSTANCE Invites
  WITH Contact <- Contacts, Answers <- DnsAnswers, MaxContacts <- 2, MaxTime <- 2,
       now <- invNow

Walk == INSTANCE NodeRouting
  WITH Measured <- {1, 2}, Walks <- {9}, MaxOperations <- 1, MaxRequests <- 1, Window <- 2,
       MaxResults <- 2, Status <- {"private", "public"}, MaxUpdates <- 2,
       status <- walkStatus

Pick == INSTANCE RelaySources
  WITH Source <- RelayLists, Switches <- RelaySwitches, Required <- 2, MaxCandidates <- 3,
       ObservationCap <- 4, MaxHarvest <- 2, Classified <- TRUE, MaxTime <- 1, now <- pickNow,
       outcome <- pickOutcome

Cli == INSTANCE RelayClient
  WITH Call <- {1, 2}, MaxListeners <- 2, MaxReleases <- 2, call <- cliCall

Cfg == INSTANCE RelayConfig
  WITH PerCandidate <- {0, 6, 10, 11}, Total <- {5, 10, 120, 121}, Target <- {0, 8, 9},
       Weight <- 10, AcceptPX <- 100, Score <- Scores

Find == INSTANCE CreatorSearch
  WITH Call <- {1, 2}, AddressSet <- {"a", "b", "c"}, MaxDials <- 2,
       connected <- findConnected

Host == INSTANCE HostStartup
  WITH Config <- Configs, config <- hostConfig, pc <- hostPc, outcome <- hostOutcome

-----------------------------------------------------------------------------
\* A behaviour is one of one part; the others keep their first state.
Init ==
  /\ part \in {"presence", "bootstrap", "admission", "invites", "routing", "dial",
               "sources", "client", "config", "creator", "startup", "address"}
  /\ IF part = "address" THEN octets \in Edges ELSE octets = <<>>
  /\ Rdv!Init
  /\ Boot!Init
  /\ AdmissionInit /\ (part # "admission" => mode = "open")
  /\ IF part = "invites" THEN Inv!Init
     ELSE /\ invNow = 0 /\ dns = 0 /\ wire = 0 /\ invite = 0 /\ call = 0 /\ outcome = 0
  /\ IF part = "routing" THEN Walk!Init
     ELSE /\ op = 0 /\ started = 0 /\ consumed = 0 /\ walkStatus = 0 /\ updates = 0
          /\ first = 0 /\ queue = 0 /\ log = 0 /\ stop = 0
  /\ DialInit
  /\ Pick!Init /\ (part # "sources" => plan = "primary")
  /\ Cli!Init
  /\ IF part = "config" THEN Cfg!Init
     ELSE /\ config = 0 /\ pc = 0 /\ policy = 0 /\ score = 0
  /\ IF part = "creator" THEN Find!SearchInit
     ELSE /\ foreign = 0 /\ named = 0 /\ directory = 0 /\ findConnected = 0
          /\ registered = 0 /\ search = 0
  /\ IF part = "startup" THEN Host!Init
     ELSE /\ entry = 0 /\ hostConfig = 0 /\ hostPc = 0 /\ build = 0 /\ host = 0
          /\ returned = 0 /\ adopted = 0 /\ counted = 0 /\ attached = 0 /\ retry = 0
          /\ hostOutcome = 0

RdvStep ==
  /\ part = "presence" /\ Rdv!Next
  /\ UNCHANGED <<part, octets, bootstrapVars, admissionVars, invitesVars, routingVars, dialVars,
                 sourcesVars, clientVars, configVars, creatorVars, startupVars>>

BootStep ==
  /\ part = "bootstrap" /\ Boot!Next
  /\ UNCHANGED <<part, octets, presenceVars, admissionVars, invitesVars, routingVars, dialVars,
                 sourcesVars, clientVars, configVars, creatorVars, startupVars>>

AdmStep ==
  /\ part = "admission" /\ AdmissionNext
  /\ UNCHANGED <<part, octets, presenceVars, bootstrapVars, invitesVars, routingVars, dialVars,
                 sourcesVars, clientVars, configVars, creatorVars, startupVars>>

InvStep ==
  /\ part = "invites" /\ Inv!Next
  /\ UNCHANGED <<part, octets, presenceVars, bootstrapVars, admissionVars, routingVars, dialVars,
                 sourcesVars, clientVars, configVars, creatorVars, startupVars>>

WalkStep ==
  /\ part = "routing" /\ Walk!Next
  /\ UNCHANGED <<part, octets, presenceVars, bootstrapVars, admissionVars, invitesVars, dialVars,
                 sourcesVars, clientVars, configVars, creatorVars, startupVars>>

DialStep ==
  /\ part = "dial" /\ DialNext
  /\ UNCHANGED <<part, octets, presenceVars, bootstrapVars, admissionVars, invitesVars, routingVars,
                 sourcesVars, clientVars, configVars, creatorVars, startupVars>>

PickStep ==
  /\ part = "sources" /\ Pick!Next
  /\ UNCHANGED <<part, octets, presenceVars, bootstrapVars, admissionVars, invitesVars, routingVars,
                 dialVars, clientVars, configVars, creatorVars, startupVars>>

CliStep ==
  /\ part = "client" /\ Cli!Next
  /\ UNCHANGED <<part, octets, presenceVars, bootstrapVars, admissionVars, invitesVars, routingVars,
                 dialVars, sourcesVars, configVars, creatorVars, startupVars>>

CfgStep ==
  /\ part = "config" /\ Cfg!Next
  /\ UNCHANGED <<part, octets, presenceVars, bootstrapVars, admissionVars, invitesVars, routingVars,
                 dialVars, sourcesVars, clientVars, creatorVars, startupVars>>

FindStep ==
  /\ part = "creator" /\ Find!SearchNext
  /\ UNCHANGED <<part, octets, presenceVars, bootstrapVars, admissionVars, invitesVars, routingVars,
                 dialVars, sourcesVars, clientVars, configVars, startupVars>>

HostStep ==
  /\ part = "startup" /\ Host!Next
  /\ UNCHANGED <<part, octets, presenceVars, bootstrapVars, admissionVars, invitesVars, routingVars,
                 dialVars, sourcesVars, clientVars, configVars, creatorVars>>

Next ==
  \/ RdvStep
  \/ BootStep
  \/ AdmStep
  \/ InvStep
  \/ WalkStep
  \/ DialStep
  \/ PickStep
  \/ CliStep
  \/ CfgStep
  \/ FindStep
  \/ HostStep

vars == <<part, octets, presenceVars, bootstrapVars, admissionVars, invitesVars, routingVars,
          dialVars, sourcesVars, clientVars, configVars, creatorVars, startupVars>>

Spec == Init /\ [][Next]_vars

-----------------------------------------------------------------------------
\* Presence tells the truth (node/src/index.ts, record-producer.ts, registry.ts): a node
\* that stays in a room is discovered there once the endpoints are well for HealTime; one
\* that left or stopped is listed nowhere once its records have lapsed, and within seconds
\* where the endpoints answer its retraction.
PresenceIsTruthful ==
  part = "presence" => Rdv!PresenceHeals /\ Rdv!PresenceLapses /\ Rdv!LeavingRetracts

\* What was found is kept, and is usable. A record whose put into the peer cache has
\* resolved is still cached, or a newer one of its peer is, however bootstraps interleave on
\* the chain of the cache and whichever loads and saves of the store fail (peer-cache.ts).
\* Only usable relays are collected: no peer twice, none incomplete, none whose record has
\* expired when its turn comes, and no public source is asked before it is needed
\* (CompositeRelayCandidateSource). The search for the creator of an object dials no address
\* that it first met under another peer (_connectObjectCreator).
FindingsKept ==
  /\ [](part = "bootstrap" => Boot!ResultsStayCached)
  /\ [](part = "creator" => Find!MisledNeverDialled)
  /\ [](part = "sources" => Pick!PoolIsUsable)
  /\ Pick!NoStaleRecord /\ Pick!OverflowIsLazy

\* Nothing is left open: no observation of reachability is due once stop() stops the
\* network (and consecutive ones differ), no host by a startup that rejected, no iterator by
\* a collection that ended, no circuit that the client of a relay has not remembered for its
\* release, no watch for identify by an inspection that returned, and no search for a creator
\* that a later connect, an unsubscribe or a stop could not abort (stop of routing-node,
\* startNetwork, collectCandidates, #rememberMatchingListeners, inspect, the controllers of
\* connectObject).
NothingLeftOpen ==
  /\ part = "routing" => Walk!ReachabilityLog
  /\ part = "startup" => Host!NoHostLeaked
  /\ part = "sources" => Pick!IteratorsClosed
  /\ part = "client" => Cli!CircuitsRemembered /\ Cli!WatchedByCalls
  /\ part = "creator" => Find!OneSearch

\* Algorithms agree with their definitions: the scope of an address with the published
\* blocks, where an IPv6 address is public only if the IPv4 address it carries is; an
\* accepted relay configuration with one that can be carried out; and an invite, taken whole
\* or not at all, with the newest good record of each of its peers, however often it is
\* asked (address-policy.ts, network/src/node.ts, decodeInvite, InviteDirectory.discover).
ReferencesAgree ==
  /\ part = "address" =>
       /\ Inv!classifyIpv4(octets) = Scope4(octets)
       /\ \A text \in Carriers(octets) :
            Inv!classifyIpv6(text) = "public" => Scope4(octets) = "public"
  /\ part = "config" => Cfg!AcceptedConfigStarts /\ Cfg!RewardBelowPX
  /\ part = "invites" => Inv!DiscoverIsNewest /\ Inv!DecodeIsAllOrNothing
=============================================================================
