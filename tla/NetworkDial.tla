----------------------------- MODULE NetworkDial -----------------------------
(***************************************************************************)
(* How DRPNetworkNode dials (packages/network/src/node.ts): the retry loop *)
(* of every bootstrap address, safeDial with its race over the peers of a  *)
(* list, connect, disconnect and redialBootstraps, across stop, restart    *)
(* and a new host. The relay reservations of the same class are in         *)
(* NetworkNode.                                                            *)
(*                                                                         *)
(* A host is numbered by the start that built it. A dial of the host takes *)
(* any time and ends in a connection, a refusal, or a denial by the        *)
(* connection gater; libp2p bounds it by dialTimeout.                      *)
(***************************************************************************)
EXTENDS Integers, Sequences, FiniteSets

CONSTANTS
    Owner, Unnamed,     \* peers, and the owner of an address without /p2p
    BootstrapAddress,   \* getBootstrapNodes()
    OtherAddress,       \* the others that connect is called with
    OwnerOf,            \* address to peer
    RetryDelays,        \* the number of waits between attempts
    MaxHosts, MaxRaces  \* bounds: starts, calls of connect or redial

ASSUME DialAssumption == RetryDelays \in Nat /\ MaxHosts \in Nat

Address == BootstrapAddress \cup OtherAddress
NoHost == 0
Hosts == 1..MaxHosts

VARIABLES
    latest,       \* _node: the latest host, NoHost before the first start
    hostState,    \* of every host: "absent", "started", "stopping", "stopped"
    retryAborted, \* whether the _bootstrapRetryController of a host was aborted
    retries,      \* _dialBootstrapWithRetry by host and address
    race,         \* the present safeDial on a list, if any
    races,        \* how many there were
    links,        \* the connections: pairs of host and peer
    stray         \* dials that lost their race and are still open

dialVars == <<latest, hostState, retryAborted, retries, race, races, links, stray>>

NoLoop == [pc |-> "none", attempt |-> 0, made |-> FALSE]
NoCall == [pc |-> "idle"]

-----------------------------------------------------------------------------
(* safeDial on a list: the addresses of one peer are one dial, an address  *)
(* without a peer is one by itself. The gater denies a dial when it denies *)
(* every address of it. For comparison, one dial for each address.         *)

dialEach(addresses) == {{a} : a \in addresses}
dialCandidates(addresses) ==
    {{a \in addresses : OwnerOf[a] = p} : p \in {OwnerOf[a] : a \in addresses} \ {Unnamed}}
        \cup {{a} : a \in {b \in addresses : OwnerOf[b] = Unnamed}}

Reachable(group) == IF OwnerOf[CHOOSE a \in group : TRUE] = Unnamed THEN Owner ELSE {OwnerOf[CHOOSE a \in group : TRUE]}
Results == {"ok", "refused", "denied"}

\* The event of a list: Promise.any rejects with an AggregateError, so a
\* list that was denied altogether is reported as failed.
Settled(outcome, value) == [pc |-> "settled", outcome |-> outcome, value |-> value,
                            groups |-> race.groups, failed |-> race.failed, host |-> race.host]

\* connect, redialBootstraps and connectToBootstraps begin.
SafeDial(addresses) ==
    /\ race.pc = "idle" /\ races < MaxRaces /\ races' = races + 1
    /\ race' = IF addresses = {} THEN [pc |-> "settled", outcome |-> "none", value |-> FALSE, groups |-> {}, failed |-> {}, host |-> latest]
               ELSE IF latest = NoHost THEN [pc |-> "settled", outcome |-> "failed", value |-> FALSE, groups |-> {}, failed |-> {}, host |-> latest]
               ELSE [pc |-> "racing", groups |-> dialCandidates(addresses), failed |-> {}, host |-> latest]
    /\ UNCHANGED <<latest, hostState, retryAborted, retries, links, stray>>

\* One of the dials of the race ends.
RaceStep(group, result) ==
    /\ race.pc = "racing" /\ group \in race.groups \ race.failed
    /\ result = "ok" => hostState[race.host] = "started"
    /\ IF result = "ok"
       THEN /\ \E p \in Reachable(group) : links' = links \cup {<<race.host, p>>}
            /\ race' = Settled("ok", TRUE)
            /\ stray' = stray \cup {<<race.host, g>> : g \in race.groups \ (race.failed \cup {group})}
       ELSE /\ race' = IF race.failed \cup {group} = race.groups
                       THEN [Settled("failed", FALSE) EXCEPT !.failed = race.groups]
                       ELSE [race EXCEPT !.failed = @ \cup {group}]
            /\ UNCHANGED <<links, stray>>
    /\ UNCHANGED <<latest, hostState, retryAborted, retries, races>>
\* The signal of the caller aborts every dial of the race.
RaceAborted ==
    /\ race.pc = "racing" /\ race' = [Settled("failed", FALSE) EXCEPT !.failed = race.groups]
    /\ UNCHANGED <<latest, hostState, retryAborted, retries, races, links, stray>>
CallReturns ==
    /\ race.pc = "settled" /\ race' = NoCall
    /\ UNCHANGED <<latest, hostState, retryAborted, retries, races, links, stray>>
\* A dial that lost the race is not cancelled.
StrayEnds(s, result) ==
    /\ stray' = stray \ {s}
    /\ IF result = "ok" /\ hostState[s[1]] = "started"
       THEN \E p \in Reachable(s[2]) : links' = links \cup {<<s[1], p>>}
       ELSE UNCHANGED links
    /\ UNCHANGED <<latest, hostState, retryAborted, retries, race, races>>

-----------------------------------------------------------------------------
(* _dialBootstrapWithRetry. *)

\* For comparison, a loop that looks at the host alone, and one that is a
\* wait short.
GivesUpWithHost(h) == latest # h \/ hostState[h] \in {"stopping", "stopped"}
GivesUp(h) == retryAborted[h] \/ latest # h \/ hostState[h] \in {"stopping", "stopped"}
Retry(h, a, r) == retries' = [retries EXCEPT ![h] = [retries[h] EXCEPT ![a] = r]]
RetryCheck(h, a) ==
    /\ retries[h][a].pc = "check"
    /\ Retry(h, a, IF GivesUp(h) THEN [retries[h][a] EXCEPT !.pc = "done"]
                   ELSE [retries[h][a] EXCEPT !.pc = "dialing", !.attempt = @ + 1])
    /\ UNCHANGED <<latest, hostState, retryAborted, race, races, links, stray>>
MoreDelaysShort(attempt) == attempt < RetryDelays
MoreDelays(attempt) == attempt <= RetryDelays
RetryDialEnds(h, a, result) ==
    /\ retries[h][a].pc = "dialing"
    /\ result = "ok" => hostState[h] = "started"
    /\ IF result = "ok"
       THEN /\ Retry(h, a, [retries[h][a] EXCEPT !.pc = "done", !.made = TRUE])
            /\ \E p \in Reachable({a}) : links' = links \cup {<<h, p>>}
       ELSE /\ Retry(h, a, [retries[h][a] EXCEPT !.pc = IF MoreDelays(retries[h][a].attempt) THEN "waiting" ELSE "done"])
            /\ UNCHANGED links
    /\ UNCHANGED <<latest, hostState, retryAborted, race, races, stray>>
\* _waitForBootstrapRetry: the timer fires, or the controller has aborted.
RetryWaitEnds(h, a) ==
    /\ retries[h][a].pc = "waiting" /\ Retry(h, a, [retries[h][a] EXCEPT !.pc = "check"])
    /\ UNCHANGED <<latest, hostState, retryAborted, race, races, links, stray>>

-----------------------------------------------------------------------------
(* start, stop and restart, as far as they concern dialling. *)

DialInit ==
    /\ latest = NoHost /\ hostState = [h \in Hosts |-> "absent"] /\ retryAborted = [h \in Hosts |-> FALSE]
    /\ retries = [h \in Hosts |-> [a \in BootstrapAddress |-> NoLoop]]
    /\ race = NoCall /\ races = 0 /\ links = {} /\ stray = {}

\* The host is built: the controller of the host before it is aborted, and
\* a node that is no seed begins one loop for each bootstrap address. start
\* refuses only while the host before it runs: it may still be stopping.
HostStarts(seed) ==
    LET h == latest + 1
    IN /\ h \in Hosts /\ (latest # NoHost => hostState[latest] # "started")
       /\ latest' = h /\ hostState' = [hostState EXCEPT ![h] = "started"]
       /\ retries' = [retries EXCEPT ![h] = [a \in BootstrapAddress |-> IF seed THEN NoLoop ELSE [NoLoop EXCEPT !.pc = "check"]]]
       /\ retryAborted' = [g \in Hosts |-> retryAborted[g] \/ (~seed /\ g < h)]
       /\ UNCHANGED <<race, races, links, stray>>
\* stop() aborts the controller, waits for the relay policy, and then stops
\* the host.
RetriesStop ==
    /\ latest # NoHost /\ hostState[latest] = "started" /\ ~retryAborted[latest]
    /\ retryAborted' = [retryAborted EXCEPT ![latest] = TRUE]
    /\ UNCHANGED <<latest, hostState, retries, race, races, links, stray>>
HostStopping ==
    /\ latest # NoHost /\ hostState[latest] = "started" /\ retryAborted[latest]
    /\ hostState' = [hostState EXCEPT ![latest] = "stopping"]
    /\ UNCHANGED <<latest, retryAborted, retries, race, races, links, stray>>
HostStopped(h) ==
    /\ hostState[h] = "stopping" /\ hostState' = [hostState EXCEPT ![h] = "stopped"]
    /\ links' = {c \in links : c[1] # h}
    /\ UNCHANGED <<latest, retryAborted, retries, race, races, stray>>
\* disconnect, or the peer goes away.
HangUp(c) == links' = links \ {c} /\ UNCHANGED <<latest, hostState, retryAborted, retries, race, races, stray>>

Lists == {BootstrapAddress, Address, {}}
RetryStep(h, a) == RetryCheck(h, a) \/ RetryWaitEnds(h, a) \/ \E r \in Results : RetryDialEnds(h, a, r)
DialNext ==
    \/ \E seed \in BOOLEAN : HostStarts(seed)
    \/ RetriesStop \/ HostStopping \/ RaceAborted \/ CallReturns
    \/ \E h \in Hosts : HostStopped(h)
    \/ \E l \in Lists : SafeDial(l)
    \/ \E r \in Results : (\E g \in SUBSET Address : RaceStep(g, r)) \/ (\E s \in stray : StrayEnds(s, r))
    \/ \E h \in Hosts, a \in BootstrapAddress : RetryStep(h, a)
    \/ \E c \in links : HangUp(c)

DialSpec == DialInit /\ [][DialNext]_dialVars

-----------------------------------------------------------------------------
\* A loop that is over although its host is the current one and runs has
\* reached its peer or has made every attempt (_dialBootstrapWithRetry): no
\* stop, restart or abort of another host ends it early.
RetriesPersist ==
    \A h \in Hosts, a \in BootstrapAddress :
        retries[h][a].pc = "done" /\ h = latest /\ ~retryAborted[h] => retries[h][a].made \/ retries[h][a].attempt = RetryDelays + 1

\* A bootstrap address is dialled on the current host only, and not once
\* stop() was called: at most the dial in flight outlives its host
\* (the check at the head of every attempt).
RetriesOnLiveHost ==
    \A h \in Hosts, a \in BootstrapAddress :
        retries[h][a].pc # "dialing" /\ retries'[h][a].pc = "dialing" => h = latest /\ hostState[h] = "started" /\ ~retryAborted[h]

\* safeDial on a list tells the truth about the race: it returns a
\* connection only if one of its dials made one, and gives up only when
\* every peer of the list was tried, each once (Promise.any over
\* dialCandidates).
RaceIsTruthful ==
    race.pc = "settled" /\ race.groups # {} =>
        /\ race.value <=> race.outcome = "ok"
        /\ ~race.value => race.failed = race.groups
        /\ \A g, k \in race.groups : g # k => {OwnerOf[a] : a \in g} \cap {OwnerOf[a] : a \in k} \subseteq {Unnamed}

\* How a network node dials: what a race of dials says of itself is true, and a
\* retry loop dials on the current host only and ends early only with it
\* (dialCandidates and _dialBootstrapWithRetry).
DialsAreSound == [](RaceIsTruthful /\ RetriesPersist) /\ [][RetriesOnLiveHost]_dialVars
=============================================================================
