---------------------------- MODULE RelaySources ----------------------------
(***************************************************************************)
(* Where relay candidates come from (packages/relay-policy/src/index.ts):  *)
(* the record, configured, connected-peer and provider sources, their lazy *)
(* composition in CompositeRelayCandidateSource, collectCandidates, which  *)
(* pulls from it under a deadline, and the two phases of a policy that has *)
(* a degraded overflow tier. RelayPolicy takes what this yields as a set   *)
(* of offers.                                                              *)
(*                                                                         *)
(* An item is what a source reads: a signed record, a connection with its  *)
(* Identify data, or a provider. A source may hang: the deadline or the    *)
(* caller cuts the collection off, and its generators go on waiting for    *)
(* the answer.                                                             *)
(***************************************************************************)
EXTENDS Integers, Sequences, FiniteSets, SequencesExt

CONSTANTS
    Source,             \* sequence of [kind, tier, degraded, items]
    Switches,           \* the sets of sources that a configuration enables
    Required,           \* requiredOperatorGroups
    MaxCandidates,      \* the smaller of maxCandidates and maxQueuedCandidates
    ObservationCap, MaxHarvest, \* caps of collectCandidates, of a connected harvest
    Classified,         \* whether there is an operatorGroupClassifier
    MaxTime             \* bound: the clock

Sources == DOMAIN Source
Unknown == "unknown"

VARIABLES
    now, enabled,
    plan,       \* what is collected from: "composite", or one tier of it: "primary", "overflow"
    tier,       \* the tier its generator goes through, or "end"
    at, pos,    \* the present source, 0 between sources, and its next item
    yielded,    \* how many candidates the present source has yielded
    opened, closed, \* sources whose iterator was made; whose iterator is done
    cutOff,     \* sources whose answer a collection that was cut off still awaits
    seen, attested, \* of the generator: peers, verified operator groups
    observed,   \* observations of collectCandidates
    pool, eligible, \* candidates collected; #degradedOverflowEligiblePeerIds
    held,       \* the candidate in the hands of the classifier
    outcome     \* "", "reserving" between two phases, "done", "cut off"

pickVars == <<tier, at, pos, yielded, opened, closed, seen, attested, observed, pool, eligible, held>>
vars == <<now, enabled, plan, cutOff, outcome, pickVars>>

None == [peer |-> "none"]

-----------------------------------------------------------------------------
(* The sources. *)

\* Which items a source turns into a candidate; the others it skips. The
\* record sources read the clock at every item. For comparison, one that
\* trusts the directory to list what is alive.
YieldsStale(kind, item) == item.service
Yields(kind, item) ==
    CASE kind \in {"registry", "cache"} -> item.expires > now /\ item.service /\ item.here
      [] kind = "fallback" -> item.service
      [] kind = "connected" -> item.service /\ item.dialable
      [] OTHER -> TRUE

Origin(kind) ==
    CASE kind = "registry" -> <<"registry-relay-record", "registry">>
      [] kind = "cache" -> <<"cached-relay", "peer-cache">>
      [] kind = "fallback" -> <<"configured-fallback", "configured">>
      [] kind = "configured" -> <<"configured-relay", "configured">>
      [] kind = "connected" -> <<"node-connected-hop", "connected-peers">>
      [] kind = "providers" -> <<"dht-relay-provider", "public-dht">>
      [] kind = "closest" -> <<"browser-closest-peers", "delegated-routing">>

\* Evidence: only the configured relays and a fallback entry with verified
\* evidence bring an operator group along.
Evidence(kind, item, index) ==
    CASE kind = "configured" -> <<"configured", index>>
      [] kind = "fallback" /\ item.verified -> <<"operator", item.group>>
      [] OTHER -> <<Unknown, 0>>
Candidate(kind, item, index) ==
    [peer |-> item.peer, whole |-> item.whole, evidence |-> Evidence(kind, item, index),
     provenance |-> Origin(kind), index |-> index]

isCandidateProvenancePair(origin) ==
    origin \in {<<"browser-closest-peers", "delegated-routing">>, <<"cached-relay", "peer-cache">>,
                <<"configured-fallback", "configured">>, <<"configured-relay", "configured">>,
                <<"dht-relay-provider", "delegated-routing">>, <<"dht-relay-provider", "public-dht">>,
                <<"node-connected-hop", "connected-peers">>, <<"registry-relay-record", "registry">>}
isValidCandidate(c) == c.whole /\ isCandidateProvenancePair(c.provenance) /\ c.index >= 0
verifiedOperatorGroup(c) == {c.evidence} \ {<<Unknown, 0>>}

-----------------------------------------------------------------------------
(* The composite and the collector, one generator inside the other. *)

hasDegradedOverflow == \E k \in enabled : Source[k].tier = "overflow" /\ Source[k].degraded

Init ==
    /\ now = 0 /\ enabled \in Switches /\ plan = (IF hasDegradedOverflow THEN "primary" ELSE "composite")
    /\ tier = "primary" /\ at = 0 /\ pos = 1 /\ yielded = 0 /\ opened = {} /\ closed = {} /\ cutOff = {}
    /\ seen = {} /\ attested = {} /\ observed = 0 /\ pool = << >> /\ eligible = {} /\ held = None
    /\ outcome = ""

Running == outcome = "" /\ held = None
Left == {k \in enabled : Source[k].tier = tier /\ k \notin opened}

\* A collection has ended: a primary phase leaves it to the reservations
\* whether there is another one.
Ended(how) == IF plan = "primary" THEN "reserving" ELSE how

\* The end of a collection closes the iterator that is still open, the inner
\* one by the outer one's return. For comparison, an end that leaves it to
\* the garbage collector.
EndLeaving == outcome' = Ended("done") /\ UNCHANGED closed
End == outcome' = Ended("done") /\ closed' = closed \cup ({at} \ {0})

\* emitSources takes the next source of the tier; after the primary tier the
\* overflow tier follows unless enough groups are attested, or the phases
\* are apart. For comparison, overflow that always follows.
NextTierAlways == IF tier = "primary" THEN "overflow" ELSE "end"
NextTier == IF plan = "composite" /\ tier = "primary" /\ Cardinality(attested) < Required THEN "overflow" ELSE "end"
Open ==
    /\ Running /\ at = 0 /\ tier # "end"
    /\ IF Left = {} THEN tier' = NextTier /\ UNCHANGED <<at, pos, yielded, opened>>
       ELSE /\ at' = CHOOSE k \in Left : \A j \in Left : k <= j
            /\ opened' = opened \cup {at'} /\ pos' = 1 /\ yielded' = 0 /\ UNCHANGED tier
    /\ UNCHANGED <<now, enabled, plan, cutOff, closed, seen, attested, observed, pool, eligible, held, outcome>>
Finish ==
    /\ Running /\ tier = "end" /\ End
    /\ UNCHANGED <<now, enabled, plan, cutOff, tier, at, pos, yielded, opened, seen, attested, observed, pool, eligible, held>>

Items == Source[at].items
Harvested == Source[at].kind = "connected" /\ yielded >= MaxHarvest
\* The present source is exhausted, or it throws: the next one follows.
SourceEnds ==
    /\ Running /\ at # 0
    /\ closed' = closed \cup {at} /\ at' = 0
    /\ UNCHANGED <<now, enabled, plan, cutOff, tier, pos, yielded, opened, seen, attested, observed, pool, eligible, held, outcome>>
Exhausted == Running /\ at # 0 /\ (pos > Len(Items) \/ Harvested) /\ SourceEnds
Throws == Running /\ at # 0 /\ SourceEnds

\* A connection of a peer the harvest has seen, and an item the source does
\* not admit, are passed over.
Again(kind, p) == kind = "connected" /\ \E q \in 1..(p - 1) : Items[q].peer = Items[p].peer
Skip ==
    /\ Running /\ at # 0 /\ pos <= Len(Items) /\ ~Harvested
    /\ ~Yields(Source[at].kind, Items[pos]) \/ Again(Source[at].kind, pos)
    /\ pos' = pos + 1
    /\ UNCHANGED <<now, enabled, plan, cutOff, tier, at, yielded, opened, closed, seen, attested, observed, pool, eligible, held, outcome>>

\* A candidate passes the generator, unless its peer has been seen, and
\* reaches the collector, which breaks off at its caps and notes an invalid
\* one. In the overflow tier of the composite the generator returns once the
\* groups are enough; in an overflow phase it notes who is degraded-eligible.
\* For comparison, a generator that does not remember peers.
NeverKnown(c) == FALSE
Known(c) == isValidCandidate(c) /\ c.peer \in seen
Stopped(att) == plan = "composite" /\ tier = "overflow" /\ Cardinality(att) >= Required
Eligible(c) == plan = "overflow" /\ Source[at].degraded /\ isValidCandidate(c) /\ ~Known(c)
Capped == observed > ObservationCap \/ Len(pool) >= MaxCandidates
Pull ==
    /\ Running /\ at # 0 /\ pos <= Len(Items) /\ ~Harvested
    /\ Yields(Source[at].kind, Items[pos]) /\ ~Again(Source[at].kind, pos)
    /\ LET c == Candidate(Source[at].kind, Items[pos], yielded)
           valid == isValidCandidate(c)
           known == Known(c)
           att == IF plan = "composite" /\ valid /\ ~known THEN attested \cup verifiedOperatorGroup(c) ELSE attested
       IN /\ pos' = pos + 1 /\ yielded' = yielded + 1
          /\ seen' = IF valid THEN seen \cup {c.peer} ELSE seen
          /\ attested' = att
          /\ eligible' = IF Eligible(c) THEN eligible \cup {c.peer} ELSE eligible
          /\ observed' = IF known THEN observed ELSE observed + 1
          /\ IF known THEN UNCHANGED <<tier, at, closed, pool, held, outcome>>
             ELSE IF observed' > ObservationCap \/ Len(pool) >= MaxCandidates
             THEN End /\ UNCHANGED <<tier, at, pool, held>>
             ELSE /\ UNCHANGED outcome
                  /\ IF Stopped(att) THEN tier' = "end" /\ closed' = closed \cup {at} /\ at' = 0 ELSE UNCHANGED <<tier, closed, at>>
                  /\ IF ~valid THEN UNCHANGED <<pool, held>>
                     ELSE IF Classified THEN held' = c /\ UNCHANGED pool
                     ELSE pool' = Append(pool, c) /\ UNCHANGED held
    /\ UNCHANGED <<now, enabled, plan, cutOff, opened>>

\* The classifier answers, fails, or misses its own deadline: the group it
\* derives from verified evidence, or none.
ClassifierEnds(group) ==
    /\ outcome = "" /\ held # None
    /\ pool' = Append(pool, [held EXCEPT !.evidence = group]) /\ held' = None
    /\ UNCHANGED <<now, enabled, plan, cutOff, tier, at, pos, yielded, opened, closed, seen, attested, observed, eligible, outcome>>

-----------------------------------------------------------------------------
(* The deadline, the caller's signal, and the phases. *)

\* withDeadline rejects at once and the policy goes on with what is in the
\* pool. The generators unwind at their next look at the signal: at once in
\* the classifier or between sources, else when the source answers.
CutsOff(how) ==
    /\ outcome = "" /\ outcome' = how /\ held' = None
    /\ IF at # 0 /\ held = None THEN cutOff' = cutOff \cup {at} /\ UNCHANGED closed
       ELSE closed' = closed \cup ({at} \ {0}) /\ UNCHANGED cutOff
    /\ UNCHANGED <<now, enabled, plan, tier, at, pos, yielded, opened, seen, attested, observed, pool, eligible>>
Deadline == CutsOff(Ended("cut off"))
CallerAborts ==
    \/ CutsOff("cut off")
    \/ outcome = "reserving" /\ outcome' = "cut off" /\ UNCHANGED <<now, enabled, plan, cutOff, pickVars>>

\* The answer comes, or its failure: throwIfAborted, and the finally blocks.
\* For comparison, a generator that passes the answer on first.
AnswersPassedOn(k) ==
    /\ k \in cutOff /\ cutOff' = cutOff \ {k} /\ closed' = closed \cup {k}
    /\ pool' = Append(pool, Candidate(Source[k].kind, Last(Source[k].items), 0))
    /\ UNCHANGED <<now, enabled, plan, outcome, tier, at, pos, yielded, opened, seen, attested, observed, eligible, held>>
AnswersLate(k) ==
    /\ k \in cutOff /\ cutOff' = cutOff \ {k} /\ closed' = closed \cup {k}
    /\ UNCHANGED <<now, enabled, plan, outcome, tier, at, pos, yielded, opened, seen, attested, observed, pool, eligible, held>>

\* After the primary phase the candidates are reserved: that is enough, or
\* the overflow tier is collected from, with a new pool and a new generator.
Enough ==
    /\ outcome = "reserving" /\ outcome' = "done"
    /\ UNCHANGED <<now, enabled, plan, cutOff, pickVars>>
FallsShort ==
    /\ outcome = "reserving" /\ outcome' = "" /\ plan' = "overflow" /\ tier' = "overflow"
    /\ at' = 0 /\ pos' = 1 /\ yielded' = 0 /\ seen' = {} /\ observed' = 0 /\ pool' = << >> /\ eligible' = {}
    /\ UNCHANGED <<now, enabled, cutOff, opened, closed, attested, held>>

Tick == now < MaxTime /\ now' = now + 1 /\ UNCHANGED <<enabled, plan, cutOff, outcome, pickVars>>

Next ==
    \/ Open \/ Finish \/ Exhausted \/ Throws \/ Skip \/ Pull \/ Deadline \/ CallerAborts \/ Enough \/ FallsShort \/ Tick
    \/ \E k \in Sources : AnswersLate(k)
    \/ \E g \in {held.evidence : h \in {held} \ {None}} \cup {<<Unknown, 0>>} : ClassifierEnds(g)

Spec == Init /\ [][Next]_vars

-----------------------------------------------------------------------------
\* No lookup in the DHT or a directory is left running: the only iterators
\* open are the one a running collection pulls from and, for each collection
\* that was cut off, the one whose answer it awaits. An end by a cap, by
\* enough groups, by exhaustion or by the failure of a source leaves none
\* (the finally blocks of collectCandidates and emitSources, withDeadline).
IteratorsClosed == opened \ closed = cutOff \cup (IF outcome = "" THEN {at} \ {0} ELSE {})

\* What is collected is usable: no peer twice over all sources, every
\* candidate whole with a provenance that isValidCandidate admits, no more
\* than the caps, and nothing that a source answers after its collection was
\* cut off. In an overflow phase a relay counts as degraded-eligible exactly
\* if it was collected from a source that is, whoever offers it again
\* (CompositeRelayCandidateSource, collectCandidates).
PoolIsUsable ==
    /\ \A i, j \in DOMAIN pool : pool[i].peer = pool[j].peer => i = j
    /\ Len(pool) <= MaxCandidates /\ \A i \in DOMAIN pool : isValidCandidate(pool[i])
    /\ plan = "overflow" => \A i \in DOMAIN pool : \E k \in enabled :
         /\ Source[k].tier = plan /\ pool[i].provenance = Origin(Source[k].kind)
         /\ Source[k].degraded <=> pool[i].peer \in eligible

\* A record that has expired by the time its turn comes is not offered, even
\* if it was alive when the directory answered (the record sources).
NoStaleRecord ==
    [][\A k \in Sources : at = k /\ yielded' > yielded /\ Source[k].kind \in {"registry", "cache"}
        => Source[k].items[pos].expires > now]_vars

\* Overflow is lazy: a public source is asked only if the primary sources did
\* not attest enough operator groups, or, where the tiers are phases, if the
\* reservations fell short after the primary one. And it is not forgotten: a
\* collection that ends short of groups, or the one that follows a shortfall
\* however many groups it attests, has asked every enabled overflow source,
\* unless it reached a cap (CompositeRelayCandidateSource, #collectAndAcquire).
AsksOverflow(k) == Source[k].tier = "overflow" /\ k \in opened' \ opened
Insufficient == IF hasDegradedOverflow THEN plan = "overflow" ELSE Cardinality(attested) < Required
OverflowIsLazy ==
    [][/\ \A k \in Sources : AsksOverflow(k) => Insufficient
       /\ outcome' = "done" /\ outcome = "" /\ Insufficient' /\ ~Capped'
            => {k \in enabled : Source[k].tier = "overflow"} \subseteq opened]_vars
=============================================================================
