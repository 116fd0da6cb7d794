----------------------------- MODULE RelayConfig -----------------------------
(***************************************************************************)
(* From the configuration of a DRPNetworkNode to its relay policy and its  *)
(* gossip scores (packages/network/src/node.ts, parseLimits of             *)
(* packages/relay-policy/src/index.ts): what the constructor and start()   *)
(* refuse, and what is made of the rest once the host is running. Times    *)
(* are in seconds.                                                         *)
(***************************************************************************)
EXTENDS Integers, FiniteSets

CONSTANTS
    PerCandidate, Total, Target,    \* numbers a configuration may name
    Weight, AcceptPX,               \* appSpecificWeight, acceptPXThreshold
    Score                           \* numbers a behaviour provider may return

Undefined == -1
NaN == -2   \* a number that is not finite

\* relay_policy.sources: configured_relays needs no implementation from the
\* caller; "records" stands for the cached relays and the registry records,
\* "providers" for the delegated closest peers and the DHT providers, which
\* are switched alike.
Injectable == {"fallback", "records", "providers", "closest"}
Sources == Injectable \cup {"relays"}

VARIABLES config, pc, policy, score

vars == <<config, pc, policy, score>>

-----------------------------------------------------------------------------
(* What the validation and _startRelayPolicy derive from a configuration,  *)
(* each for itself.                                                        *)

nodeClosestPeersEnabled == "closest" \in config.on /\ config.publicRouting
perCandidate == IF config.perCandidate = Undefined THEN 1 ELSE config.perCandidate
total ==
    IF config.total # Undefined THEN config.total
    ELSE IF nodeClosestPeersEnabled THEN 55 ELSE 5
target == IF config.target = Undefined THEN 2 ELSE config.target
Wanted ==
    {s \in config.on : /\ s = "providers" => config.overflow
                       /\ s = "closest" => nodeClosestPeersEnabled}

Within(n, low, high) == low <= n /\ n <= high

\* _validateRelayPolicyConfiguration; the constructor leaves the sources out.
\* For comparison, one that leaves the upper bound of the total deadline to
\* the policy.
TimesValidBelow == Within(perCandidate, 1, 10) /\ total >= perCandidate
TimesValid == Within(perCandidate, 1, 10) /\ total >= perCandidate /\ total <= 120
SourcesValid == Within(target, 1, 8) /\ Wanted \cap Injectable \subseteq config.injected
validateRelayPolicyConfiguration(validateSources) ==
    TimesValid /\ (validateSources /\ config.sources => SourcesValid)

\* _validatePhaseSevenConfiguration, as to the reward. For comparison, one
\* that forgets the weight.
validateUnweighted == config.reward => config.maxScore # NaN /\ config.maxScore > 0 /\ config.maxScore < AcceptPX
validatePhaseSevenConfiguration ==
    config.reward => config.maxScore # NaN /\ config.maxScore > 0 /\ config.maxScore * Weight < AcceptPX

\* parseLimits on the defaults (32 candidates, one relay for each operator
\* group) and what _createRelayPolicy passes.
parseLimits(limits) ==
    /\ Within(limits.perCandidate, 1, 10) /\ Within(limits.total, 1, 120)
    /\ Within(limits.groups, 1, 8) /\ Within(limits.reservations, 1, 8)
    /\ limits.reservations <= 32 /\ limits.groups <= limits.reservations
    /\ 1 * limits.groups >= limits.reservations

-----------------------------------------------------------------------------
(* The steps. *)

RelayConfigs ==
    [sources : BOOLEAN, perCandidate : PerCandidate \cup {Undefined}, total : Total \cup {Undefined},
     target : Target \cup {Undefined}, on : SUBSET Sources, publicRouting : BOOLEAN, overflow : BOOLEAN,
     injected : {Injectable, {}, {"fallback", "closest"}}, reward : {FALSE}, maxScore : {NaN}]
Plain == [sources |-> FALSE, perCandidate |-> Undefined, total |-> Undefined, target |-> Undefined, on |-> {},
          publicRouting |-> FALSE, overflow |-> FALSE, injected |-> {}, reward |-> TRUE, maxScore |-> NaN]
ScoreConfigs == {[Plain EXCEPT !.maxScore = m, !.reward = r] : m \in Score, r \in BOOLEAN}

Init == config \in RelayConfigs \cup ScoreConfigs /\ pc = "new" /\ policy = {} /\ score = 0

Construct ==
    /\ pc = "new" /\ pc' = IF validateRelayPolicyConfiguration(FALSE) THEN "constructed" ELSE "refused"
    /\ UNCHANGED <<config, policy, score>>
StartCall ==
    /\ pc = "constructed"
    /\ pc' = IF validateRelayPolicyConfiguration(TRUE) /\ validatePhaseSevenConfiguration THEN "hostBuilt" ELSE "refused"
    /\ UNCHANGED <<config, policy, score>>

\* _startRelayPolicy, after the host, the queue and the enqueue loop are up:
\* the checks of the target, of CompositeRelayCandidateSource and of
\* parseLimits throw out of a start() that has done its work.
Composed == {s \in Wanted : s = "relays" \/ s \in config.injected}
startRelayPolicy ==
    /\ pc = "hostBuilt"
    /\ IF ~config.sources THEN pc' = "started" /\ UNCHANGED policy
       ELSE IF ~Within(target, 1, 8) THEN pc' = "threw" /\ UNCHANGED policy
       ELSE IF Composed = {} THEN pc' = "started" /\ UNCHANGED policy
       ELSE IF parseLimits([perCandidate |-> perCandidate, total |-> total, groups |-> target, reservations |-> target])
       THEN pc' = "started" /\ policy' = Composed
       ELSE pc' = "threw" /\ UNCHANGED policy
    /\ UNCHANGED <<config, score>>

\* appSpecificScore of one peer, from what the provider says of it; a
\* provider that throws or knows nothing counts as unauthenticated. The
\* reward is on in the configuration and in the rollout.
Observations == [authenticated : BOOLEAN, diversity : Score, valid : Score]
Positive(n) == IF n > 0 THEN n ELSE 0
appSpecificScore(o) ==
    IF ~config.reward \/ ~o.authenticated \/ NaN \in {o.diversity, o.valid} THEN 0
    ELSE IF Positive(o.diversity) + Positive(o.valid) <= config.maxScore
    THEN Positive(o.diversity) + Positive(o.valid) ELSE config.maxScore
Observe(o) == pc = "started" /\ score' = appSpecificScore(o) /\ UNCHANGED <<config, pc, policy>>

Next == Construct \/ StartCall \/ startRelayPolicy \/ \E o \in Observations : Observe(o)
Spec == Init /\ [][Next]_vars

-----------------------------------------------------------------------------
\* What the constructor and start() accept, they carry out: start() does not
\* throw when the host is already running, and every source that the
\* configuration switches on is in the composition of the policy
\* (_validateRelayPolicyConfiguration against _startRelayPolicy and
\* parseLimits).
AcceptedConfigStarts ==
    /\ pc # "threw"
    /\ pc = "started" /\ config.sources => policy = Wanted

\* Observed behaviour alone never lets a peer exchange peers: the reward
\* stays below the accept-PX threshold and is never a penalty
\* (getGossipSubPeerScoreParams).
RewardBelowPX == score >= 0 /\ (pc = "started" => score * Weight < AcceptPX)
=============================================================================
