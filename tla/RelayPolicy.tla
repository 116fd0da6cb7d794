---------------------------- MODULE RelayPolicy ----------------------------
(* The relay policy of packages/relay-policy: one owner that collects relay
   candidates, reserves slots on some of them with a pool of concurrent
   workers, refreshes and replaces the reservations, and releases everything
   when it stops; and the libp2p client through which it reserves.

   The steps of the model are the stretches of code between two awaits.
   Operations of the policy are serialised by its promise chain, the workers
   inside one operation are not. Time is abstracted to what a deadline can do:
   abandon a call that is still running. *)
EXTENDS Integers, Sequences, FiniteSets, Functions, FiniteSetTheorems, TLAPS

CONSTANTS
    Candidate,          \* peers that offer the relay service
    Overflow,           \* relays offered by an overflow source, the others are primary
    DegradedEligible,   \* those of a source marked degraded-eligible
    Evidence,           \* [Candidate -> {"none", "verified", "credential"}]
    Label,              \* [Candidate -> operator group the candidate carries]
    RequiredReservations, RequiredOperatorGroups,
    MaxPerOperatorGroup, MaxConcurrentReservations,
    MaxQueuedOperations,
    Rank,               \* the place of a candidate in the order the sources yield
    MaxRequested,       \* bound on the operations requested
    MaxMishaps          \* bound on abandoned calls and failed releases

\* A composite source yields its primary sources before its overflow sources.
ASSUME RankAssumption ==
    /\ Rank \in [Candidate -> Nat]
    /\ \A p \in Candidate \ Overflow, o \in Candidate \cap Overflow : Rank[p] < Rank[o]

VARIABLES
    hasDegradedOverflow, \* whether an overflow source is degraded-eligible
    requested,           \* operations requested so far
    queue,               \* operations waiting for the promise chain
    op,                  \* the operation that runs, or Idle
    reservations,        \* #active: relays in the order of insertion
    attempted,           \* #attemptedPeerIds
    pending,             \* candidates of the pool no worker has taken yet
    eligible,            \* #degradedOverflowEligiblePeerIds
    degraded,            \* #degradedOverflowPeerIds
    pendingReleases,     \* #pendingReleases
    worker,              \* what each worker of the pool awaits
    cancelled, expired,  \* the caller's signal, the total deadline
    stopping,            \* progress of stop()
    held,                \* Libp2pRelayClient #active: relays with a circuit listener
    mishaps,             \* abandoned calls and failed releases so far
    late,                \* reserve calls abandoned by a deadline and still running
    stray                \* relays of held that the policy was not told of (history)

ownVars == <<reservations, attempted, pending, eligible, degraded, pendingReleases>>
clientVars == <<held, mishaps, late, stray>>
policyVars == <<hasDegradedOverflow, requested, queue, op, ownVars, worker, cancelled,
          expired, stopping, clientVars>>

(* parseLimits *)

Worker == 1..MaxConcurrentReservations
Idle == [kind |-> "idle"]
Free == [pc |-> "free"]
Kinds == {"acquire", "refresh", "replace"}

----------------------------------------------------------------------------
(* Candidates and their operator groups *)

\* EvidenceDerivedOperatorGroupClassifier with the verifier the network node
\* configures, which rejects every credential.
Classify(r) == IF Evidence[r] = "verified" THEN Label[r] ELSE "unknown"

\* isAnonymousOverflowCandidate
IsAnonymous(r, allowDegraded) ==
    /\ allowDegraded /\ r \in eligible
    /\ Classify(r) = "unknown" /\ Evidence[r] = "none"

\* verifiedOperatorGroup, over a set of candidates
AttestedGroups(S) == {Label[r] : r \in {q \in S : Evidence[q] = "verified"}} \ {"unknown"}

\* What the sources of a tier may yield before they end, fail or are cut off
\* by their deadline: any of their candidates, each once, in the order of Rank.
Offers(tier) == SUBSET tier
PrimaryOffers == Offers(Candidate \ Overflow)
OverflowOffers == Offers(Candidate \cap Overflow)
First(S) == CHOOSE r \in S : \A q \in S : Rank[r] <= Rank[q]

\* CompositeRelayCandidateSource.getCandidates: the primary sources in full,
\* then overflow only until enough operator groups are attested.
CompositeOffer(p, o) ==
    LET before(r) == p \cup {q \in o : Rank[q] < Rank[r]}
    IN  p \cup {r \in o : Cardinality(AttestedGroups(before(r))) < RequiredOperatorGroups}

Held == Range(reservations)
GroupSize(g) == Cardinality({r \in Held : Classify(r) = g})

\* #requirementsMet
RequirementsMet(allowDegraded) ==
    /\ Len(reservations) >= RequiredReservations
    /\ \/ Cardinality({Classify(r) : r \in Held} \ {"unknown"}) >= RequiredOperatorGroups
       \/ allowDegraded /\ degraded \cap Held # {}

----------------------------------------------------------------------------
(* The promise chain *)

PolicyInit ==
    /\ hasDegradedOverflow \in BOOLEAN
    /\ requested = 0 /\ queue = <<>> /\ op = Idle
    /\ reservations = <<>> /\ attempted = {} /\ pending = {}
    /\ eligible = {} /\ degraded = {} /\ pendingReleases = {}
    /\ worker = [w \in Worker |-> Free]
    /\ cancelled = FALSE /\ expired = FALSE /\ stopping = "no"
    /\ held = {} /\ mishaps = 0 /\ late = {} /\ stray = {}

\* #enqueue, called by acquire, refresh and replace; a full queue rejects the
\* call and changes nothing.
Enqueue(kind, peer, excluded) ==
    /\ requested < MaxRequested
    /\ Len(queue) + (IF op = Idle THEN 0 ELSE 1) < MaxQueuedOperations
    /\ requested' = requested + 1
    /\ queue' = Append(queue, [kind |-> kind, peer |-> peer, excluded |-> excluded])
    /\ UNCHANGED <<hasDegradedOverflow, op, ownVars, worker, cancelled, expired, stopping, clientVars>>

\* #assertRunning; and the same without the check.
NeverRejected == FALSE
Rejected == stopping # "no"

\* The operation whose predecessor has settled starts; #assertRunning rejects
\* it once stop() was called.
Begin ==
    /\ op = Idle /\ queue # <<>>
    /\ queue' = Tail(queue)
    /\ LET o == Head(queue) IN
       /\ op' = IF Rejected THEN Idle
                ELSE [kind |-> o.kind, excluded |-> o.excluded, todo |-> reservations, failures |-> {},
                      drops |-> IF o.kind = "replace" THEN {o.peer} ELSE {},
                      phase |-> IF o.kind = "acquire" THEN "collect"
                                ELSE IF o.kind = "refresh" THEN "refresh" ELSE "drop"]
       /\ attempted' = IF ~Rejected /\ o.kind = "acquire" THEN {} ELSE attempted
    /\ UNCHANGED <<hasDegradedOverflow, requested, reservations, pending, eligible, degraded, pendingReleases,
                   worker, cancelled, expired, stopping, clientVars>>

\* The operation settles and the next one in the chain may start; its pool,
\* timer and signal go with it. (FinishUnlessAborted: the chain is released on
\* an ordinary return only.)
FinishUnlessAborted ==
    /\ op' = IF cancelled THEN [op EXCEPT !.phase = "aborted"] ELSE Idle
    /\ pending' = {} /\ expired' = FALSE /\ cancelled' = FALSE
Finish == op' = Idle /\ pending' = {} /\ expired' = FALSE /\ cancelled' = FALSE
Continue == UNCHANGED <<pending, expired, cancelled>>

----------------------------------------------------------------------------
(* Reservations at the client *)

\* What the relay answers to RESERVE, with the expiry seen from the policy's
\* clock; decodeRelayReservationResponse accepts only a live reservation.
Responses == [status : {"ok", "refused", "malformed"}, expire : {"absent", "past", "future"}, limit : {"valid", "malformed"}]
Accepted(response) == response.status = "ok" /\ response.expire = "future" /\ response.limit = "valid"

\* Libp2pRelayClient.reserve opens and remembers the listener as soon as the
\* relay answers OK; when the call fails all the same, only the client knows.
OpensNone == UNCHANGED <<held, stray>>
OpensUntold(r) == held' = held \cup {r} /\ stray' = stray \cup ({r} \ held)

\* The client returns a response that the policy does not accept.
NotAccepted(r) ==
    /\ \E response \in Responses :
          ~Accepted(response) /\ IF response.status = "ok" THEN OpensUntold(r) ELSE OpensNone
    /\ UNCHANGED <<mishaps, late>>

\* The client throws, before or after it has opened the listener; or the
\* deadline or the signal cuts the call off, and it goes on running.
Throws(r) ==
    /\ OpensNone \/ OpensUntold(r)
    /\ \/ UNCHANGED <<mishaps, late>>
       \/ mishaps < MaxMishaps /\ mishaps' = mishaps + 1 /\ late' = late \cup {r}

\* Libp2pRelayClient.release: every listener of the relay is closed and the
\* relay disconnected, or the call fails and the client still remembers it.
Close(r) == held' = held \ {r} /\ stray' = stray \ {r} /\ UNCHANGED mishaps
CloseFails(r) == UNCHANGED <<held, stray>> /\ mishaps < MaxMishaps /\ mishaps' = mishaps + 1

\* As Release, but a failed release is not kept for later.
ReleaseForgets(r) ==
    /\ pendingReleases' = pendingReleases \ {r}
    /\ Close(r) \/ CloseFails(r)

\* #release: a release that fails is remembered and repeated by stop().
Release(r) ==
    \/ Close(r) /\ pendingReleases' = pendingReleases \ {r}
    \/ CloseFails(r) /\ pendingReleases' = pendingReleases \cup {r}

\* The abandoned call ends, with a listener or without.
LateReturn(r) ==
    /\ r \in late
    /\ late' = late \ {r}
    /\ OpensNone \/ OpensUntold(r)
    /\ UNCHANGED <<hasDegradedOverflow, requested, queue, op, ownVars, worker, cancelled, expired, stopping, mishaps>>

----------------------------------------------------------------------------
(* refresh() and replace() before they search *)

\* A reservation that is not near its expiry is passed over.
RefreshSkip ==
    /\ op # Idle /\ op.phase = "refresh" /\ op.todo # <<>>
    /\ op' = [op EXCEPT !.todo = Tail(@)]
    /\ UNCHANGED <<hasDegradedOverflow, requested, queue, ownVars, worker, cancelled, expired, stopping, clientVars>>

\* One awaited refresh call is granted; or it is refused or fails, perhaps cut
\* off by its deadline. The caller's abort ends the whole operation at once.
RefreshCall ==
    /\ op # Idle /\ op.phase = "refresh" /\ op.todo # <<>>
    /\ LET r == Head(op.todo) IN
       \/ /\ ~cancelled
          /\ held' = held \cup {r}
          /\ op' = [op EXCEPT !.todo = Tail(@)] /\ Continue
          /\ UNCHANGED <<mishaps, late, stray>>
       \/ /\ IF cancelled THEN Finish
             ELSE op' = [op EXCEPT !.todo = Tail(@), !.failures = @ \cup {r}] /\ Continue
          /\ NotAccepted(r) \/ Throws(r)
    /\ UNCHANGED <<hasDegradedOverflow, requested, queue, reservations, attempted, eligible, degraded, pendingReleases,
                   worker, stopping>>

\* Every reservation was looked at: the failed ones are dropped and replaced;
\* without a failure the operation reports "reserved" as it stands.
RefreshEnd ==
    /\ op # Idle /\ op.phase = "refresh" /\ op.todo = <<>>
    /\ IF op.failures = {} THEN Finish
       ELSE op' = [op EXCEPT !.phase = "drop", !.drops = op.failures] /\ Continue
    /\ UNCHANGED <<hasDegradedOverflow, requested, queue, reservations, attempted, eligible, degraded, pendingReleases,
                   worker, stopping, clientVars>>

\* A relay leaves the map of reservations; the order of the others stays.
Without(list, r) ==
    LET at == CHOOSE i \in DOMAIN list : list[i] = r
    IN  [i \in 1..Len(list) - 1 |-> list[IF i < at THEN i ELSE i + 1]]

\* #drop of one relay; dropping a relay that is not reserved does nothing.
Drop(r) ==
    /\ op # Idle /\ op.phase = "drop" /\ r \in op.drops
    /\ op' = [op EXCEPT !.drops = @ \ {r}, !.failures = @ \cup {r}]
    /\ IF r \in Held
       THEN /\ reservations' = Without(reservations, r)
            /\ degraded' = degraded \ {r}
            /\ Release(r)
       ELSE UNCHANGED <<reservations, degraded, pendingReleases, held, mishaps, stray>>
    /\ UNCHANGED <<hasDegradedOverflow, requested, queue, attempted, pending, eligible, worker, cancelled,
                   expired, stopping, late>>

DropEnd ==
    /\ op # Idle /\ op.phase = "drop" /\ op.drops = {}
    /\ op' = [op EXCEPT !.phase = "collect"]
    /\ attempted' = op.failures
    /\ UNCHANGED <<hasDegradedOverflow, requested, queue, reservations, pending, eligible, degraded, pendingReleases,
                   worker, cancelled, expired, stopping, clientVars>>

----------------------------------------------------------------------------
(* #collectAndAcquire *)

\* What #acquireFromPool takes from the pool it is given.
Untried(pool) == pool \ (Held \cup attempted)

\* The pool for a phase is collected and its workers and total timer start.
Pool(offer, phase) ==
    /\ pending' = Untried(offer)
    /\ op' = [op EXCEPT !.phase = phase]
    /\ expired' = FALSE

\* A source without a degraded overflow tier is searched in one phase.
CollectAll ==
    /\ op # Idle /\ op.phase = "collect" /\ ~hasDegradedOverflow
    /\ \E p \in PrimaryOffers, o \in OverflowOffers : Pool(CompositeOffer(p, o), "pool")
    /\ UNCHANGED <<hasDegradedOverflow, requested, queue, reservations, attempted, eligible, degraded, pendingReleases,
                   worker, cancelled, stopping, clientVars>>

\* With one, an operation that is aborted or has enough ends here; otherwise
\* the primary tier is tried by itself first.
CollectPrimary ==
    /\ op # Idle /\ op.phase = "collect" /\ hasDegradedOverflow
    /\ IF cancelled \/ RequirementsMet(TRUE)
       THEN Finish
       ELSE (\E p \in PrimaryOffers : Pool(p, "primary")) /\ UNCHANGED cancelled
    /\ UNCHANGED <<hasDegradedOverflow, requested, queue, reservations, attempted, eligible, degraded, pendingReleases,
                   worker, stopping, clientVars>>

\* The overflow tier; what a degraded-eligible source of it yields is noted.
CollectOverflow ==
    /\ op # Idle /\ op.phase = "overflow"
    /\ \E o \in OverflowOffers : Pool(o, "pool") /\ eligible' = o \cap DegradedEligible
    /\ UNCHANGED <<hasDegradedOverflow, requested, queue, reservations, attempted, degraded, pendingReleases,
                   worker, cancelled, stopping, clientVars>>

InPool == op # Idle /\ op.phase \in {"primary", "pool"}
AllowDegraded == op.phase = "pool" /\ hasDegradedOverflow

\* The loop condition of a worker of #acquireFromPool.
Seeking == ~cancelled /\ ~expired /\ pending # {} /\ ~RequirementsMet(AllowDegraded)

\* Guards of #attemptCandidate that end the attempt before anything is awaited.
OverLimit(r) ==
    /\ GroupSize(Classify(r)) >= MaxPerOperatorGroup
    /\ ~IsAnonymous(r, AllowDegraded)

Refused(r) == r \in Held \/ Classify(r) = op.excluded \/ OverLimit(r)

\* A worker takes the next candidate and awaits its inspection and reservation.
Take(w) ==
    /\ InPool /\ worker[w] = Free /\ Seeking
    /\ LET r == First(pending) IN
       /\ pending' = pending \ {r}
       /\ attempted' = attempted \cup {r}
       /\ worker' = IF Refused(r) THEN worker ELSE [worker EXCEPT ![w] = [pc |-> "reserving", relay |-> r]]
    /\ UNCHANGED <<hasDegradedOverflow, requested, queue, op, reservations, eligible, degraded, pendingReleases,
                   cancelled, expired, stopping, clientVars>>

\* No compatible address, a failed dial, no HOP protocol.
InspectionFails(w) ==
    /\ worker[w].pc = "reserving"
    /\ worker' = [worker EXCEPT ![w] = Free]
    /\ UNCHANGED <<hasDegradedOverflow, requested, queue, op, ownVars, cancelled, expired, stopping, clientVars>>

\* The relay's answer is not a reservation, or the call fails: the attempt is
\* over, and nothing is released.
ReservationFails(w) ==
    /\ worker[w].pc = "reserving"
    /\ worker' = [worker EXCEPT ![w] = Free]
    /\ NotAccepted(worker[w].relay) \/ Throws(worker[w].relay)
    /\ UNCHANGED <<hasDegradedOverflow, requested, queue, op, ownVars, cancelled, expired, stopping>>

\* active.set, and the mark of an anonymous overflow relay.
Admit(r, list) ==
    /\ reservations' = Append(list, r)
    /\ degraded' = degraded \cup (IF IsAnonymous(r, AllowDegraded) THEN {r} ELSE {})

\* As Surplus, but any relay may give way.
SurplusAny == DOMAIN reservations

\* The places of the relays whose operator group has another one: the first of
\* them gives way when the policy is full.
Surplus == {i \in DOMAIN reservations : GroupSize(Classify(reservations[i])) > 1}
Victim == reservations[CHOOSE i \in Surplus : \A j \in Surplus : i <= j]

\* The relay grants the reservation. What was checked before the await is
\* checked again: the grant is given back, displaces a surplus relay, or is kept.
Granted(w) ==
    /\ worker[w].pc = "reserving" /\ ~cancelled /\ ~expired
    /\ \E response \in Responses : Accepted(response)
    /\ LET r == worker[w].relay
           back == r \in Held \/ OverLimit(r) \/ RequirementsMet(AllowDegraded)
           full == Len(reservations) >= RequiredReservations /\ Surplus # {}
       IN  /\ held' = held \cup {r} /\ stray' = stray \ {r}
           /\ \/ /\ back
                 /\ worker' = [worker EXCEPT ![w].pc = "releasing"]
                 /\ UNCHANGED <<reservations, degraded>>
              \/ /\ ~back /\ full
                 /\ worker' = [worker EXCEPT ![w] = [pc |-> "dropping", relay |-> r, victim |-> Victim]]
                 /\ reservations' = Without(reservations, Victim)
                 /\ degraded' = degraded \ {Victim}
              \/ /\ ~back /\ ~full
                 /\ worker' = [worker EXCEPT ![w] = Free]
                 /\ Admit(r, reservations)
    /\ UNCHANGED <<hasDegradedOverflow, requested, queue, op, attempted, pending, eligible, pendingReleases,
                   cancelled, expired, stopping, mishaps, late>>

\* The awaited release of a grant that is not kept returns.
GivenBack(w) ==
    /\ worker[w].pc = "releasing"
    /\ Release(worker[w].relay)
    /\ worker' = [worker EXCEPT ![w] = Free]
    /\ UNCHANGED <<hasDegradedOverflow, requested, queue, op, reservations, attempted, pending, eligible, degraded,
                   cancelled, expired, stopping, late>>

\* The awaited drop of the surplus relay returns and the new one is set,
\* without looking at the reservations again.
Displaced(w) ==
    /\ worker[w].pc = "dropping"
    /\ Release(worker[w].victim)
    /\ Admit(worker[w].relay, reservations)
    /\ worker' = [worker EXCEPT ![w] = Free]
    /\ UNCHANGED <<hasDegradedOverflow, requested, queue, op, attempted, pending, eligible, cancelled, expired,
                   stopping, late>>

\* All workers have returned: the primary phase hands over to the overflow
\* phase unless it met the requirements or was aborted; the last phase ends the
\* operation, after the owned fallback where that is configured.
PoolEnd ==
    /\ InPool /\ ~Seeking /\ \A w \in Worker : worker[w] = Free
    /\ IF op.phase = "primary" /\ ~RequirementsMet(FALSE) /\ ~cancelled
       THEN op' = [op EXCEPT !.phase = "overflow"] /\ eligible' = {} /\ Continue
       ELSE Finish /\ UNCHANGED eligible
    /\ UNCHANGED <<hasDegradedOverflow, requested, queue, reservations, attempted, degraded, pendingReleases,
                   worker, stopping, clientVars>>

\* The caller's signal, and the timer of #acquireFromPool.
Abort ==
    /\ op # Idle /\ ~cancelled
    /\ cancelled' = TRUE
    /\ UNCHANGED <<hasDegradedOverflow, requested, queue, op, ownVars, worker, expired, stopping, clientVars>>

Expire ==
    /\ InPool /\ ~expired
    /\ expired' = TRUE
    /\ UNCHANGED <<hasDegradedOverflow, requested, queue, op, ownVars, worker, cancelled, stopping, clientVars>>

----------------------------------------------------------------------------
(* stop() *)

Stop ==
    /\ stopping = "no"
    /\ stopping' = "waiting"
    /\ UNCHANGED <<hasDegradedOverflow, requested, queue, op, ownVars, worker, cancelled, expired, clientVars>>

\* The promise chain has settled: everything the policy knows of is released,
\* whether or not the releases succeed, and forgotten.
StopRelease ==
    /\ stopping = "waiting" /\ op = Idle /\ queue = <<>>
    /\ \E failed \in SUBSET (Held \cup pendingReleases) : held' = held \ ((Held \cup pendingReleases) \ failed)
    /\ reservations' = <<>> /\ attempted' = {} /\ pending' = {}
    /\ eligible' = {} /\ degraded' = {} /\ pendingReleases' = {}
    /\ stopping' = "released"
    /\ UNCHANGED <<hasDegradedOverflow, requested, queue, op, worker, cancelled, expired, mishaps, late, stray>>

\* Libp2pRelayClient.stop: a release of every listener the client remembers.
ClientStop ==
    /\ stopping = "released"
    /\ held' \in SUBSET held
    /\ stopping' = "done"
    /\ UNCHANGED <<hasDegradedOverflow, requested, queue, op, ownVars, worker, cancelled, expired, mishaps, late, stray>>

----------------------------------------------------------------------------
Requests == \E kind \in Kinds, r \in Candidate, g \in {"none", "own"} :
    /\ kind # "replace" => r = CHOOSE q \in Candidate : TRUE
    /\ kind # "replace" => g = "none"
    /\ kind = "replace" => r \in Held
    /\ Enqueue(kind, r, IF g = "own" THEN Classify(r) ELSE g)

Operation == Begin \/ RefreshSkip \/ RefreshCall \/ RefreshEnd \/ (\E r \in Candidate : Drop(r)) \/ DropEnd
             \/ CollectAll \/ CollectPrimary \/ CollectOverflow \/ PoolEnd
Work(w) == Take(w) \/ InspectionFails(w) \/ ReservationFails(w) \/ Granted(w) \/ GivenBack(w) \/ Displaced(w)
StopSteps == StopRelease \/ ClientStop

PolicyNext == Requests \/ Operation \/ (\E w \in Worker : Work(w)) \/ (\E r \in Candidate : LateReturn(r))
        \/ Abort \/ Expire \/ Stop \/ StopSteps

(* Collections, inspections and reservations have deadlines; a release has
   none, and is assumed to return. The scheduler runs what is ready, so an
   operation, a worker and a stop that can go on do. *)
PolicyFairness == WF_policyVars(Operation) /\ WF_policyVars(StopSteps) /\ \A w \in Worker : WF_policyVars(Work(w))
PolicySpec == PolicyInit /\ [][PolicyNext]_policyVars /\ PolicyFairness

----------------------------------------------------------------------------
(* Properties *)

InHand == {worker[w].relay : w \in {v \in Worker : worker[v].pc \in {"releasing", "dropping"}}}
          \cup {worker[w].victim : w \in {v \in Worker : worker[v].pc = "dropping"}}

\* No reservation the policy was told of is lost track of: what the client holds
\* is reserved, waits for a repeated release or is in the hands of a worker; and
\* every reservation is held. Races of workers, failed releases, refreshes and
\* replacements all preserve it, until stop() forgets what it could not release.
\* The exception is a listener the policy never learned of, because the call that
\* opened it was not accepted, threw or was cut off: #attemptCandidate releases
\* nothing then, and the relay stays stray until a later reservation of it
\* succeeds or Libp2pRelayClient.stop closes it.
ReservationsTracked ==
    stopping \in {"no", "waiting"} =>
        /\ held \ stray \subseteq Held \cup pendingReleases \cup InHand
        /\ Held \subseteq held
        /\ IsInjective(reservations)

\* Workers never cost the policy an operator group it had: a relay displaced
\* while a pool is worked on leaves another relay of its group behind.
KeepsGroups == InPool => {Classify(r) : r \in Held} \subseteq {Classify(r) : r \in Held'}

\* Once stop() has released, nothing is reserved again: the set of reservations stays
\* empty and the client only ever gains what an abandoned call still opens.
StaysQuiet == stopping \in {"released", "done"} => Held' = {} /\ held' \subseteq held \cup late

\* No step of the policy trades an operator group away (the choice of the surplus relay in
\* #attemptCandidate), and none brings a reservation back after stop().
DiversityKept == [][KeepsGroups /\ StaysQuiet]_policyVars

\* Every operation and every stop comes to an end, whatever refuses, fails,
\* stays silent until its deadline or is aborted.
Drained == op = Idle /\ queue = <<>>
StopSettled == stopping \in {"no", "done"}

----------------------------------------------------------------------------
(* Proofs, for any number of candidates, workers, operator groups, operations
   and failures: the inductive invariant. *)

Groups == {"none", "unknown"} \cup {Label[r] : r \in Candidate}
Phases == {"collect", "refresh", "drop", "primary", "overflow", "pool"}
Request == [kind : Kinds, peer : Candidate, excluded : Groups]
Running == [kind : Kinds, excluded : Groups, todo : Seq(Candidate), failures : SUBSET Candidate,
            drops : SUBSET Candidate, phase : Phases]
Attempt == [pc : {"reserving", "releasing"}, relay : Candidate]
           \cup [pc : {"dropping"}, relay : Candidate, victim : Candidate]

\* The types of the state of the policy that the argument reads.
PolicyTypeOK ==
    /\ queue \in Seq(Request) /\ op \in {Idle} \cup Running
    /\ reservations \in Seq(Candidate) /\ pending \subseteq Candidate
    /\ worker \in [Worker -> {Free} \cup Attempt]
    /\ stopping \in {"no", "waiting", "released", "done"}

Busy(w) == worker[w] # Free
Dropping(w) == worker[w].pc = "dropping"

\* What is in the hands of a worker: the relay it tries, and the one that gives way to it.
Hands(w) == (IF Busy(w) THEN {worker[w].relay} ELSE {}) \cup (IF Dropping(w) THEN {worker[w].victim} ELSE {})

\* A relay is in one place: it waits in the pool, is reserved, or is in the hands of one worker.
OnePlace ==
    /\ pending \cap Held = {}
    /\ \A w \in Worker : Hands(w) \cap (pending \cup Held) = {}
    /\ \A v, w \in Worker : v # w => Hands(v) \cap Hands(w) = {}
    /\ \A w \in Worker : Dropping(w) => worker[w].relay # worker[w].victim
    /\ \A w \in Worker : Busy(w) => InPool

\* What a worker is about to keep is held; a refresh looks at what is reserved; a policy
\* that has released everything is at rest.
Accounted ==
    /\ Held \subseteq held /\ IsInjective(reservations)
    /\ \A w \in Worker : Dropping(w) => worker[w].relay \in held
    /\ op # Idle /\ op.phase = "refresh" => Range(op.todo) \subseteq Held
    /\ stopping \in {"released", "done"} => op = Idle /\ reservations = << >>
    /\ stopping \in {"no", "waiting"} => held \ stray \subseteq Held \cup pendingReleases \cup InHand

PolicyInv == PolicyTypeOK /\ OnePlace /\ Accounted
----------------------------------------------------------------------------
(* Facts about the operators *)

\* A set of numbers has a least one.
LEMMA LeastNumber ==
  ASSUME NEW S \in SUBSET Nat, NEW n \in S
  PROVE  \E m \in S : \A k \in S : m <= k
<1> SUFFICES ASSUME \A m \in S : \E k \in S : k < m PROVE FALSE
  OBVIOUS
<1> DEFINE A == {i \in 0..n : \A j \in 0..i : j \notin S}
           f == [i \in A |-> i + 1]
<1>1. IsFiniteSet(0..n)
  BY FS_Interval
<1>2. IsFiniteSet(A)
  BY <1>1, FS_Subset
<1>3. 0 \in A
  OBVIOUS
<1>4. IsFiniteSet(A \ {0}) /\ Cardinality(A \ {0}) = Cardinality(A) - 1
  BY <1>2, <1>3, FS_RemoveElement, Zenon
<1>5. Cardinality(A \ {0}) < Cardinality(A)
  BY <1>2, <1>4, FS_CardinalityType
<1>6. f \in [A -> A \ {0}]
  <2>1. ASSUME NEW i \in A PROVE i + 1 \in A \ {0}
    <3>1. i \in Nat /\ i < n
      OBVIOUS
    <3>2. i + 1 \notin S
      OBVIOUS
    <3> QED BY <3>1, <3>2
  <2> QED BY <2>1
<1>7. \E x, y \in A : x # y /\ f[x] = f[y]
  <2> HIDE DEF A, f
  <2> QED BY <1>2, <1>4, <1>5, <1>6, FS_PigeonHole
<1> QED BY <1>7

\* The candidate a worker takes is one of the pool.
LEMMA FirstOfPool ==
  ASSUME NEW S \in SUBSET Candidate, S # {}
  PROVE  First(S) \in S
<1> DEFINE R == {Rank[r] : r \in S}
<1>1. R \in SUBSET Nat
  BY RankAssumption
<1>2. PICK r \in S : TRUE
  OBVIOUS
<1>3. Rank[r] \in R
  OBVIOUS
<1>4. \E m \in R : \A k \in R : m <= k
  <2> HIDE DEF R
  <2> QED BY <1>1, <1>3, LeastNumber, Zenon
<1>5. \E q \in S : \A p \in S : Rank[q] <= Rank[p]
  BY <1>4
<1> QED BY <1>5, Zenon DEF First

\* Without takes one relay out and keeps the others.
LEMMA WithoutOne ==
  ASSUME NEW s \in Seq(Candidate), IsInjective(s), NEW r \in Range(s)
  PROVE  /\ Without(s, r) \in Seq(Candidate) /\ IsInjective(Without(s, r))
         /\ Range(Without(s, r)) = Range(s) \ {r}
<1> DEFINE k == CHOOSE i \in DOMAIN s : s[i] = r
           at(i) == IF i < k THEN i ELSE i + 1
           t == [i \in 1..Len(s) - 1 |-> s[at(i)]]
<1> k \in DOMAIN s /\ s[k] = r
  BY DEF Range
<1> DOMAIN s = 1..Len(s) /\ Len(s) \in Nat /\ \A i \in DOMAIN s : s[i] \in Candidate
  OBVIOUS
<1> HIDE DEF k
<1>1. /\ \A i \in 1..Len(s) - 1 : at(i) \in DOMAIN s \ {k}
      /\ \A i, j \in 1..Len(s) - 1 : at(i) = at(j) => i = j
      /\ \A n \in DOMAIN s \ {k} : \E i \in 1..Len(s) - 1 : at(i) = n
  <2>1. ASSUME NEW n \in DOMAIN s \ {k} PROVE \E i \in 1..Len(s) - 1 : at(i) = n
    <3>1. CASE n < k
      BY <3>1
    <3>2. CASE k < n
      <4>1. n - 1 \in 1..Len(s) - 1 /\ at(n - 1) = n
        BY <3>2
      <4> QED BY <4>1
    <3> QED BY <3>1, <3>2
  <2> QED BY <2>1
<1> HIDE DEF at
<1>2. t \in Seq(Candidate)
  BY <1>1
<1>3. IsInjective(t)
  BY <1>1 DEF IsInjective
<1>4. Range(t) = Range(s) \ {r}
  <2>1. DOMAIN t = 1..Len(s) - 1 /\ \A i \in 1..Len(s) - 1 : t[i] = s[at(i)]
    OBVIOUS
  <2>2. \A n \in DOMAIN s : s[n] = r <=> n = k
    BY DEF IsInjective
  <2> HIDE DEF t
  <2>3. ASSUME NEW i \in 1..Len(s) - 1 PROVE t[i] \in Range(s) \ {r}
    BY <1>1, <2>1, <2>2 DEF Range
  <2>4. ASSUME NEW n \in DOMAIN s \ {k} PROVE s[n] \in Range(t)
    BY <1>1, <2>1, Zenon DEF Range
  <2> QED BY <2>1, <2>2, <2>3, <2>4 DEF Range
<1>5. Without(s, r) = t
  BY DEF Without, k, at
<1> QED BY <1>2, <1>3, <1>4, <1>5

\* A relay that is added comes last, and only once if it was not there.
LEMMA AppendOne ==
  ASSUME NEW s \in Seq(Candidate), IsInjective(s), NEW r \in Candidate, r \notin Range(s)
  PROVE  /\ Append(s, r) \in Seq(Candidate) /\ IsInjective(Append(s, r))
         /\ Range(Append(s, r)) = Range(s) \cup {r}
<1> DEFINE t == Append(s, r)
<1>1. /\ t \in Seq(Candidate) /\ Len(s) \in Nat
      /\ DOMAIN s = 1..Len(s) /\ DOMAIN t = 1..Len(s) + 1
      /\ \A i \in 1..Len(s) : t[i] = s[i]
      /\ t[Len(s) + 1] = r
  OBVIOUS
<1> HIDE DEF t
<1>2. Range(t) = Range(s) \cup {r}
  BY <1>1 DEF Range
<1>3. IsInjective(t)
  BY <1>1 DEF IsInjective, Range
<1> QED BY <1>1, <1>2, <1>3 DEF t

\* What is left of a list is part of it.
LEMMA TailOfList ==
  ASSUME NEW s \in Seq(Candidate), s # << >>
  PROVE  /\ Tail(s) \in Seq(Candidate) /\ Range(Tail(s)) \subseteq Range(s)
         /\ Head(s) \in Range(s)
<1>1. /\ Tail(s) \in Seq(Candidate) /\ Len(s) \in Nat \ {0}
      /\ DOMAIN s = 1..Len(s) /\ DOMAIN Tail(s) = 1..Len(s) - 1
      /\ \A i \in 1..Len(s) - 1 : Tail(s)[i] = s[i + 1]
      /\ Head(s) = s[1]
  OBVIOUS
<1> QED BY <1>1 DEF Range

\* Of a group with two relays, another one is left when one goes.
LEMMA AnotherOfGroup ==
  ASSUME NEW S, NEW x \in S, Cardinality(S) > 1
  PROVE  \E y \in S : y # x
<1> SUFFICES ASSUME S = {x} PROVE FALSE
  OBVIOUS
<1> QED BY FS_Singleton

\* The relay that gives way is reserved, and shares its group with another one.
LEMMA VictimIsSurplus ==
  ASSUME PolicyTypeOK, Surplus # {}
  PROVE  Victim \in Held /\ GroupSize(Classify(Victim)) > 1
<1>1. DOMAIN reservations = 1..Len(reservations) /\ Len(reservations) \in Nat
  BY DEF PolicyTypeOK
<1>2. Surplus \in SUBSET Nat
  BY <1>1 DEF Surplus
<1>3. \E m \in Surplus : \A k \in Surplus : m <= k
  BY <1>2, LeastNumber, Zenon
<1>4. (CHOOSE i \in Surplus : \A j \in Surplus : i <= j) \in Surplus
  BY <1>3, Zenon
<1> QED BY <1>4, Zenon DEF Surplus, Victim, Held, Range

----------------------------------------------------------------------------
(* What a step leaves in place *)

\* Outside of a pool no worker is at work, and nothing is in a worker's hands.
LEMMA AtRest ==
  ASSUME PolicyInv, ~InPool
  PROVE  (\A w \in Worker : worker[w] = Free) /\ InHand = {}
<1>1. \A w \in Worker : worker[w] = Free
  BY DEF PolicyInv, OnePlace, Busy
<1> QED BY <1>1 DEF InHand, Free

\* While no worker is at work, only the pool and the reservations could meet.
LEMMA RestKeeps ==
  ASSUME \A w \in Worker : worker[w] = Free, worker' = worker, (pending \cap Held)' = {}
  PROVE  OnePlace' /\ InHand' = {}
BY DEF OnePlace, Hands, Busy, Dropping, InHand, Free

\* Where the relays are, when none is moved.
LEMMA SamePlaces ==
  ASSUME OnePlace, UNCHANGED <<op, reservations, pending, worker>>
  PROVE  OnePlace' /\ InHand' = InHand /\ Held' = Held
<1>1. Held' = Held /\ (InPool' <=> InPool) /\ InHand' = InHand
  BY DEF Held, InPool, InHand
<1>2. \A w \in Worker : (Hands(w)' = Hands(w)) /\ (Dropping(w)' <=> Dropping(w)) /\ (Busy(w)' <=> Busy(w))
  BY DEF Hands, Busy, Dropping
<1> QED BY <1>1, <1>2 DEF OnePlace

\* A step that touches none of what the invariant speaks of keeps it.
LEMMA FrameKeeps ==
  ASSUME PolicyInv,
         UNCHANGED <<queue, op, reservations, pending, worker, held, pendingReleases, stopping, late, stray>>
  PROVE  PolicyInv'
<1>1. OnePlace' /\ InHand' = InHand /\ Held' = Held
  BY SamePlaces DEF PolicyInv
<1> QED BY <1>1 DEF PolicyInv, PolicyTypeOK, Accounted, Dropping

\* One worker moves: relays only pass between the pool, its hands and the reservations,
\* and what the other workers hold stays where it is.
LEMMA OneMoves ==
  ASSUME PolicyInv, NEW w \in Worker, NEW a \in {Free} \cup Attempt, worker' = [worker EXCEPT ![w] = a],
         InPool, UNCHANGED op, pending' \subseteq pending, Held' \subseteq Held \cup Hands(w),
         Hands(w)' \subseteq Hands(w) \cup pending \cup Held, Hands(w)' \cap (pending' \cup Held') = {},
         Dropping(w)' => worker'[w].relay # worker'[w].victim
  PROVE  /\ worker' \in [Worker -> {Free} \cup Attempt] /\ worker'[w] = a
         /\ OnePlace'
         /\ InHand \subseteq InHand' \cup Hands(w)
         /\ \A v \in Worker : Dropping(v)' /\ v # w =>
              Dropping(v) /\ worker'[v].relay = worker[v].relay /\ worker[v].relay \notin Hands(w)
<1>1. /\ worker' \in [Worker -> {Free} \cup Attempt] /\ worker'[w] = a
      /\ \A v \in Worker : v # w => worker'[v] = worker[v]
  BY DEF PolicyInv, PolicyTypeOK
<1>2. \A v \in Worker : v # w => (Hands(v)' = Hands(v)) /\ (Dropping(v)' <=> Dropping(v)) /\ (Busy(v)' <=> Busy(v))
  BY <1>1 DEF Hands, Busy, Dropping
<1>3. OnePlace'
  <2>1. (pending \cap Held)' = {}
    BY DEF PolicyInv, OnePlace
  <2>2. \A v \in Worker : Hands(v)' \cap (pending' \cup Held') = {}
    BY <1>2 DEF PolicyInv, OnePlace
  <2>3. \A u, v \in Worker : u # v => Hands(u)' \cap Hands(v)' = {}
    BY <1>2 DEF PolicyInv, OnePlace
  <2>4. \A v \in Worker : Dropping(v)' => worker'[v].relay # worker'[v].victim
    BY <1>1, <1>2 DEF PolicyInv, OnePlace
  <2>5. InPool'
    BY DEF InPool
  <2> QED BY <2>1, <2>2, <2>3, <2>4, <2>5 DEF OnePlace
<1>4. InHand \subseteq InHand' \cup Hands(w)
  BY <1>1 DEF InHand, Hands, Busy, Dropping, Free
<1>5. ASSUME NEW v \in Worker, Dropping(v)', v # w
      PROVE  Dropping(v) /\ worker'[v].relay = worker[v].relay /\ worker[v].relay \notin Hands(w)
  <2>1. Dropping(v) /\ worker'[v] = worker[v]
    BY <1>1, <1>2, <1>5
  <2>2. worker[v].relay \in Hands(v)
    BY <2>1 DEF Hands, Busy, Dropping, Free
  <2> QED BY <2>1, <2>2, <1>5 DEF PolicyInv, OnePlace
<1> QED BY <1>1, <1>3, <1>4, <1>5

----------------------------------------------------------------------------
(* The steps of an operation outside of a pool *)

\* A call of acquire, refresh or replace only joins the promise chain.
LEMMA EnqueueKeeps ==
  ASSUME PolicyInv, Requests
  PROVE  PolicyInv'
<1>1. PICK kind \in Kinds, r \in Candidate, g \in {"none", "own"} :
        Enqueue(kind, r, IF g = "own" THEN Classify(r) ELSE g)
  BY DEF Requests
<1>2. [kind |-> kind, peer |-> r, excluded |-> IF g = "own" THEN Classify(r) ELSE g] \in Request
  BY DEF Request, Groups, Classify
<1>3. queue' \in Seq(Request)
  BY <1>1, <1>2 DEF Enqueue, PolicyInv, PolicyTypeOK
<1>4. UNCHANGED <<op, reservations, pending, worker, held, pendingReleases, stopping, late, stray>>
  BY <1>1 DEF Enqueue, ownVars, clientVars
<1>5. OnePlace' /\ InHand' = InHand /\ Held' = Held
  BY <1>4, SamePlaces DEF PolicyInv
<1> QED BY <1>3, <1>4, <1>5 DEF PolicyInv, PolicyTypeOK, Accounted, Dropping

\* An operation starts with nothing in a worker's hands, or is rejected.
LEMMA BeginKeeps ==
  ASSUME PolicyInv, Begin
  PROVE  PolicyInv'
<1> USE DEF PolicyInv
<1>0. ~InPool
  BY DEF Begin, InPool
<1>1. (\A w \in Worker : worker[w] = Free) /\ InHand = {}
  BY <1>0, AtRest
<1>2. OnePlace' /\ InHand' = {}
  BY <1>1, RestKeeps, Zenon DEF Begin, OnePlace, Held
<1>3. Head(queue) \in Request /\ queue' \in Seq(Request)
  BY DEF Begin, PolicyTypeOK
<1>4. op' = Idle \/ (/\ ~Rejected
                     /\ op' \in Running /\ op'.todo = reservations)
  BY <1>3 DEF Begin, PolicyTypeOK, Running, Request, Kinds, Phases
<1>5. PolicyTypeOK'
  BY <1>3, <1>4, SMTT(30) DEF Begin, PolicyTypeOK
<1>6. Accounted'
  BY <1>1, <1>2, <1>4 DEF Begin, clientVars, Accounted, Held, Dropping, Free, Rejected
<1> QED BY <1>2, <1>5, <1>6

\* refresh() looks at reservations and calls the client; it moves no relay of the policy.
LEMMA RefreshKeeps ==
  ASSUME PolicyInv, RefreshSkip \/ RefreshCall \/ RefreshEnd
  PROVE  PolicyInv'
<1> USE DEF PolicyInv
<1>0. ~InPool /\ op \in Running /\ op.phase = "refresh" /\ Range(op.todo) \subseteq Held
  BY DEF RefreshSkip, RefreshCall, RefreshEnd, InPool, PolicyTypeOK, Accounted
<1>1. (\A w \in Worker : worker[w] = Free) /\ InHand = {}
  BY <1>0, AtRest
<1>2. OnePlace' /\ InHand' = {}
  BY <1>1, RestKeeps DEF RefreshSkip, RefreshCall, RefreshEnd, OnePlace, Held, Finish, Continue, ownVars
<1>3. op.todo # << >> => /\ Tail(op.todo) \in Seq(Candidate) /\ Range(Tail(op.todo)) \subseteq Held
                         /\ Head(op.todo) \in Held /\ Head(op.todo) \in Candidate
  BY <1>0, TailOfList DEF Running
<1>4. op' \in {Idle} \cup Running /\ (op' # Idle /\ op'.phase = "refresh" => Range(op'.todo) \subseteq Held)
  <2>1. CASE RefreshSkip
    BY <2>1, <1>0, <1>3, Zenon DEF RefreshSkip, Running
  <2>2. CASE RefreshCall
    <3>1. op' = Idle \/ op' = [op EXCEPT !.todo = Tail(@)]
          \/ op' = [op EXCEPT !.todo = Tail(@), !.failures = @ \cup {Head(op.todo)}]
      BY <2>2 DEF RefreshCall, Finish
    <3>2. op.todo # << >>
      BY <2>2 DEF RefreshCall
    <3>3. CASE op' = Idle
      BY <3>3 DEF Idle
    <3>4. CASE op' = [op EXCEPT !.todo = Tail(@)]
      BY <3>2, <3>4, <1>0, <1>3, Zenon DEF Running
    <3>5. CASE op' = [op EXCEPT !.todo = Tail(@), !.failures = @ \cup {Head(op.todo)}]
      BY <3>2, <3>5, <1>0, <1>3, Zenon DEF Running
    <3> QED BY <3>1, <3>3, <3>4, <3>5
  <2>3. CASE RefreshEnd
    BY <2>3, <1>0, Zenon DEF RefreshEnd, Running, Finish, Phases
  <2> QED BY <2>1, <2>2, <2>3
<1>5. UNCHANGED <<queue, reservations, worker, pendingReleases, stopping>> /\ pending' \subseteq pending
  BY DEF RefreshSkip, RefreshCall, RefreshEnd, Finish, Continue, ownVars
<1>6. PolicyTypeOK'
  BY <1>4, <1>5 DEF PolicyTypeOK
<1>7. held \subseteq held' /\ held' \subseteq held \cup Held /\ stray \subseteq stray'
  BY <1>3 DEF RefreshSkip, RefreshCall, RefreshEnd, NotAccepted, Throws, OpensNone, OpensUntold, Accounted, clientVars
<1>8. stopping \notin {"released", "done"}
  BY <1>0 DEF Accounted, RefreshSkip, RefreshCall, RefreshEnd
<1>9. Accounted'
  BY <1>1, <1>2, <1>4, <1>5, <1>7, <1>8 DEF Accounted, Held, Dropping, Free
<1> QED BY <1>2, <1>6, <1>9

\* #drop: the relay leaves the reservations, and its release is done or remembered.
LEMMA DropKeeps ==
  ASSUME PolicyInv, NEW r \in Candidate, Drop(r)
  PROVE  PolicyInv'
<1> USE DEF PolicyInv
<1>0. ~InPool /\ op \in Running /\ op.phase = "drop"
  BY DEF Drop, InPool, PolicyTypeOK
<1>1. (\A w \in Worker : worker[w] = Free) /\ InHand = {}
  BY <1>0, AtRest
<1>2. op' \in Running /\ op'.phase = "drop"
  BY <1>0, Zenon DEF Drop, Running
<1>3. /\ reservations' \in Seq(Candidate) /\ IsInjective(reservations')
      /\ Held' = IF r \in Held THEN Held \ {r} ELSE Held
  BY WithoutOne DEF Drop, PolicyTypeOK, Accounted, Held
<1>4. OnePlace' /\ InHand' = {}
  BY <1>1, <1>3, RestKeeps DEF Drop, OnePlace
<1>5. PolicyTypeOK'
  BY <1>2, <1>3 DEF Drop, PolicyTypeOK
<1>6. stopping \notin {"released", "done"} /\ stopping' = stopping
  BY <1>0 DEF Accounted, Drop
<1>7. /\ held \ {r} \subseteq held' /\ held' \subseteq held /\ pendingReleases \ {r} \subseteq pendingReleases'
      /\ r \in held' => (r \in Held => r \in pendingReleases') /\ (r \notin Held => pendingReleases' = pendingReleases)
      /\ r \notin Held => held' = held /\ stray' = stray
      /\ stray \ {r} \subseteq stray'
  BY DEF Drop, Release, Close, CloseFails
<1>8. Accounted'
  <2>1. Held' \subseteq held'
    BY <1>3, <1>7 DEF Accounted
  <2>2. stopping \in {"no", "waiting"} => held' \ stray' \subseteq Held' \cup pendingReleases' \cup InHand'
    BY <1>1, <1>3, <1>7 DEF Accounted, Drop
  <2> QED BY <1>1, <1>2, <1>3, <1>6, <2>1, <2>2 DEF Accounted, Dropping, Free, Drop
<1> QED BY <1>4, <1>5, <1>8

\* The steps that only move the operation on, or fill its pool.
LEMMA MoveKeeps ==
  ASSUME PolicyInv, DropEnd \/ CollectAll \/ CollectPrimary \/ CollectOverflow \/ PoolEnd
  PROVE  PolicyInv'
<1> USE DEF PolicyInv
<1>0. op \in Running /\ op # Idle
  BY Zenon DEF DropEnd, CollectAll, CollectPrimary, CollectOverflow, PoolEnd, InPool, PolicyTypeOK
<1>1. (\A w \in Worker : worker[w] = Free) /\ InHand = {}
  <2>1. CASE PoolEnd
    BY <2>1 DEF PoolEnd, InHand, Free
  <2>2. CASE ~InPool
    BY <2>2, AtRest
  <2> QED BY <2>1, <2>2, Zenon DEF DropEnd, CollectAll, CollectPrimary, CollectOverflow, InPool
<1>2. op' \in {Idle} \cup Running /\ (op' # Idle => op'.phase # "refresh")
  BY <1>0, Zenon DEF DropEnd, CollectAll, CollectPrimary, CollectOverflow, PoolEnd, Pool, Finish, Running, Phases
<1>3. UNCHANGED <<queue, reservations, worker, pendingReleases, stopping, held, late, stray>>
  BY Zenon DEF DropEnd, CollectAll, CollectPrimary, CollectOverflow, PoolEnd, clientVars
<1>4. pending' \subseteq Candidate /\ pending' \cap Held = {}
  <2>1. ASSUME NEW offer \in SUBSET Candidate, NEW phase, Pool(offer, phase)
        PROVE  pending' \subseteq Candidate /\ pending' \cap Held = {}
    BY <2>1 DEF Pool, Untried
  <2>2. \A p \in PrimaryOffers, o \in OverflowOffers : p \subseteq Candidate /\ o \subseteq Candidate /\ CompositeOffer(p, o) \subseteq Candidate
    BY DEF Offers, PrimaryOffers, OverflowOffers, CompositeOffer
  <2>3. CASE CollectAll
    BY <2>1, <2>2, <2>3 DEF CollectAll
  <2>4. CASE CollectPrimary
    BY <2>1, <2>2, <2>4, Zenon DEF CollectPrimary, Finish, Offers, PrimaryOffers
  <2>5. CASE CollectOverflow
    BY <2>1, <2>2, <2>5 DEF CollectOverflow, Offers, OverflowOffers
  <2>6. CASE DropEnd \/ PoolEnd
    BY <2>6, ZenonT(30) DEF DropEnd, PoolEnd, Finish, Continue, PolicyTypeOK, OnePlace
  <2> QED BY <2>3, <2>4, <2>5, <2>6
<1>5. OnePlace' /\ InHand' = {}
  BY <1>1, <1>3, <1>4, RestKeeps DEF Held
<1>6. PolicyTypeOK'
  BY <1>2, <1>3, <1>4 DEF PolicyTypeOK
<1>7. Accounted'
  BY <1>0, <1>1, <1>2, <1>3, <1>5, SMTT(30) DEF Accounted, Held, Dropping, Free
<1> QED BY <1>5, <1>6, <1>7

----------------------------------------------------------------------------
(* The steps of a worker *)

\* A worker at work is in a pool, and the policy has not been stopped.
LEMMA AtWork ==
  ASSUME PolicyInv, NEW w \in Worker, Busy(w)
  PROVE  /\ InPool /\ stopping \in {"no", "waiting"} /\ worker[w] \in Attempt
         /\ Hands(w) = {worker[w].relay} \cup (IF Dropping(w) THEN {worker[w].victim} ELSE {})
         /\ Hands(w) \subseteq Candidate /\ Hands(w) \cap (pending \cup Held) = {}
BY DEF PolicyInv, PolicyTypeOK, OnePlace, Accounted, InPool, Hands, Busy, Dropping, Attempt, Free

\* What the rest of the invariant needs of a step of a pool.
LEMMA PoolKeeps ==
  ASSUME PolicyInv, InPool, UNCHANGED <<op, stopping>>,
         IsInjective(reservations'), Held' \subseteq held',
         \A w \in Worker : Dropping(w)' => worker'[w].relay \in held',
         held' \ stray' \subseteq Held' \cup pendingReleases' \cup InHand'
  PROVE  Accounted'
BY DEF PolicyInv, Accounted, InPool

\* What every step of a pool finds.
LEMMA PoolFinds ==
  ASSUME PolicyInv, InPool
  PROVE  /\ reservations \in Seq(Candidate) /\ IsInjective(reservations)
         /\ Held \subseteq held
         /\ \A w \in Worker : Dropping(w) => worker[w].relay \in held
         /\ held \ stray \subseteq Held \cup pendingReleases \cup InHand
BY DEF PolicyInv, PolicyTypeOK, Accounted, InPool

\* A candidate passes from the pool into the hands of the one worker that takes it.
LEMMA TakeKeeps ==
  ASSUME PolicyInv, NEW w \in Worker, Take(w)
  PROVE  PolicyInv'
<1> DEFINE r == First(pending)
           a == IF Refused(r) THEN Free ELSE [pc |-> "reserving", relay |-> r]
<1> USE PoolFinds
<1>1. r \in pending /\ r \in Candidate
  BY FirstOfPool DEF Take, Seeking, PolicyInv, PolicyTypeOK
<1>2. /\ UNCHANGED <<op, queue, stopping, reservations, pendingReleases, held, late, stray>>
      /\ pending' = pending \ {r} /\ InPool /\ worker[w] = Free
      /\ worker' = [worker EXCEPT ![w] = a]
  BY ZenonT(30) DEF Take, clientVars, PolicyInv, PolicyTypeOK
<1>3. a \in {Free} \cup Attempt /\ a.pc \in {"free", "reserving"} /\ (a # Free => a.relay = r)
  BY <1>1 DEF Attempt, Free
<1> HIDE DEF r, a
<1>4. worker'[w] = a /\ ~Dropping(w)' /\ Hands(w)' \subseteq {r} /\ Hands(w) = {} /\ Held' = Held
  BY <1>2, <1>3, SMTT(30) DEF Hands, Busy, Dropping, Free, Held, PolicyInv, PolicyTypeOK
<1>5. r \notin Held
  BY <1>1 DEF PolicyInv, OnePlace
<1>6. /\ worker' \in [Worker -> {Free} \cup Attempt] /\ OnePlace' /\ InHand \subseteq InHand'
      /\ \A v \in Worker : Dropping(v)' => Dropping(v) /\ worker'[v].relay = worker[v].relay
  BY <1>1, <1>2, <1>3, <1>4, <1>5, OneMoves, ZenonT(30)
<1>7. Accounted'
  BY <1>2, <1>4, <1>6, PoolKeeps
<1> QED BY <1>2, <1>6, <1>7 DEF PolicyInv, PolicyTypeOK

\* A failed inspection or reservation empties the worker's hands.
LEMMA FailureKeeps ==
  ASSUME PolicyInv, NEW w \in Worker, InspectionFails(w) \/ ReservationFails(w)
  PROVE  PolicyInv'
<1>1. /\ worker[w].pc = "reserving" /\ worker' = [worker EXCEPT ![w] = Free]
      /\ UNCHANGED <<op, queue, stopping, pending, reservations, pendingReleases>>
      /\ held \subseteq held' /\ held' \ stray' \subseteq held \ stray
  BY Zenon DEF InspectionFails, ReservationFails, NotAccepted, Throws, OpensNone, OpensUntold, ownVars, clientVars
<1>2. Busy(w) /\ InPool
  BY <1>1, AtWork DEF Busy, Free
<1>3. ~Dropping(w)' /\ Hands(w)' = {} /\ Held' = Held
  BY <1>1 DEF Hands, Busy, Dropping, Free, Held, PolicyInv, PolicyTypeOK
<1>4. /\ worker' \in [Worker -> {Free} \cup Attempt] /\ OnePlace'
      /\ \A v \in Worker : Dropping(v)' => Dropping(v) /\ worker'[v].relay = worker[v].relay
  BY <1>1, <1>2, <1>3, OneMoves, Zenon
<1>5. InHand \subseteq InHand'
  BY <1>1 DEF InHand, PolicyInv, PolicyTypeOK
<1>6. Accounted'
  BY <1>1, <1>2, <1>3, <1>4, <1>5, PoolFinds, PoolKeeps, SMTT(30)
<1> QED BY <1>1, <1>4, <1>6, SMTT(30) DEF PolicyInv, PolicyTypeOK

\* A grant no longer wanted is released, or its release is remembered.
LEMMA GivenBackKeeps ==
  ASSUME PolicyInv, NEW w \in Worker, GivenBack(w)
  PROVE  PolicyInv'
<1> DEFINE r == worker[w].relay
<1>1. /\ worker[w].pc = "releasing" /\ worker' = [worker EXCEPT ![w] = Free]
      /\ UNCHANGED <<op, queue, stopping, pending, reservations>>
      /\ \/ held' = held \ {r} /\ stray' = stray \ {r} /\ pendingReleases' = pendingReleases \ {r}
         \/ held' = held /\ stray' = stray /\ pendingReleases' = pendingReleases \cup {r}
  BY DEF GivenBack, Release, Close, CloseFails
<1>2. InPool /\ Hands(w) = {r} /\ r \notin Held
  BY <1>1, AtWork DEF Busy, Dropping, Free
<1>3. ~Dropping(w)' /\ Hands(w)' = {} /\ Held' = Held
  BY <1>1, SMTT(30) DEF Hands, Busy, Dropping, Free, Held, PolicyInv, PolicyTypeOK
<1> HIDE DEF r
<1>4. /\ worker' \in [Worker -> {Free} \cup Attempt] /\ OnePlace' /\ InHand \subseteq InHand' \cup {r}
      /\ \A v \in Worker : Dropping(v)' => Dropping(v) /\ worker'[v].relay = worker[v].relay /\ worker[v].relay # r
  <2>1. /\ worker' \in [Worker -> {Free} \cup Attempt] /\ OnePlace' /\ InHand \subseteq InHand' \cup Hands(w)
        /\ \A v \in Worker : Dropping(v)' /\ v # w =>
             Dropping(v) /\ worker'[v].relay = worker[v].relay /\ worker[v].relay \notin Hands(w)
    BY <1>1, <1>2, <1>3, OneMoves, ZenonT(60)
  <2> QED BY <2>1, <1>2, <1>3
<1>5. Accounted'
  BY <1>1, <1>2, <1>3, <1>4, PoolFinds, PoolKeeps
<1> QED BY <1>1, <1>4, <1>5 DEF PolicyInv, PolicyTypeOK

\* After the release of the relay it displaces, the worker's own one is reserved.
LEMMA DisplacedKeeps ==
  ASSUME PolicyInv, NEW w \in Worker, Displaced(w)
  PROVE  PolicyInv' /\ Held \subseteq Held'
<1> DEFINE r == worker[w].relay
           x == worker[w].victim
<1>1. /\ Dropping(w) /\ worker' = [worker EXCEPT ![w] = Free]
      /\ UNCHANGED <<op, queue, stopping, pending>>
      /\ \/ held' = held \ {x} /\ stray' = stray \ {x} /\ pendingReleases' = pendingReleases \ {x}
         \/ held' = held /\ stray' = stray /\ pendingReleases' = pendingReleases \cup {x}
      /\ reservations' = Append(reservations, r)
  BY DEF Displaced, Admit, Release, Close, CloseFails, Dropping
<1>2. Busy(w)
  BY <1>1, SMTT(30) DEF Busy, Dropping, Free
<1>3. InPool /\ Hands(w) = {r, x} /\ r \in Candidate /\ r \notin Held /\ x \notin Held
  BY <1>1, <1>2, AtWork, SMTT(30)
<1>4. r # x /\ r \in held
  BY <1>1, <1>3, PoolFinds DEF PolicyInv, OnePlace
<1>5. ~Dropping(w)' /\ Hands(w)' = {}
  BY <1>1, SMTT(30) DEF Hands, Busy, Dropping, Free, PolicyInv, PolicyTypeOK
<1> HIDE DEF r, x
<1>6. reservations' \in Seq(Candidate) /\ IsInjective(reservations') /\ Held' = Held \cup {r}
  BY <1>1, <1>3, PoolFinds, AppendOne, SMTT(30) DEF Held
<1>7. /\ worker' \in [Worker -> {Free} \cup Attempt] /\ OnePlace' /\ InHand \subseteq InHand' \cup {r, x}
      /\ \A v \in Worker : Dropping(v)' => Dropping(v) /\ worker'[v].relay = worker[v].relay /\ worker[v].relay # x
  <2>1. /\ worker' \in [Worker -> {Free} \cup Attempt] /\ OnePlace' /\ InHand \subseteq InHand' \cup Hands(w)
        /\ \A v \in Worker : Dropping(v)' /\ v # w =>
             Dropping(v) /\ worker'[v].relay = worker[v].relay /\ worker[v].relay \notin Hands(w)
    BY <1>1, <1>3, <1>5, <1>6, OneMoves, ZenonT(60)
  <2> QED BY <2>1, <1>3, <1>5, <1>6
<1>8. Accounted'
  BY <1>1, <1>3, <1>4, <1>6, <1>7, PoolFinds, PoolKeeps
<1> QED BY <1>1, <1>6, <1>7, <1>8 DEF PolicyInv, PolicyTypeOK

\* A grant is given back, takes the place of a surplus relay, or is kept.
LEMMA GrantedKeeps ==
  ASSUME PolicyInv, NEW w \in Worker, Granted(w)
  PROVE  PolicyInv'
<1> DEFINE r == worker[w].relay
<1>1. /\ worker[w].pc = "reserving" /\ held' = held \cup {r} /\ stray' = stray \ {r}
      /\ UNCHANGED <<op, queue, stopping, pending, pendingReleases>>
  BY DEF Granted
<1>2. Busy(w) /\ ~Dropping(w)
  BY <1>1 DEF Busy, Dropping, Free
<1>3. InPool /\ Hands(w) = {r} /\ r \in Candidate /\ r \notin Held /\ r \notin pending
  BY <1>2, AtWork
<1> SUFFICES ASSUME NEW a \in {Free} \cup Attempt, worker' = [worker EXCEPT ![w] = a],
                    reservations' \in Seq(Candidate), IsInjective(reservations'),
                    Held' \subseteq Held \cup {r}, Held \subseteq Held' \cup (InHand' \ {r}),
                    r \in Held' \cup InHand', Dropping(w)' => worker'[w].relay = r /\ worker'[w].relay # worker'[w].victim,
                    Hands(w)' \subseteq {r} \cup Held, Hands(w)' \cap (pending \cup Held') = {}
             PROVE  PolicyInv'
  <2> DEFINE back == [pc |-> "releasing", relay |-> r]
             full == [pc |-> "dropping", relay |-> r, victim |-> Victim]
  <2>1. CASE worker' = [worker EXCEPT ![w].pc = "releasing"] /\ UNCHANGED reservations
    <3>1. [worker[w] EXCEPT !.pc = "releasing"] = back /\ back \in Attempt
      BY <1>1, <1>2, <1>3, AtWork DEF Attempt
    <3>2. worker' = [worker EXCEPT ![w] = back] /\ worker'[w] = back /\ Held' = Held
      BY <2>1, <3>1, ZenonT(60) DEF Held, PolicyInv, PolicyTypeOK
    <3>3. Hands(w)' = {r} /\ ~Dropping(w)' /\ r \in InHand'
      BY <3>2 DEF Hands, Busy, Dropping, InHand, Free
    <3>4. Hands(w)' \cap (pending \cup Held') = {} /\ reservations' \in Seq(Candidate) /\ IsInjective(reservations')
      BY <2>1, <3>2, <3>3, <1>3, PoolFinds
    <3> HIDE DEF back
    <3> QED BY <3>1, <3>2, <3>3, <3>4, Zenon
  <2>2. CASE Surplus # {} /\ worker' = [worker EXCEPT ![w] = full] /\ reservations' = Without(reservations, Victim)
    <3>1. Victim \in Held /\ Victim \in Candidate /\ Victim # r /\ Victim \notin pending
      BY <2>2, <1>3, VictimIsSurplus, SMTT(30) DEF PolicyInv, PolicyTypeOK, OnePlace, Held, Range
    <3>2. reservations' \in Seq(Candidate) /\ IsInjective(reservations') /\ Held' = Held \ {Victim}
      BY <2>2, <3>1, <1>3, PoolFinds, WithoutOne, SMTT(30) DEF Held
    <3>3. full \in Attempt /\ worker'[w] = full
      BY <2>2, <3>1, <1>3, SMTT(30) DEF Attempt, PolicyInv, PolicyTypeOK
    <3>4. worker'[w].pc = "dropping" /\ worker'[w].relay = r /\ worker'[w].victim = Victim /\ worker'[w] # Free
      BY <3>3, SMTT(30) DEF Free
    <3>5. Hands(w)' = {r, Victim} /\ Dropping(w)'
      BY <3>4, SMTT(30) DEF Hands, Busy, Dropping
    <3>6. r \in InHand' /\ Victim \in InHand'
      BY <3>4, SMTT(30) DEF InHand
    <3> QED BY <2>2, <3>1, <3>2, <3>3, <3>4, <3>5, <3>6, <1>3, ZenonT(60)
  <2>3. CASE worker' = [worker EXCEPT ![w] = Free] /\ reservations' = Append(reservations, r)
    <3>1. reservations' \in Seq(Candidate) /\ IsInjective(reservations') /\ Held' = Held \cup {r}
      BY <2>3, <1>3, PoolFinds, AppendOne, ZenonT(60) DEF Held
    <3>2. ~Dropping(w)' /\ Hands(w)' = {}
      BY <2>3 DEF Hands, Busy, Dropping, Free, PolicyInv, PolicyTypeOK
    <3> QED BY <2>3, <3>1, <3>2, ZenonT(60)
  <2> QED BY <2>1, <2>2, <2>3 DEF Granted, Admit
<1> HIDE DEF r
<1>4. /\ worker' \in [Worker -> {Free} \cup Attempt] /\ OnePlace'
      /\ \A v \in Worker : Dropping(v)' /\ v # w => Dropping(v) /\ worker'[v].relay = worker[v].relay
  BY <1>1, <1>3, OneMoves, ZenonT(60)
<1>5. InHand \subseteq InHand'
  BY <1>1, ZenonT(60) DEF InHand, PolicyInv, PolicyTypeOK
<1>6. Accounted'
  BY <1>1, <1>3, <1>4, <1>5, PoolFinds, PoolKeeps
<1> QED BY <1>1, <1>4, <1>6 DEF PolicyInv, PolicyTypeOK

----------------------------------------------------------------------------
(* The invariant holds *)

\* stop() empties the reservations into the releases that are still to come.
LEMMA StopKeeps ==
  ASSUME PolicyInv, Stop \/ StopSteps
  PROVE  PolicyInv'
<1>1. CASE Stop
  <2>1. UNCHANGED <<queue, op, reservations, pending, worker, held, pendingReleases, late, stray>>
        /\ stopping = "no" /\ stopping' = "waiting"
    BY <1>1 DEF Stop, ownVars, clientVars
  <2>2. OnePlace' /\ InHand' = InHand /\ Held' = Held
    BY <2>1, SamePlaces DEF PolicyInv
  <2> QED BY <2>1, <2>2 DEF PolicyInv, PolicyTypeOK, Accounted, Dropping
<1>2. CASE StopRelease
  <2>1. (\A w \in Worker : worker[w] = Free)
    BY <1>2, AtRest DEF StopRelease, InPool
  <2>2. reservations' \in Seq(Candidate) /\ IsInjective(reservations') /\ Held' = {}
    BY <1>2 DEF StopRelease, IsInjective, Held, Range
  <2>3. OnePlace'
    BY <1>2, <2>1, <2>2, RestKeeps DEF StopRelease
  <2>4. PolicyTypeOK'
    BY <1>2, <2>2, SMTT(30) DEF StopRelease, PolicyInv, PolicyTypeOK
  <2>5. Accounted'
    BY <1>2, <2>1, <2>2, SMTT(30) DEF StopRelease, PolicyInv, Accounted, Dropping, Free
  <2> QED BY <2>3, <2>4, <2>5 DEF PolicyInv
<1>3. CASE ClientStop
  <2>1. Held = {} /\ op = Idle /\ reservations = << >>
    BY <1>3 DEF ClientStop, PolicyInv, Accounted, Held, Range
  <2>2. \A w \in Worker : worker[w] = Free
    BY <2>1, AtRest DEF InPool
  <2>3. UNCHANGED <<queue, op, reservations, pending, worker, late, stray>> /\ stopping' = "done"
    BY <1>3 DEF ClientStop, ownVars
  <2>4. Held' = {}
    BY <2>1, <2>3 DEF Held
  <2>5. OnePlace'
    BY <2>2, <2>3, <2>4, RestKeeps
  <2>6. PolicyTypeOK'
    BY <2>3, SMTT(30) DEF PolicyInv, PolicyTypeOK
  <2>7. Accounted'
    BY <2>1, <2>2, <2>3, <2>4, SMTT(30) DEF PolicyInv, Accounted, Dropping, Free
  <2> QED BY <2>5, <2>6, <2>7 DEF PolicyInv
<1> QED BY <1>1, <1>2, <1>3 DEF StopSteps

\* A call that a deadline cut off may open a listener, of which only the client knows.
LEMMA LateReturnKeeps ==
  ASSUME PolicyInv, NEW r \in Candidate, LateReturn(r)
  PROVE  PolicyInv'
<1>1. /\ UNCHANGED <<queue, op, reservations, pending, worker, pendingReleases, stopping>>
      /\ held \subseteq held' /\ held' \ stray' \subseteq held \ stray
  BY DEF LateReturn, OpensNone, OpensUntold, ownVars
<1>2. OnePlace' /\ InHand' = InHand /\ Held' = Held
  BY <1>1, SamePlaces DEF PolicyInv
<1> QED BY <1>1, <1>2 DEF PolicyInv, PolicyTypeOK, Accounted, Dropping

\* A new policy has nothing and awaits nothing.
LEMMA PolicyInitHolds ==
  ASSUME PolicyInit
  PROVE  PolicyInv
<1>1. << >> \in Seq(Candidate) /\ << >> \in Seq(Request) /\ IsInjective(reservations) /\ Held = {}
  BY DEF PolicyInit, IsInjective, Held, Range
<1>2. \A w \in Worker : worker[w] = Free
  BY DEF PolicyInit
<1>3. PolicyTypeOK
  BY <1>1, SMTT(30) DEF PolicyInit, PolicyTypeOK
<1>4. OnePlace
  BY <1>1, <1>2 DEF PolicyInit, OnePlace, Hands, Busy, Dropping, Free
<1>5. Accounted
  BY <1>1, <1>2 DEF PolicyInit, Accounted, Dropping, Free
<1> QED BY <1>3, <1>4, <1>5 DEF PolicyInv

\* Every step of the policy, its workers and its client keeps the invariant.
LEMMA PolicyNextKeeps ==
  ASSUME PolicyInv, [PolicyNext]_policyVars
  PROVE  PolicyInv'
<1>1. CASE Requests
  BY <1>1, EnqueueKeeps
<1>2. CASE Operation
  BY <1>2, BeginKeeps, RefreshKeeps, DropKeeps, MoveKeeps DEF Operation
<1>3. ASSUME NEW w \in Worker, Work(w) PROVE PolicyInv'
  BY <1>3, TakeKeeps, FailureKeeps, GrantedKeeps, GivenBackKeeps, DisplacedKeeps DEF Work
<1>4. ASSUME NEW r \in Candidate, LateReturn(r) PROVE PolicyInv'
  BY <1>4, LateReturnKeeps, SMTT(30)
<1>5. CASE Abort \/ Expire \/ UNCHANGED policyVars
  BY <1>5, FrameKeeps DEF Abort, Expire, policyVars, ownVars, clientVars
<1>6. CASE Stop \/ StopSteps
  BY <1>6, StopKeeps
<1> QED BY <1>1, <1>2, <1>3, <1>4, <1>5, <1>6 DEF PolicyNext

\* Every relay is in one place at a time: the pool, the reservations or the hands of one
\* worker of #acquireFromPool; and every listener of the client is accounted for.
THEOREM AlwaysPolicyInv == PolicySpec => []PolicyInv
BY PolicyInitHolds, PolicyNextKeeps, PTL DEF PolicySpec

\* ReservationsTracked, for any number of workers, candidates and failures.
THEOREM AlwaysReservationsTracked == PolicySpec => []ReservationsTracked
<1>1. PolicyInv => ReservationsTracked
  BY DEF PolicyInv, Accounted, ReservationsTracked
<1> QED BY <1>1, AlwaysPolicyInv, PTL

\* A step of a pool that leaves the reservations alone, or adds to them, costs no group;
\* one that takes the surplus relay away leaves its group represented.
LEMMA GroupsKept ==
  ASSUME PolicyInv, [PolicyNext]_policyVars, InPool
  PROVE  {Classify(r) : r \in Held} \subseteq {Classify(r) : r \in Held'}
<1>1. SUFFICES Held \subseteq Held' \/ (Surplus # {} /\ Held' = Held \ {Victim})
  <2>1. CASE Held \subseteq Held'
    BY <2>1
  <2>2. CASE Surplus # {} /\ Held' = Held \ {Victim}
    <3> DEFINE mates == {r \in Held : Classify(r) = Classify(Victim)}
    <3>1. Victim \in mates /\ Cardinality(mates) > 1
      BY <2>2, VictimIsSurplus DEF PolicyInv, GroupSize
    <3>2. PICK y \in mates : y # Victim
      BY <3>1, AnotherOfGroup
    <3>3. y \in Held' /\ Classify(y) = Classify(Victim)
      BY <2>2, <3>2
    <3> QED BY <2>2, <3>3
  <2> QED BY <1>1, <2>1, <2>2
<1>2. op # Idle /\ op.phase \in {"primary", "pool"}
  BY DEF InPool
<1>3. CASE UNCHANGED reservations
  BY <1>3 DEF Held
<1>4. ASSUME NEW w \in Worker, Granted(w)
      PROVE  Held \subseteq Held' \/ (Surplus # {} /\ Held' = Held \ {Victim})
  <2>1. CASE UNCHANGED reservations
    BY <2>1, SMTT(30) DEF Held
  <2>2. CASE Surplus # {} /\ reservations' = Without(reservations, Victim)
    BY <2>2, VictimIsSurplus, WithoutOne, Zenon DEF PolicyInv, PolicyTypeOK, Accounted, Held
  <2>3. CASE reservations' = Append(reservations, worker[w].relay) /\ worker[w].pc = "reserving"
    <3>1. Busy(w) /\ worker[w].relay \in Candidate /\ worker[w].relay \notin Held
      BY <2>3, AtWork DEF Busy, Free
    <3> QED BY <2>3, <3>1, AppendOne, ZenonT(30) DEF PolicyInv, PolicyTypeOK, Accounted, Held
  <2> QED BY <1>4, <2>1, <2>2, <2>3 DEF Granted, Admit
<1>5. ASSUME NEW w \in Worker, Work(w)
      PROVE  Held \subseteq Held' \/ (Surplus # {} /\ Held' = Held \ {Victim})
  <2>1. CASE Granted(w)
    BY <2>1, <1>4
  <2>2. CASE Displaced(w)
    BY <2>2, DisplacedKeeps, SMTT(30)
  <2>3. CASE Take(w) \/ InspectionFails(w) \/ ReservationFails(w) \/ GivenBack(w)
    BY <2>3, <1>3 DEF Take, InspectionFails, ReservationFails, GivenBack, ownVars
  <2> QED BY <1>5, <2>1, <2>2, <2>3 DEF Work
<1>6. CASE Operation
  BY <1>2, <1>3, <1>6, ZenonT(30) DEF Operation, Begin, RefreshSkip, RefreshCall, RefreshEnd, Drop, DropEnd, CollectAll,
                          CollectPrimary, CollectOverflow, PoolEnd
<1>7. CASE Requests \/ (\E r \in Candidate : LateReturn(r)) \/ Abort \/ Expire \/ Stop \/ StopSteps
           \/ UNCHANGED policyVars
  BY <1>2, <1>3, <1>7, Zenon DEF Requests, Enqueue, LateReturn, Abort, Expire, Stop, StopSteps, StopRelease, ClientStop,
                          ownVars, policyVars
<1> QED BY <1>5, <1>6, <1>7 DEF PolicyNext

\* After stop() has released everything, the policy only takes back what is left.
LEMMA QuietKept ==
  ASSUME PolicyInv, [PolicyNext]_policyVars, stopping \in {"released", "done"}
  PROVE  Held' = {} /\ held' \subseteq held \cup late
<1>1. op = Idle /\ ~InPool /\ Rejected /\ Held = {}
  BY DEF PolicyInv, Accounted, InPool, Rejected, Held, Range
<1>2. \A w \in Worker : worker[w] = Free
  BY <1>1, AtRest
<1>3. UNCHANGED reservations => Held' = {}
  BY <1>1 DEF Held
<1>4. ASSUME NEW w \in Worker, Work(w) PROVE FALSE
  BY <1>1, <1>2, <1>4, SMTT(30) DEF Work, Take, InspectionFails, ReservationFails, Granted, GivenBack, Displaced, Free
<1>5. CASE Operation
  <2>1. Begin
    BY <1>1, <1>5, Zenon DEF Operation, RefreshSkip, RefreshCall, RefreshEnd, Drop, DropEnd, CollectAll,
                      CollectPrimary, CollectOverflow, PoolEnd
  <2> QED BY <2>1, <1>3 DEF Begin, clientVars
<1>6. CASE Requests \/ Abort \/ Expire \/ UNCHANGED policyVars
  BY <1>3, <1>6, ZenonT(60) DEF Requests, Enqueue, Abort, Expire, ownVars, clientVars, policyVars
<1>7. CASE (\E r \in Candidate : LateReturn(r)) \/ Stop \/ StopSteps
  BY <1>3, <1>7 DEF LateReturn, OpensNone, OpensUntold, Stop, StopSteps, StopRelease, ClientStop, ownVars
<1> QED BY <1>4, <1>5, <1>6, <1>7, SMTT(30) DEF PolicyNext

\* DiversityKept, for any number of workers, candidates and groups.
THEOREM AlwaysDiversityKept == PolicySpec => DiversityKept
<1>1. PolicyInv /\ [PolicyNext]_policyVars => [KeepsGroups /\ StaysQuiet]_policyVars
  BY GroupsKept, QuietKept DEF KeepsGroups, StaysQuiet
<1> QED BY <1>1, AlwaysPolicyInv, PTL DEF PolicySpec, DiversityKept
=============================================================================
