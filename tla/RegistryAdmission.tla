------------------------- MODULE RegistryAdmission -------------------------
(***************************************************************************)
(* Admission to a rendezvous registry: the request windows and the         *)
(* AdmissionPolicy of packages/rendezvous/src/registry.ts, the verifiers   *)
(* of packages/membership, and the HTTP requests of service.ts that carry  *)
(* the calls. What is stored once a request is admitted is in Presence.    *)
(*                                                                         *)
(* Calls overlap: issueChallenge awaits the tag of a challenge after its   *)
(* capacity check, #verifyProof awaits the tag and the digest after it has *)
(* looked the challenge up.                                                *)
(***************************************************************************)
EXTENDS Integers, FiniteSets, FiniteSetTheorems, TLAPS

CONSTANTS
    Client, Member,         \* clients, and those an invite or allowlist names
    Namespace,
    Slot,                   \* requests in flight at a time
    MaxClients, MaxRequests, MaxPerNamespace, Window,   \* RegistryLimits
    MaxOutstanding, ChallengeTtl,                       \* ProofOfWorkLimits
    MaxTime, MaxCalls, MaxIssued    \* bounds: the clock, calls, challenges

\* validateRegistryLimits and validateProofLimits: limits are positive integers.
ASSUME LimitsAssumption ==
    /\ MaxRequests \in Nat \ {0} /\ MaxPerNamespace \in Nat \ {0} /\ Window \in Nat \ {0}
    /\ ChallengeTtl \in Nat /\ MaxTime \in Nat

Mode == {"open", "allowlist", "invite", "proof-of-work"}

VARIABLES
    mode,       \* the policy's
    clock,
    windows,    \* #clientWindows: client to start, requests in all and by namespace
    challenges, \* #proofChallenges: by nonce, with whether it is used
    issued,     \* nonces drawn
    slots,      \* requests in flight
    served,     \* the requests that passed #consumeRequest, each with the start
                \* of the window it was counted in (history)
    admitted    \* admissions by proof: nonce, and whether it was spent when
                \* the request was read

admissionVars == <<mode, clock, windows, challenges, issued, slots, served, admitted>>

Free == [op |-> "free"]

AdmissionInit ==
    /\ mode \in Mode /\ clock = 0
    /\ windows = << >> /\ challenges = << >> /\ issued = 0
    /\ slots = [s \in Slot |-> Free]
    /\ served = {} /\ admitted = {}

Calls == Cardinality(served)
Served(c, ns, start) ==
    LET same == {v \in served : v.client = c /\ v.namespace = ns /\ v.at = clock}
    IN [client |-> c, namespace |-> ns, at |-> clock, since |-> start, nth |-> Cardinality(same)]
Without(f, gone) == [k \in DOMAIN f \ gone |-> f[k]]
With(f, k, v) == [x \in DOMAIN f \cup {k} |-> IF x = k THEN v ELSE f[x]]

-----------------------------------------------------------------------------
(* #consumeRequest *)

LiveWindows == Without(windows, {c \in DOMAIN windows : clock - windows[c].start >= Window})
Opened(ns) == [start |-> clock, total |-> 1, count |-> [n \in Namespace |-> IF n = ns THEN 1 ELSE 0]]
\* A count above its limit is not told from a higher one.
OneMore(n, limit) == IF n <= limit THEN n + 1 ELSE n
Counted(w, ns) ==
    [start |-> w.start,
     total |-> OneMore(w.total, MaxRequests),
     count |-> [w.count EXCEPT ![ns] = OneMore(@, MaxPerNamespace)]]

\* Whether a request passes, and what it leaves in the windows: it counts
\* even if it does not. For comparison, one that is turned away takes the
\* window with it.
RateLimited(w, ns) ==
    LET after == Counted(w, ns) IN after.total > MaxRequests \/ after.count[ns] > MaxPerNamespace
consumeForgetting(c, ns) ==
    LET live == LiveWindows
    IN IF c \in DOMAIN live
       THEN [passes |-> ~RateLimited(live[c], ns),
             windows |-> IF RateLimited(live[c], ns) THEN Without(live, {c}) ELSE With(live, c, Counted(live[c], ns))]
       ELSE [passes |-> Cardinality(DOMAIN live) < MaxClients,
             windows |-> IF Cardinality(DOMAIN live) < MaxClients THEN With(live, c, Opened(ns)) ELSE live]
consumeRequest(c, ns) ==
    LET live == LiveWindows
    IN IF c \in DOMAIN live
       THEN [passes |-> ~RateLimited(live[c], ns), windows |-> With(live, c, Counted(live[c], ns))]
       ELSE [passes |-> Cardinality(DOMAIN live) < MaxClients,
             windows |-> IF Cardinality(DOMAIN live) < MaxClients THEN With(live, c, Opened(ns)) ELSE live]

\* A request is counted, and served if it passes.
Request(c, ns) ==
    LET r == consumeRequest(c, ns)
    IN /\ windows' = r.windows
       /\ served' = IF r.passes THEN served \cup {Served(c, ns, r.windows[c].start)} ELSE served

\* RegistryServer.discover and the discover request of the service, whose
\* client is the one of the transport.
discover(c, ns) ==
    /\ Calls < MaxCalls
    /\ Request(c, ns)
    /\ UNCHANGED <<mode, clock, challenges, issued, slots, admitted>>

-----------------------------------------------------------------------------
(* AdmissionPolicy *)

Unexpired == Without(challenges, {n \in DOMAIN challenges : challenges[n].expires <= clock})

\* issueChallenge: an unused challenge of the same binding is returned
\* again, a full table is a rejection, and a new challenge is put into the
\* table only after its tag has been computed.
issueChallenge(s, c, ns) ==
    /\ slots[s] = Free /\ mode = "proof-of-work" /\ issued < MaxIssued
    /\ challenges' = Unexpired
    /\ LET again == {n \in DOMAIN Unexpired : Unexpired[n].client = c /\ Unexpired[n].namespace = ns /\ ~Unexpired[n].used}
       IN IF again = {} /\ Cardinality(DOMAIN Unexpired) < MaxOutstanding
          THEN /\ issued' = issued + 1
               /\ slots' = [slots EXCEPT ![s] = [op |-> "issue", client |-> c, namespace |-> ns,
                                                expires |-> clock + ChallengeTtl, nonce |-> issued + 1]]
          ELSE UNCHANGED <<issued, slots>>
    /\ UNCHANGED <<mode, clock, windows, served, admitted>>
ChallengeTagged(s) ==
    /\ slots[s].op = "issue"
    /\ challenges' = With(challenges, slots[s].nonce,
                          [client |-> slots[s].client, namespace |-> slots[s].namespace, expires |-> slots[s].expires, used |-> FALSE])
    /\ slots' = [slots EXCEPT ![s] = Free]
    /\ UNCHANGED <<mode, clock, windows, issued, served, admitted>>

\* #verifyProof up to its awaits: whether the credential's challenge is one
\* of the table's, for this client and namespace, neither used nor expired.
\* For comparison, without a look at whether it is used.
verifyProofAgain(n, c, ns) ==
    /\ n \in DOMAIN challenges /\ challenges[n].expires > clock
    /\ challenges[n].client = c /\ challenges[n].namespace = ns
verifyProof(n, c, ns) ==
    /\ n \in DOMAIN challenges /\ ~challenges[n].used /\ challenges[n].expires > clock
    /\ challenges[n].client = c /\ challenges[n].namespace = ns

\* InviteVerifier and AllowlistVerifier: the token, or the peer.
verify(c) == c \in Member

\* evaluate: what a request is admitted on, once it has been read.
evaluate(c, ns, n) ==
    CASE mode = "open" -> TRUE
      [] mode \in {"allowlist", "invite"} -> verify(c)
      [] mode = "proof-of-work" -> verifyProof(n, c, ns)

\* register up to the awaits of the policy: the service reads the request,
\* the server counts it, the policy looks at its credential. An expired
\* challenge that is presented is deleted. Only a proof takes awaits that
\* other calls can tell.
Spent(n) == \E a \in admitted : a.nonce = n
register(s, c, ns, n) ==
    /\ slots[s] = Free /\ Calls < MaxCalls
    /\ Request(c, ns)
    /\ LET passes == consumeRequest(c, ns).passes
           expired == mode = "proof-of-work" /\ n \in DOMAIN challenges /\ ~challenges[n].used /\ challenges[n].expires <= clock
       IN /\ slots' = IF passes /\ mode = "proof-of-work" /\ evaluate(c, ns, n)
                      THEN [slots EXCEPT ![s] = [op |-> "verify", client |-> c, namespace |-> ns, nonce |-> n, spent |-> Spent(n)]]
                      ELSE slots
          /\ challenges' = IF passes /\ expired THEN Without(challenges, {n}) ELSE challenges
    /\ UNCHANGED <<mode, clock, issued, admitted>>

\* The end of evaluate: too little work, or the challenge is marked used in
\* the stored entry, which a sweep may have dropped from the table by now.
ProofSettles(s) ==
    /\ slots[s].op = "verify"
    /\ slots' = [slots EXCEPT ![s] = Free]
    /\ \/ UNCHANGED <<challenges, admitted>>
       \/ /\ challenges' = IF slots[s].nonce \in DOMAIN challenges
                           THEN [challenges EXCEPT ![slots[s].nonce].used = TRUE] ELSE challenges
          /\ admitted' = admitted \cup {[nonce |-> slots[s].nonce, spent |-> slots[s].spent]}
    /\ UNCHANGED <<mode, clock, windows, issued, served>>

\* handleRequest gives up on a request (its timeout, or the client is gone):
\* the call goes on without an answer, which is how it ends anyway here.
Tick == clock < MaxTime /\ clock' = clock + 1 /\ UNCHANGED <<mode, windows, challenges, issued, slots, served, admitted>>

AdmissionNext ==
    \/ Tick
    \/ \E c \in Client, ns \in Namespace : discover(c, ns)
    \/ \E s \in Slot, c \in Client, ns \in Namespace :
          issueChallenge(s, c, ns) \/ \E n \in DOMAIN challenges \cup {0} : register(s, c, ns, n)
    \/ \E s \in Slot : ChallengeTagged(s) \/ ProofSettles(s)

AdmissionSpec == AdmissionInit /\ [][AdmissionNext]_admissionVars

-----------------------------------------------------------------------------
\* However the windows open and lapse, a client is served at most twice its
\* allowance within any span as long as a window, in all and in a namespace:
\* requests that are turned away do not buy a new window (#consumeRequest,
\* registry.ts).
ServedBounded ==
    \A c \in Client : \A t \in 0..MaxTime :
        LET within == {v \in served : v.client = c /\ v.at \in t..(t + Window - 1)}
        IN /\ Cardinality(within) <= 2 * MaxRequests
           /\ \A ns \in Namespace : Cardinality({v \in within : v.namespace = ns}) <= 2 * MaxPerNamespace

\* A challenge that has admitted a registration admits none that is read
\* after that, however the calls, the sweeps and its expiry interleave
\* (#verifyProof and #sweepChallenges, registry.ts).
SpentProofRefused == \A a \in admitted : ~a.spent

\* A registry is fair to its clients: a spent proof admits no later
\* registration, and requests that are turned away buy no new window.
AdmissionIsFair == ServedBounded /\ SpentProofRefused

-----------------------------------------------------------------------------
(* The windows. What the requests served owe to the windows they were      *)
(* counted in, for a table of windows W and a set of requests S.           *)

InWindow(S, c, start) == {v \in S : v.client = c /\ v.since = start}
InSpace(S, c, start, ns) == {v \in S : v.client = c /\ v.since = start /\ v.namespace = ns}

WindowType == [start : Nat, total : Nat, count : [Namespace -> Nat]]
Apart(x, y) == x = y \/ x + Window <= y \/ y + Window <= x

\* Every request lies in its window. It was counted in the client's present
\* window, or in one that had lapsed when the present one was opened.
RequestsPlaced(W, S) ==
    /\ IsFiniteSet(S)
    /\ \A v \in S :
          /\ v.since \in Nat /\ v.at \in Nat /\ v.since <= v.at /\ v.at < v.since + Window
          /\ \/ v.client \in DOMAIN W /\ v.since = W[v.client].start
             \/ /\ v.since + Window <= clock
                /\ v.client \in DOMAIN W => v.since + Window <= W[v.client].start

\* The windows of one client do not overlap, and none exceeds a limit.
WindowsApart(S) == \A v, w \in S : v.client = w.client => Apart(v.since, w.since)
WindowsLimited(S) ==
    \A c \in Client, start \in Nat :
        /\ Cardinality(InWindow(S, c, start)) <= MaxRequests
        /\ \A ns \in Namespace : Cardinality(InSpace(S, c, start, ns)) <= MaxPerNamespace

\* A window has counted every request that was served in it.
WindowsCount(W, S) ==
    \A c \in DOMAIN W :
        /\ c \in Client /\ W[c] \in WindowType /\ W[c].start <= clock
        /\ Cardinality(InWindow(S, c, W[c].start)) <= W[c].total
        /\ \A ns \in Namespace : Cardinality(InSpace(S, c, W[c].start, ns)) <= W[c].count[ns]

WindowInv(W, S) == RequestsPlaced(W, S) /\ WindowsApart(S) /\ WindowsLimited(S) /\ WindowsCount(W, S)

-----------------------------------------------------------------------------
(* The challenges. A nonce is in one place at a time: with the request     *)
(* that computes its tag, or in the table and from there in proofs; and a  *)
(* spent one that is still in the table is marked used.                    *)

SlotType ==
    {Free} \cup [op : {"issue"}, client : Client, namespace : Namespace, expires : Nat, nonce : Nat]
           \cup [op : {"verify"}, client : Client, namespace : Namespace, nonce : Nat, spent : BOOLEAN]

ChallengeType == [client : Client, namespace : Namespace, expires : Nat, used : BOOLEAN]

ChallengesDrawn == \A n \in DOMAIN challenges : n \in 1..issued /\ challenges[n] \in ChallengeType
SpentMarked == \A n \in DOMAIN challenges : Spent(n) => challenges[n].used
TagsPending ==
    \A s \in Slot : slots[s].op = "issue" =>
        /\ slots[s].nonce \in 1..issued /\ slots[s].nonce \notin DOMAIN challenges
        /\ \A t \in Slot \ {s} : slots[t] # Free => slots[t].nonce # slots[s].nonce
        /\ ~Spent(slots[s].nonce)
ProofsUnspent ==
    /\ \A s \in Slot : slots[s].op = "verify" => slots[s].nonce \in 1..issued /\ ~slots[s].spent
    /\ \A a \in admitted : a.nonce \in 1..issued /\ ~a.spent

ProofInv == ChallengesDrawn /\ SpentMarked /\ TagsPending /\ ProofsUnspent

AdmissionTypeOK == clock \in Nat /\ issued \in Nat /\ slots \in [Slot -> SlotType]
AdmissionInv == AdmissionTypeOK /\ WindowInv(windows, served) /\ ProofInv

\* A part of a finite set is no larger than the set.
LEMMA Fewer ==
    ASSUME NEW S, IsFiniteSet(S), NEW T \in SUBSET S
    PROVE  IsFiniteSet(T) /\ Cardinality(T) \in Nat /\ Cardinality(S) \in Nat /\ Cardinality(T) <= Cardinality(S)
BY FS_Subset, FS_CardinalityType

\* One element more makes a set larger by one at most.
LEMMA OneLarger ==
    ASSUME NEW S, IsFiniteSet(S), NEW r, NEW T \in SUBSET (S \cup {r})
    PROVE  IsFiniteSet(T) /\ Cardinality(T) \in Nat /\ Cardinality(S) \in Nat /\ Cardinality(T) <= Cardinality(S) + 1
<1>1. IsFiniteSet(S \cup {r}) /\ Cardinality(S) \in Nat /\ Cardinality(S \cup {r}) <= Cardinality(S) + 1
  BY FS_AddElement, FS_CardinalityType
<1> QED BY <1>1, FS_Subset, FS_CardinalityType

\* Requests in windows that do not overlap, with B at most in each: within
\* a span as long as a window there are at most 2 * B.
LEMMA TwoWindows ==
    ASSUME NEW S, IsFiniteSet(S), NEW B \in Nat, NEW t \in Nat,
           \A v \in S : /\ v.since \in Nat /\ v.at \in Nat /\ v.since <= v.at /\ v.at < v.since + Window
                        /\ t <= v.at /\ v.at < t + Window,
           \A v, w \in S : Apart(v.since, w.since),
           \A start \in Nat : Cardinality({v \in S : v.since = start}) <= B
    PROVE  Cardinality(S) <= 2 * B
<1> DEFINE At(x) == {v \in S : v.since = x}
<1>1. CASE S = {}
  BY <1>1, FS_EmptySet
<1>2. CASE S # {}
  <2>1. PICK v \in S : TRUE
    BY <1>2
  <2>2. IsFiniteSet(At(v.since)) /\ Cardinality(At(v.since)) \in Nat /\ Cardinality(At(v.since)) <= B
    BY <2>1, Fewer
  <2>3. CASE S = At(v.since)
    <3> HIDE DEF At
    <3> QED BY <2>2, <2>3
  <2>4. CASE S # At(v.since)
    <3>1. PICK w \in S : w.since # v.since
      BY <2>4
    <3>2. IsFiniteSet(At(w.since)) /\ Cardinality(At(w.since)) \in Nat /\ Cardinality(At(w.since)) <= B
      BY <3>1, Fewer
    <3>3. ASSUME NEW u \in S PROVE u.since = v.since \/ u.since = w.since
      BY <2>1, <3>1, LimitsAssumption DEF Apart
    <3>4. S \in SUBSET (At(v.since) \cup At(w.since))
      BY <3>3
    <3> HIDE DEF At
    <3>5. /\ IsFiniteSet(At(v.since) \cup At(w.since))
          /\ Cardinality(At(v.since) \cup At(w.since)) <= Cardinality(At(v.since)) + Cardinality(At(w.since))
      <4>1. /\ IsFiniteSet(At(v.since) \cup At(w.since))
            /\ Cardinality(At(v.since) \cup At(w.since)) =
                 Cardinality(At(v.since)) + Cardinality(At(w.since)) - Cardinality(At(v.since) \cap At(w.since))
        BY <2>2, <3>2, FS_Union
      <4>2. Cardinality(At(v.since) \cap At(w.since)) \in Nat
        BY <2>2, Fewer
      <4> QED BY <4>1, <4>2, <2>2, <3>2
    <3>6. Cardinality(S) <= Cardinality(At(v.since) \cup At(w.since)) /\ Cardinality(S) \in Nat
          /\ Cardinality(At(v.since) \cup At(w.since)) \in Nat
      BY <3>4, <3>5, Fewer
    <3> QED BY <2>2, <3>2, <3>5, <3>6
  <2> QED BY <2>3, <2>4
<1> QED BY <1>1, <1>2

\* Dropping the windows that have lapsed (#consumeRequest's loop) leaves
\* what is known of the others.
LEMMA LapsedDropped ==
    ASSUME clock \in Nat, NEW S, WindowInv(windows, S)
    PROVE  /\ WindowInv(LiveWindows, S)
           /\ \A c \in DOMAIN LiveWindows : LiveWindows[c] \in WindowType /\ clock < LiveWindows[c].start + Window
<1> DEFINE W == LiveWindows
<1>1. \A c \in DOMAIN W : c \in DOMAIN windows /\ W[c] = windows[c] /\ ~(clock - windows[c].start >= Window)
  BY DEF LiveWindows, Without
<1>2. \A c \in DOMAIN windows : c \notin DOMAIN W => clock - windows[c].start >= Window
  BY DEF LiveWindows, Without
<1> HIDE DEF W
<1>3. \A c \in DOMAIN windows : windows[c] \in WindowType /\ windows[c].start \in Nat
  BY DEF WindowInv, WindowsCount, WindowType
<1>4. RequestsPlaced(W, S)
  <2>1. IsFiniteSet(S)
    BY DEF WindowInv, RequestsPlaced
  <2>2. ASSUME NEW v \in S
        PROVE  /\ v.since \in Nat /\ v.at \in Nat /\ v.since <= v.at /\ v.at < v.since + Window
               /\ \/ v.client \in DOMAIN W /\ v.since = W[v.client].start
                  \/ /\ v.since + Window <= clock
                     /\ v.client \in DOMAIN W => v.since + Window <= W[v.client].start
    BY <1>1, <1>2, <1>3, LimitsAssumption DEF WindowInv, RequestsPlaced
  <2> QED BY <2>1, <2>2 DEF RequestsPlaced
<1>5. WindowsCount(W, S)
  BY <1>1 DEF WindowInv, WindowsCount
<1>6. \A c \in DOMAIN W : W[c] \in WindowType /\ clock < W[c].start + Window
  BY <1>1, <1>3, LimitsAssumption
<1> QED BY <1>4, <1>5, <1>6 DEF WindowInv, W

\* What counting a request changes in a window (existing.count and
\* namespaceCounts in #consumeRequest).
LEMMA CountedWindow ==
    ASSUME NEW w \in WindowType, NEW ns \in Namespace
    PROVE  LET v == Counted(w, ns)
           IN /\ v \in WindowType /\ v.start = w.start
              /\ v.total = OneMore(w.total, MaxRequests)
              /\ v.count[ns] = OneMore(w.count[ns], MaxPerNamespace)
              /\ \A n \in Namespace \ {ns} : v.count[n] = w.count[n]
<1> DEFINE v == Counted(w, ns)
           count == [w.count EXCEPT ![ns] = OneMore(w.count[ns], MaxPerNamespace)]
<1>1. w.start \in Nat /\ w.total \in Nat /\ w.count \in [Namespace -> Nat]
  BY DEF WindowType
<1>2. \A n, limit \in Nat : OneMore(n, limit) \in Nat
  BY DEF OneMore
<1>3. count \in [Namespace -> Nat] /\ count[ns] = OneMore(w.count[ns], MaxPerNamespace)
      /\ \A n \in Namespace \ {ns} : count[n] = w.count[n]
  BY <1>1, <1>2, LimitsAssumption, Zenon
<1>4. v = [start |-> w.start, total |-> OneMore(w.total, MaxRequests), count |-> count]
  BY DEF Counted
<1> HIDE DEF v, count
<1>5. v \in WindowType
  BY <1>1, <1>2, <1>3, <1>4, LimitsAssumption DEF WindowType
<1> QED BY <1>3, <1>4, <1>5 DEF v

\* A request that is turned away counts, and that only (#consumeRequest).
LEMMA RefusalCounts ==
    ASSUME clock \in Nat, NEW W, NEW S, WindowInv(W, S), NEW c \in DOMAIN W, NEW ns \in Namespace
    PROVE  WindowInv(With(W, c, Counted(W[c], ns)), S)
<1> DEFINE w == Counted(W[c], ns)  V == With(W, c, w)
<1>0. /\ c \in Client /\ W[c] \in WindowType /\ W[c].start <= clock
      /\ Cardinality(InWindow(S, c, W[c].start)) <= W[c].total
      /\ \A n \in Namespace : Cardinality(InSpace(S, c, W[c].start, n)) <= W[c].count[n]
  BY DEF WindowInv, WindowsCount
<1>1. /\ w \in WindowType /\ w.start = W[c].start /\ W[c].total <= w.total
      /\ \A n \in Namespace : W[c].count[n] <= w.count[n]
  <2>1. /\ w \in WindowType /\ w.start = W[c].start /\ w.total = OneMore(W[c].total, MaxRequests)
        /\ w.count[ns] = OneMore(W[c].count[ns], MaxPerNamespace)
        /\ \A n \in Namespace \ {ns} : w.count[n] = W[c].count[n]
    BY <1>0, CountedWindow
  <2> HIDE DEF w
  <2>2. W[c].total \in Nat /\ \A n \in Namespace : W[c].count[n] \in Nat
    BY <1>0 DEF WindowType
  <2> QED BY <2>1, <2>2, LimitsAssumption DEF OneMore
<1>2. DOMAIN V = DOMAIN W /\ V[c] = w /\ \A d \in DOMAIN W \ {c} : V[d] = W[d]
  BY DEF With
<1> HIDE DEF w, V
<1>3. RequestsPlaced(V, S)
  <2>1. \A d \in DOMAIN V : V[d].start = W[d].start
    BY <1>1, <1>2
  <2> QED BY <1>2, <2>1 DEF WindowInv, RequestsPlaced
<1>4. WindowsCount(V, S)
  <2>1. ASSUME NEW d \in DOMAIN V, d # c
        PROVE  /\ d \in Client /\ V[d] \in WindowType /\ V[d].start <= clock
               /\ Cardinality(InWindow(S, d, V[d].start)) <= V[d].total
               /\ \A n \in Namespace : Cardinality(InSpace(S, d, V[d].start, n)) <= V[d].count[n]
    BY <1>2, <2>1 DEF WindowInv, WindowsCount
  <2>2. IsFiniteSet(S)
    BY DEF WindowInv, RequestsPlaced
  <2>3. Cardinality(InWindow(S, c, w.start)) \in Nat
    BY <2>2, Fewer DEF InWindow
  <2>4. \A n \in Namespace : Cardinality(InSpace(S, c, w.start, n)) \in Nat
    BY <2>2, Fewer DEF InSpace
  <2>5. Cardinality(InWindow(S, c, w.start)) <= w.total
    BY <1>0, <1>1, <2>3 DEF WindowType
  <2>6. ASSUME NEW n \in Namespace PROVE Cardinality(InSpace(S, c, w.start, n)) <= w.count[n]
    BY <1>0, <1>1, <2>4 DEF WindowType
  <2> QED BY <1>0, <1>1, <1>2, <2>1, <2>5, <2>6 DEF WindowsCount
<1> QED BY <1>3, <1>4 DEF WindowInv, w, V

\* A request that is served in a window, which has counted it and is within
\* its limits.
LEMMA ServedInWindow ==
    ASSUME clock \in Nat, NEW W, NEW S, WindowInv(W, S), NEW c \in Client, NEW ns \in Namespace,
           NEW w \in WindowType, w.start <= clock, clock < w.start + Window,
           NEW r, r.client = c, r.namespace = ns, r.at = clock, r.since = w.start,
           \A v \in S : v.client = c => v.since = w.start \/ v.since + Window <= w.start,
           Cardinality(InWindow(S, c, w.start)) < w.total, w.total <= MaxRequests,
           Cardinality(InSpace(S, c, w.start, ns)) < w.count[ns], w.count[ns] <= MaxPerNamespace,
           \A n \in Namespace : Cardinality(InSpace(S, c, w.start, n)) <= w.count[n]
    PROVE  WindowInv(With(W, c, w), S \cup {r})
<1> DEFINE V == With(W, c, w)  R == S \cup {r}
<1>1. DOMAIN V = DOMAIN W \cup {c} /\ V[c] = w /\ \A d \in DOMAIN W \ {c} : V[d] = W[d]
  BY DEF With
<1> HIDE DEF V
<1>2. IsFiniteSet(S) /\ IsFiniteSet(R)
  BY FS_AddElement DEF WindowInv, RequestsPlaced
<1>3. \A v \in S : /\ v.since \in Nat /\ v.at \in Nat /\ v.since <= v.at /\ v.at < v.since + Window
                   /\ \/ v.client \in DOMAIN W /\ v.since = W[v.client].start
                      \/ /\ v.since + Window <= clock
                         /\ v.client \in DOMAIN W => v.since + Window <= W[v.client].start
  BY DEF WindowInv, RequestsPlaced
<1>4. w.start \in Nat /\ w.total \in Nat /\ w.count \in [Namespace -> Nat]
  BY DEF WindowType
<1>5. RequestsPlaced(V, R)
  <2>1. ASSUME NEW v \in S
        PROVE  /\ v.since \in Nat /\ v.at \in Nat /\ v.since <= v.at /\ v.at < v.since + Window
               /\ \/ v.client \in DOMAIN V /\ v.since = V[v.client].start
                  \/ /\ v.since + Window <= clock
                     /\ v.client \in DOMAIN V => v.since + Window <= V[v.client].start
    <3>1. CASE v.client = c
      BY <1>1, <1>3, <1>4, <3>1, LimitsAssumption
    <3>2. CASE v.client # c
      BY <1>1, <1>3, <3>2
    <3> QED BY <3>1, <3>2
  <2>2. /\ r.since \in Nat /\ r.at \in Nat /\ r.since <= r.at /\ r.at < r.since + Window
        /\ r.client \in DOMAIN V /\ r.since = V[r.client].start
    BY <1>1, <1>4
  <2> QED BY <1>2, <2>1, <2>2 DEF RequestsPlaced
<1>6. WindowsApart(R)
  <2>1. ASSUME NEW v \in S, v.client = r.client PROVE Apart(v.since, r.since) /\ Apart(r.since, v.since)
    BY <2>1 DEF Apart
  <2>2. Apart(r.since, r.since)
    BY DEF Apart
  <2> QED BY <2>1, <2>2 DEF WindowInv, WindowsApart
<1>7. ASSUME NEW d \in Client, NEW start \in Nat, d # c \/ start # w.start
      PROVE  InWindow(R, d, start) = InWindow(S, d, start) /\ \A n \in Namespace : InSpace(R, d, start, n) = InSpace(S, d, start, n)
  BY <1>7 DEF InWindow, InSpace
<1>8. \A n \in Namespace \ {ns} : InSpace(R, c, w.start, n) = InSpace(S, c, w.start, n)
  BY DEF InSpace
<1>9. Cardinality(InWindow(R, c, w.start)) <= w.total
  <2>1. IsFiniteSet(InWindow(S, c, w.start))
    BY <1>2, Fewer DEF InWindow
  <2>2. InWindow(R, c, w.start) \in SUBSET (InWindow(S, c, w.start) \cup {r})
    BY DEF InWindow
  <2>3. /\ Cardinality(InWindow(R, c, w.start)) <= Cardinality(InWindow(S, c, w.start)) + 1
        /\ Cardinality(InWindow(R, c, w.start)) \in Nat /\ Cardinality(InWindow(S, c, w.start)) \in Nat
    <3> HIDE DEF R
    <3> QED BY <2>1, <2>2, OneLarger, Zenon
  <2> HIDE DEF R
  <2> QED BY <2>3, <1>4
<1>10. Cardinality(InSpace(R, c, w.start, ns)) <= w.count[ns]
  <2>1. IsFiniteSet(InSpace(S, c, w.start, ns))
    BY <1>2, Fewer DEF InSpace
  <2>2. InSpace(R, c, w.start, ns) \in SUBSET (InSpace(S, c, w.start, ns) \cup {r})
    BY DEF InSpace
  <2>3. /\ Cardinality(InSpace(R, c, w.start, ns)) <= Cardinality(InSpace(S, c, w.start, ns)) + 1
        /\ Cardinality(InSpace(R, c, w.start, ns)) \in Nat /\ Cardinality(InSpace(S, c, w.start, ns)) \in Nat
    <3> HIDE DEF R
    <3> QED BY <2>1, <2>2, OneLarger, Zenon
  <2> HIDE DEF R
  <2>4. w.count[ns] \in Nat
    BY <1>4
  <2> QED BY <2>3, <2>4
<1>11. /\ \A d \in Client, start \in Nat : Cardinality(InWindow(R, d, start)) \in Nat
       /\ \A d \in Client, start \in Nat, n \in Namespace : Cardinality(InSpace(R, d, start, n)) \in Nat
  <2>1. ASSUME NEW d \in Client, NEW start \in Nat PROVE Cardinality(InWindow(R, d, start)) \in Nat
    BY <1>2, Fewer DEF InWindow
  <2>2. ASSUME NEW d \in Client, NEW start \in Nat, NEW n \in Namespace PROVE Cardinality(InSpace(R, d, start, n)) \in Nat
    BY <1>2, Fewer DEF InSpace
  <2> QED BY <2>1, <2>2, Zenon
<1> HIDE DEF R
<1>12. WindowsLimited(R)
  <2>1. ASSUME NEW d \in Client, NEW start \in Nat
        PROVE  Cardinality(InWindow(R, d, start)) <= MaxRequests
    <3>1. CASE d = c /\ start = w.start
      BY <3>1, <1>9, <1>4, <1>11, LimitsAssumption
    <3>2. CASE d # c \/ start # w.start
      BY <3>2, <1>7 DEF WindowInv, WindowsLimited
    <3> QED BY <3>1, <3>2
  <2>2. ASSUME NEW d \in Client, NEW start \in Nat, NEW n \in Namespace
        PROVE  Cardinality(InSpace(R, d, start, n)) <= MaxPerNamespace
    <3>1. CASE d = c /\ start = w.start /\ n = ns
      BY <3>1, <1>10, <1>4, <1>11, LimitsAssumption
    <3>2. CASE d # c \/ start # w.start \/ n # ns
      BY <3>2, <1>7, <1>8 DEF WindowInv, WindowsLimited
    <3> QED BY <3>1, <3>2
  <2> QED BY <2>1, <2>2 DEF WindowsLimited
<1>13. WindowsCount(V, R)
  <2>1. ASSUME NEW d \in DOMAIN V, d # c
        PROVE  /\ d \in Client /\ V[d] \in WindowType /\ V[d].start <= clock
               /\ Cardinality(InWindow(R, d, V[d].start)) <= V[d].total
               /\ \A n \in Namespace : Cardinality(InSpace(R, d, V[d].start, n)) <= V[d].count[n]
    <3>1. d \in DOMAIN W /\ V[d] = W[d]
      BY <1>1, <2>1
    <3>2. /\ d \in Client /\ V[d] \in WindowType /\ V[d].start <= clock
          /\ Cardinality(InWindow(S, d, V[d].start)) <= V[d].total
          /\ \A n \in Namespace : Cardinality(InSpace(S, d, V[d].start, n)) <= V[d].count[n]
      BY <3>1 DEF WindowInv, WindowsCount
    <3>3. V[d].start \in Nat
      BY <3>2 DEF WindowType
    <3> QED BY <3>2, <3>3, <2>1, <1>7
  <2>2. ASSUME NEW n \in Namespace PROVE Cardinality(InSpace(R, c, w.start, n)) <= w.count[n]
    BY <1>8, <1>10
  <2> QED BY <1>1, <1>9, <2>1, <2>2 DEF WindowsCount
<1> QED BY <1>5, <1>6, <1>12, <1>13 DEF WindowInv, V, R

\* Any request, served or turned away, keeps what is known of the windows.
LEMMA RequestKeepsWindows ==
    ASSUME clock \in Nat, WindowInv(windows, served), NEW c \in Client, NEW ns \in Namespace,
           Request(c, ns), clock' = clock
    PROVE  WindowInv(windows, served)'
<1> DEFINE live == LiveWindows
           res == consumeRequest(c, ns)
           r == Served(c, ns, res.windows[c].start)
<1>1. WindowInv(live, served) /\ \A d \in DOMAIN live : live[d] \in WindowType /\ clock < live[d].start + Window
  BY LapsedDropped
<1>2. windows' = res.windows /\ served' = IF res.passes THEN served \cup {r} ELSE served
  BY DEF Request
<1>3. r.client = c /\ r.namespace = ns /\ r.at = clock /\ r.since = res.windows[c].start
  BY DEF Served
<1>4. c \in DOMAIN live => /\ res.passes = ~RateLimited(live[c], ns)
                           /\ res.windows = With(live, c, Counted(live[c], ns))
  BY DEF consumeRequest
<1>5. c \notin DOMAIN live => \/ res.passes /\ res.windows = With(live, c, Opened(ns))
                              \/ ~res.passes /\ res.windows = live
  BY Zenon DEF consumeRequest
<1>6. \A W, w : With(W, c, w)[c] = w
  BY DEF With
<1> HIDE DEF live, res, r
<1>7. ASSUME NEW W, NEW S, WindowInv(W, S), windows' = W, served' = S PROVE WindowInv(windows, served)'
  BY <1>7 DEF WindowInv, RequestsPlaced, WindowsApart, WindowsLimited, WindowsCount, InWindow, InSpace
<1>8. CASE c \in DOMAIN live /\ ~res.passes
  <2>1. WindowInv(With(live, c, Counted(live[c], ns)), served)
    BY <1>1, <1>8, RefusalCounts
  <2> QED BY <1>2, <1>4, <1>7, <1>8, <2>1
<1>9. CASE c \notin DOMAIN live /\ ~res.passes
  BY <1>1, <1>2, <1>5, <1>7, <1>9
<1>10. CASE c \in DOMAIN live /\ res.passes
  <2> DEFINE w == Counted(live[c], ns)
  <2>1. /\ w \in WindowType /\ w.start = live[c].start /\ w.total = OneMore(live[c].total, MaxRequests)
        /\ w.count[ns] = OneMore(live[c].count[ns], MaxPerNamespace)
        /\ \A n \in Namespace \ {ns} : w.count[n] = live[c].count[n]
    BY <1>1, <1>10, CountedWindow
  <2>2. ~(w.total > MaxRequests) /\ ~(w.count[ns] > MaxPerNamespace)
    BY <1>4, <1>10, Zenon DEF RateLimited
  <2>3. r.since = w.start
    BY <1>3, <1>4, <1>6, <1>10
  <2> HIDE DEF w
  <2>4. /\ live[c].start <= clock /\ live[c].start \in Nat /\ clock < live[c].start + Window
        /\ live[c].total \in Nat /\ \A n \in Namespace : live[c].count[n] \in Nat
    BY <1>1, <1>10 DEF WindowInv, WindowsCount, WindowType
  <2>5. /\ Cardinality(InWindow(served, c, w.start)) <= live[c].total
        /\ \A n \in Namespace : Cardinality(InSpace(served, c, w.start, n)) <= live[c].count[n]
    BY <1>1, <1>10, <2>1 DEF WindowInv, WindowsCount
  <2>6. IsFiniteSet(served)
    BY <1>1 DEF WindowInv, RequestsPlaced
  <2>7. Cardinality(InWindow(served, c, w.start)) \in Nat
    BY <2>6, Fewer DEF InWindow
  <2>8. \A n \in Namespace : Cardinality(InSpace(served, c, w.start, n)) \in Nat
    BY <2>6, Fewer DEF InSpace
  <2>9. w.total = live[c].total + 1 /\ w.count[ns] = live[c].count[ns] + 1
    BY <2>1, <2>2, <2>4, LimitsAssumption DEF OneMore
  <2>10. /\ w.total <= MaxRequests /\ Cardinality(InWindow(served, c, w.start)) < w.total
         /\ w.count[ns] <= MaxPerNamespace /\ Cardinality(InSpace(served, c, w.start, ns)) < w.count[ns]
    BY <2>2, <2>4, <2>5, <2>7, <2>8, <2>9, LimitsAssumption, SMTT(30)
  <2>11. ASSUME NEW n \in Namespace PROVE Cardinality(InSpace(served, c, w.start, n)) <= w.count[n]
    BY <2>1, <2>4, <2>5, <2>8, <2>9
  <2>12. \A v \in served : v.client = c => v.since = w.start \/ v.since + Window <= w.start
    BY <1>1, <1>10, <2>1 DEF WindowInv, RequestsPlaced
  <2>13. w.start <= clock /\ clock < w.start + Window
    BY <2>1, <2>4
  <2>14. WindowInv(With(live, c, w), served \cup {r})
    BY <1>1, <1>3, <2>1, <2>3, <2>10, <2>11, <2>12, <2>13, ServedInWindow
  <2>15. windows' = With(live, c, w) /\ served' = served \cup {r}
    BY <1>2, <1>4, <1>10 DEF w
  <2> QED BY <1>7, <2>14, <2>15
<1>11. CASE c \notin DOMAIN live /\ res.passes
  <2> DEFINE w == Opened(ns)
  <2>1. /\ w \in WindowType /\ w.start = clock /\ w.total = 1 /\ w.count[ns] = 1
        /\ \A n \in Namespace : w.count[n] \in Nat
    BY DEF Opened, WindowType
  <2>2. r.since = w.start
    BY <1>3, <1>5, <1>6, <1>11
  <2>3. windows' = With(live, c, w) /\ served' = served \cup {r}
    BY <1>2, <1>5, <1>11
  <2> HIDE DEF w
  <2>4. \A v \in served : v.client = c => v.since \in Nat /\ v.since + Window <= clock
    BY <1>1, <1>11 DEF WindowInv, RequestsPlaced
  <2>5. InWindow(served, c, w.start) = {} /\ \A n \in Namespace : InSpace(served, c, w.start, n) = {}
    BY <2>1, <2>4, LimitsAssumption DEF InWindow, InSpace
  <2>6. /\ Cardinality(InWindow(served, c, w.start)) = 0
        /\ \A n \in Namespace : Cardinality(InSpace(served, c, w.start, n)) = 0
    BY <2>5, FS_EmptySet
  <2>7. /\ w.total <= MaxRequests /\ Cardinality(InWindow(served, c, w.start)) < w.total
        /\ w.count[ns] <= MaxPerNamespace /\ Cardinality(InSpace(served, c, w.start, ns)) < w.count[ns]
        /\ \A n \in Namespace : Cardinality(InSpace(served, c, w.start, n)) <= w.count[n]
    BY <2>1, <2>6, LimitsAssumption
  <2>8. w.start <= clock /\ clock < w.start + Window
    BY <2>1, LimitsAssumption
  <2>9. \A v \in served : v.client = c => v.since = w.start \/ v.since + Window <= w.start
    BY <2>1, <2>4
  <2>10. WindowInv(With(live, c, w), served \cup {r})
    BY <1>1, <1>3, <2>1, <2>2, <2>7, <2>8, <2>9, ServedInWindow
  <2> QED BY <1>7, <2>3, <2>10
<1> QED BY <1>8, <1>9, <1>10, <1>11

\* So does the clock.
LEMMA TickKeepsWindows ==
    ASSUME clock \in Nat, WindowInv(windows, served), Tick
    PROVE  WindowInv(windows, served)'
<1>1. clock' = clock + 1 /\ windows' = windows /\ served' = served
  BY DEF Tick
<1>2. \A d \in DOMAIN windows : windows[d].start \in Nat
  BY DEF WindowInv, WindowsCount, WindowType
<1>3. RequestsPlaced(windows, served)'
  BY <1>1, LimitsAssumption DEF WindowInv, RequestsPlaced
<1>4. WindowsCount(windows, served)'
  BY <1>1, <1>2 DEF WindowInv, WindowsCount, InWindow, InSpace
<1>5. WindowsApart(served)' /\ WindowsLimited(served)'
  BY <1>1 DEF WindowInv, WindowsApart, WindowsLimited, InWindow, InSpace
<1> QED BY <1>3, <1>4, <1>5 DEF WindowInv

\* A slot holds nothing, a challenge that is being tagged or a proof that is
\* being looked at.
LEMMA SlotKinds ==
    ASSUME NEW x \in SlotType
    PROVE  /\ x = Free <=> x.op = "free"
           /\ x.op = "issue" => /\ x.nonce \in Nat /\ x # Free
                               /\ x.client \in Client /\ x.namespace \in Namespace /\ x.expires \in Nat
           /\ x.op = "verify" => x.nonce \in Nat /\ x # Free
           /\ x.op \in {"free", "issue", "verify"}
BY DEF SlotType, Free

\* A sweep, and the deletion of an expired challenge, only take challenges
\* away (#sweepChallenges and #verifyProof).
LEMMA FewerChallenges ==
    ASSUME ProofInv, NEW gone, challenges' = Without(challenges, gone),
           issued' = issued, slots' = slots, admitted' = admitted
    PROVE  ProofInv'
<1>1. \A n \in DOMAIN challenges' : n \in DOMAIN challenges /\ challenges'[n] = challenges[n]
  BY DEF Without
<1>2. \A n : Spent(n)' <=> Spent(n)
  BY DEF Spent
<1>3. ChallengesDrawn'
  BY <1>1 DEF ProofInv, ChallengesDrawn
<1>4. SpentMarked'
  BY <1>1, <1>2 DEF ProofInv, SpentMarked
<1>5. TagsPending'
  BY <1>1, <1>2 DEF ProofInv, TagsPending
<1>6. ProofsUnspent'
  BY DEF ProofInv, ProofsUnspent
<1> QED BY <1>3, <1>4, <1>5, <1>6 DEF ProofInv

\* issueChallenge draws a fresh nonce.
LEMMA IssueKeepsProofs ==
    ASSUME AdmissionTypeOK, ProofInv, NEW s \in Slot, NEW c \in Client, NEW ns \in Namespace, issueChallenge(s, c, ns)
    PROVE  AdmissionTypeOK' /\ ProofInv'
<1> DEFINE x == [op |-> "issue", client |-> c, namespace |-> ns, expires |-> clock + ChallengeTtl, nonce |-> issued + 1]
<1>1. /\ challenges' = Unexpired /\ admitted' = admitted /\ clock' = clock
      /\ \/ issued' = issued + 1 /\ slots' = [slots EXCEPT ![s] = x]
         \/ issued' = issued /\ slots' = slots
  BY DEF issueChallenge
<1>2. CASE issued' = issued /\ slots' = slots
  <2>1. AdmissionTypeOK'
    BY <1>1, <1>2 DEF AdmissionTypeOK
  <2>2. challenges' = Without(challenges, {n \in DOMAIN challenges : challenges[n].expires <= clock})
    BY <1>1 DEF Unexpired
  <2> QED BY <1>1, <1>2, <2>1, <2>2, FewerChallenges
<1>3. CASE issued' = issued + 1 /\ slots' = [slots EXCEPT ![s] = x]
  <2>0. issued \in Nat /\ clock \in Nat /\ slots \in [Slot -> SlotType]
    BY DEF AdmissionTypeOK
  <2>1. x \in SlotType
    BY <2>0, LimitsAssumption DEF SlotType
  <2>2. x.op = "issue" /\ x.nonce = issued + 1
    OBVIOUS
  <2> HIDE DEF x
  <2>3. slots' \in [Slot -> SlotType] /\ slots'[s] = x /\ \A t \in Slot \ {s} : slots'[t] = slots[t]
    BY <1>3, <2>0, <2>1
  <2>4. \A n \in DOMAIN challenges' : n \in DOMAIN challenges /\ challenges'[n] = challenges[n]
    BY <1>1 DEF Unexpired, Without
  <2>5. \A n : Spent(n)' <=> Spent(n)
    BY <1>1 DEF Spent
  <2>6. \A n : n \in 1..issued => n \in 1..(issued + 1) /\ n # issued + 1
    BY <2>0
  <2>7. ChallengesDrawn'
    BY <1>3, <2>4, <2>6 DEF ProofInv, ChallengesDrawn
  <2>8. SpentMarked'
    BY <2>4, <2>5 DEF ProofInv, SpentMarked
  <2>9. ProofsUnspent'
    BY <1>1, <1>3, <2>2, <2>3, <2>6 DEF ProofInv, ProofsUnspent
  <2>10. \A t \in Slot : slots[t] # Free => slots[t].nonce \in 1..issued
    BY <2>0, SlotKinds DEF ProofInv, TagsPending, ProofsUnspent
  <2>11. ~Spent(issued + 1)
    BY <2>6 DEF Spent, ProofInv, ProofsUnspent
  <2>12. issued + 1 \in 1..(issued + 1)
    BY <2>0
  <2>13. TagsPending'
    <3> SUFFICES ASSUME NEW t \in Slot, slots'[t].op = "issue"
                 PROVE  /\ slots'[t].nonce \in 1..(issued + 1) /\ slots'[t].nonce \notin DOMAIN challenges'
                        /\ \A u \in Slot \ {t} : slots'[u] # Free => slots'[u].nonce # slots'[t].nonce
                        /\ ~Spent(slots'[t].nonce)
      BY <1>3, <2>5 DEF TagsPending
    <3>1. CASE t = s
      <4>1. slots'[t].nonce = issued + 1
        BY <2>2, <2>3, <3>1
      <4>2. issued + 1 \notin DOMAIN challenges'
        BY <2>4, <2>6 DEF ProofInv, ChallengesDrawn
      <4>3. \A u \in Slot \ {t} : slots'[u] # Free => slots'[u].nonce # issued + 1
        BY <2>3, <2>6, <2>10, <3>1, SMTT(30)
      <4> QED BY <4>1, <4>2, <4>3, <2>11, <2>12
    <3>2. CASE t # s
      <4>1. slots'[t] = slots[t] /\ slots[t].op = "issue"
        BY <2>3, <3>2
      <4>2. /\ slots[t].nonce \in 1..issued /\ slots[t].nonce \notin DOMAIN challenges
            /\ \A u \in Slot \ {t} : slots[u] # Free => slots[u].nonce # slots[t].nonce
            /\ ~Spent(slots[t].nonce)
        BY <4>1 DEF ProofInv, TagsPending
      <4>3. slots[t].nonce \in 1..(issued + 1) /\ slots[t].nonce # issued + 1
        BY <4>2, <2>6
      <4> QED BY <4>1, <4>2, <4>3, <2>2, <2>3, <2>4
    <3> QED BY <3>1, <3>2
  <2> QED BY <1>1, <1>3, <2>0, <2>3, <2>7, <2>8, <2>9, <2>13 DEF ProofInv, AdmissionTypeOK
<1> QED BY <1>1, <1>2, <1>3

\* A slot that becomes free takes nothing with it.
LEMMA SlotFreed ==
    ASSUME AdmissionTypeOK, NEW s \in Slot, slots' = [slots EXCEPT ![s] = Free], issued' = issued, clock' = clock
    PROVE  AdmissionTypeOK' /\ slots'[s] = Free /\ Free.op = "free" /\ \A t \in Slot \ {s} : slots'[t] = slots[t]
BY DEF AdmissionTypeOK, SlotType, Free

\* The tagged challenge enters the table.
LEMMA TaggedKeepsProofs ==
    ASSUME AdmissionTypeOK, ProofInv, NEW s \in Slot, ChallengeTagged(s)
    PROVE  AdmissionTypeOK' /\ ProofInv'
<1> DEFINE n == slots[s].nonce
<1>1. /\ slots[s].op = "issue" /\ slots' = [slots EXCEPT ![s] = Free]
      /\ issued' = issued /\ clock' = clock /\ admitted' = admitted
      /\ DOMAIN challenges' = DOMAIN challenges \cup {n}
      /\ challenges'[n] = [client |-> slots[s].client, namespace |-> slots[s].namespace,
                           expires |-> slots[s].expires, used |-> FALSE]
      /\ \A m \in DOMAIN challenges \ {n} : challenges'[m] = challenges[m]
  BY DEF ChallengeTagged, With
<1>2. AdmissionTypeOK' /\ slots'[s] = Free /\ Free.op = "free" /\ \A t \in Slot \ {s} : slots'[t] = slots[t]
  BY <1>1, SlotFreed, Zenon
<1>3. \A m : Spent(m)' <=> Spent(m)
  BY <1>1 DEF Spent
<1>4. /\ n \in 1..issued /\ n \notin DOMAIN challenges /\ ~Spent(n)
      /\ \A t \in Slot \ {s} : slots[t] # Free => slots[t].nonce # n
  BY <1>1 DEF ProofInv, TagsPending
<1> HIDE DEF n
<1>5. challenges'[n] \in ChallengeType
  <2>1. slots[s] \in SlotType
    BY DEF AdmissionTypeOK
  <2> QED BY <1>1, <2>1, SlotKinds DEF ChallengeType
<1>6. ChallengesDrawn'
  BY <1>1, <1>4, <1>5, ZenonT(60) DEF ProofInv, ChallengesDrawn
<1>7. SpentMarked'
  BY <1>1, <1>3, <1>4 DEF ProofInv, SpentMarked
<1>8. ProofsUnspent'
  BY <1>1, <1>2 DEF ProofInv, ProofsUnspent
<1>9. TagsPending'
  <2> SUFFICES ASSUME NEW t \in Slot, slots'[t].op = "issue"
               PROVE  /\ slots'[t].nonce \in 1..issued /\ slots'[t].nonce \notin DOMAIN challenges'
                      /\ \A u \in Slot \ {t} : slots'[u] # Free => slots'[u].nonce # slots'[t].nonce
                      /\ ~Spent(slots'[t].nonce)
    BY <1>1, <1>3 DEF TagsPending
  <2>1. t # s /\ slots'[t] = slots[t] /\ slots[t].op = "issue"
    BY <1>2
  <2>2. slots[t] # Free
    BY <2>1, <1>2, SMTT(30)
  <2>3. /\ slots[t].nonce \in 1..issued /\ slots[t].nonce \notin DOMAIN challenges
        /\ \A u \in Slot \ {t} : slots[u] # Free => slots[u].nonce # slots[t].nonce
        /\ ~Spent(slots[t].nonce)
    BY <2>1 DEF ProofInv, TagsPending
  <2> QED BY <1>1, <1>2, <1>4, <2>1, <2>2, <2>3, SMTT(30)
<1> QED BY <1>2, <1>6, <1>7, <1>8, <1>9 DEF ProofInv

\* A proof is looked at only for a challenge that is in the table and is not
\* marked, hence is not spent.
LEMMA RegisterKeepsProofs ==
    ASSUME AdmissionTypeOK, ProofInv, NEW s \in Slot, NEW c \in Client, NEW ns \in Namespace, NEW n, register(s, c, ns, n)
    PROVE  AdmissionTypeOK' /\ ProofInv'
<1> DEFINE x == [op |-> "verify", client |-> c, namespace |-> ns, nonce |-> n, spent |-> Spent(n)]
<1>1. /\ slots[s] = Free /\ issued' = issued /\ clock' = clock /\ admitted' = admitted
      /\ challenges' = challenges \/ challenges' = Without(challenges, {n})
      /\ \/ slots' = slots
         \/ mode = "proof-of-work" /\ evaluate(c, ns, n) /\ slots' = [slots EXCEPT ![s] = x]
  BY DEF register
<1>2. \A m \in DOMAIN challenges' : m \in DOMAIN challenges /\ challenges'[m] = challenges[m]
  BY <1>1 DEF Without
<1>3. \A m : Spent(m)' <=> Spent(m)
  BY <1>1 DEF Spent
<1>4. ChallengesDrawn'
  BY <1>1, <1>2 DEF ProofInv, ChallengesDrawn
<1>5. SpentMarked'
  BY <1>2, <1>3 DEF ProofInv, SpentMarked
<1>6. CASE slots' = slots
  <2>1. TagsPending'
    BY <1>1, <1>2, <1>3, <1>6 DEF ProofInv, TagsPending
  <2>2. ProofsUnspent'
    BY <1>1, <1>6 DEF ProofInv, ProofsUnspent
  <2> QED BY <1>1, <1>4, <1>5, <1>6, <2>1, <2>2 DEF ProofInv, AdmissionTypeOK
<1>7. CASE mode = "proof-of-work" /\ evaluate(c, ns, n) /\ slots' = [slots EXCEPT ![s] = x]
  <2>1. n \in DOMAIN challenges /\ ~challenges[n].used
    BY <1>7 DEF evaluate, verifyProof
  <2>2. n \in 1..issued /\ Spent(n) = FALSE
    BY <2>1 DEF ProofInv, ChallengesDrawn, SpentMarked, Spent
  <2>3. x \in SlotType /\ x.op = "verify" /\ x.nonce = n /\ x.spent = FALSE
    <3>1. n \in Nat
      BY <2>2 DEF AdmissionTypeOK
    <3>2. x = [op |-> "verify", client |-> c, namespace |-> ns, nonce |-> n, spent |-> FALSE]
      BY <2>2, Zenon
    <3> HIDE DEF x
    <3> QED BY <3>1, <3>2 DEF SlotType
  <2> HIDE DEF x
  <2>4. slots' \in [Slot -> SlotType] /\ slots'[s] = x /\ \A t \in Slot \ {s} : slots'[t] = slots[t]
    BY <1>7, <2>3 DEF AdmissionTypeOK
  <2>5. ProofsUnspent'
    BY <1>1, <2>2, <2>3, <2>4, SMTT(30) DEF ProofInv, ProofsUnspent
  <2>6. TagsPending'
    <3> SUFFICES ASSUME NEW t \in Slot, slots'[t].op = "issue"
                 PROVE  /\ slots'[t].nonce \in 1..issued /\ slots'[t].nonce \notin DOMAIN challenges'
                        /\ \A u \in Slot \ {t} : slots'[u] # Free => slots'[u].nonce # slots'[t].nonce
                        /\ ~Spent(slots'[t].nonce)
      BY <1>1, <1>3 DEF TagsPending
    <3>1. t # s /\ slots'[t] = slots[t] /\ slots[t].op = "issue"
      BY <2>3, <2>4
    <3>2. /\ slots[t].nonce \in 1..issued /\ slots[t].nonce \notin DOMAIN challenges
          /\ \A u \in Slot \ {t} : slots[u] # Free => slots[u].nonce # slots[t].nonce
          /\ ~Spent(slots[t].nonce)
      BY <3>1 DEF ProofInv, TagsPending
    <3> QED BY <1>2, <2>1, <2>3, <2>4, <3>1, <3>2, SMTT(30)
  <2> QED BY <1>1, <1>4, <1>5, <2>4, <2>5, <2>6 DEF ProofInv, AdmissionTypeOK
<1> QED BY <1>1, <1>6, <1>7, SMTT(30)

\* The proof that is found good marks its challenge, if that is still in the
\* table, and otherwise the nonce never returns to it.
LEMMA SettledKeepsProofs ==
    ASSUME AdmissionTypeOK, ProofInv, NEW s \in Slot, ProofSettles(s)
    PROVE  AdmissionTypeOK' /\ ProofInv'
<1> DEFINE n == slots[s].nonce
<1>1. /\ slots[s].op = "verify" /\ slots' = [slots EXCEPT ![s] = Free] /\ issued' = issued /\ clock' = clock
      /\ \/ challenges' = challenges /\ admitted' = admitted
         \/ /\ challenges' = IF n \in DOMAIN challenges THEN [challenges EXCEPT ![n].used = TRUE] ELSE challenges
            /\ admitted' = admitted \cup {[nonce |-> n, spent |-> slots[s].spent]}
  BY DEF ProofSettles
<1>2. AdmissionTypeOK' /\ slots'[s] = Free /\ Free.op = "free" /\ \A t \in Slot \ {s} : slots'[t] = slots[t]
  BY <1>1, SlotFreed, Zenon
<1>3. n \in 1..issued /\ ~slots[s].spent
  BY <1>1 DEF ProofInv, ProofsUnspent
<1>4. /\ DOMAIN challenges' = DOMAIN challenges
      /\ \A m \in DOMAIN challenges : challenges'[m] \in ChallengeType /\ (challenges[m].used => challenges'[m].used)
      /\ admitted' # admitted /\ n \in DOMAIN challenges => challenges'[n].used
  <2>1. \A m \in DOMAIN challenges : challenges[m] \in ChallengeType
    BY DEF ProofInv, ChallengesDrawn
  <2> HIDE DEF n
  <2> QED BY <1>1, <2>1, ZenonT(60) DEF ChallengeType
<1>5. /\ \A a \in admitted' : Spent(a.nonce) \/ (a.nonce = n /\ admitted' # admitted)
      /\ \A m : Spent(m)' => Spent(m) \/ (m = n /\ admitted' # admitted)
  BY <1>1 DEF Spent
<1>6. slots[s] # Free
  BY <1>1, <1>2
<1> HIDE DEF n
<1>7. ChallengesDrawn'
  BY <1>1, <1>4 DEF ProofInv, ChallengesDrawn
<1>8. SpentMarked'
  BY <1>4, <1>5 DEF ProofInv, SpentMarked
<1>9. ProofsUnspent'
  <2>1. \A a \in admitted' : a \in admitted \/ a = [nonce |-> n, spent |-> slots[s].spent]
    BY <1>1
  <2>2. \A a \in admitted' : a.nonce \in 1..issued /\ ~a.spent
    BY <1>3, <2>1 DEF ProofInv, ProofsUnspent
  <2> QED BY <1>1, <1>2, <2>2 DEF ProofInv, ProofsUnspent
<1>10. TagsPending'
  <2> SUFFICES ASSUME NEW t \in Slot, slots'[t].op = "issue"
               PROVE  /\ slots'[t].nonce \in 1..issued /\ slots'[t].nonce \notin DOMAIN challenges'
                      /\ \A u \in Slot \ {t} : slots'[u] # Free => slots'[u].nonce # slots'[t].nonce
                      /\ \A a \in admitted' : a.nonce # slots'[t].nonce
    BY <1>1 DEF TagsPending, Spent
  <2>1. t # s /\ slots'[t] = slots[t] /\ slots[t].op = "issue"
    BY <1>2
  <2>2. /\ slots[t].nonce \in 1..issued /\ slots[t].nonce \notin DOMAIN challenges
        /\ \A u \in Slot \ {t} : slots[u] # Free => slots[u].nonce # slots[t].nonce
        /\ ~Spent(slots[t].nonce)
    BY <2>1 DEF ProofInv, TagsPending
  <2>3. slots[t].nonce # n
    BY <1>6, <2>1, <2>2 DEF n
  <2> QED BY <1>2, <1>4, <1>5, <2>1, <2>2, <2>3
<1> QED BY <1>2, <1>7, <1>8, <1>9, <1>10 DEF ProofInv

\* What touches neither challenges nor admissions keeps what is known of them.
LEMMA ProofsFramed ==
    ASSUME ProofInv, challenges' = challenges, issued' = issued, slots' = slots, admitted' = admitted
    PROVE  ProofInv'
BY DEF ProofInv, ChallengesDrawn, SpentMarked, TagsPending, ProofsUnspent, Spent

\* The invariant gives the two promises: the windows' limits and their
\* distance the first, the admissions' record the second.
LEMMA FairFromInvariant ==
    ASSUME AdmissionInv
    PROVE  AdmissionIsFair
<1>1. SpentProofRefused
  BY DEF AdmissionInv, ProofInv, ProofsUnspent, SpentProofRefused
<1>2. ServedBounded
  <2> SUFFICES ASSUME NEW c \in Client, NEW t \in 0..MaxTime
               PROVE  LET within == {v \in served : v.client = c /\ v.at \in t..(t + Window - 1)}
                      IN /\ Cardinality(within) <= 2 * MaxRequests
                         /\ \A ns \in Namespace : Cardinality({v \in within : v.namespace = ns}) <= 2 * MaxPerNamespace
    BY DEF ServedBounded
  <2> DEFINE within == {v \in served : v.client = c /\ v.at \in t..(t + Window - 1)}
             part(ns) == {v \in within : v.namespace = ns}
  <2>1. /\ IsFiniteSet(served) /\ WindowsApart(served) /\ WindowsLimited(served)
        /\ \A v \in served : v.since \in Nat /\ v.at \in Nat /\ v.since <= v.at /\ v.at < v.since + Window
    BY DEF AdmissionInv, WindowInv, RequestsPlaced
  <2>2. t \in Nat
    BY LimitsAssumption
  <2>3. IsFiniteSet(within)
    BY <2>1, Fewer
  <2>4. \A v \in within : v \in served /\ v.client = c /\ t <= v.at /\ v.at < t + Window
    BY <2>1, <2>2, LimitsAssumption
  <2>5. \A v, w \in within : Apart(v.since, w.since)
    BY <2>1 DEF WindowsApart
  <2>6. ASSUME NEW start \in Nat PROVE Cardinality({v \in within : v.since = start}) <= MaxRequests
    <3>1. {v \in within : v.since = start} \in SUBSET InWindow(served, c, start)
      BY DEF InWindow
    <3>2. IsFiniteSet(InWindow(served, c, start))
      BY <2>1, Fewer DEF InWindow
    <3>3. Cardinality(InWindow(served, c, start)) <= MaxRequests
      BY <2>1 DEF WindowsLimited
    <3> HIDE DEF within
    <3>4. /\ Cardinality({v \in within : v.since = start}) <= Cardinality(InWindow(served, c, start))
          /\ Cardinality({v \in within : v.since = start}) \in Nat /\ Cardinality(InWindow(served, c, start)) \in Nat
      BY <3>1, <3>2, Fewer
    <3> DEFINE a == Cardinality({v \in within : v.since = start})
               b == Cardinality(InWindow(served, c, start))
    <3>5. a <= b /\ a \in Nat /\ b \in Nat /\ b <= MaxRequests
      BY <3>3, <3>4
    <3> HIDE DEF a, b
    <3>6. a <= MaxRequests
      BY <3>5, LimitsAssumption
    <3> QED BY <3>6 DEF a
  <2>7. ASSUME NEW ns \in Namespace, NEW start \in Nat
        PROVE  Cardinality({v \in part(ns) : v.since = start}) <= MaxPerNamespace
    <3>1. {v \in part(ns) : v.since = start} \in SUBSET InSpace(served, c, start, ns)
      BY DEF InSpace
    <3>2. IsFiniteSet(InSpace(served, c, start, ns))
      BY <2>1, Fewer DEF InSpace
    <3>3. Cardinality(InSpace(served, c, start, ns)) <= MaxPerNamespace
      BY <2>1 DEF WindowsLimited
    <3> HIDE DEF part
    <3>4. /\ Cardinality({v \in part(ns) : v.since = start}) <= Cardinality(InSpace(served, c, start, ns))
          /\ Cardinality({v \in part(ns) : v.since = start}) \in Nat /\ Cardinality(InSpace(served, c, start, ns)) \in Nat
      BY <3>1, <3>2, Fewer
    <3> DEFINE a == Cardinality({v \in part(ns) : v.since = start})
               b == Cardinality(InSpace(served, c, start, ns))
    <3>5. a <= b /\ a \in Nat /\ b \in Nat /\ b <= MaxPerNamespace
      BY <3>3, <3>4
    <3> HIDE DEF a, b
    <3>6. a <= MaxPerNamespace
      BY <3>5, LimitsAssumption
    <3> QED BY <3>6 DEF a
  <2>8. ASSUME NEW ns \in Namespace PROVE IsFiniteSet(part(ns)) /\ \A v \in part(ns) : v \in within
    BY <2>3, Fewer
  <2> HIDE DEF within, part
  <2>9. Cardinality(within) <= 2 * MaxRequests
    BY <2>1, <2>2, <2>3, <2>4, <2>5, <2>6, LimitsAssumption, TwoWindows
  <2>10. ASSUME NEW ns \in Namespace PROVE Cardinality(part(ns)) <= 2 * MaxPerNamespace
    BY <2>1, <2>2, <2>4, <2>5, <2>7, <2>8, LimitsAssumption, TwoWindows
  <2> QED BY <2>9, <2>10 DEF within, part
<1> QED BY <1>1, <1>2 DEF AdmissionIsFair

\* However calls, clock ticks, sweeps and the awaits of proofs interleave,
\* and for any limits, clients and namespaces: a client is served at most
\* twice its allowance within any span as long as a window, and a challenge
\* that has admitted a registration admits none that is read after that
\* (#consumeRequest and AdmissionPolicy).
THEOREM AlwaysAdmissionIsFair == AdmissionSpec => []AdmissionIsFair
<1>1. AdmissionInit => AdmissionInv
  <2> SUFFICES ASSUME AdmissionInit PROVE AdmissionInv
    OBVIOUS
  <2>1. /\ clock = 0 /\ DOMAIN windows = {} /\ DOMAIN challenges = {} /\ issued = 0
        /\ slots = [s \in Slot |-> Free] /\ served = {} /\ admitted = {}
    BY SMTT(30) DEF AdmissionInit
  <2>2. AdmissionTypeOK /\ \A s \in Slot : slots[s].op = "free"
    BY <2>1 DEF AdmissionTypeOK, SlotType, Free
  <2>3. ProofInv
    BY <2>1, <2>2 DEF ProofInv, ChallengesDrawn, SpentMarked, TagsPending, ProofsUnspent
  <2>4. RequestsPlaced(windows, served) /\ WindowsApart(served) /\ WindowsCount(windows, served)
    BY <2>1, FS_EmptySet DEF RequestsPlaced, WindowsApart, WindowsCount
  <2>5. WindowsLimited(served)
    <3>1. \A c \in Client, start \in Nat : InWindow(served, c, start) = {}
      BY <2>1 DEF InWindow
    <3>2. \A c \in Client, start \in Nat, ns \in Namespace : InSpace(served, c, start, ns) = {}
      BY <2>1 DEF InSpace
    <3> QED BY <3>1, <3>2, FS_EmptySet, LimitsAssumption DEF WindowsLimited
  <2> QED BY <2>2, <2>3, <2>4, <2>5 DEF AdmissionInv, WindowInv
<1>2. AdmissionInv /\ [AdmissionNext]_admissionVars => AdmissionInv'
  <2> SUFFICES ASSUME AdmissionInv, [AdmissionNext]_admissionVars PROVE AdmissionInv'
    OBVIOUS
  <2>0. AdmissionTypeOK /\ ProofInv /\ WindowInv(windows, served) /\ clock \in Nat
    BY SMTT(30) DEF AdmissionInv, AdmissionTypeOK
  <2>1. ASSUME windows' = windows, served' = served, clock' = clock PROVE WindowInv(windows, served)'
    BY <2>0, <2>1 DEF WindowInv, RequestsPlaced, WindowsApart, WindowsLimited, WindowsCount, InWindow, InSpace
  <2>2. CASE Tick
    <3>1. ProofInv' /\ AdmissionTypeOK'
      BY <2>0, <2>2, ProofsFramed DEF Tick, AdmissionTypeOK
    <3> QED BY <2>0, <2>2, <3>1, TickKeepsWindows DEF AdmissionInv
  <2>3. ASSUME NEW c \in Client, NEW ns \in Namespace, discover(c, ns) PROVE AdmissionInv'
    <3>1. ProofInv' /\ AdmissionTypeOK'
      BY <2>0, <2>3, ProofsFramed DEF discover, AdmissionTypeOK
    <3>2. Request(c, ns) /\ clock' = clock
      BY <2>3 DEF discover
    <3> QED BY <2>0, <3>1, <3>2, RequestKeepsWindows DEF AdmissionInv
  <2>4. ASSUME NEW s \in Slot, NEW c \in Client, NEW ns \in Namespace, issueChallenge(s, c, ns) PROVE AdmissionInv'
    <3>1. windows' = windows /\ served' = served /\ clock' = clock
      BY <2>4 DEF issueChallenge
    <3> QED BY <2>0, <2>1, <2>4, <3>1, IssueKeepsProofs DEF AdmissionInv
  <2>5. ASSUME NEW s \in Slot, NEW c \in Client, NEW ns \in Namespace, NEW n, register(s, c, ns, n) PROVE AdmissionInv'
    <3>1. Request(c, ns) /\ clock' = clock
      BY <2>5 DEF register
    <3>2. WindowInv(windows, served)'
      BY <2>0, <3>1, RequestKeepsWindows
    <3> QED BY <2>0, <2>5, <3>2, RegisterKeepsProofs, SMTT(30) DEF AdmissionInv
  <2>6. ASSUME NEW s \in Slot, ChallengeTagged(s) PROVE AdmissionInv'
    <3>1. windows' = windows /\ served' = served /\ clock' = clock
      BY <2>6 DEF ChallengeTagged
    <3> QED BY <2>0, <2>1, <2>6, <3>1, TaggedKeepsProofs DEF AdmissionInv
  <2>7. ASSUME NEW s \in Slot, ProofSettles(s) PROVE AdmissionInv'
    <3>1. windows' = windows /\ served' = served /\ clock' = clock
      BY <2>7 DEF ProofSettles
    <3> QED BY <2>0, <2>1, <2>7, <3>1, SettledKeepsProofs DEF AdmissionInv
  <2>8. CASE UNCHANGED admissionVars
    <3>1. ProofInv' /\ AdmissionTypeOK'
      BY <2>0, <2>8, ProofsFramed DEF admissionVars, AdmissionTypeOK
    <3> QED BY <2>1, <2>8, <3>1 DEF AdmissionInv, admissionVars
  <2> QED BY <2>2, <2>3, <2>4, <2>5, <2>6, <2>7, <2>8 DEF AdmissionNext
<1>3. AdmissionInv => AdmissionIsFair
  BY FairFromInvariant
<1> QED BY <1>1, <1>2, <1>3, PTL DEF AdmissionSpec
=============================================================================
