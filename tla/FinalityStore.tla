--------------------------- MODULE FinalityStore ---------------------------
(***************************************************************************)
(* The finality stores of the replicas of one object                       *)
(* (packages/object/src/finality) and the attestations they exchange       *)
(* (packages/node/src/handlers.ts).                                        *)
(*                                                                         *)
(* A BLS signature is abstracted to what verification can tell apart: how  *)
(* often each signer's share was added into the aggregate, and whether a   *)
(* share made with another key than the credentialled one was added.  The  *)
(* network only ever grows: a message may be lost (never delivered),       *)
(* delayed, duplicated and reordered.                                      *)
(***************************************************************************)
EXTENDS Integers, FiniteSets

CONSTANTS
    Peer,         \* peers that may be finality signers
    Replica,      \* peers that hold a replica of the object
    Hash,         \* vertex hashes
    Signers,      \* Signers[h]: finality signers in the ACL of vertex h
    Credentials,  \* Credentials[h]: signers whose BLS key that ACL knows
    Rotated,      \* Rotated[h]: peers now holding another BLS key than at h
    ThresholdPct  \* finalityThreshold, in percent

ASSUME PeerAssumption == IsFiniteSet(Peer) /\ Replica \subseteq Peer
ASSUME SignersAssumption ==
    /\ Signers \in [Hash -> SUBSET Peer]
    /\ Credentials \in [Hash -> SUBSET Peer]
    /\ Rotated \in [Hash -> SUBSET Peer]
    /\ \A h \in Hash : Credentials[h] \subseteq Signers[h]
ASSUME ThresholdAssumption == ThresholdPct \in 51 .. 100

VARIABLES
    states,              \* states[r]: hashes with a FinalityState at r
    aggregation_bits,    \* aggregation_bits[r][h]: signers marked as signed
    signature,           \* signature[r][h]: shares in the aggregate
    tainted,             \* tainted[r][h]: a share of an uncredentialled key
    numberOfSignatures,  \* numberOfSignatures[r][h]: the cached count
    attestations,        \* Attestation messages broadcast so far
    aggregates           \* AggregatedAttestation messages sent so far

store == <<aggregation_bits, signature, tainted, numberOfSignatures>>
vars == <<states, store, attestations, aggregates>>

Attestation == [peerId : Peer, data : Hash, matches : BOOLEAN]
AggregatedAttestation ==
    [data : Hash, bits : SUBSET Peer, shares : [Peer -> Nat], tainted : BOOLEAN]

NoShares == [p \in Peer |-> 0]
ShareOf(p) == [q \in Peer |-> IF q = p THEN 1 ELSE 0]
SharesOf(S) == [q \in Peer |-> IF q \in S THEN 1 ELSE 0]
Aggregate(f, g) == [q \in Peer |-> f[q] + g[q]]

(* this.signature is set once something was added *)
HasSignature(r, h) == signature[r][h] # NoShares \/ tainted[r][h]

TypeOK ==
    /\ states \in [Replica -> SUBSET Hash]
    /\ aggregation_bits \in [Replica -> [Hash -> SUBSET Peer]]
    /\ signature \in [Replica -> [Hash -> [Peer -> Nat]]]
    /\ tainted \in [Replica -> [Hash -> BOOLEAN]]
    /\ numberOfSignatures \in [Replica -> [Hash -> Nat]]
    /\ attestations \subseteq Attestation
    /\ aggregates \subseteq AggregatedAttestation

Init ==
    /\ states = [r \in Replica |-> {}]
    /\ aggregation_bits = [r \in Replica |-> [h \in Hash |-> {}]]
    /\ signature = [r \in Replica |-> [h \in Hash |-> NoShares]]
    /\ tainted = [r \in Replica |-> [h \in Hash |-> FALSE]]
    /\ numberOfSignatures = [r \in Replica |-> [h \in Hash |-> 0]]
    /\ attestations = {}
    /\ aggregates = {}

-----------------------------------------------------------------------------
(* initializeState: the first application of a vertex creates its state,  *)
(* a later one leaves it alone.                                           *)
initializeState(r, h) ==
    /\ h \notin states[r]
    /\ states' = [states EXCEPT ![r] = @ \cup {h}]
    /\ UNCHANGED <<store, attestations, aggregates>>

(* FinalityState.addSignature once it no longer throws or returns early.  *)
RecordSignature(r, h, p, matches) ==
    /\ aggregation_bits' = [aggregation_bits EXCEPT ![r][h] = @ \cup {p}]
    /\ signature' = [signature EXCEPT
                        ![r][h] = IF matches THEN Aggregate(@, ShareOf(p)) ELSE @]
    /\ tainted' = [tainted EXCEPT ![r][h] = @ \/ ~matches]
    /\ numberOfSignatures' = [numberOfSignatures EXCEPT ![r][h] = @ + 1]

(* The guards of addSignature that do not depend on the signature.        *)
MayAddSignature(r, h, p) ==
    /\ h \in states[r]
    /\ p \in Signers[h]
    /\ p \in Credentials[h]
    /\ p \notin aggregation_bits[r][h]

(* signFinalityVertices: generateAttestations signs what r can sign and   *)
(* has not signed, addSignatures records it unverified, and the added     *)
(* attestations are broadcast.                                            *)
signFinalityVertices(r, h) ==
    LET matches == r \notin Rotated[h] IN
    /\ MayAddSignature(r, h, r)
    /\ RecordSignature(r, h, r, matches)
    /\ attestations' = attestations \cup
            {[peerId |-> r, data |-> h, matches |-> matches]}
    /\ UNCHANGED <<states, aggregates>>

(* Mutant: a received attestation is not verified. *)
addSignaturesMutant(r, m) ==
    /\ MayAddSignature(r, m.data, m.peerId)
    /\ RecordSignature(r, m.data, m.peerId, m.matches)
    /\ UNCHANGED <<states, attestations, aggregates>>

(* attestationUpdateHandler and updateHandler: addSignatures with         *)
(* verification.  The live-ACL gate on the sender may drop any message,   *)
(* which is the same as losing it.                                        *)
addSignatures(r, m) ==
    /\ MayAddSignature(r, m.data, m.peerId)
    /\ m.matches
    /\ RecordSignature(r, m.data, m.peerId, m.matches)
    /\ UNCHANGED <<states, attestations, aggregates>>

(* getAttestation, sent with the vertices of a SYNC_ACCEPT.               *)
getAttestation(r, h) ==
    /\ h \in states[r]
    /\ HasSignature(r, h)
    /\ aggregates' = aggregates \cup
            {[data |-> h, bits |-> aggregation_bits[r][h],
              shares |-> signature[r][h], tainted |-> tainted[r][h]]}
    /\ UNCHANGED <<states, store, attestations>>

(* bls.verifyAggregate over the credentials of the marked signers.        *)
VerifyAggregate(h, bits, shares, taint) ==
    /\ bits # {}
    /\ bits \subseteq Credentials[h]
    /\ shares = SharesOf(bits)
    /\ ~taint

(* The two ways FinalityState.merge changes the state.                  *)
AdoptAggregate(r, h, bits, shares) ==
    /\ aggregation_bits' = [aggregation_bits EXCEPT ![r][h] = bits]
    /\ signature' = [signature EXCEPT ![r][h] = shares]
    /\ tainted' = [tainted EXCEPT ![r][h] = FALSE]
    /\ numberOfSignatures' = [numberOfSignatures EXCEPT ![r][h] = Cardinality(bits)]

UniteAggregate(r, h, bits, shares) ==
    /\ aggregation_bits' = [aggregation_bits EXCEPT ![r][h] = @ \cup bits]
    /\ signature' = [signature EXCEPT ![r][h] = Aggregate(@, shares)]
    /\ numberOfSignatures' =
            [numberOfSignatures EXCEPT ![r][h] = @ + Cardinality(bits)]
    /\ UNCHANGED tainted

(* Mutant: the latest aggregate wins. *)
SupersedesMutant(bits, old, oldCount) == TRUE

(* A verified aggregate replaces an overlapping one when it covers it, or *)
(* when it has more signers.                                              *)
Supersedes(bits, old, oldCount) ==
    LET overlap == Cardinality(old \cap bits) IN
    \/ overlap = oldCount
    \/ overlap < Cardinality(bits) /\ Cardinality(bits) > oldCount

mergeSignatures(r, m) ==
    LET h == m.data
        bits == m.bits \cap Signers[h]
        old == aggregation_bits[r][h]
    IN  /\ h \in states[r]
        /\ VerifyAggregate(h, bits, m.shares, m.tainted)
        /\ \/ ~HasSignature(r, h) /\ AdoptAggregate(r, h, bits, m.shares)
           \/ /\ HasSignature(r, h)
              /\ old \cap bits = {}
              /\ UniteAggregate(r, h, bits, m.shares)
           \/ /\ HasSignature(r, h)
              /\ old \cap bits # {}
              /\ Supersedes(bits, old, numberOfSignatures[r][h])
              /\ AdoptAggregate(r, h, bits, m.shares)
        /\ UNCHANGED <<states, attestations, aggregates>>

Next ==
    \E r \in Replica :
        \/ \E h \in Hash : \/ initializeState(r, h)
                           \/ signFinalityVertices(r, h)
                           \/ getAttestation(r, h)
        \/ \E m \in attestations : addSignatures(r, m)
        \/ \E m \in aggregates : mergeSignatures(r, m)

Spec == Init /\ [][Next]_vars

-----------------------------------------------------------------------------
(* Mutant: Math.floor(n * finalityThreshold) *)
getQuorumMutant(h) == (Cardinality(Signers[h]) * ThresholdPct) \div 100

(* Math.ceil(n * finalityThreshold) *)
getQuorum(h) == (Cardinality(Signers[h]) * ThresholdPct + 99) \div 100

isFinalized(r, h) ==
    h \in states[r] /\ numberOfSignatures[r][h] >= getQuorum(h)

(* numberOfSignatures is a cache of the number of bits set, kept by hand   *)
(* in addSignature and in the three branches of merge: no overlap, retry   *)
(* or duplicate delivery makes it count a signer twice.                    *)
CountIsPopcount ==
    \A r \in Replica, h \in Hash :
        numberOfSignatures[r][h] = Cardinality(aggregation_bits[r][h])

(* What a replica whose BLS key did not change would answer to a SYNC, its *)
(* aggregate with its bits, verifies at the receiver.  In particular the   *)
(* unverified signature a rotated peer adds to its own state never spreads *)
(* into the aggregate of another replica.                                  *)
AggregateVerifies ==
    \A h \in Hash : \A r \in Replica \ Rotated[h] :
        HasSignature(r, h) =>
            VerifyAggregate(h, aggregation_bits[r][h], signature[r][h], tainted[r][h])

(* Every signer a replica counts has attested the vertex, with the key the *)
(* vertex's ACL knows unless the replica itself signed with a rotated key. *)
EverySignerAttested ==
    \A r \in Replica, h \in Hash : \A p \in aggregation_bits[r][h] :
        /\ p \in Credentials[h]
        /\ [peerId |-> p, data |-> h, matches |-> p \notin Rotated[h]] \in attestations
        /\ p \in Rotated[h] => p = r

(* Two replicas that consider a vertex final have a signer in common.      *)
FinalizedShareSigner ==
    \A r, s \in Replica, h \in Hash :
        isFinalized(r, h) /\ isFinalized(s, h) /\ Signers[h] # {} =>
            aggregation_bits[r][h] \cap aggregation_bits[s][h] # {}

(* Adopting a remote aggregate may forget a local signer, but never lowers *)
(* the count, so a vertex that is final at a replica stays final there.    *)
SignaturesNeverDrop ==
    [][\A r \in Replica, h \in Hash :
        /\ numberOfSignatures'[r][h] >= numberOfSignatures[r][h]
        /\ isFinalized(r, h) => isFinalized(r, h)']_vars
=============================================================================
