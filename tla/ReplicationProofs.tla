------------------------- MODULE ReplicationProofs -------------------------
(***************************************************************************)
(* Proofs about FinalityStore, for any number of peers, replicas, vertices *)
(* and any threshold of at least 51 percent; and about SyncProtocol, for   *)
(* any number of nodes, vertices and retries and whatever the network      *)
(* loses or reorders.  The two are proved one after the other; neither     *)
(* reads the state of the other.                                           *)
(*                                                                         *)
(* The safety invariants of FinalityStore are not inductive alone: that a  *)
(* count is right after a merge depends on what the merged aggregate may   *)
(* contain, so the inductive invariant IInv also says, of every state and  *)
(* of every aggregate on the network, which shares its signature is made   *)
(* of.                                                                     *)
(***************************************************************************)
EXTENDS FinalityStore, SyncProtocol, FiniteSetTheorems, TLAPS

(* A signature consists of one share of every marked signer, except the    *)
(* ones whose key has rotated: their presence taints it.                   *)
Consistent(h, bits, shares, taint) ==
    /\ shares = SharesOf(bits \ Rotated[h])
    /\ taint = (bits \cap Rotated[h] # {})

StoresConsistent ==
    \A r \in Replica, h \in Hash :
        Consistent(h, aggregation_bits[r][h], signature[r][h], tainted[r][h])

AttestedIn(p, h) ==
    /\ p \in Credentials[h]
    /\ [peerId |-> p, data |-> h, matches |-> p \notin Rotated[h]] \in attestations

AggregatesSound ==
    \A m \in aggregates :
        /\ Consistent(m.data, m.bits, m.shares, m.tainted)
        /\ \A p \in m.bits : AttestedIn(p, m.data)

AttestationsHonest ==
    \A m \in attestations : m.matches = (m.peerId \notin Rotated[m.data])

IInv ==
    /\ TypeOK
    /\ CountIsPopcount
    /\ EverySignerAttested
    /\ StoresConsistent
    /\ AggregatesSound
    /\ AttestationsHonest
-----------------------------------------------------------------------------
(* Any set of peers is finite and its size is a natural number. *)
LEMMA BitsFinite ==
    ASSUME NEW S \in SUBSET Peer
    PROVE  IsFiniteSet(S) /\ Cardinality(S) \in Nat
BY FS_Subset, FS_CardinalityType, PeerAssumption

(* Adding the share of a signer that is not in the aggregate gives the     *)
(* aggregate of the enlarged set, and so does adding disjoint aggregates.  *)
LEMMA AggregateShare ==
    ASSUME NEW S \in SUBSET Peer, NEW p \in Peer, p \notin S
    PROVE  Aggregate(SharesOf(S), ShareOf(p)) = SharesOf(S \cup {p})
BY DEF Aggregate, SharesOf, ShareOf

LEMMA AggregateDisjoint ==
    ASSUME NEW S \in SUBSET Peer, NEW T \in SUBSET Peer, S \cap T = {}
    PROVE  Aggregate(SharesOf(S), SharesOf(T)) = SharesOf(S \cup T)
BY DEF Aggregate, SharesOf

(* this.signature is set exactly when some signer is marked. *)
LEMMA HasSignatureIffBits ==
    ASSUME TypeOK, StoresConsistent, NEW r \in Replica, NEW h \in Hash
    PROVE  HasSignature(r, h) <=> aggregation_bits[r][h] # {}
<1> DEFINE B == aggregation_bits[r][h]
<1>1. B \in SUBSET Peer
  BY DEF TypeOK
<1>2. Consistent(h, B, signature[r][h], tainted[r][h])
  BY DEF StoresConsistent
<1>3. CASE B \cap Rotated[h] # {}
  BY <1>2, <1>3, Zenon DEF Consistent, HasSignature
<1>4. CASE B \cap Rotated[h] = {}
  <2>1. signature[r][h] = SharesOf(B) /\ ~tainted[r][h]
    <3>1. B \ Rotated[h] = B
      BY <1>4
    <3> QED  BY <3>1, <1>2, <1>4, Zenon DEF Consistent
  <2>2. SharesOf(B) = NoShares <=> B = {}
    <3>1. ASSUME NEW p \in B  PROVE SharesOf(B) # NoShares
      <4>1. SharesOf(B)[p] = 1 /\ NoShares[p] = 0
        BY <1>1 DEF SharesOf, NoShares
      <4> QED  BY <4>1
    <3>2. B = {} => SharesOf(B) = NoShares
      BY DEF SharesOf, NoShares
    <3> QED  BY <3>1, <3>2
  <2> QED  BY <2>1, <2>2 DEF HasSignature
<1> QED  BY <1>3, <1>4

(* A verified aggregate is made by credentialled signers with their        *)
(* credentialled keys, and all of them attested.                           *)
LEMMA VerifiedAggregate ==
    ASSUME IInv, NEW m \in aggregates,
           VerifyAggregate(m.data, m.bits \cap Signers[m.data], m.shares, m.tainted)
    PROVE  /\ m.data \in Hash
           /\ m.bits \in SUBSET Peer
           /\ m.bits \cap Signers[m.data] = m.bits
           /\ m.bits \cap Rotated[m.data] = {}
           /\ m.shares = SharesOf(m.bits)
           /\ m.bits # {}
           /\ \A p \in m.bits : AttestedIn(p, m.data)
<1>1. m.data \in Hash /\ m.bits \in SUBSET Peer
  BY DEF IInv, TypeOK, AggregatedAttestation
<1>2. Consistent(m.data, m.bits, m.shares, m.tainted) /\ \A p \in m.bits : AttestedIn(p, m.data)
  BY DEF IInv, AggregatesSound
<1>3. m.bits \subseteq Signers[m.data]
  BY <1>1, <1>2, SignersAssumption, Zenon DEF AttestedIn
<1>4. m.bits \cap Signers[m.data] = m.bits
  BY <1>3
<1>5. m.bits \cap Rotated[m.data] = {}
  BY <1>2, Zenon DEF Consistent, VerifyAggregate
<1> QED  BY <1>1, <1>2, <1>4, <1>5 DEF VerifyAggregate
-----------------------------------------------------------------------------
LEMMA InitEstablishes == Init => IInv
<1> SUFFICES ASSUME Init PROVE IInv
  OBVIOUS
<1>1. TypeOK
  BY DEF Init, TypeOK, NoShares
<1>2. CountIsPopcount
  BY FS_EmptySet DEF Init, CountIsPopcount
<1>3. EverySignerAttested /\ AggregatesSound /\ AttestationsHonest
  BY DEF Init, EverySignerAttested, AggregatesSound, AttestationsHonest
<1>4. StoresConsistent
  BY Zenon DEF Init, StoresConsistent, Consistent, SharesOf, NoShares
<1> QED  BY <1>1, <1>2, <1>3, <1>4 DEF IInv

(* The state of vertex h at r becomes the one with signers B. *)
StateBecomes(r, h, B) ==
    /\ aggregation_bits' = [aggregation_bits EXCEPT ![r][h] = B]
    /\ signature' = [signature EXCEPT ![r][h] = SharesOf(B \ Rotated[h])]
    /\ tainted' = [tainted EXCEPT ![r][h] = (B \cap Rotated[h] # {})]
    /\ numberOfSignatures' = [numberOfSignatures EXCEPT ![r][h] = Cardinality(B)]

(* A step that changes the state of one vertex at one replica to one with  *)
(* signers that have attested preserves IInv.                              *)
LEMMA StateUpdate ==
    ASSUME IInv, NEW r \in Replica, NEW h \in Hash,
           NEW B \in SUBSET Peer, StateBecomes(r, h, B),
           states' = states, aggregates' = aggregates,
           attestations \subseteq attestations',
           attestations' \subseteq Attestation, AttestationsHonest',
           \A p \in B : /\ AttestedIn(p, h)'
                        /\ p \in Rotated[h] => p = r
    PROVE  IInv'
<1>1. TypeOK'
  <2>1. SharesOf(B \ Rotated[h]) \in [Peer -> Nat] /\ Cardinality(B) \in Nat
    BY BitsFinite DEF SharesOf
  <2> QED  BY <2>1, Zenon DEF IInv, TypeOK, StateBecomes
<1>2. CountIsPopcount'
  BY DEF IInv, TypeOK, CountIsPopcount, StateBecomes
<1>3. EverySignerAttested'
  BY DEF IInv, TypeOK, EverySignerAttested, AttestedIn, StateBecomes
<1>4. StoresConsistent'
  BY Zenon DEF IInv, TypeOK, StoresConsistent, Consistent, StateBecomes
<1>5. AggregatesSound'
  BY DEF IInv, AggregatesSound, AttestedIn
<1> QED  BY <1>1, <1>2, <1>3, <1>4, <1>5 DEF IInv

(* addSignature adds one signer's share: the node's own, unverified, or    *)
(* another's, verified.                                                    *)
LEMMA RecordStep ==
    ASSUME IInv, NEW r \in Replica, NEW h \in Hash, NEW p \in Peer,
           MayAddSignature(r, h, p),
           RecordSignature(r, h, p, p \notin Rotated[h]),
           p \in Rotated[h] => p = r,
           states' = states, aggregates' = aggregates,
           attestations \subseteq attestations',
           attestations' \subseteq Attestation, AttestationsHonest',
           AttestedIn(p, h)'
    PROVE  IInv'
<1>0. PICK old, B : old = aggregation_bits[r][h] /\ B = old \cup {p}
  BY Zenon
<1>1. old \in SUBSET Peer /\ B \in SUBSET Peer /\ p \notin old
  BY <1>0 DEF IInv, TypeOK, MayAddSignature
<1>2. numberOfSignatures[r][h] + 1 = Cardinality(B)
  <2>1. numberOfSignatures[r][h] = Cardinality(old)
    BY <1>0 DEF IInv, CountIsPopcount
  <2> QED  BY <1>0, <1>1, <2>1, BitsFinite, FS_AddElement
<1>3. /\ signature[r][h] = SharesOf(old \ Rotated[h])
      /\ tainted[r][h] = (old \cap Rotated[h] # {})
  BY <1>0 DEF IInv, StoresConsistent, Consistent
<1>4. \A q \in B : AttestedIn(q, h)' /\ (q \in Rotated[h] => q = r)
  BY <1>0 DEF IInv, EverySignerAttested, AttestedIn
<1>5. StateBecomes(r, h, B)
  <2>1. CASE p \in Rotated[h]
    <3>1. B \ Rotated[h] = old \ Rotated[h] /\ B \cap Rotated[h] # {}
      BY <1>0, <2>1
    <3> QED  BY <1>0, <1>2, <1>3, <2>1, <3>1, Zenon DEF RecordSignature, StateBecomes, IInv, TypeOK
  <2>2. CASE p \notin Rotated[h]
    <3>1. B \ Rotated[h] = (old \ Rotated[h]) \cup {p} /\ B \cap Rotated[h] = old \cap Rotated[h]
      BY <1>0, <2>2
    <3>2. Aggregate(signature[r][h], ShareOf(p)) = SharesOf(B \ Rotated[h])
      BY <1>1, <1>3, <3>1, AggregateShare
    <3> QED  BY <1>0, <1>2, <1>3, <2>2, <3>1, <3>2, Zenon DEF RecordSignature, StateBecomes, IInv, TypeOK
  <2> QED  BY <2>1, <2>2
<1> QED  BY <1>1, <1>4, <1>5, StateUpdate

(* The three branches of merge. *)
LEMMA MergeStep ==
    ASSUME IInv, NEW r \in Replica, NEW m \in aggregates, mergeSignatures(r, m)
    PROVE  IInv'
<1> DEFINE h == m.data
           old == aggregation_bits[r][h]
           bits == m.bits
<1>1. /\ VerifyAggregate(h, bits \cap Signers[h], m.shares, m.tainted)
      /\ UNCHANGED <<states, attestations, aggregates>>
  BY DEF mergeSignatures
<1>2. /\ h \in Hash /\ bits \in SUBSET Peer /\ bits \cap Signers[h] = bits
      /\ bits \cap Rotated[h] = {} /\ m.shares = SharesOf(bits) /\ bits # {}
      /\ \A p \in bits : AttestedIn(p, h)
  BY <1>1, VerifiedAggregate, Zenon
<1>3. /\ attestations' \subseteq Attestation /\ AttestationsHonest'
      /\ attestations \subseteq attestations' /\ states' = states /\ aggregates' = aggregates
  BY <1>1 DEF IInv, TypeOK, AttestationsHonest
<1>4. /\ \A p \in bits : AttestedIn(p, h)' /\ p \notin Rotated[h]
      /\ bits \ Rotated[h] = bits
  BY <1>1, <1>2 DEF AttestedIn
<1>5. /\ old \in SUBSET Peer /\ numberOfSignatures[r][h] = Cardinality(old)
      /\ signature[r][h] = SharesOf(old \ Rotated[h])
      /\ tainted[r][h] = (old \cap Rotated[h] # {})
      /\ \A p \in old : AttestedIn(p, h) /\ (p \in Rotated[h] => p = r)
  <2>1. old \in SUBSET Peer /\ numberOfSignatures[r][h] = Cardinality(old)
    BY <1>2 DEF IInv, TypeOK, CountIsPopcount
  <2>2. Consistent(h, old, signature[r][h], tainted[r][h])
    BY <1>2 DEF IInv, StoresConsistent
  <2>3. \A p \in old : AttestedIn(p, h) /\ (p \in Rotated[h] => p = r)
    BY <1>2 DEF IInv, EverySignerAttested, AttestedIn
  <2> QED  BY <2>1, <2>2, <2>3 DEF Consistent
<1>6. CASE AdoptAggregate(r, h, bits, m.shares)
  <2>1. StateBecomes(r, h, bits)
    BY <1>2, <1>4, <1>6, Zenon DEF AdoptAggregate, StateBecomes
  <2> HIDE DEF h, bits
  <2> QED  BY <1>2, <1>3, <1>4, <2>1, StateUpdate
<1>7. CASE old \cap bits = {} /\ UniteAggregate(r, h, bits, m.shares)
  <2>0. PICK B : B = old \cup bits
    BY Zenon
  <2>1. B \in SUBSET Peer
    BY <1>2, <1>5, <2>0
  <2>2. numberOfSignatures[r][h] + Cardinality(bits) = Cardinality(B)
    <3>1. /\ IsFiniteSet(old) /\ Cardinality(old) \in Nat
          /\ IsFiniteSet(bits) /\ Cardinality(bits) \in Nat
      BY <1>2, <1>5, BitsFinite
    <3>2. Cardinality(B) = Cardinality(old) + Cardinality(bits) - Cardinality({})
      BY <3>1, <1>7, <2>0, FS_Union
    <3> QED  BY <3>1, <3>2, <1>5, FS_EmptySet
  <2>3. B \ Rotated[h] = (old \ Rotated[h]) \cup bits /\ B \cap Rotated[h] = old \cap Rotated[h]
    BY <1>2, <2>0
  <2>4. Aggregate(signature[r][h], m.shares) = SharesOf(B \ Rotated[h])
    BY <1>2, <1>5, <1>7, <2>3, AggregateDisjoint, SMTT(30)
  <2>5. \A p \in B : AttestedIn(p, h)' /\ (p \in Rotated[h] => p = r)
    BY <1>1, <1>4, <1>5, <2>0, SMTT(30) DEF AttestedIn
  <2>6. StateBecomes(r, h, B)
    <3>1. tainted' = [tainted EXCEPT ![r][h] = (B \cap Rotated[h] # {})]
      <4>1. (B \cap Rotated[h] # {}) = tainted[r][h]
        BY <1>5, <2>3
      <4>2. [tainted EXCEPT ![r][h] = tainted[r][h]] = tainted
        BY <1>2 DEF IInv, TypeOK
      <4> QED  BY <1>7, <4>1, <4>2 DEF UniteAggregate
    <3> QED  BY <1>2, <1>5, <1>7, <2>0, <2>2, <2>4, <3>1, Zenon
                DEF UniteAggregate, StateBecomes, IInv, TypeOK
  <2> HIDE DEF h, bits
  <2> QED  BY <1>2, <1>3, <2>1, <2>5, <2>6, StateUpdate
<1> QED  BY <1>2, <1>6, <1>7, SMTT(30) DEF mergeSignatures

(* IInv depends on states only through its type. *)
LEMMA OnlyStates ==
    ASSUME IInv, states' \in [Replica -> SUBSET Hash],
           UNCHANGED <<store, attestations, aggregates>>
    PROVE  IInv'
<1> USE DEF store
<1>1. TypeOK'
  BY DEF IInv, TypeOK
<1>2. CountIsPopcount'
  BY DEF IInv, CountIsPopcount
<1>3. EverySignerAttested'
  BY DEF IInv, EverySignerAttested
<1>4. StoresConsistent'
  BY DEF IInv, StoresConsistent, Consistent
<1>5. AggregatesSound'
  BY DEF IInv, AggregatesSound, AttestedIn
<1>6. AttestationsHonest'
  BY DEF IInv, AttestationsHonest
<1> QED  BY <1>1, <1>2, <1>3, <1>4, <1>5, <1>6 DEF IInv

LEMMA StepPreserves == IInv /\ [Next]_vars => IInv'
<1> SUFFICES ASSUME IInv, [Next]_vars PROVE IInv'
  OBVIOUS
<1>1. ASSUME NEW r \in Replica, NEW h \in Hash, initializeState(r, h)
      PROVE  IInv'
  <2>1. states' \in [Replica -> SUBSET Hash]
    BY <1>1 DEF initializeState, IInv, TypeOK
  <2> QED  BY <1>1, <2>1, OnlyStates DEF initializeState
<1>2. ASSUME NEW r \in Replica, NEW h \in Hash, signFinalityVertices(r, h)
      PROVE  IInv'
  <2>1. r \in Peer
    BY PeerAssumption
  <2>2. /\ MayAddSignature(r, h, r) /\ RecordSignature(r, h, r, r \notin Rotated[h])
        /\ attestations' = attestations \cup
                {[peerId |-> r, data |-> h, matches |-> r \notin Rotated[h]]}
        /\ states' = states /\ aggregates' = aggregates
    BY <1>2 DEF signFinalityVertices
  <2>3. PICK b \in BOOLEAN : b = (r \notin Rotated[h])
    BY Zenon
  <2>4. attestations' \subseteq Attestation
    <3>1. [peerId |-> r, data |-> h, matches |-> b] \in Attestation
      BY <2>1 DEF Attestation
    <3> QED  BY <2>2, <2>3, <3>1 DEF IInv, TypeOK
  <2>5. AttestationsHonest'
    BY <2>2 DEF IInv, AttestationsHonest
  <2>6. AttestedIn(r, h)'
    BY <2>2 DEF AttestedIn, MayAddSignature
  <2> QED  BY <2>1, <2>2, <2>4, <2>5, <2>6, RecordStep
<1>3. ASSUME NEW r \in Replica, NEW h \in Hash, getAttestation(r, h)
      PROVE  IInv'
  <2>1. PICK m : /\ m = [data |-> h, bits |-> aggregation_bits[r][h],
                         shares |-> signature[r][h], tainted |-> tainted[r][h]]
                 /\ aggregates' = aggregates \cup {m}
                 /\ UNCHANGED <<states, store, attestations>>
    BY <1>3, Zenon DEF getAttestation
  <2>2. m \in AggregatedAttestation
    BY <2>1 DEF IInv, TypeOK, AggregatedAttestation
  <2>3. Consistent(m.data, m.bits, m.shares, m.tainted) /\ \A p \in m.bits : AttestedIn(p, m.data)
    BY <2>1 DEF IInv, StoresConsistent, EverySignerAttested, AttestedIn
  <2>4. AggregatesSound'
    BY <2>1, <2>3 DEF IInv, AggregatesSound, AttestedIn
  <2> QED  BY <2>1, <2>2, <2>4, ZenonT(60)
              DEF store, IInv, TypeOK, CountIsPopcount, EverySignerAttested,
                  StoresConsistent, Consistent, AttestationsHonest
<1>4. ASSUME NEW r \in Replica, NEW m \in attestations, addSignatures(r, m)
      PROVE  IInv'
  <2>1. m \in Attestation /\ m.matches = (m.peerId \notin Rotated[m.data]) /\ m.matches
    BY <1>4, Zenon DEF addSignatures, IInv, TypeOK, AttestationsHonest
  <2>2. m.data \in Hash /\ m.peerId \in Peer
    BY <2>1 DEF Attestation
  <2>3. m = [peerId |-> m.peerId, data |-> m.data, matches |-> m.peerId \notin Rotated[m.data]]
    <3>1. m = [peerId |-> m.peerId, data |-> m.data, matches |-> m.matches]
      BY <2>1 DEF Attestation
    <3> QED  BY <2>1, <3>1
  <2>4. /\ MayAddSignature(r, m.data, m.peerId)
        /\ RecordSignature(r, m.data, m.peerId, m.peerId \notin Rotated[m.data])
        /\ UNCHANGED <<states, attestations, aggregates>>
    BY <1>4, <2>1, Zenon DEF addSignatures
  <2>5. AttestedIn(m.peerId, m.data)'
    BY <1>4, <2>3, <2>4 DEF AttestedIn, MayAddSignature
  <2>6. attestations' \subseteq Attestation /\ AttestationsHonest'
    BY <2>4 DEF IInv, TypeOK, AttestationsHonest
  <2> QED  BY <2>1, <2>2, <2>4, <2>5, <2>6, RecordStep, Zenon
<1>5. ASSUME NEW r \in Replica, NEW m \in aggregates, mergeSignatures(r, m)
      PROVE  IInv'
  BY <1>5, MergeStep
<1>6. CASE UNCHANGED vars
  BY <1>6, OnlyStates DEF vars, IInv, TypeOK
<1> QED  BY <1>1, <1>2, <1>3, <1>4, <1>5, <1>6 DEF Next

(* Every reachable state satisfies the inductive invariant. *)
THEOREM Invariance == Spec => []IInv
BY InitEstablishes, StepPreserves, PTL DEF Spec
-----------------------------------------------------------------------------
(* The cached signature counts are the popcounts of the aggregation bits,  *)
(* for any number of peers and any sequence of deliveries to               *)
(* addSignatures and mergeSignatures.                                      *)
THEOREM CountCorrect == Spec => [](TypeOK /\ CountIsPopcount)
<1>1. IInv => TypeOK /\ CountIsPopcount
  BY DEF IInv
<1> QED  BY <1>1, Invariance, PTL

(* Every counted signer attested the vertex with a credentialled key. *)
THEOREM SignersAttested == Spec => []EverySignerAttested
<1>1. IInv => EverySignerAttested
  BY DEF IInv
<1> QED  BY <1>1, Invariance, PTL

(* What getAttestation of an unrotated replica returns verifies. *)
THEOREM AggregatesVerify == Spec => []AggregateVerifies
<1>1. IInv => AggregateVerifies
  <2> SUFFICES ASSUME IInv, NEW h \in Hash, NEW r \in Replica \ Rotated[h], HasSignature(r, h)
               PROVE  VerifyAggregate(h, aggregation_bits[r][h], signature[r][h], tainted[r][h])
    BY DEF AggregateVerifies
  <2>1. aggregation_bits[r][h] # {}
    BY HasSignatureIffBits DEF IInv
  <2>2. \A p \in aggregation_bits[r][h] : p \in Credentials[h] /\ p \notin Rotated[h]
    BY Zenon DEF IInv, EverySignerAttested
  <2>3. /\ aggregation_bits[r][h] \cap Rotated[h] = {}
        /\ aggregation_bits[r][h] \ Rotated[h] = aggregation_bits[r][h]
    BY <2>2
  <2> QED  BY <2>1, <2>2, <2>3, Zenon DEF VerifyAggregate, IInv, StoresConsistent, Consistent
<1> QED  BY <1>1, Invariance, PTL

(* Two quorums of a nonempty signer set are together larger than it. *)
LEMMA QuorumIsMajority ==
    ASSUME NEW n \in Nat, n > 0, NEW t \in 51 .. 100
    PROVE  LET q == (n * t + 99) \div 100 IN q \in Nat /\ q + q > n
<1>1. PICK k \in Nat : k = n * t
  OBVIOUS
<1>2. k >= 51 * n
  BY <1>1
<1>3. (k + 99) \div 100 \in Nat /\ 100 * ((k + 99) \div 100) >= k
  BY <1>1
<1> QED  BY <1>1, <1>2, <1>3

(* Two replicas at which isFinalized holds count a common signer. *)
THEOREM FinalizedIntersect == Spec => []FinalizedShareSigner
<1>1. IInv => FinalizedShareSigner
  <2> SUFFICES ASSUME IInv, NEW r \in Replica, NEW s \in Replica, NEW h \in Hash,
                      isFinalized(r, h), isFinalized(s, h), Signers[h] # {}
               PROVE  aggregation_bits[r][h] \cap aggregation_bits[s][h] # {}
    BY DEF FinalizedShareSigner
  <2>1. /\ Signers[h] \in SUBSET Peer /\ IsFiniteSet(Signers[h])
        /\ Cardinality(Signers[h]) \in Nat /\ Cardinality(Signers[h]) > 0
    <3>1. Signers[h] \in SUBSET Peer
      BY SignersAssumption
    <3> QED  BY <3>1, BitsFinite, FS_EmptySet
  <2>2. ASSUME NEW x \in Replica
        PROVE  /\ aggregation_bits[x][h] \subseteq Signers[h]
               /\ numberOfSignatures[x][h] = Cardinality(aggregation_bits[x][h])
               /\ numberOfSignatures[x][h] \in Nat
    <3>1. aggregation_bits[x][h] \subseteq Credentials[h] /\ Credentials[h] \subseteq Signers[h]
      BY SignersAssumption, Zenon DEF IInv, EverySignerAttested
    <3> QED  BY <3>1 DEF IInv, TypeOK, CountIsPopcount
  <2>3. getQuorum(h) \in Nat /\ getQuorum(h) + getQuorum(h) > Cardinality(Signers[h])
    BY <2>1, QuorumIsMajority, ThresholdAssumption, Zenon DEF getQuorum
  <2>4. Cardinality(aggregation_bits[r][h]) + Cardinality(aggregation_bits[s][h])
            > Cardinality(Signers[h])
    BY <2>1, <2>2, <2>3 DEF isFinalized
  <2> QED  BY <2>1, <2>2, <2>4, FS_MajoritiesIntersect
<1> QED  BY <1>1, Invariance, PTL

(* No delivery lowers a signature count or takes finality back. *)
THEOREM FinalityStable == Spec => SignaturesNeverDrop
<1>1. IInv /\ IInv' /\ [Next]_vars =>
        [\A r \in Replica, h \in Hash :
            /\ numberOfSignatures'[r][h] >= numberOfSignatures[r][h]
            /\ isFinalized(r, h) => isFinalized(r, h)']_vars
  <2> SUFFICES ASSUME IInv, Next, NEW s \in Replica, NEW g \in Hash
               PROVE  /\ numberOfSignatures'[s][g] >= numberOfSignatures[s][g]
                      /\ isFinalized(s, g) => isFinalized(s, g)'
    OBVIOUS
  <2>0. numberOfSignatures \in [Replica -> [Hash -> Nat]] /\ states \in [Replica -> SUBSET Hash]
    BY SMTT(30) DEF IInv, TypeOK
  <2>1. states[s] \subseteq states'[s]
    BY <2>0, Zenon DEF Next, initializeState, signFinalityVertices, getAttestation, addSignatures,
               mergeSignatures
  <2>2. numberOfSignatures'[s][g] \in Nat /\ numberOfSignatures'[s][g] >= numberOfSignatures[s][g]
    <3>1. ASSUME NEW r \in Replica, NEW h \in Hash,
                 initializeState(r, h) \/ getAttestation(r, h)
          PROVE  numberOfSignatures' = numberOfSignatures
      BY <3>1 DEF initializeState, getAttestation, store
    <3>2. ASSUME NEW r \in Replica, NEW h, NEW p, NEW b, RecordSignature(r, h, p, b), h \in Hash
          PROVE  numberOfSignatures'[s][g] \in Nat /\ numberOfSignatures'[s][g] >= numberOfSignatures[s][g]
      BY <2>0, <3>2, SMTT(30) DEF RecordSignature
    <3>3. ASSUME NEW r \in Replica, NEW m \in aggregates, mergeSignatures(r, m)
          PROVE  numberOfSignatures'[s][g] \in Nat /\ numberOfSignatures'[s][g] >= numberOfSignatures[s][g]
      <4> DEFINE h == m.data
                 old == aggregation_bits[r][h]
      <4>1. h \in Hash /\ m.bits \in SUBSET Peer /\ m.bits \cap Signers[h] = m.bits
        BY <3>3, VerifiedAggregate, Zenon DEF mergeSignatures
      <4>2. old \in SUBSET Peer /\ numberOfSignatures[r][h] = Cardinality(old)
        BY <4>1 DEF IInv, TypeOK, CountIsPopcount
      <4>3. /\ Cardinality(old \cap m.bits) <= Cardinality(m.bits)
            /\ Cardinality(m.bits) \in Nat /\ Cardinality(old \cap m.bits) \in Nat
        <5>1. IsFiniteSet(m.bits) /\ Cardinality(m.bits) \in Nat
          BY <4>1, BitsFinite
        <5>2. old \cap m.bits \subseteq m.bits /\ old \cap m.bits \in SUBSET Peer
          BY <4>1
        <5> QED  BY <5>1, <5>2, BitsFinite, FS_Subset
      <4>4. CASE UniteAggregate(r, h, m.bits, m.shares)
        BY <2>0, <4>1, <4>3, <4>4 DEF UniteAggregate
      <4>5. CASE /\ AdoptAggregate(r, h, m.bits, m.shares)
                 /\ ~HasSignature(r, h) \/ Supersedes(m.bits, old, numberOfSignatures[r][h])
        <5>1. numberOfSignatures[r][h] <= Cardinality(m.bits)
          <6>1. CASE ~HasSignature(r, h)
            BY <4>1, <4>2, <4>3, <6>1, HasSignatureIffBits, FS_EmptySet, Zenon DEF IInv
          <6>2. CASE Supersedes(m.bits, old, numberOfSignatures[r][h])
            BY <2>0, <4>1, <4>3, <6>2 DEF Supersedes
          <6> QED  BY <4>5, <6>1, <6>2
        <5> QED  BY <2>0, <4>1, <4>3, <4>5, <5>1 DEF AdoptAggregate
      <4> QED  BY <3>3, <4>1, <4>4, <4>5, Zenon DEF mergeSignatures
    <3>4. ASSUME NEW r \in Replica, NEW m \in attestations, addSignatures(r, m)
          PROVE  numberOfSignatures'[s][g] \in Nat /\ numberOfSignatures'[s][g] >= numberOfSignatures[s][g]
      <4>1. m.data \in Hash
        BY DEF IInv, TypeOK, Attestation
      <4> QED  BY <3>2, <3>4, <4>1, Zenon DEF addSignatures
    <3>5. ASSUME NEW r \in Replica, NEW h \in Hash, signFinalityVertices(r, h)
          PROVE  numberOfSignatures'[s][g] \in Nat /\ numberOfSignatures'[s][g] >= numberOfSignatures[s][g]
      BY <3>2, <3>5 DEF signFinalityVertices
    <3> QED  BY <2>0, <3>1, <3>3, <3>4, <3>5 DEF Next
  <2>3. getQuorum(g) \in Int
    <3>1. Cardinality(Signers[g]) \in Nat
      BY BitsFinite, SignersAssumption
    <3> QED  BY <3>1, ThresholdAssumption DEF getQuorum
  <2> QED  BY <2>0, <2>1, <2>2, <2>3 DEF isFinalized
<1> QED  BY <1>1, Invariance, StepPreserves, PTL DEF Spec, SignaturesNeverDrop

-----------------------------------------------------------------------------
(* SyncProtocol: the answers to a SYNC apply as a whole, and a signer has  *)
(* signed every vertex it holds.                                           *)

Vertex == SyncHash \cup {Root}

StateType ==
  /\ created \in Nat
  /\ deps \in [Vertex -> SUBSET Vertex]
  /\ vertices \in [Node -> SUBSET Vertex]
  /\ signed \in [Node -> [SyncHash -> SUBSET Node]]

(* A node holds only vertices that were created, and the dependencies of   *)
(* each.                                                                   *)
Held ==
  \A n \in Node : \A h \in vertices[n] :
    /\ h = Root \/ h <= created
    /\ deps[h] \subseteq vertices[n]

(* A node that holds B has the dependencies of every vertex of H once it   *)
(* has merged H.                                                           *)
Completes(H, B) == \A h \in H : deps[h] \subseteq H \cup B

(* What the messages in flight carry.  A SYNC lists vertices its sender    *)
(* still holds.  A SYNC_ACCEPT carries vertices its sender holds and       *)
(* completes the receiver; it requests vertices the receiver holds, and    *)
(* they will complete the sender in turn.                                  *)
MessageOK(m) ==
  /\ m.from \in Node /\ m.to \in Node
  /\ m.type = "UPDATE" => m.vertices \subseteq vertices[m.from]
  /\ m.type = "SYNC" => m.vertices \subseteq vertices[m.from] /\ Completes(m.vertices, {})
  /\ m.type = "SYNC_ACCEPT" =>
       /\ m.vertices \subseteq vertices[m.from]
       /\ Completes(m.vertices, vertices[m.to])
       /\ m.requesting \subseteq vertices[m.to]
       /\ Completes(m.requesting, vertices[m.from])
       /\ m.signed \in [m.vertices \ {Root} -> SUBSET Node]

SyncInv == StateType /\ Held /\ (\A m \in net : MessageOK(m)) /\ HeldIsSigned
-----------------------------------------------------------------------------
(* Nothing is held but the root, and nothing is in flight. *)
LEMMA SyncInitHolds == SyncInit => SyncInv
<1> SUFFICES ASSUME SyncInit PROVE SyncInv
  OBVIOUS
<1>1. StateType
  BY DEF SyncInit, StateType, Vertex
<1>2. Held /\ HeldIsSigned /\ (\A m \in net : MessageOK(m))
  BY SyncAssumption DEF SyncInit, Held, HeldIsSigned
<1> QED BY <1>1, <1>2 DEF SyncInv

(* object.merge adds to a closed graph only vertices of the batch, leaves  *)
(* it closed, and adds the whole batch if the batch completes it.          *)
LEMMA MergedFacts ==
  ASSUME NEW H, NEW batch
  PROVE  /\ H \subseteq Merged(H, batch)
         /\ Merged(H, batch) \subseteq H \cup batch
         /\ Completes(H, {}) => Completes(Merged(H, batch), {})
         /\ Completes(batch, H) => batch \subseteq Merged(H, batch)
<1>1. H \subseteq Merged(H, batch) /\ Merged(H, batch) \subseteq H \cup batch
  BY DEF Merged
<1>2. ASSUME Completes(H, {}), NEW h \in Merged(H, batch) PROVE deps[h] \subseteq Merged(H, batch)
  <2>1. CASE h \in H
    BY <1>1, <1>2, <2>1 DEF Completes
  <2>2. CASE h \notin H
    <3>1. PICK S \in SUBSET (batch \ H) : h \in S /\ \A g \in S : deps[g] \subseteq H \cup S
      BY <1>2, <2>2 DEF Merged
    <3>2. H \cup S \subseteq Merged(H, batch)
      BY <3>1 DEF Merged
    <3> QED BY <3>1, <3>2
  <2> QED BY <2>1, <2>2
<1>3. ASSUME Completes(batch, H) PROVE batch \subseteq Merged(H, batch)
  <2>1. \A h \in batch \ H : deps[h] \subseteq H \cup (batch \ H)
    BY <1>3 DEF Completes
  <2>2. batch \ H \in {S \in SUBSET (batch \ H) : \A h \in S : deps[h] \subseteq H \cup S}
    BY <2>1
  <2> QED BY <2>2, Zenon DEF Merged
<1> QED BY <1>1, <1>2, <1>3 DEF Completes

(* A recovery sends a SYNC with what is held, or nothing. *)
LEMMA RecoverySends ==
  ASSUME NEW n, NEW p, NEW missing, NEW held
  PROVE  recoverMissingSync(n, p, missing, held).sent \subseteq {Sync(n, p, held)}
  BY DEF recoverMissingSync

(* Messages stay what they were while the graphs grow. *)
LEMMA MessagesStay ==
  ASSUME SyncInv, NEW m \in net,
         \A n \in Node : vertices[n] \subseteq vertices'[n],
         \A n \in Node : \A h \in vertices[n] : deps'[h] = deps[h]
  PROVE  MessageOK(m)'
<1>1. MessageOK(m)
  BY DEF SyncInv
<1>2. CASE m.type = "SYNC"
  <2>1. m.vertices \subseteq vertices[m.from] /\ Completes(m.vertices, {}) /\ m.from \in Node /\ m.to \in Node
    BY <1>1, <1>2 DEF MessageOK
  <2> QED BY <1>2, <2>1 DEF MessageOK, Completes
<1>3. CASE m.type = "SYNC_ACCEPT"
  <2>1. /\ m.from \in Node /\ m.to \in Node
        /\ m.vertices \subseteq vertices[m.from] /\ Completes(m.vertices, vertices[m.to])
        /\ m.requesting \subseteq vertices[m.to] /\ Completes(m.requesting, vertices[m.from])
        /\ m.signed \in [m.vertices \ {Root} -> SUBSET Node]
    BY <1>1, <1>3 DEF MessageOK
  <2>2. Completes(m.vertices, vertices[m.to])' /\ Completes(m.requesting, vertices[m.from])'
    BY <2>1 DEF Completes
  <2> QED BY <1>3, <2>1, <2>2 DEF MessageOK
<1>4. CASE m.type \notin {"SYNC", "SYNC_ACCEPT"}
  BY <1>1, <1>4 DEF MessageOK
<1> QED BY <1>2, <1>3, <1>4

(* A handler that grows the graph of node n to a closed one, and leaves n  *)
(* with a signature on all of it, keeps the invariant if the messages it   *)
(* sends are right.                                                        *)
LEMMA HandlerKeepsIInv ==
  ASSUME SyncInv, NEW n \in Node, NEW held, NEW after \in [SyncHash -> SUBSET Node],
         vertices[n] \subseteq held, held \subseteq Vertex, Completes(held, {}),
         \A h \in held : h = Root \/ h <= created,
         n \in Signer => \A h \in held \ {Root} : n \in after[h],
         vertices' = [vertices EXCEPT ![n] = held],
         signed' = [signed EXCEPT ![n] = after],
         UNCHANGED <<created, deps>>,
         \A m \in net' : m \in net \/ MessageOK(m)'
  PROVE  SyncInv'
<1>1. /\ vertices'[n] = held /\ signed'[n] = after
      /\ \A q \in Node \ {n} : vertices'[q] = vertices[q] /\ signed'[q] = signed[q]
  BY DEF SyncInv, StateType
<1>2. StateType'
  BY DEF SyncInv, StateType, Vertex
<1>3. Held'
  <2> SUFFICES ASSUME NEW q \in Node, NEW h \in vertices'[q]
               PROVE  (h = Root \/ h <= created') /\ deps'[h] \subseteq vertices'[q]
    BY DEF Held
  <2> QED BY <1>1 DEF SyncInv, Held, Completes
<1>4. HeldIsSigned'
  BY <1>1, SyncAssumption DEF SyncInv, HeldIsSigned
<1>5. \A q \in Node : vertices[q] \subseteq vertices'[q]
  BY <1>1
<1>6. \A m \in net' : MessageOK(m)'
  BY <1>5, MessagesStay
<1> QED BY <1>2, <1>3, <1>4, <1>6 DEF SyncInv

(* What a node holds is closed. *)
LEMMA HeldIsClosed ==
  ASSUME SyncInv, NEW n \in Node
  PROVE  Completes(vertices[n], {}) /\ vertices[n] \subseteq Vertex
  BY DEF SyncInv, Held, StateType, Completes

(* A local call: the author signs the new vertex and broadcasts it. *)
LEMMA CallFnIInv ==
  ASSUME SyncInv, NEW n \in Writer, callFn(n)
  PROVE  SyncInv'
<1> DEFINE h == created + 1
           mine == {n} \cap Signer
<1>0. n \in Node
  BY SyncAssumption
<1>1. /\ h \in SyncHash /\ created' = h /\ deps' = [deps EXCEPT ![h] = Frontier(n)]
      /\ vertices' = [vertices EXCEPT ![n] = @ \cup {h}]
      /\ signed' = [signed EXCEPT ![n][h] = mine]
      /\ net' = net \cup Update(n, h, mine)
  BY DEF callFn
<1>2. created \in Nat /\ h # Root /\ h \in Vertex
  BY <1>1, SyncAssumption DEF SyncInv, StateType, Vertex
<1>3. \A q \in Node : h \notin vertices[q]
  BY <1>2 DEF SyncInv, Held
<1>4. /\ \A v \in Vertex \ {h} : deps'[v] = deps[v]
      /\ deps'[h] = Frontier(n) /\ Frontier(n) \subseteq vertices[n]
  BY <1>1, <1>2 DEF SyncInv, StateType, Frontier
<1>5. /\ vertices'[n] = vertices[n] \cup {h}
      /\ \A q \in Node \ {n} : vertices'[q] = vertices[q]
  BY <1>0, <1>1 DEF SyncInv, StateType
<1>6. StateType'
  <2>1. deps' \in [Vertex -> SUBSET Vertex] /\ vertices' \in [Node -> SUBSET Vertex]
    BY <1>0, <1>1, <1>2, <1>4 DEF SyncInv, StateType
  <2>2. signed' \in [Node -> [SyncHash -> SUBSET Node]]
    BY <1>0, <1>1, SyncAssumption DEF SyncInv, StateType
  <2> QED BY <1>1, <1>2, <2>1, <2>2 DEF StateType
<1>7. \A q \in Node : \A v \in vertices[q] : deps'[v] = deps[v]
  BY <1>3, <1>4 DEF SyncInv, StateType
<1>8. Held'
  <2> SUFFICES ASSUME NEW q \in Node, NEW v \in vertices'[q]
               PROVE  (v = Root \/ v <= created') /\ deps'[v] \subseteq vertices'[q]
    BY DEF Held
  <2>1. CASE v \in vertices[q]
    <3>1. (v = Root \/ v <= created) /\ deps[v] \subseteq vertices[q] /\ v \in Vertex
      BY <2>1 DEF SyncInv, Held, StateType
    <3>2. v = Root \/ v <= created + 1
      BY <1>2, <3>1 DEF Vertex, SyncHash
    <3> QED BY <1>1, <1>5, <1>7, <2>1, <3>1, <3>2
  <2>2. CASE v \notin vertices[q]
    <3>1. q = n /\ v = h
      BY <1>5, <2>2
    <3> QED BY <1>1, <1>2, <1>4, <1>5, <3>1
  <2> QED BY <2>1, <2>2
<1>9. HeldIsSigned'
  <2> SUFFICES ASSUME NEW q \in Signer, NEW v \in vertices'[q] \ {Root}
               PROVE  q \in signed'[q][v]
    BY DEF HeldIsSigned
  <2>0. q \in Node
    BY SyncAssumption
  <2>1. CASE q = n /\ v = h
    BY <1>1, <2>0, <2>1 DEF SyncInv, StateType
  <2>2. CASE ~(q = n /\ v = h)
    <3>1. v \in vertices[q] \ {Root} /\ v \in SyncHash
      BY <1>5, <2>0, <2>2 DEF SyncInv, StateType, Vertex
    <3>2. signed'[q][v] = signed[q][v]
      BY <1>0, <1>1, <2>0, <2>2, <3>1 DEF SyncInv, StateType
    <3> QED BY <3>1, <3>2 DEF SyncInv, HeldIsSigned
  <2> QED BY <2>1, <2>2
<1>10. \A m \in net' : MessageOK(m)'
  <2> SUFFICES ASSUME NEW m \in net' PROVE MessageOK(m)'
    OBVIOUS
  <2>1. CASE m \in net
    BY <1>5, <1>7, <2>1, MessagesStay, SMTT(30)
  <2>2. CASE m \in Update(n, h, mine)
    <3>1. m.type = "UPDATE" /\ m.from = n /\ m.to \in Node /\ m.vertices = {h}
      BY <2>2 DEF Update, Others
    <3> QED BY <1>0, <1>5, <3>1, SMTT(30) DEF MessageOK
  <2> QED BY <1>1, <2>1, <2>2
<1> QED BY <1>6, <1>8, <1>9, <1>10 DEF SyncInv

(* Attestations carry no vertices, and a SYNC with a node's own graph is   *)
(* what a SYNC has to be.                                                  *)
LEMMA SentOK ==
  ASSUME NEW n \in Node, NEW p \in Node, NEW H, NEW held, NEW m,
         vertices'[n] = held, Completes(held, {})',
         m \in AttestationUpdate(n, H) \cup {Sync(n, p, held)}
  PROVE  MessageOK(m)'
<1>1. CASE m \in AttestationUpdate(n, H)
  <2>1. m.type = "ATTESTATION_UPDATE" /\ m.from = n /\ m.to \in Node
    BY <1>1, SMTT(30) DEF AttestationUpdate, Others
  <2> QED BY <2>1 DEF MessageOK
<1>2. CASE m = Sync(n, p, held)
  <2>1. m.type = "SYNC" /\ m.from = n /\ m.to = p /\ m.vertices = held
    BY <1>2, SMTT(30) DEF Sync
  <2> QED BY <2>1 DEF MessageOK
<1> QED BY <1>1, <1>2

(* An UPDATE is merged if its dependencies are there, and what it added is *)
(* signed; what is missing starts a recovery.                              *)
LEMMA UpdateIInv ==
  ASSUME SyncInv, NEW m \in net, m.type = "UPDATE", updateHandler(m)
  PROVE  SyncInv'
<1>0. PICK n, p : n = m.to /\ p = m.from
  OBVIOUS
<1>1. n \in Node /\ p \in Node /\ m.vertices \subseteq vertices[p]
  BY <1>0, Zenon DEF SyncInv, MessageOK
<1>2. PICK held : held = Merged(vertices[n], m.vertices)
  OBVIOUS
<1>3. PICK applied, theirs :
        /\ applied = m.vertices \cap held
        /\ theirs = AddSignatures(signed[n], p, IF p \in m.signed \cap Signer THEN applied ELSE {})
  BY ZenonT(60)
<1>4. PICK added, after : added = ToSign(n, applied, theirs) /\ after = AddSignatures(theirs, n, added)
  OBVIOUS
<1>5. PICK sent : sent = recoverMissingSync(n, p, m.vertices \ held, held).sent
  OBVIOUS
<1>6. /\ vertices' = [vertices EXCEPT ![n] = held]
      /\ signed' = [signed EXCEPT ![n] = after]
      /\ net' = (net \ {m}) \cup AttestationUpdate(n, added) \cup sent
      /\ UNCHANGED <<created, deps>>
  BY <1>0, <1>2, <1>3, <1>4, <1>5 DEF updateHandler
<1>7. /\ vertices[n] \subseteq held /\ held \subseteq vertices[n] \cup m.vertices
      /\ Completes(held, {})
  BY <1>1, <1>2, MergedFacts, HeldIsClosed
<1>8. held \subseteq Vertex /\ \A h \in held : h = Root \/ h <= created
  BY <1>1, <1>7 DEF SyncInv, Held, StateType
<1>9. theirs \in [SyncHash -> SUBSET Node] /\ \A h \in SyncHash : signed[n][h] \subseteq theirs[h]
  BY <1>1, <1>3 DEF SyncInv, StateType, AddSignatures
<1>10. /\ after \in [SyncHash -> SUBSET Node]
       /\ \A h \in SyncHash : theirs[h] \subseteq after[h] /\ (h \in added => n \in after[h])
  BY <1>1, <1>4, <1>9 DEF AddSignatures
<1>11. n \in Signer => \A h \in held \ {Root} : n \in after[h]
  <2> SUFFICES ASSUME n \in Signer, NEW h \in held \ {Root} PROVE n \in after[h]
    OBVIOUS
  <2>0. h \in SyncHash
    BY <1>8 DEF Vertex
  <2>1. CASE h \in vertices[n]
    BY <1>9, <1>10, <2>0, <2>1 DEF SyncInv, HeldIsSigned
  <2>2. CASE h \notin vertices[n]
    <3>1. h \in applied
      BY <1>3, <1>7, <2>2
    <3>2. n \in theirs[h] \/ h \in added
      BY <1>4, <3>1, SMTT(30) DEF ToSign
    <3> QED BY <1>10, <2>0, <3>2
  <2> QED BY <2>1, <2>2
<1>12. \A k \in net' : k \in net \/ MessageOK(k)'
  <2>1. vertices'[n] = held /\ Completes(held, {})'
    BY <1>1, <1>6, <1>7 DEF SyncInv, StateType, Completes
  <2>2. sent \subseteq {Sync(n, p, held)}
    BY <1>5, RecoverySends
  <2> QED BY <1>1, <1>6, <2>1, <2>2, SentOK, SMTT(30)
<1> QED BY <1>1, <1>6, <1>7, <1>8, <1>10, <1>11, <1>12, HandlerKeepsIInv, Zenon

(* Attestations add signatures and nothing else. *)
LEMMA AttestationIInv ==
  ASSUME SyncInv, NEW m \in net, attestationUpdateHandler(m)
  PROVE  SyncInv'
<1>0. PICK n, p : n = m.to /\ p = m.from
  OBVIOUS
<1>1. n \in Node /\ p \in Node
  BY <1>0, Zenon DEF SyncInv, MessageOK
<1>2. PICK held, after :
        /\ held = vertices[n]
        /\ after = AddSignatures(signed[n], p, IF p \in Signer THEN m.signed \cap vertices[n] ELSE {})
  OBVIOUS
<1>3. /\ signed' = [signed EXCEPT ![n] = after] /\ net' = net \ {m}
      /\ UNCHANGED <<created, deps, vertices>>
  BY <1>0, <1>1, <1>2 DEF attestationUpdateHandler
<1>4. vertices' = [vertices EXCEPT ![n] = held]
  BY <1>1, <1>2, <1>3 DEF SyncInv, StateType
<1>5. after \in [SyncHash -> SUBSET Node] /\ \A h \in SyncHash : signed[n][h] \subseteq after[h]
  BY <1>1, <1>2 DEF SyncInv, StateType, AddSignatures
<1>6. /\ Completes(held, {}) /\ held \subseteq Vertex
      /\ \A h \in held : h = Root \/ h <= created
  BY <1>1, <1>2, HeldIsClosed, SMTT(30) DEF SyncInv, Held
<1>7. n \in Signer => \A h \in held \ {Root} : n \in after[h]
  BY <1>2, <1>5, <1>6, SMTT(30) DEF SyncInv, HeldIsSigned, Vertex
<1>8. vertices[n] \subseteq held /\ \A k \in net' : k \in net
  BY <1>2, <1>3
<1> QED BY <1>1, <1>3, <1>4, <1>5, <1>6, <1>7, <1>8, HandlerKeepsIInv, Zenon

(* The answer to a SYNC: what the sender lacks, complete for it because    *)
(* the rest of the answering node's graph is in the inventory, and a       *)
(* request that is complete because the inventory was.                     *)
LEMMA SyncIInv ==
  ASSUME SyncInv, NEW m \in net, m.type = "SYNC", syncHandler(m)
  PROVE  SyncInv'
<1>0. PICK n, p : n = m.to /\ p = m.from
  OBVIOUS
<1>1. n \in Node /\ p \in Node /\ m.vertices \subseteq vertices[p] /\ Completes(m.vertices, {})
  BY <1>0, Zenon DEF SyncInv, MessageOK
<1>2. PICK requested, requesting :
        requested = vertices[n] \ m.vertices /\ requesting = m.vertices \ vertices[n]
  BY Zenon
<1>3. PICK answer : answer = SyncAccept(n, p, requested, signed[n], requesting)
  OBVIOUS
<1>4. /\ \A k \in net' : k \in net \/ k = answer
      /\ UNCHANGED <<created, deps, vertices, signed, episode>>
  BY <1>0, <1>2, <1>3 DEF syncHandler, Requested
<1>5. /\ answer.type = "SYNC_ACCEPT" /\ answer.from = n /\ answer.to = p
      /\ answer.vertices = requested /\ answer.requesting = requesting
      /\ answer.signed = [h \in requested \ {Root} |-> signed[n][h]]
  BY <1>3, SMTT(30) DEF SyncAccept
<1>6. Completes(requested, vertices[p]) /\ Completes(requesting, vertices[n])
  <2>1. Completes(vertices[n], {})
    BY <1>1, HeldIsClosed, SMTT(30)
  <2> QED BY <1>1, <1>2, <2>1, SMTT(30) DEF Completes
<1>7. [h \in requested \ {Root} |-> signed[n][h]] \in [requested \ {Root} -> SUBSET Node]
  <2>1. requested \ {Root} \subseteq SyncHash
    BY <1>1, <1>2, HeldIsClosed, SMTT(30) DEF Vertex
  <2> QED BY <1>1, <2>1 DEF SyncInv, StateType
<1>8. MessageOK(answer)
  BY <1>1, <1>2, <1>5, <1>6, <1>7, SMTT(30) DEF MessageOK
<1>9. MessageOK(answer)'
  BY <1>4, <1>8 DEF MessageOK, Completes
<1>10. \A k \in net' : MessageOK(k)'
  BY <1>4, <1>9, MessagesStay, SMTT(30)
<1> QED BY <1>4, <1>10 DEF SyncInv, StateType, Held, HeldIsSigned

(* A SYNC_ACCEPT applies as a whole, own signatures are put back on every  *)
(* vertex held, and the answer completes the other side.                   *)
LEMMA SyncAcceptIInv ==
  ASSUME SyncInv, NEW m \in net, m.type = "SYNC_ACCEPT", syncAcceptHandler(m)
  PROVE  SyncInv'
<1>0. PICK n, p : n = m.to /\ p = m.from
  OBVIOUS
<1>1. /\ n \in Node /\ p \in Node
      /\ m.vertices \subseteq vertices[p]
      /\ m.requesting \subseteq vertices[n] /\ Completes(m.requesting, vertices[p])
      /\ m.signed \in [m.vertices \ {Root} -> SUBSET Node]
  BY <1>0, Zenon DEF SyncInv, MessageOK
<1>2. PICK held : held = Merged(vertices[n], m.vertices)
  OBVIOUS
<1>3. PICK theirs :
        theirs = [h \in SyncHash |-> IF h \in DOMAIN m.signed \cap held
                                 THEN MergeAggregate(signed[n][h], m.signed[h]) ELSE signed[n][h]]
  BY Zenon
<1>4. PICK added, after : added = ToSign(n, held, theirs) /\ after = AddSignatures(theirs, n, added)
  OBVIOUS
<1>5. PICK sent, reply :
        /\ sent = recoverMissingSync(n, p, m.vertices \ held, held).sent
        /\ reply = SyncAccept(n, p, m.requesting \cap held, after, {})
  OBVIOUS
<1>6. /\ vertices' = [vertices EXCEPT ![n] = held]
      /\ signed' = [signed EXCEPT ![n] = after]
      /\ \A k \in net' : k \in net \/ k \in AttestationUpdate(n, added) \/ k \in sent \/ k = reply
      /\ UNCHANGED <<created, deps>>
  BY <1>0, <1>2, <1>3, <1>4, <1>5, ZenonT(60) DEF syncAcceptHandler, Reply
<1>7. /\ vertices[n] \subseteq held /\ held \subseteq vertices[n] \cup m.vertices
      /\ Completes(held, {})
  BY <1>1, <1>2, MergedFacts, HeldIsClosed, ZenonT(60)
<1>8. held \subseteq Vertex /\ \A h \in held : h = Root \/ h <= created
  BY <1>1, <1>7, SMTT(30) DEF SyncInv, Held, StateType
<1>9. theirs \in [SyncHash -> SUBSET Node]
  <2> SUFFICES ASSUME NEW h \in SyncHash PROVE theirs[h] \subseteq Node
    BY <1>3, SMTT(30)
  <2>1. signed[n][h] \subseteq Node
    BY <1>1 DEF SyncInv, StateType
  <2>2. CASE h \in DOMAIN m.signed \cap held
    <3>1. m.signed[h] \subseteq Node /\ theirs[h] = MergeAggregate(signed[n][h], m.signed[h])
      BY <1>1, <1>3, <2>2
    <3>2. MergeAggregate(signed[n][h], m.signed[h]) \subseteq signed[n][h] \cup m.signed[h]
      BY DEF MergeAggregate
    <3> QED BY <2>1, <3>1, <3>2, SMTT(30)
  <2>3. CASE h \notin DOMAIN m.signed \cap held
    BY <1>3, <2>1, <2>3
  <2> QED BY <2>2, <2>3
<1>10. /\ after \in [SyncHash -> SUBSET Node]
       /\ n \in Signer => \A h \in held \ {Root} : n \in after[h]
  BY <1>1, <1>4, <1>8, <1>9, SMTT(30) DEF AddSignatures, ToSign, Vertex
<1>11. vertices'[n] = held /\ Completes(held, {})' /\ \A q \in Node : vertices[q] \subseteq vertices'[q]
  BY <1>1, <1>6, <1>7, SMTT(30) DEF SyncInv, StateType, Completes
<1>12. MessageOK(reply)'
  <2>1. /\ reply.type = "SYNC_ACCEPT" /\ reply.from = n /\ reply.to = p
        /\ reply.vertices = m.requesting \cap held /\ reply.requesting = {}
        /\ reply.signed = [h \in (m.requesting \cap held) \ {Root} |-> after[h]]
    BY <1>5 DEF SyncAccept
  <2>2. reply.signed \in [reply.vertices \ {Root} -> SUBSET Node]
    BY <1>8, <1>10, <2>1 DEF Vertex
  <2>3. m.requesting \cap held = m.requesting
    BY <1>1, <1>7, SMTT(30)
  <2>4. Completes(m.requesting, vertices[p])' /\ Completes({}, vertices[n])'
    BY <1>1, <1>6, <1>11, SMTT(30) DEF Completes
  <2> QED BY <1>1, <1>11, <2>1, <2>2, <2>3, <2>4, ZenonT(60) DEF MessageOK
<1>13. \A k \in net' : k \in net \/ MessageOK(k)'
  <2>1. sent \subseteq {Sync(n, p, held)}
    BY <1>5, RecoverySends
  <2> QED BY <1>1, <1>6, <1>11, <1>12, <2>1, SentOK, ZenonT(60)
<1> QED BY <1>1, <1>6, <1>7, <1>8, <1>10, <1>13, HandlerKeepsIInv, Zenon

(* A step that changes no graph and no signature, and adds at most right   *)
(* messages.                                                               *)
LEMMA QuietStepIInv ==
  ASSUME SyncInv, UNCHANGED <<created, deps, vertices, signed>>,
         \A k \in net' : k \in net \/ MessageOK(k)'
  PROVE  SyncInv'
<1>1. \A k \in net' : MessageOK(k)'
  BY MessagesStay, Zenon
<1> QED BY <1>1, SMTT(30) DEF SyncInv, StateType, Held, HeldIsSigned

(* Every step keeps the invariant. *)
LEMMA SyncNextKeeps == SyncInv /\ [SyncNext]_syncVars => SyncInv'
<1> SUFFICES ASSUME SyncInv, [SyncNext]_syncVars PROVE SyncInv'
  OBVIOUS
<1>1. CASE \E n \in Writer : callFn(n)
  BY <1>1, CallFnIInv
<1>2. ASSUME NEW n \in Node, NEW p \in Others(n), intervalSync(n, p) PROVE SyncInv'
  <2>1. PICK k, held : k = Sync(n, p, held) /\ held = vertices[n]
    OBVIOUS
  <2>2. net' = net \cup {k} /\ UNCHANGED <<created, deps, vertices, signed>>
    BY <1>2, <2>1 DEF intervalSync
  <2>3. vertices'[n] = held /\ Completes(held, {})' /\ p \in Node
    BY <2>1, <2>2, HeldIsClosed, SMTT(30) DEF Completes, Others
  <2>4. MessageOK(k)'
    BY <2>1, <2>3, SentOK
  <2> QED BY <2>2, <2>4, QuietStepIInv
<1>3. ASSUME NEW n \in Node, NEW p \in Others(n), CooldownEnds(n, p) PROVE SyncInv'
  BY <1>3, QuietStepIInv DEF CooldownEnds
<1>4. ASSUME NEW n \in Node, NEW p \in Others(n), NEW t \in MessageType, Deliver(n, p, t) PROVE SyncInv'
  <2>1. PICK m \in net : m.type = t /\ handleMessage(m)
    BY <1>4 DEF Deliver
  <2>2. CASE t = "UPDATE"
    BY <2>1, <2>2, UpdateIInv DEF handleMessage
  <2>3. CASE t = "ATTESTATION_UPDATE"
    BY <2>1, <2>3, AttestationIInv DEF handleMessage
  <2>4. CASE t = "SYNC"
    BY <2>1, <2>4, SyncIInv DEF handleMessage
  <2>5. CASE t = "SYNC_ACCEPT"
    BY <2>1, <2>5, SyncAcceptIInv DEF handleMessage
  <2> QED BY <2>2, <2>3, <2>4, <2>5 DEF MessageType
<1>5. ASSUME NEW m \in net, Lose(m) PROVE SyncInv'
  BY <1>5, QuietStepIInv DEF Lose
<1>6. CASE UNCHANGED syncVars
  BY <1>6, QuietStepIInv DEF syncVars
<1> QED BY <1>1, <1>2, <1>3, <1>4, <1>5, <1>6 DEF SyncNext

(* The inductive invariant holds in every reachable state. *)
THEOREM SyncInvariant == SyncSpec => []SyncInv
  BY SyncInitHolds, SyncNextKeeps, PTL DEF SyncSpec

(* Every SYNC_ACCEPT in flight applies as a whole when it arrives, however *)
(* stale the inventory it answers: recoverMissingSync never finds anything *)
(* missing after one, so a recovery ends with the first answer.            *)
THEOREM AlwaysAcceptIsComplete == SyncSpec => []AcceptIsComplete
<1>1. SyncInv => AcceptIsComplete
  <2> SUFFICES ASSUME SyncInv, NEW m \in net, m.type = "SYNC_ACCEPT"
               PROVE  m.vertices \subseteq Merged(vertices[m.to], m.vertices)
    BY DEF AcceptIsComplete
  <2>1. Completes(m.vertices, vertices[m.to])
    BY Zenon DEF SyncInv, MessageOK
  <2> QED BY <2>1, MergedFacts
<1> QED BY <1>1, SyncInvariant, PTL

(* A signer has its own signature on every vertex it holds, in spite of    *)
(* merges that replace the aggregate it was in.                            *)
THEOREM AlwaysHeldIsSigned == SyncSpec => []HeldIsSigned
<1>1. SyncInv => HeldIsSigned
  BY DEF SyncInv
<1> QED BY <1>1, SyncInvariant, PTL
=============================================================================
