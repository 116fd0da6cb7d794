---------------------------- MODULE SyncProtocol ----------------------------
(***************************************************************************)
(* The node's message handlers for one object (packages/node/src/          *)
(* handlers.ts, operations.ts, interval-sync.ts): an operation is gossiped *)
(* in an UPDATE, finality signatures in ATTESTATION_UPDATEs, and what      *)
(* gossip misses is repaired by SYNC, an inventory of vertex hashes, and   *)
(* SYNC_ACCEPT, the vertices one side lacks.                               *)
(*                                                                         *)
(* Handlers for one object run one at a time (MessageQueue), so each is    *)
(* one step.  The network loses and reorders messages: a sender logs a     *)
(* failed send and goes on.  Merging is abstracted to the vertex set: a    *)
(* sender lists dependencies first (DRPApplier, InsertionOrderTopological) *)
(* so a merge adds every vertex whose past is complete.  A signature is    *)
(* the signer's name; an aggregate is the set of signers it covers.        *)
(***************************************************************************)
EXTENDS Integers, FiniteSets

CONSTANTS
  Node,
  Writer,            \* the nodes that call the object
  Signer,            \* the finality signers of the object's ACL
  MaxVertices,       \* bound on the vertices created
  Root,
  MaxRetries,        \* MAX_SYNC_RECOVERY_RETRIES
  Lossy,             \* messages may be lost
  MaxInFlight        \* bound: the interval probes while fewer messages are in flight

ASSUME SyncAssumption ==
  /\ Signer \subseteq Node /\ Writer \subseteq Node /\ Root \notin Nat /\ MaxVertices \in Nat
  /\ MaxRetries \in Nat /\ MaxInFlight \in Nat \ {0} /\ Lossy \in BOOLEAN

VARIABLES
  created,   \* the number of vertices created so far
  deps,      \* deps[h]: the dependencies of vertex h
  vertices,  \* vertices[n]: the vertices node n holds
  signed,    \* signed[n][h]: the signers n has recorded for h
  episode,   \* episode[n][p]: recoveries n has begun with p, or its cooldown
  net        \* the messages in flight

syncVars == <<created, deps, vertices, signed, episode, net>>

(* Hashes are numbered in the order of creation; nothing here compares     *)
(* them.                                                                   *)
SyncHash == 1 .. MaxVertices

Cooling == -1   \* cooldownUntil is in the future
Cooled == -2    \* cooldownUntil has passed

Frontier(n) == {v \in vertices[n] : \A w \in vertices[n] : v \notin deps[w]}
Others(n) == Node \ {n}

SyncInit ==
  /\ created = 0
  /\ deps = [h \in SyncHash \cup {Root} |-> {}]
  /\ vertices = [n \in Node |-> {Root}]
  /\ signed = [n \in Node |-> [h \in SyncHash |-> {}]]
  /\ episode = [n \in Node |-> [p \in Node |-> 0]]
  /\ net = {}
-----------------------------------------------------------------------------
Update(n, h, sigs) ==
  {[type |-> "UPDATE", from |-> n, to |-> p, vertices |-> {h}, signed |-> sigs] : p \in Others(n)}
AttestationUpdate(n, H) ==
  IF H = {} THEN {}
  ELSE {[type |-> "ATTESTATION_UPDATE", from |-> n, to |-> p, signed |-> H] : p \in Others(n)}
Sync(n, p, held) == [type |-> "SYNC", from |-> n, to |-> p, vertices |-> held]
SyncAccept(n, p, requested, sigs, requesting) ==
  [type |-> "SYNC_ACCEPT", from |-> n, to |-> p, vertices |-> requested,
   signed |-> [h \in requested \ {Root} |-> sigs[h]], requesting |-> requesting]

(* object.merge: what a batch adds to a node that holds H. *)
Merged(H, batch) ==
  H \cup UNION {S \in SUBSET (batch \ H) : \A h \in S : deps[h] \subseteq H \cup S}

(* FinalityState.merge of a verified aggregate: one that cannot be joined  *)
(* is adopted if it covers all of ours, or more signers than ours.         *)
MergeAggregate(mine, theirs) ==
  LET overlap == Cardinality(mine \cap theirs)
  IN IF overlap = 0 THEN mine \cup theirs
     ELSE IF \/ overlap = Cardinality(mine)
             \/ overlap < Cardinality(theirs) /\ Cardinality(theirs) > Cardinality(mine)
     THEN theirs ELSE mine

(* Mutant: only the heads of what was learned are signed. *)
ToSignHeads(n, H, sigs) ==
  {h \in H \ {Root} : n \in Signer /\ n \notin sigs[h] /\ \A w \in H : h \notin deps[w]}

(* signFinalityVertices: the vertices of H that node n may sign and has    *)
(* not.                                                                    *)
ToSign(n, H, sigs) == {h \in H \ {Root} : n \in Signer /\ n \notin sigs[h]}
AddSignatures(sigs, n, H) == [h \in SyncHash |-> IF h \in H THEN sigs[h] \cup {n} ELSE sigs[h]]

(* recoverMissingSync: the episode afterwards, and the SYNC sent, if any.  *)
recoverMissingSync(n, p, missing, held) ==
  LET retries == IF episode[n][p] = Cooled THEN 0 ELSE episode[n][p]
  IN CASE missing = {} -> [episode |-> 0, sent |-> {}]
       [] missing # {} /\ retries = Cooling -> [episode |-> Cooling, sent |-> {}]
       [] missing # {} /\ retries >= MaxRetries -> [episode |-> Cooling, sent |-> {}]
       [] OTHER -> [episode |-> retries + 1, sent |-> {Sync(n, p, held)}]
-----------------------------------------------------------------------------
(* drpObjectChangesHandler for a local call: the vertex is signed by its   *)
(* author, for finality too if the author is a signer, and broadcast.      *)
callFn(n) ==
  LET mine == {n} \cap Signer
      h == created + 1
  IN /\ h \in SyncHash
     /\ created' = h
     /\ deps' = [deps EXCEPT ![h] = Frontier(n)]
     /\ vertices' = [vertices EXCEPT ![n] = @ \cup {h}]
     /\ signed' = [signed EXCEPT ![n][h] = mine]
     /\ net' = net \cup Update(n, h, mine)
     /\ UNCHANGED episode

updateHandler(m) ==
  LET n == m.to
      held == Merged(vertices[n], m.vertices)
      applied == m.vertices \cap held
      theirs == AddSignatures(signed[n], m.from, IF m.from \in m.signed \cap Signer THEN applied ELSE {})
      added == ToSign(n, applied, theirs)
      missing == m.vertices \ held
      r == recoverMissingSync(n, m.from, missing, held)
  IN /\ vertices' = [vertices EXCEPT ![n] = held]
     /\ signed' = [signed EXCEPT ![n] = AddSignatures(theirs, n, added)]
     /\ episode' = [episode EXCEPT ![n][m.from] = IF missing = {} THEN @ ELSE r.episode]
     /\ net' = (net \ {m}) \cup AttestationUpdate(n, added) \cup r.sent
     /\ UNCHANGED <<created, deps>>

(* Signatures for vertices without a finality state are dropped. *)
attestationUpdateHandler(m) ==
  LET n == m.to
  IN /\ signed' = [signed EXCEPT ![n] =
          AddSignatures(@, m.from, IF m.from \in Signer THEN m.signed \cap vertices[n] ELSE {})]
     /\ net' = net \ {m}
     /\ UNCHANGED <<created, deps, vertices, episode>>

(* Mutant: only the heads are offered. *)
RequestedHeads(n, inventory) == Frontier(n) \ inventory

(* The vertices a SYNC with this inventory asks node n for. *)
Requested(n, inventory) == vertices[n] \ inventory

syncHandler(m) ==
  LET n == m.to
      requested == Requested(n, m.vertices)
      requesting == m.vertices \ vertices[n]
  IN /\ net' = (net \ {m}) \cup
          (IF requested \cup requesting = {} THEN {}
           ELSE {SyncAccept(n, m.from, requested, signed[n], requesting)})
     /\ UNCHANGED <<created, deps, vertices, signed, episode>>

(* Mutant: the answer to a SYNC_ACCEPT is a request itself. *)
ReplyAgain(n, p, H, sigs, held) == {SyncAccept(n, p, H, sigs, held)}

(* The vertices the other side was lacking, if there are any. *)
Reply(n, p, H, sigs, held) == IF H = {} THEN {} ELSE {SyncAccept(n, p, H, sigs, {})}

(* Signatures are merged, own ones added and broadcast for every vertex    *)
(* held, and what the other side requests is sent.                         *)
syncAcceptHandler(m) ==
  LET n == m.to
      held == Merged(vertices[n], m.vertices)
      theirs == [h \in SyncHash |-> IF h \in DOMAIN m.signed \cap held
                                THEN MergeAggregate(signed[n][h], m.signed[h]) ELSE signed[n][h]]
      added == ToSign(n, held, theirs)
      r == recoverMissingSync(n, m.from, m.vertices \ held, held)
      after == AddSignatures(theirs, n, added)
  IN /\ vertices' = [vertices EXCEPT ![n] = held]
     /\ signed' = [signed EXCEPT ![n] = after]
     /\ episode' = [episode EXCEPT ![n][m.from] = IF m.vertices = {} THEN @ ELSE r.episode]
     /\ net' = (net \ {m}) \cup AttestationUpdate(n, added)
               \cup (IF m.vertices = {} THEN {} ELSE r.sent)
               \cup Reply(n, m.from, m.requesting \cap held, after, held)
     /\ UNCHANGED <<created, deps>>

handleMessage(m) ==
  CASE m.type = "UPDATE" -> updateHandler(m)
    [] m.type = "ATTESTATION_UPDATE" -> attestationUpdateHandler(m)
    [] m.type = "SYNC" -> syncHandler(m)
    [] m.type = "SYNC_ACCEPT" -> syncAcceptHandler(m)

Deliver(n, p, type) == \E m \in net : m.to = n /\ m.from = p /\ m.type = type /\ handleMessage(m)

(* DRPIntervalSync: a SYNC to a peer of the group. *)
intervalSync(n, p) ==
  /\ Cardinality(net) < MaxInFlight
  /\ net' = net \cup {Sync(n, p, vertices[n])}
  /\ UNCHANGED <<created, deps, vertices, signed, episode>>

(* Date.now() reaches cooldownUntil. *)
CooldownEnds(n, p) ==
  /\ episode[n][p] = Cooling
  /\ episode' = [episode EXCEPT ![n][p] = Cooled]
  /\ UNCHANGED <<created, deps, vertices, signed, net>>

Lose(m) == Lossy /\ net' = net \ {m} /\ UNCHANGED <<created, deps, vertices, signed, episode>>

MessageType == {"UPDATE", "ATTESTATION_UPDATE", "SYNC", "SYNC_ACCEPT"}

SyncNext ==
  \/ \E n \in Writer : callFn(n)
  \/ \E n \in Node : \E p \in Others(n) :
       intervalSync(n, p) \/ CooldownEnds(n, p) \/ \E t \in MessageType : Deliver(n, p, t)
  \/ \E m \in net : Lose(m)

SyncSpec == SyncInit /\ [][SyncNext]_syncVars

(* The interval keeps probing every peer, and a link on which SYNCs and    *)
(* their answers are sent again and again delivers some of them.           *)
SyncFairness ==
  \A n \in Node : \A p \in Others(n) :
    /\ SF_syncVars(intervalSync(n, p))
    /\ SF_syncVars(Deliver(n, p, "SYNC"))
    /\ SF_syncVars(Deliver(n, p, "SYNC_ACCEPT"))
    /\ WF_syncVars(Deliver(n, p, "UPDATE"))
    /\ WF_syncVars(Deliver(n, p, "ATTESTATION_UPDATE"))

FairSyncSpec == SyncSpec /\ SyncFairness
-----------------------------------------------------------------------------
(* Whatever else arrives between a SYNC and the answers to it, the answers *)
(* apply as a whole: they hold the past of every vertex in them that the   *)
(* receiver lacks, so a recovery ends with the first SYNC_ACCEPT.          *)
AcceptIsComplete ==
  \A m \in net : m.type = "SYNC_ACCEPT" =>
    m.vertices \subseteq Merged(vertices[m.to], m.vertices)

(* A signer has signed every vertex it holds, by whichever message it      *)
(* learned it, and a larger aggregate that lacks the signature does not    *)
(* make it disappear.                                                      *)
HeldIsSigned ==
  \A n \in Signer : \A h \in vertices[n] \ {Root} : n \in signed[n][h]

(* Anti-entropy: a vertex one node holds reaches every node (a node never  *)
(* loses one).  The code relies on it for all that gossip loses.           *)
Synchronises ==
  \A h \in SyncHash : []<>((\E n \in Node : h \in vertices[n]) => \A n \in Node : h \in vertices[n])

(* Once nothing new is written the nodes stop answering each other: only   *)
(* the probes of the interval are left.                                    *)
TrafficDiesDown == <>[](\A m \in net : m.type = "SYNC")

(* "Vertices learned through sync must still propagate our finality        *)
(* signatures; otherwise a sync that front-runs the gossip UPDATE would    *)
(* strand these attestations on this replica" (handlers.ts,                *)
(* syncAcceptHandler): over links that lose nothing, when no message is    *)
(* left no attestation is missing at a node that holds its vertex.         *)
NothingStranded ==
  net = {} => \A n, p \in Node : \A h \in vertices[n] \cap vertices[p] :
                p \in Signer /\ h # Root => p \in signed[n][h]
=============================================================================
