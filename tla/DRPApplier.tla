----------------------------- MODULE DRPApplier -----------------------------
(***************************************************************************)
(* DRPVertexApplier (packages/object/src/drp-applier.ts): how a replica    *)
(* runs local calls, merges the vertices other replicas send, keeps a      *)
(* snapshot per vertex, and replays from checkpoints instead of the root.  *)
(*                                                                         *)
(* The state of the DRP and of its ACL is abstracted to the sequence of    *)
(* operations applied to reach it: two states are the same if they come    *)
(* from the same sequence.  A merge awaits after each vertex and again     *)
(* while it replays, so it takes several steps here; messages for one      *)
(* object are handled one at a time, so a replica has one merge in flight. *)
(* Nothing keeps the application from calling the DRP during those awaits, *)
(* nor a message from arriving while an asynchronous method of the DRP is  *)
(* pending, and application code may throw during a merge.  A replica to   *)
(* which one of these has happened is disturbed.                           *)
(***************************************************************************)
EXTENDS Linearize, TLC

CONSTANTS
  Replica,
  MaxVertices,     \* bound: hashes are 1 .. MaxVertices
  Root,
  SuffixSize,      \* checkpointSuffixSize
  MaxCheckpoints,  \* MAX_CHECKPOINTS
  OverlapBound,    \* bound: a call and a merge of a replica begin to overlap, and
  ThrowBound       \* bound: merges throw, only while fewer vertices than this exist

VARIABLES
  deps,         \* deps[h]: the dependencies of each vertex created so far
  vertices,     \* vertices[r]: keys of the vertex map, in insertion order
  live,         \* live[r]: the live DRP and ACL
  states,       \* states[r]: vertex |-> snapshot
  checkpoints,  \* checkpoints[r]
  call,         \* call[r]: the asynchronous call in flight, <<>> or one record
  merge,        \* merge[r]: the merge in flight, <<>> or one record
  disturbed     \* disturbed: the replicas where a call and a merge overlapped, or a
                \* merge threw; history, for the properties

vars == <<deps, vertices, live, states, checkpoints, call, merge, disturbed>>

Created == 1 .. MaxVertices

Known(r) == Range(vertices[r])
Graph(r) == [h \in Known(r) |-> deps[h]]
getFrontier(r) == {v \in Known(r) : \A w \in Known(r) : v \notin deps[w]}

RootCheckpoint == [frontier |-> {Root}, origin |-> Root, vertexCount |-> 1, state |-> <<>>]

Init ==
  /\ deps = (Root :> {})
  /\ vertices = [r \in Replica |-> <<Root>>]
  /\ live = [r \in Replica |-> <<>>]
  /\ states = [r \in Replica |-> (Root :> <<>>)]
  /\ checkpoints = [r \in Replica |-> <<RootCheckpoint>>]
  /\ call = [r \in Replica |-> <<>>]
  /\ merge = [r \in Replica |-> <<>>]
  /\ disturbed = {}

-----------------------------------------------------------------------------

(* The checkpoints getReplay may start from. *)
Usable(r, D) ==
  {k \in DOMAIN checkpoints[r] :
     /\ dependenciesCover(Graph(r), D, checkpoints[r][k].frontier)
     /\ CausalBarrier(Graph(r), D, checkpoints[r][k].frontier)}

(* getReplay and the application of what it returns: the latest usable     *)
(* checkpoint's state, then the suffix linearized from its origin.         *)
getReplay(r, D) ==
  LET c == checkpoints[r][Max(Usable(r, D))]
  IN c.state \o linearizePairSemantics(Graph(r), c.origin,
                                       {c.origin} \cup SuffixMembers(Graph(r), D, c.frontier))

(* pruneSnapshots after a checkpoint is taken of all the vertices in the   *)
(* map: what the retained checkpoints start at stays, and the root.        *)
pruneSnapshots(snapshots, points) ==
  LET kept == {Root} \cup UNION {c.frontier : c \in Range(points)}
  IN [h \in DOMAIN snapshots \cap kept |-> snapshots[h]]

(* Mutants: one head stands for the frontier; the limit is not enforced;   *)
(* the root's checkpoint makes room.                                       *)
advanceOneHead(r, st) ==
  LET head == Least(getFrontier(r))
      point == [frontier |-> {head}, origin |-> head, vertexCount |-> Len(vertices[r]), state |-> st]
  IN [points |-> IF Len(checkpoints[r]) = MaxCheckpoints \/ Len(vertices[r]) <= SuffixSize
                 THEN checkpoints[r] ELSE Append(checkpoints[r], point),
      snapshots |-> states[r]]

advanceEvictsRoot(r, st) ==
  LET grown == Append(checkpoints[r],
                [frontier |-> getFrontier(r), origin |-> Least(getFrontier(r)),
                 vertexCount |-> Len(vertices[r]), state |-> st])
  IN [points |-> IF Len(grown) > MaxCheckpoints THEN Tail(grown) ELSE grown,
      snapshots |-> states[r]]

(* advanceCheckpointIfNeeded, with st as the live state.  The oldest       *)
(* checkpoint after the root's makes room.                                 *)
advanceCheckpointIfNeeded(r, st) ==
  LET latest == checkpoints[r][Len(checkpoints[r])]
      point == [frontier |-> getFrontier(r), origin |-> Least(getFrontier(r)),
                vertexCount |-> Len(vertices[r]), state |-> st]
      grown == Append(checkpoints[r], point)
      kept == IF Len(grown) > MaxCheckpoints THEN RemoveAt(grown, 2) ELSE grown
  IN IF Len(vertices[r]) - latest.vertexCount < SuffixSize
     THEN [points |-> checkpoints[r], snapshots |-> states[r]]
     ELSE [points |-> kept, snapshots |-> pruneSnapshots(states[r], kept)]

-----------------------------------------------------------------------------

Idle(r) == merge[r] = <<>> /\ call[r] = <<>>

(* Another call or merge is in flight: what begins now disturbs the        *)
(* replica.                                                                *)
Disturb(r, other) ==
  /\ other # <<>> => Cardinality(DOMAIN deps \ {Root}) < OverlapBound
  /\ disturbed' = IF other # <<>> THEN disturbed \cup {r} ELSE disturbed

(* A synchronous call: the pipeline from createVertex to notify runs in    *)
(* one turn.  The vertex depends on the frontier; the operation runs on a  *)
(* copy of the live state, which becomes the live state and its snapshot.  *)
callFn(r, h) ==
  LET adv == advanceCheckpointIfNeeded(r, live[r])
      after == Append(live[r], h)
  IN /\ call[r] = <<>> /\ Disturb(r, merge[r]) /\ h \notin DOMAIN deps
     /\ deps' = deps @@ (h :> getFrontier(r))
     /\ vertices' = [vertices EXCEPT ![r] = Append(@, h)]
     /\ live' = [live EXCEPT ![r] = after]
     /\ checkpoints' = [checkpoints EXCEPT ![r] = adv.points]
     /\ states' = [states EXCEPT ![r] = adv.snapshots @@ (h :> after)]
     /\ UNCHANGED <<call, merge>>

(* A call that is refused (not a writer), throws, or changes nothing stops *)
(* in the pipeline after getLCA: only the checkpoint may have advanced.    *)
callFnStops(r) ==
  LET adv == advanceCheckpointIfNeeded(r, live[r])
  IN /\ call[r] = <<>> /\ Disturb(r, merge[r])
     /\ adv.points # checkpoints[r]
     /\ checkpoints' = [checkpoints EXCEPT ![r] = adv.points]
     /\ states' = [states EXCEPT ![r] = adv.snapshots]
     /\ UNCHANGED <<deps, vertices, live, call, merge>>

(* A call of an asynchronous method: the dependencies and the copy of the  *)
(* live state are taken before the await ...                               *)
callFnAsync(r, h) ==
  LET adv == advanceCheckpointIfNeeded(r, live[r])
  IN /\ call[r] = <<>> /\ Disturb(r, merge[r]) /\ h \notin DOMAIN deps
     /\ deps' = deps @@ (h :> getFrontier(r))
     /\ call' = [call EXCEPT ![r] = <<[hash |-> h, base |-> live[r]]>>]
     /\ checkpoints' = [checkpoints EXCEPT ![r] = adv.points]
     /\ states' = [states EXCEPT ![r] = adv.snapshots]
     /\ UNCHANGED <<vertices, live, merge>>

(* ... and assigned, with the vertex added, after it. *)
callFnResumes(r) ==
  \E c \in Range(call[r]) :
    LET after == Append(c.base, c.hash)
    IN /\ live' = [live EXCEPT ![r] = after]
       /\ states' = [states EXCEPT ![r] = @ @@ (c.hash :> after)]
       /\ vertices' = [vertices EXCEPT ![r] = Append(@, c.hash)]
       /\ call' = [call EXCEPT ![r] = <<>>]
       /\ UNCHANGED <<deps, checkpoints, merge, disturbed>>
-----------------------------------------------------------------------------

(* applyVertices is called with vertices replica s sent: some of those r   *)
(* lacks, in the order s inserted them.                                    *)
mergeBegin(r, s) ==
  /\ merge[r] = <<>> /\ Disturb(r, call[r])
  /\ \E S \in SUBSET (Known(s) \ Known(r)) :
       /\ S # {}
       /\ merge' = [merge EXCEPT ![r] =
            <<[batch |-> SelectSeq(vertices[s], LAMBDA h : h \in S), replay |-> <<>>]>>]
  /\ UNCHANGED <<deps, vertices, live, states, checkpoints, call>>

(* Mutant: the live state is taken for the state at the dependencies. *)
LiveAsBase(r, h) == live[r]

(* The state the operation of a remote vertex runs on (getLCA and          *)
(* computeOperation): the snapshot of a single dependency that still has   *)
(* one, else a replay to the dependencies.                                 *)
BaseState(r, h) ==
  IF Cardinality(deps[h]) = 1 /\ deps[h] \subseteq DOMAIN states[r]
  THEN states[r][CHOOSE d \in deps[h] : TRUE]
  ELSE getReplay(r, deps[h])

Applicable(r, h) == h \notin Known(r) /\ deps[h] \subseteq Known(r)

(* The next vertex of the batch: skipped if known, reported missing if a   *)
(* dependency is, else validated, applied, snapshotted and added.          *)
mergeVertex(r) ==
  \E m \in Range(merge[r]) :
    /\ m.batch # <<>>
    /\ merge' = [merge EXCEPT ![r] = <<[m EXCEPT !.batch = Tail(@)]>>]
    /\ LET h == Head(m.batch)
       IN IF Applicable(r, h)
          THEN /\ vertices' = [vertices EXCEPT ![r] = Append(@, h)]
               /\ states' = [states EXCEPT ![r] = @ @@ (h :> Append(BaseState(r, h), h))]
          ELSE UNCHANGED <<vertices, states>>
    /\ UNCHANGED <<deps, live, checkpoints, call, disturbed>>

(* A method or a resolver throws while a vertex is applied, or while the   *)
(* live state is replayed: the merge is abandoned where it stands.         *)
mergeThrows(r) ==
  /\ Cardinality(DOMAIN deps \ {Root}) < ThrowBound
  /\ disturbed' = disturbed \cup {r}
  /\ \E m \in Range(merge[r]) :
       \A k \in DOMAIN m.batch : k = 1 => Applicable(r, m.batch[k])
  /\ merge' = [merge EXCEPT ![r] = <<>>]
  /\ UNCHANGED <<deps, vertices, live, states, checkpoints, call>>

(* All vertices tried: the replay to the frontier is chosen and begun ... *)
mergeReplay(r) ==
  \E m \in Range(merge[r]) :
    /\ m.batch = <<>> /\ m.replay = <<>>
    /\ merge' = [merge EXCEPT ![r] = <<[m EXCEPT !.replay = <<getReplay(r, getFrontier(r))>>]>>]
    /\ UNCHANGED <<deps, vertices, live, states, checkpoints, call, disturbed>>

(* ... and, after the awaits, assigned to the live DRP and ACL. *)
mergeAssign(r) ==
  \E m \in Range(merge[r]) : \E st \in Range(m.replay) :
    LET adv == advanceCheckpointIfNeeded(r, st)
    IN /\ live' = [live EXCEPT ![r] = st]
       /\ checkpoints' = [checkpoints EXCEPT ![r] = adv.points]
       /\ states' = [states EXCEPT ![r] = adv.snapshots]
       /\ merge' = [merge EXCEPT ![r] = <<>>]
       /\ UNCHANGED <<deps, vertices, call, disturbed>>

Next ==
  \/ \E r \in Replica, h \in Created : callFn(r, h) \/ callFnAsync(r, h)
  \/ \E r \in Replica : callFnStops(r) \/ callFnResumes(r)
  \/ \E r, s \in Replica : mergeBegin(r, s)
  \/ \E r \in Replica : mergeVertex(r) \/ mergeThrows(r) \/ mergeReplay(r) \/ mergeAssign(r)

Spec == Init /\ [][Next]_vars

-----------------------------------------------------------------------------

Linearization(S) ==
  linearizePairSemantics([h \in PastOf(deps, S) |-> deps[h]], Root, PastOf(deps, S))

(* "These snapshots represent the state of the DRP and ACL objects after   *)
(* applying all operations up to a given vertex"                           *)
(* (specs/object/README.md), whatever the order in which the vertices came *)
(* and whichever checkpoint they were replayed from.                       *)
SnapshotsFaithful ==
  \A r \in Replica \ disturbed : \A h \in DOMAIN states[r] : states[r][h] = Linearization({h})

(* A checkpoint holds the state at its frontier.  A wrong one is never     *)
(* corrected: every later replay starts from it.                           *)
CheckpointsFaithful ==
  \A r \in Replica \ disturbed : \A c \in Range(checkpoints[r]) : c.state = Linearization(c.frontier)

(* Between merges the live state is the linearization of the whole graph,  *)
(* although local calls extend it in place and merges replay it from a     *)
(* checkpoint.                                                             *)
LiveIsLinearization ==
  \A r \in Replica \ disturbed : Idle(r) => live[r] = Linearization(getFrontier(r))

(* "All nodes eventually agree on the same state"                          *)
(* (specs/object/README.md): replicas that hold the same vertices and have *)
(* nothing in flight have the same state.                                  *)
Convergence ==
  \A r, s \in Replica :
    (Idle(r) /\ Idle(s) /\ Known(r) = Known(s)) => live[r] = live[s]

(* Pruning never takes the snapshot of a vertex a checkpoint starts at,    *)
(* and the root checkpoint outlives the limit, so every replay, to the     *)
(* frontier or to the dependencies of a vertex, has a state to start from. *)
ReplayHasBase ==
  \A r \in Replica :
    /\ \A D \in {getFrontier(r)} \cup {deps[h] : h \in DOMAIN deps \ {Root}} :
         D \subseteq Known(r) => Usable(r, D) # {}
    /\ Root \in DOMAIN states[r]

(* The insertion order of a replica's map lists dependencies first, also   *)
(* when calls and merges overlap or merges are abandoned: a peer that is   *)
(* sent the whole map in that order finds no dependency missing.           *)
InsertionOrderTopological ==
  \A r \in Replica : \A k \in DOMAIN vertices[r] :
    deps[vertices[r][k]] \subseteq Range(SubSeq(vertices[r], 1, k - 1))

=============================================================================
