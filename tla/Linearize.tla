------------------------------ MODULE Linearize ------------------------------
(***************************************************************************)
(* The deterministic algorithms that turn a hash graph into one sequence   *)
(* of operations (packages/object/src/hashgraph/index.ts and               *)
(* packages/object/src/linearize/), on top of the sort of TopologicalSort: *)
(* the causality matrix, the pair and the multiple conflict semantics, and *)
(* the common-ancestor search.  They are pure: a graph is a function G     *)
(* from hashes to dependency sets, and the recursion replaces the loops of *)
(* the code.                                                               *)
(***************************************************************************)
EXTENDS TopologicalSort, SequencesExt

CONSTANTS
  OpOf,           \* OpOf[h]: the operation of vertex h, a record with its opType
                  \* and its first argument (the peer, for an ACL operation)
  GrantWins,      \* _conflictResolution of the ACL is GrantWins
  SetWins,        \* _conflictResolution of a MapDRP is SetWins
  GroupAction(_)  \* the answer of the DRP's resolver to a sequence of concurrent
                  \* vertices: [action |-> ..., vertices |-> the set to drop]

IsACL(o) == o.opType \in {"grant", "revoke", "setKey"}

(* Reference: the vertices of D and all their ancestors. *)
RECURSIVE PastOf(_, _)
PastOf(G, D) ==
  LET E == D \cup UNION {G[d] : d \in D} IN IF E = D THEN D ELSE PastOf(G, E)

Before(G, v, w) == v # w /\ v \in PastOf(G, {w})
Related(G, v, w) == v = w \/ Before(G, v, w) \/ Before(G, w, v)

-----------------------------------------------------------------------------

(* Mutants: the revoke wins whatever the configuration; the left vertex    *)
(* wins whichever it is. *)
resolveRevokeWins(o, p) ==
  IF {o.opType, p.opType} # {"grant", "revoke"} \/ o.arg # p.arg THEN "Nop"
  ELSE IF o.opType = "grant" THEN "DropLeft" ELSE "DropRight"
resolveLeftWins(o, p) ==
  IF {o.opType, p.opType} # {"grant", "revoke"} \/ o.arg # p.arg THEN "Nop" ELSE "DropRight"

(* ObjectACL.resolveConflicts: a grant against a revoke of the same peer,  *)
(* whatever the groups they name.                                          *)
resolveConflictsACL(o, p) ==
  CASE "setKey" \in {o.opType, p.opType} \/ o.opType = p.opType \/ o.arg # p.arg -> "Nop"
    [] GrantWins -> IF o.opType = "grant" THEN "DropRight" ELSE "DropLeft"
    [] OTHER -> IF o.opType = "grant" THEN "DropLeft" ELSE "DropRight"

(* Mutant: the operands compared the wrong way round. *)
resolveAddMulReversed(o, p) == IF o.opType = "add" /\ p.opType = "mul" THEN "Swap" ELSE "Nop"

(* AddMulDRP.resolveConflicts. *)
resolveConflictsAddMul(o, p) == IF o.opType = "mul" /\ p.opType = "add" THEN "Swap" ELSE "Nop"

(* Mutant: the set wins only where it is on the left. *)
resolveMapLeft(o, p) ==
  CASE o.arg # p.arg \/ (o.opType = "delete" /\ p.opType = "delete") -> "Nop"
    [] o.opType = "set" /\ p.opType = "set" /\ o.hash > p.hash -> "DropRight"
    [] o.opType = "set" /\ p.opType = "set" /\ o.hash < p.hash -> "DropLeft"
    [] o.opType = "set" /\ p.opType = "delete" -> IF SetWins THEN "DropRight" ELSE "DropLeft"
    [] OTHER -> "Nop"

(* MapDRP.resolveConflicts: of two writes of a key the one whose value has *)
(* the higher hash (_computeHash, 32 bits: two values may share one); of a *)
(* write and a removal the one the map is configured for.                  *)
resolveConflictsMap(o, p) ==
  CASE o.arg # p.arg \/ (o.opType = "delete" /\ p.opType = "delete") -> "Nop"
    [] o.opType = "set" /\ p.opType = "set" ->
         IF o.hash > p.hash THEN "DropRight" ELSE IF o.hash < p.hash THEN "DropLeft" ELSE "Nop"
    [] OTHER -> IF (o.opType = "set") = SetWins THEN "DropRight" ELSE "DropLeft"

(* The DRP of the model has the operations of both. *)
IsMap(o) == o.opType \in {"set", "delete"}
resolveConflictsDRP(o, p) ==
  IF IsMap(o) /\ IsMap(p) THEN resolveConflictsMap(o, p) ELSE resolveConflictsAddMul(o, p)

(* HashGraph.resolveConflicts dispatches on the type of the left vertex. *)
resolveConflicts(v, w) ==
  IF IsACL(OpOf[v]) THEN resolveConflictsACL(OpOf[v], OpOf[w])
  ELSE resolveConflictsDRP(OpOf[v], OpOf[w])

(* The same dispatch for a group.  The ACL's resolver looks at the first   *)
(* two vertices only and answers as it does for a pair.                    *)
resolveGroup(group) ==
  IF IsACL(OpOf[group[1]])
  THEN [action |-> resolveConflictsACL(OpOf[group[1]], OpOf[group[2]]), vertices |-> {}]
  ELSE GroupAction(group)

-----------------------------------------------------------------------------

(* LegacyCausalityMatrix: rows built along the order.  A dependency gets   *)
(* its own bit when a dependant ORs it in, as the legacy cache did.        *)
RECURSIVE MatrixRows(_, _, _, _)
MatrixRows(G, order, k, rows) ==
  IF k > Len(order) THEN rows
  ELSE LET h == order[k]
           D == G[h] \cap DOMAIN rows
           own == [v \in DOMAIN rows |-> IF v \in D THEN rows[v] \cup {v} ELSE rows[v]]
       IN MatrixRows(G, order, k + 1, [own EXCEPT ![h] = @ \cup UNION {own[d] : d \in D}])

LegacyCausalityMatrix(G, order) ==
  MatrixRows(G, order, 1, [v \in Range(order) |-> {}])

areRelated(rows, v, w) == w \in rows[v] \/ v \in rows[w]

swapReachablePredecessors(rows, v, w) == [rows EXCEPT ![v] = rows[w], ![w] = rows[v]]

(* The j loop of linearizePairSemantics for the anchor in position i.  The *)
(* scan state is the order, the matrix rows and the dropped positions.     *)
RECURSIVE PairScan(_, _, _)
PairScan(s, i, j) ==
  IF j > Len(s.order) THEN s
  ELSE LET anchor == s.order[i]
           other == s.order[j]
           action == resolveConflicts(anchor, other)
       IN IF j \in s.dropped \/ areRelated(s.rows, anchor, other) THEN PairScan(s, i, j + 1)
          ELSE CASE action = "DropLeft" -> [s EXCEPT !.dropped = @ \cup {i}]
                 [] action = "DropRight" -> PairScan([s EXCEPT !.dropped = @ \cup {j}], i, j + 1)
                 [] action = "Swap" ->
                      PairScan([s EXCEPT !.rows = swapReachablePredecessors(@, anchor, other),
                                         !.order = [@ EXCEPT ![i] = other, ![j] = anchor]],
                               i, i + 2)
                 [] OTHER -> PairScan(s, i, j + 1)

RECURSIVE PairAnchors(_, _, _, _)
PairAnchors(s, origin, i, result) ==
  IF i > Len(s.order) THEN result
  ELSE IF s.order[i] = origin \/ i \in s.dropped THEN PairAnchors(s, origin, i + 1, result)
  ELSE LET t == PairScan(s, i, i + 1)
       IN PairAnchors(t, origin, i + 1,
                      IF i \in t.dropped THEN result ELSE Append(result, t.order[i]))

linearizePairSemantics(G, origin, sub) ==
  LET order == dfsTopologicalSortIterative(G, origin, sub)
  IN PairAnchors([order |-> order, rows |-> LegacyCausalityMatrix(G, order), dropped |-> {}],
                 origin, 1, <<>>)
-----------------------------------------------------------------------------

(* The group linearizeMultipleSemantics collects behind anchor and moving: *)
(* each later position that is not dropped and concurrent with all of it.  *)
RECURSIVE CollectGroup(_, _, _)
CollectGroup(s, k, group) ==
  IF k > Len(s.order) THEN group
  ELSE CollectGroup(s, k + 1,
         IF k \notin s.dropped /\ \A h \in Range(group) : ~areRelated(s.rows, h, s.order[k])
         THEN Append(group, s.order[k]) ELSE group)

MultipleStart(G, origin, sub) ==
  LET order == dfsTopologicalSortIterative(G, origin, sub)
  IN [order |-> order, rows |-> LegacyCausalityMatrix(G, order), origin |-> origin,
      dropped |-> {}, i |-> 1, j |-> 0, result |-> <<>>]

MultipleDone(s) == s.i > Len(s.order)

(* Mutant: the group is not tested against the vertices added to it. *)
GroupOfAnchor(s) ==
  <<s.order[s.i], s.order[s.j]>>
    \o SelectSeq(SubSeq(s.order, s.j + 1, Len(s.order)),
                 LAMBDA h : ~areRelated(s.rows, s.order[s.i], h))

(* The group the scan resolves in state s; j = 0 is the head of the outer  *)
(* loop, before an anchor is chosen.                                       *)
MultipleGroup(s) == CollectGroup(s, s.j + 1, <<s.order[s.i], s.order[s.j]>>)

Resolving(s) ==
  /\ ~MultipleDone(s)
  /\ s.j \in 1 .. Len(s.order)
  /\ s.j \notin s.dropped
  /\ ~areRelated(s.rows, s.order[s.i], s.order[s.j])

(* Mutant: the index of the vertex before. *)
PositionsBefore(s, S) == {k \in DOMAIN s.order : k + 1 \in DOMAIN s.order /\ s.order[k + 1] \in S}

(* The positions the indices map gives for a set of hashes. *)
PositionsOf(s, S) == {k \in DOMAIN s.order : s.order[k] \in S}

(* Mutant: Nop does not move to the next position either. *)
ResolveDropOnly(s) ==
  LET resolved == resolveGroup(MultipleGroup(s))
      drop == s.dropped \cup PositionsOf(s, resolved.vertices)
  IN IF resolved.action = "Drop"
     THEN [s EXCEPT !.dropped = drop, !.j = IF s.i \in drop THEN Len(s.order) + 1 ELSE @]
     ELSE s

(* The switch on the resolver's answer: Drop stays at the same position    *)
(* unless the anchor is gone, Nop moves on, any other answer does nothing. *)
ResolveStep(s) ==
  LET resolved == resolveGroup(MultipleGroup(s))
      drop == s.dropped \cup PositionsOf(s, resolved.vertices)
  IN CASE resolved.action = "Drop" ->
            [s EXCEPT !.dropped = drop, !.j = IF s.i \in drop THEN Len(s.order) + 1 ELSE @]
       [] resolved.action = "Nop" -> [s EXCEPT !.j = @ + 1]
       [] OTHER -> s

(* One iteration of either while loop of linearizeMultipleSemantics. *)
MultipleStep(s) ==
  LET skipped == s.order[s.i] = s.origin \/ s.i \in s.dropped
  IN CASE s.j = 0 -> IF skipped THEN [s EXCEPT !.i = @ + 1] ELSE [s EXCEPT !.j = s.i + 1]
       [] s.j > Len(s.order) ->
            [s EXCEPT !.i = @ + 1, !.j = 0,
                      !.result = IF s.i \in s.dropped THEN @ ELSE Append(@, s.order[s.i])]
       [] Resolving(s) -> ResolveStep(s)
       [] OTHER -> [s EXCEPT !.j = @ + 1]

RECURSIVE MultipleLoop(_)
MultipleLoop(s) == IF MultipleDone(s) THEN s.result ELSE MultipleLoop(MultipleStep(s))

linearizeMultipleSemantics(G, origin, sub) == MultipleLoop(MultipleStart(G, origin, sub))

-----------------------------------------------------------------------------

(* vertexDistances, as addVertex computes them. *)
RECURSIVE DistanceOf(_, _)
DistanceOf(G, v) ==
  IF G[v] = {} THEN 0
  ELSE 1 + CHOOSE n \in {DistanceOf(G, d) : d \in G[v]} : \A d \in G[v] : n <= DistanceOf(G, d)

ClosestOf(G, v) ==
  LET nearest == {c \in G[v] : DistanceOf(G, c) + 1 = DistanceOf(G, v)}
  IN CHOOSE c \in nearest : \A d \in nearest : c <= d

(* lowestCommonAncestorPairVertices: the deeper end steps to its closest   *)
(* dependency; its other dependencies become further targets.              *)
RECURSIVE LcaPair(_, _, _, _, _)
LcaPair(G, u, v, visited, targets) ==
  IF u = v THEN [lca |-> u, visited |-> visited, targets |-> targets]
  ELSE LET deeper == IF DistanceOf(G, u) > DistanceOf(G, v) THEN u ELSE v
           other == IF deeper = u THEN v ELSE u
           up == ClosestOf(G, deeper)
           more == targets \o SetToSortSeq(G[deeper] \ (visited \cup {up}), <)
       IN IF up \in visited THEN [lca |-> other, visited |-> visited, targets |-> more]
          ELSE IF deeper = u THEN LcaPair(G, up, v, visited \cup {up}, more)
          ELSE LcaPair(G, u, up, visited \cup {up}, more)

RECURSIVE LcaTargets(_, _, _)
LcaTargets(G, k, r) ==
  IF k > Len(r.targets) THEN r
  ELSE LET t == r.targets[k]
       IN LcaTargets(G, k + 1,
            IF t \in r.visited THEN r
            ELSE LcaPair(G, r.lca, t, r.visited \cup {r.lca, t}, r.targets))

(* Mutant: the other dependencies met on the way up are forgotten. *)
LcaOfFirstTwo(G, hashes) ==
  LcaPair(G, hashes[1], hashes[2], {hashes[1], hashes[2]}, hashes)

(* lowestCommonAncestorMultipleVertices, for two or more hashes. *)
lowestCommonAncestorMultipleVertices(G, hashes) ==
  LcaTargets(G, 2, [lca |-> hashes[1], visited |-> {}, targets |-> hashes])
-----------------------------------------------------------------------------

(* Replay from a checkpoint (drp-applier.ts).  F is the frontier the       *)
(* checkpoint was taken at, D the dependencies to replay to.               *)
Least(S) == CHOOSE x \in S : \A y \in S : x <= y

(* dependenciesCover: D is F, or all of F is behind each of D. *)
dependenciesCover(G, D, F) == D = F \/ \A d \in D : F \subseteq PastOf(G, {d})

(* collectSuffixSubgraph: the walk back from D that stops at F ... *)
RECURSIVE WalkBack(_, _, _)
WalkBack(G, F, S) ==
  LET E == S \cup UNION {G[v] : v \in S \ F} IN IF E = S THEN S ELSE WalkBack(G, F, E)

SuffixMembers(G, D, F) == WalkBack(G, F, D) \ F

(* Mutant: no barrier between the checkpoint and the suffix. *)
NoBarrier(G, D, F) == TRUE

(* ... is used only when every head of F reaches every member of it. *)
CausalBarrier(G, D, F) ==
  LET members == SuffixMembers(G, D, F)
  IN \A f \in F : members \subseteq ReachedFrom(G, members \cup F, {f})

=============================================================================
