------------------------------ MODULE HashGraph ------------------------------
(***************************************************************************)
(* The hash graph every replica of one object keeps                        *)
(* (packages/object/src/hashgraph/index.ts): the vertices it has admitted, *)
(* the frontier new vertices depend on, the forward edges the topological  *)
(* sort walks, the distance to the root the common-ancestor search walks,  *)
(* and the predecessor cache behind the causality queries.                 *)
(*                                                                         *)
(* A vertex is its hash, a number: hashes are compared by the sort only,   *)
(* and ordered as the strings are.  The hash covers the dependencies, so   *)
(* what a vertex depends on is the same on every replica and deps is one   *)
(* function for the whole system.  past is a history variable: the         *)
(* ancestors of a vertex, fixed when it is created.                        *)
(***************************************************************************)
EXTENDS TopologicalSort

CONSTANTS
  Hash,      \* hashes of the vertices that may be created, root excluded
  Root,      \* HashGraph.rootHash
  Replica,
  Querying   \* bound: the replicas that are asked causality queries

ASSUME HashGraphAssumption ==
  Hash \subseteq Int /\ Root \in Int \ Hash /\ Querying \subseteq Replica

VARIABLES
  created,               \* hashes of the vertices some replica has created
  deps,                  \* deps[h]: the dependencies vertex h carries
  past,                  \* past[h]: the ancestors of h (history variable)
  vertices,              \* vertices[r]: keys of the replica's vertex map
  frontier,              \* frontier[r]
  forwardEdges,          \* forwardEdges[r][h]: children of h
  distance,              \* vertexDistances[r][h].distance
  closest,               \* vertexDistances[r][h].closestDependency
  fresh,                 \* arePredecessorsFresh[r]
  scoped,                \* arePredecessorsScoped[r]
  reachablePredecessors  \* reachablePredecessors[r]: the row of each vertex last sorted

vars == <<created, deps, past, vertices, frontier, forwardEdges, distance,
          closest, fresh, scoped, reachablePredecessors>>

Vertex == Hash \cup {Root}

(* constructor: every replica starts with the root vertex alone. *)
Init ==
  /\ created = {}
  /\ deps = [h \in Vertex |-> {}]
  /\ past = [h \in Vertex |-> {}]
  /\ vertices = [r \in Replica |-> {Root}]
  /\ frontier = [r \in Replica |-> {Root}]
  /\ forwardEdges = [r \in Replica |-> [h \in Vertex |-> {}]]
  /\ distance = [r \in Replica |-> [h \in Vertex |-> 0]]
  /\ closest = [r \in Replica |-> [h \in Vertex |-> Root]]
  /\ fresh = [r \in Replica |-> FALSE]
  /\ scoped = [r \in Replica |-> FALSE]
  /\ reachablePredecessors = [r \in Replica |-> [h \in {} |-> {}]]

(* getFrontier returns a copy of the frontier. *)
getFrontier(r) == frontier[r]

(* The dependencies among D that are nearest to the root; addVertex keeps  *)
(* the first of them in list order, an order the model leaves open.        *)
Nearest(r, D) == {d \in D : \A e \in D : distance[r][d] <= distance[r][e]}

(* Mutant: only the nearest dependency leaves the frontier. *)
addVertexKeepsHeads(r, h, D) ==
  /\ vertices' = [vertices EXCEPT ![r] = @ \cup {h}]
  /\ forwardEdges' = [forwardEdges EXCEPT ![r] =
                        [v \in Vertex |-> IF v \in D THEN @[v] \cup {h} ELSE @[v]]]
  /\ \E c \in Nearest(r, D) :
       /\ frontier' = [frontier EXCEPT ![r] = (@ \cup {h}) \ {c}]
       /\ distance' = [distance EXCEPT ![r][h] = distance[r][c] + 1]
       /\ closest' = [closest EXCEPT ![r][h] = c]
  /\ fresh' = [fresh EXCEPT ![r] = FALSE]
  /\ scoped' = [scoped EXCEPT ![r] = FALSE]
  /\ UNCHANGED reachablePredecessors

(* addVertex: map, frontier, forward edges, distance, cache invalidation. *)
addVertex(r, h, D) ==
  /\ vertices' = [vertices EXCEPT ![r] = @ \cup {h}]
  /\ frontier' = [frontier EXCEPT ![r] = (@ \cup {h}) \ D]
  /\ forwardEdges' = [forwardEdges EXCEPT ![r] =
                        [v \in Vertex |-> IF v \in D THEN @[v] \cup {h} ELSE @[v]]]
  /\ \E c \in Nearest(r, D) :
       /\ distance' = [distance EXCEPT ![r][h] = distance[r][c] + 1]
       /\ closest' = [closest EXCEPT ![r][h] = c]
  /\ fresh' = [fresh EXCEPT ![r] = FALSE]
  /\ scoped' = [scoped EXCEPT ![r] = FALSE]
  /\ UNCHANGED reachablePredecessors

(* A local call: createVertex takes the frontier as the dependencies, and  *)
(* the vertex passes its own validation and is added.                      *)
createVertex(r, h) ==
  LET D == getFrontier(r) IN
  /\ h \notin created
  /\ created' = created \cup {h}
  /\ deps' = [deps EXCEPT ![h] = D]
  /\ past' = [past EXCEPT ![h] = D \cup UNION {past[d] : d \in D}]
  /\ addVertex(r, h, D)

(* Mutant: one known dependency is enough. *)
validateSomeDependency(r, h) == deps[h] \cap vertices[r] # {}

(* validateVertexDependencies: some dependencies, and all of them known. *)
validateVertexDependencies(r, h) == deps[h] # {} /\ deps[h] \subseteq vertices[r]

(* A vertex another replica created is delivered and admitted; one already *)
(* in the map is skipped, one that fails validation changes nothing here.  *)
applyVertex(r, h) ==
  /\ h \in created
  /\ h \notin vertices[r]
  /\ validateVertexDependencies(r, h)
  /\ addVertex(r, h, deps[h])
  /\ UNCHANGED <<created, deps, past>>

(* Mutant: a row gets its dependencies' bits and not their rows. *)
RowsDirect(S) == [v \in S |-> deps[v] \cap S]

(* The rows topologicalSort(true) computes for the vertices S: each takes  *)
(* over the rows of its dependencies in S.  A dependency's own bit is set  *)
(* in its own row on the way.                                              *)
Rows(S) ==
  LET reachable[v \in S] == UNION {reachable[d] \cup {d} : d \in deps[v] \cap S}
  IN [v \in S |-> reachable[v] \cup {d \in {v} : \E w \in S : d \in deps[w]}]

(* topologicalSort(true, origin, subgraph): the cache then answers for     *)
(* the whole graph, or for the vertices sorted only.                       *)
topologicalSort(r, S) ==
  /\ reachablePredecessors' = [reachablePredecessors EXCEPT ![r] = Rows(S)]
  /\ fresh' = [fresh EXCEPT ![r] = (S = vertices[r])]
  /\ scoped' = [scoped EXCEPT ![r] = (S # vertices[r])]
  /\ UNCHANGED <<created, deps, past, vertices, frontier, forwardEdges, distance, closest>>

(* The sets of vertices with all of their past that a replica holds. *)
Pasts(r) == {D \cup UNION {past[d] : d \in D} : D \in SUBSET vertices[r]}

(* The subgraph getLCA hands to the sort: of the past S of some vertices,  *)
(* what lies above the origin.                                             *)
Between(origin, S) == {v \in S : v = origin \/ origin \in past[v]}

sortSubgraph(r, S) == \E origin \in S : topologicalSort(r, Between(origin, S))

InScope(r, a, b) == {a, b} \subseteq DOMAIN reachablePredecessors[r]

(* areCausallyRelatedUsingBitsets rebuilds a cache that cannot answer.     *)
RefreshForQuery(r, a, b) ==
  /\ a # b
  /\ ~fresh[r] /\ ~(scoped[r] /\ InScope(r, a, b))
  /\ topologicalSort(r, vertices[r])

(* The answer of a cache that is trusted. *)
areCausallyRelatedUsingBitsets(r, a, b) ==
  b \in reachablePredecessors[r][a] \/ a \in reachablePredecessors[r][b]

Next ==
  \/ \E r \in Replica, h \in Hash : createVertex(r, h)
  \/ \E r \in Replica, h \in Hash : applyVertex(r, h)
  \/ \E r \in Querying : \E a, b \in vertices[r] : RefreshForQuery(r, a, b)
  \/ \E r \in Querying : \E S \in Pasts(r) : sortSubgraph(r, S)

Spec == Init /\ [][Next]_vars

-----------------------------------------------------------------------------

(* The shape of the state. *)
TypeOK ==
  /\ created \subseteq Hash
  /\ deps \in [Vertex -> SUBSET Vertex]
  /\ past \in [Vertex -> SUBSET Vertex]
  /\ vertices \in [Replica -> SUBSET Vertex]
  /\ frontier \in [Replica -> SUBSET Vertex]
  /\ forwardEdges \in [Replica -> [Vertex -> SUBSET Vertex]]
  /\ distance \in [Replica -> [Vertex -> Nat]]
  /\ closest \in [Replica -> [Vertex -> Vertex]]
  /\ fresh \in [Replica -> BOOLEAN]
  /\ scoped \in [Replica -> BOOLEAN]
  /\ \A r \in Replica : \E S \in SUBSET vertices[r] : reachablePredecessors[r] \in [S -> SUBSET S]

(* A replica never holds a vertex without holding everything that happened *)
(* before it, in whatever order the vertices reach it: validation refuses  *)
(* a vertex with an unknown dependency (validation/src/vertex.ts).         *)
CausallyClosed == \A r \in Replica : \A v \in vertices[r] : past[v] \subseteq vertices[r]

(* The incrementally maintained frontier is exactly the set of vertices    *)
(* without a child, so addVertex never leaves a covered vertex in it and   *)
(* never loses a head, on any replica and after any delivery order.        *)
FrontierIsHeads ==
  \A r \in Replica :
    frontier[r] = {v \in vertices[r] : \A w \in vertices[r] : v \notin deps[w]}

(* No dependency of a vertex is an ancestor of another one.  The depth     *)
(* first sort emits each vertex once only because of this: a vertex that   *)
(* depends on p and on a descendant of p would be scheduled twice.         *)
DepsAntichain == \A h \in created : \A d, e \in deps[h] : d \notin past[e]

(* A local call's vertex has the replica's whole graph as its past.  The   *)
(* applier relies on it when it runs the call on the live state instead of *)
(* replaying the dependencies (drp-applier.ts computeOperation).           *)
LocalVertexSeesAll ==
  [][\A r \in Replica, h \in Hash :
       (h \in created' \ created /\ h \in vertices'[r]) => past'[h] = vertices[r]]_vars

(* "Public causality queries may reuse them only when both requested       *)
(* hashes are inside that exact scope": whenever a query is answered from  *)
(* the cache, fresh or scoped, the answer is the causality of the graph as *)
(* it is now, whatever was added or sorted since.                          *)
CausalityCacheSound ==
  \A r \in Replica : \A a, b \in vertices[r] :
    a # b /\ (fresh[r] \/ scoped[r]) /\ InScope(r, a, b) =>
      (areCausallyRelatedUsingBitsets(r, a, b) <=> a \in past[b] \/ b \in past[a])

(* An order of the vertices of S: each once, none before one of its past. *)
LinearExtension(order, S) ==
  /\ Len(order) = Cardinality(S) /\ Range(order) = S
  /\ \A i, j \in DOMAIN order : order[i] \in past[order[j]] => i < j

(* The forward edges of a replica, kept as vertices are added in whatever  *)
(* order, are those of its graph, and along them whatever it sorts, its    *)
(* whole graph or what lies between an origin and some vertices, is put    *)
(* into an order that lists each vertex once and none before its           *)
(* ancestors, although the sort looks at direct dependencies only and      *)
(* keeps no set of what it has emitted (addVertex,                         *)
(* dfsTopologicalSortIterative).                                           *)
SortsAreLinear ==
  /\ \A r \in Replica :
       /\ \A v \in vertices[r] : forwardEdges[r][v] = Children(deps, v) \cap vertices[r]
       /\ LinearExtension(dfsTopologicalSortIterative(deps, Root, vertices[r]), vertices[r])
  /\ \A S \in UNION {Pasts(r) : r \in Replica} : \A origin \in S :
       LET sub == Between(origin, S)
       IN LinearExtension(dfsTopologicalSortIterative(deps, origin, sub), sub)
=============================================================================
