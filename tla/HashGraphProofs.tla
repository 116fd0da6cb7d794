-------------------------- MODULE HashGraphProofs --------------------------
(***************************************************************************)
(* The hash graph of every replica, for any number of replicas and         *)
(* vertices: causal closure, the frontier, the antichain of dependencies,  *)
(* the completeness of a local vertex's past, the predecessor cache and    *)
(* the topological sort.                                                   *)
(***************************************************************************)
EXTENDS HashGraph

Known == created \cup {Root}

GraphType ==
  /\ created \subseteq Hash
  /\ deps \in [Vertex -> SUBSET Vertex]
  /\ past \in [Vertex -> SUBSET Vertex]
  /\ vertices \in [Replica -> SUBSET Vertex]
  /\ frontier \in [Replica -> SUBSET Vertex]

(* Only vertices that were created have a past, and only created ones, or  *)
(* the root, are in it.                                                    *)
PastKnown ==
  /\ \A v \in Vertex \ created : deps[v] = {} /\ past[v] = {}
  /\ \A v \in Vertex : past[v] \subseteq Known

PastIsDeps == \A v \in Vertex : past[v] = deps[v] \cup UNION {past[d] : d \in deps[v]}

PastTransitive == \A v \in Vertex : \A w \in past[v] : past[w] \subseteq past[v]

(* An ancestor of v is the direct dependency of v or of an ancestor of v.  *)
PastHasChild == \A v \in Vertex : \A w \in past[v] : \E u \in past[v] \cup {v} : w \in deps[u]

VerticesKnown == \A r \in Replica : vertices[r] \subseteq Known

(* Every vertex a replica holds is a head or an ancestor of a head. *)
FrontierCovers ==
  \A r \in Replica : \A v \in vertices[r] :
    \E f \in frontier[r] : v = f \/ v \in past[f]

IInv ==
  /\ GraphType /\ PastKnown /\ PastIsDeps /\ PastTransitive /\ PastHasChild
  /\ VerticesKnown /\ CausallyClosed /\ FrontierIsHeads /\ FrontierCovers
  /\ DepsAntichain
-----------------------------------------------------------------------------
(* The constructor: the root alone satisfies every part of the invariant. *)
LEMMA InitIInv == Init => IInv
  BY HashGraphAssumption DEF Init, IInv, GraphType, PastKnown, PastIsDeps, PastTransitive,
     PastHasChild, VerticesKnown, CausallyClosed, FrontierIsHeads, FrontierCovers,
     DepsAntichain, Known, Vertex

(* The frontier of a replica and the ancestors of it are its whole graph:  *)
(* what createVertex takes as dependencies reaches everything.             *)
LEMMA FrontierReachesAll ==
  ASSUME IInv, NEW r \in Replica
  PROVE  frontier[r] \cup UNION {past[d] : d \in frontier[r]} = vertices[r]
<1>1. frontier[r] \subseteq vertices[r]
  BY DEF IInv, FrontierIsHeads
<1>2. \A d \in frontier[r] : past[d] \subseteq vertices[r]
  BY <1>1 DEF IInv, CausallyClosed
<1>3. \A v \in vertices[r] : v \in frontier[r] \/ \E f \in frontier[r] : v \in past[f]
  BY DEF IInv, FrontierCovers
<1> QED BY <1>1, <1>2, <1>3

(* No head is an ancestor of a vertex the replica holds. *)
LEMMA HeadsHaveNoDescendant ==
  ASSUME IInv, NEW r \in Replica, NEW d \in frontier[r], NEW e \in vertices[r]
  PROVE  d \notin past[e]
<1> SUFFICES ASSUME d \in past[e] PROVE FALSE
  OBVIOUS
<1>1. e \in Vertex
  BY DEF IInv, GraphType
<1>2. PICK u \in past[e] \cup {e} : d \in deps[u]
  BY <1>1 DEF IInv, PastHasChild
<1>3. u \in vertices[r]
  BY <1>2 DEF IInv, CausallyClosed
<1> QED BY <1>2, <1>3 DEF IInv, FrontierIsHeads

(* addVertex of a vertex h whose dependencies the replica holds, with the  *)
(* pasts of all other vertices unchanged, keeps the replica's graph closed *)
(* and its frontier the heads of it.                                       *)
LEMMA AddVertexKeepsGraph ==
  ASSUME IInv, NEW r \in Replica, NEW h \in Hash,
         h \notin vertices[r],
         deps'[h] \subseteq vertices[r],
         past'[h] = deps'[h] \cup UNION {past[d] : d \in deps'[h]},
         \A q \in Replica : \A v \in vertices[q] : deps'[v] = deps[v] /\ past'[v] = past[v],
         vertices' = [vertices EXCEPT ![r] = @ \cup {h}],
         frontier' = [frontier EXCEPT ![r] = (@ \cup {h}) \ deps'[h]]
  PROVE  CausallyClosed' /\ FrontierIsHeads' /\ FrontierCovers'
<1> USE DEF IInv
<1>1. /\ vertices'[r] = vertices[r] \cup {h}
      /\ frontier'[r] = (frontier[r] \cup {h}) \ deps'[h]
      /\ \A q \in Replica \ {r} : vertices'[q] = vertices[q] /\ frontier'[q] = frontier[q]
  BY DEF GraphType
<1>2. \A q \in Replica : \A v \in vertices[q] : past[v] \subseteq vertices[q] /\ deps[v] \subseteq past[v]
  BY DEF CausallyClosed, PastIsDeps, GraphType
<1>3. past'[h] \subseteq vertices[r]
  BY <1>2
<1>4. CausallyClosed'
  <2> SUFFICES ASSUME NEW q \in Replica, NEW v \in vertices'[q]
               PROVE  past'[v] \subseteq vertices'[q]
    BY DEF CausallyClosed
  <2> QED BY <1>1, <1>2, <1>3
<1>5. FrontierIsHeads'
  <2> SUFFICES ASSUME NEW q \in Replica
               PROVE  frontier'[q] = {v \in vertices'[q] : \A w \in vertices'[q] : v \notin deps'[w]}
    BY DEF FrontierIsHeads
  <2>1. frontier[q] = {v \in vertices[q] : \A w \in vertices[q] : v \notin deps[w]}
    BY DEF FrontierIsHeads
  <2>2. CASE q # r
    BY <1>1, <2>1, <2>2
  <2>3. CASE q = r
    <3>1. \A w \in vertices'[r] : h \notin deps'[w]
      BY <1>1, <1>2
    <3> QED BY <1>1, <2>1, <2>3, <3>1
  <2> QED BY <2>2, <2>3
<1>6. FrontierCovers'
  <2> SUFFICES ASSUME NEW q \in Replica, NEW v \in vertices'[q]
               PROVE  \E f \in frontier'[q] : v = f \/ v \in past'[f]
    BY DEF FrontierCovers
  <2>0. frontier[q] \subseteq vertices[q]
    BY DEF FrontierIsHeads
  <2>1. CASE q # r
    <3>1. PICK f \in frontier[q] : v = f \/ v \in past[f]
      BY <1>1, <2>1 DEF FrontierCovers
    <3> QED BY <1>1, <2>0, <2>1, <3>1
  <2>2. CASE q = r /\ v = h
    BY <1>1, <2>2
  <2>3. CASE q = r /\ v # h
    <3>1. PICK f \in frontier[q] : v = f \/ v \in past[f]
      BY <1>1, <2>3 DEF FrontierCovers
    <3>2. CASE f \notin deps'[h]
      BY <1>1, <2>0, <2>3, <3>1, <3>2
    <3>3. CASE f \in deps'[h]
      <4>1. v \in past'[h]
        BY <3>1, <3>3
      <4>2. h \in frontier'[q]
        BY <1>1, <2>3
      <4> QED BY <4>1, <4>2
    <3> QED BY <3>2, <3>3
  <2> QED BY <2>1, <2>2, <2>3
<1> QED BY <1>4, <1>5, <1>6

(* A local call keeps the invariant: the new vertex is nobody's ancestor,  *)
(* and its dependencies, the frontier, are an antichain.                   *)
LEMMA CreateVertexIInv ==
  ASSUME IInv, NEW r \in Replica, NEW h \in Hash, createVertex(r, h)
  PROVE  IInv' /\ past'[h] = vertices[r]
<1>0. /\ h \in Vertex /\ h \notin Known /\ h \notin created /\ created' = created \cup {h}
      /\ \A q \in Replica : h \notin vertices[q]
  BY HashGraphAssumption DEF createVertex, Known, Vertex, IInv, VerticesKnown
<1>1. /\ deps'[h] = frontier[r]
      /\ past'[h] = frontier[r] \cup UNION {past[d] : d \in frontier[r]}
      /\ \A v \in Vertex \ {h} : deps'[v] = deps[v] /\ past'[v] = past[v]
  BY <1>0 DEF createVertex, getFrontier, IInv, GraphType
<1>2. past'[h] = vertices[r]
  BY <1>1, FrontierReachesAll
<1>3. /\ vertices' = [vertices EXCEPT ![r] = @ \cup {h}]
      /\ frontier' = [frontier EXCEPT ![r] = (@ \cup {h}) \ deps'[h]]
  BY <1>1, Zenon DEF createVertex, addVertex, getFrontier
<1>4. frontier[r] \subseteq vertices[r] /\ vertices[r] \subseteq Known /\ Known \subseteq Vertex
  BY DEF IInv, FrontierIsHeads, VerticesKnown, GraphType, Known, Vertex
<1>5. \A v \in Vertex \ {h} : /\ past[v] \subseteq Known /\ deps[v] \subseteq past[v]
                             /\ h \notin past[v] /\ past[v] \subseteq Vertex \ {h}
  BY <1>0, <1>4 DEF IInv, PastKnown, PastIsDeps
<1>6. GraphType'
  <2>1. deps' \in [Vertex -> SUBSET Vertex] /\ past' \in [Vertex -> SUBSET Vertex]
    <3>1. frontier[r] \subseteq Vertex /\ past'[h] \subseteq Vertex
      BY <1>2, <1>4
    <3>2. /\ deps' = [deps EXCEPT ![h] = frontier[r]]
          /\ past' = [past EXCEPT ![h] = frontier[r] \cup UNION {past[d] : d \in frontier[r]}]
      BY DEF createVertex, getFrontier
    <3>3. frontier[r] \cup UNION {past[d] : d \in frontier[r]} \subseteq Vertex
      BY <3>1, <1>1
    <3> QED BY <3>1, <3>2, <3>3, <1>0 DEF IInv, GraphType
  <2>2. vertices' \in [Replica -> SUBSET Vertex] /\ frontier' \in [Replica -> SUBSET Vertex]
    BY <1>0, <1>3 DEF IInv, GraphType
  <2>3. created' \subseteq Hash
    BY <1>0 DEF IInv, GraphType
  <2> QED BY <2>1, <2>2, <2>3 DEF GraphType
<1>7. PastKnown'
  <2>1. \A v \in Vertex \ created' : deps'[v] = {} /\ past'[v] = {}
    BY <1>0, <1>1 DEF IInv, PastKnown
  <2>2. \A v \in Vertex : past'[v] \subseteq created' \cup {Root}
    BY <1>0, <1>1, <1>2, <1>4, <1>5 DEF Known
  <2> QED BY <2>1, <2>2 DEF PastKnown, Known
<1>8. PastIsDeps'
  <2> SUFFICES ASSUME NEW v \in Vertex
               PROVE  past'[v] = deps'[v] \cup UNION {past'[d] : d \in deps'[v]}
    BY DEF PastIsDeps
  <2>1. CASE v = h
    BY <1>0, <1>1, <1>4, <2>1
  <2>2. CASE v # h
    <3>1. past[v] = deps[v] \cup UNION {past[d] : d \in deps[v]}
      BY DEF IInv, PastIsDeps
    <3>2. \A d \in deps[v] : past'[d] = past[d]
      BY <1>1, <1>5, <2>2
    <3> QED BY <1>1, <2>2, <3>1, <3>2
  <2> QED BY <2>1, <2>2
<1>9. PastTransitive'
  <2> SUFFICES ASSUME NEW v \in Vertex, NEW w \in past'[v]
               PROVE  past'[w] \subseteq past'[v]
    BY DEF PastTransitive
  <2>1. CASE v = h
    BY <1>0, <1>1, <1>2, <1>4, <2>1 DEF IInv, CausallyClosed
  <2>2. CASE v # h
    BY <1>1, <1>5, <2>2 DEF IInv, PastTransitive
  <2> QED BY <2>1, <2>2
<1>10. PastHasChild'
  <2> SUFFICES ASSUME NEW v \in Vertex, NEW w \in past'[v]
               PROVE  \E u \in past'[v] \cup {v} : w \in deps'[u]
    BY DEF PastHasChild
  <2>1. CASE v = h
    <3>1. CASE w \in frontier[r]
      BY <1>1, <2>1, <3>1
    <3>2. CASE w \notin frontier[r]
      <4>1. PICK d \in frontier[r] : w \in past[d]
        BY <1>1, <2>1, <3>2
      <4>2. PICK u \in past[d] \cup {d} : w \in deps[u]
        BY <4>1, <1>4 DEF IInv, PastHasChild
      <4>3. u \in past'[h]
        BY <1>1, <4>1, <4>2
      <4>4. u \in Vertex \ {h}
        BY <1>0, <1>2, <1>4, <4>3
      <4> QED BY <1>1, <2>1, <4>2, <4>3, <4>4
    <3> QED BY <3>1, <3>2
  <2>2. CASE v # h
    <3>1. PICK u \in past[v] \cup {v} : w \in deps[u]
      BY <1>1, <2>2 DEF IInv, PastHasChild
    <3>2. u \in Vertex \ {h}
      BY <1>5, <2>2, <3>1
    <3> QED BY <1>1, <2>2, <3>1, <3>2
  <2> QED BY <2>1, <2>2
<1>11. VerticesKnown'
  BY <1>0, <1>3 DEF IInv, VerticesKnown, Known, GraphType
<1>12. DepsAntichain'
  <2> SUFFICES ASSUME NEW v \in created', NEW d \in deps'[v], NEW e \in deps'[v]
               PROVE  d \notin past'[e]
    BY DEF DepsAntichain
  <2>1. CASE v = h
    <3>1. e \in vertices[r] /\ e \in Vertex \ {h} /\ d \in frontier[r]
      BY <1>0, <1>1, <1>4, <2>1
    <3> QED BY <1>1, <3>1, HeadsHaveNoDescendant
  <2>2. CASE v # h
    <3>1. v \in created /\ v \in Vertex
      BY <1>0, <2>2 DEF IInv, GraphType, Vertex
    <3>2. e \in Vertex \ {h} /\ d \in deps[v] /\ e \in deps[v]
      BY <1>1, <1>5, <2>2, <3>1
    <3> QED BY <1>1, <3>1, <3>2 DEF IInv, DepsAntichain
  <2> QED BY <2>1, <2>2
<1>13. CausallyClosed' /\ FrontierIsHeads' /\ FrontierCovers'
  <2>1. \A q \in Replica : \A v \in vertices[q] : deps'[v] = deps[v] /\ past'[v] = past[v]
    BY <1>0, <1>1 DEF IInv, GraphType
  <2> QED BY <1>0, <1>1, <1>3, <1>4, <2>1, AddVertexKeepsGraph, Zenon
<1> QED BY <1>2, <1>6, <1>7, <1>8, <1>9, <1>10, <1>11, <1>12, <1>13 DEF IInv

(* Admitting a delivered vertex keeps the invariant: validation has seen   *)
(* to it that all its dependencies are there.                              *)
LEMMA ApplyVertexIInv ==
  ASSUME IInv, NEW r \in Replica, NEW h \in Hash, applyVertex(r, h)
  PROVE  IInv'
<1>1. /\ h \in created /\ h \notin vertices[r] /\ deps[h] \subseteq vertices[r]
      /\ UNCHANGED <<created, deps, past>> /\ h \in Vertex
  BY DEF applyVertex, validateVertexDependencies, Vertex
<1>2. /\ vertices' = [vertices EXCEPT ![r] = @ \cup {h}]
      /\ frontier' = [frontier EXCEPT ![r] = (@ \cup {h}) \ deps'[h]]
  BY <1>1 DEF applyVertex, addVertex
<1>3. past'[h] = deps'[h] \cup UNION {past[d] : d \in deps'[h]}
  BY <1>1 DEF IInv, PastIsDeps
<1>4. CausallyClosed' /\ FrontierIsHeads' /\ FrontierCovers'
  BY <1>1, <1>2, <1>3, AddVertexKeepsGraph, Zenon
<1>5. GraphType' /\ VerticesKnown'
  BY <1>1, <1>2 DEF IInv, GraphType, VerticesKnown, Known
<1>6. PastKnown' /\ PastIsDeps' /\ PastTransitive' /\ PastHasChild' /\ DepsAntichain'
  BY <1>1 DEF IInv, PastKnown, PastIsDeps, PastTransitive, PastHasChild, DepsAntichain, Known
<1> QED BY <1>4, <1>5, <1>6 DEF IInv

(* Sorting, for a query or for a subgraph, touches the cache alone. *)
LEMMA UnchangedIInv ==
  ASSUME IInv, UNCHANGED <<created, deps, past, vertices, frontier>>
  PROVE  IInv'
  BY DEF IInv, GraphType, PastKnown, PastIsDeps, PastTransitive, PastHasChild,
     VerticesKnown, CausallyClosed, FrontierIsHeads, FrontierCovers, DepsAntichain, Known

(* Every step keeps the invariant. *)
LEMMA NextIInv == IInv /\ [Next]_vars => IInv'
<1> SUFFICES ASSUME IInv, [Next]_vars PROVE IInv'
  OBVIOUS
<1>1. CASE \E r \in Replica, h \in Hash : createVertex(r, h)
  BY <1>1, CreateVertexIInv
<1>2. CASE \E r \in Replica, h \in Hash : applyVertex(r, h)
  BY <1>2, ApplyVertexIInv
<1>3. CASE \E r \in Querying : \E a, b \in vertices[r] : RefreshForQuery(r, a, b)
  <2>1. UNCHANGED <<created, deps, past, vertices, frontier>>
    BY <1>3 DEF RefreshForQuery, topologicalSort
  <2> QED BY <2>1, UnchangedIInv
<1>4. CASE \E r \in Querying : \E S \in Pasts(r) : sortSubgraph(r, S)
  <2>1. UNCHANGED <<created, deps, past, vertices, frontier>>
    BY <1>4 DEF sortSubgraph, topologicalSort
  <2> QED BY <2>1, UnchangedIInv
<1>5. CASE UNCHANGED vars
  <2>1. UNCHANGED <<created, deps, past, vertices, frontier>>
    BY <1>5 DEF vars
  <2> QED BY <2>1, UnchangedIInv
<1> QED BY <1>1, <1>2, <1>3, <1>4, <1>5 DEF Next

(* The inductive invariant holds in every reachable state. *)
THEOREM GraphInvariant == Spec => []IInv
  BY InitIInv, NextIInv, PTL DEF Spec

(* However vertices are created and delivered, no replica ever holds a     *)
(* vertex without its whole past: validateVertexDependencies is enough.    *)
THEOREM AlwaysCausallyClosed == Spec => []CausallyClosed
<1>1. IInv => CausallyClosed
  BY DEF IInv
<1> QED BY <1>1, GraphInvariant, PTL

(* The frontier addVertex keeps step by step is always the set of heads.   *)
THEOREM AlwaysFrontierIsHeads == Spec => []FrontierIsHeads
<1>1. IInv => FrontierIsHeads
  BY DEF IInv
<1> QED BY <1>1, GraphInvariant, PTL

(* No vertex depends on a vertex and on an ancestor of it: createVertex    *)
(* takes the heads.                                                        *)
THEOREM AlwaysDepsAntichain == Spec => []DepsAntichain
<1>1. IInv => DepsAntichain
  BY DEF IInv
<1> QED BY <1>1, GraphInvariant, PTL

(* The vertex of a local call has the caller's whole graph as its past, so *)
(* its operation may run on the live state.                                *)
THEOREM AlwaysLocalVertexSeesAll == Spec => LocalVertexSeesAll
<1>1. IInv /\ [Next]_vars =>
        [\A r \in Replica, h \in Hash :
           (h \in created' \ created /\ h \in vertices'[r]) => past'[h] = vertices[r]]_vars
  <2> SUFFICES ASSUME IInv, [Next]_vars, NEW q \in Replica, NEW v \in Hash,
                      v \in created' \ created, v \in vertices'[q]
               PROVE  past'[v] = vertices[q]
    OBVIOUS
  <2>1. PICK r \in Replica, h \in Hash : createVertex(r, h)
    BY DEF Next, vars, applyVertex, RefreshForQuery, sortSubgraph, topologicalSort
  <2>2. v = h /\ vertices' = [vertices EXCEPT ![r] = @ \cup {h}]
    BY <2>1 DEF createVertex, addVertex
  <2>3. v \notin vertices[q]
    BY HashGraphAssumption DEF IInv, VerticesKnown, Known
  <2>4. q = r
    BY <2>2, <2>3 DEF IInv, GraphType
  <2> QED BY <2>1, <2>2, <2>4, CreateVertexIInv
<1> QED BY <1>1, GraphInvariant, PTL DEF Spec, LocalVertexSeesAll

-----------------------------------------------------------------------------
(* Causality is well-founded: any set of vertices has one with no ancestor *)
(* in it.                                                                  *)
WellFounded == \A T \in SUBSET Vertex : T # {} => \E v \in T : past[v] \cap T = {}

(* A set of vertices sorted at once: with two of its vertices it has a     *)
(* dependency of the one that leads to the other.                          *)
Convex(S) ==
  \A v \in S : \A u \in past[v] \cap S : \E d \in deps[v] \cap S : u = d \/ u \in past[d]

(* The cache of a replica has, for each vertex of its scope, the ancestors *)
(* in the scope, and perhaps the vertex's own bit.                         *)
CacheRows ==
  /\ DOMAIN reachablePredecessors = Replica
  /\ \A r \in Replica :
       \E S \in SUBSET vertices[r] :
         /\ reachablePredecessors[r] \in [S -> SUBSET S]
         /\ \A v \in S : /\ past[v] \cap S \subseteq reachablePredecessors[r][v]
                         /\ reachablePredecessors[r][v] \subseteq past[v] \cup {v}

CacheInv == IInv /\ WellFounded /\ CacheRows

(* The rows that topologicalSort accumulates from the dependencies are the *)
(* ancestors in the set sorted, however deep the graph.                    *)
LEMMA RowsAreCausal ==
  ASSUME IInv, WellFounded, NEW S \in SUBSET Vertex, Convex(S)
  PROVE  /\ Rows(S) \in [S -> SUBSET S]
         /\ \A v \in S : /\ past[v] \cap S \subseteq Rows(S)[v]
                         /\ Rows(S)[v] \subseteq past[v] \cup {v}
<1> DEFINE F == [v \in S |-> past[v] \cap S]
           R == CHOOSE f : f = [v \in S |-> UNION {f[d] \cup {d} : d \in deps[v] \cap S}]
<1>1. Rows(S) = [v \in S |-> R[v] \cup {d \in {v} : \E w \in S : d \in deps[w]}]
  BY Zenon DEF Rows
<1>2. \A v \in S : past[v] \cap S = UNION {(past[d] \cap S) \cup {d} : d \in deps[v] \cap S}
  <2> SUFFICES ASSUME NEW v \in S
               PROVE  past[v] \cap S = UNION {(past[d] \cap S) \cup {d} : d \in deps[v] \cap S}
    OBVIOUS
  <2>1. \A d \in deps[v] : d \in past[v] /\ past[d] \subseteq past[v]
    BY DEF IInv, PastIsDeps
  <2> QED BY <2>1 DEF Convex
<1>3. F = [v \in S |-> UNION {F[d] \cup {d} : d \in deps[v] \cap S}]
  BY <1>2
<1>4. R = [v \in S |-> UNION {R[d] \cup {d} : d \in deps[v] \cap S}]
  <2> HIDE DEF F
  <2>1. \E f : f = [v \in S |-> UNION {f[d] \cup {d} : d \in deps[v] \cap S}]
    BY <1>3, Zenon
  <2> QED BY <2>1, Zenon
<1> HIDE DEF R
<1>5. \A v \in S : R[v] = UNION {R[d] \cup {d} : d \in deps[v] \cap S}
  BY <1>4
<1>6. \A v \in S : R[v] = past[v] \cap S
  <2> DEFINE T == {v \in S : R[v] # past[v] \cap S}
  <2> SUFFICES ASSUME T # {} PROVE FALSE
    OBVIOUS
  <2>1. PICK v \in T : past[v] \cap T = {}
    BY Zenon DEF WellFounded
  <2>2. \A d \in deps[v] \cap S : R[d] = past[d] \cap S
    BY <2>1 DEF IInv, PastIsDeps
  <2>3. UNION {R[d] \cup {d} : d \in deps[v] \cap S}
          = UNION {(past[d] \cap S) \cup {d} : d \in deps[v] \cap S}
    BY <2>2
  <2> QED BY <1>2, <1>5, <2>1, <2>3
<1> QED BY <1>1, <1>6

(* Creating a vertex keeps causality well-founded: nothing has the new     *)
(* vertex in its past.                                                     *)
LEMMA CreateKeepsWellFounded ==
  ASSUME IInv, WellFounded, NEW r \in Replica, NEW h \in Hash, createVertex(r, h)
  PROVE  WellFounded'
<1> SUFFICES ASSUME NEW T \in SUBSET Vertex, T # {} PROVE \E v \in T : past'[v] \cap T = {}
  BY DEF WellFounded
<1>1. h \in Vertex /\ h \notin Known /\ past'[h] = vertices[r] /\ h \notin vertices[r]
  BY HashGraphAssumption, CreateVertexIInv, Zenon DEF createVertex, Known, Vertex, IInv, VerticesKnown
<1>2. \A v \in Vertex \ {h} : past'[v] = past[v] /\ h \notin past[v]
  BY <1>1 DEF createVertex, IInv, GraphType, PastKnown
<1>3. CASE T \subseteq {h}
  BY <1>1, <1>3
<1>4. CASE ~(T \subseteq {h})
  <2>1. PICK v \in T \ {h} : past[v] \cap (T \ {h}) = {}
    BY <1>4, Zenon DEF WellFounded
  <2> QED BY <1>2, <2>1
<1> QED BY <1>3, <1>4

(* A replica's graph, and what lies above an origin in the past of some of *)
(* its vertices, can be sorted at once.                                    *)
LEMMA SortedSetsAreConvex ==
  ASSUME IInv, NEW r \in Replica
  PROVE  /\ Convex(vertices[r])
         /\ \A S \in Pasts(r) : \A origin \in S :
              Between(origin, S) \subseteq vertices[r] /\ Convex(Between(origin, S))
<1>0. /\ vertices[r] \subseteq Vertex
      /\ \A v \in vertices[r] : past[v] \subseteq vertices[r]
      /\ \A v \in vertices[r] : past[v] = deps[v] \cup UNION {past[d] : d \in deps[v]}
      /\ \A v \in vertices[r] : \A w \in past[v] : past[w] \subseteq past[v]
  BY DEF IInv, GraphType, CausallyClosed, PastIsDeps, PastTransitive
<1>1. Convex(vertices[r])
  BY <1>0 DEF Convex
<1>2. ASSUME NEW S \in Pasts(r)
      PROVE  S \subseteq vertices[r] /\ \A v \in S : past[v] \subseteq S
  <2>1. PICK D \in SUBSET vertices[r] : S = D \cup UNION {past[d] : d \in D}
    BY DEF Pasts
  <2>2. S \subseteq vertices[r]
    BY <1>0, <2>1
  <2> QED BY <1>0, <2>1, <2>2
<1>3. ASSUME NEW S \in Pasts(r), NEW origin \in S
      PROVE  Between(origin, S) \subseteq vertices[r] /\ Convex(Between(origin, S))
  <2>1. Between(origin, S) \subseteq vertices[r]
    BY <1>2 DEF Between
  <2>2. ASSUME NEW v \in Between(origin, S), NEW u \in past[v] \cap Between(origin, S)
        PROVE  \E d \in deps[v] \cap Between(origin, S) : u = d \/ u \in past[d]
    <3>1. PICK d \in deps[v] : u = d \/ u \in past[d]
      BY <1>0, <2>1
    <3>2. d \in past[v] /\ d \in vertices[r] /\ d \in S
      BY <1>0, <1>2, <2>1, <3>1 DEF Between
    <3>3. d = origin \/ origin \in past[d]
      BY <1>0, <3>1, <3>2 DEF Between
    <3> QED BY <3>1, <3>2, <3>3 DEF Between
  <2> QED BY <2>1, <2>2 DEF Convex
<1> QED BY <1>1, <1>3

(* A sort leaves rows that answer for the vertices sorted.                 *)
LEMMA SortKeepsCacheRows ==
  ASSUME IInv, WellFounded, CacheRows, NEW r \in Replica, NEW S \in SUBSET vertices[r],
         Convex(S), topologicalSort(r, S)
  PROVE  CacheRows'
<1>0. vertices' = vertices /\ past' = past
  BY DEF topologicalSort
<1>1. /\ DOMAIN reachablePredecessors' = Replica
      /\ reachablePredecessors'[r] = Rows(S)
      /\ \A q \in Replica \ {r} : reachablePredecessors'[q] = reachablePredecessors[q]
  BY DEF topologicalSort, CacheRows
<1> SUFFICES ASSUME NEW q \in Replica
             PROVE  \E T \in SUBSET vertices[q] :
                      /\ reachablePredecessors'[q] \in [T -> SUBSET T]
                      /\ \A v \in T : /\ past[v] \cap T \subseteq reachablePredecessors'[q][v]
                                      /\ reachablePredecessors'[q][v] \subseteq past[v] \cup {v}
  BY <1>0, <1>1 DEF CacheRows
<1>2. CASE q # r
  BY <1>1, <1>2 DEF CacheRows
<1>3. CASE q = r
  <2>1. S \in SUBSET Vertex
    BY DEF IInv, GraphType
  <2>2. /\ Rows(S) \in [S -> SUBSET S]
        /\ \A v \in S : /\ past[v] \cap S \subseteq Rows(S)[v]
                        /\ Rows(S)[v] \subseteq past[v] \cup {v}
    BY <2>1, RowsAreCausal
  <2> QED BY <1>1, <1>3, <2>2
<1> QED BY <1>2, <1>3

(* A new vertex leaves the rows of the others right: nobody's past changes *)
(* (addVertex only marks the cache as not fresh).                          *)
LEMMA AddKeepsCacheRows ==
  ASSUME IInv, CacheRows, UNCHANGED reachablePredecessors,
         \A q \in Replica : vertices[q] \subseteq vertices'[q],
         \A q \in Replica : \A v \in vertices[q] : past'[v] = past[v]
  PROVE  CacheRows'
<1> SUFFICES ASSUME NEW q \in Replica
             PROVE  \E T \in SUBSET vertices'[q] :
                      /\ reachablePredecessors[q] \in [T -> SUBSET T]
                      /\ \A v \in T : /\ past'[v] \cap T \subseteq reachablePredecessors[q][v]
                                      /\ reachablePredecessors[q][v] \subseteq past'[v] \cup {v}
  BY DEF CacheRows
<1>1. PICK T \in SUBSET vertices[q] :
        /\ reachablePredecessors[q] \in [T -> SUBSET T]
        /\ \A v \in T : /\ past[v] \cap T \subseteq reachablePredecessors[q][v]
                        /\ reachablePredecessors[q][v] \subseteq past[v] \cup {v}
  BY DEF CacheRows
<1> QED BY <1>1

(* The invariant of the cache: well-founded causality and causal rows.     *)
THEOREM CacheInvariant == Spec => []CacheInv
<1>1. Init => CacheInv
  <2> SUFFICES ASSUME Init PROVE CacheInv
    OBVIOUS
  <2>1. WellFounded
    BY DEF Init, WellFounded
  <2>2. CacheRows
    <3> SUFFICES ASSUME NEW r \in Replica
                 PROVE  reachablePredecessors[r] \in [{} -> SUBSET {}]
      BY Zenon DEF CacheRows, Init
    <3> QED BY DEF Init
  <2> QED BY <2>1, <2>2, InitIInv DEF CacheInv
<1>2. CacheInv /\ [Next]_vars => CacheInv'
  <2> SUFFICES ASSUME IInv, WellFounded, CacheRows, [Next]_vars PROVE WellFounded' /\ CacheRows'
    BY NextIInv DEF CacheInv
  <2>0. \A r \in Querying : r \in Replica
    BY HashGraphAssumption
  <2>1. ASSUME NEW r \in Replica, NEW h \in Hash, createVertex(r, h)
        PROVE  WellFounded' /\ CacheRows'
    <3>1. \A q \in Replica : h \notin vertices[q]
      BY <2>1, HashGraphAssumption DEF createVertex, IInv, VerticesKnown, Known
    <3>2. \A q \in Replica : \A v \in vertices[q] : past'[v] = past[v]
      BY <2>1, <3>1 DEF createVertex, IInv, GraphType
    <3>3. \A q \in Replica : vertices[q] \subseteq vertices'[q]
      BY <2>1 DEF createVertex, addVertex, IInv, GraphType
    <3>4. UNCHANGED reachablePredecessors
      BY <2>1 DEF createVertex, addVertex
    <3> QED BY <2>1, <3>2, <3>3, <3>4, AddKeepsCacheRows, CreateKeepsWellFounded
  <2>2. ASSUME NEW r \in Replica, NEW h \in Hash, applyVertex(r, h)
        PROVE  WellFounded' /\ CacheRows'
    <3>1. \A q \in Replica : vertices[q] \subseteq vertices'[q]
      BY <2>2 DEF applyVertex, addVertex, IInv, GraphType
    <3>2. UNCHANGED <<past, reachablePredecessors>>
      BY <2>2 DEF applyVertex, addVertex
    <3> QED BY <3>1, <3>2, AddKeepsCacheRows DEF WellFounded
  <2>3. ASSUME NEW r \in Querying, NEW a \in vertices[r], NEW b \in vertices[r], RefreshForQuery(r, a, b)
        PROVE  WellFounded' /\ CacheRows'
    <3>1. topologicalSort(r, vertices[r]) /\ past' = past
      BY <2>3 DEF RefreshForQuery, topologicalSort
    <3>2. PICK S \in SUBSET vertices[r] : S = vertices[r]
      OBVIOUS
    <3>3. Convex(S) /\ topologicalSort(r, S)
      BY <2>0, <3>1, <3>2, SortedSetsAreConvex
    <3> QED BY <2>0, <3>1, <3>3, SortKeepsCacheRows DEF WellFounded
  <2>4. ASSUME NEW r \in Querying, NEW P \in Pasts(r), sortSubgraph(r, P)
        PROVE  WellFounded' /\ CacheRows'
    <3>1. PICK origin \in P : topologicalSort(r, Between(origin, P))
      BY <2>4 DEF sortSubgraph
    <3>2. past' = past
      BY <3>1 DEF topologicalSort
    <3>3. PICK S \in SUBSET vertices[r] : S = Between(origin, P)
      BY <2>0, SortedSetsAreConvex
    <3>4. Convex(S) /\ topologicalSort(r, S)
      BY <2>0, <3>1, <3>3, SortedSetsAreConvex
    <3> QED BY <2>0, <3>2, <3>4, SortKeepsCacheRows DEF WellFounded
  <2>5. CASE UNCHANGED vars
    BY <2>5 DEF vars, WellFounded, CacheRows
  <2> QED BY <2>1, <2>2, <2>3, <2>4, <2>5 DEF Next
<1> QED BY <1>1, <1>2, PTL DEF Spec

(* Whenever a causality query is answered from the cache, fresh or scoped  *)
(* to a subgraph, the answer is the causality of the graph, for any graph  *)
(* and any history of additions, sorts and queries.                        *)
THEOREM AlwaysCausalityCacheSound == Spec => []CausalityCacheSound
<1>1. CacheInv => CausalityCacheSound
  <2> SUFFICES ASSUME CacheInv, NEW r \in Replica, NEW a \in vertices[r], NEW b \in vertices[r],
                      a # b, InScope(r, a, b)
               PROVE  areCausallyRelatedUsingBitsets(r, a, b) <=> a \in past[b] \/ b \in past[a]
    BY DEF CausalityCacheSound
  <2>1. PICK S \in SUBSET vertices[r] :
          /\ reachablePredecessors[r] \in [S -> SUBSET S]
          /\ \A v \in S : /\ past[v] \cap S \subseteq reachablePredecessors[r][v]
                          /\ reachablePredecessors[r][v] \subseteq past[v] \cup {v}
    BY DEF CacheInv, CacheRows
  <2>2. a \in S /\ b \in S
    BY <2>1 DEF InScope
  <2> QED BY <2>1, <2>2 DEF areCausallyRelatedUsingBitsets
<1> QED BY <1>1, CacheInvariant, PTL

-----------------------------------------------------------------------------
(* Finitely many vertices are created, and all descend from the root that  *)
(* every replica holds.                                                    *)
Rooted ==
  /\ IsFiniteSet(created)
  /\ \A r \in Replica : Root \in vertices[r]
  /\ \A h \in created : Root \in past[h]

(* A set of vertices that is sorted at once meets what the sort relies on: *)
(* causality is a strict order, the dependencies of a vertex an antichain. *)
LEMMA ConvexIsCausal ==
  ASSUME IInv, WellFounded, NEW S \in SUBSET Vertex, IsFiniteSet(S)
  PROVE  Causal(deps, past, S)
<1>1. S \in SUBSET DOMAIN deps /\ S \in SUBSET Int
  BY HashGraphAssumption DEF IInv, GraphType, Vertex
<1>2. \A v, w \in S : v \in deps[w] => v \in past[w]
  BY DEF IInv, PastIsDeps
<1>3. \A u, v, w \in S : u \in past[v] /\ v \in past[w] => u \in past[w]
  BY DEF IInv, PastTransitive
<1>4. ASSUME NEW v \in S PROVE v \notin past[v]
  <2>1. PICK w \in {v} : past[w] \cap {v} = {}
    BY Zenon DEF WellFounded
  <2> QED BY <2>1
<1>5. ASSUME NEW u \in S, NEW v \in S, NEW w \in S, u \in deps[w], v \in deps[w] PROVE u \notin past[v]
  <2>1. w \in created
    BY <1>5 DEF IInv, PastKnown
  <2> QED BY <1>5, <2>1 DEF IInv, DepsAntichain
<1> QED BY <1>1, <1>2, <1>3, <1>4, <1>5 DEF Causal

(* The origin reaches all of it: a vertex that is not reached has a        *)
(* dependency that is not.                                                 *)
LEMMA ConvexIsSortable ==
  ASSUME IInv, WellFounded, NEW S \in SUBSET Vertex, IsFiniteSet(S), Convex(S),
         NEW origin \in S, \A v \in S : v = origin \/ origin \in past[v]
  PROVE  Sortable(deps, origin, S)
<1> DEFINE E == [v \in S |-> {c \in S : v \in deps[c]}]
           W == Reach(E, {origin})
           T == S \ W
<1>1. DOMAIN E = S /\ \A v \in S : E[v] \subseteq S
  OBVIOUS
<1>2. origin \in W /\ W \subseteq S /\ \A v \in W : E[v] \subseteq W
  <2> HIDE DEF E
  <2> QED BY <1>1, ReachLeast
<1>3. \A v \in W : \A c \in S : v \in deps[c] => c \in W
  <2> HIDE DEF W
  <2> QED BY <1>2, Zenon
<1> HIDE DEF W
<1>4. T = {}
  <2> SUFFICES ASSUME T # {} PROVE FALSE
    OBVIOUS
  <2>1. PICK v \in T : past[v] \cap T = {}
    BY Zenon DEF WellFounded
  <2>2. PICK d \in deps[v] \cap S : origin = d \/ origin \in past[d]
    BY <1>2, <2>1 DEF Convex
  <2>3. d \in past[v]
    BY <2>2 DEF IInv, PastIsDeps
  <2>4. d \in W
    BY <2>1, <2>2, <2>3
  <2> QED BY <1>3, <2>1, <2>2, <2>4
<1>5. W = S
  BY <1>2, <1>4, SMTT(30)
<1> QED BY <1>5 DEF Sortable, ReachedFrom, W

(* It is sorted into an order in which nothing comes before a vertex of    *)
(* its past, although the sort looks at dependencies only.                 *)
LEMMA ConvexIsSorted ==
  ASSUME IInv, WellFounded, NEW S \in SUBSET Vertex, IsFiniteSet(S), Convex(S),
         NEW origin \in S, \A v \in S : v = origin \/ origin \in past[v]
  PROVE  LinearExtension(dfsTopologicalSortIterative(deps, origin, S), S)
<1> DEFINE order == dfsTopologicalSortIterative(deps, origin, S)
           T == {v \in S : \E i, j \in DOMAIN order : order[j] = v /\ order[i] \in past[v] /\ i > j}
<1>1. Causal(deps, past, S) /\ Sortable(deps, origin, S)
  BY ConvexIsCausal, ConvexIsSortable
<1>2. /\ order \in Seq(S) /\ Len(order) = Cardinality(S) /\ Range(order) = S
      /\ \A i, j \in DOMAIN order : order[i] = order[j] => i = j
      /\ \A i, j \in DOMAIN order : order[i] \in deps[order[j]] => i < j
  BY <1>1, SortedOnce
<1> HIDE DEF order
<1>3. /\ DOMAIN order \subseteq Int
      /\ \A i \in DOMAIN order : order[i] \in S
      /\ \A v \in S : \E i \in DOMAIN order : order[i] = v
  BY <1>2 DEF Range
<1>4. T = {}
  <2> SUFFICES ASSUME T # {} PROVE FALSE
    OBVIOUS
  <2>1. PICK v \in T : past[v] \cap T = {}
    BY Zenon DEF WellFounded
  <2>2. PICK i \in DOMAIN order, j \in DOMAIN order : order[j] = v /\ order[i] \in past[v] /\ i > j
    OBVIOUS
  <2>3. PICK d \in deps[v] \cap S : order[i] = d \/ order[i] \in past[d]
    BY <1>3, <2>2 DEF Convex
  <2>4. PICK k \in DOMAIN order : order[k] = d
    BY <1>3, Zenon
  <2>5. k < j
    BY <1>2, <2>2, <2>3, <2>4
  <2>6. i # k
    BY <1>3, <2>2, <2>5
  <2>7. order[i] \in past[d]
    BY <1>2, <2>3, <2>4, <2>6
  <2>8. i > k
    BY <1>3, <2>2, <2>5
  <2>9. d \in T /\ d \in past[v]
    BY <2>3, <2>4, <2>7, <2>8 DEF IInv, PastIsDeps
  <2> QED BY <2>1, <2>9
<1>5. ASSUME NEW i \in DOMAIN order, NEW j \in DOMAIN order, order[i] \in past[order[j]] PROVE i < j
  <2>1. ~(i > j)
    BY <1>3, <1>4, <1>5
  <2>2. i # j
    BY <1>1, <1>3, <1>5 DEF Causal
  <2> QED BY <1>3, <2>1, <2>2
<1> QED BY <1>2, <1>5 DEF LinearExtension, order

(* Creation and delivery keep the root in place and the graph finite.      *)
LEMMA RootedInvariant == Spec => []Rooted
<1>1. Init => Rooted
  BY FS_EmptySet, SMTT(30) DEF Init, Rooted
<1>2. IInv /\ Rooted /\ [Next]_vars => Rooted'
  <2> SUFFICES ASSUME IInv, Rooted, [Next]_vars PROVE Rooted'
    OBVIOUS
  <2>1. ASSUME NEW r \in Replica, NEW h \in Hash, createVertex(r, h) PROVE Rooted'
    <3>1. created' = created \cup {h} /\ vertices' = [vertices EXCEPT ![r] = @ \cup {h}]
      BY <2>1 DEF createVertex, addVertex
    <3>2. past'[h] = vertices[r]
      BY <2>1, CreateVertexIInv
    <3>3. \A v \in created : past'[v] = past[v]
      BY <2>1 DEF createVertex, IInv, GraphType, Vertex
    <3>4. IsFiniteSet(created')
      BY <3>1, FS_AddElement DEF Rooted
    <3>5. \A q \in Replica : Root \in vertices'[q]
      BY <3>1 DEF Rooted, IInv, GraphType
    <3>6. \A v \in created' : Root \in past'[v]
      BY <3>1, <3>2, <3>3 DEF Rooted
    <3> QED BY <3>4, <3>5, <3>6 DEF Rooted
  <2>2. ASSUME NEW r \in Replica, NEW h \in Hash, applyVertex(r, h) PROVE Rooted'
    BY <2>2 DEF applyVertex, addVertex, Rooted, IInv, GraphType
  <2>3. CASE UNCHANGED <<created, past, vertices>>
    BY <2>3 DEF Rooted
  <2> QED BY <2>1, <2>2, <2>3 DEF Next, vars, RefreshForQuery, sortSubgraph, topologicalSort
<1> QED BY <1>1, <1>2, GraphInvariant, PTL DEF Spec

(* The forward edges of a replica are those of its graph.                  *)
EdgesOfGraph ==
  /\ forwardEdges \in [Replica -> [Vertex -> SUBSET Vertex]]
  /\ \A r \in Replica, v \in Vertex : forwardEdges[r][v] = {w \in vertices[r] : v \in deps[w]}

(* Adding a vertex h with dependencies D keeps them so.                    *)
LEMMA AddKeepsEdges ==
  ASSUME IInv, EdgesOfGraph, NEW r \in Replica, NEW h \in Hash, NEW D \in SUBSET Vertex,
         addVertex(r, h, D), h \notin vertices[r],
         deps' \in [Vertex -> SUBSET Vertex], deps'[h] = D,
         \A q \in Replica : \A w \in vertices[q] : deps'[w] = deps[w]
  PROVE  EdgesOfGraph'
<1>1. /\ vertices \in [Replica -> SUBSET Vertex]
      /\ vertices' = [vertices EXCEPT ![r] = @ \cup {h}]
      /\ forwardEdges' = [forwardEdges EXCEPT ![r] =
                            [v \in Vertex |-> IF v \in D THEN @[v] \cup {h} ELSE @[v]]]
  BY DEF addVertex, IInv, GraphType
<1>2. forwardEdges' \in [Replica -> [Vertex -> SUBSET Vertex]]
  BY <1>1 DEF EdgesOfGraph, Vertex
<1>3. ASSUME NEW q \in Replica, NEW v \in Vertex
      PROVE  forwardEdges'[q][v] = {w \in vertices'[q] : v \in deps'[w]}
  <2>1. forwardEdges[q][v] = {w \in vertices[q] : v \in deps'[w]}
    BY DEF EdgesOfGraph
  <2>2. CASE q = r
    BY <1>1, <2>1, <2>2 DEF EdgesOfGraph
  <2>3. CASE q # r
    BY <1>1, <2>1, <2>3 DEF EdgesOfGraph
  <2> QED BY <2>2, <2>3
<1> QED BY <1>2, <1>3 DEF EdgesOfGraph

(* They are, however vertices are created and delivered.                   *)
LEMMA EdgesInvariant == Spec => []EdgesOfGraph
<1>1. Init => EdgesOfGraph
  BY SMTT(30) DEF Init, EdgesOfGraph, Vertex
<1>2. IInv /\ EdgesOfGraph /\ [Next]_vars => EdgesOfGraph'
  <2> SUFFICES ASSUME IInv, EdgesOfGraph, [Next]_vars PROVE EdgesOfGraph'
    OBVIOUS
  <2>1. ASSUME NEW r \in Replica, NEW h \in Hash, createVertex(r, h) PROVE EdgesOfGraph'
    <3>1. h \notin created /\ deps' = [deps EXCEPT ![h] = frontier[r]] /\ addVertex(r, h, frontier[r])
      BY <2>1 DEF createVertex, getFrontier
    <3>2. h \in Vertex /\ frontier[r] \in SUBSET Vertex /\ deps \in [Vertex -> SUBSET Vertex]
      BY DEF IInv, GraphType, Vertex
    <3>3. \A q \in Replica : h \notin vertices[q] /\ vertices[q] \subseteq Vertex
      BY <3>1, HashGraphAssumption DEF IInv, VerticesKnown, Known, GraphType
    <3>4. \A q \in Replica : \A w \in vertices[q] : deps'[w] = deps[w]
      BY <3>1, <3>2, <3>3
    <3>5. deps' \in [Vertex -> SUBSET Vertex] /\ deps'[h] = frontier[r]
      BY <3>1, <3>2
    <3> QED BY <3>1, <3>2, <3>3, <3>4, <3>5, AddKeepsEdges
  <2>2. ASSUME NEW r \in Replica, NEW h \in Hash, applyVertex(r, h) PROVE EdgesOfGraph'
    <3>1. h \notin vertices[r] /\ deps' = deps /\ addVertex(r, h, deps[h])
      BY <2>2 DEF applyVertex
    <3>2. deps \in [Vertex -> SUBSET Vertex] /\ deps[h] \in SUBSET Vertex
      BY DEF IInv, GraphType, Vertex
    <3> QED BY <3>1, <3>2, AddKeepsEdges
  <2>3. CASE UNCHANGED <<deps, vertices, forwardEdges>>
    BY <2>3 DEF EdgesOfGraph
  <2> QED BY <2>1, <2>2, <2>3, SMTT(30) DEF Next, vars, RefreshForQuery, sortSubgraph, topologicalSort
<1> QED BY <1>1, <1>2, GraphInvariant, PTL DEF Spec

(* The sort of a replica is a linear extension of causality, of any graph  *)
(* that replicas build and whatever the order of the hashes.               *)
THEOREM AlwaysSortsAreLinear == Spec => []SortsAreLinear
<1>1. CacheInv /\ Rooted /\ EdgesOfGraph => SortsAreLinear
  <2> SUFFICES ASSUME IInv, WellFounded, Rooted, EdgesOfGraph, NEW r \in Replica
               PROVE  /\ \A v \in vertices[r] : forwardEdges[r][v] = Children(deps, v) \cap vertices[r]
                      /\ LinearExtension(dfsTopologicalSortIterative(deps, Root, vertices[r]), vertices[r])
                      /\ \A S \in Pasts(r) : \A origin \in S :
                           LinearExtension(dfsTopologicalSortIterative(deps, origin, Between(origin, S)),
                                           Between(origin, S))
    BY Zenon DEF CacheInv, SortsAreLinear
  <2>1. IsFiniteSet(vertices[r]) /\ vertices[r] \subseteq Vertex
    <3>1. vertices[r] \in SUBSET (created \cup {Root})
      BY DEF IInv, VerticesKnown, Known
    <3>2. IsFiniteSet(created \cup {Root})
      BY FS_AddElement DEF Rooted
    <3> QED BY <3>1, <3>2, FS_Subset DEF IInv, GraphType
  <2>2. \A v \in vertices[r] : v = Root \/ Root \in past[v]
    BY DEF Rooted, IInv, VerticesKnown, Known
  <2>3. LinearExtension(dfsTopologicalSortIterative(deps, Root, vertices[r]), vertices[r])
    BY <2>1, <2>2, SortedSetsAreConvex, ConvexIsSorted, Zenon DEF Rooted
  <2>4. ASSUME NEW S \in Pasts(r), NEW origin \in S
        PROVE  LinearExtension(dfsTopologicalSortIterative(deps, origin, Between(origin, S)),
                               Between(origin, S))
    <3>1. Between(origin, S) \subseteq vertices[r] /\ Convex(Between(origin, S))
      BY SortedSetsAreConvex
    <3>2. IsFiniteSet(Between(origin, S))
      BY <2>1, <3>1, FS_Subset
    <3>3. origin \in Between(origin, S) /\ \A v \in Between(origin, S) : v = origin \/ origin \in past[v]
      BY DEF Between
    <3> QED BY <2>1, <3>1, <3>2, <3>3, ConvexIsSorted, Zenon
  <2>5. ASSUME NEW v \in vertices[r] PROVE forwardEdges[r][v] = Children(deps, v) \cap vertices[r]
    BY <2>1 DEF EdgesOfGraph, Children, IInv, GraphType
  <2> QED BY <2>3, <2>4, <2>5
<1> QED BY <1>1, CacheInvariant, RootedInvariant, EdgesInvariant, PTL
=============================================================================
