--------------------------- MODULE TopologicalSort ---------------------------
(***************************************************************************)
(* HashGraph.dfsTopologicalSortIterative                                   *)
(* (packages/object/src/hashgraph/index.ts), the sort under every          *)
(* linearization.  It is pure: a graph is a function G from hashes to      *)
(* dependency sets, hashes are integers ordered as the strings are.        *)
(*                                                                         *)
(* The lemmas below show, for graphs of any size, that the sort lists each *)
(* vertex once and after its dependencies (SortedOnce).  It has no set of  *)
(* emitted vertices and skips only visited children, so this rests on the  *)
(* shape of the graph: no dependency of a vertex is behind another one.    *)
(***************************************************************************)
EXTENDS Integers, Sequences, FiniteSets, Functions, FiniteSetTheorems, TLAPS

Children(G, v) == {w \in DOMAIN G : v \in G[w]}

(* R and all that the edges of E lead to from it. *)
Reach(E, R) ==
  LET grown[S \in SUBSET DOMAIN E] ==
        LET N == S \cup UNION {E[v] : v \in S} IN IF N = S THEN S ELSE grown[N]
  IN grown[R]

(* The vertices of sub that R reaches inside sub. *)
ReachedFrom(G, sub, R) == Reach([v \in sub |-> {c \in sub : v \in G[c]}], R)

(* The check the sort makes first. *)
Sortable(G, origin, sub) == origin \in sub /\ ReachedFrom(G, sub, {origin}) = sub

(* hashes.sort(), read from the end. *)
Descending(S) ==
  [i \in 1 .. Cardinality(S) |-> CHOOSE v \in S : Cardinality({w \in S : w > v}) = i - 1]

(* An iteration of the loop of dfsTopologicalSortIterative.  The stack     *)
(* grows at its head; children are pushed in ascending order, so the       *)
(* largest is expanded first; the result is filled from the back, one      *)
(* entry per emission.  A child still being processed, visited and not     *)
(* emitted, is a cycle, and the sort throws.                               *)
DfsStart(origin) == [stack |-> <<origin>>, visited |-> {}, result |-> <<>>, cyclic |-> FALSE]

DfsStep(G, sub, s) ==
  LET node == Head(s.stack)
      unseen == {c \in Children(G, node) : c \in sub /\ c \notin s.visited}
      processing == (s.visited \cup {node}) \ Range(s.result)
  IN IF s.cyclic \/ Len(s.result) = Cardinality(sub) THEN s
     ELSE IF node \in s.visited
     THEN [s EXCEPT !.stack = Tail(@), !.result = <<node>> \o @]
     ELSE IF Children(G, node) \cap processing # {}
     THEN [s EXCEPT !.cyclic = TRUE]
     ELSE [s EXCEPT !.stack = Descending(unseen) \o @, !.visited = @ \cup {node}]

(* The loop: an iteration expands a vertex for the first time or fills an  *)
(* entry of the result.                                                    *)
DfsLoop(G, origin, sub) ==
  LET state[n \in Nat] == IF n = 0 THEN DfsStart(origin) ELSE DfsStep(G, sub, state[n - 1])
  IN state[2 * Cardinality(sub)]

(* Mutant: the order of the hashes, without the walk. *)
sortByHash(G, origin, sub) == LET n == Cardinality(sub) IN [i \in 1 .. n |-> Descending(sub)[n + 1 - i]]

(* dfsTopologicalSortIterative, with the origin put back in front when a   *)
(* vertex emitted twice has displaced it; <<>> stands for the errors       *)
(* thrown for a subgraph that the origin does not reach and for a cycle.   *)
dfsTopologicalSortIterative(G, origin, sub) ==
  LET end == DfsLoop(G, origin, sub)
  IN CASE ~Sortable(G, origin, sub) \/ end.cyclic -> <<>>
       [] origin \in Range(end.result) -> end.result
       [] OTHER -> [end.result EXCEPT ![1] = origin]

-----------------------------------------------------------------------------
(* A set of numbers with 0 and with the successor of each of its members   *)
(* has them all.  (A gap would let the members below it be mapped one to   *)
(* one to those other than 0.)                                             *)
LEMMA SetInduction ==
  ASSUME NEW S, 0 \in S, \A n \in Nat : n \in S => n + 1 \in S
  PROVE  \A n \in Nat : n \in S
<1> SUFFICES ASSUME NEW n \in Nat, n \notin S PROVE FALSE
  OBVIOUS
<1> DEFINE A == {i \in 0..n : i \in S}
           f == [i \in A |-> i + 1]
<1>1. IsFiniteSet(0..n)
  BY FS_Interval
<1>2. IsFiniteSet(A)
  BY <1>1, FS_Subset
<1>3. 0 \in A
  OBVIOUS
<1>4. IsFiniteSet(A \ {0}) /\ Cardinality(A \ {0}) = Cardinality(A) - 1
  BY <1>2, <1>3, FS_RemoveElement, Zenon
<1>5. Cardinality(A) \in Nat
  BY <1>2, FS_CardinalityType
<1>6. Cardinality(A \ {0}) < Cardinality(A)
  BY <1>4, <1>5
<1>7. f \in [A -> A \ {0}]
  <2>1. ASSUME NEW i \in A PROVE i + 1 \in A \ {0}
    OBVIOUS
  <2> QED BY <2>1
<1>8. \E x, y \in A : x # y /\ f[x] = f[y]
  <2> HIDE DEF A, f
  <2> QED BY <1>2, <1>4, <1>6, <1>7, FS_PigeonHole
<1> QED BY <1>8

(* What the edges lead to is the least set with R that they do not leave.  *)
LEMMA ReachLeast ==
  ASSUME NEW E, NEW R \in SUBSET DOMAIN E, IsFiniteSet(DOMAIN E),
         \A v \in DOMAIN E : E[v] \subseteq DOMAIN E
  PROVE  /\ R \subseteq Reach(E, R) /\ Reach(E, R) \subseteq DOMAIN E
         /\ \A v \in Reach(E, R) : E[v] \subseteq Reach(E, R)
         /\ \A C : R \subseteq C /\ (\A v \in C \cap DOMAIN E : E[v] \subseteq C) => Reach(E, R) \subseteq C
<1> DEFINE V == DOMAIN E
           Grow(S) == S \cup UNION {E[v] : v \in S}
           c == [S \in SUBSET V |-> {v \in V : \A C \in SUBSET V : S \subseteq C /\ Grow(C) = C => v \in C}]
           f == CHOOSE g : g = [S \in SUBSET V |-> IF Grow(S) = S THEN S ELSE g[Grow(S)]]
<1>1. \A S \in SUBSET V : Grow(S) \in SUBSET V /\ S \subseteq Grow(S)
  OBVIOUS
<1>2. \A S, C \in SUBSET V : S \subseteq C /\ Grow(C) = C => Grow(S) \subseteq C
  <2> SUFFICES ASSUME NEW S \in SUBSET V, NEW C \in SUBSET V, S \subseteq C, Grow(C) = C,
                      NEW v \in S, NEW w \in E[v]
               PROVE  w \in C
    OBVIOUS
  <2>1. w \in UNION {E[x] : x \in C}
    OBVIOUS
  <2> QED BY <2>1
<1>3. c = [S \in SUBSET V |-> IF Grow(S) = S THEN S ELSE c[Grow(S)]]
  <2> SUFFICES ASSUME NEW S \in SUBSET V PROVE c[S] = IF Grow(S) = S THEN S ELSE c[Grow(S)]
    BY Zenon
  <2>1. c[S] = {v \in V : \A C \in SUBSET V : S \subseteq C /\ Grow(C) = C => v \in C}
    BY Zenon
  <2>2. CASE Grow(S) = S
    <3> HIDE DEF Grow
    <3> QED BY <2>1, <2>2
  <2>3. CASE Grow(S) # S
    <3>1. c[Grow(S)] = {v \in V : \A C \in SUBSET V : Grow(S) \subseteq C /\ Grow(C) = C => v \in C}
      BY <1>1, Zenon
    <3>2. \A C \in SUBSET V : S \subseteq C /\ Grow(C) = C <=> Grow(S) \subseteq C /\ Grow(C) = C
      BY <1>1, <1>2
    <3> HIDE DEF Grow, c
    <3> QED BY <2>1, <2>3, <3>1, <3>2
  <2> QED BY <2>2, <2>3
<1>4. f = [S \in SUBSET V |-> IF Grow(S) = S THEN S ELSE f[Grow(S)]]
  <2> HIDE DEF Grow, c
  <2> QED BY <1>3, Zenon
<1>5. Reach(E, R) = f[R]
  BY Zenon DEF Reach
<1> DEFINE Good(S) == /\ S \subseteq f[S] /\ f[S] \in SUBSET V /\ Grow(f[S]) = f[S]
                      /\ \A C \in SUBSET V : S \subseteq C /\ Grow(C) = C => f[S] \subseteq C
<1>6. \A S \in SUBSET V : f[S] = IF Grow(S) = S THEN S ELSE f[Grow(S)]
  <2> HIDE DEF Grow, f
  <2> QED BY <1>4, Zenon
<1>7. \A S \in SUBSET V : Grow(S) = S => Good(S)
  <2> HIDE DEF Grow, f
  <2> QED BY <1>6
<1>8. \A S \in SUBSET V : Grow(S) # S /\ Good(Grow(S)) => Good(S)
  <2> SUFFICES ASSUME NEW S \in SUBSET V, Grow(S) # S, Good(Grow(S)) PROVE Good(S)
    BY Zenon
  <2>1. f[S] = f[Grow(S)]
    <3> HIDE DEF Grow, f
    <3> QED BY <1>6
  <2> HIDE DEF Grow, f
  <2> QED BY <2>1, <1>1, <1>2
<1> DEFINE N == {n \in Nat : \A S \in SUBSET V : Cardinality(V \ S) <= n => Good(S)}
<1>9. \A S \in SUBSET V : IsFiniteSet(V \ S) /\ Cardinality(V \ S) \in Nat
  BY FS_Subset, FS_CardinalityType
<1>10. 0 \in N
  <2> SUFFICES ASSUME NEW S \in SUBSET V, Cardinality(V \ S) <= 0 PROVE Good(S)
    <3> HIDE DEF Good
    <3> QED OBVIOUS
  <2>1. Cardinality(V \ S) = 0
    <3>1. Cardinality(V \ S) \in Nat
      BY <1>9, Zenon
    <3> HIDE DEF Good, N
    <3> QED BY <3>1
  <2>2. V \ S = {}
    BY <1>9, <2>1, FS_EmptySet
  <2>3. Grow(S) = S
    BY <1>1, <2>2
  <2> HIDE DEF Good
  <2> QED BY <1>7, <2>3
<1>11. ASSUME NEW n \in Nat, n \in N PROVE n + 1 \in N
  <2> SUFFICES ASSUME NEW S \in SUBSET V, Cardinality(V \ S) <= n + 1 PROVE Good(S)
    <3> HIDE DEF Good
    <3> QED OBVIOUS
  <2>1. CASE Grow(S) = S
    <3> HIDE DEF Good
    <3> QED BY <1>7, <2>1
  <2>2. CASE Grow(S) # S
    <3>1. PICK x \in Grow(S) : x \notin S
      BY <2>2, <1>1
    <3>2. V \ Grow(S) \in SUBSET ((V \ S) \ {x}) /\ x \in V \ S
      BY <1>1, <3>1
    <3>3. IsFiniteSet((V \ S) \ {x}) /\ Cardinality((V \ S) \ {x}) = Cardinality(V \ S) - 1
      <4> HIDE DEF V, Grow, Good, N
      <4> QED BY <1>9, <3>2, FS_RemoveElement, Zenon
    <3>4. Cardinality(V \ Grow(S)) <= Cardinality((V \ S) \ {x})
      <4> HIDE DEF Grow
      <4> QED BY <3>2, <3>3, FS_Subset
    <3>5. Cardinality(V \ Grow(S)) <= n
      <4>1. Cardinality(V \ Grow(S)) \in Nat /\ Cardinality(V \ S) \in Nat
        BY <1>1, <1>9, Zenon
      <4> HIDE DEF Grow
      <4> QED BY <3>3, <3>4, <4>1
    <3>6. Good(Grow(S))
      <4> HIDE DEF Good, Grow
      <4> QED BY <1>1, <1>11, <3>5
    <3> HIDE DEF Good, Grow
    <3> QED BY <1>8, <2>2, <3>6
  <2> QED BY <2>1, <2>2, Zenon
<1>12. \A n \in Nat : n \in N
  <2> HIDE DEF N
  <2> QED BY <1>10, <1>11, SetInduction
<1>13. Good(R)
  <2>1. Cardinality(V \ R) \in N
    BY <1>9, <1>12, Zenon
  <2>2. Cardinality(V \ R) <= Cardinality(V \ R)
    BY <1>9
  <2> HIDE DEF Good
  <2> QED BY <2>1, <2>2
<1>14. ASSUME NEW C, R \subseteq C, \A v \in C \cap V : E[v] \subseteq C PROVE f[R] \subseteq C
  <2>1. C \cap V \in SUBSET V /\ R \subseteq C \cap V /\ Grow(C \cap V) = C \cap V
    BY <1>14
  <2> HIDE DEF Grow, f
  <2> QED BY <1>13, <2>1, Zenon
<1>15. \A v \in f[R] : E[v] \subseteq f[R]
  <2>1. f[R] \in SUBSET V /\ Grow(f[R]) = f[R]
    <3> HIDE DEF Grow, f
    <3> QED BY <1>13
  <2> HIDE DEF f
  <2> QED BY <2>1
<1>16. R \subseteq f[R] /\ f[R] \subseteq V
  <2> HIDE DEF Grow, f
  <2> QED BY <1>13
<1> QED
  <2> HIDE DEF f
  <2> QED BY <1>5, <1>14, <1>15, <1>16

(* Descending lists every member of a finite set of numbers once: the i-th *)
(* is the one with i - 1 larger ones.                                      *)
LEMMA DescendingEnumerates ==
  ASSUME NEW S \in SUBSET Int, IsFiniteSet(S)
  PROVE  /\ Descending(S) \in Seq(S) /\ Len(Descending(S)) = Cardinality(S)
         /\ DOMAIN Descending(S) = 1 .. Cardinality(S)
         /\ \A i, j \in 1 .. Cardinality(S) : Descending(S)[i] = Descending(S)[j] => i = j
         /\ \A v \in S : \E i \in 1 .. Cardinality(S) : Descending(S)[i] = v
<1> DEFINE Above(v) == {w \in S : w > v}
           n == Cardinality(S)
           rank == [v \in S |-> Cardinality(Above(v))]
<1>1. n \in Nat
  BY FS_CardinalityType
<1>2. \A v \in S : IsFiniteSet(Above(v)) /\ Cardinality(Above(v)) \in Nat
  BY FS_Subset, FS_CardinalityType
<1>3. \A v, w \in S : v < w => Cardinality(Above(w)) < Cardinality(Above(v))
  <2> SUFFICES ASSUME NEW v \in S, NEW w \in S, v < w
               PROVE  Cardinality(Above(w)) < Cardinality(Above(v))
    OBVIOUS
  <2>1. Above(w) \in SUBSET (Above(v) \ {w}) /\ w \in Above(v)
    <3>1. v \in Int /\ w \in Int /\ \A x \in S : x \in Int /\ (x > w => x > v /\ x # w)
      OBVIOUS
    <3> QED BY <3>1, Zenon
  <2> HIDE DEF Above
  <2>2. IsFiniteSet(Above(v) \ {w}) /\ Cardinality(Above(v) \ {w}) = Cardinality(Above(v)) - 1
    BY <1>2, <2>1, FS_RemoveElement
  <2>3. Cardinality(Above(w)) <= Cardinality(Above(v) \ {w})
    BY <2>1, <2>2, FS_Subset
  <2> QED BY <1>2, <2>2, <2>3
<1>4. \A v \in S : Cardinality(Above(v)) \in 0 .. (n - 1)
  <2> SUFFICES ASSUME NEW v \in S PROVE Cardinality(Above(v)) \in 0 .. (n - 1)
    OBVIOUS
  <2>1. Above(v) \in SUBSET (S \ {v})
    OBVIOUS
  <2> HIDE DEF Above
  <2>2. IsFiniteSet(S \ {v}) /\ Cardinality(S \ {v}) = n - 1
    BY FS_RemoveElement
  <2>3. Cardinality(Above(v)) <= Cardinality(S \ {v})
    BY <2>1, <2>2, FS_Subset
  <2> HIDE DEF n
  <2> QED BY <1>1, <1>2, <2>2, <2>3
<1>5. \A v, w \in S : Cardinality(Above(v)) = Cardinality(Above(w)) => v = w
  <2> SUFFICES ASSUME NEW v \in S, NEW w \in S, Cardinality(Above(v)) = Cardinality(Above(w)), v # w
               PROVE  FALSE
    OBVIOUS
  <2>1. v < w \/ w < v
    OBVIOUS
  <2> HIDE DEF Above
  <2> QED BY <1>2, <1>3, <2>1
<1>6. rank \in Injection(S, 0 .. (n - 1))
  <2> HIDE DEF Above, n
  <2> QED BY <1>4, <1>5 DEF Injection, IsInjective
<1>7. IsFiniteSet(0 .. (n - 1)) /\ Cardinality(0 .. (n - 1)) = n
  <2> HIDE DEF n
  <2> QED BY <1>1, FS_Interval
<1>8. rank \in Surjection(S, 0 .. (n - 1))
  <2> HIDE DEF rank
  <2> QED BY <1>6, <1>7, FS_Injection
<1>9. \A k \in 0 .. (n - 1) : \E v \in S : Cardinality(Above(v)) = k
  <2> HIDE DEF Above, n
  <2> QED BY <1>8, Zenon DEF Surjection
<1> DEFINE d == [i \in 1 .. n |-> CHOOSE v \in S : Cardinality(Above(v)) = i - 1]
<1>10. Descending(S) = d
  BY DEF Descending
<1>11. \A i \in 1 .. n : d[i] \in S /\ Cardinality(Above(d[i])) = i - 1
  <2> SUFFICES ASSUME NEW i \in 1 .. n PROVE d[i] \in S /\ Cardinality(Above(d[i])) = i - 1
    BY Zenon
  <2>1. i - 1 \in 0 .. (n - 1)
    BY <1>1
  <2>2. d[i] = CHOOSE v \in S : Cardinality(Above(v)) = i - 1
    BY Zenon
  <2>3. \E v \in S : Cardinality(Above(v)) = i - 1
    BY <1>9, <2>1
  <2> HIDE DEF Above, n, d
  <2> QED BY <2>2, <2>3, Zenon
<1>12. d \in Seq(S) /\ Len(d) = n /\ DOMAIN d = 1 .. n
  <2>1. d \in [1 .. n -> S]
    <3> HIDE DEF Above, n
    <3> QED BY <1>11
  <2> HIDE DEF Above, n, d
  <2> QED BY <1>1, <2>1
<1>13. \A i, j \in 1 .. n : d[i] = d[j] => i = j
  <2> HIDE DEF Above, n, d
  <2> QED BY <1>11
<1>14. \A v \in S : \E i \in 1 .. n : d[i] = v
  <2> SUFFICES ASSUME NEW v \in S PROVE \E i \in 1 .. n : d[i] = v
    OBVIOUS
  <2> HIDE DEF Above, n, d
  <2>1. Cardinality(Above(v)) + 1 \in 1 .. n /\ (Cardinality(Above(v)) + 1) - 1 = Cardinality(Above(v))
    BY <1>1, <1>4
  <2>2. d[Cardinality(Above(v)) + 1] = v
    BY <1>5, <1>11, <2>1, Zenon
  <2> QED BY <2>1, <2>2
<1> QED
  <2> HIDE DEF d
  <2> QED BY <1>10, <1>12, <1>13, <1>14

-----------------------------------------------------------------------------
(* What the sort needs of a graph and of the part of it that it sorts: the *)
(* hashes are numbers, causality is a strict order of which the            *)
(* dependencies are a part, and no dependency of a vertex is behind        *)
(* another one (a replica depends on its heads).                           *)
Causal(G, P, sub) ==
  /\ sub \in SUBSET DOMAIN G /\ sub \in SUBSET Int /\ IsFiniteSet(sub)
  /\ \A v, w \in sub : v \in G[w] => v \in P[w]
  /\ \A u, v, w \in sub : u \in P[v] /\ v \in P[w] => u \in P[w]
  /\ \A v \in sub : v \notin P[v]
  /\ \A u, v, w \in sub : u \in G[w] /\ v \in G[w] => u \notin P[v]

(* The stack holds a path: each entry is a child of a visited one below    *)
(* it, and below an entry the visited ones are its ancestors.  So it never *)
(* holds a vertex twice, and no vertex that was emitted.                   *)
StackInv(G, P, origin, stack, visited, result) ==
  /\ \A i, j \in DOMAIN stack : stack[i] = stack[j] => i = j
  /\ \A i \in DOMAIN stack : stack[i] \notin Range(result)
  /\ \A v \in visited : v \in Range(result) \/ \E i \in DOMAIN stack : stack[i] = v
  /\ Range(result) \subseteq visited
  /\ \A i, k \in DOMAIN stack : i < k /\ stack[k] \in visited => stack[k] \in P[stack[i]]
  /\ \A i \in DOMAIN stack : i < Len(stack) =>
       \E k \in DOMAIN stack : i < k /\ stack[k] \in visited /\ stack[k] \in G[stack[i]]
  /\ origin \in visited \/ Len(stack) = 1
  /\ Len(stack) > 0 => stack[Len(stack)] = origin

(* The children of an emitted vertex were emitted, those of a visited one  *)
(* were or lie above it.                                                   *)
ChildInv(G, sub, stack, visited, result) ==
  /\ \A v \in Range(result), c \in sub : v \in G[c] => c \in Range(result)
  /\ \A k \in DOMAIN stack, c \in sub : stack[k] \in visited /\ stack[k] \in G[c] =>
       c \in Range(result) \/ \E i \in DOMAIN stack : i < k /\ stack[i] = c

(* What was emitted is in order, and once. *)
ResultInv(G, result) ==
  /\ \A i, j \in DOMAIN result : result[i] = result[j] => i = j
  /\ \A i, j \in DOMAIN result : result[i] \in G[result[j]] => i < j

DfsInv(G, P, origin, sub, stack, visited, result) ==
  /\ stack \in Seq(sub) /\ visited \in SUBSET sub /\ result \in Seq(sub)
  /\ StackInv(G, P, origin, stack, visited, result)
  /\ ChildInv(G, sub, stack, visited, result)
  /\ ResultInv(G, result)

(* A sequence without its head. *)
LEMMA Popped ==
  ASSUME NEW S, NEW s \in Seq(S), s # <<>>
  PROVE  /\ Tail(s) \in Seq(S) /\ Len(Tail(s)) = Len(s) - 1 /\ Len(s) \in Nat \ {0}
         /\ Head(s) = s[1] /\ 1 \in DOMAIN s
         /\ \A i \in DOMAIN Tail(s) : i + 1 \in DOMAIN s /\ Tail(s)[i] = s[i + 1]
         /\ \A k \in DOMAIN s : k = 1 \/ (k - 1 \in DOMAIN Tail(s) /\ Tail(s)[k - 1] = s[k])
OBVIOUS

(* A sequence put in front of another. *)
LEMMA Pushed ==
  ASSUME NEW S, NEW d \in Seq(S), NEW s \in Seq(S)
  PROVE  /\ d \o s \in Seq(S) /\ Len(d \o s) = Len(d) + Len(s) /\ Len(d) \in Nat /\ Len(s) \in Nat
         /\ \A i \in DOMAIN d : i \in DOMAIN (d \o s) /\ (d \o s)[i] = d[i] /\ i <= Len(d)
         /\ \A k \in DOMAIN s : Len(d) + k \in DOMAIN (d \o s) /\ (d \o s)[Len(d) + k] = s[k]
         /\ \A i \in DOMAIN (d \o s) : i \in DOMAIN d \/ (i > Len(d) /\ i - Len(d) \in DOMAIN s)
OBVIOUS

(* A vertex put in front of the result. *)
LEMMA Emitted ==
  ASSUME NEW S, NEW s \in Seq(S), NEW v \in S
  PROVE  LET r == <<v>> \o s
         IN /\ r \in Seq(S) /\ Len(r) = Len(s) + 1 /\ Len(s) \in Nat
            /\ r[1] = v /\ 1 \in DOMAIN r
            /\ \A i \in DOMAIN s : i + 1 \in DOMAIN r /\ r[i + 1] = s[i]
            /\ \A i \in DOMAIN r : i = 1 \/ (i > 1 /\ i - 1 \in DOMAIN s /\ r[i] = s[i - 1])
            /\ Range(r) = Range(s) \cup {v}
<1> DEFINE r == <<v>> \o s
<1>1. /\ r \in Seq(S) /\ Len(r) = Len(s) + 1 /\ Len(s) \in Nat
      /\ r[1] = v /\ 1 \in DOMAIN r
      /\ \A i \in DOMAIN s : i + 1 \in DOMAIN r /\ r[i + 1] = s[i]
      /\ \A i \in DOMAIN r : i = 1 \/ (i > 1 /\ i - 1 \in DOMAIN s /\ r[i] = s[i - 1])
  OBVIOUS
<1>2. Range(r) = Range(s) \cup {v}
  <2> HIDE DEF r
  <2> QED BY <1>1 DEF Range
<1> QED BY <1>1, <1>2

(* An iteration that emits the top of the stack keeps the invariant: all   *)
(* below it are visited ancestors, all its children are out.               *)
LEMMA EmitKeeps ==
  ASSUME NEW G, NEW P, NEW origin, NEW sub, NEW stack, NEW visited, NEW result,
         Causal(G, P, sub), DfsInv(G, P, origin, sub, stack, visited, result),
         stack # <<>>, Head(stack) \in visited
  PROVE  DfsInv(G, P, origin, sub, Tail(stack), visited, <<Head(stack)>> \o result)
<1> DEFINE node == Head(stack)
           rest == Tail(stack)
           out == <<node>> \o result
<1>0. stack \in Seq(sub) /\ visited \in SUBSET sub /\ result \in Seq(sub)
  BY DEF DfsInv
<1>s. StackInv(G, P, origin, stack, visited, result)
  BY DEF DfsInv
<1>c. ChildInv(G, sub, stack, visited, result)
  BY DEF DfsInv
<1>r. ResultInv(G, result)
  BY DEF DfsInv
<1>1. /\ rest \in Seq(sub) /\ Len(rest) = Len(stack) - 1 /\ Len(stack) \in Nat \ {0}
      /\ node = stack[1] /\ 1 \in DOMAIN stack
      /\ \A i \in DOMAIN rest : i + 1 \in DOMAIN stack /\ rest[i] = stack[i + 1]
      /\ \A k \in DOMAIN stack : k = 1 \/ (k - 1 \in DOMAIN rest /\ rest[k - 1] = stack[k])
  BY <1>0, Popped
<1>2. node \in sub
  BY <1>0
<1>3. /\ out \in Seq(sub) /\ Len(out) = Len(result) + 1 /\ Len(result) \in Nat
      /\ out[1] = node /\ 1 \in DOMAIN out
      /\ \A i \in DOMAIN result : i + 1 \in DOMAIN out /\ out[i + 1] = result[i]
      /\ \A i \in DOMAIN out : i = 1 \/ (i > 1 /\ i - 1 \in DOMAIN result /\ out[i] = result[i - 1])
      /\ Range(out) = Range(result) \cup {node}
  BY <1>0, <1>2, Emitted
<1>4. DOMAIN stack = 1 .. Len(stack) /\ DOMAIN rest = 1 .. Len(rest) /\ DOMAIN result = 1 .. Len(result)
  BY <1>0, <1>1
<1>5. node \in visited
  OBVIOUS
<1> HIDE DEF node, rest, out
<1>6. StackInv(G, P, origin, rest, visited, out)
  <2>1. \A i, j \in DOMAIN rest : rest[i] = rest[j] => i = j
    <3> SUFFICES ASSUME NEW i \in DOMAIN rest, NEW j \in DOMAIN rest, rest[i] = rest[j] PROVE i = j
      OBVIOUS
    <3>1. i + 1 \in DOMAIN stack /\ j + 1 \in DOMAIN stack /\ stack[i + 1] = stack[j + 1]
      BY <1>1
    <3>2. i + 1 = j + 1
      BY <3>1, <1>s DEF StackInv
    <3> QED BY <3>2, <1>4, <1>1
  <2>2. \A i \in DOMAIN rest : rest[i] \notin Range(out)
    <3> SUFFICES ASSUME NEW i \in DOMAIN rest PROVE rest[i] \notin Range(out)
      OBVIOUS
    <3>1. i + 1 \in DOMAIN stack /\ rest[i] = stack[i + 1] /\ i + 1 # 1
      BY <1>1, <1>4
    <3>2. stack[i + 1] # stack[1] /\ stack[i + 1] \notin Range(result)
      BY <3>1, <1>1, <1>s DEF StackInv
    <3> QED BY <3>1, <3>2, <1>1, <1>3
  <2>3. \A v \in visited : v \in Range(out) \/ \E i \in DOMAIN rest : rest[i] = v
    <3> SUFFICES ASSUME NEW v \in visited, v \notin Range(out) PROVE \E i \in DOMAIN rest : rest[i] = v
      OBVIOUS
    <3>1. PICK k \in DOMAIN stack : stack[k] = v
      BY <1>3, <1>s DEF StackInv
    <3>2. k # 1
      BY <3>1, <1>1, <1>3
    <3> QED BY <3>1, <3>2, <1>1
  <2>4. Range(out) \subseteq visited
    BY <1>3, <1>5, <1>s DEF StackInv
  <2>5. \A i, k \in DOMAIN rest : i < k /\ rest[k] \in visited => rest[k] \in P[rest[i]]
    <3> SUFFICES ASSUME NEW i \in DOMAIN rest, NEW k \in DOMAIN rest, i < k, rest[k] \in visited
                 PROVE  rest[k] \in P[rest[i]]
      OBVIOUS
    <3>1. /\ i + 1 \in DOMAIN stack /\ rest[i] = stack[i + 1]
          /\ k + 1 \in DOMAIN stack /\ rest[k] = stack[k + 1] /\ i + 1 < k + 1
      BY <1>1, <1>4
    <3> QED BY <3>1, <1>s DEF StackInv
  <2>6. \A i \in DOMAIN rest : i < Len(rest) =>
          \E k \in DOMAIN rest : i < k /\ rest[k] \in visited /\ rest[k] \in G[rest[i]]
    <3> SUFFICES ASSUME NEW i \in DOMAIN rest, i < Len(rest)
                 PROVE  \E k \in DOMAIN rest : i < k /\ rest[k] \in visited /\ rest[k] \in G[rest[i]]
      OBVIOUS
    <3>1. i + 1 \in DOMAIN stack /\ rest[i] = stack[i + 1] /\ i + 1 < Len(stack)
      BY <1>1, <1>4
    <3>2. PICK k \in DOMAIN stack : i + 1 < k /\ stack[k] \in visited /\ stack[k] \in G[stack[i + 1]]
      BY <3>1, <1>s DEF StackInv
    <3>3. k # 1 /\ i < k - 1
      BY <3>2, <1>4, <1>1
    <3>4. k - 1 \in DOMAIN rest /\ rest[k - 1] = stack[k]
      BY <3>3, <1>1
    <3> QED BY <3>1, <3>2, <3>3, <3>4
  <2>7. origin \in visited \/ Len(rest) = 1
    <3>1. CASE Len(stack) = 1
      BY <3>1, <1>1, <1>5, <1>s DEF StackInv
    <3>2. CASE Len(stack) # 1
      BY <3>2, <1>s DEF StackInv
    <3> QED BY <3>1, <3>2
  <2>8. Len(rest) > 0 => rest[Len(rest)] = origin
    <3> SUFFICES ASSUME Len(rest) > 0 PROVE rest[Len(rest)] = origin
      OBVIOUS
    <3>1. Len(rest) \in DOMAIN rest /\ Len(rest) + 1 = Len(stack) /\ Len(stack) > 0
      BY <1>1, <1>4
    <3>2. rest[Len(rest)] = stack[Len(stack)]
      BY <3>1, <1>1
    <3> QED BY <3>1, <3>2, <1>s DEF StackInv
  <2> QED BY <2>1, <2>2, <2>3, <2>4, <2>5, <2>6, <2>7, <2>8 DEF StackInv
<1>7. \A c \in sub : node \in G[c] => c \in Range(result)
  <2> SUFFICES ASSUME NEW c \in sub, node \in G[c], c \notin Range(result) PROVE FALSE
    OBVIOUS
  <2>1. PICK i \in DOMAIN stack : i < 1
    BY <1>1, <1>5, <1>c DEF ChildInv
  <2> QED BY <2>1, <1>4, <1>1
<1>8. ChildInv(G, sub, rest, visited, out)
  <2>1. \A v \in Range(out), c \in sub : v \in G[c] => c \in Range(out)
    BY <1>3, <1>7, <1>c DEF ChildInv
  <2>2. ASSUME NEW k \in DOMAIN rest, NEW c \in sub, rest[k] \in visited, rest[k] \in G[c],
               c \notin Range(out)
        PROVE  \E i \in DOMAIN rest : i < k /\ rest[i] = c
    <3>1. k + 1 \in DOMAIN stack /\ rest[k] = stack[k + 1]
      BY <1>1
    <3>2. PICK i \in DOMAIN stack : i < k + 1 /\ stack[i] = c
      BY <2>2, <3>1, <1>3, <1>c DEF ChildInv
    <3>3. i # 1
      BY <2>2, <3>2, <1>1, <1>3
    <3>4. i - 1 \in DOMAIN rest /\ rest[i - 1] = c /\ i - 1 < k
      BY <3>2, <3>3, <1>1, <1>4
    <3> QED BY <3>4
  <2> QED BY <2>1, <2>2 DEF ChildInv
<1>9. ResultInv(G, out)
  <2>1. node \notin Range(result)
    BY <1>1, <1>s DEF StackInv
  <2>2. \A i \in DOMAIN result : result[i] \in Range(result) /\ result[i] \in sub
    BY <1>0 DEF Range
  <2>3. ASSUME NEW i \in DOMAIN out, NEW j \in DOMAIN out, out[i] = out[j] PROVE i = j
    <3>1. CASE i = 1 /\ j = 1
      BY <3>1
    <3>2. CASE i # 1 /\ j = 1
      BY <3>2, <1>3, <2>1, <2>2, <2>3
    <3>3. CASE i = 1 /\ j # 1
      BY <3>3, <1>3, <2>1, <2>2, <2>3
    <3>4. CASE i # 1 /\ j # 1
      <4>1. i - 1 \in DOMAIN result /\ j - 1 \in DOMAIN result /\ result[i - 1] = result[j - 1]
        BY <3>4, <2>3, <1>3
      <4>2. i - 1 = j - 1
        BY <4>1, <1>r DEF ResultInv
      <4> QED BY <4>2, <1>3
    <3> QED BY <3>1, <3>2, <3>3, <3>4
  <2>4. ASSUME NEW i \in DOMAIN out, NEW j \in DOMAIN out, out[i] \in G[out[j]] PROVE i < j
    <3>1. CASE i = 1 /\ j = 1
      BY <3>1, <2>4, <1>3, <1>2 DEF Causal
    <3>2. CASE i # 1 /\ j = 1
      <4>1. out[i] \in Range(result) /\ node \in sub /\ out[i] \in G[node]
        BY <3>2, <2>4, <1>2, <1>3, <2>2
      <4> QED BY <4>1, <2>1, <1>c DEF ChildInv
    <3>3. CASE i = 1 /\ j # 1
      BY <3>3, <1>3
    <3>4. CASE i # 1 /\ j # 1
      <4>1. i - 1 \in DOMAIN result /\ j - 1 \in DOMAIN result /\ result[i - 1] \in G[result[j - 1]]
        BY <3>4, <2>4, <1>3
      <4>2. i - 1 < j - 1
        BY <4>1, <1>r DEF ResultInv
      <4> QED BY <4>2, <1>3
    <3> QED BY <3>1, <3>2, <3>3, <3>4
  <2> QED BY <2>3, <2>4 DEF ResultInv
<1>10. DfsInv(G, P, origin, sub, rest, visited, out)
  BY <1>0, <1>1, <1>3, <1>6, <1>8, <1>9 DEF DfsInv
<1> QED BY <1>10 DEF rest, out, node

(* An iteration that visits the top of the stack keeps the invariant.  A   *)
(* child that it pushes is not on the stack yet: it would be there as the  *)
(* child of a visited vertex below the top, which is an ancestor of the    *)
(* top, and the child would depend on both.                                *)
LEMMA VisitKeeps ==
  ASSUME NEW G, NEW P, NEW origin, NEW sub, NEW stack, NEW visited, NEW result,
         Causal(G, P, sub), DfsInv(G, P, origin, sub, stack, visited, result),
         stack # <<>>, Head(stack) \notin visited,
         NEW unseen, unseen = {c \in Children(G, Head(stack)) : c \in sub /\ c \notin visited}
  PROVE  DfsInv(G, P, origin, sub, Descending(unseen) \o stack, visited \cup {Head(stack)}, result)
<1> DEFINE node == Head(stack)
           d == Descending(unseen)
           m == Len(d)
           new == d \o stack
           seen == visited \cup {node}
<1>0. stack \in Seq(sub) /\ visited \in SUBSET sub /\ result \in Seq(sub)
  BY DEF DfsInv
<1>s. StackInv(G, P, origin, stack, visited, result)
  BY DEF DfsInv
<1>c. ChildInv(G, sub, stack, visited, result)
  BY DEF DfsInv
<1>1. Len(stack) \in Nat \ {0} /\ node = stack[1] /\ 1 \in DOMAIN stack
  BY <1>0, Popped
<1>2. DOMAIN stack = 1 .. Len(stack) /\ \A i \in DOMAIN stack : stack[i] \in sub
  BY <1>0
<1>3. node \in sub /\ node \notin visited
  BY <1>1, <1>2
<1>4. \A c : c \in unseen <=> c \in sub /\ node \in G[c] /\ c \notin visited
  BY DEF Causal, Children
<1>5. unseen \in SUBSET Int /\ IsFiniteSet(unseen)
  <2>1. unseen \subseteq sub /\ IsFiniteSet(sub) /\ sub \in SUBSET Int
    BY <1>4 DEF Causal
  <2> QED BY <2>1, FS_Subset, Zenon
<1>6. /\ d \in Seq(unseen) /\ m = Cardinality(unseen) /\ DOMAIN d = 1 .. Cardinality(unseen)
      /\ \A i, j \in 1 .. Cardinality(unseen) : d[i] = d[j] => i = j
      /\ \A v \in unseen : \E i \in 1 .. Cardinality(unseen) : d[i] = v
  BY <1>5, DescendingEnumerates, Zenon
<1> HIDE DEF d, node
<1>7. /\ m \in Nat /\ DOMAIN d = 1 .. m /\ \A i \in DOMAIN d : d[i] \in unseen
      /\ \A i, j \in DOMAIN d : d[i] = d[j] => i = j
      /\ \A v \in unseen : \E i \in DOMAIN d : d[i] = v
  <2>1. m \in Nat /\ DOMAIN d = 1 .. m /\ \A i \in DOMAIN d : d[i] \in unseen
    <3>1. d \in Seq(unseen)
      BY <1>6
    <3> QED BY <3>1
  <2>2. DOMAIN d = 1 .. Cardinality(unseen)
    BY <1>6
  <2> HIDE DEF m
  <2> QED BY <1>6, <2>1, <2>2, Zenon
<1>8. d \in Seq(sub)
  BY <1>4, <1>6, <1>7
<1>9. /\ new \in Seq(sub) /\ Len(new) = m + Len(stack)
      /\ \A i \in DOMAIN d : i \in DOMAIN new /\ new[i] = d[i] /\ i <= m
      /\ \A k \in DOMAIN stack : m + k \in DOMAIN new /\ new[m + k] = stack[k]
      /\ \A i \in DOMAIN new : i \in DOMAIN d \/ (i > m /\ i - m \in DOMAIN stack)
  BY <1>0, <1>8, Pushed
<1> HIDE DEF new, m
<1>10. \A c \in unseen : node \in P[c] /\ c # node
  BY <1>3, <1>4 DEF Causal
<1>11. \A c \in unseen, j \in DOMAIN stack : stack[j] # c
  <2> SUFFICES ASSUME NEW c \in unseen, NEW j \in DOMAIN stack, stack[j] = c PROVE FALSE
    OBVIOUS
  <2>1. j # 1 /\ 1 < j
    BY <1>1, <1>2, <1>10
  <2>2. c \in sub /\ node \in G[c] /\ c \notin visited
    BY <1>4
  <2>3. CASE j = Len(stack)
    <3>1. origin = c /\ Len(stack) # 1
      BY <2>1, <2>3, <1>1, <1>s DEF StackInv
    <3> QED BY <3>1, <2>2, <1>s DEF StackInv
  <2>4. CASE j # Len(stack)
    <3>1. j < Len(stack)
      BY <2>4, <1>1, <1>2
    <3>2. PICK k \in DOMAIN stack : j < k /\ stack[k] \in visited /\ stack[k] \in G[c]
      BY <3>1, <1>s DEF StackInv
    <3>3. 1 < k
      BY <3>2, <2>1, <1>1, <1>2
    <3>4. stack[k] \in P[node]
      BY <3>2, <3>3, <1>1, <1>s DEF StackInv
    <3> QED BY <3>2, <3>4, <2>2, <1>2, <1>3 DEF Causal
  <2> QED BY <2>3, <2>4
<1>12. \A k \in DOMAIN stack : stack[k] \in visited => 1 < k /\ stack[k] \in P[node]
  <2> SUFFICES ASSUME NEW k \in DOMAIN stack, stack[k] \in visited PROVE 1 < k /\ stack[k] \in P[node]
    OBVIOUS
  <2>1. k # 1 /\ 1 < k
    BY <1>1, <1>2, <1>3
  <2> QED BY <2>1, <1>1, <1>s DEF StackInv
<1>13. \A k \in DOMAIN stack : stack[k] = node => k = 1
  BY <1>1, <1>s DEF StackInv
<1>14. \A k \in DOMAIN new : new[k] \in seen =>
         /\ k > m /\ k - m \in DOMAIN stack /\ new[k] = stack[k - m]
         /\ stack[k - m] \in visited \/ k - m = 1
  <2> SUFFICES ASSUME NEW k \in DOMAIN new, new[k] \in seen
               PROVE  /\ k > m /\ k - m \in DOMAIN stack /\ new[k] = stack[k - m]
                      /\ stack[k - m] \in visited \/ k - m = 1
    OBVIOUS
  <2>1. k \notin DOMAIN d
    BY <1>4, <1>7, <1>9, <1>10
  <2>2. k > m /\ k - m \in DOMAIN stack
    BY <2>1, <1>9
  <2>3. k \in Int
    BY <1>9
  <2>4. m + (k - m) = k
    BY <2>3, <1>7
  <2>5. new[k] = stack[k - m]
    BY <2>2, <2>4, <1>9
  <2> QED BY <2>2, <2>5, <1>13
<1>15. StackInv(G, P, origin, new, seen, result)
  <2>1. ASSUME NEW i \in DOMAIN new, NEW j \in DOMAIN new, new[i] = new[j] PROVE i = j
    <3>0. i \in Int /\ j \in Int /\ m + (i - m) = i /\ m + (j - m) = j
      BY <1>7, <1>9
    <3>1. CASE i \in DOMAIN d /\ j \in DOMAIN d
      BY <3>1, <2>1, <1>7, <1>9
    <3>2. CASE i \in DOMAIN d /\ j \notin DOMAIN d
      <4>1. new[i] \in unseen /\ j - m \in DOMAIN stack /\ new[j] = stack[j - m]
        BY <3>0, <3>2, <1>7, <1>9
      <4> QED BY <4>1, <2>1, <1>11
    <3>3. CASE i \notin DOMAIN d /\ j \in DOMAIN d
      <4>1. new[j] \in unseen /\ i - m \in DOMAIN stack /\ new[i] = stack[i - m]
        BY <3>0, <3>3, <1>7, <1>9
      <4> QED BY <4>1, <2>1, <1>11, Zenon
    <3>4. CASE i \notin DOMAIN d /\ j \notin DOMAIN d
      <4>1. /\ i - m \in DOMAIN stack /\ new[i] = stack[i - m]
            /\ j - m \in DOMAIN stack /\ new[j] = stack[j - m]
        BY <3>0, <3>4, <1>9
      <4>2. \A a, b \in DOMAIN stack : stack[a] = stack[b] => a = b
        BY <1>s DEF StackInv
      <4>3. i - m = j - m
        BY <4>1, <4>2, <2>1, Zenon
      <4> QED BY <4>3, <3>0
    <3> QED BY <3>1, <3>2, <3>3, <3>4
  <2>2. ASSUME NEW i \in DOMAIN new PROVE new[i] \notin Range(result)
    <3>0. i \in Int /\ m + (i - m) = i
      BY <1>7, <1>9
    <3>1. CASE i \in DOMAIN d
      BY <3>1, <1>4, <1>7, <1>9, <1>s DEF StackInv
    <3>2. CASE i \notin DOMAIN d
      <4>1. i - m \in DOMAIN stack /\ new[i] = stack[i - m]
        BY <3>0, <3>2, <1>9
      <4> QED BY <4>1, <1>s DEF StackInv
    <3> QED BY <3>1, <3>2
  <2>3. ASSUME NEW v \in seen PROVE v \in Range(result) \/ \E i \in DOMAIN new : new[i] = v
    <3>1. v \in Range(result) \/ \E k \in DOMAIN stack : stack[k] = v
      BY <1>1, <1>s DEF StackInv
    <3> QED BY <3>1, <1>9
  <2>4. Range(result) \subseteq seen
    BY <1>s DEF StackInv
  <2>5. ASSUME NEW i \in DOMAIN new, NEW k \in DOMAIN new, i < k, new[k] \in seen
        PROVE  new[k] \in P[new[i]]
    <3>0. i \in Int /\ k \in Int /\ m + (i - m) = i
      BY <1>7, <1>9
    <3>1. /\ k > m /\ k - m \in DOMAIN stack /\ new[k] = stack[k - m]
          /\ stack[k - m] \in visited \/ k - m = 1
      BY <2>5, <1>14
    <3>2. CASE i \in DOMAIN d
      <4>1. new[i] \in unseen /\ node \in P[new[i]] /\ new[i] \in sub
        BY <3>2, <1>4, <1>7, <1>9, <1>10
      <4>2. CASE k - m = 1
        BY <4>1, <4>2, <3>1, <1>1
      <4>3. CASE stack[k - m] \in visited
        <5>1. stack[k - m] \in P[node] /\ stack[k - m] \in sub
          BY <4>3, <3>1, <1>2, <1>12
        <5> QED BY <5>1, <4>1, <3>1, <1>3 DEF Causal
      <4> QED BY <4>2, <4>3, <3>1
    <3>3. CASE i \notin DOMAIN d
      <4>1. i - m \in DOMAIN stack /\ new[i] = stack[i - m] /\ i - m < k - m
        BY <3>0, <3>3, <2>5, <1>7, <1>9
      <4>2. k - m # 1
        BY <4>1, <3>0, <1>2, <1>7
      <4> QED BY <4>1, <4>2, <3>1, <1>s DEF StackInv
    <3> QED BY <3>2, <3>3
  <2>6. ASSUME NEW i \in DOMAIN new, i < Len(new)
        PROVE  \E k \in DOMAIN new : i < k /\ new[k] \in seen /\ new[k] \in G[new[i]]
    <3>0. i \in Int /\ m + (i - m) = i
      BY <1>7, <1>9
    <3>1. CASE i \in DOMAIN d
      <4>1. m + 1 \in DOMAIN new /\ new[m + 1] = node /\ i < m + 1
        BY <3>1, <1>1, <1>7, <1>9
      <4>2. node \in G[new[i]]
        BY <3>1, <1>4, <1>7, <1>9
      <4> QED BY <4>1, <4>2
    <3>2. CASE i \notin DOMAIN d
      <4>1. i - m \in DOMAIN stack /\ new[i] = stack[i - m]
        BY <3>0, <3>2, <1>9
      <4>2. i - m < Len(stack)
        BY <3>0, <2>6, <1>1, <1>7, <1>9
      <4>3. PICK k \in DOMAIN stack : i - m < k /\ stack[k] \in visited /\ stack[k] \in G[stack[i - m]]
        BY <4>1, <4>2, <1>s DEF StackInv
      <4>4. m + k \in DOMAIN new /\ new[m + k] = stack[k] /\ i < m + k
        BY <4>3, <3>0, <1>2, <1>7, <1>9
      <4> QED BY <4>1, <4>3, <4>4
    <3> QED BY <3>1, <3>2
  <2>7. origin \in seen \/ Len(new) = 1
    <3>1. CASE Len(stack) = 1
      BY <3>1, <1>1, <1>s DEF StackInv
    <3>2. CASE Len(stack) # 1
      BY <3>2, <1>s DEF StackInv
    <3> QED BY <3>1, <3>2
  <2>8. new[Len(new)] = origin
    <3>1. Len(stack) \in DOMAIN stack /\ Len(stack) > 0 /\ stack[Len(stack)] = origin
      BY <1>1, <1>2, <1>s DEF StackInv
    <3> QED BY <3>1, <1>9
  <2> HIDE DEF seen
  <2> QED BY <2>1, <2>2, <2>3, <2>4, <2>5, <2>6, <2>7, <2>8 DEF StackInv
<1>16. ChildInv(G, sub, new, seen, result)
  <2>1. \A v \in Range(result), c \in sub : v \in G[c] => c \in Range(result)
    BY <1>c DEF ChildInv
  <2>2. ASSUME NEW k \in DOMAIN new, NEW c \in sub, new[k] \in seen, new[k] \in G[c],
               c \notin Range(result)
        PROVE  \E i \in DOMAIN new : i < k /\ new[i] = c
    <3>0. k \in Int
      BY <1>9
    <3>1. /\ k > m /\ k - m \in DOMAIN stack /\ new[k] = stack[k - m]
          /\ stack[k - m] \in visited \/ k - m = 1
      BY <2>2, <1>14
    <3>2. CASE stack[k - m] \in visited
      <4>1. PICK i \in DOMAIN stack : i < k - m /\ stack[i] = c
        BY <3>1, <3>2, <2>2, <1>c DEF ChildInv
      <4>2. m + i \in DOMAIN new /\ new[m + i] = c /\ m + i < k
        BY <4>1, <3>0, <1>2, <1>7, <1>9
      <4> QED BY <4>2
    <3>3. CASE k - m = 1
      <4>1. node \in G[c]
        BY <3>1, <3>3, <2>2, <1>1
      <4>2. CASE c \in visited
        <5>1. PICK j \in DOMAIN stack : stack[j] = c
          BY <4>2, <2>2, <1>s DEF StackInv
        <5>2. c \in P[node]
          BY <4>2, <5>1, <1>12
        <5>3. node \in P[c]
          BY <4>1, <1>3 DEF Causal
        <5> QED BY <5>2, <5>3, <1>3 DEF Causal
      <4>3. CASE c \notin visited
        <5>1. c \in unseen
          BY <4>1, <4>3, <1>4
        <5>2. PICK i \in DOMAIN d : d[i] = c
          BY <5>1, <1>7
        <5>3. i \in DOMAIN new /\ new[i] = c /\ i <= m /\ i \in Int
          BY <5>2, <1>7, <1>9
        <5>4. i < k
          BY <5>3, <3>0, <3>1, <1>7
        <5> QED BY <5>3, <5>4
      <4> QED BY <4>2, <4>3
    <3> QED BY <3>1, <3>2, <3>3
  <2> HIDE DEF seen
  <2> QED BY <2>1, <2>2 DEF ChildInv
<1>17. DfsInv(G, P, origin, sub, new, seen, result)
  <2>1. seen \in SUBSET sub
    BY <1>0, <1>3
  <2>2. ResultInv(G, result)
    BY DEF DfsInv
  <2> QED BY <2>1, <2>2, <1>0, <1>9, <1>15, <1>16 DEF DfsInv
<1> QED BY <1>17 DEF new, d, node

-----------------------------------------------------------------------------
(* The states of the loop are what its definition says they are: the       *)
(* recursion has a solution, put together from those up to each n.         *)
LEMMA LoopStates ==
  ASSUME NEW G, NEW origin, NEW sub
  PROVE  \E f : /\ f[0] = DfsStart(origin)
                /\ \A n \in Nat : f[n + 1] = DfsStep(G, sub, f[n])
                /\ DfsLoop(G, origin, sub) = f[2 * Cardinality(sub)]
<1> DEFINE Upto(g, n) == g[0] = DfsStart(origin) /\ \A k \in 1 .. n : g[k] = DfsStep(G, sub, g[k - 1])
           N == {n \in Nat : \E g : Upto(g, n)}
           U == {k \in Nat : \A n, m \in Nat : \A g, h :
                   Upto(g, n) /\ Upto(h, m) /\ k <= n /\ k <= m => g[k] = h[k]}
           h == [n \in Nat |-> (CHOOSE g : Upto(g, n))[n]]
           f == CHOOSE g : g = [n \in Nat |-> IF n = 0 THEN DfsStart(origin) ELSE DfsStep(G, sub, g[n - 1])]
<1>1. \A n \in Nat : \E g : Upto(g, n)
  <2>1. 0 \in N
    <3> DEFINE g == [k \in {0} |-> DfsStart(origin)]
    <3>1. Upto(g, 0)
      OBVIOUS
    <3> HIDE DEF Upto, g
    <3> QED BY <3>1
  <2>2. ASSUME NEW n \in Nat, n \in N PROVE n + 1 \in N
    <3>1. PICK g : Upto(g, n)
      <4> HIDE DEF Upto
      <4> QED BY <2>2
    <3> DEFINE e == [k \in 0 .. n + 1 |-> IF k = n + 1 THEN DfsStep(G, sub, g[n]) ELSE g[k]]
    <3>2. e[0] = DfsStart(origin)
      BY <3>1
    <3>3. ASSUME NEW k \in 1 .. n + 1 PROVE e[k] = DfsStep(G, sub, e[k - 1])
      <4>1. e[k - 1] = g[k - 1]
        OBVIOUS
      <4>2. CASE k = n + 1
        <5>1. e[k] = DfsStep(G, sub, g[n]) /\ k - 1 = n
          BY <4>2
        <5> QED BY <4>1, <5>1
      <4>3. CASE k # n + 1
        <5>1. k \in 1 .. n /\ e[k] = g[k]
          BY <4>3
        <5> QED BY <3>1, <4>1, <5>1
      <4> QED BY <4>2, <4>3
    <3>4. Upto(e, n + 1)
      <4> HIDE DEF e
      <4> QED BY <3>2, <3>3
    <3> HIDE DEF Upto, e
    <3> QED BY <3>4
  <2>3. \A n \in Nat : n \in N
    <3> HIDE DEF N
    <3> QED BY <2>1, <2>2, SetInduction
  <2> HIDE DEF Upto
  <2> QED BY <2>3
<1>2. \A k \in Nat : k \in U
  <2>1. 0 \in U
    OBVIOUS
  <2>2. ASSUME NEW k \in Nat, k \in U PROVE k + 1 \in U
    <3> SUFFICES ASSUME NEW n \in Nat, NEW m \in Nat, NEW a, NEW b, Upto(a, n), Upto(b, m),
                        k + 1 <= n, k + 1 <= m
                 PROVE  a[k + 1] = b[k + 1]
      <4> HIDE DEF Upto
      <4> QED OBVIOUS
    <3>1. k + 1 \in 1 .. n /\ k + 1 \in 1 .. m /\ (k + 1) - 1 = k /\ k <= n /\ k <= m
      OBVIOUS
    <3>2. a[k] = b[k]
      <4> HIDE DEF Upto
      <4> QED BY <2>2, <3>1
    <3> QED BY <3>1, <3>2
  <2> HIDE DEF U
  <2> QED BY <2>1, <2>2, SetInduction
<1>3. \A n \in Nat : Upto(CHOOSE g : Upto(g, n), n) /\ h[n] = (CHOOSE g : Upto(g, n))[n]
  <2> HIDE DEF Upto
  <2> QED BY <1>1
<1>4. h[0] = DfsStart(origin)
  <2>1. h[0] = (CHOOSE g : Upto(g, 0))[0]
    BY <1>3
  <2> QED BY <2>1, <1>3
<1>5. ASSUME NEW n \in Nat, n # 0 PROVE h[n] = DfsStep(G, sub, h[n - 1])
  <2> DEFINE a == CHOOSE g : Upto(g, n)
             b == CHOOSE g : Upto(g, n - 1)
  <2>1. n - 1 \in Nat /\ n \in 1 .. n /\ n - 1 <= n /\ n - 1 <= n - 1
    BY <1>5
  <2>2. Upto(a, n) /\ Upto(b, n - 1) /\ h[n] = a[n] /\ h[n - 1] = b[n - 1]
    <3> HIDE DEF Upto, h
    <3> QED BY <1>3, <2>1
  <2> HIDE DEF a, b, h
  <2>3. a[n - 1] = b[n - 1]
    <3>1. n - 1 \in U
      <4> HIDE DEF U
      <4> QED BY <1>2, <2>1
    <3> HIDE DEF Upto
    <3> QED BY <2>1, <2>2, <3>1
  <2>4. a[n] = DfsStep(G, sub, a[n - 1])
    BY <2>1, <2>2
  <2> HIDE DEF Upto
  <2> QED BY <2>2, <2>3, <2>4
<1>6. h = [n \in Nat |-> IF n = 0 THEN DfsStart(origin) ELSE DfsStep(G, sub, h[n - 1])]
  <2>1. h = [n \in Nat |-> h[n]]
    <3> HIDE DEF Upto
    <3> QED OBVIOUS
  <2>2. \A n \in Nat : h[n] = IF n = 0 THEN DfsStart(origin) ELSE DfsStep(G, sub, h[n - 1])
    <3> HIDE DEF h
    <3> QED BY <1>4, <1>5
  <2> HIDE DEF h
  <2> QED BY <2>1, <2>2, Zenon
<1>7. f = [n \in Nat |-> IF n = 0 THEN DfsStart(origin) ELSE DfsStep(G, sub, f[n - 1])]
  <2> HIDE DEF h
  <2> QED BY <1>6, Zenon
<1>8. DfsLoop(G, origin, sub) = f[2 * Cardinality(sub)]
  BY Zenon DEF DfsLoop
<1> HIDE DEF f
<1>9. f[0] = DfsStart(origin)
  BY <1>7
<1>10. ASSUME NEW n \in Nat PROVE f[n + 1] = DfsStep(G, sub, f[n])
  <2>1. n + 1 \in Nat /\ n + 1 # 0 /\ (n + 1) - 1 = n
    OBVIOUS
  <2>2. f[n + 1] = IF n + 1 = 0 THEN DfsStart(origin) ELSE DfsStep(G, sub, f[(n + 1) - 1])
    BY <1>7, <2>1, Zenon
  <2> QED BY <2>1, <2>2
<1> QED BY <1>8, <1>9, <1>10

(* The invariant of the loop after n iterations: until all is emitted each *)
(* iteration has visited a vertex or emitted one, and none met a cycle.    *)
LoopInv(G, P, origin, sub, s, n) ==
  /\ s \in [stack : Seq(sub), visited : SUBSET sub, result : Seq(sub), cyclic : {FALSE}]
  /\ DfsInv(G, P, origin, sub, s.stack, s.visited, s.result)
  /\ Len(s.result) = Cardinality(sub) \/ Cardinality(s.visited) + Len(s.result) = n

(* A sequence without duplicates is as long as its range is large. *)
LEMMA OnceEach ==
  ASSUME NEW S, IsFiniteSet(S), NEW s \in Seq(S), \A i, j \in DOMAIN s : s[i] = s[j] => i = j
  PROVE  /\ Len(s) \in Nat /\ Len(s) <= Cardinality(S)
         /\ Len(s) = Cardinality(Range(s)) /\ Range(s) \subseteq S
         /\ Len(s) = Cardinality(S) => Range(s) = S
<1>1. Len(s) \in Nat /\ DOMAIN s = 1 .. Len(s) /\ \A i \in DOMAIN s : s[i] \in S
  OBVIOUS
<1>2. Range(s) \in SUBSET S
  BY <1>1 DEF Range
<1>3. IsFiniteSet(1 .. Len(s)) /\ Cardinality(1 .. Len(s)) = Len(s)
  <2> DEFINE n == Len(s)
  <2>1. n \in Nat
    BY <1>1
  <2> HIDE DEF n
  <2>2. IsFiniteSet(1 .. n) /\ Cardinality(1 .. n) = n
    BY <2>1, FS_Interval
  <2> QED BY <2>2 DEF n
<1>4. s \in Bijection(1 .. Len(s), Range(s))
  <2>1. s \in [1 .. Len(s) -> Range(s)]
    BY <1>1 DEF Range
  <2>2. s \in Injection(1 .. Len(s), Range(s))
    BY <1>1, <2>1 DEF Injection, IsInjective
  <2>3. s \in Surjection(1 .. Len(s), Range(s))
    BY <1>1, <2>1 DEF Surjection, Range
  <2> QED BY <2>2, <2>3 DEF Bijection
<1>5. Cardinality(Range(s)) = Len(s)
  <2>1. ExistsBijection(1 .. Len(s), Range(s))
    BY <1>4 DEF ExistsBijection
  <2> QED BY <1>3, <2>1, FS_Bijection
<1>6. Cardinality(Range(s)) <= Cardinality(S) /\ (Cardinality(S) = Cardinality(Range(s)) => S = Range(s))
  BY <1>2, FS_Subset
<1> QED BY <1>1, <1>2, <1>5, <1>6

(* While something is left to emit, the stack is not empty: with the       *)
(* origin everything that it reaches would be out.                         *)
LEMMA StackLasts ==
  ASSUME NEW G, NEW P, NEW origin, NEW sub, NEW stack, NEW visited, NEW result,
         Causal(G, P, sub), Sortable(G, origin, sub),
         DfsInv(G, P, origin, sub, stack, visited, result), Len(result) # Cardinality(sub)
  PROVE  stack # <<>>
<1> SUFFICES ASSUME stack = <<>> PROVE FALSE
  OBVIOUS
<1> DEFINE E == [v \in sub |-> {c \in sub : v \in G[c]}]
<1>1. origin \in Range(result)
  BY DEF DfsInv, StackInv
<1>2. \A v \in Range(result) \cap sub : E[v] \subseteq Range(result)
  BY DEF DfsInv, ChildInv
<1>3. IsFiniteSet(sub)
  BY DEF Causal
<1>4. DOMAIN E = sub /\ \A v \in sub : E[v] \subseteq sub
  OBVIOUS
<1>5. origin \in sub /\ Reach(E, {origin}) = sub
  BY DEF Sortable, ReachedFrom
<1> HIDE DEF E
<1>6. Reach(E, {origin}) \subseteq Range(result)
  BY <1>1, <1>2, <1>3, <1>4, <1>5, ReachLeast
<1>7. result \in Seq(sub) /\ \A i, j \in DOMAIN result : result[i] = result[j] => i = j
  BY DEF DfsInv, ResultInv
<1>8. Len(result) = Cardinality(Range(result)) /\ Range(result) \subseteq sub
  BY <1>3, <1>7, OnceEach
<1>9. Range(result) = sub
  BY <1>5, <1>6, <1>8, Zenon
<1> QED BY <1>8, <1>9

(* Before the first iteration the stack holds the origin alone. *)
LEMMA StartLoopInv ==
  ASSUME NEW G, NEW P, NEW origin, NEW sub, Causal(G, P, sub), origin \in sub
  PROVE  LoopInv(G, P, origin, sub, DfsStart(origin), 0)
<1>1. DfsInv(G, P, origin, sub, <<origin>>, {}, <<>>)
  <2>1. <<origin>> \in Seq(sub) /\ Len(<<origin>>) = 1 /\ DOMAIN <<origin>> = {1} /\ <<origin>>[1] = origin
    OBVIOUS
  <2>2. <<>> \in Seq(sub) /\ DOMAIN <<>> = {} /\ Range(<<>>) = {}
    BY DEF Range
  <2>3. StackInv(G, P, origin, <<origin>>, {}, <<>>)
    BY <2>1, <2>2 DEF StackInv
  <2>4. ChildInv(G, sub, <<origin>>, {}, <<>>) /\ ResultInv(G, <<>>)
    BY <2>2 DEF ChildInv, ResultInv
  <2> QED BY <2>1, <2>2, <2>3, <2>4 DEF DfsInv
<1>2. Cardinality({}) + Len(<<>>) = 0
  BY FS_EmptySet
<1> QED BY <1>1, <1>2 DEF LoopInv, DfsStart

(* A vertex that is expanded has no child still being processed: below it  *)
(* on the stack the visited ones are its ancestors.                        *)
LEMMA NoCycleMet ==
  ASSUME NEW G, NEW P, NEW origin, NEW sub, NEW stack, NEW visited, NEW result,
         Causal(G, P, sub), DfsInv(G, P, origin, sub, stack, visited, result),
         stack # <<>>, Head(stack) \notin visited
  PROVE  Children(G, Head(stack)) \cap ((visited \cup {Head(stack)}) \ Range(result)) = {}
<1> SUFFICES ASSUME NEW c \in visited \cup {Head(stack)}, c \notin Range(result), Head(stack) \in G[c]
             PROVE  FALSE
  BY DEF Children
<1> DEFINE node == stack[1]
<1>1. Head(stack) = node /\ 1 \in DOMAIN stack /\ node \in sub /\ c \in sub /\ DOMAIN stack \subseteq Nat \ {0}
  BY DEF DfsInv
<1>2. node \in P[c]
  BY <1>1 DEF Causal
<1>3. CASE c = node
  BY <1>1, <1>2, <1>3 DEF Causal
<1>4. CASE c # node
  <2>1. PICK k \in DOMAIN stack : stack[k] = c
    BY <1>1, <1>4 DEF DfsInv, StackInv
  <2>2. 1 < k /\ c \in visited
    BY <1>1, <1>4, <2>1
  <2>3. c \in P[node]
    BY <1>1, <2>1, <2>2 DEF DfsInv, StackInv
  <2> QED BY <1>1, <1>2, <2>3 DEF Causal
<1> QED BY <1>3, <1>4

(* An iteration keeps it. *)
LEMMA StepLoopInv ==
  ASSUME NEW G, NEW P, NEW origin, NEW sub, NEW s, NEW n \in Nat,
         Causal(G, P, sub), Sortable(G, origin, sub), LoopInv(G, P, origin, sub, s, n)
  PROVE  LoopInv(G, P, origin, sub, DfsStep(G, sub, s), n + 1)
<1> DEFINE node == Head(s.stack)
           unseen == {c \in Children(G, node) : c \in sub /\ c \notin s.visited}
<1>0. s \in [stack : Seq(sub), visited : SUBSET sub, result : Seq(sub), cyclic : {FALSE}]
  BY Zenon DEF LoopInv
<1>1. DfsInv(G, P, origin, sub, s.stack, s.visited, s.result)
  BY DEF LoopInv
<1>2. CASE Len(s.result) = Cardinality(sub)
  BY <1>2, Zenon DEF LoopInv, DfsStep
<1>3. CASE Len(s.result) # Cardinality(sub)
  <2>1. s.stack # <<>>
    BY <1>1, <1>3, StackLasts
  <2>2. IsFiniteSet(s.visited) /\ Cardinality(s.visited) \in Nat /\ Len(s.result) \in Nat
    <3>1. IsFiniteSet(sub) /\ s.visited \in SUBSET sub
      BY <1>0 DEF Causal
    <3> QED BY <1>0, <3>1, FS_Subset, FS_CardinalityType
  <2>3. Cardinality(s.visited) + Len(s.result) = n
    BY <1>3 DEF LoopInv
  <2>4. CASE node \in s.visited
    <3> DEFINE t == [s EXCEPT !.stack = Tail(@), !.result = <<node>> \o @]
    <3>1. DfsStep(G, sub, s) = t
      BY <1>0, <1>3, <2>4, Zenon DEF DfsStep
    <3>2. t.stack = Tail(s.stack) /\ t.visited = s.visited /\ t.result = <<node>> \o s.result
      BY <1>0
    <3>3. DfsInv(G, P, origin, sub, t.stack, t.visited, t.result)
      BY <1>1, <2>1, <2>4, <3>2, EmitKeeps
    <3>4. t \in [stack : Seq(sub), visited : SUBSET sub, result : Seq(sub), cyclic : {FALSE}]
      <4>1. t.stack \in Seq(sub) /\ t.visited \in SUBSET sub /\ t.result \in Seq(sub)
        BY <3>3 DEF DfsInv
      <4> QED BY <1>0, <4>1, Zenon
    <3>5. Len(t.result) = Len(s.result) + 1
      <4>1. node \in sub /\ s.result \in Seq(sub)
        BY <1>0, <2>1
      <4> HIDE DEF t, node
      <4> QED BY <3>2, <4>1, Emitted
    <3> HIDE DEF t
    <3>6. Cardinality(t.visited) + Len(t.result) = n + 1
      BY <2>2, <2>3, <3>2, <3>5
    <3> QED BY <3>1, <3>3, <3>4, <3>6, Zenon DEF LoopInv
  <2>5. CASE node \notin s.visited
    <3> DEFINE t == [s EXCEPT !.stack = Descending(unseen) \o @, !.visited = @ \cup {node}]
    <3>0. Children(G, node) \cap ((s.visited \cup {node}) \ Range(s.result)) = {}
      BY <1>0, <1>1, <2>1, <2>5, NoCycleMet
    <3>1. DfsStep(G, sub, s) = t
      BY <1>0, <1>3, <2>5, <3>0, Zenon DEF DfsStep
    <3>2. t.stack = Descending(unseen) \o s.stack /\ t.visited = s.visited \cup {node} /\ t.result = s.result
      BY <1>0
    <3>3. DfsInv(G, P, origin, sub, t.stack, t.visited, t.result)
      <4> HIDE DEF t
      <4> QED BY <1>1, <2>1, <2>5, <3>2, VisitKeeps
    <3>4. t \in [stack : Seq(sub), visited : SUBSET sub, result : Seq(sub), cyclic : {FALSE}]
      <4>1. t.stack \in Seq(sub) /\ t.visited \in SUBSET sub /\ t.result \in Seq(sub)
        BY <3>3 DEF DfsInv
      <4> QED BY <1>0, <4>1, Zenon
    <3> HIDE DEF t, node
    <3>5. Cardinality(t.visited) = Cardinality(s.visited) + 1
      BY <2>2, <2>5, <3>2, FS_AddElement, Zenon
    <3>6. Cardinality(t.visited) + Len(t.result) = n + 1
      BY <2>2, <2>3, <3>2, <3>5
    <3> QED BY <3>1, <3>3, <3>4, <3>6, Zenon DEF LoopInv
  <2> QED BY <2>4, <2>5
<1> QED BY <1>2, <1>3

(* dfsTopologicalSortIterative on a subgraph its origin reaches: every     *)
(* vertex once, none before one it depends on, and the origin not put      *)
(* back.                                                                   *)
LEMMA SortedOnce ==
  ASSUME NEW G, NEW P, NEW origin, NEW sub, Causal(G, P, sub), Sortable(G, origin, sub)
  PROVE  LET order == dfsTopologicalSortIterative(G, origin, sub)
         IN /\ order \in Seq(sub) /\ Len(order) = Cardinality(sub) /\ Range(order) = sub
            /\ order = DfsLoop(G, origin, sub).result
            /\ \A i, j \in DOMAIN order : order[i] = order[j] => i = j
            /\ \A i, j \in DOMAIN order : order[i] \in G[order[j]] => i < j
<1> DEFINE end == DfsLoop(G, origin, sub)
<1>1. PICK f : /\ f[0] = DfsStart(origin)
               /\ \A n \in Nat : f[n + 1] = DfsStep(G, sub, f[n])
               /\ end = f[2 * Cardinality(sub)]
  BY LoopStates
<1>2. \A n \in Nat : LoopInv(G, P, origin, sub, f[n], n)
  <2> DEFINE M == {n \in Nat : LoopInv(G, P, origin, sub, f[n], n)}
  <2>1. 0 \in M
    BY <1>1, StartLoopInv DEF Sortable
  <2>2. \A n \in Nat : n \in M => n + 1 \in M
    BY <1>1, StepLoopInv
  <2>3. \A n \in Nat : n \in M
    <3> HIDE DEF M
    <3> QED BY <2>1, <2>2, SetInduction
  <2> QED BY <2>3
<1>3. IsFiniteSet(sub) /\ Cardinality(sub) \in Nat
  BY FS_CardinalityType DEF Causal
<1> DEFINE s == f[2 * Cardinality(sub)]
<1>4. LoopInv(G, P, origin, sub, s, 2 * Cardinality(sub))
  <2>1. 2 * Cardinality(sub) \in Nat
    BY <1>3
  <2> QED BY <1>2, <2>1
<1> HIDE DEF s, end
<1>5. /\ s.result \in Seq(sub) /\ s.visited \in SUBSET sub
      /\ \A i, j \in DOMAIN s.result : s.result[i] = s.result[j] => i = j
      /\ \A i, j \in DOMAIN s.result : s.result[i] \in G[s.result[j]] => i < j
  BY <1>4 DEF LoopInv, DfsInv, ResultInv
<1>6. /\ Len(s.result) \in Nat /\ Len(s.result) <= Cardinality(sub)
      /\ Len(s.result) = Cardinality(sub) => Range(s.result) = sub
  BY <1>3, <1>5, OnceEach
<1>7. Cardinality(s.visited) \in Nat /\ Cardinality(s.visited) <= Cardinality(sub)
  BY <1>3, <1>5, FS_Subset, FS_CardinalityType
<1>8. Len(s.result) = Cardinality(sub)
  <2>1. CASE Cardinality(s.visited) + Len(s.result) = 2 * Cardinality(sub)
    BY <2>1, <1>3, <1>6, <1>7
  <2> QED BY <2>1, <1>4 DEF LoopInv
<1>9. end = s /\ Range(end.result) = sub /\ ~end.cyclic
  BY <1>1, <1>4, <1>6, <1>8, Zenon DEF s, LoopInv
<1>10. dfsTopologicalSortIterative(G, origin, sub) = end.result
  <2>1. origin \in Range(end.result)
    BY <1>9 DEF Sortable
  <2> QED BY <1>9, <2>1 DEF dfsTopologicalSortIterative, end
<1> QED BY <1>5, <1>8, <1>9, <1>10 DEF end
=============================================================================
