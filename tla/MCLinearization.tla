-------------------------- MODULE MCLinearization --------------------------
(***************************************************************************)
(* The algorithms of Linearize on every hash graph of up to MaxVertices    *)
(* vertices that honest replicas can build: the scan of multiple semantics *)
(* as a loop, the pair semantics for access control and AddMul operations  *)
(* and for those of a MapDRP; and the access control list that replicas    *)
(* compute by linearizing.  The first state chooses which.                 *)
(*                                                                         *)
(* A replica's frontier is the set of heads of the part of the history it  *)
(* has seen, so a vertex may depend on any non-empty antichain.  Hashes    *)
(* are handed out in any order, so their order says nothing of the order   *)
(* of creation.                                                            *)
(***************************************************************************)
EXTENDS Linearize, TLC

CONSTANTS
  MaxVertices, Root,
  AclOps,        \* OpOf and GrantWins of the replicas of ObjectACL
  AclGrantWins

VARIABLES
  ops,                  \* the operations this behaviour is about
  G,                    \* the graph: hash |-> dependencies
  scan,                 \* <<>> while the graph grows, then <<the state of a scan of multiple semantics>>
  beat,                 \* flips on every iteration of a scan, also one that changes nothing else
  deps, vertices, acl   \* the replicas of ObjectACL

scanVars == <<G, scan, beat>>
aclVars == <<deps, vertices, acl>>

(* The operations of multiple semantics, whose resolver keeps one of       *)
(* several concurrent additions; and those with a grant beside a revoke.   *)
Grant == [opType |-> "grant", arg |-> "peer"]
Revoke == [opType |-> "revoke", arg |-> "peer"]
Mul == [opType |-> "mul", arg |-> "two"]
Add == [opType |-> "add", arg |-> "one"]

MCOpOf ==
  <<Add, Mul, Add, Grant, Add>>
MCAclOps ==
  <<Grant, Revoke, Add>>

MCGroupAction(group) ==
  LET adds == {h \in Range(group) : OpOf[h] = Add}
  IN IF Cardinality(adds) < 2 THEN [action |-> "Nop", vertices |-> {}]
     ELSE [action |-> "Drop", vertices |-> adds \ {CHOOSE h \in adds : \A k \in adds : k <= h}]

PairOps == <<Grant, Mul, Add, Revoke, Add>>

Put(n) == [opType |-> "set", arg |-> "key", hash |-> n]
Del == [opType |-> "delete", arg |-> "key"]
MapOps == <<Put(2), Del, Put(1), Put(3), Del>>

NoAction(group) == [action |-> "Nop", vertices |-> {}]

Pair == INSTANCE Linearize WITH OpOf <- PairOps, GroupAction <- NoAction
Map == INSTANCE Linearize WITH OpOf <- MapOps, GroupAction <- NoAction

(* Admins a and b and a third peer x run replicas; y is only talked about. *)
(* Some operations are there under two hashes, so that concurrent ones are *)
(* sorted either way.                                                      *)
Op(caller, opType, arg, group) ==
  [opType |-> opType, caller |-> caller, arg |-> arg, group |-> group]
AdminOps ==
  << Op("b", "revoke", "x", "Writer"), Op("a", "grant", "x", "Writer"),
     Op("x", "grant", "y", "Writer"), Op("a", "grant", "x", "Admin"),
     Op("b", "revoke", "y", "Writer"), Op("b", "grant", "x", "Finality"),
     Op("a", "setKey", "key", "Finality"), Op("b", "revoke", "x", "Writer"),
     Op("b", "revoke", "x", "Finality"), Op("b", "revoke", "x", "Admin") >>

AllOps == Append(AdminOps, Op("x", "setKey", "key", "Finality"))

List == INSTANCE ObjectACL
  WITH Peer <- {"a", "b", "x", "y"}, Replica <- {"a", "b", "x"}, Admins <- {"a", "b"},
       Permissionless <- FALSE, MaxVertices <- 4, OpOf <- AclOps, GrantWins <- AclGrantWins,
       GroupAction <- NoAction

-----------------------------------------------------------------------------
Init == G = (Root :> {})

Antichain(D) == \A d, e \in D : ~Before(G, d, e)

createVertex(h, D) ==
  /\ h \notin DOMAIN G
  /\ D # {} /\ Antichain(D)
  /\ G' = G @@ (h :> D)

Next == \E h \in 1 .. MaxVertices, D \in SUBSET DOMAIN G : createVertex(h, D)

All == DOMAIN G
Heads == {D \in SUBSET All : D # {} /\ Antichain(D)}
Concurrent(v, w) == ~Related(G, v, w)

(* linearizeMultipleSemantics as the loop it is, one iteration a step:     *)
(* whether it comes to an end depends on what the resolver answers.        *)
(* HashGraph.resolveConflicts hands a group to the ACL's resolver when its *)
(* first vertex is an ACL operation, whatever the semantics type of the    *)
(* DRP.                                                                    *)
ScanInit == Init /\ scan = <<>> /\ beat = FALSE

Grow == scan = <<>> /\ Next /\ UNCHANGED <<scan, beat>>

Begin ==
  /\ scan = <<>>
  /\ scan' = <<MultipleStart(G, Root, All)>>
  /\ UNCHANGED <<G, beat>>

Iterate ==
  /\ \E s \in Range(scan) : ~MultipleDone(s) /\ scan' = <<MultipleStep(s)>>
  /\ beat' = ~beat
  /\ UNCHANGED G

ScanNext == Grow \/ Begin \/ Iterate

-----------------------------------------------------------------------------
InitAll == ops \in {"multiple", "pair", "map", "acl"} /\ ScanInit /\ List!Init

ScanStep == ops = "multiple" /\ ScanNext /\ UNCHANGED <<ops, aclVars>>
GraphStep == ops \in {"pair", "map"} /\ Next /\ UNCHANGED <<ops, scan, beat, aclVars>>
ListStep == ops = "acl" /\ List!Next /\ UNCHANGED <<ops, scanVars>>

NextAll == ScanStep \/ GraphStep \/ ListStep

SpecAll == InitAll /\ [][NextAll]_<<ops, scanVars, aclVars>> /\ WF_scanVars(Iterate)

-----------------------------------------------------------------------------
(* A checkpoint at the frontier F serves a replay up to D, and the suffix. *)
Usable(D, F) == dependenciesCover(G, D, F) /\ CausalBarrier(G, D, F)
Suffix(D, F) == {Least(F)} \cup SuffixMembers(G, D, F)

(* Linearizing the past of F and then the suffix is linearizing the past   *)
(* of D; and so is linearizing the past of the common ancestor of D and    *)
(* then the subgraph the search has visited, in whatever order the search  *)
(* takes the vertices of D.                                                *)
FromPrefix(linearize(_, _)) ==
  LET replays == {[to |-> D, seq |-> linearize(Root, PastOf(G, D))] : D \in Heads}
  IN \A whole \in replays :
       /\ \A prefix \in replays : Usable(whole.to, prefix.to) =>
            whole.seq = prefix.seq \o linearize(Least(prefix.to), Suffix(whole.to, prefix.to))
       /\ Cardinality(whole.to) > 1 =>
            \A hashes \in SetToSeqs(whole.to) :
              LET r == lowestCommonAncestorMultipleVertices(G, hashes)
              IN \E prefix \in replays :
                   prefix.to = {r.lca} /\ whole.seq = prefix.seq \o linearize(r.lca, r.visited)

(* Replaying from a checkpoint, or from the common ancestor of the         *)
(* dependencies, gives what replaying from the root gives, for pair        *)
(* semantics that drop and swap, for those of a MapDRP, and for multiple   *)
(* semantics: the history is cut where no vertex before is concurrent with *)
(* one behind (linearizePairSemantics, linearizeMultipleSemantics,         *)
(* lowestCommonAncestorMultipleVertices, the causal barrier of the         *)
(* applier).                                                               *)
ReplayFromPrefix ==
  /\ ops = "pair" => FromPrefix(LAMBDA o, S : Pair!linearizePairSemantics(G, o, S))
  /\ ops = "map" => FromPrefix(LAMBDA o, S : Map!linearizePairSemantics(G, o, S))
  /\ ops = "multiple" /\ scan = <<>> =>
       FromPrefix(LAMBDA o, S : linearizeMultipleSemantics(G, o, S))

(* Under RevokeWins no grant survives next to a revoke of the same peer    *)
(* that is concurrent with it, and no revoke is ever dropped; swaps of DRP *)
(* operations in the same scan do not disturb the access control outcome.  *)
RevokeWins ==
  LET kept == Range(Pair!linearizePairSemantics(G, Root, All))
      revokes == {v \in All \ {Root} : PairOps[v].opType = "revoke"}
  IN \A v \in All \ {Root} :
       IF PairOps[v].opType = "grant" THEN v \in kept <=> \A w \in revokes : ~Concurrent(v, w)
       ELSE v \in kept

(* AddMulDRP: every addition comes before the multiplications concurrent   *)
(* with it, although each swap moves vertices past others and exchanges    *)
(* their rows of the matrix.                                               *)
AddsBeforeMuls ==
  LET seq == Pair!linearizePairSemantics(G, Root, All)
  IN \A i, j \in DOMAIN seq :
       (i < j /\ PairOps[seq[i]].opType = "mul" /\ PairOps[seq[j]].opType = "add")
         => ~Concurrent(seq[i], seq[j])

(* MapDRP: of the operations that are left no two concurrent ones are in   *)
(* conflict, although a vertex that drops others may be dropped itself     *)
(* later in the scan, and the answers depend on which of two is the left.  *)
MapConflictsResolved ==
  LET kept == Range(Map!linearizePairSemantics(G, Root, All))
  IN \A v, w \in kept :
       Concurrent(v, w) => resolveConflictsMap(MapOps[v], MapOps[w]) = "Nop"

(* Every group handed to a resolver is pairwise concurrent, although it is *)
(* collected greedily behind an anchor while positions are dropped.        *)
GroupsConcurrent ==
  \A s \in Range(scan) : Resolving(s) =>
    \A v, w \in Range(MultipleGroup(s)) : v # w => Concurrent(v, w)

(* What the scan has emitted is what it has passed and not dropped: no     *)
(* later answer of the resolver drops a vertex already in the result.      *)
EmittedStaysKept ==
  \A s \in Range(scan) :
    Range(s.result) = {s.order[k] : k \in (1 .. s.i - 1) \ s.dropped} \ {Root}

(* What is left of a graph is free of conflicts: no grant beside a revoke  *)
(* of the same peer that is concurrent with it, no multiplication before a *)
(* concurrent addition, no two operations of a map that still conflict     *)
(* (resolveConflicts of the ACL, AddMulDRP and MapDRP). The scan of        *)
(* multiple semantics hands only pairwise concurrent vertices to a         *)
(* resolver, and no answer drops a vertex already in the result            *)
(* (linearizeMultipleSemantics).                                           *)
ConflictsResolved ==
  /\ ops = "pair" => RevokeWins /\ AddsBeforeMuls
  /\ ops = "map" => MapConflictsResolved
  /\ ops = "multiple" => GroupsConcurrent /\ EmittedStaysKept

(* "linearizeVertices ... Returns: Array of linearized vertices"           *)
(* (specs/hashgraph/README.md): a scan that begins ends.                   *)
ScanReturns == (scan # <<>>) ~> (\E s \in Range(scan) : MultipleDone(s))

(* A replay of the history never throws for lack of a permission, a grant  *)
(* holds unless it was revoked (where grants win), and no operation takes  *)
(* an admin away (ObjectACL).                                              *)
GrantsHold ==
  [](ops = "acl" => List!ReplayNeverThrows /\ List!GrantsHold) /\ List!AdminsStay

(* "All nodes eventually agree on the same state" for the list: replicas   *)
(* that hold the same vertices have the same list (ObjectACL).             *)
ACLConvergence == ops = "acl" => List!ACLConvergence
=============================================================================
