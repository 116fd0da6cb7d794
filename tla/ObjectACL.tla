----------------------------- MODULE ObjectACL -----------------------------
(***************************************************************************)
(* ObjectACL (packages/object/src/acl/index.ts) as a replicated object.    *)
(* grant, revoke and setKey check their caller against the ACL's own       *)
(* state; the vertex applier (drp-applier.ts) runs a remote operation once *)
(* on the state at its dependencies, and runs it again whenever it replays *)
(* the linearized graph into the live ACL, where concurrent operations of  *)
(* other admins may have been kept or dropped before it.  A call that      *)
(* throws in a merge abandons the merge where it stands.                   *)
(*                                                                         *)
(* Checkpoints and snapshots are the subject of DRPApplier; here a state   *)
(* is always replayed from the root.                                       *)
(***************************************************************************)
EXTENDS Linearize, TLC

CONSTANTS
  Peer,
  Replica,         \* the peers that run a replica
  Admins,          \* the admins the ACL is constructed with
  Permissionless,
  Root,
  MaxVertices      \* bound on the vertices created

(* OpOf[h] = [opType, caller, arg, group]; arg is the peer of grant and    *)
(* revoke, the key of setKey.  A hash covers the operation and its author, *)
(* so it is created at one replica only.                                   *)
Hash == DOMAIN OpOf
Group == {"Admin", "Finality", "Writer"}

VARIABLES
  deps,      \* deps[h]: the dependencies of each vertex created so far
  vertices,  \* vertices[r]: the vertices of the graph, in insertion order
  acl        \* acl[r]: the live ACL

vars == <<deps, vertices, acl>>
-----------------------------------------------------------------------------
(* An ACL: the groups of each peer, and its BLS key. *)
NoKey == "none"
NewACL ==
  [permissions |-> [p \in Peer |-> IF p \notin Admins THEN {}
                                   ELSE IF Permissionless THEN Group \ {"Writer"} ELSE Group],
   key |-> [p \in Peer |-> NoKey]]

(* The state after a call that threw. *)
Thrown == [permissions |-> << >>, key |-> << >>]

query_isAdmin(s, p) == "Admin" \in s.permissions[p]
query_isFinalitySigner(s, p) == "Finality" \in s.permissions[p]

grant(s, o) ==
  IF ~query_isAdmin(s, o.caller) \/ (o.group = "Writer" /\ Permissionless) THEN Thrown
  ELSE [s EXCEPT !.permissions[o.arg] = @ \cup {o.group}]

(* Mutant: an admin may be revoked. *)
revokeAdmin(s, o) ==
  IF ~query_isAdmin(s, o.caller) THEN Thrown
  ELSE [s EXCEPT !.permissions[o.arg] = @ \ {o.group}]

(* "currently no way to revoke admin privileges" *)
revoke(s, o) ==
  IF ~query_isAdmin(s, o.caller) \/ query_isAdmin(s, o.arg) THEN Thrown
  ELSE [s EXCEPT !.permissions[o.arg] = @ \ ({o.group} \ {"Admin"})]

setKey(s, o) ==
  IF ~query_isFinalitySigner(s, o.caller) THEN Thrown ELSE [s EXCEPT !.key[o.caller] = o.arg]

(* callDRP: the method runs with the vertex's author as the caller. *)
callDRP(s, o) ==
  CASE o.opType = "grant" -> grant(s, o)
    [] o.opType = "revoke" -> revoke(s, o)
    [] o.opType = "setKey" -> setKey(s, o)

(* applyVertices: the calls in sequence, ended by the first that throws. *)
applyVertices(s, seq) ==
  FoldLeft(LAMBDA st, h : IF st = Thrown THEN Thrown ELSE callDRP(st, OpOf[h]), s, seq)

(* The ACL at a set of vertices: the operations of their past, linearized. *)
StateAt(D) ==
  LET past == PastOf(deps, D)
  IN applyVertices(NewACL, linearizePairSemantics([h \in past |-> deps[h]], Root, past))
-----------------------------------------------------------------------------
Known(r) == Range(vertices[r])
getFrontier(r) == {v \in Known(r) : \A w \in Known(r) : v \notin deps[w]}

Init ==
  /\ deps = (Root :> {})
  /\ vertices = [r \in Replica |-> <<Root>>]
  /\ acl = [r \in Replica |-> NewACL]

(* A local call, through callFnPipeline: it runs on a copy of the live     *)
(* ACL; if it threw or changed nothing no vertex is made of it.            *)
callFn(r, h) ==
  LET after == callDRP(acl[r], OpOf[h])
  IN /\ OpOf[h].caller = r
     /\ h \notin DOMAIN deps /\ Cardinality(DOMAIN deps) <= MaxVertices
     /\ after \notin {Thrown, acl[r]}
     /\ deps' = deps @@ (h :> getFrontier(r))
     /\ vertices' = [vertices EXCEPT ![r] = Append(@, h)]
     /\ acl' = [acl EXCEPT ![r] = after]

(* applyVertexPipeline accepts a vertex if its operation does not throw on *)
(* the state at its dependencies.                                          *)
Accepted(h) == applyVertices(StateAt(deps[h]), <<h>>) # Thrown

(* The vertices of a batch a merge adds: all of them, or those before the  *)
(* first that throws.                                                      *)
AddedOf(batch) ==
  LET bad == {k \in DOMAIN batch : ~Accepted(batch[k])}
  IN IF bad = {} THEN batch ELSE SubSeq(batch, 1, Least(bad) - 1)

(* applyVertices with what replica s has and r lacks, in the order of s's  *)
(* vertex map.  Only if no vertex and no call of the replay threw is the   *)
(* replayed ACL assigned.                                                  *)
merge(r, s) ==
  LET batch == SelectSeq(vertices[s], LAMBDA h : h \notin Known(r))
      added == AddedOf(batch)
      known == Known(r) \cup Range(added)
      replayed == StateAt({v \in known : \A w \in known : v \notin deps[w]})
  IN /\ batch # <<>>
     /\ vertices' = [vertices EXCEPT ![r] = @ \o added]
     /\ acl' = IF added # batch \/ replayed = Thrown THEN acl ELSE [acl EXCEPT ![r] = replayed]
     /\ UNCHANGED deps

Next ==
  \/ \E r \in Replica, h \in Hash : callFn(r, h)
  \/ \E r, s \in Replica : merge(r, s)

Spec == Init /\ [][Next]_vars
-----------------------------------------------------------------------------
Live(r) == StateAt(getFrontier(r))

(* "All nodes eventually agree on the same state"                          *)
(* (specs/object/README.md): replicas with the same vertices have the same *)
(* ACL.                                                                    *)
ACLConvergence ==
  \A r, s \in Replica : Known(r) = Known(s) => acl[r] = acl[s]

(* Every merge completes: an operation whose caller was authorised when it *)
(* was made is never refused when it is replayed between operations its    *)
(* author had not seen.                                                    *)
ReplayNeverThrows == \A r \in Replica : acl[r] = Live(r)

(* "currently no way to revoke admin privileges" (acl/index.ts, revoke):   *)
(* whoever is an admin in a replica's live ACL stays one.                  *)
AdminsStay ==
  [][\A r \in Replica, p \in Peer : query_isAdmin(acl[r], p) => query_isAdmin(acl'[r], p)]_acl

(* An effective grant is never undone by a revoke its author had not seen: *)
(* with GrantWins a peer holds what an admin granted unless a later revoke *)
(* took it away.                                                           *)
GrantsHold ==
  \A r \in Replica : \A v \in Known(r) \ {Root} :
    (/\ OpOf[v].opType = "grant"
     /\ \A w \in Known(r) \ {Root} :
          /\ OpOf[w].opType = "revoke" /\ OpOf[w].arg = OpOf[v].arg
          /\ OpOf[w].group = OpOf[v].group
          => ~Before(deps, v, w))
    => OpOf[v].group \in acl[r].permissions[OpOf[v].arg]
=============================================================================
