------------------------------ MODULE MCObject ------------------------------
(***************************************************************************)
(* The two stores an object keeps beside its hash graph, each on a small    *)
(* instance: the finality of a vertex with four signers, p4 of which has    *)
(* changed its BLS key since, and the snapshots and checkpoints of two      *)
(* replicas that exchange operations that conflict or swap.  The first      *)
(* state chooses which a behaviour is about.                                *)
(***************************************************************************)
EXTENDS FinalityStore, TLC

CONSTANTS p1, p2, p3, p4, v,  \* the peers and the vertex of the finality store
          Copy,           \* the replicas of the applier
          MaxVertices, OverlapBound, ThrowBound

VARIABLES part,  \* the part of the system this behaviour is of
          deps, vertices, live, applyStates, checkpoints, call, merge, disturbed

applierVars == <<deps, vertices, live, applyStates, checkpoints, call, merge, disturbed>>

MCPeer == {p1, p2, p3, p4}
MCHash == {v}
MCSigners == [h \in MCHash |-> MCPeer]
MCRotated == [h \in MCHash |-> {p4}]

Grant == [opType |-> "grant", arg |-> "peer"]
Revoke == [opType |-> "revoke", arg |-> "peer"]
Mul == [opType |-> "mul", arg |-> "two"]
Add == [opType |-> "add", arg |-> "one"]
GroupNop(group) == [action |-> "Nop", vertices |-> {}]

Symmetry == {f @@ g : f \in Permutations({p1, p2, p3}), g \in Permutations(Copy)}

Apply == INSTANCE DRPApplier
  WITH Replica <- Copy, Root <- 0, SuffixSize <- 2, MaxCheckpoints <- 2,
       OpOf <- <<Grant, Mul, Add, Revoke>>, GrantWins <- FALSE, SetWins <- TRUE,
       GroupAction <- GroupNop, states <- applyStates

-----------------------------------------------------------------------------
\* A behaviour is one of one part; the others keep their first state.
InitAll ==
  /\ part \in {"finality", "applier"}
  /\ Init
  /\ Apply!Init

FinalityStoreStep ==
  /\ part = "finality" /\ Next
  /\ UNCHANGED <<part, applierVars>>

ApplyStep ==
  /\ part = "applier" /\ Apply!Next
  /\ UNCHANGED <<part, vars>>

NextAll ==
  \/ FinalityStoreStep
  \/ ApplyStep

allVars == <<part, vars, applierVars>>

SpecAll == InitAll /\ [][NextAll]_allVars

-----------------------------------------------------------------------------
\* A checkpoint and a snapshot hold the state after exactly the operations they stand for,
\* in the order of a replay from the root, whichever checkpoint they were replayed from; and
\* pruning never leaves a replay without a state to start from, nor an insertion order that
\* lists a vertex before a dependency. Between merges the live state is the linearization of
\* the whole graph, although local calls extend it in place and merges replay it from a
\* checkpoint (drp-applier.ts).
StatesFaithful ==
  part = "applier" =>
    /\ Apply!CheckpointsFaithful /\ Apply!SnapshotsFaithful
    /\ Apply!ReplayHasBase /\ Apply!InsertionOrderTopological
    /\ Apply!LiveIsLinearization

\* "All nodes eventually agree on the same state" (specs/object/README.md): replicas that
\* hold the same vertices and have nothing in flight have the same state.
Convergence == part = "applier" => Apply!Convergence
=============================================================================
