----------------------------- MODULE MCReplica -----------------------------
(***************************************************************************)
(* What a replica keeps: its hash graph and the snapshots of the object's   *)
(* fields.  Three replicas create up to four vertices, with hashes in any   *)
(* order, or with hashes in order while one of them is asked causality      *)
(* queries.  The first state chooses the part a behaviour is about.         *)
(***************************************************************************)
EXTENDS HashGraph, Sequences, TLC

VARIABLES part,  \* the part of the system this behaviour is of
          heap, live, graph, states, kept, held, notified, lost, tampered

stateVars == <<heap, live, graph, states, kept, held, notified, lost, tampered>>

Symmetry == Permutations(Replica \ Querying)

\* ObjectState: methods of up to two steps.  An object is stored, in one field or two, written
\* to through another method or through the argument, before or after it is stored, removed;
\* one throws after a write.
On(do, f) == [do |-> do, on |-> f, x |-> "x"]
Methods ==
  { <<On("put", "a")>>, <<On("put", "a"), On("add", "arg")>>, <<On("put", "a"), On("put", "b")>>,
    <<On("add", "arg"), On("put", "b")>>, <<On("add", "a")>>,
    <<On("delete", "a"), On("add", "b")>>, <<On("clear", "a")>>,
    <<On("add", "b"), On("throw", "b")>>, <<On("other", "b")>>, <<On("setTime", "b")>>,
    <<On("drop", "a")>> }

Fields == INSTANCE ObjectState
  WITH Field <- {"a", "b"}, Element <- {"x"}, Method <- Methods, MaxVertices <- 2,
       MaxObjects <- 2

-----------------------------------------------------------------------------
\* A behaviour is one of one part; the others keep their first state.
InitAll ==
  /\ part \in {"graph", "cache", "state"}
  /\ Init
  /\ IF part = "state" THEN Fields!Init
     ELSE /\ heap = 0 /\ live = 0 /\ graph = 0 /\ states = 0 /\ kept = 0 /\ held = 0
          /\ notified = 0 /\ lost = 0 /\ tampered = 0

GraphStep ==
  /\ part = "graph" /\ \E r \in Replica, h \in Hash : createVertex(r, h) \/ applyVertex(r, h)
  /\ UNCHANGED <<part, stateVars>>

\* The order of the hashes matters to the sort only: here they are handed out in order.
CacheStep ==
  /\ part = "cache" /\ Next /\ created' = 1 .. Cardinality(created')
  /\ UNCHANGED <<part, stateVars>>

FieldsStep ==
  /\ part = "state" /\ Fields!Next
  /\ UNCHANGED <<part, vars>>

NextAll ==
  \/ GraphStep
  \/ CacheStep
  \/ FieldsStep

allVars == <<part, vars, stateVars>>

SpecAll == InitAll /\ [][NextAll]_allVars

-----------------------------------------------------------------------------
\* No snapshot changes once it is taken, no write of a method is lost from the next
\* snapshot, and live objects stay apart from the snapshots: what a call shares with a
\* snapshot is cloned before it is written (callDRP, the proxies, stateFromDRP). Two kinds
\* of methods are excepted, and only they: one that writes to its argument after storing it
\* may lose its call, and one that stores it twice may see its fields stay one object.
SnapshotsByValue ==
  part = "state" => Fields!HistoryImmutable /\ Fields!NoWriteLost /\ Fields!LiveIsByValue
=============================================================================
