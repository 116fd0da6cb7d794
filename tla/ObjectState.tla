----------------------------- MODULE ObjectState -----------------------------
(***************************************************************************)
(* What the parts of a DRP object share by reference: the objects that the *)
(* application passes in and reads out, the payloads of the vertices, the  *)
(* snapshots of DRPObjectStateManager (packages/object/src/state.ts), and  *)
(* the live DRP (packages/object/src/index.ts, proxy.ts, and the pipeline  *)
(* of drp-applier.ts). Which vertices there are, and in which order they   *)
(* are replayed, is the business of DRPApplier: here history is a line.    *)
(*                                                                         *)
(* An object is a cell of the heap that holds a set of elements. It stands *)
(* for the collections and nested objects an operation may write: a Map or *)
(* a plain object by its keys, a Set by its elements, a Date by its time.  *)
(* A DRP has fields that refer to cells.                                   *)
(***************************************************************************)
EXTENDS Integers, Sequences, FiniteSets, SequencesExt

CONSTANTS
    Field, Element,
    Method,         \* the DRP's methods: sequences of steps
    MaxVertices, MaxObjects \* bounds: vertices, objects of the application

VARIABLES
    heap,       \* the cells
    live,       \* the DRP the application sees: field to cell, 0 if absent
    graph,      \* the vertices: method, payload, and what was hashed
    states,     \* snapshots by vertex, 0 for the root
    kept,       \* what each snapshot said when it was taken
    held,       \* the cells the application has a reference to
    notified,   \* what the subscriber was told: origin and vertex
    lost,       \* the methods of which a call that changed its state was taken for a read
    tampered    \* whether the application has written to the live DRP

vars == <<heap, live, graph, states, kept, held, notified, lost, tampered>>

Absent == 0
\* What a field says: nothing, or the content of its cell.
Content(h, r) == IF r = Absent THEN {} ELSE {h[r]}
Says(h, inst) == [f \in Field |-> Content(h, inst[f])]

-----------------------------------------------------------------------------
(* cloneDeep, and the two functions that are made of it: applyState and    *)
(* stateFromDRP clone field by field.                                      *)
cloneDeep(h, r) == IF r = Absent THEN [heap |-> h, ref |-> Absent] ELSE [heap |-> Append(h, h[r]), ref |-> Len(h) + 1]
stateFromDRP(h, inst) ==
    FoldSet(LAMBDA f, acc : LET c == cloneDeep(acc.heap, inst[f])
                            IN [heap |-> c.heap, inst |-> [acc.inst EXCEPT ![f] = c.ref]],
            [heap |-> h, inst |-> inst], Field)
fromStates(h, state) ==
    FoldSet(LAMBDA f, acc : LET c == cloneDeep(acc.heap, state[f])
                            IN [heap |-> c.heap, inst |-> [acc.inst EXCEPT ![f] = c.ref]],
            [heap |-> h, inst |-> state], Field)

-----------------------------------------------------------------------------
(* trackMutations: every value read through the proxy is a proxy, every    *)
(* write through one is compared at the place that is written.             *)

deepEqual(h, r, s) == Content(h, r) = Content(h, s)

\* The traps of a Map, a Set and a nested object, and of a Date; any other
\* method counts as a write. For comparison, one that does not.
Becomes(content, step) ==
    CASE step.do = "add" -> content \cup {step.x}
      [] step.do = "delete" -> content \ {step.x}
      [] step.do = "clear" -> {}
      [] step.do = "setTime" -> {step.x}
      [] step.do = "other" -> {e \in Element : e \notin content}
      [] OTHER -> content
EffectiveKnown(content, step) ==
    CASE step.do = "add" -> step.x \notin content
      [] step.do = "delete" -> step.x \in content
      [] step.do = "clear" -> content # {}
      [] step.do = "setTime" -> content # {step.x}
      [] OTHER -> FALSE
Effective(content, step) ==
    CASE step.do = "add" -> step.x \notin content
      [] step.do = "delete" -> step.x \in content
      [] step.do = "clear" -> content # {}
      [] step.do = "setTime" -> content # {step.x}
      [] step.do = "other" -> TRUE
      [] OTHER -> FALSE

\* A step of a method on the state s of a run: heap, the instance, the
\* argument, whether a write was noticed, whether the method has thrown. A
\* step on "arg" writes to the argument itself, which is no proxy.
Step(s, step) ==
    CASE s.thrown -> s
      [] step.do = "throw" -> [s EXCEPT !.thrown = TRUE]
      [] step.do = "put" ->
           [s EXCEPT !.changed = @ \/ ~deepEqual(s.heap, s.inst[step.on], s.arg), !.inst[step.on] = s.arg]
      [] step.do = "drop" ->
           [s EXCEPT !.changed = @ \/ s.inst[step.on] # Absent, !.inst[step.on] = Absent]
      [] step.on = "arg" -> [s EXCEPT !.heap[s.arg] = Becomes(@, step)]
      [] s.inst[step.on] = Absent -> [s EXCEPT !.thrown = TRUE]
      [] OTHER -> [s EXCEPT !.heap[s.inst[step.on]] = Becomes(@, step),
                            !.changed = @ \/ Effective(s.heap[s.inst[step.on]], step)]

\* callDRP: the method runs on a clone of the payload. For comparison, on
\* the payload.
callDirectly(h, inst, method, payload) ==
    FoldLeft(Step, [heap |-> h, inst |-> inst, arg |-> payload, changed |-> FALSE, thrown |-> FALSE], method)
callDRP(h, inst, method, payload) ==
    LET args == cloneDeep(h, payload)
    IN FoldLeft(Step, [heap |-> args.heap, inst |-> inst, arg |-> args.ref, changed |-> FALSE, thrown |-> FALSE], method)

-----------------------------------------------------------------------------
(* The object. *)

Enter(f, k, v) == [x \in DOMAIN f \cup {k} |-> IF x = k THEN v ELSE f[x]]

\* The constructor: the snapshot of the root is a clone.
Init ==
    \E first \in Field :
        LET drp == [f \in Field |-> IF f = first THEN 1 ELSE Absent]
            root == stateFromDRP(<<{}>>, drp)
        IN /\ heap = root.heap /\ live = drp
           /\ states = [v \in {0} |-> root.inst] /\ kept = [v \in {0} |-> Says(root.heap, root.inst)]
           /\ graph = << >> /\ held = {} /\ notified = << >> /\ lost = {} /\ tampered = FALSE

\* The application makes an object, or reads a field: queries are not
\* intercepted by DRPProxy and return what the DRP holds.
NewObject(content) ==
    /\ Cardinality(held) < MaxObjects
    /\ heap' = Append(heap, content) /\ held' = held \cup {Len(heap')}
    /\ UNCHANGED <<live, graph, states, kept, notified, lost, tampered>>
query(f) ==
    /\ live[f] # Absent /\ live[f] \notin held /\ Cardinality(held) < MaxObjects
    /\ held' = held \cup {live[f]}
    /\ UNCHANGED <<heap, live, graph, states, kept, notified, lost, tampered>>
\* It may write to what it holds at any time.
AppWrites(r, content) ==
    /\ heap[r] # content /\ heap' = [heap EXCEPT ![r] = content]
    /\ tampered' = (tampered \/ \E f \in Field : live[f] = r)
    /\ UNCHANGED <<live, graph, states, kept, held, notified, lost>>

\* computeOperation of a local call: an instance made of a snapshot of the
\* live DRP. For comparison, the live DRP.
StagedInPlace(h) == [heap |-> h, inst |-> live]
Staged(h) == LET state == stateFromDRP(h, live) IN fromStates(state.heap, state.inst)

\* assignState, addVertexToHashGraph, notify.
Commit(origin, run, method, payload, said) ==
    LET snapshot == stateFromDRP(run.heap, run.inst)
        vertex == Len(graph) + 1
    IN /\ graph' = Append(graph, [method |-> method, payload |-> payload, said |-> said])
       /\ states' = Enter(states, vertex, snapshot.inst)
       /\ kept' = Enter(kept, vertex, Says(run.heap, run.inst))
       /\ notified' = Append(notified, <<origin, vertex>>)
\* The cells that were there before the call, as the call left them.
Older(h) == SubSeq(h, 1, Len(heap))

\* A call through DRPProxy, from createVertex to notify: an exception leaves
\* through the pipeline, a call that changed nothing ends at the step equal.
callFn(method, r) ==
    /\ Len(graph) < MaxVertices
    /\ LET payload == cloneDeep(heap, r)
           staged == Staged(payload.heap)
           run == callDRP(staged.heap, staged.inst, method, payload.ref)
       IN IF run.thrown \/ ~run.changed
          THEN /\ heap' = Older(run.heap)
               /\ lost' = IF run.thrown \/ Says(run.heap, run.inst) = Says(heap, live) THEN lost ELSE lost \cup {method}
               /\ UNCHANGED <<live, graph, states, kept, notified>>
          ELSE /\ Commit("callFn", run, method, payload.ref, heap[r])
               /\ live' = run.inst /\ heap' = stateFromDRP(run.heap, run.inst).heap
               /\ UNCHANGED lost
    /\ UNCHANGED <<held, tampered>>

\* applyVertices: the methods of the vertices one after the other on one
\* instance.
applyVertices(h, inst, vertices) ==
    FoldLeft(LAMBDA acc, v : LET run == callDRP(acc.heap, acc.inst, v.method, v.payload)
                             IN [heap |-> run.heap, inst |-> run.inst],
             [heap |-> h, inst |-> inst], vertices)

\* A vertex of another replica arrives: its snapshot is computed from the
\* one of its dependency, then the live DRP is replayed from the root. A
\* vertex whose method throws is not taken.
merge(method, content) ==
    /\ Len(graph) < MaxVertices
    /\ LET payload == Len(heap) + 1
           base == fromStates(Append(heap, content), states[Len(graph)])
           run == callDRP(base.heap, base.inst, method, payload)
           snapshot == stateFromDRP(run.heap, run.inst)
           origin == fromStates(snapshot.heap, states[0])
           replay == applyVertices(origin.heap, origin.inst, graph')
       IN IF run.thrown THEN heap' = Older(run.heap) /\ UNCHANGED <<live, graph, states, kept, notified, tampered>>
          ELSE /\ Commit("merge", run, method, payload, content)
               /\ live' = replay.inst /\ heap' = replay.heap /\ tampered' = FALSE
    /\ UNCHANGED <<held, lost>>

Contents == SUBSET Element
Next ==
    \/ \E c \in Contents : NewObject(c) \/ (\E m \in Method : merge(m, c)) \/ (\E r \in held : AppWrites(r, c))
    \/ \E f \in Field : query(f)
    \/ \E m \in Method, r \in held : callFn(m, r)

Spec == Init /\ [][Next]_vars

-----------------------------------------------------------------------------
\* The history never changes: a payload is what was hashed, a snapshot what
\* was taken, whatever the application writes to the objects it passed in or
\* read out and whatever later operations do to the objects that earlier
\* ones stored (cloneDeep in createVertex, callDRP, applyState and
\* stateFromDRP).
HistoryImmutable ==
    /\ \A v \in DOMAIN graph : heap[graph[v].payload] = graph[v].said
    /\ \A v \in DOMAIN states : Says(heap, states[v]) = kept[v]

\* What a method stores is its argument, not a copy of it, and the argument
\* is no proxy.
Stores(method) == {i \in DOMAIN method : method[i].do = "put"}
WritesStored(method) == \E i \in Stores(method), j \in DOMAIN method : i < j /\ method[j].on = "arg"
StoresTwice(method) == \E i, j \in Stores(method) : method[i].on # method[j].on

\* A call is taken for a read, and makes no vertex, only if it left the
\* state as it was; except that of a method which goes on writing to its
\* argument after it has stored it: where the stored value equals the old
\* one, neither write is noticed (trackMutations and the step equal of
\* drp-applier.ts).
NoWriteLost == \A method \in lost : WritesStored(method)

\* The methods on values, without a heap; own: the fields that hold the
\* argument, for as long as the call lasts.
StepByValue(s, step) ==
    LET written == IF step.on \in {"arg"} \cup s.own THEN {"arg"} \cup s.own ELSE {step.on}
        Value(f, old) == IF f \in written THEN {Becomes(c, step) : c \in old} ELSE old
    IN CASE step.do = "put" -> [s EXCEPT !.inst[step.on] = s.arg, !.own = @ \cup {step.on}]
         [] step.do = "drop" -> [s EXCEPT !.inst[step.on] = {}, !.own = @ \ {step.on}]
         [] OTHER -> [s EXCEPT !.inst = [f \in Field |-> Value(f, s.inst[f])], !.arg = Value("arg", @)]
ByValue(inst, v) == FoldLeft(StepByValue, [inst |-> inst, arg |-> {v.said}, own |-> {}], v.method).inst

\* Unless the application has written to it from outside, the live DRP is
\* the one that its history gives by value: sharing never outlasts a call,
\* and a call that throws half way leaves nothing behind (computeOperation,
\* assign). A method that stores one argument in two fields is excepted: a
\* replay keeps them one object over the later vertices (applyVertices),
\* while a snapshot, cloned field by field, makes them two.
LiveIsByValue ==
    \/ tampered \/ \E v \in DOMAIN graph : StoresTwice(graph[v].method)
    \/ Says(heap, live) = FoldLeft(ByValue, kept[0], graph)
=============================================================================
