------------------------------ MODULE Bootstrap ------------------------------
(***************************************************************************)
(* The bootstrap of packages/rendezvous/src/ensemble.ts and the            *)
(* authenticated peer cache of peer-cache.ts it reads first and writes     *)
(* back to, with the reconciliation of reconciliation.ts between them.     *)
(*                                                                         *)
(* Several bootstraps run at once (the one of node start and those the     *)
(* recovery asks for); the cache serves their operations one at a time on  *)
(* a promise chain, over a store whose load and save may fail or hang.     *)
(* A record is [peer, seq, sig, exp]; `sig` tells apart two records a peer *)
(* signed with one sequence number.  Signatures, admission and the         *)
(* validation of well-formed records are abstracted (each source answers   *)
(* with records that validate); the DNS look-ups of the address policy     *)
(* are the set Undialable.                                                 *)
(***************************************************************************)
EXTENDS Naturals, Sequences, FiniteSets, SequencesExt

CONSTANTS Peer,        \* peer identifiers
          Answers,     \* the sequences of records a source may answer with
          Stored,      \* what the store may hold when the program first starts
          Undialable,  \* records whose every address the policy rejects
          Boot,        \* bootstrap operations
          Selected,    \* Boot -> the sequence of non-cache sources it asks
          ReadsCache,  \* the bootstraps whose selection includes the cache
          Maximum,     \* the peer cache's max
          SourceCap,   \* maxRecordsPerSource
          MaxNow,      \* bound: clock ticks
          MaxFaults    \* bound: failed loads, failed saves, crashes

VARIABLES now, faults,
          durable,  \* what the store holds
          mem,      \* memoryRecords
          dirty,    \* persistenceDirty
          chain,    \* operationTail: the operations queued, the first one active
          hung,     \* the store has stopped answering
          boot,     \* Boot -> the state of its generator
          due,      \* history: results a live bootstrap wrote back
          clash     \* history: records put into the cache in this process

vars == <<now, faults, durable, mem, dirty, chain, hung, boot, due, clash>>

-----------------------------------------------------------------------------
(* reconciliation.ts *)

\* The record the fold holds for a peer, as a set of at most one.
HeldFor(m, peer) == {r \in m.kept : r.peer = peer}

Reconcile1(m, r, at, maximum) ==
    IF r.exp <= at \/ r.peer \in m.conflicted THEN m
    ELSE IF HeldFor(m, r.peer) = {}
         THEN [m EXCEPT !.kept = @ \cup {r}, !.over = @ \/ Cardinality(m.kept) >= maximum]
    ELSE LET old == CHOOSE x \in HeldFor(m, r.peer) : TRUE
         IN CASE r.seq > old.seq -> [m EXCEPT !.kept = (@ \ {old}) \cup {r}]
              [] r.seq = old.seq /\ r.sig # old.sig ->
                    [m EXCEPT !.kept = @ \ {old}, !.conflicted = @ \cup {r.peer}]
              [] OTHER -> m

\* reconcileValidatedRecords over a concatenation of snapshots: the survivors,
\* and whether the union outgrew `maximum` (ReconciliationCapacityError).
Reconcile(records, at, maximum) ==
    FoldLeft(LAMBDA m, r : Reconcile1(m, r, at, maximum),
             [kept |-> {}, conflicted |-> {}, over |-> FALSE], records)

\* reconcileInLruOrder: the survivors in order of last use, the newest Maximum.
Lru(records, at) ==
    LET kept == Reconcile(records, at, Len(records)).kept
        last == SelectSeq([i \in DOMAIN records |-> i],
                  LAMBDA i : /\ records[i] \in kept
                             /\ \A j \in i+1..Len(records) : records[j] # records[i])
        size == Len(last)
    IN [i \in 1..(IF size < Maximum THEN size ELSE Maximum) |->
          records[last[i + (IF size < Maximum THEN 0 ELSE size - Maximum)]]]

-----------------------------------------------------------------------------
Idle == [pc |-> "idle", aborted |-> FALSE, results |-> <<>>, todo |-> <<>>,
         emitted |-> {}, end |-> "none"]

Init ==
    /\ now = 0 /\ faults = 0 /\ hung = FALSE
    /\ durable \in Stored
    /\ mem = <<>> /\ dirty = FALSE /\ chain = <<>>
    /\ boot = [b \in Boot |-> Idle]
    /\ due = {} /\ clash = ToSet(durable)

Ended(end) == [Idle EXCEPT !.pc = "done", !.aborted = TRUE, !.end = end]

(* peer-cache.ts: the operation at the head of the chain *)

Op(kind, owner, rec) == [kind |-> kind, owner |-> owner, rec |-> rec, stage |-> "queued"]
NoRecord == <<>>
Head1 == chain[1]
OpAborted(op) == op.kind = "list" /\ boot[op.owner].aborted

\* What a bootstrap makes of the answer it awaits: runCacheSource, the yields
\* of the cached records (records of one peer never repeat in a cache list),
\* or, after a put, the emission of the candidate itself.
Dialable(records) == {r \in records : r \notin Undialable}

CachedEmitted(g, records) ==
    LET out == IF Len(records) > SourceCap THEN {} ELSE Dialable(ToSet(records))
    IN [g EXCEPT !.pc = IF out = {} THEN "sources" ELSE "yieldCached", !.emitted = out]

EmitNext(g) ==
    LET r == Head(g.todo)
        stale == \E x \in g.emitted : x.peer = r.peer /\ x.seq >= r.seq
    IN [g EXCEPT !.todo = Tail(@), !.pc = IF stale THEN "emit" ELSE "yield",
                 !.emitted = IF stale THEN @ ELSE @ \cup {r}]

\* exclusive(): the operation settles, the next one of the chain may start,
\* and the bootstrap still waiting for it goes on.
OpSettles(answer) ==
    LET op == Head1
        g == boot[op.owner]
        waits == \/ op.kind = "list" /\ g.pc = "cache"
                 \/ op.kind = "put" /\ g.pc = "put" /\ Head(g.todo) = op.rec
    IN /\ chain' = Tail(chain)
       /\ boot' = IF ~waits THEN boot
                  ELSE [boot EXCEPT ![op.owner] =
                          IF op.kind = "list" THEN CachedEmitted(g, answer) ELSE EmitNext(g)]

\* normalize and, for a put, the reconciliation with the new record; then
\* saveBestEffort sets memoryRecords before it calls the store.
ToSave(op, loaded) ==
    LET existing == Lru(SubSeq(loaded, IF Len(loaded) > Maximum
                                       THEN Len(loaded) - Maximum + 1 ELSE 1, Len(loaded)), now)
    IN IF op.kind = "put" THEN Lru(Append(existing, op.rec), now) ELSE existing

Normalized(loaded) ==
    IF OpAborted(Head1)
    THEN mem' = loaded /\ OpSettles(<<>>)
    ELSE /\ mem' = ToSave(Head1, loaded)
         /\ chain' = [chain EXCEPT ![1].stage = "saving"]
         /\ boot' = boot

\* The first step of an operation: a list whose signal has fired and a put of
\* an expired record throw; with unsaved changes the memory copy is the base.
OpBegins ==
    /\ chain # <<>> /\ Head1.stage = "queued"
    /\ IF OpAborted(Head1) \/ (Head1.kind = "put" /\ Head1.rec.exp <= now)
       THEN OpSettles(<<>>) /\ mem' = mem
       ELSE IF dirty THEN Normalized(mem)
       ELSE chain' = [chain EXCEPT ![1].stage = "loading"] /\ UNCHANGED <<mem, boot>>
    /\ clash' = IF Head1.kind = "put" THEN clash \cup {Head1.rec} ELSE clash
    /\ UNCHANGED <<now, faults, durable, dirty, hung, due>>

Loads ==
    /\ chain # <<>> /\ Head1.stage = "loading" /\ ~hung
    /\ Normalized(durable)
    /\ UNCHANGED <<now, faults, durable, dirty, hung, due, clash>>

LoadFails ==
    /\ chain # <<>> /\ Head1.stage = "loading" /\ ~hung /\ faults < MaxFaults
    /\ Normalized(mem)
    /\ faults' = faults + 1
    /\ UNCHANGED <<now, durable, dirty, hung, due, clash>>

\* history: the put of a record resolved
PutDone == due' = IF Head1.kind = "put" THEN due \cup {Head1.rec} ELSE due

\* The records a list answers with are filtered by expiry once more.
Listed == SelectSeq(mem, LAMBDA r : r.exp > now)

Saves ==
    /\ chain # <<>> /\ Head1.stage = "saving" /\ ~hung
    /\ durable' = mem /\ dirty' = FALSE
    /\ OpSettles(Listed) /\ PutDone
    /\ UNCHANGED <<now, faults, mem, hung, clash>>

\* Mutant of SaveFails: the memory copy is not marked as newer than the store.
SaveFailsForgets ==
    /\ chain # <<>> /\ Head1.stage = "saving" /\ ~hung /\ faults < MaxFaults
    /\ OpSettles(Listed) /\ PutDone
    /\ faults' = faults + 1
    /\ UNCHANGED <<now, durable, mem, dirty, hung, clash>>

SaveFails ==
    /\ chain # <<>> /\ Head1.stage = "saving" /\ ~hung /\ faults < MaxFaults
    /\ dirty' = TRUE
    /\ OpSettles(Listed) /\ PutDone
    /\ faults' = faults + 1
    /\ UNCHANGED <<now, durable, mem, hung, clash>>

-----------------------------------------------------------------------------
(* ensemble.ts: the bootstrap generator *)

BootFrame == UNCHANGED <<now, faults, durable, mem, dirty, hung, due, clash>>
Settled(g) == \A i \in DOMAIN g.results : g.results[i].status \notin {"unasked", "pending"}

\* The initial sources are asked before the cache is read; peer exchange later.
Begin(b) ==
    /\ boot[b].pc = "idle"
    /\ boot' = [boot EXCEPT ![b] = [Idle EXCEPT
          !.pc = IF b \in ReadsCache THEN "cache" ELSE "sources",
          !.results = [i \in DOMAIN Selected[b] |->
             [status |-> IF Selected[b][i] = "peer-exchange" THEN "unasked" ELSE "pending",
              records |-> <<>>]]]]
    /\ chain' = IF b \in ReadsCache THEN Append(chain, Op("list", b, NoRecord)) ELSE chain
    /\ BootFrame

Result(b, i, result) ==
    boot' = [boot EXCEPT ![b].results[i] = result]

\* A source that answers with too many records counts as failed.
SourceAnswers(b, i, answer) ==
    /\ i \in DOMAIN boot[b].results /\ boot[b].results[i].status = "pending"
    /\ Result(b, i, IF Len(answer) > SourceCap THEN [status |-> "failed", records |-> <<>>]
                    ELSE [status |-> "answered", records |-> answer])
    /\ UNCHANGED chain /\ BootFrame

SourceFails(b, i) ==
    /\ i \in DOMAIN boot[b].results /\ boot[b].results[i].status = "pending"
    /\ Result(b, i, [status |-> "failed", records |-> <<>>])
    /\ UNCHANGED chain /\ BootFrame

\* Peer exchange is asked once the initial sources have settled; after the
\* deadline the race with the signal fails it at once.
AskExchange(b, i) ==
    /\ boot[b].pc = "sources"
    /\ i \in DOMAIN boot[b].results /\ boot[b].results[i].status = "unasked"
    /\ \A j \in DOMAIN boot[b].results : boot[b].results[j].status # "pending"
    /\ Result(b, i, [status |-> IF boot[b].aborted THEN "failed" ELSE "pending", records |-> <<>>])
    /\ UNCHANGED chain /\ BootFrame

\* The union of the sources that answered, in the order they were asked.
NetworkUnion(b) ==
    Reconcile(FlattenSeq([i \in DOMAIN boot[b].results |-> boot[b].results[i].records]),
              now, SourceCap)

Merge(b) ==
    /\ boot[b].pc = "sources" /\ Settled(boot[b])
    /\ LET union == NetworkUnion(b)
       IN boot' = [boot EXCEPT ![b] =
            IF union.over THEN Ended("rejected")
            ELSE [@ EXCEPT !.pc = "emit",
                           !.results = [i \in DOMAIN @ |-> [@[i] EXCEPT !.records = <<>>]],
                           !.todo = SetToSortSeq(Dialable(union.kept), LAMBDA x, y : x.peer < y.peer)]]
    /\ UNCHANGED chain /\ BootFrame

\* One candidate: cache.put joins the chain, and is awaited until the deadline.
WriteBack(b) ==
    /\ boot[b].pc = "emit" /\ boot[b].todo # <<>>
    /\ chain' = Append(chain, Op("put", b, Head(boot[b].todo)))
    /\ boot' = [boot EXCEPT ![b] = IF @.aborted THEN EmitNext(@) ELSE [@ EXCEPT !.pc = "put"]]
    /\ BootFrame

Exhausted(g) ==
    /\ g.emitted = {} /\ g.results # <<>>
    /\ \A i \in DOMAIN g.results : g.results[i].status = "failed"

Complete(b) ==
    /\ boot[b].pc = "emit" /\ boot[b].todo = <<>>
    /\ boot' = [boot EXCEPT ![b] = Ended(IF Exhausted(@) THEN "exhausted" ELSE "complete")]
    /\ UNCHANGED chain /\ BootFrame

\* The consumer takes the next record, or leaves the loop.
Resume(b) ==
    /\ boot[b].pc \in {"yieldCached", "yield"}
    /\ boot' = [boot EXCEPT ![b].pc = IF @ = "yieldCached" THEN "sources" ELSE "emit"]
    /\ UNCHANGED chain /\ BootFrame

Return(b) ==
    /\ boot[b].pc \in {"yieldCached", "yield"}
    /\ boot' = [boot EXCEPT ![b] = Ended("returned")]
    /\ UNCHANGED chain /\ BootFrame

\* Mutant of Deadline: the write-back to the cache is not raced with the signal.
DeadlineAwaitsPut(b) ==
    /\ boot[b].pc \notin {"idle", "done"} /\ ~boot[b].aborted
    /\ LET cut == [boot[b] EXCEPT !.aborted = TRUE,
               !.results = [i \in DOMAIN @ |-> IF @[i].status = "pending"
                              THEN [status |-> "failed", records |-> <<>>] ELSE @[i]]]
       IN boot' = [boot EXCEPT ![b] =
            CASE cut.pc = "cache" -> [cut EXCEPT !.pc = "sources"]
              [] OTHER -> cut]
    /\ UNCHANGED chain /\ BootFrame

\* operationDeadline: the timer or the parent signal; every race it is in rejects.
Deadline(b) ==
    /\ boot[b].pc \notin {"idle", "done"} /\ ~boot[b].aborted
    /\ LET cut == [boot[b] EXCEPT !.aborted = TRUE,
               !.results = [i \in DOMAIN @ |-> IF @[i].status = "pending"
                              THEN [status |-> "failed", records |-> <<>>] ELSE @[i]]]
       IN boot' = [boot EXCEPT ![b] =
            CASE cut.pc = "cache" -> [cut EXCEPT !.pc = "sources"]
              [] cut.pc = "put" -> EmitNext(cut)
              [] OTHER -> cut]
    /\ UNCHANGED chain /\ BootFrame

-----------------------------------------------------------------------------
Tick ==
    /\ now < MaxNow /\ now' = now + 1
    /\ UNCHANGED <<faults, durable, mem, dirty, chain, hung, boot, due, clash>>

Hang ==
    /\ ~hung /\ faults < MaxFaults
    /\ hung' = TRUE /\ faults' = faults + 1
    /\ UNCHANGED <<now, durable, mem, dirty, chain, boot, due, clash>>

\* The process ends and a new one starts over the same store.
Crash ==
    /\ faults < MaxFaults /\ faults' = faults + 1
    /\ mem' = <<>> /\ dirty' = FALSE /\ chain' = <<>> /\ hung' = FALSE
    /\ boot' = [b \in Boot |-> Idle]
    /\ due' = {} /\ clash' = ToSet(durable)
    /\ UNCHANGED <<now, durable>>

CacheStep == OpBegins \/ Loads \/ LoadFails \/ Saves \/ SaveFails

SourceStep(b) ==
    \E i \in DOMAIN Selected[b] :
        SourceFails(b, i) \/ \E a \in Answers : SourceAnswers(b, i, a)

BootStep(b) ==
    \/ (\E i \in DOMAIN Selected[b] : AskExchange(b, i))
    \/ Merge(b) \/ WriteBack(b) \/ Complete(b) \/ Resume(b) \/ Deadline(b)

Next ==
    \/ CacheStep
    \/ \E b \in Boot : Begin(b) \/ SourceStep(b) \/ BootStep(b) \/ Return(b)
    \/ Tick \/ Hang \/ Crash

\* The generator's own steps and its deadline timer are run by the event loop,
\* and its consumers are for-await loops; nothing is assumed of the sources,
\* the store or the cache's chain.
Fairness == \A b \in Boot : WF_vars(BootStep(b))

Spec == Init /\ [][Next]_vars /\ Fairness

-----------------------------------------------------------------------------
\* What the next operation of the cache will find if the store answers.
View == ToSet(IF dirty THEN mem ELSE durable)

\* A record leaves the cache for a good reason: it expired, a newer record of
\* its peer did, or the peer signed one sequence number twice.
Excused(r) ==
    \/ r.exp <= now
    \/ \E x \in clash : x.peer = r.peer /\ x.seq > r.seq /\ x.exp <= now
    \/ \E x, y \in clash : /\ x.peer = r.peer /\ y.peer = r.peer
                           /\ x.seq = y.seq /\ x.seq >= r.seq /\ x.sig # y.sig

\* A record whose put has resolved is still cached, or a newer one of its peer
\* is, however bootstraps interleave on the chain and whichever loads and saves
\* of the store fail meanwhile (saveBestEffort's persistenceDirty).
ResultsStayCached ==
    Cardinality({x.peer : x \in clash}) <= Maximum =>
        \A r \in due : Excused(r) \/ \E x \in View : x.peer = r.peer /\ x.seq >= r.seq

\* Every bootstrap ends, even when the store has stopped answering and the
\* chain of the cache is stuck behind it, or no source ever answers: each await
\* of the generator is raced with its one deadline.
BootSettled(b) == boot[b].pc \in {"done", "idle"}
BootstrapSettles == \A b \in Boot : []<>BootSettled(b)
=============================================================================
