---------------------------- MODULE BrowserRouting ----------------------------
(***************************************************************************)
(* DelegatedBrowserRouting of packages/routing-browser/src/index.ts: every *)
(* instance runs its lookups one at a time, each trying the endpoints in   *)
(* order with a back-off after failures, and every request swaps           *)
(* globalThis.fetch for a bounded one while it runs.  The swap is shared   *)
(* by all instances of the page and serialised by fetchScopeTail.          *)
(*                                                                         *)
(* findPeer, findProviders and getClosestPeers differ only in the request; *)
(* a lookup's key is its instance's one cached key.  Time is abstract: a   *)
(* back-off and a request timeout end when their action is taken.          *)
(***************************************************************************)
EXTENDS Naturals, Sequences, FiniteSets

CONSTANTS Instance,   \* DelegatedBrowserRouting objects
          Lookup,     \* calls
          Of,         \* Lookup -> the instance it is made on
          Endpoints   \* number of configured endpoints

VARIABLES call,     \* Lookup -> [pc, ep, timed, aborted, saved, end]
          tail,     \* Instance -> #operationTail as a queue of lookups
          scope,    \* fetchScopeTail: the lookups that hold or wait for the swap
          fetch,    \* globalThis.fetch: "native" or the lookup that replaced it
          cooling,  \* Instance -> endpoints whose retryAtMs lies ahead
          cache,    \* Instance -> a fresh result is cached
          stop      \* Instance -> "no" | the lookups stop() still awaits | "done"

vars == <<call, tail, scope, fetch, cooling, cache, stop>>

New == [pc |-> "new", ep |-> 0, timed |-> FALSE, aborted |-> FALSE,
        saved |-> "native", end |-> "none"]

Init ==
    /\ call = [l \in Lookup |-> New]
    /\ tail = [i \in Instance |-> <<>>]
    /\ scope = <<>> /\ fetch = "native"
    /\ cooling = [i \in Instance |-> {}]
    /\ cache = [i \in Instance |-> FALSE]
    /\ stop = [i \in Instance |-> [called |-> FALSE, awaits |-> {}, done |-> FALSE]]

-----------------------------------------------------------------------------
\* #enqueue
Call(l) ==
    /\ call[l].pc = "new"
    /\ call' = [call EXCEPT ![l].pc = "queued"]
    /\ tail' = [tail EXCEPT ![Of[l]] = Append(@, l)]
    /\ UNCHANGED <<scope, fetch, cooling, cache, stop>>

\* The lookup's promise settles and the next one of its instance may run.
Ended(l, end) == [call[l] EXCEPT !.pc = "settled", !.end = end, !.ep = 0, !.timed = FALSE]
Released(l) == [tail EXCEPT ![Of[l]] = Tail(@)]

\* #execute up to the first endpoint: stopped, aborted, cached, or attempt 1.
Begin(l) ==
    /\ call[l].pc = "queued" /\ Head(tail[Of[l]]) = l
    /\ LET end == CASE stop[Of[l]].called -> "stopped"
                    [] call[l].aborted /\ ~stop[Of[l]].called -> "aborted"
                    [] cache[Of[l]] /\ ~call[l].aborted /\ ~stop[Of[l]].called -> "found"
                    [] OTHER -> "none"
       IN IF end # "none"
          THEN call' = [call EXCEPT ![l] = Ended(l, end)] /\ tail' = Released(l)
          ELSE call' = [call EXCEPT ![l].pc = "attempt", ![l].ep = 1] /\ UNCHANGED tail
    /\ UNCHANGED <<scope, fetch, cooling, cache, stop>>

\* The loop body: sleep out the endpoint's back-off (an abort ends the lookup),
\* then start the request timeout and line up for the fetch scope.
Attempt(l) ==
    /\ call[l].pc = "attempt"
    /\ \/ /\ call[l].ep \in cooling[Of[l]] /\ call[l].aborted
          /\ call' = [call EXCEPT ![l] = Ended(l, "aborted")] /\ tail' = Released(l)
          /\ UNCHANGED scope
       \/ /\ call[l].ep \notin cooling[Of[l]]
          /\ call' = [call EXCEPT ![l].pc = "scope", ![l].timed = FALSE]
          /\ scope' = Append(scope, l)
          /\ UNCHANGED tail
    /\ UNCHANGED <<fetch, cooling, cache, stop>>

\* Mutant of Enter: the scope does not wait for the previous one.
EnterAtOnce(l) ==
    /\ call[l].pc = "scope"
    /\ call' = [call EXCEPT ![l].pc = "asking", ![l].saved = fetch]
    /\ fetch' = l
    /\ UNCHANGED <<tail, scope, cooling, cache, stop>>

\* withScopedFetch: the previous scope has ended; swap fetch and send.
Enter(l) ==
    /\ call[l].pc = "scope" /\ Head(scope) = l
    /\ call' = [call EXCEPT ![l].pc = "asking", ![l].saved = fetch]
    /\ fetch' = l
    /\ UNCHANGED <<tail, scope, cooling, cache, stop>>

\* Mutant of Restore: a failed request does not release the scope.
RestoreOnSuccess(l) ==
    fetch' = call[l].saved /\ scope' = IF call[l].timed THEN scope ELSE Tail(scope)

\* The finally of withScopedFetch.
Restore(l) == fetch' = call[l].saved /\ scope' = Tail(scope)

\* The endpoint answered in time (an empty answer and a 404 count).  The scope is
\* given back, and #sanitizeRecords awaits the resolver for the addresses while the
\* lookup keeps its place in the queue of its instance.  The request timeout is over.
Answered(l) ==
    /\ call[l].pc = "asking" /\ ~call[l].timed /\ ~call[l].aborted
    /\ Restore(l)
    /\ call' = [call EXCEPT ![l].pc = "sanitizing"]
    /\ UNCHANGED <<tail, cooling, cache, stop>>

\* The records are classified: the endpoint's state is reset, the result cached, also
\* after stop() cleared the cache, and returned, also to a caller that aborts too late.
Sanitized(l) ==
    /\ call[l].pc = "sanitizing"
    /\ call' = [call EXCEPT ![l] = Ended(l, "found")] /\ tail' = Released(l)
    /\ cache' = [cache EXCEPT ![Of[l]] = TRUE]
    /\ cooling' = [cooling EXCEPT ![Of[l]] = @ \ {call[l].ep}]
    /\ UNCHANGED <<scope, fetch, stop>>

\* The request failed (an error, a bad status, an oversized body), one of its signals
\* fired, or a record could not be classified.  A caller's abort ends the lookup;
\* otherwise the endpoint backs off and the next one is tried, or the lookup is exhausted.
AttemptFails(l) ==
    /\ \/ call[l].pc = "asking" /\ Restore(l)
       \/ call[l].pc = "sanitizing" /\ UNCHANGED <<fetch, scope>>
    /\ IF call[l].aborted
       THEN /\ call' = [call EXCEPT ![l] = Ended(l, "aborted")] /\ tail' = Released(l)
            /\ UNCHANGED cooling
       ELSE /\ cooling' = [cooling EXCEPT ![Of[l]] = @ \cup {call[l].ep}]
            /\ IF call[l].ep = Endpoints
               THEN call' = [call EXCEPT ![l] = Ended(l, "exhausted")] /\ tail' = Released(l)
               ELSE call' = [call EXCEPT ![l].pc = "attempt", ![l].ep = @ + 1] /\ UNCHANGED tail
    /\ UNCHANGED <<cache, stop>>

\* AbortSignal.timeout was started before the wait for the fetch scope.
TimesOut(l) ==
    /\ call[l].pc \in {"scope", "asking"} /\ ~call[l].timed
    /\ call' = [call EXCEPT ![l].timed = TRUE]
    /\ UNCHANGED <<tail, scope, fetch, cooling, cache, stop>>

CoolsDown(i, e) ==
    /\ e \in cooling[i]
    /\ cooling' = [cooling EXCEPT ![i] = @ \ {e}]
    /\ UNCHANGED <<call, tail, scope, fetch, cache, stop>>

Abort(l) ==
    /\ call[l].pc \notin {"new", "settled"} /\ ~call[l].aborted
    /\ call' = [call EXCEPT ![l].aborted = TRUE]
    /\ UNCHANGED <<tail, scope, fetch, cooling, cache, stop>>

Expire(i) ==
    /\ cache[i] /\ cache' = [cache EXCEPT ![i] = FALSE]
    /\ UNCHANGED <<call, tail, scope, fetch, cooling, stop>>

Queued(i) == {l \in Lookup : Of[l] = i /\ call[l].pc \notin {"new", "settled"}}

\* Mutant of Stop: the chain is not awaited.
StopAtOnce(i) ==
    /\ ~stop[i].called
    /\ stop' = [stop EXCEPT ![i] = [called |-> TRUE, awaits |-> {}, done |-> FALSE]]
    /\ cache' = [cache EXCEPT ![i] = FALSE]
    /\ UNCHANGED <<call, tail, scope, fetch, cooling>>

\* stop(): no new work, the cache is cleared, the chain is awaited.
Stop(i) ==
    /\ ~stop[i].called
    /\ stop' = [stop EXCEPT ![i] = [called |-> TRUE, awaits |-> Queued(i), done |-> FALSE]]
    /\ cache' = [cache EXCEPT ![i] = FALSE]
    /\ UNCHANGED <<call, tail, scope, fetch, cooling>>

Stopped(i) ==
    /\ stop[i].called /\ ~stop[i].done
    /\ \A l \in stop[i].awaits : call[l].pc = "settled"
    /\ stop' = [stop EXCEPT ![i].done = TRUE, ![i].awaits = {}]
    /\ UNCHANGED <<call, tail, scope, fetch, cooling, cache>>

Run(l) == Begin(l) \/ Attempt(l) \/ Enter(l) \/ TimesOut(l)
Ask(l) == Answered(l) \/ Sanitized(l) \/ AttemptFails(l)

Next ==
    \/ \E l \in Lookup : Call(l) \/ Run(l) \/ Ask(l) \/ Abort(l)
    \/ \E i \in Instance : Stop(i) \/ Stopped(i) \/ Expire(i)
    \/ \E i \in Instance, e \in 1..Endpoints : CoolsDown(i, e)

\* The event loop runs what is ready; timeouts and back-offs end; a request
\* whose signal has fired is rejected (the client honours its signal); and the
\* resolver answers, for nothing but the caller's signal bounds it.
CutShort(l) ==
    \/ (call[l].timed \/ call[l].aborted) /\ AttemptFails(l)
    \/ call[l].pc = "sanitizing" /\ (Sanitized(l) \/ AttemptFails(l))
Fairness ==
    /\ \A l \in Lookup : WF_vars(Run(l)) /\ WF_vars(CutShort(l))
    /\ \A i \in Instance : \A e \in 1..Endpoints : WF_vars(CoolsDown(i, e))

Spec == Init /\ [][Next]_vars /\ Fairness

-----------------------------------------------------------------------------
\* globalThis.fetch is the page's own whenever no request of any instance runs,
\* and a running request sees its own bounded fetch: scopes of two instances
\* never overlap, so no restore puts back a fetch that was itself a replacement.
FetchRestored ==
    fetch = IF \E l \in Lookup : call[l].pc = "asking"
            THEN CHOOSE l \in Lookup : call[l].pc = "asking"
            ELSE "native"

\* Once stop() has resolved the instance sends no request and holds no place in
\* the fetch scope: calls made meanwhile are refused (#stopped), earlier ones
\* have been waited for.
StopDrains ==
    \A i \in Instance : stop[i].done =>
        \A l \in Lookup : Of[l] = i => call[l].pc \notin {"attempt", "scope", "asking", "sanitizing"}

\* Every lookup settles, although endpoints hang, calls queue behind each other
\* and two instances wait for one fetch scope.
LookupSettled(l) == call[l].pc \in {"new", "settled"}
=============================================================================
