---------------------------- MODULE ProbeRunner ----------------------------
(***************************************************************************)
(* ProbeRunner.run (packages/network-spike/src/probe/kernel.ts): one probe *)
(* raced against a parent deadline and the caller's signal, then its       *)
(* deferred clean-ups in reverse order under one deadline of their own,    *)
(* then one terminal event.                                                *)
(*                                                                         *)
(* A probe keeps its context after it has lost the race, and a clean-up    *)
(* that outlives its deadline runs on; both may call back at any time.     *)
(* The clock, the sink and the sampler are dependencies that may throw.    *)
(***************************************************************************)
EXTENDS Naturals, Sequences, FiniteSets, SequencesExt

CONSTANTS
    MaxDeferredCleanups,    \* MAX_DEFERRED_CLEANUPS
    MaxProbeEvents,         \* MAX_PROBE_EVENTS
    MaxCallbacks            \* bound: calls the probe makes on its context

VARIABLES
    phase,      \* where run() is
    open,       \* probeContextOpen
    abort,      \* abortReason once the controller is aborted, "no" before
    probe,      \* whether the probe's promise is still pending
    callbacks,  \* calls made on the context
    cleanups,   \* registered clean-ups
    running,    \* the clean-up being awaited, 0 for none
    ended,      \* clean-ups that returned, in that order
    counts,     \* completed and failed as runBoundedCleanups returned them
    stopped,    \* the clean-up deadline has fired
    flaws,      \* the failures noted: dependency, sink, resource, contract
    events,     \* the event stream, by kind
    terminal    \* the outcome so far

cleaning == <<running, ended, counts, stopped>>
vars == <<phase, open, abort, probe, callbacks, cleanups, cleaning, flaws, events, terminal>>

Counts(completed, failed) == [completed |-> completed, failed |-> failed]

-----------------------------------------------------------------------------
(* Events and the context of the probe. *)

\* recordEvent and emit: the event is kept, whether or not the sink takes it
\* or the clock can be read.
Emit(kinds) ==
    /\ events' = events \o kinds
    /\ \E new \in SUBSET {"sink", "dependency"} : flaws' = flaws \cup new

\* emitResourceSample: a sampler that throws leaves no event.
Sampled(stream, noted) ==
    {Append(stream, "resource-sample")} \cup (IF "dependency" \in noted THEN {stream} ELSE {})

\* run() up to the race: a failing clock, timer or sampler keeps the probe
\* from being started, and a signal aborted beforehand loses it the race.
Init ==
    /\ flaws \in SUBSET {"sink", "dependency"}
    /\ events \in Sampled(<<"redaction">>, flaws)
    /\ abort \in {"no", "external"}
    /\ probe = IF "dependency" \in flaws THEN "unstarted" ELSE "pending"
    /\ terminal = IF "dependency" \in flaws THEN "dependency-failure" ELSE "none"
    /\ phase = "racing" /\ open = TRUE /\ callbacks = 0 /\ cleanups = 0
    /\ running = 0 /\ ended = << >> /\ counts = Counts(0, 0) /\ stopped = FALSE

\* A context works until it is closed; and one that is never closed.
ContextRetained == TRUE
ContextOpen == open

\* The probe calls back; MaxCallbacks bounds how often it is followed.
Calls ==
    /\ probe = "pending" /\ callbacks < MaxCallbacks
    /\ callbacks' = callbacks + 1
    /\ UNCHANGED <<phase, open, abort, probe, cleaning, terminal>>

\* context.defer: a closed context throws, a full one notes the failure.
Defer ==
    /\ Calls /\ ContextOpen
    /\ IF cleanups >= MaxDeferredCleanups
       THEN flaws' = flaws \cup {"resource"} /\ UNCHANGED cleanups
       ELSE cleanups' = cleanups + 1 /\ UNCHANGED flaws
    /\ UNCHANGED events

\* context.emit: a closed context throws; an event kind that belongs to the
\* runner, or one event too many, is noted as a failure.
EmitFromProbe ==
    /\ Calls /\ ContextOpen
    /\ \/ flaws' = flaws \cup {"contract"} /\ UNCHANGED events
       \/ IF Cardinality({i \in DOMAIN events : events[i] = "probe"}) >= MaxProbeEvents
          THEN flaws' = flaws \cup {"resource"} /\ UNCHANGED events
          ELSE Emit(<<"probe">>)
    /\ UNCHANGED cleanups

-----------------------------------------------------------------------------
(* The race. *)

\* onExternalAbort and the parent timer, which stays armed until the
\* clean-ups are over; the later of the two names the reason.
Abort(reason) ==
    /\ phase \in {"racing", "cleaning"} /\ abort # reason
    /\ abort' = reason
    /\ UNCHANGED <<phase, open, probe, callbacks, cleanups, cleaning, flaws, events, terminal>>

\* The finally block of the race: the context closes before anything is
\* cleaned up, and the clean-up phase is announced.
RaceOver(outcome) ==
    /\ terminal' = outcome
    /\ open' = FALSE
    /\ phase' = "cleaning"
    /\ Emit(<<"cleanup">>)
    /\ UNCHANGED <<abort, callbacks, cleanups, cleaning>>

\* The probe settles first: an execution, a malformed value, or a throw,
\* which counts as an abort when the controller is aborted.
ProbeSettles ==
    /\ probe = "pending"
    /\ probe' = "settled"
    /\ IF phase = "racing"
       THEN \E result \in {"success", "failure", "malformed-result", "dependency-failure"} :
               RaceOver(IF result = "dependency-failure" /\ abort # "no" THEN abort ELSE result)
       ELSE UNCHANGED <<phase, open, abort, callbacks, cleanups, cleaning, flaws, events, terminal>>

\* The abort promise rejects first, or there is no race.
RaceLost ==
    /\ phase = "racing" /\ (abort # "no" \/ probe = "unstarted")
    /\ RaceOver(IF probe = "unstarted" THEN terminal ELSE abort)
    /\ UNCHANGED probe

-----------------------------------------------------------------------------
(* runBoundedCleanups *)

CleanFrame == UNCHANGED <<open, abort, probe, callbacks, cleanups, terminal>>
Left == cleanups - Len(ended)

\* The next clean-up in reverse order of registration starts.
CleanupStarts ==
    /\ phase # "racing" /\ running = 0 /\ Left > 0 /\ ~stopped
    /\ running' = Left
    /\ UNCHANGED <<phase, ended, counts, stopped, flaws, events>> /\ CleanFrame

\* It returns or throws; after the deadline nobody is waiting for it.
CleanupEnds ==
    /\ running # 0
    /\ running' = 0 /\ ended' = Append(ended, running)
    /\ \E ok \in BOOLEAN :
          counts' = IF phase # "cleaning" THEN counts
                    ELSE IF ok THEN [counts EXCEPT !.completed = @ + 1]
                    ELSE [counts EXCEPT !.failed = @ + 1]
    /\ UNCHANGED <<phase, stopped, flaws, events>> /\ CleanFrame

\* The clean-up deadline: whatever has not completed has failed. And the same
\* without a deadline.
NoCleanupDeadline == FALSE /\ UNCHANGED vars
CleanupDeadline ==
    /\ phase = "cleaning" /\ Left > 0
    /\ stopped' = TRUE
    /\ counts' = Counts(counts.completed, cleanups - counts.completed)
    /\ phase' = "finishing"
    /\ UNCHANGED <<running, ended, flaws, events>> /\ CleanFrame

\* The cleanup timer cannot be set: the clean-ups run on unattended.
CleanupTimerThrows ==
    /\ phase = "cleaning" /\ cleanups > 0 /\ running = 0 /\ ended = << >>
    /\ flaws' = flaws \cup {"dependency"}
    /\ phase' = "finishing"
    /\ UNCHANGED <<cleaning, events>> /\ CleanFrame

CleanupsDone ==
    /\ phase = "cleaning" /\ Left = 0
    /\ phase' = "finishing"
    /\ UNCHANGED <<cleaning, flaws, events>> /\ CleanFrame

-----------------------------------------------------------------------------
(* The end of run(). *)

\* The order in which the failures noted override the outcome of the race.
\* And the same with the failures of clean-ups left out.
OverrideLenient(noted, outcome) ==
    IF "resource" \in noted THEN "resource-limit"
    ELSE IF "contract" \in noted THEN "probe-contract-violation"
    ELSE IF "dependency" \in noted THEN "dependency-failure"
    ELSE IF "sink" \in noted THEN "observation-sink-failure"
    ELSE outcome
Override(noted, outcome) ==
    IF counts.failed > 0 THEN "cleanup-failure" ELSE OverrideLenient(noted, outcome)

\* The closing events, the overriding failures, the terminal event; a sink
\* that throws only now still rewrites the outcome and the event.
Finish ==
    /\ phase = "finishing"
    /\ \E before \in SUBSET {"sink", "dependency"}, late \in BOOLEAN :
          LET noted == flaws \cup before
              outcome == Override(noted, terminal)
              sunk == late \/ "sink" \in noted
          IN  /\ flaws' = noted \cup (IF late THEN {"sink"} ELSE {})
              /\ terminal' = IF sunk THEN "observation-sink-failure" ELSE outcome
              /\ \E stream \in Sampled(Append(events, "cleanup"), noted) : events' = Append(stream, "terminal")
    /\ phase' = "done"
    /\ UNCHANGED <<open, abort, probe, callbacks, cleanups, cleaning>>

Next ==
    \/ Defer \/ EmitFromProbe \/ ProbeSettles
    \/ \E reason \in {"external", "timeout"} : Abort(reason)
    \/ RaceLost \/ CleanupStarts \/ CleanupEnds \/ CleanupDeadline
    \/ CleanupTimerThrows \/ CleanupsDone \/ Finish

\* The parent timer fires in the end, and so does the clean-up timer; nothing
\* makes a probe or a clean-up return.
Deadline == phase = "racing" /\ Abort("timeout")
Fairness ==
    /\ WF_vars(Deadline)
    /\ WF_vars(CleanupDeadline)
    /\ WF_vars(RaceLost) /\ WF_vars(CleanupsDone) /\ WF_vars(Finish)
Spec == Init /\ [][Next]_vars /\ Fairness

-----------------------------------------------------------------------------
(* Properties. *)

\* A run reported as a success or as an abort has left nothing behind: every
\* clean-up the probe registered completed, last registered first, none is
\* still running, and no dependency misbehaved; whatever the race, the
\* deadlines and late callbacks did.
CleanWhenDone ==
    phase = "done" /\ terminal \in {"success", "external", "timeout"} =>
        /\ running = 0 /\ counts = Counts(cleanups, 0)
        /\ ended = [i \in 1..cleanups |-> cleanups + 1 - i]
        /\ flaws = {}

\* The event stream is closed and well formed: probe events come before the
\* clean-up phase, and the one terminal event is the last, although a probe
\* that lost the race keeps calling its context.
StreamClosed ==
    /\ \A i, j \in DOMAIN events :
          events[i] \in {"cleanup", "terminal"} /\ events[j] = "probe" => j < i
    /\ \A i \in DOMAIN events : events[i] = "terminal" => i = Len(events)
    /\ phase = "done" => Last(events) = "terminal"

\* run() always settles, though the probe and its clean-ups may hang.
RunSettled == phase = "done"
=============================================================================
