------------------------------ MODULE Recovery ------------------------------
(***************************************************************************)
(* One recover() of ControlPlaneCoordinator (packages/control-plane) for a  *)
(* plan of several operations, with the mechanisms DRPNode gives it         *)
(* (packages/node/src/index.ts): rendezvous bootstrap, router fallbacks,    *)
(* relay replacement.  ControlPlane treats a recovery as one operation; here *)
(* are its attempts, its timers, and the mechanism that goes on running     *)
(* when the deadline or a stop has cut its operation short.                 *)
(***************************************************************************)
EXTENDS Naturals, Sequences

CONSTANTS Ops,         \* the operations of the plan, a sequence
          Routers,     \* routers that failed
          MaxAttempts, \* maxAttempts
          Delays,      \* how many retryDelaysMs are configured
          MaxRecords   \* BOUND: records one bootstrap yields

VARIABLES pc,        \* "preserving", "next", "operating", "sleeping" or "over"
          attempt,   \* attempts
          ix,        \* operation of the attempt
          recovered, \* an operation of this attempt succeeded
          results,   \* operationResults
          signal,    \* parent.signal: "live", or why it was aborted
          timers,    \* scheduler timers of the recovery
          terminal,
          mech,      \* the mechanism that runs: [at, connected, router, records]
          dials      \* calls of connect(), which takes no signal

vars == <<pc, attempt, ix, recovered, results, signal, timers, terminal, mech, dials>>

NoMechanism == [at |-> "none", connected |-> FALSE, router |-> 1, records |-> 0]

\* recover() up to its first await.
Init ==
  /\ pc = "preserving" /\ attempt = 0 /\ ix = 1 /\ recovered = FALSE /\ results = <<>>
  /\ signal = "live" /\ timers = {"deadline"} /\ terminal = "none"
  /\ mech = NoMechanism /\ dials = 0

-------------------------------------------------------------------------------
(* The scheduler and the signal. *)

\* The parent deadline, and the caller's signal.
DeadlineFires ==
  /\ "deadline" \in timers /\ signal = "live"
  /\ timers' = timers \ {"deadline"} /\ signal' = "deadline"
  /\ UNCHANGED <<pc, attempt, ix, recovered, results, terminal, mech, dials>>

CallerAborts ==
  /\ pc # "over" /\ signal = "live"
  /\ signal' = "aborted"
  /\ UNCHANGED <<pc, attempt, ix, recovered, results, timers, terminal, mech, dials>>

\* The timer of the deadline is late: the clock shows that it has passed.
ClockPassed == signal = "live" /\ "deadline" \in timers

\* The end: the deadline is cleared and the scope closed.
Close(t) ==
  /\ pc' = "over" /\ terminal' = t /\ timers' = timers \ {"deadline"}
  /\ signal' = IF signal = "live" THEN "closed" ELSE signal

-------------------------------------------------------------------------------
(* recover and #runPlan. *)

\* preserveLocalState, raced with the signal.
Preserve ==
  /\ pc = "preserving"
  /\ \/ signal = "live" /\ pc' = "next" /\ attempt' = 1 /\ UNCHANGED <<signal, timers, terminal>>
     \/ Close(IF signal = "live" THEN "failed" ELSE signal) /\ UNCHANGED attempt
     \/ ClockPassed /\ Close("deadline") /\ UNCHANGED attempt
  /\ UNCHANGED <<ix, recovered, results, mech, dials>>

Opening == [NoMechanism EXCEPT !.at = CASE Ops[ix] = "registries" -> "stream"
                                        [] Ops[ix] = "routers" -> "closest"
                                        [] OTHER -> "replace"]

\* runOperation: with the signal aborted the operation is not begun, and accounted for.
RunOperation ==
  /\ pc = "next" /\ ix <= Len(Ops)
  /\ \/ /\ signal = "live"
        /\ pc' = "operating" /\ mech' = Opening /\ UNCHANGED <<ix, results>>
     \/ /\ signal # "live" /\ results' = Append(results, signal) /\ ix' = ix + 1
        /\ UNCHANGED <<pc, mech>>
  /\ UNCHANGED <<attempt, recovered, signal, timers, terminal, dials>>

\* Mutant: the operation is awaited to its end.
CutShortNever == FALSE

\* runMechanismWithSignal: the abort wins the race, the mechanism runs on unheard.
CutShort == pc = "operating" /\ signal # "live"

OperationCut ==
  /\ CutShort
  /\ results' = Append(results, signal) /\ ix' = ix + 1 /\ pc' = "next"
  /\ UNCHANGED <<attempt, recovered, signal, timers, terminal, mech, dials>>

\* All operations of the attempt are accounted for.
AttemptEnds ==
  /\ pc = "next" /\ ix > Len(Ops)
  /\ \/ signal # "live" /\ Close(signal)
     \/ ClockPassed /\ Close("deadline")
     \/ signal = "live" /\ recovered /\ Close("succeeded")
     \/ /\ signal = "live" /\ ~recovered /\ (attempt >= MaxAttempts \/ attempt > Delays)
        /\ Close("exhausted")
     \/ /\ signal = "live" /\ ~recovered /\ attempt < MaxAttempts /\ attempt <= Delays
        /\ pc' = "sleeping" /\ timers' = timers \cup {"sleep"} /\ UNCHANGED <<signal, terminal>>
  /\ UNCHANGED <<attempt, ix, recovered, results, mech, dials>>

\* The next attempt begins, unless the clock has reached the deadline.
SleepEnds ==
  /\ pc = "sleeping" /\ signal = "live"
  /\ \/ /\ pc' = "next" /\ attempt' = attempt + 1 /\ ix' = 1
        /\ timers' = timers \ {"sleep"} /\ UNCHANGED <<signal, terminal>>
     \/ /\ ClockPassed /\ pc' = "over" /\ terminal' = "deadline" /\ signal' = "closed"
        /\ timers' = timers \ {"sleep", "deadline"} /\ UNCHANGED <<attempt, ix>>
  /\ UNCHANGED <<recovered, results, mech, dials>>

\* Mutant: the abort rejects the sleep and leaves its timer.
SleepTimerLeft == timers \ {"deadline"}

\* sleep clears its timer when the signal is aborted; recover clears the deadline.
TimersCleared == timers \ {"sleep", "deadline"}

SleepAborted ==
  /\ pc = "sleeping" /\ signal # "live"
  /\ pc' = "over" /\ terminal' = signal /\ timers' = TimersCleared /\ UNCHANGED signal
  /\ UNCHANGED <<attempt, ix, recovered, results, mech, dials>>

-------------------------------------------------------------------------------
(* The mechanisms. *)

\* The mechanism settles.  Its operation hears of it unless it was cut short.
Settles(r) ==
  /\ mech' = NoMechanism
  /\ IF pc = "operating" /\ signal = "live"
     THEN /\ results' = Append(results, IF r = "succeeded" THEN r ELSE "failed")
          /\ recovered' = (recovered \/ r = "succeeded")
          /\ ix' = ix + 1 /\ pc' = "next"
     ELSE UNCHANGED <<results, recovered, ix, pc>>

MechFrame == <<attempt, signal, timers, terminal>>
Unsettled == UNCHANGED <<results, recovered, ix, pc>>

\* Mutant: a record is dialled without a look at the signal.
DialUnchecked == TRUE

DialAllowed == signal = "live"

\* rendezvousBootstrap: the directory yields a record, which is dialled.
Record ==
  /\ mech.at = "stream" /\ mech.records < MaxRecords
  /\ IF DialAllowed
     THEN /\ mech' = [mech EXCEPT !.at = "connecting", !.records = @ + 1]
          /\ dials' = dials + 1 /\ Unsettled
     ELSE Settles("threw") /\ UNCHANGED dials
  /\ UNCHANGED MechFrame

\* connect() settles; it never rejects, and the peer counts as connected.
Connected ==
  /\ mech.at = "connecting"
  /\ mech' = [mech EXCEPT !.at = "stream", !.connected = TRUE]
  /\ Unsettled /\ UNCHANGED <<MechFrame, dials>>

\* The directory ends or throws, and the bootstraps are redialled; the error of an
\* aborted signal is thrown on.
StreamEnds ==
  /\ mech.at = "stream"
  /\ \/ mech' = [mech EXCEPT !.at = "redial"] /\ Unsettled
     \/ signal # "live" /\ Settles("threw")
  /\ UNCHANGED <<MechFrame, dials>>

Redialled ==
  /\ mech.at = "redial"
  /\ \E ok \in BOOLEAN : Settles(IF mech.connected \/ ok THEN "succeeded" ELSE "failed")
  /\ UNCHANGED <<MechFrame, dials>>

\* routerFallback for one router: a closest peer, or else the host's own routing table
\* is refreshed.
Closest ==
  /\ mech.at = "closest"
  /\ \/ Settles("succeeded")
     \/ mech' = [mech EXCEPT !.at = "refresh"] /\ Unsettled
     \/ signal # "live" /\ Settles("threw")
  /\ UNCHANGED <<MechFrame, dials>>

\* runRouterFallbacks: a router that fails or throws is followed by the next one.
NextRouter ==
  \/ /\ mech.router < Routers
     /\ mech' = [mech EXCEPT !.at = "closest", !.router = @ + 1] /\ Unsettled
  \/ mech.router = Routers /\ Settles("failed")

Refreshed ==
  /\ mech.at = "refresh"
  /\ \/ Settles("succeeded")
     \/ signal # "live" /\ Settles("threw")
     \/ NextRouter
  /\ UNCHANGED <<MechFrame, dials>>

\* relayReplace.
Replaced ==
  /\ mech.at = "replace"
  /\ \E r \in {"succeeded", "failed", "threw"} : Settles(r)
  /\ UNCHANGED <<MechFrame, dials>>

Mechanism == Record \/ Connected \/ StreamEnds \/ Redialled \/ Closest \/ Refreshed \/ Replaced

Continues == Preserve \/ RunOperation \/ OperationCut \/ AttemptEnds \/ SleepEnds \/ SleepAborted

Next == DeadlineFires \/ CallerAborts \/ Continues \/ Mechanism

\* The deadline fires and continuations run; a mechanism may never settle.
Fairness == WF_vars(DeadlineFires) /\ WF_vars(Continues)

Spec == Init /\ [][Next]_vars /\ Fairness

-------------------------------------------------------------------------------
(* Properties. *)

\* A recovery ends, even when a mechanism ignores its signal and never settles.
Over == pc = "over"
RecoveryEnds == <>Over

\* A recovery that ended holds no timer, and every attempt it began accounts for every
\* operation of the plan, however it was cut short.
ScopeClosed == pc = "over" => timers = {} /\ Len(results) = attempt * Len(Ops)

\* connect() takes no signal, so nothing cancels the dial of a record: once the deadline
\* passed or the recovery was stopped, the bootstrap that runs on dials no other record.
AbortedDialsNothing == [][signal # "live" => dials' = dials]_vars
===============================================================================
