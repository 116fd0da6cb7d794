--------------------------- MODULE PublicCampaign ---------------------------
(***************************************************************************)
(* The public campaign of packages/network-spike: runPublicCampaign with   *)
(* its serialized request gate and per-task gates (runner.ts), the         *)
(* reviewed driver whose tasks are fixed request scripts                   *)
(* (reviewed-driver.ts), the preflight and the request ceiling it fixes    *)
(* (config.ts, campaign-primitives.ts).                                    *)
(*                                                                         *)
(* The executor is the environment: it answers, reports a rate limit or an *)
(* operator's concern, fails, or hangs beyond the deadline of its task.    *)
(***************************************************************************)
EXTENDS Naturals, Sequences, FiniteSets, SequencesExt, FiniteSetsExt, Functions

CONSTANTS
    Task,               \* identities of the plan
    Kind,               \* [Task -> {"node", "browser", "grid-canary"}]
    Registry,           \* configured signed registries
    RegistryOf,         \* [Task -> Registry]: the choice by the last digit of the pseudonym
    Caps                \* endpointCallCaps of the plan

VARIABLES
    schedule,   \* the shuffled tasks
    idx,        \* the task being run
    driver,     \* what its driver is doing
    pos,        \* requests of its script that have returned
    aborted,    \* the signal of the task has fired
    used,       \* #consumed of the task gate, by group
    call,       \* the request inside the gate: none, cooling or executing
    warm,       \* the last request is more recent than the cool-down
    made,       \* requests handed to the executor: task and request
    partial,    \* tasks reported as partial cells
    completed,  \* completedTasks
    diverse,    \* the observations show enough operator groups
    outcome     \* status and stopReason of the result

taskVars == <<idx, driver, pos, aborted, used>>
gateVars == <<call, warm, made>>
vars == <<schedule, taskVars, gateVars, partial, completed, diverse, outcome>>

Running == [status |-> "running", stop |-> "none"]

-----------------------------------------------------------------------------
(* The plan. *)

Req(group, op) == [group |-> group, op |-> op]
Groups == {"dht", "delegated", "registry", "relay", "grid"}

\* The request scripts of the reviewed driver.
Script(kind) ==
    CASE kind = "node" -> <<Req("dht", "provide"), Req("dht", "lookup")>>
      [] kind = "browser" -> <<Req("delegated", "lookup"), Req("registry", "discover"),
                               Req("relay", "reserve"), Req("relay", "dial")>>
      [] kind = "grid-canary" ->
             <<Req("dht", "provide"), Req("dht", "lookup"), Req("delegated", "lookup"),
               Req("registry", "register"), Req("registry", "discover"),
               Req("relay", "reserve"), Req("relay", "dial"), Req("grid", "canary")>>

\* The cap of a task gate for a group of requests, 0 where it is not permitted.
GroupCap(kind, group) ==
    CASE kind = "node" -> IF group = "dht" THEN Caps["node"] ELSE 0
      [] kind = "browser" -> IF group \in {"delegated", "registry", "relay"} THEN Caps[group] ELSE 0
      [] kind = "grid-canary" -> Caps["canary"]

Planned(kind) == Cardinality({t \in Task : Kind[t] = kind})

\* summarizePublicCampaign: the ceiling the configuration must state. And the
\* same without the canaries.
CapWithoutCanaries ==
    Planned("node") * Caps["node"]
        + Planned("browser") * (Caps["delegated"] + Caps["registry"] + Caps["relay"])
HardRequestCap == CapWithoutCanaries + Planned("grid-canary") * Caps["canary"]

\* preflightPublicCampaign: without consent, or with a configuration that
\* differs from the frozen plan, nothing is requested.
Init ==
    /\ schedule \in SetToSeqs(Task)
    /\ idx = 0 /\ driver = "idle" /\ pos = 0 /\ aborted = FALSE /\ used = [g \in Groups |-> 0]
    /\ call = "none" /\ warm = FALSE /\ made = << >>
    /\ partial = {} /\ completed = 0 /\ diverse \in BOOLEAN
    /\ outcome \in {Running, [status |-> "environment-blocked", stop |-> "environment-blocked"]}

Now == schedule[idx]
Going == outcome.status = "running"

-----------------------------------------------------------------------------
(* The loop over the tasks. *)

\* The next task gets a deadline, a gate and the driver.
TaskStarts ==
    /\ Going /\ driver = "idle" /\ idx < Len(schedule)
    /\ idx' = idx + 1 /\ driver' = "asking" /\ pos' = 0 /\ aborted' = FALSE
    /\ used' = [g \in Groups |-> 0]
    /\ UNCHANGED <<schedule, gateVars, partial, completed, diverse, outcome>>

\* A thrown CampaignStop, or whatever else the driver throws, ends the loop.
Stop(reason) ==
    /\ driver' = "idle"
    /\ outcome' = IF Going THEN [status |-> "partial", stop |-> reason] ELSE outcome
    /\ UNCHANGED <<partial, completed>>

\* The deadline of the task: the loop ends at once, while the driver and the
\* request it awaits may go on. And the same where the loop waits for the
\* driver.
TimeoutAwaitsDriver ==
    /\ Going /\ driver # "idle" /\ ~aborted /\ call = "none"
    /\ aborted' = TRUE
    /\ outcome' = [status |-> "partial", stop |-> "task-timeout"]
    /\ UNCHANGED <<schedule, idx, driver, pos, used, gateVars, partial, completed, diverse>>
TaskTimesOut ==
    /\ Going /\ driver # "idle" /\ ~aborted
    /\ aborted' = TRUE
    /\ outcome' = [status |-> "partial", stop |-> "task-timeout"]
    /\ UNCHANGED <<schedule, idx, driver, pos, used, gateVars, partial, completed, diverse>>

-----------------------------------------------------------------------------
(* A request through the two gates. *)

\* TaskRequestGate.request and SerializedPublicRequestGate.request up to the
\* cool-down: the caps, the deadline and the request already in the gate.
RequestMade ==
    /\ driver = "asking" /\ pos < Len(Script(Kind[Now]))
    /\ LET req == Script(Kind[Now])[pos + 1]
           capped == \/ used[req.group] >= GroupCap(Kind[Now], req.group)
                     \/ Kind[Now] = "grid-canary" /\ FoldFunction(+, 0, used) >= Caps["canary"]
       IN  IF capped THEN Stop("request-cap") /\ UNCHANGED <<used, call>>
           ELSE /\ used' = [used EXCEPT ![req.group] = @ + 1]
                /\ IF aborted \/ call # "none"
                   THEN Stop(IF aborted THEN "task-timeout" ELSE "driver-failure") /\ UNCHANGED call
                   ELSE /\ driver' = "waiting" /\ call' = "cooling"
                        /\ UNCHANGED <<partial, completed, outcome>>
    /\ UNCHANGED <<schedule, idx, pos, aborted, warm, made, diverse>>

\* The cool-down after the previous request passes.
Cool ==
    /\ warm /\ call # "executing"
    /\ warm' = FALSE
    /\ UNCHANGED <<schedule, taskVars, call, made, partial, completed, diverse, outcome>>

\* The signal is looked at once more before the request counts; and the same
\* without that look.
SignalUnchecked == FALSE
SignalFired == aborted

\* The cool-down is over, or cut short by the signal: the request is counted
\* against the budget and handed to the executor.
Execute ==
    /\ call = "cooling" /\ (~warm \/ SignalFired)
    /\ IF SignalFired THEN Stop("task-timeout") /\ call' = "none" /\ UNCHANGED made
       ELSE IF Len(made) >= HardRequestCap THEN Stop("request-cap") /\ call' = "none" /\ UNCHANGED made
       ELSE /\ call' = "executing"
            /\ made' = Append(made, [task |-> Now, req |-> Script(Kind[Now])[pos + 1]])
            /\ UNCHANGED <<driver, partial, completed, outcome>>
    /\ UNCHANGED <<schedule, idx, pos, aborted, used, warm, diverse>>

ExecutorFrame == call' = "none" /\ warm' = TRUE /\ UNCHANGED <<schedule, idx, aborted, used, made, diverse>>

\* The executor answers and the driver goes on with its script.
Answered ==
    /\ call = "executing"
    /\ driver' = "asking" /\ pos' = pos + 1
    /\ ExecutorFrame /\ UNCHANGED <<partial, completed, outcome>>

\* A rate limit, an operator's concern, a retried or redirected attempt, an
\* error of the executor.
Objection ==
    /\ call = "executing"
    /\ \E reason \in {"rate-limited", "operator-terms-concern", "driver-failure"} : Stop(reason)
    /\ ExecutorFrame /\ UNCHANGED pos

\* An outage of an owner: the reviewed driver turns it into a partial cell,
\* which the task gate accepts only for a group that was asked.
Outage ==
    /\ call = "executing"
    /\ \E group \in Groups :
          IF used[group] = 0 \/ ~Going THEN Stop("driver-failure")
          ELSE /\ partial' = partial \cup {Now} /\ completed' = completed + 1 /\ driver' = "idle"
               /\ UNCHANGED outcome
    /\ ExecutorFrame /\ UNCHANGED pos

-----------------------------------------------------------------------------
(* Results. *)

\* assertRequiredRequests
Required(kind) ==
    CASE kind = "node" -> {"dht"}
      [] kind = "browser" -> {"delegated", "registry", "relay"}
      [] kind = "grid-canary" -> Groups

\* The script is over: evidence that the task does not own, or that lacks a
\* decision, is a failure of the driver.
TaskReturns ==
    /\ driver = "asking" /\ pos = Len(Script(Kind[Now]))
    /\ \/ Stop("driver-failure")
       \/ /\ Going /\ \A group \in Required(Kind[Now]) : used[group] > 0
          /\ driver' = "idle" /\ completed' = completed + 1
          /\ UNCHANGED <<partial, outcome>>
    /\ UNCHANGED <<schedule, idx, pos, aborted, used, gateVars, diverse>>

\* registryEndpointCount
Reached == {RegistryOf[m.task] : m \in {x \in ToSet(made) : x.req.group = "registry"}}

\* validatePublicCampaignCoverage over the observations of the tasks that are
\* neither missing nor partial.
Covered == partial = {} /\ completed = Len(schedule) /\ diverse /\ Reached = Registry

\* All tasks have been run and the result is put together. And the same where
\* partial cells are forgotten.
ConcludeLenient ==
    /\ Going /\ driver = "idle" /\ idx = Len(schedule)
    /\ outcome' = [status |-> IF completed = Len(schedule) /\ Reached = Registry THEN "complete" ELSE "partial",
                   stop |-> "none"]
    /\ UNCHANGED <<schedule, taskVars, gateVars, partial, completed, diverse>>
Conclude ==
    /\ Going /\ driver = "idle" /\ idx = Len(schedule)
    /\ outcome' = [status |-> IF Covered THEN "complete" ELSE "partial",
                   stop |-> IF ~Covered /\ partial = {} THEN "driver-failure" ELSE "none"]
    /\ UNCHANGED <<schedule, taskVars, gateVars, partial, completed, diverse>>

Next ==
    \/ TaskStarts \/ TaskTimesOut \/ RequestMade \/ Cool \/ Execute
    \/ Answered \/ Objection \/ Outage \/ TaskReturns \/ Conclude

\* The loop, the driver and the timers run; nothing makes the executor answer.
Fairness ==
    /\ WF_vars(TaskStarts \/ Conclude) /\ WF_vars(TaskTimesOut)
    /\ WF_vars(RequestMade \/ Execute \/ TaskReturns) /\ WF_vars(Cool)
Spec == Init /\ [][Next]_vars /\ Fairness

-----------------------------------------------------------------------------
(* Properties. *)

\* A campaign that has stopped makes no further request: a rate limit, an
\* operator's concern or a deadline is final, although the driver of a task
\* that timed out may still be waiting in the gate.
StaysStopped == ~Going => made' = made

\* The precomputed ceiling is the sum of what the tasks may ask, so a campaign
\* never runs into it, and never exceeds it.
BudgetSuffices == Len(made) <= HardRequestCap /\ outcome.stop # "request-cap"

\* A complete campaign is complete: every task of the plan was run with every
\* request of its script, none is partial, each registry was asked.
CompleteIsCovered ==
    outcome.status = "complete" =>
        /\ partial = {} /\ Reached = Registry
        /\ \A t \in Task : SelectSeq(made, LAMBDA m : m.task = t)
               = [i \in DOMAIN Script(Kind[t]) |-> [task |-> t, req |-> Script(Kind[t])[i]]]

\* Every campaign ends, though the executor may never answer.
CampaignEnded == outcome.status # "running"
=============================================================================
