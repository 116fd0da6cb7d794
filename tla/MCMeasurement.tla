--------------------------- MODULE MCMeasurement ---------------------------
(***************************************************************************)
(* A replica that joins an object with the help of a discovery hub, the     *)
(* clients of public services (Nostr relays, delegated routing) and the     *)
(* programs that measure them, each on a small instance.  The first state   *)
(* chooses the part a behaviour is about.                                   *)
(***************************************************************************)
EXTENDS Integers, Sequences, FiniteSets

VARIABLES part,  \* the part of the system this behaviour is of
          joined, link, sub, search, request, answer, dialling, probes, asked, cursor, fast,
          warm, attempts, merged, recent, faults,
          clock, last, op, leg, wire, store,
          call, tail, scope, fetch, cooling, cache, stop,
          phase, open, abort, probe, callbacks, cleanups, running, ended, counts, stopped,
          flaws, events, terminal,
          schedule, idx, driver, pos, aborted, used, planCall, planWarm, made, partial,
          completed, diverse, outcome,
          scenario, pc, coord, reserved, ops, record, found, gridLink, up,
          gridOutcome, recovery, failing, gridDriver, ctl,
          item, failPc, now, target, timers, handles, held, kinds, owner, budgets, health,
          grid, failCleanups, result

joiningVars == <<joined, link, sub, search, request, answer, dialling, probes, asked,
                 cursor, fast, warm, attempts, merged, recent, faults>>
nostrVars == <<clock, last, op, leg, wire, store>>
browserVars == <<call, tail, scope, fetch, cooling, cache, stop>>
probeVars == <<phase, open, abort, probe, callbacks, cleanups, running, ended, counts,
               stopped, flaws, events, terminal>>
publicVars == <<schedule, idx, driver, pos, aborted, used, planCall, planWarm, made,
                partial, completed, diverse, outcome>>
gridVars == <<scenario, pc, coord, reserved, ops, record, found, gridLink, up,
              gridOutcome, recovery, failing, gridDriver, ctl>>
failureVars == <<item, failPc, now, target, timers, handles, held, kinds, owner, budgets,
                 health, grid, failCleanups, result>>

\* NostrRelay: two registrations of one record, or one discover, over two relays.
NostrSessions == {{1, 2}, {9}}

\* BrowserRouting: two instances on one page, three lookups.
Lookups == {"a1", "a2", "b1"}
InstanceOf == [l \in Lookups |-> IF l = "b1" THEN "b" ELSE "a"]

\* PublicCampaign: a task of each kind, and caps that leave no slack above the scripts.
Tasks == {"node", "browser", "canary"}
TaskKind == [t \in Tasks |-> IF t = "canary" THEN "grid-canary" ELSE t]
TaskRegistry == [t \in Tasks |-> IF t = "browser" THEN "r1" ELSE "r2"]
TaskCaps == [node |-> 2, delegated |-> 1, registry |-> 1, relay |-> 2, canary |-> 8]

Joiner == INSTANCE Joining
  WITH Peer <- {1, 2}, Holder <- {1}, SearchTicks <- 1, MaxAttempts <- 1, MaxFaults <- 1

Nostr == INSTANCE NostrRelay
  WITH Relay <- {"r1", "r2"}, Registers <- {1, 2}, Finds <- {9}, Sessions <- NostrSessions,
       MaxRecords <- 2, MaxEvents <- 3, MaxClock <- 1

Web == INSTANCE BrowserRouting
  WITH Instance <- {"a", "b"}, Lookup <- Lookups, Of <- InstanceOf, Endpoints <- 2

Probe == INSTANCE ProbeRunner
  WITH MaxDeferredCleanups <- 2, MaxProbeEvents <- 2, MaxCallbacks <- 4

Plan == INSTANCE PublicCampaign
  WITH Task <- Tasks, Kind <- TaskKind, Registry <- {"r1", "r2"},
       RegistryOf <- TaskRegistry, Caps <- TaskCaps, call <- planCall, warm <- planWarm

Grid == INSTANCE GridSession
  WITH Relay <- {"r1", "r2"}, link <- gridLink, outcome <- gridOutcome, driver <- gridDriver

Fail == INSTANCE FailureCampaign
  WITH pc <- failPc, cleanups <- failCleanups

-----------------------------------------------------------------------------
\* A behaviour is one of one part; the others keep their first state.
Init ==
  /\ part \in {"joining", "nostr", "browser", "probe", "public", "grid", "failure"}
  /\ IF part = "joining" THEN Joiner!Init
     ELSE /\ joined = 0 /\ link = 0 /\ sub = 0 /\ search = 0 /\ request = 0 /\ answer = 0
          /\ dialling = 0 /\ probes = 0 /\ asked = 0 /\ cursor = 0 /\ fast = 0 /\ warm = 0
          /\ attempts = 0 /\ merged = 0 /\ recent = 0 /\ faults = 0
  /\ IF part = "nostr" THEN Nostr!Init
     ELSE /\ clock = 0 /\ last = 0 /\ op = 0 /\ leg = 0 /\ wire = 0 /\ store = 0
  /\ Web!Init
  /\ IF part = "probe" THEN Probe!Init
     ELSE /\ phase = 0 /\ open = 0 /\ abort = 0 /\ probe = 0 /\ callbacks = 0
          /\ cleanups = 0 /\ running = 0 /\ ended = 0 /\ counts = 0 /\ stopped = 0
          /\ flaws = 0 /\ events = 0 /\ terminal = 0
  /\ IF part = "public" THEN Plan!Init
     ELSE /\ schedule = 0 /\ idx = 0 /\ driver = 0 /\ pos = 0 /\ aborted = 0 /\ used = 0
          /\ planCall = 0 /\ planWarm = 0 /\ made = 0 /\ partial = 0 /\ completed = 0
          /\ diverse = 0 /\ outcome = 0
  /\ IF part = "grid" THEN Grid!Init
     ELSE /\ scenario = 0 /\ pc = 0 /\ coord = 0 /\ reserved = 0 /\ ops = 0
          /\ record = 0 /\ found = 0 /\ gridLink = 0 /\ up = 0 /\ gridOutcome = 0
          /\ recovery = 0 /\ failing = 0 /\ gridDriver = 0 /\ ctl = 0
  /\ IF part = "failure" THEN Fail!Init
     ELSE /\ item = 0 /\ failPc = 0 /\ now = 0 /\ target = 0 /\ timers = 0 /\ handles = 0
          /\ held = 0 /\ kinds = 0 /\ owner = 0 /\ budgets = 0 /\ health = 0 /\ grid = 0
          /\ failCleanups = 0 /\ result = 0

JoinerStep ==
  /\ part = "joining" /\ Joiner!Next
  /\ UNCHANGED <<part, nostrVars, browserVars, probeVars, publicVars, gridVars, failureVars>>

NostrStep ==
  /\ part = "nostr" /\ Nostr!Next
  /\ UNCHANGED <<part, joiningVars, browserVars, probeVars, publicVars, gridVars,
                 failureVars>>

WebStep ==
  /\ part = "browser" /\ Web!Next
  /\ UNCHANGED <<part, joiningVars, nostrVars, probeVars, publicVars, gridVars, failureVars>>

ProbeStep ==
  /\ part = "probe" /\ Probe!Next
  /\ UNCHANGED <<part, joiningVars, nostrVars, browserVars, publicVars, gridVars,
                 failureVars>>

PlanStep ==
  /\ part = "public" /\ Plan!Next
  /\ UNCHANGED <<part, joiningVars, nostrVars, browserVars, probeVars, gridVars, failureVars>>

GridStep ==
  /\ part = "grid" /\ Grid!Next
  /\ UNCHANGED <<part, joiningVars, nostrVars, browserVars, probeVars, publicVars,
                 failureVars>>

FailStep ==
  /\ part = "failure" /\ Fail!Next
  /\ UNCHANGED <<part, joiningVars, nostrVars, browserVars, probeVars, publicVars, gridVars>>

Next ==
  \/ JoinerStep
  \/ NostrStep
  \/ WebStep
  \/ ProbeStep
  \/ PlanStep
  \/ GridStep
  \/ FailStep

vars == <<part, joiningVars, nostrVars, browserVars, probeVars, publicVars, gridVars,
          failureVars>>

\* The fairness of each part, while the behaviour is of that part.
NostrFairness ==
  \A r \in {"r1", "r2"} : WF_nostrVars(part = "nostr" /\ (Nostr!QueryLoop(9, r) \/ Nostr!Validated(9, r)))
WebFairness ==
  /\ \A l \in Lookups : WF_browserVars(part = "browser" /\ Web!Run(l)) /\ WF_browserVars(part = "browser" /\ Web!CutShort(l))
  /\ \A i \in {"a", "b"}, e \in 1..2 : WF_browserVars(part = "browser" /\ Web!CoolsDown(i, e))
ProbeFairness ==
  /\ WF_probeVars(part = "probe" /\ Probe!Deadline) /\ WF_probeVars(part = "probe" /\ Probe!CleanupDeadline)
  /\ WF_probeVars(part = "probe" /\ Probe!RaceLost) /\ WF_probeVars(part = "probe" /\ Probe!CleanupsDone)
  /\ WF_probeVars(part = "probe" /\ Probe!Finish)
PlanFairness ==
  /\ WF_publicVars(part = "public" /\ (Plan!TaskStarts \/ Plan!Conclude)) /\ WF_publicVars(part = "public" /\ Plan!TaskTimesOut)
  /\ WF_publicVars(part = "public" /\ (Plan!RequestMade \/ Plan!Execute \/ Plan!TaskReturns))
  /\ WF_publicVars(part = "public" /\ Plan!Cool)
GridFairness == WF_gridVars(part = "grid" /\ Grid!CreatorRuns) /\ WF_gridVars(part = "grid" /\ Grid!JoinerRuns)
JoinerFairness ==
  /\ WF_joiningVars(part = "joining" /\ Joiner!RunDRPDiscovery)
  /\ WF_joiningVars(part = "joining" /\ Joiner!HandleDiscoveryRequest)
  /\ WF_joiningVars(part = "joining" /\ Joiner!HandleDiscoveryResponse)
  /\ WF_joiningVars(part = "joining" /\ Joiner!Run)
  /\ WF_joiningVars(part = "joining" /\ Joiner!RunInitialSync)
  /\ \A p \in {1, 2} :
       /\ WF_joiningVars(part = "joining" /\ Joiner!ConnectDiscovered(p))
       /\ WF_joiningVars(part = "joining" /\ Joiner!TopicEntered(p))
       /\ WF_joiningVars(part = "joining" /\ (Joiner!ProbeAnswered(p) \/ Joiner!ProbeLost(p)))
FairnessAll ==
  /\ JoinerFairness /\ NostrFairness /\ WebFairness /\ ProbeFairness /\ PlanFairness /\ GridFairness
  /\ WF_failureVars(part = "failure" /\ Fail!Next)

Spec == Init /\ [][Next]_vars /\ FairnessAll

-----------------------------------------------------------------------------
\* A replica that stays joined ends up with the history of the others, or goes on meeting a
\* group peer without one; and for a stable group the two runners, which share one cursor,
\* probe every peer before they probe one again (interval-sync.ts, interval-discovery,
\* connectObject).
JoinerCatchesUp ==
  /\ []<>(part = "joining" => Joiner!CaughtUp)
  /\ [](part = "joining" => Joiner!RotationFair)

\* A relay never goes back to a record that an earlier registration signed, whatever is
\* still on the wire, and a discover that a relay answered holds every event it sent before
\* EOSE, up to the cap (nostr.ts, nostr-transport.ts).
NostrIsFaithful ==
  /\ [](part = "nostr" => Nostr!QueryDrains)
  /\ [][part = "nostr" => Nostr!KeepsNewest]_nostrVars

\* What is replaced or stopped for a while comes back: scopes of the replaced
\* globalThis.fetch never overlap, over both instances of a page, so the page's own comes
\* back, and once stop() of an instance has resolved no lookup of it holds or awaits the
\* scope; a probe reported as done has all its clean-ups run in order; the relay that a
\* grid page stopped runs again (withBoundedFetch and stop of routing-browser,
\* probe/kernel.ts, grid/index.ts).
CleanedUp ==
  /\ part = "browser" => Web!FetchRestored /\ Web!StopDrains
  /\ part = "probe" => Probe!CleanWhenDone
  /\ part = "grid" => Grid!RelayRestored

\* A verdict is earned: a complete campaign has made every request of its plan within the
\* ceiling, a page that reports success has its direct proof and a running relay, the rows
\* of the failure table meet their contracts, and the one terminal event of a probe closes
\* its stream (public-campaign, grid, failure-campaign and probe/kernel.ts of network-spike).
VerdictsEarned ==
  /\ part = "public" => Plan!CompleteIsCovered /\ Plan!BudgetSuffices
  /\ part = "grid" => Grid!SuccessIsProven
  /\ part = "failure" => Fail!RowsPass
  /\ part = "probe" => Probe!StreamClosed

\* Every call settles although services hang: a query that has its EOSE, a lookup, a probe,
\* a campaign, a page, a row of the failure table; and a campaign that has stopped makes no
\* further request.
CallsSettle ==
  /\ \A r \in {"r1", "r2"} : []<>(part = "nostr" => Nostr!QueryEnded(9, r))
  /\ \A l \in Lookups : []<>(part = "browser" => Web!LookupSettled(l))
  /\ []<>(part = "probe" => Probe!RunSettled)
  /\ []<>(part = "public" => Plan!CampaignEnded)
  /\ \A p \in {"creator", "joiner"} : []<>(part = "grid" => Grid!PageSettled(p))
  /\ []<>(part = "failure" => Fail!RowEnded)
  /\ [][part = "public" => Plan!StaysStopped]_publicVars
=============================================================================
