----------------------------- MODULE HostStartup -----------------------------
(***************************************************************************)
(* Who owns a libp2p host while a Node runtime starts: DRPNetworkNode.start *)
(* with its host factory (packages/network/src/node.ts), createNodeRouting  *)
(* (packages/routing-node) and createNodeRuntime (packages/node), which     *)
(* attaches the routing to the host of a whole DRPNode.  Every await may    *)
(* reject and every check may throw; each layer then cleans up what it      *)
(* believes to have started.                                                *)
(***************************************************************************)
EXTENDS Naturals

CONSTANT Config  \* of the runtime: [enabled, public, rollout, acknowledged]

VARIABLES entry,    \* the function called: "runtime" or "routing"
          config,
          pc,       \* where it is
          build,    \* hostBuild: "none", "pending", "done" or "failed"
          host,     \* the host that was built: "none", "started" or "stopped"
          returned, \* what the factory returned: "none", "built" or "foreign"
          adopted,  \* network._node is the host built
          counted,  \* networkStarted
          attached, \* the routing adapter is attached
          retry,    \* the relay policy was asked to acquire again
          outcome   \* "none", "resolved", "rejected" or "aggregate"

vars == <<entry, config, pc, build, host, returned, adopted, counted, attached, retry, outcome>>

Init ==
  /\ entry \in {"runtime", "routing"} /\ config \in Config
  /\ pc = (IF entry = "runtime" THEN "resolve" ELSE "start")
  /\ build = "none" /\ host = "none" /\ returned = "none"
  /\ adopted = FALSE /\ counted = FALSE /\ attached = FALSE /\ retry = FALSE
  /\ outcome = "none"

Goto(l) == pc' = l
Frame == <<entry, config>>
Settle(o) == pc' = "over" /\ outcome' = o

-------------------------------------------------------------------------------
(* createNodeRuntime, before anything starts. *)

\* resolveNodeRoutingRuntimeConfig: without routing, or with public routing the rollout
\* does not allow, the runtime is a plain node.
Plain(c) == ~c.enabled \/ (c.public /\ ~c.rollout)

Resolve ==
  /\ pc = "resolve"
  /\ \/ /\ Plain(config)
        /\ \/ Goto("start") /\ UNCHANGED outcome
           \/ Settle("rejected")  \* createPlainNode: network dependencies for an injected node
     \/ ~Plain(config) /\ config.public /\ ~config.acknowledged /\ Settle("rejected")
     \/ /\ ~Plain(config) /\ (config.public => config.acknowledged)
        /\ \/ Goto("start") /\ UNCHANGED outcome
           \/ Settle("rejected")  \* an injected network node
  /\ UNCHANGED <<Frame, build, host, returned, adopted, counted, attached, retry>>

-------------------------------------------------------------------------------
(* DRPNetworkNode.start. *)

\* The checks of start, the keychain before it, and what the factory does before it
\* builds -- a reserved or a routing service it would replace -- throw, or it goes on;
\* a delegate of the application may never build.
CallFactory ==
  /\ pc = "start"
  /\ \/ Goto("factory") /\ build' \in {"none", "pending"}
     \/ Goto("start failed") /\ UNCHANGED build
  /\ UNCHANGED <<Frame, host, returned, adopted, counted, attached, retry, outcome>>

\* createLibp2p settles, before or after a factory that does not wait for it.
BuildSettles ==
  /\ build = "pending"
  /\ \/ build' = "done" /\ host' = "started"
     \/ build' = "failed" /\ UNCHANGED host
  /\ UNCHANGED <<Frame, pc, returned, adopted, counted, attached, retry, outcome>>

\* The factory throws: a second createHost, a failed build or a mistake of its own.
FactoryThrows ==
  /\ pc = "factory" /\ Goto("factory failed")
  /\ UNCHANGED <<Frame, build, host, returned, adopted, counted, attached, retry, outcome>>

\* Mutant: the runtime counts the network as started only when node.start returns.
OnHostLate == counted

\* onHost of createRoutingHostFactory, which a plain node does not have; createNodeRouting
\* counts after start instead.
OnHost == entry = "runtime" /\ ~Plain(config)

\* The factory returns the host it built; a delegate of the application may return
\* another one, started or not.
FactoryReturns ==
  /\ pc = "factory"
  /\ \/ /\ build = "done" /\ returned' = "built" /\ Goto("started")
        /\ adopted' = TRUE /\ counted' = OnHost
     \/ /\ entry = "runtime" /\ returned' = "foreign" /\ Goto("factory failed")
        /\ counted' \in {FALSE, OnHost} /\ UNCHANGED adopted
  /\ UNCHANGED <<Frame, build, host, attached, retry, outcome>>

\* The catch awaits a build still pending before it looks at the host.
AwaitsBuild == build # "pending"

\* The catch of start: the host that was built, if any, is stopped, or its stop throws.
FactoryCleanup ==
  /\ pc = "factory failed" /\ AwaitsBuild
  /\ Goto("start failed")
  /\ host' \in {IF host = "started" THEN "stopped" ELSE host, host}
  /\ outcome' = IF host' = "started" THEN "aggregate" ELSE outcome
  /\ UNCHANGED <<Frame, build, returned, adopted, counted, attached, retry>>

-------------------------------------------------------------------------------
(* After the network: the rest of node.start, and the attachment. *)

\* The rest of network.start and, in the runtime, of DRPNode.start, which rejects for a
\* rendezvous without a namespace, for instance. A plain node is the result as it stands.
NodeStarted ==
  /\ pc = "started"
  /\ \/ /\ entry = "runtime" /\ Plain(config)
        /\ Settle("resolved") /\ UNCHANGED counted
     \/ /\ entry = "routing" \/ ~Plain(config)
        /\ Goto("attach") /\ counted' = TRUE /\ UNCHANGED outcome
     \/ Goto("start failed") /\ UNCHANGED <<counted, outcome>>
  /\ UNCHANGED <<Frame, build, host, returned, adopted, attached, retry>>

\* attachNodeRouting: the host has no DHT service, setMode or initialize rejects; or it
\* is attached, and the runtime asks for relays through it.
Attach ==
  /\ pc = "attach"
  /\ \/ /\ attached' = TRUE /\ retry' \in {FALSE, entry = "runtime" /\ config.public}
        /\ Settle("resolved")
     \/ Goto("start failed") /\ UNCHANGED <<attached, retry, outcome>>
  /\ UNCHANGED <<Frame, build, host, returned, adopted, counted>>

\* What the outer catch stops: the network node where it is believed to be running,
\* with the host it adopted; createNodeRouting falls back on the host itself. Nothing
\* catches what the start of a plain node throws.
Stops == host = "started" /\ adopted /\ (counted \/ entry = "routing")

\* The outer catch; the stop may throw in its turn.
Reject ==
  /\ pc = "start failed"
  /\ \/ /\ Stops /\ host' = "stopped" /\ Settle("rejected")
     \/ /\ Stops /\ Settle("aggregate") /\ UNCHANGED host
     \/ /\ ~Stops /\ UNCHANGED host
        /\ Settle(IF outcome = "aggregate" THEN "aggregate" ELSE "rejected")
  /\ UNCHANGED <<Frame, build, returned, adopted, counted, attached, retry>>

Next ==
  \/ Resolve \/ CallFactory \/ BuildSettles \/ FactoryThrows \/ FactoryReturns
  \/ FactoryCleanup \/ NodeStarted \/ Attach \/ Reject

Spec == Init /\ [][Next]_vars

-------------------------------------------------------------------------------
(* Properties. *)

\* A startup that rejects leaves no host behind, and none that is still being built,
\* wherever it failed, unless the error says that the cleanup failed too. The one exception
\* is a plain node whose start rejects after its network has adopted the host: the caller
\* of createNodeRuntime gets neither the node nor a stop.
LostWithNode == entry = "runtime" /\ Plain(config) /\ adopted
NoHostLeaked == outcome = "rejected" => build # "pending" /\ (host = "started" => LostWithNode)
===============================================================================
