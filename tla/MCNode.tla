------------------------------- MODULE MCNode -------------------------------
(***************************************************************************)
(* A node's life: start, stop and restart with its objects (DRPNode), the   *)
(* control plane that observes it (ControlPlane), one recovery it starts,   *)
(* the bootstraps that a start and a recovery make, and the queue of an     *)
(* object across restarts (MessageQueue). The definitions and properties of *)
(* DRPNode, ControlPlane and MessageQueue are used as they are. The first   *)
(* state chooses the part a behaviour is about.                             *)
(***************************************************************************)
EXTENDS Integers, MessageQueue, DRPNode, ControlPlane

VARIABLES part,  \* the part of the system this behaviour is of
          mendPc, attempt, ix, recovered, results, signal, timers, terminal, mech, dials,
          now, faults, durable, mem, dirty, chain, hung, boot, bootDue, clash

recoveryVars == <<mendPc, attempt, ix, recovered, results, signal, timers, terminal, mech, dials>>
bootstrapVars == <<now, faults, durable, mem, dirty, chain, hung, boot, bootDue, clash>>

\* Recovery: the plan of a total outage.
TotalOutage == <<"registries", "routers", "relay">>

\* Bootstrap: a peer that moves on to a newer record; a bootstrap of node start and one of
\* a recovery.
Rec(peer, seq, sig, exp) == [peer |-> peer, seq |-> seq, sig |-> sig, exp |-> exp]
SourceAnswers == {<<Rec(1, 2, "a", 2)>>}
CacheStored == {<<Rec(1, 1, "a", 2), Rec(2, 1, "a", 1)>>}
CacheUndialable == {Rec(2, 1, "a", 1)}
Boots == {"warm", "recovery"}
BootSelected == [b \in Boots |->
                   IF b = "warm" THEN <<"registries", "peer-exchange">> ELSE <<"registries">>]

Mend == INSTANCE Recovery
  WITH Ops <- TotalOutage, Routers <- 2, MaxAttempts <- 3, Delays <- 2, MaxRecords <- 2,
       pc <- mendPc

Boot == INSTANCE Bootstrap
  WITH Peer <- {1, 2}, Answers <- SourceAnswers, Stored <- CacheStored,
       Undialable <- CacheUndialable, Boot <- Boots, Selected <- BootSelected,
       ReadsCache <- {"warm"}, Maximum <- 2, SourceCap <- 1, MaxNow <- 1, MaxFaults <- 1,
       due <- bootDue

-----------------------------------------------------------------------------
\* A behaviour is one of one part; the others keep their first state.
InitAll ==
  /\ part \in {"lifecycle", "control", "recovery", "bootstrap", "queue"}
  /\ NodeInit
  /\ PlaneInit
  /\ Mend!Init
  /\ Boot!Init
  /\ Init

NodeStep ==
  /\ part = "lifecycle" /\ NodeNext
  /\ UNCHANGED <<part, planeVars, recoveryVars, bootstrapVars, vars>>

PlaneStep ==
  /\ part = "control" /\ PlaneNext
  /\ UNCHANGED <<part, nodeVars, recoveryVars, bootstrapVars, vars>>

MendStep ==
  /\ part = "recovery" /\ Mend!Next
  /\ UNCHANGED <<part, nodeVars, planeVars, bootstrapVars, vars>>

BootStep ==
  /\ part = "bootstrap" /\ Boot!Next
  /\ UNCHANGED <<part, nodeVars, planeVars, recoveryVars, vars>>

QueueStep ==
  /\ part = "queue" /\ Next
  /\ UNCHANGED <<part, nodeVars, planeVars, recoveryVars, bootstrapVars>>

NextAll ==
  \/ NodeStep
  \/ PlaneStep
  \/ MendStep
  \/ BootStep
  \/ QueueStep

varsAll == <<part, nodeVars, planeVars, recoveryVars, bootstrapVars, vars>>

\* The fairness of each part, while the behaviour is of that part.
NodePartFair ==
  /\ WF_nodeVars(part = "lifecycle" /\ Proceeds)
  /\ WF_nodeVars(part = "lifecycle" /\ ReconnectReturns)
  /\ WF_nodeVars(part = "lifecycle" /\ ReconnectFires)
  /\ \A o \in {"o1", "o2"} :
       /\ WF_nodeVars(part = "lifecycle" /\ CreateResumes(o))
       /\ WF_nodeVars(part = "lifecycle" /\ FetchReturns(o))
       /\ WF_nodeVars(part = "lifecycle" /\ RetryFires(o))
       /\ WF_nodeVars(part = "lifecycle" /\ (FetchAnswered(o) \/ FetchTimesOut(o)))
       /\ WF_nodeVars(part = "lifecycle" /\ LoopReturns(o, "sync"))
       /\ WF_nodeVars(part = "lifecycle" /\ LoopFires(o, "sync"))
PlanePartFair ==
  /\ WF_planeVars(part = "control" /\ TimerFires) /\ WF_planeVars(part = "control" /\ Notify)
  /\ WF_planeVars(part = "control" /\ BackoffOver) /\ WF_planeVars(part = "control" /\ Recovery)
  /\ WF_planeVars(part = "control" /\ StopDone)
QueuePartFair == \A g \in Gen : WF_vars(part = "queue" /\ runFanoutLoop(g))
FairnessAll ==
  /\ NodePartFair /\ PlanePartFair /\ QueuePartFair
  /\ WF_recoveryVars(part = "recovery" /\ Mend!DeadlineFires)
  /\ WF_recoveryVars(part = "recovery" /\ Mend!Continues)
  /\ \A b \in Boots : WF_bootstrapVars(part = "bootstrap" /\ Boot!BootStep(b))

SpecAll == InitAll /\ [][NextAll]_varsAll /\ FairnessAll

-----------------------------------------------------------------------------
\* A node that stays started and cut off from every peer is recovered again and again, and
\* each recovery ends (#observe, #recover of the control plane). It ends though a mechanism
\* ignores its signal, with no timer left and every operation accounted for, and dials no
\* record once it was cut short; a bootstrap ends though the store of the peer cache or
\* every source has stopped answering (recover, rendezvousBootstrap, ensemble.ts).
RecoveryEnds ==
  /\ OutageRetried
  /\ []<>(part = "recovery" => Mend!Over)
  /\ Boot!BootstrapSettles
  /\ [](part = "recovery" => Mend!ScopeClosed)
  /\ Mend!AbortedDialsNothing
=============================================================================
