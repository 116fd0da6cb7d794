------------------------------ MODULE MCRelays ------------------------------
(***************************************************************************)
(* The relay policy, and the node that builds, drives and stops policies.   *)
(* The node sees a policy by what its operations return; the first state    *)
(* chooses which a behaviour is about. The definitions and properties of    *)
(* both modules are used as they are.                                       *)
(***************************************************************************)
EXTENDS RelayPolicy, NetworkNode

VARIABLE part  \* the part of the system this behaviour is of

\* RelayPolicy: three relays of two operators, two of the same; or one relay of each
\* operator and an anonymous one, which only a degraded-eligible overflow source offers.
Relays == {"a1", "a2", "b1", "u1"}
Anonymous == {"u1"}
Attested == Relays \ Anonymous
RelayEvidence == [r \in Relays |-> IF r \in Anonymous THEN "none" ELSE "verified"]
RelayLabel == [r \in Relays |->
                 CASE r \in {"a1", "a2"} -> "A" [] r = "b1" -> "B" [] OTHER -> "unknown"]
Order == <<"a1", "a2", "b1", "u1">>
Ranked(S) == [r \in S |-> CHOOSE i \in DOMAIN Order : Order[i] = r]
AttestedRank == Ranked(Attested)

Spare == INSTANCE RelayPolicy
  WITH Candidate <- Relays \ {"a2"}, Overflow <- Anonymous, DegradedEligible <- Anonymous,
       Rank <- Ranked(Relays \ {"a2"})

-----------------------------------------------------------------------------
\* A behaviour is one of one part; the others keep their first state.
InitAll ==
  /\ part \in {"policy", "overflow", "node"}
  /\ PolicyInit /\ Init
  /\ part = "node" => hasDegradedOverflow = FALSE

PolicyStep ==
  /\ \/ part = "policy" /\ PolicyNext
     \/ part = "overflow" /\ Spare!PolicyNext
  /\ UNCHANGED <<part, vars>>

NodeStep ==
  /\ part = "node" /\ Next
  /\ UNCHANGED <<part, policyVars>>

NextAll ==
  \/ PolicyStep
  \/ NodeStep

varsAll == <<part, policyVars, vars>>

\* The fairness of each part, while the behaviour is of that part.
WorkersFair ==
  /\ WF_policyVars(part = "policy" /\ Operation) /\ WF_policyVars(part = "policy" /\ StopSteps)
  /\ \A w \in 1..2 : WF_policyVars(part = "policy" /\ Work(w))
  /\ WF_policyVars(part = "overflow" /\ Spare!Operation) /\ WF_policyVars(part = "overflow" /\ Spare!StopSteps)
  /\ \A w \in 1..2 : WF_policyVars(part = "overflow" /\ Spare!Work(w))
NodeFairness ==
  /\ \A p \in 1..3 :
       /\ WF_vars(part = "node" /\ OpBegin(p)) /\ WF_vars(part = "node" /\ PolicyStopped(p))
       /\ WF_vars(part = "node" /\ (OpReturn(p) \/ OpThrow(p)))
  /\ WF_vars(part = "node" /\ MaintenanceStep) /\ WF_vars(part = "node" /\ RefreshFires)
  /\ WF_vars(part = "node" /\ RetryResume) /\ WF_vars(part = "node" /\ WarmFires)
  /\ WF_vars(part = "node" /\ Stopping)
  /\ \A i \in 1..3 : WF_vars(part = "node" /\ i \in DOMAIN runs /\ TeardownEnds(i))
FairnessAll == WorkersFair /\ NodeFairness

SpecAll == InitAll /\ [][NextAll]_varsAll /\ FairnessAll

-----------------------------------------------------------------------------
\* Every operation of the policy and every stop() of it ends, whatever refuses, fails, stays
\* silent or is aborted (#enqueue, withDeadline); and so does stop() of the node: waiting for
\* the policy, the maintenance chain and the host cannot deadlock with an operation in flight.
OperationsSettle ==
  /\ []<>(part \in {"policy", "overflow"} => Drained)
  /\ []<>(part \in {"policy", "overflow"} => StopSettled)
  /\ StopSettles
=============================================================================
