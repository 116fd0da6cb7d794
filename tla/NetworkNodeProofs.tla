------------------------- MODULE NetworkNodeProofs -------------------------
(***************************************************************************)
(* Proofs about the relay driver of a network node, for any number of       *)
(* relays, starts, policies, retries, links of maintenance and faults: the  *)
(* safety properties of NetworkNode and the inductive invariant they need.  *)
(***************************************************************************)
EXTENDS NetworkNode, TLAPS

-----------------------------------------------------------------------------
(* The inductive invariant. *)

\* A call on a policy's serial chain, a run of _runInitialRelayAcquire and a link of the
\* maintenance chain.
CallRecord == [by : {"run", "maintenance", "coordinator"}, id : Nat,
               kind : {"acquire", "replace", "refresh"}, relay : Relay \cup {NoRelay}]
RunRecord == [pol : Policies, pc : {"acquiring", "tearing", "done"}]
LinkRecord == [kind : {"replace", "refresh"}, pol : Policies, ctl : Policies \cup {0},
               relay : Relay \cup {NoRelay}, pc : {"queued", "called"}]

\* The types of the state the proof is about.
DriverTypes ==
    /\ pol \in [Policies -> {"unborn", "live", "stopping", "stopped"}]
    /\ begun \in [Policies -> BOOLEAN] /\ active \in [Policies -> SUBSET Relay]
    /\ cur \in Policies \cup {0} /\ failed \in BOOLEAN
    /\ timer \in Policies \cup {0} /\ listener \in Policies \cup {0}
ChainTypes ==
    /\ chain \in [Policies -> Seq(CallRecord)]
    /\ runs \in Seq(RunRecord) /\ tail \in Seq(LinkRecord)
TypeOK == DriverTypes /\ ChainTypes

\* A policy is left only once its controller is aborted, and one whose stop() has not
\* settled is the current one or the one that stop() of the node waits for.
Referred ==
    /\ OneOwner
    /\ cur # 0 => pol[cur] # "unborn"
    /\ \A p \in Policies :
         /\ pol[p] = "stopping" => p = cur \/ (life = "stopping policy" /\ p = stopWaits)
         /\ pol[p] \in {"stopping", "stopped"} => p \in aborted
         /\ pol[p] # "unborn" /\ p # cur => p \in aborted

\* From the call of stop() on, the driver has no policy, no timer and no listener, and
\* nothing that a retry would rebuild a policy for.
DriverDown ==
    life # "started" => /\ cur = 0 /\ ~failed /\ timer = 0 /\ warmTimer = 0
                        /\ listener = 0 /\ warm = 0 /\ watch = {}

\* Only a policy that was started is called, queued for, watched or timed.
Born ==
    /\ \A p \in Policies : chain[p] # << >> => pol[p] # "unborn"
    /\ \A i \in DOMAIN tail : pol[tail[i].pol] # "unborn"
    /\ listener # 0 => pol[listener] # "unborn"
    /\ timer # 0 => pol[timer] # "unborn"

\* An operation runs, and a reservation is held, only on a policy not yet stopped.
Turns ==
    \A p \in Policies :
      /\ begun[p] => chain[p] # << >> /\ pol[p] \in {"live", "stopping"}
      /\ pol[p] \in {"unborn", "stopped"} => active[p] = {}

\* The maintenance chain has one call on the policies at a time, of its first link.
IsMaintenance(p, i) == i \in DOMAIN chain[p] /\ chain[p][i].by = "maintenance"
OneLink ==
    /\ \A p \in Policies, i \in Nat : IsMaintenance(p, i) => tail # << >> /\ tail[1].pc = "called"
    /\ \A p, q \in Policies, i, j \in Nat :
         IsMaintenance(p, i) /\ IsMaintenance(q, j) => p = q /\ i = j
    /\ \A i \in DOMAIN tail : i # 1 => tail[i].pc = "queued"
    /\ life \in {"stopping host", "stopped", "starting"} => tail = << >>

\* The inductive invariant.
IInv == TypeOK /\ Referred /\ DriverDown /\ Born /\ Turns /\ OneLink
\* Policies are numbered from 1: 0 stands for no policy.
LEMMA NoPolicyZero == 0 \notin Policies
BY DEF Policies

\* Appending to a queue.
LEMMA Appended ==
    ASSUME NEW S, NEW s \in Seq(S), NEW e \in S
    PROVE  /\ Append(s, e) \in Seq(S) /\ Append(s, e) # << >> /\ Len(s) + 1 \in Nat
           /\ \A i \in Nat : i \in DOMAIN Append(s, e) <=> i \in DOMAIN s \/ i = Len(s) + 1
           /\ \A i \in DOMAIN s : Append(s, e)[i] = s[i]
           /\ Append(s, e)[Len(s) + 1] = e
           /\ Len(s) + 1 \notin DOMAIN s
           /\ s = << >> => Append(s, e)[1] = e
           /\ s # << >> => 1 \in DOMAIN s
<1>1. Len(s) \in Nat /\ DOMAIN s = 1 .. Len(s)
  OBVIOUS
<1>2. Append(s, e) \in Seq(S) /\ Len(Append(s, e)) = Len(s) + 1
      /\ DOMAIN Append(s, e) = 1 .. Len(s) + 1
  OBVIOUS
<1>3. DOMAIN << >> = {} /\ 1 \in 1 .. Len(s) + 1
  BY <1>1
<1>4. Append(s, e) # << >>
  BY <1>2, <1>3, Zenon
<1>5. s # << >> => 1 \in DOMAIN s
  OBVIOUS
<1>6. s = << >> => Append(s, e)[1] = e
  OBVIOUS
<1>7. \A i \in DOMAIN s : Append(s, e)[i] = s[i]
  OBVIOUS
<1>8. Append(s, e)[Len(s) + 1] = e
  OBVIOUS
<1> QED BY <1>1, <1>2, <1>4, <1>5, <1>6, <1>7, <1>8

\* Taking the head off a queue.
LEMMA HeadOff ==
    ASSUME NEW S, NEW s \in Seq(S), s # << >>
    PROVE  /\ Tail(s) \in Seq(S) /\ Head(s) = s[1] /\ s[1] \in S /\ 1 \in DOMAIN s
           /\ \A i \in Nat : i \in DOMAIN Tail(s) => i + 1 \in DOMAIN s /\ i + 1 # 1 /\ Tail(s)[i] = s[i + 1]
           /\ DOMAIN s \subseteq Nat /\ DOMAIN Tail(s) \subseteq Nat
<1>1. Len(s) \in Nat /\ DOMAIN s = 1 .. Len(s) /\ Len(s) > 0
  OBVIOUS
<1>2. Tail(s) \in Seq(S) /\ Len(Tail(s)) = Len(s) - 1 /\ DOMAIN Tail(s) = 1 .. Len(s) - 1
  BY <1>1
<1>3. \A i \in 1 .. Len(s) - 1 : Tail(s)[i] = s[i + 1]
  BY <1>1
<1>4. Head(s) = s[1] /\ s[1] \in S
  BY <1>1
<1> QED BY <1>1, <1>2, <1>3, <1>4
\* A link of the maintenance chain names a policy.
LEMMA LinkTyped ==
    ASSUME ChainTypes
    PROVE  \A i \in DOMAIN tail : tail[i] \in LinkRecord /\ tail[i].pol \in Policies
<1>1. \A i \in DOMAIN tail : tail[i] \in LinkRecord
  BY DEF ChainTypes
<1> QED BY <1>1 DEF LinkRecord

\* A node that was never started has no policy.
LEMMA InitEstablishes == Init => IInv
<1> SUFFICES ASSUME Init PROVE IInv
  OBVIOUS
<1>1. << >> \in Seq(CallRecord) /\ << >> \in Seq(RunRecord) /\ << >> \in Seq(LinkRecord)
      /\ DOMAIN << >> = {}
  OBVIOUS
<1>2. \A p \in Policies : chain[p] = << >> /\ DOMAIN chain[p] = {}
  BY <1>1 DEF Init
<1>3. tail = << >> /\ DOMAIN tail = {}
  BY <1>1 DEF Init
<1>4. TypeOK
  BY <1>1, Zenon DEF Init, TypeOK, DriverTypes, ChainTypes
<1>5. Referred /\ DriverDown /\ Born /\ Turns
  BY <1>2, <1>3 DEF Init, Referred, OneOwner, DriverDown, Born, Turns
<1>6. OneLink
  BY <1>2, <1>3 DEF OneLink, IsMaintenance
<1> QED BY <1>4, <1>5, <1>6 DEF IInv

\* What a step leaves of the invariant when it does not touch what a conjunct is about:
\* the chains stay as they are.
LEMMA SameLinks ==
    ASSUME OneLink, UNCHANGED <<chain, tail>>,
           life' = life \/ life' \notin {"stopping host", "stopped", "starting"} \/ tail = << >>
    PROVE  OneLink'
<1>1. \A p \in Policies, i \in Nat : IsMaintenance(p, i)' <=> IsMaintenance(p, i)
  BY DEF IsMaintenance
<1> QED BY <1>1 DEF OneLink

\* The driver and the policies stay as they are.
LEMMA SameDriver ==
    ASSUME Referred, DriverDown,
           UNCHANGED <<life, stopWaits, pol, aborted, cur, failed, watch, timer, listener, warm, warmTimer>>
    PROVE  Referred' /\ DriverDown'
<1>1. Referred'
  BY DEF Referred, OneOwner
<1>2. DriverDown'
  BY DEF DriverDown
<1> QED BY <1>1, <1>2

\* No policy is born, called, queued for, watched or timed.
LEMMA SameBorn ==
    ASSUME Born, UNCHANGED <<pol, chain, tail, timer, listener>>
    PROVE  Born'
BY DEF Born

\* No operation begins or ends.
LEMMA SameTurns ==
    ASSUME Turns, UNCHANGED <<pol, chain, begun, active>>
    PROVE  Turns'
BY DEF Turns

\* A step that leaves the chains and the driver alone, at most moving start() and stop()
\* past one of their awaits.
LEMMA LifeKeeps ==
    ASSUME IInv,
           UNCHANGED <<pol, chain, begun, active, aborted, cur, failed, runs, watch, timer,
                       tail, listener, warm, warmTimer>>,
           life' # life => /\ life = "started" => life' = "started"
                           /\ life = "stopping policy" => \A p \in Policies : pol[p] = "stopping" => p # stopWaits
                           /\ life' \in {"stopping host", "stopped", "starting"} => tail = << >>
                           /\ life' = "stopping policy" => life = life',
           life' = life => stopWaits' = stopWaits
    PROVE  IInv'
<1>1. TypeOK'
  BY DEF IInv, TypeOK, DriverTypes, ChainTypes
<1>2. Referred'
  BY DEF IInv, Referred, OneOwner
<1>3. DriverDown'
  BY DEF IInv, DriverDown
<1>4. Born' /\ Turns'
  BY DEF IInv, Born, Turns
<1>5. OneLink'
  BY SameLinks DEF IInv
<1> QED BY <1>1, <1>2, <1>3, <1>4, <1>5 DEF IInv

\* start() up to the policy, and stop() from its second await on.
LEMMA HostKeeps ==
    ASSUME IInv, StartCall \/ HostFails \/ StopPolicyDone \/ StopTailDone \/ HostStopped
    PROVE  IInv'
<1>1. CASE StartCall
  <2>1. tail = << >>
    BY <1>1 DEF StartCall, IInv, OneLink
  <2> QED BY <1>1, <2>1, LifeKeeps DEF StartCall, policies, driver, maintenance
<1>2. CASE HostFails
  <2>1. tail = << >>
    BY <1>2 DEF HostFails, IInv, OneLink
  <2> QED BY <1>2, <2>1, LifeKeeps DEF HostFails, policies, driver, maintenance
<1>3. CASE StopPolicyDone
  BY <1>3, LifeKeeps DEF StopPolicyDone, policies, driver, maintenance
<1>4. CASE StopTailDone
  BY <1>4, LifeKeeps DEF StopTailDone, policies, driver, maintenance
<1>5. CASE HostStopped
  <2>1. tail = << >>
    BY <1>5 DEF HostStopped, IInv, OneLink
  <2> QED BY <1>5, <2>1, LifeKeeps DEF HostStopped, policies, driver, maintenance
<1> QED BY <1>1, <1>2, <1>3, <1>4, <1>5

\* stop() takes the driver down in one go; the policy it waits for is the one it dropped.
LEMMA StopCallKeeps ==
    ASSUME IInv, StopCall
    PROVE  IInv'
<1>1. /\ life = "started" /\ life' = (IF cur = 0 THEN "stopping tail" ELSE "stopping policy")
      /\ stopWaits' = cur /\ aborted' = aborted \cup ({cur} \ {0}) /\ cur' = 0 /\ failed' = FALSE
      /\ pol' = [p \in Policies |-> IF p = cur /\ pol[p] = "live" THEN "stopping" ELSE pol[p]]
      /\ timer' = 0 /\ watch' = {} /\ listener' = 0 /\ warmTimer' = 0 /\ warm' = 0
      /\ UNCHANGED <<chain, begun, active, runs, tail>>
  BY DEF StopCall, ClearRelayMaintenance
<1>2. TypeOK'
  <2>1. DriverTypes'
    BY <1>1 DEF IInv, TypeOK, DriverTypes
  <2>2. ChainTypes'
    BY <1>1 DEF IInv, TypeOK, ChainTypes
  <2> QED BY <2>1, <2>2 DEF TypeOK
<1>3. Referred'
  BY <1>1, NoPolicyZero DEF IInv, TypeOK, DriverTypes, Referred, OneOwner
<1>4. DriverDown'
  BY <1>1 DEF DriverDown
<1>5. Born'
  <2>1. \A p \in Policies : pol[p] # "unborn" => pol'[p] # "unborn"
    BY <1>1 DEF IInv, TypeOK, DriverTypes
  <2>2. \A i \in DOMAIN tail : tail[i].pol \in Policies
    BY LinkTyped DEF IInv, TypeOK
  <2> QED BY <1>1, <2>1, <2>2 DEF IInv, Born
<1>6. Turns'
  BY <1>1 DEF IInv, TypeOK, DriverTypes, Turns
<1>7. OneLink'
  BY <1>1, SameLinks DEF IInv
<1> QED BY <1>2, <1>3, <1>4, <1>5, <1>6, <1>7 DEF IInv

\* The finally block drops the policy only when it is the current one, and it has stopped.
LEMMA TeardownEndsKeeps ==
    ASSUME IInv, NEW i \in DOMAIN runs, TeardownEnds(i)
    PROVE  IInv'
<1>1. /\ runs[i].pc = "tearing" /\ pol[runs[i].pol] = "stopped"
      /\ runs' = [runs EXCEPT ![i].pc = "done"]
      /\ cur' = (IF cur = runs[i].pol THEN 0 ELSE cur)
      /\ UNCHANGED <<life, stopWaits, pol, chain, begun, active, aborted, failed, watch, timer,
                     tail, listener, warm, warmTimer>>
  BY DEF TeardownEnds, RunEnds, host, policies, maintenance
<1>2. runs' \in Seq(RunRecord) /\ runs[i].pol \in Policies
  <2>1. runs \in Seq(RunRecord) /\ runs[i] \in RunRecord
    BY DEF IInv, TypeOK, ChainTypes
  <2>2. [runs[i] EXCEPT !.pc = "done"] \in RunRecord
    BY <2>1 DEF RunRecord
  <2> QED BY <1>1, <2>1, <2>2 DEF RunRecord
<1>3. TypeOK'
  BY <1>1, <1>2 DEF IInv, TypeOK, DriverTypes, ChainTypes
<1>4. Referred'
  BY <1>1, <1>2 DEF IInv, TypeOK, DriverTypes, Referred, OneOwner
<1>5. DriverDown'
  BY <1>1 DEF IInv, DriverDown
<1>6. Born' /\ Turns'
  BY <1>1, SameBorn, SameTurns DEF IInv
<1>7. OneLink'
  BY <1>1, SameLinks DEF IInv
<1> QED BY <1>3, <1>4, <1>5, <1>6, <1>7 DEF IInv

\* A call of a run or of the coordinator joins the chain of a policy.
LEMMA CallJoins ==
    ASSUME IInv, NEW p \in Policies, NEW c \in CallRecord,
           chain' = [chain EXCEPT ![p] = Append(@, c)]
    PROVE  /\ chain' \in [Policies -> Seq(CallRecord)]
           /\ \A q \in Policies : chain[q] # << >> => chain'[q] # << >>
           /\ \A q \in Policies : q # p => chain'[q] = chain[q]
           /\ \A q \in Policies, i \in Nat :
                IsMaintenance(q, i)' =>
                  IsMaintenance(q, i) \/ (c.by = "maintenance" /\ q = p /\ i = Len(chain[p]) + 1)
<1>1. chain \in [Policies -> Seq(CallRecord)]
  BY DEF IInv, TypeOK, ChainTypes
<1>2. chain[p] \in Seq(CallRecord)
  BY <1>1
<1>3. chain'[p] = Append(chain[p], c) /\ \A q \in Policies : q # p => chain'[q] = chain[q]
  BY <1>1
<1>4. /\ chain'[p] \in Seq(CallRecord) /\ chain'[p] # << >>
      /\ \A i \in Nat : i \in DOMAIN chain'[p] <=> i \in DOMAIN chain[p] \/ i = Len(chain[p]) + 1
      /\ \A i \in DOMAIN chain[p] : chain'[p][i] = chain[p][i]
      /\ chain'[p][Len(chain[p]) + 1] = c
  BY <1>2, <1>3, Appended
<1>5. chain' \in [Policies -> Seq(CallRecord)]
  BY <1>1, <1>3, <1>4
<1>6. ASSUME NEW q \in Policies, NEW i \in Nat, IsMaintenance(q, i)'
      PROVE  IsMaintenance(q, i) \/ (c.by = "maintenance" /\ q = p /\ i = Len(chain[p]) + 1)
  BY <1>3, <1>4, <1>6 DEF IsMaintenance
<1> QED BY <1>3, <1>4, <1>5, <1>6

\* Such a call is not one of the maintenance chain.
LEMMA CallJoinsKeepsOneLink ==
    ASSUME IInv, NEW p \in Policies, NEW c \in CallRecord, c.by # "maintenance",
           chain' = [chain EXCEPT ![p] = Append(@, c)], UNCHANGED tail,
           life' \in {"stopping host", "stopped", "starting"} => life' = life
    PROVE  OneLink'
<1>1. \A q \in Policies, i \in Nat : IsMaintenance(q, i)' => IsMaintenance(q, i)
  BY CallJoins
<1> QED BY <1>1 DEF IInv, OneLink

\* The head of the chain of a policy leaves it.
LEMMA HeadLeaves ==
    ASSUME IInv, NEW p \in Policies, chain[p] # << >>, Done(p)
    PROVE  /\ chain' \in [Policies -> Seq(CallRecord)] /\ begun' \in [Policies -> BOOLEAN]
           /\ ~begun'[p] /\ Head0(p) \in CallRecord /\ Head0(p) = chain[p][1] /\ 1 \in DOMAIN chain[p]
           /\ \A q \in Policies : q # p => chain'[q] = chain[q] /\ begun'[q] = begun[q]
           /\ \A i \in Nat : IsMaintenance(p, i)' => IsMaintenance(p, i + 1) /\ i + 1 # 1
<1>1. chain \in [Policies -> Seq(CallRecord)] /\ begun \in [Policies -> BOOLEAN]
  BY DEF IInv, TypeOK, DriverTypes, ChainTypes
<1>2. chain[p] \in Seq(CallRecord)
  BY <1>1
<1>3. /\ chain'[p] = Tail(chain[p]) /\ begun'[p] = FALSE /\ begun' \in [Policies -> BOOLEAN]
      /\ \A q \in Policies : q # p => chain'[q] = chain[q] /\ begun'[q] = begun[q]
      /\ chain' = [chain EXCEPT ![p] = Tail(chain[p])]
  BY <1>1 DEF Done
<1>4. /\ Tail(chain[p]) \in Seq(CallRecord) /\ Head(chain[p]) = chain[p][1]
      /\ chain[p][1] \in CallRecord /\ 1 \in DOMAIN chain[p]
      /\ \A i \in Nat : i \in DOMAIN Tail(chain[p]) =>
           i + 1 \in DOMAIN chain[p] /\ i + 1 # 1 /\ Tail(chain[p])[i] = chain[p][i + 1]
  BY <1>2, HeadOff
<1>5. chain' \in [Policies -> Seq(CallRecord)]
  BY <1>1, <1>3, <1>4
<1>6. ASSUME NEW i \in Nat, IsMaintenance(p, i)' PROVE IsMaintenance(p, i + 1) /\ i + 1 # 1
  BY <1>3, <1>4, <1>6 DEF IsMaintenance
<1> QED BY <1>3, <1>4, <1>5, <1>6 DEF Head0

\* The chain of links advances exactly when the call of its first link leaves.
LEMMA HeadLeavesKeepsOneLink ==
    ASSUME IInv, NEW p \in Policies, chain[p] # << >>, Done(p), UNCHANGED life,
           tail' = IF Head0(p).by = "maintenance" THEN Tail(tail) ELSE tail
    PROVE  /\ OneLink' /\ tail' \in Seq(LinkRecord)
           /\ \A i \in DOMAIN tail' : \E j \in DOMAIN tail : tail'[i] = tail[j]
<1>1. tail \in Seq(LinkRecord)
  BY DEF IInv, TypeOK, ChainTypes
<1>2. CASE Head0(p).by = "maintenance"
  <2>1. IsMaintenance(p, 1)
    BY <1>2, HeadLeaves DEF IsMaintenance
  <2>2. tail # << >>
    BY <2>1 DEF IInv, OneLink
  <2>3. /\ Tail(tail) \in Seq(LinkRecord) /\ DOMAIN Tail(tail) \subseteq Nat
        /\ \A i \in Nat : i \in DOMAIN Tail(tail) =>
             i + 1 \in DOMAIN tail /\ i + 1 # 1 /\ Tail(tail)[i] = tail[i + 1]
    BY <1>1, <2>2, HeadOff
  <2>4. \A q \in Policies, i \in Nat : ~IsMaintenance(q, i)'
    <3> SUFFICES ASSUME NEW q \in Policies, NEW i \in Nat, IsMaintenance(q, i)' PROVE FALSE
      OBVIOUS
    <3>1. CASE q = p
      <4>1. IsMaintenance(p, i + 1) /\ i + 1 # 1 /\ i + 1 \in Nat
        BY <3>1, HeadLeaves
      <4> QED BY <2>1, <4>1 DEF IInv, OneLink
    <3>2. CASE q # p
      <4>1. IsMaintenance(q, i)
        BY <3>2, HeadLeaves DEF IsMaintenance
      <4> QED BY <2>1, <3>2, <4>1 DEF IInv, OneLink
    <3> QED BY <3>1, <3>2
  <2>5. tail' = Tail(tail)
    BY <1>2
  <2>6. \A i \in DOMAIN tail' : tail'[i].pc = "queued"
    <3>1. \A i \in DOMAIN tail : i # 1 => tail[i].pc = "queued"
      BY DEF IInv, OneLink
    <3> QED BY <2>3, <2>5, <3>1
  <2>7. life' \notin {"stopping host", "stopped", "starting"}
    BY <2>2 DEF IInv, OneLink
  <2>8. OneLink'
    BY <2>4, <2>6, <2>7 DEF OneLink
  <2> QED BY <2>3, <2>5, <2>8
<1>3. CASE Head0(p).by # "maintenance"
  <2>1. tail' = tail
    BY <1>3
  <2>2. \A q \in Policies, i \in Nat : IsMaintenance(q, i)' =>
          IsMaintenance(q, IF q = p THEN i + 1 ELSE i)
    BY HeadLeaves DEF IsMaintenance
  <2>3. \A q, r \in Policies, i, j \in Nat : IsMaintenance(q, i)' /\ IsMaintenance(r, j)' => q = r /\ i = j
    <3> SUFFICES ASSUME NEW q \in Policies, NEW r \in Policies, NEW i \in Nat, NEW j \in Nat,
                        IsMaintenance(q, i)', IsMaintenance(r, j)'
                 PROVE  q = r /\ i = j
      OBVIOUS
    <3> DEFINE a == IF q = p THEN i + 1 ELSE i
               b == IF r = p THEN j + 1 ELSE j
    <3>1. IsMaintenance(q, a) /\ IsMaintenance(r, b)
      BY <2>2
    <3>2. a \in Nat /\ b \in Nat
      OBVIOUS
    <3>3. q = r /\ a = b
      <4> HIDE DEF a, b
      <4> QED BY <3>1, <3>2 DEF IInv, OneLink
    <3> QED BY <3>3
  <2>4. \A q \in Policies, i \in Nat : IsMaintenance(q, i)' => tail # << >> /\ tail[1].pc = "called"
    <3> SUFFICES ASSUME NEW q \in Policies, NEW i \in Nat, IsMaintenance(q, i)'
                 PROVE  tail # << >> /\ tail[1].pc = "called"
      OBVIOUS
    <3> DEFINE a == IF q = p THEN i + 1 ELSE i
    <3>1. a \in Nat /\ IsMaintenance(q, a)
      BY <2>2
    <3> HIDE DEF a
    <3> QED BY <3>1 DEF IInv, OneLink
  <2>5. OneLink'
    BY <2>1, <2>3, <2>4 DEF IInv, OneLink
  <2> QED BY <1>1, <2>1, <2>5, Zenon
<1> QED BY <1>2, <1>3

\* _runInitialRelayAcquire adds a run and a call.
LEMMA RunAcquireTypes ==
    ASSUME IInv, NEW p \in Policies, RunAcquire(p, chain)
    PROVE  /\ runs' \in Seq(RunRecord)
           /\ \E c \in CallRecord : c.by # "maintenance" /\ chain' = [chain EXCEPT ![p] = Append(@, c)]
<1>1. runs \in Seq(RunRecord)
  BY DEF IInv, TypeOK, ChainTypes
<1>2. [pol |-> p, pc |-> "acquiring"] \in RunRecord
  BY DEF RunRecord
<1>3. Append(runs, [pol |-> p, pc |-> "acquiring"]) \in Seq(RunRecord) /\ Len(runs) + 1 \in Nat
  BY <1>1, <1>2, Appended
<1> DEFINE c == Call("run", Len(runs) + 1, "acquire", NoRelay)
<1>4. c \in CallRecord /\ c.by # "maintenance"
  BY <1>3 DEF Call, CallRecord
<1>5. runs' = Append(runs, [pol |-> p, pc |-> "acquiring"]) /\ chain' = [chain EXCEPT ![p] = Append(@, c)]
  BY DEF RunAcquire
<1> HIDE DEF c
<1> QED BY <1>3, <1>4, <1>5, Zenon

\* A policy is started only when the driver has none: by start() and by a retry.
LEMMA StartRelayPolicyKeeps ==
    ASSUME IInv, StartRelayPolicy, cur = 0, life \in {"started", "starting"}, life' = "started"
    PROVE  IInv'
<1>1. PICK p \in Policies :
        /\ pol' = [pol EXCEPT ![p] = "live"] /\ cur' = p /\ aborted' = aborted
        /\ listener' = p /\ failed' = FALSE /\ RunAcquire(p, chain)
        /\ UNCHANGED <<begun, active, timer, tail>>
  BY Zenon DEF StartRelayPolicy
<1>2. runs' \in Seq(RunRecord)
  BY <1>1, RunAcquireTypes
<1>3. PICK c \in CallRecord : c.by # "maintenance" /\ chain' = [chain EXCEPT ![p] = Append(@, c)]
  BY <1>1, RunAcquireTypes
<1>4. DriverTypes'
  BY <1>1, Zenon DEF IInv, TypeOK, DriverTypes
<1>5. ChainTypes'
  <2>1. chain' \in [Policies -> Seq(CallRecord)]
    BY <1>3, CallJoins, Zenon
  <2> QED BY <1>1, <1>2, <2>1 DEF IInv, TypeOK, ChainTypes
<1>6. Referred'
  BY <1>1, NoPolicyZero DEF IInv, TypeOK, DriverTypes, Referred, OneOwner
<1>7. \A q \in Policies : q # p => pol'[q] = pol[q] /\ chain'[q] = chain[q]
  BY <1>1, <1>3, CallJoins DEF IInv, TypeOK, DriverTypes
<1>8. pol'[p] = "live" /\ \A q \in Policies : chain[q] # << >> => chain'[q] # << >>
  BY <1>1, <1>3, CallJoins, Zenon DEF IInv, TypeOK, DriverTypes
<1>9. Born'
  <2>1. \A q \in Policies : pol[q] # "unborn" => pol'[q] # "unborn"
    BY <1>7, <1>8
  <2>2. \A i \in DOMAIN tail : tail[i].pol \in Policies
    BY LinkTyped DEF IInv, TypeOK
  <2>3. timer \in Policies \cup {0}
    BY DEF IInv, TypeOK, DriverTypes
  <2> QED BY <1>1, <1>7, <1>8, <2>1, <2>2, <2>3 DEF IInv, Born
<1>10. Turns'
  BY <1>1, <1>7, <1>8 DEF IInv, Turns
<1>11. OneLink'
  BY <1>1, <1>3, CallJoinsKeepsOneLink, Zenon
<1>12. DriverDown'
  BY DEF DriverDown
<1> QED BY <1>4, <1>5, <1>6, <1>9, <1>10, <1>11, <1>12 DEF IInv, TypeOK

\* A call of the current policy that changes nothing else.
LEMMA CurrentCalled ==
    ASSUME IInv, cur # 0, NEW c \in CallRecord, c.by # "maintenance",
           chain' = [chain EXCEPT ![cur] = Append(@, c)], runs' \in Seq(RunRecord),
           UNCHANGED <<life, stopWaits, pol, begun, active, aborted, cur, failed, watch, timer,
                       tail, listener, warm, warmTimer>>
    PROVE  IInv'
<1>1. cur \in Policies /\ pol[cur] # "unborn"
  BY DEF IInv, TypeOK, DriverTypes, Referred
<1>2. PICK p \in Policies : p = cur
  BY <1>1
<1>3. chain' = [chain EXCEPT ![p] = Append(@, c)]
  BY <1>2
<1>4. /\ chain' \in [Policies -> Seq(CallRecord)]
      /\ \A q \in Policies : chain[q] # << >> => chain'[q] # << >>
      /\ \A q \in Policies : q # p => chain'[q] = chain[q]
  BY <1>3, CallJoins, Zenon
<1>5. TypeOK'
  BY <1>4 DEF IInv, TypeOK, DriverTypes, ChainTypes
<1>6. Referred' /\ DriverDown'
  BY SameDriver DEF IInv
<1>7. Born'
  BY <1>1, <1>2, <1>4 DEF IInv, Born
<1>8. Turns'
  BY <1>4 DEF IInv, Turns
<1>9. OneLink'
  BY <1>3, CallJoinsKeepsOneLink, Zenon
<1> QED BY <1>5, <1>6, <1>7, <1>8, <1>9 DEF IInv

\* retryRelayPolicyAcquisition rebuilds a policy only after one was torn down.
LEMMA RetryKeeps ==
    ASSUME IInv, RetryResume
    PROVE  IInv'
<1>1. UNCHANGED <<life, stopWaits>>
  BY DEF RetryResume, host
<1>2. CASE UNCHANGED <<policies, cur, failed, last, runs, acq, maintenance>>
  BY <1>1, <1>2, LifeKeeps DEF policies, maintenance
<1>3. CASE cur = 0 /\ failed /\ StartRelayPolicy
  <2>1. life = "started"
    BY <1>3 DEF IInv, DriverDown
  <2> QED BY <1>1, <1>3, <2>1, StartRelayPolicyKeeps
<1>4. CASE cur # 0 /\ RunAcquire(cur, chain) /\ UNCHANGED <<pol, begun, active, aborted, cur, failed, last, maintenance>>
  <2>1. PICK p \in Policies : p = cur
    BY <1>4 DEF IInv, TypeOK, DriverTypes
  <2>2. runs' \in Seq(RunRecord) /\ \E c \in CallRecord : c.by # "maintenance" /\ chain' = [chain EXCEPT ![p] = Append(@, c)]
    BY <1>4, <2>1, RunAcquireTypes
  <2>3. PICK c \in CallRecord : c.by # "maintenance" /\ chain' = [chain EXCEPT ![cur] = Append(@, c)]
    BY <2>1, <2>2, Zenon
  <2> QED BY <1>1, <1>4, <2>2, <2>3, CurrentCalled, Zenon DEF maintenance
<1> QED BY <1>2, <1>3, <1>4 DEF RetryResume

\* start() builds a policy when there is none.
LEMMA HostBuiltKeeps ==
    ASSUME IInv, HostBuilt
    PROVE  IInv'
<1>1. life = "starting" /\ life' = "started" /\ StartRelayPolicy
  BY DEF HostBuilt
<1>2. cur = 0
  BY <1>1 DEF IInv, DriverDown
<1> QED BY <1>1, <1>2, StartRelayPolicyKeeps

\* replaceRelay calls the current policy.
LEMMA ReplaceRelayKeeps ==
    ASSUME IInv, NEW kind \in {"acquire", "replace"}, NEW r \in Relay \cup {NoRelay}, ReplaceRelay(kind, r)
    PROVE  IInv'
<1> DEFINE c == Call("coordinator", 0, kind, r)
<1>1. c \in CallRecord /\ c.by # "maintenance"
  BY DEF Call, CallRecord
<1>2. cur # 0 /\ chain' = [chain EXCEPT ![cur] = Append(@, c)]
      /\ UNCHANGED <<life, stopWaits, pol, begun, active, aborted, cur, failed, runs, watch, timer,
                     tail, listener, warm, warmTimer>>
  BY DEF ReplaceRelay, host, driver, maintenance
<1>3. runs' \in Seq(RunRecord)
  BY <1>2 DEF IInv, TypeOK, ChainTypes
<1> HIDE DEF c
<1> QED BY <1>1, <1>2, <1>3, CurrentCalled, Zenon

\* Timers and events that only park a retry, arm the warm timer or close a connection.
LEMMA WarmKeeps ==
    ASSUME IInv, Identify \/ WarmFires \/ RetryCall
    PROVE  IInv'
<1>1. /\ UNCHANGED <<life, stopWaits, pol, chain, begun, active, aborted, cur, failed, runs, watch,
                     timer, tail, listener, warm>>
      /\ warmTimer' \in {warmTimer, warm, 0} /\ (warm # 0 \/ warmTimer' \in {0, warmTimer})
  BY DEF Identify, WarmFires, RetryCall, host, policies, driver, maintenance
<1>2. TypeOK'
  BY <1>1 DEF IInv, TypeOK, DriverTypes, ChainTypes
<1>3. Referred' /\ DriverDown'
  BY <1>1 DEF IInv, Referred, OneOwner, DriverDown
<1>4. Born' /\ Turns'
  BY <1>1, SameBorn, SameTurns DEF IInv
<1>5. OneLink'
  BY <1>1, SameLinks DEF IInv
<1> QED BY <1>2, <1>3, <1>4, <1>5 DEF IInv

\* A link joins the maintenance chain, behind the one whose call is out.
LEMMA LinkJoins ==
    ASSUME IInv, NEW kind \in {"replace", "refresh"}, NEW p \in Policies, NEW r \in Relay \cup {NoRelay},
           pol[p] # "unborn", Queue(kind, p, r), life = "started", UNCHANGED <<life, chain, pol>>,
           listener' \in {listener, 0}, timer' \in {timer, 0}
    PROVE  tail' \in Seq(LinkRecord) /\ Born' /\ OneLink'
<1> DEFINE m == [kind |-> kind, pol |-> p, ctl |-> cur, relay |-> r, pc |-> "queued"]
<1>1. tail \in Seq(LinkRecord)
  BY DEF IInv, TypeOK, ChainTypes
<1>2. m \in LinkRecord /\ m.pol = p /\ m.pc = "queued"
  BY DEF LinkRecord, IInv, TypeOK, DriverTypes
<1>3. tail' = Append(tail, m)
  BY DEF Queue
<1> HIDE DEF m
<1>4. /\ tail' \in Seq(LinkRecord) /\ tail' # << >>
      /\ \A i \in Nat : i \in DOMAIN tail' <=> i \in DOMAIN tail \/ i = Len(tail) + 1
      /\ \A i \in DOMAIN tail : tail'[i] = tail[i]
      /\ tail'[Len(tail) + 1] = m
      /\ tail # << >> => 1 \in DOMAIN tail
  BY <1>1, <1>2, <1>3, Appended
<1>5. DOMAIN tail' \subseteq Nat
  BY <1>4
<1>6. Born'
  BY <1>2, <1>4, <1>5 DEF IInv, Born
<1>7. OneLink'
  BY <1>2, <1>4, <1>5 DEF IInv, OneLink, IsMaintenance
<1> QED BY <1>4, <1>6, <1>7

\* peer:disconnect queues a replacement for the policy of the listener.
LEMMA DisconnectKeeps ==
    ASSUME IInv, NEW r \in Relay, Disconnect(r)
    PROVE  IInv'
<1>1. UNCHANGED <<life, stopWaits, pol, chain, begun, active, aborted, cur, failed, runs, timer,
                  listener, warm, warmTimer>>
  BY DEF Disconnect, host, policies, driver
<1>2. CASE listener # 0 /\ r \in watch
  <2>1. watch' = watch \ {r} /\ Queue("replace", listener, r)
    BY <1>2 DEF Disconnect
  <2>2. life = "started" /\ listener \in Policies /\ pol[listener] # "unborn"
    BY <1>2 DEF IInv, DriverDown, TypeOK, DriverTypes, Born
  <2>3. PICK p \in Policies : p = listener
    BY <2>2
  <2>4. tail' \in Seq(LinkRecord) /\ Born' /\ OneLink'
    BY <1>1, <2>1, <2>2, <2>3, LinkJoins
  <2>5. TypeOK'
    BY <1>1, <2>4 DEF IInv, TypeOK, DriverTypes, ChainTypes
  <2>6. Referred' /\ DriverDown'
    BY <1>1, <2>2 DEF IInv, Referred, OneOwner, DriverDown
  <2>7. Turns'
    BY <1>1, SameTurns DEF IInv
  <2> QED BY <2>4, <2>5, <2>6, <2>7 DEF IInv
<1>3. CASE ~(listener # 0 /\ r \in watch)
  <2>1. UNCHANGED <<watch, tail>>
    BY <1>3 DEF Disconnect
  <2> QED BY <1>1, <2>1, LifeKeeps
<1> QED BY <1>2, <1>3

\* The refresh timer queues a refresh for the policy it was armed for.
LEMMA RefreshKeeps ==
    ASSUME IInv, RefreshFires
    PROVE  IInv'
<1>1. /\ timer # 0 /\ timer' = 0 /\ Queue("refresh", timer, NoRelay)
      /\ UNCHANGED <<life, stopWaits, pol, chain, begun, active, aborted, cur, failed, runs, watch,
                     listener, warm, warmTimer>>
  BY DEF RefreshFires, host, policies, driver
<1>2. life = "started" /\ timer \in Policies /\ pol[timer] # "unborn"
  BY <1>1 DEF IInv, DriverDown, TypeOK, DriverTypes, Born
<1>3. PICK p \in Policies : p = timer
  BY <1>2
<1>4. tail' \in Seq(LinkRecord) /\ Born' /\ OneLink'
  BY <1>1, <1>2, <1>3, LinkJoins
<1>5. TypeOK'
  BY <1>1, <1>4 DEF IInv, TypeOK, DriverTypes, ChainTypes
<1>6. Referred' /\ DriverDown'
  BY <1>1, <1>2 DEF IInv, Referred, OneOwner, DriverDown
<1>7. Turns'
  BY <1>1, SameTurns DEF IInv
<1> QED BY <1>4, <1>5, <1>6, <1>7 DEF IInv

\* The first link is skipped, or makes the one call that is out.
LEMMA MaintenanceStepKeeps ==
    ASSUME IInv, MaintenanceStep
    PROVE  IInv'
<1> DEFINE m == Head(tail)
<1>1. /\ tail # << >> /\ m.pc = "queued"
      /\ UNCHANGED <<life, stopWaits, pol, begun, active, aborted, cur, failed, runs, watch, timer,
                     listener, warm, warmTimer>>
      /\ \/ tail' = Tail(tail) /\ UNCHANGED chain
         \/ /\ tail' = [tail EXCEPT ![1].pc = "called"]
            /\ chain' = [chain EXCEPT ![m.pol] = Append(@, Call("maintenance", 0, m.kind, m.relay))]
  BY DEF MaintenanceStep, host, driver
<1>2. tail \in Seq(LinkRecord)
  BY DEF IInv, TypeOK, ChainTypes
<1>3. /\ Tail(tail) \in Seq(LinkRecord) /\ m = tail[1] /\ tail[1] \in LinkRecord /\ 1 \in DOMAIN tail
      /\ \A i \in Nat : i \in DOMAIN Tail(tail) => i + 1 \in DOMAIN tail /\ i + 1 # 1 /\ Tail(tail)[i] = tail[i + 1]
      /\ DOMAIN Tail(tail) \subseteq Nat
  BY <1>1, <1>2, HeadOff
<1>4. \A q \in Policies, i \in Nat : ~IsMaintenance(q, i)
  BY <1>1, <1>3 DEF IInv, OneLink
<1>5. Referred' /\ DriverDown'
  BY <1>1, SameDriver DEF IInv
<1>6. life \notin {"stopping host", "stopped", "starting"}
  BY <1>1 DEF IInv, OneLink
<1>7. CASE tail' = Tail(tail) /\ UNCHANGED chain
  <2>1. TypeOK'
    BY <1>1, <1>3, <1>7 DEF IInv, TypeOK, DriverTypes, ChainTypes
  <2>2. Turns'
    BY <1>1, <1>7, SameTurns DEF IInv
  <2>3. Born'
    BY <1>1, <1>3, <1>7 DEF IInv, Born
  <2>4. \A q \in Policies, i \in Nat : ~IsMaintenance(q, i)'
    BY <1>4, <1>7 DEF IsMaintenance
  <2>5. \A i \in DOMAIN tail' : tail'[i].pc = "queued"
    <3>1. \A i \in DOMAIN tail : i # 1 => tail[i].pc = "queued"
      BY DEF IInv, OneLink
    <3> QED BY <1>3, <1>7, <3>1
  <2>6. OneLink'
    BY <1>1, <1>6, <2>4, <2>5 DEF OneLink
  <2> QED BY <1>5, <2>1, <2>2, <2>3, <2>6 DEF IInv
<1>8. CASE /\ tail' = [tail EXCEPT ![1].pc = "called"]
           /\ chain' = [chain EXCEPT ![m.pol] = Append(@, Call("maintenance", 0, m.kind, m.relay))]
  <2>1. PICK p \in Policies : p = m.pol
    BY <1>3 DEF LinkRecord
  <2>2. PICK c \in CallRecord : c = Call("maintenance", 0, m.kind, m.relay)
    BY <1>3, Zenon DEF LinkRecord, Call, CallRecord
  <2>3. chain' = [chain EXCEPT ![p] = Append(@, c)]
    BY <1>8, <2>1, <2>2
  <2>4. /\ chain' \in [Policies -> Seq(CallRecord)]
        /\ \A q \in Policies : chain[q] # << >> => chain'[q] # << >>
        /\ \A q \in Policies : q # p => chain'[q] = chain[q]
        /\ \A q \in Policies, i \in Nat : IsMaintenance(q, i)' => q = p /\ i = Len(chain[p]) + 1
    BY <1>4, <2>3, CallJoins, Zenon
  <2>5. [tail[1] EXCEPT !.pc = "called"] \in LinkRecord
        /\ [tail[1] EXCEPT !.pc = "called"].pc = "called" /\ [tail[1] EXCEPT !.pc = "called"].pol = tail[1].pol
    BY <1>3 DEF LinkRecord
  <2>6. /\ tail' \in Seq(LinkRecord) /\ DOMAIN tail' = DOMAIN tail /\ tail'[1].pc = "called"
        /\ \A i \in DOMAIN tail : tail'[i].pol = tail[i].pol /\ (i # 1 => tail'[i] = tail[i])
    <3>1. PICK e \in LinkRecord : e = [tail[1] EXCEPT !.pc = "called"]
      BY <2>5
    <3>2. tail' = [tail EXCEPT ![1] = e] /\ e.pc = "called" /\ e.pol = tail[1].pol
      BY <1>8, <2>5, <3>1
    <3>3. DOMAIN tail' = DOMAIN tail /\ tail'[1] = e /\ \A i \in DOMAIN tail : i # 1 => tail'[i] = tail[i]
      BY <1>2, <1>3, <3>2
    <3>4. tail' \in Seq(LinkRecord)
      BY <1>2, <1>3, <3>2
    <3> QED BY <3>2, <3>3, <3>4
  <2>7. tail' # << >>
    <3>1. 1 \in DOMAIN tail' /\ DOMAIN << >> = {}
      BY <1>3, <2>6
    <3> QED BY <3>1, Zenon
  <2>8. TypeOK'
    BY <1>1, <2>4, <2>6 DEF IInv, TypeOK, DriverTypes, ChainTypes
  <2>9. pol[p] # "unborn"
    BY <1>3, <2>1 DEF IInv, Born
  <2>10. Born'
    BY <1>1, <2>4, <2>6, <2>9 DEF IInv, Born
  <2>11. Turns'
    BY <1>1, <2>4 DEF IInv, Turns
  <2>12. OneLink'
    <3>1. \A i \in DOMAIN tail' : i # 1 => tail'[i].pc = "queued"
      BY <2>6 DEF IInv, OneLink
    <3>2. \A q, r \in Policies, i, j \in Nat : IsMaintenance(q, i)' /\ IsMaintenance(r, j)' => q = r /\ i = j
      BY <2>4
    <3>3. \A q \in Policies, i \in Nat : IsMaintenance(q, i)' => tail' # << >> /\ tail'[1].pc = "called"
      BY <2>6, <2>7
    <3>4. life' \notin {"stopping host", "stopped", "starting"}
      BY <1>1, <1>6
    <3> QED BY <3>1, <3>2, <3>3, <3>4 DEF OneLink
  <2> QED BY <1>5, <2>8, <2>10, <2>11, <2>12 DEF IInv
<1> QED BY <1>1, <1>7, <1>8

\* An operation gets its turn on a live policy, or reserves while it runs.
LEMMA OperationKeeps ==
    ASSUME IInv, NEW p \in Policies, OpBegin(p) \/ \E r \in Relay : OpReserve(p, r)
    PROVE  IInv'
<1>1. UNCHANGED <<life, stopWaits, pol, chain, aborted, cur, failed, runs, watch, timer,
                  tail, listener, warm, warmTimer>>
  BY Zenon DEF OpBegin, OpReserve, host, driver, maintenance
<1>2. pol[p] \in {"live", "stopping"} /\ chain[p] # << >>
  BY Zenon DEF OpBegin, OpReserve, IInv, Turns
<1>3. begun' \in [Policies -> BOOLEAN] /\ \A q \in Policies : q # p => begun'[q] = begun[q]
  BY Zenon DEF OpBegin, OpReserve, IInv, TypeOK, DriverTypes
<1>4. active' \in [Policies -> SUBSET Relay] /\ \A q \in Policies : q # p => active'[q] = active[q]
  <2>1. active \in [Policies -> SUBSET Relay]
    BY DEF IInv, TypeOK, DriverTypes
  <2>2. CASE \E r \in Relay : OpReserve(p, r)
    BY <2>1, <2>2 DEF OpReserve
  <2>3. CASE OpBegin(p)
    <3>1. Head0(p) \in CallRecord
      <4>1. chain[p] \in Seq(CallRecord)
        BY DEF IInv, TypeOK, ChainTypes
      <4> QED BY <1>2, <4>1, HeadOff DEF Head0
    <3>2. Head0(p).kind \in {"acquire", "replace", "refresh"}
      BY <3>1 DEF CallRecord
    <3>3. CASE Head0(p).kind = "acquire"
      BY <2>1, <2>3, <3>3 DEF OpBegin
    <3>4. CASE Head0(p).kind = "replace"
      BY <2>1, <2>3, <3>4 DEF OpBegin
    <3>5. CASE Head0(p).kind = "refresh"
      BY <2>1, <2>3, <3>5 DEF OpBegin
    <3> QED BY <3>2, <3>3, <3>4, <3>5
  <2> QED BY <2>2, <2>3
<1>5. TypeOK'
  BY <1>1, <1>3, <1>4 DEF IInv, TypeOK, DriverTypes, ChainTypes
<1>6. Referred' /\ DriverDown'
  BY <1>1, SameDriver DEF IInv
<1>7. Born'
  BY <1>1, SameBorn DEF IInv
<1>8. Turns'
  BY <1>1, <1>2, <1>3, <1>4 DEF IInv, Turns
<1>9. OneLink'
  BY <1>1, SameLinks DEF IInv
<1> QED BY <1>5, <1>6, <1>7, <1>8, <1>9 DEF IInv

\* policy.stop() settles when the chain is empty, and holds nothing then.
LEMMA PolicyStoppedKeeps ==
    ASSUME IInv, NEW p \in Policies, PolicyStopped(p)
    PROVE  IInv'
<1>1. /\ pol[p] = "stopping" /\ chain[p] = << >> /\ pol' = [pol EXCEPT ![p] = "stopped"]
      /\ active' = [active EXCEPT ![p] = {}]
      /\ UNCHANGED <<life, stopWaits, chain, begun, aborted, cur, failed, runs, watch, timer,
                     tail, listener, warm, warmTimer>>
  BY DEF PolicyStopped, host, driver, maintenance
<1>2. /\ pol'[p] = "stopped" /\ active'[p] = {} /\ ~begun[p]
      /\ \A q \in Policies : q # p => pol'[q] = pol[q] /\ active'[q] = active[q]
  BY <1>1 DEF IInv, TypeOK, DriverTypes, Turns
<1>3. DriverTypes'
  BY <1>1 DEF IInv, TypeOK, DriverTypes
<1>4. ChainTypes'
  BY <1>1 DEF IInv, TypeOK, ChainTypes
<1>5. Referred'
  <2>1. OneOwner'
    BY <1>1, <1>2 DEF IInv, Referred, OneOwner
  <2>2. cur' # 0 => pol'[cur'] # "unborn"
    BY <1>1, <1>2 DEF IInv, TypeOK, DriverTypes, Referred
  <2>3. ASSUME NEW q \in Policies
        PROVE  /\ pol'[q] = "stopping" => q = cur' \/ (life' = "stopping policy" /\ q = stopWaits')
               /\ pol'[q] \in {"stopping", "stopped"} => q \in aborted'
               /\ pol'[q] # "unborn" /\ q # cur' => q \in aborted'
    BY <1>1, <1>2 DEF IInv, Referred
  <2> QED BY <2>1, <2>2, <2>3 DEF Referred
<1>6. DriverDown'
  BY <1>1 DEF IInv, DriverDown
<1>7. Born'
  <2>1. \A q \in Policies : pol[q] # "unborn" => pol'[q] # "unborn"
    BY <1>2
  <2>2. \A i \in DOMAIN tail : tail[i].pol \in Policies
    BY LinkTyped DEF IInv, TypeOK
  <2>3. timer \in Policies \cup {0} /\ listener \in Policies \cup {0}
    BY DEF IInv, TypeOK, DriverTypes
  <2> QED BY <1>1, <2>1, <2>2, <2>3 DEF IInv, Born
<1>8. Turns'
  BY <1>1, <1>2, SMTT(30) DEF IInv, Turns
<1>9. OneLink'
  BY <1>1, SameLinks DEF IInv
<1> QED BY <1>3, <1>4, <1>5, <1>6, <1>7, <1>8, <1>9 DEF IInv, TypeOK

\* Ending a run keeps the type of the runs.
LEMMA RunEndsTyped ==
    ASSUME IInv, NEW i \in Nat, NEW pc \in {"tearing", "done"}, RunEnds(i, pc)
    PROVE  runs' \in Seq(RunRecord)
<1>1. runs \in Seq(RunRecord)
  BY DEF IInv, TypeOK, ChainTypes
<1>2. CASE i \in DOMAIN runs
  <2>1. [runs[i] EXCEPT !.pc = pc] \in RunRecord
    <3>1. runs[i] \in RunRecord
      BY <1>1, <1>2
    <3> QED BY <3>1 DEF RunRecord
  <2> QED BY <1>1, <1>2, <2>1 DEF RunEnds
<1>3. CASE i \notin DOMAIN runs
  <2>1. runs' = runs
    BY <1>1, <1>3, SMTT(30) DEF RunEnds
  <2> QED BY <1>1, <2>1
<1> QED BY <1>2, <1>3

\* An operation leaves the chain with the policies as they are: the caller looks at the
\* result only when its policy is still the current one.
Leaves(p) ==
    /\ chain[p] # << >> /\ Done(p)
    /\ tail' = (IF Head0(p).by = "maintenance" THEN Tail(tail) ELSE tail)
    /\ runs' \in Seq(RunRecord)
    /\ UNCHANGED <<life, stopWaits, pol, active, aborted, cur, listener, warm, warmTimer>>
    /\ failed' \in BOOLEAN /\ timer' \in {timer, 0, p}
    /\ cur # p => UNCHANGED <<timer, watch>> /\ (failed' => failed)

\* Leaving the chain in this way keeps the invariant.
LEMMA LeavingKeeps ==
    ASSUME IInv, NEW p \in Policies, Leaves(p)
    PROVE  IInv'
<1>1. chain[p] # << >> /\ Done(p) /\ UNCHANGED <<life, stopWaits, pol, active, aborted, cur, listener, warm, warmTimer>>
  BY SMTT(30) DEF Leaves
<1>2. /\ chain' \in [Policies -> Seq(CallRecord)] /\ begun' \in [Policies -> BOOLEAN] /\ ~begun'[p]
      /\ \A q \in Policies : q # p => chain'[q] = chain[q] /\ begun'[q] = begun[q]
  BY <1>1, HeadLeaves
<1>3. tail' = (IF Head0(p).by = "maintenance" THEN Tail(tail) ELSE tail) /\ runs' \in Seq(RunRecord)
  BY DEF Leaves
<1>4. /\ OneLink' /\ tail' \in Seq(LinkRecord)
      /\ \A i \in DOMAIN tail' : \E j \in DOMAIN tail : tail'[i] = tail[j]
  BY <1>1, <1>3, HeadLeavesKeepsOneLink
<1>5. /\ failed' \in BOOLEAN /\ timer' \in {timer, 0, p}
      /\ cur # p => UNCHANGED <<timer, watch>> /\ (failed' => failed)
  BY DEF Leaves
<1>6. DriverTypes'
  BY <1>1, <1>2, <1>5, SMTT(30) DEF IInv, TypeOK, DriverTypes
<1>7. ChainTypes'
  BY <1>2, <1>3, <1>4, SMTT(30) DEF ChainTypes
<1>8. Referred'
  BY <1>1 DEF IInv, Referred, OneOwner
<1>9. DriverDown'
  BY <1>1, <1>5, NoPolicyZero DEF IInv, DriverDown
<1>10. pol[p] # "unborn"
  BY <1>1 DEF IInv, Born
<1>11. Born'
  <2>1. \A q \in Policies : chain'[q] # << >> => pol'[q] # "unborn"
    BY <1>1, <1>2, <1>10 DEF IInv, Born
  <2>2. \A i \in DOMAIN tail' : pol'[tail'[i].pol] # "unborn"
    BY <1>1, <1>4 DEF IInv, Born
  <2>3. (listener' # 0 => pol'[listener'] # "unborn") /\ (timer' # 0 => pol'[timer'] # "unborn")
    BY <1>1, <1>5, <1>10 DEF IInv, Born
  <2> QED BY <2>1, <2>2, <2>3 DEF Born
<1>12. Turns'
  BY <1>1, <1>2, SMTT(20) DEF IInv, Turns
<1> QED BY <1>4, <1>6, <1>7, <1>8, <1>9, <1>11, <1>12 DEF IInv, TypeOK

\* An operation returns, to a run, to the maintenance chain or to the coordinator.
LEMMA OpReturnKeeps ==
    ASSUME IInv, NEW p \in Policies, OpReturn(p)
    PROVE  IInv'
<1>1. /\ chain[p] # << >> /\ Done(p)
      /\ UNCHANGED <<life, stopWaits, pol, active, aborted, cur, listener, warm, warmTimer>>
  BY DEF OpReturn, host, IInv, Turns
<1>2. Head0(p) \in CallRecord
  BY <1>1, HeadLeaves
<1>3. Head0(p).by \in {"run", "maintenance", "coordinator"} /\ Head0(p).id \in Nat
  BY <1>2 DEF CallRecord
<1>4. runs \in Seq(RunRecord) /\ failed \in BOOLEAN
  BY DEF IInv, TypeOK, DriverTypes, ChainTypes
<1>5. ASSUME HandleRelayPolicyResult(p)
      PROVE  /\ failed' \in BOOLEAN /\ timer' \in {timer, 0, p}
             /\ cur # p => UNCHANGED <<timer, watch>> /\ (failed' => failed)
  BY <1>4, <1>5, Zenon DEF HandleRelayPolicyResult, Stale
<1>6. CASE Head0(p).by = "run"
  <2>1. RunEnds(Head0(p).id, "done") /\ HandleRelayPolicyResult(p) /\ UNCHANGED tail
    BY <1>6 DEF OpReturn
  <2>2. runs' \in Seq(RunRecord)
    BY <1>3, <2>1, RunEndsTyped
  <2>3. tail' = (IF Head0(p).by = "maintenance" THEN Tail(tail) ELSE tail)
    BY <1>6, <2>1, SMTT(30)
  <2> QED BY <1>1, <1>5, <2>1, <2>2, <2>3, LeavingKeeps, Zenon DEF Leaves
<1>7. CASE Head0(p).by = "maintenance"
  <2>1. tail' = Tail(tail) /\ HandleRelayPolicyResult(p) /\ UNCHANGED runs
    BY <1>7 DEF OpReturn
  <2>2. tail' = (IF Head0(p).by = "maintenance" THEN Tail(tail) ELSE tail) /\ runs' \in Seq(RunRecord)
    BY <1>4, <1>7, <2>1, SMTT(30)
  <2> QED BY <1>1, <1>5, <2>1, <2>2, LeavingKeeps, Zenon DEF Leaves
<1>8. CASE Head0(p).by = "coordinator"
  <2>1. UNCHANGED <<runs, tail, watch, failed, timer>>
    BY <1>8 DEF OpReturn
  <2>2. tail' = (IF Head0(p).by = "maintenance" THEN Tail(tail) ELSE tail) /\ runs' \in Seq(RunRecord)
    BY <1>4, <1>8, <2>1
  <2> QED BY <1>1, <1>4, <2>1, <2>2, LeavingKeeps, Zenon DEF Leaves
<1> QED BY <1>3, <1>6, <1>7, <1>8

\* An operation throws: a run whose policy is current tears it down, which is the only
\* way a policy other than by stop() of the node comes to be stopped.
LEMMA OpThrowKeeps ==
    ASSUME IInv, NEW p \in Policies, OpThrow(p)
    PROVE  IInv'
<1>1. chain[p] # << >> /\ Done(p) /\ UNCHANGED <<life, stopWaits, active, cur>>
  BY SMTT(30) DEF OpThrow, host
<1>2. Head0(p) \in CallRecord
  BY <1>1, HeadLeaves
<1>3. Head0(p).by \in {"run", "maintenance", "coordinator"} /\ Head0(p).id \in Nat
  BY <1>2 DEF CallRecord
<1>4. runs \in Seq(RunRecord) /\ failed \in BOOLEAN
  BY DEF IInv, TypeOK, DriverTypes, ChainTypes
<1>5. CASE Head0(p).by = "run" /\ ~Stale(p)
  <2>1. RunEnds(Head0(p).id, "tearing") /\ Teardown(p) /\ UNCHANGED tail
    BY <1>5 DEF OpThrow
  <2>2. /\ failed' = TRUE /\ aborted' = aborted \cup {p} /\ pol' = [pol EXCEPT ![p] = "stopping"]
        /\ timer' = 0 /\ watch' = {} /\ listener' = 0 /\ warmTimer' = 0 /\ warm' = 0
        /\ cur = p /\ cur' = cur
    BY <1>1, <1>5, <2>1 DEF Teardown, ClearRelayMaintenance, Stale
  <2>3. runs' \in Seq(RunRecord)
    BY <1>3, <2>1, RunEndsTyped
  <2>4. tail' = (IF Head0(p).by = "maintenance" THEN Tail(tail) ELSE tail)
    BY <1>5, <2>1, SMTT(30)
  <2>5. OneLink' /\ tail' = tail
    BY <1>1, <2>1, <2>4, HeadLeavesKeepsOneLink, Zenon
  <2>6. /\ chain' \in [Policies -> Seq(CallRecord)] /\ begun' \in [Policies -> BOOLEAN] /\ ~begun'[p]
        /\ \A q \in Policies : q # p => chain'[q] = chain[q] /\ begun'[q] = begun[q]
    BY <1>1, HeadLeaves
  <2>7. life = "started" /\ life' = "started"
    BY <1>1, <2>2, NoPolicyZero DEF IInv, DriverDown
  <2>8. pol'[p] = "stopping" /\ \A q \in Policies : q # p => pol'[q] = pol[q]
    BY <2>2 DEF IInv, TypeOK, DriverTypes
  <2>9. DriverTypes'
    BY <1>1, <2>2, <2>6, ZenonT(60) DEF IInv, TypeOK, DriverTypes
  <2>10. ChainTypes'
    BY <2>3, <2>5, <2>6, SMTT(30) DEF IInv, TypeOK, ChainTypes
  <2>11. Referred'
    BY <1>1, <2>2, <2>7, <2>8 DEF IInv, Referred, OneOwner
  <2>12. DriverDown'
    BY <2>7 DEF DriverDown
  <2>13. Born'
    <3>1. \A q \in Policies : pol[q] # "unborn" => pol'[q] # "unborn"
      BY <2>8, SMTT(30)
    <3>2. \A i \in DOMAIN tail : tail[i].pol \in Policies
      BY LinkTyped DEF IInv, TypeOK
    <3>3. \A q \in Policies : chain'[q] # << >> => pol'[q] # "unborn"
      BY <2>6, <2>8, SMTT(30) DEF IInv, Born
    <3> QED BY <2>2, <2>5, <3>1, <3>2, <3>3, Zenon DEF IInv, Born
  <2>14. Turns'
    BY <1>1, <2>6, <2>8, SMTT(20) DEF IInv, Turns
  <2> QED BY <2>5, <2>9, <2>10, <2>11, <2>12, <2>13, <2>14 DEF IInv, TypeOK
<1>6. CASE Head0(p).by = "run" /\ Stale(p)
  <2>1. /\ RunEnds(Head0(p).id, "done")
        /\ UNCHANGED <<pol, aborted, failed, watch, timer, tail, listener, warm, warmTimer>>
    BY <1>6 DEF OpThrow, maintenance
  <2>2. runs' \in Seq(RunRecord)
    BY <1>3, <2>1, RunEndsTyped
  <2>3. tail' = (IF Head0(p).by = "maintenance" THEN Tail(tail) ELSE tail)
    BY <1>6, <2>1
  <2> QED BY <1>1, <1>4, <2>1, <2>2, <2>3, LeavingKeeps, Zenon DEF Leaves
<1>7. CASE Head0(p).by = "maintenance"
  <2>1. /\ tail' = Tail(tail) /\ failed' = (failed \/ p \notin aborted)
        /\ UNCHANGED <<pol, aborted, runs, watch, timer, listener, warm, warmTimer>>
    BY <1>7 DEF OpThrow
  <2>2. tail' = (IF Head0(p).by = "maintenance" THEN Tail(tail) ELSE tail) /\ runs' \in Seq(RunRecord)
    BY <1>4, <1>7, <2>1
  <2>3. cur # p => p \in aborted
    BY <1>1 DEF IInv, Referred, Born
  <2>4. failed' \in BOOLEAN /\ (cur # p => (failed' => failed))
    BY <2>1, <2>3, Zenon
  <2> QED BY <1>1, <2>1, <2>2, <2>4, LeavingKeeps DEF Leaves
<1>8. CASE Head0(p).by = "coordinator"
  <2>1. UNCHANGED <<pol, aborted, runs, failed, watch, timer, tail, listener, warm, warmTimer>>
    BY <1>8 DEF OpThrow, maintenance
  <2>2. tail' = (IF Head0(p).by = "maintenance" THEN Tail(tail) ELSE tail) /\ runs' \in Seq(RunRecord)
    BY <1>4, <1>8, <2>1
  <2> QED BY <1>1, <1>4, <2>1, <2>2, LeavingKeeps, Zenon DEF Leaves
<1> QED BY <1>3, <1>5, <1>6, <1>7, <1>8

\* The relay driver keeps its inductive invariant through every start(), stop(), retry,
\* disconnect, timer and operation (network/src/node.ts).
THEOREM DriverInvariant == Spec => []IInv
<1>1. ASSUME IInv, [Next]_vars PROVE IInv'
  <2>1. CASE UNCHANGED vars
    BY <1>1, <2>1, LifeKeeps DEF vars, host, policies, driver, maintenance
  <2>2. CASE StartCall \/ HostFails \/ Stopping
    BY <1>1, <2>2, HostKeeps DEF Stopping
  <2>3. CASE HostBuilt \/ StopCall \/ \E i \in DOMAIN runs : TeardownEnds(i)
    BY <1>1, <2>3, HostBuiltKeeps, StopCallKeeps, TeardownEndsKeeps
  <2>4. CASE Operations
    BY <1>1, <2>4, OperationKeeps, OpReturnKeeps, OpThrowKeeps, PolicyStoppedKeeps DEF Operations
  <2>5. CASE Timers
    BY <1>1, <2>5, RefreshKeeps, WarmKeeps, MaintenanceStepKeeps, RetryKeeps DEF Timers
  <2>6. CASE Environment
    BY <1>1, <2>6, DisconnectKeeps, ReplaceRelayKeeps, WarmKeeps DEF Environment
  <2> QED BY <1>1, <2>1, <2>2, <2>3, <2>4, <2>5, <2>6 DEF Next
<1> QED BY <1>1, InitEstablishes, PTL DEF Spec

\* A policy that was not told to stop is the one the node refers to, and once stop() has
\* resolved no policy, reservation, timer, listener or queued maintenance is left
\* (_runInitialRelayAcquire, _clearRelayMaintenance, stop of network/src/node.ts).
THEOREM AlwaysLivePolicyOwned == Spec => []LivePolicyOwned
<1>1. IInv => OneOwner
  BY DEF IInv, Referred
<1>2. IInv => QuietWhenStopped
  <2> SUFFICES ASSUME IInv, life \in {"stopped", "starting"}
               PROVE  /\ cur = 0 /\ timer = 0 /\ warmTimer = 0 /\ listener = 0 /\ warm = 0
                      /\ tail = << >> /\ watch = {}
                      /\ \A p \in Policies : pol[p] \in {"unborn", "stopped"} /\ active[p] = {}
    BY DEF QuietWhenStopped
  <2>1. cur = 0 /\ timer = 0 /\ warmTimer = 0 /\ listener = 0 /\ warm = 0 /\ watch = {}
    BY DEF IInv, DriverDown
  <2>2. tail = << >>
    BY DEF IInv, OneLink
  <2>3. \A p \in Policies : pol[p] \in {"unborn", "stopped"}
    BY <2>1, NoPolicyZero DEF IInv, TypeOK, DriverTypes, Referred, OneOwner
  <2>4. \A p \in Policies : active[p] = {}
    BY <2>3 DEF IInv, Turns
  <2> QED BY <2>1, <2>2, <2>3, <2>4
<1>3. IInv => LivePolicyOwned
  BY <1>1, <1>2 DEF LivePolicyOwned
<1> QED BY <1>3, DriverInvariant, PTL
=============================================================================
