------------------------------- MODULE Joining -------------------------------
(***************************************************************************)
(* How a replica that joined an object finds the others and gets their     *)
(* history: the interval discovery (packages/interval-discovery), the      *)
(* discovery request and response handlers, the probe of a group peer that *)
(* appears (handleGroupPeerChange) and the two runners of DRPIntervalSync.  *)
(* One replica is followed.  The other replicas are numbers, in the order   *)
(* of their ids; a hub that all of them are connected to receives the       *)
(* discovery topic.  A tick is one execution of a runner of DRPNode.        *)
(***************************************************************************)
EXTENDS Integers, FiniteSets, Sequences, SequencesExt

CONSTANTS Peer,         \* the other replicas
          Holder,       \* those of them that hold history
          SearchTicks,  \* ticks of the discovery interval in searchDuration
          MaxAttempts,  \* INITIAL_SYNC_MAX_ATTEMPTS
          MaxFaults     \* BOUND: losses, failed dials, dropped links, topic changes, leaves

VARIABLES joined,   \* the object is in the store, subscribed, its intervals running
          link,     \* replicas it has a connection to
          sub,      \* replicas subscribed to the object's topic
          search,   \* _searchStartTime: ticks since it was set, or Unset
          request,  \* a discovery request is on its way to the hub
          answer,   \* the discovery response on its way back (BOUND: one), or {}
          dialling, \* subscribers left of the response that is being handled
          probes,   \* peers a SYNC is on its way to or back from
          asked,    \* _initialSyncPeers of the object
          cursor,   \* peerCursor, or Unset
          fast,     \* initialSyncRunner is running
          warm,     \* initialSyncWarmedUp
          attempts, \* initialSyncAttempts
          merged,   \* hasRemoteSyncHistory
          recent,   \* history variable: what nextPeer returned since the group last changed
          faults

vars == <<joined, link, sub, search, request, answer, dialling, probes, asked,
          cursor, fast, warm, attempts, merged, recent, faults>>

Unset == -1

\* getGroupPeers: the subscribers of the topic among the connected peers.
Group == link \cap sub

SyncState == <<cursor, fast, warm, attempts, recent>>
DiscoveryState == <<search, request, answer, dialling>>

Init ==
  /\ joined = TRUE /\ link \in SUBSET Peer /\ sub = Peer
  /\ search = Unset /\ request = FALSE /\ answer = {} /\ dialling = {}
  /\ probes = {} /\ asked = {} /\ cursor = Unset
  /\ fast = TRUE /\ warm = FALSE /\ attempts = 0
  /\ merged = FALSE /\ recent = <<>> /\ faults = 0

Fault == faults < MaxFaults /\ faults' = faults + 1

-------------------------------------------------------------------------------
(* The group changes. *)

\* handleGroupPeerChange, subscribed: one probe for a peer not asked before, while the
\* object has no remote history.
Appeared(p) ==
  IF joined /\ ~merged /\ p \notin asked
  THEN asked' = asked \cup {p} /\ probes' = probes \cup {p}
  ELSE UNCHANGED <<asked, probes>>

\* A link to p comes up, and gossipsub learns what p is subscribed to.
LinkUp(p) ==
  /\ link' = link \cup {p}
  /\ IF p \in sub \ link THEN Appeared(p) /\ recent' = <<>>
                         ELSE UNCHANGED <<asked, probes, recent>>

\* p dials first.
Dialled(p) ==
  /\ p \notin link /\ Fault /\ LinkUp(p)
  /\ UNCHANGED <<joined, sub, DiscoveryState, cursor, fast, warm, attempts, merged>>

\* A connection is lost.  No subscription change is reported: asked keeps the peer.
Dropped(p) ==
  /\ p \in link /\ Fault
  /\ link' = link \ {p} /\ recent' = IF p \in sub THEN <<>> ELSE recent
  /\ UNCHANGED <<joined, sub, DiscoveryState, probes, asked, cursor, fast, warm, attempts, merged>>

\* p leaves the topic; handleGroupPeerChange forgets it.
TopicLeft(p) ==
  /\ p \in sub /\ Fault
  /\ sub' = sub \ {p}
  /\ IF p \in link THEN asked' = asked \ {p} /\ recent' = <<>> ELSE UNCHANGED <<asked, recent>>
  /\ UNCHANGED <<joined, link, DiscoveryState, probes, cursor, fast, warm, attempts, merged>>

TopicEntered(p) ==
  /\ p \notin sub
  /\ sub' = sub \cup {p}
  /\ IF p \in link THEN Appeared(p) /\ recent' = <<>> ELSE UNCHANGED <<asked, probes, recent>>
  /\ UNCHANGED <<joined, link, DiscoveryState, cursor, fast, warm, attempts, merged, faults>>

-------------------------------------------------------------------------------
(* DRPIntervalDiscovery. *)

\* Mutant: the start of a search that found nobody is kept.
TimedOutKept == search

\* A search that lasted searchDuration is dropped: the next tick begins another.
TimedOut == Unset

\* _runDRPDiscovery: no search while the group has a peer.
RunDRPDiscovery ==
  /\ joined
  /\ \/ Group # {} /\ search' = Unset /\ UNCHANGED request
     \/ Group = {} /\ search >= SearchTicks /\ search' = TimedOut /\ UNCHANGED request
     \/ /\ Group = {} /\ search < SearchTicks /\ request' = TRUE
        /\ search' = IF search = Unset THEN 1 ELSE search + 1
  /\ UNCHANGED <<joined, link, sub, answer, dialling, probes, asked, SyncState, merged, faults>>

\* handleDiscoveryRequest at the hub: the subscribers whose addresses it has.  A
\* response with none is not sent, one may be lost on the way.
HandleDiscoveryRequest ==
  /\ request /\ answer = {} /\ request' = FALSE
  /\ \/ answer' = sub /\ UNCHANGED faults
     \/ Fault /\ answer' \in SUBSET sub
  /\ UNCHANGED <<joined, link, sub, search, dialling, probes, asked, SyncState, merged>>

\* handleDiscoveryResponse: the discovery queue hands over one response at a time; one
\* for an object without an interval is ignored.
HandleDiscoveryResponse ==
  /\ answer # {} /\ dialling = {}
  /\ answer' = {} /\ dialling' = IF joined THEN answer ELSE {}
  /\ UNCHANGED <<joined, link, sub, search, request, probes, asked, SyncState, merged, faults>>

\* _connectToDiscoveredPeers: one dial settles; a failed one does not end the loop.
ConnectDiscovered(p) ==
  /\ p \in dialling /\ dialling' = dialling \ {p}
  /\ \/ LinkUp(p) /\ UNCHANGED faults
     \/ Fault /\ UNCHANGED <<link, asked, probes, recent>>
  /\ UNCHANGED <<joined, sub, search, request, answer, cursor, fast, warm, attempts, merged>>

-------------------------------------------------------------------------------
(* DRPIntervalSync. *)

\* Mutant: the cursor moves on past every second peer.
NextSkipping(c, n) == (c + 2) % n

\* The cursor advances before the probe is sent, whatever becomes of it.
NextCursor(c, n) == (c + 1) % n

\* nextPeer is p: the group in order, from an offset chosen at random.
NextPeer(p) ==
  LET peers == SetToSortSeq(Group, LAMBDA a, b : a < b)
      n == Len(peers)
  IN /\ n > 0
     /\ \E c \in (IF cursor = Unset THEN 0 .. n - 1 ELSE {cursor}) :
          /\ p = peers[(c % n) + 1]
          /\ cursor' = NextCursor(c, n)
     /\ recent' = Append(IF Len(recent) < n THEN recent ELSE Tail(recent), p)
     /\ probes' = probes \cup {p}

\* run: one tick of the anti-entropy interval.
Run ==
  /\ joined /\ \E p \in Group : NextPeer(p)
  /\ UNCHANGED <<joined, link, sub, DiscoveryState, asked, fast, warm, attempts, merged, faults>>

\* runInitialSync: one tick of the fast retry.
RunInitialSync ==
  /\ joined /\ fast
  /\ \/ merged /\ fast' = FALSE /\ UNCHANGED <<warm, attempts, cursor, recent, probes>>
     \/ ~merged /\ ~warm /\ warm' = TRUE /\ UNCHANGED <<fast, attempts, cursor, recent, probes>>
     \/ /\ ~merged /\ warm /\ attempts >= MaxAttempts
        /\ fast' = FALSE /\ UNCHANGED <<warm, attempts, cursor, recent, probes>>
     \/ /\ ~merged /\ warm /\ attempts < MaxAttempts /\ \E p \in Group : NextPeer(p)
        /\ attempts' = attempts + 1 /\ UNCHANGED <<fast, warm>>
  /\ UNCHANGED <<joined, link, sub, DiscoveryState, asked, merged, faults>>

\* The exchange with p ends: its history is merged, if it has any.
ProbeAnswered(p) ==
  /\ p \in probes /\ p \in link
  /\ probes' = probes \ {p}
  /\ merged' = (merged \/ (joined /\ p \in Holder))
  /\ UNCHANGED <<joined, link, sub, DiscoveryState, asked, SyncState, faults>>

ProbeLost(p) ==
  /\ p \in probes /\ probes' = probes \ {p}
  /\ IF p \in link THEN Fault ELSE UNCHANGED faults
  /\ UNCHANGED <<joined, link, sub, DiscoveryState, asked, SyncState, merged>>

-------------------------------------------------------------------------------
\* unsubscribeObject with purge.
Leave ==
  /\ joined /\ Fault
  /\ joined' = FALSE /\ fast' = FALSE /\ asked' = {} /\ merged' = FALSE
  /\ search' = Unset /\ cursor' = Unset /\ recent' = <<>>
  /\ UNCHANGED <<link, sub, request, answer, dialling, probes, warm, attempts>>

\* connectObject: a new DRPIntervalSync and a new DRPIntervalDiscovery.
Join ==
  /\ ~joined /\ joined' = TRUE
  /\ fast' = TRUE /\ warm' = FALSE /\ attempts' = 0
  /\ UNCHANGED <<link, sub, DiscoveryState, probes, asked, cursor, merged, recent, faults>>

Next ==
  \/ RunDRPDiscovery \/ HandleDiscoveryRequest \/ HandleDiscoveryResponse \/ Run \/ RunInitialSync \/ Leave \/ Join
  \/ \E p \in Peer : \/ Dialled(p) \/ Dropped(p) \/ TopicLeft(p) \/ TopicEntered(p)
                     \/ ConnectDiscovered(p) \/ ProbeAnswered(p) \/ ProbeLost(p)

\* Timers fire, messages that are not lost arrive, and dials settle.
Fairness ==
  /\ WF_vars(RunDRPDiscovery) /\ WF_vars(HandleDiscoveryRequest) /\ WF_vars(Run)
  /\ WF_vars(RunInitialSync) /\ WF_vars(HandleDiscoveryResponse)
  /\ \A p \in Peer : /\ WF_vars(ConnectDiscovered(p)) /\ WF_vars(TopicEntered(p))
                     /\ WF_vars(ProbeAnswered(p) \/ ProbeLost(p))

Spec == Init /\ [][Next]_vars /\ Fairness

-------------------------------------------------------------------------------
(* Properties. *)

\* For a stable group the two runners, which share one cursor, probe every peer before
\* they probe one again (the comment of nextPeer), whatever the group was before.
RotationFair == \A i, k \in DOMAIN recent : i # k => recent[i] # recent[k]

\* A replica that stays joined ends up with the history of the others (which it loses only
\* by leaving): discovery, which never gives up, finds them, or it goes on meeting a group
\* peer without history.
CaughtUp == ~joined \/ merged \/ Group \ Holder # {}
===============================================================================
