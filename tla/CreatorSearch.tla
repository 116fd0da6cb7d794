---------------------------- MODULE CreatorSearch ----------------------------
(***************************************************************************)
(* _connectObjectCreator (packages/node/src/index.ts): what connectObject   *)
(* starts beside its own flow to reach the creator of one object, or any    *)
(* replica in its room, through the rendezvous directory.  A search reads   *)
(* records one at a time and dials in between; another connect of the       *)
(* object, an unsubscribe or a stop aborts it at any of its awaits.         *)
(***************************************************************************)
EXTENDS Naturals, FiniteSets

CONSTANTS Call,       \* calls of connectObject for the object
          AddressSet, \* what a record offers to dial
          MaxDials    \* MAX_ROOM_RENDEZVOUS_DIALS

VARIABLES foreign,    \* the id names a creator that is not this node
          named,      \* a rendezvous namespace is configured
          directory,  \* _rendezvous is set
          connected,  \* the creator is among the connected peers
          registered, \* the search in _connectRendezvousControllers, or None
          search      \* call -> [at, aborted, tried, count, misled, dialled]

searchVars == <<foreign, named, directory, connected, registered, search>>

None == 0

\* tried is dialedAddressSets; misled and dialled are history: the address sets first
\* offered under another peer in a targeted search, and those it did dial.
NewSearch == [at |-> "new", aborted |-> FALSE, tried |-> {}, count |-> 0, misled |-> {}, dialled |-> {}]

SearchInit ==
  /\ foreign \in BOOLEAN /\ named \in BOOLEAN /\ directory = TRUE /\ connected = FALSE
  /\ registered = None /\ search = [c \in Call |-> NewSearch]

Running(c) == search[c].at \notin {"new", "over"}

\* The registered search is aborted.
Aborted == [c \in Call |-> IF c = registered THEN [search[c] EXCEPT !.aborted = TRUE] ELSE search[c]]

\* Mutant: whatever is registered goes.
ReleaseAny(c) == None

\* finally: the search leaves the map, unless a later one took its place.
Release(c) == IF registered = c THEN None ELSE registered

Over(c) == search' = [search EXCEPT ![c].at = "over"] /\ registered' = Release(c)

-------------------------------------------------------------------------------
\* The call begins: the earlier search is aborted and this one registered, unless the
\* creator is connected or there is no directory.
Begin(c) ==
  /\ search[c].at = "new"
  /\ IF (foreign /\ connected) \/ ~directory
     THEN registered' = None /\ search' = [Aborted EXCEPT ![c].at = "over"]
     ELSE /\ registered' = c
          /\ search' = [Aborted EXCEPT ![c].at = IF foreign /\ named THEN "target" ELSE "room"]
  /\ UNCHANGED <<foreign, named, directory, connected>>

Frame == <<foreign, named, directory>>

\* Mutant: the record of another peer is only skipped.
MisdirectedSkips(c, a) ==
  search' = [search EXCEPT ![c].misled = IF a \in search[c].tried THEN @ ELSE @ \cup {a}]

\* A source that violates the targeted selection: its address set counts as tried.
Misdirected(c, a) ==
  search' = [search EXCEPT ![c] = [search[c] EXCEPT !.tried = @ \cup {a},
                                                    !.misled = IF a \in search[c].tried THEN @ ELSE @ \cup {a}]]

Dial(c, a, at) ==
  search' = [search EXCEPT ![c] = [search[c] EXCEPT !.at = at, !.tried = @ \cup {a}, !.dialled = @ \cup {a}]]

\* The targeted bootstrap yields a record, of the creator or not.
TargetRecord(c, own, a) ==
  /\ search[c].at = "target"
  /\ \/ ~own /\ Misdirected(c, a) /\ UNCHANGED registered
     \/ own /\ a \notin search[c].tried /\ search[c].aborted /\ Over(c)
     \/ /\ own /\ a \notin search[c].tried /\ ~search[c].aborted
        /\ Dial(c, a, "target dial") /\ UNCHANGED registered
  /\ UNCHANGED <<Frame, connected>>

\* The dial settles; connect reports nothing.
TargetDialled(c) ==
  /\ search[c].at = "target dial"
  /\ connected' \in {connected, TRUE}
  /\ IF search[c].aborted THEN Over(c) ELSE search' = [search EXCEPT ![c].at = "target"] /\ UNCHANGED registered
  /\ UNCHANGED Frame

\* The directory has no more, or throws.  The room is searched when the search is not
\* aborted and the creator still not connected.
TargetEnds(c) ==
  /\ search[c].at = "target"
  /\ IF search[c].aborted \/ connected THEN Over(c)
                                       ELSE search' = [search EXCEPT ![c].at = "room"] /\ UNCHANGED registered
  /\ UNCHANGED <<Frame, connected>>

\* The room's bootstrap yields a record of another replica; those of this node and the
\* ones already tried change nothing.
RoomRecord(c, a) ==
  /\ search[c].at = "room"
  /\ \/ search[c].count >= MaxDials /\ Over(c)
     \/ search[c].count < MaxDials /\ a \notin search[c].tried /\ search[c].aborted /\ Over(c)
     \/ /\ search[c].count < MaxDials /\ a \notin search[c].tried /\ ~search[c].aborted
        /\ search' = [search EXCEPT ![c] = [search[c] EXCEPT !.at = "room dial", !.tried = @ \cup {a},
                                                             !.dialled = @ \cup {a}, !.count = @ + 1]]
        /\ UNCHANGED registered
  /\ UNCHANGED <<Frame, connected>>

RoomDialled(c) ==
  /\ search[c].at = "room dial"
  /\ connected' \in {connected, TRUE}
  /\ IF search[c].aborted THEN Over(c) ELSE search' = [search EXCEPT ![c].at = "room"] /\ UNCHANGED registered
  /\ UNCHANGED Frame

RoomEnds(c) ==
  /\ search[c].at = "room" /\ Over(c)
  /\ UNCHANGED <<Frame, connected>>

-------------------------------------------------------------------------------
\* unsubscribeObject.
Unsubscribe ==
  /\ registered # None /\ registered' = None /\ search' = Aborted
  /\ UNCHANGED <<Frame, connected>>

\* The part of stop that runs without an await.
DirectoryStops ==
  /\ directory /\ directory' = FALSE
  /\ registered' = None /\ search' = Aborted
  /\ connected' = FALSE
  /\ UNCHANGED <<foreign, named>>

DirectoryStarts ==
  /\ ~directory /\ directory' = TRUE
  /\ UNCHANGED <<foreign, named, connected, registered, search>>

ConnectionLost ==
  /\ connected /\ connected' = FALSE
  /\ UNCHANGED <<Frame, registered, search>>

SearchNext ==
  \/ Unsubscribe \/ DirectoryStops \/ DirectoryStarts \/ ConnectionLost
  \/ \E c \in Call :
       \/ Begin(c) \/ TargetDialled(c) \/ TargetEnds(c) \/ RoomDialled(c) \/ RoomEnds(c)
       \/ \E a \in AddressSet : RoomRecord(c, a) \/ \E own \in BOOLEAN : TargetRecord(c, own, a)

SearchSpec == SearchInit /\ [][SearchNext]_searchVars

-------------------------------------------------------------------------------
(* Properties. *)

\* A search that was not aborted can be: it is the one in the map of controllers, so at
\* most one runs, and a later connect, an unsubscribe or a stop reaches it.
OneSearch == \A c \in Call : Running(c) /\ ~search[c].aborted => registered = c

\* An address set that a targeted search first met under another peer is not dialled by
\* it, neither then nor through the room (the comment in the targeted loop).
MisledNeverDialled == \A c \in Call : search[c].misled \cap search[c].dialled = {}
===============================================================================
