--------------------------- MODULE SerialMailbox ---------------------------
(***************************************************************************)
(* What a message queue promises its subscribers, whatever its buffering,  *)
(* restarts and backpressure: it accepts a message once, hands messages    *)
(* over one at a time, finishes with one before it takes the next, and     *)
(* never hands over a message again.  A message may be dropped as long as  *)
(* it was not taken.                                                       *)
(***************************************************************************)
CONSTANT Message

VARIABLES inbox,    \* accepted and not yet taken
          current,  \* the message being handled: at most one
          finished  \* taken and handled, or dropped

mvars == <<inbox, current, finished>>

MInit == inbox = {} /\ current = {} /\ finished = {}

Accept(m) ==
    /\ m \notin inbox \cup current \cup finished
    /\ inbox' = inbox \cup {m}
    /\ UNCHANGED <<current, finished>>

(* Finishing a message and taking the next one may be one step. *)
Take(m) ==
    /\ m \in inbox
    /\ inbox' = inbox \ {m}
    /\ current' = {m}
    /\ finished' = finished \cup current

(* An idle consumer is handed the message at once. *)
AcceptAndTake(m) ==
    /\ m \notin inbox \cup finished
    /\ current = {}
    /\ current' = {m}
    /\ UNCHANGED <<inbox, finished>>

Finish ==
    /\ current # {}
    /\ finished' = finished \cup current
    /\ current' = {}
    /\ UNCHANGED inbox

Drop(D) ==
    /\ D # {}
    /\ inbox' = inbox \ D
    /\ finished' = finished \cup D
    /\ UNCHANGED current

MNext ==
    \/ \E m \in Message : Accept(m) \/ Take(m) \/ AcceptAndTake(m)
    \/ Finish
    \/ \E D \in SUBSET Message : Drop(D)

MSpec == MInit /\ [][MNext]_mvars
=============================================================================
