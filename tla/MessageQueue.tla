---------------------------- MODULE MessageQueue ----------------------------
(***************************************************************************)
(* MessageQueue and the Channel below it (packages/message-queue/src).     *)
(*                                                                         *)
(* start() gives the queue a new channel: a generation.  runFanoutLoop of  *)
(* one generation may still be inside a subscriber's handler while the     *)
(* next generation is already accepting messages.  Every await of the loop *)
(* is a point where enqueue, subscribe, close and start may run; what is   *)
(* between two awaits is one step.                                         *)
(***************************************************************************)
EXTENDS Naturals, Sequences, FiniteSets

CONSTANTS Messages,       \* bound on enqueue(): messages are numbered by call
          Generations,    \* bound on start(): generations are 1 .. Generations
          MaxSubscribers, \* bound on subscribe()
          Capacity        \* options.maxSize

ASSUME QueueBounds ==
    /\ Generations \in Nat \ {0} /\ Messages \in Nat
    /\ MaxSubscribers \in Nat /\ Capacity \in Nat

Gen == 1 .. Generations
Message == 1 .. Messages

VARIABLES
    isActive,           \* MessageQueue.isActive
    channel,            \* generation of this.channel
    fanoutLoopStarted,
    fanoutLoopDone,     \* generation of the latest loop, 0 before the first
    subscribers,        \* number of subscribed handlers
    values,             \* values[g]: buffer of channel g
    sends,              \* sends[g]: senders of channel g waiting for space
    pc, prev,           \* pc[g], prev[g]: the loop of g and the loop it awaits
    message, handler,   \* message[g], handler[g]: what the loop of g handles
    enqueued,           \* enqueued[m]: what the caller of enqueue sees
    processed,          \* messages all handlers have returned for
    order               \* messages in the order the loops took them

queue == <<isActive, channel, subscribers>>
loops == <<fanoutLoopStarted, fanoutLoopDone, prev>>
buffers == <<values, sends>>
handling == <<pc, message, handler, processed, order>>
vars == <<queue, loops, buffers, handling, enqueued>>

LoopState == {"none", "awaiting", "receiving", "rejected", "got", "handling", "done"}

TypeOK ==
    /\ isActive \in BOOLEAN /\ fanoutLoopStarted \in BOOLEAN
    /\ channel \in Gen /\ fanoutLoopDone \in 0 .. Generations
    /\ subscribers \in 0 .. MaxSubscribers
    /\ values \in [Gen -> Seq(Message)] /\ sends \in [Gen -> Seq(Message)]
    /\ pc \in [Gen -> LoopState] /\ prev \in [Gen -> 0 .. Generations]
    /\ message \in [Gen -> 0 .. Messages]
    /\ handler \in [Gen -> 0 .. MaxSubscribers]
    /\ enqueued \in [Message -> {"no", "waiting", "resolved", "rejected"}]
    /\ processed \subseteq Message
    /\ order \in Seq(Message)

Init ==
    /\ isActive = TRUE /\ channel = 1 /\ subscribers = 0
    /\ fanoutLoopStarted = FALSE /\ fanoutLoopDone = 0
    /\ values = [g \in Gen |-> <<>>] /\ sends = [g \in Gen |-> <<>>]
    /\ pc = [g \in Gen |-> "none"] /\ prev = [g \in Gen |-> 0]
    /\ message = [g \in Gen |-> 0] /\ handler = [g \in Gen |-> 0]
    /\ enqueued = [m \in Message |-> "no"]
    /\ processed = {} /\ order = <<>>

-----------------------------------------------------------------------------
(* Mutant: a waiting receiver is not woken. *)
sendMutant(g, m) ==
    /\ Len(values[g]) < Capacity
    /\ values' = [values EXCEPT ![g] = Append(@, m)]
    /\ enqueued' = [enqueued EXCEPT ![m] = "resolved"]
    /\ UNCHANGED <<sends, handling>>

(* Channel.send: to the waiting receiver, else to the buffer, else wait. *)
send(g, m) ==
    \/ /\ pc[g] = "receiving"
       /\ pc' = [pc EXCEPT ![g] = "got"]
       /\ message' = [message EXCEPT ![g] = m]
       /\ order' = Append(order, m)
       /\ enqueued' = [enqueued EXCEPT ![m] = "resolved"]
       /\ UNCHANGED <<buffers, handler, processed>>
    \/ /\ pc[g] # "receiving"
       /\ Len(values[g]) < Capacity
       /\ values' = [values EXCEPT ![g] = Append(@, m)]
       /\ enqueued' = [enqueued EXCEPT ![m] = "resolved"]
       /\ UNCHANGED <<sends, handling>>
    \/ /\ pc[g] # "receiving"
       /\ Len(values[g]) >= Capacity
       /\ sends' = [sends EXCEPT ![g] = Append(@, m)]
       /\ enqueued' = [enqueued EXCEPT ![m] = "waiting"]
       /\ UNCHANGED <<values, handling>>

enqueue(m) ==
    /\ enqueued[m] = "no"
    /\ m > 1 => enqueued[m - 1] # "no"
    /\ \/ /\ isActive
          /\ send(channel, m)
       \/ /\ ~isActive
          /\ enqueued' = [enqueued EXCEPT ![m] = "rejected"]
          /\ UNCHANGED <<buffers, handling>>
    /\ UNCHANGED <<queue, loops>>

(* startFanoutLoop with the new values of the fields it tests. *)
startFanoutLoop(started, subs, g) ==
    IF started \/ subs = 0
    THEN /\ fanoutLoopStarted' = started
         /\ UNCHANGED <<fanoutLoopDone, prev, pc>>
    ELSE /\ fanoutLoopStarted' = TRUE
         /\ fanoutLoopDone' = g
         /\ prev' = [prev EXCEPT ![g] = fanoutLoopDone]
         /\ pc' = [pc EXCEPT ![g] = "awaiting"]

subscribe ==
    /\ subscribers < MaxSubscribers
    /\ subscribers' = subscribers + 1
    /\ IF isActive THEN startFanoutLoop(fanoutLoopStarted, subscribers', channel)
                   ELSE UNCHANGED <<loops, pc>>
    /\ UNCHANGED <<isActive, channel, buffers, message, handler, processed, order, enqueued>>

close ==
    /\ isActive
    /\ isActive' = FALSE
    /\ values' = [values EXCEPT ![channel] = <<>>]
    /\ sends' = [sends EXCEPT ![channel] = <<>>]
    /\ enqueued' = [m \in Message |-> IF enqueued[m] = "waiting" THEN "rejected"
                                      ELSE enqueued[m]]
    /\ pc' = [pc EXCEPT ![channel] = IF @ = "receiving" THEN "rejected" ELSE @]
    /\ UNCHANGED <<channel, subscribers, loops, message, handler, processed, order>>

(* Mutant: the new generation does not wait for the one before it. *)
startMutant ==
    /\ ~isActive
    /\ channel < Generations
    /\ isActive' = TRUE
    /\ channel' = channel + 1
    /\ fanoutLoopStarted' = (subscribers > 0)
    /\ pc' = [pc EXCEPT ![channel'] = IF subscribers > 0 THEN "awaiting" ELSE @]
    /\ UNCHANGED <<subscribers, fanoutLoopDone, prev, buffers, message, handler,
                   processed, order, enqueued>>

start ==
    /\ ~isActive
    /\ channel < Generations
    /\ isActive' = TRUE
    /\ channel' = channel + 1
    /\ startFanoutLoop(FALSE, subscribers, channel')
    /\ UNCHANGED <<subscribers, buffers, message, handler, processed, order, enqueued>>

-----------------------------------------------------------------------------
(* Mutant: a late loop of an old generation clears the flag of the new one. *)
LoopExitMutant(g) ==
    /\ pc' = [pc EXCEPT ![g] = "done"]
    /\ fanoutLoopStarted' = FALSE
    /\ UNCHANGED <<buffers, message, enqueued, order>>

(* The loop of generation g leaves: the finally clause. *)
LoopExit(g) ==
    /\ pc' = [pc EXCEPT ![g] = "done"]
    /\ fanoutLoopStarted' = IF g = channel THEN FALSE ELSE fanoutLoopStarted
    /\ UNCHANGED <<buffers, message, enqueued, order>>

(* Mutant: the buffered value is read and not removed. *)
receiveMutant(g) ==
    /\ values[g] # <<>>
    /\ message' = [message EXCEPT ![g] = Head(values[g])]
    /\ pc' = [pc EXCEPT ![g] = "got"]
    /\ order' = Append(order, message'[g])
    /\ UNCHANGED <<buffers, enqueued, fanoutLoopStarted>>

(* Channel.receive: from the buffer, else from a waiting sender, else wait. *)
receive(g) ==
    /\ \/ /\ values[g] # <<>>
          /\ values' = [values EXCEPT ![g] = Tail(@)]
          /\ message' = [message EXCEPT ![g] = Head(values[g])]
          /\ UNCHANGED <<sends, enqueued>>
       \/ /\ values[g] = <<>>
          /\ sends[g] # <<>>
          /\ sends' = [sends EXCEPT ![g] = Tail(@)]
          /\ message' = [message EXCEPT ![g] = Head(sends[g])]
          /\ enqueued' = [enqueued EXCEPT ![Head(sends[g])] = "resolved"]
          /\ UNCHANGED values
       \/ /\ values[g] = <<>>
          /\ sends[g] = <<>>
          /\ UNCHANGED <<buffers, message, enqueued>>
    /\ IF values[g] = <<>> /\ sends[g] = <<>>
       THEN /\ pc' = [pc EXCEPT ![g] = "receiving"]
            /\ UNCHANGED order
       ELSE /\ pc' = [pc EXCEPT ![g] = "got"]
            /\ order' = Append(order, message'[g])
    /\ UNCHANGED fanoutLoopStarted

(* The condition of the while loop, and receive if it holds. *)
LoopTop(g) ==
    IF isActive /\ g = channel THEN receive(g) ELSE LoopExit(g)

AwaitPrevious(g) ==
    /\ pc[g] = "awaiting"
    /\ prev[g] \in {0} \cup {h \in Gen : pc[h] = "done"}
    /\ LoopTop(g)
    /\ UNCHANGED <<queue, fanoutLoopDone, prev, handler, processed>>

(* receive() rejected with ChannelClosedError: break. *)
ReceiveRejected(g) ==
    /\ pc[g] = "rejected"
    /\ LoopExit(g)
    /\ UNCHANGED <<queue, fanoutLoopDone, prev, handler, processed>>

CallFirstHandler(g) ==
    /\ pc[g] = "got"
    /\ pc' = [pc EXCEPT ![g] = "handling"]
    /\ handler' = [handler EXCEPT ![g] = 1]
    /\ UNCHANGED <<queue, loops, buffers, message, processed, order, enqueued>>

(* Mutant: one handler too many. *)
HandlerReturnsMutant(g) ==
    /\ pc[g] = "handling"
    /\ handler[g] <= subscribers
    /\ handler' = [handler EXCEPT ![g] = @ + 1]
    /\ UNCHANGED <<queue, loops, buffers, pc, message, processed, order, enqueued>>

(* A handler returns or throws; the loop over the subscribers sees the     *)
(* ones added meanwhile.                                                   *)
HandlerReturns(g) ==
    /\ pc[g] = "handling"
    /\ IF handler[g] < subscribers
       THEN /\ handler' = [handler EXCEPT ![g] = @ + 1]
            /\ UNCHANGED <<loops, buffers, pc, message, processed, order, enqueued>>
       ELSE /\ handler' = [handler EXCEPT ![g] = 0]
            /\ processed' = processed \cup {message[g]}
            /\ LoopTop(g)
            /\ UNCHANGED <<fanoutLoopDone, prev>>
    /\ UNCHANGED queue

runFanoutLoop(g) ==
    \/ AwaitPrevious(g)
    \/ ReceiveRejected(g)
    \/ CallFirstHandler(g)
    \/ HandlerReturns(g)

Next ==
    \/ \E m \in Message : enqueue(m)
    \/ subscribe
    \/ close
    \/ start
    \/ \E g \in Gen : runFanoutLoop(g)

(* The loops are driven by the event loop, and handlers return. *)
Fairness == \A g \in Gen : WF_vars(runFanoutLoop(g))
Spec == Init /\ [][Next]_vars
FairSpec == Spec /\ Fairness

-----------------------------------------------------------------------------
Elements(s) == {s[i] : i \in 1 .. Len(s)}
Buffered == UNION {Elements(values[g]) \cup Elements(sends[g]) : g \in Gen}
InHand(g) == IF pc[g] \in {"got", "handling"} THEN {message[g]} ELSE {}

(* "serial delivery across restarts": the loops of two generations never   *)
(* hold a message at the same time, so no two handler calls overlap.       *)
SerialDelivery ==
    \A g, h \in Gen :
        pc[g] \in {"got", "handling"} /\ pc[h] \in {"got", "handling"} => g = h

(* An active queue with a subscriber has a live loop on its own channel,   *)
(* whatever close, start and subscribe calls came before, and where        *)
(* startFanoutLoop would start one there is none: no message is accepted   *)
(* into a channel nobody reads, or that two loops read.                    *)
OneLiveLoop ==
    isActive =>
        IF fanoutLoopStarted
        THEN pc[channel] \in {"awaiting", "receiving", "got", "handling"}
        ELSE subscribers = 0 /\ pc[channel] = "none"

(* A message is in one place at a time and is taken at most once; a sender *)
(* waits exactly as long as its message is among the pending sends.        *)
NoDuplication ==
    /\ \A i, j \in 1 .. Len(order) : order[i] = order[j] => i = j
    /\ Buffered \cap Elements(order) = {}
    /\ \A m \in Message :
        enqueued[m] = "waiting" <=> \E g \in Gen : m \in Elements(sends[g])
    /\ \A g \in Gen : Len(values[g]) <= Capacity

(* What the queue promises in every state, across restarts.                *)
QueueSound == SerialDelivery /\ OneLiveLoop /\ NoDuplication

(* The queue implements SerialMailbox: its inbox is what is buffered or    *)
(* waiting, a message is current from the moment the loop gets it until    *)
(* the last handler has returned.                                          *)
Mailbox == INSTANCE SerialMailbox WITH
    inbox <- Buffered,
    current <- UNION {InHand(g) : g \in Gen},
    finished <- {m \in Message : /\ enqueued[m] # "no"
                                 /\ m \notin Buffered
                                 /\ \A g \in Gen : m \notin InHand(g)}
ImplementsMailbox == Mailbox!MSpec

(* While the queue stays open and has a subscriber, every message it       *)
(* buffers, and every sender it keeps waiting for space, gets its turn: no *)
(* message stays queued, or in the hands of a loop, for ever.              *)
Unfinished(m) == m \in Buffered \/ \E g \in Gen : m \in InHand(g)
EveryMessageProcessed ==
    \A m \in Message : []<>~(isActive /\ subscribers > 0 /\ Unfinished(m))
=============================================================================
