------------------------ MODULE MessageQueueProofs ------------------------
(***************************************************************************)
(* Theorems about MessageQueue, for any number of messages, restarts and   *)
(* subscribers and any capacity of the channel: serial delivery, one live  *)
(* loop, no duplication, and the refinement of SerialMailbox.              *)
(***************************************************************************)
EXTENDS MessageQueue, TLAPS

(* A loop has passed its await of the loop before it. *)
Passed == {"receiving", "rejected", "got", "handling", "done"}
Started(g) == pc[g] # "none"

(* The loops form a chain: a loop awaits the latest one started before it, *)
(* and the latest one of all is in fanoutLoopDone.                         *)
Chain ==
    /\ fanoutLoopDone <= channel
    /\ fanoutLoopDone # 0 => Started(fanoutLoopDone)
    /\ \A g \in Gen : Started(g) => g <= fanoutLoopDone
    /\ \A g \in Gen : prev[g] < g
    /\ \A g \in Gen : Started(g) /\ prev[g] # 0 => Started(prev[g])
    /\ \A g, h \in Gen : Started(g) /\ Started(h) /\ h < g => h <= prev[g]

(* Once a loop has passed its await, every loop before it is done. *)
Handover ==
    \A g, h \in Gen : pc[g] \in Passed /\ Started(h) /\ h < g => pc[h] = "done"

(* What a loop waits for exists. *)
Waiting ==
    /\ \A g \in Gen : pc[g] = "rejected" => ~(isActive /\ g = channel)
    /\ \A g \in Gen : pc[g] = "receiving" => isActive /\ g = channel
    /\ \A g \in Gen : Started(g) => subscribers > 0

LoopInv == TypeOK /\ Chain /\ Handover /\ Waiting /\ OneLiveLoop

Injective(s) == \A i, j \in 1 .. Len(s) : s[i] = s[j] => i = j

(* Only the open channel holds messages. *)
OnlyOpenHolds ==
    \A g \in Gen : ~(isActive /\ g = channel) => values[g] = <<>> /\ sends[g] = <<>>

(* No channel holds, and no loop took, a message twice. *)
HeldOnce ==
    /\ \A g \in Gen : Injective(values[g]) /\ Injective(sends[g])
    /\ Injective(order)
    /\ \A g \in Gen : Len(values[g]) <= Capacity

(* Where a message is, by what its sender was told. *)
ToldRightly ==
    /\ \A g \in Gen : \A m \in Elements(values[g]) : enqueued[m] = "resolved" /\ m \notin Elements(order)
    /\ \A g \in Gen : \A m \in Elements(sends[g]) : enqueued[m] = "waiting"
    /\ \A m \in Elements(order) : enqueued[m] = "resolved"
    /\ \A m \in Message : enqueued[m] = "waiting" => \E g \in Gen : m \in Elements(sends[g])

(* A loop handles a message that was taken. *)
HandlesTaken ==
    \A g \in Gen : pc[g] \in {"got", "handling"} => message[g] \in Elements(order)

Places == OnlyOpenHolds /\ HeldOnce /\ ToldRightly /\ HandlesTaken

IInv == LoopInv /\ Places

-----------------------------------------------------------------------------
(* The fields of the loops, as the proofs below need them. *)
LoopTypes ==
    /\ channel \in Gen /\ fanoutLoopDone \in Gen \cup {0}
    /\ pc \in [Gen -> LoopState] /\ prev \in [Gen -> Gen \cup {0}]
    /\ isActive \in BOOLEAN /\ fanoutLoopStarted \in BOOLEAN
    /\ subscribers \in Nat

(* Generations are positive numbers, in the code the calls of start.      *)
LEMMA GenNat == Gen \subseteq Nat \ {0}
  BY QueueBounds DEF Gen

(* The fields that startFanoutLoop and runFanoutLoop test have their type. *)
LEMMA LoopTyped == TypeOK => LoopTypes
<1> SUFFICES ASSUME TypeOK PROVE LoopTypes
    OBVIOUS
<1>1. 0 .. Generations = Gen \cup {0}
    BY QueueBounds DEF Gen
<1>2. subscribers \in Nat
    BY QueueBounds DEF TypeOK
<1> QED BY <1>1, <1>2, Zenon DEF TypeOK, LoopTypes

(* Initially no loop has started and nothing is buffered (the fields of    *)
(* MessageQueue and Channel).                                              *)
LEMMA InitIInv == Init => IInv
<1> SUFFICES ASSUME Init PROVE IInv
    OBVIOUS
<1>0. 1 \in Gen /\ 0 \in 0 .. Generations /\ 0 \in 0 .. MaxSubscribers /\ 0 \in 0 .. Messages
    BY QueueBounds DEF Gen
<1>1. TypeOK
    <2>1. values \in [Gen -> Seq(Message)] /\ sends \in [Gen -> Seq(Message)] /\ order \in Seq(Message)
        BY DEF Init
    <2>2. /\ pc \in [Gen -> LoopState] /\ prev \in [Gen -> 0 .. Generations]
          /\ message \in [Gen -> 0 .. Messages] /\ handler \in [Gen -> 0 .. MaxSubscribers]
        BY <1>0 DEF Init, LoopState
    <2>3. enqueued \in [Message -> {"no", "waiting", "resolved", "rejected"}]
        BY DEF Init
    <2> QED BY <1>0, <2>1, <2>2, <2>3, Zenon DEF Init, TypeOK
<1>2. Chain /\ Handover /\ Waiting /\ OneLiveLoop
    <2>1. \A g \in Gen : pc[g] = "none" /\ prev[g] = 0
        BY DEF Init
    <2>2. Chain
        BY <2>1, GenNat DEF Init, Chain, Started
    <2> QED BY <1>0, <2>1, <2>2 DEF Init, Handover, Waiting, OneLiveLoop, Started, Passed
<1>3. Places
    BY QueueBounds DEF Init, Places, OnlyOpenHolds, HeldOnce, ToldRightly, HandlesTaken, Injective, Elements
<1> QED BY <1>1, <1>2, <1>3 DEF IInv, LoopInv

(* The types of the fields of MessageQueue and Channel are kept by every   *)
(* step of the queue.                                                      *)
LEMMA TypeStep == IInv /\ [Next]_vars => TypeOK'
<1> SUFFICES ASSUME TypeOK, [Next]_vars,
                    \A g \in Gen : pc[g] \in {"got", "handling"} =>
                                   message[g] \in Message /\ subscribers > 0
             PROVE  TypeOK'
    <2>1. IInv => \A g \in Gen : pc[g] \in {"got", "handling"} => message[g] \in Message
        <3>1. IInv => \A m \in Elements(order) : m \in Message
            BY DEF IInv, LoopInv, TypeOK, Elements
        <3> QED BY <3>1 DEF IInv, Places, HandlesTaken
    <2>2. IInv => \A g \in Gen : pc[g] \in {"got", "handling"} => subscribers > 0
        BY DEF IInv, LoopInv, Waiting, Started
    <2> QED BY <2>1, <2>2 DEF IInv, LoopInv
<1> USE DEF queue, loops, buffers, handling
<1>0. Message \subseteq 0 .. Messages
    BY QueueBounds DEF Message
<1>1. CASE UNCHANGED vars
    BY <1>1 DEF vars, TypeOK
<1>2. ASSUME NEW m \in Message, enqueue(m) PROVE TypeOK'
    <2>1. UNCHANGED <<isActive, channel, subscribers, fanoutLoopStarted, fanoutLoopDone, prev,
                      handler, processed>>
        BY <1>2 DEF enqueue, send
    <2>2. values' \in [Gen -> Seq(Message)] /\ sends' \in [Gen -> Seq(Message)]
        <3>1. /\ values \in [Gen -> Seq(Message)] /\ sends \in [Gen -> Seq(Message)]
              /\ channel \in Gen
            BY DEF TypeOK
        <3>2. /\ Append(values[channel], m) \in Seq(Message)
              /\ Append(sends[channel], m) \in Seq(Message)
            BY <3>1
        <3> QED BY <1>2, <3>1, <3>2, Zenon DEF enqueue, send
    <2>3. pc' \in [Gen -> LoopState]
        BY <1>2, Zenon DEF enqueue, send, TypeOK, LoopState
    <2>4. message' \in [Gen -> 0 .. Messages] /\ order' \in Seq(Message)
        <3>1. message \in [Gen -> 0 .. Messages] /\ order \in Seq(Message)
            BY DEF TypeOK
        <3>2. Append(order, m) \in Seq(Message) /\ m \in 0 .. Messages
            BY <1>0, <3>1
        <3> QED BY <1>2, <3>1, <3>2, Zenon DEF enqueue, send
    <2>5. enqueued' \in [Message -> {"no", "waiting", "resolved", "rejected"}]
        BY <1>2, Zenon DEF enqueue, send, TypeOK
    <2> QED BY <2>1, <2>2, <2>3, <2>4, <2>5, SMTT(30) DEF TypeOK
<1>3. ASSUME NEW s, NEW c \in Gen, startFanoutLoop(s, subscribers', c), s \in BOOLEAN
      PROVE  /\ fanoutLoopStarted' \in BOOLEAN /\ fanoutLoopDone' \in 0 .. Generations
             /\ pc' \in [Gen -> LoopState] /\ prev' \in [Gen -> 0 .. Generations]
    <2>1. Gen \subseteq 0 .. Generations
        BY QueueBounds DEF Gen
    <2> QED BY <1>3, <2>1, Zenon DEF startFanoutLoop, TypeOK, LoopState
<1>4. CASE subscribe
    <2>1. UNCHANGED <<isActive, channel, values, sends, message, handler, processed, order, enqueued>>
        BY <1>4 DEF subscribe
    <2>2. subscribers' \in 0 .. MaxSubscribers
        BY <1>4, QueueBounds DEF subscribe, TypeOK
    <2>3. /\ fanoutLoopStarted' \in BOOLEAN /\ fanoutLoopDone' \in 0 .. Generations
          /\ pc' \in [Gen -> LoopState] /\ prev' \in [Gen -> 0 .. Generations]
        BY <1>3, <1>4, Zenon DEF subscribe, TypeOK
    <2> QED BY <2>1, <2>2, <2>3, SMTT(30) DEF TypeOK
<1>5. CASE close
    <2>1. values' \in [Gen -> Seq(Message)] /\ sends' \in [Gen -> Seq(Message)]
        BY <1>5 DEF close, TypeOK
    <2>2. pc' \in [Gen -> LoopState]
        BY <1>5 DEF close, TypeOK, LoopState
    <2>3. enqueued' \in [Message -> {"no", "waiting", "resolved", "rejected"}]
        BY <1>5 DEF close, TypeOK
    <2>4. isActive' \in BOOLEAN
        BY <1>5, Zenon DEF close
    <2> QED BY <1>5, <2>1, <2>2, <2>3, <2>4 DEF close, TypeOK
<1>6. CASE start
    <2>1. channel' \in Gen
        BY <1>6, QueueBounds DEF start, TypeOK, Gen
    <2>2. /\ fanoutLoopStarted' \in BOOLEAN /\ fanoutLoopDone' \in 0 .. Generations
          /\ pc' \in [Gen -> LoopState] /\ prev' \in [Gen -> 0 .. Generations]
        BY <1>3, <1>6, <2>1, Zenon DEF start
    <2> QED BY <1>6, <2>1, <2>2, Zenon DEF start, TypeOK
<1>7. ASSUME NEW g \in Gen, LoopTop(g) \/ LoopExit(g)
      PROVE  /\ values' \in [Gen -> Seq(Message)] /\ sends' \in [Gen -> Seq(Message)]
             /\ pc' \in [Gen -> LoopState] /\ message' \in [Gen -> 0 .. Messages]
             /\ order' \in Seq(Message) /\ fanoutLoopStarted' \in BOOLEAN
             /\ enqueued' \in [Message -> {"no", "waiting", "resolved", "rejected"}]
    <2>1. CASE LoopExit(g)
        BY <2>1, Zenon DEF LoopExit, TypeOK, LoopState
    <2>2. CASE receive(g)
        <3>0. /\ values \in [Gen -> Seq(Message)] /\ sends \in [Gen -> Seq(Message)]
              /\ message \in [Gen -> 0 .. Messages] /\ order \in Seq(Message)
            BY DEF TypeOK
        <3>1. values' \in [Gen -> Seq(Message)] /\ sends' \in [Gen -> Seq(Message)]
            <4>1. /\ values[g] # <<>> => Tail(values[g]) \in Seq(Message)
                  /\ sends[g] # <<>> => Tail(sends[g]) \in Seq(Message)
                BY <3>0
            <4> QED BY <2>2, <3>0, <4>1, Zenon DEF receive
        <3>2. pc' \in [Gen -> LoopState]
            BY <2>2, Zenon DEF receive, TypeOK, LoopState
        <3>3. /\ values[g] # <<>> => Head(values[g]) \in Message
              /\ sends[g] # <<>> => Head(sends[g]) \in Message
            BY <3>0
        <3>4. /\ message' \in [Gen -> 0 .. Messages]
              /\ (values[g] # <<>> \/ sends[g] # <<>>) => message'[g] \in Message
            BY <1>0, <2>2, <3>0, <3>3, Zenon DEF receive
        <3>5. order' \in Seq(Message)
            <4>1. message'[g] \in Message => Append(order, message'[g]) \in Seq(Message)
                BY <3>0
            <4> QED BY <2>2, <3>0, <3>4, <4>1, Zenon DEF receive
        <3>6. enqueued' \in [Message -> {"no", "waiting", "resolved", "rejected"}]
            BY <2>2, <3>3, Zenon DEF receive, TypeOK
        <3>7. fanoutLoopStarted' \in BOOLEAN
            BY <2>2 DEF receive, TypeOK
        <3> QED BY <3>1, <3>2, <3>4, <3>5, <3>6, <3>7
    <2> QED BY <1>7, <2>1, <2>2 DEF LoopTop
<1>8. ASSUME NEW g \in Gen, AwaitPrevious(g) PROVE TypeOK'
    BY <1>7, <1>8, Zenon DEF AwaitPrevious, TypeOK
<1>9. ASSUME NEW g \in Gen, ReceiveRejected(g) PROVE TypeOK'
    BY <1>7, <1>9, Zenon DEF ReceiveRejected, TypeOK
<1>10. ASSUME NEW g \in Gen, CallFirstHandler(g) PROVE TypeOK'
    <2>1. pc' \in [Gen -> LoopState]
        BY <1>10 DEF CallFirstHandler, TypeOK, LoopState
    <2>2. handler' \in [Gen -> 0 .. MaxSubscribers]
        BY <1>10, QueueBounds DEF CallFirstHandler, TypeOK
    <2> QED BY <1>10, <2>1, <2>2, SMTT(30) DEF CallFirstHandler, TypeOK
<1>11. ASSUME NEW g \in Gen, HandlerReturns(g) PROVE TypeOK'
    <2>1. handler' \in [Gen -> 0 .. MaxSubscribers]
        <3>1. handler \in [Gen -> 0 .. MaxSubscribers] /\ subscribers \in 0 .. MaxSubscribers
            BY DEF TypeOK
        <3>2. 0 \in 0 .. MaxSubscribers
              /\ (handler[g] < subscribers => handler[g] + 1 \in 0 .. MaxSubscribers)
            BY <3>1, QueueBounds
        <3> QED BY <1>11, <3>1, <3>2 DEF HandlerReturns
    <2>2. processed' \subseteq Message
        BY <1>11 DEF HandlerReturns, TypeOK
    <2>3. CASE handler[g] < subscribers
        BY <1>11, <2>1, <2>3, Zenon DEF HandlerReturns, TypeOK
    <2>4. CASE ~(handler[g] < subscribers)
        BY <1>7, <1>11, <2>1, <2>2, <2>4, Zenon DEF HandlerReturns, TypeOK
    <2> QED BY <2>3, <2>4
<1> QED BY <1>1, <1>2, <1>4, <1>5, <1>6, <1>8, <1>9, <1>10, <1>11 DEF Next, runFanoutLoop

(* A step of a loop that has started leaves the chain of loops alone       *)
(* (runFanoutLoop and Channel.send change no promise).                     *)
LEMMA ChainKept ==
  ASSUME Chain, LoopTypes, NEW g \in Gen, NEW x \in LoopState \ {"none"}, Started(g),
         pc' = [pc EXCEPT ![g] = x], UNCHANGED <<channel, fanoutLoopDone, prev>>
  PROVE  Chain'
<1>1. \A h \in Gen : Started(h)' <=> Started(h)
    BY DEF Started, LoopTypes, LoopState
<1>2. fanoutLoopDone # 0 => fanoutLoopDone \in Gen
    BY DEF LoopTypes
<1>3. \A h \in Gen : prev[h] # 0 => prev[h] \in Gen
    BY DEF LoopTypes
<1> QED BY <1>1, <1>2, <1>3 DEF Chain, Started

(* Where one loop may pass its await or leave, the loops before it are     *)
(* done, so the handover is kept (runFanoutLoop).                          *)
LEMMA HandoverKept ==
  ASSUME Handover, LoopTypes, NEW g \in Gen, NEW x \in LoopState \ {"none"}, Started(g),
         pc' = [pc EXCEPT ![g] = x],
         pc[g] = "done" => x = "done",
         x \in Passed => \A h \in Gen : Started(h) /\ h < g => pc[h] = "done"
  PROVE  Handover'
  BY GenNat DEF Handover, Started, Passed, LoopTypes, LoopState

(* startFanoutLoop on a channel without a loop, whose number is above all  *)
(* loops started before: the new loop awaits the latest one.               *)
LEMMA LoopStarts ==
  ASSUME Chain, Handover, LoopTypes, LoopTypes', NEW g \in Gen, g = channel', channel <= channel',
         ~Started(g), pc' = [pc EXCEPT ![g] = "awaiting"],
         fanoutLoopDone' = g, prev' = [prev EXCEPT ![g] = fanoutLoopDone]
  PROVE  Chain' /\ Handover'
<1> USE GenNat DEF LoopTypes, Started
<1>1. fanoutLoopDone < g
    <2>1. fanoutLoopDone <= g /\ fanoutLoopDone # g
        BY DEF Chain
    <2> QED BY <2>1
<1>2. \A h \in Gen : Started(h) => h < g
    BY <1>1 DEF Chain
<1>3. \A h \in Gen : h # g => pc'[h] = pc[h] /\ prev'[h] = prev[h]
    OBVIOUS
<1>4. pc'[g] = "awaiting" /\ prev'[g] = fanoutLoopDone
    OBVIOUS
<1>5. \A h \in Gen : Started(h)' <=> Started(h) \/ h = g
    BY <1>3, <1>4
<1>6. Chain'
    <2>1. \A h \in Gen : Started(h)' => h <= fanoutLoopDone'
        BY <1>2, <1>5
    <2>2. \A h \in Gen : prev'[h] < h
        BY <1>1, <1>3, <1>4 DEF Chain
    <2>3. ASSUME NEW h \in Gen, Started(h)', prev'[h] # 0 PROVE pc'[prev'[h]] # "none"
        <3>1. prev'[h] \in Gen
            BY <2>3
        <3>2. pc[prev'[h]] # "none"
            BY <2>3, <1>3, <1>4, <1>5 DEF Chain
        <3> QED BY <3>1, <3>2, <1>3, <1>4
    <2>4. \A h, k \in Gen : Started(h)' /\ Started(k)' /\ k < h => k <= prev'[h]
        <3> SUFFICES ASSUME NEW h \in Gen, NEW k \in Gen, Started(h)', Started(k)', k < h
                     PROVE  k <= prev'[h]
            OBVIOUS
        <3>1. k # g /\ Started(k)
            BY <1>2, <1>5
        <3>2. CASE h = g
            BY <3>1, <3>2, <1>4 DEF Chain
        <3>3. CASE h # g
            BY <3>1, <3>3, <1>3, <1>5 DEF Chain
        <3> QED BY <3>2, <3>3
    <2> QED BY <1>4, <2>1, <2>2, <2>3, <2>4 DEF Chain
<1>7. Handover'
    BY <1>2, <1>3, <1>4, <1>5 DEF Handover, Passed
<1> QED BY <1>6, <1>7

(* The loops: each step of the queue keeps the chain, the handover and the *)
(* one live loop (startFanoutLoop, runFanoutLoop, close, start).           *)
LEMMA LoopStep == LoopInv /\ TypeOK' /\ [Next]_vars => LoopInv'
<1> SUFFICES ASSUME LoopTypes, LoopTypes', Chain, Handover, Waiting, OneLiveLoop, [Next]_vars
             PROVE  Chain' /\ Handover' /\ Waiting' /\ OneLiveLoop'
    BY LoopTyped, PTL DEF LoopInv
<1> USE DEF queue, loops, buffers, handling
<1>1. CASE UNCHANGED vars
    BY <1>1 DEF vars, Chain, Handover, Waiting, OneLiveLoop, Started
<1>2. ASSUME NEW m \in Message, enqueue(m)
      PROVE  Chain' /\ Handover' /\ Waiting' /\ OneLiveLoop'
    <2>0. UNCHANGED <<isActive, channel, subscribers, fanoutLoopStarted, fanoutLoopDone, prev>>
        BY <1>2 DEF enqueue
    <2>1. CASE UNCHANGED pc
        BY <2>0, <2>1 DEF Chain, Handover, Waiting, OneLiveLoop, Started
    <2>2. CASE pc[channel] = "receiving" /\ pc' = [pc EXCEPT ![channel] = "got"]
        <3>1. channel \in Gen /\ "got" \in LoopState \ {"none"} /\ Started(channel)
            BY <2>2 DEF LoopTypes, LoopState, Started
        <3>2. Chain'
            BY <2>0, <2>2, <3>1, ChainKept, Zenon
        <3>3. Handover'
            BY <2>2, <3>1, HandoverKept, Zenon DEF Handover, Passed
        <3>4. Waiting' /\ OneLiveLoop'
            BY <2>0, <2>2, <3>1 DEF Waiting, OneLiveLoop, Started, LoopTypes
        <3> QED BY <3>2, <3>3, <3>4
    <2> QED BY <1>2, <2>1, <2>2 DEF enqueue, send
<1>3. CASE subscribe
    <2>0. subscribers' > 0 /\ UNCHANGED <<isActive, channel>>
        BY <1>3 DEF subscribe, LoopTypes
    <2>1. CASE isActive /\ ~fanoutLoopStarted
        <3>1. ~Started(channel)
            BY <2>1 DEF OneLiveLoop, Started
        <3>2. /\ pc' = [pc EXCEPT ![channel] = "awaiting"] /\ fanoutLoopDone' = channel
              /\ prev' = [prev EXCEPT ![channel] = fanoutLoopDone]
            BY <1>3, <2>0, <2>1 DEF subscribe, startFanoutLoop
        <3>3. fanoutLoopStarted'
            BY <1>3, <2>0, <2>1 DEF subscribe, startFanoutLoop
        <3>4. Chain' /\ Handover'
            <4>1. channel \in Gen /\ channel = channel' /\ channel <= channel'
                BY <2>0, GenNat DEF LoopTypes
            <4> QED BY <3>1, <3>2, <4>1, LoopStarts, Zenon
        <3>5. Waiting' /\ OneLiveLoop'
            BY <2>0, <3>2, <3>3 DEF Waiting, OneLiveLoop, Started, LoopTypes
        <3> QED BY <3>4, <3>5
    <2>2. CASE ~(isActive /\ ~fanoutLoopStarted)
        <3>1. UNCHANGED <<pc, prev, fanoutLoopDone, fanoutLoopStarted>>
            BY <1>3, <2>2 DEF subscribe, startFanoutLoop
        <3> QED BY <2>0, <2>2, <3>1 DEF Chain, Handover, Waiting, OneLiveLoop, Started
    <2> QED BY <2>1, <2>2
<1>4. CASE close
    <2>0. ~isActive' /\ UNCHANGED <<channel, subscribers, fanoutLoopDone, prev>>
        BY <1>4 DEF close
    <2>1. CASE pc[channel] = "receiving"
        <3>0. pc' = [pc EXCEPT ![channel] = "rejected"]
            BY <1>4, <2>1 DEF close, LoopTypes
        <3>1. channel \in Gen /\ "rejected" \in LoopState \ {"none"} /\ Started(channel)
            BY <2>1 DEF LoopTypes, LoopState, Started
        <3>2. Chain'
            BY <2>0, <3>0, <3>1, ChainKept, Zenon
        <3>3. Handover'
            BY <2>1, <3>0, <3>1, HandoverKept, Zenon DEF Handover, Passed
        <3>4. Waiting' /\ OneLiveLoop'
            BY <2>0, <3>0, <3>1 DEF Waiting, OneLiveLoop, Started, LoopTypes
        <3> QED BY <3>2, <3>3, <3>4
    <2>2. CASE pc[channel] # "receiving"
        <3>1. pc' = pc
            BY <1>4, <2>2 DEF close, LoopTypes
        <3> QED BY <2>0, <2>2, <3>1 DEF Chain, Handover, Waiting, OneLiveLoop, Started
    <2> QED BY <2>1, <2>2
<1>5. CASE start
    <2>0. /\ isActive' /\ channel' = channel + 1 /\ channel' \in Gen /\ UNCHANGED subscribers
          /\ \A g \in Gen : pc[g] # "receiving"
        BY <1>5 DEF start, LoopTypes, Waiting
    <2>1. ~Started(channel') /\ pc[channel'] = "none"
        BY <2>0, GenNat DEF Chain, LoopTypes, Started
    <2>2. CASE subscribers = 0
        <3>1. UNCHANGED <<pc, prev, fanoutLoopDone>> /\ ~fanoutLoopStarted'
            BY <1>5, <2>2 DEF start, startFanoutLoop
        <3>2. Chain'
            BY <2>0, <3>1, GenNat DEF Chain, Started, LoopTypes
        <3> QED BY <2>0, <2>1, <2>2, <3>1, <3>2 DEF Handover, Waiting, OneLiveLoop, Started
    <2>3. CASE subscribers # 0
        <3>1. /\ pc' = [pc EXCEPT ![channel'] = "awaiting"] /\ fanoutLoopDone' = channel'
              /\ prev' = [prev EXCEPT ![channel'] = fanoutLoopDone]
            BY <1>5, <2>3 DEF start, startFanoutLoop
        <3>2. fanoutLoopStarted'
            BY <1>5, <2>3 DEF start, startFanoutLoop
        <3>3. Chain' /\ Handover'
            <4>1. channel \in Nat
                BY GenNat DEF LoopTypes
            <4>2. channel <= channel'
                BY <2>0, <4>1
            <4> QED BY <2>0, <2>1, <3>1, <4>2, LoopStarts, Zenon
        <3>4. \A g \in Gen : pc'[g] # "receiving" /\ (pc'[g] = "rejected" => pc[g] = "rejected")
            BY <2>0, <3>1 DEF LoopTypes
        <3>5. Waiting'
            <4>1. \A g \in Gen : pc'[g] = "rejected" => g # channel'
                BY <2>1, <3>4
            <4> QED BY <2>0, <2>3, <3>4, <4>1 DEF Waiting, LoopTypes
        <3>6. OneLiveLoop'
            BY <2>0, <3>1, <3>2 DEF OneLiveLoop, LoopTypes
        <3> QED BY <3>3, <3>5, <3>6
    <2> QED BY <2>2, <2>3
<1>6. ASSUME NEW g \in Gen, Started(g),
             UNCHANGED <<isActive, channel, subscribers, fanoutLoopDone, prev>>,
             \/ isActive /\ g = channel /\ receive(g)
             \/ ~(isActive /\ g = channel) /\ LoopExit(g),
             pc[g] # "done",
             \A h \in Gen : Started(h) /\ h < g => pc[h] = "done"
      PROVE  Chain' /\ Handover' /\ Waiting' /\ OneLiveLoop'
    <2>1. PICK x \in {"receiving", "got", "done"} : 
            /\ pc' = [pc EXCEPT ![g] = x]
            /\ x = "done" => ~(isActive /\ g = channel)
            /\ x # "done" => isActive /\ g = channel /\ UNCHANGED fanoutLoopStarted
        BY <1>6, Zenon DEF receive, LoopExit
    <2>2. x \in LoopState \ {"none"}
        BY DEF LoopState
    <2>3. Chain'
        BY <1>6, <2>1, <2>2, ChainKept, Zenon
    <2>4. Handover'
        BY <1>6, <2>1, <2>2, HandoverKept, Zenon
    <2>5. Waiting'
        BY <1>6, <2>1 DEF Waiting, Started, LoopTypes
    <2>6. OneLiveLoop'
        BY <1>6, <2>1, Zenon DEF OneLiveLoop, Started, LoopTypes, LoopExit
    <2> QED BY <2>3, <2>4, <2>5, <2>6
<1>7. ASSUME NEW g \in Gen, AwaitPrevious(g)
      PROVE  Chain' /\ Handover' /\ Waiting' /\ OneLiveLoop'
    <2>1. \A h \in Gen : Started(h) /\ h < g => pc[h] = "done"
        <3> SUFFICES ASSUME NEW h \in Gen, Started(h), h < g PROVE pc[h] = "done"
            OBVIOUS
        <3>1. Started(g) /\ h <= prev[g]
            BY <1>7 DEF AwaitPrevious, Started, Chain
        <3>2. prev[g] \in Gen /\ pc[prev[g]] = "done"
            BY <1>7, <3>1, GenNat DEF AwaitPrevious
        <3>3. CASE h < prev[g]
            BY <3>2, <3>3 DEF Handover, Passed
        <3>4. h \in Nat /\ prev[g] \in Nat
            BY <3>2, GenNat, Zenon
        <3>5. h < prev[g] \/ h = prev[g]
            BY <3>1, <3>4
        <3> QED BY <3>2, <3>3, <3>5
    <2> QED BY <1>6, <1>7, <2>1 DEF AwaitPrevious, LoopTop, Started
<1>8. ASSUME NEW g \in Gen, ReceiveRejected(g)
      PROVE  Chain' /\ Handover' /\ Waiting' /\ OneLiveLoop'
    BY <1>6, <1>8 DEF ReceiveRejected, Started, Waiting, Handover, Passed
<1>9. ASSUME NEW g \in Gen, CallFirstHandler(g)
      PROVE  Chain' /\ Handover' /\ Waiting' /\ OneLiveLoop'
    <2>0. /\ pc[g] = "got" /\ pc' = [pc EXCEPT ![g] = "handling"]
          /\ UNCHANGED <<isActive, channel, subscribers, fanoutLoopStarted, fanoutLoopDone, prev>>
        BY <1>9 DEF CallFirstHandler
    <2>1. "handling" \in LoopState \ {"none"} /\ Started(g)
        BY <2>0 DEF LoopState, Started
    <2>2. Chain'
        BY <2>0, <2>1, ChainKept, Zenon
    <2>3. Handover'
        BY <2>0, <2>1, HandoverKept, Zenon DEF Handover, Passed
    <2>4. Waiting' /\ OneLiveLoop'
        BY <2>0, <2>1 DEF Waiting, OneLiveLoop, Started, LoopTypes
    <2> QED BY <2>2, <2>3, <2>4
<1>10. ASSUME NEW g \in Gen, HandlerReturns(g)
       PROVE  Chain' /\ Handover' /\ Waiting' /\ OneLiveLoop'
    <2>1. CASE handler[g] < subscribers
        <3>1. UNCHANGED <<isActive, channel, subscribers, fanoutLoopStarted, fanoutLoopDone, prev, pc>>
            BY <1>10, <2>1 DEF HandlerReturns
        <3> QED BY <3>1 DEF Chain, Handover, Waiting, OneLiveLoop, Started
    <2>2. CASE ~(handler[g] < subscribers)
        BY <1>6, <1>10, <2>2 DEF HandlerReturns, LoopTop, Started, Handover, Passed
    <2> QED BY <2>1, <2>2
<1> QED
    BY <1>1, <1>2, <1>3, <1>4, <1>5, <1>7, <1>8, <1>9, <1>10 DEF Next, runFanoutLoop

-----------------------------------------------------------------------------
(* Appending to a buffer, to the pending sends or to what was taken.       *)
LEMMA AppendElements ==
  ASSUME NEW s \in Seq(Message), NEW m \in Message
  PROVE  /\ Elements(Append(s, m)) = Elements(s) \cup {m}
         /\ Injective(s) /\ m \notin Elements(s) => Injective(Append(s, m))
<1>1. /\ Len(Append(s, m)) = Len(s) + 1 /\ Len(s) \in Nat
      /\ \A i \in 1 .. Len(s) : Append(s, m)[i] = s[i]
      /\ Append(s, m)[Len(s) + 1] = m
    OBVIOUS
<1>2. 1 .. Len(s) + 1 = (1 .. Len(s)) \cup {Len(s) + 1}
    BY <1>1
<1>3. Elements(Append(s, m)) = Elements(s) \cup {m}
    BY <1>1, <1>2 DEF Elements
<1>4. Injective(s) /\ m \notin Elements(s) => Injective(Append(s, m))
    BY <1>1, <1>2 DEF Elements, Injective
<1> QED BY <1>3, <1>4

(* Taking the first of a buffer or of the pending sends (values.shift()).  *)
LEMMA TailElements ==
  ASSUME NEW s \in Seq(Message), s # <<>>, Injective(s)
  PROVE  /\ Head(s) \in Elements(s) /\ Head(s) \in Message
         /\ Elements(Tail(s)) = Elements(s) \ {Head(s)}
         /\ Injective(Tail(s)) /\ Len(Tail(s)) <= Len(s)
<1>1. /\ Len(s) \in Nat \ {0} /\ Len(Tail(s)) = Len(s) - 1
      /\ \A i \in 1 .. Len(s) - 1 : Tail(s)[i] = s[i + 1]
      /\ Head(s) = s[1] /\ Head(s) \in Message
    OBVIOUS
<1>2. 1 \in 1 .. Len(s) /\ (\A i \in 1 .. Len(s) - 1 : i + 1 \in 1 .. Len(s) /\ i + 1 # 1)
    BY <1>1
<1>3. \A j \in 1 .. Len(s) : j = 1 \/ (j - 1 \in 1 .. Len(s) - 1 /\ (j - 1) + 1 = j)
    BY <1>1
<1>4. Head(s) \in Elements(s)
    BY <1>1, <1>2 DEF Elements
<1>5. Elements(Tail(s)) \subseteq Elements(s) \ {Head(s)}
    BY <1>1, <1>2 DEF Elements, Injective
<1>6. Elements(s) \ {Head(s)} \subseteq Elements(Tail(s))
    <2> SUFFICES ASSUME NEW j \in 1 .. Len(s), s[j] # Head(s) PROVE s[j] \in Elements(Tail(s))
        BY DEF Elements
    <2>1. j - 1 \in 1 .. Len(Tail(s)) /\ Tail(s)[j - 1] = s[j]
        BY <1>1, <1>3
    <2> QED BY <2>1 DEF Elements
<1>7. Injective(Tail(s))
    <2> SUFFICES ASSUME NEW i \in 1 .. Len(s) - 1, NEW j \in 1 .. Len(s) - 1, Tail(s)[i] = Tail(s)[j]
                 PROVE  i = j
        BY <1>1 DEF Injective
    <2>1. i + 1 = j + 1
        BY <1>1, <1>2 DEF Injective
    <2> QED BY <2>1
<1> QED BY <1>1, <1>4, <1>5, <1>6, <1>7

(* An empty buffer, as reset by close().                                   *)
LEMMA EmptyElements == Elements(<<>>) = {} /\ Injective(<<>>)
  BY DEF Elements, Injective

(* The fields of the channels and what the loops took, as the proofs need  *)
(* them.                                                                   *)
BufferTypes ==
    /\ values \in [Gen -> Seq(Message)] /\ sends \in [Gen -> Seq(Message)]
    /\ order \in Seq(Message) /\ channel \in Gen
    /\ pc \in [Gen -> LoopState] /\ message \in [Gen -> 0 .. Messages]
    /\ enqueued \in [Message -> {"no", "waiting", "resolved", "rejected"}]

(* The fields that send and receive change have their type.                *)
LEMMA BuffersTyped == TypeOK => BufferTypes
  BY DEF TypeOK, BufferTypes

(* A message that was never offered to the queue is nowhere in it.         *)
LEMMA NewIsNowhere ==
  ASSUME BufferTypes, Places, NEW m \in Message, enqueued[m] = "no"
  PROVE  /\ \A g \in Gen : m \notin Elements(values[g]) /\ m \notin Elements(sends[g])
         /\ m \notin Elements(order)
  BY DEF Places, ToldRightly

(* enqueue, with Channel.send, keeps every message in its place.           *)
LEMMA EnqueuePlaces ==
  ASSUME BufferTypes, QueueBounds, LoopTypes, Places, NEW m \in Message, enqueue(m)
  PROVE  Places'
<1> USE DEF queue, loops, buffers, handling
<1>0. UNCHANGED <<isActive, channel>> /\ enqueued[m] = "no" /\ channel \in Gen
    BY DEF enqueue, BufferTypes
<1>1. /\ \A g \in Gen : m \notin Elements(values[g]) /\ m \notin Elements(sends[g])
      /\ m \notin Elements(order)
    BY <1>0, NewIsNowhere
<1>2. ASSUME NEW x \in {"waiting", "resolved", "rejected"}, enqueued' = [enqueued EXCEPT ![m] = x]
      PROVE  enqueued'[m] = x /\ \A k \in Message \ {m} : enqueued'[k] = enqueued[k]
    BY <1>2 DEF BufferTypes
<1>3. CASE /\ pc[channel] = "receiving"
           /\ pc' = [pc EXCEPT ![channel] = "got"]
           /\ message' = [message EXCEPT ![channel] = m]
           /\ order' = Append(order, m)
           /\ enqueued' = [enqueued EXCEPT ![m] = "resolved"]
           /\ UNCHANGED <<values, sends>>
    <2>1. Elements(order') = Elements(order) \cup {m} /\ Injective(order')
        BY <1>1, <1>3, AppendElements DEF BufferTypes, Places, HeldOnce
    <2>2. enqueued'[m] = "resolved" /\ \A k \in Message \ {m} : enqueued'[k] = enqueued[k]
        BY <1>2, <1>3
    <2>3. \A g \in Gen : g # channel => pc'[g] = pc[g] /\ message'[g] = message[g]
        BY <1>3 DEF BufferTypes
    <2>4. message'[channel] = m
        BY <1>0, <1>3 DEF BufferTypes
    <2>5. OnlyOpenHolds' /\ HeldOnce'
        BY <1>0, <1>3, <2>1 DEF Places, OnlyOpenHolds, HeldOnce
    <2>6. ToldRightly'
        <3>1. /\ \A g \in Gen : Elements(values[g]) \subseteq Message \ {m}
              /\ \A g \in Gen : Elements(sends[g]) \subseteq Message \ {m}
              /\ Elements(order) \subseteq Message \ {m}
            BY <1>1 DEF BufferTypes, Elements
        <3> QED BY <1>1, <1>3, <2>1, <2>2, <3>1 DEF Places, ToldRightly
    <2>7. HandlesTaken'
        BY <2>1, <2>3, <2>4 DEF Places, HandlesTaken
    <2> QED BY <2>5, <2>6, <2>7 DEF Places
<1>4. CASE /\ isActive /\ Len(values[channel]) < Capacity
           /\ values' = [values EXCEPT ![channel] = Append(@, m)]
           /\ enqueued' = [enqueued EXCEPT ![m] = "resolved"]
           /\ UNCHANGED <<sends, pc, message, order>>
    <2>1. /\ Elements(values'[channel]) = Elements(values[channel]) \cup {m} 
          /\ Injective(values'[channel])
          /\ Len(values'[channel]) <= Capacity
        <3>1. values'[channel] = Append(values[channel], m) /\ values[channel] \in Seq(Message)
            BY <1>0, <1>4 DEF BufferTypes
        <3>2. Len(values'[channel]) = Len(values[channel]) + 1 /\ Len(values[channel]) \in Nat
            BY <3>1
        <3>3. Len(values'[channel]) <= Capacity
            BY <1>4, <3>2, QueueBounds
        <3> QED BY <1>0, <1>1, <3>1, <3>3, AppendElements DEF Places, HeldOnce
    <2>2. enqueued'[m] = "resolved" /\ \A k \in Message \ {m} : enqueued'[k] = enqueued[k]
        BY <1>2, <1>4
    <2>3. \A g \in Gen : g # channel => values'[g] = values[g]
        BY <1>4 DEF BufferTypes
    <2>4. OnlyOpenHolds' /\ HeldOnce' /\ HandlesTaken'
        BY <1>0, <1>4, <2>1, <2>3 DEF Places, OnlyOpenHolds, HeldOnce, HandlesTaken
    <2>5. ToldRightly'
        <3>1. /\ \A g \in Gen : Elements(values[g]) \subseteq Message \ {m}
              /\ \A g \in Gen : Elements(sends[g]) \subseteq Message \ {m}
              /\ Elements(order) \subseteq Message \ {m}
            BY <1>1 DEF BufferTypes, Elements
        <3>2. \A g \in Gen : Elements(values'[g]) \subseteq Elements(values[g]) \cup {m}
            BY <2>1, <2>3
        <3> QED BY <1>1, <1>4, <2>2, <3>1, <3>2, SMTT(30) DEF Places, ToldRightly
    <2> QED BY <2>4, <2>5 DEF Places
<1>5. CASE /\ isActive
           /\ sends' = [sends EXCEPT ![channel] = Append(@, m)]
           /\ enqueued' = [enqueued EXCEPT ![m] = "waiting"]
           /\ UNCHANGED <<values, pc, message, order>>
    <2>1. /\ Elements(sends'[channel]) = Elements(sends[channel]) \cup {m} 
          /\ Injective(sends'[channel])
        <3>1. sends'[channel] = Append(sends[channel], m) /\ sends[channel] \in Seq(Message)
            BY <1>0, <1>5 DEF BufferTypes
        <3> QED BY <1>0, <1>1, <3>1, AppendElements DEF Places, HeldOnce
    <2>2. enqueued'[m] = "waiting" /\ \A k \in Message \ {m} : enqueued'[k] = enqueued[k]
        BY <1>2, <1>5
    <2>3. \A g \in Gen : g # channel => sends'[g] = sends[g]
        BY <1>5 DEF BufferTypes
    <2>4. OnlyOpenHolds' /\ HeldOnce' /\ HandlesTaken'
        BY <1>0, <1>5, <2>1, <2>3 DEF Places, OnlyOpenHolds, HeldOnce, HandlesTaken
    <2>5. ToldRightly'
        <3>1. /\ \A g \in Gen : Elements(values[g]) \subseteq Message \ {m}
              /\ \A g \in Gen : Elements(sends[g]) \subseteq Message \ {m}
              /\ Elements(order) \subseteq Message \ {m}
            BY <1>1 DEF BufferTypes, Elements
        <3>2. \A g \in Gen : /\ Elements(sends[g]) \subseteq Elements(sends'[g])
                             /\ Elements(sends'[g]) \subseteq Elements(sends[g]) \cup {m}
            BY <2>1, <2>3
        <3>3. m \in Elements(sends'[channel])
            BY <2>1
        <3>4. \A k \in Message : enqueued'[k] = "waiting" => \E g \in Gen : k \in Elements(sends'[g])
            BY <1>0, <2>2, <3>2, <3>3 DEF Places, ToldRightly
        <3>5. \A g \in Gen : \A k \in Elements(sends'[g]) : enqueued'[k] = "waiting"
            BY <2>2, <3>1, <3>2 DEF Places, ToldRightly
        <3> QED BY <1>5, <2>2, <3>1, <3>4, <3>5 DEF Places, ToldRightly
    <2> QED BY <2>4, <2>5 DEF Places
<1>6. CASE /\ enqueued' = [enqueued EXCEPT ![m] = "rejected"]
           /\ UNCHANGED <<values, sends, pc, message, order>>
    <2>1. enqueued'[m] = "rejected" /\ \A k \in Message \ {m} : enqueued'[k] = enqueued[k]
        BY <1>2, <1>6
    <2>2. OnlyOpenHolds' /\ HeldOnce' /\ HandlesTaken'
        BY <1>0, <1>6 DEF Places, OnlyOpenHolds, HeldOnce, HandlesTaken
    <2>3. /\ \A g \in Gen : Elements(values[g]) \subseteq Message \ {m}
          /\ \A g \in Gen : Elements(sends[g]) \subseteq Message \ {m}
          /\ Elements(order) \subseteq Message \ {m}
        BY <1>1 DEF BufferTypes, Elements
    <2>4. ToldRightly'
        BY <1>6, <2>1, <2>3 DEF Places, ToldRightly
    <2> QED BY <2>2, <2>4 DEF Places
<1> QED BY <1>3, <1>4, <1>5, <1>6 DEF enqueue, send

(* close empties the open channel and rejects the waiting senders.         *)
LEMMA ClosePlaces ==
  ASSUME BufferTypes, Places, close, QueueBounds
  PROVE  Places'
<1> USE DEF queue, loops, buffers, handling
<1>1. \A g \in Gen : values'[g] = <<>> /\ sends'[g] = <<>>
    BY DEF close, BufferTypes, Places, OnlyOpenHolds
<1>2. OnlyOpenHolds'
    BY <1>1 DEF OnlyOpenHolds
<1>3. HeldOnce'
    <2>1. Len(<<>>) <= Capacity
        BY QueueBounds
    <2>2. order' = order
        BY DEF close
    <2> QED BY <1>1, <2>1, <2>2, EmptyElements DEF HeldOnce, Places
<1>4. ToldRightly'
    <2>1. \A m \in Message : /\ enqueued'[m] # "waiting"
                             /\ enqueued[m] = "resolved" => enqueued'[m] = "resolved"
        BY DEF close, BufferTypes
    <2>2. order' = order /\ Elements(order) \subseteq Message
        BY DEF close, BufferTypes, Elements
    <2> QED BY <1>1, <2>1, <2>2, EmptyElements DEF ToldRightly, Places
<1>5. HandlesTaken'
    BY DEF close, BufferTypes, Places, HandlesTaken
<1> QED BY <1>2, <1>3, <1>4, <1>5 DEF Places

(* subscribe and start touch no message: only a loop may start.            *)
LEMMA StartPlaces ==
  ASSUME BufferTypes, Places, subscribe \/ start
  PROVE  Places'
<1> USE DEF queue, loops, buffers, handling
<1>1. UNCHANGED <<values, sends, message, order, enqueued>>
    BY Zenon DEF subscribe, start
<1>2. \A g \in Gen : pc'[g] = pc[g] \/ pc'[g] = "awaiting"
    BY DEF subscribe, start, startFanoutLoop, BufferTypes
<1>3. (isActive' = isActive /\ channel' = channel) \/ ~isActive
    BY Zenon DEF subscribe, start
<1>4. OnlyOpenHolds'
    BY <1>1, <1>3 DEF OnlyOpenHolds, Places
<1>5. HandlesTaken'
    BY <1>1, <1>2 DEF HandlesTaken, Places
<1>6. HeldOnce' /\ ToldRightly'
    BY <1>1 DEF HeldOnce, ToldRightly, Places
<1> QED BY <1>4, <1>5, <1>6 DEF Places

(* Channel.receive takes the oldest buffered message, or wakes the oldest  *)
(* sender and takes its message, or waits.                                 *)
LEMMA ReceivePlaces ==
  ASSUME BufferTypes, Places, NEW g \in Gen, receive(g), isActive, g = channel,
         UNCHANGED <<isActive, channel>>
  PROVE  Places'
<1> USE DEF queue, loops, buffers, handling
<1>0. /\ values[g] \in Seq(Message) /\ sends[g] \in Seq(Message)
      /\ Injective(values[g]) /\ Injective(sends[g])
    BY DEF BufferTypes, Places, HeldOnce
<1>1. /\ \A h \in Gen : Elements(values[h]) \subseteq Message
      /\ \A h \in Gen : Elements(sends[h]) \subseteq Message
      /\ Elements(order) \subseteq Message
    BY DEF BufferTypes, Elements
<1>2. CASE values[g] # <<>>
    <2> DEFINE m == Head(values[g])
    <2>1. /\ values' = [values EXCEPT ![g] = Tail(@)]
          /\ message' = [message EXCEPT ![g] = m]
          /\ pc' = [pc EXCEPT ![g] = "got"]
          /\ UNCHANGED <<sends, enqueued>>
        BY <1>2 DEF receive
    <2>2. order' = Append(order, m)
        BY <1>2, <2>1 DEF receive, BufferTypes
    <2>3. /\ m \in Elements(values[g]) /\ m \in Message
          /\ Elements(values'[g]) = Elements(values[g]) \ {m}
          /\ Injective(values'[g]) /\ Len(values'[g]) <= Capacity
        <3>1. values'[g] = Tail(values[g])
            BY <2>1 DEF BufferTypes
        <3>2. Len(Tail(values[g])) \in Nat /\ Len(values[g]) \in Nat /\ Capacity \in Nat
            BY <1>0, <1>2, QueueBounds
        <3>3. Len(values[g]) <= Capacity /\ Len(Tail(values[g])) <= Len(values[g])
            BY <1>0, <1>2, TailElements DEF Places, HeldOnce
        <3>4. Len(Tail(values[g])) <= Capacity
            BY <3>2, <3>3
        <3> QED BY <1>0, <1>2, <3>1, <3>4, TailElements
    <2>4. m \notin Elements(order) /\ enqueued[m] = "resolved"
        BY <2>3 DEF Places, ToldRightly
    <2>5. Elements(order') = Elements(order) \cup {m} /\ Injective(order')
        BY <2>2, <2>3, <2>4, AppendElements DEF BufferTypes, Places, HeldOnce
    <2>6. \A h \in Gen : h # g => /\ values'[h] = values[h] /\ values[h] = <<>>
                                  /\ pc'[h] = pc[h] /\ message'[h] = message[h]
        BY <2>1 DEF BufferTypes, Places, OnlyOpenHolds
    <2>7. message'[g] = m
        BY <2>1 DEF BufferTypes
    <2> HIDE DEF m
    <2>8. OnlyOpenHolds' /\ HeldOnce'
        BY <2>1, <2>3, <2>5, <2>6 DEF Places, OnlyOpenHolds, HeldOnce
    <2>9. ToldRightly'
        <3>1. \A h \in Gen : \A k \in Elements(values'[h]) :
                enqueued'[k] = "resolved" /\ k \notin Elements(order')
            BY <2>1, <2>3, <2>5, <2>6, EmptyElements DEF Places, ToldRightly
        <3> QED BY <2>1, <2>4, <2>5, <3>1 DEF Places, ToldRightly
    <2>10. HandlesTaken'
        BY <2>5, <2>6, <2>7 DEF Places, HandlesTaken
    <2> QED BY <2>8, <2>9, <2>10 DEF Places
<1>3. CASE values[g] = <<>> /\ sends[g] # <<>>
    <2> DEFINE m == Head(sends[g])
    <2>1. /\ sends' = [sends EXCEPT ![g] = Tail(@)]
          /\ message' = [message EXCEPT ![g] = m]
          /\ pc' = [pc EXCEPT ![g] = "got"]
          /\ enqueued' = [enqueued EXCEPT ![m] = "resolved"]
          /\ values' = values
        BY <1>3 DEF receive
    <2>2. order' = Append(order, m)
        BY <1>3, <2>1 DEF receive, BufferTypes
    <2>3. /\ m \in Elements(sends[g]) /\ m \in Message
          /\ Elements(sends'[g]) = Elements(sends[g]) \ {m}
          /\ Injective(sends'[g])
        <3>1. sends'[g] = Tail(sends[g])
            BY <2>1 DEF BufferTypes
        <3> QED BY <1>0, <1>3, <3>1, TailElements
    <2>4. m \notin Elements(order) /\ enqueued[m] = "waiting"
        BY <2>3 DEF Places, ToldRightly
    <2>5. Elements(order') = Elements(order) \cup {m} /\ Injective(order')
        BY <2>2, <2>3, <2>4, AppendElements DEF BufferTypes, Places, HeldOnce
    <2>6. \A h \in Gen : h # g => /\ sends'[h] = sends[h] /\ sends[h] = <<>>
                                  /\ pc'[h] = pc[h] /\ message'[h] = message[h]
        BY <2>1 DEF BufferTypes, Places, OnlyOpenHolds
    <2>7. \A h \in Gen : values[h] = <<>>
        BY <1>3 DEF Places, OnlyOpenHolds
    <2>8. message'[g] = m /\ enqueued'[m] = "resolved" /\ \A k \in Message \ {m} : enqueued'[k] = enqueued[k]
        BY <2>1, <2>3 DEF BufferTypes
    <2> HIDE DEF m
    <2>9. OnlyOpenHolds' /\ HeldOnce'
        BY <2>1, <2>3, <2>5, <2>6 DEF Places, OnlyOpenHolds, HeldOnce
    <2>10. ToldRightly'
        <3>1. \A h \in Gen : \A k \in Elements(values'[h]) :
                enqueued'[k] = "resolved" /\ k \notin Elements(order')
            BY <2>1, <2>7, EmptyElements
        <3>2. \A h \in Gen : \A k \in Elements(sends'[h]) : enqueued'[k] = "waiting"
            BY <1>1, <2>3, <2>6, <2>8, EmptyElements, SMTT(30) DEF Places, ToldRightly
        <3>3. \A k \in Elements(order') : enqueued'[k] = "resolved"
            BY <1>1, <2>5, <2>8 DEF Places, ToldRightly
        <3>4. ASSUME NEW k \in Message, enqueued'[k] = "waiting" PROVE k \in Elements(sends'[g])
            <4>1. k # m /\ enqueued[k] = "waiting"
                BY <2>8, <3>4
            <4>2. k \in Elements(sends[g])
                BY <2>6, <4>1, EmptyElements DEF Places, ToldRightly
            <4> QED BY <2>3, <4>1, <4>2
        <3> QED BY <3>1, <3>2, <3>3, <3>4 DEF ToldRightly
    <2>11. HandlesTaken'
        BY <2>5, <2>6, <2>8, SMTT(30) DEF Places, HandlesTaken
    <2> QED BY <2>9, <2>10, <2>11 DEF Places
<1>4. CASE values[g] = <<>> /\ sends[g] = <<>>
    <2>1. UNCHANGED <<values, sends, message, enqueued, order>> /\ pc' = [pc EXCEPT ![g] = "receiving"]
        BY <1>4 DEF receive
    <2>2. HandlesTaken'
        BY <2>1 DEF HandlesTaken, Places, BufferTypes
    <2> QED BY <2>1, <2>2 DEF Places, OnlyOpenHolds, HeldOnce, ToldRightly
<1> QED BY <1>2, <1>3, <1>4

(* A step of a loop that moves no message: an exit, a handler call.        *)
LEMMA QuietLoopPlaces ==
  ASSUME BufferTypes, Places, NEW g \in Gen, NEW x,
         x \in {"got", "handling"} => pc[g] \in {"got", "handling"},
         pc' = [pc EXCEPT ![g] = x],
         UNCHANGED <<isActive, channel, values, sends, message, order, enqueued>>
  PROVE  Places'
<1>1. HandlesTaken'
    BY DEF HandlesTaken, Places, BufferTypes
<1> QED BY <1>1 DEF Places, OnlyOpenHolds, HeldOnce, ToldRightly

(* Every step of the queue keeps every message in its place.               *)
LEMMA PlacesStep == IInv /\ [Next]_vars => Places'
<1> SUFFICES ASSUME BufferTypes, LoopTypes, Places, [Next]_vars
             PROVE  Places'
    BY BuffersTyped, LoopTyped DEF IInv, LoopInv
<1> USE DEF queue, loops, buffers, handling
<1>1. CASE UNCHANGED vars
    BY <1>1 DEF vars, Places, OnlyOpenHolds, HeldOnce, ToldRightly, HandlesTaken
<1>2. ASSUME NEW m \in Message, enqueue(m) PROVE Places'
    BY <1>2, EnqueuePlaces, QueueBounds
<1>3. CASE subscribe \/ start
    BY <1>3, StartPlaces
<1>4. CASE close
    BY <1>4, ClosePlaces, QueueBounds
<1>5. ASSUME NEW g \in Gen, LoopTop(g), UNCHANGED <<isActive, channel>> PROVE Places'
    <2>1. CASE isActive /\ g = channel
        BY <1>5, <2>1, ReceivePlaces DEF LoopTop
    <2>2. CASE ~(isActive /\ g = channel)
        BY <1>5, <2>2, QuietLoopPlaces, Zenon DEF LoopTop, LoopExit
    <2> QED BY <2>1, <2>2
<1>6. ASSUME NEW g \in Gen, AwaitPrevious(g) PROVE Places'
    BY <1>5, <1>6 DEF AwaitPrevious
<1>7. ASSUME NEW g \in Gen, ReceiveRejected(g) PROVE Places'
    BY <1>7, QuietLoopPlaces, Zenon DEF ReceiveRejected, LoopExit
<1>8. ASSUME NEW g \in Gen, CallFirstHandler(g) PROVE Places'
    BY <1>8, QuietLoopPlaces, Zenon DEF CallFirstHandler
<1>9. ASSUME NEW g \in Gen, HandlerReturns(g) PROVE Places'
    <2>1. CASE handler[g] < subscribers
        BY <1>9, <2>1 DEF HandlerReturns, Places, OnlyOpenHolds, HeldOnce, ToldRightly, HandlesTaken
    <2>2. CASE ~(handler[g] < subscribers)
        BY <1>5, <1>9, <2>2 DEF HandlerReturns
    <2> QED BY <2>1, <2>2, SMTT(30)
<1> QED BY <1>1, <1>2, <1>3, <1>4, <1>6, <1>7, <1>8, <1>9 DEF Next, runFanoutLoop

(* The inductive invariant of the queue: the chain of loops over the       *)
(* restarts, and where each message is.                                    *)
THEOREM QueueInvariant == Spec => []IInv
<1>1. IInv /\ [Next]_vars => IInv'
    BY TypeStep, LoopStep, PlacesStep DEF IInv, LoopInv
<1> QED BY <1>1, InitIInv, PTL DEF Spec

(* Two loops never hold a message at the same time: the handover.          *)
LEMMA HandoverIsSerial == TypeOK /\ Handover => SerialDelivery
<1> SUFFICES ASSUME TypeOK, Handover, NEW g \in Gen, NEW h \in Gen,
                    pc[g] \in {"got", "handling"}, pc[h] \in {"got", "handling"}, g # h
             PROVE  FALSE
    BY DEF SerialDelivery
<1>1. g < h \/ h < g
    BY GenNat
<1> QED BY <1>1 DEF Handover, Passed, Started

(* In every state the queue delivers serially across restarts, has one     *)
(* live loop on an open channel with subscribers, keeps every message in   *)
(* one place, never takes one twice, keeps the buffer within its capacity, *)
(* and keeps exactly the senders waiting whose messages are pending.       *)
THEOREM QueueIsSound == Spec => []QueueSound
<1>1. IInv => QueueSound
    <2> SUFFICES ASSUME IInv PROVE QueueSound
        OBVIOUS
    <2>1. SerialDelivery /\ OneLiveLoop
        BY HandoverIsSerial DEF IInv, LoopInv
    <2>2. \A i, j \in 1 .. Len(order) : order[i] = order[j] => i = j
        BY DEF IInv, Places, HeldOnce, Injective
    <2>3. Buffered \cap Elements(order) = {}
        <3> SUFFICES ASSUME NEW g \in Gen, NEW m \in Elements(values[g]) \cup Elements(sends[g])
                     PROVE  m \notin Elements(order)
            BY DEF Buffered
        <3> QED BY DEF IInv, Places, ToldRightly
    <2>4. \A m \in Message :
            enqueued[m] = "waiting" <=> \E g \in Gen : m \in Elements(sends[g])
        BY DEF IInv, Places, ToldRightly
    <2>5. \A g \in Gen : Len(values[g]) <= Capacity
        BY DEF IInv, Places, HeldOnce
    <2> QED BY <2>1, <2>2, <2>3, <2>4, <2>5 DEF QueueSound, NoDuplication
<1> QED BY <1>1, QueueInvariant, PTL

-----------------------------------------------------------------------------
(* The state of the mailbox that the queue implements. *)
Current == UNION {InHand(g) : g \in Gen}
Finished == {m \in Message : /\ enqueued[m] # "no"
                             /\ m \notin Buffered
                             /\ \A g \in Gen : m \notin InHand(g)}
Seen == {m \in Message : enqueued[m] # "no"}
Holds(g) == pc[g] \in {"got", "handling"}

(* What is buffered is in the open channel; what is in hand is one         *)
(* message; what is finished is the rest of what was offered.              *)
Mapping ==
    /\ Buffered = Elements(values[channel]) \cup Elements(sends[channel])
    /\ ~isActive => Buffered = {}
    /\ \A g \in Gen : Holds(g) => Current = {message[g]}
    /\ (\A g \in Gen : ~Holds(g)) => Current = {}
    /\ Finished = Seen \ (Buffered \cup Current)
    /\ Buffered \cup Current \subseteq Seen
    /\ Buffered \cap Current = {}

(* The mailbox that the fields of the queue and its channels stand for.    *)
LEMMA MailboxState == IInv => Mapping
<1> SUFFICES ASSUME IInv PROVE Mapping
    OBVIOUS
<1>1. BufferTypes /\ Places /\ SerialDelivery
    BY BuffersTyped, HandoverIsSerial DEF IInv, LoopInv
<1>2. /\ Buffered = Elements(values[channel]) \cup Elements(sends[channel])
      /\ ~isActive => Buffered = {}
    <2>1. \A g \in Gen : ~(isActive /\ g = channel) => Elements(values[g]) \cup Elements(sends[g]) = {}
        BY <1>1, EmptyElements DEF Places, OnlyOpenHolds
    <2> QED BY <1>1, <2>1, Zenon DEF Buffered, BufferTypes
<1>3. \A g \in Gen : Holds(g) => Current = {message[g]}
    BY <1>1 DEF Current, InHand, Holds, SerialDelivery
<1>4. (\A g \in Gen : ~Holds(g)) => Current = {}
    BY DEF Current, InHand, Holds
<1>5. Finished = Seen \ (Buffered \cup Current)
    BY DEF Finished, Seen, Current
<1>6. \A m \in Current : m \in Elements(order)
    BY <1>1 DEF Current, InHand, Places, HandlesTaken
<1>7. /\ \A m \in Buffered : m \notin Elements(order) /\ m \in Message /\ enqueued[m] # "no"
    <2>1. ASSUME NEW g \in Gen, NEW m \in Elements(values[g]) \cup Elements(sends[g])
          PROVE  m \notin Elements(order) /\ m \in Message /\ enqueued[m] # "no"
        <3>1. m \in Message
            BY <1>1, <2>1 DEF BufferTypes, Elements
        <3> QED BY <1>1, <2>1, <3>1 DEF Places, ToldRightly
    <2> QED BY <2>1 DEF Buffered
<1>8. \A m \in Elements(order) : m \in Message /\ enqueued[m] # "no"
    <2>1. Elements(order) \subseteq Message
        BY <1>1 DEF BufferTypes, Elements
    <2> QED BY <1>1, <2>1 DEF Places, ToldRightly
<1>9. Buffered \cup Current \subseteq Seen /\ Buffered \cap Current = {}
    BY <1>6, <1>7, <1>8 DEF Seen
<1> QED BY <1>2, <1>3, <1>4, <1>5, <1>9 DEF Mapping

(* The abstract steps, by what they do to what is offered, buffered and in *)
(* hand.                                                                   *)
LEMMA MailboxStep ==
  ASSUME IInv, IInv',
         \/ \E m \in Message : /\ m \notin Seen /\ Seen' = Seen \cup {m}
                               /\ \/ Buffered' = Buffered \cup {m} /\ Current' = Current
                                  \/ Buffered' = Buffered /\ Current = {} /\ Current' = {m}
                                  \/ Buffered' = Buffered /\ Current' = Current
         \/ \E m \in Buffered : Seen' = Seen /\ Buffered' = Buffered \ {m} /\ Current' = {m}
         \/ Seen' = Seen /\ Buffered' = Buffered /\ Current' = {}
         \/ Seen' = Seen /\ Buffered' = {} /\ Current' = Current
         \/ Seen' = Seen /\ Buffered' = Buffered /\ Current' = Current
  PROVE  [Mailbox!MNext]_(Mailbox!mvars)
<1>1. /\ Finished = Seen \ (Buffered \cup Current)
      /\ Buffered \cup Current \subseteq Seen
      /\ Buffered \cap Current = {}
    BY MailboxState DEF Mapping
<1>2. Finished' = Seen' \ (Buffered' \cup Current')
    <2>1. Mapping'
        BY MailboxState, PTL
    <2> QED BY <2>1 DEF Mapping
<1>3. Buffered \subseteq Message
    BY <1>1 DEF Seen
<1>4. ASSUME NEW m \in Message, m \notin Seen, Seen' = Seen \cup {m},
             Buffered' = Buffered \cup {m}, Current' = Current
      PROVE  Mailbox!Accept(m)
    <2>1. m \notin Buffered \cup Current \cup Finished /\ Finished' = Finished
        BY <1>1, <1>2, <1>4
    <2> QED BY <1>4, <2>1 DEF Mailbox!Accept, Current, Finished
<1>5. ASSUME NEW m \in Message, m \notin Seen, Seen' = Seen \cup {m},
             Buffered' = Buffered, Current = {}, Current' = {m}
      PROVE  Mailbox!AcceptAndTake(m)
    <2>1. m \notin Buffered \cup Finished /\ Finished' = Finished
        BY <1>1, <1>2, <1>5
    <2> QED BY <1>5, <2>1 DEF Mailbox!AcceptAndTake, Current, Finished
<1>6. ASSUME NEW m \in Message, m \notin Seen, Seen' = Seen \cup {m},
             Buffered' = Buffered, Current' = Current
      PROVE  Mailbox!Drop({m})
    <2>1. Buffered' = Buffered \ {m} /\ Finished' = Finished \cup {m}
        BY <1>1, <1>2, <1>6
    <2> QED BY <1>6, <2>1 DEF Mailbox!Drop, Current, Finished
<1>7. ASSUME NEW m \in Buffered, Seen' = Seen, Buffered' = Buffered \ {m}, Current' = {m}
      PROVE  Mailbox!Take(m)
    <2>1. Finished' = Finished \cup Current
        BY <1>1, <1>2, <1>7
    <2> QED BY <1>7, <2>1 DEF Mailbox!Take, Current, Finished
<1>8. ASSUME Seen' = Seen, Buffered' = Buffered, Current' = {}, Current # {}
      PROVE  Mailbox!Finish
    <2>1. Finished' = Finished \cup Current
        BY <1>1, <1>2, <1>8
    <2> QED BY <1>8, <2>1 DEF Mailbox!Finish, Current, Finished
<1>9. ASSUME NEW D \in SUBSET Message, D = Buffered, D # {},
             Seen' = Seen, Buffered' = {}, Current' = Current
      PROVE  Mailbox!Drop(D)
    <2>1. Buffered' = Buffered \ D /\ Finished' = Finished \cup D
        BY <1>1, <1>2, <1>9
    <2> QED BY <1>9, <2>1 DEF Mailbox!Drop, Current, Finished
<1>10. ASSUME Seen' = Seen, Buffered' = Buffered, Current' = Current
       PROVE  UNCHANGED Mailbox!mvars
    <2>1. Finished' = Finished
        BY <1>1, <1>2, <1>10
    <2> QED BY <1>10, <2>1 DEF Mailbox!mvars, Current, Finished
<1>11. \A m \in Message : {m} \in SUBSET Message
    OBVIOUS
<1>12. /\ \A m \in Message : Mailbox!Accept(m) \/ Mailbox!Take(m) \/ Mailbox!AcceptAndTake(m)
                              => Mailbox!MNext
       /\ Mailbox!Finish => Mailbox!MNext
       /\ \A D \in SUBSET Message : Mailbox!Drop(D) => Mailbox!MNext
    BY Zenon DEF Mailbox!MNext
<1>13. CASE \E m \in Message : /\ m \notin Seen /\ Seen' = Seen \cup {m}
                               /\ \/ Buffered' = Buffered \cup {m} /\ Current' = Current
                                  \/ Buffered' = Buffered /\ Current = {} /\ Current' = {m}
                                  \/ Buffered' = Buffered /\ Current' = Current
    BY <1>13, <1>4, <1>5, <1>6, <1>11, <1>12, Zenon
<1>14. CASE \E m \in Buffered : Seen' = Seen /\ Buffered' = Buffered \ {m} /\ Current' = {m}
    BY <1>14, <1>3, <1>7, <1>12
<1>15. CASE Seen' = Seen /\ Buffered' = Buffered /\ Current' = {}
    <2>1. CASE Current = {}
        BY <1>10, <1>15, <2>1
    <2> QED BY <1>8, <1>12, <1>15, <2>1
<1>16. CASE Seen' = Seen /\ Buffered' = {} /\ Current' = Current
    <2>1. CASE Buffered = {}
        BY <1>10, <1>16, <2>1
    <2>2. CASE Buffered # {}
        BY <1>3, <1>9, <1>12, <1>16, <2>2
    <2> QED BY <2>1, <2>2
<1>17. CASE Seen' = Seen /\ Buffered' = Buffered /\ Current' = Current
    BY <1>10, <1>17
<1> QED BY <1>13, <1>14, <1>15, <1>16, <1>17

(* A loop that waits in receive, or whose predecessor is done, is the only *)
(* one that may hold a message.                                            *)
LEMMA Alone ==
  ASSUME IInv, NEW g \in Gen, pc[g] \notin {"none", "done"},
         pc[g] = "awaiting" => prev[g] \in {0} \cup {h \in Gen : pc[h] = "done"}
  PROVE  \A h \in Gen : h # g => ~Holds(h)
<1> SUFFICES ASSUME NEW h \in Gen, h # g, Holds(h) PROVE FALSE
    OBVIOUS
<1>1. Chain /\ Handover /\ LoopTypes
    BY LoopTyped DEF IInv, LoopInv
<1>2. Started(g) /\ Started(h) /\ pc[h] \in Passed /\ pc[h] # "done"
    BY DEF Started, Holds, Passed
<1>3. g < h \/ h < g
    BY GenNat
<1>4. CASE g < h
    BY <1>1, <1>2, <1>4 DEF Handover
<1>5. CASE h < g
    <2>1. CASE pc[g] = "awaiting"
        <3>1. h <= prev[g]
            BY <1>1, <1>2, <1>5 DEF Chain
        <3>2. prev[g] \in Gen /\ pc[prev[g]] = "done"
            BY <2>1, <3>1, GenNat
        <3>3. h \in Nat /\ prev[g] \in Nat
            BY <3>2, GenNat, Zenon
        <3>4. h < prev[g]
            BY <1>2, <3>1, <3>2, <3>3
        <3> QED BY <1>1, <1>2, <3>2, <3>4 DEF Handover, Passed
    <2>2. CASE pc[g] # "awaiting"
        <3>1. pc[g] \in Passed
            BY <1>1, <2>2 DEF LoopTypes, LoopState, Passed
        <3> QED BY <1>1, <1>2, <1>5, <3>1 DEF Handover
    <2> QED BY <2>1, <2>2
<1> QED BY <1>3, <1>4, <1>5

(* Where no buffer, and no message in hand, changes.                       *)
LEMMA SameHands ==
  ASSUME BufferTypes, \A g \in Gen : (Holds(g)' <=> Holds(g)) /\ (Holds(g) => message'[g] = message[g])
  PROVE  Current' = Current
<1>1. \A g \in Gen : InHand(g)' = InHand(g)
    BY DEF InHand, Holds
<1> QED BY <1>1 DEF Current

(* Where the channels keep what they hold.                                 *)
LEMMA SameBuffers ==
  ASSUME UNCHANGED <<values, sends>> PROVE Buffered' = Buffered
  BY DEF Buffered

(* enqueue is Accept, AcceptAndTake when the loop waits, or Drop when the  *)
(* queue is closed.                                                        *)
LEMMA EnqueueMaps ==
  ASSUME IInv, IInv', Mapping, Mapping', BufferTypes, NEW m \in Message, enqueue(m)
  PROVE  /\ m \notin Seen /\ Seen' = Seen \cup {m}
         /\ \/ Buffered' = Buffered \cup {m} /\ Current' = Current
            \/ Buffered' = Buffered /\ Current = {} /\ Current' = {m}
            \/ Buffered' = Buffered /\ Current' = Current
<1> USE DEF queue, loops, buffers, handling
<1>0. UNCHANGED <<isActive, channel>> /\ enqueued[m] = "no" /\ channel \in Gen
    BY DEF enqueue, BufferTypes
<1>1. m \notin Seen
    BY <1>0 DEF Seen
<1>2. Seen' = Seen \cup {m}
    <2>1. PICK x \in {"waiting", "resolved", "rejected"} : enqueued' = [enqueued EXCEPT ![m] = x]
        BY DEF enqueue, send
    <2> QED BY <2>1 DEF Seen, BufferTypes
<1>3. CASE /\ pc[channel] = "receiving"
           /\ pc' = [pc EXCEPT ![channel] = "got"]
           /\ message' = [message EXCEPT ![channel] = m]
           /\ UNCHANGED <<values, sends>>
    <2>1. Buffered' = Buffered
        BY <1>3, SameBuffers
    <2>2. Current = {}
        <3>1. \A h \in Gen : h # channel => ~Holds(h)
            BY <1>0, <1>3, Alone, SMTT(30)
        <3> QED BY <1>3, <3>1 DEF Mapping, Holds
    <2>3. Current' = {m}
        <3>1. Holds(channel)' /\ message'[channel] = m
            BY <1>0, <1>3 DEF Holds, BufferTypes
        <3> QED BY <1>0, <3>1 DEF Mapping
    <2> QED BY <1>1, <1>2, <2>1, <2>2, <2>3
<1>4. CASE /\ UNCHANGED <<pc, message>>
           /\ \/ values' = [values EXCEPT ![channel] = Append(@, m)] /\ UNCHANGED sends
              \/ sends' = [sends EXCEPT ![channel] = Append(@, m)] /\ UNCHANGED values
    <2>1. Current' = Current
        BY <1>4, SameHands DEF Holds
    <2>2. \/ Elements(values'[channel]) = Elements(values[channel]) \cup {m} /\ UNCHANGED sends
          \/ Elements(sends'[channel]) = Elements(sends[channel]) \cup {m} /\ UNCHANGED values
        BY <1>0, <1>4, AppendElements, Zenon DEF BufferTypes
    <2>3. Buffered' = Elements(values'[channel]) \cup Elements(sends'[channel])
        BY <1>0, SMTT(30) DEF Mapping
    <2>4. Buffered' = Buffered \cup {m}
        BY <2>2, <2>3 DEF Mapping
    <2> QED BY <1>1, <1>2, <2>1, <2>4
<1>5. CASE UNCHANGED <<values, sends, pc, message>>
    <2>1. Current' = Current
        BY <1>5, SameHands DEF Holds
    <2> QED BY <1>1, <1>2, <1>5, <2>1, SameBuffers
<1> QED BY <1>3, <1>4, <1>5 DEF enqueue, send

(* The top of the loop, when no other loop holds a message, is Take or     *)
(* Finish.                                                                 *)
LEMMA LoopTopMaps ==
  ASSUME IInv, IInv', Mapping, Mapping', BufferTypes, NEW g \in Gen, LoopTop(g),
         UNCHANGED <<isActive, channel>>, \A h \in Gen : h # g => ~Holds(h)
  PROVE  \/ \E m \in Buffered : Seen' = Seen /\ Buffered' = Buffered \ {m} /\ Current' = {m}
         \/ Seen' = Seen /\ Buffered' = Buffered /\ Current' = {}
<1> USE DEF queue, loops, buffers, handling
<1>0. Places /\ \A h \in Gen : h # g => pc'[h] = pc[h]
    BY ZenonT(60) DEF IInv, LoopTop, receive, LoopExit, BufferTypes
<1>1. ASSUME ~Holds(g)', Seen' = Seen, UNCHANGED <<values, sends>>
      PROVE  Seen' = Seen /\ Buffered' = Buffered /\ Current' = {}
    <2>1. \A h \in Gen : ~Holds(h)'
        BY <1>0, <1>1 DEF Holds
    <2> QED BY <1>1, <2>1, SameBuffers, Zenon DEF Mapping
<1>2. CASE ~(isActive /\ g = channel)
    <2>1. LoopExit(g)
        BY <1>2 DEF LoopTop
    <2>2. ~Holds(g)' /\ Seen' = Seen
        BY <2>1 DEF LoopExit, Holds, Seen, BufferTypes
    <2> QED BY <1>1, <2>1, <2>2 DEF LoopExit
<1>3. CASE isActive /\ g = channel /\ values[g] = <<>> /\ sends[g] = <<>>
    <2>1. receive(g)
        BY <1>3 DEF LoopTop
    <2>2. ~Holds(g)' /\ Seen' = Seen /\ UNCHANGED <<values, sends>>
        BY <1>3, <2>1 DEF receive, Holds, Seen, BufferTypes
    <2> QED BY <1>1, <2>2
<1>4. CASE isActive /\ g = channel /\ values[g] # <<>>
    <2> DEFINE m == Head(values[g])
    <2>1. /\ values' = [values EXCEPT ![g] = Tail(@)] /\ message' = [message EXCEPT ![g] = m]
          /\ pc' = [pc EXCEPT ![g] = "got"] /\ UNCHANGED <<sends, enqueued>>
        BY <1>4, SMTT(30) DEF LoopTop, receive
    <2>2. /\ m \in Elements(values[g]) /\ Elements(values'[g]) = Elements(values[g]) \ {m}
        <3>1. values[g] \in Seq(Message) /\ Injective(values[g]) /\ values'[g] = Tail(values[g])
            BY <1>0, <2>1 DEF BufferTypes, Places, HeldOnce
        <3> QED BY <1>4, <3>1, TailElements
    <2>3. m \notin Elements(sends[g])
        BY <1>0, <2>2 DEF Places, ToldRightly
    <2>4. Holds(g)' /\ message'[g] = m /\ Seen' = Seen
        BY <2>1 DEF Holds, Seen, BufferTypes
    <2> HIDE DEF m
    <2>5. Current' = {m}
        BY <2>4, SMTT(30) DEF Mapping
    <2>6. Buffered' = Elements(values'[g]) \cup Elements(sends'[g])
        BY <1>4, SMTT(30) DEF Mapping
    <2>7. Buffered' = Buffered \ {m} /\ m \in Buffered
        BY <1>4, <2>1, <2>2, <2>3, <2>6 DEF Mapping
    <2> QED BY <2>4, <2>5, <2>7
<1>5. CASE isActive /\ g = channel /\ values[g] = <<>> /\ sends[g] # <<>>
    <2> DEFINE m == Head(sends[g])
    <2>1. /\ sends' = [sends EXCEPT ![g] = Tail(@)] /\ message' = [message EXCEPT ![g] = m]
          /\ pc' = [pc EXCEPT ![g] = "got"] /\ enqueued' = [enqueued EXCEPT ![m] = "resolved"]
          /\ UNCHANGED values
        BY <1>5 DEF LoopTop, receive
    <2>2. /\ m \in Elements(sends[g]) /\ Elements(sends'[g]) = Elements(sends[g]) \ {m}
        <3>1. sends[g] \in Seq(Message) /\ Injective(sends[g]) /\ sends'[g] = Tail(sends[g])
            BY <1>0, <2>1, SMTT(30) DEF BufferTypes, Places, HeldOnce
        <3> QED BY <1>5, <3>1, TailElements
    <2>3. enqueued[m] = "waiting"
        BY <1>0, <2>2 DEF Places, ToldRightly
    <2>4. Holds(g)' /\ message'[g] = m
        BY <2>1 DEF Holds, BufferTypes
    <2> HIDE DEF m
    <2>5. Seen' = Seen
        BY <2>1, <2>3, SMTT(30) DEF Seen, BufferTypes
    <2>6. Current' = {m}
        BY <2>4, SMTT(30) DEF Mapping
    <2>7. Buffered' = Elements(values'[g]) \cup Elements(sends'[g])
        BY <1>5, SMTT(30) DEF Mapping
    <2>8. Buffered' = Buffered \ {m} /\ m \in Buffered
        BY <1>5, <2>1, <2>2, <2>7, EmptyElements DEF Mapping
    <2> QED BY <2>5, <2>6, <2>8
<1> QED BY <1>2, <1>3, <1>4, <1>5

(* Each step of the queue is a step of the mailbox, or leaves it alone.    *)
LEMMA StepMaps == IInv /\ IInv' /\ [Next]_vars => [Mailbox!MNext]_(Mailbox!mvars)
<1> SUFFICES ASSUME IInv, IInv', Mapping, Mapping', BufferTypes, [Next]_vars
             PROVE  [Mailbox!MNext]_(Mailbox!mvars)
    BY MailboxState, BuffersTyped, PTL DEF IInv, LoopInv
<1> USE DEF queue, loops, buffers, handling
<1>1. ASSUME UNCHANGED <<values, sends, enqueued>>,
             \A g \in Gen : (Holds(g)' <=> Holds(g)) /\ (Holds(g) => message'[g] = message[g])
      PROVE  [Mailbox!MNext]_(Mailbox!mvars)
    <2>1. Seen' = Seen /\ Buffered' = Buffered /\ Current' = Current
        BY <1>1, SameHands, SameBuffers DEF Seen
    <2> QED BY <2>1, MailboxStep
<1>2. CASE UNCHANGED vars
    BY <1>1, <1>2 DEF vars, Holds
<1>3. ASSUME NEW m \in Message, enqueue(m) PROVE [Mailbox!MNext]_(Mailbox!mvars)
    BY <1>3, EnqueueMaps, MailboxStep
<1>4. CASE subscribe \/ start
    <2>1. UNCHANGED <<values, sends, enqueued, message>>
        BY <1>4, Zenon DEF subscribe, start
    <2>2. \A g \in Gen : pc'[g] = pc[g] \/ (pc[g] = "none" /\ pc'[g] = "awaiting")
        <3>1. LoopTypes /\ LoopTypes' /\ Chain /\ OneLiveLoop
            BY LoopTyped, PTL DEF IInv, LoopInv
        <3>2. CASE subscribe
            BY <3>1, <3>2 DEF subscribe, startFanoutLoop, OneLiveLoop, LoopTypes
        <3>3. CASE start
            <4>1. pc[channel'] = "none"
                BY <3>1, <3>3, GenNat DEF start, Chain, Started, LoopTypes
            <4> QED BY <3>1, <3>3, <4>1 DEF start, startFanoutLoop, LoopTypes
        <3> QED BY <1>4, <3>2, <3>3
    <2> QED BY <1>1, <2>1, <2>2 DEF Holds
<1>5. CASE close
    <2>1. Seen' = Seen
        BY <1>5 DEF close, Seen, BufferTypes
    <2>2. Current' = Current
        BY <1>5, SameHands DEF close, Holds, BufferTypes
    <2>3. Buffered' = {}
        BY <1>5 DEF close, Mapping
    <2> QED BY <2>1, <2>2, <2>3, MailboxStep
<1>6. ASSUME NEW g \in Gen, LoopTop(g), UNCHANGED <<isActive, channel>>,
             \A h \in Gen : h # g => ~Holds(h)
      PROVE  [Mailbox!MNext]_(Mailbox!mvars)
    BY <1>6, LoopTopMaps, MailboxStep
<1>7. ASSUME NEW g \in Gen, AwaitPrevious(g) PROVE [Mailbox!MNext]_(Mailbox!mvars)
    <2>1. \A h \in Gen : h # g => ~Holds(h)
        BY <1>7, Alone DEF AwaitPrevious
    <2> QED BY <1>6, <1>7, <2>1 DEF AwaitPrevious
<1>8. ASSUME NEW g \in Gen, ReceiveRejected(g) PROVE [Mailbox!MNext]_(Mailbox!mvars)
    BY <1>1, <1>8 DEF ReceiveRejected, LoopExit, Holds, BufferTypes
<1>9. ASSUME NEW g \in Gen, CallFirstHandler(g) PROVE [Mailbox!MNext]_(Mailbox!mvars)
    BY <1>1, <1>9 DEF CallFirstHandler, Holds, BufferTypes
<1>10. ASSUME NEW g \in Gen, HandlerReturns(g) PROVE [Mailbox!MNext]_(Mailbox!mvars)
    <2>1. CASE handler[g] < subscribers
        BY <1>1, <1>10, <2>1 DEF HandlerReturns, Holds
    <2>2. CASE ~(handler[g] < subscribers)
        <3>1. \A h \in Gen : h # g => ~Holds(h)
            BY <1>10, Alone DEF HandlerReturns
        <3> QED BY <1>6, <1>10, <2>2, <3>1 DEF HandlerReturns
    <2> QED BY <2>1, <2>2
<1> QED BY <1>2, <1>3, <1>4, <1>5, <1>7, <1>8, <1>9, <1>10 DEF Next, runFanoutLoop

(* The queue, with its buffering, backpressure, restarts and overlapping   *)
(* loops, implements the serial mailbox: a message is accepted once, the   *)
(* handlers of one message have all returned before the next is handed     *)
(* over, and none is handed over twice.                                    *)
THEOREM QueueIsMailbox == Spec => ImplementsMailbox
<1>1. Init => Mailbox!MInit
    <2> SUFFICES ASSUME Init PROVE Mailbox!MInit
        OBVIOUS
    <2>1. Buffered = {}
        BY EmptyElements DEF Init, Buffered
    <2>2. \A g \in Gen : InHand(g) = {}
        BY DEF Init, InHand
    <2>3. Current = {} /\ Finished = {}
        BY <2>2 DEF Init, Current, Finished
    <2> QED BY <2>1, <2>3 DEF Mailbox!MInit, Current, Finished
<1> QED BY <1>1, StepMaps, QueueInvariant, PTL DEF Spec, ImplementsMailbox, Mailbox!MSpec
=============================================================================
