------------------------- MODULE MqttToOpcUaProofs -------------------------
(***************************************************************************)
(* Theorems about MqttToOpcUa, for every queue length, number of retries,  *)
(* set of payloads and number of messages.                                 *)
(***************************************************************************)
EXTENDS MqttToOpcUa, SequenceTheorems, TLAPS

\* What bounds the message counter: the handler runs only for a message
\* within the bound.  TypeOK is inductive together with this.
CounterInv == subPc \in {"send", "confirm", "give"} => it < MaxMessages

TypeInv == TypeOK /\ CounterInv

\* update writes three nodes, one after the other.
LEMMA FieldOrderLength == Len(FieldOrder) = 3 /\ 1..Len(FieldOrder) = {1, 2, 3}
BY DEF FieldOrder

\* Each node that update writes is one of the address space.
LEMMA FieldOrderFields == \A k \in 1..Len(FieldOrder) : FieldOrder[k] \in Fields
BY FieldOrderLength DEF FieldOrder, Fields

\* What fills an empty receive buffer is a message too.
LEMMA NoMessageType == NoMessage \in Message
BY BridgeAssumption DEF NoMessage, Message

\* The variables of both tasks keep their types.
THEOREM TypeInvariant == Spec => []TypeInv
<1> USE QueueLengthAssumption, MaxEventsAssumption, BridgeAssumption,
        FieldOrderLength, NoMessageType
    DEF TypeInv, CounterInv, TypeOK, Unset, Mqtt, OpcUa, Available
<1>1. Init => TypeInv
  <2> SUFFICES ASSUME Init PROVE TypeInv
    OBVIOUS
  <2>1. nodes \in [Fields -> (0..MaxMessages) \cup {Unset}]
    BY DEF Init
  <2>2. queue \in Seq(Message) /\ Len(queue) <= QueueLength
    BY DEF Init, KernelInit
  <2>3. attempts \in 0..ConnectRetries /\ it \in 0..MaxMessages
    BY DEF Init
  <2>4. /\ outdated \subseteq {Mqtt, OpcUa}
        /\ events \in 0..MaxEvents /\ replacing \in BOOLEAN
    <3>1. outdated \subseteq {Mqtt, OpcUa}  BY DEF Init, KernelInit
    <3>2. events \in 0..MaxEvents  BY DEF Init, KernelInit
    <3>3. replacing \in BOOLEAN  BY DEF Init, KernelInit
    <3>4. QED  BY <3>1, <3>2, <3>3
  <2>5. QED  BY <2>1, <2>2, <2>3, <2>4 DEF Init, KernelInit
<1>2. ASSUME TypeInv, [Next]_vars PROVE TypeInv'
  <2> USE <1>2 DEF subVars, opcVars, TakeMutex, TakeTimesOut, GiveMutex,
                   SendToQueue, SendTimesOut, ReceiveFromQueue,
                   ReceiveTimesOut, HandlerReturns
  <2>0. /\ outdated' \subseteq {Mqtt, OpcUa}
        /\ events' \in 0..MaxEvents /\ replacing' \in BOOLEAN
    <3>1. CASE Runs(Mqtt) \/ Runs(OpcUa)
      BY <3>1 DEF Runs, handlerVars
    <3>2. CASE EventReplacesMutex
      BY <3>2 DEF EventReplacesMutex, ReplaceMutex
    <3>3. CASE EventReplacesQueue
      BY <3>3 DEF EventReplacesQueue, ReplaceQueue
    <3>4. CASE UNCHANGED vars
      BY <3>4 DEF vars, handlerVars
    <3>5. CASE OpcSetupFails
      BY <3>5 DEF OpcSetupFails
    <3>6. QED  BY <3>1, <3>2, <3>3, <3>4, <3>5 DEF Next, SubStep, OpcStep
  <2>1. CASE SubTake  BY <2>0, <2>1 DEF SubTake
  <2>2. CASE SubTakeTimesOut  BY <2>0, <2>2 DEF SubTakeTimesOut
  <2>3. CASE ConnectSucceeds  BY <2>0, <2>3 DEF ConnectSucceeds
  <2>4. CASE ConnectFails  BY <2>0, <2>4 DEF ConnectFails
  <2>5. CASE ConnectMqtt  BY <2>0, <2>5 DEF ConnectMqtt
  <2>6. CASE SubscribeSucceeds  BY <2>0, <2>6 DEF SubscribeSucceeds
  <2>7. CASE SubscribeFails  BY <2>0, <2>7 DEF SubscribeFails
  <2>8. CASE YieldFails  BY <2>0, <2>8 DEF YieldFails
  <2>9. CASE Disconnect  BY <2>0, <2>9 DEF Disconnect
  <2>10. CASE HandleMessage
    <3>1. tx' \in Message  BY <2>10 DEF HandleMessage, Message
    <3>2. QED  BY <2>0, <2>10, <3>1 DEF HandleMessage
  <2>11. CASE HandlerSends  BY <2>0, <2>11 DEF HandlerSends
  <2>12. CASE HandlerSendTimesOut  BY <2>0, <2>12 DEF HandlerSendTimesOut
  <2>13. CASE HandlerTakes  BY <2>0, <2>13 DEF HandlerTakes
  <2>14. CASE HandlerTakeTimesOut  BY <2>0, <2>14 DEF HandlerTakeTimesOut
  <2>15. CASE HandlerGives  BY <2>0, <2>15 DEF HandlerGives
  <2>16. CASE OpcTake  BY <2>0, <2>16 DEF OpcTake
  <2>17. CASE OpcFirstTakeTimesOut  BY <2>0, <2>17 DEF OpcFirstTakeTimesOut
  <2>18. CASE OpcSetup  BY <2>0, <2>18 DEF OpcSetup
  <2>19. CASE OpcSetupFails
    <3>1. attempts' \in 0..ConnectRetries /\ it' \in 0..MaxMessages
      BY <2>19 DEF OpcSetupFails
    <3>2. queue' \in Seq(Message) /\ Len(queue') <= QueueLength
      BY <2>19 DEF OpcSetupFails
    <3>3. QED  BY <2>0, <2>19, <3>1, <3>2 DEF OpcSetupFails
  <2>20. CASE OpcReceive  BY <2>0, <2>20 DEF OpcReceive
  <2>21. CASE OpcReceiveTimesOut  BY <2>0, <2>21 DEF OpcReceiveTimesOut
  <2>22. CASE OpcTakeUpdate  BY <2>0, <2>22 DEF OpcTakeUpdate
  <2>23. CASE OpcTakeTimesOut  BY <2>0, <2>23 DEF OpcTakeTimesOut
  <2>24. CASE OpcUpdate
    <3>1. nodes' \in [Fields -> (0..MaxMessages) \cup {Unset}]
      BY <2>24, FieldOrderFields DEF OpcUpdate, Message
    <3>2. applied' \in Seq(Message)  BY <2>24 DEF OpcUpdate
    <3>3. QED  BY <2>0, <2>24, <3>1, <3>2 DEF OpcUpdate
  <2>25. CASE OpcIterate  BY <2>0, <2>25 DEF OpcIterate
  <2>26. CASE OpcGive  BY <2>0, <2>26 DEF OpcGive
  <2>27. CASE OpcGiveElse  BY <2>0, <2>27 DEF OpcGiveElse
  <2>28. CASE EventReplacesMutex
    BY <2>0, <2>28 DEF EventReplacesMutex, ReplaceMutex
  <2>29. CASE EventReplacesQueue
    BY <2>0, <2>29 DEF EventReplacesQueue, ReplaceQueue
  <2>30. CASE UNCHANGED vars  BY <2>30 DEF vars, handlerVars
  <2>31. QED
    BY <2>1, <2>2, <2>3, <2>4, <2>5, <2>6, <2>7, <2>8, <2>9, <2>10, <2>11,
       <2>12, <2>13, <2>14, <2>15, <2>16, <2>17, <2>18, <2>19, <2>20, <2>21,
       <2>22, <2>23, <2>24, <2>25, <2>26, <2>27, <2>28,
       <2>29, <2>30
    DEF Next, SubStep, OpcStep, SubNext, OpcNext
<1>3. QED  BY <1>1, <1>2, PTL DEF Spec

\* Both tasks keep the types of their variables, the bounds of the queue, of the
\* retries of startClient and of the message counter included.
COROLLARY TypeCorrect == Spec => []TypeOK
BY TypeInvariant, PTL DEF TypeInv
-----------------------------------------------------------------------------
\* No path through either task keeps the mutex: it is inductive as it stands,
\* because every section ends in a Give and every Take opens one.
THEOREM MutexNotLeaked == Spec => []NoLeakedMutex
<1> USE DEF NoLeakedMutex, SubInSection, OpcInSection, Mqtt, OpcUa, Available
<1>1. Init => NoLeakedMutex
  BY DEF Init, KernelInit
<1>2. ASSUME NoLeakedMutex, [Next]_vars PROVE NoLeakedMutex'
  <2> USE <1>2 DEF subVars, opcVars, TakeMutex, TakeTimesOut, GiveMutex,
                   HandlerReturns
  <2>1. CASE SubNext
    BY <2>1 DEF SubNext, SubTake, SubTakeTimesOut, ConnectSucceeds,
       ConnectFails, ConnectMqtt, SubscribeSucceeds, SubscribeFails,
       YieldFails, Disconnect, HandleMessage, HandlerSends,
       HandlerSendTimesOut, HandlerTakes, HandlerTakeTimesOut, HandlerGives
  <2>2. CASE OpcNext
    BY <2>2 DEF OpcNext, OpcTake, OpcFirstTakeTimesOut, OpcSetup,
       OpcReceive, OpcReceiveTimesOut, OpcTakeUpdate,
       OpcTakeTimesOut, OpcUpdate, OpcIterate, OpcGive, OpcGiveElse
  <2>3. CASE EventReplacesMutex \/ EventReplacesQueue
    BY <2>3 DEF EventReplacesMutex, ReplaceMutex, EventReplacesQueue,
       ReplaceQueue
  <2>4. CASE UNCHANGED vars  BY <2>4 DEF vars
  <2>5. CASE OpcSetupFails  BY <2>5 DEF OpcSetupFails
  <2>6. QED  BY <2>1, <2>2, <2>3, <2>4, <2>5 DEF Next, SubStep, OpcStep
<1>3. QED  BY <1>1, <1>2, PTL DEF Spec
-----------------------------------------------------------------------------
(* Order.  A message's count is its place in the stream from the broker.   *)
(* Counts increase along applied, then rx while its message is pending,    *)
(* then the queue, then tx: a message only ever moves along this line or   *)
(* leaves it.  Before the OPC UA server is up nothing has been applied, so *)
(* that a restart, which counts from 0 again, breaks no order.             *)

Increasing(s) == \A i, j \in DOMAIN s : i < j => s[i].count < s[j].count
AllBelow(s, n) == \A i \in DOMAIN s : s[i].count < n
AllAbove(s, n) == \A i \in DOMAIN s : n < s[i].count

RxPending == opcPc \in {"takeUpdate", "update"}

\* The handler increments `it` after the message it counts is in the queue.
NextCount == IF subPc \in {"confirm", "give"} THEN it + 1 ELSE it

OrderInv ==
  /\ Increasing(applied) /\ Increasing(queue)
  /\ AllBelow(applied, NextCount) /\ AllBelow(queue, NextCount)
  /\ \A i \in DOMAIN applied : AllAbove(queue, applied[i].count)
  /\ RxPending => /\ AllBelow(applied, rx.count)
                  /\ AllAbove(queue, rx.count)
                  /\ rx.count < NextCount
  /\ subPc \in {"send", "confirm", "give"} => tx.count = it
  /\ opcPc \in {"take", "setup"} => DOMAIN applied = {}

\* What the queue operations do to the elements, index by index.
LEMMA AppendElements ==
  ASSUME NEW S, NEW s \in Seq(S), NEW e \in S
  PROVE  /\ Append(s, e) \in Seq(S)
         /\ DOMAIN Append(s, e) = 1..(Len(s) + 1)
         /\ DOMAIN s = 1..Len(s) /\ Len(s) \in Nat
         /\ \A i \in 1..Len(s) : Append(s, e)[i] = s[i]
         /\ Append(s, e)[Len(s) + 1] = e
OBVIOUS

\* What a receive leaves in the queue, index by index.
LEMMA TailElements ==
  ASSUME NEW S, NEW s \in Seq(S), s # << >>
  PROVE  /\ Tail(s) \in Seq(S)
         /\ Head(s) = s[1] /\ Head(s) \in S
         /\ DOMAIN Tail(s) = 1..(Len(s) - 1)
         /\ DOMAIN s = 1..Len(s) /\ Len(s) \in Nat /\ 1 \in DOMAIN s
         /\ \A i \in 1..(Len(s) - 1) : Tail(s)[i] = s[i + 1]
OBVIOUS

\* The counts of all messages are numbers, so that their order is one.
LEMMA CountsAreNat ==
  ASSUME TypeOK
  PROVE  /\ \A i \in DOMAIN applied : applied[i].count \in Nat
         /\ \A i \in DOMAIN queue : queue[i].count \in Nat
         /\ rx.count \in Nat
<1>1. \A m \in Message : m.count \in Nat
  BY BridgeAssumption DEF Message
<1>2. applied \in Seq(Message) /\ queue \in Seq(Message) /\ rx \in Message
  BY DEF TypeOK
<1>3. /\ \A i \in DOMAIN applied : applied[i] \in Message
      /\ \A i \in DOMAIN queue : queue[i] \in Message
  BY <1>2
<1>4. QED  BY <1>1, <1>2, <1>3

\* Where no message moves, the order stands.
LEMMA OrderFrame ==
  ASSUME OrderInv,
         UNCHANGED <<applied, queue, rx>>,
         RxPending' => RxPending,
         opcPc' \in {"take", "setup"} => opcPc \in {"take", "setup"},
         NextCount' \in Nat, NextCount \in Nat, NextCount <= NextCount',
         TypeOK, TypeOK',
         subPc' \in {"send", "confirm", "give"} => tx'.count = it'
  PROVE  OrderInv'
<1>1. /\ \A i \in DOMAIN applied : applied[i].count \in Nat
      /\ \A i \in DOMAIN queue : queue[i].count \in Nat
      /\ rx.count \in Nat
  BY CountsAreNat
<1>2. AllBelow(applied, NextCount') /\ AllBelow(queue, NextCount')
  BY <1>1 DEF OrderInv, AllBelow
<1>3. RxPending => rx.count < NextCount'
  BY <1>1 DEF OrderInv
<1>4. QED  BY <1>2, <1>3 DEF OrderInv

\* Every step of the two tasks keeps the line of messages in the order of their counts.
LEMMA OrderStep ==
  ASSUME TypeInv, TypeInv', OrderInv, [Next]_vars
  PROVE  OrderInv'
<1> USE QueueLengthAssumption, BridgeAssumption
<1>1. it \in Nat /\ it' \in Nat /\ NextCount \in Nat /\ NextCount' \in Nat
  <2>1. it \in Nat /\ it' \in Nat
    BY DEF TypeInv, TypeOK
  <2>2. it + 1 \in Nat /\ it' + 1 \in Nat
    <3>1. \A n \in Nat : n + 1 \in Nat  OBVIOUS
    <3>2. QED  BY <2>1, <3>1
  <2>3. NextCount \in {it, it + 1} /\ NextCount' \in {it', it' + 1}
    BY DEF NextCount
  <2>4. QED  BY <2>1, <2>2, <2>3
<1>2. TypeOK /\ TypeOK'
  BY DEF TypeInv
<1>3. ASSUME SubTake \/ SubTakeTimesOut \/ ConnectSucceeds \/ ConnectFails
              \/ ConnectMqtt \/ SubscribeSucceeds \/ SubscribeFails
              \/ YieldFails \/ Disconnect
      PROVE  OrderInv'
  <2>1. /\ UNCHANGED <<applied, queue, rx, it, tx, opcPc>>
        /\ subPc \notin {"send", "confirm", "give"}
        /\ subPc' \notin {"send", "confirm", "give"}
    BY <1>3 DEF SubTake, SubTakeTimesOut, ConnectSucceeds, ConnectFails,
       ConnectMqtt, SubscribeSucceeds, SubscribeFails, YieldFails, Disconnect,
       opcVars, subVars
  <2>2. NextCount' = NextCount  BY <2>1 DEF NextCount
  <2>3. QED  BY <1>1, <1>2, <2>1, <2>2, OrderFrame DEF RxPending
<1>4. ASSUME HandleMessage PROVE OrderInv'
  <2>1. /\ UNCHANGED <<applied, queue, rx, it, opcPc>>
        /\ subPc = "yield" /\ subPc' = "send" /\ tx'.count = it'
    BY <1>4 DEF HandleMessage, opcVars
  <2>2. NextCount' = NextCount  BY <2>1 DEF NextCount
  <2>3. QED  BY <1>1, <1>2, <2>1, <2>2, OrderFrame DEF RxPending
<1>5. ASSUME HandlerSends PROVE OrderInv'
  <2>1. /\ UNCHANGED <<applied, rx, it, tx, opcPc>>
        /\ subPc = "send" /\ subPc' = "confirm"
        /\ queue' = Append(queue, tx)
    BY <1>5 DEF HandlerSends, SendToQueue, opcVars
  <2>2. NextCount = it /\ NextCount' = it + 1 /\ tx.count = it
    BY <2>1 DEF NextCount, OrderInv
  <2>3. queue \in Seq(Message) /\ tx \in Message /\ applied \in Seq(Message)
        /\ rx \in Message
    BY <1>2 DEF TypeOK
  <2>4. /\ DOMAIN queue' = 1..(Len(queue) + 1)
        /\ DOMAIN queue = 1..Len(queue) /\ Len(queue) \in Nat
        /\ \A i \in 1..Len(queue) : queue'[i] = queue[i]
        /\ queue'[Len(queue) + 1] = tx
    BY <2>1, <2>3, AppendElements
  <2>5. /\ \A i \in DOMAIN queue : queue[i].count \in Nat
        /\ \A i \in DOMAIN applied : applied[i].count \in Nat
        /\ rx.count \in Nat
    BY <1>2, CountsAreNat
  <2>6. Increasing(queue') /\ AllBelow(queue', it + 1)
    <3>1. Increasing(queue) /\ \A i \in DOMAIN queue : queue[i].count < it
      BY <2>2 DEF OrderInv, AllBelow
    <3>2. \A i \in DOMAIN queue' : \/ i \in DOMAIN queue /\ queue'[i] = queue[i]
                                   \/ i = Len(queue) + 1 /\ queue'[i].count = it
      BY <2>2, <2>4
    <3>3. Increasing(queue')
      BY <2>4, <3>1, <3>2 DEF Increasing
    <3>4. AllBelow(queue', it + 1)
      BY <1>1, <2>5, <3>1, <3>2 DEF AllBelow
    <3>5. QED  BY <3>3, <3>4
  <2>7. \A i \in DOMAIN applied : AllAbove(queue', applied[i].count)
    BY <1>1, <2>2, <2>4, <2>5 DEF OrderInv, AllAbove, AllBelow
  <2>8. RxPending => AllAbove(queue', rx.count)
    BY <1>1, <2>2, <2>4, <2>5 DEF OrderInv, AllAbove, AllBelow
  <2>9. AllBelow(applied, it + 1) /\ (RxPending => rx.count < it + 1)
    BY <1>1, <2>2, <2>5 DEF OrderInv, AllBelow
  <2>10. QED
    BY <2>1, <2>2, <2>6, <2>7, <2>8, <2>9 DEF OrderInv, RxPending
<1>6. ASSUME HandlerSendTimesOut \/ HandlerTakes \/ HandlerTakeTimesOut
              \/ HandlerGives
      PROVE  OrderInv'
  <2>1. /\ UNCHANGED <<applied, queue, rx, opcPc>>
        /\ \/ subPc = "send" /\ subPc' = "yield" /\ it' = it + 1
           \/ subPc = "confirm" /\ subPc' = "give" /\ it' = it /\ tx' = tx
           \/ subPc \in {"confirm", "give"} /\ subPc' = "yield" /\ it' = it + 1
    BY <1>6 DEF HandlerSendTimesOut, HandlerTakes, HandlerTakeTimesOut,
       HandlerGives, HandlerReturns, SendTimesOut, opcVars
  <2>2. NextCount <= NextCount'
    <3>1. it + 1 <= it + 1 /\ it <= it + 1  BY <1>1
    <3>2. QED  BY <1>1, <2>1, <3>1 DEF NextCount
  <2>3. subPc' \in {"send", "confirm", "give"} => tx'.count = it'
    BY <2>1 DEF OrderInv
  <2>4. QED  BY <1>1, <1>2, <2>1, <2>2, <2>3, OrderFrame DEF RxPending
<1>7. ASSUME OpcTake \/ OpcFirstTakeTimesOut \/ OpcSetup
              \/ OpcReceiveTimesOut \/ OpcTakeUpdate \/ OpcTakeTimesOut
              \/ OpcIterate \/ OpcGive \/ OpcGiveElse
      PROVE  OrderInv'
  <2>1. /\ UNCHANGED <<applied, queue, rx, tx, it, subPc>>
        /\ RxPending' => RxPending
        /\ opcPc' \in {"take", "setup"} => opcPc \in {"take", "setup"}
    BY <1>7 DEF OpcTake, OpcFirstTakeTimesOut, OpcSetup,
       OpcReceiveTimesOut, OpcTakeUpdate, OpcTakeTimesOut, OpcIterate, OpcGive,
       OpcGiveElse, ReceiveTimesOut, RxPending, subVars, opcVars
  <2>2. NextCount' = NextCount  BY <2>1 DEF NextCount
  <2>3. subPc' \in {"send", "confirm", "give"} => tx'.count = it'
    BY <2>1 DEF OrderInv
  <2>4. QED  BY <1>1, <1>2, <2>1, <2>2, <2>3, OrderFrame
<1>8. ASSUME OpcReceive PROVE OrderInv'
  <2>1. /\ UNCHANGED <<applied, it, tx, subPc>>
        /\ opcPc' = "takeUpdate"
        /\ queue # << >> /\ queue' = Tail(queue) /\ rx' = Head(queue)
    BY <1>8 DEF OpcReceive, ReceiveFromQueue, subVars
  <2>2. NextCount' = NextCount  BY <2>1 DEF NextCount
  <2>3. queue \in Seq(Message) /\ applied \in Seq(Message)
    BY <1>2 DEF TypeOK
  <2>4. /\ rx' = queue[1] /\ 1 \in DOMAIN queue
        /\ DOMAIN queue' = 1..(Len(queue) - 1)
        /\ DOMAIN queue = 1..Len(queue) /\ Len(queue) \in Nat
        /\ \A i \in 1..(Len(queue) - 1) : queue'[i] = queue[i + 1]
    BY <2>1, <2>3, TailElements
  <2>5. \A i \in DOMAIN queue' : i + 1 \in DOMAIN queue /\ i \in Int
                                 /\ queue'[i] = queue[i + 1]
    BY <2>4
  <2>6. Increasing(queue') /\ AllBelow(queue', NextCount)
    BY <2>5 DEF OrderInv, Increasing, AllBelow
  <2>7. \A i \in DOMAIN applied : AllAbove(queue', applied[i].count)
    BY <2>5 DEF OrderInv, AllAbove
  <2>8. AllAbove(queue', rx'.count)
    <3> SUFFICES ASSUME NEW i \in DOMAIN queue'
                 PROVE  queue[1].count < queue[i + 1].count
      BY <2>4, <2>5 DEF AllAbove
    <3>1. i + 1 \in DOMAIN queue /\ 1 < i + 1
      BY <2>4, <2>5
    <3>2. QED  BY <2>4, <3>1 DEF OrderInv, Increasing
  <2>9. AllBelow(applied, rx'.count) /\ rx'.count < NextCount
    BY <2>4 DEF OrderInv, AllBelow, AllAbove
  <2>10. QED
    BY <2>1, <2>2, <2>6, <2>7, <2>8, <2>9 DEF OrderInv, RxPending
<1>9. ASSUME OpcUpdate PROVE OrderInv'
  <2>1. /\ UNCHANGED <<queue, it, tx, subPc, rx>>
        /\ opcPc = "update"
        /\ \/ opcPc' = "update" /\ applied' = applied
           \/ opcPc' = "iterate" /\ applied' = Append(applied, rx)
    BY <1>9 DEF OpcUpdate, subVars
  <2>2. NextCount' = NextCount  BY <2>1 DEF NextCount
  <2>3. CASE opcPc' = "update" /\ applied' = applied
    BY <1>1, <1>2, <2>1, <2>2, <2>3, OrderFrame DEF RxPending, OrderInv
  <2>4. CASE opcPc' = "iterate" /\ applied' = Append(applied, rx)
    <3>1. queue \in Seq(Message) /\ applied \in Seq(Message) /\ rx \in Message
      BY <1>2 DEF TypeOK
    <3>2. /\ DOMAIN applied' = 1..(Len(applied) + 1)
          /\ DOMAIN applied = 1..Len(applied) /\ Len(applied) \in Nat
          /\ \A i \in 1..Len(applied) : applied'[i] = applied[i]
          /\ applied'[Len(applied) + 1] = rx
      BY <2>4, <3>1, AppendElements
    <3>3. /\ AllBelow(applied, rx.count) /\ AllAbove(queue, rx.count)
          /\ rx.count < NextCount
      BY <2>1 DEF OrderInv, RxPending
    <3>4. Increasing(applied')
      BY <3>2, <3>3 DEF OrderInv, Increasing, AllBelow
    <3>5. AllBelow(applied', NextCount)
      BY <3>2, <3>3 DEF OrderInv, AllBelow
    <3>6. \A i \in DOMAIN applied' : AllAbove(queue, applied'[i].count)
      BY <3>2, <3>3 DEF OrderInv
    <3>7. QED
      BY <2>1, <2>2, <2>4, <3>4, <3>5, <3>6 DEF OrderInv, RxPending
  <2>5. QED  BY <2>1, <2>3, <2>4
<1>10. CASE EventReplacesMutex
  <2>1. UNCHANGED <<applied, queue, rx, tx, it, subPc, opcPc>>
    BY <1>10 DEF EventReplacesMutex, ReplaceMutex, subVars, opcVars
  <2>2. QED
    BY <1>1, <1>2, <2>1, OrderFrame DEF RxPending, NextCount, OrderInv
<1>11. CASE EventReplacesQueue
  <2>1. /\ UNCHANGED <<applied, rx, tx, it, subPc, opcPc>>
        /\ DOMAIN queue' = {}
    BY <1>11 DEF EventReplacesQueue, ReplaceQueue, subVars, opcVars
  <2>2. QED
    BY <2>1 DEF OrderInv, Increasing, AllBelow, AllAbove, RxPending, NextCount
<1>12. CASE UNCHANGED vars
  BY <1>12, <1>1, <1>2, OrderFrame
  DEF vars, subVars, opcVars, RxPending, NextCount, OrderInv
<1>13. CASE OpcSetupFails
  <2>1. DOMAIN applied = {}
    BY <1>13 DEF OpcSetupFails, OrderInv
  <2>2. /\ DOMAIN applied' = {} /\ DOMAIN queue' = {}
        /\ opcPc' = "take" /\ subPc' = "take"
    BY <1>13, <2>1 DEF OpcSetupFails
  <2>3. QED
    BY <2>2 DEF OrderInv, Increasing, AllBelow, AllAbove, RxPending
<1>14. QED
  BY <1>3, <1>4, <1>5, <1>6, <1>7, <1>8, <1>9, <1>10, <1>11, <1>12, <1>13
  DEF Next, SubStep, OpcStep, SubNext, OpcNext

\* The messages applied, received, queued and being sent are always in the order of
\* their counts.
LEMMA OrderInvariant == Spec => []OrderInv
<1>1. Init => OrderInv
  <2> SUFFICES ASSUME Init PROVE OrderInv
    OBVIOUS
  <2>1. DOMAIN applied = {} /\ DOMAIN queue = {}
    BY DEF Init, KernelInit
  <2>2. QED
    BY <2>1 DEF Init, OrderInv, Increasing, AllBelow, AllAbove, RxPending
<1>2. TypeInv /\ TypeInv' /\ OrderInv /\ [Next]_vars => OrderInv'
  BY OrderStep
<1>3. QED  BY <1>1, <1>2, TypeInvariant, PTL DEF Spec

\* Messages are applied in the order the broker delivered them, none twice.
THEOREM OrderKept == Spec => []AppliedInOrder
<1>1. OrderInv => AppliedInOrder
  BY DEF OrderInv, Increasing, AppliedInOrder
<1>2. QED  BY <1>1, OrderInvariant, PTL
-----------------------------------------------------------------------------
(* The nodes.  While update runs, the nodes before `field` hold what the   *)
(* message says and the others what the messages before it said.           *)

\* v is the count of the last message of s that carries f, if there is one.
IsLast(s, f, v) ==
  \/ v = Unset /\ \A i \in DOMAIN s : f \notin s[i].fields
  \/ \E i \in DOMAIN s : /\ f \in s[i].fields /\ v = s[i].count
                         /\ \A j \in DOMAIN s : f \in s[j].fields => j <= i

Updated(k) == opcPc = "update" /\ k < field /\ FieldOrder[k] \in rx.fields

NodesInv ==
  \A k \in 1..Len(FieldOrder) :
    LET f == FieldOrder[k] IN
    IF Updated(k) THEN nodes[f] = rx.count ELSE IsLast(applied, f, nodes[f])

\* The relation says what LastApplied chooses.
LEMMA LastIsApplied ==
  ASSUME TypeOK, NEW f \in Fields, NEW v, IsLast(applied, f, v)
  PROVE  v = LastApplied(f)
<1> DEFINE carrying == {i \in DOMAIN applied : f \in applied[i].fields}
<1>1. DOMAIN applied \subseteq Int
  <2>1. applied \in Seq(Message)
    BY DEF TypeOK
  <2> QED BY <2>1
<1>2. CASE v = Unset /\ carrying = {}
  BY <1>2 DEF LastApplied
<1>3. ASSUME NEW i \in carrying, v = applied[i].count, \A j \in carrying : j <= i
      PROVE  v = LastApplied(f)
  <2> DEFINE last == CHOOSE n \in carrying : \A j \in carrying : j <= n
  <2>1. last \in carrying /\ \A j \in carrying : j <= last
    BY <1>3
  <2>2. last <= i /\ i <= last /\ last \in Int /\ i \in Int
    BY <1>1, <1>3, <2>1
  <2> HIDE DEF last
  <2>3. last = i
    BY <2>2
  <2>4. LastApplied(f) = applied[last].count
    BY DEF LastApplied, last
  <2> QED BY <1>3, <2>3, <2>4
<1> QED BY <1>2, <1>3 DEF IsLast

\* What one more message makes of the last that carries a field.
LEMMA LastAppended ==
  ASSUME NEW s \in Seq(Message), NEW m \in Message, NEW f, NEW v, IsLast(s, f, v)
  PROVE  IsLast(Append(s, m), f, IF f \in m.fields THEN m.count ELSE v)
<1> DEFINE t == Append(s, m)
<1>1. /\ DOMAIN t = 1..(Len(s) + 1) /\ DOMAIN s = 1..Len(s) /\ Len(s) \in Nat
      /\ \A i \in 1..Len(s) : t[i] = s[i]
      /\ t[Len(s) + 1] = m
  BY AppendElements
<1> HIDE DEF t
<1>2. CASE f \in m.fields
  <2>1. Len(s) + 1 \in DOMAIN t /\ \A j \in DOMAIN t : j <= Len(s) + 1
    BY <1>1
  <2>2. IsLast(t, f, m.count)
    BY <1>1, <1>2, <2>1 DEF IsLast
  <2> QED BY <1>2, <2>2 DEF t
<1>3. CASE f \notin m.fields
  <2>1. \A j \in DOMAIN t : f \in t[j].fields => j \in DOMAIN s /\ f \in s[j].fields
    BY <1>1, <1>3
  <2>2. IsLast(t, f, v)
    <3>1. CASE v = Unset /\ \A i \in DOMAIN s : f \notin s[i].fields
      BY <2>1, <3>1 DEF IsLast
    <3>2. ASSUME NEW i \in DOMAIN s, f \in s[i].fields, v = s[i].count,
                 \A j \in DOMAIN s : f \in s[j].fields => j <= i
          PROVE  IsLast(t, f, v)
      <4>1. i \in DOMAIN t /\ t[i] = s[i]
        BY <1>1
      <4> QED BY <2>1, <3>2, <4>1 DEF IsLast
    <3> QED BY <3>1, <3>2 DEF IsLast
  <2> QED BY <1>3, <2>2 DEF t
<1> QED BY <1>2, <1>3

\* One call of update, and after the last one the message is applied.
LEMMA NodesUpdated ==
  ASSUME TypeOK, NodesInv, OpcUpdate
  PROVE  NodesInv'
<1> DEFINE f == FieldOrder[field]
<1>1. /\ opcPc = "update" /\ rx' = rx
      /\ nodes' = IF f \in rx.fields THEN [nodes EXCEPT ![f] = rx.count] ELSE nodes
      /\ \/ field < 3 /\ field' = field + 1 /\ opcPc' = "update" /\ applied' = applied
         \/ field = 3 /\ opcPc' = "iterate" /\ applied' = Append(applied, rx)
  BY FieldOrderLength DEF OpcUpdate, TypeOK
<1>2. /\ field \in {1, 2, 3} /\ rx \in Message /\ applied \in Seq(Message)
      /\ nodes \in [Fields -> (0..MaxMessages) \cup {Unset}]
  BY FieldOrderLength DEF TypeOK
<1>3. \A k, n \in 1..Len(FieldOrder) : FieldOrder[k] = FieldOrder[n] => k = n
  BY FieldOrderLength DEF FieldOrder
<1> SUFFICES ASSUME NEW k \in 1..Len(FieldOrder)
             PROVE  IF Updated(k)' THEN nodes'[FieldOrder[k]] = rx.count
                    ELSE IsLast(applied', FieldOrder[k], nodes'[FieldOrder[k]])
  BY <1>1 DEF NodesInv
<1> DEFINE g == FieldOrder[k]
<1>4. k \in {1, 2, 3} /\ g \in Fields /\ f \in Fields
  BY <1>2, FieldOrderLength, FieldOrderFields
<1>5. nodes'[g] = IF k = field /\ g \in rx.fields THEN rx.count ELSE nodes[g]
  BY <1>1, <1>2, <1>3, <1>4, FieldOrderLength
<1>6. IF k < field /\ g \in rx.fields THEN nodes[g] = rx.count
      ELSE IsLast(applied, g, nodes[g])
  BY <1>1 DEF NodesInv, Updated
<1>7. IF k <= field /\ g \in rx.fields THEN nodes'[g] = rx.count
      ELSE IsLast(applied, g, nodes'[g])
  BY <1>2, <1>4, <1>5, <1>6
<1> HIDE DEF g
<1>8. CASE field < 3 /\ field' = field + 1 /\ opcPc' = "update" /\ applied' = applied
  <2>1. Updated(k)' <=> k <= field /\ g \in rx.fields
    BY <1>1, <1>2, <1>4, <1>8 DEF Updated, g
  <2> QED BY <1>7, <1>8, <2>1 DEF g
<1>9. CASE field = 3 /\ opcPc' = "iterate" /\ applied' = Append(applied, rx)
  <2>1. ~Updated(k)' /\ k <= field
    BY <1>4, <1>9 DEF Updated
  <2>2. IsLast(applied', g, nodes'[g])
    <3>1. CASE g \in rx.fields
      <4>1. IsLast(applied, g, nodes[g]) \/ k < field
        BY <1>6
      <4>2. nodes'[g] = rx.count
        BY <1>7, <2>1, <3>1
      <4>3. /\ DOMAIN applied' = 1..(Len(applied) + 1) /\ Len(applied) \in Nat
            /\ applied'[Len(applied) + 1] = rx
        BY <1>2, <1>9, AppendElements
      <4>4. /\ Len(applied) + 1 \in DOMAIN applied'
            /\ \A j \in DOMAIN applied' : j <= Len(applied) + 1
        BY <4>3
      <4> QED BY <3>1, <4>2, <4>3, <4>4 DEF IsLast
    <3>2. CASE g \notin rx.fields
      BY <1>2, <1>7, <1>9, <3>2, LastAppended
    <3> QED BY <3>1, <3>2
  <2> QED BY <2>1, <2>2 DEF g
<1> QED BY <1>1, <1>8, <1>9

\* Every step keeps each node at the last applied message that has its field.
LEMMA NodesNext == TypeOK /\ NodesInv /\ [Next]_vars => NodesInv'
<1> SUFFICES ASSUME TypeOK, NodesInv, [Next]_vars PROVE NodesInv'
  OBVIOUS
<1>1. ASSUME UNCHANGED <<nodes, applied>>, ~(opcPc' = "update"), ~(opcPc = "update")
      PROVE  NodesInv'
  BY <1>1 DEF NodesInv, Updated
<1>2. ASSUME UNCHANGED opcVars PROVE NodesInv'
  BY <1>2 DEF NodesInv, Updated, opcVars
<1>3. CASE SubNext
  <2>1. UNCHANGED opcVars
    BY <1>3 DEF SubNext, SubTake, SubTakeTimesOut, ConnectSucceeds, ConnectFails,
       ConnectMqtt, SubscribeSucceeds, SubscribeFails, YieldFails, Disconnect,
       HandleMessage, HandlerSends, HandlerSendTimesOut, HandlerTakes,
       HandlerTakeTimesOut, HandlerGives
  <2> QED BY <1>2, <2>1
<1>4. CASE OpcFirstTakeTimesOut
  BY <1>2, <1>4 DEF OpcFirstTakeTimesOut
<1>5. CASE OpcTake \/ OpcSetup \/ OpcSetupFails \/ OpcReceive \/ OpcReceiveTimesOut
             \/ OpcTakeTimesOut \/ OpcIterate \/ OpcGive \/ OpcGiveElse
  BY <1>1, <1>5 DEF OpcTake, OpcSetup, OpcSetupFails, OpcReceive, OpcReceiveTimesOut,
     OpcTakeTimesOut, OpcIterate, OpcGive, OpcGiveElse
<1>6. CASE OpcTakeUpdate
  <2>1. UNCHANGED <<nodes, applied, rx>> /\ field' = 1 /\ opcPc = "takeUpdate"
    BY <1>6 DEF OpcTakeUpdate
  <2>2. \A k \in 1..Len(FieldOrder) : ~Updated(k) /\ ~Updated(k)'
    BY <2>1 DEF Updated
  <2> QED BY <2>1, <2>2 DEF NodesInv
<1>7. CASE OpcUpdate
  BY <1>7, NodesUpdated
<1>8. CASE EventReplacesMutex \/ EventReplacesQueue \/ UNCHANGED vars
  BY <1>2, <1>8 DEF EventReplacesMutex, EventReplacesQueue, vars
<1> QED BY <1>3, <1>4, <1>5, <1>6, <1>7, <1>8 DEF Next, SubStep, OpcStep, OpcNext

\* Each node always holds the last applied message that has its field, but for the
\* nodes that update has still to write.
LEMMA NodesInvariant == Spec => []NodesInv
<1>1. Init => NodesInv
  <2> SUFFICES ASSUME Init PROVE NodesInv
    OBVIOUS
  <2>1. applied = << >> /\ opcPc # "update" /\ \A f \in Fields : nodes[f] = Unset
    BY DEF Init
  <2> QED BY <2>1, FieldOrderFields DEF NodesInv, Updated, IsLast
<1>2. QED  BY <1>1, NodesNext, TypeCorrect, PTL DEF Spec

\* Outside update every node holds what the last applied message that carries
\* its field said: a partial message neither erases nor revives a value.
THEOREM NodesFollowMessages == Spec => []NodesAreLatest
<1>1. TypeOK /\ NodesInv => NodesAreLatest
  <2> SUFFICES ASSUME TypeOK, NodesInv, opcPc # "update", NEW f \in Fields
               PROVE  nodes[f] = LastApplied(f)
    BY DEF NodesAreLatest
  <2>1. PICK k \in 1..Len(FieldOrder) : FieldOrder[k] = f
    BY FieldOrderLength DEF FieldOrder, Fields
  <2> QED BY <2>1, LastIsApplied DEF NodesInv, Updated
<1>2. QED  BY <1>1, NodesInvariant, TypeCorrect, PTL
-----------------------------------------------------------------------------
(* Publications.  What is published is Unset or the count of an applied    *)
(* message, so a message received since shows nowhere; and when the nodes  *)
(* are published, the received message has just been applied.              *)

PublishInv ==
  /\ PublishedNotTorn
  /\ \A f \in Fields : \/ published[f] = Unset
                       \/ \E i \in DOMAIN applied : published[f] = applied[i].count
  /\ opcPc = "iterate" => \E i \in DOMAIN applied : applied[i] = rx

\* A publication of the nodes between two updates is of whole messages.
LEMMA NodesNotTorn ==
  ASSUME TypeOK, OrderInv, NodesInv, opcPc = "iterate",
         NEW i \in DOMAIN applied,
         NEW f \in applied[i].fields, NEW g \in applied[i].fields
  PROVE  nodes[g] >= applied[i].count
<1>1. applied \in Seq(Message) /\ g \in Fields
  <2>1. applied \in Seq(Message)
    BY DEF TypeOK
  <2>2. applied[i] \in Message
    BY <2>1
  <2> QED BY <2>1, <2>2 DEF Message
<1>2. PICK k \in 1..Len(FieldOrder) : FieldOrder[k] = g
  BY <1>1, FieldOrderLength DEF FieldOrder, Fields
<1>3. PICK j \in DOMAIN applied : nodes[g] = applied[j].count /\ i <= j
  BY <1>2 DEF NodesInv, Updated, IsLast
<1>4. applied[i].count \in Nat /\ applied[j].count \in Nat
  BY CountsAreNat
<1>5. i < j \/ i = j
  BY <1>1, <1>3
<1> QED BY <1>3, <1>4, <1>5 DEF OrderInv, Increasing

\* Every step keeps what the server publishes at one state of all nodes: the server
\* iterates only when update has finished.
LEMMA PublishNext ==
  TypeOK /\ OrderInv /\ NodesInv /\ PublishInv /\ [Next]_vars => PublishInv'
<1> SUFFICES ASSUME TypeOK, OrderInv, NodesInv, PublishInv, [Next]_vars
             PROVE  PublishInv'
  OBVIOUS
<1>0. applied \in Seq(Message) /\ rx \in Message
  BY DEF TypeOK
<1>1. ASSUME UNCHANGED <<rx, published, applied>>, opcPc' # "iterate"
      PROVE  PublishInv'
  BY <1>1 DEF PublishInv, PublishedNotTorn
<1>2. ASSUME UNCHANGED opcVars PROVE PublishInv'
  BY <1>2 DEF PublishInv, PublishedNotTorn, opcVars
<1>3. CASE SubNext
  <2>1. UNCHANGED opcVars
    BY <1>3 DEF SubNext, SubTake, SubTakeTimesOut, ConnectSucceeds, ConnectFails,
       ConnectMqtt, SubscribeSucceeds, SubscribeFails, YieldFails, Disconnect,
       HandleMessage, HandlerSends, HandlerSendTimesOut, HandlerTakes,
       HandlerTakeTimesOut, HandlerGives
  <2> QED BY <1>2, <2>1
<1>4. CASE OpcFirstTakeTimesOut
  BY <1>2, <1>4 DEF OpcFirstTakeTimesOut
<1>5. CASE OpcTake \/ OpcSetup \/ OpcSetupFails \/ OpcReceiveTimesOut \/ OpcTakeUpdate
             \/ OpcTakeTimesOut \/ OpcGive \/ OpcGiveElse
  BY <1>1, <1>5 DEF OpcTake, OpcSetup, OpcSetupFails, OpcReceiveTimesOut, OpcTakeUpdate,
     OpcTakeTimesOut, OpcGive, OpcGiveElse
<1>6. CASE OpcReceive
  <2>1. /\ UNCHANGED <<published, applied>> /\ opcPc' = "takeUpdate"
        /\ queue # << >> /\ rx' = Head(queue)
    BY <1>6 DEF OpcReceive, ReceiveFromQueue
  <2>2. rx' = queue[1] /\ 1 \in DOMAIN queue /\ rx' \in Message
    BY <2>1, TailElements DEF TypeOK
  <2>3. \A i \in DOMAIN applied : applied[i].count # rx'.count
    <3> SUFFICES ASSUME NEW i \in DOMAIN applied PROVE applied[i].count # queue[1].count
      BY <2>2
    <3>1. applied[i].count < queue[1].count
      BY <2>2 DEF OrderInv, AllAbove
    <3>2. applied[i].count \in Nat /\ queue[1].count \in Nat
      BY <2>2, CountsAreNat
    <3> QED BY <3>1, <3>2
  <2>4. rx'.count # Unset /\ rx'.fields \subseteq Fields
    BY <2>2, BridgeAssumption DEF Message, Unset
  <2>5. \A f \in rx'.fields : published[f] # rx'.count
    BY <2>3, <2>4 DEF PublishInv
  <2> QED BY <2>1, <2>5 DEF PublishInv, PublishedNotTorn
<1>7. CASE OpcUpdate
  <2>1. UNCHANGED <<published, rx>>
    BY <1>7 DEF OpcUpdate
  <2>2. CASE applied' = applied /\ opcPc' = "update"
    BY <1>1, <2>1, <2>2
  <2>3. CASE applied' = Append(applied, rx) /\ opcPc' = "iterate"
    <3>1. /\ DOMAIN applied' = 1..(Len(applied) + 1) /\ DOMAIN applied = 1..Len(applied)
          /\ Len(applied) \in Nat
          /\ \A i \in 1..Len(applied) : applied'[i] = applied[i]
          /\ applied'[Len(applied) + 1] = rx
      BY <1>0, <2>3, AppendElements
    <3>2. Len(applied) + 1 \in DOMAIN applied' /\ DOMAIN applied \subseteq DOMAIN applied'
      BY <3>1
    <3>3. \A i \in DOMAIN applied' : applied'[i] = rx \/ \E j \in DOMAIN applied : applied'[i] = applied[j]
      BY <3>1
    <3>4. PublishedNotTorn'
      BY <2>1, <3>3 DEF PublishInv, PublishedNotTorn
    <3>5. \A f \in Fields : \/ published'[f] = Unset
                            \/ \E i \in DOMAIN applied' : published'[f] = applied'[i].count
      <4> SUFFICES ASSUME NEW f \in Fields, NEW j \in DOMAIN applied,
                          published[f] = applied[j].count
                   PROVE  \E i \in DOMAIN applied' : published'[f] = applied'[i].count
        BY <2>1 DEF PublishInv
      <4> QED BY <2>1, <3>1, <3>2
    <3> QED BY <2>1, <3>1, <3>2, <3>4, <3>5 DEF PublishInv
  <2> QED BY <1>7, <2>2, <2>3 DEF OpcUpdate
<1>8. CASE OpcIterate
  <2>1. /\ UNCHANGED <<rx, applied>> /\ opcPc = "iterate" /\ opcPc' = "give"
        /\ published' \in {published, nodes}
    BY <1>8 DEF OpcIterate
  <2>2. CASE published' = published
    BY <1>1, <2>1, <2>2
  <2>3. CASE published' = nodes
    <3>1. PICK n \in DOMAIN applied : applied[n] = rx
      BY <2>1 DEF PublishInv
    <3>2. \A i \in DOMAIN applied : \A f, g \in applied[i].fields : nodes[g] >= applied[i].count
      BY <2>1, NodesNotTorn
    <3>3. \A m \in {applied[i] : i \in DOMAIN applied} \cup {rx} :
            \A f, g \in m.fields : nodes[g] >= m.count
      BY <3>1, <3>2
    <3>4. PublishedNotTorn'
      BY <2>1, <2>3, <3>3 DEF PublishedNotTorn
    <3>5. \A f \in Fields : \/ nodes[f] = Unset
                            \/ \E i \in DOMAIN applied : nodes[f] = applied[i].count
      <4> SUFFICES ASSUME NEW f \in Fields
                   PROVE  \/ nodes[f] = Unset
                          \/ \E i \in DOMAIN applied : nodes[f] = applied[i].count
        OBVIOUS
      <4>1. PICK k \in 1..Len(FieldOrder) : FieldOrder[k] = f
        BY FieldOrderLength DEF FieldOrder, Fields
      <4>2. IsLast(applied, f, nodes[f])
        BY <2>1, <4>1 DEF NodesInv, Updated
      <4> QED BY <4>2 DEF IsLast
    <3> QED BY <2>1, <2>3, <3>4, <3>5 DEF PublishInv
  <2> QED BY <2>1, <2>2, <2>3
<1>9. CASE EventReplacesMutex \/ EventReplacesQueue \/ UNCHANGED vars
  BY <1>2, <1>9 DEF EventReplacesMutex, EventReplacesQueue, vars
<1> QED BY <1>3, <1>4, <1>5, <1>6, <1>7, <1>8, <1>9 DEF Next, SubStep, OpcStep, OpcNext

\* A publication never mixes two messages: a subscriber that sees one field of
\* a message sees no older value of another field of that message.
THEOREM PublicationsWhole == Spec => []PublishedNotTorn
<1>1. Init => PublishInv
  <2> SUFFICES ASSUME Init PROVE PublishInv
    OBVIOUS
  <2>1. /\ applied = << >> /\ rx.fields = {} /\ opcPc # "iterate"
        /\ \A f \in Fields : published[f] = Unset
    BY DEF Init, NoMessage
  <2> QED BY <2>1 DEF PublishInv, PublishedNotTorn
<1>2. PublishInv => PublishedNotTorn
  BY DEF PublishInv
<1>3. QED
  BY <1>1, <1>2, PublishNext, TypeCorrect, OrderInvariant, NodesInvariant, PTL DEF Spec
-----------------------------------------------------------------------------
(* Refinement.  The line rx, queue, tx is the abstract channel's inFlight;  *)
(* the lemmas say what moving a message along this line does to it.        *)

RxPart == IF RxPending THEN <<rx>> ELSE << >>
TxPart == IF subPc = "send" THEN <<tx>> ELSE << >>

\* The line of received, queued and sent messages is as long as its parts together.
LEMMA LineLength ==
  ASSUME NEW S, NEW r \in Seq(S), NEW q \in Seq(S), NEW t \in Seq(S)
  PROVE  /\ (r \o q) \o t \in Seq(S)
         /\ Len((r \o q) \o t) = Len(r) + Len(q) + Len(t)
BY ConcatProperties

\* A message that the handler begins to send enters the line at its end.
LEMMA LineEnter ==
  ASSUME NEW S, NEW r \in Seq(S), NEW q \in Seq(S), NEW e \in S
  PROVE  (r \o q) \o <<e>> = Append((r \o q) \o << >>, e)
<1>1. r \o q \in Seq(S)  BY ConcatProperties
<1>2. (r \o q) \o << >> = r \o q  BY <1>1, ConcatEmptySeq
<1>3. QED  BY <1>1, <1>2, AppendIsConcat

\* A send that succeeds does not change the line: the message moves to the end of the
\* queue.
LEMMA LineSend ==
  ASSUME NEW S, NEW r \in Seq(S), NEW q \in Seq(S), NEW e \in S
  PROVE  (r \o Append(q, e)) \o << >> = (r \o q) \o <<e>>
<1>1. <<e>> \in Seq(S) /\ r \o q \in Seq(S) /\ q \o <<e>> \in Seq(S)
  BY ConcatProperties
<1>2. Append(q, e) = q \o <<e>>  BY AppendIsConcat
<1>3. r \o (q \o <<e>>) = (r \o q) \o <<e>>  BY <1>1, ConcatAssociative
<1>4. (r \o q) \o <<e>> \in Seq(S)  BY <1>1, ConcatProperties
<1>5. QED  BY <1>2, <1>3, <1>4, ConcatEmptySeq

\* With nothing received, the line begins with the queue.
LEMMA LineStart ==
  ASSUME NEW S, NEW r \in Seq(S), NEW q \in Seq(S), NEW t \in Seq(S)
  PROVE  /\ (<< >> \o r) \o (q \o t) = (r \o q) \o t
         /\ << >> \o (q \o t) = (<< >> \o q) \o t
<1>1. << >> \o r = r /\ << >> \o q = q  BY ConcatEmptySeq
<1>2. q \o t \in Seq(S)  BY ConcatProperties
<1>3. << >> \o (q \o t) = q \o t  BY <1>2, ConcatEmptySeq
<1>4. (r \o q) \o t = r \o (q \o t)  BY ConcatAssociative
<1>5. QED  BY <1>1, <1>3, <1>4

\* The line without its elements from the i-th to the j-th.
Cut(line, i, j) == SubSeq(line, 1, i - 1) \o SubSeq(line, j + 1, Len(line))

\* What is cut out of the line leaves the rest in order.
LEMMA LineLoses ==
  ASSUME NEW S, NEW a \in Seq(S), NEW b \in Seq(S), NEW c \in Seq(S),
         b # << >>
  PROVE  Cut((a \o b) \o c, Len(a) + 1, Len(a) + Len(b)) = a \o c
<1> DEFINE line == (a \o b) \o c
           m == Len(a)
           n == Len(a) + Len(b)
<1>1. /\ a \o b \in Seq(S) /\ Len(a \o b) = n
      /\ \A k \in 1..n : (a \o b)[k] = IF k <= m THEN a[k] ELSE b[k - m]
  BY ConcatProperties
<1>2. /\ line \in Seq(S) /\ Len(line) = n + Len(c)
      /\ \A k \in 1..(n + Len(c)) :
           line[k] = IF k <= n THEN (a \o b)[k] ELSE c[k - n]
  <2> DEFINE ab == a \o b
  <2>1. ab \in Seq(S) /\ Len(ab) = n  BY <1>1
  <2> HIDE DEF ab, n
  <2>2. /\ ab \o c \in Seq(S) /\ Len(ab \o c) = n + Len(c)
        /\ \A k \in 1..(n + Len(c)) :
             (ab \o c)[k] = IF k <= n THEN ab[k] ELSE c[k - n]
    BY <2>1, ConcatProperties
  <2>3. QED  BY <2>2 DEF ab, n
<1>3. /\ Len(a) \in Nat /\ Len(b) \in Nat /\ Len(c) \in Nat /\ Len(b) # 0
      /\ m \in Nat /\ n \in Nat /\ m < n /\ m <= n
  <2>1. Len(a) \in Nat /\ Len(b) \in Nat /\ Len(c) \in Nat  BY LenProperties
  <2>2. Len(b) # 0  BY EmptySeq
  <2>3. QED  BY <2>1, <2>2
<1> HIDE DEF line, m, n
<1>4. \A k \in 1..m : line[k] = a[k] /\ line[k] \in S
  <2>1. TAKE k \in 1..m
  <2>2. k \in 1..n /\ k \in 1..(n + Len(c)) /\ k <= m /\ k <= n
    BY <1>3
  <2>3. line[k] = a[k]  BY <1>1, <1>2, <2>2
  <2>4. a[k] \in S  BY ElementOfSeq DEF m
  <2>5. QED  BY <2>3, <2>4
<1>5. \A k \in 1..Len(c) : line[n + k] = c[k] /\ line[n + k] \in S
  <2>1. TAKE k \in 1..Len(c)
  <2>2. n + k \in 1..(n + Len(c)) /\ ~(n + k <= n) /\ (n + k) - n = k
    BY <1>3
  <2>3. line[n + k] = c[k]  BY <1>2, <2>2
  <2>4. QED  BY <2>3, ElementOfSeq
<1>6. SubSeq(line, 1, m) = a
  <2>1. /\ SubSeq(line, 1, m) \in Seq(S)
        /\ Len(SubSeq(line, 1, m)) = IF 1 <= m THEN m - 1 + 1 ELSE 0
        /\ \A k \in 1..(m - 1 + 1) : SubSeq(line, 1, m)[k] = line[1 + k - 1]
    BY <1>3, <1>4, SubSeqProperties
  <2>2. /\ Len(SubSeq(line, 1, m)) = m
        /\ \A k \in 1..m : SubSeq(line, 1, m)[k] = line[k]
    BY <1>3, <2>1
  <2>3. QED  BY <1>4, <2>1, <2>2, SeqEqual DEF m
<1>7. SubSeq(line, n + 1, Len(line)) = c
  <2> DEFINE l == n + Len(c)
             rest == SubSeq(line, n + 1, l)
  <2>1. l \in Nat /\ n + 1 \in Nat /\ l - (n + 1) + 1 = Len(c)
        /\ (n + 1 <= l <=> 1 <= Len(c))
    BY <1>3
  <2>2. \A k \in (n + 1)..l : line[k] \in S
    <3>1. TAKE k \in (n + 1)..l
    <3>2. k - n \in 1..Len(c) /\ n + (k - n) = k  BY <1>3
    <3>3. QED  BY <1>5, <3>2
  <2> HIDE DEF l
  <2>3. /\ rest \in Seq(S)
        /\ Len(rest) = IF n + 1 <= l THEN l - (n + 1) + 1 ELSE 0
        /\ \A k \in 1..(l - (n + 1) + 1) : rest[k] = line[(n + 1) + k - 1]
    BY <2>1, <2>2, SubSeqProperties
  <2>4. Len(rest) = Len(c)
    BY <1>3, <2>1, <2>3
  <2>5. \A k \in 1..Len(c) : rest[k] = c[k]
    <3>1. TAKE k \in 1..Len(c)
    <3>2. rest[k] = line[(n + 1) + k - 1]  BY <2>1, <2>3
    <3>3. (n + 1) + k - 1 = n + k  BY <1>3
    <3>4. QED  BY <1>5, <3>2, <3>3
  <2> HIDE DEF rest
  <2>6. rest = c  BY <2>3, <2>4, <2>5, SeqEqual
  <2>7. QED  BY <1>2, <2>6 DEF rest, l
<1>8. (m + 1) - 1 = m
  BY <1>3
<1>9. QED  BY <1>6, <1>7, <1>8 DEF line, m, n, Cut

\* The received message is the first of the line, and applying it leaves the others.
LEMMA LineLeave ==
  ASSUME NEW S, NEW q \in Seq(S), NEW t \in Seq(S), NEW e \in S
  PROVE  LET line == (<<e>> \o q) \o t IN
         /\ line # << >> /\ Head(line) = e
         /\ Tail(line) = (<< >> \o q) \o t
<1> DEFINE v == q \o t
           line == <<e>> \o v
<1>1. v \in Seq(S) /\ <<e>> \in Seq(S) /\ Len(<<e>>) = 1
  BY ConcatProperties
<1>2. (<<e>> \o q) \o t = line  BY <1>1, ConcatAssociative
<1>3. (<< >> \o q) \o t = v  BY ConcatEmptySeq
<1> HIDE DEF v
<1>4. /\ line \in Seq(S) /\ Len(line) = 1 + Len(v) /\ Len(v) \in Nat
      /\ \A i \in 1..(1 + Len(v)) :
           line[i] = IF i <= 1 THEN <<e>>[i] ELSE v[i - 1]
  BY <1>1, ConcatProperties, LenProperties
<1> HIDE DEF line
<1>5. line # << >> /\ Head(line) = e
  BY <1>4, EmptySeq
<1>6. /\ Tail(line) \in Seq(S) /\ Len(Tail(line)) = Len(v)
      /\ \A i \in 1..Len(v) : Tail(line)[i] = v[i]
  BY <1>4, <1>5, HeadTailProperties
<1>7. Tail(line) = v  BY <1>1, <1>6, SeqEqual
<1>8. QED  BY <1>2, <1>3, <1>5, <1>7

\* A receive does not change the line: the first of the queue becomes the received one.
LEMMA LineReceive ==
  ASSUME NEW S, NEW q \in Seq(S), q # << >>, NEW t \in Seq(S)
  PROVE  (<<Head(q)>> \o Tail(q)) \o t = (<< >> \o q) \o t
<1>1. Head(q) \in S /\ Tail(q) \in Seq(S)  BY HeadTailProperties
<1>2. <<Head(q)>> \o Tail(q) = q
  <2> DEFINE w == <<Head(q)>> \o Tail(q)
  <2>1. /\ w \in Seq(S) /\ Len(w) = 1 + (Len(q) - 1)
        /\ \A i \in 1..(1 + (Len(q) - 1)) :
             w[i] = IF i <= 1 THEN Head(q) ELSE Tail(q)[i - 1]
    <3>1. <<Head(q)>> \in Seq(S) /\ Len(<<Head(q)>>) = 1  BY <1>1
    <3>2. Len(Tail(q)) = Len(q) - 1  BY HeadTailProperties
    <3>3. QED  BY <1>1, <3>1, <3>2, ConcatProperties
  <2>2. Len(q) \in Nat /\ Len(q) > 0  BY EmptySeq
  <2>3. \A i \in 1..Len(q) : w[i] = q[i]
    <3> HIDE DEF w
    <3>1. TAKE i \in 1..Len(q)
    <3>2. CASE i = 1  BY <2>1, <2>2, <3>2
    <3>3. CASE i > 1
      <4>1. i - 1 \in 1..Len(Tail(q))
        BY <2>2, <3>3, HeadTailProperties
      <4>2. Tail(q)[i - 1] = q[(i - 1) + 1]  BY <4>1, HeadTailProperties
      <4>3. QED  BY <2>1, <2>2, <3>3, <4>2
    <3>4. QED  BY <3>2, <3>3
  <2> HIDE DEF w
  <2>4. Len(w) = Len(q)  BY <2>1, <2>2
  <2>5. w = q  BY <2>1, <2>3, <2>4, SeqEqual
  <2>6. QED  BY <2>5 DEF w
<1>3. QED  BY <1>2, ConcatEmptySeq

\* The three parts of the line of messages under way, and their lengths.
LEMMA LineParts ==
  ASSUME TypeOK
  PROVE  /\ InFlight = (RxPart \o queue) \o TxPart
         /\ RxPart \in Seq(Message) /\ queue \in Seq(Message)
         /\ TxPart \in Seq(Message)
         /\ Len(RxPart) \in {0, 1} /\ Len(TxPart) \in {0, 1}
BY DEF TypeOK, InFlight, RxPart, TxPart, RxPending

\* Where no message moves, the abstract channel stutters.
LEMMA LineFrame ==
  ASSUME UNCHANGED <<queue, applied, rx>>,
         subPc' = "send" <=> subPc = "send",
         subPc = "send" => tx' = tx,
         RxPending' <=> RxPending
  PROVE  UNCHANGED Channel!vars
BY DEF Channel!vars, InFlight, RxPending

\* What leaves a gap in the line is a loss of the abstract channel.
LEMMA LineGap ==
  ASSUME NEW a \in Seq(Message), NEW b \in Seq(Message),
         NEW c \in Seq(Message), b # << >>,
         InFlight = (a \o b) \o c, InFlight' = a \o c, UNCHANGED applied
  PROVE  Channel!Next
<1> DEFINE line == (a \o b) \o c
           i == Len(a) + 1
           j == Len(a) + Len(b)
<1>1. j \in 1..Len(line) /\ i \in 1..j
  <2>1. Len(line) = Len(a) + Len(b) + Len(c)  BY LineLength
  <2>2. /\ Len(a) \in Nat /\ Len(b) \in Nat /\ Len(c) \in Nat
        /\ Len(b) # 0
    BY LenProperties, EmptySeq
  <2>3. QED  BY <2>1, <2>2
<1>2. Cut(line, i, j) = a \o c
  BY LineLoses
<1>3. InFlight = line
  OBVIOUS
<1> HIDE DEF i, j, line
<1>4. Channel!Lose(i, j)  BY <1>2, <1>3 DEF Channel!Lose, Cut
<1>5. QED  BY <1>1, <1>3, <1>4 DEF Channel!Next

\* Every step of the bridge is a step of the lossy channel, or a stutter.
LEMMA ChannelStep ==
  ASSUME TypeInv, TypeInv', [Next]_vars
  PROVE  [Channel!Next]_(Channel!vars)
<1> USE QueueLengthAssumption
<1>1. TypeOK /\ TypeOK'
  BY DEF TypeInv
<1>2. /\ InFlight = (RxPart \o queue) \o TxPart
      /\ InFlight' = (RxPart' \o queue') \o TxPart'
      /\ RxPart \in Seq(Message) /\ queue \in Seq(Message)
      /\ TxPart \in Seq(Message)
      /\ RxPart' \in Seq(Message) /\ queue' \in Seq(Message)
      /\ TxPart' \in Seq(Message)
      /\ rx \in Message /\ tx \in Message /\ tx' \in Message
  <2>1. InFlight' = (RxPart' \o queue') \o TxPart'
    BY DEF InFlight, RxPart, TxPart, RxPending
  <2>2. RxPart' \in Seq(Message) /\ TxPart' \in Seq(Message)
    BY <1>1 DEF TypeOK, RxPart, TxPart, RxPending
  <2>3. queue' \in Seq(Message) /\ tx' \in Message /\ rx \in Message /\ tx \in Message
    BY <1>1 DEF TypeOK
  <2>4. QED  BY <1>1, <2>1, <2>2, <2>3, LineParts
<1>3. ASSUME SubTake \/ SubTakeTimesOut \/ ConnectSucceeds \/ ConnectFails
              \/ ConnectMqtt \/ SubscribeSucceeds \/ SubscribeFails
              \/ YieldFails \/ Disconnect \/ HandlerTakes
              \/ HandlerTakeTimesOut \/ HandlerGives
      PROVE  UNCHANGED Channel!vars
  <2>1. /\ UNCHANGED <<queue, applied, rx, opcPc>>
        /\ subPc # "send" /\ subPc' # "send"
    BY <1>3 DEF SubTake, SubTakeTimesOut, ConnectSucceeds, ConnectFails,
       ConnectMqtt, SubscribeSucceeds, SubscribeFails, YieldFails, Disconnect,
       HandlerTakes, HandlerTakeTimesOut, HandlerGives, HandlerReturns,
       subVars, opcVars
  <2>2. QED  BY <2>1, LineFrame DEF RxPending
<1>4. ASSUME OpcTake \/ OpcFirstTakeTimesOut \/ OpcSetup
              \/ OpcReceiveTimesOut \/ OpcTakeUpdate \/ OpcIterate
              \/ OpcGive \/ OpcGiveElse
      PROVE  UNCHANGED Channel!vars
  <2>1. /\ UNCHANGED <<queue, applied, rx, subPc, tx>>
        /\ RxPending' <=> RxPending
    BY <1>4 DEF OpcTake, OpcFirstTakeTimesOut, OpcSetup,
       OpcReceiveTimesOut, OpcTakeUpdate, OpcIterate, OpcGive, OpcGiveElse,
       ReceiveTimesOut, RxPending, subVars, opcVars
  <2>2. QED  BY <2>1, LineFrame
<1>5. ASSUME HandleMessage PROVE Channel!Offer(tx')
  <2>1. /\ TxPart = << >> /\ TxPart' = <<tx'>>
        /\ RxPart' = RxPart /\ UNCHANGED <<queue, applied>>
    BY <1>5 DEF HandleMessage, TxPart, RxPart, RxPending, opcVars
  <2>2. InFlight' = Append(InFlight, tx')
    BY <1>2, <2>1, LineEnter
  <2>3. Len(InFlight) < QueueLength + 2
    <3>1. Len(InFlight) = Len(RxPart) + Len(queue) + Len(TxPart)
      BY <1>2, LineLength
    <3>2. Len(RxPart) \in {0, 1}
      BY <1>1, LineParts
    <3>3. Len(TxPart) = 0
      BY <2>1
    <3>4. Len(queue) \in Nat /\ Len(queue) <= QueueLength /\ QueueLength \in Nat
      BY <1>1 DEF TypeOK
    <3>5. \A a \in {0, 1}, b, n \in Nat : b <= n => (a + b) + 0 < n + 2
      OBVIOUS
    <3>6. QED  BY <3>1, <3>2, <3>3, <3>4, <3>5
  <2>4. QED  BY <2>1, <2>2, <2>3 DEF Channel!Offer
<1>6. ASSUME HandlerSends PROVE UNCHANGED Channel!vars
  <2>1. /\ TxPart = <<tx>> /\ TxPart' = << >>
        /\ queue' = Append(queue, tx)
        /\ RxPart' = RxPart /\ UNCHANGED applied
    BY <1>6 DEF HandlerSends, SendToQueue, TxPart, RxPart, RxPending, opcVars
  <2>2. InFlight' = InFlight
    BY <1>2, <2>1, LineSend
  <2>3. QED  BY <2>1, <2>2 DEF Channel!vars
<1>7. ASSUME HandlerSendTimesOut PROVE Channel!Next
  <2>1. /\ TxPart = <<tx>> /\ TxPart' = << >>
        /\ RxPart' = RxPart /\ UNCHANGED <<queue, applied>>
    BY <1>7 DEF HandlerSendTimesOut, SendTimesOut, HandlerReturns, TxPart,
       RxPart, RxPending, opcVars
  <2>2. InFlight' = (RxPart \o queue) \o << >>
    BY <1>2, <2>1
  <2>3. InFlight = ((RxPart \o queue) \o TxPart) \o << >>
    BY <1>2, LineLength, ConcatEmptySeq
  <2>4. RxPart \o queue \in Seq(Message) /\ TxPart # << >>
    BY <1>2, <2>1, ConcatProperties
  <2>5. << >> \in Seq(Message)
    BY EmptySeq
  <2>6. QED  BY <1>2, <2>1, <2>2, <2>3, <2>4, <2>5, LineGap
<1>8. ASSUME OpcReceive PROVE UNCHANGED Channel!vars
  <2>1. /\ RxPart = << >> /\ RxPart' = <<Head(queue)>>
        /\ queue # << >> /\ queue' = Tail(queue)
        /\ TxPart' = TxPart /\ UNCHANGED applied
    BY <1>8 DEF OpcReceive, ReceiveFromQueue, TxPart, RxPart, RxPending, subVars
  <2>2. InFlight' = InFlight
    BY <1>2, <2>1, LineReceive
  <2>3. QED  BY <2>1, <2>2 DEF Channel!vars
<1>9. ASSUME OpcTakeTimesOut PROVE Channel!Next
  <2>1. /\ RxPart = <<rx>> /\ RxPart' = << >>
        /\ TxPart' = TxPart /\ UNCHANGED <<queue, applied>>
    BY <1>9 DEF OpcTakeTimesOut, TxPart, RxPart, RxPending, subVars
  <2>2. InFlight' = << >> \o (queue \o TxPart)
    <3>1. InFlight' = (<< >> \o queue) \o TxPart
      BY <1>2, <2>1
    <3>2. QED  BY <1>2, <3>1, LineStart
  <2>3. InFlight = (<< >> \o RxPart) \o (queue \o TxPart)
    BY <1>2, LineStart
  <2>4. queue \o TxPart \in Seq(Message) /\ RxPart # << >>
    BY <1>2, <2>1, ConcatProperties
  <2>5. << >> \in Seq(Message)
    BY EmptySeq
  <2>6. QED  BY <1>2, <2>1, <2>2, <2>3, <2>4, <2>5, LineGap
<1>10. ASSUME OpcUpdate PROVE Channel!Deliver \/ UNCHANGED Channel!vars
  <2>1. /\ opcPc = "update" /\ TxPart' = TxPart /\ UNCHANGED <<queue, rx, subPc, tx>>
        /\ \/ opcPc' = "update" /\ applied' = applied
           \/ opcPc' = "iterate" /\ applied' = Append(applied, rx)
    BY <1>10 DEF OpcUpdate, TxPart, subVars
  <2>2. CASE opcPc' = "update" /\ applied' = applied
    BY <2>1, <2>2, LineFrame DEF RxPending
  <2>3. CASE opcPc' = "iterate" /\ applied' = Append(applied, rx)
    <3>1. RxPart = <<rx>> /\ RxPart' = << >>
      BY <2>1, <2>3 DEF RxPart, RxPending
    <3>2. /\ InFlight # << >> /\ InFlight' = Tail(InFlight)
          /\ Head(InFlight) = rx
      BY <1>2, <2>1, <3>1, LineLeave
    <3>3. QED  BY <2>3, <3>2 DEF Channel!Deliver
  <2>4. QED  BY <2>1, <2>2, <2>3
<1>11. CASE EventReplacesMutex
  <2>1. UNCHANGED <<queue, applied, rx, tx, subPc, opcPc>>
    BY <1>11 DEF EventReplacesMutex, ReplaceMutex, subVars, opcVars
  <2>2. QED  BY <2>1, LineFrame DEF RxPending
<1>12. ASSUME EventReplacesQueue
       PROVE  Channel!Next \/ UNCHANGED Channel!vars
  <2>1. /\ RxPart' = RxPart /\ TxPart' = TxPart /\ queue' = << >>
        /\ UNCHANGED <<applied, rx, tx, subPc, opcPc>>
    BY <1>12 DEF EventReplacesQueue, ReplaceQueue, subVars, opcVars, RxPart,
       TxPart, RxPending
  <2>2. CASE queue = << >>
    BY <2>1, <2>2, LineFrame DEF RxPending
  <2>3. CASE queue # << >>
    <3>1. InFlight' = RxPart \o TxPart
      BY <1>2, <2>1, ConcatEmptySeq
    <3>2. QED  BY <1>2, <2>1, <2>3, <3>1, LineGap
  <2>4. QED  BY <2>2, <2>3
<1>13. CASE UNCHANGED vars
  BY <1>13, LineFrame DEF vars, subVars, opcVars, RxPending
<1>14. ASSUME OpcSetupFails
       PROVE  Channel!Next \/ UNCHANGED Channel!vars
  <2>1. /\ RxPart = << >> /\ RxPart' = << >> /\ queue' = << >>
        /\ TxPart' = << >> /\ applied' = applied
    BY <1>14 DEF OpcSetupFails, RxPart, TxPart, RxPending
  <2> DEFINE rest == queue \o TxPart
  <2>2. rest \in Seq(Message) /\ << >> \in Seq(Message)
    BY <1>2, ConcatProperties, EmptySeq
  <2>3. InFlight = rest
    <3>1. InFlight = (<< >> \o queue) \o TxPart  BY <1>2, <2>1
    <3>2. << >> \o queue = queue  BY <1>2, ConcatEmptySeq
    <3>3. QED  BY <3>1, <3>2
  <2>4. InFlight' = << >>
    <3>1. InFlight' = (<< >> \o << >>) \o << >>  BY <1>2, <2>1
    <3>2. QED  BY <2>2, <3>1, ConcatEmptySeq
  <2> HIDE DEF rest
  <2>5. CASE rest = << >>
    BY <2>1, <2>3, <2>4, <2>5 DEF Channel!vars
  <2>6. CASE rest # << >>
    <3>1. (<< >> \o rest) \o << >> = rest /\ << >> \o << >> = << >>
      BY <2>2, ConcatEmptySeq
    <3>2. InFlight = (<< >> \o rest) \o << >> /\ InFlight' = << >> \o << >>
      BY <2>3, <2>4, <3>1
    <3>3. QED  BY <2>1, <2>2, <2>6, <3>2, LineGap
  <2>7. QED  BY <2>5, <2>6
<1>15. QED
  BY <1>2, <1>3, <1>4, <1>5, <1>6, <1>7, <1>8, <1>9, <1>10, <1>11, <1>12,
     <1>13, <1>14
  DEF Next, SubStep, OpcStep, SubNext, OpcNext, Channel!Next

\* The bridge implements the lossy channel: whatever the two tasks, the
\* timeouts, the broker and the event handler do, messages are lost but
\* neither repeated nor reordered.
THEOREM BridgeImplementsChannel == Spec => ImplementsChannel
<1>1. Init => Channel!Init
  <2> SUFFICES ASSUME Init PROVE InFlight = << >> /\ applied = << >>
    BY DEF Channel!Init
  <2>1. RxPart = << >> /\ TxPart = << >> /\ queue = << >> /\ applied = << >>
    BY DEF Init, KernelInit, RxPart, TxPart, RxPending
  <2>2. InFlight = (<< >> \o << >>) \o << >>
    BY <2>1 DEF InFlight, RxPart, TxPart, RxPending
  <2>3. QED  BY <2>1, <2>2, EmptySeq, ConcatEmptySeq
<1>2. TypeInv /\ TypeInv' /\ [Next]_vars => [Channel!Next]_(Channel!vars)
  BY ChannelStep
<1>3. QED
  BY <1>1, <1>2, TypeInvariant, PTL DEF Spec, ImplementsChannel, Channel!Spec
=============================================================================
