------------------------- MODULE OpcUaToMqttProofs -------------------------
(***************************************************************************)
(* Theorems about OpcUaToMqtt, for every number of frames, retries and     *)
(* events and every kind of key frame.  What is said of the order of the   *)
(* elements needs the length of the queue to be that of a frame; what is   *)
(* said of their age does not.                                             *)
(***************************************************************************)
EXTENDS OpcUaToMqtt, TLAPS

\* A slot is one of three.
LEMMA SlotNumbers == Slots = {0, 1, 2}
BY DEF Slots

\* What has a slot or a frame is the placeholder or an element of a frame.
LEMMA ElementFields ==
  ASSUME NEW e \in Element
  PROVE  e.frame \in 0..MaxFrames /\ e.slot \in {-1, 0, 1, 2}
BY PubBridgeAssumption, SlotNumbers DEF Element, Garbage

\* What the stack held before is a string too.
LEMMA GarbageElement == Garbage \in Element
BY DEF Element

\* What sending does to the queue, index by index.
LEMMA Sent ==
  ASSUME NEW S, NEW s \in Seq(S), NEW e \in S
  PROVE  /\ Append(s, e) \in Seq(S) /\ Len(Append(s, e)) = Len(s) + 1
         /\ DOMAIN Append(s, e) = 1..(Len(s) + 1)
         /\ DOMAIN s = 1..Len(s) /\ Len(s) \in Nat
         /\ \A k \in 1..Len(s) : Append(s, e)[k] = s[k]
         /\ Append(s, e)[Len(s) + 1] = e
OBVIOUS

\* What receiving does to it.
LEMMA Received ==
  ASSUME NEW S, NEW s \in Seq(S), s # << >>
  PROVE  /\ Tail(s) \in Seq(S) /\ Len(Tail(s)) = Len(s) - 1
         /\ Head(s) = s[1] /\ Head(s) \in S
         /\ DOMAIN Tail(s) = 1..(Len(s) - 1)
         /\ DOMAIN s = 1..Len(s) /\ Len(s) \in Nat /\ Len(s) > 0 /\ 1 \in DOMAIN s
         /\ \A k \in 1..(Len(s) - 1) : Tail(s)[k] = s[k + 1]
OBVIOUS
-----------------------------------------------------------------------------
(* Types.                                                                  *)

\* Both tasks begin with their types.
LEMMA TypeInit == Init => TypeOK
<1> SUFFICES ASSUME Init PROVE TypeOK
  OBVIOUS
<1> USE PubBridgeAssumption, MaxEventsAssumption, QueueLengthAssumption
<1>1. /\ mutex = Available /\ queue = << >> /\ outdated = {} /\ events = 0
      /\ replacing = FALSE
  BY DEF Init, KernelInit
<1>2. txBuf \in Buffer /\ rxBuf \in Buffer /\ published \in Buffer
  BY GarbageElement DEF Init, Buffer
<1>3. formats \subseteq SUBSET Slots
  BY DEF Init
<1>4. queue \in Seq(Element) /\ Len(queue) <= QueueLength
  BY <1>1
<1>5. frame \in 0..MaxFrames /\ attempts \in 0..ConnectRetries
      /\ sending \in Slots /\ reading \in Slots /\ events \in 0..MaxEvents
  BY <1>1, SlotNumbers DEF Init
<1> QED BY <1>1, <1>2, <1>3, <1>4, <1>5 DEF Init, TypeOK

\* The steps of the OPC UA task.
LEMMA TypeOpc ==
  ASSUME TypeOK, OpcStep(OpcNext)
  PROVE  TypeOK'
<1> USE SlotNumbers
<1>1. /\ outdated' \subseteq {OpcUa, Mqtt}
      /\ events' \in 0..MaxEvents /\ replacing' \in BOOLEAN
      /\ disturbed' \in BOOLEAN /\ formats' \subseteq SUBSET Slots
  BY DEF OpcStep, Runs, handlerVars, Observe, SendDuringRead, TypeOK
<1>2. ASSUME UNCHANGED pubVars,
             mutex' \in {Available, OpcUa, Mqtt},
             queue' \in Seq(Element) /\ Len(queue') <= QueueLength,
             opcPc' \in {"take", "setup", "run", "runWithoutCallback", "receive",
                         "send", "give"},
             frame' \in 0..MaxFrames, sending' \in Slots, txBuf' \in Buffer
      PROVE  TypeOK'
  BY <1>1, <1>2 DEF TypeOK, pubVars
<1>3. CASE OpcTake \/ OpcTakeTimesOut \/ OpcSetup \/ OpcServerFails \/ CallbackTakes
             \/ CallbackTakeTimesOut \/ ReceivesNothing \/ ReturnsWithMutex
             \/ CallbackGives
  <2>1. /\ UNCHANGED <<queue, frame, txBuf, sending, pubVars>>
        /\ mutex' \in {Available, OpcUa, mutex}
        /\ opcPc' \in {"take", "setup", "run", "runWithoutCallback", "receive",
                       "send", "give"}
    BY <1>3 DEF OpcTake, OpcTakeTimesOut, OpcSetup, OpcServerFails, CallbackTakes,
       CallbackTakeTimesOut, ReceivesNothing, ReturnsWithMutex, CallbackGives,
       TakeMutex, TakeTimesOut, GiveMutex, opcVars, TypeOK
  <2> QED BY <1>2, <2>1 DEF TypeOK
<1>4. CASE ReceivesFrame
  <2>1. /\ UNCHANGED <<mutex, queue, pubVars>> /\ opcPc' = "send" /\ sending' = 0
        /\ frame' = frame + 1 /\ frame < MaxFrames
    BY <1>4 DEF ReceivesFrame
  <2>2. frame' \in 1..MaxFrames
    BY <2>1, PubBridgeAssumption DEF TypeOK
  <2>3. txBuf' \in Buffer
    <3>1. PICK strings \in formats, stack \in [Slots -> BOOLEAN] :
            txBuf' = [i \in Slots |-> IF i \in strings
                                      THEN [frame |-> frame', slot |-> i]
                                      ELSE IF stack[i] THEN txBuf[i] ELSE Garbage]
      BY <1>4 DEF ReceivesFrame
    <3>2. \A i \in Slots : [frame |-> frame', slot |-> i] \in Element
      BY <2>2 DEF Element
    <3> QED BY <3>1, <3>2, GarbageElement DEF Buffer, TypeOK
  <2> QED BY <1>2, <2>1, <2>2, <2>3, PubBridgeAssumption DEF TypeOK
<1>5. CASE CallbackSends \/ CallbackSendTimesOut
  <2>1. /\ UNCHANGED <<mutex, frame, txBuf, pubVars>> /\ SendNext
        /\ \/ queue' = queue
           \/ Len(queue) < QueueLength /\ queue' = Append(queue, txBuf[sending])
    BY <1>5 DEF CallbackSends, CallbackSendTimesOut, SendToQueue, SendTimesOut
  <2>2. opcPc' \in {"give", "send"} /\ sending' \in Slots
    BY <2>1 DEF SendNext, TypeOK
  <2>3. queue' \in Seq(Element) /\ Len(queue') <= QueueLength
    BY <2>1, QueueLengthAssumption DEF TypeOK, Buffer
  <2> QED BY <1>2, <2>1, <2>2, <2>3 DEF TypeOK
<1> QED BY <1>3, <1>4, <1>5 DEF OpcStep, OpcNext

\* The steps of the MQTT task.
LEMMA TypePub ==
  ASSUME TypeOK, PubStep(PubNext)
  PROVE  TypeOK'
<1> USE SlotNumbers
<1>1. /\ outdated' \subseteq {OpcUa, Mqtt}
      /\ events' \in 0..MaxEvents /\ replacing' \in BOOLEAN
      /\ disturbed' \in BOOLEAN /\ formats' \subseteq SUBSET Slots
  BY DEF PubStep, Runs, handlerVars, Observe, SendDuringRead, TypeOK
<1>2. ASSUME UNCHANGED opcVars,
             mutex' \in {Available, OpcUa, Mqtt},
             queue' \in Seq(Element) /\ Len(queue') <= QueueLength,
             pubPc' \in {"take", "giveStart", "connect", "online", "takeRead",
                         "giveElse", "read", "publish"},
             attempts' \in 0..ConnectRetries, reading' \in Slots,
             rxBuf' \in Buffer, published' \in Buffer
      PROVE  TypeOK'
  BY <1>1, <1>2 DEF TypeOK, opcVars
<1>3. CASE PubTake \/ PubTakeTimesOut \/ PubGiveStart \/ PubOnline \/ PubTakeRead
             \/ PubTakeReadTimesOut \/ PubGiveElse \/ PubPublishes
  <2>1. /\ UNCHANGED <<queue, attempts, rxBuf, opcVars>>
        /\ mutex' \in {Available, Mqtt, mutex}
        /\ reading' \in {0, reading} /\ published' \in {published, rxBuf}
        /\ pubPc' \in {"take", "giveStart", "connect", "online", "takeRead",
                       "giveElse", "read", "publish"}
    BY <1>3 DEF PubTake, PubTakeTimesOut, PubGiveStart, PubOnline, PubTakeRead,
       PubTakeReadTimesOut, PubGiveElse, PubPublishes, TakeMutex, TakeTimesOut,
       GiveMutex
  <2> QED BY <1>2, <2>1 DEF TypeOK
<1>4. CASE ConnectFails \/ ConnectSucceeds
  <2>1. /\ UNCHANGED <<mutex, queue, rxBuf, reading, published, opcVars>>
        /\ pubPc' \in {"online", "connect"}
        /\ \/ attempts' = 0
           \/ attempts # ConnectRetries /\ attempts' = attempts + 1
    BY <1>4 DEF ConnectFails, ConnectSucceeds
  <2>2. attempts' \in 0..ConnectRetries
    BY <2>1, PubBridgeAssumption DEF TypeOK
  <2> QED BY <1>2, <2>1, <2>2 DEF TypeOK
<1>5. CASE PubReads \/ PubReadTimesOut
  <2>1. /\ UNCHANGED <<mutex, attempts, published, opcVars>> /\ ReadNext
        /\ \/ queue' = queue /\ rxBuf' = rxBuf
           \/ /\ queue # << >> /\ queue' = Tail(queue)
              /\ rxBuf' = [rxBuf EXCEPT ![reading] = Head(queue)]
    BY <1>5 DEF PubReads, PubReadTimesOut, ReceiveFromQueue, ReceiveTimesOut
  <2>2. pubPc' \in {"publish", "read"} /\ reading' \in Slots
    BY <2>1 DEF ReadNext, TypeOK
  <2>3. queue' \in Seq(Element) /\ Len(queue') <= QueueLength /\ rxBuf' \in Buffer
    <3>1. CASE queue' = queue /\ rxBuf' = rxBuf
      BY <3>1 DEF TypeOK
    <3>2. CASE /\ queue # << >> /\ queue' = Tail(queue)
               /\ rxBuf' = [rxBuf EXCEPT ![reading] = Head(queue)]
      <4>1. /\ Tail(queue) \in Seq(Element) /\ Len(Tail(queue)) = Len(queue) - 1
            /\ Head(queue) \in Element /\ Len(queue) \in Nat
        BY <3>2, Received DEF TypeOK
      <4>2. rxBuf' \in Buffer
        BY <3>2, <4>1 DEF TypeOK, Buffer
      <4>3. Len(queue') <= QueueLength
        BY <3>2, <4>1, QueueLengthAssumption DEF TypeOK
      <4> QED BY <3>2, <4>1, <4>2, <4>3
    <3> QED BY <2>1, <3>1, <3>2
  <2> QED BY <1>2, <2>1, <2>2, <2>3 DEF TypeOK
<1> QED BY <1>3, <1>4, <1>5 DEF PubStep, PubNext

\* The events.
LEMMA TypeEvents ==
  ASSUME TypeOK, EventReplacesMutex \/ EventReplacesQueue
  PROVE  TypeOK'
<1>1. UNCHANGED <<opcVars, pubVars, formats>> /\ disturbed' \in BOOLEAN
  BY DEF EventReplacesMutex, EventReplacesQueue, TypeOK
<1>2. /\ mutex' \in {Available, mutex}
      /\ queue' = << >> \/ queue' = queue
      /\ replacing' \in BOOLEAN
      /\ \/ events' = events
         \/ events < MaxEvents /\ events' = events + 1
  BY DEF EventReplacesMutex, EventReplacesQueue, ReplaceMutex, ReplaceQueue
<1>3. outdated' \subseteq {OpcUa, Mqtt}
  <2>1. CASE EventReplacesMutex
    BY <2>1 DEF EventReplacesMutex, ReplaceMutex, TypeOK
  <2>2. CASE EventReplacesQueue
    BY <2>2 DEF EventReplacesQueue, ReplaceQueue, TypeOK
  <2> QED BY <2>1, <2>2
<1>4. events' \in 0..MaxEvents
  BY <1>2, MaxEventsAssumption DEF TypeOK
<1>5. queue' \in Seq(Element) /\ Len(queue') <= QueueLength
  <2>1. << >> \in Seq(Element) /\ Len(<< >>) <= QueueLength
    BY QueueLengthAssumption
  <2> QED BY <1>2, <2>1 DEF TypeOK
<1> QED BY <1>1, <1>2, <1>3, <1>4, <1>5 DEF TypeOK, opcVars, pubVars

\* A restart begins with the types again.
LEMMA TypeRestarts ==
  ASSUME TypeOK, Restarts
  PROVE  TypeOK'
<1> USE PubBridgeAssumption, MaxEventsAssumption, QueueLengthAssumption
<1>1. txBuf' \in Buffer /\ rxBuf' \in Buffer /\ published' \in Buffer
  BY GarbageElement DEF Restarts, Buffer
<1>2. queue' \in Seq(Element) /\ Len(queue') <= QueueLength
  BY DEF Restarts
<1>3. frame' \in 0..MaxFrames /\ attempts' \in 0..ConnectRetries
      /\ sending' \in Slots /\ reading' \in Slots
  BY SlotNumbers DEF Restarts
<1> QED BY <1>1, <1>2, <1>3 DEF Restarts, TypeOK

\* Every step of both tasks, every event and every restart keeps the types.
LEMMA TypeNext == TypeOK /\ [Next]_vars => TypeOK'
<1> SUFFICES ASSUME TypeOK, [Next]_vars PROVE TypeOK'
  OBVIOUS
<1>1. CASE UNCHANGED vars
  BY <1>1 DEF vars, handlerVars, opcVars, pubVars, TypeOK
<1> QED BY <1>1, TypeOpc, TypePub, TypeEvents, TypeRestarts DEF Next

\* Every variable keeps its type: no buffer ever holds anything but strings of
\* received frames and what the stack held before.
THEOREM TypeCorrect == Spec => []TypeOK
BY TypeInit, TypeNext, PTL DEF Spec
-----------------------------------------------------------------------------
(* Age.  If every frame has its three strings, frames only grow older on   *)
(* the way to the broker: from TxBuffer through the queue and RxBuffer.    *)

OlderInv ==
  formats = {Slots} =>
    /\ \A i \in Slots : /\ txBuf[i].frame = frame
                        /\ published[i].frame <= rxBuf[i].frame
                        /\ rxBuf[i].frame <= frame
                        /\ \A k \in DOMAIN queue : rxBuf[i].frame <= queue[k].frame
    /\ \A j, k \in DOMAIN queue : j <= k => queue[j].frame <= queue[k].frame
    /\ \A k \in DOMAIN queue : queue[k].frame <= frame

\* The frames' numbers are numbers.
LEMMA FrameNumbers ==
  ASSUME TypeOK
  PROVE  /\ \A i \in Slots : /\ rxBuf[i].frame \in Nat /\ published[i].frame \in Nat
                             /\ txBuf[i].frame \in Nat
         /\ \A k \in DOMAIN queue : queue[k].frame \in Nat
         /\ frame \in Nat
<1>1. \A i \in Slots : rxBuf[i] \in Element /\ published[i] \in Element /\ txBuf[i] \in Element
  BY DEF TypeOK, Buffer
<1>2. \A k \in DOMAIN queue : queue[k] \in Element
  <2>1. queue \in Seq(Element)
    BY DEF TypeOK
  <2> QED BY <2>1
<1>3. \A e \in Element : e.frame \in Nat
  BY ElementFields, PubBridgeAssumption
<1> QED BY <1>1, <1>2, <1>3, PubBridgeAssumption DEF TypeOK

\* The received frame is the youngest.
LEMMA OlderReceived ==
  ASSUME TypeOK, OlderInv, ReceivesFrame, formats' = formats
  PROVE  OlderInv'
<1> SUFFICES ASSUME formats = {Slots} PROVE OlderInv'
  BY DEF OlderInv
<1>1. /\ frame' = frame + 1 /\ UNCHANGED <<queue, pubVars>>
      /\ txBuf' = [i \in Slots |-> [frame |-> frame', slot |-> i]]
  BY DEF ReceivesFrame
<1>2. \A i \in Slots : txBuf'[i].frame = frame'
  BY <1>1
<1>3. \A n \in Nat : n <= frame => n <= frame'
  BY <1>1, FrameNumbers
<1> QED BY <1>1, <1>2, <1>3, FrameNumbers DEF OlderInv, pubVars

\* What is sent is as young as the received frame.
LEMMA OlderSent ==
  ASSUME TypeOK, OlderInv, CallbackSends, formats' = formats
  PROVE  OlderInv'
<1> SUFFICES ASSUME formats = {Slots} PROVE OlderInv'
  BY DEF OlderInv
<1>1. /\ UNCHANGED <<frame, txBuf, pubVars>> /\ queue' = Append(queue, txBuf[sending])
  BY DEF CallbackSends, SendToQueue
<1>2. queue \in Seq(Element) /\ txBuf[sending] \in Element /\ sending \in Slots
  BY DEF TypeOK, Buffer
<1>3. /\ DOMAIN queue' = 1..(Len(queue) + 1) /\ DOMAIN queue = 1..Len(queue)
      /\ Len(queue) \in Nat
      /\ \A k \in 1..Len(queue) : queue'[k] = queue[k]
      /\ queue'[Len(queue) + 1] = txBuf[sending]
  BY <1>1, <1>2, Sent
<1>4. txBuf[sending].frame = frame
  BY <1>2 DEF OlderInv
<1>5. \A k \in DOMAIN queue' : \/ k \in DOMAIN queue /\ queue'[k] = queue[k]
                               \/ k = Len(queue) + 1 /\ queue'[k].frame = frame
  BY <1>3, <1>4
<1>6. \A j, k \in DOMAIN queue' : j <= k => queue'[j].frame <= queue'[k].frame
  BY <1>3, <1>5, FrameNumbers DEF OlderInv
<1>7. \A k \in DOMAIN queue' : queue'[k].frame <= frame
  BY <1>5, FrameNumbers DEF OlderInv
<1>8. \A i \in Slots : \A k \in DOMAIN queue' : rxBuf[i].frame <= queue'[k].frame
  BY <1>5 DEF OlderInv
<1> QED BY <1>1, <1>6, <1>7, <1>8 DEF OlderInv, pubVars

\* What is read is as old as anything in the queue, and younger than what the
\* slot held.
LEMMA OlderRead ==
  ASSUME TypeOK, OlderInv, PubReads, formats' = formats
  PROVE  OlderInv'
<1> SUFFICES ASSUME formats = {Slots} PROVE OlderInv'
  BY DEF OlderInv
<1>1. /\ UNCHANGED <<published, opcVars>> /\ queue # << >> /\ queue' = Tail(queue)
      /\ rxBuf' = [rxBuf EXCEPT ![reading] = Head(queue)]
  BY DEF PubReads, ReceiveFromQueue
<1>2. queue \in Seq(Element) /\ rxBuf \in [Slots -> Element] /\ reading \in Slots
  BY DEF TypeOK, Buffer
<1>3. /\ Head(queue) = queue[1] /\ 1 \in DOMAIN queue
      /\ DOMAIN queue' = 1..(Len(queue) - 1) /\ DOMAIN queue = 1..Len(queue)
      /\ Len(queue) \in Nat
      /\ \A k \in 1..(Len(queue) - 1) : queue'[k] = queue[k + 1]
  BY <1>1, <1>2, Received
<1>4. \A k \in DOMAIN queue' : k \in Int /\ k + 1 \in DOMAIN queue /\ 1 <= k + 1
                               /\ queue'[k] = queue[k + 1]
  BY <1>3
<1>5. \A i \in Slots : \/ i # reading /\ rxBuf'[i] = rxBuf[i]
                       \/ i = reading /\ rxBuf'[i] = queue[1]
  BY <1>1, <1>2, <1>3
<1>6. \A j, k \in DOMAIN queue' : j <= k => queue'[j].frame <= queue'[k].frame
  BY <1>4 DEF OlderInv
<1>7. \A k \in DOMAIN queue' : queue'[k].frame <= frame /\ queue[1].frame <= queue'[k].frame
  BY <1>3, <1>4 DEF OlderInv
<1>8. \A i \in Slots : /\ published[i].frame <= rxBuf'[i].frame
                       /\ rxBuf'[i].frame <= frame
                       /\ \A k \in DOMAIN queue' : rxBuf'[i].frame <= queue'[k].frame
  <2> TAKE i \in Slots
  <2>1. CASE rxBuf'[i] = rxBuf[i]
    BY <1>4, <2>1 DEF OlderInv
  <2>2. CASE i = reading /\ rxBuf'[i] = queue[1]
    <3>1. published[i].frame <= rxBuf[i].frame /\ rxBuf[i].frame <= queue[1].frame
          /\ queue[1].frame <= frame
      BY <1>3 DEF OlderInv
    <3>2. published[i].frame <= queue[1].frame
      BY <1>3, <3>1, FrameNumbers
    <3> QED BY <1>7, <2>2, <3>1, <3>2
  <2> QED BY <1>5, <2>1, <2>2
<1> QED BY <1>1, <1>6, <1>7, <1>8 DEF OlderInv, opcVars

\* Every step keeps the order of age.
LEMMA OlderNext == TypeOK /\ OlderInv /\ [Next]_vars => OlderInv'
<1> SUFFICES ASSUME TypeOK, OlderInv, [Next]_vars PROVE OlderInv'
  OBVIOUS
<1>1. formats' = formats
  BY DEF Next, OpcStep, PubStep, Restarts, EventReplacesMutex, EventReplacesQueue, vars
<1>2. ASSUME UNCHANGED <<queue, frame, txBuf, rxBuf, published>> PROVE OlderInv'
  BY <1>1, <1>2 DEF OlderInv
<1>3. CASE OpcTake \/ OpcTakeTimesOut \/ OpcSetup \/ OpcServerFails \/ CallbackTakes
             \/ CallbackTakeTimesOut \/ ReceivesNothing \/ ReturnsWithMutex
             \/ CallbackSendTimesOut \/ CallbackGives
  BY <1>2, <1>3 DEF OpcTake, OpcTakeTimesOut, OpcSetup, OpcServerFails, CallbackTakes,
     CallbackTakeTimesOut, ReceivesNothing, ReturnsWithMutex, CallbackSendTimesOut,
     SendTimesOut, CallbackGives, opcVars, pubVars
<1>4. CASE ReceivesFrame
  BY <1>1, <1>4, OlderReceived
<1>5. CASE CallbackSends
  BY <1>1, <1>5, OlderSent
<1>6. CASE PubTake \/ PubTakeTimesOut \/ PubGiveStart \/ ConnectFails
             \/ ConnectSucceeds \/ PubOnline \/ PubTakeRead \/ PubTakeReadTimesOut
             \/ PubGiveElse \/ PubReadTimesOut
  BY <1>2, <1>6 DEF PubTake, PubTakeTimesOut, PubGiveStart, ConnectFails,
     ConnectSucceeds, PubOnline, PubTakeRead, PubTakeReadTimesOut, PubGiveElse,
     PubReadTimesOut, ReceiveTimesOut, opcVars
<1>7. CASE PubReads
  BY <1>1, <1>7, OlderRead
<1>8. CASE PubPublishes
  <2>1. published' = rxBuf /\ UNCHANGED <<queue, frame, txBuf, rxBuf>>
    BY <1>8 DEF PubPublishes, opcVars
  <2> QED BY <1>1, <2>1, FrameNumbers DEF OlderInv
<1>9. CASE EventReplacesMutex \/ UNCHANGED vars
  BY <1>2, <1>9 DEF EventReplacesMutex, ReplaceMutex, vars, opcVars, pubVars
<1>10. CASE EventReplacesQueue
  <2>1. DOMAIN queue' = {} /\ UNCHANGED <<frame, txBuf, rxBuf, published>>
    BY <1>10 DEF EventReplacesQueue, ReplaceQueue, opcVars, pubVars
  <2> QED BY <1>1, <2>1 DEF OlderInv
<1>11. CASE Restarts
  <2>1. /\ DOMAIN queue' = {} /\ frame' = 0
        /\ \A i \in Slots : /\ txBuf'[i].frame = 0 /\ rxBuf'[i].frame = 0
                            /\ published'[i].frame = 0
    BY <1>11 DEF Restarts, Garbage
  <2> QED BY <2>1 DEF OlderInv
<1> QED BY <1>3, <1>4, <1>5, <1>6, <1>7, <1>8, <1>9, <1>10, <1>11
    DEF Next, OpcStep, PubStep, OpcNext, PubNext

\* If every frame has its three strings, frames only grow older from TxBuffer through
\* queue and RxBuffer to the broker, in every behaviour.
LEMMA OlderInvariant == Spec => []OlderInv
<1>1. Init => OlderInv
  <2> SUFFICES ASSUME Init PROVE OlderInv
    OBVIOUS
  <2>1. /\ DOMAIN queue = {} /\ frame = 0
        /\ \A i \in Slots : /\ txBuf[i].frame = 0 /\ rxBuf[i].frame = 0
                            /\ published[i].frame = 0
    BY DEF Init, KernelInit, Garbage
  <2> QED BY <2>1 DEF OlderInv
<1>2. QED  BY <1>1, OlderNext, TypeCorrect, PTL DEF Spec

\* A published field never goes back to an older frame before the chip starts
\* again, for any length of the queue, although sends and reads interleave, time
\* out and lose the queue.
THEOREM FieldsNeverOlder == Spec => NeverOlder
<1>1. TypeOK /\ OlderInv /\ [Next]_vars =>
        [formats = {Slots} /\ ~Restarts =>
           \A i \in Slots : published'[i].frame >= published[i].frame]_published
  <2> SUFFICES ASSUME TypeOK, OlderInv, [Next]_vars, formats = {Slots}, ~Restarts,
                      published' # published, NEW i \in Slots
               PROVE  published'[i].frame >= published[i].frame
    OBVIOUS
  <2>1. published' = rxBuf
    BY DEF Next, OpcStep, OpcNext, OpcTake, OpcTakeTimesOut, OpcSetup, OpcServerFails, CallbackTakes,
       CallbackTakeTimesOut, ReceivesNothing, ReturnsWithMutex, ReceivesFrame,
       CallbackSends, CallbackSendTimesOut, CallbackGives, PubStep, PubNext, PubTake,
       PubTakeTimesOut, PubGiveStart, ConnectFails, ConnectSucceeds, PubOnline,
       PubTakeRead, PubTakeReadTimesOut, PubGiveElse, PubReads, PubReadTimesOut,
       PubPublishes, EventReplacesMutex, EventReplacesQueue, pubVars, vars
  <2>2. published[i].frame <= rxBuf[i].frame
    BY DEF OlderInv
  <2> QED BY <2>1, <2>2, FrameNumbers
<1>2. QED  BY <1>1, OlderInvariant, TypeCorrect, PTL DEF Spec, NeverOlder
-----------------------------------------------------------------------------
(* Order.  While nothing disturbs a transfer, the queue holds a whole      *)
(* frame, or the elements of one that were sent, or those not yet read; so *)
(* a send times out only for a frame as a whole, and so does a read.  This *)
(* is where the queue's length matters: it is that of a frame.             *)

OfSlot(e, i) == e = Garbage \/ e.slot = i

\* The slot of the oldest element in the queue.
First == IF pubPc = "read" THEN reading ELSE 0

\* Who waits in an object no longer used waits for a mutex, or is disturbed.
WaitInv ==
  /\ OpcUa \in outdated => opcPc \in {"take", "run"} \/ disturbed
  /\ Mqtt \in outdated => pubPc \in {"take", "takeRead"} \/ disturbed
  /\ SendDuringRead => disturbed

AlignInv ==
  /\ \A i \in Slots : OfSlot(txBuf[i], i)
  /\ ~disturbed =>
       /\ Len(queue) \in IF opcPc = "send" THEN {sending, 3} ELSE {0, 3 - First}
       /\ \A k \in DOMAIN queue : OfSlot(queue[k], First + k - 1)
       /\ \A i \in Slots : OfSlot(rxBuf[i], i) /\ OfSlot(published[i], i)

\* A task's step leaves the other task where it is.
LEMMA OthersStay ==
  /\ OpcNext => UNCHANGED pubVars
  /\ PubNext => UNCHANGED opcVars
BY DEF OpcNext, OpcTake, OpcTakeTimesOut, OpcSetup, OpcServerFails, CallbackTakes,
   CallbackTakeTimesOut, ReceivesNothing, ReturnsWithMutex, ReceivesFrame,
   CallbackSends, CallbackSendTimesOut, CallbackGives, PubNext, PubTake, PubTakeTimesOut,
   PubGiveStart, ConnectFails, ConnectSucceeds, PubOnline, PubTakeRead,
   PubTakeReadTimesOut, PubGiveElse, PubReads, PubReadTimesOut, PubPublishes

\* Once disturbed, for ever; and a send during a read disturbs.
LEMMA Disturbs ==
  ASSUME WaitInv, [Next]_vars
  PROVE  (disturbed => disturbed') /\ (SendDuringRead' => disturbed')
<1>1. CASE OpcStep(OpcNext) \/ PubStep(PubNext)
  BY <1>1 DEF OpcStep, PubStep, Observe
<1>2. CASE EventReplacesMutex \/ EventReplacesQueue \/ UNCHANGED vars
  BY <1>2 DEF EventReplacesMutex, EventReplacesQueue, opcVars, pubVars, vars,
     WaitInv, SendDuringRead
<1>3. CASE Restarts
  BY <1>3 DEF Restarts, SendDuringRead
<1> QED BY <1>1, <1>2, <1>3 DEF Next

\* Every step keeps it so that whoever waits in an old object waits for a mutex, or the
\* frame counts as disturbed.
LEMMA WaitNext == WaitInv /\ [Next]_vars => WaitInv'
<1> SUFFICES ASSUME WaitInv, [Next]_vars PROVE WaitInv'
  OBVIOUS
<1>1. CASE OpcStep(OpcNext)
  <2>1. outdated' = outdated \ {OpcUa} /\ pubPc' = pubPc
    BY <1>1, OthersStay DEF OpcStep, Runs, pubVars
  <2> QED BY <2>1, Disturbs DEF WaitInv
<1>2. CASE PubStep(PubNext)
  <2>1. outdated' = outdated \ {Mqtt} /\ opcPc' = opcPc
    BY <1>2, OthersStay DEF PubStep, Runs, opcVars
  <2> QED BY <2>1, Disturbs DEF WaitInv
<1>3. CASE EventReplacesMutex
  <2>1. /\ outdated' \subseteq
             outdated \cup (IF opcPc \in {"take", "run"} THEN {OpcUa} ELSE {})
                      \cup (IF pubPc \in {"take", "takeRead"} THEN {Mqtt} ELSE {})
        /\ UNCHANGED <<opcPc, pubPc>>
    BY <1>3 DEF EventReplacesMutex, ReplaceMutex, opcVars, pubVars
  <2> QED BY <2>1, Disturbs DEF WaitInv, OpcUa, Mqtt
<1>4. CASE EventReplacesQueue
  <2>1. /\ outdated' \subseteq outdated \cup (IF opcPc = "send" THEN {OpcUa} ELSE {})
                                        \cup (IF pubPc = "read" THEN {Mqtt} ELSE {})
        /\ UNCHANGED <<opcPc, pubPc>>
        /\ disturbed' = (disturbed \/ opcPc = "send" \/ pubPc = "read")
    BY <1>4 DEF EventReplacesQueue, ReplaceQueue, opcVars, pubVars
  <2> QED BY <2>1, Disturbs DEF WaitInv, OpcUa, Mqtt
<1>5. CASE UNCHANGED vars
  BY <1>5 DEF vars, opcVars, pubVars, WaitInv, SendDuringRead
<1>6. CASE Restarts
  BY <1>6 DEF Restarts, WaitInv, SendDuringRead
<1> QED BY <1>1, <1>2, <1>3, <1>4, <1>5, <1>6 DEF Next

\* What is known at the four calls on the queue while nothing is disturbed.
LEMMA AtTheQueue ==
  ASSUME QueueLength = 3, TypeOK, WaitInv, AlignInv, ~disturbed
  PROVE  /\ CallbackSends => Len(queue) = sending /\ First = 0 /\ pubPc # "read"
         /\ CallbackSendTimesOut => Len(queue) = 3 /\ First = 0 /\ pubPc # "read"
         /\ PubReads => Len(queue) = 3 - reading /\ First = reading /\ opcPc # "send"
         /\ PubReadTimesOut => queue = << >> /\ opcPc # "send"
<1>1. queue \in Seq(Element) /\ Len(queue) \in Nat
  BY DEF TypeOK
<1>2. sending \in {0, 1, 2} /\ reading \in {0, 1, 2}
  BY SlotNumbers DEF TypeOK
<1>3. opcPc = "send" => pubPc # "read" /\ OpcUa \notin outdated
  BY DEF WaitInv, SendDuringRead
<1>4. pubPc = "read" => opcPc # "send" /\ Mqtt \notin outdated
  BY DEF WaitInv, SendDuringRead
<1>5. ASSUME CallbackSends
      PROVE  Len(queue) = sending /\ First = 0 /\ pubPc # "read"
  <2>1. opcPc = "send" /\ Len(queue) < 3
    BY <1>5 DEF CallbackSends, SendToQueue
  <2>2. Len(queue) \in {sending, 3}
    BY <2>1 DEF AlignInv
  <2>3. Len(queue) = sending
    BY <2>1, <2>2
  <2> QED BY <1>3, <2>1, <2>3 DEF First
<1>6. ASSUME CallbackSendTimesOut
      PROVE  Len(queue) = 3 /\ First = 0 /\ pubPc # "read"
  BY <1>3, <1>6 DEF CallbackSendTimesOut, SendTimesOut, First
<1>7. ASSUME PubReads
      PROVE  Len(queue) = 3 - reading /\ First = reading /\ opcPc # "send"
  <2>1. pubPc = "read" /\ Len(queue) # 0
    BY <1>1, <1>7 DEF PubReads, ReceiveFromQueue
  <2> QED BY <1>4, <2>1 DEF AlignInv, First
<1>8. ASSUME PubReadTimesOut PROVE queue = << >> /\ opcPc # "send"
  BY <1>4, <1>8 DEF PubReadTimesOut, ReceiveTimesOut
<1> QED BY <1>5, <1>6, <1>7, <1>8

\* Steps that touch neither the queue nor the buffers.
LEMMA AlignFrame ==
  ASSUME AlignInv, disturbed => disturbed',
         UNCHANGED <<queue, txBuf, sending, rxBuf, published>>,
         First' = First, opcPc' = "send" <=> opcPc = "send"
  PROVE  AlignInv'
BY DEF AlignInv

\* A frame is received: each string is put where its slot is.
LEMMA AlignReceived ==
  ASSUME TypeOK, AlignInv, disturbed => disturbed', SendDuringRead' => disturbed',
         ReceivesFrame
  PROVE  AlignInv'
<1>1. /\ opcPc = "receive" /\ opcPc' = "send" /\ sending' = 0
      /\ UNCHANGED <<queue, pubVars>>
  BY DEF ReceivesFrame
<1>2. \A i \in Slots : OfSlot(txBuf'[i], i)
  <2>1. PICK strings \in formats, stack \in [Slots -> BOOLEAN] :
          txBuf' = [i \in Slots |-> IF i \in strings
                                    THEN [frame |-> frame', slot |-> i]
                                    ELSE IF stack[i] THEN txBuf[i] ELSE Garbage]
    BY DEF ReceivesFrame
  <2> QED BY <2>1 DEF AlignInv, OfSlot
<1>3. ~disturbed' => pubPc # "read" /\ First = 0 /\ First' = 0
  BY <1>1 DEF SendDuringRead, First, pubVars
<1>4. ~disturbed' => Len(queue) \in {0, 3}
  BY <1>1, <1>3 DEF AlignInv
<1>5. ~disturbed' => \A k \in DOMAIN queue : OfSlot(queue[k], First' + k - 1)
  BY <1>3 DEF AlignInv
<1> QED BY <1>1, <1>2, <1>4, <1>5 DEF AlignInv, pubVars

\* An element is sent: it is the next of its frame.
LEMMA AlignSent ==
  ASSUME QueueLength = 3, TypeOK, WaitInv, AlignInv, disturbed => disturbed',
         CallbackSends \/ CallbackSendTimesOut
  PROVE  AlignInv'
<1>1. /\ UNCHANGED <<txBuf, pubVars>> /\ SendNext
      /\ queue \in Seq(Element) /\ sending \in {0, 1, 2} /\ txBuf \in [Slots -> Element]
  BY SlotNumbers DEF CallbackSends, CallbackSendTimesOut, TypeOK, Buffer
<1> SUFFICES ASSUME ~disturbed
             PROVE  /\ Len(queue') \in IF opcPc' = "send" THEN {sending', 3} ELSE {0, 3 - First'}
                    /\ \A k \in DOMAIN queue' : OfSlot(queue'[k], First' + k - 1)
  BY <1>1 DEF AlignInv, pubVars
<1>2. First' = 0 /\ First = 0
  BY <1>1, AtTheQueue DEF First, pubVars
<1>3. \/ sending < 2 /\ opcPc' = "send" /\ sending' = sending + 1
      \/ sending = 2 /\ opcPc' = "give"
  BY <1>1 DEF SendNext
<1>4. CASE CallbackSends
  <2>1. queue' = Append(queue, txBuf[sending]) /\ Len(queue) = sending
    BY <1>4, AtTheQueue DEF CallbackSends, SendToQueue
  <2>2. txBuf[sending] \in Element
    BY <1>1, SlotNumbers
  <2>3. /\ Len(queue') = Len(queue) + 1 /\ DOMAIN queue' = 1..(Len(queue) + 1)
        /\ DOMAIN queue = 1..Len(queue)
        /\ \A k \in 1..Len(queue) : queue'[k] = queue[k]
        /\ queue'[Len(queue) + 1] = txBuf[sending]
    BY <1>1, <2>1, <2>2, Sent
  <2>4. OfSlot(txBuf[sending], sending)
    BY <1>1, SlotNumbers DEF AlignInv
  <2>5. \A k \in DOMAIN queue' : OfSlot(queue'[k], k - 1)
    <3> SUFFICES ASSUME NEW k \in DOMAIN queue' PROVE OfSlot(queue'[k], k - 1)
      OBVIOUS
    <3>1. CASE k \in DOMAIN queue
      <4>1. OfSlot(queue[k], First + k - 1) /\ First + k - 1 = k - 1
        BY <1>2, <2>3, <3>1 DEF AlignInv
      <4> QED BY <2>3, <3>1, <4>1
    <3>2. CASE k = sending + 1
      <4>1. k - 1 = sending /\ queue'[k] = txBuf[sending]
        BY <1>1, <2>1, <2>3, <3>2
      <4> QED BY <2>4, <4>1
    <3> QED BY <2>1, <2>3, <3>1, <3>2
  <2>6. \A k \in DOMAIN queue' : First' + k - 1 = k - 1
    BY <1>2, <2>3
  <2> QED BY <1>1, <1>2, <1>3, <2>1, <2>3, <2>5, <2>6
<1>5. CASE CallbackSendTimesOut
  <2>1. queue' = queue /\ Len(queue) = 3
    BY <1>5, AtTheQueue DEF CallbackSendTimesOut, SendTimesOut
  <2> QED BY <1>2, <1>3, <2>1 DEF AlignInv
<1> QED BY <1>4, <1>5

\* A triple is begun: what is in the queue is a whole frame or nothing.
LEMMA AlignBegins ==
  ASSUME AlignInv, disturbed => disturbed', SendDuringRead' => disturbed', PubTakeRead
  PROVE  AlignInv'
<1>1. /\ pubPc = "takeRead" /\ pubPc' = "read" /\ reading' = 0
      /\ UNCHANGED <<queue, rxBuf, published, opcVars>>
  BY DEF PubTakeRead
<1>2. ~disturbed' => opcPc # "send"
  BY <1>1 DEF SendDuringRead, opcVars
<1>3. First = 0 /\ First' = 0
  BY <1>1 DEF First
<1> QED BY <1>1, <1>2, <1>3 DEF AlignInv, opcVars

\* An element is read: it belongs where it is put.
LEMMA AlignRead ==
  ASSUME QueueLength = 3, TypeOK, WaitInv, AlignInv, disturbed => disturbed',
         PubReads \/ PubReadTimesOut
  PROVE  AlignInv'
<1>1. /\ UNCHANGED <<published, opcVars>> /\ ReadNext /\ pubPc = "read"
      /\ queue \in Seq(Element) /\ reading \in {0, 1, 2} /\ rxBuf \in [Slots -> Element]
  BY SlotNumbers DEF PubReads, PubReadTimesOut, TypeOK, Buffer
<1> SUFFICES ASSUME ~disturbed
             PROVE  /\ Len(queue') \in {0, 3 - First'}
                    /\ \A k \in DOMAIN queue' : OfSlot(queue'[k], First' + k - 1)
                    /\ \A i \in Slots : OfSlot(rxBuf'[i], i)
  BY <1>1, AtTheQueue DEF AlignInv, opcVars
<1>2. \/ reading < 2 /\ First' = reading + 1
      \/ reading = 2 /\ First' = 0
  BY <1>1 DEF ReadNext, First
<1>3. CASE PubReads
  <2>1. /\ queue # << >> /\ queue' = Tail(queue)
        /\ rxBuf' = [rxBuf EXCEPT ![reading] = Head(queue)]
        /\ Len(queue) = 3 - reading /\ First = reading
    BY <1>3, AtTheQueue DEF PubReads, ReceiveFromQueue
  <2>2. /\ Head(queue) = queue[1] /\ 1 \in DOMAIN queue /\ Len(queue') = Len(queue) - 1
        /\ DOMAIN queue' = 1..(Len(queue) - 1) /\ DOMAIN queue = 1..Len(queue)
        /\ \A k \in 1..(Len(queue) - 1) : queue'[k] = queue[k + 1]
    BY <1>1, <2>1, Received
  <2>3. Len(queue') = 2 - reading
    BY <1>1, <2>1, <2>2
  <2>4. \A k \in DOMAIN queue : OfSlot(queue[k], reading + k - 1)
    BY <2>1 DEF AlignInv
  <2>5. \A k \in DOMAIN queue' : OfSlot(queue'[k], First' + k - 1)
    <3> SUFFICES ASSUME NEW k \in DOMAIN queue' PROVE OfSlot(queue'[k], First' + k - 1)
      OBVIOUS
    <3>1. k \in 1..(2 - reading) /\ k + 1 \in DOMAIN queue /\ queue'[k] = queue[k + 1]
      BY <1>1, <2>1, <2>2
    <3>2. reading + (k + 1) - 1 = First' + k - 1
      BY <1>1, <1>2, <3>1
    <3> QED BY <2>4, <3>1, <3>2
  <2>6. OfSlot(queue[1], reading)
    <3>1. reading + 1 - 1 = reading
      BY <1>1
    <3> QED BY <2>2, <2>4, <3>1
  <2>7. \A i \in Slots : OfSlot(rxBuf'[i], i)
    BY <1>1, <2>1, <2>2, <2>6 DEF AlignInv
  <2> QED BY <1>1, <1>2, <2>3, <2>5, <2>7
<1>4. CASE PubReadTimesOut
  <2>1. queue' = << >> /\ rxBuf' = rxBuf
    BY <1>4, AtTheQueue DEF PubReadTimesOut, ReceiveTimesOut
  <2> QED BY <2>1 DEF AlignInv
<1> QED BY <1>3, <1>4

\* Every undisturbed step keeps the queue a run of slots that continues where the
\* receiver stands.
LEMMA AlignNext ==
  ASSUME QueueLength = 3
  PROVE  TypeOK /\ WaitInv /\ AlignInv /\ [Next]_vars => AlignInv'
<1> SUFFICES ASSUME TypeOK, WaitInv, AlignInv, [Next]_vars PROVE AlignInv'
  OBVIOUS
<1>0. (disturbed => disturbed') /\ (SendDuringRead' => disturbed')
  BY Disturbs
<1>1. CASE OpcTake \/ OpcTakeTimesOut \/ OpcSetup \/ OpcServerFails \/ CallbackTakes
             \/ CallbackTakeTimesOut \/ ReceivesNothing \/ ReturnsWithMutex
             \/ CallbackGives
  <2>1. /\ UNCHANGED <<queue, txBuf, sending, rxBuf, published>> /\ First' = First
        /\ opcPc # "send" /\ opcPc' # "send"
    BY <1>1 DEF OpcTake, OpcTakeTimesOut, OpcSetup, OpcServerFails, CallbackTakes,
       CallbackTakeTimesOut, ReceivesNothing, ReturnsWithMutex, CallbackGives,
       opcVars, pubVars, First
  <2> QED BY <1>0, <2>1, AlignFrame
<1>2. CASE ReceivesFrame
  BY <1>0, <1>2, AlignReceived
<1>3. CASE CallbackSends \/ CallbackSendTimesOut
  BY <1>0, <1>3, AlignSent
<1>4. CASE PubTake \/ PubTakeTimesOut \/ PubGiveStart \/ ConnectFails
             \/ ConnectSucceeds \/ PubOnline \/ PubTakeReadTimesOut \/ PubGiveElse
  <2>1. /\ UNCHANGED <<queue, txBuf, sending, rxBuf, published, opcPc>>
        /\ pubPc # "read" /\ pubPc' # "read"
    BY <1>4 DEF PubTake, PubTakeTimesOut, PubGiveStart, ConnectFails,
       ConnectSucceeds, PubOnline, PubTakeReadTimesOut, PubGiveElse, opcVars
  <2> QED BY <1>0, <2>1, AlignFrame DEF First
<1>5. CASE PubTakeRead
  BY <1>0, <1>5, AlignBegins
<1>6. CASE PubReads \/ PubReadTimesOut
  BY <1>0, <1>6, AlignRead
<1>7. CASE PubPublishes
  <2>1. /\ UNCHANGED <<queue, txBuf, sending, rxBuf, opcPc>> /\ published' = rxBuf
        /\ pubPc # "read" /\ pubPc' # "read"
    BY <1>7 DEF PubPublishes, opcVars
  <2> QED BY <1>0, <2>1 DEF AlignInv, First
<1>8. CASE EventReplacesMutex \/ UNCHANGED vars
  <2>1. UNCHANGED <<queue, txBuf, sending, rxBuf, published, opcPc, pubPc, reading>>
    BY <1>8 DEF EventReplacesMutex, ReplaceMutex, vars, opcVars, pubVars
  <2> QED BY <1>0, <2>1, AlignFrame DEF First
<1>9. CASE EventReplacesQueue
  <2>1. /\ queue' = << >> /\ UNCHANGED <<txBuf, sending, rxBuf, published, opcPc>>
        /\ ~disturbed' => opcPc # "send"
    BY <1>9 DEF EventReplacesQueue, ReplaceQueue, opcVars, pubVars
  <2> QED BY <1>0, <2>1 DEF AlignInv
<1>10. CASE Restarts
  <2>1. /\ queue' = << >> /\ opcPc' # "send"
        /\ \A i \in Slots : /\ txBuf'[i] = Garbage /\ rxBuf'[i] = Garbage
                            /\ published'[i] = Garbage
    BY <1>10 DEF Restarts
  <2> QED BY <2>1 DEF AlignInv, OfSlot
<1> QED BY <1>1, <1>2, <1>3, <1>4, <1>5, <1>6, <1>7, <1>8, <1>9, <1>10
    DEF Next, OpcStep, PubStep, OpcNext, PubNext

\* Whoever waits in an old object waits for a mutex, or the frame counts as disturbed,
\* in every behaviour.
LEMMA WaitInvariant == Spec => []WaitInv
<1>1. Init => WaitInv
  BY DEF Init, KernelInit, WaitInv, SendDuringRead
<1>2. QED  BY <1>1, WaitNext, PTL DEF Spec

\* Without a disturbance, queue and buffers always have each string in its slot.
LEMMA AlignInvariant ==
  ASSUME QueueLength = 3
  PROVE  Spec => []AlignInv
<1>1. Init => AlignInv
  <2> SUFFICES ASSUME Init PROVE AlignInv
    OBVIOUS
  <2>1. /\ queue = << >> /\ opcPc # "send"
        /\ \A i \in Slots : /\ txBuf[i] = Garbage /\ rxBuf[i] = Garbage
                            /\ published[i] = Garbage
    BY DEF Init, KernelInit
  <2> QED BY <2>1 DEF AlignInv, OfSlot
<1>2. TypeOK /\ WaitInv /\ AlignInv /\ [Next]_vars => AlignInv'
  BY AlignNext
<1>3. QED  BY <1>1, <1>2, WaitInvariant, TypeCorrect, PTL DEF Spec

\* If the queue is as long as a frame, as in the code, no string is published
\* in the place of another as long as no send interleaves with a read and no
\* event replaces the queue within a frame.
THEOREM FieldsInPlace ==
  ASSUME QueueLength = 3
  PROVE  Spec => []ReadingsAligned
<1>1. AlignInv => ReadingsAligned
  BY DEF AlignInv, OfSlot, ReadingsAligned
<1>2. QED  BY <1>1, AlignInvariant, PTL

\* If moreover every frame has its three strings, the elements in the queue
\* are of one frame, and so are those of the triple being read.
WholeInv ==
  ~disturbed /\ formats = {Slots} =>
    /\ \A j, k \in DOMAIN queue : queue[j].frame = queue[k].frame
    /\ opcPc = "send" /\ Len(queue) < 3 => \A k \in DOMAIN queue : queue[k].frame = frame
    /\ IF pubPc = "read" /\ queue # << >>
       THEN \A i \in Slots : i < reading =>
              \A k \in DOMAIN queue : rxBuf[i].frame = queue[k].frame
       ELSE \A i, j \in Slots : rxBuf[i].frame = rxBuf[j].frame
    /\ \A i, j \in Slots : published[i].frame = published[j].frame

\* Steps that touch neither the queue nor the buffers.
LEMMA WholeFrame ==
  ASSUME WholeInv, formats' = formats, disturbed => disturbed',
         UNCHANGED <<queue, frame, rxBuf, published, reading>>,
         pubPc' = "read" <=> pubPc = "read", opcPc' = "send" => opcPc = "send"
  PROVE  WholeInv'
BY DEF WholeInv

\* A frame is received, sent element by element, or dropped as a whole.
LEMMA WholeSent ==
  ASSUME QueueLength = 3, TypeOK, WaitInv, AlignInv, OlderInv, WholeInv,
         formats' = formats, disturbed => disturbed', SendDuringRead' => disturbed',
         ReceivesFrame \/ CallbackSends \/ CallbackSendTimesOut
  PROVE  WholeInv'
<1>1. UNCHANGED pubVars
  BY DEF ReceivesFrame, CallbackSends, CallbackSendTimesOut
<1> SUFFICES ASSUME ~disturbed', ~disturbed, formats = {Slots} PROVE WholeInv'
  BY DEF WholeInv
<1>2. queue \in Seq(Element) /\ Len(queue) \in Nat /\ sending \in {0, 1, 2}
  BY SlotNumbers DEF TypeOK
<1>3. pubPc # "read"
  <2>1. CASE ReceivesFrame
    BY <1>1, <2>1 DEF ReceivesFrame, SendDuringRead, pubVars
  <2>2. CASE CallbackSends \/ CallbackSendTimesOut
    BY <2>2, AtTheQueue
  <2> QED BY <2>1, <2>2
<1>4. CASE ReceivesFrame
  <2>1. queue' = queue /\ opcPc = "receive"
    BY <1>4 DEF ReceivesFrame
  <2>2. Len(queue) \in {0, 3 - First} /\ First = 0
    BY <1>3, <2>1 DEF AlignInv, First
  <2>3. Len(queue) < 3 => DOMAIN queue = {}
    BY <1>2, <2>2
  <2> QED BY <1>1, <1>3, <2>1, <2>3 DEF WholeInv, pubVars
<1>5. CASE CallbackSends
  <2>1. /\ queue' = Append(queue, txBuf[sending]) /\ UNCHANGED frame
        /\ Len(queue) = sending /\ opcPc = "send"
    BY <1>5, AtTheQueue DEF CallbackSends, SendToQueue
  <2>2. txBuf[sending] \in Element /\ txBuf[sending].frame = frame
    BY <1>2, SlotNumbers DEF TypeOK, Buffer, OlderInv
  <2>3. /\ DOMAIN queue' = 1..(Len(queue) + 1) /\ DOMAIN queue = 1..Len(queue)
        /\ \A k \in 1..Len(queue) : queue'[k] = queue[k]
        /\ queue'[Len(queue) + 1] = txBuf[sending]
    BY <1>2, <2>1, <2>2, Sent
  <2>4. \A k \in DOMAIN queue : queue[k].frame = frame
    BY <1>2, <2>1 DEF WholeInv
  <2>5. \A k \in DOMAIN queue' : queue'[k].frame = frame
    BY <1>2, <2>2, <2>3, <2>4
  <2> QED BY <1>1, <1>3, <2>1, <2>5 DEF WholeInv, pubVars
<1>6. CASE CallbackSendTimesOut
  <2>1. queue' = queue /\ Len(queue) = 3
    BY <1>6, AtTheQueue DEF CallbackSendTimesOut, SendTimesOut
  <2> QED BY <1>1, <1>3, <2>1 DEF WholeInv, pubVars
<1> QED BY <1>4, <1>5, <1>6

\* A triple is read element by element, or not at all.
LEMMA WholeRead ==
  ASSUME QueueLength = 3, TypeOK, WaitInv, AlignInv, WholeInv,
         formats' = formats, disturbed => disturbed',
         PubReads \/ PubReadTimesOut
  PROVE  WholeInv'
<1>1. UNCHANGED <<published, opcVars>> /\ ReadNext /\ pubPc = "read"
  BY DEF PubReads, PubReadTimesOut
<1> SUFFICES ASSUME ~disturbed, formats = {Slots} PROVE WholeInv'
  BY DEF WholeInv
<1>2. /\ queue \in Seq(Element) /\ Len(queue) \in Nat /\ reading \in {0, 1, 2}
      /\ rxBuf \in [Slots -> Element] /\ Slots = {0, 1, 2}
  BY SlotNumbers DEF TypeOK, Buffer
<1>3. opcPc # "send"
  BY AtTheQueue
<1>4. CASE PubReads
  <2>1. /\ queue # << >> /\ queue' = Tail(queue)
        /\ rxBuf' = [rxBuf EXCEPT ![reading] = Head(queue)]
        /\ Len(queue) = 3 - reading
    BY <1>4, AtTheQueue DEF PubReads, ReceiveFromQueue
  <2>2. /\ Head(queue) = queue[1] /\ 1 \in DOMAIN queue /\ Len(queue') = Len(queue) - 1
        /\ DOMAIN queue' = 1..(Len(queue) - 1) /\ DOMAIN queue = 1..Len(queue)
        /\ \A k \in 1..(Len(queue) - 1) : queue'[k] = queue[k + 1]
    BY <1>2, <2>1, Received
  <2>3. \A k \in DOMAIN queue' : queue'[k].frame = queue[1].frame
    <3>1. \A k \in DOMAIN queue' : k + 1 \in DOMAIN queue /\ queue'[k] = queue[k + 1]
      BY <1>2, <2>2
    <3> QED BY <2>2, <3>1 DEF WholeInv
  <2>4. \A i \in Slots : i <= reading => rxBuf'[i].frame = queue[1].frame
    <3> SUFFICES ASSUME NEW i \in Slots, i <= reading
                 PROVE  rxBuf'[i].frame = queue[1].frame
      OBVIOUS
    <3>1. CASE i = reading
      BY <1>2, <2>1, <2>2, <3>1
    <3>2. CASE i < reading
      <4>1. rxBuf'[i] = rxBuf[i]
        BY <1>2, <2>1, <3>2
      <4> QED BY <1>1, <2>1, <2>2, <3>2, <4>1 DEF WholeInv
    <3> QED BY <1>2, <3>1, <3>2
  <2>5. CASE reading < 2
    <3>1. pubPc' = "read" /\ reading' = reading + 1
      BY <1>1, <2>5 DEF ReadNext
    <3>2. Len(queue') > 0
      BY <1>2, <2>1, <2>2, <2>5
    <3>3. queue' # << >>
      BY <3>2
    <3>4. \A i \in Slots : i < reading' =>
            \A k \in DOMAIN queue' : rxBuf'[i].frame = queue'[k].frame
      BY <1>2, <2>3, <2>4, <3>1
    <3> QED BY <1>1, <1>3, <2>3, <3>1, <3>3, <3>4 DEF WholeInv, opcVars
  <2>6. CASE reading = 2
    <3>1. pubPc' = "publish"
      BY <1>1, <2>6 DEF ReadNext
    <3>2. \A i, j \in Slots : rxBuf'[i].frame = rxBuf'[j].frame
      BY <1>2, <2>4, <2>6
    <3> QED BY <1>1, <1>3, <2>3, <3>1, <3>2 DEF WholeInv, opcVars
  <2> QED BY <1>2, <2>5, <2>6
<1>5. CASE PubReadTimesOut
  <2>1. queue' = queue /\ rxBuf' = rxBuf /\ queue = << >>
    BY <1>5, AtTheQueue DEF PubReadTimesOut, ReceiveTimesOut
  <2> QED BY <1>1, <1>3, <2>1 DEF WholeInv, opcVars
<1> QED BY <1>4, <1>5

\* Every undisturbed step keeps the strings of a frame together, in the queue as in the
\* buffers.
LEMMA WholeNext ==
  ASSUME QueueLength = 3
  PROVE  TypeOK /\ WaitInv /\ AlignInv /\ OlderInv /\ WholeInv /\ [Next]_vars => WholeInv'
<1> SUFFICES ASSUME TypeOK, WaitInv, AlignInv, OlderInv, WholeInv, [Next]_vars
             PROVE  WholeInv'
  OBVIOUS
<1>0. /\ disturbed => disturbed'
      /\ SendDuringRead' => disturbed'
      /\ formats' = formats
  BY Disturbs
     DEF Next, OpcStep, PubStep, Restarts, EventReplacesMutex, EventReplacesQueue, vars
<1>1. CASE OpcTake \/ OpcTakeTimesOut \/ OpcSetup \/ OpcServerFails \/ CallbackTakes
             \/ CallbackTakeTimesOut \/ ReceivesNothing \/ ReturnsWithMutex
             \/ CallbackGives
  <2>1. /\ UNCHANGED <<queue, frame, rxBuf, published, reading, pubPc>>
        /\ opcPc' # "send"
    BY <1>1 DEF OpcTake, OpcTakeTimesOut, OpcSetup, OpcServerFails, CallbackTakes,
       CallbackTakeTimesOut, ReceivesNothing, ReturnsWithMutex, CallbackGives,
       opcVars, pubVars
  <2> QED BY <1>0, <2>1, WholeFrame
<1>2. CASE ReceivesFrame \/ CallbackSends \/ CallbackSendTimesOut
  BY <1>0, <1>2, WholeSent
<1>3. CASE PubTake \/ PubTakeTimesOut \/ PubGiveStart \/ ConnectFails
             \/ ConnectSucceeds \/ PubOnline \/ PubTakeReadTimesOut \/ PubGiveElse
  <2>1. /\ UNCHANGED <<queue, frame, rxBuf, published, reading, opcPc>>
        /\ pubPc # "read" /\ pubPc' # "read"
    BY <1>3 DEF PubTake, PubTakeTimesOut, PubGiveStart, ConnectFails,
       ConnectSucceeds, PubOnline, PubTakeReadTimesOut, PubGiveElse, opcVars
  <2> QED BY <1>0, <2>1, WholeFrame
<1>4. CASE PubTakeRead
  <2>1. /\ UNCHANGED <<queue, frame, rxBuf, published, opcPc>>
        /\ pubPc = "takeRead" /\ pubPc' = "read" /\ reading' = 0
    BY <1>4 DEF PubTakeRead, opcVars
  <2>2. \A i \in Slots : ~(i < 0)
    BY SlotNumbers
  <2> QED BY <1>0, <2>1, <2>2 DEF WholeInv
<1>5. CASE PubReads \/ PubReadTimesOut
  BY <1>0, <1>5, WholeRead
<1>6. CASE PubPublishes
  <2>1. /\ UNCHANGED <<queue, frame, rxBuf, opcPc>> /\ published' = rxBuf
        /\ pubPc # "read" /\ pubPc' # "read"
    BY <1>6 DEF PubPublishes, opcVars
  <2> QED BY <1>0, <2>1 DEF WholeInv
<1>7. CASE EventReplacesMutex \/ UNCHANGED vars
  <2>1. UNCHANGED <<queue, frame, rxBuf, published, reading, opcPc, pubPc>>
    BY <1>7 DEF EventReplacesMutex, ReplaceMutex, vars, opcVars, pubVars
  <2> QED BY <1>0, <2>1, WholeFrame
<1>8. CASE EventReplacesQueue
  <2>1. queue' = << >> /\ UNCHANGED <<frame, rxBuf, published, opcPc, pubPc>>
    BY <1>8 DEF EventReplacesQueue, ReplaceQueue, opcVars, pubVars
  <2>2. ~disturbed' => pubPc # "read"
    BY <1>8 DEF EventReplacesQueue
  <2> QED BY <1>0, <2>1, <2>2 DEF WholeInv
<1>9. CASE Restarts
  <2>1. /\ queue' = << >> /\ opcPc' # "send" /\ pubPc' # "read"
        /\ \A i \in Slots : rxBuf'[i].frame = 0 /\ published'[i].frame = 0
    BY <1>9 DEF Restarts, Garbage
  <2> QED BY <2>1 DEF WholeInv
<1> QED BY <1>1, <1>2, <1>3, <1>4, <1>5, <1>6, <1>7, <1>8, <1>9
    DEF Next, OpcStep, PubStep, OpcNext, PubNext

\* Under the same condition, if every frame has its three strings, the three
\* values published together are those of one frame.
THEOREM TriplesWhole ==
  ASSUME QueueLength = 3
  PROVE  Spec => []ReadingsWhole
<1>1. Init => WholeInv
  <2> SUFFICES ASSUME Init PROVE WholeInv
    OBVIOUS
  <2>1. /\ queue = << >> /\ opcPc # "send" /\ pubPc # "read"
        /\ \A i \in Slots : rxBuf[i].frame = 0 /\ published[i].frame = 0
    BY DEF Init, KernelInit, Garbage
  <2> QED BY <2>1 DEF WholeInv
<1>2. TypeOK /\ WaitInv /\ AlignInv /\ OlderInv /\ WholeInv /\ [Next]_vars => WholeInv'
  BY WholeNext
<1>3. WholeInv => ReadingsWhole
  BY DEF WholeInv, ReadingsWhole
<1>4. Spec => []AlignInv
  BY AlignInvariant
<1>5. QED
  BY <1>1, <1>2, <1>3, <1>4, TypeCorrect, WaitInvariant, OlderInvariant, PTL DEF Spec
=============================================================================
