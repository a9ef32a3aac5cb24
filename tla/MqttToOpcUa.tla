---------------------------- MODULE MqttToOpcUa ----------------------------
(***************************************************************************)
(* The MQTT to OPC UA bridge (build variant MQTT_TO_OPCUA_PUBSUB).         *)
(*                                                                         *)
(* The MQTT task (mbedtls_sub_mqtt.c) connects to the broker while holding *)
(* the mutex, subscribes, and from then on runs the message handler, which *)
(* copies each MQTT message into the queue.  The OPC UA task (opcua_pub.c) *)
(* takes messages out of the queue and, holding the mutex, writes their    *)
(* fields to the nodes of the address space and lets the server publish.   *)
(*                                                                         *)
(* A step is what a task does between two kernel calls that the other task *)
(* can observe; code private to a task belongs to the step it leads to.    *)
(***************************************************************************)
EXTENDS FreeRtos, Integers

CONSTANTS
  Payloads,         \* the sets of fields a message's JSON text can carry
  ConnectRetries,   \* reconnection attempts of startClient: 10 in the code
  MaxMessages       \* bound of the model: MQTT messages ever delivered

FieldOrder == <<"ID", "Value", "Temperature">>
Fields == {"ID", "Value", "Temperature"}

ASSUME BridgeAssumption ==
  /\ Payloads \subseteq SUBSET Fields
  /\ ConnectRetries \in Nat
  /\ MaxMessages \in Nat

VARIABLES
  subPc,            \* where the MQTT task is
  attempts,         \* failed NetworkConnect calls of this startClient
  netUp,            \* NetworkConnect returned 0
  session,          \* the broker accepted MQTTConnect and is still there
  it,               \* the handler's message counter
  tx,               \* TxBuffer[0] of the handler
  opcPc,            \* where the OPC UA task is
  rx,               \* RxBuffer[0] of the OPC UA task
  field,            \* the next of the three calls of update
  nodes,            \* the nodes' values: the count of the message written
  published,        \* the last values the writer group published
  applied           \* history: the messages written to the nodes, in order

subVars == <<subPc, attempts, netUp, session, it, tx>>
opcVars == <<opcPc, rx, field, nodes, published, applied>>
vars == <<mutex, queue, outdated, handlerVars, subVars, opcVars>>

Mqtt  == "mqtt"
OpcUa == "opcua"

Unset == -1         \* the value of a node no message has written
Message == [count : 0..MaxMessages, fields : SUBSET Fields]
NoMessage == [count |-> 0, fields |-> {}]    \* what a buffer holds at first

Init ==
  /\ KernelInit
  /\ subPc = "take" /\ attempts = 0 /\ netUp = FALSE /\ session = FALSE
  /\ it = 0 /\ tx = NoMessage
  /\ opcPc = "take" /\ rx = NoMessage /\ field = 1
  /\ nodes = [f \in Fields |-> Unset]
  /\ published = nodes
  /\ applied = << >>
-----------------------------------------------------------------------------
(* Faulty variants of actions below, each with a bug one would plausibly    *)
(* write there.  No specification uses them: they show that the properties *)
(* at the end of the module can fail.                                      *)

\* The retry counter starts again after the last attempt.
ConnectFailsForever ==
  /\ subPc = "connect"
  /\ attempts' = IF attempts = ConnectRetries THEN 0 ELSE attempts + 1
  /\ UNCHANGED <<mutex, queue, subPc, netUp, session, it, tx, opcVars>>

\* startClient's loop tests the counter before it is incremented.
ConnectFailsOnceMore ==
  /\ subPc = "connect"
  /\ IF attempts > ConnectRetries THEN subPc' = "mqttConnect" /\ attempts' = 0
     ELSE subPc' = "connect" /\ attempts' = attempts + 1
  /\ UNCHANGED <<mutex, queue, netUp, session, it, tx, opcVars>>

\* The handler returns without giving the mutex back.
HandlerGivesNothing ==
  /\ subPc = "give"
  /\ it' = it + 1 /\ tx' = NoMessage /\ subPc' = "yield"
  /\ UNCHANGED <<mutex, queue, attempts, netUp, session, opcVars>>

\* A message the task could not apply goes back into the queue, behind the
\* messages that arrived after it.
OpcTakeTimesOutRequeues ==
  /\ opcPc = "takeUpdate"
  /\ TakeTimesOut(OpcUa)
  /\ SendToQueue(rx)
  /\ opcPc' = "giveElse"
  /\ UNCHANGED <<subVars, rx, field, nodes, published, applied>>

\* The message is only looked at (xQueuePeek) when it is received.
OpcReceivePeeks ==
  /\ opcPc = "receive"
  /\ queue # << >>
  /\ rx' = Head(queue)
  /\ opcPc' = "takeUpdate"
  /\ UNCHANGED <<mutex, queue, subVars, field, nodes, published, applied>>

\* A message without the field overwrites the node all the same.
OpcUpdateUnconditional ==
  /\ opcPc = "update"
  /\ nodes' = [nodes EXCEPT ![FieldOrder[field]] = rx.count]
  /\ field' = IF field = Len(FieldOrder) THEN 1 ELSE field + 1
  /\ opcPc' = IF field = Len(FieldOrder) THEN "iterate" ELSE "update"
  /\ applied' = IF field = Len(FieldOrder) THEN Append(applied, rx) ELSE applied
  /\ UNCHANGED <<mutex, queue, subVars, rx, published>>

\* The server publishes after each field instead of after the last one.
OpcUpdatePublishes ==
  LET f == FieldOrder[field] IN
  /\ opcPc = "update"
  /\ nodes' = IF f \in rx.fields THEN [nodes EXCEPT ![f] = rx.count] ELSE nodes
  /\ published' = nodes'
  /\ field' = IF field = Len(FieldOrder) THEN 1 ELSE field + 1
  /\ opcPc' = IF field = Len(FieldOrder) THEN "iterate" ELSE "update"
  /\ applied' = IF field = Len(FieldOrder) THEN Append(applied, rx) ELSE applied
  /\ UNCHANGED <<mutex, queue, subVars, rx>>
-----------------------------------------------------------------------------
(* The MQTT task: mqtt_mbedtls_sub_task and startClient.                   *)

SubTake ==
  /\ subPc = "take"
  /\ TakeMutex(Mqtt)
  /\ subPc' = "connect"
  /\ UNCHANGED <<queue, attempts, netUp, session, it, tx, opcVars>>

\* The wait is over and the task goes round its loop.
SubTakeTimesOut ==
  /\ subPc = "take"
  /\ TakeTimesOut(Mqtt)
  /\ UNCHANGED <<queue, subVars, opcVars>>

ConnectSucceeds ==
  /\ subPc = "connect"
  /\ netUp' = TRUE
  /\ subPc' = "mqttConnect" /\ attempts' = 0
  /\ UNCHANGED <<mutex, queue, session, it, tx, opcVars>>

\* startClient gives up after the last retry and goes on without a network.
ConnectFails ==
  /\ subPc = "connect"
  /\ IF attempts = ConnectRetries THEN subPc' = "mqttConnect" /\ attempts' = 0
     ELSE subPc' = "connect" /\ attempts' = attempts + 1
  /\ UNCHANGED <<mutex, queue, netUp, session, it, tx, opcVars>>

\* MQTTConnect can succeed only over a network; its result is only logged.
ConnectMqtt ==
  /\ subPc = "mqttConnect"
  /\ session' \in IF netUp THEN BOOLEAN ELSE {FALSE}
  /\ GiveMutex
  /\ subPc' = "subscribe"
  /\ UNCHANGED <<queue, attempts, netUp, it, tx, opcVars>>

SubscribeSucceeds ==
  /\ subPc = "subscribe"
  /\ session
  /\ subPc' = "yield"
  /\ UNCHANGED <<mutex, queue, attempts, netUp, session, it, tx, opcVars>>

SubscribeFails ==
  /\ subPc = "subscribe"
  /\ subPc' = "exit"
  /\ UNCHANGED <<mutex, queue, attempts, netUp, session, it, tx, opcVars>>

YieldFails ==
  /\ subPc = "yield"
  /\ session' = FALSE
  /\ subPc' = "exit"
  /\ UNCHANGED <<mutex, queue, attempts, netUp, it, tx, opcVars>>

Disconnect ==
  /\ subPc = "exit"
  /\ netUp' = FALSE /\ session' = FALSE
  /\ subPc' = "take"
  /\ UNCHANGED <<mutex, queue, attempts, it, tx, opcVars>>
-----------------------------------------------------------------------------
(* The message handler, called by MQTTYield for each PUBLISH it reads.     *)

HandleMessage ==
  /\ subPc = "yield"
  /\ it < MaxMessages
  /\ \E p \in Payloads : tx' = [count |-> it, fields |-> p]
  /\ subPc' = "send"
  /\ UNCHANGED <<mutex, queue, attempts, netUp, session, it, opcVars>>

\* The handler's buffer ends with it.
HandlerReturns == it' = it + 1 /\ tx' = NoMessage /\ subPc' = "yield"

HandlerSends ==
  /\ subPc = "send"
  /\ SendToQueue(tx)
  /\ subPc' = "confirm"
  /\ UNCHANGED <<mutex, attempts, netUp, session, it, tx, opcVars>>

HandlerSendTimesOut ==
  /\ subPc = "send"
  /\ SendTimesOut(Mqtt)
  /\ HandlerReturns
  /\ UNCHANGED <<mutex, attempts, netUp, session, opcVars>>

HandlerTakes ==
  /\ subPc = "confirm"
  /\ TakeMutex(Mqtt)
  /\ subPc' = "give"
  /\ UNCHANGED <<queue, attempts, netUp, session, it, tx, opcVars>>

HandlerTakeTimesOut ==
  /\ subPc = "confirm"
  /\ TakeTimesOut(Mqtt)
  /\ HandlerReturns
  /\ UNCHANGED <<queue, attempts, netUp, session, opcVars>>

HandlerGives ==
  /\ subPc = "give"
  /\ GiveMutex
  /\ HandlerReturns
  /\ UNCHANGED <<queue, attempts, netUp, session, opcVars>>
-----------------------------------------------------------------------------
(* The OPC UA task: opcua_pubsub_task and update.                          *)

OpcTake ==
  /\ opcPc = "take"
  /\ TakeMutex(OpcUa)
  /\ opcPc' = "setup"
  /\ UNCHANGED <<queue, subVars, rx, field, nodes, published, applied>>

OpcFirstTakeTimesOut ==
  /\ opcPc = "take"
  /\ TakeTimesOut(OpcUa)
  /\ UNCHANGED <<queue, subVars, opcVars>>

OpcSetup ==
  /\ opcPc = "setup"
  /\ GiveMutex
  /\ opcPc' = "receive"
  /\ UNCHANGED <<queue, subVars, rx, field, nodes, published, applied>>

\* The allocation of the transport layer fails and the task function returns.
\* The wrapper that sdkconfig:444 puts around it then aborts: the chip starts
\* again, and everything is as at first.  This task has received nothing yet.
\* The bound of the model on events counts those before the restart as well.
OpcSetupFails ==
  /\ opcPc = "setup"
  /\ opcPc' = "take"
  /\ mutex' = Available /\ queue' = << >> /\ outdated' = {} /\ replacing' = FALSE
  /\ subPc' = "take" /\ attempts' = 0 /\ netUp' = FALSE /\ session' = FALSE
  /\ it' = 0 /\ tx' = NoMessage
  /\ UNCHANGED <<events, rx, field, nodes, published, applied>>

OpcReceive ==
  /\ opcPc = "receive"
  /\ ReceiveFromQueue
  /\ rx' = Head(queue)
  /\ opcPc' = "takeUpdate"
  /\ UNCHANGED <<mutex, subVars, field, nodes, published, applied>>

OpcReceiveTimesOut ==
  /\ opcPc = "receive"
  /\ ReceiveTimesOut(OpcUa)
  /\ opcPc' = "giveElse"
  /\ UNCHANGED <<mutex, subVars, rx, field, nodes, published, applied>>

OpcTakeUpdate ==
  /\ opcPc = "takeUpdate"
  /\ TakeMutex(OpcUa)
  /\ field' = 1
  /\ opcPc' = "update"
  /\ UNCHANGED <<queue, subVars, rx, nodes, published, applied>>

\* The message already taken out of the queue is dropped.
OpcTakeTimesOut ==
  /\ opcPc = "takeUpdate"
  /\ TakeTimesOut(OpcUa)
  /\ opcPc' = "giveElse"
  /\ UNCHANGED <<queue, subVars, rx, field, nodes, published, applied>>

\* One of the three calls of update: it writes the node only if the message
\* carries the field.
OpcUpdate ==
  LET f == FieldOrder[field] IN
  /\ opcPc = "update"
  /\ nodes' = IF f \in rx.fields THEN [nodes EXCEPT ![f] = rx.count] ELSE nodes
  /\ field' = IF field = Len(FieldOrder) THEN 1 ELSE field + 1
  /\ opcPc' = IF field = Len(FieldOrder) THEN "iterate" ELSE "update"
  /\ applied' = IF field = Len(FieldOrder) THEN Append(applied, rx) ELSE applied
  /\ UNCHANGED <<mutex, queue, subVars, rx, published>>

\* UA_Server_run_iterate publishes if the publishing interval has elapsed.
OpcIterate ==
  /\ opcPc = "iterate"
  /\ published' \in {published, nodes}
  /\ opcPc' = "give"
  /\ UNCHANGED <<mutex, queue, subVars, rx, field, nodes, applied>>

OpcGive ==
  /\ opcPc = "give"
  /\ GiveMutex
  /\ opcPc' = "receive"
  /\ UNCHANGED <<queue, subVars, rx, field, nodes, published, applied>>

\* The else branch gives the mutex although this task does not hold it.
OpcGiveElse ==
  /\ opcPc = "giveElse"
  /\ GiveMutex
  /\ opcPc' = "receive"
  /\ UNCHANGED <<queue, subVars, rx, field, nodes, published, applied>>
-----------------------------------------------------------------------------
SubNext ==
  \/ SubTake \/ SubTakeTimesOut \/ ConnectSucceeds \/ ConnectFails \/ ConnectMqtt
  \/ SubscribeSucceeds \/ SubscribeFails \/ YieldFails \/ Disconnect
  \/ HandleMessage
  \/ HandlerSends \/ HandlerSendTimesOut
  \/ HandlerTakes \/ HandlerTakeTimesOut \/ HandlerGives

OpcNext ==
  \/ OpcTake \/ OpcFirstTakeTimesOut \/ OpcSetup
  \/ OpcReceive \/ OpcReceiveTimesOut
  \/ OpcTakeUpdate \/ OpcTakeTimesOut
  \/ OpcUpdate \/ OpcIterate \/ OpcGive \/ OpcGiveElse

\* An event replaces the handles under both tasks.
EventReplacesMutex ==
  /\ ReplaceMutex((IF subPc \in {"take", "confirm"} THEN {Mqtt} ELSE {}) \cup
                  (IF opcPc \in {"take", "takeUpdate"} THEN {OpcUa} ELSE {}))
  /\ UNCHANGED <<subVars, opcVars>>

EventReplacesQueue ==
  /\ ReplaceQueue(IF subPc = "send" THEN {Mqtt} ELSE {},
                  IF opcPc = "receive" THEN {OpcUa} ELSE {})
  /\ UNCHANGED <<subVars, opcVars>>

SubStep(A) == A /\ Runs(Mqtt)
OpcStep(A) == A /\ Runs(OpcUa)

Next ==
  \/ SubStep(SubNext) \/ OpcStep(OpcNext) \/ OpcSetupFails
  \/ EventReplacesMutex \/ EventReplacesQueue

Spec == Init /\ [][Next]_vars
\* Fairness.  Both tasks are pinned to core 1; the MQTT task has the higher
\* priority but every call in its loops blocks for a bounded time, so the
\* OPC UA task runs as well, and each bounded call returns (WF).  A task
\* repeats its failed Take at once and the kernel hands the mutex to a
\* waiter when it is given, so a Take that is possible again and again
\* succeeds (SF).  The broker's messages and failures are not fair.
SubProgress ==
  \/ ConnectSucceeds \/ ConnectFails \/ ConnectMqtt
  \/ SubscribeSucceeds \/ SubscribeFails \/ Disconnect
  \/ HandlerSends \/ HandlerSendTimesOut
  \/ HandlerTakes \/ HandlerTakeTimesOut \/ HandlerGives

FairSpec ==
  /\ Spec
  /\ WF_vars(SubStep(SubProgress)) /\ SF_vars(SubStep(SubTake))
  /\ WF_vars(OpcStep(OpcNext)) /\ SF_vars(OpcStep(OpcTake))
-----------------------------------------------------------------------------
(* Properties.                                                             *)

TypeOK ==
  /\ mutex \in {Available, Mqtt, OpcUa}
  /\ queue \in Seq(Message) /\ Len(queue) <= QueueLength
  /\ outdated \subseteq {Mqtt, OpcUa}
  /\ events \in 0..MaxEvents /\ replacing \in BOOLEAN
  /\ subPc \in {"take", "connect", "mqttConnect", "subscribe", "yield",
                "send", "confirm", "give", "exit"}
  /\ attempts \in 0..ConnectRetries
  /\ netUp \in BOOLEAN /\ session \in BOOLEAN
  /\ it \in 0..MaxMessages
  /\ tx \in Message /\ rx \in Message
  /\ opcPc \in {"take", "setup", "receive", "takeUpdate", "update",
                "iterate", "give", "giveElse"}
  /\ field \in 1..Len(FieldOrder)
  /\ nodes \in [Fields -> (0..MaxMessages) \cup {Unset}]
  /\ published \in [Fields -> (0..MaxMessages) \cup {Unset}]
  /\ applied \in Seq(Message)

SubInSection == subPc \in {"connect", "mqttConnect", "give"}
OpcInSection == opcPc \in {"setup", "update", "iterate", "give"}

\* main/app_main.c says of xSemaphore that it guards a shared resource: the
\* MQTT task does not connect while the OPC UA server is being set up, is
\* updated or publishes.  The code does not keep it: the else branch of
\* opcua_pubsub_task gives a mutex the MQTT task holds.
MutualExclusion == ~(subPc \in {"connect", "mqttConnect"} /\ OpcInSection)

\* The mutex is never left behind: whoever holds it is inside a section that
\* will give it back.  In particular no task ever waits for a mutex it holds
\* itself.
NoLeakedMutex ==
  /\ mutex = Mqtt => SubInSection
  /\ mutex = OpcUa => OpcInSection

\* Messages are applied in the order they were received from the broker and
\* none is applied twice, whatever the queue, the timeouts and the replacement
\* of the handles lose.
AppliedInOrder ==
  \A i, j \in DOMAIN applied : i < j => applied[i].count < applied[j].count

\* The count of the last applied message that carried field f.
LastApplied(f) ==
  LET carrying == {i \in DOMAIN applied : f \in applied[i].fields} IN
  IF carrying = {} THEN Unset
  ELSE applied[CHOOSE i \in carrying : \A j \in carrying : j <= i].count

\* Outside update, every node holds what the last applied message carrying
\* its field said: a partial message neither erases nor revives a value.
NodesAreLatest ==
  opcPc # "update" => \A f \in Fields : nodes[f] = LastApplied(f)

\* A publication never mixes two messages: once it shows one field of a
\* message, no other field of that message is shown with an older value.
PublishedNotTorn ==
  \A m \in {applied[i] : i \in DOMAIN applied} \cup {rx} :
    \A f, g \in m.fields : published[f] = m.count => published[g] >= m.count

\* The bridge implements a lossy channel that keeps order, events that throw
\* the queue away under both tasks included: in flight are the
\* message the OPC UA task has received and not yet applied, the queue, and
\* the message the handler is trying to send.
InFlight ==
  (IF opcPc \in {"takeUpdate", "update"} THEN <<rx>> ELSE << >>)
    \o queue
    \o (IF subPc = "send" THEN <<tx>> ELSE << >>)

Channel == INSTANCE LossyChannel
  WITH inFlight <- InFlight, delivered <- applied, Capacity <- QueueLength + 2

ImplementsChannel == Channel!Spec

Queued(n) == \E i \in DOMAIN queue : queue[i].count = n

\* A queued message does not stay in the queue for ever, however often the
\* two tasks collide on the mutex.
QueueDrains == \A n \in 0..(MaxMessages - 1) : Queued(n) ~> ~Queued(n)

\* After the broker is lost, the MQTT task gets through startClient and to
\* the next MQTTSubscribe, although it competes for the mutex to do so, and
\* although the chip may restart on the way.  NetworkConnect is taken to
\* return, which its handshake does once the broker answers or closes.
SubReconnects == subPc = "exit" ~> subPc = "subscribe"
=============================================================================
