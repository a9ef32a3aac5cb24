---------------------------- MODULE OpcUaToMqtt ----------------------------
(***************************************************************************)
(* The OPC UA to MQTT bridge (build variant OPCUA_PUBSUB_TO_MQTT).         *)
(*                                                                         *)
(* The OPC UA task (opcua_sub.c) takes the mutex once, for the whole life  *)
(* of its server, and then takes it again in a callback the server runs    *)
(* every 10 ms: the callback receives a network message and copies the     *)
(* three strings of its data set into the queue, one element each.  The    *)
(* MQTT task (mbedtls_pub_mqtt.c) reads three elements at a time, holding  *)
(* the mutex, and publishes them as the fields of one JSON text.           *)
(*                                                                         *)
(* The mutex is not recursive, so the callback can take it only after the  *)
(* MQTT task, having waited in vain, has given a mutex it does not hold,   *)
(* or after an event has replaced the mutex.                               *)
(***************************************************************************)
EXTENDS FreeRtos, Integers

CONSTANTS
  Frames,           \* for each kind of key frame that the decoder delivers, the
                    \* slots that are strings: the result of decoding is not
                    \* looked at, and a damaged frame may end early
  ConnectRetries,   \* reconnection attempts of startClient: 100 in the code
  MaxFrames         \* bound of the model: key frames ever received

Slots == 0..2       \* Temperature, Value and ID, in the order of the frame

ASSUME PubBridgeAssumption ==
  /\ Frames \subseteq SUBSET Slots
  /\ ConnectRetries \in Nat
  /\ MaxFrames \in Nat

VARIABLES
  opcPc,            \* where the OPC UA task is; "run" is between callbacks
  frame,            \* key frames received so far
  txBuf,            \* TxBuffer of the callback
  sending,          \* the slot the callback sends next
  pubPc,            \* where the MQTT task is
  attempts,         \* failed NetworkConnect calls of this startClient
  rxBuf,            \* RxBuffer of the MQTT task
  reading,          \* the slot the MQTT task reads next
  published,        \* the last triple given to MQTTPublish
  formats,          \* the kinds of key frame the publisher sends: constant
  disturbed         \* history: a frame's transfer was once not undisturbed

opcVars == <<opcPc, frame, txBuf, sending>>
pubVars == <<pubPc, attempts, rxBuf, reading, published>>
vars == <<mutex, queue, outdated, handlerVars, opcVars, pubVars, formats,
          disturbed>>

OpcUa == "opcua"
Mqtt  == "mqtt"

\* An element is a string of a frame; an uninitialised buffer holds Garbage.
Garbage == [frame |-> 0, slot |-> -1]
Element == {Garbage} \cup [frame : 1..MaxFrames, slot : Slots]

\* The callback is sending the elements of a frame while the MQTT task is
\* reading a triple.  The mutex does not exclude it: the MQTT task gives, and
\* then takes, the mutex under which the callback is sending.
SendDuringRead == opcPc = "send" /\ pubPc = "read"

\* The history variable follows every step.
Observe == disturbed' = (disturbed \/ SendDuringRead')

\* The publisher writes three strings into every frame, as those of this
\* repository do, or frames of any kind.
Init ==
  /\ KernelInit
  /\ formats \in {{Slots}, Frames}
  /\ opcPc = "take" /\ frame = 0 /\ sending = 0
  /\ txBuf = [i \in Slots |-> Garbage]
  /\ pubPc = "take" /\ attempts = 0 /\ reading = 0
  /\ rxBuf = [i \in Slots |-> Garbage]
  /\ published = rxBuf
  /\ disturbed = FALSE
-----------------------------------------------------------------------------
(* Faulty variants of actions below; see MqttToOpcUa.                      *)

\* startClient's loop tests the counter before it is incremented.
ConnectFailsOnceMore ==
  /\ pubPc = "connect"
  /\ IF attempts > ConnectRetries THEN pubPc' = "online" /\ attempts' = 0
     ELSE pubPc' = "connect" /\ attempts' = attempts + 1
  /\ UNCHANGED <<mutex, queue, rxBuf, reading, published, opcVars>>

\* The third element of a frame is never sent.
SendNextShort ==
  IF sending = 1 THEN opcPc' = "give" /\ sending' = 0
                 ELSE opcPc' = "send" /\ sending' = sending + 1

\* RxBuffer is cleared before each triple is read.
PubTakeReadClears ==
  /\ pubPc = "takeRead"
  /\ TakeMutex(Mqtt)
  /\ pubPc' = "read" /\ reading' = 0
  /\ rxBuf' = [i \in Slots |-> Garbage]
  /\ UNCHANGED <<queue, attempts, published, opcVars>>

\* The MQTT task gives only what it holds: the else branch just continues.
PubGiveElseOnlyOwn ==
  /\ pubPc = "giveElse"
  /\ mutex' = IF mutex = Mqtt THEN Available ELSE mutex
  /\ pubPc' = "takeRead"
  /\ UNCHANGED <<queue, attempts, rxBuf, reading, published, opcVars>>

\* An element is only looked at (xQueuePeek) when it is read.
PubReadsPeeks ==
  /\ pubPc = "read"
  /\ queue # << >>
  /\ rxBuf' = [rxBuf EXCEPT ![reading] = Head(queue)]
  /\ IF reading = 2 THEN pubPc' = "publish" /\ reading' = 0
                    ELSE pubPc' = "read" /\ reading' = reading + 1
  /\ UNCHANGED <<mutex, queue, attempts, published, opcVars>>

\* A triple is published after two elements.
ReadNextShort ==
  IF reading = 1 THEN pubPc' = "publish" /\ reading' = 0
                 ELSE pubPc' = "read" /\ reading' = reading + 1
-----------------------------------------------------------------------------
(* The OPC UA task: opcua_sub_task.                                        *)

OpcTake ==
  /\ opcPc = "take"
  /\ TakeMutex(OpcUa)
  /\ opcPc' = "setup"
  /\ UNCHANGED <<queue, frame, txBuf, sending, pubVars>>

OpcTakeTimesOut ==
  /\ opcPc = "take"
  /\ TakeTimesOut(OpcUa)
  /\ UNCHANGED <<queue, opcVars, pubVars>>

\* The server runs until it fails to start, and keeps the mutex meanwhile.  If
\* the channel cannot be registered it runs without the callback.
OpcSetup ==
  /\ opcPc = "setup"
  /\ opcPc' \in {"run", "runWithoutCallback"}
  /\ UNCHANGED <<mutex, queue, frame, txBuf, sending, pubVars>>

\* UA_Server_run returns: the network layer could not be started.
OpcServerFails ==
  /\ opcPc = "setup"
  /\ GiveMutex
  /\ opcPc' = "take"
  /\ UNCHANGED <<queue, frame, txBuf, sending, pubVars>>

\* A pointer is used that is NULL: that of the transport layers, after their
\* failed allocation, or that of the messages of a network message that could
\* not be decoded.  The chip starts again (sdkconfig:249), and everything is as at
\* first but for what its surroundings send.  The bound of the model on events
\* counts those before the restart as well.
Restarts ==
  /\ opcPc \in {"setup", "receive"}
  /\ mutex' = Available /\ queue' = << >> /\ outdated' = {} /\ replacing' = FALSE
  /\ opcPc' = "take" /\ frame' = 0 /\ sending' = 0
  /\ txBuf' = [i \in Slots |-> Garbage]
  /\ pubPc' = "take" /\ attempts' = 0 /\ reading' = 0
  /\ rxBuf' = [i \in Slots |-> Garbage]
  /\ published' = [i \in Slots |-> Garbage]
  /\ UNCHANGED <<events, formats, disturbed>>
-----------------------------------------------------------------------------
(* subscriptionPollingCallback.                                            *)

CallbackTakes ==
  /\ opcPc = "run"
  /\ TakeMutex(OpcUa)
  /\ opcPc' = "receive"
  /\ UNCHANGED <<queue, frame, txBuf, sending, pubVars>>

CallbackTakeTimesOut ==
  /\ opcPc = "run"
  /\ TakeTimesOut(OpcUa)
  /\ UNCHANGED <<queue, opcVars, pubVars>>

ReceivesNothing ==
  /\ opcPc = "receive"
  /\ GiveMutex
  /\ opcPc' = "run"
  /\ UNCHANGED <<queue, frame, txBuf, sending, pubVars>>

\* The buffer cannot be allocated, or the message is not a key frame: the
\* callback returns and keeps the mutex.
ReturnsWithMutex ==
  /\ opcPc = "receive"
  /\ opcPc' = "run"
  /\ UNCHANGED <<mutex, queue, frame, txBuf, sending, pubVars>>

\* A slot the frame has no string for keeps what the stack holds there.
ReceivesFrame ==
  /\ opcPc = "receive"
  /\ frame < MaxFrames
  /\ frame' = frame + 1
  /\ \E strings \in formats, stack \in [Slots -> BOOLEAN] :
       txBuf' = [i \in Slots |-> IF i \in strings
                                 THEN [frame |-> frame', slot |-> i]
                                 ELSE IF stack[i] THEN txBuf[i] ELSE Garbage]
  /\ sending' = 0
  /\ opcPc' = "send"
  /\ UNCHANGED <<mutex, queue, pubVars>>

SendNext ==
  IF sending = 2 THEN opcPc' = "give" /\ sending' = 0
                 ELSE opcPc' = "send" /\ sending' = sending + 1

CallbackSends ==
  /\ opcPc = "send"
  /\ SendToQueue(txBuf[sending])
  /\ SendNext
  /\ UNCHANGED <<mutex, frame, txBuf, pubVars>>

\* The result of xQueueSend is not looked at: the element is dropped.
CallbackSendTimesOut ==
  /\ opcPc = "send"
  /\ SendTimesOut(OpcUa)
  /\ SendNext
  /\ UNCHANGED <<mutex, frame, txBuf, pubVars>>

CallbackGives ==
  /\ opcPc = "give"
  /\ GiveMutex
  /\ opcPc' = "run"
  /\ UNCHANGED <<queue, frame, txBuf, sending, pubVars>>
-----------------------------------------------------------------------------
(* The MQTT task: mqtt_mbedtls_pub_task and startClient.                   *)

PubTake ==
  /\ pubPc = "take"
  /\ TakeMutex(Mqtt)
  /\ pubPc' = "connect"
  /\ UNCHANGED <<queue, attempts, rxBuf, reading, published, opcVars>>

PubTakeTimesOut ==
  /\ pubPc = "take"
  /\ TakeTimesOut(Mqtt)
  /\ pubPc' = "giveStart"
  /\ UNCHANGED <<queue, attempts, rxBuf, reading, published, opcVars>>

\* The else branches give a mutex this task does not hold.
PubGiveStart ==
  /\ pubPc = "giveStart"
  /\ GiveMutex
  /\ pubPc' = "take"
  /\ UNCHANGED <<queue, attempts, rxBuf, reading, published, opcVars>>

ConnectFails ==
  /\ pubPc = "connect"
  /\ IF attempts = ConnectRetries THEN pubPc' = "online" /\ attempts' = 0
     ELSE pubPc' = "connect" /\ attempts' = attempts + 1
  /\ UNCHANGED <<mutex, queue, rxBuf, reading, published, opcVars>>

ConnectSucceeds ==
  /\ pubPc = "connect"
  /\ pubPc' = "online" /\ attempts' = 0
  /\ UNCHANGED <<mutex, queue, rxBuf, reading, published, opcVars>>

\* MQTTConnect and the online message, whose results are not looked at.
PubOnline ==
  /\ pubPc = "online"
  /\ GiveMutex
  /\ pubPc' = "takeRead"
  /\ UNCHANGED <<queue, attempts, rxBuf, reading, published, opcVars>>

PubTakeRead ==
  /\ pubPc = "takeRead"
  /\ TakeMutex(Mqtt)
  /\ pubPc' = "read" /\ reading' = 0
  /\ UNCHANGED <<queue, attempts, rxBuf, published, opcVars>>

PubTakeReadTimesOut ==
  /\ pubPc = "takeRead"
  /\ TakeTimesOut(Mqtt)
  /\ pubPc' = "giveElse"
  /\ UNCHANGED <<queue, attempts, rxBuf, reading, published, opcVars>>

PubGiveElse ==
  /\ pubPc = "giveElse"
  /\ GiveMutex
  /\ pubPc' = "takeRead"
  /\ UNCHANGED <<queue, attempts, rxBuf, reading, published, opcVars>>

ReadNext ==
  IF reading = 2 THEN pubPc' = "publish" /\ reading' = 0
                 ELSE pubPc' = "read" /\ reading' = reading + 1

PubReads ==
  /\ pubPc = "read"
  /\ ReceiveFromQueue
  /\ rxBuf' = [rxBuf EXCEPT ![reading] = Head(queue)]
  /\ ReadNext
  /\ UNCHANGED <<mutex, attempts, published, opcVars>>

\* The result of xQueueReceive is not looked at: the slot keeps its string.
PubReadTimesOut ==
  /\ pubPc = "read"
  /\ ReceiveTimesOut(Mqtt)
  /\ ReadNext
  /\ UNCHANGED <<mutex, attempts, rxBuf, published, opcVars>>

PubPublishes ==
  /\ pubPc = "publish"
  /\ published' = rxBuf
  /\ GiveMutex
  /\ pubPc' = "takeRead"
  /\ UNCHANGED <<queue, attempts, rxBuf, reading, opcVars>>
-----------------------------------------------------------------------------
OpcNext ==
  \/ OpcTake \/ OpcTakeTimesOut \/ OpcSetup \/ OpcServerFails
  \/ CallbackTakes \/ CallbackTakeTimesOut
  \/ ReceivesNothing \/ ReturnsWithMutex \/ ReceivesFrame
  \/ CallbackSends \/ CallbackSendTimesOut \/ CallbackGives

PubNext ==
  \/ PubTake \/ PubTakeTimesOut \/ PubGiveStart
  \/ ConnectFails \/ ConnectSucceeds \/ PubOnline
  \/ PubTakeRead \/ PubTakeReadTimesOut \/ PubGiveElse
  \/ PubReads \/ PubReadTimesOut \/ PubPublishes

\* An event replaces the handles.  Elements of a frame whose other elements
\* are still to be sent, or have already been read, are lost or stay alone.
EventReplacesMutex ==
  /\ ReplaceMutex((IF opcPc \in {"take", "run"} THEN {OpcUa} ELSE {}) \cup
                  (IF pubPc \in {"take", "takeRead"} THEN {Mqtt} ELSE {}))
  /\ UNCHANGED <<opcVars, pubVars, formats, disturbed>>

EventReplacesQueue ==
  /\ ReplaceQueue(IF opcPc = "send" THEN {OpcUa} ELSE {},
                  IF pubPc = "read" THEN {Mqtt} ELSE {})
  /\ disturbed' = (disturbed \/ opcPc = "send" \/ pubPc = "read")
  /\ UNCHANGED <<opcVars, pubVars, formats>>

OpcStep(A) == A /\ Runs(OpcUa) /\ Observe /\ UNCHANGED formats
PubStep(A) == A /\ Runs(Mqtt) /\ Observe /\ UNCHANGED formats

Next ==
  \/ OpcStep(OpcNext) \/ PubStep(PubNext) \/ Restarts
  \/ EventReplacesMutex \/ EventReplacesQueue

Spec == Init /\ [][Next]_vars

\* Fairness: every bounded call returns (WF), and a Take that is repeated and
\* possible again and again succeeds (SF).  What arrives from the network is
\* not fair.
OpcProgress ==
  \/ OpcSetup \/ OpcServerFails \/ ReceivesNothing \/ ReturnsWithMutex
  \/ CallbackSends \/ CallbackSendTimesOut \/ CallbackGives

FairSpec ==
  /\ Spec
  /\ WF_vars(OpcStep(OpcProgress))
  /\ SF_vars(OpcStep(OpcTake \/ CallbackTakes))
  /\ WF_vars(PubStep(PubNext))
  /\ SF_vars(PubStep(PubTake \/ PubTakeRead))
-----------------------------------------------------------------------------
(* Properties.                                                             *)

Buffer == [Slots -> Element]

TypeOK ==
  /\ mutex \in {Available, OpcUa, Mqtt}
  /\ queue \in Seq(Element) /\ Len(queue) <= QueueLength
  /\ outdated \subseteq {OpcUa, Mqtt}
  /\ events \in 0..MaxEvents /\ replacing \in BOOLEAN
  /\ opcPc \in {"take", "setup", "run", "runWithoutCallback", "receive",
                "send", "give"}
  /\ frame \in 0..MaxFrames /\ sending \in Slots /\ txBuf \in Buffer
  /\ pubPc \in {"take", "giveStart", "connect", "online", "takeRead",
                "giveElse", "read", "publish"}
  /\ attempts \in 0..ConnectRetries /\ reading \in Slots
  /\ rxBuf \in Buffer /\ published \in Buffer
  /\ formats \subseteq SUBSET Slots
  /\ disturbed \in BOOLEAN

\* As long as no element was read between two sends, and no event replaced
\* the queue within a frame, every published triple is in order: no ID is
\* published as a Value or a Temperature.  It is the length of the queue, one
\* frame, that keeps a dropped frame from shifting the ones behind it.
ReadingsAligned ==
  ~disturbed =>
    \A i \in Slots : published[i] = Garbage \/ published[i].slot = i

\* Under the same condition the three values published together belong to
\* one frame, if every frame has its three strings.
ReadingsWhole ==
  ~disturbed /\ formats = {Slots} =>
    \A i, j \in Slots : published[i].frame = published[j].frame

\* Even when triples are mixed, a field never goes back to an older frame: a
\* publication repeats or advances until the chip starts again, if every frame
\* has its three strings.
NeverOlder ==
  [][formats = {Slots} /\ ~Restarts =>
       \A i \in Slots : published'[i].frame >= published[i].frame]_published

\* The mutex is kept while UA_Server_run runs, and left behind by the callback when it
\* discards a message, but the callback runs again and again: the MQTT task's
\* Give of a mutex it does not hold, or an event, lets it.
CallbackRuns == opcPc = "run" ~> opcPc = "receive"

\* What the callback queued is read and published, or lost to an event.
QueueDrains == queue # << >> ~> queue = << >>
=============================================================================
