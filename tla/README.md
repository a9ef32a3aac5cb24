# Verification of the MQTT / OPC UA interface

This directory holds TLA+ models of the ESP32 firmware in this repository, TLC
configurations that check them on small instances, and proofs that TLAPS checks.
Paths below are relative to the root of the repository.

    tlc -workers 2 -config MCMqttToOpcUa.cfg MCMqttToOpcUa     # a run
    tlapm MqttToOpcUaProofs.tla                                # proofs

## 1. The system

The firmware connects sensors, an MQTT broker and OPC UA publish/subscribe on a
FreeRTOS chip with two cores. A `#define` in `main/app_main.c` selects one of
several variants. Two of them are bridges of two tasks and hold the logic that is
hard to get right; the others are a single task each.

| component | source | state it keeps | operations |
|---|---|---|---|
| application, Wi-Fi events | `main/app_main.c` | the handles `xSemaphore` and `MyQueueHandleId`, the connected bit, the tasks | `event_handler` for each event, `wifi_init` |
| MQTT to OPC UA bridge | `src/iot/bridge/mbedtls_sub_mqtt.c`, `opcua_pub.c` | message counter, nodes of the address space, where each task is | the two tasks, the message handler, `startClient`, `update` |
| OPC UA to MQTT bridge | `src/iot/bridge/opcua_sub.c`, `mbedtls_pub_mqtt.c` | buffers of three strings on either side | the two tasks, the polling callback, `startClient` |
| MQTT client | `src/mbedtls/MQTTClient.c` | `isconnected`, packet id, ping, handlers, timers | connect, subscribe, unsubscribe, publish, yield, disconnect, `cycle` |
| TLS network layer | `src/mbedtls/mbedtls/MQTTmbedtls.c` | receive buffer, its length and offset; socket and TLS contexts | read, write, connect, disconnect, timers |
| packet library | `src/mbedtls/MQTT*.c` | none; the buffers are its callers' | serialise, deserialise and read packets |
| sensor tasks, OPC UA publisher and server | `src/iot/mqtt`, `src/iot/opc_ua` | the last reading, its status, the connection or a node | read, publish, connect |
| drivers | `src/driver` | device registers | read a sensor |
| external | open62541, FreeRTOS, mbedtls, broker, Wi-Fi driver | | |

How they interact. `event_handler` runs in the event loop's task and, when the
station has an address, creates the tasks of the variant; every call of it also
creates the mutex and the queue anew. The two tasks of a bridge share only these two
handles: one sends elements to the queue, the other receives them, and both take the
mutex around the work they must not do together. Waits are bounded, and a task whose
wait fails drops what it has or goes round its loop. In the MQTT task, the client
library calls the message handler from within `MQTTYield`; in the OPC UA task, the
server calls the polling callback. The client library reads and writes through the
network layer, a byte or a packet at a time.

What is hard. A task gives the mutex on paths where it does not hold it. Others leave
with the mutex held. A message is taken out of the queue before it is known that it can be
applied. Results of sends and receives are ignored. Acknowledgements are matched by type
only. The receive buffer must join pieces of the stream. Handles change under the
tasks, while they wait in the objects behind them. A connection fails in many places, each
with its own contexts to release, and one kind of them never is. A reading that fails leaves
a variable as it was, and the variable goes into a message before the status is looked at.
`PROJECT.json` lists each such place as a hazard with its line.

What makes each part correct:

- bridges: order, no duplicate, nothing torn or mixed, no mutex left behind for ever,
  queues that drain, a client that reconnects;
- client: SUCCESS means that the broker has the message, an acknowledged message has
  been handled, one ping at a time, every call returns;
- network layer: reads return the stream; one connection at a time, all of it released;
- sensor tasks: what is published has been measured, and new values keep coming;
- application: nothing but a Give by a task that does not hold the mutex lets a second task in under
  the same mutex, the mutex comes back, the bit says what is true, tasks get in.

## 2. Modules

| module | what it models |
|---|---|
| `FreeRtos` | mutex and queue of the kernel, external, as the tasks use them, and their replacement by `event_handler` |
| `LossyChannel` | abstract: a channel with bounded capacity that keeps order and may lose, but not repeat or reorder |
| `MqttToOpcUa` | the first bridge; extends `FreeRtos`, implements `LossyChannel` |
| `MqttToOpcUaProofs` | theorems about it |
| `OpcUaToMqtt` | the second bridge; extends `FreeRtos` |
| `OpcUaToMqttProofs` | theorems about it |
| `MqttClient` | the client library on one connection, with an external broker |
| `MqttClientProofs` | theorems about it |
| `NetworkLink` | connecting and disconnecting: `NetworkConnect`, `NetworkDisconnect`, `startClient` and what follows |
| `SensorFrame` | the two sensor drivers as functions of what the bus returns, the checksum included |
| `SensorTask` | the three tasks that publish a sensor's values; extends `NetworkLink` and `SensorFrame` |
| `SensorTaskProofs` | theorems about the drivers, the connection and the tasks |
| `NetBuffer` | reading packets: `mqtt_mbedtls_read` under `readPacket` and `decodePacket` |
| `PacketPoll` | the packet library's own readers on the same stream; extends `NetBuffer` |
| `PacketPollProofs` | theorems about both |
| `MessageDelivery` | the table of handlers and the matching of topics |
| `MessageDeliveryProofs` | theorems about it |
| `MqttPacket`, `MqttPacketServer` | the functions of the packet library, its server side included |
| `PacketExchange` | requests and answers through them, in buffers that are used again |
| `PacketExchangeProofs` | theorems about both |
| `WifiApp` | events, handles, the creation of tasks, and the Takes and Gives of each kind of task |
| `WifiAppProofs` | theorems about it |
| `MC...` | instances for TLC |

State and actions follow the code. In the bridges, `subPc`, `opcPc` and `pubPc` say where
a task is; an action is what a task does from one kernel call (or other step the
other task can observe) to the next, and its name says which call it is and how it
ended: `HandlerSends` and `HandlerSendTimesOut` are the two outcomes of `xQueueSend` in
`mqtt_message_handler`. `mutex` is the holder of `xSemaphore`, `queue` the contents of
`MyQueueHandleId`. Messages are reduced to the count that the handler appends to the
text and the set of fields the text carries, and a node to the count of the message that
wrote it. In the second bridge a string is its frame and its slot.

`FreeRtos!GiveMutex` makes the mutex available whoever calls it: `sdkconfig` does not
select the check that the holder gives it, and both tasks of a bridge do give it
on a path where they have not taken it. `ReplaceMutex` and `ReplaceQueue` are the first two
statements of `event_handler`, between which a task can run. A task that waits in an object when
it is replaced is `outdated`: nobody gives or fills that object any more, and the call can only
time out; the next call uses the new handle. An element sent to the old queue is lost.

In `WifiApp` a task has a kind, which says what it gives: `"server"` (`opcua_server_task`) and `"mqtt_sub"`
(`mqtt_mbedtls_sub_task`) give what they have taken; `"opcua_pubsub"` gives in its loop, and
`"mqtt_pub"` before its loop too, what the other may hold (`GivesAnyway`); `"esp"` (`mqtt_esp_task`) takes
once and gives in every iteration; `"opcua_sub"` goes into `UA_Server_run` with the mutex, and its callback may
return with it (`Keeps`). `holder` is the task that holds the current mutex. A task in a section remembers the number of the
mutex it took (`under`) and whether another task has given that since (`robbed`).

In `MqttClient`, the broker may send a message as soon as it has read a SUBSCRIBE, before it answers, as MQTT 3.1.1 permits; the history
`early` has the messages sent before their SUBACK. A reply of `cycle` fails with the connection, and also when the
call's timer has expired while the packet was read, since `sendPacket` then writes nothing. The variables `isconnected`, `next_packetid` and `ping_outstanding` are the
fields of the struct. `call` and `pc` stand for the C stack: which call is in `waitfor`
or `MQTTYield`, and whether it looks at its timer (`check`) or reads (`read`). One action of
`Cycle` is one execution of `cycle`. `toBroker` and `toClient` are the two directions of
the connection. In `NetBuffer` a byte is a record that says which byte of which packet
it is, so that the properties can speak about loss, order and duplication. `PacketPoll` reads a
stream in one of three ways, chosen at the start; one step of the library's readers is one call of
the caller's `getfn`.

`NetworkLink` counts what is asked of the system (`sockets`, `allocated`) apart from what the structure
`Network` remembers of it (`fd`, `contexts`, `ssl`), so that a loss shows as a difference. `user` is the task:
`mqtt_mbedtls_sub_task` starts again when a connection fails, the tasks that only publish keep
what they have. Each attempt can fail in each of its steps, the allocations included. `exhausted` says that the heap has no TLS buffers
left: `mbedtls_ssl_free` is commented out, so some attempt takes the last ones, and every later one fails; the chip restarts when
one of the allocations that abort fails. `SensorTask` has one variable `variant` for the build variants and one `driver`
for the sensor; `measured`, `lastMeasured` and `published` are histories that the properties compare.
`added` counts how often the bus has been configured since the chip started: a driver cannot be installed twice, nor more
devices added than the bus takes, and `ESP_ERROR_CHECK` then restarts the chip (`SetupFailsRestarts`). `SensorFrame` computes the checksum with the table of `prsb25.h`, against an external sensor that
computes it bit by bit; the assumption `CrcArrayAssumption` says that the table is that of the
polynomial, for all 256 entries.

`MqttPacket` defines each function of the packet library by what it returns and what it
writes; only the bases of the remaining length (128) and of integers of two bytes (256)
are scaled, the flags have their own bits. `PacketExchange` has the two sides of an
exchange: a client that calls the library as `MQTTClient.c` does, and a server that uses the
library's functions for servers. A packet is put into a buffer of any of the sizes, those too short for it included; the number of bytes that the
library returned is sent, and `readPacket` puts them into a buffer in which earlier packets
left their bytes. A function's error results are those of the code, also
where its comment says otherwise: the functions that read a packet whose rest is too
short return the number of bytes of its length field, 1 included. No run has such a packet,
since both sides write with the library. The session present flag is bit 7 in both the function
that writes and the one that reads it; MQTT has it in bit 0. The client ignores it. Before a CONNACK, a SUBACK and an UNSUBACK the library's guards (`buflen < 2`, `buflen < 2 + count`)
count the rest of the packet without header and length, so that it may end that many bytes behind the buffer. The program
does not call these functions; the exchange is followed to that point and no further, since what was overwritten is not known.

A restart of the chip is modelled where the code runs into one. A task function that returns does: the wrapper that `sdkconfig:444` puts
around it aborts (`MqttToOpcUa!OpcSetupFails`, `SensorTask!SetupFailsRestarts`). So does `opcua_sub_task` when it uses the
transport layer whose allocation failed, or the messages of a network message that could not be decoded (`OpcUaToMqtt!Restarts`).

Each module has a section with faulty variants of some of its definitions; no
specification uses them. They document that each property can fail, and how.

## 3. Runs

Passing runs:

| run | bounds | what it shows |
|---|---|---|
| `mqtt_to_opcua` | queue of 2, 1 retry, 3 messages, two kinds of payload, 2 events | everything the first bridge promises, its refinement of `LossyChannel` and liveness included |
| `opcua_to_mqtt` | queue of 3, 1 retry, 2 frames since the last restart, complete or with strings missing, 1 event | triples are in order and whole unless a send and a read overlap or an event cuts a frame; fields never go back until a restart; the callback runs |
| `mqtt_client` | packet ids 1 and 2, 3 calls, 1 inbound message, 2 connections, 2 pings, QoS 0 to 2 | acknowledgements, the handling of what is acknowledged, late replies, pings, and that calls return |
| `net_buffer` | 4 packets of 17 bytes, radix 2, buffer of 9 | packets that arrive whole are read exactly; any others in order; the library's readers return the stream's packets |
| `message_delivery` | 2 slots, 3 subscriptions, filters and names of up to 3 levels | matching against the rule of MQTT |
| `packet_exchange` | packets of 2 to 75 bytes, radix 4, buffers of 19 sizes for requests and answers, two patterns of stale bytes | what is written is what is read, on both sides; which packets end within their buffers; refusals at the boundaries |
| `wifi_app` | 6 events, 1 reboot, four variants, both bridges included | mutex, bit and tasks through reconnections and restarts |
| `sensor_publish` | 2 retries, 3 iterations of `mqtt_esp_task`, 2 devices on the bus, 2 angles, 2 distances, any damaged byte of a frame | one connection at most and all of it released; published values were measured; values keep coming |

Runs in which TLC must find a violation, each a disagreement between the code and one of its
own comments:

| run | what it shows |
|---|---|
| `mqtt_to_opcua_exclusion` | "using the semaphore for mutual exclusion": each task gives it away while the other holds it; no event is involved |
| `mqtt_client_acks` | "wait for all acks": a late one of an earlier publish is taken |
| `net_buffer_straddle` | "write remain": one byte more than remains is written |
| `wifi_app_exclusion` | the event handler replaces the mutex under its holder |

Where the code does not keep what a comment says, the passing runs check what it keeps
instead, under the condition that makes the difference: `ConfirmedUnlessGaveUp` for
`PublishConfirmed`, `ExclusiveUnlessRobbed` for `SectionsExclusive`, `ReadingsAligned` under
"no read between two sends and no event within a frame", `BytesInOrder` and `PacketsExact` for `ReadsStream`. Exclusion in the
second bridge fails as it does in the first, and the condition of `ReadingsAligned` is about
just that. In the first bridge there is no condition: what is kept instead is that every
effect of the two tasks is as if it were excluded (`PublishedNotTorn`, `NodesAreLatest`, `ImplementsChannel`).

Why the bounds are enough. Three messages fill the handler and a queue of two, so that sends
time out behind a full queue and a busy receiver; the second event replaces the handles while calls still wait
in what the first one replaced. One retry is a loop of `startClient` that is entered, repeated and left. Two
frames suffice to mix frames, and a queue of one frame's length, the value in the
code, is what the alignment depends on. Two packet ids wrap around within three calls. The
packets of `NetBuffer` have no rest, a length of three digits (the radix is scaled from 128
to 2), and the first length that has one digit; the buffer holds the longest or several of
the others. The packets of `packet_exchange` have lengths on both sides of every number at
which one more digit is needed, in buffers of exactly that size, one less and one more: at three
of these numbers `MQTTPacket_len` counts a byte too many. Six events are two full connections, and three subscriptions one more than the
slots. The retries and iterations of `sensor_publish` are loops entered, repeated and left; the angles have
two different bytes, so that none can be taken for the other, and the damages are all those of one byte.
A caller of `MQTTPacket_read` is taken to read no other packet after a failure.

Fairness. In `MqttToOpcUa` and `OpcUaToMqtt`, the tasks' own steps are weakly fair: each
kernel call is bounded, and each loop blocks, so neither starves the other. Taking the
mutex is strongly fair: a task repeats its Take at once, and the kernel hands the
mutex to a waiter when it is given. What comes from broker and network is not fair. In
`MqttClient`, reads return (their socket has a timeout) and time passes; the broker need
not answer. In `WifiApp`, a section ends, the attempts to connect in it included, and for `mqtt_esp_task` the wait for the external
client, which is assumed to connect; a wait for a held mutex ends, and with it comes the Give of the tasks that give anyway; and a task
gets in when it can again and again.
In `NetworkLink` and `SensorTask`, a task goes on (the TLS handshake, `MQTTmbedtls.c:494-504`, blocks without a time limit of its own and is
assumed to return: `LinkReturns` and, in the first bridge, `SubReconnects` rest on that), and what it tries again and again (to connect, to
measure, to publish by the client that connects by itself) succeeds at some time; without that,
which is the environment's part, nothing is claimed. The network need not break and events need not
come.
`LinkReturns` promises a new connection only until the heap is `exhausted`; after that it says that the task still gets through
`startClient` and goes on, without a connection.

`MqttClient` and `WifiApp` are checked without deadlock: a behaviour may stop when the calls
or events of the bound are used up. So is `SensorTask`: a task that only publishes, in the variant
`"bridge"`, has no step left that changes anything once its connection is lost. The other runs check it.

## 4. Proofs

TLC checks the bounds of a run; the theorems hold for every value of the constants that their
modules' assumptions admit. "Invariant" below is what is shown to be inductive; the property follows
from it.

`MqttToOpcUaProofs` proves, for every queue length, number of retries, set of payloads,
number of messages and number of events:

| theorem | statement |
|---|---|
| `TypeCorrect` | `Spec => []TypeOK` |
| `MutexNotLeaked` | `Spec => []NoLeakedMutex` |
| `OrderKept` | `Spec => []AppliedInOrder` |
| `NodesFollowMessages` | `Spec => []NodesAreLatest` |
| `PublicationsWhole` | `Spec => []PublishedNotTorn` |
| `BridgeImplementsChannel` | `Spec => ImplementsChannel` |

`TypeOK` bounds the two counters `attempts` and `it`; it is inductive only together with
`CounterInv`, which says that `startClient` still tries only within its retries, and
that a handler runs only for a message within the bound. `NoLeakedMutex` is inductive
with it: the point of the proof is that a foreign Give can only make the
mutex available, never leave it with a task outside its section. `AppliedInOrder` needs
the order of everything under way: `OrderInv` puts the applied messages, the one the OPC UA
task has received, the queue and the one the handler is sending in one line, with
growing counts, all below `it`. `NodesInv` says which node of the three `update` has
written already (`Updated`), `PublishInv` that what is published was written by applied
messages and that the received message is applied when the server iterates; it needs `OrderInv`, since only growing counts tell an older value from a newer one.
The refinement follows from the line too: every step
appends to it, drops one element or, when an event replaces the queue, several neighbours, moves its
first element to `applied`, or leaves it alone; the lemmas `LineEnter` to `LineReceive` say so about
sequences.

`OpcUaToMqttProofs` proves, for every number of retries, frames and events:

| theorem | statement |
|---|---|
| `TypeCorrect` | `Spec => []TypeOK` |
| `FieldsNeverOlder` | `Spec => NeverOlder` |
| `FieldsInPlace` | `Spec => []ReadingsAligned`, for `QueueLength = 3` |
| `TriplesWhole` | `Spec => []ReadingsWhole`, for `QueueLength = 3` |

The queue's length is the one of `app_main.c:39`; that it equals the number of strings in a frame is what
the last two theorems are about, and with another length they are false: a frame that does not
fit is then dropped in part. `AlignInv` knows how many elements the queue can hold at each place of the two
tasks (`{sending, 3}` while sending, all that is left of a triple otherwise) and that they begin with the
slot the receiver reads next; `WaitInv` that nobody but a task waiting for the mutex can wait in an
old object without a disturbance. `FieldsNeverOlder` needs no condition on the queue, and excludes only the step in which the chip restarts: `OlderInv` orders the frames from the
publication through `RxBuffer` and the queue to `TxBuffer`.

`MqttClientProofs` proves, for every number of packet ids, calls, messages, connections and pings:

| theorem | statement |
|---|---|
| `TypeCorrect` | `Spec => []TypeOK` |
| `PingsAreTracked` | `Spec => []PingsTracked` |
| `ClaimsAreConfirmed` | `Spec => []ConfirmedUnlessGaveUp` |
| `AcknowledgedAreHandled` | `Spec => []AckedWasHandled` |

`TypeInv` adds to the types what each phase of a call waits for. `PingInv` counts pings and answers on
both ways. `CallInv`, in force until a call gives up, says that the call in progress has at most one packet on the way to the
broker or one acknowledgement on the way back, and what that tells about the broker
(`AsksFor`, `Confirms`): this is why an unchecked packet id does no harm until then, whatever the ids do.
`AckInv`, in force as long, follows each message that is not `early`: it can be in front of
the client only if its handler is installed or a SUBACK that installs it is in front of it. A message that is early can be read
by the `waitfor` of the SUBSCRIBE, which delivers it to no handler and acknowledges it: it is lost, and the theorem says that nothing else is.

`PacketPollProofs` proves, for every stream of packets, base of the length field, way of cutting the
stream into pieces and size of the buffer, first about `NetBuffer`:

| theorem | statement |
|---|---|
| `TypeCorrect` | `Spec => []TypeOK` |
| `PacketsAreExact` | `Spec => PacketsExact` |
| `BytesAreInOrder` | `Spec => []BytesInOrder` |

`ExactInv` holds while every piece has ended where a packet ends: what has been read of a packet is its
beginning, the buffer holds the rest of it and whole packets behind, and the value that `decodePacket` has
so far is the length modulo the power of the base (`LengthDigits`), so that it stops neither early nor late
(`NoEndInside`). `OrderInv` does without that condition: it has the packets returned, the packet
under way and the buffer as one sequence of positions in the stream that only grow, with the zero bytes that
reading too far yields left out. The assumption that a length has at most four digits is that of the
length field of MQTT, and the code's `MAX_NO_OF_REMAINING_LENGTH_BYTES`. The stream is a recursive
function; `StreamUnfolds` shows that its definition has a solution, and `Induction`, which follows from the
well-foundedness of inclusion between finite sets, takes the place of the library's induction
theorems.

and then about the specification that the run checks, with the library's own readers:

| theorem | statement |
|---|---|
| `PolledAreExact` | `ReadSpec => []PolledExactly` |
| `ReadersTyped` | `ReadSpec => []TypeOK` |
| `ReadersInOrder` | `ReadSpec => []BytesInOrder` |
| `ReadersExact` | `ReadSpec => PacketsExact` |

`PollInv` says where in the stream the reader is in each of its states (`PollPlace`), and that the length
counted so far is that of the packet's first digits although the count of bytes may have run ahead of
them (`PollState`): this is why slow lengths can end in an error but never in a wrong packet.

`PacketExchangeProofs` proves, for every base of the length field, all requests with strings, payloads and lists of filters of any
length, every capacity of the buffers and all stale bytes in them:

| theorem | statement |
|---|---|
| `LengthsCorrect` | `Spec => []LengthsAgree` |
| `RefusalsCorrect` | `Spec => []RefusedOnlyWhenFull` |
| `RequestsCorrect` | `Spec => []RequestUnderstood` |
| `AnswersCorrect` | `Spec => []AnswerUnderstood` |

None of the four is inductive, since none says what is in the buffer. `IInv` does: at each place of the
exchange the buffer holds the packet with a known header and rest (`Carries`), that of the request, of its answer or
of the PUBREL, and what was read is what that packet was written from. The lemmas say, from the
bottom up:

- that `MQTTPacket_decodeBuf` gives back what `MQTTPacket_encode` has written, for all lengths below the fourth power of
  the base (`Encoded`, `Decoded`), with as many digits as `MQTTPacket_len` allows for, or one less (`PacketLength`);
- that integers, strings and the bits of the header and the flags are read as they were written (`IntRead`, `TextRead`,
  `HeaderRead`, `FlagsRead`);
- that a packet put over a buffer and sent through `readPacket` arrives as it was, in front of other stale bytes (`Received`);
- for each kind of request, that the lengths the library counts beforehand are those of what it then writes (`ConnectWritten`,
  `PublishWritten`, `SubscribeWritten`, `UnsubscribeWritten`) and that the server reads it field by field (`ConnectRead` and so on). The
  loops over filters are shown to satisfy the equation of a recursive function (`Recursion`, `FiltersLoop`), and then to have read one
  filter more after each turn (`ListRead`). `ConnectRead` also shows which names and passwords are turned down;
- that an answer is written into the memory that held the request, whose rest is never shorter (`RestSizes`, `ShorterFits`): given as far as its
  function looks at the buffer, or refused (`AckGiven`, `AnswerGiven`, `GivenIn`, `HasRoom`), within the buffer unless its function counts only
  the rest (`OfServer`), and that the client reads it (`AnswerRead`).

`MessageDeliveryProofs` proves, for every set of filters in the correct format, every set of names and
every number of handlers and subscriptions:

| theorem | statement |
|---|---|
| `TableIsInvariant` | `Spec => []TableInv` |
| `HandlersMatch` | `Spec => []OnlyMatching` |
| `HandlersCalled` | `Spec => []AllMatching` |

`TableInv` says that the slots have the first granted filters in their order, and that the handlers called
last are those found in the table as it is. The rest is about `isTopicMatched`, which goes through
characters, while the rule of MQTT is about levels. `TextLayout` finds the places at which the levels
of a topic begin in its text, `WalkUnfolds` a walk that satisfies the equation of the loop. From there `LevelWalk` and
`LastWalk` show for one level of the filter, plain (`PlainWalk`), `+` (`PlusWalk`) or `#` (`HashWalk`), that
the walk reaches the next level exactly when the filter's level fits the name's, and `MatchedOnly` and `MatchedAll`
go from level to level. `MatchedAll` is about the names that `Ordinary` describes: the code does not
match `+` with an empty level, nor `a/#` with `a`, which the rule does.

`SensorTaskProofs` proves, for every number of retries and iterations, every set of angles of 14 bits and
every set of distances of 16 bits:

| theorem | statement |
|---|---|
| `TypeCorrect` | `Spec => []TypeOK` |
| `PublishesMeasured` | `Spec => PublishedIsMeasured` |
| `NothingLost` | `LinkSpec => []OneLink` |
| `ConnectedIsOpen` | `LinkSpec => []ConnectedMeansOpen` |
| `LinkKeepsPromises` | `Spec => [](OneLink /\ ConnectedMeansOpen)` |

The first two rest on the drivers. The exclusive or of two bytes is the sum of the parities of their bits
(`Parity`), so it can be undone (`XorInjective`); the generator's lowest bit is set, so a step of
the shift register can be undone too (`ShiftInjective`), and with it a byte (`ShiftOutInjective`). From the byte that
was changed on, the register therefore differs to the end (`OneByteChangesCrc`), and as the program's table is
the register's (`CrcArrayAssumption`, which TLC evaluates for all 256 bytes), its `compute_crc` is the sensor's checksum
(`ChecksumIsCrc`). That gives `WholeFrameIsRead` and `DamagedFrameIsNotRead`: every frame with any bits
of one byte changed is refused, the checksum's byte included. `SensorInv` then says that the variable, or
the node, holds the last measured value at the places where the task publishes and the driver has returned `ESP_OK`; without
`LoopInv`, the count of iterations at the place where the task reads, the types are not inductive. The table and its 256 values are
never computed with in a proof; that is why the exclusive or is an operator of the module and not the bitwise one of the library, which
proofs cannot use.

`LinkInv` adds to the two properties of the connection in which phases of an attempt the structure may name
something (`Phases`), without which a new attempt could overwrite an open socket, and in which
phases a client can count as connected (`ConnectedInUse`), without which `ConnectedMeansOpen` is not
inductive. `LinkSpec` is the connection by itself; `TaskKeepsLink` shows that the composed
specification implements it, because every step of it is a step of the task, which changes none of the connection's
variables, or one of the connection (`TaskOrLink`).

`WifiAppProofs` proves, for every set of build variants and all bounds on events and restarts:

| theorem | statement |
|---|---|
| `TypeCorrect` | `Spec => []TypeOK` |
| `ExclusionUnlessRobbed` | `Spec => []ExclusiveUnlessRobbed` |
| `BitFollowsConnection` | `Spec => []BitIsCurrent` |
| `MutexIsGivenBack` | `Spec => []MutexComesBack` |

Types and exclusion are inductive together (`Invariant`) with three facts: a task in its section under the current mutex that was not robbed
is its holder (`UnrobbedHolds`), so that there is at most one; the holder is in a section or is `opcua_sub_task` (`HeldOrKept`); and
an event that is being handled has made a mutex (`HandlerHasMutex`). A new mutex is one that no task has taken; a Give leaves
nobody behind that holds it and is not robbed. Exclusion itself does not hold in the bridges, with or without an event: the run
`mqtt_to_opcua_exclusion` shows it for the first. `MutexIsGivenBack` needs the handler: `opcua_sub_task` keeps the mutex, and
the task that gives it instead is there, or still to be started by the handler that started it (`PublisherFollows`).
`ConnectionInv` says for every state of the driver which events can be waiting and how far the handler can be: at
each moment the last of them decides the bit.

The assumptions are those of the modules: the queue has room for an element
(`QueueLengthAssumption`), payloads are sets of fields, and the bounds are natural
numbers (`BridgeAssumption`, `PubBridgeAssumption`, `ClientAssumption`, `NetworkLinkAssumption`, `SensorTaskAssumption`); angles and distances have the width of the
sensors' fields (`AnglesAssumption`, `DistancesAssumption`) and the marks for no value are none of them; `NetBufferAssumption` has
the lengths of at most four digits; in `PacketExchange`, strings and numbers fit the two bytes that count or hold
them (`Texts`, `Numbers`), a will has a topic and a message and without one the fields of the will are
empty, as in the default options, a message of QoS 0 has no packet id, each filter has its QoS, and twice the capacity of a buffer is a
length that four digits can write (`BufferAssumption`; the program's buffers have 500 bytes) and the base of the length field is 3 at least (`RadixAssumption`; MQTT has 128); `DeliveryAssumption` has the format of filters that the comment above `isTopicMatched`
(`MQTTClient.c:132`) assumes: `#` only at the end, and `+` and `#` alone between separators; `WifiAppAssumption` says that a variant with `opcua_sub_task` has `mqtt_mbedtls_pub_task` too,
as in `app_main.c`, and that tasks are not named like the handler's other steps. Some of the
definitions are about bounded sets of messages, but nothing in the proofs limits the bound.

Only model-checked are the liveness properties: they depend on fairness and ENABLED, which the prover does
not handle. Every invariant and every action property of the passing runs is stated by a theorem, for all values
of the constants that the assumptions allow; `ReadingsAligned` and `ReadingsWhole` under the condition that the queue has
the length it has in the code.

## 5. Not modelled

- The vendored OPC UA stack: three copies of open62541 under `tools/components_libs`, about 270,000 of the
  repository's 272,000 lines of implementation. It is third-party code of which the program calls a few
  dozen functions; a model of it would be a model of another project. The bridges and the OPC UA tasks
  describe those calls by what the code around them relies on. Of the program's own code,
  nearly all that has state is modelled; what follows is the rest.
- What `opcua_server_task` serves: one node, written once, by the external stack. Its use of the
  mutex is in `WifiApp`.
- Websocket frames and their handshake: `MQTT_WEBSOCKET` is 0 in every variant. `MQTTRun` and
  `MQTT_TASK`: not built. `MQTTPacket_equals`, with which `deliverMessage` compares filter and name first, has no
  definition of its own: in `MessageDelivery!Matching` it is the equality of the two texts.
- A send that writes part of a packet: `mbedtls_ssl_write` writes a packet of the program, at most 500
  bytes, as one record or fails.
- Strings with both a C string and a length, which the program does not build: `MQTTstrlen`
  prefers the one and `writeMQTTString` the other.
- Two MQTT tasks of two connections on one `mqtt_sendBuf` and `mqtt_readBuf`: nothing orders them, and
  there is nothing that holds. `WifiApp` has such tasks as users of the mutex.
- `configureClient` leaves in `clientID` a pointer to its own stack frame; the models take the identifier
  to be intact when it is used. `NetworkDisconnect` after a failed `mbedtls_ssl_setup` of the first attempt
  closes whatever number `server_fd` happens to hold; `NetworkLink` takes it to name no open socket.
- The memory that each event leaks with the old mutex and queue, and failing allocations of
  either or of a task.
- The registers that configuring a sensor's bus writes (that it fails is modelled), generated code, formatting of packets for logs, unused
  sources.
- Frames with more fields than the buffers have slots. A frame that cannot be decoded in full is one with the
  strings of its beginning.
- What a broker does with a CONNACK, SUBACK or UNSUBACK that ends behind its buffer.

## 6. Plan

1. Done: both bridges with the events that replace their handles, client, packets, reading,
   connecting, delivery, sensor tasks, drivers and application; theorems about all of them.
2. Next: abstract specifications: a mutex that tasks may give without holding it (both bridges and `WifiApp`), an at-most-once
   publisher for `MqttClient`, a stream of packets for `NetBuffer`.
