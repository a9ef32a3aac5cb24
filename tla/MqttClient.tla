----------------------------- MODULE MqttClient -----------------------------
(***************************************************************************)
(* The MQTT client library (mbedtls/MQTTClient.c) on one TLS connection.   *)
(*                                                                         *)
(* Every call sends at most one packet and then runs `cycle` until the     *)
(* packet it waits for has been read (waitfor), or until its time is over  *)
(* (MQTTYield).  One cycle reads one packet, whatever call it runs in, so  *)
(* messages, acknowledgements of other calls and ping responses are        *)
(* handled wherever they arrive.                                           *)
(*                                                                         *)
(* The connection keeps the order of packets, in either direction, until   *)
(* it breaks.  The broker is external: it answers what it reads in order,  *)
(* when it likes, or never.  Timers expire at any time.                    *)
(***************************************************************************)
EXTENDS Integers, Sequences

CONSTANTS
  MaxPacketId,      \* MAX_PACKET_ID: 65535 in the code
  Qos,              \* the levels of service in use
  MaxCalls,         \* bound of the model: calls other than MQTTYield
  MaxInbound,       \* bound of the model: messages from the broker
  MaxConnections,   \* bound of the model: calls of MQTTClientInit
  MaxPings          \* bound of the model: expirations of the ping timer

ASSUME ClientAssumption ==
  /\ MaxPacketId \in Nat \ {0}
  /\ Qos \subseteq 0..2
  /\ MaxCalls \in Nat /\ MaxInbound \in Nat
  /\ MaxConnections \in Nat /\ MaxPings \in Nat

VARIABLES
  isconnected, next_packetid, ping_outstanding,
  handler,          \* a message handler is installed
  pc,               \* "idle", or in waitfor or MQTTYield: "check", "read"
  call,             \* the call in progress
  expired,          \* the timer of the call has expired
  ping_expired,     \* the ping timer has expired
  link,             \* the TLS connection is up
  toBroker,         \* packets on their way to the broker
  toClient,         \* packets on their way to the client
  subscribed,       \* the broker has accepted a subscription
  held,             \* QoS 2 messages the broker has and has not released
  sent,             \* messages sent by the broker
  calls,            \* calls other than MQTTYield so far
  connections,      \* calls of MQTTClientInit so far
  pings,            \* expirations of the ping timer so far
  claims,           \* history: publishes of QoS 1 and 2 that returned SUCCESS
                    \* on this connection
  got,              \* history: publishes the broker has taken over
  handled,          \* history: messages given to the handler
  acked,            \* history: messages acknowledged on this connection
  early,            \* history: messages sent before the SUBACK they belong to
  gaveUp            \* history: a waitfor on this connection timed out

client  == <<isconnected, next_packetid, ping_outstanding, handler>>
control == <<pc, call, expired>>
broker  == <<subscribed, held, sent>>
bounds  == <<calls, connections, pings>>
history == <<claims, got, handled, acked, early, gaveUp>>
vars == <<client, control, ping_expired, link, toBroker, toClient, broker,
          bounds, history>>

\* Packets: an acknowledgement carries the packet id, a CONNACK or SUBACK its
\* return code in place of it; n tells the messages apart.
Packet(type, id) == [type |-> type, id |-> id, qos |-> 0, n |-> 0]
Message(qos, id, n) == [type |-> "PUBLISH", id |-> id, qos |-> qos, n |-> n]

Call(op, qos, n) == [op |-> op, qos |-> qos, n |-> n]
NoCall == Call("none", 0, 0)

\* The call returns; its timer goes with it.
Returns == pc' = "idle" /\ call' = NoCall /\ expired' = FALSE

Init ==
  /\ isconnected = FALSE /\ next_packetid = 1 /\ ping_outstanding = FALSE
  /\ handler = FALSE
  /\ pc = "idle" /\ call = NoCall /\ expired = FALSE /\ ping_expired = TRUE
  /\ link = FALSE /\ toBroker = << >> /\ toClient = << >>
  /\ subscribed = FALSE /\ held = {} /\ sent = 0
  /\ calls = 0 /\ connections = 0 /\ pings = 0
  /\ claims = {} /\ got = {} /\ handled = {} /\ acked = {} /\ early = {}
  /\ gaveUp = FALSE
-----------------------------------------------------------------------------
(* Faulty variants of definitions below, for the properties to find.       *)

\* A publish of QoS 2 returns with the first acknowledgement.
AwaitsFirstAck ==
  CASE call.op = "connect"     -> "CONNACK"
    [] call.op = "subscribe"   -> "SUBACK"
    [] call.op = "unsubscribe" -> "UNSUBACK"
    [] call.op = "publish"     -> IF call.qos = 1 THEN "PUBACK" ELSE "PUBREC"
    [] OTHER                   -> "nothing"

\* Messages are delivered by MQTTYield only.
DeliverInYield(p) ==
  handled' = IF handler /\ call.op = "yield" THEN handled \cup {p.n} ELSE handled

\* keepalive sends a ping although one is not answered yet.
PingAgain(outstanding, replies) ==
  IF ping_expired /\ replies = << >>
    THEN <<Packet("PINGREQ", 0)>> ELSE << >>

\* waitfor reads on until its packet arrives, whatever the time.
CheckWithoutTimer ==
  /\ pc = "check"
  /\ IF expired /\ call.op = "yield"
       THEN Returns /\ UNCHANGED gaveUp
       ELSE pc' = "read" /\ UNCHANGED <<call, expired, gaveUp>>
  /\ UNCHANGED <<client, ping_expired, link, toBroker, toClient, broker,
                 bounds, claims, got, handled, acked, early>>

\* The packet id is incremented without end.
NextPacketIdUnwrapped == next_packetid + 1
-----------------------------------------------------------------------------
(* Calls.  A call that is refused at once, because of isconnected, changes *)
(* nothing.                                                                *)

getNextPacketId ==
  IF next_packetid = MaxPacketId THEN 1 ELSE next_packetid + 1

\* MQTTClientInit on a new connection, or on none: startClient goes on when
\* NetworkConnect has failed.  The ping timer is expired until MQTTConnect.
ClientInit ==
  /\ pc = "idle"
  /\ connections < MaxConnections
  /\ connections' = connections + 1
  /\ link' \in BOOLEAN /\ toBroker' = << >> /\ toClient' = << >>
  /\ isconnected' = FALSE /\ next_packetid' = 1 /\ ping_outstanding' = FALSE
  /\ handler' = FALSE /\ ping_expired' = TRUE
  /\ subscribed' = FALSE /\ held' = {}
  /\ claims' = {} /\ acked' = {} /\ gaveUp' = FALSE
  /\ UNCHANGED <<control, sent, calls, pings, got, handled, early>>

\* sendPacket for the packet of a call.  A successful send restarts the ping
\* timer; if it fails the call returns FAILURE.
Sends(p) ==
  IF link
    THEN toBroker' = Append(toBroker, p) /\ ping_expired' = FALSE
    ELSE UNCHANGED <<toBroker, ping_expired>>

Begins(c, at) ==
  IF link THEN pc' = at /\ call' = c /\ expired' = FALSE ELSE UNCHANGED control

\* A call that sends a packet, counted by the model.
Counts == calls < MaxCalls /\ calls' = calls + 1

Connect ==
  /\ pc = "idle" /\ connections > 0 /\ ~isconnected
  /\ Counts
  /\ toBroker' = IF link THEN Append(toBroker, Packet("CONNECT", 0)) ELSE toBroker
  /\ ping_expired' = FALSE
  /\ Begins(Call("connect", 0, 0), "check")
  /\ UNCHANGED <<client, link, toClient, broker, connections, pings, history>>

\* The program subscribes once for every MQTTClientInit.
Subscribe ==
  /\ pc = "idle" /\ isconnected /\ ~handler
  /\ Counts
  /\ next_packetid' = getNextPacketId
  /\ Sends(Packet("SUBSCRIBE", next_packetid'))
  /\ Begins(Call("subscribe", 0, 0), "check")
  /\ UNCHANGED <<isconnected, ping_outstanding, handler, link, toClient,
                 broker, connections, pings, history>>

Unsubscribe ==
  /\ pc = "idle" /\ isconnected /\ handler
  /\ Counts
  /\ next_packetid' = getNextPacketId
  /\ Sends(Packet("UNSUBSCRIBE", next_packetid'))
  /\ Begins(Call("unsubscribe", 0, 0), "check")
  /\ UNCHANGED <<isconnected, ping_outstanding, handler, link, toClient,
                 broker, connections, pings, history>>

\* A publish of QoS 0 returns when it is sent.
Publish(qos) ==
  /\ pc = "idle" /\ isconnected
  /\ Counts
  /\ next_packetid' = IF qos = 0 THEN next_packetid ELSE getNextPacketId
  /\ Sends(Message(qos, IF qos = 0 THEN 0 ELSE next_packetid', calls'))
  /\ IF qos = 0 THEN UNCHANGED control
                ELSE Begins(Call("publish", qos, calls'), "check")
  /\ UNCHANGED <<isconnected, ping_outstanding, handler, link, toClient,
                 broker, connections, pings, history>>

\* The program yields only when it has subscribed.
Yield ==
  /\ pc = "idle" /\ handler
  /\ pc' = "read" /\ call' = Call("yield", 0, 0) /\ expired' = FALSE
  /\ UNCHANGED <<client, ping_expired, link, toBroker, toClient, broker,
                 bounds, history>>

Disconnect ==
  /\ pc = "idle" /\ connections > 0
  /\ Counts
  /\ Sends(Packet("DISCONNECT", 0))
  /\ isconnected' = FALSE
  /\ UNCHANGED <<next_packetid, ping_outstanding, handler, control, link,
                 toClient, broker, connections, pings, history>>
-----------------------------------------------------------------------------
(* cycle.                                                                  *)

\* The packet the call waits for.
Awaits ==
  CASE call.op = "connect"     -> "CONNACK"
    [] call.op = "subscribe"   -> "SUBACK"
    [] call.op = "unsubscribe" -> "UNSUBACK"
    [] call.op = "publish"     -> IF call.qos = 1 THEN "PUBACK" ELSE "PUBCOMP"
    [] OTHER                   -> "nothing"

\* What cycle answers to packet p.  PUBREL is not answered.
Replies(p) ==
  CASE p.type = "PUBLISH" /\ p.qos = 1 -> <<Packet("PUBACK", p.id)>>
    [] p.type = "PUBLISH" /\ p.qos = 2 -> <<Packet("PUBREC", p.id)>>
    [] p.type = "PUBREC"               -> <<Packet("PUBREL", p.id)>>
    [] OTHER                           -> << >>

\* deliverMessage: without a handler the message is dropped.
Deliver(p) == handled' = IF handler THEN handled \cup {p.n} ELSE handled

\* keepalive; a reply just sent has restarted the ping timer.
Ping(outstanding, replies) ==
  IF ping_expired /\ ~outstanding /\ replies = << >>
    THEN <<Packet("PINGREQ", 0)>> ELSE << >>

\* The rest of the call once the packet it waits for has arrived.
Finish(p) ==
  /\ isconnected' = IF call.op = "connect" THEN p.id = 0 ELSE isconnected
  /\ handler' = IF call.op = "subscribe" THEN p.id # 128 ELSE handler
  /\ claims' = IF call.op = "publish" THEN claims \cup {call.n} ELSE claims
  /\ Returns

\* A packet is read and handled; its reply, if any, is sent.
CycleHandles ==
  /\ pc = "read" /\ link
  /\ toClient # << >>
  /\ LET p == Head(toClient)
         outstanding == ping_outstanding /\ p.type # "PINGRESP"
         ping == Ping(outstanding, Replies(p))
     IN /\ IF p.type = "PUBLISH" THEN Deliver(p) ELSE UNCHANGED handled
        /\ acked' = IF p.type = "PUBLISH" /\ p.qos > 0 THEN acked \cup {p.n} ELSE acked
        /\ toBroker' = toBroker \o Replies(p) \o ping
        /\ ping_outstanding' = (outstanding \/ ping # << >>)
        /\ ping_expired' = (ping_expired /\ Replies(p) \o ping = << >>)
        /\ IF p.type = Awaits
             THEN Finish(p)
             ELSE pc' = "check" /\ UNCHANGED <<isconnected, handler, claims, call, expired>>
  /\ toClient' = Tail(toClient)
  /\ UNCHANGED <<next_packetid, link, broker, bounds, got, early, gaveUp>>

\* The reply is not sent, because the connection is broken or because the
\* call's timer expired while the packet was read: sendPacket then writes
\* nothing.  MQTTYield returns FAILURE, waitfor goes on.
CycleReplyFails ==
  /\ pc = "read" /\ link
  /\ toClient # << >> /\ Replies(Head(toClient)) # << >>
  /\ LET p == Head(toClient)
     IN IF p.type = "PUBLISH" THEN Deliver(p) ELSE UNCHANGED handled
  /\ \/ link' = FALSE /\ toBroker' = << >> /\ toClient' = << >>
     \/ expired /\ toClient' = Tail(toClient) /\ UNCHANGED <<link, toBroker>>
  /\ IF call.op = "yield" THEN Returns ELSE pc' = "check" /\ UNCHANGED <<call, expired>>
  /\ UNCHANGED <<client, ping_expired, broker, bounds, claims, got,
                 acked, early, gaveUp>>

\* Nothing arrives before the read times out.
CycleReadsNothing ==
  /\ pc = "read" /\ link
  /\ LET ping == Ping(ping_outstanding, << >>)
     IN /\ toBroker' = toBroker \o ping
        /\ ping_outstanding' = (ping_outstanding \/ ping # << >>)
        /\ ping_expired' = (ping_expired /\ ping = << >>)
  /\ pc' = "check"
  /\ UNCHANGED <<isconnected, next_packetid, handler, call, expired, link,
                 toClient, broker, bounds, history>>

\* The connection is broken; a ping cannot be sent either.
CycleReadFails ==
  /\ pc = "read" /\ ~link
  /\ IF call.op = "yield" THEN Returns ELSE pc' = "check" /\ UNCHANGED <<call, expired>>
  /\ UNCHANGED <<client, ping_expired, link, toBroker, toClient,
                 broker, bounds, history>>

\* waitfor and MQTTYield look at the timer of the call before another cycle.
Check ==
  /\ pc = "check"
  /\ IF expired
       THEN /\ Returns
            /\ gaveUp' = (gaveUp \/ call.op # "yield")
       ELSE pc' = "read" /\ UNCHANGED <<call, expired, gaveUp>>
  /\ UNCHANGED <<client, ping_expired, link, toBroker, toClient,
                 broker, bounds, claims, got, handled, acked, early>>
-----------------------------------------------------------------------------
(* Timers, connection and broker.                                          *)

\* Time passes while the task waits in a read.
TimerExpires ==
  /\ pc = "read" /\ ~expired
  /\ expired' = TRUE
  /\ UNCHANGED <<client, pc, call, ping_expired, link, toBroker, toClient,
                 broker, bounds, history>>

PingTimerExpires ==
  /\ ~ping_expired /\ pings < MaxPings
  /\ ping_expired' = TRUE /\ pings' = pings + 1
  /\ UNCHANGED <<client, control, link, toBroker, toClient, broker, calls,
                 connections, history>>

LinkBreaks ==
  /\ link
  /\ link' = FALSE /\ toBroker' = << >> /\ toClient' = << >>
  /\ UNCHANGED <<client, control, ping_expired, broker, bounds, history>>

Answers(p) ==
  CASE p.type = "CONNECT"     -> {Packet("CONNACK", 0), Packet("CONNACK", 5)}
    [] p.type = "SUBSCRIBE"   -> {Packet("SUBACK", 0), Packet("SUBACK", 128)}
    [] p.type = "UNSUBSCRIBE" -> {Packet("UNSUBACK", p.id)}
    [] p.type = "PUBLISH"     -> IF p.qos = 1 THEN {Packet("PUBACK", p.id)}
                                              ELSE {Packet("PUBREC", p.id)}
    [] p.type = "PUBREL"      -> {Packet("PUBCOMP", p.id)}
    [] p.type = "PUBREC"      -> {Packet("PUBREL", p.id)}
    [] p.type = "PINGREQ"     -> {Packet("PINGRESP", 0)}

BrokerTakes(p) ==
  /\ held' = CASE p.type = "PUBLISH" /\ p.qos = 2 -> held \cup {p}
               [] p.type = "PUBREL" -> {m \in held : m.id # p.id}
               [] OTHER -> held
  /\ got' = CASE p.type = "PUBLISH" /\ p.qos < 2 -> got \cup {p.n}
              [] p.type = "PUBREL" -> got \cup {m.n : m \in {h \in held : h.id = p.id}}
              [] OTHER -> got

BrokerAnswers ==
  /\ link /\ toBroker # << >>
  /\ LET p == Head(toBroker)
     IN /\ p.type \notin {"PUBACK", "DISCONNECT"}
        /\ ~(p.type = "PUBLISH" /\ p.qos = 0)
        /\ BrokerTakes(p)
        /\ \E a \in Answers(p) :
             /\ toClient' = Append(toClient, a)
             /\ subscribed' = CASE a.type = "SUBACK" -> a.id # 128
                                [] a.type = "UNSUBACK" -> FALSE
                                [] OTHER -> subscribed
  /\ toBroker' = Tail(toBroker)
  /\ UNCHANGED <<client, control, ping_expired, link, sent, bounds, claims,
                 handled, acked, early, gaveUp>>

BrokerTakesSilently ==
  /\ link /\ toBroker # << >>
  /\ LET p == Head(toBroker)
     IN /\ p.type = "PUBACK" \/ (p.type = "PUBLISH" /\ p.qos = 0)
        /\ BrokerTakes(p)
  /\ toBroker' = Tail(toBroker)
  /\ UNCHANGED <<client, control, ping_expired, link, toClient, subscribed,
                 sent, bounds, claims, handled, acked, early, gaveUp>>

BrokerCloses ==
  /\ link /\ toBroker # << >>
  /\ Head(toBroker).type = "DISCONNECT"
  /\ link' = FALSE /\ toBroker' = << >> /\ toClient' = << >>
  /\ UNCHANGED <<client, control, ping_expired, broker, bounds, history>>

\* The broker forwards a message of another client: once it has subscribed
\* this one, or before it answers the SUBSCRIBE it has read (MQTT 3.1.1 permits
\* both).
BrokerSends(qos) ==
  /\ link
  /\ subscribed \/ (toBroker # << >> /\ Head(toBroker).type = "SUBSCRIBE")
  /\ sent < MaxInbound
  /\ sent' = sent + 1
  /\ toClient' = Append(toClient, Message(qos, sent', sent'))
  /\ early' = IF subscribed THEN early ELSE early \cup {sent'}
  /\ UNCHANGED <<client, control, ping_expired, link, toBroker, subscribed,
                 held, bounds, claims, got, handled, acked, gaveUp>>
-----------------------------------------------------------------------------
Cycle == CycleHandles \/ CycleReplyFails \/ CycleReadsNothing \/ CycleReadFails

Next ==
  \/ ClientInit \/ Connect \/ Subscribe \/ Unsubscribe \/ Yield \/ Disconnect
  \/ \E qos \in Qos : Publish(qos)
  \/ Cycle \/ Check
  \/ TimerExpires \/ PingTimerExpires \/ LinkBreaks
  \/ BrokerAnswers \/ BrokerTakesSilently \/ BrokerCloses
  \/ \E qos \in Qos : BrokerSends(qos)

Spec == Init /\ [][Next]_vars

\* Fairness: a read returns at the latest when its time is over, the task
\* goes on after it (WF), and the timer of a call, which the model lets expire
\* during reads only, expires if there are reads for ever (SF).  Of the broker
\* nothing is assumed.
FairSpec == Spec /\ WF_vars(Cycle) /\ WF_vars(Check) /\ SF_vars(TimerExpires)
-----------------------------------------------------------------------------
(* Properties.                                                             *)

PacketTypes == {"CONNECT", "CONNACK", "SUBSCRIBE", "SUBACK", "UNSUBSCRIBE",
                "UNSUBACK", "PUBLISH", "PUBACK", "PUBREC", "PUBREL",
                "PUBCOMP", "PINGREQ", "PINGRESP", "DISCONNECT"}
Packets == [type : PacketTypes, id : Nat, qos : 0..2, n : Nat]

\* The packet id is never 0 and never beyond MAX_PACKET_ID.
TypeOK ==
  /\ isconnected \in BOOLEAN /\ ping_outstanding \in BOOLEAN
  /\ next_packetid \in 1..MaxPacketId /\ handler \in BOOLEAN
  /\ pc \in {"idle", "check", "read"}
  /\ call \in [op : {"none", "connect", "subscribe", "unsubscribe", "publish", "yield"},
               qos : 0..2, n : 0..MaxCalls]
  /\ expired \in BOOLEAN /\ ping_expired \in BOOLEAN /\ link \in BOOLEAN
  /\ toBroker \in Seq(Packets) /\ toClient \in Seq(Packets)
  /\ subscribed \in BOOLEAN /\ held \subseteq Packets /\ sent \in 0..MaxInbound
  /\ calls \in 0..MaxCalls /\ connections \in 0..MaxConnections
  /\ pings \in 0..MaxPings
  /\ claims \subseteq 1..MaxCalls /\ got \subseteq 1..MaxCalls
  /\ handled \subseteq 1..MaxInbound /\ acked \subseteq 1..MaxInbound
  /\ early \subseteq 1..MaxInbound /\ gaveUp \in BOOLEAN

\* MQTTClient.h says of MQTTPublish: "send an MQTT publish packet and wait
\* for all acks to complete for all QoSs".  The code does not keep it: the
\* packet id of an acknowledgement is not compared with that of the publish,
\* so the late acknowledgement of an earlier call is taken for this one's.
PublishConfirmed == claims \subseteq got

\* It does keep it as long as no call on this connection has given up: the
\* acknowledgement that ends a publish is then its own, for QoS 2 the last.
ConfirmedUnlessGaveUp == ~gaveUp => PublishConfirmed

\* A message that is acknowledged without having been handled, and so is lost
\* for good, was sent before its SUBACK: waitfor then reads it before the
\* handler is installed.  What is sent behind the SUBACK is handled in whatever
\* call it arrives, unless a call was given up, whose SUBACK may come late.
AckedWasHandled == ~gaveUp => acked \subseteq handled \cup early

\* The client knows of every ping that is under way: it never has two, and
\* with none outstanding there is none in the network.
PingsTracked ==
  LET under == {<<"to", i>> : i \in {j \in DOMAIN toBroker : toBroker[j].type = "PINGREQ"}}
          \cup {<<"from", i>> : i \in {j \in DOMAIN toClient : toClient[j].type = "PINGRESP"}}
  IN /\ \A a, b \in under : a = b
     /\ ~ping_outstanding => under = {}

\* Every call returns, although waitfor goes on reading a broken connection
\* and the broker may answer with anything or not at all.
CallsReturn == pc # "idle" ~> pc = "idle"
=============================================================================
