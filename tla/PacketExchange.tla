--------------------------- MODULE PacketExchange ---------------------------
(***************************************************************************)
(* Requests and answers through the packet library: one side writes a      *)
(* packet into its buffer and sends the bytes the library says it has      *)
(* written; the other reads them into a buffer that still has the bytes of *)
(* earlier packets, and answers with the packet id it has read.  The       *)
(* client calls the library as MQTTClient.c does, the server with the      *)
(* library's own functions for servers.  A publish may go either way.      *)
(***************************************************************************)
EXTENDS MqttPacketServer

CONSTANTS
  ConnectOptions, Publishes, Subscribes, Unsubscribes,   \* the requests
  Sizes,            \* of the buffers packets are written into
  Stale             \* bytes that earlier packets left in the buffers

\* Every receiver's buffer, and the memory that is looked at.
CONSTANT Capacity

\* Strings that two bytes can count, and numbers that they can hold.
Texts   == {s \in [given : {TRUE}, chars : Seq(Nat)] : Len(s.chars) < Byte * Byte}
Numbers == 0..(Byte * Byte - 1)

ASSUME ConnectAssumption ==
  /\ ConnectOptions \subseteq
       [type : {CONNECT}, MQTTVersion : {3, 4}, clientID : Texts,
        keepAliveInterval : Numbers, cleansession : {0, 1}, willFlag : {0, 1},
        willQoS : 0..2, willRetain : {0, 1},
        topicName : Texts \cup {NullString}, message : Texts \cup {NullString},
        username : Texts \cup {NullString}, password : Texts \cup {NullString}]
  /\ \A o \in ConnectOptions :
       IF o.willFlag = 1
         THEN o.topicName \in Texts /\ o.message \in Texts
         ELSE o.willQoS = 0 /\ o.willRetain = 0 /\ o.topicName = NullString /\ o.message = NullString

ASSUME PublishAssumption ==
  /\ Publishes \subseteq
       [type : {PUBLISH}, dup : {0, 1}, qos : 0..2, retained : {0, 1},
        packetid : Numbers, topicName : Texts, payload : Seq(Nat)]
  /\ \A m \in Publishes : m.qos = 0 => m.packetid = 0

ASSUME SubscribeAssumption ==
  /\ Subscribes \subseteq
       [type : {SUBSCRIBE}, dup : {0, 1}, packetid : Numbers,
        topicFilters : Seq(Texts), requestedQoSs : Seq(0..2)]
  /\ \A s \in Subscribes : Len(s.topicFilters) = Len(s.requestedQoSs)

ASSUME UnsubscribeAssumption ==
  Unsubscribes \subseteq
    [type : {UNSUBSCRIBE}, dup : {0, 1}, packetid : Numbers, topicFilters : Seq(Texts)]

ASSUME BufferAssumption ==
  /\ Stale \subseteq Nat /\ Capacity \in Nat \ {0} /\ Sizes \subseteq 0..Capacity
  /\ 2 * Capacity < Radix * Radix * Radix * Radix

VARIABLES
  pc,               \* the step of the exchange
  request,          \* the packet asked for
  size,             \* the length of the buffer given to the last function that
                    \* serialised
  len,              \* its result
  buf,              \* the buffer it wrote into, then the one it was read into
  got,              \* what was read from it
  answer            \* the packet sent in answer

vars == <<pc, request, size, len, buf, got, answer>>

Nothing == [type |-> 0]

Init ==
  /\ pc = "idle" /\ request = Nothing /\ size = 0 /\ len = 0
  /\ buf = << >> /\ got = Nothing /\ answer = Nothing

\* A buffer with these bytes at its start.
Over(bytes, stale) == [i \in 1..Capacity |-> IF i <= Len(bytes) THEN bytes[i] ELSE stale]
-----------------------------------------------------------------------------
(* A faulty variant of Release, for the properties to find.                *)

\* The client answers a PUBREC with the id of its next packet.
ReleaseNextId ==
  /\ pc = "confirmed" /\ request.type = PUBLISH /\ got.packettype = PUBREC
  /\ \E n \in Sizes :
       LET packet == MQTTSerialize_ack(n, PUBREL, 0, got.packetid + 1) IN
       /\ size' = n /\ len' = packet.rc
       /\ \E stale \in Stale : buf' = Over(packet.bytes, stale)
       /\ pc' = IF packet.rc <= 0 THEN "withheld" ELSE "released"
  /\ UNCHANGED <<request, got, answer>>
-----------------------------------------------------------------------------
Serialized(r, buflen) ==
  CASE r.type = CONNECT     -> MQTTSerialize_connect(buflen, r)
    [] r.type = PUBLISH     -> MQTTSerialize_publish(buflen, r)
    [] r.type = SUBSCRIBE   -> MQTTSerialize_subscribe(buflen, r)
    [] r.type = UNSUBSCRIBE -> MQTTSerialize_unsubscribe(buflen, r)
    [] OTHER                -> MQTTSerialize_zero(buflen, r.type)

\* The packet is put into the buffer; without room nothing is written or sent.
Sends(r, buflen) ==
  LET packet == Serialized(r, buflen) IN
  /\ pc = "idle"
  /\ request' = r /\ size' = buflen /\ len' = packet.rc
  /\ \E stale \in Stale : buf' = Over(packet.bytes, stale)
  /\ pc' = IF packet.rc <= 0 THEN "refused" ELSE "sent"
  /\ UNCHANGED <<got, answer>>

Connect     == \E o \in ConnectOptions, n \in Sizes : Sends(o, n)
Publish     == \E m \in Publishes, n \in Sizes : Sends(m, n)
Subscribe   == \E s \in Subscribes, n \in Sizes : Sends(s, n)
Unsubscribe == \E u \in Unsubscribes, n \in Sizes : Sends(u, n)
Ping        == \E n \in Sizes : Sends([type |-> PINGREQ], n)
Disconnect  == \E n \in Sizes : Sends([type |-> DISCONNECT], n)

\* readPacket: the header, the length, which is encoded once more into the
\* buffer, and the rest.
readPacket(bytes) ==
  LET length == MQTTPacket_decodeBuf(bytes, 2) IN
  <<bytes[1]>> \o MQTTPacket_encode(length.value)
    \o SubSeq(bytes, 2 + length.bytes, 1 + length.bytes + length.value)

\* What arrives, in a buffer with stale bytes behind it.
Arrives(stale) == Over(readPacket(SubSeq(buf, 1, len)), stale)

ServerReads ==
  /\ pc = "sent"
  /\ \E stale \in Stale :
       LET readbuf == Arrives(stale)
           type    == HeaderType(readbuf)
       IN /\ buf' = readbuf
          /\ got' = CASE type = CONNECT     -> MQTTDeserialize_connect(readbuf, len)
                      [] type = PUBLISH     -> MQTTDeserialize_publish(readbuf)
                      [] type = SUBSCRIBE   -> MQTTDeserialize_subscribe(readbuf)
                      [] type = UNSUBSCRIBE -> MQTTDeserialize_unsubscribe(readbuf)
                      [] OTHER              -> [rc |-> 1]
  /\ pc' = "read"
  /\ UNCHANGED <<request, size, len, answer>>

\* The answer a, with what is expected to be read from its packet, in a buffer of
\* this length.
Answers(a, buflen, packet) ==
  /\ answer' = a /\ size' = buflen /\ len' = packet.rc
  /\ \E stale \in Stale : buf' = Over(packet.bytes, stale)
  /\ pc' = IF packet.rc <= 0 THEN "withheld" ELSE "answered"
  /\ UNCHANGED <<request, got>>

ServerAnswers ==
  /\ pc = "read" /\ got.rc = 1
  /\ \E n \in Sizes :
     \/ /\ request.type = CONNECT
        /\ \E session \in {0, 1}, code \in {0, 5} :
             Answers([rc |-> 1, sessionPresent |-> session, connack_rc |-> code],
                     n, MQTTSerialize_connack(n, code, session))
     \/ /\ request.type = PUBLISH /\ got.qos > 0
        /\ LET type == IF got.qos = 1 THEN PUBACK ELSE PUBREC IN
           Answers([rc |-> 1, packettype |-> type, dup |-> 0, packetid |-> request.packetid],
                   n, MQTTSerialize_ack(n, type, 0, got.packetid))
     \/ /\ request.type = SUBSCRIBE
        /\ Answers([rc |-> 1, packetid |-> request.packetid,
                    grantedQoSs |-> request.requestedQoSs],
                   n, MQTTSerialize_suback(n, got.packetid, got.requestedQoSs))
     \/ /\ request.type = UNSUBSCRIBE
        /\ Answers([rc |-> 1, packettype |-> UNSUBACK, dup |-> 0,
                    packetid |-> request.packetid],
                   n, MQTTSerialize_unsuback(n, got.packetid))
     \/ /\ request.type = PINGREQ
        /\ Answers([rc |-> 1], n, MQTTSerialize_zero(n, PINGRESP))

\* What an answer that is longer than its buffer has overwritten is not known:
\* the exchange is not followed further.
ClientReads ==
  /\ pc = "answered" /\ len <= size
  /\ \E stale \in Stale :
       LET readbuf == Arrives(stale)
           type    == HeaderType(readbuf)
       IN /\ buf' = readbuf
          /\ got' = CASE type = CONNACK  -> MQTTDeserialize_connack(readbuf)
                      [] type = SUBACK   ->
                           MQTTDeserialize_suback(Len(request.topicFilters), readbuf)
                      [] type = UNSUBACK -> MQTTDeserialize_unsuback(readbuf)
                      [] type = PINGRESP -> [rc |-> 1]
                      [] OTHER           -> MQTTDeserialize_ack(readbuf)
  /\ pc' = "confirmed"
  /\ UNCHANGED <<request, size, len, answer>>

\* QoS 2: a PUBREC is answered by a PUBREL, and that by a PUBCOMP.
Release ==
  /\ pc = "confirmed" /\ request.type = PUBLISH /\ got.packettype = PUBREC
  /\ \E n \in Sizes :
       LET packet == MQTTSerialize_ack(n, PUBREL, 0, got.packetid) IN
       /\ size' = n /\ len' = packet.rc
       /\ \E stale \in Stale : buf' = Over(packet.bytes, stale)
       /\ pc' = IF packet.rc <= 0 THEN "withheld" ELSE "released"
  /\ UNCHANGED <<request, got, answer>>

ServerCompletes ==
  /\ pc = "released"
  /\ \E stale \in Stale :
       LET ack == MQTTDeserialize_ack(Arrives(stale)) IN
       /\ ack.rc = 1 /\ ack.packettype = PUBREL
       /\ \E n \in Sizes :
            Answers([rc |-> 1, packettype |-> PUBCOMP, dup |-> 0,
                     packetid |-> request.packetid],
                    n, MQTTSerialize_ack(n, PUBCOMP, 0, ack.packetid))

Finished ==
  \/ pc \in {"refused", "withheld"} \/ (pc = "answered" /\ len > size)
  \/ /\ pc = "read"
     /\ \/ got.rc # 1 \/ request.type = DISCONNECT
        \/ (request.type = PUBLISH /\ got.qos = 0)
  \/ /\ pc = "confirmed"
     /\ ~(request.type = PUBLISH /\ got.packettype = PUBREC)

\* The next request finds nothing but the buffers' bytes of this one.
Again ==
  /\ Finished
  /\ pc' = "idle" /\ request' = Nothing /\ size' = 0 /\ len' = 0
  /\ buf' = << >> /\ got' = Nothing /\ answer' = Nothing

Next ==
  \/ Connect \/ Publish \/ Subscribe \/ Unsubscribe \/ Ping \/ Disconnect
  \/ ServerReads \/ ServerAnswers \/ ClientReads \/ Release \/ ServerCompletes
  \/ Again

Spec == Init /\ [][Next]_vars
-----------------------------------------------------------------------------
\* Packets that only a server writes: CONNACK, SUBACK and UNSUBACK.  Before these
\* only the rest is measured against the buffer, without the header and the
\* remaining length: the packet may end that many bytes behind it.
OfServer == pc = "answered" /\ request.type \in {CONNECT, SUBSCRIBE, UNSUBSCRIBE}

\* The result of a function that serialises is the length of what it wrote and
\* the length that the packet itself announces, which the library computes
\* separately.  Every packet that the client writes, and every acknowledgement,
\* ends within the buffer; a CONNACK, SUBACK or UNSUBACK need not, and exceeds
\* it by no more than its header and remaining length.
LengthsAgree ==
  pc \in {"sent", "answered", "released"} =>
    /\ len = Rest(buf).end - 1
    /\ IF OfServer THEN Rest(buf).end - Rest(buf).at <= size ELSE len <= size

\* A request is refused only if the buffer has no byte more than it needs, even
\* where MQTTPacket_len counts one byte too many.  What it needs is what it has
\* in a buffer twice as long as the largest, unless it is too long for that.
FillsUp(r, buflen) ==
  LET needed == Serialized(r, 2 * Capacity).rc IN needed > 0 => buflen <= needed
RefusedOnlyWhenFull == pc = "refused" => FillsUp(request, size)

\* Names and passwords that the server does not take: a password without a
\* name, and an empty string at the packet's end.
Unacceptable(o) ==
  \/ o.password.given /\ ~o.username.given
  \/ o.password = MQTTString(<< >>)
  \/ o.username = MQTTString(<< >>) /\ ~o.password.given

\* What a server is to read from a request.
Fields(r) == [f \in (DOMAIN r \ {"type", "MQTTVersion"}) \cup {"rc"} |->
                IF f = "rc" THEN 1 ELSE r[f]]

\* The server reads every field of a request as it was given, whatever the
\* lengths of its strings and whatever an earlier packet left in the buffers;
\* it turns down a connection only for its name or password.
RequestUnderstood ==
  pc = "read" =>
    IF request.type = CONNECT /\ Unacceptable(request)
      THEN got = [rc |-> 0]
      ELSE got = Fields(request)

\* The client reads the answer that was given, with the id of its own request,
\* through the whole handshake of QoS 2.
AnswerUnderstood == pc = "confirmed" => got = answer
=============================================================================
