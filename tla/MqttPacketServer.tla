-------------------------- MODULE MqttPacketServer --------------------------
(* The server's side of the packet library.                                *)
EXTENDS MqttPacket
-----------------------------------------------------------------------------
\* As many characters are compared as the packet has, at most the whole name.
MQTTPacket_checkVersion(protocol, version) ==
  LET StartsAs(name) ==
        LET n == IF Len(name) < Len(protocol.chars) THEN Len(name) ELSE Len(protocol.chars) IN
        SubSeq(protocol.chars, 1, n) = SubSeq(name, 1, n)
  IN \/ version = 3 /\ StartsAs(MQIsdp)
     \/ version = 4 /\ StartsAs(MQTT)

\* The strings follow each other, those that the flags announce; a name and a
\* password have at least one character.
MQTTDeserialize_connect(buf, len) ==
  LET end      == len + 1
      protocol == readMQTTLenString(buf, Rest(buf).at, end)
      at       == protocol.next
      Flag(weight) == Bits(buf[at + 1], weight, 2)
      client   == readMQTTLenString(buf, at + 4, end)
      topic    == readMQTTLenString(buf, client.next, end)
      message  == readMQTTLenString(buf, topic.next, end)
      behind   == IF Flag(4) = 1 THEN message.next ELSE client.next
      user     == readMQTTLenString(buf, behind, end)
      pass     == readMQTTLenString(buf, user.next, end)
      Supplied(s, start) == end - start >= 3 /\ s.rc = 1
  IN IF /\ HeaderType(buf) = CONNECT
        /\ protocol.rc = 1
        /\ MQTTPacket_checkVersion(protocol.string, buf[at])
        /\ client.rc = 1
        /\ Flag(4) = 1 => topic.rc = 1 /\ message.rc = 1
        /\ Flag(128) = 1 => Supplied(user, behind)
        /\ Flag(64) = 1 => Flag(128) = 1 /\ Supplied(pass, user.next)
       THEN [rc |-> 1, cleansession |-> Flag(2), keepAliveInterval |-> readInt(buf, at + 2),
             clientID |-> client.string, willFlag |-> Flag(4),
             willQoS |-> IF Flag(4) = 1 THEN Bits(buf[at + 1], 8, 4) ELSE 0,
             willRetain |-> IF Flag(4) = 1 THEN Flag(32) ELSE 0,
             topicName |-> IF Flag(4) = 1 THEN topic.string ELSE NullString,
             message |-> IF Flag(4) = 1 THEN message.string ELSE NullString,
             username |-> IF Flag(128) = 1 THEN user.string ELSE NullString,
             password |-> IF Flag(64) = 1 THEN pass.string ELSE NullString]
       ELSE [rc |-> 0]

MQTTSerialize_connack(buflen, connack_rc, sessionPresent) ==
  IF buflen < 2 THEN Refused
  ELSE Packet(MQTTHeader(CONNACK, 0, 0, 0), <<128 * sessionPresent, connack_rc>>, 2)

\* The filters from a place on, one in each turn of the loop; QoS bytes follow
\* them in a SUBSCRIBE only.
Filters(buf, start, end, withQoS) ==
  LET Turn(list) ==
        LET filter == readMQTTLenString(buf, list.at, end) IN
        IF ~list.ok \/ list.at >= end THEN list
        ELSE IF filter.rc = 0 \/ (withQoS /\ filter.next >= end)
               THEN [list EXCEPT !.ok = FALSE]
        ELSE [ok |-> TRUE, at |-> filter.next + (IF withQoS THEN 1 ELSE 0),
              filters |-> Append(list.filters, filter.string),
              qos |-> IF withQoS THEN Append(list.qos, buf[filter.next]) ELSE list.qos]
      Loop[k \in 0..end] ==
        IF k = 0 THEN [ok |-> TRUE, at |-> start, filters |-> << >>, qos |-> << >>]
        ELSE Turn(Loop[k - 1])
  IN Loop[end]

MQTTDeserialize_subscribe(buf) ==
  LET rest == Rest(buf)
      list == Filters(buf, rest.at + 2, rest.end, TRUE)
  IN IF HeaderType(buf) # SUBSCRIBE THEN [rc |-> -1]
     ELSE IF ~list.ok THEN Failed(buf)
     ELSE [rc |-> 1, dup |-> Bits(buf[1], 8, 2), packetid |-> readInt(buf, rest.at),
           topicFilters |-> list.filters, requestedQoSs |-> list.qos]

MQTTDeserialize_unsubscribe(buf) ==
  LET rest == Rest(buf)
      list == Filters(buf, rest.at + 2, rest.end, FALSE)
  IN IF HeaderType(buf) # UNSUBSCRIBE THEN OtherType
     ELSE IF ~list.ok THEN Failed(buf)
     ELSE [rc |-> 1, dup |-> Bits(buf[1], 8, 2), packetid |-> readInt(buf, rest.at),
           topicFilters |-> list.filters]

MQTTSerialize_suback(buflen, packetid, grantedQoSs) ==
  IF buflen < 2 + Len(grantedQoSs) THEN Refused
  ELSE Packet(MQTTHeader(SUBACK, 0, 0, 0), writeInt(packetid) \o grantedQoSs,
              2 + Len(grantedQoSs))

MQTTSerialize_unsuback(buflen, packetid) ==
  IF buflen < 2 THEN Refused
  ELSE Packet(MQTTHeader(UNSUBACK, 0, 0, 0), writeInt(packetid), 2)
=============================================================================
