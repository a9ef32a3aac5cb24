----------------------------- MODULE MqttPacket -----------------------------
(***************************************************************************)
(* The packet library: what its functions write into a buffer, and what    *)
(* they read back from one.  Bytes are numbers, strings are sequences of   *)
(* them.  Radix is the base of the remaining length (128) and half the     *)
(* base of an integer of two bytes (256); the bits of the header and of    *)
(* the connect flags are where they are in the code.                       *)
(*                                                                         *)
(* A function that serialises is a record of its result and of the bytes   *)
(* it writes from the start of the buffer on; one that deserialises is a   *)
(* record of its result and of what it returns through its pointers.       *)
(***************************************************************************)
EXTENDS Integers, Sequences

CONSTANT Radix

\* The length of an acknowledgement has one digit.
ASSUME RadixAssumption == Radix \in Nat \ {0, 1, 2}

Byte == 2 * Radix

MQTTPACKET_BUFFER_TOO_SHORT == -2
MAX_NO_OF_REMAINING_LENGTH_BYTES == 4

CONNECT == 1
CONNACK == 2
PUBLISH == 3
PUBACK == 4
PUBREC == 5
PUBREL == 6
PUBCOMP == 7
SUBSCRIBE == 8
SUBACK == 9
UNSUBSCRIBE == 10
UNSUBACK == 11
PINGREQ == 12
PINGRESP == 13
DISCONNECT == 14

\* The union MQTTHeader, and the field of a byte that has this weight and this
\* many values.
MQTTHeader(type, dup, qos, retain) == 16 * type + 8 * dup + 2 * qos + retain
Bits(b, weight, values) == (b \div weight) % values
HeaderType(buf) == Bits(buf[1], 16, 16)

\* An MQTTString, and one whose pointers are NULL.
MQTTString(chars) == [given |-> TRUE, chars |-> chars]
NullString == [given |-> FALSE, chars |-> << >>]
-----------------------------------------------------------------------------
(* Faulty variants of definitions below, for the properties to find.       *)

\* Room is asked for the longest remaining length.
LenOfFourDigits(rem_len) == rem_len + 1 + MAX_NO_OF_REMAINING_LENGTH_BYTES

\* The packet id of QoS 1 is not counted.
PublishLengthQos2(qos, topicName, payloadlen) ==
  2 + Len(topicName.chars) + payloadlen + (IF qos > 1 THEN 2 ELSE 0)

\* The flags of a will say that there is one, and nothing more.
ConnectFlagsBareWill(options) ==
  2 * options.cleansession + 4 * options.willFlag
    + (IF options.password.given THEN 64 ELSE 0)
    + (IF options.username.given THEN 128 ELSE 0)
-----------------------------------------------------------------------------
(* The parts of packets.                                                   *)

\* MQTTPacket_encode: the remaining length, the least digit first, with the top
\* bit set on all but the last.
MQTTPacket_encode(length) ==
  LET Digits[n \in 0..length] ==
        IF n < Radix THEN <<n>> ELSE <<Radix + (n % Radix)>> \o Digits[n \div Radix]
  IN Digits[length]

\* MQTTPacket_decodeBuf: the value, and how many bytes the caller skips.
MQTTPacket_decodeBuf(buf, at) ==
  LET Last(i)  == i > MAX_NO_OF_REMAINING_LENGTH_BYTES \/ buf[at + i - 1] < Radix
      bytes    == CHOOSE i \in 1..(MAX_NO_OF_REMAINING_LENGTH_BYTES + 1) :
                    Last(i) /\ \A j \in 1..(i - 1) : ~Last(j)
      Digit(i) == IF i <= bytes THEN buf[at + i - 1] % Radix ELSE 0
  IN [bytes |-> bytes,
      value |-> Digit(1) + Digit(2) * Radix + Digit(3) * (Radix * Radix)
                  + Digit(4) * (Radix * Radix * Radix)]

\* The length of a packet with this remaining length, for the buffer's check.
MQTTPacket_len(rem_len) ==
  rem_len + 1 + (IF rem_len + 1 < Radix THEN 1
                 ELSE IF rem_len + 1 < Radix * Radix THEN 2
                 ELSE IF rem_len + 1 < Radix * Radix * Radix - 1 THEN 3 ELSE 4)

writeInt(anInt) == <<(anInt \div Byte) % Byte, anInt % Byte>>
readInt(buf, at) == Byte * buf[at] + buf[at + 1]

writeCString(chars) == writeInt(Len(chars)) \o chars
writeMQTTString(s) == IF s.given THEN writeCString(s.chars) ELSE writeInt(0)
MQTTstrlen(s) == Len(s.chars)

\* The string that starts at a place of the buffer, if it ends before `end`, and
\* the place behind it.
Behind(buf, at) == at + 2 + readInt(buf, at)
readMQTTLenString(buf, at, end) ==
  IF end - at > 1 /\ Behind(buf, at) <= end
    THEN [rc |-> 1, string |-> MQTTString(SubSeq(buf, at + 2, Behind(buf, at) - 1)),
          next |-> Behind(buf, at)]
    ELSE [rc |-> 0, string |-> NullString, next |-> at]

\* Where the rest of a packet starts and where it ends.
Rest(buf) ==
  LET length == MQTTPacket_decodeBuf(buf, 2) IN
  [at |-> 2 + length.bytes, end |-> 2 + length.bytes + length.value]

Refused == [rc |-> MQTTPACKET_BUFFER_TOO_SHORT, bytes |-> << >>]
Packet(header, rest, rem_len) ==
  LET bytes == <<header>> \o MQTTPacket_encode(rem_len) \o rest
  IN [rc |-> Len(bytes), bytes |-> bytes]

\* What the functions return when the rest is too short: the number of bytes of
\* the remaining length, which their rc holds by then.
Failed(buf) == [rc |-> MQTTPacket_decodeBuf(buf, 2).bytes]
OtherType == [rc |-> 0]
-----------------------------------------------------------------------------
(* The client's side of the library.                                       *)

ConnectLength(options) ==
  LET Counted(s) == IF s.given THEN MQTTstrlen(s) + 2 ELSE 0 IN
  (IF options.MQTTVersion = 3 THEN 12 ELSE 10)
    + MQTTstrlen(options.clientID) + 2
    + (IF options.willFlag = 0 THEN 0
       ELSE MQTTstrlen(options.topicName) + 2 + MQTTstrlen(options.message) + 2)
    + Counted(options.username) + Counted(options.password)

ConnectFlags(options) ==
  2 * options.cleansession
    + options.willFlag * (4 + 8 * options.willQoS + 32 * options.willRetain)
    + (IF options.password.given THEN 64 ELSE 0)
    + (IF options.username.given THEN 128 ELSE 0)

\* The protocol's names; the first two characters are the same.
MQTT == <<0, 1, 2, 2>>
MQIsdp == <<0, 1, 3, 4, 5, 6>>

MQTTSerialize_connect(buflen, options) ==
  LET Given(s) == IF s.given THEN writeMQTTString(s) ELSE << >>
      rest == (IF options.MQTTVersion = 4 THEN writeCString(MQTT) \o <<4>>
                                          ELSE writeCString(MQIsdp) \o <<3>>)
              \o <<ConnectFlags(options)>>
              \o writeInt(options.keepAliveInterval)
              \o writeMQTTString(options.clientID)
              \o (IF options.willFlag = 0 THEN << >>
                  ELSE writeMQTTString(options.topicName)
                         \o writeMQTTString(options.message))
              \o Given(options.username) \o Given(options.password)
  IN IF MQTTPacket_len(ConnectLength(options)) > buflen
       THEN Refused
       ELSE Packet(MQTTHeader(CONNECT, 0, 0, 0), rest, ConnectLength(options))

PublishLength(qos, topicName, payloadlen) ==
  2 + MQTTstrlen(topicName) + payloadlen + (IF qos > 0 THEN 2 ELSE 0)

MQTTSerialize_publish(buflen, m) ==
  LET length == PublishLength(m.qos, m.topicName, Len(m.payload))
      id     == IF m.qos > 0 THEN writeInt(m.packetid) ELSE << >>
  IN IF MQTTPacket_len(length) > buflen
       THEN Refused
       ELSE Packet(MQTTHeader(PUBLISH, m.dup, m.qos, m.retained),
                   writeMQTTString(m.topicName) \o id \o m.payload, length)

MQTTSerialize_ack(buflen, packettype, dup, packetid) ==
  IF buflen < 4 THEN Refused
  ELSE Packet(MQTTHeader(packettype, dup, IF packettype = PUBREL THEN 1 ELSE 0, 0),
              writeInt(packetid), 2)

\* The length of a packet id and a list of filters, with so many bytes behind each;
\* the filters as they are written, with these bytes behind each.
ListLength(topicFilters, each) ==
  LET Length[i \in 0..Len(topicFilters)] ==
        IF i = 0 THEN 2 ELSE Length[i - 1] + 2 + MQTTstrlen(topicFilters[i]) + each
  IN Length[Len(topicFilters)]
writeFilters(topicFilters, behind) ==
  LET Written[i \in 0..Len(topicFilters)] ==
        IF i = 0 THEN << >>
        ELSE Written[i - 1] \o (writeMQTTString(topicFilters[i]) \o behind[i])
  IN Written[Len(topicFilters)]

SubscribeLength(topicFilters) == ListLength(topicFilters, 1)

MQTTSerialize_subscribe(buflen, s) ==
  LET qos    == [i \in DOMAIN s.topicFilters |-> <<s.requestedQoSs[i]>>]
      length == SubscribeLength(s.topicFilters)
  IN IF MQTTPacket_len(length) > buflen
       THEN Refused
       ELSE Packet(MQTTHeader(SUBSCRIBE, s.dup, 1, 0),
                   writeInt(s.packetid) \o writeFilters(s.topicFilters, qos), length)

UnsubscribeLength(topicFilters) == ListLength(topicFilters, 0)

MQTTSerialize_unsubscribe(buflen, u) ==
  LET nothing == [i \in DOMAIN u.topicFilters |-> << >>]
      length  == UnsubscribeLength(u.topicFilters)
  IN IF MQTTPacket_len(length) > buflen
       THEN Refused
       ELSE Packet(MQTTHeader(UNSUBSCRIBE, u.dup, 1, 0),
                   writeInt(u.packetid) \o writeFilters(u.topicFilters, nothing), length)

\* MQTTSerialize_pingreq and MQTTSerialize_disconnect.
MQTTSerialize_zero(buflen, packettype) ==
  IF buflen < 2 THEN Refused ELSE Packet(MQTTHeader(packettype, 0, 0, 0), << >>, 0)

MQTTDeserialize_ack(buf) ==
  LET rest == Rest(buf) IN
  IF rest.end - rest.at < 2 THEN Failed(buf)
  ELSE [rc |-> 1, packettype |-> HeaderType(buf), dup |-> Bits(buf[1], 8, 2),
        packetid |-> readInt(buf, rest.at)]

\* The session present flag is the top bit of its byte in this layout.
MQTTDeserialize_connack(buf) ==
  LET rest == Rest(buf) IN
  IF HeaderType(buf) # CONNACK THEN OtherType
  ELSE IF rest.end - rest.at < 2 THEN Failed(buf)
  ELSE [rc |-> 1, sessionPresent |-> Bits(buf[rest.at], 128, 2),
        connack_rc |-> buf[rest.at + 1]]

\* The loop stops when it has read more codes than maxcount.
MQTTDeserialize_suback(maxcount, buf) ==
  LET rest  == Rest(buf)
      count == rest.end - rest.at - 2
  IN IF HeaderType(buf) # SUBACK THEN OtherType
     ELSE IF count < 0 THEN Failed(buf)
     ELSE IF count > maxcount + 1 THEN [rc |-> -1]
     ELSE [rc |-> 1, packetid |-> readInt(buf, rest.at),
           grantedQoSs |-> SubSeq(buf, rest.at + 2, rest.end - 1)]

\* The result of an UNSUBACK is 1, whatever its rest; another type is read as an
\* acknowledgement.
MQTTDeserialize_unsuback(buf) ==
  LET ack == MQTTDeserialize_ack(buf) IN
  IF HeaderType(buf) = UNSUBACK THEN [ack EXCEPT !.rc = 1] ELSE ack

\* A message that arrives; MQTTPublish's is read the same way by a broker.
MQTTDeserialize_publish(buf) ==
  LET rest  == Rest(buf)
      qos   == Bits(buf[1], 2, 4)
      topic == readMQTTLenString(buf, rest.at, rest.end)
      at    == topic.next + (IF qos > 0 THEN 2 ELSE 0)
  IN IF HeaderType(buf) # PUBLISH THEN OtherType
     ELSE IF topic.rc = 0 THEN Failed(buf)
     ELSE [rc |-> 1, dup |-> Bits(buf[1], 8, 2), qos |-> qos, retained |-> Bits(buf[1], 1, 2),
           packetid |-> IF qos > 0 THEN readInt(buf, topic.next) ELSE 0,
           topicName |-> topic.string, payload |-> SubSeq(buf, at, rest.end - 1)]
=============================================================================
