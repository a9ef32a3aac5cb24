-------------------------- MODULE MCPacketExchange --------------------------
(* Finite instances of PacketExchange for TLC.                             *)
EXTENDS PacketExchange

\* A string of n characters, all different from their neighbours.
Text(n) == MQTTString([i \in 1..n |-> i % Byte])

MCSizes == {1, 2, 3, 4, 5, 6, 15, 16, 17, 18, 19, 20, 64, 65, 66, 67, 68, 69, 80}
MCStale == {0, 2 * Byte - 1}

MCConnectOptions ==
  [type : {CONNECT}, MQTTVersion : {3, 4}, clientID : {Text(0), Text(2)},
   keepAliveInterval : {Byte + 3}, cleansession : {0, 1}, willFlag : {0}, willQoS : {0},
   willRetain : {0}, topicName : {NullString}, message : {NullString},
   username : {NullString, Text(0), Text(1)},
   password : {NullString, Text(0), Text(1)}]
  \cup
  [type : {CONNECT}, MQTTVersion : {4}, clientID : {Text(2)},
   keepAliveInterval : {60}, cleansession : {1}, willFlag : {1}, willQoS : 0..2,
   willRetain : {0, 1}, topicName : {Text(1)}, message : {Text(0), Text(2)},
   username : {NullString, Text(1)}, password : {NullString, Text(1)}]

\* Lengths on both sides of those that need one more digit.
MCPublishes ==
  {m \in [type : {PUBLISH}, dup : {0, 1}, qos : 0..2, retained : {0, 1},
          packetid : {0, 1, Byte + 2}, topicName : {Text(1), Text(3)},
          payload : {Text(n).chars : n \in {0, 9, 10, 11, 12, 13, 56, 57, 58, 59, 60, 61}}] :
     m.packetid = 0 <=> m.qos = 0}

MCFilters == {<<Text(1)>>, <<Text(9)>>, <<Text(2), Text(7)>>}
MCSubscribes ==
  UNION {[type : {SUBSCRIBE}, dup : {0}, packetid : {1, Byte + 2}, topicFilters : {f},
          requestedQoSs : [DOMAIN f -> 0..2]] : f \in MCFilters}
MCUnsubscribes ==
  [type : {UNSUBSCRIBE}, dup : {0}, packetid : {1, Byte + 2}, topicFilters : MCFilters]
=============================================================================
