-------------------------- MODULE MqttClientProofs --------------------------
(***************************************************************************)
(* Theorems about MqttClient, for every largest packet id, every set of    *)
(* levels of service and every number of calls, messages, connections and  *)
(* pings.                                                                  *)
(***************************************************************************)
EXTENDS MqttClient, SequenceTheorems, TLAPS

(* Sequences of packets, of which some are in a set S.                     *)

None(s, S) == \A i \in DOMAIN s : s[i] \notin S
AtMostOne(s, S) == \A i, j \in DOMAIN s : s[i] \in S /\ s[j] \in S => i = j

\* One packet more.
LEMMA Longer ==
  ASSUME NEW T, NEW s \in Seq(T), NEW e \in T
  PROVE  /\ Append(s, e) \in Seq(T)
         /\ DOMAIN Append(s, e) = 1..(Len(s) + 1)
         /\ DOMAIN s = 1..Len(s) /\ Len(s) \in Nat
         /\ \A i \in 1..Len(s) : Append(s, e)[i] = s[i]
         /\ Append(s, e)[Len(s) + 1] = e
OBVIOUS

\* One packet less.
LEMMA Shorter ==
  ASSUME NEW T, NEW s \in Seq(T), s # << >>
  PROVE  /\ Tail(s) \in Seq(T)
         /\ Head(s) = s[1] /\ Head(s) \in T
         /\ DOMAIN Tail(s) = 1..(Len(s) - 1)
         /\ DOMAIN s = 1..Len(s) /\ Len(s) \in Nat /\ 1 \in DOMAIN s
         /\ \A i \in 1..(Len(s) - 1) : Tail(s)[i] = s[i + 1]
OBVIOUS

\* What one packet more makes of the number of packets in S.
LEMMA CountLonger ==
  ASSUME NEW T, NEW s \in Seq(T), NEW e \in T, NEW S
  PROVE  /\ e \notin S /\ None(s, S) => None(Append(s, e), S)
         /\ e \notin S /\ AtMostOne(s, S) => AtMostOne(Append(s, e), S)
         /\ None(s, S) => AtMostOne(Append(s, e), S)
         /\ \A i \in DOMAIN Append(s, e) :
              Append(s, e)[i] = e \/ \E j \in DOMAIN s : Append(s, e)[i] = s[j]
<1> DEFINE t == Append(s, e)
<1>1. /\ DOMAIN t = 1..(Len(s) + 1) /\ DOMAIN s = 1..Len(s) /\ Len(s) \in Nat
      /\ \A i \in 1..Len(s) : t[i] = s[i]
      /\ t[Len(s) + 1] = e
  BY Longer
<1> HIDE DEF t
<1>2. \A i \in DOMAIN t : \/ i \in DOMAIN s /\ t[i] = s[i]
                          \/ i = Len(s) + 1 /\ t[i] = e
  BY <1>1
<1>3. e \notin S /\ None(s, S) => None(t, S)
  BY <1>2 DEF None
<1>4. e \notin S /\ AtMostOne(s, S) => AtMostOne(t, S)
  BY <1>2 DEF AtMostOne
<1>5. None(s, S) => AtMostOne(t, S)
  BY <1>2 DEF None, AtMostOne
<1>6. \A i \in DOMAIN t : t[i] = e \/ \E j \in DOMAIN s : t[i] = s[j]
  BY <1>2
<1> QED BY <1>3, <1>4, <1>5, <1>6 DEF t

\* What one packet less makes of it.
LEMMA CountShorter ==
  ASSUME NEW T, NEW s \in Seq(T), s # << >>, NEW S
  PROVE  /\ None(s, S) => None(Tail(s), S)
         /\ AtMostOne(s, S) => AtMostOne(Tail(s), S)
         /\ AtMostOne(s, S) /\ Head(s) \in S => None(Tail(s), S)
         /\ \A i \in DOMAIN Tail(s) : \E j \in DOMAIN s : Tail(s)[i] = s[j]
<1> DEFINE t == Tail(s)
<1>1. /\ Head(s) = s[1] /\ 1 \in DOMAIN s
      /\ DOMAIN t = 1..(Len(s) - 1) /\ DOMAIN s = 1..Len(s) /\ Len(s) \in Nat
      /\ \A i \in 1..(Len(s) - 1) : t[i] = s[i + 1]
  BY Shorter
<1> HIDE DEF t
<1>2. \A i \in DOMAIN t : i \in Nat /\ i # 0 /\ i + 1 \in DOMAIN s /\ t[i] = s[i + 1]
  BY <1>1
<1>3. None(s, S) => None(t, S)
  BY <1>2 DEF None
<1>4. AtMostOne(s, S) => AtMostOne(t, S)
  <2> SUFFICES ASSUME AtMostOne(s, S), NEW i \in DOMAIN t, NEW j \in DOMAIN t,
                      t[i] \in S, t[j] \in S
               PROVE  i = j
    BY DEF AtMostOne
  <2>1. i + 1 = j + 1
    BY <1>2 DEF AtMostOne
  <2> QED BY <1>2, <2>1
<1>5. AtMostOne(s, S) /\ Head(s) \in S => None(t, S)
  <2> SUFFICES ASSUME AtMostOne(s, S), s[1] \in S, NEW i \in DOMAIN t, t[i] \in S
               PROVE  FALSE
    BY <1>1 DEF None
  <2>1. i + 1 = 1
    BY <1>1, <1>2 DEF AtMostOne
  <2> QED BY <1>2, <2>1
<1>6. \A i \in DOMAIN t : \E j \in DOMAIN s : t[i] = s[j]
  BY <1>2
<1> QED BY <1>3, <1>4, <1>5, <1>6 DEF t
-----------------------------------------------------------------------------
(* Types.  What is on its way to the broker is a packet the client sends,  *)
(* of which only PUBLISH carries a message, and so for the client.         *)

Plain(types) == [type : types, id : Nat, qos : {0}, n : {0}]
Messages(max) == [type : {"PUBLISH"}, id : Nat, qos : 0..2, n : 1..max]

ToBroker ==
  Messages(MaxCalls) \cup Plain({"CONNECT", "SUBSCRIBE", "UNSUBSCRIBE", "PUBACK",
                                 "PUBREC", "PUBREL", "PINGREQ", "DISCONNECT"})
ToClient ==
  Messages(MaxInbound) \cup Plain({"CONNACK", "SUBACK", "UNSUBACK", "PUBACK",
                                   "PUBREC", "PUBREL", "PUBCOMP", "PINGRESP"})

WireOK ==
  /\ toBroker \in Seq(ToBroker) /\ toClient \in Seq(ToClient)
  /\ held \subseteq Messages(MaxCalls)
  /\ call.op = "publish" => call.n \in 1..MaxCalls

\* The scalars: what TypeOK says besides of the packets.
ScalarsOK ==
  /\ isconnected \in BOOLEAN /\ ping_outstanding \in BOOLEAN
  /\ next_packetid \in 1..MaxPacketId /\ handler \in BOOLEAN
  /\ expired \in BOOLEAN /\ ping_expired \in BOOLEAN /\ link \in BOOLEAN
  /\ subscribed \in BOOLEAN /\ sent \in 0..MaxInbound
  /\ calls \in 0..MaxCalls /\ connections \in 0..MaxConnections
  /\ pings \in 0..MaxPings
  /\ gaveUp \in BOOLEAN

ControlOK ==
  /\ pc \in {"idle", "check", "read"}
  /\ call \in [op : {"none", "connect", "subscribe", "unsubscribe", "publish", "yield"},
               qos : 0..2, n : 0..MaxCalls]

HistoryOK ==
  /\ claims \subseteq 1..MaxCalls /\ got \subseteq 1..MaxCalls
  /\ handled \subseteq 1..MaxInbound /\ acked \subseteq 1..MaxInbound
  /\ early \subseteq 1..MaxInbound

TypeInv == WireOK /\ ScalarsOK /\ ControlOK /\ HistoryOK

\* Packets are packets.
LEMMA PacketsAre ==
  /\ ToBroker \subseteq Packets /\ ToClient \subseteq Packets
  /\ Messages(MaxCalls) \subseteq Packets
<1>1. \A m \in Nat : Messages(m) \subseteq Packets
  BY DEF Messages, Packets, PacketTypes
<1>2. \A T \in SUBSET PacketTypes : Plain(T) \subseteq Packets
  BY DEF Plain, Packets
<1>3. /\ {"CONNECT", "SUBSCRIBE", "UNSUBSCRIBE", "PUBACK", "PUBREC", "PUBREL",
          "PINGREQ", "DISCONNECT"} \subseteq PacketTypes
      /\ {"CONNACK", "SUBACK", "UNSUBACK", "PUBACK", "PUBREC", "PUBREL", "PUBCOMP",
          "PINGRESP"} \subseteq PacketTypes
  BY DEF PacketTypes
<1> QED BY <1>1, <1>2, <1>3, ClientAssumption DEF ToBroker, ToClient

\* The invariant says at least what the type invariant does.
LEMMA TypeInvTypes == TypeInv => TypeOK
<1> SUFFICES ASSUME TypeInv PROVE TypeOK
  OBVIOUS
<1>1. toBroker \in Seq(Packets) /\ toClient \in Seq(Packets)
  BY PacketsAre DEF TypeInv, WireOK
<1>2. held \subseteq Packets
  BY PacketsAre DEF TypeInv, WireOK
<1> QED BY <1>1, <1>2 DEF TypeInv, ScalarsOK, ControlOK, HistoryOK, TypeOK

\* What the packets are made of.
LEMMA PacketFields ==
  /\ \A T : \A t \in T, i \in Nat : [type |-> t, id |-> i, qos |-> 0, n |-> 0] \in Plain(T)
  /\ \A p \in ToBroker : /\ p.id \in Nat /\ p.qos \in 0..2
                         /\ p.type = "PUBLISH" => p.n \in 1..MaxCalls
  /\ \A p \in ToClient : /\ p.id \in Nat /\ p.qos \in 0..2
                         /\ p.type = "PUBLISH" => p.n \in 1..MaxInbound
BY DEF Plain, Messages, ToBroker, ToClient

\* The packets the client and the broker send.
LEMMA SentPackets ==
  /\ \A t \in {"CONNECT", "SUBSCRIBE", "UNSUBSCRIBE", "PUBACK", "PUBREC", "PUBREL",
               "PINGREQ", "DISCONNECT"} : \A i \in Nat : Packet(t, i) \in ToBroker
  /\ \A t \in {"CONNACK", "SUBACK", "UNSUBACK", "PUBACK", "PUBREC", "PUBREL",
               "PUBCOMP", "PINGRESP"} : \A i \in Nat : Packet(t, i) \in ToClient
  /\ \A q \in 0..2, i \in Nat, m \in 1..MaxCalls : Message(q, i, m) \in ToBroker
  /\ \A q \in 0..2, i \in Nat, m \in 1..MaxInbound : Message(q, i, m) \in ToClient
BY PacketFields DEF ToBroker, ToClient, Packet, Message, Messages

\* What a packet says of itself.
LEMMA PacketIs ==
  ASSUME NEW t, NEW i, NEW q, NEW m
  PROVE  /\ Packet(t, i).type = t /\ Packet(t, i).id = i
         /\ Message(q, i, m).type = "PUBLISH" /\ Message(q, i, m).qos = q
         /\ Message(q, i, m).id = i /\ Message(q, i, m).n = m
BY DEF Packet, Message

\* What a cycle sends: an answer to what it has read, or a ping, or nothing.
LEMMA CycleSends ==
  ASSUME WireOK, CycleHandles
  PROVE  LET p == Head(toClient)
             outstanding == ping_outstanding /\ p.type # "PINGRESP"
         IN \/ /\ toBroker' = toBroker /\ Replies(p) = << >> /\ p.type # "PUBREC"
               /\ ping_outstanding' = outstanding
            \/ /\ toBroker' = Append(toBroker, Packet("PINGREQ", 0))
               /\ Replies(p) = << >> /\ p.type # "PUBREC"
               /\ ~outstanding /\ ping_outstanding' = TRUE
            \/ /\ p.type = "PUBLISH" /\ ping_outstanding' = outstanding
               /\ \/ p.qos = 1 /\ toBroker' = Append(toBroker, Packet("PUBACK", p.id))
                  \/ p.qos = 2 /\ toBroker' = Append(toBroker, Packet("PUBREC", p.id))
            \/ /\ p.type = "PUBREC" /\ toBroker' = Append(toBroker, Packet("PUBREL", p.id))
               /\ ping_outstanding' = outstanding
<1> DEFINE p == Head(toClient)
           outstanding == ping_outstanding /\ p.type # "PINGRESP"
           ping == Ping(outstanding, Replies(p))
<1>1. /\ toBroker' = toBroker \o Replies(p) \o ping
      /\ ping_outstanding' = (outstanding \/ ping # << >>)
  BY DEF CycleHandles
<1>2. toBroker \in Seq(ToBroker)
  BY DEF WireOK
<1>3. p \in ToClient
  <2>1. toClient # << >> /\ toClient \in Seq(ToClient)
    BY DEF CycleHandles, WireOK
  <2> QED BY <2>1, Shorter
<1>4. \A e : << >> # <<e>>
  OBVIOUS
<1>5. ASSUME NEW e \in ToBroker
      PROVE  toBroker \o <<e>> = Append(toBroker, e)
  BY <1>2, AppendIsConcat
<1>6. \A s \in Seq(ToBroker) : s \o << >> = s
  BY ConcatEmptySeq
<1>7. ASSUME NEW t \in {"PUBACK", "PUBREC", "PUBREL"}, Replies(p) = <<Packet(t, p.id)>>
      PROVE  /\ toBroker' = Append(toBroker, Packet(t, p.id))
             /\ ping_outstanding' = outstanding
  <2>1. ping = << >>
    BY <1>4, <1>7 DEF Ping
  <2>2. Packet(t, p.id) \in ToBroker
    BY <1>3, PacketFields, SentPackets
  <2>3. toBroker' = Append(toBroker, Packet(t, p.id)) \o << >>
    BY <1>1, <1>5, <1>7, <2>1, <2>2
  <2>4. Append(toBroker, Packet(t, p.id)) \in Seq(ToBroker)
    BY <1>2, <2>2
  <2> QED BY <1>1, <1>6, <2>1, <2>3, <2>4
<1>8. CASE (p.type = "PUBLISH" /\ p.qos \in {1, 2}) \/ p.type = "PUBREC"
  <2>1. CASE p.type = "PUBLISH" /\ p.qos = 1
    <3>1. Replies(p) = <<Packet("PUBACK", p.id)>>
      BY <2>1 DEF Replies
    <3> QED BY <1>7, <2>1, <3>1
  <2>2. CASE p.type = "PUBLISH" /\ p.qos = 2
    <3>1. Replies(p) = <<Packet("PUBREC", p.id)>>
      BY <2>2 DEF Replies
    <3> QED BY <1>7, <2>2, <3>1
  <2>3. CASE p.type = "PUBREC"
    <3>1. Replies(p) = <<Packet("PUBREL", p.id)>>
      BY <2>3 DEF Replies
    <3> QED BY <1>7, <2>3, <3>1
  <2> QED BY <1>8, <2>1, <2>2, <2>3
<1>9. CASE ~(p.type = "PUBLISH" /\ p.qos \in {1, 2}) /\ p.type # "PUBREC"
  <2>1. Replies(p) = << >>
    BY <1>9 DEF Replies
  <2>2. toBroker' = toBroker \o ping
    BY <1>1, <1>2, <1>6, <2>1
  <2>3. CASE ping_expired /\ ~outstanding
    <3>1. ping = <<Packet("PINGREQ", 0)>>
      BY <2>1, <2>3 DEF Ping
    <3>2. Packet("PINGREQ", 0) \in ToBroker
      BY SentPackets
    <3>3. toBroker' = Append(toBroker, Packet("PINGREQ", 0))
      BY <1>5, <2>2, <3>1, <3>2
    <3>4. ping_outstanding' = TRUE
      BY <1>1, <1>4, <3>1
    <3> QED BY <1>9, <2>1, <2>3, <3>3, <3>4
  <2>4. CASE ~(ping_expired /\ ~outstanding)
    <3>1. ping = << >>
      BY <2>4 DEF Ping
    <3>2. toBroker' = toBroker
      BY <1>2, <1>6, <2>2, <3>1
    <3>3. ping_outstanding' = outstanding
      BY <1>1, <3>1
    <3> QED BY <1>9, <2>1, <3>2, <3>3
  <2> QED BY <2>3, <2>4
<1> QED BY <1>8, <1>9

\* A cycle that reads nothing sends a ping or nothing.
LEMMA IdleCycleSends ==
  ASSUME WireOK, ping_outstanding \in BOOLEAN, CycleReadsNothing
  PROVE  \/ toBroker' = toBroker /\ ping_outstanding' = ping_outstanding
         \/ /\ toBroker' = Append(toBroker, Packet("PINGREQ", 0))
            /\ ~ping_outstanding /\ ping_outstanding' = TRUE
<1> DEFINE ping == Ping(ping_outstanding, << >>)
<1>1. /\ toBroker' = toBroker \o ping
      /\ ping_outstanding' = (ping_outstanding \/ ping # << >>)
      /\ toBroker \in Seq(ToBroker)
  BY DEF CycleReadsNothing, WireOK
<1>2. CASE ping_expired /\ ~ping_outstanding
  <2>1. ping = <<Packet("PINGREQ", 0)>>
    BY <1>2 DEF Ping
  <2>2. Packet("PINGREQ", 0) \in ToBroker
    BY SentPackets
  <2>3. toBroker' = Append(toBroker, Packet("PINGREQ", 0))
    BY <1>1, <2>1, <2>2, AppendIsConcat
  <2>4. <<Packet("PINGREQ", 0)>> # << >>
    OBVIOUS
  <2> QED BY <1>1, <1>2, <2>1, <2>3, <2>4
<1>3. CASE ~(ping_expired /\ ~ping_outstanding)
  <2>1. ping = << >>
    BY <1>3 DEF Ping
  <2>2. toBroker' = toBroker
    BY <1>1, <2>1, ConcatEmptySeq
  <2>3. ping_outstanding' = (ping_outstanding \/ FALSE)
    BY <1>1, <2>1
  <2>4. ping_outstanding' = ping_outstanding
    BY <2>3
  <2> QED BY <2>2, <2>4
<1> QED BY <1>2, <1>3

\* The scalars keep their types, whatever is read.
LEMMA ScalarsNext == ScalarsOK /\ WireOK /\ [Next]_vars => ScalarsOK'
<1> SUFFICES ASSUME ScalarsOK, WireOK, [Next]_vars PROVE ScalarsOK'
  OBVIOUS
<1> USE ClientAssumption
<1>0. getNextPacketId \in 1..MaxPacketId
  BY DEF getNextPacketId, ScalarsOK
<1>1. CASE ClientInit
  <2>1. connections' \in 0..MaxConnections
    BY <1>1 DEF ClientInit, ScalarsOK
  <2>2. next_packetid' \in 1..MaxPacketId
    BY <1>1 DEF ClientInit
  <2>3. /\ isconnected' \in BOOLEAN /\ ping_outstanding' \in BOOLEAN /\ handler' \in BOOLEAN
        /\ ping_expired' \in BOOLEAN /\ link' \in BOOLEAN /\ subscribed' \in BOOLEAN
        /\ gaveUp' \in BOOLEAN
    BY <1>1 DEF ClientInit
  <2>4. expired' = expired /\ sent' = sent /\ calls' = calls /\ pings' = pings
    BY <1>1 DEF ClientInit, control
  <2> QED BY <2>1, <2>2, <2>3, <2>4 DEF ScalarsOK
<1>2. ASSUME Counts PROVE calls' \in 0..MaxCalls
  BY <1>2 DEF Counts, ScalarsOK
<1>3. CASE Connect
  BY <1>2, <1>3 DEF Connect, ScalarsOK, Begins, control, client, broker, history
<1>4. CASE Subscribe \/ Unsubscribe
  BY <1>0, <1>2, <1>4 DEF Subscribe, Unsubscribe, ScalarsOK, Begins, Sends, control,
     broker, history
<1>5. ASSUME NEW qos \in Qos, Publish(qos) PROVE ScalarsOK'
  BY <1>0, <1>2, <1>5 DEF Publish, ScalarsOK, Begins, Sends, control, broker, history
<1>6. CASE Yield
  BY <1>6 DEF Yield, ScalarsOK, client, broker, bounds, history
<1>7. CASE Disconnect
  BY <1>2, <1>7 DEF Disconnect, ScalarsOK, Sends, control, broker, history
<1>8. CASE CycleHandles
  <2>1. isconnected' \in BOOLEAN /\ handler' \in BOOLEAN /\ expired' \in BOOLEAN
    BY <1>8 DEF CycleHandles, Finish, Returns, ScalarsOK
  <2>2. ping_outstanding' \in BOOLEAN /\ ping_expired' \in BOOLEAN
    BY <1>8 DEF CycleHandles, ScalarsOK
  <2> QED BY <1>8, <2>1, <2>2 DEF CycleHandles, ScalarsOK, broker, bounds
<1>9. CASE CycleReplyFails
  BY <1>9 DEF CycleReplyFails, Returns, ScalarsOK, client, broker, bounds
<1>10. CASE CycleReadsNothing
  <2>1. ping_outstanding' \in BOOLEAN /\ ping_expired' \in BOOLEAN
    BY <1>10 DEF CycleReadsNothing, ScalarsOK
  <2> QED BY <1>10, <2>1 DEF CycleReadsNothing, ScalarsOK, broker, bounds, history
<1>11. CASE CycleReadFails
  BY <1>11 DEF CycleReadFails, Returns, ScalarsOK, client, broker, bounds, history
<1>12. CASE Check
  BY <1>12 DEF Check, Returns, ScalarsOK, client, broker, bounds
<1>13. CASE TimerExpires
  BY <1>13 DEF TimerExpires, ScalarsOK, client, broker, bounds, history
<1>14. CASE PingTimerExpires
  <2>1. pings' \in 0..MaxPings
    BY <1>14 DEF PingTimerExpires, ScalarsOK
  <2> QED BY <1>14, <2>1 DEF PingTimerExpires, ScalarsOK, client, control, broker, history
<1>15. CASE LinkBreaks \/ BrokerCloses
  BY <1>15 DEF LinkBreaks, BrokerCloses, ScalarsOK, client, control, broker, bounds, history
<1>16. CASE BrokerAnswers
  <2>1. subscribed' \in BOOLEAN
    BY <1>16 DEF BrokerAnswers, ScalarsOK
  <2> QED BY <1>16, <2>1 DEF BrokerAnswers, ScalarsOK, client, control, bounds
<1>17. CASE BrokerTakesSilently
  BY <1>17 DEF BrokerTakesSilently, ScalarsOK, client, control, bounds
<1>18. ASSUME NEW qos \in Qos, BrokerSends(qos) PROVE ScalarsOK'
  <2>1. sent' \in 0..MaxInbound
    BY <1>18 DEF BrokerSends, ScalarsOK
  <2> QED BY <1>18, <2>1 DEF BrokerSends, ScalarsOK, client, control, bounds, history
<1>19. CASE UNCHANGED vars
  BY <1>19 DEF vars, ScalarsOK, client, control, broker, bounds, history
<1> QED BY <1>1, <1>3, <1>4, <1>5, <1>6, <1>7, <1>8, <1>9, <1>10, <1>11, <1>12, <1>13,
           <1>14, <1>15, <1>16, <1>17, <1>18, <1>19 DEF Next, Cycle

\* The answers of the broker, each to its packet.
LEMMA AnswersAre ==
  ASSUME NEW p \in ToBroker, p.type \notin {"PUBACK", "DISCONNECT"},
         ~(p.type = "PUBLISH" /\ p.qos = 0), NEW a \in Answers(p)
  PROVE  /\ a \in ToClient
         /\ \/ p.type = "CONNECT" /\ a.type = "CONNACK"
            \/ p.type = "SUBSCRIBE" /\ a.type = "SUBACK"
            \/ p.type = "UNSUBSCRIBE" /\ a.type = "UNSUBACK"
            \/ p.type = "PUBLISH" /\ p.qos = 1 /\ a.type = "PUBACK"
            \/ p.type = "PUBLISH" /\ p.qos = 2 /\ a.type = "PUBREC" /\ a.id = p.id
            \/ p.type = "PUBREL" /\ a.type = "PUBCOMP"
            \/ p.type = "PUBREC" /\ a.type = "PUBREL"
            \/ p.type = "PINGREQ" /\ a.type = "PINGRESP"
<1> USE SentPackets, PacketIs
<1>0. p.id \in Nat /\ p.qos \in 0..2
  BY PacketFields
<1>1. CASE p.type = "CONNECT"
  <2>1. a \in {Packet("CONNACK", 0), Packet("CONNACK", 5)}
    BY <1>1 DEF Answers
  <2> QED BY <1>1, <2>1
<1>2. CASE p.type = "SUBSCRIBE"
  <2>1. a \in {Packet("SUBACK", 0), Packet("SUBACK", 128)}
    BY <1>2 DEF Answers
  <2> QED BY <1>2, <2>1
<1>3. CASE p.type = "UNSUBSCRIBE"
  <2>1. a = Packet("UNSUBACK", p.id)
    BY <1>3 DEF Answers
  <2> QED BY <1>0, <1>3, <2>1
<1>4. CASE p.type = "PUBLISH"
  <2>1. CASE p.qos = 1
    <3>1. a = Packet("PUBACK", p.id)
      BY <1>4, <2>1 DEF Answers
    <3> QED BY <1>0, <1>4, <2>1, <3>1
  <2>2. CASE p.qos = 2
    <3>1. a = Packet("PUBREC", p.id)
      BY <1>4, <2>2 DEF Answers
    <3> QED BY <1>0, <1>4, <2>2, <3>1
  <2> QED BY <1>0, <1>4, <2>1, <2>2
<1>5. CASE p.type = "PUBREL"
  <2>1. a = Packet("PUBCOMP", p.id)
    BY <1>5 DEF Answers
  <2> QED BY <1>0, <1>5, <2>1
<1>6. CASE p.type = "PUBREC"
  <2>1. a = Packet("PUBREL", p.id)
    BY <1>6 DEF Answers
  <2> QED BY <1>0, <1>6, <2>1
<1>7. CASE p.type = "PINGREQ"
  <2>1. a = Packet("PINGRESP", 0)
    BY <1>7 DEF Answers
  <2> QED BY <1>7, <2>1
<1>8. p.type \in {"CONNECT", "SUBSCRIBE", "UNSUBSCRIBE", "PUBLISH", "PUBREL", "PUBREC",
                  "PINGREQ"}
  BY DEF ToBroker, Plain, Messages
<1> QED BY <1>1, <1>2, <1>3, <1>4, <1>5, <1>6, <1>7, <1>8

\* The broker keeps messages, and hands over the calls' numbers.
LEMMA TakenPackets ==
  ASSUME NEW p \in ToBroker, held \subseteq Messages(MaxCalls), got \subseteq 1..MaxCalls,
         BrokerTakes(p)
  PROVE  held' \subseteq Messages(MaxCalls) /\ got' \subseteq 1..MaxCalls /\ got \subseteq got'
<1>1. CASE p.type = "PUBLISH"
  <2>1. p \in Messages(MaxCalls)
    BY <1>1 DEF ToBroker, Plain
  <2>2. p.n \in 1..MaxCalls
    BY <2>1 DEF Messages
  <2>3. held' = held \cup {p} \/ held' = held
    BY <1>1 DEF BrokerTakes
  <2>4. got' = got \cup {p.n} \/ got' = got
    BY <1>1 DEF BrokerTakes
  <2> QED BY <2>1, <2>2, <2>3, <2>4
<1>2. CASE p.type = "PUBREL"
  <2>1. /\ held' = {m \in held : m.id # p.id}
        /\ got' = got \cup {m.n : m \in {h \in held : h.id = p.id}}
    BY <1>2 DEF BrokerTakes
  <2>2. \A m \in held : m.n \in 1..MaxCalls
    BY DEF Messages
  <2> QED BY <2>1, <2>2
<1>3. CASE p.type \notin {"PUBLISH", "PUBREL"}
  BY <1>3 DEF BrokerTakes
<1> QED BY <1>1, <1>2, <1>3

\* The packet a call or the broker reads.
LEMMA HeadPackets ==
  ASSUME WireOK
  PROVE  /\ toBroker # << >> => Head(toBroker) \in ToBroker /\ Tail(toBroker) \in Seq(ToBroker)
         /\ toClient # << >> => Head(toClient) \in ToClient /\ Tail(toClient) \in Seq(ToClient)
BY Shorter DEF WireOK

\* The call in progress keeps its type.
LEMMA ControlNext == ControlOK /\ ScalarsOK /\ [Next]_vars => ControlOK'
<1> SUFFICES ASSUME ControlOK, ScalarsOK, [Next]_vars PROVE ControlOK'
  OBVIOUS
<1> USE ClientAssumption DEF ControlOK
<1> DEFINE Calls == [op : {"none", "connect", "subscribe", "unsubscribe", "publish", "yield"},
                     qos : 0..2, n : 0..MaxCalls]
<1>0. \A op \in {"none", "connect", "subscribe", "unsubscribe", "publish", "yield"} :
        \A q \in 0..2, m \in 0..MaxCalls : Call(op, q, m) \in Calls
  BY DEF Call
<1>1. \A op \in {"none", "connect", "subscribe", "unsubscribe", "yield"} :
        Call(op, 0, 0) \in Calls
  <2>1. 0 \in 0..2 /\ 0 \in 0..MaxCalls
    OBVIOUS
  <2> HIDE DEF Calls
  <2> QED BY <1>0, <2>1
<1>2. ASSUME Counts PROVE calls' \in 0..MaxCalls
  BY <1>2 DEF Counts, ScalarsOK
<1>3. ASSUME NEW c \in Calls, Begins(c, "check") PROVE ControlOK'
  BY <1>3 DEF Begins, control
<1>4. ASSUME Returns PROVE ControlOK'
  BY <1>1, <1>4 DEF Returns, NoCall
<1>5. CASE Connect
  BY <1>1, <1>3, <1>5 DEF Connect
<1>6. CASE Subscribe \/ Unsubscribe
  BY <1>1, <1>3, <1>6 DEF Subscribe, Unsubscribe
<1>7. ASSUME NEW qos \in Qos, Publish(qos) PROVE ControlOK'
  <2>1. CASE qos = 0
    BY <1>7, <2>1 DEF Publish, control
  <2>2. CASE qos # 0
    <3>1. Begins(Call("publish", qos, calls'), "check") /\ calls' \in 0..MaxCalls
      BY <1>2, <1>7, <2>2 DEF Publish
    <3>2. Call("publish", qos, calls') \in Calls
      BY <1>0, <3>1
    <3> QED BY <1>3, <3>1, <3>2
  <2> QED BY <2>1, <2>2
<1>8. CASE Yield
  BY <1>1, <1>8 DEF Yield
<1>9. CASE CycleHandles
  BY <1>4, <1>9 DEF CycleHandles, Finish
<1>10. CASE CycleReplyFails \/ CycleReadsNothing \/ CycleReadFails \/ Check
  BY <1>4, <1>10 DEF CycleReplyFails, CycleReadsNothing, CycleReadFails, Check
<1>11. CASE \/ ClientInit \/ Disconnect \/ TimerExpires \/ PingTimerExpires \/ LinkBreaks
            \/ BrokerAnswers \/ BrokerTakesSilently \/ BrokerCloses
            \/ \E qos \in Qos : BrokerSends(qos)
            \/ UNCHANGED vars
  BY <1>11 DEF ClientInit, Disconnect, TimerExpires, PingTimerExpires, LinkBreaks,
     BrokerAnswers, BrokerTakesSilently, BrokerCloses, BrokerSends, vars, control
<1> QED BY <1>5, <1>6, <1>7, <1>8, <1>9, <1>10, <1>11 DEF Next, Cycle

\* The history keeps its type.
LEMMA HistoryNext == TypeInv /\ [Next]_vars => HistoryOK'
<1> SUFFICES ASSUME TypeInv, [Next]_vars PROVE HistoryOK'
  OBVIOUS
<1>0. HistoryOK /\ WireOK /\ ScalarsOK
  BY DEF TypeInv
<1> USE ClientAssumption DEF HistoryOK
<1>1. ASSUME NEW p \in ToClient, p.type = "PUBLISH", Deliver(p)
      PROVE  handled' \subseteq 1..MaxInbound
  <2>1. p.n \in 1..MaxInbound
    BY <1>1, PacketFields
  <2> QED BY <1>0, <1>1, <2>1 DEF Deliver
<1>2. CASE CycleHandles
  <2> DEFINE p == Head(toClient)
  <2>1. p \in ToClient
    BY <1>0, <1>2, HeadPackets DEF CycleHandles
  <2>2. handled' \subseteq 1..MaxInbound
    <3>1. CASE p.type = "PUBLISH"
      BY <1>1, <1>2, <2>1, <3>1 DEF CycleHandles
    <3>2. CASE p.type # "PUBLISH"
      BY <1>0, <1>2, <3>2 DEF CycleHandles
    <3> QED BY <3>1, <3>2
  <2>3. acked' \subseteq 1..MaxInbound
    <3>1. acked' = IF p.type = "PUBLISH" /\ p.qos > 0 THEN acked \cup {p.n} ELSE acked
      BY <1>2 DEF CycleHandles
    <3>2. p.type = "PUBLISH" => p.n \in 1..MaxInbound
      BY <2>1, PacketFields
    <3> QED BY <1>0, <3>1, <3>2
  <2>4. claims' \subseteq 1..MaxCalls
    <3>1. CASE p.type = Awaits
      <4>1. claims' = IF call.op = "publish" THEN claims \cup {call.n} ELSE claims
        BY <1>2, <3>1 DEF CycleHandles, Finish
      <4> QED BY <1>0, <4>1 DEF WireOK
    <3>2. CASE p.type # Awaits
      BY <1>0, <1>2, <3>2 DEF CycleHandles
    <3> QED BY <3>1, <3>2
  <2> QED BY <1>0, <1>2, <2>2, <2>3, <2>4 DEF CycleHandles
<1>3. CASE CycleReplyFails
  <2> DEFINE p == Head(toClient)
  <2>1. p \in ToClient
    BY <1>0, <1>3, HeadPackets DEF CycleReplyFails
  <2>2. CASE p.type = "PUBLISH"
    BY <1>0, <1>1, <1>3, <2>1, <2>2 DEF CycleReplyFails
  <2>3. CASE p.type # "PUBLISH"
    BY <1>0, <1>3, <2>3 DEF CycleReplyFails
  <2> QED BY <2>2, <2>3
<1>4. CASE BrokerAnswers \/ BrokerTakesSilently
  <2>1. Head(toBroker) \in ToBroker /\ BrokerTakes(Head(toBroker))
    BY <1>0, <1>4, HeadPackets DEF BrokerAnswers, BrokerTakesSilently
  <2>2. got' \subseteq 1..MaxCalls
    BY <1>0, <2>1, TakenPackets DEF WireOK
  <2> QED BY <1>0, <1>4, <2>2 DEF BrokerAnswers, BrokerTakesSilently
<1>5. CASE ClientInit
  BY <1>0, <1>5 DEF ClientInit
<1>6. CASE Check
  BY <1>0, <1>6 DEF Check
<1>7. CASE \/ Connect \/ Subscribe \/ Unsubscribe \/ Yield \/ Disconnect
           \/ \E qos \in Qos : Publish(qos)
           \/ CycleReadsNothing \/ CycleReadFails
           \/ TimerExpires \/ PingTimerExpires \/ LinkBreaks \/ BrokerCloses
           \/ UNCHANGED vars
  BY <1>0, <1>7 DEF Connect, Subscribe, Unsubscribe, Yield, Disconnect, Publish,
     CycleReadsNothing, CycleReadFails, TimerExpires, PingTimerExpires, LinkBreaks,
     BrokerCloses, vars, history
<1>8. ASSUME NEW qos \in Qos, BrokerSends(qos) PROVE HistoryOK'
  <2>1. sent' \in 1..MaxInbound
    BY <1>0, <1>8 DEF BrokerSends, ScalarsOK
  <2>2. early' \subseteq 1..MaxInbound
    BY <1>0, <1>8, <2>1 DEF BrokerSends
  <2> QED BY <1>0, <1>8, <2>2 DEF BrokerSends
<1> QED BY <1>2, <1>3, <1>4, <1>5, <1>6, <1>7, <1>8 DEF Next, Cycle

\* What is on its way to the broker keeps its type.
LEMMA ToBrokerNext == TypeInv /\ [Next]_vars => toBroker' \in Seq(ToBroker)
<1> SUFFICES ASSUME TypeInv, [Next]_vars PROVE toBroker' \in Seq(ToBroker)
  OBVIOUS
<1>0. HistoryOK /\ WireOK /\ ScalarsOK /\ toBroker \in Seq(ToBroker)
  BY DEF TypeInv, WireOK
<1> USE ClientAssumption
<1>1. ASSUME NEW p \in ToBroker, Sends(p) PROVE toBroker' \in Seq(ToBroker)
  BY <1>0, <1>1, Longer DEF Sends
<1>2. getNextPacketId \in Nat
  BY <1>0 DEF getNextPacketId, ScalarsOK
<1>3. CASE Connect
  <2>1. Packet("CONNECT", 0) \in ToBroker
    BY SentPackets
  <2> QED BY <1>0, <1>3, <2>1, Longer DEF Connect
<1>4. CASE Subscribe
  <2>1. Packet("SUBSCRIBE", next_packetid') \in ToBroker
    BY <1>2, <1>4, SentPackets DEF Subscribe
  <2> QED BY <1>1, <1>4, <2>1 DEF Subscribe
<1>5. CASE Unsubscribe
  <2>1. Packet("UNSUBSCRIBE", next_packetid') \in ToBroker
    BY <1>2, <1>5, SentPackets DEF Unsubscribe
  <2> QED BY <1>1, <1>5, <2>1 DEF Unsubscribe
<1>6. ASSUME NEW qos \in Qos, Publish(qos) PROVE toBroker' \in Seq(ToBroker)
  <2> DEFINE m == Message(qos, IF qos = 0 THEN 0 ELSE next_packetid', calls')
  <2>1. calls' \in 1..MaxCalls
    BY <1>0, <1>6 DEF Publish, Counts, ScalarsOK
  <2>2. (IF qos = 0 THEN 0 ELSE next_packetid') \in Nat
    BY <1>2, <1>6 DEF Publish
  <2>3. m \in ToBroker
    BY <2>1, <2>2, SentPackets
  <2> QED BY <1>1, <1>6, <2>3 DEF Publish
<1>7. CASE Disconnect
  <2>1. Packet("DISCONNECT", 0) \in ToBroker
    BY SentPackets
  <2> QED BY <1>1, <1>7, <2>1 DEF Disconnect
<1>8. CASE CycleHandles
  <2> DEFINE p == Head(toClient)
  <2>1. p.id \in Nat
    BY <1>0, <1>8, HeadPackets, PacketFields DEF CycleHandles
  <2>2. /\ Packet("PINGREQ", 0) \in ToBroker /\ Packet("PUBACK", p.id) \in ToBroker
        /\ Packet("PUBREC", p.id) \in ToBroker /\ Packet("PUBREL", p.id) \in ToBroker
    BY <2>1, SentPackets
  <2>3. \/ toBroker' = toBroker
        \/ \E e \in ToBroker : toBroker' = Append(toBroker, e)
    BY <1>0, <1>8, <2>2, CycleSends
  <2> QED BY <1>0, <2>3, Longer
<1>9. CASE CycleReadsNothing
  <2>1. ping_outstanding \in BOOLEAN /\ Packet("PINGREQ", 0) \in ToBroker
    BY <1>0, SentPackets DEF ScalarsOK
  <2>2. toBroker' = toBroker \/ toBroker' = Append(toBroker, Packet("PINGREQ", 0))
    BY <1>0, <1>9, <2>1, IdleCycleSends
  <2> QED BY <1>0, <2>1, <2>2, Longer
<1>10. CASE BrokerAnswers \/ BrokerTakesSilently
  BY <1>0, <1>10, HeadPackets DEF BrokerAnswers, BrokerTakesSilently
<1>11. CASE ClientInit \/ CycleReplyFails \/ LinkBreaks \/ BrokerCloses
  <2>1. toBroker' = << >> \/ toBroker' = toBroker
    BY <1>11 DEF ClientInit, CycleReplyFails, LinkBreaks, BrokerCloses
  <2>2. CASE toBroker' = << >>
    BY <2>2
  <2>3. CASE toBroker' = toBroker
    BY <1>0, <2>3
  <2> QED BY <2>1, <2>2, <2>3
<1>12. CASE \/ Yield \/ CycleReadFails \/ Check \/ TimerExpires \/ PingTimerExpires
            \/ \E qos \in Qos : BrokerSends(qos)
            \/ UNCHANGED vars
  BY <1>0, <1>12 DEF Yield, CycleReadFails, Check, TimerExpires, PingTimerExpires,
     BrokerSends, vars
<1> QED BY <1>3, <1>4, <1>5, <1>6, <1>7, <1>8, <1>9, <1>10, <1>11, <1>12 DEF Next, Cycle

\* What is on its way to the client keeps its type.
LEMMA ToClientNext == TypeInv /\ [Next]_vars => toClient' \in Seq(ToClient)
<1> SUFFICES ASSUME TypeInv, [Next]_vars PROVE toClient' \in Seq(ToClient)
  OBVIOUS
<1>0. HistoryOK /\ WireOK /\ ScalarsOK /\ toClient \in Seq(ToClient)
  BY DEF TypeInv, WireOK
<1> USE ClientAssumption
<1>1. CASE CycleHandles
  BY <1>0, <1>1, HeadPackets DEF CycleHandles
<1>2. CASE BrokerAnswers
  <2> DEFINE p == Head(toBroker)
  <2>1. /\ p \in ToBroker /\ p.type \notin {"PUBACK", "DISCONNECT"}
        /\ ~(p.type = "PUBLISH" /\ p.qos = 0)
        /\ \E a \in Answers(p) : toClient' = Append(toClient, a)
    BY <1>0, <1>2, HeadPackets DEF BrokerAnswers
  <2>2. PICK a \in Answers(p) : toClient' = Append(toClient, a)
    BY <2>1
  <2>3. a \in ToClient
    BY <2>1, AnswersAre
  <2> QED BY <1>0, <2>2, <2>3, Longer
<1>3. ASSUME NEW qos \in Qos, BrokerSends(qos) PROVE toClient' \in Seq(ToClient)
  <2>1. sent' \in 1..MaxInbound /\ sent' \in Nat /\ qos \in 0..2
    BY <1>0, <1>3 DEF BrokerSends, ScalarsOK
  <2>2. Message(qos, sent', sent') \in ToClient
    BY <2>1, SentPackets
  <2> QED BY <1>0, <1>3, <2>2, Longer DEF BrokerSends
<1>4. CASE ClientInit \/ LinkBreaks \/ BrokerCloses
  <2>1. toClient' = << >>
    BY <1>4 DEF ClientInit, LinkBreaks, BrokerCloses
  <2> QED BY <2>1
<1>6. CASE CycleReplyFails
  <2>1. toClient' = << >> \/ toClient' = Tail(toClient)
    BY <1>6 DEF CycleReplyFails
  <2>2. CASE toClient' = << >>
    BY <2>2
  <2>3. CASE toClient' = Tail(toClient)
    BY <1>0, <1>6, <2>3, HeadPackets DEF CycleReplyFails
  <2> QED BY <2>1, <2>2, <2>3
<1>5. CASE \/ Connect \/ Subscribe \/ Unsubscribe \/ Yield \/ Disconnect
           \/ \E qos \in Qos : Publish(qos)
           \/ CycleReadsNothing \/ CycleReadFails \/ Check
           \/ TimerExpires \/ PingTimerExpires \/ BrokerTakesSilently
           \/ UNCHANGED vars
  BY <1>0, <1>5 DEF Connect, Subscribe, Unsubscribe, Yield, Disconnect, Publish,
     CycleReadsNothing, CycleReadFails, Check, TimerExpires, PingTimerExpires,
     BrokerTakesSilently, vars
<1> QED BY <1>1, <1>2, <1>3, <1>4, <1>5, <1>6 DEF Next, Cycle

\* The packets keep their types, and a publish in progress is one of the calls.
LEMMA WireNext == TypeInv /\ [Next]_vars => WireOK'
<1> SUFFICES ASSUME TypeInv, [Next]_vars PROVE WireOK'
  OBVIOUS
<1>0. HistoryOK /\ WireOK /\ ScalarsOK
  BY DEF TypeInv
<1> USE ClientAssumption
<1>1. held' \subseteq Messages(MaxCalls)
  <2>1. CASE BrokerAnswers \/ BrokerTakesSilently
    <3>1. Head(toBroker) \in ToBroker /\ BrokerTakes(Head(toBroker))
      BY <1>0, <2>1, HeadPackets DEF BrokerAnswers, BrokerTakesSilently
    <3> QED BY <1>0, <3>1, TakenPackets DEF WireOK, HistoryOK
  <2>2. CASE ClientInit
    BY <2>2 DEF ClientInit
  <2>3. CASE ~(BrokerAnswers \/ BrokerTakesSilently \/ ClientInit)
    <3>1. held' = held
      BY <2>3 DEF Next, Cycle, Connect, Subscribe, Unsubscribe, Yield, Disconnect, Publish,
         CycleHandles, CycleReplyFails, CycleReadsNothing, CycleReadFails, Check,
         TimerExpires, PingTimerExpires, LinkBreaks, BrokerCloses, BrokerSends, vars, broker
    <3> QED BY <1>0, <3>1 DEF WireOK
  <2> QED BY <2>1, <2>2, <2>3
<1>2. call'.op = "publish" => call'.n \in 1..MaxCalls
  <2>1. CASE \E qos \in Qos : Publish(qos)
    <3>1. calls' \in 1..MaxCalls
      BY <1>0, <2>1 DEF Publish, Counts, ScalarsOK
    <3>2. PICK qos \in Qos : call' = call \/ call' = Call("publish", qos, calls')
      BY <2>1 DEF Publish, Begins, control
    <3>3. Call("publish", qos, calls').n = calls'
      BY DEF Call
    <3> QED BY <1>0, <3>1, <3>2, <3>3 DEF WireOK
  <2>2. CASE ~\E qos \in Qos : Publish(qos)
    <3>1. call' = call \/ \E op \in {"none", "connect", "subscribe", "unsubscribe", "yield"} :
                            call' = Call(op, 0, 0)
      BY <2>2 DEF Next, Cycle, ClientInit, Connect, Subscribe, Unsubscribe, Yield, Disconnect,
         CycleHandles, CycleReplyFails, CycleReadsNothing, CycleReadFails, Check, Finish,
         TimerExpires, PingTimerExpires, LinkBreaks, BrokerCloses, BrokerSends, BrokerAnswers,
         BrokerTakesSilently, Begins, Returns, NoCall, vars, control
    <3>2. \A op \in {"none", "connect", "subscribe", "unsubscribe", "yield"} :
            Call(op, 0, 0).op # "publish"
      BY DEF Call
    <3> QED BY <1>0, <3>1, <3>2 DEF WireOK
  <2> QED BY <2>1, <2>2
<1> QED BY <1>1, <1>2, ToBrokerNext, ToClientNext DEF WireOK

\* The client's types hold from the start and through every step.
LEMMA TypeInvariant == Spec => []TypeInv
<1>1. Init => TypeInv
  <2> SUFFICES ASSUME Init PROVE TypeInv
    OBVIOUS
  <2> USE ClientAssumption DEF Init
  <2>1. WireOK
    BY DEF WireOK, NoCall, Call
  <2>2. ScalarsOK
    <3>1. /\ next_packetid \in 1..MaxPacketId /\ sent \in 0..MaxInbound
          /\ calls \in 0..MaxCalls /\ connections \in 0..MaxConnections
          /\ pings \in 0..MaxPings
      OBVIOUS
    <3>2. /\ isconnected \in BOOLEAN /\ ping_outstanding \in BOOLEAN /\ handler \in BOOLEAN
          /\ expired \in BOOLEAN /\ ping_expired \in BOOLEAN /\ link \in BOOLEAN
          /\ subscribed \in BOOLEAN /\ gaveUp \in BOOLEAN
      OBVIOUS
    <3> QED BY <3>1, <3>2 DEF ScalarsOK
  <2>3. ControlOK
    BY DEF ControlOK, NoCall, Call
  <2>4. HistoryOK
    BY DEF HistoryOK
  <2> QED BY <2>1, <2>2, <2>3, <2>4 DEF TypeInv
<1>2. TypeInv /\ [Next]_vars => TypeInv'
  BY WireNext, ScalarsNext, ControlNext, HistoryNext DEF TypeInv
<1> QED BY <1>1, <1>2, PTL DEF Spec

\* The type invariant: among others, the packet id of a call is never 0 and
\* never beyond MAX_PACKET_ID.
THEOREM TypeCorrect == Spec => []TypeOK
<1>1. TypeInv => TypeOK
  BY TypeInvTypes
<1> QED BY <1>1, TypeInvariant, PTL
-----------------------------------------------------------------------------
(* What a step makes of the number of packets of a kind.                   *)

\* There are not more packets in S on t than on s.
NoMore(t, s, S) ==
  /\ None(s, S) => None(t, S)
  /\ AtMostOne(s, S) => AtMostOne(t, S)
  /\ \A i \in DOMAIN t : t[i] \in S => \E j \in DOMAIN s : t[i] = s[j]

\* The same packets, one more that is not in S, or one less.
LEMMA NotMore ==
  ASSUME NEW T, NEW s \in Seq(T), NEW S
  PROVE  /\ NoMore(s, s, S)
         /\ \A e \in T \ S : NoMore(Append(s, e), s, S)
         /\ s # << >> => NoMore(Tail(s), s, S)
<1>1. NoMore(s, s, S)
  BY DEF NoMore
<1>2. ASSUME NEW e \in T \ S PROVE NoMore(Append(s, e), s, S)
  <2>1. /\ e \notin S /\ None(s, S) => None(Append(s, e), S)
        /\ e \notin S /\ AtMostOne(s, S) => AtMostOne(Append(s, e), S)
        /\ \A i \in DOMAIN Append(s, e) :
             Append(s, e)[i] = e \/ \E j \in DOMAIN s : Append(s, e)[i] = s[j]
    BY CountLonger
  <2> QED BY <2>1 DEF NoMore
<1>3. s # << >> => NoMore(Tail(s), s, S)
  BY CountShorter DEF NoMore
<1> QED BY <1>1, <1>2, <1>3

\* No packet at all.
LEMMA NoPackets == \A S : None(<< >>, S) /\ AtMostOne(<< >>, S)
BY DEF None, AtMostOne

\* None is at most one.
LEMMA NoneIsFew == \A s, S : None(s, S) => AtMostOne(s, S)
BY DEF None, AtMostOne

\* The first packet is in S.
LEMMA HeadCounts ==
  ASSUME NEW T, NEW s \in Seq(T), s # << >>, NEW S, Head(s) \in S
  PROVE  ~None(s, S) /\ (AtMostOne(s, S) => None(Tail(s), S))
<1>1. Head(s) = s[1] /\ 1 \in DOMAIN s
  BY Shorter
<1>2. ~None(s, S)
  BY <1>1 DEF None
<1>3. AtMostOne(s, S) => None(Tail(s), S)
  BY CountShorter
<1> QED BY <1>2, <1>3

\* One packet more, of any kind.
LEMMA FirstOne ==
  ASSUME NEW T, NEW s \in Seq(T), NEW e \in T, NEW S, None(s, S)
  PROVE  /\ AtMostOne(Append(s, e), S)
         /\ \A i \in DOMAIN Append(s, e) : Append(s, e)[i] \in S => Append(s, e)[i] = e
<1>1. /\ None(s, S) => AtMostOne(Append(s, e), S)
      /\ \A i \in DOMAIN Append(s, e) :
           Append(s, e)[i] = e \/ \E j \in DOMAIN s : Append(s, e)[i] = s[j]
  BY CountLonger
<1> QED BY <1>1 DEF None
-----------------------------------------------------------------------------
(* Pings.                                                                  *)

PingReqs == {p \in ToBroker : p.type = "PINGREQ"}
PingResps == {p \in ToClient : p.type = "PINGRESP"}

\* A ping is on one of the two ways, once, and the client knows of it.
PingInv ==
  /\ AtMostOne(toBroker, PingReqs) /\ AtMostOne(toClient, PingResps)
  /\ None(toBroker, PingReqs) \/ None(toClient, PingResps)
  /\ ~ping_outstanding => None(toBroker, PingReqs) /\ None(toClient, PingResps)

\* No ping is sent or answered.
LEMMA PingFrame ==
  ASSUME PingInv, NoMore(toBroker', toBroker, PingReqs),
         NoMore(toClient', toClient, PingResps), ping_outstanding' = ping_outstanding
  PROVE  PingInv'
BY DEF PingInv, NoMore

\* A ping is sent: there was none.
LEMMA PingSent ==
  ASSUME WireOK, None(toBroker, PingReqs), None(toClient', PingResps),
         toBroker' = Append(toBroker, Packet("PINGREQ", 0)), ping_outstanding' = TRUE
  PROVE  PingInv'
<1>1. Packet("PINGREQ", 0) \in ToBroker /\ toBroker \in Seq(ToBroker)
  BY SentPackets DEF WireOK
<1>2. AtMostOne(toBroker', PingReqs)
  BY <1>1, FirstOne
<1>3. AtMostOne(toClient', PingResps)
  BY NoneIsFew
<1> QED BY <1>2, <1>3 DEF PingInv

\* A cycle sends a ping only when none is under way.
LEMMA PingCycle ==
  ASSUME TypeInv, PingInv, CycleHandles
  PROVE  PingInv'
<1> DEFINE p == Head(toClient)
           outstanding == ping_outstanding /\ p.type # "PINGRESP"
<1>0. /\ WireOK /\ toBroker \in Seq(ToBroker) /\ toClient \in Seq(ToClient)
      /\ toClient # << >> /\ toClient' = Tail(toClient) /\ ping_outstanding \in BOOLEAN
  BY DEF TypeInv, WireOK, ScalarsOK, CycleHandles
<1>1. p \in ToClient /\ p.id \in Nat
  BY <1>0, HeadPackets, PacketFields
<1>2. NoMore(toClient', toClient, PingResps)
  BY <1>0, NotMore
<1>3. ~outstanding => None(toBroker, PingReqs) /\ None(toClient', PingResps)
  <2>1. CASE ~ping_outstanding
    BY <1>2, <2>1 DEF PingInv, NoMore
  <2>2. CASE p.type = "PINGRESP"
    <3>1. p \in PingResps
      BY <1>1, <2>2 DEF PingResps
    <3>2. ~None(toClient, PingResps) /\ (AtMostOne(toClient, PingResps) => None(Tail(toClient), PingResps))
      BY <1>0, <3>1, HeadCounts
    <3> QED BY <1>0, <3>2 DEF PingInv
  <2> QED BY <2>1, <2>2
<1>4. CASE toBroker' = Append(toBroker, Packet("PINGREQ", 0)) /\ ~outstanding
           /\ ping_outstanding' = TRUE
  BY <1>0, <1>3, <1>4, PingSent
<1>5. CASE NoMore(toBroker', toBroker, PingReqs) /\ ping_outstanding' = outstanding
  <2>1. CASE outstanding
    <3>1. ping_outstanding' = ping_outstanding
      BY <1>0, <1>5, <2>1
    <3> QED BY <1>2, <1>5, <3>1, PingFrame
  <2>2. CASE ~outstanding
    <3>1. None(toBroker', PingReqs) /\ None(toClient', PingResps)
      BY <1>3, <1>5, <2>2 DEF NoMore
    <3> QED BY <3>1, NoneIsFew DEF PingInv
  <2> QED BY <2>1, <2>2
<1>6. /\ Packet("PUBACK", p.id) \in ToBroker \ PingReqs
      /\ Packet("PUBREC", p.id) \in ToBroker \ PingReqs
      /\ Packet("PUBREL", p.id) \in ToBroker \ PingReqs
  BY <1>1, SentPackets, PacketIs DEF PingReqs
<1>7. \/ toBroker' = Append(toBroker, Packet("PINGREQ", 0)) /\ ~outstanding
         /\ ping_outstanding' = TRUE
      \/ /\ \/ toBroker' = toBroker
            \/ \E e \in ToBroker \ PingReqs : toBroker' = Append(toBroker, e)
         /\ ping_outstanding' = outstanding
  BY <1>0, <1>6, CycleSends
<1>8. (\/ toBroker' = toBroker
       \/ \E e \in ToBroker \ PingReqs : toBroker' = Append(toBroker, e))
      => NoMore(toBroker', toBroker, PingReqs)
  BY <1>0, NotMore
<1> QED BY <1>4, <1>5, <1>7, <1>8

\* A call sends a packet that is no ping.
LEMMA PingElsewhere ==
  ASSUME TypeInv, PingInv, toClient' = toClient, ping_outstanding' = ping_outstanding,
         NEW e \in ToBroker, e.type # "PINGREQ",
         toBroker' = toBroker \/ toBroker' = Append(toBroker, e)
  PROVE  PingInv'
<1>1. e \in ToBroker \ PingReqs /\ toBroker \in Seq(ToBroker) /\ toClient \in Seq(ToClient)
  BY DEF PingReqs, TypeInv, WireOK
<1>2. NoMore(toBroker', toBroker, PingReqs) /\ NoMore(toClient', toClient, PingResps)
  BY <1>1, NotMore
<1> QED BY <1>2, PingFrame

\* Every step of client, broker and network keeps a ping on at most one of the two
\* ways: keepalive sends one only when none is outstanding.
LEMMA PingNext == TypeInv /\ PingInv /\ [Next]_vars => PingInv'
<1> SUFFICES ASSUME TypeInv, PingInv, [Next]_vars PROVE PingInv'
  OBVIOUS
<1>0. /\ WireOK /\ ScalarsOK /\ toBroker \in Seq(ToBroker) /\ toClient \in Seq(ToClient)
      /\ ping_outstanding \in BOOLEAN
  BY DEF TypeInv, WireOK, ScalarsOK
<1> USE ClientAssumption
<1>1. CASE Connect
  <2>1. Packet("CONNECT", 0) \in ToBroker /\ Packet("CONNECT", 0).type # "PINGREQ"
    BY SentPackets, PacketIs
  <2> QED BY <1>1, <2>1, PingElsewhere DEF Connect, client
<1>2. getNextPacketId \in Nat
  BY <1>0 DEF getNextPacketId, ScalarsOK
<1>3. CASE Subscribe
  <2> DEFINE e == Packet("SUBSCRIBE", next_packetid')
  <2>1. e \in ToBroker /\ e.type # "PINGREQ"
    BY <1>2, <1>3, SentPackets, PacketIs DEF Subscribe
  <2> QED BY <1>3, <2>1, PingElsewhere DEF Subscribe, Sends
<1>4. CASE Unsubscribe
  <2> DEFINE e == Packet("UNSUBSCRIBE", next_packetid')
  <2>1. e \in ToBroker /\ e.type # "PINGREQ"
    BY <1>2, <1>4, SentPackets, PacketIs DEF Unsubscribe
  <2> QED BY <1>4, <2>1, PingElsewhere DEF Unsubscribe, Sends
<1>5. ASSUME NEW qos \in Qos, Publish(qos) PROVE PingInv'
  <2> DEFINE m == Message(qos, IF qos = 0 THEN 0 ELSE next_packetid', calls')
  <2>1. calls' \in 1..MaxCalls
    BY <1>0, <1>5 DEF Publish, Counts, ScalarsOK
  <2>2. (IF qos = 0 THEN 0 ELSE next_packetid') \in Nat
    BY <1>2, <1>5 DEF Publish
  <2>3. m \in ToBroker /\ m.type # "PINGREQ"
    BY <2>1, <2>2, SentPackets, PacketIs
  <2> QED BY <1>5, <2>3, PingElsewhere DEF Publish, Sends
<1>6. CASE Disconnect
  <2>1. Packet("DISCONNECT", 0) \in ToBroker /\ Packet("DISCONNECT", 0).type # "PINGREQ"
    BY SentPackets, PacketIs
  <2> QED BY <1>6, <2>1, PingElsewhere DEF Disconnect, Sends
<1>7. CASE CycleHandles
  BY <1>7, PingCycle
<1>8. CASE CycleReadsNothing
  <2>1. toClient' = toClient
    BY <1>8 DEF CycleReadsNothing
  <2>2. CASE toBroker' = toBroker /\ ping_outstanding' = ping_outstanding
    <3>1. NoMore(toBroker', toBroker, PingReqs) /\ NoMore(toClient', toClient, PingResps)
      BY <1>0, <2>1, <2>2, NotMore
    <3> QED BY <2>2, <3>1, PingFrame
  <2>3. CASE toBroker' = Append(toBroker, Packet("PINGREQ", 0)) /\ ~ping_outstanding
             /\ ping_outstanding' = TRUE
    <3>1. None(toBroker, PingReqs) /\ None(toClient', PingResps)
      BY <2>1, <2>3 DEF PingInv
    <3> QED BY <1>0, <2>3, <3>1, PingSent
  <2> QED BY <1>0, <1>8, <2>2, <2>3, IdleCycleSends
<1>9. CASE BrokerAnswers
  <2> DEFINE p == Head(toBroker)
  <2>1. /\ p \in ToBroker /\ p.type \notin {"PUBACK", "DISCONNECT"}
        /\ ~(p.type = "PUBLISH" /\ p.qos = 0)
        /\ toBroker # << >> /\ toBroker' = Tail(toBroker)
        /\ ping_outstanding' = ping_outstanding
        /\ \E a \in Answers(p) : toClient' = Append(toClient, a)
    BY <1>0, <1>9, HeadPackets DEF BrokerAnswers, client
  <2>2. PICK a \in Answers(p) : toClient' = Append(toClient, a)
    BY <2>1
  <2>3. a \in ToClient /\ (a.type = "PINGRESP" => p.type = "PINGREQ")
    BY <2>1, AnswersAre
  <2>4. NoMore(toBroker', toBroker, PingReqs)
    BY <1>0, <2>1, NotMore
  <2>5. CASE a.type # "PINGRESP"
    <3>1. a \in ToClient \ PingResps
      BY <2>3, <2>5 DEF PingResps
    <3>2. NoMore(toClient', toClient, PingResps)
      BY <1>0, <2>2, <3>1, NotMore
    <3> QED BY <2>1, <2>4, <3>2, PingFrame
  <2>6. CASE a.type = "PINGRESP"
    <3>1. p \in PingReqs
      BY <2>1, <2>3, <2>6 DEF PingReqs
    <3>2. ~None(toBroker, PingReqs) /\ None(Tail(toBroker), PingReqs)
      BY <1>0, <2>1, <3>1, HeadCounts DEF PingInv
    <3>3. ping_outstanding /\ None(toClient, PingResps)
      BY <3>2 DEF PingInv
    <3>4. AtMostOne(toClient', PingResps)
      BY <1>0, <2>2, <2>3, <3>3, FirstOne
    <3>5. None(toBroker', PingReqs) /\ ping_outstanding'
      BY <2>1, <3>2, <3>3
    <3> QED BY <3>4, <3>5, NoneIsFew DEF PingInv
  <2> QED BY <2>5, <2>6
<1>10. CASE BrokerTakesSilently
  <2>1. /\ toBroker # << >> /\ toBroker' = Tail(toBroker) /\ toClient' = toClient
        /\ ping_outstanding' = ping_outstanding
    BY <1>10 DEF BrokerTakesSilently, client
  <2>2. NoMore(toBroker', toBroker, PingReqs) /\ NoMore(toClient', toClient, PingResps)
    BY <1>0, <2>1, NotMore
  <2> QED BY <2>1, <2>2, PingFrame
<1>11. ASSUME NEW qos \in Qos, BrokerSends(qos) PROVE PingInv'
  <2> DEFINE m == Message(qos, sent', sent')
  <2>1. sent' \in 1..MaxInbound /\ sent' \in Nat /\ qos \in 0..2
    BY <1>0, <1>11 DEF BrokerSends, ScalarsOK
  <2>2. m \in ToClient \ PingResps
    BY <2>1, SentPackets, PacketIs DEF PingResps
  <2>3. /\ toClient' = Append(toClient, m) /\ toBroker' = toBroker
        /\ ping_outstanding' = ping_outstanding
    BY <1>11 DEF BrokerSends, client
  <2>4. NoMore(toBroker', toBroker, PingReqs) /\ NoMore(toClient', toClient, PingResps)
    BY <1>0, <2>2, <2>3, NotMore
  <2> QED BY <2>3, <2>4, PingFrame
<1>12. CASE ClientInit \/ CycleReplyFails \/ LinkBreaks \/ BrokerCloses
  <2>1. CASE toBroker' = << >> /\ toClient' = << >>
    BY <2>1, NoPackets DEF PingInv
  <2>2. CASE CycleReplyFails /\ toClient' = Tail(toClient) /\ toBroker' = toBroker
    <3>1. toClient # << >> /\ ping_outstanding' = ping_outstanding
      BY <2>2 DEF CycleReplyFails, client
    <3>2. NoMore(toBroker', toBroker, PingReqs) /\ NoMore(toClient', toClient, PingResps)
      BY <1>0, <2>2, <3>1, NotMore
    <3> QED BY <3>1, <3>2, PingFrame
  <2> QED BY <1>12, <2>1, <2>2 DEF ClientInit, CycleReplyFails, LinkBreaks, BrokerCloses
<1>13. CASE Yield \/ CycleReadFails \/ Check \/ TimerExpires \/ PingTimerExpires
            \/ UNCHANGED vars
  <2>1. UNCHANGED <<toBroker, toClient, ping_outstanding>>
    BY <1>13 DEF Yield, CycleReadFails, Check, TimerExpires, PingTimerExpires, vars, client
  <2> QED BY <2>1 DEF PingInv, None, AtMostOne
<1> QED BY <1>1, <1>3, <1>4, <1>5, <1>6, <1>7, <1>8, <1>9, <1>10, <1>11, <1>12, <1>13
        DEF Next, Cycle

\* PingsTracked: keepalive sends a ping only when the answer to the last one
\* has been read or the connection is new, so there are never two under way,
\* and none when the client thinks there is none.
THEOREM PingsAreTracked == Spec => []PingsTracked
<1>1. Init => PingInv
  BY NoPackets DEF Init, PingInv
<1>2. TypeInv /\ PingInv => PingsTracked
  <2> SUFFICES ASSUME TypeInv, PingInv PROVE PingsTracked
    OBVIOUS
  <2>1. /\ \A i \in DOMAIN toBroker : toBroker[i].type = "PINGREQ" <=> toBroker[i] \in PingReqs
        /\ \A i \in DOMAIN toClient : toClient[i].type = "PINGRESP" <=> toClient[i] \in PingResps
    BY DEF TypeInv, WireOK, PingReqs, PingResps
  <2> DEFINE to == {<<"to", i>> : i \in {j \in DOMAIN toBroker : toBroker[j].type = "PINGREQ"}}
             from == {<<"from", i>> : i \in {j \in DOMAIN toClient : toClient[j].type = "PINGRESP"}}
  <2>2. None(toBroker, PingReqs) => to = {}
    BY <2>1 DEF None
  <2>3. None(toClient, PingResps) => from = {}
    BY <2>1 DEF None
  <2>4. \A a, b \in to : a = b
    BY <2>1 DEF PingInv, AtMostOne
  <2>5. \A a, b \in from : a = b
    BY <2>1 DEF PingInv, AtMostOne
  <2>6. \A a, b \in to \cup from : a = b
    BY <2>2, <2>3, <2>4, <2>5 DEF PingInv
  <2>7. ~ping_outstanding => to \cup from = {}
    BY <2>2, <2>3 DEF PingInv
  <2> QED BY <2>6, <2>7 DEF PingsTracked
<1> QED BY <1>1, <1>2, PingNext, TypeInvariant, PTL DEF Spec
-----------------------------------------------------------------------------
(* The call in progress.  Of its packet and the acknowledgements that end  *)
(* it there is one at a time on the connection, as long as no call gave    *)
(* up: it is the call's own, and an acknowledgement means what it says.    *)

Asks ==
  {p \in ToBroker :
     \/ p.type \in {"CONNECT", "SUBSCRIBE", "UNSUBSCRIBE", "PUBREL"}
     \/ p.type = "PUBLISH" /\ p.qos # 0}
Acks ==
  {p \in ToClient :
     p.type \in {"CONNACK", "SUBACK", "UNSUBACK", "PUBACK", "PUBREC", "PUBCOMP"}}

AsksFor(p) ==
  \/ p.type = "CONNECT" /\ call.op = "connect"
  \/ p.type = "SUBSCRIBE" /\ call.op = "subscribe"
  \/ p.type = "UNSUBSCRIBE" /\ call.op = "unsubscribe"
  \/ /\ p.type = "PUBLISH" /\ call.op = "publish"
     /\ p.qos = call.qos /\ p.n = call.n
  \/ /\ p.type = "PUBREL" /\ call.op = "publish" /\ call.qos = 2
     /\ \E m \in held : m.id = p.id /\ m.n = call.n

Confirms(p) ==
  \/ p.type = "CONNACK" /\ call.op = "connect"
  \/ p.type = "SUBACK" /\ call.op = "subscribe"
  \/ p.type = "UNSUBACK" /\ call.op = "unsubscribe"
  \/ p.type = "PUBACK" /\ call.op = "publish" /\ call.qos = 1 /\ call.n \in got
  \/ /\ p.type = "PUBREC" /\ call.op = "publish" /\ call.qos = 2
     /\ \E m \in held : m.id = p.id /\ m.n = call.n
  \/ p.type = "PUBCOMP" /\ call.op = "publish" /\ call.qos = 2 /\ call.n \in got

CallOK ==
  /\ AtMostOne(toBroker, Asks) /\ AtMostOne(toClient, Acks)
  /\ None(toBroker, Asks) \/ None(toClient, Acks)
  /\ \A i \in DOMAIN toBroker : toBroker[i] \in Asks => AsksFor(toBroker[i])
  /\ \A i \in DOMAIN toClient : toClient[i] \in Acks => Confirms(toClient[i])
  /\ claims \subseteq got

\* What holds of a call even after one gave up.
BaseOK ==
  /\ pc = "idle" => call = NoCall
  /\ ~link => toBroker = << >> /\ toClient = << >>
  /\ call.op = "subscribe" => ~handler


\* The actions that touch neither the call nor the connection's state beyond
\* what BaseOK says.
LEMMA BaseNext == TypeInv /\ BaseOK /\ [Next]_vars => BaseOK'
<1> SUFFICES ASSUME TypeInv, BaseOK, [Next]_vars PROVE BaseOK'
  OBVIOUS
<1>0. /\ WireOK /\ link \in BOOLEAN /\ handler \in BOOLEAN
      /\ pc = "idle" => call = NoCall /\ call.op # "subscribe"
  BY DEF TypeInv, WireOK, ScalarsOK, BaseOK, NoCall, Call
<1>1. pc' = "idle" => call' = NoCall
  BY <1>0 DEF BaseOK, Next, Cycle, ClientInit, Connect, Subscribe, Unsubscribe, Yield,
     Disconnect, Publish, CycleHandles, CycleReplyFails, CycleReadsNothing, CycleReadFails,
     Check, Finish, TimerExpires, PingTimerExpires, LinkBreaks, BrokerCloses, BrokerSends,
     BrokerAnswers, BrokerTakesSilently, Begins, Returns, vars, control
<1>2. ~link' => toBroker' = << >> /\ toClient' = << >>
  BY <1>0 DEF BaseOK, Next, Cycle, ClientInit, Connect, Subscribe, Unsubscribe, Yield,
     Disconnect, Publish, CycleHandles, CycleReplyFails, CycleReadsNothing, CycleReadFails,
     Check, TimerExpires, PingTimerExpires, LinkBreaks, BrokerCloses, BrokerSends,
     BrokerAnswers, BrokerTakesSilently, Sends, vars
<1>3. call'.op = "subscribe" => ~handler'
  <2>1. \A op, q, m : Call(op, q, m).op = op
    BY DEF Call
  <2>2. CASE Subscribe
    BY <1>0, <2>1, <2>2 DEF Subscribe, Begins, control
  <2>3. CASE CycleHandles
    BY <2>1, <2>3 DEF BaseOK, CycleHandles, Finish, Returns, NoCall
  <2>4. CASE ClientInit
    BY <2>4 DEF ClientInit
  <2>5. CASE ~(Subscribe \/ CycleHandles \/ ClientInit)
    <3>1. handler' = handler
      BY <2>5 DEF Next, Cycle, Connect, Unsubscribe, Yield, Disconnect, Publish,
         CycleReplyFails, CycleReadsNothing, CycleReadFails, Check, TimerExpires,
         PingTimerExpires, LinkBreaks, BrokerCloses, BrokerSends, BrokerAnswers,
         BrokerTakesSilently, vars, client
    <3>2. ASSUME NEW qos \in Qos, Publish(qos) PROVE call' = call \/ call'.op # "subscribe"
      BY <2>1, <3>2 DEF Publish, Begins, control
    <3>3. CASE ~\E qos \in Qos : Publish(qos)
      <4>1. call' = call \/ \E op \in {"none", "connect", "unsubscribe", "yield"} :
                              call' = Call(op, 0, 0)
        BY <2>5, <3>3 DEF Next, Cycle, Connect, Unsubscribe, Yield, Disconnect,
           CycleReplyFails, CycleReadsNothing, CycleReadFails, Check, TimerExpires,
           PingTimerExpires, LinkBreaks, BrokerCloses, BrokerSends, BrokerAnswers,
           BrokerTakesSilently, Begins, Returns, NoCall, vars, control
      <4>2. call' = call \/ call'.op # "subscribe"
        BY <2>1, <4>1
      <4> QED BY <3>1, <4>2 DEF BaseOK
    <3> QED BY <3>1, <3>2, <3>3 DEF BaseOK
  <2> QED BY <2>2, <2>3, <2>4, <2>5
<1> QED BY <1>1, <1>2, <1>3 DEF BaseOK

\* Between the calls, and in MQTTYield, nothing of a call is under way.
LEMMA NoneBetween ==
  ASSUME CallOK, BaseOK, pc = "idle" \/ call.op \in {"none", "yield"}
  PROVE  None(toBroker, Asks) /\ None(toClient, Acks)
<1>1. call.op \in {"none", "yield"}
  BY DEF BaseOK, NoCall, Call
<1>2. /\ \A p : ~AsksFor(p)
      /\ \A p : ~Confirms(p)
  BY <1>1 DEF AsksFor, Confirms
<1> QED BY <1>2 DEF CallOK, None

\* Nothing of the call moves.
LEMMA CallFrame ==
  ASSUME CallOK, NoMore(toBroker', toBroker, Asks), NoMore(toClient', toClient, Acks),
         \/ call' = call
         \/ None(toBroker, Asks) /\ None(toClient, Acks),
         held' = held, got \subseteq got', claims' = claims
  PROVE  CallOK'
<1>1. CASE None(toBroker, Asks) /\ None(toClient, Acks)
  <2>1. None(toBroker', Asks) /\ None(toClient', Acks)
    BY <1>1 DEF NoMore
  <2> QED BY <2>1, NoneIsFew DEF CallOK, None
<1>2. CASE call' = call
  <2>1. ASSUME NEW i \in DOMAIN toBroker', toBroker'[i] \in Asks
        PROVE  AsksFor(toBroker[i])'
    <3>1. PICK j \in DOMAIN toBroker : toBroker'[i] = toBroker[j]
      BY <2>1 DEF NoMore
    <3>2. AsksFor(toBroker[j])
      BY <2>1, <3>1 DEF CallOK
    <3> QED BY <1>2, <3>1, <3>2 DEF AsksFor
  <2>2. ASSUME NEW i \in DOMAIN toClient', toClient'[i] \in Acks
        PROVE  Confirms(toClient[i])'
    <3>1. PICK j \in DOMAIN toClient : toClient'[i] = toClient[j]
      BY <2>2 DEF NoMore
    <3>2. Confirms(toClient[j])
      BY <2>2, <3>1 DEF CallOK
    <3> QED BY <1>2, <3>1, <3>2 DEF Confirms
  <2>3. /\ AtMostOne(toBroker', Asks) /\ AtMostOne(toClient', Acks)
        /\ None(toBroker', Asks) \/ None(toClient', Acks)
        /\ claims' \subseteq got'
    BY DEF CallOK, NoMore
  <2> QED BY <2>1, <2>2, <2>3 DEF CallOK
<1> QED BY <1>1, <1>2

\* Nothing of a call is left.
LEMMA CallEnds ==
  ASSUME None(toBroker', Asks), None(toClient', Acks), claims' \subseteq got'
  PROVE  CallOK'
BY NoneIsFew DEF CallOK, None

\* The call's packet is sent.
LEMMA CallAsks ==
  ASSUME WireOK, None(toBroker, Asks), None(toClient', Acks), claims' \subseteq got',
         NEW e \in ToBroker, toBroker' = Append(toBroker, e), AsksFor(e)'
  PROVE  CallOK'
<1>1. /\ AtMostOne(toBroker', Asks)
      /\ \A i \in DOMAIN toBroker' : toBroker'[i] \in Asks => toBroker'[i] = e
  BY FirstOne DEF WireOK
<1> QED BY <1>1, NoneIsFew DEF CallOK, None

\* The call's acknowledgement is sent.
LEMMA CallAnswered ==
  ASSUME WireOK, None(toBroker', Asks), None(toClient, Acks), claims' \subseteq got',
         NEW a \in ToClient, toClient' = Append(toClient, a), Confirms(a)'
  PROVE  CallOK'
<1>1. /\ AtMostOne(toClient', Acks)
      /\ \A i \in DOMAIN toClient' : toClient'[i] \in Acks => toClient'[i] = a
  BY FirstOne DEF WireOK
<1> QED BY <1>1, NoneIsFew DEF CallOK, None

\* A call begins, or is not sent.
LEMMA CallBegins ==
  ASSUME TypeInv, BaseOK, CallOK, pc = "idle", NEW e \in ToBroker, NEW c,
         IF link THEN toBroker' = Append(toBroker, e) ELSE toBroker' = toBroker,
         Begins(c, "check"), toClient' = toClient, UNCHANGED <<broker, claims, got>>,
         call' = c => AsksFor(e)'
  PROVE  CallOK'
<1>1. None(toBroker, Asks) /\ None(toClient, Acks) /\ claims \subseteq got
  BY NoneBetween DEF CallOK
<1>2. CASE link
  BY <1>1, <1>2, CallAsks DEF Begins, TypeInv
<1>3. CASE ~link
  BY <1>1, <1>3, CallEnds
<1> QED BY <1>2, <1>3

\* A cycle ends the call with its own acknowledgement, releases the message
\* of the call, or leaves the call alone.
LEMMA CallCycle ==
  ASSUME TypeInv, CallOK, CycleHandles
  PROVE  CallOK'
<1> DEFINE p == Head(toClient)
<1>0. /\ WireOK /\ toBroker \in Seq(ToBroker) /\ toClient \in Seq(ToClient)
      /\ toClient # << >> /\ toClient' = Tail(toClient) /\ held' = held /\ got' = got
  BY DEF TypeInv, WireOK, CycleHandles, broker
<1>1. p \in ToClient /\ p.id \in Nat
  BY <1>0, HeadPackets, PacketFields
<1>2. /\ Packet("PINGREQ", 0) \in ToBroker \ Asks
      /\ Packet("PUBACK", p.id) \in ToBroker \ Asks
      /\ Packet("PUBREC", p.id) \in ToBroker \ Asks
  BY <1>1, SentPackets, PacketIs DEF Asks
<1>3. \A e \in ToBroker \ Asks : NoMore(Append(toBroker, e), toBroker, Asks)
  BY <1>0, NotMore
<1>4. NoMore(toBroker, toBroker, Asks)
  BY <1>0, NotMore
<1>5. Awaits \in {"CONNACK", "SUBACK", "UNSUBACK", "PUBACK", "PUBCOMP", "nothing"}
  BY DEF Awaits
<1>6. p.type # Awaits => call' = call /\ claims' = claims
  BY DEF CycleHandles
<1>7. CASE p \in Acks
  <2>1. ~None(toClient, Acks) /\ None(toClient', Acks)
    BY <1>0, <1>7, HeadCounts DEF CallOK
  <2>2. None(toBroker, Asks)
    BY <2>1 DEF CallOK
  <2>3. Confirms(p)
    <3>1. p = toClient[1] /\ 1 \in DOMAIN toClient
      BY <1>0, Shorter
    <3> QED BY <1>7, <3>1 DEF CallOK
  <2>4. CASE p.type = "PUBREC"
    <3>0. Packet("PUBREL", p.id) \in ToBroker
      BY <1>1, SentPackets
    <3>. PICK e \in ToBroker : e = Packet("PUBREL", p.id)
      BY <3>0
    <3>1. toBroker' = Append(toBroker, e)
      BY <1>0, <2>4, CycleSends
    <3>2. e.type = "PUBREL" /\ e.id = p.id
      BY PacketIs
    <3>3. call' = call /\ claims' = claims
      BY <1>5, <1>6, <2>4
    <3>4. AsksFor(e)'
      BY <1>0, <2>3, <2>4, <3>2, <3>3 DEF AsksFor, Confirms
    <3>5. claims' \subseteq got'
      BY <1>0, <3>3 DEF CallOK
    <3> QED BY <1>0, <2>1, <2>2, <3>1, <3>2, <3>4, <3>5, CallAsks
  <2>5. CASE p.type # "PUBREC"
    <3>1. toBroker' = toBroker \/ toBroker' = Append(toBroker, Packet("PINGREQ", 0))
      BY <1>0, <1>7, <2>5, CycleSends DEF Acks
    <3>2. None(toBroker', Asks)
      BY <1>2, <1>3, <2>2, <3>1 DEF NoMore
    <3>3. claims' \subseteq got'
      <4>1. CASE p.type = Awaits
        <5>1. claims' = IF call.op = "publish" THEN claims \cup {call.n} ELSE claims
          BY <4>1 DEF CycleHandles, Finish
        <5>2. call.op = "publish" => p.type \in {"PUBACK", "PUBCOMP"}
          BY <4>1 DEF Awaits
        <5>3. call.op = "publish" => call.n \in got
          BY <2>3, <5>2 DEF Confirms
        <5> QED BY <1>0, <5>1, <5>3 DEF CallOK
      <4>2. CASE p.type # Awaits
        BY <1>0, <1>6, <4>2 DEF CallOK
      <4> QED BY <4>1, <4>2
    <3> QED BY <2>1, <3>2, <3>3, CallEnds
  <2> QED BY <2>4, <2>5
<1>8. CASE p \notin Acks
  <2>1. p.type \in {"PUBLISH", "PUBREL", "PINGRESP"}
    BY <1>1, <1>8 DEF Acks, ToClient, Messages, Plain
  <2>2. call' = call /\ claims' = claims
    BY <1>5, <1>6, <2>1
  <2>3. NoMore(toBroker', toBroker, Asks)
    <3>1. toBroker' = toBroker \/ \E e \in ToBroker \ Asks : toBroker' = Append(toBroker, e)
      BY <1>0, <1>2, <2>1, CycleSends
    <3> QED BY <1>3, <1>4, <3>1
  <2>4. NoMore(toClient', toClient, Acks)
    BY <1>0, NotMore
  <2> QED BY <1>0, <2>2, <2>3, <2>4, CallFrame
<1> QED BY <1>7, <1>8

\* The broker acknowledges the call's packet after it has taken it, or the
\* packet is none of the call's.
LEMMA CallBroker ==
  ASSUME TypeInv, CallOK, BrokerAnswers
  PROVE  CallOK'
<1> DEFINE p == Head(toBroker)
<1>0. /\ WireOK /\ toBroker \in Seq(ToBroker) /\ toClient \in Seq(ToClient)
      /\ toBroker # << >> /\ toBroker' = Tail(toBroker)
      /\ call' = call /\ claims' = claims
  BY DEF TypeInv, WireOK, BrokerAnswers, control
<1>1. /\ p \in ToBroker /\ p.type \notin {"PUBACK", "DISCONNECT"}
      /\ ~(p.type = "PUBLISH" /\ p.qos = 0) /\ BrokerTakes(p)
      /\ \E a \in Answers(p) : toClient' = Append(toClient, a)
  BY <1>0, HeadPackets DEF BrokerAnswers
<1>2. PICK a \in Answers(p) : toClient' = Append(toClient, a)
  BY <1>1
<1>3. /\ a \in ToClient
      /\ \/ p.type = "CONNECT" /\ a.type = "CONNACK"
         \/ p.type = "SUBSCRIBE" /\ a.type = "SUBACK"
         \/ p.type = "UNSUBSCRIBE" /\ a.type = "UNSUBACK"
         \/ p.type = "PUBLISH" /\ p.qos = 1 /\ a.type = "PUBACK"
         \/ p.type = "PUBLISH" /\ p.qos = 2 /\ a.type = "PUBREC" /\ a.id = p.id
         \/ p.type = "PUBREL" /\ a.type = "PUBCOMP"
         \/ p.type = "PUBREC" /\ a.type = "PUBREL"
         \/ p.type = "PINGREQ" /\ a.type = "PINGRESP"
  BY <1>1, AnswersAre
<1>4. got \subseteq got'
  BY <1>1, TakenPackets DEF TypeInv, WireOK, HistoryOK
<1>5. CASE p \in Asks
  <2>1. ~None(toBroker, Asks) /\ None(toBroker', Asks)
    BY <1>0, <1>5, HeadCounts DEF CallOK
  <2>2. None(toClient, Acks)
    BY <2>1 DEF CallOK
  <2>3. AsksFor(p)
    <3>1. p = toBroker[1] /\ 1 \in DOMAIN toBroker
      BY <1>0, Shorter
    <3> QED BY <1>5, <3>1 DEF CallOK
  <2>4. p.type = "PUBLISH" /\ p.qos = 1 => p.n \in got'
    BY <1>1 DEF BrokerTakes
  <2>5. p.type = "PUBLISH" /\ p.qos = 2 => p \in held'
    BY <1>1 DEF BrokerTakes
  <2>6. ASSUME p.type = "PUBREL", NEW m \in held, m.id = p.id PROVE m.n \in got'
    BY <1>1, <2>6 DEF BrokerTakes
  <2>7. Confirms(a)'
    <3>1. CASE p.type \in {"CONNECT", "SUBSCRIBE", "UNSUBSCRIBE"}
      BY <1>0, <1>3, <2>3, <3>1 DEF AsksFor, Confirms
    <3>2. CASE p.type = "PUBLISH"
      BY <1>0, <1>3, <2>3, <2>4, <2>5, <3>2 DEF AsksFor, Confirms
    <3>3. CASE p.type = "PUBREL"
      BY <1>0, <1>3, <2>3, <2>6, <3>3 DEF AsksFor, Confirms
    <3> QED BY <1>3, <1>5, <3>1, <3>2, <3>3 DEF Asks
  <2>8. claims' \subseteq got'
    BY <1>0, <1>4 DEF CallOK
  <2> QED BY <1>0, <1>2, <1>3, <2>1, <2>2, <2>7, <2>8, CallAnswered
<1>6. CASE p \notin Asks
  <2>1. p.type \in {"PUBREC", "PINGREQ"}
    BY <1>1, <1>3, <1>6 DEF Asks
  <2>2. held' = held
    BY <1>1, <2>1 DEF BrokerTakes
  <2>3. a \in ToClient \ Acks
    BY <1>3, <2>1 DEF Acks
  <2>4. NoMore(toBroker', toBroker, Asks) /\ NoMore(toClient', toClient, Acks)
    BY <1>0, <1>2, <2>3, NotMore
  <2> QED BY <1>0, <1>4, <2>2, <2>4, CallFrame
<1> QED BY <1>5, <1>6

\* A call that has not given up and its packets on the connection.
CallInv == ~gaveUp => CallOK

\* Every step keeps what the call in progress has under way, as long as no call has
\* given up: one packet to the broker or one acknowledgement back.
LEMMA CallNext == TypeInv /\ BaseOK /\ CallInv /\ [Next]_vars => CallInv'
<1> SUFFICES ASSUME TypeInv, BaseOK, CallInv, [Next]_vars, ~gaveUp' PROVE CallOK'
  BY DEF CallInv
<1>0. /\ WireOK /\ ScalarsOK /\ toBroker \in Seq(ToBroker) /\ toClient \in Seq(ToClient)
      /\ gaveUp \in BOOLEAN
  BY DEF TypeInv, WireOK, ScalarsOK
<1>1. CASE ClientInit
  <2>1. toBroker' = << >> /\ toClient' = << >> /\ claims' = {}
    BY <1>1 DEF ClientInit
  <2> QED BY <2>1, NoPackets, CallEnds
<1>2. ~ClientInit => CallOK
  <2>1. ~ClientInit /\ ~Check => gaveUp' = gaveUp
    BY DEF Next, Cycle, Connect, Subscribe, Unsubscribe, Yield,
     Disconnect, Publish, CycleHandles, CycleReplyFails, CycleReadsNothing, CycleReadFails,
     TimerExpires, PingTimerExpires, LinkBreaks, BrokerCloses, BrokerSends,
     BrokerAnswers, BrokerTakesSilently, vars, history
  <2>2. Check => ~gaveUp
    <3>1. Check => gaveUp' = (gaveUp \/ call.op # "yield") \/ gaveUp' = gaveUp
      BY DEF Check
    <3> QED BY <3>1
  <2> QED BY <2>1, <2>2 DEF CallInv
<1> SUFFICES ASSUME CallOK, ~ClientInit PROVE CallOK'
  BY <1>1, <1>2
<1> USE ClientAssumption
<1>3. getNextPacketId \in Nat
  BY <1>0 DEF getNextPacketId, ScalarsOK
<1>4. \A op, q, m : Call(op, q, m).op = op /\ Call(op, q, m).qos = q /\ Call(op, q, m).n = m
  BY DEF Call
<1>5. CASE Connect
  <2> DEFINE e == Packet("CONNECT", 0)
             c == Call("connect", 0, 0)
  <2>1. e \in ToBroker /\ e.type = "CONNECT"
    BY SentPackets, PacketIs
  <2>2. /\ pc = "idle" /\ Begins(c, "check") /\ toClient' = toClient
        /\ UNCHANGED <<broker, claims, got>>
        /\ IF link THEN toBroker' = Append(toBroker, e) ELSE toBroker' = toBroker
    BY <1>5 DEF Connect, history
  <2>3. call' = c => AsksFor(e)'
    BY <1>4, <2>1 DEF AsksFor
  <2> QED BY <2>1, <2>2, <2>3, CallBegins
<1>6. ASSUME NEW type \in {"SUBSCRIBE", "UNSUBSCRIBE"}, NEW op,
             type = "SUBSCRIBE" => op = "subscribe",
             type = "UNSUBSCRIBE" => op = "unsubscribe",
             pc = "idle", next_packetid' = getNextPacketId, toClient' = toClient,
             Sends(Packet(type, next_packetid')), Begins(Call(op, 0, 0), "check"),
             UNCHANGED <<broker, claims, got>>
      PROVE  CallOK'
  <2> DEFINE c == Call(op, 0, 0)
  <2>1. Packet(type, next_packetid') \in ToBroker
    BY <1>3, <1>6, SentPackets
  <2> PICK e \in ToBroker : e = Packet(type, next_packetid')
    BY <2>1
  <2>2. e.type = type
    BY PacketIs
  <2>3. call' = c => AsksFor(e)'
    BY <1>4, <1>6, <2>2 DEF AsksFor
  <2>4. IF link THEN toBroker' = Append(toBroker, e) ELSE toBroker' = toBroker
    BY <1>6 DEF Sends
  <2> QED BY <1>6, <2>3, <2>4, CallBegins
<1>7. CASE Subscribe
  <2>1. /\ pc = "idle" /\ next_packetid' = getNextPacketId /\ toClient' = toClient
        /\ Sends(Packet("SUBSCRIBE", next_packetid'))
        /\ Begins(Call("subscribe", 0, 0), "check")
        /\ UNCHANGED <<broker, claims, got>>
    BY <1>7 DEF Subscribe, history
  <2> QED BY <1>6, <2>1
<1>8. CASE Unsubscribe
  <2>1. /\ pc = "idle" /\ next_packetid' = getNextPacketId /\ toClient' = toClient
        /\ Sends(Packet("UNSUBSCRIBE", next_packetid'))
        /\ Begins(Call("unsubscribe", 0, 0), "check")
        /\ UNCHANGED <<broker, claims, got>>
    BY <1>8 DEF Unsubscribe, history
  <2> QED BY <1>6, <2>1
<1>9. ASSUME NEW qos \in Qos, Publish(qos) PROVE CallOK'
  <2> DEFINE m == Message(qos, IF qos = 0 THEN 0 ELSE next_packetid', calls')
             c == Call("publish", qos, calls')
  <2>1. calls' \in 1..MaxCalls
    BY <1>0, <1>9 DEF Publish, Counts, ScalarsOK
  <2>2. (IF qos = 0 THEN 0 ELSE next_packetid') \in Nat
    BY <1>3, <1>9 DEF Publish
  <2>3. m \in ToBroker
    BY <2>1, <2>2, SentPackets
  <2>4. /\ pc = "idle" /\ toClient' = toClient /\ UNCHANGED <<broker, claims, got>>
        /\ IF link THEN toBroker' = Append(toBroker, m) ELSE toBroker' = toBroker
        /\ IF qos = 0 THEN UNCHANGED control ELSE Begins(c, "check")
    BY <1>9 DEF Publish, Sends, history
  <2>5. PICK e \in ToBroker : e = m
    BY <2>3
  <2>6. e.type = "PUBLISH" /\ e.qos = qos /\ e.n = calls'
    BY <2>5, PacketIs
  <2>7. CASE qos = 0
    <3>1. e \in ToBroker \ Asks
      BY <2>6, <2>7 DEF Asks
    <3>2. NoMore(toBroker', toBroker, Asks) /\ NoMore(toClient', toClient, Acks)
      BY <1>0, <2>4, <2>5, <3>1, NotMore
    <3>3. call' = call /\ held' = held /\ got' = got /\ claims' = claims
      BY <2>4, <2>7 DEF control, broker
    <3> QED BY <3>2, <3>3, CallFrame
  <2>8. CASE qos # 0
    <3>1. call' = c => AsksFor(e)'
      BY <1>4, <2>6 DEF AsksFor
    <3> HIDE DEF c, m
    <3> QED BY <2>4, <2>5, <2>8, <3>1, CallBegins
  <2> QED BY <2>7, <2>8
<1>10. CASE Disconnect
  <2>1. Packet("DISCONNECT", 0) \in ToBroker \ Asks
    BY SentPackets, PacketIs DEF Asks
  <2>2. NoMore(toBroker', toBroker, Asks) /\ NoMore(toClient', toClient, Acks)
    BY <1>0, <1>10, <2>1, NotMore DEF Disconnect, Sends
  <2>3. call' = call /\ held' = held /\ got' = got /\ claims' = claims
    BY <1>10 DEF Disconnect, control, broker, history
  <2> QED BY <2>2, <2>3, CallFrame
<1>11. CASE CycleReadsNothing
  <2>1. Packet("PINGREQ", 0) \in ToBroker \ Asks
    BY SentPackets, PacketIs DEF Asks
  <2>2. toBroker' = toBroker \/ toBroker' = Append(toBroker, Packet("PINGREQ", 0))
    BY <1>0, <1>11, IdleCycleSends DEF ScalarsOK
  <2>3. toClient' = toClient
    BY <1>11 DEF CycleReadsNothing
  <2>4. NoMore(toBroker', toBroker, Asks) /\ NoMore(toClient', toClient, Acks)
    BY <1>0, <2>1, <2>2, <2>3, NotMore
  <2>5. call' = call /\ held' = held /\ got' = got /\ claims' = claims
    BY <1>11 DEF CycleReadsNothing, broker, history
  <2> QED BY <2>4, <2>5, CallFrame
<1>12. CASE Yield \/ CycleReadFails \/ Check \/ TimerExpires \/ PingTimerExpires
            \/ UNCHANGED vars
  <2>1. UNCHANGED <<toBroker, toClient, held, got, claims>>
    BY <1>12 DEF Yield, CycleReadFails, Check, TimerExpires, PingTimerExpires, vars,
       broker, history
  <2>2. call' = call \/ pc = "idle" \/ call.op \in {"none", "yield"}
    <3>1. CASE Check
      BY <3>1 DEF Check
    <3>2. CASE ~Check
      BY <1>12, <3>2 DEF Yield, CycleReadFails, TimerExpires, PingTimerExpires, vars, control
    <3> QED BY <3>1, <3>2
  <2>3. NoMore(toBroker', toBroker, Asks) /\ NoMore(toClient', toClient, Acks)
    BY <1>0, <2>1, NotMore
  <2>4. \/ call' = call
        \/ None(toBroker, Asks) /\ None(toClient, Acks)
    BY <2>2, NoneBetween
  <2> QED BY <2>1, <2>3, <2>4, CallFrame
<1>13. CASE CycleReplyFails \/ LinkBreaks \/ BrokerCloses
  <2>1. claims' = claims /\ got' = got
    BY <1>13 DEF CycleReplyFails, LinkBreaks, BrokerCloses, history
  <2>2. CASE toBroker' = << >> /\ toClient' = << >>
    BY <2>1, <2>2, NoPackets, CallEnds DEF CallOK
  <2>3. CASE CycleReplyFails /\ toClient' = Tail(toClient) /\ toBroker' = toBroker
    <3>1. toClient # << >> /\ held' = held
      BY <2>3 DEF CycleReplyFails, broker
    <3>2. NoMore(toBroker', toBroker, Asks) /\ NoMore(toClient', toClient, Acks)
      BY <1>0, <2>3, <3>1, NotMore
    <3>3. call' = call \/ call.op = "yield"
      BY <2>3 DEF CycleReplyFails
    <3>4. \/ call' = call
          \/ None(toBroker, Asks) /\ None(toClient, Acks)
      BY <3>3, NoneBetween
    <3> QED BY <2>1, <3>1, <3>2, <3>4, CallFrame
  <2> QED BY <1>13, <2>2, <2>3 DEF CycleReplyFails, LinkBreaks, BrokerCloses
<1>14. CASE BrokerTakesSilently
  <2> DEFINE p == Head(toBroker)
  <2>1. /\ toBroker # << >> /\ toBroker' = Tail(toBroker) /\ toClient' = toClient
        /\ call' = call /\ claims' = claims
        /\ p.type = "PUBACK" \/ (p.type = "PUBLISH" /\ p.qos = 0)
        /\ BrokerTakes(p)
    BY <1>14 DEF BrokerTakesSilently, control
  <2>2. p \in ToBroker
    BY <1>0, <2>1, HeadPackets
  <2>3. held' = held
    BY <2>1 DEF BrokerTakes
  <2>4. got \subseteq got'
    BY <2>1, <2>2, TakenPackets DEF TypeInv, WireOK, HistoryOK
  <2>5. NoMore(toBroker', toBroker, Asks) /\ NoMore(toClient', toClient, Acks)
    BY <1>0, <2>1, NotMore
  <2> QED BY <2>1, <2>3, <2>4, <2>5, CallFrame
<1>15. ASSUME NEW qos \in Qos, BrokerSends(qos) PROVE CallOK'
  <2> DEFINE m == Message(qos, sent', sent')
  <2>1. sent' \in 1..MaxInbound /\ sent' \in Nat /\ qos \in 0..2
    BY <1>0, <1>15 DEF BrokerSends, ScalarsOK
  <2>2. m \in ToClient \ Acks
    BY <2>1, SentPackets, PacketIs DEF Acks
  <2>3. /\ toClient' = Append(toClient, m) /\ toBroker' = toBroker
        /\ call' = call /\ held' = held /\ got' = got /\ claims' = claims
    BY <1>15 DEF BrokerSends, control, history
  <2>4. NoMore(toBroker', toBroker, Asks) /\ NoMore(toClient', toClient, Acks)
    BY <1>0, <2>2, <2>3, NotMore
  <2> QED BY <2>3, <2>4, CallFrame
<1> QED BY <1>5, <1>7, <1>8, <1>9, <1>10, <1>11, <1>12, <1>13, <1>14, <1>15, CallCycle,
           CallBroker DEF Next, Cycle

\* In every behaviour, the call in progress has one packet or acknowledgement under
\* way, as long as no call has given up.
LEMMA CallInvariant == Spec => []CallInv
<1>1. Init => BaseOK /\ CallInv
  <2> SUFFICES ASSUME Init PROVE BaseOK /\ CallOK
    BY DEF CallInv
  <2>1. BaseOK
    BY DEF Init, BaseOK
  <2>2. CallOK
    BY NoPackets DEF Init, CallOK
  <2> QED BY <2>1, <2>2
<1> QED BY <1>1, BaseNext, CallNext, TypeInvariant, PTL DEF Spec

\* ConfirmedUnlessGaveUp: what a publish of QoS 1 or 2 takes for its
\* acknowledgement is its own, and for QoS 2 the last one, as long as no call
\* on this connection has given up; so the broker has what was claimed.
THEOREM ClaimsAreConfirmed == Spec => []ConfirmedUnlessGaveUp
<1>1. CallInv => ConfirmedUnlessGaveUp
  BY DEF CallInv, CallOK, ConfirmedUnlessGaveUp, PublishConfirmed
<1> QED BY <1>1, CallInvariant, PTL
-----------------------------------------------------------------------------
(* Acknowledged messages.                                                  *)

\* A SUBACK that accepts the subscription.
Accepts(p) == p.type = "SUBACK" /\ p.id # 128

\* A message that is not early is behind the SUBACK that the client has read,
\* or will have read before the message.
Late(p) == p.type = "PUBLISH" /\ p.n \notin early

AckOK ==
  /\ \A i \in DOMAIN toClient : Late(toClient[i]) =>
       \/ handler
       \/ \E j \in DOMAIN toClient : j < i /\ Accepts(toClient[j])
  /\ subscribed => \/ handler \/ ~link
                   \/ \E j \in DOMAIN toClient : Accepts(toClient[j])
  /\ acked \subseteq handled \cup early

AckInv == ~gaveUp => AckOK

\* Nothing moves towards the client.
LEMMA AckFrame ==
  ASSUME AckOK, UNCHANGED <<toClient, handler, link, subscribed, acked, early>>,
         handled \subseteq handled'
  PROVE  AckOK'
<1>1. acked' \subseteq handled' \cup early'
  BY DEF AckOK
<1> QED BY <1>1 DEF AckOK, Accepts, Late

\* The connection breaks.
LEMMA AckEmpties ==
  ASSUME AckOK, toClient' = << >>, ~link', UNCHANGED <<acked, early>>,
         handled \subseteq handled'
  PROVE  AckOK'
BY DEF AckOK

\* The broker sends one packet more, a message only after a SUBACK.
LEMMA AckLonger ==
  ASSUME WireOK, AckOK, NEW a \in ToClient, toClient' = Append(toClient, a),
         UNCHANGED <<handler, link, acked, handled>>, early \subseteq early',
         a.type = "PUBLISH" => subscribed \/ a.n \in early',
         link,
         subscribed' => subscribed \/ Accepts(a)
  PROVE  AckOK'
<1>1. /\ DOMAIN toClient' = 1..(Len(toClient) + 1)
      /\ DOMAIN toClient = 1..Len(toClient) /\ Len(toClient) \in Nat
      /\ \A i \in 1..Len(toClient) : toClient'[i] = toClient[i]
      /\ toClient'[Len(toClient) + 1] = a
  BY Longer DEF WireOK
<1>2. \A j \in DOMAIN toClient : j \in DOMAIN toClient' /\ j < Len(toClient) + 1
                                 /\ toClient'[j] = toClient[j]
  BY <1>1
<1>3. ASSUME NEW i \in DOMAIN toClient', toClient'[i].type = "PUBLISH",
             toClient'[i].n \notin early', ~handler
      PROVE  \E j \in DOMAIN toClient' : j < i /\ Accepts(toClient'[j])
  <2>1. CASE i \in DOMAIN toClient
    <3>2. Late(toClient[i])
      BY <1>2, <1>3, <2>1 DEF Late
    <3>1. PICK j \in DOMAIN toClient : j < i /\ Accepts(toClient[j])
      BY <1>3, <2>1, <3>2 DEF AckOK
    <3> QED BY <1>2, <3>1
  <2>2. CASE i = Len(toClient) + 1
    <3>1. subscribed
      BY <1>1, <1>3, <2>2
    <3>2. PICK j \in DOMAIN toClient : Accepts(toClient[j])
      BY <1>3, <3>1 DEF AckOK
    <3> QED BY <1>2, <2>2, <3>2
  <2> QED BY <1>1, <2>1, <2>2
<1>4. ASSUME subscribed', ~handler
      PROVE  \E j \in DOMAIN toClient' : Accepts(toClient'[j])
  <2>1. CASE subscribed
    <3>1. PICK j \in DOMAIN toClient : Accepts(toClient[j])
      BY <1>4, <2>1 DEF AckOK
    <3> QED BY <1>2, <3>1
  <2>2. CASE Accepts(a)
    <3>1. Len(toClient) + 1 \in DOMAIN toClient'
      BY <1>1
    <3> QED BY <1>1, <2>2, <3>1
  <2> QED BY <1>4, <2>1, <2>2
<1>5. \A i \in DOMAIN toClient' :
        toClient'[i].type = "PUBLISH" /\ toClient'[i].n \notin early' =>
        \/ handler'
        \/ \E j \in DOMAIN toClient' : j < i /\ Accepts(toClient'[j])
  BY <1>3
<1>6. subscribed' => \/ handler' \/ ~link'
                     \/ \E j \in DOMAIN toClient' : Accepts(toClient'[j])
  BY <1>4
<1>7. acked' \subseteq handled' \cup early'
  BY DEF AckOK
<1> QED BY <1>5, <1>6, <1>7 DEF AckOK, Accepts, Late

\* The client reads a packet; a handler stays installed, and an accepting SUBACK
\* installs one.
LEMMA AckShorter ==
  ASSUME WireOK, AckOK, handler \in BOOLEAN, toClient # << >>,
         toClient' = Tail(toClient),
         UNCHANGED <<subscribed, link, early>>,
         handler \/ Accepts(Head(toClient)) => handler',
         acked' \subseteq handled' \cup early'
  PROVE  AckOK'
<1> DEFINE p == Head(toClient)
<1>1. /\ p = toClient[1] /\ 1 \in DOMAIN toClient
      /\ DOMAIN toClient = 1..Len(toClient) /\ Len(toClient) \in Nat
      /\ DOMAIN toClient' = 1..(Len(toClient) - 1)
      /\ \A i \in 1..(Len(toClient) - 1) : toClient'[i] = toClient[i + 1]
  BY Shorter DEF WireOK
<1>2. \A j \in DOMAIN toClient : j = 1 \/ (j - 1 \in DOMAIN toClient' /\ toClient'[j - 1] = toClient[j])
  <2>1. ASSUME NEW j \in DOMAIN toClient, j # 1
        PROVE  j - 1 \in DOMAIN toClient' /\ toClient'[j - 1] = toClient[j]
    <3>1. j - 1 \in 1..(Len(toClient) - 1) /\ (j - 1) + 1 = j
      BY <1>1, <2>1
    <3> QED BY <1>1, <3>1
  <2> QED BY <2>1
<1>3. \A i \in DOMAIN toClient' : i + 1 \in DOMAIN toClient /\ toClient'[i] = toClient[i + 1]
                                  /\ i \in Int
  BY <1>1
<1>4. ASSUME NEW i \in DOMAIN toClient', toClient'[i].type = "PUBLISH",
             toClient'[i].n \notin early', ~handler'
      PROVE  \E j \in DOMAIN toClient' : j < i /\ Accepts(toClient'[j])
  <2>1. Late(toClient[i + 1]) /\ i + 1 \in DOMAIN toClient
    BY <1>3, <1>4 DEF Late
  <2>2. PICK j \in DOMAIN toClient : j < i + 1 /\ Accepts(toClient[j])
    BY <1>4, <2>1 DEF AckOK
  <2>3. j # 1
    BY <1>1, <1>4, <2>2
  <2>4. j - 1 < i
    BY <1>1, <1>3, <2>2
  <2>5. j - 1 \in DOMAIN toClient' /\ toClient'[j - 1] = toClient[j]
    BY <1>2, <2>3
  <2> QED BY <2>2, <2>4, <2>5
<1>5. ASSUME subscribed', link', ~handler'
      PROVE  \E j \in DOMAIN toClient' : Accepts(toClient'[j])
  <2>1. PICK j \in DOMAIN toClient : Accepts(toClient[j])
    BY <1>5 DEF AckOK
  <2>2. j # 1
    BY <1>1, <1>5, <2>1
  <2> QED BY <1>2, <2>1, <2>2
<1>6. \A i \in DOMAIN toClient' :
        toClient'[i].type = "PUBLISH" /\ toClient'[i].n \notin early' =>
        \/ handler'
        \/ \E j \in DOMAIN toClient' : j < i /\ Accepts(toClient'[j])
  BY <1>4
<1>7. subscribed' => \/ handler' \/ ~link'
                     \/ \E j \in DOMAIN toClient' : Accepts(toClient'[j])
  BY <1>5
<1> QED BY <1>6, <1>7 DEF AckOK, Accepts, Late

\* The client reads a message with the handler installed or an early one, or the
\* SUBACK that installs it, or something else.
LEMMA AckCycle ==
  ASSUME TypeInv, BaseOK, CallOK, AckOK, CycleHandles
  PROVE  AckOK'
<1> DEFINE p == Head(toClient)
<1>0. /\ WireOK /\ toClient \in Seq(ToClient) /\ handler \in BOOLEAN
      /\ toClient # << >> /\ toClient' = Tail(toClient)
      /\ UNCHANGED <<subscribed, link, early>>
  BY DEF TypeInv, WireOK, ScalarsOK, CycleHandles, broker
<1>1. p = toClient[1] /\ 1 \in DOMAIN toClient /\ p \in ToClient
  BY <1>0, Shorter
<1>2. p.type = "SUBACK" => call.op = "subscribe" /\ Awaits = "SUBACK" /\ ~handler
  <2>1. ASSUME p.type = "SUBACK" PROVE call.op = "subscribe"
    <3>1. p \in Acks
      BY <1>1, <2>1 DEF Acks
    <3>2. Confirms(p)
      BY <1>1, <3>1 DEF CallOK
    <3> QED BY <2>1, <3>2 DEF Confirms
  <2>2. call.op = "subscribe" => Awaits = "SUBACK"
    BY DEF Awaits
  <2> QED BY <2>1, <2>2 DEF BaseOK
<1>3. p.type = "SUBACK" => handler' = Accepts(p)
  BY <1>2 DEF CycleHandles, Finish, Accepts
<1>4. p.type # "SUBACK" => handler' = handler
  <2>1. call.op = "subscribe" => Awaits = "SUBACK"
    BY DEF Awaits
  <2> QED BY <2>1 DEF CycleHandles, Finish
<1>5. handler \/ Accepts(p) => handler'
  BY <1>2, <1>3, <1>4 DEF Accepts
<1>6. acked' \subseteq handled' \cup early'
  <2>1. acked' = IF p.type = "PUBLISH" /\ p.qos > 0 THEN acked \cup {p.n} ELSE acked
    BY DEF CycleHandles
  <2>2. CASE Late(p)
    <3>1. handler
      <4>1. \A j \in DOMAIN toClient : ~(j < 1)
        BY <1>0
      <4> QED BY <1>1, <2>2, <4>1 DEF AckOK
    <3>2. handled' = handled \cup {p.n}
      BY <2>2, <3>1 DEF CycleHandles, Deliver, Late
    <3> QED BY <1>0, <2>1, <3>2 DEF AckOK
  <2>3. CASE ~Late(p)
    <3>1. handled \subseteq handled'
      BY DEF CycleHandles, Deliver
    <3>2. p.type = "PUBLISH" => p.n \in early'
      BY <1>0, <2>3 DEF Late
    <3> QED BY <1>0, <2>1, <3>1, <3>2 DEF AckOK
  <2> QED BY <2>2, <2>3
<1> QED BY <1>0, <1>5, <1>6, AckShorter

\* What is acknowledged has been handled, step by step.
LEMMA AckNext == TypeInv /\ BaseOK /\ CallInv /\ AckInv /\ [Next]_vars => AckInv'
<1> SUFFICES ASSUME TypeInv, BaseOK, CallInv, AckInv, [Next]_vars, ~gaveUp' PROVE AckOK'
  BY DEF AckInv
<1>0. /\ WireOK /\ ScalarsOK /\ toBroker \in Seq(ToBroker) /\ toClient \in Seq(ToClient)
      /\ gaveUp \in BOOLEAN
  BY DEF TypeInv, WireOK, ScalarsOK
<1>1. CASE ClientInit
  <2>1. toClient' = << >> /\ ~subscribed' /\ acked' = {}
    BY <1>1 DEF ClientInit
  <2> QED BY <2>1 DEF AckOK
<1>2. ~ClientInit => ~gaveUp
  <2>1. ~ClientInit /\ ~Check => gaveUp' = gaveUp
    BY DEF Next, Cycle, Connect, Subscribe, Unsubscribe, Yield,
     Disconnect, Publish, CycleHandles, CycleReplyFails, CycleReadsNothing, CycleReadFails,
     TimerExpires, PingTimerExpires, LinkBreaks, BrokerCloses, BrokerSends,
     BrokerAnswers, BrokerTakesSilently, vars, history
  <2>2. Check => ~gaveUp
    <3>1. Check => gaveUp' = (gaveUp \/ call.op # "yield") \/ gaveUp' = gaveUp
      BY DEF Check
    <3> QED BY <3>1
  <2> QED BY <2>1, <2>2
<1> SUFFICES ASSUME CallOK, AckOK, ~ClientInit PROVE AckOK'
  BY <1>1, <1>2 DEF CallInv, AckInv
<1> USE ClientAssumption
<1>3. CASE LinkBreaks \/ BrokerCloses
  <2>1. /\ toClient' = << >> /\ ~link' /\ UNCHANGED <<acked, early>>
        /\ handled \subseteq handled'
    BY <1>3 DEF LinkBreaks, BrokerCloses, history
  <2> QED BY <2>1, AckEmpties
<1>7. CASE CycleReplyFails
  <2> DEFINE p == Head(toClient)
  <2>1. /\ UNCHANGED <<acked, early, handler, subscribed>>
        /\ handled \subseteq handled' /\ toClient # << >>
    BY <1>7 DEF CycleReplyFails, Deliver, client, broker
  <2>2. CASE toClient' = << >> /\ ~link'
    BY <2>1, <2>2, AckEmpties
  <2>3. CASE toClient' = Tail(toClient) /\ link' = link
    <3>1. ~Accepts(p)
      BY <1>7 DEF CycleReplyFails, Replies, Accepts
    <3>2. acked' \subseteq handled' \cup early'
      BY <2>1 DEF AckOK
    <3>3. handler \in BOOLEAN
      BY <1>0 DEF ScalarsOK
    <3> QED BY <1>0, <2>1, <2>3, <3>1, <3>2, <3>3, AckShorter
  <2> QED BY <1>7, <2>2, <2>3 DEF CycleReplyFails
<1>4. CASE BrokerAnswers
  <2> DEFINE p == Head(toBroker)
  <2>1. /\ p \in ToBroker /\ p.type \notin {"PUBACK", "DISCONNECT"}
        /\ ~(p.type = "PUBLISH" /\ p.qos = 0) /\ link
        /\ UNCHANGED <<handler, link, acked, handled, early>>
    BY <1>0, <1>4, HeadPackets DEF BrokerAnswers, client
  <2>2. PICK a \in Answers(p) : /\ toClient' = Append(toClient, a)
                                /\ subscribed' = CASE a.type = "SUBACK" -> a.id # 128
                                                   [] a.type = "UNSUBACK" -> FALSE
                                                   [] OTHER -> subscribed
    BY <1>4 DEF BrokerAnswers
  <2>3. a \in ToClient /\ a.type # "PUBLISH"
    BY <2>1, AnswersAre
  <2>4. subscribed' => subscribed \/ Accepts(a)
    BY <2>2 DEF Accepts
  <2> QED BY <1>0, <2>1, <2>2, <2>3, <2>4, AckLonger
<1>5. ASSUME NEW qos \in Qos, BrokerSends(qos) PROVE AckOK'
  <2> DEFINE m == Message(qos, sent', sent')
  <2>1. sent' \in 1..MaxInbound /\ sent' \in Nat /\ qos \in 0..2
    BY <1>0, <1>5 DEF BrokerSends, ScalarsOK
  <2>2. PICK a \in ToClient : a = m
    BY <2>1, SentPackets
  <2>3. /\ toClient' = Append(toClient, a) /\ link
        /\ UNCHANGED <<handler, link, acked, handled, subscribed>>
    BY <1>5, <2>2 DEF BrokerSends, client
  <2>4. early \subseteq early' /\ (subscribed \/ a.n \in early')
    BY <1>5, <2>2, PacketIs DEF BrokerSends
  <2> QED BY <1>0, <2>3, <2>4, AckLonger
<1>6. CASE \/ Connect \/ Subscribe \/ Unsubscribe \/ Yield \/ Disconnect
           \/ \E qos \in Qos : Publish(qos)
           \/ CycleReadsNothing \/ CycleReadFails \/ Check
           \/ TimerExpires \/ PingTimerExpires \/ BrokerTakesSilently
           \/ UNCHANGED vars
  <2>1. UNCHANGED <<toClient, handler, link, subscribed, acked, early, handled>>
    BY <1>6 DEF Connect, Subscribe, Unsubscribe, Yield, Disconnect, Publish,
       CycleReadsNothing, CycleReadFails, Check, TimerExpires, PingTimerExpires,
       BrokerTakesSilently, vars, client, broker, history
  <2> QED BY <2>1, AckFrame
<1> QED BY <1>3, <1>4, <1>5, <1>6, <1>7, AckCycle DEF Next, Cycle

\* AckedWasHandled: the handler is installed when a message of QoS 1 or 2 that
\* was sent after its SUBACK is read, in whatever call, because the SUBACK is
\* read before it and by the subscribe it belongs to, unless a call gave up.
\* What was sent before the SUBACK is acknowledged and may be lost.
THEOREM AcknowledgedAreHandled == Spec => []AckedWasHandled
<1>1. Init => BaseOK /\ AckInv
  <2> SUFFICES ASSUME Init PROVE BaseOK /\ AckOK
    BY DEF AckInv
  <2>1. BaseOK
    BY DEF Init, BaseOK
  <2>2. AckOK
    BY DEF Init, AckOK
  <2> QED BY <2>1, <2>2
<1>2. AckInv => AckedWasHandled
  BY DEF AckInv, AckOK, AckedWasHandled
<1> QED BY <1>1, <1>2, BaseNext, AckNext, TypeInvariant, CallInvariant, PTL DEF Spec
=============================================================================
