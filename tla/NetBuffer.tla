----------------------------- MODULE NetBuffer -----------------------------
(***************************************************************************)
(* Reading MQTT packets from a TLS connection: readPacket and decodePacket *)
(* of MQTTClient.c over mqtt_mbedtls_read, which serves reads of any       *)
(* length from a buffer that one mbedtls_ssl_read fills.                   *)
(*                                                                         *)
(* The broker's packets form a stream of bytes.  mbedtls_ssl_read returns  *)
(* the next piece of it, at most as long as the buffer, or nothing before  *)
(* the time is over, or an error.  Where the pieces end is up to the       *)
(* broker and the TLS library: `aligned` says that they end where packets  *)
(* end, as they do when each is one TLS record that fits into the buffer.  *)
(***************************************************************************)
EXTENDS Naturals, Sequences, FiniteSets

CONSTANTS
  Lengths,          \* the remaining lengths of the packets of the stream
  Radix,            \* of the remaining length field: 128 in the code
  BufferLength      \* MBEDTLS_MQTT_RECV_BUF_LEN - 1

ASSUME NetBufferAssumption ==
  /\ Radix \in Nat \ {0, 1}
  /\ Lengths \in Seq(0..(Radix * Radix * Radix * Radix - 1))
  /\ BufferLength \in Nat \ {0}

MAX_NO_OF_REMAINING_LENGTH_BYTES == 4

\* A remaining length of up to four digits, the least significant one first;
\* `more` is the continuation bit.
Multiplier(i) == CASE i = 0 -> 1
                   [] i = 1 -> Radix
                   [] i = 2 -> Radix * Radix
                   [] i = 3 -> Radix * Radix * Radix
Digit(n, i) == (n \div Multiplier(i)) % Radix
DigitsOf(n) == IF n < Multiplier(1) THEN 1 ELSE IF n < Multiplier(2) THEN 2
               ELSE IF n < Multiplier(3) THEN 3 ELSE 4

\* The bytes of packet p: header, remaining length, and the rest.
PacketBytes(p) ==
  LET k == DigitsOf(Lengths[p]) IN
  [i \in 1..(1 + k + Lengths[p]) |->
     [packet |-> p, index |-> i,
      digit  |-> IF i \in 2..(k + 1) THEN Digit(Lengths[p], i - 2) ELSE 0,
      more   |-> i \in 2..k]]

StreamTo[p \in 0..Len(Lengths)] ==
  IF p = 0 THEN << >> ELSE StreamTo[p - 1] \o PacketBytes(p)
Stream == StreamTo[Len(Lengths)]

\* The byte behind the last one that was received: the buffer was cleared.
ZeroByte == [packet |-> 0, index |-> 0, digit |-> 0, more |-> FALSE]

\* The number of bytes of the stream up to which it may be cut.
PacketEnds == {i \in 1..Len(Stream) : i = Len(Stream) \/ Stream[i + 1].index = 1}

VARIABLES
  aligned,              \* pieces end where packets end
  arrived,              \* bytes of the stream mbedtls_ssl_read has returned
  mqtt_recvbuf, mqtt_recv_len, mqtt_recv_offset,
  at,                   \* where mqtt_mbedtls_read is
  want,                 \* its len
  buffer,               \* what it has written to its buffer so far
  part,                 \* what readPacket is reading
  readbuf,              \* the bytes of the packet readPacket has read
  digits, rem_len,      \* decodePacket: bytes read and value so far
  last,                 \* history: the bytes of the last complete read
  packets               \* history: what readPacket has returned

bufVars  == <<mqtt_recvbuf, mqtt_recv_len, mqtt_recv_offset>>
readVars == <<at, want, buffer>>
pktVars  == <<part, readbuf, digits, rem_len>>
vars == <<aligned, arrived, bufVars, readVars, pktVars, last, packets>>

Init ==
  /\ aligned \in BOOLEAN
  /\ arrived = 0
  /\ mqtt_recvbuf = << >> /\ mqtt_recv_len = 0 /\ mqtt_recv_offset = 0
  /\ at = "enter" /\ want = 1 /\ buffer = << >>
  /\ part = "header" /\ readbuf = << >> /\ digits = 0 /\ rem_len = 0
  /\ last = << >> /\ packets = << >>

\* The bytes of mqtt_recvbuf from offset i on, n of them.
Received(i, n) ==
  [j \in 1..n |-> IF i + j <= Len(mqtt_recvbuf) THEN mqtt_recvbuf[i + j] ELSE ZeroByte]

Remaining == IF mqtt_recv_offset > mqtt_recv_len THEN 0
             ELSE mqtt_recv_len - mqtt_recv_offset
-----------------------------------------------------------------------------
(* Faulty variants of definitions below, for the properties to find.       *)

\* The buffer is not cleared before a new piece is read into it.
FillsUncleared(n) ==
  /\ mqtt_recvbuf' = SubSeq(Stream, arrived + 1, arrived + n)
                       \o SubSeq(mqtt_recvbuf, n + 1, Len(mqtt_recvbuf))
  /\ mqtt_recv_len' = n
  /\ mqtt_recv_offset' = 0
  /\ arrived' = arrived + n

\* A new piece is read without rewinding the offset into the buffer.
FillsAtOffset(n) ==
  /\ mqtt_recvbuf' = SubSeq(Stream, arrived + 1, arrived + n)
  /\ mqtt_recv_len' = n
  /\ UNCHANGED mqtt_recv_offset
  /\ arrived' = arrived + n

\* The continuation bit of the remaining length is not looked at.
ReadLengthOneByte(b) ==
  /\ digits' = digits + 1
  /\ rem_len' = rem_len + b.digit * Multiplier(digits)
  /\ readbuf' = Append(readbuf, b)
  /\ IF rem_len' = 0
       THEN part' = "done" /\ want' = 0
       ELSE part' = "body" /\ want' = rem_len'
-----------------------------------------------------------------------------
(* readPacket and decodePacket: what they do with the bytes of a read.     *)

\* The packet is complete; the next read is that of the next header.
PacketDone(bytes) ==
  /\ packets' = Append(packets, bytes)
  /\ part' = "header" /\ want' = 1
  /\ readbuf' = << >> /\ digits' = 0 /\ rem_len' = 0

\* readPacket gives up: its bytes are lost.
PacketDropped ==
  /\ part' = "header" /\ want' = 1
  /\ readbuf' = << >> /\ digits' = 0 /\ rem_len' = 0
  /\ UNCHANGED packets

\* decodePacket has a byte of the remaining length.
ReadLength(b) ==
  /\ digits' = digits + 1
  /\ rem_len' = rem_len + b.digit * Multiplier(digits)
  /\ readbuf' = Append(readbuf, b)
  /\ IF b.more /\ digits' < MAX_NO_OF_REMAINING_LENGTH_BYTES
       THEN part' = "length" /\ want' = 1
       ELSE IF rem_len' = 0
         THEN part' = "done" /\ want' = 0
         ELSE part' = "body" /\ want' = rem_len'

\* mqtt_mbedtls_read returns len bytes.
Returns(bytes) ==
  /\ last' = bytes
  /\ at' = "enter" /\ buffer' = << >>
  /\ CASE part = "header" ->
            /\ part' = "length" /\ want' = 1 /\ readbuf' = bytes
            /\ UNCHANGED <<digits, rem_len, packets>>
       [] part = "length" -> ReadLength(bytes[1]) /\ UNCHANGED packets
       [] part = "body"   -> PacketDone(readbuf \o bytes)

\* It returns 0 or -1.  Only decodePacket's caller does not look: the packet
\* then has the length decoded so far.
ReturnsNothing ==
  /\ at' = "enter" /\ buffer' = << >>
  /\ IF part = "length"
       THEN /\ IF rem_len = 0 THEN part' = "done" /\ want' = 0
                              ELSE part' = "body" /\ want' = rem_len
            /\ UNCHANGED <<readbuf, digits, rem_len, packets>>
       ELSE PacketDropped
  /\ UNCHANGED last

\* A packet without a rest needs no third read.
ReadPacketEnds ==
  /\ part = "done"
  /\ PacketDone(readbuf)
  /\ UNCHANGED <<aligned, arrived, bufVars, at, buffer, last>>
-----------------------------------------------------------------------------
(* mqtt_mbedtls_read and buffered_mbedtls_read.                            *)

\* At the end of a read a buffer that was read to its end is marked empty.
ResetIfEmpty(offset) ==
  /\ IF offset = mqtt_recv_len
       THEN mqtt_recv_len' = 0 /\ mqtt_recv_offset' = 0
       ELSE UNCHANGED mqtt_recv_len /\ mqtt_recv_offset' = offset
  /\ UNCHANGED mqtt_recvbuf

\* The bytes wanted are all in the buffer.
ReadBuffered ==
  /\ at = "enter" /\ part # "done" /\ mqtt_recv_len # 0
  /\ mqtt_recv_offset <= mqtt_recv_len /\ want <= Remaining
  /\ Returns(Received(mqtt_recv_offset, want))
  /\ ResetIfEmpty(mqtt_recv_offset + want)
  /\ UNCHANGED <<aligned, arrived>>

\* The copying loop of the other branch: it runs while offset <= recv_len,
\* that is, one byte too far, and stops earlier if the read is complete.
Copies(limit) ==
  LET n == IF mqtt_recv_offset > mqtt_recv_len THEN 0 ELSE Remaining + 1
      k == IF n < limit THEN n ELSE limit
      bytes == buffer \o Received(mqtt_recv_offset, k)
  IN IF Len(bytes) = want
       THEN Returns(bytes) /\ ResetIfEmpty(mqtt_recv_offset + k)
       ELSE /\ buffer' = bytes /\ at' = "fill"
            /\ mqtt_recv_offset' = mqtt_recv_offset + k
            /\ UNCHANGED <<mqtt_recvbuf, mqtt_recv_len, want, pktVars, last, packets>>

ReadRemain ==
  /\ at = "enter" /\ part # "done" /\ mqtt_recv_len # 0
  /\ mqtt_recv_offset > mqtt_recv_len \/ want > Remaining
  /\ Copies(want)
  /\ UNCHANGED <<aligned, arrived>>

ReadMore ==
  /\ at = "copy"
  /\ Copies(want - Len(buffer))
  /\ UNCHANGED <<aligned, arrived>>

\* A piece of n bytes arrives in the cleared buffer.
Fills(n) ==
  /\ mqtt_recvbuf' = SubSeq(Stream, arrived + 1, arrived + n)
  /\ mqtt_recv_len' = n
  /\ mqtt_recv_offset' = 0
  /\ arrived' = arrived + n

NeedsFill == part # "done" /\ (at = "fill" \/ (at = "enter" /\ mqtt_recv_len = 0))

BufferedRead ==
  /\ NeedsFill
  /\ \E n \in 1..BufferLength :
       /\ arrived + n <= Len(Stream)
       /\ aligned => arrived + n \in PacketEnds
       /\ Fills(n)
  /\ at' = IF at = "fill" THEN "copy" ELSE "enter"
  /\ UNCHANGED <<aligned, want, buffer, pktVars, last, packets>>

\* Time is over, or the connection is closed or broken: what has been copied
\* to the caller's buffer is forgotten.
BufferedReadFails ==
  /\ NeedsFill
  /\ mqtt_recvbuf' = << >> /\ mqtt_recv_len' = 0 /\ mqtt_recv_offset' = 0
  /\ ReturnsNothing
  /\ UNCHANGED <<aligned, arrived>>

Next == ReadBuffered \/ ReadRemain \/ ReadMore \/ BufferedRead
          \/ BufferedReadFails \/ ReadPacketEnds

Spec == Init /\ [][Next]_vars
-----------------------------------------------------------------------------
(* Properties.                                                             *)

Bytes == Seq({Stream[i] : i \in DOMAIN Stream} \cup {ZeroByte})

TypeOK ==
  /\ aligned \in BOOLEAN /\ arrived \in 0..Len(Stream)
  /\ mqtt_recvbuf \in Bytes /\ mqtt_recv_len \in 0..BufferLength
  /\ mqtt_recv_offset \in 0..(mqtt_recv_len + 1)
  /\ at \in {"enter", "fill", "copy"} /\ want \in Nat
  /\ buffer \in Bytes /\ Len(buffer) <= want
  /\ part \in {"header", "length", "body", "done"}
  /\ readbuf \in Bytes /\ rem_len \in Nat
  /\ digits \in 0..MAX_NO_OF_REMAINING_LENGTH_BYTES
  /\ last \in Bytes /\ packets \in Seq(Bytes)

\* The comment of the copying loop says that it writes what remains in the
\* buffer: a read returns bytes that follow each other in the stream.  The
\* code does not keep it when a read is longer than what remains: the loop
\* also writes the byte behind the last one received.
ReadsStream ==
  \/ last = << >>
  \/ \E i \in 0..(Len(Stream) - Len(last)) : last = SubSeq(Stream, i + 1, i + Len(last))

\* As long as every piece ends where a packet ends, readPacket returns the
\* packets of the broker one by one, none lost, split or merged, although
\* several may arrive at once and reads may time out between them.
PacketsExact ==
  [][aligned =>
       /\ Len(packets) < Len(Lengths)
       /\ packets' = Append(packets, PacketBytes(Len(packets) + 1))]_packets

Position(b) == CHOOSE i \in DOMAIN Stream : Stream[i] = b

\* However the stream is cut, and whatever is lost to timeouts in the middle
\* of a packet, no byte is read twice and none before an earlier one.
BytesInOrder ==
  \A p, q \in DOMAIN packets : \A i \in DOMAIN packets[p], j \in DOMAIN packets[q] :
    LET b == packets[p][i]
        c == packets[q][j]
    IN (p < q \/ (p = q /\ i < j)) /\ ZeroByte \notin {b, c}
         => Position(b) < Position(c)
=============================================================================
