-------------------------- MODULE PacketPollProofs --------------------------
(***************************************************************************)
(* Theorems about NetBuffer and PacketPoll, for every stream of packets,   *)
(* every base of the remaining length and every length of the receive      *)
(* buffer: first about the client's readPacket, then about the library's   *)
(* own readers.                                                            *)
(***************************************************************************)
EXTENDS PacketPoll, Integers, FiniteSetTheorems, SequenceTheorems, TLAPS

(* Induction.  A set of numbers has a least element, because the intervals *)
(* 1..n are well-founded under inclusion; the rest of the module states    *)
(* what is to be shown of every number as a set of numbers.                *)

\* Every set of natural numbers has a least one.
LEMMA Least ==
  ASSUME NEW T, T \subseteq Nat, T # {}
  PROVE  \E x \in T : \A y \in T : x <= y
<1> DEFINE I == {1..n : n \in T}
<1>1. \A n \in Nat : 1..n \in FiniteSubsetsOf(Nat)
  BY FS_Interval DEF FiniteSubsetsOf
<1>2. PICK J \in I : \A K \in I : ~(<<K, J>> \in StrictSubsetOrdering(Nat))
  <2>1. IsWellFoundedOn(StrictSubsetOrdering(Nat), FiniteSubsetsOf(Nat))
    BY FS_StrictSubsetOrderingWellFounded
  <2>2. I # {} /\ I \subseteq FiniteSubsetsOf(Nat)
    BY <1>1
  <2> QED BY <2>1, <2>2, WFMin
<1>3. PICK n \in T : J = 1..n
  OBVIOUS
<1>4. \A m \in T : ~(1..m \subseteq 1..n /\ 1..m # 1..n)
  <2> TAKE m \in T
  <2>1. <<1..m, 1..n>> \notin StrictSubsetOrdering(Nat)
    BY <1>2, <1>3
  <2>2. 1..m \in SUBSET Nat /\ 1..n \in SUBSET Nat
    OBVIOUS
  <2> QED BY <2>1, <2>2 DEF StrictSubsetOrdering
<1>5. \A m \in T : n <= m
  <2> SUFFICES ASSUME NEW m \in T, m < n PROVE FALSE
    OBVIOUS
  <2>1. 1..m \subseteq 1..n
    OBVIOUS
  <2>2. n \in 1..n /\ n \notin 1..m
    OBVIOUS
  <2> QED BY <1>4, <2>1, <2>2
<1> QED BY <1>5

\* Induction from 0 to n.
LEMMA Induction ==
  ASSUME NEW n \in Nat, NEW T, 0 \in T, \A i \in 1..n : i - 1 \in T => i \in T
  PROVE  0..n \subseteq T
<1> SUFFICES ASSUME (0..n) \ T # {} PROVE FALSE
  OBVIOUS
<1>1. PICK m \in (0..n) \ T : \A k \in (0..n) \ T : m <= k
  <2>1. (0..n) \ T \subseteq Nat
    OBVIOUS
  <2> QED BY <2>1, Least
<1>2. m # 0 /\ m \in 1..n
  BY <1>1
<1>3. m - 1 \in T
  BY <1>1, <1>2
<1> QED BY <1>1, <1>2, <1>3
-----------------------------------------------------------------------------
(* Remaining lengths.                                                      *)

Count == Len(Lengths)
MaxLength == Radix * Radix * Radix * Radix - 1

\* Products.
LEMMA Products ==
  ASSUME NEW a \in Nat, NEW b \in Nat
  PROVE  a * b \in Nat
OBVIOUS

\* The assumptions, as they are used.
LEMMA Sizes ==
  /\ Radix \in Nat /\ Radix > 1
  /\ Count \in Nat
  /\ \A p \in 1..Count : Lengths[p] \in Nat /\ Lengths[p] <= MaxLength
  /\ BufferLength \in Nat /\ BufferLength > 0
<1>1. Radix \in Nat /\ Radix > 1 /\ BufferLength \in Nat /\ BufferLength > 0
  BY NetBufferAssumption
<1>2. MaxLength \in Int
  BY <1>1, Products DEF MaxLength
<1>3. Lengths \in Seq(0..MaxLength)
  BY NetBufferAssumption DEF MaxLength
<1> QED BY <1>1, <1>2, <1>3 DEF Count

\* A number of one to four digits is one.
LEMMA DigitsOfType == \A n : DigitsOf(n) \in 1..4
BY DEF DigitsOf

\* The multipliers.
LEMMA Multipliers ==
  /\ Multiplier(0) = 1 /\ Multiplier(1) = Radix /\ Multiplier(2) = Radix * Radix
  /\ Multiplier(3) = Radix * Radix * Radix
  /\ \A i \in 0..3 : Multiplier(i) \in Nat
<1>1. /\ Multiplier(0) = 1 /\ Multiplier(1) = Radix /\ Multiplier(2) = Radix * Radix
      /\ Multiplier(3) = Radix * Radix * Radix
  BY DEF Multiplier
<1>2. Radix \in Nat /\ Radix * Radix \in Nat /\ Radix * Radix * Radix \in Nat
  BY Sizes, Products
<1>3. \A i \in 0..3 : i = 0 \/ i = 1 \/ i = 2 \/ i = 3
  OBVIOUS
<1> QED BY <1>1, <1>2, <1>3
-----------------------------------------------------------------------------
(* The stream.                                                             *)

Byte == [packet : Nat, index : Nat, digit : Nat, more : BOOLEAN]
PacketLength(p) == 1 + DigitsOf(Lengths[p]) + Lengths[p]

\* Where packet p ends.
End(p) == Len(StreamTo[p])

\* A digit is a number, and a packet a sequence of bytes.
LEMMA PacketType ==
  ASSUME NEW p \in 1..Count
  PROVE  /\ PacketBytes(p) \in Seq(Byte) /\ Len(PacketBytes(p)) = PacketLength(p)
         /\ PacketLength(p) \in Nat /\ PacketLength(p) >= 2
         /\ \A i \in 1..PacketLength(p) :
              PacketBytes(p)[i].packet = p /\ PacketBytes(p)[i].index = i
<1>1. Lengths[p] \in Nat /\ DigitsOf(Lengths[p]) \in 1..4
  BY Sizes, DigitsOfType
<1>2. PacketLength(p) \in Nat /\ PacketLength(p) >= 2
  BY <1>1 DEF PacketLength
<1>3. ASSUME NEW i \in 2..(DigitsOf(Lengths[p]) + 1)
      PROVE  Digit(Lengths[p], i - 2) \in Nat
  <2>1. i - 2 \in 0..3
    BY <1>1
  <2>2. Multiplier(i - 2) \in Nat /\ Multiplier(i - 2) # 0
    BY <2>1, Multipliers, Sizes
  <2>3. Lengths[p] \div Multiplier(i - 2) \in Nat
    BY <1>1, <2>2
  <2> QED BY <2>3, Sizes DEF Digit
<1> DEFINE k == DigitsOf(Lengths[p])
           byte(i) == [packet |-> p, index |-> i,
                       digit  |-> IF i \in 2..(k + 1) THEN Digit(Lengths[p], i - 2) ELSE 0,
                       more   |-> i \in 2..k]
<1>4. \A i \in 1..PacketLength(p) : byte(i) \in Byte
  BY <1>3 DEF Byte
<1>5. PacketBytes(p) = [i \in 1..PacketLength(p) |-> byte(i)]
  BY DEF PacketBytes, PacketLength
<1> HIDE DEF byte
<1>6. PacketBytes(p) \in Seq(Byte) /\ Len(PacketBytes(p)) = PacketLength(p)
  BY <1>2, <1>4, <1>5
<1>7. \A i \in 1..PacketLength(p) : byte(i).packet = p /\ byte(i).index = i
  BY DEF byte
<1> QED BY <1>2, <1>5, <1>6, <1>7

\* The recursive definition of the stream has a solution.
LEMMA StreamUnfolds ==
  \A p \in 0..Count :
    StreamTo[p] = IF p = 0 THEN << >> ELSE StreamTo[p - 1] \o PacketBytes(p)
<1> USE Sizes
<1> DEFINE Good(g, n) ==
             \A p \in 0..n : g[p] = IF p = 0 THEN << >> ELSE g[p - 1] \o PacketBytes(p)
           Solved == {n \in 0..Count : \E g : /\ g = [q \in 0..n |-> g[q]]
                                              /\ Good(g, n)}
<1>1. 0 \in Solved
  <2> DEFINE g == [q \in 0..0 |-> << >>]
  <2>1. g = [q \in 0..0 |-> g[q]] /\ Good(g, 0)
    OBVIOUS
  <2> HIDE DEF g
  <2> QED BY <2>1
<1>2. ASSUME NEW n \in 1..Count, n - 1 \in Solved
      PROVE  n \in Solved
  <2>1. PICK g : g = [q \in 0..(n - 1) |-> g[q]] /\ Good(g, n - 1)
    BY <1>2
  <2> DEFINE h == [q \in 0..n |-> IF q = n THEN g[n - 1] \o PacketBytes(n) ELSE g[q]]
  <2>2. h = [q \in 0..n |-> h[q]]
    OBVIOUS
  <2>3. h[n] = g[n - 1] \o PacketBytes(n) /\ \A p \in 0..(n - 1) : h[p] = g[p]
    OBVIOUS
  <2> HIDE DEF h
  <2>4. ASSUME NEW p \in 0..n
        PROVE  h[p] = IF p = 0 THEN << >> ELSE h[p - 1] \o PacketBytes(p)
    <3>1. CASE p = n
      <4>1. h[n - 1] = g[n - 1] /\ n # 0
        BY <2>3
      <4> QED BY <2>3, <3>1, <4>1
    <3>2. CASE p # n
      <4>1. p \in 0..(n - 1)
        BY <3>2
      <4>2. p # 0 => p - 1 \in 0..(n - 1)
        BY <4>1
      <4>3. g[p] = IF p = 0 THEN << >> ELSE g[p - 1] \o PacketBytes(p)
        BY <2>1, <4>1
      <4> QED BY <2>3, <4>1, <4>2, <4>3
    <3> QED BY <3>1, <3>2
  <2>5. n \in 0..Count
    OBVIOUS
  <2>6. \E f : f = [q \in 0..n |-> f[q]] /\ Good(f, n)
    BY <2>2, <2>4
  <2> QED BY <2>5, <2>6
<1> HIDE DEF Solved
<1>3. 0..Count \subseteq Solved
  BY <1>1, <1>2, Induction
<1>4. PICK g : g = [q \in 0..Count |-> g[q]] /\ Good(g, Count)
  BY <1>3 DEF Solved
<1>5. g = [p \in 0..Len(Lengths) |-> IF p = 0 THEN << >> ELSE g[p - 1] \o PacketBytes(p)]
  BY <1>4 DEF Count
<1>6. StreamTo = [p \in 0..Len(Lengths) |->
                    IF p = 0 THEN << >> ELSE StreamTo[p - 1] \o PacketBytes(p)]
  BY <1>5 DEF StreamTo
<1> QED BY <1>6 DEF Count

\* The same without a case distinction.
LEMMA StreamSteps ==
  /\ StreamTo[0] = << >>
  /\ \A p \in 1..Count : StreamTo[p] = StreamTo[p - 1] \o PacketBytes(p)
<1>1. 0 \in 0..Count /\ \A p \in 1..Count : p \in 0..Count /\ p # 0
  BY Sizes
<1> QED BY <1>1, StreamUnfolds

\* Two sequences in one.
LEMMA Joined ==
  ASSUME NEW T, NEW s \in Seq(T), NEW t \in Seq(T)
  PROVE  /\ s \o t \in Seq(T) /\ Len(s \o t) = Len(s) + Len(t)
         /\ Len(s) \in Nat /\ Len(t) \in Nat
         /\ DOMAIN (s \o t) = 1..(Len(s) + Len(t))
         /\ DOMAIN s = 1..Len(s) /\ DOMAIN t = 1..Len(t)
         /\ \A i \in 1..Len(s) : (s \o t)[i] = s[i]
         /\ \A i \in 1..Len(t) : (s \o t)[Len(s) + i] = t[i]
OBVIOUS

\* The streams up to a packet are bytes.
LEMMA StreamTyped == \A p \in 0..Count : StreamTo[p] \in Seq(Byte)
<1> DEFINE T == {p \in 0..Count : StreamTo[p] \in Seq(Byte)}
<1>1. 0 \in T
  <2>1. 0 \in 0..Count
    BY Sizes
  <2>2. << >> \in Seq(Byte)
    OBVIOUS
  <2> QED BY <2>1, <2>2, StreamSteps
<1>2. ASSUME NEW p \in 1..Count, p - 1 \in T PROVE p \in T
  <2>1. p \in 0..Count
    BY Sizes
  <2>2. PacketBytes(p) \in Seq(Byte) /\ StreamTo[p - 1] \in Seq(Byte)
    BY <1>2, PacketType
  <2>3. StreamTo[p - 1] \o PacketBytes(p) \in Seq(Byte)
    BY <2>2
  <2> QED BY <2>1, <2>3, StreamSteps
<1> HIDE DEF T
<1>3. 0..Count \subseteq T
  BY <1>1, <1>2, Induction, Sizes
<1> QED BY <1>3 DEF T

\* Where packets end.
LEMMA Ends ==
  /\ End(0) = 0 /\ End(Count) = Len(Stream) /\ Stream \in Seq(Byte)
  /\ \A p \in 0..Count : End(p) \in Nat
  /\ \A p \in 1..Count : End(p) = End(p - 1) + PacketLength(p)
<1> USE Sizes
<1>1. End(0) = 0
  BY StreamSteps DEF End
<1>2. End(Count) = Len(Stream) /\ Stream \in Seq(Byte)
  BY StreamTyped DEF End, Stream, Count
<1>3. \A p \in 0..Count : End(p) \in Nat
  BY StreamTyped DEF End
<1>4. ASSUME NEW p \in 1..Count PROVE End(p) = End(p - 1) + PacketLength(p)
  <2>1. p \in 0..Count /\ p # 0 /\ p - 1 \in 0..Count
    OBVIOUS
  <2>2. StreamTo[p] = StreamTo[p - 1] \o PacketBytes(p)
    BY <2>1, StreamSteps
  <2>3. Len(StreamTo[p]) = Len(StreamTo[p - 1]) + Len(PacketBytes(p))
    BY <2>1, <2>2, StreamTyped, PacketType
  <2> QED BY <2>3, PacketType DEF End
<1> QED BY <1>1, <1>2, <1>3, <1>4

\* The packets are where they should be.
LEMMA StreamParts ==
  \A p \in 1..Count :
    /\ End(p) <= Len(Stream)
    /\ \A j \in 1..PacketLength(p) : Stream[End(p - 1) + j] = PacketBytes(p)[j]
<1> USE Sizes
<1> DEFINE Parts(q) == \A p \in 1..q :
             /\ End(p) <= End(q)
             /\ \A j \in 1..PacketLength(p) : StreamTo[q][End(p - 1) + j] = PacketBytes(p)[j]
           T == {q \in 0..Count : Parts(q)}
<1>1. 0 \in T
  OBVIOUS
<1>2. ASSUME NEW q \in 1..Count, q - 1 \in T PROVE q \in T
  <2>1. q \in 0..Count /\ q # 0 /\ q - 1 \in 0..Count
    OBVIOUS
  <2>2. StreamTo[q] = StreamTo[q - 1] \o PacketBytes(q)
    BY <2>1, StreamSteps
  <2>3. /\ Len(StreamTo[q - 1]) = End(q - 1) /\ Len(PacketBytes(q)) = PacketLength(q)
        /\ End(q) = End(q - 1) + PacketLength(q)
        /\ End(q - 1) \in Nat /\ PacketLength(q) \in Nat
    BY <2>1, Ends, PacketType DEF End
  <2>4. /\ \A i \in 1..End(q - 1) : StreamTo[q][i] = StreamTo[q - 1][i]
        /\ \A i \in 1..PacketLength(q) : StreamTo[q][End(q - 1) + i] = PacketBytes(q)[i]
    <3>1. StreamTo[q - 1] \in Seq(Byte) /\ PacketBytes(q) \in Seq(Byte)
      BY <2>1, StreamTyped, PacketType
    <3> DEFINE u == StreamTo[q - 1]
               v == PacketBytes(q)
    <3>2. /\ \A i \in 1..Len(u) : (u \o v)[i] = u[i]
          /\ \A i \in 1..Len(v) : (u \o v)[Len(u) + i] = v[i]
      BY <3>1, Joined
    <3> QED BY <2>2, <2>3, <3>2
  <2>5. ASSUME NEW p \in 1..q
        PROVE  /\ End(p) <= End(q)
               /\ \A j \in 1..PacketLength(p) :
                    StreamTo[q][End(p - 1) + j] = PacketBytes(p)[j]
    <3>1. CASE p = q
      BY <2>3, <2>4, <3>1
    <3>2. CASE p # q
      <4>1. /\ p \in 1..(q - 1) /\ p \in 1..Count /\ p - 1 \in 0..Count /\ p \in 0..Count
        BY <3>2
      <4>2. /\ End(p) <= End(q - 1)
            /\ \A j \in 1..PacketLength(p) :
                 StreamTo[q - 1][End(p - 1) + j] = PacketBytes(p)[j]
        BY <1>2, <4>1
      <4>3. /\ End(p) = End(p - 1) + PacketLength(p) /\ End(p - 1) \in Nat
            /\ End(p) \in Nat /\ PacketLength(p) \in Nat
        BY <4>1, Ends, PacketType
      <4>4. \A j \in 1..PacketLength(p) : End(p - 1) + j \in 1..End(q - 1)
        BY <2>3, <4>2, <4>3
      <4>5. End(p) <= End(q)
        BY <2>3, <4>2, <4>3
      <4> QED BY <2>4, <4>2, <4>4, <4>5
    <3> QED BY <3>1, <3>2
  <2> QED BY <2>1, <2>5
<1> HIDE DEF T
<1>3. 0..Count \subseteq T
  BY <1>1, <1>2, Induction
<1>4. Parts(Count)
  BY <1>3 DEF T
<1> QED BY <1>4, Ends DEF Stream, Count

\* There is nothing between the packets.
LEMMA StreamCovered ==
  \A i \in 1..Len(Stream) :
    \E p \in 1..Count : \E j \in 1..PacketLength(p) : i = End(p - 1) + j
<1> USE Sizes
<1> DEFINE Covered(q) == \A i \in 1..End(q) :
             \E p \in 1..q : \E j \in 1..PacketLength(p) : i = End(p - 1) + j
           T == {q \in 0..Count : Covered(q)}
<1>1. 0 \in T
  BY Ends
<1>2. ASSUME NEW q \in 1..Count, q - 1 \in T PROVE q \in T
  <2>1. q \in 0..Count /\ q - 1 \in 0..Count
    OBVIOUS
  <2>2. /\ End(q) = End(q - 1) + PacketLength(q)
        /\ End(q - 1) \in Nat /\ PacketLength(q) \in Nat
    BY <2>1, Ends, PacketType
  <2>3. ASSUME NEW i \in 1..End(q)
        PROVE  \E p \in 1..q : \E j \in 1..PacketLength(p) : i = End(p - 1) + j
    <3>1. CASE i \in 1..End(q - 1)
      <4>1. PICK p \in 1..(q - 1) : \E j \in 1..PacketLength(p) : i = End(p - 1) + j
        BY <1>2, <3>1
      <4>2. p \in 1..q
        OBVIOUS
      <4> QED BY <4>1, <4>2
    <3>2. CASE i \notin 1..End(q - 1)
      <4>1. i - End(q - 1) \in 1..PacketLength(q) /\ i = End(q - 1) + (i - End(q - 1))
        BY <2>2, <3>2
      <4>2. q \in 1..q
        OBVIOUS
      <4> QED BY <4>1, <4>2
    <3> QED BY <3>1, <3>2
  <2> QED BY <2>1, <2>3
<1> HIDE DEF T
<1>3. 0..Count \subseteq T
  BY <1>1, <1>2, Induction
<1>4. Covered(Count)
  BY <1>3 DEF T
<1> QED BY <1>4, Ends

\* A byte of the stream says where it is.
LEMMA PositionIs ==
  /\ \A i, j \in 1..Len(Stream) : Stream[i] = Stream[j] => i = j
  /\ \A i \in 1..Len(Stream) : Stream[i] # ZeroByte /\ Position(Stream[i]) = i
<1>1. ASSUME NEW i \in 1..Len(Stream)
      PROVE  \E p \in 1..Count : \E a \in 1..PacketLength(p) :
               i = End(p - 1) + a /\ Stream[i].packet = p /\ Stream[i].index = a
  <2>0. PICK p \in 1..Count : \E a \in 1..PacketLength(p) : i = End(p - 1) + a
    BY StreamCovered
  <2>1. PICK a \in 1..PacketLength(p) : i = End(p - 1) + a
    BY <2>0
  <2>2. Stream[i] = PacketBytes(p)[a]
    BY <2>1, StreamParts
  <2> QED BY <2>1, <2>2, PacketType
<1>2. ASSUME NEW i \in 1..Len(Stream), NEW j \in 1..Len(Stream), Stream[i] = Stream[j]
      PROVE  i = j
  <2>1. i = End(Stream[i].packet - 1) + Stream[i].index
    BY <1>1
  <2>2. j = End(Stream[j].packet - 1) + Stream[j].index
    BY <1>1
  <2> QED BY <1>2, <2>1, <2>2
<1>3. ASSUME NEW i \in 1..Len(Stream) PROVE Stream[i] # ZeroByte
  <2>1. Stream[i].index # 0
    <3>1. PICK p \in 1..Count : \E a \in 1..PacketLength(p) : Stream[i].index = a
      BY <1>1
    <3> QED BY <3>1, PacketType
  <2> QED BY <2>1 DEF ZeroByte
<1>4. ASSUME NEW i \in 1..Len(Stream) PROVE Position(Stream[i]) = i
  <2>1. DOMAIN Stream = 1..Len(Stream)
    BY Ends
  <2> QED BY <1>2, <2>1 DEF Position
<1> QED BY <1>2, <1>3, <1>4
-----------------------------------------------------------------------------
(* Types.  What a read wants is known while a packet is begun, nothing has *)
(* been copied before a read, and only a packet that is not complete is    *)
(* read.                                                                   *)

ByteOf == {Stream[i] : i \in DOMAIN Stream} \cup {ZeroByte}

ReadOK ==
  /\ at = "enter" => buffer = << >>
  /\ at # "enter" => part # "done"
  /\ part \in {"header", "length"} => want = 1
  /\ part = "length" => digits < MAX_NO_OF_REMAINING_LENGTH_BYTES
  /\ part = "header" => readbuf = << >> /\ digits = 0 /\ rem_len = 0

TypeInv == TypeOK /\ ReadOK

\* Every byte that can be read is a byte.
LEMMA ByteType ==
  /\ Bytes = Seq(ByteOf) /\ ByteOf \subseteq Byte /\ ZeroByte \in ByteOf
  /\ \A i \in 1..Len(Stream) : Stream[i] \in ByteOf
<1>1. DOMAIN Stream = 1..Len(Stream) /\ \A i \in 1..Len(Stream) : Stream[i] \in Byte
  BY Ends
<1>2. ZeroByte \in Byte
  BY DEF ZeroByte, Byte
<1> QED BY <1>1, <1>2 DEF Bytes, ByteOf

\* What is taken from the receive buffer.
LEMMA ReceivedType ==
  ASSUME TypeOK, NEW i \in Nat, NEW n \in Nat
  PROVE  /\ Received(i, n) \in Seq(ByteOf) /\ Len(Received(i, n)) = n
         /\ \A j \in 1..n : Received(i, n)[j] =
              IF i + j <= Len(mqtt_recvbuf) THEN mqtt_recvbuf[i + j] ELSE ZeroByte
<1>1. mqtt_recvbuf \in Seq(ByteOf)
  BY ByteType DEF TypeOK
<1>2. \A j \in 1..n :
        (IF i + j <= Len(mqtt_recvbuf) THEN mqtt_recvbuf[i + j] ELSE ZeroByte) \in ByteOf
  BY <1>1, ByteType
<1> QED BY <1>2 DEF Received

\* What a new piece is.
LEMMA PieceType ==
  ASSUME NEW a \in Nat, NEW n \in Nat, a + n <= Len(Stream)
  PROVE  /\ SubSeq(Stream, a + 1, a + n) \in Seq(ByteOf)
         /\ Len(SubSeq(Stream, a + 1, a + n)) = n
         /\ \A j \in 1..n : SubSeq(Stream, a + 1, a + n)[j] = Stream[a + j]
<1>1. Stream \in Seq(ByteOf)
  <2>1. Stream \in Seq(Byte)
    BY Ends
  <2> QED BY <2>1, ByteType
<1> QED BY <1>1

\* What a complete read does to the packet.
LEMMA ReturnsType ==
  ASSUME TypeInv, part # "done", NEW bytes \in Seq(ByteOf), Len(bytes) = want, Returns(bytes)
  PROVE  /\ at' = "enter" /\ buffer' = << >> /\ want' \in Nat /\ last' \in Seq(ByteOf)
         /\ part' \in {"header", "length", "body", "done"}
         /\ readbuf' \in Seq(ByteOf) /\ rem_len' \in Nat
         /\ digits' \in 0..MAX_NO_OF_REMAINING_LENGTH_BYTES
         /\ packets' \in Seq(Seq(ByteOf))
         /\ part' \in {"header", "length"} => want' = 1
         /\ part' = "length" => digits' < MAX_NO_OF_REMAINING_LENGTH_BYTES
         /\ part' = "header" => readbuf' = << >> /\ digits' = 0 /\ rem_len' = 0
<1>0. /\ readbuf \in Seq(ByteOf) /\ rem_len \in Nat /\ digits \in 0..4
      /\ packets \in Seq(Seq(ByteOf))
  BY ByteType DEF TypeInv, TypeOK, MAX_NO_OF_REMAINING_LENGTH_BYTES
<1>1. at' = "enter" /\ buffer' = << >> /\ last' \in Seq(ByteOf)
  BY DEF Returns
<1>2. CASE part = "header"
  <2>1. /\ part' = "length" /\ want' = 1 /\ readbuf' = bytes
        /\ digits' = 0 /\ rem_len' = 0 /\ packets' = packets
    BY <1>2 DEF Returns, TypeInv, ReadOK
  <2> QED BY <1>0, <1>1, <2>1 DEF MAX_NO_OF_REMAINING_LENGTH_BYTES
<1>3. CASE part = "length"
  <2>1. ReadLength(bytes[1]) /\ UNCHANGED packets
    BY <1>3 DEF Returns
  <2>2. want = 1 /\ digits \in 0..3
    BY <1>0, <1>3 DEF TypeInv, ReadOK, MAX_NO_OF_REMAINING_LENGTH_BYTES
  <2>3. bytes[1] \in ByteOf
    BY <2>2
  <2>4. bytes[1].digit \in Nat /\ Multiplier(digits) \in Nat
    BY <2>2, <2>3, ByteType, Multipliers DEF Byte
  <2>5. bytes[1].digit * Multiplier(digits) \in Nat
    BY <2>4, Products
  <2>6. rem_len' \in Nat /\ digits' \in 0..4 /\ readbuf' \in Seq(ByteOf)
    BY <1>0, <2>1, <2>2, <2>3, <2>5 DEF ReadLength
  <2>7. /\ part' \in {"length", "body", "done"} /\ want' \in Nat
        /\ part' = "length" => (want' = 1 /\ digits' < 4)
    BY <2>1, <2>6 DEF ReadLength, MAX_NO_OF_REMAINING_LENGTH_BYTES
  <2> QED BY <1>0, <1>1, <2>1, <2>6, <2>7 DEF MAX_NO_OF_REMAINING_LENGTH_BYTES
<1>4. CASE part = "body"
  <2>1. PacketDone(readbuf \o bytes)
    BY <1>4 DEF Returns
  <2>2. readbuf \o bytes \in Seq(ByteOf)
    BY <1>0
  <2>3. packets' \in Seq(Seq(ByteOf))
    BY <1>0, <2>1, <2>2 DEF PacketDone
  <2> QED BY <1>1, <2>1, <2>3 DEF PacketDone, MAX_NO_OF_REMAINING_LENGTH_BYTES
<1> QED BY <1>2, <1>3, <1>4 DEF TypeInv, TypeOK

\* What the end of a read does to the receive buffer.
LEMMA ResetType ==
  ASSUME TypeOK, NEW o \in 0..(mqtt_recv_len + 1), ResetIfEmpty(o)
  PROVE  /\ mqtt_recvbuf' = mqtt_recvbuf /\ mqtt_recv_len' \in 0..BufferLength
         /\ mqtt_recv_offset' \in 0..(mqtt_recv_len' + 1)
BY Sizes DEF TypeOK, ResetIfEmpty

\* What the copying loop does.
LEMMA CopiesType ==
  ASSUME TypeInv, part # "done", UNCHANGED <<aligned, arrived>>,
         NEW limit \in Nat, limit = want - Len(buffer), Copies(limit)
  PROVE  TypeInv'
<1> DEFINE n == IF mqtt_recv_offset > mqtt_recv_len THEN 0 ELSE Remaining + 1
           k == IF n < limit THEN n ELSE limit
           bytes == buffer \o Received(mqtt_recv_offset, k)
<1>0. /\ mqtt_recv_offset \in 0..(mqtt_recv_len + 1) /\ mqtt_recv_len \in 0..BufferLength
      /\ want \in Nat /\ buffer \in Seq(ByteOf) /\ BufferLength \in Nat
  BY ByteType, Sizes DEF TypeInv, TypeOK
<1>1. n \in Nat /\ (n # 0 => mqtt_recv_offset + n = mqtt_recv_len + 1)
  BY <1>0 DEF Remaining
<1> HIDE DEF n
<1>2. k \in Nat /\ k <= limit /\ mqtt_recv_offset + k \in 0..(mqtt_recv_len + 1)
  BY <1>0, <1>1
<1>3. IF Len(bytes) = want
        THEN Returns(bytes) /\ ResetIfEmpty(mqtt_recv_offset + k)
        ELSE /\ buffer' = bytes /\ at' = "fill"
             /\ mqtt_recv_offset' = mqtt_recv_offset + k
             /\ UNCHANGED <<mqtt_recvbuf, mqtt_recv_len, want, pktVars, last, packets>>
  BY DEF Copies, n
<1> HIDE DEF k
<1>4. Received(mqtt_recv_offset, k) \in Seq(ByteOf) /\ Len(Received(mqtt_recv_offset, k)) = k
  BY <1>0, <1>2, ReceivedType DEF TypeInv
<1>5. bytes \in Seq(ByteOf) /\ Len(bytes) = Len(buffer) + k /\ Len(bytes) <= want
  BY <1>0, <1>2, <1>4
<1> HIDE DEF bytes
<1>6. CASE Len(bytes) = want
  <2>1. Returns(bytes) /\ ResetIfEmpty(mqtt_recv_offset + k)
    BY <1>3, <1>6
  <2>2. /\ mqtt_recvbuf' = mqtt_recvbuf /\ mqtt_recv_len' \in 0..BufferLength
        /\ mqtt_recv_offset' \in 0..(mqtt_recv_len' + 1)
    BY <1>2, <2>1, ResetType DEF TypeInv
  <2>3. /\ at' = "enter" /\ buffer' = << >> /\ want' \in Nat /\ last' \in Seq(ByteOf)
        /\ part' \in {"header", "length", "body", "done"}
        /\ readbuf' \in Seq(ByteOf) /\ rem_len' \in Nat
        /\ digits' \in 0..MAX_NO_OF_REMAINING_LENGTH_BYTES
        /\ packets' \in Seq(Seq(ByteOf)) /\ ReadOK'
    BY <1>5, <1>6, <2>1, ReturnsType DEF ReadOK
  <2>4. << >> \in Bytes /\ Len(<< >>) = 0
    BY DEF Bytes
  <2>5. aligned' \in BOOLEAN /\ arrived' \in 0..Len(Stream) /\ mqtt_recvbuf' \in Bytes
    BY <2>1, <2>2 DEF TypeInv, TypeOK
  <2>6. /\ want' \in Nat /\ buffer' \in Bytes /\ Len(buffer') <= want'
        /\ readbuf' \in Bytes /\ last' \in Bytes /\ packets' \in Seq(Bytes)
    BY <2>3, <2>4, ByteType
  <2> QED BY <2>2, <2>3, <2>5, <2>6 DEF TypeInv, TypeOK
<1>7. CASE Len(bytes) # want
  <2>1. /\ buffer' = bytes /\ at' = "fill"
        /\ mqtt_recv_offset' = mqtt_recv_offset + k
        /\ UNCHANGED <<mqtt_recvbuf, mqtt_recv_len, want, pktVars, last, packets>>
    BY <1>3, <1>7
  <2> QED BY <1>2, <1>5, <2>1, ByteType DEF TypeInv, TypeOK, ReadOK, pktVars
<1> QED BY <1>6, <1>7

\* Every step keeps the types.
LEMMA TypeNext == TypeInv /\ [Next]_vars => TypeInv'
<1> SUFFICES ASSUME TypeInv, [Next]_vars PROVE TypeInv'
  OBVIOUS
<1>1. CASE ReadBuffered
  <2> DEFINE bytes == Received(mqtt_recv_offset, want)
  <2>1. /\ part # "done" /\ Returns(bytes) /\ ResetIfEmpty(mqtt_recv_offset + want)
        /\ UNCHANGED <<aligned, arrived>>
    BY <1>1 DEF ReadBuffered
  <2>2. mqtt_recv_offset \in Nat /\ want \in Nat /\ mqtt_recv_len \in Nat
    BY Sizes DEF TypeInv, TypeOK
  <2>3. mqtt_recv_offset + want \in 0..(mqtt_recv_len + 1)
    BY <1>1, <2>2 DEF ReadBuffered, Remaining
  <2>4. bytes \in Seq(ByteOf) /\ Len(bytes) = want
    BY <2>2, ReceivedType DEF TypeInv
  <2> HIDE DEF bytes
  <2>5. /\ mqtt_recvbuf' = mqtt_recvbuf /\ mqtt_recv_len' \in 0..BufferLength
        /\ mqtt_recv_offset' \in 0..(mqtt_recv_len' + 1)
    BY <2>1, <2>3, ResetType DEF TypeInv
  <2>6. /\ at' = "enter" /\ buffer' = << >> /\ want' \in Nat /\ last' \in Seq(ByteOf)
        /\ part' \in {"header", "length", "body", "done"}
        /\ readbuf' \in Seq(ByteOf) /\ rem_len' \in Nat
        /\ digits' \in 0..MAX_NO_OF_REMAINING_LENGTH_BYTES
        /\ packets' \in Seq(Seq(ByteOf)) /\ ReadOK'
    BY <2>4, <2>1, ReturnsType DEF ReadOK
  <2>7. << >> \in Bytes /\ Len(<< >>) = 0
    BY DEF Bytes
  <2>8. aligned' \in BOOLEAN /\ arrived' \in 0..Len(Stream) /\ mqtt_recvbuf' \in Bytes
    BY <2>1, <2>5 DEF TypeInv, TypeOK
  <2>9. /\ want' \in Nat /\ buffer' \in Bytes /\ Len(buffer') <= want'
        /\ readbuf' \in Bytes /\ last' \in Bytes /\ packets' \in Seq(Bytes)
    BY <2>6, <2>7, ByteType
  <2> QED BY <2>5, <2>6, <2>8, <2>9 DEF TypeInv, TypeOK
<1>2. CASE ReadRemain
  <2>1. part # "done" /\ Copies(want) /\ UNCHANGED <<aligned, arrived>> /\ at = "enter"
    BY <1>2 DEF ReadRemain
  <2>2. want \in Nat /\ want = want - Len(buffer)
    BY <2>1 DEF TypeInv, TypeOK, ReadOK
  <2> QED BY <2>1, <2>2, CopiesType
<1>3. CASE ReadMore
  <2>1. /\ part # "done" /\ Copies(want - Len(buffer)) /\ UNCHANGED <<aligned, arrived>>
    BY <1>3 DEF ReadMore, TypeInv, ReadOK
  <2>2. want - Len(buffer) \in Nat
    BY ByteType DEF TypeInv, TypeOK
  <2> QED BY <2>1, <2>2, CopiesType
<1>4. CASE BufferedRead
  <2>1. PICK n \in 1..BufferLength : arrived + n <= Len(Stream) /\ Fills(n)
    BY <1>4 DEF BufferedRead
  <2>2. arrived \in Nat /\ n \in Nat /\ BufferLength \in Nat /\ Len(Stream) \in Nat
    BY Sizes, Ends DEF TypeInv, TypeOK
  <2>3. mqtt_recvbuf' \in Bytes
    BY <2>1, <2>2, PieceType, ByteType DEF Fills
  <2>4. mqtt_recv_len' \in 0..BufferLength /\ mqtt_recv_offset' \in 0..(mqtt_recv_len' + 1)
        /\ arrived' \in 0..Len(Stream)
    BY <2>1, <2>2 DEF Fills, TypeInv, TypeOK
  <2>5. /\ at' \in {"enter", "copy"} /\ (at = "enter" <=> at' = "enter") /\ part # "done"
        /\ UNCHANGED <<aligned, want, buffer, pktVars, last, packets>>
    BY <1>4 DEF BufferedRead, NeedsFill
  <2> QED BY <2>3, <2>4, <2>5 DEF TypeInv, TypeOK, ReadOK, pktVars
<1>5. CASE BufferedReadFails
  <2>1. << >> \in Bytes /\ Len(<< >>) = 0
    BY DEF Bytes
  <2>2. mqtt_recv_len' \in 0..BufferLength /\ mqtt_recv_offset' \in 0..(mqtt_recv_len' + 1)
        /\ mqtt_recvbuf' \in Bytes /\ UNCHANGED <<aligned, arrived>>
    BY <1>5, <2>1, Sizes DEF BufferedReadFails
  <2> QED BY <1>5, <2>1, <2>2 DEF BufferedReadFails, ReturnsNothing, PacketDropped, TypeInv,
                                  TypeOK, ReadOK, MAX_NO_OF_REMAINING_LENGTH_BYTES
<1>6. CASE ReadPacketEnds
  <2>1. /\ part = "done" /\ PacketDone(readbuf)
        /\ UNCHANGED <<aligned, arrived, bufVars, at, buffer, last>>
    BY <1>6 DEF ReadPacketEnds
  <2>2. at = "enter" /\ Len(buffer) = 0
    BY <2>1 DEF TypeInv, ReadOK
  <2>3. packets' \in Seq(Bytes) /\ << >> \in Bytes
    BY <2>1 DEF PacketDone, TypeInv, TypeOK, Bytes
  <2> QED BY <2>1, <2>2, <2>3 DEF PacketDone, TypeInv, TypeOK, ReadOK, bufVars,
                                  MAX_NO_OF_REMAINING_LENGTH_BYTES
<1>7. CASE UNCHANGED vars
  BY <1>7 DEF vars, bufVars, pktVars, readVars, TypeInv, TypeOK, ReadOK
<1> QED BY <1>1, <1>2, <1>3, <1>4, <1>5, <1>6, <1>7 DEF Next

\* The first state has the types.
LEMMA TypeInit == Init => TypeInv
<1>1. << >> \in Bytes /\ << >> \in Seq(Bytes) /\ Len(Stream) \in Nat /\ BufferLength \in Nat
  BY Ends, Sizes DEF Bytes
<1> QED BY <1>1 DEF Init, TypeInv, TypeOK, ReadOK, MAX_NO_OF_REMAINING_LENGTH_BYTES

\* The invariant of the types, for the theorems below.
LEMMA TypeInvariant == Spec => []TypeInv
BY TypeInit, TypeNext, PTL DEF Spec

\* Every variable has its type: the offset into the receive buffer is at most
\* one byte beyond what it holds, the copying loop writes no more than the
\* caller wanted, and a length field has at most four bytes.
THEOREM TypeCorrect == Spec => []TypeOK
<1>1. TypeInv => TypeOK
  BY DEF TypeInv
<1> QED BY <1>1, TypeInvariant, PTL
-----------------------------------------------------------------------------
(* The remaining length.  After d of its bytes decodePacket has the length *)
(* modulo Power(d), and after all of them the length.                      *)

Power(d) == IF d = 4 THEN Radix * Radix * Radix * Radix ELSE Multiplier(d)

\* Division by M and then by R is division by their product.
LEMMA Remainder ==
  ASSUME NEW n \in Nat, NEW M \in Nat, M > 0, NEW R \in Nat, R > 0
  PROVE  n % (M * R) = (n % M) + (((n \div M) % R) * M)
<1> DEFINE q == n \div M
           r == n % M
           a == q \div R
           c == q % R
<1>1. q \in Nat /\ r \in Nat /\ r < M /\ n = (q * M) + r
  OBVIOUS
<1> HIDE DEF q, r
<1>2. a \in Nat /\ c \in Nat /\ c < R /\ q = (a * R) + c
  BY <1>1
<1> HIDE DEF a, c
<1>3. M * R \in Nat /\ a * R \in Nat /\ c * M \in Nat /\ q * M \in Nat
  BY <1>1, <1>2
<1>4. M * R > 0
  <2>1. M * R >= M
    OBVIOUS
  <2> QED BY <1>3, <2>1
<1>5. n = (a * (M * R)) + ((c * M) + r)
  <2>1. q * M = ((a * R) * M) + (c * M)
    BY <1>2
  <2>2. (a * R) * M = a * (M * R)
    BY <1>2
  <2>3. a * (M * R) \in Nat
    BY <1>2, <1>3
  <2> QED BY <1>1, <1>3, <2>1, <2>2, <2>3
<1>6. (c * M) + r < M * R
  <2>1. c * M <= (R - 1) * M
    BY <1>2
  <2>2. (R - 1) * M = (M * R) - M
    OBVIOUS
  <2> QED BY <1>1, <1>3, <2>1, <2>2
<1> DEFINE P == M * R
           s == (c * M) + r
<1>7. P \in Nat /\ P > 0 /\ s \in Nat /\ s < P /\ n = (a * P) + s
  BY <1>1, <1>3, <1>4, <1>5, <1>6
<1> HIDE DEF P, s
<1>8. n % P = s
  BY <1>2, <1>7
<1> QED BY <1>1, <1>3, <1>8 DEF P, s, q, r, c

\* The powers of the radix.
LEMMA Powers ==
  /\ Power(0) = 1 /\ Power(4) = MaxLength + 1
  /\ \A d \in 0..4 : Power(d) \in Nat /\ Power(d) > 0
  /\ \A d \in 0..3 : Power(d) = Multiplier(d) /\ Power(d + 1) = Power(d) * Radix
<1>1. Radix \in Nat /\ Radix > 1
  BY Sizes
<1>2. /\ Power(0) = 1 /\ Power(1) = Radix /\ Power(2) = Radix * Radix
      /\ Power(3) = Radix * Radix * Radix /\ Power(4) = Radix * Radix * Radix * Radix
  BY Multipliers DEF Power
<1>3. Radix * Radix \in Nat /\ Radix * Radix > 0
  BY <1>1
<1>4. Radix * Radix * Radix \in Nat /\ Radix * Radix * Radix > 0
  BY <1>1, <1>3
<1>5. Radix * Radix * Radix * Radix \in Nat /\ Radix * Radix * Radix * Radix > 0
  BY <1>1, <1>4
<1>6. \A d \in 0..3 : d = 0 \/ d = 1 \/ d = 2 \/ d = 3
  OBVIOUS
<1>7. \A d \in 0..4 : d = 4 \/ d \in 0..3
  OBVIOUS
<1>8. \A d \in 0..4 : Power(d) \in Nat /\ Power(d) > 0
  BY <1>1, <1>2, <1>3, <1>4, <1>5, <1>6, <1>7
<1>9. \A d \in 0..3 : Power(d + 1) = Power(d) * Radix
  BY <1>1, <1>2, <1>6
<1>10. \A d \in 0..3 : Power(d) = Multiplier(d)
  BY DEF Power
<1>11. Power(4) = MaxLength + 1
  BY <1>2, <1>5 DEF MaxLength
<1> QED BY <1>2, <1>8, <1>9, <1>10, <1>11

\* What the bytes of a length add up to, and which one is the last.
LEMMA LengthDigits ==
  ASSUME NEW p \in 1..Count
  PROVE  /\ Lengths[p] % Power(0) = 0
         /\ Lengths[p] % Power(DigitsOf(Lengths[p])) = Lengths[p]
         /\ \A d \in 0..(DigitsOf(Lengths[p]) - 1) :
              /\ Lengths[p] % Power(d + 1)
                    = (Lengths[p] % Power(d)) + (PacketBytes(p)[d + 2].digit * Multiplier(d))
              /\ PacketBytes(p)[d + 2].more <=> d + 1 < DigitsOf(Lengths[p])
<1> DEFINE n == Lengths[p]
           k == DigitsOf(n)
<1>1. n \in Nat /\ n < MaxLength + 1 /\ k \in 1..4
  <2>1. Radix * Radix * Radix * Radix \in Nat
    BY Sizes, Products
  <2>2. MaxLength \in Int
    BY <2>1 DEF MaxLength
  <2> QED BY <2>2, Sizes, DigitsOfType
<1>2. n % Power(0) = 0
  BY <1>1, Powers
<1>3. n < Power(k)
  BY <1>1, Powers DEF DigitsOf
<1> HIDE DEF n
<1>4. n % Power(k) = n
  BY <1>1, <1>3, Powers
<1>5. ASSUME NEW d \in 0..(k - 1)
      PROVE  /\ n % Power(d + 1) = (n % Power(d)) + (PacketBytes(p)[d + 2].digit * Multiplier(d))
             /\ PacketBytes(p)[d + 2].more <=> d + 1 < k
  <2>1. d \in 0..3 /\ d + 2 \in 1..(1 + k + n) /\ d + 2 \in 2..(k + 1) /\ (d + 2) - 2 = d
    BY <1>1
  <2>2. /\ PacketBytes(p)[d + 2].digit = Digit(n, d)
        /\ PacketBytes(p)[d + 2].more = (d + 2 \in 2..k)
    BY <2>1 DEF PacketBytes, n
  <2>3. Digit(n, d) = (n \div Power(d)) % Radix /\ Multiplier(d) = Power(d)
    BY <2>1, Powers DEF Digit
  <2>4. n % (Power(d) * Radix) = (n % Power(d)) + (((n \div Power(d)) % Radix) * Power(d))
    <3>1. Power(d) \in Nat /\ Power(d) > 0 /\ Radix \in Nat /\ Radix > 0
      BY <2>1, Powers, Sizes
    <3> QED BY <1>1, <3>1, Remainder
  <2>5. n % Power(d + 1) = (n % Power(d)) + (PacketBytes(p)[d + 2].digit * Multiplier(d))
    BY <2>1, <2>2, <2>3, <2>4, Powers
  <2>6. d + 2 \in 2..k <=> d + 1 < k
    BY <1>1, <2>1
  <2> QED BY <2>2, <2>5, <2>6
<1> QED BY <1>2, <1>4, <1>5 DEF n

\* No packet ends inside another.
LEMMA NoEndInside ==
  ASSUME NEW p \in 1..Count, NEW i \in PacketEnds, i > End(p - 1)
  PROVE  i >= End(p)
<1> SUFFICES ASSUME i < End(p) PROVE FALSE
  BY Ends, Sizes DEF PacketEnds
<1>1. /\ i \in Nat /\ End(p - 1) \in Nat /\ End(p) = End(p - 1) + PacketLength(p)
      /\ PacketLength(p) \in Nat /\ End(p) <= Len(Stream) /\ Len(Stream) \in Nat
  BY Ends, Sizes, PacketType, StreamParts DEF PacketEnds
<1>2. i # Len(Stream) /\ Stream[i + 1].index = 1
  BY <1>1 DEF PacketEnds
<1>3. (i + 1) - End(p - 1) \in 1..PacketLength(p)
  BY <1>1
<1>4. Stream[End(p - 1) + ((i + 1) - End(p - 1))] = PacketBytes(p)[(i + 1) - End(p - 1)]
  BY <1>3, StreamParts
<1>5. Stream[i + 1].index = (i + 1) - End(p - 1)
  BY <1>1, <1>3, <1>4, PacketType
<1> QED BY <1>1, <1>2, <1>5
-----------------------------------------------------------------------------
(* Packets.  While pieces end where packets end, a packet that is begun    *)
(* has arrived as a whole, so that every read is served from the buffer;   *)
(* what was read of it are its first bytes.                                *)

Begun == Len(packets) + 1

\* The buffer holds the last bytes that have arrived.
BufferExact ==
  /\ mqtt_recv_len = 0 => mqtt_recv_offset = 0
  /\ mqtt_recv_len # 0 => mqtt_recv_offset < mqtt_recv_len
  /\ mqtt_recv_len # 0 => Len(mqtt_recvbuf) = mqtt_recv_len
  /\ mqtt_recv_len <= arrived
  /\ mqtt_recv_len # 0 => \A j \in 1..mqtt_recv_len :
                            mqtt_recvbuf[j] = Stream[(arrived - mqtt_recv_len) + j]

\* What has been read are whole packets and the beginning of the next.
PartExact ==
  /\ Len(packets) <= Count
  /\ part # "header" => Len(packets) < Count
  /\ \A j \in 1..Len(readbuf) : readbuf[j] = PacketBytes(Begun)[j]
  /\ part = "length" =>
       /\ digits < DigitsOf(Lengths[Begun]) /\ Len(readbuf) = 1 + digits
       /\ rem_len = Lengths[Begun] % Power(digits)
  /\ part = "body" =>
       /\ Len(readbuf) = 1 + DigitsOf(Lengths[Begun])
       /\ want = Lengths[Begun] /\ Lengths[Begun] > 0
  /\ part = "done" =>
       Len(readbuf) = 1 + DigitsOf(Lengths[Begun]) /\ Lengths[Begun] = 0

PositionExact ==
  arrived - (mqtt_recv_len - mqtt_recv_offset) = End(Len(packets)) + Len(readbuf)

ExactInv ==
  /\ at = "enter"
  /\ arrived = 0 \/ arrived \in PacketEnds
  /\ BufferExact /\ PartExact /\ PositionExact

\* The bytes of the packet that is begun.
LEMMA BegunType ==
  ASSUME TypeInv, PartExact, Len(packets) < Count
  PROVE  /\ Begun \in 1..Count /\ Begun - 1 = Len(packets) /\ Len(packets) \in Nat
         /\ Lengths[Begun] \in Nat /\ DigitsOf(Lengths[Begun]) \in 1..4
         /\ PacketBytes(Begun) \in Seq(Byte)
         /\ Len(PacketBytes(Begun)) = 1 + DigitsOf(Lengths[Begun]) + Lengths[Begun]
         /\ End(Begun) = End(Len(packets)) + 1 + DigitsOf(Lengths[Begun]) + Lengths[Begun]
         /\ End(Len(packets)) \in Nat /\ End(Begun) \in Nat
         /\ End(Begun) <= Len(Stream) /\ Len(Stream) \in Nat
<1>1. Len(packets) \in Nat
  BY DEF TypeInv, TypeOK
<1>2. Begun \in 1..Count /\ Begun - 1 = Len(packets) /\ Len(packets) \in 0..Count
  BY <1>1, Sizes DEF Begun
<1>3. Lengths[Begun] \in Nat /\ DigitsOf(Lengths[Begun]) \in 1..4 /\ Begun \in 0..Count
  BY <1>2, Sizes, DigitsOfType
<1>4. /\ PacketBytes(Begun) \in Seq(Byte)
      /\ Len(PacketBytes(Begun)) = PacketLength(Begun)
      /\ End(Begun) = End(Len(packets)) + PacketLength(Begun)
      /\ End(Len(packets)) \in Nat /\ End(Begun) \in Nat
      /\ End(Begun) <= Len(Stream) /\ Len(Stream) \in Nat
  BY <1>2, <1>3, PacketType, Ends, StreamParts
<1>5. PacketLength(Begun) = 1 + DigitsOf(Lengths[Begun]) + Lengths[Begun]
  BY DEF PacketLength
<1>6. End(Begun) = End(Len(packets)) + 1 + DigitsOf(Lengths[Begun]) + Lengths[Begun]
  <2> DEFINE a == End(Len(packets))
             k == DigitsOf(Lengths[Begun])
             n == Lengths[Begun]
  <2>1. a \in Nat /\ k \in Nat /\ n \in Nat /\ End(Begun) = a + (1 + k + n)
    BY <1>3, <1>4, <1>5
  <2> HIDE DEF a, k, n
  <2>2. End(Begun) = a + 1 + k + n
    BY <2>1
  <2> QED BY <2>2 DEF a, k, n
<1> QED BY <1>1, <1>2, <1>3, <1>4, <1>5, <1>6

\* A packet is complete.
LEMMA DoneExact ==
  ASSUME TypeInv, PartExact, Len(packets) < Count,
         NEW bytes \in Seq(ByteOf), Len(bytes) = PacketLength(Begun),
         \A j \in 1..Len(bytes) : bytes[j] = PacketBytes(Begun)[j],
         PacketDone(bytes)
  PROVE  /\ PartExact' /\ packets' = Append(packets, PacketBytes(Begun))
         /\ Len(packets') = Begun /\ Len(readbuf') = 0 /\ part' = "header"
<1>1. bytes = PacketBytes(Begun)
  <2>1. /\ PacketBytes(Begun) \in Seq(Byte)
        /\ Len(PacketBytes(Begun)) = PacketLength(Begun)
    BY BegunType, PacketType
  <2> QED BY <2>1
<1>2. packets' = Append(packets, PacketBytes(Begun)) /\ Len(packets') = Begun
  BY <1>1 DEF PacketDone, Begun, TypeInv, TypeOK
<1>3. part' = "header" /\ readbuf' = << >> /\ Len(<< >>) = 0
  BY DEF PacketDone
<1>4. Len(packets') <= Count
  BY <1>2, BegunType, Sizes
<1> QED BY <1>2, <1>3, <1>4 DEF PartExact

\* A read that returns the next bytes of the packet.
LEMMA ReturnsExact ==
  ASSUME TypeInv, PartExact, Len(packets) < Count, part # "done",
         NEW bytes \in Seq(ByteOf), Len(bytes) = want, Returns(bytes),
         \A j \in 1..want : bytes[j] = PacketBytes(Begun)[Len(readbuf) + j]
  PROVE  /\ PartExact'
         /\ packets' = packets \/ packets' = Append(packets, PacketBytes(Begun))
         /\ End(Len(packets')) + Len(readbuf') = End(Len(packets)) + Len(readbuf) + want
<1> DEFINE n == Lengths[Begun]
           k == DigitsOf(n)
<1>0. /\ Begun \in 1..Count /\ Len(packets) \in Nat /\ n \in Nat /\ k \in 1..4
      /\ End(Len(packets)) \in Nat /\ End(Begun) = End(Len(packets)) + 1 + k + n
      /\ want \in Nat /\ readbuf \in Seq(ByteOf) /\ Len(readbuf) \in Nat
      /\ PacketLength(Begun) = 1 + k + n /\ Len(packets) <= Count /\ Count \in Nat
  <2>1. want \in Nat /\ readbuf \in Seq(ByteOf)
    BY ByteType DEF TypeInv, TypeOK
  <2>2. PacketLength(Begun) = 1 + k + n
    BY DEF PacketLength
  <2>3. Len(packets) <= Count /\ Count \in Nat /\ Len(readbuf) \in Nat
    BY <2>1, Sizes DEF PartExact
  <2> QED BY <2>1, <2>2, <2>3, BegunType
<1>1. CASE part = "header"
  <2>1. /\ part' = "length" /\ readbuf' = bytes /\ packets' = packets
        /\ digits' = digits /\ rem_len' = rem_len
    BY <1>1 DEF Returns
  <2>2. want = 1 /\ readbuf = << >> /\ Len(readbuf) = 0 /\ digits = 0 /\ rem_len = 0
    BY <1>1 DEF TypeInv, ReadOK
  <2>3. n % Power(0) = 0
    BY <1>0, LengthDigits
  <2>4. Begun' = Begun
    BY <2>1 DEF Begun
  <2>5. \A j \in 1..Len(readbuf') : readbuf'[j] = PacketBytes(Begun)[j]
    <3>1. \A j \in 1..want : Len(readbuf) + j = j
      BY <2>2
    <3>2. \A j \in 1..want : bytes[j] = PacketBytes(Begun)[j]
      BY <3>1
    <3> QED BY <2>1, <3>2
  <2>6. PartExact'
    BY <1>0, <2>1, <2>2, <2>3, <2>4, <2>5 DEF PartExact
  <2>7. Len(readbuf') = 1 /\ End(Len(packets')) = End(Len(packets))
    BY <2>1, <2>2
  <2>8. End(Len(packets')) + Len(readbuf') = End(Len(packets)) + Len(readbuf) + want
    BY <1>0, <2>2, <2>7
  <2> QED BY <2>1, <2>6, <2>8
<1>2. CASE part = "length"
  <2>1. ReadLength(bytes[1]) /\ packets' = packets
    BY <1>2 DEF Returns
  <2>2. /\ want = 1 /\ digits \in 0..(k - 1) /\ Len(readbuf) = 1 + digits
        /\ rem_len = n % Power(digits)
    BY <1>0, <1>2 DEF TypeInv, TypeOK, ReadOK, PartExact, MAX_NO_OF_REMAINING_LENGTH_BYTES
  <2>3. bytes[1] = PacketBytes(Begun)[digits + 2]
    BY <1>0, <2>2
  <2>4. /\ n % Power(digits + 1) = rem_len + (bytes[1].digit * Multiplier(digits))
        /\ bytes[1].more <=> digits + 1 < k
    BY <1>0, <2>2, <2>3, LengthDigits
  <2>5. rem_len' = n % Power(digits') /\ digits' = digits + 1
        /\ readbuf' = Append(readbuf, bytes[1])
    BY <2>1, <2>4 DEF ReadLength
  <2>6. Len(readbuf') = 1 + digits'
    BY <1>0, <2>2, <2>5, ByteType
  <2>7. Begun' = Begun
    BY <2>1 DEF Begun
  <2>8. \A j \in 1..Len(readbuf') : readbuf'[j] = PacketBytes(Begun)[j]
    <3>1. \A j \in 1..Len(readbuf) : readbuf[j] = PacketBytes(Begun)[j]
      BY DEF PartExact
    <3>2. bytes[1] \in ByteOf
      <4>1. 1 \in 1..Len(bytes)
        BY <2>2
      <4> HIDE DEF k, n
      <4> QED BY <4>1
    <3>3. \A j \in 1..Len(readbuf) : readbuf'[j] = readbuf[j]
      BY <1>0, <2>5, <3>2
    <3>4. readbuf'[Len(readbuf) + 1] = bytes[1]
      BY <1>0, <2>5, <3>2
    <3>5. \A j \in 1..Len(readbuf') : j \in 1..Len(readbuf) \/ j = Len(readbuf) + 1
      BY <1>0, <2>2, <2>5, <2>6
    <3> QED BY <2>2, <2>3, <3>1, <3>3, <3>4, <3>5
  <2>9. \/ digits' < k /\ part' = "length"
        \/ digits' = k /\ rem_len' = 0 /\ part' = "done"
        \/ digits' = k /\ rem_len' # 0 /\ part' = "body" /\ want' = rem_len'
    <3>1. bytes[1].more => digits' < MAX_NO_OF_REMAINING_LENGTH_BYTES
      BY <1>0, <2>2, <2>4, <2>5 DEF MAX_NO_OF_REMAINING_LENGTH_BYTES
    <3>2. CASE bytes[1].more
      <4>1. part' = "length"
        BY <2>1, <3>1, <3>2 DEF ReadLength
      <4> QED BY <2>4, <2>5, <3>2, <4>1
    <3>3. CASE ~bytes[1].more
      <4>1. digits' = k
        BY <1>0, <2>2, <2>4, <2>5, <3>3
      <4>2. IF rem_len' = 0 THEN part' = "done" /\ want' = 0
                            ELSE part' = "body" /\ want' = rem_len'
        BY <2>1, <3>3 DEF ReadLength
      <4> QED BY <4>1, <4>2
    <3> QED BY <3>2, <3>3
  <2>10. n % Power(k) = n
    BY <1>0, LengthDigits
  <2>11. Len(packets') = Len(packets) /\ Lengths[Begun'] = n
    BY <2>1, <2>7
  <2> HIDE DEF n, k
  <2>12. PartExact'
    <3>1. DigitsOf(Lengths[Begun']) = k
      BY <2>11 DEF k
    <3>2. /\ Len(packets') <= Count /\ Len(packets') < Count
          /\ \A j \in 1..Len(readbuf') : readbuf'[j] = PacketBytes(Begun')[j]
      BY <1>0, <2>7, <2>8, <2>11
    <3>3. part' = "length" =>
            digits' < k /\ Len(readbuf') = 1 + digits' /\ rem_len' = n % Power(digits')
      BY <2>5, <2>6, <2>9
    <3>4. part' = "body" => Len(readbuf') = 1 + k /\ want' = n /\ n > 0
      BY <1>0, <2>5, <2>6, <2>9, <2>10
    <3>5. part' = "done" => Len(readbuf') = 1 + k /\ n = 0
      BY <2>5, <2>6, <2>9, <2>10
    <3> QED BY <2>11, <3>1, <3>2, <3>3, <3>4, <3>5 DEF PartExact
  <2> QED BY <1>0, <2>1, <2>2, <2>5, <2>6, <2>11, <2>12
<1>3. CASE part = "body"
  <2>1. PacketDone(readbuf \o bytes)
    BY <1>3 DEF Returns
  <2>2. Len(readbuf) = 1 + k /\ want = n
    BY <1>3 DEF PartExact
  <2> DEFINE all == readbuf \o bytes
  <2>3. all \in Seq(ByteOf) /\ Len(all) = PacketLength(Begun)
    BY <1>0, <2>2
  <2>4. \A j \in 1..Len(all) : all[j] = PacketBytes(Begun)[j]
    <3>1. \A j \in 1..Len(readbuf) : all[j] = readbuf[j]
      BY <1>0, Joined
    <3>2. \A j \in 1..Len(bytes) : all[Len(readbuf) + j] = bytes[j]
      BY <1>0, Joined
    <3>3. \A j \in 1..Len(readbuf) : readbuf[j] = PacketBytes(Begun)[j]
      BY DEF PartExact
    <3> HIDE DEF all
    <3> TAKE j \in 1..Len(all)
    <3>4. CASE j \in 1..Len(readbuf)
      BY <3>1, <3>3, <3>4
    <3>5. CASE j \notin 1..Len(readbuf)
      <4>1. j - Len(readbuf) \in 1..want /\ j = Len(readbuf) + (j - Len(readbuf))
        BY <1>0, <2>2, <2>3, <3>5
      <4> QED BY <3>2, <4>1
    <3> QED BY <3>4, <3>5
  <2> HIDE DEF all
  <2>5. PacketDone(all)
    BY <2>1 DEF all
  <2>6. /\ PartExact' /\ packets' = Append(packets, PacketBytes(Begun))
        /\ Len(packets') = Begun /\ Len(readbuf') = 0
    BY <2>3, <2>4, <2>5, DoneExact
  <2>7. End(Len(packets')) + Len(readbuf') = End(Len(packets)) + Len(readbuf) + want
    <3> DEFINE a == End(Len(packets))
    <3>1. a \in Nat /\ End(Len(packets')) = a + 1 + k + n
      BY <1>0, <2>6
    <3> HIDE DEF a, k, n
    <3>2. End(Len(packets')) + 0 = a + (1 + k) + n
      BY <1>0, <3>1
    <3> QED BY <2>2, <2>6, <3>2 DEF a
  <2> QED BY <2>6, <2>7
<1> QED BY <1>1, <1>2, <1>3 DEF TypeInv, TypeOK
\* What has arrived of a packet that is begun is all of it; so what a read wants
\* is in the buffer, and is what follows in the packet.
LEMMA ReadExact ==
  ASSUME TypeInv, ExactInv, part # "done",
         mqtt_recv_len # 0 \/ part # "header"
  PROVE  /\ mqtt_recv_len # 0 /\ want <= Remaining /\ Len(packets) < Count
         /\ \A j \in 1..want : Received(mqtt_recv_offset, want)[j]
                                 = PacketBytes(Begun)[Len(readbuf) + j]
<1> DEFINE Pos == arrived - (mqtt_recv_len - mqtt_recv_offset)
<1>0. /\ arrived \in 0..Len(Stream) /\ Len(Stream) \in Nat
      /\ mqtt_recv_len \in Nat /\ mqtt_recv_offset \in Nat
      /\ mqtt_recv_offset <= mqtt_recv_len /\ mqtt_recv_len <= arrived
      /\ readbuf \in Seq(ByteOf) /\ Len(readbuf) \in Nat /\ want \in Nat
      /\ Len(packets) \in 0..Count /\ Count \in Nat
  <2>1. /\ arrived \in 0..Len(Stream) /\ Len(Stream) \in Nat
        /\ mqtt_recv_len \in Nat /\ mqtt_recv_offset \in Nat
    BY Ends, Sizes DEF TypeInv, TypeOK
  <2>2. mqtt_recv_offset <= mqtt_recv_len /\ mqtt_recv_len <= arrived
    BY <2>1 DEF ExactInv, BufferExact
  <2>3. readbuf \in Seq(ByteOf) /\ Len(readbuf) \in Nat /\ want \in Nat
    BY ByteType DEF TypeInv, TypeOK
  <2>4. Len(packets) \in 0..Count /\ Count \in Nat
    BY Sizes DEF ExactInv, PartExact, TypeInv, TypeOK
  <2> QED BY <2>1, <2>2, <2>3, <2>4
<1>1. Pos = End(Len(packets)) + Len(readbuf)
  BY DEF ExactInv, PositionExact
<1>2. Len(packets) < Count
  <2>1. CASE part = "header"
    <3>1. Pos < arrived
      BY <1>0, <2>1 DEF ExactInv, BufferExact
    <3>2. readbuf = << >> /\ Len(readbuf) = 0
      BY <2>1 DEF TypeInv, ReadOK
    <3> SUFFICES ASSUME Len(packets) = Count PROVE FALSE
      BY <1>0
    <3>3. End(Len(packets)) = Len(Stream)
      BY Ends
    <3>4. Pos = Len(Stream)
      BY <1>0, <1>1, <3>2, <3>3
    <3> QED BY <1>0, <3>1, <3>4
  <2> QED BY <2>1 DEF ExactInv, PartExact
<1> DEFINE n == Lengths[Begun]
           k == DigitsOf(n)
<1>3. /\ Begun \in 1..Count /\ Begun - 1 = Len(packets) /\ n \in Nat /\ k \in 1..4
      /\ End(Begun) = End(Len(packets)) + 1 + k + n
      /\ End(Len(packets)) \in Nat /\ End(Begun) \in Nat
      /\ PacketLength(Begun) = 1 + k + n
  <2>1. PacketLength(Begun) = 1 + k + n
    BY DEF PacketLength
  <2> QED BY <1>2, <2>1, BegunType DEF ExactInv
<1>4. Len(readbuf) + want <= 1 + k + n /\ want > 0
  <2>1. CASE part = "header"
    BY <1>3, <2>1 DEF TypeInv, ReadOK
  <2>2. CASE part = "length"
    <3>1. want = 1 /\ digits < k /\ Len(readbuf) = 1 + digits /\ digits \in Nat
      BY <2>2 DEF TypeInv, TypeOK, ReadOK, ExactInv, PartExact, MAX_NO_OF_REMAINING_LENGTH_BYTES
    <3> QED BY <1>3, <3>1
  <2>3. CASE part = "body"
    <3>1. Len(readbuf) = 1 + k /\ want = n /\ n > 0
      BY <2>3 DEF ExactInv, PartExact
    <3> QED BY <1>3, <3>1
  <2> QED BY <2>1, <2>2, <2>3 DEF TypeInv, TypeOK
<1> HIDE DEF k, n
<1>5. arrived >= End(Begun)
  <2>1. arrived > End(Len(packets))
    <3>1. CASE part = "header"
      <4>1. Pos < arrived
        BY <1>0, <3>1 DEF ExactInv, BufferExact
      <4> QED BY <1>0, <1>1, <1>3, <4>1
    <3>2. CASE part # "header"
      <4>1. Len(readbuf) > 0
        <5>1. part = "length" \/ part = "body"
          BY <3>2 DEF TypeInv, TypeOK
        <5>2. digits \in Nat
          BY DEF TypeInv, TypeOK, MAX_NO_OF_REMAINING_LENGTH_BYTES
        <5> QED BY <1>3, <5>1, <5>2 DEF ExactInv, PartExact, k, n
      <4>2. Pos <= arrived
        BY <1>0
      <4> QED BY <1>0, <1>1, <1>3, <4>1, <4>2
    <3> QED BY <3>1, <3>2
  <2>2. arrived \in PacketEnds
    BY <1>0, <1>3, <2>1 DEF ExactInv
  <2> QED BY <1>3, <2>1, <2>2, NoEndInside
<1>6. Pos + want <= arrived
  BY <1>0, <1>1, <1>3, <1>4, <1>5
<1>7. mqtt_recv_len # 0
  BY <1>0, <1>4, <1>6 DEF ExactInv, BufferExact
<1>8. want <= Remaining /\ mqtt_recv_offset + want <= mqtt_recv_len
  BY <1>0, <1>6 DEF Remaining
<1>9. ASSUME NEW j \in 1..want
      PROVE  Received(mqtt_recv_offset, want)[j] = PacketBytes(Begun)[Len(readbuf) + j]
  <2>1. /\ mqtt_recv_offset + j \in 1..mqtt_recv_len /\ Len(mqtt_recvbuf) = mqtt_recv_len
        /\ (arrived - mqtt_recv_len) + (mqtt_recv_offset + j) = Pos + j
    BY <1>0, <1>7, <1>8 DEF ExactInv, BufferExact
  <2>2. Received(mqtt_recv_offset, want)[j] = mqtt_recvbuf[mqtt_recv_offset + j]
    BY <1>0, <2>1, ReceivedType DEF TypeInv
  <2>3. mqtt_recvbuf[mqtt_recv_offset + j] = Stream[Pos + j]
    BY <1>7, <2>1 DEF ExactInv, BufferExact
  <2>4. Len(readbuf) + j \in 1..PacketLength(Begun)
    BY <1>0, <1>3, <1>4
  <2>5. Stream[End(Begun - 1) + (Len(readbuf) + j)] = PacketBytes(Begun)[Len(readbuf) + j]
    BY <1>3, <2>4, StreamParts
  <2>6. End(Begun - 1) + (Len(readbuf) + j) = Pos + j
    <3>1. End(Begun - 1) = End(Len(packets))
      BY <1>3
    <3> HIDE DEF Pos
    <3> QED BY <1>0, <1>1, <1>3, <3>1
  <2> QED BY <2>2, <2>3, <2>5, <2>6
<1> QED BY <1>2, <1>7, <1>8, <1>9

\* Every step keeps the packets exact, and returns the next one or none.
LEMMA ExactNext ==
  ASSUME TypeInv, aligned => ExactInv, [Next]_vars
  PROVE  /\ (aligned => ExactInv)'
         /\ aligned => \/ packets' = packets
                       \/ /\ Len(packets) < Count
                          /\ packets' = Append(packets, PacketBytes(Begun))
<1>0. aligned' = aligned
  BY DEF Next, ReadBuffered, ReadRemain, ReadMore, BufferedRead, BufferedReadFails,
         ReadPacketEnds, vars
<1> SUFFICES ASSUME aligned
             PROVE  /\ ExactInv'
                    /\ \/ packets' = packets
                       \/ /\ Len(packets) < Count
                          /\ packets' = Append(packets, PacketBytes(Begun))
  BY <1>0
<1>1. ExactInv /\ at = "enter" /\ BufferExact /\ PartExact /\ PositionExact
  BY DEF ExactInv
<1>2. /\ arrived \in 0..Len(Stream) /\ Len(Stream) \in Nat
      /\ mqtt_recv_len \in Nat /\ mqtt_recv_offset \in Nat /\ want \in Nat
  BY Ends, Sizes DEF TypeInv, TypeOK
<1>3. CASE ReadBuffered
  <2> DEFINE bytes == Received(mqtt_recv_offset, want)
  <2>1. /\ part # "done" /\ mqtt_recv_len # 0 /\ Returns(bytes)
        /\ ResetIfEmpty(mqtt_recv_offset + want) /\ arrived' = arrived /\ want <= Remaining
    BY <1>3 DEF ReadBuffered
  <2>2. /\ Len(packets) < Count
        /\ \A j \in 1..want : bytes[j] = PacketBytes(Begun)[Len(readbuf) + j]
    BY <1>1, <2>1, ReadExact
  <2>3. bytes \in Seq(ByteOf) /\ Len(bytes) = want
    BY <1>2, ReceivedType DEF TypeInv
  <2> HIDE DEF bytes
  <2>4. /\ PartExact'
        /\ packets' = packets \/ packets' = Append(packets, PacketBytes(Begun))
        /\ End(Len(packets')) + Len(readbuf') = End(Len(packets)) + Len(readbuf) + want
    BY <1>1, <2>1, <2>2, <2>3, ReturnsExact
  <2>5. at' = "enter"
    BY <2>1 DEF Returns
  <2>6. mqtt_recv_offset + want <= mqtt_recv_len
    BY <1>1, <1>2, <2>1 DEF Remaining, BufferExact
  <2>7. BufferExact'
    BY <1>1, <1>2, <2>1, <2>6 DEF BufferExact, ResetIfEmpty
  <2>8. arrived' - (mqtt_recv_len' - mqtt_recv_offset')
          = (arrived - (mqtt_recv_len - mqtt_recv_offset)) + want
    BY <1>2, <2>1, <2>6 DEF ResetIfEmpty
  <2>9. PositionExact'
    BY <1>1, <2>4, <2>8 DEF PositionExact
  <2> QED BY <1>1, <2>1, <2>2, <2>4, <2>5, <2>7, <2>9 DEF ExactInv
<1>4. ~ReadRemain
  <2> SUFFICES ASSUME ReadRemain PROVE FALSE
    OBVIOUS
  <2>1. part # "done" /\ mqtt_recv_len # 0
    BY DEF ReadRemain
  <2>2. want <= Remaining
    BY <1>1, <2>1, ReadExact
  <2>3. mqtt_recv_offset <= mqtt_recv_len
    BY <1>1, <1>2 DEF BufferExact
  <2>4. Remaining \in Nat
    BY <1>2, <2>3 DEF Remaining
  <2> QED BY <1>2, <2>2, <2>3, <2>4 DEF ReadRemain
<1>5. ~ReadMore
  BY <1>1 DEF ReadMore
<1>6. CASE BufferedRead
  <2>1. PICK n \in 1..BufferLength : /\ arrived + n <= Len(Stream)
                                     /\ arrived + n \in PacketEnds /\ Fills(n)
    BY <1>6 DEF BufferedRead
  <2>2. /\ mqtt_recv_len = 0 /\ at' = "enter" /\ part # "done"
        /\ UNCHANGED <<want, buffer, pktVars, last, packets>>
    BY <1>1, <1>6 DEF BufferedRead, NeedsFill
  <2>3. n \in Nat /\ n # 0 /\ mqtt_recv_offset = 0
    BY <1>1, <2>2, Sizes DEF BufferExact
  <2>4. /\ mqtt_recvbuf' = SubSeq(Stream, arrived + 1, arrived + n)
        /\ mqtt_recv_len' = n /\ mqtt_recv_offset' = 0 /\ arrived' = arrived + n
    BY <2>1 DEF Fills
  <2>5. Len(mqtt_recvbuf') = n /\ \A j \in 1..n : mqtt_recvbuf'[j] = Stream[arrived + j]
    BY <1>2, <2>1, <2>3, <2>4, PieceType
  <2>6. BufferExact'
    <3>1. arrived' - mqtt_recv_len' = arrived
      BY <1>2, <2>3, <2>4
    <3> QED BY <1>2, <2>3, <2>4, <2>5, <3>1 DEF BufferExact
  <2>7. PartExact'
    BY <1>1, <2>2 DEF PartExact, pktVars, Begun
  <2>8. PositionExact'
    <3>1. arrived' - (mqtt_recv_len' - mqtt_recv_offset')
            = arrived - (mqtt_recv_len - mqtt_recv_offset)
      BY <1>2, <2>2, <2>3, <2>4
    <3> QED BY <1>1, <2>2, <3>1 DEF PositionExact, pktVars
  <2> QED BY <2>1, <2>2, <2>4, <2>6, <2>7, <2>8 DEF ExactInv
<1>7. CASE BufferedReadFails
  <2>1. /\ part # "done" /\ mqtt_recv_len = 0 /\ mqtt_recv_offset = 0
        /\ mqtt_recv_len' = 0 /\ mqtt_recv_offset' = 0 /\ arrived' = arrived
        /\ ReturnsNothing
    BY <1>1, <1>7 DEF BufferedReadFails, NeedsFill, BufferExact
  <2>2. part = "header"
    BY <1>1, <2>1, ReadExact
  <2>3. /\ at' = "enter" /\ part' = "header" /\ packets' = packets /\ readbuf' = << >>
    BY <2>1, <2>2 DEF ReturnsNothing, PacketDropped
  <2>4. readbuf = << >> /\ Len(readbuf) = 0
    BY <2>2 DEF TypeInv, ReadOK
  <2>5. BufferExact'
    BY <1>2, <2>1 DEF BufferExact
  <2>6. PartExact'
    BY <1>1, <2>3, <2>4 DEF PartExact
  <2>7. PositionExact'
    BY <1>1, <2>1, <2>3, <2>4 DEF PositionExact
  <2> QED BY <1>1, <2>1, <2>3, <2>5, <2>6, <2>7 DEF ExactInv
<1>8. CASE ReadPacketEnds
  <2>1. /\ part = "done" /\ PacketDone(readbuf)
        /\ UNCHANGED <<arrived, bufVars, at>>
    BY <1>8 DEF ReadPacketEnds
  <2>2. /\ Len(packets) < Count /\ Lengths[Begun] = 0
        /\ Len(readbuf) = 1 + DigitsOf(Lengths[Begun])
        /\ \A j \in 1..Len(readbuf) : readbuf[j] = PacketBytes(Begun)[j]
    BY <1>1, <2>1 DEF PartExact
  <2>3. readbuf \in Seq(ByteOf) /\ Len(readbuf) = PacketLength(Begun)
    <3>1. Len(readbuf) \in Nat /\ readbuf \in Seq(ByteOf)
      BY ByteType DEF TypeInv, TypeOK
    <3> QED BY <2>2, <3>1 DEF PacketLength
  <2>4. /\ PartExact' /\ packets' = Append(packets, PacketBytes(Begun))
        /\ Len(packets') = Begun /\ Len(readbuf') = 0 /\ part' = "header"
    BY <1>1, <2>1, <2>2, <2>3, DoneExact
  <2>5. End(Begun) = End(Len(packets)) + Len(readbuf) /\ End(Begun) \in Nat
    <3>1. /\ Begun \in 1..Count /\ Begun - 1 = Len(packets) /\ End(Begun) \in Nat
      BY <1>1, <2>2, BegunType
    <3> QED BY <2>3, <3>1, Ends
  <2>6. BufferExact'
    BY <1>1, <2>1 DEF BufferExact, bufVars
  <2>7. PositionExact'
    BY <1>1, <2>1, <2>4, <2>5 DEF PositionExact, bufVars
  <2> QED BY <1>1, <2>1, <2>2, <2>4, <2>6, <2>7 DEF ExactInv
<1>9. CASE UNCHANGED vars
  <2>1. UNCHANGED <<arrived, bufVars, at, want, pktVars, packets>>
    BY <1>9 DEF vars, readVars
  <2>2. ExactInv'
    BY <1>1, <2>1 DEF ExactInv, BufferExact, PartExact, PositionExact, bufVars, pktVars, Begun
  <2> QED BY <2>1, <2>2
<1> QED BY <1>3, <1>4, <1>5, <1>6, <1>7, <1>8, <1>9 DEF Next

\* Nothing has been read at the start.
LEMMA ExactInit == Init => ExactInv
<1> SUFFICES ASSUME Init PROVE ExactInv
  OBVIOUS
<1>1. Len(packets) = 0 /\ Len(readbuf) = 0 /\ End(0) = 0 /\ Count \in Nat
  BY Ends, Sizes DEF Init
<1>2. BufferExact /\ PositionExact
  BY <1>1 DEF Init, BufferExact, PositionExact
<1>3. PartExact
  BY <1>1 DEF Init, PartExact
<1> QED BY <1>2, <1>3 DEF ExactInv, Init

\* PacketsExact: when pieces end where packets end, readPacket returns the
\* broker's packets in order, each of them whole and none left out, however many
\* arrive in a piece and whichever reads time out.
THEOREM PacketsAreExact == Spec => PacketsExact
<1>1. Init => (aligned => ExactInv)
  BY ExactInit
<1>2. TypeInv /\ (aligned => ExactInv) /\ [Next]_vars => (aligned => ExactInv)'
  BY ExactNext
<1>3. TypeInv /\ (aligned => ExactInv) /\ [Next]_vars
        => [aligned => /\ Len(packets) < Len(Lengths)
                       /\ packets' = Append(packets, PacketBytes(Len(packets) + 1))]_packets
  BY ExactNext DEF Begun, Count
<1> QED BY <1>1, <1>2, <1>3, TypeInvariant, PTL DEF Spec, PacketsExact
-----------------------------------------------------------------------------
(* Order.  However the stream is cut, the bytes of the packets returned,   *)
(* of the one begun and of the read under way follow each other, and those *)
(* still in the buffer follow them all.                                    *)

Increasing(s) ==
  \A i, j \in 1..Len(s) : i < j /\ s[i] # ZeroByte /\ s[j] # ZeroByte
                           => Position(s[i]) < Position(s[j])

Precedes(s, t) ==
  \A i \in 1..Len(s), j \in 1..Len(t) : s[i] # ZeroByte /\ t[j] # ZeroByte
                           => Position(s[i]) < Position(t[j])

Upto(s, n) == \A i \in 1..Len(s) : s[i] # ZeroByte => Position(s[i]) <= n
From(s, n) == \A i \in 1..Len(s) : s[i] # ZeroByte => n < Position(s[i])

\* ps have been returned, r is begun, b is being read, n is how far that is.
ReadOrder(ps, r, b, n) ==
  /\ \A p \in 1..Len(ps) : Increasing(ps[p])
  /\ \A p \in 1..Len(ps) : Upto(ps[p], n)
  /\ \A p, q \in 1..Len(ps) : p < q => Precedes(ps[p], ps[q])
  /\ \A p \in 1..Len(ps) : Precedes(ps[p], r)
  /\ \A p \in 1..Len(ps) : Precedes(ps[p], b)
  /\ Increasing(r) /\ Upto(r, n) /\ Increasing(b) /\ Upto(b, n) /\ Precedes(r, b)

\* How far the stream has been read.
Seen == IF mqtt_recv_offset > mqtt_recv_len THEN arrived
        ELSE arrived - (mqtt_recv_len - mqtt_recv_offset)

OrderInv ==
  /\ at = "copy" => mqtt_recv_len # 0
  /\ mqtt_recv_len # 0 =>
       /\ Len(mqtt_recvbuf) = mqtt_recv_len /\ mqtt_recv_len <= arrived
       /\ \A j \in 1..mqtt_recv_len :
            mqtt_recvbuf[j] = Stream[(arrived - mqtt_recv_len) + j]
  /\ ReadOrder(packets, readbuf, buffer, Seen)

\* A byte of the stream has a position.
LEMMA PositionType ==
  ASSUME NEW b \in ByteOf, b # ZeroByte
  PROVE  Position(b) \in 1..Len(Stream) /\ Position(b) \in Nat
<1>1. PICK i \in DOMAIN Stream : b = Stream[i]
  BY DEF ByteOf
<1>2. DOMAIN Stream = 1..Len(Stream) /\ Len(Stream) \in Nat
  BY Ends
<1> QED BY <1>1, <1>2, PositionIs

\* The elements of a sequence of bytes that are of the stream have positions.
LEMMA PositionsType ==
  ASSUME NEW s \in Seq(ByteOf)
  PROVE  \A i \in 1..Len(s) : s[i] # ZeroByte => Position(s[i]) \in Nat
<1> SUFFICES ASSUME NEW i \in 1..Len(s), s[i] # ZeroByte PROVE Position(s[i]) \in Nat
  OBVIOUS
<1>1. s[i] \in ByteOf
  OBVIOUS
<1> QED BY <1>1, PositionType

\* An empty sequence is in any order.
LEMMA EmptyOrder ==
  ASSUME NEW s \in Seq(ByteOf), NEW n
  PROVE  /\ << >> \in Seq(ByteOf) /\ Increasing(<< >>) /\ Upto(<< >>, n)
         /\ Precedes(s, << >>) /\ Precedes(<< >>, s)
<1>1. << >> \in Seq(ByteOf) /\ 1..Len(<< >>) = {}
  OBVIOUS
<1> QED BY <1>1 DEF Increasing, Upto, Precedes

\* What comes behind n comes behind what goes up to n.
LEMMA FarPrecedes ==
  ASSUME NEW s \in Seq(ByteOf), NEW t \in Seq(ByteOf), NEW n \in Nat, Upto(s, n), From(t, n)
  PROVE  Precedes(s, t)
<1> SUFFICES ASSUME NEW i \in 1..Len(s), NEW j \in 1..Len(t), s[i] # ZeroByte, t[j] # ZeroByte
             PROVE  Position(s[i]) < Position(t[j])
  BY DEF Precedes
<1>1. Position(s[i]) \in Nat /\ Position(t[j]) \in Nat
  BY PositionsType
<1>2. Position(s[i]) <= n /\ n < Position(t[j])
  BY DEF Upto, From
<1> QED BY <1>1, <1>2

\* What goes up to n goes up to any larger number.
LEMMA UptoLarger ==
  ASSUME NEW s \in Seq(ByteOf), NEW n \in Nat, NEW m \in Nat, n <= m, Upto(s, n)
  PROVE  Upto(s, m)
<1> SUFFICES ASSUME NEW i \in 1..Len(s), s[i] # ZeroByte PROVE Position(s[i]) <= m
  BY DEF Upto
<1> QED BY PositionsType DEF Upto

\* Where an element of two sequences in one comes from.
LEMMA JoinedFrom ==
  ASSUME NEW s \in Seq(ByteOf), NEW t \in Seq(ByteOf), NEW i \in 1..Len(s \o t)
  PROVE  \/ i \in 1..Len(s) /\ (s \o t)[i] = s[i]
         \/ /\ i \notin 1..Len(s) /\ i - Len(s) \in 1..Len(t)
            /\ (s \o t)[i] = t[i - Len(s)]
<1>1. Len(s) \in Nat /\ Len(t) \in Nat /\ Len(s \o t) = Len(s) + Len(t)
  OBVIOUS
<1>2. CASE i \in 1..Len(s)
  BY <1>2, Joined
<1>3. CASE i \notin 1..Len(s)
  <2>1. i - Len(s) \in 1..Len(t) /\ Len(s) + (i - Len(s)) = i
    BY <1>1, <1>3
  <2>2. \A j \in 1..Len(t) : (s \o t)[Len(s) + j] = t[j]
    BY Joined
  <2>3. (s \o t)[Len(s) + (i - Len(s))] = t[i - Len(s)]
    BY <2>1, <2>2
  <2> QED BY <1>3, <2>1, <2>3
<1> QED BY <1>2, <1>3

\* Two sequences in one, in order.
LEMMA JoinedOrder ==
  ASSUME NEW s \in Seq(ByteOf), NEW t \in Seq(ByteOf)
  PROVE  /\ Increasing(s) /\ Increasing(t) /\ Precedes(s, t) => Increasing(s \o t)
         /\ \A n : Upto(s, n) /\ Upto(t, n) => Upto(s \o t, n)
         /\ \A u : Precedes(u, s) /\ Precedes(u, t) => Precedes(u, s \o t)
<1>0. Len(s) \in Nat /\ Len(t) \in Nat /\ Len(s \o t) = Len(s) + Len(t)
  OBVIOUS
<1>1. ASSUME Increasing(s), Increasing(t), Precedes(s, t) PROVE Increasing(s \o t)
  <2> SUFFICES ASSUME NEW i \in 1..Len(s \o t), NEW j \in 1..Len(s \o t), i < j,
                      (s \o t)[i] # ZeroByte, (s \o t)[j] # ZeroByte
               PROVE  Position((s \o t)[i]) < Position((s \o t)[j])
    BY DEF Increasing
  <2>1. CASE j \in 1..Len(s)
    <3>1. i \in 1..Len(s) /\ (s \o t)[i] = s[i] /\ (s \o t)[j] = s[j]
      BY <1>0, <2>1, Joined
    <3> QED BY <1>1, <2>1, <3>1 DEF Increasing
  <2>2. CASE j \notin 1..Len(s)
    <3>1. j - Len(s) \in 1..Len(t) /\ (s \o t)[j] = t[j - Len(s)]
      BY <2>2, JoinedFrom
    <3>2. CASE i \in 1..Len(s)
      <4>1. (s \o t)[i] = s[i]
        BY <3>2, Joined
      <4> QED BY <1>1, <3>1, <3>2, <4>1 DEF Precedes
    <3>3. CASE i \notin 1..Len(s)
      <4>1. i - Len(s) \in 1..Len(t) /\ (s \o t)[i] = t[i - Len(s)]
        BY <3>3, JoinedFrom
      <4>2. i - Len(s) < j - Len(s)
        BY <1>0
      <4> QED BY <1>1, <3>1, <4>1, <4>2 DEF Increasing
    <3> QED BY <3>2, <3>3
  <2> QED BY <2>1, <2>2
<1>2. ASSUME NEW n, Upto(s, n), Upto(t, n) PROVE Upto(s \o t, n)
  <2> SUFFICES ASSUME NEW i \in 1..Len(s \o t), (s \o t)[i] # ZeroByte
               PROVE  Position((s \o t)[i]) <= n
    BY DEF Upto
  <2> QED BY <1>2, JoinedFrom DEF Upto
<1>3. ASSUME NEW u, Precedes(u, s), Precedes(u, t) PROVE Precedes(u, s \o t)
  <2> SUFFICES ASSUME NEW i \in 1..Len(u), NEW j \in 1..Len(s \o t),
                      u[i] # ZeroByte, (s \o t)[j] # ZeroByte
               PROVE  Position(u[i]) < Position((s \o t)[j])
    BY DEF Precedes
  <2> QED BY <1>3, JoinedFrom DEF Precedes
<1> QED BY <1>1, <1>2, <1>3
\* What happens to the bytes in order: more of the stream is read without its
\* bytes; the read under way, or the packet begun, is forgotten; bytes that come
\* behind are read; what was read joins the packet; the packet is returned.
LEMMA OrderSteps ==
  ASSUME NEW ps \in Seq(Seq(ByteOf)), NEW r \in Seq(ByteOf), NEW b \in Seq(ByteOf),
         NEW n \in Nat, ReadOrder(ps, r, b, n)
  PROVE  /\ \A m \in Nat : n <= m => ReadOrder(ps, r, b, m)
         /\ ReadOrder(ps, r, << >>, n) /\ ReadOrder(ps, << >>, << >>, n)
         /\ \A t \in Seq(ByteOf) : \A m \in Nat :
              n <= m /\ Increasing(t) /\ From(t, n) /\ Upto(t, m) => ReadOrder(ps, r, b \o t, m)
         /\ ReadOrder(ps, r \o b, << >>, n)
<1>0. \A p \in 1..Len(ps) : ps[p] \in Seq(ByteOf)
  OBVIOUS
<1>1. ASSUME NEW m \in Nat, n <= m PROVE ReadOrder(ps, r, b, m)
  <2>1. Upto(r, m) /\ Upto(b, m)
    BY <1>1, UptoLarger DEF ReadOrder
  <2>2. ASSUME NEW p \in 1..Len(ps) PROVE Upto(ps[p], m)
    <3>1. Upto(ps[p], n)
      BY DEF ReadOrder
    <3> QED BY <1>0, <1>1, <3>1, UptoLarger
  <2> QED BY <2>1, <2>2 DEF ReadOrder
<1>2. \A s \in Seq(ByteOf) : Precedes(s, << >>) /\ Precedes(<< >>, s)
  BY EmptyOrder
<1>3. Increasing(<< >>) /\ Upto(<< >>, n) /\ Precedes(<< >>, << >>)
  BY EmptyOrder
<1>4. \A p \in 1..Len(ps) : Precedes(ps[p], << >>)
  BY <1>0, <1>2
<1>5. ReadOrder(ps, r, << >>, n) /\ ReadOrder(ps, << >>, << >>, n)
  BY <1>2, <1>3, <1>4 DEF ReadOrder
<1>6. ASSUME NEW t \in Seq(ByteOf), NEW m \in Nat, n <= m, Increasing(t), From(t, n), Upto(t, m)
      PROVE  ReadOrder(ps, r, b \o t, m)
  <2>1. ReadOrder(ps, r, b, m)
    BY <1>1, <1>6
  <2>2. Upto(r, n) /\ Upto(b, n)
    BY DEF ReadOrder
  <2>3. Precedes(r, t) /\ Precedes(b, t)
    BY <1>6, <2>2, FarPrecedes
  <2>4. ASSUME NEW p \in 1..Len(ps) PROVE Precedes(ps[p], b \o t)
    <3>1. Upto(ps[p], n) /\ Precedes(ps[p], b)
      BY DEF ReadOrder
    <3>2. Precedes(ps[p], t)
      BY <1>0, <1>6, <3>1, FarPrecedes
    <3> QED BY <3>1, <3>2, JoinedOrder
  <2>5. Increasing(b \o t) /\ Upto(b \o t, m) /\ Precedes(r, b \o t)
    BY <1>6, <2>1, <2>3, JoinedOrder DEF ReadOrder
  <2> QED BY <2>1, <2>4, <2>5 DEF ReadOrder
<1>7. ReadOrder(ps, r \o b, << >>, n)
  <2>1. r \o b \in Seq(ByteOf)
    OBVIOUS
  <2>2. Increasing(r \o b) /\ Upto(r \o b, n)
    BY JoinedOrder DEF ReadOrder
  <2>3. \A p \in 1..Len(ps) : Precedes(ps[p], r \o b)
    BY JoinedOrder DEF ReadOrder
  <2> QED BY <1>2, <1>3, <1>4, <2>1, <2>2, <2>3 DEF ReadOrder
<1> QED BY <1>1, <1>5, <1>6, <1>7

\* A read that ends with success hands its bytes over as a packet: they stay behind
\* those of all earlier packets.
LEMMA OrderReturned ==
  ASSUME NEW ps \in Seq(Seq(ByteOf)), NEW r \in Seq(ByteOf), NEW n \in Nat,
         ReadOrder(ps, r, << >>, n)
  PROVE  ReadOrder(Append(ps, r), << >>, << >>, n)
<1> DEFINE qs == Append(ps, r)
<1>1. /\ Len(qs) = Len(ps) + 1 /\ Len(ps) \in Nat /\ qs[Len(ps) + 1] = r
      /\ \A p \in 1..Len(ps) : qs[p] = ps[p]
      /\ \A p \in 1..Len(qs) : qs[p] \in Seq(ByteOf)
  OBVIOUS
<1> HIDE DEF qs
<1>2. \A p \in 1..Len(qs) : p \in 1..Len(ps) \/ p = Len(ps) + 1
  BY <1>1
<1>3. \A p \in 1..Len(qs) : Increasing(qs[p])
  BY <1>1, <1>2 DEF ReadOrder
<1>4. \A p \in 1..Len(qs) : Upto(qs[p], n)
  BY <1>1, <1>2 DEF ReadOrder
<1>5. ASSUME NEW p \in 1..Len(qs), NEW q \in 1..Len(qs), p < q PROVE Precedes(qs[p], qs[q])
  <2>1. p \in 1..Len(ps) /\ qs[p] = ps[p]
    BY <1>1, <1>5
  <2>2. CASE q \in 1..Len(ps)
    BY <1>1, <1>5, <2>1, <2>2 DEF ReadOrder
  <2>3. CASE q = Len(ps) + 1
    BY <1>1, <2>1, <2>3 DEF ReadOrder
  <2> QED BY <1>2, <2>2, <2>3
<1>6. /\ \A p \in 1..Len(qs) : Precedes(qs[p], << >>)
      /\ Increasing(<< >>) /\ Upto(<< >>, n) /\ Precedes(<< >>, << >>)
  BY <1>1, EmptyOrder
<1>7. ReadOrder(qs, << >>, << >>, n)
  BY <1>3, <1>4, <1>5, <1>6 DEF ReadOrder
<1> QED BY <1>7 DEF qs

\* One element.
LEMMA AppendJoined ==
  ASSUME NEW T, NEW s \in Seq(T), NEW t \in Seq(T), Len(t) = 1
  PROVE  Append(s, t[1]) = s \o t
<1>1. t[1] \in T
  <2>1. \A u \in Seq(T) : \A i \in 1..Len(u) : u[i] \in T
    OBVIOUS
  <2>2. 1 \in 1..Len(t)
    OBVIOUS
  <2> QED BY <2>1, <2>2, Zenon
<1>2. t = <<t[1]>>
  <2>1. <<t[1]>> \in Seq(T) /\ Len(<<t[1]>>) = 1
    BY <1>1
  <2>2. \A i \in 1..Len(t) : t[i] = <<t[1]>>[i]
    OBVIOUS
  <2> QED BY <2>1, <2>2, SeqEqual
<1>3. \A x \in T : Append(s, x) = s \o <<x>>
  OBVIOUS
<1> QED BY <1>1, <1>2, <1>3, Zenon

\* A complete read.
LEMMA ReturnsOrder ==
  ASSUME TypeInv, part # "done", NEW bytes \in Seq(ByteOf), Len(bytes) = want, Returns(bytes),
         NEW n \in Nat, ReadOrder(packets, readbuf, bytes, n)
  PROVE  ReadOrder(packets', readbuf', buffer', n)
<1>0. packets \in Seq(Seq(ByteOf)) /\ readbuf \in Seq(ByteOf)
  BY ByteType DEF TypeInv, TypeOK
<1>1. ReadOrder(packets, readbuf \o bytes, << >>, n)
  BY <1>0, OrderSteps
<1>2. buffer' = << >>
  BY DEF Returns
<1>3. CASE part = "header"
  <2>1. readbuf = << >> /\ readbuf' = bytes /\ packets' = packets
    BY <1>3 DEF Returns, TypeInv, ReadOK
  <2>2. << >> \o bytes = bytes
    OBVIOUS
  <2> QED BY <1>1, <1>2, <2>1, <2>2
<1>4. CASE part = "length"
  <2>1. readbuf' = Append(readbuf, bytes[1]) /\ packets' = packets /\ Len(bytes) = 1
    BY <1>4 DEF Returns, ReadLength, TypeInv, ReadOK
  <2>2. Append(readbuf, bytes[1]) = readbuf \o bytes
    BY <1>0, <2>1, AppendJoined
  <2> QED BY <1>1, <1>2, <2>1, <2>2
<1>5. CASE part = "body"
  <2>1. packets' = Append(packets, readbuf \o bytes) /\ readbuf' = << >>
    BY <1>5 DEF Returns, PacketDone
  <2>2. readbuf \o bytes \in Seq(ByteOf)
    BY <1>0
  <2> QED BY <1>0, <1>1, <1>2, <2>1, <2>2, OrderReturned
<1> QED BY <1>3, <1>4, <1>5 DEF TypeInv, TypeOK

\* What is taken from the buffer comes behind what has been read, in order, and
\* leaves in the buffer what comes behind it.
LEMMA ReceivedOrder ==
  ASSUME TypeInv, OrderInv, mqtt_recv_len # 0, NEW k \in Nat,
         mqtt_recv_offset + k <= mqtt_recv_len + 1, NEW m \in Nat,
         m = IF mqtt_recv_offset + k > mqtt_recv_len THEN arrived
             ELSE arrived - (mqtt_recv_len - (mqtt_recv_offset + k))
  PROVE  /\ Received(mqtt_recv_offset, k) \in Seq(ByteOf)
         /\ Len(Received(mqtt_recv_offset, k)) = k
         /\ Increasing(Received(mqtt_recv_offset, k))
         /\ From(Received(mqtt_recv_offset, k), Seen)
         /\ Upto(Received(mqtt_recv_offset, k), m) /\ Seen \in Nat /\ Seen <= m
<1> DEFINE s == Received(mqtt_recv_offset, k)
           Pos == arrived - (mqtt_recv_len - mqtt_recv_offset)
<1>1. /\ arrived \in 0..Len(Stream) /\ Len(Stream) \in Nat
      /\ mqtt_recv_len \in Nat /\ mqtt_recv_offset \in Nat /\ mqtt_recv_len <= arrived
      /\ Len(mqtt_recvbuf) = mqtt_recv_len
  BY Ends, Sizes DEF TypeInv, TypeOK, OrderInv
<1>2. /\ s \in Seq(ByteOf) /\ Len(s) = k
      /\ \A j \in 1..k : s[j] = IF mqtt_recv_offset + j <= mqtt_recv_len
                               THEN mqtt_recvbuf[mqtt_recv_offset + j] ELSE ZeroByte
  BY <1>1, ReceivedType DEF TypeInv
<1> HIDE DEF s
<1>3. ASSUME NEW j \in 1..k, s[j] # ZeroByte
      PROVE  mqtt_recv_offset + j <= mqtt_recv_len /\ Position(s[j]) = Pos + j
  <2>1. mqtt_recv_offset + j \in 1..mqtt_recv_len
    BY <1>1, <1>2, <1>3
  <2>2. s[j] = Stream[(arrived - mqtt_recv_len) + (mqtt_recv_offset + j)]
    BY <1>1, <1>2, <2>1 DEF OrderInv
  <2>3. /\ (arrived - mqtt_recv_len) + (mqtt_recv_offset + j) = Pos + j
        /\ Pos + j \in 1..Len(Stream)
    BY <1>1, <2>1
  <2>4. Position(Stream[Pos + j]) = Pos + j
    BY <2>3, PositionIs
  <2> QED BY <1>1, <2>1, <2>2, <2>3, <2>4
<1>4. Seen \in Nat /\ Seen <= m
  BY <1>1 DEF Seen
<1>5. Increasing(s)
  <2> SUFFICES ASSUME NEW i \in 1..k, NEW j \in 1..k, i < j, s[i] # ZeroByte, s[j] # ZeroByte
               PROVE  Position(s[i]) < Position(s[j])
    BY <1>2 DEF Increasing
  <2>1. Position(s[i]) = Pos + i /\ Position(s[j]) = Pos + j
    BY <1>3
  <2> QED BY <1>1, <2>1
<1>6. From(s, Seen)
  <2> SUFFICES ASSUME NEW j \in 1..k, s[j] # ZeroByte PROVE Seen < Position(s[j])
    BY <1>2 DEF From
  <2>1. mqtt_recv_offset + j <= mqtt_recv_len /\ Position(s[j]) = Pos + j
    BY <1>3
  <2> QED BY <1>1, <2>1 DEF Seen
<1>7. Upto(s, m)
  <2> SUFFICES ASSUME NEW j \in 1..k, s[j] # ZeroByte PROVE Position(s[j]) <= m
    BY <1>2 DEF Upto
  <2>1. mqtt_recv_offset + j <= mqtt_recv_len /\ Position(s[j]) = Pos + j
    BY <1>3
  <2> QED BY <1>1, <2>1
<1> QED BY <1>2, <1>4, <1>5, <1>6, <1>7 DEF s
\* How far the stream is read when the end of a read has dealt with the buffer.
LEMMA ResetSeen ==
  ASSUME TypeInv, mqtt_recv_len # 0, NEW o \in 0..(mqtt_recv_len + 1),
         ResetIfEmpty(o), arrived' = arrived
  PROVE  /\ Seen' = IF o > mqtt_recv_len THEN arrived ELSE arrived - (mqtt_recv_len - o)
         /\ mqtt_recv_len' \in {0, mqtt_recv_len} /\ mqtt_recvbuf' = mqtt_recvbuf
<1>1. mqtt_recv_len \in Nat /\ arrived \in Nat
  BY Ends, Sizes DEF TypeInv, TypeOK
<1>2. CASE o = mqtt_recv_len
  <2>1. mqtt_recv_len' = 0 /\ mqtt_recv_offset' = 0 /\ mqtt_recvbuf' = mqtt_recvbuf
    BY <1>2 DEF ResetIfEmpty
  <2> QED BY <1>1, <1>2, <2>1 DEF Seen
<1>3. CASE o # mqtt_recv_len
  <2>1. mqtt_recv_len' = mqtt_recv_len /\ mqtt_recv_offset' = o /\ mqtt_recvbuf' = mqtt_recvbuf
    BY <1>3 DEF ResetIfEmpty
  <2> QED BY <1>1, <2>1 DEF Seen
<1> QED BY <1>2, <1>3

\* What the copying loop, or the plain copy, does to the order.
LEMMA CopiedOrder ==
  ASSUME TypeInv, OrderInv, part # "done", mqtt_recv_len # 0, arrived' = arrived,
         NEW k \in Nat, mqtt_recv_offset + k <= mqtt_recv_len + 1,
         NEW bytes, bytes = buffer \o Received(mqtt_recv_offset, k),
         \/ Returns(bytes) /\ Len(bytes) = want /\ ResetIfEmpty(mqtt_recv_offset + k)
         \/ /\ buffer' = bytes /\ at' = "fill"
            /\ mqtt_recv_offset' = mqtt_recv_offset + k
            /\ UNCHANGED <<mqtt_recvbuf, mqtt_recv_len, pktVars, packets>>
  PROVE  OrderInv'
<1> DEFINE m == IF mqtt_recv_offset + k > mqtt_recv_len THEN arrived
                ELSE arrived - (mqtt_recv_len - (mqtt_recv_offset + k))
           t == Received(mqtt_recv_offset, k)
<1>0. /\ mqtt_recv_offset \in Nat /\ mqtt_recv_len \in Nat /\ arrived \in Nat
      /\ mqtt_recv_len <= arrived
      /\ packets \in Seq(Seq(ByteOf)) /\ readbuf \in Seq(ByteOf) /\ buffer \in Seq(ByteOf)
  BY ByteType, Sizes, Ends DEF TypeInv, TypeOK, OrderInv
<1>1. m \in Nat
  BY <1>0
<1>2. /\ t \in Seq(ByteOf) /\ Increasing(t) /\ From(t, Seen) /\ Upto(t, m)
      /\ Seen \in Nat /\ Seen <= m
  BY <1>1, ReceivedOrder
<1>3. mqtt_recv_offset + k \in 0..(mqtt_recv_len + 1)
  BY <1>0
<1> HIDE DEF t
<1>4. bytes \in Seq(ByteOf)
  <2>1. buffer \o t \in Seq(ByteOf)
    BY <1>0, <1>2
  <2> QED BY <2>1 DEF t
<1>5. ReadOrder(packets, readbuf, bytes, m)
  <2>1. ReadOrder(packets, readbuf, buffer, Seen)
    BY DEF OrderInv
  <2>2. ReadOrder(packets, readbuf, buffer \o t, m)
    <3> HIDE DEF m
    <3> QED BY <1>0, <1>1, <1>2, <2>1, OrderSteps
  <2> QED BY <2>2 DEF t
<1>6. CASE Returns(bytes) /\ Len(bytes) = want /\ ResetIfEmpty(mqtt_recv_offset + k)
  <2>1. /\ Seen' = m /\ mqtt_recv_len' \in {0, mqtt_recv_len} /\ mqtt_recvbuf' = mqtt_recvbuf
    BY <1>3, <1>6, ResetSeen
  <2>2. at' = "enter"
    BY <1>6 DEF Returns
  <2> HIDE DEF m
  <2>3. ReadOrder(packets', readbuf', buffer', m)
    BY <1>1, <1>4, <1>5, <1>6, ReturnsOrder
  <2> QED BY <2>1, <2>2, <2>3 DEF OrderInv
<1>7. CASE /\ buffer' = bytes /\ at' = "fill"
           /\ mqtt_recv_offset' = mqtt_recv_offset + k
           /\ UNCHANGED <<mqtt_recvbuf, mqtt_recv_len, pktVars, packets>>
  <2>1. Seen' = m
    BY <1>7 DEF Seen
  <2> HIDE DEF m
  <2>2. ReadOrder(packets', readbuf', buffer', m)
    BY <1>5, <1>7 DEF pktVars
  <2> QED BY <1>7, <2>1, <2>2 DEF OrderInv
<1> QED BY <1>6, <1>7

\* The copying loop.
LEMMA CopiesOrder ==
  ASSUME TypeInv, OrderInv, part # "done", mqtt_recv_len # 0, arrived' = arrived,
         NEW limit \in Nat, Copies(limit)
  PROVE  OrderInv'
<1> DEFINE n == IF mqtt_recv_offset > mqtt_recv_len THEN 0 ELSE Remaining + 1
           k == IF n < limit THEN n ELSE limit
           bytes == buffer \o Received(mqtt_recv_offset, k)
<1>0. mqtt_recv_offset \in 0..(mqtt_recv_len + 1) /\ mqtt_recv_len \in Nat
  BY Sizes DEF TypeInv, TypeOK
<1>1. n \in Nat /\ mqtt_recv_offset + n <= mqtt_recv_len + 1
  BY <1>0 DEF Remaining
<1> HIDE DEF n
<1>2. k \in Nat /\ mqtt_recv_offset + k <= mqtt_recv_len + 1
  BY <1>0, <1>1
<1>3. IF Len(bytes) = want
        THEN Returns(bytes) /\ ResetIfEmpty(mqtt_recv_offset + k)
        ELSE /\ buffer' = bytes /\ at' = "fill"
             /\ mqtt_recv_offset' = mqtt_recv_offset + k
             /\ UNCHANGED <<mqtt_recvbuf, mqtt_recv_len, want, pktVars, last, packets>>
  BY DEF Copies, n
<1> HIDE DEF k
<1> QED BY <1>2, <1>3, CopiedOrder

\* Every step keeps the order.
LEMMA OrderNext == TypeInv /\ OrderInv /\ [Next]_vars => OrderInv'
<1> SUFFICES ASSUME TypeInv, OrderInv, [Next]_vars PROVE OrderInv'
  OBVIOUS
<1>0. /\ packets \in Seq(Seq(ByteOf)) /\ readbuf \in Seq(ByteOf) /\ buffer \in Seq(ByteOf)
      /\ arrived \in Nat /\ mqtt_recv_len \in Nat /\ mqtt_recv_offset \in 0..(mqtt_recv_len + 1)
      /\ want \in Nat /\ Len(Stream) \in Nat
  BY ByteType, Sizes, Ends DEF TypeInv, TypeOK
<1>1. ReadOrder(packets, readbuf, buffer, Seen) /\ (mqtt_recv_len # 0 => mqtt_recv_len <= arrived)
  BY DEF OrderInv
<1>2. Seen <= arrived /\ Seen \in Nat
  BY <1>0, <1>1 DEF Seen
<1>3. CASE ReadBuffered
  <2> DEFINE bytes == Received(mqtt_recv_offset, want)
  <2>1. /\ part # "done" /\ mqtt_recv_len # 0 /\ Returns(bytes) /\ at = "enter"
        /\ ResetIfEmpty(mqtt_recv_offset + want) /\ arrived' = arrived /\ want <= Remaining
        /\ mqtt_recv_offset <= mqtt_recv_len
    BY <1>3 DEF ReadBuffered
  <2>2. mqtt_recv_offset + want <= mqtt_recv_len + 1
    BY <1>0, <2>1 DEF Remaining
  <2>3. buffer = << >>
    BY <2>1 DEF TypeInv, ReadOK
  <2>4. bytes \in Seq(ByteOf) /\ Len(bytes) = want
    BY <1>0, ReceivedType DEF TypeInv
  <2>5. bytes = buffer \o bytes
    <3> HIDE DEF bytes
    <3> QED BY <2>3, <2>4
  <2> QED BY <1>0, <2>1, <2>2, <2>4, <2>5, CopiedOrder
<1>4. CASE ReadRemain
  <2>1. part # "done" /\ mqtt_recv_len # 0 /\ Copies(want) /\ arrived' = arrived
    BY <1>4 DEF ReadRemain
  <2> QED BY <1>0, <2>1, CopiesOrder
<1>5. CASE ReadMore
  <2>1. /\ part # "done" /\ mqtt_recv_len # 0 /\ Copies(want - Len(buffer)) /\ arrived' = arrived
    BY <1>5 DEF ReadMore, OrderInv, TypeInv, ReadOK
  <2>2. want - Len(buffer) \in Nat
    BY <1>0 DEF TypeInv, TypeOK
  <2> QED BY <2>1, <2>2, CopiesOrder
<1>6. CASE BufferedRead
  <2>1. PICK n \in 1..BufferLength : arrived + n <= Len(Stream) /\ Fills(n)
    BY <1>6 DEF BufferedRead
  <2>2. UNCHANGED <<buffer, pktVars, packets>>
    BY <1>6 DEF BufferedRead
  <2>3. n \in Nat /\ n # 0
    BY Sizes
  <2>4. /\ mqtt_recvbuf' = SubSeq(Stream, arrived + 1, arrived + n)
        /\ mqtt_recv_len' = n /\ mqtt_recv_offset' = 0 /\ arrived' = arrived + n
    BY <2>1 DEF Fills
  <2>5. Len(mqtt_recvbuf') = n /\ \A j \in 1..n : mqtt_recvbuf'[j] = Stream[arrived + j]
    BY <1>0, <2>1, <2>3, <2>4, PieceType
  <2>6. arrived' - mqtt_recv_len' = arrived /\ Seen' = arrived /\ mqtt_recv_len' <= arrived'
    BY <1>0, <2>3, <2>4 DEF Seen
  <2>7. ReadOrder(packets', readbuf', buffer', Seen')
    <3>1. ReadOrder(packets, readbuf, buffer, arrived)
      BY <1>0, <1>1, <1>2, OrderSteps
    <3> QED BY <2>2, <2>6, <3>1 DEF pktVars
  <2> QED BY <2>3, <2>4, <2>5, <2>6, <2>7 DEF OrderInv
<1>7. CASE BufferedReadFails
  <2>1. /\ mqtt_recv_len' = 0 /\ mqtt_recv_offset' = 0 /\ arrived' = arrived
        /\ at' = "enter" /\ buffer' = << >> /\ packets' = packets
        /\ readbuf' = readbuf \/ readbuf' = << >>
    BY <1>7 DEF BufferedReadFails, ReturnsNothing, PacketDropped
  <2>2. Seen' = arrived
    BY <1>0, <2>1 DEF Seen
  <2>3. ReadOrder(packets, readbuf, << >>, arrived) /\ ReadOrder(packets, << >>, << >>, arrived)
    <3>1. ReadOrder(packets, readbuf, buffer, arrived)
      BY <1>0, <1>1, <1>2, OrderSteps
    <3> QED BY <1>0, <3>1, OrderSteps
  <2> QED BY <2>1, <2>2, <2>3 DEF OrderInv
<1>8. CASE ReadPacketEnds
  <2>1. /\ part = "done" /\ packets' = Append(packets, readbuf) /\ readbuf' = << >>
        /\ UNCHANGED <<arrived, bufVars, at, buffer>>
    BY <1>8 DEF ReadPacketEnds, PacketDone
  <2>2. buffer = << >> /\ at = "enter"
    BY <2>1 DEF TypeInv, ReadOK
  <2>3. Seen' = Seen
    BY <2>1 DEF Seen, bufVars
  <2>4. ReadOrder(Append(packets, readbuf), << >>, << >>, Seen)
    BY <1>0, <1>1, <1>2, <2>2, OrderReturned
  <2> QED BY <2>1, <2>2, <2>3, <2>4 DEF OrderInv, bufVars
<1>9. CASE UNCHANGED vars
  <2>1. UNCHANGED <<arrived, bufVars, at, buffer, pktVars, packets>>
    BY <1>9 DEF vars, readVars
  <2> QED BY <2>1 DEF OrderInv, Seen, bufVars, pktVars
<1> QED BY <1>3, <1>4, <1>5, <1>6, <1>7, <1>8, <1>9 DEF Next

\* Nothing has been read at the start.
LEMMA OrderInit == Init => OrderInv
<1> SUFFICES ASSUME Init PROVE OrderInv
  OBVIOUS
<1>1. /\ packets = << >> /\ readbuf = << >> /\ buffer = << >> /\ mqtt_recv_len = 0
      /\ at = "enter" /\ Seen = 0 /\ Len(packets) = 0
  BY DEF Init, Seen
<1>2. << >> \in Seq(ByteOf)
  OBVIOUS
<1>3. ReadOrder(packets, readbuf, buffer, Seen)
  <2>1. Increasing(<< >>) /\ Upto(<< >>, Seen) /\ Precedes(<< >>, << >>)
    BY <1>2, EmptyOrder
  <2>2. \A p \in 1..Len(packets) : FALSE
    BY <1>1
  <2> QED BY <1>1, <2>1, <2>2 DEF ReadOrder
<1> QED BY <1>1, <1>3 DEF OrderInv

\* What the order says of the packets returned.
LEMMA OrderedBytes ==
  ASSUME packets \in Seq(Seq(ByteOf)), NEW r, NEW b, NEW n, ReadOrder(packets, r, b, n)
  PROVE  BytesInOrder
<1> SUFFICES ASSUME NEW p \in DOMAIN packets, NEW q \in DOMAIN packets,
                    NEW i \in DOMAIN packets[p], NEW j \in DOMAIN packets[q],
                    p < q \/ (p = q /\ i < j), ZeroByte \notin {packets[p][i], packets[q][j]}
             PROVE  Position(packets[p][i]) < Position(packets[q][j])
  BY DEF BytesInOrder
<1>1. DOMAIN packets = 1..Len(packets) /\ p \in 1..Len(packets) /\ q \in 1..Len(packets)
  OBVIOUS
<1>2. i \in 1..Len(packets[p]) /\ j \in 1..Len(packets[q])
  <2>1. packets[p] \in Seq(ByteOf) /\ packets[q] \in Seq(ByteOf)
    BY <1>1
  <2> QED BY <2>1
<1>3. CASE p < q
  <2>1. Precedes(packets[p], packets[q])
    BY <1>1, <1>3 DEF ReadOrder
  <2> QED BY <1>2, <2>1 DEF Precedes
<1>4. CASE p = q /\ i < j
  <2>1. Increasing(packets[p])
    BY <1>1 DEF ReadOrder
  <2> QED BY <1>2, <1>4, <2>1 DEF Increasing
<1> QED BY <1>3, <1>4

\* BytesInOrder: however the stream is cut, and whatever times out in the middle
\* of a packet or of a read, no byte of the stream is in two places of what
\* readPacket returns, and none behind one that follows it in the stream.
THEOREM BytesAreInOrder == Spec => []BytesInOrder
<1>1. Spec => []OrderInv
  BY OrderInit, OrderNext, TypeInvariant, PTL DEF Spec
<1>2. TypeInv /\ OrderInv => BytesInOrder
  BY ByteType, OrderedBytes DEF TypeInv, TypeOK, OrderInv
<1> QED BY <1>1, <1>2, TypeInvariant, PTL
-----------------------------------------------------------------------------
(* The library's readers take bytes from the stream themselves, so where   *)
(* they are in it is the packets they have returned and the bytes of the   *)
(* one begun.  What decodenb and MQTTPacket_decode keep of the remaining   *)
(* length is the length modulo the power of the radix that belongs to the  *)
(* bytes read of it; what MQTTTransport keeps of the rest is how much of   *)
(* the packet is missing.                                                  *)

Polling == reader # "readPacket" /\ ~failed

\* Where the reader is in the stream, and what it has of the packet begun.
PollPlace ==
  /\ packets \in Seq(Seq(ByteOf)) /\ Len(packets) <= Count
  /\ \A p \in 1..Len(packets) : packets[p] = PacketBytes(p)
  /\ readbuf \in Seq(ByteOf)
  /\ arrived = End(Len(packets)) + Len(readbuf)
  /\ Len(readbuf) > 0 => Len(packets) < Count
  /\ \A j \in 1..Len(readbuf) : readbuf[j] = PacketBytes(Begun)[j]

\* What MQTTTransport, or the locals of MQTTPacket_read, say of it.
PollState ==
  /\ trp \in Transport
  /\ trp.state = 0 => Len(readbuf) = 0
  /\ trp.state = 1 =>
       /\ Len(readbuf) > 0 /\ Len(readbuf) <= DigitsOf(Lengths[Begun])
       /\ trp.rem_len = Lengths[Begun] % Power(Len(readbuf) - 1)
  /\ trp.state = 2 =>
       /\ Len(readbuf) >= 1 + DigitsOf(Lengths[Begun])
       /\ Len(readbuf) + trp.rem_len = PacketLength(Begun)

PollInv == Polling => PollPlace /\ PollState

\* The packet that is begun.
LEMMA PollBegun ==
  ASSUME PollPlace, Len(packets) < Count
  PROVE  /\ Begun \in 1..Count /\ Begun - 1 = Len(packets) /\ Len(packets) \in Nat
         /\ Lengths[Begun] \in Nat /\ DigitsOf(Lengths[Begun]) \in 1..4
         /\ PacketBytes(Begun) \in Seq(Byte) /\ Len(PacketBytes(Begun)) = PacketLength(Begun)
         /\ PacketLength(Begun) \in Nat
         /\ PacketLength(Begun) = 1 + DigitsOf(Lengths[Begun]) + Lengths[Begun]
         /\ End(Begun) = End(Len(packets)) + PacketLength(Begun)
         /\ End(Len(packets)) \in Nat /\ End(Begun) \in Nat
         /\ End(Begun) <= Len(Stream) /\ Len(Stream) \in Nat
         /\ Len(readbuf) \in Nat /\ arrived \in Nat
<1>1. Len(packets) \in Nat /\ Len(readbuf) \in Nat
  BY DEF PollPlace
<1>2. Begun \in 1..Count /\ Begun - 1 = Len(packets) /\ Len(packets) \in 0..Count
  BY <1>1, Sizes DEF Begun
<1>3. Lengths[Begun] \in Nat /\ DigitsOf(Lengths[Begun]) \in 1..4 /\ Begun \in 0..Count
  BY <1>2, Sizes, DigitsOfType
<1>4. /\ PacketBytes(Begun) \in Seq(Byte) /\ PacketLength(Begun) \in Nat
      /\ Len(PacketBytes(Begun)) = PacketLength(Begun)
      /\ End(Begun) = End(Len(packets)) + PacketLength(Begun)
      /\ End(Len(packets)) \in Nat /\ End(Begun) \in Nat
      /\ End(Begun) <= Len(Stream) /\ Len(Stream) \in Nat
  BY <1>2, <1>3, PacketType, Ends, StreamParts
<1>5. arrived \in Nat
  BY <1>1, <1>4 DEF PollPlace
<1>6. PacketLength(Begun) = 1 + DigitsOf(Lengths[Begun]) + Lengths[Begun]
  BY DEF PacketLength
<1> QED BY <1>1, <1>2, <1>3, <1>4, <1>5, <1>6

\* The next bytes of the stream are the next of the packet.
LEMMA PolledBytes ==
  ASSUME PollPlace, Len(packets) < Count, NEW n \in Nat,
         Len(readbuf) + n <= PacketLength(Begun)
  PROVE  /\ Polled(n) \in Seq(ByteOf) /\ Len(Polled(n)) = n
         /\ \A j \in 1..n : Polled(n)[j] = PacketBytes(Begun)[Len(readbuf) + j]
         /\ readbuf \o Polled(n) \in Seq(ByteOf)
         /\ Len(readbuf \o Polled(n)) = Len(readbuf) + n
         /\ \A j \in 1..(Len(readbuf) + n) : (readbuf \o Polled(n))[j] = PacketBytes(Begun)[j]
<1> DEFINE s == Polled(n)
<1>1. /\ Begun \in 1..Count /\ Begun - 1 = Len(packets) /\ Len(readbuf) \in Nat
      /\ arrived \in Nat /\ End(Len(packets)) \in Nat /\ Len(Stream) \in Nat
      /\ End(Begun) \in Nat /\ End(Begun) <= Len(Stream) /\ PacketLength(Begun) \in Nat
      /\ End(Begun) = End(Len(packets)) + PacketLength(Begun)
      /\ readbuf \in Seq(ByteOf) /\ arrived = End(Len(packets)) + Len(readbuf)
  BY PollBegun DEF PollPlace
<1>2. /\ s \in Seq(ByteOf) /\ Len(s) = n /\ \A j \in 1..n : s[j] = Stream[arrived + j]
  <2>1. arrived + n <= Len(Stream)
    BY <1>1
  <2> QED BY <1>1, <2>1, PieceType DEF Polled
<1> HIDE DEF s
<1>3. ASSUME NEW j \in 1..n PROVE s[j] = PacketBytes(Begun)[Len(readbuf) + j]
  <2>1. Len(readbuf) + j \in 1..PacketLength(Begun)
    BY <1>1
  <2>2. Stream[End(Begun - 1) + (Len(readbuf) + j)] = PacketBytes(Begun)[Len(readbuf) + j]
    BY <1>1, <2>1, StreamParts
  <2>3. End(Begun - 1) + (Len(readbuf) + j) = arrived + j
    BY <1>1
  <2> QED BY <1>2, <2>2, <2>3
<1> DEFINE u == readbuf \o s
<1>4. u \in Seq(ByteOf) /\ Len(u) = Len(readbuf) + n
  BY <1>1, <1>2, Joined
<1>5. ASSUME NEW j \in 1..(Len(readbuf) + n) PROVE u[j] = PacketBytes(Begun)[j]
  <2>1. j \in 1..Len(readbuf \o s)
    BY <1>4
  <2>2. CASE j \in 1..Len(readbuf) /\ (readbuf \o s)[j] = readbuf[j]
    BY <2>2 DEF PollPlace
  <2>3. CASE j - Len(readbuf) \in 1..Len(s) /\ (readbuf \o s)[j] = s[j - Len(readbuf)]
    <3>1. Len(readbuf) + (j - Len(readbuf)) = j /\ j - Len(readbuf) \in 1..n
      BY <1>1, <1>2, <2>3
    <3> QED BY <1>3, <2>3, <3>1
  <2> QED BY <1>1, <1>2, <2>1, <2>2, <2>3, JoinedFrom
<1> QED BY <1>2, <1>3, <1>4, <1>5 DEF s

\* Some bytes are read, and the packet is not complete.
LEMMA MorePlace ==
  ASSUME PollPlace, Len(packets) < Count, NEW n \in Nat \ {0},
         Len(readbuf) + n <= PacketLength(Begun),
         readbuf' = readbuf \o Polled(n), packets' = packets, arrived' = arrived + n
  PROVE  PollPlace' /\ Len(readbuf') = Len(readbuf) + n /\ Begun' = Begun
<1>1. /\ readbuf' \in Seq(ByteOf) /\ Len(readbuf') = Len(readbuf) + n
      /\ \A j \in 1..Len(readbuf') : readbuf'[j] = PacketBytes(Begun)[j]
  BY PolledBytes
<1>2. Begun' = Begun
  BY DEF Begun
<1>3. arrived' = End(Len(packets')) + Len(readbuf')
  BY <1>1, PollBegun DEF PollPlace
<1> QED BY <1>1, <1>2, <1>3 DEF PollPlace

\* The rest is read, and the packet is returned.
LEMMA LastPlace ==
  ASSUME PollPlace, Len(packets) < Count, NEW n \in Nat,
         Len(readbuf) + n = PacketLength(Begun), arrived' = arrived + n,
         ReturnsPacket(readbuf \o Polled(n))
  PROVE  PollPlace' /\ Len(readbuf') = 0
<1> DEFINE bytes == readbuf \o Polled(n)
<1>1. /\ bytes \in Seq(ByteOf) /\ Len(bytes) = PacketLength(Begun)
      /\ \A j \in 1..Len(bytes) : bytes[j] = PacketBytes(Begun)[j]
  <2>1. Len(readbuf) + n <= PacketLength(Begun)
    BY PollBegun
  <2>2. /\ bytes \in Seq(ByteOf) /\ Len(bytes) = Len(readbuf) + n
        /\ \A j \in 1..(Len(readbuf) + n) : bytes[j] = PacketBytes(Begun)[j]
    BY <2>1, PolledBytes
  <2> HIDE DEF bytes
  <2> QED BY <2>2
<1>2. packets' = Append(packets, bytes) /\ readbuf' = << >> /\ Len(readbuf') = 0
  BY DEF ReturnsPacket
<1> HIDE DEF bytes
<1>3. bytes = PacketBytes(Begun)
  <2>1. PacketBytes(Begun) \in Seq(Byte) /\ Len(PacketBytes(Begun)) = PacketLength(Begun)
    BY PollBegun
  <2>2. bytes \in Seq(Byte)
    BY <1>1, ByteType
  <2> QED BY <1>1, <2>1, <2>2, SeqEqual
<1>4. /\ packets' \in Seq(Seq(ByteOf)) /\ Len(packets') = Begun
      /\ packets'[Begun] = bytes /\ \A p \in 1..Len(packets) : packets'[p] = packets[p]
  BY <1>1, <1>2 DEF PollPlace, Begun
<1>5. \A p \in 1..Len(packets') : packets'[p] = PacketBytes(p)
  <2>1. \A p \in 1..Len(packets') : p \in 1..Len(packets) \/ p = Begun
    BY <1>4, PollBegun
  <2> QED BY <1>3, <1>4, <2>1 DEF PollPlace
<1>6. Len(packets') <= Count
  BY <1>4, PollBegun, Sizes
<1>7. arrived' = End(Len(packets')) + Len(readbuf')
  <2>1. End(Len(packets')) = End(Begun)
    BY <1>4
  <2>2. arrived' = End(Len(packets)) + PacketLength(Begun)
    BY PollBegun DEF PollPlace
  <2>3. arrived' = End(Begun) /\ End(Begun) \in Nat
    BY <2>2, PollBegun
  <2> QED BY <1>2, <2>1, <2>3
<1>8. readbuf' \in Seq(ByteOf) /\ \A j \in 1..Len(readbuf') : FALSE
  BY <1>2
<1> QED BY <1>2, <1>4, <1>5, <1>6, <1>7, <1>8 DEF PollPlace
-----------------------------------------------------------------------------
(* The steps.                                                              *)

\* What is assigned to the parts of MQTTTransport.
LEMMA TransportChange ==
  ASSUME trp \in Transport
  PROVE  /\ \A x \in 0..2 : /\ [trp EXCEPT !.state = x] \in Transport
                            /\ [trp EXCEPT !.state = x].state = x
         /\ \A x, y \in Nat : /\ [trp EXCEPT !.len = x, !.rem_len = y] \in Transport
                              /\ [trp EXCEPT !.len = x, !.rem_len = y].state = trp.state
                              /\ [trp EXCEPT !.len = x, !.rem_len = y].rem_len = y
BY DEF Transport

\* The header of the next packet.
LEMMA HeaderStep == Polling /\ PollPlace /\ PollState /\ PollHeader => PollPlace' /\ PollState'
<1> SUFFICES ASSUME Polling, PollPlace, PollState, PollHeader PROVE PollPlace' /\ PollState'
  OBVIOUS
<1>1. /\ trp.state = 0 /\ arrived + 1 <= Len(Stream) /\ arrived' = arrived + 1
      /\ readbuf' = Polled(1) /\ packets' = packets
      /\ trp' = [state |-> 1, len |-> 0, rem_len |-> 0]
  BY DEF PollHeader, Gets
<1>2. Len(readbuf) = 0 /\ readbuf = << >>
  BY <1>1 DEF PollState, PollPlace
<1>3. Len(packets) < Count
  <2> SUFFICES ASSUME Len(packets) = Count PROVE FALSE
    BY Sizes DEF PollPlace
  <2>1. arrived = Len(Stream) /\ Len(Stream) \in Nat
    BY <1>2, Ends DEF PollPlace
  <2> QED BY <1>1, <2>1
<1>4. Len(readbuf) + 1 <= PacketLength(Begun)
  BY <1>2, <1>3, PollBegun
<1>5. readbuf' = readbuf \o Polled(1)
  BY <1>1, <1>2, <1>3, <1>4, PolledBytes
<1>6. PollPlace' /\ Len(readbuf') = 1 /\ Begun' = Begun
  <2>1. PollPlace' /\ Len(readbuf') = Len(readbuf) + 1 /\ Begun' = Begun
    <3>1. 1 \in Nat \ {0}
      OBVIOUS
    <3> QED BY <1>1, <1>3, <1>4, <1>5, <3>1, MorePlace
  <2> QED BY <1>2, <2>1
<1>7. Lengths[Begun] % Power(0) = 0 /\ DigitsOf(Lengths[Begun]) >= 1
  BY <1>3, PollBegun, LengthDigits
<1>8. PollState'
  <2>1. /\ trp' \in Transport /\ trp'.state = 1 /\ trp'.rem_len = 0
        /\ Len(readbuf') - 1 = 0 /\ Len(readbuf') > 0
    BY <1>1, <1>6 DEF Transport
  <2>2. Len(readbuf') <= DigitsOf(Lengths[Begun])
    BY <1>6, <1>7, DigitsOfType
  <2> QED BY <1>6, <1>7, <2>1, <2>2 DEF PollState
<1> QED BY <1>6, <1>8

\* A byte of the remaining length.
LEMMA LengthStep == Polling /\ PollPlace /\ PollState /\ PollLength => PollPlace' /\ PollState'
<1> SUFFICES ASSUME Polling, PollPlace, PollState, PollLength PROVE PollPlace' /\ PollState'
  OBVIOUS
<1> DEFINE b == Polled(1)[1]
           d == Len(readbuf) - 1
           n == Lengths[Begun]
           k == DigitsOf(n)
           rem == trp.rem_len + (b.digit * Multiplier(d))
<1>1. /\ trp.state = 1 /\ arrived' = arrived + 1 /\ readbuf' = Append(readbuf, b)
      /\ packets' = packets
      /\ trp' = IF b.more THEN [trp EXCEPT !.len = @ + 1, !.rem_len = rem]
                          ELSE [state |-> 2, len |-> 1 + DigitsOf(rem), rem_len |-> rem]
  BY DEF PollLength, Gets
<1>2. Len(readbuf) > 0 /\ Len(readbuf) <= k /\ trp.rem_len = n % Power(d) /\ trp \in Transport
  BY <1>1 DEF PollState
<1>3. Len(packets) < Count
  BY <1>2 DEF PollPlace
<1>4. /\ Begun \in 1..Count /\ n \in Nat /\ k \in 1..4 /\ Len(readbuf) \in Nat
      /\ PacketLength(Begun) = 1 + k + n
  BY <1>3, PollBegun
<1>5. d \in 0..(k - 1) /\ Len(readbuf) = d + 1 /\ Len(readbuf) + 1 <= PacketLength(Begun)
  BY <1>2, <1>4
<1>6. /\ Polled(1) \in Seq(ByteOf) /\ Len(Polled(1)) = 1
      /\ b = PacketBytes(Begun)[Len(readbuf) + 1]
  <2>1. /\ Polled(1) \in Seq(ByteOf) /\ Len(Polled(1)) = 1
        /\ \A j \in 1..1 : Polled(1)[j] = PacketBytes(Begun)[Len(readbuf) + j]
    BY <1>3, <1>5, PolledBytes
  <2>2. 1 \in 1..1
    OBVIOUS
  <2> QED BY <2>1, <2>2
<1>7. Append(readbuf, b) = readbuf \o Polled(1)
  BY <1>6, AppendJoined DEF PollPlace
<1>8. PollPlace' /\ Len(readbuf') = Len(readbuf) + 1 /\ Begun' = Begun
  BY <1>1, <1>3, <1>5, <1>7, MorePlace
<1> HIDE DEF b
<1>9. b = PacketBytes(Begun)[d + 2]
  BY <1>5, <1>6
<1>10. n % Power(d + 1) = rem /\ (b.more <=> d + 1 < k)
  BY <1>2, <1>4, <1>5, <1>9, LengthDigits
<1>11. n % Power(d + 1) \in Nat /\ n % Power(k) = n
  <2>1. d + 1 \in 0..4 /\ Power(d + 1) \in Nat /\ Power(d + 1) > 0
    <3>1. d + 1 \in 0..4
      <4> HIDE DEF n, k, d
      <4> QED BY <1>4, <1>5
    <3> QED BY <3>1, Powers
  <2> QED BY <1>4, <2>1, LengthDigits
<1> HIDE DEF n, k, d, rem
<1>12. CASE b.more
  <2>1. /\ trp'.state = 1 /\ trp' \in Transport /\ trp'.rem_len = rem
    <3>1. rem \in Nat /\ trp' = [trp EXCEPT !.len = @ + 1, !.rem_len = rem]
      BY <1>1, <1>10, <1>11, <1>12
    <3>2. trp.len + 1 \in Nat /\ trp.state = 1
      BY <1>1, <1>2 DEF Transport
    <3> QED BY <1>2, <3>1, <3>2, TransportChange
  <2>2. Len(readbuf') = d + 2 /\ Len(readbuf') - 1 = d + 1 /\ Len(readbuf') <= k
    BY <1>4, <1>5, <1>8, <1>10, <1>12
  <2>3. PollState'
    BY <1>5, <1>8, <1>10, <2>1, <2>2 DEF PollState, n, k
  <2> QED BY <1>8, <2>3
<1>13. CASE ~b.more
  <2>1. d + 1 = k /\ rem = n
    BY <1>4, <1>5, <1>10, <1>11, <1>13
  <2>2. /\ trp'.state = 2 /\ trp' \in Transport /\ trp'.rem_len = n
    BY <1>1, <1>4, <1>13, <2>1, DigitsOfType DEF Transport
  <2>3. Len(readbuf') = 1 + k /\ Len(readbuf') + n = PacketLength(Begun)
    BY <1>4, <1>5, <1>8, <2>1
  <2>4. PollState'
    BY <1>4, <1>8, <2>2, <2>3 DEF PollState, n, k
  <2> QED BY <1>8, <2>4
<1> QED BY <1>12, <1>13

\* A part of the rest, or all of it.
LEMMA RestStep ==
  ASSUME Polling, PollPlace, PollState, trp.state = 2,
         NEW n \in Nat, n <= trp.rem_len, arrived' = arrived + n,
         \/ n = trp.rem_len /\ ReturnsPacket(readbuf \o Polled(n))
         \/ /\ n > 0 /\ n < trp.rem_len /\ readbuf' = readbuf \o Polled(n)
            /\ trp' = [trp EXCEPT !.rem_len = @ - n, !.len = @ + n]
            /\ packets' = packets
  PROVE  PollPlace' /\ PollState'
<1>1. /\ Len(readbuf) >= 1 + DigitsOf(Lengths[Begun])
      /\ Len(readbuf) + trp.rem_len = PacketLength(Begun)
      /\ trp \in Transport /\ trp.rem_len \in Nat /\ trp.len \in Nat /\ Len(readbuf) \in Nat
  BY DEF PollState, PollPlace, Transport
<1>2. Len(packets) < Count
  BY <1>1, DigitsOfType DEF PollPlace
<1>3. CASE n = trp.rem_len /\ ReturnsPacket(readbuf \o Polled(n))
  <2>1. PollPlace' /\ Len(readbuf') = 0
    BY <1>1, <1>2, <1>3, LastPlace
  <2>2. trp' \in Transport /\ trp'.state = 0
    <3>1. trp' = [trp EXCEPT !.state = 0]
      BY <1>3 DEF ReturnsPacket
    <3>2. 0 \in 0..2
      OBVIOUS
    <3>3. [trp EXCEPT !.state = 0] \in Transport /\ [trp EXCEPT !.state = 0].state = 0
      BY <1>1, <3>2, TransportChange
    <3> QED BY <3>1, <3>3
  <2> QED BY <2>1, <2>2 DEF PollState
<1>4. CASE /\ n > 0 /\ n < trp.rem_len /\ readbuf' = readbuf \o Polled(n)
           /\ trp' = [trp EXCEPT !.rem_len = @ - n, !.len = @ + n]
           /\ packets' = packets
  <2>1. Len(readbuf) + n <= PacketLength(Begun) /\ n \in Nat \ {0}
    BY <1>1, <1>4
  <2>2. PollPlace' /\ Len(readbuf') = Len(readbuf) + n /\ Begun' = Begun
    BY <1>2, <1>4, <2>1, MorePlace
  <2>3. trp' \in Transport /\ trp'.state = 2 /\ trp'.rem_len = trp.rem_len - n
    <3>1. trp' = [trp EXCEPT !.len = trp.len + n, !.rem_len = trp.rem_len - n]
      BY <1>1, <1>4 DEF Transport
    <3>2. trp.len + n \in Nat /\ trp.rem_len - n \in Nat
      BY <1>1
    <3> QED BY <1>1, <3>1, <3>2, TransportChange
  <2>4. /\ Len(readbuf') >= 1 + DigitsOf(Lengths[Begun])
        /\ Len(readbuf') + trp'.rem_len = PacketLength(Begun)
    <3>1. DigitsOf(Lengths[Begun]) \in Nat
      BY DigitsOfType
    <3> QED BY <1>1, <2>2, <2>3, <3>1
  <2> QED BY <2>2, <2>3, <2>4 DEF PollState
<1> QED BY <1>3, <1>4

\* Every step keeps the place and the state, or is a failure.
LEMMA PollNext == PollInv /\ [ReadNext]_allVars => PollInv'
<1> SUFFICES ASSUME PollInv, [ReadNext]_allVars, Polling' PROVE PollPlace' /\ PollState'
  BY DEF PollInv
<1>1. CASE reader = "readPacket" /\ Next /\ UNCHANGED pollVars
  BY <1>1 DEF Polling, pollVars
<1>2. CASE UNCHANGED allVars
  <2>1. UNCHANGED <<reader, failed, trp, packets, readbuf, arrived>>
    BY <1>2 DEF allVars, vars, pollVars, pktVars
  <2> QED BY <2>1 DEF PollInv, Polling, PollPlace, PollState, Begun
<1>3. CASE MQTTPacket_readnb \/ MQTTPacket_read
  <2>1. \/ PollHeader \/ PollLength \/ PollLengthEmpty \/ PollLengthTooLong \/ PollRest
        \/ PollFails \/ ReadLengthFails \/ ReadRest \/ ReadRestShort
    BY <1>3 DEF MQTTPacket_readnb, MQTTPacket_read
  <2>2. ~PollFails /\ ~PollLengthTooLong /\ ~ReadLengthFails /\ ~ReadRestShort
    BY DEF Polling, PollFails, PollLengthTooLong, ReadLengthFails, ReadRestShort, ReturnsError
  <2>3. Polling
    BY <2>1, <2>2 DEF Polling, PollHeader, PollLength, PollLengthEmpty, PollRest, ReadRest,
                      ReturnsPacket
  <2>4. PollPlace /\ PollState
    BY <2>3 DEF PollInv
  <2>5. CASE PollHeader
    BY <2>3, <2>4, <2>5, HeaderStep
  <2>6. CASE PollLength
    BY <2>3, <2>4, <2>6, LengthStep
  <2>7. CASE PollLengthEmpty
    <3>1. /\ trp' = [trp EXCEPT !.len = @ + 1] /\ UNCHANGED <<arrived, readbuf, packets>>
      BY <2>7 DEF PollLengthEmpty
    <3>2. trp' \in Transport /\ trp'.state = trp.state /\ trp'.rem_len = trp.rem_len
      BY <2>4, <3>1 DEF PollState, Transport
    <3> QED BY <2>4, <3>1, <3>2 DEF PollPlace, PollState, Begun
  <2>8. CASE PollRest
    <3>1. PICK n \in 1..trp.rem_len :
            /\ Gets(n)
            /\ IF n = trp.rem_len
                 THEN ReturnsPacket(readbuf \o Polled(n))
                 ELSE /\ readbuf' = readbuf \o Polled(n)
                      /\ trp' = [trp EXCEPT !.rem_len = @ - n, !.len = @ + n]
                      /\ UNCHANGED <<packets, failed>>
      BY <2>8 DEF PollRest
    <3>2. trp.rem_len \in Nat /\ trp.state = 2
      BY <2>4, <2>8 DEF PollState, Transport, PollRest
    <3>3. n \in Nat /\ n <= trp.rem_len /\ n > 0 /\ arrived' = arrived + n
      BY <3>1, <3>2 DEF Gets
    <3>4. \/ n = trp.rem_len /\ ReturnsPacket(readbuf \o Polled(n))
          \/ /\ n > 0 /\ n < trp.rem_len /\ readbuf' = readbuf \o Polled(n)
             /\ trp' = [trp EXCEPT !.rem_len = @ - n, !.len = @ + n]
             /\ packets' = packets
      BY <3>1, <3>2, <3>3
    <3> QED BY <2>3, <2>4, <3>2, <3>3, <3>4, RestStep
  <2>9. CASE ReadRest
    <3>1. trp.rem_len \in Nat /\ trp.state = 2
      BY <2>4, <2>9 DEF PollState, Transport, ReadRest
    <3>2. Len(readbuf) \in Nat /\ arrived \in Nat
      <4>1. Len(packets) \in 0..Count /\ Len(readbuf) \in Nat
        BY <2>4, Sizes DEF PollPlace
      <4>2. End(Len(packets)) \in Nat
        BY <4>1, Ends
      <4> QED BY <2>4, <4>1, <4>2 DEF PollPlace
    <3>3. arrived' = arrived + trp.rem_len
      BY <2>9, <3>1, <3>2 DEF ReadRest, Gets
    <3>4. ReturnsPacket(readbuf \o Polled(trp.rem_len))
      BY <2>9 DEF ReadRest
    <3>5. trp.rem_len <= trp.rem_len
      BY <3>1
    <3> QED BY <2>3, <2>4, <3>1, <3>3, <3>4, <3>5, RestStep
  <2> QED BY <2>1, <2>2, <2>5, <2>6, <2>7, <2>8, <2>9
<1> QED BY <1>1, <1>2, <1>3 DEF ReadNext

\* The first state: nothing has been read.
LEMMA PollStart == PollInit => PollInv
<1> SUFFICES ASSUME PollInit PROVE PollPlace /\ PollState
  BY DEF PollInv
<1>1. /\ packets = << >> /\ readbuf = << >> /\ arrived = 0
      /\ trp = [state |-> 0, len |-> 0, rem_len |-> 0]
  BY DEF PollInit, Init
<1>2. /\ Len(packets) = 0 /\ Len(readbuf) = 0 /\ End(0) = 0 /\ Count \in Nat
  BY <1>1, Ends, Sizes
<1>3. packets \in Seq(Seq(ByteOf)) /\ readbuf \in Seq(ByteOf)
  BY <1>1
<1>4. PollPlace
  BY <1>1, <1>2, <1>3 DEF PollPlace
<1>5. PollState
  BY <1>1, <1>2 DEF PollState, Transport
<1> QED BY <1>4, <1>5

\* PolledExactly: until a read fails, MQTTPacket_readnb and MQTTPacket_read
\* return the packets of the stream, in order and whole, however often a poll
\* comes back with nothing and in however many pieces the rest comes; what is
\* kept between two polls is the beginning of the next packet.
THEOREM PolledAreExact == ReadSpec => []PolledExactly
<1>1. PollInv => PolledExactly
  <2> SUFFICES ASSUME PollPlace, PollState PROVE PolledExactly
    BY DEF PollInv, PolledExactly, Polling
  <2>1. trp \in Transport /\ DOMAIN packets = 1..Len(packets)
    BY DEF PollState, PollPlace
  <2>2. ASSUME readbuf # << >>
        PROVE  readbuf = SubSeq(PacketBytes(Len(packets) + 1), 1, Len(readbuf))
    <3>1. Len(packets) < Count /\ readbuf \in Seq(ByteOf) /\ Len(readbuf) \in Nat
      BY <2>2 DEF PollPlace
    <3>2. Len(readbuf) <= PacketLength(Begun)
      <4>1. trp.state = 1 \/ trp.state = 2
        BY <2>2, <3>1 DEF PollState, Transport
      <4>2. trp.state = 1 => Len(readbuf) <= DigitsOf(Lengths[Begun])
        BY DEF PollState
      <4>3. trp.state = 2 => Len(readbuf) + trp.rem_len = PacketLength(Begun)
        BY DEF PollState
      <4>4. trp.rem_len \in Nat
        BY DEF PollState, Transport
      <4>5. /\ PacketLength(Begun) = 1 + DigitsOf(Lengths[Begun]) + Lengths[Begun]
            /\ DigitsOf(Lengths[Begun]) \in Nat /\ Lengths[Begun] \in Nat
            /\ PacketLength(Begun) \in Nat
        BY <3>1, PollBegun
      <4>6. CASE trp.state = 1
        BY <3>1, <4>2, <4>5, <4>6
      <4>7. CASE trp.state = 2
        BY <3>1, <4>3, <4>4, <4>5, <4>7
      <4> QED BY <4>1, <4>6, <4>7
    <3> DEFINE s == SubSeq(PacketBytes(Begun), 1, Len(readbuf))
    <3>3. /\ s \in Seq(Byte) /\ Len(s) = Len(readbuf)
          /\ \A j \in 1..Len(readbuf) : s[j] = PacketBytes(Begun)[j]
      <4>1. /\ PacketBytes(Begun) \in Seq(Byte)
            /\ Len(PacketBytes(Begun)) = PacketLength(Begun) /\ PacketLength(Begun) \in Nat
        BY <3>1, PollBegun
      <4> QED BY <3>1, <3>2, <4>1
    <3>4. readbuf \in Seq(Byte)
      BY <3>1, ByteType
    <3> HIDE DEF s
    <3>5. \A j \in 1..Len(readbuf) : readbuf[j] = s[j]
      BY <3>3 DEF PollPlace
    <3>6. readbuf = s
      BY <3>3, <3>4, <3>5, SeqEqual
    <3> QED BY <3>6 DEF s, Begun
  <2> QED BY <2>1, <2>2 DEF PolledExactly, PollPlace
<1> QED BY <1>1, PollStart, PollNext, PTL DEF ReadSpec
-----------------------------------------------------------------------------
(* All readers.  What holds of readPacket holds in this specification too, *)
(* and the library's readers keep the order even when they fail: what they *)
(* have read of a packet is then forgotten, not returned.                  *)

\* The variables of readPacket, and the bytes read.
ReadTypes ==
  /\ ~aligned /\ TypeOK
  /\ trp \in Transport
  /\ trp.state = 1 => /\ Len(readbuf) > 0 /\ Len(readbuf) <= trp.len + 1
                      /\ trp.len <= MAX_NO_OF_REMAINING_LENGTH_BYTES

ReadersInv ==
  /\ reader = "readPacket" => TypeInv /\ OrderInv /\ (aligned => ExactInv)
  /\ reader # "readPacket" => ReadTypes /\ ReadOrder(packets, readbuf, << >>, arrived)

\* What getfn returns is of the stream, in order, and behind what was read.
LEMMA PolledOrder ==
  ASSUME NEW n \in Nat, arrived \in Nat, arrived + n <= Len(Stream)
  PROVE  /\ Polled(n) \in Seq(ByteOf) /\ Len(Polled(n)) = n
         /\ Increasing(Polled(n)) /\ From(Polled(n), arrived) /\ Upto(Polled(n), arrived + n)
<1> DEFINE s == Polled(n)
<1>1. s \in Seq(ByteOf) /\ Len(s) = n /\ \A j \in 1..n : s[j] = Stream[arrived + j]
  BY PieceType DEF Polled
<1> HIDE DEF s
<1>2. ASSUME NEW j \in 1..n PROVE Position(s[j]) = arrived + j
  <2>1. arrived + j \in 1..Len(Stream)
    BY Ends
  <2> QED BY <1>1, <2>1, PositionIs
<1>3. Increasing(s)
  <2> SUFFICES ASSUME NEW i \in 1..n, NEW j \in 1..n, i < j
               PROVE  Position(s[i]) < Position(s[j])
    BY <1>1 DEF Increasing
  <2>1. Position(s[i]) = arrived + i /\ Position(s[j]) = arrived + j
    BY <1>2
  <2> QED BY <2>1
<1>4. From(s, arrived) /\ Upto(s, arrived + n)
  <2> SUFFICES ASSUME NEW j \in 1..n
               PROVE  arrived < Position(s[j]) /\ Position(s[j]) <= arrived + n
    BY <1>1 DEF From, Upto
  <2>1. Position(s[j]) = arrived + j
    BY <1>2
  <2> QED BY <2>1
<1> QED BY <1>1, <1>3, <1>4 DEF s

\* Bytes of getfn join the packet.
LEMMA PolledJoin ==
  ASSUME ReadTypes, ReadOrder(packets, readbuf, << >>, arrived), NEW n \in Nat,
         arrived + n <= Len(Stream)
  PROVE  /\ readbuf \o Polled(n) \in Seq(ByteOf)
         /\ Len(readbuf \o Polled(n)) = Len(readbuf) + n
         /\ ReadOrder(packets, readbuf \o Polled(n), << >>, arrived + n)
         /\ ReadOrder(packets, Polled(n), << >>, arrived + n)
<1> DEFINE s == Polled(n)
<1>0. /\ packets \in Seq(Seq(ByteOf)) /\ readbuf \in Seq(ByteOf)
      /\ arrived \in Nat /\ arrived + n \in Nat /\ arrived <= arrived + n
      /\ << >> \in Seq(ByteOf)
  <2>1. arrived \in Nat
    BY Ends DEF ReadTypes, TypeOK
  <2> QED BY <2>1, ByteType DEF ReadTypes, TypeOK
<1>1. /\ s \in Seq(ByteOf) /\ Len(s) = n
      /\ Increasing(s) /\ From(s, arrived) /\ Upto(s, arrived + n)
  BY <1>0, PolledOrder
<1> HIDE DEF s
<1>2. << >> \o s = s
  BY <1>1
<1>3. ReadOrder(packets, readbuf, << >> \o s, arrived + n)
  BY <1>0, <1>1, OrderSteps
<1>4. ReadOrder(packets, readbuf \o s, << >>, arrived + n)
  BY <1>0, <1>1, <1>2, <1>3, OrderSteps
<1>5. ReadOrder(packets, << >>, << >>, arrived)
  BY <1>0, OrderSteps
<1>6. ReadOrder(packets, << >>, << >> \o s, arrived + n)
  BY <1>0, <1>1, <1>5, OrderSteps
<1>7. ReadOrder(packets, << >> \o s, << >>, arrived + n)
  BY <1>0, <1>1, <1>2, <1>6, OrderSteps
<1>8. readbuf \o s \in Seq(ByteOf) /\ Len(readbuf \o s) = Len(readbuf) + n
  BY <1>0, <1>1, Joined
<1> QED BY <1>2, <1>4, <1>7, <1>8 DEF s

\* What a call of getfn that fails, or reads a byte, may leave behind.
LEMMA ReadersStep ==
  ASSUME ReadTypes, ReadOrder(packets, readbuf, << >>, arrived), UNCHANGED unread,
         arrived' \in arrived..Len(Stream), readbuf' \in Seq(ByteOf),
         trp' \in Transport, packets' \in Seq(Seq(ByteOf)),
         trp'.state = 1 => /\ Len(readbuf') > 0 /\ Len(readbuf') <= trp'.len + 1
                           /\ trp'.len <= MAX_NO_OF_REMAINING_LENGTH_BYTES,
         ReadOrder(packets', readbuf', << >>, arrived')
  PROVE  ReadTypes' /\ ReadOrder(packets', readbuf', << >>, arrived')
<1>1. arrived' \in 0..Len(Stream)
  BY Ends DEF ReadTypes, TypeOK
<1>2. readbuf' \in Bytes /\ packets' \in Seq(Bytes)
  BY ByteType
<1> QED BY <1>1, <1>2 DEF ReadTypes, TypeOK, unread, bufVars
\* A packet of which only the header is kept.
LEMMA HeaderOrder ==
  ASSUME NEW ps \in Seq(Seq(ByteOf)), NEW r \in Seq(ByteOf), Len(r) > 0, NEW n \in Nat,
         ReadOrder(ps, r, << >>, n)
  PROVE  SubSeq(r, 1, 1) \in Seq(ByteOf) /\ ReadOrder(ps, SubSeq(r, 1, 1), << >>, n)
<1> DEFINE s == SubSeq(r, 1, 1)
<1>1. s \in Seq(ByteOf) /\ Len(s) = 1 /\ s[1] = r[1] /\ 1 \in 1..Len(r)
  OBVIOUS
<1> HIDE DEF s
<1>2. \A i \in 1..Len(s) : i = 1
  BY <1>1
<1>3. Increasing(s)
  BY <1>2 DEF Increasing
<1>4. Upto(s, n)
  BY <1>1, <1>2 DEF Upto, ReadOrder
<1>5. \A p \in 1..Len(ps) : Precedes(ps[p], s)
  BY <1>1, <1>2 DEF Precedes, ReadOrder
<1>6. Precedes(s, << >>)
  BY <1>1, EmptyOrder
<1> QED BY <1>1, <1>3, <1>4, <1>5, <1>6 DEF ReadOrder, s

\* The library's readers.
LEMMA LibraryNext ==
  ASSUME ReadTypes, ReadOrder(packets, readbuf, << >>, arrived),
         MQTTPacket_read \/ MQTTPacket_readnb
  PROVE  ReadTypes' /\ ReadOrder(packets', readbuf', << >>, arrived') /\ reader' = reader
<1>0. /\ packets \in Seq(Seq(ByteOf)) /\ readbuf \in Seq(ByteOf) /\ Len(readbuf) \in Nat
      /\ arrived \in 0..Len(Stream) /\ Len(Stream) \in Nat /\ trp \in Transport
      /\ trp.len \in Nat /\ trp.rem_len \in Nat /\ << >> \in Seq(ByteOf)
      /\ arrived \in Nat /\ arrived \in arrived..Len(Stream)
  BY ByteType, Ends DEF ReadTypes, TypeOK, Transport
<1>1. \/ PollHeader \/ PollLength \/ PollLengthEmpty \/ PollLengthTooLong \/ PollRest
      \/ PollFails \/ ReadLengthFails \/ ReadRest \/ ReadRestShort
  BY DEF MQTTPacket_readnb, MQTTPacket_read
<1>2. UNCHANGED unread /\ reader' = reader
  BY <1>1 DEF PollHeader, PollLength, PollLengthEmpty, PollLengthTooLong, PollRest, PollFails,
              ReadLengthFails, ReadRest, ReadRestShort
<1>3. 0 \in 0..2 /\ 1 \in Nat /\ 0 # 1
  OBVIOUS
<1>4. [trp EXCEPT !.state = 0] \in Transport /\ [trp EXCEPT !.state = 0].state = 0
  BY <1>0, <1>3, TransportChange
\* A failed read forgets the packet that was begun.
<1>5. ASSUME ReturnsError, arrived' \in arrived..Len(Stream)
      PROVE  ReadTypes' /\ ReadOrder(packets', readbuf', << >>, arrived')
  <2>1. /\ readbuf' = << >> /\ trp' = [trp EXCEPT !.state = 0] /\ packets' = packets
    BY <1>5 DEF ReturnsError
  <2>2. ReadOrder(packets, << >>, << >>, arrived')
    <3>1. arrived' \in Nat /\ arrived <= arrived'
      BY <1>0, <1>5
    <3>2. ReadOrder(packets, readbuf, << >>, arrived')
      BY <1>0, <3>1, OrderSteps
    <3> QED BY <1>0, <3>1, <3>2, OrderSteps
  <2> QED BY <1>0, <1>2, <1>3, <1>4, <1>5, <2>1, <2>2, ReadersStep
\* A packet is returned.
<1>6. ASSUME NEW n \in Nat, arrived' = arrived + n, arrived + n <= Len(Stream),
             ReturnsPacket(readbuf \o Polled(n))
      PROVE  ReadTypes' /\ ReadOrder(packets', readbuf', << >>, arrived')
  <2> DEFINE bytes == readbuf \o Polled(n)
  <2>1. bytes \in Seq(ByteOf) /\ ReadOrder(packets, bytes, << >>, arrived + n)
    BY <1>6, PolledJoin
  <2>2. packets' = Append(packets, bytes) /\ readbuf' = << >> /\ trp' = [trp EXCEPT !.state = 0]
    BY <1>6 DEF ReturnsPacket
  <2> HIDE DEF bytes
  <2>3. arrived + n \in Nat /\ arrived' \in arrived..Len(Stream)
    BY <1>0, <1>6
  <2>4. ReadOrder(packets', << >>, << >>, arrived') /\ packets' \in Seq(Seq(ByteOf))
    BY <1>0, <1>6, <2>1, <2>2, <2>3, OrderReturned
  <2> QED BY <1>0, <1>2, <1>3, <1>4, <2>2, <2>3, <2>4, ReadersStep
<1>7. CASE PollHeader
  <2>1. /\ arrived + 1 <= Len(Stream) /\ arrived' = arrived + 1
        /\ readbuf' = Polled(1) /\ packets' = packets
        /\ trp' = [state |-> 1, len |-> 0, rem_len |-> 0]
    BY <1>7 DEF PollHeader, Gets
  <2>2. ReadOrder(packets, Polled(1), << >>, arrived + 1)
    BY <1>3, <2>1, PolledJoin
  <2>3. Polled(1) \in Seq(ByteOf) /\ Len(Polled(1)) = 1
    BY <1>0, <1>3, <2>1, PolledOrder
  <2>4. trp' \in Transport /\ trp'.len = 0
    BY <2>1 DEF Transport
  <2>5. arrived' \in arrived..Len(Stream)
    BY <1>0, <2>1
  <2>6. Len(readbuf') > 0 /\ Len(readbuf') <= trp'.len + 1
        /\ trp'.len <= MAX_NO_OF_REMAINING_LENGTH_BYTES
    <3>1. Len(readbuf') = 1
      BY <2>1, <2>3, Zenon
    <3> QED BY <2>4, <3>1 DEF MAX_NO_OF_REMAINING_LENGTH_BYTES
  <2> QED BY <1>0, <1>2, <2>1, <2>2, <2>3, <2>4, <2>5, <2>6, ReadersStep
<1>8. CASE PollLength
  <2> DEFINE b == Polled(1)[1]
             rem == trp.rem_len + (b.digit * Multiplier(Len(readbuf) - 1))
  <2>1. /\ trp.state = 1 /\ trp.len < MAX_NO_OF_REMAINING_LENGTH_BYTES
        /\ arrived + 1 <= Len(Stream) /\ arrived' = arrived + 1
        /\ readbuf' = Append(readbuf, b) /\ packets' = packets
        /\ trp' = IF b.more THEN [trp EXCEPT !.len = @ + 1, !.rem_len = rem]
                            ELSE [state |-> 2, len |-> 1 + DigitsOf(rem), rem_len |-> rem]
    BY <1>8 DEF PollLength, Gets
  <2>2. Len(readbuf) > 0 /\ Len(readbuf) <= trp.len + 1
    BY <2>1 DEF ReadTypes
  <2>3. Polled(1) \in Seq(ByteOf) /\ Len(Polled(1)) = 1
    BY <1>0, <1>3, <2>1, PolledOrder
  <2>4. b \in ByteOf
    <3>1. \A u \in Seq(ByteOf) : \A i \in 1..Len(u) : u[i] \in ByteOf
      OBVIOUS
    <3>2. 1 \in 1..Len(Polled(1))
      <4>1. 1 \in 1..1
        OBVIOUS
      <4> QED BY <2>3, <4>1, Zenon
    <3> QED BY <2>3, <3>1, <3>2, Zenon
  <2>5. readbuf' = readbuf \o Polled(1)
    BY <1>0, <2>1, <2>3, AppendJoined
  <2> HIDE DEF b
  <2>6. Len(readbuf) - 1 \in 0..3
    <3>1. trp.len < 4
      BY <2>1 DEF MAX_NO_OF_REMAINING_LENGTH_BYTES
    <3> DEFINE x == Len(readbuf)
               y == trp.len
    <3>2. x \in Nat /\ y \in Nat /\ y < 4 /\ x > 0 /\ x <= y + 1
      BY <1>0, <2>2, <3>1
    <3> HIDE DEF x, y
    <3>3. x - 1 \in 0..3
      BY <3>2
    <3> QED BY <3>3 DEF x
  <2>7. b.digit \in Nat /\ Multiplier(Len(readbuf) - 1) \in Nat
    BY <2>4, <2>6, ByteType, Multipliers DEF Byte
  <2>8. rem \in Nat
    <3>1. b.digit * Multiplier(Len(readbuf) - 1) \in Nat
      BY <2>7, Products
    <3> QED BY <1>0, <3>1
  <2> HIDE DEF rem
  <2>9. /\ readbuf' \in Seq(ByteOf) /\ Len(readbuf') = Len(readbuf) + 1
        /\ ReadOrder(packets, readbuf', << >>, arrived + 1)
    BY <1>3, <2>1, <2>5, PolledJoin
  <2>10. arrived' \in arrived..Len(Stream)
    BY <1>0, <2>1
  <2>11. /\ trp' \in Transport
         /\ trp'.state = 1 => trp'.len = trp.len + 1
    <3>1. CASE b.more
      <4>1. trp' = [trp EXCEPT !.len = trp.len + 1, !.rem_len = rem]
        BY <2>1, <3>1
      <4>2. trp.len + 1 \in Nat
        BY <1>0
      <4> QED BY <1>0, <2>8, <4>1, <4>2 DEF Transport
    <3>2. CASE ~b.more
      <4>1. trp' = [state |-> 2, len |-> 1 + DigitsOf(rem), rem_len |-> rem]
        BY <2>1, <3>2
      <4>2. 1 + DigitsOf(rem) \in Nat
        BY DigitsOfType
      <4> QED BY <2>8, <4>1, <4>2 DEF Transport
    <3> QED BY <3>1, <3>2
  <2>12. trp'.state = 1 => /\ Len(readbuf') > 0 /\ Len(readbuf') <= trp'.len + 1
                           /\ trp'.len <= MAX_NO_OF_REMAINING_LENGTH_BYTES
    BY <1>0, <2>1, <2>2, <2>9, <2>11 DEF MAX_NO_OF_REMAINING_LENGTH_BYTES
  <2> QED BY <1>0, <1>2, <2>1, <2>9, <2>10, <2>11, <2>12, ReadersStep
<1>9. CASE PollLengthEmpty
  <2>1. /\ trp.state = 1 /\ trp.len < MAX_NO_OF_REMAINING_LENGTH_BYTES
        /\ trp' = [trp EXCEPT !.len = @ + 1] /\ UNCHANGED <<arrived, readbuf, packets>>
    BY <1>9 DEF PollLengthEmpty
  <2>2. trp' \in Transport /\ trp'.len = trp.len + 1
    BY <1>0, <2>1 DEF Transport
  <2>3. /\ Len(readbuf') > 0 /\ Len(readbuf') <= trp'.len + 1
        /\ trp'.len <= MAX_NO_OF_REMAINING_LENGTH_BYTES
    BY <1>0, <2>1, <2>2 DEF ReadTypes, MAX_NO_OF_REMAINING_LENGTH_BYTES
  <2> QED BY <1>0, <1>2, <2>1, <2>2, <2>3, ReadersStep
<1>10. CASE PollLengthTooLong \/ PollFails
  <2>1. ReturnsError /\ arrived' = arrived
    BY <1>10 DEF PollLengthTooLong, PollFails
  <2> QED BY <1>0, <1>2, <1>5, <2>1
<1>11. CASE ReadRestShort
  <2>1. PICK n \in 1..(trp.rem_len - 1) : Gets(n)
    BY <1>11 DEF ReadRestShort
  <2>2. arrived' \in arrived..Len(Stream)
    BY <1>0, <2>1 DEF Gets
  <2> QED BY <1>2, <1>5, <1>11, <2>2 DEF ReadRestShort
<1>12. CASE ReadLengthFails
  <2>1. /\ trp.state = 1 /\ readbuf' = SubSeq(readbuf, 1, 1) /\ UNCHANGED <<arrived, packets>>
        /\ trp' = [state |-> 2, len |-> 1 + DigitsOf(trp.rem_len), rem_len |-> trp.rem_len]
    BY <1>12 DEF ReadLengthFails
  <2>2. Len(readbuf) > 0
    BY <2>1 DEF ReadTypes
  <2>3. readbuf' \in Seq(ByteOf) /\ ReadOrder(packets, readbuf', << >>, arrived)
    BY <1>0, <2>1, <2>2, HeaderOrder
  <2>4. trp' \in Transport /\ trp'.state = 2
    <3>1. 1 + DigitsOf(trp.rem_len) \in Nat
      BY DigitsOfType
    <3> QED BY <1>0, <2>1, <3>1 DEF Transport
  <2> QED BY <1>0, <1>2, <2>1, <2>3, <2>4, ReadersStep
<1>13. CASE ReadRest
  <2>1. arrived' = arrived + trp.rem_len /\ arrived + trp.rem_len <= Len(Stream)
    BY <1>0, <1>13 DEF ReadRest, Gets
  <2>2. ReturnsPacket(readbuf \o Polled(trp.rem_len))
    BY <1>13 DEF ReadRest
  <2> QED BY <1>0, <1>2, <1>6, <2>1, <2>2
<1>14. CASE PollRest
  <2>1. PICK n \in 1..trp.rem_len :
          /\ Gets(n)
          /\ IF n = trp.rem_len
               THEN ReturnsPacket(readbuf \o Polled(n))
               ELSE /\ readbuf' = readbuf \o Polled(n)
                    /\ trp' = [trp EXCEPT !.rem_len = @ - n, !.len = @ + n]
                    /\ UNCHANGED <<packets, failed>>
    BY <1>14 DEF PollRest
  <2>2. /\ n \in Nat /\ arrived' = arrived + n /\ arrived + n <= Len(Stream)
        /\ arrived' \in arrived..Len(Stream) /\ n <= trp.rem_len
    BY <1>0, <2>1 DEF Gets
  <2>3. CASE n = trp.rem_len
    <3>1. ReturnsPacket(readbuf \o Polled(n))
      BY <2>1, <2>3
    <3> QED BY <1>2, <1>6, <2>2, <3>1
  <2>4. CASE n # trp.rem_len
    <3>1. /\ readbuf' = readbuf \o Polled(n) /\ packets' = packets
          /\ trp' = [trp EXCEPT !.rem_len = @ - n, !.len = @ + n]
      BY <2>1, <2>4
    <3>2. readbuf' \in Seq(ByteOf) /\ ReadOrder(packets, readbuf', << >>, arrived + n)
      BY <2>2, <3>1, PolledJoin
    <3>3. trp.rem_len - n \in Nat /\ trp.len + n \in Nat /\ trp.state = 2
      BY <1>0, <1>14, <2>2 DEF PollRest
    <3>4. trp' = [trp EXCEPT !.len = trp.len + n, !.rem_len = trp.rem_len - n]
      BY <1>0, <3>1 DEF Transport
    <3>5. trp' \in Transport /\ trp'.state = 2
      BY <1>0, <3>3, <3>4, TransportChange
    <3> QED BY <1>0, <1>2, <2>2, <3>1, <3>2, <3>5, ReadersStep
  <2> QED BY <2>3, <2>4
<1> QED BY <1>1, <1>2, <1>7, <1>8, <1>9, <1>10, <1>11, <1>12, <1>13, <1>14
\* Every step of every reader.
LEMMA ReadersNext == ReadersInv /\ [ReadNext]_allVars => ReadersInv'
<1> SUFFICES ASSUME ReadersInv, [ReadNext]_allVars PROVE ReadersInv'
  OBVIOUS
<1>1. CASE reader = "readPacket" /\ Next /\ UNCHANGED pollVars
  <2>1. TypeInv /\ OrderInv /\ (aligned => ExactInv) /\ [Next]_vars /\ reader' = reader
    BY <1>1 DEF ReadersInv, pollVars
  <2>2. TypeInv' /\ OrderInv' /\ (aligned => ExactInv)'
    BY <2>1, TypeNext, OrderNext, ExactNext
  <2> QED BY <1>1, <2>1, <2>2 DEF ReadersInv
<1>2. CASE /\ reader = "MQTTPacket_read" \/ reader = "MQTTPacket_readnb"
           /\ MQTTPacket_read \/ MQTTPacket_readnb
  <2>1. ReadTypes /\ ReadOrder(packets, readbuf, << >>, arrived)
    BY <1>2 DEF ReadersInv
  <2>2. ReadTypes' /\ ReadOrder(packets', readbuf', << >>, arrived') /\ reader' = reader
    BY <1>2, <2>1, LibraryNext
  <2> QED BY <1>2, <2>2 DEF ReadersInv
<1>3. CASE UNCHANGED allVars
  <2>1. UNCHANGED vars /\ reader' = reader /\ trp' = trp
    BY <1>3 DEF allVars, pollVars
  <2>2. CASE reader = "readPacket"
    <3>1. TypeInv /\ OrderInv /\ (aligned => ExactInv) /\ [Next]_vars
      BY <2>1, <2>2 DEF ReadersInv
    <3>2. TypeInv' /\ OrderInv' /\ (aligned => ExactInv)'
      BY <3>1, TypeNext, OrderNext, ExactNext
    <3> QED BY <2>1, <2>2, <3>2 DEF ReadersInv
  <2>3. CASE reader # "readPacket"
    <3>1. ReadTypes /\ ReadOrder(packets, readbuf, << >>, arrived)
      BY <2>3 DEF ReadersInv
    <3>2. ReadTypes' /\ ReadOrder(packets', readbuf', << >>, arrived')
      BY <2>1, <3>1 DEF ReadTypes, TypeOK, vars, bufVars, readVars, pktVars
    <3> QED BY <2>1, <2>3, <3>2 DEF ReadersInv
  <2> QED BY <2>2, <2>3
<1> QED BY <1>1, <1>2, <1>3 DEF ReadNext

\* The first states of every reader.
LEMMA ReadersInit == PollInit => ReadersInv
<1> SUFFICES ASSUME PollInit PROVE ReadersInv
  OBVIOUS
<1>1. TypeInv /\ OrderInv /\ ExactInv
  BY TypeInit, OrderInit, ExactInit DEF PollInit
<1>2. /\ packets = << >> /\ readbuf = << >> /\ buffer = << >> /\ arrived = 0
      /\ mqtt_recv_len = 0 /\ mqtt_recv_offset = 0
      /\ trp = [state |-> 0, len |-> 0, rem_len |-> 0]
  BY DEF PollInit, Init
<1>3. Seen = arrived
  BY <1>2 DEF Seen
<1>4. ReadOrder(packets, readbuf, << >>, arrived)
  BY <1>1, <1>2, <1>3 DEF OrderInv
<1>5. trp \in Transport /\ trp.state # 1
  BY <1>2 DEF Transport
<1>6. reader # "readPacket" => ReadTypes
  BY <1>1, <1>5 DEF PollInit, ReadTypes, TypeInv
<1> QED BY <1>1, <1>4, <1>6 DEF ReadersInv

\* Whichever way the stream is read, every variable has its type: no reader
\* reads beyond the stream or more than four bytes of a length.
THEOREM ReadersTyped == ReadSpec => []TypeOK
<1>1. ReadersInv => TypeOK
  BY DEF ReadersInv, ReadTypes, TypeInv
<1> QED BY <1>1, ReadersInit, ReadersNext, PTL DEF ReadSpec

\* Whichever way the stream is read and whatever fails, no byte is in two places
\* of the packets returned, and none before one that precedes it in the stream.
THEOREM ReadersInOrder == ReadSpec => []BytesInOrder
<1>1. ReadersInv => BytesInOrder
  <2> SUFFICES ASSUME ReadersInv PROVE BytesInOrder
    OBVIOUS
  <2>1. \E r, b, n : ReadOrder(packets, r, b, n)
    BY DEF ReadersInv, OrderInv
  <2>2. packets \in Seq(Seq(ByteOf))
    BY ByteType DEF ReadersInv, ReadTypes, TypeInv, TypeOK
  <2> QED BY <2>1, <2>2, OrderedBytes
<1> QED BY <1>1, ReadersInit, ReadersNext, PTL DEF ReadSpec

\* PacketsExact in the specification of all readers: the library's are not bound
\* by where pieces end, and readPacket's steps are those of NetBuffer.
THEOREM ReadersExact == ReadSpec => PacketsExact
<1>1. ReadersInv /\ [ReadNext]_allVars
        => [aligned => /\ Len(packets) < Len(Lengths)
                       /\ packets' = Append(packets, PacketBytes(Len(packets) + 1))]_packets
  <2> SUFFICES ASSUME ReadersInv, [ReadNext]_allVars, aligned, packets' # packets
               PROVE  /\ Len(packets) < Len(Lengths)
                      /\ packets' = Append(packets, PacketBytes(Len(packets) + 1))
    OBVIOUS
  <2>1. reader = "readPacket"
    BY DEF ReadersInv, ReadTypes
  <2>2. Next
    BY <2>1 DEF ReadNext, allVars, vars
  <2>3. TypeInv /\ ExactInv
    BY <2>1 DEF ReadersInv
  <2> QED BY <2>2, <2>3, ExactNext DEF Begun, Count
<1> QED BY <1>1, ReadersInit, ReadersNext, PTL DEF ReadSpec, PacketsExact
=============================================================================
