-------------------------- MODULE SensorTaskProofs --------------------------
(***************************************************************************)
(* Proofs about the sensor task, its drivers and the connection it uses.   *)
(*   1. The checksum of the sensor's frames: exclusive or, shift register, *)
(*      and that a frame with one changed byte has another checksum.       *)
(*   2. The frame: what spi_master_read_sensor takes from a whole one, and *)
(*      that it refuses a damaged one.                                     *)
(*   3. The connection by itself (NetworkLink), for every value of its     *)
(*      constants.                                                         *)
(*   4. The task: what was last published was last measured, and the       *)
(*      connection keeps its promises when the task drives it.             *)
(***************************************************************************)
EXTENDS SensorTask, Integers, FiniteSetTheorems, TLAPS

Bytes == 0..255

\* A byte is the sum of its eight bits by weight, and so is no other.
LEMMA ByteBits ==
  ASSUME NEW a \in Bytes
  PROVE  a = ((a \div 1) % 2) + 2 * ((a \div 2) % 2) + 4 * ((a \div 4) % 2) + 8 * ((a \div 8) % 2)
             + 16 * ((a \div 16) % 2) + 32 * ((a \div 32) % 2)
             + 64 * ((a \div 64) % 2) + 128 * ((a \div 128) % 2)
  BY DEF Bytes

\* Parity is 0 or the weight.
LEMMA ParityValues ==
  ASSUME NEW a \in Bytes, NEW b \in Bytes, NEW w \in {1, 2, 4, 8, 16, 32, 64, 128}
  PROVE  Parity(a, b, w) \in {0, w}
  BY DEF Bytes, Parity

\* The exclusive or of two bytes is a byte.
LEMMA XorByte ==
  ASSUME NEW a \in Bytes, NEW b \in Bytes
  PROVE  Xor(a, b) \in Bytes
<1>1. /\ Parity(a, b, 1) \in {0, 1} /\ Parity(a, b, 2) \in {0, 2}
      /\ Parity(a, b, 4) \in {0, 4} /\ Parity(a, b, 8) \in {0, 8}
      /\ Parity(a, b, 16) \in {0, 16} /\ Parity(a, b, 32) \in {0, 32}
      /\ Parity(a, b, 64) \in {0, 64} /\ Parity(a, b, 128) \in {0, 128}
  BY ParityValues
<1> QED BY <1>1 DEF Xor, Bytes

Weights == {1, 2, 4, 8, 16, 32, 64, 128}

\* Bytes whose parities with one byte agree at a weight agree in that bit.
LEMMA SameParity ==
  ASSUME NEW a \in Bytes, NEW b \in Bytes, NEW c \in Bytes, NEW w \in Weights,
         Parity(a, b, w) = Parity(a, c, w)
  PROVE  (b \div w) % 2 = (c \div w) % 2
  BY DEF Bytes, Parity, Weights

\* The exclusive or does not depend on the order.
LEMMA XorSymmetric ==
  ASSUME NEW a \in Bytes, NEW b \in Bytes
  PROVE  Xor(a, b) = Xor(b, a)
<1>1. \A w \in Weights : Parity(a, b, w) = Parity(b, a, w)
  BY DEF Bytes, Parity, Weights
<1> QED BY <1>1 DEF Xor, Weights

\* Zero is its neutral element.
LEMMA XorZero ==
  ASSUME NEW a \in Bytes
  PROVE  Xor(a, 0) = a /\ Xor(0, a) = a
<1>1. \A w \in Weights : Parity(a, 0, w) = w * ((a \div w) % 2)
  BY DEF Bytes, Parity, Weights
<1>2. Xor(a, 0) = a
  <2>1. /\ Parity(a, 0, 1) = (a \div 1) % 2 /\ Parity(a, 0, 2) = 2 * ((a \div 2) % 2)
        /\ Parity(a, 0, 4) = 4 * ((a \div 4) % 2) /\ Parity(a, 0, 8) = 8 * ((a \div 8) % 2)
        /\ Parity(a, 0, 16) = 16 * ((a \div 16) % 2) /\ Parity(a, 0, 32) = 32 * ((a \div 32) % 2)
        /\ Parity(a, 0, 64) = 64 * ((a \div 64) % 2)
        /\ Parity(a, 0, 128) = 128 * ((a \div 128) % 2)
    BY <1>1 DEF Weights, Bytes
  <2> QED BY <2>1, ByteBits DEF Xor
<1>3. 0 \in Bytes
  BY DEF Bytes
<1> QED BY <1>2, <1>3, XorSymmetric

\* Exclusive or with one byte keeps different bytes different.
LEMMA XorInjective ==
  ASSUME NEW a \in Bytes, NEW b \in Bytes, NEW c \in Bytes, Xor(a, b) = Xor(a, c)
  PROVE  b = c
<1>1. \A w \in Weights : Parity(a, b, w) \in {0, w} /\ Parity(a, c, w) \in {0, w}
  BY ParityValues DEF Weights
<1>2. \A w \in Weights : Parity(a, b, w) = Parity(a, c, w)
  <2> DEFINE p(w) == Parity(a, b, w)
             q(w) == Parity(a, c, w)
  <2>1. /\ p(1) \in {0, 1} /\ q(1) \in {0, 1} /\ p(2) \in {0, 2} /\ q(2) \in {0, 2}
        /\ p(4) \in {0, 4} /\ q(4) \in {0, 4} /\ p(8) \in {0, 8} /\ q(8) \in {0, 8}
        /\ p(16) \in {0, 16} /\ q(16) \in {0, 16} /\ p(32) \in {0, 32} /\ q(32) \in {0, 32}
        /\ p(64) \in {0, 64} /\ q(64) \in {0, 64}
        /\ p(128) \in {0, 128} /\ q(128) \in {0, 128}
    BY <1>1 DEF Weights
  <2>2. p(1) + p(2) + p(4) + p(8) + p(16) + p(32) + p(64) + p(128)
          = q(1) + q(2) + q(4) + q(8) + q(16) + q(32) + q(64) + q(128)
    BY DEF Xor
  <2> HIDE DEF p, q
  <2>3. /\ p(1) = q(1) /\ p(2) = q(2) /\ p(4) = q(4) /\ p(8) = q(8)
        /\ p(16) = q(16) /\ p(32) = q(32) /\ p(64) = q(64) /\ p(128) = q(128)
    BY <2>1, <2>2
  <2>4. \A w \in Weights : p(w) = q(w)
    BY <2>3 DEF Weights
  <2> QED BY <2>4 DEF p, q
<1>3. \A w \in Weights : (b \div w) % 2 = (c \div w) % 2
  BY <1>2, SameParity
<1>4. /\ (b \div 1) % 2 = (c \div 1) % 2 /\ (b \div 2) % 2 = (c \div 2) % 2
      /\ (b \div 4) % 2 = (c \div 4) % 2 /\ (b \div 8) % 2 = (c \div 8) % 2
      /\ (b \div 16) % 2 = (c \div 16) % 2 /\ (b \div 32) % 2 = (c \div 32) % 2
      /\ (b \div 64) % 2 = (c \div 64) % 2 /\ (b \div 128) % 2 = (c \div 128) % 2
  BY <1>3 DEF Weights
<1> QED BY <1>4, ByteBits

\* One step of the shift register keeps different contents different: only one
\* that loses a 1 becomes odd.
LEMMA ShiftByte ==
  ASSUME NEW r \in Bytes
  PROVE  Shift(r) \in Bytes
<1>1. CASE r >= 128
  <2>1. 2 * r - 256 \in Bytes /\ 47 \in Bytes
    BY <1>1 DEF Bytes
  <2> QED BY <1>1, <2>1, XorByte DEF Shift
<1>2. CASE r < 128
  BY <1>2 DEF Shift, Bytes
<1> QED BY <1>1, <1>2 DEF Bytes

\* It is odd exactly when one of the two bytes is.
LEMMA XorOdd ==
  ASSUME NEW r \in Bytes, r % 2 = 0
  PROVE  Xor(r, 47) % 2 = 1
<1>1. Parity(r, 47, 1) = 1
  BY DEF Bytes, Parity
<1>2. \A w \in Weights \ {1} : Parity(r, 47, w) \in {0, w}
  <2>1. 47 \in Bytes
    BY DEF Bytes
  <2> QED BY <2>1, ParityValues DEF Weights
<1>3. /\ Parity(r, 47, 2) \in {0, 2} /\ Parity(r, 47, 4) \in {0, 4}
      /\ Parity(r, 47, 8) \in {0, 8} /\ Parity(r, 47, 16) \in {0, 16}
      /\ Parity(r, 47, 32) \in {0, 32} /\ Parity(r, 47, 64) \in {0, 64}
      /\ Parity(r, 47, 128) \in {0, 128}
  BY <1>2 DEF Weights
<1> QED BY <1>1, <1>3 DEF Xor

\* A step of the shift register loses nothing: the generator's lowest bit is
\* set, so the lowest bit of the result tells what was shifted out.
LEMMA ShiftInjective ==
  ASSUME NEW r \in Bytes, NEW s \in Bytes, Shift(r) = Shift(s)
  PROVE  r = s
<1>1. \A t \in Bytes : t >= 128 => /\ 2 * t - 256 \in Bytes /\ (2 * t - 256) % 2 = 0
                                   /\ Shift(t) = Xor(2 * t - 256, 47)
  BY DEF Shift, Bytes
<1>2. \A t \in Bytes : t >= 128 => Shift(t) % 2 = 1
  BY <1>1, XorOdd
<1>3. \A t \in Bytes : t < 128 => Shift(t) = 2 * t /\ Shift(t) % 2 = 0
  BY DEF Shift, Bytes
<1>4. CASE r >= 128 /\ s >= 128
  <2> DEFINE u == 2 * r - 256
             v == 2 * s - 256
  <2>1. u \in Bytes /\ v \in Bytes /\ 47 \in Bytes /\ Xor(u, 47) = Xor(v, 47)
    BY <1>1, <1>4 DEF Bytes
  <2>2. Xor(47, u) = Xor(47, v)
    BY <2>1, XorSymmetric
  <2>3. u = v
    BY <2>1, <2>2, XorInjective
  <2> QED BY <2>3 DEF Bytes
<1>5. CASE r < 128 /\ s < 128
  BY <1>3, <1>5 DEF Bytes
<1>6. CASE r >= 128 /\ s < 128
  BY <1>2, <1>3, <1>6
<1>7. CASE r < 128 /\ s >= 128
  BY <1>2, <1>3, <1>7
<1> QED BY <1>4, <1>5, <1>6, <1>7 DEF Bytes

\* Nor do eight steps: bytes that go in different come out different.
LEMMA ShiftOutInjective ==
  ASSUME NEW r \in Bytes, NEW a \in Bytes
  PROVE  /\ ShiftOut(r, a) \in Bytes
         /\ ShiftOut(r, a) = ShiftOut(0, Xor(r, a))
         /\ \A b \in Bytes : ShiftOut(r, a) = ShiftOut(r, b) => a = b
         /\ \A s \in Bytes : ShiftOut(r, a) = ShiftOut(s, a) => r = s
<1> DEFINE Eight(x) == Shift(Shift(Shift(Shift(Shift(Shift(Shift(Shift(x))))))))
<1>1. \A x, y : ShiftOut(x, y) = Eight(Xor(x, y))
  BY DEF ShiftOut
<1>2. \A x \in Bytes : Eight(x) \in Bytes
  BY ShiftByte
<1>3. \A x, y \in Bytes : Eight(x) = Eight(y) => x = y
  BY ShiftByte, ShiftInjective
<1> HIDE DEF Eight
<1>4. \A x, y \in Bytes : Xor(x, y) \in Bytes /\ Xor(x, y) = Xor(y, x)
  BY XorByte, XorSymmetric
<1>5. Xor(0, Xor(r, a)) = Xor(r, a)
  BY <1>4, XorZero
<1>6. ASSUME NEW b \in Bytes, ShiftOut(r, a) = ShiftOut(r, b) PROVE a = b
  <2>1. Xor(r, a) = Xor(r, b)
    BY <1>1, <1>3, <1>4, <1>6
  <2> QED BY <2>1, XorInjective
<1>7. ASSUME NEW s \in Bytes, ShiftOut(r, a) = ShiftOut(s, a) PROVE r = s
  <2>1. Xor(a, r) = Xor(a, s)
    BY <1>1, <1>3, <1>4, <1>7
  <2> QED BY <2>1, XorInjective
<1> QED BY <1>1, <1>2, <1>4, <1>5, <1>6, <1>7
-----------------------------------------------------------------------------
\* Every set of natural numbers has a least one, because the intervals 1..n are
\* well-founded under inclusion.
LEMMA Least ==
  ASSUME NEW T, T \subseteq Nat, T # {}
  PROVE  \E x \in T : \A y \in T : x <= y
<1> DEFINE I == {1..n : n \in T}
<1>1. \A n \in Nat : 1..n \in FiniteSubsetsOf(Nat)
  BY FS_Interval DEF FiniteSubsetsOf
<1>2. PICK J \in I : \A K \in I : ~(<<K, J>> \in StrictSubsetOrdering(Nat))
  <2>1. IsWellFoundedOn(StrictSubsetOrdering(Nat), FiniteSubsetsOf(Nat))
    BY FS_StrictSubsetOrderingWellFounded
  <2>2. I # {} /\ I \subseteq FiniteSubsetsOf(Nat)
    BY <1>1
  <2> QED BY <2>1, <2>2, WFMin
<1>3. PICK n \in T : J = 1..n
  OBVIOUS
<1>4. \A m \in T : ~(1..m \subseteq 1..n /\ 1..m # 1..n)
  <2> TAKE m \in T
  <2>1. <<1..m, 1..n>> \notin StrictSubsetOrdering(Nat)
    BY <1>2, <1>3
  <2>2. 1..m \in SUBSET Nat /\ 1..n \in SUBSET Nat
    OBVIOUS
  <2> QED BY <2>1, <2>2 DEF StrictSubsetOrdering
<1>5. \A m \in T : n <= m
  <2> SUFFICES ASSUME NEW m \in T, m < n PROVE FALSE
    OBVIOUS
  <2>1. 1..m \subseteq 1..n
    OBVIOUS
  <2>2. n \in 1..n /\ n \notin 1..m
    OBVIOUS
  <2> QED BY <1>4, <2>1, <2>2
<1> QED BY <1>5

\* Induction from 0 to n, over what is stated as a set of numbers.
LEMMA Induction ==
  ASSUME NEW n \in Nat, NEW T, 0 \in T, \A i \in 1..n : i - 1 \in T => i \in T
  PROVE  0..n \subseteq T
<1> SUFFICES ASSUME (0..n) \ T # {} PROVE FALSE
  OBVIOUS
<1>1. PICK m \in (0..n) \ T : \A k \in (0..n) \ T : m <= k
  <2>1. (0..n) \ T \subseteq Nat
    OBVIOUS
  <2> QED BY <2>1, Least
<1>2. m # 0 /\ m \in 1..n
  BY <1>1
<1>3. m - 1 \in T
  BY <1>1, <1>2
<1> QED BY <1>1, <1>2, <1>3

\* g begins with x, and step leads from each of its values to the next.
Iterates(g, x, n, step) == g[0] = x /\ \A i \in 1..n : g[i] = step[i][g[i - 1]]

\* A function on 0..n that is defined from its value before has a solution.
LEMMA Recursion ==
  ASSUME NEW S, NEW x \in S, NEW n \in Nat, NEW step \in [1..n -> [S -> S]]
  PROVE  \E g \in [0..n -> S] : Iterates(g, x, n, step)
<1> DEFINE Good(g, m) == g[0] = x /\ \A i \in 1..m : g[i] = step[i][g[i - 1]]
           Solved == {m \in 0..n : \E g \in [0..n -> S] : Good(g, m)}
<1>1. 0 \in Solved
  <2> DEFINE g == [i \in 0..n |-> x]
  <2>1. g \in [0..n -> S] /\ g[0] = x /\ 0 \in 0..n
    OBVIOUS
  <2>2. \A i \in 1..0 : FALSE
    OBVIOUS
  <2> HIDE DEF g
  <2> QED BY <2>1, <2>2
<1>2. ASSUME NEW m \in 1..n, m - 1 \in Solved
      PROVE  m \in Solved
  <2>1. PICK g \in [0..n -> S] : Good(g, m - 1)
    BY <1>2
  <2> DEFINE h == [g EXCEPT ![m] = step[m][g[m - 1]]]
  <2>2. m \in 0..n /\ m - 1 \in 0..n /\ m # m - 1 /\ m # 0 /\ 0 \in 0..n
    OBVIOUS
  <2>3. step[m][g[m - 1]] \in S
    BY <2>2
  <2>4. h \in [0..n -> S]
    BY <2>3
  <2>5. h[m] = step[m][g[m - 1]] /\ \A i \in 0..n : i # m => h[i] = g[i]
    BY <2>2
  <2> HIDE DEF h
  <2>6. h[0] = x /\ h[m] = step[m][h[m - 1]]
    BY <2>1, <2>2, <2>5
  <2>7. ASSUME NEW i \in 1..m, i # m PROVE h[i] = step[i][h[i - 1]]
    <3>1. i \in 1..(m - 1) /\ i \in 0..n /\ i - 1 \in 0..n /\ i - 1 # m
      BY <2>7
    <3> QED BY <2>1, <2>5, <2>7, <3>1
  <2>8. Good(h, m)
    BY <2>6, <2>7
  <2> HIDE DEF Good
  <2> QED BY <2>2, <2>4, <2>8
<1> HIDE DEF Solved
<1>3. n \in Solved
  <2>1. 0..n \subseteq Solved
    BY <1>1, <1>2, Induction
  <2> QED BY <2>1
<1>4. PICK g \in [0..n -> S] : Good(g, n)
  BY <1>3 DEF Solved
<1> QED BY <1>4 DEF Iterates
-----------------------------------------------------------------------------
(* Checksums.                                                              *)

\* g has the contents of the sensor's register after every byte.
IsRegister(g, bytes) ==
  /\ g \in [0..Len(bytes) -> Bytes]
  /\ g[0] = 255
  /\ \A i \in 1..Len(bytes) : g[i] = ShiftOut(g[i - 1], bytes[i])

\* The driver computes the sensor's checksum, from its table.
LEMMA ChecksumUnfolds ==
  ASSUME NEW bytes \in Seq(Bytes)
  PROVE  \E g : /\ IsRegister(g, bytes)
                /\ Checksum(bytes) = 255 - g[Len(bytes)]
                /\ compute_crc(bytes) = 255 - g[Len(bytes)]
<1> DEFINE n == Len(bytes)
           step == [i \in 1..n |-> [r \in Bytes |-> ShiftOut(r, bytes[i])]]
<1>1. n \in Nat /\ \A i \in 1..n : bytes[i] \in Bytes
  OBVIOUS
<1>2. 255 \in Bytes
  BY DEF Bytes
<1>3. step \in [1..n -> [Bytes -> Bytes]]
  BY <1>1, ShiftOutInjective
<1>4. PICK g \in [0..n -> Bytes] :
        g[0] = 255 /\ \A i \in 1..n : g[i] = step[i][g[i - 1]]
  <2> DEFINE first == 255
  <2>1. n \in Nat /\ first \in Bytes
    BY <1>1, <1>2
  <2> HIDE DEF step, n, first
  <2>2. \E g \in [0..n -> Bytes] : Iterates(g, first, n, step)
    BY <1>3, <2>1, Recursion
  <2> QED BY <2>2 DEF first, Iterates
<1>5. \A i \in 1..n : i \in 0..n /\ i - 1 \in 0..n /\ i # 0
  BY <1>1
<1>6. \A i \in 0..n : i # 0 => i \in 1..n
  BY <1>1
<1>7. \A i \in 1..n : step[i][g[i - 1]] = ShiftOut(g[i - 1], bytes[i])
  BY <1>4, <1>5
<1> HIDE DEF step
<1>8. g = [i \in 0..n |-> IF i = 0 THEN 255 ELSE ShiftOut(g[i - 1], bytes[i])]
  BY <1>4, <1>6, <1>7
<1> DEFINE register == CHOOSE h : h = [i \in 0..n |->
                         IF i = 0 THEN 255 ELSE ShiftOut(h[i - 1], bytes[i])]
<1>9. register = [i \in 0..n |-> IF i = 0 THEN 255 ELSE ShiftOut(register[i - 1], bytes[i])]
  BY <1>8
<1>10. Checksum(bytes) = 255 - register[n]
  BY DEF Checksum
<1> HIDE DEF register
<1>11. 0 \in 0..n /\ n \in 0..n
  BY <1>1
<1>12. Checksum(bytes) = 255 - g[n]
  <2> DEFINE Same == {i \in 0..n : register[i] = g[i]}
  <2>1. 0 \in Same
    BY <1>8, <1>9, <1>11
  <2>2. ASSUME NEW i \in 1..n, i - 1 \in Same PROVE i \in Same
    BY <1>5, <1>8, <1>9, <2>2
  <2>3. 0..n \subseteq Same
    <3> HIDE DEF Same
    <3> QED BY <1>1, <2>1, <2>2, Induction
  <2> QED BY <1>10, <1>11, <2>3
<1>13. \A i \in 1..n : ShiftOut(g[i - 1], bytes[i]) = crc_array[Xor(g[i - 1], bytes[i]) + 1]
  <2> TAKE i \in 1..n
  <2>1. g[i - 1] \in Bytes /\ bytes[i] \in Bytes
    BY <1>1, <1>4, <1>5
  <2>2. Xor(g[i - 1], bytes[i]) \in 0..255
    BY <2>1, XorByte DEF Bytes
  <2> QED BY <2>1, <2>2, ShiftOutInjective, CrcArrayAssumption
<1>14. g = [i \in 0..n |-> IF i = 0 THEN 255 ELSE crc_array[Xor(g[i - 1], bytes[i]) + 1]]
  BY <1>6, <1>8, <1>13
<1> DEFINE crc == CHOOSE h : h = [i \in 0..n |->
                    IF i = 0 THEN 255 ELSE crc_array[Xor(h[i - 1], bytes[i]) + 1]]
<1>15. crc = [i \in 0..n |-> IF i = 0 THEN 255 ELSE crc_array[Xor(crc[i - 1], bytes[i]) + 1]]
  BY <1>14
<1>16. compute_crc(bytes) = 255 - crc[n]
  BY DEF compute_crc
<1> HIDE DEF crc
<1>17. compute_crc(bytes) = 255 - g[n]
  <2> DEFINE Same == {i \in 0..n : crc[i] = g[i]}
  <2>1. 0 \in Same
    BY <1>11, <1>14, <1>15
  <2>2. ASSUME NEW i \in 1..n, i - 1 \in Same PROVE i \in Same
    BY <1>5, <1>14, <1>15, <2>2
  <2>3. 0..n \subseteq Same
    <3> HIDE DEF Same
    <3> QED BY <1>1, <2>1, <2>2, Induction
  <2> QED BY <1>11, <1>16, <2>3
<1>18. IsRegister(g, bytes)
  BY <1>4, <1>5, <1>8, <1>11 DEF IsRegister
<1> QED BY <1>12, <1>17, <1>18

\* Frames that differ in one byte have different checksums, whatever their length.
LEMMA OneByteChangesCrc ==
  ASSUME NEW s \in Seq(Bytes), NEW t \in Seq(Bytes), Len(s) = Len(t), NEW i \in 1..Len(s),
         s[i] # t[i], \A k \in 1..Len(s) : k # i => s[k] = t[k]
  PROVE  compute_crc(s) # compute_crc(t)
<1> DEFINE n == Len(s)
<1>1. n \in Nat /\ \A k \in 1..n : s[k] \in Bytes /\ t[k] \in Bytes
  OBVIOUS
<1>2. PICK g : IsRegister(g, s) /\ compute_crc(s) = 255 - g[n]
  BY ChecksumUnfolds
<1>3. PICK h : IsRegister(h, t) /\ compute_crc(t) = 255 - h[n]
  BY ChecksumUnfolds
<1>4. \A k \in 0..n : g[k] \in Bytes /\ h[k] \in Bytes
  <2>1. g \in [0..n -> Bytes]
    BY <1>2 DEF IsRegister
  <2>2. h \in [0..n -> Bytes]
    BY <1>3 DEF IsRegister
  <2> HIDE DEF n
  <2> QED BY <2>1, <2>2
<1> DEFINE Good == {k \in 0..n : k < i <=> g[k] = h[k]}
<1>5. 0 \in Good
  <2>1. g[0] = 255 /\ h[0] = 255 /\ 0 \in 0..n /\ 0 < i
    BY <1>1, <1>2, <1>3 DEF IsRegister
  <2> QED BY <2>1
<1>6. ASSUME NEW k \in 1..n, k - 1 \in Good PROVE k \in Good
  <2>1. k \in 0..n /\ k - 1 \in 0..n
    BY <1>1
  <2>2. /\ g[k] = ShiftOut(g[k - 1], s[k]) /\ h[k] = ShiftOut(h[k - 1], t[k])
        /\ g[k - 1] \in Bytes /\ h[k - 1] \in Bytes /\ s[k] \in Bytes /\ t[k] \in Bytes
    BY <1>1, <1>2, <1>3, <1>4, <2>1 DEF IsRegister
  <2>3. CASE k < i
    <3>1. k - 1 < i /\ k # i
      BY <2>3
    <3>2. g[k] = h[k]
      BY <1>6, <2>2, <3>1
    <3> QED BY <2>1, <2>3, <3>2
  <2>4. CASE k = i
    <3>1. k - 1 < i /\ ~(k < i)
      BY <2>4
    <3>2. g[k - 1] = h[k - 1] /\ s[k] # t[k]
      BY <1>6, <2>4, <3>1
    <3>3. g[k] # h[k]
      BY <2>2, <3>2, ShiftOutInjective
    <3> QED BY <2>1, <3>1, <3>3
  <2>5. CASE k > i
    <3>1. ~(k - 1 < i) /\ ~(k < i) /\ k # i
      BY <2>5
    <3>2. g[k - 1] # h[k - 1] /\ s[k] = t[k]
      BY <1>6, <3>1
    <3>3. g[k] # h[k]
      BY <2>2, <3>2, ShiftOutInjective
    <3> QED BY <2>1, <3>1, <3>3
  <2> QED BY <2>3, <2>4, <2>5
<1>7. n \in Good
  <2> HIDE DEF Good
  <2>1. 0..n \subseteq Good
    BY <1>1, <1>5, <1>6, Induction
  <2> QED BY <1>1, <2>1
<1>8. g[n] # h[n] /\ g[n] \in Bytes /\ h[n] \in Bytes
  BY <1>1, <1>4, <1>7
<1>9. \A x, y \in 0..255 : x # y => 255 - x # 255 - y
  OBVIOUS
<1> HIDE DEF n
<1> QED BY <1>2, <1>3, <1>8, <1>9 DEF Bytes
-----------------------------------------------------------------------------
(* Frames.                                                                 *)

\* The checksum of the driver and of the sensor are the same byte.
LEMMA ChecksumIsCrc ==
  ASSUME NEW c \in Seq(Bytes)
  PROVE  Checksum(c) = compute_crc(c) /\ Checksum(c) \in Bytes
<1>1. PICK g : /\ IsRegister(g, c)
               /\ Checksum(c) = 255 - g[Len(c)]
               /\ compute_crc(c) = 255 - g[Len(c)]
  BY ChecksumUnfolds
<1> DEFINE n == Len(c)
<1>2. g \in [0..n -> Bytes] /\ n \in 0..n
  BY <1>1 DEF IsRegister
<1> HIDE DEF n
<1>3. g[n] \in Bytes
  BY <1>2
<1>4. \A x \in Bytes : 255 - x \in Bytes
  BY DEF Bytes
<1>5. 255 - g[n] \in Bytes
  BY <1>3, <1>4
<1> QED BY <1>1, <1>5 DEF n

\* A byte behind n others.
LEMMA AppendedByte ==
  ASSUME NEW n \in Nat, NEW c \in Seq(Bytes), Len(c) = n, NEW b \in Bytes
  PROVE  /\ Append(c, b) \in Seq(Bytes) /\ Len(Append(c, b)) = n + 1
         /\ Append(c, b)[n + 1] = b
         /\ \A k \in 1..n : Append(c, b)[k] = c[k]
         /\ SubSeq(Append(c, b), 1, n) = c
  OBVIOUS

Bits14 == 0..16383

\* The two bytes of an angle.
LEMMA AngleSplits ==
  ASSUME NEW a \in Bits14
  PROVE  a % 256 \in 0..255 /\ a \div 256 \in 0..63 /\ (a % 256) + (a \div 256) * 256 = a
<1> DEFINE d == a \div 256
           r == a % 256
<1>1. d \in Nat /\ r \in Nat /\ r < 256 /\ a = 256 * d + r /\ a < 16384
  BY DEF Bits14
<1> HIDE DEF d, r
<1>2. d \in 0..63 /\ r \in 0..255 /\ r + d * 256 = a
  BY <1>1
<1> QED BY <1>2 DEF d, r

\* The status bits are on top of the second one.
LEMMA StatusOnTop ==
  ASSUME NEW d \in 0..63, NEW e \in 0..3
  PROVE  d + 64 * e \in 0..255 /\ (d + 64 * e) % 64 = d /\ (d + 64 * e) \div 64 = e
  OBVIOUS

\* Both are bytes.
LEMMA AngleBytes ==
  ASSUME NEW a \in Bits14, NEW e \in 0..3
  PROVE  a % 256 \in Bytes /\ a \div 256 + 64 * e \in Bytes
<1> DEFINE d == a \div 256
<1>1. a % 256 \in 0..255 /\ d \in 0..63
  BY AngleSplits
<1> HIDE DEF d
<1>2. d + 64 * e \in 0..255
  BY <1>1, StatusOnTop
<1> QED BY <1>1, <1>2 DEF d, Bytes

\* What the driver computes of the two is the angle and the status.
LEMMA AngleIsBack ==
  ASSUME NEW a \in Bits14, NEW e \in 0..3, NEW p, NEW q,
         p = a % 256, q = a \div 256 + 64 * e
  PROVE  p + (q % 64) * 256 = a /\ q \div 64 = e
<1> DEFINE d == a \div 256
<1>1. d \in 0..63 /\ p + d * 256 = a
  BY AngleSplits
<1>2. q = d + 64 * e
  OBVIOUS
<1> HIDE DEF d
<1>3. (d + 64 * e) % 64 = d /\ (d + 64 * e) \div 64 = e
  BY <1>1, StatusOnTop
<1>4. q % 64 = d /\ q \div 64 = e
  BY <1>2, <1>3, Zenon
<1> QED BY <1>1, <1>4

\* An angle has 14 bits, and its status two.
LEMMA FrameFields ==
  ASSUME NEW f \in Frames
  PROVE  f.angle \in Angles /\ f.angle \in Bits14 /\ f.status \in 0..3
<1>1. f.angle \in Angles /\ f.status \in 0..3
  BY DEF Frames
<1>2. Angles \subseteq Bits14
  BY AnglesAssumption DEF Bits14
<1> QED BY <1>1, <1>2

\* A frame has eight bytes, the checksum of the first seven last.
LEMMA FrameLayout ==
  ASSUME NEW f \in Frames
  PROVE  /\ Content(f) \in Seq(Bytes) /\ Len(Content(f)) = 7
         /\ FrameBytes(f) \in Seq(Bytes) /\ Len(FrameBytes(f)) = 8
         /\ SubSeq(FrameBytes(f), 1, 7) = Content(f)
         /\ FrameBytes(f)[8] = compute_crc(Content(f))
         /\ \A k \in 1..7 : FrameBytes(f)[k] = Content(f)[k]
<1> DEFINE a == f.angle
           e == f.status
           c == Content(f)
<1>1. a \in Bits14 /\ e \in 0..3
  BY FrameFields
<1>2. c = <<a % 256, a \div 256 + 64 * e, 0, 0, 90, 0, 17>>
  BY DEF Content
<1>3. FrameBytes(f) = Append(c, Checksum(c))
  BY DEF FrameBytes
<1> HIDE DEF a, e, c
<1>4. /\ a % 256 \in Bytes /\ a \div 256 + 64 * e \in Bytes
      /\ 0 \in Bytes /\ 90 \in Bytes /\ 17 \in Bytes
  <2>1. a % 256 \in Bytes /\ a \div 256 + 64 * e \in Bytes
    BY <1>1, AngleBytes
  <2> QED BY <2>1 DEF Bytes
<1>5. c \in Seq(Bytes) /\ Len(c) = 7
  BY <1>2, <1>4
<1>6. Checksum(c) = compute_crc(c) /\ Checksum(c) \in Bytes
  BY <1>5, ChecksumIsCrc
<1> DEFINE n == 7
           s == Append(c, Checksum(c))
<1>7. n \in Nat /\ Len(c) = n /\ n + 1 = 8
  BY <1>5
<1> HIDE DEF n
<1>8. /\ s \in Seq(Bytes) /\ Len(s) = n + 1 /\ s[n + 1] = Checksum(c)
      /\ \A k \in 1..n : s[k] = c[k]
      /\ SubSeq(s, 1, n) = c
  BY <1>5, <1>6, <1>7, AppendedByte
<1> HIDE DEF s
<1>9. /\ s \in Seq(Bytes) /\ Len(s) = 8 /\ s[8] = Checksum(c)
      /\ \A k \in 1..7 : s[k] = c[k]
      /\ SubSeq(s, 1, 7) = c
  BY <1>7, <1>8 DEF n
<1>10. FrameBytes(f) = s
  BY <1>3 DEF s
<1> QED BY <1>5, <1>6, <1>9, <1>10 DEF c

\* The driver reads from a whole frame the angle that the sensor has put into
\* it, if the sensor marks it as valid, and nothing otherwise.
LEMMA WholeFrameIsRead ==
  ASSUME NEW f \in Frames
  PROVE  spi_master_read_sensor(FrameBytes(f)) =
           IF IsValid(f) THEN [ret |-> "ESP_OK", value |-> f.angle] ELSE NotFound
<1> DEFINE a == f.angle
           e == f.status
           s == FrameBytes(f)
<1>1. a \in Bits14 /\ e \in 0..3
  BY FrameFields
<1>2. Content(f)[1] = a % 256 /\ Content(f)[2] = a \div 256 + 64 * e
  BY DEF Content
<1>3. s[1] = Content(f)[1] /\ s[2] = Content(f)[2]
  BY FrameLayout
<1>4. s[8] = compute_crc(SubSeq(s, 1, 7))
  BY FrameLayout
<1> HIDE DEF s
<1>5. spi_master_read_sensor(s) = ReadAngle(s)
  BY <1>4 DEF spi_master_read_sensor
<1> HIDE DEF a, e
<1>6. s[1] + (s[2] % 64) * 256 = a /\ s[2] \div 64 = e
  <2> DEFINE p == s[1]
             q == s[2]
  <2>1. p = a % 256 /\ q = a \div 256 + 64 * e
    BY <1>2, <1>3
  <2> HIDE DEF p, q
  <2>2. p + (q % 64) * 256 = a /\ q \div 64 = e
    BY <1>1, <2>1, AngleIsBack
  <2> QED BY <2>2 DEF p, q
<1>7. ReadAngle(s) = IF e > 1 THEN [ret |-> "ESP_OK", value |-> a] ELSE NotFound
  BY <1>6 DEF ReadAngle
<1> QED BY <1>5, <1>7 DEF a, e, s, IsValid

\* It reads nothing from a frame of which the wire has changed any bits of one
\* byte, the checksum's byte included.
LEMMA DamagedFrameIsNotRead ==
  ASSUME NEW f \in Frames, NEW rx \in Damages(FrameBytes(f))
  PROVE  spi_master_read_sensor(rx) = NotFound
<1> DEFINE s == FrameBytes(f)
           n == 7
<1>1. /\ s \in Seq(Bytes) /\ Len(s) = n + 1 /\ n \in Nat
      /\ s[n + 1] = compute_crc(Content(f)) /\ \A k \in 1..n : s[k] = Content(f)[k]
      /\ Content(f) \in Seq(Bytes) /\ Len(Content(f)) = n
  BY FrameLayout
<1>2. PICK i \in DOMAIN s, mask \in 1..255 : rx = [s EXCEPT ![i] = Xor(s[i], mask)]
  BY DEF Damages
<1>3. spi_master_read_sensor(rx) =
        IF rx[n + 1] = compute_crc(SubSeq(rx, 1, n)) THEN ReadAngle(rx) ELSE NotFound
  BY DEF spi_master_read_sensor
<1> HIDE DEF s, n
<1>4. mask \in Bytes /\ mask # 0 /\ 0 \in Bytes
  BY DEF Bytes
<1>5. i \in 1..(n + 1) /\ s[i] \in Bytes
  BY <1>1, <1>2
<1> DEFINE b == s[i]
<1>6. Xor(b, mask) \in Bytes /\ Xor(b, mask) # b
  <2>1. b \in Bytes
    BY <1>5
  <2> HIDE DEF b
  <2>2. Xor(b, 0) = b /\ Xor(b, mask) \in Bytes
    BY <1>4, <2>1, XorByte, XorZero
  <2>3. Xor(b, mask) = Xor(b, 0) => mask = 0
    BY <1>4, <2>1, XorInjective
  <2> QED BY <1>4, <2>2, <2>3
<1>7. /\ rx \in Seq(Bytes) /\ Len(rx) = n + 1 /\ rx[i] # s[i]
      /\ \A k \in 1..(n + 1) : k # i => rx[k] = s[k]
  BY <1>1, <1>2, <1>5, <1>6
<1> DEFINE c == SubSeq(rx, 1, n)
<1>8. c \in Seq(Bytes) /\ Len(c) = n /\ \A k \in 1..n : c[k] = rx[k]
  BY <1>1, <1>7
<1> HIDE DEF c
<1>9. \A k \in 1..n : k \in 1..(n + 1) /\ k # n + 1
  BY <1>1
<1>10. rx[n + 1] # compute_crc(c)
  <2>1. CASE i = n + 1
    <3>1. \A k \in 1..n : c[k] = Content(f)[k]
      BY <1>1, <1>7, <1>8, <1>9, <2>1
    <3>2. c = Content(f)
      BY <1>1, <1>8, <3>1
    <3> QED BY <1>1, <1>7, <2>1, <3>2
  <2>2. CASE i # n + 1
    <3>1. i \in 1..n /\ rx[n + 1] = s[n + 1]
      BY <1>1, <1>5, <1>7, <2>2
    <3>2. c[i] # Content(f)[i] /\ \A k \in 1..n : k # i => c[k] = Content(f)[k]
      BY <1>1, <1>7, <1>8, <1>9, <3>1
    <3>3. compute_crc(c) # compute_crc(Content(f))
      BY <1>1, <1>8, <3>1, <3>2, OneByteChangesCrc
    <3> QED BY <1>1, <3>1, <3>3
  <2> QED BY <2>1, <2>2
<1> QED BY <1>3, <1>10 DEF c
-----------------------------------------------------------------------------
(* The connection.                                                         *)

\* Before a connection is made nothing is open or allocated, and while it is
\* made the structure names what NetworkConnect has made so far.
Phases ==
  /\ pc \in {"start", "connect"} => fd # "open" /\ contexts # "live"
  /\ pc = "tcp" => fd = "closed"

\* Only between MQTTConnect and MQTTDisconnect does a client count as
\* connected, and in between nothing is released.
ConnectedInUse == isconnected => pc \in {"use", "leave"}

LinkInv == LinkTypeOK /\ OneLink /\ Phases /\ ConnectedInUse /\ ConnectedMeansOpen

\* NetworkDisconnect leaves nothing open or allocated that the structure named.
LEMMA DisconnectReleases ==
  ASSUME LinkTypeOK, OneLink, NetworkDisconnect
  PROVE  /\ fd' = "closed" /\ contexts' = "freed"
         /\ sockets' = 0 /\ allocated' = 0
         /\ broken' = FALSE /\ ssl' = ssl /\ exhausted' = exhausted
  BY DEF NetworkDisconnect, LinkTypeOK, OneLink

\* The invariant holds before the first connection.
LEMMA LinkInvInit == LinkInit => LinkInv
<1> SUFFICES ASSUME LinkInit PROVE LinkInv
  OBVIOUS
<1> USE DEF LinkInit
<1>1. attempts \in 0..ConnectRetries
  BY NetworkLinkAssumption
<1>2. LinkTypeOK
  BY <1>1 DEF LinkTypeOK
<1>3. OneLink /\ Phases /\ ConnectedInUse /\ ConnectedMeansOpen
  BY DEF OneLink, Phases, ConnectedInUse, ConnectedMeansOpen
<1> QED
  BY <1>2, <1>3 DEF LinkInv

\* Every step of the task, of the network and of a restart keeps it.
LEMMA LinkInvNext == LinkInv /\ [LinkNext]_linkVars => LinkInv'
<1> SUFFICES ASSUME LinkInv, [LinkNext]_linkVars PROVE LinkInv'
  OBVIOUS
<1> USE NetworkLinkAssumption
    DEF LinkInv, LinkTypeOK, OneLink, Phases, ConnectedInUse, ConnectedMeansOpen
<1>1. CASE NetworkInit
  <2>1. attempts' \in 0..ConnectRetries
    BY <1>1 DEF NetworkInit
  <2> QED BY <1>1, <2>1 DEF NetworkInit, netVars
<1>2. CASE SetsUp
  BY <1>2 DEF SetsUp
<1>3. CASE SetupFails
  BY <1>3 DEF SetupFails
<1>4. CASE SetupAborts
  <2>1. attempts' \in 0..ConnectRetries
    BY <1>4 DEF SetupAborts
  <2> QED BY <1>4, <2>1 DEF SetupAborts
<1>5. CASE TcpConnects
  BY <1>5 DEF TcpConnects
<1>6. CASE TcpFails
  BY <1>6 DEF TcpFails, netVars
<1>7. CASE HandshakeSucceeds
  BY <1>7 DEF HandshakeSucceeds
<1>8. CASE HandshakeFails
  BY <1>8 DEF HandshakeFails, netVars
<1>9. CASE ConnectFails
  <2>1. /\ fd' = "closed" /\ contexts' = "freed" /\ sockets' = 0 /\ allocated' = 0
        /\ broken' = FALSE /\ ssl' = ssl /\ exhausted' = exhausted
    BY <1>9, DisconnectReleases DEF ConnectFails
  <2>2. /\ pc' \in {"connect", "client"} /\ attempts' \in 0..ConnectRetries
        /\ user' = user /\ isconnected' = FALSE
    BY <1>9 DEF ConnectFails
  <2> QED BY <2>1, <2>2
<1>10. CASE ClientInits
  BY <1>10 DEF ClientInits, netVars
<1>11. CASE MqttConnects
  BY <1>11 DEF MqttConnects, Writes, netVars
<1>12. CASE MqttConnectFails
  BY <1>12 DEF MqttConnectFails, netVars
<1>13. CASE UseFails
  BY <1>13 DEF UseFails, netVars
<1>14. CASE MqttDisconnects
  BY <1>14 DEF MqttDisconnects, netVars
<1>15. CASE DropsLink
  <2>1. /\ fd' = "closed" /\ contexts' = "freed" /\ sockets' = 0 /\ allocated' = 0
        /\ broken' = FALSE /\ ssl' = ssl /\ exhausted' = exhausted
    BY <1>15, DisconnectReleases DEF DropsLink
  <2>2. /\ pc' = "start" /\ attempts' = attempts /\ user' = user
        /\ isconnected' = FALSE
    BY <1>15 DEF DropsLink
  <2> QED BY <2>1, <2>2
<1>16. CASE LinkBreaks
  BY <1>16 DEF LinkBreaks, netVars
<1>17. CASE UNCHANGED linkVars
  BY <1>17 DEF linkVars, netVars
<1> QED
  BY <1>1, <1>2, <1>3, <1>4, <1>5, <1>6, <1>7, <1>8, <1>9, <1>10, <1>11, <1>12,
     <1>13, <1>14, <1>15, <1>16, <1>17
  DEF LinkNext, LinkRuns

\* The inductive invariant holds in every reachable state.
THEOREM LinkInvariant == LinkSpec => []LinkInv
  BY LinkInvInit, LinkInvNext, PTL DEF LinkSpec

\* Whatever fails, is tried again or restarted, at most one socket is open and
\* one set of contexts allocated, and the structure names them.
THEOREM NothingLost == LinkSpec => []OneLink
  BY LinkInvariant, PTL DEF LinkInv

\* A client that counts as connected has an open socket, a finished handshake
\* and live contexts under it.
THEOREM ConnectedIsOpen == LinkSpec => []ConnectedMeansOpen
  BY LinkInvariant, PTL DEF LinkInv
-----------------------------------------------------------------------------
(* The task.                                                               *)

\* A value read with status ESP_OK is the one measured, and the last so far.
ReadIsMeasured ==
  ret = "ESP_OK" =>
    /\ at = "publish" => sensor_data = measured
    /\ at = "iterate" => node = measured
    /\ at \in {"publish", "iterate"} => /\ measured \in Value
                                        /\ lastMeasured = measured

\* The node has the last value measured, but for one that is still to be written.
NodeIsLast ==
  /\ variant # "opcua" => node = Unset
  /\ node \in {Unset, lastMeasured} \/ (at = "publish" /\ ret = "ESP_OK")

\* The loop of mqtt_esp_task reads the sensor only within its bound.
LoopInv == variant = "esp" /\ at = "read" => loop <= LoopLength

\* What a reading gives to the task: with status ESP_OK the value measured, and
\* with another one nothing that counts as measured.
Reading(status, value, valueMeasured) ==
  /\ status \in {"ESP_OK", "ESP_FAIL", "ESP_ERR_TIMEOUT", "ESP_ERR_NOT_FOUND"}
  /\ value \in Value \cup {Garbage, Untouched}
  /\ \/ status = "ESP_OK" /\ value = valueMeasured /\ valueMeasured \in Value
     \/ status # "ESP_OK" /\ valueMeasured = Nothing

\* Every way in which a reading can end is a Reading.
LEMMA ReadsAreReadings ==
  ASSUME ReadsSensor
  PROVE  \E status, value, valueMeasured :
           Reading(status, value, valueMeasured) /\ Reads(status, value, valueMeasured)
<1>1. CASE CommandFails
  BY <1>1 DEF CommandFails, Reading
<1>2. CASE ReadsFrame
  <2>1. PICK read \in WholeReads :
          Reads(read.result.ret, read.result.value,
                IF IsValid(read.frame) THEN read.frame.angle ELSE Nothing)
    BY <1>2 DEF ReadsFrame
  <2>2. PICK f \in Frames :
          read = [result |-> spi_master_read_sensor(FrameBytes(f)), frame |-> f]
    BY DEF WholeReads
  <2>3. /\ read.frame = f
        /\ read.result = IF IsValid(f) THEN [ret |-> "ESP_OK", value |-> f.angle] ELSE NotFound
    BY <2>2, WholeFrameIsRead
  <2>4. f.angle \in Value
    BY FrameFields DEF Value
  <2>5. CASE IsValid(f)
    <3>1. Reads("ESP_OK", f.angle, f.angle)
      BY <2>1, <2>3, <2>5
    <3> QED BY <2>4, <3>1 DEF Reading
  <2>6. CASE ~IsValid(f)
    <3>1. Reads("ESP_ERR_NOT_FOUND", Untouched, Nothing)
      BY <2>1, <2>3, <2>6 DEF NotFound
    <3> QED BY <3>1 DEF Reading
  <2> QED BY <2>5, <2>6
<1>3. CASE ReadsDamagedFrame
  <2>1. PICK result \in DamagedReads : Reads(result.ret, result.value, Nothing)
    BY <1>3 DEF ReadsDamagedFrame
  <2>2. PICK f \in Frames : \E rx \in Damages(FrameBytes(f)) :
          result = spi_master_read_sensor(rx)
    BY DEF DamagedReads
  <2>3. Reads("ESP_ERR_NOT_FOUND", Untouched, Nothing)
    BY <2>1, <2>2, DamagedFrameIsNotRead DEF NotFound
  <2> QED BY <2>3 DEF Reading
<1>4. CASE SecondCommandFails
  BY <1>4 DEF SecondCommandFails, Reading
<1>5. CASE ReadsDistance
  BY <1>5 DEF ReadsDistance, Reading, Value
<1> QED BY <1>1, <1>2, <1>3, <1>4, <1>5 DEF ReadsSensor

\* A step of the task leaves the connection alone, and a step of the connection
\* the task.
LEMMA TaskOrLink ==
  ASSUME [Next]_vars
  PROVE  \/ SensorRuns /\ UNCHANGED linkVars
         \/ LinkNext /\ UNCHANGED sensorVars
         \/ UNCHANGED <<linkVars, sensorVars>>
<1>1. ASSUME SensorRuns PROVE UNCHANGED linkVars
  BY <1>1 DEF SensorRuns, ReadsSensor, CommandFails, ReadsFrame, ReadsDamagedFrame,
              SecondCommandFails, ReadsDistance, Reads, MbedtlsPublishes, EspStartsClient,
              EspTakes, EspTakeTimesOut, EspSendsOnline, EspPublishes, OpcUaSetsUp,
              TaskStarts, SetupFailsRestarts, OpcUaUpdates, OpcUaIterates, IterationEnds
<1> QED BY <1>1 DEF Next, LinkSteps, vars

\* The task's part of the types.
TaskTypeOK ==
  /\ at \in {"setup", "take", "read", "publish", "iterate", "sent", "off"}
  /\ added \in 0..(IF driver = "prsb25" THEN SpiDevices ELSE 1)
  /\ ret \in {"ESP_OK", "ESP_FAIL", "ESP_ERR_TIMEOUT", "ESP_ERR_NOT_FOUND"}
  /\ sensor_data \in Value \cup {Garbage}
  /\ connected \in BOOLEAN /\ loop \in 1..(LoopLength + 1)
  /\ node \in Value \cup {Unset}
  /\ measured \in Value \cup {Nothing} /\ lastMeasured \in Value \cup {Nothing}
  /\ published \in Value \cup {Nothing}

SensorInv == TaskTypeOK /\ ReadIsMeasured /\ NodeIsLast /\ LoopInv

\* The marks are no values.
LEMMA MarksAreNoValues ==
  Nothing \notin Value /\ Garbage \notin Value /\ Unset \notin Value /\ Untouched \notin Value
  BY SensorTaskAssumption, UntouchedAssumption DEF Value

\* The task starts with nothing measured and nothing published.
LEMMA SensorInvInit == Init => SensorInv
<1> SUFFICES ASSUME Init PROVE SensorInv
  OBVIOUS
<1>1. 1 \in 1..(LoopLength + 1) /\ 1 <= LoopLength
  BY SensorTaskAssumption
<1>2. TaskTypeOK
  <2>1. added \in 0..(IF driver = "prsb25" THEN SpiDevices ELSE 1)
    BY SensorTaskAssumption DEF Init
  <2> QED BY <1>1, <2>1 DEF Init, TaskTypeOK
<1> QED BY <1>1, <1>2 DEF Init, SensorInv, ReadIsMeasured, NodeIsLast, LoopInv

\* A reading that ends keeps the invariant.
LEMMA ReadingKeepsSensorInv ==
  ASSUME SensorInv, variant # "bridge", NEW status, NEW value, NEW valueMeasured,
         Reading(status, value, valueMeasured), Reads(status, value, valueMeasured)
  PROVE  SensorInv'
<1>1. /\ at = "read" /\ at' = "publish" /\ ret' = status /\ measured' = valueMeasured
      /\ variant' = variant /\ connected' = connected /\ node' = node
      /\ published' = published /\ driver' = driver /\ added' = added
      /\ lastMeasured' = IF valueMeasured = Nothing THEN lastMeasured ELSE valueMeasured
  BY DEF Reads
<1>2. loop' \in 1..(LoopLength + 1)
  <2>1. loop' = loop \/ (loop' = loop + 1 /\ loop <= LoopLength)
    BY DEF Reads, SensorInv, LoopInv
  <2> QED BY <2>1, SensorTaskAssumption DEF SensorInv, TaskTypeOK
<1>3. /\ sensor_data' \in Value \cup {Garbage}
      /\ value \in Value => sensor_data' = value
  <2>1. sensor_data' = IF value # Untouched THEN value
                       ELSE IF variant = "opcua" THEN Garbage ELSE sensor_data
    BY DEF Reads
  <2>2. value \in Value \cup {Garbage, Untouched} /\ sensor_data \in Value \cup {Garbage}
    BY DEF Reading, SensorInv, TaskTypeOK
  <2> QED BY <2>1, <2>2, MarksAreNoValues
<1>4. valueMeasured \in Value \cup {Nothing}
  BY DEF Reading
<1>5. TaskTypeOK'
  BY <1>1, <1>2, <1>3, <1>4 DEF Reading, SensorInv, TaskTypeOK
<1>6. status = "ESP_OK" => /\ value = valueMeasured /\ valueMeasured \in Value
                           /\ lastMeasured' = valueMeasured
  BY <1>1, MarksAreNoValues DEF Reading
<1>7. status # "ESP_OK" => lastMeasured' = lastMeasured
  BY <1>1 DEF Reading
<1>8. ReadIsMeasured'
  BY <1>1, <1>3, <1>6 DEF ReadIsMeasured
<1>9. NodeIsLast'
  BY <1>1, <1>7 DEF SensorInv, NodeIsLast
<1>10. LoopInv'
  BY <1>1 DEF LoopInv
<1> QED BY <1>5, <1>8, <1>9, <1>10 DEF SensorInv

\* A bus that can be configured once more has room for it.
LEMMA ConfiguresOnce ==
  ASSUME SensorInv, CanConfigure, added' = added + 1, driver' = driver
  PROVE  added' \in 0..(IF driver' = "prsb25" THEN SpiDevices ELSE 1)
BY SensorTaskAssumption DEF SensorInv, TaskTypeOK, CanConfigure

\* Every other step of the task keeps it.
LEMMA TaskKeepsSensorInv ==
  ASSUME SensorInv, SensorRuns
  PROVE  SensorInv'
<1> USE DEF SensorInv, TaskTypeOK, ReadIsMeasured, NodeIsLast, LoopInv
<1>1. CASE ReadsSensor
  <2>1. PICK status, value, valueMeasured :
          Reading(status, value, valueMeasured) /\ Reads(status, value, valueMeasured)
    BY <1>1, ReadsAreReadings
  <2> QED BY <2>1, ReadingKeepsSensorInv DEF SensorRuns
<1>2. CASE MbedtlsPublishes
  <2>1. \/ published' = published
        \/ published' = sensor_data /\ ret = "ESP_OK"
    BY <1>2 DEF MbedtlsPublishes
  <2>2. published' \in Value \cup {Nothing}
    BY <1>2, <2>1 DEF MbedtlsPublishes
  <2> QED BY <1>2, <2>2 DEF MbedtlsPublishes, taskVars
<1>3. CASE EspStartsClient
  BY <1>3, ConfiguresOnce DEF EspStartsClient
<1>4. CASE EspTakes
  <2>1. 1 \in 1..(LoopLength + 1) /\ 1 <= LoopLength
    BY SensorTaskAssumption
  <2> QED BY <1>4, <2>1 DEF EspTakes
<1>5. CASE EspTakeTimesOut
  BY <1>5 DEF EspTakeTimesOut, taskVars
<1>6. CASE EspSendsOnline
  BY <1>6 DEF EspSendsOnline
<1>7. CASE EspPublishes
  <2>1. published' \in Value \cup {Nothing} /\ connected' \in BOOLEAN
    BY <1>7 DEF EspPublishes
  <2>2. at' \in {"sent", EspEndOfLoop}
    BY <1>7 DEF EspPublishes
  <2> QED BY <1>7, <2>1, <2>2 DEF EspPublishes, EspEndOfLoop
<1>8. CASE OpcUaSetsUp
  BY <1>8, ConfiguresOnce DEF OpcUaSetsUp
<1>9. CASE TaskStarts
  BY <1>9 DEF TaskStarts, taskVars
<1>13. CASE SetupFailsRestarts
  <2>1. /\ 1 \in 1..(LoopLength + 1)
        /\ 0 \in 0..(IF driver = "prsb25" THEN SpiDevices ELSE 1)
    BY SensorTaskAssumption
  <2> QED BY <1>13, <2>1 DEF SetupFailsRestarts
<1>10. CASE OpcUaUpdates
  BY <1>10 DEF OpcUaUpdates
<1>11. CASE OpcUaIterates
  BY <1>11 DEF OpcUaIterates, taskVars
<1>12. CASE IterationEnds
  BY <1>12 DEF IterationEnds, EspEndOfLoop, taskVars
<1> QED BY <1>1, <1>2, <1>3, <1>4, <1>5, <1>6, <1>7, <1>8, <1>9, <1>10, <1>11, <1>12,
           <1>13
        DEF SensorRuns

\* So does every step of the connection, and with it every step.
LEMMA SensorInvNext == SensorInv /\ [Next]_vars => SensorInv'
<1> SUFFICES ASSUME SensorInv, [Next]_vars PROVE SensorInv'
  OBVIOUS
<1>1. ASSUME UNCHANGED sensorVars PROVE SensorInv'
  BY <1>1 DEF SensorInv, TaskTypeOK, ReadIsMeasured, NodeIsLast, LoopInv, sensorVars, taskVars
<1> QED BY <1>1, TaskOrLink, TaskKeepsSensorInv

\* The invariant of the task holds in every reachable state.
THEOREM SensorInvariant == Spec => []SensorInv
  BY SensorInvInit, SensorInvNext, PTL DEF Spec

\* Composed with the task, the connection is what it is by itself.
THEOREM TaskKeepsLink == Spec => LinkSpec
<1>1. Init => LinkInit
  BY DEF Init
<1>2. [Next]_vars => [LinkNext]_linkVars
  BY TaskOrLink
<1> QED BY <1>1, <1>2, PTL DEF Spec, LinkSpec

\* The types are kept by connection and task, for any number of retries and of
\* iterations on one client, and any values of the sensors.
THEOREM TypeCorrect == Spec => []TypeOK
<1>1. LinkInv /\ SensorInv => TypeOK
  BY DEF LinkInv, SensorInv, TaskTypeOK, TypeOK
<1> QED BY <1>1, SensorInvariant, TaskKeepsLink, LinkInvariant, PTL

\* Whatever the bus does to one byte of a frame, and whenever a command to the
\* sensor fails, each of the three tasks publishes only what the sensor has
\* measured, and the last value measured each time.
THEOREM PublishesMeasured == Spec => PublishedIsMeasured
<1> DEFINE Measured == /\ published' # published => published' = lastMeasured
                       /\ at # "sent" /\ at' = "sent" => published' = measured
<1>1. SensorInv /\ [Next]_vars => [Measured]_vars
  <2> SUFFICES ASSUME SensorInv, SensorRuns PROVE Measured
    BY TaskOrLink DEF sensorVars, vars
  <2> USE DEF SensorInv, TaskTypeOK, ReadIsMeasured, NodeIsLast
  <2>1. CASE ReadsSensor
    BY <2>1, ReadsAreReadings DEF Reads
  <2>2. CASE MbedtlsPublishes
    BY <2>2 DEF MbedtlsPublishes
  <2>3. CASE EspPublishes
    <3>1. EspEndOfLoop # "sent"
      BY DEF EspEndOfLoop
    <3> QED BY <2>3, <3>1 DEF EspPublishes
  <2>4. CASE OpcUaIterates
    BY <2>4, MarksAreNoValues DEF OpcUaIterates
  <2>5. CASE \/ EspStartsClient \/ EspTakes \/ EspTakeTimesOut \/ EspSendsOnline
             \/ OpcUaSetsUp \/ TaskStarts \/ SetupFailsRestarts \/ OpcUaUpdates \/ IterationEnds
    BY <2>5 DEF EspStartsClient, EspTakes, EspTakeTimesOut, EspSendsOnline, OpcUaSetsUp,
                TaskStarts, SetupFailsRestarts, OpcUaUpdates, IterationEnds
  <2> QED BY <2>1, <2>2, <2>3, <2>4, <2>5 DEF SensorRuns
<1> QED BY <1>1, SensorInvariant, PTL DEF Spec, PublishedIsMeasured

\* In the composition, too, nothing is lost and a connected client is connected.
THEOREM LinkKeepsPromises == Spec => [](OneLink /\ ConnectedMeansOpen)
  BY TaskKeepsLink, NothingLost, ConnectedIsOpen, PTL
=============================================================================
