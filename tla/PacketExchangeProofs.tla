------------------------ MODULE PacketExchangeProofs ------------------------
(***************************************************************************)
(* Theorems about the packet library and the exchange of packets, for      *)
(* every base of the length field, all requests and all buffers.           *)
(*                                                                         *)
(* A packet is a header, its remaining length and a rest (PacketOf).  For  *)
(* each kind of packet the lemmas say what header and rest the library     *)
(* writes, and what it reads from a buffer that begins with them, whatever *)
(* follows (Contains).  The inductive invariant, IInv, says which packet   *)
(* is in the buffer at each place of the exchange.                         *)
(***************************************************************************)
EXTENDS PacketExchange, FiniteSetTheorems, SequenceTheorems, TLAPS

\* Every set of natural numbers has a least one, because the intervals 1..n are
\* well-founded under inclusion.
LEMMA Least ==
  ASSUME NEW T, T \subseteq Nat, T # {}
  PROVE  \E x \in T : \A y \in T : x <= y
<1> DEFINE I == {1..n : n \in T}
<1>1. \A n \in Nat : 1..n \in FiniteSubsetsOf(Nat)
  BY FS_Interval DEF FiniteSubsetsOf
<1>2. PICK J \in I : \A K \in I : ~(<<K, J>> \in StrictSubsetOrdering(Nat))
  <2>1. IsWellFoundedOn(StrictSubsetOrdering(Nat), FiniteSubsetsOf(Nat))
    BY FS_StrictSubsetOrderingWellFounded
  <2>2. I # {} /\ I \subseteq FiniteSubsetsOf(Nat)
    BY <1>1
  <2> QED BY <2>1, <2>2, WFMin
<1>3. PICK n \in T : J = 1..n
  OBVIOUS
<1>4. \A m \in T : ~(1..m \subseteq 1..n /\ 1..m # 1..n)
  <2> TAKE m \in T
  <2>1. <<1..m, 1..n>> \notin StrictSubsetOrdering(Nat)
    BY <1>2, <1>3
  <2>2. 1..m \in SUBSET Nat /\ 1..n \in SUBSET Nat
    OBVIOUS
  <2> QED BY <2>1, <2>2 DEF StrictSubsetOrdering
<1>5. \A m \in T : n <= m
  <2> SUFFICES ASSUME NEW m \in T, m < n PROVE FALSE
    OBVIOUS
  <2>1. 1..m \subseteq 1..n
    OBVIOUS
  <2>2. n \in 1..n /\ n \notin 1..m
    OBVIOUS
  <2> QED BY <1>4, <2>1, <2>2
<1> QED BY <1>5

\* Induction from 0 to n, over what is stated as a set of numbers.
LEMMA Induction ==
  ASSUME NEW n \in Nat, NEW T, 0 \in T, \A i \in 1..n : i - 1 \in T => i \in T
  PROVE  0..n \subseteq T
<1> SUFFICES ASSUME (0..n) \ T # {} PROVE FALSE
  OBVIOUS
<1>1. PICK m \in (0..n) \ T : \A k \in (0..n) \ T : m <= k
  <2>1. (0..n) \ T \subseteq Nat
    OBVIOUS
  <2> QED BY <2>1, Least
<1>2. m # 0 /\ m \in 1..n
  BY <1>1
<1>3. m - 1 \in T
  BY <1>1, <1>2
<1> QED BY <1>1, <1>2, <1>3

\* g begins with x, and step leads from each of its values to the next.
Iterates(g, x, n, step) == g[0] = x /\ \A i \in 1..n : g[i] = step[i][g[i - 1]]

\* A function on 0..n that is defined from its value before has a solution.
LEMMA Recursion ==
  ASSUME NEW S, NEW x \in S, NEW n \in Nat, NEW step \in [1..n -> [S -> S]]
  PROVE  \E g \in [0..n -> S] : Iterates(g, x, n, step)
<1> DEFINE Good(g, m) == g[0] = x /\ \A i \in 1..m : g[i] = step[i][g[i - 1]]
           Solved == {m \in 0..n : \E g \in [0..n -> S] : Good(g, m)}
<1>1. 0 \in Solved
  <2> DEFINE g == [i \in 0..n |-> x]
  <2>1. g \in [0..n -> S] /\ g[0] = x /\ 0 \in 0..n
    OBVIOUS
  <2>2. \A i \in 1..0 : FALSE
    OBVIOUS
  <2> HIDE DEF g
  <2> QED BY <2>1, <2>2
<1>2. ASSUME NEW m \in 1..n, m - 1 \in Solved
      PROVE  m \in Solved
  <2>1. PICK g \in [0..n -> S] : Good(g, m - 1)
    BY <1>2
  <2> DEFINE h == [g EXCEPT ![m] = step[m][g[m - 1]]]
  <2>2. m \in 0..n /\ m - 1 \in 0..n /\ m # m - 1 /\ m # 0 /\ 0 \in 0..n
    OBVIOUS
  <2>3. step[m][g[m - 1]] \in S
    BY <2>2
  <2>4. h \in [0..n -> S]
    BY <2>3
  <2>5. h[m] = step[m][g[m - 1]] /\ \A i \in 0..n : i # m => h[i] = g[i]
    BY <2>2
  <2> HIDE DEF h
  <2>6. h[0] = x /\ h[m] = step[m][h[m - 1]]
    BY <2>1, <2>2, <2>5
  <2>7. ASSUME NEW i \in 1..m, i # m PROVE h[i] = step[i][h[i - 1]]
    <3>1. i \in 1..(m - 1) /\ i \in 0..n /\ i - 1 \in 0..n /\ i - 1 # m
      BY <2>7
    <3> QED BY <2>1, <2>5, <2>7, <3>1
  <2>8. Good(h, m)
    BY <2>6, <2>7
  <2> HIDE DEF Good
  <2> QED BY <2>2, <2>4, <2>8
<1> HIDE DEF Solved
<1>3. n \in Solved
  <2>1. 0..n \subseteq Solved
    BY <1>1, <1>2, Induction
  <2> QED BY <2>1
<1>4. PICK g \in [0..n -> S] : Good(g, n)
  BY <1>3 DEF Solved
<1> QED BY <1>4 DEF Iterates
-----------------------------------------------------------------------------
(* Arithmetic.                                                             *)

\* The base, its powers, and the base of numbers of two bytes.
R2 == Radix * Radix
R3 == Radix * Radix * Radix
R4 == Radix * Radix * Radix * Radix
Base2 == Byte * Byte

\* The types of all of them.
LEMMA Radices ==
  /\ Radix \in Nat /\ Radix > 1 /\ Byte \in Nat /\ Byte = 2 * Radix /\ Byte > 1
  /\ R2 \in Nat /\ R3 \in Nat /\ R4 \in Nat /\ Base2 \in Nat
  /\ R2 = Radix * Radix /\ R3 = R2 * Radix /\ R4 = R3 * Radix /\ Base2 = Byte * Byte
  /\ Radix < R2 /\ R2 < R3 /\ R3 < R4
<1>1. Radix \in Nat /\ Radix > 1 /\ Byte \in Nat /\ Byte = 2 * Radix /\ Byte > 1
  BY RadixAssumption DEF Byte
<1>2. R2 = Radix * Radix /\ R3 = R2 * Radix /\ R4 = R3 * Radix /\ Base2 = Byte * Byte
  BY DEF R2, R3, R4, Base2
<1>3. \A a \in Nat : a > 0 => a * Radix \in Nat /\ a < a * Radix
  <2> TAKE a \in Nat
  <2>1. a * Radix \in Nat
    BY <1>1
  <2>2. a > 0 => a * Radix >= a * 2
    BY <1>1
  <2> QED BY <2>1, <2>2
<1>4. Base2 \in Nat
  BY <1>1, <1>2
<1> QED BY <1>1, <1>2, <1>3, <1>4

\* Quotient and remainder.
LEMMA Division ==
  ASSUME NEW a \in Nat, NEW b \in Nat, b > 0
  PROVE  /\ a \div b \in Nat /\ a % b \in Nat /\ a % b < b
         /\ a = (a \div b) * b + (a % b)
OBVIOUS

\* A quotient below the other factor.
LEMMA SmallQuotient ==
  ASSUME NEW a \in Nat, NEW b \in Nat, NEW c \in Nat, b > 0, a < c * b
  PROVE  a \div b < c
<1> DEFINE q == a \div b
<1>1. q \in Nat /\ q * b <= a
  BY Division
<1> HIDE DEF q
<1>2. ASSUME q >= c PROVE FALSE
  <2>1. q * b >= c * b
    BY <1>1, <1>2
  <2>2. q * b \in Nat /\ c * b \in Nat
    BY <1>1
  <2> QED BY <1>1, <2>1, <2>2
<1>3. q < c
  BY <1>1, <1>2
<1> QED BY <1>3 DEF q

\* What division by b > 1 leaves is smaller.
LEMMA Decreases ==
  ASSUME NEW a \in Nat, NEW b \in Nat, b > 1, a >= b
  PROVE  a \div b \in 1..(a - 1)
<1> DEFINE q == a \div b
           r == a % b
<1>1. q \in Nat /\ r \in Nat /\ r < b /\ a = q * b + r
  BY Division
<1> HIDE DEF q, r
<1>2. q # 0
  BY <1>1
<1>3. q * b >= q * 2
  BY <1>1
<1>4. q \in 1..(a - 1)
  BY <1>1, <1>2, <1>3
<1> QED BY <1>4 DEF q

\* Quotient and remainder are unique.
LEMMA Divided ==
  ASSUME NEW q \in Nat, NEW b \in Nat, NEW r \in Nat, r < b
  PROVE  (q * b + r) \div b = q /\ (q * b + r) % b = r
<1> DEFINE a == q * b + r
<1>1. a \in Nat /\ a = q * b + r
  OBVIOUS
<1> HIDE DEF a
<1>2. a \div b = q /\ a % b = r
  BY <1>1
<1> QED BY <1>2 DEF a
-----------------------------------------------------------------------------
(* The remaining length.                                                   *)

\* g has the digits of the numbers up to N, as MQTTPacket_encode defines them.
IsDigits(g, N) ==
  g = [n \in 0..N |-> IF n < Radix THEN <<n>>
                      ELSE <<Radix + (n % Radix)>> \o g[n \div Radix]]

\* There are such functions.
LEMMA DigitsExist ==
  ASSUME NEW N \in Nat
  PROVE  \E g : IsDigits(g, N)
<1> DEFINE Solved == {m \in 0..N : \E g : IsDigits(g, m)}
<1>1. Radix \in Nat /\ Radix > 1
  BY Radices
<1>2. 0 \in Solved
  <2> DEFINE g == [n \in 0..0 |-> <<0>>]
  <2>1. g = [n \in 0..0 |-> IF n < Radix THEN <<n>>
                            ELSE <<Radix + (n % Radix)>> \o g[n \div Radix]]
    BY <1>1
  <2> HIDE DEF g
  <2>2. IsDigits(g, 0)
    BY <2>1 DEF IsDigits
  <2> QED BY <2>2
<1>3. ASSUME NEW m \in 1..N, m - 1 \in Solved
      PROVE  m \in Solved
  <2>1. PICK g : IsDigits(g, m - 1)
    BY <1>3
  <2> DEFINE Step(f, n) == IF n < Radix THEN <<n>>
                           ELSE <<Radix + (n % Radix)>> \o f[n \div Radix]
             h == [n \in 0..m |-> IF n = m THEN Step(g, m) ELSE g[n]]
  <2>2. \A n \in 0..(m - 1) : g[n] = Step(g, n)
    BY <2>1 DEF IsDigits
  <2>3. h[m] = Step(g, m) /\ \A n \in 0..(m - 1) : h[n] = g[n]
    <3>1. m \in 0..m /\ \A n \in 0..(m - 1) : n \in 0..m /\ n # m
      OBVIOUS
    <3> HIDE DEF Step
    <3> QED BY <3>1
  <2>4. h = [n \in 0..m |-> h[n]]
    OBVIOUS
  <2> HIDE DEF h
  <2>5. ASSUME NEW n \in 0..m PROVE h[n] = Step(h, n)
    <3>1. CASE n < Radix
      <4>1. Step(g, n) = <<n>> /\ Step(h, n) = <<n>>
        BY <3>1
      <4> HIDE DEF Step
      <4> QED BY <2>2, <2>3, <4>1
    <3>2. CASE n >= Radix
      <4>1. n \div Radix \in 1..(n - 1)
        <5>1. n \in Nat
          OBVIOUS
        <5> QED BY <1>1, <3>2, <5>1, Decreases
      <4>2. n \div Radix \in 0..(m - 1)
        BY <4>1
      <4>3. h[n \div Radix] = g[n \div Radix]
        BY <2>3, <4>2
      <4>4. Step(h, n) = Step(g, n)
        BY <4>3
      <4>5. n = m \/ n \in 0..(m - 1)
        OBVIOUS
      <4> HIDE DEF Step
      <4> QED BY <2>2, <2>3, <4>4, <4>5
    <3> QED BY <1>1, <3>1, <3>2
  <2>6. IsDigits(h, m)
    <3>1. h = [n \in 0..m |-> Step(h, n)]
      <4> HIDE DEF Step
      <4> QED BY <2>4, <2>5
    <3> QED BY <3>1 DEF IsDigits
  <2>7. m \in 0..N
    OBVIOUS
  <2> QED BY <2>6, <2>7
<1> HIDE DEF Solved
<1>4. 0..N \subseteq Solved
  BY <1>2, <1>3, Induction
<1> QED BY <1>4 DEF Solved

\* They agree with each other.
LEMMA DigitsAgree ==
  ASSUME NEW N \in Nat, NEW M \in Nat, NEW g, NEW h, IsDigits(g, N), IsDigits(h, M), M <= N
  PROVE  \A n \in 0..M : g[n] = h[n]
<1> DEFINE T == {k \in 0..M : \A n \in 0..k : g[n] = h[n]}
<1>1. Radix \in Nat /\ Radix > 1
  BY Radices
<1>2. \A n \in 0..M : n \in 0..N
  OBVIOUS
<1>3. \A n \in 0..M : /\ n < Radix => g[n] = h[n]
                      /\ n >= Radix /\ g[n \div Radix] = h[n \div Radix] => g[n] = h[n]
  BY <1>1, <1>2 DEF IsDigits
<1>4. 0 \in T
  BY <1>1, <1>3
<1>5. ASSUME NEW k \in 1..M, k - 1 \in T PROVE k \in T
  <2>1. \A n \in 0..(k - 1) : g[n] = h[n]
    BY <1>5
  <2>2. k \in 0..M
    OBVIOUS
  <2>3. k >= Radix => k \div Radix \in 0..(k - 1)
    <3>1. k >= Radix => k \div Radix \in 1..(k - 1)
      <4>1. k \in Nat
        OBVIOUS
      <4> QED BY <1>1, <4>1, Decreases
    <3> QED BY <3>1
  <2>4. g[k] = h[k]
    BY <1>1, <1>3, <2>1, <2>2, <2>3
  <2>5. \A n \in 0..k : n = k \/ n \in 0..(k - 1)
    OBVIOUS
  <2> QED BY <2>1, <2>2, <2>4, <2>5
<1> HIDE DEF T
<1>6. 0..M \subseteq T
  BY <1>4, <1>5, Induction
<1>7. M \in T
  BY <1>6
<1> QED BY <1>7 DEF T

\* What MQTTPacket_encode writes of a length, digit by digit.
LEMMA EncodeUnfolds ==
  ASSUME NEW n \in Nat
  PROVE  MQTTPacket_encode(n) =
           IF n < Radix THEN <<n>>
           ELSE <<Radix + (n % Radix)>> \o MQTTPacket_encode(n \div Radix)
<1> DEFINE Digits(m) == CHOOSE g : IsDigits(g, m)
<1>1. \A m \in Nat : IsDigits(Digits(m), m)
  BY DigitsExist
<1>2. \A m \in Nat : MQTTPacket_encode(m) = Digits(m)[m]
  BY DEF MQTTPacket_encode, IsDigits
<1> HIDE DEF Digits
<1>3. Radix \in Nat /\ Radix > 1
  BY Radices
<1>4. Digits(n)[n] = IF n < Radix THEN <<n>>
                     ELSE <<Radix + (n % Radix)>> \o Digits(n)[n \div Radix]
  <2>1. IsDigits(Digits(n), n) /\ n \in 0..n
    BY <1>1
  <2> QED BY <2>1 DEF IsDigits
<1>5. CASE n < Radix
  BY <1>2, <1>4, <1>5
<1>6. CASE n >= Radix
  <2> DEFINE m == n \div Radix
  <2>1. m \in 1..(n - 1)
    BY <1>3, <1>6, Decreases
  <2> HIDE DEF m
  <2>2. m \in Nat /\ m <= n /\ m \in 0..m
    BY <2>1
  <2>3. Digits(n)[m] = Digits(m)[m]
    BY <1>1, <2>2, DigitsAgree
  <2> QED BY <1>2, <1>3, <1>4, <1>6, <2>2, <2>3 DEF m
<1> QED BY <1>3, <1>5, <1>6

\* Digit i of the sequence e, and what makes a sequence one of digits: the top
\* bit is set on all but the last.
D(e, i) == IF i <= Len(e) THEN e[i] % Radix ELSE 0
Spelled(e) ==
  /\ e \in Seq(Nat) /\ Len(e) >= 1
  /\ \A i \in 1..Len(e) : e[i] < Radix <=> i = Len(e)

\* One digit.
LEMMA OneDigit ==
  ASSUME NEW n \in Nat, n < Radix
  PROVE  /\ Spelled(<<n>>) /\ Len(<<n>>) = 1
         /\ D(<<n>>, 1) = n /\ \A i \in Nat : i > 1 => D(<<n>>, i) = 0
<1>1. Radix \in Nat /\ Radix > 1
  BY Radices
<1>2. n % Radix = n
  BY <1>1
<1> DEFINE e == <<n>>
<1>3. e \in Seq(Nat) /\ Len(e) = 1 /\ e[1] = n
  OBVIOUS
<1> HIDE DEF e
<1>4. \A i \in 1..Len(e) : i = 1
  BY <1>3
<1>5. Spelled(e)
  BY <1>3, <1>4 DEF Spelled
<1>6. D(e, 1) = n /\ \A i \in Nat : i > 1 => D(e, i) = 0
  BY <1>2, <1>3 DEF D
<1> QED BY <1>3, <1>5, <1>6 DEF e

\* e has the digit d before those of f.
Longer(e, d, f) ==
  /\ Spelled(e) /\ Len(e) = Len(f) + 1
  /\ D(e, 1) = d /\ \A i \in Nat \ {0} : D(e, i + 1) = D(f, i)

\* One digit more.
LEMMA DigitBefore ==
  ASSUME NEW f, Spelled(f), NEW d \in Nat, d < Radix, NEW x, x = Radix + d,
         NEW e, e = <<x>> \o f
  PROVE  Longer(e, d, f)
<1>1. Radix \in Nat /\ Radix > 1
  BY Radices
<1>2. f \in Seq(Nat) /\ Len(f) >= 1 /\ Len(f) \in Nat
  BY DEF Spelled
<1>3. Radix + d \in Nat /\ Radix + d >= Radix
  BY <1>1
<1>4. (Radix + d) % Radix = d
  <2>1. (1 * Radix + d) % Radix = d
    BY <1>1, Divided
  <2>2. Radix + d = 1 * Radix + d
    BY <1>1
  <2> QED BY <2>1, <2>2
<1>5. e \in Seq(Nat) /\ Len(e) = Len(f) + 1 /\ e[1] = Radix + d
  BY <1>2, <1>3
<1>6. \A i \in 1..Len(f) : e[i + 1] = f[i]
  BY <1>2, <1>3
<1>7. ASSUME NEW i \in 1..Len(e) PROVE e[i] < Radix <=> i = Len(e)
  <2>1. CASE i = 1
    BY <1>2, <1>3, <1>5, <2>1, <1>1
  <2>2. CASE i # 1
    <3>1. i - 1 \in 1..Len(f) /\ (i - 1) + 1 = i
      BY <1>2, <1>5, <2>2
    <3>2. e[i] = f[i - 1]
      BY <1>6, <3>1
    <3>3. f[i - 1] < Radix <=> i - 1 = Len(f)
      BY <3>1 DEF Spelled
    <3> QED BY <1>2, <1>5, <3>1, <3>2, <3>3
  <2> QED BY <2>1, <2>2
<1>8. Spelled(e)
  BY <1>2, <1>5, <1>7 DEF Spelled
<1>9. D(e, 1) = d
  BY <1>2, <1>4, <1>5 DEF D
<1>10. ASSUME NEW i \in Nat \ {0} PROVE D(e, i + 1) = D(f, i)
  <2>1. i <= Len(f) => i \in 1..Len(f)
    BY <1>2
  <2>2. i + 1 <= Len(e) <=> i <= Len(f)
    BY <1>2, <1>5
  <2> QED BY <1>6, <2>1, <2>2 DEF D
<1> QED BY <1>5, <1>8, <1>9, <1>10 DEF Longer

\* A quotient is below c exactly when the number is below c times the divisor.
LEMMA QuotientBelow ==
  ASSUME NEW a \in Nat, NEW b \in Nat, NEW c \in Nat, b > 0
  PROVE  a \div b < c <=> a < c * b
<1> DEFINE q == a \div b
           r == a % b
<1>1. q \in Nat /\ r \in Nat /\ r < b /\ a = q * b + r
  BY Division
<1> HIDE DEF q, r
<1>2. ASSUME q < c PROVE a < c * b
  <2>1. (q + 1) * b <= c * b
    BY <1>1, <1>2
  <2>2. (q + 1) * b = q * b + b
    BY <1>1
  <2>3. q * b \in Nat /\ c * b \in Nat
    BY <1>1
  <2> QED BY <1>1, <2>1, <2>2, <2>3
<1>3. a < c * b => q < c
  BY SmallQuotient DEF q
<1>4. q < c <=> a < c * b
  BY <1>2, <1>3
<1> QED BY <1>4 DEF q

\* Shifting a number by one digit.
LEMMA Horner ==
  ASSUME NEW q \in Nat, NEW a \in Nat, NEW b \in Nat, NEW r \in Nat, NEW s, s = r * r,
         q = a + b * r
  PROVE  q * r = a * r + b * s
<1>1. (a + b * r) * r = a * r + (b * r) * r
  OBVIOUS
<1>2. (b * r) * r = b * (r * r)
  OBVIOUS
<1> QED BY <1>1, <1>2

\* The same with three digits.
LEMMA Horner3 ==
  ASSUME NEW q \in Nat, NEW a \in Nat, NEW b \in Nat, NEW c \in Nat, NEW r \in Nat,
         NEW s, s = r * r, NEW t, t = s * r, q = a + b * r + c * s
  PROVE  q * r = a * r + b * s + c * t
<1>1. s \in Nat
  OBVIOUS
<1>2. (a + b * r + c * s) * r = a * r + (b * r) * r + (c * s) * r
  BY <1>1
<1>3. (b * r) * r = b * (r * r) /\ (c * s) * r = c * (s * r)
  BY <1>1
<1> QED BY <1>2, <1>3

\* What MQTTPacket_encode writes of a length of up to four digits.
LEMMA Encoded ==
  ASSUME NEW n \in Nat, n < R4
  PROVE  /\ Spelled(MQTTPacket_encode(n))
         /\ Len(MQTTPacket_encode(n)) =
              IF n < Radix THEN 1 ELSE IF n < R2 THEN 2 ELSE IF n < R3 THEN 3 ELSE 4
         /\ n = D(MQTTPacket_encode(n), 1) + D(MQTTPacket_encode(n), 2) * Radix
                  + D(MQTTPacket_encode(n), 3) * R2 + D(MQTTPacket_encode(n), 4) * R3
<1> DEFINE e(m) == MQTTPacket_encode(m)
<1>1. /\ Radix \in Nat /\ Radix > 1 /\ R2 \in Nat /\ R3 \in Nat /\ R4 \in Nat
      /\ R2 = Radix * Radix /\ R3 = R2 * Radix /\ R4 = R3 * Radix
      /\ Radix < R2 /\ R2 < R3 /\ R3 < R4
  BY Radices
<1>2. ASSUME NEW m \in Nat, m < Radix
      PROVE  /\ Spelled(e(m)) /\ Len(e(m)) = 1 /\ D(e(m), 1) = m
             /\ D(e(m), 2) = 0 /\ D(e(m), 3) = 0 /\ D(e(m), 4) = 0
  <2>1. e(m) = <<m>>
    BY <1>2, EncodeUnfolds
  <2> HIDE DEF e
  <2>2. /\ Spelled(<<m>>) /\ Len(<<m>>) = 1 /\ D(<<m>>, 1) = m
        /\ \A i \in Nat : i > 1 => D(<<m>>, i) = 0
    BY <1>2, OneDigit
  <2> QED BY <2>1, <2>2
<1>3. ASSUME NEW m \in Nat, m >= Radix, Spelled(e(m \div Radix))
      PROVE  /\ Spelled(e(m)) /\ Len(e(m)) = Len(e(m \div Radix)) + 1
             /\ m = (m \div Radix) * Radix + D(e(m), 1)
             /\ D(e(m), 1) \in Nat
             /\ D(e(m), 2) = D(e(m \div Radix), 1)
             /\ D(e(m), 3) = D(e(m \div Radix), 2)
             /\ D(e(m), 4) = D(e(m \div Radix), 3)
  <2> DEFINE q == m \div Radix
             d == m % Radix
  <2>1. d \in Nat /\ d < Radix /\ m = q * Radix + d /\ q \in Nat
    BY <1>1, Division
  <2>2. e(m) = <<Radix + d>> \o e(q) /\ Spelled(e(q))
    <3>1. e(m) = IF m < Radix THEN <<m>> ELSE <<Radix + d>> \o e(q)
      BY EncodeUnfolds
    <3> HIDE DEF e, d, q
    <3>2. e(m) = <<Radix + d>> \o e(q)
      BY <1>1, <1>3, <3>1
    <3> QED BY <1>3, <3>2 DEF q
  <2> HIDE DEF e, d, q
  <2>3. /\ Spelled(e(m)) /\ Len(e(m)) = Len(e(q)) + 1
        /\ D(e(m), 1) = d /\ \A i \in Nat \ {0} : D(e(m), i + 1) = D(e(q), i)
    <3> DEFINE f == e(q)
               g == e(m)
               x == Radix + d
    <3>1. g = <<x>> \o f /\ Spelled(f) /\ x = Radix + d
      BY <2>2
    <3> HIDE DEF f, g, x
    <3>2. Longer(g, d, f)
      BY <2>1, <3>1, DigitBefore
    <3> QED BY <3>2 DEF f, g, Longer
  <2>4. D(e(m), 1 + 1) = D(e(q), 1) /\ D(e(m), 2 + 1) = D(e(q), 2) /\ D(e(m), 3 + 1) = D(e(q), 3)
    BY <2>3
  <2> QED BY <2>1, <2>3, <2>4 DEF q
<1> HIDE DEF e
<1>4. \A m \in Nat : m >= Radix => m \div Radix \in Nat
  BY <1>1, Division
<1>5. ASSUME NEW m \in Nat, m < R2
      PROVE  /\ Spelled(e(m)) /\ Len(e(m)) = IF m < Radix THEN 1 ELSE 2
             /\ D(e(m), 1) \in Nat /\ D(e(m), 2) \in Nat
             /\ m = D(e(m), 1) + D(e(m), 2) * Radix
             /\ D(e(m), 3) = 0 /\ D(e(m), 4) = 0
  <2>1. CASE m < Radix
    BY <1>1, <1>2, <2>1
  <2>2. CASE m >= Radix
    <3> DEFINE q == m \div Radix
    <3>1. q \in Nat /\ q < Radix
      BY <1>1, <1>4, <1>5, <2>2, SmallQuotient
    <3>2. Spelled(e(q)) /\ Len(e(q)) = 1 /\ D(e(q), 1) = q /\ D(e(q), 2) = 0 /\ D(e(q), 3) = 0
      BY <1>2, <3>1
    <3>3. /\ Spelled(e(m)) /\ Len(e(m)) = Len(e(q)) + 1
          /\ m = q * Radix + D(e(m), 1) /\ D(e(m), 1) \in Nat
          /\ D(e(m), 2) = D(e(q), 1) /\ D(e(m), 3) = D(e(q), 2) /\ D(e(m), 4) = D(e(q), 3)
      BY <1>3, <2>2, <3>2
    <3> HIDE DEF q
    <3> QED BY <1>1, <2>2, <3>1, <3>2, <3>3
  <2> QED BY <1>1, <2>1, <2>2
<1>6. ASSUME NEW m \in Nat, m < R3
      PROVE  /\ Spelled(e(m)) /\ Len(e(m)) = IF m < Radix THEN 1 ELSE IF m < R2 THEN 2 ELSE 3
             /\ D(e(m), 1) \in Nat /\ D(e(m), 2) \in Nat /\ D(e(m), 3) \in Nat
             /\ m = D(e(m), 1) + D(e(m), 2) * Radix + D(e(m), 3) * R2
             /\ D(e(m), 4) = 0
  <2>1. CASE m < Radix
    BY <1>1, <1>2, <2>1
  <2>2. CASE m >= Radix
    <3> DEFINE q == m \div Radix
    <3>1. q \in Nat /\ q < R2
      BY <1>1, <1>4, <1>6, <2>2, SmallQuotient
    <3>2. /\ Spelled(e(q)) /\ Len(e(q)) = IF q < Radix THEN 1 ELSE 2
          /\ D(e(q), 1) \in Nat /\ D(e(q), 2) \in Nat
          /\ q = D(e(q), 1) + D(e(q), 2) * Radix /\ D(e(q), 3) = 0
      BY <1>5, <3>1
    <3>3. /\ Spelled(e(m)) /\ Len(e(m)) = Len(e(q)) + 1
          /\ m = q * Radix + D(e(m), 1) /\ D(e(m), 1) \in Nat
          /\ D(e(m), 2) = D(e(q), 1) /\ D(e(m), 3) = D(e(q), 2) /\ D(e(m), 4) = D(e(q), 3)
      BY <1>3, <2>2, <3>2
    <3>4. q < Radix <=> m < R2
      BY <1>1, <3>1, <3>3, QuotientBelow DEF q
    <3>5. q * Radix = D(e(q), 1) * Radix + D(e(q), 2) * R2
      BY <1>1, <3>1, <3>2, Horner
    <3> HIDE DEF q
    <3> QED BY <1>1, <2>2, <3>1, <3>2, <3>3, <3>4, <3>5
  <2> QED BY <1>1, <2>1, <2>2
<1>7. /\ Spelled(e(n))
      /\ Len(e(n)) = IF n < Radix THEN 1 ELSE IF n < R2 THEN 2 ELSE IF n < R3 THEN 3 ELSE 4
      /\ n = D(e(n), 1) + D(e(n), 2) * Radix + D(e(n), 3) * R2 + D(e(n), 4) * R3
  <2>1. CASE n < Radix
    BY <1>1, <1>2, <2>1
  <2>2. CASE n >= Radix
    <3> DEFINE q == n \div Radix
    <3>1. q \in Nat /\ q < R3
      BY <1>1, <1>4, <2>2, SmallQuotient
    <3>2. /\ Spelled(e(q)) /\ Len(e(q)) = IF q < Radix THEN 1 ELSE IF q < R2 THEN 2 ELSE 3
          /\ D(e(q), 1) \in Nat /\ D(e(q), 2) \in Nat /\ D(e(q), 3) \in Nat
          /\ q = D(e(q), 1) + D(e(q), 2) * Radix + D(e(q), 3) * R2
      BY <1>6, <3>1
    <3>3. /\ Spelled(e(n)) /\ Len(e(n)) = Len(e(q)) + 1
          /\ n = q * Radix + D(e(n), 1) /\ D(e(n), 1) \in Nat
          /\ D(e(n), 2) = D(e(q), 1) /\ D(e(n), 3) = D(e(q), 2) /\ D(e(n), 4) = D(e(q), 3)
      BY <1>3, <2>2, <3>2
    <3>4. q < Radix <=> n < R2
      BY <1>1, QuotientBelow DEF q
    <3>5. q < R2 <=> n < R3
      BY <1>1, QuotientBelow DEF q
    <3>6. q * Radix = D(e(q), 1) * Radix + D(e(q), 2) * R2 + D(e(q), 3) * R3
      <4> DEFINE a == D(e(q), 1)
                 b == D(e(q), 2)
                 c == D(e(q), 3)
      <4>1. a \in Nat /\ b \in Nat /\ c \in Nat /\ q \in Nat /\ q = a + b * Radix + c * R2
        BY <3>1, <3>2
      <4> HIDE DEF a, b, c, q
      <4>2. q * Radix = a * Radix + b * R2 + c * R3
        BY <1>1, <4>1, Horner3
      <4> QED BY <4>2 DEF a, b, c
    <3> HIDE DEF q
    <3> QED BY <1>1, <2>2, <3>1, <3>2, <3>3, <3>4, <3>5, <3>6
  <2> QED BY <1>1, <2>1, <2>2
<1> QED BY <1>7 DEF e

\* The bytes of s are in a buffer from place `at` on.
Holds(b, at, s) == \A i \in 1..Len(s) : b[at + i - 1] = s[i]

\* MQTTPacket_decodeBuf reads the digits, and stops behind the last one.
LEMMA Decoded ==
  ASSUME NEW e, Spelled(e), Len(e) <= 4, NEW b, NEW at \in Nat, Holds(b, at, e)
  PROVE  /\ MQTTPacket_decodeBuf(b, at).bytes = Len(e)
         /\ MQTTPacket_decodeBuf(b, at).value =
              D(e, 1) + D(e, 2) * Radix + D(e, 3) * R2 + D(e, 4) * R3
<1> DEFINE k == Len(e)
           Last(i) == i > 4 \/ b[at + i - 1] < Radix
           stop == CHOOSE i \in 1..(4 + 1) : Last(i) /\ \A j \in 1..(i - 1) : ~Last(j)
           Digit(i) == IF i <= stop THEN b[at + i - 1] % Radix ELSE 0
<1>1. k \in 1..4 /\ e \in Seq(Nat) /\ \A j \in 1..(k - 1) : j \in 1..k /\ j # k /\ ~(j > 4)
  <2>1. e \in Seq(Nat) /\ k \in Nat /\ k >= 1 /\ k <= 4
    <3>1. e \in Seq(Nat) /\ Len(e) >= 1
      BY DEF Spelled
    <3>2. Len(e) \in Nat
      BY <3>1
    <3> QED BY <3>1, <3>2
  <2> HIDE DEF k
  <2>2. k \in 1..4 /\ \A j \in 1..(k - 1) : j \in 1..k /\ j # k /\ ~(j > 4)
    BY <2>1
  <2> QED BY <2>1, <2>2
<1>2. \A i \in 1..k : b[at + i - 1] = e[i] /\ (e[i] < Radix <=> i = k)
  BY DEF Holds, Spelled
<1>3. /\ MQTTPacket_decodeBuf(b, at).bytes = stop
      /\ MQTTPacket_decodeBuf(b, at).value =
           Digit(1) + Digit(2) * Radix + Digit(3) * (Radix * Radix)
             + Digit(4) * (Radix * Radix * Radix)
  BY DEF MQTTPacket_decodeBuf, MAX_NO_OF_REMAINING_LENGTH_BYTES
<1>4. Last(k) /\ \A j \in 1..(k - 1) : ~Last(j)
  <2> HIDE DEF k
  <2>1. k \in 1..k
    BY <1>1
  <2>2. Last(k)
    BY <1>2, <2>1
  <2>3. \A j \in 1..(k - 1) : ~Last(j)
    BY <1>1, <1>2
  <2> QED BY <2>2, <2>3
<1> HIDE DEF Last
<1>5. stop = k
  <2>1. k \in 1..(4 + 1)
    BY <1>1
  <2>2. stop \in 1..(4 + 1) /\ Last(stop) /\ \A j \in 1..(stop - 1) : ~Last(j)
    BY <1>4, <2>1
  <2> HIDE DEF stop, k
  <2>3. ~(stop < k)
    <3>1. stop < k => stop \in 1..(k - 1)
      BY <2>1, <2>2
    <3> QED BY <1>4, <2>2, <3>1
  <2>4. ~(k < stop)
    <3>1. k < stop => k \in 1..(stop - 1)
      BY <2>1, <2>2
    <3> QED BY <1>4, <2>2, <3>1
  <2> QED BY <2>1, <2>2, <2>3, <2>4
<1> HIDE DEF stop
<1>6. \A i \in 1..4 : Digit(i) = D(e, i)
  BY <1>1, <1>2, <1>5 DEF D
<1> HIDE DEF Digit
<1>7. Digit(1) = D(e, 1) /\ Digit(2) = D(e, 2) /\ Digit(3) = D(e, 3) /\ Digit(4) = D(e, 4)
  BY <1>6
<1> QED BY <1>3, <1>5, <1>7 DEF k, R2, R3

\* MQTTPacket_len is the length of the packet or one more, up to the largest
\* length that four digits have.
LEMMA PacketLength ==
  ASSUME NEW n \in Nat, n < R4
  PROVE  /\ MQTTPacket_len(n) \in Nat
         /\ Len(MQTTPacket_encode(n)) \in 1..4
         /\ 1 + Len(MQTTPacket_encode(n)) + n <= MQTTPacket_len(n)
         /\ MQTTPacket_len(n) <= 2 + Len(MQTTPacket_encode(n)) + n
<1>1. /\ Radix \in Nat /\ Radix > 1 /\ R2 \in Nat /\ R3 \in Nat
      /\ Radix < R2 /\ R2 + 2 <= R3
  <2>1. /\ Radix \in Nat /\ Radix > 1 /\ R2 \in Nat /\ R3 \in Nat
        /\ Radix < R2 /\ R2 < R3 /\ R3 = R2 * Radix
    BY Radices
  <2>2. R2 * Radix >= R2 * 2
    BY <2>1
  <2> QED BY <2>1, <2>2
<1> DEFINE k == Len(MQTTPacket_encode(n))
<1>2. k = IF n < Radix THEN 1 ELSE IF n < R2 THEN 2 ELSE IF n < R3 THEN 3 ELSE 4
  BY Encoded
<1> HIDE DEF k
<1>3. MQTTPacket_len(n) = n + 1 + (IF n + 1 < Radix THEN 1
                 ELSE IF n + 1 < R2 THEN 2
                 ELSE IF n + 1 < R3 - 1 THEN 3 ELSE 4)
  BY DEF MQTTPacket_len, R2, R3
<1>4. /\ MQTTPacket_len(n) \in Nat /\ k \in 1..4
      /\ 1 + k + n <= MQTTPacket_len(n) /\ MQTTPacket_len(n) <= 2 + k + n
  BY <1>1, <1>2, <1>3
<1> QED BY <1>4 DEF k
-----------------------------------------------------------------------------
(* Numbers and strings in a buffer.                                        *)

\* Two sequences of bytes, one behind the other.
LEMMA Concatenated ==
  ASSUME NEW s \in Seq(Nat), NEW t \in Seq(Nat)
  PROVE  s \o t \in Seq(Nat) /\ Len(s \o t) = Len(s) + Len(t)
  BY ConcatProperties

\* A buffer that holds two sequences one behind the other.
LEMMA HoldsBoth ==
  ASSUME NEW s \in Seq(Nat), NEW t \in Seq(Nat), NEW at \in Nat, NEW b, Holds(b, at, s \o t)
  PROVE  Holds(b, at, s) /\ Holds(b, at + Len(s), t)
<1>1. Len(s) \in Nat /\ Len(t) \in Nat /\ Len(s \o t) = Len(s) + Len(t)
  OBVIOUS
<1>2. \A i \in 1..Len(s) : b[at + i - 1] = s[i]
  <2> TAKE i \in 1..Len(s)
  <2>1. i \in 1..Len(s \o t) /\ (s \o t)[i] = s[i]
    BY <1>1
  <2> QED BY <2>1 DEF Holds
<1>3. \A i \in 1..Len(t) : b[(at + Len(s)) + i - 1] = t[i]
  <2> TAKE i \in 1..Len(t)
  <2>1. Len(s) + i \in 1..Len(s \o t) /\ (s \o t)[Len(s) + i] = t[i]
    BY <1>1
  <2>2. at + (Len(s) + i) - 1 = (at + Len(s)) + i - 1
    BY <1>1
  <2> QED BY <2>1, <2>2 DEF Holds
<1> QED BY <1>2, <1>3 DEF Holds

\* One that holds a sequence of one byte.
LEMMA HoldsOne ==
  ASSUME NEW x, NEW at \in Nat, NEW b, Holds(b, at, <<x>>)
  PROVE  b[at] = x
<1>1. 1 \in 1..Len(<<x>>) /\ <<x>>[1] = x /\ at + 1 - 1 = at
  OBVIOUS
<1> QED BY <1>1 DEF Holds

\* One that holds a sequence of two bytes.
LEMMA HoldsTwo ==
  ASSUME NEW x, NEW y, NEW at \in Nat, NEW b, Holds(b, at, <<x, y>>)
  PROVE  b[at] = x /\ b[at + 1] = y
<1> DEFINE s == <<x, y>>
<1>1. Len(s) = 2 /\ s[1] = x /\ s[2] = y
  OBVIOUS
<1> HIDE DEF s
<1>2. b[at + 1 - 1] = x /\ b[at + 2 - 1] = y
  <2>1. 1 \in 1..Len(s) /\ 2 \in 1..Len(s)
    BY <1>1
  <2>2. Holds(b, at, s)
    BY DEF s
  <2> QED BY <1>1, <2>1, <2>2 DEF Holds
<1>3. at + 1 - 1 = at /\ at + 2 - 1 = at + 1
  OBVIOUS
<1> QED BY <1>2, <1>3

\* A buffer that holds a sequence from one place to another.
HoldsUpto(b, at, last, s) == Holds(b, at, s) /\ last \in Int /\ last = at + Len(s) - 1

\* What is taken from these places is the sequence.
LEMMA HoldsTaken ==
  ASSUME NEW s \in Seq(Nat), NEW at \in Nat, NEW b, NEW last, HoldsUpto(b, at, last, s)
  PROVE  SubSeq(b, at, last) = s
<1>0. Holds(b, at, s) /\ last \in Int /\ last = at + Len(s) - 1
  BY DEF HoldsUpto
<1>1. Len(s) \in Nat /\ at \in Int
  OBVIOUS
<1>2. \A i \in 1..Len(s) : b[at + i - 1] = s[i] /\ s[i] \in Nat
  BY <1>0 DEF Holds
<1>3. \A j \in at..last : b[j] \in Nat
  <2> TAKE j \in at..last
  <2>1. (j - at) + 1 \in 1..Len(s) /\ at + ((j - at) + 1) - 1 = j
    BY <1>0, <1>1
  <2> QED BY <1>2, <2>1
<1>4. /\ SubSeq(b, at, last) \in Seq(Nat)
      /\ Len(SubSeq(b, at, last)) = IF at <= last THEN last - at + 1 ELSE 0
      /\ \A i \in 1..(last - at + 1) : SubSeq(b, at, last)[i] = b[at + i - 1]
  BY <1>0, <1>1, <1>3, SubSeqProperties
<1> DEFINE t == SubSeq(b, at, last)
<1> HIDE DEF t
<1>5. t \in Seq(Nat) /\ Len(t) = Len(s)
  <2>1. (IF at <= last THEN last - at + 1 ELSE 0) = Len(s)
    BY <1>0, <1>1
  <2> QED BY <1>4, <2>1 DEF t
<1>6. \A i \in 1..Len(t) : t[i] = s[i]
  <2> TAKE i \in 1..Len(t)
  <2>1. i \in 1..Len(s) /\ i \in 1..(last - at + 1)
    BY <1>0, <1>1, <1>5
  <2> QED BY <1>2, <1>4, <2>1 DEF t
<1>7. t = s
  BY <1>5, <1>6, SeqEqual
<1> QED BY <1>7 DEF t

\* writeInt writes two bytes.
LEMMA IntWritten ==
  ASSUME NEW n \in Numbers
  PROVE  writeInt(n) \in Seq(Nat) /\ Len(writeInt(n)) = 2
<1>1. n \in Nat /\ Byte \in Nat /\ Byte > 1
  BY Radices DEF Numbers
<1> DEFINE q == n \div Byte
<1>2. q \in Nat /\ n % Byte \in Nat
  BY <1>1, Division
<1> HIDE DEF q
<1>3. q % Byte \in Nat
  BY <1>1, <1>2, Division
<1> QED BY <1>2, <1>3 DEF writeInt, q

\* readInt reads what writeInt has written.
LEMMA IntRead ==
  ASSUME NEW n \in Numbers, NEW at \in Nat, NEW b, Holds(b, at, writeInt(n))
  PROVE  readInt(b, at) = n
<1>1. n \in Nat /\ Byte \in Nat /\ Byte > 1 /\ n < Byte * Byte
  BY Radices DEF Numbers, Base2
<1> DEFINE q == n \div Byte
           r == n % Byte
<1>2. q \in Nat /\ r \in Nat /\ r < Byte /\ n = q * Byte + r
  BY <1>1, Division
<1>3. q < Byte
  BY <1>1, SmallQuotient
<1>4. Holds(b, at, <<q % Byte, r>>)
  BY DEF writeInt
<1> HIDE DEF q, r
<1>5. q % Byte = q
  BY <1>1, <1>2, <1>3
<1>6. b[at] = q /\ b[at + 1] = r
  BY <1>4, <1>5, HoldsTwo
<1>7. Byte * q = q * Byte
  BY <1>1, <1>2
<1> QED BY <1>2, <1>6, <1>7 DEF readInt

\* A string is written with its length in front.
LEMMA TextWritten ==
  ASSUME NEW s \in Texts
  PROVE  /\ s = MQTTString(s.chars) /\ s.given = TRUE /\ s.chars \in Seq(Nat)
         /\ Len(s.chars) \in Numbers /\ Len(s.chars) \in Nat
         /\ writeMQTTString(s) = writeInt(Len(s.chars)) \o s.chars
         /\ writeMQTTString(s) \in Seq(Nat)
         /\ Len(writeMQTTString(s)) = MQTTstrlen(s) + 2
<1>1. s \in [given : {TRUE}, chars : Seq(Nat)] /\ Len(s.chars) < Base2
  BY DEF Texts, Base2
<1>2. s = [given |-> TRUE, chars |-> s.chars] /\ s.given = TRUE /\ s.chars \in Seq(Nat)
  BY <1>1
<1>3. Len(s.chars) \in Nat
  BY <1>2
<1>4. Len(s.chars) \in Numbers
  BY <1>1, <1>3, Radices DEF Numbers, Base2
<1>5. writeMQTTString(s) = writeInt(Len(s.chars)) \o s.chars
  BY <1>2 DEF writeMQTTString, writeCString
<1>6. writeInt(Len(s.chars)) \in Seq(Nat) /\ Len(writeInt(Len(s.chars))) = 2
  BY <1>4, IntWritten
<1> DEFINE w == writeInt(Len(s.chars))
<1> HIDE DEF w
<1>7. w \o s.chars \in Seq(Nat) /\ Len(w \o s.chars) = Len(s.chars) + 2
  <2>1. w \in Seq(Nat) /\ Len(w) = 2
    BY <1>6 DEF w
  <2> DEFINE c == s.chars
  <2>2. c \in Seq(Nat)
    BY <1>2
  <2> HIDE DEF c
  <2>3. w \o c \in Seq(Nat) /\ Len(w \o c) = Len(w) + Len(c)
    BY <2>1, <2>2, Concatenated
  <2> QED BY <1>3, <2>1, <2>3 DEF c
<1> QED BY <1>2, <1>3, <1>4, <1>5, <1>7 DEF w, MQTTString, MQTTstrlen

\* readMQTTLenString reads what writeMQTTString has written, if it ends in time.
LEMMA TextRead ==
  ASSUME NEW s \in Texts, NEW at \in Nat, NEW end \in Nat, NEW b,
         Holds(b, at, writeMQTTString(s)), at + 2 + Len(s.chars) <= end
  PROVE  readMQTTLenString(b, at, end) =
           [rc |-> 1, string |-> s, next |-> at + 2 + Len(s.chars)]
<1> DEFINE n == Len(s.chars)
           stop == at + 2 + n
<1>1. /\ s = MQTTString(s.chars) /\ s.chars \in Seq(Nat) /\ n \in Numbers /\ n \in Nat
      /\ writeMQTTString(s) = writeInt(n) \o s.chars
  BY TextWritten
<1>2. writeInt(n) \in Seq(Nat) /\ Len(writeInt(n)) = 2
  BY <1>1, IntWritten
<1>3. Holds(b, at, writeInt(n)) /\ Holds(b, at + 2, s.chars)
  <2> DEFINE w == writeInt(n)
             c == s.chars
             two == 2
  <2>1. w \in Seq(Nat) /\ c \in Seq(Nat) /\ Holds(b, at, w \o c) /\ Len(w) = two
    BY <1>1, <1>2
  <2> HIDE DEF w, c, two
  <2>2. Holds(b, at, w) /\ Holds(b, at + Len(w), c)
    BY <2>1, HoldsBoth
  <2> QED BY <2>1, <2>2 DEF w, c, two
<1>4. readInt(b, at) = n
  BY <1>1, <1>3, IntRead
<1>5. SubSeq(b, at + 2, stop - 1) = s.chars
  <2> DEFINE a == at + 2
             last == stop - 1
             c == s.chars
  <2>1. a \in Nat /\ HoldsUpto(b, a, last, c) /\ c \in Seq(Nat)
    BY <1>1, <1>3 DEF HoldsUpto
  <2> HIDE DEF a, last, c
  <2>2. SubSeq(b, a, last) = c
    BY <2>1, HoldsTaken
  <2> QED BY <2>2 DEF a, last, c
<1>6. end - at > 1 /\ at + 2 + readInt(b, at) <= end /\ at + 2 + readInt(b, at) = stop
  <2>1. at + 2 + n <= end /\ n \in Nat
    BY <1>1
  <2> HIDE DEF n
  <2>2. end - at > 1
    BY <2>1
  <2> QED BY <1>4, <2>1, <2>2
<1> HIDE DEF n, stop
<1>7. readMQTTLenString(b, at, end) =
        [rc |-> 1, string |-> MQTTString(SubSeq(b, at + 2, stop - 1)), next |-> stop]
  <2>1. Behind(b, at) = stop /\ end - at > 1 /\ Behind(b, at) <= end
    BY <1>6 DEF Behind
  <2> QED BY <2>1 DEF readMQTTLenString
<1> QED BY <1>1, <1>5, <1>7 DEF n, stop
-----------------------------------------------------------------------------
(* Packets in buffers.                                                     *)

\* A packet with a header and a rest, and one that its announced length allows.
PacketOf(h, rest) == <<h>> \o MQTTPacket_encode(Len(rest)) \o rest
Digits(rest) == Len(MQTTPacket_encode(Len(rest)))
Sendable(h, rest) == h \in Nat /\ rest \in Seq(Nat) /\ Len(rest) < R4

\* The bytes of a packet.
LEMMA PacketBytes ==
  ASSUME NEW h, NEW rest, Sendable(h, rest)
  PROVE  /\ Packet(h, rest, Len(rest)) = [rc |-> Len(PacketOf(h, rest)), bytes |-> PacketOf(h, rest)]
         /\ MQTTPacket_encode(Len(rest)) \in Seq(Nat)
         /\ PacketOf(h, rest) \in Seq(Nat) /\ Digits(rest) \in 1..4
         /\ Len(PacketOf(h, rest)) = 1 + Digits(rest) + Len(rest)
<1> DEFINE e == MQTTPacket_encode(Len(rest))
           f == <<h>>
<1>1. rest \in Seq(Nat) /\ h \in Nat /\ Len(rest) \in Nat /\ Len(rest) < R4
  BY DEF Sendable
<1>2. Spelled(e) /\ Len(e) \in 1..4
  BY <1>1, Encoded, PacketLength
<1>3. e \in Seq(Nat)
  BY <1>2 DEF Spelled
<1>4. f \in Seq(Nat) /\ Len(f) = 1
  BY <1>1
<1> HIDE DEF e, f
<1>5. f \o e \in Seq(Nat) /\ Len(f \o e) = 1 + Len(e)
  BY <1>3, <1>4, Concatenated
<1> DEFINE g == f \o e
<1>6. g \in Seq(Nat) /\ Len(g) = 1 + Len(e)
  BY <1>5
<1> HIDE DEF g
<1>7. g \o rest \in Seq(Nat) /\ Len(g \o rest) = Len(g) + Len(rest)
  BY <1>1, <1>6, Concatenated
<1>8. PacketOf(h, rest) = g \o rest
  BY DEF PacketOf, e, f, g
<1>9. Digits(rest) = Len(e)
  BY DEF Digits, e
<1>10. Packet(h, rest, Len(rest)) = [rc |-> Len(PacketOf(h, rest)), bytes |-> PacketOf(h, rest)]
  BY DEF Packet, PacketOf
<1> QED BY <1>1, <1>2, <1>3, <1>6, <1>7, <1>8, <1>9, <1>10 DEF e

\* A buffer that begins with a packet.
Contains(b, h, rest) == Holds(b, 1, PacketOf(h, rest))

\* What Rest finds there.
LEMMA RestRead ==
  ASSUME NEW h, NEW rest, Sendable(h, rest), NEW b, Contains(b, h, rest)
  PROVE  /\ b[1] = h /\ Rest(b).at = 2 + Digits(rest) /\ Rest(b).end = 2 + Digits(rest) + Len(rest)
         /\ Rest(b).at \in Nat /\ Rest(b).end \in Nat /\ Rest(b).end = Rest(b).at + Len(rest)
         /\ Holds(b, Rest(b).at, rest)
         /\ MQTTPacket_decodeBuf(b, 2) = [bytes |-> Digits(rest), value |-> Len(rest)]
<1> DEFINE e == MQTTPacket_encode(Len(rest))
           f == <<h>>
           n == Len(rest)
<1>1. rest \in Seq(Nat) /\ h \in Nat /\ n \in Nat /\ n < R4
  BY DEF Sendable
<1>2. e \in Seq(Nat) /\ Len(e) \in 1..4 /\ Digits(rest) = Len(e)
  BY PacketBytes DEF Digits
<1>3. Spelled(e) /\ n = D(e, 1) + D(e, 2) * Radix + D(e, 3) * R2 + D(e, 4) * R3
  BY <1>1, Encoded
<1>4. f \in Seq(Nat) /\ Len(f) = 1
  BY <1>1
<1>5. Holds(b, 1, (f \o e) \o rest)
  BY DEF Contains, PacketOf
<1> DEFINE k == Len(e)
           at == 2 + k
<1> HIDE DEF e, f
<1>6. f \o e \in Seq(Nat) /\ Len(f \o e) = 1 + k
  BY <1>2, <1>4, Concatenated
<1> DEFINE g == f \o e
           one == 1
<1>7. Holds(b, one, g) /\ Holds(b, one + Len(g), rest)
  <2>1. Holds(b, one, g \o rest) /\ g \in Seq(Nat) /\ one \in Nat
    BY <1>5, <1>6
  <2> HIDE DEF g, one
  <2> QED BY <1>1, <2>1, HoldsBoth
<1>8. Holds(b, one, f) /\ Holds(b, one + Len(f), e)
  <2>1. Holds(b, one, f \o e) /\ one \in Nat
    BY <1>7
  <2> HIDE DEF one
  <2> QED BY <2>1, <1>2, <1>4, HoldsBoth
<1>9. b[1] = h
  <2>1. Holds(b, 1, <<h>>)
    BY <1>8 DEF f
  <2> QED BY <2>1 DEF Holds
<1>10. k \in Nat /\ at \in Nat /\ one + Len(g) = at /\ one + Len(f) = 2
  BY <1>2, <1>4, <1>6
<1> DEFINE two == 2
<1>11. MQTTPacket_decodeBuf(b, two).bytes = k /\ MQTTPacket_decodeBuf(b, two).value = n
  <2>1. two \in Nat /\ Holds(b, two, e) /\ k <= 4
    BY <1>8, <1>10, <1>2
  <2> HIDE DEF two, n
  <2> QED BY <2>1, <1>3, Decoded
<1>12. MQTTPacket_decodeBuf(b, 2) = [bytes |-> k, value |-> n]
  <2>1. MQTTPacket_decodeBuf(b, 2) = [bytes |-> MQTTPacket_decodeBuf(b, 2).bytes,
                                      value |-> MQTTPacket_decodeBuf(b, 2).value]
    BY DEF MQTTPacket_decodeBuf
  <2> QED BY <2>1, <1>11 DEF two
<1>13. Holds(b, at, rest)
  BY <1>7, <1>10
<1>14. Rest(b) = [at |-> 2 + k, end |-> 2 + k + n]
  <2> HIDE DEF k, n
  <2> QED BY <1>12 DEF Rest
<1> HIDE DEF n, k
<1>15. Rest(b).at = at /\ Rest(b).end = 2 + k + n
  BY <1>14
<1>16. n = Len(rest) /\ k = Digits(rest)
  BY <1>2 DEF n, k
<1> QED BY <1>1, <1>9, <1>10, <1>12, <1>13, <1>15, <1>16

\* The buffer over which a packet is put contains it.
LEMMA OverContains ==
  ASSUME NEW h, NEW rest, Sendable(h, rest), NEW stale \in Nat,
         Len(PacketOf(h, rest)) <= Capacity
  PROVE  /\ Contains(Over(PacketOf(h, rest), stale), h, rest)
         /\ SubSeq(Over(PacketOf(h, rest), stale), 1, Len(PacketOf(h, rest))) = PacketOf(h, rest)
<1> DEFINE p == PacketOf(h, rest)
           b == Over(p, stale)
<1>1. p \in Seq(Nat) /\ Capacity \in Nat /\ Len(p) \in Nat /\ Len(p) <= Capacity
  BY PacketBytes, BufferAssumption
<1> HIDE DEF p
<1>2. \A i \in 1..Len(p) : b[i] = p[i]
  BY <1>1 DEF Over
<1>3. Holds(b, 1, p)
  BY <1>1, <1>2 DEF Holds
<1> DEFINE one == 1
           last == Len(p)
<1>4. one \in Nat /\ HoldsUpto(b, one, last, p)
  BY <1>1, <1>3 DEF HoldsUpto
<1> HIDE DEF one, last, b
<1>5. SubSeq(b, one, last) = p
  BY <1>1, <1>4, HoldsTaken
<1> QED BY <1>3, <1>5 DEF Contains, one, last, b, p

\* readPacket gives the bytes that were sent.
LEMMA PacketReceived ==
  ASSUME NEW h, NEW rest, Sendable(h, rest)
  PROVE  readPacket(PacketOf(h, rest)) = PacketOf(h, rest)
<1> DEFINE p == PacketOf(h, rest)
           n == Len(rest)
           k == Digits(rest)
           at == 2 + k
           last == 1 + k + n
<1>1. p \in Seq(Nat) /\ n \in Nat /\ k \in Nat /\ at \in Nat /\ rest \in Seq(Nat)
  <2>1. p \in Seq(Nat) /\ k \in 1..4
    BY PacketBytes
  <2>2. rest \in Seq(Nat)
    BY DEF Sendable
  <2> HIDE DEF p, k
  <2> QED BY <2>1, <2>2
<1>2. Contains(p, h, rest)
  <2>1. p \in Seq(Nat)
    BY <1>1
  <2> HIDE DEF p
  <2>2. Holds(p, 1, p)
    BY <2>1 DEF Holds
  <2> QED BY <2>2 DEF Contains, p
<1>3. /\ p[1] = h /\ Holds(p, at, rest)
      /\ MQTTPacket_decodeBuf(p, 2) = [bytes |-> k, value |-> n]
  <2> HIDE DEF p
  <2>1. Sendable(h, rest) /\ Contains(p, h, rest)
    BY <1>2
  <2> QED BY <2>1, RestRead
<1> HIDE DEF p, k, n
<1>4. HoldsUpto(p, at, last, rest)
  BY <1>1, <1>3 DEF HoldsUpto, n
<1> HIDE DEF at, last
<1>5. SubSeq(p, at, last) = rest
  BY <1>1, <1>4, HoldsTaken
<1>6. readPacket(p) = <<p[1]>> \o MQTTPacket_encode(n) \o SubSeq(p, 2 + k, 1 + k + n)
  <2>1. /\ MQTTPacket_decodeBuf(p, 2).value = n
        /\ MQTTPacket_decodeBuf(p, 2).bytes = k
    BY <1>3
  <2> QED BY ONLY <2>1, Zenon DEF readPacket
<1>7. readPacket(p) = <<h>> \o MQTTPacket_encode(n) \o rest
  BY <1>3, <1>5, <1>6 DEF at, last
<1> QED BY <1>7 DEF n, p, PacketOf

\* The fields of a header are where they were put.
LEMMA HeaderRead ==
  ASSUME NEW type \in 1..14, NEW dup \in {0, 1}, NEW qos \in 0..2, NEW retain \in {0, 1}
  PROVE  /\ MQTTHeader(type, dup, qos, retain) \in Nat
         /\ Bits(MQTTHeader(type, dup, qos, retain), 16, 16) = type
         /\ Bits(MQTTHeader(type, dup, qos, retain), 8, 2) = dup
         /\ Bits(MQTTHeader(type, dup, qos, retain), 2, 4) = qos
         /\ Bits(MQTTHeader(type, dup, qos, retain), 1, 2) = retain
<1> DEFINE h == MQTTHeader(type, dup, qos, retain)
<1>1. h = 16 * type + 8 * dup + 2 * qos + retain
  BY DEF MQTTHeader
<1> HIDE DEF h
<1>2. h \in Nat
  BY <1>1
<1>3. (h \div 16) % 16 = type
  BY <1>1
<1>4. (h \div 8) % 2 = dup
  BY <1>1
<1>5. (h \div 2) % 4 = qos
  BY <1>1
<1>6. (h \div 1) % 2 = retain
  BY <1>1
<1> QED BY <1>2, <1>3, <1>4, <1>5, <1>6 DEF Bits, h

\* The types of packets.
LEMMA PacketTypes ==
  /\ CONNECT \in 1..14 /\ CONNACK \in 1..14 /\ PUBLISH \in 1..14 /\ PUBACK \in 1..14
  /\ PUBREC \in 1..14 /\ PUBREL \in 1..14 /\ PUBCOMP \in 1..14 /\ SUBSCRIBE \in 1..14
  /\ SUBACK \in 1..14 /\ UNSUBSCRIBE \in 1..14 /\ UNSUBACK \in 1..14 /\ PINGREQ \in 1..14
  /\ PINGRESP \in 1..14 /\ DISCONNECT \in 1..14
BY DEF CONNECT, CONNACK, PUBLISH, PUBACK, PUBREC, PUBREL, PUBCOMP, SUBSCRIBE, SUBACK,
       UNSUBSCRIBE, UNSUBACK, PINGREQ, PINGRESP, DISCONNECT
-----------------------------------------------------------------------------
(* Requests: how each is written, and how the server reads it.             *)

\* A request is refused if MQTTPacket_len of its rest exceeds the buffer, and
\* is written with this header and this rest otherwise.
SerializedAs(r, h, rest) ==
  /\ h \in Nat /\ rest \in Seq(Nat)
  /\ \A n \in Nat : Serialized(r, n) = IF MQTTPacket_len(Len(rest)) > n THEN Refused
                                       ELSE Packet(h, rest, Len(rest))

\* What follows: what is written is short enough for the length field and fits, and
\* a buffer in which nothing is written had no byte more than necessary.
LEMMA Fits ==
  ASSUME NEW r, NEW h, NEW rest, SerializedAs(r, h, rest), NEW n \in Sizes
  PROVE  \/ /\ Sendable(h, rest)
            /\ Serialized(r, n) = [rc |-> Len(PacketOf(h, rest)), bytes |-> PacketOf(h, rest)]
            /\ Serialized(r, n).rc > 0 /\ Len(PacketOf(h, rest)) <= n
         \/ Serialized(r, n).rc <= 0 /\ FillsUp(r, n)
<1> DEFINE large == 2 * Capacity
           l == Len(rest)
           k == Digits(rest)
<1>1. large \in Nat /\ large < R4 /\ n \in Nat /\ n <= large
  BY BufferAssumption DEF R4
<1>2. l \in Nat /\ h \in Nat /\ rest \in Seq(Nat)
  BY DEF SerializedAs
<1>3. Refused.rc = -2
  BY DEF Refused, MQTTPACKET_BUFFER_TOO_SHORT
<1>4. Serialized(r, n) = IF MQTTPacket_len(l) > n THEN Refused ELSE Packet(h, rest, l)
  BY <1>1 DEF SerializedAs
<1>5. Serialized(r, large) = IF MQTTPacket_len(l) > large THEN Refused ELSE Packet(h, rest, l)
  <2> HIDE DEF large
  <2> QED BY <1>1 DEF SerializedAs
<1>6. ASSUME NEW m \in Nat, m <= large, ~(MQTTPacket_len(l) > m)
      PROVE  /\ Sendable(h, rest)
             /\ Packet(h, rest, l) = [rc |-> Len(PacketOf(h, rest)), bytes |-> PacketOf(h, rest)]
             /\ Len(PacketOf(h, rest)) = 1 + k + l /\ k \in 1..4
             /\ MQTTPacket_len(l) \in Nat /\ 1 + k + l <= MQTTPacket_len(l)
             /\ MQTTPacket_len(l) <= 2 + k + l
  <2>1. l < R4
    <3>1. MQTTPacket_len(l) \in Int /\ l <= MQTTPacket_len(l)
      BY <1>2 DEF MQTTPacket_len
    <3>2. R4 \in Nat
      BY Radices
    <3> HIDE DEF l, large
    <3> QED BY <1>1, <1>2, <1>6, <3>1, <3>2
  <2>2. Sendable(h, rest)
    BY <1>2, <2>1 DEF Sendable
  <2>3. /\ Packet(h, rest, l) = [rc |-> Len(PacketOf(h, rest)), bytes |-> PacketOf(h, rest)]
        /\ Len(PacketOf(h, rest)) = 1 + k + l /\ k \in 1..4
    BY <2>2, PacketBytes
  <2>4. /\ MQTTPacket_len(l) \in Nat /\ 1 + k + l <= MQTTPacket_len(l)
        /\ MQTTPacket_len(l) <= 2 + k + l
    BY <1>2, <2>1, PacketLength DEF Digits
  <2> QED BY <2>2, <2>3, <2>4
<1>7. CASE MQTTPacket_len(l) > n
  <2>1. Serialized(r, n).rc <= 0
    BY <1>3, <1>4, <1>7
  <2>2. ASSUME Serialized(r, large).rc > 0 PROVE n <= Serialized(r, large).rc
    <3>1. ~(MQTTPacket_len(l) > large)
      BY <1>3, <1>5, <2>2
    <3> HIDE DEF l, large, k
    <3>2. /\ Packet(h, rest, l) = [rc |-> Len(PacketOf(h, rest)), bytes |-> PacketOf(h, rest)]
          /\ Len(PacketOf(h, rest)) = 1 + k + l /\ k \in 1..4
          /\ MQTTPacket_len(l) \in Nat /\ MQTTPacket_len(l) <= 2 + k + l
      BY <1>1, <1>6, <3>1
    <3>3. Serialized(r, large).rc = 1 + k + l
      BY <1>5, <3>1, <3>2
    <3> QED BY <1>1, <1>2, <1>7, <3>2, <3>3
  <2> QED BY <2>1, <2>2 DEF FillsUp
<1>8. CASE ~(MQTTPacket_len(l) > n)
  <2> HIDE DEF l, large, k
  <2>1. /\ Sendable(h, rest)
        /\ Packet(h, rest, l) = [rc |-> Len(PacketOf(h, rest)), bytes |-> PacketOf(h, rest)]
        /\ Len(PacketOf(h, rest)) = 1 + k + l /\ k \in 1..4
        /\ MQTTPacket_len(l) \in Nat /\ 1 + k + l <= MQTTPacket_len(l)
    BY <1>1, <1>6, <1>8
  <2> QED BY <1>1, <1>2, <1>4, <1>8, <2>1
<1> QED BY <1>7, <1>8

\* Three sequences, one behind the other.
LEMMA ThreeParts ==
  ASSUME NEW s \in Seq(Nat), NEW t \in Seq(Nat), NEW u \in Seq(Nat)
  PROVE  /\ s \o t \o u \in Seq(Nat) /\ Len(s \o t \o u) = Len(s) + Len(t) + Len(u)
         /\ Len(s) \in Nat /\ Len(t) \in Nat /\ Len(u) \in Nat
<1> DEFINE g == s \o t
<1>1. g \in Seq(Nat) /\ Len(g) = Len(s) + Len(t)
  BY Concatenated
<1>3. s \o t \o u = g \o u /\ Len(s) \in Nat /\ Len(t) \in Nat /\ Len(u) \in Nat
  OBVIOUS
<1> HIDE DEF g
<1>4. g \o u \in Seq(Nat) /\ Len(g \o u) = Len(g) + Len(u)
  BY <1>1, Concatenated
<1> QED BY <1>1, <1>3, <1>4

\* A buffer that holds them.
LEMMA HoldsThree ==
  ASSUME NEW s \in Seq(Nat), NEW t \in Seq(Nat), NEW u \in Seq(Nat), NEW at \in Nat, NEW b,
         Holds(b, at, s \o t \o u)
  PROVE  /\ Holds(b, at, s) /\ Holds(b, at + Len(s), t)
         /\ Holds(b, at + Len(s) + Len(t), u)
<1> DEFINE g == s \o t
<1>1. g \in Seq(Nat) /\ Len(g) = Len(s) + Len(t) /\ Holds(b, at, g \o u)
  BY Concatenated
<1>2. Len(s) \in Nat /\ Len(t) \in Nat
  OBVIOUS
<1> HIDE DEF g
<1>3. Holds(b, at, g) /\ Holds(b, at + Len(g), u)
  BY <1>1, HoldsBoth
<1>4. Holds(b, at, s \o t)
  BY <1>3 DEF g
<1>5. Holds(b, at, s) /\ Holds(b, at + Len(s), t)
  BY <1>4, HoldsBoth
<1>6. at + Len(g) = at + Len(s) + Len(t)
  BY <1>1, <1>2
<1> QED BY <1>3, <1>5, <1>6

\* A publish: the topic, the packet id if its QoS has one, and the payload.
PublishId(m)   == IF m.qos > 0 THEN writeInt(m.packetid) ELSE << >>
PublishRest(m) == writeMQTTString(m.topicName) \o PublishId(m) \o m.payload
PublishHeader(m) == MQTTHeader(PUBLISH, m.dup, m.qos, m.retained)

\* The fields of a publish.
LEMMA PublishFields ==
  ASSUME NEW m \in Publishes
  PROVE  /\ m.type = PUBLISH /\ m.dup \in {0, 1} /\ m.qos \in 0..2 /\ m.retained \in {0, 1}
         /\ m.packetid \in Numbers /\ m.topicName \in Texts /\ m.payload \in Seq(Nat)
         /\ (m.qos = 0 => m.packetid = 0)
         /\ PublishId(m) \in Seq(Nat) /\ Len(PublishId(m)) = IF m.qos > 0 THEN 2 ELSE 0
         /\ writeMQTTString(m.topicName) \in Seq(Nat)
         /\ Len(writeMQTTString(m.topicName)) = Len(m.topicName.chars) + 2
         /\ Len(m.topicName.chars) \in Nat
<1>1. /\ m.type = PUBLISH /\ m.dup \in {0, 1} /\ m.qos \in 0..2 /\ m.retained \in {0, 1}
      /\ m.packetid \in Numbers /\ m.topicName \in Texts /\ m.payload \in Seq(Nat)
      /\ (m.qos = 0 => m.packetid = 0)
  BY PublishAssumption
<1>2. PublishId(m) \in Seq(Nat) /\ Len(PublishId(m)) = IF m.qos > 0 THEN 2 ELSE 0
  <2>1. CASE m.qos > 0
    BY <1>1, <2>1, IntWritten DEF PublishId
  <2>2. CASE ~(m.qos > 0)
    BY <2>2 DEF PublishId
  <2> QED BY <2>1, <2>2
<1>3. /\ writeMQTTString(m.topicName) \in Seq(Nat)
      /\ Len(writeMQTTString(m.topicName)) = Len(m.topicName.chars) + 2
      /\ Len(m.topicName.chars) \in Nat
  BY <1>1, TextWritten DEF MQTTstrlen
<1> QED BY <1>1, <1>2, <1>3

\* How it is written.
LEMMA PublishWritten ==
  ASSUME NEW m \in Publishes
  PROVE  SerializedAs(m, PublishHeader(m), PublishRest(m))
<1> DEFINE s == writeMQTTString(m.topicName)
           t == PublishId(m)
           u == m.payload
           rest == PublishRest(m)
           h == PublishHeader(m)
<1>1. /\ s \in Seq(Nat) /\ t \in Seq(Nat) /\ u \in Seq(Nat) /\ m.type = PUBLISH
      /\ Len(s) = Len(m.topicName.chars) + 2 /\ Len(t) = IF m.qos > 0 THEN 2 ELSE 0
      /\ Len(m.topicName.chars) \in Nat /\ m.qos \in 0..2
  BY PublishFields
<1>2. rest = s \o t \o u
  BY DEF PublishRest
<1> HIDE DEF s, t, u, rest
<1>3. rest \in Seq(Nat) /\ Len(rest) = Len(s) + Len(t) + Len(u) /\ Len(u) \in Nat
  BY <1>1, <1>2, ThreeParts
<1>4. Len(rest) = PublishLength(m.qos, m.topicName, Len(u))
  <2> DEFINE l == Len(m.topicName.chars)
             more == IF m.qos > 0 THEN 2 ELSE 0
  <2>1. Len(s) = l + 2 /\ l \in Nat /\ Len(t) = more /\ more \in Nat
    BY <1>1
  <2>2. PublishLength(m.qos, m.topicName, Len(u)) = 2 + l + Len(u) + more
    BY DEF PublishLength, MQTTstrlen
  <2> HIDE DEF l, more
  <2> QED BY <1>3, <2>1, <2>2
<1>5. h \in Nat
  BY PublishFields, HeaderRead, PacketTypes DEF PublishHeader
<1>6. ASSUME NEW n \in Nat
      PROVE  Serialized(m, n) = MQTTSerialize_publish(n, m)
  BY <1>1 DEF Serialized, CONNECT, PUBLISH, SUBSCRIBE, UNSUBSCRIBE
<1>7. ASSUME NEW n \in Nat
      PROVE  MQTTSerialize_publish(n, m) = IF MQTTPacket_len(Len(rest)) > n THEN Refused
                                           ELSE Packet(h, rest, Len(rest))
  BY <1>2, <1>4 DEF MQTTSerialize_publish, s, t, u, h, PublishId, PublishHeader
<1> QED BY <1>3, <1>5, <1>6, <1>7 DEF SerializedAs, rest

\* How the server reads it.
LEMMA PublishRead ==
  ASSUME NEW m \in Publishes, Sendable(PublishHeader(m), PublishRest(m)),
         NEW b, Contains(b, PublishHeader(m), PublishRest(m))
  PROVE  HeaderType(b) = PUBLISH /\ MQTTDeserialize_publish(b) = Fields(m)
<1> DEFINE s == writeMQTTString(m.topicName)
           t == PublishId(m)
           u == m.payload
           rest == PublishRest(m)
           h == PublishHeader(m)
           at == Rest(b).at
           end == Rest(b).end
<1>1. /\ m.type = PUBLISH /\ m.dup \in {0, 1} /\ m.qos \in 0..2 /\ m.retained \in {0, 1}
      /\ m.packetid \in Numbers /\ m.topicName \in Texts /\ m.payload \in Seq(Nat)
      /\ (m.qos = 0 => m.packetid = 0)
      /\ s \in Seq(Nat) /\ t \in Seq(Nat) /\ u \in Seq(Nat)
      /\ Len(s) = Len(m.topicName.chars) + 2 /\ Len(t) = IF m.qos > 0 THEN 2 ELSE 0
      /\ Len(m.topicName.chars) \in Nat
  BY PublishFields
<1>2. /\ b[1] = h /\ at \in Nat /\ end \in Nat /\ end = at + Len(rest) /\ Holds(b, at, rest)
  BY RestRead
<1>3. /\ Bits(h, 16, 16) = PUBLISH /\ Bits(h, 8, 2) = m.dup /\ Bits(h, 2, 4) = m.qos
      /\ Bits(h, 1, 2) = m.retained
  <2>1. m.dup \in {0, 1} /\ m.qos \in 0..2 /\ m.retained \in {0, 1}
    BY <1>1
  <2>2. PUBLISH \in 1..14
    BY PacketTypes
  <2> QED BY <2>1, <2>2, HeaderRead DEF PublishHeader
<1>4. rest = s \o t \o u
  BY DEF PublishRest
<1> HIDE DEF s, t, u, rest, h, at, end
<1>5. /\ Len(rest) = Len(s) + Len(t) + Len(u) /\ Len(u) \in Nat /\ Len(s) \in Nat /\ Len(t) \in Nat
      /\ Holds(b, at, s) /\ Holds(b, at + Len(s), t) /\ Holds(b, at + Len(s) + Len(t), u)
  <2>1. /\ Len(rest) = Len(s) + Len(t) + Len(u)
        /\ Len(u) \in Nat /\ Len(s) \in Nat /\ Len(t) \in Nat
    BY <1>1, <1>4, ThreeParts
  <2>2. Holds(b, at, s \o t \o u)
    BY <1>2, <1>4
  <2> QED BY <1>1, <1>2, <2>1, <2>2, HoldsThree
<1> DEFINE l == Len(m.topicName.chars)
           next == at + 2 + l
           more == IF m.qos > 0 THEN 2 ELSE 0
           first == next + more
<1>6. /\ next = at + Len(s) /\ next \in Nat /\ first = at + Len(s) + Len(t) /\ first \in Nat
      /\ at + 2 + l <= end /\ l \in Nat
  <2>1. l \in Nat /\ Len(s) = l + 2
    BY <1>1
  <2>2. Len(t) = more
    BY <1>1
  <2> HIDE DEF l, more
  <2> QED BY <1>2, <1>5, <2>1, <2>2
<1>7. readMQTTLenString(b, at, end) = [rc |-> 1, string |-> m.topicName, next |-> next]
  <2>1. at + 2 + Len(m.topicName.chars) <= end
    BY <1>6
  <2>2. Holds(b, at, writeMQTTString(m.topicName))
    BY <1>5 DEF s
  <2> QED BY <1>1, <1>2, <2>1, <2>2, TextRead
<1> HIDE DEF next, first, l, more
<1>8. m.qos > 0 => readInt(b, next) = m.packetid
  <2>1. SUFFICES ASSUME m.qos > 0 PROVE readInt(b, next) = m.packetid
    OBVIOUS
  <2>2. Holds(b, next, writeInt(m.packetid))
    BY <1>5, <1>6, <2>1 DEF t, PublishId
  <2> QED BY <1>1, <1>6, <2>2, IntRead
<1>9. SubSeq(b, first, end - 1) = u
  <2> DEFINE last == end - 1
  <2>1. HoldsUpto(b, first, last, u)
    BY <1>2, <1>5, <1>6 DEF HoldsUpto
  <2> HIDE DEF last
  <2>2. SubSeq(b, first, last) = u
    BY <1>1, <1>6, <2>1, HoldsTaken
  <2> QED BY <2>2 DEF last
<1>10. HeaderType(b) = PUBLISH
  BY <1>2, <1>3 DEF HeaderType
<1> DEFINE result == [rc |-> 1, dup |-> m.dup, qos |-> m.qos, retained |-> m.retained,
                      packetid |-> m.packetid, topicName |-> m.topicName, payload |-> m.payload]
<1>11. MQTTDeserialize_publish(b) = result
  <2>1. Bits(b[1], 8, 2) = m.dup /\ Bits(b[1], 2, 4) = m.qos /\ Bits(b[1], 1, 2) = m.retained
    BY <1>2, <1>3
  <2>2. (IF m.qos > 0 THEN readInt(b, next) ELSE 0) = m.packetid
    BY <1>1, <1>8
  <2>3. SubSeq(b, next + (IF m.qos > 0 THEN 2 ELSE 0), end - 1) = m.payload
    BY <1>9 DEF first, more, u
  <2>4. /\ readMQTTLenString(b, at, end).rc # 0
        /\ readMQTTLenString(b, at, end).string = m.topicName
        /\ readMQTTLenString(b, at, end).next = next
    BY <1>7
  <2> QED BY <1>10, <2>1, <2>2, <2>3, <2>4, Zenon DEF MQTTDeserialize_publish, at, end
<1>12. Fields(m) = result
  <2>1. m \in [type : {PUBLISH}, dup : {0, 1}, qos : 0..2, retained : {0, 1},
               packetid : Numbers, topicName : Texts, payload : Seq(Nat)]
    BY PublishAssumption
  <2> QED BY <2>1 DEF Fields
<1> QED BY <1>10, <1>11, <1>12

\* A request without a rest: a ping or a disconnection.
LEMMA ZeroWritten ==
  ASSUME NEW type \in {PINGREQ, DISCONNECT}, NEW n \in Nat
  PROVE  /\ Serialized([type |-> type], n) =
              IF n < 2 THEN Refused ELSE Packet(MQTTHeader(type, 0, 0, 0), << >>, 0)
         /\ Sendable(MQTTHeader(type, 0, 0, 0), << >>)
         /\ Len(PacketOf(MQTTHeader(type, 0, 0, 0), << >>)) = 2
         /\ Packet(MQTTHeader(type, 0, 0, 0), << >>, 0) =
              [rc |-> 2, bytes |-> PacketOf(MQTTHeader(type, 0, 0, 0), << >>)]
<1> DEFINE h == MQTTHeader(type, 0, 0, 0)
           none == << >>
<1>1. Serialized([type |-> type], n) = MQTTSerialize_zero(n, type)
  BY DEF Serialized, CONNECT, PUBLISH, SUBSCRIBE, UNSUBSCRIBE, PINGREQ, DISCONNECT
<1>2. h \in Nat
  BY HeaderRead, PacketTypes
<1>3. none \in Seq(Nat) /\ Len(none) = 0
  OBVIOUS
<1> HIDE DEF h, none
<1>4. 0 < R4 /\ 0 < Radix
  BY Radices
<1>5. Sendable(h, none)
  BY <1>2, <1>3, <1>4 DEF Sendable
<1>6. Len(MQTTPacket_encode(0)) = 1
  BY <1>4, Encoded
<1>7. Len(PacketOf(h, none)) = 2
  <2>1. Digits(none) = 1
    BY <1>3, <1>6 DEF Digits
  <2>2. Len(PacketOf(h, none)) = 1 + Digits(none) + Len(none)
    BY <1>5, PacketBytes
  <2> QED BY <1>3, <2>1, <2>2
<1>8. Packet(h, none, 0) = [rc |-> 2, bytes |-> PacketOf(h, none)]
  BY <1>3, <1>5, <1>7, PacketBytes
<1> QED BY <1>1, <1>5, <1>7, <1>8 DEF h, none, MQTTSerialize_zero

\* The flags of a connection are where they were put.
LEMMA FlagsRead ==
  ASSUME NEW o \in ConnectOptions
  PROVE  /\ ConnectFlags(o) \in Nat
         /\ Bits(ConnectFlags(o), 2, 2) = o.cleansession
         /\ Bits(ConnectFlags(o), 4, 2) = o.willFlag
         /\ o.willFlag = 1 => /\ Bits(ConnectFlags(o), 8, 4) = o.willQoS
                              /\ Bits(ConnectFlags(o), 32, 2) = o.willRetain
         /\ Bits(ConnectFlags(o), 64, 2) = (IF o.password.given THEN 1 ELSE 0)
         /\ Bits(ConnectFlags(o), 128, 2) = (IF o.username.given THEN 1 ELSE 0)
<1> DEFINE f == ConnectFlags(o)
           c == o.cleansession
           w == o.willFlag
           q == o.willQoS
           r == o.willRetain
           p == IF o.password.given THEN 1 ELSE 0
           u == IF o.username.given THEN 1 ELSE 0
<1>1. c \in 0..1 /\ w \in 0..1 /\ q \in 0..2 /\ r \in 0..1
  <2>1. o.cleansession \in {0, 1} /\ o.willFlag \in {0, 1} /\ o.willQoS \in 0..2 /\ o.willRetain \in {0, 1}
    BY ConnectAssumption
  <2> QED BY <2>1
<1>2. p \in 0..1 /\ u \in 0..1
  OBVIOUS
<1>3. f = 2 * c + w * (4 + 8 * q + 32 * r) + 64 * p + 128 * u
  <2>1. (IF o.password.given THEN 64 ELSE 0) = 64 * p
    OBVIOUS
  <2>2. (IF o.username.given THEN 128 ELSE 0) = 128 * u
    OBVIOUS
  <2> HIDE DEF p, u
  <2> QED BY <2>1, <2>2 DEF ConnectFlags
<1> HIDE DEF f, c, w, q, r, p, u
<1>4. w = 0 \/ w = 1
  BY <1>1
<1> DEFINE x == IF w = 1 THEN q ELSE 0
           y == IF w = 1 THEN r ELSE 0
<1>5. x \in 0..2 /\ y \in 0..1
  BY <1>1
<1>6. f = 2 * c + 4 * w + 8 * x + 32 * y + 64 * p + 128 * u
  <2>1. CASE w = 0
    BY <1>1, <1>2, <1>3, <2>1
  <2>2. CASE w = 1
    BY <1>1, <1>2, <1>3, <2>2
  <2> QED BY <1>4, <2>1, <2>2
<1>7. w = 1 => x = q /\ y = r
  OBVIOUS
<1> HIDE DEF x, y
<1>8. f \in Nat
  BY <1>1, <1>2, <1>5, <1>6
<1>9. (f \div 2) % 2 = c
  BY <1>1, <1>2, <1>5, <1>6
<1>10. (f \div 4) % 2 = w
  BY <1>1, <1>2, <1>5, <1>6
<1>11. (f \div 8) % 4 = x
  BY <1>1, <1>2, <1>5, <1>6
<1>12. (f \div 32) % 2 = y
  BY <1>1, <1>2, <1>5, <1>6
<1>13. (f \div 64) % 2 = p
  BY <1>1, <1>2, <1>5, <1>6
<1>14. (f \div 128) % 2 = u
  BY <1>1, <1>2, <1>5, <1>6
<1>15. /\ Bits(f, 2, 2) = c /\ Bits(f, 4, 2) = w /\ Bits(f, 8, 4) = x /\ Bits(f, 32, 2) = y
       /\ Bits(f, 64, 2) = p /\ Bits(f, 128, 2) = u
  BY <1>9, <1>10, <1>11, <1>12, <1>13, <1>14 DEF Bits
<1> QED BY <1>7, <1>8, <1>15, Zenon DEF f, c, w, q, r, p, u

\* A string that may be left out, where the packet has none for it.
Optional(s) == IF s.given THEN writeMQTTString(s) ELSE << >>
SizeOf(s)   == IF s.given THEN MQTTstrlen(s) + 2 ELSE 0

\* It is written when it is given.
LEMMA OptionalWritten ==
  ASSUME NEW s \in Texts \cup {NullString}
  PROVE  /\ s.given \in BOOLEAN /\ (s.given <=> s \in Texts) /\ (~s.given => s = NullString)
         /\ Optional(s) \in Seq(Nat) /\ Len(Optional(s)) = SizeOf(s) /\ SizeOf(s) \in Nat
<1>1. CASE s \in Texts
  <2>1. /\ s.given = TRUE /\ writeMQTTString(s) \in Seq(Nat)
        /\ Len(writeMQTTString(s)) = MQTTstrlen(s) + 2 /\ Len(s.chars) \in Nat
    BY <1>1, TextWritten
  <2>2. MQTTstrlen(s) + 2 \in Nat
    BY <2>1 DEF MQTTstrlen
  <2> QED BY <1>1, <2>1, <2>2 DEF Optional, SizeOf
<1>2. CASE s \notin Texts
  <2>1. s = NullString /\ s.given = FALSE
    BY <1>2 DEF NullString
  <2>2. Optional(s) = << >> /\ SizeOf(s) = 0
    BY <2>1 DEF Optional, SizeOf
  <2>3. << >> \in Seq(Nat) /\ Len(<< >>) = 0
    OBVIOUS
  <2>4. Optional(s) \in Seq(Nat) /\ Len(Optional(s)) = 0
    BY <2>2, <2>3
  <2>5. Len(Optional(s)) = SizeOf(s) /\ SizeOf(s) \in Nat
    BY <2>2, <2>4
  <2> QED BY <1>2, <2>1, <2>4, <2>5
<1> QED BY <1>1, <1>2

\* A connection: the protocol's name and its version, the flags, the time to
\* keep it alive, and the strings that there are.
Protocol(o) == IF o.MQTTVersion = 4 THEN writeCString(MQTT) \o <<4>>
                                    ELSE writeCString(MQIsdp) \o <<3>>
Will(o) == IF o.willFlag = 0 THEN << >>
           ELSE writeMQTTString(o.topicName) \o writeMQTTString(o.message)
ConnectRest(o) ==
  Protocol(o) \o <<ConnectFlags(o)>> \o writeInt(o.keepAliveInterval) \o writeMQTTString(o.clientID)
    \o Will(o) \o Optional(o.username) \o Optional(o.password)
ConnectHeader == MQTTHeader(CONNECT, 0, 0, 0)

\* The names of the protocols are strings.
LEMMA ProtocolNames ==
  /\ MQTTString(MQTT) \in Texts /\ Len(MQTT) = 4
  /\ MQTTString(MQIsdp) \in Texts /\ Len(MQIsdp) = 6
<1>1. 8 < Byte * Byte
  <2>1. Byte \in Nat /\ Byte >= 4
    BY Radices
  <2> QED BY <2>1, Z3
<1>2. MQTT \in Seq(Nat) /\ Len(MQTT) = 4
  BY DEF MQTT
<1>3. MQIsdp \in Seq(Nat) /\ Len(MQIsdp) = 6
  BY DEF MQIsdp
<1>4. ASSUME NEW name \in Seq(Nat), Len(name) < Byte * Byte
      PROVE  MQTTString(name) \in Texts
  BY <1>4 DEF Texts, MQTTString
<1>5. Byte * Byte \in Nat
  BY Radices
<1>6. Len(MQTT) < Byte * Byte /\ Len(MQIsdp) < Byte * Byte
  <2> DEFINE l == Byte * Byte
  <2>1. 8 < l /\ l \in Nat
    BY <1>1, <1>5
  <2> HIDE DEF l
  <2>2. Len(MQTT) < l /\ Len(MQIsdp) < l
    BY <1>2, <1>3, <2>1
  <2> QED BY <2>2 DEF l
<1> QED BY <1>2, <1>3, <1>4, <1>6

\* The fields of a connection.
LEMMA ConnectFields ==
  ASSUME NEW o \in ConnectOptions
  PROVE  /\ o.type = CONNECT /\ o.MQTTVersion \in {3, 4} /\ o.clientID \in Texts
         /\ o.keepAliveInterval \in Numbers /\ o.cleansession \in {0, 1} /\ o.willFlag \in {0, 1}
         /\ o.username \in Texts \cup {NullString} /\ o.password \in Texts \cup {NullString}
         /\ o.willFlag = 1 => o.topicName \in Texts /\ o.message \in Texts
         /\ o.willFlag = 0 => /\ o.willQoS = 0 /\ o.willRetain = 0
                              /\ o.topicName = NullString /\ o.message = NullString
BY ConnectAssumption

\* Where its parts are in the packet.
WillSize(o) == IF o.willFlag = 0 THEN 0
               ELSE MQTTstrlen(o.topicName) + 2 + MQTTstrlen(o.message) + 2
ProtocolSize(o) == IF o.MQTTVersion = 3 THEN 9 ELSE 7

\* They are sequences of bytes.
LEMMA ConnectParts ==
  ASSUME NEW o \in ConnectOptions
  PROVE  /\ Protocol(o) \in Seq(Nat) /\ Len(Protocol(o)) = ProtocolSize(o) /\ ProtocolSize(o) \in Nat
         /\ <<ConnectFlags(o)>> \in Seq(Nat) /\ Len(<<ConnectFlags(o)>>) = 1
         /\ writeInt(o.keepAliveInterval) \in Seq(Nat) /\ Len(writeInt(o.keepAliveInterval)) = 2
         /\ writeMQTTString(o.clientID) \in Seq(Nat)
         /\ Len(writeMQTTString(o.clientID)) = Len(o.clientID.chars) + 2
         /\ Len(o.clientID.chars) \in Nat
         /\ Will(o) \in Seq(Nat) /\ Len(Will(o)) = WillSize(o) /\ WillSize(o) \in Nat
         /\ Optional(o.username) \in Seq(Nat) /\ Len(Optional(o.username)) = SizeOf(o.username)
         /\ Optional(o.password) \in Seq(Nat) /\ Len(Optional(o.password)) = SizeOf(o.password)
         /\ SizeOf(o.username) \in Nat /\ SizeOf(o.password) \in Nat
<1>1. Protocol(o) \in Seq(Nat) /\ Len(Protocol(o)) = ProtocolSize(o) /\ ProtocolSize(o) \in Nat
  <2>1. ASSUME NEW name, MQTTString(name) \in Texts, NEW v \in Nat
        PROVE  /\ writeCString(name) \o <<v>> \in Seq(Nat)
               /\ Len(writeCString(name) \o <<v>>) = Len(name) + 3
    <3> DEFINE s == writeCString(name)
               t == <<v>>
    <3>1. s \in Seq(Nat) /\ Len(s) = Len(name) + 2 /\ Len(name) \in Nat
      <4>1. /\ writeMQTTString(MQTTString(name)) \in Seq(Nat) /\ Len(MQTTString(name).chars) \in Nat
            /\ Len(writeMQTTString(MQTTString(name))) = MQTTstrlen(MQTTString(name)) + 2
        BY <2>1, TextWritten
      <4>2. MQTTString(name).chars = name /\ MQTTString(name).given = TRUE
        BY DEF MQTTString
      <4> QED BY <4>1, <4>2 DEF writeMQTTString, MQTTstrlen
    <3>2. t \in Seq(Nat) /\ Len(t) = 1
      BY <2>1
    <3> HIDE DEF s, t
    <3>3. s \o t \in Seq(Nat) /\ Len(s \o t) = Len(s) + Len(t)
      BY <3>1, <3>2, Concatenated
    <3>4. s \o t \in Seq(Nat) /\ Len(s \o t) = Len(name) + 3
      BY <3>1, <3>2, <3>3
    <3> QED BY <3>4 DEF s, t
  <2>2. o.MQTTVersion = 3 \/ o.MQTTVersion = 4
    BY ConnectFields
  <2>3. CASE o.MQTTVersion = 4
    <3> DEFINE v == 4
    <3>1. v \in Nat /\ ProtocolSize(o) = 7 /\ Len(MQTT) = 4
      BY <2>3, ProtocolNames DEF ProtocolSize
    <3> HIDE DEF v
    <3>2. /\ writeCString(MQTT) \o <<v>> \in Seq(Nat)
          /\ Len(writeCString(MQTT) \o <<v>>) = Len(MQTT) + 3
      BY <2>1, <3>1, ProtocolNames
    <3>3. Protocol(o) = writeCString(MQTT) \o <<v>>
      BY <2>3 DEF Protocol, v
    <3> QED BY <3>1, <3>2, <3>3
  <2>4. CASE o.MQTTVersion = 3
    <3> DEFINE v == 3
    <3>1. v \in Nat /\ ProtocolSize(o) = 9 /\ Len(MQIsdp) = 6
      BY <2>4, ProtocolNames DEF ProtocolSize
    <3> HIDE DEF v
    <3>2. /\ writeCString(MQIsdp) \o <<v>> \in Seq(Nat)
          /\ Len(writeCString(MQIsdp) \o <<v>>) = Len(MQIsdp) + 3
      BY <2>1, <3>1, ProtocolNames
    <3>3. Protocol(o) = writeCString(MQIsdp) \o <<v>>
      BY <2>4 DEF Protocol, v
    <3> QED BY <3>1, <3>2, <3>3
  <2> QED BY <2>2, <2>3, <2>4
<1>2. <<ConnectFlags(o)>> \in Seq(Nat) /\ Len(<<ConnectFlags(o)>>) = 1
  <2>1. ConnectFlags(o) \in Nat
    BY FlagsRead
  <2> QED BY <2>1
<1>3. writeInt(o.keepAliveInterval) \in Seq(Nat) /\ Len(writeInt(o.keepAliveInterval)) = 2
  BY ConnectFields, IntWritten
<1>4. /\ writeMQTTString(o.clientID) \in Seq(Nat) /\ Len(o.clientID.chars) \in Nat
      /\ Len(writeMQTTString(o.clientID)) = Len(o.clientID.chars) + 2
  <2>1. o.clientID \in Texts
    BY ConnectFields
  <2> QED BY <2>1, TextWritten DEF MQTTstrlen
<1>5. Will(o) \in Seq(Nat) /\ Len(Will(o)) = WillSize(o) /\ WillSize(o) \in Nat
  <2>1. CASE o.willFlag = 0
    BY <2>1 DEF Will, WillSize
  <2>2. CASE o.willFlag # 0
    <3> DEFINE s == writeMQTTString(o.topicName)
               t == writeMQTTString(o.message)
               m == MQTTstrlen(o.topicName)
               n == MQTTstrlen(o.message)
    <3>1. o.topicName \in Texts /\ o.message \in Texts
      BY <2>2, ConnectFields
    <3>2. s \in Seq(Nat) /\ t \in Seq(Nat) /\ Len(s) = m + 2 /\ Len(t) = n + 2
      BY <3>1, TextWritten
    <3>3. m \in Nat /\ n \in Nat
      BY <3>1, TextWritten DEF MQTTstrlen
    <3>4. Will(o) = s \o t /\ WillSize(o) = m + 2 + n + 2
      BY <2>2 DEF Will, WillSize
    <3> HIDE DEF s, t, m, n
    <3>5. s \o t \in Seq(Nat) /\ Len(s \o t) = Len(s) + Len(t)
      BY <3>2, Concatenated
    <3> QED BY <3>2, <3>3, <3>4, <3>5
  <2> QED BY <2>1, <2>2
<1>6. /\ Optional(o.username) \in Seq(Nat) /\ Len(Optional(o.username)) = SizeOf(o.username)
      /\ Optional(o.password) \in Seq(Nat) /\ Len(Optional(o.password)) = SizeOf(o.password)
      /\ SizeOf(o.username) \in Nat /\ SizeOf(o.password) \in Nat
  <2>1. o.username \in Texts \cup {NullString} /\ o.password \in Texts \cup {NullString}
    BY ConnectFields
  <2> QED BY <2>1, OptionalWritten
<1> QED BY <1>1, <1>2, <1>3, <1>4, <1>5, <1>6

\* How it is written.
LEMMA ConnectWritten ==
  ASSUME NEW o \in ConnectOptions
  PROVE  SerializedAs(o, ConnectHeader, ConnectRest(o))
<1> DEFINE p == Protocol(o)
           f == <<ConnectFlags(o)>>
           k == writeInt(o.keepAliveInterval)
           c == writeMQTTString(o.clientID)
           w == Will(o)
           u == Optional(o.username)
           v == Optional(o.password)
           rest == ConnectRest(o)
           clientSize == Len(o.clientID.chars)
           willSize == WillSize(o)
           userSize == SizeOf(o.username)
           passSize == SizeOf(o.password)
           protocolSize == ProtocolSize(o)
<1>1. /\ p \in Seq(Nat) /\ f \in Seq(Nat) /\ k \in Seq(Nat) /\ c \in Seq(Nat) /\ w \in Seq(Nat)
      /\ u \in Seq(Nat) /\ v \in Seq(Nat)
  BY ConnectParts
<1>2. /\ Len(p) = protocolSize /\ Len(f) = 1 /\ Len(k) = 2 /\ Len(c) = clientSize + 2
      /\ Len(w) = willSize /\ Len(u) = userSize /\ Len(v) = passSize
  BY ConnectParts
<1>3. /\ clientSize \in Nat /\ willSize \in Nat /\ userSize \in Nat /\ passSize \in Nat
      /\ protocolSize \in Nat
  BY ConnectParts
<1>4. rest = p \o f \o k \o c \o w \o u \o v
  BY DEF ConnectRest
<1>5. o.MQTTVersion \in {3, 4} /\ o.type = CONNECT
  BY ConnectFields
<1>6. ConnectLength(o) = protocolSize + 3 + (clientSize + 2) + willSize + userSize + passSize
  <2>1. (IF o.MQTTVersion = 3 THEN 12 ELSE 10) = protocolSize + 3
    BY DEF ProtocolSize
  <2>2. ConnectLength(o) = (IF o.MQTTVersion = 3 THEN 12 ELSE 10) + clientSize + 2 + willSize
                             + userSize + passSize
    BY Zenon DEF ConnectLength, WillSize, SizeOf, MQTTstrlen
  <2> HIDE DEF clientSize, willSize, userSize, passSize, protocolSize
  <2> QED BY <1>3, <2>1, <2>2
<1> HIDE DEF p, f, k, c, w, u, v, rest, clientSize, willSize, userSize, passSize, protocolSize
<1> DEFINE x == p \o f \o k
           y == x \o c \o w
<1>7. x \in Seq(Nat) /\ Len(x) = protocolSize + 3
  <2>1. x \in Seq(Nat) /\ Len(x) = Len(p) + Len(f) + Len(k)
    BY <1>1, ThreeParts
  <2> HIDE DEF x
  <2> QED BY <1>2, <1>3, <2>1
<1> HIDE DEF x
<1>8. y \in Seq(Nat) /\ Len(y) = protocolSize + 3 + (clientSize + 2) + willSize
  <2>1. y \in Seq(Nat) /\ Len(y) = Len(x) + Len(c) + Len(w)
    BY <1>1, <1>7, ThreeParts
  <2> HIDE DEF y
  <2> QED BY <1>2, <1>3, <1>7, <2>1
<1> HIDE DEF y
<1>9. rest \in Seq(Nat) /\ Len(rest) = ConnectLength(o)
  <2>1. y \o u \o v \in Seq(Nat) /\ Len(y \o u \o v) = Len(y) + Len(u) + Len(v)
    BY <1>1, <1>8, ThreeParts
  <2>2. rest = y \o u \o v
    BY <1>4 DEF x, y
  <2> QED BY <1>2, <1>3, <1>6, <1>8, <2>1, <2>2
<1>10. ConnectHeader \in Nat
  BY HeaderRead, PacketTypes DEF ConnectHeader
<1>11. ASSUME NEW n \in Nat
       PROVE  Serialized(o, n) = MQTTSerialize_connect(n, o)
  BY <1>5 DEF Serialized, CONNECT, PUBLISH, SUBSCRIBE, UNSUBSCRIBE
<1>12. ASSUME NEW n \in Nat
       PROVE  MQTTSerialize_connect(n, o) = IF MQTTPacket_len(Len(rest)) > n THEN Refused
                                            ELSE Packet(ConnectHeader, rest, Len(rest))
  BY <1>4, <1>9, Zenon DEF MQTTSerialize_connect, p, f, k, c, w, u, v, ConnectHeader, Protocol, Will,
     Optional
<1> QED BY <1>9, <1>10, <1>11, <1>12 DEF SerializedAs, rest

\* A buffer that holds the rest of a connection from place `at` on.
ConnectHeld(o, b, at) ==
  LET p == at + ProtocolSize(o)
      c == p + 3
      w == c + 2 + Len(o.clientID.chars)
      u == w + WillSize(o)
  IN /\ Holds(b, at, Protocol(o)) /\ Holds(b, p, <<ConnectFlags(o)>>)
     /\ Holds(b, p + 1, writeInt(o.keepAliveInterval)) /\ Holds(b, c, writeMQTTString(o.clientID))
     /\ Holds(b, w, Will(o)) /\ Holds(b, u, Optional(o.username))
     /\ Holds(b, u + SizeOf(o.username), Optional(o.password))
     /\ Len(ConnectRest(o)) = (u + SizeOf(o.username) + SizeOf(o.password)) - at

\* Each part is where the ones before it end.
LEMMA ConnectInside ==
  ASSUME NEW o \in ConnectOptions, NEW b, NEW at \in Nat, Holds(b, at, ConnectRest(o))
  PROVE  ConnectHeld(o, b, at)
<1> DEFINE p == Protocol(o)
           f == <<ConnectFlags(o)>>
           k == writeInt(o.keepAliveInterval)
           c == writeMQTTString(o.clientID)
           w == Will(o)
           u == Optional(o.username)
           v == Optional(o.password)
           clientSize == Len(o.clientID.chars)
           willSize == WillSize(o)
           userSize == SizeOf(o.username)
           passSize == SizeOf(o.password)
           protocolSize == ProtocolSize(o)
           rest == ConnectRest(o)
<1>1. /\ p \in Seq(Nat) /\ f \in Seq(Nat) /\ k \in Seq(Nat) /\ c \in Seq(Nat) /\ w \in Seq(Nat)
      /\ u \in Seq(Nat) /\ v \in Seq(Nat)
  BY ConnectParts
<1>2. /\ Len(p) = protocolSize /\ Len(f) = 1 /\ Len(k) = 2 /\ Len(c) = clientSize + 2
      /\ Len(w) = willSize /\ Len(u) = userSize /\ Len(v) = passSize
  BY ConnectParts
<1>3. /\ clientSize \in Nat /\ willSize \in Nat /\ userSize \in Nat /\ passSize \in Nat
      /\ protocolSize \in Nat
  BY ConnectParts
<1>4. rest = p \o f \o k \o c \o w \o u \o v
  BY DEF ConnectRest
<1> HIDE DEF p, f, k, c, w, u, v, clientSize, willSize, userSize, passSize, protocolSize
<1> DEFINE x == p \o f \o k
           y == x \o c \o w
<1>5. x \in Seq(Nat) /\ Len(x) = Len(p) + Len(f) + Len(k)
  BY <1>1, ThreeParts
<1>6. Len(x) = protocolSize + 3
  <2> HIDE DEF x
  <2> QED BY <1>2, <1>3, <1>5
<1> HIDE DEF x
<1>7. y \in Seq(Nat) /\ Len(y) = Len(x) + Len(c) + Len(w)
  BY <1>1, <1>5, ThreeParts
<1>8. Len(y) = protocolSize + 3 + (clientSize + 2) + willSize
  <2> HIDE DEF y
  <2> QED BY <1>2, <1>3, <1>6, <1>7
<1> HIDE DEF y
<1>9. rest = y \o u \o v /\ Len(rest) = Len(y) + Len(u) + Len(v)
  <2>1. rest = y \o u \o v
    BY <1>4 DEF x, y
  <2>2. Len(y \o u \o v) = Len(y) + Len(u) + Len(v)
    BY <1>1, <1>7, ThreeParts
  <2> QED BY <2>1, <2>2
<1>10. Holds(b, at, y) /\ Holds(b, at + Len(y), u) /\ Holds(b, at + Len(y) + Len(u), v)
  <2>1. Holds(b, at, y \o u \o v)
    BY <1>9
  <2> QED BY <1>1, <1>7, <2>1, HoldsThree
<1>11. Holds(b, at, x) /\ Holds(b, at + Len(x), c) /\ Holds(b, at + Len(x) + Len(c), w)
  BY <1>1, <1>5, <1>10, HoldsThree DEF y
<1>12. Holds(b, at, p) /\ Holds(b, at + Len(p), f) /\ Holds(b, at + Len(p) + Len(f), k)
  BY <1>1, <1>11, HoldsThree DEF x
<1> DEFINE atP == at + protocolSize
           atC == atP + 3
           atW == atC + 2 + clientSize
           atU == atW + willSize
<1>13. /\ at + Len(p) = atP /\ at + Len(p) + Len(f) = atP + 1
       /\ at + Len(x) = atC /\ at + Len(x) + Len(c) = atW
       /\ at + Len(y) = atU /\ at + Len(y) + Len(u) = atU + userSize
       /\ Len(rest) = (atU + userSize + passSize) - at
  <2> HIDE DEF rest
  <2> QED BY <1>2, <1>3, <1>6, <1>8, <1>9
<1>14. /\ Holds(b, at, p) /\ Holds(b, atP, f) /\ Holds(b, atP + 1, k) /\ Holds(b, atC, c)
       /\ Holds(b, atW, w) /\ Holds(b, atU, u) /\ Holds(b, atU + userSize, v)
  <2> HIDE DEF atP, atC, atW, atU
  <2> QED BY <1>10, <1>11, <1>12, <1>13
<1> QED BY <1>13, <1>14, Zenon DEF ConnectHeld, p, f, k, c, w, u, v, clientSize, willSize, userSize,
           passSize, protocolSize, atP, atC, atW, atU, rest

\* An empty string is one without characters.
LEMMA EmptyText ==
  ASSUME NEW s \in Texts \cup {NullString}
  PROVE  s = MQTTString(<< >>) <=> s.given /\ SizeOf(s) = 2
<1>1. CASE s \in Texts
  <2>1. s = MQTTString(s.chars) /\ s.given = TRUE /\ s.chars \in Seq(Nat) /\ Len(s.chars) \in Nat
    BY <1>1, TextWritten
  <2>2. SizeOf(s) = Len(s.chars) + 2
    BY <2>1 DEF SizeOf, MQTTstrlen
  <2>3. SizeOf(s) = 2 <=> Len(s.chars) = 0
    <3> DEFINE l == Len(s.chars)
    <3>1. l \in Nat /\ SizeOf(s) = l + 2
      BY <2>1, <2>2
    <3> HIDE DEF l
    <3>2. SizeOf(s) = 2 <=> l = 0
      BY <3>1
    <3> QED BY <3>2 DEF l
  <2>4. Len(s.chars) = 0 <=> s.chars = << >>
    BY <2>1
  <2>5. s = MQTTString(<< >>) => s.chars = << >>
    BY DEF MQTTString
  <2>6. s.chars = << >> => s = MQTTString(<< >>)
    BY <2>1
  <2> QED BY <2>1, <2>3, <2>4, <2>5, <2>6
<1>2. CASE s \notin Texts
  <2>1. s.given = FALSE
    BY <1>2 DEF NullString
  <2>2. MQTTString(<< >>).given = TRUE
    BY DEF MQTTString
  <2> QED BY <2>1, <2>2
<1> QED BY <1>1, <1>2

\* What the server takes: as much as it asks for is left of the packet.
LEMMA Acceptable ==
  ASSUME NEW o \in ConnectOptions
  PROVE  Unacceptable(o) <=>
           ~ /\ o.username.given => SizeOf(o.username) + SizeOf(o.password) >= 3
             /\ o.password.given => o.username.given /\ SizeOf(o.password) >= 3
<1> DEFINE u == SizeOf(o.username)
           v == SizeOf(o.password)
<1>1. o.username \in Texts \cup {NullString} /\ o.password \in Texts \cup {NullString}
  BY ConnectFields
<1>2. u \in Nat /\ v \in Nat /\ o.username.given \in BOOLEAN /\ o.password.given \in BOOLEAN
  BY <1>1, OptionalWritten
<1>3. (o.username.given => u >= 2) /\ (~o.username.given => u = 0)
  <2>1. o.username.given => MQTTstrlen(o.username) \in Nat
    BY <1>1, OptionalWritten, TextWritten DEF MQTTstrlen
  <2> QED BY <2>1 DEF SizeOf
<1>4. (o.password.given => v >= 2) /\ (~o.password.given => v = 0)
  <2>1. o.password.given => MQTTstrlen(o.password) \in Nat
    BY <1>1, OptionalWritten, TextWritten DEF MQTTstrlen
  <2> QED BY <2>1 DEF SizeOf
<1>5. /\ o.username = MQTTString(<< >>) <=> o.username.given /\ u = 2
      /\ o.password = MQTTString(<< >>) <=> o.password.given /\ v = 2
  BY <1>1, EmptyText
<1> HIDE DEF u, v
<1>6. CASE o.username.given /\ o.password.given
  BY <1>2, <1>3, <1>4, <1>5, <1>6 DEF Unacceptable, u, v
<1>7. CASE o.username.given /\ ~o.password.given
  BY <1>2, <1>3, <1>4, <1>5, <1>7 DEF Unacceptable, u, v
<1>8. CASE ~o.username.given
  BY <1>2, <1>3, <1>4, <1>5, <1>8 DEF Unacceptable, u, v
<1> QED BY <1>2, <1>6, <1>7, <1>8

\* The server reads the protocol's name and its version.
LEMMA ProtocolRead ==
  ASSUME NEW o \in ConnectOptions, NEW b, NEW at \in Nat, NEW end \in Nat,
         Holds(b, at, Protocol(o)), at + ProtocolSize(o) <= end
  PROVE  LET protocol == readMQTTLenString(b, at, end) IN
         /\ protocol.rc = 1 /\ protocol.next = at + ProtocolSize(o) - 1
         /\ MQTTPacket_checkVersion(protocol.string, b[protocol.next])
<1>1. ASSUME NEW name, MQTTString(name) \in Texts, NEW v \in {3, 4},
             Holds(b, at, writeCString(name) \o <<v>>), at + Len(name) + 3 <= end
      PROVE  /\ readMQTTLenString(b, at, end) =
                  [rc |-> 1, string |-> MQTTString(name), next |-> at + 2 + Len(name)]
             /\ b[at + 2 + Len(name)] = v /\ Len(name) \in Nat
  <2> DEFINE s == writeCString(name)
             t == <<v>>
             l == Len(name)
  <2>1. /\ writeMQTTString(MQTTString(name)) = s /\ MQTTString(name).chars = name
        /\ s \in Seq(Nat) /\ Len(s) = l + 2 /\ l \in Nat
    <3>1. MQTTString(name).chars = name /\ MQTTString(name).given = TRUE
      BY DEF MQTTString
    <3>2. writeMQTTString(MQTTString(name)) = s
      BY <3>1 DEF writeMQTTString
    <3>3. /\ writeMQTTString(MQTTString(name)) \in Seq(Nat) /\ Len(MQTTString(name).chars) \in Nat
          /\ Len(writeMQTTString(MQTTString(name))) = MQTTstrlen(MQTTString(name)) + 2
      BY <1>1, TextWritten
    <3> QED BY <3>1, <3>2, <3>3 DEF MQTTstrlen
  <2>2. t \in Seq(Nat)
    BY <1>1
  <2>3. Holds(b, at, s) /\ Holds(b, at + Len(s), t)
    <3>1. Holds(b, at, s \o t)
      BY <1>1
    <3> HIDE DEF s, t
    <3> QED BY <2>1, <2>2, <3>1, HoldsBoth
  <2>4. b[at + Len(s)] = v
    <3> DEFINE place == at + Len(s)
    <3>1. place \in Nat /\ Holds(b, place, <<v>>)
      BY <2>1, <2>3
    <3> HIDE DEF place
    <3>2. b[place] = v
      BY <3>1, HoldsOne
    <3> QED BY <3>2 DEF place
  <2>5. at + Len(s) = at + 2 + l /\ at + 2 + l <= end
    <3>1. at + l + 3 <= end /\ l \in Nat /\ Len(s) = l + 2
      BY <1>1, <2>1
    <3> HIDE DEF l, s
    <3> QED BY <3>1
  <2>6. readMQTTLenString(b, at, end) = [rc |-> 1, string |-> MQTTString(name), next |-> at + 2 + l]
    <3> DEFINE text == MQTTString(name)
    <3>1. text \in Texts /\ Holds(b, at, writeMQTTString(text)) /\ Len(text.chars) = l
      BY <1>1, <2>1, <2>3
    <3>2. at + 2 + Len(text.chars) <= end
      BY <2>5, <3>1
    <3> HIDE DEF text, l
    <3>3. readMQTTLenString(b, at, end) = [rc |-> 1, string |-> text, next |-> at + 2 + Len(text.chars)]
      BY <3>1, <3>2, TextRead
    <3> QED BY <3>1, <3>3 DEF text
  <2> HIDE DEF s
  <2> QED BY <2>1, <2>4, <2>5, <2>6
<1>2. o.MQTTVersion = 3 \/ o.MQTTVersion = 4
  BY ConnectFields
<1>3. CASE o.MQTTVersion = 4
  <2> DEFINE v == 4
             l == Len(MQTT)
  <2>1. /\ v \in {3, 4} /\ Holds(b, at, writeCString(MQTT) \o <<v>>) /\ l = 4
        /\ ProtocolSize(o) = l + 3 /\ MQTTString(MQTT) \in Texts
    BY <1>3, ProtocolNames DEF Protocol, ProtocolSize
  <2> HIDE DEF v, l
  <2>2. at + l + 3 <= end
    BY <2>1
  <2>3. /\ readMQTTLenString(b, at, end) =
             [rc |-> 1, string |-> MQTTString(MQTT), next |-> at + 2 + l]
        /\ b[at + 2 + l] = v
    BY <1>1, <2>1, <2>2 DEF l
  <2>4. MQTTPacket_checkVersion(MQTTString(MQTT), v)
    <3>1. MQTTString(MQTT).chars = MQTT
      BY DEF MQTTString
    <3> QED BY <3>1, Zenon DEF MQTTPacket_checkVersion, v
  <2>5. at + 2 + l = at + ProtocolSize(o) - 1
    BY <2>1
  <2> QED BY <2>3, <2>4, <2>5
<1>4. CASE o.MQTTVersion = 3
  <2> DEFINE v == 3
             l == Len(MQIsdp)
  <2>1. /\ v \in {3, 4} /\ Holds(b, at, writeCString(MQIsdp) \o <<v>>) /\ l = 6
        /\ ProtocolSize(o) = l + 3 /\ MQTTString(MQIsdp) \in Texts
    BY <1>4, ProtocolNames DEF Protocol, ProtocolSize
  <2> HIDE DEF v, l
  <2>2. at + l + 3 <= end
    BY <2>1
  <2>3. /\ readMQTTLenString(b, at, end) =
             [rc |-> 1, string |-> MQTTString(MQIsdp), next |-> at + 2 + l]
        /\ b[at + 2 + l] = v
    BY <1>1, <2>1, <2>2 DEF l
  <2>4. MQTTPacket_checkVersion(MQTTString(MQIsdp), v)
    <3>1. MQTTString(MQIsdp).chars = MQIsdp
      BY DEF MQTTString
    <3> QED BY <3>1, Zenon DEF MQTTPacket_checkVersion, v
  <2>5. at + 2 + l = at + ProtocolSize(o) - 1
    BY <2>1
  <2> QED BY <2>3, <2>4, <2>5
<1> QED BY <1>2, <1>3, <1>4

\* What the server reads of a connection.
LEMMA ConnectRead ==
  ASSUME NEW o \in ConnectOptions, Sendable(ConnectHeader, ConnectRest(o)),
         NEW b, Contains(b, ConnectHeader, ConnectRest(o)), NEW l, l + 1 = Rest(b).end
  PROVE  /\ HeaderType(b) = CONNECT
         /\ MQTTDeserialize_connect(b, l) = IF Unacceptable(o) THEN [rc |-> 0] ELSE Fields(o)
<1> DEFINE end == l + 1
           start == Rest(b).at
           protocol == readMQTTLenString(b, start, end)
           at == protocol.next
           flags == b[at + 1]
           client == readMQTTLenString(b, at + 4, end)
           topic == readMQTTLenString(b, client.next, end)
           message == readMQTTLenString(b, topic.next, end)
           behind == IF Bits(flags, 4, 2) = 1 THEN message.next ELSE client.next
           user == readMQTTLenString(b, behind, end)
           pass == readMQTTLenString(b, user.next, end)
           accepted ==
             /\ HeaderType(b) = CONNECT /\ protocol.rc = 1
             /\ MQTTPacket_checkVersion(protocol.string, b[at]) /\ client.rc = 1
             /\ Bits(flags, 4, 2) = 1 => topic.rc = 1 /\ message.rc = 1
             /\ Bits(flags, 128, 2) = 1 => end - behind >= 3 /\ user.rc = 1
             /\ Bits(flags, 64, 2) = 1 => /\ Bits(flags, 128, 2) = 1
                                          /\ end - user.next >= 3 /\ pass.rc = 1
           read ==
             [rc |-> 1, cleansession |-> Bits(flags, 2, 2), keepAliveInterval |-> readInt(b, at + 2),
              clientID |-> client.string, willFlag |-> Bits(flags, 4, 2),
              willQoS |-> IF Bits(flags, 4, 2) = 1 THEN Bits(flags, 8, 4) ELSE 0,
              willRetain |-> IF Bits(flags, 4, 2) = 1 THEN Bits(flags, 32, 2) ELSE 0,
              topicName |-> IF Bits(flags, 4, 2) = 1 THEN topic.string ELSE NullString,
              message |-> IF Bits(flags, 4, 2) = 1 THEN message.string ELSE NullString,
              username |-> IF Bits(flags, 128, 2) = 1 THEN user.string ELSE NullString,
              password |-> IF Bits(flags, 64, 2) = 1 THEN pass.string ELSE NullString]
<1>1. MQTTDeserialize_connect(b, l) = IF accepted THEN read ELSE [rc |-> 0]
  BY Zenon DEF MQTTDeserialize_connect
<1>2. HeaderType(b) = CONNECT
  <2>1. b[1] = ConnectHeader
    BY RestRead
  <2>2. Bits(ConnectHeader, 16, 16) = CONNECT
    BY HeaderRead, PacketTypes DEF ConnectHeader
  <2> QED BY <2>1, <2>2 DEF HeaderType
<1> DEFINE p == start + ProtocolSize(o)
           c == p + 3
           idSize == Len(o.clientID.chars)
           w == c + 2 + idSize
           u == w + WillSize(o)
           v == u + SizeOf(o.username)
<1>3. start \in Nat /\ end \in Nat /\ end = start + Len(ConnectRest(o))
      /\ ConnectHeld(o, b, start)
  BY RestRead, ConnectInside
<1>4. /\ ProtocolSize(o) \in Nat /\ idSize \in Nat /\ WillSize(o) \in Nat
      /\ SizeOf(o.username) \in Nat /\ SizeOf(o.password) \in Nat
  BY ConnectParts
<1>5. /\ Holds(b, start, Protocol(o)) /\ Holds(b, p, <<ConnectFlags(o)>>)
      /\ Holds(b, p + 1, writeInt(o.keepAliveInterval)) /\ Holds(b, c, writeMQTTString(o.clientID))
      /\ Holds(b, w, Will(o)) /\ Holds(b, u, Optional(o.username))
      /\ Holds(b, v, Optional(o.password))
      /\ Len(ConnectRest(o)) = (v + SizeOf(o.password)) - start
  BY <1>3, Zenon DEF ConnectHeld
<1> HIDE DEF end, start
<1>6. /\ p \in Nat /\ c \in Nat /\ w \in Nat /\ u \in Nat /\ v \in Nat
      /\ end = v + SizeOf(o.password)
      /\ p <= end /\ w <= end /\ u <= end /\ v <= end
  <2> DEFINE s1 == ProtocolSize(o)
             s2 == WillSize(o)
             s3 == SizeOf(o.username)
             s4 == SizeOf(o.password)
             n  == Len(ConnectRest(o))
  <2>1. /\ start \in Nat /\ s1 \in Nat /\ idSize \in Nat /\ s2 \in Nat /\ s3 \in Nat /\ s4 \in Nat
        /\ end = start + n /\ n = (v + s4) - start
    BY <1>3, <1>4, <1>5
  <2> HIDE DEF s1, s2, s3, s4, n, idSize
  <2>2. /\ p = start + s1 /\ c = p + 3 /\ w = c + 2 + idSize /\ u = w + s2 /\ v = u + s3
    BY DEF s1, s2, s3
  <2> HIDE DEF p, c, w, u, v
  <2> QED BY <2>1, <2>2 DEF s4
<1> HIDE DEF p, c, w, u, v, idSize, protocol, accepted, read
<1>7. /\ protocol.rc = 1 /\ at = p - 1 /\ MQTTPacket_checkVersion(protocol.string, b[at])
      /\ at + 1 = p /\ at + 2 = p + 1 /\ at + 4 = c
  <2>1. /\ protocol.rc = 1 /\ protocol.next = p - 1
        /\ MQTTPacket_checkVersion(protocol.string, b[protocol.next])
    <3>1. start \in Nat /\ end \in Nat /\ Holds(b, start, Protocol(o)) /\ start + ProtocolSize(o) <= end
      BY <1>3, <1>5, <1>6 DEF p
    <3>2. /\ readMQTTLenString(b, start, end).rc = 1
          /\ readMQTTLenString(b, start, end).next = start + ProtocolSize(o) - 1
          /\ MQTTPacket_checkVersion(readMQTTLenString(b, start, end).string,
                                     b[readMQTTLenString(b, start, end).next])
      BY <3>1, ProtocolRead
    <3>3. protocol = readMQTTLenString(b, start, end) /\ p = start + ProtocolSize(o)
      BY Zenon DEF protocol, p
    <3> DEFINE r == readMQTTLenString(b, start, end)
               n == r.next
    <3>4. protocol = r /\ r.rc = 1 /\ n = p - 1 /\ MQTTPacket_checkVersion(r.string, b[n])
      <4>1. n = p - 1
        <5>1. n = start + ProtocolSize(o) - 1
          BY <3>2
        <5> HIDE DEF n
        <5> QED BY <1>3, <1>4, <3>3, <5>1
      <4> QED BY <3>2, <3>3, <4>1
    <3> HIDE DEF r, protocol
    <3>5. protocol.rc = 1 /\ protocol.next = p - 1
      BY <3>4 DEF n
    <3>6. MQTTPacket_checkVersion(protocol.string, b[protocol.next])
      BY <3>4, Zenon
    <3> QED BY <3>5, <3>6
  <2>2. at = p - 1 /\ at + 1 = p /\ at + 2 = p + 1 /\ at + 4 = c
    BY <1>6, <2>1 DEF c
  <2> QED BY <2>1, <2>2
<1>8. flags = ConnectFlags(o)
  <2>1. b[p] = ConnectFlags(o)
    <3> DEFINE f == ConnectFlags(o)
    <3>1. Holds(b, p, <<f>>)
      BY <1>5
    <3> HIDE DEF f
    <3>2. b[p] = f
      BY <1>6, <3>1, HoldsOne
    <3> QED BY <3>2 DEF f
  <2> QED BY <1>7, <2>1
<1> HIDE DEF flags, at
<1>9. /\ Bits(flags, 2, 2) = o.cleansession /\ Bits(flags, 4, 2) = o.willFlag
      /\ o.willFlag = 1 => Bits(flags, 8, 4) = o.willQoS /\ Bits(flags, 32, 2) = o.willRetain
      /\ Bits(flags, 64, 2) = (IF o.password.given THEN 1 ELSE 0)
      /\ Bits(flags, 128, 2) = (IF o.username.given THEN 1 ELSE 0)
  BY <1>8, FlagsRead
<1>10. readInt(b, at + 2) = o.keepAliveInterval
  <2> DEFINE place == p + 1
  <2>1. place \in Nat /\ Holds(b, place, writeInt(o.keepAliveInterval)) /\ o.keepAliveInterval \in Numbers
    BY <1>5, <1>6, ConnectFields
  <2> HIDE DEF place
  <2>2. readInt(b, place) = o.keepAliveInterval
    BY <2>1, IntRead
  <2> QED BY <1>7, <2>2 DEF place
<1>11. client.rc = 1 /\ client.string = o.clientID /\ client.next = w
  <2>1. o.clientID \in Texts
    BY ConnectFields
  <2>2. c + 2 + Len(o.clientID.chars) <= end
    BY <1>6 DEF w, idSize
  <2>3. readMQTTLenString(b, c, end) =
          [rc |-> 1, string |-> o.clientID, next |-> c + 2 + Len(o.clientID.chars)]
    BY <1>3, <1>5, <1>6, <2>1, <2>2, TextRead
  <2>4. client = readMQTTLenString(b, c, end)
    BY <1>7
  <2> HIDE DEF client
  <2> QED BY <2>3, <2>4 DEF w, idSize
<1> HIDE DEF client
<1>12. o.willFlag = 1 => /\ topic.rc = 1 /\ topic.string = o.topicName
                         /\ message.rc = 1 /\ message.string = o.message /\ message.next = u
  <2> SUFFICES ASSUME o.willFlag = 1
               PROVE  /\ topic.rc = 1 /\ topic.string = o.topicName
                      /\ message.rc = 1 /\ message.string = o.message /\ message.next = u
    OBVIOUS
  <2>1. o.topicName \in Texts /\ o.message \in Texts
    BY ConnectFields
  <2> DEFINE s == writeMQTTString(o.topicName)
             t == writeMQTTString(o.message)
             i == Len(o.topicName.chars)
             j == Len(o.message.chars)
             place == w + 2 + i
  <2>2. /\ s \in Seq(Nat) /\ t \in Seq(Nat) /\ i \in Nat /\ j \in Nat /\ Len(s) = i + 2
    BY <2>1, TextWritten DEF MQTTstrlen
  <2>3. Will(o) = s \o t /\ WillSize(o) = i + 2 + j + 2
    BY DEF Will, WillSize, MQTTstrlen
  <2>4. /\ place \in Nat /\ u = place + 2 + j /\ w + Len(s) = place /\ place <= end
        /\ w + 2 + i <= end /\ place + 2 + j <= end
    <3> HIDE DEF s, t, i, j
    <3> QED BY <1>3, <1>6, <2>2, <2>3 DEF u
  <2>5. Holds(b, w, s) /\ Holds(b, place, t)
    <3>1. Holds(b, w, s \o t)
      BY <1>5, <2>3
    <3> HIDE DEF s, t, place
    <3> QED BY <1>6, <2>2, <2>4, <3>1, HoldsBoth
  <2>6. readMQTTLenString(b, w, end) = [rc |-> 1, string |-> o.topicName, next |-> place]
    BY <1>3, <1>6, <2>1, <2>4, <2>5, TextRead
  <2>7. topic = readMQTTLenString(b, w, end)
    BY <1>11
  <2>8. topic.rc = 1 /\ topic.string = o.topicName /\ topic.next = place
    BY <2>6, <2>7
  <2> HIDE DEF topic, place
  <2>9. readMQTTLenString(b, place, end) =
          [rc |-> 1, string |-> o.message, next |-> place + 2 + Len(o.message.chars)]
    BY <1>3, <2>1, <2>4, <2>5, TextRead
  <2>10. message.rc = 1 /\ message.string = o.message /\ message.next = u
    BY <2>4, <2>8, <2>9
  <2> QED BY <2>8, <2>10
<1>13. o.willFlag = 0 => u = w
  BY <1>6 DEF u, WillSize
<1> HIDE DEF topic, message
<1>14. behind = u
  <2>1. o.willFlag \in {0, 1}
    BY ConnectFields
  <2> QED BY <1>9, <1>11, <1>12, <1>13, <2>1
<1> HIDE DEF behind
<1>15. o.username.given => user.rc = 1 /\ user.string = o.username /\ user.next = v
  <2> SUFFICES ASSUME o.username.given
               PROVE  user.rc = 1 /\ user.string = o.username /\ user.next = v
    OBVIOUS
  <2>1. o.username \in Texts /\ Optional(o.username) = writeMQTTString(o.username)
    BY ConnectFields, OptionalWritten DEF Optional
  <2>2. SizeOf(o.username) = Len(o.username.chars) + 2 /\ Len(o.username.chars) \in Nat
    BY <2>1, TextWritten DEF SizeOf, MQTTstrlen
  <2>3. u + 2 + Len(o.username.chars) = v
    <3> DEFINE n == Len(o.username.chars)
    <3>1. n \in Nat /\ v = u + (n + 2)
      BY <2>2 DEF v
    <3> HIDE DEF n
    <3>2. u + 2 + n = v
      BY <1>6, <3>1
    <3> QED BY <3>2 DEF n
  <2>4. u + 2 + Len(o.username.chars) <= end
    BY <1>6, <2>3
  <2>5. readMQTTLenString(b, u, end) =
          [rc |-> 1, string |-> o.username, next |-> u + 2 + Len(o.username.chars)]
    BY <1>3, <1>5, <1>6, <2>1, <2>4, TextRead
  <2>6. user = readMQTTLenString(b, u, end)
    BY <1>14
  <2> HIDE DEF user
  <2> QED BY <2>3, <2>5, <2>6
<1>16. o.username.given /\ o.password.given => pass.rc = 1 /\ pass.string = o.password
  <2> SUFFICES ASSUME o.username.given, o.password.given
               PROVE  pass.rc = 1 /\ pass.string = o.password
    OBVIOUS
  <2>1. o.password \in Texts /\ Optional(o.password) = writeMQTTString(o.password)
    BY ConnectFields, OptionalWritten DEF Optional
  <2>2. SizeOf(o.password) = Len(o.password.chars) + 2 /\ Len(o.password.chars) \in Nat
    BY <2>1, TextWritten DEF SizeOf, MQTTstrlen
  <2>3. v + 2 + Len(o.password.chars) <= end
    <3> DEFINE n == Len(o.password.chars)
    <3>1. n \in Nat /\ end = v + (n + 2)
      BY <1>6, <2>2
    <3> HIDE DEF n
    <3>2. v + 2 + n <= end
      BY <1>6, <3>1
    <3> QED BY <3>2 DEF n
  <2>4. readMQTTLenString(b, v, end) =
          [rc |-> 1, string |-> o.password, next |-> v + 2 + Len(o.password.chars)]
    BY <1>3, <1>5, <1>6, <2>1, <2>3, TextRead
  <2>5. pass = readMQTTLenString(b, v, end)
    BY <1>15
  <2> HIDE DEF pass
  <2> QED BY <2>4, <2>5
<1> HIDE DEF pass
<1>17. end - behind = SizeOf(o.username) + SizeOf(o.password)
  BY <1>4, <1>6, <1>14 DEF v
<1>18. o.username.given => end - user.next = SizeOf(o.password)
  BY <1>4, <1>6, <1>15
<1> HIDE DEF user
<1>19. o.username.given \in BOOLEAN /\ o.password.given \in BOOLEAN
  BY ConnectFields, OptionalWritten
<1>20. accepted <=> /\ o.username.given => SizeOf(o.username) + SizeOf(o.password) >= 3
                    /\ o.password.given => o.username.given /\ SizeOf(o.password) >= 3
  <2>1. (Bits(flags, 4, 2) = 1 => topic.rc = 1 /\ message.rc = 1)
    BY <1>9, <1>12
  <2>2. (Bits(flags, 128, 2) = 1 <=> o.username.given) /\ (Bits(flags, 64, 2) = 1 <=> o.password.given)
    BY <1>9, <1>19
  <2>3. o.username.given => /\ end - behind = SizeOf(o.username) + SizeOf(o.password)
                            /\ end - user.next = SizeOf(o.password) /\ user.rc = 1
    BY <1>15, <1>17, <1>18
  <2>4. o.username.given /\ o.password.given => pass.rc = 1
    BY <1>16
  <2> QED BY <1>2, <1>7, <1>11, <1>19, <2>1, <2>2, <2>3, <2>4, Zenon DEF accepted
<1>21. accepted <=> ~Unacceptable(o)
  BY <1>20, Acceptable
<1>22. CASE Unacceptable(o)
  BY <1>1, <1>2, <1>21, <1>22
<1>23. CASE ~Unacceptable(o)
  <2> DEFINE result ==
               [rc |-> 1, cleansession |-> o.cleansession, keepAliveInterval |-> o.keepAliveInterval,
                clientID |-> o.clientID, willFlag |-> o.willFlag, willQoS |-> o.willQoS,
                willRetain |-> o.willRetain, topicName |-> o.topicName, message |-> o.message,
                username |-> o.username, password |-> o.password]
  <2>1. o.password.given => o.username.given
    BY <1>23 DEF Unacceptable
  <2>2. /\ (IF Bits(flags, 4, 2) = 1 THEN Bits(flags, 8, 4) ELSE 0) = o.willQoS
        /\ (IF Bits(flags, 4, 2) = 1 THEN Bits(flags, 32, 2) ELSE 0) = o.willRetain
        /\ (IF Bits(flags, 4, 2) = 1 THEN topic.string ELSE NullString) = o.topicName
        /\ (IF Bits(flags, 4, 2) = 1 THEN message.string ELSE NullString) = o.message
    BY <1>9, <1>12, ConnectFields
  <2>3. (IF Bits(flags, 128, 2) = 1 THEN user.string ELSE NullString) = o.username
    <3>1. ~o.username.given => o.username = NullString
      BY ConnectFields, OptionalWritten
    <3> QED BY <1>9, <1>15, <1>19, <3>1
  <2>4. (IF Bits(flags, 64, 2) = 1 THEN pass.string ELSE NullString) = o.password
    <3>1. ~o.password.given => o.password = NullString
      BY ConnectFields, OptionalWritten
    <3> QED BY <1>9, <1>16, <1>19, <2>1, <3>1
  <2>5. read = result
    BY <1>9, <1>10, <1>11, <2>2, <2>3, <2>4, Zenon DEF read
  <2>6. Fields(o) = result
    <3>1. o \in [type : {CONNECT}, MQTTVersion : {3, 4}, clientID : Texts,
                 keepAliveInterval : Numbers, cleansession : {0, 1}, willFlag : {0, 1},
                 willQoS : 0..2, willRetain : {0, 1},
                 topicName : Texts \cup {NullString}, message : Texts \cup {NullString},
                 username : Texts \cup {NullString}, password : Texts \cup {NullString}]
      BY ConnectAssumption
    <3> QED BY <3>1 DEF Fields
  <2> QED BY <1>1, <1>2, <1>21, <1>23, <2>5, <2>6
<1> QED BY <1>22, <1>23
-----------------------------------------------------------------------------
(* Lists of filters.                                                       *)

\* A list of filters, with so many bytes behind each.
ListOf(fs, behind, each) ==
  /\ fs \in Seq(Texts) /\ each \in Nat /\ behind \in [1..Len(fs) -> Seq(Nat)]
  /\ \A i \in 1..Len(fs) : Len(behind[i]) = each

\* What is written of one filter.
Entry(fs, behind, i) == writeMQTTString(fs[i]) \o behind[i]

\* What is written of each of its prefixes, and how long that is.
Written(g, fs, behind) ==
  g = [i \in 0..Len(fs) |-> IF i = 0 THEN << >>
                            ELSE g[i - 1] \o (writeMQTTString(fs[i]) \o behind[i])]
Counted(g, fs, each) ==
  g = [i \in 0..Len(fs) |-> IF i = 0 THEN 2 ELSE g[i - 1] + 2 + MQTTstrlen(fs[i]) + each]
Grows(g, fs, behind, each) ==
  /\ g \in [0..Len(fs) -> Seq(Nat)] /\ g[0] = << >>
  /\ \A i \in 1..Len(fs) :
       /\ g[i] = g[i - 1] \o Entry(fs, behind, i)
       /\ Len(g[i]) = Len(g[i - 1]) + (2 + MQTTstrlen(fs[i]) + each)

\* One filter and the bytes behind it.
LEMMA FilterWritten ==
  ASSUME NEW fs, NEW behind, NEW each, ListOf(fs, behind, each), NEW i \in 1..Len(fs)
  PROVE  /\ fs[i] \in Texts /\ behind[i] \in Seq(Nat) /\ each \in Nat
         /\ MQTTstrlen(fs[i]) \in Nat /\ MQTTstrlen(fs[i]) = Len(fs[i].chars)
         /\ writeMQTTString(fs[i]) \in Seq(Nat)
         /\ Len(writeMQTTString(fs[i])) = MQTTstrlen(fs[i]) + 2
         /\ Entry(fs, behind, i) \in Seq(Nat)
         /\ Len(Entry(fs, behind, i)) = 2 + MQTTstrlen(fs[i]) + each
<1> DEFINE s == writeMQTTString(fs[i])
           t == behind[i]
           l == MQTTstrlen(fs[i])
<1>1. fs[i] \in Texts /\ t \in Seq(Nat) /\ each \in Nat /\ Len(t) = each
  BY DEF ListOf
<1>2. s \in Seq(Nat) /\ Len(s) = l + 2 /\ l \in Nat
  BY <1>1, TextWritten DEF MQTTstrlen
<1>3. l = Len(fs[i].chars)
  BY DEF MQTTstrlen
<1> HIDE DEF s, t, l
<1>4. s \o t \in Seq(Nat) /\ Len(s \o t) = Len(s) + Len(t)
  BY <1>1, <1>2, Concatenated
<1>5. Len(s \o t) = 2 + l + each
  BY <1>1, <1>2, <1>4
<1> QED BY <1>1, <1>2, <1>3, <1>4, <1>5 DEF s, t, l, Entry

\* There is a function that grows so.
LEMMA WrittenExists ==
  ASSUME NEW fs, NEW behind, NEW each, ListOf(fs, behind, each)
  PROVE  \E g : Written(g, fs, behind)
<1> DEFINE n == Len(fs)
           one == [i \in 1..n |-> writeMQTTString(fs[i]) \o behind[i]]
           step == [i \in 1..n |-> [s \in Seq(Nat) |-> s \o one[i]]]
           none == << >>
<1>1. n \in Nat /\ none \in Seq(Nat)
  BY DEF ListOf
<1>2. one \in [1..n -> Seq(Nat)]
  BY FilterWritten DEF Entry
<1>3. step \in [1..n -> [Seq(Nat) -> Seq(Nat)]]
  <2> HIDE DEF one, n
  <2>1. ASSUME NEW i \in 1..n, NEW s \in Seq(Nat) PROVE s \o one[i] \in Seq(Nat)
    BY <1>2, Concatenated
  <2> QED BY <2>1
<1> HIDE DEF step, none, n
<1>4. PICK g \in [0..n -> Seq(Nat)] : Iterates(g, none, n, step)
  BY <1>1, <1>3, Recursion
<1>5. ASSUME NEW i \in 1..n PROVE g[i] = g[i - 1] \o (writeMQTTString(fs[i]) \o behind[i])
  <2>1. g[i] = step[i][g[i - 1]]
    BY <1>4 DEF Iterates
  <2>2. i - 1 \in 0..n
    BY <1>1
  <2>3. g[i - 1] \in Seq(Nat)
    BY <1>4, <2>2
  <2> HIDE DEF one
  <2>4. step[i][g[i - 1]] = g[i - 1] \o one[i]
    BY <2>3 DEF step
  <2>5. one[i] = writeMQTTString(fs[i]) \o behind[i]
    BY DEF one
  <2> QED BY <2>1, <2>4, <2>5
<1>6. g[0] = << >>
  BY <1>4 DEF Iterates, none
<1>7. g = [i \in 0..n |-> IF i = 0 THEN << >>
                          ELSE g[i - 1] \o (writeMQTTString(fs[i]) \o behind[i])]
  <2>1. ASSUME NEW i \in 0..n, i # 0 PROVE i \in 1..n
    BY <1>1, <2>1
  <2>2. ASSUME NEW i \in 0..n
        PROVE  g[i] = IF i = 0 THEN << >>
                      ELSE g[i - 1] \o (writeMQTTString(fs[i]) \o behind[i])
    BY <1>5, <1>6, <2>1
  <2> QED BY <1>4, <2>2
<1> QED BY <1>7 DEF Written, n

\* And one that counts the bytes.
LEMMA CountedExists ==
  ASSUME NEW fs, NEW behind, NEW each, ListOf(fs, behind, each)
  PROVE  \E g : Counted(g, fs, each)
<1> DEFINE n == Len(fs)
           step == [i \in 1..n |-> [s \in Int |-> s + 2 + MQTTstrlen(fs[i]) + each]]
           two == 2
<1>1. n \in Nat /\ two \in Int
  BY DEF ListOf
<1>2. ASSUME NEW i \in 1..n PROVE MQTTstrlen(fs[i]) \in Nat /\ each \in Nat
  BY FilterWritten
<1>3. step \in [1..n -> [Int -> Int]]
  <2> HIDE DEF n
  <2>1. ASSUME NEW i \in 1..n, NEW s \in Int PROVE s + 2 + MQTTstrlen(fs[i]) + each \in Int
    BY <1>2
  <2> QED BY <2>1
<1> HIDE DEF step, two, n
<1>4. PICK g \in [0..n -> Int] : Iterates(g, two, n, step)
  BY <1>1, <1>3, Recursion
<1>5. ASSUME NEW i \in 1..n PROVE g[i] = g[i - 1] + 2 + MQTTstrlen(fs[i]) + each
  <2>1. g[i] = step[i][g[i - 1]]
    BY <1>4 DEF Iterates
  <2>2. i - 1 \in 0..n
    BY <1>1
  <2>3. g[i - 1] \in Int
    BY <1>4, <2>2
  <2>4. step[i][g[i - 1]] = g[i - 1] + 2 + MQTTstrlen(fs[i]) + each
    BY <2>3 DEF step
  <2> QED BY <2>1, <2>4
<1>6. g[0] = 2
  BY <1>4 DEF Iterates, two
<1>7. g = [i \in 0..n |-> IF i = 0 THEN 2 ELSE g[i - 1] + 2 + MQTTstrlen(fs[i]) + each]
  <2>1. ASSUME NEW i \in 0..n, i # 0 PROVE i \in 1..n
    BY <1>1, <2>1
  <2>2. ASSUME NEW i \in 0..n
        PROVE  g[i] = IF i = 0 THEN 2 ELSE g[i - 1] + 2 + MQTTstrlen(fs[i]) + each
    BY <1>5, <1>6, <2>1
  <2> QED BY <1>4, <2>2
<1> QED BY <1>7 DEF Counted, n

\* What is written of a list, and its length that is counted before.
LEMMA ListWritten ==
  ASSUME NEW fs, NEW behind, NEW each, ListOf(fs, behind, each)
  PROVE  \E g : /\ Grows(g, fs, behind, each)
                /\ writeFilters(fs, behind) = g[Len(fs)]
                /\ ListLength(fs, each) = 2 + Len(g[Len(fs)])
<1> DEFINE n == Len(fs)
           g == CHOOSE f : Written(f, fs, behind)
           l == CHOOSE f : Counted(f, fs, each)
<1>1. Written(g, fs, behind) /\ Counted(l, fs, each) /\ n \in Nat
  <2>1. \E f : Written(f, fs, behind)
    BY WrittenExists
  <2>2. \E f : Counted(f, fs, each)
    BY CountedExists
  <2>3. n \in Nat
    BY DEF ListOf
  <2> QED BY <2>1, <2>2, <2>3
<1>2. writeFilters(fs, behind) = g[n] /\ ListLength(fs, each) = l[n]
  BY DEF writeFilters, ListLength, Written, Counted
<1> HIDE DEF g, l, n
<1>3. /\ DOMAIN g = 0..n /\ g[0] = << >>
      /\ \A i \in 1..n : g[i] = g[i - 1] \o (writeMQTTString(fs[i]) \o behind[i])
  <2>1. g = [i \in 0..n |-> IF i = 0 THEN << >>
                            ELSE g[i - 1] \o (writeMQTTString(fs[i]) \o behind[i])]
    BY <1>1 DEF Written, n
  <2>2. DOMAIN g = 0..n
    BY <2>1
  <2>3. g[0] = << >>
    BY <1>1, <2>1
  <2>4. ASSUME NEW i \in 1..n PROVE g[i] = g[i - 1] \o (writeMQTTString(fs[i]) \o behind[i])
    <3>1. i \in 0..n /\ i # 0
      OBVIOUS
    <3> QED BY <2>1, <3>1
  <2> QED BY <2>2, <2>3, <2>4
<1>4. /\ l[0] = 2 /\ \A i \in 1..n : l[i] = l[i - 1] + 2 + MQTTstrlen(fs[i]) + each
  <2>1. l = [i \in 0..n |-> IF i = 0 THEN 2 ELSE l[i - 1] + 2 + MQTTstrlen(fs[i]) + each]
    BY <1>1 DEF Counted, n
  <2>2. l[0] = 2
    BY <1>1, <2>1
  <2>3. ASSUME NEW i \in 1..n PROVE l[i] = l[i - 1] + 2 + MQTTstrlen(fs[i]) + each
    <3>1. i \in 0..n /\ i # 0
      OBVIOUS
    <3> QED BY <2>1, <3>1
  <2> QED BY <2>2, <2>3
<1> DEFINE Right == {i \in 0..n : g[i] \in Seq(Nat) /\ l[i] = 2 + Len(g[i])}
<1>5. ASSUME NEW i \in 1..n, g[i - 1] \in Seq(Nat)
      PROVE  g[i] \in Seq(Nat) /\ Len(g[i]) = Len(g[i - 1]) + (2 + MQTTstrlen(fs[i]) + each)
  <2> DEFINE s == g[i - 1]
             t == writeMQTTString(fs[i]) \o behind[i]
             m == 2 + MQTTstrlen(fs[i]) + each
  <2>1. s \in Seq(Nat) /\ t \in Seq(Nat) /\ Len(t) = m /\ g[i] = s \o t
    <3>1. i \in 1..Len(fs)
      BY DEF n
    <3>2. t \in Seq(Nat) /\ Len(t) = m
      <4> HIDE DEF t, m
      <4>1. /\ writeMQTTString(fs[i]) \o behind[i] \in Seq(Nat)
            /\ Len(writeMQTTString(fs[i]) \o behind[i]) = 2 + MQTTstrlen(fs[i]) + each
        <5>1. /\ Entry(fs, behind, i) \in Seq(Nat)
              /\ Len(Entry(fs, behind, i)) = 2 + MQTTstrlen(fs[i]) + each
          BY <3>1, FilterWritten
        <5> QED BY <5>1 DEF Entry
      <4> QED BY <4>1 DEF t, m
    <3>3. g[i] = s \o t
      BY <1>3
    <3> QED BY <1>5, <3>2, <3>3
  <2> HIDE DEF s, t, m
  <2>2. s \o t \in Seq(Nat) /\ Len(s \o t) = Len(s) + Len(t)
    BY <2>1, Concatenated
  <2> QED BY <2>1, <2>2 DEF s, m
<1>6. 0..n \subseteq Right
  <2>1. 0 \in Right
    <3>1. << >> \in Seq(Nat) /\ Len(<< >>) = 0
      OBVIOUS
    <3>2. g[0] \in Seq(Nat) /\ Len(g[0]) = 0
      BY <1>3, <3>1
    <3> QED BY <1>1, <1>4, <3>2
  <2>2. ASSUME NEW i \in 1..n, i - 1 \in Right PROVE i \in Right
    <3>1. g[i] \in Seq(Nat) /\ Len(g[i]) = Len(g[i - 1]) + (2 + MQTTstrlen(fs[i]) + each)
      BY <1>5, <2>2
    <3>2. l[i] = l[i - 1] + 2 + MQTTstrlen(fs[i]) + each
      BY <1>4
    <3>3. MQTTstrlen(fs[i]) \in Nat /\ each \in Nat
      BY FilterWritten DEF n
    <3>4. l[i - 1] = 2 + Len(g[i - 1]) /\ Len(g[i - 1]) \in Nat
      BY <2>2
    <3>5. l[i] = 2 + Len(g[i])
      BY <3>1, <3>2, <3>3, <3>4
    <3> QED BY <3>1, <3>5
  <2> HIDE DEF Right
  <2> QED BY <1>1, <2>1, <2>2, Induction
<1>7. \A i \in 0..n : g[i] \in Seq(Nat)
  BY <1>6
<1>8. g \in [0..n -> Seq(Nat)]
  <2>1. g = [i \in 0..n |-> g[i]]
    BY <1>1 DEF Written, n
  <2> QED BY <1>7, <2>1
<1>9. ASSUME NEW i \in 1..n
      PROVE  Len(g[i]) = Len(g[i - 1]) + (2 + MQTTstrlen(fs[i]) + each)
  <2>1. i - 1 \in 0..n
    BY <1>1
  <2> QED BY <1>5, <1>7, <2>1
<1>10. Grows(g, fs, behind, each)
  BY <1>3, <1>8, <1>9 DEF Grows, Entry, n
<1>11. l[n] = 2 + Len(g[n])
  BY <1>1, <1>6
<1> QED BY <1>2, <1>10, <1>11 DEF n

\* A prefix of a list, which the next filter makes longer.
Prefix(s, k) == [i \in 1..k |-> s[i]]

\* By one filter in each turn.
LEMMA PrefixGrows ==
  ASSUME NEW S, NEW s \in Seq(S)
  PROVE  /\ Prefix(s, 0) = << >> /\ Prefix(s, Len(s)) = s
         /\ \A k \in 1..Len(s) : Append(Prefix(s, k - 1), s[k]) = Prefix(s, k)
<1>1. Prefix(s, 0) = << >>
  BY DEF Prefix
<1>2. Prefix(s, Len(s)) = s
  BY DEF Prefix
<1>3. ASSUME NEW k \in 1..Len(s) PROVE Append(Prefix(s, k - 1), s[k]) = Prefix(s, k)
  <2> DEFINE p == Prefix(s, k - 1)
             m == k - 1
  <2>1. p \in Seq(S) /\ Len(p) = m /\ m \in Nat
    BY DEF Prefix
  <2>2. \A i \in 1..m : p[i] = s[i]
    BY DEF Prefix
  <2> HIDE DEF p
  <2>3. Append(p, s[k]) \in Seq(S) /\ Len(Append(p, s[k])) = k
    BY <2>1
  <2>4. \A i \in 1..k : Append(p, s[k])[i] = s[i]
    BY <2>1, <2>2
  <2>5. Prefix(s, k) \in Seq(S) /\ Len(Prefix(s, k)) = k /\ \A i \in 1..k : Prefix(s, k)[i] = s[i]
    BY DEF Prefix
  <2>6. Append(p, s[k]) = Prefix(s, k)
    BY <2>3, <2>4, <2>5, SeqEqual
  <2> QED BY <2>6 DEF p
<1> QED BY <1>1, <1>2, <1>3

\* A buffer that holds a list holds each of its prefixes.
LEMMA ListHeld ==
  ASSUME NEW fs, NEW behind, NEW each, ListOf(fs, behind, each),
         NEW g, Grows(g, fs, behind, each), NEW b, NEW start \in Nat, Holds(b, start, g[Len(fs)])
  PROVE  \A i \in 0..Len(fs) : /\ Holds(b, start, g[i]) /\ Len(g[i]) \in Nat
                               /\ i <= Len(g[i]) /\ Len(g[i]) <= Len(g[Len(fs)])
<1> DEFINE n == Len(fs)
           Below == {m \in 0..n : Holds(b, start, g[n - m]) /\ Len(g[n - m]) <= Len(g[n])}
           Above == {i \in 0..n : i <= Len(g[i])}
<1>1. n \in Nat /\ \A i \in 0..n : g[i] \in Seq(Nat) /\ Len(g[i]) \in Nat
  <2>1. n \in Nat
    BY DEF ListOf
  <2>2. g \in [0..n -> Seq(Nat)]
    BY DEF Grows
  <2> HIDE DEF n
  <2>3. ASSUME NEW i \in 0..n PROVE g[i] \in Seq(Nat) /\ Len(g[i]) \in Nat
    BY <2>2
  <2> QED BY <2>1, <2>3
<1>2. ASSUME NEW i \in 1..n
      PROVE  /\ g[i] = g[i - 1] \o Entry(fs, behind, i) /\ Entry(fs, behind, i) \in Seq(Nat)
             /\ Len(g[i]) >= Len(g[i - 1]) + 2 /\ i - 1 \in 0..n /\ i \in 0..n
  <2>1. MQTTstrlen(fs[i]) \in Nat /\ each \in Nat /\ Entry(fs, behind, i) \in Seq(Nat)
    BY FilterWritten
  <2>2. /\ g[i] = g[i - 1] \o Entry(fs, behind, i)
        /\ Len(g[i]) = Len(g[i - 1]) + (2 + MQTTstrlen(fs[i]) + each)
    BY DEF Grows
  <2>3. i - 1 \in 0..n /\ i \in 0..n
    BY <1>1
  <2>4. Len(g[i]) >= Len(g[i - 1]) + 2
    BY <1>1, <2>1, <2>2, <2>3
  <2> QED BY <2>1, <2>2, <2>3, <2>4
<1>3. 0..n \subseteq Above
  <2>1. 0 \in Above
    BY <1>1
  <2>2. ASSUME NEW i \in 1..n, i - 1 \in Above PROVE i \in Above
    BY <1>1, <1>2, <2>2
  <2> HIDE DEF Above, n
  <2> QED BY <1>1, <2>1, <2>2, Induction
<1>4. 0..n \subseteq Below
  <2>1. 0 \in Below
    <3>1. n - 0 = n /\ 0 \in 0..n
      BY <1>1
    <3> QED BY <1>1, <3>1
  <2>2. ASSUME NEW m \in 1..n, m - 1 \in Below PROVE m \in Below
    <3> DEFINE i == n - (m - 1)
    <3>1. i \in 1..n /\ i - 1 = n - m /\ m \in 0..n /\ i - 1 \in 0..n /\ i \in 0..n
      BY <1>1
    <3>2. Holds(b, start, g[i]) /\ Len(g[i]) <= Len(g[n])
      BY <2>2
    <3> HIDE DEF i
    <3>3. Holds(b, start, g[i - 1] \o Entry(fs, behind, i)) /\ g[i - 1] \in Seq(Nat)
      BY <1>1, <1>2, <3>1, <3>2
    <3>4. Holds(b, start, g[i - 1])
      BY <1>2, <3>1, <3>3, HoldsBoth
    <3>5. Len(g[i - 1]) <= Len(g[n])
      <4>1. n \in 0..n
        BY <1>1
      <4>2. Len(g[i - 1]) \in Nat /\ Len(g[i]) \in Nat /\ Len(g[n]) \in Nat
        BY <1>1, <3>1, <4>1
      <4>3. Len(g[i]) >= Len(g[i - 1]) + 2
        BY <1>2, <3>1
      <4> HIDE DEF n
      <4> QED BY <3>2, <4>2, <4>3
    <3> QED BY <3>1, <3>4, <3>5
  <2> HIDE DEF Below, n
  <2> QED BY <1>1, <2>1, <2>2, Induction
<1>5. ASSUME NEW i \in 0..n
      PROVE  Holds(b, start, g[i]) /\ i <= Len(g[i]) /\ Len(g[i]) <= Len(g[n])
  <2>1. n - i \in 0..n /\ n - (n - i) = i
    BY <1>1
  <2>2. n - i \in Below /\ i \in Above
    BY <1>3, <1>4, <2>1
  <2> QED BY <2>1, <2>2
<1> QED BY <1>1, <1>5

\* One turn of the loop in which the server reads a list.
Turn(b, end, withQoS, list) ==
  LET filter == readMQTTLenString(b, list.at, end) IN
  IF ~list.ok \/ list.at >= end THEN list
  ELSE IF filter.rc = 0 \/ (withQoS /\ filter.next >= end)
         THEN [list EXCEPT !.ok = FALSE]
  ELSE [ok |-> TRUE, at |-> filter.next + (IF withQoS THEN 1 ELSE 0),
        filters |-> Append(list.filters, filter.string),
        qos |-> IF withQoS THEN Append(list.qos, b[filter.next]) ELSE list.qos]
IsLoop(h, b, start, end, withQoS) ==
  h = [k \in 0..end |->
         IF k = 0 THEN [ok |-> TRUE, at |-> start, filters |-> << >>, qos |-> << >>]
         ELSE Turn(b, end, withQoS, h[k - 1])]

\* Filters is where such a loop ends.
LEMMA FiltersLoop ==
  ASSUME NEW b, NEW start \in Nat, NEW end \in Nat, NEW withQoS \in BOOLEAN,
         NEW h, IsLoop(h, b, start, end, withQoS)
  PROVE  Filters(b, start, end, withQoS) = h[end]
<1> DEFINE f == CHOOSE l : IsLoop(l, b, start, end, withQoS)
           Same == {k \in 0..end : f[k] = h[k]}
<1>1. Filters(b, start, end, withQoS) = f[end]
  BY DEF Filters, IsLoop, Turn
<1>2. IsLoop(f, b, start, end, withQoS)
  OBVIOUS
<1> HIDE DEF f
<1>3. 0..end \subseteq Same
  <2>1. 0 \in Same
    BY <1>2 DEF IsLoop
  <2>2. ASSUME NEW k \in 1..end, k - 1 \in Same PROVE k \in Same
    <3>1. k \in 0..end /\ k # 0
      OBVIOUS
    <3>2. f[k] = Turn(b, end, withQoS, f[k - 1])
      BY <1>2, <3>1 DEF IsLoop
    <3>3. h[k] = Turn(b, end, withQoS, h[k - 1])
      BY <3>1 DEF IsLoop
    <3> QED BY <2>2, <3>1, <3>2, <3>3
  <2> HIDE DEF Same
  <2> QED BY <2>1, <2>2, Induction
<1> QED BY <1>1, <1>3

\* The bytes behind the filters are their QoS, or there are none.
QosBehind(fs, behind, each, withQoS, qs) ==
  /\ withQoS \in BOOLEAN /\ each = IF withQoS THEN 1 ELSE 0
  /\ withQoS => /\ qs \in Seq(Nat) /\ Len(qs) = Len(fs)
                /\ \A i \in 1..Len(fs) : behind[i] = <<qs[i]>>

\* A sequence that starts in one place ends before another.
EndsAt(end, start, s) == end = start + Len(s)

\* What the loop has read after k filters.
After(g, fs, qs, start, withQoS, k) ==
  [ok |-> TRUE, at |-> start + Len(g[k]), filters |-> Prefix(fs, k),
   qos |-> IF withQoS THEN Prefix(qs, k) ELSE << >>]

\* A turn reads one filter.
LEMMA FilterRead ==
  ASSUME NEW fs, NEW behind, NEW each, ListOf(fs, behind, each),
         NEW g, Grows(g, fs, behind, each),
         NEW withQoS, NEW qs, QosBehind(fs, behind, each, withQoS, qs),
         NEW b, NEW start \in Nat, NEW end \in Nat, end = start + Len(g[Len(fs)]),
         Holds(b, start, g[Len(fs)]), NEW k \in 1..Len(fs)
  PROVE  Turn(b, end, withQoS, After(g, fs, qs, start, withQoS, k - 1))
           = After(g, fs, qs, start, withQoS, k)
<1> DEFINE list == After(g, fs, qs, start, withQoS, k - 1)
           at == start + Len(g[k - 1])
           s == writeMQTTString(fs[k])
           t == behind[k]
           l == Len(fs[k].chars)
           next == at + 2 + l
           n == Len(fs)
           filter == readMQTTLenString(b, list.at, end)
<1>1. /\ list.ok = TRUE /\ list.at = at /\ list.filters = Prefix(fs, k - 1)
      /\ list.qos = IF withQoS THEN Prefix(qs, k - 1) ELSE << >>
  BY DEF After
<1>2. n \in Nat /\ k \in 0..n /\ k - 1 \in 0..n /\ n \in 0..n
  <2>1. n \in Nat
    BY DEF ListOf
  <2> HIDE DEF n
  <2>2. k \in 1..n
    BY DEF n
  <2> QED BY <2>1, <2>2
<1>3. /\ Holds(b, start, g[k]) /\ Len(g[k]) \in Nat /\ Len(g[k - 1]) \in Nat
      /\ Len(g[k]) <= Len(g[n]) /\ Len(g[n]) \in Nat
  BY <1>2, ListHeld
<1>4. /\ fs[k] \in Texts /\ t \in Seq(Nat) /\ each \in Nat /\ l \in Nat
      /\ s \in Seq(Nat) /\ Len(s) = l + 2
  <2>1. /\ fs[k] \in Texts /\ behind[k] \in Seq(Nat) /\ each \in Nat
        /\ MQTTstrlen(fs[k]) \in Nat /\ MQTTstrlen(fs[k]) = Len(fs[k].chars)
        /\ writeMQTTString(fs[k]) \in Seq(Nat)
        /\ Len(writeMQTTString(fs[k])) = MQTTstrlen(fs[k]) + 2
    BY FilterWritten
  <2> QED BY <2>1
<1>5. /\ g[k] = g[k - 1] \o (s \o t) /\ Len(g[k]) = Len(g[k - 1]) + (2 + l + each)
      /\ g[k - 1] \in Seq(Nat)
  <2>1. g \in [0..n -> Seq(Nat)]
    BY DEF Grows
  <2>2. g[k] = g[k - 1] \o Entry(fs, behind, k)
    BY DEF Grows
  <2>3. Len(g[k]) = Len(g[k - 1]) + (2 + MQTTstrlen(fs[k]) + each)
    BY DEF Grows
  <2> QED BY <1>2, <2>1, <2>2, <2>3 DEF Entry, MQTTstrlen
<1> HIDE DEF s, t, l
<1>6. s \o t \in Seq(Nat)
  BY <1>4, Concatenated
<1>7. at \in Nat /\ next \in Nat /\ next = at + Len(s) /\ next + each = start + Len(g[k])
      /\ next + each <= end /\ at < end
  <2> DEFINE m == Len(g[k])
             p == Len(g[k - 1])
             e == Len(g[n])
  <2>1. /\ m \in Nat /\ p \in Nat /\ e \in Nat /\ m <= e /\ m = p + (2 + l + each) /\ end = start + e
    BY <1>3, <1>5
  <2> HIDE DEF m, p, e
  <2>2. at = start + p
    BY DEF p
  <2> HIDE DEF at
  <2>3. next + each = start + m /\ next + each <= end
    BY <1>4, <2>1, <2>2
  <2>4. at \in Nat /\ next \in Nat /\ next = at + Len(s) /\ at < end
    BY <1>4, <2>1, <2>2
  <2> QED BY <2>3, <2>4 DEF m
<1>8. Holds(b, at, s) /\ Holds(b, next, t)
  <2>1. Holds(b, start, g[k - 1] \o (s \o t))
    BY <1>3, <1>5
  <2>2. Holds(b, at, s \o t)
    BY <1>5, <1>6, <2>1, HoldsBoth
  <2> HIDE DEF at, next
  <2> QED BY <1>4, <1>7, <2>2, HoldsBoth
<1>9. filter.rc = 1 /\ filter.string = fs[k] /\ filter.next = next
  <2>1. at + 2 + Len(fs[k].chars) <= end
    <3>1. next <= end
      <4> HIDE DEF next, at
      <4> QED BY <1>4, <1>7
    <3> QED BY <3>1 DEF l
  <2>2. readMQTTLenString(b, at, end) =
          [rc |-> 1, string |-> fs[k], next |-> at + 2 + Len(fs[k].chars)]
    <3> HIDE DEF at
    <3> QED BY <1>4, <1>7, <1>8, <2>1, TextRead DEF s
  <2>3. filter = readMQTTLenString(b, at, end)
    BY <1>1
  <2>4. next = at + 2 + Len(fs[k].chars)
    BY DEF l
  <2> HIDE DEF filter, next, at
  <2> QED BY <2>2, <2>3, <2>4
<1>10. withQoS => next < end /\ b[next] = qs[k]
  <2> SUFFICES ASSUME withQoS PROVE next < end /\ b[next] = qs[k]
    OBVIOUS
  <2>1. each = 1 /\ t = <<qs[k]>>
    BY DEF QosBehind, t
  <2> DEFINE q == qs[k]
  <2>2. next \in Nat /\ Holds(b, next, <<q>>)
    BY <1>7, <1>8, <2>1
  <2>3. next < end
    BY <1>7, <2>1
  <2> HIDE DEF q, next
  <2>4. b[next] = q
    BY <2>2, HoldsOne
  <2> QED BY <2>3, <2>4 DEF q
<1>11. withQoS \in BOOLEAN /\ each = IF withQoS THEN 1 ELSE 0
  BY DEF QosBehind
<1>12. Append(Prefix(fs, k - 1), fs[k]) = Prefix(fs, k)
  <2>1. fs \in Seq(Texts)
    BY DEF ListOf
  <2> QED BY <2>1, PrefixGrows
<1>13. withQoS => Append(Prefix(qs, k - 1), qs[k]) = Prefix(qs, k)
  <2> SUFFICES ASSUME withQoS PROVE Append(Prefix(qs, k - 1), qs[k]) = Prefix(qs, k)
    OBVIOUS
  <2>1. qs \in Seq(Nat) /\ k \in 1..Len(qs)
    BY DEF QosBehind
  <2> QED BY <2>1, PrefixGrows
<1> DEFINE new ==
  [ok |-> TRUE, at |-> filter.next + (IF withQoS THEN 1 ELSE 0),
   filters |-> Append(list.filters, filter.string),
   qos |-> IF withQoS THEN Append(list.qos, b[filter.next]) ELSE list.qos]
<1>14. Turn(b, end, withQoS, list) = new
  <2>1. ~(~list.ok \/ list.at >= end)
    BY <1>1, <1>7
  <2>2. ~(filter.rc = 0 \/ (withQoS /\ filter.next >= end))
    BY <1>7, <1>9, <1>10
  <2> HIDE DEF list
  <2> QED BY <2>1, <2>2, Zenon DEF Turn
<1>15. new = After(g, fs, qs, start, withQoS, k)
  <2>1. filter.next + (IF withQoS THEN 1 ELSE 0) = start + Len(g[k])
    BY <1>7, <1>9, <1>11
  <2>2. Append(list.filters, filter.string) = Prefix(fs, k)
    BY <1>1, <1>9, <1>12
  <2>3. (IF withQoS THEN Append(list.qos, b[filter.next]) ELSE list.qos) =
          IF withQoS THEN Prefix(qs, k) ELSE << >>
    BY <1>1, <1>9, <1>10, <1>13
  <2> HIDE DEF list, filter
  <2> QED BY <2>1, <2>2, <2>3, Zenon DEF After
<1> QED BY <1>14, <1>15

\* The whole list is read as it was written.
LEMMA ListRead ==
  ASSUME NEW fs, NEW behind, NEW each, ListOf(fs, behind, each),
         NEW g, Grows(g, fs, behind, each),
         NEW withQoS, NEW qs, QosBehind(fs, behind, each, withQoS, qs),
         NEW b, NEW start \in Nat, NEW end \in Nat, EndsAt(end, start, g[Len(fs)]),
         Holds(b, start, g[Len(fs)])
  PROVE  Filters(b, start, end, withQoS) =
           [ok |-> TRUE, at |-> end, filters |-> fs, qos |-> IF withQoS THEN qs ELSE << >>]
<1> DEFINE n == Len(fs)
           A(k) == After(g, fs, qs, start, withQoS, k)
           upto(k) == IF k <= n THEN k ELSE n
           h == [k \in 0..end |-> A(upto(k))]
<1>0. end = start + Len(g[n])
  BY DEF EndsAt
<1>1. n \in Nat /\ n <= Len(g[n]) /\ Len(g[n]) \in Nat /\ n \in 0..n
  <2>1. n \in Nat
    BY DEF ListOf
  <2>2. n \in 0..n
    BY <2>1
  <2> QED BY <2>1, <2>2, ListHeld
<1>2. n <= end /\ n \in 0..end
  BY <1>0, <1>1
<1>3. \A k \in 1..n : Turn(b, end, withQoS, A(k - 1)) = A(k)
  BY <1>0, FilterRead
<1>4. Turn(b, end, withQoS, A(n)) = A(n)
  <2>1. A(n).at >= end
    BY <1>0, <1>1 DEF After
  <2> HIDE DEF A
  <2> QED BY <2>1, Zenon DEF Turn
<1>5. A(0) = [ok |-> TRUE, at |-> start, filters |-> << >>, qos |-> << >>]
  <2>1. g[0] = << >> /\ Len(<< >>) = 0
    BY DEF Grows
  <2>2. start + Len(g[0]) = start
    BY <2>1
  <2>3. Prefix(fs, 0) = << >>
    BY DEF Prefix
  <2>4. (IF withQoS THEN Prefix(qs, 0) ELSE << >>) = << >>
    BY DEF Prefix
  <2> QED BY <2>2, <2>3, <2>4, Zenon DEF After
<1>6. A(n) = [ok |-> TRUE, at |-> end, filters |-> fs, qos |-> IF withQoS THEN qs ELSE << >>]
  <2>1. Prefix(fs, n) = fs
    <3>1. fs \in Seq(Texts)
      BY DEF ListOf
    <3> QED BY <3>1, PrefixGrows
  <2>2. (IF withQoS THEN Prefix(qs, n) ELSE << >>) = IF withQoS THEN qs ELSE << >>
    <3>1. withQoS => qs \in Seq(Nat) /\ Len(qs) = n
      BY DEF QosBehind
    <3>2. withQoS => Prefix(qs, n) = qs
      BY <3>1, PrefixGrows
    <3> QED BY <3>2
  <2>3. start + Len(g[n]) = end
    BY <1>0
  <2> QED BY <2>1, <2>2, <2>3, Zenon DEF After
<1> HIDE DEF A
<1>7. \A k \in 1..end : A(upto(k)) = Turn(b, end, withQoS, A(upto(k - 1)))
  <2> SUFFICES ASSUME NEW k \in 1..end
               PROVE  A(upto(k)) = Turn(b, end, withQoS, A(upto(k - 1)))
    OBVIOUS
  <2>1. CASE k <= n
    <3>1. k \in 1..n /\ upto(k) = k /\ upto(k - 1) = k - 1
      BY <1>1, <2>1
    <3> HIDE DEF upto
    <3> QED BY <1>3, <3>1
  <2>2. CASE k > n
    <3>1. upto(k) = n /\ upto(k - 1) = n
      BY <1>1, <2>2
    <3> HIDE DEF upto
    <3> QED BY <1>4, <3>1
  <2> QED BY <1>1, <2>1, <2>2
<1>8. upto(0) = 0 /\ upto(end) = n
  BY <1>1, <1>2
<1> HIDE DEF upto, n
<1>9. IsLoop(h, b, start, end, withQoS)
  <2>1. ASSUME NEW k \in 0..end
        PROVE  h[k] = IF k = 0 THEN [ok |-> TRUE, at |-> start, filters |-> << >>, qos |-> << >>]
                      ELSE Turn(b, end, withQoS, h[k - 1])
    <3>1. CASE k = 0
      <4>1. h[0] = A(upto(0))
        BY <3>1
      <4> HIDE DEF h
      <4> QED BY <1>5, <1>8, <3>1, <4>1
    <3>2. CASE k # 0
      <4>1. k \in 1..end /\ k - 1 \in 0..end
        BY <3>2
      <4>2. h[k] = A(upto(k)) /\ h[k - 1] = A(upto(k - 1))
        BY <4>1
      <4> HIDE DEF h
      <4> QED BY <1>7, <3>2, <4>1, <4>2
    <3> QED BY <3>1, <3>2
  <2>2. h = [k \in 0..end |-> h[k]]
    OBVIOUS
  <2> HIDE DEF h
  <2> QED BY <2>1, <2>2 DEF IsLoop
<1>10. h[end] = A(n)
  <2>1. end \in 0..end
    OBVIOUS
  <2> QED BY <1>8, <2>1
<1> HIDE DEF h
<1>11. withQoS \in BOOLEAN
  BY DEF QosBehind
<1>12. Filters(b, start, end, withQoS) = h[end]
  BY <1>9, <1>11, FiltersLoop
<1> QED BY <1>6, <1>10, <1>12

\* A packet id and a list.
ListRest(id, fs, behind) == writeInt(id) \o writeFilters(fs, behind)

\* How long that is.
LEMMA ListRestWritten ==
  ASSUME NEW id \in Numbers, NEW fs, NEW behind, NEW each, ListOf(fs, behind, each)
  PROVE  /\ ListRest(id, fs, behind) \in Seq(Nat)
         /\ Len(ListRest(id, fs, behind)) = ListLength(fs, each)
         /\ Len(ListRest(id, fs, behind)) >= 2 + Len(fs) /\ Len(fs) \in Nat
<1> DEFINE n == Len(fs)
           s == writeInt(id)
           none == << >>
<1>1. PICK g : /\ Grows(g, fs, behind, each)
               /\ writeFilters(fs, behind) = g[n] /\ ListLength(fs, each) = 2 + Len(g[n])
  BY ListWritten
<1> DEFINE t == g[n]
<1>2. s \in Seq(Nat) /\ Len(s) = 2
  BY IntWritten
<1>3. n \in Nat /\ n \in 0..n
  BY DEF ListOf
<1>4. t \in Seq(Nat) /\ Len(t) \in Nat
  BY <1>1, <1>3 DEF Grows
<1>5. n <= Len(t)
  <2> DEFINE zero == 0
  <2>1. zero \in Nat /\ Holds(t, zero + 1, t)
    BY DEF Holds
  <2> DEFINE b == [i \in Nat |-> t[i + 1]]
  <2>2. Holds(b, zero, t)
    <3>1. ASSUME NEW i \in 1..Len(t) PROVE b[zero + i - 1] = t[i]
      <4>1. i - 1 \in Nat /\ zero + i - 1 = i - 1 /\ (i - 1) + 1 = i
        BY <1>4
      <4> QED BY <4>1
    <3> QED BY <3>1 DEF Holds
  <2> HIDE DEF b, zero
  <2> QED BY <1>1, <1>3, <2>1, <2>2, ListHeld
<1>6. ListRest(id, fs, behind) = s \o t
  BY <1>1 DEF ListRest
<1> HIDE DEF s, t
<1>7. s \o t \in Seq(Nat) /\ Len(s \o t) = Len(s) + Len(t)
  BY <1>2, <1>4, Concatenated
<1> HIDE DEF n
<1>8. Len(s \o t) = ListLength(fs, each) /\ Len(s \o t) >= 2 + n
  <2>1. ListLength(fs, each) = 2 + Len(t)
    BY <1>1 DEF t
  <2> QED BY <1>2, <1>3, <1>4, <1>5, <1>7, <2>1
<1> QED BY <1>3, <1>6, <1>7, <1>8 DEF n

\* What the loop leaves of a list.
AllRead(end, fs, withQoS, qs) ==
  [ok |-> TRUE, at |-> end, filters |-> fs, qos |-> IF withQoS THEN qs ELSE << >>]

\* And how it is read.
LEMMA ListRestRead ==
  ASSUME NEW id \in Numbers, NEW fs, NEW behind, NEW each, ListOf(fs, behind, each),
         NEW withQoS, NEW qs, QosBehind(fs, behind, each, withQoS, qs),
         NEW b, NEW at \in Nat, NEW end \in Nat,
         EndsAt(end, at, ListRest(id, fs, behind)), Holds(b, at, ListRest(id, fs, behind))
  PROVE  /\ readInt(b, at) = id
         /\ Filters(b, at + 2, end, withQoS) = AllRead(end, fs, withQoS, qs)
<1> DEFINE n == Len(fs)
           s == writeInt(id)
           start == at + 2
<1>1. PICK g : /\ Grows(g, fs, behind, each)
               /\ writeFilters(fs, behind) = g[n] /\ ListLength(fs, each) = 2 + Len(g[n])
  BY ListWritten
<1> DEFINE t == g[n]
<1>2. s \in Seq(Nat) /\ Len(s) = 2
  BY IntWritten
<1>3. n \in 0..n
  BY DEF ListOf
<1>4. t \in Seq(Nat) /\ Len(t) \in Nat
  <2>1. g \in [0..n -> Seq(Nat)]
    BY <1>1 DEF Grows
  <2> QED BY <1>3, <2>1
<1>5. ListRest(id, fs, behind) = s \o t
  BY <1>1 DEF ListRest
<1>6. Len(ListRest(id, fs, behind)) = 2 + Len(t)
  BY <1>1, ListRestWritten
<1> HIDE DEF s, t
<1>7. Holds(b, at, s) /\ Holds(b, at + Len(s), t)
  BY <1>2, <1>4, <1>5, HoldsBoth
<1>8. start \in Nat /\ at + Len(s) = start /\ EndsAt(end, start, t)
  BY <1>2, <1>4, <1>6 DEF EndsAt
<1> HIDE DEF start
<1>9. readInt(b, at) = id
  BY <1>7, IntRead DEF s
<1>10. Filters(b, start, end, withQoS) =
         [ok |-> TRUE, at |-> end, filters |-> fs, qos |-> IF withQoS THEN qs ELSE << >>]
  <2>1. Holds(b, start, g[Len(fs)]) /\ EndsAt(end, start, g[Len(fs)])
    BY <1>7, <1>8 DEF t
  <2> QED BY <1>1, <1>8, <2>1, ListRead
<1> QED BY <1>9, <1>10 DEF start, AllRead

\* A subscription: the packet id, the filters, and the QoS of each behind it.
SubscribeQos(s)    == [i \in DOMAIN s.topicFilters |-> <<s.requestedQoSs[i]>>]
SubscribeRest(s)   == ListRest(s.packetid, s.topicFilters, SubscribeQos(s))
SubscribeHeader(s) == MQTTHeader(SUBSCRIBE, s.dup, 1, 0)

\* Its fields.
LEMMA SubscribeFields ==
  ASSUME NEW s \in Subscribes
  PROVE  /\ s.type = SUBSCRIBE /\ s.dup \in {0, 1} /\ s.packetid \in Numbers
         /\ ListOf(s.topicFilters, SubscribeQos(s), 1)
         /\ QosBehind(s.topicFilters, SubscribeQos(s), 1, TRUE, s.requestedQoSs)
         /\ s.requestedQoSs \in Seq(Nat) /\ Len(s.requestedQoSs) = Len(s.topicFilters)
<1> DEFINE fs == s.topicFilters
           qs == s.requestedQoSs
           behind == SubscribeQos(s)
<1>1. /\ s.type = SUBSCRIBE /\ s.dup \in {0, 1} /\ s.packetid \in Numbers
      /\ fs \in Seq(Texts) /\ qs \in Seq(0..2) /\ Len(fs) = Len(qs)
  BY SubscribeAssumption
<1>2. qs \in Seq(Nat) /\ \A i \in 1..Len(qs) : qs[i] \in Nat
  <2>1. ASSUME NEW i \in 1..Len(qs) PROVE qs[i] \in Nat
    <3>1. qs[i] \in 0..2
      BY <1>1
    <3> QED BY <3>1
  <2>2. qs \in [1..Len(qs) -> Nat] /\ Len(qs) \in Nat
    BY <1>1, <2>1
  <2> HIDE DEF qs
  <2>3. qs \in Seq(Nat)
    BY <2>2
  <2> QED BY <2>1, <2>3
<1>3. DOMAIN fs = 1..Len(fs)
  BY <1>1
<1>4. behind = [i \in 1..Len(fs) |-> <<qs[i]>>]
  BY <1>3 DEF SubscribeQos
<1> HIDE DEF fs, qs, behind
<1>5. ASSUME NEW i \in 1..Len(fs)
      PROVE  behind[i] = <<qs[i]>> /\ <<qs[i]>> \in Seq(Nat) /\ Len(<<qs[i]>>) = 1
  BY <1>1, <1>2, <1>4
<1>6. behind \in [1..Len(fs) -> Seq(Nat)]
  BY <1>4, <1>5
<1>7. ListOf(fs, behind, 1)
  BY <1>1, <1>5, <1>6 DEF ListOf
<1>8. QosBehind(fs, behind, 1, TRUE, qs)
  BY <1>1, <1>2, <1>5 DEF QosBehind
<1> QED BY <1>1, <1>2, <1>7, <1>8 DEF fs, qs, behind

\* How it is written.
LEMMA SubscribeWritten ==
  ASSUME NEW s \in Subscribes
  PROVE  SerializedAs(s, SubscribeHeader(s), SubscribeRest(s))
<1> DEFINE rest == SubscribeRest(s)
           h == SubscribeHeader(s)
<1>1. rest \in Seq(Nat) /\ Len(rest) = SubscribeLength(s.topicFilters)
  <2> DEFINE one == 1
             fs == s.topicFilters
             behind == SubscribeQos(s)
             id == s.packetid
  <2>1. ListOf(fs, behind, one) /\ id \in Numbers
    BY SubscribeFields
  <2> HIDE DEF one, fs, behind, id
  <2>2. /\ ListRest(id, fs, behind) \in Seq(Nat)
        /\ Len(ListRest(id, fs, behind)) = ListLength(fs, one)
    BY <2>1, ListRestWritten
  <2> QED BY <2>2 DEF SubscribeRest, SubscribeLength, one, fs, behind, id
<1>2. h \in Nat
  <2>1. s.dup \in {0, 1}
    BY SubscribeFields
  <2> QED BY <2>1, HeaderRead, PacketTypes DEF SubscribeHeader
<1>3. s.type = SUBSCRIBE
  BY SubscribeFields
<1>4. ASSUME NEW n \in Nat
      PROVE  Serialized(s, n) = MQTTSerialize_subscribe(n, s)
  BY <1>3 DEF Serialized, CONNECT, PUBLISH, SUBSCRIBE, UNSUBSCRIBE
<1>5. ASSUME NEW n \in Nat
      PROVE  MQTTSerialize_subscribe(n, s) = IF MQTTPacket_len(Len(rest)) > n THEN Refused
                                             ELSE Packet(h, rest, Len(rest))
  <2>1. rest = writeInt(s.packetid) \o writeFilters(s.topicFilters,
                  [i \in DOMAIN s.topicFilters |-> <<s.requestedQoSs[i]>>])
    BY DEF SubscribeRest, ListRest, SubscribeQos
  <2> HIDE DEF rest
  <2> QED BY <1>1, <2>1, Zenon DEF MQTTSerialize_subscribe, SubscribeHeader
<1> QED BY <1>1, <1>2, <1>4, <1>5 DEF SerializedAs

\* How the server reads it.
LEMMA SubscribeRead ==
  ASSUME NEW s \in Subscribes, Sendable(SubscribeHeader(s), SubscribeRest(s)),
         NEW b, Contains(b, SubscribeHeader(s), SubscribeRest(s))
  PROVE  HeaderType(b) = SUBSCRIBE /\ MQTTDeserialize_subscribe(b) = Fields(s)
<1> DEFINE h == SubscribeHeader(s)
           rest == SubscribeRest(s)
           at == Rest(b).at
           end == Rest(b).end
           list == Filters(b, at + 2, end, TRUE)
           result == [rc |-> 1, dup |-> s.dup, packetid |-> s.packetid,
                      topicFilters |-> s.topicFilters, requestedQoSs |-> s.requestedQoSs]
<1>1. /\ b[1] = h /\ at \in Nat /\ end \in Nat /\ end = at + Len(rest) /\ Holds(b, at, rest)
  BY RestRead
<1>2. Bits(h, 16, 16) = SUBSCRIBE /\ Bits(h, 8, 2) = s.dup
  <2>1. s.dup \in {0, 1}
    BY SubscribeFields
  <2> QED BY <2>1, HeaderRead, PacketTypes DEF SubscribeHeader
<1>3. HeaderType(b) = SUBSCRIBE /\ Bits(b[1], 8, 2) = s.dup
  BY <1>1, <1>2 DEF HeaderType
<1>4. /\ readInt(b, at) = s.packetid
      /\ list.ok = TRUE /\ list.filters = s.topicFilters /\ list.qos = s.requestedQoSs
  <2> HIDE DEF at, end
  <2>1. /\ EndsAt(end, at, ListRest(s.packetid, s.topicFilters, SubscribeQos(s)))
        /\ Holds(b, at, ListRest(s.packetid, s.topicFilters, SubscribeQos(s)))
    BY <1>1 DEF SubscribeRest, EndsAt
  <2> DEFINE one == 1
             yes == TRUE
             fs == s.topicFilters
             behind == SubscribeQos(s)
             qs == s.requestedQoSs
             id == s.packetid
  <2>2. ListOf(fs, behind, one) /\ QosBehind(fs, behind, one, yes, qs) /\ id \in Numbers
    BY SubscribeFields
  <2>3. EndsAt(end, at, ListRest(id, fs, behind)) /\ Holds(b, at, ListRest(id, fs, behind))
    BY <2>1
  <2> HIDE DEF one, yes, fs, behind, qs, id
  <2>4. /\ readInt(b, at) = id /\ Filters(b, at + 2, end, yes) = AllRead(end, fs, yes, qs)
    BY <1>1, <2>2, <2>3, ListRestRead
  <2>5. AllRead(end, fs, yes, qs).ok = TRUE /\ AllRead(end, fs, yes, qs).filters = fs
    BY DEF AllRead
  <2>6. AllRead(end, fs, yes, qs).qos = qs
    BY DEF AllRead, yes
  <2> QED BY <2>4, <2>5, <2>6 DEF yes, fs, qs, id
<1>5. MQTTDeserialize_subscribe(b) = result
  BY <1>3, <1>4, Zenon DEF MQTTDeserialize_subscribe
<1>6. Fields(s) = result
  <2>1. s \in [type : {SUBSCRIBE}, dup : {0, 1}, packetid : Numbers,
               topicFilters : Seq(Texts), requestedQoSs : Seq(0..2)]
    BY SubscribeAssumption
  <2> QED BY <2>1 DEF Fields
<1> QED BY <1>3, <1>5, <1>6

\* The end of a subscription: the packet id and the filters.
UnsubscribeEnds(u)   == [i \in DOMAIN u.topicFilters |-> << >>]
UnsubscribeRest(u)   == ListRest(u.packetid, u.topicFilters, UnsubscribeEnds(u))
UnsubscribeHeader(u) == MQTTHeader(UNSUBSCRIBE, u.dup, 1, 0)

\* Its fields.
LEMMA UnsubscribeFields ==
  ASSUME NEW u \in Unsubscribes
  PROVE  /\ u.type = UNSUBSCRIBE /\ u.dup \in {0, 1} /\ u.packetid \in Numbers
         /\ ListOf(u.topicFilters, UnsubscribeEnds(u), 0)
         /\ QosBehind(u.topicFilters, UnsubscribeEnds(u), 0, FALSE, << >>)
<1> DEFINE fs == u.topicFilters
           behind == UnsubscribeEnds(u)
<1>1. /\ u.type = UNSUBSCRIBE /\ u.dup \in {0, 1} /\ u.packetid \in Numbers /\ fs \in Seq(Texts)
  BY UnsubscribeAssumption
<1>2. DOMAIN fs = 1..Len(fs)
  BY <1>1
<1>3. behind = [i \in 1..Len(fs) |-> << >>]
  BY <1>2 DEF UnsubscribeEnds
<1> HIDE DEF fs, behind
<1>4. << >> \in Seq(Nat) /\ Len(<< >>) = 0
  OBVIOUS
<1>5. behind \in [1..Len(fs) -> Seq(Nat)] /\ \A i \in 1..Len(fs) : Len(behind[i]) = 0
  BY <1>3, <1>4
<1>6. ListOf(fs, behind, 0)
  BY <1>1, <1>5 DEF ListOf
<1>7. QosBehind(fs, behind, 0, FALSE, << >>)
  BY DEF QosBehind
<1> QED BY <1>1, <1>6, <1>7 DEF fs, behind

\* How it is written.
LEMMA UnsubscribeWritten ==
  ASSUME NEW u \in Unsubscribes
  PROVE  SerializedAs(u, UnsubscribeHeader(u), UnsubscribeRest(u))
<1> DEFINE rest == UnsubscribeRest(u)
           h == UnsubscribeHeader(u)
<1>1. rest \in Seq(Nat) /\ Len(rest) = UnsubscribeLength(u.topicFilters)
  <2> DEFINE each == 0
             fs == u.topicFilters
             behind == UnsubscribeEnds(u)
             id == u.packetid
  <2>1. ListOf(fs, behind, each) /\ id \in Numbers
    BY UnsubscribeFields
  <2> HIDE DEF each, fs, behind, id
  <2>2. /\ ListRest(id, fs, behind) \in Seq(Nat)
        /\ Len(ListRest(id, fs, behind)) = ListLength(fs, each)
    BY <2>1, ListRestWritten
  <2> QED BY <2>2 DEF UnsubscribeRest, UnsubscribeLength, each, fs, behind, id
<1>2. h \in Nat
  <2>1. u.dup \in {0, 1}
    BY UnsubscribeFields
  <2> QED BY <2>1, HeaderRead, PacketTypes DEF UnsubscribeHeader
<1>3. u.type = UNSUBSCRIBE
  BY UnsubscribeFields
<1>4. ASSUME NEW n \in Nat
      PROVE  Serialized(u, n) = MQTTSerialize_unsubscribe(n, u)
  BY <1>3 DEF Serialized, CONNECT, PUBLISH, SUBSCRIBE, UNSUBSCRIBE
<1>5. ASSUME NEW n \in Nat
      PROVE  MQTTSerialize_unsubscribe(n, u) = IF MQTTPacket_len(Len(rest)) > n THEN Refused
                                             ELSE Packet(h, rest, Len(rest))
  <2>1. rest = writeInt(u.packetid) \o writeFilters(u.topicFilters,
                  [i \in DOMAIN u.topicFilters |-> << >>])
    BY DEF UnsubscribeRest, ListRest, UnsubscribeEnds
  <2> HIDE DEF rest
  <2> QED BY <1>1, <2>1, Zenon DEF MQTTSerialize_unsubscribe, UnsubscribeHeader
<1> QED BY <1>1, <1>2, <1>4, <1>5 DEF SerializedAs

\* How the server reads it.
LEMMA UnsubscribeRead ==
  ASSUME NEW u \in Unsubscribes, Sendable(UnsubscribeHeader(u), UnsubscribeRest(u)),
         NEW b, Contains(b, UnsubscribeHeader(u), UnsubscribeRest(u))
  PROVE  HeaderType(b) = UNSUBSCRIBE /\ MQTTDeserialize_unsubscribe(b) = Fields(u)
<1> DEFINE h == UnsubscribeHeader(u)
           rest == UnsubscribeRest(u)
           at == Rest(b).at
           end == Rest(b).end
           list == Filters(b, at + 2, end, FALSE)
           result == [rc |-> 1, dup |-> u.dup, packetid |-> u.packetid,
                      topicFilters |-> u.topicFilters]
<1>1. /\ b[1] = h /\ at \in Nat /\ end \in Nat /\ end = at + Len(rest) /\ Holds(b, at, rest)
  BY RestRead
<1>2. Bits(h, 16, 16) = UNSUBSCRIBE /\ Bits(h, 8, 2) = u.dup
  <2>1. u.dup \in {0, 1}
    BY UnsubscribeFields
  <2> QED BY <2>1, HeaderRead, PacketTypes DEF UnsubscribeHeader
<1>3. HeaderType(b) = UNSUBSCRIBE /\ Bits(b[1], 8, 2) = u.dup
  BY <1>1, <1>2 DEF HeaderType
<1>4. /\ readInt(b, at) = u.packetid
      /\ list.ok = TRUE /\ list.filters = u.topicFilters
  <2> HIDE DEF at, end
  <2>1. /\ EndsAt(end, at, ListRest(u.packetid, u.topicFilters, UnsubscribeEnds(u)))
        /\ Holds(b, at, ListRest(u.packetid, u.topicFilters, UnsubscribeEnds(u)))
    BY <1>1 DEF UnsubscribeRest, EndsAt
  <2> DEFINE each == 0
             withQoS == FALSE
             fs == u.topicFilters
             behind == UnsubscribeEnds(u)
             qs == << >>
             id == u.packetid
  <2>2. ListOf(fs, behind, each) /\ QosBehind(fs, behind, each, withQoS, qs) /\ id \in Numbers
    BY UnsubscribeFields
  <2>3. EndsAt(end, at, ListRest(id, fs, behind)) /\ Holds(b, at, ListRest(id, fs, behind))
    BY <2>1
  <2> HIDE DEF each, withQoS, fs, behind, qs, id
  <2>4. /\ readInt(b, at) = id /\ Filters(b, at + 2, end, withQoS) = AllRead(end, fs, withQoS, qs)
    BY <1>1, <2>2, <2>3, ListRestRead
  <2>5. AllRead(end, fs, withQoS, qs).ok = TRUE /\ AllRead(end, fs, withQoS, qs).filters = fs
    BY DEF AllRead
  <2> QED BY <2>4, <2>5 DEF withQoS, fs, id
<1>5. MQTTDeserialize_unsubscribe(b) = result
  BY <1>3, <1>4, Zenon DEF MQTTDeserialize_unsubscribe
<1>6. Fields(u) = result
  <2>1. u \in [type : {UNSUBSCRIBE}, dup : {0, 1}, packetid : Numbers,
               topicFilters : Seq(Texts)]
    BY UnsubscribeAssumption
  <2> QED BY <2>1 DEF Fields
<1> QED BY <1>3, <1>5, <1>6
-----------------------------------------------------------------------------
(* Every request, and every answer.                                        *)

Small    == {[type |-> PINGREQ], [type |-> DISCONNECT]}
Requests == ConnectOptions \cup Publishes \cup Subscribes \cup Unsubscribes \cup Small

\* The header and the rest of a request's packet.
HeaderOf(r) ==
  CASE r.type = CONNECT     -> ConnectHeader
    [] r.type = PUBLISH     -> PublishHeader(r)
    [] r.type = SUBSCRIBE   -> SubscribeHeader(r)
    [] r.type = UNSUBSCRIBE -> UnsubscribeHeader(r)
    [] OTHER                -> MQTTHeader(r.type, 0, 0, 0)
RestOf(r) ==
  CASE r.type = CONNECT     -> ConnectRest(r)
    [] r.type = PUBLISH     -> PublishRest(r)
    [] r.type = SUBSCRIBE   -> SubscribeRest(r)
    [] r.type = UNSUBSCRIBE -> UnsubscribeRest(r)
    [] OTHER                -> << >>

\* What the server is to read from it, and what it does read from a buffer.
Understood(r) == IF r.type = CONNECT /\ Unacceptable(r) THEN [rc |-> 0] ELSE Fields(r)
ServerGets(b, l) ==
  CASE HeaderType(b) = CONNECT     -> MQTTDeserialize_connect(b, l)
    [] HeaderType(b) = PUBLISH     -> MQTTDeserialize_publish(b)
    [] HeaderType(b) = SUBSCRIBE   -> MQTTDeserialize_subscribe(b)
    [] HeaderType(b) = UNSUBSCRIBE -> MQTTDeserialize_unsubscribe(b)
    [] OTHER                       -> [rc |-> 1]

\* The answers that the server gives to a request, and their packets.
IsAnswer(r, a) ==
  \/ /\ r.type = CONNECT
     /\ \E session \in {0, 1}, code \in {0, 5} :
          a = [rc |-> 1, sessionPresent |-> session, connack_rc |-> code]
  \/ /\ r.type = PUBLISH
     /\ \E type \in {PUBACK, PUBREC, PUBCOMP} :
          a = [rc |-> 1, packettype |-> type, dup |-> 0, packetid |-> r.packetid]
  \/ /\ r.type = SUBSCRIBE
     /\ a = [rc |-> 1, packetid |-> r.packetid, grantedQoSs |-> r.requestedQoSs]
  \/ /\ r.type = UNSUBSCRIBE
     /\ a = [rc |-> 1, packettype |-> UNSUBACK, dup |-> 0, packetid |-> r.packetid]
  \/ /\ r.type = PINGREQ
     /\ a = [rc |-> 1]
AnswerHeader(r, a) ==
  MQTTHeader(CASE r.type = CONNECT     -> CONNACK
               [] r.type = PUBLISH     -> a.packettype
               [] r.type = SUBSCRIBE   -> SUBACK
               [] r.type = UNSUBSCRIBE -> UNSUBACK
               [] OTHER                -> PINGRESP, 0, 0, 0)
AnswerRest(r, a) ==
  CASE r.type = CONNECT     -> <<128 * a.sessionPresent, a.connack_rc>>
    [] r.type = PUBLISH     -> writeInt(a.packetid)
    [] r.type = SUBSCRIBE   -> writeInt(a.packetid) \o a.grantedQoSs
    [] r.type = UNSUBSCRIBE -> writeInt(a.packetid)
    [] OTHER                -> << >>
ClientGets(r, b) ==
  CASE HeaderType(b) = CONNACK  -> MQTTDeserialize_connack(b)
    [] HeaderType(b) = SUBACK   -> MQTTDeserialize_suback(Len(r.topicFilters), b)
    [] HeaderType(b) = UNSUBACK -> MQTTDeserialize_unsuback(b)
    [] HeaderType(b) = PINGRESP -> [rc |-> 1]
    [] OTHER                    -> MQTTDeserialize_ack(b)

\* The length l and the buffer b that go with a packet, and that the exchange has.
Holding(l, b, h, rest) ==
  /\ Sendable(h, rest) /\ l = Len(PacketOf(h, rest)) /\ l <= Capacity
  /\ \E stale \in Stale : b = Over(PacketOf(h, rest), stale)
Carries(h, rest) == Holding(len, buf, h, rest)

\* A request whose packet the buffers hold.
Fitting(r) == Sendable(HeaderOf(r), RestOf(r)) /\ Len(PacketOf(HeaderOf(r), RestOf(r))) <= Capacity

\* The header and the rest of a PUBREL.
ReleaseHeader == MQTTHeader(PUBREL, 0, 1, 0)

\* The room that the answer to a request has in a buffer of this length: all of
\* it, or of what only a server writes the rest.
HasRoom(r, h, rest, buflen) ==
  IF r.type \in {CONNECT, SUBSCRIBE, UNSUBSCRIBE}
    THEN Len(rest) <= buflen
    ELSE Len(PacketOf(h, rest)) <= buflen

\* Each step of the exchange leaves a packet in the buffer that is known from
\* the request, and what was read is what that packet was written from.
IInv ==
  /\ pc \in {"idle", "sent", "read", "answered", "confirmed", "released", "refused", "withheld"}
  /\ pc = "sent" => /\ request \in Requests /\ size \in Sizes /\ len <= size
                    /\ Carries(HeaderOf(request), RestOf(request))
  /\ pc \in {"read", "answered", "confirmed", "released"} => request \in Requests /\ Fitting(request)
  /\ pc = "read" => got = Understood(request)
  /\ pc = "answered" => /\ IsAnswer(request, answer)
                        /\ Carries(AnswerHeader(request, answer), AnswerRest(request, answer))
                        /\ HasRoom(request, AnswerHeader(request, answer),
                                   AnswerRest(request, answer), size)
  /\ pc = "confirmed" => IsAnswer(request, answer) /\ got = answer
  /\ pc = "released" => /\ request.type = PUBLISH /\ len <= size
                        /\ Carries(ReleaseHeader, writeInt(request.packetid))
  /\ pc = "refused" => request \in Requests /\ FillsUp(request, size)

\* The kinds of requests.
LEMMA Kinds ==
  ASSUME NEW r \in Requests
  PROVE  \/ r \in ConnectOptions /\ r.type = CONNECT
         \/ r \in Publishes /\ r.type = PUBLISH
         \/ r \in Subscribes /\ r.type = SUBSCRIBE
         \/ r \in Unsubscribes /\ r.type = UNSUBSCRIBE
         \/ r = [type |-> r.type] /\ r.type \in {PINGREQ, DISCONNECT}
<1>1. CASE r \in ConnectOptions
  BY <1>1, ConnectFields
<1>2. CASE r \in Publishes
  BY <1>2, PublishFields
<1>3. CASE r \in Subscribes
  BY <1>3, SubscribeFields
<1>4. CASE r \in Unsubscribes
  BY <1>4, UnsubscribeFields
<1>5. CASE r \in Small
  BY <1>5 DEF Small
<1> QED BY <1>1, <1>2, <1>3, <1>4, <1>5 DEF Requests

\* The types differ.
LEMMA TypesDiffer ==
  /\ CONNECT \notin {PUBLISH, SUBSCRIBE, UNSUBSCRIBE, PINGREQ, DISCONNECT}
  /\ PUBLISH \notin {SUBSCRIBE, UNSUBSCRIBE, PINGREQ, DISCONNECT}
  /\ SUBSCRIBE \notin {UNSUBSCRIBE, PINGREQ, DISCONNECT}
  /\ UNSUBSCRIBE \notin {PINGREQ, DISCONNECT}
  /\ PINGREQ # DISCONNECT
  /\ CONNACK \notin {SUBACK, UNSUBACK, PINGRESP, PUBACK, PUBREC, PUBREL, PUBCOMP}
  /\ SUBACK \notin {UNSUBACK, PINGRESP, PUBACK, PUBREC, PUBREL, PUBCOMP}
  /\ UNSUBACK \notin {PINGRESP, PUBACK, PUBREC, PUBREL, PUBCOMP}
  /\ PINGRESP \notin {PUBACK, PUBREC, PUBREL, PUBCOMP}
BY DEF CONNECT, CONNACK, PUBLISH, PUBACK, PUBREC, PUBREL, PUBCOMP, SUBSCRIBE, SUBACK,
       UNSUBSCRIBE, UNSUBACK, PINGREQ, PINGRESP, DISCONNECT

\* What is put into the buffer when a request is sent.
LEMMA RequestSent ==
  ASSUME NEW r \in Requests, NEW n \in Sizes
  PROVE  \/ /\ Sendable(HeaderOf(r), RestOf(r))
            /\ Serialized(r, n) = [rc |-> Len(PacketOf(HeaderOf(r), RestOf(r))),
                                   bytes |-> PacketOf(HeaderOf(r), RestOf(r))]
            /\ Serialized(r, n).rc > 0 /\ Len(PacketOf(HeaderOf(r), RestOf(r))) <= n
         \/ Serialized(r, n).rc <= 0 /\ FillsUp(r, n)
<1>1. CASE r \in ConnectOptions
  <2>1. HeaderOf(r) = ConnectHeader /\ RestOf(r) = ConnectRest(r)
    BY <1>1, ConnectFields, TypesDiffer, Zenon DEF HeaderOf, RestOf
  <2>2. SerializedAs(r, HeaderOf(r), RestOf(r))
    BY <1>1, <2>1, ConnectWritten
  <2> QED BY <1>1, <2>2, Fits
<1>2. CASE r \in Publishes
  <2>1. HeaderOf(r) = PublishHeader(r) /\ RestOf(r) = PublishRest(r)
    BY <1>2, PublishFields, TypesDiffer DEF HeaderOf, RestOf
  <2>2. SerializedAs(r, HeaderOf(r), RestOf(r))
    BY <1>2, <2>1, PublishWritten
  <2> QED BY <1>2, <2>2, Fits
<1>3. CASE r \in Subscribes
  <2>1. HeaderOf(r) = SubscribeHeader(r) /\ RestOf(r) = SubscribeRest(r)
    BY <1>3, SubscribeFields, TypesDiffer DEF HeaderOf, RestOf
  <2>2. SerializedAs(r, HeaderOf(r), RestOf(r))
    BY <1>3, <2>1, SubscribeWritten
  <2> QED BY <1>3, <2>2, Fits
<1>4. CASE r \in Unsubscribes
  <2>1. HeaderOf(r) = UnsubscribeHeader(r) /\ RestOf(r) = UnsubscribeRest(r)
    BY <1>4, UnsubscribeFields, TypesDiffer DEF HeaderOf, RestOf
  <2>2. SerializedAs(r, HeaderOf(r), RestOf(r))
    BY <1>4, <2>1, UnsubscribeWritten
  <2> QED BY <1>4, <2>2, Fits
<1>5. CASE r \in Small
  <2> DEFINE type == r.type
             h == MQTTHeader(type, 0, 0, 0)
             large == 2 * Capacity
  <2>1. r = [type |-> type] /\ type \in {PINGREQ, DISCONNECT}
    BY <1>5 DEF Small
  <2>2. HeaderOf(r) = h /\ RestOf(r) = << >>
    BY <2>1, TypesDiffer DEF HeaderOf, RestOf
  <2>3. n \in Nat /\ n <= large /\ large >= 2 /\ large \in Nat
    BY BufferAssumption
  <2> HIDE DEF type, h, large
  <2>4. ASSUME NEW m \in Nat
        PROVE  Serialized(r, m) = IF m < 2 THEN Refused ELSE [rc |-> 2, bytes |-> PacketOf(h, << >>)]
    <3>1. /\ Serialized([type |-> type], m) =
               IF m < 2 THEN Refused ELSE Packet(MQTTHeader(type, 0, 0, 0), << >>, 0)
          /\ Packet(MQTTHeader(type, 0, 0, 0), << >>, 0) =
               [rc |-> 2, bytes |-> PacketOf(MQTTHeader(type, 0, 0, 0), << >>)]
      BY <2>1, ZeroWritten
    <3> QED BY <2>1, <3>1 DEF h
  <2>5. Sendable(h, << >>) /\ Len(PacketOf(h, << >>)) = 2
    BY <2>1, <2>3, ZeroWritten DEF h
  <2>6. Refused.rc <= 0
    BY DEF Refused, MQTTPACKET_BUFFER_TOO_SHORT
  <2> DEFINE p == PacketOf(h, << >>)
  <2>7. Serialized(r, large).rc = 2
    BY <2>3, <2>4
  <2>8. CASE n < 2
    <3>1. Serialized(r, n).rc <= 0
      BY <2>3, <2>4, <2>6, <2>8
    <3>2. n <= Serialized(r, large).rc
      BY <2>3, <2>7, <2>8
    <3> QED BY <3>1, <3>2 DEF large, FillsUp
  <2>9. CASE ~(n < 2)
    <3>1. Serialized(r, n) = [rc |-> 2, bytes |-> p] /\ n >= 2
      BY <2>3, <2>4, <2>9
    <3>2. Len(p) = 2 /\ Sendable(h, << >>) /\ p = PacketOf(HeaderOf(r), RestOf(r))
      BY <2>2, <2>5
    <3> HIDE DEF p
    <3>3. Serialized(r, n) = [rc |-> Len(p), bytes |-> p] /\ Serialized(r, n).rc > 0 /\ Len(p) <= n
      BY <2>3, <3>1, <3>2
    <3> QED BY <2>2, <3>2, <3>3
  <2> QED BY <2>8, <2>9
<1> QED BY <1>1, <1>2, <1>3, <1>4, <1>5 DEF Requests

\* What the server reads of it.
LEMMA RequestRead ==
  ASSUME NEW r \in Requests, Sendable(HeaderOf(r), RestOf(r)),
         NEW b, Contains(b, HeaderOf(r), RestOf(r)), NEW l, l + 1 = Rest(b).end
  PROVE  ServerGets(b, l) = Understood(r)
<1>1. CASE r \in ConnectOptions
  <2>1. r.type = CONNECT /\ HeaderOf(r) = ConnectHeader /\ RestOf(r) = ConnectRest(r)
    BY <1>1, ConnectFields, TypesDiffer, Zenon DEF HeaderOf, RestOf
  <2>2. /\ HeaderType(b) = CONNECT
        /\ MQTTDeserialize_connect(b, l) = IF Unacceptable(r) THEN [rc |-> 0] ELSE Fields(r)
    BY <1>1, <2>1, ConnectRead
  <2>3. ServerGets(b, l) = MQTTDeserialize_connect(b, l)
    BY <2>2, TypesDiffer DEF ServerGets
  <2> QED BY <2>1, <2>2, <2>3, Zenon DEF Understood
<1>2. CASE r \in Publishes
  <2>1. r.type = PUBLISH /\ HeaderOf(r) = PublishHeader(r) /\ RestOf(r) = PublishRest(r)
    BY <1>2, PublishFields, TypesDiffer DEF HeaderOf, RestOf
  <2>2. HeaderType(b) = PUBLISH /\ MQTTDeserialize_publish(b) = Fields(r)
    BY <1>2, <2>1, PublishRead
  <2>3. ServerGets(b, l) = MQTTDeserialize_publish(b)
    BY <2>2, TypesDiffer DEF ServerGets
  <2> QED BY <2>1, <2>2, <2>3, TypesDiffer DEF Understood
<1>3. CASE r \in Subscribes
  <2>1. r.type = SUBSCRIBE /\ HeaderOf(r) = SubscribeHeader(r) /\ RestOf(r) = SubscribeRest(r)
    BY <1>3, SubscribeFields, TypesDiffer DEF HeaderOf, RestOf
  <2>2. HeaderType(b) = SUBSCRIBE /\ MQTTDeserialize_subscribe(b) = Fields(r)
    BY <1>3, <2>1, SubscribeRead
  <2>3. ServerGets(b, l) = MQTTDeserialize_subscribe(b)
    BY <2>2, TypesDiffer DEF ServerGets
  <2> QED BY <2>1, <2>2, <2>3, TypesDiffer DEF Understood
<1>4. CASE r \in Unsubscribes
  <2>1. /\ r.type = UNSUBSCRIBE
        /\ HeaderOf(r) = UnsubscribeHeader(r) /\ RestOf(r) = UnsubscribeRest(r)
    BY <1>4, UnsubscribeFields, TypesDiffer DEF HeaderOf, RestOf
  <2>2. HeaderType(b) = UNSUBSCRIBE /\ MQTTDeserialize_unsubscribe(b) = Fields(r)
    BY <1>4, <2>1, UnsubscribeRead
  <2>3. ServerGets(b, l) = MQTTDeserialize_unsubscribe(b)
    BY <2>2, TypesDiffer DEF ServerGets
  <2> QED BY <2>1, <2>2, <2>3, TypesDiffer DEF Understood
<1>5. CASE r \in Small
  <2> DEFINE type == r.type
  <2>1. r = [type |-> type] /\ type \in {PINGREQ, DISCONNECT}
    BY <1>5 DEF Small
  <2>2. HeaderOf(r) = MQTTHeader(type, 0, 0, 0)
    BY <2>1, TypesDiffer DEF HeaderOf
  <2>3. b[1] = HeaderOf(r)
    BY RestRead
  <2>4. HeaderType(b) = type
    <3> DEFINE none == 0
    <3>1. type \in 1..14 /\ none \in {0, 1} /\ none \in 0..2
      BY <2>1, PacketTypes
    <3>2. HeaderOf(r) = MQTTHeader(type, none, none, none)
      BY <2>2
    <3> HIDE DEF type, none
    <3>3. Bits(HeaderOf(r), 16, 16) = type
      BY <3>1, <3>2, HeaderRead
    <3> QED BY <2>3, <3>3 DEF HeaderType
  <2>5. ServerGets(b, l) = [rc |-> 1]
    BY <2>1, <2>4, TypesDiffer DEF ServerGets
  <2>6. Fields([type |-> type]) = [rc |-> 1]
    <3>1. (DOMAIN [type |-> type] \ {"type", "MQTTVersion"}) \cup {"rc"} = {"rc"}
      OBVIOUS
    <3> DEFINE one == [f \in {"rc"} |-> IF f = "rc" THEN 1 ELSE [type |-> type][f]]
    <3>2. Fields([type |-> type]) = one
      BY <3>1 DEF Fields
    <3>3. one = [rc |-> 1]
      OBVIOUS
    <3> QED BY <3>2, <3>3
  <2> HIDE DEF type
  <2>7. Understood(r) = Fields([type |-> type])
    <3>1. r.type # CONNECT
      BY <2>1, TypesDiffer DEF type
    <3> QED BY <2>1, <3>1, Zenon DEF Understood
  <2> QED BY <2>5, <2>6, <2>7
<1> QED BY <1>1, <1>2, <1>3, <1>4, <1>5 DEF Requests

\* A packet whose rest is not longer than that of one that fits, fits.
LEMMA ShorterFits ==
  ASSUME NEW h, NEW rest, Sendable(h, rest), Len(PacketOf(h, rest)) <= Capacity,
         NEW h2 \in Nat, NEW rest2 \in Seq(Nat), Len(rest2) <= Len(rest)
  PROVE  /\ Sendable(h2, rest2) /\ Len(PacketOf(h2, rest2)) <= Capacity
         /\ Packet(h2, rest2, Len(rest2)) = [rc |-> Len(PacketOf(h2, rest2)), bytes |-> PacketOf(h2, rest2)]
         /\ 2 + Len(rest2) <= Capacity
<1> DEFINE n == Len(rest)
           m == Len(rest2)
           k == Digits(rest)
           j == Digits(rest2)
<1>1. n \in Nat /\ m \in Nat /\ n < R4 /\ R4 \in Nat /\ m <= n
  BY Radices DEF Sendable
<1>2. m < R4
  <2> HIDE DEF n, m
  <2> QED BY <1>1
<1>3. Sendable(h2, rest2)
  BY <1>2 DEF Sendable
<1>4. /\ Len(PacketOf(h, rest)) = 1 + k + n /\ k \in 1..4
      /\ Len(PacketOf(h2, rest2)) = 1 + j + m /\ j \in 1..4
      /\ Packet(h2, rest2, Len(rest2)) = [rc |-> Len(PacketOf(h2, rest2)), bytes |-> PacketOf(h2, rest2)]
  BY <1>3, PacketBytes
<1>5. /\ k = IF n < Radix THEN 1 ELSE IF n < R2 THEN 2 ELSE IF n < R3 THEN 3 ELSE 4
      /\ j = IF m < Radix THEN 1 ELSE IF m < R2 THEN 2 ELSE IF m < R3 THEN 3 ELSE 4
  BY <1>1, <1>2, Encoded DEF Digits
<1> HIDE DEF n, m, k, j
<1>6. Radix \in Nat /\ R2 \in Nat /\ R3 \in Nat
  BY Radices
<1>7. j <= k
  BY <1>1, <1>5, <1>6
<1>8. Capacity \in Nat
  BY BufferAssumption
<1>9. 1 + j + m <= Capacity /\ 2 + m <= Capacity
  BY <1>1, <1>4, <1>7, <1>8
<1> QED BY <1>3, <1>4, <1>9 DEF m

\* The rest of a request is at least as long as that of its answer.
LEMMA RestSizes ==
  ASSUME NEW r \in Requests
  PROVE  /\ r.type \in {CONNECT, PUBLISH, SUBSCRIBE, UNSUBSCRIBE} => Len(RestOf(r)) >= 2
         /\ r.type = SUBSCRIBE => /\ Len(RestOf(r)) >= 2 + Len(r.requestedQoSs)
                                  /\ r.requestedQoSs \in Seq(Nat)
                                  /\ Len(r.topicFilters) = Len(r.requestedQoSs)
         /\ r.type \in {PUBLISH, SUBSCRIBE, UNSUBSCRIBE} => r.packetid \in Numbers
<1>1. CASE r \in ConnectOptions
  <2>1. r.type = CONNECT /\ RestOf(r) = ConnectRest(r)
    BY <1>1, ConnectFields, TypesDiffer, Zenon DEF RestOf
  <2> DEFINE u == Optional(r.username)
             v == Optional(r.password)
             x == Protocol(r) \o <<ConnectFlags(r)>> \o writeInt(r.keepAliveInterval)
             y == x \o writeMQTTString(r.clientID) \o Will(r)
  <2>2. x \in Seq(Nat) /\ Len(x) >= 2
    <3> DEFINE p == Protocol(r)
               f == <<ConnectFlags(r)>>
               k == writeInt(r.keepAliveInterval)
    <3>1. p \in Seq(Nat) /\ f \in Seq(Nat) /\ k \in Seq(Nat) /\ Len(k) = 2 /\ Len(p) \in Nat
          /\ Len(f) \in Nat
      BY <1>1, ConnectParts
    <3> HIDE DEF p, f, k
    <3>2. p \o f \o k \in Seq(Nat) /\ Len(p \o f \o k) = Len(p) + Len(f) + Len(k)
      BY <3>1, ThreeParts
    <3>3. Len(p \o f \o k) >= 2
      BY <3>1, <3>2
    <3> QED BY <3>2, <3>3 DEF p, f, k
  <2> HIDE DEF x
  <2>3. y \in Seq(Nat) /\ Len(y) >= 2
    <3> DEFINE c == writeMQTTString(r.clientID)
               w == Will(r)
    <3>1. c \in Seq(Nat) /\ w \in Seq(Nat) /\ Len(c) \in Nat /\ Len(w) \in Nat
      BY <1>1, ConnectParts
    <3> HIDE DEF c, w
    <3>2. x \o c \o w \in Seq(Nat) /\ Len(x \o c \o w) = Len(x) + Len(c) + Len(w) /\ Len(x) \in Nat
      BY <2>2, <3>1, ThreeParts
    <3>3. Len(x \o c \o w) >= 2
      BY <2>2, <3>1, <3>2
    <3> QED BY <3>2, <3>3 DEF c, w
  <2> HIDE DEF y
  <2>4. u \in Seq(Nat) /\ v \in Seq(Nat)
    BY <1>1, ConnectParts
  <2> HIDE DEF u, v
  <2>5. Len(y \o u \o v) = Len(y) + Len(u) + Len(v) /\ Len(u) \in Nat /\ Len(v) \in Nat /\ Len(y) \in Nat
    BY <2>3, <2>4, ThreeParts
  <2>6. ConnectRest(r) = y \o u \o v
    BY DEF ConnectRest, x, y, u, v
  <2>7. Len(ConnectRest(r)) >= 2
    BY <2>3, <2>5, <2>6
  <2> QED BY <2>1, <2>7, TypesDiffer
<1>2. CASE r \in Publishes
  <2>1. r.type = PUBLISH /\ RestOf(r) = PublishRest(r) /\ r.packetid \in Numbers
    BY <1>2, PublishFields, TypesDiffer DEF RestOf
  <2> DEFINE s == writeMQTTString(r.topicName)
             t == PublishId(r)
             u == r.payload
             l == Len(r.topicName.chars)
  <2>2. s \in Seq(Nat) /\ t \in Seq(Nat) /\ u \in Seq(Nat) /\ Len(s) = l + 2 /\ l \in Nat
    BY <1>2, PublishFields
  <2> HIDE DEF s, t, u, l
  <2>3. Len(s \o t \o u) = Len(s) + Len(t) + Len(u) /\ Len(t) \in Nat /\ Len(u) \in Nat
    BY <2>2, ThreeParts
  <2>4. PublishRest(r) = s \o t \o u
    BY DEF PublishRest, s, t, u
  <2>5. Len(PublishRest(r)) >= 2
    BY <2>2, <2>3, <2>4
  <2> QED BY <2>1, <2>5, TypesDiffer
<1>3. CASE r \in Subscribes
  <2> DEFINE one == 1
             fs == r.topicFilters
             behind == SubscribeQos(r)
             id == r.packetid
             qs == r.requestedQoSs
  <2>1. r.type = SUBSCRIBE /\ RestOf(r) = SubscribeRest(r)
    BY <1>3, SubscribeFields, TypesDiffer DEF RestOf
  <2>2. /\ ListOf(fs, behind, one) /\ id \in Numbers /\ qs \in Seq(Nat) /\ Len(qs) = Len(fs)
    BY <1>3, SubscribeFields
  <2> HIDE DEF one, fs, behind, id, qs
  <2>3. Len(ListRest(id, fs, behind)) >= 2 + Len(fs) /\ Len(fs) \in Nat
    BY <2>2, ListRestWritten
  <2>4. SubscribeRest(r) = ListRest(id, fs, behind)
    BY DEF SubscribeRest, fs, behind, id
  <2> DEFINE n == Len(RestOf(r))
  <2>5. n >= 2 + Len(qs) /\ n >= 2
    <3>1. ListRest(id, fs, behind) \in Seq(Nat)
      BY <2>2, ListRestWritten
    <3>2. n \in Nat /\ n >= 2 + Len(fs)
      BY <2>1, <2>3, <2>4, <3>1
    <3> HIDE DEF n
    <3> QED BY <2>2, <2>3, <3>2
  <2> HIDE DEF n
  <2> QED BY <2>1, <2>2, <2>5 DEF n, fs, id, qs
<1>4. CASE r \in Unsubscribes
  <2> DEFINE each == 0
             fs == r.topicFilters
             behind == UnsubscribeEnds(r)
             id == r.packetid
  <2>1. r.type = UNSUBSCRIBE /\ RestOf(r) = UnsubscribeRest(r)
    BY <1>4, UnsubscribeFields, TypesDiffer DEF RestOf
  <2>2. ListOf(fs, behind, each) /\ id \in Numbers
    BY <1>4, UnsubscribeFields
  <2> HIDE DEF each, fs, behind, id
  <2>3. /\ Len(ListRest(id, fs, behind)) >= 2 + Len(fs) /\ Len(fs) \in Nat
        /\ ListRest(id, fs, behind) \in Seq(Nat)
    BY <2>2, ListRestWritten
  <2>4. UnsubscribeRest(r) = ListRest(id, fs, behind)
    BY DEF UnsubscribeRest, fs, behind, id
  <2> DEFINE n == Len(RestOf(r))
  <2>5. n >= 2
    <3>1. n \in Nat /\ n >= 2 + Len(fs)
      BY <2>1, <2>3, <2>4
    <3> HIDE DEF n
    <3> QED BY <2>3, <3>1
  <2> HIDE DEF n
  <2> QED BY <2>1, <2>2, <2>5, TypesDiffer DEF n, id
<1>5. CASE r \in Small
  BY <1>5, TypesDiffer DEF Small
<1> QED BY <1>1, <1>2, <1>3, <1>4, <1>5 DEF Requests
-----------------------------------------------------------------------------
(* The packets in the buffers of the exchange.                             *)

\* A packet arrives as it was sent, whatever was in the buffer before.
LEMMA Received ==
  ASSUME NEW l, NEW b, NEW h, NEW rest, Holding(l, b, h, rest), NEW stale \in Stale
  PROVE  /\ Over(readPacket(SubSeq(b, 1, l)), stale) = Over(PacketOf(h, rest), stale)
         /\ Sendable(h, rest) /\ Contains(Over(PacketOf(h, rest), stale), h, rest)
         /\ l + 1 = Rest(Over(PacketOf(h, rest), stale)).end
         /\ l = Rest(b).end - 1 /\ Len(rest) = Rest(b).end - Rest(b).at
<1> DEFINE p == PacketOf(h, rest)
           c == Over(p, stale)
<1>1. PICK old \in Stale : b = Over(p, old)
  BY DEF Holding
<1>2. /\ Sendable(h, rest) /\ l = Len(p) /\ l <= Capacity
      /\ old \in Nat /\ stale \in Nat
  BY BufferAssumption DEF Holding
<1>3. Contains(b, h, rest) /\ SubSeq(b, 1, l) = p
  <2>1. Len(PacketOf(h, rest)) <= Capacity
    BY <1>2
  <2>2. /\ Contains(Over(PacketOf(h, rest), old), h, rest)
        /\ SubSeq(Over(PacketOf(h, rest), old), 1, Len(PacketOf(h, rest))) = PacketOf(h, rest)
    BY <1>2, <2>1, OverContains
  <2> QED BY <1>1, <1>2, <2>2
<1>4. Contains(c, h, rest)
  <2>1. Len(PacketOf(h, rest)) <= Capacity
    BY <1>2
  <2> QED BY <1>2, <2>1, OverContains
<1>5. readPacket(p) = p
  BY <1>2, PacketReceived
<1> DEFINE k == Digits(rest)
           n == Len(rest)
<1>6. k \in 1..4 /\ Len(p) = 1 + k + n /\ n \in Nat
  BY <1>2, PacketBytes DEF Sendable
<1>7. /\ Rest(b).end = 2 + k + n
      /\ Rest(b).end = Rest(b).at + n /\ Rest(b).at \in Nat
  BY <1>2, <1>3, RestRead
<1>8. Rest(c).end = 2 + k + n
  <2> HIDE DEF c
  <2> QED BY <1>2, <1>4, RestRead
<1> HIDE DEF p, c, k, n
<1>9. l + 1 = Rest(c).end /\ l = Rest(b).end - 1 /\ n = Rest(b).end - Rest(b).at
  BY <1>2, <1>6, <1>7, <1>8
<1>10. Over(readPacket(SubSeq(b, 1, l)), stale) = c
  BY <1>3, <1>5 DEF c
<1> QED BY <1>2, <1>4, <1>9, <1>10 DEF p, c, n

\* What a function gives that serialises a packet for which there is room.
GivenAs(packet, h, rest) ==
  /\ packet = [rc |-> Len(PacketOf(h, rest)), bytes |-> PacketOf(h, rest)]
  /\ Sendable(h, rest) /\ Len(PacketOf(h, rest)) <= Capacity

\* Such a packet is put over the bytes of a buffer.
LEMMA PutOver ==
  ASSUME NEW packet, NEW h, NEW rest, GivenAs(packet, h, rest), NEW stale \in Stale
  PROVE  Holding(packet.rc, Over(packet.bytes, stale), h, rest)
<1> DEFINE p == PacketOf(h, rest)
<1>1. /\ packet = [rc |-> Len(p), bytes |-> p]
      /\ Sendable(h, rest) /\ Len(p) <= Capacity
  BY DEF GivenAs
<1>2. packet.rc = Len(p) /\ packet.bytes = p
  <2> HIDE DEF p
  <2> QED BY <1>1
<1> QED BY <1>1, <1>2 DEF Holding

\* An acknowledgement is read as it was written.
LEMMA AckRead ==
  ASSUME NEW type \in 1..14, NEW qos \in 0..2, NEW id \in Numbers, NEW b,
         Sendable(MQTTHeader(type, 0, qos, 0), writeInt(id)),
         Contains(b, MQTTHeader(type, 0, qos, 0), writeInt(id))
  PROVE  /\ HeaderType(b) = type
         /\ MQTTDeserialize_ack(b) = [rc |-> 1, packettype |-> type, dup |-> 0, packetid |-> id]
<1> DEFINE none == 0
           h == MQTTHeader(type, none, qos, none)
           rest == writeInt(id)
           at == Rest(b).at
           end == Rest(b).end
<1>1. Len(rest) = 2
  BY IntWritten
<1>2. Bits(h, 16, 16) = type /\ Bits(h, 8, 2) = none
  <2>1. none \in {0, 1}
    OBVIOUS
  <2> HIDE DEF none
  <2> QED BY <2>1, HeaderRead
<1>3. b[1] = h /\ at \in Nat /\ end \in Nat /\ end = at + Len(rest) /\ Holds(b, at, rest)
  <2>1. Sendable(h, rest) /\ Contains(b, h, rest)
    OBVIOUS
  <2> HIDE DEF h, rest
  <2> QED BY <2>1, RestRead
<1>4. readInt(b, at) = id
  <2>1. Holds(b, at, writeInt(id)) /\ at \in Nat
    BY <1>3
  <2> HIDE DEF at
  <2> QED BY <2>1, IntRead
<1>5. HeaderType(b) = type /\ Bits(b[1], 8, 2) = 0
  BY <1>2, <1>3 DEF HeaderType
<1> HIDE DEF at, end, rest
<1>6. ~(end - at < 2)
  BY <1>1, <1>3
<1>7. MQTTDeserialize_ack(b) =
        [rc |-> 1, packettype |-> HeaderType(b), dup |-> Bits(b[1], 8, 2), packetid |-> readInt(b, at)]
  BY <1>6, Zenon DEF MQTTDeserialize_ack, at, end
<1> QED BY <1>4, <1>5, <1>7

\* How the server writes an answer into a buffer of length n.
AnswerPacket(r, a, n) ==
  CASE r.type = CONNECT     -> MQTTSerialize_connack(n, a.connack_rc, a.sessionPresent)
    [] r.type = PUBLISH     -> MQTTSerialize_ack(n, a.packettype, 0, a.packetid)
    [] r.type = SUBSCRIBE   -> MQTTSerialize_suback(n, a.packetid, a.grantedQoSs)
    [] r.type = UNSUBSCRIBE -> MQTTSerialize_unsuback(n, a.packetid)
    [] OTHER                -> MQTTSerialize_zero(n, PINGRESP)

\* The fields of an answer, and its packet, for each kind of request.
LEMMA AnswerKinds ==
  ASSUME NEW r \in Requests, NEW a, IsAnswer(r, a), NEW n
  PROVE  \/ /\ r.type = CONNECT
            /\ \E session \in {0, 1}, code \in {0, 5} :
                 /\ a = [rc |-> 1, sessionPresent |-> session, connack_rc |-> code]
                 /\ AnswerRest(r, a) = <<128 * session, code>>
                 /\ AnswerPacket(r, a, n) = MQTTSerialize_connack(n, code, session)
            /\ AnswerHeader(r, a) = MQTTHeader(CONNACK, 0, 0, 0)
         \/ /\ r.type = PUBLISH
            /\ \E type \in {PUBACK, PUBREC, PUBCOMP} :
                 /\ a = [rc |-> 1, packettype |-> type, dup |-> 0, packetid |-> r.packetid]
                 /\ AnswerHeader(r, a) = MQTTHeader(type, 0, 0, 0)
                 /\ AnswerPacket(r, a, n) = MQTTSerialize_ack(n, type, 0, r.packetid)
            /\ AnswerRest(r, a) = writeInt(r.packetid)
         \/ /\ r.type = SUBSCRIBE
            /\ a = [rc |-> 1, packetid |-> r.packetid, grantedQoSs |-> r.requestedQoSs]
            /\ AnswerHeader(r, a) = MQTTHeader(SUBACK, 0, 0, 0)
            /\ AnswerRest(r, a) = writeInt(r.packetid) \o r.requestedQoSs
            /\ AnswerPacket(r, a, n) = MQTTSerialize_suback(n, r.packetid, r.requestedQoSs)
         \/ /\ r.type = UNSUBSCRIBE
            /\ a = [rc |-> 1, packettype |-> UNSUBACK, dup |-> 0, packetid |-> r.packetid]
            /\ AnswerHeader(r, a) = MQTTHeader(UNSUBACK, 0, 0, 0)
            /\ AnswerRest(r, a) = writeInt(r.packetid)
            /\ AnswerPacket(r, a, n) = MQTTSerialize_unsuback(n, r.packetid)
         \/ /\ r.type = PINGREQ
            /\ a = [rc |-> 1]
            /\ AnswerHeader(r, a) = MQTTHeader(PINGRESP, 0, 0, 0)
            /\ AnswerRest(r, a) = << >>
            /\ AnswerPacket(r, a, n) = MQTTSerialize_zero(n, PINGRESP)
<1>1. CASE r.type = CONNECT
  <2>1. PICK session \in {0, 1}, code \in {0, 5} :
          a = [rc |-> 1, sessionPresent |-> session, connack_rc |-> code]
    BY <1>1, TypesDiffer DEF IsAnswer
  <2>2. a.sessionPresent = session /\ a.connack_rc = code
    BY <2>1
  <2>3. /\ AnswerHeader(r, a) = MQTTHeader(CONNACK, 0, 0, 0)
        /\ AnswerRest(r, a) = <<128 * a.sessionPresent, a.connack_rc>>
        /\ AnswerPacket(r, a, n) = MQTTSerialize_connack(n, a.connack_rc, a.sessionPresent)
    BY <1>1, TypesDiffer, Zenon DEF AnswerHeader, AnswerRest, AnswerPacket
  <2>4. /\ AnswerRest(r, a) = <<128 * session, code>>
        /\ AnswerPacket(r, a, n) = MQTTSerialize_connack(n, code, session)
    BY <2>2, <2>3
  <2> QED BY <1>1, <2>1, <2>3, <2>4
<1>2. CASE r.type = PUBLISH
  <2>1. PICK type \in {PUBACK, PUBREC, PUBCOMP} :
          a = [rc |-> 1, packettype |-> type, dup |-> 0, packetid |-> r.packetid]
    BY <1>2, TypesDiffer DEF IsAnswer
  <2>2. a.packettype = type /\ a.packetid = r.packetid
    BY <2>1
  <2>3. /\ AnswerHeader(r, a) = MQTTHeader(a.packettype, 0, 0, 0)
        /\ AnswerRest(r, a) = writeInt(a.packetid)
        /\ AnswerPacket(r, a, n) = MQTTSerialize_ack(n, a.packettype, 0, a.packetid)
    BY <1>2, TypesDiffer DEF AnswerHeader, AnswerRest, AnswerPacket
  <2>4. /\ AnswerHeader(r, a) = MQTTHeader(type, 0, 0, 0)
        /\ AnswerRest(r, a) = writeInt(r.packetid)
        /\ AnswerPacket(r, a, n) = MQTTSerialize_ack(n, type, 0, r.packetid)
    BY <2>2, <2>3
  <2> QED BY <1>2, <2>1, <2>4
<1>3. CASE r.type = SUBSCRIBE
  <2>1. a = [rc |-> 1, packetid |-> r.packetid, grantedQoSs |-> r.requestedQoSs]
    BY <1>3, TypesDiffer DEF IsAnswer
  <2>2. a.packetid = r.packetid /\ a.grantedQoSs = r.requestedQoSs
    BY <2>1
  <2>3. /\ AnswerHeader(r, a) = MQTTHeader(SUBACK, 0, 0, 0)
        /\ AnswerRest(r, a) = writeInt(a.packetid) \o a.grantedQoSs
        /\ AnswerPacket(r, a, n) = MQTTSerialize_suback(n, a.packetid, a.grantedQoSs)
    BY <1>3, TypesDiffer DEF AnswerHeader, AnswerRest, AnswerPacket
  <2> QED BY <1>3, <2>1, <2>2, <2>3
<1>4. CASE r.type = UNSUBSCRIBE
  <2>1. a = [rc |-> 1, packettype |-> UNSUBACK, dup |-> 0, packetid |-> r.packetid]
    BY <1>4, TypesDiffer DEF IsAnswer
  <2>2. a.packetid = r.packetid
    BY <2>1
  <2>3. /\ AnswerHeader(r, a) = MQTTHeader(UNSUBACK, 0, 0, 0)
        /\ AnswerRest(r, a) = writeInt(a.packetid)
        /\ AnswerPacket(r, a, n) = MQTTSerialize_unsuback(n, a.packetid)
    BY <1>4, TypesDiffer DEF AnswerHeader, AnswerRest, AnswerPacket
  <2> QED BY <1>4, <2>1, <2>2, <2>3
<1>5. CASE r.type = PINGREQ
  <2>1. a = [rc |-> 1]
    BY <1>5, TypesDiffer DEF IsAnswer
  <2>2. /\ AnswerHeader(r, a) = MQTTHeader(PINGRESP, 0, 0, 0)
        /\ AnswerRest(r, a) = << >>
        /\ AnswerPacket(r, a, n) = MQTTSerialize_zero(n, PINGRESP)
    BY <1>5, TypesDiffer DEF AnswerHeader, AnswerRest, AnswerPacket
  <2> QED BY <1>5, <2>1, <2>2
<1> QED BY <1>1, <1>2, <1>3, <1>4, <1>5 DEF IsAnswer

\* A packet whose rest has at most two bytes needs two more.
LEMMA ShortPacket ==
  ASSUME NEW h, NEW rest, Sendable(h, rest), Len(rest) <= 2
  PROVE  Len(PacketOf(h, rest)) = 2 + Len(rest)
<1> DEFINE n == Len(rest)
           k == Digits(rest)
<1>1. n \in Nat /\ n < R4
  BY DEF Sendable
<1>2. Len(PacketOf(h, rest)) = 1 + k + n
  BY PacketBytes
<1>3. k = IF n < Radix THEN 1 ELSE IF n < R2 THEN 2 ELSE IF n < R3 THEN 3 ELSE 4
  BY <1>1, Encoded DEF Digits
<1> HIDE DEF n, k
<1>4. n <= 2
  BY DEF n
<1>5. k = 1
  BY <1>1, <1>3, <1>4, RadixAssumption
<1>6. Len(PacketOf(h, rest)) = 2 + n
  BY <1>1, <1>2, <1>5
<1> QED BY <1>6 DEF n

\* A function refuses the packet, or gives it.
GivenIn(packet, h, rest, room) ==
  \/ packet = Refused
  \/ GivenAs(packet, h, rest) /\ room

\* An acknowledgement is given within the buffer, or refused.
LEMMA AckGiven ==
  ASSUME NEW r \in Requests, Fitting(r), r.type = PUBLISH,
         NEW type \in {PUBACK, PUBREC, PUBREL, PUBCOMP}, NEW qos \in 0..2,
         qos = IF type = PUBREL THEN 1 ELSE 0,
         NEW n \in Sizes
  PROVE  GivenIn(MQTTSerialize_ack(n, type, 0, r.packetid),
                 MQTTHeader(type, 0, qos, 0), writeInt(r.packetid),
                 Len(PacketOf(MQTTHeader(type, 0, qos, 0), writeInt(r.packetid))) <= n)
<1> DEFINE none == 0
           h == HeaderOf(r)
           rest == RestOf(r)
           h2 == MQTTHeader(type, none, qos, none)
           id == r.packetid
           rest2 == writeInt(id)
<1>1. id \in Numbers /\ Len(rest) >= 2
  BY RestSizes
<1>2. rest2 \in Seq(Nat) /\ Len(rest2) = 2
  <2> HIDE DEF id
  <2> QED BY <1>1, IntWritten
<1>3. h2 \in Nat
  <2>1. type \in 1..14 /\ none \in {0, 1}
    BY PacketTypes
  <2> HIDE DEF none
  <2> QED BY <2>1, HeaderRead
<1>4. Sendable(h, rest) /\ Len(PacketOf(h, rest)) <= Capacity
  BY DEF Fitting
<1>5. MQTTSerialize_ack(n, type, 0, id) = IF n < 4 THEN Refused ELSE Packet(h2, rest2, 2)
  <2>1. h2 = MQTTHeader(type, 0, IF type = PUBREL THEN 1 ELSE 0, 0)
    OBVIOUS
  <2> HIDE DEF h2, id
  <2> QED BY <2>1 DEF MQTTSerialize_ack
<1> HIDE DEF h, rest, h2, rest2
<1>6. Len(rest2) <= Len(rest)
  BY <1>1, <1>2
<1>7. /\ Sendable(h2, rest2) /\ Len(PacketOf(h2, rest2)) <= Capacity
      /\ Packet(h2, rest2, Len(rest2)) = [rc |-> Len(PacketOf(h2, rest2)), bytes |-> PacketOf(h2, rest2)]
      /\ 2 + Len(rest2) <= Capacity
  BY <1>2, <1>3, <1>4, <1>6, ShorterFits
<1>8. Len(PacketOf(h2, rest2)) = 4
  <2>1. Len(rest2) <= 2 /\ Sendable(h2, rest2)
    BY <1>2, <1>7
  <2>2. Len(PacketOf(h2, rest2)) = 2 + Len(rest2)
    BY <2>1, ShortPacket
  <2> QED BY <1>2, <2>2
<1>10. ~(n < 4) => Len(PacketOf(h2, rest2)) <= n
  BY <1>8, BufferAssumption
<1>9. GivenAs(Packet(h2, rest2, 2), h2, rest2)
  BY <1>2, <1>7 DEF GivenAs
<1> QED BY <1>5, <1>9, <1>10 DEF GivenIn, h2, rest2

\* An answer is given as far as its function looks at the room, or refused.
LEMMA AnswerGiven ==
  ASSUME NEW r \in Requests, Fitting(r), NEW a, IsAnswer(r, a), NEW n \in Sizes
  PROVE  GivenIn(AnswerPacket(r, a, n), AnswerHeader(r, a), AnswerRest(r, a),
                 HasRoom(r, AnswerHeader(r, a), AnswerRest(r, a), n))
<1> DEFINE h == HeaderOf(r)
           rest == RestOf(r)
           h2 == AnswerHeader(r, a)
           rest2 == AnswerRest(r, a)
           packet == AnswerPacket(r, a, n)
           room == HasRoom(r, h2, rest2, n)
<1>1. Sendable(h, rest) /\ Len(PacketOf(h, rest)) <= Capacity /\ Capacity \in Nat /\ n \in Nat
  BY BufferAssumption DEF Fitting
<1>2. ASSUME NEW type \in 1..14 PROVE MQTTHeader(type, 0, 0, 0) \in Nat
  <2> DEFINE none == 0
  <2>1. none \in {0, 1} /\ none \in 0..2
    OBVIOUS
  <2> HIDE DEF none
  <2>2. MQTTHeader(type, none, none, none) \in Nat
    BY <2>1, HeaderRead
  <2> QED BY <2>2 DEF none
<1>3. ASSUME h2 \in Nat, rest2 \in Seq(Nat), Len(rest2) <= Len(rest),
             packet = Refused \/ packet = Packet(h2, rest2, Len(rest2)),
             GivenAs(packet, h2, rest2) => packet = Refused \/ room
      PROVE  GivenIn(packet, h2, rest2, room)
  <2> HIDE DEF h, rest, h2, rest2, packet, room
  <2>1. /\ Sendable(h2, rest2) /\ Len(PacketOf(h2, rest2)) <= Capacity
        /\ Packet(h2, rest2, Len(rest2)) = [rc |-> Len(PacketOf(h2, rest2)), bytes |-> PacketOf(h2, rest2)]
        /\ 2 + Len(rest2) <= Capacity
    BY <1>1, <1>3, ShorterFits
  <2>2. CASE packet = Packet(h2, rest2, Len(rest2))
    <3>1. GivenAs(packet, h2, rest2)
      BY <2>1, <2>2 DEF GivenAs
    <3> QED BY <1>3, <3>1 DEF GivenIn
  <2> QED BY <1>3, <2>2 DEF GivenIn
<1>4. CASE r.type = CONNECT
  <2>1. PICK session \in {0, 1}, code \in {0, 5} :
          rest2 = <<128 * session, code>> /\ packet = MQTTSerialize_connack(n, code, session)
    <3>1. \E session \in {0, 1}, code \in {0, 5} :
            /\ a = [rc |-> 1, sessionPresent |-> session, connack_rc |-> code]
            /\ AnswerRest(r, a) = <<128 * session, code>>
            /\ AnswerPacket(r, a, n) = MQTTSerialize_connack(n, code, session)
      BY <1>4, AnswerKinds, TypesDiffer
    <3> QED BY <3>1
  <2>2. h2 = MQTTHeader(CONNACK, 0, 0, 0)
    BY <1>4, AnswerKinds, TypesDiffer
  <2>3. rest2 \in Seq(Nat) /\ Len(rest2) = 2
    BY <2>1
  <2>4. Len(rest) >= 2
    BY <1>4, RestSizes
  <2>5. h2 \in Nat
    BY <1>2, <2>2, PacketTypes
  <2>6. packet = IF n < 2 THEN Refused ELSE Packet(h2, rest2, 2)
    BY <2>1, <2>2, Zenon DEF MQTTSerialize_connack
  <2>9. room <=> Len(rest2) <= n
    BY <1>4 DEF HasRoom
  <2> HIDE DEF h, rest, h2, rest2, packet, room
  <2>7. /\ packet = Refused \/ packet = Packet(h2, rest2, Len(rest2))
        /\ packet = Refused \/ room
    BY <1>1, <2>3, <2>6, <2>9
  <2>8. Len(rest2) <= Len(rest)
    BY <2>3, <2>4
  <2> QED BY <1>3, <2>3, <2>5, <2>7, <2>8 DEF h2, rest2, packet, room
<1>5. CASE r.type = PUBLISH
  <2>1. PICK type \in {PUBACK, PUBREC, PUBCOMP} :
          h2 = MQTTHeader(type, 0, 0, 0) /\ packet = MQTTSerialize_ack(n, type, 0, r.packetid)
    BY <1>5, AnswerKinds, TypesDiffer
  <2>2. rest2 = writeInt(r.packetid)
    BY <1>5, AnswerKinds, TypesDiffer
  <2> DEFINE none == 0
  <2>3. none \in 0..2 /\ none = IF type = PUBREL THEN 1 ELSE 0
    BY DEF PUBACK, PUBREC, PUBCOMP, PUBREL
  <2>5. room <=> Len(PacketOf(h2, rest2)) <= n
    BY <1>5, TypesDiffer DEF HasRoom
  <2> HIDE DEF none, h2, rest2, packet, room
  <2>4. GivenIn(MQTTSerialize_ack(n, type, 0, r.packetid),
                MQTTHeader(type, 0, none, 0), writeInt(r.packetid),
                Len(PacketOf(MQTTHeader(type, 0, none, 0), writeInt(r.packetid))) <= n)
    BY <1>5, <2>3, AckGiven
  <2>6. GivenIn(packet, h2, rest2, room)
    BY <2>1, <2>2, <2>4, <2>5 DEF none, GivenIn
  <2> QED BY <2>6 DEF h2, rest2, packet, room
<1>6. CASE r.type = SUBSCRIBE
  <2> DEFINE id == r.packetid
             qs == r.requestedQoSs
             w == writeInt(id)
  <2>1. /\ h2 = MQTTHeader(SUBACK, 0, 0, 0) /\ rest2 = w \o qs
        /\ packet = MQTTSerialize_suback(n, id, qs)
    BY <1>6, AnswerKinds, TypesDiffer
  <2>2. id \in Numbers /\ qs \in Seq(Nat) /\ Len(rest) >= 2 + Len(qs)
    BY <1>6, RestSizes
  <2>3. h2 \in Nat
    BY <1>2, <2>1, PacketTypes
  <2>10. room <=> Len(rest2) <= n
    BY <1>6 DEF HasRoom
  <2> HIDE DEF h, rest, h2, rest2, packet, room, id, qs
  <2>4. w \in Seq(Nat) /\ Len(w) = 2
    BY <2>2, IntWritten
  <2>5. packet = IF n < 2 + Len(qs) THEN Refused
                 ELSE Packet(MQTTHeader(SUBACK, 0, 0, 0), w \o qs, 2 + Len(qs))
    BY <2>1, Zenon DEF MQTTSerialize_suback
  <2> HIDE DEF w
  <2>6. w \o qs \in Seq(Nat) /\ Len(w \o qs) = Len(w) + Len(qs) /\ Len(qs) \in Nat
    <3>1. Len(qs) \in Nat
      BY <2>2
    <3>2. w \o qs \in Seq(Nat) /\ Len(w \o qs) = Len(w) + Len(qs)
      BY <2>2, <2>4, Concatenated
    <3> QED BY <3>1, <3>2
  <2>7. rest2 \in Seq(Nat) /\ Len(rest2) = 2 + Len(qs)
    BY <2>1, <2>4, <2>6
  <2>8. packet = Refused \/ (packet = Packet(h2, rest2, Len(rest2)) /\ room)
    <3>1. CASE n < 2 + Len(qs)
      BY <2>5, <3>1
    <3>2. CASE ~(n < 2 + Len(qs))
      <4>1. packet = Packet(h2, rest2, Len(rest2))
        BY <2>1, <2>5, <2>7, <3>2
      <4>2. Len(rest2) <= n
        BY <1>1, <2>6, <2>7, <3>2
      <4> QED BY <2>10, <4>1, <4>2
    <3> QED BY <3>1, <3>2
  <2>9. Len(rest2) <= Len(rest)
    BY <2>2, <2>7
  <2> QED BY <1>3, <2>3, <2>7, <2>8, <2>9 DEF h2, rest2, packet, room
<1>7. CASE r.type = UNSUBSCRIBE
  <2> DEFINE id == r.packetid
  <2>1. /\ h2 = MQTTHeader(UNSUBACK, 0, 0, 0) /\ rest2 = writeInt(id)
        /\ packet = MQTTSerialize_unsuback(n, id)
    BY <1>7, AnswerKinds, TypesDiffer
  <2>2. id \in Numbers /\ Len(rest) >= 2
    BY <1>7, RestSizes
  <2>3. h2 \in Nat
    BY <1>2, <2>1, PacketTypes
  <2>8. room <=> Len(rest2) <= n
    BY <1>7 DEF HasRoom
  <2> HIDE DEF h, rest, h2, rest2, packet, room, id
  <2>4. rest2 \in Seq(Nat) /\ Len(rest2) = 2
    BY <2>1, <2>2, IntWritten
  <2>5. packet = IF n < 2 THEN Refused ELSE Packet(h2, rest2, 2)
    BY <2>1, Zenon DEF MQTTSerialize_unsuback
  <2>6. /\ packet = Refused \/ packet = Packet(h2, rest2, Len(rest2))
        /\ packet = Refused \/ room
    BY <1>1, <2>4, <2>5, <2>8
  <2>7. Len(rest2) <= Len(rest)
    BY <2>2, <2>4
  <2> QED BY <1>3, <2>3, <2>4, <2>6, <2>7 DEF h2, rest2, packet, room
<1>8. CASE r.type = PINGREQ
  <2>1. /\ h2 = MQTTHeader(PINGRESP, 0, 0, 0) /\ rest2 = << >>
        /\ packet = MQTTSerialize_zero(n, PINGRESP)
    BY <1>8, AnswerKinds, TypesDiffer
  <2>2. h2 \in Nat
    BY <1>2, <2>1, PacketTypes
  <2>3. rest \in Seq(Nat)
    BY <1>1 DEF Sendable
  <2>4. rest2 \in Seq(Nat) /\ Len(rest2) = 0
    BY <2>1
  <2>5. packet = IF n < 2 THEN Refused ELSE Packet(h2, rest2, 0)
    BY <2>1, Zenon DEF MQTTSerialize_zero
  <2>8. room <=> Len(PacketOf(h2, rest2)) <= n
    BY <1>8, TypesDiffer DEF HasRoom
  <2> HIDE DEF h, rest, h2, rest2, packet, room
  <2>9. ASSUME GivenAs(packet, h2, rest2)
        PROVE  Len(PacketOf(h2, rest2)) = 2
    <3>1. Sendable(h2, rest2) /\ Len(rest2) <= 2
      BY <2>4, <2>9 DEF GivenAs
    <3>2. Len(PacketOf(h2, rest2)) = 2 + Len(rest2)
      BY <3>1, ShortPacket
    <3> QED BY <2>4, <3>2
  <2>6. /\ packet = Refused \/ packet = Packet(h2, rest2, Len(rest2))
        /\ GivenAs(packet, h2, rest2) => packet = Refused \/ room
    <3>1. CASE n < 2
      <4>1. packet = Refused
        BY <2>5, <3>1
      <4> QED BY <4>1
    <3>2. CASE ~(n < 2)
      <4>1. packet = Packet(h2, rest2, Len(rest2))
        BY <2>4, <2>5, <3>2
      <4>2. ASSUME GivenAs(packet, h2, rest2) PROVE room
        <5>1. Len(PacketOf(h2, rest2)) = 2
          BY <2>9, <4>2
        <5> QED BY <1>1, <2>8, <3>2, <5>1
      <4> QED BY <4>1, <4>2
    <3> QED BY <3>1, <3>2
  <2>7. Len(rest2) <= Len(rest)
    BY <2>3, <2>4
  <2> QED BY <1>3, <2>2, <2>4, <2>6, <2>7 DEF h2, rest2, packet, room
<1> QED BY <1>4, <1>5, <1>6, <1>7, <1>8 DEF IsAnswer

\* The client reads an answer as it was given.
LEMMA AnswerRead ==
  ASSUME NEW r \in Requests, NEW a, IsAnswer(r, a),
         Sendable(AnswerHeader(r, a), AnswerRest(r, a)),
         NEW b, Contains(b, AnswerHeader(r, a), AnswerRest(r, a))
  PROVE  ClientGets(r, b) = a
<1> DEFINE h == AnswerHeader(r, a)
           rest == AnswerRest(r, a)
           at == Rest(b).at
           end == Rest(b).end
<1>1. b[1] = h /\ at \in Nat /\ end \in Nat /\ end = at + Len(rest) /\ Holds(b, at, rest)
  BY RestRead
<1>2. ASSUME NEW type \in 1..14, h = MQTTHeader(type, 0, 0, 0)
      PROVE  HeaderType(b) = type
  <2> DEFINE none == 0
  <2>1. none \in {0, 1} /\ none \in 0..2 /\ h = MQTTHeader(type, none, none, none)
    BY <1>2
  <2> HIDE DEF none
  <2>2. Bits(h, 16, 16) = type
    BY <2>1, HeaderRead
  <2> QED BY <1>1, <2>2 DEF HeaderType
<1>3. ASSUME NEW type \in 1..14, h = MQTTHeader(type, 0, 0, 0),
             NEW id \in Numbers, rest = writeInt(id)
      PROVE  MQTTDeserialize_ack(b) = [rc |-> 1, packettype |-> type, dup |-> 0, packetid |-> id]
  <2> DEFINE none == 0
  <2>1. none \in 0..2 /\ h = MQTTHeader(type, 0, none, 0)
    BY <1>3
  <2> HIDE DEF none
  <2>2. /\ Sendable(MQTTHeader(type, 0, none, 0), writeInt(id))
        /\ Contains(b, MQTTHeader(type, 0, none, 0), writeInt(id))
    BY <1>3, <2>1
  <2> QED BY <2>1, <2>2, AckRead
<1>4. CASE r.type = CONNECT
  <2>1. PICK session \in {0, 1}, code \in {0, 5} :
          /\ rest = <<128 * session, code>>
          /\ a = [rc |-> 1, sessionPresent |-> session, connack_rc |-> code]
    BY <1>4, AnswerKinds, TypesDiffer
  <2>2. HeaderType(b) = CONNACK
    BY <1>2, <1>4, AnswerKinds, TypesDiffer, PacketTypes
  <2>3. ClientGets(r, b) = MQTTDeserialize_connack(b)
    BY <2>2, TypesDiffer, Zenon DEF ClientGets
  <2> DEFINE x == 128 * session
  <2>4. Bits(x, 128, 2) = session
    BY DEF Bits
  <2>5. rest = <<x, code>>
    BY <2>1
  <2> HIDE DEF h, rest, at, end, x
  <2>6. b[at] = x /\ b[at + 1] = code
    BY <1>1, <2>5, HoldsTwo
  <2>7. ~(end - at < 2)
    BY <1>1, <2>5
  <2>8. MQTTDeserialize_connack(b) =
          [rc |-> 1, sessionPresent |-> Bits(b[at], 128, 2), connack_rc |-> b[at + 1]]
    BY <2>2, <2>7, Zenon DEF MQTTDeserialize_connack, at, end
  <2> QED BY <2>1, <2>3, <2>4, <2>6, <2>8
<1>5. CASE r.type = PUBLISH
  <2>1. PICK type \in {PUBACK, PUBREC, PUBCOMP} :
          /\ h = MQTTHeader(type, 0, 0, 0)
          /\ a = [rc |-> 1, packettype |-> type, dup |-> 0, packetid |-> r.packetid]
    BY <1>5, AnswerKinds, TypesDiffer
  <2>2. rest = writeInt(r.packetid)
    BY <1>5, AnswerKinds, TypesDiffer
  <2>3. r.packetid \in Numbers /\ type \in 1..14
    BY <1>5, RestSizes, PacketTypes
  <2>4. HeaderType(b) = type
    BY <1>2, <2>1, <2>3
  <2>5. ClientGets(r, b) = MQTTDeserialize_ack(b)
    BY <2>4, TypesDiffer DEF ClientGets
  <2>6. MQTTDeserialize_ack(b) = [rc |-> 1, packettype |-> type, dup |-> 0, packetid |-> r.packetid]
    BY <1>3, <2>1, <2>2, <2>3
  <2> QED BY <2>1, <2>5, <2>6
<1>6. CASE r.type = SUBSCRIBE
  <2> DEFINE id == r.packetid
             qs == r.requestedQoSs
             w == writeInt(id)
             max == Len(r.topicFilters)
  <2>1. /\ h = MQTTHeader(SUBACK, 0, 0, 0) /\ rest = w \o qs
        /\ a = [rc |-> 1, packetid |-> id, grantedQoSs |-> qs]
    BY <1>6, AnswerKinds, TypesDiffer
  <2>2. id \in Numbers /\ qs \in Seq(Nat) /\ max = Len(qs)
    BY <1>6, RestSizes
  <2>3. HeaderType(b) = SUBACK
    BY <1>2, <2>1, PacketTypes
  <2>4. ClientGets(r, b) = MQTTDeserialize_suback(max, b)
    BY <2>3, TypesDiffer, Zenon DEF ClientGets
  <2> HIDE DEF h, rest, at, end, id, qs, max
  <2>5. w \in Seq(Nat) /\ Len(w) = 2
    BY <2>2, IntWritten
  <2>6. Holds(b, at, w) /\ Holds(b, at + Len(w), qs)
    <3>1. Holds(b, at, w \o qs)
      BY <1>1, <2>1
    <3> HIDE DEF w
    <3> QED BY <1>1, <2>2, <2>5, <3>1, HoldsBoth
  <2>7. readInt(b, at) = id
    BY <1>1, <2>2, <2>6, IntRead
  <2> HIDE DEF w
  <2>8. Len(rest) = 2 + Len(qs) /\ Len(qs) \in Nat
    <3>1. Len(qs) \in Nat
      BY <2>2
    <3>2. Len(w \o qs) = Len(w) + Len(qs)
      BY <2>2, <2>5, Concatenated
    <3> QED BY <2>1, <2>5, <3>1, <3>2
  <2> DEFINE first == at + 2
             last == end - 1
  <2>9. first \in Nat /\ HoldsUpto(b, first, last, qs)
    BY <1>1, <2>5, <2>6, <2>8 DEF HoldsUpto
  <2>10. SubSeq(b, at + 2, end - 1) = qs
    <3> HIDE DEF first, last
    <3>1. SubSeq(b, first, last) = qs
      BY <2>2, <2>9, HoldsTaken
    <3> QED BY <3>1 DEF first, last
  <2>11. ~(end - at - 2 < 0) /\ ~(end - at - 2 > max + 1)
    BY <1>1, <2>2, <2>8
  <2>12. MQTTDeserialize_suback(max, b) =
           [rc |-> 1, packetid |-> readInt(b, at), grantedQoSs |-> SubSeq(b, at + 2, end - 1)]
    BY <2>3, <2>11, Zenon DEF MQTTDeserialize_suback, at, end
  <2> QED BY <2>1, <2>4, <2>7, <2>10, <2>12
<1>7. CASE r.type = UNSUBSCRIBE
  <2> DEFINE ack == [rc |-> 1, packettype |-> UNSUBACK, dup |-> 0, packetid |-> r.packetid]
  <2>1. h = MQTTHeader(UNSUBACK, 0, 0, 0) /\ rest = writeInt(r.packetid) /\ a = ack
    BY <1>7, AnswerKinds, TypesDiffer
  <2>2. r.packetid \in Numbers
    BY <1>7, RestSizes
  <2>3. HeaderType(b) = UNSUBACK
    BY <1>2, <2>1, PacketTypes
  <2>4. ClientGets(r, b) = MQTTDeserialize_unsuback(b)
    BY <2>3, TypesDiffer, Zenon DEF ClientGets
  <2>5. MQTTDeserialize_ack(b) = ack
    BY <1>3, <2>1, <2>2, PacketTypes
  <2>6. [ack EXCEPT !.rc = 1] = ack
    OBVIOUS
  <2> HIDE DEF ack
  <2>7. MQTTDeserialize_unsuback(b) = [ack EXCEPT !.rc = 1]
    BY <2>3, <2>5 DEF MQTTDeserialize_unsuback
  <2> QED BY <2>1, <2>4, <2>6, <2>7
<1>8. CASE r.type = PINGREQ
  <2>1. h = MQTTHeader(PINGRESP, 0, 0, 0) /\ a = [rc |-> 1]
    <3>1. a = [rc |-> 1]
      BY <1>8, TypesDiffer DEF IsAnswer
    <3>2. h = MQTTHeader(PINGRESP, 0, 0, 0)
      BY <1>8, TypesDiffer DEF AnswerHeader
    <3> QED BY <3>1, <3>2
  <2>2. HeaderType(b) = PINGRESP
    BY <1>2, <2>1, PacketTypes
  <2> QED BY <2>1, <2>2, TypesDiffer DEF ClientGets
<1> QED BY <1>4, <1>5, <1>6, <1>7, <1>8 DEF IsAnswer
-----------------------------------------------------------------------------
(* The inductive invariant.                                                *)

\* What the server needs of the fields it has read.
LEMMA FieldsRead ==
  ASSUME NEW r \in Requests
  PROVE  /\ r.type = PUBLISH => /\ Fields(r).packetid = r.packetid /\ Fields(r).qos = r.qos
                                /\ r.qos \in 0..2
         /\ r.type = SUBSCRIBE => /\ Fields(r).packetid = r.packetid
                                  /\ Fields(r).requestedQoSs = r.requestedQoSs
         /\ r.type = UNSUBSCRIBE => Fields(r).packetid = r.packetid
<1>1. CASE r \in Publishes /\ r.type = PUBLISH
  <2>1. r \in [type : {PUBLISH}, dup : {0, 1}, qos : 0..2, retained : {0, 1},
               packetid : Numbers, topicName : Texts, payload : Seq(Nat)]
    BY <1>1, PublishAssumption
  <2>2. Fields(r).packetid = r.packetid /\ Fields(r).qos = r.qos /\ r.qos \in 0..2
    BY <2>1 DEF Fields
  <2> QED BY <1>1, <2>2, TypesDiffer
<1>2. CASE r \in Subscribes /\ r.type = SUBSCRIBE
  <2>1. r \in [type : {SUBSCRIBE}, dup : {0, 1}, packetid : Numbers,
               topicFilters : Seq(Texts), requestedQoSs : Seq(0..2)]
    BY <1>2, SubscribeAssumption
  <2>2. Fields(r).packetid = r.packetid /\ Fields(r).requestedQoSs = r.requestedQoSs
    BY <2>1 DEF Fields
  <2> QED BY <1>2, <2>2, TypesDiffer
<1>3. CASE r \in Unsubscribes /\ r.type = UNSUBSCRIBE
  <2>1. r \in [type : {UNSUBSCRIBE}, dup : {0, 1}, packetid : Numbers, topicFilters : Seq(Texts)]
    BY <1>3, UnsubscribeAssumption
  <2>2. Fields(r).packetid = r.packetid
    BY <2>1 DEF Fields
  <2> QED BY <1>3, <2>2, TypesDiffer
<1>4. CASE r.type \in {CONNECT, PINGREQ, DISCONNECT}
  BY <1>4, TypesDiffer
<1> QED BY <1>1, <1>2, <1>3, <1>4, Kinds

\* A request is sent or refused.
LEMMA SendsInvariant ==
  ASSUME IInv, NEW r \in Requests, NEW n \in Sizes, Sends(r, n)
  PROVE  IInv'
<1> DEFINE packet == Serialized(r, n)
           h == HeaderOf(r)
           rest == RestOf(r)
<1>1. /\ request' = r /\ size' = n /\ len' = packet.rc
      /\ pc' = IF packet.rc <= 0 THEN "refused" ELSE "sent"
  BY DEF Sends
<1>2. PICK stale \in Stale : buf' = Over(packet.bytes, stale)
  BY DEF Sends
<1>3. n \in Nat /\ Capacity \in Nat /\ n <= Capacity
  BY BufferAssumption
<1>4. \/ /\ Sendable(h, rest)
         /\ packet = [rc |-> Len(PacketOf(h, rest)), bytes |-> PacketOf(h, rest)]
         /\ packet.rc > 0 /\ Len(PacketOf(h, rest)) <= n
      \/ packet.rc <= 0 /\ FillsUp(r, n)
  BY RequestSent
<1>5. CASE packet.rc <= 0
  <2>1. pc' = "refused"
    BY <1>1, <1>5
  <2>2. FillsUp(r, n)
    <3> HIDE DEF packet
    <3>1. ASSUME Sendable(h, rest), packet = [rc |-> Len(PacketOf(h, rest)), bytes |-> PacketOf(h, rest)],
                 packet.rc > 0
          PROVE  FALSE
      <4>1. packet.rc = Len(PacketOf(h, rest)) /\ Len(PacketOf(h, rest)) \in Nat
        BY <3>1, PacketBytes
      <4> QED BY <3>1, <4>1, <1>5
    <3> QED BY <1>4, <3>1
  <2> QED BY <1>1, <2>1, <2>2 DEF IInv
<1>6. CASE ~(packet.rc <= 0)
  <2>1. pc' = "sent"
    BY <1>1, <1>6
  <2> DEFINE l == Len(PacketOf(h, rest))
  <2>2. /\ Sendable(h, rest) /\ packet = [rc |-> l, bytes |-> PacketOf(h, rest)]
        /\ l <= n /\ l \in Nat
    BY <1>4, <1>6, PacketBytes
  <2>3. l <= Capacity
    <3> HIDE DEF l
    <3> QED BY <1>3, <2>2
  <2>4. GivenAs(packet, h, rest)
    BY <2>2, <2>3 DEF GivenAs
  <2> HIDE DEF packet, h, rest, l
  <2>5. Holding(packet.rc, Over(packet.bytes, stale), h, rest)
    BY <2>4, PutOver
  <2>6. Holding(len', buf', h, rest) /\ len' <= n
    BY <1>1, <1>2, <2>2, <2>5
  <2> QED BY <1>1, <2>1, <2>6 DEF IInv, Carries, h, rest
<1> QED BY <1>5, <1>6

\* An answer is given.
LEMMA AnswersInvariant ==
  ASSUME IInv, request \in Requests, Fitting(request), NEW a, IsAnswer(request, a),
         NEW n \in Sizes, Answers(a, n, AnswerPacket(request, a, n))
  PROVE  IInv'
<1> DEFINE packet == AnswerPacket(request, a, n)
           h == AnswerHeader(request, a)
           rest == AnswerRest(request, a)
<1>1. /\ answer' = a /\ size' = n /\ len' = packet.rc /\ request' = request
      /\ pc' = IF packet.rc <= 0 THEN "withheld" ELSE "answered"
  BY DEF Answers
<1>2. PICK stale \in Stale : buf' = Over(packet.bytes, stale)
  BY DEF Answers
<1> DEFINE room == HasRoom(request, h, rest, n)
<1>3. GivenIn(packet, h, rest, room)
  BY AnswerGiven
<1> HIDE DEF packet, h, rest, room
<1>4. CASE packet = Refused
  <2>1. packet.rc = -2
    BY <1>4 DEF Refused, MQTTPACKET_BUFFER_TOO_SHORT
  <2>2. pc' = "withheld"
    BY <1>1, <2>1
  <2> QED BY <1>1, <2>2 DEF IInv
<1>5. CASE GivenAs(packet, h, rest) /\ room
  <2>1. packet.rc = Len(PacketOf(h, rest)) /\ Len(PacketOf(h, rest)) \in Nat \ {0}
    BY <1>5, PacketBytes DEF GivenAs
  <2>2. pc' = "answered"
    BY <1>1, <2>1
  <2>3. Holding(len', buf', h, rest)
    BY <1>1, <1>2, <1>5, PutOver
  <2> QED BY <1>1, <1>5, <2>2, <2>3 DEF IInv, Carries, h, rest, room
<1> QED BY <1>3, <1>4, <1>5 DEF GivenIn

\* What was sent is read by the server.
LEMMA ServerReadsInvariant ==
  ASSUME IInv, ServerReads
  PROVE  IInv'
<1> DEFINE h == HeaderOf(request)
           rest == RestOf(request)
<1>1. /\ pc = "sent" /\ request \in Requests /\ Holding(len, buf, h, rest)
      /\ pc' = "read" /\ request' = request
  BY DEF ServerReads, IInv, Carries
<1>2. PICK stale \in Stale : got' = ServerGets(Arrives(stale), len)
  BY DEF ServerReads, ServerGets
<1> DEFINE b == Over(PacketOf(h, rest), stale)
<1>3. Sendable(h, rest) /\ Arrives(stale) = b /\ Contains(b, h, rest) /\ len + 1 = Rest(b).end
  <2> HIDE DEF h, rest
  <2> QED BY <1>1, Received DEF Arrives
<1> DEFINE l == len
<1>4. ServerGets(b, l) = Understood(request)
  <2>1. l + 1 = Rest(b).end /\ Sendable(HeaderOf(request), RestOf(request))
        /\ Contains(b, HeaderOf(request), RestOf(request))
    BY <1>3
  <2> HIDE DEF b, l
  <2> QED BY <1>1, <2>1, RequestRead
<1>5. got' = Understood(request)
  BY <1>2, <1>3, <1>4
<1>6. Fitting(request)
  BY <1>1 DEF Holding, Fitting
<1> QED BY <1>1, <1>5, <1>6 DEF IInv

\* The server's answer is one to the request.
LEMMA ServerAnswersInvariant ==
  ASSUME IInv, ServerAnswers
  PROVE  IInv'
<1>1. /\ pc = "read" /\ request \in Requests /\ Fitting(request) /\ got.rc = 1
      /\ got = Understood(request)
  BY DEF ServerAnswers, IInv
<1>2. got = Fields(request)
  <2>1. CASE request.type = CONNECT /\ Unacceptable(request)
    <3>1. got = [rc |-> 0]
      BY <1>1, <2>1 DEF Understood
    <3> QED BY <1>1, <3>1
  <2>2. CASE ~(request.type = CONNECT /\ Unacceptable(request))
    BY <1>1, <2>2, Zenon DEF Understood
  <2> QED BY <2>1, <2>2
<1>3. SUFFICES \E a : \E n \in Sizes :
                 IsAnswer(request, a) /\ Answers(a, n, AnswerPacket(request, a, n))
  BY <1>1, AnswersInvariant
<1>9. PICK n \in Sizes :
          \/ /\ request.type = CONNECT
             /\ \E session \in {0, 1}, code \in {0, 5} :
                  Answers([rc |-> 1, sessionPresent |-> session, connack_rc |-> code],
                          n, MQTTSerialize_connack(n, code, session))
          \/ /\ request.type = PUBLISH /\ got.qos > 0
             /\ LET type == IF got.qos = 1 THEN PUBACK ELSE PUBREC IN
                Answers([rc |-> 1, packettype |-> type, dup |-> 0, packetid |-> request.packetid],
                        n, MQTTSerialize_ack(n, type, 0, got.packetid))
          \/ /\ request.type = SUBSCRIBE
             /\ Answers([rc |-> 1, packetid |-> request.packetid,
                         grantedQoSs |-> request.requestedQoSs],
                        n, MQTTSerialize_suback(n, got.packetid, got.requestedQoSs))
          \/ /\ request.type = UNSUBSCRIBE
             /\ Answers([rc |-> 1, packettype |-> UNSUBACK, dup |-> 0,
                         packetid |-> request.packetid],
                        n, MQTTSerialize_unsuback(n, got.packetid))
          \/ /\ request.type = PINGREQ
             /\ Answers([rc |-> 1], n, MQTTSerialize_zero(n, PINGRESP))
  BY DEF ServerAnswers
<1>4. CASE /\ request.type = CONNECT
           /\ \E session \in {0, 1}, code \in {0, 5} :
                Answers([rc |-> 1, sessionPresent |-> session, connack_rc |-> code],
                        n, MQTTSerialize_connack(n, code, session))
  <2>1. PICK session \in {0, 1}, code \in {0, 5} :
          Answers([rc |-> 1, sessionPresent |-> session, connack_rc |-> code],
                  n, MQTTSerialize_connack(n, code, session))
    BY <1>4
  <2> DEFINE a == [rc |-> 1, sessionPresent |-> session, connack_rc |-> code]
  <2>2. IsAnswer(request, a)
    BY <1>4 DEF IsAnswer
  <2>3. a.sessionPresent = session /\ a.connack_rc = code
    OBVIOUS
  <2>4. Answers(a, n, MQTTSerialize_connack(n, a.connack_rc, a.sessionPresent))
    BY <2>1, <2>3
  <2> HIDE DEF a
  <2>5. AnswerPacket(request, a, n) = MQTTSerialize_connack(n, a.connack_rc, a.sessionPresent)
    BY <1>4, TypesDiffer, Zenon DEF AnswerPacket
  <2> QED BY <2>2, <2>4, <2>5
<1>5. CASE /\ request.type = PUBLISH /\ got.qos > 0
           /\ LET type == IF got.qos = 1 THEN PUBACK ELSE PUBREC IN
              Answers([rc |-> 1, packettype |-> type, dup |-> 0, packetid |-> request.packetid],
                      n, MQTTSerialize_ack(n, type, 0, got.packetid))
  <2> DEFINE type == IF got.qos = 1 THEN PUBACK ELSE PUBREC
             a == [rc |-> 1, packettype |-> type, dup |-> 0, packetid |-> request.packetid]
  <2>1. Answers(a, n, MQTTSerialize_ack(n, type, 0, got.packetid))
    BY <1>5
  <2>2. got.packetid = request.packetid
    BY <1>1, <1>2, <1>5, FieldsRead
  <2>3. type \in {PUBACK, PUBREC, PUBCOMP}
    OBVIOUS
  <2> HIDE DEF type
  <2>4. IsAnswer(request, a)
    BY <1>5, <2>3 DEF IsAnswer
  <2>5. a.packettype = type /\ a.packetid = request.packetid
    OBVIOUS
  <2> HIDE DEF a
  <2>6. AnswerPacket(request, a, n) = MQTTSerialize_ack(n, a.packettype, 0, a.packetid)
    BY <1>5, TypesDiffer DEF AnswerPacket
  <2> QED BY <2>1, <2>2, <2>4, <2>5, <2>6
<1>6. CASE /\ request.type = SUBSCRIBE
           /\ Answers([rc |-> 1, packetid |-> request.packetid,
                       grantedQoSs |-> request.requestedQoSs],
                      n, MQTTSerialize_suback(n, got.packetid, got.requestedQoSs))
  <2> DEFINE a == [rc |-> 1, packetid |-> request.packetid, grantedQoSs |-> request.requestedQoSs]
  <2>1. got.packetid = request.packetid /\ got.requestedQoSs = request.requestedQoSs
    BY <1>1, <1>2, <1>6, FieldsRead
  <2>2. Answers(a, n, MQTTSerialize_suback(n, request.packetid, request.requestedQoSs))
    BY <1>6, <2>1
  <2>3. IsAnswer(request, a)
    BY <1>6 DEF IsAnswer
  <2>4. a.packetid = request.packetid /\ a.grantedQoSs = request.requestedQoSs
    OBVIOUS
  <2> HIDE DEF a
  <2>5. AnswerPacket(request, a, n) = MQTTSerialize_suback(n, a.packetid, a.grantedQoSs)
    BY <1>6, TypesDiffer DEF AnswerPacket
  <2> QED BY <2>2, <2>3, <2>4, <2>5
<1>7. CASE /\ request.type = UNSUBSCRIBE
           /\ Answers([rc |-> 1, packettype |-> UNSUBACK, dup |-> 0,
                       packetid |-> request.packetid],
                      n, MQTTSerialize_unsuback(n, got.packetid))
  <2> DEFINE a == [rc |-> 1, packettype |-> UNSUBACK, dup |-> 0, packetid |-> request.packetid]
  <2>1. got.packetid = request.packetid
    BY <1>1, <1>2, <1>7, FieldsRead
  <2>2. Answers(a, n, MQTTSerialize_unsuback(n, request.packetid))
    BY <1>7, <2>1
  <2>3. IsAnswer(request, a)
    BY <1>7 DEF IsAnswer
  <2>4. a.packetid = request.packetid
    OBVIOUS
  <2> HIDE DEF a
  <2>5. AnswerPacket(request, a, n) = MQTTSerialize_unsuback(n, a.packetid)
    BY <1>7, TypesDiffer DEF AnswerPacket
  <2> QED BY <2>2, <2>3, <2>4, <2>5
<1>8. CASE /\ request.type = PINGREQ
           /\ Answers([rc |-> 1], n, MQTTSerialize_zero(n, PINGRESP))
  <2> DEFINE a == [rc |-> 1]
  <2>1. IsAnswer(request, a)
    BY <1>8 DEF IsAnswer
  <2> HIDE DEF a
  <2>2. AnswerPacket(request, a, n) = MQTTSerialize_zero(n, PINGRESP)
    BY <1>8, TypesDiffer DEF AnswerPacket
  <2>3. Answers(a, n, MQTTSerialize_zero(n, PINGRESP))
    BY <1>8 DEF a
  <2> QED BY <2>1, <2>2, <2>3
<1> QED BY <1>4, <1>5, <1>6, <1>7, <1>8, <1>9

\* The answer is read by the client.
LEMMA ClientReadsInvariant ==
  ASSUME IInv, ClientReads
  PROVE  IInv'
<1> DEFINE h == AnswerHeader(request, answer)
           rest == AnswerRest(request, answer)
<1>1. /\ pc = "answered" /\ request \in Requests /\ Fitting(request)
      /\ IsAnswer(request, answer) /\ Holding(len, buf, h, rest)
      /\ pc' = "confirmed" /\ request' = request /\ answer' = answer
  BY DEF ClientReads, IInv, Carries
<1>2. PICK stale \in Stale : got' = ClientGets(request, Arrives(stale))
  BY DEF ClientReads, ClientGets
<1> DEFINE b == Over(PacketOf(h, rest), stale)
<1>3. Sendable(h, rest) /\ Arrives(stale) = b /\ Contains(b, h, rest)
  <2> HIDE DEF h, rest
  <2> QED BY <1>1, Received DEF Arrives
<1>4. ClientGets(request, b) = answer
  <2> HIDE DEF b
  <2> QED BY <1>1, <1>3, AnswerRead
<1>5. got' = answer
  BY <1>2, <1>3, <1>4
<1> QED BY <1>1, <1>5 DEF IInv

\* The client releases the message with the id of its request.
LEMMA ReleaseInvariant ==
  ASSUME IInv, Release
  PROVE  IInv'
<1> DEFINE id == request.packetid
           rest == writeInt(id)
<1>1. /\ pc = "confirmed" /\ request \in Requests /\ Fitting(request)
      /\ IsAnswer(request, answer) /\ got = answer /\ request.type = PUBLISH
      /\ request' = request
  BY DEF Release, IInv
<1>2. got.packetid = id
  <2>1. PICK type \in {PUBACK, PUBREC, PUBCOMP} :
          answer = [rc |-> 1, packettype |-> type, dup |-> 0, packetid |-> request.packetid]
    BY <1>1, TypesDiffer DEF IsAnswer
  <2> QED BY <1>1, <2>1
<1>3. PICK n \in Sizes :
        LET packet == MQTTSerialize_ack(n, PUBREL, 0, got.packetid) IN
        /\ size' = n /\ len' = packet.rc
        /\ \E stale \in Stale : buf' = Over(packet.bytes, stale)
        /\ pc' = IF packet.rc <= 0 THEN "withheld" ELSE "released"
  BY DEF Release
<1> DEFINE packet == MQTTSerialize_ack(n, PUBREL, 0, id)
<1>4. PICK stale \in Stale : buf' = Over(packet.bytes, stale)
  BY <1>2, <1>3
<1>5. size' = n /\ len' = packet.rc /\ pc' = IF packet.rc <= 0 THEN "withheld" ELSE "released"
  BY <1>2, <1>3
<1>6. GivenIn(packet, ReleaseHeader, rest, Len(PacketOf(ReleaseHeader, rest)) <= n)
  <2> DEFINE one == 1
  <2>1. one \in 0..2 /\ one = IF PUBREL = PUBREL THEN 1 ELSE 0
    OBVIOUS
  <2> HIDE DEF one
  <2>2. GivenIn(MQTTSerialize_ack(n, PUBREL, 0, request.packetid),
                MQTTHeader(PUBREL, 0, one, 0), writeInt(request.packetid),
                Len(PacketOf(MQTTHeader(PUBREL, 0, one, 0), writeInt(request.packetid))) <= n)
    BY <1>1, <2>1, AckGiven
  <2> QED BY <2>2 DEF one, ReleaseHeader
<1>7. rest = writeInt(request'.packetid)
  BY <1>1
<1> HIDE DEF packet, rest
<1>8. CASE packet = Refused
  <2>1. packet.rc = -2
    BY <1>8 DEF Refused, MQTTPACKET_BUFFER_TOO_SHORT
  <2>2. pc' = "withheld"
    BY <1>5, <2>1
  <2> QED BY <1>1, <2>2 DEF IInv
<1>9. CASE GivenAs(packet, ReleaseHeader, rest) /\ Len(PacketOf(ReleaseHeader, rest)) <= n
  <2>1. /\ packet.rc = Len(PacketOf(ReleaseHeader, rest))
        /\ Len(PacketOf(ReleaseHeader, rest)) \in Nat \ {0}
    BY <1>9, PacketBytes DEF GivenAs
  <2>2. pc' = "released" /\ len' <= size'
    BY <1>5, <1>9, <2>1
  <2>3. Holding(len', buf', ReleaseHeader, rest)
    BY <1>4, <1>5, <1>9, PutOver
  <2> QED BY <1>1, <1>7, <2>2, <2>3 DEF IInv, Carries
<1> QED BY <1>6, <1>8, <1>9 DEF GivenIn

\* The server reads this id, and completes the message with it.
LEMMA ServerCompletesInvariant ==
  ASSUME IInv, ServerCompletes
  PROVE  IInv'
<1> DEFINE id == request.packetid
           rest == writeInt(id)
           a == [rc |-> 1, packettype |-> PUBCOMP, dup |-> 0, packetid |-> id]
<1>1. /\ pc = "released" /\ request \in Requests /\ Fitting(request) /\ request.type = PUBLISH
      /\ Holding(len, buf, ReleaseHeader, rest)
  BY DEF ServerCompletes, IInv, Carries
<1>2. PICK stale \in Stale, n \in Sizes :
        Answers(a, n, MQTTSerialize_ack(n, PUBCOMP, 0, MQTTDeserialize_ack(Arrives(stale)).packetid))
  BY DEF ServerCompletes
<1> DEFINE b == Over(PacketOf(ReleaseHeader, rest), stale)
<1>3. Sendable(ReleaseHeader, rest) /\ Arrives(stale) = b /\ Contains(b, ReleaseHeader, rest)
  <2> HIDE DEF rest
  <2> QED BY <1>1, Received DEF Arrives
<1>4. id \in Numbers
  BY <1>1, RestSizes
<1>5. MQTTDeserialize_ack(b).packetid = id
  <2> DEFINE one == 1
  <2>1. one \in 0..2 /\ PUBREL \in 1..14
    BY PacketTypes
  <2> HIDE DEF one, b, id
  <2>2. /\ Sendable(MQTTHeader(PUBREL, 0, one, 0), writeInt(id))
        /\ Contains(b, MQTTHeader(PUBREL, 0, one, 0), writeInt(id))
    BY <1>3 DEF one, ReleaseHeader
  <2>3. MQTTDeserialize_ack(b) = [rc |-> 1, packettype |-> PUBREL, dup |-> 0, packetid |-> id]
    BY <1>4, <2>1, <2>2, AckRead
  <2> QED BY <2>3
<1>6. Answers(a, n, MQTTSerialize_ack(n, PUBCOMP, 0, id))
  BY <1>2, <1>3, <1>5
<1>7. IsAnswer(request, a)
  BY <1>1 DEF IsAnswer
<1>8. a.packettype = PUBCOMP /\ a.packetid = id
  OBVIOUS
<1> HIDE DEF a, id
<1>9. AnswerPacket(request, a, n) = MQTTSerialize_ack(n, a.packettype, 0, a.packetid)
  BY <1>1, TypesDiffer DEF AnswerPacket
<1>10. Answers(a, n, AnswerPacket(request, a, n))
  BY <1>6, <1>8, <1>9
<1> QED BY <1>1, <1>7, <1>10, AnswersInvariant

\* Every step preserves the invariant.
LEMMA Invariant ==
  Spec => []IInv
<1>1. Init => IInv
  BY DEF Init, IInv
<1>2. IInv /\ [Next]_vars => IInv'
  <2> SUFFICES ASSUME IInv, [Next]_vars PROVE IInv'
    OBVIOUS
  <2>1. CASE Connect
    <3>1. PICK o \in ConnectOptions, n \in Sizes : Sends(o, n)
      BY <2>1 DEF Connect
    <3> QED BY <3>1, SendsInvariant DEF Requests
  <2>2. CASE Publish
    <3>1. PICK m \in Publishes, n \in Sizes : Sends(m, n)
      BY <2>2 DEF Publish
    <3> QED BY <3>1, SendsInvariant DEF Requests
  <2>3. CASE Subscribe
    <3>1. PICK s \in Subscribes, n \in Sizes : Sends(s, n)
      BY <2>3 DEF Subscribe
    <3> QED BY <3>1, SendsInvariant DEF Requests
  <2>4. CASE Unsubscribe
    <3>1. PICK u \in Unsubscribes, n \in Sizes : Sends(u, n)
      BY <2>4 DEF Unsubscribe
    <3> QED BY <3>1, SendsInvariant DEF Requests
  <2>5. CASE Ping
    <3>1. PICK n \in Sizes : Sends([type |-> PINGREQ], n)
      BY <2>5 DEF Ping
    <3>2. [type |-> PINGREQ] \in Requests
      BY DEF Requests, Small
    <3> QED BY <3>1, <3>2, SendsInvariant
  <2>6. CASE Disconnect
    <3>1. PICK n \in Sizes : Sends([type |-> DISCONNECT], n)
      BY <2>6 DEF Disconnect
    <3>2. [type |-> DISCONNECT] \in Requests
      BY DEF Requests, Small
    <3> QED BY <3>1, <3>2, SendsInvariant
  <2>7. CASE ServerReads
    BY <2>7, ServerReadsInvariant
  <2>8. CASE ServerAnswers
    BY <2>8, ServerAnswersInvariant
  <2>9. CASE ClientReads
    BY <2>9, ClientReadsInvariant
  <2>10. CASE Release
    BY <2>10, ReleaseInvariant
  <2>11. CASE ServerCompletes
    BY <2>11, ServerCompletesInvariant
  <2>12. CASE Again
    BY <2>12 DEF Again, IInv
  <2>13. CASE UNCHANGED vars
    BY <2>13 DEF vars, IInv, Carries
  <2> QED BY <2>1, <2>2, <2>3, <2>4, <2>5, <2>6, <2>7, <2>8, <2>9, <2>10, <2>11, <2>12, <2>13
          DEF Next
<1> QED BY <1>1, <1>2, PTL DEF Spec

\* What the library says it has written is the length of the packet, the length
\* that the packet announces to its receiver.  It is never more than the buffer
\* has, except for a CONNACK, SUBACK and UNSUBACK, of which only the rest is.
THEOREM LengthsCorrect == Spec => []LengthsAgree
<1>1. IInv => LengthsAgree
  <2> SUFFICES ASSUME IInv, pc \in {"sent", "answered", "released"}
               PROVE  /\ len = Rest(buf).end - 1
                      /\ IF OfServer THEN Rest(buf).end - Rest(buf).at <= size ELSE len <= size
    BY DEF LengthsAgree
  <2>1. \E h, rest : /\ Holding(len, buf, h, rest)
                     /\ IF OfServer THEN Len(rest) <= size ELSE len <= size
    BY DEF IInv, Carries, Holding, HasRoom, OfServer
  <2>2. PICK h, rest : /\ Holding(len, buf, h, rest)
                       /\ IF OfServer THEN Len(rest) <= size ELSE len <= size
    BY <2>1
  <2>3. PICK stale \in Stale : TRUE
    BY <2>2 DEF Holding
  <2>4. len = Rest(buf).end - 1 /\ Len(rest) = Rest(buf).end - Rest(buf).at
    BY <2>2, <2>3, Received
  <2> QED BY <2>2, <2>4
<1> QED BY <1>1, Invariant, PTL

\* A buffer in which a request is refused has at most the bytes that it needs:
\* MQTTPacket_len counts one too many at the lengths that need one digit more.
THEOREM RefusalsCorrect == Spec => []RefusedOnlyWhenFull
<1>1. IInv => RefusedOnlyWhenFull
  BY DEF IInv, RefusedOnlyWhenFull
<1> QED BY <1>1, Invariant, PTL

\* The server reads each field of every request as the client gave it.
THEOREM RequestsCorrect == Spec => []RequestUnderstood
<1>1. IInv => RequestUnderstood
  BY DEF IInv, RequestUnderstood, Understood
<1> QED BY <1>1, Invariant, PTL

\* The client reads every answer, with the id of its own request.
THEOREM AnswersCorrect == Spec => []AnswerUnderstood
<1>1. IInv => AnswerUnderstood
  BY DEF IInv, AnswerUnderstood
<1> QED BY <1>1, Invariant, PTL
=============================================================================
