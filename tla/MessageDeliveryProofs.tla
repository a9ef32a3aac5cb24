----------------------- MODULE MessageDeliveryProofs -----------------------
(***************************************************************************)
(* Theorems about MessageDelivery, for all filters in the format that      *)
(* isTopicMatched relies on, all names and any size of the table.          *)
(***************************************************************************)
EXTENDS MessageDelivery, Integers, FiniteSetTheorems, SequenceTheorems, TLAPS

\* Every set of natural numbers has a least one, because the intervals 1..n are
\* well-founded under inclusion.
LEMMA Least ==
  ASSUME NEW T, T \subseteq Nat, T # {}
  PROVE  \E x \in T : \A y \in T : x <= y
<1> DEFINE I == {1..n : n \in T}
<1>1. \A n \in Nat : 1..n \in FiniteSubsetsOf(Nat)
  BY FS_Interval DEF FiniteSubsetsOf
<1>2. PICK J \in I : \A K \in I : ~(<<K, J>> \in StrictSubsetOrdering(Nat))
  <2>1. IsWellFoundedOn(StrictSubsetOrdering(Nat), FiniteSubsetsOf(Nat))
    BY FS_StrictSubsetOrderingWellFounded
  <2>2. I # {} /\ I \subseteq FiniteSubsetsOf(Nat)
    BY <1>1
  <2> QED BY <2>1, <2>2, WFMin
<1>3. PICK n \in T : J = 1..n
  OBVIOUS
<1>4. \A m \in T : ~(1..m \subseteq 1..n /\ 1..m # 1..n)
  <2> TAKE m \in T
  <2>1. <<1..m, 1..n>> \notin StrictSubsetOrdering(Nat)
    BY <1>2, <1>3
  <2>2. 1..m \in SUBSET Nat /\ 1..n \in SUBSET Nat
    OBVIOUS
  <2> QED BY <2>1, <2>2 DEF StrictSubsetOrdering
<1>5. \A m \in T : n <= m
  <2> SUFFICES ASSUME NEW m \in T, m < n PROVE FALSE
    OBVIOUS
  <2>1. 1..m \subseteq 1..n
    OBVIOUS
  <2>2. n \in 1..n /\ n \notin 1..m
    OBVIOUS
  <2> QED BY <1>4, <2>1, <2>2
<1> QED BY <1>5

\* Induction from 0 to n, over what is stated as a set of numbers.
LEMMA Induction ==
  ASSUME NEW n \in Nat, NEW T, 0 \in T, \A i \in 1..n : i - 1 \in T => i \in T
  PROVE  0..n \subseteq T
<1> SUFFICES ASSUME (0..n) \ T # {} PROVE FALSE
  OBVIOUS
<1>1. PICK m \in (0..n) \ T : \A k \in (0..n) \ T : m <= k
  <2>1. (0..n) \ T \subseteq Nat
    OBVIOUS
  <2> QED BY <2>1, Least
<1>2. m # 0 /\ m \in 1..n
  BY <1>1
<1>3. m - 1 \in T
  BY <1>1, <1>2
<1> QED BY <1>1, <1>2, <1>3
-----------------------------------------------------------------------------
(* Texts.                                                                  *)

Topics == Filters \cup Names
Char == STRING \cup {Separator}

\* A topic has one level at least, and no separator in any of them.
LEMMA TopicLevels ==
  ASSUME NEW t \in Topics
  PROVE  /\ t \in Seq(Seq(STRING)) /\ Len(t) \in Nat /\ Len(t) >= 1
         /\ \A k \in 1..Len(t) :
              /\ t[k] \in Seq(STRING) /\ t[k] \in Seq(Char) /\ Len(t[k]) \in Nat
              /\ \A i \in 1..Len(t[k]) : t[k][i] \in STRING /\ t[k][i] # Separator
<1>1. t \in Seq(Seq(STRING)) /\ t # << >>
      /\ \A k \in DOMAIN t : \A i \in DOMAIN t[k] : t[k][i] # Separator
  BY DeliveryAssumption DEF Topics, Separator
<1>2. Len(t) \in Nat /\ Len(t) >= 1 /\ DOMAIN t = 1..Len(t)
  BY <1>1
<1>3. ASSUME NEW k \in 1..Len(t)
      PROVE  /\ t[k] \in Seq(STRING) /\ t[k] \in Seq(Char) /\ Len(t[k]) \in Nat
             /\ \A i \in 1..Len(t[k]) : t[k][i] \in STRING /\ t[k][i] # Separator
  <2>1. t[k] \in Seq(STRING)
    BY <1>1, <1>2
  <2>2. Len(t[k]) \in Nat /\ DOMAIN t[k] = 1..Len(t[k])
        /\ \A i \in 1..Len(t[k]) : t[k][i] \in STRING
    BY <2>1
  <2>3. t[k] \in Seq(Char)
    BY <2>1 DEF Char
  <2> QED BY <1>1, <1>2, <2>1, <2>2, <2>3
<1> QED BY <1>1, <1>2, <1>3

\* u has the texts of the first levels of t.
IsText(t, u) ==
  /\ u = [k \in 1..Len(t) |-> u[k]]
  /\ u[1] = t[1]
  /\ \A k \in 2..Len(t) : u[k] = u[k - 1] \o <<Separator>> \o t[k]

\* The recursive definition of the text has a solution.
LEMMA TextUnfolds ==
  ASSUME NEW t \in Topics
  PROVE  \E u : IsText(t, u) /\ Text(t) = u[Len(t)]
<1> DEFINE Good(g, n) ==
             \A p \in 1..n : g[p] = IF p = 1 THEN t[1]
                                    ELSE g[p - 1] \o <<Separator>> \o t[p]
           Solved == {n \in 0..Len(t) : \E g : /\ g = [q \in 1..n |-> g[q]]
                                               /\ Good(g, n)}
<1>0. Len(t) \in Nat /\ Len(t) >= 1
  BY TopicLevels
<1>1. 0 \in Solved
  <2> DEFINE g == [q \in 1..0 |-> << >>]
  <2>1. g = [q \in 1..0 |-> g[q]] /\ Good(g, 0)
    OBVIOUS
  <2> HIDE DEF g, Good
  <2>2. 0 \in 0..Len(t)
    BY <1>0
  <2> QED BY <2>1, <2>2
<1>2. ASSUME NEW n \in 1..Len(t), n - 1 \in Solved
      PROVE  n \in Solved
  <2>1. PICK g : g = [q \in 1..(n - 1) |-> g[q]] /\ Good(g, n - 1)
    BY <1>2
  <2> DEFINE e == IF n = 1 THEN t[1] ELSE g[n - 1] \o <<Separator>> \o t[n]
             h == [q \in 1..n |-> IF q = n THEN e ELSE g[q]]
  <2>2. h = [q \in 1..n |-> h[q]]
    OBVIOUS
  <2> HIDE DEF e
  <2>3. h[n] = e /\ \A p \in 1..(n - 1) : h[p] = g[p]
    <3>1. n \in 1..n /\ \A p \in 1..(n - 1) : p \in 1..n /\ p # n
      BY <1>0
    <3> QED BY <3>1
  <2> USE DEF e
  <2> HIDE DEF h
  <2>4. ASSUME NEW p \in 1..n
        PROVE  h[p] = IF p = 1 THEN t[1] ELSE h[p - 1] \o <<Separator>> \o t[p]
    <3>1. CASE p = n
      <4>1. n # 1 => h[n - 1] = g[n - 1]
        BY <1>0, <2>3
      <4> QED BY <2>3, <3>1, <4>1
    <3>2. CASE p # n
      <4>1. p \in 1..(n - 1)
        BY <1>0, <3>2
      <4>2. p # 1 => p - 1 \in 1..(n - 1)
        BY <1>0, <4>1
      <4>3. g[p] = IF p = 1 THEN t[1] ELSE g[p - 1] \o <<Separator>> \o t[p]
        BY <2>1, <4>1
      <4> QED BY <2>3, <4>1, <4>2, <4>3
    <3> QED BY <3>1, <3>2
  <2>5. n \in 0..Len(t)
    BY <1>0
  <2>6. \E k : k = [q \in 1..n |-> k[q]] /\ Good(k, n)
    BY <2>2, <2>4
  <2> QED BY <2>5, <2>6
<1> HIDE DEF Solved
<1>3. Len(t) \in Solved
  <2>1. 0..Len(t) \subseteq Solved
    BY <1>0, <1>1, <1>2, Induction
  <2> QED BY <1>0, <2>1
<1>4. PICK g : g = [q \in 1..Len(t) |-> g[q]] /\ Good(g, Len(t))
  BY <1>3 DEF Solved
<1> DEFINE upto == CHOOSE u : u = [k \in 1..Len(t) |->
                     IF k = 1 THEN t[1] ELSE u[k - 1] \o <<Separator>> \o t[k]]
<1>5. g = [k \in 1..Len(t) |-> IF k = 1 THEN t[1] ELSE g[k - 1] \o <<Separator>> \o t[k]]
  BY <1>4
<1>6. upto = [k \in 1..Len(t) |->
                IF k = 1 THEN t[1] ELSE upto[k - 1] \o <<Separator>> \o t[k]]
  BY <1>5
<1>7. Text(t) = upto[Len(t)]
  BY DEF Text
<1> HIDE DEF upto
<1>8. IsText(t, upto)
  <2>1. 1 \in 1..Len(t) /\ \A k \in 2..Len(t) : k \in 1..Len(t) /\ k # 1
    BY <1>0
  <2> QED BY <1>6, <2>1 DEF IsText
<1> QED BY <1>7, <1>8

\* The first n levels of t are in text, where at says: between each two of them
\* is a separator.
Laid(text, t, at, n) ==
  /\ text \in Seq(Char)
  /\ at[1] = 1 /\ \A k \in 1..n : at[k] \in Nat /\ at[k] >= 1
  /\ \A k \in 1..(n - 1) : at[k + 1] = at[k] + Len(t[k]) + 1
  /\ Len(text) = at[n] + Len(t[n]) - 1
  /\ \A k \in 1..n : \A i \in 1..Len(t[k]) : text[at[k] + i - 1] = t[k][i]
  /\ \A k \in 1..(n - 1) : text[at[k] + Len(t[k])] = Separator

\* The levels that are laid out do not go beyond the text.
LEMMA LaidInside ==
  ASSUME NEW t \in Topics, NEW n \in 1..Len(t), NEW x, NEW at, Laid(x, t, at, n)
  PROVE  \A k \in 1..n : /\ at[k] + Len(t[k]) \in Nat /\ at[k] + Len(t[k]) >= 1
                         /\ at[k] + Len(t[k]) - 1 <= Len(x)
                         /\ k # n => at[k] + Len(t[k]) <= Len(x)
<1>0. /\ Len(t) \in Nat /\ n \in Nat /\ n >= 1 /\ n \in 1..n
      /\ \A k \in 1..n : k \in 1..Len(t)
  BY TopicLevels
<1>1. Len(x) \in Nat /\ \A k \in 1..n : Len(t[k]) \in Nat
  <2>1. x \in Seq(Char)
    BY DEF Laid
  <2>2. \A k \in 1..Len(t) : Len(t[k]) \in Nat
    BY TopicLevels
  <2>3. Len(x) \in Nat
    BY <2>1
  <2> QED BY <1>0, <2>2, <2>3
<1>2. at[n] \in Nat /\ Len(x) = at[n] + Len(t[n]) - 1 /\ Len(t[n]) \in Nat
  BY <1>0, <1>1 DEF Laid
<1> DEFINE Low == {d \in 0..(n - 1) :
                    /\ at[n - d] + Len(t[n - d]) - 1 <= Len(x)
                    /\ d # 0 => at[n - d] + Len(t[n - d]) <= Len(x)}
<1>3. 0 \in Low
  <2>1. 0 \in 0..(n - 1) /\ n - 0 = n
    BY <1>0
  <2> QED BY <1>2, <2>1
<1>4. ASSUME NEW d \in 1..(n - 1), d - 1 \in Low
      PROVE  d \in Low
  <2>1. /\ n - d \in 1..n /\ (n - d) + 1 \in 1..n /\ n - (d - 1) = (n - d) + 1
        /\ d \in 0..(n - 1)
    BY <1>0
  <2>2. at[(n - d) + 1] = at[n - d] + Len(t[n - d]) + 1
    <3>1. n - d \in 1..(n - 1)
      BY <1>0
    <3> QED BY <3>1 DEF Laid
  <2>3. at[(n - d) + 1] + Len(t[(n - d) + 1]) - 1 <= Len(x)
    BY <1>4, <2>1
  <2>4. /\ Len(t[(n - d) + 1]) \in Nat /\ Len(t[n - d]) \in Nat
        /\ at[n - d] \in Nat
    BY <1>1, <2>1 DEF Laid
  <2>5. at[n - d] + Len(t[n - d]) <= Len(x)
    BY <1>1, <2>2, <2>3, <2>4
  <2>6. at[n - d] + Len(t[n - d]) - 1 <= Len(x)
    BY <1>1, <2>4, <2>5
  <2> QED BY <2>1, <2>5, <2>6
<1> HIDE DEF Low
<1>5. 0..(n - 1) \subseteq Low
  <2>1. n - 1 \in Nat
    BY <1>0
  <2> QED BY <1>3, <1>4, <2>1, Induction
<1> TAKE k \in 1..n
<1>6. n - k \in Low /\ n - (n - k) = k /\ (k # n => n - k # 0)
  BY <1>0, <1>5
<1>7. /\ at[k] + Len(t[k]) - 1 <= Len(x)
      /\ k # n => at[k] + Len(t[k]) <= Len(x)
  BY <1>6 DEF Low
<1>8. at[k] \in Nat /\ at[k] >= 1 /\ Len(t[k]) \in Nat
  BY <1>1 DEF Laid
<1> QED BY <1>7, <1>8

\* One more level.
LEMMA LaidNext ==
  ASSUME NEW t \in Topics, NEW n \in 1..(Len(t) - 1), NEW x, NEW at,
         Laid(x, t, at, n), at[n + 1] = Len(x) + 2
  PROVE  Laid(x \o <<Separator>> \o t[n + 1], t, at, n + 1)
<1> DEFINE y == x \o <<Separator>>
           z == y \o t[n + 1]
<1>0. /\ Len(t) \in Nat /\ n \in Nat /\ n + 1 \in 1..Len(t) /\ n \in 1..Len(t)
      /\ n \in 1..n /\ \A k \in 1..n : k \in 1..Len(t)
  BY TopicLevels
<1>1. /\ x \in Seq(Char) /\ Len(x) \in Nat
      /\ t[n + 1] \in Seq(Char) /\ Len(t[n + 1]) \in Nat
      /\ \A k \in 1..n : Len(t[k]) \in Nat
  <2>1. x \in Seq(Char)
    BY DEF Laid
  <2>2. \A k \in 1..Len(t) : t[k] \in Seq(Char) /\ Len(t[k]) \in Nat
    BY TopicLevels
  <2>3. Len(x) \in Nat
    BY <2>1
  <2> QED BY <1>0, <2>1, <2>2, <2>3
<1>2. /\ <<Separator>> \in Seq(Char) /\ Len(<<Separator>>) = 1
      /\ <<Separator>>[1] = Separator
  BY DEF Char
<1>3. /\ y \in Seq(Char) /\ Len(y) = Len(x) + 1
      /\ \A i \in 1..Len(x) : y[i] = x[i]
      /\ y[Len(x) + 1] = Separator
  BY <1>1, <1>2
<1> HIDE DEF y
<1>4. /\ z \in Seq(Char) /\ Len(z) = Len(x) + 1 + Len(t[n + 1])
      /\ \A i \in 1..(Len(x) + 1) : z[i] = y[i]
      /\ \A i \in 1..Len(t[n + 1]) : z[Len(x) + 1 + i] = t[n + 1][i]
  <2> DEFINE e == t[n + 1]
  <2>1. e \in Seq(Char) /\ Len(e) \in Nat /\ Len(y) \in Nat
    BY <1>1, <1>3
  <2> HIDE DEF e
  <2>2. /\ y \o e \in Seq(Char) /\ Len(y \o e) = Len(y) + Len(e)
        /\ \A i \in 1..(Len(y) + Len(e)) :
             (y \o e)[i] = IF i <= Len(y) THEN y[i] ELSE e[i - Len(y)]
    BY <1>3, <2>1, ConcatProperties
  <2>3. \A i \in 1..(Len(x) + 1) : (y \o e)[i] = y[i]
    <3> TAKE i \in 1..(Len(x) + 1)
    <3>1. i \in 1..(Len(y) + Len(e)) /\ i <= Len(y)
      BY <1>1, <1>3, <2>1
    <3> QED BY <2>2, <3>1
  <2>4. \A i \in 1..Len(e) : (y \o e)[Len(x) + 1 + i] = e[i]
    <3> TAKE i \in 1..Len(e)
    <3> DEFINE j == Len(x) + 1 + i
    <3>1. j \in 1..(Len(y) + Len(e)) /\ ~(j <= Len(y)) /\ j - Len(y) = i
      BY <1>1, <1>3, <2>1
    <3> HIDE DEF j
    <3>2. (y \o e)[j] = e[i]
      BY <2>2, <3>1
    <3> QED BY <3>2 DEF j
  <2> QED BY <1>3, <2>2, <2>3, <2>4 DEF e
<1> HIDE DEF z
<1>5. at[n] \in Nat /\ Len(x) = at[n] + Len(t[n]) - 1 /\ Len(t[n]) \in Nat
  BY <1>0, <1>1 DEF Laid
<1>6. \A k \in 1..n : at[k + 1] = at[k] + Len(t[k]) + 1
  <2> TAKE k \in 1..n
  <2>1. CASE k = n
    BY <1>5, <2>1
  <2>2. CASE k # n
    <3>1. k \in 1..(n - 1)
      BY <1>0, <2>2
    <3> QED BY <3>1 DEF Laid
  <2> QED BY <2>1, <2>2
<1>7. Len(z) = at[n + 1] + Len(t[n + 1]) - 1 /\ at[n + 1] \in Nat /\ at[n + 1] >= 1
  <2>1. Len(z) = Len(x) + 1 + Len(t[n + 1])
    BY <1>4
  <2>2. Len(x) \in Nat /\ Len(t[n + 1]) \in Nat
    BY <1>1
  <2>3. \A a, b \in Nat : /\ a + 1 + b = (a + 2) + b - 1
                          /\ a + 2 \in Nat /\ a + 2 >= 1
    OBVIOUS
  <2>4. Len(x) + 1 + Len(t[n + 1]) = (Len(x) + 2) + Len(t[n + 1]) - 1
    BY <2>2, <2>3
  <2> QED BY <2>1, <2>2, <2>3, <2>4
<1>8. \A k \in 1..(n + 1) : at[k] \in Nat /\ at[k] >= 1
  <2> TAKE k \in 1..(n + 1)
  <2>1. k = n + 1 \/ k \in 1..n
    BY <1>0
  <2> QED BY <1>7, <2>1 DEF Laid
<1>9. \A k \in 1..n : /\ at[k] + Len(t[k]) \in Nat /\ at[k] + Len(t[k]) >= 1
                      /\ at[k] + Len(t[k]) - 1 <= Len(x)
                      /\ k # n => at[k] + Len(t[k]) <= Len(x)
  BY <1>0, LaidInside
<1>10. \A i \in 1..Len(x) : z[i] = x[i]
  <2>1. \A i \in 1..Len(x) : i \in 1..(Len(x) + 1)
    BY <1>1
  <2> QED BY <1>3, <1>4, <2>1
<1>11. \A k \in 1..(n + 1) : \A i \in 1..Len(t[k]) : z[at[k] + i - 1] = t[k][i]
  <2> SUFFICES ASSUME NEW k \in 1..(n + 1), NEW i \in 1..Len(t[k])
               PROVE  z[at[k] + i - 1] = t[k][i]
    OBVIOUS
  <2>1. CASE k = n + 1
    <3>1. at[k] + i - 1 = Len(x) + 1 + i
      BY <1>1, <2>1
    <3> QED BY <1>4, <2>1, <3>1
  <2>2. CASE k # n + 1
    <3>1. k \in 1..n /\ Len(t[k]) \in Nat
      BY <1>0, <1>1, <2>2
    <3>2. at[k] + i - 1 \in 1..Len(x)
      <4>1. at[k] \in Nat /\ at[k] >= 1
        BY <3>1 DEF Laid
      <4>2. i \in Nat /\ i >= 1 /\ i <= Len(t[k])
        BY <3>1
      <4>3. at[k] + Len(t[k]) - 1 <= Len(x)
        BY <1>9, <3>1
      <4> QED BY <1>1, <3>1, <4>1, <4>2, <4>3
    <3>3. x[at[k] + i - 1] = t[k][i]
      BY <3>1 DEF Laid
    <3> QED BY <1>10, <3>2, <3>3
  <2> QED BY <2>1, <2>2
<1>12. \A k \in 1..n : z[at[k] + Len(t[k])] = Separator
  <2> TAKE k \in 1..n
  <2>1. CASE k = n
    <3>1. at[k] + Len(t[k]) = Len(x) + 1
      BY <1>5, <2>1
    <3>2. Len(x) + 1 \in 1..(Len(x) + 1)
      BY <1>1
    <3> QED BY <1>3, <1>4, <3>1, <3>2
  <2>2. CASE k # n
    <3>1. k \in 1..(n - 1)
      BY <1>0, <2>2
    <3>2. x[at[k] + Len(t[k])] = Separator
      BY <3>1 DEF Laid
    <3>3. at[k] + Len(t[k]) \in 1..Len(x)
      BY <1>1, <1>9, <2>2
    <3> QED BY <1>10, <3>2, <3>3
  <2> QED BY <2>1, <2>2
<1>13. (n + 1) - 1 = n /\ at[1] = 1
  BY <1>0 DEF Laid
<1>14. z = x \o <<Separator>> \o t[n + 1]
  BY DEF y, z
<1> QED BY <1>4, <1>6, <1>7, <1>8, <1>11, <1>12, <1>13, <1>14 DEF Laid

\* Where the levels of a topic are in its text.
Layout(t, at) == Laid(Text(t), t, at, Len(t))

\* A topic's text is laid out level by level.
LEMMA TextLayout ==
  ASSUME NEW t \in Topics
  PROVE  \E at : Layout(t, at)
<1>0. Len(t) \in Nat /\ Len(t) >= 1
  BY TopicLevels
<1>1. PICK u : IsText(t, u) /\ Text(t) = u[Len(t)]
  BY TextUnfolds
<1> DEFINE at == [k \in 1..Len(t) |-> IF k = 1 THEN 1 ELSE Len(u[k - 1]) + 2]
           Fine == {n \in 0..(Len(t) - 1) : Laid(u[n + 1], t, at, n + 1)}
<1>2. 0 \in Fine
  <2>1. /\ t[1] \in Seq(Char) /\ Len(t[1]) \in Nat /\ u[1] = t[1] /\ at[1] = 1
        /\ 0 \in 0..(Len(t) - 1)
    BY <1>0, <1>1, TopicLevels DEF IsText
  <2> HIDE DEF at
  <2>2. Laid(u[1], t, at, 1)
    <3>1. Len(u[1]) = at[1] + Len(t[1]) - 1
      BY <2>1
    <3>2. \A i \in 1..Len(t[1]) : u[1][at[1] + i - 1] = t[1][i]
      BY <2>1
    <3>3. 1..1 = {1} /\ 1..(1 - 1) = {}
      OBVIOUS
    <3> QED BY <2>1, <3>1, <3>2, <3>3 DEF Laid
  <2>3. 0 + 1 = 1
    OBVIOUS
  <2> QED BY <2>1, <2>2, <2>3
<1>3. ASSUME NEW n \in 1..(Len(t) - 1), n - 1 \in Fine
      PROVE  n \in Fine
  <2>1. /\ (n - 1) + 1 = n /\ n \in 0..(Len(t) - 1) /\ n + 1 \in 2..Len(t)
        /\ (n + 1) - 1 = n
    BY <1>0
  <2>2. Laid(u[n], t, at, n)
    BY <1>3, <2>1
  <2>3. at[n + 1] = Len(u[n]) + 2
    BY <1>0, <2>1
  <2>4. u[n + 1] = u[n] \o <<Separator>> \o t[n + 1]
    BY <1>1, <2>1 DEF IsText
  <2> HIDE DEF at
  <2>5. Laid(u[n + 1], t, at, n + 1)
    BY <2>2, <2>3, <2>4, LaidNext
  <2> QED BY <2>1, <2>5
<1> HIDE DEF at, Fine
<1>4. Len(t) - 1 \in Fine
  <2>1. Len(t) - 1 \in Nat
    BY <1>0
  <2>2. 0..(Len(t) - 1) \subseteq Fine
    BY <1>2, <1>3, <2>1, Induction
  <2> QED BY <2>1, <2>2
<1>5. (Len(t) - 1) + 1 = Len(t)
  BY <1>0
<1> QED BY <1>1, <1>4, <1>5 DEF Fine, Layout

\* Where level k is, and what is behind it.
LEMMA Places ==
  ASSUME NEW t \in Topics, NEW at, Layout(t, at), NEW k \in 1..Len(t)
  PROVE  /\ Text(t) \in Seq(Char) /\ Len(Text(t)) \in Nat
         /\ at[k] \in Nat /\ at[k] >= 1 /\ Len(t[k]) \in Nat
         /\ at[k] + Len(t[k]) - 1 <= Len(Text(t))
         /\ at[1] = 1
         /\ \A i \in 1..Len(t[k]) : /\ Text(t)[at[k] + i - 1] = t[k][i]
                                   /\ t[k][i] # Separator
         /\ k = Len(t) => at[k] + Len(t[k]) = Len(Text(t)) + 1
         /\ k # Len(t) => /\ at[k] + Len(t[k]) <= Len(Text(t))
                          /\ Text(t)[at[k] + Len(t[k])] = Separator
                          /\ k + 1 \in 1..Len(t)
                          /\ at[k + 1] = at[k] + Len(t[k]) + 1
<1> DEFINE text == Text(t)
           n == Len(t)
<1>0. n \in Nat /\ n >= 1 /\ n \in 1..n
  BY TopicLevels
<1>1. Laid(text, t, at, n)
  BY DEF Layout
<1>2. /\ Len(t[k]) \in Nat /\ \A i \in 1..Len(t[k]) : t[k][i] # Separator
      /\ Len(t[n]) \in Nat
  BY <1>0, TopicLevels
<1>3. /\ at[k] + Len(t[k]) - 1 <= Len(text)
      /\ k # n => at[k] + Len(t[k]) <= Len(text)
  BY <1>0, <1>1, LaidInside
<1> HIDE DEF text
<1>4. text \in Seq(Char) /\ Len(text) \in Nat /\ at[1] = 1 /\ at[k] \in Nat /\ at[k] >= 1
  BY <1>1 DEF Laid
<1>5. \A i \in 1..Len(t[k]) : text[at[k] + i - 1] = t[k][i]
  BY <1>1 DEF Laid
<1>6. k = n => at[k] + Len(t[k]) = Len(text) + 1
  <2>1. Len(text) = at[n] + Len(t[n]) - 1
    BY <1>1 DEF Laid
  <2> QED BY <1>2, <1>4, <2>1
<1>7. ASSUME k # n
      PROVE  /\ text[at[k] + Len(t[k])] = Separator
             /\ k + 1 \in 1..n
             /\ at[k + 1] = at[k] + Len(t[k]) + 1
  <2>1. k \in 1..(n - 1) /\ k + 1 \in 1..n
    BY <1>0, <1>7
  <2> QED BY <1>1, <2>1 DEF Laid
<1> QED BY <1>2, <1>3, <1>4, <1>5, <1>6, <1>7 DEF text

\* A level ends at the first separator, or with the text.
LEMMA LevelLength ==
  ASSUME NEW t \in Topics, NEW at, Layout(t, at), NEW k \in 1..Len(t), NEW m \in Nat,
         \A i \in 1..m : /\ at[k] + i - 1 <= Len(Text(t))
                         /\ Text(t)[at[k] + i - 1] # Separator,
         \/ at[k] + m = Len(Text(t)) + 1
         \/ at[k] + m <= Len(Text(t)) /\ Text(t)[at[k] + m] = Separator
  PROVE  m = Len(t[k])
<1> DEFINE text == Text(t)
           l == Len(t[k])
           b == at[k]
<1>1. /\ Len(text) \in Nat /\ b \in Nat /\ b >= 1 /\ l \in Nat /\ b + l - 1 <= Len(text)
      /\ \A i \in 1..l : text[b + i - 1] = t[k][i] /\ t[k][i] # Separator
      /\ k = Len(t) => b + l = Len(text) + 1
      /\ k # Len(t) => b + l <= Len(text) /\ text[b + l] = Separator
  BY Places
<1>2. /\ \A i \in 1..m : b + i - 1 <= Len(text) /\ text[b + i - 1] # Separator
      /\ \/ b + m = Len(text) + 1
         \/ b + m <= Len(text) /\ text[b + m] = Separator
  OBVIOUS
<1> HIDE DEF text, l, b
<1>3. ~(m < l)
  <2> SUFFICES ASSUME m < l PROVE FALSE
    OBVIOUS
  <2>1. m + 1 \in 1..l /\ b + (m + 1) - 1 = b + m /\ b + m # Len(text) + 1
    BY <1>1
  <2>2. text[b + m] # Separator
    BY <1>1, <2>1
  <2> QED BY <1>2, <2>1, <2>2
<1>4. ~(l < m)
  <2> SUFFICES ASSUME l < m PROVE FALSE
    OBVIOUS
  <2>1. l + 1 \in 1..m /\ b + (l + 1) - 1 = b + l
    BY <1>1
  <2>2. text[b + l] # Separator /\ b + l <= Len(text)
    BY <1>2, <2>1
  <2>3. b + l # Len(text) + 1
    BY <1>1, <2>2
  <2> QED BY <1>1, <2>2, <2>3
<1> QED BY <1>1, <1>3, <1>4 DEF l

\* The loop over a '+' ends where the level of the name ends.
LEMMA LevelEndIs ==
  ASSUME NEW t \in Topics, NEW at, Layout(t, at), NEW k \in 1..Len(t), Len(t[k]) > 0
  PROVE  LevelEnd(Text(t), at[k]) = at[k] + Len(t[k]) - 1
<1> DEFINE text == Text(t)
           l == Len(t[k])
           b == at[k]
           Ends(j) == /\ \A i \in (b + 1)..j : text[i] # Separator
                      /\ j = Len(text) \/ text[j + 1] = Separator
<1>1. /\ Len(text) \in Nat /\ b \in Nat /\ b >= 1 /\ l \in Nat /\ b + l - 1 <= Len(text)
      /\ \A i \in 1..l : text[b + i - 1] = t[k][i] /\ t[k][i] # Separator
      /\ k = Len(t) => b + l = Len(text) + 1
      /\ k # Len(t) => b + l <= Len(text) /\ text[b + l] = Separator
      /\ l > 0
  BY Places
<1>2. LevelEnd(text, b) = CHOOSE j \in b..Len(text) : Ends(j)
  BY DEF LevelEnd
<1>3. \A j \in b..Len(text) : Ends(j) => j = b + l - 1
  <2> SUFFICES ASSUME NEW j \in b..Len(text), Ends(j) PROVE j = b + l - 1
    OBVIOUS
  <2> DEFINE m == j - b + 1
  <2>0. Len(text) \in Nat /\ b \in Nat
    BY <1>1
  <2> HIDE DEF text, l, b
  <2>1. m \in Nat /\ b + m = j + 1
    BY <2>0
  <2>2. \A i \in 1..m : b + i - 1 <= Len(text) /\ text[b + i - 1] # Separator
    <3> TAKE i \in 1..m
    <3>1. b + i - 1 <= Len(text) /\ b + i - 1 <= j
      BY <2>0
    <3>2. CASE i = 1
      <4>1. 1 \in 1..l /\ b + 1 - 1 = b + i - 1
        BY <1>1, <3>2
      <4> QED BY <1>1, <3>1, <4>1
    <3>3. CASE i # 1
      <4>1. b + i - 1 \in (b + 1)..j
        BY <2>0, <3>1, <3>3
      <4> QED BY <3>1, <4>1
    <3> QED BY <3>2, <3>3
  <2>3. \/ b + m = Len(text) + 1
        \/ b + m <= Len(text) /\ text[b + m] = Separator
    <3>1. CASE j = Len(text)
      BY <2>1, <3>1
    <3>2. CASE j # Len(text)
      <4>1. j + 1 <= Len(text)
        BY <2>0, <3>2
      <4> QED BY <2>1, <3>2, <4>1
    <3> QED BY <3>1, <3>2
  <2> HIDE DEF m
  <2>4. m = l
    BY <2>1, <2>2, <2>3, LevelLength DEF text, l, b
  <2> QED BY <2>0, <2>1, <2>4
<1>4. b + l - 1 \in b..Len(text) /\ Ends(b + l - 1)
  <2> HIDE DEF text, l, b
  <2>1. b + l - 1 \in b..Len(text) /\ (b + l - 1) + 1 = b + l
    BY <1>1
  <2>2. \A i \in (b + 1)..(b + l - 1) : text[i] # Separator
    <3> TAKE i \in (b + 1)..(b + l - 1)
    <3> DEFINE c == i - b + 1
    <3>1. c \in 1..l /\ b + c - 1 = i
      BY <1>1
    <3> HIDE DEF c
    <3> QED BY <1>1, <3>1
  <2>3. b + l - 1 = Len(text) \/ text[b + l] = Separator
    BY <1>1
  <2> QED BY <2>1, <2>2, <2>3
<1> HIDE DEF Ends, text, l, b
<1>5. LevelEnd(text, b) = b + l - 1
  BY <1>2, <1>3, <1>4
<1> QED BY <1>5 DEF text, l, b
-----------------------------------------------------------------------------
(* The walk through both texts.                                            *)

\* w says for each pair of positions where the walk ends that begins there.
IsWalk(w, f, n) ==
  \A i \in 1..(Len(f) + 1) : \A j \in 1..(Len(n) + 1) :
    w[i][j] = IF Stops(f, n, i, j) THEN <<i, j>> ELSE w[i + 1][After(f, n, i, j)]

\* The recursive definition of the walk has a solution.
LEMMA WalkUnfolds ==
  ASSUME NEW f \in Seq(Char), NEW n \in Seq(Char)
  PROVE  \E w : IsWalk(w, f, n) /\ Walk(f, n) = w[1][1]
<1> DEFINE last == Len(f) + 1
           J == 1..(Len(n) + 1)
           row(g, i) == [j \in J |-> IF Stops(f, n, i, j) THEN <<i, j>>
                                     ELSE g[i + 1][After(f, n, i, j)]]
           Good(g, d) == \A i \in (last - d)..last : g[i] = row(g, i)
           Solved == {d \in 0..Len(f) :
                       \E g : g = [i \in (last - d)..last |-> g[i]] /\ Good(g, d)}
<1>0. Len(f) \in Nat /\ Len(n) \in Nat /\ last \in Nat /\ last - Len(f) = 1
  OBVIOUS
<1>1. 0 \in Solved
  <2> DEFINE g == [i \in (last - 0)..last |-> [j \in J |-> <<last, j>>]]
  <2>1. g = [i \in (last - 0)..last |-> g[i]]
    OBVIOUS
  <2>2. Good(g, 0)
    <3> SUFFICES ASSUME NEW i \in (last - 0)..last PROVE g[i] = row(g, i)
      OBVIOUS
    <3>1. i = last /\ g[i] = [j \in J |-> <<last, j>>]
      BY <1>0
    <3>2. \A j \in J : Stops(f, n, i, j)
      BY <1>0, <3>1 DEF Stops
    <3> HIDE DEF g, last
    <3> QED BY <3>1, <3>2
  <2>3. 0 \in 0..Len(f)
    BY <1>0
  <2> HIDE DEF g, Good, last
  <2> QED BY <2>1, <2>2, <2>3
<1>2. ASSUME NEW d \in 1..Len(f), d - 1 \in Solved
      PROVE  d \in Solved
  <2>1. PICK g : g = [i \in (last - (d - 1))..last |-> g[i]] /\ Good(g, d - 1)
    BY <1>2
  <2> DEFINE e == row(g, last - d)
             h == [i \in (last - d)..last |-> IF i = last - d THEN e ELSE g[i]]
  <2>2. h = [i \in (last - d)..last |-> h[i]]
    OBVIOUS
  <2> HIDE DEF e
  <2>3. h[last - d] = e /\ \A i \in (last - (d - 1))..last : h[i] = g[i]
    <3>1. /\ last - d \in (last - d)..last
          /\ \A i \in (last - (d - 1))..last : i \in (last - d)..last /\ i # last - d
      BY <1>0
    <3> QED BY <3>1
  <2> HIDE DEF h
  <2>4. ASSUME NEW i \in (last - d)..last
        PROVE  h[i] = row(h, i)
    <3>1. CASE i = last - d
      <4>1. (last - d) + 1 \in (last - (d - 1))..last
        BY <1>0
      <4>2. h[i + 1] = g[i + 1]
        BY <2>3, <3>1, <4>1
      <4>3. h[i] = row(g, i)
        BY <2>3, <3>1 DEF e
      <4> QED BY <4>2, <4>3
    <3>2. CASE i # last - d
      <4>1. i \in (last - (d - 1))..last
        BY <1>0, <3>2
      <4>2. g[i] = row(g, i) /\ h[i] = g[i]
        BY <2>1, <2>3, <4>1
      <4>3. CASE i = last
        <5>1. \A j \in J : Stops(f, n, i, j)
          BY <1>0, <4>3 DEF Stops
        <5> QED BY <4>2, <5>1
      <4>4. CASE i # last
        <5>1. i + 1 \in (last - (d - 1))..last
          BY <1>0, <4>1, <4>4
        <5>2. h[i + 1] = g[i + 1]
          BY <2>3, <5>1
        <5> QED BY <4>2, <5>2
      <4> QED BY <4>3, <4>4
    <3> QED BY <3>1, <3>2
  <2>5. d \in 0..Len(f)
    BY <1>0
  <2>6. Good(h, d)
    BY <2>4
  <2> HIDE DEF Good, last
  <2> QED BY <2>2, <2>5, <2>6
<1> HIDE DEF Solved
<1>3. Len(f) \in Solved
  <2>1. 0..Len(f) \subseteq Solved
    BY <1>0, <1>1, <1>2, Induction
  <2> QED BY <1>0, <2>1
<1>4. PICK g : g = [i \in (last - Len(f))..last |-> g[i]] /\ Good(g, Len(f))
  BY <1>3 DEF Solved
<1> DEFINE walk == CHOOSE w : w = [i \in 1..(Len(f) + 1) |->
                     [j \in 1..(Len(n) + 1) |->
                        IF Stops(f, n, i, j) THEN <<i, j>>
                        ELSE w[i + 1][After(f, n, i, j)]]]
<1>5. g = [i \in 1..last |-> row(g, i)]
  <2> HIDE DEF last, row
  <2> QED BY <1>0, <1>4
<1>6. walk = [i \in 1..last |-> row(walk, i)]
  BY <1>5
<1>7. Walk(f, n) = walk[1][1]
  BY DEF Walk
<1> HIDE DEF walk
<1>8. IsWalk(walk, f, n)
  <2> SUFFICES ASSUME NEW i \in 1..last, NEW j \in J
               PROVE  walk[i][j] = IF Stops(f, n, i, j) THEN <<i, j>>
                                   ELSE walk[i + 1][After(f, n, i, j)]
    BY DEF IsWalk
  <2>1. walk[i] = row(walk, i)
    <3> HIDE DEF row, last
    <3> QED BY <1>6
  <2> QED BY <2>1
<1> QED BY <1>7, <1>8

\* The walk from i and j on reaches the ends of both texts.
Reaches(w, f, n, i, j) == w[i][j] = <<Len(f) + 1, Len(n) + 1>>

\* One character of the filter.
LEMMA WalkStep ==
  ASSUME NEW f \in Seq(Char), NEW n \in Seq(Char), NEW w, IsWalk(w, f, n),
         NEW i \in 1..Len(f), NEW j \in 1..(Len(n) + 1)
  PROVE  Reaches(w, f, n, i, j)
           <=> ~Stops(f, n, i, j) /\ Reaches(w, f, n, i + 1, After(f, n, i, j))
<1>0. Len(f) \in Nat /\ i \in 1..(Len(f) + 1) /\ i # Len(f) + 1
  OBVIOUS
<1>1. w[i][j] = IF Stops(f, n, i, j) THEN <<i, j>> ELSE w[i + 1][After(f, n, i, j)]
  BY <1>0 DEF IsWalk
<1>2. <<i, j>> # <<Len(f) + 1, Len(n) + 1>>
  BY <1>0
<1>3. CASE Stops(f, n, i, j)
  BY <1>1, <1>2, <1>3 DEF Reaches
<1>4. CASE ~Stops(f, n, i, j)
  BY <1>1, <1>4 DEF Reaches
<1> QED BY <1>3, <1>4

\* The end of the filter.
LEMMA WalkEnd ==
  ASSUME NEW f \in Seq(Char), NEW n \in Seq(Char), NEW w, IsWalk(w, f, n),
         NEW j \in 1..(Len(n) + 1)
  PROVE  Reaches(w, f, n, Len(f) + 1, j) <=> j = Len(n) + 1
<1>0. Len(f) \in Nat /\ Len(f) + 1 \in 1..(Len(f) + 1) /\ Len(f) + 1 > Len(f)
  OBVIOUS
<1>1. Stops(f, n, Len(f) + 1, j)
  BY <1>0 DEF Stops
<1>2. w[Len(f) + 1][j] = <<Len(f) + 1, j>>
  BY <1>0, <1>1 DEF IsWalk
<1> QED BY <1>2 DEF Reaches
-----------------------------------------------------------------------------
(* The walk, level by level.                                               *)

\* a and b say where the levels of filter and name are, w how the walk goes.
Walked(w, f, n, a, b) ==
  Layout(f, a) /\ Layout(n, b) /\ IsWalk(w, Text(f), Text(n))

IsWildcard(level) == level \in {<<"+">>, <<"#">>}
IsPlain(level) == \A i \in 1..Len(level) : level[i] \notin {"+", "#"}

\* The levels of a filter: one wildcard, or none.
LEMMA FilterLevels ==
  ASSUME NEW f \in Filters, NEW k \in 1..Len(f)
  PROVE  f[k] = <<"+">> \/ (f[k] = <<"#">> /\ k = Len(f)) \/ IsPlain(f[k])
<1>1. f \in Topics
  BY DEF Topics
<1>2. DOMAIN f = 1..Len(f) /\ DOMAIN f[k] = 1..Len(f[k])
  BY <1>1, TopicLevels
<1> QED BY <1>2, DeliveryAssumption DEF IsPlain

\* The texts that the walk goes through.
LEMMA WalkedTexts ==
  ASSUME NEW f \in Filters, NEW n \in Names, NEW a, NEW b, NEW w, Walked(w, f, n, a, b)
  PROVE  /\ f \in Topics /\ n \in Topics
         /\ Text(f) \in Seq(Char) /\ Text(n) \in Seq(Char)
         /\ Layout(f, a) /\ Layout(n, b) /\ IsWalk(w, Text(f), Text(n))
<1>1. f \in Topics /\ n \in Topics
  BY DEF Topics
<1>2. Layout(f, a) /\ Layout(n, b) /\ IsWalk(w, Text(f), Text(n))
  BY DEF Walked
<1>3. 1 \in 1..Len(f) /\ 1 \in 1..Len(n)
  BY <1>1, TopicLevels
<1>4. Text(f) \in Seq(Char) /\ Text(n) \in Seq(Char)
  BY <1>1, <1>2, <1>3, Places
<1> QED BY <1>1, <1>2, <1>4

\* A level without wildcards is compared character by character.
LEMMA PlainWalk ==
  ASSUME NEW f \in Filters, NEW n \in Names, NEW a, NEW b, NEW w, Walked(w, f, n, a, b),
         NEW k \in 1..Len(f), IsPlain(f[k]), NEW j \in 1..(Len(Text(n)) + 1)
  PROVE  Reaches(w, Text(f), Text(n), a[k], j)
           <=> /\ \A i \in 1..Len(f[k]) : /\ j + i - 1 <= Len(Text(n))
                                          /\ Text(n)[j + i - 1] = f[k][i]
               /\ Reaches(w, Text(f), Text(n), a[k] + Len(f[k]), j + Len(f[k]))
<1> DEFINE F == Text(f)
           N == Text(n)
           l == Len(f[k])
           p == a[k]
           Agree(c) == \A i \in 1..c : j + i - 1 <= Len(N) /\ N[j + i - 1] = f[k][i]
           Good == {c \in 0..l : Reaches(w, F, N, p, j)
                                   <=> Agree(c) /\ Reaches(w, F, N, p + c, j + c)}
<1>1. /\ F \in Seq(Char) /\ N \in Seq(Char) /\ IsWalk(w, F, N)
      /\ f \in Topics /\ Layout(f, a)
  BY WalkedTexts
<1>2. /\ Len(F) \in Nat /\ p \in Nat /\ p >= 1 /\ l \in Nat /\ p + l - 1 <= Len(F)
      /\ \A i \in 1..l : F[p + i - 1] = f[k][i] /\ f[k][i] # Separator
  BY <1>1, Places
<1>3. Len(N) \in Nat /\ j \in 1..(Len(N) + 1)
  BY <1>1
<1>4. \A i \in 1..l : f[k][i] \notin {"+", "#"}
  BY DEF IsPlain
<1> HIDE DEF F, N, l, p
<1>5. 0 \in Good
  <2>1. Agree(0) /\ p + 0 = p /\ j + 0 = j /\ 0 \in 0..l
    BY <1>2, <1>3
  <2> HIDE DEF Agree
  <2> QED BY <2>1
<1>6. ASSUME NEW c \in 1..l, c - 1 \in Good
      PROVE  c \in Good
  <2> DEFINE q == p + (c - 1)
             r == j + (c - 1)
  <2>1. /\ q \in 1..Len(F) /\ q = p + c - 1 /\ q + 1 = p + c
        /\ r = j + c - 1 /\ r + 1 = j + c /\ c \in 0..l /\ r \in Nat
    BY <1>2, <1>3
  <2>2. Reaches(w, F, N, p, j) <=> Agree(c - 1) /\ Reaches(w, F, N, q, r)
    BY <1>6
  <2>3. Agree(c) <=> Agree(c - 1) /\ r <= Len(N) /\ N[r] = f[k][c]
    <3>1. 1..c = (1..(c - 1)) \cup {c}
      BY <1>2
    <3> QED BY <2>1, <3>1
  <2>4. ASSUME Agree(c - 1)
        PROVE  r \in 1..(Len(N) + 1)
    <3>1. CASE c = 1
      BY <1>3, <3>1
    <3>2. CASE c # 1
      <4>1. c - 1 \in 1..(c - 1)
        BY <1>2, <3>2
      <4>2. j + (c - 1) - 1 <= Len(N)
        BY <2>4, <4>1
      <4> QED BY <1>3, <2>1, <4>2
    <3> QED BY <3>1, <3>2
  <2>5. F[q] = f[k][c] /\ F[q] # Separator /\ F[q] \notin {"+", "#"}
    BY <1>2, <1>4, <2>1
  <2> HIDE DEF q, r, Agree
  <2>6. ASSUME Agree(c - 1)
        PROVE  Reaches(w, F, N, q, r)
                 <=> r <= Len(N) /\ N[r] = f[k][c] /\ Reaches(w, F, N, q + 1, r + 1)
    <3>1. Reaches(w, F, N, q, r)
            <=> ~Stops(F, N, q, r) /\ Reaches(w, F, N, q + 1, After(F, N, q, r))
      BY <1>1, <2>1, <2>4, <2>6, WalkStep
    <3>2. After(F, N, q, r) = r + 1
      BY <2>5 DEF After
    <3>3. Stops(F, N, q, r) <=> ~(r <= Len(N)) \/ N[r] # f[k][c]
      <4>1. q <= Len(F) /\ (r > Len(N) <=> ~(r <= Len(N)))
        BY <1>2, <1>3, <2>1
      <4>2. Stops(F, N, q, r)
              <=> \/ ~(r <= Len(N))
                  \/ N[r] = Separator /\ F[q] # Separator
                  \/ F[q] \notin {"+", "#"} /\ F[q] # N[r]
        <5>1. ~(q > Len(F))
          BY <1>2, <2>1, <4>1
        <5> QED BY <4>1, <5>1, Zenon DEF Stops
      <4> QED BY <2>5, <4>2, Zenon
    <3> QED BY <3>1, <3>2, <3>3
  <2>7. Reaches(w, F, N, p, j) <=> Agree(c) /\ Reaches(w, F, N, p + c, j + c)
    BY <2>1, <2>2, <2>3, <2>6
  <2> QED BY <2>1, <2>7
<1> HIDE DEF Good
<1>7. l \in Good
  <2>1. 0..l \subseteq Good
    BY <1>2, <1>5, <1>6, Induction
  <2> QED BY <1>2, <2>1
<1>8. Reaches(w, F, N, p, j) <=> Agree(l) /\ Reaches(w, F, N, p + l, j + l)
  BY <1>7 DEF Good
<1> QED BY <1>8 DEF F, N, l, p

\* A separator of the filter is found only at one of the name.
LEMMA SeparatorWalk ==
  ASSUME NEW f \in Filters, NEW n \in Names, NEW a, NEW b, NEW w, Walked(w, f, n, a, b),
         NEW k \in 1..Len(f), k # Len(f), NEW j \in 1..(Len(Text(n)) + 1)
  PROVE  Reaches(w, Text(f), Text(n), a[k] + Len(f[k]), j)
           <=> /\ j <= Len(Text(n)) /\ Text(n)[j] = Separator
               /\ Reaches(w, Text(f), Text(n), a[k + 1], j + 1)
<1> DEFINE F == Text(f)
           N == Text(n)
           q == a[k] + Len(f[k])
<1>1. /\ F \in Seq(Char) /\ N \in Seq(Char) /\ IsWalk(w, F, N)
      /\ f \in Topics /\ Layout(f, a)
  BY WalkedTexts
<1>2. /\ Len(F) \in Nat /\ q \in 1..Len(F) /\ F[q] = Separator
      /\ a[k + 1] = q + 1
  <2>1. /\ a[k] \in Nat /\ a[k] >= 1 /\ Len(f[k]) \in Nat /\ Len(F) \in Nat
        /\ q <= Len(F) /\ F[q] = Separator /\ a[k + 1] = q + 1
    <3>1. /\ Len(F) \in Nat /\ a[k] \in Nat /\ a[k] >= 1 /\ Len(f[k]) \in Nat
      BY <1>1, Places
    <3>2. q <= Len(F) /\ F[q] = Separator /\ a[k + 1] = q + 1
      BY <1>1, Places
    <3> QED BY <3>1, <3>2
  <2> QED BY <2>1
<1>3. Len(N) \in Nat
  BY <1>1
<1> HIDE DEF F, N, q
<1>4. j \in 1..(Len(N) + 1)
  BY DEF N
<1>5. Reaches(w, F, N, q, j)
        <=> ~Stops(F, N, q, j) /\ Reaches(w, F, N, q + 1, After(F, N, q, j))
  BY <1>1, <1>2, <1>4, WalkStep
<1>6. After(F, N, q, j) = j + 1
  BY <1>2 DEF After, Separator
<1>7. Stops(F, N, q, j) <=> ~(j <= Len(N)) \/ N[j] # Separator
  <2>1. ~(q > Len(F)) /\ (j > Len(N) <=> ~(j <= Len(N)))
    BY <1>2, <1>3, <1>4
  <2>2. F[q] \notin {"+", "#"}
    BY <1>2 DEF Separator
  <2> QED BY <1>2, <2>1, <2>2 DEF Stops
<1>8. Reaches(w, F, N, q, j)
        <=> j <= Len(N) /\ N[j] = Separator /\ Reaches(w, F, N, a[k + 1], j + 1)
  BY <1>2, <1>5, <1>6, <1>7
<1> QED BY <1>8 DEF F, N, q

\* A wildcard is compared with the first character of a level: the walk stops
\* there if the level is empty.
LEMMA WildcardStops ==
  ASSUME NEW f \in Filters, NEW n \in Names, NEW a, NEW b, NEW w, Walked(w, f, n, a, b),
         NEW k \in 1..Len(f), IsWildcard(f[k]), NEW m \in 1..Len(n)
  PROVE  /\ a[k] \in 1..Len(Text(f)) /\ Text(f)[a[k]] = f[k][1] /\ Len(f[k]) = 1
         /\ b[m] \in 1..(Len(Text(n)) + 1)
         /\ Stops(Text(f), Text(n), a[k], b[m]) <=> Len(n[m]) = 0
<1> DEFINE F == Text(f)
           N == Text(n)
           p == a[k]
           q == b[m]
           l == Len(n[m])
<1>1. f \in Topics /\ n \in Topics /\ Layout(f, a) /\ Layout(n, b)
  BY WalkedTexts
<1>2. Len(f[k]) = 1 /\ f[k][1] \in {"+", "#"}
  BY DEF IsWildcard
<1>3. /\ Len(F) \in Nat /\ p \in Nat /\ p >= 1 /\ p + Len(f[k]) - 1 <= Len(F)
      /\ \A i \in 1..Len(f[k]) : F[p + i - 1] = f[k][i]
  <2>1. Len(F) \in Nat /\ p \in Nat /\ p >= 1 /\ p + Len(f[k]) - 1 <= Len(F)
    BY <1>1, Places
  <2>2. \A i \in 1..Len(f[k]) : F[p + i - 1] = f[k][i]
    BY <1>1, Places
  <2> QED BY <2>1, <2>2
<1>4. /\ Len(N) \in Nat /\ q \in Nat /\ q >= 1 /\ l \in Nat /\ q + l - 1 <= Len(N)
      /\ \A i \in 1..l : N[q + i - 1] = n[m][i] /\ n[m][i] # Separator
      /\ m = Len(n) => q + l = Len(N) + 1
      /\ m # Len(n) => q + l <= Len(N) /\ N[q + l] = Separator
  BY <1>1, Places
<1> HIDE DEF F, N, p, q, l
<1>5. p \in 1..Len(F) /\ F[p] = f[k][1]
  <2>1. 1 \in 1..Len(f[k]) /\ p + 1 - 1 = p
    BY <1>2, <1>3
  <2> QED BY <1>2, <1>3, <2>1
<1>6. q \in 1..(Len(N) + 1)
  BY <1>4
<1>7. Stops(F, N, p, q) <=> ~(q <= Len(N)) \/ N[q] = Separator
  <2>1. ~(p > Len(F)) /\ (q > Len(N) <=> ~(q <= Len(N)))
    BY <1>3, <1>4, <1>5
  <2>2. F[p] # Separator /\ F[p] \in {"+", "#"}
    BY <1>2, <1>5 DEF Separator
  <2> QED BY <2>1, <2>2 DEF Stops
<1>8. CASE l = 0
  <2>1. q + l = q
    BY <1>4, <1>8
  <2>2. ~(q <= Len(N)) \/ N[q] = Separator
    <3>1. CASE m = Len(n)
      BY <1>4, <2>1, <3>1
    <3>2. CASE m # Len(n)
      BY <1>4, <2>1, <3>2
    <3> QED BY <3>1, <3>2
  <2>3. Stops(F, N, p, q) <=> l = 0
    BY <1>7, <1>8, <2>2
  <2> QED BY <1>2, <1>5, <1>6, <2>3 DEF F, N, p, q, l
<1>9. CASE l # 0
  <2>1. 1 \in 1..l /\ q + 1 - 1 = q /\ q <= Len(N)
    BY <1>4, <1>9
  <2>2. N[q] # Separator
    BY <1>4, <2>1
  <2>3. Stops(F, N, p, q) <=> l = 0
    BY <1>7, <1>9, <2>1, <2>2
  <2> QED BY <1>2, <1>5, <1>6, <2>3 DEF F, N, p, q, l
<1> QED BY <1>8, <1>9

\* A '+' takes one level that is not empty.
LEMMA PlusWalk ==
  ASSUME NEW f \in Filters, NEW n \in Names, NEW a, NEW b, NEW w, Walked(w, f, n, a, b),
         NEW k \in 1..Len(f), IsWildcard(f[k]), f[k][1] = "+", NEW m \in 1..Len(n)
  PROVE  Reaches(w, Text(f), Text(n), a[k], b[m])
           <=> /\ Len(n[m]) # 0
               /\ Reaches(w, Text(f), Text(n), a[k] + Len(f[k]), b[m] + Len(n[m]))
<1> DEFINE F == Text(f)
           N == Text(n)
<1>1. /\ n \in Topics /\ Layout(n, b)
      /\ F \in Seq(Char) /\ N \in Seq(Char) /\ IsWalk(w, F, N)
  BY WalkedTexts
<1>2. /\ a[k] \in 1..Len(F) /\ F[a[k]] = f[k][1] /\ Len(f[k]) = 1
      /\ b[m] \in 1..(Len(N) + 1)
      /\ Stops(F, N, a[k], b[m]) <=> Len(n[m]) = 0
  BY WildcardStops
<1> HIDE DEF F, N
<1>3. Reaches(w, F, N, a[k], b[m])
        <=> /\ ~Stops(F, N, a[k], b[m])
            /\ Reaches(w, F, N, a[k] + 1, After(F, N, a[k], b[m]))
  BY <1>1, <1>2, WalkStep
<1>4. F[a[k]] = "+"
  BY <1>2
<1>5. ASSUME Len(n[m]) # 0
      PROVE  After(F, N, a[k], b[m]) = b[m] + Len(n[m])
  <2>1. Len(n[m]) \in Nat /\ b[m] \in Nat
    BY <1>1, Places
  <2>2. LevelEnd(N, b[m]) = b[m] + Len(n[m]) - 1
    <3>1. Len(n[m]) > 0
      BY <1>5, <2>1
    <3> QED BY <1>1, <3>1, LevelEndIs DEF N
  <2>3. After(F, N, a[k], b[m]) = LevelEnd(N, b[m]) + 1
    BY <1>4 DEF After
  <2> QED BY <2>1, <2>2, <2>3
<1>6. Reaches(w, F, N, a[k], b[m])
        <=> Len(n[m]) # 0 /\ Reaches(w, F, N, a[k] + Len(f[k]), b[m] + Len(n[m]))
  <2>1. CASE Len(n[m]) = 0
    BY <1>2, <1>3, <2>1
  <2>2. CASE Len(n[m]) # 0
    BY <1>2, <1>3, <1>5, <2>2
  <2> QED BY <2>1, <2>2
<1> QED BY <1>6 DEF F, N

\* A '#' takes all that is left, if its first level is not empty.
LEMMA HashWalk ==
  ASSUME NEW f \in Filters, NEW n \in Names, NEW a, NEW b, NEW w, Walked(w, f, n, a, b),
         IsWildcard(f[Len(f)]), f[Len(f)][1] = "#", NEW m \in 1..Len(n)
  PROVE  Reaches(w, Text(f), Text(n), a[Len(f)], b[m]) <=> Len(n[m]) # 0
<1> DEFINE F == Text(f)
           N == Text(n)
           k == Len(f)
<1>1. /\ f \in Topics /\ Layout(f, a)
      /\ F \in Seq(Char) /\ N \in Seq(Char) /\ IsWalk(w, F, N)
  BY WalkedTexts
<1>2. k \in 1..Len(f) /\ k = Len(f)
  BY <1>1, TopicLevels
<1>3. /\ a[k] \in 1..Len(F) /\ F[a[k]] = f[k][1] /\ Len(f[k]) = 1
      /\ b[m] \in 1..(Len(N) + 1)
      /\ Stops(F, N, a[k], b[m]) <=> Len(n[m]) = 0
  BY <1>2, WildcardStops
<1>4. a[k] + 1 = Len(F) + 1
  <2>1. a[k] + Len(f[k]) = Len(F) + 1
    BY <1>1, <1>2, Places
  <2> QED BY <1>3, <2>1
<1> HIDE DEF F, N
<1>5. Reaches(w, F, N, a[k], b[m])
        <=> /\ ~Stops(F, N, a[k], b[m])
            /\ Reaches(w, F, N, a[k] + 1, After(F, N, a[k], b[m]))
  BY <1>1, <1>3, WalkStep
<1>6. After(F, N, a[k], b[m]) = Len(N) + 1
  <2>1. F[a[k]] = "#"
    BY <1>3
  <2> QED BY <2>1 DEF After
<1>7. Reaches(w, F, N, Len(F) + 1, Len(N) + 1)
  <2>1. Len(N) + 1 \in 1..(Len(N) + 1)
    BY <1>1
  <2> QED BY <1>1, <2>1, WalkEnd
<1>8. Reaches(w, F, N, a[k], b[m]) <=> Len(n[m]) # 0
  BY <1>3, <1>4, <1>5, <1>6, <1>7
<1> QED BY <1>8 DEF F, N, k

\* A level of the filter fits one of the name.
Fits(u, v) == IF IsPlain(u) THEN u = v ELSE Len(v) # 0

\* A plain level that agrees with the name's text up to a separator, or up to
\* the end, is the name's level.
LEMMA SameLevel ==
  ASSUME NEW f \in Topics, NEW k \in 1..Len(f),
         NEW n \in Topics, NEW b, Layout(n, b), NEW m \in 1..Len(n),
         \A i \in 1..Len(f[k]) : /\ b[m] + i - 1 <= Len(Text(n))
                                 /\ Text(n)[b[m] + i - 1] = f[k][i],
         \/ b[m] + Len(f[k]) = Len(Text(n)) + 1
         \/ /\ b[m] + Len(f[k]) <= Len(Text(n))
            /\ Text(n)[b[m] + Len(f[k])] = Separator
  PROVE  f[k] = n[m]
<1>1. /\ f[k] \in Seq(STRING) /\ Len(f[k]) \in Nat
      /\ \A i \in 1..Len(f[k]) : f[k][i] # Separator
  BY TopicLevels
<1>2. n[m] \in Seq(STRING)
  BY TopicLevels
<1>3. Len(f[k]) = Len(n[m])
  <2>1. \A i \in 1..Len(f[k]) : /\ b[m] + i - 1 <= Len(Text(n))
                               /\ Text(n)[b[m] + i - 1] # Separator
    BY <1>1
  <2> DEFINE l == Len(f[k])
  <2>2. /\ l \in Nat
        /\ \A i \in 1..l : b[m] + i - 1 <= Len(Text(n)) /\ Text(n)[b[m] + i - 1] # Separator
        /\ \/ b[m] + l = Len(Text(n)) + 1
           \/ b[m] + l <= Len(Text(n)) /\ Text(n)[b[m] + l] = Separator
    BY <1>1, <2>1
  <2> HIDE DEF l
  <2>3. l = Len(n[m])
    BY <2>2, LevelLength
  <2> QED BY <2>3 DEF l
<1>4. \A i \in 1..Len(n[m]) : Text(n)[b[m] + i - 1] = n[m][i]
  BY Places
<1>5. \A i \in 1..Len(f[k]) : f[k][i] = n[m][i]
  BY <1>3, <1>4
<1>6. \A s, t \in Seq(STRING) :
        Len(s) = Len(t) /\ (\A i \in 1..Len(s) : s[i] = t[i]) => s = t
  OBVIOUS
<1> QED BY <1>1, <1>2, <1>3, <1>5, <1>6

\* A level in the middle of the filter, without '#': the walk goes on with the
\* next level of both exactly if it fits.
LEMMA LevelWalk ==
  ASSUME NEW f \in Filters, NEW n \in Names, NEW a, NEW b, NEW w, Walked(w, f, n, a, b),
         NEW k \in 1..Len(f), k # Len(f), NEW m \in 1..Len(n)
  PROVE  Reaches(w, Text(f), Text(n), a[k], b[m])
           <=> /\ m # Len(n) /\ Fits(f[k], n[m])
               /\ Reaches(w, Text(f), Text(n), a[k + 1], b[m + 1])
<1> DEFINE F == Text(f)
           N == Text(n)
           R(i, j) == Reaches(w, F, N, i, j)
           l == Len(f[k])
           e == Len(n[m])
           q == b[m]
<1>1. f \in Topics /\ n \in Topics /\ Layout(f, a) /\ Layout(n, b)
  BY WalkedTexts
<1>2. l \in Nat
  BY <1>1, TopicLevels
<1>3. /\ Len(N) \in Nat /\ q \in Nat /\ q >= 1 /\ e \in Nat /\ q + e - 1 <= Len(N)
      /\ \A i \in 1..e : N[q + i - 1] = n[m][i]
      /\ m = Len(n) => q + e = Len(N) + 1
      /\ m # Len(n) => q + e <= Len(N) /\ N[q + e] = Separator /\ b[m + 1] = q + e + 1
  BY <1>1, Places
<1>4. ASSUME NEW j \in 1..(Len(N) + 1)
      PROVE  R(a[k] + l, j) <=> j <= Len(N) /\ N[j] = Separator /\ R(a[k + 1], j + 1)
  BY SeparatorWalk
<1>5. CASE IsPlain(f[k])
  <2> DEFINE Agree == \A i \in 1..l : q + i - 1 <= Len(N) /\ N[q + i - 1] = f[k][i]
  <2>1. R(a[k], q) <=> Agree /\ R(a[k] + l, q + l)
    <3>1. q \in 1..(Len(N) + 1)
      BY <1>3
    <3> QED BY <1>5, <3>1, PlainWalk
  <2>2. ASSUME Agree
        PROVE  q + l \in 1..(Len(N) + 1)
    <3> HIDE DEF F, N, l, q, e
    <3>1. CASE l = 0
      BY <1>3, <3>1
    <3>2. CASE l # 0
      <4>1. l \in 1..l /\ q + l - 1 <= Len(N)
        BY <1>2, <2>2, <3>2
      <4> QED BY <1>2, <1>3, <4>1
    <3> QED BY <3>1, <3>2
  <2>3. ASSUME Agree, q + l <= Len(N), N[q + l] = Separator
        PROVE  f[k] = n[m] /\ m # Len(n)
    <3>1. f[k] = n[m]
      BY <1>1, <2>3, SameLevel
    <3>2. m # Len(n)
      <4> HIDE DEF F, N, q
      <4> QED BY <1>3, <2>3, <3>1
    <3> QED BY <3>1, <3>2
  <2>4. ASSUME f[k] = n[m], m # Len(n)
        PROVE  /\ Agree /\ q + l <= Len(N) /\ N[q + l] = Separator
               /\ b[m + 1] = q + l + 1
    <3>1. l = e
      BY <2>4
    <3> HIDE DEF F, N, l, q, e
    <3>2. Agree
      <4> TAKE i \in 1..l
      <4>1. q + i - 1 <= Len(N)
        BY <1>3, <3>1
      <4> QED BY <1>3, <2>4, <3>1, <4>1
    <3> QED BY <1>3, <2>4, <3>1, <3>2
  <2>5. Fits(f[k], n[m]) <=> f[k] = n[m]
    BY <1>5 DEF Fits
  <2> HIDE DEF F, N, R, l, q, e, Agree
  <2>6. ASSUME R(a[k], q)
        PROVE  m # Len(n) /\ f[k] = n[m] /\ R(a[k + 1], b[m + 1])
    <3>1. Agree /\ q + l <= Len(N) /\ N[q + l] = Separator /\ R(a[k + 1], (q + l) + 1)
      BY <1>4, <2>1, <2>2, <2>6
    <3> QED BY <2>3, <2>4, <3>1
  <2>7. ASSUME m # Len(n), f[k] = n[m], R(a[k + 1], b[m + 1])
        PROVE  R(a[k], q)
    <3>1. /\ Agree /\ q + l <= Len(N) /\ N[q + l] = Separator
          /\ R(a[k + 1], (q + l) + 1)
      BY <2>4, <2>7
    <3> QED BY <1>4, <2>1, <2>2, <3>1
  <2>8. R(a[k], q) <=> m # Len(n) /\ Fits(f[k], n[m]) /\ R(a[k + 1], b[m + 1])
    BY <2>5, <2>6, <2>7
  <2> QED BY <2>8 DEF R, F, N, q
<1>6. CASE ~IsPlain(f[k])
  <2>1. IsWildcard(f[k]) /\ f[k][1] = "+"
    <3>1. f[k] = <<"+">>
      BY <1>6, FilterLevels
    <3> QED BY <3>1 DEF IsWildcard
  <2>2. R(a[k], q) <=> e # 0 /\ R(a[k] + l, q + e)
    BY <2>1, PlusWalk
  <2>3. Fits(f[k], n[m]) <=> e # 0
    BY <1>6 DEF Fits
  <2> HIDE DEF F, N, R, l, q, e
  <2>4. q + e \in 1..(Len(N) + 1)
    BY <1>3
  <2>5. R(a[k] + l, q + e)
          <=> q + e <= Len(N) /\ N[q + e] = Separator /\ R(a[k + 1], q + e + 1)
    BY <1>4, <2>4
  <2>6. R(a[k], q) <=> m # Len(n) /\ Fits(f[k], n[m]) /\ R(a[k + 1], b[m + 1])
    <3>1. CASE m = Len(n)
      <4>1. ~(q + e <= Len(N))
        BY <1>3, <3>1
      <4> QED BY <2>2, <2>5, <3>1, <4>1
    <3>2. CASE m # Len(n)
      BY <1>3, <2>2, <2>3, <2>5, <3>2
    <3> QED BY <3>1, <3>2
  <2> QED BY <2>6 DEF R, F, N, q
<1> QED BY <1>5, <1>6

\* The last level of a filter without '#': the walk reaches both ends exactly if
\* it fits the name's last.
LEMMA LastWalk ==
  ASSUME NEW f \in Filters, NEW n \in Names, NEW a, NEW b, NEW w, Walked(w, f, n, a, b),
         f[Len(f)] # <<"#">>, NEW m \in 1..Len(n)
  PROVE  Reaches(w, Text(f), Text(n), a[Len(f)], b[m])
           <=> m = Len(n) /\ Fits(f[Len(f)], n[m])
<1> DEFINE k == Len(f)
           F == Text(f)
           N == Text(n)
           R(i, j) == Reaches(w, F, N, i, j)
           l == Len(f[k])
           e == Len(n[m])
           q == b[m]
<1>1. /\ f \in Topics /\ n \in Topics /\ Layout(f, a) /\ Layout(n, b)
      /\ F \in Seq(Char) /\ N \in Seq(Char) /\ IsWalk(w, F, N)
  BY WalkedTexts
<1>2. k \in 1..Len(f) /\ k = Len(f) /\ l \in Nat
  BY <1>1, TopicLevels
<1>3. /\ Len(N) \in Nat /\ q \in Nat /\ q >= 1 /\ e \in Nat /\ q + e - 1 <= Len(N)
      /\ \A i \in 1..e : N[q + i - 1] = n[m][i]
      /\ m = Len(n) => q + e = Len(N) + 1
      /\ m # Len(n) => q + e <= Len(N) /\ N[q + e] = Separator
  BY <1>1, Places
<1>4. ASSUME NEW j \in 1..(Len(N) + 1)
      PROVE  R(a[k] + l, j) <=> j = Len(N) + 1
  <2>1. a[k] + l = Len(F) + 1
    BY <1>1, <1>2, Places
  <2> HIDE DEF F, N, l
  <2>2. Reaches(w, F, N, Len(F) + 1, j) <=> j = Len(N) + 1
    BY <1>1, WalkEnd
  <2> QED BY <2>1, <2>2
<1>5. CASE IsPlain(f[k])
  <2> DEFINE Agree == \A i \in 1..l : q + i - 1 <= Len(N) /\ N[q + i - 1] = f[k][i]
  <2>1. R(a[k], q) <=> Agree /\ R(a[k] + l, q + l)
    <3>1. q \in 1..(Len(N) + 1)
      BY <1>3
    <3> QED BY <1>2, <1>5, <3>1, PlainWalk
  <2>2. ASSUME Agree
        PROVE  q + l \in 1..(Len(N) + 1)
    <3> HIDE DEF F, N, l, q, e
    <3>1. CASE l = 0
      BY <1>3, <3>1
    <3>2. CASE l # 0
      <4>1. l \in 1..l /\ q + l - 1 <= Len(N)
        BY <1>2, <2>2, <3>2
      <4> QED BY <1>2, <1>3, <4>1
    <3> QED BY <3>1, <3>2
  <2>3. ASSUME Agree, q + l = Len(N) + 1
        PROVE  f[k] = n[m] /\ m = Len(n)
    <3>1. f[k] = n[m]
      <4> HIDE DEF k
      <4> QED BY <1>1, <1>2, <2>3, SameLevel
    <3>2. m = Len(n)
      <4> HIDE DEF F, N, q
      <4> QED BY <1>3, <2>3, <3>1
    <3> QED BY <3>1, <3>2
  <2>4. ASSUME f[k] = n[m], m = Len(n)
        PROVE  Agree /\ q + l = Len(N) + 1
    <3>1. l = e
      BY <2>4
    <3> HIDE DEF F, N, l, q, e
    <3>2. Agree
      <4> TAKE i \in 1..l
      <4>1. q + i - 1 <= Len(N)
        BY <1>3, <3>1
      <4> QED BY <1>3, <2>4, <3>1, <4>1
    <3> QED BY <1>3, <2>4, <3>1, <3>2
  <2>5. Fits(f[k], n[m]) <=> f[k] = n[m]
    BY <1>5 DEF Fits
  <2> HIDE DEF F, N, R, l, q, e, Agree
  <2>6. R(a[k], q) <=> m = Len(n) /\ Fits(f[k], n[m])
    BY <1>4, <2>1, <2>2, <2>3, <2>4, <2>5
  <2> QED BY <2>6 DEF R, F, N, q, k
<1>6. CASE ~IsPlain(f[k])
  <2>1. IsWildcard(f[k]) /\ f[k][1] = "+"
    <3>1. f[k] = <<"+">>
      BY <1>2, <1>6, FilterLevels
    <3> QED BY <3>1 DEF IsWildcard
  <2>2. R(a[k], q) <=> e # 0 /\ R(a[k] + l, q + e)
    BY <1>2, <2>1, PlusWalk
  <2>3. Fits(f[k], n[m]) <=> e # 0
    BY <1>6 DEF Fits
  <2> HIDE DEF F, N, R, l, q, e
  <2>4. q + e \in 1..(Len(N) + 1)
    BY <1>3
  <2>5. R(a[k] + l, q + e) <=> q + e = Len(N) + 1
    BY <1>4, <2>4
  <2>6. R(a[k], q) <=> m = Len(n) /\ Fits(f[k], n[m])
    BY <1>3, <2>2, <2>3, <2>5
  <2> QED BY <2>6 DEF R, F, N, q, k
<1> QED BY <1>5, <1>6
-----------------------------------------------------------------------------
(* The comparison by characters against the rule by levels.                *)

\* A plain level is no wildcard.
LEMMA WildcardsNotPlain ==
  /\ ~IsPlain(<<"+">>) /\ ~IsPlain(<<"#">>)
<1>1. 1 \in 1..Len(<<"+">>) /\ <<"+">>[1] = "+"
  OBVIOUS
<1>2. 1 \in 1..Len(<<"#">>) /\ <<"#">>[1] = "#"
  OBVIOUS
<1> QED BY <1>1, <1>2 DEF IsPlain

\* What the rule says of the levels before a '#'.
LEMMA FitsMatches ==
  ASSUME NEW f \in Filters, NEW k \in 1..Len(f), f[k] # <<"#">>, NEW v
  PROVE  /\ Fits(f[k], v) => f[k] = <<"+">> \/ f[k] = v
         /\ (f[k] = <<"+">> \/ f[k] = v) /\ Len(v) # 0 => Fits(f[k], v)
<1> DEFINE u == f[k]
<1>1. u = <<"+">> \/ IsPlain(u)
  BY FilterLevels
<1>2. IsPlain(u) => u # <<"+">>
  <2> HIDE DEF u
  <2> QED BY WildcardsNotPlain
<1> HIDE DEF u
<1>3. /\ Fits(u, v) => u = <<"+">> \/ u = v
      /\ (u = <<"+">> \/ u = v) /\ Len(v) # 0 => Fits(u, v)
  BY <1>1, <1>2, Zenon DEF Fits
<1> QED BY <1>3 DEF u

\* Where both texts begin, and that the walk begins there.
LEMMA WalkBegins ==
  ASSUME NEW f \in Filters, NEW n \in Names
  PROVE  \E a, b, w :
           /\ Walked(w, f, n, a, b) /\ a[1] = 1 /\ b[1] = 1
           /\ isTopicMatched(Text(f), Text(n)) <=> Reaches(w, Text(f), Text(n), 1, 1)
<1>1. f \in Topics /\ n \in Topics
  BY DEF Topics
<1>2. PICK a : Layout(f, a)
  BY <1>1, TextLayout
<1>3. PICK b : Layout(n, b)
  BY <1>1, TextLayout
<1>4. 1 \in 1..Len(f) /\ 1 \in 1..Len(n)
  BY <1>1, TopicLevels
<1>5. Text(f) \in Seq(Char) /\ Text(n) \in Seq(Char) /\ a[1] = 1 /\ b[1] = 1
  BY <1>1, <1>2, <1>3, <1>4, Places
<1>6. PICK w : IsWalk(w, Text(f), Text(n)) /\ Walk(Text(f), Text(n)) = w[1][1]
  BY <1>5, WalkUnfolds
<1>7. Walked(w, f, n, a, b)
  BY <1>2, <1>3, <1>6 DEF Walked
<1>8. isTopicMatched(Text(f), Text(n)) <=> Reaches(w, Text(f), Text(n), 1, 1)
  BY <1>6 DEF isTopicMatched, Reaches
<1> QED BY <1>5, <1>7, <1>8

\* isTopicMatched never matches what the rule does not.
LEMMA MatchedOnly ==
  ASSUME NEW f \in Filters, NEW n \in Names, isTopicMatched(Text(f), Text(n))
  PROVE  Matches(f, n)
<1>1. PICK a, b, w :
        /\ Walked(w, f, n, a, b) /\ a[1] = 1 /\ b[1] = 1
        /\ isTopicMatched(Text(f), Text(n)) <=> Reaches(w, Text(f), Text(n), 1, 1)
  BY WalkBegins
<1> DEFINE R(i, j) == Reaches(w, Text(f), Text(n), i, j)
           last == Len(f)
           Good == {d \in 0..(last - 1) :
                     /\ d + 1 <= Len(n) /\ R(a[d + 1], b[d + 1])
                     /\ \A i \in 1..d : Fits(f[i], n[i])}
<1>2. /\ last \in Nat /\ last >= 1 /\ Len(n) \in Nat /\ Len(n) >= 1
      /\ last \in 1..Len(f) /\ last = Len(f)
  <2>1. f \in Topics /\ n \in Topics
    BY DEF Topics
  <2> QED BY <2>1, TopicLevels
<1>3. 0 \in Good
  <2>1. R(1, 1) /\ 0 + 1 = 1 /\ 0 \in 0..(last - 1) /\ \A i \in 1..0 : FALSE
    BY <1>1, <1>2
  <2> HIDE DEF R, last
  <2> QED BY <1>1, <1>2, <2>1
<1>4. ASSUME NEW d \in 1..(last - 1), d - 1 \in Good
      PROVE  d \in Good
  <2>1. /\ (d - 1) + 1 = d /\ d \in 0..(last - 1) /\ d \in 1..Len(f) /\ d # Len(f)
        /\ 1..d = (1..(d - 1)) \cup {d} /\ d \in Nat
    BY <1>2
  <2>2. d <= Len(n) /\ R(a[d], b[d]) /\ \A i \in 1..(d - 1) : Fits(f[i], n[i])
    BY <1>4, <2>1
  <2>3. d \in 1..Len(n)
    BY <1>2, <2>1, <2>2
  <2>4. d # Len(n) /\ Fits(f[d], n[d]) /\ R(a[d + 1], b[d + 1])
    BY <1>1, <2>1, <2>2, <2>3, LevelWalk
  <2>5. d + 1 <= Len(n)
    BY <1>2, <2>3, <2>4
  <2>6. \A i \in 1..d : Fits(f[i], n[i])
    BY <2>1, <2>2, <2>4
  <2> HIDE DEF R, last
  <2> QED BY <2>1, <2>4, <2>5, <2>6
<1> HIDE DEF Good
<1>5. last - 1 \in Good
  <2>1. last - 1 \in Nat
    BY <1>2
  <2>2. 0..(last - 1) \subseteq Good
    BY <1>3, <1>4, <2>1, Induction
  <2> QED BY <2>1, <2>2
<1>6. /\ last <= Len(n) /\ R(a[last], b[last])
      /\ \A i \in 1..(last - 1) : Fits(f[i], n[i])
  <2>1. (last - 1) + 1 = last
    BY <1>2
  <2> HIDE DEF last, R
  <2> QED BY <1>5, <2>1 DEF Good
<1>7. \A i \in 1..(last - 1) : f[i] = <<"+">> \/ f[i] = n[i]
  <2> TAKE i \in 1..(last - 1)
  <2>1. i \in 1..Len(f) /\ i # Len(f) /\ Fits(f[i], n[i])
    BY <1>2, <1>6
  <2>2. f[i] = <<"+">> \/ IsPlain(f[i])
    BY <2>1, FilterLevels
  <2> QED BY <2>1, <2>2, Zenon DEF Fits
<1>8. CASE f[last] = <<"#">>
  <2>1. Len(n) > last - 1
    BY <1>2, <1>6
  <2> QED BY <1>7, <1>8, <2>1 DEF Matches
<1>9. CASE f[last] # <<"#">>
  <2>1. last \in 1..Len(n)
    BY <1>2, <1>6
  <2>2. last = Len(n) /\ Fits(f[last], n[last])
    BY <1>1, <1>6, <1>9, <2>1, LastWalk
  <2>3. f[last] = <<"+">> \/ f[last] = n[last]
    BY <1>2, <1>9, <2>2, FitsMatches
  <2>4. \A i \in 1..last : i = last \/ i \in 1..(last - 1)
    BY <1>2
  <2>5. \A i \in 1..last : f[i] = <<"+">> \/ f[i] = n[i]
    BY <1>7, <2>3, <2>4
  <2> QED BY <1>9, <2>2, <2>5 DEF Matches
<1> QED BY <1>8, <1>9

\* isTopicMatched matches what the rule does, but for empty levels and a '#'
\* that stands for nothing.
LEMMA MatchedAll ==
  ASSUME NEW f \in Filters, NEW n \in Names, Matches(f, n), Ordinary(f, n)
  PROVE  isTopicMatched(Text(f), Text(n))
<1>1. PICK a, b, w :
        /\ Walked(w, f, n, a, b) /\ a[1] = 1 /\ b[1] = 1
        /\ isTopicMatched(Text(f), Text(n)) <=> Reaches(w, Text(f), Text(n), 1, 1)
  BY WalkBegins
<1> DEFINE R(i, j) == Reaches(w, Text(f), Text(n), i, j)
           last == Len(f)
           rest == f[last] = <<"#">>
           levels == IF rest THEN last - 1 ELSE last
           Good == {d \in 0..(last - 1) : R(a[last - d], b[last - d])}
<1>2. /\ last \in Nat /\ last >= 1 /\ Len(n) \in Nat /\ Len(n) >= 1
      /\ last \in 1..Len(f) /\ last = Len(f)
      /\ \A i \in 1..Len(n) : Len(n[i]) # 0
  <2>1. f \in Topics /\ n \in Topics
    BY DEF Topics
  <2>2. \A i \in 1..Len(n) : n[i] \in Seq(STRING) /\ n[i] # << >>
    BY <2>1, TopicLevels DEF Ordinary
  <2>3. \A s \in Seq(STRING) : s # << >> => Len(s) # 0
    OBVIOUS
  <2>4. \A i \in 1..Len(n) : Len(n[i]) # 0
    BY <2>2, <2>3
  <2> QED BY <2>1, <2>4, TopicLevels
<1>3. /\ Len(n) = levels \/ (rest /\ Len(n) > levels)
      /\ \A i \in 1..levels : f[i] = <<"+">> \/ f[i] = n[i]
      /\ rest => Len(n) >= last
  BY DEF Matches, Ordinary
<1>4. last <= Len(n) /\ (~rest => last = Len(n))
  <2> HIDE DEF rest, last
  <2> QED BY <1>2, <1>3
<1>5. ASSUME NEW i \in 1..levels
      PROVE  Fits(f[i], n[i])
  <2>1. i \in 1..Len(f) /\ i \in 1..Len(n) /\ i \in Nat
    <3> HIDE DEF rest
    <3> QED BY <1>2, <1>4
  <2>2. f[i] # <<"#">>
    <3>1. CASE rest
      <4>1. i # Len(f)
        BY <1>2, <3>1
      <4>2. f[i] = <<"+">> \/ IsPlain(f[i])
        BY <2>1, <4>1, FilterLevels
      <4>3. <<"+">> # <<"#">>
        <5>1. <<"+">>[1] # <<"#">>[1]
          OBVIOUS
        <5> QED BY <5>1
      <4> QED BY <4>2, <4>3, WildcardsNotPlain
    <3>2. CASE ~rest /\ i = last
      BY <3>2
    <3>3. CASE ~rest /\ i # last
      <4>1. f[i] = <<"+">> \/ IsPlain(f[i])
        BY <2>1, <3>3, FilterLevels
      <4>2. <<"+">> # <<"#">>
        <5>1. <<"+">>[1] # <<"#">>[1]
          OBVIOUS
        <5> QED BY <5>1
      <4> QED BY <4>1, <4>2, WildcardsNotPlain
    <3> QED BY <3>1, <3>2, <3>3
  <2>3. f[i] = <<"+">> \/ f[i] = n[i]
    BY <1>3
  <2>4. Len(n[i]) # 0
    BY <1>2, <2>1
  <2> QED BY <2>1, <2>2, <2>3, <2>4, FitsMatches
<1>6. R(a[last], b[last])
  <2>1. last \in 1..Len(n)
    BY <1>2, <1>4
  <2>2. CASE rest
    <3>1. IsWildcard(f[Len(f)]) /\ f[Len(f)][1] = "#"
      BY <2>2 DEF IsWildcard
    <3>2. Len(n[last]) # 0
      BY <1>2, <2>1
    <3> QED BY <1>1, <2>1, <3>1, <3>2, HashWalk
  <2>3. CASE ~rest
    <3>1. Fits(f[last], n[last])
      BY <1>2, <1>5, <2>3
    <3>2. last = Len(n)
      BY <1>4, <2>3
    <3> QED BY <1>1, <2>1, <2>3, <3>1, <3>2, LastWalk
  <2> QED BY <2>2, <2>3
<1>7. 0 \in Good
  <2>1. 0 \in 0..(last - 1) /\ last - 0 = last
    BY <1>2
  <2> HIDE DEF last, R
  <2> QED BY <1>6, <2>1
<1>8. ASSUME NEW d \in 1..(last - 1), d - 1 \in Good
      PROVE  d \in Good
  <2> DEFINE k == last - d
  <2>1. /\ last - (d - 1) = k + 1 /\ d \in 0..(last - 1) /\ k \in 1..Len(f) /\ k # Len(f)
        /\ k \in 1..levels /\ k \in 1..Len(n) /\ k # Len(n)
    <3> HIDE DEF rest
    <3> QED BY <1>2, <1>4
  <2>2. Fits(f[k], n[k])
    BY <1>5, <2>1
  <2>3. R(a[k + 1], b[k + 1])
    <3> HIDE DEF R, k, last
    <3> QED BY <1>8, <2>1
  <2> HIDE DEF k
  <2>4. R(a[k], b[k])
    BY <1>1, <2>1, <2>2, <2>3, LevelWalk
  <2> HIDE DEF R, last
  <2> QED BY <2>1, <2>4 DEF k
<1> HIDE DEF Good
<1>9. last - 1 \in Good
  <2>1. last - 1 \in Nat
    BY <1>2
  <2>2. 0..(last - 1) \subseteq Good
    BY <1>7, <1>8, <2>1, Induction
  <2> QED BY <2>1, <2>2
<1>10. R(a[1], b[1])
  <2>1. last - (last - 1) = 1
    BY <1>2
  <2> HIDE DEF R, last
  <2> QED BY <1>9, <2>1 DEF Good
<1> QED BY <1>1, <1>10

\* The first d levels of f and n are the same, and the next ones begin at the
\* same place.
Agree(f, n, a, b, d) ==
  /\ d + 1 <= Len(n) /\ a[d + 1] = b[d + 1]
  /\ \A i \in 1..d : f[i] = n[i]

\* Two topics with the same text agree in the level that follows those that
\* they agree in, and end together.
LEMMA AgreeNext ==
  ASSUME NEW f \in Topics, NEW n \in Topics, NEW a, NEW b, Layout(f, a), Layout(n, b),
         Text(f) = Text(n), NEW k \in 1..Len(f), k \in 1..Len(n), a[k] = b[k]
  PROVE  /\ f[k] = n[k]
         /\ k = Len(f) => k = Len(n)
         /\ k # Len(f) => /\ k + 1 \in 1..Len(n) /\ a[k + 1] = b[k + 1]
<1> DEFINE text == Text(f)
<1>1. /\ Len(text) \in Nat /\ a[k] \in Nat /\ a[k] >= 1 /\ Len(f[k]) \in Nat
      /\ a[k] + Len(f[k]) - 1 <= Len(text)
      /\ \A i \in 1..Len(f[k]) : text[a[k] + i - 1] = f[k][i]
      /\ k = Len(f) => a[k] + Len(f[k]) = Len(text) + 1
      /\ k # Len(f) => /\ a[k] + Len(f[k]) <= Len(text)
                       /\ text[a[k] + Len(f[k])] = Separator
                       /\ a[k + 1] = a[k] + Len(f[k]) + 1
  BY Places
<1>2. /\ k = Len(n) => b[k] + Len(n[k]) = Len(text) + 1
      /\ k # Len(n) => /\ b[k] + Len(n[k]) <= Len(text)
                       /\ k + 1 \in 1..Len(n)
                       /\ b[k + 1] = b[k] + Len(n[k]) + 1
  BY Places
<1>3. f[k] = n[k]
  <2>1. \A i \in 1..Len(f[k]) : /\ b[k] + i - 1 <= Len(Text(n))
                                /\ Text(n)[b[k] + i - 1] = f[k][i]
    <3> TAKE i \in 1..Len(f[k])
    <3>1. a[k] + i - 1 <= Len(text)
      <4> HIDE DEF text
      <4> QED BY <1>1
    <3> QED BY <1>1, <3>1
  <2>2. \/ b[k] + Len(f[k]) = Len(Text(n)) + 1
        \/ /\ b[k] + Len(f[k]) <= Len(Text(n))
           /\ Text(n)[b[k] + Len(f[k])] = Separator
    BY <1>1
  <2>3. CASE b[k] + Len(f[k]) = Len(Text(n)) + 1
    BY ONLY <2>1, <2>3, SameLevel, f \in Topics, n \in Topics, Layout(n, b),
            k \in 1..Len(f), k \in 1..Len(n)
  <2>4. CASE /\ b[k] + Len(f[k]) <= Len(Text(n))
             /\ Text(n)[b[k] + Len(f[k])] = Separator
    BY ONLY <2>1, <2>4, SameLevel, f \in Topics, n \in Topics, Layout(n, b),
            k \in 1..Len(f), k \in 1..Len(n)
  <2> QED BY <2>2, <2>3, <2>4
<1> HIDE DEF text
<1>4. k = Len(f) => k = Len(n)
  BY <1>1, <1>2, <1>3
<1>5. k # Len(f) => k # Len(n)
  BY <1>1, <1>2, <1>3
<1> QED BY <1>1, <1>2, <1>3, <1>4, <1>5

\* A filter with the text of a name matches it, which is the comparison that
\* deliverMessage makes before it calls isTopicMatched.
LEMMA EqualTexts ==
  ASSUME NEW f \in Filters, NEW n \in Names, Text(f) = Text(n)
  PROVE  Matches(f, n)
<1>1. f \in Topics /\ n \in Topics
  BY DEF Topics
<1> DEFINE last == Len(f)
<1>2. /\ last \in Nat /\ last >= 1 /\ Len(n) \in Nat /\ Len(n) >= 1 /\ last = Len(f)
  BY <1>1, TopicLevels
<1>3. PICK a : Layout(f, a)
  BY <1>1, TextLayout
<1>4. PICK b : Layout(n, b)
  BY <1>1, TextLayout
<1> DEFINE Good == {d \in 0..(last - 1) : Agree(f, n, a, b, d)}
<1>5. 0 \in Good
  <2>1. a[1] = 1 /\ b[1] = 1
    BY <1>1, <1>2, <1>3, <1>4, Places
  <2>2. 0 + 1 = 1 /\ 0 \in 0..(last - 1) /\ \A i \in 1..0 : FALSE
    BY <1>2
  <2> QED BY <1>2, <2>1, <2>2 DEF Agree
<1>6. ASSUME NEW d \in 1..(last - 1), d - 1 \in Good
      PROVE  d \in Good
  <2>1. /\ (d - 1) + 1 = d /\ d \in 0..(last - 1) /\ d \in 1..Len(f) /\ d # Len(f)
        /\ 1..d = (1..(d - 1)) \cup {d} /\ d \in Nat
    BY <1>2
  <2>2. d <= Len(n) /\ a[d] = b[d] /\ \A i \in 1..(d - 1) : f[i] = n[i]
    BY <1>6, <2>1 DEF Agree
  <2>3. d \in 1..Len(n)
    BY <1>2, <2>1, <2>2
  <2>4. f[d] = n[d] /\ d + 1 \in 1..Len(n) /\ a[d + 1] = b[d + 1]
    BY <1>1, <1>3, <1>4, <2>1, <2>2, <2>3, AgreeNext
  <2>5. d + 1 <= Len(n)
    BY <1>2, <2>4
  <2>6. \A i \in 1..d : f[i] = n[i]
    BY <2>1, <2>2, <2>4
  <2> HIDE DEF last
  <2> QED BY <2>1, <2>4, <2>5, <2>6 DEF Agree
<1>7. Agree(f, n, a, b, last - 1)
  <2> HIDE DEF Good
  <2>1. last - 1 \in Nat
    BY <1>2
  <2>2. 0..(last - 1) \subseteq Good
    BY <1>5, <1>6, <2>1, Induction
  <2>3. last - 1 \in Good
    BY <2>1, <2>2
  <2> QED BY <2>3 DEF Good
<1>8. last <= Len(n) /\ a[last] = b[last] /\ \A i \in 1..(last - 1) : f[i] = n[i]
  <2>1. (last - 1) + 1 = last
    BY <1>2
  <2> HIDE DEF last
  <2> QED BY <1>7, <2>1 DEF Agree
<1>9. f[last] = n[last] /\ last = Len(n)
  <2>1. last \in 1..Len(f) /\ last \in 1..Len(n)
    BY <1>2, <1>8
  <2> QED BY <1>1, <1>3, <1>4, <1>8, <2>1, AgreeNext
<1>10. \A i \in 1..last : f[i] = n[i]
  <2>1. \A i \in 1..last : i = last \/ i \in 1..(last - 1)
    BY <1>2
  <2> QED BY <1>8, <1>9, <2>1
<1>11. \A i \in 1..(last - 1) : i \in 1..last
  BY <1>2
<1>12. Len(n) > last - 1
  BY <1>2, <1>9
<1> QED BY <1>9, <1>10, <1>11, <1>12 DEF Matches
-----------------------------------------------------------------------------
(* The table.                                                              *)

\* The slots have the first filters that were granted, in their order, and
\* the handlers called last are those of the slots that the code finds in the
\* table as it is now: no step changes the table and keeps the name.
TableInv ==
  /\ granted \in Seq(Filters)
  /\ messageHandlers =
       [s \in Slots |-> IF s \in 1..Len(granted) THEN granted[s] ELSE NoFilter]
  /\ \/ name = << >> /\ called = {}
     \/ name \in Names /\ called = Matching(name)

\* No filter and no name is empty, so that NoFilter is none of them.
LEMMA TopicsNotEmpty ==
  NoFilter \notin Filters /\ << >> \notin Names
BY DeliveryAssumption DEF NoFilter

\* A slot is in use exactly when it is the number of a granted subscription.
LEMMA UsedSlots ==
  ASSUME TableInv, NEW s \in Slots
  PROVE  /\ Len(granted) \in Nat
         /\ messageHandlers[s] # NoFilter <=> s \in 1..Len(granted)
         /\ s \in 1..Len(granted) => /\ messageHandlers[s] = granted[s]
                                     /\ granted[s] \in Filters
<1>1. Len(granted) \in Nat /\ \A k \in 1..Len(granted) : granted[k] \in Filters
  BY DEF TableInv
<1>2. messageHandlers[s] = IF s \in 1..Len(granted) THEN granted[s] ELSE NoFilter
  BY DEF TableInv
<1> QED BY <1>1, <1>2, TopicsNotEmpty

\* A subscription takes the first free slot, the one after those in use, and
\* when there is none the table stays as it is.
LEMMA SubscribeKeepsTable ==
  ASSUME TableInv, NEW f \in Filters, Subscribe(f)
  PROVE  TableInv'
<1> DEFINE len == Len(granted)
           free == {s \in Slots : messageHandlers[s] = NoFilter}
<1>1. /\ len \in Nat /\ granted \in Seq(Filters)
      /\ granted' = Append(granted, f) /\ name' = << >> /\ called' = {}
      /\ messageHandlers =
           [s \in Slots |-> IF s \in 1..len THEN granted[s] ELSE NoFilter]
  BY DEF TableInv, Subscribe, NothingDelivered
<1>2. /\ granted' \in Seq(Filters) /\ Len(granted') = len + 1 /\ granted'[len + 1] = f
      /\ \A s \in 1..len : granted'[s] = granted[s]
  BY <1>1
<1>3. MAX_MESSAGE_HANDLERS \in Nat
  BY DeliveryAssumption
<1>4. \A s \in Slots : s \in free <=> s > len
  <2> TAKE s \in Slots
  <2>1. messageHandlers[s] # NoFilter <=> s \in 1..len
    BY UsedSlots
  <2>2. s \in Nat /\ s >= 1
    BY <1>3 DEF Slots
  <2> HIDE DEF len
  <2> QED BY <1>1, <2>1, <2>2
<1>5. messageHandlers' =
        [s \in Slots |-> IF s \in 1..(len + 1) THEN granted'[s] ELSE NoFilter]
  <2>1. CASE free = {}
    <3>1. messageHandlers' = messageHandlers
      BY <2>1 DEF Subscribe, Install
    <3>2. \A s \in Slots : s \in 1..len /\ s \in 1..(len + 1)
      <4> TAKE s \in Slots
      <4>1. ~(s > len) /\ s \in Nat /\ s >= 1
        BY <1>3, <1>4, <2>1 DEF Slots
      <4> HIDE DEF len
      <4> QED BY <1>1, <4>1
    <3> HIDE DEF len
    <3> QED BY <1>1, <1>2, <3>1, <3>2
  <2>2. CASE free # {}
    <3>1. PICK s \in free : /\ \A t \in free : s <= t
                            /\ messageHandlers' = [messageHandlers EXCEPT ![s] = f]
      BY <2>2 DEF Subscribe, Install
    <3>2. s \in Slots /\ s \in Nat /\ s > len /\ s <= MAX_MESSAGE_HANDLERS
      BY <1>3, <1>4, <3>1 DEF Slots
    <3>3. s = len + 1
      <4>1. len + 1 \in Slots
        <5> HIDE DEF len
        <5> QED BY <1>1, <1>3, <3>2 DEF Slots
      <4>2. len + 1 > len
        BY <1>1
      <4>3. len + 1 \in free
        BY <1>4, <4>1, <4>2
      <4>4. s <= len + 1
        BY <3>1, <4>3
      <4> HIDE DEF len
      <4> QED BY <1>1, <3>2, <4>4
    <3>4. \A t \in Slots : t # len + 1 => (t \in 1..(len + 1) <=> t \in 1..len)
      <4> HIDE DEF len
      <4> QED BY <1>1, <1>3 DEF Slots
    <3>5. len + 1 \in 1..(len + 1)
      BY <1>1
    <3> HIDE DEF len, free
    <3> QED BY <1>1, <1>2, <3>1, <3>2, <3>3, <3>4, <3>5
  <2> QED BY <2>1, <2>2
<1> QED BY <1>1, <1>2, <1>5 DEF TableInv

\* TableInv holds of every reachable state.
THEOREM TableIsInvariant == Spec => []TableInv
<1>1. Init => TableInv
  <2> SUFFICES ASSUME Init PROVE TableInv
    OBVIOUS
  <2>1. granted = << >> /\ granted \in Seq(Filters) /\ 1..Len(granted) = {}
    BY DEF Init
  <2> QED BY <2>1 DEF Init, TableInv
<1>2. TableInv /\ [Next]_vars => TableInv'
  <2> SUFFICES ASSUME TableInv, [Next]_vars PROVE TableInv'
    OBVIOUS
  <2>1. CASE ClientInit
    <3>1. granted' = << >> /\ granted' \in Seq(Filters) /\ 1..Len(granted') = {}
      BY <2>1 DEF ClientInit
    <3> QED BY <2>1, <3>1 DEF ClientInit, NothingDelivered, TableInv
  <2>2. ASSUME NEW f \in Filters, Subscribe(f) PROVE TableInv'
    BY <2>2, SubscribeKeepsTable
  <2>3. ASSUME NEW n \in Names, deliverMessage(n) PROVE TableInv'
    BY <2>3 DEF deliverMessage, TableInv, Matching
  <2>4. CASE UNCHANGED vars
    BY <2>4 DEF vars, TableInv, Matching
  <2> QED BY <2>1, <2>2, <2>3, <2>4 DEF Next
<1> QED BY <1>1, <1>2, PTL DEF Spec

\* What the table finds for a name is matched by it.
LEMMA FoundMatches ==
  ASSUME TableInv, NEW s \in called
  PROVE  /\ s \in Slots /\ s \in 1..Len(granted) /\ messageHandlers[s] = granted[s]
         /\ Matches(granted[s], name)
<1>1. /\ name \in Names /\ s \in Slots /\ messageHandlers[s] # NoFilter
      /\ \/ Text(messageHandlers[s]) = Text(name)
         \/ isTopicMatched(Text(messageHandlers[s]), Text(name))
  BY DEF TableInv, Matching
<1>2. /\ s \in 1..Len(granted) /\ messageHandlers[s] = granted[s]
      /\ granted[s] \in Filters
  BY <1>1, UsedSlots
<1>3. Matches(granted[s], name)
  BY <1>1, <1>2, EqualTexts, MatchedOnly
<1> QED BY <1>1, <1>2, <1>3

\* A handler is only given messages whose name its filter matches, whatever
\* the filters and the names: deliverMessage and isTopicMatched never take one
\* topic for another.
THEOREM HandlersMatch == Spec => []OnlyMatching
<1>1. TableInv => OnlyMatching
  <2> SUFFICES ASSUME TableInv, NEW s \in called
               PROVE  Matches(messageHandlers[s], name)
    BY DEF OnlyMatching
  <2> QED BY FoundMatches
<1> QED BY <1>1, TableIsInvariant, PTL

\* Every granted subscription that matches an ordinary message has its handler
\* called for it, as long as there was a slot for each: MQTTSubscribe loses
\* none and deliverMessage skips none.
THEOREM HandlersCalled == Spec => []AllMatching
<1>1. TableInv => AllMatching
  <2> DEFINE matching == {k \in DOMAIN granted : Matches(granted[k], name)}
  <2> SUFFICES ASSUME TableInv, name # << >>, Len(granted) <= MAX_MESSAGE_HANDLERS,
                      \A k \in matching : Ordinary(granted[k], name)
               PROVE  Cardinality(called) = Cardinality(matching)
    BY DEF AllMatching
  <2>1. name \in Names /\ called = Matching(name)
    BY DEF TableInv
  <2>2. DOMAIN granted = 1..Len(granted) /\ Len(granted) \in Nat
    BY DEF TableInv
  <2>3. called \subseteq matching
    BY <2>2, FoundMatches
  <2>4. matching \subseteq called
    <3> SUFFICES ASSUME NEW k \in matching PROVE k \in Matching(name)
      BY <2>1
    <3>1. k \in Slots /\ k \in 1..Len(granted)
      BY <2>2, DeliveryAssumption DEF Slots
    <3>2. /\ messageHandlers[k] # NoFilter /\ messageHandlers[k] = granted[k]
          /\ granted[k] \in Filters
      BY <3>1, UsedSlots
    <3>3. Matches(granted[k], name) /\ Ordinary(granted[k], name)
      OBVIOUS
    <3>4. isTopicMatched(Text(messageHandlers[k]), Text(name))
      BY <2>1, <3>2, <3>3, MatchedAll
    <3> QED BY <3>1, <3>2, <3>4 DEF Matching
  <2> HIDE DEF matching
  <2>5. called = matching
    BY <2>3, <2>4
  <2> QED BY <2>5
<1> QED BY <1>1, TableIsInvariant, PTL
=============================================================================
