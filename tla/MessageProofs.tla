---------------------------- MODULE MessageProofs ----------------------------
(***************************************************************************)
(* Proofs about Message and the buffers of EggBuffer, for every table of   *)
(* calls, every message, every size of buffers and words, however messages *)
(* are damaged and wherever the allocator fails: no operation touches      *)
(* memory outside a buffer or uses bytes nobody wrote, no result is copied *)
(* that is larger than what the application has room for, and a message    *)
(* that is sent has every byte of every part, in order.  A message that    *)
(* arrives undamaged is read as it was written; one that is refused was    *)
(* damaged or has no room, or its reader has no memory; and one that is    *)
(* accepted, damaged or not, was read to its last byte.                    *)
(***************************************************************************)
EXTENDS Message, WellFoundedInduction, TLAPS

-----------------------------------------------------------------------------
(* Least elements, induction and sequences.                                *)

\* A set of numbers that is not empty has a least element.
LEMMA LeastNat ==
  ASSUME NEW S, S \subseteq Nat, S # {}
  PROVE  \E x \in S : \A y \in S : x <= y
<1>1. PICK x \in S : \A y \in S : ~ (<<y, x>> \in OpToRel(<, Nat))
  BY WFMin, NatLessThanWellFounded
<1>2. \A y \in S : x \in Nat /\ y \in Nat /\ ~(y < x)
  BY <1>1 DEF OpToRel
<1> QED
  BY <1>2

\* Induction over the natural numbers, for a set: a number outside it would
\* be a least one.
LEMMA Induction ==
  ASSUME NEW S, 0 \in S, \A n \in Nat : n \in S => n + 1 \in S
  PROVE  \A n \in Nat : n \in S
<1> DEFINE C == Nat \ S
<1>1. SUFFICES ASSUME C # {} PROVE FALSE
  OBVIOUS
<1>2. PICK x \in C : \A y \in C : x <= y
  BY <1>1, LeastNat
<1>3. x \in Nat /\ x # 0 /\ x - 1 \in Nat /\ x - 1 \notin C
  BY <1>2
<1> QED
  BY <1>2, <1>3

\* Sequences are equal when their elements are.
LEMMA SameSeq ==
  ASSUME NEW E, NEW s \in Seq(E), NEW t \in Seq(E), Len(s) = Len(t),
         \A i \in 1 .. Len(s) : s[i] = t[i]
  PROVE  s = t
  OBVIOUS

\* A sequence that has the elements of a and then those of b is a \o b.
LEMMA ConcatIs ==
  ASSUME NEW E, NEW a \in Seq(E), NEW b \in Seq(E), NEW c \in Seq(E),
         Len(c) = Len(a) + Len(b),
         \A i \in 1 .. Len(c) : c[i] = IF i <= Len(a) THEN a[i] ELSE b[i - Len(a)]
  PROVE  c = a \o b
<1> DEFINE d == a \o b
<1>1. /\ d \in Seq(E) /\ Len(d) = Len(a) + Len(b)
      /\ \A i \in 1 .. Len(d) : d[i] = IF i <= Len(a) THEN a[i] ELSE b[i - Len(a)]
  OBVIOUS
<1> HIDE DEF d
<1>2. \A i \in 1 .. Len(c) : c[i] = d[i]
  BY <1>1
<1>3. c = d
  BY <1>1, <1>2, SameSeq
<1> QED
  BY <1>3 DEF d

\* The function that FlattenSeq is defined by.
Joins(s, f) == f = [i \in 1 .. Len(s) |-> IF i = 1 THEN s[i] ELSE f[i - 1] \o s[i]]

\* FlattenSeq is what the function that joins ever longer beginnings says.
LEMMA FlattenBy ==
  ASSUME NEW s, Len(s) # 0
  PROVE  FlattenSeq(s) = (CHOOSE f : Joins(s, f))[Len(s)]
  BY DEF FlattenSeq, Joins

\* There is such a function.
LEMMA JoinsExists ==
  ASSUME NEW E, NEW s \in Seq(Seq(E))
  PROVE  \E f \in [1 .. Len(s) -> Seq(E)] : Joins(s, f)
<1> DEFINE G(n, f) == \A i \in 1 .. n : f[i] = IF i = 1 THEN s[i] ELSE f[i - 1] \o s[i]
           H(n) == \E f \in [1 .. n -> Seq(E)] : G(n, f)
           P == {n \in Nat : n <= Len(s) => H(n)}
<1>1. 0 \in P
  <2>1. [i \in 1 .. 0 |-> <<>>] \in [1 .. 0 -> Seq(E)]
    OBVIOUS
  <2>2. G(0, [i \in 1 .. 0 |-> <<>>])
    OBVIOUS
  <2> QED
    BY <2>1, <2>2
<1>2. ASSUME NEW n \in Nat, n \in P, n + 1 <= Len(s) PROVE H(n + 1)
  <2>1. PICK f \in [1 .. n -> Seq(E)] : G(n, f)
    BY <1>2
  <2> DEFINE x == IF n = 0 THEN s[n + 1] ELSE f[n] \o s[n + 1]
             g == [i \in 1 .. n + 1 |-> IF i = n + 1 THEN x ELSE f[i]]
  <2>2. s[n + 1] \in Seq(E)
    BY <1>2
  <2>3. x \in Seq(E)
    <3>1. CASE n = 0
      BY <2>2, <3>1
    <3>2. CASE n # 0
      <4>1. f[n] \in Seq(E)
        BY <2>1, <3>2
      <4> QED
        BY <2>2, <3>2, <4>1
    <3> QED
      BY <3>1, <3>2
  <2> HIDE DEF x
  <2>4. g \in [1 .. n + 1 -> Seq(E)]
    BY <2>3, <2>1
  <2>5. ASSUME NEW i \in 1 .. n + 1 PROVE g[i] = IF i = 1 THEN s[i] ELSE g[i - 1] \o s[i]
    <3>1. CASE i = n + 1
      <4>1. g[i] = x
        BY <3>1
      <4>2. i # 1 => g[i - 1] = f[n] /\ n # 0
        BY <3>1
      <4> QED
        BY <3>1, <4>1, <4>2 DEF x
    <3>2. CASE i # n + 1
      <4>1. i \in 1 .. n /\ g[i] = f[i]
        BY <3>2
      <4>2. i # 1 => g[i - 1] = f[i - 1]
        BY <3>2
      <4> QED
        BY <2>1, <4>1, <4>2
    <3> QED
      BY <3>1, <3>2
  <2> QED
    BY <2>4, <2>5
<1> HIDE DEF H
<1>3. \A n \in Nat : n \in P => n + 1 \in P
  BY <1>2
<1> HIDE DEF P
<1>4. Len(s) \in P
  BY <1>1, <1>3, Induction
<1>5. PICK f \in [1 .. Len(s) -> Seq(E)] : G(Len(s), f)
  BY <1>4 DEF P, H
<1>6. f = [i \in 1 .. Len(s) |-> f[i]]
  BY <1>5
<1> QED
  BY <1>5, <1>6 DEF Joins

\* It is the same for a longer sequence, as far as it goes.
Begins(s, t) ==
  /\ Len(s) \in Nat /\ Len(t) \in Nat /\ Len(s) <= Len(t)
  /\ \A i \in 1 .. Len(s) : s[i] = t[i]

\* Two such functions agree as far as their sequences do.
LEMMA JoinsAgree ==
  \A s, t, f, g : Joins(s, f) /\ Joins(t, g) /\ Begins(s, t) => \A i \in 1 .. Len(s) : f[i] = g[i]
<1> SUFFICES ASSUME NEW s, NEW t, NEW f, NEW g, Joins(s, f), Joins(t, g), Begins(s, t)
             PROVE  \A i \in 1 .. Len(s) : f[i] = g[i]
  OBVIOUS
<1> USE DEF Begins
<1> DEFINE P == {n \in Nat : n \in 1 .. Len(s) => f[n] = g[n]}
<1>1. 0 \in P
  OBVIOUS
<1>2. ASSUME NEW n \in Nat, n \in P, n + 1 \in 1 .. Len(s) PROVE f[n + 1] = g[n + 1]
  <2>0. n + 1 \in 1 .. Len(s) /\ n + 1 \in 1 .. Len(t)
    BY <1>2
  <2>1. f[n + 1] = IF n + 1 = 1 THEN s[n + 1] ELSE f[(n + 1) - 1] \o s[n + 1]
    BY <2>0, Zenon DEF Joins
  <2>2. g[n + 1] = IF n + 1 = 1 THEN t[n + 1] ELSE g[(n + 1) - 1] \o t[n + 1]
    BY <2>0, Zenon DEF Joins
  <2>3. s[n + 1] = t[n + 1] /\ (n + 1) - 1 = n /\ (n # 0 => f[n] = g[n])
    BY <1>2
  <2> QED
    BY <2>1, <2>2, <2>3
<1>3. \A n \in Nat : n \in P => n + 1 \in P
  BY <1>2
<1>4. \A n \in Nat : n \in P
  <2> HIDE DEF P
  <2> QED
    BY <1>1, <1>3, Induction
<1> QED
  BY <1>4

\* There is one for every sequence of sequences, and FlattenSeq is its last
\* value.
LEMMA FlattenJoins ==
  ASSUME NEW E, NEW s \in Seq(Seq(E)), Len(s) # 0
  PROVE  \E f \in [1 .. Len(s) -> Seq(E)] : Joins(s, f) /\ FlattenSeq(s) = f[Len(s)]
<1> DEFINE g == CHOOSE f : Joins(s, f)
<1>1. PICK f \in [1 .. Len(s) -> Seq(E)] : Joins(s, f)
  BY JoinsExists
<1>2. Joins(s, g)
  BY <1>1
<1>3. FlattenSeq(s) = g[Len(s)]
  BY FlattenBy
<1> HIDE DEF g
<1>4. Len(s) \in Nat /\ Len(s) \in 1 .. Len(s)
  OBVIOUS
<1>5. f[Len(s)] = g[Len(s)]
  BY <1>1, <1>2, <1>4, JoinsAgree DEF Begins
<1> QED
  BY <1>1, <1>3, <1>5

LEMMA FlattenEmpty == FlattenSeq(<<>>) = <<>>
  BY DEF FlattenSeq

LEMMA FlattenType ==
  ASSUME NEW E, NEW s \in Seq(Seq(E))
  PROVE  FlattenSeq(s) \in Seq(E)
<1>1. CASE Len(s) = 0
  <2>1. s = <<>>
    BY <1>1
  <2>2. <<>> \in Seq(E)
    OBVIOUS
  <2> QED
    BY <2>1, <2>2, FlattenEmpty
<1>2. CASE Len(s) # 0
  <2>1. PICK f \in [1 .. Len(s) -> Seq(E)] : Joins(s, f) /\ FlattenSeq(s) = f[Len(s)]
    BY <1>2, FlattenJoins
  <2>2. Len(s) \in 1 .. Len(s)
    BY <1>2
  <2>3. f[Len(s)] \in Seq(E)
    BY <2>1, <2>2, Zenon
  <2> QED
    BY <2>1, <2>3
<1> QED
  BY <1>1, <1>2

\* FlattenSeq, one sequence at a time.
LEMMA FlattenAppend ==
  ASSUME NEW E, NEW s \in Seq(Seq(E)), NEW x \in Seq(E)
  PROVE  FlattenSeq(Append(s, x)) = FlattenSeq(s) \o x
<1>0. PICK t : t = Append(s, x)
  OBVIOUS
<1>1. /\ t \in Seq(Seq(E)) /\ Len(t) = Len(s) + 1 /\ Len(s) \in Nat
      /\ t[Len(t)] = x /\ \A i \in 1 .. Len(s) : s[i] = t[i]
  BY <1>0
<1>2. PICK g \in [1 .. Len(t) -> Seq(E)] : Joins(t, g) /\ FlattenSeq(t) = g[Len(t)]
  BY <1>1, FlattenJoins
<1>3. g[Len(t)] = IF Len(t) = 1 THEN t[Len(t)] ELSE g[Len(t) - 1] \o t[Len(t)]
  <2>1. Len(t) \in 1 .. Len(t)
    BY <1>1
  <2> QED
    BY <1>2, <2>1 DEF Joins
<1>4. CASE Len(s) = 0
  <2>1. s = <<>>
    BY <1>4
  <2>2. FlattenSeq(s) \o x = x
    BY <2>1, FlattenEmpty
  <2> QED
    BY <1>1, <1>2, <1>3, <1>4, <2>2, <1>0
<1>5. CASE Len(s) # 0
  <2>1. PICK f \in [1 .. Len(s) -> Seq(E)] : Joins(s, f) /\ FlattenSeq(s) = f[Len(s)]
    BY <1>5, FlattenJoins
  <2>2. Len(s) <= Len(t) /\ Len(t) \in Nat /\ Len(s) \in 1 .. Len(s) /\ Len(t) - 1 = Len(s)
    BY <1>1, <1>5
  <2>4. Joins(s, f) /\ Joins(t, g) /\ Len(s) \in Nat
    BY <1>1, <1>2, <2>1
  <2>5. \A i \in 1 .. Len(s) : f[i] = g[i]
    <3>1. Begins(s, t)
      BY <1>1, <2>2 DEF Begins
    <3> QED
      BY ONLY <2>4, <3>1, JoinsAgree
  <2>3. f[Len(s)] = g[Len(s)]
    BY <2>2, <2>5
  <2> QED
    BY <1>1, <1>2, <1>3, <1>5, <2>1, <2>2, <2>3, <1>0
<1> QED
  BY <1>4, <1>5

\* FlattenSeq of two parts.
LEMMA FlattenConcat ==
  ASSUME NEW E, NEW s \in Seq(Seq(E)), NEW t \in Seq(Seq(E))
  PROVE  FlattenSeq(s \o t) = FlattenSeq(s) \o FlattenSeq(t)
<1> DEFINE H(n) == \A u \in Seq(Seq(E)) : Len(u) = n => FlattenSeq(s \o u) = FlattenSeq(s) \o FlattenSeq(u)
           P == {n \in Nat : H(n)}
<1>1. H(0)
  <2>1. FlattenSeq(s) \in Seq(E)
    BY FlattenType
  <2>2. ASSUME NEW u \in Seq(Seq(E)), Len(u) = 0
        PROVE  u = <<>> /\ s \o u = s
    BY <2>2
  <2> QED
    BY <2>1, <2>2, FlattenEmpty
<1>2. ASSUME NEW n \in Nat, H(n) PROVE H(n + 1)
  <2> SUFFICES ASSUME NEW u \in Seq(Seq(E)), Len(u) = n + 1
               PROVE  FlattenSeq(s \o u) = FlattenSeq(s) \o FlattenSeq(u)
    OBVIOUS
  <2> DEFINE v == SubSeq(u, 1, n)
             x == u[n + 1]
  <2>1. x \in Seq(E) /\ v \in Seq(Seq(E)) /\ Len(v) = n
    OBVIOUS
  <2>2. u = Append(v, x)
    OBVIOUS
  <2> HIDE DEF v, x
  <2>9. s \o u = Append(s \o v, x)
    <3>1. s \o Append(v, x) = Append(s \o v, x)
      BY ONLY <2>1, s \in Seq(Seq(E))
    <3> QED
      BY ONLY <2>2, <3>1
  <2>3. FlattenSeq(u) = FlattenSeq(v) \o x
    BY <2>1, <2>2, FlattenAppend
  <2>4. s \o v \in Seq(Seq(E))
    BY <2>1
  <2>5. FlattenSeq(s \o u) = FlattenSeq(s \o v) \o x
    BY <2>1, <2>9, <2>4, FlattenAppend
  <2>6. FlattenSeq(s \o v) = FlattenSeq(s) \o FlattenSeq(v)
    BY <1>2, <2>1
  <2>7. FlattenSeq(s) \in Seq(E) /\ FlattenSeq(v) \in Seq(E)
    BY <2>1, FlattenType
  <2>8. \A a, b, c \in Seq(E) : (a \o b) \o c = a \o (b \o c)
    OBVIOUS
  <2>10. (FlattenSeq(s) \o FlattenSeq(v)) \o x = FlattenSeq(s) \o (FlattenSeq(v) \o x)
    BY ONLY <2>1, <2>7, <2>8
  <2> QED
    BY ONLY <2>3, <2>5, <2>6, <2>10
<1> HIDE DEF H
<1>4. 0 \in P /\ \A n \in Nat : n \in P => n + 1 \in P
  BY <1>1, <1>2
<1> HIDE DEF P
<1>5. \A n \in Nat : n \in P
  BY ONLY <1>4, Induction
<1>3. Len(t) \in P
  BY <1>5
<1> QED
  BY <1>3 DEF H, P

-----------------------------------------------------------------------------
(* Numbers and their digits.                                               *)

LEMMA Remainder ==
  ASSUME NEW a \in Int, NEW m \in Nat, m > 0
  PROVE  /\ a % m \in Nat /\ a % m < m /\ a \div m \in Int /\ (a >= 0 => a % m <= a)
         /\ a % m = a - m * (a \div m) /\ (a >= 0 => a \div m \in Nat)
  OBVIOUS

LEMMA Quotient ==
  ASSUME NEW m \in Nat, m > 0, NEW q \in Int, NEW r \in Int, 0 <= r, r < m
  PROVE  (m * q + r) \div m = q /\ (m * q + r) % m = r
  OBVIOUS

LEMMA DivDiv ==
  ASSUME NEW a \in Nat, NEW m \in Nat, m > 0, NEW b \in Nat, b > 0
  PROVE  (a \div m) \div b = a \div (m * b)
  OBVIOUS

\* Products of natural numbers: what the solver does not find by itself.
LEMMA Products ==
  ASSUME NEW m \in Nat, NEW q \in Nat, NEW p \in Nat
  PROVE  /\ m * (q * p) = (m * q) * p /\ m * q = q * m /\ m * q \in Nat
         /\ m * (q + p) = m * q + m * p /\ (m > 0 /\ q > 0 => m * q > 0)
         /\ (q < p => m * q + m <= m * p)
  OBVIOUS

\* The last digits of a number are those of its remainder.
LEMMA DigitOfRest ==
  ASSUME NEW v \in Nat, NEW p \in Nat, p > 0, NEW b \in Nat, b > 0, NEW q \in Nat, q > 0
  PROVE  ((v % (p * (b * q))) \div p) % b = (v \div p) % b
<1> DEFINE m == p * (b * q)
           t == v \div m
           r == v % m
           x == r \div p
           y == r % p
<1>1. m \in Nat /\ m > 0
  BY Products
<1> HIDE DEF m
<1>2. t \in Nat /\ r \in Nat /\ v = m * t + r
  BY <1>1, Remainder
<1> HIDE DEF t, r
<1>3. x \in Nat /\ y \in Nat /\ y < p /\ r = p * x + y
  BY <1>2, Remainder
<1> HIDE DEF x, y
<1> DEFINE u == q * t
           w == b * u
<1>4. u \in Nat
  BY <1>2, Products
<1>5. w \in Nat /\ w + x \in Nat
  BY <1>3, <1>4, Products
<1>6. m * t = p * w
  <2>1. m * t = p * ((b * q) * t)
    BY <1>2, Products DEF m
  <2>2. (b * q) * t = b * (q * t)
    BY <1>2, Products
  <2> QED
    BY <2>1, <2>2
<1> HIDE DEF u, w
<1>7. v = p * (w + x) + y
  BY <1>2, <1>3, <1>5, <1>6, Products
<1>8. v \div p = w + x
  BY <1>3, <1>5, <1>7, Quotient
<1>9. (w + x) % b = x % b
  <2> DEFINE z == x \div b
             c == x % b
  <2>1. z \in Nat /\ c \in Nat /\ c < b /\ x = b * z + c
    BY <1>3, Remainder
  <2> HIDE DEF z, c
  <2> DEFINE d == u + z
  <2>2. w + x = b * d + c /\ d \in Int
    BY <1>4, <2>1, Products DEF w
  <2> HIDE DEF d
  <2>4. (b * d + c) % b = c
    BY <2>1, <2>2, Quotient
  <2>3. (w + x) % b = c
    BY <2>2, <2>4
  <2> QED
    BY <2>3 DEF c
<1> QED
  BY <1>8, <1>9 DEF x, r, m

-----------------------------------------------------------------------------
LEMMA PowerStep ==
  Base \in Nat /\ Base > 1 /\ WordLen \in Nat /\ WordLen > 0 /\ LongLen \in Nat /\ LongLen = 2 * WordLen
  BY EggBufferAssumption DEF LongLen

LEMMA PowersPositive == \A i \in 0 .. LongLen + 1 : Base ^ i \in Nat \ {0}
<1> DEFINE P == {n \in Nat : n \in 0 .. LongLen + 1 => Base ^ n \in Nat \ {0}}
<1>1. 0 \in P
  BY EggBufferPowers
<1>2. ASSUME NEW n \in Nat, n \in P,
             n + 1 \in 0 .. LongLen + 1 PROVE Base ^ (n + 1) \in Nat \ {0}
  <2>1. n \in 0 .. LongLen
    BY <1>2, PowerStep
  <2>4. Base ^ (n + 1) = Base * Base ^ n
    BY <2>1, EggBufferPowers
  <2>5. n \in 0 .. LongLen + 1
    BY <2>1, PowerStep
  <2>6. Base ^ n \in Nat \ {0}
    BY <1>2, <2>5
  <2>2. Base ^ (n + 1) = Base * Base ^ n /\ Base ^ n \in Nat \ {0}
    BY <2>4, <2>6
  <2> DEFINE x == Base ^ n
  <2> HIDE DEF x
  <2>3. Base * x \in Nat /\ Base * x > 0
    BY <2>2, PowerStep, Products DEF x
  <2> QED
    BY <2>2, <2>3 DEF x
<1>3. \A n \in Nat : n \in P => n + 1 \in P
  BY <1>2
<1> HIDE DEF P
<1>4. \A n \in Nat : n \in P
  BY <1>1, <1>3, Induction
<1> QED
  BY <1>4, PowerStep DEF P

\* The powers of the base that words and unsigned longs need.
LEMMA PowersAdd ==
  ASSUME NEW i \in Nat, NEW j \in Nat, i + j <= LongLen
  PROVE  Base ^ (i + j) = Base ^ i * Base ^ j
<1> DEFINE P == {n \in Nat : i + n <= LongLen => Base ^ (i + n) = Base ^ i * Base ^ n}
<1>0. \A n \in 0 .. LongLen : Base ^ n \in Nat
  BY PowersPositive, PowerStep
<1>1. 0 \in P
  <2>1. i \in 0 .. LongLen
    BY PowerStep
  <2> DEFINE x == Base ^ i
  <2>2. x \in Nat /\ Base ^ 0 = 1 /\ i + 0 = i
    BY <1>0, <2>1, EggBufferPowers
  <2> HIDE DEF x
  <2>3. x = x * 1
    BY <2>2
  <2> QED
    BY <2>2, <2>3 DEF x
<1>2. ASSUME NEW n \in Nat, n \in P, i + (n + 1) <= LongLen
      PROVE  Base ^ (i + (n + 1)) = Base ^ i * Base ^ (n + 1)
  <2>1. n \in 0 .. LongLen /\ i \in 0 .. LongLen /\ i + n \in 0 .. LongLen /\ i + (n + 1) = (i + n) + 1
    BY <1>2, PowerStep
  <2> DEFINE x == Base ^ i
             y == Base ^ n
  <2>2. Base ^ ((i + n) + 1) = Base * Base ^ (i + n)
    BY <2>1, EggBufferPowers
  <2>3. Base ^ (n + 1) = Base * y
    BY <2>1, EggBufferPowers
  <2>4. Base ^ (i + n) = x * y
    BY <1>2, <2>1
  <2>5. x \in Nat /\ y \in Nat
    BY <1>0, <2>1
  <2> HIDE DEF x, y
  <2>6. Base * (x * y) = x * (Base * y)
    <3>1. Base * (x * y) = (Base * x) * y /\ Base * x = x * Base /\ x * (Base * y) = (x * Base) * y
      BY <2>5, PowerStep, Products
    <3> QED
      BY <3>1
  <2> QED
    BY <2>1, <2>2, <2>3, <2>4, <2>6 DEF x
<1>3. \A n \in Nat : n \in P => n + 1 \in P
  BY <1>2
<1> HIDE DEF P
<1>4. \A n \in Nat : n \in P
  BY <1>1, <1>3, Induction
<1> QED
  BY <1>4 DEF P

-----------------------------------------------------------------------------
(* Digits.                                                                 *)

\* Digit i of the n digits of v.
Digit(v, n, i) == (v \div Base ^ (n - i)) % Base

\* A number of n + 1 digits is one of n digits and a last one.
LEMMA DigitsFirst ==
  ASSUME NEW v \in Nat, NEW n \in Nat, n < LongLen, NEW i \in 1 .. n
  PROVE  Digit(v, n + 1, i) = Digit(v \div Base, n, i)
<1>1. n - i \in 0 .. LongLen /\ (n + 1) - i = (n - i) + 1
  BY PowerStep
<1> DEFINE p == Base ^ (n - i)
<1>2. Base ^ ((n - i) + 1) = Base * p
  BY <1>1, EggBufferPowers
<1>3. p \in Nat /\ p > 0
  BY <1>1, PowersPositive, PowerStep
<1> HIDE DEF p
<1>4. (v \div Base) \div p = v \div (Base * p)
  BY <1>3, PowerStep, DivDiv
<1>5. Base ^ ((n + 1) - i) = Base * p
  BY <1>1, <1>2
<1> QED
  BY <1>4, <1>5 DEF Digit, p

\* The last digit of a number is its remainder.
LEMMA DigitsLast ==
  ASSUME NEW v \in Nat, NEW n \in Nat
  PROVE  Digit(v, n, n) = v % Base
<1>1. n - n = 0 /\ Base ^ 0 = 1
  BY EggBufferPowers
<1>2. v \div 1 = v
  OBVIOUS
<1> QED
  BY <1>1, <1>2 DEF Digit

\* Every sequence of digits is that of a number.
LEMMA DigitsExist ==
  ASSUME NEW n \in 0 .. LongLen
  PROVE  \A s \in [1 .. n -> Bytes] : \E v \in 0 .. Base ^ n - 1 :
           \A i \in 1 .. n : Digit(v, n, i) = s[i]
<1> DEFINE H(m) == \A s \in [1 .. m -> Bytes] : \E v \in 0 .. Base ^ m - 1 :
                     \A i \in 1 .. m : Digit(v, m, i) = s[i]
           P == {m \in Nat : m \in 0 .. LongLen => H(m)}
<1>1. 0 \in P
  <2>1. 0 \in 0 .. Base ^ 0 - 1
    BY EggBufferPowers
  <2>2. \A i \in 1 .. 0 : FALSE
    OBVIOUS
  <2> QED
    BY <2>1, <2>2
<1>2. ASSUME NEW m \in Nat, m \in P, m + 1 \in 0 .. LongLen PROVE H(m + 1)
  <2>1. SUFFICES ASSUME NEW s \in [1 .. m + 1 -> Bytes]
                 PROVE  \E v \in 0 .. Base ^ (m + 1) - 1 : \A i \in 1 .. m + 1 : Digit(v, m + 1, i) = s[i]
    OBVIOUS
  <2>2. m \in 0 .. LongLen /\ m < LongLen
    BY <1>2, PowerStep
  <2>3. H(m)
    BY <1>2, <2>2
  <2> DEFINE t == [i \in 1 .. m |-> s[i]]
             d == s[m + 1]
  <2>4. t \in [1 .. m -> Bytes]
    OBVIOUS
  <2>5. PICK w \in 0 .. Base ^ m - 1 : \A i \in 1 .. m : Digit(w, m, i) = t[i]
    BY <2>3, <2>4
  <2>6. d \in Nat /\ d < Base
    <3>1. m + 1 \in 1 .. m + 1
      OBVIOUS
    <3>2. d \in Bytes
      BY <3>1
    <3> QED
      BY <3>2, PowerStep DEF Bytes
  <2> DEFINE q == Base ^ m
             v == Base * w + d
  <2>7. q \in Nat /\ Base ^ (m + 1) = Base * q
    BY <2>2, PowersPositive, PowerStep, EggBufferPowers
  <2>8. w \in Nat /\ w < q
    BY <2>5, <2>7
  <2> HIDE DEF q, d
  <2>9. v \in Nat /\ v < Base * q
    BY <2>6, <2>7, <2>8, PowerStep, Products
  <2>10. v \div Base = w /\ v % Base = d
    BY <2>6, <2>8, PowerStep, Quotient
  <2> HIDE DEF v
  <2>11. v \in 0 .. Base ^ (m + 1) - 1
    <3>1. Base * q \in Nat
      BY <2>7, PowerStep, Products
    <3> QED
      BY <2>7, <2>9, <3>1
  <2>12. ASSUME NEW i \in 1 .. m + 1 PROVE Digit(v, m + 1, i) = s[i]
    <3>1. CASE i = m + 1
      <4>1. Digit(v, m + 1, m + 1) = v % Base
        BY <2>9, DigitsLast
      <4> QED
        BY <2>10, <3>1, <4>1 DEF d
    <3>2. CASE i # m + 1
      <4>1. i \in 1 .. m
        BY <3>2
      <4>2. Digit(v, m + 1, i) = Digit(v \div Base, m, i)
        BY <2>2, <2>9, <4>1, DigitsFirst
      <4> QED
        BY <2>5, <2>10, <4>1, <4>2
    <3> QED
      BY <3>1, <3>2
  <2> QED
    BY <2>11, <2>12
<1> HIDE DEF H
<1>3. \A m \in Nat : m \in P => m + 1 \in P
  BY <1>2
<1> HIDE DEF P
<1>4. \A m \in Nat : m \in P
  BY <1>1, <1>3, Induction
<1>5. n \in P /\ n \in Nat
  BY <1>4, PowerStep
<1>6. H(n)
  BY <1>5 DEF P
<1> QED
  BY <1>6 DEF H

\* Numbers with the same digits are the same.
LEMMA DigitsDecide ==
  ASSUME NEW n \in 0 .. LongLen
  PROVE  \A v, w \in 0 .. Base ^ n - 1 :
           (\A i \in 1 .. n : Digit(v, n, i) = Digit(w, n, i)) => v = w
<1> DEFINE H(m) == \A v, w \in 0 .. Base ^ m - 1 :
                     (\A i \in 1 .. m : Digit(v, m, i) = Digit(w, m, i)) => v = w
           P == {m \in Nat : m \in 0 .. LongLen => H(m)}
<1>1. 0 \in P
  BY EggBufferPowers
<1>2. ASSUME NEW m \in Nat, m \in P, m + 1 \in 0 .. LongLen PROVE H(m + 1)
  <2>1. SUFFICES ASSUME NEW v \in 0 .. Base ^ (m + 1) - 1, NEW w \in 0 .. Base ^ (m + 1) - 1,
                        \A i \in 1 .. m + 1 : Digit(v, m + 1, i) = Digit(w, m + 1, i)
                 PROVE  v = w
    OBVIOUS
  <2>2. m \in 0 .. LongLen /\ m < LongLen
    BY <1>2, PowerStep
  <2>3. H(m)
    BY <1>2, <2>2
  <2> DEFINE q == Base ^ m
             x == v \div Base
             y == w \div Base
             c == v % Base
             d == w % Base
  <2>4. q \in Nat /\ Base ^ (m + 1) = Base * q
    BY <2>2, PowersPositive, PowerStep, EggBufferPowers
  <2> HIDE DEF q
  <2>5. v \in Nat /\ w \in Nat /\ v < Base * q /\ w < Base * q
    <3>1. Base * q \in Nat
      BY <2>4, PowerStep, Products
    <3> QED
      BY <2>4, <3>1
  <2>10. x \in Nat /\ c \in Nat /\ c = v - Base * x
    BY <2>5, PowerStep, Remainder
  <2>11. y \in Nat /\ d \in Nat /\ d = w - Base * y
    BY <2>5, PowerStep, Remainder
  <2> HIDE DEF x, y, c, d
  <2>12. Base * x \in Nat /\ Base * y \in Nat
    BY <2>10, <2>11, PowerStep, Products
  <2>6. v = Base * x + c /\ w = Base * y + d
    BY <2>5, <2>10, <2>11, <2>12
  <2>7. x < q /\ y < q
    <3>1. ASSUME NEW a \in Nat, NEW r \in Nat, Base * a + r < Base * q PROVE a < q
      <4>1. CASE q < a
        <5>1. Base * q + Base <= Base * a
          BY <2>4, <4>1, PowerStep, Products
        <5>2. Base * q \in Nat /\ Base * a \in Nat
          BY <2>4, PowerStep, Products
        <5> QED
          BY <3>1, <5>1, <5>2, PowerStep
      <4>2. CASE q = a
        <5>1. Base * q \in Nat
          BY <2>4, PowerStep, Products
        <5> QED
          BY <3>1, <4>2, <5>1
      <4> QED
        BY <2>4, <4>1, <4>2
    <3> QED
      BY <2>5, <2>6, <2>10, <2>11, <3>1
  <2>8. c = d
    <3>1. m + 1 \in 1 .. m + 1
      OBVIOUS
    <3>2. Digit(v, m + 1, m + 1) = Digit(w, m + 1, m + 1)
      BY <2>1, <3>1
    <3> QED
      BY <2>5, <3>2, DigitsLast DEF c, d
  <2>9. x = y
    <3>1. ASSUME NEW i \in 1 .. m PROVE Digit(x, m, i) = Digit(y, m, i)
      <4>1. i \in 1 .. m + 1
        OBVIOUS
      <4>2. Digit(v, m + 1, i) = Digit(x, m, i) /\ Digit(w, m + 1, i) = Digit(y, m, i)
        BY <2>2, <2>5, DigitsFirst DEF x, y
      <4> QED
        BY <2>1, <4>1, <4>2
    <3>2. x \in 0 .. Base ^ m - 1 /\ y \in 0 .. Base ^ m - 1
      BY <2>4, <2>7, <2>10, <2>11 DEF q
    <3> QED
      BY <2>3, <3>1, <3>2
  <2> QED
    BY <2>6, <2>8, <2>9
<1> HIDE DEF H
<1>3. \A m \in Nat : m \in P => m + 1 \in P
  BY <1>2
<1> HIDE DEF P
<1>4. \A m \in Nat : m \in P
  BY <1>1, <1>3, Induction
<1>5. n \in P /\ n \in Nat
  BY <1>4, PowerStep
<1>6. H(n)
  BY <1>5 DEF P
<1> QED
  BY <1>6 DEF H

LEMMA WordsAre == WordMod \in Nat /\ WordMod > 0 /\ Words = 0 .. Base ^ WordLen - 1
  BY PowersPositive, PowerStep DEF WordMod, Words

\* egg_buffer_encode_uint32 writes the digits of a number, the highest first.
LEMMA EncodeDigits ==
  ASSUME NEW v
  PROVE  egg_buffer_encode_uint32(v) = [i \in 1 .. WordLen |-> Digit(v, WordLen, i)]
  BY DEF egg_buffer_encode_uint32, Digit

\* WordLen bytes are the digits of a word.
LEMMA EggBufferDigits ==
  /\ \A i \in 0 .. WordLen : Base ^ i \in Nat \ {0}
  /\ \A s \in [1 .. WordLen -> Bytes] : \E v \in Words : egg_buffer_encode_uint32(v) = s
<1>1. WordLen \in 0 .. LongLen
  BY PowerStep
<1>2. \A i \in 0 .. WordLen : Base ^ i \in Nat \ {0}
  BY PowersPositive, PowerStep
<1>3. ASSUME NEW s \in [1 .. WordLen -> Bytes] PROVE \E v \in Words : egg_buffer_encode_uint32(v) = s
  <2>1. PICK v \in 0 .. Base ^ WordLen - 1 : \A i \in 1 .. WordLen : Digit(v, WordLen, i) = s[i]
    BY <1>1, DigitsExist
  <2>2. [i \in 1 .. WordLen |-> Digit(v, WordLen, i)] = s
    BY <2>1
  <2>3. v \in Words
    BY WordsAre
  <2> QED
    BY <2>2, <2>3, EncodeDigits
<1> QED
  BY <1>2, <1>3

\* Decoding is the inverse of encoding.
LEMMA Decoded ==
  ASSUME NEW v \in Words
  PROVE  egg_buffer_decode_uint32(egg_buffer_encode_uint32(v)) = v
<1>1. ASSUME NEW w \in Words, egg_buffer_encode_uint32(w) = egg_buffer_encode_uint32(v)
      PROVE  w = v
  <2>1. \A i \in 1 .. WordLen : Digit(w, WordLen, i) = Digit(v, WordLen, i)
    <3> TAKE i \in 1 .. WordLen
    <3>1. [j \in 1 .. WordLen |-> Digit(w, WordLen, j)][i] = [j \in 1 .. WordLen |-> Digit(v, WordLen, j)][i]
      BY <1>1, EncodeDigits
    <3> QED
      BY <3>1
  <2>2. WordLen \in 0 .. LongLen
    BY PowerStep
  <2>3. v \in 0 .. Base ^ WordLen - 1 /\ w \in 0 .. Base ^ WordLen - 1
    BY WordsAre
  <2> QED
    BY <2>1, <2>2, <2>3, DigitsDecide
<1> DEFINE d == egg_buffer_decode_uint32(egg_buffer_encode_uint32(v))
<1>2. d \in Words /\ egg_buffer_encode_uint32(d) = egg_buffer_encode_uint32(v)
  BY DEF egg_buffer_decode_uint32
<1> QED
  BY <1>1, <1>2

\* What does not fit in a word is not encoded.
LEMMA EncodeRest ==
  ASSUME NEW v \in Nat
  PROVE  egg_buffer_encode_uint32(v % WordMod) = egg_buffer_encode_uint32(v)
<1>1. ASSUME NEW i \in 1 .. WordLen
      PROVE  Digit(v % WordMod, WordLen, i) = Digit(v, WordLen, i)
  <2>1. WordLen - i \in 0 .. LongLen /\ i - 1 \in 0 .. LongLen /\ (WordLen - i) + 1 \in 0 .. LongLen
    BY PowerStep
  <2> DEFINE p == Base ^ (WordLen - i)
             q == Base ^ (i - 1)
  <2>2. p \in Nat /\ p > 0 /\ q \in Nat /\ q > 0
    BY <2>1, PowersPositive, PowerStep
  <2>3. Base ^ (((WordLen - i) + 1) + (i - 1)) = Base ^ ((WordLen - i) + 1) * q
    BY <2>1, PowersAdd, PowerStep
  <2>4. Base ^ ((WordLen - i) + 1) = Base * p
    BY <2>1, EggBufferPowers
  <2>5. ((WordLen - i) + 1) + (i - 1) = WordLen
    BY PowerStep
  <2>6. WordMod = (Base * p) * q
    BY <2>3, <2>4, <2>5 DEF WordMod
  <2> HIDE DEF p, q
  <2>7. (Base * p) * q = p * (Base * q)
    <3>1. (Base * p) * q = (p * Base) * q /\ p * (Base * q) = (p * Base) * q
      BY <2>2, PowerStep, Products
    <3> QED
      BY <3>1
  <2>8. ((v % (p * (Base * q))) \div p) % Base = (v \div p) % Base
    <3>1. v \in Nat /\ Base \in Nat /\ Base > 0
      BY PowerStep
    <3> QED
      BY <2>2, <3>1, DigitOfRest, Zenon
  <2> QED
    BY <2>6, <2>7, <2>8 DEF Digit, p
<1>2. [i \in 1 .. WordLen |-> Digit(v % WordMod, WordLen, i)] = [i \in 1 .. WordLen |-> Digit(v, WordLen, i)]
  BY <1>1
<1> QED
  BY <1>2, EncodeDigits

\* Both halves of an unsigned long.
LEMMA LongsAre ==
  /\ Base ^ LongLen = WordMod * WordMod
  /\ \A v \in 0 .. WordMod * WordMod - 1 :
       v \div WordMod \in Words /\ v % WordMod \in Words
         /\ (v \div WordMod) * WordMod + (v % WordMod) = v
<1>1. Base ^ LongLen = WordMod * WordMod
  <2>1. WordLen + WordLen = LongLen /\ WordLen + WordLen <= LongLen
    BY PowerStep
  <2> QED
    BY <2>1, PowerStep, PowersAdd DEF WordMod
<1>2. ASSUME NEW v \in 0 .. WordMod * WordMod - 1
      PROVE  v \div WordMod \in Words /\ v % WordMod \in Words
               /\ (v \div WordMod) * WordMod + (v % WordMod) = v
  <2> DEFINE m == WordMod
             q == v \div m
             r == v % m
  <2>0. m \in Nat /\ m > 0 /\ m * m \in Nat
    BY WordsAre, Products
  <2> HIDE DEF m
  <2>1. v \in Nat /\ v < m * m
    BY <2>0 DEF m
  <2>2. q \in Nat /\ r \in Nat /\ r < m /\ r = v - m * q
    BY <2>0, <2>1, Remainder
  <2> HIDE DEF q, r
  <2>3. m * q \in Nat /\ m * q = q * m
    BY <2>0, <2>2, Products
  <2>4. q < m
    <3>1. CASE m < q
      <4>1. m * m + m <= m * q
        BY <2>0, <2>2, <3>1, Products
      <4> QED
        BY <2>0, <2>1, <2>2, <2>3, <4>1
    <3>2. CASE m = q
      BY <2>0, <2>1, <2>2, <2>3, <3>2
    <3> QED
      BY <2>0, <2>2, <3>1, <3>2
  <2>5. q * m + r = v
    BY <2>1, <2>2, <2>3
  <2>6. q \in 0 .. m - 1 /\ r \in 0 .. m - 1
    BY <2>0, <2>2, <2>4
  <2>7. Words = 0 .. m - 1
    BY DEF m, Words
  <2>8. q \in Words /\ r \in Words /\ q * m + r = v
    BY <2>5, <2>6, <2>7
  <2> QED
    BY ONLY <2>8 DEF m, q, r
<1> QED
  BY <1>1, <1>2

-----------------------------------------------------------------------------
(* Numbers.                                                                *)

LEMMA Arithmetic ==
  /\ Base \in Nat /\ Base > 1 /\ WordLen \in Nat /\ WordLen > 0
  /\ WordMod \in Nat /\ WordMod > 0
  BY EggBufferAssumption, EggBufferDigits DEF WordMod

LEMMA Digits ==
  ASSUME NEW s \in [1 .. WordLen -> Bytes]
  PROVE  egg_buffer_decode_uint32(s) \in Words
  BY EggBufferDigits DEF egg_buffer_decode_uint32

LEMMA Encoded ==
  ASSUME NEW v \in Int
  PROVE  /\ egg_buffer_encode_uint32(v) \in Seq(Bytes)
         /\ Len(egg_buffer_encode_uint32(v)) = WordLen
<1>1. ASSUME NEW i \in 1 .. WordLen PROVE (v \div Base ^ (WordLen - i)) % Base \in Bytes
  <2>1. WordLen - i \in 0 .. WordLen
    BY Arithmetic
  <2> DEFINE p == Base ^ (WordLen - i)
             q == v \div p
  <2>2. p \in Nat /\ p > 0
    BY <2>1, EggBufferDigits
  <2> HIDE DEF p
  <2>3. q \in Int
    BY <2>2, Remainder
  <2> HIDE DEF q
  <2>4. q % Base \in Nat /\ q % Base < Base
    BY <2>3, Arithmetic, Remainder
  <2> QED
    BY <2>4, Arithmetic DEF p, q, Bytes
<1> DEFINE F(i) == (v \div Base ^ (WordLen - i)) % Base
<1>2. egg_buffer_encode_uint32(v) = [i \in 1 .. WordLen |-> F(i)]
  BY DEF egg_buffer_encode_uint32
<1>3. \A i \in 1 .. WordLen : F(i) \in Bytes
  BY <1>1
<1> HIDE DEF F
<1> QED
  BY <1>2, <1>3, Arithmetic

-----------------------------------------------------------------------------
(* Buffers.                                                                *)

Cell   == Bytes \cup {Junk}
Buffer == [mem : Seq(Cell), len : Nat, failures : Nat, stray : BOOLEAN]

\* What is in a buffer is inside its memory and was written.
BufOK(b) ==
  /\ b \in Buffer /\ b.len <= Len(b.mem) /\ b.stray = FALSE
  /\ \A i \in 1 .. b.len : b.mem[i] \in Bytes

LEMMA NoByte == Junk \notin Bytes /\ Bytes \subseteq Nat
  BY Arithmetic DEF Junk, Bytes

LEMMA BufFields ==
  ASSUME NEW b, BufOK(b)
  PROVE  /\ b.mem \in Seq(Cell) /\ Len(b.mem) \in Nat /\ b.len \in Nat /\ b.len <= Len(b.mem)
         /\ b.failures \in Nat /\ b.stray = FALSE
         /\ \A i \in 1 .. b.len : b.mem[i] \in Bytes
  BY DEF BufOK, Buffer

\* A buffer that counts a failure.
LEMMA FailedOK ==
  ASSUME NEW b, BufOK(b)
  PROVE  BufOK(Failed(b)) /\ Failed(b).len = b.len /\ Failed(b).failures = b.failures + 1
  BY DEF Failed, BufOK, Buffer

\* A new buffer, and one that is used again.
LEMMA Filled ==
  ASSUME NEW n \in Nat, NEW x \in Cell
  PROVE  /\ Fill(n, x) \in Seq(Cell) /\ Len(Fill(n, x)) = n
         /\ \A i \in 1 .. n : Fill(n, x)[i] = x
  BY DEF Fill

LEMMA InitOK ==
  ASSUME NEW n \in Nat
  PROVE  BufOK(egg_buffer_init(n)) /\ egg_buffer_init(n).len = 0
<1>1. Fill(n, Junk) \in Seq(Cell) /\ Len(Fill(n, Junk)) = n
  BY Filled DEF Cell
<1> QED
  BY <1>1 DEF egg_buffer_init, BufOK, Buffer

LEMMA ResetOK ==
  ASSUME NEW b, BufOK(b)
  PROVE  /\ BufOK(egg_buffer_reset(b)) /\ egg_buffer_reset(b).len = 0
         /\ egg_buffer_reset(b).failures = 0
<1>1. 0 \in Cell
  BY Arithmetic DEF Cell, Bytes
<1>2. Fill(Len(b.mem), 0) \in Seq(Cell) /\ Len(Fill(Len(b.mem), 0)) = Len(b.mem)
  BY <1>1, BufFields, Filled
<1> DEFINE m == Fill(Len(b.mem), 0)
           r == egg_buffer_reset(b)
<1>3. r = [b EXCEPT !.mem = m, !.len = 0, !.failures = 0]
  BY DEF egg_buffer_reset, allocated_len
<1>4. b \in Buffer /\ b.stray = FALSE
  BY DEF BufOK
<1>5. m \in Seq(Cell)
  BY <1>2
<1> HIDE DEF m, r
<1>6. r = [mem |-> m, len |-> 0, failures |-> 0, stray |-> FALSE]
  BY <1>3, <1>4 DEF Buffer
<1>9. r \in Buffer /\ r.len = 0 /\ r.mem = m /\ r.stray = FALSE /\ r.failures = 0
  BY <1>5, <1>6 DEF Buffer
<1>7. Len(r.mem) \in Nat
  BY <1>5, <1>9
<1>8. BufOK(r)
  BY <1>7, <1>9 DEF BufOK
<1> QED
  BY <1>8, <1>9 DEF r

\* Reserving room fails, and counts as a failure, or there is room.
LEMMA Reserved ==
  ASSUME NEW b, BufOK(b), NEW n \in Nat, NEW ok
  PROVE  LET r == egg_buffer_reserve(b, n, ok)
         IN  /\ BufOK(r) /\ r.len = b.len
             /\ r.failures = b.failures => n <= Len(r.mem)
             /\ r.failures # b.failures => r.failures > 0
             /\ Len(b.mem) <= Len(r.mem) /\ \A i \in 1 .. Len(b.mem) : r.mem[i] = b.mem[i]
<1> DEFINE r == egg_buffer_reserve(b, n, ok)
<1>0. /\ b \in Buffer /\ b.mem \in Seq(Cell) /\ Len(b.mem) \in Nat /\ b.len \in Nat
      /\ b.len <= Len(b.mem) /\ b.failures \in Nat
  BY BufFields DEF BufOK
<1>1. CASE n < Len(b.mem)
  <2>1. r = b
    BY <1>1 DEF egg_buffer_reserve, allocated_len
  <2> QED
    BY <1>0, <1>1, <2>1
<1>2. CASE ~(n < Len(b.mem)) /\ ok
  <2> DEFINE m == NewLen(b, n) - Len(b.mem)
             s == Fill(m, Junk)
  <2>1. m \in Nat /\ n <= Len(b.mem) + m
    BY <1>0, <1>2 DEF NewLen, allocated_len
  <2>2. s \in Seq(Cell) /\ Len(s) = m
    BY <2>1, Filled DEF Cell
  <2>3. r = [b EXCEPT !.mem = b.mem \o s]
    BY <1>2 DEF egg_buffer_reserve, allocated_len
  <2> HIDE DEF m, s
  <2>4. /\ b.mem \o s \in Seq(Cell) /\ Len(b.mem \o s) = Len(b.mem) + m
        /\ \A i \in 1 .. Len(b.mem) : (b.mem \o s)[i] = b.mem[i]
    BY <1>0, <2>1, <2>2
  <2>5. /\ r \in Buffer /\ r.mem = b.mem \o s /\ r.len = b.len /\ r.failures = b.failures
        /\ r.stray = b.stray
    BY <1>0, <2>3, <2>4 DEF Buffer
  <2> HIDE DEF r
  <2>6. BufOK(r)
    BY <1>0, <2>1, <2>4, <2>5, BufFields DEF BufOK
  <2> QED
    BY <2>1, <2>4, <2>5, <2>6 DEF r
<1>3. CASE ~(n < Len(b.mem)) /\ ~ok
  <2>1. r = Failed(b)
    BY <1>3 DEF egg_buffer_reserve, allocated_len
  <2>2. r.mem = b.mem
    BY <2>1, <1>0 DEF Failed, Buffer
  <2> QED
    BY <1>0, <2>1, <2>2, FailedOK
<1> QED
  BY <1>1, <1>2, <1>3

\* Bytes that are stored where there is memory for them.
LEMMA Stored ==
  ASSUME NEW b \in Buffer, NEW off \in Nat, NEW s \in Seq(Bytes), off + Len(s) <= Len(b.mem)
  PROVE  LET r == Store(b, off, s)
         IN  /\ r \in Buffer /\ r.len = b.len /\ r.failures = b.failures /\ r.stray = b.stray
             /\ Len(r.mem) = Len(b.mem)
             /\ \A i \in 1 .. Len(b.mem) :
                  r.mem[i] = IF i > off /\ i <= off + Len(s) THEN s[i - off] ELSE b.mem[i]
<1> DEFINE m == [i \in 1 .. Len(b.mem) |-> IF i > off /\ i <= off + Len(s) THEN s[i - off]
                                           ELSE b.mem[i]]
           r == Store(b, off, s)
<1>1. b.mem \in Seq(Cell) /\ Len(b.mem) \in Nat /\ DOMAIN b.mem = 1 .. Len(b.mem) /\ Len(s) \in Nat
  BY DEF Buffer
<1>2. ASSUME NEW i \in 1 .. Len(b.mem)
      PROVE  (IF i > off /\ i <= off + Len(s) THEN s[i - off] ELSE b.mem[i]) \in Cell
  <2>1. i > off /\ i <= off + Len(s) => i - off \in 1 .. Len(s)
    BY <1>1
  <2>2. b.mem[i] \in Cell
    BY <1>1
  <2>3. \A j \in 1 .. Len(s) : s[j] \in Cell
    BY <1>1 DEF Cell
  <2> QED
    BY <2>1, <2>2, <2>3
<1>3. m \in Seq(Cell) /\ Len(m) = Len(b.mem)
  BY <1>1, <1>2
<1>4. r = [b EXCEPT !.mem = m]
  BY <1>1 DEF Store, allocated_len
<1>5. \A i \in 1 .. Len(b.mem) :
        m[i] = IF i > off /\ i <= off + Len(s) THEN s[i - off] ELSE b.mem[i]
  OBVIOUS
<1> HIDE DEF m
<1>6. /\ r \in Buffer /\ r.mem = m /\ r.len = b.len /\ r.failures = b.failures /\ r.stray = b.stray
  BY <1>3, <1>4 DEF Buffer
<1> QED
  BY <1>3, <1>5, <1>6

\* Bytes that are stored from the end of the contents on, and then counted.
LEMMA Extended ==
  ASSUME NEW b, BufOK(b), NEW s \in Seq(Bytes), b.len + Len(s) <= Len(b.mem),
         NEW r \in Buffer, r.mem = Store(b, b.len, s).mem, r.len = b.len + Len(s),
         r.stray = FALSE
  PROVE  BufOK(r)
<1> DEFINE q == Store(b, b.len, s)
<1>1. b \in Buffer /\ b.len \in Nat /\ \A i \in 1 .. b.len : b.mem[i] \in Bytes
  BY BufFields DEF BufOK
<1>2. Len(s) \in Nat /\ \A i \in 1 .. Len(s) : s[i] \in Bytes
  OBVIOUS
<1>3. /\ Len(q.mem) = Len(b.mem)
      /\ \A i \in 1 .. Len(b.mem) :
           q.mem[i] = IF i > b.len /\ i <= b.len + Len(s) THEN s[i - b.len] ELSE b.mem[i]
  BY <1>1, Stored
<1> HIDE DEF q
<1>4. r.mem = q.mem
  BY DEF q
<1>5. Len(b.mem) \in Nat
  BY <1>1 DEF Buffer
<1>6. \A i \in 1 .. r.len : r.mem[i] \in Bytes
  <2> TAKE i \in 1 .. r.len
  <2>1. i \in 1 .. Len(b.mem) /\ i <= b.len + Len(s)
    BY <1>1, <1>2, <1>5
  <2>2. CASE i > b.len
    <3>1. i - b.len \in 1 .. Len(s)
      BY <1>1, <1>2, <2>1, <2>2
    <3> QED
      BY <1>2, <1>3, <1>4, <2>1, <2>2, <3>1
  <2>3. CASE ~(i > b.len)
    <3>1. i \in 1 .. b.len
      BY <1>1, <2>1, <2>3
    <3> QED
      BY <1>1, <1>3, <1>4, <2>1, <2>3, <3>1
  <2> QED
    BY <2>2, <2>3
<1> QED
  BY <1>3, <1>4, <1>6 DEF BufOK

LEMMA Appended ==
  ASSUME NEW b, BufOK(b), NEW s \in Seq(Bytes), NEW ok
  PROVE  BufOK(egg_buffer_append(b, s, ok))
<1> DEFINE r == egg_buffer_reserve(b, b.len + Len(s), ok)
           q == Store(r, r.len, s)
           e == [q EXCEPT !.len = @ + Len(s)]
<1>0. b.len \in Nat
  BY BufFields
<1>1. Len(s) \in Nat /\ b.len + Len(s) \in Nat
  BY <1>0
<1>2. BufOK(r) /\ r.len = b.len /\ (r.failures = b.failures => b.len + Len(s) <= Len(r.mem))
  BY <1>1, Reserved
<1>3. egg_buffer_append(b, s, ok) = IF r.failures # b.failures THEN r ELSE e
  BY DEF egg_buffer_append
<1> HIDE DEF r
<1>4. CASE r.failures # b.failures
  BY <1>2, <1>3, <1>4
<1>5. CASE r.failures = b.failures
  <2>1. r \in Buffer /\ r.len \in Nat /\ r.stray = FALSE
    BY <1>0, <1>2 DEF BufOK
  <2>2. r.len + Len(s) <= Len(r.mem)
    BY <1>2, <1>5
  <2>3. q \in Buffer /\ q.len = r.len /\ q.stray = r.stray
    BY <2>1, <2>2, Stored
  <2> HIDE DEF q
  <2> DEFINE n == r.len + Len(s)
  <2>7. n \in Nat
    BY <1>1, <2>1
  <2>8. e = [q EXCEPT !.len = n]
    BY <2>3
  <2> HIDE DEF n, e
  <2>9. e \in Buffer /\ e.mem = q.mem /\ e.len = n /\ e.stray = FALSE
    BY <2>1, <2>3, <2>7, <2>8 DEF Buffer
  <2>4. e \in Buffer /\ e.mem = q.mem /\ e.len = r.len + Len(s) /\ e.stray = FALSE
    BY <2>9 DEF n
  <2>5. e.mem = Store(r, r.len, s).mem
    BY <2>4 DEF q
  <2>6. BufOK(e)
    BY <1>2, <2>2, <2>4, <2>5, Extended
  <2> QED
    BY <1>3, <1>5, <2>6
<1> QED
  BY <1>4, <1>5

LEMMA WordAdded ==
  ASSUME NEW b, BufOK(b), NEW v \in Int, NEW ok
  PROVE  BufOK(egg_buffer_add_uint32(b, v, ok))
<1> DEFINE r == egg_buffer_reserve(b, b.len + WordLen, ok)
           p == [r EXCEPT !.len = @ + WordLen]
           s == egg_buffer_encode_uint32(v % WordMod)
           e == Store(p, r.len, s)
<1>0. b.len \in Nat
  BY BufFields
<1>1. WordLen \in Nat /\ b.len + WordLen \in Nat
  BY <1>0, Arithmetic
<1>2. BufOK(r) /\ r.len = b.len /\ (r.failures = b.failures => b.len + WordLen <= Len(r.mem))
  BY <1>1, Reserved
<1>3. v % WordMod \in Int
  BY Arithmetic, Remainder
<1>4. s \in Seq(Bytes) /\ Len(s) = WordLen
  BY <1>3, Encoded
<1>5. egg_buffer_add_uint32(b, v, ok)
        = IF r.failures # b.failures THEN r
          ELSE IF Beyond(p, r.len, WordLen) THEN Failed(p) ELSE e
  BY DEF egg_buffer_add_uint32, egg_buffer_set_uint32
<1> HIDE DEF r, s
<1>6. CASE r.failures # b.failures
  BY <1>2, <1>5, <1>6
<1>7. CASE r.failures = b.failures
  <2>1. r \in Buffer /\ r.len \in Nat /\ r.stray = FALSE /\ r.mem \in Seq(Cell)
    BY <1>0, <1>2 DEF BufOK, Buffer
  <2>2. r.len + WordLen <= Len(r.mem)
    BY <1>2, <1>7
  <2>3. /\ p \in Buffer /\ p.len = r.len + WordLen /\ p.mem = r.mem /\ p.stray = FALSE
    BY <1>1, <2>1 DEF Buffer
  <2> HIDE DEF p
  <2>4. ~Beyond(p, r.len, WordLen)
    BY <1>1, <2>1, <2>3 DEF Beyond
  <2>5. e \in Buffer /\ e.len = p.len /\ e.stray = p.stray
    BY <1>4, <2>1, <2>2, <2>3, Stored
  <2>6. e.mem = Store(r, r.len, s).mem
    <3>1. Store(r, r.len, s).mem
            = [i \in DOMAIN r.mem |-> IF i > r.len /\ i <= r.len + Len(s)
                                      THEN s[i - r.len] ELSE r.mem[i]]
      BY <1>4, <2>1, <2>2 DEF Store, allocated_len, Buffer
    <3>2. Store(p, r.len, s).mem
            = [i \in DOMAIN p.mem |-> IF i > r.len /\ i <= r.len + Len(s)
                                      THEN s[i - r.len] ELSE p.mem[i]]
      BY <1>4, <2>1, <2>2, <2>3 DEF Store, allocated_len, Buffer
    <3> QED
      BY <2>3, <3>1, <3>2
  <2> HIDE DEF e
  <2>7. BufOK(e)
    BY <1>2, <1>4, <2>2, <2>3, <2>5, <2>6, Extended
  <2> QED
    BY <1>5, <1>7, <2>4, <2>7
<1> QED
  BY <1>6, <1>7

LEMMA LongAdded ==
  ASSUME NEW b, BufOK(b), NEW v \in Int, NEW ok, NEW ok2
  PROVE  BufOK(egg_buffer_add_uint64(b, v, ok, ok2))
<1> DEFINE r == egg_buffer_add_uint32(b, v \div WordMod, ok)
<1>1. v \div WordMod \in Int /\ v % WordMod \in Int
  BY Arithmetic, Remainder
<1>2. BufOK(r)
  BY <1>1, WordAdded
<1>3. BufOK(egg_buffer_add_uint32(r, v % WordMod, ok2))
  BY <1>1, <1>2, WordAdded
<1> QED
  BY <1>2, <1>3 DEF egg_buffer_add_uint64

LEMMA ArrayAdded ==
  ASSUME NEW b, BufOK(b), NEW a \in [ptr : BOOLEAN, bytes : Seq(Bytes)], NEW ok, NEW ok2
  PROVE  BufOK(egg_buffer_add_byte_array(b, a, ok, ok2))
<1> DEFINE r == egg_buffer_add_uint32(b, Len(a.bytes), ok)
<1>1. a.bytes \in Seq(Bytes) /\ Len(a.bytes) \in Int /\ NullLen \in Int
  BY Arithmetic DEF NullLen
<1>2. BufOK(egg_buffer_add_uint32(b, NullLen, ok)) /\ BufOK(r) /\ BufOK(Failed(b))
  BY <1>1, WordAdded, FailedOK
<1>3. BufOK(egg_buffer_append(r, a.bytes, ok2))
  BY <1>1, <1>2, Appended
<1> QED
  BY <1>2, <1>3 DEF egg_buffer_add_byte_array

\* Every addition leaves the buffer whole.
LEMMA Added ==
  ASSUME NEW b, BufOK(b), NEW x \in Additions, NEW ok, NEW ok2
  PROVE  BufOK(Add(b, x, ok, ok2))
<1>1. CASE x \in [op : {"byte"}, val : Bytes]
  <2>1. <<x.val>> \in Seq(Bytes) /\ x.op = "byte"
    BY <1>1
  <2>2. Add(b, x, ok, ok2) = egg_buffer_append(b, <<x.val>>, ok)
    BY <2>1 DEF Add, egg_buffer_add_byte
  <2> QED
    BY <2>1, <2>2, Appended
<1>2. CASE x \in [op : {"word", "long"}, val : Nat]
  <2>1. x.val \in Int /\ x.op \in {"word", "long"}
    BY <1>2
  <2>2. Add(b, x, ok, ok2) \in {egg_buffer_add_uint32(b, x.val, ok),
                                egg_buffer_add_uint64(b, x.val, ok, ok2)}
    BY <2>1 DEF Add
  <2> QED
    BY <2>1, <2>2, WordAdded, LongAdded
<1>3. CASE x \in [op : {"array"}, val : [ptr : BOOLEAN, bytes : Seq(Bytes)]]
  <2>1. x.val \in [ptr : BOOLEAN, bytes : Seq(Bytes)] /\ x.op = "array"
    BY <1>3
  <2>2. Add(b, x, ok, ok2) = egg_buffer_add_byte_array(b, x.val, ok, ok2)
    BY <2>1 DEF Add
  <2> QED
    BY <2>1, <2>2, ArrayAdded
<1> QED
  BY <1>1, <1>2, <1>3 DEF Additions

-----------------------------------------------------------------------------
(* Reading.                                                                *)

\* A NULL array has no bytes.
Arrays == {a \in [ptr : BOOLEAN, bytes : Seq(Bytes)] : ~a.ptr => a.bytes = <<>>}

\* What a read at an offset inside the contents answers.
ReadOK(g, b, S) ==
  /\ BufOK(g.buf) /\ g.buf.len = b.len /\ g.next \in 0 .. b.len
  /\ g.ok \in BOOLEAN /\ (g.ok => g.val \in S)

LEMMA Missing ==
  ASSUME NEW b, NEW c, BufOK(c), c.len = b.len, NEW off \in 0 .. b.len, NEW S
  PROVE  ReadOK(Missed(c, off), b, S)
  BY DEF ReadOK, Missed

LEMMA Getting ==
  ASSUME NEW b, NEW c, BufOK(c), c.len = b.len, NEW off \in 0 .. b.len, NEW S, NEW v \in S
  PROVE  ReadOK(Got(c, v, off), b, S)
  BY DEF ReadOK, Got

\* Bytes inside the contents are bytes that were written.
LEMMA Inside ==
  ASSUME NEW b, BufOK(b), NEW off \in Nat, NEW n \in Nat, ~Beyond(b, off, n)
  PROVE  /\ off + n \in 0 .. b.len /\ Loaded(b, off, n) = b
         /\ Load(b, off, n) \in [1 .. n -> Bytes] /\ Load(b, off, n) \in Seq(Bytes)
<1>1. b.len \in Nat /\ Len(b.mem) \in Nat /\ b.len <= Len(b.mem) /\ b \in Buffer /\ b.stray = FALSE
  BY BufFields DEF BufOK
<1>2. off + n \in 0 .. b.len
  BY <1>1 DEF Beyond
<1> DEFINE c == Cells(b, off, n)
<1>3. ASSUME NEW i \in 1 .. n PROVE c[i] = b.mem[off + i] /\ c[i] \in Bytes /\ c[i] # Junk
  <2>1. off + i \in 1 .. b.len /\ off + i <= Len(b.mem)
    BY <1>1, <1>2
  <2>2. b.mem[off + i] \in Bytes
    BY <2>1 DEF BufOK
  <2>3. c[i] = b.mem[off + i]
    BY <2>1 DEF Cells, allocated_len
  <2> QED
    BY <2>2, <2>3, NoByte
<1> HIDE DEF c
<1>4. Loaded(b, off, n) = [b EXCEPT !.stray = FALSE]
  BY <1>1, <1>3 DEF Loaded, c
<1>5. Loaded(b, off, n) = b
  BY <1>1, <1>4 DEF Buffer
<1>6. Load(b, off, n) = [i \in 1 .. n |-> c[i]]
  BY <1>3 DEF Load, c
<1>7. Load(b, off, n) \in [1 .. n -> Bytes]
  BY <1>3, <1>6
<1> QED
  BY <1>2, <1>5, <1>7

LEMMA WordGot ==
  ASSUME NEW b, BufOK(b), NEW off \in 0 .. b.len
  PROVE  /\ ReadOK(egg_buffer_get_uint32(b, off), b, Words)
         /\ ~egg_buffer_get_uint32(b, off).ok => egg_buffer_get_uint32(b, off).next = off
<1>1. b.len \in Nat /\ WordLen \in Nat
  BY BufFields, Arithmetic
<1>2. CASE Beyond(b, off, WordLen)
  <2>1. egg_buffer_get_uint32(b, off) = Missed(Failed(b), off)
    BY <1>2 DEF egg_buffer_get_uint32
  <2>2. BufOK(Failed(b)) /\ Failed(b).len = b.len
    BY FailedOK
  <2>3. ReadOK(Missed(Failed(b), off), b, Words)
    BY <2>2, Missing
  <2> QED
    BY <2>1, <2>3 DEF Missed
<1>3. CASE ~Beyond(b, off, WordLen)
  <2> DEFINE v == egg_buffer_decode_uint32(Load(b, off, WordLen))
  <2>1. /\ off + WordLen \in 0 .. b.len /\ Loaded(b, off, WordLen) = b
        /\ Load(b, off, WordLen) \in [1 .. WordLen -> Bytes]
    BY <1>1, <1>3, Inside
  <2>2. v \in Words
    BY <2>1, Digits
  <2>3. egg_buffer_get_uint32(b, off) = Got(b, v, off + WordLen)
    BY <1>3, <2>1 DEF egg_buffer_get_uint32
  <2> HIDE DEF v
  <2>4. ReadOK(Got(b, v, off + WordLen), b, Words)
    BY <2>1, <2>2, Getting
  <2> QED
    BY <2>3, <2>4 DEF Got
<1> QED
  BY <1>2, <1>3

LEMMA ByteGot ==
  ASSUME NEW b, BufOK(b), NEW off \in 0 .. b.len
  PROVE  ReadOK(egg_buffer_get_byte(b, off), b, Nat)
<1>1. b.len \in Nat
  BY BufFields
<1>2. CASE Beyond(b, off, 1)
  <2>1. egg_buffer_get_byte(b, off) = Missed(Failed(b), off)
    BY <1>2 DEF egg_buffer_get_byte
  <2>2. BufOK(Failed(b)) /\ Failed(b).len = b.len
    BY FailedOK
  <2> QED
    BY <2>1, <2>2, Missing
<1>3. CASE ~Beyond(b, off, 1)
  <2> DEFINE v == Load(b, off, 1)[1]
  <2>1. /\ off + 1 \in 0 .. b.len /\ Loaded(b, off, 1) = b
        /\ Load(b, off, 1) \in Seq(Bytes) /\ DOMAIN Load(b, off, 1) = 1 .. 1
    <3> DEFINE n == 1
    <3>1. n \in Nat /\ off \in Nat
      BY <1>1
    <3>2. ~Beyond(b, off, n)
      BY <1>3
    <3> HIDE DEF n
    <3>3. /\ off + n \in 0 .. b.len /\ Loaded(b, off, n) = b
          /\ Load(b, off, n) \in Seq(Bytes) /\ DOMAIN Load(b, off, n) = 1 .. n
      BY <3>1, <3>2, Inside
    <3> QED
      BY <3>3 DEF n
  <2>2. v \in Nat
    <3>1. 1 \in DOMAIN Load(b, off, 1)
      BY <2>1
    <3>2. v \in Bytes
      BY <2>1, <3>1
    <3> QED
      BY <3>2, NoByte
  <2>3. egg_buffer_get_byte(b, off) = Got(b, v, off + 1)
    BY <1>3, <2>1 DEF egg_buffer_get_byte
  <2> HIDE DEF v
  <2> QED
    BY <2>1, <2>2, <2>3, Getting
<1> QED
  BY <1>2, <1>3

LEMMA LongGot ==
  ASSUME NEW b, BufOK(b), NEW off \in 0 .. b.len
  PROVE  ReadOK(egg_buffer_get_uint64(b, off), b, Nat)
<1> DEFINE hi == egg_buffer_get_uint32(b, off)
           lo == egg_buffer_get_uint32(hi.buf, hi.next)
<1>1. ReadOK(hi, b, Words)
  BY WordGot
<1>2. BufOK(hi.buf) /\ hi.buf.len = b.len /\ hi.next \in 0 .. hi.buf.len /\ hi.ok \in BOOLEAN
      /\ (hi.ok => hi.val \in Words)
  BY <1>1 DEF ReadOK
<1>3. ReadOK(lo, hi.buf, Words)
  BY <1>2, WordGot
<1>4. BufOK(lo.buf) /\ lo.buf.len = b.len /\ lo.next \in 0 .. b.len /\ lo.ok \in BOOLEAN
      /\ (lo.ok => lo.val \in Words)
  BY <1>2, <1>3 DEF ReadOK
<1>5. egg_buffer_get_uint64(b, off)
        = IF ~hi.ok THEN hi ELSE IF ~lo.ok THEN Missed(lo.buf, off)
                                 ELSE Got(lo.buf, hi.val * WordMod + lo.val, lo.next)
  BY DEF egg_buffer_get_uint64
<1> HIDE DEF hi, lo
<1>6. CASE ~hi.ok
  BY <1>1, <1>5, <1>6 DEF ReadOK
<1>7. CASE hi.ok /\ ~lo.ok
  BY <1>4, <1>5, <1>7, Missing
<1>8. CASE hi.ok /\ lo.ok
  <2>1. hi.val \in Nat /\ lo.val \in Nat /\ WordMod \in Nat
    BY <1>2, <1>4, <1>8, Arithmetic DEF Words
  <2> DEFINE v == hi.val * WordMod + lo.val
  <2>2. v \in Nat
    BY <2>1
  <2> HIDE DEF v
  <2>3. egg_buffer_get_uint64(b, off) = Got(lo.buf, v, lo.next)
    BY <1>5, <1>8 DEF v
  <2> QED
    BY <1>4, <2>2, <2>3, Getting
<1> QED
  BY <1>2, <1>4, <1>6, <1>7, <1>8

LEMMA ArrayGot ==
  ASSUME NEW b, BufOK(b), NEW off \in 0 .. b.len
  PROVE  ReadOK(egg_buffer_get_byte_array(b, off), b, Arrays)
<1> DEFINE n == egg_buffer_get_uint32(b, off)
           g == egg_buffer_get_byte_array(b, off)
<1>1. ReadOK(n, b, Words)
  BY WordGot
<1>2. BufOK(n.buf) /\ n.buf.len = b.len /\ n.next \in 0 .. n.buf.len /\ n.ok \in BOOLEAN
      /\ (n.ok => n.val \in Words)
  BY <1>1 DEF ReadOK
<1>3. BufOK(Failed(n.buf)) /\ Failed(n.buf).len = b.len /\ b.len \in Nat
  BY <1>2, FailedOK, BufFields
<1>4. /\ ~n.ok => g = n
      /\ n.ok /\ n.val = NullLen => g = Got(n.buf, [ptr |-> FALSE, bytes |-> <<>>], n.next)
      /\ n.ok /\ n.val # NullLen /\ (n.val >= TooLong \/ Beyond(n.buf, n.next, n.val))
           => g = Missed(Failed(n.buf), off)
      /\ n.ok /\ n.val # NullLen /\ ~(n.val >= TooLong \/ Beyond(n.buf, n.next, n.val))
           => g = Got(Loaded(n.buf, n.next, n.val),
                      [ptr |-> TRUE, bytes |-> Load(n.buf, n.next, n.val)], n.next + n.val)
  BY DEF egg_buffer_get_byte_array
<1> HIDE DEF n, g
<1>5. CASE ~n.ok
  <2>1. ReadOK(g, b, Arrays)
    BY <1>1, <1>4, <1>5 DEF ReadOK
  <2> QED
    BY <2>1 DEF g
<1>6. CASE n.ok /\ n.val = NullLen
  <2> DEFINE a == [ptr |-> FALSE, bytes |-> <<>>]
  <2>1. a \in Arrays
    BY DEF Arrays
  <2>2. g = Got(n.buf, a, n.next)
    BY <1>4, <1>6
  <2> HIDE DEF a
  <2>3. ReadOK(g, b, Arrays)
    BY <1>2, <2>1, <2>2, Getting
  <2> QED
    BY <2>3 DEF g
<1>7. CASE n.ok /\ n.val # NullLen /\ (n.val >= TooLong \/ Beyond(n.buf, n.next, n.val))
  <2>1. ReadOK(g, b, Arrays)
    BY <1>3, <1>4, <1>7, Missing
  <2> QED
    BY <2>1 DEF g
<1>8. CASE n.ok /\ n.val # NullLen /\ ~(n.val >= TooLong \/ Beyond(n.buf, n.next, n.val))
  <2>1. n.val \in Nat /\ n.next \in Nat
    BY <1>2, <1>3, <1>8, Arithmetic DEF Words
  <2> DEFINE s == Load(n.buf, n.next, n.val)
             a == [ptr |-> TRUE, bytes |-> s]
  <2>2. /\ n.next + n.val \in 0 .. n.buf.len /\ Loaded(n.buf, n.next, n.val) = n.buf
        /\ s \in Seq(Bytes)
    BY <1>2, <1>8, <2>1, Inside
  <2>3. g = Got(n.buf, a, n.next + n.val)
    BY <1>4, <1>8, <2>2
  <2> HIDE DEF s
  <2>4. a \in Arrays
    BY <2>2 DEF Arrays
  <2> HIDE DEF a
  <2>5. ReadOK(g, b, Arrays)
    BY <1>2, <2>2, <2>3, <2>4, Getting
  <2> QED
    BY <2>5 DEF g
<1> QED
  BY <1>2, <1>5, <1>6, <1>7, <1>8 DEF g

Ops == {"byte", "word", "long", "array"}
ValuesOf(op) == IF op = "array" THEN Arrays ELSE Nat

LEMMA GetOK ==
  ASSUME NEW b, BufOK(b), NEW off \in 0 .. b.len, NEW op \in Ops
  PROVE  ReadOK(Get(b, off, op), b, ValuesOf(op))
<1>1. ReadOK(egg_buffer_get_uint32(b, off), b, Nat)
  <2>1. ReadOK(egg_buffer_get_uint32(b, off), b, Words) /\ Words \subseteq Nat
    BY WordGot, Arithmetic DEF Words
  <2> QED
    BY <2>1 DEF ReadOK
<1>2. /\ ReadOK(egg_buffer_get_byte(b, off), b, Nat)
      /\ ReadOK(egg_buffer_get_uint64(b, off), b, Nat)
      /\ ReadOK(egg_buffer_get_byte_array(b, off), b, Arrays)
  BY ByteGot, LongGot, ArrayGot
<1>3. CASE op = "byte"
  BY <1>2, <1>3 DEF Get, ValuesOf
<1>4. CASE op = "word"
  BY <1>1, <1>4 DEF Get, ValuesOf
<1>5. CASE op = "long"
  BY <1>2, <1>5 DEF Get, ValuesOf
<1>6. CASE op = "array"
  BY <1>2, <1>6 DEF Get, ValuesOf
<1> QED
  BY <1>3, <1>4, <1>5, <1>6 DEF Ops

LEMMA ParseOK ==
  ASSUME NEW b, BufOK(b), NEW dir
  PROVE  LET p == message_parse(b, dir)
         IN  /\ BufOK(p.buf) /\ p.buf.len = b.len /\ p.parsed \in 0 .. b.len
             /\ p.ok \in BOOLEAN /\ p.id \in DOMAIN Calls \cup {ERROR}
<1> DEFINE p == message_parse(b, dir)
           n == egg_buffer_get_uint32(b, 0)
           a == egg_buffer_get_byte_array(n.buf, n.next)
<1>0. b.len \in Nat
  BY BufFields
<1>1. 0 \in 0 .. b.len
  BY <1>0
<1>2. ReadOK(n, b, Words)
  BY <1>1, WordGot
<1>3. BufOK(n.buf) /\ n.buf.len = b.len /\ n.next \in 0 .. n.buf.len /\ n.ok \in BOOLEAN
  BY <1>2 DEF ReadOK
<1>4. ReadOK(a, n.buf, Arrays)
  BY <1>3, ArrayGot
<1>5. BufOK(a.buf) /\ a.buf.len = b.len /\ a.next \in 0 .. b.len /\ a.ok \in BOOLEAN
  BY <1>3, <1>4 DEF ReadOK
<1>6. /\ ~(n.ok /\ n.val \in DOMAIN Calls) =>
           p = [buf |-> n.buf, ok |-> n.ok /\ n.val = ERROR /\ dir = "response", id |-> ERROR,
                parsed |-> n.next]
      /\ n.ok /\ n.val \in DOMAIN Calls =>
           p = [buf |-> a.buf, ok |-> a.ok /\ a.val.bytes = signature(dir, n.val), id |-> n.val,
                parsed |-> a.next]
  BY DEF message_parse
<1> HIDE DEF p, n, a
<1>7. CASE ~(n.ok /\ n.val \in DOMAIN Calls)
  <2>1. /\ p.buf = n.buf /\ p.id = ERROR /\ p.parsed = n.next
        /\ p.ok = (n.ok /\ n.val = ERROR /\ dir = "response")
    BY <1>6, <1>7
  <2>2. BufOK(p.buf) /\ p.buf.len = b.len /\ p.parsed \in 0 .. b.len /\ p.ok \in BOOLEAN
        /\ p.id \in DOMAIN Calls \cup {ERROR}
    BY <1>3, <2>1
  <2> QED
    BY <2>2 DEF p
<1>8. CASE n.ok /\ n.val \in DOMAIN Calls
  <2>1. /\ p.buf = a.buf /\ p.id = n.val /\ p.parsed = a.next
        /\ p.ok = (a.ok /\ a.val.bytes = signature(dir, n.val))
    BY <1>6, <1>8
  <2>2. BufOK(p.buf) /\ p.buf.len = b.len /\ p.parsed \in 0 .. b.len /\ p.ok \in BOOLEAN
        /\ p.id \in DOMAIN Calls \cup {ERROR}
    BY <1>5, <1>8, <2>1
  <2> QED
    BY <2>2 DEF p
<1> QED
  BY <1>7, <1>8

-----------------------------------------------------------------------------
(* What has been read of a part.                                           *)

OpsOf(part, h, g) == IF h = <<>> THEN HeadGets(part, g) ELSE ElemGets(part, g)

\* The values read so far are of the kinds that were to be read.
Typed(part, h, g) ==
  \A i \in 1 .. Len(g) : g[i] \in ValuesOf(OpsOf(part, h, g)[i])

LEMMA OpsKnown ==
  ASSUME NEW part \in DOMAIN Letters, NEW h, NEW g, h # <<>> => HasElems(part)
  PROVE  OpsOf(part, h, g) \in Seq(Ops)
<1>1. part \in {"y", "u", "v", "s", "M", "ay", "au", "aA", "fy", "fu", "fA"}
  BY DEF Letters
<1>4. "byte" \in Ops /\ "word" \in Ops /\ "long" \in Ops /\ "array" \in Ops
  BY DEF Ops
<1>5. /\ <<"byte">> \in Seq(Ops) /\ <<"long">> \in Seq(Ops) /\ <<"array">> \in Seq(Ops)
      /\ <<"word">> \in Seq(Ops)
  BY <1>4
<1>6. /\ <<"byte", "byte">> \in Seq(Ops) /\ <<"word", "array">> \in Seq(Ops)
      /\ <<"byte", "word">> \in Seq(Ops) /\ <<"byte", "array">> \in Seq(Ops)
      /\ <<"word", "word">> \in Seq(Ops) /\ <<"word", "byte">> \in Seq(Ops)
  BY <1>4
<1>7. <<"word", "byte", "word", "array">> \in Seq(Ops)
  BY <1>4
<1>2. HeadGets(part, g) \in Seq(Ops)
  BY <1>1, <1>5, <1>6, Zenon DEF HeadGets
<1>3. HasElems(part) => ElemGets(part, g) \in Seq(Ops)
  BY <1>5, <1>6, <1>7 DEF HasElems, ElemGets
<1> QED
  BY <1>2, <1>3 DEF OpsOf

\* What has been read decides what is read next, never what was read before.
LEMMA OpsStable ==
  ASSUME NEW part \in DOMAIN Letters, NEW h, NEW S, NEW g \in Seq(S), NEW x \in S,
         h # <<>> => HasElems(part), NEW i \in 1 .. Len(g) + 1
  PROVE  OpsOf(part, h, Append(g, x))[i] = OpsOf(part, h, g)[i]
<1>1. /\ Len(Append(g, x)) = Len(g) + 1 /\ Len(g) \in Nat
      /\ \A j \in 1 .. Len(g) : Append(g, x)[j] = g[j]
      /\ Append(g, x) # <<>> /\ (g # <<>> => Len(g) >= 1)
  OBVIOUS
<1> DEFINE a == Append(g, x)
<1>2. HeadGets(part, a)[i] = HeadGets(part, g)[i]
  <2>1. CASE part = "ay"
    <3>1. CASE g = <<>>
      <4>1. i = 1
        BY <3>1, <1>1
      <4> QED
        BY <2>1, <4>1 DEF HeadGets
    <3>2. CASE g # <<>>
      BY <1>1, <2>1, <3>2 DEF HeadGets
    <3> QED
      BY <3>1, <3>2
  <2>2. CASE part # "ay"
    BY <2>2 DEF HeadGets
  <2> QED
    BY <2>1, <2>2
<1>3. HasElems(part) => ElemGets(part, a)[i] = ElemGets(part, g)[i]
  <2>1. CASE part = "aA" /\ Len(g) >= 2
    BY <1>1, <2>1 DEF ElemGets
  <2>2. CASE part = "aA" /\ ~(Len(g) >= 2)
    <3>1. i \in {1, 2}
      BY <1>1, <2>2
    <3> QED
      BY <2>2, <3>1 DEF ElemGets
  <2>3. CASE part \in {"au", "fA"}
    BY <2>3 DEF ElemGets
  <2> QED
    BY <2>1, <2>2, <2>3 DEF HasElems
<1> QED
  BY <1>2, <1>3 DEF OpsOf

LEMMA TypedNext ==
  ASSUME NEW part \in DOMAIN Letters, NEW h, NEW S, NEW g \in Seq(S), NEW x \in S,
         h # <<>> => HasElems(part), Typed(part, h, g),
         x \in ValuesOf(OpsOf(part, h, g)[Len(g) + 1])
  PROVE  Typed(part, h, Append(g, x))
<1> DEFINE a == Append(g, x)
<1>1. /\ Len(a) = Len(g) + 1 /\ Len(g) \in Nat /\ a[Len(g) + 1] = x
      /\ \A j \in 1 .. Len(g) : a[j] = g[j]
  OBVIOUS
<1>2. \A i \in 1 .. Len(g) + 1 : OpsOf(part, h, a)[i] = OpsOf(part, h, g)[i]
  BY OpsStable
<1> HIDE DEF a
<1>3. ASSUME NEW i \in 1 .. Len(a) PROVE a[i] \in ValuesOf(OpsOf(part, h, a)[i])
  <2>1. i \in 1 .. Len(g) \/ i = Len(g) + 1
    BY <1>1
  <2>2. OpsOf(part, h, a)[i] = OpsOf(part, h, g)[i]
    BY <1>1, <1>2
  <2> QED
    BY <1>1, <2>1, <2>2 DEF Typed
<1> QED
  BY <1>3 DEF Typed, a
-----------------------------------------------------------------------------
(* The inductive invariant.                                                *)

Early    == {"write", "send", "receive", "parse"}
Endings  == {"none", "OK", "code", "HOST_MEMORY", "DEVICE_MEMORY", "DEVICE_ERROR",
             "BUFFER_TOO_SMALL", "CLOSED", "ABORT"}
Values   == Nat \cup Arrays

TextOK ==
  /\ msg.dir \in {"request", "response"} /\ msg.id \in DOMAIN Calls \cup {ERROR}
  /\ pc # "idle" => \A n \in DOMAIN Parts(msg.dir, msg.id) :
                      write_part(Parts(msg.dir, msg.id)[n], msg.vals[n]) \in Seq(Additions)
  /\ room \in Rooms \cup {0}

WriterOK == BufOK(wbuf) /\ todo \in Seq(Additions) /\ wire \in Seq(Bytes)

\* Nothing has been read before the message is there.
ReaderOK ==
  /\ BufOK(rbuf) /\ parsed \in 0 .. rbuf.len /\ id \in DOMAIN Calls \cup {ERROR}
  /\ pc \in Early => parsed = 0 /\ head = <<>> /\ got = <<>>

\* What has been read of a part is what was to be read, and nothing is left
\* over when the part is complete.
PartOK ==
  pc = "read" =>
    /\ k > 0 /\ got \in Seq(Values)
    /\ ~AtEnd => Typed(Part, head, got) /\ (Complete => got = <<>>)

HistOK ==
  /\ damaged \in BOOLEAN /\ accepted \in BOOLEAN /\ nomem \in BOOLEAN /\ overread \in BOOLEAN
  /\ overrun = FALSE

Inv ==
  /\ pc \in {"idle", "write", "send", "receive", "parse", "read", "done"}
  /\ k \in Nat /\ ret \in Endings
  /\ TextOK /\ WriterOK /\ ReaderOK /\ PartOK /\ HistOK

LEMMA PartsKnown ==
  ASSUME NEW dir \in {"request", "response"}, NEW c \in DOMAIN Calls \cup {ERROR}
  PROVE  Parts(dir, c) \in Seq(DOMAIN Letters)
<1>1. "u" \in DOMAIN Letters
  BY DEF Letters
<1>2. <<"u">> \in Seq(DOMAIN Letters)
  BY <1>1
<1>3. c # ERROR => Calls[c][dir] \in Seq(DOMAIN Letters)
  BY MessageTexts
<1> QED
  BY <1>2, <1>3 DEF Parts

LEMMA HeadKnown ==
  ASSUME NEW dir \in {"request", "response"}, NEW c \in DOMAIN Calls \cup {ERROR}
  PROVE  message_head(dir, c) \in Seq(Additions)
<1>1. c \in Nat
  BY MessageTexts DEF ERROR
<1>2. [op |-> "word", val |-> c] \in Additions
  BY <1>1 DEF Additions
<1>3. Word(c) \in Seq(Additions)
  BY <1>2 DEF Word
<1>4. CASE c = ERROR
  <2>1. message_head(dir, c) = Word(c) \o <<>>
    BY <1>4 DEF message_head
  <2> QED
    BY <1>3, <2>1
<1>5. CASE c # ERROR
  <2> DEFINE s == signature(dir, c)
  <2>1. s \in Seq(Bytes)
    BY <1>5, MessageTexts
  <2>2. message_head(dir, c) = Word(c) \o Array(TRUE, s)
    BY <1>5 DEF message_head
  <2> HIDE DEF s
  <2>3. [op |-> "array", val |-> [ptr |-> TRUE, bytes |-> s]] \in Additions
    BY <2>1 DEF Additions
  <2>4. Array(TRUE, s) \in Seq(Additions)
    BY <2>3 DEF Array
  <2>5. \A x, y \in Seq(Additions) : x \o y \in Seq(Additions)
    OBVIOUS
  <2> QED
    BY <1>3, <2>2, <2>4, <2>5, Zenon
<1> QED
  BY <1>4, <1>5

LEMMA InitInv == Init => Inv
<1> SUFFICES ASSUME Init PROVE Inv
  OBVIOUS
<1>1. FirstSize \in Nat
  BY MessageAssumption
<1>2. BufOK(wbuf) /\ BufOK(rbuf) /\ rbuf.len = 0
  BY <1>1, InitOK DEF Init
<1>3. TextOK
  BY MessageTexts DEF Init, TextOK, EmptyText
<1>4. WriterOK
  BY <1>2 DEF Init, WriterOK
<1>5. ReaderOK
  BY <1>2 DEF Init, ReaderOK, Early
<1>6. PartOK /\ HistOK
  BY DEF Init, PartOK, HistOK
<1> QED
  BY <1>3, <1>4, <1>5, <1>6 DEF Init, Inv, Endings

LEMMA PrepStep ==
  ASSUME Inv, NEW i \in DOMAIN Texts, message_prep(Texts[i])
  PROVE  Inv'
<1> DEFINE t == Texts[i]
<1>1. /\ t.dir \in {"request", "response"} /\ t.id \in DOMAIN Calls \cup {ERROR}
      /\ \A n \in DOMAIN Parts(t.dir, t.id) :
           write_part(Parts(t.dir, t.id)[n], t.vals[n]) \in Seq(Additions)
  BY MessageTexts
<1>2. msg' = t /\ room' \in Rooms /\ pc' = "write"
  BY DEF message_prep
<1>3. TextOK'
  BY <1>1, <1>2 DEF TextOK
<1>4. message_head(t.dir, t.id) \in Seq(Additions)
  BY <1>1, HeadKnown
<1>5. BufOK(egg_buffer_reset(wbuf))
  BY ResetOK DEF Inv, WriterOK
<1>6. WriterOK'
  BY <1>4, <1>5 DEF message_prep, WriterOK, Inv
<1>7. BufOK(rbuf) /\ rbuf.len \in Nat
  BY BufFields DEF Inv, ReaderOK
<1>8. ReaderOK'
  BY <1>7 DEF message_prep, ReaderOK
<1>9. PartOK' /\ HistOK'
  BY <1>2 DEF message_prep, PartOK, HistOK, Inv
<1> QED
  BY <1>3, <1>6, <1>8, <1>9 DEF message_prep, Inv, Endings

LEMMA AddStep ==
  ASSUME Inv, AddNext
  PROVE  Inv'
<1>1. PICK ok \in MemAnswers, ok2 \in MemAnswers :
        wbuf' = Add(wbuf, Head(todo), ok, ok2)
        /\ nomem' = (nomem \/ wbuf' # Add(wbuf, Head(todo), TRUE, TRUE))
  BY DEF AddNext
<1>2. Head(todo) \in Additions /\ Tail(todo) \in Seq(Additions)
  BY DEF Inv, WriterOK, AddNext
<1>3. BufOK(wbuf')
  BY <1>1, <1>2, Added DEF Inv, WriterOK
<1>4. WriterOK'
  BY <1>2, <1>3 DEF Inv, WriterOK, AddNext
<1>5. nomem' \in BOOLEAN
  BY <1>1 DEF Inv, HistOK
<1>6. TextOK'
  BY DEF Inv, TextOK, AddNext, text
<1>7. ReaderOK'
  BY DEF Inv, ReaderOK, AddNext, reader
<1>8. PartOK' /\ HistOK'
  BY <1>5 DEF Inv, PartOK, HistOK, AddNext, reader
<1> QED
  BY <1>4, <1>6, <1>7, <1>8 DEF AddNext, Inv

LEMMA WroteStep ==
  ASSUME Inv, Wrote
  PROVE  Inv'
<1>1. /\ UNCHANGED <<text, reader, wbuf, wire, damaged, nomem>> /\ pc = "write"
      /\ pc' \in {"write", "send", "done"} /\ ret' \in Endings
  BY DEF Wrote, WrotePart, WriteFailed, WroteAll, Inv, Endings
<1>2. k' \in Nat /\ todo' \in Seq(Additions)
  <2>1. CASE WrotePart
    <3>1. Parts(msg.dir, msg.id) \in Seq(DOMAIN Letters) /\ k \in Nat
      BY PartsKnown DEF Inv, TextOK
    <3>2. k + 1 \in DOMAIN Parts(msg.dir, msg.id)
      BY <2>1, <3>1 DEF WrotePart
    <3> QED
      BY <1>1, <2>1, <3>1, <3>2 DEF WrotePart, Inv, TextOK
  <2>2. CASE WriteFailed \/ WroteAll
    BY <2>2 DEF WriteFailed, WroteAll, Inv, WriterOK
  <2> QED
    BY <2>1, <2>2 DEF Wrote
<1>3. TextOK'
  BY <1>1 DEF Inv, TextOK, text
<1>4. WriterOK'
  BY <1>1, <1>2 DEF Inv, WriterOK
<1>5. ReaderOK'
  BY <1>1 DEF Inv, ReaderOK, reader, Early
<1>6. PartOK' /\ HistOK'
  BY <1>1 DEF Inv, PartOK, HistOK, reader
<1> QED
  BY <1>1, <1>2, <1>3, <1>4, <1>5, <1>6 DEF Inv

LEMMA SendStep ==
  ASSUME Inv, Send
  PROVE  Inv'
<1> DEFINE bytes == SubSeq(wbuf.mem, 1, wbuf.len)
<1>1. bytes \in Seq(Bytes)
  <2>1. /\ wbuf.mem \in Seq(Cell) /\ Len(wbuf.mem) \in Nat /\ wbuf.len \in Nat
        /\ wbuf.len <= Len(wbuf.mem) /\ \A i \in 1 .. wbuf.len : wbuf.mem[i] \in Bytes
    BY BufFields DEF Inv, WriterOK
  <2>2. bytes \in Seq(Cell) /\ Len(bytes) = wbuf.len
        /\ \A i \in 1 .. wbuf.len : bytes[i] = wbuf.mem[i]
    BY <2>1
  <2> QED
    BY <2>1, <2>2
<1>2. wire' \in {bytes} \cup Damaged(bytes) /\ damaged' = (wire' # bytes)
  BY DEF Send
<1> HIDE DEF bytes
<1>3. \A n \in 1 .. Len(bytes) - 1 : SubSeq(bytes, 1, n) \in Seq(Bytes)
  BY <1>1
<1>4. \A i, x \in Bytes : [bytes EXCEPT ![i] = x] \in Seq(Bytes)
  <2> TAKE i, x \in Bytes
  <2>1. bytes \in [1 .. Len(bytes) -> Bytes] /\ Len(bytes) \in Nat
    BY <1>1
  <2>2. [bytes EXCEPT ![i] = x] \in [1 .. Len(bytes) -> Bytes]
    BY <2>1
  <2> QED
    BY <2>1, <2>2
<1>5. Damaged(bytes) \subseteq Seq(Bytes)
  BY <1>1, <1>3, <1>4 DEF Damaged
<1>6. wire' \in Seq(Bytes) /\ damaged' \in BOOLEAN
  BY <1>1, <1>2, <1>5
<1>7. /\ UNCHANGED <<text, reader, wbuf, k, todo, ret, nomem>> /\ pc = "send" /\ pc' = "receive"
  BY DEF Send
<1>8. TextOK'
  BY <1>7 DEF Inv, TextOK, text
<1>9. WriterOK'
  BY <1>6, <1>7 DEF Inv, WriterOK
<1>10. ReaderOK'
  BY <1>7 DEF Inv, ReaderOK, reader, Early
<1>11. PartOK' /\ HistOK'
  BY <1>6, <1>7 DEF Inv, PartOK, HistOK, reader
<1> QED
  BY <1>7, <1>8, <1>9, <1>10, <1>11 DEF Inv

\* The bytes of a message are stored in memory that was reserved for them.
LEMMA Taken ==
  ASSUME NEW b, BufOK(b), b.len = 0, b.failures = 0, NEW n \in Nat, NEW s \in Seq(Bytes),
         Len(s) = n, NEW ok, ~egg_buffer_has_error(egg_buffer_reserve(b, n, ok))
  PROVE  BufOK(egg_buffer_add_empty(Store(egg_buffer_reserve(b, n, ok), 0, s), n, ok))
<1> DEFINE r == egg_buffer_reserve(b, n, ok)
           c == Store(r, 0, s)
           q == egg_buffer_reserve(c, c.len + n, ok)
           e == [q EXCEPT !.len = @ + n]
<1>1. BufOK(r) /\ r.len = 0 /\ (r.failures = b.failures => n <= Len(r.mem))
  BY Reserved
<1>2. r \in Buffer /\ r.failures = 0 /\ r.stray = FALSE
  BY <1>1 DEF BufOK, Buffer, egg_buffer_has_error
<1>3. n <= Len(r.mem)
  BY <1>1, <1>2
<1> HIDE DEF r
<1>4. /\ c \in Buffer /\ c.len = r.len /\ c.stray = r.stray /\ Len(c.mem) = Len(r.mem)
      /\ \A i \in 1 .. Len(r.mem) :
           c.mem[i] = IF i > 0 /\ i <= 0 + Len(s) THEN s[i - 0] ELSE r.mem[i]
  BY <1>2, <1>3, Stored
<1>5. Len(r.mem) \in Nat
  BY <1>2 DEF Buffer
<1>6. \A i \in 1 .. n : c.mem[i] \in Bytes
  <2> TAKE i \in 1 .. n
  <2>1. i \in 1 .. Len(r.mem) /\ i \in 1 .. Len(s) /\ i - 0 = i
    BY <1>3, <1>5
  <2>2. c.mem[i] = s[i]
    BY <1>4, <2>1
  <2> QED
    BY <2>1, <2>2
<1> HIDE DEF c
<1>7. BufOK(c) /\ c.len = 0 /\ c.len + n = n
  BY <1>1, <1>2, <1>4, <1>5 DEF BufOK
<1>8. /\ BufOK(q) /\ q.len = 0 /\ (q.failures = c.failures => n <= Len(q.mem))
      /\ Len(c.mem) <= Len(q.mem) /\ \A i \in 1 .. Len(c.mem) : q.mem[i] = c.mem[i]
  BY <1>7, Reserved
<1>9. egg_buffer_add_empty(c, n, ok) = IF q.failures # c.failures THEN q ELSE e
  BY DEF egg_buffer_add_empty
<1> HIDE DEF q
<1>10. q \in Buffer /\ q.stray = FALSE
  BY <1>8 DEF BufOK
<1>11. e = [q EXCEPT !.len = n]
  BY <1>8
<1> HIDE DEF e
<1>12. e \in Buffer /\ e.mem = q.mem /\ e.len = n /\ e.stray = FALSE
  BY <1>10, <1>11 DEF Buffer
<1>13. \A i \in 1 .. n : q.mem[i] \in Bytes
  <2> TAKE i \in 1 .. n
  <2>1. i \in 1 .. Len(c.mem)
    BY <1>3, <1>4, <1>5
  <2> QED
    BY <1>6, <1>8, <2>1
<1>14. n <= Len(q.mem)
  BY <1>3, <1>4, <1>5, <1>8, <1>10 DEF Buffer
<1>15. BufOK(e)
  BY <1>12, <1>13, <1>14 DEF BufOK
<1> QED
  BY <1>8, <1>9, <1>15 DEF c, r

LEMMA ReceiveStep ==
  ASSUME Inv, Receive
  PROVE  Inv'
<1> DEFINE n == Len(wire) % WordMod
           b == egg_buffer_reset(rbuf)
<1>1. n \in Nat /\ n <= Len(wire)
  BY Arithmetic, Remainder DEF Inv, WriterOK
<1>2. BufOK(b) /\ b.len = 0 /\ b.failures = 0
  BY ResetOK DEF Inv, ReaderOK
<1>3. SubSeq(wire, 1, n) \in Seq(Bytes) /\ Len(SubSeq(wire, 1, n)) = n
      /\ SubSeq(wire, n + 1, Len(wire)) \in Seq(Bytes)
  BY <1>1 DEF Inv, WriterOK
<1>4. /\ pc = "receive" /\ pc' \in {"parse", "done"} /\ ret' \in Endings /\ nomem' \in BOOLEAN
      /\ UNCHANGED <<text, wbuf, k, todo, damaged, id, accepted, parsed, head, elems, got, seen,
                     overrun, overread>>
  BY DEF Receive, Inv, HistOK, Endings
<1>5. BufOK(rbuf') /\ wire' \in Seq(Bytes)
  <2>1. CASE rbuf' = b /\ wire' = wire
    BY <1>2, <2>1 DEF Inv, WriterOK
  <2>2. CASE \E ok \in MemAnswers :
               LET r == egg_buffer_reserve(b, n, ok)
               IN  IF egg_buffer_has_error(r) THEN rbuf' = r /\ wire' = wire
                   ELSE /\ rbuf' = egg_buffer_add_empty(Store(r, 0, SubSeq(wire, 1, n)), n, ok)
                        /\ wire' = SubSeq(wire, n + 1, Len(wire))
    <3>1. PICK ok \in MemAnswers :
               LET r == egg_buffer_reserve(b, n, ok)
               IN  IF egg_buffer_has_error(r) THEN rbuf' = r /\ wire' = wire
                   ELSE /\ rbuf' = egg_buffer_add_empty(Store(r, 0, SubSeq(wire, 1, n)), n, ok)
                        /\ wire' = SubSeq(wire, n + 1, Len(wire))
      BY <2>2
    <3>2. CASE egg_buffer_has_error(egg_buffer_reserve(b, n, ok))
      <4>1. BufOK(egg_buffer_reserve(b, n, ok))
        BY <1>1, <1>2, Reserved
      <4> QED
        BY <3>1, <3>2, <4>1 DEF Inv, WriterOK
    <3>3. CASE ~egg_buffer_has_error(egg_buffer_reserve(b, n, ok))
      <4> HIDE DEF n, b
      <4>1. BufOK(egg_buffer_add_empty(Store(egg_buffer_reserve(b, n, ok), 0,
                                             SubSeq(wire, 1, n)), n, ok))
        BY <1>1, <1>2, <1>3, <3>3, Taken
      <4> QED
        BY <1>3, <3>1, <3>3, <4>1
    <3> QED
      BY <3>2, <3>3
  <2> QED
    BY <2>1, <2>2 DEF Receive
<1>6. TextOK'
  BY <1>4 DEF Inv, TextOK, text
<1>7. WriterOK'
  BY <1>4, <1>5 DEF Inv, WriterOK
<1>8. ReaderOK'
  <2>1. rbuf'.len \in Nat /\ parsed' = 0 /\ head' = <<>> /\ got' = <<>>
    BY <1>4, <1>5, BufFields DEF Inv, ReaderOK, Early
  <2> QED
    BY <1>4, <1>5, <2>1 DEF Inv, ReaderOK
<1>9. PartOK' /\ HistOK'
  BY <1>4 DEF Inv, PartOK, HistOK
<1> QED
  BY <1>4, <1>6, <1>7, <1>8, <1>9 DEF Inv

LEMMA ParseStep ==
  ASSUME Inv, ParseRequest \/ ParseResponse
  PROVE  Inv'
<1> DEFINE p    == message_parse(rbuf, msg.dir)
           code == egg_buffer_get_uint64(p.buf, p.parsed)
<1>1. /\ BufOK(p.buf) /\ p.buf.len = rbuf.len /\ p.parsed \in 0 .. p.buf.len
      /\ p.ok \in BOOLEAN /\ p.id \in DOMAIN Calls \cup {ERROR}
  BY ParseOK DEF Inv, ReaderOK
<1>2. BufOK(code.buf) /\ code.buf.len = rbuf.len /\ code.next \in 0 .. code.buf.len
  BY <1>1, LongGot DEF ReadOK
<1>3. /\ UNCHANGED <<text, wbuf, todo, wire, damaged, head, elems, got, nomem, overrun, overread>>
      /\ pc = "parse"
  BY DEF ParseRequest, ParseResponse
<1>4. /\ id' = p.id /\ accepted' = p.ok
      /\ (rbuf' = p.buf /\ parsed' = p.parsed) \/ (rbuf' = code.buf /\ parsed' = code.next)
      /\ \/ pc' = "read" /\ k' = 1 /\ ret' = ret
         \/ pc' = "done" /\ ret' \in Endings /\ k' = k
  <2>1. CASE ParseRequest
    BY <2>1 DEF ParseRequest, Parsed, Believed, End, Endings
  <2>2. CASE ParseResponse
    BY <2>2 DEF ParseResponse, Parsed, Believed, End, Endings
  <2> QED
    BY <2>1, <2>2
<1> HIDE DEF p, code
<1>5. TextOK'
  BY <1>3, <1>4 DEF Inv, TextOK, text
<1>6. WriterOK'
  BY <1>3 DEF Inv, WriterOK
<1>7. ReaderOK'
  BY <1>1, <1>2, <1>4 DEF ReaderOK, Early
<1>8. k' \in Nat /\ (pc' = "read" => k' > 0) /\ head' = <<>> /\ got' = <<>>
  BY <1>3, <1>4 DEF Inv, ReaderOK, Early
<1>9. PartOK'
  BY <1>8 DEF PartOK, Typed
<1>10. HistOK'
  BY <1>1, <1>3, <1>4 DEF Inv, HistOK
<1> QED
  BY <1>4, <1>5, <1>6, <1>7, <1>8, <1>9, <1>10 DEF Inv

\* The part that is being read is one there is.
LEMMA PartKnown ==
  ASSUME Inv, pc = "read", ~AtEnd
  PROVE  Part \in DOMAIN Letters /\ got \in Seq(Values) /\ Typed(Part, head, got)
<1>1. Parts(msg.dir, id) \in Seq(DOMAIN Letters)
  BY PartsKnown DEF Inv, TextOK, ReaderOK
<1>2. k \in 1 .. Len(Parts(msg.dir, id))
  BY <1>1 DEF Inv, PartOK, AtEnd
<1> QED
  BY <1>1, <1>2 DEF Part, Inv, PartOK

LEMMA GetStep ==
  ASSUME Inv, GetNext
  PROVE  Inv'
<1> DEFINE op == Gets[Len(got) + 1]
           g  == Get(rbuf, parsed, op)
<1>1. pc = "read" /\ ~AtEnd /\ ~Complete /\ Len(got) < Len(Gets)
  BY DEF GetNext
<1>2. Part \in DOMAIN Letters /\ got \in Seq(Values) /\ Typed(Part, head, got)
  BY <1>1, PartKnown
<1>3. head # <<>> => HasElems(Part)
  BY <1>1 DEF Complete
<1>4. Gets = OpsOf(Part, head, got) /\ Gets \in Seq(Ops)
  BY <1>2, <1>3, OpsKnown DEF Gets, OpsOf
<1>5. op \in Ops
  <2>1. Len(got) + 1 \in 1 .. Len(Gets)
    BY <1>1, <1>2, <1>4
  <2> QED
    BY <1>4, <2>1
<1>6. ReadOK(g, rbuf, ValuesOf(op))
  BY <1>5, GetOK DEF Inv, ReaderOK
<1>7. /\ rbuf' = g.buf /\ parsed' = g.next
      /\ g.ok => got' = Append(got, g.val) /\ UNCHANGED <<pc, ret, k>>
      /\ ~g.ok => pc' = "done" /\ ret' = "DEVICE_ERROR" /\ k' = k /\ got' = got
      /\ UNCHANGED <<text, wbuf, todo, wire, damaged, id, accepted, head, elems, seen, nomem,
                     overrun, overread>>
  BY DEF GetNext, End
<1> HIDE DEF g
<1>8. pc' \in {"read", "done"} /\ k' = k /\ ret' \in Endings
  BY <1>1, <1>6, <1>7 DEF ReadOK, Inv, Endings
<1>9. TextOK'
  BY <1>1, <1>7 DEF Inv, TextOK, text
<1>10. WriterOK'
  BY <1>7 DEF Inv, WriterOK
<1>11. ReaderOK'
  BY <1>6, <1>7, <1>8 DEF Inv, ReaderOK, ReadOK, Early
<1>12. PartOK'
  <2>1. CASE g.ok
    <3>1. g.val \in ValuesOf(op) /\ g.val \in Values
      BY <1>6, <2>1 DEF ReadOK, ValuesOf, Values
    <3>2. g.val \in ValuesOf(OpsOf(Part, head, got)[Len(got) + 1])
      BY <1>4, <3>1
    <3>3. Typed(Part, head, Append(got, g.val)) /\ Append(got, g.val) \in Seq(Values)
      BY <1>2, <1>3, <3>1, <3>2, TypedNext
    <3>4. UNCHANGED <<msg, id, k, head, elems, pc>> /\ got' = Append(got, g.val)
      BY <1>7, <2>1 DEF text
    <3>5. Part' = Part /\ Complete' = Complete /\ Typed(Part, head, got)' = Typed(Part, head, got')
      BY <3>4 DEF Part, Complete
    <3> QED
      BY <1>1, <3>3, <3>4, <3>5 DEF PartOK, Inv
  <2>2. CASE ~g.ok
    BY <1>7, <2>2 DEF PartOK
  <2> QED
    BY <2>1, <2>2
<1>13. HistOK'
  BY <1>7 DEF Inv, HistOK
<1> QED
  BY <1>8, <1>9, <1>10, <1>11, <1>12, <1>13 DEF Inv

LEMMA RoomKnown ==
  ASSUME Inv
  PROVE  room \in Nat
<1>1. Rooms \subseteq Nat
  BY MessageTexts
<1> QED
  BY <1>1 DEF Inv, TextOK

\* A result that is copied from the head of a part was compared with the
\* room there is for it.
LEMMA HeadFits ==
  ASSUME Inv, pc = "read", ~AtEnd, head = <<>>, Len(got) = Len(Gets),
         msg.dir = "response", ~TooSmall
  PROVE  ~(CopiedHead > room)
<1>1. room \in Nat
  BY RoomKnown
<1>2. got \in Seq(Values) /\ Typed(Part, head, got)
  BY PartKnown
<1>3. Gets = HeadGets(Part, got) /\ OpsOf(Part, head, got) = HeadGets(Part, got)
  BY DEF Gets, OpsOf
<1>4. \A i \in 1 .. Len(got) : got[i] \in ValuesOf(HeadGets(Part, got)[i])
  BY <1>2, <1>3 DEF Typed
<1>5. CASE Part = "ay"
  <2>1. got[1] # 0 /\ Fits(Len(got[2].bytes))
    BY <1>5 DEF TooSmall
  <2>2. HeadGets(Part, got) = <<"byte", "array">>
    BY <1>5, <2>1 DEF HeadGets
  <2>3. Len(got) = 2
    BY <1>3, <2>2
  <2>4. got[2] \in ValuesOf("array")
    BY <1>4, <2>2, <2>3
  <2>5. Len(got[2].bytes) \in Nat
    BY <2>4 DEF ValuesOf, Arrays
  <2> QED
    BY <1>1, <1>5, <2>1, <2>5 DEF CopiedHead, Fits
<1>6. CASE Part = "au"
  <2>1. Fits(got[2])
    BY <1>6 DEF TooSmall
  <2>2. HeadGets(Part, got) = <<"byte", "word">>
    BY <1>6 DEF HeadGets
  <2>3. Len(got) = 2
    BY <1>3, <2>2
  <2>4. got[2] \in ValuesOf("word")
    BY <1>4, <2>2, <2>3
  <2> QED
    BY <1>1, <1>6, <2>1, <2>4 DEF CopiedHead, Fits, ValuesOf
<1>7. CASE Part \notin {"ay", "au"}
  BY <1>1, <1>7 DEF CopiedHead
<1> QED
  BY <1>5, <1>6, <1>7

\* An attribute's value has the length that was compared with the room.
LEMMA ElemFits ==
  ASSUME Inv, pc = "read", ~AtEnd, head # <<>>, Len(got) = Len(Gets), ~BadElem
  PROVE  ~(CopiedElem > room)
<1>1. room \in Nat
  BY RoomKnown
<1>2. CASE Part = "aA" /\ Len(got) = 4 /\ Fits(got[3])
  <2>1. got \in Seq(Values) /\ Typed(Part, head, got)
    BY PartKnown
  <2>2. OpsOf(Part, head, got) = ElemGets(Part, got) /\ Gets = ElemGets(Part, got)
    BY DEF Gets, OpsOf
  <2>3. ElemGets(Part, got) = <<"word", "byte", "word", "array">>
    <3>1. Len(ElemGets(Part, got)) = 4
      BY <1>2, <2>2
    <3> QED
      BY <1>2, <3>1 DEF ElemGets
  <2>4. got[3] \in ValuesOf("word") /\ got[4] \in ValuesOf("array")
    <3>1. \A i \in 1 .. 4 : got[i] \in ValuesOf(<<"word", "byte", "word", "array">>[i])
      BY <1>2, <2>1, <2>2, <2>3 DEF Typed
    <3> QED
      BY <3>1
  <2>5. got[3] \in Nat /\ got[4] \in Arrays
    BY <2>4 DEF ValuesOf
  <2>6. got[4].ptr \in BOOLEAN /\ (~got[4].ptr => got[4].bytes = <<>>)
    BY <2>5 DEF Arrays
  <2>7. CASE got[4].ptr
    <3>1. Len(got[4].bytes) = got[3]
      BY <1>2, <2>7 DEF BadElem
    <3> QED
      BY <1>1, <1>2, <2>5, <3>1 DEF CopiedElem, Fits
  <2>8. CASE ~got[4].ptr
    BY <1>1, <1>2, <2>6, <2>8 DEF CopiedElem
  <2> QED
    BY <2>6, <2>7, <2>8
<1>3. CASE ~(Part = "aA" /\ Len(got) = 4 /\ Fits(got[3]))
  BY <1>1, <1>3 DEF CopiedElem
<1> QED
  BY <1>2, <1>3

\* What both have in common: a head or an element has been read.
LEMMA ReadOn ==
  ASSUME Inv, pc = "read", got' = <<>>, overrun' = FALSE, nomem' \in BOOLEAN,
         pc' \in {"read", "done"}, ret' \in Endings, k' = k,
         UNCHANGED <<text, wbuf, rbuf, todo, wire, damaged, id, accepted, parsed, seen, overread>>
  PROVE  Inv'
<1>1. TextOK'
  BY DEF Inv, TextOK, text
<1>2. WriterOK'
  BY DEF Inv, WriterOK
<1>3. ReaderOK'
  BY DEF Inv, ReaderOK, Early
<1>4. PartOK'
  BY DEF Inv, PartOK, Typed
<1>5. HistOK'
  BY DEF Inv, HistOK
<1> QED
  BY <1>1, <1>2, <1>3, <1>4, <1>5 DEF Inv

LEMMA HeadStep ==
  ASSUME Inv, GotHead
  PROVE  Inv'
<1>1. /\ pc = "read" /\ ~AtEnd /\ head = <<>> /\ Len(got) = Len(Gets) /\ got' = <<>>
      /\ UNCHANGED <<text, wbuf, rbuf, todo, wire, damaged, id, accepted, parsed, seen, overread>>
  BY DEF GotHead
<1>2. PICK ok \in MemAnswers :
        LET refused == msg.dir = "request" /\ \E n \in HeadAlloc(Part, got) : ~call_alloc(n, ok)
        IN  /\ CASE BadHead -> End("DEVICE_ERROR") /\ UNCHANGED overrun
                 [] TooSmall -> End("BUFFER_TOO_SMALL") /\ UNCHANGED overrun
                 [] refused -> End("DEVICE_MEMORY") /\ UNCHANGED overrun
                 [] OTHER -> /\ overrun' = (overrun \/ (msg.dir = "response" /\ CopiedHead > room))
                             /\ UNCHANGED <<pc, ret, k>>
            /\ nomem' = (nomem \/ refused)
  BY DEF GotHead
<1> DEFINE refused == msg.dir = "request" /\ \E n \in HeadAlloc(Part, got) : ~call_alloc(n, ok)
<1>3. nomem' = (nomem \/ refused)
  BY <1>2
<1>4. nomem' \in BOOLEAN
  BY <1>3 DEF Inv, HistOK
<1>5. CASE BadHead \/ TooSmall \/ refused
  <2>1. \/ End("DEVICE_ERROR") /\ UNCHANGED overrun
        \/ End("BUFFER_TOO_SMALL") /\ UNCHANGED overrun
        \/ End("DEVICE_MEMORY") /\ UNCHANGED overrun
    BY <1>2, <1>5, Zenon
  <2>2. pc' = "done" /\ ret' \in Endings /\ k' = k /\ overrun' = FALSE
    BY <2>1 DEF End, Endings, Inv, HistOK
  <2> QED
    BY <1>1, <1>4, <2>2, ReadOn
<1>6. CASE ~(BadHead \/ TooSmall \/ refused)
  <2>1. /\ overrun' = (overrun \/ (msg.dir = "response" /\ CopiedHead > room))
        /\ UNCHANGED <<pc, ret, k>> /\ ~TooSmall
    BY <1>2, <1>6, Zenon
  <2>2. overrun' = FALSE
    BY <1>1, <2>1, HeadFits DEF Inv, HistOK
  <2>3. pc' \in {"read", "done"} /\ ret' \in Endings /\ k' = k
    BY <1>1, <2>1 DEF Inv
  <2> QED
    BY <1>1, <1>4, <2>2, <2>3, ReadOn
<1> QED
  BY <1>5, <1>6

LEMMA ElemStep ==
  ASSUME Inv, GotElem
  PROVE  Inv'
<1>1. /\ pc = "read" /\ ~AtEnd /\ head # <<>> /\ Len(got) = Len(Gets) /\ got' = <<>>
      /\ UNCHANGED <<text, wbuf, rbuf, todo, wire, damaged, id, accepted, parsed, seen, overread>>
  BY DEF GotElem
<1>2. PICK ok \in MemAnswers :
        LET refused == msg.dir = "request" /\ \E n \in ElemAlloc(Part, got) : ~call_alloc(n, ok)
        IN  /\ CASE BadElem -> End("DEVICE_ERROR") /\ UNCHANGED overrun
                 [] NullRead -> End("ABORT") /\ UNCHANGED overrun
                 [] refused -> End("DEVICE_MEMORY") /\ UNCHANGED overrun
                 [] OTHER -> /\ overrun' = (overrun \/ (msg.dir = "response" /\ CopiedElem > room))
                             /\ UNCHANGED <<pc, ret, k>>
            /\ nomem' = (nomem \/ refused)
  BY DEF GotElem
<1> DEFINE refused == msg.dir = "request" /\ \E n \in ElemAlloc(Part, got) : ~call_alloc(n, ok)
<1>3. nomem' = (nomem \/ refused)
  BY <1>2
<1>4. nomem' \in BOOLEAN
  BY <1>3 DEF Inv, HistOK
<1>5. CASE BadElem \/ NullRead \/ refused
  <2>1. \/ End("DEVICE_ERROR") /\ UNCHANGED overrun
        \/ End("ABORT") /\ UNCHANGED overrun
        \/ End("DEVICE_MEMORY") /\ UNCHANGED overrun
    BY <1>2, <1>5, Zenon
  <2>2. pc' = "done" /\ ret' \in Endings /\ k' = k /\ overrun' = FALSE
    BY <2>1 DEF End, Endings, Inv, HistOK
  <2> QED
    BY <1>1, <1>4, <2>2, ReadOn
<1>6. CASE ~(BadElem \/ NullRead \/ refused)
  <2>1. /\ overrun' = (overrun \/ (msg.dir = "response" /\ CopiedElem > room))
        /\ UNCHANGED <<pc, ret, k>> /\ ~BadElem
    BY <1>2, <1>6, Zenon
  <2>2. overrun' = FALSE
    BY <1>1, <2>1, ElemFits DEF Inv, HistOK
  <2>3. pc' \in {"read", "done"} /\ ret' \in Endings /\ k' = k
    BY <1>1, <2>1 DEF Inv
  <2> QED
    BY <1>1, <1>4, <2>2, <2>3, ReadOn
<1> QED
  BY <1>5, <1>6

LEMMA PartStep ==
  ASSUME Inv, GotPart
  PROVE  Inv'
<1>1. /\ pc = "read" /\ ~AtEnd /\ Complete /\ k' = k + 1
      /\ UNCHANGED <<text, wbuf, rbuf, todo, wire, damaged, id, accepted, parsed, got, pc, ret,
                     nomem, overrun>>
  BY DEF GotPart
<1>2. got' = <<>> /\ k' \in Nat /\ k' > 0
  BY <1>1 DEF Inv, PartOK
<1>3. overread' \in BOOLEAN
  BY DEF GotPart, Inv, HistOK
<1>4. TextOK'
  BY <1>1 DEF Inv, TextOK, text
<1>5. WriterOK'
  BY <1>1 DEF Inv, WriterOK
<1>6. ReaderOK'
  BY <1>1 DEF Inv, ReaderOK, Early
<1>7. PartOK'
  BY <1>2 DEF PartOK, Typed
<1>8. HistOK'
  BY <1>1, <1>3 DEF Inv, HistOK
<1> QED
  BY <1>1, <1>2, <1>4, <1>5, <1>6, <1>7, <1>8 DEF Inv

LEMMA AllStep ==
  ASSUME Inv, GotAll
  PROVE  Inv'
<1>1. /\ pc = "read" /\ pc' = "done" /\ ret' = "OK" /\ k' = k
      /\ UNCHANGED <<text, reader, wbuf, todo, wire, damaged, nomem>>
  BY DEF GotAll, End
<1>2. TextOK'
  BY <1>1 DEF Inv, TextOK, text
<1>3. WriterOK'
  BY <1>1 DEF Inv, WriterOK
<1>4. ReaderOK'
  BY <1>1 DEF Inv, ReaderOK, reader, Early
<1>5. PartOK' /\ HistOK'
  BY <1>1 DEF Inv, PartOK, HistOK, reader
<1> QED
  BY <1>1, <1>2, <1>3, <1>4, <1>5 DEF Inv, Endings

LEMMA Inductive == Inv /\ [Next]_vars => Inv'
<1> SUFFICES ASSUME Inv, [Next]_vars PROVE Inv'
  OBVIOUS
<1>1. CASE UNCHANGED vars
  BY <1>1 DEF vars, Inv, TextOK, WriterOK, ReaderOK, PartOK, HistOK, AtEnd, Part,
     Complete, Typed
<1>2. CASE Next
  BY <1>2, PrepStep, AddStep, WroteStep, SendStep, ReceiveStep, ParseStep, GetStep, HeadStep,
     ElemStep, PartStep, AllStep, Zenon DEF Next
<1> QED
  BY <1>1, <1>2

LEMMA Invariant == Spec => []Inv
  BY InitInv, Inductive, PTL DEF Spec

-----------------------------------------------------------------------------
(* Results.                                                                *)

\* Whatever arrives and wherever the allocator fails, both buffers keep
\* their contents inside what is allocated, and gck_rpc_message never has
\* more parsed than was received.
THEOREM TypeCorrect == Spec => []TypeOK
<1>1. Inv => TypeOK
  <2> SUFFICES ASSUME Inv PROVE TypeOK
    OBVIOUS
  <2>1. ASSUME NEW b \in {wbuf, rbuf}
        PROVE  /\ b.mem \in Seq(Bytes \cup {Junk}) /\ b.len \in 0 .. allocated_len(b)
               /\ b.failures \in Nat /\ b.stray \in BOOLEAN
    <3>1. BufOK(b)
      BY DEF Inv, WriterOK, ReaderOK
    <3>2. /\ b.mem \in Seq(Cell) /\ Len(b.mem) \in Nat /\ b.len \in Nat
          /\ b.len <= Len(b.mem) /\ b.failures \in Nat /\ b.stray = FALSE
      BY <3>1, BufFields
    <3>3. b.mem \in Seq(Bytes \cup {Junk})
      BY <3>2, Zenon DEF Cell
    <3>4. b.len \in 0 .. Len(b.mem)
      BY <3>2
    <3> QED
      BY <3>2, <3>3, <3>4, Zenon DEF allocated_len
  <2>2. {damaged, accepted, nomem, overrun, overread} \subseteq BOOLEAN
    BY Zenon DEF Inv, HistOK
  <2> QED
    BY <2>1, <2>2 DEF Inv, TypeOK, TextOK, ReaderOK, Endings
<1> QED
  BY <1>1, Invariant, PTL

\* The bounds tests of egg-buffer.c are enough: for every table of calls,
\* every message and every size of words, no operation touches memory
\* outside a buffer or uses bytes nobody wrote, not even when lengths and
\* counts in the message are damaged.
THEOREM BuffersAreSafe == Spec => []NoStray
<1>1. Inv => NoStray
  <2> SUFFICES ASSUME Inv PROVE NoStray
    OBVIOUS
  <2>1. wbuf.stray = FALSE /\ rbuf.stray = FALSE
    BY DEF Inv, WriterOK, ReaderOK, BufOK
  <2>2. \A i \in DOMAIN wire : wire[i] \in Bytes
    BY DEF Inv, WriterOK
  <2> QED
    BY <2>1, <2>2, NoByte DEF NoStray
<1> QED
  BY <1>1, Invariant, PTL

\* The tests of the proto_read_ functions are enough: no result is copied
\* to the application that is larger than the memory it has for it, whatever
\* lengths the response claims.
THEOREM ResultsFit == Spec => []OutputsFit
<1>1. Inv => OutputsFit
  BY DEF Inv, HistOK, OutputsFit
<1> QED
  BY <1>1, Invariant, PTL

-----------------------------------------------------------------------------
(* The bytes of additions.                                                 *)

BytesOf(items) == Each(items, ItemBytes)

\* Every addition has a sequence of bytes.
LEMMA ItemType ==
  ASSUME NEW x \in Additions
  PROVE  ItemBytes(x) \in Seq(Bytes)
<1>0. \A a, b \in Seq(Bytes) : a \o b \in Seq(Bytes)
  OBVIOUS
<1>1. CASE x \in [op : {"byte"}, val : Bytes]
  BY <1>1 DEF ItemBytes
<1>2. CASE x \in [op : {"word", "long"}, val : Nat]
  <2>1. x.val \in Int /\ x.op \in {"word", "long"}
    BY <1>2
  <2>2. x.val \div WordMod \in Int /\ x.val % WordMod \in Int
    BY <2>1, Arithmetic, Remainder
  <2>3. /\ egg_buffer_encode_uint32(x.val) \in Seq(Bytes)
        /\ egg_buffer_encode_uint32(x.val \div WordMod) \in Seq(Bytes)
        /\ egg_buffer_encode_uint32(x.val % WordMod) \in Seq(Bytes)
    BY <2>1, <2>2, Encoded
  <2>4. egg_buffer_encode_uint32(x.val \div WordMod) \o egg_buffer_encode_uint32(x.val % WordMod)
          \in Seq(Bytes)
    BY <1>0, <2>3
  <2> QED
    BY <2>1, <2>3, <2>4 DEF ItemBytes
<1>3. CASE x \in [op : {"array"}, val : [ptr : BOOLEAN, bytes : Seq(Bytes)]]
  <2>1. x.op = "array" /\ x.val.bytes \in Seq(Bytes) /\ Len(x.val.bytes) \in Int /\ NullLen \in Int
    BY <1>3, Arithmetic DEF NullLen
  <2>2. /\ egg_buffer_encode_uint32(Len(x.val.bytes)) \in Seq(Bytes)
        /\ egg_buffer_encode_uint32(NullLen) \in Seq(Bytes)
    BY <2>1, Encoded
  <2>3. egg_buffer_encode_uint32(Len(x.val.bytes)) \o x.val.bytes \in Seq(Bytes)
    BY <1>0, <2>1, <2>2
  <2> QED
    BY <2>1, <2>2, <2>3 DEF ItemBytes
<1> QED
  BY <1>1, <1>2, <1>3 DEF Additions

\* The bytes of each item, and their types.
Pieces(items) == [i \in DOMAIN items |-> ItemBytes(items[i])]

LEMMA PiecesType ==
  ASSUME NEW s \in Seq(Additions)
  PROVE  Pieces(s) \in Seq(Seq(Bytes)) /\ Len(Pieces(s)) = Len(s) /\ BytesOf(s) = FlattenSeq(Pieces(s))
<1>1. \A i \in 1 .. Len(s) : ItemBytes(s[i]) \in Seq(Bytes)
  BY ItemType
<1> QED
  BY <1>1 DEF Pieces, BytesOf, Each

LEMMA BytesType ==
  ASSUME NEW s \in Seq(Additions)
  PROVE  BytesOf(s) \in Seq(Bytes)
  BY PiecesType, FlattenType

\* The bytes of additions, one after the other.
LEMMA PiecesConcat ==
  ASSUME NEW E, NEW s \in Seq(E), NEW t \in Seq(E)
  PROVE  Pieces(s \o t) = Pieces(s) \o Pieces(t)
<1> DEFINE u == s \o t
           B == {ItemBytes(x) : x \in E}
           a == Pieces(s)
           b == Pieces(t)
           c == Pieces(u)
<1>1. /\ u \in Seq(E) /\ Len(u) = Len(s) + Len(t) /\ Len(s) \in Nat /\ Len(t) \in Nat
      /\ \A i \in 1 .. Len(u) : u[i] = IF i <= Len(s) THEN s[i] ELSE t[i - Len(s)]
  OBVIOUS
<1> HIDE DEF u
<1>2. ASSUME NEW r \in Seq(E)
      PROVE  /\ Pieces(r) \in Seq(B) /\ Len(Pieces(r)) = Len(r)
             /\ \A i \in 1 .. Len(r) : Pieces(r)[i] = ItemBytes(r[i])
  <2>1. \A i \in 1 .. Len(r) : ItemBytes(r[i]) \in B
    OBVIOUS
  <2> HIDE DEF B
  <2> QED
    BY <2>1 DEF Pieces
<1> HIDE DEF B
<1>3. /\ a \in Seq(B) /\ b \in Seq(B) /\ c \in Seq(B)
      /\ Len(a) = Len(s) /\ Len(b) = Len(t) /\ Len(c) = Len(u)
  BY <1>1, <1>2
<1>4. ASSUME NEW i \in 1 .. Len(u)
      PROVE  c[i] = IF i <= Len(s) THEN a[i] ELSE b[i - Len(s)]
  <2>1. c[i] = ItemBytes(u[i])
    BY <1>1, <1>2
  <2>2. CASE i <= Len(s)
    <3>1. i \in 1 .. Len(s)
      BY <1>1, <2>2
    <3> QED
      BY <1>1, <1>2, <2>1, <2>2, <3>1
  <2>3. CASE ~(i <= Len(s))
    <3>1. i - Len(s) \in 1 .. Len(t)
      BY <1>1, <2>3
    <3> QED
      BY <1>1, <1>2, <2>1, <2>3, <3>1
  <2> QED
    BY <2>2, <2>3
<1> HIDE DEF a, b, c
<1>5. Len(c) = Len(a) + Len(b) /\ \A i \in 1 .. Len(c) : c[i] = IF i <= Len(a) THEN a[i] ELSE b[i - Len(a)]
  BY <1>1, <1>3, <1>4
<1>6. c = a \o b
  BY ONLY <1>3, <1>5, ConcatIs
<1> QED
  BY <1>6 DEF a, b, c, u

LEMMA BytesConcat ==
  ASSUME NEW s \in Seq(Additions), NEW t \in Seq(Additions)
  PROVE  s \o t \in Seq(Additions) /\ BytesOf(s \o t) = BytesOf(s) \o BytesOf(t)
<1>1. s \o t \in Seq(Additions)
  OBVIOUS
<1>2. Pieces(s \o t) = Pieces(s) \o Pieces(t)
  BY PiecesConcat
<1>3. FlattenSeq(Pieces(s) \o Pieces(t)) = FlattenSeq(Pieces(s)) \o FlattenSeq(Pieces(t))
  BY PiecesType, FlattenConcat
<1> QED
  BY <1>1, <1>2, <1>3, PiecesType

LEMMA BytesEmpty == BytesOf(<<>>) = <<>>
<1>1. [i \in DOMAIN <<>> |-> ItemBytes(<<>>[i])] = <<>>
  OBVIOUS
<1> QED
  BY <1>1, FlattenEmpty DEF BytesOf, Each

LEMMA BytesOne ==
  ASSUME NEW x \in Additions
  PROVE  BytesOf(<<x>>) = ItemBytes(x)
<1> DEFINE p == Pieces(<<x>>)
<1>1. p = <<ItemBytes(x)>>
  BY DEF Pieces
<1>2. ItemBytes(x) \in Seq(Bytes) /\ <<>> \in Seq(Seq(Bytes))
  BY ItemType
<1>3. FlattenSeq(Append(<<>>, ItemBytes(x))) = FlattenSeq(<<>>) \o ItemBytes(x)
  BY <1>2, FlattenAppend
<1>4. Append(<<>>, ItemBytes(x)) = <<ItemBytes(x)>> /\ <<>> \o ItemBytes(x) = ItemBytes(x)
  BY <1>2
<1> QED
  BY <1>1, <1>3, <1>4, FlattenEmpty DEF BytesOf, Each, Pieces

LEMMA BytesFirst ==
  ASSUME NEW s \in Seq(Additions), s # <<>>
  PROVE  /\ Head(s) \in Additions /\ Tail(s) \in Seq(Additions)
         /\ BytesOf(s) = ItemBytes(Head(s)) \o BytesOf(Tail(s))
<1>1. Head(s) \in Additions /\ Tail(s) \in Seq(Additions) /\ s = <<Head(s)>> \o Tail(s)
      /\ <<Head(s)>> \in Seq(Additions)
  OBVIOUS
<1>2. BytesOf(<<Head(s)>> \o Tail(s)) = BytesOf(<<Head(s)>>) \o BytesOf(Tail(s))
  BY ONLY <1>1, BytesConcat
<1> QED
  BY <1>1, <1>2, BytesOne

-----------------------------------------------------------------------------
(* What an addition leaves in the buffer.                                  *)

Contents(b) == SubSeq(b.mem, 1, b.len)

\* The contents of a buffer are the bytes of its memory.
LEMMA ContentsAre ==
  ASSUME NEW b, BufOK(b)
  PROVE  /\ Contents(b) \in Seq(Bytes) /\ Len(Contents(b)) = b.len
         /\ \A i \in 1 .. b.len : Contents(b)[i] = b.mem[i]
<1>1. /\ b.mem \in Seq(Cell) /\ Len(b.mem) \in Nat /\ b.len \in Nat
      /\ b.len <= Len(b.mem) /\ \A i \in 1 .. b.len : b.mem[i] \in Bytes
  BY BufFields
<1> DEFINE c == SubSeq(b.mem, 1, b.len)
<1>2. c \in Seq(Cell) /\ Len(c) = b.len /\ \A i \in 1 .. b.len : c[i] = b.mem[i]
  BY <1>1
<1>3. c \in Seq(Bytes)
  BY <1>1, <1>2
<1> QED
  BY <1>2, <1>3 DEF Contents

\* r is b with s added, or has failed.
Adds(r, b, s) ==
  /\ b.failures <= r.failures
  /\ r.failures = b.failures => Contents(r) = Contents(b) \o s

\* Bytes that were stored behind the contents of b are added to them.
LEMMA AddsStored ==
  ASSUME NEW b, BufOK(b), NEW r, BufOK(r), NEW s \in Seq(Bytes), r.len = b.len + Len(s),
         \A i \in 1 .. b.len : r.mem[i] = b.mem[i],
         \A i \in 1 .. Len(s) : r.mem[b.len + i] = s[i]
  PROVE  Contents(r) = Contents(b) \o s
<1>1. /\ Contents(b) \in Seq(Bytes) /\ Len(Contents(b)) = b.len
      /\ \A i \in 1 .. b.len : Contents(b)[i] = b.mem[i]
  BY ContentsAre
<1>2. /\ Contents(r) \in Seq(Bytes) /\ Len(Contents(r)) = r.len
      /\ \A i \in 1 .. r.len : Contents(r)[i] = r.mem[i]
  BY ContentsAre
<1> DEFINE a == Contents(b)
           c == Contents(r)
<1> HIDE DEF a, c
<1>7. b.len \in Nat
  BY BufFields
<1>3. b.len \in Nat /\ Len(s) \in Nat
  BY <1>7
<1>4. \A i \in 1 .. Len(c) : c[i] = IF i <= Len(a) THEN a[i] ELSE s[i - Len(a)]
  <2> TAKE i \in 1 .. Len(c)
  <2>1. i \in 1 .. r.len
    BY <1>2 DEF c
  <2>2. CASE i <= b.len
    <3>1. i \in 1 .. b.len
      BY <1>3, <2>1, <2>2
    <3> QED
      BY <1>1, <1>2, <2>1, <2>2, <3>1 DEF a, c
  <2>3. CASE ~(i <= b.len)
    <3>1. i - b.len \in 1 .. Len(s) /\ b.len + (i - b.len) = i
      BY <1>3, <2>1, <2>3
    <3>2. r.mem[b.len + (i - b.len)] = s[i - b.len]
      BY <3>1
    <3> QED
      BY <1>1, <1>2, <2>1, <2>3, <3>1, <3>2 DEF a, c
  <2> QED
    BY <2>2, <2>3
<1>5. a \in Seq(Bytes) /\ c \in Seq(Bytes) /\ Len(c) = Len(a) + Len(s)
  BY <1>1, <1>2 DEF a, c
<1>6. c = a \o s
  BY ONLY <1>4, <1>5, ConcatIs, s \in Seq(Bytes)
<1> QED
  BY <1>6 DEF a, c

\* Only the allocator makes a reservation fail.
LEMMA ReservedFails ==
  ASSUME NEW b, BufOK(b), NEW n, NEW ok
  PROVE  LET r == egg_buffer_reserve(b, n, ok)
         IN  b.failures <= r.failures /\ (ok => r.failures = b.failures)
<1>1. b \in Buffer /\ b.failures \in Nat
  BY BufFields DEF BufOK
<1> QED
  BY <1>1 DEF egg_buffer_reserve, Failed, Buffer

\* An operation that adds to a buffer adds these bytes, or counts a failure.
LEMMA AppendAdds ==
  ASSUME NEW b, BufOK(b), NEW s \in Seq(Bytes), NEW ok
  PROVE  LET e == egg_buffer_append(b, s, ok)
         IN  Adds(e, b, s) /\ (ok => e.failures = b.failures)
<1> DEFINE r == egg_buffer_reserve(b, b.len + Len(s), ok)
           q == Store(r, r.len, s)
           e == [q EXCEPT !.len = @ + Len(s)]
           x == egg_buffer_append(b, s, ok)
<1>7. b.len \in Nat /\ b.failures \in Nat /\ b.len <= Len(b.mem) /\ Len(b.mem) \in Nat
  BY BufFields
<1>0. /\ b.len \in Nat /\ Len(s) \in Nat /\ b.len + Len(s) \in Nat /\ b.failures \in Nat
      /\ b.len <= Len(b.mem) /\ Len(b.mem) \in Nat
  BY <1>7
<1>1. /\ BufOK(r) /\ r.len = b.len /\ (r.failures = b.failures => b.len + Len(s) <= Len(r.mem))
      /\ \A i \in 1 .. Len(b.mem) : r.mem[i] = b.mem[i]
  BY <1>0, Reserved
<1>2. b.failures <= r.failures /\ (ok => r.failures = b.failures)
  BY ReservedFails
<1>3. x = IF r.failures # b.failures THEN r ELSE e
  BY DEF egg_buffer_append
<1>4. BufOK(x)
  BY Appended
<1> HIDE DEF r, x
<1>5. CASE r.failures # b.failures
  BY <1>2, <1>3, <1>5 DEF Adds, x
<1>6. CASE r.failures = b.failures
  <2>1. r \in Buffer /\ r.len + Len(s) <= Len(r.mem) /\ Len(r.mem) \in Nat
    BY <1>1, <1>6 DEF BufOK, Buffer
  <2>2. /\ q \in Buffer /\ q.len = r.len /\ q.failures = r.failures
        /\ \A i \in 1 .. Len(r.mem) :
             q.mem[i] = IF i > r.len /\ i <= r.len + Len(s) THEN s[i - r.len] ELSE r.mem[i]
    BY <1>0, <1>1, <2>1, Stored
  <2> HIDE DEF q
  <2>3. e.len = q.len + Len(s) /\ e.mem = q.mem /\ e.failures = q.failures
    BY <2>2 DEF Buffer
  <2>4. x = e
    BY <1>3, <1>6
  <2> HIDE DEF e
  <2>5. \A i \in 1 .. b.len : x.mem[i] = b.mem[i]
    <3> TAKE i \in 1 .. b.len
    <3>1. i \in 1 .. Len(r.mem) /\ i \in 1 .. Len(b.mem) /\ ~(i > r.len)
      BY <1>0, <1>1, <2>1
    <3> QED
      BY <1>1, <2>2, <2>3, <2>4, <3>1
  <2>6. \A i \in 1 .. Len(s) : x.mem[b.len + i] = s[i]
    <3> TAKE i \in 1 .. Len(s)
    <3>1. /\ b.len + i \in 1 .. Len(r.mem) /\ b.len + i > r.len /\ b.len + i <= r.len + Len(s)
          /\ (b.len + i) - r.len = i
      BY <1>0, <1>1, <2>1
    <3> QED
      BY <2>2, <2>3, <2>4, <3>1
  <2>7. x.len = b.len + Len(s)
    BY <1>1, <2>2, <2>3, <2>4
  <2>8. Contents(x) = Contents(b) \o s
    BY <1>4, <2>5, <2>6, <2>7, AddsStored
  <2> QED
    BY <1>0, <1>6, <2>2, <2>3, <2>4, <2>8 DEF Adds, x
<1> QED
  BY <1>5, <1>6

LEMMA WordAdds ==
  ASSUME NEW b, BufOK(b), NEW v \in Nat, NEW ok
  PROVE  LET e == egg_buffer_add_uint32(b, v, ok)
         IN  Adds(e, b, egg_buffer_encode_uint32(v)) /\ (ok => e.failures = b.failures)
<1> DEFINE r == egg_buffer_reserve(b, b.len + WordLen, ok)
           p == [r EXCEPT !.len = @ + WordLen]
           s == egg_buffer_encode_uint32(v % WordMod)
           e == Store(p, r.len, s)
           x == egg_buffer_add_uint32(b, v, ok)
<1>8. b.len \in Nat /\ b.failures \in Nat /\ b.len <= Len(b.mem) /\ Len(b.mem) \in Nat
  BY BufFields
<1>0. /\ b.len \in Nat /\ WordLen \in Nat /\ b.len + WordLen \in Nat /\ b.failures \in Nat
      /\ b.len <= Len(b.mem) /\ Len(b.mem) \in Nat
  BY <1>8, Arithmetic
<1>1. /\ BufOK(r) /\ r.len = b.len /\ (r.failures = b.failures => b.len + WordLen <= Len(r.mem))
      /\ \A i \in 1 .. Len(b.mem) : r.mem[i] = b.mem[i]
  BY <1>0, Reserved
<1>2. b.failures <= r.failures /\ (ok => r.failures = b.failures)
  BY ReservedFails
<1>3. x = IF r.failures # b.failures THEN r
          ELSE IF Beyond(p, r.len, WordLen) THEN Failed(p) ELSE e
  BY DEF egg_buffer_add_uint32, egg_buffer_set_uint32
<1>4. BufOK(x)
  BY WordAdded
<1>7. s = egg_buffer_encode_uint32(v) /\ s \in Seq(Bytes) /\ Len(s) = WordLen
  BY EncodeRest, Encoded
<1> HIDE DEF r, x, s
<1>5. CASE r.failures # b.failures
  BY <1>2, <1>3, <1>5 DEF Adds, x
<1>6. CASE r.failures = b.failures
  <2>1. r \in Buffer /\ r.len + WordLen <= Len(r.mem) /\ Len(r.mem) \in Nat
    BY <1>1, <1>6 DEF BufOK, Buffer
  <2>9. p \in Buffer /\ p.len = r.len + WordLen /\ p.mem = r.mem /\ p.failures = r.failures
    BY <1>0, <1>1, <2>1 DEF Buffer
  <2> HIDE DEF p
  <2>2. /\ e.len = p.len /\ e.failures = p.failures
        /\ \A i \in 1 .. Len(r.mem) :
             e.mem[i] = IF i > r.len /\ i <= r.len + WordLen THEN s[i - r.len] ELSE r.mem[i]
    <3>1. r.len \in Nat /\ r.len + Len(s) <= Len(p.mem)
      BY <1>0, <1>1, <1>7, <2>1, <2>9
    <3>2. /\ e.len = p.len /\ e.failures = p.failures
          /\ \A i \in 1 .. Len(p.mem) :
               e.mem[i] = IF i > r.len /\ i <= r.len + Len(s) THEN s[i - r.len] ELSE p.mem[i]
      BY <1>7, <2>9, <3>1, Stored
    <3> QED
      BY <1>7, <2>9, <3>2
  <2>3. ~Beyond(p, r.len, WordLen)
    BY <1>0, <1>1, <2>9 DEF Beyond
  <2>4. x = e
    BY <1>3, <1>6, <2>3
  <2> HIDE DEF e
  <2>5. \A i \in 1 .. b.len : x.mem[i] = b.mem[i]
    <3> TAKE i \in 1 .. b.len
    <3>1. i \in 1 .. Len(r.mem) /\ i \in 1 .. Len(b.mem) /\ ~(i > r.len)
      BY <1>0, <1>1, <2>1
    <3> QED
      BY <1>1, <2>2, <2>4, <3>1
  <2>6. \A i \in 1 .. Len(s) : x.mem[b.len + i] = s[i]
    <3> TAKE i \in 1 .. Len(s)
    <3>1. /\ b.len + i \in 1 .. Len(r.mem) /\ b.len + i > r.len /\ b.len + i <= r.len + WordLen
          /\ (b.len + i) - r.len = i
      BY <1>0, <1>1, <1>7, <2>1
    <3> QED
      BY <2>2, <2>4, <3>1
  <2>7. x.len = b.len + Len(s)
    BY <1>1, <1>7, <2>2, <2>9, <2>4
  <2>8. Contents(x) = Contents(b) \o s
    BY <1>4, <1>7, <2>5, <2>6, <2>7, AddsStored
  <2> QED
    BY <1>0, <1>6, <1>7, <2>2, <2>9, <2>4, <2>8 DEF Adds, x
<1> QED
  BY <1>5, <1>6

\* Two additions in a row add the bytes of both, unless one of them failed.
LEMMA AddsTwice ==
  ASSUME NEW b, BufOK(b), NEW r, BufOK(r), NEW e, NEW s \in Seq(Bytes), NEW t \in Seq(Bytes),
         Adds(r, b, s), Adds(e, r, t), e.failures \in Nat
  PROVE  Adds(e, b, s \o t)
<1>1. b.failures \in Nat /\ r.failures \in Nat
  BY BufFields
<1>2. b.failures <= e.failures
  BY <1>1 DEF Adds
<1>3. ASSUME e.failures = b.failures PROVE Contents(e) = Contents(b) \o (s \o t)
  <2>1. r.failures = b.failures /\ e.failures = r.failures
    BY <1>1, <1>3 DEF Adds
  <2>2. Contents(r) = Contents(b) \o s /\ Contents(e) = Contents(r) \o t
    BY <2>1 DEF Adds
  <2>3. Contents(b) \in Seq(Bytes)
    BY ContentsAre
  <2> DEFINE a == Contents(b)
  <2> HIDE DEF a
  <2>4. (a \o s) \o t = a \o (s \o t)
    BY <2>3 DEF a
  <2> QED
    BY <2>2, <2>4 DEF a
<1> QED
  BY <1>2, <1>3 DEF Adds

\* An array of 0x7fffffff bytes or more is not added.
Short(x) == x.op = "array" /\ x.val.ptr => Len(x.val.bytes) < TooLong

\* What Add does: the bytes of the item are added, or there is a failure.
AddedAs(e, b, x, sure) ==
  /\ Adds(e, b, ItemBytes(x))
  /\ sure /\ Short(x) => e.failures = b.failures
  /\ e.failures = b.failures => Short(x)

LEMMA LongAdds ==
  ASSUME NEW b, BufOK(b), NEW v \in Nat, NEW ok, NEW ok2
  PROVE  LET e == egg_buffer_add_uint64(b, v, ok, ok2)
         IN  /\ Adds(e, b, egg_buffer_encode_uint32(v \div WordMod)
                             \o egg_buffer_encode_uint32(v % WordMod))
             /\ (ok /\ ok2 => e.failures = b.failures)
<1> DEFINE hi == v \div WordMod
           lo == v % WordMod
           r == egg_buffer_add_uint32(b, hi, ok)
           f == egg_buffer_add_uint32(r, lo, ok2)
           e == egg_buffer_add_uint64(b, v, ok, ok2)
<1>1. hi \in Nat /\ lo \in Nat
  BY Arithmetic, Remainder
<1>2. e = IF r.failures # b.failures THEN r ELSE f
  BY DEF egg_buffer_add_uint64
<1> HIDE DEF hi, lo
<1>3. /\ BufOK(r) /\ Adds(r, b, egg_buffer_encode_uint32(hi)) /\ (ok => r.failures = b.failures)
  BY <1>1, WordAdded, WordAdds
<1> HIDE DEF r
<1>4. /\ BufOK(f) /\ Adds(f, r, egg_buffer_encode_uint32(lo)) /\ (ok2 => f.failures = r.failures)
  BY <1>1, <1>3, WordAdded, WordAdds
<1> HIDE DEF f, e
<1>5. egg_buffer_encode_uint32(hi) \in Seq(Bytes) /\ egg_buffer_encode_uint32(lo) \in Seq(Bytes)
  BY <1>1, Encoded
<1>6. f.failures \in Nat /\ r.failures \in Nat /\ b.failures \in Nat
  BY <1>3, <1>4, BufFields
<1>7. Adds(f, b, egg_buffer_encode_uint32(hi) \o egg_buffer_encode_uint32(lo))
  BY <1>3, <1>4, <1>5, <1>6, AddsTwice
<1>8. CASE r.failures # b.failures
  BY <1>2, <1>3, <1>8 DEF Adds, e, hi, lo
<1>9. CASE r.failures = b.failures
  BY <1>2, <1>4, <1>7, <1>9 DEF e, hi, lo
<1> QED
  BY <1>8, <1>9

LEMMA ArrayAdds ==
  ASSUME NEW b, BufOK(b),
         NEW x \in [op : {"array"}, val : [ptr : BOOLEAN, bytes : Seq(Bytes)]],
         NEW ok, NEW ok2
  PROVE  AddedAs(egg_buffer_add_byte_array(b, x.val, ok, ok2), b, x, ok /\ ok2)
<1> DEFINE a == x.val
           n == Len(a.bytes)
           z == egg_buffer_add_uint32(b, NullLen, ok)
           r == egg_buffer_add_uint32(b, n, ok)
           f == egg_buffer_append(r, a.bytes, ok2)
           e == egg_buffer_add_byte_array(b, a, ok, ok2)
<1>1. /\ x.op = "array" /\ a.ptr \in BOOLEAN /\ a.bytes \in Seq(Bytes) /\ n \in Nat
      /\ NullLen \in Nat /\ TooLong \in Int
  BY Arithmetic DEF NullLen, TooLong
<1>2. e = IF ~a.ptr THEN z ELSE IF n >= TooLong THEN Failed(b)
          ELSE IF r.failures # b.failures THEN r ELSE f
  BY DEF egg_buffer_add_byte_array
<1>3. /\ ItemBytes(x) = IF a.ptr THEN egg_buffer_encode_uint32(n) \o a.bytes
                        ELSE egg_buffer_encode_uint32(NullLen)
      /\ Short(x) <=> (a.ptr => n < TooLong)
  BY <1>1 DEF ItemBytes, Short
<1>4. BufOK(z) /\ Adds(z, b, egg_buffer_encode_uint32(NullLen)) /\ (ok => z.failures = b.failures)
  BY <1>1, WordAdded, WordAdds
<1>5. BufOK(r) /\ Adds(r, b, egg_buffer_encode_uint32(n)) /\ (ok => r.failures = b.failures)
  BY <1>1, WordAdded, WordAdds
<1>6. BufOK(f) /\ Adds(f, r, a.bytes) /\ (ok2 => f.failures = r.failures)
  BY <1>1, <1>5, Appended, AppendAdds
<1>7. BufOK(Failed(b)) /\ Failed(b).failures = b.failures + 1 /\ b.failures \in Nat
  BY FailedOK, BufFields
<1> HIDE DEF a, n, z, f, r, e
<1>8. f.failures \in Nat /\ r.failures \in Nat
  BY <1>5, <1>6, BufFields
<1>9. Adds(f, b, egg_buffer_encode_uint32(n) \o a.bytes)
  BY <1>1, <1>5, <1>6, <1>8, AddsTwice, Encoded
<1>10. CASE ~a.ptr
  BY <1>2, <1>3, <1>4, <1>10 DEF AddedAs, e, a
<1>11. CASE a.ptr /\ n >= TooLong
  <2>1. e = Failed(b)
    BY <1>2, <1>11
  <2>2. b.failures <= e.failures /\ e.failures # b.failures
    BY <1>7, <2>1
  <2>3. ~Short(x)
    BY <1>1, <1>3, <1>11
  <2> QED
    BY <2>2, <2>3 DEF AddedAs, Adds, e, a
<1>12. CASE a.ptr /\ ~(n >= TooLong) /\ r.failures # b.failures
  <2>1. e = r
    BY <1>2, <1>12
  <2>2. Adds(r, b, ItemBytes(x)) /\ ~(ok /\ ok2)
    BY <1>5, <1>12 DEF Adds
  <2> QED
    BY <1>12, <2>1, <2>2 DEF AddedAs, e, a
<1>13. CASE a.ptr /\ ~(n >= TooLong) /\ r.failures = b.failures
  <2>1. e = f /\ Short(x)
    BY <1>1, <1>2, <1>3, <1>13
  <2>2. Adds(f, b, ItemBytes(x)) /\ (ok2 => f.failures = b.failures)
    BY <1>3, <1>6, <1>9, <1>13
  <2> QED
    BY <2>1, <2>2 DEF AddedAs, e, a
<1> QED
  BY <1>1, <1>10, <1>11, <1>12, <1>13

\* Whatever is added to a buffer: its bytes are there or a failure is counted.
LEMMA AddAdds ==
  ASSUME NEW b, BufOK(b), NEW x \in Additions, NEW ok, NEW ok2
  PROVE  AddedAs(Add(b, x, ok, ok2), b, x, ok /\ ok2)
<1> DEFINE e == Add(b, x, ok, ok2)
<1>1. CASE x \in [op : {"byte"}, val : Bytes]
  <2>1. <<x.val>> \in Seq(Bytes) /\ x.op = "byte"
    BY <1>1
  <2>2. e = egg_buffer_append(b, <<x.val>>, ok) /\ ItemBytes(x) = <<x.val>> /\ Short(x)
    BY <2>1 DEF Add, egg_buffer_add_byte, ItemBytes, Short
  <2> HIDE DEF e
  <2>3. Adds(e, b, <<x.val>>) /\ (ok => e.failures = b.failures)
    BY <2>1, <2>2, AppendAdds
  <2> QED
    BY <2>2, <2>3 DEF AddedAs, e
<1>2. CASE x \in [op : {"word", "long"}, val : Nat] /\ x.op = "word"
  <2>1. x.val \in Nat
    BY <1>2
  <2>2. e = egg_buffer_add_uint32(b, x.val, ok) /\ ItemBytes(x) = egg_buffer_encode_uint32(x.val) /\ Short(x)
    BY <1>2 DEF Add, ItemBytes, Short
  <2> HIDE DEF e
  <2>3. Adds(e, b, ItemBytes(x)) /\ (ok => e.failures = b.failures)
    BY <2>1, <2>2, WordAdds
  <2> QED
    BY <2>2, <2>3 DEF AddedAs, e
<1>3. CASE x \in [op : {"word", "long"}, val : Nat] /\ x.op = "long"
  <2>1. x.val \in Nat
    BY <1>3
  <2>2. /\ e = egg_buffer_add_uint64(b, x.val, ok, ok2) /\ Short(x)
        /\ ItemBytes(x) = egg_buffer_encode_uint32(x.val \div WordMod)
                              \o egg_buffer_encode_uint32(x.val % WordMod)
    BY <1>3 DEF Add, ItemBytes, Short
  <2> HIDE DEF e
  <2>3. Adds(e, b, ItemBytes(x)) /\ (ok /\ ok2 => e.failures = b.failures)
    BY <2>1, <2>2, LongAdds
  <2> QED
    BY <2>2, <2>3 DEF AddedAs, e
<1>4. CASE x \in [op : {"array"}, val : [ptr : BOOLEAN, bytes : Seq(Bytes)]]
  <2>1. e = egg_buffer_add_byte_array(b, x.val, ok, ok2)
    BY <1>4 DEF Add
  <2>2. AddedAs(egg_buffer_add_byte_array(b, x.val, ok, ok2), b, x, ok /\ ok2)
    BY <1>4, ArrayAdds, Zenon
  <2> QED
    BY <2>1, <2>2
<1> QED
  BY <1>1, <1>2, <1>3, <1>4 DEF Additions

-----------------------------------------------------------------------------
(* The items of a message.                                                 *)

Text(m) ==
  /\ m.dir \in {"request", "response"} /\ m.id \in DOMAIN Calls \cup {ERROR}
  /\ m.vals = [n \in DOMAIN Parts(m.dir, m.id) |-> m.vals[n]]
  /\ \A n \in DOMAIN Parts(m.dir, m.id) :
       write_part(Parts(m.dir, m.id)[n], m.vals[n]) \in Seq(Additions)

NumParts(m)     == Len(Parts(m.dir, m.id))
PartItems(m, n) == write_part(Parts(m.dir, m.id)[n], m.vals[n])
\* The items of a message up to part n, and behind it.
Sofar(m, n) == message_head(m.dir, m.id) \o FlattenSeq([i \in 1 .. n |-> PartItems(m, i)])
Behind(m, n) == FlattenSeq([i \in 1 .. NumParts(m) - n |-> PartItems(m, n + i)])

\* A message to be sent has a value for every part.
LEMMA TextFacts ==
  ASSUME NEW m, Text(m)
  PROVE  /\ NumParts(m) \in Nat /\ DOMAIN m.vals = 1 .. NumParts(m)
         /\ \A n \in 1 .. NumParts(m) : PartItems(m, n) \in Seq(Additions)
         /\ message_head(m.dir, m.id) \in Seq(Additions)
<1>1. Parts(m.dir, m.id) \in Seq(DOMAIN Letters) /\ message_head(m.dir, m.id) \in Seq(Additions)
  BY PartsKnown, HeadKnown DEF Text
<1>2. NumParts(m) \in Nat /\ DOMAIN Parts(m.dir, m.id) = 1 .. NumParts(m)
  BY <1>1 DEF NumParts
<1>3. DOMAIN m.vals = DOMAIN Parts(m.dir, m.id)
  BY Zenon DEF Text
<1> QED
  BY <1>1, <1>2, <1>3 DEF Text, PartItems

LEMMA SofarType ==
  ASSUME NEW m, Text(m), NEW n \in 0 .. NumParts(m)
  PROVE  /\ [i \in 1 .. n |-> PartItems(m, i)] \in Seq(Seq(Additions))
         /\ [i \in 1 .. NumParts(m) - n |-> PartItems(m, n + i)] \in Seq(Seq(Additions))
         /\ Sofar(m, n) \in Seq(Additions) /\ Behind(m, n) \in Seq(Additions)
<1>1. NumParts(m) \in Nat /\ NumParts(m) - n \in Nat /\ n \in Nat
  BY TextFacts
<1>2. \A i \in 1 .. n : PartItems(m, i) \in Seq(Additions)
  BY <1>1, TextFacts
<1>3. \A i \in 1 .. NumParts(m) - n : PartItems(m, n + i) \in Seq(Additions)
  <2> TAKE i \in 1 .. NumParts(m) - n
  <2>1. n + i \in 1 .. NumParts(m)
    BY <1>1
  <2> QED
    BY <2>1, TextFacts
<1>4. [i \in 1 .. n |-> PartItems(m, i)] \in Seq(Seq(Additions))
  BY <1>1, <1>2
<1>5. [i \in 1 .. NumParts(m) - n |-> PartItems(m, n + i)] \in Seq(Seq(Additions))
  BY <1>1, <1>3
<1>6. /\ FlattenSeq([i \in 1 .. n |-> PartItems(m, i)]) \in Seq(Additions)
      /\ Behind(m, n) \in Seq(Additions)
  BY <1>4, <1>5, FlattenType DEF Behind
<1>7. message_head(m.dir, m.id) \in Seq(Additions)
  BY TextFacts
<1>8. \A a, b \in Seq(Additions) : a \o b \in Seq(Additions)
  OBVIOUS
<1> QED
  BY <1>4, <1>5, <1>6, <1>7, <1>8, Zenon DEF Sofar

LEMMA Joins3 ==
  ASSUME NEW E
  PROVE  \A a, b, c \in Seq(E) : (a \o b) \o c = a \o (b \o c)
  OBVIOUS

\* What is written of a message when the first n parts are: before the first
\* part, its head; then one part more at a time; in the end, all of it.
LEMMA SofarNone ==
  ASSUME NEW m, Text(m)
  PROVE  Sofar(m, 0) = message_head(m.dir, m.id)
<1>1. [i \in 1 .. 0 |-> PartItems(m, i)] = <<>>
  OBVIOUS
<1>2. message_head(m.dir, m.id) \in Seq(Additions)
  BY TextFacts
<1>3. message_head(m.dir, m.id) \o <<>> = message_head(m.dir, m.id)
  BY <1>2
<1> QED
  BY <1>1, <1>3, FlattenEmpty DEF Sofar

LEMMA SofarNext ==
  ASSUME NEW m, Text(m), NEW n \in Nat, n < NumParts(m)
  PROVE  Sofar(m, n + 1) = Sofar(m, n) \o PartItems(m, n + 1)
<1> DEFINE f == [i \in 1 .. n |-> PartItems(m, i)]
           g == [i \in 1 .. n + 1 |-> PartItems(m, i)]
           x == PartItems(m, n + 1)
           h == message_head(m.dir, m.id)
<1>1. NumParts(m) \in Nat /\ n \in 0 .. NumParts(m) /\ n + 1 \in 1 .. NumParts(m) /\ n + 1 \in 0 .. NumParts(m)
  BY TextFacts
<1>2. f \in Seq(Seq(Additions)) /\ g \in Seq(Seq(Additions)) /\ x \in Seq(Additions) /\ h \in Seq(Additions)
  BY <1>1, SofarType, TextFacts
<1>3. Len(f) = n /\ Len(g) = n + 1 /\ g[n + 1] = x /\ \A i \in 1 .. n : g[i] = f[i]
  BY <1>2
<1> HIDE DEF f, g, x, h
<1>4. g = Append(f, x)
  <2> DEFINE a == Append(f, x)
  <2>1. a \in Seq(Seq(Additions)) /\ Len(a) = n + 1 /\ \A i \in 1 .. n : a[i] = f[i]
    BY <1>2, <1>3
  <2>2. a[n + 1] = x
    BY <1>2, <1>3
  <2> HIDE DEF a
  <2>3. \A i \in 1 .. Len(g) : g[i] = a[i]
    BY <1>3, <2>1, <2>2
  <2>4. g = a
    BY <1>2, <1>3, <2>1, <2>3, SameSeq
  <2> QED
    BY <2>4 DEF a
<1>5. FlattenSeq(g) = FlattenSeq(f) \o x
  BY <1>2, <1>4, FlattenAppend
<1>6. FlattenSeq(f) \in Seq(Additions)
  BY <1>2, FlattenType
<1>7. h \o (FlattenSeq(f) \o x) = (h \o FlattenSeq(f)) \o x
  BY ONLY <1>2, <1>6, Joins3
<1>8. Sofar(m, n + 1) = h \o FlattenSeq(g) /\ Sofar(m, n) = h \o FlattenSeq(f)
  BY Zenon DEF Sofar, f, g, h
<1> QED
  BY <1>5, <1>7, <1>8 DEF x

LEMMA SofarBehind ==
  ASSUME NEW m, Text(m), NEW n \in 0 .. NumParts(m)
  PROVE  Items(m.dir, m.id, m.vals) = Sofar(m, n) \o Behind(m, n)
<1> DEFINE f == [i \in 1 .. n |-> PartItems(m, i)]
           g == [i \in 1 .. NumParts(m) - n |-> PartItems(m, n + i)]
           a == [i \in DOMAIN m.vals |-> write_part(Parts(m.dir, m.id)[i], m.vals[i])]
           h == message_head(m.dir, m.id)
<1>1. NumParts(m) \in Nat /\ NumParts(m) - n \in Nat /\ n \in Nat /\ DOMAIN m.vals = 1 .. NumParts(m)
      /\ \A i \in 1 .. NumParts(m) : PartItems(m, i) \in Seq(Additions)
  BY TextFacts
<1>2. f \in Seq(Seq(Additions)) /\ g \in Seq(Seq(Additions)) /\ h \in Seq(Additions)
  BY SofarType, TextFacts
<1>3. /\ Len(f) = n /\ Len(g) = NumParts(m) - n /\ \A i \in 1 .. n : f[i] = PartItems(m, i)
      /\ \A i \in 1 .. NumParts(m) - n : g[i] = PartItems(m, n + i)
  BY <1>1
<1>4. a = [i \in 1 .. NumParts(m) |-> PartItems(m, i)]
  BY <1>1 DEF PartItems
<1>5. a \in Seq(Seq(Additions)) /\ Len(a) = NumParts(m) /\ \A i \in 1 .. NumParts(m) : a[i] = PartItems(m, i)
  <2> DEFINE c == [i \in 1 .. NumParts(m) |-> PartItems(m, i)]
  <2>1. c \in Seq(Seq(Additions)) /\ Len(c) = NumParts(m) /\ \A i \in 1 .. NumParts(m) : c[i] = PartItems(m, i)
    BY <1>1
  <2> HIDE DEF a
  <2> QED
    BY <1>4, <2>1
<1>6. Items(m.dir, m.id, m.vals) = h \o FlattenSeq(a) /\ Sofar(m, n) = h \o FlattenSeq(f)
      /\ Behind(m, n) = FlattenSeq(g)
  BY Zenon DEF Items, Sofar, Behind
<1> HIDE DEF f, g, a, h
<1>7. a = f \o g
  <2>1. \A i \in 1 .. Len(a) : a[i] = IF i <= Len(f) THEN f[i] ELSE g[i - Len(f)]
    <3> TAKE i \in 1 .. Len(a)
    <3>1. CASE i <= n
      BY <1>1, <1>3, <1>5, <3>1
    <3>2. CASE ~(i <= n)
      <4>1. i - n \in 1 .. NumParts(m) - n /\ n + (i - n) = i /\ i \in 1 .. NumParts(m)
        BY <1>1, <1>5, <3>2
      <4>2. g[i - n] = PartItems(m, n + (i - n))
        BY <1>3, <4>1
      <4> QED
        BY <1>3, <1>5, <3>2, <4>1, <4>2
    <3> QED
      BY <3>1, <3>2
  <2>2. Len(a) = Len(f) + Len(g)
    BY <1>1, <1>3, <1>5
  <2> QED
    BY ONLY <1>2, <1>5, <2>1, <2>2, ConcatIs
<1>8. FlattenSeq(a) = FlattenSeq(f) \o FlattenSeq(g)
  BY <1>2, <1>7, FlattenConcat
<1>9. FlattenSeq(f) \in Seq(Additions) /\ FlattenSeq(g) \in Seq(Additions)
  BY <1>2, FlattenType
<1>10. h \o (FlattenSeq(f) \o FlattenSeq(g)) = (h \o FlattenSeq(f)) \o FlattenSeq(g)
  BY ONLY <1>2, <1>9, Joins3
<1> QED
  BY <1>6, <1>8, <1>10

LEMMA BehindNone ==
  ASSUME NEW m, Text(m)
  PROVE  Behind(m, NumParts(m)) = <<>>
<1>1. NumParts(m) - NumParts(m) = 0
  BY TextFacts
<1>2. [i \in 1 .. 0 |-> PartItems(m, NumParts(m) + i)] = <<>>
  OBVIOUS
<1> QED
  BY <1>1, <1>2, FlattenEmpty DEF Behind

LEMMA SofarAll ==
  ASSUME NEW m, Text(m)
  PROVE  /\ Sofar(m, NumParts(m)) = Items(m.dir, m.id, m.vals) /\ Items(m.dir, m.id, m.vals) \in Seq(Additions)
         /\ Encoding(m.dir, m.id, m.vals) = BytesOf(Items(m.dir, m.id, m.vals))
<1>1. NumParts(m) \in 0 .. NumParts(m)
  BY TextFacts
<1>2. Sofar(m, NumParts(m)) \in Seq(Additions)
  BY <1>1, SofarType
<1>3. Items(m.dir, m.id, m.vals) = Sofar(m, NumParts(m)) \o <<>>
  BY <1>1, SofarBehind, BehindNone
<1>4. Sofar(m, NumParts(m)) \o <<>> = Sofar(m, NumParts(m))
  BY <1>2
<1> QED
  BY <1>2, <1>3, <1>4 DEF Encoding, BytesOf

-----------------------------------------------------------------------------
(* What is written.                                                        *)

AllShort(s) == \A i \in DOMAIN s : Short(s[i])
AllItems(m) == Items(m.dir, m.id, m.vals)

\* Some items are in the buffer and the others, up to the end of part k, are
\* still to be added; a buffer without failures has all of their bytes, and
\* failed for an array that is too long if the allocator did not fail.
Written(done) ==
  /\ Sofar(msg, k) = done \o todo
  /\ IF egg_buffer_has_error(wbuf) THEN nomem \/ ~AllShort(done)
     ELSE Contents(wbuf) = BytesOf(done) /\ AllShort(done)

WriteOK ==
  /\ pc # "idle" => Text(msg)
  /\ pc \in {"write", "send"} => k \in 0 .. NumParts(msg) /\ \E done \in Seq(Additions) : Written(done)
  /\ pc = "send" => ~egg_buffer_has_error(wbuf) /\ todo = <<>> /\ k = NumParts(msg)
  /\ pc \in {"receive", "parse", "read"} => AllShort(AllItems(msg))
  /\ pc = "receive" /\ ~damaged => wire = Encoding(msg.dir, msg.id, msg.vals)
  /\ pc = "done" /\ ret = "HOST_MEMORY" => nomem \/ ~AllShort(AllItems(msg))

\* Arrays that egg_buffer_add_byte_array does not refuse.
LEMMA ShortConcat ==
  ASSUME NEW s \in Seq(Additions), NEW t \in Seq(Additions)
  PROVE  AllShort(s \o t) <=> AllShort(s) /\ AllShort(t)
<1> DEFINE u == s \o t
<1>1. /\ Len(u) = Len(s) + Len(t) /\ Len(s) \in Nat /\ Len(t) \in Nat /\ DOMAIN u = 1 .. Len(u)
      /\ DOMAIN s = 1 .. Len(s) /\ DOMAIN t = 1 .. Len(t)
      /\ \A i \in 1 .. Len(u) : u[i] = IF i <= Len(s) THEN s[i] ELSE t[i - Len(s)]
  OBVIOUS
<1> HIDE DEF u
<1>2. ASSUME AllShort(u) PROVE AllShort(s) /\ AllShort(t)
  <2>1. ASSUME NEW i \in 1 .. Len(s) PROVE Short(s[i])
    <3>1. i \in DOMAIN u /\ u[i] = s[i]
      BY <1>1
    <3> QED
      BY <1>2, <3>1 DEF AllShort
  <2>2. ASSUME NEW i \in 1 .. Len(t) PROVE Short(t[i])
    <3>1. Len(s) + i \in DOMAIN u /\ u[Len(s) + i] = t[i]
      BY <1>1
    <3> QED
      BY <1>2, <3>1 DEF AllShort
  <2> QED
    BY <1>1, <2>1, <2>2 DEF AllShort
<1>3. ASSUME AllShort(s), AllShort(t), NEW i \in DOMAIN u PROVE Short(u[i])
  <2>1. CASE i <= Len(s)
    BY <1>1, <1>3, <2>1 DEF AllShort
  <2>2. CASE ~(i <= Len(s))
    <3>1. i - Len(s) \in DOMAIN t /\ u[i] = t[i - Len(s)]
      BY <1>1, <2>2
    <3> QED
      BY <1>3, <3>1 DEF AllShort
  <2> QED
    BY <2>1, <2>2
<1>4. AllShort(s) /\ AllShort(t) => AllShort(u)
  BY <1>3 DEF AllShort
<1> QED
  BY <1>2, <1>4 DEF u

\* WriteOK is an invariant: one lemma per action of the writer, and one for the
\* actions of the reader.
LEMMA WriteInit == Init => WriteOK
  BY DEF Init, WriteOK

LEMMA WritePrep ==
  ASSUME Inv, WriteOK, NEW i \in DOMAIN Texts, message_prep(Texts[i])
  PROVE  WriteOK'
<1> DEFINE t == Texts[i]
<1>1. Text(t)
  BY MessageTexts DEF Text
<1>2. /\ msg' = t /\ pc' = "write" /\ k' = 0 /\ todo' = message_head(t.dir, t.id)
      /\ wbuf' = egg_buffer_reset(wbuf)
  BY DEF message_prep
<1> HIDE DEF t
<1>3. BufOK(wbuf') /\ wbuf'.len = 0 /\ wbuf'.failures = 0
  BY <1>2, ResetOK DEF Inv, WriterOK
<1>4. Contents(wbuf') = <<>>
  BY <1>3, ContentsAre
<1>5. Sofar(t, 0) = message_head(t.dir, t.id) /\ message_head(t.dir, t.id) \in Seq(Additions)
  BY <1>1, SofarNone, TextFacts
<1>6. message_head(t.dir, t.id) = <<>> \o message_head(t.dir, t.id)
  BY <1>5
<1>7. ~egg_buffer_has_error(wbuf')
  BY <1>3 DEF egg_buffer_has_error
<1>8. Written(<<>>)'
  BY <1>2, <1>4, <1>5, <1>6, <1>7, BytesEmpty DEF Written, AllShort
<1>9. <<>> \in Seq(Additions) /\ 0 \in 0 .. NumParts(t)
  BY <1>1, TextFacts
<1> QED
  BY <1>1, <1>2, <1>8, <1>9 DEF WriteOK

LEMMA WriteAdd ==
  ASSUME Inv, WriteOK, AddNext
  PROVE  WriteOK'
<1>1. PICK done \in Seq(Additions) : Written(done)
  BY DEF WriteOK, AddNext
<1>2. PICK ok \in MemAnswers, ok2 \in MemAnswers :
        wbuf' = Add(wbuf, Head(todo), ok, ok2)
        /\ nomem' = (nomem \/ wbuf' # Add(wbuf, Head(todo), TRUE, TRUE))
  BY DEF AddNext
<1>15. PICK x : x = Head(todo)
  OBVIOUS
<1>16. PICK d : d = Append(done, x)
  OBVIOUS
<1> DEFINE sure == Add(wbuf, x, TRUE, TRUE)
<1>3. /\ todo \in Seq(Additions) /\ todo # <<>> /\ BufOK(wbuf) /\ todo' = Tail(todo)
      /\ UNCHANGED <<text, reader, pc, k, wire, damaged, ret>> /\ pc = "write"
  BY DEF Inv, WriterOK, AddNext
<1>4. x \in Additions /\ todo = <<x>> \o Tail(todo) /\ Tail(todo) \in Seq(Additions) /\ <<x>> \in Seq(Additions)
  BY <1>3, <1>15
<1>5. d \in Seq(Additions) /\ d = done \o <<x>>
  BY <1>4, <1>16
<1>6. Sofar(msg, k) = d \o Tail(todo)
  <2>1. done \o (<<x>> \o Tail(todo)) = (done \o <<x>>) \o Tail(todo)
    BY ONLY <1>4, Joins3, done \in Seq(Additions)
  <2> QED
    BY <1>1, <1>4, <1>5, <2>1 DEF Written
<1>7. AddedAs(wbuf', wbuf, x, ok /\ ok2) /\ BufOK(wbuf')
  BY <1>2, <1>3, <1>4, <1>15, AddAdds, Added
<1>8. AddedAs(sure, wbuf, x, TRUE /\ TRUE)
  BY <1>3, <1>4, AddAdds
<1> HIDE DEF sure
<1>9. wbuf.failures \in Nat /\ wbuf'.failures \in Nat
  BY <1>3, <1>7, BufFields
<1>10. AllShort(d) <=> AllShort(done) /\ Short(x)
  <2>1. AllShort(<<x>>) <=> Short(x)
    BY DEF AllShort
  <2> QED
    BY <1>4, <1>5, <2>1, ShortConcat
<1>11. ASSUME egg_buffer_has_error(wbuf') PROVE nomem' \/ ~AllShort(d)
  <2>1. CASE egg_buffer_has_error(wbuf)
    <3>1. nomem \/ ~AllShort(done)
      BY <1>1, <2>1 DEF Written
    <3> QED
      BY <1>2, <1>10, <3>1
  <2>2. CASE ~egg_buffer_has_error(wbuf)
    <3>1. wbuf'.failures # wbuf.failures
      BY <1>9, <1>11, <2>2 DEF egg_buffer_has_error
    <3>2. CASE wbuf' # sure
      BY <1>2, <1>15, <3>2 DEF sure
    <3>3. CASE wbuf' = sure
      <4>1. ~Short(x)
        BY <1>8, <3>1, <3>3 DEF AddedAs
      <4> QED
        BY <1>10, <4>1
    <3> QED
      BY <3>2, <3>3
  <2> QED
    BY <2>1, <2>2
<1>12. ASSUME ~egg_buffer_has_error(wbuf') PROVE Contents(wbuf') = BytesOf(d) /\ AllShort(d)
  <2>1. ~egg_buffer_has_error(wbuf) /\ wbuf'.failures = wbuf.failures
    BY <1>7, <1>9, <1>12 DEF egg_buffer_has_error, AddedAs, Adds
  <2>2. Contents(wbuf') = Contents(wbuf) \o ItemBytes(x) /\ Short(x)
    BY <1>7, <2>1 DEF AddedAs, Adds
  <2>3. BytesOf(d) = BytesOf(done) \o ItemBytes(x)
    BY <1>4, <1>5, BytesConcat, BytesOne
  <2>4. Contents(wbuf) = BytesOf(done) /\ AllShort(done)
    BY <1>1, <2>1 DEF Written
  <2> QED
    BY <1>10, <2>2, <2>3, <2>4
<1>13. msg' = msg /\ k' = k /\ pc' = pc /\ todo' = Tail(todo)
  BY <1>3 DEF text
<1>14. Written(d)'
  <2>1. (Sofar(msg, k) = d \o todo)'
    BY <1>6, <1>13 DEF Sofar, PartItems
  <2>2. (IF egg_buffer_has_error(wbuf) THEN nomem \/ ~AllShort(d)
         ELSE Contents(wbuf) = BytesOf(d) /\ AllShort(d))'
    BY <1>11, <1>12
  <2> QED
    BY <2>1, <2>2 DEF Written
<1> QED
  BY <1>3, <1>5, <1>13, <1>14 DEF WriteOK

LEMMA WriteWrote ==
  ASSUME Inv, WriteOK, Wrote
  PROVE  WriteOK'
<1>1. PICK done \in Seq(Additions) : Written(done)
  BY DEF WriteOK, Wrote
<1>2. /\ UNCHANGED <<text, reader, wbuf, wire, damaged, nomem>> /\ pc = "write" /\ todo = <<>>
      /\ msg' = msg /\ Text(msg) /\ k \in 0 .. NumParts(msg) /\ NumParts(msg) \in Nat
  BY TextFacts DEF Wrote, WriteOK, text
<1>3. Sofar(msg, k) = done
  BY <1>1, <1>2 DEF Written
<1>4. AllItems(msg) = done \o Behind(msg, k) /\ Behind(msg, k) \in Seq(Additions)
  BY <1>2, <1>3, SofarBehind, SofarType DEF AllItems
<1>5. CASE WrotePart
  <2>1. /\ ~egg_buffer_has_error(wbuf) /\ k < NumParts(msg) /\ k' = k + 1 /\ pc' = pc
        /\ todo' = PartItems(msg, k + 1)
    BY <1>5 DEF WrotePart, NumParts, PartItems
  <2>2. Sofar(msg, k + 1) = Sofar(msg, k) \o PartItems(msg, k + 1)
    <3>1. k \in Nat
      BY <1>2
    <3> QED
      BY <1>2, <2>1, <3>1, SofarNext
  <2>3. (Sofar(msg, k) = done \o todo)'
    BY <1>2, <1>3, <2>1, <2>2 DEF Sofar, PartItems
  <2>4. wbuf' = wbuf /\ nomem' = nomem
    BY <1>2
  <2>5. Written(done)'
    BY <1>1, <2>3, <2>4 DEF Written
  <2>6. k + 1 \in 0 .. NumParts(msg)
    BY <1>2, <2>1
  <2> QED
    BY <1>2, <2>1, <2>5, <2>6 DEF WriteOK, Text
<1>6. CASE WriteFailed
  <2>1. egg_buffer_has_error(wbuf) /\ pc' = "done" /\ ret' = "HOST_MEMORY"
    BY <1>6 DEF WriteFailed
  <2>2. nomem \/ ~AllShort(done)
    BY <1>1, <2>1 DEF Written
  <2>3. nomem \/ ~AllShort(AllItems(msg))
    BY <1>4, <2>2, ShortConcat
  <2>4. nomem' \/ ~AllShort(AllItems(msg))'
    BY <1>2, <2>3 DEF AllItems
  <2> QED
    BY <1>2, <2>1, <2>4 DEF WriteOK, Text
<1>7. CASE WroteAll
  <2>1. /\ ~egg_buffer_has_error(wbuf) /\ pc' = "send" /\ k' = k /\ todo' = todo
        /\ k = NumParts(msg)
    BY <1>7 DEF WroteAll, NumParts
  <2>2. wbuf' = wbuf /\ nomem' = nomem
    BY <1>2
  <2>3. Written(done)'
    BY <1>1, <1>2, <2>1, <2>2 DEF Written, Sofar, PartItems
  <2>4. NumParts(msg)' = NumParts(msg) /\ Text(msg)'
    BY <1>2 DEF NumParts, Text
  <2> QED
    BY <1>2, <2>1, <2>2, <2>3, <2>4 DEF WriteOK
<1> QED
  BY <1>5, <1>6, <1>7 DEF Wrote

LEMMA WriteSend ==
  ASSUME Inv, WriteOK, Send
  PROVE  WriteOK'
<1>1. PICK done \in Seq(Additions) : Written(done)
  BY DEF WriteOK, Send
<1>2. /\ Text(msg) /\ ~egg_buffer_has_error(wbuf) /\ todo = <<>> /\ k = NumParts(msg)
  BY DEF WriteOK, Send
<1>3. /\ msg' = msg /\ pc' = "receive" /\ (~damaged' => wire' = Contents(wbuf))
  BY DEF Send, text, Contents
<1>4. done = AllItems(msg)
  BY <1>1, <1>2, SofarAll DEF Written, AllItems
<1>5. Contents(wbuf) = BytesOf(done) /\ AllShort(done)
  BY <1>1, <1>2 DEF Written
<1>6. Contents(wbuf) = Encoding(msg.dir, msg.id, msg.vals)
  BY <1>2, <1>4, <1>5, SofarAll DEF AllItems
<1>7. AllShort(AllItems(msg))' /\ Text(msg)'
  BY <1>2, <1>3, <1>4, <1>5 DEF AllItems, Text
<1>8. ~damaged' => wire' = Encoding(msg.dir, msg.id, msg.vals)'
  BY <1>3, <1>6
<1> QED
  BY <1>3, <1>7, <1>8 DEF WriteOK

\* The reader does not change the message.
LEMMA WriteRead ==
  ASSUME Inv, WriteOK, UNCHANGED msg, pc \in {"receive", "parse", "read"},
         pc' \in {"parse", "read", "done"}, pc' = "done" /\ ret' = "HOST_MEMORY" => nomem'
  PROVE  WriteOK'
<1>1. Text(msg)' /\ AllShort(AllItems(msg))'
  BY DEF WriteOK, Text, AllItems
<1> QED
  BY <1>1 DEF WriteOK

\* All actions together.
LEMMA WriteInductive == Inv /\ WriteOK /\ [Next]_vars => WriteOK'
<1> SUFFICES ASSUME Inv, WriteOK, [Next]_vars PROVE WriteOK'
  OBVIOUS
<1>1. CASE UNCHANGED vars
  BY <1>1 DEF vars, WriteOK, Written, Text, AllItems
<1>2. CASE Receive
  <2>1. /\ UNCHANGED msg /\ pc = "receive" /\ pc' \in {"parse", "done"}
        /\ pc' = "done" /\ ret' = "HOST_MEMORY" => nomem'
    BY <1>2 DEF Receive, text
  <2> QED
    BY <2>1, WriteRead
<1>3. CASE ParseRequest \/ ParseResponse
  <2>1. /\ UNCHANGED msg /\ pc = "parse" /\ pc' \in {"read", "done"} /\ (pc' = "done" => ret' # "HOST_MEMORY")
    BY <1>3 DEF ParseRequest, ParseResponse, text, Believed, End
  <2> QED
    BY <2>1, WriteRead
<1>4. CASE GetNext \/ GotPart \/ GotAll
  <2>1. /\ UNCHANGED msg /\ pc = "read" /\ pc' \in {"read", "done"} /\ (pc' = "done" => ret' # "HOST_MEMORY")
    BY <1>4 DEF GetNext, GotPart, GotAll, text, End
  <2> QED
    BY <2>1, WriteRead
<1>5. CASE GotHead \/ GotElem
  <2>1. /\ UNCHANGED msg /\ pc = "read" /\ pc' \in {"read", "done"} /\ (pc' = "done" => ret' # "HOST_MEMORY")
    BY <1>5 DEF GotHead, GotElem, text, End
  <2> QED
    BY <2>1, WriteRead
<1> QED
  BY <1>1, <1>2, <1>3, <1>4, <1>5, WritePrep, WriteAdd, WriteWrote, WriteSend, Zenon DEF Next

LEMMA WriteInvariant == Spec => []WriteOK
<1>1. Inv /\ WriteOK /\ [Next]_vars => WriteOK'
  BY WriteInductive
<1> QED
  BY <1>1, WriteInit, Invariant, PTL DEF Spec

\* A message is sent whole or not at all: the bytes that call_send or the daemon
\* puts on the wire are those of the head and of every part, in order.  An
\* addition that failed is never sent without the others (egg_buffer_has_error),
\* and a failure is not carried to the next message (gck_rpc_message_reset).
THEOREM WholeMessages == Spec => []SentWhole
<1>1. WriteOK => SentWhole
  BY DEF WriteOK, SentWhole
<1> QED
  BY <1>1, WriteInvariant, PTL

-----------------------------------------------------------------------------
(* What was written is read.                                               *)

\* The bytes s are in the buffer, from offset off on.
At(b, off, s) == off + Len(s) <= b.len /\ \A i \in 1 .. Len(s) : b.mem[off + i] = s[i]

\* The items that can be read again: the values fit in what they are written to.
Fitting ==
  {x \in Additions : /\ x.op = "word" => x.val \in Words
                     /\ x.op = "long" => x.val \in Longs
                     /\ x.op = "array" => x.val \in Arrays}
Readable == {x \in Fitting : Short(x)}

\* Reading at an offset gives the bytes that are there and leaves the buffer alone.
LEMMA LoadAt ==
  ASSUME NEW b, BufOK(b), NEW off \in Nat, NEW s \in Seq(Bytes), At(b, off, s)
  PROVE  /\ ~Beyond(b, off, Len(s)) /\ Load(b, off, Len(s)) = s /\ Loaded(b, off, Len(s)) = b
<1>1. b.len \in Nat /\ Len(b.mem) \in Nat /\ b.len <= Len(b.mem)
  BY BufFields
<1>2. Len(s) \in Nat
  OBVIOUS
<1>3. ~Beyond(b, off, Len(s))
  BY <1>1, <1>2 DEF Beyond, At
<1>4. Loaded(b, off, Len(s)) = b /\ Load(b, off, Len(s)) \in [1 .. Len(s) -> Bytes]
  BY <1>2, <1>3, Inside
<1>5. ASSUME NEW i \in 1 .. Len(s) PROVE Load(b, off, Len(s))[i] = s[i]
  <2>1. off + i <= Len(b.mem) /\ b.mem[off + i] = s[i] /\ s[i] \in Bytes
    BY <1>1, <1>2 DEF At
  <2>2. Cells(b, off, Len(s))[i] = s[i]
    BY <2>1 DEF Cells, allocated_len
  <2>3. s[i] # Junk
    BY <2>1, NoByte
  <2> QED
    BY <2>2, <2>3 DEF Load
<1>6. Load(b, off, Len(s)) = s
  <2> DEFINE l == Load(b, off, Len(s))
  <2> HIDE DEF l
  <2>1. l \in [1 .. Len(s) -> Bytes] /\ \A i \in 1 .. Len(s) : l[i] = s[i]
    BY <1>4, <1>5 DEF l
  <2>2. s \in [1 .. Len(s) -> Bytes]
    OBVIOUS
  <2>3. l = s
    BY ONLY <2>1, <2>2
  <2> QED
    BY <2>3 DEF l
<1> QED
  BY <1>3, <1>4, <1>6

\* egg_buffer_get_uint32 takes what egg_buffer_add_uint32 put there.
LEMMA WordAt ==
  ASSUME NEW b, BufOK(b), NEW off \in Nat, NEW v \in Words,
         At(b, off, egg_buffer_encode_uint32(v))
  PROVE  egg_buffer_get_uint32(b, off) = Got(b, v, off + WordLen)
<1> DEFINE s == egg_buffer_encode_uint32(v)
<1>1. v \in Int
  BY Arithmetic DEF Words
<1>2. s \in Seq(Bytes) /\ Len(s) = WordLen
  BY <1>1, Encoded
<1>3. egg_buffer_decode_uint32(s) = v
  BY Decoded
<1> HIDE DEF s
<1>4. ~Beyond(b, off, Len(s)) /\ Load(b, off, Len(s)) = s /\ Loaded(b, off, Len(s)) = b
  BY <1>2, LoadAt DEF s
<1> QED
  BY <1>2, <1>3, <1>4 DEF egg_buffer_get_uint32

\* Of two pieces, the second one is behind the first.
LEMMA AtConcat ==
  ASSUME NEW b, BufOK(b), NEW off \in Nat, NEW s \in Seq(Bytes), NEW t \in Seq(Bytes),
         At(b, off, s \o t)
  PROVE  At(b, off, s) /\ At(b, off + Len(s), t) /\ off + Len(s) \in Nat
<1>1. b.len \in Nat
  BY BufFields
<1> DEFINE u == s \o t
<1>2. /\ Len(u) = Len(s) + Len(t) /\ Len(s) \in Nat /\ Len(t) \in Nat
      /\ \A i \in 1 .. Len(s) : u[i] = s[i]
      /\ \A i \in 1 .. Len(t) : u[Len(s) + i] = t[i]
  OBVIOUS
<1> HIDE DEF u
<1>3. off + Len(u) <= b.len /\ \A i \in 1 .. Len(u) : b.mem[off + i] = u[i]
  BY DEF At, u
<1>4. off + Len(s) <= b.len /\ (off + Len(s)) + Len(t) <= b.len
  BY <1>1, <1>2, <1>3
<1>5. ASSUME NEW i \in 1 .. Len(s) PROVE b.mem[off + i] = s[i]
  BY <1>2, <1>3
<1>6. ASSUME NEW i \in 1 .. Len(t) PROVE b.mem[(off + Len(s)) + i] = t[i]
  <2>1. Len(s) + i \in 1 .. Len(u) /\ off + (Len(s) + i) = (off + Len(s)) + i
    BY <1>2
  <2>2. b.mem[off + (Len(s) + i)] = u[Len(s) + i]
    BY <1>3, <2>1
  <2> QED
    BY <1>2, <2>1, <2>2
<1>7. At(b, off, s)
  BY <1>4, <1>5 DEF At
<1>8. At(b, off + Len(s), t)
  BY <1>4, <1>6 DEF At
<1> QED
  BY <1>2, <1>7, <1>8

\* egg_buffer_get_uint64 takes what egg_buffer_add_uint64 put there.
LEMMA LongAt ==
  ASSUME NEW b, BufOK(b), NEW off \in Nat, NEW v \in Longs,
         At(b, off, egg_buffer_encode_uint32(v \div WordMod) \o egg_buffer_encode_uint32(v % WordMod))
  PROVE  egg_buffer_get_uint64(b, off) = Got(b, v, off + LongLen)
<1> DEFINE h == v \div WordMod
           l == v % WordMod
           s == egg_buffer_encode_uint32(h)
           t == egg_buffer_encode_uint32(l)
           hi == egg_buffer_get_uint32(b, off)
           lo == egg_buffer_get_uint32(hi.buf, hi.next)
<1>1. h \in Words /\ l \in Words /\ h * WordMod + l = v
  BY LongsAre DEF Longs
<1> HIDE DEF h, l
<1>2. h \in Int /\ l \in Int
  BY <1>1, Arithmetic DEF Words
<1>3. s \in Seq(Bytes) /\ Len(s) = WordLen /\ t \in Seq(Bytes) /\ Len(t) = WordLen
  BY <1>2, Encoded
<1>4. At(b, off, s \o t)
  BY DEF h, l
<1> HIDE DEF s, t
<1>5. At(b, off, s) /\ At(b, off + WordLen, t) /\ off + WordLen \in Nat
  BY <1>3, <1>4, AtConcat
<1>6. hi = Got(b, h, off + WordLen)
  BY <1>1, <1>5, WordAt DEF s
<1>7. hi.ok /\ hi.val = h /\ hi.buf = b /\ hi.next = off + WordLen
  BY <1>6 DEF Got
<1>8. lo = Got(b, l, (off + WordLen) + WordLen)
  BY <1>1, <1>5, <1>7, WordAt DEF t
<1>9. lo.ok /\ lo.val = l /\ lo.buf = b /\ lo.next = (off + WordLen) + WordLen
  BY <1>8 DEF Got
<1>10. egg_buffer_get_uint64(b, off) = Got(lo.buf, hi.val * WordMod + lo.val, lo.next)
  BY <1>7, <1>9 DEF egg_buffer_get_uint64
<1>11. (off + WordLen) + WordLen = off + LongLen
  BY PowerStep
<1> QED
  BY <1>1, <1>7, <1>9, <1>10, <1>11

LEMMA Limits == TooLong \in Int /\ TooLong < NullLen /\ NullLen \in Words /\ NullLen < WordMod
<1>1. WordMod \div 2 \in Int /\ WordMod \div 2 <= WordMod /\ WordMod \div 2 - 1 < WordMod - 1
  <2>1. WordMod >= 2
    <3> DEFINE q == Base ^ (WordLen - 1)
    <3>1. WordLen - 1 \in 0 .. LongLen /\ (WordLen - 1) + 1 = WordLen
      BY PowerStep
    <3>2. q \in Nat /\ q > 0 /\ WordMod = Base * q
      BY <3>1, PowersPositive, EggBufferPowers, PowerStep DEF WordMod
    <3> HIDE DEF q
    <3>3. Base * q >= Base
      BY <3>2, PowerStep, Products
    <3> QED
      BY <3>2, <3>3, PowerStep
  <2> QED
    BY <2>1, Arithmetic
<1> QED
  BY <1>1, Arithmetic DEF TooLong, NullLen, Words

\* egg_buffer_get_byte_array takes what egg_buffer_add_byte_array put there.
LEMMA ArrayAt ==
  ASSUME NEW b, BufOK(b), NEW off \in Nat, NEW a \in Arrays, a.ptr => Len(a.bytes) < TooLong,
         NEW s, s = IF a.ptr THEN egg_buffer_encode_uint32(Len(a.bytes)) \o a.bytes
                    ELSE egg_buffer_encode_uint32(NullLen),
         At(b, off, s)
  PROVE  egg_buffer_get_byte_array(b, off) = Got(b, a, off + Len(s))
<1>1. a.ptr \in BOOLEAN /\ a.bytes \in Seq(Bytes) /\ (~a.ptr => a.bytes = <<>>)
      /\ a = [ptr |-> a.ptr, bytes |-> a.bytes]
  BY DEF Arrays
<1> DEFINE n == egg_buffer_get_uint32(b, off)
           m == Len(a.bytes)
<1>2. CASE ~a.ptr
  <2>1. NullLen \in Words /\ NullLen \in Int
    BY Limits, Arithmetic DEF Words
  <2>2. s = egg_buffer_encode_uint32(NullLen) /\ Len(s) = WordLen
    BY <1>2, <2>1, Encoded
  <2>3. n = Got(b, NullLen, off + WordLen)
    BY <2>1, <2>2, WordAt
  <2>4. n.ok /\ n.val = NullLen /\ n.buf = b /\ n.next = off + WordLen
    BY <2>3 DEF Got
  <2>5. egg_buffer_get_byte_array(b, off) = Got(b, [ptr |-> FALSE, bytes |-> <<>>], off + WordLen)
    BY <2>4 DEF egg_buffer_get_byte_array
  <2>6. a = [ptr |-> FALSE, bytes |-> <<>>]
    BY <1>1, <1>2
  <2> QED
    BY <2>2, <2>5, <2>6
<1>3. CASE a.ptr
  <2> DEFINE t == egg_buffer_encode_uint32(m)
  <2>1. m \in Nat /\ m < TooLong
    BY <1>1, <1>3
  <2>2. m \in Words /\ m \in Int /\ m # NullLen /\ ~(m >= TooLong)
    BY <2>1, Limits, Arithmetic DEF Words
  <2>3. t \in Seq(Bytes) /\ Len(t) = WordLen
    BY <2>2, Encoded
  <2>4. s = t \o a.bytes
    BY <1>3
  <2> HIDE DEF t, m
  <2>5. At(b, off, t) /\ At(b, off + WordLen, a.bytes) /\ off + WordLen \in Nat
    <3>1. At(b, off, t \o a.bytes)
      BY <2>4
    <3>2. At(b, off, t) /\ At(b, off + Len(t), a.bytes) /\ off + Len(t) \in Nat
      BY <1>1, <2>3, <3>1, AtConcat
    <3> QED
      BY <2>3, <3>2
  <2>6. n = Got(b, m, off + WordLen)
    BY <2>2, <2>5, WordAt DEF t
  <2>7. n.ok /\ n.val = m /\ n.buf = b /\ n.next = off + WordLen
    BY <2>6 DEF Got
  <2> HIDE DEF n
  <2>8. /\ ~Beyond(b, off + WordLen, m) /\ Load(b, off + WordLen, m) = a.bytes
        /\ Loaded(b, off + WordLen, m) = b
    BY <1>1, <2>5, LoadAt DEF m
  <2>9. egg_buffer_get_byte_array(b, off)
          = Got(b, [ptr |-> TRUE, bytes |-> a.bytes], (off + WordLen) + m)
    BY <2>2, <2>7, <2>8 DEF egg_buffer_get_byte_array, n
  <2>13. \A c, d \in Seq(Bytes) : Len(c \o d) = Len(c) + Len(d)
    OBVIOUS
  <2>10. Len(s) = WordLen + m
    BY ONLY <1>1, <2>3, <2>4, <2>13 DEF m
  <2>11. (off + WordLen) + m = off + Len(s)
    BY ONLY <2>1, <2>10, Arithmetic, off \in Nat
  <2>12. [ptr |-> TRUE, bytes |-> a.bytes] = a
    BY <1>1, <1>3
  <2> QED
    BY <2>9, <2>11, <2>12
<1> QED
  BY <1>1, <1>2, <1>3

\* Every reading operation takes what its adding operation put there.
LEMMA GetAt ==
  ASSUME NEW b, BufOK(b), NEW off \in Nat, NEW x \in Readable, At(b, off, ItemBytes(x))
  PROVE  Get(b, off, x.op) = Got(b, x.val, off + Len(ItemBytes(x)))
<1>0. x \in Additions /\ x \in Fitting /\ Short(x)
  BY DEF Readable, Fitting
<1>1. CASE x \in [op : {"byte"}, val : Bytes]
  <2> DEFINE s == <<x.val>>
  <2>1. x.op = "byte" /\ s \in Seq(Bytes) /\ Len(s) = 1 /\ s[1] = x.val
    BY <1>1
  <2>2. ItemBytes(x) = s /\ Get(b, off, x.op) = egg_buffer_get_byte(b, off)
    BY <2>1 DEF ItemBytes, Get
  <2> HIDE DEF s
  <2>3. ~Beyond(b, off, Len(s)) /\ Load(b, off, Len(s)) = s /\ Loaded(b, off, Len(s)) = b
    BY <2>1, <2>2, LoadAt
  <2> QED
    BY <2>1, <2>2, <2>3 DEF egg_buffer_get_byte
<1>2. CASE x \in [op : {"word", "long"}, val : Nat] /\ x.op = "word"
  <2>1. x.val \in Words /\ x.val \in Int
    BY <1>0, <1>2 DEF Fitting
  <2>2. ItemBytes(x) = egg_buffer_encode_uint32(x.val) /\ Get(b, off, x.op) = egg_buffer_get_uint32(b, off)
    BY <1>2 DEF ItemBytes, Get
  <2>3. Len(ItemBytes(x)) = WordLen
    BY <2>1, <2>2, Encoded
  <2> QED
    BY <2>1, <2>2, <2>3, WordAt
<1>3. CASE x \in [op : {"word", "long"}, val : Nat] /\ x.op = "long"
  <2>1. x.val \in Longs /\ x.val \in Int
    BY <1>0, <1>3 DEF Fitting
  <2> DEFINE s == egg_buffer_encode_uint32(x.val \div WordMod)
             t == egg_buffer_encode_uint32(x.val % WordMod)
  <2>2. ItemBytes(x) = s \o t /\ Get(b, off, x.op) = egg_buffer_get_uint64(b, off)
    BY <1>3 DEF ItemBytes, Get
  <2>3. x.val \div WordMod \in Int /\ x.val % WordMod \in Int
    BY <2>1, Arithmetic, Remainder
  <2>4. s \in Seq(Bytes) /\ t \in Seq(Bytes) /\ Len(s) = WordLen /\ Len(t) = WordLen
    BY <2>3, Encoded
  <2>5. egg_buffer_get_uint64(b, off) = Got(b, x.val, off + LongLen)
    BY <2>1, <2>2, LongAt
  <2> HIDE DEF s, t
  <2>6. Len(s \o t) = LongLen
    BY <2>4, PowerStep
  <2> QED
    BY <2>2, <2>5, <2>6
<1>4. CASE x \in [op : {"array"}, val : [ptr : BOOLEAN, bytes : Seq(Bytes)]]
  <2>1. x.op = "array" /\ x.val \in Arrays
    BY <1>0, <1>4 DEF Fitting
  <2>2. x.val.ptr => Len(x.val.bytes) < TooLong
    BY <1>0, <2>1 DEF Short
  <2> DEFINE s == ItemBytes(x)
  <2>3. s = IF x.val.ptr THEN egg_buffer_encode_uint32(Len(x.val.bytes)) \o x.val.bytes
            ELSE egg_buffer_encode_uint32(NullLen)
    BY <2>1 DEF ItemBytes
  <2>4. At(b, off, s)
    OBVIOUS
  <2> HIDE DEF s
  <2>5. egg_buffer_get_byte_array(b, off) = Got(b, x.val, off + Len(s))
    BY <2>1, <2>2, <2>3, <2>4, ArrayAt
  <2> QED
    BY <2>1, <2>5 DEF Get, s
<1> QED
  BY <1>0, <1>1, <1>2, <1>3, <1>4 DEF Additions

-----------------------------------------------------------------------------
(* What is left of a sequence behind its first n elements.                 *)

Drop(s, n) == [i \in 1 .. Len(s) - n |-> s[n + i]]
Vals(s)    == [i \in 1 .. Len(s) |-> s[i].val]

LEMMA DropType ==
  ASSUME NEW E, NEW s \in Seq(E), NEW n \in 0 .. Len(s)
  PROVE  /\ Drop(s, n) \in Seq(E) /\ Len(Drop(s, n)) = Len(s) - n
         /\ \A i \in 1 .. Len(s) - n : Drop(s, n)[i] = s[n + i]
<1>1. Len(s) - n \in Nat /\ n \in Nat /\ Len(s) \in Nat
  OBVIOUS
<1>2. \A i \in 1 .. Len(s) - n : n + i \in 1 .. Len(s)
  BY <1>1
<1> QED
  BY <1>1, <1>2 DEF Drop

LEMMA DropNone ==
  ASSUME NEW E, NEW s \in Seq(E)
  PROVE  Drop(s, 0) = s /\ Drop(s, Len(s)) = <<>>
<1>1. 0 \in 0 .. Len(s) /\ Len(s) \in 0 .. Len(s) /\ Len(s) - 0 = Len(s) /\ Len(s) - Len(s) = 0
  OBVIOUS
<1>2. /\ Drop(s, 0) \in Seq(E) /\ Len(Drop(s, 0)) = Len(s) - 0
      /\ \A i \in 1 .. Len(s) - 0 : Drop(s, 0)[i] = s[0 + i]
  BY <1>1, DropType
<1>3. Drop(s, Len(s)) \in Seq(E) /\ Len(Drop(s, Len(s))) = 0
  BY <1>1, DropType
<1> DEFINE d == Drop(s, 0)
<1> HIDE DEF d
<1>4. d \in Seq(E) /\ Len(d) = Len(s) /\ \A i \in 1 .. Len(s) : d[i] = s[i]
  BY <1>1, <1>2 DEF d
<1>5. d = s
  BY ONLY <1>4, SameSeq, s \in Seq(E)
<1>6. \A x \in Seq(E) : Len(x) = 0 => x = <<>>
  OBVIOUS
<1> QED
  BY <1>3, <1>5, <1>6 DEF d

\* Dropping one element after the other.
LEMMA DropNext ==
  ASSUME NEW E, NEW s \in Seq(E), NEW n \in Nat, n < Len(s)
  PROVE  Drop(s, n) = <<s[n + 1]>> \o Drop(s, n + 1) /\ s[n + 1] \in E
<1>1. n \in 0 .. Len(s) /\ n + 1 \in 0 .. Len(s) /\ n + 1 \in 1 .. Len(s) /\ Len(s) \in Nat
  OBVIOUS
<1>2. s[n + 1] \in E
  BY <1>1
<1> DEFINE a == <<s[n + 1]>>
           b == Drop(s, n + 1)
           c == Drop(s, n)
<1>3. /\ b \in Seq(E) /\ Len(b) = Len(s) - (n + 1)
      /\ \A i \in 1 .. Len(s) - (n + 1) : b[i] = s[(n + 1) + i]
  BY <1>1, DropType
<1>4. c \in Seq(E) /\ Len(c) = Len(s) - n /\ \A i \in 1 .. Len(s) - n : c[i] = s[n + i]
  BY <1>1, DropType
<1>5. a \in Seq(E) /\ Len(a) = 1 /\ a[1] = s[n + 1]
  BY <1>2
<1> HIDE DEF a, b, c
<1>6. \A i \in 1 .. Len(c) : c[i] = IF i <= Len(a) THEN a[i] ELSE b[i - Len(a)]
  <2> TAKE i \in 1 .. Len(c)
  <2>1. CASE i <= 1
    BY <1>1, <1>4, <1>5, <2>1
  <2>2. CASE ~(i <= 1)
    <3>1. i - 1 \in 1 .. Len(s) - (n + 1) /\ (n + 1) + (i - 1) = n + i
      BY <1>1, <1>4, <2>2
    <3>2. b[i - 1] = s[(n + 1) + (i - 1)]
      BY <1>3, <3>1
    <3> QED
      BY <1>4, <1>5, <2>2, <3>1, <3>2
  <2> QED
    BY <2>1, <2>2
<1>7. Len(c) = Len(a) + Len(b)
  BY <1>1, <1>3, <1>4, <1>5
<1>8. c = a \o b
  BY ONLY <1>3, <1>4, <1>5, <1>6, <1>7, ConcatIs
<1> QED
  BY <1>2, <1>8 DEF a, b, c

LEMMA FlattenOne ==
  ASSUME NEW E, NEW x \in Seq(E)
  PROVE  FlattenSeq(<<x>>) = x
<1>1. <<>> \in Seq(Seq(E)) /\ Append(<<>>, x) = <<x>> /\ <<>> \o x = x
  OBVIOUS
<1>2. FlattenSeq(Append(<<>>, x)) = FlattenSeq(<<>>) \o x
  BY <1>1, FlattenAppend
<1> QED
  BY <1>1, <1>2, FlattenEmpty

LEMMA FlattenDrop ==
  ASSUME NEW E, NEW s \in Seq(Seq(E)), NEW n \in Nat, n < Len(s)
  PROVE  FlattenSeq(Drop(s, n)) = s[n + 1] \o FlattenSeq(Drop(s, n + 1))
<1>1. Drop(s, n) = <<s[n + 1]>> \o Drop(s, n + 1) /\ s[n + 1] \in Seq(E)
  BY DropNext
<1>2. n + 1 \in 0 .. Len(s)
  OBVIOUS
<1>3. Drop(s, n + 1) \in Seq(Seq(E))
  BY <1>2, DropType
<1>4. <<s[n + 1]>> \in Seq(Seq(E))
  BY <1>1
<1>5. FlattenSeq(<<s[n + 1]>> \o Drop(s, n + 1)) = FlattenSeq(<<s[n + 1]>>) \o FlattenSeq(Drop(s, n + 1))
  BY <1>3, <1>4, FlattenConcat
<1> QED
  BY <1>1, <1>5, FlattenOne

\* The parts behind part n begin with part n + 1.
LEMMA BehindNext ==
  ASSUME NEW m, Text(m), NEW n \in Nat, n < NumParts(m)
  PROVE  Behind(m, n) = PartItems(m, n + 1) \o Behind(m, n + 1)
<1> DEFINE p == [i \in 1 .. NumParts(m) |-> PartItems(m, i)]
<1>1. NumParts(m) \in Nat /\ \A i \in 1 .. NumParts(m) : PartItems(m, i) \in Seq(Additions)
  BY TextFacts
<1>2. p \in Seq(Seq(Additions)) /\ Len(p) = NumParts(m) /\ \A i \in 1 .. NumParts(m) : p[i] = PartItems(m, i)
  BY <1>1
<1>3. ASSUME NEW j \in 0 .. NumParts(m) PROVE Behind(m, j) = FlattenSeq(Drop(p, j))
  <2>1. \A i \in 1 .. NumParts(m) - j : p[j + i] = PartItems(m, j + i)
    <3> TAKE i \in 1 .. NumParts(m) - j
    <3>1. j + i \in 1 .. NumParts(m)
      BY <1>1
    <3> QED
      BY <1>2, <3>1
  <2> HIDE DEF p
  <2>2. Drop(p, j) = [i \in 1 .. NumParts(m) - j |-> PartItems(m, j + i)]
    BY <1>2, <2>1 DEF Drop
  <2> QED
    BY <2>2 DEF Behind
<1> HIDE DEF p
<1>4. n \in 0 .. NumParts(m) /\ n + 1 \in 0 .. NumParts(m) /\ n + 1 \in 1 .. NumParts(m) /\ n < Len(p)
  BY <1>1, <1>2
<1>5. FlattenSeq(Drop(p, n)) = p[n + 1] \o FlattenSeq(Drop(p, n + 1))
  BY <1>2, <1>4, FlattenDrop
<1> QED
  BY <1>2, <1>3, <1>4, <1>5

\* Short sequences.
LEMMA Joined2 ==
  ASSUME NEW E, NEW a \in E, NEW b \in E
  PROVE  <<a>> \o <<b>> = <<a, b>>
<1> DEFINE s == <<a>>
           t == <<b>>
           u == <<a, b>>
<1>1. /\ s \in Seq(E) /\ t \in Seq(E) /\ u \in Seq(E)
      /\ Len(s) = 1 /\ Len(t) = 1 /\ Len(u) = 2
  OBVIOUS
<1>2. \A i \in 1 .. 2 : u[i] = IF i <= 1 THEN s[i] ELSE t[i - 1]
  OBVIOUS
<1> HIDE DEF s, t, u
<1>4. Len(u) = Len(s) + Len(t) /\ \A i \in 1 .. Len(u) : u[i] = IF i <= Len(s) THEN s[i] ELSE t[i - Len(s)]
  BY <1>1, <1>2
<1>3. u = s \o t
  BY ONLY <1>1, <1>4, ConcatIs
<1> QED
  BY <1>3 DEF s, t, u

LEMMA Joined3 ==
  ASSUME NEW E, NEW a \in E, NEW b \in E, NEW c \in E
  PROVE  <<a, b>> \o <<c>> = <<a, b, c>>
<1> DEFINE s == <<a, b>>
           t == <<c>>
           u == <<a, b, c>>
<1>1. /\ s \in Seq(E) /\ t \in Seq(E) /\ u \in Seq(E)
      /\ Len(s) = 2 /\ Len(t) = 1 /\ Len(u) = 3
  OBVIOUS
<1>2. \A i \in 1 .. 3 : u[i] = IF i <= 2 THEN s[i] ELSE t[i - 2]
  OBVIOUS
<1> HIDE DEF s, t, u
<1>4. Len(u) = Len(s) + Len(t) /\ \A i \in 1 .. Len(u) : u[i] = IF i <= Len(s) THEN s[i] ELSE t[i - Len(s)]
  BY <1>1, <1>2
<1>3. u = s \o t
  BY ONLY <1>1, <1>4, ConcatIs
<1> QED
  BY <1>3 DEF s, t, u

LEMMA Joined13 ==
  ASSUME NEW E, NEW a \in E, NEW b \in E, NEW c \in E, NEW d \in E
  PROVE  <<a>> \o <<b, c, d>> = <<a, b, c, d>>
<1> DEFINE s == <<a>>
           t == <<b, c, d>>
           u == <<a, b, c, d>>
<1>1. /\ s \in Seq(E) /\ t \in Seq(E) /\ u \in Seq(E)
      /\ Len(s) = 1 /\ Len(t) = 3 /\ Len(u) = 4
  OBVIOUS
<1>2. \A i \in 1 .. 4 : u[i] = IF i <= 1 THEN s[i] ELSE t[i - 1]
  OBVIOUS
<1> HIDE DEF s, t, u
<1>4. Len(u) = Len(s) + Len(t) /\ \A i \in 1 .. Len(u) : u[i] = IF i <= Len(s) THEN s[i] ELSE t[i - Len(s)]
  BY <1>1, <1>2
<1>3. u = s \o t
  BY ONLY <1>1, <1>4, ConcatIs
<1> QED
  BY <1>3 DEF s, t, u

LEMMA Joined4 ==
  ASSUME NEW E, NEW a \in E, NEW b \in E, NEW c \in E, NEW d \in E
  PROVE  <<a>> \o (<<b>> \o <<c>> \o <<d>>) = <<a, b, c, d>>
<1>1. <<b>> \o <<c>> = <<b, c>>
  BY ONLY Joined2, b \in E, c \in E
<1>2. <<b, c>> \o <<d>> = <<b, c, d>>
  BY ONLY Joined3, b \in E, c \in E, d \in E
<1>3. <<a>> \o <<b, c, d>> = <<a, b, c, d>>
  BY ONLY Joined13, a \in E, b \in E, c \in E, d \in E
<1> QED
  BY <1>1, <1>2, <1>3

LEMMA Vals1 ==
  ASSUME NEW a
  PROVE  Vals(<<a>>) = <<a.val>>
  BY DEF Vals
LEMMA Vals2 ==
  ASSUME NEW a, NEW b
  PROVE  Len(Vals(<<a, b>>)) = 2 /\ Vals(<<a, b>>)[1] = a.val /\ Vals(<<a, b>>)[2] = b.val /\ Vals(<<a, b>>) = <<a.val, b.val>>
<1> DEFINE E == {a.val, b.val}
<1>1. /\ Vals(<<a, b>>) = [i \in 1 .. 2 |-> <<a, b>>[i].val] /\ <<a, b>>[1] = a /\ <<a, b>>[2] = b
  BY DEF Vals
<1> DEFINE f == Vals(<<a, b>>)
<1> HIDE DEF f
<1>2. f = [i \in 1 .. 2 |-> IF i = 1 THEN a.val ELSE b.val]
  BY <1>1 DEF f
<1>3. f \in Seq(E) /\ Len(f) = 2 /\ f[1] = a.val /\ f[2] = b.val
  BY <1>2
<1>4. <<a.val, b.val>> \in Seq(E)
  OBVIOUS
<1>5. f = <<a.val, b.val>>
  BY <1>3, <1>4, SameSeq
<1> QED
  BY <1>3, <1>5 DEF f
LEMMA Vals4 ==
  ASSUME NEW a, NEW b, NEW c, NEW d
  PROVE  Vals(<<a, b, c, d>>) = <<a.val, b.val, c.val, d.val>>
<1> DEFINE E == {a.val, b.val, c.val, d.val}
           t == <<a, b, c, d>>
           f == Vals(t)
<1>1. /\ f = [i \in 1 .. 4 |-> t[i].val] /\ t[1] = a /\ t[2] = b /\ t[3] = c /\ t[4] = d
  BY DEF Vals
<1> HIDE DEF f, t
<1>2. \A i \in 1 .. 4 : i = 1 \/ i = 2 \/ i = 3 \/ i = 4
  OBVIOUS
<1>3. f \in Seq(E) /\ Len(f) = 4 /\ f[1] = a.val /\ f[2] = b.val /\ f[3] = c.val /\ f[4] = d.val
  BY <1>1, <1>2
<1> DEFINE u == <<a.val, b.val, c.val, d.val>>
<1>4. u \in Seq(E) /\ Len(u) = 4 /\ u[1] = a.val /\ u[2] = b.val /\ u[3] = c.val /\ u[4] = d.val
  OBVIOUS
<1> HIDE DEF u, E
<1>5. f = u
  BY <1>2, <1>3, <1>4, SameSeq
<1> QED
  BY <1>5 DEF f, t, u

-----------------------------------------------------------------------------
(* The items of a part: a head, and the items of each element.             *)

HeadItems(part, v) ==
  CASE part = "au" -> Byte(IF v.ptr THEN 1 ELSE 0) \o Word(v.num)
    [] part \in {"aA", "fA"} -> Word(Len(v))
    [] OTHER -> write_part(part, v)
RoomItems(a) == Word(a.type) \o Word(IF a.ptr THEN a.room ELSE 0)
ElemItems(part, v) ==
  CASE part = "au" -> [i \in DOMAIN v.longs |-> Long(v.longs[i])]
    [] part = "aA" -> [i \in DOMAIN v |-> write_attribute(v[i])]
    [] part = "fA" -> [i \in DOMAIN v |-> RoomItems(v[i])]
    [] OTHER -> <<>>

ByteItem(x)  == [op |-> "byte", val |-> x]
WordItem(x)  == [op |-> "word", val |-> x]
LongItem(x)  == [op |-> "long", val |-> x]
ArrayItem(p, bytes) == [op |-> "array", val |-> [ptr |-> p, bytes |-> bytes]]

\* What the messages are made of is in the range of the operations.
LEMMA ItemsFit ==
  /\ \A x \in Bytes : ByteItem(x) \in Fitting
  /\ \A x \in Words : WordItem(x) \in Fitting
  /\ \A x \in Longs : LongItem(x) \in Fitting
  /\ \A p \in BOOLEAN, s \in Seq(Bytes) : (~p => s = <<>>) => ArrayItem(p, s) \in Fitting
<1>1. Words \subseteq Nat
  BY WordsAre DEF Words
<1>2. Longs \subseteq Nat
  BY DEF Longs
<1>3. ASSUME NEW x \in Bytes PROVE ByteItem(x) \in Fitting
  BY DEF ByteItem, Fitting, Additions
<1>4. ASSUME NEW x \in Words PROVE WordItem(x) \in Fitting
  BY <1>1 DEF WordItem, Fitting, Additions
<1>5. ASSUME NEW x \in Longs PROVE LongItem(x) \in Fitting
  BY <1>2 DEF LongItem, Fitting, Additions
<1>6. ASSUME NEW p \in BOOLEAN, NEW s \in Seq(Bytes),
             ~p => s = <<>> PROVE ArrayItem(p, s) \in Fitting
  <2>1. [ptr |-> p, bytes |-> s] \in Arrays
    BY <1>6 DEF Arrays
  <2> QED
    BY <2>1 DEF ArrayItem, Fitting, Additions
<1> QED
  BY <1>3, <1>4, <1>5, <1>6

LEMMA Small == 0 \in Bytes /\ 1 \in Bytes /\ 0 \in Words
  BY Arithmetic DEF Bytes, Words

\* A CK_ULONG of the reader fits in a uint64 and is not changed by AsUlong.
LEMMA Ulongs ==
  ASSUME NEW n \in CK_ULONG
  PROVE  n \in Longs /\ AsUlong(n) = n
<1> DEFINE w == Widths["reader"]
           b == Base ^ w
<1>1. w \in {WordLen, LongLen} /\ w \in 0 .. LongLen + 1 /\ LongLen - w \in Nat /\ w \in Nat
      /\ w + (LongLen - w) = LongLen /\ LongLen - w \in 0 .. LongLen + 1
  BY MessageAssumption, PowerStep
<1>2. b \in Nat /\ b > 0 /\ Base ^ (LongLen - w) \in Nat /\ Base ^ (LongLen - w) > 0
  BY <1>1, PowersPositive
<1>3. Base ^ LongLen = b * Base ^ (LongLen - w)
  <2>1. Base ^ (w + (LongLen - w)) = Base ^ w * Base ^ (LongLen - w)
    <3>1. \A i, j \in Nat : i + j = LongLen => Base ^ (i + j) = Base ^ i * Base ^ j
      BY PowersAdd, PowerStep
    <3> QED
      BY <1>1, <3>1
  <2> QED
    BY <1>1, <2>1
<1> DEFINE c == Base ^ (LongLen - w)
<1>8. n \in 0 .. b - 1
  BY DEF CK_ULONG
<1> HIDE DEF b, c
<1>4. b <= b * c
  <2>1. b * 0 + b <= b * c
    BY <1>2, Products DEF c
  <2>2. b * 0 = 0
    BY <1>2
  <2> QED
    BY <1>2, <2>1, <2>2
<1>5. n \in Nat /\ n < b /\ n <= Base ^ LongLen - 1 /\ Base ^ LongLen \in Nat
  <2>1. b * c \in Nat
    BY <1>2, Products DEF c
  <2> QED
    BY <1>2, <1>3, <1>4, <1>8, <2>1 DEF c
<1>6. n \in Longs
  BY <1>5, LongsAre DEF Longs
<1>7. n % b = n
  <2>1. (b * 0 + n) % b = n
    BY ONLY <1>2, <1>5, Quotient, b \in Nat, 0 \in Int
  <2> QED
    BY <1>2, <1>5, <2>1
<1> QED
  BY <1>6, <1>7 DEF AsUlong, b

\* A part is its head and its elements, and is made of them.
PartRight(part, v) ==
  LET hs == HeadItems(part, v)
      es == ElemItems(part, v)
  IN  /\ hs \in Seq(Fitting) /\ hs # <<>> /\ es \in Seq(Seq(Fitting))
      /\ write_part(part, v) = hs \o FlattenSeq(es)
      /\ NumElems(part, Vals(hs)) = Len(es) /\ (~HasElems(part) => es = <<>>)
      /\ PartValue(part, Vals(hs), [i \in 1 .. Len(es) |-> Vals(es[i])]) = v

\* Parts without elements.
LEMMA SimplePart ==
  ASSUME NEW part \in DOMAIN Letters, ~HasElems(part), NEW v, NEW hs,
         hs = write_part(part, v),
         hs \in Seq(Fitting), hs # <<>>, PartValue(part, Vals(hs), <<>>) = v
  PROVE  PartRight(part, v)
<1>1. part \notin {"au", "aA", "fA"}
  BY DEF HasElems
<1>2. HeadItems(part, v) = hs /\ ElemItems(part, v) = <<>>
  BY <1>1 DEF HeadItems, ElemItems
<1>3. <<>> \in Seq(Seq(Fitting)) /\ Len(<<>>) = 0 /\ hs \o <<>> = hs
  OBVIOUS
<1>4. NumElems(part, Vals(hs)) = 0
  BY <1>1 DEF NumElems
<1>5. [i \in 1 .. Len(<<>>) |-> Vals(<<>>[i])] = <<>>
  OBVIOUS
<1> QED
  BY <1>2, <1>3, <1>4, <1>5, FlattenEmpty DEF PartRight

\* Heads of one and of two items.
LEMMA Pairs ==
  ASSUME NEW a \in Fitting, NEW b \in Fitting
  PROVE  /\ <<a>> \o <<b>> = <<a, b>> /\ <<a, b>> \in Seq(Fitting) /\ <<a, b>> # <<>>
         /\ Vals(<<a, b>>) = <<a.val, b.val>>
<1>1. <<a>> \o <<b>> = <<a, b>> /\ Vals(<<a, b>>) = <<a.val, b.val>>
  BY Joined2, Vals2
<1>2. <<a, b>> \in Seq(Fitting)
  OBVIOUS
<1>3. Len(<<a, b>>) = 2 /\ Len(<<>>) = 0
  OBVIOUS
<1> QED
  BY <1>1, <1>2, <1>3

LEMMA Single ==
  ASSUME NEW a \in Fitting
  PROVE  <<a>> \in Seq(Fitting) /\ <<a>> # <<>> /\ Vals(<<a>>) = <<a.val>>
  BY Vals1

\* For each kind of part: it is written as a head and elements, and the value
\* made of these is the one that was written.
LEMMA NumberParts ==
  ASSUME NEW part \in {"y", "u", "fu"}, NEW v, Suits(part, v)
  PROVE  PartRight(part, v)
<1> DEFINE hs == write_part(part, v)
<1>1. CASE part = "y"
  <2>1. hs = <<ByteItem(v)>> /\ v \in Bytes
    BY <1>1 DEF write_part, Byte, ByteItem, Suits
  <2>2. ByteItem(v) \in Fitting /\ ByteItem(v).val = v
    BY <2>1, ItemsFit DEF ByteItem
  <2>3. hs \in Seq(Fitting) /\ hs # <<>> /\ Vals(hs) = <<v>>
    BY <2>1, <2>2, Single
  <2>4. PartValue(part, Vals(hs), <<>>) = v
    BY <1>1, <2>3 DEF PartValue
  <2> QED
    BY <1>1, <2>3, <2>4, SimplePart DEF HasElems, Letters
<1>2. CASE part = "u"
  <2>1. hs = <<LongItem(v)>> /\ v \in CK_ULONG
    BY <1>2 DEF write_part, Long, LongItem, Suits
  <2>2. LongItem(v) \in Fitting /\ LongItem(v).val = v /\ AsUlong(v) = v
    BY <2>1, ItemsFit, Ulongs DEF LongItem
  <2>3. hs \in Seq(Fitting) /\ hs # <<>> /\ Vals(hs) = <<v>>
    BY <2>1, <2>2, Single
  <2>4. PartValue(part, Vals(hs), <<>>) = v
    BY <1>2, <2>2, <2>3 DEF PartValue
  <2> QED
    BY <1>2, <2>3, <2>4, SimplePart DEF HasElems, Letters
<1>3. CASE part = "fu"
  <2>1. hs = <<WordItem(v)>> /\ v \in Words
    BY <1>3 DEF write_part, Word, WordItem, Suits
  <2>2. WordItem(v) \in Fitting /\ WordItem(v).val = v
    BY <2>1, ItemsFit DEF WordItem
  <2>3. hs \in Seq(Fitting) /\ hs # <<>> /\ Vals(hs) = <<v>>
    BY <2>1, <2>2, Single
  <2>4. PartValue(part, Vals(hs), <<>>) = v
    BY <1>3, <2>3 DEF PartValue
  <2> QED
    BY <1>3, <2>3, <2>4, SimplePart DEF HasElems, Letters
<1> QED
  BY <1>1, <1>2, <1>3

LEMMA VersionPart ==
  ASSUME NEW v, Suits("v", v)
  PROVE  PartRight("v", v)
<1> DEFINE hs == write_part("v", v)
<1>1. v \in Bytes \X Bytes
  BY DEF Suits
<1>2. v[1] \in Bytes /\ v[2] \in Bytes /\ v = <<v[1], v[2]>>
  BY <1>1
<1>3. ByteItem(v[1]) \in Fitting /\ ByteItem(v[2]) \in Fitting /\ ByteItem(v[1]).val = v[1] /\ ByteItem(v[2]).val = v[2]
  BY <1>2, ItemsFit DEF ByteItem
<1>4. hs = <<ByteItem(v[1])>> \o <<ByteItem(v[2])>>
  BY DEF write_part, Byte, ByteItem
<1> HIDE DEF hs
<1>5. hs \in Seq(Fitting) /\ hs # <<>> /\ Vals(hs) = <<v[1], v[2]>>
  BY <1>3, <1>4, Pairs
<1>6. PartValue("v", Vals(hs), <<>>) = v
  BY <1>2, <1>5 DEF PartValue
<1> QED
  BY <1>5, <1>6, SimplePart DEF HasElems, Letters, hs

LEMMA StringPart ==
  ASSUME NEW v, Suits("s", v)
  PROVE  PartRight("s", v)
<1> DEFINE hs == write_part("s", v)
           x == ArrayItem(TRUE, v)
<1>1. v \in Seq(Bytes)
  BY DEF Suits
<1>2. x \in Fitting /\ x.val = [ptr |-> TRUE, bytes |-> v]
  BY <1>1, ItemsFit DEF ArrayItem
<1>3. hs = <<x>>
  BY DEF write_part, Array, ArrayItem
<1> HIDE DEF hs, x
<1>5. hs \in Seq(Fitting) /\ hs # <<>> /\ Vals(hs) = <<x.val>>
  BY <1>2, <1>3, Single
<1>6. PartValue("s", Vals(hs), <<>>) = v
  BY <1>2, <1>5 DEF PartValue
<1> QED
  BY <1>5, <1>6, SimplePart DEF HasElems, Letters, hs

LEMMA MechanismPart ==
  ASSUME NEW v, Suits("M", v)
  PROVE  PartRight("M", v)
<1> DEFINE hs == write_part("M", v)
           x == WordItem(v.type)
           y == ArrayItem(v.ptr, v.bytes)
<1>1. v \in [type : Words, ptr : BOOLEAN, bytes : Seq(Bytes)] /\ (~v.ptr => v.bytes = <<>>)
  BY DEF Suits
<1>2. x \in Fitting /\ x.val = v.type /\ y \in Fitting /\ y.val = [ptr |-> v.ptr, bytes |-> v.bytes]
  BY <1>1, ItemsFit DEF ArrayItem, WordItem
<1>3. hs = <<x>> \o <<y>>
  BY DEF write_part, Array, ArrayItem, Word, WordItem
<1> HIDE DEF hs, x, y
<1>5. hs \in Seq(Fitting) /\ hs # <<>> /\ Vals(hs) = <<x.val, y.val>>
  BY <1>2, <1>3, Pairs
<1>6. PartValue("M", Vals(hs), <<>>) = [type |-> v.type, ptr |-> v.ptr, bytes |-> v.bytes]
  BY <1>2, <1>5 DEF PartValue
<1>7. [type |-> v.type, ptr |-> v.ptr, bytes |-> v.bytes] = v
  BY <1>1
<1> QED
  BY <1>5, <1>6, <1>7, SimplePart DEF HasElems, Letters, hs

LEMMA BytesPart ==
  ASSUME NEW v, Suits("ay", v)
  PROVE  PartRight("ay", v)
<1> DEFINE hs == write_part("ay", v)
<1>1. /\ v \in [ptr : BOOLEAN, num : Words, bytes : Seq(Bytes)]
      /\ IF v.ptr THEN v.num = Len(v.bytes) ELSE v.bytes = <<>>
  BY DEF Suits
<1>8. v = [ptr |-> v.ptr, num |-> v.num, bytes |-> v.bytes] /\ v.ptr \in BOOLEAN
  BY <1>1
<1>9. hs = write_byte_array(v)
  BY DEF write_part
<1>2. CASE v.ptr
  <2> DEFINE x == ByteItem(1)
             y == ArrayItem(TRUE, v.bytes)
  <2>2. x \in Fitting /\ x.val = 1 /\ y \in Fitting /\ y.val = [ptr |-> TRUE, bytes |-> v.bytes]
    BY <1>1, ItemsFit, Small DEF ArrayItem, ByteItem
  <2>3. hs = <<x>> \o <<y>>
    BY <1>2, <1>9 DEF write_byte_array, Array, ArrayItem, Byte, ByteItem
  <2> HIDE DEF hs, x, y
  <2>5. hs \in Seq(Fitting) /\ hs # <<>> /\ Vals(hs) = <<x.val, y.val>>
    BY <2>2, <2>3, Pairs
  <2>8. Vals(hs)[1] = 1 /\ Vals(hs)[2].ptr = TRUE /\ Vals(hs)[2].bytes = v.bytes
    BY <2>2, <2>5
  <2>6. PartValue("ay", Vals(hs), <<>>)
          = [ptr |-> Vals(hs)[2].ptr, num |-> Len(Vals(hs)[2].bytes), bytes |-> Vals(hs)[2].bytes]
    BY <2>8 DEF PartValue
  <2>9. v.ptr = TRUE /\ v.num = Len(v.bytes)
    BY <1>1, <1>2
  <2>7. PartValue("ay", Vals(hs), <<>>) = v
    BY <1>8, <2>6, <2>8, <2>9, Zenon
  <2> QED
    BY <2>5, <2>7, SimplePart DEF HasElems, Letters, hs
<1>3. CASE ~v.ptr
  <2> DEFINE x == ByteItem(0)
             y == WordItem(v.num)
  <2>2. x \in Fitting /\ x.val = 0 /\ y \in Fitting /\ y.val = v.num
    BY <1>1, ItemsFit, Small DEF WordItem, ByteItem
  <2>3. hs = <<x>> \o <<y>>
    BY <1>3, <1>9 DEF write_byte_array, Word, WordItem, Byte, ByteItem
  <2> HIDE DEF hs, x, y
  <2>5. hs \in Seq(Fitting) /\ hs # <<>> /\ Vals(hs) = <<x.val, y.val>>
    BY <2>2, <2>3, Pairs
  <2>6. PartValue("ay", Vals(hs), <<>>) = [ptr |-> FALSE, num |-> v.num, bytes |-> <<>>]
    BY <2>2, <2>5 DEF PartValue
  <2>7. PartValue("ay", Vals(hs), <<>>) = v
    BY <1>1, <1>3, <1>8, <2>6
  <2> QED
    BY <2>5, <2>7, SimplePart DEF HasElems, Letters, hs
<1> QED
  BY <1>2, <1>3

LEMMA BufferPart ==
  ASSUME NEW v, Suits("fy", v), write_part("fy", v) \in Seq(Additions)
  PROVE  PartRight("fy", v)
<1> DEFINE hs == write_part("fy", v)
           b == (IF v.data THEN 0 ELSE 1) + (IF v.count THEN 0 ELSE 2)
           n == IF v.count THEN v.num ELSE 0
           x == ByteItem(b)
           y == WordItem(n)
<1>1. v \in [data : BOOLEAN, count : BOOLEAN, num : Words] /\ (~v.count => v.num = 0)
  BY DEF Suits
<1>8. v = [data |-> v.data, count |-> v.count, num |-> v.num] /\ v.data \in BOOLEAN /\ v.count \in BOOLEAN
  BY <1>1
<1>9. b \in Nat /\ (b % 2 = 0) = v.data /\ ((b \div 2) % 2 = 0) = v.count /\ n = v.num
  <2>0. /\ 0 % 2 = 0 /\ 1 % 2 = 1 /\ 2 % 2 = 0 /\ 3 % 2 = 1
        /\ 0 \div 2 = 0 /\ 1 \div 2 = 0 /\ 2 \div 2 = 1 /\ 3 \div 2 = 1
    OBVIOUS
  <2>1. CASE v.data = TRUE /\ v.count = TRUE
    <3>1. b = 0 /\ n = v.num
      BY <2>1
    <3> HIDE DEF b, n
    <3> QED
      BY <2>0, <2>1, <3>1
  <2>2. CASE v.data = TRUE /\ v.count = FALSE
    <3>1. b = 2
      BY <2>2
    <3> QED
      BY <1>1, <2>0, <2>2, <3>1
  <2>3. CASE v.data = FALSE /\ v.count = TRUE
    <3>1. b = 1 /\ n = v.num
      BY <2>3
    <3> HIDE DEF b, n
    <3>2. b \in Nat /\ b % 2 # 0 /\ (b \div 2) % 2 = 0
      BY <2>0, <3>1
    <3> QED
      BY <2>3, <3>1, <3>2
  <2>4. CASE v.data = FALSE /\ v.count = FALSE
    <3>1. b = 3
      BY <2>4
    <3> QED
      BY <1>1, <2>0, <2>4, <3>1
  <2> QED
    BY <1>8, <2>1, <2>2, <2>3, <2>4
<1>3. hs = <<x>> \o <<y>> /\ x.val = b /\ y.val = n /\ x.op = "byte"
  BY DEF write_part, Word, WordItem, Byte, ByteItem
<1> HIDE DEF n, b
<1>2. x \in Additions
  <2>1. <<x>> \o <<y>> = <<x, y>>
    <3>1. x \in {x, y} /\ y \in {x, y}
      OBVIOUS
    <3> QED
      BY ONLY <3>1, Joined2
  <2>2. <<x, y>> \in Seq(Additions)
    BY <1>3, <2>1
  <2> HIDE DEF x, y
  <2>3. Len(<<x, y>>) = 2 /\ <<x, y>>[1] = x
    OBVIOUS
  <2> QED
    BY <2>2, <2>3
<1>4. b \in Bytes
  BY <1>2, <1>3 DEF Additions
<1>10. x \in Fitting /\ y \in Fitting
  BY <1>1, <1>4, <1>9, ItemsFit
<1> HIDE DEF hs, x, y
<1>5. hs \in Seq(Fitting) /\ hs # <<>> /\ Vals(hs) = <<x.val, y.val>>
  BY <1>3, <1>10, Pairs
<1>6. PartValue("fy", Vals(hs), <<>>) = [data |-> b % 2 = 0, count |-> (b \div 2) % 2 = 0, num |-> n]
  BY <1>3, <1>5 DEF PartValue
<1>7. PartValue("fy", Vals(hs), <<>>) = v
  BY <1>6, <1>8, <1>9
<1> QED
  BY <1>5, <1>7, SimplePart DEF HasElems, Letters, hs

LEMMA UlongsPart ==
  ASSUME NEW v, Suits("au", v)
  PROVE  PartRight("au", v)
<1> DEFINE hs == HeadItems("au", v)
           es == ElemItems("au", v)
           x == ByteItem(IF v.ptr THEN 1 ELSE 0)
           y == WordItem(v.num)
           vs == [i \in 1 .. Len(es) |-> Vals(es[i])]
<1>1. /\ v \in [ptr : BOOLEAN, num : Words, longs : Seq(CK_ULONG)]
      /\ IF v.ptr THEN v.num = Len(v.longs) ELSE v.longs = <<>>
  BY DEF Suits
<1>2. v = [ptr |-> v.ptr, num |-> v.num, longs |-> v.longs] /\ v.ptr \in BOOLEAN /\ v.num \in Words
      /\ v.longs \in Seq(CK_ULONG)
  BY <1>1
<1>3. x \in Fitting /\ x.val = (IF v.ptr THEN 1 ELSE 0) /\ y \in Fitting /\ y.val = v.num
  BY <1>2, ItemsFit, Small DEF WordItem, ByteItem
<1>4. hs = <<x>> \o <<y>>
  BY DEF HeadItems, Word, WordItem, Byte, ByteItem
<1>5. /\ es = [i \in 1 .. Len(v.longs) |-> <<LongItem(v.longs[i])>>]
      /\ DOMAIN v.longs = 1 .. Len(v.longs) /\ Len(v.longs) \in Nat
  BY <1>2 DEF ElemItems, Long, LongItem
<1>6. write_part("au", v) = (<<x>> \o <<y>>) \o FlattenSeq(es)
  BY DEF write_part, Each, ElemItems, Word, WordItem, Byte, ByteItem
<1> HIDE DEF hs, x, y
<1>7. hs \in Seq(Fitting) /\ hs # <<>> /\ Vals(hs) = <<x.val, y.val>>
  BY <1>3, <1>4, Pairs
<1> HIDE DEF es
<1>8. ASSUME NEW i \in 1 .. Len(v.longs)
      PROVE  /\ es[i] = <<LongItem(v.longs[i])>> /\ es[i] \in Seq(Fitting) /\ Vals(es[i]) = <<v.longs[i]>>
             /\ AsUlong(v.longs[i]) = v.longs[i]
  <2>1. v.longs[i] \in CK_ULONG
    BY <1>2
  <2>2. LongItem(v.longs[i]) \in Fitting /\ LongItem(v.longs[i]).val = v.longs[i] /\ AsUlong(v.longs[i]) = v.longs[i]
    BY <2>1, Ulongs, ItemsFit DEF LongItem
  <2> QED
    BY <1>5, <2>2, Single
<1>9. es \in Seq(Seq(Fitting)) /\ Len(es) = Len(v.longs)
  <2>1. \A i \in 1 .. Len(v.longs) : es[i] \in Seq(Fitting)
    BY <1>8
  <2>2. DOMAIN es = 1 .. Len(v.longs) /\ es = [i \in 1 .. Len(v.longs) |-> es[i]]
    BY <1>5
  <2>3. Len(v.longs) \in Nat
    BY <1>5
  <2> QED
    BY ONLY <2>1, <2>2, <2>3
<1>10. NumElems("au", Vals(hs)) = Len(es)
  <2>1. Vals(hs)[1] = (IF v.ptr THEN 1 ELSE 0) /\ Vals(hs)[2] = v.num
    BY <1>3, <1>7
  <2>2. NumElems("au", Vals(hs)) = IF Vals(hs)[1] = 0 THEN 0 ELSE Vals(hs)[2]
    BY DEF NumElems
  <2>3. CASE v.ptr
    BY <1>1, <1>9, <2>1, <2>2, <2>3
  <2>4. CASE ~v.ptr
    <3>1. Len(v.longs) = 0
      BY <1>1, <2>4
    <3> QED
      BY <1>9, <2>1, <2>2, <2>4, <3>1
  <2> QED
    BY <1>2, <2>3, <2>4
<1>11. vs = [i \in 1 .. Len(v.longs) |-> <<v.longs[i]>>] /\ DOMAIN vs = 1 .. Len(v.longs)
  BY <1>8, <1>9
<1> HIDE DEF vs
<1>12. [i \in DOMAIN vs |-> AsUlong(vs[i][1])] = v.longs
  <2>1. \A i \in 1 .. Len(v.longs) : AsUlong(vs[i][1]) = v.longs[i]
    BY <1>8, <1>11
  <2>2. v.longs = [i \in 1 .. Len(v.longs) |-> v.longs[i]]
    BY <1>2
  <2> QED
    BY <1>11, <2>1, <2>2
<1>13. PartValue("au", Vals(hs), vs) = [ptr |-> Vals(hs)[1] # 0, num |-> Vals(hs)[2],
                                        longs |-> [i \in DOMAIN vs |-> AsUlong(vs[i][1])]]
  BY DEF PartValue
<1>14. (Vals(hs)[1] # 0) = v.ptr /\ Vals(hs)[2] = v.num
  BY <1>2, <1>3, <1>7
<1>15. PartValue("au", Vals(hs), vs) = v
  BY <1>2, <1>12, <1>13, <1>14
<1> QED
  BY <1>4, <1>6, <1>7, <1>9, <1>10, <1>15 DEF PartRight, HasElems, hs, es, vs

LEMMA TemplatePart ==
  ASSUME NEW v, Suits("fA", v)
  PROVE  PartRight("fA", v)
<1> DEFINE hs == HeadItems("fA", v)
           es == ElemItems("fA", v)
           x == WordItem(Len(v))
           vs == [i \in 1 .. Len(es) |-> Vals(es[i])]
<1>1. v \in Seq(Requested) /\ Len(v) \in Words
  BY DEF Suits
<1>3. x \in Fitting /\ x.val = Len(v)
  BY <1>1, ItemsFit DEF WordItem
<1>4. hs = <<x>>
  BY DEF HeadItems, Word, WordItem
<1>5. /\ es = [i \in 1 .. Len(v) |-> RoomItems(v[i])]
      /\ DOMAIN v = 1 .. Len(v) /\ Len(v) \in Nat
  BY <1>1 DEF ElemItems
<1>6. write_part("fA", v) = <<x>> \o FlattenSeq(es)
  BY DEF write_part, Each, ElemItems, RoomItems, Word, WordItem
<1> HIDE DEF hs, x
<1>7. hs \in Seq(Fitting) /\ hs # <<>> /\ Vals(hs) = <<x.val>>
  BY <1>3, <1>4, Single
<1> HIDE DEF es
<1>8. ASSUME NEW i \in 1 .. Len(v)
      PROVE  /\ es[i] \in Seq(Fitting)
             /\ [type |-> Vals(es[i])[1], ptr |-> Vals(es[i])[2] # 0, room |-> Vals(es[i])[2]] = v[i]
  <2> DEFINE a == v[i]
             r == IF a.ptr THEN a.room ELSE 0
             p == WordItem(a.type)
             q == WordItem(r)
  <2>1. a \in Requested
    BY <1>1
  <2>2. a.type \in Words /\ a.ptr \in BOOLEAN /\ a.room \in Words /\ (a.ptr <=> a.room # 0)
        /\ a = [type |-> a.type, ptr |-> a.ptr, room |-> a.room]
    BY <2>1 DEF Requested
  <2>3. es[i] = <<p>> \o <<q>>
    BY <1>5 DEF RoomItems, Word, WordItem
  <2> HIDE DEF a
  <2>4. r = a.room /\ (r # 0) = a.ptr
    BY <2>2
  <2> HIDE DEF r
  <2>5. p \in Fitting /\ q \in Fitting /\ p.val = a.type /\ q.val = a.room
    BY <2>2, <2>4, ItemsFit DEF WordItem
  <2> HIDE DEF p, q
  <2>6. es[i] \in Seq(Fitting) /\ Vals(es[i]) = <<p.val, q.val>>
    <3>1. <<p>> \o <<q>> = <<p, q>> /\ <<p, q>> \in Seq(Fitting) /\ Vals(<<p, q>>) = <<p.val, q.val>>
      BY ONLY <2>5, Pairs
    <3> QED
      BY ONLY <2>3, <3>1
  <2>7. Vals(es[i])[1] = a.type /\ Vals(es[i])[2] = a.room
    BY <2>5, <2>6
  <2> QED
    BY <2>2, <2>4, <2>6, <2>7 DEF a
<1>9. es \in Seq(Seq(Fitting)) /\ Len(es) = Len(v)
  BY <1>5, <1>8
<1>10. NumElems("fA", Vals(hs)) = Len(es)
  BY <1>3, <1>7, <1>9 DEF NumElems
<1>11. DOMAIN vs = 1 .. Len(v) /\ \A i \in 1 .. Len(v) : vs[i] = Vals(es[i])
  BY <1>9
<1> HIDE DEF vs
<1>13. PartValue("fA", Vals(hs), vs)
         = [i \in 1 .. Len(v) |-> [type |-> vs[i][1], ptr |-> vs[i][2] # 0, room |-> vs[i][2]]]
  BY <1>11 DEF PartValue
<1>14. \A i \in 1 .. Len(v) : [type |-> vs[i][1], ptr |-> vs[i][2] # 0, room |-> vs[i][2]] = v[i]
  BY <1>8, <1>11
<1>15. PartValue("fA", Vals(hs), vs) = v
  <2>1. v = [i \in 1 .. Len(v) |-> v[i]]
    BY <1>1
  <2> QED
    BY <1>13, <1>14, <2>1
<1> QED
  BY <1>4, <1>6, <1>7, <1>9, <1>10, <1>15 DEF PartRight, HasElems, hs, es, vs

\* The items of an attribute, and what is made of them.
AttrItems(a) ==
  IF a.len = Unavailable THEN <<WordItem(a.type), ByteItem(0)>>
  ELSE <<WordItem(a.type), ByteItem(1), WordItem(a.len), ArrayItem(a.ptr, a.bytes)>>
AttrVals(a) ==
  IF a.len = Unavailable THEN <<a.type, 0>>
  ELSE <<a.type, 1, a.len, [ptr |-> a.ptr, bytes |-> a.bytes]>>

LEMMA AttrFields ==
  ASSUME NEW a \in Attributes
  PROVE  /\ a.type \in Words /\ a.len \in Words \cup {Unavailable} /\ a.ptr \in BOOLEAN /\ a.bytes \in Seq(Bytes)
         /\ a = [type |-> a.type, len |-> a.len, ptr |-> a.ptr, bytes |-> a.bytes]
         /\ (a.ptr => Len(a.bytes) = a.len) /\ (~a.ptr => a.bytes = <<>>) /\ Unavailable \notin Words
         /\ (a.ptr => a.len \in Words)
<1>1. /\ a.type \in Words /\ a.len \in Words \cup {Unavailable} /\ a.ptr \in BOOLEAN /\ a.bytes \in Seq(Bytes)
      /\ a = [type |-> a.type, len |-> a.len, ptr |-> a.ptr, bytes |-> a.bytes]
      /\ (a.ptr => Len(a.bytes) = a.len) /\ (~a.ptr => a.bytes = <<>>)
  BY DEF Attributes
<1>2. Unavailable \notin Words
  BY DEF Unavailable, Words
<1>3. Len(a.bytes) # Unavailable
  BY <1>1 DEF Unavailable
<1> QED
  BY <1>1, <1>2, <1>3

\* An attribute is written as its fields and read back as it was.
LEMMA AttrWritten ==
  ASSUME NEW a \in Attributes
  PROVE  /\ write_attribute(a) = AttrItems(a) /\ AttrItems(a) \in Seq(Fitting)
         /\ Vals(AttrItems(a)) = AttrVals(a) /\ ReadAttr(AttrVals(a)) = a
<1>1. /\ a.type \in Words /\ a.len \in Words \cup {Unavailable} /\ a.ptr \in BOOLEAN /\ a.bytes \in Seq(Bytes)
      /\ a = [type |-> a.type, len |-> a.len, ptr |-> a.ptr, bytes |-> a.bytes]
      /\ (a.ptr => Len(a.bytes) = a.len) /\ (~a.ptr => a.bytes = <<>>) /\ Unavailable \notin Words
      /\ (a.ptr => a.len \in Words)
  BY AttrFields
<1>2. gck_rpc_has_ulong_parameter(a.type) /\ a.len = LongLen
        => Widths["writer"] = LongLen /\ Widths["reader"] = LongLen
  BY DEF Attributes
<1> DEFINE t == WordItem(a.type)
           z == ByteItem(0)
           o == ByteItem(1)
           l == WordItem(a.len)
           y == ArrayItem(a.ptr, a.bytes)
<1>3. /\ t \in Fitting /\ z \in Fitting /\ o \in Fitting /\ y \in Fitting /\ (a.len \in Words => l \in Fitting)
      /\ t.val = a.type /\ z.val = 0 /\ o.val = 1 /\ l.val = a.len /\ y.val = [ptr |-> a.ptr, bytes |-> a.bytes]
  BY <1>1, ItemsFit, Small DEF WordItem, ByteItem, ArrayItem
<1>4. CASE a.len = Unavailable
  <2>1. write_attribute(a) = <<t>> \o <<z>>
    BY <1>4 DEF write_attribute, Word, WordItem, Byte, ByteItem
  <2>2. AttrItems(a) = <<t, z>> /\ AttrVals(a) = <<a.type, 0>>
    BY <1>4 DEF AttrItems, AttrVals
  <2> HIDE DEF t, z
  <2>3. ~a.ptr /\ a.bytes = <<>>
    BY <1>1, <1>4
  <2>4. ReadAttr(<<a.type, 0>>) = [type |-> a.type, len |-> Unavailable, ptr |-> FALSE, bytes |-> <<>>]
    BY DEF ReadAttr
  <2>5. ReadAttr(<<a.type, 0>>) = a
    BY <1>1, <1>4, <2>3, <2>4
  <2>6. <<t>> \o <<z>> = <<t, z>> /\ <<t, z>> \in Seq(Fitting) /\ Vals(<<t, z>>) = <<t.val, z.val>>
    BY <1>3, Pairs
  <2> QED
    BY <1>3, <2>1, <2>2, <2>5, <2>6
<1>5. CASE a.len # Unavailable
  <2>0. a.len \in Words
    BY <1>1, <1>5
  <2>7. ~gck_rpc_has_bad_sized_ulong_parameter(a)
    BY <1>2 DEF gck_rpc_has_bad_sized_ulong_parameter
  <2>1. write_attribute(a) = <<t>> \o (<<o>> \o <<l>> \o <<y>>)
    BY <1>5, <2>7 DEF write_attribute, Word, WordItem, Byte, ByteItem, Array, ArrayItem
  <2> DEFINE w == [ptr |-> a.ptr, bytes |-> a.bytes]
             g == <<a.type, 1, a.len, w>>
  <2>2. AttrItems(a) = <<t, o, l, y>> /\ AttrVals(a) = g
    BY <1>5 DEF AttrItems, AttrVals
  <2>3. w.ptr = a.ptr /\ w.bytes = a.bytes /\ y.val = w
    BY <1>3
  <2> HIDE DEF t, o, l, y, w
  <2>4. <<t>> \o (<<o>> \o <<l>> \o <<y>>) = <<t, o, l, y>>
    BY <1>3, <2>0, Joined4
  <2>5. <<t, o, l, y>> \in Seq(Fitting)
    BY <1>3, <2>0
  <2>6. Vals(<<t, o, l, y>>) = g
    BY <1>3, <2>3, Vals4
  <2>8. Len(g) = 4 /\ g[1] = a.type /\ g[3] = a.len /\ g[4] = w
    OBVIOUS
  <2> HIDE DEF g
  <2>9. Narrowed(g[1], g[3], g[4].bytes) = a.bytes
    BY <1>2, <2>3, <2>8 DEF Narrowed
  <2>10. (IF g[4].ptr THEN Narrowed(g[1], g[3], g[4].bytes) ELSE <<>>) = a.bytes
    BY <1>1, <2>3, <2>8, <2>9
  <2>11. ReadAttr(g) = [type |-> g[1], ptr |-> g[4].ptr, bytes |-> a.bytes,
                        len |-> IF a.bytes = g[4].bytes THEN g[3] ELSE Len(a.bytes)]
    BY <2>8, <2>10 DEF ReadAttr
  <2>12. ReadAttr(g) = [type |-> a.type, ptr |-> a.ptr, bytes |-> a.bytes, len |-> a.len]
    BY <2>3, <2>8, <2>11
  <2>13. ReadAttr(g) = a
    BY <1>1, <2>12
  <2> QED
    BY <2>1, <2>2, <2>4, <2>5, <2>6, <2>13
<1> QED
  BY <1>4, <1>5

LEMMA AttributesPart ==
  ASSUME NEW v, Suits("aA", v)
  PROVE  PartRight("aA", v)
<1> DEFINE hs == HeadItems("aA", v)
           es == ElemItems("aA", v)
           x == WordItem(Len(v))
           vs == [i \in 1 .. Len(es) |-> Vals(es[i])]
<1>1. v \in Seq(Attributes) /\ Len(v) \in Words
  BY DEF Suits
<1>3. x \in Fitting /\ x.val = Len(v)
  BY <1>1, ItemsFit DEF WordItem
<1>4. hs = <<x>>
  BY DEF HeadItems, Word, WordItem
<1>5. /\ es = [i \in 1 .. Len(v) |-> write_attribute(v[i])]
      /\ DOMAIN v = 1 .. Len(v) /\ Len(v) \in Nat
  BY <1>1 DEF ElemItems
<1>6. write_part("aA", v) = <<x>> \o FlattenSeq(es)
  BY DEF write_part, Each, ElemItems, Word, WordItem
<1> HIDE DEF hs, x
<1>7. hs \in Seq(Fitting) /\ hs # <<>> /\ Vals(hs) = <<x.val>>
  BY <1>3, <1>4, Single
<1> HIDE DEF es
<1>8. ASSUME NEW i \in 1 .. Len(v)
      PROVE  es[i] \in Seq(Fitting) /\ ReadAttr(Vals(es[i])) = v[i]
  <2>1. v[i] \in Attributes /\ es[i] = write_attribute(v[i])
    BY <1>1, <1>5
  <2> QED
    BY <2>1, AttrWritten
<1>9. es \in Seq(Seq(Fitting)) /\ Len(es) = Len(v)
  <2>1. \A i \in 1 .. Len(v) : es[i] \in Seq(Fitting)
    BY <1>8
  <2>2. DOMAIN es = 1 .. Len(v) /\ es = [i \in 1 .. Len(v) |-> es[i]]
    BY <1>5
  <2> QED
    BY <1>5, <2>1, <2>2
<1>10. NumElems("aA", Vals(hs)) = Len(es)
  BY <1>3, <1>7, <1>9 DEF NumElems
<1>11. DOMAIN vs = 1 .. Len(v) /\ \A i \in 1 .. Len(v) : vs[i] = Vals(es[i])
  BY <1>9
<1> HIDE DEF vs
<1>13. PartValue("aA", Vals(hs), vs) = [i \in 1 .. Len(v) |-> ReadAttr(vs[i])]
  BY <1>11 DEF PartValue
<1>14. \A i \in 1 .. Len(v) : ReadAttr(vs[i]) = v[i]
  BY <1>8, <1>11
<1>15. PartValue("aA", Vals(hs), vs) = v
  <2>1. v = [i \in 1 .. Len(v) |-> v[i]]
    BY <1>1
  <2> QED
    BY <1>13, <1>14, <2>1
<1> QED
  BY <1>4, <1>6, <1>7, <1>9, <1>10, <1>15 DEF PartRight, HasElems, hs, es, vs

\* All kinds of parts together.
LEMMA PartsRight ==
  ASSUME NEW part \in DOMAIN Letters, NEW v, Suits(part, v),
         write_part(part, v) \in Seq(Additions)
  PROVE  PartRight(part, v)
<1>1. part \in {"y", "u", "v", "s", "M", "ay", "au", "aA", "fy", "fu", "fA"}
  BY DEF Letters
<1> QED
  BY <1>1, NumberParts, VersionPart, StringPart, MechanismPart, BytesPart, BufferPart,
     UlongsPart,
     TemplatePart, AttributesPart

-----------------------------------------------------------------------------
(* The order in which a part is read is the order it was written in.       *)

\* g is what was read of the items s so far; ops is the order to read them in.
Begun(s, g) == Len(g) <= Len(s) /\ \A i \in 1 .. Len(g) : g[i] = s[i].val
Asks(s, g, ops) ==
  /\ Len(g) = Len(s) => Len(ops) = Len(s)
  /\ Len(g) < Len(s) => Len(g) < Len(ops) /\ ops[Len(g) + 1] = s[Len(g) + 1].op

\* A head has at most two items, an element at most four.
LEMMA UpToFour ==
  \A n \in Nat : /\ n <= 2 => n = 0 \/ n = 1 \/ n = 2
                 /\ n <= 4 => n = 0 \/ n = 1 \/ n = 2 \/ n = 3 \/ n = 4
  OBVIOUS

LEMMA Asks1 ==
  ASSUME NEW a, NEW g \in Seq(Values), Begun(<<a>>, g)
  PROVE  Asks(<<a>>, g, <<a.op>>)
<1>1. Len(g) \in {0, 1}
  BY DEF Begun
<1> QED
  BY <1>1 DEF Asks

LEMMA Asks2 ==
  ASSUME NEW a, NEW b, NEW g \in Seq(Values), Begun(<<a, b>>, g)
  PROVE  Asks(<<a, b>>, g, <<a.op, b.op>>)
<1> DEFINE s == <<a, b>>
           t == <<a.op, b.op>>
<1>1. Len(s) = 2 /\ s[1] = a /\ s[2] = b /\ Len(t) = 2 /\ t[1] = a.op /\ t[2] = b.op
  OBVIOUS
<1> HIDE DEF s, t
<1>2. Len(g) \in Nat /\ Len(g) <= 2
  BY <1>1 DEF Begun, s
<1>3. Len(g) = 0 \/ Len(g) = 1 \/ Len(g) = 2
  BY <1>2, UpToFour, Zenon
<1>4. Asks(s, g, t)
  BY <1>1, <1>3 DEF Asks
<1> QED
  BY <1>4 DEF s, t

\* What the reader asks for next in a head is what the writer put there next.
LEMMA HeadAsks ==
  ASSUME NEW part \in DOMAIN Letters, NEW v, NEW g \in Seq(Values),
         Begun(HeadItems(part, v), g)
  PROVE  Asks(HeadItems(part, v), g, HeadGets(part, g))
<1> DEFINE hs == HeadItems(part, v)
           ops == HeadGets(part, g)
<1>0. part \in {"y", "u", "v", "s", "M", "ay", "au", "aA", "fy", "fu", "fA"}
  BY DEF Letters
<1>1. ASSUME NEW a, hs = <<a>>, ops = <<a.op>>
      PROVE  Asks(hs, g, ops)
  BY <1>1, Asks1
<1>2. ASSUME NEW a, NEW b, hs = <<a>> \o <<b>>, ops = <<a.op, b.op>>
      PROVE  Asks(hs, g, ops)
  <2>1. <<a>> \o <<b>> = <<a, b>>
    BY Joined2, a \in {a, b}, b \in {a, b}
  <2>2. Begun(<<a, b>>, g)
    BY <1>2, <2>1
  <2> QED
    BY <1>2, <2>1, <2>2, Asks2
<1>3. /\ \A x : ByteItem(x).op = "byte" /\ WordItem(x).op = "word" /\ LongItem(x).op = "long"
      /\ \A p, x : ArrayItem(p, x).op = "array"
  BY DEF ByteItem, WordItem, LongItem, ArrayItem
<1>4. CASE part = "y"
  <2>1. hs = <<ByteItem(v)>> /\ ops = <<"byte">>
    BY <1>4 DEF HeadItems, write_part, Byte, ByteItem, HeadGets
  <2> QED
    BY <1>1, <1>3, <2>1
<1>5. CASE part = "u"
  <2>1. hs = <<LongItem(v)>> /\ ops = <<"long">>
    BY <1>5 DEF HeadItems, write_part, Long, LongItem, HeadGets
  <2> QED
    BY <1>1, <1>3, <2>1
<1>6. CASE part = "v"
  <2>1. hs = <<ByteItem(v[1])>> \o <<ByteItem(v[2])>> /\ ops = <<"byte", "byte">>
    BY <1>6 DEF HeadItems, write_part, Byte, ByteItem, HeadGets
  <2> QED
    BY <1>2, <1>3, <2>1
<1>7. CASE part = "s"
  <2>1. hs = <<ArrayItem(TRUE, v)>> /\ ops = <<"array">>
    BY <1>7 DEF HeadItems, write_part, Array, ArrayItem, HeadGets
  <2> QED
    BY <1>1, <1>3, <2>1
<1>8. CASE part = "M"
  <2>1. hs = <<WordItem(v.type)>> \o <<ArrayItem(v.ptr, v.bytes)>> /\ ops = <<"word", "array">>
    BY <1>8 DEF HeadItems, write_part, Array, ArrayItem, Word, WordItem, HeadGets
  <2> QED
    BY <1>2, <1>3, <2>1
<1>9. CASE part = "ay"
  <2> DEFINE x == IF v.ptr THEN ByteItem(1) ELSE ByteItem(0)
             y == IF v.ptr THEN ArrayItem(TRUE, v.bytes) ELSE WordItem(v.num)
  <2>1. hs = <<x>> \o <<y>>
    BY <1>9 DEF HeadItems, write_part, write_byte_array, Array, ArrayItem, Byte, ByteItem,
       Word, WordItem
  <2>2. <<x>> \o <<y>> = <<x, y>>
    BY Joined2, x \in {x, y}, y \in {x, y}
  <2>3. x.val = (IF v.ptr THEN 1 ELSE 0) /\ x.op = "byte" /\ y.op = (IF v.ptr THEN "array" ELSE "word")
    BY DEF ByteItem, ArrayItem, WordItem
  <2>4. ops = IF g # <<>> /\ g[1] = 0 THEN <<"byte", "word">> ELSE <<"byte", "array">>
    BY <1>9 DEF HeadGets
  <2> HIDE DEF hs, ops, x, y
  <2>5. Begun(<<x, y>>, g)
    BY <2>1, <2>2 DEF hs
  <2>6. CASE g = <<>>
    <3>1. Len(g) = 0 /\ Len(<<x, y>>) = 2 /\ <<x, y>>[1] = x /\ Len(ops) = 2 /\ ops[1] = "byte"
      BY <2>4, <2>6
    <3> QED
      BY <2>1, <2>2, <2>3, <3>1 DEF Asks, hs, ops
  <2>7. CASE g # <<>>
    <3>1. Len(g) >= 1 /\ <<x, y>>[1] = x /\ 1 \in 1 .. Len(g)
      BY <2>7
    <3>2. g[1] = x.val
      BY <2>5, <3>1 DEF Begun
    <3>3. ops = <<x.op, y.op>>
      BY <2>3, <2>4, <2>7, <3>2
    <3>4. Asks(<<x, y>>, g, <<x.op, y.op>>)
      BY <2>5, Asks2
    <3> QED
      BY <2>1, <2>2, <3>3, <3>4 DEF hs, ops
  <2> QED
    BY <2>6, <2>7
<1>10. CASE part = "au"
  <2>1. hs = <<ByteItem(IF v.ptr THEN 1 ELSE 0)>> \o <<WordItem(v.num)>> /\ ops = <<"byte", "word">>
    BY <1>10 DEF HeadItems, Byte, ByteItem, Word, WordItem, HeadGets
  <2> QED
    BY <1>2, <1>3, <2>1
<1>11. CASE part = "fy"
  <2> DEFINE b == (IF v.data THEN 0 ELSE 1) + (IF v.count THEN 0 ELSE 2)
             n == IF v.count THEN v.num ELSE 0
  <2>1. hs = <<ByteItem(b)>> \o <<WordItem(n)>> /\ ops = <<"byte", "word">>
    BY <1>11 DEF HeadItems, write_part, Byte, ByteItem, Word, WordItem, HeadGets
  <2> HIDE DEF b, n
  <2> QED
    BY <1>2, <1>3, <2>1
<1>12. CASE part = "fu"
  <2>1. hs = <<WordItem(v)>> /\ ops = <<"word">>
    BY <1>12 DEF HeadItems, write_part, Word, WordItem, HeadGets
  <2> QED
    BY <1>1, <1>3, <2>1
<1>13. CASE part \in {"aA", "fA"}
  <2>1. hs = <<WordItem(Len(v))>> /\ ops = <<"word">>
    BY <1>13 DEF HeadItems, Word, WordItem, HeadGets
  <2> QED
    BY <1>1, <1>3, <2>1
<1> QED
  BY <1>0, <1>4, <1>5, <1>6, <1>7, <1>8, <1>9, <1>10, <1>11, <1>12, <1>13

\* The same in an attribute, whose later fields depend on earlier ones.
LEMMA AttrAsks ==
  ASSUME NEW a \in Attributes, NEW g \in Seq(Values), Begun(AttrItems(a), g)
  PROVE  Asks(AttrItems(a), g, ElemGets("aA", g))
<1> DEFINE s == AttrItems(a)
           ops == ElemGets("aA", g)
<1>1. ops = IF Len(g) >= 2 /\ g[2] = 0 THEN <<"word", "byte">> ELSE <<"word", "byte", "word", "array">>
  BY DEF ElemGets
<1>2. CASE a.len = Unavailable
  <2>1. Len(s) = 2 /\ s[1].op = "word" /\ s[2].op = "byte" /\ s[2].val = 0
    BY <1>2 DEF AttrItems, WordItem, ByteItem
  <2> HIDE DEF s, ops
  <2>2. Len(g) \in Nat /\ Len(g) <= 2 /\ (Len(g) >= 2 => g[2] = 0)
    <3>1. Len(g) \in Nat
      OBVIOUS
    <3> QED
      BY <2>1, <3>1 DEF Begun, s
  <2>3. Len(g) = 0 \/ Len(g) = 1 \/ Len(g) = 2
    BY <2>2, UpToFour, Zenon
  <2>4. Len(g) < 2 => Len(ops) = 4 /\ ops[1] = "word" /\ ops[2] = "byte"
    BY <1>1, <2>2
  <2>5. Len(g) = 2 => Len(ops) = 2
    BY <1>1, <2>2
  <2>6. Asks(s, g, ops)
    BY <2>1, <2>3, <2>4, <2>5 DEF Asks
  <2> QED
    BY <2>6 DEF s, ops
<1>3. CASE a.len # Unavailable
  <2>1. /\ Len(s) = 4 /\ s[1].op = "word" /\ s[2].op = "byte" /\ s[2].val = 1
        /\ s[3].op = "word" /\ s[4].op = "array"
    BY <1>3 DEF AttrItems, WordItem, ByteItem, ArrayItem
  <2> HIDE DEF s, ops
  <2>2. Len(g) \in Nat /\ Len(g) <= 4 /\ (Len(g) >= 2 => g[2] = 1)
    <3>1. Len(g) \in Nat
      OBVIOUS
    <3> QED
      BY <2>1, <3>1 DEF Begun, s
  <2>3. Len(g) = 0 \/ Len(g) = 1 \/ Len(g) = 2 \/ Len(g) = 3 \/ Len(g) = 4
    BY <2>2, UpToFour, Zenon
  <2>4. ops = <<"word", "byte", "word", "array">>
    BY <1>1, <2>2
  <2>5. Len(ops) = 4 /\ ops[1] = "word" /\ ops[2] = "byte" /\ ops[3] = "word" /\ ops[4] = "array"
    BY <2>4
  <2>6. Asks(s, g, ops)
    BY <2>1, <2>3, <2>5 DEF Asks
  <2> QED
    BY <2>6 DEF s, ops
<1> QED
  BY <1>2, <1>3

LEMMA ElemAsks ==
  ASSUME NEW part, HasElems(part), NEW v, Suits(part, v),
         NEW i \in 1 .. Len(ElemItems(part, v)),
         NEW g \in Seq(Values), Begun(ElemItems(part, v)[i], g)
  PROVE  Asks(ElemItems(part, v)[i], g, ElemGets(part, g))
<1>0. /\ \A x : ByteItem(x).op = "byte" /\ WordItem(x).op = "word" /\ LongItem(x).op = "long"
  BY DEF ByteItem, WordItem, LongItem, ArrayItem
<1>1. CASE part = "au"
  <2>1. v.longs \in Seq(CK_ULONG)
    BY <1>1 DEF Suits
  <2>2. ElemItems(part, v) = [j \in 1 .. Len(v.longs) |-> <<LongItem(v.longs[j])>>] /\ Len(v.longs) \in Nat
    BY <1>1, <2>1 DEF ElemItems, Long, LongItem
  <2>3. ElemItems(part, v)[i] = <<LongItem(v.longs[i])>> /\ ElemGets(part, g) = <<"long">>
    BY <1>1, <2>2 DEF ElemGets
  <2> QED
    BY <1>0, <2>3, Asks1
<1>2. CASE part = "fA"
  <2>1. v \in Seq(Requested)
    BY <1>2 DEF Suits
  <2>2. ElemItems(part, v) = [j \in 1 .. Len(v) |-> RoomItems(v[j])] /\ Len(v) \in Nat
    BY <1>2, <2>1 DEF ElemItems
  <2> DEFINE x == WordItem(v[i].type)
             y == WordItem(IF v[i].ptr THEN v[i].room ELSE 0)
  <2>3. ElemItems(part, v)[i] = <<x>> \o <<y>> /\ ElemGets(part, g) = <<"word", "word">>
    BY <1>2, <2>2 DEF ElemGets, RoomItems, Word, WordItem
  <2>4. x.op = "word" /\ y.op = "word"
    BY <1>0
  <2> HIDE DEF x, y
  <2>5. <<x>> \o <<y>> = <<x, y>>
    BY Joined2, x \in {x, y}, y \in {x, y}
  <2>6. Begun(<<x, y>>, g)
    BY <2>3, <2>5
  <2> QED
    BY <2>3, <2>4, <2>5, <2>6, Asks2
<1>3. CASE part = "aA"
  <2>1. v \in Seq(Attributes)
    BY <1>3 DEF Suits
  <2>2. ElemItems(part, v) = [j \in 1 .. Len(v) |-> write_attribute(v[j])] /\ Len(v) \in Nat
    BY <1>3, <2>1 DEF ElemItems
  <2>3. v[i] \in Attributes /\ ElemItems(part, v)[i] = write_attribute(v[i])
    BY <2>1, <2>2
  <2>4. ElemItems(part, v)[i] = AttrItems(v[i])
    BY <2>3, AttrWritten
  <2> QED
    BY <1>3, <2>3, <2>4, AttrAsks
<1> QED
  BY <1>1, <1>2, <1>3 DEF HasElems

-----------------------------------------------------------------------------
(* What is left of a message.                                              *)

\* From offset off on, the buffer has the items rest and nothing behind them.
Left(b, off, rest) ==
  /\ rest \in Seq(Readable) /\ off + Len(BytesOf(rest)) = b.len
  /\ At(b, off, BytesOf(rest))

\* One item is read: its value is the one written, and the others are left.
LEMMA LeftNext ==
  ASSUME NEW b, BufOK(b), NEW off \in Nat, NEW x \in Additions, NEW y \in Seq(Additions),
         Left(b, off, <<x>> \o y)
  PROVE  LET next == off + Len(ItemBytes(x))
         IN  next \in Nat /\ Get(b, off, x.op) = Got(b, x.val, next) /\ Left(b, next, y)
<1> DEFINE s == <<x>> \o y
           p == ItemBytes(x)
           q == BytesOf(y)
<1>1. <<x>> \in Seq(Additions) /\ s \in Seq(Additions) /\ s # <<>> /\ Head(s) = x /\ Tail(s) = y
  OBVIOUS
<1>2. BytesOf(s) = p \o q
  BY <1>1, BytesFirst
<1>3. p \in Seq(Bytes) /\ q \in Seq(Bytes)
  BY ItemType, BytesType
<1>4. s \in Seq(Readable) /\ off + Len(BytesOf(s)) = b.len /\ At(b, off, BytesOf(s))
  BY DEF Left
<1>5. x \in Readable /\ y \in Seq(Readable)
  BY <1>1, <1>4
<1> HIDE DEF s, p, q
<1>6. At(b, off, p \o q)
  BY <1>2, <1>4
<1>7. At(b, off, p) /\ At(b, off + Len(p), q) /\ off + Len(p) \in Nat
  BY <1>3, <1>6, AtConcat
<1>8. Len(p \o q) = Len(p) + Len(q) /\ Len(p) \in Nat /\ Len(q) \in Nat
  BY <1>3
<1>9. (off + Len(p)) + Len(q) = b.len
  BY <1>2, <1>4, <1>8
<1>10. Get(b, off, x.op) = Got(b, x.val, off + Len(p))
  BY <1>5, <1>7, GetAt DEF p
<1>11. Left(b, off + Len(p), y)
  BY <1>5, <1>7, <1>9 DEF Left, q
<1> QED
  BY <1>7, <1>10, <1>11 DEF p

\* The bytes of a message are stored at the begin of the buffer, all of them.
LEMMA TakenWhole ==
  ASSUME NEW b, BufOK(b), b.len = 0, b.failures = 0, NEW n \in Nat, NEW s \in Seq(Bytes),
         Len(s) = n, NEW ok \in BOOLEAN, ~egg_buffer_has_error(egg_buffer_reserve(b, n, ok))
  PROVE  LET e == egg_buffer_add_empty(Store(egg_buffer_reserve(b, n, ok), 0, s), n, ok)
         IN  e.len = n /\ e.failures = 0 /\ At(e, 0, s)
<1> DEFINE r == egg_buffer_reserve(b, n, ok)
           c == Store(r, 0, s)
           q == egg_buffer_reserve(c, c.len + n, ok)
           e == [q EXCEPT !.len = @ + n]
<1>1. BufOK(r) /\ r.len = 0 /\ (r.failures = b.failures => n <= Len(r.mem))
      /\ Len(b.mem) <= Len(r.mem)
  BY Reserved
<1>2. r \in Buffer /\ r.failures = 0 /\ r.stray = FALSE
  BY <1>1 DEF BufOK, Buffer, egg_buffer_has_error
<1>3. n <= Len(r.mem)
  BY <1>1, <1>2
<1>16. b \in Buffer /\ Len(b.mem) \in Nat /\ Failed(b).failures = 1
  <2>1. b \in Buffer /\ Len(b.mem) \in Nat
    BY BufFields DEF BufOK
  <2>2. Failed(b).failures = 0 + 1
    BY FailedOK
  <2> QED
    BY <2>1, <2>2
<1>17. ok = TRUE \/ n < Len(r.mem)
  <2>1. CASE n < Len(b.mem)
    BY <1>1, <1>2, <1>16, <2>1 DEF Buffer
  <2>2. CASE ~(n < Len(b.mem)) /\ ok = FALSE
    <3>1. r = Failed(b)
      BY <2>2 DEF egg_buffer_reserve, allocated_len
    <3> QED
      BY <1>2, <1>16, <3>1
  <2> QED
    BY <2>1, <2>2
<1> HIDE DEF r
<1>4. /\ c \in Buffer /\ c.len = r.len /\ c.stray = r.stray /\ Len(c.mem) = Len(r.mem)
      /\ c.failures = r.failures
      /\ \A i \in 1 .. Len(r.mem) :
           c.mem[i] = IF i > 0 /\ i <= 0 + Len(s) THEN s[i - 0] ELSE r.mem[i]
  <2>1. 0 + Len(s) <= Len(r.mem) /\ 0 \in Nat
    BY <1>3
  <2> HIDE DEF c
  <2>2. \A off \in Nat : off + Len(s) <= Len(r.mem) =>
          LET d == Store(r, off, s)
          IN  /\ d \in Buffer /\ d.len = r.len /\ d.failures = r.failures /\ d.stray = r.stray
              /\ Len(d.mem) = Len(r.mem)
              /\ \A i \in 1 .. Len(r.mem) :
                   d.mem[i] = IF i > off /\ i <= off + Len(s) THEN s[i - off] ELSE r.mem[i]
    BY <1>2, Stored
  <2> QED
    BY <2>1, <2>2, Zenon DEF c
<1>5. Len(r.mem) \in Nat
  BY <1>2 DEF Buffer
<1>6. \A i \in 1 .. n : c.mem[i] = s[i] /\ c.mem[i] \in Bytes
  <2> TAKE i \in 1 .. n
  <2>1. i \in 1 .. Len(r.mem) /\ i \in 1 .. Len(s) /\ i - 0 = i
    BY <1>3, <1>5
  <2>2. c.mem[i] = s[i]
    BY <1>4, <2>1
  <2> QED
    BY <2>1, <2>2
<1> HIDE DEF c
<1>7. BufOK(c) /\ c.len = 0 /\ c.len + n = n
  BY <1>1, <1>2, <1>4, <1>5 DEF BufOK
<1>8. /\ BufOK(q) /\ q.len = 0 /\ Len(c.mem) <= Len(q.mem)
      /\ \A i \in 1 .. Len(c.mem) : q.mem[i] = c.mem[i]
  BY <1>7, Reserved
<1>18. q.failures = c.failures
  <2>1. CASE ok = TRUE
    BY <1>7, <2>1, ReservedFails
  <2>2. CASE n < Len(c.mem)
    BY <1>7, <2>2 DEF egg_buffer_reserve, allocated_len
  <2> QED
    BY <1>4, <1>17, <2>1, <2>2
<1>9. egg_buffer_add_empty(c, n, ok) = IF q.failures # c.failures THEN q ELSE e
  BY DEF egg_buffer_add_empty
<1> HIDE DEF q
<1>10. q \in Buffer
  BY <1>8 DEF BufOK
<1>11. e = [q EXCEPT !.len = n]
  BY <1>8
<1> HIDE DEF e
<1>12. e.mem = q.mem /\ e.len = n /\ e.failures = q.failures
  BY <1>10, <1>11 DEF Buffer
<1>13. \A i \in 1 .. n : q.mem[i] = s[i]
  <2> TAKE i \in 1 .. n
  <2>1. i \in 1 .. Len(c.mem)
    BY <1>3, <1>4, <1>5
  <2> QED
    BY <1>6, <1>8, <2>1
<1>14. At(e, 0, s)
  <2>1. \A i \in 1 .. Len(s) : e.mem[0 + i] = s[i]
    BY <1>12, <1>13
  <2> QED
    BY <1>12, <2>1 DEF At
<1>15. egg_buffer_add_empty(c, n, ok) = e /\ e.failures = 0
  BY <1>2, <1>4, <1>9, <1>12, <1>18
<1> QED
  BY <1>12, <1>14, <1>15 DEF c, r

-----------------------------------------------------------------------------
(* Messages of values that suit their parts.                               *)

LEMMA FittingAdditions == Fitting \subseteq Additions /\ Seq(Fitting) \subseteq Seq(Additions)
<1>1. Fitting \subseteq Additions
  BY DEF Fitting
<1> QED
  BY <1>1

LEMMA SuitedParts ==
  ASSUME NEW m, Text(m), Suited(m), NEW n \in 1 .. NumParts(m)
  PROVE  /\ Parts(m.dir, m.id)[n] \in DOMAIN Letters /\ Suits(Parts(m.dir, m.id)[n], m.vals[n])
         /\ PartRight(Parts(m.dir, m.id)[n], m.vals[n])
<1>1. Parts(m.dir, m.id) \in Seq(DOMAIN Letters)
  BY PartsKnown DEF Text
<1>2. n \in DOMAIN Parts(m.dir, m.id)
  BY <1>1 DEF NumParts
<1>3. /\ Parts(m.dir, m.id)[n] \in DOMAIN Letters /\ Suits(Parts(m.dir, m.id)[n], m.vals[n])
      /\ write_part(Parts(m.dir, m.id)[n], m.vals[n]) \in Seq(Additions)
  BY <1>1, <1>2 DEF Suited, Text
<1> QED
  BY <1>3, PartsRight

\* All items of a message can be read back.
LEMMA PartFits ==
  ASSUME NEW m, Text(m), Suited(m), NEW n \in 1 .. NumParts(m)
  PROVE  PartItems(m, n) \in Seq(Fitting)
<1> DEFINE hs == HeadItems(Parts(m.dir, m.id)[n], m.vals[n])
           es == ElemItems(Parts(m.dir, m.id)[n], m.vals[n])
<1>1. /\ hs \in Seq(Fitting) /\ es \in Seq(Seq(Fitting)) /\ PartItems(m, n) = hs \o FlattenSeq(es)
  BY SuitedParts DEF PartRight, PartItems
<1> HIDE DEF hs, es
<1>2. FlattenSeq(es) \in Seq(Fitting)
  BY <1>1, FlattenType
<1>3. \A a, b \in Seq(Fitting) : a \o b \in Seq(Fitting)
  OBVIOUS
<1> QED
  BY <1>1, <1>2, <1>3, Zenon

\* The head of a message: the call id and the signature.
LEMMA HeadItemsFit ==
  ASSUME NEW m, Text(m), Suited(m)
  PROVE  /\ WordItem(m.id) \in Fitting /\ message_head(m.dir, m.id) \in Seq(Fitting)
         /\ m.id = ERROR => message_head(m.dir, m.id) = <<WordItem(m.id)>>
         /\ m.id # ERROR => /\ message_head(m.dir, m.id)
                                 = <<WordItem(m.id)>> \o <<ArrayItem(TRUE, signature(m.dir, m.id))>>
                            /\ ArrayItem(TRUE, signature(m.dir, m.id)) \in Fitting
<1>1. m.id \in Words /\ m.dir \in {"request", "response"} /\ m.id \in DOMAIN Calls \cup {ERROR}
  BY DEF Suited, Text
<1> DEFINE x == WordItem(m.id)
           y == ArrayItem(TRUE, signature(m.dir, m.id))
<1>2. x \in Fitting
  BY <1>1, ItemsFit
<1>3. CASE m.id = ERROR
  <2>1. message_head(m.dir, m.id) = <<x>> \o <<>>
    BY <1>3 DEF message_head, Word, WordItem
  <2> HIDE DEF x
  <2>2. <<x>> \o <<>> = <<x>> /\ <<x>> \in Seq(Fitting)
    BY <1>2
  <2> QED
    BY <1>2, <1>3, <2>1, <2>2 DEF x
<1>4. CASE m.id # ERROR
  <2>1. message_head(m.dir, m.id) = <<x>> \o <<y>>
    BY <1>4 DEF message_head, Word, WordItem, Array, ArrayItem
  <2>2. signature(m.dir, m.id) \in Seq(Bytes)
    BY <1>1, <1>4, MessageTexts
  <2>3. y \in Fitting
    BY <2>2, ItemsFit
  <2> HIDE DEF x, y
  <2>4. <<x>> \o <<y>> \in Seq(Fitting)
    BY <1>2, <2>3, Pairs
  <2> QED
    BY <1>2, <1>4, <2>1, <2>3, <2>4 DEF x, y
<1> QED
  BY <1>3, <1>4

LEMMA AllReadable ==
  ASSUME NEW m, Text(m), Suited(m), AllShort(AllItems(m))
  PROVE  AllItems(m) \in Seq(Readable)
<1> DEFINE f == [i \in 1 .. NumParts(m) |-> PartItems(m, i)]
<1>1. NumParts(m) \in Nat /\ NumParts(m) \in 0 .. NumParts(m)
  BY TextFacts
<1>2. \A i \in 1 .. NumParts(m) : PartItems(m, i) \in Seq(Fitting)
  BY PartFits
<1>3. f \in Seq(Seq(Fitting))
  BY <1>1, <1>2
<1>4. FlattenSeq(f) \in Seq(Fitting)
  BY <1>3, FlattenType
<1>5. AllItems(m) = message_head(m.dir, m.id) \o FlattenSeq(f)
  BY SofarAll, Zenon DEF AllItems, Sofar
<1> HIDE DEF f
<1>6. message_head(m.dir, m.id) \in Seq(Fitting)
  BY HeadItemsFit
<1>7. \A a, b \in Seq(Fitting) : a \o b \in Seq(Fitting)
  OBVIOUS
<1>8. AllItems(m) \in Seq(Fitting)
  BY <1>4, <1>5, <1>6, <1>7, Zenon
<1> DEFINE s == AllItems(m)
<1> HIDE DEF s
<1>9. s \in Seq(Fitting) /\ \A i \in 1 .. Len(s) : Short(s[i])
  BY <1>8 DEF AllShort, s
<1>10. s \in Seq(Readable)
  BY <1>9 DEF Readable
<1> QED
  BY <1>10 DEF s

-----------------------------------------------------------------------------
(* Where the reader is in a message.                                       *)

\* h, e and g are what was read of a part: its head, its elements, and what
\* is read now.  Chunk has the items of the latter, Further those behind it.
Chunk(part, v, h, e) ==
  LET es == ElemItems(part, v)
  IN  IF h = <<>> THEN HeadItems(part, v)
      ELSE IF Len(e) < Len(es) THEN es[Len(e) + 1] ELSE <<>>
Further(part, v, h, e) ==
  LET es == ElemItems(part, v)
  IN  IF h = <<>> THEN FlattenSeq(es)
      ELSE IF Len(e) < Len(es) THEN FlattenSeq(Drop(es, Len(e) + 1)) ELSE <<>>

PartOf(m, n) == Parts(m.dir, m.id)[n]

\* Part n of message m has been read so far, and the rest of the message is
\* in the buffer b from offset off on.
Progress(m, n, h, e, g, b, off) ==
  LET part == PartOf(m, n)
      v    == m.vals[n]
      es   == ElemItems(part, v)
      c    == Chunk(part, v, h, e)
  IN  /\ h = <<>> => e = <<>>
      /\ h # <<>> => h = Vals(HeadItems(part, v))
      /\ Len(e) \in 0 .. Len(es) /\ e = [i \in 1 .. Len(e) |-> Vals(es[i])]
      /\ Begun(c, g)
      /\ Left(b, off, Drop(c, Len(g)) \o (Further(part, v, h, e) \o Behind(m, n)))

\* What is behind a part that was read is its successor and the rest.
LEMMA PartItemsAre ==
  ASSUME NEW m, Text(m), Suited(m), NEW n \in 1 .. NumParts(m)
  PROVE  LET hs == HeadItems(PartOf(m, n), m.vals[n])
             es == ElemItems(PartOf(m, n), m.vals[n])
         IN  /\ hs \in Seq(Additions) /\ hs # <<>> /\ es \in Seq(Seq(Additions))
             /\ FlattenSeq(es) \in Seq(Additions) /\ Behind(m, n) \in Seq(Additions)
             /\ Behind(m, n - 1) = (hs \o FlattenSeq(es)) \o Behind(m, n)
             /\ Len(es) \in Nat
<1> DEFINE hs == HeadItems(PartOf(m, n), m.vals[n])
           es == ElemItems(PartOf(m, n), m.vals[n])
<1>1. hs \in Seq(Fitting) /\ hs # <<>> /\ es \in Seq(Seq(Fitting)) /\ PartItems(m, n) = hs \o FlattenSeq(es)
  BY SuitedParts DEF PartRight, PartItems, PartOf
<1> HIDE DEF hs, es
<1>2. hs \in Seq(Additions) /\ es \in Seq(Seq(Additions)) /\ Len(es) \in Nat
  BY <1>1, FittingAdditions
<1>3. FlattenSeq(es) \in Seq(Additions)
  BY <1>2, FlattenType
<1>4. NumParts(m) \in Nat /\ n \in 0 .. NumParts(m) /\ n - 1 \in Nat /\ n - 1 < NumParts(m) /\ (n - 1) + 1 = n
  BY TextFacts
<1>5. Behind(m, n) \in Seq(Additions)
  BY <1>4, SofarType
<1>6. Behind(m, n - 1) = PartItems(m, n) \o Behind(m, n)
  <2>1. Behind(m, n - 1) = PartItems(m, (n - 1) + 1) \o Behind(m, (n - 1) + 1)
    BY <1>4, BehindNext
  <2> QED
    BY <1>4, <2>1
<1> QED
  BY <1>1, <1>2, <1>3, <1>5, <1>6 DEF hs, es

LEMMA ChunkType ==
  ASSUME NEW m, Text(m), Suited(m), NEW n \in 1 .. NumParts(m), NEW h, NEW e,
         Len(e) \in 0 .. Len(ElemItems(PartOf(m, n), m.vals[n]))
  PROVE  /\ Chunk(PartOf(m, n), m.vals[n], h, e) \in Seq(Additions)
         /\ Further(PartOf(m, n), m.vals[n], h, e) \in Seq(Additions)
<1> DEFINE hs == HeadItems(PartOf(m, n), m.vals[n])
           es == ElemItems(PartOf(m, n), m.vals[n])
<1>1. hs \in Seq(Additions) /\ es \in Seq(Seq(Additions)) /\ FlattenSeq(es) \in Seq(Additions) /\ Len(es) \in Nat
  BY PartItemsAre
<1>2. Chunk(PartOf(m, n), m.vals[n], h, e) =
        IF h = <<>> THEN hs ELSE IF Len(e) < Len(es) THEN es[Len(e) + 1] ELSE <<>>
  BY DEF Chunk
<1>3. Further(PartOf(m, n), m.vals[n], h, e) =
        IF h = <<>> THEN FlattenSeq(es) ELSE IF Len(e) < Len(es) THEN FlattenSeq(Drop(es, Len(e) + 1)) ELSE <<>>
  BY DEF Further
<1>4. Len(e) \in 0 .. Len(es)
  OBVIOUS
<1> HIDE DEF hs, es
<1>5. ASSUME Len(e) < Len(es) PROVE es[Len(e) + 1] \in Seq(Additions) /\ FlattenSeq(Drop(es, Len(e) + 1)) \in Seq(Additions)
  <2>1. Len(e) + 1 \in 1 .. Len(es) /\ Len(e) + 1 \in 0 .. Len(es)
    BY <1>1, <1>4, <1>5
  <2>2. Drop(es, Len(e) + 1) \in Seq(Seq(Additions))
    BY <1>1, <2>1, DropType
  <2> QED
    BY <1>1, <2>1, <2>2, FlattenType
<1>6. <<>> \in Seq(Additions)
  OBVIOUS
<1> QED
  BY <1>1, <1>2, <1>3, <1>5, <1>6

\* Progress is kept: at the start of a part, with each item, behind the head,
\* behind each element; and at the end of the part its value is right.
LEMMA ProgressStart ==
  ASSUME NEW m, Text(m), Suited(m), NEW n \in 1 .. NumParts(m), NEW b, NEW off,
         Left(b, off, Behind(m, n - 1))
  PROVE  Progress(m, n, <<>>, <<>>, <<>>, b, off)
<1> DEFINE part == PartOf(m, n)
           v == m.vals[n]
           hs == HeadItems(part, v)
           es == ElemItems(part, v)
<1>1. /\ hs \in Seq(Additions) /\ FlattenSeq(es) \in Seq(Additions) /\ Behind(m, n) \in Seq(Additions)
      /\ Behind(m, n - 1) = (hs \o FlattenSeq(es)) \o Behind(m, n) /\ Len(es) \in Nat
  BY PartItemsAre
<1>2. Chunk(part, v, <<>>, <<>>) = hs /\ Further(part, v, <<>>, <<>>) = FlattenSeq(es)
  BY DEF Chunk, Further
<1>3. Len(<<>>) \in 0 .. Len(es) /\ Len(<<>>) = 0
  BY <1>1
<1>4. <<>> = [i \in 1 .. Len(<<>>) |-> Vals(es[i])]
  OBVIOUS
<1> HIDE DEF hs, es
<1>5. Drop(hs, 0) = hs
  BY <1>1, DropNone
<1>6. (hs \o FlattenSeq(es)) \o Behind(m, n) = hs \o (FlattenSeq(es) \o Behind(m, n))
  BY ONLY <1>1, Joins3
<1>7. Begun(hs, <<>>)
  BY <1>1 DEF Begun
<1>8. Left(b, off, Drop(hs, 0) \o (FlattenSeq(es) \o Behind(m, n)))
  BY <1>1, <1>5, <1>6
<1> QED
  BY <1>2, <1>3, <1>4, <1>7, <1>8 DEF Progress, hs, es

LEMMA ProgressGet ==
  ASSUME NEW m, Text(m), Suited(m), NEW n \in 1 .. NumParts(m), NEW b, BufOK(b),
         NEW off \in Nat,
         NEW h, NEW e, NEW S, NEW g \in Seq(S), Progress(m, n, h, e, g, b, off),
         NEW c, c = Chunk(PartOf(m, n), m.vals[n], h, e), Len(g) < Len(c)
  PROVE  LET x == c[Len(g) + 1]
             next == off + Len(ItemBytes(x))
         IN  /\ Get(b, off, x.op) = Got(b, x.val, next)
             /\ x.val \in S => Progress(m, n, h, e, Append(g, x.val), b, next)
<1> DEFINE part == PartOf(m, n)
           v == m.vals[n]
           es == ElemItems(part, v)
           f == Further(part, v, h, e) \o Behind(m, n)
           x == c[Len(g) + 1]
           next == off + Len(ItemBytes(x))
<1>1. Len(e) \in 0 .. Len(es)
  BY DEF Progress
<1>2. c \in Seq(Additions) /\ Further(part, v, h, e) \in Seq(Additions) /\ Behind(m, n) \in Seq(Additions)
  BY <1>1, ChunkType, PartItemsAre
<1>3. f \in Seq(Additions)
  BY <1>2
<1>4. Left(b, off, Drop(c, Len(g)) \o f) /\ Begun(c, g)
  BY DEF Progress
<1> HIDE DEF f, x
<1>5. Len(g) \in Nat /\ Len(g) + 1 \in 0 .. Len(c)
  BY <1>2
<1>6. Drop(c, Len(g)) = <<x>> \o Drop(c, Len(g) + 1) /\ x \in Additions
  BY <1>2, <1>5, DropNext DEF x
<1>7. Drop(c, Len(g) + 1) \in Seq(Additions) /\ <<x>> \in Seq(Additions)
  BY <1>2, <1>5, <1>6, DropType
<1> DEFINE d == Drop(c, Len(g) + 1)
<1> HIDE DEF d
<1>8. (<<x>> \o d) \o f = <<x>> \o (d \o f) /\ d \o f \in Seq(Additions)
  <2>1. d \in Seq(Additions)
    BY <1>7 DEF d
  <2> QED
    BY <1>3, <1>7, <2>1, Joins3
<1>9. Left(b, off, <<x>> \o (d \o f))
  BY <1>4, <1>6, <1>8 DEF d
<1>10. Get(b, off, x.op) = Got(b, x.val, next) /\ Left(b, next, d \o f)
  BY <1>6, <1>8, <1>9, LeftNext
<1> HIDE DEF next
<1>11. ASSUME x.val \in S PROVE Progress(m, n, h, e, Append(g, x.val), b, next)
  <2> DEFINE a == Append(g, x.val)
  <2>1. Len(a) = Len(g) + 1 /\ \A i \in 1 .. Len(a) : a[i] = IF i <= Len(g) THEN g[i] ELSE x.val
    BY <1>11
  <2> HIDE DEF a
  <2>2. Begun(c, a)
    <3>1. Len(a) <= Len(c)
      BY <1>5, <2>1
    <3>2. ASSUME NEW i \in 1 .. Len(a) PROVE a[i] = c[i].val
      <4>1. CASE i <= Len(g)
        BY <1>4, <1>5, <2>1, <4>1 DEF Begun
      <4>2. CASE ~(i <= Len(g))
        <5>1. i = Len(g) + 1
          BY <1>5, <2>1, <4>2
        <5> QED
          BY <2>1, <4>2, <5>1 DEF x
      <4> QED
        BY <4>1, <4>2
    <3> QED
      BY <3>1, <3>2 DEF Begun
  <2>3. Left(b, next, Drop(c, Len(a)) \o f)
    BY <1>10, <2>1 DEF d
  <2> QED
    BY <2>2, <2>3 DEF Progress, a, f
<1> QED
  BY <1>10, <1>11 DEF x, next

LEMMA BegunAll ==
  ASSUME NEW E, NEW s \in Seq(E), NEW S, NEW g \in Seq(S), Begun(s, g), Len(g) = Len(s)
  PROVE  g = Vals(s) /\ Len(Vals(s)) = Len(s)
<1>1. Len(s) \in Nat
  OBVIOUS
<1>2. Len(Vals(s)) = Len(s) /\ Vals(s) = [i \in 1 .. Len(s) |-> s[i].val]
  BY <1>1 DEF Vals
<1>3. g = [i \in 1 .. Len(g) |-> g[i]]
  OBVIOUS
<1> QED
  BY <1>1, <1>2, <1>3 DEF Begun

LEMMA ProgressHead ==
  ASSUME NEW m, Text(m), Suited(m), NEW n \in 1 .. NumParts(m), NEW b, NEW off,
         NEW S, NEW g \in Seq(S), Progress(m, n, <<>>, <<>>, g, b, off),
         Len(g) = Len(HeadItems(PartOf(m, n), m.vals[n]))
  PROVE  /\ g = Vals(HeadItems(PartOf(m, n), m.vals[n])) /\ g # <<>>
         /\ Progress(m, n, g, <<>>, <<>>, b, off)
<1> DEFINE part == PartOf(m, n)
           v == m.vals[n]
           hs == HeadItems(part, v)
           es == ElemItems(part, v)
<1>1. /\ hs \in Seq(Additions) /\ FlattenSeq(es) \in Seq(Additions) /\ Behind(m, n) \in Seq(Additions)
      /\ hs # <<>> /\ es \in Seq(Seq(Additions)) /\ Len(es) \in Nat
  BY PartItemsAre
<1>2. Chunk(part, v, <<>>, <<>>) = hs /\ Further(part, v, <<>>, <<>>) = FlattenSeq(es)
  BY DEF Chunk, Further
<1>3. Begun(hs, g) /\ Left(b, off, Drop(hs, Len(g)) \o (FlattenSeq(es) \o Behind(m, n)))
  BY <1>2 DEF Progress
<1>4. Len(g) = Len(hs)
  OBVIOUS
<1>9. Chunk(part, v, g, <<>>) = (IF g = <<>> THEN hs ELSE IF Len(<<>>) < Len(es) THEN es[Len(<<>>) + 1] ELSE <<>>)
      /\ Further(part, v, g, <<>>) = IF g = <<>> THEN FlattenSeq(es)
           ELSE IF Len(<<>>) < Len(es) THEN FlattenSeq(Drop(es, Len(<<>>) + 1)) ELSE <<>>
  BY DEF Chunk, Further
<1> HIDE DEF hs, es
<1>5. g = Vals(hs)
  BY <1>1, <1>3, <1>4, BegunAll
<1>6. g # <<>>
  BY <1>1, <1>4
<1>7. Drop(hs, Len(g)) = <<>>
  BY <1>1, <1>4, DropNone
<1>8. Left(b, off, FlattenSeq(es) \o Behind(m, n))
  <2>1. FlattenSeq(es) \o Behind(m, n) \in Seq(Additions)
    BY <1>1
  <2>2. <<>> \o (FlattenSeq(es) \o Behind(m, n)) = FlattenSeq(es) \o Behind(m, n)
    BY <2>1
  <2> QED
    BY <1>3, <1>7, <2>2
<1> DEFINE c == Chunk(part, v, g, <<>>)
           f == Further(part, v, g, <<>>)
<1>10. c \in Seq(Additions) /\ f \in Seq(Additions) /\ c \o f = FlattenSeq(es)
  <2>1. Len(<<>>) = 0 /\ Len(<<>>) + 1 = 1
    OBVIOUS
  <2>2. CASE 0 < Len(es)
    <3>1. c = es[1] /\ f = FlattenSeq(Drop(es, 1))
      BY <1>6, <1>9, <2>1, <2>2
    <3>2. FlattenSeq(Drop(es, 0)) = es[0 + 1] \o FlattenSeq(Drop(es, 0 + 1))
      BY <1>1, <2>2, FlattenDrop
    <3>3. Drop(es, 0) = es
      BY <1>1, DropNone
    <3>4. 1 \in 0 .. Len(es) /\ 1 \in 1 .. Len(es)
      BY <1>1, <2>2
    <3>5. es[1] \in Seq(Additions) /\ Drop(es, 1) \in Seq(Seq(Additions))
      BY <1>1, <3>4, DropType
    <3>6. FlattenSeq(Drop(es, 1)) \in Seq(Additions)
      BY <3>5, FlattenType
    <3>7. FlattenSeq(es) = es[1] \o FlattenSeq(Drop(es, 1))
      <4>1. 0 + 1 = 1
        OBVIOUS
      <4> QED
        BY ONLY <3>2, <3>3, <4>1
    <3> QED
      BY ONLY <3>1, <3>5, <3>6, <3>7
  <2>3. CASE ~(0 < Len(es))
    <3>1. es = <<>>
      BY <1>1, <2>3
    <3>2. c = <<>> /\ f = <<>>
      BY <1>6, <1>9, <2>1, <2>3
    <3>3. <<>> \in Seq(Additions) /\ <<>> \o <<>> = <<>>
      OBVIOUS
    <3> QED
      BY ONLY <3>1, <3>2, <3>3, FlattenEmpty
  <2> QED
    BY <2>2, <2>3
<1> HIDE DEF c, f
<1>11. Drop(c, 0) = c /\ Begun(c, <<>>)
  BY <1>10, DropNone DEF Begun
<1>12. Left(b, off, c \o (f \o Behind(m, n)))
  <2>2. c \in Seq(Additions) /\ f \in Seq(Additions) /\ Behind(m, n) \in Seq(Additions)
    BY <1>1, <1>10
  <2>1. (c \o f) \o Behind(m, n) = c \o (f \o Behind(m, n))
    BY ONLY <2>2, Joins3
  <2> QED
    BY <1>8, <1>10, <2>1
<1>13. Len(<<>>) \in 0 .. Len(es) /\ Len(<<>>) = 0
  BY <1>1
<1>14. <<>> = [i \in 1 .. Len(<<>>) |-> Vals(es[i])]
  OBVIOUS
<1>15. Left(b, off, Drop(c, Len(<<>>)) \o (f \o Behind(m, n)))
  BY <1>11, <1>12, <1>13
<1>16. Progress(m, n, g, <<>>, <<>>, b, off)
  BY <1>5, <1>6, <1>11, <1>13, <1>14, <1>15 DEF Progress, c, f, hs, es
<1> QED
  BY <1>5, <1>6, <1>16 DEF hs

LEMMA ProgressElem ==
  ASSUME NEW m, Text(m), Suited(m), NEW n \in 1 .. NumParts(m), NEW b, NEW off,
         NEW S, NEW g \in Seq(S), NEW h, h # <<>>, NEW e, Progress(m, n, h, e, g, b, off),
         Len(e) < Len(ElemItems(PartOf(m, n), m.vals[n])),
         Len(g) = Len(ElemItems(PartOf(m, n), m.vals[n])[Len(e) + 1])
  PROVE  /\ Len(e) + 1 \in 1 .. Len(ElemItems(PartOf(m, n), m.vals[n]))
         /\ g = Vals(ElemItems(PartOf(m, n), m.vals[n])[Len(e) + 1])
         /\ Progress(m, n, h, Append(e, g), <<>>, b, off)
<1> DEFINE part == PartOf(m, n)
           v == m.vals[n]
           hs == HeadItems(part, v)
           es == ElemItems(part, v)
           d == Append(e, g)
<1>1. /\ hs \in Seq(Additions) /\ FlattenSeq(es) \in Seq(Additions) /\ Behind(m, n) \in Seq(Additions)
      /\ hs # <<>> /\ es \in Seq(Seq(Additions)) /\ Len(es) \in Nat
  BY PartItemsAre
<1>2. Chunk(part, v, h, e) = es[Len(e) + 1] /\ Further(part, v, h, e) = FlattenSeq(Drop(es, Len(e) + 1))
  BY DEF Chunk, Further
<1>3. /\ Begun(es[Len(e) + 1], g)
      /\ Left(b, off, Drop(es[Len(e) + 1], Len(g)) \o (FlattenSeq(Drop(es, Len(e) + 1)) \o Behind(m, n)))
      /\ h = Vals(hs) /\ Len(e) \in 0 .. Len(es) /\ e = [i \in 1 .. Len(e) |-> Vals(es[i])]
  BY <1>2 DEF Progress
<1>4. Len(g) = Len(es[Len(e) + 1]) /\ Len(e) < Len(es)
  OBVIOUS
<1>5. Chunk(part, v, h, d) = (IF Len(d) < Len(es) THEN es[Len(d) + 1] ELSE <<>>)
      /\ Further(part, v, h, d) = IF Len(d) < Len(es) THEN FlattenSeq(Drop(es, Len(d) + 1)) ELSE <<>>
  BY DEF Chunk, Further
<1>18. PICK l : l = Len(e) + 1
  OBVIOUS
<1> HIDE DEF hs, es
<1>6. l \in 1 .. Len(es) /\ es[l] \in Seq(Additions) /\ l \in 0 .. Len(es) /\ Len(e) \in Nat /\ l \in Nat
  BY <1>1, <1>3, <1>4, <1>18
<1>7. g = Vals(es[l])
  BY <1>3, <1>4, <1>6, <1>18, BegunAll
<1>8. Drop(es[l], Len(g)) = <<>>
  BY <1>4, <1>6, <1>18, DropNone
<1>9. Left(b, off, FlattenSeq(Drop(es, l)) \o Behind(m, n)) /\ FlattenSeq(Drop(es, l)) \in Seq(Additions)
  <2>1. Drop(es, l) \in Seq(Seq(Additions))
    BY <1>1, <1>6, DropType
  <2>2. FlattenSeq(Drop(es, l)) \in Seq(Additions)
    BY <2>1, FlattenType
  <2>3. FlattenSeq(Drop(es, l)) \o Behind(m, n) \in Seq(Additions)
    BY <1>1, <2>2
  <2>4. <<>> \o (FlattenSeq(Drop(es, l)) \o Behind(m, n)) = FlattenSeq(Drop(es, l)) \o Behind(m, n)
    BY <2>3
  <2> QED
    BY <1>3, <1>8, <1>18, <2>2, <2>4
<1>10. Len(d) = l /\ d = [i \in 1 .. l |-> Vals(es[i])]
  <2> DEFINE V == {Vals(es[i]) : i \in 1 .. Len(es)}
  <2>1. e \in Seq(V) /\ Len(e) \in Nat
    <3>1. \A i \in 1 .. Len(e) : Vals(es[i]) \in V
      BY <1>1, <1>3
    <3> QED
      BY <1>3, <3>1
  <2>2. g \in V
    BY <1>6, <1>7
  <2> HIDE DEF V
  <2>3. d \in Seq(V) /\ Len(d) = Len(e) + 1 /\ \A i \in 1 .. Len(d) : d[i] = IF i <= Len(e) THEN e[i] ELSE g
    BY <2>1, <2>2
  <2> HIDE DEF d
  <2>4. ASSUME NEW i \in 1 .. l PROVE d[i] = Vals(es[i])
    <3>1. CASE i <= Len(e)
      <4>1. i \in 1 .. Len(e) /\ i \in 1 .. Len(d)
        BY <1>6, <1>18, <2>3, <3>1
      <4>2. e[i] = Vals(es[i])
        BY <1>3, <4>1
      <4> QED
        BY <2>3, <3>1, <4>1, <4>2
    <3>2. CASE ~(i <= Len(e))
      <4>1. i = l /\ i \in 1 .. Len(d)
        BY <1>6, <1>18, <2>3, <3>2
      <4> QED
        BY <1>7, <2>3, <3>2, <4>1
    <3> QED
      BY <3>1, <3>2
  <2>5. d = [i \in 1 .. Len(d) |-> d[i]]
    BY <2>3
  <2> QED
    BY <1>18, <2>3, <2>4, <2>5
<1> HIDE DEF d
<1> DEFINE c == Chunk(part, v, h, d)
           f == Further(part, v, h, d)
<1>11. c \in Seq(Additions) /\ f \in Seq(Additions) /\ c \o f = FlattenSeq(Drop(es, l))
  <2>1. CASE l < Len(es)
    <3>1. c = es[l + 1] /\ f = FlattenSeq(Drop(es, l + 1))
      BY <1>5, <1>10, <2>1
    <3>2. FlattenSeq(Drop(es, l)) = es[l + 1] \o FlattenSeq(Drop(es, l + 1))
      BY <1>1, <1>6, <2>1, FlattenDrop
    <3>3. l + 1 \in 0 .. Len(es) /\ l + 1 \in 1 .. Len(es)
      BY <1>1, <1>6, <2>1
    <3>4. es[l + 1] \in Seq(Additions) /\ Drop(es, l + 1) \in Seq(Seq(Additions))
      BY <1>1, <3>3, DropType
    <3>5. FlattenSeq(Drop(es, l + 1)) \in Seq(Additions)
      BY <3>4, FlattenType
    <3> QED
      BY <3>1, <3>2, <3>4, <3>5
  <2>2. CASE ~(l < Len(es))
    <3>1. l = Len(es)
      BY <1>1, <1>6, <2>2
    <3>2. Drop(es, l) = <<>>
      BY <1>1, <3>1, DropNone
    <3>3. c = <<>> /\ f = <<>>
      BY <1>5, <1>10, <2>2
    <3> QED
      BY <3>2, <3>3, FlattenEmpty
  <2> QED
    BY <2>1, <2>2
<1> HIDE DEF c, f
<1>12. Drop(c, 0) = c /\ Begun(c, <<>>)
  BY <1>11, DropNone DEF Begun
<1>13. Left(b, off, c \o (f \o Behind(m, n)))
  <2>2. c \in Seq(Additions) /\ f \in Seq(Additions) /\ Behind(m, n) \in Seq(Additions)
    BY <1>1, <1>11
  <2>1. (c \o f) \o Behind(m, n) = c \o (f \o Behind(m, n))
    BY ONLY <2>2, Joins3
  <2> QED
    BY <1>9, <1>11, <2>1
<1>14. Len(<<>>) = 0
  OBVIOUS
<1>15. Left(b, off, Drop(c, Len(<<>>)) \o (f \o Behind(m, n)))
  BY <1>12, <1>13, <1>14
<1>16. Len(d) \in 0 .. Len(es) /\ d = [i \in 1 .. Len(d) |-> Vals(es[i])]
  BY <1>6, <1>10
<1>17. Progress(m, n, h, d, <<>>, b, off)
  BY <1>3, <1>12, <1>15, <1>16 DEF Progress, c, f, hs, es
<1> QED
  BY <1>6, <1>7, <1>17, <1>18 DEF d, es

LEMMA ProgressDone ==
  ASSUME NEW m, Text(m), Suited(m), NEW n \in 1 .. NumParts(m), NEW b, NEW off,
         NEW h, h # <<>>, NEW e, Progress(m, n, h, e, <<>>, b, off),
         Len(e) = Len(ElemItems(PartOf(m, n), m.vals[n]))
  PROVE  PartValue(PartOf(m, n), h, e) = m.vals[n] /\ Left(b, off, Behind(m, n))
<1> DEFINE part == PartOf(m, n)
           v == m.vals[n]
           hs == HeadItems(part, v)
           es == ElemItems(part, v)
<1>1. Behind(m, n) \in Seq(Additions) /\ Len(es) \in Nat
  BY PartItemsAre
<1>2. Chunk(part, v, h, e) = <<>> /\ Further(part, v, h, e) = <<>>
  <2>1. ~(Len(e) < Len(es))
    BY <1>1
  <2> QED
    BY <2>1 DEF Chunk, Further
<1>3. Left(b, off, Drop(<<>>, Len(<<>>)) \o (<<>> \o Behind(m, n))) /\ h = Vals(hs)
      /\ e = [i \in 1 .. Len(e) |-> Vals(es[i])]
  BY <1>2 DEF Progress
<1>4. Drop(<<>>, Len(<<>>)) = <<>>
  <2>1. <<>> \in Seq(Additions)
    OBVIOUS
  <2> QED
    BY <2>1, DropNone
<1>5. <<>> \o (<<>> \o Behind(m, n)) = Behind(m, n)
  BY <1>1
<1>6. PartValue(part, Vals(hs), [i \in 1 .. Len(es) |-> Vals(es[i])]) = v
  BY SuitedParts DEF PartRight, PartOf
<1>7. PartValue(part, h, e) = v
  BY <1>3, <1>6, Zenon
<1> QED
  BY <1>3, <1>4, <1>5, <1>7

\* The operation that the reader chooses is the one that was written.
LEMMA ProgressAsks ==
  ASSUME NEW m, Text(m), Suited(m), NEW n \in 1 .. NumParts(m), NEW b, NEW off,
         NEW h, NEW e, NEW g \in Seq(Values), Progress(m, n, h, e, g, b, off),
         h # <<>> => Len(e) < Len(ElemItems(PartOf(m, n), m.vals[n]))
  PROVE  Asks(Chunk(PartOf(m, n), m.vals[n], h, e), g,
              IF h = <<>> THEN HeadGets(PartOf(m, n), g) ELSE ElemGets(PartOf(m, n), g))
<1> DEFINE part == PartOf(m, n)
           v == m.vals[n]
           es == ElemItems(part, v)
<1>1. part \in DOMAIN Letters /\ Suits(part, v) /\ PartRight(part, v)
  BY SuitedParts DEF PartOf
<1>2. Begun(Chunk(part, v, h, e), g) /\ Len(e) \in 0 .. Len(es)
  BY DEF Progress
<1>3. CASE h = <<>>
  <2>1. Chunk(part, v, h, e) = HeadItems(part, v)
    BY <1>3 DEF Chunk
  <2> QED
    BY <1>1, <1>2, <1>3, <2>1, HeadAsks
<1>4. CASE h # <<>>
  <2>1. Chunk(part, v, h, e) = es[Len(e) + 1]
    BY <1>4 DEF Chunk
  <2>2. Len(es) \in Nat /\ Len(e) + 1 \in 1 .. Len(es)
    <3>1. Len(es) \in Nat
      BY PartItemsAre
    <3> QED
      BY <1>2, <1>4, <3>1
  <2>3. HasElems(part)
    <3>1. es # <<>>
      BY <2>2
    <3> QED
      BY <1>1, <3>1 DEF PartRight
  <2> QED
    BY <1>1, <1>2, <1>4, <2>1, <2>2, <2>3, ElemAsks
<1> QED
  BY <1>3, <1>4

-----------------------------------------------------------------------------
(* What gck_rpc_message_parse says of a message that arrived whole.        *)

\* The head of a message: its call id and, unless it is an error, its signature.
LEMMA HeadRead ==
  ASSUME NEW m, Text(m), Suited(m), NEW b, BufOK(b), Left(b, 0, AllItems(m))
  PROVE  \E n \in Nat :
           /\ egg_buffer_get_uint32(b, 0) = Got(b, m.id, n)
           /\ m.id = ERROR => Left(b, n, Behind(m, 0))
           /\ m.id # ERROR => Left(b, n, <<ArrayItem(TRUE, signature(m.dir, m.id))>> \o Behind(m, 0))
<1> DEFINE x == WordItem(m.id)
           y == ArrayItem(TRUE, signature(m.dir, m.id))
           r == Behind(m, 0)
           z == IF m.id = ERROR THEN r ELSE <<y>> \o r
<1>1. 0 \in 0 .. NumParts(m)
  BY TextFacts
<1>2. AllItems(m) = message_head(m.dir, m.id) \o r /\ r \in Seq(Additions)
  BY <1>1, SofarBehind, SofarNone, SofarType DEF AllItems
<1>3. /\ x \in Additions /\ (m.id = ERROR => message_head(m.dir, m.id) = <<x>>)
      /\ m.id # ERROR => message_head(m.dir, m.id) = <<x>> \o <<y>> /\ y \in Additions
  BY HeadItemsFit, FittingAdditions
<1>7. x.op = "word" /\ x.val = m.id
  BY DEF WordItem
<1>8. \A off : Get(b, off, "word") = egg_buffer_get_uint32(b, off)
  BY DEF Get
<1> HIDE DEF x, y, r
<1>4. z \in Seq(Additions) /\ AllItems(m) = <<x>> \o z
  <2>1. CASE m.id = ERROR
    BY <1>2, <1>3, <2>1
  <2>2. CASE m.id # ERROR
    <3>1. <<x>> \in Seq(Additions) /\ <<y>> \in Seq(Additions)
      BY <1>3, <2>2
    <3>2. (<<x>> \o <<y>>) \o r = <<x>> \o (<<y>> \o r) /\ <<y>> \o r \in Seq(Additions)
      BY ONLY <1>2, <3>1, Joins3
    <3> QED
      BY <1>2, <1>3, <2>2, <3>2
  <2> QED
    BY <2>1, <2>2
<1> HIDE DEF z
<1>5. Left(b, 0, <<x>> \o z)
  BY <1>4
<1>6. PICK n : n \in Nat /\ Get(b, 0, x.op) = Got(b, x.val, n) /\ Left(b, n, z)
  BY <1>3, <1>4, <1>5, LeftNext
<1> QED
  BY <1>6, <1>7, <1>8 DEF z, r, y

\* gck_rpc_message_parse accepts a message that arrived whole and goes to its
\* first part.
LEMMA ParseCall ==
  ASSUME NEW m, Text(m), Suited(m), m.id # ERROR, NEW b, BufOK(b), Left(b, 0, AllItems(m))
  PROVE  \E off \in Nat :
           /\ message_parse(b, m.dir) = [buf |-> b, ok |-> TRUE, id |-> m.id, parsed |-> off]
           /\ Left(b, off, Behind(m, 0))
<1> DEFINE y == ArrayItem(TRUE, signature(m.dir, m.id))
           r == Behind(m, 0)
<1>1. PICK n \in Nat : egg_buffer_get_uint32(b, 0) = Got(b, m.id, n) /\ Left(b, n, <<y>> \o r)
  BY HeadRead
<1>2. r \in Seq(Additions) /\ y \in Additions
  <2>1. 0 \in 0 .. NumParts(m)
    BY TextFacts
  <2> QED
    BY <2>1, SofarType, HeadItemsFit, FittingAdditions
<1>3. y.op = "array" /\ y.val = [ptr |-> TRUE, bytes |-> signature(m.dir, m.id)]
  BY DEF ArrayItem
<1> HIDE DEF y, r
<1>4. PICK off \in Nat : Get(b, n, y.op) = Got(b, y.val, off) /\ Left(b, off, r)
  BY <1>1, <1>2, LeftNext
<1>5. egg_buffer_get_byte_array(b, n) = Got(b, y.val, off)
  BY <1>3, <1>4 DEF Get
<1> DEFINE w == egg_buffer_get_uint32(b, 0)
           a == egg_buffer_get_byte_array(w.buf, w.next)
<1>6. w.buf = b /\ w.ok = TRUE /\ w.val = m.id /\ w.next = n
  BY <1>1 DEF Got
<1>7. a.buf = b /\ a.ok = TRUE /\ a.val.bytes = signature(m.dir, m.id) /\ a.next = off
  BY <1>3, <1>5, <1>6 DEF Got
<1>8. m.id \in DOMAIN Calls
  BY DEF Text
<1>9. message_parse(b, m.dir) = [buf |-> b, ok |-> TRUE, id |-> m.id, parsed |-> off]
  <2> HIDE DEF w, a
  <2>1. message_parse(b, m.dir) = [buf |-> a.buf, ok |-> a.ok /\ a.val.bytes = signature(m.dir, w.val), id |-> w.val, parsed |-> a.next]
    BY <1>6, <1>8 DEF message_parse, w, a
  <2> QED
    BY <1>6, <1>7, <2>1
<1> QED
  BY <1>4, <1>9 DEF r

\* It takes an error for what it is, and the code is the one that was sent.
LEMMA ParseError ==
  ASSUME NEW m, Text(m), Suited(m), m.id = ERROR, NEW b, BufOK(b), Left(b, 0, AllItems(m))
  PROVE  \E off \in Nat :
           /\ m.dir = "response" /\ m.vals = <<m.vals[1]>>
           /\ message_parse(b, m.dir) = [buf |-> b, ok |-> TRUE, id |-> ERROR, parsed |-> off]
           /\ egg_buffer_get_uint64(b, off) = Got(b, m.vals[1], b.len)
           /\ AsUlong(m.vals[1]) = m.vals[1] /\ m.vals[1] > 0
<1>1. m.dir = "response" /\ m.vals[1] # 0
  BY DEF Suited, Text
<1>2. Parts(m.dir, m.id) = <<"u">> /\ NumParts(m) = 1 /\ Parts(m.dir, m.id)[1] = "u"
      /\ DOMAIN Parts(m.dir, m.id) = {1}
  BY DEF Parts, NumParts
<1>3. m.vals = <<m.vals[1]>>
  <2>1. m.vals = [n \in {1} |-> m.vals[n]]
    BY <1>2 DEF Text
  <2> QED
    BY <2>1
<1>4. m.vals[1] \in CK_ULONG
  <2>1. Suits("u", m.vals[1])
    BY <1>2 DEF Suited
  <2> QED
    BY <2>1 DEF Suits
<1>5. AsUlong(m.vals[1]) = m.vals[1] /\ m.vals[1] > 0 /\ m.vals[1] \in Longs
  <2>1. m.vals[1] \in Longs /\ AsUlong(m.vals[1]) = m.vals[1]
    BY <1>4, Ulongs
  <2>2. m.vals[1] \in Nat
    BY <2>1 DEF Longs
  <2> QED
    BY <1>1, <2>1, <2>2
<1>6. PICK n \in Nat : egg_buffer_get_uint32(b, 0) = Got(b, m.id, n) /\ Left(b, n, Behind(m, 0))
  BY HeadRead
<1> DEFINE w == egg_buffer_get_uint32(b, 0)
           x == LongItem(m.vals[1])
<1>7. w.buf = b /\ w.ok = TRUE /\ w.val = ERROR /\ w.next = n
  BY <1>6 DEF Got
<1>8. ERROR \notin DOMAIN Calls
  BY MessageTexts
<1>9. message_parse(b, m.dir) = [buf |-> b, ok |-> TRUE, id |-> ERROR, parsed |-> n]
  <2> HIDE DEF w
  <2>1. message_parse(b, m.dir) = [buf |-> w.buf, ok |-> w.ok /\ w.val = ERROR /\ m.dir = "response", id |-> ERROR, parsed |-> w.next]
    BY <1>7, <1>8 DEF message_parse, w
  <2> QED
    BY <1>1, <1>7, <2>1
<1>10. Behind(m, 0) = <<x>> \o <<>> /\ x \in Additions
  <2>1. Behind(m, 0) = PartItems(m, 0 + 1) \o Behind(m, 0 + 1)
    BY <1>2, BehindNext
  <2>2. Behind(m, 1) = <<>>
    BY <1>2, BehindNone
  <2>3. PartItems(m, 1) = <<x>>
    BY <1>2 DEF PartItems, write_part, Long, LongItem
  <2>4. x \in Additions
    BY <1>5, ItemsFit, FittingAdditions
  <2>5. 0 + 1 = 1
    OBVIOUS
  <2> QED
    BY ONLY <2>1, <2>2, <2>3, <2>4, <2>5
<1>11. x.op = "long" /\ x.val = m.vals[1]
  BY DEF LongItem
<1> HIDE DEF x
<1>12. PICK off \in Nat : Get(b, n, x.op) = Got(b, x.val, off) /\ Left(b, off, <<>>)
  <2>1. <<>> \in Seq(Additions)
    OBVIOUS
  <2> QED
    BY <1>6, <1>10, <2>1, LeftNext
<1>13. off = b.len
  <2>1. BytesOf(<<>>) = <<>> /\ Len(<<>>) = 0
    BY BytesEmpty
  <2> QED
    BY <1>12, <2>1 DEF Left
<1>14. egg_buffer_get_uint64(b, n) = Got(b, m.vals[1], b.len)
  BY <1>11, <1>12, <1>13 DEF Get
<1> QED
  BY <1>1, <1>3, <1>5, <1>9, <1>14

-----------------------------------------------------------------------------
(* What is read of a message that arrived whole.                           *)

\* The first n parts of m have been read, and the others are in the buffer.
LEMMA ReadingFrom ==
  ASSUME NEW m, Text(m), Suited(m), NEW n \in 0 .. NumParts(m), NEW b, NEW off \in Nat,
         Left(b, off, Behind(m, n))
  PROVE  /\ n + 1 <= NumParts(m) => Progress(m, n + 1, <<>>, <<>>, <<>>, b, off)
         /\ n + 1 > NumParts(m) => off = b.len
<1>1. NumParts(m) \in Nat
  BY TextFacts
<1>2. ASSUME n + 1 <= NumParts(m) PROVE Progress(m, n + 1, <<>>, <<>>, <<>>, b, off)
  <2>1. n + 1 \in 1 .. NumParts(m) /\ (n + 1) - 1 = n
    BY <1>1, <1>2
  <2>2. Left(b, off, Behind(m, (n + 1) - 1))
    BY <2>1
  <2> QED
    BY <2>1, <2>2, ProgressStart
<1>3. ASSUME n + 1 > NumParts(m) PROVE off = b.len
  <2>1. n = NumParts(m)
    BY <1>1, <1>3
  <2>2. Left(b, off, <<>>)
    BY <2>1, BehindNone
  <2>3. BytesOf(<<>>) = <<>> /\ Len(<<>>) = 0
    BY BytesEmpty
  <2> QED
    BY <2>2, <2>3 DEF Left
<1> QED
  BY <1>2, <1>3

\* m is being read: part n, of which there are h, e and g, after the values s.
Reading(m, c, n, h, e, g, s, b, off) ==
  /\ c = m.id /\ m.id # ERROR /\ n \in 1 .. NumParts(m) + 1
  /\ s = [i \in 1 .. n - 1 |-> m.vals[i]]
  /\ n <= NumParts(m) => Progress(m, n, h, e, g, b, off)
  /\ n > NumParts(m) => off = b.len

\* How it may end.
Cause ==
  \/ ret \in {"OK", "code", "HOST_MEMORY"}
  \/ ret = "CLOSED" /\ msg.dir = "request" /\ Len(Encoding(msg.dir, msg.id, msg.vals)) >= MaxMessage
  \/ /\ ret = "BUFFER_TOO_SMALL"
     /\ \E i \in DOMAIN msg.vals : Parts(msg.dir, msg.id)[i] \in {"ay", "au"}
          /\ (~msg.vals[i].ptr \/ msg.vals[i].num > room)
Ended ==
  /\ ret \in {"OK", "code"} => id = msg.id /\ seen = msg.vals /\ parsed = rbuf.len
  /\ nomem \/ Cause

Faithful ==
  /\ pc # "idle" => Suited(msg)
  /\ pc \in Early => seen = <<>> /\ elems = <<>>
  /\ ~damaged /\ pc = "parse" => Left(rbuf, 0, AllItems(msg)) /\ rbuf.failures = 0
  /\ ~damaged /\ pc = "read" => Reading(msg, id, k, head, elems, got, seen, rbuf, parsed)
  /\ ~damaged /\ pc = "done" => Ended

\* The invariants hold, and the message is as it was sent.
Sound == Inv /\ WriteOK /\ Faithful

\* Faithful is an invariant: one lemma per action.
LEMMA FaithfulInit == Init => Faithful
  BY DEF Init, Faithful, Early

LEMMA FaithfulPrep ==
  ASSUME TextsSuit, Sound, NEW i \in DOMAIN Texts, message_prep(Texts[i])
  PROVE  Faithful'
<1>1. PICK t : t = Texts[i] /\ Suited(t)
  BY DEF TextsSuit
<1>2. msg' = t /\ pc' = "write" /\ seen' = <<>> /\ elems' = <<>>
  BY <1>1 DEF message_prep
<1>3. Suited(msg)'
  BY <1>1, <1>2 DEF Suited
<1> QED
  BY <1>2, <1>3 DEF Faithful

LEMMA FaithfulWrite ==
  ASSUME Sound, AddNext \/ Wrote \/ Send
  PROVE  Faithful'
<1>1. /\ pc \in Early /\ msg' = msg /\ seen' = seen /\ elems' = elems /\ pc' \in {"write", "send", "receive", "done"}
      /\ pc' = "done" => ret' = "HOST_MEMORY"
  BY DEF AddNext, Wrote, WrotePart, WriteFailed, WroteAll, Send, Early, text, reader
<1>2. Suited(msg)' /\ seen' = <<>> /\ elems' = <<>>
  BY <1>1 DEF Sound, Faithful, Suited, Early
<1>3. pc' = "done" => Ended'
  BY <1>1 DEF Ended, Cause
<1> QED
  BY <1>1, <1>2, <1>3 DEF Faithful

LEMMA FaithfulReceive ==
  ASSUME Sound, Receive
  PROVE  Faithful'
<1> DEFINE n == Len(wire) % WordMod
           b == egg_buffer_reset(rbuf)
<1>1. /\ pc = "receive" /\ msg' = msg /\ seen' = seen /\ elems' = elems /\ damaged' = damaged /\ id' = id
      /\ parsed' = parsed
  BY DEF Receive, text
<1>2. Suited(msg)' /\ seen' = <<>> /\ elems' = <<>> /\ Text(msg) /\ Suited(msg)
  BY <1>1 DEF Sound, Faithful, Suited, Early, WriteOK
<1>3. /\ pc' \in {"parse", "done"} /\ ret' \in {ret, "CLOSED", "HOST_MEMORY"}
      /\ pc' = "done" => nomem' \/ (ret' = "CLOSED" /\ msg.dir = "request" /\ n >= MaxMessage)
      /\ pc' = "done" => ret' \in {"CLOSED", "HOST_MEMORY"}
      /\ pc' = "parse" => \E ok \in MemAnswers :
            /\ ~egg_buffer_has_error(egg_buffer_reserve(b, n, ok))
            /\ rbuf' = egg_buffer_add_empty(Store(egg_buffer_reserve(b, n, ok), 0, SubSeq(wire, 1, n)), n, ok)
  BY DEF Receive
<1>4. ASSUME ~damaged PROVE wire = Encoding(msg.dir, msg.id, msg.vals) /\ n = Len(wire)
  <2>1. wire = Encoding(msg.dir, msg.id, msg.vals)
    BY <1>1, <1>4 DEF Sound, WriteOK
  <2>2. Len(wire) < WordMod /\ Len(wire) \in Nat
    BY <1>2, <2>1 DEF Suited, Sound, Inv, WriterOK
  <2>3. WordMod \in Nat /\ WordMod > 0
    BY Arithmetic
  <2> DEFINE l == Len(wire)
  <2> HIDE DEF l
  <2>4. l \in Nat /\ l < WordMod
    BY <2>2 DEF l
  <2>5. (WordMod * 0 + l) % WordMod = l
    BY ONLY <2>3, <2>4, Quotient, 0 \in Int
  <2>6. WordMod * 0 + l = l
    BY <2>3, <2>4
  <2> QED
    BY <2>1, <2>5, <2>6 DEF l
<1> HIDE DEF n
<1>5. ASSUME ~damaged, pc' = "done" PROVE Ended'
  <2>1. nomem' \/ Cause'
    <3>1. CASE nomem'
      BY <3>1
    <3>2. CASE ~nomem'
      <4>1. ret' = "CLOSED" /\ msg.dir = "request" /\ Len(Encoding(msg.dir, msg.id, msg.vals)) >= MaxMessage
        BY <1>3, <1>4, <1>5, <3>2
      <4> QED
        BY <1>1, <4>1 DEF Cause
    <3> QED
      BY <3>1, <3>2
  <2> QED
    BY <1>3, <1>5, <2>1 DEF Ended
<1>6. ASSUME ~damaged, pc' = "parse" PROVE Left(rbuf, 0, AllItems(msg))' /\ rbuf'.failures = 0
  <2>1. PICK ok \in MemAnswers :
            /\ ~egg_buffer_has_error(egg_buffer_reserve(b, n, ok))
            /\ rbuf' = egg_buffer_add_empty(Store(egg_buffer_reserve(b, n, ok), 0, SubSeq(wire, 1, n)), n, ok)
    BY <1>3, <1>6
  <2>2. wire \in Seq(Bytes) /\ n \in Nat /\ n = Len(wire)
    BY <1>4, <1>6 DEF Sound, Inv, WriterOK
  <2>3. SubSeq(wire, 1, n) = wire
    BY <2>2
  <2>4. BufOK(b) /\ b.len = 0 /\ b.failures = 0
    BY ResetOK DEF Sound, Inv, ReaderOK
  <2>5. ok \in BOOLEAN
    BY DEF MemAnswers
  <2> HIDE DEF b
  <2>6. rbuf'.len = n /\ rbuf'.failures = 0 /\ At(rbuf', 0, wire)
    <3>1. PICK q : q = egg_buffer_add_empty(Store(egg_buffer_reserve(b, n, ok), 0, wire), n, ok)
      OBVIOUS
    <3>2. Len(wire) = n /\ ~egg_buffer_has_error(egg_buffer_reserve(b, n, ok))
      BY <2>1, <2>2
    <3>3. q.len = n /\ q.failures = 0 /\ At(q, 0, wire)
      BY ONLY <2>2, <2>4, <2>5, <3>1, <3>2, TakenWhole
    <3>4. rbuf' = q
      BY <2>1, <2>3, <3>1
    <3> QED
      BY <3>3, <3>4
  <2>7. wire = BytesOf(AllItems(msg))
    BY <1>2, <1>4, <1>6, SofarAll DEF AllItems
  <2>8. AllShort(AllItems(msg))
    BY <1>1 DEF Sound, WriteOK
  <2>9. AllItems(msg) \in Seq(Readable)
    BY <1>2, <2>8, AllReadable
  <2>10. PICK a : a = AllItems(msg)
    OBVIOUS
  <2>11. Left(rbuf', 0, a)
    BY <2>2, <2>6, <2>7, <2>9, <2>10 DEF Left
  <2>12. AllItems(msg)' = a
    BY <1>1, <2>10 DEF AllItems
  <2> QED
    BY <2>6, <2>11, <2>12
<1> QED
  BY <1>1, <1>2, <1>3, <1>5, <1>6 DEF Faithful

LEMMA FaithfulRead ==
  ASSUME Sound, pc \in {"parse", "read"}, pc' \in {"read", "done"}, msg' = msg,
         damaged' = damaged,
         ~damaged /\ pc' = "read" => Reading(msg', id', k', head', elems', got', seen', rbuf', parsed'),
         ~damaged /\ pc' = "done" => Ended'
  PROVE  Faithful'
<1>1. Suited(msg)'
  BY DEF Sound, Faithful, Suited
<1>2. pc' \notin Early
  BY DEF Early
<1>3. ~damaged' /\ pc' = "read" => Reading(msg, id, k, head, elems, got, seen, rbuf, parsed)'
  OBVIOUS
<1> QED
  BY <1>1, <1>2, <1>3 DEF Faithful

\* The first part of a message that arrived whole is read first.
LEMMA FaithfulBelieved ==
  ASSUME NEW m, Text(m), Suited(m), m.id # ERROR, NEW b, NEW off \in Nat,
         Left(b, off, Behind(m, 0))
  PROVE  Reading(m, m.id, 1, <<>>, <<>>, <<>>, <<>>, b, off)
<1>1. NumParts(m) \in Nat /\ 0 \in 0 .. NumParts(m) /\ 0 + 1 = 1 /\ 1 \in 1 .. NumParts(m) + 1
  BY TextFacts
<1>2. /\ 0 + 1 <= NumParts(m) => Progress(m, 0 + 1, <<>>, <<>>, <<>>, b, off)
      /\ 0 + 1 > NumParts(m) => off = b.len
  BY <1>1, ReadingFrom
<1>3. <<>> = [i \in 1 .. 1 - 1 |-> m.vals[i]]
  OBVIOUS
<1> QED
  BY <1>1, <1>2, <1>3 DEF Reading

\* The daemon takes a request that arrived whole.
LEMMA FaithfulRequest ==
  ASSUME Sound, ParseRequest
  PROVE  Faithful'
<1>1. /\ pc = "parse" /\ msg.dir = "request" /\ msg' = msg /\ damaged' = damaged /\ pc' \in {"read", "done"}
      /\ head' = head /\ elems' = elems /\ got' = got /\ seen' = seen
  BY DEF ParseRequest, text, Believed, End
<1>2. Text(msg) /\ Suited(msg) /\ BufOK(rbuf) /\ head = <<>> /\ elems = <<>> /\ got = <<>> /\ seen = <<>>
  BY <1>1 DEF Sound, Inv, ReaderOK, Faithful, WriteOK, Early
<1>3. ASSUME ~damaged
      PROVE  pc' = "read" /\ Reading(msg', id', k', head', elems', got', seen', rbuf', parsed')
  <2>1. Left(rbuf, 0, AllItems(msg)) /\ msg.id # ERROR
    BY <1>1, <1>2, <1>3 DEF Sound, Faithful, Suited
  <2>2. PICK off \in Nat :
           /\ message_parse(rbuf, msg.dir) = [buf |-> rbuf, ok |-> TRUE, id |-> msg.id, parsed |-> off]
           /\ Left(rbuf, off, Behind(msg, 0))
    BY <1>2, <2>1, ParseCall
  <2>3. /\ rbuf' = rbuf /\ id' = msg.id /\ parsed' = off /\ pc' = "read" /\ k' = 1
    BY <1>1, <2>2 DEF ParseRequest, Parsed, Believed
  <2>4. Reading(msg, msg.id, 1, <<>>, <<>>, <<>>, <<>>, rbuf, off)
    BY <1>2, <2>1, <2>2, FaithfulBelieved
  <2> QED
    BY <1>1, <1>2, <2>3, <2>4
<1> QED
  BY <1>1, <1>3, FaithfulRead

\* The client takes a response that arrived whole.
LEMMA FaithfulResponse ==
  ASSUME Sound, ParseResponse
  PROVE  Faithful'
<1>1. /\ pc = "parse" /\ msg.dir = "response" /\ msg' = msg /\ damaged' = damaged /\ pc' \in {"read", "done"}
      /\ head' = head /\ elems' = elems /\ got' = got
  BY DEF ParseResponse, text, Believed, End
<1>2. Text(msg) /\ Suited(msg) /\ BufOK(rbuf) /\ head = <<>> /\ elems = <<>> /\ got = <<>> /\ seen = <<>>
  BY <1>1 DEF Sound, Inv, ReaderOK, Faithful, WriteOK, Early
<1>3. ASSUME ~damaged, msg.id # ERROR
      PROVE  pc' = "read" /\ Reading(msg', id', k', head', elems', got', seen', rbuf', parsed')
  <2>1. Left(rbuf, 0, AllItems(msg)) /\ rbuf.failures = 0
    BY <1>1, <1>3 DEF Sound, Faithful
  <2>2. PICK off \in Nat :
           /\ message_parse(rbuf, msg.dir) = [buf |-> rbuf, ok |-> TRUE, id |-> msg.id, parsed |-> off]
           /\ Left(rbuf, off, Behind(msg, 0))
    BY <1>2, <1>3, <2>1, ParseCall
  <2>3. ~egg_buffer_has_error(rbuf) /\ Asked = msg.id
    BY <1>3, <2>1 DEF egg_buffer_has_error, Asked
  <2>4. /\ rbuf' = rbuf /\ id' = msg.id /\ parsed' = off /\ pc' = "read" /\ k' = 1 /\ seen' = seen
    BY <1>1, <1>3, <2>2, <2>3 DEF ParseResponse, Parsed, Believed
  <2>5. Reading(msg, msg.id, 1, <<>>, <<>>, <<>>, <<>>, rbuf, off)
    BY <1>2, <1>3, <2>2, FaithfulBelieved
  <2> QED
    BY <1>1, <1>2, <2>4, <2>5
<1>4. ASSUME ~damaged, msg.id = ERROR
      PROVE  pc' = "done" /\ Ended'
  <2>1. Left(rbuf, 0, AllItems(msg))
    BY <1>1, <1>4 DEF Sound, Faithful
  <2>2. PICK off \in Nat :
           /\ msg.dir = "response" /\ msg.vals = <<msg.vals[1]>>
           /\ message_parse(rbuf, msg.dir) = [buf |-> rbuf, ok |-> TRUE, id |-> ERROR, parsed |-> off]
           /\ egg_buffer_get_uint64(rbuf, off) = Got(rbuf, msg.vals[1], rbuf.len)
           /\ AsUlong(msg.vals[1]) = msg.vals[1] /\ msg.vals[1] > 0
    BY <1>2, <1>4, <2>1, ParseError
  <2> DEFINE p == message_parse(rbuf, "response")
             code == egg_buffer_get_uint64(p.buf, p.parsed)
  <2>3. p.buf = rbuf /\ p.ok = TRUE /\ p.id = ERROR /\ p.parsed = off
    BY <2>2
  <2>4. code.buf = rbuf /\ code.ok = TRUE /\ code.val = msg.vals[1] /\ code.next = rbuf.len
    BY <2>2, <2>3 DEF Got
  <2> HIDE DEF p, code
  <2>5. /\ rbuf' = rbuf /\ id' = ERROR /\ parsed' = rbuf.len /\ pc' = "done" /\ ret' = "code"
        /\ seen' = <<AsUlong(code.val)>>
    BY <2>2, <2>3, <2>4 DEF ParseResponse, End, p, code
  <2>6. seen' = msg.vals
    BY <2>2, <2>4, <2>5
  <2> QED
    BY <1>1, <1>4, <2>5, <2>6 DEF Ended, Cause
<1> QED
  BY <1>1, <1>3, <1>4, FaithfulRead

-----------------------------------------------------------------------------
(* Reading the parts.                                                      *)

\* What is known while part k of a whole message is read.
LEMMA ReadingPart ==
  ASSUME Sound, pc = "read", ~damaged, ~AtEnd
  PROVE  /\ Text(msg) /\ Suited(msg) /\ id = msg.id /\ msg.id # ERROR /\ k \in 1 .. NumParts(msg)
         /\ Part = PartOf(msg, k) /\ BufOK(rbuf) /\ parsed \in Nat /\ got \in Seq(Values)
         /\ Progress(msg, k, head, elems, got, rbuf, parsed)
         /\ seen = [i \in 1 .. k - 1 |-> msg.vals[i]]
         /\ Complete <=> head # <<>> /\ Len(elems) = Len(ElemItems(PartOf(msg, k), msg.vals[k]))
         /\ Len(elems) \in 0 .. Len(ElemItems(PartOf(msg, k), msg.vals[k]))
         /\ Len(ElemItems(PartOf(msg, k), msg.vals[k])) \in Nat
<1>1. Text(msg) /\ Suited(msg) /\ Reading(msg, id, k, head, elems, got, seen, rbuf, parsed)
      /\ BufOK(rbuf) /\ got \in Seq(Values) /\ parsed \in 0 .. rbuf.len
  BY DEF Sound, Inv, ReaderOK, PartOK, Faithful, WriteOK
<1>2. id = msg.id /\ msg.id # ERROR /\ k \in 1 .. NumParts(msg) + 1 /\ NumParts(msg) \in Nat
      /\ seen = [i \in 1 .. k - 1 |-> msg.vals[i]]
  BY <1>1, TextFacts DEF Reading
<1>3. k \in 1 .. NumParts(msg)
  BY <1>2 DEF AtEnd, NumParts
<1>4. Progress(msg, k, head, elems, got, rbuf, parsed) /\ parsed \in Nat
  BY <1>1, <1>3 DEF Reading, BufOK, Buffer
<1>5. Part = PartOf(msg, k)
  BY <1>2 DEF Part, PartOf
<1> DEFINE es == ElemItems(PartOf(msg, k), msg.vals[k])
           hs == HeadItems(PartOf(msg, k), msg.vals[k])
<1>6. /\ NumElems(PartOf(msg, k), Vals(hs)) = Len(es) /\ (~HasElems(PartOf(msg, k)) => es = <<>>)
      /\ (head # <<>> => head = Vals(hs)) /\ Len(elems) \in 0 .. Len(es)
  BY <1>1, <1>3, <1>4, SuitedParts DEF PartRight, PartOf, Progress
<1>7. Len(es) \in Nat
  BY <1>1, <1>3, PartItemsAre
<1> HIDE DEF es, hs
<1>8. Complete <=> head # <<>> /\ Len(elems) = Len(es)
  <2>1. CASE HasElems(PartOf(msg, k))
    BY <1>5, <1>6, <2>1 DEF Complete
  <2>2. CASE ~HasElems(PartOf(msg, k))
    <3>1. Len(es) = 0
      BY <1>6, <2>2
    <3> QED
      BY <1>5, <1>6, <2>2, <3>1 DEF Complete
  <2> QED
    BY <2>1, <2>2
<1> QED
  BY <1>1, <1>2, <1>3, <1>4, <1>5, <1>6, <1>7, <1>8 DEF es

\* The next operation is the one the next item needs, if there is one.
LEMMA ReadingAsks ==
  ASSUME Sound, pc = "read", ~damaged, ~AtEnd, ~Complete
  PROVE  Asks(Chunk(PartOf(msg, k), msg.vals[k], head, elems), got, Gets)
<1>1. /\ Text(msg) /\ Suited(msg) /\ k \in 1 .. NumParts(msg)
      /\ Part = PartOf(msg, k) /\ got \in Seq(Values)
      /\ Progress(msg, k, head, elems, got, rbuf, parsed)
      /\ Complete <=> head # <<>> /\ Len(elems) = Len(ElemItems(PartOf(msg, k), msg.vals[k]))
      /\ Len(elems) \in 0 .. Len(ElemItems(PartOf(msg, k), msg.vals[k]))
      /\ Len(ElemItems(PartOf(msg, k), msg.vals[k])) \in Nat
  BY ReadingPart
<1>2. head # <<>> => Len(elems) < Len(ElemItems(PartOf(msg, k), msg.vals[k]))
  BY <1>1
<1>3. Gets = IF head = <<>> THEN HeadGets(PartOf(msg, k), got) ELSE ElemGets(PartOf(msg, k), got)
  BY <1>1 DEF Gets
<1> QED
  BY <1>1, <1>2, <1>3, ProgressAsks

LEMMA FaithfulGet ==
  ASSUME Sound, GetNext
  PROVE  Faithful'
<1>1. /\ pc = "read" /\ ~AtEnd /\ ~Complete /\ Len(got) < Len(Gets) /\ msg' = msg /\ damaged' = damaged
      /\ pc' \in {"read", "done"} /\ id' = id /\ head' = head /\ elems' = elems /\ seen' = seen
  BY DEF GetNext, text, End
<1>2. ASSUME ~damaged
      PROVE  pc' = "read" /\ Reading(msg', id', k', head', elems', got', seen', rbuf', parsed')
  <2>1. /\ Text(msg) /\ Suited(msg) /\ id = msg.id /\ msg.id # ERROR /\ k \in 1 .. NumParts(msg)
        /\ BufOK(rbuf) /\ parsed \in Nat /\ got \in Seq(Values)
        /\ Progress(msg, k, head, elems, got, rbuf, parsed)
        /\ seen = [i \in 1 .. k - 1 |-> msg.vals[i]] /\ NumParts(msg) \in Nat
    BY <1>1, <1>2, ReadingPart, TextFacts
  <2>2. PICK c : c = Chunk(PartOf(msg, k), msg.vals[k], head, elems)
    OBVIOUS
  <2>3. Asks(c, got, Gets) /\ Begun(c, got)
    BY <1>1, <1>2, <2>1, <2>2, ReadingAsks DEF Progress
  <2>8. c \in Seq(Additions)
    BY <2>1, <2>2, ChunkType DEF Progress
  <2>4. Len(got) < Len(c) /\ Gets[Len(got) + 1] = c[Len(got) + 1].op
    BY <1>1, <2>1, <2>3, <2>8 DEF Asks, Begun
  <2>5. PICK x, next : x = c[Len(got) + 1] /\ next = parsed + Len(ItemBytes(x))
    OBVIOUS
  <2> DEFINE S == Values \cup {x.val}
  <2>6. got \in Seq(S) /\ x.val \in S
    BY <2>1
  <2> HIDE DEF S
  <2>7. Get(rbuf, parsed, x.op) = Got(rbuf, x.val, next) /\ Progress(msg, k, head, elems, Append(got, x.val), rbuf, next)
    BY <2>1, <2>2, <2>4, <2>5, <2>6, ProgressGet
  <2> DEFINE g == Get(rbuf, parsed, Gets[Len(got) + 1])
  <2>9. g.buf = rbuf /\ g.ok = TRUE /\ g.val = x.val /\ g.next = next
    BY <2>4, <2>5, <2>7 DEF Got
  <2> HIDE DEF g
  <2>10. rbuf' = rbuf /\ parsed' = next /\ got' = Append(got, x.val) /\ pc' = pc /\ k' = k
    BY <2>9 DEF GetNext, g
  <2>11. k \in 1 .. NumParts(msg) + 1 /\ ~(k > NumParts(msg))
    BY <2>1
  <2>12. Reading(msg, id, k, head, elems, Append(got, x.val), seen, rbuf, next)
    BY <2>1, <2>7, <2>11 DEF Reading
  <2> QED
    BY <1>1, <2>10, <2>12
<1> QED
  BY <1>1, <1>2, FaithfulRead

LEMMA HeadVals ==
  ASSUME NEW v
  PROVE  /\ Vals(HeadItems("aA", v))[1] = Len(v)
         /\ Vals(HeadItems("s", v))[1] = [ptr |-> TRUE, bytes |-> v]
         /\ Vals(HeadItems("ay", v))[1] = (IF v.ptr THEN 1 ELSE 0)
         /\ v.ptr => Vals(HeadItems("ay", v))[2] = [ptr |-> TRUE, bytes |-> v.bytes]
         /\ Vals(HeadItems("au", v))[1] = (IF v.ptr THEN 1 ELSE 0)
         /\ Vals(HeadItems("au", v))[2] = v.num
<1>1. Vals(HeadItems("aA", v))[1] = Len(v)
  <2>1. HeadItems("aA", v) = <<WordItem(Len(v))>>
    BY DEF HeadItems, Word, WordItem
  <2>2. Vals(<<WordItem(Len(v))>>) = <<WordItem(Len(v)).val>>
    BY Vals1
  <2> QED
    BY <2>1, <2>2 DEF WordItem
<1>2. Vals(HeadItems("s", v))[1] = [ptr |-> TRUE, bytes |-> v]
  <2>1. HeadItems("s", v) = <<ArrayItem(TRUE, v)>>
    BY DEF HeadItems, write_part, Array, ArrayItem
  <2>2. PICK x : x = ArrayItem(TRUE, v)
    OBVIOUS
  <2>3. x.val = [ptr |-> TRUE, bytes |-> v]
    BY <2>2 DEF ArrayItem
  <2>4. Vals(<<x>>)[1] = x.val
    <3>1. Vals(<<x>>) = <<x.val>>
      BY Vals1
    <3> QED
      BY <3>1
  <2> QED
    BY ONLY <2>1, <2>2, <2>3, <2>4
<1>3. ASSUME NEW a, NEW b
      PROVE  Vals(<<a>> \o <<b>>)[1] = a.val /\ Vals(<<a>> \o <<b>>)[2] = b.val
  <2>1. <<a>> \o <<b>> = <<a, b>>
    BY Joined2, a \in {a, b}, b \in {a, b}
  <2>2. Vals(<<a, b>>)[1] = a.val /\ Vals(<<a, b>>)[2] = b.val
    BY Vals2
  <2> QED
    BY ONLY <2>1, <2>2
<1>4. /\ Vals(HeadItems("ay", v))[1] = (IF v.ptr THEN 1 ELSE 0)
      /\ v.ptr => Vals(HeadItems("ay", v))[2] = [ptr |-> TRUE, bytes |-> v.bytes]
  <2>1. CASE v.ptr
    <3>1. HeadItems("ay", v) = <<ByteItem(1)>> \o <<ArrayItem(TRUE, v.bytes)>>
      BY <2>1 DEF HeadItems, write_part, write_byte_array, Array, ArrayItem, Byte, ByteItem
    <3>2. ByteItem(1).val = 1 /\ ArrayItem(TRUE, v.bytes).val = [ptr |-> TRUE, bytes |-> v.bytes]
      BY DEF ByteItem, ArrayItem
    <3> QED
      BY <1>3, <2>1, <3>1, <3>2
  <2>2. CASE ~v.ptr
    <3>1. HeadItems("ay", v) = <<ByteItem(0)>> \o <<WordItem(v.num)>>
      BY <2>2 DEF HeadItems, write_part, write_byte_array, Word, WordItem, Byte, ByteItem
    <3>2. ByteItem(0).val = 0
      BY DEF ByteItem
    <3> QED
      BY <1>3, <2>2, <3>1, <3>2
  <2> QED
    BY <2>1, <2>2
<1>5. /\ Vals(HeadItems("au", v))[1] = (IF v.ptr THEN 1 ELSE 0)
      /\ Vals(HeadItems("au", v))[2] = v.num
  <2>1. HeadItems("au", v) = <<ByteItem(IF v.ptr THEN 1 ELSE 0)>> \o <<WordItem(v.num)>>
    BY DEF HeadItems, Byte, ByteItem, Word, WordItem
  <2>2. \A z : ByteItem(z).val = z /\ WordItem(z).val = z
    BY DEF ByteItem, WordItem
  <2>3. PICK x, y : x = ByteItem(IF v.ptr THEN 1 ELSE 0) /\ y = WordItem(v.num)
    OBVIOUS
  <2>4. x.val = (IF v.ptr THEN 1 ELSE 0) /\ y.val = v.num
    BY <2>2, <2>3
  <2>5. Vals(<<x>> \o <<y>>)[1] = x.val /\ Vals(<<x>> \o <<y>>)[2] = y.val
    BY <1>3
  <2> QED
    BY ONLY <2>1, <2>3, <2>4, <2>5
<1> QED
  BY <1>1, <1>2, <1>4, <1>5

\* The head of part k, read to its end.
LEMMA HeadWhole ==
  ASSUME Sound, pc = "read", ~damaged, ~AtEnd, head = <<>>, Len(got) = Len(Gets)
  PROVE  /\ got = Vals(HeadItems(PartOf(msg, k), msg.vals[k])) /\ elems = <<>>
         /\ Progress(msg, k, got, <<>>, <<>>, rbuf, parsed)
<1>1. /\ Text(msg) /\ Suited(msg) /\ k \in 1 .. NumParts(msg) /\ got \in Seq(Values)
      /\ Progress(msg, k, head, elems, got, rbuf, parsed) /\ ~Complete
  BY ReadingPart
<1>2. elems = <<>> /\ Progress(msg, k, <<>>, <<>>, got, rbuf, parsed)
  BY <1>1 DEF Progress
<1>3. Chunk(PartOf(msg, k), msg.vals[k], head, elems) = HeadItems(PartOf(msg, k), msg.vals[k])
  BY DEF Chunk
<1> DEFINE hs == HeadItems(PartOf(msg, k), msg.vals[k])
<1>4. hs \in Seq(Additions)
  BY <1>1, PartItemsAre
<1>5. Asks(hs, got, Gets) /\ Begun(hs, got)
  BY <1>1, <1>3, ReadingAsks DEF Progress
<1> HIDE DEF hs
<1>6. Len(got) = Len(hs)
  BY <1>1, <1>4, <1>5 DEF Asks, Begun
<1>7. got = Vals(hs) /\ Progress(msg, k, got, <<>>, <<>>, rbuf, parsed)
  BY <1>1, <1>2, <1>6, ProgressHead DEF hs
<1> QED
  BY <1>2, <1>7 DEF hs

\* No test behind a head refuses a part that arrived whole; only a result that
\* is larger than the room for it is not copied.
LEMMA HeadTaken ==
  ASSUME Sound, pc = "read", ~damaged, ~AtEnd, head = <<>>, Len(got) = Len(Gets)
  PROVE  /\ ~BadHead
         /\ TooSmall => \E i \in DOMAIN msg.vals : Parts(msg.dir, msg.id)[i] \in {"ay", "au"}
                          /\ (~msg.vals[i].ptr \/ msg.vals[i].num > room)
<1> DEFINE v == msg.vals[k]
           part == PartOf(msg, k)
<1>1. /\ Text(msg) /\ Suited(msg) /\ k \in 1 .. NumParts(msg) /\ Part = part
      /\ got = Vals(HeadItems(part, v)) /\ room \in Nat /\ k \in DOMAIN msg.vals
  BY ReadingPart, HeadWhole, RoomKnown, TextFacts DEF Sound
<1>2. Suits(part, v) /\ part \in DOMAIN Letters /\ part = Parts(msg.dir, msg.id)[k]
  BY <1>1, SuitedParts DEF PartOf
<1>3. msg.dir = "response" /\ part = "s" => Len(v) = StrLen
  <2>1. k \in DOMAIN Parts(msg.dir, msg.id)
    <3>1. DOMAIN msg.vals = DOMAIN Parts(msg.dir, msg.id)
      BY <1>1, Zenon DEF Text
    <3> QED
      BY <1>1, <3>1
  <2> QED
    BY <1>1, <1>2, <2>1 DEF Suited
<1> HIDE DEF v, part
<1>4. ~BadHead
  <2>1. part = "aA" => got[1] = Len(v)
    BY <1>1, HeadVals
  <2>2. ASSUME part = "s" PROVE got[1].bytes = v
    <3>1. got[1] = [ptr |-> TRUE, bytes |-> v]
      BY <1>1, <2>2, HeadVals
    <3> QED
      BY <3>1
  <2> QED
    BY <1>1, <1>3, <2>1, <2>2 DEF BadHead, v
<1>5. ASSUME TooSmall PROVE part \in {"ay", "au"} /\ (~v.ptr \/ v.num > room)
  <2>1. CASE part = "ay"
    <3>1. got[1] = (IF v.ptr THEN 1 ELSE 0) /\ (v.ptr => got[2].bytes = v.bytes)
      <4>1. /\ got[1] = (IF v.ptr THEN 1 ELSE 0)
            /\ v.ptr => got[2] = [ptr |-> TRUE, bytes |-> v.bytes]
        BY <1>1, <2>1, HeadVals
      <4> QED
        BY <4>1
    <3>2. v.num \in Words /\ (v.ptr => v.num = Len(v.bytes))
      BY <1>2, <2>1 DEF Suits
    <3>3. v.num \in Nat
      BY <3>2, Arithmetic DEF Words
    <3>4. got[1] = 0 \/ ~(Len(got[2].bytes) <= room)
      BY <1>1, <1>5, <2>1 DEF TooSmall, Fits
    <3>5. CASE v.ptr
      <4>1. ~(v.num <= room)
        BY <3>1, <3>2, <3>4, <3>5
      <4> QED
        BY <1>1, <2>1, <3>3, <4>1
    <3> QED
      BY <2>1, <3>5
  <2>2. CASE part = "au"
    <3>1. got[1] = (IF v.ptr THEN 1 ELSE 0) /\ got[2] = v.num
      BY <1>1, <2>2, HeadVals
    <3>2. v.num \in Words
      BY <1>2, <2>2 DEF Suits
    <3>3. v.num \in Nat
      BY <3>2, Arithmetic DEF Words
    <3>4. got[1] = 0 \/ ~(got[2] <= room)
      BY <1>1, <1>5, <2>2 DEF TooSmall, Fits
    <3>5. CASE v.ptr
      <4>1. ~(v.num <= room)
        BY <3>1, <3>4, <3>5
      <4> QED
        BY <1>1, <2>2, <3>3, <4>1
    <3> QED
      BY <2>2, <3>5
  <2> QED
    BY <1>1, <1>5, <2>1, <2>2 DEF TooSmall
<1> QED
  BY <1>1, <1>2, <1>4, <1>5 DEF v

LEMMA FaithfulHead ==
  ASSUME Sound, GotHead
  PROVE  Faithful'
<1>1. /\ pc = "read" /\ ~AtEnd /\ head = <<>> /\ Len(got) = Len(Gets) /\ msg' = msg /\ damaged' = damaged
      /\ pc' \in {"read", "done"} /\ id' = id /\ head' = got /\ got' = <<>> /\ elems' = elems /\ seen' = seen
      /\ rbuf' = rbuf /\ parsed' = parsed /\ room' = room /\ k' = k
  BY DEF GotHead, text, End
<1>2. ASSUME ~damaged, pc' = "read"
      PROVE  Reading(msg', id', k', head', elems', got', seen', rbuf', parsed')
  <2>1. /\ Text(msg) /\ id = msg.id /\ msg.id # ERROR /\ k \in 1 .. NumParts(msg)
        /\ seen = [i \in 1 .. k - 1 |-> msg.vals[i]] /\ NumParts(msg) \in Nat
    BY <1>1, <1>2, ReadingPart, TextFacts
  <2>2. elems = <<>> /\ Progress(msg, k, got, <<>>, <<>>, rbuf, parsed)
    BY <1>1, <1>2, HeadWhole
  <2>3. k \in 1 .. NumParts(msg) + 1 /\ ~(k > NumParts(msg))
    BY <2>1
  <2>4. Reading(msg, id, k, got, <<>>, <<>>, seen, rbuf, parsed)
    BY <2>1, <2>2, <2>3 DEF Reading
  <2> QED
    BY <1>1, <2>2, <2>4
<1>3. ASSUME ~damaged, pc' = "done" PROVE Ended'
  <2>1. ~BadHead
    BY <1>1, <1>3, HeadTaken
  <2>2. (TooSmall /\ ret' = "BUFFER_TOO_SMALL") \/ (nomem' /\ ret' = "DEVICE_MEMORY")
    BY <1>1, <1>3, <2>1 DEF GotHead, End
  <2>3. CASE TooSmall /\ ret' = "BUFFER_TOO_SMALL"
    <3>1. \E i \in DOMAIN msg.vals : Parts(msg.dir, msg.id)[i] \in {"ay", "au"}
            /\ (~msg.vals[i].ptr \/ msg.vals[i].num > room)
      BY <1>1, <1>3, <2>3, HeadTaken
    <3>2. Cause'
      BY <1>1, <2>3, <3>1 DEF Cause
    <3> QED
      BY <2>3, <3>2 DEF Ended
  <2>4. CASE nomem' /\ ret' = "DEVICE_MEMORY"
    BY <2>4 DEF Ended
  <2> QED
    BY <2>2, <2>3, <2>4
<1> QED
  BY <1>1, <1>2, <1>3, FaithfulRead

-----------------------------------------------------------------------------
(* Elements.                                                               *)

LEMMA ElemWhole ==
  ASSUME Sound, pc = "read", ~damaged, ~AtEnd, head # <<>>, ~Complete, Len(got) = Len(Gets)
  PROVE  LET es == ElemItems(PartOf(msg, k), msg.vals[k])
         IN  /\ Len(elems) + 1 \in 1 .. Len(es) /\ got = Vals(es[Len(elems) + 1])
             /\ Progress(msg, k, head, Append(elems, got), <<>>, rbuf, parsed)
<1> DEFINE es == ElemItems(PartOf(msg, k), msg.vals[k])
<1>1. /\ Text(msg) /\ Suited(msg) /\ k \in 1 .. NumParts(msg) /\ got \in Seq(Values)
      /\ Progress(msg, k, head, elems, got, rbuf, parsed)
      /\ Len(elems) \in 0 .. Len(es) /\ Len(es) \in Nat /\ Len(elems) # Len(es)
  BY ReadingPart
<1>2. Len(elems) < Len(es)
  BY <1>1
<1>3. Chunk(PartOf(msg, k), msg.vals[k], head, elems) = es[Len(elems) + 1]
  BY <1>2 DEF Chunk
<1>4. es[Len(elems) + 1] \in Seq(Additions)
  BY <1>1, <1>3, ChunkType
<1>5. Asks(es[Len(elems) + 1], got, Gets) /\ Begun(es[Len(elems) + 1], got)
  BY <1>1, <1>3, ReadingAsks DEF Progress
<1>7. PICK c : c = es[Len(elems) + 1]
  OBVIOUS
<1>8. c \in Seq(Additions) /\ Asks(c, got, Gets) /\ Begun(c, got)
  BY <1>4, <1>5, <1>7
<1>6. Len(got) = Len(c)
  BY <1>1, <1>8 DEF Asks, Begun
<1> QED
  BY <1>1, <1>2, <1>6, <1>7, ProgressElem

\* No test behind an element refuses one that arrived whole.
LEMMA ElemTaken ==
  ASSUME Sound, pc = "read", ~damaged, ~AtEnd, head # <<>>, ~Complete, Len(got) = Len(Gets)
  PROVE  ~BadElem /\ ~NullRead
<1> DEFINE v == msg.vals[k]
           part == PartOf(msg, k)
           es == ElemItems(part, v)
           n == Len(elems) + 1
<1>1. /\ Text(msg) /\ Suited(msg) /\ k \in 1 .. NumParts(msg) /\ Part = part
      /\ n \in 1 .. Len(es) /\ got = Vals(es[n])
  BY ReadingPart, ElemWhole
<1>2. Suits(part, v)
  BY <1>1, SuitedParts DEF PartOf
<1>3. ASSUME part = "aA"
      PROVE  \E a \in Attributes : a = v[n] /\ got = AttrVals(a)
  <2>1. v \in Seq(Attributes)
    BY <1>2, <1>3 DEF Suits
  <2>2. es = [i \in 1 .. Len(v) |-> write_attribute(v[i])] /\ Len(v) \in Nat
    BY <1>3, <2>1 DEF ElemItems
  <2> HIDE DEF es, v, n
  <2>3. n \in 1 .. Len(v) /\ v[n] \in Attributes /\ es[n] = write_attribute(v[n])
    <3>1. Len(es) = Len(v)
      BY <2>2
    <3> QED
      BY <1>1, <2>1, <2>2, <3>1
  <2>4. got = AttrVals(v[n])
    BY <1>1, <2>3, AttrWritten
  <2> QED
    BY <2>3, <2>4
<1>4. ASSUME part = "aA" PROVE ~BadElem /\ ~NullRead
  <2>1. PICK a \in Attributes : a = v[n] /\ got = AttrVals(a)
    BY <1>3, <1>4
  <2>2. /\ got[1] = a.type
        /\ Len(got) = 4 => got[3] = a.len /\ got[4].ptr = a.ptr /\ got[4].bytes = a.bytes
    <3>1. CASE a.len = Unavailable
      BY <2>1, <3>1 DEF AttrVals
    <3>2. CASE a.len # Unavailable
      <4>1. got = <<a.type, 1, a.len, [ptr |-> a.ptr, bytes |-> a.bytes]>>
        BY <2>1, <3>2 DEF AttrVals
      <4>2. got[1] = a.type /\ got[3] = a.len /\ got[4] = [ptr |-> a.ptr, bytes |-> a.bytes]
        BY <4>1
      <4> QED
        BY <4>2
    <3> QED
      BY <3>1, <3>2
  <2>3. a.ptr => Len(a.bytes) = a.len
    BY AttrFields
  <2>4. got[1] = msg.vals[k][Len(elems) + 1].type
    BY <2>1, <2>2
  <2>5. gck_rpc_has_ulong_parameter(a.type) /\ a.len = LongLen => Widths["reader"] = LongLen
    BY DEF Attributes
  <2> HIDE DEF v, n, es
  <2>6. ~BadElem
    BY <2>2, <2>3, <2>4 DEF BadElem
  <2>7. ~NullRead
    BY <2>2, <2>5 DEF NullRead
  <2> QED
    BY <2>6, <2>7
<1>5. ASSUME part # "aA" PROVE ~BadElem /\ ~NullRead
  BY <1>1, <1>5 DEF BadElem, NullRead
<1> QED
  BY <1>4, <1>5

LEMMA FaithfulElem ==
  ASSUME Sound, GotElem
  PROVE  Faithful'
<1>1. /\ pc = "read" /\ ~AtEnd /\ head # <<>> /\ ~Complete /\ Len(got) = Len(Gets) /\ msg' = msg
      /\ damaged' = damaged /\ pc' \in {"read", "done"} /\ id' = id /\ head' = head /\ got' = <<>>
      /\ elems' = Append(elems, got) /\ seen' = seen /\ rbuf' = rbuf /\ parsed' = parsed /\ k' = k
  BY DEF GotElem, text, End
<1>2. ASSUME ~damaged, pc' = "read"
      PROVE  Reading(msg', id', k', head', elems', got', seen', rbuf', parsed')
  <2>1. /\ Text(msg) /\ id = msg.id /\ msg.id # ERROR /\ k \in 1 .. NumParts(msg)
        /\ seen = [i \in 1 .. k - 1 |-> msg.vals[i]] /\ NumParts(msg) \in Nat
    BY <1>1, <1>2, ReadingPart, TextFacts
  <2>2. Progress(msg, k, head, Append(elems, got), <<>>, rbuf, parsed)
    BY <1>1, <1>2, ElemWhole
  <2>3. k \in 1 .. NumParts(msg) + 1 /\ ~(k > NumParts(msg))
    BY <2>1
  <2>4. Reading(msg, id, k, head, Append(elems, got), <<>>, seen, rbuf, parsed)
    BY <2>1, <2>2, <2>3 DEF Reading
  <2> QED
    BY <1>1, <2>4
<1>3. ASSUME ~damaged, pc' = "done" PROVE Ended'
  <2>1. ~BadElem /\ ~NullRead
    BY <1>1, <1>3, ElemTaken
  <2>2. nomem' /\ ret' = "DEVICE_MEMORY"
    BY <1>1, <1>3, <2>1 DEF GotElem, End
  <2> QED
    BY <2>2 DEF Ended
<1> QED
  BY <1>1, <1>2, <1>3, FaithfulRead

-----------------------------------------------------------------------------
(* Whole parts.                                                            *)

LEMMA FaithfulPart ==
  ASSUME Sound, GotPart
  PROVE  Faithful'
<1>1. /\ pc = "read" /\ ~AtEnd /\ Complete /\ msg' = msg /\ damaged' = damaged /\ pc' = pc
      /\ id' = id /\ head' = <<>> /\ got' = got /\ elems' = <<>> /\ rbuf' = rbuf /\ parsed' = parsed /\ k' = k + 1
  BY DEF GotPart, text
<1>2. ASSUME ~damaged
      PROVE  Reading(msg', id', k', head', elems', got', seen', rbuf', parsed')
  <2> DEFINE v == msg.vals[k]
             part == PartOf(msg, k)
             es == ElemItems(part, v)
  <2>1. /\ Text(msg) /\ Suited(msg) /\ id = msg.id /\ msg.id # ERROR /\ k \in 1 .. NumParts(msg) /\ Part = part
        /\ seen = [i \in 1 .. k - 1 |-> msg.vals[i]] /\ NumParts(msg) \in Nat
        /\ head # <<>> /\ Len(elems) = Len(es) /\ Progress(msg, k, head, elems, got, rbuf, parsed)
        /\ parsed \in Nat
    BY <1>1, <1>2, ReadingPart, TextFacts
  <2>2. got = <<>>
    BY <1>1 DEF Sound, Inv, PartOK
  <2>3. PartValue(part, head, elems) = v /\ Left(rbuf, parsed, Behind(msg, k))
    BY <2>1, <2>2, ProgressDone
  <2>4. k \in 0 .. NumParts(msg) /\ k + 1 \in 1 .. NumParts(msg) + 1 /\ (k + 1) - 1 = k /\ k \in Nat
    BY <2>1
  <2>5. /\ k + 1 <= NumParts(msg) => Progress(msg, k + 1, <<>>, <<>>, <<>>, rbuf, parsed)
        /\ k + 1 > NumParts(msg) => parsed = rbuf.len
    BY <2>1, <2>3, <2>4, ReadingFrom
  <2>6. seen' = Append(seen, v)
    <3> DEFINE list == msg.dir = "response" /\ id = MechList
    <3>1. seen' = Append(seen, IF list THEN [v EXCEPT !.longs = mechanism_list_purge(v.longs)] ELSE v)
      BY <2>1, <2>3 DEF GotPart
    <3>2. CASE list
      <4>1. part = "au" /\ mechanism_list_purge(v.longs) = v.longs
        <5>1. DOMAIN Parts(msg.dir, msg.id) = 1 .. NumParts(msg)
          BY <2>1, PartsKnown DEF Text, NumParts
        <5> QED
          BY <2>1, <3>2, <5>1 DEF Suited, PartOf
      <4>2. v \in [ptr : BOOLEAN, num : Words, longs : Seq(CK_ULONG)]
        <5>1. Suits(part, v)
          BY <2>1, SuitedParts DEF PartOf
        <5> QED
          BY <4>1, <5>1 DEF Suits
      <4>3. [v EXCEPT !.longs = v.longs] = v
        BY <4>2
      <4> QED
        BY <3>1, <3>2, <4>1, <4>3
    <3>3. CASE ~list
      BY <3>1, <3>3
    <3> QED
      BY <3>2, <3>3
  <2>7. Append(seen, v) = [i \in 1 .. k |-> msg.vals[i]]
    <3> DEFINE V == {msg.vals[i] : i \in 1 .. NumParts(msg)}
               t == [i \in 1 .. k |-> msg.vals[i]]
    <3>1. seen \in Seq(V) /\ Len(seen) = k - 1 /\ \A i \in 1 .. k - 1 : seen[i] = msg.vals[i]
      <4>1. \A i \in 1 .. k - 1 : msg.vals[i] \in V
        BY <2>1
      <4>2. k - 1 \in Nat
        BY <2>1
      <4> QED
        BY <2>1, <4>1, <4>2
    <3>2. v \in V
      BY <2>1
    <3>3. t \in Seq(V) /\ Len(t) = k /\ \A i \in 1 .. k : t[i] = msg.vals[i]
      <4>1. \A i \in 1 .. k : msg.vals[i] \in V
        BY <2>1
      <4> QED
        BY <2>4, <4>1
    <3> HIDE DEF V, t
    <3> DEFINE a == Append(seen, v)
    <3>4. a \in Seq(V) /\ Len(a) = k /\ \A i \in 1 .. k : a[i] = IF i <= k - 1 THEN seen[i] ELSE v
      BY <2>4, <3>1, <3>2
    <3> HIDE DEF a
    <3>5. ASSUME NEW i \in 1 .. k PROVE a[i] = t[i]
      <4>1. CASE i <= k - 1
        BY <2>4, <3>1, <3>3, <3>4, <4>1
      <4>2. CASE ~(i <= k - 1)
        <5>1. i = k
          BY <2>4, <4>2
        <5> QED
          BY <3>3, <3>4, <4>2, <5>1
      <4> QED
        BY <4>1, <4>2
    <3>6. a = t
      BY <3>3, <3>4, <3>5, SameSeq
    <3> QED
      BY <3>6 DEF a, t
  <2>8. Reading(msg, msg.id, k + 1, <<>>, <<>>, <<>>, [i \in 1 .. k |-> msg.vals[i]], rbuf, parsed)
    BY <2>1, <2>4, <2>5 DEF Reading
  <2> QED
    BY <1>1, <2>1, <2>2, <2>6, <2>7, <2>8
<1> QED
  BY <1>1, <1>2, FaithfulRead

LEMMA FaithfulAll ==
  ASSUME Sound, GotAll
  PROVE  Faithful'
<1>1. /\ pc = "read" /\ AtEnd /\ msg' = msg /\ damaged' = damaged /\ pc' = "done" /\ ret' = "OK"
      /\ id' = id /\ seen' = seen /\ rbuf' = rbuf /\ parsed' = parsed
  BY DEF GotAll, text, reader, End
<1>2. ASSUME ~damaged PROVE Ended'
  <2>1. Text(msg) /\ Reading(msg, id, k, head, elems, got, seen, rbuf, parsed)
    BY <1>1, <1>2 DEF Sound, Faithful, WriteOK
  <2>2. /\ id = msg.id /\ k \in 1 .. NumParts(msg) + 1 /\ seen = [i \in 1 .. k - 1 |-> msg.vals[i]]
        /\ NumParts(msg) \in Nat /\ k > NumParts(msg)
    BY <1>1, <2>1, TextFacts DEF Reading, AtEnd, NumParts
  <2>3. parsed = rbuf.len /\ k - 1 = NumParts(msg)
    BY <2>1, <2>2 DEF Reading
  <2>4. msg.vals = [i \in 1 .. NumParts(msg) |-> msg.vals[i]]
    <3>1. DOMAIN Parts(msg.dir, msg.id) = 1 .. NumParts(msg)
      BY <2>1, PartsKnown DEF Text, NumParts
    <3> QED
      BY <2>1, <3>1, Zenon DEF Text
  <2>5. seen = msg.vals
    BY <2>2, <2>3, <2>4
  <2> QED
    BY <1>1, <2>2, <2>3, <2>5 DEF Ended, Cause
<1> QED
  BY <1>1, <1>2, FaithfulRead

\* All actions together.
LEMMA FaithfulInductive == TextsSuit /\ Sound /\ [Next]_vars => Faithful'
<1> SUFFICES ASSUME TextsSuit, Sound, [Next]_vars PROVE Faithful'
  OBVIOUS
<1>1. CASE UNCHANGED vars
  <2>1. /\ pc' = pc /\ msg' = msg /\ room' = room /\ rbuf' = rbuf /\ k' = k /\ damaged' = damaged /\ id' = id
        /\ parsed' = parsed /\ head' = head /\ elems' = elems /\ got' = got /\ seen' = seen /\ ret' = ret
        /\ nomem' = nomem
    BY <1>1 DEF vars
  <2>2. (pc # "idle" => Suited(msg))' /\ (pc \in Early => seen = <<>> /\ elems = <<>>)'
    BY <2>1 DEF Sound, Faithful, Suited
  <2>3. (~damaged /\ pc = "parse" => Left(rbuf, 0, AllItems(msg)) /\ rbuf.failures = 0)'
    BY <2>1 DEF Sound, Faithful, AllItems
  <2>4. (~damaged /\ pc = "read" => Reading(msg, id, k, head, elems, got, seen, rbuf, parsed))'
    BY <2>1 DEF Sound, Faithful
  <2>5. (~damaged /\ pc = "done" => Ended)'
    BY <2>1 DEF Sound, Faithful, Ended, Cause
  <2> QED
    BY <2>2, <2>3, <2>4, <2>5 DEF Faithful
<1> QED
  BY <1>1, FaithfulPrep, FaithfulWrite, FaithfulReceive, FaithfulRequest,
     FaithfulResponse, FaithfulGet,
     FaithfulHead, FaithfulElem, FaithfulPart, FaithfulAll, Zenon DEF Next

LEMMA FaithfulInvariant == TextsSuit => (Spec => []Sound)
<1> SUFFICES ASSUME TextsSuit PROVE Spec => []Sound
  OBVIOUS
<1>1. Sound /\ [Next]_vars => Sound'
  BY FaithfulInductive, Inductive, WriteInductive DEF Sound
<1>2. Init => Sound
  BY InitInv, WriteInit, FaithfulInit DEF Sound
<1> QED
  BY <1>1, <1>2, PTL DEF Spec

\* A message that arrives as it was sent and is believed has the call id and
\* the values that were written, and nothing is left of it: for every message of
\* values that the C types of both sides hold, what the proto_read_ functions of
\* gck-rpc-dispatch.c and gck-rpc-module.c take out of the buffer is what the
\* proto_write_ functions of the other side put in.
THEOREM MessagesArrive == TextsSuit => (Spec => []Arrives)
<1>1. Sound => Arrives
  BY DEF Sound, Faithful, Ended, Arrives
<1> QED
  BY <1>1, FaithfulInvariant, PTL

\* A message that arrives as it was sent is not refused by gck_rpc_message_parse,
\* by a test of the proto_read_ functions or at its end; without an allocation
\* failure, a call fails only because of an array or a message that is too long
\* (egg_buffer_add_byte_array, read_all) or a result that does not fit.
THEOREM RefusalsHaveCauses == TextsSuit => (Spec => []RefusedForCause)
<1>1. ASSUME Sound, pc = "done", ~damaged, ~nomem, ret = "HOST_MEMORY"
      PROVE  \E i \in DOMAIN Items(msg.dir, msg.id, msg.vals) :
               LET item == Items(msg.dir, msg.id, msg.vals)[i]
               IN  item.op = "array" /\ Len(item.val.bytes) >= TooLong
  <2>1. ~AllShort(AllItems(msg))
    BY <1>1 DEF Sound, WriteOK
  <2>2. AllItems(msg) \in Seq(Additions)
    BY <1>1, SofarAll DEF Sound, WriteOK, AllItems
  <2>3. PICK i \in DOMAIN AllItems(msg) : ~Short(AllItems(msg)[i])
    BY <2>1 DEF AllShort
  <2>4. PICK x : x = AllItems(msg)[i]
    OBVIOUS
  <2>5. x \in Additions /\ x.op = "array" /\ ~(Len(x.val.bytes) < TooLong)
    BY <2>2, <2>3, <2>4 DEF Short
  <2>6. x.val.bytes \in Seq(Bytes)
    BY <2>5 DEF Additions
  <2>7. Len(x.val.bytes) >= TooLong
    BY <2>5, <2>6, Limits
  <2> QED
    BY <2>3, <2>4, <2>5, <2>7 DEF AllItems
<1>2. ASSUME Sound PROVE RefusedForCause
  <2> SUFFICES ASSUME pc = "done", ~damaged, ~nomem PROVE RefusedForCause
    BY DEF RefusedForCause
  <2>1. Cause
    BY <1>2 DEF Sound, Faithful, Ended
  <2>2. CASE ret = "HOST_MEMORY"
    BY <1>1, <1>2, <2>2 DEF RefusedForCause
  <2>3. CASE ret # "HOST_MEMORY"
    BY <2>1, <2>3 DEF RefusedForCause, Cause
  <2> QED
    BY <2>2, <2>3
<1> QED
  BY <1>2, FaithfulInvariant, PTL

-----------------------------------------------------------------------------
(* How long the bytes of items are.                                        *)

\* What is read of a message that may be damaged: a byte is any number here,
\* for flags are added up before they are written.
Loose ==
  [op : {"byte", "word", "long"}, val : Nat] \cup [op : {"array"}, val : Arrays]
ItemSize(x) ==
  CASE x.op = "byte" -> 1 [] x.op = "word" -> WordLen [] x.op = "long" -> LongLen
    [] x.op = "array" -> WordLen + Len(x.val.bytes)
Size(s) == Len(BytesOf(s))

\* Sequences over a larger set.
LEMMA SeqSubset ==
  ASSUME NEW S, NEW T, S \subseteq T
  PROVE  Seq(S) \subseteq Seq(T)
  OBVIOUS

\* The bytes of an item, and how many they are.
LEMMA LooseItem ==
  ASSUME NEW x \in Loose
  PROVE  ItemBytes(x) \in Seq(Nat) /\ Len(ItemBytes(x)) = ItemSize(x) /\ ItemSize(x) \in Nat
<1>0. WordLen \in Nat /\ LongLen = WordLen + WordLen
  BY Arithmetic DEF LongLen
<1>5. Seq(Bytes) \subseteq Seq(Nat)
  BY NoByte, SeqSubset
<1>6. \A a, b \in Seq(Bytes) : a \o b \in Seq(Bytes) /\ Len(a \o b) = Len(a) + Len(b)
  OBVIOUS
<1>1. CASE x.op = "byte" /\ x.val \in Nat
  BY <1>1 DEF ItemBytes, ItemSize
<1>2. CASE x.op = "word" /\ x.val \in Nat
  <2>1. egg_buffer_encode_uint32(x.val) \in Seq(Bytes) /\ Len(egg_buffer_encode_uint32(x.val)) = WordLen
    BY <1>2, Encoded
  <2> QED
    BY <1>0, <1>2, <1>5, <2>1 DEF ItemBytes, ItemSize
<1>3. CASE x.op = "long" /\ x.val \in Nat
  <2>1. x.val \div WordMod \in Int /\ x.val % WordMod \in Int
    BY <1>3, Arithmetic, Remainder
  <2>2. PICK a, b \in Seq(Bytes) : /\ Len(a) = WordLen /\ Len(b) = WordLen
                                   /\ a = egg_buffer_encode_uint32(x.val \div WordMod)
                                   /\ b = egg_buffer_encode_uint32(x.val % WordMod)
    BY <2>1, Encoded
  <2>3. ItemBytes(x) = a \o b /\ ItemSize(x) = LongLen
    BY <1>3, <2>2 DEF ItemBytes, ItemSize
  <2>4. a \o b \in Seq(Nat) /\ Len(a \o b) = WordLen + WordLen
    BY <1>5, <1>6, <2>2
  <2> QED
    BY <1>0, <2>3, <2>4
<1>4. CASE x.op = "array" /\ x.val \in Arrays
  <2>1. x.val.bytes \in Seq(Bytes) /\ Len(x.val.bytes) \in Nat /\ NullLen \in Int /\ x.val.ptr \in BOOLEAN
        /\ (~x.val.ptr => x.val.bytes = <<>>)
    BY <1>4, Arithmetic DEF NullLen, Arrays
  <2>2. PICK a, b \in Seq(Bytes) : /\ Len(a) = WordLen /\ Len(b) = WordLen
                                   /\ a = egg_buffer_encode_uint32(Len(x.val.bytes))
                                   /\ b = egg_buffer_encode_uint32(NullLen)
    BY <2>1, Encoded
  <2>3. /\ ItemBytes(x) = IF x.val.ptr THEN a \o x.val.bytes ELSE b
        /\ ItemSize(x) = WordLen + Len(x.val.bytes)
    BY <1>4, <2>2 DEF ItemBytes, ItemSize
  <2>4. Len(a \o x.val.bytes) = Len(a) + Len(x.val.bytes) /\ a \o x.val.bytes \in Seq(Bytes)
    BY <1>6, <2>1
  <2>5. CASE x.val.ptr
    <3>1. ItemBytes(x) = a \o x.val.bytes /\ a \o x.val.bytes \in Seq(Nat)
      BY <1>5, <2>3, <2>4, <2>5
    <3>2. Len(ItemBytes(x)) = Len(a) + Len(x.val.bytes)
      BY <2>4, <3>1
    <3>3. Len(a) + Len(x.val.bytes) \in Nat /\ Len(a) = WordLen
      BY <1>0, <2>1, <2>2
    <3> QED
      BY <2>3, <3>1, <3>2, <3>3
  <2>6. CASE ~x.val.ptr
    <3>1. Len(x.val.bytes) = 0
      BY <2>1, <2>6
    <3> QED
      BY <1>0, <1>5, <2>2, <2>3, <2>6, <3>1
  <2> QED
    BY <2>5, <2>6
<1> QED
  BY <1>1, <1>2, <1>3, <1>4 DEF Loose

LEMMA LoosePieces ==
  ASSUME NEW s \in Seq(Loose)
  PROVE  /\ Pieces(s) \in Seq(Seq(Nat)) /\ Len(Pieces(s)) = Len(s) /\ BytesOf(s) = FlattenSeq(Pieces(s))
         /\ BytesOf(s) \in Seq(Nat) /\ Size(s) \in Nat
<1>1. \A i \in 1 .. Len(s) : ItemBytes(s[i]) \in Seq(Nat)
  BY LooseItem
<1>2. Pieces(s) \in Seq(Seq(Nat)) /\ Len(Pieces(s)) = Len(s) /\ BytesOf(s) = FlattenSeq(Pieces(s))
  BY <1>1 DEF Pieces, BytesOf, Each
<1>3. BytesOf(s) \in Seq(Nat)
  BY <1>2, FlattenType
<1> QED
  BY <1>2, <1>3 DEF Size

\* Sizes add up.
LEMMA SizeConcat ==
  ASSUME NEW s \in Seq(Loose), NEW t \in Seq(Loose)
  PROVE  s \o t \in Seq(Loose) /\ Size(s \o t) = Size(s) + Size(t)
<1>1. s \o t \in Seq(Loose)
  OBVIOUS
<1>2. Pieces(s \o t) = Pieces(s) \o Pieces(t)
  BY PiecesConcat
<1>3. FlattenSeq(Pieces(s) \o Pieces(t)) = FlattenSeq(Pieces(s)) \o FlattenSeq(Pieces(t))
  BY LoosePieces, FlattenConcat
<1>4. BytesOf(s \o t) = BytesOf(s) \o BytesOf(t)
  BY <1>1, <1>2, <1>3, LoosePieces
<1>5. BytesOf(s) \in Seq(Nat) /\ BytesOf(t) \in Seq(Nat)
  BY LoosePieces
<1> QED
  BY <1>1, <1>4, <1>5 DEF Size

LEMMA SizeEmpty == Size(<<>>) = 0
  BY BytesEmpty DEF Size

LEMMA SizeOne ==
  ASSUME NEW x \in Loose
  PROVE  <<x>> \in Seq(Loose) /\ Size(<<x>>) = ItemSize(x) /\ ItemSize(x) \in Nat
<1>1. Pieces(<<x>>) = <<ItemBytes(x)>>
  BY DEF Pieces
<1>2. ItemBytes(x) \in Seq(Nat) /\ Len(ItemBytes(x)) = ItemSize(x) /\ ItemSize(x) \in Nat
  BY LooseItem
<1>3. FlattenSeq(<<ItemBytes(x)>>) = ItemBytes(x)
  BY <1>2, FlattenOne
<1>5. <<x>> \in Seq(Loose)
  OBVIOUS
<1>4. BytesOf(<<x>>) = FlattenSeq(Pieces(<<x>>))
  BY <1>5, LoosePieces
<1> QED
  BY <1>1, <1>2, <1>3, <1>4, <1>5 DEF Size

\* Sequences whose items have the same lengths are as long as each other.
LEMMA SameSizes ==
  ASSUME NEW s \in Seq(Seq(Loose)), NEW t \in Seq(Seq(Loose)), Len(s) = Len(t),
         \A i \in 1 .. Len(s) : Size(s[i]) = Size(t[i])
  PROVE  Size(FlattenSeq(s)) = Size(FlattenSeq(t))
<1> DEFINE H(n) == \A u, v \in Seq(Seq(Loose)) :
                      Len(u) = n /\ Len(v) = n /\ (\A i \in 1 .. n : Size(u[i]) = Size(v[i]))
                        => Size(FlattenSeq(u)) = Size(FlattenSeq(v))
           P == {n \in Nat : H(n)}
<1>1. H(0)
  <2> SUFFICES ASSUME NEW u \in Seq(Seq(Loose)), NEW v \in Seq(Seq(Loose)), Len(u) = 0,
                      Len(v) = 0
               PROVE  Size(FlattenSeq(u)) = Size(FlattenSeq(v))
    OBVIOUS
  <2>1. u = <<>> /\ v = <<>>
    OBVIOUS
  <2> QED
    BY <2>1
<1>2. ASSUME NEW n \in Nat, H(n) PROVE H(n + 1)
  <2> SUFFICES ASSUME NEW u \in Seq(Seq(Loose)), NEW v \in Seq(Seq(Loose)),
                      Len(u) = n + 1, Len(v) = n + 1,
                      \A i \in 1 .. n + 1 : Size(u[i]) = Size(v[i])
               PROVE  Size(FlattenSeq(u)) = Size(FlattenSeq(v))
    OBVIOUS
  <2> DEFINE a == SubSeq(u, 1, n)
             b == SubSeq(v, 1, n)
             x == u[n + 1]
             y == v[n + 1]
  <2>1. x \in Seq(Loose) /\ a \in Seq(Seq(Loose)) /\ Len(a) = n /\ \A i \in 1 .. n : a[i] = u[i]
    OBVIOUS
  <2>2. y \in Seq(Loose) /\ b \in Seq(Seq(Loose)) /\ Len(b) = n /\ \A i \in 1 .. n : b[i] = v[i]
    OBVIOUS
  <2>3. u = Append(a, x)
    OBVIOUS
  <2>4. v = Append(b, y)
    OBVIOUS
  <2>5. n + 1 \in 1 .. n + 1 /\ \A i \in 1 .. n : i \in 1 .. n + 1
    OBVIOUS
  <2>6. Size(x) = Size(y) /\ \A i \in 1 .. n : Size(u[i]) = Size(v[i])
    BY <2>5
  <2> HIDE DEF a, b, x, y
  <2>7. FlattenSeq(u) = FlattenSeq(a) \o x
    BY <2>1, <2>3, FlattenAppend
  <2>8. FlattenSeq(v) = FlattenSeq(b) \o y
    BY <2>2, <2>4, FlattenAppend
  <2>9. Size(FlattenSeq(a)) = Size(FlattenSeq(b))
    <3>1. \A i \in 1 .. n : Size(a[i]) = Size(b[i])
      BY <2>1, <2>2, <2>6
    <3> QED
      BY ONLY <1>2, <2>1, <2>2, <3>1
  <2>10. FlattenSeq(a) \in Seq(Loose) /\ FlattenSeq(b) \in Seq(Loose)
    BY <2>1, <2>2, FlattenType
  <2>11. /\ Size(FlattenSeq(a) \o x) = Size(FlattenSeq(a)) + Size(x)
         /\ Size(FlattenSeq(b) \o y) = Size(FlattenSeq(b)) + Size(y)
    BY <2>1, <2>2, <2>10, SizeConcat
  <2> QED
    BY <2>6, <2>7, <2>8, <2>9, <2>11
<1> HIDE DEF H
<1>3. 0 \in P /\ \A n \in Nat : n \in P => n + 1 \in P
  BY <1>1, <1>2
<1> HIDE DEF P
<1>4. \A n \in Nat : n \in P
  BY ONLY <1>3, Induction
<1>5. Len(s) \in P
  BY <1>4
<1> QED
  BY <1>5 DEF H, P

-----------------------------------------------------------------------------
(* A read goes on behind what it has read.                                 *)

\* A successful read moves the offset by the size of what was read.
LEMMA WordNext ==
  ASSUME NEW b, BufOK(b), NEW off \in 0 .. b.len, egg_buffer_get_uint32(b, off).ok
  PROVE  egg_buffer_get_uint32(b, off).next = off + WordLen
  BY DEF egg_buffer_get_uint32, Got, Missed

LEMMA GetNextIs ==
  ASSUME NEW b, BufOK(b), NEW off \in 0 .. b.len, NEW op \in Ops, Get(b, off, op).ok
  PROVE  /\ [op |-> op, val |-> Get(b, off, op).val] \in Loose
         /\ Get(b, off, op).next = off + ItemSize([op |-> op, val |-> Get(b, off, op).val])
<1> DEFINE g == Get(b, off, op)
           x == [op |-> op, val |-> g.val]
<1>1. g.val \in ValuesOf(op)
  BY GetOK DEF ReadOK
<1>2. x \in Loose
  BY <1>1 DEF ValuesOf, Loose, Ops
<1>4. b.len \in Nat
  BY BufFields
<1>0. b.len \in Nat /\ off \in Nat /\ WordLen \in Nat
  BY <1>4, Arithmetic
<1>3. g.next = off + ItemSize(x)
  <2>1. CASE op = "byte"
    BY <2>1 DEF Get, egg_buffer_get_byte, Got, Missed, ItemSize
  <2>2. CASE op = "word"
    BY <2>2, WordNext DEF Get, ItemSize
  <2>3. CASE op = "long"
    <3> DEFINE hi == egg_buffer_get_uint32(b, off)
               lo == egg_buffer_get_uint32(hi.buf, hi.next)
    <3>1. ReadOK(hi, b, Words)
      BY WordGot
    <3>2. BufOK(hi.buf) /\ hi.next \in 0 .. hi.buf.len
      BY <3>1 DEF ReadOK
    <3>3. g = IF ~hi.ok THEN hi ELSE IF ~lo.ok THEN Missed(lo.buf, off)
                                     ELSE Got(lo.buf, hi.val * WordMod + lo.val, lo.next)
      BY <2>3 DEF Get, egg_buffer_get_uint64
    <3> HIDE DEF hi, lo, g
    <3>4. hi.ok /\ lo.ok /\ g.next = lo.next
      BY <3>3 DEF g, Missed, Got
    <3>5. hi.next = off + WordLen /\ lo.next = hi.next + WordLen
      BY <3>2, <3>4, WordNext DEF hi, lo
    <3>6. ItemSize(x) = LongLen
      BY <2>3 DEF ItemSize
    <3> QED
      BY <1>0, <3>4, <3>5, <3>6 DEF LongLen
  <2>4. CASE op = "array"
    <3> DEFINE n == egg_buffer_get_uint32(b, off)
    <3>1. ReadOK(n, b, Words)
      BY WordGot
    <3>2. /\ BufOK(n.buf) /\ n.next \in 0 .. n.buf.len /\ n.ok \in BOOLEAN /\ (n.ok => n.val \in Nat)
          /\ n.next \in Nat
      BY <1>0, <3>1, Arithmetic DEF ReadOK, Words
    <3>3. g = egg_buffer_get_byte_array(b, off)
      BY <2>4 DEF Get
    <3>4. /\ ~n.ok => g = n
          /\ n.ok /\ n.val = NullLen => g = Got(n.buf, [ptr |-> FALSE, bytes |-> <<>>], n.next)
          /\ n.ok /\ n.val # NullLen /\ (n.val >= TooLong \/ Beyond(n.buf, n.next, n.val))
               => g = Missed(Failed(n.buf), off)
          /\ n.ok /\ n.val # NullLen /\ ~(n.val >= TooLong \/ Beyond(n.buf, n.next, n.val))
               => g = Got(Loaded(n.buf, n.next, n.val),
                          [ptr |-> TRUE, bytes |-> Load(n.buf, n.next, n.val)], n.next + n.val)
      BY <3>3 DEF egg_buffer_get_byte_array
    <3>5. ItemSize(x) = WordLen + Len(g.val.bytes)
      BY <2>4 DEF ItemSize
    <3>6. n.ok => n.next = off + WordLen
      BY WordNext
    <3> HIDE DEF n, g, x
    <3>7. g.ok
      BY DEF g
    <3>8. n.ok
      BY <3>2, <3>4, <3>7
    <3>9. CASE n.val = NullLen
      BY <1>0, <3>4, <3>5, <3>6, <3>8, <3>9 DEF Got
    <3>10. CASE n.val # NullLen
      <4>1. ~(n.val >= TooLong \/ Beyond(n.buf, n.next, n.val))
        BY <3>4, <3>7, <3>8, <3>10 DEF Missed
      <4>2. g.val.bytes = Load(n.buf, n.next, n.val) /\ g.next = n.next + n.val
        BY <3>4, <3>8, <3>10, <4>1 DEF Got
      <4>3. Load(n.buf, n.next, n.val) \in [1 .. n.val -> Bytes] /\ n.val \in Nat
        BY <3>2, <3>8, <4>1, Inside
      <4>4. Len(g.val.bytes) = n.val
        BY <4>2, <4>3
      <4> QED
        BY <1>0, <3>2, <3>5, <3>6, <3>8, <4>2, <4>3, <4>4
    <3> QED
      BY <3>9, <3>10
  <2> QED
    BY <2>1, <2>2, <2>3, <2>4 DEF Ops
<1> QED
  BY <1>2, <1>3

-----------------------------------------------------------------------------
(* The items that were read.                                               *)

ReadItems(part, h, g) == [i \in 1 .. Len(g) |-> [op |-> OpsOf(part, h, g)[i], val |-> g[i]]]
\* g is all there is to read: a head if h is empty, an element otherwise.
Finished(part, h, g) ==
  /\ part \in DOMAIN Letters /\ (h # <<>> => HasElems(part))
  /\ g \in Seq(Values) /\ Typed(part, h, g) /\ Len(g) = Len(OpsOf(part, h, g))

\* The items that were read, as items to be written.
LEMMA ReadItemsType ==
  ASSUME NEW part \in DOMAIN Letters, NEW h, h # <<>> => HasElems(part),
         NEW g \in Seq(Values),
         Typed(part, h, g), Len(g) <= Len(OpsOf(part, h, g))
  PROVE  ReadItems(part, h, g) \in Seq(Loose) /\ Len(ReadItems(part, h, g)) = Len(g)
<1>1. OpsOf(part, h, g) \in Seq(Ops)
  BY OpsKnown
<1>2. ASSUME NEW i \in 1 .. Len(g)
      PROVE  [op |-> OpsOf(part, h, g)[i], val |-> g[i]] \in Loose
  <2>1. OpsOf(part, h, g)[i] \in Ops /\ g[i] \in ValuesOf(OpsOf(part, h, g)[i])
    BY <1>1 DEF Typed
  <2> QED
    BY <2>1 DEF Ops, ValuesOf, Loose
<1> QED
  BY <1>2 DEF ReadItems

LEMMA ReadNothing ==
  ASSUME NEW part, NEW h
  PROVE  ReadItems(part, h, <<>>) = <<>>
  BY DEF ReadItems

\* One more item has been read.
LEMMA ReadMore ==
  ASSUME NEW part \in DOMAIN Letters, NEW h, h # <<>> => HasElems(part),
         NEW g \in Seq(Values),
         Typed(part, h, g), NEW x \in Values, Len(g) < Len(OpsOf(part, h, g)),
         x \in ValuesOf(OpsOf(part, h, g)[Len(g) + 1])
  PROVE  /\ ReadItems(part, h, Append(g, x)) \in Seq(Loose)
         /\ Size(ReadItems(part, h, Append(g, x)))
              = Size(ReadItems(part, h, g)) + ItemSize([op |-> OpsOf(part, h, g)[Len(g) + 1], val |-> x])
<1> DEFINE op == OpsOf(part, h, g)[Len(g) + 1]
           y  == [op |-> op, val |-> x]
           a  == Append(g, x)
           r  == ReadItems(part, h, g)
           s  == ReadItems(part, h, a)
<1>1. OpsOf(part, h, g) \in Seq(Ops) /\ Len(g) \in Nat
  BY OpsKnown
<1>2. op \in Ops
  BY <1>1
<1>3. y \in Loose
  BY <1>2 DEF Ops, ValuesOf, Loose
<1>4. r \in Seq(Loose) /\ Len(r) = Len(g)
  BY <1>1, ReadItemsType
<1>5. \A i \in 1 .. Len(g) + 1 : OpsOf(part, h, a)[i] = OpsOf(part, h, g)[i]
  BY OpsStable
<1>6. Len(a) = Len(g) + 1 /\ a[Len(g) + 1] = x /\ \A i \in 1 .. Len(g) : a[i] = g[i]
  OBVIOUS
<1>7. /\ s = [i \in 1 .. Len(g) + 1 |-> [op |-> OpsOf(part, h, a)[i], val |-> a[i]]]
      /\ \A i \in 1 .. Len(g) : r[i] = [op |-> OpsOf(part, h, g)[i], val |-> g[i]]
  BY <1>6 DEF ReadItems
<1> HIDE DEF a, r, s, y, op
<1>8. ASSUME NEW i \in 1 .. Len(g) + 1 PROVE s[i] = IF i <= Len(g) THEN r[i] ELSE y
  <2>1. s[i] = [op |-> OpsOf(part, h, g)[i], val |-> a[i]]
    BY <1>5, <1>7
  <2>2. CASE i <= Len(g)
    <3>1. i \in 1 .. Len(g)
      BY <1>1, <2>2
    <3> QED
      BY <1>6, <1>7, <2>1, <3>1
  <2>3. CASE ~(i <= Len(g))
    <3>1. i = Len(g) + 1
      BY <1>1, <2>3
    <3> QED
      BY <1>6, <2>1, <2>3, <3>1 DEF y, op
  <2> QED
    BY <2>2, <2>3
<1>9. s \in Seq(Loose) /\ Len(s) = Len(g) + 1
  <2>1. \A i \in 1 .. Len(g) + 1 : s[i] \in Loose
    <3> TAKE i \in 1 .. Len(g) + 1
    <3>1. i <= Len(g) => i \in 1 .. Len(r)
      BY <1>1, <1>4
    <3>2. i <= Len(g) => r[i] \in Loose
      BY <1>4, <3>1
    <3> QED
      BY <1>3, <1>8, <3>2
  <2>2. s = [i \in 1 .. Len(g) + 1 |-> s[i]]
    BY <1>7
  <2> QED
    BY <1>1, <2>1, <2>2
<1> DEFINE t == <<y>>
<1>10. t \in Seq(Loose) /\ Len(t) = 1 /\ t[1] = y
  BY <1>3
<1>14. Size(t) = ItemSize(y)
  BY <1>3, SizeOne
<1> HIDE DEF t
<1>11. Len(s) = Len(r) + Len(t) /\ \A i \in 1 .. Len(s) : s[i] = IF i <= Len(r) THEN r[i] ELSE t[i - Len(r)]
  <2>1. \A i \in 1 .. Len(g) + 1 : ~(i <= Len(g)) => i - Len(g) = 1
    BY <1>1
  <2> QED
    BY <1>4, <1>8, <1>9, <1>10, <2>1
<1>12. s = r \o t
  BY ONLY <1>4, <1>9, <1>10, <1>11, ConcatIs
<1>13. Size(r \o t) = Size(r) + Size(t)
  BY <1>4, <1>10, SizeConcat
<1> QED
  BY <1>9, <1>12, <1>13, <1>14 DEF s, r, a, y, op

\* Sizes of short sequences.
LEMMA Size2 ==
  ASSUME NEW x \in Loose, NEW y \in Loose
  PROVE  <<x, y>> \in Seq(Loose) /\ Size(<<x, y>>) = ItemSize(x) + ItemSize(y)
<1>1. <<x>> \o <<y>> = <<x, y>>
  BY Joined2
<1>2. <<x>> \in Seq(Loose) /\ <<y>> \in Seq(Loose) /\ Size(<<x>>) = ItemSize(x) /\ Size(<<y>>) = ItemSize(y)
  BY SizeOne
<1>3. Size(<<x>> \o <<y>>) = Size(<<x>>) + Size(<<y>>) /\ <<x>> \o <<y>> \in Seq(Loose)
  BY <1>2, SizeConcat
<1> QED
  BY <1>1, <1>2, <1>3

LEMMA Size4 ==
  ASSUME NEW x \in Loose, NEW y \in Loose, NEW z \in Loose, NEW w \in Loose
  PROVE  Size(<<x, y, z, w>>) = ItemSize(x) + ItemSize(y) + ItemSize(z) + ItemSize(w)
<1>1. <<x>> \o (<<y>> \o <<z>> \o <<w>>) = <<x, y, z, w>>
  BY Joined4
<1>2. \A v \in Loose : <<v>> \in Seq(Loose) /\ Size(<<v>>) = ItemSize(v) /\ ItemSize(v) \in Nat
  BY SizeOne
<1> DEFINE a == <<y>> \o <<z>>
           b == a \o <<w>>
<1>3. a \in Seq(Loose) /\ Size(a) = ItemSize(y) + ItemSize(z)
  BY <1>2, SizeConcat
<1> HIDE DEF a
<1>4. b \in Seq(Loose) /\ Size(b) = ItemSize(y) + ItemSize(z) + ItemSize(w)
  BY <1>2, <1>3, SizeConcat
<1> HIDE DEF b
<1>5. Size(<<x>> \o b) = Size(<<x>>) + Size(b)
  <2>1. <<x>> \in Seq(Loose)
    BY <1>2
  <2> QED
    BY <1>4, <2>1, SizeConcat
<1>7. /\ ItemSize(x) \in Nat /\ ItemSize(y) \in Nat /\ ItemSize(z) \in Nat /\ ItemSize(w) \in Nat
      /\ Size(<<x>>) = ItemSize(x)
  BY <1>2
<1>6. Size(<<x>> \o b) = ItemSize(x) + ItemSize(y) + ItemSize(z) + ItemSize(w)
  BY <1>4, <1>5, <1>7
<1> QED
  BY <1>1, <1>6 DEF a, b

\* Sizes of what was read: one, two and four items.
LEMMA ReadSize1 ==
  ASSUME NEW part, NEW h, NEW g, Finished(part, h, g), NEW a \in Ops,
         OpsOf(part, h, g) = <<a>>
  PROVE  /\ Len(g) = 1 /\ g[1] \in ValuesOf(a)
         /\ Size(ReadItems(part, h, g)) = ItemSize([op |-> a, val |-> g[1]])
<1>1. Len(g) = 1 /\ g[1] \in ValuesOf(a)
  BY DEF Finished, Typed
<1>2. [op |-> a, val |-> g[1]] \in Loose
  BY <1>1 DEF Ops, ValuesOf, Loose
<1>3. ReadItems(part, h, g) = <<[op |-> a, val |-> g[1]]>>
  BY <1>1 DEF ReadItems
<1> QED
  BY <1>1, <1>2, <1>3, SizeOne

LEMMA ReadSize2 ==
  ASSUME NEW part, NEW h, NEW g, Finished(part, h, g), NEW a \in Ops, NEW b \in Ops,
         OpsOf(part, h, g) = <<a, b>>
  PROVE  /\ Len(g) = 2 /\ g[1] \in ValuesOf(a) /\ g[2] \in ValuesOf(b)
         /\ Size(ReadItems(part, h, g)) = ItemSize([op |-> a, val |-> g[1]]) + ItemSize([op |-> b, val |-> g[2]])
<1>1. Len(g) = 2 /\ g[1] \in ValuesOf(a) /\ g[2] \in ValuesOf(b)
  BY DEF Finished, Typed
<1> DEFINE x == [op |-> a, val |-> g[1]]
           y == [op |-> b, val |-> g[2]]
           f == ReadItems(part, h, g)
           t == <<x, y>>
<1>2. x \in Loose /\ y \in Loose
  BY <1>1 DEF Ops, ValuesOf, Loose
<1>3. f = [i \in 1 .. 2 |-> [op |-> <<a, b>>[i], val |-> g[i]]] /\ f \in Seq(Loose) /\ Len(f) = 2
  <2>1. f \in Seq(Loose) /\ Len(f) = 2
    BY <1>1, ReadItemsType DEF Finished
  <2> QED
    BY <1>1, <2>1 DEF ReadItems
<1>4. f[1] = x /\ f[2] = y
  BY <1>3
<1>5. t \in Seq(Loose) /\ Len(t) = 2 /\ t[1] = x /\ t[2] = y
  BY <1>2
<1>6. Size(t) = ItemSize(x) + ItemSize(y)
  BY <1>2, Size2
<1> HIDE DEF x, y, f, t
<1>7. \A i \in 1 .. 2 : i = 1 \/ i = 2
  OBVIOUS
<1>8. f = t
  BY <1>3, <1>4, <1>5, <1>7, SameSeq
<1> QED
  BY <1>1, <1>6, <1>8 DEF x, y, f

LEMMA ReadSize4 ==
  ASSUME NEW part, NEW h, NEW g, Finished(part, h, g), NEW a \in Ops, NEW b \in Ops,
         NEW c \in Ops,
         NEW d \in Ops, OpsOf(part, h, g) = <<a, b, c, d>>
  PROVE  /\ Len(g) = 4 /\ g[1] \in ValuesOf(a) /\ g[2] \in ValuesOf(b) /\ g[3] \in ValuesOf(c)
         /\ g[4] \in ValuesOf(d)
         /\ Size(ReadItems(part, h, g))
              = ItemSize([op |-> a, val |-> g[1]]) + ItemSize([op |-> b, val |-> g[2]])
                  + ItemSize([op |-> c, val |-> g[3]]) + ItemSize([op |-> d, val |-> g[4]])
<1>1. Len(g) = 4 /\ g[1] \in ValuesOf(a) /\ g[2] \in ValuesOf(b) /\ g[3] \in ValuesOf(c)
      /\ g[4] \in ValuesOf(d)
  BY DEF Finished, Typed
<1> DEFINE x == [op |-> a, val |-> g[1]]
           y == [op |-> b, val |-> g[2]]
           z == [op |-> c, val |-> g[3]]
           w == [op |-> d, val |-> g[4]]
           f == ReadItems(part, h, g)
           t == <<x, y, z, w>>
<1>2. x \in Loose /\ y \in Loose /\ z \in Loose /\ w \in Loose
  BY <1>1 DEF Ops, ValuesOf, Loose
<1>3. f = [i \in 1 .. 4 |-> [op |-> <<a, b, c, d>>[i], val |-> g[i]]] /\ f \in Seq(Loose) /\ Len(f) = 4
  <2>1. f \in Seq(Loose) /\ Len(f) = 4
    BY <1>1, ReadItemsType DEF Finished
  <2> QED
    BY <1>1, <2>1 DEF ReadItems
<1>4. f[1] = x /\ f[2] = y /\ f[3] = z /\ f[4] = w
  BY <1>3
<1>6. Size(t) = ItemSize(x) + ItemSize(y) + ItemSize(z) + ItemSize(w)
  BY <1>2, Size4
<1> HIDE DEF x, y, z, w, f
<1>5. t \in Seq(Loose) /\ Len(t) = 4 /\ t[1] = x /\ t[2] = y /\ t[3] = z /\ t[4] = w
  BY <1>2
<1> HIDE DEF t
<1>7. \A i \in 1 .. 4 : i = 1 \/ i = 2 \/ i = 3 \/ i = 4
  OBVIOUS
<1>8. f = t
  BY <1>3, <1>4, <1>5, <1>7, SameSeq
<1> QED
  BY <1>1, <1>6, <1>8 DEF x, y, z, w, f

-----------------------------------------------------------------------------
(* The items that are written.                                             *)

\* Sizes of what is written.
LEMMA WrittenSizes ==
  /\ \A x \in Nat : Byte(x) \in Seq(Loose) /\ Size(Byte(x)) = 1
  /\ \A x \in Nat : Word(x) \in Seq(Loose) /\ Size(Word(x)) = WordLen
  /\ \A x \in Nat : Long(x) \in Seq(Loose) /\ Size(Long(x)) = LongLen
  /\ \A p \in BOOLEAN, s \in Seq(Bytes) : (~p => s = <<>>) =>
       Array(p, s) \in Seq(Loose) /\ Size(Array(p, s)) = WordLen + Len(s)
<1>1. ASSUME NEW x \in Nat PROVE Byte(x) \in Seq(Loose) /\ Size(Byte(x)) = 1
  <2> DEFINE y == [op |-> "byte", val |-> x]
  <2>1. y \in Loose /\ ItemSize(y) = 1
    BY DEF Loose, ItemSize
  <2> HIDE DEF y
  <2>2. <<y>> \in Seq(Loose) /\ Size(<<y>>) = 1
    BY <2>1, SizeOne
  <2> QED
    BY <2>2 DEF y, Byte
<1>2. ASSUME NEW x \in Nat PROVE Word(x) \in Seq(Loose) /\ Size(Word(x)) = WordLen
  <2> DEFINE y == [op |-> "word", val |-> x]
  <2>1. y \in Loose /\ ItemSize(y) = WordLen
    BY DEF Loose, ItemSize
  <2> HIDE DEF y
  <2>2. <<y>> \in Seq(Loose) /\ Size(<<y>>) = WordLen
    BY <2>1, SizeOne
  <2> QED
    BY <2>2 DEF y, Word
<1>3. ASSUME NEW x \in Nat PROVE Long(x) \in Seq(Loose) /\ Size(Long(x)) = LongLen
  <2> DEFINE y == [op |-> "long", val |-> x]
  <2>1. y \in Loose /\ ItemSize(y) = LongLen
    BY DEF Loose, ItemSize
  <2> HIDE DEF y
  <2>2. <<y>> \in Seq(Loose) /\ Size(<<y>>) = LongLen
    BY <2>1, SizeOne
  <2> QED
    BY <2>2 DEF y, Long
<1>4. ASSUME NEW p \in BOOLEAN, NEW s \in Seq(Bytes), ~p => s = <<>>
      PROVE  Array(p, s) \in Seq(Loose) /\ Size(Array(p, s)) = WordLen + Len(s)
  <2> DEFINE v == [ptr |-> p, bytes |-> s]
             y == [op |-> "array", val |-> v]
  <2>1. v \in Arrays /\ v.bytes = s
    BY <1>4 DEF Arrays
  <2> HIDE DEF v
  <2>2. y \in Loose /\ ItemSize(y) = WordLen + Len(s)
    BY <2>1 DEF Loose, ItemSize
  <2> HIDE DEF y
  <2>3. <<y>> \in Seq(Loose) /\ Size(<<y>>) = WordLen + Len(s)
    BY <2>2, SizeOne
  <2> QED
    BY <2>3 DEF y, v, Array
<1> QED
  BY <1>1, <1>2, <1>3, <1>4

-----------------------------------------------------------------------------
(* A part that was read is as long as one that is written with its value.  *)

\* An attribute with a value has as many bytes as it says.
AttrWhole(g) == Len(g) = 4 /\ g[4].ptr => Len(g[4].bytes) = g[3]
\* The head h and the elements e of a part have been read.
PartRead(part, h, e) ==
  /\ Finished(part, <<>>, h) /\ h # <<>> /\ e \in Seq(Seq(Values))
  /\ \A i \in 1 .. Len(e) : Finished(part, h, e[i]) /\ (part = "aA" => AttrWhole(e[i]))
ElemsRead(part, h, e) == FlattenSeq([i \in 1 .. Len(e) |-> ReadItems(part, h, e[i])])
HeadSize(part, h) == Size(ReadItems(part, <<>>, h))

\* The value is written with n bytes.
Takes(part, v, n) == write_part(part, v) \in Seq(Loose) /\ Size(write_part(part, v)) = n

LEMMA AsUlongNat ==
  ASSUME NEW n \in Nat
  PROVE  AsUlong(n) \in Nat
<1>1. Widths["reader"] \in {WordLen, LongLen} /\ Widths["reader"] \in 0 .. LongLen + 1
  BY MessageAssumption, PowerStep
<1>2. Base ^ Widths["reader"] \in Nat /\ Base ^ Widths["reader"] > 0
  BY <1>1, PowersPositive
<1> QED
  BY <1>2, Remainder DEF AsUlong

LEMMA HeadFinished ==
  ASSUME NEW part, NEW h, Finished(part, <<>>, h)
  PROVE  part \in DOMAIN Letters /\ OpsOf(part, <<>>, h) = HeadGets(part, h)
  BY DEF Finished, OpsOf

\* For each kind of part: the value made of what was read takes as many bytes
\* to write as were read, whatever the bytes were.
LEMMA SimpleTakes ==
  ASSUME NEW part \in {"y", "u", "fu", "s"}, NEW h, NEW e, Finished(part, <<>>, h)
  PROVE  Takes(part, PartValue(part, h, e), HeadSize(part, h))
<1>0. "byte" \in Ops /\ "word" \in Ops /\ "long" \in Ops /\ "array" \in Ops
  BY DEF Ops
<1>1. CASE part = "y"
  <2>1. OpsOf(part, <<>>, h) = <<"byte">>
    BY <1>1 DEF OpsOf, HeadGets
  <2>2. h[1] \in Nat /\ HeadSize(part, h) = 1
    BY <1>0, <2>1, ReadSize1 DEF ValuesOf, ItemSize, HeadSize
  <2>3. write_part(part, PartValue(part, h, e)) = Byte(h[1])
    BY <1>1 DEF write_part, PartValue
  <2> QED
    BY <2>2, <2>3, WrittenSizes DEF Takes
<1>2. CASE part = "u"
  <2>1. OpsOf(part, <<>>, h) = <<"long">>
    BY <1>2 DEF OpsOf, HeadGets
  <2>2. h[1] \in Nat /\ HeadSize(part, h) = LongLen
    BY <1>0, <2>1, ReadSize1 DEF ValuesOf, ItemSize, HeadSize
  <2>3. write_part(part, PartValue(part, h, e)) = Long(AsUlong(h[1]))
    BY <1>2 DEF write_part, PartValue
  <2>4. AsUlong(h[1]) \in Nat
    BY <2>2, AsUlongNat
  <2> QED
    BY <2>2, <2>3, <2>4, WrittenSizes DEF Takes
<1>3. CASE part = "fu"
  <2>1. OpsOf(part, <<>>, h) = <<"word">>
    BY <1>3 DEF OpsOf, HeadGets
  <2>2. h[1] \in Nat /\ HeadSize(part, h) = WordLen
    BY <1>0, <2>1, ReadSize1 DEF ValuesOf, ItemSize, HeadSize
  <2>3. write_part(part, PartValue(part, h, e)) = Word(h[1])
    BY <1>3 DEF write_part, PartValue
  <2> QED
    BY <2>2, <2>3, WrittenSizes DEF Takes
<1>4. CASE part = "s"
  <2>1. OpsOf(part, <<>>, h) = <<"array">>
    BY <1>4 DEF OpsOf, HeadGets
  <2>2. h[1] \in Arrays /\ HeadSize(part, h) = WordLen + Len(h[1].bytes)
    BY <1>0, <2>1, ReadSize1 DEF ValuesOf, ItemSize, HeadSize
  <2>3. write_part(part, PartValue(part, h, e)) = Array(TRUE, h[1].bytes)
    BY <1>4 DEF write_part, PartValue
  <2>4. h[1].bytes \in Seq(Bytes)
    BY <2>2 DEF Arrays
  <2> QED
    BY <2>2, <2>3, <2>4, WrittenSizes DEF Takes
<1> QED
  BY <1>1, <1>2, <1>3, <1>4

LEMMA PairTakes ==
  ASSUME NEW part \in {"v", "M", "fy", "ay"}, NEW h, NEW e, Finished(part, <<>>, h)
  PROVE  Takes(part, PartValue(part, h, e), HeadSize(part, h))
<1>0. "byte" \in Ops /\ "word" \in Ops /\ "long" \in Ops /\ "array" \in Ops /\ WordLen \in Nat
  BY Arithmetic DEF Ops
<1>1. CASE part = "v"
  <2>1. OpsOf(part, <<>>, h) = <<"byte", "byte">>
    BY <1>1 DEF OpsOf, HeadGets
  <2>2. h[1] \in Nat /\ h[2] \in Nat /\ HeadSize(part, h) = 1 + 1
    BY <1>0, <2>1, ReadSize2 DEF ValuesOf, ItemSize, HeadSize
  <2>3. write_part(part, PartValue(part, h, e)) = Byte(h[1]) \o Byte(h[2])
    BY <1>1 DEF write_part, PartValue
  <2>4. /\ Byte(h[1]) \in Seq(Loose) /\ Size(Byte(h[1])) = 1
        /\ Byte(h[2]) \in Seq(Loose) /\ Size(Byte(h[2])) = 1
    BY <2>2, WrittenSizes
  <2> QED
    BY <2>2, <2>3, <2>4, SizeConcat DEF Takes
<1>2. CASE part = "M"
  <2>1. OpsOf(part, <<>>, h) = <<"word", "array">>
    BY <1>2 DEF OpsOf, HeadGets
  <2>2. h[1] \in Nat /\ h[2] \in Arrays /\ HeadSize(part, h) = WordLen + (WordLen + Len(h[2].bytes))
    BY <1>0, <2>1, ReadSize2 DEF ValuesOf, ItemSize, HeadSize
  <2>3. write_part(part, PartValue(part, h, e)) = Word(h[1]) \o Array(h[2].ptr, h[2].bytes)
    BY <1>2 DEF write_part, PartValue
  <2>4. h[2].ptr \in BOOLEAN /\ h[2].bytes \in Seq(Bytes) /\ (~h[2].ptr => h[2].bytes = <<>>)
    BY <2>2 DEF Arrays
  <2>5. /\ Word(h[1]) \in Seq(Loose) /\ Size(Word(h[1])) = WordLen
        /\ Array(h[2].ptr, h[2].bytes) \in Seq(Loose)
        /\ Size(Array(h[2].ptr, h[2].bytes)) = WordLen + Len(h[2].bytes)
    BY <2>2, <2>4, WrittenSizes
  <2> QED
    BY <2>2, <2>3, <2>5, SizeConcat DEF Takes
<1>3. CASE part = "fy"
  <2> DEFINE v == PartValue(part, h, e)
             f == (IF v.data THEN 0 ELSE 1) + (IF v.count THEN 0 ELSE 2)
             n == IF v.count THEN v.num ELSE 0
  <2>1. OpsOf(part, <<>>, h) = <<"byte", "word">>
    BY <1>3 DEF OpsOf, HeadGets
  <2>2. h[1] \in Nat /\ h[2] \in Nat /\ HeadSize(part, h) = 1 + WordLen
    BY <1>0, <2>1, ReadSize2 DEF ValuesOf, ItemSize, HeadSize
  <2>3. write_part(part, v) = Byte(f) \o Word(n)
    BY <1>3 DEF write_part
  <2>4. v.num = h[2]
    BY <1>3 DEF PartValue
  <2>5. f \in Nat /\ n \in Nat
    BY <2>2, <2>4
  <2> HIDE DEF f, n, v
  <2>6. /\ Byte(f) \in Seq(Loose) /\ Size(Byte(f)) = 1
        /\ Word(n) \in Seq(Loose) /\ Size(Word(n)) = WordLen
    BY <2>5, WrittenSizes
  <2>7. Takes(part, v, HeadSize(part, h))
    BY <2>2, <2>3, <2>6, SizeConcat DEF Takes
  <2> QED
    BY <2>7 DEF v
<1>4. CASE part = "ay" /\ h[1] = 0
  <2>1. h # <<>> /\ OpsOf(part, <<>>, h) = <<"byte", "word">>
    <3>1. h \in Seq(Values) /\ Len(h) = Len(HeadGets(part, h))
      BY HeadFinished DEF Finished
    <3>2. Len(HeadGets(part, h)) = 2
      BY <1>4 DEF HeadGets
    <3>3. h # <<>>
      BY <3>1, <3>2
    <3> QED
      BY <1>4, <3>3 DEF OpsOf, HeadGets
  <2>2. h[1] \in Nat /\ h[2] \in Nat /\ HeadSize(part, h) = 1 + WordLen
    BY <1>0, <2>1, ReadSize2 DEF ValuesOf, ItemSize, HeadSize
  <2>3. write_part(part, PartValue(part, h, e)) = Byte(0) \o Word(h[2])
    BY <1>4 DEF write_part, PartValue, write_byte_array
  <2>4. /\ Byte(0) \in Seq(Loose) /\ Size(Byte(0)) = 1
        /\ Word(h[2]) \in Seq(Loose) /\ Size(Word(h[2])) = WordLen
    BY <2>2, WrittenSizes
  <2> QED
    BY <2>2, <2>3, <2>4, SizeConcat DEF Takes
<1>5. CASE part = "ay" /\ h[1] # 0
  <2>1. OpsOf(part, <<>>, h) = <<"byte", "array">>
    BY <1>5 DEF OpsOf, HeadGets
  <2>2. h[1] \in Nat /\ h[2] \in Arrays /\ HeadSize(part, h) = 1 + (WordLen + Len(h[2].bytes))
    BY <1>0, <2>1, ReadSize2 DEF ValuesOf, ItemSize, HeadSize
  <2>3. h[2].ptr \in BOOLEAN /\ h[2].bytes \in Seq(Bytes) /\ (~h[2].ptr => h[2].bytes = <<>>)
    BY <2>2 DEF Arrays
  <2>4. Byte(0) \in Seq(Loose) /\ Size(Byte(0)) = 1 /\ Byte(1) \in Seq(Loose) /\ Size(Byte(1)) = 1
    BY WrittenSizes
  <2>5. PartValue(part, h, e) = [ptr |-> h[2].ptr, num |-> Len(h[2].bytes), bytes |-> h[2].bytes]
    BY <1>5 DEF PartValue
  <2>8. /\ PartValue(part, h, e).ptr = h[2].ptr /\ PartValue(part, h, e).num = Len(h[2].bytes)
        /\ PartValue(part, h, e).bytes = h[2].bytes
    BY <2>5
  <2>9. write_part(part, PartValue(part, h, e)) = IF h[2].ptr THEN Byte(1) \o Array(TRUE, h[2].bytes)
                                                 ELSE Byte(0) \o Word(Len(h[2].bytes))
    BY <1>5, <2>8 DEF write_part, write_byte_array
  <2>6. CASE h[2].ptr
    <3>1. write_part(part, PartValue(part, h, e)) = Byte(1) \o Array(TRUE, h[2].bytes)
      BY <2>6, <2>9
    <3>2. /\ Array(TRUE, h[2].bytes) \in Seq(Loose)
          /\ Size(Array(TRUE, h[2].bytes)) = WordLen + Len(h[2].bytes)
      BY <2>3, WrittenSizes
    <3> QED
      BY <2>2, <2>4, <3>1, <3>2, SizeConcat DEF Takes
  <2>7. CASE ~h[2].ptr
    <3>1. write_part(part, PartValue(part, h, e)) = Byte(0) \o Word(Len(h[2].bytes))
      BY <2>7, <2>9
    <3>2. Len(h[2].bytes) = 0 /\ 0 \in Nat
      BY <2>3, <2>7
    <3>3. Word(0) \in Seq(Loose) /\ Size(Word(0)) = WordLen
      BY WrittenSizes
    <3>4. HeadSize(part, h) = 1 + WordLen
      BY <1>0, <2>2, <3>2
    <3> QED
      BY <2>4, <3>1, <3>2, <3>3, <3>4, SizeConcat DEF Takes
  <2> QED
    BY <2>6, <2>7
<1> QED
  BY <1>1, <1>2, <1>3, <1>4, <1>5

LEMMA FinishedType ==
  ASSUME NEW part, NEW h, NEW g, Finished(part, h, g)
  PROVE  ReadItems(part, h, g) \in Seq(Loose)
<1>1. OpsOf(part, h, g) \in Seq(Ops)
  BY OpsKnown DEF Finished
<1>2. Len(g) <= Len(OpsOf(part, h, g))
  BY <1>1 DEF Finished
<1> QED
  BY <1>2, ReadItemsType DEF Finished

LEMMA ElemsReadType ==
  ASSUME NEW part, NEW h, NEW e, PartRead(part, h, e)
  PROVE  LET r == [i \in 1 .. Len(e) |-> ReadItems(part, h, e[i])]
         IN  /\ r \in Seq(Seq(Loose)) /\ Len(r) = Len(e)
             /\ \A i \in 1 .. Len(e) : r[i] = ReadItems(part, h, e[i])
             /\ ElemsRead(part, h, e) \in Seq(Loose)
<1> DEFINE r == [i \in 1 .. Len(e) |-> ReadItems(part, h, e[i])]
<1>1. Len(e) \in Nat
  BY DEF PartRead
<1>2. \A i \in 1 .. Len(e) : ReadItems(part, h, e[i]) \in Seq(Loose)
  BY FinishedType DEF PartRead
<1>3. r \in Seq(Seq(Loose)) /\ Len(r) = Len(e) /\ \A i \in 1 .. Len(e) : r[i] = ReadItems(part, h, e[i])
  BY <1>1, <1>2
<1> QED
  BY <1>3, FlattenType DEF ElemsRead

\* Elements that are written as long as they were read.
LEMMA ElemsTake ==
  ASSUME NEW part, NEW h, NEW e, PartRead(part, h, e), NEW f, DOMAIN f = 1 .. Len(e),
         \A i \in 1 .. Len(e) : f[i] \in Seq(Loose) /\ Size(f[i]) = Size(ReadItems(part, h, e[i])),
         f = [i \in DOMAIN f |-> f[i]]
  PROVE  FlattenSeq(f) \in Seq(Loose) /\ Size(FlattenSeq(f)) = Size(ElemsRead(part, h, e))
<1> DEFINE r == [i \in 1 .. Len(e) |-> ReadItems(part, h, e[i])]
<1>1. Len(e) \in Nat
  BY DEF PartRead
<1>3. r \in Seq(Seq(Loose)) /\ Len(r) = Len(e) /\ \A i \in 1 .. Len(e) : r[i] = ReadItems(part, h, e[i])
  BY ElemsReadType
<1>4. f \in Seq(Seq(Loose)) /\ Len(f) = Len(e)
  BY <1>1
<1> HIDE DEF r
<1>5. \A i \in 1 .. Len(f) : Size(f[i]) = Size(r[i])
  BY <1>3, <1>4
<1>6. Size(FlattenSeq(f)) = Size(FlattenSeq(r))
  BY <1>3, <1>4, <1>5, SameSizes
<1> QED
  BY <1>4, <1>6, FlattenType DEF ElemsRead, r

\* What is known of each element.
LEMMA ElemKnown ==
  ASSUME NEW part, NEW h, NEW e, PartRead(part, h, e), NEW i \in 1 .. Len(e)
  PROVE  Finished(part, h, e[i]) /\ OpsOf(part, h, e[i]) = ElemGets(part, e[i])
  BY DEF PartRead, OpsOf

LEMMA HeadTakes ==
  ASSUME NEW part \in {"au", "aA", "fA"}, NEW h, Finished(part, <<>>, h)
  PROVE  /\ h[1] \in Nat /\ (part = "au" => h[2] \in Nat)
         /\ HeadSize(part, h) = IF part = "au" THEN 1 + WordLen ELSE WordLen
<1>0. "byte" \in Ops /\ "word" \in Ops
  BY DEF Ops
<1>1. CASE part = "au"
  <2>1. OpsOf(part, <<>>, h) = <<"byte", "word">>
    BY <1>1 DEF OpsOf, HeadGets
  <2> QED
    BY <1>0, <1>1, <2>1, ReadSize2 DEF ValuesOf, ItemSize, HeadSize
<1>2. CASE part \in {"aA", "fA"}
  <2>1. OpsOf(part, <<>>, h) = <<"word">>
    BY <1>2 DEF OpsOf, HeadGets
  <2> QED
    BY <1>0, <1>2, <2>1, ReadSize1 DEF ValuesOf, ItemSize, HeadSize
<1> QED
  BY <1>1, <1>2

\* Two pieces, as long as what was read.
LEMMA TakesBoth ==
  ASSUME NEW part, NEW v, NEW a \in Seq(Loose), NEW b \in Seq(Loose),
         write_part(part, v) = a \o b
  PROVE  Takes(part, v, Size(a) + Size(b))
  BY SizeConcat DEF Takes

LEMMA UlongsTake ==
  ASSUME NEW h, NEW e, PartRead("au", h, e)
  PROVE  Takes("au", PartValue("au", h, e), HeadSize("au", h) + Size(ElemsRead("au", h, e)))
<1> DEFINE v == PartValue("au", h, e)
           a == Byte(IF v.ptr THEN 1 ELSE 0)
           b == Word(v.num)
           f == [i \in 1 .. Len(e) |-> Long(AsUlong(e[i][1]))]
<1>1. Len(e) \in Nat /\ DOMAIN e = 1 .. Len(e) /\ Finished("au", <<>>, h)
  BY DEF PartRead
<1>2. h[2] \in Nat /\ HeadSize("au", h) = 1 + WordLen
  BY <1>1, HeadTakes
<1>3. v = [ptr |-> h[1] # 0, num |-> h[2], longs |-> [i \in DOMAIN e |-> AsUlong(e[i][1])]]
  BY DEF PartValue
<1>4. v.num = h[2] /\ v.longs = [i \in 1 .. Len(e) |-> AsUlong(e[i][1])]
  BY <1>1, <1>3
<1>5. a \in Seq(Loose) /\ Size(a) = 1 /\ b \in Seq(Loose) /\ Size(b) = WordLen
  BY <1>2, <1>4, WrittenSizes
<1>6. Each(v.longs, Long) = FlattenSeq(f)
  BY <1>4 DEF Each
<1>7. ASSUME NEW i \in 1 .. Len(e)
      PROVE  Long(AsUlong(e[i][1])) \in Seq(Loose)
             /\ Size(Long(AsUlong(e[i][1]))) = Size(ReadItems("au", h, e[i]))
  <2>1. Finished("au", h, e[i]) /\ OpsOf("au", h, e[i]) = <<"long">> /\ "long" \in Ops
    BY ElemKnown DEF ElemGets, Ops
  <2>2. e[i][1] \in Nat /\ Size(ReadItems("au", h, e[i])) = LongLen
    BY <2>1, ReadSize1 DEF ValuesOf, ItemSize
  <2> QED
    BY <2>2, AsUlongNat, WrittenSizes
<1>8. FlattenSeq(f) \in Seq(Loose) /\ Size(FlattenSeq(f)) = Size(ElemsRead("au", h, e))
  BY <1>7, ElemsTake
<1>9. write_part("au", v) = (a \o b) \o FlattenSeq(f)
  BY <1>6 DEF write_part
<1> HIDE DEF v, a, b, f
<1>10. a \o b \in Seq(Loose) /\ Size(a \o b) = HeadSize("au", h)
  BY <1>2, <1>5, SizeConcat
<1> QED
  BY <1>8, <1>9, <1>10, TakesBoth DEF v

LEMMA TemplateTakes ==
  ASSUME NEW h, NEW e, PartRead("fA", h, e)
  PROVE  Takes("fA", PartValue("fA", h, e), HeadSize("fA", h) + Size(ElemsRead("fA", h, e)))
<1> DEFINE v == PartValue("fA", h, e)
           a == Word(Len(v))
           f == [i \in 1 .. Len(e) |-> Word(e[i][1]) \o Word(IF e[i][2] # 0 THEN e[i][2] ELSE 0)]
<1>1. Len(e) \in Nat /\ DOMAIN e = 1 .. Len(e) /\ Finished("fA", <<>>, h)
  BY DEF PartRead
<1>2. HeadSize("fA", h) = WordLen
  BY <1>1, HeadTakes
<1>3. v = [i \in 1 .. Len(e) |-> [type |-> e[i][1], ptr |-> e[i][2] # 0, room |-> e[i][2]]]
  BY <1>1 DEF PartValue
<1>4. Len(v) = Len(e) /\ DOMAIN v = 1 .. Len(e)
  BY <1>1, <1>3
<1>5. a \in Seq(Loose) /\ Size(a) = WordLen
  BY <1>1, <1>4, WrittenSizes
<1>6. write_part("fA", v) = a \o FlattenSeq(f)
  <2> DEFINE g == [i \in DOMAIN v |-> Word(v[i].type) \o Word(IF v[i].ptr THEN v[i].room ELSE 0)]
  <2>1. write_part("fA", v) = a \o FlattenSeq(g)
    BY DEF write_part, Each
  <2>2. ASSUME NEW i \in 1 .. Len(e)
        PROVE  v[i].type = e[i][1] /\ v[i].ptr = (e[i][2] # 0) /\ v[i].room = e[i][2]
    BY <1>3
  <2> HIDE DEF v
  <2>3. g = f
    BY <1>4, <2>2
  <2> QED
    BY <2>1, <2>3
<1>7. ASSUME NEW i \in 1 .. Len(e)
      PROVE  /\ Word(e[i][1]) \o Word(IF e[i][2] # 0 THEN e[i][2] ELSE 0) \in Seq(Loose)
             /\ Size(Word(e[i][1]) \o Word(IF e[i][2] # 0 THEN e[i][2] ELSE 0)) = Size(ReadItems("fA", h, e[i]))
  <2>1. Finished("fA", h, e[i]) /\ OpsOf("fA", h, e[i]) = <<"word", "word">> /\ "word" \in Ops
    BY ElemKnown DEF ElemGets, Ops
  <2>2. e[i][1] \in Nat /\ e[i][2] \in Nat /\ Size(ReadItems("fA", h, e[i])) = WordLen + WordLen
    BY <2>1, ReadSize2 DEF ValuesOf, ItemSize
  <2>3. PICK x, y \in Nat : x = e[i][1] /\ y = IF e[i][2] # 0 THEN e[i][2] ELSE 0
    BY <2>2
  <2>4. /\ Word(x) \in Seq(Loose) /\ Size(Word(x)) = WordLen
        /\ Word(y) \in Seq(Loose) /\ Size(Word(y)) = WordLen
    BY WrittenSizes
  <2>5. Word(x) \o Word(y) \in Seq(Loose) /\ Size(Word(x) \o Word(y)) = WordLen + WordLen
    BY <2>4, SizeConcat
  <2> QED
    BY <2>2, <2>3, <2>5
<1>8. FlattenSeq(f) \in Seq(Loose) /\ Size(FlattenSeq(f)) = Size(ElemsRead("fA", h, e))
  BY <1>7, ElemsTake
<1> HIDE DEF v, a, f
<1> QED
  BY <1>2, <1>5, <1>6, <1>8, TakesBoth DEF v

\* An attribute that is an unsigned long has the same length behind the
\* conversions between the two widths, if the reader is not the narrow side.
LEMMA WidenedSize ==
  ASSUME NEW s \in Seq(Bytes), Len(s) = LongLen
  PROVE  Widened(s) \in Seq(Bytes) /\ Len(Widened(s)) = LongLen
<1> DEFINE w == Widths["writer"]
           a == SubSeq(s, 1, w)
           b == Fill(LongLen - w, 0)
<1>1. w \in Nat /\ w <= LongLen /\ LongLen - w \in Nat /\ LongLen \in Nat
  BY MessageAssumption, Arithmetic DEF LongLen
<1> HIDE DEF w
<1>2. a \in Seq(Bytes) /\ Len(a) = w
  BY <1>1
<1>3. b \in Seq(Bytes) /\ Len(b) = LongLen - w
  BY <1>1, Small DEF Fill
<1> HIDE DEF a, b
<1>4. a \o b \in Seq(Bytes) /\ Len(a \o b) = Len(a) + Len(b)
  BY <1>2, <1>3
<1>5. Len(a \o b) = LongLen
  BY <1>1, <1>2, <1>3, <1>4
<1> QED
  BY <1>4, <1>5 DEF Widened, a, b, w

\* An attribute is as long as it says, and is written as long as it was read.
LEMMA AttrTakes ==
  ASSUME Widths["reader"] = LongLen, NEW h, h # <<>>, NEW g, Finished("aA", h, g),
         AttrWhole(g)
  PROVE  /\ write_attribute(ReadAttr(g)) \in Seq(Loose)
         /\ Size(write_attribute(ReadAttr(g))) = Size(ReadItems("aA", h, g))
         /\ ReadAttr(g).ptr => Len(ReadAttr(g).bytes) = ReadAttr(g).len
<1> DEFINE r == ReadAttr(g)
<1>0. "byte" \in Ops /\ "word" \in Ops /\ "array" \in Ops /\ WordLen \in Nat
  BY Arithmetic DEF Ops
<1>1. OpsOf("aA", h, g) = ElemGets("aA", g)
  BY DEF OpsOf
<1>2. CASE Len(g) >= 2 /\ g[2] = 0
  <2>1. OpsOf("aA", h, g) = <<"word", "byte">>
    BY <1>1, <1>2 DEF ElemGets
  <2>2. Len(g) = 2 /\ g[1] \in Nat /\ Size(ReadItems("aA", h, g)) = WordLen + 1
    BY <1>0, <2>1, ReadSize2 DEF ValuesOf, ItemSize
  <2>3. r = [type |-> g[1], len |-> Unavailable, ptr |-> FALSE, bytes |-> <<>>]
    BY <2>2 DEF ReadAttr
  <2>4. r.type = g[1] /\ r.len = Unavailable /\ r.ptr = FALSE
    BY <2>3
  <2> HIDE DEF r
  <2>5. write_attribute(r) = Word(g[1]) \o Byte(0)
    BY <2>4 DEF write_attribute
  <2>6. /\ Word(g[1]) \in Seq(Loose) /\ Size(Word(g[1])) = WordLen
        /\ Byte(0) \in Seq(Loose) /\ Size(Byte(0)) = 1
    BY <2>2, WrittenSizes
  <2>7. write_attribute(r) \in Seq(Loose) /\ Size(write_attribute(r)) = WordLen + 1
    BY <2>5, <2>6, SizeConcat
  <2> QED
    BY <2>2, <2>4, <2>7 DEF r
<1>3. CASE ~(Len(g) >= 2 /\ g[2] = 0)
  <2>1. OpsOf("aA", h, g) = <<"word", "byte", "word", "array">>
    BY <1>1, <1>3 DEF ElemGets
  <2>2. Len(g) = 4 /\ g[1] \in Nat /\ g[3] \in Nat /\ g[4] \in Arrays
        /\ Size(ReadItems("aA", h, g)) = WordLen + 1 + WordLen + (WordLen + Len(g[4].bytes))
    BY <1>0, <2>1, ReadSize4 DEF ValuesOf, ItemSize
  <2>3. /\ g[4].ptr \in BOOLEAN /\ g[4].bytes \in Seq(Bytes) /\ (~g[4].ptr => g[4].bytes = <<>>)
        /\ Len(g[4].bytes) \in Nat
    BY <2>2 DEF Arrays
  <2>4. Narrowed(g[1], g[3], g[4].bytes) = g[4].bytes
    BY DEF Narrowed
  <2> DEFINE s == IF g[4].ptr THEN Narrowed(g[1], g[3], g[4].bytes) ELSE <<>>
  <2>5. s = g[4].bytes
    BY <2>3, <2>4
  <2>6. r = [type |-> g[1], ptr |-> g[4].ptr, bytes |-> s, len |-> IF s = g[4].bytes THEN g[3] ELSE Len(s)]
    BY <2>2 DEF ReadAttr
  <2> HIDE DEF s
  <2>7. r.type = g[1] /\ r.ptr = g[4].ptr /\ r.bytes = g[4].bytes /\ r.len = g[3]
    BY <2>5, <2>6
  <2> HIDE DEF r
  <2>8. r.ptr => Len(r.bytes) = r.len
    BY <2>2, <2>7 DEF AttrWhole
  <2> DEFINE c == IF gck_rpc_has_bad_sized_ulong_parameter(r) THEN Widened(r.bytes) ELSE r.bytes
             x == Word(g[1])
             y == Byte(1)
             z == Word(g[3])
             w == Array(g[4].ptr, c)
  <2>9. c \in Seq(Bytes) /\ Len(c) = Len(g[4].bytes) /\ (~g[4].ptr => c = <<>>)
    <3>1. CASE gck_rpc_has_bad_sized_ulong_parameter(r)
      <4>1. r.ptr /\ r.len = LongLen
        BY <3>1 DEF gck_rpc_has_bad_sized_ulong_parameter
      <4>2. Len(g[4].bytes) = LongLen
        BY <2>7, <2>8, <4>1
      <4>3. Widened(g[4].bytes) \in Seq(Bytes) /\ Len(Widened(g[4].bytes)) = LongLen
        BY <2>3, <4>2, WidenedSize
      <4> QED
        BY <2>7, <3>1, <4>1, <4>2, <4>3
    <3>2. CASE ~gck_rpc_has_bad_sized_ulong_parameter(r)
      BY <2>3, <2>7, <3>2
    <3> QED
      BY <3>1, <3>2
  <2>10. r.len # Unavailable
    BY <2>2, <2>7 DEF Unavailable
  <2>11. write_attribute(r) = x \o ((y \o z) \o w)
    BY <2>7, <2>10 DEF write_attribute
  <2> HIDE DEF c
  <2>12. /\ x \in Seq(Loose) /\ Size(x) = WordLen /\ y \in Seq(Loose) /\ Size(y) = 1
         /\ z \in Seq(Loose) /\ Size(z) = WordLen
    BY <2>2, WrittenSizes
  <2>13. w \in Seq(Loose) /\ Size(w) = WordLen + Len(g[4].bytes)
    BY <2>3, <2>9, WrittenSizes
  <2> HIDE DEF x, y, z, w
  <2>14. y \o z \in Seq(Loose) /\ Size(y \o z) = 1 + WordLen
    BY <2>12, SizeConcat
  <2> DEFINE p == y \o z
  <2> HIDE DEF p
  <2>15. p \o w \in Seq(Loose) /\ Size(p \o w) = (1 + WordLen) + (WordLen + Len(g[4].bytes))
    BY <2>13, <2>14, SizeConcat DEF p
  <2> DEFINE q == p \o w
  <2> HIDE DEF q
  <2>16. x \o q \in Seq(Loose) /\ Size(x \o q) = WordLen + ((1 + WordLen) + (WordLen + Len(g[4].bytes)))
    BY <2>12, <2>15, SizeConcat DEF q
  <2>17. WordLen + ((1 + WordLen) + (WordLen + Len(g[4].bytes)))
           = WordLen + 1 + WordLen + (WordLen + Len(g[4].bytes))
    <3>1. \A m, n \in Nat : m + ((1 + m) + (m + n)) = m + 1 + m + (m + n)
      OBVIOUS
    <3> QED
      BY <1>0, <2>3, <3>1
  <2>18. write_attribute(r) \in Seq(Loose) /\ Size(write_attribute(r)) = Size(ReadItems("aA", h, g))
    BY <2>2, <2>11, <2>16, <2>17 DEF p, q
  <2> QED
    BY <2>8, <2>18 DEF r
<1> QED
  BY <1>2, <1>3

LEMMA AttributesTake ==
  ASSUME Widths["reader"] = LongLen, NEW h, NEW e, PartRead("aA", h, e)
  PROVE  /\ Takes("aA", PartValue("aA", h, e), HeadSize("aA", h) + Size(ElemsRead("aA", h, e)))
         /\ \A j \in DOMAIN PartValue("aA", h, e) :
              LET a == PartValue("aA", h, e)[j] IN a.ptr => Len(a.bytes) = a.len
<1> DEFINE v == PartValue("aA", h, e)
           a == Word(Len(v))
           f == [i \in 1 .. Len(e) |-> write_attribute(ReadAttr(e[i]))]
<1>1. Len(e) \in Nat /\ DOMAIN e = 1 .. Len(e) /\ Finished("aA", <<>>, h) /\ h # <<>>
  BY DEF PartRead
<1>2. HeadSize("aA", h) = WordLen
  BY <1>1, HeadTakes
<1>3. v = [i \in 1 .. Len(e) |-> ReadAttr(e[i])]
  BY <1>1 DEF PartValue
<1>4. Len(v) = Len(e) /\ DOMAIN v = 1 .. Len(e)
  BY <1>1, <1>3
<1>5. a \in Seq(Loose) /\ Size(a) = WordLen
  BY <1>1, <1>4, WrittenSizes
<1>6. write_part("aA", v) = a \o FlattenSeq(f)
  <2> DEFINE g == [i \in DOMAIN v |-> write_attribute(v[i])]
  <2>1. write_part("aA", v) = a \o FlattenSeq(g)
    BY DEF write_part, Each
  <2>2. \A i \in 1 .. Len(e) : v[i] = ReadAttr(e[i])
    BY <1>3
  <2> HIDE DEF v
  <2>3. g = f
    BY <1>4, <2>2
  <2> QED
    BY <2>1, <2>3
<1>7. ASSUME NEW i \in 1 .. Len(e)
      PROVE  /\ write_attribute(ReadAttr(e[i])) \in Seq(Loose)
             /\ Size(write_attribute(ReadAttr(e[i]))) = Size(ReadItems("aA", h, e[i]))
             /\ ReadAttr(e[i]).ptr => Len(ReadAttr(e[i]).bytes) = ReadAttr(e[i]).len
  <2>1. Finished("aA", h, e[i]) /\ AttrWhole(e[i])
    BY DEF PartRead
  <2> QED
    BY <1>1, <2>1, AttrTakes
<1>8. FlattenSeq(f) \in Seq(Loose) /\ Size(FlattenSeq(f)) = Size(ElemsRead("aA", h, e))
  BY <1>7, ElemsTake
<1>9. \A j \in DOMAIN v : v[j].ptr => Len(v[j].bytes) = v[j].len
  BY <1>3, <1>4, <1>7
<1> HIDE DEF v, a, f
<1>10. Takes("aA", v, Size(a) + Size(FlattenSeq(f)))
  BY <1>5, <1>6, <1>8, TakesBoth
<1>11. Takes("aA", v, HeadSize("aA", h) + Size(ElemsRead("aA", h, e)))
  BY <1>2, <1>5, <1>8, <1>10
<1> QED
  BY <1>9, <1>11 DEF v

\* The value of a part is written as long as it was read.
LEMMA PartTakes ==
  ASSUME Widths["reader"] = LongLen, NEW part, NEW h, NEW e, PartRead(part, h, e)
  PROVE  /\ Takes(part, PartValue(part, h, e), HeadSize(part, h) + Size(ElemsRead(part, h, e)))
         /\ part = "aA" => \A j \in DOMAIN PartValue(part, h, e) :
              LET a == PartValue(part, h, e)[j] IN a.ptr => Len(a.bytes) = a.len
<1>1. part \in {"y", "u", "v", "s", "M", "ay", "au", "aA", "fy", "fu", "fA"} /\ Finished(part, <<>>, h)
  BY DEF PartRead, Finished, Letters
<1>2. CASE part \in {"au", "aA", "fA"}
  BY <1>2, UlongsTake, TemplateTakes, AttributesTake
<1>3. CASE part \in {"y", "u", "fu", "s", "v", "M", "fy", "ay"}
  <2>1. e = <<>>
    <3>1. e \in Seq(Seq(Values)) /\ (e # <<>> => Finished(part, h, e[1]) /\ h # <<>>)
      BY DEF PartRead
    <3> QED
      BY <1>3, <3>1 DEF Finished, HasElems
  <2>2. [i \in 1 .. Len(e) |-> ReadItems(part, h, e[i])] = <<>>
    BY <2>1
  <2>3. Size(ElemsRead(part, h, e)) = 0
    BY <2>2, FlattenEmpty, SizeEmpty DEF ElemsRead
  <2>4. Takes(part, PartValue(part, h, e), HeadSize(part, h))
    BY <1>1, <1>3, SimpleTakes, PairTakes
  <2>5. HeadSize(part, h) \in Nat
    <3>1. HeadSize(part, h) = Size(write_part(part, PartValue(part, h, e)))
      BY <2>4 DEF Takes
    <3> QED
      BY <2>4, <3>1, LoosePieces DEF Takes
  <2>6. HeadSize(part, h) + Size(ElemsRead(part, h, e)) = HeadSize(part, h)
    BY <2>3, <2>5
  <2> QED
    BY <1>3, <2>4, <2>6
<1> QED
  BY <1>1, <1>2, <1>3

-----------------------------------------------------------------------------
(* How far the reader has got in a message that may be damaged.            *)

SeenItems(dir, c, s, n) == FlattenSeq([i \in 1 .. n |-> write_part(Parts(dir, c)[i], s[i])])
AttrsWhole(v) == \A j \in DOMAIN v : v[j].ptr => Len(v[j].bytes) = v[j].len

\* The values s of the parts before part n of call c, and what was read of
\* part n, are as long as what is before offset off.
Measured(dir, c, n, h, e, g, s, off) ==
  LET part == Parts(dir, c)[n]
  IN  /\ c \in DOMAIN Calls /\ n \in Nat \ {0}
      /\ (\E S : s \in Seq(S)) /\ Len(s) = n - 1
      /\ \A i \in 1 .. n - 1 : /\ write_part(Parts(dir, c)[i], s[i]) \in Seq(Loose)
                               /\ Parts(dir, c)[i] = "aA" => AttrsWhole(s[i])
      /\ IF h = <<>> THEN e = <<>> ELSE PartRead(part, h, e)
      /\ off = Size(message_head(dir, c)) + Size(SeenItems(dir, c, s, n - 1))
                 + HeadSize(part, h) + Size(ElemsRead(part, h, e)) + Size(ReadItems(part, h, g))

MeasureOK ==
  /\ pc \in Early => seen = <<>> /\ elems = <<>>
  /\ pc = "read" /\ accepted /\ id # MechList
       => Measured(msg.dir, id, k, head, elems, got, seen, parsed)
  /\ pc = "read" /\ AtEnd => head = <<>> /\ got = <<>>
  /\ ReadsWhatItTakes

\* The head of a message: gck_rpc_message_parse reads as many bytes as
\* gck_rpc_message_prep wrote.
LEMMA HeadLoose ==
  ASSUME NEW dir \in {"request", "response"}, NEW c \in DOMAIN Calls
  PROVE  /\ message_head(dir, c) \in Seq(Loose)
         /\ Size(message_head(dir, c)) = WordLen + (WordLen + Len(signature(dir, c)))
         /\ Size(message_head(dir, c)) \in Nat
<1>1. c \in Nat /\ c # ERROR /\ signature(dir, c) \in Seq(Bytes)
  BY MessageTexts
<1>2. message_head(dir, c) = Word(c) \o Array(TRUE, signature(dir, c))
  BY <1>1 DEF message_head
<1>3. /\ Word(c) \in Seq(Loose) /\ Size(Word(c)) = WordLen /\ Array(TRUE, signature(dir, c)) \in Seq(Loose)
      /\ Size(Array(TRUE, signature(dir, c))) = WordLen + Len(signature(dir, c))
  BY <1>1, WrittenSizes
<1> QED
  BY <1>2, <1>3, SizeConcat, LoosePieces

\* A message that is accepted has been read up to its first part.
LEMMA ParseSize ==
  ASSUME NEW b, BufOK(b), NEW dir \in {"request", "response"}, message_parse(b, dir).ok,
         dir = "request" \/ message_parse(b, dir).id # ERROR
  PROVE  /\ message_parse(b, dir).id \in DOMAIN Calls
         /\ message_parse(b, dir).parsed = Size(message_head(dir, message_parse(b, dir).id))
<1> DEFINE p == message_parse(b, dir)
           n == egg_buffer_get_uint32(b, 0)
           a == egg_buffer_get_byte_array(n.buf, n.next)
<1>0. b.len \in Nat
  BY BufFields
<1>1. b.len \in Nat /\ 0 \in 0 .. b.len /\ WordLen \in Nat
  BY <1>0, Arithmetic
<1>2. ReadOK(n, b, Words) /\ (n.ok => n.next = 0 + WordLen)
  BY <1>1, WordGot, WordNext
<1>3. BufOK(n.buf) /\ n.next \in 0 .. n.buf.len /\ n.ok \in BOOLEAN
  BY <1>2 DEF ReadOK
<1>4. "array" \in Ops /\ a = Get(n.buf, n.next, "array")
  BY DEF Ops, Get
<1>5. a.ok => a.next = n.next + (WordLen + Len(a.val.bytes))
  <2>1. a.ok => a.next = n.next + ItemSize([op |-> "array", val |-> a.val])
    BY <1>3, <1>4, GetNextIs
  <2> QED
    BY <2>1 DEF ItemSize
<1>6. /\ ~(n.ok /\ n.val \in DOMAIN Calls) =>
           p = [buf |-> n.buf, ok |-> n.ok /\ n.val = ERROR /\ dir = "response", id |-> ERROR,
                parsed |-> n.next]
      /\ n.ok /\ n.val \in DOMAIN Calls =>
           p = [buf |-> a.buf, ok |-> a.ok /\ a.val.bytes = signature(dir, n.val), id |-> n.val,
                parsed |-> a.next]
  BY DEF message_parse
<1>7. p.ok /\ (dir = "request" \/ p.id # ERROR)
  OBVIOUS
<1> HIDE DEF p, n, a
<1>8. n.ok /\ n.val \in DOMAIN Calls
  <2>1. CASE ~(n.ok /\ n.val \in DOMAIN Calls)
    <3>1. p.id = ERROR /\ p.ok = (n.ok /\ n.val = ERROR /\ dir = "response")
      BY <1>6, <2>1
    <3> QED
      BY <1>7, <3>1
  <2> QED
    BY <2>1
<1>9. p.ok = (a.ok /\ a.val.bytes = signature(dir, n.val)) /\ p.id = n.val /\ p.parsed = a.next
  BY <1>6, <1>8
<1>10. a.ok /\ a.val.bytes = signature(dir, n.val)
  BY <1>7, <1>9
<1>11. p.id \in DOMAIN Calls /\ p.parsed = WordLen + (WordLen + Len(signature(dir, p.id)))
  BY <1>1, <1>2, <1>5, <1>8, <1>9, <1>10
<1> QED
  BY <1>11, HeadLoose DEF p

\* Measured is kept: at the start of the parts, with each item, behind the head,
\* behind each element, behind each part; and at the end of the message the
\* offset is the length of a message with the values that were read.
LEMMA MeasuredStart ==
  ASSUME NEW dir \in {"request", "response"}, NEW c \in DOMAIN Calls
  PROVE  Measured(dir, c, 1, <<>>, <<>>, <<>>, <<>>, Size(message_head(dir, c)))
<1> DEFINE part == Parts(dir, c)[1]
<1>1. 1 - 1 = 0 /\ [i \in 1 .. 0 |-> write_part(Parts(dir, c)[i], <<>>[i])] = <<>>
      /\ [i \in 1 .. Len(<<>>) |-> ReadItems(part, <<>>, <<>>[i])] = <<>>
  OBVIOUS
<1>2. SeenItems(dir, c, <<>>, 1 - 1) = <<>> /\ ElemsRead(part, <<>>, <<>>) = <<>>
  BY <1>1, FlattenEmpty DEF SeenItems, ElemsRead
<1>3. HeadSize(part, <<>>) = 0 /\ Size(ReadItems(part, <<>>, <<>>)) = 0 /\ Size(<<>>) = 0
  BY ReadNothing, SizeEmpty DEF HeadSize
<1>4. Size(message_head(dir, c)) \in Nat
  BY HeadLoose
<1>5. \E S : <<>> \in Seq(S)
  OBVIOUS
<1> QED
  BY <1>1, <1>2, <1>3, <1>4, <1>5 DEF Measured

\* The sizes that are added up are numbers.
LEMMA MeasuredSizes ==
  ASSUME NEW dir \in {"request", "response"}, NEW c, NEW n, NEW h, NEW e, NEW g, NEW s,
         NEW off,
         Measured(dir, c, n, h, e, g, s, off)
  PROVE  LET part == Parts(dir, c)[n]
         IN  /\ Size(message_head(dir, c)) \in Nat /\ Size(SeenItems(dir, c, s, n - 1)) \in Nat
             /\ SeenItems(dir, c, s, n - 1) \in Seq(Loose) /\ HeadSize(part, h) \in Nat
             /\ ElemsRead(part, h, e) \in Seq(Loose) /\ Size(ElemsRead(part, h, e)) \in Nat
<1> DEFINE part == Parts(dir, c)[n]
<1>1. Size(message_head(dir, c)) \in Nat
  BY HeadLoose DEF Measured
<1>2. SeenItems(dir, c, s, n - 1) \in Seq(Loose)
  <2> DEFINE f == [i \in 1 .. n - 1 |-> write_part(Parts(dir, c)[i], s[i])]
  <2>1. n - 1 \in Nat /\ \A i \in 1 .. n - 1 : write_part(Parts(dir, c)[i], s[i]) \in Seq(Loose)
    BY DEF Measured
  <2>2. f \in Seq(Seq(Loose))
    BY <2>1
  <2> QED
    BY <2>2, FlattenType DEF SeenItems
<1>3. HeadSize(part, h) \in Nat /\ ElemsRead(part, h, e) \in Seq(Loose)
  <2>1. CASE h = <<>>
    <3>1. e = <<>> /\ <<>> \in Seq(Loose) /\ 0 \in Nat
      BY <2>1 DEF Measured
    <3>2. [i \in 1 .. Len(e) |-> ReadItems(part, h, e[i])] = <<>>
      BY <3>1
    <3> QED
      BY <2>1, <3>1, <3>2, ReadNothing, SizeEmpty, FlattenEmpty DEF HeadSize, ElemsRead
  <2>2. CASE h # <<>>
    <3>1. PartRead(part, h, e)
      BY <2>2 DEF Measured
    <3>2. ElemsRead(part, h, e) \in Seq(Loose)
      BY <3>1, ElemsReadType
    <3>3. ReadItems(part, <<>>, h) \in Seq(Loose)
      BY <3>1, FinishedType DEF PartRead
    <3> QED
      BY <3>2, <3>3, LoosePieces DEF HeadSize
  <2> QED
    BY <2>1, <2>2
<1> QED
  BY <1>1, <1>2, <1>3, LoosePieces

LEMMA MeasuredGet ==
  ASSUME NEW dir \in {"request", "response"}, NEW c, NEW n, NEW h, NEW e,
         NEW g \in Seq(Values),
         NEW s, NEW off, Measured(dir, c, n, h, e, g, s, off), NEW x \in Values,
         Parts(dir, c)[n] \in DOMAIN Letters, h # <<>> => HasElems(Parts(dir, c)[n]),
         Typed(Parts(dir, c)[n], h, g), Len(g) < Len(OpsOf(Parts(dir, c)[n], h, g)),
         x \in ValuesOf(OpsOf(Parts(dir, c)[n], h, g)[Len(g) + 1])
  PROVE  Measured(dir, c, n, h, e, Append(g, x), s,
           off + ItemSize([op |-> OpsOf(Parts(dir, c)[n], h, g)[Len(g) + 1], val |-> x]))
<1> DEFINE part == Parts(dir, c)[n]
           y    == [op |-> OpsOf(part, h, g)[Len(g) + 1], val |-> x]
           a    == Append(g, x)
<1>1. ReadItems(part, h, a) \in Seq(Loose) /\ Size(ReadItems(part, h, a)) = Size(ReadItems(part, h, g)) + ItemSize(y)
  BY ReadMore
<1>2. Size(ReadItems(part, h, g)) \in Nat
  <2>1. OpsOf(part, h, g) \in Seq(Ops)
    BY OpsKnown
  <2>2. Len(g) <= Len(OpsOf(part, h, g))
    BY <2>1
  <2>3. ReadItems(part, h, g) \in Seq(Loose)
    BY <2>2, ReadItemsType
  <2> QED
    BY <2>3, LoosePieces
<1>3. ItemSize(y) \in Nat
  <2>1. OpsOf(part, h, g) \in Seq(Ops)
    BY OpsKnown
  <2>2. OpsOf(part, h, g)[Len(g) + 1] \in Ops
    BY <2>1
  <2>3. y \in Loose
    BY <2>2 DEF Ops, ValuesOf, Loose
  <2> QED
    BY <2>3, LooseItem
<1> HIDE DEF y, a
<1>4. PICK A, B, C, D \in Nat :
        /\ A = Size(message_head(dir, c)) /\ B = Size(SeenItems(dir, c, s, n - 1))
        /\ C = HeadSize(part, h) /\ D = Size(ElemsRead(part, h, e))
  BY MeasuredSizes
<1>5. off = A + B + C + D + Size(ReadItems(part, h, g))
  BY <1>4 DEF Measured
<1>6. off + ItemSize(y) = A + B + C + D + Size(ReadItems(part, h, a))
  BY <1>1, <1>2, <1>3, <1>5
<1>7. Measured(dir, c, n, h, e, a, s, off + ItemSize(y))
  BY <1>4, <1>6 DEF Measured
<1> QED
  BY <1>7 DEF a, y

\* The head of part n has been read.
LEMMA MeasuredHead ==
  ASSUME NEW dir \in {"request", "response"}, NEW c, NEW n, NEW e, NEW g,
         NEW s, NEW off, Measured(dir, c, n, <<>>, e, g, s, off),
         Finished(Parts(dir, c)[n], <<>>, g), g # <<>>
  PROVE  Measured(dir, c, n, g, e, <<>>, s, off)
<1> DEFINE part == Parts(dir, c)[n]
<1>1. e = <<>> /\ e \in Seq(Seq(Values))
  BY DEF Measured
<1>2. PartRead(part, g, e)
  BY <1>1 DEF PartRead
<1>3. /\ [i \in 1 .. Len(e) |-> ReadItems(part, <<>>, e[i])] = <<>>
      /\ [i \in 1 .. Len(e) |-> ReadItems(part, g, e[i])] = <<>>
  BY <1>1
<1>4. Size(ElemsRead(part, <<>>, e)) = 0 /\ Size(ElemsRead(part, g, e)) = 0
  BY <1>3, FlattenEmpty, SizeEmpty DEF ElemsRead
<1>5. HeadSize(part, <<>>) = 0 /\ Size(ReadItems(part, g, <<>>)) = 0
  BY ReadNothing, SizeEmpty DEF HeadSize
<1>6. HeadSize(part, g) = Size(ReadItems(part, <<>>, g)) /\ HeadSize(part, g) \in Nat
  <2>1. ReadItems(part, <<>>, g) \in Seq(Loose)
    BY FinishedType
  <2> QED
    BY <2>1, LoosePieces DEF HeadSize
<1>7. PICK A, B \in Nat : A = Size(message_head(dir, c)) /\ B = Size(SeenItems(dir, c, s, n - 1))
  BY MeasuredSizes
<1>8. off = A + B + 0 + 0 + HeadSize(part, g)
  BY <1>4, <1>5, <1>6, <1>7 DEF Measured
<1>9. off = A + B + HeadSize(part, g) + 0 + 0
  BY <1>6, <1>8
<1> QED
  BY <1>2, <1>4, <1>5, <1>7, <1>9 DEF Measured

\* An element of part n has been read.
LEMMA MeasuredElem ==
  ASSUME NEW dir \in {"request", "response"}, NEW c, NEW n, NEW h, h # <<>>, NEW e, NEW g,
         NEW s, NEW off, Measured(dir, c, n, h, e, g, s, off),
         Finished(Parts(dir, c)[n], h, g), Parts(dir, c)[n] = "aA" => AttrWhole(g)
  PROVE  Measured(dir, c, n, h, Append(e, g), <<>>, s, off)
<1> DEFINE part == Parts(dir, c)[n]
           a    == Append(e, g)
           r    == [i \in 1 .. Len(e) |-> ReadItems(part, h, e[i])]
           t    == [i \in 1 .. Len(a) |-> ReadItems(part, h, a[i])]
           x    == ReadItems(part, h, g)
<1>1. PartRead(part, h, e) /\ e \in Seq(Seq(Values)) /\ g \in Seq(Values)
  BY DEF Measured, PartRead, Finished
<1>2. /\ a \in Seq(Seq(Values)) /\ Len(a) = Len(e) + 1 /\ Len(e) \in Nat
      /\ \A i \in 1 .. Len(e) + 1 : a[i] = IF i <= Len(e) THEN e[i] ELSE g
  BY <1>1
<1> HIDE DEF a
<1>3. PartRead(part, h, a)
  <2>1. ASSUME NEW i \in 1 .. Len(a) PROVE Finished(part, h, a[i]) /\ (part = "aA" => AttrWhole(a[i]))
    <3>1. CASE i <= Len(e)
      <4>1. i \in 1 .. Len(e) /\ a[i] = e[i]
        BY <1>2, <3>1
      <4> QED
        BY <1>1, <4>1 DEF PartRead
    <3>2. CASE ~(i <= Len(e))
      <4>1. a[i] = g
        BY <1>2, <3>2
      <4> QED
        BY <4>1
    <3> QED
      BY <3>1, <3>2
  <2> QED
    BY <1>1, <1>2, <2>1 DEF PartRead
<1>4. x \in Seq(Loose)
  BY FinishedType
<1>5. r \in Seq(Seq(Loose)) /\ Len(r) = Len(e) /\ \A i \in 1 .. Len(e) : r[i] = ReadItems(part, h, e[i])
  BY <1>1, ElemsReadType
<1>6. t \in Seq(Seq(Loose)) /\ Len(t) = Len(a) /\ \A i \in 1 .. Len(a) : t[i] = ReadItems(part, h, a[i])
  BY <1>3, ElemsReadType
<1> HIDE DEF r, t, x
<1>7. t = Append(r, x)
  <2> DEFINE u == Append(r, x)
  <2>1. /\ u \in Seq(Seq(Loose)) /\ Len(u) = Len(e) + 1
        /\ \A i \in 1 .. Len(e) + 1 : u[i] = IF i <= Len(e) THEN r[i] ELSE x
    BY <1>2, <1>4, <1>5
  <2> HIDE DEF u
  <2>2. \A i \in 1 .. Len(t) : t[i] = u[i]
    <3> TAKE i \in 1 .. Len(t)
    <3>1. CASE i <= Len(e)
      <4>1. i \in 1 .. Len(e) /\ i \in 1 .. Len(a) /\ a[i] = e[i]
        BY <1>2, <1>6, <3>1
      <4> QED
        BY <1>2, <1>5, <1>6, <2>1, <3>1, <4>1
    <3>2. CASE ~(i <= Len(e))
      <4>1. i \in 1 .. Len(a) /\ a[i] = g
        BY <1>2, <1>6, <3>2
      <4> QED
        BY <1>2, <1>6, <2>1, <3>2, <4>1 DEF x
    <3> QED
      BY <3>1, <3>2
  <2>3. t = u
    BY <1>2, <1>6, <2>1, <2>2, SameSeq
  <2> QED
    BY <2>3 DEF u
<1>8. FlattenSeq(t) = FlattenSeq(r) \o x /\ FlattenSeq(r) \in Seq(Loose)
  BY <1>4, <1>5, <1>7, FlattenAppend, FlattenType
<1>9. Size(FlattenSeq(t)) = Size(FlattenSeq(r)) + Size(x) /\ Size(FlattenSeq(r)) \in Nat /\ Size(x) \in Nat
  BY <1>4, <1>8, SizeConcat, LoosePieces
<1>10. ElemsRead(part, h, a) = FlattenSeq(t) /\ ElemsRead(part, h, e) = FlattenSeq(r)
  BY DEF ElemsRead, t, r
<1>11. Size(ReadItems(part, h, <<>>)) = 0
  BY ReadNothing, SizeEmpty
<1>12. PICK A, B, C \in Nat :
        /\ A = Size(message_head(dir, c)) /\ B = Size(SeenItems(dir, c, s, n - 1)) /\ C = HeadSize(part, h)
  BY MeasuredSizes
<1>13. off = A + B + C + Size(FlattenSeq(r)) + Size(x)
  BY <1>10, <1>12 DEF Measured, x
<1>14. off = A + B + C + Size(ElemsRead(part, h, a)) + Size(ReadItems(part, h, <<>>))
  BY <1>9, <1>10, <1>11, <1>13
<1>15. Measured(dir, c, n, h, a, <<>>, s, off)
  BY <1>3, <1>12, <1>14 DEF Measured
<1> QED
  BY <1>15 DEF a

\* Part n has been read, and its value is seen.
LEMMA MeasuredPart ==
  ASSUME Widths["reader"] = LongLen, NEW dir \in {"request", "response"}, NEW c, NEW n,
         NEW h, h # <<>>,
         NEW e, NEW s, NEW off, Measured(dir, c, n, h, e, <<>>, s, off)
  PROVE  Measured(dir, c, n + 1, <<>>, <<>>, <<>>,
                  Append(s, PartValue(Parts(dir, c)[n], h, e)), off)
<1> DEFINE part == Parts(dir, c)[n]
           v    == PartValue(part, h, e)
           a    == Append(s, v)
           f    == [i \in 1 .. n - 1 |-> write_part(Parts(dir, c)[i], s[i])]
           t    == [i \in 1 .. n |-> write_part(Parts(dir, c)[i], a[i])]
           x    == write_part(part, v)
           next == Parts(dir, c)[n + 1]
<1>1. PartRead(part, h, e) /\ c \in DOMAIN Calls /\ n \in Nat \ {0} /\ Len(s) = n - 1
      /\ \A i \in 1 .. n - 1 : write_part(Parts(dir, c)[i], s[i]) \in Seq(Loose)
                               /\ (Parts(dir, c)[i] = "aA" => AttrsWhole(s[i]))
  BY DEF Measured
<1>2. x \in Seq(Loose) /\ Size(x) = HeadSize(part, h) + Size(ElemsRead(part, h, e))
      /\ (part = "aA" => AttrsWhole(v))
  BY <1>1, PartTakes DEF Takes, AttrsWhole
<1>3. PICK S : s \in Seq(S)
  BY DEF Measured
<1>4. s \in Seq(S \cup {v}) /\ v \in S \cup {v}
  BY <1>3
<1> HIDE DEF v
<1>5. /\ a \in Seq(S \cup {v}) /\ Len(a) = n /\ n - 1 \in Nat
      /\ \A i \in 1 .. n : a[i] = IF i <= n - 1 THEN s[i] ELSE v
  BY <1>1, <1>4
<1> HIDE DEF a, x
<1>6. ASSUME NEW i \in 1 .. n
      PROVE  /\ write_part(Parts(dir, c)[i], a[i]) = IF i <= n - 1 THEN write_part(Parts(dir, c)[i], s[i]) ELSE x
             /\ write_part(Parts(dir, c)[i], a[i]) \in Seq(Loose)
             /\ Parts(dir, c)[i] = "aA" => AttrsWhole(a[i])
  <2>1. CASE i <= n - 1
    <3>1. i \in 1 .. n - 1 /\ a[i] = s[i]
      BY <1>1, <1>5, <2>1
    <3> QED
      BY <1>1, <2>1, <3>1
  <2>2. CASE ~(i <= n - 1)
    <3>1. i = n /\ a[i] = v
      BY <1>1, <1>5, <2>2
    <3> QED
      BY <1>2, <2>2, <3>1 DEF x
  <2> QED
    BY <2>1, <2>2
<1>7. f \in Seq(Seq(Loose)) /\ Len(f) = n - 1 /\ \A i \in 1 .. n - 1 : f[i] = write_part(Parts(dir, c)[i], s[i])
  BY <1>1, <1>5
<1>8. t \in Seq(Seq(Loose)) /\ Len(t) = n /\ \A i \in 1 .. n : t[i] = write_part(Parts(dir, c)[i], a[i])
  BY <1>1, <1>6
<1> HIDE DEF f, t
<1>9. t = Append(f, x)
  <2> DEFINE u == Append(f, x)
  <2>1. u \in Seq(Seq(Loose)) /\ Len(u) = n /\ \A i \in 1 .. n : u[i] = IF i <= n - 1 THEN f[i] ELSE x
    BY <1>2, <1>5, <1>7
  <2> HIDE DEF u
  <2>2. \A i \in 1 .. Len(t) : t[i] = u[i]
    <3> TAKE i \in 1 .. Len(t)
    <3>1. i \in 1 .. n
      BY <1>8
    <3>2. t[i] = IF i <= n - 1 THEN write_part(Parts(dir, c)[i], s[i]) ELSE x
      BY <1>6, <1>8, <3>1
    <3>3. i <= n - 1 => f[i] = write_part(Parts(dir, c)[i], s[i])
      BY <1>5, <1>7, <3>1
    <3> QED
      BY <2>1, <3>1, <3>2, <3>3
  <2>3. t = u
    BY <1>8, <2>1, <2>2, SameSeq
  <2> QED
    BY <2>3 DEF u
<1>10. FlattenSeq(t) = FlattenSeq(f) \o x /\ FlattenSeq(f) \in Seq(Loose)
  BY <1>2, <1>7, <1>9, FlattenAppend, FlattenType
<1>11. Size(FlattenSeq(t)) = Size(FlattenSeq(f)) + Size(x)
  BY <1>2, <1>10, SizeConcat
<1>12. SeenItems(dir, c, s, n - 1) = FlattenSeq(f) /\ SeenItems(dir, c, a, n) = FlattenSeq(t)
  BY DEF SeenItems, f, t
<1>13. PICK A, B, C, D \in Nat :
        /\ A = Size(message_head(dir, c)) /\ B = Size(SeenItems(dir, c, s, n - 1))
        /\ C = HeadSize(part, h) /\ D = Size(ElemsRead(part, h, e))
  BY MeasuredSizes
<1>14. Size(ReadItems(part, h, <<>>)) = 0
  BY ReadNothing, SizeEmpty
<1>15. off = A + B + C + D + 0
  BY <1>13, <1>14 DEF Measured
<1>16. Size(SeenItems(dir, c, a, n)) = B + (C + D)
  BY <1>2, <1>11, <1>12, <1>13
<1>17. off = A + Size(SeenItems(dir, c, a, n)) + 0 + 0 + 0
  BY <1>15, <1>16
<1>18. [i \in 1 .. Len(<<>>) |-> ReadItems(next, <<>>, <<>>[i])] = <<>>
  OBVIOUS
<1>19. HeadSize(next, <<>>) = 0 /\ Size(ReadItems(next, <<>>, <<>>)) = 0 /\ Size(ElemsRead(next, <<>>, <<>>)) = 0
  BY <1>18, ReadNothing, SizeEmpty, FlattenEmpty DEF HeadSize, ElemsRead
<1>20. n + 1 \in Nat \ {0} /\ (n + 1) - 1 = n
  BY <1>1
<1>21. Measured(dir, c, n + 1, <<>>, <<>>, <<>>, a, off)
  BY <1>1, <1>5, <1>6, <1>13, <1>17, <1>19, <1>20 DEF Measured
<1> QED
  BY <1>21 DEF a, v

\* When nothing is left to be read, the message is as long as its values.
LEMMA MeasuredAll ==
  ASSUME NEW dir \in {"request", "response"}, NEW c, NEW n, NEW s, NEW off, NEW e,
         Measured(dir, c, n, <<>>, e, <<>>, s, off)
  PROVE  /\ off = Len(Encoding(dir, c, s))
         /\ \A i \in DOMAIN s : Parts(dir, c)[i] = "aA" => AttrsWhole(s[i])
<1> DEFINE part == Parts(dir, c)[n]
<1>1. e = <<>> /\ c \in DOMAIN Calls /\ n \in Nat \ {0} /\ Len(s) = n - 1
  BY DEF Measured
<1>2. DOMAIN s = 1 .. n - 1
  <2>1. PICK S : s \in Seq(S)
    BY DEF Measured
  <2> QED
    BY <1>1, <2>1
<1>3. [i \in 1 .. Len(e) |-> ReadItems(part, <<>>, e[i])] = <<>>
  BY <1>1
<1>4. HeadSize(part, <<>>) = 0 /\ Size(ReadItems(part, <<>>, <<>>)) = 0 /\ Size(ElemsRead(part, <<>>, e)) = 0
  BY <1>3, ReadNothing, SizeEmpty, FlattenEmpty DEF HeadSize, ElemsRead
<1>5. PICK A, B \in Nat : A = Size(message_head(dir, c)) /\ B = Size(SeenItems(dir, c, s, n - 1))
  BY MeasuredSizes
<1>6. off = A + B + 0 + 0 + 0
  BY <1>4, <1>5 DEF Measured
<1>7. Items(dir, c, s) = message_head(dir, c) \o SeenItems(dir, c, s, n - 1)
  BY <1>2 DEF Items, SeenItems
<1>8. message_head(dir, c) \in Seq(Loose) /\ SeenItems(dir, c, s, n - 1) \in Seq(Loose)
  BY <1>1, HeadLoose, MeasuredSizes
<1>9. Size(Items(dir, c, s)) = A + B
  BY <1>5, <1>7, <1>8, SizeConcat
<1>10. Len(Encoding(dir, c, s)) = Size(Items(dir, c, s))
  BY DEF Encoding, Size, BytesOf
<1> QED
  BY <1>2, <1>5, <1>6, <1>9, <1>10 DEF Measured

-----------------------------------------------------------------------------
(* The invariant.                                                          *)

\* MeasureOK is an invariant: one lemma per action.
LEMMA MeasureInit == Init => MeasureOK
  BY DEF Init, MeasureOK, ReadsWhatItTakes, Early

LEMMA MeasurePrep ==
  ASSUME NEW i \in DOMAIN Texts, message_prep(Texts[i])
  PROVE  MeasureOK'
  BY DEF message_prep, MeasureOK, ReadsWhatItTakes

\* A message that was not taken promises nothing.
LEMMA MeasureOther ==
  ASSUME pc' # "read", pc' \in Early => seen' = <<>> /\ elems' = <<>>,
         ~(pc' = "done" /\ ret' = "OK")
  PROVE  MeasureOK'
  BY DEF MeasureOK, ReadsWhatItTakes

LEMMA MeasureWrite ==
  ASSUME MeasureOK, AddNext \/ Wrote \/ Send
  PROVE  MeasureOK'
<1>1. /\ pc \in Early /\ seen' = seen /\ elems' = elems /\ pc' # "read" /\ (pc' = "done" => ret' = "HOST_MEMORY")
  BY DEF AddNext, Wrote, WrotePart, WriteFailed, WroteAll, Send, Early, reader
<1> QED
  BY <1>1, MeasureOther DEF MeasureOK

LEMMA MeasureReceive ==
  ASSUME MeasureOK, Receive
  PROVE  MeasureOK'
<1>1. pc \in Early /\ seen' = seen /\ elems' = elems
  BY DEF Receive, Early
<1>2. pc' # "read" /\ (pc' = "done" => ret' # "OK")
  BY DEF Receive
<1> QED
  BY <1>1, <1>2, MeasureOther DEF MeasureOK

LEMMA MeasureParse ==
  ASSUME Inv, MeasureOK, ParseRequest \/ ParseResponse
  PROVE  MeasureOK'
<1> DEFINE p == message_parse(rbuf, msg.dir)
<1>1. pc = "parse" /\ msg' = msg /\ head' = head /\ elems' = elems /\ got' = got
  BY DEF ParseRequest, ParseResponse, text
<1>2. head = <<>> /\ got = <<>> /\ elems = <<>> /\ seen = <<>> /\ msg.dir \in {"request", "response"} /\ BufOK(rbuf)
  BY <1>1 DEF Inv, ReaderOK, TextOK, MeasureOK, Early
<1>3. \/ pc' = "done" /\ ret' # "OK"
      \/ /\ pc' = "read" /\ k' = 1 /\ seen' = seen /\ id' = p.id /\ accepted' = p.ok /\ parsed' = p.parsed
         /\ msg.dir = "request" \/ p.id # ERROR
  <2>1. CASE ParseRequest
    BY <2>1 DEF ParseRequest, Parsed, Believed, End
  <2>2. CASE ParseResponse
    BY <2>2 DEF ParseResponse, Parsed, Believed, End
  <2> QED
    BY <2>1, <2>2
<1> HIDE DEF p
<1>4. CASE pc' = "done" /\ ret' # "OK"
  BY <1>4, MeasureOther DEF Early
<1>5. CASE /\ pc' = "read" /\ k' = 1 /\ seen' = seen /\ id' = p.id /\ accepted' = p.ok /\ parsed' = p.parsed
           /\ msg.dir = "request" \/ p.id # ERROR
  <2>1. ASSUME p.ok PROVE Measured(msg.dir, p.id, 1, <<>>, <<>>, <<>>, <<>>, p.parsed)
    <3>1. p.id \in DOMAIN Calls /\ p.parsed = Size(message_head(msg.dir, p.id))
      BY <1>2, <1>5, <2>1, ParseSize DEF p
    <3> QED
      BY <1>2, <3>1, MeasuredStart
  <2>2. accepted' => Measured(msg.dir, id, k, head, elems, got, seen, parsed)'
    BY <1>1, <1>2, <1>5, <2>1
  <2> QED
    BY <1>1, <1>2, <1>5, <2>2 DEF MeasureOK, ReadsWhatItTakes, Early
<1> QED
  BY <1>3, <1>4, <1>5

\* What is known of the part that is being read.
LEMMA MeasurePartKnown ==
  ASSUME Inv, MeasureOK, pc = "read", ~AtEnd, accepted, id # MechList
  PROVE  /\ Measured(msg.dir, id, k, head, elems, got, seen, parsed) /\ msg.dir \in {"request", "response"}
         /\ Part = Parts(msg.dir, id)[k] /\ Part \in DOMAIN Letters /\ got \in Seq(Values)
         /\ Typed(Part, head, got)
  BY PartKnown DEF MeasureOK, Inv, TextOK, Part

\* The part that is being read stays the same, or the message is refused.
LEMMA MeasureRead ==
  ASSUME pc = "read", ~AtEnd, msg' = msg, id' = id, k' = k, accepted' = accepted,
         pc' \in {"read", "done"},
         pc' = "done" => ret' # "OK",
         pc' = "read" /\ accepted /\ id # MechList
           => Measured(msg.dir, id, k, head', elems', got', seen', parsed')
  PROVE  MeasureOK'
<1>1. ~AtEnd'
  BY DEF AtEnd
<1> QED
  BY <1>1 DEF MeasureOK, ReadsWhatItTakes, Early

LEMMA MeasureGet ==
  ASSUME Inv, MeasureOK, GetNext
  PROVE  MeasureOK'
<1> DEFINE op == Gets[Len(got) + 1]
           g  == Get(rbuf, parsed, op)
<1>1. /\ pc = "read" /\ ~AtEnd /\ ~Complete /\ Len(got) < Len(Gets) /\ msg' = msg /\ id' = id
      /\ accepted' = accepted /\ head' = head /\ elems' = elems /\ seen' = seen /\ parsed' = g.next
      /\ IF g.ok THEN got' = Append(got, g.val) /\ UNCHANGED <<pc, ret, k>>
         ELSE pc' = "done" /\ ret' = "DEVICE_ERROR" /\ k' = k
  BY DEF GetNext, End, text
<1>2. ASSUME g.ok, accepted, id # MechList
      PROVE  Measured(msg.dir, id, k, head, elems, got', seen, parsed')
  <2>1. /\ Measured(msg.dir, id, k, head, elems, got, seen, parsed) /\ msg.dir \in {"request", "response"}
        /\ Part = Parts(msg.dir, id)[k] /\ Part \in DOMAIN Letters /\ got \in Seq(Values)
        /\ Typed(Part, head, got)
    BY <1>1, <1>2, MeasurePartKnown
  <2>2. head # <<>> => HasElems(Part)
    BY <1>1 DEF Complete
  <2>3. Gets = OpsOf(Part, head, got) /\ Gets \in Seq(Ops)
    BY <2>1, <2>2, OpsKnown DEF Gets, OpsOf
  <2>4. op \in Ops
    <3>1. Len(got) + 1 \in 1 .. Len(Gets)
      BY <1>1, <2>1, <2>3
    <3> QED
      BY <2>3, <3>1
  <2>5. BufOK(rbuf) /\ parsed \in 0 .. rbuf.len
    BY DEF Inv, ReaderOK
  <2>6. g.next = parsed + ItemSize([op |-> op, val |-> g.val])
    BY <1>2, <2>4, <2>5, GetNextIs
  <2>7. ReadOK(g, rbuf, ValuesOf(op))
    BY <2>4, <2>5, GetOK
  <2>8. g.val \in ValuesOf(op) /\ g.val \in Values
    BY <1>2, <2>7 DEF ReadOK, ValuesOf, Values
  <2>9. op = OpsOf(Part, head, got)[Len(got) + 1] /\ Len(got) < Len(OpsOf(Part, head, got))
    BY <1>1, <2>3
  <2> HIDE DEF g, op
  <2>10. PICK x \in Values : x = g.val
    BY <2>8
  <2>11. Measured(msg.dir, id, k, head, elems, Append(got, x), seen,
                  parsed + ItemSize([op |-> OpsOf(Part, head, got)[Len(got) + 1], val |-> x]))
    BY <2>1, <2>2, <2>8, <2>9, <2>10, MeasuredGet
  <2> QED
    BY <1>1, <1>2, <2>6, <2>9, <2>10, <2>11
<1> HIDE DEF g
<1>3. CASE ~g.ok
  BY <1>1, <1>3, MeasureRead
<1>4. CASE g.ok
  BY <1>1, <1>2, <1>4, MeasureRead
<1> QED
  BY <1>3, <1>4

LEMMA MeasureHead ==
  ASSUME Inv, MeasureOK, GotHead
  PROVE  MeasureOK'
<1>1. /\ pc = "read" /\ ~AtEnd /\ head = <<>> /\ Len(got) = Len(Gets) /\ head' = got /\ got' = <<>>
      /\ msg' = msg /\ id' = id /\ accepted' = accepted /\ parsed' = parsed /\ elems' = elems /\ seen' = seen
  BY DEF GotHead, text
<1>2. pc' \in {"read", "done"} /\ k' = k /\ (pc' = "done" => ret' # "OK")
  <2>1. PICK ok \in MemAnswers :
          LET refused == msg.dir = "request" /\ \E n \in HeadAlloc(Part, got) : ~call_alloc(n, ok)
          IN  CASE BadHead -> End("DEVICE_ERROR") /\ UNCHANGED overrun
                [] TooSmall -> End("BUFFER_TOO_SMALL") /\ UNCHANGED overrun
                [] refused -> End("DEVICE_MEMORY") /\ UNCHANGED overrun
                [] OTHER -> /\ overrun' = (overrun \/ (msg.dir = "response" /\ CopiedHead > room))
                            /\ UNCHANGED <<pc, ret, k>>
    BY DEF GotHead
  <2>2. End("DEVICE_ERROR") \/ End("BUFFER_TOO_SMALL") \/ End("DEVICE_MEMORY") \/ UNCHANGED <<pc, ret, k>>
    BY <2>1, Zenon
  <2> QED
    BY <1>1, <2>2 DEF End
<1>3. ASSUME accepted, id # MechList
      PROVE  Measured(msg.dir, id, k, got, elems, <<>>, seen, parsed)
  <2>1. /\ Measured(msg.dir, id, k, head, elems, got, seen, parsed) /\ msg.dir \in {"request", "response"}
        /\ Part = Parts(msg.dir, id)[k] /\ Part \in DOMAIN Letters /\ got \in Seq(Values)
        /\ Typed(Part, head, got)
    BY <1>1, <1>3, MeasurePartKnown
  <2>2. Gets = OpsOf(Part, <<>>, got)
    BY <1>1 DEF Gets, OpsOf
  <2>3. Finished(Part, <<>>, got)
    BY <1>1, <2>1, <2>2 DEF Finished
  <2>4. got # <<>>
    <3>1. Len(HeadGets(Part, got)) > 0
      BY <2>1 DEF HeadGets, Letters
    <3>2. Gets = HeadGets(Part, got)
      BY <1>1 DEF Gets
    <3> QED
      BY <1>1, <2>1, <3>1, <3>2
  <2> QED
    BY <1>1, <2>1, <2>3, <2>4, MeasuredHead
<1> QED
  BY <1>1, <1>2, <1>3, MeasureRead

LEMMA MeasureElem ==
  ASSUME Inv, MeasureOK, GotElem
  PROVE  MeasureOK'
<1>1. /\ pc = "read" /\ ~AtEnd /\ head # <<>> /\ ~Complete /\ Len(got) = Len(Gets) /\ head' = head /\ got' = <<>>
      /\ msg' = msg /\ id' = id /\ accepted' = accepted /\ parsed' = parsed /\ elems' = Append(elems, got)
      /\ seen' = seen
  BY DEF GotElem, text
<1>2. pc' \in {"read", "done"} /\ k' = k /\ (pc' = "done" => ret' # "OK") /\ (pc' = "read" => ~BadElem)
  <2>1. PICK ok \in MemAnswers :
          LET refused == msg.dir = "request" /\ \E n \in ElemAlloc(Part, got) : ~call_alloc(n, ok)
          IN  CASE BadElem -> End("DEVICE_ERROR") /\ UNCHANGED overrun
                [] NullRead -> End("ABORT") /\ UNCHANGED overrun
                [] refused -> End("DEVICE_MEMORY") /\ UNCHANGED overrun
                [] OTHER -> /\ overrun' = (overrun \/ (msg.dir = "response" /\ CopiedElem > room))
                            /\ UNCHANGED <<pc, ret, k>>
    BY DEF GotElem
  <2>2. End("DEVICE_ERROR") \/ End("ABORT") \/ End("DEVICE_MEMORY") \/ (UNCHANGED <<pc, ret, k>> /\ ~BadElem)
    BY <2>1, Zenon
  <2> QED
    BY <1>1, <2>2 DEF End
<1>3. ASSUME accepted, id # MechList, ~BadElem
      PROVE  Measured(msg.dir, id, k, head, Append(elems, got), <<>>, seen, parsed)
  <2>1. /\ Measured(msg.dir, id, k, head, elems, got, seen, parsed) /\ msg.dir \in {"request", "response"}
        /\ Part = Parts(msg.dir, id)[k] /\ Part \in DOMAIN Letters /\ got \in Seq(Values)
        /\ Typed(Part, head, got)
    BY <1>1, <1>3, MeasurePartKnown
  <2>2. HasElems(Part) /\ Gets = OpsOf(Part, head, got)
    BY <1>1 DEF Complete, Gets, OpsOf
  <2>3. Finished(Part, head, got)
    BY <1>1, <2>1, <2>2 DEF Finished
  <2>4. Part = "aA" => AttrWhole(got)
    BY <1>3 DEF BadElem, AttrWhole
  <2> QED
    BY <1>1, <2>1, <2>3, <2>4, MeasuredElem
<1> QED
  BY <1>1, <1>2, <1>3, MeasureRead

LEMMA MeasurePart ==
  ASSUME Widths["reader"] = LongLen, Inv, MeasureOK, GotPart
  PROVE  MeasureOK'
<1>1. /\ pc = "read" /\ ~AtEnd /\ Complete /\ head' = <<>> /\ elems' = <<>> /\ got' = got /\ k' = k + 1
      /\ msg' = msg /\ id' = id /\ accepted' = accepted /\ parsed' = parsed /\ pc' = pc
  BY DEF GotPart, text
<1>2. got = <<>> /\ head # <<>>
  BY <1>1 DEF Inv, PartOK, Complete
<1>3. ASSUME accepted, id # MechList
      PROVE  Measured(msg.dir, id, k + 1, <<>>, <<>>, <<>>, seen', parsed)
  <2>1. /\ Measured(msg.dir, id, k, head, elems, <<>>, seen, parsed) /\ msg.dir \in {"request", "response"}
        /\ Part = Parts(msg.dir, id)[k]
    BY <1>1, <1>2, <1>3, MeasurePartKnown
  <2>2. seen' = Append(seen, PartValue(Part, head, elems))
    BY <1>3 DEF GotPart
  <2> QED
    BY <1>2, <2>1, <2>2, MeasuredPart
<1>4. (pc = "read" /\ accepted /\ id # MechList
         => Measured(msg.dir, id, k, head, elems, got, seen, parsed))'
  BY <1>1, <1>2, <1>3
<1> QED
  BY <1>1, <1>2, <1>4 DEF MeasureOK, ReadsWhatItTakes, Early

LEMMA MeasureAll ==
  ASSUME Inv, MeasureOK, GotAll
  PROVE  MeasureOK'
<1>1. /\ pc = "read" /\ AtEnd /\ pc' = "done" /\ msg' = msg /\ id' = id /\ accepted' = accepted
      /\ parsed' = parsed /\ seen' = seen
  BY DEF GotAll, text, reader, End
<1>2. ASSUME accepted, id # MechList
      PROVE  /\ parsed = Len(Encoding(msg.dir, id, seen))
             /\ \A i \in DOMAIN seen : Parts(msg.dir, id)[i] = "aA" => AttrsWhole(seen[i])
  <2>1. Measured(msg.dir, id, k, <<>>, elems, <<>>, seen, parsed) /\ msg.dir \in {"request", "response"}
    BY <1>1, <1>2 DEF MeasureOK, Inv, TextOK
  <2> QED
    BY <2>1, MeasuredAll
<1>3. ReadsWhatItTakes'
  BY <1>1, <1>2 DEF ReadsWhatItTakes, AttrsWhole
<1> QED
  BY <1>1, <1>3 DEF MeasureOK, Early

\* All actions together.
LEMMA MeasureInductive == Widths["reader"] = LongLen /\ Inv /\ MeasureOK /\ [Next]_vars => MeasureOK'
<1> SUFFICES ASSUME Widths["reader"] = LongLen, Inv, MeasureOK, [Next]_vars PROVE MeasureOK'
  OBVIOUS
<1>1. CASE UNCHANGED vars
  <2>1. /\ pc' = pc /\ msg' = msg /\ k' = k /\ id' = id /\ accepted' = accepted
        /\ parsed' = parsed /\ head' = head /\ elems' = elems /\ got' = got /\ seen' = seen /\ ret' = ret
    BY <1>1 DEF vars
  <2>2. ReadsWhatItTakes'
    BY <2>1 DEF MeasureOK, ReadsWhatItTakes
  <2>3. (pc = "read" /\ accepted /\ id # MechList
           => Measured(msg.dir, id, k, head, elems, got, seen, parsed))'
    BY <2>1 DEF MeasureOK
  <2> QED
    BY <2>1, <2>2, <2>3 DEF MeasureOK, AtEnd
<1> QED
  BY <1>1, MeasurePrep, MeasureWrite, MeasureReceive, MeasureParse, MeasureGet,
     MeasureHead, MeasureElem,
     MeasurePart, MeasureAll, Zenon DEF Next

\* A message that is believed, damaged or not, was read byte for byte: the
\* reader is behind as many bytes as a message with the values it read has, and
\* every attribute has as many bytes as it says.  No length or count in a message
\* makes the proto_read_ functions skip bytes or use some twice.  A reader with a
\* narrow CK_ULONG shortens attributes that are unsigned longs (those of
\* gck_rpc_has_ulong_parameter), hence the condition on its width.
THEOREM NothingIsSkipped == Widths["reader"] = LongLen => (Spec => []ReadsWhatItTakes)
<1> SUFFICES ASSUME Widths["reader"] = LongLen PROVE Spec => []ReadsWhatItTakes
  OBVIOUS
<1>1. Inv /\ MeasureOK /\ [Next]_vars => MeasureOK'
  BY MeasureInductive
<1>2. MeasureOK => ReadsWhatItTakes
  BY DEF MeasureOK
<1> QED
  BY <1>1, <1>2, MeasureInit, Invariant, Inductive, PTL DEF Spec

=============================================================================
