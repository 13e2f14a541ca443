-------------------------- MODULE SocketReader_proofs --------------------------
(***************************************************************************)
(* Proofs about SocketReader, for any number of sockets, connections and   *)
(* packets: the types, that packets are read whole and in order, that the  *)
(* bytes of an unfinished one are kept, and that the sockets take turns.   *)
(***************************************************************************)
EXTENDS SocketReader, SequenceTheorems, FiniteSetTheorems, WellFoundedInduction, TLAPS

-----------------------------------------------------------------------------
(* Recursive definitions *)

\* A set of numbers that is not empty has a least element.
LEMMA LeastOf ==
  ASSUME NEW S, S \subseteq Nat, S # {}
  PROVE  \E x \in S : \A y \in S : x <= y
<1>1. PICK R : R = OpToRel(<, Nat)
  OBVIOUS
<1>2. IsWellFoundedOn(R, Nat)
  BY <1>1, NatLessThanWellFounded
<1>3. PICK x \in S : \A y \in S : ~(<<y, x>> \in R)
  BY <1>2, WFMin, Zenon
<1>4. \A y \in S : ~(y < x)
  BY <1>1, <1>3 DEF OpToRel
<1> QED BY <1>4

\* What a recursive definition asks of its values up to m: below c they are
\* those of base, from c on F gives them from an earlier one, that at down.
Solves(g, m, c, base, down, F, S) ==
  /\ g \in [0..m -> S]
  /\ \A n \in 0..m : g[n] = IF n < c THEN base[n] ELSE F[<<n, g[down[n]]>>]

LEMMA SolvesOnce ==
  ASSUME NEW S, NEW c \in Nat, NEW base, NEW down \in [Nat -> Nat], NEW F,
         \A n \in Nat : n >= c => down[n] < n
  PROVE  \A m, k \in Nat : m <= k =>
           \A g, h : Solves(g, m, c, base, down, F, S) /\ Solves(h, k, c, base, down, F, S)
                     => \A n \in 0..m : g[n] = h[n]
<1> SUFFICES ASSUME NEW m \in Nat, NEW k \in Nat, m <= k, NEW g, NEW h,
                    Solves(g, m, c, base, down, F, S), Solves(h, k, c, base, down, F, S)
             PROVE  \A n \in 0..m : g[n] = h[n]
  OBVIOUS
<1> DEFINE D == {n \in 0..m : g[n] # h[n]}
<1> SUFFICES ASSUME D # {} PROVE FALSE
  OBVIOUS
<1>1. D \subseteq Nat
  OBVIOUS
<1>2. PICK n \in D : \A y \in D : n <= y
  BY <1>1, LeastOf
<1>3. n \in Nat /\ n \in 0..m /\ n \in 0..k /\ g[n] # h[n]
  BY <1>2
<1>4. /\ g[n] = IF n < c THEN base[n] ELSE F[<<n, g[down[n]]>>]
      /\ h[n] = IF n < c THEN base[n] ELSE F[<<n, h[down[n]]>>]
  BY <1>3 DEF Solves
<1>5. n >= c /\ down[n] \in Nat /\ down[n] < n
  BY <1>3, <1>4
<1>6. PICK d \in Nat : d = down[n] /\ d < n
  BY <1>5
<1>7. ~(n <= d) /\ d <= m
  BY <1>3, <1>6
<1>8. g[d] = h[d]
  <2>1. d \notin D
    BY <1>2, <1>7
  <2>2. d \in 0..m
    BY <1>7
  <2> QED BY <2>1, <2>2
<1> QED BY <1>3, <1>4, <1>5, <1>6, <1>8

LEMMA SolvesMore ==
  ASSUME NEW S, NEW c \in Nat \ {0}, NEW base \in [Nat -> S], NEW down \in [Nat -> Nat],
         NEW F \in [Nat \X S -> S], \A n \in Nat : n >= c => down[n] < n, NEW m \in Nat
  PROVE  \E g : Solves(g, m, c, base, down, F, S)
<1> DEFINE D == {n \in Nat : ~ \E g : Solves(g, n, c, base, down, F, S)}
<1> SUFFICES ASSUME D # {} PROVE FALSE
  OBVIOUS
<1>1. D \subseteq Nat
  OBVIOUS
<1>2. PICK n \in D : \A y \in D : n <= y
  BY <1>1, LeastOf
<1>3. n \in Nat /\ ~ \E g : Solves(g, n, c, base, down, F, S)
  BY <1>2
<1>4. CASE n = 0
  <2>1. base[0] \in S
    OBVIOUS
  <2>2. PICK g : g = [i \in 0..0 |-> base[0]]
    OBVIOUS
  <2>3. g \in [0..0 -> S] /\ \A i \in 0..0 : i < c /\ g[i] = base[i]
    BY <2>1, <2>2
  <2>4. Solves(g, 0, c, base, down, F, S)
    BY <2>3 DEF Solves
  <2> QED BY <1>3, <1>4, <2>4
<1>5. CASE n > 0
  <2> DEFINE k == n - 1
  <2>1. k \in Nat /\ ~(n <= k)
    BY <1>3, <1>5
  <2>2. k \notin D
    BY <1>2, <2>1
  <2>3. PICK g : Solves(g, k, c, base, down, F, S)
    BY <2>1, <2>2
  <2>4. g \in [0..k -> S] /\ \A i \in 0..k : g[i] = IF i < c THEN base[i] ELSE F[<<i, g[down[i]]>>]
    BY <2>3 DEF Solves
  <2>5. PICK v : v = IF n < c THEN base[n] ELSE F[<<n, g[down[n]]>>]
    OBVIOUS
  <2>6. ASSUME NEW i \in 0..n, i >= c PROVE down[i] \in 0..k /\ down[i] # n
    <3>1. i \in Nat /\ down[i] \in Nat /\ down[i] < i /\ i <= n
      BY <2>6
    <3> QED BY <1>3, <3>1
  <2>7. v \in S
    <3>1. CASE n < c
      BY <1>3, <2>5, <3>1
    <3>2. CASE n >= c
      <4>1. down[n] \in 0..k
        BY <1>3, <2>6, <3>2
      <4>2. PICK w \in S : w = g[down[n]]
        BY <2>4, <4>1
      <4>3. <<n, w>> \in Nat \X S
        BY <1>3
      <4>4. F[<<n, w>>] \in S
        BY <4>3
      <4> QED BY <2>5, <3>2, <4>2, <4>4
    <3> QED BY <1>3, <3>1, <3>2
  <2>8. PICK h : h = [i \in 0..n |-> IF i = n THEN v ELSE g[i]]
    OBVIOUS
  <2>9. \A i \in 0..n : i # n => i \in 0..k
    BY <1>3
  <2>10. h \in [0..n -> S]
    BY <2>4, <2>7, <2>8, <2>9
  <2>11. ASSUME NEW i \in 0..n
         PROVE  h[i] = IF i < c THEN base[i] ELSE F[<<i, h[down[i]]>>]
    <3>1. h[i] = IF i < c THEN base[i] ELSE F[<<i, g[down[i]]>>]
      <4>1. CASE i = n
        BY <2>5, <2>8, <4>1
      <4>2. CASE i # n
        <5>1. i \in 0..k /\ h[i] = g[i]
          BY <2>8, <2>9, <4>2
        <5> QED BY <2>4, <5>1
      <4> QED BY <4>1, <4>2
    <3>2. ASSUME i >= c PROVE h[down[i]] = g[down[i]]
      <4>1. PICK d \in 0..k : d = down[i] /\ d # n
        BY <2>6, <3>2
      <4>2. d \in 0..n
        BY <1>3, <4>1
      <4> QED BY <2>8, <4>1, <4>2
    <3>3. CASE i < c
      BY <3>1, <3>3
    <3>4. CASE i >= c
      BY <3>1, <3>2, <3>4, Zenon
    <3> QED BY <1>3, <3>3, <3>4
  <2>12. Solves(h, n, c, base, down, F, S)
    BY <2>10, <2>11 DEF Solves
  <2> QED BY <1>3, <2>12
<1> QED BY <1>3, <1>4, <1>5

\* So there is a function that satisfies the definition.
Recursive(c, base, down, F, S) ==
  /\ c \in Nat \ {0} /\ base \in [Nat -> S] /\ down \in [Nat -> Nat] /\ F \in [Nat \X S -> S]
  /\ \A n \in Nat : n >= c => down[n] < n

Solution(c, base, down, F, S) ==
  \E g \in [Nat -> S] :
     \A n \in Nat : g[n] = IF n < c THEN base[n] ELSE F[<<n, g[down[n]]>>]

LEMMA Recursion ==
  ASSUME NEW S, NEW c, NEW base, NEW down, NEW F, Recursive(c, base, down, F, S)
  PROVE  Solution(c, base, down, F, S)
<1>0. /\ c \in Nat \ {0} /\ base \in [Nat -> S] /\ down \in [Nat -> Nat] /\ F \in [Nat \X S -> S]
      /\ \A n \in Nat : n >= c => down[n] < n
  BY DEF Recursive
<1> DEFINE Sol(g, m) == Solves(g, m, c, base, down, F, S)
           G(m) == CHOOSE g : Sol(g, m)
           g == [m \in Nat |-> G(m)[m]]
<1>1. ASSUME NEW m \in Nat PROVE Sol(G(m), m)
  <2>1. \E f : Sol(f, m)
    BY <1>0, SolvesMore
  <2> QED BY <2>1, Zenon
<1>2. ASSUME NEW m \in Nat
      PROVE  /\ G(m) \in [0..m -> S]
             /\ \A n \in 0..m : G(m)[n] = IF n < c THEN base[n] ELSE F[<<n, G(m)[down[n]]>>]
  BY <1>1 DEF Solves
<1> HIDE DEF G
<1>3. g \in [Nat -> S]
  <2>1. ASSUME NEW m \in Nat PROVE G(m)[m] \in S
    <3>1. m \in 0..m
      OBVIOUS
    <3> QED BY <1>2, <3>1
  <2> QED BY <2>1
<1>4. ASSUME NEW n \in Nat
      PROVE  g[n] = IF n < c THEN base[n] ELSE F[<<n, g[down[n]]>>]
  <2>1. PICK b : b = G(n)
    OBVIOUS
  <2>2. n \in 0..n
    OBVIOUS
  <2>3. g[n] = b[n] /\ b[n] = IF n < c THEN base[n] ELSE F[<<n, b[down[n]]>>]
    BY <1>2, <2>1, <2>2
  <2>4. ASSUME n >= c PROVE g[down[n]] = b[down[n]]
    <3>1. PICK d \in Nat : d = down[n]
      BY <1>0
    <3>2. PICK a : a = G(d)
      OBVIOUS
    <3>3. Solves(a, d, c, base, down, F, S) /\ Solves(b, n, c, base, down, F, S)
      BY <1>1, <2>1, <3>2
    <3>4. d <= n /\ c \in Nat
      BY <1>0, <2>4, <3>1
    <3>5. \A i, j \in Nat : i <= j =>
            \A f, h : Solves(f, i, c, base, down, F, S) /\ Solves(h, j, c, base, down, F, S)
                      => \A e \in 0..i : f[e] = h[e]
      BY <1>0, <3>4, SolvesOnce
    <3>6. a[d] = b[d]
      <4>1. d \in 0..d
        OBVIOUS
      <4>2. \A f, h : Solves(f, d, c, base, down, F, S) /\ Solves(h, n, c, base, down, F, S)
                    => \A e \in 0..d : f[e] = h[e]
        BY <3>4, <3>5
      <4> QED BY <3>3, <4>1, <4>2
    <3> QED BY <3>1, <3>2, <3>6
  <2>5. CASE n >= c
    BY <2>3, <2>4, <2>5
  <2>6. CASE n < c
    BY <2>3, <2>6
  <2> QED BY <1>0, <2>5, <2>6
<1> QED BY <1>3, <1>4 DEF Solution

-----------------------------------------------------------------------------
(* The length bytes *)

USE ReaderAssumption

Quot(n) == n \div Base
Rem(n) == n % Base

LEMMA Division ==
  ASSUME NEW n \in Nat
  PROVE  n = Base * Quot(n) + Rem(n) /\ Rem(n) \in 0..(Base - 1) /\ Quot(n) \in Nat
BY DEF Quot, Rem

LEMMA SmallQuotient ==
  ASSUME NEW n \in Nat
  PROVE  /\ n >= Base => Quot(n) < n
         /\ \A k \in Nat : n < Base * k => Quot(n) < k
<1>1. PICK q \in Nat : q = Quot(n)
  BY Division
<1>2. PICK r \in 0..(Base - 1) : r = Rem(n)
  BY Division
<1>3. n = Base * q + r
  BY <1>1, <1>2, Division
<1>4. ASSUME n >= Base PROVE q < n
  <2>1. q >= 1 => Base * q >= 2 * q
    BY <1>1
  <2> QED BY <1>1, <1>2, <1>3, <1>4, <2>1
<1>5. ASSUME NEW k \in Nat, n < Base * k PROVE q < k
  <2>1. q >= k => Base * q >= Base * k
    BY <1>1, <1>5
  <2> QED BY <1>1, <1>2, <1>3, <1>5, <2>1
<1> QED BY <1>1, <1>4, <1>5

\* What a byte that another one follows counts, and what the last one does.
LEMMA Remainder ==
  ASSUME NEW d \in 0..(Base - 1)
  PROVE  Rem(d) = d /\ Rem(Base + d) = d
BY DEF Rem

LEMMA EncodeIs ==
  /\ encode = [n \in Nat |-> IF n < Base THEN <<n>> ELSE <<Base + (n % Base)>> \o encode[n \div Base]]
<1> DEFINE base == [n \in Nat |-> IF n < Base THEN <<n>> ELSE <<>>]
           down == [n \in Nat |-> IF n < Base THEN 0 ELSE Quot(n)]
           F == [p \in Nat \X Seq(Byte) |-> <<Base + Rem(p[1])>> \o p[2]]
<1>1. base \in [Nat -> Seq(Byte)]
  <2>1. ASSUME NEW n \in Nat, n < Base PROVE n \in Byte
    BY <2>1 DEF Byte
  <2>2. \A b \in Byte : <<b>> \in Seq(Byte)
    OBVIOUS
  <2> QED BY <2>1, <2>2
<1>2. down \in [Nat -> Nat] /\ \A n \in Nat : n >= Base => down[n] < n
  BY Division, SmallQuotient
<1>3. F \in [Nat \X Seq(Byte) -> Seq(Byte)]
  <2>1. ASSUME NEW n \in Nat, NEW e \in Seq(Byte) PROVE <<Base + Rem(n)>> \o e \in Seq(Byte)
    <3>1. PICK b \in Byte : b = Base + Rem(n)
      <4>1. Rem(n) \in 0..(Base - 1)
        BY Division
      <4>2. Base + Rem(n) \in Byte
        BY <4>1 DEF Byte
      <4> QED BY <4>2
    <3>2. <<b>> \in Seq(Byte)
      OBVIOUS
    <3> QED BY <3>1, <3>2, ConcatProperties
  <2> QED BY <2>1
<1>4. Base \in Nat \ {0}
  OBVIOUS
<1> HIDE DEF base, down, F
<1>5. Solution(Base, base, down, F, Seq(Byte))
  <2>1. Recursive(Base, base, down, F, Seq(Byte))
    BY <1>1, <1>2, <1>3, <1>4 DEF Recursive
  <2> QED BY <2>1, Recursion
<1>6. PICK g \in [Nat -> Seq(Byte)] :
        \A n \in Nat : g[n] = IF n < Base THEN base[n] ELSE F[<<n, g[down[n]]>>]
  BY <1>5 DEF Solution
<1>7. ASSUME NEW n \in Nat
      PROVE  g[n] = IF n < Base THEN <<n>> ELSE <<Base + (n % Base)>> \o g[n \div Base]
  <2>1. CASE n < Base
    BY <1>6, <2>1 DEF base
  <2>2. CASE n >= Base
    <3>1. down[n] = Quot(n) /\ Quot(n) \in Nat
      BY <2>2, Division DEF down
    <3>2. PICK e \in Seq(Byte) : e = g[Quot(n)]
      BY <1>6, <3>1
    <3>3. F[<<n, e>>] = <<Base + Rem(n)>> \o e
      BY DEF F
    <3>4. g[n] = F[<<n, e>>]
      <4>1. ~(n < Base)
        BY <2>2
      <4>2. g[n] = F[<<n, g[down[n]]>>]
        BY <1>6, <4>1
      <4> QED BY <3>1, <3>2, <4>2
    <3>5. ~(n < Base)
      BY <2>2
    <3> QED BY <3>2, <3>3, <3>4, <3>5 DEF Quot, Rem
  <2> QED BY <2>1, <2>2
<1>8. g = [n \in Nat |-> IF n < Base THEN <<n>> ELSE <<Base + (n % Base)>> \o g[n \div Base]]
  BY <1>6, <1>7
<1> QED BY <1>8, Zenon DEF encode

\* The value of at most four length bytes, as a sum.
Multiplier == <<1, 1, Base, Base * Base, Base * Base * Base>>
Sum(h) == <<0, Rem(h[2]),
            Rem(h[2]) + Rem(h[3]) * Base,
            Rem(h[2]) + Rem(h[3]) * Base + Rem(h[4]) * (Base * Base),
            Rem(h[2]) + Rem(h[3]) * Base + Rem(h[4]) * (Base * Base)
              + Rem(h[5]) * (Base * Base * Base)>>

LEMMA Steps ==
  /\ 2 = 1 + 1 /\ 3 = 2 + 1 /\ 4 = 3 + 1 /\ 5 = 4 + 1
  /\ \A L \in 1..5 : \A i \in 1..L : i \in {1, 2, 3, 4, 5}
OBVIOUS

LEMMA DecodedIs ==
  ASSUME NEW h \in Seq(Byte), Len(h) \in 1..5
  PROVE  DecodedTo(h) = Sum(h)[Len(h)] /\ DecodedTo(h) \in Nat
<1> DEFINE IsMultiplier(f) == f = [i \in 1..Len(h) |-> IF i < 3 THEN 1 ELSE f[i - 1] * Base]
           IsValue(f, m) == f = [i \in 1..Len(h) |-> IF i = 1 THEN 0
                                                     ELSE f[i - 1] + (h[i] % Base) * m[i]]
<1>1. PICK m : m = CHOOSE f : IsMultiplier(f)
  OBVIOUS
<1>2. PICK v : v = CHOOSE f : IsValue(f, m)
  OBVIOUS
<1>3. DecodedTo(h) = v[Len(h)]
  BY <1>1, <1>2 DEF DecodedTo
<1>4. PICK L \in 1..5 : L = Len(h)
  OBVIOUS
<1>5. IsMultiplier(m)
  <2>1. PICK f : f = [i \in 1..L |-> Multiplier[i]]
    OBVIOUS
  <2>2. ASSUME NEW i \in 1..L PROVE Multiplier[i] = IF i < 3 THEN 1 ELSE f[i - 1] * Base
    <3>1. i \in {1, 2, 3, 4, 5}
      BY Steps
    <3>2. i > 1 => f[i - 1] = Multiplier[i - 1]
      BY <2>1
    <3> QED BY <3>1, <3>2 DEF Multiplier
  <2>3. f = [i \in 1..L |-> IF i < 3 THEN 1 ELSE f[i - 1] * Base]
    BY <2>1, <2>2
  <2>4. IsMultiplier(f)
    BY <1>4, <2>3
  <2> HIDE DEF IsMultiplier
  <2> QED BY <1>1, <2>4, Zenon
<1>6. \A i \in 1..L : i = 1 \/ m[i] = Multiplier[i]
  <2>1. \A i \in 1..L : m[i] = IF i < 3 THEN 1 ELSE m[i - 1] * Base
    BY <1>4, <1>5
  <2>2. L >= 2 => m[2] = 1
    BY <2>1
  <2>3. L >= 3 => m[3] = m[2] * Base
    BY <2>1
  <2>4. L >= 4 => m[4] = m[3] * Base
    BY <2>1
  <2>5. L >= 5 => m[5] = m[4] * Base
    BY <2>1
  <2> QED BY <2>2, <2>3, <2>4, <2>5, Steps DEF Multiplier
<1>7. ASSUME NEW i \in 1..L PROVE h[i] % Base \in 0..(Base - 1)
  <2>1. PICK b \in Nat : b = h[i]
    BY <1>4, ElementOfSeq DEF Byte
  <2>2. Rem(b) \in 0..(Base - 1)
    BY <2>1, Division
  <2> QED BY <2>1, <2>2 DEF Rem
<1>8. IsValue(v, m)
  <2> DEFINE d(i) == h[i] % Base
             w == <<0, d(2), d(2) + d(3) * Base, d(2) + d(3) * Base + d(4) * (Base * Base),
                    d(2) + d(3) * Base + d(4) * (Base * Base) + d(5) * (Base * Base * Base)>>
  <2>1. PICK f : f = [i \in 1..L |-> w[i]]
    OBVIOUS
  <2>2. ASSUME NEW i \in 1..L PROVE w[i] = IF i = 1 THEN 0 ELSE f[i - 1] + (h[i] % Base) * m[i]
    <3>1. i \in {1, 2, 3, 4, 5}
      BY Steps
    <3>2. i > 1 => f[i - 1] = w[i - 1]
      BY <2>1
    <3>3. i > 1 => m[i] = Multiplier[i]
      BY <1>6
    <3>4. CASE i = 1
      BY <3>4
    <3>5. CASE i = 2
      BY <1>7, <3>2, <3>3, <3>5 DEF Multiplier
    <3>6. CASE i = 3
      BY <3>2, <3>3, <3>6 DEF Multiplier
    <3>7. CASE i = 4
      BY <3>2, <3>3, <3>7 DEF Multiplier
    <3>8. CASE i = 5
      BY <3>2, <3>3, <3>8 DEF Multiplier
    <3> QED BY <3>1, <3>4, <3>5, <3>6, <3>7, <3>8
  <2> HIDE DEF w
  <2>3. f = [i \in 1..L |-> IF i = 1 THEN 0 ELSE f[i - 1] + (h[i] % Base) * m[i]]
    BY <2>1, <2>2
  <2>4. IsValue(f, m)
    BY <1>4, <2>3
  <2> HIDE DEF IsValue
  <2> QED BY <1>2, <2>4, Zenon
<1>9. \A i \in 1..L : v[i] = IF i = 1 THEN 0 ELSE v[i - 1] + (h[i] % Base) * m[i]
  BY <1>4, <1>8
<1>10. v[1] = 0
  BY <1>9
<1>11. L >= 2 => v[2] = Rem(h[2]) /\ v[2] \in Nat
  <2> SUFFICES ASSUME L >= 2 PROVE v[2] = Rem(h[2]) /\ v[2] \in Nat
    OBVIOUS
  <2>1. 2 \in 1..L /\ 2 # 1 /\ 2 - 1 = 1
    OBVIOUS
  <2>2. v[2] = v[1] + (h[2] % Base) * m[2]
    BY <1>9, <2>1
  <2>3. m[2] = 1
    BY <1>6, <2>1 DEF Multiplier
  <2>4. PICK d \in Nat : d = h[2] % Base
    BY <1>7, <2>1
  <2> QED BY <1>10, <2>2, <2>3, <2>4 DEF Rem
<1>12. ASSUME NEW i \in {3, 4, 5}, L >= i
       PROVE  /\ v[i] = v[i - 1] + Rem(h[i]) * Multiplier[i]
              /\ v[i - 1] \in Nat => v[i] \in Nat
  <2>1. v[i] = v[i - 1] + (h[i] % Base) * m[i] /\ m[i] = Multiplier[i]
    BY <1>6, <1>9, <1>12
  <2>2. PICK d \in Nat : d = h[i] % Base
    BY <1>7, <1>12
  <2>3. PICK p \in Nat : p = Multiplier[i]
    BY DEF Multiplier
  <2>4. d * p \in Nat
    BY <2>2, <2>3
  <2> QED BY <2>1, <2>2, <2>3, <2>4 DEF Rem
<1>13. L >= 3 => v[3] = Rem(h[2]) + Rem(h[3]) * Base /\ v[3] \in Nat
  BY <1>11, <1>12 DEF Multiplier
<1>14. L >= 4 => /\ v[4] = Rem(h[2]) + Rem(h[3]) * Base + Rem(h[4]) * (Base * Base)
                 /\ v[4] \in Nat
  <2>1. L >= 4 => v[4] = v[3] + Rem(h[4]) * (Base * Base) /\ (v[3] \in Nat => v[4] \in Nat)
    BY <1>12 DEF Multiplier
  <2> QED BY <1>13, <2>1
<1>15. L >= 5 => /\ v[5] = Rem(h[2]) + Rem(h[3]) * Base + Rem(h[4]) * (Base * Base)
                             + Rem(h[5]) * (Base * Base * Base)
                 /\ v[5] \in Nat
  <2>1. L >= 5 => v[5] = v[4] + Rem(h[5]) * (Base * Base * Base) /\ (v[4] \in Nat => v[5] \in Nat)
    BY <1>12 DEF Multiplier
  <2> QED BY <1>14, <2>1
<1>16. /\ L = 1 => v[L] = Sum(h)[L] /\ v[L] \in Nat
       /\ L = 2 => v[L] = Sum(h)[L] /\ v[L] \in Nat
       /\ L = 3 => v[L] = Sum(h)[L] /\ v[L] \in Nat
       /\ L = 4 => v[L] = Sum(h)[L] /\ v[L] \in Nat
       /\ L = 5 => v[L] = Sum(h)[L] /\ v[L] \in Nat
  BY <1>10, <1>11, <1>13, <1>14, <1>15 DEF Sum
<1>17. L \in {1, 2, 3, 4, 5}
  OBVIOUS
<1> QED BY <1>3, <1>4, <1>16, <1>17

\* What encode gives for a length of one to four digits.
Digit == 0..(Base - 1)
OneByte(e, n) == \E a \in Digit : e = <<a>> /\ n = a
TwoBytes(e, n) == \E a, b \in Digit : e = <<Base + a, b>> /\ n = a + b * Base
ThreeBytes(e, n) ==
  \E a, b, c \in Digit : e = <<Base + a, Base + b, c>> /\ n = a + b * Base + c * (Base * Base)
FourBytes(e, n) ==
  \E a, b, c, d \in Digit :
     /\ e = <<Base + a, Base + b, Base + c, d>>
     /\ n = a + b * Base + c * (Base * Base) + d * (Base * Base * Base)

LEMMA FirstDigit ==
  ASSUME NEW n \in Nat
  PROVE  /\ n < Base => OneByte(encode[n], n)
         /\ n >= Base => \E a \in Digit, q \in Nat :
              /\ encode[n] = <<Base + a>> \o encode[q] /\ n = a + q * Base
              /\ \A k \in Nat : n < k * Base => q < k
<1>1. encode[n] = IF n < Base THEN <<n>> ELSE <<Base + (n % Base)>> \o encode[n \div Base]
  BY EncodeIs
<1>2. CASE n < Base
  BY <1>1, <1>2 DEF OneByte, Digit
<1>3. CASE n >= Base
  <2>1. PICK a \in Digit : a = Rem(n)
    BY Division DEF Digit
  <2>2. PICK q \in Nat : q = Quot(n)
    BY Division
  <2>3. n = a + q * Base
    BY <2>1, <2>2, Division DEF Digit
  <2>4. \A k \in Nat : n < k * Base => q < k
    BY <2>2, SmallQuotient
  <2>5. ~(n < Base)
    BY <1>3
  <2>6. encode[n] = <<Base + a>> \o encode[q]
    BY <1>1, <2>1, <2>2, <2>5 DEF Rem, Quot
  <2> QED BY <2>3, <2>4, <2>5, <2>6
<1> QED BY <1>2, <1>3

LEMMA JoinTwo ==
  ASSUME NEW a, NEW b
  PROVE  <<a>> \o <<b>> = <<a, b>>
<1>1. PICK S : S = {a, b}
  OBVIOUS
<1>2. <<a>> \in Seq(S) /\ <<b>> \in Seq(S) /\ <<a, b>> \in Seq(S)
  BY <1>1
<1>3. PICK s : s = <<a>> \o <<b>>
  OBVIOUS
<1>4. s \in Seq(S) /\ Len(s) = 2 /\ \A i \in 1..2 : s[i] = <<a, b>>[i]
  BY <1>2, <1>3, ConcatProperties
<1>5. s = <<a, b>>
  BY <1>2, <1>4, SeqEqual
<1> QED BY <1>3, <1>5

LEMMA JoinThree ==
  ASSUME NEW a, NEW b, NEW c
  PROVE  <<a>> \o <<b, c>> = <<a, b, c>>
<1>1. PICK S : S = {a, b, c}
  OBVIOUS
<1>2. <<a>> \in Seq(S) /\ <<b, c>> \in Seq(S) /\ <<a, b, c>> \in Seq(S)
  BY <1>1
<1>3. PICK s : s = <<a>> \o <<b, c>>
  OBVIOUS
<1>4. s \in Seq(S) /\ Len(s) = 3 /\ \A i \in 1..3 : s[i] = <<a, b, c>>[i]
  BY <1>2, <1>3, ConcatProperties
<1>5. s = <<a, b, c>>
  BY <1>2, <1>4, SeqEqual
<1> QED BY <1>3, <1>5

LEMMA JoinFour ==
  ASSUME NEW a, NEW b, NEW c, NEW d
  PROVE  <<a>> \o <<b, c, d>> = <<a, b, c, d>>
<1>1. PICK S : S = {a, b, c, d}
  OBVIOUS
<1>2. <<a>> \in Seq(S) /\ <<b, c, d>> \in Seq(S) /\ <<a, b, c, d>> \in Seq(S)
  BY <1>1
<1>3. PICK s : s = <<a>> \o <<b, c, d>>
  OBVIOUS
<1>4. s \in Seq(S) /\ Len(s) = 4 /\ \A i \in 1..4 : s[i] = <<a, b, c, d>>[i]
  BY <1>2, <1>3, ConcatProperties
<1>5. s = <<a, b, c, d>>
  BY <1>2, <1>4, SeqEqual
<1> QED BY <1>3, <1>5

LEMMA Shapes ==
  ASSUME NEW n \in Nat, n < MaxLength
  PROVE  \/ OneByte(encode[n], n) \/ TwoBytes(encode[n], n)
         \/ ThreeBytes(encode[n], n) \/ FourBytes(encode[n], n)
<1>1. ASSUME NEW k \in Nat, k < Base * Base
      PROVE  OneByte(encode[k], k) \/ TwoBytes(encode[k], k)
  <2>1. CASE k >= Base
    <3>1. PICK a \in Digit, q \in Nat : /\ encode[k] = <<Base + a>> \o encode[q] /\ k = a + q * Base
                                        /\ q < Base
      BY <1>1, <2>1, FirstDigit
    <3>2. PICK b \in Digit : encode[q] = <<b>> /\ q = b
      BY <3>1, FirstDigit DEF OneByte
    <3>3. encode[k] = <<Base + a, b>>
      BY <3>1, <3>2, JoinTwo, Zenon
    <3> QED BY <3>1, <3>2, <3>3 DEF TwoBytes
  <2> QED BY <2>1, FirstDigit
<1>2. ASSUME NEW k \in Nat, k < Base * Base * Base
      PROVE  OneByte(encode[k], k) \/ TwoBytes(encode[k], k) \/ ThreeBytes(encode[k], k)
  <2>1. CASE k >= Base
    <3>1. PICK a \in Digit, q \in Nat : /\ encode[k] = <<Base + a>> \o encode[q] /\ k = a + q * Base
                                        /\ q < Base * Base
      <4>1. PICK p \in Nat : p = Base * Base
        OBVIOUS
      <4>2. k < p * Base
        BY <1>2, <4>1
      <4> QED BY <2>1, <4>1, <4>2, FirstDigit
    <3>2. CASE OneByte(encode[q], q)
      <4>1. PICK b \in Digit : encode[q] = <<b>> /\ q = b
        BY <3>2 DEF OneByte
      <4>2. encode[k] = <<Base + a, b>>
        BY <3>1, <4>1, JoinTwo, Zenon
      <4> QED BY <3>1, <4>1, <4>2 DEF TwoBytes
    <3>3. CASE TwoBytes(encode[q], q)
      <4>1. PICK b \in Digit, c \in Digit : encode[q] = <<Base + b, c>> /\ q = b + c * Base
        BY <3>3 DEF TwoBytes
      <4>2. encode[k] = <<Base + a, Base + b, c>>
        BY <3>1, <4>1, JoinThree, Zenon
      <4>3. k = a + b * Base + c * (Base * Base)
        BY <3>1, <4>1 DEF Digit
      <4> QED BY <4>2, <4>3 DEF ThreeBytes
    <3> QED BY <1>1, <3>1, <3>2, <3>3
  <2> QED BY <2>1, FirstDigit
<1>3. CASE n >= Base
  <2>1. PICK a \in Digit, q \in Nat : /\ encode[n] = <<Base + a>> \o encode[q] /\ n = a + q * Base
                                      /\ q < Base * Base * Base
    <3>1. PICK p \in Nat : p = Base * Base * Base
      OBVIOUS
    <3>2. n < p * Base
      BY <3>1 DEF MaxLength
    <3> QED BY <1>3, <3>1, <3>2, FirstDigit
  <2>2. CASE OneByte(encode[q], q)
    <3>1. PICK b \in Digit : encode[q] = <<b>> /\ q = b
      BY <2>2 DEF OneByte
    <3>2. encode[n] = <<Base + a, b>>
      BY <2>1, <3>1, JoinTwo, Zenon
    <3> QED BY <2>1, <3>1, <3>2 DEF TwoBytes
  <2>3. CASE TwoBytes(encode[q], q)
    <3>1. PICK b \in Digit, c \in Digit : encode[q] = <<Base + b, c>> /\ q = b + c * Base
      BY <2>3 DEF TwoBytes
    <3>2. encode[n] = <<Base + a, Base + b, c>>
      BY <2>1, <3>1, JoinThree, Zenon
    <3>3. n = a + b * Base + c * (Base * Base)
      BY <2>1, <3>1 DEF Digit
    <3> QED BY <3>2, <3>3 DEF ThreeBytes
  <2>4. CASE ThreeBytes(encode[q], q)
    <3>1. PICK b \in Digit, c \in Digit, d \in Digit :
             encode[q] = <<Base + b, Base + c, d>> /\ q = b + c * Base + d * (Base * Base)
      BY <2>4 DEF ThreeBytes
    <3>2. encode[n] = <<Base + a, Base + b, Base + c, d>>
      BY <2>1, <3>1, JoinFour, Zenon
    <3>3. n = a + b * Base + c * (Base * Base) + d * (Base * Base * Base)
      BY <2>1, <3>1 DEF Digit
    <3> QED BY <3>2, <3>3 DEF FourBytes
  <2> QED BY <1>2, <2>1, <2>2, <2>3, <2>4
<1> QED BY <1>3, FirstDigit

\* A length is encoded in one to four bytes, all but the last of which say that
\* another follows, and decoded again.
IsLength(e, n) ==
  /\ e \in Seq(Byte) /\ Len(e) \in 1..4
  /\ \A i \in 1..(Len(e) - 1) : e[i] >= Base
  /\ e[Len(e)] < Base
  /\ \A t \in Byte : DecodedTo(<<t>> \o e) = n

Counts(e, n) ==
  \/ Len(e) = 1 /\ n = Rem(e[1])
  \/ Len(e) = 2 /\ n = Rem(e[1]) + Rem(e[2]) * Base
  \/ Len(e) = 3 /\ n = Rem(e[1]) + Rem(e[2]) * Base + Rem(e[3]) * (Base * Base)
  \/ Len(e) = 4 /\ n = Rem(e[1]) + Rem(e[2]) * Base + Rem(e[3]) * (Base * Base)
                          + Rem(e[4]) * (Base * Base * Base)

LEMMA Decoded ==
  ASSUME NEW e \in Seq(Byte), NEW n, Counts(e, n), NEW t \in Byte
  PROVE  DecodedTo(<<t>> \o e) = n
<1>1. <<t>> \in Seq(Byte)
  OBVIOUS
<1>2. PICK h \in Seq(Byte) : h = <<t>> \o e
  BY <1>1, ConcatProperties
<1>3. Len(h) = Len(e) + 1 /\ \A i \in 1..Len(e) : h[i + 1] = e[i]
  BY <1>1, <1>2, ConcatProperties
<1>4. DecodedTo(h) = Sum(h)[Len(h)]
  <2>1. Len(h) \in 1..5
    BY <1>3 DEF Counts
  <2> QED BY <2>1, DecodedIs
<1>5. CASE Len(e) = 1
  BY <1>2, <1>3, <1>4, <1>5 DEF Sum, Counts
<1>6. CASE Len(e) = 2
  BY <1>2, <1>3, <1>4, <1>6 DEF Sum, Counts
<1>7. CASE Len(e) = 3
  BY <1>2, <1>3, <1>4, <1>7 DEF Sum, Counts
<1>8. CASE Len(e) = 4
  BY <1>2, <1>3, <1>4, <1>8 DEF Sum, Counts
<1> QED BY <1>5, <1>6, <1>7, <1>8 DEF Counts

LEMMA Encoded ==
  ASSUME NEW n \in Nat, n < MaxLength
  PROVE  IsLength(encode[n], n)
<1>1. PICK e : e = encode[n]
  OBVIOUS
<1> SUFFICES IsLength(e, n)
  BY <1>1
<1>2. \A a \in Digit : a \in Byte /\ Base + a \in Byte /\ Rem(a) = a /\ Rem(Base + a) = a
                       /\ a < Base /\ Base + a >= Base
  BY Remainder DEF Digit, Byte
<1>3. CASE OneByte(e, n)
  <2>1. PICK a \in Digit : e = <<a>> /\ n = a
    BY <1>3 DEF OneByte
  <2>2. e \in Seq(Byte) /\ Len(e) = 1 /\ e[1] = a
    BY <1>2, <2>1
  <2>3. n = Rem(e[1])
    BY <1>2, <2>1, <2>2
  <2>4. \A t \in Byte : DecodedTo(<<t>> \o e) = n
    <3>1. Counts(e, n)
      BY <2>2, <2>3 DEF Counts
    <3> QED BY <2>2, <3>1, Decoded
  <2> QED BY <1>2, <2>2, <2>4 DEF IsLength
<1>4. CASE TwoBytes(e, n)
  <2>1. PICK a \in Digit, b \in Digit : e = <<Base + a, b>> /\ n = a + b * Base
    BY <1>4 DEF TwoBytes
  <2>2. e \in Seq(Byte) /\ Len(e) = 2 /\ e[1] = Base + a /\ e[2] = b
    BY <1>2, <2>1
  <2>3. n = Rem(e[1]) + Rem(e[2]) * Base
    BY <1>2, <2>1, <2>2
  <2>4. \A t \in Byte : DecodedTo(<<t>> \o e) = n
    <3>1. Counts(e, n)
      BY <2>2, <2>3 DEF Counts
    <3> QED BY <2>2, <3>1, Decoded
  <2> QED BY <1>2, <2>2, <2>4 DEF IsLength
<1>5. CASE ThreeBytes(e, n)
  <2>1. PICK a \in Digit, b \in Digit, c \in Digit :
           e = <<Base + a, Base + b, c>> /\ n = a + b * Base + c * (Base * Base)
    BY <1>5 DEF ThreeBytes
  <2>2. e \in Seq(Byte) /\ Len(e) = 3 /\ e[1] = Base + a /\ e[2] = Base + b /\ e[3] = c
    BY <1>2, <2>1
  <2>3. n = Rem(e[1]) + Rem(e[2]) * Base + Rem(e[3]) * (Base * Base)
    BY <1>2, <2>1, <2>2
  <2>4. \A t \in Byte : DecodedTo(<<t>> \o e) = n
    <3>1. Counts(e, n)
      BY <2>2, <2>3 DEF Counts
    <3> QED BY <2>2, <3>1, Decoded
  <2> QED BY <1>2, <2>2, <2>4 DEF IsLength
<1>6. CASE FourBytes(e, n)
  <2>1. PICK a \in Digit, b \in Digit, c \in Digit, d \in Digit :
           /\ e = <<Base + a, Base + b, Base + c, d>>
           /\ n = a + b * Base + c * (Base * Base) + d * (Base * Base * Base)
    BY <1>6 DEF FourBytes
  <2>2. /\ e \in Seq(Byte) /\ Len(e) = 4
        /\ e[1] = Base + a /\ e[2] = Base + b /\ e[3] = Base + c /\ e[4] = d
    BY <1>2, <2>1
  <2>3. n = Rem(e[1]) + Rem(e[2]) * Base + Rem(e[3]) * (Base * Base) + Rem(e[4]) * (Base * Base * Base)
    BY <1>2, <2>1, <2>2
  <2>4. \A t \in Byte : DecodedTo(<<t>> \o e) = n
    <3>1. Counts(e, n)
      BY <2>2, <2>3 DEF Counts
    <3> QED BY <2>2, <3>1, Decoded
  <2> QED BY <1>2, <2>2, <2>4 DEF IsLength
<1> QED BY <1>1, <1>3, <1>4, <1>5, <1>6, Shapes

-----------------------------------------------------------------------------
(* The packets of a connection, one after the other *)

\* u[k] is the first k sequences of s together.
Together(u, s) ==
  /\ u \in [0..Len(s) -> Seq(Byte)] /\ u[0] = <<>>
  /\ \A i \in 1..Len(s) : u[i] = u[i - 1] \o s[i]

LEMMA TogetherExists ==
  ASSUME NEW s \in Seq(Seq(Byte))
  PROVE  \E u : Together(u, s)
<1> DEFINE base == [n \in Nat |-> <<>>]
           down == [n \in Nat |-> IF n = 0 THEN 0 ELSE n - 1]
           F == [p \in Nat \X Seq(Byte) |-> IF p[1] \in 1..Len(s) THEN p[2] \o s[p[1]] ELSE p[2]]
<1>1. /\ base \in [Nat -> Seq(Byte)] /\ down \in [Nat -> Nat] /\ 1 \in Nat \ {0}
      /\ base[0] = <<>>
  OBVIOUS
<1>2. ASSUME NEW n \in Nat, n >= 1 PROVE down[n] = n - 1 /\ down[n] < n
  BY <1>2
<1>3. F \in [Nat \X Seq(Byte) -> Seq(Byte)]
  <2>1. ASSUME NEW i \in 1..Len(s), NEW e \in Seq(Byte) PROVE e \o s[i] \in Seq(Byte)
    <3>1. s[i] \in Seq(Byte)
      BY ElementOfSeq
    <3> QED BY <3>1, ConcatProperties
  <2> QED BY <2>1
<1> HIDE DEF base, down, F
<1>4. Solution(1, base, down, F, Seq(Byte))
  <2>1. Recursive(1, base, down, F, Seq(Byte))
    BY <1>1, <1>3, <1>2 DEF Recursive
  <2> QED BY <2>1, Recursion
<1>5. PICK g \in [Nat -> Seq(Byte)] :
        \A n \in Nat : g[n] = IF n < 1 THEN base[n] ELSE F[<<n, g[down[n]]>>]
  BY <1>4 DEF Solution
<1>6. PICK u : u = [i \in 0..Len(s) |-> g[i]]
  OBVIOUS
<1>7. Len(s) \in Nat
  OBVIOUS
<1>8. u \in [0..Len(s) -> Seq(Byte)]
  BY <1>5, <1>6
<1>9. u[0] = <<>>
  <2>1. 0 \in 0..Len(s) /\ 0 < 1
    BY <1>7
  <2>2. g[0] = base[0]
    BY <1>5, <2>1
  <2> QED BY <1>1, <1>6, <2>1, <2>2
<1>10. ASSUME NEW i \in 1..Len(s) PROVE u[i] = u[i - 1] \o s[i]
  <2>1. i - 1 \in 0..Len(s) /\ i \in 0..Len(s) /\ i \in Nat /\ i >= 1 /\ ~(i < 1) /\ i - 1 \in Nat
    BY <1>7
  <2>5. down[i] = i - 1
    BY <1>2, <2>1
  <2>2. PICK e \in Seq(Byte) : e = g[i - 1] /\ e = u[i - 1]
    BY <1>5, <1>6, <2>1
  <2>3. g[i] = F[<<i, e>>]
    BY <1>5, <2>1, <2>2, <2>5
  <2>4. F[<<i, e>>] = e \o s[i]
    BY <2>1 DEF F
  <2>6. u[i] = g[i]
    BY <1>6, <2>1
  <2> QED BY <2>2, <2>3, <2>4, <2>6
<1> QED BY <1>8, <1>9, <1>10 DEF Together

LEMMA FlattenIs ==
  ASSUME NEW s \in Seq(Seq(Byte)), NEW u, Together(u, s)
  PROVE  FlattenSeq(s) = u[Len(s)]
<1>1. PICK n \in Nat : n = Len(s)
  OBVIOUS
<1>2. CASE n = 0
  <2>1. s = <<>>
    BY <1>1, <1>2, EmptySeq
  <2> QED BY <1>1, <1>2, <2>1 DEF FlattenSeq, Together
<1>3. CASE n > 0
  <2> DEFINE Is(f) == f = [i \in 1..Len(s) |-> IF i = 1 THEN s[i] ELSE f[i - 1] \o s[i]]
  <2>1. PICK f : f = CHOOSE g : Is(g)
    OBVIOUS
  <2>2. FlattenSeq(s) = f[Len(s)]
    BY <1>1, <1>3, <2>1 DEF FlattenSeq
  <2>3. \A i \in 1..n : u[i] = IF i = 1 THEN s[i] ELSE u[i - 1] \o s[i]
    <3>1. ASSUME NEW i \in 1..n PROVE u[i] = u[i - 1] \o s[i] /\ s[i] \in Seq(Byte) /\ u[0] = <<>>
      BY <1>1, ElementOfSeq DEF Together
    <3>2. \A e \in Seq(Byte) : <<>> \o e = e
      BY ConcatEmptySeq
    <3>3. ASSUME NEW i \in 1..n, i = 1 PROVE u[i] = s[i]
      <4>1. i - 1 = 0
        BY <3>3
      <4>2. u[i] = u[0] \o s[i] /\ s[i] \in Seq(Byte) /\ u[0] = <<>>
        BY <3>1, <4>1
      <4> QED BY <3>2, <4>2
    <3> QED BY <3>1, <3>3
  <2>4. Is(f)
    <3>1. PICK g : g = [i \in 1..n |-> u[i]]
      OBVIOUS
    <3>2. \A i \in 1..n : i # 1 => i - 1 \in 1..n
      OBVIOUS
    <3>3. \A i \in 1..n : u[i] = IF i = 1 THEN s[i] ELSE g[i - 1] \o s[i]
      BY <2>3, <3>1, <3>2
    <3>4. g = [i \in 1..n |-> IF i = 1 THEN s[i] ELSE g[i - 1] \o s[i]]
      BY <3>1, <3>3
    <3>5. Is(g)
      BY <1>1, <3>4
    <3> HIDE DEF Is
    <3> QED BY <2>1, <3>5, Zenon
  <2>5. \A i \in 1..n : f[i] = IF i = 1 THEN s[i] ELSE f[i - 1] \o s[i]
    BY <1>1, <2>4
  <2> DEFINE D == {i \in 1..n : f[i] # u[i]}
  <2>6. D = {}
    <3> SUFFICES ASSUME D # {} PROVE FALSE
      OBVIOUS
    <3>1. D \subseteq Nat
      OBVIOUS
    <3>2. PICK k \in D : \A y \in D : k <= y
      BY <3>1, LeastOf
    <3>3. k \in 1..n /\ f[k] # u[k]
      BY <3>2
    <3>4. k # 1
      BY <2>3, <2>5, <3>3
    <3>5. k - 1 \in 1..n /\ ~(k <= k - 1)
      BY <3>3, <3>4
    <3>6. f[k - 1] = u[k - 1]
      BY <3>2, <3>5
    <3> QED BY <2>3, <2>5, <3>3, <3>4, <3>6
  <2> QED BY <1>1, <1>3, <2>2, <2>6
<1> QED BY <1>1, <1>2, <1>3

\* The bytes of the first k packets of the script.
Part(s, k) == FlattenSeq([i \in 1..k |-> Bytes(Script[s][i])])
Sent(s) == Part(s, Len(Script[s]))

LEMMA BytesType ==
  ASSUME NEW p \in Packet, Len(p.body) < MaxLength
  PROVE  /\ Bytes(p) \in Seq(Byte) /\ IsLength(encode[Len(p.body)], Len(p.body))
         /\ p.type \in Byte /\ p.body \in Seq(Byte)
<1>1. p.type \in Byte /\ p.body \in Seq(Byte)
  BY DEF Packet
<1>2. IsLength(encode[Len(p.body)], Len(p.body))
  BY <1>1, Encoded
<1>3. PICK e \in Seq(Byte) : e = encode[Len(p.body)]
  BY <1>2 DEF IsLength
<1>4. <<p.type>> \in Seq(Byte)
  BY <1>1
<1>5. <<p.type>> \o e \in Seq(Byte)
  BY <1>4, ConcatProperties
<1>6. (<<p.type>> \o e) \o p.body \in Seq(Byte)
  BY <1>1, <1>5, ConcatProperties
<1> QED BY <1>1, <1>2, <1>3, <1>6 DEF Bytes

LEMMA ScriptPacket ==
  ASSUME NEW s \in Sockets, NEW i \in 1..Len(Script[s])
  PROVE  Script[s][i] \in Packet /\ Len(Script[s][i].body) < MaxLength
<1>1. Script[s] \in Seq(Packet) /\ DOMAIN Script[s] = 1..Len(Script[s])
  BY ScriptAssumption, LenProperties
<1> QED BY <1>1, ScriptAssumption, ElementOfSeq

LEMMA Parts ==
  ASSUME NEW s \in Sockets
  PROVE  /\ Part(s, 0) = <<>>
         /\ \A k \in 0..Len(Script[s]) : Part(s, k) \in Seq(Byte)
         /\ \A k \in 1..Len(Script[s]) : Part(s, k) = Part(s, k - 1) \o Bytes(Script[s][k])
<1>1. PICK n \in Nat : n = Len(Script[s])
  BY ScriptAssumption
<1>2. \A i \in 1..n : Bytes(Script[s][i]) \in Seq(Byte)
  BY <1>1, ScriptPacket, BytesType
<1>3. PICK all : all = [i \in 1..n |-> Bytes(Script[s][i])]
  OBVIOUS
<1>4. all \in Seq(Seq(Byte)) /\ Len(all) = n
  BY <1>2, <1>3
<1>5. PICK u : Together(u, all)
  BY <1>4, TogetherExists
<1>6. ASSUME NEW k \in 0..n PROVE Part(s, k) = u[k]
  <2>1. PICK few : few = [i \in 1..k |-> Bytes(Script[s][i])]
    OBVIOUS
  <2>2. few \in Seq(Seq(Byte)) /\ Len(few) = k /\ \A i \in 1..k : few[i] = all[i]
    BY <1>2, <1>3, <2>1
  <2>3. PICK v : v = [i \in 0..k |-> u[i]]
    OBVIOUS
  <2>4. Together(v, few)
    <3>1. /\ u \in [0..n -> Seq(Byte)] /\ u[0] = <<>>
          /\ \A i \in 1..n : u[i] = u[i - 1] \o all[i]
      BY <1>4, <1>5 DEF Together
    <3>2. \A i \in 0..k : i \in 0..n /\ v[i] = u[i]
      BY <2>3
    <3>3. v \in [0..k -> Seq(Byte)] /\ v[0] = <<>>
      BY <2>3, <3>1, <3>2
    <3>4. ASSUME NEW i \in 1..k PROVE v[i] = v[i - 1] \o few[i]
      <4>1. i \in 1..n /\ v[i] = u[i] /\ v[i - 1] = u[i - 1]
        BY <3>2
      <4>2. few[i] = all[i]
        BY <2>2
      <4> QED BY <3>1, <4>1, <4>2
    <3> QED BY <2>2, <3>3, <3>4 DEF Together
  <2>5. FlattenSeq(few) = v[k]
    BY <2>2, <2>4, FlattenIs
  <2> QED BY <2>1, <2>3, <2>5 DEF Part
<1>7. u[0] = <<>> /\ \A k \in 0..n : u[k] \in Seq(Byte)
  BY <1>4, <1>5 DEF Together
<1>8. ASSUME NEW k \in 1..n PROVE Part(s, k) = Part(s, k - 1) \o Bytes(Script[s][k])
  <2>1. u[k] = u[k - 1] \o all[k] /\ all[k] = Bytes(Script[s][k])
    BY <1>3, <1>4, <1>5 DEF Together
  <2>2. k \in 0..n /\ k - 1 \in 0..n
    OBVIOUS
  <2> QED BY <1>6, <2>1, <2>2
<1>9. 0 \in 0..n
  OBVIOUS
<1> QED BY <1>1, <1>6, <1>7, <1>8, <1>9

\* More packets, more bytes.
LEMMA PartOfSent ==
  ASSUME NEW s \in Sockets, NEW k \in 0..Len(Script[s])
  PROVE  \E r \in Seq(Byte) : Sent(s) = Part(s, k) \o r
<1>1. PICK n \in Nat : n = Len(Script[s])
  BY ScriptAssumption
<1> DEFINE More(i) == \E r \in Seq(Byte) : Sent(s) = Part(s, n - i) \o r
           D == {i \in 0..n : ~More(i)}
<1>2. More(0)
  <2>1. Part(s, n) \in Seq(Byte) /\ <<>> \in Seq(Byte)
    BY <1>1, Parts
  <2>2. Part(s, n) = Part(s, n) \o <<>>
    BY <2>1, ConcatEmptySeq
  <2>3. n - 0 = n
    OBVIOUS
  <2> QED BY <1>1, <2>1, <2>2, <2>3 DEF Sent
<1>3. ASSUME NEW i \in 1..n, More(i - 1) PROVE More(i)
  <2>1. PICK r \in Seq(Byte) : Sent(s) = Part(s, n - (i - 1)) \o r
    BY <1>3
  <2>2. PICK j \in 1..n : j = n - (i - 1) /\ j - 1 = n - i
    BY <1>3
  <2>3. PICK b \in Seq(Byte) : b = Bytes(Script[s][j])
    BY <1>1, ScriptPacket, BytesType
  <2>4. PICK p \in Seq(Byte) : p = Part(s, j - 1)
    BY <1>1, Parts
  <2>5. Sent(s) = (p \o b) \o r
    BY <1>1, <2>1, <2>2, <2>3, <2>4, Parts
  <2>6. Sent(s) = p \o (b \o r) /\ b \o r \in Seq(Byte)
    BY <2>5, ConcatAssociative, ConcatProperties
  <2> QED BY <2>2, <2>4, <2>6
<1>4. D = {}
  <2> SUFFICES ASSUME D # {} PROVE FALSE
    OBVIOUS
  <2>1. D \subseteq Nat
    OBVIOUS
  <2>2. PICK i \in D : \A y \in D : i <= y
    BY <2>1, LeastOf
  <2> HIDE DEF More
  <2>3. i \in 0..n /\ ~More(i)
    BY <2>2
  <2>4. i \in 1..n /\ i - 1 \in 0..n /\ ~(i <= i - 1)
    BY <1>2, <2>3
  <2>5. More(i - 1)
    BY <2>2, <2>4
  <2> QED BY <1>3, <2>3, <2>4, <2>5
<1>5. n - k \in 0..n /\ n - (n - k) = k
  BY <1>1
<1> HIDE DEF More
<1>6. More(n - k)
  BY <1>4, <1>5
<1> QED BY <1>5, <1>6 DEF More

-----------------------------------------------------------------------------
(* The list of sockets *)

\* The list q without its element at i.
LEMMA RemoveAtFacts ==
  ASSUME NEW q \in Seq(Sockets), IsInjective(q), NEW i \in 1..Len(q)
  PROVE  /\ RemoveAt(q, i) \in Seq(Sockets) /\ IsInjective(RemoveAt(q, i))
         /\ Len(RemoveAt(q, i)) = Len(q) - 1
         /\ \A j \in 1..(Len(q) - 1) : RemoveAt(q, i)[j] = q[IF j < i THEN j ELSE j + 1]
         /\ ToSet(RemoveAt(q, i)) = ToSet(q) \ {q[i]}
<1>1. PICK n \in Nat : n = Len(q)
  OBVIOUS
<1>2. /\ DOMAIN q = 1..n
      /\ \A j \in 1..n : q[j] \in Sockets
      /\ \A j, k \in 1..n : q[j] = q[k] => j = k
  BY <1>1, LenProperties, ElementOfSeq DEF IsInjective
<1>3. PICK a : a = SubSeq(q, 1, i - 1)
  OBVIOUS
<1>4. a \in Seq(Sockets) /\ Len(a) = i - 1 /\ \A j \in 1..(i - 1) : a[j] = q[j]
  <2>1. 1 \in Int /\ i - 1 \in Int /\ \A j \in 1..(i - 1) : q[j] \in Sockets
    BY <1>1, <1>2
  <2>2. /\ a \in Seq(Sockets) /\ Len(a) = IF 1 <= i - 1 THEN i - 1 - 1 + 1 ELSE 0
        /\ \A j \in 1..(i - 1 - 1 + 1) : a[j] = q[1 + j - 1]
    BY <1>3, <2>1, SubSeqProperties
  <2> QED BY <1>1, <2>2
<1>5. PICK b : b = SubSeq(q, i + 1, n)
  OBVIOUS
<1>6. b \in Seq(Sockets) /\ Len(b) = n - i /\ \A j \in 1..(n - i) : b[j] = q[i + j]
  <2>1. i + 1 \in Int /\ n \in Int /\ \A j \in (i + 1)..n : q[j] \in Sockets
    BY <1>1, <1>2
  <2>2. /\ b \in Seq(Sockets) /\ Len(b) = IF i + 1 <= n THEN n - (i + 1) + 1 ELSE 0
        /\ \A j \in 1..(n - (i + 1) + 1) : b[j] = q[i + 1 + j - 1]
    BY <1>5, <2>1, SubSeqProperties
  <2>3. CASE i + 1 <= n
    BY <1>1, <2>2, <2>3
  <2>4. CASE i + 1 > n
    <3>1. i = n
      BY <1>1, <2>4
    <3> QED BY <2>2, <2>4, <3>1
  <2> QED BY <1>1, <2>3, <2>4
<1>7. PICK t : t = RemoveAt(q, i)
  OBVIOUS
<1>8. t = a \o b
  BY <1>1, <1>3, <1>5, <1>7 DEF RemoveAt
<1>9. /\ t \in Seq(Sockets) /\ Len(t) = n - 1
      /\ \A j \in 1..(n - 1) : t[j] = IF j <= i - 1 THEN a[j] ELSE b[j - (i - 1)]
  <2>1. /\ t \in Seq(Sockets) /\ Len(t) = Len(a) + Len(b)
        /\ \A j \in 1..(Len(a) + Len(b)) : t[j] = IF j <= Len(a) THEN a[j] ELSE b[j - Len(a)]
    BY <1>4, <1>6, <1>8, ConcatProperties
  <2>2. Len(a) = i - 1 /\ Len(a) + Len(b) = n - 1
    BY <1>1, <1>4, <1>6
  <2> QED BY <2>1, <2>2
<1>10. \A j \in 1..(n - 1) : t[j] = q[IF j < i THEN j ELSE j + 1]
  <2>1. ASSUME NEW j \in 1..(n - 1), j < i PROVE t[j] = q[j]
    BY <1>4, <1>9, <2>1
  <2>2. ASSUME NEW j \in 1..(n - 1), j >= i PROVE t[j] = q[j + 1]
    <3>1. j - (i - 1) \in 1..(n - i) /\ i + (j - (i - 1)) = j + 1
      BY <1>1, <2>2
    <3> QED BY <1>6, <1>9, <2>2, <3>1
  <2> QED BY <1>1, <2>1, <2>2
<1>11. DOMAIN t = 1..(n - 1)
  BY <1>9, LenProperties
<1>12. \A j \in 1..(n - 1) : (IF j < i THEN j ELSE j + 1) \in 1..n
  BY <1>1
<1>13. IsInjective(t)
  <2>1. ASSUME NEW j \in 1..(n - 1), NEW k \in 1..(n - 1), t[j] = t[k] PROVE j = k
    <3>1. PICK x \in 1..n : x = IF j < i THEN j ELSE j + 1
      BY <1>12
    <3>2. PICK y \in 1..n : y = IF k < i THEN k ELSE k + 1
      BY <1>12
    <3>3. t[j] = q[x] /\ t[k] = q[y]
      BY <1>10, <3>1, <3>2
    <3>4. x = y
      BY <1>2, <2>1, <3>3
    <3> QED BY <1>1, <3>1, <3>2, <3>4
  <2> QED BY <1>11, <2>1 DEF IsInjective
<1>14. ToSet(t) = ToSet(q) \ {q[i]}
  <2>1. ASSUME NEW j \in 1..(n - 1) PROVE t[j] \in ToSet(q) \ {q[i]}
    <3>1. PICK x \in 1..n : x = (IF j < i THEN j ELSE j + 1) /\ x # i
      BY <1>1, <1>12
    <3>2. t[j] = q[x] /\ q[x] # q[i]
      BY <1>1, <1>2, <1>10, <3>1
    <3> QED BY <1>2, <3>2 DEF ToSet
  <2>2. ASSUME NEW x \in 1..n, x # i PROVE q[x] \in ToSet(t)
    <3>1. PICK j \in 1..(n - 1) : x = IF j < i THEN j ELSE j + 1
      <4>1. CASE x < i
        BY <1>1, <4>1
      <4>2. CASE x > i
        <5>1. x - 1 \in 1..(n - 1) /\ x = (IF x - 1 < i THEN x - 1 ELSE x - 1 + 1)
          BY <1>1, <4>2
        <5> QED BY <5>1
      <4> QED BY <1>1, <2>2, <4>1, <4>2
    <3>2. t[j] = q[x]
      BY <1>10, <3>1
    <3> QED BY <1>11, <3>2 DEF ToSet
  <2> QED BY <1>2, <1>11, <2>1, <2>2 DEF ToSet
<1> QED BY <1>1, <1>7, <1>9, <1>10, <1>13, <1>14

\* The list with s at its end.
LEMMA AppendFacts ==
  ASSUME NEW q \in Seq(Sockets), IsInjective(q), NEW s \in Sockets, s \notin ToSet(q)
  PROVE  /\ Append(q, s) \in Seq(Sockets) /\ IsInjective(Append(q, s))
         /\ Len(Append(q, s)) = Len(q) + 1 /\ Append(q, s)[Len(q) + 1] = s
         /\ \A j \in 1..Len(q) : Append(q, s)[j] = q[j]
         /\ ToSet(Append(q, s)) = ToSet(q) \cup {s}
<1>1. PICK n \in Nat : n = Len(q)
  OBVIOUS
<1>2. PICK t : t = Append(q, s)
  OBVIOUS
<1>3. t \in Seq(Sockets) /\ Len(t) = n + 1 /\ t[n + 1] = s /\ \A j \in 1..n : t[j] = q[j]
  BY <1>1, <1>2, AppendProperties
<1>4. DOMAIN t = 1..(n + 1) /\ DOMAIN q = 1..n
  BY <1>1, <1>3, LenProperties
<1>5. \A j \in 1..n : q[j] # s
  BY <1>4 DEF ToSet
<1>6. IsInjective(t)
  <2>1. ASSUME NEW j \in 1..(n + 1), NEW k \in 1..(n + 1), t[j] = t[k] PROVE j = k
    <3>1. CASE j \in 1..n /\ k \in 1..n
      BY <1>3, <1>4, <2>1, <3>1 DEF IsInjective
    <3>2. CASE j = n + 1 /\ k \in 1..n
      BY <1>3, <1>5, <2>1, <3>2
    <3>3. CASE j \in 1..n /\ k = n + 1
      BY <1>3, <1>5, <2>1, <3>3
    <3> QED BY <3>1, <3>2, <3>3
  <2> QED BY <1>4, <2>1 DEF IsInjective
<1>7. ToSet(t) = ToSet(q) \cup {s}
  <2>1. \A j \in 1..(n + 1) : j = n + 1 \/ j \in 1..n
    OBVIOUS
  <2>2. n + 1 \in 1..(n + 1) /\ \A j \in 1..n : j \in 1..(n + 1)
    OBVIOUS
  <2> QED BY <1>3, <1>4, <2>1, <2>2 DEF ToSet
<1> QED BY <1>1, <1>2, <1>3, <1>6, <1>7

ListOK == clientsds \in Seq(Sockets) /\ IsInjective(clientsds)

LEMMA PlaceFacts ==
  ASSUME ListOK, NEW s
  PROVE  /\ Place(s) \in 1..(Len(clientsds) + 1)
         /\ Open(s) => Place(s) \in 1..Len(clientsds) /\ clientsds[Place(s)] = s /\ s \in Sockets
         /\ ~Open(s) => Place(s) = Len(clientsds) + 1
<1>1. DOMAIN clientsds = 1..Len(clientsds) /\ Len(clientsds) \in Nat
  BY LenProperties DEF ListOK
<1>2. CASE Open(s)
  <2>1. \E i \in 1..Len(clientsds) : clientsds[i] = s
    BY <1>1, <1>2 DEF Open, ToSet
  <2>2. Place(s) = CHOOSE i \in 1..Len(clientsds) : clientsds[i] = s
    BY <1>2 DEF Place
  <2>3. Place(s) \in 1..Len(clientsds) /\ clientsds[Place(s)] = s
    BY <2>1, <2>2, Zenon
  <2>4. s \in Sockets
    BY <2>3, ElementOfSeq DEF ListOK
  <2> QED BY <1>1, <1>2, <2>3, <2>4
<1>3. CASE ~Open(s)
  BY <1>1, <1>3 DEF Place
<1> QED BY <1>2, <1>3

LEMMA PlaceOf ==
  ASSUME ListOK, NEW i \in 1..Len(clientsds)
  PROVE  Open(clientsds[i]) /\ Place(clientsds[i]) = i /\ clientsds[i] \in Sockets
<1>1. DOMAIN clientsds = 1..Len(clientsds)
  BY LenProperties DEF ListOK
<1>2. PICK s : s = clientsds[i]
  OBVIOUS
<1>3. Open(s)
  BY <1>1, <1>2 DEF Open, ToSet
<1>4. Place(s) \in 1..Len(clientsds) /\ clientsds[Place(s)] = s /\ s \in Sockets
  BY <1>3, PlaceFacts
<1>5. Place(s) = i
  BY <1>1, <1>2, <1>4 DEF IsInjective, ListOK
<1> QED BY <1>2, <1>3, <1>4, <1>5

LEMMA AfterFacts ==
  ASSUME ListOK, NEW i \in 1..Len(clientsds)
  PROVE  /\ After(i) \in ToSet(clientsds) \cup {NoSocket}
         /\ Place(After(i)) = i + 1
<1>1. Len(clientsds) \in Nat
  BY LenProperties DEF ListOK
<1>2. CASE i < Len(clientsds)
  <2>1. i + 1 \in 1..Len(clientsds) /\ After(i) = clientsds[i + 1]
    BY <1>1, <1>2 DEF After
  <2> QED BY <2>1, PlaceOf DEF Open
<1>3. CASE i = Len(clientsds)
  <2>1. After(i) = NoSocket
    BY <1>1, <1>3 DEF After
  <2>2. ~Open(NoSocket)
    BY PlaceFacts
  <2> QED BY <1>3, <2>1, <2>2, PlaceFacts
<1> QED BY <1>1, <1>2, <1>3

-----------------------------------------------------------------------------
(* What a call of MQTTPacket_Factory has read *)

\* The two parts of a sequence of bytes.
LEMMA SplitAt ==
  ASSUME NEW q \in Seq(Byte), NEW n \in 0..Len(q)
  PROVE  /\ SubSeq(q, 1, n) \in Seq(Byte) /\ Len(SubSeq(q, 1, n)) = n
         /\ \A i \in 1..n : SubSeq(q, 1, n)[i] = q[i]
         /\ SubSeq(q, n + 1, Len(q)) \in Seq(Byte)
         /\ q = SubSeq(q, 1, n) \o SubSeq(q, n + 1, Len(q))
<1>1. PICK m \in Nat : m = Len(q)
  OBVIOUS
<1>2. \A i \in 1..m : q[i] \in Byte
  BY <1>1, ElementOfSeq
<1>3. /\ SubSeq(q, 1, n) \in Seq(Byte) /\ Len(SubSeq(q, 1, n)) = n
      /\ \A i \in 1..n : SubSeq(q, 1, n)[i] = q[i]
  <2>1. 1 \in Int /\ n \in Int /\ \A j \in 1..n : q[j] \in Byte
    BY <1>1, <1>2
  <2>2. /\ SubSeq(q, 1, n) \in Seq(Byte) /\ Len(SubSeq(q, 1, n)) = IF 1 <= n THEN n - 1 + 1 ELSE 0
        /\ \A j \in 1..(n - 1 + 1) : SubSeq(q, 1, n)[j] = q[1 + j - 1]
    BY <2>1, SubSeqProperties
  <2> QED BY <1>1, <2>2
<1>4. SubSeq(q, n + 1, m) \in Seq(Byte)
  <2>1. n + 1 \in Int /\ m \in Int /\ \A j \in (n + 1)..m : q[j] \in Byte
    BY <1>1, <1>2
  <2> QED BY <2>1, SubSeqProperties
<1>5. q = SubSeq(q, 1, n) \o SubSeq(q, n + 1, m)
  <2>1. 1 \in 1..(m + 1) /\ n \in (1 - 1)..m /\ m \in n..m
    BY <1>1
  <2>2. SubSeq(q, 1, n) \o SubSeq(q, n + 1, m) = SubSeq(q, 1, m)
    BY <1>1, <2>1, ConcatAdjacentSubSeq
  <2> QED BY <1>1, <2>2, SubSeqFull
<1> QED BY <1>1, <1>3, <1>4, <1>5

\* SubSeq of bytes that may be more than there are is still one of bytes.
LEMMA TailType ==
  ASSUME NEW q \in Seq(Byte), NEW n \in Nat
  PROVE  SubSeq(q, n + 1, Len(q)) \in Seq(Byte)
<1>1. n + 1 \in Int /\ Len(q) \in Int /\ \A j \in (n + 1)..Len(q) : q[j] \in Byte
  BY ElementOfSeq
<1> QED BY <1>1, SubSeqProperties

Stored(s) == queues[s].header \o inbuf[s]
Ends(s) == {i \in 2..Len(Stored(s)) : Stored(s)[i] < Base}
Cut(s) == IF Ends(s) = {} THEN Len(Stored(s)) ELSE Min(Ends(s))
Header(s) == SubSeq(Stored(s), 1, Cut(s))
Data(s) == queues[s].data \o SubSeq(Stored(s), Cut(s) + 1, Len(Stored(s)))
Short(s) == IF Ends(s) = {} THEN Cut(s) < MaxHeader ELSE Cut(s) <= MaxHeader
Whole(s) == Short(s) /\ Ends(s) # {} /\ Len(Data(s)) >= DecodedTo(Header(s))
EndSeen(s) == s \in broken /\ (Ends(s) = {} \/ Data(s) = queues[s].data)

reads(s) ==
  LET length == DecodedTo(Header(s))
  IN /\ Whole(s)
     /\ got' = [got EXCEPT ![s] = Append(@, [type |-> Header(s)[1],
                                             body |-> SubSeq(Data(s), 1, length)])]
     /\ complete(s) /\ inbuf' = [inbuf EXCEPT ![s] = SubSeq(Data(s), length + 1, Len(Data(s)))]
     /\ UNCHANGED failed

stops(s) ==
  /\ Short(s) /\ ~Whole(s)
  /\ interrupted(s, Header(s), Data(s)) /\ inbuf' = [inbuf EXCEPT ![s] = <<>>]
  /\ UNCHANGED <<failed, got>>

breaksOff(s) ==
  /\ ~Short(s) \/ EndSeen(s)
  /\ fail(s, SubSeq(Header(s), 1, Min({Cut(s), MaxHeader})))
  /\ inbuf' = [inbuf EXCEPT ![s] = SubSeq(Stored(s), MaxHeader + 1, Len(Stored(s)))]
  /\ UNCHANGED got

LEMMA FactoryCases ==
  ASSUME NEW s, Factory(s)
  PROVE  reads(s) \/ stops(s) \/ breaksOff(s)
BY DEF Factory, reads, stops, breaksOff, Stored, Ends, Cut, Header, Data, Short, Whole, EndSeen

LEMMA MinOf ==
  ASSUME NEW S, S \subseteq Nat, S # {}
  PROVE  Min(S) \in S /\ \A x \in S : Min(S) <= x
<1>1. \E x \in S : \A y \in S : x <= y
  BY LeastOf
<1> QED BY <1>1, Zenon DEF Min

ByteTypes ==
  /\ queues \in [Sockets -> Queue]
  /\ \A s \in Sockets : Len(queues[s].header) <= MaxHeader
  /\ inbuf \in [Sockets -> Seq(Byte)]

LEMMA ReadTypes ==
  ASSUME ByteTypes, NEW s \in Sockets
  PROVE  /\ queues[s].header \in Seq(Byte) /\ queues[s].data \in Seq(Byte) /\ inbuf[s] \in Seq(Byte)
         /\ Stored(s) \in Seq(Byte) /\ Cut(s) \in 0..Len(Stored(s))
         /\ Header(s) \in Seq(Byte) /\ Len(Header(s)) = Cut(s)
         /\ \A i \in 1..Cut(s) : Header(s)[i] = Stored(s)[i]
         /\ SubSeq(Stored(s), Cut(s) + 1, Len(Stored(s))) \in Seq(Byte)
         /\ Stored(s) = Header(s) \o SubSeq(Stored(s), Cut(s) + 1, Len(Stored(s)))
         /\ Data(s) \in Seq(Byte)
         /\ Ends(s) = {} => Cut(s) = Len(Stored(s)) /\ \A i \in 2..Len(Stored(s)) : Stored(s)[i] >= Base
         /\ Ends(s) # {} => /\ Cut(s) \in Ends(s) /\ Cut(s) >= 2 /\ Stored(s)[Cut(s)] < Base
                            /\ \A i \in 2..(Cut(s) - 1) : Stored(s)[i] >= Base
<1>1. queues[s].header \in Seq(Byte) /\ queues[s].data \in Seq(Byte) /\ inbuf[s] \in Seq(Byte)
  BY DEF ByteTypes, Queue
<1>2. PICK b \in Seq(Byte) : b = Stored(s)
  BY <1>1, ConcatProperties DEF Stored
<1>3. PICK m \in Nat : m = Len(b)
  OBVIOUS
<1>4. \A i \in 1..m : b[i] \in Byte /\ b[i] \in Nat
  BY <1>3, ElementOfSeq DEF Byte
<1>5. Ends(s) = {i \in 2..m : b[i] < Base}
  BY <1>2, <1>3 DEF Ends
<1>6. ASSUME Ends(s) # {}
      PROVE  /\ Cut(s) \in Ends(s) /\ Cut(s) \in 2..m /\ b[Cut(s)] < Base
             /\ \A i \in 2..(Cut(s) - 1) : b[i] >= Base
  <2>1. Ends(s) \subseteq Nat
    BY <1>5
  <2>2. Cut(s) \in Ends(s) /\ \A x \in Ends(s) : Cut(s) <= x
    BY <1>6, <2>1, MinOf DEF Cut
  <2>3. PICK c \in 2..m : c = Cut(s) /\ b[c] < Base
    BY <1>5, <2>2
  <2>4. ASSUME NEW i \in 2..(c - 1) PROVE b[i] >= Base
    <3>1. i \in 2..m /\ ~(c <= i) /\ i \in 1..m
      BY <1>3, <2>3
    <3>2. i \notin Ends(s)
      BY <2>2, <2>3, <3>1
    <3>3. ~(b[i] < Base) /\ b[i] \in Nat
      BY <1>4, <1>5, <3>1, <3>2
    <3> QED BY <3>3
  <2> QED BY <2>2, <2>3, <2>4
<1>7. PICK c \in 0..m : c = Cut(s)
  <2>1. Cut(s) \in 0..m
    BY <1>2, <1>3, <1>6 DEF Cut
  <2> QED BY <2>1
<1>8. /\ SubSeq(b, 1, c) \in Seq(Byte) /\ Len(SubSeq(b, 1, c)) = c
      /\ \A i \in 1..c : SubSeq(b, 1, c)[i] = b[i]
      /\ SubSeq(b, c + 1, Len(b)) \in Seq(Byte)
      /\ b = SubSeq(b, 1, c) \o SubSeq(b, c + 1, Len(b))
  BY <1>3, SplitAt
<1>9. Data(s) \in Seq(Byte)
  BY <1>1, <1>2, <1>7, <1>8, ConcatProperties DEF Data
<1>10. Ends(s) = {} => c = m /\ \A i \in 2..m : b[i] >= Base
  BY <1>2, <1>3, <1>4, <1>5, <1>7 DEF Cut
<1> HIDE DEF Ends, Cut
<1>11. /\ Stored(s) \in Seq(Byte) /\ Cut(s) \in 0..Len(Stored(s))
       /\ Header(s) \in Seq(Byte) /\ Len(Header(s)) = Cut(s)
       /\ \A i \in 1..Cut(s) : Header(s)[i] = Stored(s)[i]
  BY <1>2, <1>3, <1>7, <1>8 DEF Header
<1>12. /\ SubSeq(Stored(s), Cut(s) + 1, Len(Stored(s))) \in Seq(Byte)
       /\ Stored(s) = Header(s) \o SubSeq(Stored(s), Cut(s) + 1, Len(Stored(s)))
  BY <1>2, <1>7, <1>8 DEF Header
<1>13. Ends(s) = {} => Cut(s) = Len(Stored(s)) /\ \A i \in 2..Len(Stored(s)) : Stored(s)[i] >= Base
  BY <1>2, <1>3, <1>7, <1>10
<1>14. Ends(s) # {} => /\ Cut(s) \in Ends(s) /\ Cut(s) >= 2 /\ Stored(s)[Cut(s)] < Base
                       /\ \A i \in 2..(Cut(s) - 1) : Stored(s)[i] >= Base
  BY <1>2, <1>6
<1> QED BY <1>1, <1>9, <1>11, <1>12, <1>13, <1>14

-----------------------------------------------------------------------------
(* Types *)

\* With what TypeOK leaves out: the header in the default queue fits its buffer.
TypeInv == TypeOK /\ Len(def_queue.header) <= MaxHeader

DefType(q) == q \in [socket : Sockets \cup {NoSocket}, header : Seq(Byte)] /\ Len(q.header) <= MaxHeader

LEMMA Parted ==
  ASSUME TypeInv
  PROVE  ByteTypes /\ ListOK /\ DefType(def_queue)
BY DEF TypeInv, TypeOK, ByteTypes, ListOK, DefType

LEMMA FreeTypes ==
  /\ Unused \in Queue /\ Len(Unused.header) <= MaxHeader /\ DefType(FreeQueue)
  /\ <<>> \in Seq(Byte) /\ Len(<<>>) = 0
BY EmptySeq DEF Unused, Queue, FreeQueue, MaxHeader, DefType

\* A queue for one socket.
LEMMA QueueSet ==
  ASSUME ByteTypes, NEW s \in Sockets, NEW q \in Queue, Len(q.header) <= MaxHeader,
         queues' = [queues EXCEPT ![s] = q]
  PROVE  queues' \in [Sockets -> Queue] /\ \A t \in Sockets : Len(queues'[t].header) <= MaxHeader
BY DEF ByteTypes

LEMMA ReadsTypes ==
  ASSUME TypeInv, NEW s \in Sockets, reads(s)
  PROVE  /\ queues' \in [Sockets -> Queue] /\ \A t \in Sockets : Len(queues'[t].header) <= MaxHeader
         /\ DefType(def_queue') /\ inbuf' \in [Sockets -> Seq(Byte)]
         /\ got' \in [Sockets -> Seq(Packet)] /\ failed' = failed
<1>1. ByteTypes /\ got \in [Sockets -> Seq(Packet)]
  BY Parted DEF TypeInv, TypeOK
<1>2. PICK h \in Seq(Byte) : h = Header(s) /\ Len(h) \in 2..5 /\ h[1] \in Byte
  <2>1. Ends(s) # {} /\ Cut(s) <= MaxHeader
    BY DEF reads, Whole, Short
  <2>2. Header(s) \in Seq(Byte) /\ Len(Header(s)) \in 2..5
    <3>1. PICK b \in Seq(Byte) : b = Header(s) /\ Len(b) = Cut(s)
      BY <1>1, ReadTypes
    <3>2. PICK k \in Nat : k = Len(b) /\ k = Cut(s)
      BY <3>1, LenProperties
    <3>3. Cut(s) >= 2
      BY <1>1, <2>1, ReadTypes
    <3>4. k \in 2..5
      BY <2>1, <3>2, <3>3 DEF MaxHeader
    <3> QED BY <3>1, <3>2, <3>4
  <2> QED BY <2>2, ElementOfSeq
<1>3. PICK d \in Seq(Byte) : d = Data(s)
  BY <1>1, ReadTypes
<1>4. PICK n \in 0..Len(d) : n = DecodedTo(h)
  <2>1. DecodedTo(h) \in Nat
    BY <1>2, DecodedIs
  <2>2. Len(d) >= DecodedTo(h)
    BY <1>2, <1>3 DEF reads, Whole
  <2> QED BY <2>1, <2>2
<1>5. SubSeq(d, 1, n) \in Seq(Byte) /\ SubSeq(d, n + 1, Len(d)) \in Seq(Byte)
  BY SplitAt
<1>6. PICK p \in Packet : p = [type |-> h[1], body |-> SubSeq(d, 1, n)]
  BY <1>2, <1>5 DEF Packet
<1>7. got' = [got EXCEPT ![s] = Append(got[s], p)]
  BY <1>2, <1>3, <1>4, <1>6 DEF reads
<1>8. Append(got[s], p) \in Seq(Packet)
  BY <1>1, AppendProperties
<1>9. got' \in [Sockets -> Seq(Packet)]
  BY <1>1, <1>7, <1>8
<1>10. inbuf' = [inbuf EXCEPT ![s] = SubSeq(d, n + 1, Len(d))]
  BY <1>2, <1>3, <1>4 DEF reads
<1>11. inbuf' \in [Sockets -> Seq(Byte)]
  BY <1>1, <1>5, <1>10 DEF ByteTypes
<1>12. queues' = [queues EXCEPT ![s] = Unused] /\ def_queue' = FreeQueue /\ failed' = failed
  BY DEF reads, complete
<1> QED BY <1>1, <1>9, <1>11, <1>12, QueueSet, FreeTypes

LEMMA StopsTypes ==
  ASSUME TypeInv, NEW s \in Sockets, stops(s)
  PROVE  /\ queues' \in [Sockets -> Queue] /\ \A t \in Sockets : Len(queues'[t].header) <= MaxHeader
         /\ DefType(def_queue') /\ inbuf' \in [Sockets -> Seq(Byte)]
         /\ got' = got /\ failed' = failed
<1>1. ByteTypes /\ DefType(def_queue)
  BY Parted
<1>2. Header(s) \in Seq(Byte) /\ Data(s) \in Seq(Byte) /\ Len(Header(s)) <= MaxHeader
  BY <1>1, ReadTypes DEF stops, Short, MaxHeader
<1>3. PICK u : u = IF Saved(s) \/ Owns(s) THEN [socket |-> s, header |-> Header(s)] ELSE def_queue
  OBVIOUS
<1>4. /\ queues' = IF u.header = <<>> THEN queues
                   ELSE [queues EXCEPT ![u.socket] = [header |-> u.header, data |-> Data(s)]]
      /\ def_queue' = IF Saved(s) THEN def_queue ELSE FreeQueue
      /\ inbuf' = [inbuf EXCEPT ![s] = <<>>] /\ got' = got /\ failed' = failed
  BY <1>3 DEF stops, interrupted
<1>5. u.socket \in Sockets /\ u.header \in Seq(Byte) /\ Len(u.header) <= MaxHeader
  <2>1. CASE Saved(s) \/ Owns(s)
    BY <1>2, <1>3, <2>1
  <2>2. CASE ~(Saved(s) \/ Owns(s))
    BY <1>1, <1>3, <2>2 DEF DefType, Owns
  <2> QED BY <2>1, <2>2
<1>6. PICK q \in Queue : q = [header |-> u.header, data |-> Data(s)] /\ Len(q.header) <= MaxHeader
  <2>1. [header |-> u.header, data |-> Data(s)] \in Queue
    BY <1>2, <1>5 DEF Queue
  <2>2. Len([header |-> u.header, data |-> Data(s)].header) <= MaxHeader
    BY <1>5
  <2> QED BY <2>1, <2>2, Zenon
<1>7. queues' \in [Sockets -> Queue] /\ \A t \in Sockets : Len(queues'[t].header) <= MaxHeader
  <2>1. CASE u.header = <<>>
    BY <1>1, <1>4, <2>1 DEF ByteTypes
  <2>2. CASE u.header # <<>>
    <3>1. queues' = [queues EXCEPT ![u.socket] = q]
      BY <1>4, <1>6, <2>2
    <3> QED BY <1>1, <1>5, <1>6, <3>1, QueueSet
  <2> QED BY <2>1, <2>2
<1>8. DefType(def_queue')
  BY <1>1, <1>4, FreeTypes
<1>9. inbuf' \in [Sockets -> Seq(Byte)]
  BY <1>1, <1>4, FreeTypes DEF ByteTypes
<1> QED BY <1>4, <1>7, <1>8, <1>9

LEMMA BreaksOffTypes ==
  ASSUME TypeInv, NEW s \in Sockets, breaksOff(s)
  PROVE  /\ queues' \in [Sockets -> Queue] /\ \A t \in Sockets : Len(queues'[t].header) <= MaxHeader
         /\ DefType(def_queue') /\ inbuf' \in [Sockets -> Seq(Byte)]
         /\ got' = got /\ failed' = failed \cup {s}
<1>1. ByteTypes /\ DefType(def_queue)
  BY Parted
<1>2. PICK b \in Seq(Byte) : b = Stored(s)
  BY <1>1, ReadTypes
<1>3. PICK h \in Seq(Byte) : h = Header(s) /\ Len(h) = Cut(s)
  BY <1>1, ReadTypes
<1>4. PICK n \in 0..Len(h) : n = Min({Cut(s), MaxHeader}) /\ n <= MaxHeader
  <2>1. {Cut(s), MaxHeader} \subseteq Nat /\ {Cut(s), MaxHeader} # {}
    BY <1>3 DEF MaxHeader
  <2>2. /\ Min({Cut(s), MaxHeader}) \in {Cut(s), MaxHeader}
        /\ \A x \in {Cut(s), MaxHeader} : Min({Cut(s), MaxHeader}) <= x
    BY <2>1, MinOf
  <2>3. Min({Cut(s), MaxHeader}) \in Nat /\ Min({Cut(s), MaxHeader}) <= Cut(s) /\ Min({Cut(s), MaxHeader}) <= MaxHeader
    BY <2>1, <2>2
  <2> QED BY <1>3, <2>3
<1>5. PICK g \in Seq(Byte) : g = SubSeq(h, 1, n) /\ Len(g) <= MaxHeader
  BY <1>4, SplitAt
<1>6. PICK r \in Seq(Byte) : r = SubSeq(b, MaxHeader + 1, Len(b))
  BY TailType DEF MaxHeader
<1>7. /\ fail(s, g) /\ got' = got /\ inbuf' = [inbuf EXCEPT ![s] = r]
  BY <1>2, <1>3, <1>4, <1>5, <1>6 DEF breaksOff
<1>8. inbuf' \in [Sockets -> Seq(Byte)]
  BY <1>1, <1>7 DEF ByteTypes
<1>9. CASE Saved(s)
  <2>1. PICK q \in Queue : q = [queues[s] EXCEPT !.header = g] /\ Len(q.header) <= MaxHeader
    <3>1. PICK o \in Queue : o = queues[s]
      BY <1>1 DEF ByteTypes
    <3>2. [o EXCEPT !.header = g] \in Queue
      BY DEF Queue
    <3>3. [o EXCEPT !.header = g].header = g
      BY DEF Queue
    <3>4. Len([o EXCEPT !.header = g].header) <= MaxHeader
      BY <1>5, <3>3
    <3> QED BY <3>1, <3>2, <3>4
  <2>2. queues' = [queues EXCEPT ![s] = q] /\ def_queue' = def_queue
    BY <1>1, <1>7, <1>9, <2>1 DEF fail
  <2> QED BY <1>1, <1>7, <1>8, <2>1, <2>2, QueueSet DEF fail
<1>10. CASE ~Saved(s)
  <2>1. DefType(def_queue')
    <3>1. def_queue' = [socket |-> s, header |-> g] \/ def_queue' = def_queue
      BY <1>7, <1>10 DEF fail
    <3>2. DefType([socket |-> s, header |-> g])
      BY <1>5 DEF DefType
    <3> QED BY <1>1, <3>1, <3>2
  <2> QED BY <1>1, <1>7, <1>8, <1>10, <2>1 DEF fail, ByteTypes
<1> QED BY <1>9, <1>10

returns(i) ==
  /\ taken' = clientsds[i] /\ cur' = After(i)
  /\ overtaken' = [s \in Sockets |->
                     IF s \in Readable \ {clientsds[i]} THEN overtaken[s] + 1 ELSE 0]

\* From the rest of the last select, from a new one, or nothing is ready.
fromRest(i) == i \in FirstOf(ready, Place(cur)) /\ returns(i) /\ ready' = ready
fromFresh(i) ==
  /\ FirstOf(ready, Place(cur)) = {} /\ i \in FirstOf(Readable, 1)
  /\ returns(i) /\ ready' = Readable
findsNone ==
  /\ FirstOf(ready, Place(cur)) = {} /\ FirstOf(Readable, 1) = {}
  /\ ready' = {} /\ cur' = NoSocket /\ taken' = taken /\ overtaken' = overtaken

LEMMA GetCases ==
  ASSUME ListOK, getReadySocket
  PROVE  /\ taken = NoSocket /\ (ReaderCloses => failed = {})
         /\ UNCHANGED <<clientsds, failed, queues, def_queue, got, network>>
         /\ \/ \E i \in 1..Len(clientsds) : fromRest(i) \/ fromFresh(i)
            \/ findsNone
<1>1. /\ taken = NoSocket /\ (ReaderCloses => failed = {})
      /\ UNCHANGED <<clientsds, failed, queues, def_queue, got, network>>
  BY DEF getReadySocket
<1>2. \/ \E i \in FirstOf(ready, Place(cur)) : fromRest(i)
      \/ \E i \in FirstOf(Readable, 1) : fromFresh(i)
      \/ findsNone
  BY DEF getReadySocket, fromRest, fromFresh, findsNone, returns
<1>3. FirstOf(ready, Place(cur)) \subseteq 1..Len(clientsds)
  <2>1. Place(cur) \in Nat /\ Place(cur) >= 1 /\ Len(clientsds) \in Nat
    BY PlaceFacts, LenProperties DEF ListOK
  <2>2. PICK p \in Nat : p = Place(cur) /\ p >= 1
    BY <2>1
  <2>3. p..Len(clientsds) \subseteq 1..Len(clientsds)
    BY <2>1, <2>2
  <2> QED BY <2>2, <2>3 DEF FirstOf
<1>4. FirstOf(Readable, 1) \subseteq 1..Len(clientsds)
  BY DEF FirstOf
<1> QED BY <1>1, <1>2, <1>3, <1>4

Listed == clientsds \in Seq(Sockets) /\ IsInjective(clientsds) /\ cur \in ToSet(clientsds) \cup {NoSocket}
Marks == /\ ready \subseteq Sockets /\ taken \in Sockets \cup {NoSocket}
         /\ failed \subseteq ToSet(clientsds) /\ broken \subseteq ToSet(clientsds)
Buffered == /\ queues \in [Sockets -> Queue] /\ \A s \in Sockets : Len(queues[s].header) <= MaxHeader
            /\ DefType(def_queue)
Streams == /\ got \in [Sockets -> Seq(Packet)]
           /\ inbuf \in [Sockets -> Seq(Byte)] /\ coming \in [Sockets -> Seq(Byte)]
Counted == /\ conns \in [Sockets -> 0..MaxConns] /\ breaks \in 0..MaxBreaks
           /\ overtaken \in [Sockets -> Nat]

LEMMA TypeParts == TypeInv <=> Listed /\ Marks /\ Buffered /\ Streams /\ Counted
BY DEF TypeInv, TypeOK, Listed, Marks, Buffered, Streams, Counted, DefType

LEMMA InitTypes == Init => TypeInv
<1> SUFFICES ASSUME Init PROVE TypeInv
  OBVIOUS
<1> USE DEF Init
<1>1. <<>> \in Seq(Sockets) /\ IsInjective(<<>>) /\ ToSet(<<>>) = {} /\ <<>> \in Seq(Packet)
  BY DEF IsInjective, ToSet
<1>2. Listed /\ Marks
  BY <1>1 DEF Listed, Marks
<1>3. Buffered
  BY FreeTypes DEF Buffered
<1>4. Streams
  BY <1>1, FreeTypes DEF Streams
<1>5. Counted
  BY DEF Counted
<1> QED BY <1>2, <1>3, <1>4, <1>5, TypeParts

LEMMA GetTypes ==
  ASSUME TypeInv, getReadySocket
  PROVE  TypeInv'
<1>1. Listed /\ Marks /\ Buffered /\ Streams /\ Counted /\ ListOK
  BY TypeParts, Parted
<1>2. UNCHANGED <<clientsds, failed, queues, def_queue, got, network>>
  BY <1>1, GetCases
<1>3. Readable \subseteq Sockets
  BY DEF Readable
<1>4. ASSUME NEW i \in 1..Len(clientsds), returns(i)
      PROVE  /\ taken' \in Sockets \cup {NoSocket} /\ cur' \in ToSet(clientsds) \cup {NoSocket}
             /\ overtaken' \in [Sockets -> Nat]
  <2>1. clientsds[i] \in Sockets
    BY <1>1, PlaceOf
  <2>2. After(i) \in ToSet(clientsds) \cup {NoSocket}
    BY <1>1, AfterFacts
  <2>3. overtaken' \in [Sockets -> Nat]
    BY <1>1, <1>4 DEF Counted, returns
  <2> QED BY <1>4, <2>1, <2>2, <2>3 DEF returns
<1>5. /\ taken' \in Sockets \cup {NoSocket} /\ cur' \in ToSet(clientsds) \cup {NoSocket}
      /\ overtaken' \in [Sockets -> Nat] /\ ready' \subseteq Sockets
  <2>1. CASE \E i \in 1..Len(clientsds) : fromRest(i)
    BY <1>1, <1>4, <2>1 DEF fromRest, Marks
  <2>2. CASE \E i \in 1..Len(clientsds) : fromFresh(i)
    BY <1>3, <1>4, <2>2 DEF fromFresh
  <2>3. CASE findsNone
    BY <1>1, <2>3 DEF findsNone, Marks, Counted
  <2> QED BY <1>1, <2>1, <2>2, <2>3, GetCases
<1>6. Listed' /\ Marks'
  BY <1>1, <1>2, <1>5 DEF Listed, Marks, network
<1>7. Buffered' /\ Streams' /\ Counted'
  BY <1>1, <1>2, <1>5 DEF Buffered, Streams, Counted, DefType, network
<1> QED BY <1>6, <1>7, TypeParts, PTL

LEMMA CycleTypes ==
  ASSUME TypeInv, cycle
  PROVE  TypeInv'
<1>1. Listed /\ Marks /\ Buffered /\ Streams /\ Counted
  BY TypeParts
<1>2. /\ UNCHANGED <<lists, coming, broken, conns, breaks, overtaken>> /\ taken' = NoSocket
  BY DEF cycle
<1>3. CASE Open(taken)
  <2>1. taken \in Sockets
    BY <1>1, <1>3, Parted, PlaceFacts
  <2>2. reads(taken) \/ stops(taken) \/ breaksOff(taken)
    BY <1>3, FactoryCases DEF cycle
  <2>3. /\ queues' \in [Sockets -> Queue] /\ \A t \in Sockets : Len(queues'[t].header) <= MaxHeader
        /\ DefType(def_queue') /\ inbuf' \in [Sockets -> Seq(Byte)]
        /\ got' \in [Sockets -> Seq(Packet)] /\ (failed' = failed \/ failed' = failed \cup {taken})
    BY <1>1, <2>1, <2>2, ReadsTypes, StopsTypes, BreaksOffTypes DEF Streams
  <2>4. Listed' /\ Marks'
    BY <1>1, <1>2, <1>3, <2>3 DEF Listed, Marks, lists, Open
  <2>5. Buffered' /\ Streams' /\ Counted'
    BY <1>1, <1>2, <2>3 DEF Buffered, Streams, Counted, DefType
  <2> QED BY <2>4, <2>5, TypeParts, PTL
<1>4. CASE ~Open(taken)
  <2>1. UNCHANGED <<queues, def_queue, got, failed, inbuf>>
    BY <1>4 DEF cycle
  <2>2. Listed' /\ Marks'
    BY <1>1, <1>2, <2>1 DEF Listed, Marks, lists
  <2>3. Buffered' /\ Streams' /\ Counted'
    BY <1>1, <1>2, <2>1 DEF Buffered, Streams, Counted, DefType
  <2> QED BY <2>2, <2>3, TypeParts, PTL
<1> QED BY <1>3, <1>4

\* A closed socket leaves the list, and the element looked at next stays in it.
LEMMA CloseList ==
  ASSUME Listed, NEW s \in Sockets, close(s)
  PROVE  /\ Listed' /\ ToSet(clientsds') = ToSet(clientsds) \ {s}
<1>1. ListOK /\ Open(s) /\ clientsds' = RemoveAt(clientsds, Place(s)) /\ cur' = CurWithout(s)
  BY DEF Listed, ListOK, close
<1>2. PICK p \in 1..Len(clientsds) : p = Place(s) /\ clientsds[p] = s
  BY <1>1, PlaceFacts
<1>3. /\ clientsds' \in Seq(Sockets) /\ IsInjective(clientsds')
      /\ ToSet(clientsds') = ToSet(clientsds) \ {s}
  <2>1. clientsds \in Seq(Sockets) /\ IsInjective(clientsds)
    BY <1>1 DEF ListOK
  <2> QED BY <1>1, <1>2, <2>1, RemoveAtFacts
<1>4. cur' \in (ToSet(clientsds) \ {s}) \cup {NoSocket}
  <2>1. CASE cur = s
    <3>1. cur' = After(p) /\ After(p) \in ToSet(clientsds) \cup {NoSocket} /\ Place(After(p)) = p + 1
      BY <1>1, <1>2, <2>1, AfterFacts DEF CurWithout
    <3>2. p + 1 # p
      OBVIOUS
    <3>3. After(p) # s
      BY <1>2, <3>1, <3>2
    <3> QED BY <3>1, <3>3
  <2>2. CASE cur # s
    BY <1>1, <2>2 DEF CurWithout, Listed
  <2> QED BY <2>1, <2>2
<1> QED BY <1>3, <1>4 DEF Listed

LEMMA CloseTypes ==
  ASSUME TypeInv, NEW s \in Sockets, close(s)
  PROVE  TypeInv'
<1>1. Listed /\ Marks /\ Buffered /\ Streams /\ Counted /\ ByteTypes
  BY TypeParts, Parted
<1>2. Listed' /\ ToSet(clientsds') = ToSet(clientsds) \ {s}
  BY <1>1, CloseList
<1>3. /\ failed' = failed \ {s} /\ broken' = broken \ {s}
      /\ UNCHANGED <<ready, taken, got, conns, breaks, overtaken>>
      /\ inbuf' = [inbuf EXCEPT ![s] = <<>>] /\ coming' = [coming EXCEPT ![s] = <<>>]
      /\ queues' = [queues EXCEPT ![s] = Unused]
      /\ def_queue' = FreeQueue \/ def_queue' = def_queue
  BY DEF close, cleanup
<1>4. Marks'
  BY <1>1, <1>2, <1>3 DEF Marks
<1>5. Buffered'
  <2>1. queues' \in [Sockets -> Queue] /\ \A t \in Sockets : Len(queues'[t].header) <= MaxHeader
    BY <1>1, <1>3, QueueSet, FreeTypes
  <2>2. DefType(def_queue')
    BY <1>1, <1>3, FreeTypes DEF Buffered
  <2> QED BY <2>1, <2>2 DEF Buffered, DefType
<1>6. Streams' /\ Counted'
  BY <1>1, <1>3, FreeTypes DEF Streams, Counted
<1> QED BY <1>2, <1>4, <1>5, <1>6, TypeParts, PTL

LEMMA SentType ==
  ASSUME NEW s \in Sockets
  PROVE  /\ Sent(s) \in Seq(Byte)
         /\ FlattenSeq([i \in DOMAIN Script[s] |-> Bytes(Script[s][i])]) = Sent(s)
<1>1. Script[s] \in Seq(Packet)
  BY ScriptAssumption
<1>2. PICK n \in Nat : n = Len(Script[s]) /\ DOMAIN Script[s] = 1..n
  BY <1>1, LenProperties
<1>3. n \in 0..n
  OBVIOUS
<1> QED BY <1>2, <1>3, Parts DEF Sent, Part

LEMMA NewTypes ==
  ASSUME TypeInv, NEW s \in Sockets, new(s)
  PROVE  TypeInv'
<1>1. Listed /\ Marks /\ Buffered /\ Streams /\ Counted
  BY TypeParts
<1>2. /\ UNCHANGED <<cur, ready, taken, failed, queues, def_queue, inbuf, broken, breaks>>
      /\ conns' = [conns EXCEPT ![s] = @ + 1] /\ conns[s] < MaxConns
      /\ clientsds' = Append(clientsds, s) /\ s \notin ToSet(clientsds)
      /\ got' = [got EXCEPT ![s] = <<>>]
      /\ coming' = [coming EXCEPT ![s] = Sent(s)]
      /\ overtaken' = [overtaken EXCEPT ![s] = 0]
  BY SentType DEF new, Open
<1>3. /\ clientsds' \in Seq(Sockets) /\ IsInjective(clientsds')
      /\ ToSet(clientsds') = ToSet(clientsds) \cup {s}
  BY <1>1, <1>2, AppendFacts DEF Listed
<1>4. Listed' /\ Marks'
  BY <1>1, <1>2, <1>3 DEF Listed, Marks
<1>5. Buffered'
  BY <1>1, <1>2 DEF Buffered, DefType
<1>6. Streams'
  <2>1. <<>> \in Seq(Packet)
    OBVIOUS
  <2> QED BY <1>1, <1>2, <2>1, SentType DEF Streams
<1>7. Counted'
  <2>1. conns[s] + 1 \in 0..MaxConns
    BY <1>1, <1>2 DEF Counted
  <2> QED BY <1>1, <1>2, <2>1 DEF Counted
<1> QED BY <1>4, <1>5, <1>6, <1>7, TypeParts, PTL

\* What arrives is the first part of what is under way.
LEMMA ArriveFacts ==
  ASSUME Streams, NEW s \in Sockets, arrive(s)
  PROVE  \E a, b \in Seq(Byte) :
            /\ coming[s] = a \o b
            /\ inbuf' = [inbuf EXCEPT ![s] = inbuf[s] \o a]
            /\ coming' = [coming EXCEPT ![s] = b]
<1>1. PICK q \in Seq(Byte) : q = coming[s]
  BY DEF Streams
<1>2. PICK n \in 1..Len(q) : /\ inbuf' = [inbuf EXCEPT ![s] = @ \o SubSeq(q, 1, n)]
                             /\ coming' = [coming EXCEPT ![s] = SubSeq(q, n + 1, Len(q))]
  BY <1>1 DEF arrive
<1>3. n \in 0..Len(q)
  OBVIOUS
<1>4. PICK a \in Seq(Byte) : a = SubSeq(q, 1, n)
  BY <1>3, SplitAt
<1>5. PICK b \in Seq(Byte) : b = SubSeq(q, n + 1, Len(q))
  BY <1>3, SplitAt
<1>6. q = a \o b
  BY <1>3, <1>4, <1>5, SplitAt
<1>7. inbuf' = [inbuf EXCEPT ![s] = inbuf[s] \o a] /\ coming' = [coming EXCEPT ![s] = b]
  BY <1>2, <1>4, <1>5
<1> QED BY <1>1, <1>6, <1>7

LEMMA NetworkTypes ==
  ASSUME TypeInv, NEW s \in Sockets, arrive(s) \/ break(s)
  PROVE  TypeInv'
<1>1. Listed /\ Marks /\ Buffered /\ Streams /\ Counted
  BY TypeParts
<1>2. CASE arrive(s)
  <2>1. UNCHANGED <<lists, taken, failed, queues, def_queue, got, broken, conns, breaks, overtaken>>
    BY <1>2 DEF arrive
  <2>2. PICK a \in Seq(Byte), b \in Seq(Byte) :
            /\ inbuf' = [inbuf EXCEPT ![s] = inbuf[s] \o a]
            /\ coming' = [coming EXCEPT ![s] = b]
    BY <1>1, <1>2, ArriveFacts
  <2>3. inbuf[s] \o a \in Seq(Byte)
    BY <1>1, ConcatProperties DEF Streams
  <2>4. Streams'
    BY <1>1, <2>1, <2>2, <2>3 DEF Streams
  <2>5. Listed' /\ Marks'
    BY <1>1, <2>1 DEF Listed, Marks, lists
  <2>6. Buffered' /\ Counted'
    BY <1>1, <2>1 DEF Buffered, Counted, DefType
  <2> QED BY <2>4, <2>5, <2>6, TypeParts, PTL
<1>3. CASE break(s)
  <2>1. /\ UNCHANGED <<lists, taken, failed, queues, def_queue, got, inbuf, conns, overtaken>>
        /\ broken' = broken \cup {s} /\ breaks' = breaks + 1 /\ breaks < MaxBreaks
        /\ coming' = [coming EXCEPT ![s] = <<>>] /\ s \in ToSet(clientsds)
    BY <1>3 DEF break, Open
  <2>2. Streams' /\ Counted'
    BY <1>1, <2>1, FreeTypes DEF Streams, Counted
  <2>3. Listed' /\ Marks'
    BY <1>1, <2>1 DEF Listed, Marks, lists
  <2>4. Buffered'
    BY <1>1, <2>1 DEF Buffered, DefType
  <2> QED BY <2>2, <2>3, <2>4, TypeParts, PTL
<1> QED BY <1>2, <1>3

LEMMA TypesStep ==
  ASSUME TypeInv, [Next]_vars
  PROVE  TypeInv'
<1>1. CASE getReadySocket
  BY <1>1, GetTypes
<1>2. CASE cycle
  BY <1>2, CycleTypes
<1>3. ASSUME NEW s \in Sockets, close(s) \/ new(s) \/ arrive(s) \/ break(s) PROVE TypeInv'
  BY <1>3, CloseTypes, NewTypes, NetworkTypes
<1>4. CASE UNCHANGED vars
  BY <1>4 DEF TypeInv, TypeOK, vars, lists, network
<1> QED BY <1>1, <1>2, <1>3, <1>4 DEF Next

\* Every variable keeps its type, for any sockets, packets and connections; in
\* particular the header of an unfinished packet, also in the default queue, fits
\* the buffer SocketBuffer has for it.
THEOREM TypesKept == Spec => []TypeOK
<1>1. Init => TypeInv
  BY InitTypes
<1>2. TypeInv /\ [Next]_vars => TypeInv'
  BY TypesStep
<1>3. TypeInv => TypeOK
  BY DEF TypeInv
<1> QED BY <1>1, <1>2, <1>3, PTL DEF Spec

-----------------------------------------------------------------------------
(* Where one packet ends and the next begins *)

\* A header up to its last length byte, and one whose last byte is still to come.
Complete(h) ==
  /\ Len(h) \in 2..MaxHeader /\ h[Len(h)] < Base
  /\ \A i \in 2..(Len(h) - 1) : h[i] >= Base
Partial(h) == Len(h) < MaxHeader /\ \A i \in 2..Len(h) : h[i] >= Base

\* Sequences of bytes of one length that begin the same bytes are equal.
LEMMA SameStart ==
  ASSUME NEW a \in Seq(Byte), NEW b \in Seq(Byte), NEW x \in Seq(Byte), NEW y \in Seq(Byte),
         a \o x = b \o y, Len(a) = Len(b)
  PROVE  a = b /\ x = y
<1>1. PICK n \in Nat : n = Len(a) /\ n = Len(b)
  OBVIOUS
<1>2. a \o x \in Seq(Byte) /\ b \o y \in Seq(Byte)
  BY ConcatProperties
<1>3. ASSUME NEW i \in 1..n PROVE a[i] = b[i]
  <2>1. i \in 1..(Len(a) + Len(x)) /\ i \in 1..(Len(b) + Len(y)) /\ i <= Len(a) /\ i <= Len(b)
    BY <1>1
  <2>2. (a \o x)[i] = a[i]
    BY <2>1, ConcatProperties
  <2>3. (b \o y)[i] = b[i]
    BY <2>1, ConcatProperties
  <2> QED BY <2>2, <2>3
<1>4. a = b
  <2>1. DOMAIN a = 1..n /\ DOMAIN b = 1..n
    BY <1>1, LenProperties
  <2>2. a = [i \in 1..n |-> a[i]] /\ b = [i \in 1..n |-> b[i]]
    BY <1>1, LenProperties
  <2>3. [i \in 1..n |-> a[i]] = [i \in 1..n |-> b[i]]
    BY <1>3
  <2> QED BY <2>2, <2>3
<1>5. x = y
  BY <1>4, ConcatSimplifications
<1> QED BY <1>4, <1>5

\* So are two whole headers.
LEMMA SameHeader ==
  ASSUME NEW h \in Seq(Byte), NEW g \in Seq(Byte), NEW x \in Seq(Byte), NEW y \in Seq(Byte),
         Complete(h), Complete(g), h \o x = g \o y
  PROVE  h = g /\ x = y
<1>1. PICK n \in 2..5 : n = Len(h) /\ h[n] < Base /\ \A i \in 2..(n - 1) : h[i] >= Base
  BY DEF Complete, MaxHeader
<1>2. PICK m \in 2..5 : m = Len(g) /\ g[m] < Base /\ \A i \in 2..(m - 1) : g[i] >= Base
  BY DEF Complete, MaxHeader
<1>3. \A i \in 1..n : (h \o x)[i] = h[i]
  <2>1. \A i \in 1..n : i \in 1..(Len(h) + Len(x)) /\ i <= Len(h)
    BY <1>1
  <2> QED BY <2>1, ConcatProperties
<1>4. \A i \in 1..m : (g \o y)[i] = g[i]
  <2>1. \A i \in 1..m : i \in 1..(Len(g) + Len(y)) /\ i <= Len(g)
    BY <1>2
  <2> QED BY <2>1, ConcatProperties
<1>5. n = m
  <2>1. ASSUME n < m PROVE FALSE
    <3>1. n \in 2..(m - 1) /\ n \in 1..n /\ n \in 1..m
      BY <2>1
    <3>2. h[n] = g[n]
      BY <1>3, <1>4, <3>1
    <3>3. g[n] >= Base /\ h[n] < Base /\ h[n] \in Nat
      BY <1>1, <1>2, <3>1, ElementOfSeq DEF Byte
    <3> QED BY <3>2, <3>3
  <2>2. ASSUME m < n PROVE FALSE
    <3>1. m \in 2..(n - 1) /\ m \in 1..n /\ m \in 1..m
      BY <2>2
    <3>2. h[m] = g[m]
      BY <1>3, <1>4, <3>1
    <3>3. h[m] >= Base /\ g[m] < Base /\ g[m] \in Nat
      BY <1>1, <1>2, <3>1, ElementOfSeq DEF Byte
    <3> QED BY <3>2, <3>3
  <2> QED BY <2>1, <2>2
<1> QED BY <1>1, <1>2, <1>5, SameStart

\* The header of a packet is whole.
LEMMA PacketHeader ==
  ASSUME NEW p \in Packet, Len(p.body) < MaxLength
  PROVE  /\ <<p.type>> \o encode[Len(p.body)] \in Seq(Byte)
         /\ Complete(<<p.type>> \o encode[Len(p.body)])
         /\ DecodedTo(<<p.type>> \o encode[Len(p.body)]) = Len(p.body)
         /\ (<<p.type>> \o encode[Len(p.body)])[1] = p.type
<1>1. PICK e : e = encode[Len(p.body)]
  OBVIOUS
<1>2. IsLength(e, Len(p.body)) /\ p.type \in Byte
  BY <1>1, BytesType
<1>3. PICK n \in 1..4 : n = Len(e)
  BY <1>2 DEF IsLength
<1>4. e \in Seq(Byte) /\ e[n] < Base /\ \A i \in 1..(n - 1) : e[i] >= Base
  BY <1>2, <1>3 DEF IsLength
<1>5. PICK a \in Seq(Byte) : a = <<p.type>> /\ Len(a) = 1 /\ a[1] = p.type
  <2>1. <<p.type>> \in Seq(Byte) /\ Len(<<p.type>>) = 1 /\ <<p.type>>[1] = p.type
    BY <1>2
  <2> QED BY <2>1, Zenon
<1>6. PICK h \in Seq(Byte) : h = <<p.type>> \o e
  BY <1>4, <1>5, ConcatProperties
<1>7. /\ Len(h) = n + 1 /\ h[1] = p.type
      /\ \A i \in 2..(n + 1) : h[i] = e[i - 1]
  <2>1. /\ Len(h) = Len(a) + Len(e)
        /\ \A i \in 1..(Len(a) + Len(e)) : h[i] = IF i <= Len(a) THEN a[i] ELSE e[i - Len(a)]
    BY <1>4, <1>5, <1>6, ConcatProperties
  <2>2. /\ Len(h) = 1 + n
        /\ \A i \in 1..(1 + n) : h[i] = IF i <= 1 THEN a[i] ELSE e[i - 1]
    BY <1>3, <1>5, <2>1
  <2>3. ASSUME NEW i \in 2..(n + 1) PROVE h[i] = e[i - 1]
    BY <2>2
  <2>4. h[1] = a[1]
    BY <2>2
  <2> QED BY <1>5, <2>2, <2>3, <2>4
<1>8. Complete(h)
  <2>1. n + 1 \in 2..(n + 1) /\ (n + 1) - 1 = n /\ n + 1 \in 2..5
    OBVIOUS
  <2>2. h[n + 1] < Base
    BY <1>4, <1>7, <2>1
  <2>3. ASSUME NEW i \in 2..n PROVE h[i] >= Base
    <3>1. i \in 2..(n + 1) /\ i - 1 \in 1..(n - 1)
      OBVIOUS
    <3> QED BY <1>4, <1>7, <3>1
  <2> QED BY <1>7, <2>1, <2>2, <2>3 DEF Complete, MaxHeader
<1>9. DecodedTo(h) = Len(p.body)
  BY <1>2, <1>6 DEF IsLength
<1> QED BY <1>1, <1>6, <1>7, <1>8, <1>9

\* The header h is that of p, and the rest x its body and r.
IsNext(h, x, p, r) == h[1] = p.type /\ DecodedTo(h) = Len(p.body) /\ x = p.body \o r

\* Bytes that begin with a whole header and are those of a packet and more: the
\* header is the packet's, and the packet's body follows.
LEMMA PacketIs ==
  ASSUME NEW h \in Seq(Byte), Complete(h), NEW x \in Seq(Byte), NEW r \in Seq(Byte),
         NEW p \in Packet, Len(p.body) < MaxLength, h \o x = Bytes(p) \o r
  PROVE  IsNext(h, x, p, r)
<1>1. PICK g \in Seq(Byte) : g = <<p.type>> \o encode[Len(p.body)]
  BY PacketHeader
<1>2. Complete(g) /\ DecodedTo(g) = Len(p.body) /\ g[1] = p.type
  BY <1>1, PacketHeader
<1>3. PICK b \in Seq(Byte) : b = p.body
  BY BytesType
<1>4. Bytes(p) = g \o b
  BY <1>1, <1>3 DEF Bytes
<1>5. b \o r \in Seq(Byte)
  BY ConcatProperties
<1>6. h \o x = g \o (b \o r)
  BY <1>4, ConcatAssociative
<1>7. h = g /\ x = b \o r
  BY <1>2, <1>5, <1>6, SameHeader
<1> QED BY <1>2, <1>3, <1>7 DEF IsNext

-----------------------------------------------------------------------------
(* Where a connection stands *)

\* The bytes that are read, or can be, and belong to no packet yet.
Unread(s) == queues[s].header \o (queues[s].data \o inbuf[s])

\* What is saved of a packet: nothing follows a header that is not whole.
Begun(s) ==
  \/ Complete(queues[s].header)
  \/ Partial(queues[s].header) /\ queues[s].data = <<>>

\* After its first k packets the connection is at the unread bytes, followed by
\* those under way and, when it has ended, some that are lost.
InStep(s, k) ==
  \E tail \in Seq(Byte) :
     /\ Sent(s) = Part(s, k) \o (Unread(s) \o (coming[s] \o tail))
     /\ s \notin broken => tail = <<>>
     /\ s \in broken => coming[s] = <<>>

Stream(s) ==
  \E k \in 0..Len(Script[s]) :
     /\ got[s] = SubSeq(Script[s], 1, k)
     /\ s \notin failed => InStep(s, k) /\ Begun(s)

\* A closed socket leaves nothing behind for the next connection of its number.
NoLeft(s) == queues[s] = Unused /\ inbuf[s] = <<>>

\* A failed read is the last one before its socket is closed, so the header it
\* leaves in the default queue meets no other read.
FailedFirst ==
  /\ taken # NoSocket => failed = {}
  /\ def_queue.socket # NoSocket => def_queue.socket \in failed

StreamInv ==
  /\ FailedFirst
  /\ \A s \in Sockets : (Open(s) => Stream(s)) /\ (~Open(s) => NoLeft(s))

LEMMA BegunTypes ==
  ASSUME ByteTypes, NEW s \in Sockets
  PROVE  Unread(s) \in Seq(Byte)
<1>1. queues[s].header \in Seq(Byte) /\ queues[s].data \in Seq(Byte) /\ inbuf[s] \in Seq(Byte)
  BY ReadTypes
<1>2. queues[s].data \o inbuf[s] \in Seq(Byte)
  BY <1>1, ConcatProperties
<1> QED BY <1>1, <1>2, ConcatProperties DEF Unread

\* A call of MQTTPacket_Factory goes on where the last one stopped: what it takes
\* for the header and what follows it are the unread bytes.
LEMMA ReadOn ==
  ASSUME ByteTypes, NEW s \in Sockets, Begun(s)
  PROVE  /\ Unread(s) = Header(s) \o Data(s)
         /\ Ends(s) = {} => Data(s) = <<>>
         /\ Ends(s) = {} /\ Cut(s) < MaxHeader => Partial(Header(s))
         /\ Ends(s) # {} /\ Cut(s) <= MaxHeader => Complete(Header(s))
<1>1. PICK g \in Seq(Byte), o \in Seq(Byte), i \in Seq(Byte) :
         g = queues[s].header /\ o = queues[s].data /\ i = inbuf[s]
  BY ReadTypes
<1>2. PICK b \in Seq(Byte), h \in Seq(Byte), t \in Seq(Byte) :
         /\ b = Stored(s) /\ h = Header(s) /\ t = SubSeq(Stored(s), Cut(s) + 1, Len(Stored(s)))
         /\ b = h \o t /\ b = g \o i
  BY <1>1, ReadTypes DEF Stored
<1>3. PICK c \in Nat : c = Cut(s) /\ c = Len(h)
  <2>1. Cut(s) = Len(h) /\ Len(h) \in Nat
    BY <1>2, ReadTypes, LenProperties
  <2> QED BY <2>1
<1>4. PICK m \in Nat : m = Len(b) /\ c <= m /\ m = c + Len(t) /\ m = Len(g) + Len(i)
  <2>1. Len(b) = Len(h) + Len(t)
    BY <1>2, ConcatProperties
  <2>2. Len(b) = Len(g) + Len(i)
    BY <1>2, ConcatProperties
  <2>3. Len(b) \in Nat /\ Len(t) \in Nat /\ Len(h) = c
    BY <1>3
  <2>4. c <= Len(b)
    BY <2>1, <2>3
  <2> QED BY <2>1, <2>2, <2>3, <2>4
<1>5. Data(s) = o \o t
  BY <1>1, <1>2 DEF Data
<1>6. Unread(s) = g \o (o \o i)
  BY <1>1 DEF Unread
<1>7. Ends(s) = {} => c = m /\ \A j \in 2..m : b[j] >= Base
  BY <1>2, <1>3, <1>4, ReadTypes
<1>8. Ends(s) # {} => c >= 2 /\ b[c] < Base /\ \A j \in 2..(c - 1) : b[j] >= Base
  BY <1>2, <1>3, ReadTypes
<1>9. \A j \in 1..c : h[j] = b[j]
  BY <1>2, <1>3, ReadTypes
<1>10. \A j \in 1..Len(g) : b[j] = g[j]
  <2>1. \A j \in 1..Len(g) : j \in 1..(Len(g) + Len(i)) /\ j <= Len(g)
    OBVIOUS
  <2> QED BY <1>2, <2>1, ConcatProperties
<1>11. \A j \in 1..m : b[j] \in Nat
  <2>1. \A j \in 1..m : b[j] \in Byte
    BY <1>4, ElementOfSeq
  <2>2. \A e \in Byte : e \in Nat
    BY DEF Byte
  <2> QED BY <2>1, <2>2
<1>12. ASSUME Complete(g)
       PROVE  Ends(s) # {} /\ h = g /\ t = i
  <2>1. PICK n \in 2..5 : n = Len(g) /\ g[n] < Base /\ \A j \in 2..(n - 1) : g[j] >= Base
    BY <1>12 DEF Complete, MaxHeader
  <2>2. n \in 1..n /\ n \in 2..m /\ n \in 1..m
    BY <1>4, <2>1
  <2>3. b[n] < Base /\ ~(b[n] >= Base)
    BY <1>10, <1>11, <2>1, <2>2
  <2>4. Ends(s) # {}
    BY <1>7, <2>2, <2>3
  <2>5. c >= 2 /\ b[c] < Base /\ \A j \in 2..(c - 1) : b[j] >= Base
    BY <1>8, <2>4
  <2>6. ~(n < c)
    <3>1. n < c => n \in 2..(c - 1)
      OBVIOUS
    <3> QED BY <2>3, <2>5, <3>1
  <2>7. ~(c < n)
    <3> SUFFICES ASSUME c < n PROVE FALSE
      OBVIOUS
    <3>1. c \in 2..(n - 1) /\ c \in 1..n /\ c \in 1..m
      BY <1>4, <2>5
    <3>2. b[c] = g[c] /\ g[c] >= Base /\ b[c] \in Nat
      BY <1>10, <1>11, <2>1, <3>1
    <3> QED BY <2>5, <3>2
  <2>8. Len(h) = Len(g)
    BY <1>3, <2>1, <2>6, <2>7
  <2>9. h \o t = g \o i
    BY <1>2
  <2> QED BY <2>4, <2>8, <2>9, SameStart
<1>13. Unread(s) = h \o (o \o t)
  <2>1. CASE Complete(g)
    BY <1>6, <1>12, <2>1
  <2>2. CASE o = <<>>
    <3>1. o \o i = i /\ o \o t = t
      BY <2>2, ConcatEmptySeq
    <3> QED BY <1>2, <1>6, <3>1
  <2> QED BY <1>1, <2>1, <2>2 DEF Begun
<1>14. ASSUME Ends(s) = {} PROVE o \o t = <<>>
  <2>1. o = <<>>
    BY <1>1, <1>12, <1>14 DEF Begun
  <2>2. Len(t) = 0
    BY <1>4, <1>7, <1>14
  <2>3. t = <<>>
    BY <2>2, EmptySeq
  <2> QED BY <2>1, <2>3
<1>15. ASSUME Ends(s) = {}, c < MaxHeader PROVE Partial(h)
  <2>1. c = m /\ \A j \in 2..c : b[j] >= Base
    BY <1>7, <1>15
  <2>2. \A j \in 2..c : j \in 1..c
    OBVIOUS
  <2>3. \A j \in 2..c : h[j] >= Base
    BY <1>9, <2>1, <2>2
  <2>4. Len(h) < MaxHeader
    BY <1>3, <1>15
  <2> QED BY <1>3, <2>3, <2>4 DEF Partial
<1>16. ASSUME Ends(s) # {}, c <= MaxHeader PROVE Complete(h)
  <2>1. c \in 2..MaxHeader /\ c \in 1..c
    BY <1>8, <1>16
  <2>2. h[c] < Base
    BY <1>8, <1>9, <1>16, <2>1
  <2>3. \A j \in 2..(c - 1) : j \in 1..c
    OBVIOUS
  <2>4. \A j \in 2..(c - 1) : h[j] >= Base
    BY <1>8, <1>9, <1>16, <2>3
  <2> QED BY <1>3, <2>1, <2>2, <2>4 DEF Complete
<1> QED BY <1>2, <1>3, <1>5, <1>13, <1>14, <1>15, <1>16

LEMMA Joined ==
  \A a, b \in Seq(Byte) : a \o b \in Seq(Byte) /\ Len(a \o b) = Len(a) + Len(b)
BY ConcatProperties

Regrouped(a, b, c) == (a \o b) \o c = a \o (b \o c)

LEMMA Joined3 == \A a, b, c \in Seq(Byte) : Regrouped(a, b, c)
BY ConcatAssociative DEF Regrouped

\* A connection stands where its unread bytes say.
LEMMA StandsAt ==
  ASSUME NEW s \in Sockets, NEW k \in 0..Len(Script[s]),
         NEW g, NEW o, NEW i, NEW c, NEW tail \in Seq(Byte),
         queues'[s].header = g, queues'[s].data = o, inbuf'[s] = i, coming'[s] = c,
         got'[s] = SubSeq(Script[s], 1, k),
         Sent(s) = Part(s, k) \o ((g \o (o \o i)) \o (c \o tail)),
         s \notin broken' => tail = <<>>, s \in broken' => c = <<>>,
         Complete(g) \/ (Partial(g) /\ o = <<>>)
  PROVE  Stream(s)'
<1>1. Unread(s)' = g \o (o \o i)
  BY DEF Unread
<1>2. InStep(s, k)'
  BY <1>1 DEF InStep
<1>3. Begun(s)'
  BY DEF Begun
<1> QED BY <1>2, <1>3 DEF Stream

\* It stays where it is when nothing of it changes.
LEMMA StandsStill ==
  ASSUME NEW s \in Sockets, Stream(s),
         queues'[s] = queues[s], inbuf'[s] = inbuf[s], coming'[s] = coming[s], got'[s] = got[s],
         s \in broken' <=> s \in broken, s \notin failed' => s \notin failed
  PROVE  Stream(s)'
<1>1. PICK k \in 0..Len(Script[s]) :
         /\ got[s] = SubSeq(Script[s], 1, k)
         /\ s \notin failed => InStep(s, k) /\ Begun(s)
  BY DEF Stream
<1>2. InStep(s, k) => InStep(s, k)'
  BY DEF InStep, Unread
<1>3. Begun(s) => Begun(s)'
  BY DEF Begun
<1> QED BY <1>1, <1>2, <1>3 DEF Stream

\* The first packets of a script, and one more.
LEMMA OneMore ==
  ASSUME NEW q \in Seq(Packet), NEW k \in 0..(Len(q) - 1)
  PROVE  Append(SubSeq(q, 1, k), q[k + 1]) = SubSeq(q, 1, k + 1)
<1>1. PICK n \in Nat : n = Len(q)
  OBVIOUS
<1>2. \A j \in 1..n : q[j] \in Packet
  BY <1>1, ElementOfSeq
<1>3. ASSUME NEW j \in 0..n
      PROVE  /\ SubSeq(q, 1, j) \in Seq(Packet) /\ Len(SubSeq(q, 1, j)) = j
             /\ \A i \in 1..j : SubSeq(q, 1, j)[i] = q[i]
  <2>1. 1 \in Int /\ j \in Int /\ \A i \in 1..j : q[i] \in Packet
    BY <1>2
  <2>2. /\ SubSeq(q, 1, j) \in Seq(Packet) /\ Len(SubSeq(q, 1, j)) = IF 1 <= j THEN j - 1 + 1 ELSE 0
        /\ \A i \in 1..(j - 1 + 1) : SubSeq(q, 1, j)[i] = q[1 + i - 1]
    BY <2>1, SubSeqProperties
  <2> QED BY <2>2
<1>4. PICK a \in Seq(Packet) : a = SubSeq(q, 1, k) /\ Len(a) = k /\ \A i \in 1..k : a[i] = q[i]
  <2>1. k \in 0..n
    BY <1>1
  <2> QED BY <1>3, <2>1, Zenon
<1>5. PICK b \in Seq(Packet) : b = SubSeq(q, 1, k + 1) /\ Len(b) = k + 1 /\ \A i \in 1..(k + 1) : b[i] = q[i]
  <2>1. k + 1 \in 0..n
    BY <1>1
  <2> QED BY <1>3, <2>1, Zenon
<1>6. PICK p \in Packet : p = q[k + 1]
  BY <1>1, <1>2
<1>7. PICK c \in Seq(Packet) : /\ c = Append(a, p) /\ Len(c) = k + 1
                               /\ c[k + 1] = p /\ \A i \in 1..k : c[i] = a[i]
  <2>1. Append(a, p) \in Seq(Packet)
    BY AppendProperties
  <2>2. Len(Append(a, p)) = k + 1 /\ Append(a, p)[k + 1] = p
    BY <1>4, AppendProperties
  <2>3. \A i \in 1..k : Append(a, p)[i] = a[i]
    BY <1>4, AppendProperties
  <2> QED BY <2>1, <2>2, <2>3, Zenon
<1>8. \A i \in 1..(k + 1) : c[i] = b[i]
  <2>1. \A i \in 1..(k + 1) : i \in 1..k \/ i = k + 1
    OBVIOUS
  <2>2. k + 1 \in 1..(k + 1) /\ \A i \in 1..k : i \in 1..(k + 1)
    OBVIOUS
  <2> QED BY <1>4, <1>5, <1>6, <1>7, <2>1, <2>2
<1>9. c = b
  BY <1>5, <1>7, <1>8, SeqEqual
<1> QED BY <1>4, <1>5, <1>6, <1>7, <1>9

\* When there is more than the first k packets, the next one follows.
LEMMA NextIs ==
  ASSUME NEW s \in Sockets, NEW k \in 0..Len(Script[s]), NEW z \in Seq(Byte), z # <<>>,
         Sent(s) = Part(s, k) \o z
  PROVE  /\ k < Len(Script[s]) /\ k + 1 \in 1..Len(Script[s])
         /\ \E r \in Seq(Byte) : /\ z = Bytes(Script[s][k + 1]) \o r
                                 /\ Sent(s) = Part(s, k + 1) \o r
<1>1. PICK L \in Nat : L = Len(Script[s])
  BY ScriptAssumption
<1>2. PICK a \in Seq(Byte) : a = Part(s, k)
  BY Parts
<1>3. k # L
  <2> SUFFICES ASSUME k = L PROVE FALSE
    OBVIOUS
  <2>1. a = a \o z
    BY <1>1, <1>2 DEF Sent
  <2>2. z = <<>>
    BY <2>1, ConcatEqualIffEmpty
  <2> QED BY <2>2
<1>4. PICK m \in 1..L : m = k + 1 /\ m - 1 = k /\ m \in 0..L
  BY <1>1, <1>3
<1>5. PICK b \in Seq(Byte) : b = Bytes(Script[s][m])
  BY <1>1, ScriptPacket, BytesType
<1>6. PICK r \in Seq(Byte) : Sent(s) = Part(s, m) \o r
  BY <1>1, <1>4, PartOfSent
<1>7. Part(s, m) = a \o b
  BY <1>1, <1>2, <1>4, <1>5, Parts
<1>8. b \o r \in Seq(Byte) /\ (a \o b) \o r = a \o (b \o r)
  <2>1. b \o r \in Seq(Byte)
    BY Joined
  <2>2. (a \o b) \o r = a \o (b \o r)
    <3>1. Regrouped(a, b, r)
      BY Joined3
    <3> QED BY <3>1 DEF Regrouped
  <2> QED BY <2>1, <2>2
<1>9. a \o z = a \o (b \o r)
  BY <1>2, <1>6, <1>7, <1>8
<1>10. z = b \o r
  BY <1>8, <1>9, ConcatSimplifications
<1>11. k < L /\ k + 1 \in 1..L
  BY <1>4
<1>12. z = Bytes(Script[s][k + 1]) \o r /\ Sent(s) = Part(s, k + 1) \o r
  BY <1>4, <1>5, <1>6, <1>10
<1> QED BY <1>1, <1>11, <1>12

\* The header h and what it counts of d are the packet p, and r is left.
IsRead(h, d, y, p, r) ==
  /\ h[1] = p.type /\ DecodedTo(h) \in 0..Len(d)
  /\ SubSeq(d, 1, DecodedTo(h)) = p.body
  /\ r = SubSeq(d, DecodedTo(h) + 1, Len(d)) \o y

\* What is read with a whole header is the packet that follows.
LEMMA ReadWhole ==
  ASSUME NEW h \in Seq(Byte), NEW d \in Seq(Byte), NEW y \in Seq(Byte), NEW r \in Seq(Byte),
         NEW p \in Packet, Len(p.body) < MaxLength, Complete(h), Len(d) >= DecodedTo(h),
         (h \o d) \o y = Bytes(p) \o r
  PROVE  IsRead(h, d, y, p, r)
<1>1. PICK x \in Seq(Byte) : x = d \o y /\ h \o x = Bytes(p) \o r
  <2>1. d \o y \in Seq(Byte)
    BY Joined, Zenon
  <2>2. (h \o d) \o y = h \o (d \o y)
    <3>1. Regrouped(h, d, y)
      BY Joined3
    <3> QED BY <3>1 DEF Regrouped
  <2> QED BY <2>1, <2>2
<1>2. h[1] = p.type /\ DecodedTo(h) = Len(p.body) /\ d \o y = p.body \o r
  <2>1. IsNext(h, x, p, r)
    BY <1>1, PacketIs
  <2> QED BY <1>1, <2>1 DEF IsNext
<1>3. PICK body \in Seq(Byte) : body = p.body
  BY BytesType
<1>4. PICK n \in 0..Len(d) : n = Len(body) /\ n = DecodedTo(h)
  <2>1. Len(body) \in Nat /\ Len(body) <= Len(d) /\ DecodedTo(h) = Len(body)
    BY <1>2, <1>3
  <2> QED BY <2>1
<1>5. PICK e \in Seq(Byte) : e = SubSeq(d, 1, n) /\ Len(e) = n
  BY SplitAt
<1>6. PICK i \in Seq(Byte) : i = SubSeq(d, n + 1, Len(d))
  BY SplitAt
<1>7. d = e \o i
  BY <1>5, <1>6, SplitAt
<1>8. i \o y \in Seq(Byte)
  BY Joined, Zenon
<1>9. (e \o i) \o y = e \o (i \o y)
  <2>1. Regrouped(e, i, y)
    BY Joined3
  <2> QED BY <2>1 DEF Regrouped
<1>10. e \o (i \o y) = body \o r
  BY <1>2, <1>3, <1>7, <1>9
<1>11. e = body /\ r = i \o y
  <2>1. Len(e) = Len(body)
    BY <1>4, <1>5
  <2> QED BY <1>8, <1>10, <2>1, SameStart
<1> QED BY <1>2, <1>3, <1>4, <1>5, <1>6, <1>11 DEF IsRead

\* A packet that is read is the next one of the connection.
LEMMA ReadsStream ==
  ASSUME TypeInv, NEW s \in Sockets, Stream(s), s \notin failed, reads(s),
         coming' = coming, broken' = broken
  PROVE  Stream(s)'
<1>0. ByteTypes /\ Streams
  BY Parted, TypeParts
<1>1. PICK k \in 0..Len(Script[s]) :
         got[s] = SubSeq(Script[s], 1, k) /\ InStep(s, k) /\ Begun(s)
  BY DEF Stream
<1>2. PICK tail \in Seq(Byte) :
         /\ Sent(s) = Part(s, k) \o (Unread(s) \o (coming[s] \o tail))
         /\ s \notin broken => tail = <<>>
         /\ s \in broken => coming[s] = <<>>
  BY <1>1 DEF InStep
<1>3. PICK h \in Seq(Byte), d \in Seq(Byte) :
         h = Header(s) /\ d = Data(s) /\ Unread(s) = h \o d
  BY <1>0, <1>1, ReadTypes, ReadOn
<1>4. Complete(h) /\ Len(d) >= DecodedTo(h)
  BY <1>0, <1>1, <1>3, ReadOn DEF reads, Whole, Short
<1>5. PICK c \in Seq(Byte) : c = coming[s]
  BY <1>0 DEF Streams
<1>6. PICK y \in Seq(Byte) : y = c \o tail
  BY ConcatProperties
<1>7. PICK z \in Seq(Byte) : z = (h \o d) \o y /\ z # <<>>
  <2>1. h \o d \in Seq(Byte)
    BY Joined
  <2>2. h # <<>>
    BY <1>4 DEF Complete
  <2>3. h \o d # <<>>
    BY <2>2, ConcatEqualIffEmpty
  <2>4. (h \o d) \o y \in Seq(Byte)
    BY <2>1, Joined
  <2>5. (h \o d) \o y # <<>>
    BY <2>1, <2>3, ConcatEqualIffEmpty
  <2> QED BY <2>4, <2>5
<1>8. Sent(s) = Part(s, k) \o z
  BY <1>2, <1>3, <1>5, <1>6, <1>7
<1>9. PICK m \in 1..Len(Script[s]) : m = k + 1 /\ m \in 0..Len(Script[s]) /\ k \in 0..(Len(Script[s]) - 1)
  <2>1. k < Len(Script[s]) /\ k + 1 \in 1..Len(Script[s])
    BY <1>7, <1>8, NextIs, Zenon
  <2>2. Len(Script[s]) \in Nat
    BY ScriptAssumption
  <2>3. k + 1 \in 0..Len(Script[s]) /\ k \in 0..(Len(Script[s]) - 1)
    BY <2>1, <2>2
  <2> QED BY <2>1, <2>3
<1>10. PICK p \in Packet : p = Script[s][m] /\ Len(p.body) < MaxLength
  BY ScriptPacket
<1>11. PICK r \in Seq(Byte) : z = Bytes(p) \o r /\ Sent(s) = Part(s, m) \o r
  BY <1>7, <1>8, <1>9, <1>10, NextIs
<1>12. /\ h[1] = p.type /\ DecodedTo(h) \in 0..Len(d)
       /\ SubSeq(d, 1, DecodedTo(h)) = p.body
       /\ r = SubSeq(d, DecodedTo(h) + 1, Len(d)) \o y
  <2>1. (h \o d) \o y = Bytes(p) \o r
    BY <1>7, <1>11
  <2>2. IsRead(h, d, y, p, r)
    BY <1>4, <1>10, <2>1, ReadWhole
  <2> QED BY <2>2 DEF IsRead
<1>13. PICK i \in Seq(Byte) : i = SubSeq(d, DecodedTo(h) + 1, Len(d)) /\ r = i \o y
  BY <1>12, SplitAt
<1>14. p = [type |-> h[1], body |-> SubSeq(d, 1, DecodedTo(h))]
  BY <1>12 DEF Packet
<1>15. got'[s] = Append(got[s], p) /\ queues'[s] = Unused /\ inbuf'[s] = i
  <2>1. /\ got' = [got EXCEPT ![s] = Append(got[s], p)]
        /\ queues' = [queues EXCEPT ![s] = Unused] /\ inbuf' = [inbuf EXCEPT ![s] = i]
    BY <1>3, <1>13, <1>14 DEF reads, complete
  <2> QED BY <1>0, <2>1 DEF Streams, ByteTypes
<1>16. got'[s] = SubSeq(Script[s], 1, m)
  <2>1. Script[s] \in Seq(Packet)
    BY ScriptAssumption
  <2>2. Append(SubSeq(Script[s], 1, k), Script[s][k + 1]) = SubSeq(Script[s], 1, k + 1)
    BY <1>9, <2>1, OneMore
  <2> QED BY <1>1, <1>9, <1>10, <1>15, <2>2
<1>17. Sent(s) = Part(s, m) \o ((<<>> \o (<<>> \o i)) \o (c \o tail))
  <2>1. <<>> \o (<<>> \o i) = i
    BY ConcatEmptySeq
  <2> QED BY <1>6, <1>11, <1>13, <2>1
<1>18. Partial(<<>>)
  BY DEF Partial, MaxHeader
<1>19. queues'[s].header = <<>> /\ queues'[s].data = <<>>
  BY <1>15 DEF Unused
<1>20. coming'[s] = c /\ (s \notin broken' => tail = <<>>) /\ (s \in broken' => c = <<>>)
  BY <1>2, <1>5
<1> QED BY <1>9, <1>15, <1>16, <1>17, <1>18, <1>19, <1>20, StandsAt

\* An unfinished packet is saved as far as it has come.
LEMMA StopsStream ==
  ASSUME TypeInv, NEW s \in Sockets, Stream(s), s \notin failed, stops(s),
         def_queue.socket = NoSocket, coming' = coming, broken' = broken
  PROVE  /\ Stream(s)' /\ \A t \in Sockets \ {s} : queues'[t] = queues[t]
         /\ def_queue'.socket = NoSocket
<1>0. ByteTypes /\ Streams
  BY Parted, TypeParts
<1>1. PICK k \in 0..Len(Script[s]) :
         got[s] = SubSeq(Script[s], 1, k) /\ InStep(s, k) /\ Begun(s)
  BY DEF Stream
<1>2. PICK tail \in Seq(Byte) :
         /\ Sent(s) = Part(s, k) \o (Unread(s) \o (coming[s] \o tail))
         /\ s \notin broken => tail = <<>>
         /\ s \in broken => coming[s] = <<>>
  BY <1>1 DEF InStep
<1>3. PICK h \in Seq(Byte), d \in Seq(Byte) :
         h = Header(s) /\ d = Data(s) /\ Unread(s) = h \o d
  BY <1>0, <1>1, ReadTypes, ReadOn
<1>4. Complete(h) \/ (Partial(h) /\ d = <<>>)
  BY <1>0, <1>1, <1>3, ReadOn DEF stops, Short
<1>5. /\ queues' = IF h = <<>> THEN queues
                   ELSE [queues EXCEPT ![s] = [header |-> h, data |-> d]]
      /\ def_queue' = def_queue \/ def_queue' = FreeQueue
      /\ inbuf' = [inbuf EXCEPT ![s] = <<>>] /\ got' = got
  <2>1. Owns(s)
    BY DEF Owns
  <2> QED BY <1>3, <2>1 DEF stops, interrupted
<1>6. PICK c \in Seq(Byte) : c = coming[s]
  BY <1>0 DEF Streams
<1>7. inbuf'[s] = <<>> /\ coming'[s] = c /\ got'[s] = SubSeq(Script[s], 1, k)
  BY <1>0, <1>1, <1>5, <1>6 DEF ByteTypes
<1>8. Stream(s)'
  <2>1. CASE h # <<>>
    <3>1. queues'[s].header = h /\ queues'[s].data = d
      BY <1>0, <1>5, <2>1 DEF ByteTypes
    <3>2. d \o <<>> = d
      BY ConcatEmptySeq
    <3>3. Unread(s)' = h \o d
      BY <1>7, <3>1, <3>2 DEF Unread
    <3>4. InStep(s, k)'
      BY <1>2, <1>3, <1>6, <1>7, <3>3 DEF InStep
    <3>5. Begun(s)'
      BY <1>4, <3>1 DEF Begun
    <3> QED BY <1>7, <3>4, <3>5 DEF Stream
  <2>2. CASE h = <<>>
    <3>1. d = <<>> /\ h \o d = <<>>
      <4>1. ~Complete(h)
        BY <2>2 DEF Complete
      <4>2. d = <<>>
        BY <1>4, <4>1
      <4> QED BY <2>2, <4>2
    <3>2. PICK g \in Seq(Byte), o \in Seq(Byte), i \in Seq(Byte) :
             g = queues[s].header /\ o = queues[s].data /\ i = inbuf[s]
      BY <1>0, ReadTypes
    <3>3. o \o i \in Seq(Byte) /\ g \o (o \o i) = <<>>
      BY <1>3, <3>1, <3>2, Joined DEF Unread
    <3>4. g = <<>> /\ o \o i = <<>>
      BY <3>3, ConcatEqualIffEmpty
    <3>5. o = <<>> /\ i = <<>>
      BY <3>4, ConcatEqualIffEmpty
    <3>6. queues'[s] = queues[s] /\ inbuf'[s] = inbuf[s] /\ got'[s] = got[s]
      BY <1>5, <1>7, <2>2, <3>2, <3>5
    <3> QED BY <3>6, StandsStill
  <2> QED BY <2>1, <2>2
<1>9. \A t \in Sockets \ {s} : queues'[t] = queues[t]
  BY <1>0, <1>5 DEF ByteTypes
<1>10. def_queue'.socket = NoSocket
  BY <1>5 DEF FreeQueue
<1> QED BY <1>8, <1>9, <1>10

LEMMA BreaksOffStream ==
  ASSUME TypeInv, NEW s \in Sockets, Stream(s), breaksOff(s), def_queue.socket = NoSocket
  PROVE  /\ Stream(s)' /\ \A t \in Sockets \ {s} : queues'[t] = queues[t]
         /\ def_queue'.socket \in {s, NoSocket}
<1>1. PICK k \in 0..Len(Script[s]) : got[s] = SubSeq(Script[s], 1, k)
  BY DEF Stream
<1>2. PICK g : fail(s, g) /\ got' = got
  BY DEF breaksOff
<1>3. s \in failed'
  BY <1>2 DEF fail
<1>4. Stream(s)'
  BY <1>1, <1>2, <1>3 DEF Stream
<1>5. \A t \in Sockets \ {s} : queues'[t] = queues[t]
  BY <1>2, Parted DEF fail, ByteTypes
<1>6. def_queue' = def_queue \/ def_queue' = [socket |-> s, header |-> g]
  BY <1>2 DEF fail
<1> QED BY <1>4, <1>5, <1>6

LEMMA CycleStream ==
  ASSUME ReaderCloses, TypeInv, StreamInv, cycle
  PROVE  StreamInv'
<1>1. Listed /\ Marks /\ Buffered /\ Streams /\ Counted /\ ByteTypes
  BY TypeParts, Parted
<1>2. /\ taken # NoSocket /\ taken' = NoSocket
      /\ clientsds' = clientsds /\ coming' = coming /\ broken' = broken
  BY DEF cycle, lists
<1>3. failed = {} /\ def_queue.socket = NoSocket
  BY <1>2 DEF StreamInv, FailedFirst
<1>4. \A t : Open(t)' <=> Open(t)
  BY <1>2 DEF Open
<1>5. CASE ~Open(taken)
  <2>1. UNCHANGED <<queues, def_queue, got, failed, inbuf>>
    BY <1>5 DEF cycle
  <2>2. FailedFirst'
    BY <1>2, <1>3, <2>1 DEF FailedFirst
  <2>3. ASSUME NEW t \in Sockets, Open(t) PROVE Stream(t)'
    BY <1>2, <2>1, <2>3, StandsStill DEF StreamInv
  <2>4. ASSUME NEW t \in Sockets, ~Open(t) PROVE NoLeft(t)'
    BY <2>1, <2>4 DEF StreamInv, NoLeft
  <2> QED BY <1>4, <2>2, <2>3, <2>4 DEF StreamInv
<1>6. CASE Open(taken)
  <2>1. PICK s \in Sockets : s = taken /\ Open(s) /\ Stream(s) /\ s \notin failed
    <3>1. taken \in Sockets
      BY <1>6, Parted, PlaceFacts
    <3> QED BY <1>3, <1>6, <3>1 DEF StreamInv
  <2>2. reads(s) \/ stops(s) \/ breaksOff(s)
    BY <2>1, FactoryCases DEF cycle
  <2>3. /\ Stream(s)' /\ \A t \in Sockets \ {s} : queues'[t] = queues[t]
        /\ def_queue'.socket # NoSocket => def_queue'.socket \in failed'
    <3>1. CASE reads(s)
      <4>1. queues' = [queues EXCEPT ![s] = Unused] /\ def_queue' = FreeQueue
        BY <3>1 DEF reads, complete
      <4> QED BY <1>1, <1>2, <2>1, <3>1, <4>1, ReadsStream DEF ByteTypes, FreeQueue
    <3>2. CASE stops(s)
      BY <1>2, <1>3, <2>1, <3>2, StopsStream
    <3>3. CASE breaksOff(s)
      <4>1. s \in failed'
        BY <3>3 DEF breaksOff, fail
      <4> QED BY <1>3, <2>1, <3>3, <4>1, BreaksOffStream
    <3> QED BY <2>2, <3>1, <3>2, <3>3
  <2>4. /\ \A t \in Sockets \ {s} : got'[t] = got[t] /\ inbuf'[t] = inbuf[t]
        /\ \A t \in Sockets \ {s} : t \notin failed
    BY <1>1, <1>3, <2>2 DEF reads, stops, breaksOff, Streams
  <2>5. FailedFirst'
    BY <1>2, <2>3 DEF FailedFirst
  <2>6. ASSUME NEW t \in Sockets, Open(t) PROVE Stream(t)'
    <3>1. CASE t = s
      BY <2>3, <3>1
    <3>2. CASE t # s
      <4>1. Stream(t)
        BY <2>6 DEF StreamInv
      <4>2. queues'[t] = queues[t] /\ got'[t] = got[t] /\ inbuf'[t] = inbuf[t] /\ t \notin failed
        BY <2>3, <2>4, <3>2
      <4> QED BY <1>2, <4>1, <4>2, StandsStill
    <3> QED BY <3>1, <3>2
  <2>7. ASSUME NEW t \in Sockets, ~Open(t) PROVE NoLeft(t)'
    <3>1. t # s
      BY <2>1, <2>7
    <3> QED BY <2>3, <2>4, <2>7, <3>1 DEF StreamInv, NoLeft
  <2> QED BY <1>4, <2>5, <2>6, <2>7 DEF StreamInv
<1> QED BY <1>5, <1>6

LEMMA GetStream ==
  ASSUME ReaderCloses, TypeInv, StreamInv, getReadySocket
  PROVE  StreamInv'
<1>1. failed = {} /\ UNCHANGED <<clientsds, failed, queues, def_queue, got, network>>
  BY Parted, GetCases
<1>2. FailedFirst'
  BY <1>1 DEF StreamInv, FailedFirst
<1>3. ASSUME NEW t \in Sockets, Open(t) PROVE Stream(t)'
  BY <1>1, <1>3, StandsStill DEF StreamInv, network
<1>4. ASSUME NEW t \in Sockets, ~Open(t) PROVE NoLeft(t)'
  BY <1>1, <1>4 DEF StreamInv, NoLeft, network
<1>5. \A t : Open(t)' <=> Open(t)
  BY <1>1 DEF Open
<1> QED BY <1>2, <1>3, <1>4, <1>5 DEF StreamInv

LEMMA CloseStream ==
  ASSUME TypeInv, StreamInv, NEW s \in Sockets, close(s)
  PROVE  StreamInv'
<1>1. Listed /\ Marks /\ Streams /\ ByteTypes
  BY TypeParts, Parted
<1>2. \A t : Open(t)' <=> Open(t) /\ t # s
  BY <1>1, CloseList DEF Open
<1>3. /\ failed' = failed \ {s} /\ broken' = broken \ {s} /\ got' = got /\ taken' = taken
      /\ inbuf' = [inbuf EXCEPT ![s] = <<>>] /\ coming' = [coming EXCEPT ![s] = <<>>]
      /\ queues' = [queues EXCEPT ![s] = Unused]
      /\ def_queue' = IF def_queue.socket = s THEN FreeQueue ELSE def_queue
  BY DEF close, cleanup
<1>4. FailedFirst'
  BY <1>3 DEF StreamInv, FailedFirst, FreeQueue
<1>5. ASSUME NEW t \in Sockets, Open(t), t # s PROVE Stream(t)'
  <2>1. queues'[t] = queues[t] /\ inbuf'[t] = inbuf[t] /\ coming'[t] = coming[t] /\ got'[t] = got[t]
    BY <1>1, <1>3, <1>5 DEF Streams, ByteTypes
  <2>2. (t \in broken' <=> t \in broken) /\ (t \notin failed' => t \notin failed)
    BY <1>3, <1>5
  <2> QED BY <1>5, <2>1, <2>2, StandsStill DEF StreamInv
<1>6. ASSUME NEW t \in Sockets, ~Open(t) \/ t = s PROVE NoLeft(t)'
  BY <1>1, <1>3, <1>6 DEF StreamInv, NoLeft, Streams, ByteTypes
<1> QED BY <1>2, <1>4, <1>5, <1>6 DEF StreamInv

LEMMA NewStream ==
  ASSUME TypeInv, StreamInv, NEW s \in Sockets, new(s)
  PROVE  StreamInv'
<1>1. Listed /\ Marks /\ Streams /\ ByteTypes
  BY TypeParts, Parted
<1>2. /\ UNCHANGED <<cur, ready, taken, failed, queues, def_queue, inbuf, broken, breaks>>
      /\ clientsds' = Append(clientsds, s) /\ s \notin ToSet(clientsds)
      /\ got' = [got EXCEPT ![s] = <<>>]
      /\ coming' = [coming EXCEPT ![s] = Sent(s)]
  BY SentType DEF new, Open
<1>3. \A t : Open(t)' <=> Open(t) \/ t = s
  BY <1>1, <1>2, AppendFacts DEF Listed, Open
<1>4. FailedFirst'
  BY <1>2 DEF StreamInv, FailedFirst
<1>5. ASSUME NEW t \in Sockets, Open(t), t # s PROVE Stream(t)'
  <2>1. queues'[t] = queues[t] /\ inbuf'[t] = inbuf[t] /\ coming'[t] = coming[t] /\ got'[t] = got[t]
    BY <1>1, <1>2, <1>5 DEF Streams
  <2> QED BY <1>2, <1>5, <2>1, StandsStill DEF StreamInv
<1>6. Stream(s)'
  <2>1. queues[s] = Unused /\ inbuf[s] = <<>> /\ s \notin failed /\ s \notin broken
    BY <1>1, <1>2 DEF StreamInv, NoLeft, Marks, Open
  <2>2. got'[s] = <<>> /\ coming'[s] = Sent(s)
    BY <1>1, <1>2 DEF Streams
  <2>3. Unread(s)' = <<>>
    BY <1>2, <2>1 DEF Unread, Unused
  <2>4. PICK e \in Seq(Byte) : e = <<>>
    BY FreeTypes
  <2>5. Sent(s) = Part(s, 0) \o (<<>> \o (Sent(s) \o e))
    <3>1. PICK t \in Seq(Byte) : t = Sent(s)
      BY SentType
    <3>2. t \o e = t /\ <<>> \o t = t
      BY <2>4, ConcatEmptySeq
    <3> QED BY <3>1, <3>2, Parts
  <2>6. InStep(s, 0)'
    BY <1>2, <2>1, <2>2, <2>3, <2>4, <2>5 DEF InStep
  <2>7. Begun(s)'
    BY <1>2, <2>1 DEF Begun, Unused, Partial, MaxHeader
  <2>8. 0 \in 0..Len(Script[s]) /\ SubSeq(Script[s], 1, 0) = <<>>
    BY ScriptAssumption
  <2> QED BY <2>2, <2>6, <2>7, <2>8 DEF Stream
<1>7. ASSUME NEW t \in Sockets, ~Open(t), t # s PROVE NoLeft(t)'
  BY <1>2, <1>7 DEF StreamInv, NoLeft
<1> QED BY <1>3, <1>4, <1>5, <1>6, <1>7 DEF StreamInv

\* What arrives stays in its place.
SamePlace(g, o, i, a, b, t) ==
  (g \o (o \o i)) \o ((a \o b) \o t) = (g \o (o \o (i \o a))) \o (b \o t)

LEMMA Moved ==
  ASSUME NEW g \in Seq(Byte), NEW o \in Seq(Byte), NEW i \in Seq(Byte),
         NEW a \in Seq(Byte), NEW b \in Seq(Byte), NEW t \in Seq(Byte)
  PROVE  SamePlace(g, o, i, a, b, t)
<1>1. PICK u \in Seq(Byte) : u = o \o i
  BY Joined
<1>2. PICK v \in Seq(Byte) : v = g \o u
  BY Joined
<1>3. PICK w \in Seq(Byte) : w = b \o t
  BY Joined
<1>4. (a \o b) \o t = a \o w
  <2>1. (a \o b) \o t = a \o (b \o t)
    <3>1. Regrouped(a, b, t)
      BY Joined3
    <3> QED BY <3>1 DEF Regrouped
  <2> QED BY <1>3, <2>1
<1>5. v \o (a \o w) = (v \o a) \o w
  <2>1. Regrouped(v, a, w)
    BY Joined3
  <2> QED BY <2>1 DEF Regrouped
<1>6. v \o a = g \o (u \o a)
  <2>1. (g \o u) \o a = g \o (u \o a)
    <3>1. Regrouped(g, u, a)
      BY Joined3
    <3> QED BY <3>1 DEF Regrouped
  <2> QED BY <1>2, <2>1
<1>7. u \o a = o \o (i \o a)
  <2>1. (o \o i) \o a = o \o (i \o a)
    <3>1. Regrouped(o, i, a)
      BY Joined3
    <3> QED BY <3>1 DEF Regrouped
  <2> QED BY <1>1, <2>1
<1> QED BY <1>1, <1>2, <1>3, <1>4, <1>5, <1>6, <1>7 DEF SamePlace

LEMMA NetworkStream ==
  ASSUME TypeInv, StreamInv, NEW s \in Sockets, arrive(s) \/ break(s)
  PROVE  StreamInv'
<1>1. Listed /\ Marks /\ Streams /\ ByteTypes
  BY TypeParts, Parted
<1>2. /\ UNCHANGED <<clientsds, taken, failed, queues, def_queue, got>> /\ Open(s)
      /\ \A t \in Sockets \ {s} :
            inbuf'[t] = inbuf[t] /\ coming'[t] = coming[t] /\ (t \in broken' <=> t \in broken)
  BY <1>1 DEF arrive, break, lists, Streams
<1>3. \A t : Open(t)' <=> Open(t)
  BY <1>2 DEF Open
<1>4. FailedFirst'
  BY <1>2 DEF StreamInv, FailedFirst
<1>5. ASSUME NEW t \in Sockets, Open(t), t # s PROVE Stream(t)'
  BY <1>2, <1>5, StandsStill DEF StreamInv
<1>6. Stream(s)'
  <2>1. PICK k \in 0..Len(Script[s]) :
           /\ got[s] = SubSeq(Script[s], 1, k)
           /\ s \notin failed => InStep(s, k) /\ Begun(s)
    BY <1>2 DEF StreamInv, Stream
  <2>2. Begun(s) => Begun(s)'
    BY <1>2 DEF Begun
  <2>3. ASSUME InStep(s, k) PROVE InStep(s, k)'
    <3>1. PICK tail \in Seq(Byte) :
             /\ Sent(s) = Part(s, k) \o (Unread(s) \o (coming[s] \o tail))
             /\ s \notin broken => tail = <<>>
             /\ s \in broken => coming[s] = <<>>
      BY <2>3 DEF InStep
    <3>2. PICK g \in Seq(Byte), o \in Seq(Byte), i \in Seq(Byte) :
             g = queues[s].header /\ o = queues[s].data /\ i = inbuf[s]
      BY <1>1, ReadTypes
    <3>3. PICK c \in Seq(Byte) : c = coming[s]
      BY <1>1 DEF Streams
    <3>4. Unread(s) = g \o (o \o i)
      BY <3>2 DEF Unread
    <3>5. CASE arrive(s)
      <4>1. PICK a \in Seq(Byte), b \in Seq(Byte) :
               c = a \o b /\ inbuf'[s] = i \o a /\ coming'[s] = b
        <5>1. PICK a \in Seq(Byte), b \in Seq(Byte) :
                 /\ coming[s] = a \o b
                 /\ inbuf' = [inbuf EXCEPT ![s] = inbuf[s] \o a]
                 /\ coming' = [coming EXCEPT ![s] = b]
          BY <1>1, <3>5, ArriveFacts, Zenon
        <5>2. c = a \o b /\ inbuf'[s] = i \o a /\ coming'[s] = b
          BY <1>1, <3>2, <3>3, <5>1 DEF Streams
        <5> QED BY <5>2
      <4>2. Unread(s)' = g \o (o \o (i \o a))
        BY <1>2, <3>2, <4>1 DEF Unread
      <4>3. (g \o (o \o i)) \o ((a \o b) \o tail) = (g \o (o \o (i \o a))) \o (b \o tail)
        <5>1. SamePlace(g, o, i, a, b, tail)
          BY Moved
        <5> QED BY <5>1 DEF SamePlace
      <4>4. Sent(s) = Part(s, k) \o ((g \o (o \o (i \o a))) \o (b \o tail))
        BY <3>1, <3>3, <3>4, <4>1, <4>3
      <4>5. c = <<>> => b = <<>>
        <5>1. a \o b = <<>> => b = <<>>
          BY ConcatEqualIffEmpty
        <5> QED BY <4>1, <5>1
      <4>6. broken' = broken
        BY <3>5 DEF arrive
      <4> QED BY <3>1, <3>3, <4>1, <4>2, <4>4, <4>5, <4>6 DEF InStep
    <3>6. CASE break(s)
      <4>1. /\ s \notin broken /\ s \in broken' /\ inbuf' = inbuf
            /\ coming' = [coming EXCEPT ![s] = <<>>]
        BY <3>6 DEF break
      <4>2. coming'[s] = <<>> /\ tail = <<>>
        BY <1>1, <3>1, <4>1 DEF Streams
      <4>3. Unread(s)' = Unread(s)
        BY <1>2, <4>1 DEF Unread
      <4>4. c \o tail = <<>> \o c
        <5>1. c \o <<>> = c /\ <<>> \o c = c
          BY ConcatEmptySeq
        <5> QED BY <4>2, <5>1
      <4>5. Sent(s) = Part(s, k) \o (Unread(s) \o (<<>> \o c))
        BY <3>1, <3>3, <4>4
      <4> QED BY <4>1, <4>2, <4>3, <4>5 DEF InStep
    <3> QED BY <3>5, <3>6
  <2> QED BY <1>2, <2>1, <2>2, <2>3 DEF Stream
<1>7. ASSUME NEW t \in Sockets, ~Open(t) PROVE NoLeft(t)'
  BY <1>2, <1>7 DEF StreamInv, NoLeft
<1> QED BY <1>3, <1>4, <1>5, <1>6, <1>7 DEF StreamInv

LEMMA InitStream == Init => StreamInv
<1> SUFFICES ASSUME Init PROVE StreamInv
  OBVIOUS
<1>1. \A s : ~Open(s)
  BY DEF Init, Open, ToSet
<1>2. FailedFirst
  BY DEF Init, FailedFirst, FreeQueue
<1>3. \A s \in Sockets : NoLeft(s)
  BY DEF Init, NoLeft
<1> QED BY <1>1, <1>2, <1>3 DEF StreamInv

LEMMA StreamStep ==
  ASSUME ReaderCloses, TypeInv, StreamInv, [Next]_vars
  PROVE  StreamInv'
<1>1. CASE getReadySocket
  BY <1>1, GetStream
<1>2. CASE cycle
  BY <1>2, CycleStream
<1>3. ASSUME NEW s \in Sockets, close(s) \/ new(s) \/ arrive(s) \/ break(s) PROVE StreamInv'
  BY <1>3, CloseStream, NewStream, NetworkStream
<1>4. CASE UNCHANGED vars
  <2>1. UNCHANGED <<clientsds, taken, failed, queues, def_queue, got, inbuf, coming, broken>>
    BY <1>4 DEF vars, lists, network
  <2>2. FailedFirst'
    BY <2>1 DEF StreamInv, FailedFirst
  <2>3. ASSUME NEW t \in Sockets, Open(t) PROVE Stream(t)'
    BY <2>1, <2>3, StandsStill DEF StreamInv
  <2>4. ASSUME NEW t \in Sockets, ~Open(t) PROVE NoLeft(t)'
    BY <2>1, <2>4 DEF StreamInv, NoLeft
  <2>5. \A t : Open(t)' <=> Open(t)
    BY <2>1 DEF Open
  <2> QED BY <2>2, <2>3, <2>4, <2>5 DEF StreamInv
<1> QED BY <1>1, <1>2, <1>3, <1>4 DEF Next

\* The first k packets of a script, and their bytes.
LEMMA FirstPackets ==
  ASSUME NEW s \in Sockets, NEW k \in 0..Len(Script[s]), got[s] = SubSeq(Script[s], 1, k)
  PROVE  /\ IsPrefix(got[s], Script[s])
         /\ FlattenSeq([i \in DOMAIN got[s] |-> Bytes(got[s][i])]) = Part(s, k)
<1>1. PICK q \in Seq(Packet) : q = Script[s]
  BY ScriptAssumption
<1>2. PICK n \in Nat : n = Len(q) /\ k \in 0..n
  BY <1>1
<1>3. PICK g : g = got[s]
  OBVIOUS
<1>4. g \in Seq(Packet) /\ Len(g) = k /\ \A i \in 1..k : g[i] = q[i]
  <2>1. 1 \in Int /\ k \in Int /\ \A i \in 1..k : q[i] \in Packet
    BY <1>2, ElementOfSeq
  <2>2. /\ g \in Seq(Packet) /\ Len(g) = IF 1 <= k THEN k - 1 + 1 ELSE 0
        /\ \A i \in 1..(k - 1 + 1) : g[i] = q[1 + i - 1]
    BY <1>1, <1>3, <2>1, SubSeqProperties
  <2> QED BY <2>2
<1>5. SubSeq(g, 1, k) = g
  BY <1>4, SubSeqFull
<1>6. IsPrefix(g, q)
  <2>1. Len(g) <= Len(q) /\ SubSeq(g, 1, Len(g)) = SubSeq(q, 1, Len(g))
    BY <1>1, <1>2, <1>3, <1>4, <1>5
  <2> QED BY <2>1 DEF IsPrefix
<1>7. DOMAIN g = 1..k
  BY <1>4, LenProperties
<1>8. [i \in DOMAIN g |-> Bytes(g[i])] = [i \in 1..k |-> Bytes(q[i])]
  BY <1>4, <1>7
<1> QED BY <1>1, <1>3, <1>6, <1>8 DEF Part

LEMMA StreamSound ==
  ASSUME TypeInv, StreamInv
  PROVE  PacketsAreSent /\ BytesKept
<1>1. ByteTypes /\ Streams
  BY TypeParts, Parted
<1>2. ASSUME NEW s \in Sockets, Open(s) PROVE IsPrefix(got[s], Script[s])
  BY <1>2, FirstPackets DEF StreamInv, Stream
<1>3. ASSUME NEW s \in Sockets, Open(s), s \notin broken \cup failed
      PROVE  FlattenSeq([i \in DOMAIN got[s] |-> Bytes(got[s][i])])
               \o queues[s].header \o queues[s].data \o inbuf[s] \o coming[s]
                 = FlattenSeq([i \in DOMAIN Script[s] |-> Bytes(Script[s][i])])
  <2>1. PICK k \in 0..Len(Script[s]) : got[s] = SubSeq(Script[s], 1, k) /\ InStep(s, k)
    BY <1>3 DEF StreamInv, Stream
  <2>2. Sent(s) = Part(s, k) \o (Unread(s) \o (coming[s] \o <<>>))
    BY <1>3, <2>1 DEF InStep
  <2>3. PICK p \in Seq(Byte) : p = Part(s, k)
    BY Parts
  <2>4. PICK g \in Seq(Byte), o \in Seq(Byte), i \in Seq(Byte) :
           g = queues[s].header /\ o = queues[s].data /\ i = inbuf[s]
    BY <1>1, ReadTypes
  <2>5. PICK c \in Seq(Byte) : c = coming[s]
    BY <1>1 DEF Streams
  <2>6. c \o <<>> = c
    BY ConcatEmptySeq
  <2>7. Sent(s) = p \o ((g \o (o \o i)) \o c)
    BY <2>2, <2>3, <2>4, <2>5, <2>6 DEF Unread
  <2>8. (((p \o g) \o o) \o i) \o c = p \o ((g \o (o \o i)) \o c)
    <3>1. PICK u \in Seq(Byte) : u = o \o i
      BY Joined
    <3>2. PICK v \in Seq(Byte) : v = g \o u
      BY Joined
    <3>3. PICK w \in Seq(Byte) : w = p \o g
      BY Joined
    <3>4. (w \o o) \o i = w \o u
      <4>1. (w \o o) \o i = w \o (o \o i)
        <5>1. Regrouped(w, o, i)
          BY Joined3
        <5> QED BY <5>1 DEF Regrouped
      <4> QED BY <3>1, <4>1
    <3>5. w \o u = p \o v
      <4>1. (p \o g) \o u = p \o (g \o u)
        <5>1. Regrouped(p, g, u)
          BY Joined3
        <5> QED BY <5>1 DEF Regrouped
      <4> QED BY <3>2, <3>3, <4>1
    <3>6. (p \o v) \o c = p \o (v \o c)
      <4>1. Regrouped(p, v, c)
        BY Joined3
      <4> QED BY <4>1 DEF Regrouped
    <3> QED BY <3>1, <3>2, <3>3, <3>4, <3>5, <3>6
  <2>9. FlattenSeq([j \in DOMAIN got[s] |-> Bytes(got[s][j])]) = p
    BY <2>1, <2>3, FirstPackets
  <2> QED BY <2>4, <2>5, <2>7, <2>8, <2>9, SentType
<1> QED BY <1>2, <1>3 DEF PacketsAreSent, BytesKept

LEMMA StreamAlways ==
  ASSUME ReaderCloses
  PROVE  Spec => [](TypeInv /\ StreamInv)
<1>1. Init => TypeInv /\ StreamInv
  BY InitTypes, InitStream
<1>2. TypeInv /\ StreamInv /\ [Next]_vars => (TypeInv /\ StreamInv)'
  BY TypesStep, StreamStep
<1> QED BY <1>1, <1>2, PTL DEF Spec

\* However the bytes of any number of sockets arrive in pieces, and however often
\* they are closed and opened again: the packets MQTTPacket_Factory returns on a
\* connection are the first ones the broker sent on it, whole and in order, as
\* long as the thread that reads closes a socket whose read failed.
THEOREM ReadInOrder ==
  ASSUME ReaderCloses
  PROVE  Spec => []PacketsAreSent
<1>1. TypeInv /\ StreamInv => PacketsAreSent
  BY StreamSound
<1> QED BY <1>1, StreamAlways, PTL

\* No byte is lost or read twice: the packets read, what the queues of SocketBuffer
\* hold of the next one, what can be read and what is under way are together all
\* that was sent on a connection that lasts.
THEOREM NothingLost ==
  ASSUME ReaderCloses
  PROVE  Spec => []BytesKept
<1>1. TypeInv /\ StreamInv => BytesKept
  BY StreamSound
<1> QED BY <1>1, StreamAlways, PTL

-----------------------------------------------------------------------------
(* Turns *)

\* No socket number is given to a new connection while the result of the last
\* select still names it.
NoStale == \A s \in Sockets : new(s) => s \notin ready

\* The sockets the last select has left, and those of them before s.
Rest == {u \in Sockets : Open(u) /\ u \in ready /\ Place(u) >= Place(cur)}
Before(s) == {u \in Rest : Place(u) < Place(s)}

Others == Cardinality(Sockets) - 1

\* A socket that is left has its turn after those before it; another one waits for
\* the next select.
TurnInv ==
  \A s \in Sockets :
     /\ overtaken[s] <= 2 * Others
     /\ Open(s) => /\ s \in Rest => overtaken[s] + Cardinality(Before(s)) <= 2 * Others
                   /\ s \notin Rest => overtaken[s] + Cardinality(Rest) <= Others

\* The place in a list, whichever list it is.
PlaceIn(q, x) ==
  IF x \in ToSet(q) THEN CHOOSE i \in 1..Len(q) : q[i] = x ELSE Len(q) + 1

LEMMA PlaceInIs ==
  ASSUME NEW q \in Seq(Sockets), IsInjective(q)
  PROVE  /\ \A i \in 1..Len(q) : q[i] \in ToSet(q) /\ PlaceIn(q, q[i]) = i
         /\ \A x : x \notin ToSet(q) => PlaceIn(q, x) = Len(q) + 1
<1>1. DOMAIN q = 1..Len(q) /\ Len(q) \in Nat
  BY LenProperties
<1>2. ASSUME NEW i \in 1..Len(q) PROVE q[i] \in ToSet(q) /\ PlaceIn(q, q[i]) = i
  <2>1. q[i] \in ToSet(q)
    BY <1>1 DEF ToSet
  <2>2. PlaceIn(q, q[i]) = CHOOSE j \in 1..Len(q) : q[j] = q[i]
    BY <2>1 DEF PlaceIn
  <2>3. \A j \in 1..Len(q) : q[j] = q[i] => j = i
    BY <1>1 DEF IsInjective
  <2>4. PlaceIn(q, q[i]) \in 1..Len(q) /\ q[PlaceIn(q, q[i])] = q[i]
    BY <2>2, Zenon
  <2> QED BY <2>1, <2>3, <2>4
<1>3. \A x : x \notin ToSet(q) => PlaceIn(q, x) = Len(q) + 1
  BY DEF PlaceIn
<1> QED BY <1>2, <1>3

LEMMA PlaceIsIn ==
  /\ \A x : Place(x) = PlaceIn(clientsds, x)
  /\ \A x : Place(x)' = PlaceIn(clientsds', x')
BY DEF Place, PlaceIn, Open

\* The numbers that bound a count of sockets.
LEMMA Counting ==
  /\ Cardinality(Sockets) \in Nat /\ Others \in Int
  /\ \A S : S \subseteq Sockets => IsFiniteSet(S) /\ Cardinality(S) \in Nat
  /\ \A S, T : S \subseteq T /\ T \subseteq Sockets => Cardinality(S) <= Cardinality(T)
  /\ \A S, T : \A x \in T : S \subseteq T \ {x} /\ T \subseteq Sockets
                              => Cardinality(S) <= Cardinality(T) - 1
<1>1. \A S : S \subseteq Sockets => IsFiniteSet(S) /\ Cardinality(S) \in Nat
  BY FS_Subset, FS_CardinalityType
<1>2. Cardinality(Sockets) \in Nat
  BY FS_CardinalityType
<1>3. ASSUME NEW S, NEW T, S \subseteq T, T \subseteq Sockets PROVE Cardinality(S) <= Cardinality(T)
  BY <1>1, <1>3, FS_Subset
<1>4. ASSUME NEW S, NEW T, NEW x \in T, S \subseteq T \ {x}, T \subseteq Sockets
      PROVE  Cardinality(S) <= Cardinality(T) - 1
  <2>1. IsFiniteSet(T) /\ Cardinality(T \ {x}) = Cardinality(T) - 1
    BY <1>1, <1>4, FS_RemoveElement
  <2>2. Cardinality(S) <= Cardinality(T \ {x})
    BY <1>3, <1>4
  <2> QED BY <2>1, <2>2
<1> QED BY <1>1, <1>2, <1>3, <1>4 DEF Others

LEMMA RestSize ==
  ASSUME ListOK, NEW s \in Sockets
  PROVE  /\ Cardinality(Rest) \in Nat /\ Cardinality(Before(s)) \in Nat
         /\ s \notin Rest => Cardinality(Rest) <= Others
         /\ Cardinality(Before(s)) <= Others /\ Others >= 0
<1>1. Rest \subseteq Sockets /\ Before(s) \subseteq Sockets \ {s}
  <2>1. \A u \in Before(s) : u # s
    <3>1. Place(s) \in Nat
      BY PlaceFacts
    <3>2. ~(Place(s) < Place(s))
      BY <3>1
    <3> QED BY <3>2 DEF Before
  <2> QED BY <2>1 DEF Rest, Before
<1>2. s \notin Rest => Rest \subseteq Sockets \ {s}
  BY <1>1
<1>3. {} \subseteq Sockets \ {s} /\ Cardinality({}) = 0
  BY FS_EmptySet
<1> QED BY <1>1, <1>2, <1>3, Counting DEF Others

\* What the rest is after a turn: the open sockets of the select's result from the
\* next place on.
LEMMA RestIs ==
  ASSUME clientsds' = clientsds
  PROVE  /\ Rest' = {u \in Sockets : Open(u) /\ u \in ready' /\ Place(u) >= PlaceIn(clientsds, cur')}
         /\ \A s \in Sockets : Before(s)' = {u \in Rest' : Place(u) < Place(s)}
<1>1. \A u : Place(u)' = Place(u) /\ (Open(u)' <=> Open(u))
  BY DEF Place, Open
<1>2. Place(cur)' = PlaceIn(clientsds, cur')
  BY DEF Place, PlaceIn, Open
<1> QED BY <1>1, <1>2 DEF Rest, Before

LEMMA NextPlace ==
  ASSUME ListOK, NEW i \in 1..Len(clientsds), cur' = After(i)
  PROVE  PlaceIn(clientsds, cur') = i + 1
<1>1. PICK e : e = After(i)
  OBVIOUS
<1>2. Place(e) = i + 1
  BY <1>1, AfterFacts
<1> QED BY <1>1, <1>2, PlaceIsIn

\* The first socket of a set in the list, from a place on.
LEMMA FirstFacts ==
  ASSUME ListOK, NEW S, NEW p \in Nat \ {0}
  PROVE  /\ \A i \in FirstOf(S, p) :
               /\ i \in 1..Len(clientsds) /\ i >= p /\ clientsds[i] \in S
               /\ \A u \in S : Open(u) /\ Place(u) >= p => Place(u) >= i
         /\ FirstOf(S, p) = {} => \A u \in S : ~(Open(u) /\ Place(u) >= p)
<1>1. PICK n \in Nat : n = Len(clientsds)
  BY LenProperties DEF ListOK
<1>2. ASSUME NEW i \in FirstOf(S, p)
      PROVE  /\ i \in 1..n /\ i >= p /\ clientsds[i] \in S
             /\ \A u \in S : Open(u) /\ Place(u) >= p => Place(u) >= i
  <2>1. i \in p..n /\ clientsds[i] \in S /\ \A k \in p..(i - 1) : clientsds[k] \notin S
    BY <1>1, <1>2 DEF FirstOf
  <2>2. ASSUME NEW u \in S, Open(u), Place(u) >= p PROVE Place(u) >= i
    <3>1. PICK k \in 1..n : k = Place(u) /\ clientsds[k] = u
      BY <1>1, <2>2, PlaceFacts
    <3>2. ~(k \in p..(i - 1))
      BY <2>1, <2>2, <3>1
    <3> QED BY <2>1, <2>2, <3>1, <3>2
  <2> QED BY <2>1, <2>2
<1>3. ASSUME FirstOf(S, p) = {}, NEW u \in S, Open(u), Place(u) >= p PROVE FALSE
  <2>1. PICK k \in 1..n : k = Place(u) /\ clientsds[k] = u /\ k >= p
    BY <1>1, <1>3, PlaceFacts
  <2> DEFINE D == {j \in p..n : clientsds[j] \in S}
  <2>2. k \in D /\ D \subseteq Nat
    BY <2>1
  <2>3. PICK j \in D : \A y \in D : j <= y
    BY <2>2, LeastOf
  <2>4. j \in p..n /\ clientsds[j] \in S
    BY <2>3
  <2>5. ASSUME NEW e \in p..(j - 1) PROVE clientsds[e] \notin S
    <3>1. e \in p..n /\ ~(j <= e)
      BY <2>4
    <3> QED BY <2>3, <3>1
  <2>6. j \in FirstOf(S, p)
    BY <1>1, <2>4, <2>5 DEF FirstOf
  <2> QED BY <1>3, <2>6
<1> QED BY <1>1, <1>2, <1>3

LEMMA FromRestTurns ==
  ASSUME ListOK, overtaken \in [Sockets -> Nat], TurnInv, clientsds' = clientsds,
         NEW i \in 1..Len(clientsds), fromRest(i)
  PROVE  TurnInv'
<1>1. PICK p \in Nat \ {0} : p = Place(cur)
  BY PlaceFacts
<1>2. PICK x \in Sockets : x = clientsds[i] /\ Open(x) /\ Place(x) = i
  BY PlaceOf
<1>3. x \in ready /\ i >= p /\ \A u \in ready : Open(u) /\ Place(u) >= p => Place(u) >= i
  BY <1>1, <1>2, FirstFacts DEF fromRest
<1>4. x \in Rest
  BY <1>1, <1>2, <1>3 DEF Rest
<1>5. \A u \in Sockets : Open(u) /\ u # x => Place(u) # i
  BY <1>2, PlaceFacts
<1>6. \A u \in Sockets : Place(u) \in Nat
  BY PlaceFacts
<1>7. Rest' = Rest \ {x}
  <2>1. PlaceIn(clientsds, cur') = i + 1
    BY NextPlace DEF fromRest, returns
  <2>2. Rest' = {u \in Sockets : Open(u) /\ u \in ready /\ Place(u) >= i + 1}
    BY <2>1, RestIs DEF fromRest
  <2>3. ASSUME NEW u \in Sockets
        PROVE  u \in Rest' <=> u \in Rest /\ u # x
    <3>1. u \in Rest <=> Open(u) /\ u \in ready /\ Place(u) >= p
      BY <1>1 DEF Rest
    <3>2. Open(u) /\ u \in ready /\ Place(u) >= p => Place(u) >= i
      BY <1>3
    <3> QED BY <1>2, <1>3, <1>5, <1>6, <2>2, <3>1, <3>2
  <2> QED BY <2>2, <2>3 DEF Rest
<1>8. ASSUME NEW s \in Sockets
      PROVE  /\ overtaken'[s] <= 2 * Others
             /\ Open(s) => /\ s \in Rest' => overtaken'[s] + Cardinality(Before(s)') <= 2 * Others
                           /\ s \notin Rest' => overtaken'[s] + Cardinality(Rest') <= Others
  <2>1. Rest' \subseteq Sockets /\ Before(s)' \subseteq Sockets /\ Rest \subseteq Sockets /\ Before(s) \subseteq Rest
    BY <1>7, RestIs DEF Rest, Before
  <2>2. PICK a \in Nat : a = Cardinality(Rest) /\ (s \notin Rest => a <= Others)
    BY RestSize
  <2>3. PICK b \in Nat : b = Cardinality(Before(s)) /\ b <= Others /\ Others >= 0 /\ Others \in Int
    BY RestSize, Counting
  <2>4. PICK c \in Nat : c = Cardinality(Rest') /\ c <= a - 1
    BY <1>4, <1>7, <2>1, <2>2, Counting
  <2>5. Before(s)' = Before(s) \ {x}
    BY <1>7, RestIs DEF Before
  <2>6. PICK d \in Nat : d = Cardinality(Before(s)') /\ d <= b /\ (x \in Before(s) => d <= b - 1)
    BY <2>1, <2>3, <2>5, Counting
  <2>7. PICK v \in Nat : v = overtaken[s]
    OBVIOUS
  <2>8. /\ v <= 2 * Others
        /\ Open(s) => (s \in Rest => v + b <= 2 * Others) /\ (s \notin Rest => v + a <= Others)
    BY <2>2, <2>3, <2>7 DEF TurnInv
  <2>9. overtaken'[s] = IF s \in Readable /\ s # x THEN v + 1 ELSE 0
    BY <1>2, <2>7 DEF fromRest, returns
  <2>10. CASE s \in Readable /\ s # x
    <3>1. Open(s)
      BY <2>10 DEF Readable
    <3>2. CASE s \in Rest
      <4>1. Place(s) > i
        BY <1>1, <1>3, <1>5, <1>6, <2>10, <3>1, <3>2 DEF Rest
      <4>2. x \in Before(s)
        BY <1>2, <1>4, <4>1 DEF Before
      <4>3. s \in Rest'
        BY <1>7, <2>10, <3>2
      <4> QED BY <2>3, <2>6, <2>8, <2>9, <2>10, <3>1, <3>2, <4>2, <4>3
    <3>3. CASE s \notin Rest
      <4>1. s \notin Rest'
        BY <1>7, <3>3
      <4> QED BY <2>2, <2>3, <2>4, <2>8, <2>9, <2>10, <3>1, <3>3, <4>1
    <3> QED BY <3>2, <3>3
  <2>11. CASE ~(s \in Readable /\ s # x)
    <3>1. overtaken'[s] = 0
      BY <2>9, <2>11
    <3>2. s \notin Rest' => c <= Others
      <4>1. s \notin Rest' => Rest' \subseteq Sockets \ {s}
        BY <2>1
      <4> QED BY <2>4, <4>1, Counting DEF Others
    <3> QED BY <2>3, <2>4, <2>6, <3>1, <3>2
  <2> QED BY <2>10, <2>11
<1>9. \A u : Open(u)' <=> Open(u)
  BY DEF Open
<1>10. Others' = Others
  BY DEF Others
<1> QED BY <1>8, <1>9, <1>10 DEF TurnInv

LEMMA FromFreshTurns ==
  ASSUME ListOK, overtaken \in [Sockets -> Nat], TurnInv, clientsds' = clientsds,
         NEW i \in 1..Len(clientsds), fromFresh(i)
  PROVE  TurnInv'
<1>1. PICK p \in Nat \ {0} : p = Place(cur)
  BY PlaceFacts
<1>2. PICK x \in Sockets : x = clientsds[i] /\ Open(x) /\ Place(x) = i
  BY PlaceOf
<1>3. Rest = {}
  BY <1>1, FirstFacts DEF fromFresh, Rest
<1>4. x \in Readable /\ \A u \in Readable : Open(u) /\ Place(u) >= 1 => Place(u) >= i
  <2>1. 1 \in Nat \ {0}
    OBVIOUS
  <2> QED BY <1>2, <2>1, FirstFacts DEF fromFresh
<1>5. \A u \in Sockets : /\ Place(u) \in Nat /\ Place(u) >= 1
                         /\ Open(u) /\ u # x => Place(u) # i
  BY <1>2, PlaceFacts
<1>6. Rest' = Readable \ {x}
  <2>1. PlaceIn(clientsds, cur') = i + 1
    BY NextPlace DEF fromFresh, returns
  <2>2. Rest' = {u \in Sockets : Open(u) /\ u \in Readable /\ Place(u) >= i + 1}
    BY <2>1, RestIs DEF fromFresh
  <2>3. ASSUME NEW u \in Sockets
        PROVE  u \in Rest' <=> u \in Readable /\ u # x
    <3>1. u \in Readable => Open(u)
      BY DEF Readable
    <3> QED BY <1>2, <1>4, <1>5, <2>2, <3>1
  <2> QED BY <2>2, <2>3 DEF Readable
<1>7. ASSUME NEW s \in Sockets
      PROVE  /\ overtaken'[s] <= 2 * Others
             /\ Open(s) => /\ s \in Rest' => overtaken'[s] + Cardinality(Before(s)') <= 2 * Others
                           /\ s \notin Rest' => overtaken'[s] + Cardinality(Rest') <= Others
  <2>1. Rest' \subseteq Sockets /\ Before(s)' \subseteq Sockets
    BY <1>6, RestIs DEF Readable
  <2>2. Others \in Int /\ Others >= 0
    BY RestSize, Counting
  <2>3. Cardinality({}) = 0
    BY FS_EmptySet
  <2>4. PICK v \in Nat : v = overtaken[s] /\ (Open(s) => v <= Others)
    BY <1>3, <2>2, <2>3 DEF TurnInv
  <2>5. overtaken'[s] = IF s \in Readable /\ s # x THEN v + 1 ELSE 0
    BY <1>2, <2>4 DEF fromFresh, returns
  <2>6. Before(s)' \subseteq Sockets \ {s}
    <3>1. \A u \in Before(s)' : Place(u) < Place(s) /\ Place(s) \in Nat
      BY <1>5, RestIs
    <3>2. s \notin Before(s)'
      BY <3>1
    <3> QED BY <2>1, <3>2
  <2>7. PICK d \in Nat : d = Cardinality(Before(s)') /\ d <= Others
    BY <2>1, <2>6, Counting DEF Others
  <2>8. CASE s \in Readable /\ s # x
    <3>1. x \in Sockets \ {s} /\ Before(s)' \subseteq (Sockets \ {s}) \ {x} /\ Sockets \ {s} \subseteq Sockets
      BY <1>6, <2>6, <2>8, RestIs
    <3>2. d <= Cardinality(Sockets \ {s}) - 1
      BY <2>7, <3>1, Counting
    <3>3. Cardinality(Sockets \ {s}) <= Others
      BY Counting DEF Others
    <3>4. Cardinality(Sockets \ {s}) \in Nat
      BY <3>1, Counting
    <3>5. d <= Others - 1
      BY <2>2, <3>2, <3>3, <3>4
    <3>6. Open(s) /\ s \in Rest'
      BY <1>6, <2>8 DEF Readable
    <3> QED BY <2>2, <2>4, <2>5, <2>7, <2>8, <3>5, <3>6
  <2>9. CASE ~(s \in Readable /\ s # x)
    <3>1. overtaken'[s] = 0
      BY <2>5, <2>9
    <3>2. s \notin Rest' => Cardinality(Rest') <= Others
      <4>1. s \notin Rest' => Rest' \subseteq Sockets \ {s}
        BY <2>1
      <4> QED BY <4>1, Counting DEF Others
    <3>3. Cardinality(Rest') \in Nat
      BY <2>1, Counting
    <3> QED BY <2>2, <2>7, <3>1, <3>2, <3>3
  <2> QED BY <2>8, <2>9
<1>8. \A u : Open(u)' <=> Open(u)
  BY DEF Open
<1>9. Others' = Others
  BY DEF Others
<1> QED BY <1>7, <1>8, <1>9 DEF TurnInv

LEMMA FindsNoneTurns ==
  ASSUME ListOK, overtaken \in [Sockets -> Nat], TurnInv, clientsds' = clientsds, findsNone
  PROVE  TurnInv'
<1>1. PICK p \in Nat \ {0} : p = Place(cur)
  BY PlaceFacts
<1>2. Rest = {}
  BY <1>1, FirstFacts DEF findsNone, Rest
<1>3. Rest' = {}
  BY RestIs DEF findsNone
<1>4. overtaken' = overtaken
  BY DEF findsNone
<1>5. \A u : Open(u)' <=> Open(u)
  BY DEF Open
<1>6. Others' = Others
  BY DEF Others
<1> QED BY <1>2, <1>3, <1>4, <1>5, <1>6 DEF TurnInv

\* Places after a socket has left the list.
LEMMA PlacesLeft ==
  ASSUME Listed, NEW t \in Sockets, close(t)
  PROVE  \A x : x # t => PlaceIn(clientsds', x) = IF Place(x) < Place(t) THEN Place(x) ELSE Place(x) - 1
<1>1. ListOK /\ Open(t) /\ clientsds' = RemoveAt(clientsds, Place(t))
  BY DEF Listed, ListOK, close
<1>2. PICK n \in Nat : n = Len(clientsds)
  BY <1>1, LenProperties DEF ListOK
<1>3. PICK p \in 1..n : p = Place(t) /\ clientsds[p] = t
  BY <1>1, <1>2, PlaceFacts
<1>4. PICK q : q = clientsds'
  OBVIOUS
<1>5. /\ q \in Seq(Sockets) /\ IsInjective(q) /\ Len(q) = n - 1
      /\ \A j \in 1..(n - 1) : q[j] = clientsds[IF j < p THEN j ELSE j + 1]
      /\ ToSet(q) = ToSet(clientsds) \ {t}
  <2>1. clientsds \in Seq(Sockets) /\ IsInjective(clientsds)
    BY <1>1 DEF ListOK
  <2> QED BY <1>1, <1>2, <1>3, <1>4, <2>1, RemoveAtFacts
<1>6. ASSUME NEW x, x # t
      PROVE  PlaceIn(q, x) = IF Place(x) < p THEN Place(x) ELSE Place(x) - 1
  <2>1. CASE Open(x)
    <3>1. PICK k \in 1..n : k = Place(x) /\ clientsds[k] = x
      BY <1>1, <1>2, <2>1, PlaceFacts
    <3>2. k # p
      BY <1>3, <1>6, <3>1
    <3>3. PICK j \in 1..(n - 1) : j = (IF k < p THEN k ELSE k - 1) /\ (IF j < p THEN j ELSE j + 1) = k
      <4>1. CASE k < p
        BY <4>1
      <4>2. CASE k > p
        <5>1. k - 1 \in 1..(n - 1) /\ (IF k - 1 < p THEN k - 1 ELSE k - 1 + 1) = k
          BY <4>2
        <5> QED BY <4>2, <5>1
      <4> QED BY <3>2, <4>1, <4>2
    <3>4. q[j] = x
      BY <1>5, <3>1, <3>3
    <3>5. PlaceIn(q, x) = j
      BY <1>5, <3>4, PlaceInIs
    <3> QED BY <3>1, <3>3, <3>5
  <2>2. CASE ~Open(x)
    <3>1. Place(x) = n + 1
      BY <1>1, <1>2, <2>2, PlaceFacts
    <3>2. x \notin ToSet(q)
      BY <1>5, <2>2 DEF Open
    <3>3. PlaceIn(q, x) = n
      BY <1>2, <1>5, <3>2, PlaceInIs
    <3> QED BY <1>3, <3>1, <3>3
  <2> QED BY <2>1, <2>2
<1> QED BY <1>3, <1>4, <1>6

LEMMA CloseTurns ==
  ASSUME Listed, overtaken \in [Sockets -> Nat], TurnInv, NEW t \in Sockets, close(t)
  PROVE  TurnInv'
<1>1. /\ ListOK /\ Open(t) /\ cur' = CurWithout(t) /\ ready' = ready /\ overtaken' = overtaken
      /\ Listed' /\ ToSet(clientsds') = ToSet(clientsds) \ {t}
  BY CloseList DEF Listed, ListOK, close
<1>2. PICK n \in Nat : n = Len(clientsds)
  BY <1>1, LenProperties DEF ListOK
<1>3. PICK p \in 1..n : p = Place(t)
  BY <1>1, <1>2, PlaceFacts
<1>4. PICK e : e = cur'
  OBVIOUS
<1>5. \A u : (Open(u)' <=> Open(u) /\ u # t)
  BY <1>1 DEF Open
<1>6. ASSUME NEW u, u # t PROVE Place(u) \in Nat /\ Place(u) # p
  <2>1. Place(t) = p /\ clientsds[p] = t
    BY <1>1, <1>2, <1>3, PlaceFacts
  <2>2. CASE Open(u)
    BY <1>1, <1>2, <1>6, <2>1, <2>2, PlaceFacts
  <2>3. CASE ~Open(u)
    BY <1>1, <1>2, <1>3, <2>3, PlaceFacts
  <2> QED BY <2>2, <2>3
<1>7. \A u : u # t => PlaceIn(clientsds', u) = IF Place(u) < p THEN Place(u) ELSE Place(u) - 1
  BY <1>3, PlacesLeft
<1>8. \A u : Place(u)' = PlaceIn(clientsds', u)
  BY DEF Place, PlaceIn, Open
<1>9. Place(cur)' = PlaceIn(clientsds', e)
  BY <1>4 DEF Place, PlaceIn, Open
<1>10. ASSUME NEW u \in Sockets, u # t
       PROVE  Place(u)' >= Place(cur)' <=> Place(u) >= Place(cur)
  <2>1. PICK k \in Nat : k = Place(u) /\ k # p
    BY <1>6, <1>10
  <2>2. Place(u)' = IF k < p THEN k ELSE k - 1
    BY <1>7, <1>8, <1>10, <2>1
  <2>3. CASE cur = t
    <3>1. e = After(p)
      BY <1>1, <1>3, <1>4, <2>3 DEF CurWithout
    <3>2. Place(e) = p + 1
      BY <1>1, <1>2, <3>1, AfterFacts
    <3>3. e # t
      BY <1>3, <3>2
    <3>4. PlaceIn(clientsds', e) = p
      BY <1>7, <3>2, <3>3
    <3>5. Place(cur)' = p /\ Place(cur) = p
      BY <1>3, <1>9, <2>3, <3>4
    <3> QED BY <2>1, <2>2, <3>5
  <2>4. CASE cur # t
    <3>1. e = cur
      BY <1>1, <1>4, <2>4 DEF CurWithout
    <3>2. PICK c \in Nat : c = Place(cur) /\ c # p
      BY <1>6, <2>4
    <3>3. Place(cur)' = IF c < p THEN c ELSE c - 1
      BY <1>7, <1>9, <2>4, <3>1, <3>2
    <3> QED BY <2>1, <2>2, <3>2, <3>3
  <2> QED BY <2>3, <2>4
<1>11. Rest' = Rest \ {t}
  <2>1. ASSUME NEW u \in Sockets PROVE u \in Rest' <=> u \in Rest /\ u # t
    BY <1>1, <1>5, <1>10 DEF Rest
  <2> QED BY <2>1 DEF Rest
<1>12. ASSUME NEW s \in Sockets, s # t PROVE Before(s)' \subseteq Before(s)
  <2>1. ASSUME NEW u \in Rest' PROVE u \in Before(s)' => u \in Before(s)
    <3>1. u \in Rest /\ u # t /\ u \in Sockets
      BY <1>11, <2>1 DEF Rest
    <3>2. PICK k \in Nat, j \in Nat : k = Place(u) /\ k # p /\ j = Place(s) /\ j # p
      BY <1>6, <1>12, <3>1
    <3>3. Place(u)' = IF k < p THEN k ELSE k - 1
      BY <1>7, <1>8, <3>1, <3>2
    <3>4. Place(s)' = IF j < p THEN j ELSE j - 1
      BY <1>7, <1>8, <1>12, <3>2
    <3> QED BY <3>1, <3>2, <3>3, <3>4 DEF Before
  <2> QED BY <2>1 DEF Before
<1>13. ASSUME NEW s \in Sockets, s # t, Open(s)
       PROVE  /\ s \in Rest' => overtaken[s] + Cardinality(Before(s)') <= 2 * Others
              /\ s \notin Rest' => overtaken[s] + Cardinality(Rest') <= Others
  <2>1. Rest \subseteq Sockets /\ Before(s) \subseteq Sockets
    BY DEF Rest, Before
  <2>2. /\ Cardinality(Rest') <= Cardinality(Rest) /\ Cardinality(Rest) \in Nat
        /\ Cardinality(Before(s)') <= Cardinality(Before(s)) /\ Cardinality(Before(s)) \in Nat
        /\ Others \in Int
    BY <1>11, <1>12, <1>13, <2>1, Counting
  <2>3. Cardinality(Rest') \in Nat /\ Cardinality(Before(s)') \in Nat
    BY <1>11, <1>12, <1>13, <2>1, Counting
  <2>4. s \in Rest' <=> s \in Rest
    BY <1>11, <1>13
  <2>5. /\ s \in Rest => overtaken[s] + Cardinality(Before(s)) <= 2 * Others
        /\ s \notin Rest => overtaken[s] + Cardinality(Rest) <= Others
    BY <1>13 DEF TurnInv
  <2>6. PICK v \in Nat : v = overtaken[s]
    OBVIOUS
  <2> QED BY <2>2, <2>3, <2>4, <2>5, <2>6
<1>14. Others' = Others
  BY DEF Others
<1> QED BY <1>1, <1>5, <1>13, <1>14 DEF TurnInv

LEMMA NewTurns ==
  ASSUME Listed, overtaken \in [Sockets -> Nat], TurnInv, NEW t \in Sockets, new(t), t \notin ready
  PROVE  TurnInv'
<1>1. /\ ListOK /\ clientsds' = Append(clientsds, t) /\ t \notin ToSet(clientsds)
      /\ cur' = cur /\ ready' = ready /\ overtaken' = [overtaken EXCEPT ![t] = 0]
      /\ cur \in ToSet(clientsds) \cup {NoSocket}
  BY DEF Listed, ListOK, new, Open
<1>2. PICK n \in Nat : n = Len(clientsds)
  BY <1>1, LenProperties DEF ListOK
<1>3. PICK q : q = clientsds'
  OBVIOUS
<1>4. /\ q \in Seq(Sockets) /\ IsInjective(q) /\ Len(q) = n + 1
      /\ \A j \in 1..n : q[j] = clientsds[j]
      /\ ToSet(q) = ToSet(clientsds) \cup {t}
  BY <1>1, <1>2, <1>3, AppendFacts DEF ListOK
<1>5. \A u : (Open(u)' <=> Open(u) \/ u = t)
  BY <1>3, <1>4 DEF Open
<1>6. \A u : Place(u)' = PlaceIn(q, u)
  BY <1>3 DEF Place, PlaceIn, Open
<1>7. ASSUME NEW u, Open(u) PROVE Place(u)' = Place(u) /\ Place(u) \in 1..n
  <2>1. PICK k \in 1..n : k = Place(u) /\ clientsds[k] = u
    BY <1>1, <1>2, <1>7, PlaceFacts
  <2>2. k \in 1..Len(q) /\ q[k] = u
    BY <1>4, <2>1
  <2>3. PlaceIn(q, u) = k
    BY <1>4, <2>2, PlaceInIs
  <2> QED BY <1>6, <2>1, <2>3
<1>8. PICK e : e = cur
  OBVIOUS
<1>9. Place(cur)' = PlaceIn(q, e)
  BY <1>1, <1>3, <1>8 DEF Place, PlaceIn, Open
<1>10. Rest' = Rest
  <2>1. CASE Open(e)
    <3>1. Place(cur)' = Place(cur)
      BY <1>6, <1>7, <1>8, <1>9, <2>1
    <3>2. ASSUME NEW u \in Sockets PROVE u \in Rest' <=> u \in Rest
      BY <1>1, <1>5, <1>7, <3>1 DEF Rest
    <3> QED BY <3>2 DEF Rest
  <2>2. CASE ~Open(e)
    <3>1. e \notin ToSet(q) /\ e \notin ToSet(clientsds)
      BY <1>1, <1>4, <1>8, <2>2 DEF Open
    <3>2. Place(cur)' = n + 2 /\ Place(cur) = n + 1
      <4>1. PlaceIn(q, e) = n + 2
        BY <1>2, <1>4, <3>1, PlaceInIs
      <4>2. Place(e) = n + 1
        BY <1>1, <1>2, <2>2, PlaceFacts
      <4> QED BY <1>8, <1>9, <4>1, <4>2
    <3>3. ASSUME NEW u \in Sockets PROVE u \notin Rest' /\ u \notin Rest
      BY <1>1, <1>5, <1>7, <3>2 DEF Rest
    <3> QED BY <3>3 DEF Rest
  <2> QED BY <2>1, <2>2
<1>11. ASSUME NEW s \in Sockets, Open(s) PROVE Before(s)' = Before(s)
  <2>1. \A u \in Rest : Open(u)
    BY DEF Rest
  <2> QED BY <1>7, <1>10, <1>11, <2>1 DEF Before
<1>12. t \notin Rest /\ ~Open(t)
  BY <1>1 DEF Rest, Open
<1>13. Cardinality(Rest) <= Others /\ Others >= 0 /\ Cardinality(Rest) \in Nat /\ Others \in Int
  BY <1>1, <1>12, RestSize, Counting
<1>14. overtaken'[t] = 0 /\ \A s \in Sockets \ {t} : overtaken'[s] = overtaken[s]
  BY <1>1
<1>15. Others' = Others
  BY DEF Others
<1>16. ASSUME NEW s \in Sockets, s # t
       PROVE  /\ overtaken'[s] <= 2 * Others
              /\ Open(s) => /\ s \in Rest' => overtaken'[s] + Cardinality(Before(s)') <= 2 * Others
                            /\ s \notin Rest' => overtaken'[s] + Cardinality(Rest') <= Others
  BY <1>10, <1>11, <1>14, <1>16 DEF TurnInv
<1>17. /\ overtaken'[t] <= 2 * Others /\ t \notin Rest'
       /\ overtaken'[t] + Cardinality(Rest') <= Others
  BY <1>10, <1>12, <1>13, <1>14
<1> QED BY <1>5, <1>12, <1>15, <1>16, <1>17 DEF TurnInv

LEMMA TurnsStill ==
  ASSUME TurnInv, UNCHANGED <<clientsds, cur, ready, overtaken>>
  PROVE  TurnInv'
<1>1. \A u : Place(u)' = Place(u) /\ (Open(u)' <=> Open(u))
  BY DEF Place, Open
<1>2. Place(cur)' = Place(cur)
  BY DEF Place, Open
<1>3. Rest' = Rest
  BY <1>1, <1>2 DEF Rest
<1>4. \A s : Before(s)' = Before(s)
  BY <1>1, <1>3 DEF Before
<1>5. Others' = Others
  BY DEF Others
<1> QED BY <1>1, <1>3, <1>4, <1>5 DEF TurnInv

LEMMA TurnsStep ==
  ASSUME TypeInv, TurnInv, [Next]_vars, [NoStale]_vars
  PROVE  TurnInv'
<1>1. Listed /\ ListOK /\ overtaken \in [Sockets -> Nat]
  BY TypeParts, Parted DEF Counted
<1>2. CASE getReadySocket
  <2>1. /\ clientsds' = clientsds
        /\ \/ \E i \in 1..Len(clientsds) : fromRest(i) \/ fromFresh(i)
           \/ findsNone
    BY <1>1, <1>2, GetCases
  <2> QED BY <1>1, <2>1, FromRestTurns, FromFreshTurns, FindsNoneTurns
<1>3. CASE cycle
  BY <1>3, TurnsStill DEF cycle, lists
<1>4. ASSUME NEW t \in Sockets, close(t) PROVE TurnInv'
  BY <1>1, <1>4, CloseTurns
<1>5. ASSUME NEW t \in Sockets, new(t) PROVE TurnInv'
  <2>1. clientsds' # clientsds
    BY <1>1, <1>5, AppendFacts, LenProperties DEF new, Listed, Open
  <2>2. t \notin ready
    BY <1>5, <2>1 DEF NoStale, vars, lists
  <2> QED BY <1>1, <1>5, <2>2, NewTurns
<1>6. ASSUME NEW t \in Sockets, arrive(t) \/ break(t) PROVE TurnInv'
  BY <1>6, TurnsStill DEF arrive, break, lists
<1>7. CASE UNCHANGED vars
  BY <1>7, TurnsStill DEF vars, lists
<1> QED BY <1>2, <1>3, <1>4, <1>5, <1>6, <1>7 DEF Next

\* Before a socket with something to read has its turn in Socket_getReadySocket,
\* the others have at most two turns for each of them, for any number of sockets,
\* as long as no number is given to a new connection while the result of the last
\* select still names it.
THEOREM SocketsTakeTurns == Spec /\ [][NoStale]_vars => []TakesTurns
<1>1. Init => TurnInv
  <2>1. Init => (\A s \in Sockets : ~Open(s) /\ overtaken[s] = 0)
    BY DEF Init, Open, ToSet
  <2>2. Init => ListOK
    BY InitTypes, Parted
  <2>3. Init => \A s \in Sockets : Others >= 0 /\ Others \in Int
    BY <2>2, RestSize, Counting
  <2> QED BY <2>1, <2>3 DEF TurnInv
<1>2. TypeInv /\ TurnInv /\ [Next]_vars /\ [NoStale]_vars => TurnInv'
  BY TurnsStep
<1>3. TurnInv => TakesTurns
  BY DEF TurnInv, TakesTurns, Others
<1>4. Init => TypeInv
  BY InitTypes
<1>5. TypeInv /\ [Next]_vars => TypeInv'
  BY TypesStep
<1> QED BY <1>1, <1>2, <1>3, <1>4, <1>5, PTL DEF Spec
=============================================================================
