-------------------------- MODULE ImageCodecProofs --------------------------
(* decode accepts exactly what encode_view writes, for every base, width,    *)
(* limit and byte string.                                                    *)
(*                                                                           *)
(* The definitions are recursive.  Induction is on sets of naturals: a       *)
(* nonempty set has a least element, so a set with 0 and with each           *)
(* successor holds them all.                                                 *)
EXTENDS ImageCodec, WellFoundedInduction, TLAPS

-----------------------------------------------------------------------------
(* Induction                                                                 *)

LEMMA Least ==
  ASSUME NEW T \in SUBSET Nat, T # {}
  PROVE  \E x \in T : \A y \in T : x <= y
<1> DEFINE R == OpToRel(<, Nat)
<1>1. IsWellFoundedOn(R, Nat)
  BY NatLessThanWellFounded
<1>2. \A x, y \in Nat : x < y => <<x, y>> \in R
  BY DEF OpToRel
<1> HIDE DEF R
<1>3. PICK x \in T : \A y \in T : ~(<<y, x>> \in R)
  BY <1>1, WFMin
<1>4. \A y \in T : x <= y
  <2> SUFFICES ASSUME NEW y \in T PROVE x <= y
    OBVIOUS
  <2>1. x \in Nat /\ y \in Nat /\ ~(y < x)
    BY <1>2, <1>3
  <2>2. QED
    BY <2>1
<1>5. QED
  BY <1>4

LEMMA Induct ==
  ASSUME NEW S, 0 \in S, \A n \in Nat : n \in S => n + 1 \in S
  PROVE  Nat \subseteq S
<1> DEFINE T == {n \in Nat : n \notin S}
<1>1. SUFFICES ASSUME T # {} PROVE FALSE
  OBVIOUS
<1>2. PICK x \in T : \A y \in T : x <= y
  BY <1>1, Least
<1>3. x \in Nat /\ x # 0
  BY <1>2
<1>4. x - 1 \in Nat /\ x - 1 \in S
  BY <1>2, <1>3
<1>5. QED
  BY <1>3, <1>4

\* The same up to a bound.
LEMMA InductUpTo ==
  ASSUME NEW m \in Nat, NEW S, 0 \in S, \A n \in 0 .. m - 1 : n \in S => n + 1 \in S
  PROVE  0 .. m \subseteq S
<1> DEFINE U == {n \in Nat : n <= m => n \in S}
<1>1. 0 \in U
  OBVIOUS
<1>2. \A n \in Nat : n \in U => n + 1 \in U
  OBVIOUS
<1> HIDE DEF U
<1>3. Nat \subseteq U
  BY <1>1, <1>2, Induct
<1>4. QED
  BY <1>3 DEF U
-----------------------------------------------------------------------------
(* Powers                                                                    *)

PowUpTo(f, k) == f = [n \in 0 .. k |-> IF n = 0 THEN 1 ELSE Base * f[n - 1]]

LEMMA PowExists == \A k \in Nat : \E f : PowUpTo(f, k)
<1> DEFINE S == {k \in Nat : \E f : PowUpTo(f, k)}
<1>1. 0 \in S
  <2> DEFINE g == [n \in 0 .. 0 |-> 1]
  <2>1. g = [n \in 0 .. 0 |-> IF n = 0 THEN 1 ELSE Base * g[n - 1]]
    OBVIOUS
  <2>2. QED
    BY <2>1 DEF PowUpTo
<1>2. ASSUME NEW k \in Nat, k \in S PROVE k + 1 \in S
  <2>1. PICK f : PowUpTo(f, k)
    BY <1>2
  <2> DEFINE g == [n \in 0 .. k + 1 |-> IF n = k + 1 THEN Base * f[k] ELSE f[n]]
  <2>2. \A n \in 0 .. k : f[n] = IF n = 0 THEN 1 ELSE Base * f[n - 1]
    BY <2>1 DEF PowUpTo
  <2>3. ASSUME NEW n \in 0 .. k + 1 PROVE g[n] = IF n = 0 THEN 1 ELSE Base * g[n - 1]
    <3>1. CASE n = k + 1
      BY <3>1
    <3>2. CASE n \in 0 .. k
      BY <2>2, <3>2
    <3>3. QED
      BY <3>1, <3>2
  <2>4. PowUpTo(g, k + 1)
    BY <2>3 DEF PowUpTo
  <2>5. QED
    BY <2>4
<1> HIDE DEF S
<1>3. Nat \subseteq S
  BY <1>1, <1>2, Induct
<1>4. QED
  BY <1>3 DEF S

LEMMA PowAgree ==
  ASSUME NEW f, NEW g, NEW k \in Nat, NEW m \in Nat, PowUpTo(f, k), PowUpTo(g, m), k <= m
  PROVE  \A n \in 0 .. k : f[n] = g[n]
<1> DEFINE S == {n \in Nat : n <= k => f[n] = g[n]}
<1>1. /\ \A n \in 0 .. k : f[n] = IF n = 0 THEN 1 ELSE Base * f[n - 1]
      /\ \A n \in 0 .. m : g[n] = IF n = 0 THEN 1 ELSE Base * g[n - 1]
  BY DEF PowUpTo
<1>2. 0 \in S
  BY <1>1
<1>3. ASSUME NEW n \in Nat, n \in S PROVE n + 1 \in S
  BY <1>1, <1>3
<1> HIDE DEF S
<1>4. Nat \subseteq S
  BY <1>2, <1>3, Induct
<1>5. QED
  BY <1>4 DEF S

PowOn(f) == f = [n \in Nat |-> IF n = 0 THEN 1 ELSE Base * f[n - 1]]

LEMMA PowFacts ==
  /\ Pow[0] = 1
  /\ \A n \in Nat : Pow[n + 1] = Base * Pow[n]
  /\ \A n \in Nat : Pow[n] \in Nat \ {0}
<1> DEFINE up(k) == CHOOSE f : PowUpTo(f, k)
           F == [n \in Nat |-> up(n)[n]]
<1>1. \A k \in Nat : PowUpTo(up(k), k)
  BY PowExists
<1> HIDE DEF up
<1>2. ASSUME NEW n \in Nat PROVE F[n] = IF n = 0 THEN 1 ELSE Base * F[n - 1]
  <2>1. PowUpTo(up(n), n)
    BY <1>1
  <2>2. \A i \in 0 .. n : up(n)[i] = IF i = 0 THEN 1 ELSE Base * up(n)[i - 1]
    BY <2>1 DEF PowUpTo
  <2>3. CASE n = 0
    BY <2>2, <2>3
  <2>4. CASE n # 0
    <3>1. n - 1 \in Nat /\ n - 1 <= n /\ n - 1 \in 0 .. n - 1
      BY <2>4
    <3>2. PowUpTo(up(n - 1), n - 1)
      BY <1>1, <3>1
    <3>3. up(n - 1)[n - 1] = up(n)[n - 1]
      BY <2>1, <3>1, <3>2, PowAgree
    <3>4. QED
      BY <2>2, <2>4, <3>1, <3>3
  <2>5. QED
    BY <2>3, <2>4
<1>3. PowOn(F)
  BY <1>2 DEF PowOn
<1>4. Pow = CHOOSE f : PowOn(f)
  BY DEF Pow, PowOn
<1>5. PowOn(Pow)
  BY <1>3, <1>4
<1>6. \A n \in Nat : Pow[n] = IF n = 0 THEN 1 ELSE Base * Pow[n - 1]
  BY <1>5 DEF PowOn
<1>7. Pow[0] = 1
  BY <1>6
<1>8. \A n \in Nat : Pow[n + 1] = Base * Pow[n]
  <2> SUFFICES ASSUME NEW n \in Nat PROVE Pow[n + 1] = Base * Pow[n]
    OBVIOUS
  <2>1. n + 1 \in Nat /\ n + 1 # 0 /\ (n + 1) - 1 = n
    OBVIOUS
  <2>2. QED
    BY <1>6, <2>1
<1> DEFINE S == {n \in Nat : Pow[n] \in Nat \ {0}}
<1>9. 0 \in S
  BY <1>7
<1>10. ASSUME NEW n \in Nat, n \in S PROVE n + 1 \in S
  BY <1>8, <1>10, BaseAssumption
<1> HIDE DEF S
<1>11. Nat \subseteq S
  BY <1>9, <1>10, Induct
<1>12. QED
  BY <1>7, <1>8, <1>11 DEF S
-----------------------------------------------------------------------------
(* Functions defined by recursion on 0 .. m                                  *)

RecOn(f, k, a, G) == \A n \in 0 .. k : f[n] = IF n = 0 THEN a ELSE G[<<n, f[n - 1]>>]

\* A step function on a set that it does not leave has its iteration.
LEMMA RecExists ==
  ASSUME NEW m \in Nat, NEW V, NEW a \in V, NEW G \in [(1 .. m) \X V -> V]
  PROVE  \E f \in [0 .. m -> V] : RecOn(f, m, a, G)
<1> DEFINE S == {k \in 0 .. m : \E f \in [0 .. m -> V] : RecOn(f, k, a, G)}
<1>1. 0 \in S
  <2> DEFINE g == [n \in 0 .. m |-> a]
  <2>1. g \in [0 .. m -> V] /\ RecOn(g, 0, a, G)
    BY DEF RecOn
  <2> HIDE DEF g
  <2>2. QED
    BY <2>1
<1>2. ASSUME NEW k \in 0 .. m - 1, k \in S PROVE k + 1 \in S
  <2>1. PICK f \in [0 .. m -> V] : RecOn(f, k, a, G)
    BY <1>2
  <2> DEFINE g == [n \in 0 .. m |-> IF n = k + 1 THEN G[<<k + 1, f[k]>>] ELSE f[n]]
  <2>2. k + 1 \in 1 .. m /\ k \in 0 .. m /\ f[k] \in V /\ G[<<k + 1, f[k]>>] \in V
    <3>1. k + 1 \in 1 .. m /\ k \in 0 .. m
      OBVIOUS
    <3>2. <<k + 1, f[k]>> \in (1 .. m) \X V
      BY <3>1
    <3>3. QED
      BY <3>1, <3>2
  <2>3. g \in [0 .. m -> V]
    BY <2>2
  <2>4. ASSUME NEW n \in 0 .. k + 1 PROVE g[n] = IF n = 0 THEN a ELSE G[<<n, g[n - 1]>>]
    <3>1. CASE n = k + 1
      <4>1. g[k + 1] = G[<<k + 1, f[k]>>] /\ g[k] = f[k] /\ (k + 1) - 1 = k /\ n # 0
        BY <2>2, <3>1
      <4>2. QED
        BY <3>1, <4>1
    <3>2. CASE n \in 1 .. k
      <4>1. g[n] = f[n] /\ g[n - 1] = f[n - 1]
        BY <2>2, <3>2
      <4>2. QED
        BY <2>1, <3>2, <4>1 DEF RecOn
    <3>3. CASE n = 0
      <4>1. g[0] = f[0]
        BY <2>2
      <4>2. f[0] = a
        <5>1. 0 \in 0 .. k
          OBVIOUS
        <5>2. f[0] = IF 0 = 0 THEN a ELSE G[<<0, f[0 - 1]>>]
          BY <2>1, <5>1 DEF RecOn
        <5>3. QED
          BY <5>2
      <4>3. QED
        BY <3>3, <4>1, <4>2
    <3>4. QED
      BY <3>1, <3>2, <3>3
  <2>5. RecOn(g, k + 1, a, G)
    BY <2>4 DEF RecOn
  <2> HIDE DEF g
  <2>6. QED
    BY <2>2, <2>3, <2>5
<1> HIDE DEF S
<1>3. m \in S
  <2>1. 0 .. m \subseteq S
    BY <1>1, <1>2, InductUpTo
  <2>2. QED
    BY <2>1
<1>4. QED
  BY <1>3 DEF S
-----------------------------------------------------------------------------
(* Integers                                                                  *)

SumTo(f, s) == f = [n \in 0 .. Len(s) |-> IF n = 0 THEN 0 ELSE f[n - 1] + s[n] * Pow[n - 1]]

Sums(s) == CHOOSE f : SumTo(f, s)

LEMMA FromLEIsSum ==
  ASSUME NEW s
  PROVE  FromLE(s) = Sums(s)[Len(s)]
BY DEF FromLE, Sums, SumTo

LEMMA CellFacts == 
  /\ \A c \in Cell : c \in Nat /\ c < Base
  /\ Base \in Nat /\ Base > 2
BY BaseAssumption DEF Cell

LEMMA SumsRec ==
  ASSUME NEW s \in Seq(Cell)
  PROVE  /\ Sums(s)[0] = 0
         /\ \A n \in 1 .. Len(s) : Sums(s)[n] = Sums(s)[n - 1] + s[n] * Pow[n - 1]
<1> DEFINE m == Len(s)
           G == [p \in (1 .. m) \X Nat |-> p[2] + s[p[1]] * Pow[p[1] - 1]]
<1>0. m \in Nat
  OBVIOUS
<1>1. G \in [(1 .. m) \X Nat -> Nat]
  <2> SUFFICES ASSUME NEW i \in 1 .. m, NEW x \in Nat
               PROVE  x + s[i] * Pow[i - 1] \in Nat
    OBVIOUS
  <2>1. s[i] \in Nat
    BY CellFacts
  <2>2. Pow[i - 1] \in Nat
    <3>1. i - 1 \in Nat
      OBVIOUS
    <3>2. QED
      BY <3>1, PowFacts
  <2>3. QED
    BY <2>1, <2>2
<1>2. \A i \in 1 .. m, x \in Nat : G[<<i, x>>] = x + s[i] * Pow[i - 1]
  OBVIOUS
<1> HIDE DEF G
<1>3. PICK f \in [0 .. m -> Nat] : RecOn(f, m, 0, G)
  <2>1. 0 \in Nat
    OBVIOUS
  <2>2. QED
    BY <1>0, <1>1, <2>1, RecExists
<1>4. ASSUME NEW n \in 0 .. m PROVE f[n] = IF n = 0 THEN 0 ELSE f[n - 1] + s[n] * Pow[n - 1]
  <2>1. CASE n = 0
    BY <1>3, <2>1 DEF RecOn
  <2>2. CASE n \in 1 .. m
    <3>1. f[n - 1] \in Nat
      BY <2>2
    <3>2. f[n] = G[<<n, f[n - 1]>>]
      BY <1>3, <2>2 DEF RecOn
    <3>3. QED
      BY <1>2, <2>2, <3>1, <3>2
  <2>3. QED
    BY <2>1, <2>2
<1>5. SumTo(f, s)
  BY <1>4 DEF SumTo
<1>6. SumTo(Sums(s), s)
  BY <1>5 DEF Sums
<1>7. QED
  BY <1>0, <1>6 DEF SumTo

LEMMA SumsBound ==
  ASSUME NEW s \in Seq(Cell)
  PROVE  \A n \in 0 .. Len(s) : Sums(s)[n] \in Nat /\ Sums(s)[n] < Pow[n]
<1> DEFINE S == {n \in Nat : Sums(s)[n] \in Nat /\ Sums(s)[n] < Pow[n]}
<1>1. 0 \in S
  BY SumsRec, PowFacts
<1>2. ASSUME NEW n \in 0 .. Len(s) - 1, n \in S PROVE n + 1 \in S
  <2>1. Sums(s)[n + 1] = Sums(s)[n] + s[n + 1] * Pow[n]
    <3>1. n + 1 \in 1 .. Len(s) /\ (n + 1) - 1 = n
      OBVIOUS
    <3>2. QED
      BY <3>1, SumsRec
  <2>2. s[n + 1] \in Nat /\ s[n + 1] <= Base - 1
    BY CellFacts
  <2>3. Pow[n] \in Nat /\ Pow[n + 1] = Base * Pow[n]
    <3>1. n \in Nat
      OBVIOUS
    <3>2. QED
      BY <3>1, PowFacts
  <2>4. Sums(s)[n] \in Nat /\ Sums(s)[n] < Pow[n]
    BY <1>2
  <2>5. \A a, b, c, p \in Nat : a < p /\ b <= c - 1 => a + b * p < c * p /\ a + b * p \in Nat
    OBVIOUS
  <2>6. Sums(s)[n] + s[n + 1] * Pow[n] \in Nat /\ Sums(s)[n] + s[n + 1] * Pow[n] < Base * Pow[n]
    BY <2>2, <2>3, <2>4, <2>5, CellFacts
  <2>7. QED
    BY <2>1, <2>3, <2>6
<1> HIDE DEF S
<1>3. 0 .. Len(s) \subseteq S
  <2>1. Len(s) \in Nat
    OBVIOUS
  <2>2. QED
    BY <1>1, <1>2, <2>1, InductUpTo
<1>4. QED
  BY <1>3 DEF S

\* from_le_bytes gives a value of the width.
LEMMA FromLEBound ==
  ASSUME NEW s \in Seq(Cell)
  PROVE  FromLE(s) \in 0 .. Pow[Len(s)] - 1
<1>1. Len(s) \in 0 .. Len(s) /\ Pow[Len(s)] \in Nat
  BY PowFacts
<1>2. QED
  BY <1>1, SumsBound, FromLEIsSum

LEMMA Division ==
  ASSUME NEW n \in Nat, NEW m \in Nat \ {0}
  PROVE  /\ n \div m \in Nat
         /\ (n % m) \in 0 .. m - 1
         /\ n = m * (n \div m) + (n % m)
OBVIOUS

LEMMA ToLEType ==
  ASSUME NEW n \in Nat, NEW w \in Nat
  PROVE  /\ ToLE(n, w) \in Seq(Cell)
         /\ Len(ToLE(n, w)) = w
         /\ \A i \in 1 .. w : ToLE(n, w)[i] = (n \div Pow[i - 1]) % Base
<1>1. ASSUME NEW i \in 1 .. w PROVE ((n \div Pow[i - 1]) % Base) \in Cell
  <2>1. Pow[i - 1] \in Nat \ {0}
    <3>1. i - 1 \in Nat
      OBVIOUS
    <3>2. QED
      BY <3>1, PowFacts
  <2>2. n \div Pow[i - 1] \in Nat
    BY <2>1, Division
  <2>3. ((n \div Pow[i - 1]) % Base) \in 0 .. Base - 1
    <3>1. Base \in Nat \ {0}
      BY CellFacts
    <3>2. \A q \in Nat : (q % Base) \in 0 .. Base - 1
      BY <3>1
    <3>3. QED
      BY <2>2, <3>2
  <2>4. QED
    BY <2>3 DEF Cell
<1>2. ToLE(n, w) \in [1 .. w -> Cell]
  BY <1>1 DEF ToLE
<1>3. QED
  BY <1>2 DEF ToLE

LEMMA Unique ==
  ASSUME NEW m \in Nat \ {0}, NEW q \in Nat, NEW r \in 0 .. m - 1,
         NEW u \in Nat, NEW v \in 0 .. m - 1, m * q + r = m * u + v
  PROVE  q = u /\ r = v
OBVIOUS

LEMMA Digit ==
  ASSUME NEW n \in Nat, NEW p \in Nat \ {0}, NEW b \in Nat \ {0}
  PROVE  (n % (b * p)) = (n % p) + ((n \div p) % b) * p
<1> DEFINE q == n \div p
           r == n % p
           u == q \div b
           d == q % b
           P == b * p
           Q == n \div P
           R == n % P
<1>1. q \in Nat /\ r \in 0 .. p - 1 /\ n = p * q + r
  BY Division
<1>2. u \in Nat /\ d \in 0 .. b - 1 /\ q = b * u + d
  <2> HIDE DEF q
  <2>1. QED
    BY <1>1, Division
<1>3. P \in Nat \ {0}
  OBVIOUS
<1>4. Q \in Nat /\ R \in 0 .. P - 1 /\ n = P * Q + R
  <2> HIDE DEF P
  <2>1. QED
    BY <1>3, Division
<1> HIDE DEF q, r, u, d, Q, R
<1>5. n = P * u + (r + d * p)
  BY <1>1, <1>2
<1>6. r + d * p \in 0 .. P - 1
  <2>1. \A x, y \in Nat : x < p /\ y <= b - 1 => x + y * p \in Nat /\ x + y * p < b * p
    OBVIOUS
  <2>2. r \in Nat /\ r < p /\ d \in Nat /\ d <= b - 1
    BY <1>1, <1>2
  <2>3. r + d * p \in Nat /\ r + d * p < b * p
    BY <2>1, <2>2
  <2>4. QED
    BY <2>3
<1>7. R = r + d * p
  <2> HIDE DEF P
  <2> DEFINE v == r + d * p
  <2>1. v \in 0 .. P - 1 /\ P * Q + R = P * u + v
    BY <1>4, <1>5, <1>6
  <2> HIDE DEF v
  <2>2. R = v
    BY <1>2, <1>3, <1>4, <2>1, Unique
  <2>3. QED
    BY <2>2 DEF v
<1>8. QED
  BY <1>7 DEF R, P, r, d, q

\* from_le_bytes undoes to_le_bytes on the cells that are kept.
LEMMA ReadsBack ==
  ASSUME NEW n \in Nat, NEW w \in Nat
  PROVE  FromLE(ToLE(n, w)) = n % Pow[w]
<1> DEFINE s == ToLE(n, w)
           S == {k \in Nat : Sums(s)[k] = n % Pow[k]}
<1>1. s \in Seq(Cell) /\ Len(s) = w /\ \A i \in 1 .. w : s[i] = (n \div Pow[i - 1]) % Base
  BY ToLEType
<1> HIDE DEF s
<1>2. 0 \in S
  <2>1. Sums(s)[0] = 0 /\ Pow[0] = 1
    BY <1>1, SumsRec, PowFacts
  <2>2. n % 1 = 0
    OBVIOUS
  <2>3. QED
    BY <2>1, <2>2
<1>3. ASSUME NEW k \in 0 .. w - 1, k \in S PROVE k + 1 \in S
  <2>1. k + 1 \in 1 .. w /\ (k + 1) - 1 = k /\ k \in Nat
    OBVIOUS
  <2>2. Sums(s)[k + 1] = Sums(s)[k] + s[k + 1] * Pow[k]
    BY <1>1, <2>1, SumsRec
  <2>3. s[k + 1] = (n \div Pow[k]) % Base
    BY <1>1, <2>1
  <2>4. Pow[k] \in Nat \ {0} /\ Pow[k + 1] = Base * Pow[k]
    BY <2>1, PowFacts
  <2>5. Sums(s)[k] = n % Pow[k]
    BY <1>3
  <2>6. Base \in Nat \ {0}
    BY CellFacts
  <2>7. n % (Base * Pow[k]) = (n % Pow[k]) + ((n \div Pow[k]) % Base) * Pow[k]
    BY <2>4, <2>6, Digit
  <2>8. Sums(s)[k + 1] = n % Pow[k + 1]
    BY <2>2, <2>3, <2>4, <2>5, <2>7
  <2>9. QED
    BY <2>1, <2>8
<1> HIDE DEF S
<1>4. w \in S
  <2>1. 0 .. w \subseteq S
    BY <1>2, <1>3, InductUpTo
  <2>2. QED
    BY <2>1
<1>5. QED
  BY <1>1, <1>4, FromLEIsSum DEF S, s

LEMMA ReadsBackFitting ==
  ASSUME NEW w \in Nat, NEW n \in 0 .. Pow[w] - 1
  PROVE  FromLE(ToLE(n, w)) = n
<1>1. Pow[w] \in Nat \ {0} /\ n \in Nat
  BY PowFacts
<1>2. n % Pow[w] = n
  BY <1>1
<1>3. QED
  BY <1>1, <1>2, ReadsBack

\* The top cell and the value below it are determined by a sum.
LEMMA TopCell ==
  ASSUME NEW s \in Seq(Cell), NEW t \in Seq(Cell), Len(s) = Len(t), NEW n \in 1 .. Len(s),
         Sums(s)[n] = Sums(t)[n]
  PROVE  s[n] = t[n] /\ Sums(s)[n - 1] = Sums(t)[n - 1]
<1>1. n - 1 \in Nat /\ n - 1 \in 0 .. Len(s) /\ n \in 1 .. Len(t) /\ n - 1 \in 0 .. Len(t)
  OBVIOUS
<1> DEFINE p == Pow[n - 1]
           a == Sums(s)[n - 1]
           b == Sums(t)[n - 1]
           c == s[n]
           d == t[n]
<1>2. p \in Nat \ {0}
  BY <1>1, PowFacts
<1>3. a \in Nat /\ a < p /\ b \in Nat /\ b < p
  BY <1>1, SumsBound
<1>4. c \in Nat /\ d \in Nat
  BY CellFacts
<1>5. a + c * p = b + d * p
  BY <1>1, SumsRec
<1> HIDE DEF p, a, b, c, d
<1>6. p * c + a = p * d + b /\ a \in 0 .. p - 1 /\ b \in 0 .. p - 1
  BY <1>2, <1>3, <1>4, <1>5
<1>7. c = d /\ a = b
  BY <1>2, <1>4, <1>6, Unique
<1>8. QED
  BY <1>7 DEF a, b, c, d

LEMMA FromLEInjective ==
  ASSUME NEW s \in Seq(Cell), NEW t \in Seq(Cell), Len(s) = Len(t), FromLE(s) = FromLE(t)
  PROVE  s = t
<1> DEFINE m == Len(s)
           S == {k \in Nat : Sums(s)[m - k] = Sums(t)[m - k]}
<1>1. m \in Nat /\ Sums(s)[m] = Sums(t)[m]
  BY FromLEIsSum
<1>2. 0 \in S
  BY <1>1
<1>3. ASSUME NEW k \in 0 .. m - 1, k \in S PROVE k + 1 \in S
  <2>1. m - k \in 1 .. Len(s) /\ (m - k) - 1 = m - (k + 1)
    BY <1>1
  <2>2. Sums(s)[(m - k) - 1] = Sums(t)[(m - k) - 1]
    BY <1>3, <2>1, TopCell
  <2>3. QED
    BY <2>1, <2>2
<1> HIDE DEF S
<1>4. 0 .. m \subseteq S
  BY <1>1, <1>2, <1>3, InductUpTo
<1>5. ASSUME NEW n \in 1 .. m PROVE s[n] = t[n]
  <2>1. m - n \in 0 .. m /\ m - (m - n) = n
    BY <1>1
  <2>2. Sums(s)[n] = Sums(t)[n]
    BY <1>4, <2>1 DEF S
  <2>3. QED
    BY <2>2, TopCell
<1>6. QED
  BY <1>5

\* to_le_bytes undoes from_le_bytes.
LEMMA WritesBack ==
  ASSUME NEW s \in Seq(Cell)
  PROVE  ToLE(FromLE(s), Len(s)) = s
<1> DEFINE n == FromLE(s)
           w == Len(s)
<1>1. w \in Nat /\ n \in 0 .. Pow[w] - 1 /\ n \in Nat
  BY FromLEBound, PowFacts
<1> HIDE DEF n
<1>2. FromLE(ToLE(n, w)) = n
  BY <1>1, ReadsBackFitting
<1>3. ToLE(n, w) \in Seq(Cell) /\ Len(ToLE(n, w)) = w
  BY <1>1, ToLEType
<1>4. QED
  BY <1>2, <1>3, FromLEInjective DEF n
-----------------------------------------------------------------------------
(* Bytes at a position                                                       *)

\* s stands in d behind position pos.
At(d, pos, s) == pos + Len(s) <= Len(d) /\ \A i \in 1 .. Len(s) : d[pos + i] = s[i]

LEMMA AtConcat ==
  ASSUME NEW d \in Seq(Cell), NEW pos \in Nat, NEW s \in Seq(Cell), NEW t \in Seq(Cell)
  PROVE  At(d, pos, s \o t) <=> At(d, pos, s) /\ At(d, pos + Len(s), t)
<1> DEFINE u == s \o t
<1>1. /\ Len(s) \in Nat /\ Len(t) \in Nat /\ Len(u) = Len(s) + Len(t)
      /\ \A i \in 1 .. Len(s) : u[i] = s[i]
      /\ \A i \in 1 .. Len(t) : u[Len(s) + i] = t[i]
  OBVIOUS
<1> HIDE DEF u
<1>2. ASSUME At(d, pos, u) PROVE At(d, pos, s)
  BY <1>1, <1>2 DEF At
<1>3. ASSUME At(d, pos, u) PROVE At(d, pos + Len(s), t)
  <2>1. ASSUME NEW i \in 1 .. Len(t) PROVE d[(pos + Len(s)) + i] = t[i]
    <3>1. Len(s) + i \in 1 .. Len(u) /\ (pos + Len(s)) + i = pos + (Len(s) + i)
      BY <1>1
    <3>2. d[pos + (Len(s) + i)] = u[Len(s) + i]
      BY <1>3, <3>1 DEF At
    <3>3. QED
      BY <1>1, <3>1, <3>2
  <2>2. (pos + Len(s)) + Len(t) <= Len(d)
    BY <1>1, <1>3 DEF At
  <2>3. QED
    BY <2>1, <2>2 DEF At
<1>4. ASSUME At(d, pos, s), At(d, pos + Len(s), t) PROVE At(d, pos, u)
  <2>1. ASSUME NEW i \in 1 .. Len(u) PROVE d[pos + i] = u[i]
    <3>1. CASE i \in 1 .. Len(s)
      BY <1>1, <1>4, <3>1 DEF At
    <3>2. CASE i > Len(s)
      <4>1. i - Len(s) \in 1 .. Len(t) /\ (pos + Len(s)) + (i - Len(s)) = pos + i
              /\ Len(s) + (i - Len(s)) = i
        BY <1>1, <3>2
      <4>2. d[(pos + Len(s)) + (i - Len(s))] = t[i - Len(s)]
        BY <1>4, <4>1 DEF At
      <4>3. u[Len(s) + (i - Len(s))] = t[i - Len(s)]
        BY <1>1, <4>1
      <4>4. QED
        BY <4>1, <4>2, <4>3
    <3>3. QED
      BY <1>1, <3>1, <3>2
  <2>2. pos + Len(u) <= Len(d)
    BY <1>1, <1>4 DEF At
  <2>3. QED
    BY <2>1, <2>2 DEF At
<1>5. QED
  BY <1>2, <1>3, <1>4 DEF u

Joined(s, t) == s \o t

LEMMA AtJoined ==
  ASSUME NEW d \in Seq(Cell), NEW pos \in Nat, NEW s \in Seq(Cell), NEW t \in Seq(Cell)
  PROVE  /\ At(d, pos, Joined(s, t)) <=> At(d, pos, s) /\ At(d, pos + Len(s), t)
         /\ Joined(s, t) \in Seq(Cell) /\ Len(Joined(s, t)) = Len(s) + Len(t)
         /\ Len(s) \in Nat /\ Len(t) \in Nat /\ pos + Len(s) \in Nat
<1>1. At(d, pos, Joined(s, t)) <=> At(d, pos, s) /\ At(d, pos + Len(s), t)
  BY AtConcat DEF Joined
<1>2. QED
  BY <1>1 DEF Joined

LEMMA AtWhole ==
  ASSUME NEW d \in Seq(Cell), NEW s \in Seq(Cell), At(d, 0, s), Len(s) = Len(d)
  PROVE  s = d
BY DEF At

LEMMA AtItself ==
  ASSUME NEW d \in Seq(Cell)
  PROVE  At(d, 0, d)
BY DEF At

\* What take returns stands there.
LEMMA TakeAt ==
  ASSUME NEW d \in Seq(Cell), NEW pos \in Nat, NEW n \in Nat, Has(d, pos, n)
  PROVE  /\ Take(d, pos, n) \in Seq(Cell)
         /\ Len(Take(d, pos, n)) = n
         /\ At(d, pos, Take(d, pos, n))
<1>1. pos + n <= Len(d) /\ Len(d) \in Nat
  BY DEF Has
<1> DEFINE t == SubSeq(d, pos + 1, pos + n)
<1>2. t \in Seq(Cell)
  <2>1. pos + 1 \in 1 .. Len(d) + 1 /\ pos + n \in Int
    BY <1>1
  <2>2. QED
    BY <1>1
<1>3. Len(t) = n
  BY <1>1
<1>4. \A i \in 1 .. n : t[i] = d[pos + i]
  BY <1>1
<1>5. QED
  BY <1>1, <1>2, <1>3, <1>4 DEF Take, At

\* What stands there is what take returns.
LEMMA AtTaken ==
  ASSUME NEW d \in Seq(Cell), NEW pos \in Nat, NEW s \in Seq(Cell), At(d, pos, s)
  PROVE  Has(d, pos, Len(s)) /\ Take(d, pos, Len(s)) = s
<1> DEFINE n == Len(s)
<1>1. n \in Nat /\ Has(d, pos, n)
  BY DEF At, Has
<1>2. /\ Take(d, pos, n) \in Seq(Cell) /\ Len(Take(d, pos, n)) = n
      /\ At(d, pos, Take(d, pos, n))
  BY <1>1, TakeAt
<1>3. QED
  BY <1>1, <1>2 DEF At

\* A u32 or u64 that is read stands there as its cells.
LEMMA WordAt ==
  ASSUME NEW d \in Seq(Cell), NEW pos \in Nat, NEW w \in Nat, Has(d, pos, w)
  PROVE  /\ FromLE(Take(d, pos, w)) \in 0 .. Pow[w] - 1
         /\ At(d, pos, ToLE(FromLE(Take(d, pos, w)), w))
<1>1. /\ Take(d, pos, w) \in Seq(Cell) /\ Len(Take(d, pos, w)) = w
      /\ At(d, pos, Take(d, pos, w))
  BY TakeAt
<1> DEFINE t == Take(d, pos, w)
<1> HIDE DEF t
<1>2. FromLE(t) \in 0 .. Pow[w] - 1 /\ ToLE(FromLE(t), w) = t
  BY <1>1, FromLEBound, WritesBack DEF t
<1>3. QED
  BY <1>1, <1>2 DEF t

\* A fitting number whose cells stand there is read.
LEMMA WordTaken ==
  ASSUME NEW d \in Seq(Cell), NEW pos \in Nat, NEW w \in Nat, NEW n \in 0 .. Pow[w] - 1,
         At(d, pos, ToLE(n, w))
  PROVE  Has(d, pos, w) /\ FromLE(Take(d, pos, w)) = n
<1>1. n \in Nat
  BY PowFacts
<1>2. ToLE(n, w) \in Seq(Cell) /\ Len(ToLE(n, w)) = w
  BY <1>1, ToLEType
<1>3. Has(d, pos, w) /\ Take(d, pos, w) = ToLE(n, w)
  BY <1>2, AtTaken
<1>4. QED
  BY <1>3, ReadsBackFitting

LEMMA AtOne ==
  ASSUME NEW d \in Seq(Cell), NEW pos \in Nat, NEW c \in Cell
  PROVE  At(d, pos, <<c>>) <=> pos + 1 <= Len(d) /\ d[pos + 1] = c
BY DEF At

LEMMA Widths ==
  /\ W32 \in Nat /\ W32 >= 1 /\ W64 \in Nat /\ W64 >= 1
  /\ Max32 \in Nat /\ Max64 \in Nat
  /\ 0 .. Pow[W32] - 1 = 0 .. Max32 /\ 0 .. Pow[W64] - 1 = 0 .. Max64
<1>1. W32 \in Nat /\ W32 >= 1 /\ W64 \in Nat /\ W64 >= 1
  BY WidthAssumption
<1>2. Pow[W32] \in Nat \ {0} /\ Pow[W64] \in Nat \ {0}
  BY <1>1, PowFacts
<1>3. QED
  BY <1>1, <1>2 DEF Max32, Max64

\* A length prefix and its payload.
LEMMA FramedFacts ==
  ASSUME NEW s \in Seq(Cell)
  PROVE  /\ Framed(s) \in Seq(Cell)
         /\ Len(Framed(s)) = W32 + Len(s)
         /\ ToLE(Len(s), W32) \in Seq(Cell)
         /\ Len(ToLE(Len(s), W32)) = W32
<1>1. Len(s) \in Nat /\ W32 \in Nat
  BY Widths
<1>2. ToLE(Len(s), W32) \in Seq(Cell) /\ Len(ToLE(Len(s), W32)) = W32
  BY <1>1, ToLEType
<1>3. QED
  BY <1>2 DEF Framed

LEMMA FramedAt ==
  ASSUME NEW d \in Seq(Cell), NEW pos \in Nat, NEW s \in Seq(Cell)
  PROVE  At(d, pos, Framed(s)) <=> At(d, pos, ToLE(Len(s), W32)) /\ At(d, pos + W32, s)
BY FramedFacts, AtConcat DEF Framed
-----------------------------------------------------------------------------
(* The entries, written one behind the other                                 *)

CatTo(f, ss) == f = [n \in 0 .. Len(ss) |-> IF n = 0 THEN << >> ELSE Joined(f[n - 1], ss[n])]

Cats(ss) == CHOOSE f : CatTo(f, ss)

Frames(es) == [i \in DOMAIN es |-> Framed(es[i])]

LEMMA ConcatIsCat ==
  ASSUME NEW ss
  PROVE  Concat(ss) = Cats(ss)[Len(ss)]
BY DEF Concat, Cats, CatTo, Joined

LEMMA CatsRec ==
  ASSUME NEW ss \in Seq(Seq(Cell))
  PROVE  /\ Cats(ss)[0] = << >>
         /\ \A n \in 1 .. Len(ss) : Cats(ss)[n] = Cats(ss)[n - 1] \o ss[n]
<1> DEFINE m == Len(ss)
           V == Seq(Cell)
           G == [p \in (1 .. m) \X V |-> Joined(p[2], ss[p[1]])]
<1>0. m \in Nat
  OBVIOUS
<1>1. G \in [(1 .. m) \X V -> V]
  <2> SUFFICES ASSUME NEW i \in 1 .. m, NEW x \in V
               PROVE  Joined(x, ss[i]) \in V
    OBVIOUS
  <2>1. ss[i] \in Seq(Cell)
    OBVIOUS
  <2>2. QED
    BY <2>1 DEF Joined
<1>2. \A i \in 1 .. m, x \in V : G[<<i, x>>] = Joined(x, ss[i])
  OBVIOUS
<1>a. << >> \in V
  OBVIOUS
<1> HIDE DEF G, V
<1>3. PICK f \in [0 .. m -> V] : RecOn(f, m, << >>, G)
  BY <1>0, <1>1, <1>a, RecExists
<1>4. ASSUME NEW n \in 0 .. m PROVE f[n] = IF n = 0 THEN << >> ELSE Joined(f[n - 1], ss[n])
  <2>1. CASE n = 0
    BY <1>3, <2>1 DEF RecOn
  <2>2. CASE n \in 1 .. m
    <3>1. f[n - 1] \in V
      BY <2>2
    <3>2. f[n] = G[<<n, f[n - 1]>>]
      BY <1>3, <2>2 DEF RecOn
    <3>3. QED
      BY <1>2, <2>2, <3>1, <3>2
  <2>3. QED
    BY <2>1, <2>2
<1>5. CatTo(f, ss)
  BY <1>4 DEF CatTo
<1>6. CatTo(Cats(ss), ss)
  BY <1>5 DEF Cats
<1>7. /\ Cats(ss)[0] = << >>
      /\ \A n \in 1 .. Len(ss) : Cats(ss)[n] = Joined(Cats(ss)[n - 1], ss[n])
  BY <1>0, <1>6 DEF CatTo
<1>8. QED
  BY <1>7 DEF Joined

LEMMA CatsType ==
  ASSUME NEW ss \in Seq(Seq(Cell))
  PROVE  \A n \in 0 .. Len(ss) : Cats(ss)[n] \in Seq(Cell)
<1> DEFINE S == {n \in Nat : Cats(ss)[n] \in Seq(Cell)}
<1>1. 0 \in S
  <2>1. Cats(ss)[0] = << >>
    BY CatsRec
  <2>2. << >> \in Seq(Cell) /\ 0 \in Nat
    OBVIOUS
  <2>3. QED
    BY <2>1, <2>2, Zenon
<1>2. ASSUME NEW n \in 0 .. Len(ss) - 1, n \in S PROVE n + 1 \in S
  <2>1. n + 1 \in 1 .. Len(ss) /\ (n + 1) - 1 = n
    OBVIOUS
  <2>2. Cats(ss)[n + 1] = Cats(ss)[n] \o ss[n + 1]
    BY <2>1, CatsRec
  <2>3. ss[n + 1] \in Seq(Cell) /\ Cats(ss)[n] \in Seq(Cell)
    BY <1>2, <2>1
  <2>4. Cats(ss)[n] \o ss[n + 1] \in Seq(Cell)
    BY <2>3
  <2>5. n + 1 \in Nat
    OBVIOUS
  <2>6. QED
    BY <2>2, <2>4, <2>5, Zenon
<1> HIDE DEF S
<1>3. 0 .. Len(ss) \subseteq S
  <2>1. Len(ss) \in Nat
    OBVIOUS
  <2>2. QED
    BY <1>1, <1>2, <2>1, InductUpTo
<1>4. QED
  BY <1>3 DEF S

LEMMA FramesFacts ==
  ASSUME NEW es \in Seq(Seq(Cell))
  PROVE  /\ Frames(es) \in Seq(Seq(Cell))
         /\ Len(Frames(es)) = Len(es)
         /\ \A n \in 1 .. Len(es) : Frames(es)[n] = Framed(es[n]) /\ Len(Frames(es)[n]) = W32 + Len(es[n])
<1>1. ASSUME NEW n \in 1 .. Len(es)
      PROVE  Framed(es[n]) \in Seq(Cell) /\ Len(Framed(es[n])) = W32 + Len(es[n])
  <2>1. es[n] \in Seq(Cell)
    OBVIOUS
  <2>2. QED
    BY <2>1, FramedFacts
<1>2. Frames(es) \in [1 .. Len(es) -> Seq(Cell)]
  BY <1>1 DEF Frames
<1>3. QED
  BY <1>1, <1>2 DEF Frames

\* The first n entries take at least n length prefixes.
LEMMA CatsLen ==
  ASSUME NEW es \in Seq(Seq(Cell))
  PROVE  \A n \in 0 .. Len(es) : Len(Cats(Frames(es))[n]) >= n * W32
<1> DEFINE ss == Frames(es)
           S == {n \in Nat : Len(Cats(ss)[n]) >= n * W32}
<1>1. /\ ss \in Seq(Seq(Cell)) /\ Len(ss) = Len(es)
      /\ \A n \in 1 .. Len(es) : Len(ss[n]) = W32 + Len(es[n])
  BY FramesFacts
<1> HIDE DEF ss
<1>2. 0 \in S
  BY <1>1, CatsRec, Widths
<1>3. ASSUME NEW n \in 0 .. Len(es) - 1, n \in S PROVE n + 1 \in S
  <2>1. n + 1 \in 1 .. Len(ss) /\ (n + 1) - 1 = n /\ n \in 0 .. Len(ss)
    BY <1>1
  <2>2. Cats(ss)[n + 1] = Cats(ss)[n] \o ss[n + 1]
    BY <1>1, <2>1, CatsRec
  <2>3. ss[n + 1] \in Seq(Cell) /\ Cats(ss)[n] \in Seq(Cell)
    BY <1>1, <2>1, CatsType
  <2>4. Len(Cats(ss)[n + 1]) = Len(Cats(ss)[n]) + Len(ss[n + 1])
    BY <2>2, <2>3
  <2>5. Len(ss[n + 1]) >= W32
    <3>1. es[n + 1] \in Seq(Cell) /\ Len(ss[n + 1]) = W32 + Len(es[n + 1])
      BY <1>1, <2>1
    <3>2. Len(es[n + 1]) \in Nat
      BY <3>1
    <3>3. QED
      BY <3>1, <3>2, Widths
  <2>6. Len(Cats(ss)[n]) >= n * W32 /\ Len(Cats(ss)[n]) \in Nat /\ Len(ss[n + 1]) \in Nat
    BY <1>3, <2>3
  <2>7. \A a, b, k, w \in Nat : a >= k * w /\ b >= w => a + b >= (k + 1) * w
    OBVIOUS
  <2> DEFINE a == Len(Cats(ss)[n])
             b == Len(ss[n + 1])
             c == Len(Cats(ss)[n + 1])
  <2>8. a \in Nat /\ b \in Nat /\ n \in Nat /\ W32 \in Nat /\ a >= n * W32 /\ b >= W32 /\ c = a + b
    BY <2>1, <2>4, <2>5, <2>6, Widths
  <2> HIDE DEF a, b, c
  <2>9. c >= (n + 1) * W32
    BY <2>7, <2>8
  <2>10. QED
    BY <2>1, <2>9 DEF c
<1> HIDE DEF S
<1>4. 0 .. Len(es) \subseteq S
  <2>1. Len(es) \in Nat
    OBVIOUS
  <2>2. QED
    BY <1>2, <1>3, <2>1, InductUpTo
<1>5. QED
  BY <1>4 DEF S, ss
-----------------------------------------------------------------------------
(* The entries, read one behind the other                                    *)

EndStep(data, e) ==
  IF e = -1 \/ ~Has(data, e, W32) THEN -1
  ELSE IF Has(data, e + W32, U32(data, e)) THEN e + W32 + U32(data, e) ELSE -1

EndTo(f, data, pos, count) ==
  f = [n \in 0 .. count |-> IF n = 0 THEN pos ELSE EndStep(data, f[n - 1])]

Positions(data) == {-1} \cup (0 .. Len(data))

LEMMA EndsAre ==
  ASSUME NEW data, NEW pos, NEW count
  PROVE  EntryEnds(data, pos, count) = CHOOSE f : EndTo(f, data, pos, count)
BY DEF EntryEnds, EndTo, EndStep

LEMMA EndStepType ==
  ASSUME NEW data \in Seq(Cell), NEW e \in Positions(data)
  PROVE  EndStep(data, e) \in Positions(data)
<1>1. CASE e = -1 \/ ~Has(data, e, W32)
  BY <1>1 DEF EndStep, Positions
<1>2. CASE e # -1 /\ Has(data, e, W32)
  <2>1. e \in Nat /\ W32 \in Nat /\ Len(data) \in Nat
    BY <1>2, Widths DEF Positions
  <2>2. U32(data, e) \in Nat
    <3>1. Pow[W32] \in Nat
      BY <2>1, PowFacts
    <3>2. QED
      BY <1>2, <2>1, <3>1, WordAt DEF U32
  <2>3. CASE Has(data, e + W32, U32(data, e))
    BY <1>2, <2>1, <2>2, <2>3 DEF EndStep, Positions, Has
  <2>4. CASE ~Has(data, e + W32, U32(data, e))
    BY <1>2, <2>4 DEF EndStep, Positions
  <2>5. QED
    BY <2>3, <2>4
<1>3. QED
  BY <1>1, <1>2

LEMMA EndsRec ==
  ASSUME NEW data \in Seq(Cell), NEW pos \in 0 .. Len(data), NEW count \in Nat
  PROVE  /\ EntryEnds(data, pos, count)[0] = pos
         /\ \A n \in 1 .. count :
              EntryEnds(data, pos, count)[n] = EndStep(data, EntryEnds(data, pos, count)[n - 1])
<1> DEFINE V == Positions(data)
           G == [p \in (1 .. count) \X V |-> EndStep(data, p[2])]
           E == EntryEnds(data, pos, count)
<1>1. G \in [(1 .. count) \X V -> V]
  <2> SUFFICES ASSUME NEW i \in 1 .. count, NEW x \in V
               PROVE  EndStep(data, x) \in V
    OBVIOUS
  <2>2. QED
    BY EndStepType
<1>2. \A i \in 1 .. count, x \in V : G[<<i, x>>] = EndStep(data, x)
  OBVIOUS
<1>a. pos \in V
  BY DEF Positions
<1> HIDE DEF G, V
<1>3. PICK f \in [0 .. count -> V] : RecOn(f, count, pos, G)
  BY <1>1, <1>a, RecExists
<1>4. ASSUME NEW n \in 0 .. count PROVE f[n] = IF n = 0 THEN pos ELSE EndStep(data, f[n - 1])
  <2>1. CASE n = 0
    BY <1>3, <2>1 DEF RecOn
  <2>2. CASE n \in 1 .. count
    <3>1. f[n - 1] \in V
      BY <2>2
    <3>2. f[n] = G[<<n, f[n - 1]>>]
      BY <1>3, <2>2 DEF RecOn
    <3>3. QED
      BY <1>2, <2>2, <3>1, <3>2
  <2>3. QED
    BY <2>1, <2>2
<1>5. EndTo(f, data, pos, count)
  BY <1>4 DEF EndTo
<1>6. EndTo(E, data, pos, count)
  BY <1>5, EndsAre
<1> HIDE DEF E
<1>7. E[0] = pos /\ \A n \in 1 .. count : E[n] = EndStep(data, E[n - 1])
  BY <1>6 DEF EndTo
<1>8. QED
  BY <1>7 DEF E

LEMMA EndsType ==
  ASSUME NEW data \in Seq(Cell), NEW pos \in 0 .. Len(data), NEW count \in Nat
  PROVE  \A n \in 0 .. count : EntryEnds(data, pos, count)[n] \in Positions(data)
<1> DEFINE E == EntryEnds(data, pos, count)
           S == {n \in Nat : E[n] \in Positions(data)}
<1>1. E[0] = pos /\ \A n \in 1 .. count : E[n] = EndStep(data, E[n - 1])
  BY EndsRec
<1> HIDE DEF E
<1>2. 0 \in S
  BY <1>1 DEF Positions
<1>3. ASSUME NEW n \in 0 .. count - 1, n \in S PROVE n + 1 \in S
  <2>1. n + 1 \in 1 .. count /\ (n + 1) - 1 = n /\ n + 1 \in Nat
    OBVIOUS
  <2>2. E[n + 1] = EndStep(data, E[n]) /\ E[n] \in Positions(data)
    BY <1>1, <1>3, <2>1
  <2>3. QED
    BY <2>1, <2>2, EndStepType
<1> HIDE DEF S
<1>4. 0 .. count \subseteq S
  BY <1>2, <1>3, InductUpTo
<1>5. QED
  BY <1>4 DEF S, E

\* Once too short, always too short.
LEMMA EndsStay ==
  ASSUME NEW data \in Seq(Cell), NEW pos \in 0 .. Len(data), NEW count \in Nat,
         EntryEnds(data, pos, count)[count] # -1
  PROVE  \A n \in 0 .. count : EntryEnds(data, pos, count)[n] # -1
<1> DEFINE E == EntryEnds(data, pos, count)
           S == {k \in Nat : E[count - k] # -1}
<1>1. \A n \in 1 .. count : E[n] = EndStep(data, E[n - 1])
  BY EndsRec
<1> HIDE DEF E
<1>2. 0 \in S
  <2>1. count - 0 = count
    OBVIOUS
  <2>2. QED
    BY <2>1 DEF E
<1>3. ASSUME NEW k \in 0 .. count - 1, k \in S PROVE k + 1 \in S
  <2>1. count - k \in 1 .. count /\ (count - k) - 1 = count - (k + 1) /\ k + 1 \in Nat
    OBVIOUS
  <2>2. E[count - k] = EndStep(data, E[count - (k + 1)]) /\ E[count - k] # -1
    BY <1>1, <1>3, <2>1
  <2>3. E[count - (k + 1)] # -1
    BY <2>2 DEF EndStep
  <2>4. QED
    BY <2>1, <2>3
<1> HIDE DEF S
<1>4. 0 .. count \subseteq S
  BY <1>2, <1>3, InductUpTo
<1>5. ASSUME NEW n \in 0 .. count PROVE E[n] # -1
  <2>1. count - n \in 0 .. count /\ count - (count - n) = n
    OBVIOUS
  <2>2. QED
    BY <1>4, <2>1 DEF S
<1>6. QED
  BY <1>5 DEF E

\* One entry that is read stands there framed.
LEMMA EntryAt ==
  ASSUME NEW data \in Seq(Cell), NEW e \in Nat, EndStep(data, e) # -1
  PROVE  LET s == SubSeq(data, e + W32 + 1, EndStep(data, e))
         IN  /\ s \in Seq(Cell)
             /\ Len(s) <= Max32
             /\ EndStep(data, e) = e + W32 + Len(s)
             /\ At(data, e, Framed(s))
<1> DEFINE len == U32(data, e)
           t == Take(data, e + W32, len)
<1>1. /\ e # -1 /\ Has(data, e, W32) /\ Has(data, e + W32, len)
      /\ EndStep(data, e) = e + W32 + len
  BY DEF EndStep
<1>2. len \in 0 .. Max32 /\ At(data, e, ToLE(len, W32))
  BY <1>1, WordAt, Widths DEF U32
<1> HIDE DEF len
<1>3. len \in Nat /\ e + W32 \in Nat /\ len <= Max32
  BY <1>2, Widths
<1>4. t \in Seq(Cell) /\ Len(t) = len /\ At(data, e + W32, t)
  BY <1>1, <1>3, TakeAt
<1>5. SubSeq(data, e + W32 + 1, EndStep(data, e)) = t
  BY <1>1 DEF Take
<1> HIDE DEF t
<1>6. At(data, e, Framed(t))
  BY <1>2, <1>4, FramedAt
<1>7. QED
  BY <1>1, <1>3, <1>4, <1>5, <1>6

EntriesRead(data, end, count) == [i \in 1 .. count |-> SubSeq(data, end[i - 1] + W32 + 1, end[i])]

\* The entries that are read stand there as they would be written.
LEMMA EntriesAt ==
  ASSUME NEW data \in Seq(Cell), NEW pos \in 0 .. Len(data), NEW count \in Nat,
         NEW E, E = EntryEnds(data, pos, count), E[count] # -1,
         NEW es, es = EntriesRead(data, E, count)
  PROVE  /\ es \in Seq(Seq(Cell)) /\ Len(es) = count
         /\ \A i \in 1 .. count : Len(es[i]) <= Max32
         /\ At(data, pos, Concat(Frames(es)))
         /\ E[count] = pos + Len(Concat(Frames(es)))
         /\ Concat(Frames(es)) \in Seq(Cell)
<1>1. ASSUME NEW n \in 0 .. count PROVE E[n] \in 0 .. Len(data)
  BY EndsStay, EndsType DEF Positions
<1>2. E[0] = pos /\ \A n \in 1 .. count : E[n] = EndStep(data, E[n - 1])
  BY EndsRec
<1>3. ASSUME NEW n \in 1 .. count
      PROVE  /\ es[n] \in Seq(Cell) /\ Len(es[n]) <= Max32
             /\ E[n] = E[n - 1] + W32 + Len(es[n])
             /\ At(data, E[n - 1], Framed(es[n]))
             /\ E[n - 1] \in Nat
  <2>1. n - 1 \in 0 .. count /\ n \in 0 .. count
    OBVIOUS
  <2>2. E[n - 1] \in Nat /\ E[n] # -1 /\ E[n] = EndStep(data, E[n - 1])
    BY <1>1, <1>2, <2>1
  <2>3. es[n] = SubSeq(data, E[n - 1] + W32 + 1, EndStep(data, E[n - 1]))
    BY <2>2 DEF EntriesRead
  <2>4. QED
    BY <2>2, <2>3, EntryAt
<1>4. es \in Seq(Seq(Cell)) /\ Len(es) = count
  <2>1. es \in [1 .. count -> Seq(Cell)]
    BY <1>3 DEF EntriesRead
  <2>2. QED
    BY <2>1
<1> DEFINE ss == Frames(es)
           C == Cats(ss)
           S == {n \in Nat : At(data, pos, C[n]) /\ E[n] = pos + Len(C[n])}
<1>5. /\ ss \in Seq(Seq(Cell)) /\ Len(ss) = count
      /\ \A n \in 1 .. count : ss[n] = Framed(es[n]) /\ Len(ss[n]) = W32 + Len(es[n])
  BY <1>4, FramesFacts
<1> HIDE DEF ss
<1>6. /\ C[0] = << >> /\ \A n \in 1 .. count : C[n] = C[n - 1] \o ss[n]
      /\ \A n \in 0 .. count : C[n] \in Seq(Cell)
  BY <1>5, CatsRec, CatsType
<1> HIDE DEF C
<1>7. 0 \in S
  <2>1. C[0] = << >> /\ E[0] = pos /\ pos \in Nat /\ pos <= Len(data) /\ Len(data) \in Nat
    BY <1>2, <1>6
  <2>2. Len(C[0]) = 0
    BY <2>1
  <2>3. QED
    BY <2>1, <2>2 DEF At
<1>8. ASSUME NEW n \in 0 .. count - 1, n \in S PROVE n + 1 \in S
  <2>1. n + 1 \in 1 .. count /\ (n + 1) - 1 = n /\ n \in 0 .. count /\ n + 1 \in Nat
    OBVIOUS
  <2>2. C[n + 1] = C[n] \o ss[n + 1] /\ C[n] \in Seq(Cell)
    BY <1>6, <2>1
  <2>3. ss[n + 1] \in Seq(Cell) /\ ss[n + 1] = Framed(es[n + 1]) /\ Len(ss[n + 1]) = W32 + Len(es[n + 1])
    BY <1>5, <2>1
  <2>4. At(data, pos, C[n]) /\ E[n] = pos + Len(C[n])
    BY <1>8
  <2>5. At(data, E[n], ss[n + 1]) /\ E[n + 1] = E[n] + W32 + Len(es[n + 1]) /\ es[n + 1] \in Seq(Cell)
    BY <1>3, <2>1, <2>3
  <2>6. pos \in Nat
    OBVIOUS
  <2> DEFINE x == C[n]
             y == ss[n + 1]
             u == C[n + 1]
             q == E[n]
             k == Len(es[n + 1])
  <2>7. x \in Seq(Cell) /\ y \in Seq(Cell) /\ u = Joined(x, y) /\ q = pos + Len(x)
    BY <2>2, <2>3, <2>4 DEF Joined
  <2>8. At(data, pos, x) /\ At(data, q, y) /\ Len(y) = W32 + k /\ E[n + 1] = q + W32 + k /\ k \in Nat
    BY <2>3, <2>4, <2>5
  <2> HIDE DEF x, y, u, q, k
  <2>9. At(data, pos, u) /\ Len(u) = Len(x) + Len(y) /\ Len(x) \in Nat
    <3>1. /\ At(data, pos, Joined(x, y)) <=> At(data, pos, x) /\ At(data, pos + Len(x), y)
          /\ Len(Joined(x, y)) = Len(x) + Len(y) /\ Len(x) \in Nat
      BY <2>6, <2>7, AtJoined
    <3>2. QED
      BY <2>7, <2>8, <3>1, Zenon
  <2>10. E[n + 1] = pos + Len(u)
    BY <2>6, <2>7, <2>8, <2>9, Widths
  <2>11. QED
    BY <2>1, <2>9, <2>10 DEF u
<1> HIDE DEF S
<1>9. count \in S
  <2>1. 0 .. count \subseteq S
    BY <1>7, <1>8, InductUpTo
  <2>2. QED
    BY <2>1
<1>10. Concat(ss) = C[count]
  BY <1>5, ConcatIsCat DEF C
<1>11. At(data, pos, Concat(ss)) /\ E[count] = pos + Len(Concat(ss)) /\ Concat(ss) \in Seq(Cell)
  <2>1. count \in 0 .. count
    OBVIOUS
  <2>2. QED
    BY <1>6, <1>9, <1>10, <2>1 DEF S
<1>12. QED
  BY <1>3, <1>4, <1>11 DEF ss

\* Entries that stand there are read.
LEMMA EntriesTaken ==
  ASSUME NEW data \in Seq(Cell), NEW pos \in Nat, NEW es \in Seq(Seq(Cell)),
         \A i \in 1 .. Len(es) : Len(es[i]) <= Max32,
         At(data, pos, Concat(Frames(es))),
         NEW E, E = EntryEnds(data, pos, Len(es))
  PROVE  /\ pos \in 0 .. Len(data)
         /\ E[Len(es)] = pos + Len(Concat(Frames(es)))
         /\ EntriesRead(data, E, Len(es)) = es
         /\ Concat(Frames(es)) \in Seq(Cell)
         /\ Len(Concat(Frames(es))) >= Len(es) * W32
<1> DEFINE ss == Frames(es)
           C == Cats(ss)
           count == Len(es)
           T == {k \in Nat : At(data, pos, C[count - k])}
           S == {n \in Nat : E[n] = pos + Len(C[n])}
<1>0. count \in Nat
  OBVIOUS
<1>1. /\ ss \in Seq(Seq(Cell)) /\ Len(ss) = count
      /\ \A n \in 1 .. count : ss[n] = Framed(es[n]) /\ Len(ss[n]) = W32 + Len(es[n])
  BY FramesFacts
<1>2. \A n \in 0 .. count : Len(C[n]) >= n * W32
  BY CatsLen
<1> HIDE DEF ss
<1>3. /\ C[0] = << >> /\ \A n \in 1 .. count : C[n] = C[n - 1] \o ss[n]
      /\ \A n \in 0 .. count : C[n] \in Seq(Cell)
  BY <1>1, CatsRec, CatsType
<1>4. Concat(ss) = C[count]
  BY <1>1, ConcatIsCat
<1> HIDE DEF C, count
<1>5. C[count] \in Seq(Cell) /\ Len(C[count]) \in Nat /\ Len(C[count]) >= count * W32
  <2>1. count \in 0 .. count
    BY <1>0
  <2>2. C[count] \in Seq(Cell)
    BY <1>3, <2>1
  <2>3. QED
    BY <1>2, <2>1, <2>2
<1>6. At(data, pos, C[count])
  BY <1>4 DEF ss
<1>7. pos \in 0 .. Len(data)
  BY <1>5, <1>6 DEF At
<1>8. 0 .. count \subseteq T
  <2>1. 0 \in T
    <3>1. count - 0 = count
      BY <1>0
    <3>2. QED
      BY <1>6, <3>1
  <2>2. ASSUME NEW k \in 0 .. count - 1, k \in T PROVE k + 1 \in T
    <3>1. /\ count - k \in 1 .. count /\ (count - k) - 1 = count - (k + 1) /\ k + 1 \in Nat
          /\ count - (k + 1) \in 0 .. count
      BY <1>0
    <3>2. C[count - k] = C[count - (k + 1)] \o ss[count - k] /\ C[count - (k + 1)] \in Seq(Cell)
      BY <1>3, <3>1
    <3>3. ss[count - k] \in Seq(Cell)
      BY <1>1, <3>1
    <3>4. At(data, pos, C[count - (k + 1)])
      BY <2>2, <3>2, <3>3, AtConcat
    <3>5. QED
      BY <3>1, <3>4
  <2> HIDE DEF T
  <2>3. QED
    BY <1>0, <2>1, <2>2, InductUpTo
<1>9. ASSUME NEW n \in 0 .. count PROVE At(data, pos, C[n])
  <2>1. count - n \in 0 .. count /\ count - (count - n) = n
    BY <1>0
  <2>2. QED
    BY <1>8, <2>1
<1> HIDE DEF T
<1>10. E[0] = pos /\ \A n \in 1 .. count : E[n] = EndStep(data, E[n - 1])
  BY <1>0, <1>7, EndsRec DEF count
\* One entry behind the ones already read.
<1>11. ASSUME NEW n \in 1 .. count, E[n - 1] = pos + Len(C[n - 1])
       PROVE  /\ E[n] = pos + Len(C[n])
              /\ SubSeq(data, E[n - 1] + W32 + 1, E[n]) = es[n]
  <2>1. n - 1 \in 0 .. count /\ n \in 0 .. count
    BY <1>0
  <2>2. C[n] = C[n - 1] \o ss[n] /\ C[n - 1] \in Seq(Cell)
    BY <1>3, <2>1
  <2>3. es[n] \in Seq(Cell) /\ Len(es[n]) <= Max32 /\ Len(es[n]) \in Nat
    <3>1. n \in 1 .. Len(es)
      BY DEF count
    <3>2. es[n] \in Seq(Cell)
      BY <3>1
    <3>3. QED
      BY <3>1, <3>2
  <2>4. ss[n] \in Seq(Cell) /\ ss[n] = Framed(es[n]) /\ Len(ss[n]) = W32 + Len(es[n])
    BY <1>1
  <2> DEFINE e == E[n - 1]
             x == C[n - 1]
             y == ss[n]
             u == C[n]
  <2>5. /\ x \in Seq(Cell) /\ y \in Seq(Cell) /\ u = Joined(x, y) /\ e = pos + Len(x)
        /\ y = Framed(es[n]) /\ Len(y) = W32 + Len(es[n])
    BY <1>11, <2>2, <2>4 DEF Joined
  <2>a. At(data, pos, u)
    BY <1>9, <2>1
  <2>7. E[n] = EndStep(data, e)
    BY <1>10
  <2> HIDE DEF e, x, y, u
  <2>8. At(data, e, y) /\ e \in Nat /\ Len(u) = Len(x) + Len(y) /\ Len(x) \in Nat
    <3>1. /\ At(data, pos, Joined(x, y)) <=> At(data, pos, x) /\ At(data, pos + Len(x), y)
          /\ Len(Joined(x, y)) = Len(x) + Len(y) /\ Len(x) \in Nat /\ pos + Len(x) \in Nat
      <4>1. x \in Seq(Cell) /\ y \in Seq(Cell)
        BY <2>5, Zenon
      <4>2. QED
        BY <4>1, AtJoined
    <3>2. QED
      BY <2>5, <2>a, <3>1, Zenon
  <2>6. At(data, e, Framed(es[n])) /\ e \in Nat
    BY <2>5, <2>8
  <2>9. At(data, e, ToLE(Len(es[n]), W32)) /\ At(data, e + W32, es[n])
    BY <2>3, <2>6, FramedAt
  <2>10. Len(es[n]) \in 0 .. Pow[W32] - 1
    <3>1. Len(es[n]) \in 0 .. Max32
      BY <2>3, Widths
    <3>2. QED
      BY <3>1, Widths, Zenon
  <2>11. Has(data, e, W32) /\ U32(data, e) = Len(es[n])
    BY <2>6, <2>9, <2>10, Widths, WordTaken DEF U32
  <2>12. e + W32 \in Nat
    BY <2>6, Widths
  <2>13. Has(data, e + W32, Len(es[n])) /\ Take(data, e + W32, Len(es[n])) = es[n]
    BY <2>3, <2>9, <2>12, AtTaken
  <2>14. EndStep(data, e) = e + W32 + Len(es[n])
    BY <2>6, <2>11, <2>13 DEF EndStep
  <2>15. E[n] = pos + Len(u)
    <3> DEFINE k == Len(es[n])
    <3>1. /\ E[n] = e + W32 + k /\ e = pos + Len(x) /\ Len(u) = Len(x) + Len(y)
          /\ Len(y) = W32 + k /\ k \in Nat
      BY <2>3, <2>5, <2>7, <2>8, <2>14
    <3> HIDE DEF k
    <3>2. QED
      BY <2>8, <3>1, Widths
  <2>16. SubSeq(data, e + W32 + 1, E[n]) = es[n]
    BY <2>7, <2>13, <2>14 DEF Take
  <2>17. QED
    BY <2>15, <2>16 DEF e, u
<1>12. 0 .. count \subseteq S
  <2>1. 0 \in S
    <3>1. Len(C[0]) = 0
      BY <1>3
    <3>2. pos = pos + 0 /\ 0 \in Nat
      OBVIOUS
    <3>3. QED
      BY <1>10, <3>1, <3>2, Zenon
  <2>2. ASSUME NEW n \in 0 .. count - 1, n \in S PROVE n + 1 \in S
    <3>1. n + 1 \in 1 .. count /\ (n + 1) - 1 = n /\ n + 1 \in Nat
      BY <1>0
    <3>2. E[n] = pos + Len(C[n])
      BY <2>2
    <3>3. E[n + 1] = pos + Len(C[n + 1])
      BY <1>11, <3>1, <3>2
    <3>4. QED
      BY <3>1, <3>3
  <2> HIDE DEF S
  <2>3. QED
    BY <1>0, <2>1, <2>2, InductUpTo
<1>13. ASSUME NEW n \in 1 .. count PROVE SubSeq(data, E[n - 1] + W32 + 1, E[n]) = es[n]
  <2>1. n - 1 \in 0 .. count
    BY <1>0
  <2>2. E[n - 1] = pos + Len(C[n - 1])
    BY <1>12, <2>1
  <2>3. QED
    BY <1>11, <2>2
<1>14. E[count] = pos + Len(C[count])
  <2>1. count \in 0 .. count
    BY <1>0
  <2>2. QED
    BY <1>12, <2>1
<1>15. EntriesRead(data, E, count) = es
  <2>1. es = [i \in 1 .. count |-> es[i]]
    BY DEF count
  <2>2. QED
    BY <1>13, <2>1 DEF EntriesRead
<1>16. QED
  BY <1>4, <1>5, <1>7, <1>14, <1>15 DEF count, ss
-----------------------------------------------------------------------------
(* Images                                                                    *)

Keys == {k \in Seq(Cell) : IsUtf8(k)}

Refs == {NoRef} \cup [lsn : Nat, key : Keys]

Images == [snap : Refs, entries : Seq(Seq(Cell))]

RefBytes(ref) ==
  IF ref = NoRef THEN <<0>> ELSE <<1>> \o ToLE(ref.lsn, W64) \o Framed(ref.key)

HeadBytes(ref) == <<Magic>> \o RefBytes(ref)

\* What encode_view checks besides the limits on bytes and entries.
Narrow(img) ==
  /\ CheckLsn(img.snap, Len(img.entries))
  /\ Len(img.snap.key) <= Max32
  /\ \A i \in 1 .. Len(img.entries) : Len(img.entries[i]) <= Max32

LEMMA JoinedTwo ==
  ASSUME NEW s \in Seq(Cell), NEW t \in Seq(Cell)
  PROVE  s \o t \in Seq(Cell) /\ Len(s \o t) = Len(s) + Len(t)
OBVIOUS

LEMMA JoinedThree ==
  ASSUME NEW s \in Seq(Cell), NEW t \in Seq(Cell), NEW u \in Seq(Cell)
  PROVE  s \o t \o u \in Seq(Cell) /\ Len(s \o t \o u) = Len(s) + Len(t) + Len(u)
OBVIOUS

LEMMA LayoutIs ==
  ASSUME NEW img
  PROVE  Layout(img) = HeadBytes(img.snap) \o ToLE(Len(img.entries), W32)
                         \o Concat(Frames(img.entries))
BY DEF Layout, HeadBytes, RefBytes, Frames

LEMMA SmallCells == 0 \in Cell /\ 1 \in Cell /\ Magic \in Cell /\ Magic = 1
BY BaseAssumption DEF Cell, Magic

LEMMA NotNoRef ==
  ASSUME NEW ref \in Refs, ref # NoRef
  PROVE  ref.lsn \in Nat /\ ref.key \in Seq(Cell) /\ IsUtf8(ref.key)
           /\ ref = [lsn |-> ref.lsn, key |-> ref.key]
BY DEF Refs, Keys

LEMMA RefKey ==
  ASSUME NEW ref \in Refs
  PROVE  ref.key \in Seq(Cell)
<1>1. CASE ref = NoRef
  <2>1. ref.key = << >>
    BY <1>1 DEF NoRef
  <2>2. << >> \in Seq(Cell)
    OBVIOUS
  <2>3. QED
    BY <2>1, <2>2
<1>2. CASE ref # NoRef
  BY <1>2, NotNoRef
<1>3. QED
  BY <1>1, <1>2

LEMMA IsRef ==
  ASSUME NEW lsn \in Nat, NEW key \in Seq(Cell), IsUtf8(key)
  PROVE  [lsn |-> lsn, key |-> key] \in Refs /\ [lsn |-> lsn, key |-> key] # NoRef
<1>1. NoRef.lsn = -1
  BY DEF NoRef
<1>2. key \in Keys
  BY DEF Keys
<1>3. QED
  BY <1>1, <1>2 DEF Refs

LEMMA RefBytesType ==
  ASSUME NEW ref \in Refs
  PROVE  /\ RefBytes(ref) \in Seq(Cell)
         /\ HeadBytes(ref) \in Seq(Cell)
         /\ Len(HeadBytes(ref)) = 1 + Len(RefBytes(ref))
         /\ ref = NoRef => Len(RefBytes(ref)) = 1
         /\ ref # NoRef => Len(RefBytes(ref)) = 1 + W64 + W32 + Len(ref.key)
<1>1. RefBytes(ref) \in Seq(Cell)
        /\ (ref = NoRef => Len(RefBytes(ref)) = 1)
        /\ (ref # NoRef => Len(RefBytes(ref)) = 1 + W64 + W32 + Len(ref.key))
  <2>1. CASE ref = NoRef
    BY <2>1, SmallCells DEF RefBytes
  <2>2. CASE ref # NoRef
    <3> DEFINE b == <<1>>
               l == ToLE(ref.lsn, W64)
               f == Framed(ref.key)
    <3>1. ref.lsn \in Nat /\ ref.key \in Seq(Cell)
      BY <2>2, NotNoRef
    <3>2. b \in Seq(Cell) /\ Len(b) = 1
      BY SmallCells
    <3>3. l \in Seq(Cell) /\ Len(l) = W64
      BY <3>1, ToLEType, Widths
    <3>4. f \in Seq(Cell) /\ Len(f) = W32 + Len(ref.key)
      BY <3>1, FramedFacts
    <3>5. RefBytes(ref) = b \o l \o f
      BY <2>2 DEF RefBytes
    <3> HIDE DEF b, l, f
    <3>6. b \o l \o f \in Seq(Cell) /\ Len(b \o l \o f) = Len(b) + Len(l) + Len(f)
      BY <3>2, <3>3, <3>4, JoinedThree, Zenon
    <3>7. Len(ref.key) \in Nat
      BY <3>1
    <3>8. Len(RefBytes(ref)) = 1 + W64 + (W32 + Len(ref.key)) /\ RefBytes(ref) \in Seq(Cell)
      BY <3>2, <3>3, <3>4, <3>5, <3>6, Zenon
    <3>9. 1 + W64 + (W32 + Len(ref.key)) = 1 + W64 + W32 + Len(ref.key)
      <4> DEFINE k == Len(ref.key)
      <4>1. k \in Nat
        BY <3>7
      <4> HIDE DEF k
      <4>2. 1 + W64 + (W32 + k) = 1 + W64 + W32 + k
        BY <4>1, Widths
      <4>3. QED
        BY <4>2 DEF k
    <3>10. QED
      BY <2>2, <3>8, <3>9, Zenon
  <2>3. QED
    BY <2>1, <2>2
<1> DEFINE m == <<Magic>>
           r == RefBytes(ref)
<1>2. m \in Seq(Cell) /\ Len(m) = 1
  BY SmallCells
<1> HIDE DEF m, r
<1>a. r \in Seq(Cell)
  BY <1>1, Zenon DEF r
<1>3. m \o r \in Seq(Cell) /\ Len(m \o r) = 1 + Len(r)
  BY <1>a, <1>2, JoinedTwo, Zenon
<1>4. QED
  BY <1>1, <1>3 DEF HeadBytes, m, r

LEMMA LayoutType ==
  ASSUME NEW img \in Images
  PROVE  /\ Layout(img) \in Seq(Cell)
         /\ HeadBytes(img.snap) \in Seq(Cell)
         /\ ToLE(Len(img.entries), W32) \in Seq(Cell)
         /\ Len(ToLE(Len(img.entries), W32)) = W32
         /\ Concat(Frames(img.entries)) \in Seq(Cell)
         /\ Len(Layout(img)) = Len(HeadBytes(img.snap)) + W32 + Len(Concat(Frames(img.entries)))
<1> DEFINE h == HeadBytes(img.snap)
           c == ToLE(Len(img.entries), W32)
           b == Concat(Frames(img.entries))
<1>1. img.snap \in Refs /\ img.entries \in Seq(Seq(Cell))
  BY DEF Images
<1>2. h \in Seq(Cell)
  BY <1>1, RefBytesType
<1>3. Len(img.entries) \in Nat
  BY <1>1
<1>4. c \in Seq(Cell) /\ Len(c) = W32
  BY <1>3, ToLEType, Widths
<1>5. b \in Seq(Cell)
  <2>1. Frames(img.entries) \in Seq(Seq(Cell)) /\ Len(Frames(img.entries)) \in Nat
    BY <1>1, FramesFacts
  <2> DEFINE ss == Frames(img.entries)
  <2> HIDE DEF ss
  <2>2. Len(ss) \in 0 .. Len(ss)
    BY <2>1 DEF ss
  <2>3. Cats(ss)[Len(ss)] \in Seq(Cell)
    BY <2>1, <2>2, CatsType DEF ss
  <2>4. QED
    BY <2>3, ConcatIsCat DEF ss
<1>6. Layout(img) = h \o c \o b
  BY LayoutIs
<1> HIDE DEF h, c, b
<1>7. h \o c \o b \in Seq(Cell) /\ Len(h \o c \o b) = Len(h) + W32 + Len(b)
  BY <1>2, <1>4, <1>5, JoinedThree, Zenon
<1>8. QED
  BY <1>2, <1>4, <1>5, <1>6, <1>7 DEF h, c, b
-----------------------------------------------------------------------------
(* What is decoded                                                           *)

\* An accepted reference stands there as it would be written.
LEMMA RefAt ==
  ASSUME NEW data \in Seq(Cell), Has(data, 0, 1), data[1] = Magic, DecodeRef(data).err = "none",
         NEW ref, ref = DecodeRef(data).val.ref, NEW pos, pos = DecodeRef(data).val.pos
  PROVE  /\ ref \in Refs
         /\ Len(ref.key) <= Max32
         /\ At(data, 0, HeadBytes(ref))
         /\ pos = Len(HeadBytes(ref))
         /\ pos \in 0 .. Len(data)
<1> DEFINE at == 2 + W64 + W32
           len == U32(data, 2 + W64)
           key == Take(data, at, len)
           lsn == FromLE(Take(data, 2, W64))
<1>1. /\ Has(data, 1, 1)
      /\ data[2] = 0 => ref = NoRef /\ pos = 2
      /\ data[2] # 0 => /\ ~(data[2] > 1) /\ Has(data, 2, W64 + W32) /\ Has(data, at, len)
                        /\ IsUtf8(key) /\ ref = [lsn |-> lsn, key |-> key] /\ pos = at + len
  <2> HIDE DEF at, len, key, lsn
  <2>1. DecodeRef(data) =
          IF ~Has(data, 1, 1) THEN Err("Corrupt")
          ELSE IF data[2] = 0 THEN Ok([ref |-> NoRef, pos |-> 2])
          ELSE IF data[2] > 1 THEN Err("Corrupt")
          ELSE IF ~Has(data, 2, W64 + W32) THEN Err("Corrupt")
          ELSE IF ~Has(data, at, len) THEN Err("Corrupt")
          ELSE IF ~IsUtf8(key) THEN Err("Corrupt")
          ELSE Ok([ref |-> [lsn |-> lsn, key |-> key], pos |-> at + len])
    BY DEF DecodeRef, at, len, key, lsn
  <2>2. Err("Corrupt").err # "none"
    BY DEF Err
  <2>3. Has(data, 1, 1)
    BY <2>1, <2>2
  <2>4. CASE data[2] = 0
    <3>1. DecodeRef(data) = Ok([ref |-> NoRef, pos |-> 2])
      BY <2>1, <2>3, <2>4
    <3>2. QED
      BY <2>3, <2>4, <3>1 DEF Ok
  <2>5. CASE data[2] # 0
    <3>1. ~(data[2] > 1) /\ Has(data, 2, W64 + W32) /\ Has(data, at, len) /\ IsUtf8(key)
      BY <2>1, <2>2, <2>3, <2>5
    <3>2. DecodeRef(data) = Ok([ref |-> [lsn |-> lsn, key |-> key], pos |-> at + len])
      BY <2>1, <2>3, <2>5, <3>1
    <3>3. QED
      BY <2>3, <2>5, <3>1, <3>2 DEF Ok
  <2>6. QED
    BY <2>4, <2>5
<1>2. Len(data) \in Nat /\ Len(data) >= 2 /\ data[1] \in Cell /\ data[2] \in Cell
  BY <1>1 DEF Has
<1>3. data[2] \in Nat
  BY <1>2, CellFacts
<1>4. At(data, 0, <<Magic>>)
  BY <1>2, SmallCells, AtOne
<1>5. ASSUME ref \in Refs, At(data, 1, RefBytes(ref)), pos = 1 + Len(RefBytes(ref)), Len(ref.key) <= Max32
      PROVE  /\ At(data, 0, HeadBytes(ref)) /\ pos = Len(HeadBytes(ref)) /\ pos \in 0 .. Len(data)
  <2>1. RefBytes(ref) \in Seq(Cell) /\ Len(HeadBytes(ref)) = 1 + Len(RefBytes(ref))
    BY <1>5, RefBytesType
  <2>2. pos = Len(HeadBytes(ref))
    BY <1>5, <2>1
  <2>3. pos \in 0 .. Len(data)
    <3>1. Len(RefBytes(ref)) \in Nat
      BY <2>1
    <3>2. QED
      BY <1>2, <1>5, <3>1 DEF At
  <2>4. At(data, 0, HeadBytes(ref))
    <3> DEFINE m == <<Magic>>
               r == RefBytes(ref)
    <3>1. m \in Seq(Cell) /\ r \in Seq(Cell) /\ 0 + Len(m) = 1 /\ At(data, 0, m) /\ At(data, 1, r)
      BY <1>4, <1>5, <2>1, SmallCells
    <3>2. HeadBytes(ref) = m \o r
      BY DEF HeadBytes
    <3> HIDE DEF m, r
    <3>3. At(data, 0, m \o r)
      BY <3>1, AtConcat
    <3>4. QED
      BY <3>2, <3>3
  <2>5. QED
    BY <2>2, <2>3, <2>4
<1>6. CASE data[2] = 0
  <2>1. ref = NoRef /\ pos = 2 /\ ref \in Refs /\ Len(ref.key) = 0
    BY <1>1, <1>6 DEF Refs, NoRef
  <2>2. RefBytes(ref) = <<0>>
    BY <2>1 DEF RefBytes
  <2>3. At(data, 1, RefBytes(ref)) /\ pos = 1 + Len(RefBytes(ref))
    BY <1>2, <1>6, <2>1, <2>2, AtOne, SmallCells
  <2>4. QED
    BY <1>5, <2>1, <2>3, Widths
<1>7. CASE data[2] # 0
  <2>1. data[2] = 1
    BY <1>1, <1>3, <1>7
  <2>2. Has(data, 2, W64 + W32) /\ Has(data, at, len) /\ IsUtf8(key)
          /\ ref = [lsn |-> lsn, key |-> key] /\ pos = at + len
    BY <1>1, <1>7
  <2>3. Has(data, 2, W64) /\ Has(data, 2 + W64, W32) /\ 2 + W64 \in Nat /\ at \in Nat
    BY <1>2, <2>2, Widths DEF Has
  <2>4. lsn \in Nat /\ At(data, 2, ToLE(lsn, W64))
    BY <2>3, Widths, WordAt
  <2>5. len \in 0 .. Max32 /\ At(data, 2 + W64, ToLE(len, W32))
    BY <2>3, Widths, WordAt DEF U32
  <2> HIDE DEF len, lsn
  <2>6. len \in Nat /\ len <= Max32
    BY <2>5, Widths
  <2>7. key \in Seq(Cell) /\ Len(key) = len /\ At(data, at, key)
    BY <2>2, <2>3, <2>6, TakeAt
  <2> HIDE DEF key
  <2>8. ref \in Refs /\ ref # NoRef /\ ref.lsn = lsn /\ ref.key = key
    BY <2>2, <2>4, <2>7, IsRef
  <2>9. At(data, 2 + W64, Framed(key))
    <3>1. (2 + W64) + W32 = at
      OBVIOUS
    <3>2. QED
      BY <2>3, <2>5, <2>7, <3>1, FramedAt
  <2> DEFINE b == <<1>>
             l == ToLE(lsn, W64)
             f == Framed(key)
             q == 2 + W64
  <2>10. b \in Seq(Cell) /\ Len(b) = 1 /\ At(data, 1, b)
    BY <1>2, <2>1, AtOne, SmallCells
  <2>11. l \in Seq(Cell) /\ Len(l) = W64 /\ At(data, 2, l)
    BY <2>4, ToLEType, Widths
  <2>12. f \in Seq(Cell) /\ At(data, q, f)
    BY <2>7, <2>9, FramedFacts
  <2>13. RefBytes(ref) = b \o l \o f
    BY <2>8 DEF RefBytes
  <2>14. 1 + 1 = 2 /\ 1 + (1 + W64) = q /\ q \in Nat /\ W64 \in Nat
    BY Widths
  <2> HIDE DEF b, l, f, q
  <2>15. At(data, 1, b \o l) /\ b \o l \in Seq(Cell) /\ Len(b \o l) = 1 + W64
    <3>1. At(data, 1, b \o l) <=> At(data, 1, b) /\ At(data, 1 + Len(b), l)
      BY <2>10, <2>11, AtConcat
    <3>2. 1 + Len(b) = 2
      BY <2>10
    <3>3. b \o l \in Seq(Cell) /\ Len(b \o l) = Len(b) + Len(l)
      BY <2>10, <2>11, JoinedTwo
    <3>4. QED
      BY <2>10, <2>11, <3>1, <3>2, <3>3, Zenon
  <2>16. At(data, 1, RefBytes(ref))
    <3> DEFINE u == b \o l
    <3>1. u \in Seq(Cell) /\ 1 + Len(u) = q /\ At(data, 1, u) /\ RefBytes(ref) = u \o f
      BY <2>13, <2>14, <2>15, Zenon
    <3> HIDE DEF u
    <3>2. At(data, 1, u \o f) <=> At(data, 1, u) /\ At(data, 1 + Len(u), f)
      BY <2>12, <3>1, AtConcat
    <3>3. QED
      BY <2>12, <3>1, <3>2, Zenon
  <2>17. pos = 1 + Len(RefBytes(ref))
    <3>1. Len(RefBytes(ref)) = 1 + W64 + W32 + len
      BY <2>7, <2>8, RefBytesType
    <3>2. QED
      BY <2>2, <2>6, <3>1, Widths
  <2>18. Len(ref.key) <= Max32
    BY <2>6, <2>7, <2>8
  <2>19. QED
    BY <1>5, <2>8, <2>16, <2>17, <2>18
<1>8. QED
  BY <1>6, <1>7

\* An accepted object is the encoding of the image that is read from it.
LEMMA DecodedAt ==
  ASSUME NEW data \in Seq(Cell), NEW lim, Decode(data, lim).err = "none",
         NEW img, img = Decode(data, lim).val
  PROVE  /\ img \in Images
         /\ Decode(data, lim) = Ok(img)
         /\ Layout(img) = data
         /\ Narrow(img)
         /\ ~(Len(img.entries) > lim.entries)
         /\ ~(Len(data) > lim.bytes)
<1> DEFINE head == DecodeRef(data)
           ref == head.val.ref
           pos == head.val.pos
           count == U32(data, pos)
           E == EntryEnds(data, pos + W32, count)
           es == EntriesRead(data, E, count)
           body == Concat(Frames(es))
<1>1. /\ ~(Len(data) > lim.bytes) /\ Has(data, 0, 1) /\ data[1] = Magic /\ head.err = "none"
      /\ Decode(data, lim) = DecodeBody(data, ref, pos, lim)
  BY DEF Decode, Err
<1>2. /\ ref \in Refs /\ Len(ref.key) <= Max32 /\ At(data, 0, HeadBytes(ref))
      /\ pos = Len(HeadBytes(ref)) /\ pos \in 0 .. Len(data)
  BY <1>1, RefAt
<1> HIDE DEF head, ref, pos
<1>3. /\ Has(data, pos, W32) /\ CheckLsn(ref, count) /\ ~(count > lim.entries)
      /\ E[count] # -1 /\ ~(E[count] < Len(data)) /\ img = Image(ref, es)
      /\ Decode(data, lim) = Ok(img)
  BY <1>1 DEF DecodeBody, EntriesRead, Ok, Err
<1>4. pos \in Nat /\ Len(data) \in Nat
  BY <1>2
<1>5. count \in 0 .. Max32 /\ At(data, pos, ToLE(count, W32))
  BY <1>3, <1>4, WordAt, Widths DEF U32
<1> HIDE DEF count
<1>6. count \in Nat /\ pos + W32 \in 0 .. Len(data)
  BY <1>3, <1>4, <1>5, Widths DEF Has
<1>7. /\ es \in Seq(Seq(Cell)) /\ Len(es) = count
      /\ \A i \in 1 .. count : Len(es[i]) <= Max32
      /\ At(data, pos + W32, body)
      /\ E[count] = pos + W32 + Len(body)
      /\ body \in Seq(Cell)
  BY <1>3, <1>6, EntriesAt
<1> HIDE DEF E, es, body
<1>8. /\ img \in Images /\ img.snap = ref /\ img.entries = es
  BY <1>2, <1>3, <1>7 DEF Images, Image
<1>9. Narrow(img)
  BY <1>2, <1>3, <1>7, <1>8 DEF Narrow
<1> DEFINE h == HeadBytes(ref)
           c == ToLE(count, W32)
<1>10. h \in Seq(Cell) /\ Len(h) = pos /\ At(data, 0, h)
  BY <1>2, RefBytesType
<1>11. c \in Seq(Cell) /\ Len(c) = W32 /\ At(data, pos, c)
  BY <1>5, <1>6, ToLEType, Widths
<1>12. Layout(img) = h \o c \o body
  BY <1>7, <1>8, LayoutIs DEF body
<1> HIDE DEF h, c
<1> DEFINE u == h \o c
           q == pos + W32
<1>13. u \in Seq(Cell) /\ Len(u) = q /\ At(data, 0, u)
  <2>1. 0 + Len(h) = pos
    BY <1>4, <1>10
  <2>2. At(data, 0, u) <=> At(data, 0, h) /\ At(data, 0 + Len(h), c)
    BY <1>10, <1>11, AtConcat
  <2>3. u \in Seq(Cell) /\ Len(u) = Len(h) + Len(c)
    BY <1>10, <1>11, JoinedTwo
  <2>4. QED
    BY <1>10, <1>11, <2>1, <2>2, <2>3, Zenon
<1>14. q \in Nat /\ At(data, q, body) /\ E[count] = q + Len(body) /\ Len(body) \in Nat
  BY <1>4, <1>7, Widths
<1> HIDE DEF u, q
<1>15. u \o body \in Seq(Cell) /\ At(data, 0, u \o body) /\ Len(u \o body) = q + Len(body)
  <2>1. 0 + Len(u) = q
    BY <1>13, <1>14
  <2>2. At(data, 0, u \o body) <=> At(data, 0, u) /\ At(data, 0 + Len(u), body)
    BY <1>7, <1>13, AtConcat
  <2>3. u \o body \in Seq(Cell) /\ Len(u \o body) = Len(u) + Len(body)
    BY <1>7, <1>13, JoinedTwo
  <2>4. QED
    BY <1>13, <1>14, <2>1, <2>2, <2>3, Zenon
<1>16. Len(u \o body) = Len(data)
  <2> DEFINE v == u \o body
  <2>1. At(data, 0, v) /\ Len(v) = q + Len(body)
    BY <1>15
  <2> HIDE DEF v
  <2>2. Len(v) \in Nat /\ Len(v) <= Len(data)
    BY <1>14, <2>1 DEF At
  <2>3. Len(v) >= Len(data)
    BY <1>3, <1>4, <1>14, <2>1
  <2>4. QED
    BY <1>4, <2>2, <2>3 DEF v
<1>17. u \o body = data
  <2> DEFINE v == u \o body
  <2>1. At(data, 0, v) /\ v \in Seq(Cell) /\ Len(v) = Len(data)
    BY <1>15, <1>16
  <2> HIDE DEF v
  <2>2. v = data
    BY <2>1, AtWhole
  <2>3. QED
    BY <2>2 DEF v
<1>18. Layout(img) = data
  BY <1>12, <1>17 DEF u
<1>19. QED
  BY <1>1, <1>3, <1>7, <1>8, <1>9, <1>18
-----------------------------------------------------------------------------
(* What is encoded                                                           *)

\* A reference that stands there is accepted.
LEMMA RefTaken ==
  ASSUME NEW data \in Seq(Cell), NEW ref \in Refs, At(data, 0, HeadBytes(ref)),
         Len(ref.key) <= Max32, ref.lsn <= Max64
  PROVE  /\ Has(data, 0, 1) /\ data[1] = Magic
         /\ DecodeRef(data) = Ok([ref |-> ref, pos |-> Len(HeadBytes(ref))])
         /\ Len(HeadBytes(ref)) \in Nat
<1> DEFINE m == <<Magic>>
           r == RefBytes(ref)
<1>1. m \in Seq(Cell) /\ r \in Seq(Cell) /\ 0 + Len(m) = 1 /\ HeadBytes(ref) = m \o r
  BY RefBytesType, SmallCells DEF HeadBytes
<1> HIDE DEF m, r
<1>2. At(data, 0, m) /\ At(data, 1, r)
  <2>1. At(data, 0, m \o r) <=> At(data, 0, m) /\ At(data, 0 + Len(m), r)
    BY <1>1, AtConcat
  <2>2. QED
    BY <1>1, <2>1, Zenon
<1>3. 0 + 1 <= Len(data) /\ data[0 + 1] = Magic
  BY <1>2, SmallCells, AtOne DEF m
<1>4. Has(data, 0, 1) /\ data[1] = Magic /\ Len(data) \in Nat
  BY <1>3 DEF Has
<1>5. /\ HeadBytes(ref) \in Seq(Cell) /\ Len(HeadBytes(ref)) = 1 + Len(r) /\ Len(r) \in Nat
      /\ ref = NoRef => Len(r) = 1
      /\ ref # NoRef => Len(r) = 1 + W64 + W32 + Len(ref.key)
  BY <1>1, RefBytesType DEF r
<1>6. CASE ref = NoRef
  <2>1. At(data, 1, <<0>>)
    BY <1>2, <1>6 DEF r, RefBytes
  <2>2. 1 + 1 <= Len(data) /\ data[1 + 1] = 0
    BY <2>1, AtOne, SmallCells
  <2>3. Has(data, 1, 1) /\ data[2] = 0
    BY <1>4, <2>2 DEF Has
  <2>4. DecodeRef(data) = Ok([ref |-> NoRef, pos |-> 2])
    BY <2>3 DEF DecodeRef
  <2>5. Len(HeadBytes(ref)) = 2
    <3>1. Len(HeadBytes(ref)) = 1 + 1
      BY <1>5, <1>6, Zenon
    <3>2. QED
      BY <3>1
  <2>6. QED
    BY <1>4, <1>6, <2>4, <2>5
<1>7. CASE ref # NoRef
  <2> DEFINE lsn == ref.lsn
             key == ref.key
             b == <<1>>
             l == ToLE(lsn, W64)
             f == Framed(key)
             at == 2 + W64 + W32
             q == 2 + W64
  <2>1. lsn \in Nat /\ key \in Seq(Cell) /\ IsUtf8(key) /\ ref = [lsn |-> lsn, key |-> key]
    BY <1>7, NotNoRef
  <2>2. r = b \o l \o f
    BY <1>7 DEF r, RefBytes
  <2>3. Len(key) \in Nat /\ Len(key) <= Max32 /\ lsn <= Max64 /\ Len(r) = 1 + W64 + W32 + Len(key)
    BY <1>5, <1>7, <2>1
  <2> HIDE DEF lsn, key
  <2>4. b \in Seq(Cell) /\ Len(b) = 1
    BY SmallCells
  <2>5. l \in Seq(Cell) /\ Len(l) = W64
    BY <2>1, ToLEType, Widths
  <2>6. f \in Seq(Cell) /\ Len(f) = W32 + Len(key)
    BY <2>1, FramedFacts
  <2> HIDE DEF b, l, f
  <2>7. At(data, 1, b) /\ At(data, 2, l) /\ At(data, q, f)
    <3> DEFINE u == b \o l
    <3>1. u \in Seq(Cell) /\ Len(u) = Len(b) + Len(l)
      BY <2>4, <2>5, JoinedTwo
    <3>2. At(data, 1, u) <=> At(data, 1, b) /\ At(data, 1 + Len(b), l)
      BY <2>4, <2>5, AtConcat
    <3>3. 1 + Len(b) = 2
      BY <2>4
    <3> HIDE DEF u
    <3>4. 1 + Len(u) = q
      BY <2>4, <2>5, <3>1, Widths
    <3>5. At(data, 1, u \o f) <=> At(data, 1, u) /\ At(data, 1 + Len(u), f)
      BY <2>6, <3>1, AtConcat
    <3>6. At(data, 1, u \o f)
      BY <1>2, <2>2, Zenon DEF u
    <3>7. QED
      BY <3>2, <3>3, <3>4, <3>5, <3>6, Zenon
  <2>8. q \in Nat /\ at \in Nat /\ q + W32 = at
    BY Widths
  <2>9. Has(data, 1, 1) /\ data[2] = 1
    <3>1. 1 + 1 <= Len(data) /\ data[1 + 1] = 1
      BY <2>7, AtOne, SmallCells DEF b
    <3>2. QED
      BY <1>4, <3>1 DEF Has
  <2>10. Has(data, 2, W64) /\ FromLE(Take(data, 2, W64)) = lsn
    <3>1. lsn \in 0 .. Max64
      BY <2>1, <2>3, Widths
    <3>2. lsn \in 0 .. Pow[W64] - 1
      BY <3>1, Widths, Zenon
    <3>3. QED
      BY <2>7, <3>2, Widths, WordTaken DEF l
  <2>11. At(data, q, ToLE(Len(key), W32)) /\ At(data, at, key)
    BY <2>1, <2>7, <2>8, FramedAt DEF f
  <2>12. U32(data, q) = Len(key) /\ Has(data, q, W32)
    <3>1. Len(key) \in 0 .. Max32
      BY <2>3, Widths
    <3>2. Len(key) \in 0 .. Pow[W32] - 1
      BY <3>1, Widths, Zenon
    <3>3. QED
      BY <2>8, <2>11, <3>2, Widths, WordTaken DEF U32
  <2>13. Has(data, at, Len(key)) /\ Take(data, at, Len(key)) = key
    BY <2>1, <2>8, <2>11, AtTaken
  <2>14. Has(data, 2, W64 + W32)
    BY <1>4, <2>12, Widths DEF Has
  <2>15. DecodeRef(data) = Ok([ref |-> [lsn |-> lsn, key |-> key], pos |-> at + Len(key)])
    <3>1. data[2] # 0 /\ ~(data[2] > 1)
      BY <2>9
    <3>2. q = 2 + W64 /\ at = 2 + W64 + W32
      OBVIOUS
    <3>3. QED
      BY <2>1, <2>9, <2>10, <2>12, <2>13, <2>14, <3>1, <3>2 DEF DecodeRef
  <2>16. at + Len(key) = Len(HeadBytes(ref))
    BY <1>5, <2>3, Widths
  <2>17. QED
    BY <1>4, <1>5, <2>1, <2>15, <2>16
<1>8. QED
  BY <1>6, <1>7

\* An image within the limits is read from its encoding.
LEMMA EncodedRead ==
  ASSUME NEW img \in Images, NEW lim, Narrow(img), Len(img.entries) <= Max32,
         ~(Len(img.entries) > lim.entries), ~(Len(Layout(img)) > lim.bytes)
  PROVE  Decode(Layout(img), lim) = Ok(img)
<1> DEFINE data == Layout(img)
           ref == img.snap
           es == img.entries
           h == HeadBytes(ref)
           c == ToLE(Len(es), W32)
           body == Concat(Frames(es))
           pos == Len(h)
           E == EntryEnds(data, pos + W32, Len(es))
<1>1. /\ data \in Seq(Cell) /\ h \in Seq(Cell) /\ c \in Seq(Cell) /\ Len(c) = W32
      /\ body \in Seq(Cell) /\ Len(data) = Len(h) + W32 + Len(body)
  BY LayoutType
<1>2. data = h \o c \o body
  BY LayoutIs
<1>3. ref \in Refs /\ es \in Seq(Seq(Cell)) /\ img = Image(ref, es)
  BY DEF Images, Image
<1>4. /\ CheckLsn(ref, Len(es)) /\ Len(ref.key) <= Max32
      /\ \A i \in 1 .. Len(es) : Len(es[i]) <= Max32
      /\ ~(Len(es) > lim.entries) /\ ~(Len(data) > lim.bytes)
  BY DEF Narrow
<1>d. Len(es) <= Max32
  OBVIOUS
<1> HIDE DEF data, ref, es
<1>a. Len(es) \in Nat
  BY <1>3
<1>5. ref.lsn \in Int /\ Len(es) <= Max64 - (ref.lsn + 1) /\ ref.lsn + 1 <= Max64
  <2>1. ref.lsn \in Int
    BY <1>3 DEF Refs, NoRef
  <2>2. QED
    BY <1>4, <1>a, <2>1, Widths DEF CheckLsn
<1> HIDE DEF h, c, body
<1>6. At(data, 0, h) /\ At(data, pos, c) /\ At(data, pos + W32, body) /\ pos \in Nat
  <2> DEFINE u == h \o c
  <2>1. u \in Seq(Cell) /\ Len(u) = Len(h) + Len(c)
    BY <1>1, JoinedTwo
  <2>2. At(data, 0, u) <=> At(data, 0, h) /\ At(data, 0 + Len(h), c)
    BY <1>1, AtConcat
  <2>3. data = u \o body
    BY <1>2
  <2> HIDE DEF u
  <2>4. At(data, 0, u \o body) <=> At(data, 0, u) /\ At(data, 0 + Len(u), body)
    BY <1>1, <2>1, AtConcat
  <2>5. At(data, 0, data)
    BY <1>1, AtItself
  <2>6. pos \in Nat /\ 0 + Len(h) = pos
    BY <1>1
  <2> HIDE DEF pos
  <2>7. 0 + Len(u) = pos + W32
    <3>1. Len(u) = Len(h) + W32
      BY <1>1, <2>1, Zenon
    <3>2. Len(h) \in Nat
      BY <1>1
    <3>3. QED
      BY <2>6, <3>1, <3>2, Widths
  <2>8. At(data, 0, u \o body)
    BY <2>3, <2>5, Zenon
  <2>9. QED
    BY <2>2, <2>4, <2>6, <2>7, <2>8, Zenon
<1>7. /\ Has(data, 0, 1) /\ data[1] = Magic
      /\ DecodeRef(data) = Ok([ref |-> ref, pos |-> pos])
  <2>1. ref.lsn <= Max64
    BY <1>5, Widths
  <2>2. QED
    BY <1>1, <1>3, <1>4, <1>6, <2>1, RefTaken DEF h
<1>b. Len(data) = pos + W32 + Len(body) /\ Len(body) \in Nat
  BY <1>1
<1>c. Len(es) \in 0 .. Pow[W32] - 1
  <2>1. Len(es) \in 0 .. Max32
    BY <1>a, <1>d, Widths
  <2>2. QED
    BY <2>1, Widths, Zenon
<1>8. Has(data, pos, W32) /\ U32(data, pos) = Len(es)
  BY <1>1, <1>6, <1>c, Widths, WordTaken DEF U32, c
<1>9. pos + W32 \in Nat
  BY <1>6, Widths
<1>10. /\ E[Len(es)] = pos + W32 + Len(body)
       /\ EntriesRead(data, E, Len(es)) = es
       /\ Len(body) >= Len(es) * W32
  BY <1>1, <1>3, <1>4, <1>6, <1>9, EntriesTaken DEF body
<1>11. ~(Len(es) > (Len(data) - pos - W32) \div W32)
  <2>1. \A n, k, w \in Nat : w >= 1 /\ n >= k * w => ~(k > n \div w)
    OBVIOUS
  <2>2. Len(data) - pos - W32 = Len(body)
    BY <1>6, <1>b, Widths
  <2>3. QED
    BY <1>10, <1>a, <1>b, <2>1, <2>2, Widths
<1>12. E[Len(es)] # -1 /\ ~(E[Len(es)] < Len(data))
  BY <1>6, <1>10, <1>b, Widths
<1> HIDE DEF E
<1>13. DecodeBody(data, ref, pos, lim) = Ok(Image(ref, EntriesRead(data, E, Len(es))))
  BY <1>4, <1>8, <1>11, <1>12 DEF DecodeBody, EntriesRead, E
<1>14. Decode(data, lim) = DecodeBody(data, ref, pos, lim)
  BY <1>4, <1>7 DEF Decode, Ok
<1>15. Decode(data, lim) = Ok(img)
  BY <1>3, <1>10, <1>13, <1>14
<1>16. QED
  BY <1>15 DEF data
-----------------------------------------------------------------------------
(* The handle                                                                *)

LEMMA EncodeFacts ==
  ASSUME NEW img \in Images, NEW lim
  PROVE  /\ Encode(img, lim).err = "none" =>
              /\ Encode(img, lim) = Ok(Layout(img)) /\ Narrow(img) /\ Len(img.entries) <= Max32
              /\ ~(Len(img.entries) > lim.entries) /\ ~(Len(Layout(img)) > lim.bytes)
         /\ /\ Narrow(img) /\ Len(img.entries) <= Max32
            /\ ~(Len(img.entries) > lim.entries) /\ ~(Len(Layout(img)) > lim.bytes)
            => Encode(img, lim).err = "none"
<1> DEFINE es == img.entries
           long == \E i \in DOMAIN es : Len(es[i]) > Max32
           key == img.snap.key
           size == Len(Layout(img))
<1>1. es \in Seq(Seq(Cell)) /\ img.snap \in Refs
  BY DEF Images
<1>2. Len(es) \in Nat /\ DOMAIN es = 1 .. Len(es) /\ Max32 \in Nat
  BY <1>1, Widths
<1>3. key \in Seq(Cell)
  BY <1>1, RefKey
<1>4. ~(Len(key) > Max32) <=> Len(key) <= Max32
  BY <1>2, <1>3
<1>5. ~long <=> \A i \in 1 .. Len(es) : Len(es[i]) <= Max32
  <2>1. ASSUME NEW i \in 1 .. Len(es) PROVE ~(Len(es[i]) > Max32) <=> Len(es[i]) <= Max32
    <3>1. es[i] \in Seq(Cell)
      BY <1>1
    <3>2. Len(es[i]) \in Nat
      BY <3>1
    <3>3. QED
      BY <1>2, <3>2
  <2>2. QED
    BY <1>2, <2>1, Zenon
<1>6. ~(Len(es) > Max32) <=> Len(es) <= Max32
  BY <1>2
<1>7. Narrow(img) <=> CheckLsn(img.snap, Len(es)) /\ ~(Len(key) > Max32) /\ ~long
  BY <1>4, <1>5, Zenon DEF Narrow
<1>8. Encode(img, lim) =
        IF Len(es) > lim.entries \/ Len(es) > Max32 THEN Err("LimitExceeded")
        ELSE IF ~CheckLsn(img.snap, Len(es)) THEN Err("LsnExhausted")
        ELSE IF Len(key) > Max32 THEN Err("LimitExceeded")
        ELSE IF long THEN Err("LimitExceeded")
        ELSE IF size > lim.bytes THEN Err("LimitExceeded")
        ELSE Ok(Layout(img))
  BY DEF Encode
<1>9. /\ Err("LimitExceeded").err # "none" /\ Err("LsnExhausted").err # "none"
      /\ Ok(Layout(img)).err = "none"
  BY DEF Err, Ok
<1> DEFINE ok == Ok(Layout(img))
           bad == Err("LimitExceeded")
           out == Err("LsnExhausted")
<1> HIDE DEF es, long, key, size, ok, bad, out
<1>10. /\ Encode(img, lim).err = "none" =>
            /\ Encode(img, lim) = ok /\ CheckLsn(img.snap, Len(es)) /\ ~(Len(key) > Max32) /\ ~long
            /\ ~(Len(es) > lim.entries) /\ ~(Len(es) > Max32) /\ ~(size > lim.bytes)
       /\ /\ CheckLsn(img.snap, Len(es)) /\ ~(Len(key) > Max32) /\ ~long
          /\ ~(Len(es) > lim.entries) /\ ~(Len(es) > Max32) /\ ~(size > lim.bytes)
          => Encode(img, lim) = ok
  BY <1>8, <1>9 DEF ok, bad, out
<1>11. QED
  BY <1>6, <1>7, <1>9, <1>10, Zenon DEF es, size, ok

\* Every limit of Options is one that counts and lengths fit.
LEMMA OptsFacts == Opts.entries = MaxLiveEntries /\ Opts.bytes = MaxImageBytes /\ MaxLiveEntries <= Max32
BY OptionsAssumption, Widths DEF Opts, Limits

\* An image is encodable exactly when its layout is read as that image.
LEMMA EncodeReads ==
  ASSUME NEW img \in Images
  PROVE  (Encode(img, Opts).err = "none") <=> (Decode(Layout(img), Opts) = Ok(img))
<1>1. ASSUME Encode(img, Opts).err = "none" PROVE Decode(Layout(img), Opts) = Ok(img)
  BY <1>1, EncodeFacts, EncodedRead
<1>2. ASSUME Decode(Layout(img), Opts) = Ok(img) PROVE Encode(img, Opts).err = "none"
  <2> DEFINE data == Layout(img)
  <2>1. data \in Seq(Cell)
    BY LayoutType
  <2>2. Decode(data, Opts).err = "none" /\ img = Decode(data, Opts).val
    BY <1>2 DEF Ok
  <2> HIDE DEF data
  <2>3. Narrow(img) /\ ~(Len(img.entries) > Opts.entries) /\ ~(Len(data) > Opts.bytes)
    BY <2>1, <2>2, DecodedAt
  <2>4. Len(img.entries) <= Max32
    <3>1. Len(img.entries) \in Nat
      BY DEF Images
    <3>2. MaxLiveEntries \in Nat /\ Max32 \in Nat
      BY OptionsAssumption, Widths
    <3>3. QED
      BY <2>3, <3>1, <3>2, OptsFacts
  <2>5. QED
    BY <2>3, <2>4, EncodeFacts DEF data
<1>3. QED
  BY <1>1, <1>2

\* A candidate is an image, and the one that the handle edits.
LEMMA ViewType ==
  ASSUME NEW img \in Images, NEW f \in Folds(img), NEW extra \in Batches
  PROVE  /\ View(img, f.snap, f.skip, extra) \in Images
         /\ View(img, f.snap, f.skip, extra) = Edited(img, f, extra)
<1>1. img.snap \in Refs /\ img.entries \in Seq(Seq(Cell))
  BY DEF Images
<1>2. extra \in Seq(Seq(Cell))
  <2>1. \A e \in Payloads : e \in Seq(Cell)
    BY PayloadAssumption
  <2>2. CASE extra = << >>
    BY <2>2
  <2>3. CASE \E e \in Payloads : extra = <<e>>
    <3>1. PICK e \in Payloads : extra = <<e>>
      BY <2>3
    <3>2. e \in Seq(Cell)
      BY <2>1
    <3>3. QED
      BY <3>1, <3>2
  <2>4. CASE \E e, g \in Payloads : extra = <<e, g>>
    <3>1. PICK e \in Payloads, g \in Payloads : extra = <<e, g>>
      BY <2>4
    <3>2. e \in Seq(Cell) /\ g \in Seq(Cell)
      BY <2>1
    <3>3. QED
      BY <3>1, <3>2
  <2>5. QED
    BY <2>2, <2>3, <2>4 DEF Batches
<1>3. img.snap.lsn \in Int /\ img.snap.lsn >= -1
  BY <1>1 DEF Refs, NoRef
<1> DEFINE popped == IF f.snap = NoRef THEN 0 ELSE f.snap.lsn - FirstLsn(img) + 1
<1>4. f.skip \in 0 .. Len(img.entries) /\ f.snap \in Refs /\ popped = f.skip
  <2>1. CASE f = [snap |-> NoRef, skip |-> 0]
    BY <1>1, <2>1 DEF Refs
  <2>2. CASE \E n \in 1 .. Len(img.entries), k \in Names :
               f = [snap |-> [lsn |-> FirstLsn(img) + n - 1, key |-> k], skip |-> n]
    <3>1. PICK n \in 1 .. Len(img.entries), k \in Names :
               f = [snap |-> [lsn |-> FirstLsn(img) + n - 1, key |-> k], skip |-> n]
      BY <2>2
    <3>2. k \in Seq(Cell) /\ IsUtf8(k)
      BY NameAssumption
    <3>3. FirstLsn(img) + n - 1 \in Nat
      BY <1>3 DEF FirstLsn
    <3>4. [lsn |-> FirstLsn(img) + n - 1, key |-> k] \in Refs
      BY <3>2, <3>3, IsRef
    <3>5. f.snap = [lsn |-> FirstLsn(img) + n - 1, key |-> k] /\ f.skip = n
      BY <3>1
    <3>6. f.snap.lsn = FirstLsn(img) + n - 1 /\ FirstLsn(img) \in Int /\ f.snap # NoRef
      BY <1>3, <3>3, <3>5 DEF FirstLsn, NoRef
    <3>7. popped = n
      BY <3>6
    <3>8. QED
      BY <3>4, <3>5, <3>7
  <2>3. QED
    BY <2>1, <2>2 DEF Folds
<1> DEFINE rest == SubSeq(img.entries, f.skip + 1, Len(img.entries))
           ref == IF f.snap = NoRef THEN img.snap ELSE f.snap
<1>5. rest \in Seq(Seq(Cell))
  <2> DEFINE C == Seq(Cell)
             es == img.entries
             n == f.skip
  <2>1. es \in Seq(C) /\ n \in 0 .. Len(es)
    BY <1>1, <1>4
  <2> HIDE DEF C, es, n
  <2>2. SubSeq(es, n + 1, Len(es)) \in Seq(C)
    BY <2>1
  <2>3. QED
    BY <2>2 DEF C, es, n
<1>6. rest \o extra \in Seq(Seq(Cell))
  <2> DEFINE C == Seq(Cell)
             r == rest
  <2>1. r \in Seq(C) /\ extra \in Seq(C)
    BY <1>2, <1>5
  <2> HIDE DEF C, r
  <2>2. r \o extra \in Seq(C)
    BY <2>1
  <2>3. QED
    BY <2>2 DEF C, r
<1>7. ref \in Refs
  BY <1>1, <1>4
<1>8. View(img, f.snap, f.skip, extra) = [snap |-> ref, entries |-> rest \o extra]
  BY DEF View, Image
<1>9. Edited(img, f, extra) = [snap |-> ref, entries |-> rest \o extra]
  <2>1. Edited(img, f, extra) = [snap |-> ref, entries |-> SubSeq(img.entries, popped + 1, Len(img.entries)) \o extra]
    BY Zenon DEF Edited, Image
  <2>2. QED
    BY <1>4, <2>1
<1> HIDE DEF ref, rest
<1>10. [snap |-> ref, entries |-> rest \o extra] \in Images
  <2> DEFINE es == rest \o extra
  <2>1. es \in Seq(Seq(Cell))
    BY <1>6
  <2> HIDE DEF es
  <2>2. [snap |-> ref, entries |-> es] \in Images
    BY <1>7, <2>1 DEF Images
  <2>3. QED
    BY <2>2 DEF es
<1>11. QED
  BY <1>8, <1>9, <1>10, Zenon
-----------------------------------------------------------------------------
(* The theorems                                                              *)

\* The object holds bytes; an open handle has an image, and it is the one that
\* the object decodes to.
CodecInv ==
  /\ bytes \in Seq(Cell)
  /\ image # None => image \in Images /\ Decode(bytes, Opts) = Ok(image)

LEMMA CodecInit == Init => CodecInv
<1> SUFFICES ASSUME Init PROVE CodecInv
  OBVIOUS
<1>1. PICK n \in 0 .. MaxRead : bytes \in [1 .. n -> Cell]
  BY DEF Init
<1>2. n \in Nat
  OBVIOUS
<1>3. bytes \in Seq(Cell)
  BY <1>1, <1>2
<1>4. QED
  BY <1>3 DEF Init, CodecInv

LEMMA CodecStep == CodecInv /\ [Next]_vars => CodecInv'
<1> SUFFICES ASSUME CodecInv, [Next]_vars PROVE CodecInv'
  OBVIOUS
<1>1. bytes \in Seq(Cell) /\ (image # None => image \in Images /\ Decode(bytes, Opts) = Ok(image))
  BY DEF CodecInv
<1>2. CASE Open
  <2>1. Decode(bytes, Opts).err = "none" /\ image' = Decode(bytes, Opts).val /\ bytes' = bytes
    BY <1>2 DEF Open
  <2>2. image' \in Images /\ Decode(bytes, Opts) = Ok(image')
    BY <1>1, <2>1, DecodedAt
  <2>3. QED
    BY <1>1, <2>1, <2>2 DEF CodecInv
<1>3. ASSUME image # None, NEW f \in Folds(image), NEW extra \in Batches, Install(f, extra)
      PROVE  CodecInv'
  <2> DEFINE view == View(image, f.snap, f.skip, extra)
  <2>1. Encode(view, Opts).err = "none" /\ bytes' = Encode(view, Opts).val /\ image' = Edited(image, f, extra)
    BY <1>3 DEF Install
  <2>2. image \in Images
    BY <1>1, <1>3
  <2>3. view \in Images /\ view = Edited(image, f, extra)
    BY <2>2, ViewType
  <2> HIDE DEF view
  <2>4. Encode(view, Opts) = Ok(Layout(view))
    BY <2>1, <2>3, EncodeFacts
  <2>5. bytes' = Layout(view) /\ image' = view
    BY <2>1, <2>3, <2>4 DEF Ok
  <2>6. Layout(view) \in Seq(Cell) /\ Decode(Layout(view), Opts) = Ok(view)
    BY <2>1, <2>3, LayoutType, EncodeReads
  <2>7. QED
    BY <2>3, <2>5, <2>6 DEF CodecInv
<1>4. CASE UNCHANGED vars
  BY <1>1, <1>4 DEF CodecInv, vars
<1>5. QED
  BY <1>2, <1>3, <1>4 DEF Next

\* The invariant of an object that may hold anything and of a handle on it:
\* what the handle has in memory is what the object decodes to.
THEOREM CodecHolds == Spec => []CodecInv
<1>1. QED
  BY CodecInit, CodecStep, PTL DEF Spec

\* What decode accepts, under any limits, is the one encoding of the image it
\* returns: no torn, extended or altered object passes.
THEOREM AcceptsOnlyWritten == Spec => []CanonicalBytes
<1>1. CodecInv => CanonicalBytes
  <2> SUFFICES ASSUME CodecInv, Decode(bytes, Wide).err = "none"
               PROVE  Layout(Decode(bytes, Wide).val) = bytes
    BY DEF CanonicalBytes
  <2>1. bytes \in Seq(Cell)
    BY DEF CodecInv
  <2>2. QED
    BY <2>1, DecodedAt
<1>2. QED
  BY <1>1, CodecHolds, PTL

\* The image that append and install_pending_fold edit in place is the one
\* that any reader decodes from the object.
THEOREM EditsAsWritten == Spec => []EditedAsWritten
<1>1. CodecInv => EditedAsWritten
  BY DEF CodecInv, EditedAsWritten
<1>2. QED
  BY <1>1, CodecHolds, PTL

\* first_lsn and next_lsn of an open handle's image never overflow.
THEOREM LsnsStayInRange == Spec => []NoOverflow
<1>1. CodecInv => NoOverflow
  <2> SUFFICES ASSUME CodecInv, image # None
               PROVE  FirstLsn(image) <= Max64 /\ NextLsn(image) <= Max64
    BY DEF NoOverflow
  <2>1. bytes \in Seq(Cell) /\ Decode(bytes, Opts) = Ok(image)
    BY DEF CodecInv
  <2>2. Decode(bytes, Opts).err = "none" /\ image = Decode(bytes, Opts).val
    BY <2>1 DEF Ok
  <2>3. Narrow(image)
    BY <2>1, <2>2, DecodedAt
  <2>4. QED
    BY <2>3 DEF Narrow, CheckLsn, FirstLsn, NextLsn
<1>2. QED
  BY <1>1, CodecHolds, PTL

\* encode_view accepts a candidate of an open handle exactly when the bytes it
\* would write are decoded under the same limits to that candidate.
THEOREM WritesOnlyReadable == Spec => []EncodeIffReadable
<1>1. CodecInv => EncodeIffReadable
  <2> SUFFICES ASSUME CodecInv, image # None, NEW f \in Folds(image), NEW extra \in Batches,
                      NEW view, view = View(image, f.snap, f.skip, extra)
               PROVE  (Encode(view, Opts).err = "none") <=> (Decode(Layout(view), Opts) = Ok(view))
    BY DEF EncodeIffReadable
  <2>1. image \in Images
    BY DEF CodecInv
  <2>2. view \in Images
    BY <2>1, ViewType
  <2>3. QED
    BY <2>2, EncodeReads
<1>2. QED
  BY <1>1, CodecHolds, PTL
=============================================================================
