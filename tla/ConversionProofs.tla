-------------------------- MODULE ConversionProofs --------------------------
(***************************************************************************)
(* Theorems about what the device computes for the screen and the host:    *)
(* the arithmetic of uint256.c, the numbers it writes, addresses, and the  *)
(* layout of signatures.                                                   *)
(***************************************************************************)
EXTENDS Amount, Bech32, Signature, FiniteSetTheorems, SequenceTheorems, TLAPS

LEMMA SetInduction ==
  ASSUME NEW S, 0 \in S, \A n \in Nat : n \in S => n + 1 \in S
  PROVE  \A n \in Nat : n \in S
<1> DEFINE R == OpToRel(<, Nat)
           T == Nat \ S
<1>1. SUFFICES ASSUME T # {} PROVE FALSE
  OBVIOUS
<1>2. PICK n \in T : \A m \in T : ~(<<m, n>> \in R)
  BY <1>1, NatLessThanWellFounded, WFMin
<1>3. n \in Nat /\ n # 0
  BY <1>2
<1>4. n - 1 \in Nat /\ n - 1 < n /\ n - 1 + 1 = n
  BY <1>3
<1>5. <<n - 1, n>> \in R
  BY <1>3, <1>4, Zenon DEF OpToRel
<1>6. n - 1 \in S
  BY <1>2, <1>4, <1>5
<1> QED  BY <1>2, <1>4, <1>6

(***************************************************************************)
(* Recursion: from a first value and a step from each value to the next    *)
(***************************************************************************)
Follows(h, first, step) ==
  /\ h[0] = first
  /\ \A n \in Nat : h[n + 1] = step[n][h[n]]

Prefix(p, n, first, step, V) ==
  /\ p \in [0..n -> V] /\ p[0] = first
  /\ \A k \in 0..(n - 1) : p[k + 1] = step[k][p[k]]

LEMMA PrefixesExist ==
  ASSUME NEW V, NEW first \in V, NEW step \in [Nat -> [V -> V]], NEW n \in Nat
  PROVE  \E p : Prefix(p, n, first, step, V)
<1> DEFINE S == {m \in Nat : \E p : Prefix(p, m, first, step, V)}
<1>1. 0 \in S
  <2> DEFINE p == [k \in 0..0 |-> first]
  <2>1. Prefix(p, 0, first, step, V)
    BY DEF Prefix
  <2> HIDE DEF p
  <2> QED  BY <2>1
<1>2. ASSUME NEW m \in Nat, m \in S PROVE m + 1 \in S
  <2>1. PICK p : Prefix(p, m, first, step, V)
    BY <1>2
  <2> DEFINE q == [k \in 0..(m + 1) |-> IF k = m + 1 THEN step[m][p[m]] ELSE p[k]]
  <2>2. p[m] \in V /\ step[m][p[m]] \in V
    BY <2>1 DEF Prefix
  <2>3. q \in [0..(m + 1) -> V] /\ q[0] = first
    BY <2>1, <2>2 DEF Prefix
  <2>4. ASSUME NEW k \in 0..m PROVE q[k + 1] = step[k][q[k]]
    <3>1. CASE k = m
      BY <3>1
    <3>2. CASE k # m
      <4>1. k \in 0..(m - 1) /\ k + 1 \in 0..m /\ k + 1 # m + 1 /\ k # m + 1
        BY <3>2
      <4> QED  BY <2>1, <4>1 DEF Prefix
    <3> QED  BY <3>1, <3>2
  <2> HIDE DEF q
  <2>5. m + 1 - 1 = m
    OBVIOUS
  <2>6. Prefix(q, m + 1, first, step, V)
    BY <2>3, <2>4, <2>5 DEF Prefix
  <2> QED  BY <2>6
<1> HIDE DEF S
<1>3. n \in S
  BY <1>1, <1>2, SetInduction
<1> QED  BY <1>3 DEF S

LEMMA PrefixesAgree ==
  ASSUME NEW V, NEW first, NEW step, NEW m \in Nat, NEW n \in Nat,
         NEW p, Prefix(p, m, first, step, V), NEW q, Prefix(q, n, first, step, V)
  PROVE  \A k \in Nat : k <= m /\ k <= n => p[k] = q[k]
<1> DEFINE S == {k \in Nat : k <= m /\ k <= n => p[k] = q[k]}
<1>1. 0 \in S
  BY DEF Prefix
<1>2. ASSUME NEW k \in Nat, k \in S PROVE k + 1 \in S
  <2> SUFFICES ASSUME k + 1 <= m, k + 1 <= n PROVE p[k + 1] = q[k + 1]
    OBVIOUS
  <2>1. k \in 0..(m - 1) /\ k \in 0..(n - 1) /\ k <= m /\ k <= n
    OBVIOUS
  <2> QED  BY <1>2, <2>1 DEF Prefix
<1> HIDE DEF S
<1>3. \A k \in Nat : k \in S
  BY <1>1, <1>2, SetInduction
<1> QED  BY <1>3 DEF S

LEMMA Recursion ==
  ASSUME NEW V, NEW first \in V, NEW step \in [Nat -> [V -> V]]
  PROVE  \E h : h \in [Nat -> V] /\ Follows(h, first, step)
<1> DEFINE Pre(n) == CHOOSE p : Prefix(p, n, first, step, V)
           h == [n \in Nat |-> Pre(n)[n]]
<1>1. ASSUME NEW n \in Nat PROVE Prefix(Pre(n), n, first, step, V)
  BY PrefixesExist
<1> HIDE DEF Pre
<1>2. h \in [Nat -> V]
  BY <1>1 DEF Prefix
<1>3. h[0] = first
  BY <1>1 DEF Prefix
<1>4. ASSUME NEW n \in Nat PROVE h[n + 1] = step[n][h[n]]
  <2>1. Prefix(Pre(n), n, first, step, V) /\ Prefix(Pre(n + 1), n + 1, first, step, V)
    BY <1>1
  <2>2. Pre(n + 1)[n] = Pre(n)[n]
    BY <2>1, PrefixesAgree
  <2>3. n \in 0..(n + 1 - 1) /\ n + 1 \in Nat
    OBVIOUS
  <2>4. Pre(n + 1)[n + 1] = step[n][Pre(n + 1)[n]]
    BY <2>1, <2>3 DEF Prefix
  <2> QED  BY <2>2, <2>4
<1> HIDE DEF h
<1>5. Follows(h, first, step)
  BY <1>3, <1>4 DEF Follows
<1> QED  BY <1>2, <1>5

(***************************************************************************)
(* Powers                                                                  *)
(***************************************************************************)
LEMMA PowerLaw ==
  ASSUME NEW b \in Nat
  PROVE  /\ Power(b, 0) = 1
         /\ \A n \in Nat : Power(b, n) \in Nat /\ Power(b, n + 1) = b * Power(b, n)
<1> DEFINE step == [n \in Nat |-> [v \in Nat |-> b * v]]
           Defines(p) == p = [k \in Nat |-> IF k = 0 THEN 1 ELSE b * p[k - 1]]
           power == CHOOSE p : Defines(p)
<1>1. PICK h : h \in [Nat -> Nat] /\ Follows(h, 1, step)
  <2>1. step \in [Nat -> [Nat -> Nat]]
    OBVIOUS
  <2> QED  BY <2>1, Recursion
<1>2. Defines(h)
  <2>1. ASSUME NEW k \in Nat PROVE h[k] = IF k = 0 THEN 1 ELSE b * h[k - 1]
    <3>1. CASE k = 0
      BY <1>1, <3>1 DEF Follows
    <3>2. CASE k # 0
      <4>1. k - 1 \in Nat /\ k - 1 + 1 = k
        BY <3>2
      <4>2. h[k - 1 + 1] = step[k - 1][h[k - 1]] /\ h[k - 1] \in Nat
        BY <1>1, <4>1 DEF Follows
      <4> QED  BY <3>2, <4>1, <4>2
    <3> QED  BY <3>1, <3>2
  <2>2. h = [k \in Nat |-> h[k]]
    BY <1>1
  <2> QED  BY <2>1, <2>2
<1> HIDE DEF Defines
<1>3. Defines(power)
  BY <1>2
<1>4. ASSUME NEW n PROVE Power(b, n) = power[n]
  BY DEF Power, Defines
<1> HIDE DEF power
<1>5. ASSUME NEW k \in Nat PROVE power[k] = IF k = 0 THEN 1 ELSE b * power[k - 1]
  BY <1>3 DEF Defines
<1>6. power[0] = 1
  BY <1>5
<1>7. ASSUME NEW n \in Nat PROVE power[n + 1] = b * power[n]
  <2>1. n + 1 \in Nat /\ n + 1 # 0 /\ n + 1 - 1 = n
    OBVIOUS
  <2> QED  BY <1>5, <2>1
<1> DEFINE S == {n \in Nat : power[n] \in Nat}
<1>8. 0 \in S
  BY <1>6
<1>9. \A n \in Nat : n \in S => n + 1 \in S
  BY <1>7
<1> HIDE DEF S
<1>10. \A n \in Nat : n \in S
  BY <1>8, <1>9, SetInduction
<1> QED  BY <1>4, <1>6, <1>7, <1>10 DEF S

LEMMA PowerSum ==
  ASSUME NEW b \in Nat, NEW m \in Nat, NEW n \in Nat
  PROVE  Power(b, m + n) = Power(b, m) * Power(b, n)
<1> DEFINE S == {k \in Nat : Power(b, m + k) = Power(b, m) * Power(b, k)}
<1>1. 0 \in S
  BY PowerLaw
<1>2. ASSUME NEW k \in Nat, k \in S PROVE k + 1 \in S
  <2>1. m + k \in Nat /\ m + (k + 1) = m + k + 1
    OBVIOUS
  <2>2. Power(b, m + (k + 1)) = b * Power(b, m + k)
    BY <2>1, PowerLaw
  <2>3. Power(b, m + k) = Power(b, m) * Power(b, k)
    BY <1>2
  <2>4. Power(b, k + 1) = b * Power(b, k)
    BY PowerLaw
  <2>5. Power(b, m) \in Nat /\ Power(b, k) \in Nat
    BY PowerLaw
  <2>6. ASSUME NEW x \in Nat, NEW y \in Nat PROVE b * (x * y) = x * (b * y)
    OBVIOUS
  <2> QED  BY <2>2, <2>3, <2>4, <2>5, <2>6
<1> HIDE DEF S
<1>3. n \in S
  BY <1>1, <1>2, SetInduction
<1> QED  BY <1>3 DEF S

LEMMA PowerPositive ==
  ASSUME NEW b \in Nat \ {0}, NEW n \in Nat
  PROVE  Power(b, n) \in Nat \ {0}
<1> DEFINE S == {k \in Nat : Power(b, k) # 0}
<1>1. 0 \in S
  BY PowerLaw
<1>2. ASSUME NEW k \in Nat, k \in S PROVE k + 1 \in S
  <2>1. Power(b, k + 1) = b * Power(b, k) /\ Power(b, k) \in Nat /\ Power(b, k) # 0
    BY <1>2, PowerLaw
  <2>2. ASSUME NEW x \in Nat, x # 0 PROVE b * x # 0
    BY <2>2
  <2> QED  BY <2>1, <2>2
<1> HIDE DEF S
<1>3. n \in S
  BY <1>1, <1>2, SetInduction
<1> QED  BY <1>3, PowerLaw DEF S

LEMMA PowerSplit ==
  ASSUME NEW k \in Nat, NEW s \in Nat, k <= s
  PROVE  Power(2, s) = Power(2, k) * Power(2, s - k) /\ Power(2, s - k) \in Nat \ {0}
<1>1. s - k \in Nat /\ k + (s - k) = s
  OBVIOUS
<1>2. Power(2, k + (s - k)) = Power(2, k) * Power(2, s - k)
  BY <1>1, PowerSum
<1> QED  BY <1>1, <1>2, PowerPositive

LEMMA PowerGrows ==
  ASSUME NEW b \in Nat \ {0}, NEW m \in Nat, NEW n \in Nat, m <= n
  PROVE  Power(b, m) <= Power(b, n)
<1>1. n - m \in Nat /\ m + (n - m) = n
  OBVIOUS
<1>2. Power(b, n) = Power(b, m) * Power(b, n - m)
  BY <1>1, PowerSum
<1>3. Power(b, m) \in Nat /\ Power(b, n - m) \in Nat \ {0}
  BY <1>1, PowerPositive
<1>4. ASSUME NEW x \in Nat, NEW y \in Nat \ {0} PROVE x <= x * y
  OBVIOUS
<1> QED  BY <1>2, <1>3, <1>4

LEMMA Double ==
  ASSUME NEW n \in Nat
  PROVE  /\ Power(2, n) \in Nat \ {0}
         /\ Power(2, n + 1) = 2 * Power(2, n)
BY PowerLaw, PowerPositive

(***************************************************************************)
(* Quotients and remainders                                                *)
(***************************************************************************)
LEMMA DivMod ==
  ASSUME NEW a \in Nat, NEW b \in Nat \ {0}
  PROVE  /\ a \div b \in Nat /\ a % b \in Nat /\ a % b < b
         /\ a = b * (a \div b) + (a % b)
OBVIOUS

LEMMA DivModUnique ==
  ASSUME NEW a, NEW b \in Nat \ {0}, NEW q \in Nat, NEW r \in Nat, r < b, a = b * q + r
  PROVE  a \div b = q /\ a % b = r
OBVIOUS

LEMMA TimesLess ==
  ASSUME NEW x \in Nat, NEW y \in Nat, NEW z \in Nat, x < y
  PROVE  x * z + z <= y * z
<1>1. y - (x + 1) \in Nat /\ y = x + 1 + (y - (x + 1))
  OBVIOUS
<1>2. ASSUME NEW k \in Nat PROVE (x + 1 + k) * z = x * z + z + k * z /\ k * z \in Nat
  OBVIOUS
<1>3. x * z \in Nat
  OBVIOUS
<1> QED  BY <1>1, <1>2, <1>3

Product(K, S, T) ==
  S \in Nat \ {0} /\ T \in Nat \ {0} /\ K \in Nat \ {0} /\ K = S * T

\* What u * T leaves over, and holds, of K = S * T
Scaled(u, K, S, T) ==
  /\ (u * T) % K = (u % S) * T
  /\ (u % S) * T + T <= K
  /\ (u % S) * T \in Nat
  /\ u * T = (u \div S) * K + (u % S) * T

LEMMA ScaledRemainder ==
  ASSUME NEW S, NEW T, NEW K, Product(K, S, T), NEW u \in Nat
  PROVE  Scaled(u, K, S, T)
<1> USE DEF Product
<1> DEFINE q == u \div S
           r == u % S
<1>1. q \in Nat /\ r \in Nat /\ r < S /\ u = S * q + r
  BY DivMod
<1> HIDE DEF q, r
<1>2. r * T \in Nat
  BY <1>1
<1>3. r * T + T <= K
  BY <1>1, TimesLess
<1>4. u * T = K * q + r * T
  <2>1. (S * q + r) * T = (S * T) * q + r * T
    BY <1>1
  <2> QED  BY <1>1, <2>1
<1>5. (u * T) % K = r * T
  <2>1. r * T < K
    BY <1>2, <1>3
  <2> QED  BY <1>1, <1>2, <1>4, <2>1, DivModUnique
<1>6. K * q = q * K
  BY <1>1
<1> QED  BY <1>1, <1>2, <1>3, <1>4, <1>5, <1>6 DEF q, r, Scaled

\* Two halves of a number to the base K
Halves(u, l, K) == u \in 0..(K - 1) /\ l \in 0..(K - 1)

ShiftedRight(u, l, K, S, T) == ((u * T) % K) + (l \div S)
ShiftedLeft(u, l, K, S, T) == ((u * S) % K) + (l \div T)

GoRight(u, l, K, S, T) ==
  /\ ShiftedRight(u, l, K, S, T) \in 0..(K - 1)
  /\ (u * K + l) \div S = (u \div S) * K + ShiftedRight(u, l, K, S, T)

GoLeft(u, l, K, S, T) ==
  /\ ShiftedLeft(u, l, K, S, T) \in 0..(K - 1)
  /\ (l * S) % K \in 0..(K - 1)
  /\ ((u * K + l) * S) % (K * K) = ShiftedLeft(u, l, K, S, T) * K + ((l * S) % K)

LEMMA QuotientLess ==
  ASSUME NEW K \in Nat \ {0}, NEW S \in Nat \ {0}, NEW u \in 0..(K - 1)
  PROVE  u \div S \in 0..(K - 1)
<1> DEFINE q == u \div S
           r == u % S
<1>1. q \in Nat /\ r \in Nat /\ u = S * q + r
  BY DivMod
<1> HIDE DEF q, r
<1>2. S * q >= q
  BY <1>1
<1> QED  BY <1>1, <1>2 DEF q

LEMMA HalvesRight ==
  ASSUME NEW S, NEW T, NEW K, Product(K, S, T), NEW u, NEW l, Halves(u, l, K)
  PROVE  GoRight(u, l, K, S, T)
<1> USE DEF GoRight, ShiftedRight
<1>h. u \in 0..(K - 1) /\ l \in 0..(K - 1)
  BY DEF Halves
<1> DEFINE q == u \div S
           r == u % S
           m == l \div S
           n == l % S
<1>p. S \in Nat \ {0} /\ T \in Nat \ {0} /\ K \in Nat \ {0} /\ K = S * T
  BY DEF Product
<1>1. q \in Nat /\ r \in Nat /\ r < S /\ u = S * q + r
  BY <1>p, <1>h, DivMod
<1>2. m \in Nat /\ n \in Nat /\ n < S /\ l = S * m + n
  BY <1>p, <1>h, DivMod
<1>u. u \in Nat /\ l \in Nat
  BY <1>p, <1>h
<1>3. (u * T) % K = r * T /\ r * T + T <= K /\ r * T \in Nat
  <2>1. Scaled(u, K, S, T)
    BY <1>u, ScaledRemainder
  <2> QED  BY <2>1 DEF Scaled
<1>5. m < T
  <2>1. S * m < S * T
    BY <1>p, <1>h, <1>2
  <2>2. T <= m => T * S <= m * S
    <3> SUFFICES ASSUME T <= m PROVE T * S <= m * S
      BY <1>p, <1>h
    <3>1. T < m + 1 /\ m + 1 \in Nat
      BY <1>p, <1>h, <1>2
    <3>2. T * S + S <= (m + 1) * S
      BY <1>p, <1>h, <3>1, TimesLess
    <3>3. (m + 1) * S = m * S + S /\ m * S \in Nat /\ T * S \in Nat
      BY <1>p, <1>h, <1>2
    <3> QED  BY <1>p, <1>h, <3>2, <3>3
  <2>3. S * m = m * S /\ S * T = T * S /\ m * S \in Nat /\ T * S \in Nat
    BY <1>p, <1>h, <1>2
  <2> QED  BY <1>p, <1>h, <1>2, <2>1, <2>2, <2>3
<1>6. u * K + l = S * (q * K + (r * T + m)) + n
  <2>1. u * K = S * (q * K) + S * (r * T)
    <3>1. (S * q + r) * K = S * (q * K) + r * K
      <4> HIDE DEF q, r
      <4> QED  BY <1>p, <1>h, <1>1
    <3>2. r * (S * T) = S * (r * T)
      BY <1>p, <1>h, <1>1
    <3> QED  BY <1>p, <1>h, <1>1, <3>1, <3>2
  <2>2. S * (q * K + (r * T + m)) = S * (q * K) + S * (r * T) + S * m
    BY <1>p, <1>h, <1>1, <1>2, <1>3
  <2> HIDE DEF q, r, m, n
  <2>3. S * (q * K) \in Nat /\ S * (r * T) \in Nat /\ S * m \in Nat /\ u * K \in Nat
    BY <1>p, <1>h, <1>1, <1>2, <1>3
  <2> QED  BY <1>p, <1>h, <1>2, <2>1, <2>2, <2>3
<1> HIDE DEF q, r, m, n
<1>7. q * K + (r * T + m) \in Nat
  BY <1>p, <1>h, <1>1, <1>2, <1>3
<1>8. (S * (q * K + (r * T + m)) + n) \div S = q * K + (r * T + m)
  BY <1>p, <1>h, <1>2, <1>7, DivModUnique
<1>9. (u * K + l) \div S = q * K + (r * T + m)
  BY <1>p, <1>h, <1>6, <1>8
<1>10. r * T + m \in 0..(K - 1)
  BY <1>p, <1>h, <1>2, <1>3, <1>5
<1> QED  BY <1>p, <1>h, <1>3, <1>9, <1>10 DEF q, m

LEMMA HalvesLeft ==
  ASSUME NEW S, NEW T, NEW K, Product(K, S, T), NEW u, NEW l, Halves(u, l, K)
  PROVE  GoLeft(u, l, K, S, T)
<1> USE DEF GoLeft, ShiftedLeft
<1>h. u \in 0..(K - 1) /\ l \in 0..(K - 1)
  BY DEF Halves
<1> DEFINE q == u \div T
           r == u % T
           m == l \div T
           n == l % T
<1>p. S \in Nat \ {0} /\ T \in Nat \ {0} /\ K \in Nat \ {0} /\ K = S * T
  BY DEF Product
<1>1. q \in Nat /\ r \in Nat /\ r < T /\ u = T * q + r
  BY <1>p, <1>h, DivMod
<1>2. m \in Nat /\ n \in Nat /\ n < T /\ l = T * m + n
  BY <1>p, <1>h, DivMod
<1>s. Product(K, T, S) /\ u \in Nat /\ l \in Nat
  BY <1>p, <1>h DEF Product
<1>3. (u * S) % K = r * S /\ r * S + S <= K /\ r * S \in Nat /\ u * S = q * K + r * S
  <2>1. Scaled(u, K, T, S)
    BY <1>s, ScaledRemainder
  <2> QED  BY <2>1 DEF Scaled
<1>4. (l * S) % K = n * S /\ n * S + S <= K /\ n * S \in Nat /\ l * S = m * K + n * S
  <2>1. Scaled(l, K, T, S)
    BY <1>s, ScaledRemainder
  <2> QED  BY <2>1 DEF Scaled
<1>6. m < S
  <2>1. T * m < S * T
    BY <1>p, <1>h, <1>2
  <2>2. S <= m => S * T <= m * T
    <3> SUFFICES ASSUME S <= m PROVE S * T <= m * T
      BY <1>p, <1>h
    <3>1. S < m + 1 /\ m + 1 \in Nat
      BY <1>p, <1>h, <1>2
    <3>2. S * T + T <= (m + 1) * T
      BY <1>p, <1>h, <3>1, TimesLess
    <3>3. (m + 1) * T = m * T + T /\ m * T \in Nat /\ S * T \in Nat
      BY <1>p, <1>h, <1>2
    <3> QED  BY <1>p, <1>h, <3>2, <3>3
  <2>3. T * m = m * T /\ m * T \in Nat /\ S * T \in Nat
    BY <1>p, <1>h, <1>2
  <2> QED  BY <1>p, <1>h, <1>2, <2>1, <2>2, <2>3
<1> HIDE DEF q, r, m, n
<1> DEFINE x == r * S + m
           y == n * S
<1>7. x \in Nat /\ x < K /\ y \in Nat /\ y < K
  BY <1>p, <1>h, <1>1, <1>2, <1>3, <1>4, <1>6
<1>8. x * K + y < K * K /\ x * K + y \in Nat /\ K * K \in Nat \ {0}
  <2>1. x * K + K <= K * K
    BY <1>p, <1>h, <1>7, TimesLess
  <2>2. x * K \in Nat /\ K * K \in Nat \ {0}
    BY <1>p, <1>h, <1>7
  <2> HIDE DEF x, y
  <2> QED  BY <1>p, <1>h, <1>7, <2>1, <2>2
<1>9. (u * K + l) * S = (K * K) * q + (x * K + y)
  <2>1. (u * K + l) * S = (u * S) * K + l * S
    BY <1>p, <1>h
  <2>2. (q * K + r * S) * K + (m * K + y) = (K * K) * q + ((r * S + m) * K + y)
    <3> DEFINE a == r * S
    <3>1. a \in Nat
      BY <1>p, <1>h, <1>3
    <3> HIDE DEF a, y
    <3> QED  BY <1>p, <1>h, <1>1, <1>2, <1>7, <3>1
  <2> QED  BY <1>p, <1>h, <1>3, <1>4, <2>1, <2>2
<1> HIDE DEF x, y
<1>10. ((K * K) * q + (x * K + y)) % (K * K) = x * K + y
  BY <1>p, <1>h, <1>1, <1>8, DivModUnique
<1> QED  BY <1>p, <1>h, <1>3, <1>4, <1>7, <1>9, <1>10 DEF x, y, m

LEMMA HalvesRightFar ==
  ASSUME NEW J \in Nat \ {0}, NEW K \in Nat \ {0}, NEW u \in 0..(K - 1), NEW l \in 0..(K - 1)
  PROVE  (u * K + l) \div (K * J) = u \div J
<1> DEFINE q == u \div J
           r == u % J
<1>1. q \in Nat /\ r \in Nat /\ r < J /\ u = J * q + r
  BY DivMod
<1> HIDE DEF q, r
<1>2. r * K + K <= J * K /\ r * K \in Nat /\ J * K = K * J /\ K * J \in Nat \ {0}
  BY <1>1, TimesLess
<1>3. u * K + l = (K * J) * q + (r * K + l)
  <2>1. (J * q + r) * K = (K * J) * q + r * K
    BY <1>1
  <2>2. (K * J) * q \in Nat
    BY <1>1
  <2> QED  BY <1>1, <1>2, <2>1, <2>2
<1>4. r * K + l \in Nat /\ r * K + l < K * J
  BY <1>2
<1>5. (u * K + l) \div (K * J) = q
  BY <1>1, <1>2, <1>3, <1>4, DivModUnique
<1> QED  BY <1>5 DEF q

LEMMA HalvesLeftFar ==
  ASSUME NEW J \in Nat \ {0}, NEW K \in Nat \ {0}, NEW u \in 0..(K - 1), NEW l \in 0..(K - 1)
  PROVE  /\ (l * J) % K \in 0..(K - 1)
         /\ ((u * K + l) * (K * J)) % (K * K) = ((l * J) % K) * K
<1> DEFINE a == l * J
           q == a \div K
           r == a % K
<1>1. a \in Nat
  OBVIOUS
<1>2. q \in Nat /\ r \in Nat /\ r < K /\ a = K * q + r
  BY <1>1, DivMod
<1> HIDE DEF q, r
<1>3. (u * K + l) * (K * J) = (K * K) * (u * J + q) + r * K
  <2>1. (u * K + l) * (K * J) = (K * K) * (u * J) + a * K
    OBVIOUS
  <2> HIDE DEF a
  <2>2. (K * q + r) * K = (K * K) * q + r * K
    BY <1>2
  <2> DEFINE b == u * J
  <2>3. b \in Nat
    OBVIOUS
  <2> HIDE DEF b
  <2>4. (K * K) * (b + q) = (K * K) * b + (K * K) * q
    BY <1>2, <2>3
  <2>5. (K * K) * b \in Nat /\ (K * K) * q \in Nat /\ r * K \in Nat
    BY <1>2, <2>3
  <2>6. (u * K + l) * (K * J) = (K * K) * b + (K * q + r) * K
    BY <1>2, <2>1 DEF b
  <2>7. (u * K + l) * (K * J) = (K * K) * (b + q) + r * K
    BY <2>2, <2>4, <2>5, <2>6
  <2> QED  BY <2>7 DEF b
<1> HIDE DEF a
<1>4. r * K + K <= K * K /\ r * K \in Nat /\ K * K \in Nat \ {0} /\ u * J + q \in Nat
  BY <1>2, TimesLess
<1>5. ((u * K + l) * (K * J)) % (K * K) = r * K
  <2> DEFINE b == (u * K + l) * (K * J)
             c == K * K
             e == u * J + q
             f == r * K
  <2>1. b = c * e + f /\ c \in Nat \ {0} /\ e \in Nat /\ f \in Nat /\ f < c
    BY <1>3, <1>4
  <2> HIDE DEF b, c, e, f
  <2>2. b % c = f
    BY <2>1, DivModUnique
  <2> QED  BY <2>2 DEF b, c, f
<1> QED  BY <1>2, <1>5 DEF a, r

GoLeftFar(u, l, K, J) ==
  /\ (l * J) % K \in 0..(K - 1)
  /\ ((u * K + l) * (K * J)) % (K * K) = ((l * J) % K) * K

LEMMA HalvesGoLeftFar ==
  ASSUME NEW J \in Nat \ {0}, NEW K \in Nat \ {0}, NEW u, NEW l, Halves(u, l, K)
  PROVE  GoLeftFar(u, l, K, J)
<1>1. u \in 0..(K - 1) /\ l \in 0..(K - 1)
  BY DEF Halves
<1> QED  BY <1>1, HalvesLeftFar DEF GoLeftFar

LEMMA HalvesRange ==
  ASSUME NEW K \in Nat \ {0}, NEW u \in 0..(K - 1), NEW l \in 0..(K - 1)
  PROVE  u * K + l \in 0..(K * K - 1)
<1>1. u * K + K <= K * K /\ u * K \in Nat /\ K * K \in Nat
  BY TimesLess
<1> QED  BY <1>1

LEMMA HalvesOrder ==
  ASSUME NEW K \in Nat \ {0}, NEW u \in 0..(K - 1), NEW l \in 0..(K - 1),
         NEW v \in 0..(K - 1), NEW m \in 0..(K - 1), u < v
  PROVE  u * K + l < v * K + m
<1>1. u * K + K <= v * K /\ u * K \in Nat /\ v * K \in Nat
  BY TimesLess
<1> QED  BY <1>1

Below(u, l, v, m, K) == u * K + l < v * K + m

LEMMA HalvesBelow ==
  ASSUME NEW K \in Nat \ {0}, NEW u, NEW l, NEW v, NEW m,
         Halves(u, l, K), Halves(v, m, K), u < v
  PROVE  Below(u, l, v, m, K)
<1>1. u \in 0..(K - 1) /\ l \in 0..(K - 1) /\ v \in 0..(K - 1) /\ m \in 0..(K - 1)
  BY DEF Halves
<1> QED  BY <1>1, HalvesOrder DEF Below

(***************************************************************************)
(* Words and pairs                                                         *)
(***************************************************************************)
U128 == [upper : 0..(Word - 1), lower : 0..(Word - 1)]
U256 == [upper : U128, lower : U128]

Word2 == Word * Word

LEMMA Words ==
  /\ Word \in Nat \ {0} /\ Word2 \in Nat \ {0}
  /\ WordBits \in Nat /\ WordBits >= 1 /\ Word >= 2
  /\ Word = Power(2, WordBits) /\ Word2 = Power(2, 2 * WordBits)
<1>1. WordBits \in Nat /\ WordBits >= 1
  BY WordAssumption
<1>2. Word \in Nat \ {0} /\ Word = Power(2, WordBits)
  BY <1>1, Double DEF Word
<1>3. Word >= 2
  <2>1. Power(2, 0 + 1) = 2 * Power(2, 0) /\ Power(2, 0) = 1
    BY PowerLaw
  <2>2. Power(2, 1) <= Power(2, WordBits)
    BY <1>1, PowerGrows
  <2> QED  BY <1>2, <2>1, <2>2
<1>4. Word2 = Power(2, WordBits + WordBits)
  BY <1>1, <1>2, PowerSum DEF Word2
<1>5. WordBits + WordBits = 2 * WordBits
  BY <1>1
<1>6. Word2 \in Nat \ {0}
  BY <1>2 DEF Word2
<1> QED  BY <1>1, <1>2, <1>3, <1>4, <1>5, <1>6

LEMMA PairType ==
  ASSUME NEW u, NEW l
  PROVE  /\ u \in 0..(Word - 1) /\ l \in 0..(Word - 1) => Pair(u, l) \in U128
         /\ u \in U128 /\ l \in U128 => Pair(u, l) \in U256
         /\ Pair(u, l).upper = u /\ Pair(u, l).lower = l
BY DEF Pair, U128, U256

\* The parts of a number and its value
LEMMA Value128Is ==
  ASSUME NEW n \in U128
  PROVE  /\ n.upper \in 0..(Word - 1) /\ n.lower \in 0..(Word - 1)
         /\ Value128(n) = n.upper * Word + n.lower
         /\ Value128(n) \in 0..(Word2 - 1)
         /\ n = Pair(n.upper, n.lower)
<1>1. n.upper \in 0..(Word - 1) /\ n.lower \in 0..(Word - 1) /\ n = Pair(n.upper, n.lower)
  BY DEF U128, Pair
<1>2. Value128(n) = n.upper * Word + n.lower
  BY DEF Value128
<1>3. n.upper * Word + n.lower \in 0..(Word * Word - 1)
  BY <1>1, Words, HalvesRange
<1> QED  BY <1>1, <1>2, <1>3 DEF Word2

LEMMA Value256Is ==
  ASSUME NEW n \in U256
  PROVE  /\ n.upper \in U128 /\ n.lower \in U128
         /\ Value256(n) = Value128(n.upper) * Word2 + Value128(n.lower)
         /\ Value256(n) \in 0..(Word2 * Word2 - 1)
         /\ n = Pair(n.upper, n.lower)
<1>1. n.upper \in U128 /\ n.lower \in U128 /\ n = Pair(n.upper, n.lower)
  BY DEF U256, Pair
<1> DEFINE u == Value128(n.upper)
           l == Value128(n.lower)
<1>2. u \in 0..(Word2 - 1) /\ l \in 0..(Word2 - 1)
  BY <1>1, Value128Is
<1>3. Value256(n) = u * Word * Word + l
  BY DEF Value256
<1> HIDE DEF u, l
<1>4. u * Word * Word = u * Word2
  <2>1. u \in Nat /\ Word \in Nat
    BY <1>2, Words
  <2> HIDE DEF Word
  <2> QED  BY <2>1 DEF Word2
<1>5. u * Word2 + l \in 0..(Word2 * Word2 - 1)
  BY <1>2, Words, HalvesRange
<1> QED  BY <1>1, <1>3, <1>4, <1>5 DEF u, l

LEMMA Gt128Value ==
  ASSUME NEW m \in U128, NEW n \in U128
  PROVE  /\ Gt128(m, n) <=> Value128(m) > Value128(n)
         /\ Value128(m) = Value128(n) => m = n
<1>1. /\ m.upper \in 0..(Word - 1) /\ m.lower \in 0..(Word - 1)
      /\ n.upper \in 0..(Word - 1) /\ n.lower \in 0..(Word - 1)
      /\ Value128(m) = m.upper * Word + m.lower /\ Value128(n) = n.upper * Word + n.lower
      /\ m = Pair(m.upper, m.lower) /\ n = Pair(n.upper, n.lower)
      /\ Value128(m) \in Nat /\ Value128(n) \in Nat
  BY Words, Value128Is
<1>2. CASE m.upper = n.upper
  <2>1. n.upper * Word \in Nat
    BY <1>1, Words
  <2> QED  BY <1>1, <1>2, <2>1 DEF Gt128
<1>3. CASE m.upper < n.upper
  <2>1. Value128(m) < Value128(n)
    BY <1>1, <1>3, Words, HalvesOrder
  <2> QED  BY <1>1, <1>3, <2>1 DEF Gt128
<1>4. CASE n.upper < m.upper
  <2>1. Value128(n) < Value128(m)
    BY <1>1, <1>4, Words, HalvesOrder
  <2> QED  BY <1>1, <1>4, <2>1 DEF Gt128
<1> QED  BY <1>1, <1>2, <1>3, <1>4

LEMMA Gt256Value ==
  ASSUME NEW m \in U256, NEW n \in U256
  PROVE  /\ Gt256(m, n) <=> Value256(m) > Value256(n)
         /\ Gte256(m, n) <=> Value256(m) >= Value256(n)
         /\ Value256(m) = Value256(n) => m = n
<1>1. /\ m.upper \in U128 /\ m.lower \in U128 /\ n.upper \in U128 /\ n.lower \in U128
      /\ m = Pair(m.upper, m.lower) /\ n = Pair(n.upper, n.lower)
      /\ Value256(m) = Value128(m.upper) * Word2 + Value128(m.lower)
      /\ Value256(n) = Value128(n.upper) * Word2 + Value128(n.lower)
      /\ Value256(m) \in Nat /\ Value256(n) \in Nat
  BY Words, Value256Is
<1>2. /\ Value128(m.upper) \in 0..(Word2 - 1) /\ Value128(m.lower) \in 0..(Word2 - 1)
      /\ Value128(n.upper) \in 0..(Word2 - 1) /\ Value128(n.lower) \in 0..(Word2 - 1)
  BY <1>1, Value128Is
<1>3. CASE m.upper = n.upper
  <2>1. Value128(n.upper) * Word2 \in Nat
    BY <1>2, Words
  <2>2. /\ Gt128(m.lower, n.lower) <=> Value128(m.lower) > Value128(n.lower)
        /\ Value128(m.lower) = Value128(n.lower) => m.lower = n.lower
    BY <1>1, Gt128Value
  <2> QED  BY <1>1, <1>2, <1>3, <2>1, <2>2 DEF Gt256, Gte256
<1>4. CASE m.upper # n.upper
  <2>1. /\ Gt128(m.upper, n.upper) <=> Value128(m.upper) > Value128(n.upper)
        /\ Value128(m.upper) # Value128(n.upper)
    BY <1>1, <1>4, Gt128Value
  <2>2. CASE Value128(m.upper) < Value128(n.upper)
    <3>1. Value256(m) < Value256(n)
      <4>1. /\ Halves(Value128(m.upper), Value128(m.lower), Word2)
            /\ Halves(Value128(n.upper), Value128(n.lower), Word2)
        BY <1>2 DEF Halves
      <4>2. Below(Value128(m.upper), Value128(m.lower),
                  Value128(n.upper), Value128(n.lower), Word2)
        BY <2>2, <4>1, Words, HalvesBelow
      <4> QED  BY <1>1, <4>2 DEF Below
    <3> QED  BY <1>1, <1>2, <1>4, <2>1, <2>2, <3>1 DEF Gt256, Gte256
  <2>3. CASE Value128(n.upper) < Value128(m.upper)
    <3>1. Value256(n) < Value256(m)
      <4>1. /\ Halves(Value128(m.upper), Value128(m.lower), Word2)
            /\ Halves(Value128(n.upper), Value128(n.lower), Word2)
        BY <1>2 DEF Halves
      <4>2. Below(Value128(n.upper), Value128(n.lower),
                  Value128(m.upper), Value128(m.lower), Word2)
        BY <2>3, <4>1, Words, HalvesBelow
      <4> QED  BY <1>1, <4>2 DEF Below
    <3> QED  BY <1>1, <1>2, <1>4, <2>1, <2>3, <3>1 DEF Gt256, Gte256
  <2> QED  BY <1>2, <2>1, <2>2, <2>3
<1> QED  BY <1>3, <1>4

(***************************************************************************)
(* Sums and differences                                                    *)
(***************************************************************************)
LEMMA Add128Value ==
  ASSUME NEW m \in U128, NEW n \in U128, Value128(m) + Value128(n) < Word2
  PROVE  Add128(m, n) \in U128 /\ Value128(Add128(m, n)) = Value128(m) + Value128(n)
<1> DEFINE K == Word
           a == m.lower + n.lower
           lower == a % K
           carry == IF lower < m.lower THEN 1 ELSE 0
           b == m.upper + n.upper + carry
<1>1. /\ m.upper \in 0..(K - 1) /\ m.lower \in 0..(K - 1)
      /\ n.upper \in 0..(K - 1) /\ n.lower \in 0..(K - 1)
      /\ Value128(m) = m.upper * K + m.lower /\ Value128(n) = n.upper * K + n.lower
  BY Value128Is
<1>2. K \in Nat \ {0}
  BY Words
<1>3. Add128(m, n) = Pair(b % K, lower)
  BY DEF Add128
<1>4. m.upper * K + m.lower + (n.upper * K + n.lower) < K * K
  BY <1>1 DEF Word2
<1> HIDE DEF K
<1>5. lower \in 0..(K - 1) /\ carry \in {0, 1} /\ a = carry * K + lower
  <2>1. CASE a < K
    <3>1. a \in Nat /\ a = K * 0 + a
      BY <1>1, <1>2
    <3>2. a % K = a
      BY <1>2, <2>1, <3>1, DivModUnique
    <3> QED  BY <1>1, <1>2, <2>1, <3>2
  <2>2. CASE a >= K
    <3>1. a - K \in Nat /\ a - K < K /\ a = K * 1 + (a - K)
      BY <1>1, <1>2, <2>2
    <3>2. a % K = a - K
      BY <1>2, <3>1, DivModUnique
    <3> QED  BY <1>1, <1>2, <2>2, <3>1, <3>2
  <2> QED  BY <1>1, <1>2, <2>1, <2>2
<1> HIDE DEF a, lower, carry
<1>6. b \in Nat /\ b * K + lower = m.upper * K + m.lower + (n.upper * K + n.lower)
  <2>1. b \in Nat
    BY <1>1, <1>2, <1>5
  <2>2. b * K = m.upper * K + n.upper * K + carry * K
    BY <1>1, <1>2, <1>5
  <2>3. m.upper * K \in Nat /\ n.upper * K \in Nat /\ carry * K \in Nat
    BY <1>1, <1>2, <1>5
  <2>4. m.lower + n.lower = carry * K + lower
    BY <1>5 DEF a
  <2> DEFINE p == m.upper * K
             q == n.upper * K
             r == carry * K
             t == b * K
             x == m.lower
             y == n.lower
  <2>5. /\ t = p + q + r /\ p \in Nat /\ q \in Nat /\ r \in Nat /\ x + y = r + lower
        /\ x \in Nat /\ y \in Nat /\ lower \in Nat
    BY <1>1, <1>5, <2>2, <2>3, <2>4
  <2> HIDE DEF b, p, q, r, t, x, y
  <2>6. t + lower = p + x + (q + y)
    BY <2>5
  <2> QED  BY <2>1, <2>6 DEF p, q, t, x, y
<1> HIDE DEF b
<1>7. b < K
  <2>1. SUFFICES ASSUME K <= b PROVE FALSE
    BY <1>2, <1>6
  <2>2. K < b + 1 /\ b + 1 \in Nat
    BY <1>2, <1>6, <2>1
  <2>3. K * K + K <= (b + 1) * K
    BY <1>2, <2>2, TimesLess
  <2>4. (b + 1) * K = b * K + K /\ b * K \in Nat /\ K * K \in Nat
    BY <1>2, <1>6
  <2> QED  BY <1>2, <1>4, <1>5, <1>6, <2>3, <2>4
<1>8. b % K = b
  BY <1>2, <1>6, <1>7
<1>9. Add128(m, n) = Pair(b, lower) /\ Pair(b, lower) \in U128
  <2>1. b \in 0..(Word - 1) /\ lower \in 0..(Word - 1)
    BY <1>2, <1>5, <1>6, <1>7 DEF K
  <2> QED  BY <1>3, <1>8, <2>1, PairType
<1>10. Value128(Pair(b, lower)) = b * K + lower
  BY PairType DEF Value128, K
<1> QED  BY <1>1, <1>6, <1>9, <1>10

\* A difference that wraps
LEMMA Minus128Value ==
  ASSUME NEW m \in U128, NEW n \in U128
  PROVE  /\ Minus128(m, n) \in U128
         /\ Value128(Minus128(m, n)) =
              IF Value128(n) <= Value128(m) THEN Value128(m) - Value128(n)
              ELSE Value128(m) - Value128(n) + Word2
<1> DEFINE K == Word
           a == m.lower - n.lower
           lower == a % K
           borrow == IF lower > m.lower THEN 1 ELSE 0
           b == m.upper - n.upper - borrow
<1>1. /\ m.upper \in 0..(K - 1) /\ m.lower \in 0..(K - 1)
      /\ n.upper \in 0..(K - 1) /\ n.lower \in 0..(K - 1)
      /\ Value128(m) = m.upper * K + m.lower /\ Value128(n) = n.upper * K + n.lower
  BY Value128Is
<1>2. K \in Nat \ {0}
  BY Words
<1>3. Minus128(m, n) = Pair(b % K, lower)
  BY DEF Minus128
<1>w. Word2 = K * K
  BY DEF Word2
<1> HIDE DEF K
<1>4. ASSUME NEW x \in 0..(K - 1), NEW y \in 0..K
      PROVE  (x - y) % K = IF y <= x THEN x - y ELSE x - y + K
  BY <1>2
<1>5. lower \in 0..(K - 1) /\ borrow \in {0, 1} /\ a = lower - borrow * K
  <2>1. lower = IF n.lower <= m.lower THEN a ELSE a + K
    <3>1. m.lower \in 0..(K - 1) /\ n.lower \in 0..K
      BY <1>1, <1>2
    <3> QED  BY <1>4, <3>1
  <2> HIDE DEF lower
  <2> QED  BY <1>1, <1>2, <2>1
<1> HIDE DEF lower, borrow, a
<1>6. b % K = IF b >= 0 THEN b ELSE b + K
  <2>1. n.upper + borrow \in 0..K /\ m.upper - (n.upper + borrow) = b
    BY <1>1, <1>2, <1>5
  <2> HIDE DEF b
  <2>2. b % K = IF n.upper + borrow <= m.upper THEN b ELSE b + K
    BY <1>1, <1>4, <2>1
  <2> QED  BY <1>1, <1>2, <1>5, <2>1, <2>2
<1>7. /\ b \in Int /\ b < K /\ -K <= b
      /\ b * K + lower = (m.upper * K + m.lower) - (n.upper * K + n.lower)
  <2>1. b \in Int /\ b < K /\ -K <= b
    BY <1>1, <1>2, <1>5
  <2>2. b * K = m.upper * K - n.upper * K - borrow * K
    BY <1>1, <1>2, <1>5
  <2>3. m.upper * K \in Nat /\ n.upper * K \in Nat /\ borrow * K \in Nat
    BY <1>1, <1>2, <1>5
  <2>4. m.lower - n.lower = lower - borrow * K
    BY <1>5 DEF a
  <2> DEFINE p == m.upper * K
             q == n.upper * K
             r == borrow * K
             t == b * K
             x == m.lower
             y == n.lower
  <2>5. /\ t = p - q - r /\ p \in Nat /\ q \in Nat /\ r \in Nat /\ x - y = lower - r
        /\ x \in Nat /\ y \in Nat /\ lower \in Nat
    BY <1>1, <1>5, <2>2, <2>3, <2>4
  <2> HIDE DEF b, p, q, r, t, x, y
  <2>6. t + lower = (p + x) - (q + y)
    BY <2>5
  <2> QED  BY <2>1, <2>6 DEF p, q, t, x, y
<1> HIDE DEF b
<1> DEFINE e == b % K
<1>8. e \in 0..(K - 1) /\ e * K = IF b >= 0 THEN b * K ELSE b * K + K * K
  <2>1. e \in 0..(K - 1)
    BY <1>2, <1>6, <1>7
  <2>2. (b + K) * K = b * K + K * K
    BY <1>2, <1>7
  <2> QED  BY <1>6, <2>1, <2>2
<1> HIDE DEF e
<1>9. b >= 0 <=> b * K + lower >= 0
  <2>1. CASE b >= 0
    <3>1. b * K >= 0 /\ b * K \in Int
      BY <1>2, <1>7, <2>1
    <3> QED  BY <1>2, <1>5, <2>1, <3>1
  <2>2. CASE b < 0
    <3>1. -b \in Nat \ {0}
      BY <1>7, <2>2
    <3>2. (-b) * K >= K /\ (-b) * K = -(b * K) /\ b * K \in Int
      BY <1>2, <1>7, <3>1
    <3> QED  BY <1>2, <1>5, <1>7, <2>2, <3>2
  <2> QED  BY <1>7, <2>1, <2>2
<1>10. Minus128(m, n) = Pair(e, lower) /\ Pair(e, lower) \in U128
  BY <1>3, <1>5, <1>8, PairType DEF e, K
<1>11. Value128(Pair(e, lower)) = e * K + lower
  BY PairType DEF Value128, K
<1>12. /\ Value128(m) \in Nat /\ Value128(n) \in Nat
       /\ b * K + lower = Value128(m) - Value128(n)
  <2>1. Value128(m) \in Nat /\ Value128(n) \in Nat
    BY Words, Value128Is
  <2>2. (m.upper * K + m.lower) - (n.upper * K + n.lower) = Value128(m) - Value128(n)
    <3>1. Value128(m) = m.upper * K + m.lower /\ Value128(n) = n.upper * K + n.lower
      BY <1>1
    <3> QED  BY <3>1
  <2>3. b * K + lower = (m.upper * K + m.lower) - (n.upper * K + n.lower)
    BY <1>7
  <2> QED  BY <2>1, <2>2, <2>3, Zenon
<1>13. b * K \in Int /\ K * K \in Nat /\ lower \in Nat
  BY <1>2, <1>5, <1>7
<1>14. e * K + lower = IF Value128(n) <= Value128(m) THEN Value128(m) - Value128(n)
                       ELSE Value128(m) - Value128(n) + K * K
  <2> DEFINE vm == Value128(m)
             vn == Value128(n)
             x == b * K
             y == K * K
             z == e * K
  <2>1. /\ vm \in Nat /\ vn \in Nat /\ x + lower = vm - vn /\ x \in Int /\ y \in Nat /\ lower \in Nat
        /\ b >= 0 <=> x + lower >= 0
        /\ z = IF b >= 0 THEN x ELSE x + y
    BY <1>8, <1>9, <1>12, <1>13
  <2> HIDE DEF vm, vn, x, y, z
  <2>2. z + lower = IF vn <= vm THEN vm - vn ELSE vm - vn + y
    BY <2>1
  <2> QED  BY <2>2 DEF vm, vn, y, z
<1> QED  BY <1>w, <1>10, <1>11, <1>14

\* A difference of two amounts, the greater one first, is exact.
LEMMA Minus256Value ==
  ASSUME NEW m \in U256, NEW n \in U256, Value256(n) <= Value256(m)
  PROVE  Minus256(m, n) \in U256 /\ Value256(Minus256(m, n)) = Value256(m) - Value256(n)
<1> DEFINE upper == Minus128(m.upper, n.upper)
           lower == Minus128(m.lower, n.lower)
           one == Pair(0, 1)
           less == Minus128(upper, one)
           mu == Value128(m.upper)
           ml == Value128(m.lower)
           nu == Value128(n.upper)
           nl == Value128(n.lower)
           K == Word2
<1>1. /\ m.upper \in U128 /\ m.lower \in U128 /\ n.upper \in U128 /\ n.lower \in U128
      /\ Value256(m) = mu * K + ml /\ Value256(n) = nu * K + nl
  BY Value256Is
<1>2. /\ mu \in 0..(K - 1) /\ ml \in 0..(K - 1) /\ nu \in 0..(K - 1) /\ nl \in 0..(K - 1)
      /\ K \in Nat \ {0}
  BY <1>1, Value128Is, Words
<1>3. /\ upper \in U128 /\ Value128(upper) = IF nu <= mu THEN mu - nu ELSE mu - nu + K
      /\ lower \in U128 /\ Value128(lower) = IF nl <= ml THEN ml - nl ELSE ml - nl + K
  BY <1>1, Minus128Value
<1>4. one \in U128 /\ Value128(one) = 1
  <2>1. 0 \in 0..(Word - 1) /\ 1 \in 0..(Word - 1)
    BY Words
  <2>2. one \in U128 /\ Value128(one) = 0 * Word + 1
    BY <2>1, PairType, Value128Is
  <2> QED  BY <2>2, Words
<1>5. Gt128(lower, m.lower) <=> Value128(lower) > ml
  BY <1>1, <1>3, Gt128Value
<1>6. Minus256(m, n) = Pair(IF Gt128(lower, m.lower) THEN less ELSE upper, lower)
  BY DEF Minus256
<1>7. /\ less \in U128
      /\ Value128(less) = IF 1 <= Value128(upper) THEN Value128(upper) - 1
                          ELSE Value128(upper) - 1 + K
  BY <1>3, <1>4, Minus128Value
<1>8. nu <= mu
  <2>1. mu < nu => Value256(m) < Value256(n)
    BY <1>1, <1>2, HalvesOrder
  <2> HIDE DEF mu, nu
  <2>2. Value256(m) \in Nat /\ Value256(n) \in Nat
    BY Value256Is, Words
  <2> QED  BY <1>2, <2>1, <2>2
<1>9. Gt128(lower, m.lower) <=> ml < nl
  <2> HIDE DEF lower, ml, nl, K
  <2> QED  BY <1>2, <1>3, <1>5
<1>10. CASE nl <= ml
  <2>1. Minus256(m, n) = Pair(upper, lower) /\ Pair(upper, lower) \in U256
    <3>1. ~Gt128(lower, m.lower)
      BY <1>2, <1>9, <1>10
    <3> HIDE DEF upper, lower, less
    <3> QED  BY <1>3, <1>6, <3>1, PairType
  <2>2. Value256(Pair(upper, lower)) = Value128(upper) * K + Value128(lower)
    BY <1>3, <2>1, PairType, Value256Is
  <2>3. Value128(upper) = mu - nu /\ Value128(lower) = ml - nl
    BY <1>3, <1>8, <1>10
  <2>4. (mu - nu) * K + (ml - nl) = (mu * K + ml) - (nu * K + nl)
    <3> HIDE DEF mu, ml, nu, nl, K
    <3> DEFINE p == mu * K
               q == nu * K
    <3>1. (mu - nu) * K = p - q /\ p \in Nat /\ q \in Nat
      BY <1>2
    <3> HIDE DEF p, q
    <3>2. p - q + (ml - nl) = (p + ml) - (q + nl)
      BY <1>2, <3>1
    <3> QED  BY <3>1, <3>2 DEF p, q
  <2> HIDE DEF upper, lower, less, mu, ml, nu, nl, K
  <2>5. Value256(m) - Value256(n) = (mu * K + ml) - (nu * K + nl)
    <3>1. Value256(m) = mu * K + ml /\ Value256(n) = nu * K + nl
      BY <1>1
    <3> QED  BY <3>1
  <2> QED  BY <2>1, <2>2, <2>3, <2>4, <2>5, Zenon
<1>11. CASE ml < nl
  <2>1. nu < mu
    <3>1. nu = mu => Value256(m) < Value256(n)
      <4> HIDE DEF mu, ml, nu, nl, K
      <4>1. mu * K \in Nat
        BY <1>2
      <4> QED  BY <1>1, <1>2, <1>11, <4>1
    <3> HIDE DEF mu, nu
    <3>2. Value256(m) \in Nat /\ Value256(n) \in Nat
      BY Value256Is, Words
    <3> QED  BY <1>2, <1>8, <3>1, <3>2
  <2>2. Minus256(m, n) = Pair(less, lower) /\ Pair(less, lower) \in U256
    <3>1. Gt128(lower, m.lower)
      BY <1>9, <1>11
    <3> HIDE DEF upper, lower, less
    <3> QED  BY <1>3, <1>6, <1>7, <3>1, PairType
  <2>3. Value256(Pair(less, lower)) = Value128(less) * K + Value128(lower)
    BY <1>3, <1>7, <2>2, PairType, Value256Is
  <2>4. Value128(less) = mu - nu - 1 /\ Value128(lower) = ml - nl + K
    <3>1. Value128(upper) = mu - nu
      BY <1>3, <1>8
    <3>2. Value128(lower) = ml - nl + K
      <4> HIDE DEF lower, ml, nl, K
      <4> QED  BY <1>2, <1>3, <1>11
    <3> HIDE DEF upper, lower, less, mu, nu, ml, nl, K
    <3> QED  BY <1>2, <1>7, <2>1, <3>1, <3>2
  <2>5. (mu - nu - 1) * K + (ml - nl + K) = (mu * K + ml) - (nu * K + nl)
    <3> HIDE DEF mu, ml, nu, nl, K
    <3> DEFINE p == mu * K
               q == nu * K
    <3>1. (mu - nu - 1) * K = p - q - K /\ p \in Nat /\ q \in Nat
      BY <1>2
    <3> HIDE DEF p, q
    <3>2. p - q - K + (ml - nl + K) = (p + ml) - (q + nl)
      BY <1>2, <3>1
    <3> QED  BY <3>1, <3>2 DEF p, q
  <2> HIDE DEF upper, lower, less, mu, ml, nu, nl, K
  <2>6. Value256(m) - Value256(n) = (mu * K + ml) - (nu * K + nl)
    <3>1. Value256(m) = mu * K + ml /\ Value256(n) = nu * K + nl
      BY <1>1
    <3> QED  BY <3>1
  <2> QED  BY <2>2, <2>3, <2>4, <2>5, <2>6, Zenon
<1> QED
  <2>1. nl <= ml \/ ml < nl
    <3> HIDE DEF nl, ml
    <3> QED  BY <1>2
  <2> QED  BY <1>10, <1>11, <2>1

(***************************************************************************)
(* Shifts: divisions by powers of two, and products modulo the size        *)
(***************************************************************************)
LEMMA PowerProduct ==
  ASSUME NEW k \in Nat, NEW s \in Nat, s <= k
  PROVE  Product(Power(2, k), Power(2, s), Power(2, k - s))
<1>1. s \in Nat /\ k - s \in Nat /\ s + (k - s) = k
  OBVIOUS
<1>2. Power(2, k) = Power(2, s) * Power(2, k - s)
  BY <1>1, PowerSum
<1>3. Power(2, k) \in Nat \ {0} /\ Power(2, s) \in Nat \ {0} /\ Power(2, k - s) \in Nat \ {0}
  BY <1>1, Double
<1> QED  BY <1>2, <1>3 DEF Product

Shifts128 == 0..(2 * WordBits)

LEMMA Shiftr128Value ==
  ASSUME NEW n \in U128, NEW s \in Shifts128
  PROVE  /\ Shiftr128(n, s) \in U128
         /\ Value128(Shiftr128(n, s)) = Value128(n) \div Power(2, s)
<1> DEFINE K == Word
           u == n.upper
           l == n.lower
<1>1. /\ WordBits \in Nat /\ s \in Nat /\ s <= 2 * WordBits /\ K \in Nat \ {0}
      /\ K = Power(2, WordBits)
  BY Words DEF Shifts128
<1>2. u \in 0..(K - 1) /\ l \in 0..(K - 1) /\ Value128(n) = u * K + l
  BY Value128Is
<1>3. CASE s < WordBits
  <2> DEFINE S == Power(2, s)
             T == Power(2, WordBits - s)
             x == ((u * T) % K) + (l \div S)
  <2>1. Product(K, S, T) /\ S \in Nat \ {0}
    BY <1>1, <1>3, PowerProduct, Double
  <2>2. Shiftr128(n, s) = Pair(u \div S, x % K)
    BY <1>3 DEF Shiftr128, Shl, Shr
  <2> HIDE DEF S, T, K, u, l
  <2>3. x \in 0..(K - 1) /\ (u * K + l) \div S = (u \div S) * K + x
    <3>1. GoRight(u, l, K, S, T)
      <4>1. Halves(u, l, K)
        BY <1>2 DEF Halves
      <4> QED  BY <2>1, <4>1, HalvesRight
    <3> QED  BY <3>1 DEF GoRight, ShiftedRight
  <2> HIDE DEF x
  <2>4. x % K = x
    BY <1>1, <2>3
  <2>5. u \div S \in 0..(K - 1)
    BY <1>1, <1>2, <2>1, QuotientLess
  <2>6. Pair(u \div S, x) \in U128 /\ Value128(Pair(u \div S, x)) = (u \div S) * K + x
    BY <2>3, <2>5, PairType DEF K, Value128
  <2> QED  BY <1>2, <2>2, <2>3, <2>4, <2>6 DEF S
<1>4. CASE s >= WordBits
  <2> DEFINE J == Power(2, s - WordBits)
  <2>1. Power(2, s) = K * J /\ J \in Nat \ {0}
    <3>1. Power(2, s) = Power(2, WordBits) * J /\ J \in Nat \ {0}
      BY <1>1, <1>4, PowerSplit
    <3> QED  BY <1>1, <3>1
  <2>2. Shiftr128(n, s) = Pair(0, u \div J)
    BY <1>1, <1>4 DEF Shiftr128, Shr
  <2> HIDE DEF J, K, u, l
  <2>3. (u * K + l) \div (K * J) = u \div J
    BY <1>1, <1>2, <2>1, HalvesRightFar
  <2>4. u \div J \in 0..(K - 1)
    BY <1>1, <1>2, <2>1, QuotientLess
  <2>5. Pair(0, u \div J) \in U128 /\ Value128(Pair(0, u \div J)) = 0 * K + (u \div J)
    <3>1. 0 \in 0..(K - 1)
      BY <1>1
    <3> QED  BY <2>4, <3>1, PairType DEF K, Value128
  <2>6. 0 * K + (u \div J) = u \div J
    BY <1>1, <2>4
  <2> QED  BY <1>2, <2>1, <2>2, <2>3, <2>5, <2>6
<1> QED  BY <1>1, <1>3, <1>4

LEMMA Shiftl128Value ==
  ASSUME NEW n \in U128, NEW s \in Shifts128
  PROVE  /\ Shiftl128(n, s) \in U128
         /\ Value128(Shiftl128(n, s)) = (Value128(n) * Power(2, s)) % Word2
<1> DEFINE K == Word
           u == n.upper
           l == n.lower
<1>1. /\ WordBits \in Nat /\ s \in Nat /\ s <= 2 * WordBits /\ K \in Nat \ {0}
      /\ K = Power(2, WordBits) /\ Word2 = K * K
  BY Words DEF Shifts128, Word2
<1>2. u \in 0..(K - 1) /\ l \in 0..(K - 1) /\ Value128(n) = u * K + l
  BY Value128Is
<1>3. CASE s < WordBits
  <2> DEFINE S == Power(2, s)
             T == Power(2, WordBits - s)
             x == ((u * S) % K) + (l \div T)
             y == (l * S) % K
  <2>1. Product(K, S, T)
    BY <1>1, <1>3, PowerProduct
  <2>2. Shiftl128(n, s) = Pair(x % K, y)
    BY <1>3 DEF Shiftl128, Shl, Shr
  <2> HIDE DEF S, T, K, u, l
  <2>3. x \in 0..(K - 1) /\ y \in 0..(K - 1) /\ ((u * K + l) * S) % (K * K) = x * K + y
    <3>1. GoLeft(u, l, K, S, T)
      <4>1. Halves(u, l, K)
        BY <1>2 DEF Halves
      <4> QED  BY <2>1, <4>1, HalvesLeft
    <3> QED  BY <3>1 DEF GoLeft, ShiftedLeft
  <2> HIDE DEF x, y
  <2>k. K \in Nat \ {0}
    BY <1>1
  <2>4. x % K = x
    BY <2>k, <2>3
  <2>5. Pair(x, y) \in U128 /\ Value128(Pair(x, y)) = x * K + y
    BY <2>3, PairType DEF K, Value128
  <2> QED  BY <1>1, <1>2, <2>2, <2>3, <2>4, <2>5 DEF S
<1>4. CASE s >= WordBits
  <2> DEFINE J == Power(2, s - WordBits)
             x == (l * J) % K
  <2>1. Power(2, s) = K * J /\ J \in Nat \ {0}
    <3>1. Power(2, s) = Power(2, WordBits) * J /\ J \in Nat \ {0}
      BY <1>1, <1>4, PowerSplit
    <3> QED  BY <1>1, <3>1
  <2>2. Shiftl128(n, s) = Pair(x, 0)
    BY <1>1, <1>4 DEF Shiftl128, Shl
  <2> HIDE DEF J, K, u, l
  <2>3. x \in 0..(K - 1) /\ ((u * K + l) * (K * J)) % (K * K) = x * K
    <3>1. Halves(u, l, K) /\ J \in Nat \ {0} /\ K \in Nat \ {0}
      BY <1>1, <1>2, <2>1 DEF Halves
    <3>2. GoLeftFar(u, l, K, J)
      BY <3>1, HalvesGoLeftFar
    <3> QED  BY <3>2 DEF GoLeftFar
  <2> HIDE DEF x
  <2>4. Pair(x, 0) \in U128 /\ Value128(Pair(x, 0)) = x * K + 0
    <3>1. 0 \in 0..(K - 1)
      BY <1>1
    <3> QED  BY <2>3, <3>1, PairType DEF K, Value128
  <2>5. x * K + 0 = x * K
    BY <1>1, <2>3
  <2> QED  BY <1>1, <1>2, <2>1, <2>2, <2>3, <2>4, <2>5
<1> QED  BY <1>1, <1>3, <1>4

Shifts256 == 0..(4 * WordBits)

LEMMA ClearValue ==
  /\ Clear128 \in U128 /\ Value128(Clear128) = 0
  /\ Clear256 \in U256 /\ Value256(Clear256) = 0
<1>1. Clear128 \in U128 /\ Value128(Clear128) = 0 * Word + 0
  <2>1. 0 \in 0..(Word - 1)
    BY Words
  <2> QED  BY <2>1, PairType DEF Clear128, Value128
<1>2. Value128(Clear128) = 0
  BY <1>1, Words
<1>3. Clear256 \in U256 /\ Clear256.upper = Clear128 /\ Clear256.lower = Clear128
  BY <1>1, PairType DEF Clear256
<1>4. Value256(Clear256) = 0 * Word2 + 0
  BY <1>2, <1>3, Value256Is
<1> QED  BY <1>1, <1>2, <1>3, <1>4, Words

\* A shift to the right divides by a power of two.
LEMMA Shiftr256Value ==
  ASSUME NEW n \in U256, NEW s \in Shifts256
  PROVE  /\ Shiftr256(n, s) \in U256
         /\ Value256(Shiftr256(n, s)) = Value256(n) \div Power(2, s)
<1> DEFINE K == Word2
           B == 2 * WordBits
           u == Value128(n.upper)
           l == Value128(n.lower)
<1>1. /\ B \in Nat /\ s \in Nat /\ s <= 2 * B /\ K \in Nat \ {0} /\ K = Power(2, B)
      /\ Shifts128 = 0..B
  BY Words DEF Shifts128, Shifts256
<1>2. n.upper \in U128 /\ n.lower \in U128 /\ Value256(n) = u * K + l
  BY Value256Is
<1>3. u \in 0..(K - 1) /\ l \in 0..(K - 1)
  BY <1>2, Value128Is
<1>4. CASE s < B
  <2> DEFINE S == Power(2, s)
             T == Power(2, B - s)
             x == ((u * T) % K) + (l \div S)
             a == Shiftr128(n.lower, s)
             b == Shiftl128(n.upper, B - s)
             c == Shiftr128(n.upper, s)
  <2>1. Product(K, S, T) /\ S \in Nat \ {0}
    BY <1>1, <1>4, PowerProduct, Double
  <2>2. Shiftr256(n, s) = Pair(c, Add128(a, b))
    BY <1>4 DEF Shiftr256
  <2>3. s \in Shifts128 /\ B - s \in Shifts128
    BY <1>1, <1>4
  <2>4. /\ a \in U128 /\ b \in U128 /\ c \in U128
        /\ Value128(a) = l \div S /\ Value128(b) = (u * T) % K /\ Value128(c) = u \div S
    BY <1>2, <2>3, Shiftr128Value, Shiftl128Value
  <2> HIDE DEF S, T, K, u, l, B, a, b, c
  <2>5. x \in 0..(K - 1) /\ (u * K + l) \div S = (u \div S) * K + x
    <3>1. GoRight(u, l, K, S, T)
      <4>1. Halves(u, l, K)
        BY <1>3 DEF Halves
      <4> QED  BY <2>1, <4>1, HalvesRight
    <3> QED  BY <3>1 DEF GoRight, ShiftedRight
  <2>6. Value128(a) + Value128(b) = x
    <3>1. l \div S \in Nat
      BY <1>1, <1>3, <2>1, DivMod
    <3>2. (u * T) % K \in Nat
      <4>1. u * T \in Nat
        BY <1>1, <1>3, <2>1 DEF Product
      <4> QED  BY <1>1, <4>1, DivMod
    <3> QED  BY <2>4, <3>1, <3>2
  <2>7. Add128(a, b) \in U128 /\ Value128(Add128(a, b)) = x
    <3>1. Value128(a) + Value128(b) < Word2
      BY <1>1, <2>5, <2>6 DEF K
    <3> QED  BY <2>4, <2>6, <3>1, Add128Value
  <2>8. Pair(c, Add128(a, b)) \in U256
    BY <2>4, <2>7, PairType
  <2>9. Value256(Pair(c, Add128(a, b))) = (u \div S) * K + x
    BY <2>4, <2>7, <2>8, PairType, Value256Is DEF K
  <2> QED  BY <1>2, <2>2, <2>5, <2>8, <2>9 DEF S
<1>5. CASE s >= B
  <2> DEFINE J == Power(2, s - B)
             c == Shiftr128(n.upper, s - B)
  <2>1. Power(2, s) = K * J /\ J \in Nat \ {0}
    <3>1. Power(2, s) = Power(2, B) * J /\ J \in Nat \ {0}
      BY <1>1, <1>5, PowerSplit
    <3> QED  BY <1>1, <3>1
  <2>2. Shiftr256(n, s) = Pair(Clear128, c)
    BY <1>1, <1>5 DEF Shiftr256
  <2>3. c \in U128 /\ Value128(c) = u \div J
    <3>1. s - B \in Shifts128
      BY <1>1, <1>5
    <3> QED  BY <1>2, <3>1, Shiftr128Value
  <2> HIDE DEF J, K, u, l, c, B
  <2>4. (u * K + l) \div (K * J) = u \div J
    BY <1>1, <1>3, <2>1, HalvesRightFar
  <2>5. Pair(Clear128, c) \in U256 /\ Value256(Pair(Clear128, c)) = 0 * K + Value128(c)
    BY <2>3, ClearValue, PairType, Value256Is DEF K
  <2>6. 0 * K + Value128(c) = Value128(c)
    BY <1>1, <2>3, Value128Is, Words
  <2> QED  BY <1>2, <2>1, <2>2, <2>3, <2>4, <2>5, <2>6
<1> QED  BY <1>1, <1>4, <1>5

\* A shift to the left multiplies by a power of two, and loses what does not fit.
LEMMA Shiftl256Value ==
  ASSUME NEW n \in U256, NEW s \in Shifts256
  PROVE  /\ Shiftl256(n, s) \in U256
         /\ Value256(Shiftl256(n, s)) = (Value256(n) * Power(2, s)) % (Word2 * Word2)
<1> DEFINE K == Word2
           B == 2 * WordBits
           u == Value128(n.upper)
           l == Value128(n.lower)
<1>1. /\ B \in Nat /\ s \in Nat /\ s <= 2 * B /\ K \in Nat \ {0} /\ K = Power(2, B)
      /\ Shifts128 = 0..B
  BY Words DEF Shifts128, Shifts256
<1>2. n.upper \in U128 /\ n.lower \in U128 /\ Value256(n) = u * K + l
  BY Value256Is
<1>3. u \in 0..(K - 1) /\ l \in 0..(K - 1)
  BY <1>2, Value128Is
<1>4. CASE s < B
  <2> DEFINE S == Power(2, s)
             T == Power(2, B - s)
             x == ((u * S) % K) + (l \div T)
             y == (l * S) % K
             a == Shiftl128(n.upper, s)
             b == Shiftr128(n.lower, B - s)
             c == Shiftl128(n.lower, s)
  <2>1. Product(K, S, T) /\ S \in Nat \ {0} /\ T \in Nat \ {0}
    <3>1. Product(K, S, T)
      BY <1>1, <1>4, PowerProduct
    <3> QED  BY <3>1 DEF Product
  <2>2. Shiftl256(n, s) = Pair(Add128(a, b), c)
    BY <1>4 DEF Shiftl256
  <2>3. s \in Shifts128 /\ B - s \in Shifts128
    BY <1>1, <1>4
  <2>4. /\ a \in U128 /\ b \in U128 /\ c \in U128
        /\ Value128(a) = (u * S) % K /\ Value128(b) = l \div T /\ Value128(c) = y
    BY <1>2, <2>3, Shiftr128Value, Shiftl128Value
  <2> HIDE DEF S, T, K, u, l, B, a, b, c
  <2>5. x \in 0..(K - 1) /\ y \in 0..(K - 1) /\ ((u * K + l) * S) % (K * K) = x * K + y
    <3>1. GoLeft(u, l, K, S, T)
      <4>1. Halves(u, l, K)
        BY <1>3 DEF Halves
      <4> QED  BY <2>1, <4>1, HalvesLeft
    <3> QED  BY <3>1 DEF GoLeft, ShiftedLeft
  <2>6. Value128(a) + Value128(b) = x
    <3>1. l \div T \in Nat
      BY <1>1, <1>3, <2>1, DivMod
    <3>2. (u * S) % K \in Nat
      <4>1. u * S \in Nat
        BY <1>1, <1>3, <2>1 DEF Product
      <4> QED  BY <1>1, <4>1, DivMod
    <3> QED  BY <2>4, <3>1, <3>2
  <2>7. Add128(a, b) \in U128 /\ Value128(Add128(a, b)) = x
    <3>1. Value128(a) + Value128(b) < Word2
      BY <1>1, <2>5, <2>6 DEF K
    <3> QED  BY <2>4, <2>6, <3>1, Add128Value
  <2>8. Pair(Add128(a, b), c) \in U256
    BY <2>4, <2>7, PairType
  <2>9. Value256(Pair(Add128(a, b), c)) = x * K + y
    BY <2>4, <2>7, <2>8, PairType, Value256Is DEF K
  <2> QED  BY <1>2, <2>2, <2>5, <2>8, <2>9 DEF S, K
<1>5. CASE s >= B
  <2> DEFINE J == Power(2, s - B)
             c == Shiftl128(n.lower, s - B)
  <2>1. Power(2, s) = K * J /\ J \in Nat \ {0}
    <3>1. Power(2, s) = Power(2, B) * J /\ J \in Nat \ {0}
      BY <1>1, <1>5, PowerSplit
    <3> QED  BY <1>1, <3>1
  <2>2. Shiftl256(n, s) = Pair(c, Clear128)
    BY <1>1, <1>5 DEF Shiftl256
  <2>3. c \in U128 /\ Value128(c) = (l * J) % K
    <3>1. s - B \in Shifts128
      BY <1>1, <1>5
    <3> QED  BY <1>2, <3>1, Shiftl128Value
  <2> HIDE DEF J, K, u, l, c, B
  <2>4. ((u * K + l) * (K * J)) % (K * K) = ((l * J) % K) * K
    <3>1. Halves(u, l, K) /\ J \in Nat \ {0} /\ K \in Nat \ {0}
      BY <1>1, <1>3, <2>1 DEF Halves
    <3>2. GoLeftFar(u, l, K, J)
      BY <3>1, HalvesGoLeftFar
    <3> QED  BY <3>2 DEF GoLeftFar
  <2>5. Pair(c, Clear128) \in U256 /\ Value256(Pair(c, Clear128)) = Value128(c) * K + 0
    BY <2>3, ClearValue, PairType, Value256Is DEF K
  <2>6. Value128(c) * K + 0 = Value128(c) * K
    <3>1. Value128(c) \in Nat
      BY <2>3, Value128Is, Words
    <3> QED  BY <1>1, <3>1
  <2> QED  BY <1>2, <2>1, <2>2, <2>3, <2>4, <2>5, <2>6 DEF K
<1> QED  BY <1>1, <1>4, <1>5

(***************************************************************************)
(* Numbers from words and from bytes                                       *)
(***************************************************************************)
LEMMA SmallValue ==
  ASSUME NEW w \in 0..(Word - 1)
  PROVE  Small(w) \in U256 /\ Value256(Small(w)) = w
<1>1. 0 \in 0..(Word - 1) /\ Word \in Nat /\ Word2 \in Nat /\ w \in Nat
  BY Words
<1>2. Pair(0, w) \in U128 /\ Pair(0, w).upper = 0 /\ Pair(0, w).lower = w
  BY <1>1, PairType
<1>3. Value128(Pair(0, w)) = 0 * Word + w
  BY <1>2, Value128Is
<1>4. Value128(Pair(0, w)) = w
  BY <1>1, <1>3
<1>5. /\ Small(w) \in U256 /\ Small(w).upper = Clear128
      /\ Small(w).lower = Pair(0, w)
  BY <1>2, ClearValue, PairType DEF Small
<1>6. Value256(Small(w)) = 0 * Word2 + w
  BY <1>4, <1>5, ClearValue, Value256Is
<1> QED  BY <1>1, <1>5, <1>6

LEMMA ZeroValue ==
  ASSUME NEW n \in U256
  PROVE  Zero256(n) <=> Value256(n) = 0
BY ClearValue, Gt256Value DEF Zero256

LEMMA HalvesOf ==
  ASSUME NEW K \in Nat \ {0}, NEW k \in 0..(K * K - 1)
  PROVE  /\ k \div K \in 0..(K - 1) /\ k % K \in 0..(K - 1)
         /\ (k \div K) * K + (k % K) = k
<1> DEFINE q == k \div K
           r == k % K
<1>1. k \in Nat /\ k < K * K
  OBVIOUS
<1>2. q \in Nat /\ r \in Nat /\ r < K /\ k = K * q + r
  BY <1>1, DivMod
<1> HIDE DEF q, r
<1>3. K * q = q * K
  BY <1>2
<1>4. q < K
  <2>1. SUFFICES ASSUME K <= q PROVE FALSE
    BY <1>2
  <2>2. K < q + 1 /\ q + 1 \in Nat
    BY <1>2, <2>1
  <2>3. K * K + K <= (q + 1) * K
    BY <2>2, TimesLess
  <2>4. (q + 1) * K = q * K + K /\ q * K \in Nat /\ K * K \in Nat
    BY <1>2
  <2> QED  BY <1>1, <1>2, <1>3, <2>3, <2>4
<1> QED  BY <1>2, <1>3, <1>4 DEF q, r

LEMMA Read128Value ==
  ASSUME NEW k \in 0..(Word2 - 1)
  PROVE  Read128(k) \in U128 /\ Value128(Read128(k)) = k
<1>1. Word \in Nat \ {0} /\ k \in 0..(Word * Word - 1)
  BY Words DEF Word2
<1>2. /\ k \div Word \in 0..(Word - 1) /\ k % Word \in 0..(Word - 1)
      /\ (k \div Word) * Word + (k % Word) = k
  BY <1>1, HalvesOf
<1> QED  BY <1>2, PairType DEF Read128, Value128

LEMMA Sizes256 ==
  /\ Power(Word, 4) = Word2 * Word2
  /\ Word2 * Word2 = Power(2, 4 * WordBits)
<1>1. Word \in Nat
  BY Words
<1>2. Power(Word, 2) = Word2
  <2>1. Power(Word, 1 + 1) = Word * Power(Word, 1) /\ Power(Word, 0 + 1) = Word * Power(Word, 0)
        /\ Power(Word, 0) = 1
    BY <1>1, PowerLaw
  <2>2. Word * 1 = Word /\ 1 + 1 = 2 /\ 0 + 1 = 1
    BY <1>1
  <2> QED  BY <2>1, <2>2 DEF Word2
<1>3. Power(Word, 2 + 2) = Power(Word, 2) * Power(Word, 2)
  BY <1>1, PowerSum
<1>4. 2 * WordBits \in Nat /\ 2 * WordBits + 2 * WordBits = 4 * WordBits
  BY Words
<1>5. Power(2, 2 * WordBits + 2 * WordBits) = Power(2, 2 * WordBits) * Power(2, 2 * WordBits)
  BY <1>4, PowerSum
<1> QED  BY <1>2, <1>3, <1>4, <1>5, Words

\* The bytes of a number give its value.
LEMMA Read256Value ==
  ASSUME NEW k \in 0..(Power(Word, 4) - 1)
  PROVE  Read256(k) \in U256 /\ Value256(Read256(k)) = k
<1>1. Word2 \in Nat \ {0} /\ k \in 0..(Word2 * Word2 - 1)
  BY Words, Sizes256
<1>2. /\ k \div Word2 \in 0..(Word2 - 1) /\ k % Word2 \in 0..(Word2 - 1)
      /\ (k \div Word2) * Word2 + (k % Word2) = k
  BY <1>1, HalvesOf
<1>3. Read256(k) = Pair(Read128(k \div Word2), Read128(k % Word2))
  BY DEF Read256, Word2
<1>4. /\ Read128(k \div Word2) \in U128 /\ Value128(Read128(k \div Word2)) = k \div Word2
      /\ Read128(k % Word2) \in U128 /\ Value128(Read128(k % Word2)) = k % Word2
  BY <1>2, Read128Value
<1>5. Read256(k) \in U256
  BY <1>3, <1>4, PairType
<1>6. Value256(Read256(k)) = (k \div Word2) * Word2 + (k % Word2)
  BY <1>3, <1>4, <1>5, PairType, Value256Is
<1> QED  BY <1>2, <1>5, <1>6

(***************************************************************************)
(* The bits of a number                                                    *)
(***************************************************************************)
\* b is how many bits v has, up to the highest that is set.
BitsAre(v, b) == b \in Nat /\ v < Power(2, b) /\ (b > 0 => v >= Power(2, b - 1))

LEMMA BitsOfWord ==
  ASSUME NEW w \in 0..(Word - 1)
  PROVE  Bits(w) \in 0..WordBits /\ BitsAre(w, Bits(w))
<1> DEFINE Is(n) == w < Power(2, n) /\ (n > 0 => w >= Power(2, n - 1))
           S == {m \in Nat : w < Power(2, m) => \E n \in 0..m : Is(n)}
<1>1. w \in Nat /\ WordBits \in Nat /\ w < Power(2, WordBits)
  BY Words
<1>2. 0 \in S
  OBVIOUS
<1>3. ASSUME NEW m \in Nat, m \in S PROVE m + 1 \in S
  <2>1. CASE w < Power(2, m)
    <3>1. PICK n \in 0..m : Is(n)
      BY <1>3, <2>1
    <3>2. n \in 0..(m + 1)
      OBVIOUS
    <3> QED  BY <3>1, <3>2
  <2>2. CASE ~(w < Power(2, m))
    <3>1. m + 1 \in 0..(m + 1) /\ m + 1 - 1 = m
      OBVIOUS
    <3>2. w >= Power(2, m)
      BY <1>1, <2>2, Double
    <3> QED  BY <3>1, <3>2
  <2> QED  BY <2>1, <2>2
<1> HIDE DEF S
<1>4. WordBits \in S
  BY <1>1, <1>2, <1>3, SetInduction
<1>5. \E n \in 0..WordBits : Is(n)
  BY <1>1, <1>4 DEF S
<1>6. Bits(w) \in 0..WordBits /\ Is(Bits(w))
  BY <1>5 DEF Bits
<1>7. Bits(w) \in Nat
  BY <1>1, <1>6
<1> QED  BY <1>6, <1>7 DEF BitsAre

LEMMA BitsOfHalves ==
  ASSUME NEW k \in Nat, NEW u, NEW l, Halves(u, l, Power(2, k)), u # 0,
         NEW b, BitsAre(u, b)
  PROVE  BitsAre(u * Power(2, k) + l, k + b)
<1> DEFINE K == Power(2, k)
           X == Power(2, b - 1)
           v == u * K + l
<1>1. u \in Nat \ {0} /\ l \in Nat /\ l < K /\ K \in Nat \ {0}
  BY Double DEF Halves
<1>2. b \in Nat /\ b > 0 /\ u < Power(2, b) /\ u >= X
  <2>1. b \in Nat /\ u < Power(2, b) /\ (b > 0 => u >= X)
    BY DEF BitsAre
  <2>2. b # 0
    BY <1>1, <2>1, PowerLaw
  <2> QED  BY <2>1, <2>2
<1>3. b - 1 \in Nat /\ k + b \in Nat /\ k + b > 0 /\ k + b - 1 = k + (b - 1)
  BY <1>2
<1>4. Power(2, k + b) = K * Power(2, b) /\ Power(2, k + (b - 1)) = K * X
  BY <1>2, <1>3, PowerSum
<1>5. X \in Nat \ {0} /\ Power(2, b) \in Nat \ {0}
  BY <1>2, <1>3, Double
<1> DEFINE Y == Power(2, b)
<1>6. v < K * Y
  <2> HIDE DEF K, Y, X
  <2>1. u * K + K <= Y * K
    BY <1>1, <1>2, <1>5, TimesLess DEF Y
  <2>2. Y * K = K * Y /\ u * K \in Nat /\ K * Y \in Nat
    BY <1>1, <1>5 DEF Y
  <2> QED  BY <1>1, <2>1, <2>2
<1>7. v >= K * X
  <2> HIDE DEF K, Y, X
  <2>1. u - X \in Nat /\ u = X + (u - X)
    BY <1>1, <1>2, <1>5
  <2>2. ASSUME NEW c \in Nat PROVE (X + c) * K = K * X + c * K /\ c * K \in Nat /\ K * X \in Nat
    BY <1>1, <1>5
  <2>3. u * K = K * X + (u - X) * K /\ (u - X) * K \in Nat /\ K * X \in Nat
    BY <2>1, <2>2
  <2> QED  BY <1>1, <2>3
<1> QED  BY <1>3, <1>4, <1>6, <1>7 DEF BitsAre

LEMMA Bits128Value ==
  ASSUME NEW n \in U128
  PROVE  Bits128(n) \in 0..(2 * WordBits) /\ BitsAre(Value128(n), Bits128(n))
<1>1. /\ n.upper \in 0..(Word - 1) /\ n.lower \in 0..(Word - 1)
      /\ Value128(n) = n.upper * Word + n.lower
      /\ WordBits \in Nat /\ Word \in Nat \ {0} /\ Word = Power(2, WordBits)
  BY Value128Is, Words
<1>2. CASE n.upper # 0
  <2>1. Bits128(n) = WordBits + Bits(n.upper)
    BY <1>2 DEF Bits128
  <2>2. Bits(n.upper) \in 0..WordBits /\ BitsAre(n.upper, Bits(n.upper))
    BY <1>1, BitsOfWord
  <2>3. Halves(n.upper, n.lower, Power(2, WordBits))
    BY <1>1 DEF Halves
  <2>4. BitsAre(n.upper * Power(2, WordBits) + n.lower, WordBits + Bits(n.upper))
    BY <1>1, <1>2, <2>2, <2>3, BitsOfHalves
  <2> QED  BY <1>1, <2>1, <2>2, <2>4
<1>3. CASE n.upper = 0
  <2>1. Bits128(n) = Bits(n.lower)
    BY <1>3 DEF Bits128
  <2>2. Bits(n.lower) \in 0..WordBits /\ BitsAre(n.lower, Bits(n.lower))
    BY <1>1, BitsOfWord
  <2>3. Value128(n) = n.lower
    BY <1>1, <1>3
  <2> QED  BY <1>1, <2>1, <2>2, <2>3
<1> QED  BY <1>2, <1>3

LEMMA Bits256Value ==
  ASSUME NEW n \in U256
  PROVE  Bits256(n) \in Shifts256 /\ BitsAre(Value256(n), Bits256(n))
<1> DEFINE u == Value128(n.upper)
           l == Value128(n.lower)
           B == 2 * WordBits
<1>1. /\ n.upper \in U128 /\ n.lower \in U128 /\ Value256(n) = u * Word2 + l
      /\ B \in Nat /\ WordBits \in Nat /\ Word2 \in Nat \ {0} /\ Word2 = Power(2, B)
  BY Value256Is, Words
<1>2. u \in 0..(Word2 - 1) /\ l \in 0..(Word2 - 1)
  BY <1>1, Value128Is
<1>3. CASE n.upper # Clear128
  <2>1. Bits256(n) = B + Bits128(n.upper)
    BY <1>3 DEF Bits256
  <2>2. Bits128(n.upper) \in 0..B /\ BitsAre(u, Bits128(n.upper))
    BY <1>1, Bits128Value
  <2>3. u # 0
    BY <1>1, <1>3, ClearValue, Gt128Value
  <2>4. Halves(u, l, Power(2, B))
    BY <1>1, <1>2 DEF Halves
  <2>5. BitsAre(u * Power(2, B) + l, B + Bits128(n.upper))
    BY <1>1, <2>2, <2>3, <2>4, BitsOfHalves
  <2>6. B + Bits128(n.upper) \in Shifts256
    BY <1>1, <2>2 DEF Shifts256
  <2> HIDE DEF B, u, l
  <2> QED  BY <1>1, <2>1, <2>5, <2>6
<1>4. CASE n.upper = Clear128
  <2>1. Bits256(n) = Bits128(n.lower)
    BY <1>4 DEF Bits256
  <2>2. Bits128(n.lower) \in 0..B /\ BitsAre(l, Bits128(n.lower))
    BY <1>1, Bits128Value
  <2>3. u = 0
    BY <1>4, ClearValue
  <2>4. Value256(n) = l
    <3> HIDE DEF u, l
    <3> QED  BY <1>1, <1>2, <2>3
  <2>5. Bits128(n.lower) \in Shifts256
    BY <1>1, <2>2 DEF Shifts256
  <2> HIDE DEF B, u, l
  <2> QED  BY <2>1, <2>2, <2>4, <2>5
<1> QED  BY <1>3, <1>4

(***************************************************************************)
(* Or: a sum where no bit is set in both                                   *)
(***************************************************************************)
LowBits(low, v, w) ==
  /\ low[0] = 0
  /\ \A i \in 0..(WordBits - 1) :
       low[i + 1] = low[i] + Power(2, i) * (IF Bit(v, i) + Bit(w, i) > 0 THEN 1 ELSE 0)

LEMMA OrWordIs ==
  ASSUME NEW v, NEW w
  PROVE  \E low : LowBits(low, v, w) /\ OrWord(v, w) = low[WordBits]
<1> DEFINE add == [i \in Nat |-> Power(2, i) * (IF Bit(v, i) + Bit(w, i) > 0 THEN 1 ELSE 0)]
           step == [i \in Nat |-> [x \in Nat |-> x + add[i]]]
           Defines(f) ==
             f = [i \in 0..WordBits |->
                    IF i = 0 THEN 0
                    ELSE f[i - 1] + Power(2, i - 1) *
                           (IF Bit(v, i - 1) + Bit(w, i - 1) > 0 THEN 1 ELSE 0)]
           low == CHOOSE f : Defines(f)
<1>1. WordBits \in Nat
  BY Words
<1>2. ASSUME NEW i \in Nat PROVE add[i] \in Nat
  BY Double
<1>3. PICK h : h \in [Nat -> Nat] /\ Follows(h, 0, step)
  <2>1. step \in [Nat -> [Nat -> Nat]]
    <3> HIDE DEF add
    <3> QED  BY <1>2
  <2> QED  BY <2>1, Recursion
<1>4. h[0] = 0 /\ \A i \in Nat : h[i + 1] = h[i] + add[i]
  BY <1>3 DEF Follows
<1> DEFINE f == [i \in 0..WordBits |-> h[i]]
<1>5. Defines(f)
  <2>1. ASSUME NEW i \in 0..WordBits
        PROVE  f[i] = IF i = 0 THEN 0
                      ELSE f[i - 1] + Power(2, i - 1) *
                             (IF Bit(v, i - 1) + Bit(w, i - 1) > 0 THEN 1 ELSE 0)
    <3>1. CASE i = 0
      BY <1>4, <3>1
    <3>2. CASE i # 0
      <4>1. i - 1 \in Nat /\ i - 1 \in 0..WordBits /\ i - 1 + 1 = i
        BY <1>1, <3>2
      <4>2. h[i] = h[i - 1] + add[i - 1]
        BY <1>4, <4>1
      <4>3. f[i] = h[i] /\ f[i - 1] = h[i - 1]
        BY <4>1
      <4>4. add[i - 1] = Power(2, i - 1) * (IF Bit(v, i - 1) + Bit(w, i - 1) > 0 THEN 1 ELSE 0)
        BY <4>1
      <4> HIDE DEF f, add
      <4> QED  BY <3>2, <4>2, <4>3, <4>4
    <3> QED  BY <3>1, <3>2
  <2> QED  BY <2>1
<1> HIDE DEF f, add
<1>6. OrWord(v, w) = low[WordBits]
  BY DEF OrWord
<1> HIDE DEF Defines
<1>7. Defines(low)
  BY <1>5
<1> HIDE DEF low
<1>8. \A i \in 0..WordBits :
        low[i] = IF i = 0 THEN 0
                 ELSE low[i - 1] + Power(2, i - 1) *
                        (IF Bit(v, i - 1) + Bit(w, i - 1) > 0 THEN 1 ELSE 0)
  BY <1>7 DEF Defines
<1>9. low[0] = 0
  BY <1>1, <1>8
<1>10. ASSUME NEW i \in 0..(WordBits - 1)
       PROVE  low[i + 1] = low[i] + Power(2, i) * (IF Bit(v, i) + Bit(w, i) > 0 THEN 1 ELSE 0)
  <2>1. i + 1 \in 0..WordBits /\ i + 1 # 0 /\ i + 1 - 1 = i
    BY <1>1
  <2> QED  BY <1>8, <2>1
<1> QED  BY <1>6, <1>9, <1>10 DEF LowBits

LEMMA NextBit ==
  ASSUME NEW v \in Nat, NEW i \in Nat
  PROVE  /\ Bit(v, i) \in {0, 1}
         /\ v % Power(2, i) \in Nat /\ v % Power(2, i) < Power(2, i)
         /\ v % Power(2, i + 1) = (v % Power(2, i)) + Power(2, i) * Bit(v, i)
<1> DEFINE P == Power(2, i)
           q == v \div P
           r == v % P
           b == q % 2
           h == q \div 2
<1>1. P \in Nat \ {0} /\ Power(2, i + 1) = 2 * P
  BY Double
<1>2. q \in Nat /\ r \in Nat /\ r < P /\ v = P * q + r
  BY <1>1, DivMod
<1>3. Bit(v, i) = b
  BY DEF Bit, Shr
<1> HIDE DEF P, q, r
<1>4. h \in Nat /\ b \in {0, 1} /\ q = 2 * h + b
  BY <1>2
<1> HIDE DEF h, b
<1>5. v = (2 * P) * h + (P * b + r)
  <2>1. P * (2 * h + b) = (2 * P) * h + P * b
    BY <1>1, <1>4
  <2>2. P * b \in Nat /\ (2 * P) * h \in Nat
    BY <1>1, <1>4
  <2> QED  BY <1>2, <1>4, <2>1, <2>2
<1>6. P * b + r \in Nat /\ P * b + r < 2 * P /\ 2 * P \in Nat \ {0} /\ P * b \in Nat
  BY <1>1, <1>2, <1>4
<1>7. v % (2 * P) = P * b + r
  BY <1>4, <1>5, <1>6, DivModUnique
<1>8. P * b + r = r + P * b
  BY <1>2, <1>6
<1> QED  BY <1>1, <1>2, <1>3, <1>4, <1>7, <1>8 DEF P, r

NoCommonBit(v, w) == \A i \in 0..(WordBits - 1) : Bit(v, i) = 0 \/ Bit(w, i) = 0

LEMMA OrWordSum ==
  ASSUME NEW v \in 0..(Word - 1), NEW w \in 0..(Word - 1), NoCommonBit(v, w)
  PROVE  OrWord(v, w) \in 0..(Word - 1) /\ OrWord(v, w) = v + w
<1>1. v \in Nat /\ w \in Nat /\ WordBits \in Nat /\ Word \in Nat \ {0} /\ Word = Power(2, WordBits)
  BY Words
<1>2. PICK low : LowBits(low, v, w) /\ OrWord(v, w) = low[WordBits]
  BY OrWordIs
<1> DEFINE Sum(i) == (v % Power(2, i)) + (w % Power(2, i))
           S == {i \in Nat : i <= WordBits => low[i] = Sum(i) /\ low[i] < Power(2, i)}
<1>3. 0 \in S
  <2>1. Power(2, 0) = 1 /\ v % 1 = 0 /\ w % 1 = 0
    BY <1>1, PowerLaw
  <2> QED  BY <1>2, <2>1 DEF LowBits
<1>4. ASSUME NEW i \in Nat, i \in S PROVE i + 1 \in S
  <2> SUFFICES ASSUME i + 1 <= WordBits
               PROVE  low[i + 1] = Sum(i + 1) /\ low[i + 1] < Power(2, i + 1)
    OBVIOUS
  <2> DEFINE P == Power(2, i)
             a == Bit(v, i)
             b == Bit(w, i)
             x == v % P
             y == w % P
  <2>1. i \in 0..(WordBits - 1) /\ i <= WordBits
    BY <1>1
  <2>2. low[i] = x + y /\ low[i] < P
    BY <1>4, <2>1
  <2>3. low[i + 1] = low[i] + P * (IF a + b > 0 THEN 1 ELSE 0)
    BY <1>2, <2>1 DEF LowBits
  <2>4. a \in {0, 1} /\ x \in Nat /\ v % Power(2, i + 1) = x + P * a
    BY <1>1, NextBit
  <2>5. b \in {0, 1} /\ y \in Nat /\ w % Power(2, i + 1) = y + P * b
    BY <1>1, NextBit
  <2>6. a = 0 \/ b = 0
    BY <2>1 DEF NoCommonBit
  <2>7. P \in Nat \ {0} /\ Power(2, i + 1) = 2 * P
    BY Double
  <2>8. Sum(i + 1) = (x + P * a) + (y + P * b)
    BY <2>4, <2>5
  <2> HIDE DEF P, a, b, x, y, Sum
  <2> QED  BY <2>2, <2>3, <2>4, <2>5, <2>6, <2>7, <2>8
<1> HIDE DEF S
<1>5. WordBits \in S
  BY <1>1, <1>3, <1>4, SetInduction
<1>6. v % Word = v /\ w % Word = w
  BY <1>1
<1>7. low[WordBits] = v + w /\ low[WordBits] < Word
  BY <1>1, <1>5, <1>6 DEF S
<1> QED  BY <1>1, <1>2, <1>7

LEMMA BitsOfPower ==
  ASSUME NEW i \in Nat, NEW j \in Nat, i # j
  PROVE  Bit(Power(2, j), i) = 0
<1>1. CASE i < j
  <2> DEFINE P == Power(2, i)
             Q == Power(2, j - i - 1)
  <2>1. j - i \in Nat /\ j - i - 1 \in Nat /\ j - i = j - i - 1 + 1
    BY <1>1
  <2>2. Power(2, j) = P * Power(2, j - i)
    BY <1>1, PowerSplit
  <2>3. Power(2, j - i) = 2 * Q /\ Q \in Nat /\ P \in Nat \ {0}
    <3>1. Power(2, j - i - 1 + 1) = 2 * Q /\ Q \in Nat
      BY <2>1, Double
    <3> QED  BY <2>1, <3>1, Double
  <2> HIDE DEF P, Q
  <2> DEFINE a == Power(2, j)
  <2>4. a = P * (2 * Q) + 0 /\ 2 * Q \in Nat /\ 0 < P
    BY <2>2, <2>3
  <2> HIDE DEF a
  <2>5. a \div P = 2 * Q
    BY <2>3, <2>4, DivModUnique
  <2>6. (2 * Q) % 2 = 0
    BY <2>3
  <2> QED  BY <2>5, <2>6 DEF a, P, Bit, Shr
<1>2. CASE j < i
  <2>1. Power(2, j) < Power(2, i)
    <3>1. j + 1 \in Nat /\ j + 1 <= i
      BY <1>2
    <3>2. Power(2, j + 1) <= Power(2, i)
      BY <3>1, PowerGrows
    <3>3. Power(2, j + 1) = 2 * Power(2, j) /\ Power(2, j) \in Nat \ {0} /\ Power(2, i) \in Nat
      BY Double
    <3> QED  BY <3>2, <3>3
  <2> DEFINE a == Power(2, j)
             P == Power(2, i)
  <2>2. a \in Nat /\ P \in Nat \ {0} /\ a = P * 0 + a
    BY Double
  <2>3. a \div P = 0
    BY <2>1, <2>2, DivModUnique
  <2>4. 0 % 2 = 0
    OBVIOUS
  <2> QED  BY <2>3, <2>4 DEF Bit, Shr
<1> QED  BY <1>1, <1>2

\* v is a multiple of twice the power j of two.
Above(v, j) == v % Power(2, j + 1) = 0

LEMMA OrWordPower ==
  ASSUME NEW v \in 0..(Word - 1), NEW j \in 0..(WordBits - 1), Above(v, j)
  PROVE  /\ Power(2, j) \in 0..(Word - 1)
         /\ OrWord(v, Power(2, j)) \in 0..(Word - 1)
         /\ OrWord(v, Power(2, j)) = v + Power(2, j)
<1>1. /\ v \in Nat /\ WordBits \in Nat /\ Word \in Nat \ {0} /\ Word = Power(2, WordBits)
      /\ j \in Nat
  BY Words
<1>2. Power(2, j) \in 0..(Word - 1)
  <2>1. Power(2, j + 1) <= Power(2, WordBits)
    BY <1>1, PowerGrows
  <2> QED  BY <1>1, <2>1, Double
<1>3. Bit(v, j) = 0
  <2> DEFINE P == Power(2, j)
             b == Bit(v, j)
             r == v % P
  <2>1. b \in {0, 1} /\ r \in Nat /\ v % Power(2, j + 1) = r + P * b
    BY <1>1, NextBit
  <2>2. P \in Nat \ {0}
    BY <1>1, Double
  <2> HIDE DEF P, b, r
  <2>3. r + P * b = 0
    BY <2>1 DEF Above
  <2>4. b = 0
    BY <2>1, <2>2, <2>3
  <2> QED  BY <2>4 DEF b
<1>4. NoCommonBit(v, Power(2, j))
  <2>1. ASSUME NEW i \in 0..(WordBits - 1), i # j PROVE Bit(Power(2, j), i) = 0
    <3>1. i \in Nat
      BY <1>1
    <3> QED  BY <1>1, <2>1, <3>1, BitsOfPower
  <2> QED  BY <1>3, <2>1 DEF NoCommonBit
<1> QED  BY <1>2, <1>4, OrWordSum

LEMMA OrWordZero ==
  ASSUME NEW v \in 0..(Word - 1)
  PROVE  OrWord(v, 0) = v
<1>1. v \in Nat /\ Word \in Nat \ {0} /\ WordBits \in Nat
  BY Words
<1>2. ASSUME NEW i \in 0..(WordBits - 1) PROVE Bit(0, i) = 0
  <2>1. i \in Nat
    BY <1>1
  <2> DEFINE P == Power(2, i)
  <2>2. P \in Nat \ {0} /\ 0 = P * 0 + 0
    BY <2>1, Double
  <2> HIDE DEF P
  <2>3. 0 \div P = 0
    BY <2>2, DivModUnique
  <2>4. 0 % 2 = 0
    OBVIOUS
  <2> QED  BY <2>3, <2>4 DEF Bit, Shr, P
<1>3. NoCommonBit(v, 0)
  BY <1>2 DEF NoCommonBit
<1>4. 0 \in 0..(Word - 1)
  BY <1>1
<1>5. OrWord(v, 0) = v + 0
  BY <1>3, <1>4, OrWordSum
<1> QED  BY <1>1, <1>5

\* The power j of two, and a multiple of twice that, in two halves
PowerInHalves(u, l, au, al, k, j) ==
  /\ Halves(u, l, Power(2, k)) /\ Halves(au, al, Power(2, k))
  /\ k \in Nat /\ j \in Nat
  /\ au * Power(2, k) + al = Power(2, j)
  /\ Above(u * Power(2, k) + l, j)

LEMMA PowerInLower ==
  ASSUME NEW u, NEW l, NEW au, NEW al, NEW k, NEW j,
         PowerInHalves(u, l, au, al, k, j), j < k
  PROVE  au = 0 /\ al = Power(2, j) /\ Above(l, j)
<1> DEFINE K == Power(2, k)
           M == Power(2, j + 1)
           T == Power(2, k - (j + 1))
           v == u * K + l
<1>1. /\ k \in Nat /\ j \in Nat /\ K \in Nat \ {0} /\ M \in Nat \ {0} /\ Power(2, j) < K
      /\ u \in Nat /\ l \in Nat /\ au \in Nat /\ al \in Nat /\ al < K
      /\ Power(2, j) \in Nat /\ au * K + al = Power(2, j)
      /\ Above(v, j)
  <2>1. k \in Nat /\ j \in Nat /\ K \in Nat \ {0} /\ M \in Nat \ {0} /\ Power(2, j) \in Nat \ {0}
    BY Double DEF PowerInHalves
  <2>2. Power(2, j) < K
    <3>1. j + 1 \in Nat /\ j + 1 <= k
      BY <2>1
    <3>2. M <= K
      BY <2>1, <3>1, PowerGrows
    <3>3. M = 2 * Power(2, j)
      BY <2>1, Double
    <3> QED  BY <2>1, <3>2, <3>3
  <2> QED  BY <2>1, <2>2 DEF PowerInHalves, Halves
<1>2. K = M * T /\ T \in Nat \ {0}
  <2>1. j + 1 \in Nat /\ j + 1 <= k
    BY <1>1
  <2> QED  BY <1>1, <2>1, PowerSplit
<1>v. v \in Nat /\ v % M = 0
  BY <1>1 DEF Above
<1> HIDE DEF K, M, T
<1>3. au = 0
  <2>1. au # 0 => au * K >= K
    BY <1>1
  <2>2. au * K \in Nat
    BY <1>1
  <2> QED  BY <1>1, <2>1, <2>2
<1>4. al = Power(2, j)
  BY <1>1, <1>3
<1>5. l % M = 0
  <2> DEFINE q == l \div M
             r == l % M
  <2>1. q \in Nat /\ r \in Nat /\ r < M /\ l = M * q + r
    BY <1>1, DivMod
  <2> HIDE DEF q, r
  <2>2. v = M * (u * T + q) + r
    <3>1. u * (M * T) = M * (u * T)
      BY <1>1, <1>2
    <3>2. M * (u * T + q) = M * (u * T) + M * q
      BY <1>1, <1>2, <2>1
    <3>3. M * (u * T) \in Nat /\ M * q \in Nat
      BY <1>1, <1>2, <2>1
    <3>4. v = M * (u * T) + (M * q + r)
      BY <1>2, <2>1, <3>1
    <3> HIDE DEF v
    <3> QED  BY <2>1, <3>2, <3>3, <3>4
  <2>3. u * T + q \in Nat
    BY <1>1, <1>2, <2>1
  <2> HIDE DEF v
  <2>4. v % M = r
    BY <1>1, <2>1, <2>2, <2>3, DivModUnique
  <2> QED  BY <1>v, <2>4 DEF r
<1> QED  BY <1>3, <1>4, <1>5 DEF Above, M

LEMMA PowerInUpper ==
  ASSUME NEW u, NEW l, NEW au, NEW al, NEW k, NEW j,
         PowerInHalves(u, l, au, al, k, j), k <= j
  PROVE  au = Power(2, j - k) /\ al = 0 /\ Above(u, j - k)
<1> DEFINE K == Power(2, k)
           J == Power(2, j - k)
           M == Power(2, j - k + 1)
           v == u * K + l
<1>1. /\ k \in Nat /\ j \in Nat /\ K \in Nat \ {0} /\ J \in Nat \ {0} /\ M \in Nat \ {0}
      /\ j - k \in Nat /\ j - k + 1 \in Nat
      /\ u \in Nat /\ l \in Nat /\ l < K /\ au \in Nat /\ al \in Nat /\ al < K
      /\ au * K + al = Power(2, j) /\ Above(v, j)
  <2>1. k \in Nat /\ j \in Nat
    BY DEF PowerInHalves
  <2>2. j - k \in Nat /\ j - k + 1 \in Nat
    BY <2>1
  <2>3. K \in Nat \ {0} /\ J \in Nat \ {0} /\ M \in Nat \ {0}
    BY <2>1, <2>2, Double
  <2> QED  BY <2>1, <2>2, <2>3 DEF PowerInHalves, Halves
<1>2. Power(2, j) = K * J
  BY <1>1, PowerSplit
<1>3. Power(2, j + 1) = K * M
  <2>1. j + 1 \in Nat /\ k <= j + 1 /\ j + 1 - k = j - k + 1
    BY <1>1
  <2>2. Power(2, j + 1) = K * Power(2, j + 1 - k)
    BY <1>1, <2>1, PowerSplit
  <2> QED  BY <2>1, <2>2
<1>v. v \in Nat /\ v % (K * M) = 0
  BY <1>1, <1>3 DEF Above
<1> HIDE DEF K, J, M
<1>4. au = J /\ al = 0
  <2> DEFINE a == au * K + al
  <2>1. a = K * au + al /\ a = K * J + 0 /\ 0 < K
    BY <1>1, <1>2
  <2> HIDE DEF a
  <2>2. a \div K = au /\ a % K = al
    BY <1>1, <2>1, DivModUnique
  <2>3. a \div K = J /\ a % K = 0
    BY <1>1, <2>1, DivModUnique
  <2> QED  BY <2>2, <2>3
<1>5. u % M = 0
  <2> DEFINE q == u \div M
             r == u % M
             N == K * M
  <2>1. q \in Nat /\ r \in Nat /\ r < M /\ u = M * q + r
    BY <1>1, DivMod
  <2> HIDE DEF q, r
  <2>2. r * K + K <= M * K /\ r * K \in Nat /\ M * K = N /\ N \in Nat \ {0}
    BY <1>1, <2>1, TimesLess
  <2>3. v = N * q + (r * K + l)
    <3>1. (M * q + r) * K = N * q + r * K
      BY <1>1, <2>1
    <3>2. N * q \in Nat
      BY <1>1, <2>1
    <3>3. v = (N * q + r * K) + l
      BY <2>1, <3>1
    <3> HIDE DEF v, N
    <3> QED  BY <1>1, <2>2, <3>2, <3>3
  <2> HIDE DEF v, N
  <2>4. r * K + l \in Nat /\ r * K + l < N
    BY <1>1, <2>2
  <2>5. v % N = r * K + l
    BY <2>1, <2>2, <2>3, <2>4, DivModUnique
  <2>6. r * K + l = 0
    BY <1>v, <2>5 DEF N
  <2>7. r = 0
    BY <1>1, <2>1, <2>2, <2>6
  <2> QED  BY <2>7 DEF r
<1> QED  BY <1>4, <1>5 DEF Above, J, M

LEMMA Or128Power ==
  ASSUME NEW m \in U128, NEW n \in U128, NEW j \in Nat,
         Value128(n) = Power(2, j), Above(Value128(m), j)
  PROVE  Or128(m, n) \in U128 /\ Value128(Or128(m, n)) = Value128(m) + Value128(n)
<1> DEFINE K == Word
           u == m.upper
           l == m.lower
           au == n.upper
           al == n.lower
<1>1. /\ u \in 0..(K - 1) /\ l \in 0..(K - 1) /\ au \in 0..(K - 1) /\ al \in 0..(K - 1)
      /\ Value128(m) = u * K + l /\ Value128(n) = au * K + al
  BY Value128Is
<1>2. K \in Nat \ {0} /\ WordBits \in Nat /\ K = Power(2, WordBits)
  BY Words
<1>3. PowerInHalves(u, l, au, al, WordBits, j)
  BY <1>1, <1>2 DEF PowerInHalves, Halves
<1>4. Or128(m, n) = Pair(OrWord(u, au), OrWord(l, al))
  BY DEF Or128
<1> HIDE DEF u, l, au, al
<1>5. CASE j < WordBits
  <2>1. au = 0 /\ al = Power(2, j) /\ Above(l, j)
    BY <1>3, <1>5, PowerInLower
  <2>2. j \in 0..(WordBits - 1)
    BY <1>2, <1>5
  <2>3. OrWord(u, au) = u
    BY <1>1, <2>1, OrWordZero
  <2>4. OrWord(l, al) \in 0..(K - 1) /\ OrWord(l, al) = l + al
    BY <1>1, <2>1, <2>2, OrWordPower
  <2>5. Or128(m, n) \in U128
    BY <1>1, <1>4, <2>3, <2>4, PairType
  <2>6. Value128(Or128(m, n)) = u * K + (l + al)
    BY <1>4, <2>3, <2>4, PairType DEF Value128
  <2> HIDE DEF K
  <2>7. u * K + (l + al) = (u * K + l) + (au * K + al)
    <3>1. u * K \in Nat /\ au * K = 0
      BY <1>1, <1>2, <2>1
    <3> QED  BY <1>1, <1>2, <3>1
  <2> QED  BY <1>1, <2>5, <2>6, <2>7
<1>6. CASE WordBits <= j
  <2>1. au = Power(2, j - WordBits) /\ al = 0 /\ Above(u, j - WordBits)
    BY <1>3, <1>6, PowerInUpper
  <2>2. j - WordBits \in 0..(WordBits - 1)
    <3>1. j - WordBits \in Nat
      BY <1>2, <1>6
    <3>2. WordBits <= j - WordBits => K <= au
      BY <1>2, <2>1, <3>1, PowerGrows
    <3> HIDE DEF K
    <3> QED  BY <1>1, <1>2, <3>1, <3>2
  <2>3. OrWord(l, al) = l
    BY <1>1, <2>1, OrWordZero
  <2>4. OrWord(u, au) \in 0..(K - 1) /\ OrWord(u, au) = u + au
    BY <1>1, <2>1, <2>2, OrWordPower
  <2>5. Or128(m, n) \in U128
    BY <1>1, <1>4, <2>3, <2>4, PairType
  <2>6. Value128(Or128(m, n)) = (u + au) * K + l
    BY <1>4, <2>3, <2>4, PairType DEF Value128
  <2> HIDE DEF K
  <2>7. (u + au) * K + l = (u * K + l) + (au * K + al)
    <3> DEFINE p == u * K
               q == au * K
    <3>1. p \in Nat /\ q \in Nat /\ (u + au) * K = p + q
      BY <1>1, <1>2
    <3> HIDE DEF p, q
    <3>2. (p + q) + l = (p + l) + (q + al)
      BY <1>1, <1>2, <2>1, <3>1
    <3> QED  BY <3>1, <3>2 DEF p, q
  <2> QED  BY <1>1, <2>5, <2>6, <2>7
<1> QED  BY <1>2, <1>5, <1>6

LEMMA Or128Zero ==
  ASSUME NEW m \in U128
  PROVE  Or128(m, Clear128) = m
BY Value128Is, OrWordZero, PairType DEF Or128, Clear128

\* Or adds a power of two to a multiple of twice that.
LEMMA Or256Power ==
  ASSUME NEW m \in U256, NEW n \in U256, NEW j \in Nat,
         Value256(n) = Power(2, j), Above(Value256(m), j)
  PROVE  Or256(m, n) \in U256 /\ Value256(Or256(m, n)) = Value256(m) + Value256(n)
<1> DEFINE K == Word2
           B == 2 * WordBits
           u == Value128(m.upper)
           l == Value128(m.lower)
           au == Value128(n.upper)
           al == Value128(n.lower)
<1>1. /\ m.upper \in U128 /\ m.lower \in U128 /\ n.upper \in U128 /\ n.lower \in U128
      /\ Value256(m) = u * K + l /\ Value256(n) = au * K + al
  BY Value256Is
<1>2. K \in Nat \ {0} /\ B \in Nat /\ K = Power(2, B)
  BY Words
<1>3. /\ u \in 0..(K - 1) /\ l \in 0..(K - 1) /\ au \in 0..(K - 1) /\ al \in 0..(K - 1)
  BY <1>1, Value128Is
<1>4. PowerInHalves(u, l, au, al, B, j)
  BY <1>1, <1>2, <1>3 DEF PowerInHalves, Halves
<1>5. Or256(m, n) = Pair(Or128(m.upper, n.upper), Or128(m.lower, n.lower))
  BY DEF Or256
<1>6. CASE j < B
  <2>1. au = 0 /\ al = Power(2, j) /\ Above(l, j)
    <3> HIDE DEF u, l, au, al, B
    <3> QED  BY <1>4, <1>6, PowerInLower
  <2>2. n.upper = Clear128
    BY <1>1, <2>1, ClearValue, Gt128Value
  <2>3. Or128(m.upper, n.upper) = m.upper
    BY <1>1, <2>2, Or128Zero
  <2>4. Or128(m.lower, n.lower) \in U128 /\ Value128(Or128(m.lower, n.lower)) = l + al
    BY <1>1, <2>1, Or128Power
  <2>5. Or256(m, n) \in U256
    BY <1>1, <1>5, <2>3, <2>4, PairType
  <2>6. Value256(Or256(m, n)) = u * K + (l + al)
    BY <1>5, <2>3, <2>4, <2>5, PairType, Value256Is
  <2> HIDE DEF K, u, l, au, al
  <2>7. u * K + (l + al) = (u * K + l) + (au * K + al)
    <3>1. u * K \in Nat /\ au * K = 0
      BY <1>2, <1>3, <2>1
    <3> QED  BY <1>2, <1>3, <3>1
  <2> QED  BY <1>1, <2>5, <2>6, <2>7
<1>7. CASE B <= j
  <2>1. au = Power(2, j - B) /\ al = 0 /\ Above(u, j - B) /\ j - B \in Nat
    <3> HIDE DEF u, l, au, al, B
    <3> QED  BY <1>2, <1>4, <1>7, PowerInUpper
  <2>2. n.lower = Clear128
    BY <1>1, <2>1, ClearValue, Gt128Value
  <2>3. Or128(m.lower, n.lower) = m.lower
    BY <1>1, <2>2, Or128Zero
  <2>4. Or128(m.upper, n.upper) \in U128 /\ Value128(Or128(m.upper, n.upper)) = u + au
    BY <1>1, <2>1, Or128Power
  <2>5. Or256(m, n) \in U256
    BY <1>1, <1>5, <2>3, <2>4, PairType
  <2>6. Value256(Or256(m, n)) = (u + au) * K + l
    BY <1>5, <2>3, <2>4, <2>5, PairType, Value256Is
  <2> HIDE DEF K, u, l, au, al
  <2>7. (u + au) * K + l = (u * K + l) + (au * K + al)
    <3> DEFINE p == u * K
               q == au * K
    <3>1. p \in Nat /\ q \in Nat /\ (u + au) * K = p + q
      BY <1>2, <1>3
    <3> HIDE DEF p, q
    <3>2. (p + q) + l = (p + l) + (q + al)
      BY <1>2, <1>3, <2>1, <3>1
    <3> QED  BY <3>1, <3>2 DEF p, q
  <2> QED  BY <1>1, <2>5, <2>6, <2>7
<1> QED
  <2>1. j < B \/ B <= j
    BY <1>2
  <2> QED  BY <1>6, <1>7, <2>1

(***************************************************************************)
(* divmod256                                                               *)
(***************************************************************************)
DivisionType ==
  [l : U256, r : U256, copyd : U256, adder : U256, resDiv : U256, resMod : U256]

\* The values of a division before a turn: l, r, and the others
Aligned(r, copyd, adder, resDiv, resMod, j) ==
  /\ j \in Nat /\ adder = Power(2, j) /\ Above(resDiv, j)
  /\ copyd = r * adder
  /\ resMod < 2 * copyd

LEMMA AlignedHalf ==
  ASSUME NEW r \in Nat \ {0}, NEW c \in Nat, NEW a \in Nat, NEW q \in Nat, NEW m \in Nat,
         NEW j, Aligned(r, c, a, q, m, j), NEW n \in Nat, n < c, r <= n
  PROVE  /\ Aligned(r, c \div 2, a \div 2, q, n, j - 1)
         /\ Aligned(r, c \div 2, a \div 2, q + a, n, j - 1)
<1>1. /\ j \in Nat /\ a = Power(2, j) /\ Above(q, j) /\ c = r * a
  BY DEF Aligned
<1>2. j # 0
  <2>1. j = 0 => a = 1 /\ c = r
    BY <1>1, PowerLaw
  <2> QED  BY <2>1
<1>3. j - 1 \in Nat /\ j - 1 + 1 = j
  BY <1>1, <1>2
<1> DEFINE P == Power(2, j - 1)
<1>4. P \in Nat \ {0} /\ Power(2, j - 1 + 1) = 2 * P
  BY <1>3, Double
<1>5. a = 2 * P /\ a \in Nat \ {0}
  BY <1>1, <1>3, <1>4
<1>m. Power(2, j + 1) = 2 * a
  BY <1>1, Double
<1> HIDE DEF P
<1>6. a \div 2 = P
  BY <1>4, <1>5
<1>7. c = 2 * (r * P)
  BY <1>1, <1>4, <1>5
<1>8. c \div 2 = r * P
  <2> DEFINE e == r * P
  <2>1. e \in Nat /\ c = 2 * e
    BY <1>4, <1>7
  <2> HIDE DEF e
  <2>2. c \div 2 = e
    BY <2>1
  <2> QED  BY <2>2 DEF e
<1>9. q % a = 0 /\ (q + a) % a = 0
  <2> DEFINE x == q \div (2 * a)
  <2>1. 2 * a \in Nat \ {0} /\ q % (2 * a) = 0
    BY <1>1, <1>5, <1>m DEF Above
  <2>2. x \in Nat /\ q = (2 * a) * x + 0
    BY <2>1, DivMod
  <2> HIDE DEF x
  <2>3. q = a * (2 * x) + 0 /\ q + a = a * (2 * x + 1) + 0
    BY <1>5, <2>2
  <2>4. q % a = 0
    BY <1>5, <2>2, <2>3, DivModUnique
  <2>5. (q + a) % a = 0
    <3> DEFINE y == q + a
               z == 2 * x + 1
    <3>1. y = a * z + 0 /\ z \in Nat /\ 0 < a
      BY <1>5, <2>2, <2>3
    <3> HIDE DEF y, z
    <3>2. y % a = 0
      BY <1>5, <3>1, DivModUnique
    <3> QED  BY <3>2 DEF y
  <2> QED  BY <2>4, <2>5
<1>10. Above(q, j - 1) /\ Above(q + a, j - 1)
  BY <1>1, <1>3, <1>9 DEF Above
<1>11. n < 2 * (c \div 2)
  <2> DEFINE e == r * P
  <2> HIDE DEF e
  <2>1. c = 2 * e /\ c \div 2 = e
    BY <1>7, <1>8 DEF e
  <2> QED  BY <2>1
<1> QED  BY <1>3, <1>6, <1>8, <1>10, <1>11 DEF Aligned, P

\* What a turn keeps
Kept(x) ==
  /\ x \in DivisionType
  /\ Value256(x.r) > 0
  /\ Value256(x.l) = Value256(x.r) * Value256(x.resDiv) + Value256(x.resMod)
  /\ Value256(x.r) <= Value256(x.resMod) =>
       \E j \in Nat : Aligned(Value256(x.r), Value256(x.copyd), Value256(x.adder),
                              Value256(x.resDiv), Value256(x.resMod), j)

LEMMA ValueNat ==
  ASSUME NEW n \in U256
  PROVE  Value256(n) \in Nat
<1>1. Word2 * Word2 \in Nat
  BY Words
<1> QED  BY <1>1, Value256Is

LEMMA HalfValue ==
  ASSUME NEW n \in U256
  PROVE  Shiftr256(n, 1) \in U256 /\ Value256(Shiftr256(n, 1)) = Value256(n) \div 2
<1>1. 1 \in Shifts256
  BY Words DEF Shifts256
<1>2. Power(2, 1) = 2
  <2>1. Power(2, 0 + 1) = 2 * Power(2, 0) /\ Power(2, 0) = 1
    BY PowerLaw
  <2> QED  BY <2>1
<1> QED  BY <1>1, <1>2, Shiftr256Value

\* A turn of the loop
Turn(x) ==
  LET fits == Gte256(x.resMod, x.copyd)
  IN [x EXCEPT !.resMod = IF fits THEN Minus256(@, x.copyd) ELSE @,
               !.resDiv = IF fits THEN Or256(@, x.adder) ELSE @,
               !.copyd = Shiftr256(@, 1),
               !.adder = Shiftr256(@, 1)]

LEMMA ExceptFields ==
  ASSUME NEW x \in DivisionType, NEW resMod, NEW resDiv, NEW copyd, NEW adder
  PROVE  [x EXCEPT !.resMod = resMod, !.resDiv = resDiv, !.copyd = copyd, !.adder = adder]
         = [l |-> x.l, r |-> x.r, copyd |-> copyd, adder |-> adder,
            resDiv |-> resDiv, resMod |-> resMod]
<1> DEFINE y == [x EXCEPT !.resMod = resMod, !.resDiv = resDiv, !.copyd = copyd, !.adder = adder]
<1>1. DOMAIN x = {"l", "r", "copyd", "adder", "resDiv", "resMod"}
  BY DEF DivisionType
<1>2. y = [f \in DOMAIN x |-> y[f]]
  OBVIOUS
<1>3. /\ y["l"] = x.l /\ y["r"] = x.r /\ y["copyd"] = copyd /\ y["adder"] = adder
      /\ y["resDiv"] = resDiv /\ y["resMod"] = resMod
  BY <1>1
<1> HIDE DEF y
<1>4. y = [l |-> x.l, r |-> x.r, copyd |-> copyd, adder |-> adder,
           resDiv |-> resDiv, resMod |-> resMod]
  BY <1>1, <1>2, <1>3
<1> QED  BY <1>4 DEF y

LEMMA TurnKeeps ==
  ASSUME NEW x, Kept(x), Gte256(x.resMod, x.r)
  PROVE  Kept(Turn(x)) /\ Turn(x).l = x.l /\ Turn(x).r = x.r
<1> DEFINE y == Turn(x)
           fits == Gte256(x.resMod, x.copyd)
           l == Value256(x.l)
           r == Value256(x.r)
           c == Value256(x.copyd)
           a == Value256(x.adder)
           q == Value256(x.resDiv)
           m == Value256(x.resMod)
<1>1. /\ x \in DivisionType /\ x.l \in U256 /\ x.r \in U256 /\ x.copyd \in U256
      /\ x.adder \in U256 /\ x.resDiv \in U256 /\ x.resMod \in U256
  BY DEF Kept, DivisionType
<1>2. l \in Nat /\ r \in Nat /\ c \in Nat /\ a \in Nat /\ q \in Nat /\ m \in Nat
  BY <1>1, ValueNat
<1>3. r <= m /\ r > 0 /\ l = r * q + m
  BY <1>1, <1>2, Gt256Value DEF Kept
<1>4. PICK j \in Nat : Aligned(r, c, a, q, m, j)
  BY <1>3 DEF Kept
<1>5. /\ y.l = x.l /\ y.r = x.r
      /\ y.copyd = Shiftr256(x.copyd, 1) /\ y.adder = Shiftr256(x.adder, 1)
      /\ y.resMod = IF fits THEN Minus256(x.resMod, x.copyd) ELSE x.resMod
      /\ y.resDiv = IF fits THEN Or256(x.resDiv, x.adder) ELSE x.resDiv
      /\ y = [l |-> y.l, r |-> y.r, copyd |-> y.copyd, adder |-> y.adder,
              resDiv |-> y.resDiv, resMod |-> y.resMod]
  <2> DEFINE z == [l |-> x.l, r |-> x.r,
                   copyd |-> Shiftr256(x.copyd, 1), adder |-> Shiftr256(x.adder, 1),
                   resDiv |-> IF fits THEN Or256(x.resDiv, x.adder) ELSE x.resDiv,
                   resMod |-> IF fits THEN Minus256(x.resMod, x.copyd) ELSE x.resMod]
  <2>1. y = z
    <3> DEFINE resMod == IF fits THEN Minus256(x.resMod, x.copyd) ELSE x.resMod
               resDiv == IF fits THEN Or256(x.resDiv, x.adder) ELSE x.resDiv
               copyd == Shiftr256(x.copyd, 1)
               adder == Shiftr256(x.adder, 1)
    <3>1. y = [x EXCEPT !.resMod = resMod, !.resDiv = resDiv, !.copyd = copyd, !.adder = adder]
      BY DEF Turn
    <3>2. z = [l |-> x.l, r |-> x.r, copyd |-> copyd, adder |-> adder,
               resDiv |-> resDiv, resMod |-> resMod]
      OBVIOUS
    <3> HIDE DEF y, z, resMod, resDiv, copyd, adder
    <3> QED  BY <1>1, <3>1, <3>2, ExceptFields
  <2> HIDE DEF y, fits
  <2> QED  BY <2>1
<1>6. /\ y.copyd \in U256 /\ y.adder \in U256
      /\ Value256(y.copyd) = c \div 2 /\ Value256(y.adder) = a \div 2
  BY <1>1, <1>5, HalfValue
<1>7. fits <=> c <= m
  BY <1>1, <1>2, Gt256Value
<1>8. m < 2 * c /\ a = Power(2, j) /\ c = r * a /\ Above(q, j)
  BY <1>4 DEF Aligned
<1> HIDE DEF y, fits
<1>9. CASE fits
  <2>1. y.resMod \in U256 /\ Value256(y.resMod) = m - c
    BY <1>1, <1>5, <1>7, <1>9, Minus256Value
  <2>2. y.resDiv \in U256 /\ Value256(y.resDiv) = q + a
    BY <1>1, <1>4, <1>5, <1>8, <1>9, Or256Power
  <2> HIDE DEF l, r, c, a, q, m
  <2>3. l = r * (q + a) + (m - c)
    <3>1. r * (q + a) = r * q + c /\ r * q \in Nat
      BY <1>2, <1>8
    <3> DEFINE p == r * q
    <3>2. l = p + m /\ r * (q + a) = p + c /\ p \in Nat
      BY <1>3, <3>1
    <3> HIDE DEF p
    <3>3. l = (p + c) + (m - c)
      BY <1>2, <3>2
    <3> QED  BY <3>2, <3>3
  <2>4. r <= m - c => Aligned(r, c \div 2, a \div 2, q + a, m - c, j - 1) /\ j - 1 \in Nat
    <3> SUFFICES ASSUME r <= m - c
                 PROVE  Aligned(r, c \div 2, a \div 2, q + a, m - c, j - 1) /\ j - 1 \in Nat
      OBVIOUS
    <3>1. m - c \in Nat /\ m - c < c /\ r \in Nat \ {0}
      BY <1>2, <1>3, <1>7, <1>8, <1>9
    <3>2. Aligned(r, c \div 2, a \div 2, q + a, m - c, j - 1)
      BY <1>2, <1>4, <3>1, AlignedHalf
    <3> QED  BY <3>2 DEF Aligned
  <2>5. y \in DivisionType
    BY <1>1, <1>5, <1>6, <2>1, <2>2 DEF DivisionType
  <2>6. Value256(y.r) = r /\ Value256(y.l) = l
    BY <1>5 DEF r, l
  <2>7. Kept(y)
    <3>1. Value256(y.r) > 0
      BY <1>3, <2>6
    <3>2. Value256(y.l) = Value256(y.r) * Value256(y.resDiv) + Value256(y.resMod)
      BY <2>1, <2>2, <2>3, <2>6
    <3>3. Value256(y.r) <= Value256(y.resMod) =>
            \E k \in Nat : Aligned(Value256(y.r), Value256(y.copyd), Value256(y.adder),
                                   Value256(y.resDiv), Value256(y.resMod), k)
      BY <1>6, <2>1, <2>2, <2>4, <2>6
    <3> QED  BY <2>5, <3>1, <3>2, <3>3 DEF Kept
  <2> QED  BY <1>5, <2>7 DEF y
<1>10. CASE ~fits
  <2>1. y.resMod = x.resMod /\ y.resDiv = x.resDiv
    BY <1>5, <1>10
  <2>2. m < c
    BY <1>2, <1>7, <1>10
  <2>3. Aligned(r, c \div 2, a \div 2, q, m, j - 1) /\ j - 1 \in Nat
    <3>1. r \in Nat \ {0}
      BY <1>2, <1>3
    <3>2. Aligned(r, c \div 2, a \div 2, q, m, j - 1)
      BY <1>2, <1>3, <1>4, <2>2, <3>1, AlignedHalf
    <3> QED  BY <3>2 DEF Aligned
  <2>4. y \in DivisionType
    BY <1>1, <1>5, <1>6, <2>1 DEF DivisionType
  <2>5. Value256(y.r) = r /\ Value256(y.l) = l /\ Value256(y.resMod) = m /\ Value256(y.resDiv) = q
    BY <1>5, <2>1
  <2> HIDE DEF l, r, c, a, q, m
  <2>6. Kept(y)
    <3>1. Value256(y.r) > 0
      BY <1>3, <2>5
    <3>2. Value256(y.l) = Value256(y.r) * Value256(y.resDiv) + Value256(y.resMod)
      BY <1>3, <2>5
    <3>3. \E k \in Nat : Aligned(Value256(y.r), Value256(y.copyd), Value256(y.adder),
                                 Value256(y.resDiv), Value256(y.resMod), k)
      BY <1>6, <2>3, <2>5
    <3> QED  BY <2>4, <3>1, <3>2, <3>3 DEF Kept
  <2> QED  BY <1>5, <2>6 DEF y
<1> QED  BY <1>9, <1>10

LEMMA DivideKeeps ==
  ASSUME NEW l \in U256, NEW r \in U256, Value256(r) > 0
  PROVE  Kept(Divide(l, r)) /\ Divide(l, r).l = l /\ Divide(l, r).r = r
<1> DEFINE x == Divide(l, r)
           shift == Bits256(l) - Bits256(r)
           copyd == Shiftl256(r, shift)
           adder == Shiftl256(Small(1), shift)
           vl == Value256(l)
           vr == Value256(r)
           bl == Bits256(l)
           br == Bits256(r)
           Size2 == Word2 * Word2
<1>1. vl \in Nat /\ vr \in Nat \ {0}
  BY ValueNat
<1>2. Clear256 \in U256 /\ Value256(Clear256) = 0
  BY ClearValue
<1>3. ASSUME NEW c \in U256, NEW a \in U256
      PROVE  /\ Division(l, r, c, a) \in DivisionType
             /\ Division(l, r, c, a).l = l /\ Division(l, r, c, a).r = r
             /\ Division(l, r, c, a).copyd = c /\ Division(l, r, c, a).adder = a
             /\ Division(l, r, c, a).resDiv = Clear256 /\ Division(l, r, c, a).resMod = l
  BY <1>2 DEF Division, DivisionType
<1>4. vl = vr * 0 + vl
  BY <1>1
<1>5. ASSUME NEW c \in U256, NEW a \in U256, NEW j \in Nat,
             Aligned(vr, Value256(c), Value256(a), 0, vl, j), x = Division(l, r, c, a)
      PROVE  Kept(x) /\ x.l = l /\ x.r = r
  <2> HIDE DEF x
  <2>1. /\ x \in DivisionType /\ x.l = l /\ x.r = r /\ x.copyd = c /\ x.adder = a
        /\ x.resDiv = Clear256 /\ x.resMod = l
    BY <1>3, <1>5
  <2>2. Value256(x.l) = Value256(x.r) * Value256(x.resDiv) + Value256(x.resMod)
    BY <1>2, <1>4, <2>1
  <2>3. \E k \in Nat : Aligned(Value256(x.r), Value256(x.copyd), Value256(x.adder),
                               Value256(x.resDiv), Value256(x.resMod), k)
    BY <1>2, <1>5, <2>1
  <2> QED  BY <2>1, <2>2, <2>3 DEF Kept
<1>6. CASE Gt256(r, l)
  <2>1. x = Division(l, r, Clear256, Clear256)
    BY <1>6 DEF Divide
  <2> HIDE DEF x
  <2>2. /\ x \in DivisionType /\ x.l = l /\ x.r = r /\ x.resDiv = Clear256 /\ x.resMod = l
    BY <1>2, <1>3, <2>1
  <2>3. ~(vr <= vl)
    BY <1>1, <1>6, Gt256Value
  <2>4. Kept(x)
    BY <1>2, <1>4, <2>2, <2>3 DEF Kept
  <2> QED  BY <2>2, <2>4 DEF x
<1>7. CASE ~Gt256(r, l)
  <2>1. vr <= vl
    BY <1>1, <1>7, Gt256Value
  <2>2. /\ bl \in Shifts256 /\ BitsAre(vl, bl) /\ br \in Shifts256 /\ BitsAre(vr, br)
    BY Bits256Value
  <2>3. /\ bl \in Nat /\ vl < Power(2, bl) /\ br \in Nat /\ vr < Power(2, br)
        /\ br > 0 => vr >= Power(2, br - 1)
    BY <2>2 DEF BitsAre
  <2>4. br > 0
    <3>1. br = 0 => vr < 1
      BY <2>3, PowerLaw
    <3> QED  BY <1>1, <2>3, <3>1
  <2>5. br <= bl
    <3>1. SUFFICES ASSUME bl <= br - 1 PROVE FALSE
      BY <2>3
    <3>2. br - 1 \in Nat
      BY <2>3, <2>4
    <3>3. Power(2, bl) <= Power(2, br - 1)
      BY <2>3, <3>1, <3>2, PowerGrows
    <3>4. Power(2, bl) \in Nat /\ Power(2, br - 1) \in Nat
      BY <2>3, <3>2, Double
    <3> HIDE DEF vl, vr
    <3> QED  BY <1>1, <2>1, <2>3, <2>4, <3>3, <3>4
  <2>6. shift \in Nat /\ shift \in Shifts256 /\ br + shift = bl
    <3>1. WordBits \in Nat /\ bl <= 4 * WordBits
      BY <2>2, Words DEF Shifts256
    <3> QED  BY <2>3, <2>5, <3>1 DEF Shifts256
  <2> DEFINE P == Power(2, shift)
             Q == Power(2, br - 1)
  <2>7. /\ P \in Nat \ {0} /\ Q \in Nat \ {0}
        /\ Power(2, bl) = Power(2, br) * P /\ Power(2, br) = 2 * Q
        /\ Power(2, bl) <= Size2 /\ Size2 \in Nat \ {0}
    <3>1. br - 1 \in Nat /\ br - 1 + 1 = br
      BY <2>3, <2>4
    <3>2. Power(2, br - 1 + 1) = 2 * Q /\ Q \in Nat \ {0}
      BY <3>1, Double
    <3>3. Power(2, br + shift) = Power(2, br) * P
      BY <2>3, <2>6, PowerSum
    <3>4. 4 * WordBits \in Nat /\ bl <= 4 * WordBits
      BY <2>2, Words DEF Shifts256
    <3>5. Power(2, bl) <= Power(2, 4 * WordBits)
      BY <2>3, <3>4, PowerGrows
    <3>6. Size2 \in Nat \ {0}
      BY Words
    <3> QED  BY <2>6, <3>1, <3>2, <3>3, <3>5, <3>6, Double, Sizes256
  <2> HIDE DEF P, Q, bl, br, vl, vr, Size2
  <2>8. vr * P < Size2 /\ P < Size2 /\ vr * P \in Nat /\ 1 * P = P
    <3>1. vr * P + P <= Power(2, br) * P
      <4>1. Power(2, br) \in Nat
        BY <2>7
      <4> QED  BY <1>1, <2>3, <2>7, <4>1, TimesLess
    <3>2. vr * P >= P /\ vr * P \in Nat
      BY <1>1, <2>7
    <3>3. Power(2, bl) \in Nat
      BY <2>3, Double
    <3> DEFINE e == vr * P
               f == Power(2, bl)
    <3>4. e + P <= f /\ e >= P /\ e \in Nat /\ f \in Nat /\ f <= Size2 /\ P \in Nat \ {0}
      BY <2>7, <3>1, <3>2, <3>3
    <3> HIDE DEF e, f
    <3>5. e < Size2 /\ P < Size2 /\ 1 * P = P
      BY <2>7, <3>4
    <3> QED  BY <3>2, <3>5 DEF e
  <2>9. copyd \in U256 /\ Value256(copyd) = vr * P
    <3>1. copyd \in U256 /\ Value256(copyd) = (vr * P) % Size2
      BY <2>6, Shiftl256Value DEF P, vr, Size2
    <3> DEFINE e == vr * P
    <3>2. e \in Nat /\ e < Size2
      BY <2>8
    <3> HIDE DEF e
    <3>3. e % Size2 = e
      BY <2>7, <3>2
    <3> QED  BY <3>1, <3>3 DEF e
  <2>10. adder \in U256 /\ Value256(adder) = P
    <3>1. 1 \in 0..(Word - 1)
      BY Words
    <3>2. Small(1) \in U256 /\ Value256(Small(1)) = 1
      BY <3>1, SmallValue
    <3>3. adder \in U256 /\ Value256(adder) = (1 * P) % Size2
      BY <2>6, <3>2, Shiftl256Value DEF P, Size2
    <3>4. P % Size2 = P
      BY <2>7, <2>8
    <3> QED  BY <2>8, <3>3, <3>4
  <2>11. Aligned(vr, Value256(copyd), Value256(adder), 0, vl, shift)
    <3>1. Above(0, shift)
      <4> DEFINE M == Power(2, shift + 1)
      <4>1. M \in Nat \ {0} /\ 0 = M * 0 + 0
        BY <2>6, Double
      <4> HIDE DEF M
      <4>2. 0 % M = 0
        BY <4>1, DivModUnique
      <4> QED  BY <4>2 DEF Above, M
    <3>2. vl < 2 * (vr * P)
      <4>1. (2 * Q) * P = 2 * (Q * P)
        BY <2>7
      <4>2. Q * P <= vr * P
        <5>1. Q <= vr
          BY <2>3, <2>4 DEF Q
        <5>2. vr - Q \in Nat /\ vr = Q + (vr - Q)
          BY <1>1, <2>7, <5>1
        <5>3. ASSUME NEW k \in Nat PROVE (Q + k) * P = Q * P + k * P /\ k * P \in Nat
          BY <2>7
        <5>4. vr * P = Q * P + (vr - Q) * P /\ (vr - Q) * P \in Nat
          BY <5>2, <5>3
        <5>5. Q * P \in Nat
          BY <2>7
        <5> QED  BY <5>4, <5>5
      <4> DEFINE e == vr * P
                 f == Q * P
      <4>3. e \in Nat /\ f \in Nat /\ f <= e /\ vl < 2 * f
        BY <2>3, <2>7, <2>8, <4>1, <4>2
      <4> HIDE DEF e, f
      <4>4. vl < 2 * e
        BY <1>1, <4>3
      <4> QED  BY <4>4 DEF e
    <3> QED  BY <2>6, <2>9, <2>10, <3>1, <3>2 DEF Aligned, P
  <2>12. CASE ~Gt256(copyd, l)
    <3>1. x = Division(l, r, copyd, adder)
      BY <1>7, <2>12 DEF Divide
    <3> HIDE DEF x, copyd, adder, shift
    <3> QED  BY <1>5, <2>6, <2>9, <2>10, <2>11, <3>1 DEF x, vr, vl
  <2>13. CASE Gt256(copyd, l)
    <3> DEFINE c == Shiftr256(copyd, 1)
               a == Shiftr256(adder, 1)
    <3>1. x = Division(l, r, c, a)
      BY <1>7, <2>13 DEF Divide
    <3>2. /\ c \in U256 /\ Value256(c) = Value256(copyd) \div 2
          /\ a \in U256 /\ Value256(a) = Value256(adder) \div 2
      BY <2>9, <2>10, HalfValue
    <3>3. vl < Value256(copyd) /\ Value256(copyd) \in Nat /\ Value256(adder) \in Nat
      BY <1>1, <2>9, <2>10, <2>13, Gt256Value, ValueNat DEF vl
    <3> HIDE DEF x, copyd, adder, shift, c, a
    <3>4. Aligned(vr, Value256(c), Value256(a), 0, vl, shift - 1)
      BY <1>1, <2>1, <2>11, <3>2, <3>3, AlignedHalf
    <3>5. shift - 1 \in Nat
      BY <3>4 DEF Aligned
    <3> QED  BY <1>5, <3>1, <3>2, <3>4, <3>5 DEF x, vr, vl
  <2> QED  BY <2>12, <2>13
<1> QED  BY <1>6, <1>7

(***************************************************************************)
(* The divisions of a conversion                                           *)
(***************************************************************************)
LEMMA Divisors ==
  /\ Small(Base) \in U256 /\ Value256(Small(Base)) = Base
  /\ Nano \in U256 /\ Value256(Nano) = Power(Base, NanoDigits)
  /\ Base \in Nat /\ Base >= 2 /\ NanoDigits \in Nat /\ NanoDigits >= 1
  /\ Power(Base, NanoDigits) \in Nat \ {0} /\ Power(Base, NanoDigits) < Word
  /\ Base <= Power(Base, NanoDigits)
<1>1. /\ Base \in Nat /\ Base >= 2 /\ Base \in Nat \ {0} /\ NanoDigits \in Nat /\ NanoDigits >= 1
      /\ Power(Base, NanoDigits) < Word
  BY AmountAssumption
<1>2. Power(Base, NanoDigits) \in Nat \ {0}
  BY <1>1, PowerPositive
<1>3. Base <= Power(Base, NanoDigits)
  <2>1. Power(Base, 0 + 1) = Base * Power(Base, 0) /\ Power(Base, 0) = 1
    BY <1>1, PowerLaw
  <2>2. Power(Base, 1) = Base
    BY <1>1, <2>1
  <2>3. Power(Base, 1) <= Power(Base, NanoDigits)
    BY <1>1, PowerGrows
  <2> QED  BY <2>2, <2>3
<1>4. Base \in 0..(Word - 1) /\ Power(Base, NanoDigits) \in 0..(Word - 1)
  BY <1>1, <1>2, <1>3, Words
<1> QED  BY <1>1, <1>2, <1>3, <1>4, SmallValue DEF Nano

LEMMA NumbersTyped ==
  ASSUME NEW n \in Amounts \cup Rates
  PROVE  Read256(n) \in U256 /\ Value256(Read256(n)) = n
<1>1. n \in 0..(Power(Word, 4) - 1)
  BY AmountAssumption
<1> QED  BY <1>1, Read256Value

DivisionsKept ==
  /\ rMod \in U256
  /\ Running => Kept(d)

LEMMA DivideKept ==
  ASSUME NEW l \in U256, NEW r \in {Small(Base), Nano}
  PROVE  Kept(Divide(l, r))
<1>1. r \in U256 /\ Value256(r) > 0
  BY Divisors
<1> QED  BY <1>1, DivideKeeps

LEMMA KeptTypes ==
  ASSUME NEW x, Kept(x)
  PROVE  /\ x.l \in U256 /\ x.r \in U256 /\ x.copyd \in U256 /\ x.adder \in U256
         /\ x.resDiv \in U256 /\ x.resMod \in U256
BY DEF Kept, DivisionType

LEMMA DivisionsInit == AmountInit => DivisionsKept
BY ClearValue DEF AmountInit, DivisionsKept, Running

LEMMA DivisionsNext == DivisionsKept /\ [AmountNext]_amountVars => DivisionsKept'
<1> SUFFICES ASSUME DivisionsKept, [AmountNext]_amountVars PROVE DivisionsKept'
  OBVIOUS
<1>1. rMod \in U256 /\ (Running => Kept(d))
  BY DEF DivisionsKept
<1>2. CASE UNCHANGED amountVars
  BY <1>1, <1>2 DEF DivisionsKept, amountVars, Running
<1>3. CASE Call
  <2>1. ASSUME NEW n \in Amounts, StartAmount(n) PROVE DivisionsKept'
    <3>1. Kept(Divide(Read256(n), Nano))
      BY NumbersTyped, DivideKept
    <3> QED  BY <1>1, <2>1, <3>1 DEF StartAmount, DivisionsKept
  <2>2. ASSUME NEW n \in Rates, StartRate(n) PROVE DivisionsKept'
    <3>1. Kept(Divide(Read256(n), Small(Base)))
      BY NumbersTyped, DivideKept
    <3> QED  BY <1>1, <2>2, <3>1 DEF StartRate, Write, DivisionsKept
  <2> QED  BY <1>3, <2>1, <2>2 DEF Call
<1>4. CASE DivisionTurn
  <2>1. Running /\ Gte256(d.resMod, d.r) /\ d' = Turn(d)
    BY <1>4 DEF DivisionTurn, Dividing, Turn
  <2>2. Kept(Turn(d))
    BY <1>1, <2>1, TurnKeeps
  <2> QED  BY <1>1, <1>4, <2>1, <2>2 DEF DivisionTurn, DivisionsKept
<1>5. CASE Digit
  <2>1. Kept(Divide(d.resDiv, Small(Base)))
    BY <1>1, <1>5, KeptTypes, DivideKept DEF Digit, Divided
  <2>2. CASE OutOfRoom
    BY <1>1, <1>5, <2>2 DEF Digit, DivisionsKept, Running
  <2>3. CASE ~OutOfRoom
    BY <1>1, <1>5, <2>1, <2>3 DEF Digit, DivisionsKept
  <2> QED  BY <2>2, <2>3
<1>6. CASE ToOne
  <2>1. Kept(Divide(d.resDiv, Nano))
    BY <1>1, <1>6, KeptTypes, DivideKept DEF ToOne, Divided
  <2> QED  BY <1>1, <1>6, <2>1 DEF ToOne, DivisionsKept
<1>7. CASE Whole
  <2>1. Kept(d) /\ d.resMod \in U256
    BY <1>1, <1>7, KeptTypes DEF Whole, Divided
  <2>2. Kept(Divide(d.resDiv, Small(Base)))
    BY <2>1, KeptTypes, DivideKept
  <2> QED  BY <1>7, <2>1, <2>2 DEF Whole, Write, DivisionsKept
<1>8. CASE WholeWritten
  <2>1. Kept(Divide(rMod, Small(Base)))
    BY <1>1, DivideKept
  <2>2. CASE Zero256(rMod)
    BY <1>1, <1>8, <2>2 DEF WholeWritten, DivisionsKept, Running
  <2>3. CASE ~Zero256(rMod)
    BY <1>1, <1>8, <2>1, <2>3 DEF WholeWritten, Write, DivisionsKept
  <2> QED  BY <2>2, <2>3
<1>9. CASE FractionWritten
  <2>1. stage' \in {"refused", "done"} /\ rMod' = rMod
    BY <1>9 DEF FractionWritten
  <2> QED  BY <1>1, <2>1 DEF DivisionsKept, Running
<1>10. CASE RateWritten
  BY <1>1, <1>10 DEF RateWritten, DivisionsKept, Running
<1> QED
  BY <1>2, <1>3, <1>4, <1>5, <1>6, <1>7, <1>8, <1>9, <1>10 DEF AmountNext

LEMMA DivisionsInvariance == AmountSpec => []DivisionsKept
BY DivisionsInit, DivisionsNext, PTL DEF AmountSpec

LEMMA KeptIsTheSum == DivisionsKept => DivisionKeepsTheSum
<1> SUFFICES ASSUME DivisionsKept, Running
             PROVE  /\ Value256(d.l) = Value256(d.r) * Value256(d.resDiv) + Value256(d.resMod)
                    /\ Dividing => /\ Value256(d.copyd) = Value256(d.r) * Value256(d.adder)
                                   /\ Value256(d.resMod) < 2 * Value256(d.copyd)
  BY DEF DivisionKeepsTheSum
<1>1. Kept(d)
  BY DEF DivisionsKept
<1>2. CASE Dividing
  <2>1. Value256(d.r) <= Value256(d.resMod)
    <3>1. Gte256(d.resMod, d.r)
      BY <1>2 DEF Dividing
    <3>2. Value256(d.r) \in Nat /\ Value256(d.resMod) \in Nat
      BY <1>1, KeptTypes, ValueNat
    <3> QED  BY <1>1, <3>1, <3>2, KeptTypes, Gt256Value
  <2> QED  BY <1>1, <2>1 DEF Kept, Aligned
<1>3. CASE ~Dividing
  BY <1>1, <1>3 DEF Kept
<1> QED  BY <1>2, <1>3

\* Whatever the size of a word, the base and the number, every turn of every
\* division (divmod256, uint256.c:423-453) keeps what it takes and what is
\* left together equal to the number it divides, and its shifted divisor
\* more than half of what is left.
THEOREM DivisionsKeepTheSum == AmountSpec => []DivisionKeepsTheSum
BY DivisionsInvariance, KeptIsTheSum, PTL

AdderHalved ==
  Value256(d.adder) > 0 /\ Value256(d'.adder) = Value256(d.adder) \div 2

\* No division goes on for ever: a turn halves the one of adder, which is
\* there as long as something is left to take, so that there are at most as
\* many turns as the divisor was shifted by, and one more (divmod256,
\* uint256.c:443-450).
THEOREM DivisionsGoDown == AmountSpec => [][DivisionTurn => AdderHalved]_amountVars
<1>1. ASSUME DivisionsKept, DivisionTurn PROVE AdderHalved
  <2>1. Kept(d) /\ Gte256(d.resMod, d.r) /\ d' = Turn(d)
    BY <1>1 DEF DivisionsKept, DivisionTurn, Dividing, Turn
  <2>2. d \in DivisionType /\ d.adder \in U256 /\ d.r \in U256 /\ d.resMod \in U256
    BY <2>1, KeptTypes DEF Kept
  <2>3. Value256(d.r) <= Value256(d.resMod)
    <3>1. Value256(d.r) \in Nat /\ Value256(d.resMod) \in Nat
      BY <2>2, ValueNat
    <3> QED  BY <2>1, <2>2, <3>1, Gt256Value
  <2>4. PICK j \in Nat : Value256(d.adder) = Power(2, j)
    BY <2>1, <2>3 DEF Kept, Aligned
  <2>5. Value256(d.adder) > 0
    BY <2>4, Double
  <2>6. d'.adder = Shiftr256(d.adder, 1)
    BY <2>1, <2>2, ExceptFields DEF Turn
  <2>7. Value256(d'.adder) = Value256(d.adder) \div 2
    BY <2>2, <2>6, HalfValue
  <2> QED  BY <2>5, <2>7 DEF AdderHalved
<1>2. DivisionsKept => [DivisionTurn => AdderHalved]_amountVars
  BY <1>1
<1> QED  BY <1>2, DivisionsInvariance, PTL

(***************************************************************************)
(* Texts of digits, highest first, and the numbers they make               *)
(***************************************************************************)
Digits == 0..(Base - 1)

\* h runs through the numbers that the beginnings of text make
Reads(h, s) ==
  /\ h \in [Nat -> Nat]
  /\ h[0] = 0
  /\ \A n \in 0..(Len(s) - 1) : h[n + 1] = Base * h[n] + s[n + 1]

LEMMA DigitsAre ==
  /\ Base \in Nat \ {0} /\ Base >= 2 /\ Point = Base
  /\ Digits \subseteq Nat /\ 0 \in Digits /\ Point \notin Digits
  /\ \A s \in Seq(Digits) : s \in Seq(Nat) /\ Len(s) \in Nat /\ \A i \in 1..Len(s) : s[i] \in Digits
<1>1. Base \in Nat \ {0} /\ Base >= 2 /\ Point = Base
  BY Divisors DEF Point
<1>2. Digits \subseteq Nat /\ 0 \in Digits /\ Point \notin Digits
  BY <1>1 DEF Digits
<1>3. ASSUME NEW s \in Seq(Digits)
      PROVE  s \in Seq(Nat) /\ Len(s) \in Nat /\ \A i \in 1..Len(s) : s[i] \in Digits
  BY <1>2, SeqMonotonic, LenProperties, ElementOfSeq
<1> QED  BY <1>1, <1>2, <1>3

LEMMA NumberRead ==
  ASSUME NEW s \in Seq(Digits)
  PROVE  \E h : Reads(h, s) /\ h[Len(s)] = NumberOf(s)
<1> DEFINE L == Len(s)
           step == [n \in Nat |-> [v \in Nat |-> IF n < L THEN Base * v + s[n + 1] ELSE v]]
           Defines(f) == f = [n \in 0..L |-> IF n = 0 THEN 0 ELSE Base * f[n - 1] + s[n]]
           sum == CHOOSE f : Defines(f)
<1>1. L \in Nat /\ \A n \in Nat : n < L => s[n + 1] \in Nat
  <2>1. L \in Nat
    BY DigitsAre
  <2>2. ASSUME NEW n \in Nat, n < L PROVE n + 1 \in 1..L
    BY <2>1, <2>2
  <2> QED  BY <2>1, <2>2, DigitsAre
<1> HIDE DEF L
<1>2. PICK h : h \in [Nat -> Nat] /\ Follows(h, 0, step)
  <2>1. ASSUME NEW n \in Nat, NEW v \in Nat
        PROVE  (IF n < L THEN Base * v + s[n + 1] ELSE v) \in Nat
    <3>1. Base * v \in Nat
      BY DigitsAre
    <3> QED  BY <1>1, <3>1
  <2>2. step \in [Nat -> [Nat -> Nat]]
    BY <2>1
  <2> QED  BY <2>2, Recursion
<1>3. ASSUME NEW n \in 0..(L - 1) PROVE h[n + 1] = Base * h[n] + s[n + 1]
  <2>1. n \in Nat /\ n < L /\ h[n] \in Nat
    BY <1>1, <1>2
  <2>2. h[n + 1] = step[n][h[n]]
    BY <1>2, <2>1 DEF Follows
  <2> QED  BY <2>1, <2>2
<1>4. Reads(h, s)
  BY <1>2, <1>3 DEF Reads, Follows, L
<1>5. \E f : Defines(f) /\ f = [n \in 0..L |-> h[n]]
  <2> DEFINE f == [n \in 0..L |-> h[n]]
  <2>1. ASSUME NEW n \in 0..L PROVE f[n] = IF n = 0 THEN 0 ELSE Base * f[n - 1] + s[n]
    <3>1. CASE n = 0
      BY <1>2, <3>1 DEF Follows
    <3>2. CASE n # 0
      <4>1. n - 1 \in 0..(L - 1) /\ n - 1 \in 0..L /\ n - 1 + 1 = n
        BY <1>1, <3>2
      <4>2. h[n - 1 + 1] = Base * h[n - 1] + s[n - 1 + 1]
        BY <1>3, <4>1
      <4> QED  BY <3>2, <4>1, <4>2
    <3> QED  BY <3>1, <3>2
  <2>2. f = [n \in 0..L |-> f[n]]
    OBVIOUS
  <2> HIDE DEF f
  <2>3. Defines(f)
    BY <2>1, <2>2
  <2> QED  BY <2>3 DEF f
<1>6. ASSUME NEW f, NEW g, Defines(f), Defines(g) PROVE f = g
  <2> DEFINE S == {n \in Nat : n \in 0..L => f[n] = g[n]}
  <2>1. ASSUME NEW n \in 0..L
        PROVE  /\ f[n] = IF n = 0 THEN 0 ELSE Base * f[n - 1] + s[n]
               /\ g[n] = IF n = 0 THEN 0 ELSE Base * g[n - 1] + s[n]
    BY <1>6
  <2>2. 0 \in S
    BY <2>1
  <2>3. ASSUME NEW n \in Nat, n \in S PROVE n + 1 \in S
    <3> SUFFICES ASSUME n + 1 \in 0..L PROVE f[n + 1] = g[n + 1]
      OBVIOUS
    <3>1. n \in 0..L /\ n + 1 # 0 /\ n + 1 - 1 = n
      BY <1>1
    <3> QED  BY <2>1, <2>3, <3>1
  <2> HIDE DEF S
  <2>4. \A n \in Nat : n \in S
    BY <2>2, <2>3, SetInduction
  <2>5. \A n \in 0..L : f[n] = g[n]
    BY <2>4 DEF S
  <2>6. DOMAIN f = 0..L /\ DOMAIN g = 0..L /\ f = [n \in 0..L |-> f[n]] /\ g = [n \in 0..L |-> g[n]]
    BY <1>6
  <2> QED  BY <2>5, <2>6
<1> HIDE DEF Defines
<1>7. Defines(sum)
  BY <1>5
<1>8. NumberOf(s) = sum[L]
  BY DEF NumberOf, Defines, L
<1>9. sum[L] = h[L]
  <2>1. PICK f : Defines(f) /\ f = [n \in 0..L |-> h[n]]
    BY <1>5
  <2>2. sum = f
    BY <1>6, <1>7, <2>1
  <2> HIDE DEF sum
  <2>3. L \in 0..L
    BY <1>1
  <2> QED  BY <2>1, <2>2, <2>3
<1> QED  BY <1>4, <1>8, <1>9 DEF L

LEMMA ReadOnce ==
  ASSUME NEW s, NEW t, NEW f, NEW g, Reads(f, s), Reads(g, t), NEW m \in Nat,
         m <= Len(s), m <= Len(t), Len(s) \in Nat, Len(t) \in Nat,
         \A i \in 1..m : s[i] = t[i]
  PROVE  \A n \in 0..m : f[n] = g[n]
<1> DEFINE S == {n \in Nat : n <= m => f[n] = g[n]}
<1>1. 0 \in S
  BY DEF Reads
<1>2. ASSUME NEW n \in Nat, n \in S PROVE n + 1 \in S
  <2> SUFFICES ASSUME n + 1 <= m PROVE f[n + 1] = g[n + 1]
    OBVIOUS
  <2>1. n \in 0..(Len(s) - 1) /\ n \in 0..(Len(t) - 1) /\ n + 1 \in 1..m /\ n <= m
    OBVIOUS
  <2> QED  BY <1>2, <2>1 DEF Reads
<1> HIDE DEF S
<1>3. \A n \in Nat : n \in S
  BY <1>1, <1>2, SetInduction
<1> QED  BY <1>3 DEF S

\* The number of a text is that of its beginning, shifted, and that of its end.
LEMMA NumberOfConcat ==
  ASSUME NEW s \in Seq(Digits), NEW t \in Seq(Digits)
  PROVE  NumberOf(s \o t) = NumberOf(s) * Power(Base, Len(t)) + NumberOf(t)
<1> DEFINE u == s \o t
           K == Len(s)
           L == Len(t)
<1>1. /\ u \in Seq(Digits) /\ Len(u) = K + L /\ K \in Nat /\ L \in Nat
      /\ \A i \in 1..(K + L) : u[i] = IF i <= K THEN s[i] ELSE t[i - K]
  BY ConcatProperties, DigitsAre
<1> HIDE DEF u
<1>2. PICK h : Reads(h, u) /\ h[Len(u)] = NumberOf(u)
  BY <1>1, NumberRead
<1>3. PICK f : Reads(f, s) /\ f[K] = NumberOf(s)
  BY NumberRead
<1>4. PICK g : Reads(g, t) /\ g[L] = NumberOf(t)
  BY NumberRead
<1>5. h[K] = f[K]
  <2>1. ASSUME NEW i \in 1..K PROVE u[i] = s[i]
    BY <1>1
  <2>2. \A n \in 0..K : h[n] = f[n]
    <3>1. Len(u) \in Nat /\ Len(s) \in Nat /\ K \in Nat /\ K <= Len(u) /\ K <= Len(s)
      BY <1>1
    <3> HIDE DEF K
    <3> QED  BY <1>2, <1>3, <2>1, <3>1, ReadOnce
  <2> QED  BY <1>1, <2>2
<1> DEFINE S == {n \in Nat : n <= L => h[K + n] = f[K] * Power(Base, n) + g[n]}
<1>6. f[K] \in Nat
  BY <1>1, <1>3 DEF Reads
<1>7. 0 \in S
  <2>1. K + 0 = K /\ g[0] = 0 /\ Power(Base, 0) = 1
    BY <1>1, <1>4, PowerLaw, DigitsAre DEF Reads
  <2>2. ASSUME NEW x \in Nat PROVE x * 1 + 0 = x
    OBVIOUS
  <2> QED  BY <1>5, <1>6, <2>1, <2>2
<1>8. ASSUME NEW n \in Nat, n \in S PROVE n + 1 \in S
  <2> SUFFICES ASSUME n + 1 <= L PROVE h[K + (n + 1)] = f[K] * Power(Base, n + 1) + g[n + 1]
    OBVIOUS
  <2>1. /\ K + n \in 0..(K + L - 1) /\ K + n + 1 \in 1..(K + L) /\ ~(K + n + 1 <= K)
        /\ K + n + 1 - K = n + 1 /\ n \in 0..(L - 1) /\ n <= L
        /\ K + (n + 1) = K + n + 1
    BY <1>1
  <2>2. h[K + n + 1] = Base * h[K + n] + t[n + 1]
    <3>1. h[K + n + 1] = Base * h[K + n] + u[K + n + 1]
      BY <1>1, <1>2, <2>1 DEF Reads
    <3>2. u[K + n + 1] = t[n + 1]
      BY <1>1, <2>1
    <3> QED  BY <3>1, <3>2
  <2>3. g[n + 1] = Base * g[n] + t[n + 1]
    BY <1>4, <2>1 DEF Reads
  <2>4. h[K + n] = f[K] * Power(Base, n) + g[n]
    BY <1>8, <2>1
  <2>5. Power(Base, n + 1) = Base * Power(Base, n) /\ Power(Base, n) \in Nat /\ Base \in Nat
    BY PowerLaw, DigitsAre
  <2>6. g[n] \in Nat /\ t[n + 1] \in Nat
    <3>1. n + 1 \in 1..L
      BY <1>1
    <3> QED  BY <1>4, <3>1, DigitsAre DEF Reads
  <2>7. ASSUME NEW x \in Nat, NEW p \in Nat, NEW y \in Nat, NEW e \in Nat
        PROVE  Base * (x * p + y) + e = x * (Base * p) + (Base * y + e)
    BY DigitsAre
  <2>8. Base * h[K + n] + t[n + 1] = Base * (f[K] * Power(Base, n) + g[n]) + t[n + 1]
    BY <2>4
  <2>9. Base * (f[K] * Power(Base, n) + g[n]) + t[n + 1]
        = f[K] * (Base * Power(Base, n)) + (Base * g[n] + t[n + 1])
    <3> DEFINE x == f[K]
               p == Power(Base, n)
               y == g[n]
               e == t[n + 1]
    <3>1. x \in Nat /\ p \in Nat /\ y \in Nat /\ e \in Nat
      BY <1>6, <2>5, <2>6
    <3> HIDE DEF x, p, y, e
    <3>2. Base * (x * p + y) + e = x * (Base * p) + (Base * y + e)
      BY <2>7, <3>1
    <3> QED  BY <3>2 DEF x, p, y, e
  <2> QED  BY <2>1, <2>2, <2>3, <2>5, <2>8, <2>9
<1> HIDE DEF S
<1>9. \A n \in Nat : n \in S
  BY <1>7, <1>8, SetInduction
<1>10. h[K + L] = f[K] * Power(Base, L) + g[L]
  BY <1>1, <1>9 DEF S
<1> QED  BY <1>1, <1>2, <1>3, <1>4, <1>10 DEF u

LEMMA NumberIsNat ==
  ASSUME NEW s \in Seq(Digits)
  PROVE  NumberOf(s) \in Nat
<1>1. PICK h : Reads(h, s) /\ h[Len(s)] = NumberOf(s)
  BY NumberRead
<1> QED  BY <1>1, DigitsAre DEF Reads

LEMMA NumberOfZeros ==
  ASSUME NEW s \in Seq(Digits), \A i \in 1..Len(s) : s[i] = 0
  PROVE  NumberOf(s) = 0
<1>1. PICK h : Reads(h, s) /\ h[Len(s)] = NumberOf(s)
  BY NumberRead
<1> DEFINE S == {n \in Nat : n <= Len(s) => h[n] = 0}
<1>2. Len(s) \in Nat
  BY DigitsAre
<1>3. 0 \in S
  BY <1>1 DEF Reads
<1>4. ASSUME NEW n \in Nat, n \in S PROVE n + 1 \in S
  <2> SUFFICES ASSUME n + 1 <= Len(s) PROVE h[n + 1] = 0
    OBVIOUS
  <2>1. n \in 0..(Len(s) - 1) /\ n + 1 \in 1..Len(s)
    BY <1>2
  <2>2. h[n + 1] = Base * h[n] + s[n + 1] /\ h[n] = 0 /\ s[n + 1] = 0
    BY <1>1, <1>2, <1>4, <2>1 DEF Reads
  <2> QED  BY <2>2, DigitsAre
<1> HIDE DEF S
<1>5. Len(s) \in S
  BY <1>2, <1>3, <1>4, SetInduction
<1> QED  BY <1>1, <1>2, <1>5 DEF S

LEMMA NumberOfDigit ==
  ASSUME NEW e \in Digits
  PROVE  <<e>> \in Seq(Digits) /\ Len(<<e>>) = 1 /\ NumberOf(<<e>>) = e
<1>1. <<e>> \in Seq(Digits) /\ Len(<<e>>) = 1 /\ <<e>>[1] = e
  OBVIOUS
<1>2. PICK h : Reads(h, <<e>>) /\ h[1] = NumberOf(<<e>>)
  BY <1>1, NumberRead
<1>3. h[0 + 1] = Base * h[0] + <<e>>[0 + 1] /\ h[0] = 0
  BY <1>1, <1>2 DEF Reads
<1> QED  BY <1>1, <1>2, <1>3, DigitsAre

LEMMA ReverseAppend ==
  ASSUME NEW s \in Seq(Digits), NEW e \in Digits
  PROVE  /\ Reverse(s) \in Seq(Digits) /\ Len(Reverse(s)) = Len(s)
         /\ Reverse(Append(s, e)) \in Seq(Digits) /\ Len(Reverse(Append(s, e))) = Len(s) + 1
         /\ Reverse(Append(s, e)) = <<e>> \o Reverse(s)
<1>1. ASSUME NEW t \in Seq(Digits)
      PROVE  /\ Reverse(t) \in Seq(Digits) /\ Len(Reverse(t)) = Len(t)
             /\ \A i \in 1..Len(t) : Reverse(t)[i] = t[Len(t) + 1 - i]
  <2>1. Len(t) \in Nat
    BY DigitsAre
  <2>2. ASSUME NEW i \in 1..Len(t) PROVE t[Len(t) - i + 1] \in Digits /\ Len(t) - i + 1 = Len(t) + 1 - i
    <3>1. Len(t) - i + 1 \in 1..Len(t) /\ Len(t) - i + 1 = Len(t) + 1 - i
      BY <2>1
    <3> QED  BY <3>1, DigitsAre
  <2>3. Reverse(t) \in [1..Len(t) -> Digits]
    BY <2>2 DEF Reverse
  <2> QED  BY <2>1, <2>2, <2>3 DEF Reverse
<1> DEFINE a == Append(s, e)
           r == Reverse(s)
<1>2. /\ a \in Seq(Digits) /\ Len(a) = Len(s) + 1 /\ a[Len(s) + 1] = e
      /\ \A i \in 1..Len(s) : a[i] = s[i]
  BY AppendProperties
<1> HIDE DEF a
<1>3. /\ r \in Seq(Digits) /\ Len(r) = Len(s)
      /\ \A i \in 1..Len(s) : r[i] = s[Len(s) + 1 - i]
  BY <1>1
<1>4. /\ Reverse(a) \in Seq(Digits) /\ Len(Reverse(a)) = Len(s) + 1
      /\ \A i \in 1..(Len(s) + 1) : Reverse(a)[i] = a[Len(s) + 1 + 1 - i]
  BY <1>1, <1>2
<1> HIDE DEF r
<1>5. Len(s) \in Nat
  BY DigitsAre
<1> DEFINE b == <<e>> \o r
<1>6. /\ b \in Seq(Digits) /\ Len(b) = 1 + Len(s)
      /\ \A i \in 1..(1 + Len(s)) : b[i] = IF i <= 1 THEN e ELSE r[i - 1]
  <2>1. <<e>> \in Seq(Digits) /\ Len(<<e>>) = 1 /\ <<e>>[1] = e
    BY NumberOfDigit
  <2>2. /\ b \in Seq(Digits) /\ Len(b) = Len(<<e>>) + Len(r)
        /\ \A i \in 1..(Len(<<e>>) + Len(r)) :
             b[i] = IF i <= Len(<<e>>) THEN <<e>>[i] ELSE r[i - Len(<<e>>)]
    BY <1>3, <2>1, ConcatProperties
  <2> HIDE DEF b
  <2>3. ASSUME NEW i \in 1..(1 + Len(s)) PROVE b[i] = IF i <= 1 THEN e ELSE r[i - 1]
    <3>1. b[i] = IF i <= 1 THEN <<e>>[i] ELSE r[i - 1]
      BY <1>3, <2>1, <2>2
    <3>2. i <= 1 => i = 1
      BY <1>5
    <3> QED  BY <2>1, <3>1, <3>2
  <2> QED  BY <1>3, <2>1, <2>2, <2>3
<1> HIDE DEF b
<1>7. ASSUME NEW i \in 1..(Len(s) + 1) PROVE Reverse(a)[i] = b[i]
  <2>1. CASE i = 1
    <3>1. Len(s) + 1 + 1 - i = Len(s) + 1 /\ i <= 1 /\ i \in 1..(1 + Len(s))
      BY <1>5, <2>1
    <3> QED  BY <1>2, <1>4, <1>6, <3>1
  <2>2. CASE i # 1
    <3>1. /\ i - 1 \in 1..Len(s) /\ ~(i <= 1) /\ i \in 1..(1 + Len(s))
          /\ Len(s) + 1 + 1 - i \in 1..Len(s) /\ Len(s) + 1 - (i - 1) = Len(s) + 1 + 1 - i
      BY <1>5, <2>2
    <3>2. Reverse(a)[i] = s[Len(s) + 1 + 1 - i]
      BY <1>2, <1>4, <3>1
    <3>3. b[i] = s[Len(s) + 1 - (i - 1)]
      BY <1>3, <1>6, <3>1
    <3> QED  BY <3>1, <3>2, <3>3
  <2> QED  BY <2>1, <2>2
<1>8. Reverse(a) = b
  <2>1. Len(Reverse(a)) = Len(b) /\ \A i \in 1..Len(Reverse(a)) : Reverse(a)[i] = b[i]
    BY <1>4, <1>5, <1>6, <1>7
  <2> QED  BY <1>4, <1>6, <2>1, SeqEqual
<1> QED  BY <1>3, <1>4, <1>8 DEF a, b, r

\* A digit more, on the left
LEMMA NumberOfReverse ==
  ASSUME NEW s \in Seq(Digits), NEW e \in Digits
  PROVE  NumberOf(Reverse(Append(s, e))) = e * Power(Base, Len(s)) + NumberOf(Reverse(s))
<1>1. Reverse(s) \in Seq(Digits) /\ Len(Reverse(s)) = Len(s)
      /\ Reverse(Append(s, e)) = <<e>> \o Reverse(s)
  BY ReverseAppend
<1>2. <<e>> \in Seq(Digits) /\ NumberOf(<<e>>) = e
  BY NumberOfDigit
<1> QED  BY <1>1, <1>2, NumberOfConcat

\* Zeros at the end of a text are a factor of its number.
LEMMA NumberOfBeginning ==
  ASSUME NEW s \in Seq(Digits), NEW n \in 0..Len(s), \A i \in (n + 1)..Len(s) : s[i] = 0
  PROVE  /\ SubSeq(s, 1, n) \in Seq(Digits) /\ Len(SubSeq(s, 1, n)) = n
         /\ NumberOf(s) = NumberOf(SubSeq(s, 1, n)) * Power(Base, Len(s) - n)
<1> DEFINE L == Len(s)
           b == SubSeq(s, 1, n)
           z == SubSeq(s, n + 1, L)
<1>1. L \in Nat /\ \A i \in 1..L : s[i] \in Digits
  BY DigitsAre
<1>2. b \in Seq(Digits) /\ Len(b) = n
  <2>1. 1 \in Int /\ n \in Int /\ \A i \in 1..n : s[i] \in Digits
    BY <1>1
  <2> HIDE DEF L
  <2>2. b \in Seq(Digits) /\ Len(b) = IF 1 <= n THEN n - 1 + 1 ELSE 0
    BY <2>1, SubSeqProperties
  <2> QED  BY <2>1, <2>2
<1>3. z \in Seq(Digits) /\ Len(z) = L - n /\ \A i \in 1..Len(z) : z[i] = 0
  <2>1. n + 1 \in Int /\ L \in Int /\ \A i \in (n + 1)..L : s[i] \in Digits
    BY <1>1
  <2>2. /\ z \in Seq(Digits) /\ Len(z) = IF n + 1 <= L THEN L - (n + 1) + 1 ELSE 0
        /\ \A i \in 1..(L - (n + 1) + 1) : z[i] = s[n + 1 + i - 1]
    BY <2>1, SubSeqProperties
  <2> HIDE DEF z
  <2>3. Len(z) = L - n
    BY <1>1, <2>2
  <2>4. ASSUME NEW i \in 1..Len(z) PROVE z[i] = 0
    <3>1. i \in 1..(L - (n + 1) + 1) /\ n + 1 + i - 1 \in (n + 1)..L
      BY <1>1, <2>3
    <3> QED  BY <2>2, <3>1
  <2> QED  BY <2>2, <2>3, <2>4
<1>4. s = b \o z
  <2>1. s = SubSeq(s, 1, L)
    BY SubSeqFull
  <2>2. 1 \in 1..(L + 1) /\ n \in (1 - 1)..L /\ L \in n..L
    BY <1>1
  <2>3. SubSeq(s, 1, n) \o SubSeq(s, n + 1, L) = SubSeq(s, 1, L)
    BY <2>2, ConcatAdjacentSubSeq
  <2> QED  BY <2>1, <2>3
<1> HIDE DEF b, z, L
<1>5. NumberOf(z) = 0
  BY <1>3, NumberOfZeros
<1>6. NumberOf(b) * Power(Base, L - n) \in Nat
  <2>1. L - n \in Nat
    BY <1>1 DEF L
  <2>2. Power(Base, L - n) \in Nat
    BY <2>1, PowerLaw, DigitsAre
  <2>3. NumberOf(b) \in Nat
    BY <1>2, NumberIsNat
  <2> QED  BY <2>2, <2>3
<1>7. NumberOf(s) = NumberOf(b) * Power(Base, L - n) + 0
  BY <1>2, <1>3, <1>4, <1>5, NumberOfConcat
<1> QED  BY <1>2, <1>6, <1>7 DEF b, L

\* Stripped leaves the zeros at the end out, and nothing else.
LEMMA StrippedIs ==
  ASSUME NEW s \in Seq(Digits)
  PROVE  \E n \in 0..Len(s) : /\ Stripped(s) = SubSeq(s, 1, n)
                              /\ \A i \in (n + 1)..Len(s) : s[i] = 0
<1> DEFINE L == Len(s)
           NonZeroEnd(n) == /\ n > 0 => s[n] # 0
                      /\ \A i \in (n + 1)..L : s[i] = 0
           S == {m \in Nat : m <= L /\ (\A i \in (m + 1)..L : s[i] = 0)
                               => \E n \in 0..L : NonZeroEnd(n)}
<1>1. L \in Nat
  BY DigitsAre
<1>2. 0 \in S
  <2> SUFFICES ASSUME \A i \in 1..L : s[i] = 0 PROVE \E n \in 0..L : NonZeroEnd(n)
    OBVIOUS
  <2>1. NonZeroEnd(0) /\ 0 \in 0..L
    BY <1>1
  <2> QED  BY <2>1
<1>3. ASSUME NEW m \in Nat, m \in S PROVE m + 1 \in S
  <2> SUFFICES ASSUME m + 1 <= L, \A i \in (m + 1 + 1)..L : s[i] = 0
               PROVE  \E n \in 0..L : NonZeroEnd(n)
    OBVIOUS
  <2>1. CASE s[m + 1] = 0
    <3>1. m <= L /\ \A i \in (m + 1)..L : s[i] = 0
      BY <1>1, <2>1
    <3> QED  BY <1>3, <3>1
  <2>2. CASE s[m + 1] # 0
    <3>1. NonZeroEnd(m + 1) /\ m + 1 \in 0..L
      BY <1>1, <2>2
    <3> QED  BY <3>1
  <2> QED  BY <2>1, <2>2
<1> HIDE DEF S
<1>4. L \in S
  BY <1>1, <1>2, <1>3, SetInduction
<1>5. \E n \in 0..L : NonZeroEnd(n)
  <2>1. L <= L /\ \A i \in (L + 1)..L : s[i] = 0
    BY <1>1
  <2> QED  BY <1>4, <2>1 DEF S
<1> DEFINE n == CHOOSE k \in 0..L : NonZeroEnd(k)
<1>6. n \in 0..L /\ NonZeroEnd(n)
  BY <1>5
<1>7. Stripped(s) = SubSeq(s, 1, n)
  BY DEF Stripped
<1> HIDE DEF n
<1> QED  BY <1>6, <1>7

LEMMA PointUnique ==
  ASSUME NEW t, Len(t) \in Nat, NEW k \in 1..(Len(t) + 1),
         k <= Len(t) => t[k] = Point, \A i \in 1..(k - 1) : t[i] # Point
  PROVE  PointOf(t) = k
<1>1. ASSUME NEW n \in 1..(Len(t) + 1), n <= Len(t) => t[n] = Point,
             \A i \in 1..(n - 1) : t[i] # Point
      PROVE  n = k
  <2>1. CASE n < k
    <3>1. n \in 1..(k - 1) /\ n <= Len(t)
      BY <2>1
    <3> QED  BY <1>1, <3>1
  <2>2. CASE k < n
    <3>1. k \in 1..(n - 1) /\ k <= Len(t)
      BY <2>2
    <3> QED  BY <1>1, <3>1
  <2> QED  BY <2>1, <2>2
<1> QED  BY <1>1 DEF PointOf

\* A text with a point, and one without
LEMMA PointIsAt ==
  ASSUME NEW w \in Seq(Digits), NEW f \in Seq(Digits)
  PROVE  /\ PointOf(w \o <<Point>> \o f) = Len(w) + 1
         /\ PointOf(w) = Len(w) + 1
         /\ w \o <<Point>> \o f \in Seq(0..Base)
         /\ Len(w \o <<Point>> \o f) = Len(w) + 1 + Len(f)
         /\ SubSeq(w \o <<Point>> \o f, 1, Len(w)) = w
         /\ SubSeq(w \o <<Point>> \o f, Len(w) + 2, Len(w \o <<Point>> \o f)) = f
<1> DEFINE C == 0..Base
           p == <<Point>>
           t == w \o <<Point>> \o f
           K == Len(w)
           L == Len(f)
<1>1. /\ K \in Nat /\ L \in Nat /\ Point \in C
      /\ \A i \in 1..K : w[i] \in C /\ w[i] # Point
  <2>1. Digits \subseteq C /\ Point \in C
    BY DigitsAre DEF Digits
  <2> QED  BY <2>1, DigitsAre
<1>2. w \in Seq(C) /\ f \in Seq(C) /\ p \in Seq(C) /\ Len(p) = 1 /\ p[1] = Point
  <2>1. Digits \subseteq C
    BY DigitsAre DEF Digits
  <2>2. w \in Seq(C) /\ f \in Seq(C)
    BY <2>1, SeqMonotonic
  <2> QED  BY <1>1, <2>2
<1>3. /\ w \o p \in Seq(C) /\ Len(w \o p) = K + 1
      /\ \A i \in 1..(K + 1) : (w \o p)[i] = IF i <= K THEN w[i] ELSE p[i - K]
  BY <1>2, ConcatProperties
<1>4. /\ t \in Seq(C) /\ Len(t) = K + 1 + L
      /\ \A i \in 1..(K + 1 + L) : t[i] = IF i <= K + 1 THEN (w \o p)[i] ELSE f[i - (K + 1)]
  <2> DEFINE v == w \o p
  <2>1. v \in Seq(C) /\ Len(v) = K + 1
    BY <1>3
  <2>2. t = v \o f
    OBVIOUS
  <2> HIDE DEF v, t
  <2> QED  BY <1>2, <2>1, <2>2, ConcatProperties DEF v
<1> HIDE DEF t, p, C
<1>5. \A i \in 1..K : t[i] = w[i]
  <2> SUFFICES ASSUME NEW i \in 1..K PROVE t[i] = w[i]
    OBVIOUS
  <2>1. i \in 1..(K + 1) /\ i \in 1..(K + 1 + L) /\ i <= K /\ i <= K + 1
    BY <1>1
  <2> QED  BY <1>3, <1>4, <2>1
<1>6. t[K + 1] = Point
  <2>1. K + 1 \in 1..(K + 1) /\ K + 1 \in 1..(K + 1 + L) /\ ~(K + 1 <= K) /\ K + 1 - K = 1
    BY <1>1
  <2>2. t[K + 1] = (w \o p)[K + 1]
    <3>1. K + 1 <= K + 1
      BY <1>1
    <3> QED  BY <1>4, <2>1, <3>1
  <2>3. (w \o p)[K + 1] = p[1]
    BY <1>3, <2>1
  <2> QED  BY <1>2, <2>2, <2>3
<1>7. \A i \in 1..L : t[K + 1 + i] = f[i]
  <2> SUFFICES ASSUME NEW i \in 1..L PROVE t[K + 1 + i] = f[i]
    OBVIOUS
  <2>1. K + 1 + i \in 1..(K + 1 + L) /\ ~(K + 1 + i <= K + 1) /\ K + 1 + i - (K + 1) = i
    BY <1>1
  <2> QED  BY <1>4, <2>1
<1> HIDE DEF K, L
<1>8. PointOf(t) = K + 1
  <2>1. Len(t) \in Nat /\ K + 1 \in 1..(Len(t) + 1) /\ (K + 1) - 1 = K
    BY <1>1, <1>4
  <2>2. \A i \in 1..((K + 1) - 1) : t[i] # Point
    BY <1>1, <1>5, <2>1
  <2> QED  BY <1>6, <2>1, <2>2, PointUnique
<1>9. PointOf(w) = K + 1
  <2>1. /\ Len(w) \in Nat /\ K + 1 \in 1..(Len(w) + 1) /\ (K + 1) - 1 = K /\ ~(K + 1 <= Len(w))
    BY <1>1 DEF K
  <2>2. \A i \in 1..((K + 1) - 1) : w[i] # Point
    BY <1>1, <2>1
  <2> QED  BY <2>1, <2>2, PointUnique
<1>10. SubSeq(t, 1, K) = w
  <2> DEFINE b == SubSeq(t, 1, K)
  <2>1. \A i \in 1..K : t[i] \in C
    BY <1>1, <1>5
  <2>2. /\ b \in Seq(C) /\ Len(b) = IF 1 <= K THEN K - 1 + 1 ELSE 0
        /\ \A i \in 1..(K - 1 + 1) : b[i] = t[1 + i - 1]
    BY <1>1, <2>1, SubSeqProperties
  <2> HIDE DEF b
  <2>3. Len(b) = K
    BY <1>1, <2>2
  <2>4. ASSUME NEW i \in 1..Len(b) PROVE b[i] = w[i]
    <3>1. i \in 1..(K - 1 + 1) /\ 1 + i - 1 = i /\ i \in 1..K
      BY <1>1, <2>3
    <3> QED  BY <1>5, <2>2, <3>1
  <2>5. b = w
    BY <1>2, <2>2, <2>3, <2>4, SeqEqual DEF K
  <2> QED  BY <2>5 DEF b
<1>11. SubSeq(t, K + 2, Len(t)) = f
  <2> DEFINE b == SubSeq(t, K + 2, Len(t))
             m == K + 2
             n == Len(t)
  <2>1. \A i \in 1..L : f[i] \in C
    BY <1>2, ElementOfSeq DEF L
  <2>2. m \in Int /\ n \in Int /\ n = K + 1 + L /\ n - m + 1 = L
    BY <1>1, <1>4
  <2>3. ASSUME NEW i \in m..n PROVE t[i] \in C
    <3>1. i - (K + 1) \in 1..L /\ K + 1 + (i - (K + 1)) = i
      BY <1>1, <2>2
    <3> QED  BY <1>7, <2>1, <3>1
  <2>4. /\ b \in Seq(C) /\ Len(b) = IF m <= n THEN n - m + 1 ELSE 0
        /\ \A i \in 1..(n - m + 1) : b[i] = t[m + i - 1]
    <3> HIDE DEF m, n
    <3> QED  BY <2>2, <2>3, SubSeqProperties DEF m, n
  <2> HIDE DEF b
  <2>5. Len(b) = L
    BY <1>1, <2>2, <2>4
  <2>6. ASSUME NEW i \in 1..Len(b) PROVE b[i] = f[i]
    <3>1. i \in 1..(n - m + 1) /\ m + i - 1 = K + 1 + i /\ i \in 1..L
      BY <1>1, <2>2, <2>5
    <3> QED  BY <1>7, <2>4, <3>1
  <2>7. b = f
    BY <1>2, <2>4, <2>5, <2>6, SeqEqual DEF L
  <2> QED  BY <2>7 DEF b
<1> QED  BY <1>4, <1>8, <1>9, <1>10, <1>11 DEF t, K, L, C, p

LEMMA EmptyNumber == <<>> \in Seq(Digits) /\ NumberOf(<<>>) = 0
<1>1. <<>> \in Seq(Digits) /\ \A i \in 1..Len(<<>>) : <<>>[i] = 0
  OBVIOUS
<1> QED  BY <1>1, NumberOfZeros

LEMMA ReadWithPoint ==
  ASSUME NEW w \in Seq(Digits), NEW f \in Seq(Digits), NEW n \in Nat
  PROVE  ReadText(w \o <<Point>> \o f, n)
         = NumberOf(w) * Power(Base, n) + NumberOf(f) * Power(Base, n - Len(f))
<1> DEFINE t == w \o <<Point>> \o f
<1>1. /\ PointOf(t) = Len(w) + 1 /\ SubSeq(t, 1, Len(w)) = w
      /\ SubSeq(t, Len(w) + 2, Len(t)) = f
  BY PointIsAt
<1> HIDE DEF t
<1>2. Len(w) \in Nat /\ PointOf(t) - 1 = Len(w) /\ PointOf(t) + 1 = Len(w) + 2
  BY <1>1, DigitsAre
<1>3. ReadText(t, n) = NumberOf(w) * Power(Base, n) + NumberOf(f) * Power(Base, n - Len(f))
  BY <1>1, <1>2 DEF ReadText
<1> QED  BY <1>3 DEF t

LEMMA ReadWhole ==
  ASSUME NEW w \in Seq(Digits), NEW n \in Nat
  PROVE  ReadText(w, n) = NumberOf(w) * Power(Base, n)
<1>1. PointOf(w) = Len(w) + 1 /\ Len(w) \in Nat
  BY PointIsAt, EmptyNumber, DigitsAre
<1>2. SubSeq(w, 1, Len(w)) = w
  BY SubSeqFull
<1>3. SubSeq(w, Len(w) + 2, Len(w)) = <<>>
  <2>1. Len(w) + 2 \in Int /\ Len(w) \in Int /\ Len(w) < Len(w) + 2
    BY <1>1
  <2> QED  BY <2>1, SubSeqEmpty
<1>4. PointOf(w) - 1 = Len(w) /\ PointOf(w) + 1 = Len(w) + 2
  BY <1>1
<1>5. ReadText(w, n) = NumberOf(w) * Power(Base, n) + NumberOf(<<>>) * Power(Base, n - Len(<<>>))
  BY <1>2, <1>3, <1>4 DEF ReadText
<1>6. n - Len(<<>>) = n
  BY EmptySeq
<1>7. ASSUME NEW a \in Nat, NEW b \in Nat PROVE a * b + 0 * b = a * b
  OBVIOUS
<1>8. NumberOf(w) \in Nat /\ Power(Base, n) \in Nat
  BY NumberIsNat, PowerLaw, DigitsAre
<1> QED  BY <1>5, <1>6, <1>7, <1>8, EmptyNumber

LEMMA PaddedNumber ==
  ASSUME NEW t \in Seq(Digits), NEW z \in Nat
  PROVE  /\ Zeros(z) \in Seq(Digits) /\ Stripped(t) \in Seq(Digits)
         /\ Zeros(z) \o Stripped(t) \in Seq(Digits)
         /\ \E n \in 0..Len(t) :
              /\ Len(Stripped(t)) = n
              /\ Len(Zeros(z) \o Stripped(t)) = z + n
              /\ NumberOf(t) = NumberOf(Zeros(z) \o Stripped(t)) * Power(Base, Len(t) - n)
<1>1. PICK n \in 0..Len(t) : Stripped(t) = SubSeq(t, 1, n) /\ \A i \in (n + 1)..Len(t) : t[i] = 0
  BY StrippedIs
<1> DEFINE s == Stripped(t)
           o == Zeros(z)
<1>2. /\ s \in Seq(Digits) /\ Len(s) = n
      /\ NumberOf(t) = NumberOf(s) * Power(Base, Len(t) - n)
  BY <1>1, NumberOfBeginning
<1> HIDE DEF s
<1>3. o \in Seq(Digits) /\ Len(o) = z /\ \A i \in 1..Len(o) : o[i] = 0
  BY DigitsAre DEF Zeros
<1> HIDE DEF o
<1>4. NumberOf(o) = 0
  BY <1>3, NumberOfZeros
<1>5. o \o s \in Seq(Digits) /\ Len(o \o s) = z + n
  BY <1>2, <1>3, ConcatProperties
<1>6. NumberOf(o \o s) = NumberOf(s)
  <2>1. NumberOf(o \o s) = 0 * Power(Base, Len(s)) + NumberOf(s)
    BY <1>2, <1>3, <1>4, NumberOfConcat
  <2>2. Len(s) \in Nat /\ NumberOf(s) \in Nat
    BY <1>2, NumberIsNat, DigitsAre
  <2>3. Power(Base, Len(s)) \in Nat
    BY <2>2, PowerLaw, DigitsAre
  <2>4. ASSUME NEW x \in Nat, NEW y \in Nat PROVE 0 * x + y = y
    OBVIOUS
  <2> QED  BY <2>1, <2>2, <2>3, <2>4
<1> QED  BY <1>2, <1>3, <1>5, <1>6 DEF s, o

LEMMA TextsAssociate ==
  ASSUME NEW a \in Seq(0..Base), NEW b \in Seq(0..Base), NEW c \in Seq(0..Base)
  PROVE  (a \o b) \o c = a \o (b \o c)
<1> DEFINE C == 0..Base
<1>1. a \in Seq(C) /\ b \in Seq(C) /\ c \in Seq(C)
  OBVIOUS
<1> HIDE DEF C
<1> QED  BY <1>1, ConcatAssociative

\* What is read of an amount with decimals
LEMMA FractionRead ==
  ASSUME NEW w \in Seq(Digits), NEW t \in Seq(Digits), Len(t) <= NanoDigits
  PROVE  ReadText(w \o <<Point>> \o Zeros(NanoDigits - Len(t)) \o Stripped(t), NanoDigits)
         = NumberOf(w) * Power(Base, NanoDigits) + NumberOf(t)
<1> DEFINE o == Zeros(NanoDigits - Len(t))
           s == Stripped(t)
           p == <<Point>>
<1>1. Len(t) \in Nat /\ NanoDigits \in Nat /\ NanoDigits - Len(t) \in Nat
  BY DigitsAre, Divisors
<1>2. /\ o \in Seq(Digits) /\ s \in Seq(Digits) /\ o \o s \in Seq(Digits)
      /\ \E n \in 0..Len(t) :
           /\ Len(o \o s) = (NanoDigits - Len(t)) + n
           /\ NumberOf(t) = NumberOf(o \o s) * Power(Base, Len(t) - n)
  BY <1>1, PaddedNumber
<1> HIDE DEF o, s
<1>3. PICK n \in 0..Len(t) : /\ Len(o \o s) = (NanoDigits - Len(t)) + n
                             /\ NumberOf(t) = NumberOf(o \o s) * Power(Base, Len(t) - n)
  BY <1>2
<1>4. ReadText(w \o p \o (o \o s), NanoDigits)
      = NumberOf(w) * Power(Base, NanoDigits) + NumberOf(o \o s) * Power(Base, NanoDigits - Len(o \o s))
  <2> DEFINE f == o \o s
  <2>1. f \in Seq(Digits)
    BY <1>2
  <2> HIDE DEF f
  <2>2. ReadText(w \o <<Point>> \o f, NanoDigits)
        = NumberOf(w) * Power(Base, NanoDigits) + NumberOf(f) * Power(Base, NanoDigits - Len(f))
    BY <1>1, <2>1, ReadWithPoint
  <2> QED  BY <2>2 DEF f
<1>5. NanoDigits - Len(o \o s) = Len(t) - n
  BY <1>1, <1>3
<1>6. w \o p \o (o \o s) = w \o p \o o \o s
  <2> DEFINE C == 0..Base
             v == w \o p
  <2>1. Digits \subseteq C /\ Point \in C
    BY DigitsAre DEF Digits
  <2>2. w \in Seq(C) /\ o \in Seq(C) /\ s \in Seq(C) /\ p \in Seq(C)
    <3>1. w \in Seq(C) /\ o \in Seq(C) /\ s \in Seq(C)
      BY <1>2, <2>1, SeqMonotonic
    <3>2. p \in Seq(C)
      BY <2>1
    <3> QED  BY <3>1, <3>2
  <2> HIDE DEF C
  <2>3. v \in Seq(C)
    BY <2>2, ConcatProperties
  <2> HIDE DEF v
  <2>4. (v \o o) \o s = v \o (o \o s)
    BY <2>2, <2>3, TextsAssociate DEF C
  <2> QED  BY <2>4 DEF v
<1> QED  BY <1>3, <1>4, <1>5, <1>6 DEF o, s

LEMMA BeginningOfSubSeq ==
  ASSUME NEW t \in Seq(Digits), NEW i \in 1..Len(t), NEW j \in 1..Len(t),
         NEW m \in 1..((j - i) + 1)
  PROVE  SubSeq(SubSeq(t, i, j), 1, m) = SubSeq(t, i, (i + m) - 1)
<1>1. (i + 1) - 1 = i /\ 1 \in 1..((j - i) + 1)
  BY LenProperties
<1>2. SubSeq(SubSeq(t, i, j), 1, m) = SubSeq(t, (i + 1) - 1, (i + m) - 1)
  BY <1>1, SubSeqOfSubSeq
<1> QED  BY <1>1, <1>2

\* What is read of a rate with its point
LEMMA DecimalRead ==
  ASSUME NEW t \in Seq(Digits)
  PROVE  ReadText(DecimalString(t), Decimals) = NumberOf(t)
<1> DEFINE L == Len(t)
           k == L - Decimals
<1>1. L \in Nat /\ Decimals \in Nat /\ k \in Int /\ \A i \in 1..L : t[i] \in Digits
  BY DigitsAre, Divisors DEF Decimals
<1>2. NumberOf(t) \in Nat /\ Power(Base, Decimals) \in Nat
  BY <1>1, NumberIsNat, PowerLaw, DigitsAre
<1> HIDE DEF L
<1>3. CASE k > 0
  <2> DEFINE w == SubSeq(t, 1, k)
             s == Stripped(t)
             f == SubSeq(t, k + 1, Len(s))
             r == SubSeq(t, k + 1, L)
  <2>1. k \in 1..L /\ k \in Nat /\ L - k = Decimals
    BY <1>1, <1>3
  <2>2. PICK n \in 0..L : s = SubSeq(t, 1, n) /\ \A i \in (n + 1)..L : t[i] = 0
    BY StrippedIs DEF L
  <2>3. Len(s) = n /\ n \in Nat
    BY <1>1, <2>2, NumberOfBeginning DEF L
  <2> HIDE DEF s, k
  <2>4. w \in Seq(Digits) /\ Len(w) = k
    <3>1. 1 \in Int /\ k \in Int /\ \A i \in 1..k : t[i] \in Digits
      BY <1>1, <2>1
    <3>2. w \in Seq(Digits) /\ Len(w) = IF 1 <= k THEN k - 1 + 1 ELSE 0
      BY <3>1, SubSeqProperties
    <3> HIDE DEF w
    <3> QED  BY <2>1, <3>2
  <2>5. r \in Seq(Digits) /\ Len(r) = Decimals /\ \A i \in 1..Decimals : r[i] = t[k + i]
    <3>1. k + 1 \in Int /\ L \in Int /\ \A i \in (k + 1)..L : t[i] \in Digits
      BY <1>1, <2>1
    <3>2. /\ r \in Seq(Digits) /\ Len(r) = IF k + 1 <= L THEN (L - (k + 1)) + 1 ELSE 0
          /\ \A i \in 1..((L - (k + 1)) + 1) : r[i] = t[((k + 1) + i) - 1]
      BY <3>1, SubSeqProperties
    <3> HIDE DEF r
    <3>3. Len(r) = Decimals /\ (L - (k + 1)) + 1 = Decimals
      BY <1>1, <2>1, <3>2
    <3>4. ASSUME NEW i \in 1..Decimals PROVE ((k + 1) + i) - 1 = k + i
      BY <1>1, <2>1
    <3> QED  BY <3>2, <3>3, <3>4
  <2>6. t = w \o r
    <3>1. t = SubSeq(t, 1, L)
      BY SubSeqFull DEF L
    <3>2. 1 \in 1..(Len(t) + 1) /\ k \in (1 - 1)..Len(t) /\ Len(t) \in k..Len(t)
      BY <1>1, <2>1 DEF L
    <3>3. SubSeq(t, 1, k) \o SubSeq(t, k + 1, Len(t)) = SubSeq(t, 1, Len(t))
      BY <3>2, ConcatAdjacentSubSeq
    <3> QED  BY <3>1, <3>3 DEF L
  <2>7. NumberOf(t) = NumberOf(w) * Power(Base, Decimals) + NumberOf(r)
    BY <2>4, <2>5, <2>6, NumberOfConcat
  <2>8. f \in Seq(Digits) /\ NumberOf(r) = NumberOf(f) * Power(Base, Decimals - Len(f))
    <3>1. CASE n > k
      <4> DEFINE m == n - k
                 b == SubSeq(r, 1, m)
      <4>1. m \in 0..Len(r) /\ m \in 1..Len(r) /\ \A i \in (m + 1)..Len(r) : r[i] = 0
        <5>1. m \in 1..Len(r) /\ m \in 0..Len(r)
          BY <1>1, <2>1, <2>2, <2>5, <3>1
        <5>2. ASSUME NEW i \in (m + 1)..Len(r) PROVE r[i] = 0
          <6>1. i \in 1..Decimals /\ k + i \in (n + 1)..L
            BY <1>1, <2>1, <2>3, <2>5, <5>1
          <6> QED  BY <2>2, <2>5, <6>1
        <5> QED  BY <5>1, <5>2
      <4>2. /\ b \in Seq(Digits) /\ Len(b) = m
            /\ NumberOf(r) = NumberOf(b) * Power(Base, Len(r) - m)
        <5> HIDE DEF m, r
        <5> QED  BY <2>5, <4>1, NumberOfBeginning
      <4>3. b = f
        <5> DEFINE c == k + 1
        <5>1. c \in 1..Len(t) /\ L \in 1..Len(t) /\ m \in 1..((L - c) + 1) /\ (c + m) - 1 = n
          BY <1>1, <2>1, <2>2, <2>3, <3>1 DEF L
        <5>2. b = SubSeq(SubSeq(t, c, L), 1, m) /\ f = SubSeq(t, c, n)
          BY <2>3
        <5> HIDE DEF m, c, b, f
        <5>3. SubSeq(SubSeq(t, c, L), 1, m) = SubSeq(t, c, (c + m) - 1)
          BY <5>1, BeginningOfSubSeq
        <5> QED  BY <5>1, <5>2, <5>3
      <4> QED  BY <2>5, <4>2, <4>3
    <3>2. CASE ~(n > k)
      <4>1. f = <<>>
        <5>1. k + 1 \in Int /\ Len(s) \in Int /\ Len(s) < k + 1
          BY <2>1, <2>3, <3>2
        <5> QED  BY <5>1, SubSeqEmpty
      <4> HIDE DEF f
      <4>2. ASSUME NEW i \in 1..Len(r) PROVE r[i] = 0
        <5>1. i \in 1..Decimals /\ k + i \in (n + 1)..L
          BY <1>1, <2>1, <2>3, <2>5, <3>2
        <5> QED  BY <2>2, <2>5, <5>1
      <4> HIDE DEF r
      <4>3. NumberOf(r) = 0
        BY <2>5, <4>2, NumberOfZeros
      <4>4. Power(Base, Decimals - Len(<<>>)) \in Nat
        <5>1. Decimals - Len(<<>>) \in Nat
          BY <1>1, EmptySeq
        <5> QED  BY <5>1, PowerLaw, DigitsAre
      <4>5. ASSUME NEW x \in Nat PROVE 0 * x = 0
        OBVIOUS
      <4> QED  BY <4>1, <4>3, <4>4, <4>5, EmptyNumber
    <3> QED  BY <3>1, <3>2
  <2>9. DecimalString(t) = w \o <<Point>> \o f
    BY <1>3 DEF DecimalString, k, L, s
  <2> HIDE DEF w, f, r
  <2>10. ReadText(w \o <<Point>> \o f, Decimals)
         = NumberOf(w) * Power(Base, Decimals) + NumberOf(f) * Power(Base, Decimals - Len(f))
    BY <1>1, <2>4, <2>8, ReadWithPoint
  <2> QED  BY <2>7, <2>8, <2>9, <2>10
<1>4. CASE ~(k > 0)
  <2> DEFINE z == -k
             o == Zeros(z)
             s == Stripped(t)
             p == <<Point>>
  <2>1. z \in Nat /\ z = Decimals - L
    BY <1>1, <1>4
  <2>2. DecimalString(t) = <<0, Point>> \o o \o s
    BY <1>4 DEF DecimalString, L
  <2>3. /\ o \in Seq(Digits) /\ s \in Seq(Digits) /\ o \o s \in Seq(Digits)
        /\ \E n \in 0..Len(t) :
             /\ Len(o \o s) = z + n
             /\ NumberOf(t) = NumberOf(o \o s) * Power(Base, Len(t) - n)
    <3> HIDE DEF z
    <3> QED  BY <2>1, PaddedNumber
  <2> HIDE DEF o, s, z
  <2>4. PICK n \in 0..Len(t) : /\ Len(o \o s) = z + n
                               /\ NumberOf(t) = NumberOf(o \o s) * Power(Base, Len(t) - n)
    BY <2>3
  <2>5. <<0>> \in Seq(Digits) /\ NumberOf(<<0>>) = 0
    BY NumberOfDigit, DigitsAre
  <2>6. <<0, Point>> \o o \o s = <<0>> \o p \o (o \o s)
    <3> DEFINE C == 0..Base
    <3>1. Digits \subseteq C /\ Point \in C /\ 0 \in C
      BY DigitsAre DEF Digits
    <3>2. o \in Seq(C) /\ s \in Seq(C)
      BY <2>3, <3>1, SeqMonotonic
    <3> HIDE DEF C
    <3>3. <<0, Point>> \in Seq(C)
      BY <3>1
    <3>4. <<0>> \o p = <<0, Point>>
      <4> DEFINE a == <<0>> \o p
      <4>1. /\ <<0>> \in Seq(C) /\ Len(<<0>>) = 1 /\ <<0>>[1] = 0
            /\ p \in Seq(C) /\ Len(p) = 1 /\ p[1] = Point
        BY <3>1
      <4>2. /\ a \in Seq(C) /\ Len(a) = 2
            /\ \A i \in 1..2 : a[i] = IF i <= 1 THEN <<0>>[i] ELSE p[i - 1]
        <5> HIDE DEF p
        <5>1. /\ a \in Seq(C) /\ Len(a) = Len(<<0>>) + Len(p)
              /\ \A i \in 1..(Len(<<0>>) + Len(p)) :
                   a[i] = IF i <= Len(<<0>>) THEN <<0>>[i] ELSE p[i - Len(<<0>>)]
          BY <4>1, ConcatProperties
        <5> QED  BY <4>1, <5>1
      <4> HIDE DEF a
      <4>3. a[1] = 0 /\ a[2] = Point
        <5>1. a[1] = <<0>>[1] /\ a[2] = p[2 - 1]
          BY <4>2
        <5> QED  BY <4>1, <5>1
      <4>4. Len(<<0, Point>>) = 2 /\ <<0, Point>>[1] = 0 /\ <<0, Point>>[2] = Point
        OBVIOUS
      <4> DEFINE c == <<0, Point>>
      <4>5. c \in Seq(C) /\ Len(c) = 2 /\ c[1] = 0 /\ c[2] = Point
        BY <3>3, <4>4
      <4> HIDE DEF c
      <4>6. Len(a) = Len(c) /\ \A i \in 1..Len(a) : a[i] = c[i]
        <5>1. \A i \in 1..2 : i = 1 \/ i = 2
          OBVIOUS
        <5> QED  BY <4>2, <4>3, <4>5, <5>1
      <4>7. a = c
        BY <4>2, <4>5, <4>6, SeqEqual
      <4> QED  BY <4>7 DEF a, c
    <3> DEFINE v == <<0, Point>>
    <3>5. v \in Seq(C)
      BY <3>3
    <3> HIDE DEF v
    <3>6. (v \o o) \o s = v \o (o \o s)
      BY <3>2, <3>5, TextsAssociate DEF C
    <3> QED  BY <3>4, <3>6 DEF v
  <2>7. ReadText(<<0>> \o p \o (o \o s), Decimals)
        = 0 * Power(Base, Decimals) + NumberOf(o \o s) * Power(Base, Decimals - Len(o \o s))
    <3> DEFINE w == <<0>>
               f == o \o s
    <3>1. w \in Seq(Digits) /\ NumberOf(w) = 0 /\ f \in Seq(Digits) /\ Decimals \in Nat
      BY <1>1, <2>3, <2>5
    <3> HIDE DEF w, f, p
    <3>2. ReadText(w \o <<Point>> \o f, Decimals)
          = NumberOf(w) * Power(Base, Decimals) + NumberOf(f) * Power(Base, Decimals - Len(f))
      BY <3>1, ReadWithPoint
    <3>3. ReadText(w \o <<Point>> \o f, Decimals)
          = 0 * Power(Base, Decimals) + NumberOf(f) * Power(Base, Decimals - Len(f))
      BY <3>1, <3>2
    <3> QED  BY <3>3 DEF w, f, p
  <2>8. Decimals - Len(o \o s) = Len(t) - n
    BY <1>1, <2>1, <2>4 DEF L
  <2>9. ASSUME NEW x \in Nat, NEW y \in Nat PROVE 0 * x + y = y
    OBVIOUS
  <2> QED  BY <1>2, <2>2, <2>4, <2>6, <2>7, <2>8, <2>9
<1> QED  BY <1>3, <1>4

(***************************************************************************)
(* The end of a division                                                   *)
(***************************************************************************)
Ended(x) == Kept(x) /\ ~Gte256(x.resMod, x.r)

LEMMA DivisionEnds ==
  ASSUME NEW x, Ended(x)
  PROVE  /\ Value256(x.resDiv) = Value256(x.l) \div Value256(x.r)
         /\ Value256(x.resMod) = Value256(x.l) % Value256(x.r)
         /\ Value256(x.resMod) < Value256(x.r)
         /\ Value256(x.r) \in Nat \ {0} /\ Value256(x.l) \in Nat
         /\ Value256(x.resDiv) \in Nat /\ Value256(x.resMod) \in Nat
<1> DEFINE l == Value256(x.l)
           r == Value256(x.r)
           q == Value256(x.resDiv)
           m == Value256(x.resMod)
<1>1. x.l \in U256 /\ x.r \in U256 /\ x.resDiv \in U256 /\ x.resMod \in U256
  BY KeptTypes DEF Ended
<1>2. l \in Nat /\ r \in Nat /\ q \in Nat /\ m \in Nat
  BY <1>1, ValueNat
<1>3. r > 0 /\ l = r * q + m
  BY DEF Ended, Kept
<1>4. m < r
  BY <1>1, <1>2, Gt256Value DEF Ended
<1> HIDE DEF l, r, q, m
<1>5. r \in Nat \ {0}
  BY <1>2, <1>3
<1>6. l \div r = q /\ l % r = m
  BY <1>2, <1>3, <1>4, <1>5, DivModUnique
<1> QED  BY <1>2, <1>4, <1>5, <1>6 DEF l, r, q, m

LEMMA LowestWord ==
  ASSUME NEW n \in U256, Value256(n) < Word
  PROVE  n.lower.lower = Value256(n)
<1> DEFINE v == Value256(n)
<1>1. v \in 0..(Word - 1)
  BY ValueNat, Words
<1>2. Small(v) \in U256 /\ Value256(Small(v)) = v
  BY <1>1, SmallValue
<1>3. Small(v) = n
  BY <1>2, Gt256Value
<1>4. Small(v).lower.lower = v
  BY DEF Small, Pair
<1> QED  BY <1>3, <1>4

(***************************************************************************)
(* Writing: what the digits so far and the rest to divide say together     *)
(***************************************************************************)
Writing(x, ds, n) ==
  /\ x.r = Small(Base)
  /\ ds \in Seq(Digits)
  /\ Value256(x.l) * Power(Base, Len(ds)) + NumberOf(Reverse(ds)) = n
  /\ ds # <<>> => Value256(x.l) > 0

LEMMA WritingStarts ==
  ASSUME NEW l \in U256
  PROVE  Writing(Divide(l, Small(Base)), <<>>, Value256(l))
<1> DEFINE x == Divide(l, Small(Base))
<1>1. x.l = l /\ x.r = Small(Base)
  BY Divisors, DivideKeeps
<1> HIDE DEF x
<1>2. Reverse(<<>>) = <<>>
  BY EmptySeq DEF Reverse
<1>3. Value256(l) \in Nat /\ Len(<<>>) = 0 /\ Power(Base, 0) = 1
  BY ValueNat, EmptySeq, PowerLaw, DigitsAre
<1>4. ASSUME NEW v \in Nat PROVE v * 1 + 0 = v
  OBVIOUS
<1>5. Value256(l) * Power(Base, Len(<<>>)) + NumberOf(<<>>) = Value256(l)
  BY <1>3, <1>4, EmptyNumber
<1> QED  BY <1>1, <1>2, <1>5, EmptyNumber DEF Writing, x

\* The digit that a division by Base leaves
LEMMA DigitLeft ==
  ASSUME NEW x, Ended(x), x.r = Small(Base)
  PROVE  /\ x.resMod.lower.lower \in Digits
         /\ Value256(x.l) = Base * Value256(x.resDiv) + x.resMod.lower.lower
<1>1. /\ x.resMod \in U256 /\ Value256(x.resMod) < Base /\ Value256(x.resMod) \in Nat
      /\ Value256(x.l) = Base * Value256(x.resDiv) + Value256(x.resMod)
  <2>1. Value256(x.r) = Base
    BY Divisors
  <2> QED  BY <2>1, DivisionEnds, KeptTypes DEF Ended, Kept
<1>2. x.resMod.lower.lower = Value256(x.resMod)
  <2>1. Value256(x.resMod) < Word
    BY <1>1, Divisors, Words
  <2> QED  BY <1>1, <2>1, LowestWord
<1> QED  BY <1>1, <1>2, Divisors DEF Digits

LEMMA WritingGoesOn ==
  ASSUME NEW x, NEW ds, NEW n, Ended(x), Writing(x, ds, n), ~Zero256(x.resDiv)
  PROVE  Writing(Divide(x.resDiv, Small(Base)), Append(ds, x.resMod.lower.lower), n)
<1> DEFINE e == x.resMod.lower.lower
           q == Value256(x.resDiv)
           l == Value256(x.l)
           y == Divide(x.resDiv, Small(Base))
           P == Power(Base, Len(ds))
           v == NumberOf(Reverse(ds))
<1>1. ds \in Seq(Digits) /\ x.r = Small(Base) /\ l * P + v = n
  BY DEF Writing
<1>2. e \in Digits /\ l = Base * q + e
  BY <1>1, DigitLeft
<1>3. x.resDiv \in U256 /\ q \in Nat /\ q > 0
  <2>1. x.resDiv \in U256
    BY KeptTypes DEF Ended
  <2> QED  BY <2>1, ValueNat, ZeroValue
<1>4. y.l = x.resDiv /\ y.r = Small(Base)
  BY <1>3, Divisors, DivideKeeps
<1>5. /\ Append(ds, e) \in Seq(Digits) /\ Len(Append(ds, e)) = Len(ds) + 1
  BY <1>1, <1>2, AppendProperties
<1>6. NumberOf(Reverse(Append(ds, e))) = e * P + v
  BY <1>1, <1>2, NumberOfReverse
<1>7. Len(ds) \in Nat /\ Power(Base, Len(ds) + 1) = Base * P /\ P \in Nat
  BY <1>1, DigitsAre, PowerLaw
<1>8. v \in Nat /\ e \in Nat /\ Base \in Nat
  BY <1>1, <1>2, ReverseAppend, NumberIsNat, DigitsAre
<1> HIDE DEF e, q, l, P, v, y
<1>9. q * (Base * P) + (e * P + v) = n
  <2>1. ASSUME NEW a \in Nat PROVE (a + e) * P = a * P + e * P
    BY <1>7, <1>8
  <2>2. q * (Base * P) = (Base * q) * P
    BY <1>3, <1>7, <1>8
  <2>3. Base * q \in Nat /\ (Base * q) * P \in Nat /\ e * P \in Nat
    BY <1>3, <1>7, <1>8
  <2>4. l * P = (Base * q) * P + e * P
    BY <1>2, <2>1, <2>3
  <2> DEFINE f == (Base * q) * P
             g == e * P
  <2>5. l * P = f + g /\ f \in Nat /\ g \in Nat /\ q * (Base * P) = f
    BY <2>2, <2>3, <2>4
  <2> HIDE DEF f, g
  <2>6. f + (g + v) = (f + g) + v
    BY <1>8, <2>5
  <2> QED  BY <1>1, <2>5, <2>6 DEF g
<1>10. Writing(y, Append(ds, e), n)
  <2>1. Value256(y.l) = q
    BY <1>4 DEF q
  <2> QED  BY <1>3, <1>4, <1>5, <1>6, <1>7, <1>9, <2>1 DEF Writing
<1> QED  BY <1>10 DEF y, e

LEMMA WritingEnds ==
  ASSUME NEW x, NEW ds, NEW n, Ended(x), Writing(x, ds, n), Zero256(x.resDiv)
  PROVE  /\ Reverse(Append(ds, x.resMod.lower.lower)) \in Seq(Digits)
         /\ Len(Reverse(Append(ds, x.resMod.lower.lower))) = Len(ds) + 1
         /\ NumberOf(Reverse(Append(ds, x.resMod.lower.lower))) = n
<1> DEFINE e == x.resMod.lower.lower
           l == Value256(x.l)
           q == Value256(x.resDiv)
<1>1. ds \in Seq(Digits) /\ x.r = Small(Base)
      /\ l * Power(Base, Len(ds)) + NumberOf(Reverse(ds)) = n
  BY DEF Writing
<1>2. e \in Digits /\ l = Base * q + e
  BY <1>1, DigitLeft
<1>3. q = 0
  <2>1. x.resDiv \in U256
    BY KeptTypes DEF Ended
  <2> QED  BY <2>1, ZeroValue
<1>4. l = e
  <2> HIDE DEF e, l, q
  <2>1. Base * 0 = 0 /\ e \in Nat
    <3>1. Base \in Nat /\ Digits \subseteq Nat
      BY DigitsAre
    <3> QED  BY <1>2, <3>1
  <2> QED  BY <1>2, <1>3, <2>1
<1> HIDE DEF e, l
<1>5. NumberOf(Reverse(Append(ds, e))) = n
  BY <1>1, <1>2, <1>4, NumberOfReverse
<1>6. Reverse(Append(ds, e)) \in Seq(Digits) /\ Len(Reverse(Append(ds, e))) = Len(ds) + 1
  BY <1>1, <1>2, ReverseAppend
<1> QED  BY <1>5, <1>6 DEF e

\* A number that is less than Base^k has at most k digits.
LEMMA WritingRoom ==
  ASSUME NEW x, NEW ds, NEW n, Kept(x), Writing(x, ds, n), NEW k \in Nat,
         n < Power(Base, k), k > 0
  PROVE  Len(ds) < k /\ Len(ds) \in Nat
<1> DEFINE l == Value256(x.l)
           P == Power(Base, Len(ds))
           v == NumberOf(Reverse(ds))
<1>1. ds \in Seq(Digits) /\ l * P + v = n /\ (ds # <<>> => l > 0) /\ l \in Nat
  BY KeptTypes, ValueNat DEF Writing
<1>2. Len(ds) \in Nat /\ v \in Nat
  BY <1>1, ReverseAppend, NumberIsNat, DigitsAre
<1>3. CASE ds = <<>>
  BY <1>2, <1>3, EmptySeq
<1>4. CASE ds # <<>>
  <2>1. P \in Nat \ {0} /\ Power(Base, k) \in Nat
    BY <1>2, PowerPositive, PowerLaw, DigitsAre
  <2> HIDE DEF P, l, v
  <2>2. l * P >= P /\ l * P \in Nat
    <3>1. l \in Nat \ {0}
      BY <1>1, <1>4
    <3>2. ASSUME NEW a \in Nat \ {0}, NEW b \in Nat \ {0} PROVE a * b >= b /\ a * b \in Nat
      OBVIOUS
    <3> QED  BY <2>1, <3>1, <3>2
  <2> DEFINE f == l * P
  <2>3. f >= P /\ f \in Nat /\ f + v = n
    BY <1>1, <2>2
  <2> HIDE DEF f
  <2>4. P < Power(Base, k)
    BY <1>2, <2>1, <2>3
  <2>5. SUFFICES ASSUME k <= Len(ds) PROVE FALSE
    BY <1>2
  <2>6. Power(Base, k) <= P
    BY <1>2, <2>5, PowerGrows, DigitsAre DEF P
  <2> QED  BY <2>1, <2>4, <2>6
<1> QED  BY <1>3, <1>4

(***************************************************************************)
(* The parts of an amount                                                  *)
(***************************************************************************)
One == Power(Base, NanoDigits)
OnesOf(n) == (n \div One) \div One
FractionOf(n) == (n \div One) % One

\* The digits of an amount before its point, at most
WholeDigits == BufferSize - Decimals

LEMMA Rooms ==
  /\ One \in Nat \ {0} /\ Decimals \in Nat /\ NanoDigits \in Nat \ {0}
  /\ WholeDigits \in Nat /\ WholeDigits > 0 /\ BufferSize \in Nat /\ SizeLimit \in Nat
  /\ WholeDigits + NanoDigits + 1 < SizeLimit /\ WholeDigits < BufferSize
  /\ NanoDigits < BufferSize /\ WholeDigits < SizeLimit
<1>1. NanoDigits \in Nat \ {0} /\ BufferSize \in Nat /\ SizeLimit \in Nat
      /\ 2 * NanoDigits < BufferSize /\ BufferSize + 1 < SizeLimit + NanoDigits
  BY AmountAssumption, RoomAssumption
<1> QED  BY <1>1, Divisors DEF One, Decimals, WholeDigits

LEMMA PartsOf ==
  ASSUME NEW n \in 0..(Power(Word, 4) - 1)
  PROVE  /\ n \in Nat /\ n < Power(Base, BufferSize)
         /\ OnesOf(n) \in Nat /\ OnesOf(n) < Power(Base, WholeDigits)
         /\ FractionOf(n) \in Nat /\ FractionOf(n) < Power(Base, NanoDigits)
         /\ OnesOf(n) * Power(Base, NanoDigits) + FractionOf(n) = n \div One
<1> DEFINE q == n \div One
           w == OnesOf(n)
           f == FractionOf(n)
           B == Power(Base, BufferSize)
           W == Power(Base, WholeDigits)
<1>1. n \in Nat /\ n < B /\ B \in Nat
  <2>1. Power(Word, 4) \in Nat /\ B \in Nat
    BY Words, PowerLaw, Rooms, DigitsAre
  <2> HIDE DEF B
  <2>2. Power(Word, 4) <= B
    BY RoomAssumption DEF B
  <2> QED  BY <2>1, <2>2
<1>2. q \in Nat /\ n = One * q + (n % One) /\ n % One \in Nat
  BY <1>1, Rooms, DivMod
<1> HIDE DEF q
<1>3. w \in Nat /\ f \in Nat /\ f < One /\ q = One * w + f
  <2>1. w = q \div One /\ f = q % One
    BY DEF OnesOf, FractionOf, q
  <2> HIDE DEF w, f
  <2> QED  BY <1>2, <2>1, Rooms, DivMod
<1>4. B = W * (One * One) /\ W \in Nat
  <2>1. BufferSize = WholeDigits + (NanoDigits + NanoDigits)
    BY Rooms DEF WholeDigits, Decimals
  <2>2. Power(Base, NanoDigits + NanoDigits) = One * One
    BY PowerSum, Rooms, DigitsAre DEF One
  <2>3. NanoDigits + NanoDigits \in Nat /\ WholeDigits \in Nat /\ Base \in Nat
    BY Rooms, DigitsAre
  <2>4. Power(Base, WholeDigits + (NanoDigits + NanoDigits))
        = Power(Base, WholeDigits) * Power(Base, NanoDigits + NanoDigits)
    BY <2>3, PowerSum
  <2>5. W \in Nat
    BY <2>3, PowerLaw
  <2> QED  BY <2>1, <2>2, <2>4, <2>5
<1> HIDE DEF w, f, B, W
<1>5. w < W
  <2> DEFINE D == One * One
  <2>1. D \in Nat \ {0}
    BY Rooms
  <2>2. w * D <= n
    <3>1. One * w \in Nat /\ One * w <= q
      BY <1>3, Rooms
    <3>2. One * (One * w) <= One * q
      <4>1. q - One * w \in Nat /\ q = One * w + (q - One * w)
        BY <1>2, <3>1
      <4> DEFINE a == One * w
                 b == q - One * w
      <4> HIDE DEF a, b
      <4>2. One * (a + b) = One * a + One * b /\ One * b \in Nat /\ One * a \in Nat
        BY <3>1, <4>1, Rooms DEF a, b
      <4>3. q = a + b
        BY <4>1 DEF a, b
      <4>4. One * a <= One * q
        BY <4>2, <4>3
      <4> QED  BY <4>4 DEF a
    <3>3. One * (One * w) = w * D
      BY <1>3, Rooms
    <3> DEFINE e == One * q
               g == One * (One * w)
    <3>4. e \in Nat /\ n = e + (n % One) /\ g <= e /\ g \in Nat
      BY <1>2, <1>3, <3>2, Rooms
    <3> HIDE DEF e, g
    <3>5. g <= n
      BY <1>2, <3>4
    <3> QED  BY <3>3, <3>5 DEF g
  <2> HIDE DEF D
  <2>3. SUFFICES ASSUME W <= w PROVE FALSE
    BY <1>3, <1>4
  <2>4. W * D <= w * D
    <3>1. w - W \in Nat /\ w = W + (w - W)
      BY <1>3, <1>4, <2>3
    <3>2. ASSUME NEW a \in Nat PROVE (W + a) * D = W * D + a * D /\ a * D \in Nat /\ W * D \in Nat
      BY <1>4, <2>1
    <3>3. w * D = W * D + (w - W) * D /\ (w - W) * D \in Nat /\ W * D \in Nat
      BY <3>1, <3>2
    <3> QED  BY <3>3
  <2>5. B = W * D
    BY <1>4 DEF D
  <2>6. w * D \in Nat
    BY <1>3, <2>1
  <2> DEFINE e == w * D
  <2>7. e \in Nat /\ e <= n /\ B <= e
    BY <2>2, <2>4, <2>5, <2>6
  <2> HIDE DEF e
  <2> QED  BY <1>1, <2>7
<1>6. w * Power(Base, NanoDigits) + f = q /\ f < Power(Base, NanoDigits)
  <2>1. One * w = w * One
    BY <1>3, Rooms
  <2> QED  BY <1>3, <2>1 DEF One
<1> QED  BY <1>1, <1>3, <1>5, <1>6 DEF w, f, q, B, W

(***************************************************************************)
(* What a conversion holds                                                 *)
(***************************************************************************)
WritingInv ==
  /\ DivisionsKept
  /\ job.number \in 0..(Power(Word, 4) - 1)
  /\ stage \in {"idle", "nano", "one", "whole", "fraction", "rate", "done"}
  /\ stage \in {"idle", "nano", "one", "whole", "rate"} => output = <<>>
  /\ stage \in {"nano", "one", "whole", "fraction"} => job.of = "amount"
  /\ stage \in {"nano", "one"} => d.r = Nano
  /\ stage = "nano" => Value256(d.l) = job.number
  /\ stage = "one" => Value256(d.l) = job.number \div One
  /\ stage = "whole" => /\ Writing(d, digits, OnesOf(job.number))
                        /\ Value256(rMod) = FractionOf(job.number)
  /\ stage = "fraction" => /\ Writing(d, digits, FractionOf(job.number))
                           /\ output \in Seq(Digits) /\ NumberOf(output) = OnesOf(job.number)
                           /\ Len(output) <= WholeDigits
  /\ stage = "rate" => job.of = "rate" /\ Writing(d, digits, job.number)
  /\ stage = "done" => /\ NumbersAreExact
                       /\ job.of = "amount" => Len(output) < SizeLimit

LEMMA WritingInit == AmountInit => WritingInv
<1> SUFFICES ASSUME AmountInit PROVE WritingInv
  OBVIOUS
<1>1. DivisionsKept /\ job.number = 0 /\ stage = "idle" /\ output = <<>>
  BY DivisionsInit DEF AmountInit, IdleJob
<1>2. 0 \in 0..(Power(Word, 4) - 1)
  <2>1. Power(Word, 4) \in Nat \ {0}
    BY Words, PowerPositive
  <2> QED  BY <2>1
<1> QED  BY <1>1, <1>2 DEF WritingInv

LEMMA CallKeepsWriting == WritingInv /\ DivisionsKept' /\ Call => WritingInv'
<1> SUFFICES ASSUME WritingInv, DivisionsKept', Call PROVE WritingInv'
  OBVIOUS
<1>1. output = <<>>
  BY DEF Call, WritingInv
<1>2. ASSUME NEW n \in Amounts \cup Rates
      PROVE  n \in 0..(Power(Word, 4) - 1) /\ Read256(n) \in U256 /\ Value256(Read256(n)) = n
  BY NumbersTyped, AmountAssumption
<1>3. ASSUME NEW n \in Amounts, StartAmount(n) PROVE WritingInv'
  <2>1. Divide(Read256(n), Nano).l = Read256(n) /\ Divide(Read256(n), Nano).r = Nano
    <3>1. Value256(Nano) > 0
      BY Divisors
    <3> QED  BY <1>2, <3>1, Divisors, DivideKeeps
  <2>2. /\ job' = [of |-> "amount", number |-> n] /\ stage' = "nano"
        /\ d' = Divide(Read256(n), Nano) /\ output' = output
    BY <1>3 DEF StartAmount
  <2> QED  BY <1>1, <1>2, <2>1, <2>2 DEF WritingInv
<1>4. ASSUME NEW n \in Rates, StartRate(n) PROVE WritingInv'
  <2>1. Writing(Divide(Read256(n), Small(Base)), <<>>, n)
    BY <1>2, WritingStarts
  <2>2. /\ job' = [of |-> "rate", number |-> n] /\ stage' = "rate" /\ digits' = <<>>
        /\ d' = Divide(Read256(n), Small(Base)) /\ output' = output
    BY <1>4 DEF StartRate, Write
  <2> QED  BY <1>1, <1>2, <2>1, <2>2 DEF WritingInv
<1> QED  BY <1>3, <1>4 DEF Call

LEMMA TurnKeepsWriting == WritingInv /\ DivisionsKept' /\ DivisionTurn => WritingInv'
<1> SUFFICES ASSUME WritingInv, DivisionsKept', DivisionTurn PROVE WritingInv'
  OBVIOUS
<1>1. Running /\ Kept(d) /\ Gte256(d.resMod, d.r) /\ d' = Turn(d)
  BY DEF DivisionTurn, Dividing, Turn, WritingInv, DivisionsKept
<1>2. d'.l = d.l /\ d'.r = d.r
  BY <1>1, TurnKeeps
<1>3. job' = job /\ stage' = stage /\ rMod' = rMod /\ digits' = digits /\ output' = output
  BY DEF DivisionTurn
<1>4. ASSUME NEW n, Writing(d, digits, n) PROVE Writing(d, digits, n)'
  BY <1>2, <1>3, <1>4 DEF Writing
<1>5. stage # "done"
  BY <1>1 DEF Running
<1> QED  BY <1>2, <1>3, <1>4, <1>5 DEF WritingInv

LEMMA EndedNow == DivisionsKept /\ Divided => Ended(d) /\ d.resDiv \in U256 /\ d.resMod \in U256
BY KeptTypes DEF DivisionsKept, Divided, Ended

LEMMA ToOneKeepsWriting == WritingInv /\ DivisionsKept' /\ ToOne => WritingInv'
<1> SUFFICES ASSUME WritingInv, DivisionsKept', ToOne PROVE WritingInv'
  OBVIOUS
<1>1. Divided /\ stage = "nano" /\ Ended(d) /\ d.resDiv \in U256
  BY EndedNow DEF ToOne, WritingInv
<1>2. Value256(d.l) = job.number /\ d.r = Nano /\ output = <<>> /\ job.of = "amount"
  BY <1>1 DEF WritingInv
<1>3. Value256(d.resDiv) = job.number \div One
  BY <1>1, <1>2, DivisionEnds, Divisors DEF One
<1>4. Divide(d.resDiv, Nano).l = d.resDiv /\ Divide(d.resDiv, Nano).r = Nano
  BY <1>1, Divisors, DivideKeeps
<1>5. /\ stage' = "one" /\ d' = Divide(d.resDiv, Nano)
      /\ job' = job /\ rMod' = rMod /\ digits' = digits /\ output' = output
  BY DEF ToOne
<1> QED  BY <1>2, <1>3, <1>4, <1>5 DEF WritingInv

LEMMA WholeKeepsWriting == WritingInv /\ DivisionsKept' /\ Whole => WritingInv'
<1> SUFFICES ASSUME WritingInv, DivisionsKept', Whole PROVE WritingInv'
  OBVIOUS
<1>1. Divided /\ stage = "one" /\ Ended(d) /\ d.resDiv \in U256
  BY EndedNow DEF Whole, WritingInv
<1>2. Value256(d.l) = job.number \div One /\ d.r = Nano /\ output = <<>> /\ job.of = "amount"
  BY <1>1 DEF WritingInv
<1>3. /\ Value256(d.resDiv) = OnesOf(job.number)
      /\ Value256(d.resMod) = FractionOf(job.number)
  BY <1>1, <1>2, DivisionEnds, Divisors DEF One, OnesOf, FractionOf
<1>4. Writing(Divide(d.resDiv, Small(Base)), <<>>, OnesOf(job.number))
  BY <1>1, <1>3, WritingStarts
<1>5. /\ stage' = "whole" /\ d' = Divide(d.resDiv, Small(Base)) /\ digits' = <<>>
      /\ job' = job /\ rMod' = d.resMod /\ output' = output
  BY DEF Whole, Write
<1> QED  BY <1>2, <1>3, <1>4, <1>5 DEF WritingInv

\* What is written, by the stage
ToWrite ==
  IF stage = "whole" THEN OnesOf(job.number)
  ELSE IF stage = "fraction" THEN FractionOf(job.number) ELSE job.number

LEMMA WritesInRoom ==
  WritingInv /\ InString =>
    /\ Writing(d, digits, ToWrite) /\ Kept(d)
    /\ Len(digits) \in Nat
    /\ stage = "whole" => Len(digits) < WholeDigits
    /\ stage = "fraction" => Len(digits) < NanoDigits
    /\ stage = "rate" => Len(digits) < BufferSize
<1> SUFFICES ASSUME WritingInv, InString
             PROVE  /\ Writing(d, digits, ToWrite) /\ Kept(d)
                    /\ Len(digits) \in Nat
                    /\ stage = "whole" => Len(digits) < WholeDigits
                    /\ stage = "fraction" => Len(digits) < NanoDigits
                    /\ stage = "rate" => Len(digits) < BufferSize
  OBVIOUS
<1>1. Writing(d, digits, ToWrite)
  BY DEF WritingInv, InString, ToWrite
<1>2. Kept(d)
  BY DEF WritingInv, DivisionsKept, InString, Running
<1>3. job.number \in 0..(Power(Word, 4) - 1)
  BY DEF WritingInv
<1>4. CASE stage = "whole"
  <2>1. ToWrite < Power(Base, WholeDigits)
    BY <1>3, <1>4, PartsOf DEF ToWrite
  <2> QED  BY <1>1, <1>2, <1>4, <2>1, Rooms, WritingRoom
<1>5. CASE stage = "fraction"
  <2>1. ToWrite < Power(Base, NanoDigits) /\ NanoDigits \in Nat /\ NanoDigits > 0
    BY <1>3, <1>5, PartsOf, Rooms DEF ToWrite
  <2> QED  BY <1>1, <1>2, <1>5, <2>1, WritingRoom
<1>6. CASE stage = "rate"
  <2>1. ToWrite < Power(Base, BufferSize) /\ BufferSize \in Nat /\ BufferSize > 0
    BY <1>3, <1>6, PartsOf, Rooms DEF ToWrite
  <2> QED  BY <1>1, <1>2, <1>6, <2>1, WritingRoom
<1> QED  BY <1>1, <1>2, <1>4, <1>5, <1>6 DEF InString

LEMMA DigitKeepsWriting == WritingInv /\ DivisionsKept' /\ Digit => WritingInv'
<1> SUFFICES ASSUME WritingInv, DivisionsKept', Digit PROVE WritingInv'
  OBVIOUS
<1> DEFINE x == Divide(d.resDiv, Small(Base))
           ds == Append(digits, d.resMod.lower.lower)
<1>1. Divided /\ InString /\ ~Zero256(d.resDiv) /\ Ended(d) /\ d.resDiv \in U256
  BY EndedNow DEF Digit, WritingInv
<1>2. Writing(d, digits, ToWrite)
  BY <1>1, WritesInRoom
<1>3. Writing(x, ds, ToWrite)
  BY <1>1, <1>2, WritingGoesOn
<1>4. Kept(x)
  BY <1>1, DivideKept
<1>5. digits' = ds /\ job' = job /\ rMod' = rMod /\ output' = output
  BY DEF Digit
<1> HIDE DEF x, ds
<1>6. ToWrite < Power(Base, BufferSize)
  <2>1. /\ job.number \in Nat /\ job.number < Power(Base, BufferSize)
        /\ OnesOf(job.number) < Power(Base, WholeDigits) /\ OnesOf(job.number) \in Nat
        /\ FractionOf(job.number) < Power(Base, NanoDigits) /\ FractionOf(job.number) \in Nat
    BY PartsOf DEF WritingInv
  <2>2. /\ Power(Base, WholeDigits) <= Power(Base, BufferSize)
        /\ Power(Base, NanoDigits) <= Power(Base, BufferSize)
    BY Rooms, PowerGrows, DigitsAre
  <2>3. Power(Base, WholeDigits) \in Nat /\ Power(Base, BufferSize) \in Nat /\ Power(Base, NanoDigits) \in Nat
    BY Rooms, PowerLaw, DigitsAre
  <2> QED  BY <2>1, <2>2, <2>3 DEF ToWrite
<1>7. Len(ds) < BufferSize /\ Len(ds) \in Nat
  <2>1. BufferSize \in Nat /\ BufferSize > 0
    BY Rooms
  <2> QED  BY <1>3, <1>4, <1>6, <2>1, WritingRoom
<1>8. ~OutOfRoom
  BY <1>5, <1>7, Rooms DEF OutOfRoom
<1>9. d' = x /\ stage' = stage
  BY <1>8 DEF Digit, x
<1>10. Writing(d', digits', ToWrite)
  BY <1>3, <1>5, <1>9
<1>11. /\ stage \in {"whole", "fraction", "rate"}
       /\ stage = "whole" => ToWrite = OnesOf(job.number)
       /\ stage = "fraction" => ToWrite = FractionOf(job.number)
       /\ stage = "rate" => ToWrite = job.number
  BY <1>1 DEF InString, ToWrite
<1> HIDE DEF ToWrite
<1> QED  BY <1>5, <1>9, <1>10, <1>11 DEF WritingInv

\* The text when its last digit is there
LEMMA TextWritten ==
  WritingInv /\ LastDigit =>
    Text \in Seq(Digits) /\ Len(Text) = Len(digits) + 1 /\ NumberOf(Text) = ToWrite
<1> SUFFICES ASSUME WritingInv, LastDigit
             PROVE  Text \in Seq(Digits) /\ Len(Text) = Len(digits) + 1 /\ NumberOf(Text) = ToWrite
  OBVIOUS
<1>1. InString /\ Ended(d) /\ Zero256(d.resDiv)
  BY EndedNow DEF LastDigit, WritingInv
<1>2. Writing(d, digits, ToWrite)
  BY <1>1, WritesInRoom
<1> QED  BY <1>1, <1>2, WritingEnds DEF Text

LEMMA WholeWrittenKeepsWriting == WritingInv /\ DivisionsKept' /\ WholeWritten => WritingInv'
<1> SUFFICES ASSUME WritingInv, DivisionsKept', WholeWritten PROVE WritingInv'
  OBVIOUS
<1>1. LastDigit /\ stage = "whole" /\ InString
  BY DEF WholeWritten, LastDigit
<1>2. /\ Text \in Seq(Digits) /\ NumberOf(Text) = OnesOf(job.number) /\ Len(Text) <= WholeDigits
  <2>1. Text \in Seq(Digits) /\ Len(Text) = Len(digits) + 1 /\ NumberOf(Text) = OnesOf(job.number)
    BY <1>1, TextWritten DEF ToWrite
  <2>2. Len(digits) \in Nat /\ Len(digits) < WholeDigits
    BY <1>1, WritesInRoom
  <2>3. Len(digits) + 1 <= WholeDigits
    BY <2>2, Rooms
  <2> QED  BY <2>1, <2>3
<1>3. /\ Value256(rMod) = FractionOf(job.number) /\ rMod \in U256 /\ job.of = "amount"
      /\ job.number \in 0..(Power(Word, 4) - 1)
  BY <1>1 DEF WritingInv, DivisionsKept
<1>4. output' = Text /\ job' = job /\ rMod' = rMod
  BY DEF WholeWritten
<1> HIDE DEF Text
<1>5. CASE Zero256(rMod)
  <2>1. stage' = "done"
    BY <1>5 DEF WholeWritten
  <2>2. FractionOf(job.number) = 0
    BY <1>3, <1>5, ZeroValue
  <2>3. ReadText(Text, NanoDigits) = job.number \div One
    <3>1. ReadText(Text, NanoDigits) = OnesOf(job.number) * Power(Base, NanoDigits)
      BY <1>2, ReadWhole, Rooms
    <3>2. /\ OnesOf(job.number) * Power(Base, NanoDigits) + 0 = job.number \div One
          /\ OnesOf(job.number) \in Nat
      BY <1>3, <2>2, PartsOf
    <3>3. OnesOf(job.number) * Power(Base, NanoDigits) \in Nat
      BY <3>2, Divisors
    <3> QED  BY <3>1, <3>2, <3>3
  <2>4. NumbersAreExact'
    BY <1>3, <1>4, <2>1, <2>3 DEF NumbersAreExact, One
  <2>5. Len(Text) < SizeLimit
    <3>1. Len(Text) \in Nat
      BY <1>2, DigitsAre
    <3> QED  BY <1>2, <3>1, Rooms
  <2> QED  BY <1>3, <1>4, <2>1, <2>4, <2>5 DEF WritingInv
<1>6. CASE ~Zero256(rMod)
  <2>1. stage' = "fraction" /\ digits' = <<>> /\ d' = Divide(rMod, Small(Base))
    BY <1>6 DEF WholeWritten, Write
  <2>2. Writing(Divide(rMod, Small(Base)), <<>>, FractionOf(job.number))
    BY <1>3, WritingStarts
  <2> QED  BY <1>2, <1>3, <1>4, <2>1, <2>2 DEF WritingInv
<1> QED  BY <1>5, <1>6

LEMMA FractionWrittenKeepsWriting == WritingInv /\ DivisionsKept' /\ FractionWritten => WritingInv'
<1> SUFFICES ASSUME WritingInv, DivisionsKept', FractionWritten PROVE WritingInv'
  OBVIOUS
<1>1. LastDigit /\ stage = "fraction" /\ InString
  BY DEF FractionWritten, LastDigit
<1>2. /\ Text \in Seq(Digits) /\ NumberOf(Text) = FractionOf(job.number)
      /\ Len(Text) <= NanoDigits /\ Len(Text) \in Nat
  <2>1. Text \in Seq(Digits) /\ Len(Text) = Len(digits) + 1 /\ NumberOf(Text) = FractionOf(job.number)
    BY <1>1, TextWritten DEF ToWrite
  <2>2. Len(digits) \in Nat /\ Len(digits) < NanoDigits
    BY <1>1, WritesInRoom
  <2>3. Len(digits) + 1 <= NanoDigits /\ Len(digits) + 1 \in Nat
    BY <2>2, Rooms
  <2> QED  BY <2>1, <2>3
<1>3. /\ output \in Seq(Digits) /\ NumberOf(output) = OnesOf(job.number)
      /\ Len(output) <= WholeDigits /\ job.of = "amount"
      /\ job.number \in 0..(Power(Word, 4) - 1)
  BY <1>1 DEF WritingInv
<1>4. Len(output) \in Nat
  BY <1>3, DigitsAre
<1> DEFINE o == Zeros(NanoDigits - Len(Text))
           s == Stripped(Text)
<1>5. /\ stage' = "done" /\ output' = output \o <<Point>> \o o \o s
      /\ job' = job
  <2>1. ~(Len(Text) > NanoDigits \/ Len(output) + 1 + NanoDigits > SizeLimit)
    BY <1>2, <1>3, <1>4, Rooms
  <2> QED  BY <2>1 DEF FractionWritten
<1>6. ReadText(output \o <<Point>> \o o \o s, NanoDigits)
      = NumberOf(output) * Power(Base, NanoDigits) + NumberOf(Text)
  <2> HIDE DEF Text
  <2> QED  BY <1>2, <1>3, FractionRead
<1>7. NumbersAreExact'
  <2>1. OnesOf(job.number) * Power(Base, NanoDigits) + FractionOf(job.number) = job.number \div One
    BY <1>3, PartsOf
  <2> HIDE DEF o, s
  <2>2. ReadText(output', NanoDigits) = job.number \div One
    BY <1>2, <1>3, <1>5, <1>6, <2>1
  <2> QED  BY <1>3, <1>5, <2>2 DEF NumbersAreExact, One
<1>8. Len(output \o <<Point>> \o o \o s) < SizeLimit
  <2> HIDE DEF Text
  <2>1. NanoDigits - Len(Text) \in Nat
    BY <1>2, Rooms
  <2>2. /\ o \in Seq(Digits) /\ s \in Seq(Digits)
        /\ Len(o \o s) = Len(o) + Len(s) /\ Len(o \o s) <= NanoDigits
    <3>1. /\ o \in Seq(Digits) /\ s \in Seq(Digits)
          /\ \E n \in 0..Len(Text) : Len(o \o s) = (NanoDigits - Len(Text)) + n
      BY <1>2, <2>1, PaddedNumber
    <3> HIDE DEF o, s
    <3>2. Len(o \o s) = Len(o) + Len(s)
      BY <3>1, ConcatProperties
    <3>3. Len(o \o s) <= NanoDigits
      BY <1>2, <3>1, Rooms
    <3> QED  BY <3>1, <3>2, <3>3
  <2> HIDE DEF o, s
  <2> DEFINE C == 0..Base
             v == output \o <<Point>>
             e == v \o o
  <2>3. Digits \subseteq C /\ Point \in C
    BY DigitsAre DEF Digits
  <2>4. /\ output \in Seq(C) /\ o \in Seq(C) /\ s \in Seq(C)
        /\ <<Point>> \in Seq(C) /\ Len(<<Point>>) = 1
    <3>1. output \in Seq(C) /\ o \in Seq(C) /\ s \in Seq(C)
      BY <1>3, <2>2, <2>3, SeqMonotonic
    <3> QED  BY <2>3, <3>1
  <2> HIDE DEF C
  <2>5. v \in Seq(C) /\ Len(v) = Len(output) + 1
    BY <2>4, ConcatProperties
  <2> HIDE DEF v
  <2>6. e \in Seq(C) /\ Len(e) = Len(v) + Len(o)
    BY <2>4, <2>5, ConcatProperties
  <2> HIDE DEF e
  <2>7. Len(e \o s) = Len(e) + Len(s)
    BY <2>4, <2>6, ConcatProperties
  <2>8. Len(o) \in Nat /\ Len(s) \in Nat
    BY <2>2, DigitsAre
  <2>9. Len(e \o s) = Len(output) + 1 + (Len(o) + Len(s))
    BY <1>4, <2>5, <2>6, <2>7, <2>8
  <2>10. Len(e \o s) < SizeLimit
    <3> DEFINE c == Len(o) + Len(s)
    <3>1. c \in Nat /\ c <= NanoDigits
      BY <2>2, <2>8
    <3> HIDE DEF c
    <3>2. Len(output) + 1 + c < SizeLimit
      BY <1>3, <1>4, <3>1, Rooms
    <3> QED  BY <2>9, <3>2 DEF c
  <2> QED  BY <2>10 DEF e, v
<1> HIDE DEF o, s
<1> QED  BY <1>3, <1>5, <1>7, <1>8 DEF WritingInv

LEMMA RateWrittenKeepsWriting == WritingInv /\ DivisionsKept' /\ RateWritten => WritingInv'
<1> SUFFICES ASSUME WritingInv, DivisionsKept', RateWritten PROVE WritingInv'
  OBVIOUS
<1>1. LastDigit /\ stage = "rate" /\ InString
  BY DEF RateWritten, LastDigit
<1>2. Text \in Seq(Digits) /\ NumberOf(Text) = job.number
  BY <1>1, TextWritten DEF ToWrite
<1>3. job.of = "rate" /\ job.number \in 0..(Power(Word, 4) - 1)
  BY <1>1 DEF WritingInv
<1>4. stage' = "done" /\ output' = DecimalString(Text) /\ job' = job
  BY DEF RateWritten
<1> HIDE DEF Text
<1>5. ReadText(DecimalString(Text), Decimals) = job.number
  BY <1>2, DecimalRead
<1>6. NumbersAreExact'
  BY <1>3, <1>4, <1>5 DEF NumbersAreExact
<1> QED  BY <1>3, <1>4, <1>6 DEF WritingInv

LEMMA WritingNext ==
  WritingInv /\ DivisionsKept' /\ [AmountNext]_amountVars => WritingInv'
<1> SUFFICES ASSUME WritingInv, DivisionsKept', [AmountNext]_amountVars PROVE WritingInv'
  OBVIOUS
<1>1. CASE UNCHANGED amountVars
  <2>1. /\ job' = job /\ stage' = stage /\ d' = d /\ rMod' = rMod /\ digits' = digits
        /\ output' = output
    BY <1>1 DEF amountVars
  <2>2. ASSUME NEW n, Writing(d, digits, n) PROVE Writing(d, digits, n)'
    BY <2>1, <2>2 DEF Writing
  <2>3. NumbersAreExact => NumbersAreExact'
    BY <2>1 DEF NumbersAreExact
  <2> QED  BY <2>1, <2>2, <2>3 DEF WritingInv
<1>2. CASE AmountNext
  BY <1>2, CallKeepsWriting, TurnKeepsWriting, DigitKeepsWriting, ToOneKeepsWriting,
     WholeKeepsWriting, WholeWrittenKeepsWriting, FractionWrittenKeepsWriting,
     RateWrittenKeepsWriting DEF AmountNext
<1> QED  BY <1>1, <1>2

\* Every conversion: what it has written and what it has left make up the
\* number, and it has room for all of it.
THEOREM WritingInvariance == AmountSpec => []WritingInv
<1>1. WritingInv /\ [AmountNext]_amountVars => WritingInv'
  BY WritingNext, DivisionsNext DEF WritingInv
<1> QED  BY <1>1, WritingInit, PTL DEF AmountSpec

\* For every size of a word and every base, an amount on the screen is the
\* amount of the transaction down to its last decimal, and a rate exactly
\* the rate (convertU256ToString, uint256.c:493-569, and
\* convertNumericDecimalToString, 612-636).
THEOREM ScreenIsExact == AmountSpec => []NumbersAreExact
<1>1. WritingInv => NumbersAreExact
  BY DEF WritingInv, NumbersAreExact
<1> QED  BY <1>1, WritingInvariance, PTL

\* No number of 256 bits is refused for its length, and each leaves room for
\* the NUL after it, in the buffer of 78 digits (uint256.c:519) and in the
\* output.
THEOREM NumbersFit == AmountSpec => []AmountHasRoom
<1>1. WritingInv => AmountHasRoom
  <2> SUFFICES ASSUME WritingInv PROVE AmountHasRoom
    OBVIOUS
  <2>1. stage # "refused"
    BY DEF WritingInv
  <2>2. ASSUME stage \in {"whole", "fraction"} PROVE Len(digits) + 1 < BufferSize
    <3>1. InString
      BY <2>2 DEF InString
    <3>2. /\ Len(digits) \in Nat
          /\ stage = "whole" => Len(digits) < WholeDigits
          /\ stage = "fraction" => Len(digits) < NanoDigits
      BY <3>1, WritesInRoom
    <3> QED  BY <2>2, <3>2, Rooms
  <2>3. ASSUME job.of = "amount" PROVE Len(output) < SizeLimit
    <3>1. CASE output = <<>>
      BY <3>1, EmptySeq, Rooms
    <3>2. CASE stage = "fraction"
      <4>1. Len(output) <= WholeDigits /\ output \in Seq(Digits)
        BY <3>2 DEF WritingInv
      <4>2. Len(output) \in Nat
        BY <4>1, DigitsAre
      <4> QED  BY <4>1, <4>2, Rooms
    <3>3. CASE stage = "done"
      BY <2>3, <3>3 DEF WritingInv
    <3> QED  BY <3>1, <3>2, <3>3 DEF WritingInv
  <2> QED  BY <2>1, <2>2, <2>3 DEF AmountHasRoom
<1> QED  BY <1>1, WritingInvariance, PTL

(***************************************************************************)
(* Addresses: the checksum, for any generators                             *)
(***************************************************************************)
ChkValues == SUBSET (0..29)
GroupValues == SUBSET (0..4)

\* What turn n of the loop over the generators makes of sum
Summed(n, b, sum) == IF n - 1 \in b THEN Xor(sum, Gen[n]) ELSE sum
SummedUp(b, sum) == Summed(5, b, Summed(4, b, Summed(3, b, Summed(2, b, Summed(1, b, sum)))))

LEMMA XorLaws ==
  ASSUME NEW v, NEW w, NEW x
  PROVE  /\ Xor(Xor(v, w), x) = Xor(v, Xor(w, x))
         /\ Xor(v, w) = Xor(w, v)
         /\ Xor(v, v) = {} /\ Xor(v, {}) = v /\ Xor({}, v) = v
<1>1. Xor(Xor(v, w), x) = Xor(v, Xor(w, x))
  BY DEF Xor
<1>2. Xor(v, w) = Xor(w, v) /\ Xor(v, v) = {} /\ Xor(v, {}) = v /\ Xor({}, v) = v
  BY DEF Xor
<1> QED  BY <1>1, <1>2

LEMMA XorApart ==
  ASSUME NEW v, NEW w, NEW x
  PROVE  Xor(Xor(v, w), x) = Xor(Xor(v, x), w)
BY DEF Xor

LEMMA GenType == \A n \in 1..5 : Gen[n] \in ChkValues
<1>1. \A k : Places(k) \in ChkValues
  BY DEF Places, ChkValues
<1> QED  BY <1>1 DEF Gen

LEMMA SummedOfXor ==
  ASSUME NEW b, NEW sum, NEW more
  PROVE  SummedUp(b, Xor(sum, more)) = Xor(SummedUp(b, sum), more)
<1> DEFINE s1 == Summed(1, b, sum)
           s2 == Summed(2, b, s1)
           s3 == Summed(3, b, s2)
           s4 == Summed(4, b, s3)
<1>1. ASSUME NEW n, NEW s PROVE Summed(n, b, Xor(s, more)) = Xor(Summed(n, b, s), more)
  <2>1. Xor(Xor(s, more), Gen[n]) = Xor(Xor(s, Gen[n]), more)
    BY XorApart
  <2>2. CASE n - 1 \in b
    BY <2>1, <2>2, Zenon DEF Summed
  <2>3. CASE n - 1 \notin b
    BY <2>3, Zenon DEF Summed
  <2> QED  BY <2>2, <2>3, Zenon
<1>2. Summed(1, b, Xor(sum, more)) = Xor(s1, more)
  BY <1>1
<1>3. Summed(2, b, Xor(s1, more)) = Xor(s2, more)
  BY <1>1
<1>4. Summed(3, b, Xor(s2, more)) = Xor(s3, more)
  BY <1>1
<1>5. Summed(4, b, Xor(s3, more)) = Xor(s4, more)
  BY <1>1
<1>6. Summed(5, b, Xor(s4, more)) = Xor(Summed(5, b, s4), more)
  BY <1>1
<1> QED  BY <1>2, <1>3, <1>4, <1>5, <1>6, Zenon DEF SummedUp

LEMMA SummedType ==
  ASSUME NEW b, NEW sum \in ChkValues
  PROVE  SummedUp(b, sum) \in ChkValues
<1>1. ASSUME NEW n \in 1..5, NEW s \in ChkValues PROVE Summed(n, b, s) \in ChkValues
  <2>1. Gen[n] \in ChkValues
    BY GenType
  <2>2. Xor(s, Gen[n]) \in ChkValues
    BY <2>1 DEF Xor, ChkValues
  <2> QED  BY <2>2, Zenon DEF Summed
<1>2. 1 \in 1..5 /\ 2 \in 1..5 /\ 3 \in 1..5 /\ 4 \in 1..5 /\ 5 \in 1..5
  OBVIOUS
<1> QED  BY <1>1, <1>2, Zenon DEF SummedUp

LEMMA PolymodStepIs ==
  ASSUME NEW v, NEW c
  PROVE  PolymodStep(v, c) = SummedUp(Down(c, 25), Xor(Up(Low(c, 25), 5), v))
<1> DEFINE b == Down(c, 25)
           s0 == Xor(Up(Low(c, 25), 5), v)
           Defines(f) == f = [n \in 0..5 |-> IF n = 0 THEN s0
                                   ELSE IF n - 1 \in b THEN Xor(f[n - 1], Gen[n]) ELSE f[n - 1]]
           s1 == Summed(1, b, s0)
           s2 == Summed(2, b, s1)
           s3 == Summed(3, b, s2)
           s4 == Summed(4, b, s3)
           s5 == Summed(5, b, s4)
           g == [n \in 0..5 |-> IF n = 0 THEN s0 ELSE IF n = 1 THEN s1 ELSE IF n = 2 THEN s2
                                ELSE IF n = 3 THEN s3 ELSE IF n = 4 THEN s4 ELSE s5]
           sum == CHOOSE f : Defines(f)
<1>1. PolymodStep(v, c) = sum[5]
  BY DEF PolymodStep
<1>2. SummedUp(b, s0) = s5
  BY DEF SummedUp
<1> HIDE DEF b, s0
<1>3. /\ s1 = IF 0 \in b THEN Xor(s0, Gen[1]) ELSE s0
      /\ s2 = IF 1 \in b THEN Xor(s1, Gen[2]) ELSE s1
      /\ s3 = IF 2 \in b THEN Xor(s2, Gen[3]) ELSE s2
      /\ s4 = IF 3 \in b THEN Xor(s3, Gen[4]) ELSE s3
      /\ s5 = IF 4 \in b THEN Xor(s4, Gen[5]) ELSE s4
  BY DEF Summed
<1> HIDE DEF s1, s2, s3, s4, s5
<1>4. Defines(g)
  <2>1. ASSUME NEW n \in 0..5
        PROVE  g[n] = IF n = 0 THEN s0
                      ELSE IF n - 1 \in b THEN Xor(g[n - 1], Gen[n]) ELSE g[n - 1]
    BY <1>3
  <2>2. g = [n \in 0..5 |-> g[n]]
    OBVIOUS
  <2> HIDE DEF g
  <2> QED  BY <2>1, <2>2
<1>5. Defines(sum)
  BY <1>4
<1>6. ASSUME NEW f, Defines(f) PROVE f[5] = s5
  <2>1. ASSUME NEW n \in 0..5
        PROVE  f[n] = IF n = 0 THEN s0
                      ELSE IF n - 1 \in b THEN Xor(f[n - 1], Gen[n]) ELSE f[n - 1]
    BY <1>6
  <2>2. f[0] = s0
    BY <2>1
  <2>3. f[1] = IF 0 \in b THEN Xor(f[0], Gen[1]) ELSE f[0]
    BY <2>1
  <2>4. f[2] = IF 1 \in b THEN Xor(f[1], Gen[2]) ELSE f[1]
    BY <2>1
  <2>5. f[3] = IF 2 \in b THEN Xor(f[2], Gen[3]) ELSE f[2]
    BY <2>1
  <2>6. f[4] = IF 3 \in b THEN Xor(f[3], Gen[4]) ELSE f[3]
    BY <2>1
  <2>7. f[5] = IF 4 \in b THEN Xor(f[4], Gen[5]) ELSE f[4]
    BY <2>1
  <2> QED  BY <1>3, <2>2, <2>3, <2>4, <2>5, <2>6, <2>7, Zenon
<1> HIDE DEF Defines
<1>7. sum[5] = s5
  BY <1>5, <1>6, Zenon
<1> QED  BY <1>1, <1>2, <1>7, Zenon DEF b, s0

LEMMA PolymodStepType ==
  ASSUME NEW v \in ChkValues, NEW c \in ChkValues
  PROVE  PolymodStep(v, c) \in ChkValues
<1>1. Up(Low(c, 25), 5) \in ChkValues
  BY DEF Up, Low, ChkValues
<1>2. Xor(Up(Low(c, 25), 5), v) \in ChkValues
  BY <1>1 DEF Xor, ChkValues
<1> QED  BY <1>2, PolymodStepIs, SummedType, Zenon

\* The step is linear: what is added to the low 25 bits comes out 5 higher.
LEMMA PolymodStepAdds ==
  ASSUME NEW v, NEW c \in ChkValues, NEW low \in SUBSET (0..24)
  PROVE  PolymodStep(v, Xor(c, low)) = Xor(PolymodStep({}, c), Xor(Up(low, 5), v))
<1>1. Down(Xor(c, low), 25) = Down(c, 25)
  BY DEF Down, Xor, ChkValues
<1>2. Up(Low(Xor(c, low), 25), 5) = Xor(Up(Low(c, 25), 5), Up(low, 5))
  BY DEF Up, Low, Xor, ChkValues
<1> DEFINE more == Xor(Up(low, 5), v)
           s0 == Up(Low(c, 25), 5)
           s1 == Xor(s0, {})
<1>3. Xor(Up(Low(Xor(c, low), 25), 5), v) = Xor(s1, more)
  BY <1>2 DEF Xor
<1>4. PolymodStep(v, Xor(c, low)) = SummedUp(Down(c, 25), Xor(s1, more))
  BY <1>1, <1>3, PolymodStepIs, Zenon
<1>5. PolymodStep({}, c) = SummedUp(Down(c, 25), s1)
  BY PolymodStepIs, Zenon
<1> HIDE DEF s1, more
<1>6. SummedUp(Down(c, 25), Xor(s1, more)) = Xor(SummedUp(Down(c, 25), s1), more)
  BY SummedOfXor
<1> QED  BY <1>4, <1>5, <1>6, Zenon DEF more

\* h runs through the values that the beginnings of values give
Runs(h, values, first) ==
  /\ h \in [Nat -> ChkValues]
  /\ h[0] = first
  /\ \A n \in 0..(Len(values) - 1) : h[n + 1] = PolymodStep(values[n + 1], h[n])

LEMMA PolymodRuns ==
  ASSUME NEW s \in Seq(ChkValues), NEW c \in ChkValues
  PROVE  \E h : Runs(h, s, c) /\ h[Len(s)] = Polymod(s, c)
<1> DEFINE L == Len(s)
           step == [n \in Nat |-> [v \in ChkValues |-> IF n < L THEN PolymodStep(s[n + 1], v) ELSE v]]
           Defines(f) == f = [n \in 0..L |-> IF n = 0 THEN c ELSE PolymodStep(s[n], f[n - 1])]
           run == CHOOSE f : Defines(f)
<1>1. L \in Nat /\ \A n \in Nat : n < L => s[n + 1] \in ChkValues
  <2>1. L \in Nat /\ \A i \in 1..L : s[i] \in ChkValues
    BY LenProperties, ElementOfSeq
  <2>2. ASSUME NEW n \in Nat, n < L PROVE n + 1 \in 1..L
    BY <2>1, <2>2
  <2> QED  BY <2>1, <2>2
<1> HIDE DEF L
<1>2. PICK h : h \in [Nat -> ChkValues] /\ Follows(h, c, step)
  <2>1. ASSUME NEW n \in Nat, NEW v \in ChkValues
        PROVE  (IF n < L THEN PolymodStep(s[n + 1], v) ELSE v) \in ChkValues
    BY <1>1, PolymodStepType
  <2>2. step \in [Nat -> [ChkValues -> ChkValues]]
    BY <2>1
  <2> QED  BY <2>2, Recursion
<1>3. ASSUME NEW n \in 0..(L - 1) PROVE h[n + 1] = PolymodStep(s[n + 1], h[n])
  <2>1. n \in Nat /\ n < L /\ h[n] \in ChkValues
    BY <1>1, <1>2
  <2>2. h[n + 1] = step[n][h[n]]
    BY <1>2, <2>1 DEF Follows
  <2> QED  BY <2>1, <2>2
<1>4. Runs(h, s, c)
  BY <1>2, <1>3 DEF Runs, Follows, L
<1>5. \E f : Defines(f) /\ f = [n \in 0..L |-> h[n]]
  <2> DEFINE f == [n \in 0..L |-> h[n]]
  <2>1. ASSUME NEW n \in 0..L PROVE f[n] = IF n = 0 THEN c ELSE PolymodStep(s[n], f[n - 1])
    <3>1. CASE n = 0
      BY <1>2, <3>1 DEF Follows
    <3>2. CASE n # 0
      <4>1. n - 1 \in 0..(L - 1) /\ n - 1 \in 0..L /\ n - 1 + 1 = n
        BY <1>1, <3>2
      <4>2. h[n - 1 + 1] = PolymodStep(s[n - 1 + 1], h[n - 1])
        BY <1>3, <4>1
      <4> QED  BY <3>2, <4>1, <4>2
    <3> QED  BY <3>1, <3>2
  <2>2. f = [n \in 0..L |-> f[n]]
    OBVIOUS
  <2> HIDE DEF f
  <2>3. Defines(f)
    BY <2>1, <2>2
  <2> QED  BY <2>3 DEF f
<1>6. ASSUME NEW f, NEW g, Defines(f), Defines(g) PROVE f = g
  <2> DEFINE S == {n \in Nat : n \in 0..L => f[n] = g[n]}
  <2>1. ASSUME NEW n \in 0..L
        PROVE  /\ f[n] = IF n = 0 THEN c ELSE PolymodStep(s[n], f[n - 1])
               /\ g[n] = IF n = 0 THEN c ELSE PolymodStep(s[n], g[n - 1])
    BY <1>6
  <2>2. 0 \in S
    BY <2>1
  <2>3. ASSUME NEW n \in Nat, n \in S PROVE n + 1 \in S
    <3> SUFFICES ASSUME n + 1 \in 0..L PROVE f[n + 1] = g[n + 1]
      OBVIOUS
    <3>1. n \in 0..L /\ n + 1 # 0 /\ n + 1 - 1 = n
      BY <1>1
    <3> QED  BY <2>1, <2>3, <3>1
  <2> HIDE DEF S
  <2>4. \A n \in Nat : n \in S
    BY <2>2, <2>3, SetInduction
  <2>5. \A n \in 0..L : f[n] = g[n]
    BY <2>4 DEF S
  <2>6. DOMAIN f = 0..L /\ DOMAIN g = 0..L /\ f = [n \in 0..L |-> f[n]] /\ g = [n \in 0..L |-> g[n]]
    BY <1>6
  <2> QED  BY <2>5, <2>6
<1> HIDE DEF Defines
<1>7. Defines(run)
  BY <1>5
<1>8. Polymod(s, c) = run[L]
  BY DEF Polymod, Defines, L
<1>9. run[L] = h[L]
  <2>1. PICK f : Defines(f) /\ f = [n \in 0..L |-> h[n]]
    BY <1>5
  <2>2. run = f
    BY <1>6, <1>7, <2>1
  <2> HIDE DEF run
  <2>3. L \in 0..L
    BY <1>1
  <2> QED  BY <2>1, <2>2, <2>3
<1> QED  BY <1>4, <1>8, <1>9 DEF L

LEMMA PolymodType ==
  ASSUME NEW s \in Seq(ChkValues), NEW c \in ChkValues
  PROVE  Polymod(s, c) \in ChkValues
<1>1. PICK h : Runs(h, s, c) /\ h[Len(s)] = Polymod(s, c)
  BY PolymodRuns
<1>2. Len(s) \in Nat
  BY LenProperties
<1> QED  BY <1>1, <1>2 DEF Runs

\* The beginning of a longer text gives the value it gives by itself.
LEMMA PolymodBegins ==
  ASSUME NEW s \in Seq(ChkValues), NEW c \in ChkValues, NEW h, Runs(h, s, c),
         NEW n \in 0..Len(s)
  PROVE  h[n] = Polymod(SubSeq(s, 1, n), c)
<1> DEFINE t == SubSeq(s, 1, n)
<1>1. Len(s) \in Nat /\ n \in Nat /\ n <= Len(s)
  BY LenProperties
<1>2. t \in Seq(ChkValues) /\ Len(t) = n /\ \A i \in 1..n : t[i] = s[i]
  BY <1>1, SubSeqProperties, ElementOfSeq
<1> HIDE DEF t
<1>3. PICK g : Runs(g, t, c) /\ g[Len(t)] = Polymod(t, c)
  BY <1>2, PolymodRuns
<1> DEFINE S == {m \in Nat : m <= n => h[m] = g[m]}
<1>4. 0 \in S
  BY <1>3 DEF Runs
<1>5. ASSUME NEW m \in Nat, m \in S PROVE m + 1 \in S
  <2> SUFFICES ASSUME m + 1 <= n PROVE h[m + 1] = g[m + 1]
    OBVIOUS
  <2>1. m \in 0..(Len(s) - 1) /\ m \in 0..(Len(t) - 1) /\ m + 1 \in 1..n /\ m <= n
    BY <1>1, <1>2
  <2>2. h[m + 1] = PolymodStep(s[m + 1], h[m])
    BY <2>1 DEF Runs
  <2>3. g[m + 1] = PolymodStep(t[m + 1], g[m])
    BY <1>3, <2>1 DEF Runs
  <2> QED  BY <1>2, <1>5, <2>1, <2>2, <2>3
<1> HIDE DEF S
<1>6. \A m \in Nat : m \in S
  BY <1>4, <1>5, SetInduction
<1>7. h[n] = g[n]
  BY <1>1, <1>6 DEF S
<1> QED  BY <1>2, <1>3, <1>7 DEF t

LEMMA PolymodAppend ==
  ASSUME NEW s \in Seq(ChkValues), NEW v \in ChkValues, NEW c \in ChkValues
  PROVE  Polymod(Append(s, v), c) = PolymodStep(v, Polymod(s, c))
<1> DEFINE t == Append(s, v)
           n == Len(s)
<1>1. n \in Nat
  BY LenProperties
<1>2. t \in Seq(ChkValues) /\ Len(t) = n + 1 /\ t[n + 1] = v /\ SubSeq(t, 1, n) = s
  <2>1. t \in Seq(ChkValues) /\ Len(t) = n + 1 /\ t[n + 1] = v /\ \A i \in 1..n : t[i] = s[i]
    BY AppendProperties
  <2> HIDE DEF t
  <2>2. /\ SubSeq(t, 1, n) \in Seq(ChkValues) /\ Len(SubSeq(t, 1, n)) = n
        /\ \A i \in 1..n : SubSeq(t, 1, n)[i] = t[i]
    BY <1>1, <2>1, SubSeqProperties, ElementOfSeq
  <2> QED  BY <2>1, <2>2, SeqEqual
<1> HIDE DEF t
<1>3. PICK h : Runs(h, t, c) /\ h[Len(t)] = Polymod(t, c)
  BY <1>2, PolymodRuns
<1>4. n \in 0..Len(t) /\ n \in 0..(Len(t) - 1)
  BY <1>1, <1>2
<1> HIDE DEF n
<1>5. h[n] = Polymod(s, c)
  BY <1>2, <1>3, <1>4, PolymodBegins
<1>6. h[n + 1] = PolymodStep(t[n + 1], h[n])
  BY <1>3, <1>4 DEF Runs
<1> QED  BY <1>2, <1>3, <1>5, <1>6 DEF t, n

LEMMA PolymodEmpty ==
  ASSUME NEW c \in ChkValues
  PROVE  Polymod(<<>>, c) = c
<1> DEFINE s == <<>>
<1>1. s \in Seq(ChkValues) /\ Len(s) = 0
  BY EmptySeq
<1> HIDE DEF s
<1>2. PICK h : Runs(h, s, c) /\ h[Len(s)] = Polymod(s, c)
  BY <1>1, PolymodRuns
<1> QED  BY <1>1, <1>2 DEF Runs, s

\* What n turns of the loop over trailing zeros make of c
Zeroed(c, n) == Polymod([i \in 1..n |-> {}], c)

LEMMA ZeroedStep ==
  ASSUME NEW c \in ChkValues
  PROVE  /\ Zeroed(c, 0) = c
         /\ \A n \in Nat : /\ Zeroed(c, n) \in ChkValues
                           /\ Zeroed(c, n + 1) = PolymodStep({}, Zeroed(c, n))
<1> DEFINE z(n) == [i \in 1..n |-> {}]
<1>1. {} \in ChkValues
  BY DEF ChkValues
<1>2. ASSUME NEW n \in Nat PROVE z(n) \in Seq(ChkValues) /\ Len(z(n)) = n
  BY <1>1, IsASeq
<1>3. Zeroed(c, 0) = c
  <2>1. z(0) = <<>>
    BY <1>2, EmptySeq, SeqEqual
  <2> QED  BY <2>1, PolymodEmpty DEF Zeroed
<1>4. ASSUME NEW n \in Nat
      PROVE  Zeroed(c, n) \in ChkValues /\ Zeroed(c, n + 1) = PolymodStep({}, Zeroed(c, n))
  <2>1. z(n) \in Seq(ChkValues) /\ Len(z(n)) = n
    BY <1>2
  <2>2. z(n + 1) \in Seq(ChkValues) /\ Len(z(n + 1)) = n + 1
    BY <1>2
  <2>3. z(n + 1) = Append(z(n), {})
    BY <1>1, <2>1, <2>2
  <2>4. Zeroed(c, n) = Polymod(z(n), c) /\ Zeroed(c, n + 1) = Polymod(z(n + 1), c)
    BY DEF Zeroed
  <2> HIDE DEF z
  <2>5. Polymod(Append(z(n), {}), c) = PolymodStep({}, Polymod(z(n), c))
    BY <1>1, <2>1, PolymodAppend
  <2> QED  BY <2>1, <2>3, <2>4, <2>5, PolymodType
<1> QED  BY <1>3, <1>4

\* Group i of a checksum, from the highest
ChecksumGroup(c, i) == Low(Down(c, 5 * (6 - i)), 5)

LEMMA DownType ==
  ASSUME NEW c \in ChkValues, NEW i \in 0..5
  PROVE  /\ Down(c, 5 * (6 - i)) \in SUBSET (0..24)
         /\ Xor(Up(Down(c, 5 * (6 - i)), 5), ChecksumGroup(c, i + 1)) = Down(c, 5 * (6 - (i + 1)))
         /\ ChecksumGroup(c, i + 1) \in GroupValues
<1> DEFINE m == 5 * (6 - i)
<1>1. m \in 5..30 /\ 5 * (6 - (i + 1)) = m - 5
  OBVIOUS
<1> HIDE DEF m
<1>2. Down(c, m) \in SUBSET (0..24)
  BY <1>1 DEF Down, ChkValues
<1>3. Up(Down(c, m), 5) = {q \in Down(c, m - 5) : q >= 5}
  <2>1. ASSUME NEW q \in Up(Down(c, m), 5) PROVE q \in Down(c, m - 5) /\ q >= 5
    <3>1. PICK p \in c : ~(p \in 0..(m - 1)) /\ q = (p - m) + 5
      BY DEF Up, Down
    <3> QED  BY <1>1, <3>1 DEF Down, ChkValues
  <2>2. ASSUME NEW q \in Down(c, m - 5), q >= 5 PROVE q \in Up(Down(c, m), 5)
    <3>1. PICK p \in c : ~(p \in 0..((m - 5) - 1)) /\ q = p - (m - 5)
      BY DEF Down
    <3>2. p - m \in Down(c, m) /\ q = (p - m) + 5
      BY <1>1, <2>2, <3>1 DEF Down, ChkValues
    <3> QED  BY <3>2 DEF Up
  <2> QED  BY <2>1, <2>2
<1>4. ASSUME NEW q \in Down(c, m - 5) PROVE q \in Nat
  BY <1>1 DEF Down, ChkValues
<1>5. Xor(Up(Down(c, m), 5), Low(Down(c, m - 5), 5)) = Down(c, m - 5)
  BY <1>3, <1>4 DEF Xor, Low
<1>6. Low(Down(c, m - 5), 5) \in GroupValues
  BY DEF Low, GroupValues
<1> QED  BY <1>1, <1>2, <1>5, <1>6 DEF m, ChecksumGroup

\* t is w with its checksum k
IsClosed(t, w, c, k) ==
  /\ k = Xor(Zeroed(Polymod(w, c), 6), {0})
  /\ Len(t) = Len(w) + 6
  /\ \A i \in 1..Len(w) : t[i] = w[i]
  /\ \A i \in 1..6 : t[Len(w) + i] = ChecksumGroup(k, i)

\* Texts with their checksum give 1: each step brings one of its groups in.
LEMMA ChecksumCloses ==
  ASSUME NEW w \in Seq(ChkValues), NEW t \in Seq(ChkValues), NEW c \in ChkValues, NEW k,
         IsClosed(t, w, c, k)
  PROVE  Polymod(t, c) = {0}
<1> DEFINE L == Len(w)
           p == Polymod(w, c)
<1>0. /\ k = Xor(Zeroed(p, 6), {0}) /\ Len(t) = L + 6
      /\ \A i \in 1..L : t[i] = w[i]
      /\ \A i \in 1..6 : t[L + i] = ChecksumGroup(k, i)
  BY DEF IsClosed
<1>1. L \in Nat /\ p \in ChkValues
  BY LenProperties, PolymodType
<1>2. k \in ChkValues
  <2>1. Zeroed(p, 6) \in ChkValues
    BY <1>1, ZeroedStep
  <2> QED  BY <1>0, <2>1 DEF Xor, ChkValues
<1>3. SubSeq(t, 1, L) = w
  <2>1. /\ SubSeq(t, 1, L) \in Seq(ChkValues) /\ Len(SubSeq(t, 1, L)) = L
        /\ \A i \in 1..L : SubSeq(t, 1, L)[i] = t[i]
    BY <1>0, <1>1, SubSeqProperties, ElementOfSeq
  <2> QED  BY <1>0, <2>1, SeqEqual
<1>4. PICK h : Runs(h, t, c) /\ h[Len(t)] = Polymod(t, c)
  BY PolymodRuns
<1>5. h[L] = p
  <2>1. L \in 0..Len(t)
    BY <1>0, <1>1
  <2> QED  BY <1>3, <1>4, <2>1, PolymodBegins
<1> DEFINE Reached(i) == h[L + i] = Xor(Zeroed(p, i), Down(k, 5 * (6 - i)))
<1>6. Reached(0)
  <2>1. Down(k, 30) = {}
    <3>1. k \ (0..(30 - 1)) = {}
      BY <1>2 DEF ChkValues
    <3> QED  BY <3>1 DEF Down
  <2>2. Zeroed(p, 0) = p
    BY <1>1, ZeroedStep
  <2>3. Xor(p, {}) = p
    BY XorLaws
  <2>4. L + 0 = L /\ 5 * (6 - 0) = 30
    BY <1>1
  <2> QED  BY <1>5, <2>1, <2>2, <2>3, <2>4
<1>7. ASSUME NEW i \in 0..5, Reached(i) PROVE Reached(i + 1)
  <2> DEFINE low == Down(k, 5 * (6 - i))
             g == ChecksumGroup(k, i + 1)
             z == Zeroed(p, i)
  <2>1. low \in SUBSET (0..24) /\ Xor(Up(low, 5), g) = Down(k, 5 * (6 - (i + 1)))
    BY <1>2, DownType
  <2>2. z \in ChkValues /\ Zeroed(p, i + 1) = PolymodStep({}, z)
    <3>1. i \in Nat
      OBVIOUS
    <3> QED  BY <1>1, <3>1, ZeroedStep
  <2>3. L + i \in 0..(Len(t) - 1) /\ L + i + 1 = L + (i + 1) /\ i + 1 \in 1..6
    BY <1>0, <1>1
  <2>4. h[L + (i + 1)] = PolymodStep(t[L + (i + 1)], h[L + i])
    BY <1>4, <2>3 DEF Runs
  <2>5. t[L + (i + 1)] = g
    BY <1>0, <2>3
  <2>6. h[L + i] = Xor(z, low)
    BY <1>7
  <2> HIDE DEF low, g, z
  <2>7. PolymodStep(g, Xor(z, low)) = Xor(PolymodStep({}, z), Xor(Up(low, 5), g))
    BY <2>1, <2>2, PolymodStepAdds
  <2> QED  BY <2>1, <2>2, <2>4, <2>5, <2>6, <2>7
<1> HIDE DEF Reached
<1>8. Reached(6)
  <2>1. Reached(1)  BY <1>6, <1>7
  <2>2. Reached(2)  BY <1>7, <2>1
  <2>3. Reached(3)  BY <1>7, <2>2
  <2>4. Reached(4)  BY <1>7, <2>3
  <2>5. Reached(5)  BY <1>7, <2>4
  <2> QED  BY <1>7, <2>5
<1>9. Down(k, 0) = k
  <2>1. k \ (0..(0 - 1)) = k
    OBVIOUS
  <2>2. \A q \in k : q - 0 = q
    BY <1>2 DEF ChkValues
  <2> QED  BY <2>1, <2>2 DEF Down
<1>10. Xor(Zeroed(p, 6), Xor(Zeroed(p, 6), {0})) = {0}
  BY DEF Xor
<1>11. 5 * (6 - 6) = 0
  OBVIOUS
<1> QED  BY <1>0, <1>4, <1>8, <1>9, <1>10, <1>11 DEF Reached

(***************************************************************************)
(* Addresses: bytes in groups of five bits                                 *)
(***************************************************************************)
\* The groups that the bits of bytes fill, and bit k of them
IsGroupOf(g, bytes, n) == g = {p \in 0..4 : BitAt(bytes, 8, 5 * n - 1 - p)}

IsGrouped(groups, bytes) ==
  /\ groups \in Seq(GroupValues)
  /\ 5 * Len(groups) = 8 * Len(bytes)
  /\ \A n \in 1..Len(groups) : IsGroupOf(groups[n], bytes, n)

IsAddress(bytes) == bytes \in Seq(SUBSET (0..7)) /\ Len(bytes) % 5 = 0

LEMMA BitsKept ==
  ASSUME NEW groups, NEW bytes, IsGrouped(groups, bytes), IsAddress(bytes),
         NEW k \in 0..(8 * Len(bytes) - 1)
  PROVE  BitAt(groups, 5, k) <=> BitAt(bytes, 8, k)
<1> DEFINE n == (k \div 5) + 1
           p == 5 - 1 - (k % 5)
<1>1. Len(groups) \in Nat /\ Len(bytes) \in Nat
  BY LenProperties DEF IsGrouped, IsAddress
<1>2. k \in Nat /\ k < 5 * Len(groups)
  BY <1>1 DEF IsGrouped
<1>3. k \div 5 \in Nat /\ k % 5 \in 0..4 /\ k = 5 * (k \div 5) + (k % 5)
  BY <1>2
<1>4. n \in 1..Len(groups) /\ p \in 0..4 /\ (5 * n - 1) - p = k /\ 5 * n - 1 - p = k
  BY <1>1, <1>2, <1>3
<1>5. groups[n] = {q \in 0..4 : BitAt(bytes, 8, 5 * n - 1 - q)}
  BY <1>4 DEF IsGrouped, IsGroupOf
<1>6. BitAt(groups, 5, k) <=> p \in groups[n]
  BY DEF BitAt
<1> HIDE DEF n, p
<1> QED  BY <1>4, <1>5, <1>6

\* What reads back from the groups is what was put into them.
LEMMA GroupsReadBack ==
  ASSUME NEW groups, NEW bytes, IsGrouped(groups, bytes), IsAddress(bytes)
  PROVE  ReadBack(groups) = bytes
<1> DEFINE L == Len(bytes)
           byte(n) == {p \in 0..7 : BitAt(groups, 5, 8 * n - 1 - p)}
<1>1. Len(groups) \in Nat /\ L \in Nat /\ 5 * Len(groups) = 8 * L
  BY LenProperties DEF IsGrouped, IsAddress
<1>2. (5 * Len(groups)) \div 8 = L
  BY <1>1
<1>3. ReadBack(groups) = [n \in 1..L |-> byte(n)]
  BY <1>2 DEF ReadBack
<1>4. ASSUME NEW n \in 1..L PROVE byte(n) = bytes[n]
  <2>1. bytes[n] \in SUBSET (0..7)
    BY ElementOfSeq DEF IsAddress
  <2>2. ASSUME NEW p \in 0..7 PROVE BitAt(groups, 5, 8 * n - 1 - p) <=> p \in bytes[n]
    <3> DEFINE k == 8 * n - 1 - p
    <3>1. k \in 0..(8 * L - 1) /\ k = 8 * (n - 1) + (7 - p) /\ 7 - p \in Nat /\ n - 1 \in Nat
      BY <1>1
    <3>2. k \div 8 = n - 1 /\ k % 8 = 7 - p
      BY <3>1
    <3> HIDE DEF k
    <3>3. BitAt(groups, 5, k) <=> BitAt(bytes, 8, k)
      BY <3>1, BitsKept
    <3>4. BitAt(bytes, 8, k) <=> 8 - 1 - (7 - p) \in bytes[(n - 1) + 1]
      BY <3>2 DEF BitAt
    <3>5. 8 - 1 - (7 - p) = p /\ (n - 1) + 1 = n
      BY <1>1
    <3> QED  BY <3>3, <3>4, <3>5 DEF k
  <2> QED  BY <2>1, <2>2
<1>5. bytes = [n \in 1..L |-> bytes[n]]
  BY LenProperties DEF IsAddress
<1> HIDE DEF byte
<1> QED  BY <1>3, <1>4, <1>5

\* The groups of the first k bits, the last of them not yet full
IsFilled(full, rest, bytes, k) ==
  /\ full \in Seq(GroupValues)
  /\ Len(full) = k \div 5
  /\ \A n \in 1..Len(full) : IsGroupOf(full[n], bytes, n)
  /\ rest = {p \in 0..((k % 5) - 1) : BitAt(bytes, 8, k - 1 - p)}

LEMMA NextGroup ==
  ASSUME NEW full, NEW rest, NEW bytes, NEW k \in Nat, IsFilled(full, rest, bytes, k)
  PROVE  Up(rest, 1) \cup (IF BitAt(bytes, 8, k) THEN {0} ELSE {})
           = {p \in 0..(k % 5) : BitAt(bytes, 8, k - p)}
<1>1. k % 5 \in 0..4
  OBVIOUS
<1> DEFINE m == k % 5
           Is1(i) == BitAt(bytes, 8, i)
<1>2. rest = {p \in 0..(m - 1) : Is1(k - 1 - p)}
  BY DEF IsFilled
<1> HIDE DEF m, Is1
<1>3. ASSUME NEW p \in 0..m, Is1(k - p)
      PROVE  p \in Up(rest, 1) \cup (IF Is1(k) THEN {0} ELSE {})
  <2>1. CASE p = 0
    <3>1. k - p = k
      BY <2>1
    <3> QED  BY <1>3, <2>1, <3>1
  <2>2. CASE p # 0
    <3>1. p - 1 \in 0..(m - 1) /\ k - 1 - (p - 1) = k - p /\ p = p - 1 + 1
      BY <1>1, <2>2 DEF m
    <3>2. p - 1 \in rest
      BY <1>2, <1>3, <3>1
    <3> QED  BY <3>1, <3>2 DEF Up
  <2> QED  BY <2>1, <2>2
<1>4. ASSUME NEW p \in Up(rest, 1) \cup (IF Is1(k) THEN {0} ELSE {})
      PROVE  p \in 0..m /\ Is1(k - p)
  <2>1. CASE p \in Up(rest, 1)
    <3>1. PICK q \in rest : p = q + 1
      BY <2>1 DEF Up
    <3>2. q \in 0..(m - 1) /\ Is1(k - 1 - q)
      BY <1>2
    <3>3. k - 1 - q = k - p /\ p \in 0..m
      BY <1>1, <3>1, <3>2 DEF m
    <3> QED  BY <3>2, <3>3
  <2>2. CASE p \notin Up(rest, 1)
    <3>1. p = 0 /\ Is1(k)
      BY <1>4, <2>2
    <3>2. k - p = k /\ p \in 0..m
      BY <1>1, <3>1 DEF m
    <3> QED  BY <3>1, <3>2
  <2> QED  BY <2>1, <2>2
<1> QED  BY <1>3, <1>4 DEF m, Is1

LEMMA BitFills ==
  ASSUME NEW full, NEW rest, NEW bytes, NEW k \in Nat, IsFilled(full, rest, bytes, k),
         NEW next, next = {p \in 0..(k % 5) : BitAt(bytes, 8, k - p)}
  PROVE  /\ (k + 1) % 5 = 0 => IsFilled(Append(full, next), {}, bytes, k + 1)
         /\ (k + 1) % 5 # 0 => IsFilled(full, next, bytes, k + 1)
<1>1. k % 5 \in 0..4 /\ k \div 5 \in Nat /\ k = 5 * (k \div 5) + (k % 5)
  OBVIOUS
<1>2. ASSUME (k + 1) % 5 = 0 PROVE IsFilled(Append(full, next), {}, bytes, k + 1)
  <2>1. k % 5 = 4 /\ (k + 1) \div 5 = (k \div 5) + 1
    BY <1>1, <1>2
  <2> DEFINE m == Len(full)
             t == Append(full, next)
  <2>2. next \in GroupValues
    BY <2>1 DEF GroupValues
  <2>3. /\ t \in Seq(GroupValues) /\ Len(t) = m + 1 /\ t[m + 1] = next
        /\ \A i \in 1..m : t[i] = full[i]
    BY <2>2, AppendProperties DEF IsFilled
  <2>4. m = k \div 5 /\ m \in Nat
    BY <1>1 DEF IsFilled
  <2>5. IsGroupOf(t[m + 1], bytes, m + 1)
    <3>1. \A p \in 0..4 : k - p = 5 * (m + 1) - 1 - p
      BY <1>1, <2>1, <2>4
    <3> HIDE DEF t, m
    <3>2. next = {p \in 0..4 : BitAt(bytes, 8, k - p)}
      BY <2>1
    <3> QED  BY <2>3, <3>1, <3>2 DEF IsGroupOf
  <2>6. ASSUME NEW n \in 1..Len(t) PROVE IsGroupOf(t[n], bytes, n)
    <3>1. CASE n = m + 1
      BY <2>5, <3>1
    <3>2. CASE n # m + 1
      <4>1. n \in 1..m
        BY <2>3, <2>4, <3>2
      <4> QED  BY <2>3, <4>1 DEF IsFilled
    <3> QED  BY <3>1, <3>2
  <2>7. {p \in 0..(((k + 1) % 5) - 1) : BitAt(bytes, 8, k + 1 - 1 - p)} = {}
    <3>1. 0..(((k + 1) % 5) - 1) = {}
      BY <1>2
    <3> QED  BY <3>1
  <2> HIDE DEF t, m
  <2>8. Len(t) = (k + 1) \div 5 /\ t \in Seq(GroupValues)
    BY <2>1, <2>3, <2>4
  <2>9. IsFilled(t, {}, bytes, k + 1)
    BY <2>6, <2>7, <2>8 DEF IsFilled
  <2> QED  BY <2>9 DEF t
<1>3. ASSUME (k + 1) % 5 # 0 PROVE IsFilled(full, next, bytes, k + 1)
  <2>1. ((k + 1) % 5) - 1 = k % 5 /\ (k + 1) \div 5 = k \div 5
    BY <1>1, <1>3
  <2>2. \A p : p \in 0..4 => k + 1 - 1 - p = k - p
    OBVIOUS
  <2>3. next = {p \in 0..(((k + 1) % 5) - 1) : BitAt(bytes, 8, k + 1 - 1 - p)}
    <3>1. 0..(k % 5) \subseteq 0..4
      BY <1>1
    <3> QED  BY <2>1, <2>2, <3>1
  <2> QED  BY <2>1, <2>3 DEF IsFilled
<1> QED  BY <1>2, <1>3

(***************************************************************************)
(* Addresses: the invariant                                                *)
(***************************************************************************)
\* t is words, the groups of bytes, and the first n groups of their checksum c
IsChecked(t, words, bytes, c, n) ==
  /\ IsGrouped(words, bytes)
  /\ c = Xor(Zeroed(Polymod(HrpExpanded \o words, {0}), 6), {0})
  /\ t \in Seq(GroupValues) /\ Len(t) = Len(words) + n
  /\ \A i \in 1..Len(words) : t[i] = words[i]
  /\ \A i \in 1..n : t[Len(words) + i] = ChecksumGroup(c, i)

AddressInv ==
  /\ turn \in Nat
  /\ at = "idle" => turn = 0 /\ group = {} /\ raw = <<>> /\ text = <<>>
  /\ at # "idle" => IsAddress(data)
  /\ at = "bits" =>
       /\ IsFilled(raw, group, data, turn) /\ turn <= 8 * Len(data)
       /\ chk = Polymod(HrpExpanded, {0})
  /\ at = "groups" =>
       /\ IsGrouped(text, data) /\ turn <= Len(text)
       /\ chk = Polymod(HrpExpanded \o SubSeq(text, 1, turn), {0})
  /\ at = "zeros" =>
       /\ IsGrouped(text, data) /\ turn <= 6
       /\ chk = Zeroed(Polymod(HrpExpanded \o text, {0}), turn)
  /\ at = "checksum" => turn <= 6 /\ \E words : IsChecked(text, words, data, chk, turn)
  /\ at = "encoded" => \E words : IsChecked(text, words, data, chk, 6)

LEMMA Prefixed ==
  /\ {0} \in ChkValues /\ HrpExpanded \in Seq(ChkValues) /\ GroupValues \subseteq ChkValues
  /\ Polymod(HrpExpanded, {0}) \in ChkValues
<1>1. {0} \in ChkValues /\ {} \in ChkValues /\ GroupValues \subseteq ChkValues
  BY DEF ChkValues, GroupValues
<1>2. \A k : Places(k) \in ChkValues
  BY DEF Places, ChkValues
<1>3. [n \in 1..3 |-> Places(Hrp[n] \div 32)] \in Seq(ChkValues)
  BY <1>2, IsASeq
<1>4. [n \in 1..3 |-> Places(Hrp[n] % 32)] \in Seq(ChkValues)
  BY <1>2, IsASeq
<1>5. <<{}>> \in Seq(ChkValues)
  BY <1>1
<1> DEFINE a == [n \in 1..3 |-> Places(Hrp[n] \div 32)]
           b == <<{}>>
           c == [n \in 1..3 |-> Places(Hrp[n] % 32)]
<1>6. HrpExpanded = a \o b \o c
  BY DEF HrpExpanded
<1>7. a \in Seq(ChkValues) /\ b \in Seq(ChkValues) /\ c \in Seq(ChkValues)
  BY <1>3, <1>4, <1>5
<1> HIDE DEF a, b, c
<1>8. HrpExpanded \in Seq(ChkValues)
  <2>1. a \o b \in Seq(ChkValues)
    BY <1>7, ConcatProperties
  <2> DEFINE front == a \o b
  <2> HIDE DEF front
  <2>2. front \o c \in Seq(ChkValues)
    BY <1>7, <2>1, ConcatProperties DEF front
  <2> QED  BY <1>6, <2>2 DEF front
<1> QED  BY <1>1, <1>8, PolymodType

LEMMA AddressStarts == AddressInit => AddressInv
BY DEF AddressInit, AddressInv

LEMMA StartAddressKeeps ==
  ASSUME NEW bytes \in AddressBytes, AddressInv, StartAddress(bytes)
  PROVE  AddressInv'
<1>1. /\ at = "idle" /\ data' = bytes /\ at' = "bits" /\ chk' = Polymod(HrpExpanded, {0})
      /\ turn' = turn /\ group' = group /\ raw' = raw /\ text' = text
  BY DEF StartAddress
<1>2. turn = 0 /\ group = {} /\ raw = <<>> /\ text = <<>>
  BY <1>1 DEF AddressInv
<1>3. IsAddress(bytes)
  BY AddressAssumption DEF IsAddress
<1>4. IsFilled(<<>>, {}, bytes, 0)
  <2>1. <<>> \in Seq(GroupValues) /\ Len(<<>>) = 0 /\ 0 \div 5 = 0
    BY EmptySeq
  <2>2. 0..((0 % 5) - 1) = {}
    OBVIOUS
  <2> QED  BY <2>1, <2>2 DEF IsFilled
<1>5. 0 <= 8 * Len(bytes)
  BY <1>3, LenProperties DEF IsAddress
<1> QED  BY <1>1, <1>2, <1>3, <1>4, <1>5 DEF AddressInv

LEMMA EncodeBitKeeps ==
  ASSUME AddressInv, EncodeBit
  PROVE  AddressInv'
<1> DEFINE next == Up(group, 1) \cup (IF BitAt(data, 8, turn) THEN {0} ELSE {})
<1>1. /\ at = "bits" /\ turn < 8 * Len(data) /\ turn' = turn + 1
      /\ data' = data /\ at' = at /\ chk' = chk /\ text' = text
      /\ (turn + 1) % 5 = 0 => raw' = Append(raw, next) /\ group' = {}
      /\ (turn + 1) % 5 # 0 => raw' = raw /\ group' = next
  BY DEF EncodeBit
<1>2. /\ IsFilled(raw, group, data, turn) /\ turn \in Nat /\ IsAddress(data)
      /\ chk = Polymod(HrpExpanded, {0})
  BY <1>1 DEF AddressInv
<1>3. next = {p \in 0..(turn % 5) : BitAt(data, 8, turn - p)}
  BY <1>2, NextGroup
<1> HIDE DEF next
<1>4. /\ (turn + 1) % 5 = 0 => IsFilled(Append(raw, next), {}, data, turn + 1)
      /\ (turn + 1) % 5 # 0 => IsFilled(raw, next, data, turn + 1)
  BY <1>2, <1>3, BitFills
<1>5. IsFilled(raw', group', data, turn + 1)
  BY <1>1, <1>4
<1>6. turn + 1 \in Nat /\ turn + 1 <= 8 * Len(data)
  BY <1>1, <1>2, LenProperties DEF IsAddress
<1> QED  BY <1>1, <1>2, <1>5, <1>6 DEF AddressInv

LEMMA BitsEncodedKeeps ==
  ASSUME AddressInv, BitsEncoded
  PROVE  AddressInv'
<1>1. /\ at = "bits" /\ turn = 8 * Len(data) /\ at' = "groups" /\ turn' = 0
      /\ text' = SubSeq(Append(raw, group), 1, GroupsOf(turn))
      /\ data' = data /\ chk' = chk
  BY DEF BitsEncoded
<1>2. /\ IsFilled(raw, group, data, turn) /\ turn \in Nat /\ IsAddress(data)
      /\ chk = Polymod(HrpExpanded, {0})
  BY <1>1 DEF AddressInv
<1> DEFINE K == Len(raw)
           L == Len(data)
<1>3. L \in Nat /\ L % 5 = 0 /\ K \in Nat /\ K = turn \div 5
  BY <1>2, LenProperties DEF IsAddress, IsFilled
<1>4. 5 * K = 8 * L /\ GroupsOf(turn) = K /\ turn % 5 = 0
  <2>1. turn = 8 * L
    BY <1>1
  <2> HIDE DEF K, L
  <2>2. L = 5 * (L \div 5) /\ L \div 5 \in Nat
    BY <1>3
  <2>3. turn = 5 * (8 * (L \div 5))
    BY <2>1, <2>2
  <2>4. turn % 5 = 0 /\ turn \div 5 = 8 * (L \div 5) /\ (turn + 1) \div 5 = 8 * (L \div 5)
    BY <2>2, <2>3
  <2> QED  BY <1>3, <2>1, <2>3, <2>4 DEF GroupsOf
<1>5. group = {}
  <2>1. 0..((turn % 5) - 1) = {}
    BY <1>4
  <2> QED  BY <1>2, <2>1 DEF IsFilled
<1>6. text' = raw
  <2> DEFINE t == Append(raw, group)
  <2>1. group \in GroupValues /\ raw \in Seq(GroupValues)
    BY <1>2, <1>5 DEF GroupValues, IsFilled
  <2>2. t \in Seq(GroupValues) /\ Len(t) = K + 1 /\ \A i \in 1..K : t[i] = raw[i]
    BY <2>1, AppendProperties
  <2>3. text' = SubSeq(t, 1, K)
    BY <1>1, <1>4
  <2> HIDE DEF t
  <2>4. /\ SubSeq(t, 1, K) \in Seq(GroupValues) /\ Len(SubSeq(t, 1, K)) = K
        /\ \A i \in 1..K : SubSeq(t, 1, K)[i] = t[i]
    BY <1>3, <2>2, SubSeqProperties, ElementOfSeq
  <2> QED  BY <2>1, <2>2, <2>3, <2>4, SeqEqual
<1>7. IsGrouped(raw, data)
  BY <1>2, <1>4 DEF IsFilled, IsGrouped
<1>8. HrpExpanded \o SubSeq(raw, 1, 0) = HrpExpanded
  <2>1. SubSeq(raw, 1, 0) = <<>>
    BY <1>2, SubSeqEmpty DEF IsFilled
  <2>2. HrpExpanded \in Seq(ChkValues)
    BY Prefixed
  <2>3. HrpExpanded \o <<>> = HrpExpanded
    <3> DEFINE h == HrpExpanded
    <3> HIDE DEF h
    <3>1. h \in Seq(ChkValues)
      BY <2>2 DEF h
    <3> QED  BY <3>1, ConcatEmptySeq DEF h
  <2> QED  BY <2>1, <2>3
<1>9. /\ at' = "groups" /\ turn' = 0 /\ IsAddress(data') /\ IsGrouped(text', data')
      /\ chk' = Polymod(HrpExpanded \o SubSeq(text', 1, turn'), {0})
  BY <1>1, <1>2, <1>6, <1>7, <1>8
<1>10. turn' \in Nat /\ turn' <= Len(text')
  <2>1. turn' = 0 /\ K \in Nat /\ Len(text') = K
    BY <1>1, <1>3, <1>6
  <2> HIDE DEF K
  <2> QED  BY <2>1
<1> QED  BY <1>9, <1>10 DEF AddressInv

LEMMA ConcatAppend ==
  ASSUME NEW S, NEW q \in Seq(S), NEW s \in Seq(S), NEW v \in S
  PROVE  q \o Append(s, v) = Append(q \o s, v)
<1> DEFINE e == <<v>>
           u == q \o s
<1>1. e \in Seq(S)
  OBVIOUS
<1>2. u \in Seq(S)
  BY ConcatProperties
<1>3. Append(s, v) = s \o e
  BY AppendIsConcat
<1> HIDE DEF u
<1>4. Append(u, v) = u \o e
  BY <1>2, AppendIsConcat
<1> HIDE DEF e
<1>5. (q \o s) \o e = q \o (s \o e)
  BY <1>1, ConcatAssociative
<1> QED  BY <1>3, <1>4, <1>5 DEF u

LEMMA AddGroupKeeps ==
  ASSUME AddressInv, AddGroup
  PROVE  AddressInv'
<1>1. /\ at = "groups" /\ data' = data /\ text' = text
      /\ turn < Len(text) =>
           chk' = PolymodStep(text[turn + 1], chk) /\ turn' = turn + 1 /\ at' = at
      /\ ~(turn < Len(text)) => at' = "zeros" /\ turn' = 0 /\ chk' = chk
  BY DEF AddGroup
<1> DEFINE h == HrpExpanded
           s == SubSeq(text, 1, turn)
<1>2. /\ turn \in Nat /\ IsAddress(data) /\ IsGrouped(text, data) /\ turn <= Len(text)
      /\ chk = Polymod(h \o s, {0})
  BY <1>1 DEF AddressInv
<1>3. text \in Seq(ChkValues) /\ Len(text) \in Nat
  BY <1>2, Prefixed, SeqMonotonic, LenProperties DEF IsGrouped
<1>4. s \in Seq(ChkValues) /\ Len(s) = turn /\ \A i \in 1..turn : s[i] = text[i]
  BY <1>2, <1>3, SubSeqProperties, ElementOfSeq
<1>5. CASE turn < Len(text)
  <2> DEFINE v == text[turn + 1]
             t == SubSeq(text, 1, turn + 1)
             u == h \o s
  <2>1. v \in ChkValues
    BY <1>2, <1>3, <1>5, ElementOfSeq
  <2>2. /\ t \in Seq(ChkValues) /\ Len(t) = turn + 1
        /\ \A i \in 1..(turn + 1) : t[i] = text[i]
    BY <1>2, <1>3, <1>5, SubSeqProperties, ElementOfSeq
  <2>3. h \in Seq(ChkValues) /\ Len(h) \in Nat
    BY Prefixed, LenProperties
  <2>4. h \o t = Append(h \o s, v)
    <3>1. turn + 1 \in 1..(turn + 1)
      BY <1>2
    <3>2. t[turn + 1] = v
      BY <2>2, <3>1
    <3> DEFINE w == Append(s, v)
    <3>3. /\ w \in Seq(ChkValues) /\ Len(w) = turn + 1 /\ w[turn + 1] = v
          /\ \A i \in 1..turn : w[i] = s[i]
      BY <1>4, <2>1, AppendProperties
    <3> HIDE DEF h, s, t, v, w
    <3>4. ASSUME NEW i \in 1..(turn + 1) PROVE t[i] = w[i]
      <4>1. CASE i = turn + 1
        BY <3>2, <3>3, <4>1
      <4>2. CASE i # turn + 1
        <5>1. i \in 1..turn
          BY <1>2, <4>2
        <5> QED  BY <1>4, <2>2, <3>3, <5>1
      <4> QED  BY <4>1, <4>2
    <3>5. t = w
      BY <2>2, <3>3, <3>4, SeqEqual
    <3>6. h \o Append(s, v) = Append(h \o s, v)
      BY <1>4, <2>1, <2>3, ConcatAppend
    <3> QED  BY <3>5, <3>6 DEF w
  <2>5. u \in Seq(ChkValues)
    BY <1>4, <2>3, ConcatProperties
  <2> DEFINE one == {0}
  <2>6. one \in ChkValues
    BY Prefixed
  <2>7. chk = Polymod(u, one)
    BY <1>2
  <2>8. Polymod(h \o t, {0}) = Polymod(Append(u, v), one)
    BY <2>4
  <2> HIDE DEF v, u, one
  <2>9. Polymod(Append(u, v), one) = PolymodStep(v, Polymod(u, one))
    BY <2>1, <2>5, <2>6, PolymodAppend
  <2>10. chk' = Polymod(h \o t, {0})
    BY <1>1, <1>5, <2>7, <2>8, <2>9 DEF v
  <2>11. turn + 1 \in Nat /\ turn + 1 <= Len(text)
    BY <1>2, <1>3, <1>5
  <2> QED  BY <1>1, <1>2, <1>5, <2>10, <2>11 DEF AddressInv
<1>6. CASE ~(turn < Len(text))
  <2>1. turn = Len(text)
    BY <1>2, <1>3, <1>6
  <2>2. s = text
    BY <1>3, <1>4, <2>1, SeqEqual
  <2> DEFINE c == Polymod(h \o text, {0})
  <2>3. chk = c
    BY <1>2, <2>2
  <2>4. c \in ChkValues
    BY <1>3, Prefixed, ConcatProperties, PolymodType
  <2> HIDE DEF c
  <2>5. chk = Zeroed(c, 0)
    BY <2>3, <2>4, ZeroedStep
  <2>6. at' = "zeros" /\ turn' = 0 /\ chk' = Zeroed(Polymod(h \o text, {0}), 0)
    BY <1>1, <1>6, <2>5 DEF c
  <2> QED  BY <1>1, <1>2, <2>6 DEF AddressInv
<1> QED  BY <1>5, <1>6

LEMMA AddZeroKeeps ==
  ASSUME AddressInv, AddZero
  PROVE  AddressInv'
<1>1. /\ at = "zeros" /\ data' = data /\ text' = text
      /\ turn < 6 => chk' = PolymodStep({}, chk) /\ turn' = turn + 1 /\ at' = at
      /\ ~(turn < 6) => chk' = Xor(chk, {0}) /\ at' = "checksum" /\ turn' = 0
  BY DEF AddZero, CHECKSUM_LENGTH
<1> DEFINE c == Polymod(HrpExpanded \o text, {0})
<1>2. /\ turn \in Nat /\ IsAddress(data) /\ IsGrouped(text, data) /\ turn <= 6
      /\ chk = Zeroed(c, turn)
  BY <1>1 DEF AddressInv
<1>3. text \in Seq(GroupValues) /\ text \in Seq(ChkValues) /\ Len(text) \in Nat
  BY <1>2, Prefixed, SeqMonotonic, LenProperties DEF IsGrouped
<1>4. c \in ChkValues
  BY <1>3, Prefixed, ConcatProperties, PolymodType
<1>5. CASE turn < 6
  <2> HIDE DEF c
  <2>1. PolymodStep({}, Zeroed(c, turn)) = Zeroed(c, turn + 1)
    BY <1>2, <1>4, ZeroedStep
  <2>2. chk' = Zeroed(Polymod(HrpExpanded \o text, {0}), turn + 1) /\ turn + 1 <= 6 /\ turn + 1 \in Nat
    BY <1>1, <1>2, <1>5, <2>1 DEF c
  <2> QED  BY <1>1, <1>2, <1>5, <2>2 DEF AddressInv
<1>6. CASE ~(turn < 6)
  <2>1. turn = 6
    BY <1>2, <1>6
  <2>2. chk' = Xor(Zeroed(Polymod(HrpExpanded \o text, {0}), 6), {0})
    BY <1>1, <1>2, <1>6, <2>1
  <2>3. IsChecked(text', text, data', chk', 0)
    BY <1>1, <1>2, <1>3, <2>2 DEF IsChecked
  <2> QED  BY <1>1, <1>2, <1>6, <2>3 DEF AddressInv
<1> QED  BY <1>5, <1>6

LEMMA CheckedType ==
  ASSUME NEW t, NEW words, NEW bytes, NEW c, NEW n, IsChecked(t, words, bytes, c, n)
  PROVE  c \in ChkValues /\ words \in Seq(ChkValues) /\ Len(words) \in Nat
<1>1. words \in Seq(ChkValues) /\ Len(words) \in Nat
  BY Prefixed, SeqMonotonic, LenProperties DEF IsChecked, IsGrouped
<1> DEFINE p == Polymod(HrpExpanded \o words, {0})
<1>2. p \in ChkValues
  BY <1>1, Prefixed, ConcatProperties, PolymodType
<1>3. c = Xor(Zeroed(p, 6), {0})
  BY DEF IsChecked
<1> HIDE DEF p
<1>4. Zeroed(p, 6) \in ChkValues
  BY <1>2, ZeroedStep
<1>5. c \in ChkValues
  BY <1>3, <1>4 DEF Xor, ChkValues
<1> QED  BY <1>1, <1>5

LEMMA AppendChecksumKeeps ==
  ASSUME AddressInv, AppendChecksum
  PROVE  AddressInv'
<1> DEFINE g == Low(Down(chk, 5 * (5 - turn)), 5)
<1>1. /\ at = "checksum" /\ data' = data /\ chk' = chk
      /\ turn < 6 => text' = Append(text, g) /\ turn' = turn + 1 /\ at' = at
      /\ ~(turn < 6) => at' = "encoded" /\ turn' = turn /\ text' = text
  BY DEF AppendChecksum, CHECKSUM_LENGTH
<1>2. turn \in Nat /\ IsAddress(data) /\ turn <= 6
  BY <1>1 DEF AddressInv
<1>3. PICK words : IsChecked(text, words, data, chk, turn)
  BY <1>1 DEF AddressInv
<1> DEFINE L == Len(words)
<1>4. chk \in ChkValues /\ L \in Nat
  BY <1>3, CheckedType
<1>5. CASE turn < 6
  <2>1. g = ChecksumGroup(chk, turn + 1) /\ g \in GroupValues
    <3>1. turn \in 0..5 /\ 5 * (6 - (turn + 1)) = 5 * (5 - turn)
      BY <1>2, <1>5
    <3>2. ChecksumGroup(chk, turn + 1) \in GroupValues
      BY <1>4, <3>1, DownType
    <3> QED  BY <3>1, <3>2 DEF ChecksumGroup
  <2>2. text \in Seq(GroupValues) /\ Len(text) = L + turn
    BY <1>3 DEF IsChecked
  <2> HIDE DEF g
  <2> DEFINE t == Append(text, g)
  <2>3. /\ t \in Seq(GroupValues) /\ Len(t) = Len(text) + 1 /\ t[Len(text) + 1] = g
        /\ \A i \in 1..Len(text) : t[i] = text[i]
    BY <2>1, <2>2, AppendProperties
  <2>4. text' = t
    BY <1>1, <1>5
  <2> HIDE DEF t
  <2>5. ASSUME NEW i \in 1..L PROVE t[i] = words[i]
    <3>1. i \in 1..Len(text)
      BY <1>2, <1>4, <2>2
    <3> QED  BY <1>3, <2>3, <3>1 DEF IsChecked
  <2>6. ASSUME NEW i \in 1..(turn + 1) PROVE t[L + i] = ChecksumGroup(chk, i)
    <3>1. CASE i = turn + 1
      <4>1. L + i = Len(text) + 1
        BY <1>2, <1>4, <2>2, <3>1
      <4> QED  BY <2>1, <2>3, <3>1, <4>1
    <3>2. CASE i # turn + 1
      <4>1. i \in 1..turn /\ L + i \in 1..Len(text)
        BY <1>2, <1>4, <2>2, <3>2
      <4> QED  BY <1>3, <2>3, <4>1 DEF IsChecked
    <3> QED  BY <3>1, <3>2
  <2>7. Len(t) = L + (turn + 1)
    BY <1>2, <1>4, <2>2, <2>3
  <2>8. IsGrouped(words, data) /\ chk = Xor(Zeroed(Polymod(HrpExpanded \o words, {0}), 6), {0})
    BY <1>3 DEF IsChecked
  <2>9. IsChecked(t, words, data, chk, turn + 1)
    BY <2>3, <2>5, <2>6, <2>7, <2>8 DEF IsChecked
  <2>10. turn' \in Nat /\ turn' <= 6 /\ at' = "checksum" /\ data' = data /\ turn' = turn + 1
    BY <1>1, <1>2, <1>5
  <2>11. IsChecked(text', words, data', chk', turn')
    BY <1>1, <2>4, <2>9, <2>10
  <2> QED  BY <1>2, <2>10, <2>11 DEF AddressInv
<1>6. CASE ~(turn < 6)
  <2>1. turn = 6
    BY <1>2, <1>6
  <2>2. IsChecked(text', words, data', chk', 6)
    BY <1>1, <1>3, <1>6, <2>1 DEF IsChecked
  <2> QED  BY <1>1, <1>2, <1>6, <2>1, <2>2 DEF AddressInv
<1> QED  BY <1>5, <1>6

LEMMA EncodedReadsBack == AddressInv => AddressReadsBack
<1> SUFFICES ASSUME AddressInv, at = "encoded"
             PROVE  /\ ReadBack(SubSeq(text, 1, Len(text) - CHECKSUM_LENGTH)) = data
                    /\ Polymod(HrpExpanded \o text, {0}) = {0}
  BY DEF AddressReadsBack
<1>1. PICK words : IsChecked(text, words, data, chk, 6)
  BY DEF AddressInv
<1>2. IsAddress(data)
  BY DEF AddressInv
<1> DEFINE L == Len(words)
           h == HrpExpanded
           H == Len(h)
           one == {0}
<1>3. words \in Seq(ChkValues) /\ L \in Nat
  BY <1>1, CheckedType
<1>4. /\ IsGrouped(words, data) /\ text \in Seq(GroupValues) /\ Len(text) = L + 6
      /\ \A i \in 1..L : text[i] = words[i]
      /\ \A i \in 1..6 : text[L + i] = ChecksumGroup(chk, i)
      /\ chk = Xor(Zeroed(Polymod(h \o words, one), 6), {0})
  BY <1>1 DEF IsChecked
<1>5. ReadBack(SubSeq(text, 1, Len(text) - CHECKSUM_LENGTH)) = data
  <2>1. Len(text) - CHECKSUM_LENGTH = L
    BY <1>3, <1>4 DEF CHECKSUM_LENGTH
  <2>2. /\ SubSeq(text, 1, L) \in Seq(GroupValues) /\ Len(SubSeq(text, 1, L)) = L
        /\ \A i \in 1..L : SubSeq(text, 1, L)[i] = text[i]
    BY <1>3, <1>4, SubSeqProperties, ElementOfSeq
  <2>3. words \in Seq(GroupValues)
    BY <1>4 DEF IsGrouped
  <2>4. SubSeq(text, 1, L) = words
    BY <1>4, <2>2, <2>3, SeqEqual
  <2> QED  BY <1>2, <1>4, <2>1, <2>4, GroupsReadBack
<1>6. Polymod(h \o text, one) = {0}
  <2>1. h \in Seq(ChkValues) /\ H \in Nat /\ one \in ChkValues
    BY Prefixed, LenProperties
  <2>2. text \in Seq(ChkValues)
    BY <1>4, Prefixed, SeqMonotonic
  <2> HIDE DEF h, one
  <2> DEFINE w == h \o words
             t == h \o text
  <2>3. /\ w \in Seq(ChkValues) /\ Len(w) = H + L
        /\ \A i \in 1..(H + L) : w[i] = IF i <= H THEN h[i] ELSE words[i - H]
    BY <1>3, <2>1, ConcatProperties
  <2>4. /\ t \in Seq(ChkValues) /\ Len(t) = H + (L + 6)
        /\ \A i \in 1..(H + (L + 6)) : t[i] = IF i <= H THEN h[i] ELSE text[i - H]
    <3>1. /\ t \in Seq(ChkValues) /\ Len(t) = H + Len(text)
          /\ \A i \in 1..(H + Len(text)) : t[i] = IF i <= H THEN h[i] ELSE text[i - H]
      BY <2>1, <2>2, ConcatProperties
    <3>2. Len(text) = L + 6
      BY <1>4
    <3> QED  BY <3>1, <3>2
  <2>5. chk = Xor(Zeroed(Polymod(w, one), 6), {0})
    BY <1>4
  <2> HIDE DEF w, t, H, L
  <2>6. Len(t) = Len(w) + 6
    BY <1>3, <2>1, <2>3, <2>4
  <2>7. ASSUME NEW i \in 1..Len(w) PROVE t[i] = w[i]
    <3>1. i \in 1..(H + L) /\ i \in 1..(H + (L + 6))
      BY <1>3, <2>1, <2>3
    <3>2. CASE i <= H
      BY <2>3, <2>4, <3>1, <3>2
    <3>3. CASE ~(i <= H)
      <4>1. i - H \in 1..L
        BY <1>3, <2>1, <3>1, <3>3
      <4> QED  BY <1>4, <2>3, <2>4, <3>1, <3>3, <4>1
    <3> QED  BY <3>2, <3>3
  <2>8. ASSUME NEW i \in 1..6 PROVE t[Len(w) + i] = ChecksumGroup(chk, i)
    <3>1. /\ Len(w) + i \in 1..(H + (L + 6)) /\ ~(Len(w) + i <= H)
          /\ (Len(w) + i) - H = L + i
      BY <1>3, <2>1, <2>3
    <3> QED  BY <1>4, <2>4, <3>1
  <2>9. IsClosed(t, w, one, chk)
    BY <2>5, <2>6, <2>7, <2>8 DEF IsClosed
  <2>10. Polymod(t, one) = {0}
    BY <2>1, <2>3, <2>4, <2>9, ChecksumCloses
  <2> QED  BY <2>10 DEF t
<1> QED  BY <1>5, <1>6 DEF h, one

\* Whatever the address and whatever the generators, AddressInv holds before
\* and after every turn of the loops of base32_encode_raw and
\* bech32_get_address (base32.c:33-57, bech32.c:21-89).
THEOREM AddressInvariance == AddressSpec => []AddressInv
<1>1. AddressInv /\ [AddressNext]_addressVars => AddressInv'
  <2> SUFFICES ASSUME AddressInv, [AddressNext]_addressVars PROVE AddressInv'
    OBVIOUS
  <2>1. ASSUME NEW bytes \in AddressBytes, StartAddress(bytes) PROVE AddressInv'
    BY <2>1, StartAddressKeeps
  <2>2. CASE EncodeBit
    BY <2>2, EncodeBitKeeps
  <2>3. CASE BitsEncoded
    BY <2>3, BitsEncodedKeeps
  <2>4. CASE AddGroup
    BY <2>4, AddGroupKeeps
  <2>5. CASE AddZero
    BY <2>5, AddZeroKeeps
  <2>6. CASE AppendChecksum
    BY <2>6, AppendChecksumKeeps
  <2>7. CASE UNCHANGED addressVars
    BY <2>7 DEF addressVars, AddressInv
  <2> QED  BY <2>1, <2>2, <2>3, <2>4, <2>5, <2>6, <2>7 DEF AddressNext
<1> QED  BY <1>1, AddressStarts, PTL DEF AddressSpec

\* The text of every address, of any length that fills its groups, reads back
\* as its bytes, and prefix, text and checksum give the polynomial 1 that a
\* wallet asks for (base32.c:33-57, bech32.c:21-89).
THEOREM EveryAddressReadsBack == AddressSpec => []AddressReadsBack
BY AddressInvariance, EncodedReadsBack, PTL

(***************************************************************************)
(* The layout of signatures, for every size of the parts and every pair of *)
(* lengths in DER                                                          *)
(***************************************************************************)
LEMMA Sizes ==
  ASSUME NEW a \in Lengths
  PROVE  /\ Size \in Nat /\ Size >= 5 /\ TlvSize \in Nat /\ 2 * Size + 8 <= TlvSize
         /\ a \in Nat /\ Size - 4 <= a /\ a <= Size + 1
<1>1. Size \in Nat /\ Size >= 5
  BY SignatureAssumption
<1> QED  BY <1>1, SignatureAssumption

LEMMA IntegerShape ==
  ASSUME NEW a \in Lengths, NEW of \in {"r", "s"}
  PROVE  /\ Integer(of, a) \in Seq(Byte) /\ Len(Integer(of, a)) = a
         /\ \A n \in 1..a : n <= Size =>
              Integer(of, a)[a + 1 - n] = [of |-> of, place |-> n]
<1>1. a \in Nat /\ Size \in Nat /\ a <= Size + 1
  BY Sizes
<1>2. ASSUME NEW n \in 1..a
      PROVE  (IF n = 1 /\ a = Size + 1 THEN Zero ELSE [of |-> of, place |-> a + 1 - n]) \in Byte
  <2>1. a + 1 - n \in Nat
    BY <1>1
  <2>2. Zero \in Byte
    BY DEF Zero, Byte
  <2>3. [of |-> of, place |-> a + 1 - n] \in Byte
    BY <2>1 DEF Byte
  <2> QED  BY <2>2, <2>3
<1>3. Integer(of, a) \in [1..a -> Byte]
  BY <1>2 DEF Integer
<1>4. ASSUME NEW n \in 1..a, n <= Size
      PROVE  Integer(of, a)[a + 1 - n] = [of |-> of, place |-> n]
  <2>1. a + 1 - n \in 1..a /\ a + 1 - (a + 1 - n) = n
        /\ ~(a + 1 - n = 1 /\ a = Size + 1)
    BY <1>1, <1>4
  <2> QED  BY <2>1 DEF Integer
<1> QED  BY <1>1, <1>3, <1>4

LEMMA HeaderByte ==
  ASSUME NEW n \in Nat
  PROVE  Header(n) \in Byte
BY DEF Header, Byte

\* A sequence of bytes and its length
Long(s, l) == s \in Seq(Byte) /\ l \in Nat /\ Len(s) = l

Joined(c, s, l, t, m) ==
  /\ Long(c, l + m)
  /\ \A n \in 1..l : c[n] = s[n]
  /\ \A n \in 1..m : c[l + n] = t[n]

\* The bytes of a concatenation
LEMMA ConcatPlaces ==
  ASSUME NEW s, NEW l, Long(s, l), NEW t, NEW m, Long(t, m)
  PROVE  Joined(s \o t, s, l, t, m)
<1> DEFINE c == s \o t
<1>1. /\ s \in Seq(Byte) /\ Len(s) = l /\ l \in Nat
      /\ t \in Seq(Byte) /\ Len(t) = m /\ m \in Nat
  BY DEF Long
<1>2. c \in Seq(Byte) /\ Len(c) = l + m
      /\ \A i \in 1..(l + m) : c[i] = IF i <= l THEN s[i] ELSE t[i - l]
  BY <1>1, ConcatProperties
<1> HIDE DEF c
<1>3. Long(c, l + m)
  BY <1>1, <1>2 DEF Long
<1>4. ASSUME NEW n \in 1..l PROVE c[n] = s[n]
  BY <1>1, <1>2
<1>5. ASSUME NEW n \in 1..m PROVE c[l + n] = t[n]
  <2>1. l + n \in 1..(l + m) /\ ~(l + n <= l) /\ l + n - l = n
    BY <1>1
  <2>2. c[l + n] = IF l + n <= l THEN s[l + n] ELSE t[l + n - l]
    BY <1>1, <1>2, <2>1
  <2> QED  BY <2>1, <2>2
<1> QED  BY <1>3, <1>4, <1>5 DEF c, Joined

\* Where r and s are in what the signing call returns, with anything behind it
InPlace(t, a, b) ==
  /\ t[4] = Header(a) /\ t[6 + a] = Header(b)
  /\ \A n \in 1..a : n <= Size => t[5 + a - n] = [of |-> "r", place |-> n]
  /\ \A n \in 1..b : n <= Size => t[7 + a + b - n] = [of |-> "s", place |-> n]

LEMMA DerShape ==
  ASSUME NEW a \in Lengths, NEW b \in Lengths, NEW f \in Seq(Byte)
  PROVE  /\ Len(Der(a, b)) = 6 + a + b
         /\ Long(Der(a, b) \o f, 6 + a + b + Len(f))
         /\ InPlace(Der(a, b) \o f, a, b)
<1> DEFINE h == <<Header(48), Header(4 + a + b), Header(2), Header(a)>>
           g == <<Header(2), Header(b)>>
           r == Integer("r", a)
           s == Integer("s", b)
           t1 == h \o r
           t2 == t1 \o g
           t3 == t2 \o s
           t4 == t3 \o f
<1>1. a \in Nat /\ b \in Nat /\ Size \in Nat
  BY Sizes
<1>2. h \in Seq(Byte) /\ Len(h) = 4 /\ h[4] = Header(a)
  <2>1. Header(48) \in Byte /\ Header(4 + a + b) \in Byte /\ Header(2) \in Byte
        /\ Header(a) \in Byte
    BY <1>1, HeaderByte
  <2> QED  BY <2>1
<1>3. g \in Seq(Byte) /\ Len(g) = 2 /\ g[2] = Header(b)
  <2>1. Header(2) \in Byte /\ Header(b) \in Byte
    BY <1>1, HeaderByte
  <2> QED  BY <2>1
<1>4. /\ r \in Seq(Byte) /\ Len(r) = a
      /\ \A n \in 1..a : n <= Size => r[a + 1 - n] = [of |-> "r", place |-> n]
  BY IntegerShape
<1>5. /\ s \in Seq(Byte) /\ Len(s) = b
      /\ \A n \in 1..b : n <= Size => s[b + 1 - n] = [of |-> "s", place |-> n]
  BY IntegerShape
<1>6. Der(a, b) = t3
  BY DEF Der
<1> HIDE DEF h, g, r, s
<1>7. /\ Long(t1, 4 + a)
      /\ \A n \in 1..4 : t1[n] = h[n]
      /\ \A n \in 1..a : t1[4 + n] = r[n]
  <2>1. Long(h, 4) /\ Long(r, a)
    BY <1>1, <1>2, <1>4 DEF Long
  <2>2. Joined(t1, h, 4, r, a)
    BY <2>1, ConcatPlaces DEF t1
  <2> QED  BY <2>2 DEF Joined
<1> HIDE DEF t1
<1>8. /\ Long(t2, 6 + a)
      /\ \A n \in 1..(4 + a) : t2[n] = t1[n]
      /\ \A n \in 1..2 : t2[4 + a + n] = g[n]
  <2>1. Long(g, 2)
    BY <1>3 DEF Long
  <2>2. /\ Long(t2, (4 + a) + 2)
        /\ \A n \in 1..(4 + a) : t2[n] = t1[n]
        /\ \A n \in 1..2 : t2[(4 + a) + n] = g[n]
    <3>1. Joined(t2, t1, 4 + a, g, 2)
      BY <1>7, <2>1, ConcatPlaces DEF t2
    <3> QED  BY <3>1 DEF Joined
  <2>3. (4 + a) + 2 = 6 + a
    BY <1>1
  <2> QED  BY <2>2, <2>3
<1> HIDE DEF t2
<1>9. /\ Long(t3, 6 + a + b)
      /\ \A n \in 1..(6 + a) : t3[n] = t2[n]
      /\ \A n \in 1..b : t3[6 + a + n] = s[n]
  <2>1. Long(s, b)
    BY <1>1, <1>5 DEF Long
  <2>2. Joined(t3, t2, 6 + a, s, b)
    BY <1>8, <2>1, ConcatPlaces DEF t3
  <2> QED  BY <2>2 DEF Joined
<1> HIDE DEF t3
<1>10. /\ Long(t4, 6 + a + b + Len(f))
       /\ \A n \in 1..(6 + a + b) : t4[n] = t3[n]
  <2>1. Long(f, Len(f))
    BY DEF Long
  <2>2. Joined(t4, t3, 6 + a + b, f, Len(f))
    BY <1>9, <2>1, ConcatPlaces DEF t4
  <2> QED  BY <2>2 DEF Joined
<1> HIDE DEF t4
<1>11. t4[4] = Header(a)
  <2>1. 4 \in 1..4 /\ 4 \in 1..(4 + a) /\ 4 \in 1..(6 + a) /\ 4 \in 1..(6 + a + b)
    BY <1>1
  <2> QED  BY <2>1, <1>2, <1>7, <1>8, <1>9, <1>10
<1>12. t4[6 + a] = Header(b)
  <2>1. 4 + a + 2 = 6 + a /\ 2 \in 1..2 /\ 6 + a \in 1..(6 + a)
        /\ 6 + a \in 1..(6 + a + b)
    BY <1>1
  <2> QED  BY <2>1, <1>3, <1>8, <1>9, <1>10
<1>13. ASSUME NEW n \in 1..a, n <= Size
       PROVE  t4[5 + a - n] = [of |-> "r", place |-> n]
  <2>1. /\ a + 1 - n \in 1..a /\ 4 + (a + 1 - n) = 5 + a - n
        /\ 5 + a - n \in 1..(4 + a) /\ 5 + a - n \in 1..(6 + a)
        /\ 5 + a - n \in 1..(6 + a + b)
    BY <1>1
  <2>2. t1[5 + a - n] = r[a + 1 - n]
    BY <2>1, <1>7
  <2>3. t4[5 + a - n] = t1[5 + a - n]
    BY <2>1, <1>8, <1>9, <1>10
  <2> QED  BY <2>2, <2>3, <1>4, <1>13
<1>14. ASSUME NEW n \in 1..b, n <= Size
       PROVE  t4[7 + a + b - n] = [of |-> "s", place |-> n]
  <2>1. /\ b + 1 - n \in 1..b /\ 6 + a + (b + 1 - n) = 7 + a + b - n
        /\ 7 + a + b - n \in 1..(6 + a + b)
    BY <1>1
  <2>2. t3[7 + a + b - n] = s[b + 1 - n]
    BY <2>1, <1>9
  <2>3. t4[7 + a + b - n] = t3[7 + a + b - n]
    BY <2>1, <1>10
  <2> QED  BY <2>2, <2>3, <1>5, <1>14
<1>15. Der(a, b) \o f = t4
  BY <1>6 DEF t4
<1>16. Len(t3) = 6 + a + b
  BY <1>9 DEF Long
<1>17. InPlace(t4, a, b)
  BY <1>11, <1>12, <1>13, <1>14 DEF InPlace
<1> QED  BY <1>6, <1>10, <1>15, <1>16, <1>17

LEMMA InvInit == SignatureInit => SignatureInv
BY DEF SignatureInit, SignatureInv, DerInv, PartsAreInPlace

LEMMA SignKeeps == SignatureInv /\ Sign => SignatureInv'
<1> SUFFICES ASSUME SignatureInv, Sign PROVE SignatureInv'
  OBVIOUS
<1>0. dst = <<>> /\ dst' = <<>>
  BY DEF SignatureInv, DerInv, Sign
<1>1. PICK a \in Lengths, b \in Lengths :
        tlv' = Der(a, b) \o [n \in 1..(TlvSize - Len(Der(a, b))) |-> LeftOver]
  BY DEF Sign
<1> DEFINE m == TlvSize - (6 + a + b)
           f == [n \in 1..m |-> LeftOver]
<1>2. m \in Nat /\ 6 + a + b + m = TlvSize
  BY Sizes
<1>3. f \in Seq(Byte) /\ Len(f) = m
  <2>1. LeftOver \in Byte
    BY DEF LeftOver, Byte
  <2> HIDE DEF m
  <2>2. f \in [1..m -> Byte]
    BY <2>1
  <2> QED  BY <1>2, <2>2
<1> HIDE DEF f
<1>4. Len(Der(a, b)) = 6 + a + b
  BY <1>3, DerShape
<1>5. tlv' = Der(a, b) \o f
  BY <1>1, <1>4 DEF f
<1>6. Long(tlv', 6 + a + b + Len(f)) /\ InPlace(tlv', a, b)
  <2> HIDE DEF m
  <2> QED  BY <1>3, <1>5, DerShape
<1>7. tlv' \in Seq(Byte) /\ Len(tlv') = TlvSize
  BY <1>2, <1>3, <1>6 DEF Long
<1>8. DerInv'
  BY <1>0, <1>6, <1>7 DEF DerInv, InPlace
<1>9. PartsAreInPlace'
  BY <1>0 DEF PartsAreInPlace
<1> QED  BY <1>8, <1>9 DEF SignatureInv

\* The bytes from..from+Size-1 of tlv
LEMMA MoveShape ==
  ASSUME NEW from \in Nat, NEW t \in Seq(Byte), tlv = t, Size \in Nat, NEW l, l = Len(t),
         from + Size <= l
  PROVE  /\ Move(from) \in Seq(Byte) /\ Len(Move(from)) = Size
         /\ \A n \in 1..Size : Move(from)[n] = t[from + n]
<1>1. l \in Nat /\ \A n \in 1..l : t[n] \in Byte
  OBVIOUS
<1>2. /\ from + 1 \in Int /\ from + Size \in Int
      /\ \A n \in (from + 1)..(from + Size) : t[n] \in Byte
  BY <1>1
<1>3. /\ SubSeq(t, from + 1, from + Size) \in Seq(Byte)
      /\ Len(SubSeq(t, from + 1, from + Size)) =
           IF from + 1 <= from + Size THEN from + Size - (from + 1) + 1 ELSE 0
      /\ \A n \in 1..(from + Size - (from + 1) + 1) :
           SubSeq(t, from + 1, from + Size)[n] = t[from + 1 + n - 1]
  BY <1>2, SubSeqProperties
<1>4. /\ from + Size - (from + 1) + 1 = Size
      /\ \A n \in 1..Size : from + 1 + n - 1 = from + n
      /\ (IF from + 1 <= from + Size THEN Size ELSE 0) = Size
  OBVIOUS
<1> DEFINE p == SubSeq(t, from + 1, from + Size)
<1>5. Move(from) = p
  BY DEF Move
<1> HIDE DEF p
<1>6. p \in Seq(Byte) /\ Len(p) = Size /\ \A n \in 1..Size : p[n] = t[from + n]
  BY <1>3, <1>4 DEF p
<1> QED  BY <1>5, <1>6

Delivered(w, a, b) ==
  /\ Len(w) = 2 * Size + 1
  /\ \A n \in 1..Size : n <= a => w[Size + 1 - n] = [of |-> "r", place |-> n]
  /\ \A n \in 1..Size : n <= b => w[2 * Size + 1 - n] = [of |-> "s", place |-> n]

\* The two moves, the first to the end of r and the second to the end of s
LEMMA RSVShape ==
  ASSUME NEW a \in Lengths, NEW b \in Lengths, NEW c \in Byte,
         NEW t, tlv = t, Long(t, TlvSize), InPlace(t, a, b)
  PROVE  Delivered(RSV \o <<c>>, a, b)
<1> DEFINE from == 4 + a - Size
           next == 6 + a + b - Size
           r == Move(from)
           s == Move(next)
           rs == r \o s
           e == <<c>>
           w == rs \o e
<1>1. /\ Size \in Nat /\ Size >= 5 /\ TlvSize \in Nat /\ 2 * Size + 8 <= TlvSize
      /\ a \in Nat /\ Size - 4 <= a /\ a <= Size + 1
      /\ b \in Nat /\ Size - 4 <= b /\ b <= Size + 1
  BY Sizes
<1>2. /\ from \in Nat /\ from + Size <= TlvSize
      /\ next \in Nat /\ next + Size <= TlvSize
  BY <1>1
<1>3. RSV = rs
  <2>1. t[4].place = a /\ t[6 + a].place = b
    BY DEF InPlace, Header
  <2>2. /\ 3 + a + 2 + 1 = 6 + a
        /\ 4 + Size + 2 + (a - Size) + (b - Size) = next
    BY <1>1
  <2> QED  BY <2>1, <2>2 DEF RSV
<1>4. t \in Seq(Byte) /\ Len(t) = TlvSize
  BY DEF Long
<1> HIDE DEF from, next
<1>5. Long(r, Size) /\ \A n \in 1..Size : r[n] = t[from + n]
  BY <1>1, <1>2, <1>4, MoveShape DEF Long
<1>6. Long(s, Size) /\ \A n \in 1..Size : s[n] = t[next + n]
  BY <1>1, <1>2, <1>4, MoveShape DEF Long
<1> HIDE DEF r, s
<1>7. Joined(rs, r, Size, s, Size)
  BY <1>5, <1>6, ConcatPlaces DEF rs
<1>8. Long(e, 1)
  BY DEF Long
<1> HIDE DEF rs, e
<1>9. Joined(w, rs, Size + Size, e, 1)
  <2>1. Long(rs, Size + Size)
    BY <1>7 DEF Joined
  <2> QED  BY <1>8, <2>1, ConcatPlaces DEF w
<1> HIDE DEF w
<1>10. Len(w) = 2 * Size + 1
  BY <1>1, <1>9 DEF Joined, Long
<1>11. ASSUME NEW n \in 1..Size, n <= a
       PROVE  w[Size + 1 - n] = [of |-> "r", place |-> n]
  <2>1. /\ Size + 1 - n \in 1..Size /\ Size + 1 - n \in 1..(Size + Size)
        /\ from + (Size + 1 - n) = 5 + a - n /\ n \in 1..a /\ n <= Size
    BY <1>1, <1>11 DEF from
  <2>2. w[Size + 1 - n] = r[Size + 1 - n]
    BY <1>7, <1>9, <2>1 DEF Joined
  <2>3. r[Size + 1 - n] = t[5 + a - n]
    BY <1>5, <2>1
  <2> QED  BY <2>1, <2>2, <2>3 DEF InPlace
<1>12. ASSUME NEW n \in 1..Size, n <= b
       PROVE  w[2 * Size + 1 - n] = [of |-> "s", place |-> n]
  <2>1. /\ Size + 1 - n \in 1..Size /\ Size + (Size + 1 - n) = 2 * Size + 1 - n
        /\ 2 * Size + 1 - n \in 1..(Size + Size)
        /\ next + (Size + 1 - n) = 7 + a + b - n /\ n \in 1..b /\ n <= Size
    BY <1>1, <1>12 DEF next
  <2>2. w[2 * Size + 1 - n] = s[Size + 1 - n]
    BY <1>7, <1>9, <2>1 DEF Joined
  <2>3. s[Size + 1 - n] = t[7 + a + b - n]
    BY <1>6, <2>1
  <2> QED  BY <2>1, <2>2, <2>3 DEF InPlace
<1>13. RSV \o <<c>> = w
  BY <1>3 DEF w, e
<1> QED  BY <1>10, <1>11, <1>12, <1>13 DEF Delivered

LEMMA ConvertKeeps == SignatureInv /\ Convert => SignatureInv'
<1> SUFFICES ASSUME SignatureInv, Convert PROVE SignatureInv'
  OBVIOUS
<1>1. /\ tlv # <<>> /\ tlv' = tlv
      /\ dst' = RSV \o <<Header(RecoveryId)>>
  BY DEF Convert
<1>2. PICK a \in Lengths, b \in Lengths : InPlace(tlv, a, b)
  BY <1>1 DEF SignatureInv, DerInv, InPlace
<1>3. Long(tlv, TlvSize)
  BY <1>1, SignatureAssumption DEF SignatureInv, DerInv, Long
<1>4. Header(RecoveryId) \in Byte
  <2>1. RecoveryId \in Nat
    BY DEF RecoveryId
  <2> QED  BY <2>1, HeaderByte
<1>5. Delivered(dst', a, b)
  BY <1>1, <1>2, <1>3, <1>4, RSVShape
<1>6. tlv'[4].place = a /\ tlv'[a + 6].place = b
  <2>1. a + 6 = 6 + a
    BY Sizes
  <2> QED  BY <1>1, <1>2, <2>1 DEF InPlace, Header
<1>7. PartsAreInPlace'
  <2>1. \A n \in 1..Size : n <= a => Part("r")'[n] = [of |-> "r", place |-> n]
    BY <1>5 DEF Part, Delivered
  <2>2. \A n \in 1..Size : n <= b => Part("s")'[n] = [of |-> "s", place |-> n]
    BY <1>5 DEF Part, Delivered
  <2>3. LengthOf("r")' = a /\ LengthOf("s")' = b
    <3>1. tlv'[tlv'[4].place + 6].place = b
      BY <1>6
    <3> QED  BY <1>6, <3>1 DEF LengthOf
  <2>4. Len(dst') = 2 * Size + 1
    BY <1>5 DEF Delivered
  <2> QED  BY <2>1, <2>2, <2>3, <2>4 DEF PartsAreInPlace
<1>8. DerInv'
  BY <1>1 DEF SignatureInv, DerInv
<1> QED  BY <1>7, <1>8 DEF SignatureInv

\* The offsets of convert_signature_to_RSV (harmony.c:60) are right for what
\* deriveAndSign leaves in tlv_sig.
THEOREM SignatureInvariance == SignatureSpec => []SignatureInv
<1>1. SignatureInv /\ [SignatureNext]_signatureVars => SignatureInv'
  <2> SUFFICES ASSUME SignatureInv, [SignatureNext]_signatureVars PROVE SignatureInv'
    OBVIOUS
  <2>1. CASE Sign
    BY <2>1, SignKeeps
  <2>2. CASE Convert
    BY <2>2, ConvertKeeps
  <2>3. CASE UNCHANGED signatureVars
    BY <2>3 DEF SignatureInv, DerInv, PartsAreInPlace, Part, LengthOf, signatureVars
  <2> QED  BY <2>1, <2>2, <2>3 DEF SignatureNext
<1> QED  BY <1>1, InvInit, PTL DEF SignatureSpec

\* Whatever the lengths of r and s in DER and the size of the parts, the host
\* gets every byte of them at its place from the right.
THEOREM PartsInPlace == SignatureSpec => []PartsAreInPlace
<1>1. SignatureInv => PartsAreInPlace
  BY DEF SignatureInv
<1> QED  BY <1>1, SignatureInvariance, PTL
=============================================================================
