----------------------------- MODULE Arithmetic -----------------------------
(***************************************************************************)
(* Lemmas about natural numbers: induction, functions defined by recursion,*)
(* division with remainder, and cutting h lines into n bands of equal      *)
(* height, rounded up.                                                     *)
(***************************************************************************)
EXTENDS Integers, WellFoundedInduction, TLAPS

-----------------------------------------------------------------------------
(* Induction over the natural numbers, stated for sets.                     *)

LEMMA LeastNatural ==
  ASSUME NEW T, T \subseteq Nat, T # {}
  PROVE  \E m \in T : \A k \in T : m <= k
<1>1. IsWellFoundedOn(OpToRel(<,Nat), Nat)
  BY NatLessThanWellFounded
<1>2. PICK m \in T : \A k \in T : ~ (<<k, m>> \in OpToRel(<,Nat))
  BY <1>1, WFMin
<1>3. \A k \in T : k < m => <<k, m>> \in OpToRel(<,Nat)
  BY DEF OpToRel
<1>4. \A k \in T : m <= k
  <2>1. SUFFICES ASSUME NEW k \in T PROVE m <= k
    OBVIOUS
  <2>2. k \in Nat /\ m \in Nat /\ ~(k < m)
    BY <1>2, <1>3
  <2> QED BY <2>2
<1> QED BY <1>4

\* A set with 0 and with the successor of each of its numbers has them all.
LEMMA SetInduction ==
  ASSUME NEW S, 0 \in S, \A n \in Nat : n \in S => n + 1 \in S
  PROVE  Nat \subseteq S
<1>1. SUFFICES ASSUME NEW k \in Nat, k \notin S PROVE FALSE
  OBVIOUS
<1>2. PICK m \in Nat \ S : \A j \in Nat \ S : m <= j
  BY <1>1, LeastNatural
<1>3. m # 0 /\ m - 1 \in Nat
  BY <1>2
<1>4. m - 1 \in S
  BY <1>2, <1>3
<1> QED BY <1>2, <1>3, <1>4

-----------------------------------------------------------------------------
(* Functions defined by recursion.                                          *)

\* What recursion makes of base and step in the first n places.
Begins(f, n, base, step) ==
  f[0] = base /\ \A k \in 0 .. n - 1 : f[k + 1] = step[<<f[k], k>>]

\* Recursion defines a function on any beginning of the natural numbers.
LEMMA FiniteRecursion ==
  ASSUME NEW V, NEW base \in V, NEW step \in [V \X Nat -> V], NEW n \in Nat
  PROVE  \E f \in [0 .. n -> V] : Begins(f, n, base, step)
<1> DEFINE S == {m \in Nat : \E f \in [0 .. m -> V] : Begins(f, m, base, step)}
<1>1. 0 \in S
  <2> DEFINE f == [k \in 0 .. 0 |-> base]
  <2>1. f \in [0 .. 0 -> V] /\ Begins(f, 0, base, step)
    BY DEF Begins
  <2> QED BY <2>1
<1>2. ASSUME NEW m \in Nat, m \in S PROVE m + 1 \in S
  <2>1. PICK f \in [0 .. m -> V] : Begins(f, m, base, step)
    BY <1>2
  <2> DEFINE next == step[<<f[m], m>>]
             g == [k \in 0 .. m + 1 |-> IF k = m + 1 THEN next ELSE f[k]]
  <2>2. next \in V
    BY <2>1
  <2>3. g \in [0 .. m + 1 -> V]
    <3>1. \A k \in 0 .. m + 1 : k # m + 1 => k \in 0 .. m
      OBVIOUS
    <3> HIDE DEF next
    <3> QED BY <2>1, <2>2, <3>1
  <2>4. \A k \in 0 .. m : g[k] = f[k] /\ g[k + 1] = step[<<g[k], k>>]
    <3>1. SUFFICES ASSUME NEW k \in 0 .. m PROVE g[k] = f[k] /\ g[k + 1] = step[<<g[k], k>>]
      OBVIOUS
    <3>2. k \in 0 .. m + 1 /\ k + 1 \in 0 .. m + 1 /\ k # m + 1 /\ (k + 1 = m + 1 <=> k = m)
      OBVIOUS
    <3>3. g[k] = f[k] /\ g[k + 1] = IF k = m THEN next ELSE f[k + 1]
      BY <3>2
    <3>4. CASE k = m
      BY <3>3, <3>4
    <3>5. CASE k # m
      <4>1. k \in 0 .. m - 1
        BY <3>5
      <4> QED BY <2>1, <3>3, <3>5, <4>1 DEF Begins
    <3> QED BY <3>4, <3>5
  <2>5. Begins(g, m + 1, base, step)
    <3>1. g[0] = base
      BY <2>1, <2>4 DEF Begins
    <3>2. 0 .. (m + 1) - 1 = 0 .. m
      OBVIOUS
    <3> HIDE DEF g
    <3> QED BY <2>4, <3>1, <3>2 DEF Begins
  <2> HIDE DEF g
  <2> QED BY <2>3, <2>5
<1>3. Nat \subseteq S
  <2> HIDE DEF S
  <2> QED BY <1>1, <1>2, SetInduction
<1> QED BY <1>3

\* Two functions defined alike agree.
LEMMA RecursionUnique ==
  ASSUME NEW base, NEW step, NEW m \in Nat, NEW n \in Nat, NEW f, NEW g,
         Begins(f, m, base, step), Begins(g, n, base, step),
         NEW k \in Nat, k <= m, k <= n
  PROVE  f[k] = g[k]
<1> DEFINE S == {j \in Nat : j <= m /\ j <= n => f[j] = g[j]}
<1>1. 0 \in S
  BY DEF Begins
<1>2. ASSUME NEW j \in Nat, j \in S PROVE j + 1 \in S
  <2>1. SUFFICES ASSUME j + 1 <= m, j + 1 <= n PROVE f[j + 1] = g[j + 1]
    OBVIOUS
  <2>2. j \in 0 .. m - 1 /\ j \in 0 .. n - 1
    BY <2>1
  <2>3. f[j] = g[j]
    BY <1>2, <2>1
  <2> QED BY <2>2, <2>3 DEF Begins
<1>3. Nat \subseteq S
  <2> HIDE DEF S
  <2> QED BY <1>1, <1>2, SetInduction
<1> QED BY <1>3

\* What recursion makes of base and step.
Recurs(f, base, step) == f[0] = base /\ \A k \in Nat : f[k + 1] = step[<<f[k], k>>]

\* Recursion defines a function on the natural numbers.
LEMMA Recursion ==
  ASSUME NEW V, NEW base \in V, NEW step \in [V \X Nat -> V]
  PROVE  \E f \in [Nat -> V] : Recurs(f, base, step)
<1> DEFINE Start(n) == CHOOSE f \in [0 .. n -> V] : Begins(f, n, base, step)
           f == [n \in Nat |-> Start(n)[n]]
<1>1. \A n \in Nat : Start(n) \in [0 .. n -> V] /\ Begins(Start(n), n, base, step)
  BY FiniteRecursion
<1> HIDE DEF Start
<1>2. f \in [Nat -> V]
  BY <1>1
<1>3. f[0] = base
  BY <1>1 DEF Begins
<1>4. ASSUME NEW k \in Nat PROVE f[k + 1] = step[<<f[k], k>>]
  <2>1. k + 1 \in Nat /\ k \in 0 .. (k + 1) - 1 /\ k <= k + 1 /\ k <= k
    OBVIOUS
  <2>2. Start(k + 1)[k + 1] = step[<<Start(k + 1)[k], k>>]
    BY <1>1, <2>1 DEF Begins
  <2>3. Start(k + 1)[k] = Start(k)[k]
    BY <1>1, <2>1, RecursionUnique
  <2> QED BY <2>1, <2>2, <2>3
<1> HIDE DEF f
<1>5. Recurs(f, base, step)
  BY <1>3, <1>4 DEF Recurs
<1> QED BY <1>2, <1>5

-----------------------------------------------------------------------------
(* Division.                                                                *)

Positive == Nat \ {0}

\* Multiplying by a natural number keeps the order.
LEMMA TimesMonotone ==
  ASSUME NEW a \in Nat, NEW c \in Nat, NEW b \in Nat, a <= c
  PROVE  a * b <= c * b
<1>1. PICK d \in Nat : c = a + d
  <2>1. c - a \in Nat /\ c = a + (c - a)
    OBVIOUS
  <2> QED BY <2>1
<1>2. (a + d) * b = a * b + d * b
  OBVIOUS
<1>3. d * b \in Nat /\ a * b \in Nat
  OBVIOUS
<1> QED BY <1>1, <1>2, <1>3

\* Division with remainder.
LEMMA DivMod ==
  ASSUME NEW x \in Nat, NEW n \in Positive
  PROVE  /\ x \div n \in Nat /\ x % n \in Nat /\ x % n < n
         /\ x = n * (x \div n) + (x % n)
BY DEF Positive

\* Quotient and remainder are the only ones.
LEMMA DivUnique ==
  ASSUME NEW n \in Positive, NEW q \in Nat, NEW r \in Nat, r < n
  PROVE  (n * q + r) \div n = q /\ (n * q + r) % n = r
<1> DEFINE x == n * q + r
           p == x \div n
           s == x % n
<1>1. n \in Nat /\ x \in Nat
  BY DEF Positive
<1>2. p \in Nat /\ s \in Nat /\ s < n /\ x = n * p + s
  BY <1>1, DivMod
<1>3. n * q \in Nat /\ n * p \in Nat /\ x = n * q + r
  BY <1>1, <1>2
<1> HIDE DEF x, p, s
<1>4. ASSUME NEW k \in Nat, NEW l \in Nat, k < l PROVE n * k + n <= n * l
  <2>1. (k + 1) * n <= l * n
    BY <1>1, <1>4, TimesMonotone
  <2>2. (k + 1) * n = n * k + n /\ l * n = n * l
    BY <1>1
  <2> QED BY <2>1, <2>2
<1>5. ~(q < p)
  BY <1>1, <1>2, <1>3, <1>4
<1>6. ~(p < q)
  BY <1>1, <1>2, <1>3, <1>4
<1>7. p = q
  BY <1>2, <1>5, <1>6
<1> QED BY <1>1, <1>2, <1>3, <1>7 DEF x, p, s

\* A multiple of the divisor adds to the quotient.
LEMMA DivAdds ==
  ASSUME NEW n \in Positive, NEW x \in Nat, NEW m \in Nat
  PROVE  (x + n * m) \div n = x \div n + m /\ (x + n * m) % n = x % n
<1> DEFINE q == x \div n
           r == x % n
<1>1. n \in Nat /\ q \in Nat /\ r \in Nat /\ r < n /\ x = n * q + r
  BY DivMod DEF Positive
<1> HIDE DEF q, r
<1>2. n * q \in Nat /\ n * m \in Nat /\ n * (q + m) = n * q + n * m
  BY <1>1
<1>3. x + n * m = n * (q + m) + r
  BY <1>1, <1>2
<1>4. q + m \in Nat
  BY <1>1
<1>5. (n * (q + m) + r) \div n = q + m /\ (n * (q + m) + r) % n = r
  BY <1>1, <1>4, DivUnique
<1> QED BY <1>3, <1>5 DEF q, r

\* Dividing twice is dividing by the product.
LEMMA DivDiv ==
  ASSUME NEW x \in Nat, NEW m \in Positive, NEW n \in Positive
  PROVE  x \div (m * n) = (x \div m) \div n
<1> DEFINE q == x \div m
           r == x % m
           p == q \div n
           s == q % n
<1>1. /\ m \in Nat /\ n \in Nat /\ m # 0 /\ n # 0
      /\ q \in Nat /\ r \in Nat /\ r < m /\ x = m * q + r
  BY DivMod DEF Positive
<1>2. p \in Nat /\ s \in Nat /\ s < n /\ q = n * p + s
  BY <1>1, DivMod
<1> HIDE DEF q, r, p, s
<1>3. m * n \in Nat /\ m * n # 0 /\ m * s \in Nat /\ m * (n * p) = (m * n) * p
  BY <1>1, <1>2
<1>4. m * q = (m * n) * p + m * s
  <2>1. m * (n * p + s) = m * (n * p) + m * s
    BY <1>1, <1>2
  <2> QED BY <1>2, <1>3, <2>1
<1>5. m * s + m <= m * n
  <2>1. (s + 1) * m <= n * m
    BY <1>1, <1>2, TimesMonotone
  <2>2. (s + 1) * m = m * s + m /\ n * m = m * n
    BY <1>1, <1>2
  <2> QED BY <2>1, <2>2
<1>6. m * s + r \in Nat /\ m * s + r < m * n
  BY <1>1, <1>3, <1>5
<1>7. x = (m * n) * p + (m * s + r)
  <2>1. (m * n) * p \in Nat
    BY <1>2, <1>3
  <2> QED BY <1>1, <1>3, <1>4, <2>1
<1>8. m * n \in Positive
  BY <1>3 DEF Positive
<1>9. x \div (m * n) = p
  BY <1>2, <1>6, <1>7, <1>8, DivUnique
<1> QED BY <1>9 DEF p, q

\* The height of a band: the quotient, plus one when there is a remainder.
RoundedUp(h, n) == h \div n + (IF h % n > 0 THEN 1 ELSE 0)

\* A band has at least one line, and n bands reach the last of the h lines.
LEMMA BandsCover ==
  ASSUME NEW h \in Positive, NEW n \in Positive
  PROVE  RoundedUp(h, n) \in Positive /\ h <= n * RoundedUp(h, n)
<1> DEFINE q == h \div n
           r == h % n
<1>1. h \in Nat /\ n \in Nat /\ h # 0 /\ n # 0
  BY DEF Positive
<1>2. q \in Nat /\ r \in Nat /\ r < n /\ h = n * q + r
  BY <1>1, DivMod
<1> HIDE DEF q, r
<1>3. RoundedUp(h, n) = q + (IF r > 0 THEN 1 ELSE 0)
  BY DEF RoundedUp, q, r
<1>4. CASE r > 0
  <2>1. RoundedUp(h, n) = q + 1
    BY <1>3, <1>4
  <2>2. n * (q + 1) = n * q + n
    BY <1>1, <1>2
  <2> QED BY <1>1, <1>2, <2>1, <2>2 DEF Positive
<1>5. CASE r = 0
  <2>1. RoundedUp(h, n) = q
    BY <1>2, <1>3, <1>5
  <2>2. q # 0
    BY <1>1, <1>2, <1>5
  <2> QED BY <1>1, <1>2, <1>5, <2>1, <2>2 DEF Positive
<1> QED BY <1>2, <1>4, <1>5

\* Each of the h lines lies in exactly one of the n bands.
LEMMA InOneBand ==
  ASSUME NEW h \in Positive, NEW n \in Positive, NEW y \in 0 .. h - 1
  PROVE  /\ y \div RoundedUp(h, n) \in 0 .. n - 1
         /\ \A j \in 0 .. n - 1 :
              y \in j * RoundedUp(h, n) .. (j + 1) * RoundedUp(h, n) - 1 <=> j = y \div RoundedUp(h, n)
<1> DEFINE b == RoundedUp(h, n)
           k == y \div b
<1>1. b \in Positive /\ h <= n * b
  BY BandsCover
<1>2. y \in Nat /\ y < h /\ b \in Nat /\ n \in Nat
  BY <1>1 DEF Positive
<1>3. k \in Nat /\ y = b * k + (y % b) /\ y % b \in Nat /\ y % b < b
  BY <1>1, <1>2, DivMod
<1> HIDE DEF b, k
<1>4. k * b <= y /\ y < (k + 1) * b
  <2>1. b * k = k * b /\ (k + 1) * b = k * b + b /\ k * b \in Nat
    BY <1>2, <1>3
  <2> QED BY <1>2, <1>3, <2>1
<1>5. k < n
  <2>1. SUFFICES ASSUME n <= k PROVE FALSE
    BY <1>2, <1>3
  <2>2. n * b <= k * b
    BY <2>1, <1>2, <1>3, TimesMonotone
  <2>3. n * b \in Nat /\ k * b \in Nat /\ h \in Nat
    BY <1>2, <1>3 DEF Positive
  <2> QED BY <1>1, <1>2, <1>4, <2>2, <2>3
<1>6. ASSUME NEW j \in 0 .. n - 1
      PROVE  y \in j * b .. (j + 1) * b - 1 <=> j = k
  <2>1. j \in Nat /\ j * b \in Nat /\ (j + 1) * b \in Nat
    BY <1>2
  <2>2. y \in j * b .. (j + 1) * b - 1 <=> j * b <= y /\ y < (j + 1) * b
    BY <1>2, <2>1
  <2>3. ASSUME j < k PROVE ~(y < (j + 1) * b)
    <3>1. (j + 1) * b <= k * b
      BY <2>1, <2>3, <1>2, <1>3, TimesMonotone
    <3>2. k * b \in Nat
      BY <1>2, <1>3
    <3> QED BY <1>2, <1>4, <2>1, <3>1, <3>2
  <2>4. ASSUME k < j PROVE ~(j * b <= y)
    <3>1. (k + 1) * b <= j * b
      BY <2>1, <2>4, <1>2, <1>3, TimesMonotone
    <3>2. (k + 1) * b \in Nat
      BY <1>2, <1>3
    <3> QED BY <1>2, <1>4, <2>1, <3>1, <3>2
  <2> QED BY <1>3, <1>4, <2>1, <2>2, <2>3, <2>4
<1> QED BY <1>2, <1>3, <1>5, <1>6 DEF b, k
=============================================================================
