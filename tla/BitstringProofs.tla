-------------------------- MODULE BitstringProofs --------------------------
(***************************************************************************)
(* Theorems about Bitstring: its strings are well-formed, rotation is a    *)
(* permutation, every call does to the bits what BitSequence says, and the *)
(* print shows them.                                                       *)
(***************************************************************************)
EXTENDS Bitstring, Arithmetic, SequenceTheorems, TLAPS

\* The remainder of C is less than the length on both sides of zero.
LEMMA RemainderRange ==
  ASSUME NEW len \in Nat \ {0}, NEW n \in Int
  PROVE  /\ Remainder(n, len) \in Int
         /\ -len < Remainder(n, len) /\ Remainder(n, len) < len
<1>1. \A m \in Nat : m % len \in 0 .. len - 1
  OBVIOUS
<1>2. CASE n >= 0
  BY <1>1, <1>2 DEF Remainder
<1>3. CASE n < 0
  <2>1. -n \in Nat
    BY <1>3
  <2>2. (-n) % len \in 0 .. len - 1
    BY <1>1, <2>1
  <2> QED BY <1>3, <2>2 DEF Remainder
<1> QED BY <1>2, <1>3

\* RotateTo maps the indices of a string into the string.
LEMMA RotateStaysInside ==
  ASSUME NEW len \in Nat \ {0}, NEW r \in Int, -len < r, r < len,
         NEW i \in 0 .. len - 1
  PROVE  RotateTo(i, r, len) \in 0 .. len - 1
BY DEF RotateTo

\* It gives no two indices the same place.
LEMMA RotateInjective ==
  ASSUME NEW len \in Nat \ {0}, NEW r \in Int, -len < r, r < len,
         NEW i \in 0 .. len - 1, NEW j \in 0 .. len - 1,
         RotateTo(i, r, len) = RotateTo(j, r, len)
  PROVE  i = j
BY DEF RotateTo

\* Rotating back brings every bit to where it was: a rotation by r and one by
\* -r undo each other.
THEOREM RotateBack ==
  ASSUME NEW len \in Nat \ {0}, NEW r \in Int, -len < r, r < len,
         NEW i \in 0 .. len - 1
  PROVE  RotateTo(RotateTo(i, r, len), -r, len) = i
BY DEF RotateTo

LEMMA RotatesIfTyped == TypeOK => RotatePermutes
<1>1. MaxShift \in Nat /\ MaxBits \in Nat
  BY BitstringAssumption
<1> SUFFICES ASSUME TypeOK, NEW h \in Live, NEW n \in Shift
    PROVE  LET len == b[h].len
               To(i) == RotateTo(i, Remainder(n, len), len)
           IN /\ \A i \in 0 .. len - 1 : To(i) \in 0 .. len - 1
              /\ \A i, j \in 0 .. len - 1 : To(i) = To(j) => i = j
  BY DEF RotatePermutes
<1> DEFINE len == b[h].len
           r   == Remainder(n, len)
<1>2. n \in Int
  BY <1>1 DEF Shift
<1>3. len \in Nat \ {0}
  <2>1. b[h] \in Strings
    BY DEF TypeOK, Live
  <2>2. b[h].len \in 1 .. MaxBits
    BY <2>1 DEF Strings, String
  <2> QED BY <1>1, <2>2
<1>4. r \in Int /\ -len < r /\ r < len
  BY <1>2, <1>3, RemainderRange
<1> HIDE DEF len, r
<1>5. \A i \in 0 .. len - 1 : RotateTo(i, r, len) \in 0 .. len - 1
  BY <1>3, <1>4, RotateStaysInside
<1>6. \A i, j \in 0 .. len - 1 : RotateTo(i, r, len) = RotateTo(j, r, len) => i = j
  BY <1>3, <1>4, RotateInjective
<1> QED BY <1>5, <1>6 DEF len, r

-----------------------------------------------------------------------------
(* The powers of two.                                                       *)

LEMMA Powers ==
  /\ \A k \in Nat : Pow2[k] \in Positive
  /\ Pow2[0] = 1
  /\ \A k \in Nat : Pow2[k + 1] = 2 * Pow2[k]
<1> DEFINE double == [vk \in Positive \X Nat |-> 2 * vk[1]]
           IsPow2(g) == g = [k \in Nat |-> IF k = 0 THEN 1 ELSE 2 * g[k - 1]]
<1>1. double \in [Positive \X Nat -> Positive] /\ 1 \in Positive
  BY DEF Positive
<1>2. PICK f \in [Nat -> Positive] : Recurs(f, 1, double)
  <2> HIDE DEF double
  <2> QED BY <1>1, Recursion
<1>3. f[0] = 1 /\ \A k \in Nat : f[k + 1] = 2 * f[k]
  BY <1>2 DEF Recurs
<1>4. IsPow2(f)
  <2>1. \A k \in Nat : f[k] = IF k = 0 THEN 1 ELSE 2 * f[k - 1]
    <3>1. SUFFICES ASSUME NEW k \in Nat, k # 0 PROVE f[k] = 2 * f[k - 1]
      BY <1>3
    <3>2. k - 1 \in Nat /\ (k - 1) + 1 = k
      BY <3>1
    <3> QED BY <1>3, <3>2
  <2> QED BY <1>2, <2>1
<1>5. IsPow2(Pow2)
  BY <1>4 DEF Pow2
<1>6. \A k \in Nat : Pow2[k] = IF k = 0 THEN 1 ELSE 2 * Pow2[k - 1]
  BY <1>5
<1>7. Pow2[0] = 1 /\ \A k \in Nat : Pow2[k + 1] = 2 * Pow2[k]
  <2>1. \A k \in Nat : k + 1 \in Nat /\ k + 1 # 0 /\ (k + 1) - 1 = k
    OBVIOUS
  <2> QED BY <1>6, <2>1
<1>8. \A k \in Nat : Pow2[k] \in Positive
  <2> DEFINE S == {k \in Nat : Pow2[k] \in Positive}
  <2>1. 0 \in S
    BY <1>7 DEF Positive
  <2>2. \A k \in Nat : k \in S => k + 1 \in S
    BY <1>7 DEF Positive
  <2> HIDE DEF S
  <2>3. Nat \subseteq S
    BY <2>1, <2>2, SetInduction
  <2> QED BY <2>3 DEF S
<1> QED BY <1>7, <1>8

LEMMA PowSum ==
  ASSUME NEW j \in Nat, NEW k \in Nat PROVE Pow2[j + k] = Pow2[j] * Pow2[k]
<1> DEFINE S == {i \in Nat : Pow2[j + i] = Pow2[j] * Pow2[i]}
<1>1. Pow2[j] \in Nat
  BY Powers DEF Positive
<1>2. 0 \in S
  BY <1>1, Powers
<1>3. ASSUME NEW i \in Nat, i \in S PROVE i + 1 \in S
  <2>1. Pow2[i] \in Nat /\ Pow2[i + 1] = 2 * Pow2[i] /\ i + 1 \in Nat
    BY Powers DEF Positive
  <2>2. j + (i + 1) = (j + i) + 1 /\ j + i \in Nat
    OBVIOUS
  <2>3. Pow2[j + (i + 1)] = 2 * Pow2[j + i]
    BY <2>2, Powers
  <2>4. Pow2[j] * (2 * Pow2[i]) = 2 * (Pow2[j] * Pow2[i])
    BY <1>1, <2>1
  <2> QED BY <1>3, <2>1, <2>3, <2>4
<1>4. Nat \subseteq S
  <2> HIDE DEF S
  <2> QED BY <1>2, <1>3, SetInduction
<1> QED BY <1>4

\* A smaller power divides a greater one, evenly unless they are the same.
LEMMA PowSplit ==
  ASSUME NEW j \in Nat, NEW k \in Nat, j < k
  PROVE  \E m \in Positive : Pow2[k] = Pow2[j] * (2 * m) /\ m = Pow2[k - j - 1]
<1>1. k - j - 1 \in Nat /\ j + ((k - j - 1) + 1) = k /\ (k - j - 1) + 1 \in Nat
  OBVIOUS
<1>2. Pow2[k] = Pow2[j] * Pow2[(k - j - 1) + 1]
  BY <1>1, PowSum
<1> QED BY <1>1, <1>2, Powers

-----------------------------------------------------------------------------
(* The bits of a char.                                                      *)

BitOf(c, k) == (c \div Pow2[k]) % 2

\* What is left of c when its bits up to k are taken away, and what is taken.
LEMMA CharSplit ==
  ASSUME NEW c \in Nat, NEW k \in Nat
  PROVE  \E q \in Nat, r \in 0 .. Pow2[k] - 1 :
           /\ c = Pow2[k] * (2 * q + BitOf(c, k)) + r
           /\ BitOf(c, k) \in Bit
<1> DEFINE P == Pow2[k]
<1>1. P \in Positive /\ P \in Nat
  BY Powers DEF Positive
<1> HIDE DEF P
<1> DEFINE d == c \div P
<1>2. d \in Nat /\ c % P \in 0 .. P - 1 /\ c = P * d + (c % P)
  BY <1>1, DivMod
<1> HIDE DEF d
<1>3. d \div 2 \in Nat /\ d % 2 \in {0, 1} /\ d = 2 * (d \div 2) + (d % 2)
  BY <1>2
<1>4. BitOf(c, k) = d % 2
  BY DEF BitOf, P, d
<1> QED BY <1>2, <1>3, <1>4 DEF P, Bit

\* Where bit k is not set, adding 1 << k sets it and changes no other.
LEMMA BitAdded ==
  ASSUME NEW c \in Nat, NEW k \in Nat, NEW j \in Nat, BitOf(c, k) = 0
  PROVE  BitOf(c + Pow2[k], j) = IF j = k THEN 1 ELSE BitOf(c, j)
<1> DEFINE P == Pow2[k]
<1>1. P \in Positive /\ P \in Nat /\ Pow2[j] \in Positive
  BY Powers DEF Positive
<1>2. PICK q \in Nat, r \in 0 .. P - 1 : c = P * (2 * q) + r
  <2>1. PICK q \in Nat, r \in 0 .. P - 1 : c = P * (2 * q + BitOf(c, k)) + r
    BY CharSplit
  <2>2. 2 * q + BitOf(c, k) = 2 * q
    BY <2>1
  <2> QED BY <2>1, <2>2
<1> HIDE DEF P
<1>3. CASE j = k
  <2>1. c + P = P * (2 * q + 1) + r
    <3>1. P * (2 * q + 1) = P * (2 * q) + P /\ P * (2 * q) \in Nat
      BY <1>1
    <3> QED BY <1>1, <1>2, <3>1
  <2>2. (c + P) \div P = 2 * q + 1
    <3> DEFINE o == 2 * q + 1
    <3>1. o \in Nat /\ c + P = P * o + r /\ r \in Nat /\ r < P
      BY <1>1, <2>1
    <3> HIDE DEF o
    <3>2. (c + P) \div P = o
      BY <1>1, <3>1, DivUnique
    <3> QED BY <3>2 DEF o
  <2>3. (2 * q + 1) % 2 = 1
    OBVIOUS
  <2> QED BY <1>3, <2>2, <2>3 DEF BitOf, P
<1>4. CASE j < k
  <2>1. PICK m \in Positive : P = Pow2[j] * (2 * m)
    BY <1>4, PowSplit DEF P
  <2>2. (c + P) \div Pow2[j] = c \div Pow2[j] + 2 * m
    <3>1. 2 * m \in Nat
      BY <2>1 DEF Positive
    <3> QED BY ZenonT(30), <1>1, <2>1, <3>1, DivAdds
  <2>3. c \div Pow2[j] \in Nat /\ m \in Nat
    BY <1>1, <2>1, DivMod DEF Positive
  <2>4. \A x \in Nat : (x + 2 * m) % 2 = x % 2
    BY <2>3
  <2> QED BY <1>4, <2>2, <2>3, <2>4 DEF BitOf, P
<1>5. CASE k < j
  <2> DEFINE D == 2 * P
  <2>1. D \in Positive /\ D \in Nat /\ Pow2[k + 1] = D
    BY <1>1, Powers DEF Positive, P
  <2>2. c = D * q + r /\ c + P = D * q + (r + P)
    <3>1. P * (2 * q) = D * q /\ D * q \in Nat
      BY <1>1
    <3> HIDE DEF D
    <3> QED BY <1>1, <1>2, <3>1
  <2>3. r \in Nat /\ r + P \in Nat /\ r < D /\ r + P < D
    BY <1>1
  <2> HIDE DEF D
  <2>4. c \div D = q /\ (c + P) \div D = q
    BY <2>1, <2>2, <2>3, DivUnique
  <2>5. PICK i \in Nat : j = (k + 1) + i
    <3>1. j - (k + 1) \in Nat /\ j = (k + 1) + (j - (k + 1))
      BY <1>5
    <3> QED BY <3>1
  <2>6. Pow2[j] = D * Pow2[i] /\ Pow2[i] \in Positive
    <3>1. k + 1 \in Nat
      OBVIOUS
    <3>2. Pow2[(k + 1) + i] = Pow2[k + 1] * Pow2[i]
      BY <2>5, <3>1, PowSum
    <3> QED BY <2>1, <2>5, <3>2, Powers
  <2>7. c + P \in Nat
    BY <1>1
  <2>8. c \div (D * Pow2[i]) = q \div Pow2[i] /\ (c + P) \div (D * Pow2[i]) = q \div Pow2[i]
    <3> DEFINE E == Pow2[i]
    <3>1. E \in Positive
      BY <2>6
    <3> HIDE DEF E
    <3>2. \A x \in Nat : x \div (D * E) = (x \div D) \div E
      <4>1. SUFFICES ASSUME NEW x \in Nat PROVE x \div (D * E) = (x \div D) \div E
        OBVIOUS
      <4>2. D \in Positive
        BY <2>1
      <4> QED BY ZenonT(30), <3>1, <4>2, DivDiv
    <3> QED BY <2>4, <2>7, <3>2 DEF E
  <2> QED BY <1>5, <2>6, <2>8 DEF BitOf, P
<1> QED BY <1>3, <1>4, <1>5

\* Where it is set, subtracting 1 << k clears it and changes no other.
LEMMA BitSubtracted ==
  ASSUME NEW c \in Nat, NEW k \in Nat, NEW j \in Nat, BitOf(c, k) # 0
  PROVE  /\ c - Pow2[k] \in Nat
         /\ BitOf(c - Pow2[k], j) = IF j = k THEN 0 ELSE BitOf(c, j)
<1> DEFINE P == Pow2[k]
           e == c - P
<1>1. P \in Positive /\ P \in Nat
  BY Powers DEF Positive
<1>2. PICK q \in Nat, r \in 0 .. P - 1 : c = P * (2 * q + 1) + r
  <2>1. PICK q \in Nat, r \in 0 .. P - 1 :
          c = P * (2 * q + BitOf(c, k)) + r /\ BitOf(c, k) \in Bit
    BY CharSplit
  <2>2. 2 * q + BitOf(c, k) = 2 * q + 1
    BY <2>1 DEF Bit
  <2> QED BY <2>1, <2>2
<1> HIDE DEF P
<1>3. e = P * (2 * q) + r /\ e \in Nat /\ e + P = c
  <2>1. P * (2 * q + 1) = P * (2 * q) + P /\ P * (2 * q) \in Nat
    BY <1>1
  <2> QED BY <1>1, <1>2, <2>1
<1>4. BitOf(e, k) = 0
  <2>1. e \div P = 2 * q
    <3> DEFINE o == 2 * q
    <3>1. o \in Nat /\ r \in Nat /\ r < P /\ e = P * o + r
      BY <1>1, <1>2, <1>3
    <3> HIDE DEF o, e
    <3>2. (P * o + r) \div P = o
      BY ZenonT(30), <1>1, <3>1, DivUnique
    <3> QED BY <3>1, <3>2 DEF o
  <2>2. (2 * q) % 2 = 0
    OBVIOUS
  <2> QED BY <2>1, <2>2 DEF BitOf, P
<1> HIDE DEF e
<1>5. BitOf(c, j) = IF j = k THEN 1 ELSE BitOf(e, j)
  BY <1>3, <1>4, BitAdded DEF P
<1> QED BY <1>3, <1>4, <1>5 DEF e, P

\* Setting a bit of a char does not make it greater than a char.
LEMMA AddedFits ==
  ASSUME NEW w \in Nat, NEW c \in 0 .. Pow2[w] - 1, NEW k \in 0 .. w - 1, BitOf(c, k) = 0
  PROVE  c + Pow2[k] \in 0 .. Pow2[w] - 1
<1> DEFINE P == Pow2[k]
           D == 2 * P
<1>1. P \in Positive /\ P \in Nat /\ Pow2[w] \in Nat /\ c \in Nat /\ D \in Nat
  BY Powers DEF Positive
<1>2. PICK q \in Nat, r \in 0 .. P - 1 : c = D * q + r
  <2>1. PICK q \in Nat, r \in 0 .. P - 1 : c = P * (2 * q + BitOf(c, k)) + r
    BY <1>1, CharSplit
  <2>2. 2 * q + BitOf(c, k) = 2 * q
    BY <2>1
  <2>3. P * (2 * q) = D * q
    BY <1>1
  <2> QED BY <2>1, <2>2, <2>3
<1>3. PICK m \in Nat : Pow2[w] = D * m
  <2>1. PICK m \in Positive : Pow2[w] = P * (2 * m)
    BY PowSplit
  <2>2. m \in Nat
    BY <2>1 DEF Positive
  <2>3. P * (2 * m) = D * m
    BY <1>1, <2>2
  <2> QED BY <2>1, <2>2, <2>3
<1>4. P + r < D
  BY <1>1
<1> HIDE DEF P, D
<1>5. D * q \in Nat /\ D * m \in Nat
  BY <1>1
<1>6. q < m
  <2>1. SUFFICES ASSUME m <= q PROVE FALSE
    OBVIOUS
  <2>2. m * D <= q * D
    BY <1>1, <2>1, TimesMonotone
  <2>3. m * D = D * m /\ q * D = D * q
    BY <1>1
  <2> QED BY <1>1, <1>2, <1>3, <1>5, <2>2, <2>3
<1>7. D * q + D <= D * m
  <2>1. (q + 1) * D <= m * D
    BY <1>1, <1>6, TimesMonotone
  <2>2. (q + 1) * D = D * q + D /\ m * D = D * m
    BY <1>1
  <2> QED BY <2>1, <2>2
<1>8. c + P < Pow2[w]
  BY <1>1, <1>2, <1>3, <1>4, <1>5, <1>7
<1> QED BY <1>1, <1>8 DEF P

-----------------------------------------------------------------------------
(* Strings of chars.                                                        *)

Lens == {n \in Positive : n % CHAR_BIT = 0}

LEMMA CharBits == CHAR_BIT \in Positive /\ CHAR_BIT \in Nat
BY BitstringAssumption DEF Positive

\* The bit with index n lies in one of the chars of the string.
LEMMA Places ==
  ASSUME NEW len \in Lens, NEW m \in 0 .. len - 1
  PROVE  /\ 1 + m \div CHAR_BIT \in 1 .. len \div CHAR_BIT
         /\ m % CHAR_BIT \in 0 .. CHAR_BIT - 1
         /\ m = CHAR_BIT * (m \div CHAR_BIT) + (m % CHAR_BIT)
<1> DEFINE C == CHAR_BIT
<1>1. C \in Positive /\ C \in Nat /\ len \in Nat /\ m \in Nat /\ m < len /\ len % C = 0
  BY CharBits DEF Lens, Positive
<1> HIDE DEF C
<1> DEFINE q == m \div C
           L == len \div C
<1>2. q \in Nat /\ m % C \in Nat /\ m % C < C /\ m = C * q + (m % C)
  BY <1>1, DivMod
<1>3. L \in Nat /\ len = C * L
  <2>1. L \in Nat /\ len = C * L + (len % C)
    BY <1>1, DivMod
  <2>2. C * L \in Nat
    BY <1>1, <2>1
  <2> QED BY <1>1, <2>1, <2>2
<1> HIDE DEF q, L
<1>4. q < L
  <2>1. SUFFICES ASSUME L <= q PROVE FALSE
    BY <1>2, <1>3
  <2>2. L * C <= q * C
    BY <1>1, <1>2, <1>3, <2>1, TimesMonotone
  <2>3. L * C = C * L /\ q * C = C * q /\ C * q \in Nat
    BY <1>1, <1>2, <1>3
  <2> QED BY <1>1, <1>2, <1>3, <2>2, <2>3
<1> QED BY <1>1, <1>2, <1>3, <1>4 DEF C, q, L

LEMMA StringFields ==
  ASSUME NEW len, NEW str \in String(len)
  PROVE  /\ str.len = len
         /\ str.bytes \in [1 .. len \div CHAR_BIT -> 0 .. Pow2[CHAR_BIT] - 1]
         /\ str = [len |-> len, bytes |-> str.bytes]
BY DEF String

LEMMA GetIsBitOf ==
  ASSUME NEW len, NEW str \in String(len), NEW n
  PROVE  Get(str, n) = BitOf(str.bytes[1 + (len - 1 - n) \div CHAR_BIT], (len - 1 - n) % CHAR_BIT)
BY StringFields DEF Get, BitOf

\* bitstring_get gives a bit.
LEMMA GetTyped ==
  ASSUME NEW len \in Lens, NEW str \in String(len), NEW n \in 0 .. len - 1
  PROVE  Get(str, n) \in Bit
<1> DEFINE m == len - 1 - n
           c == str.bytes[1 + m \div CHAR_BIT]
<1>1. m \in 0 .. len - 1
  BY DEF Lens, Positive
<1>2. c \in Nat /\ m % CHAR_BIT \in Nat
  <2> HIDE DEF m
  <2>1. c \in 0 .. Pow2[CHAR_BIT] - 1 /\ m % CHAR_BIT \in 0 .. CHAR_BIT - 1
    BY ZenonT(30), <1>1, Places, StringFields
  <2>2. Pow2[CHAR_BIT] \in Nat
    BY CharBits, Powers DEF Positive
  <2> QED BY <2>1, <2>2, CharBits
<1> HIDE DEF m, c
<1>3. BitOf(c, m % CHAR_BIT) \in Bit
  BY <1>2, CharSplit
<1> QED BY <1>3, GetIsBitOf DEF c, m

\* bitstring_set: the string keeps its length and its chars their range, the
\* bit with the index is the given one, and no other changes.
LEMMA SetSets ==
  ASSUME NEW len \in Lens, NEW str \in String(len), NEW n \in 0 .. len - 1, NEW bit \in Bit
  PROVE  /\ Set(str, n, bit) \in String(len)
         /\ \A j \in 0 .. len - 1 :
              Get(Set(str, n, bit), j) = IF j = n THEN bit ELSE Get(str, j)
<1>1. CASE ~MustFlip(str, n, bit)
  BY <1>1 DEF Set, MustFlip
<1>2. CASE MustFlip(str, n, bit)
  <2> DEFINE m == len - 1 - n
             q == 1 + m \div CHAR_BIT
             k == m % CHAR_BIT
             c == str.bytes[q]
             v == IF bit = 1 THEN c + Pow2[k] ELSE c - Pow2[k]
             new == Set(str, n, bit)
  <2>1. m \in 0 .. len - 1 /\ m \in Nat /\ len \in Nat
    BY DEF Lens, Positive
  <2>2. q \in 1 .. len \div CHAR_BIT /\ k \in 0 .. CHAR_BIT - 1
    BY <2>1, Places
  <2>3. new = [str EXCEPT !.bytes = [str.bytes EXCEPT ![q] = v]]
    BY <1>2, StringFields DEF Set
  <2>4. new.len = len /\ new.bytes = [str.bytes EXCEPT ![q] = v]
        /\ new = [len |-> len, bytes |-> [str.bytes EXCEPT ![q] = v]]
    <3> HIDE DEF q, v, new
    <3> QED BY <2>3, StringFields
  <2>5. Get(str, n) # bit /\ Get(str, n) = BitOf(c, k)
    BY <1>2, GetIsBitOf DEF MustFlip
  <2> HIDE DEF q, k, c, v, new
  <2>6. c \in 0 .. Pow2[CHAR_BIT] - 1 /\ c \in Nat /\ k \in Nat /\ Pow2[CHAR_BIT] \in Nat
    <3>1. Pow2[CHAR_BIT] \in Nat
      BY CharBits, Powers DEF Positive
    <3>2. c \in 0 .. Pow2[CHAR_BIT] - 1
      BY ZenonT(30), <2>2, StringFields DEF c
    <3> QED BY <2>2, <3>1, <3>2, CharBits
  <2>7. BitOf(c, k) \in Bit
    BY <2>6, CharSplit
  <2>8. /\ v \in 0 .. Pow2[CHAR_BIT] - 1
        /\ \A i \in Nat : BitOf(v, i) = IF i = k THEN bit ELSE BitOf(c, i)
    <3>1. CASE bit = 1
      <4>1. BitOf(c, k) = 0 /\ v = c + Pow2[k]
        BY <2>5, <2>7, <3>1 DEF v, Bit
      <4> QED BY <2>2, <2>6, <3>1, <4>1, AddedFits, BitAdded, CharBits
    <3>2. CASE bit = 0
      <4>1. BitOf(c, k) # 0 /\ v = c - Pow2[k]
        BY <2>5, <3>2 DEF v
      <4>2. v \in Nat /\ \A i \in Nat : BitOf(v, i) = IF i = k THEN 0 ELSE BitOf(c, i)
        BY <2>6, <4>1, BitSubtracted
      <4>3. Pow2[k] \in Nat
        BY <2>6, Powers DEF Positive
      <4>4. v <= c
        BY <2>6, <4>1, <4>3
      <4> QED BY <2>6, <3>2, <4>2, <4>4
    <3> QED BY <3>1, <3>2 DEF Bit
  <2>9. new \in String(len)
    <3>1. new.bytes \in [1 .. len \div CHAR_BIT -> 0 .. Pow2[CHAR_BIT] - 1]
      BY <2>2, <2>4, <2>8, StringFields
    <3> QED BY <2>4, <3>1 DEF String
  <2>10. ASSUME NEW j \in 0 .. len - 1
         PROVE  Get(new, j) = IF j = n THEN bit ELSE Get(str, j)
    <3> DEFINE l == len - 1 - j
               p == 1 + l \div CHAR_BIT
               i == l % CHAR_BIT
    <3>1. l \in 0 .. len - 1 /\ (l = m <=> j = n)
      BY <2>1
    <3>2. /\ Get(new, j) = BitOf(new.bytes[p], i)
          /\ Get(str, j) = BitOf(str.bytes[p], i)
      BY <2>9, GetIsBitOf
    <3> HIDE DEF l
    <3>3. p \in 1 .. len \div CHAR_BIT /\ i \in Nat
      BY <3>1, Places, CharBits
    <3>4. p = q /\ i = k <=> l = m
      <4>1. /\ l = CHAR_BIT * (l \div CHAR_BIT) + i
            /\ m = CHAR_BIT * (m \div CHAR_BIT) + k
        BY <2>1, <3>1, Places DEF k
      <4>2. l \div CHAR_BIT \in Nat /\ m \div CHAR_BIT \in Nat
        BY <2>1, <3>1, DivMod, CharBits
      <4>3. p = q <=> l \div CHAR_BIT = m \div CHAR_BIT
        BY <4>2 DEF q
      <4> HIDE DEF p, m
      <4> QED BY <4>1, <4>3 DEF q, k
    <3> HIDE DEF p, i
    <3>5. new.bytes[p] = IF p = q THEN v ELSE str.bytes[p]
      <4>1. p \in DOMAIN str.bytes
        <5>1. DOMAIN str.bytes = 1 .. len \div CHAR_BIT
          BY StringFields
        <5> QED BY <3>3, <5>1
      <4>2. new.bytes = [str.bytes EXCEPT ![q] = v]
        BY <2>4
      <4> QED BY <4>1, <4>2
    <3>6. CASE p = q
      <4>1. Get(new, j) = BitOf(v, i) /\ Get(str, j) = BitOf(c, i)
        BY <3>2, <3>5, <3>6 DEF c
      <4>2. i = k <=> j = n
        BY <3>1, <3>4, <3>6
      <4> QED BY <2>8, <3>3, <4>1, <4>2
    <3>7. CASE p # q
      BY <3>1, <3>2, <3>4, <3>5, <3>7
    <3> QED BY <3>6, <3>7
  <2> QED BY <2>9, <2>10 DEF new
<1> QED BY <1>1, <1>2

-----------------------------------------------------------------------------
(* The loop of the operations.                                              *)

LEMMA ZerosTyped == ASSUME NEW len \in Lens PROVE Zeros(len) \in String(len)
<1>1. Pow2[CHAR_BIT] \in Positive
  BY CharBits, Powers
<1>2. 0 \in 0 .. Pow2[CHAR_BIT] - 1
  BY <1>1 DEF Positive
<1> QED BY <1>2 DEF Zeros, String

\* alloc gives zeros.
LEMMA ZerosGet ==
  ASSUME NEW len \in Lens, NEW n \in 0 .. len - 1 PROVE Get(Zeros(len), n) = 0
<1> DEFINE m == len - 1 - n
<1>1. m \in 0 .. len - 1
  BY DEF Lens, Positive
<1> HIDE DEF m
<1>2. 1 + m \div CHAR_BIT \in 1 .. len \div CHAR_BIT /\ m % CHAR_BIT \in Nat
  BY <1>1, Places, CharBits
<1>3. Zeros(len).bytes[1 + m \div CHAR_BIT] = 0
  BY <1>2 DEF Zeros
<1>4. Pow2[m % CHAR_BIT] \in Positive
  BY <1>2, Powers
<1>5. \A P \in Positive : (0 \div P) % 2 = 0
  <2>1. SUFFICES ASSUME NEW P \in Positive PROVE 0 \div P = 0
    OBVIOUS
  <2> QED BY <2>1 DEF Positive
<1>6. Get(Zeros(len), n) = (0 \div Pow2[m % CHAR_BIT]) % 2
  BY <1>3, ZerosTyped, GetIsBitOf DEF BitOf, m
<1> QED BY <1>4, <1>5, <1>6

\* The strings the loop goes through.
FillsIn(g, len, to, at) ==
  g = [k \in 0 .. len |-> IF k = 0 THEN Zeros(len) ELSE Set(g[k - 1], to[k - 1], at[k - 1])]

LEMMA FillIsLast ==
  ASSUME NEW len, NEW to, NEW at
  PROVE  Fill(len, to, at) = (CHOOSE g : FillsIn(g, len, to, at))[len]
BY DEF Fill, FillsIn

LEMMA LoopRuns ==
  ASSUME NEW len \in Lens, NEW to \in [0 .. len - 1 -> 0 .. len - 1],
         NEW at \in [0 .. len - 1 -> Bit]
  PROVE  \E g \in [0 .. len -> String(len)] :
           /\ Fill(len, to, at) = g[len]
           /\ \A k \in 0 .. len - 1 : g[k + 1] = Set(g[k], to[k], at[k])
<1> DEFINE V == String(len)
           step == [vk \in V \X Nat |-> IF vk[2] < len THEN Set(vk[1], to[vk[2]], at[vk[2]])
                                        ELSE vk[1]]
<1>1. len \in Nat /\ Zeros(len) \in V
  BY ZerosTyped DEF Lens, Positive
<1>2. \A v \in V, k \in 0 .. len - 1 : Set(v, to[k], at[k]) \in V
  BY SetSets
<1> HIDE DEF V
<1>3. step \in [V \X Nat -> V]
  <2>1. ASSUME NEW vk \in V \X Nat
        PROVE  (IF vk[2] < len THEN Set(vk[1], to[vk[2]], at[vk[2]]) ELSE vk[1]) \in V
    <3>1. vk[1] \in V /\ vk[2] \in Nat
      OBVIOUS
    <3>2. vk[2] < len => vk[2] \in 0 .. len - 1
      BY <1>1, <3>1
    <3> QED BY <1>2, <3>1, <3>2
  <2> QED BY <2>1
<1>4. PICK f \in [Nat -> V] : Recurs(f, Zeros(len), step)
  <2> HIDE DEF step
  <2> QED BY <1>1, <1>3, Recursion
<1>5. f[0] = Zeros(len) /\ \A k \in 0 .. len - 1 : f[k + 1] = Set(f[k], to[k], at[k])
  <2>1. f[0] = Zeros(len) /\ \A k \in Nat : f[k + 1] = step[<<f[k], k>>]
    BY <1>4 DEF Recurs
  <2>2. ASSUME NEW k \in 0 .. len - 1 PROVE f[k + 1] = Set(f[k], to[k], at[k])
    <3>1. k \in Nat /\ k < len /\ f[k] \in V
      BY <1>1, <1>4
    <3>2. step[<<f[k], k>>] = Set(f[k], to[k], at[k])
      BY <3>1
    <3> QED BY <2>1, <3>1, <3>2
  <2> QED BY <2>1, <2>2
<1> HIDE DEF step
<1> DEFINE h == [k \in 0 .. len |-> f[k]]
<1>6. FillsIn(h, len, to, at)
  <2>1. ASSUME NEW k \in 0 .. len, k # 0
        PROVE  f[k] = Set(f[k - 1], to[k - 1], at[k - 1]) /\ h[k - 1] = f[k - 1]
    <3>1. k - 1 \in 0 .. len - 1 /\ k - 1 \in 0 .. len /\ (k - 1) + 1 = k
      BY <1>1, <2>1
    <3> QED BY <1>5, <3>1
  <2>2. \A k \in 0 .. len :
          f[k] = IF k = 0 THEN Zeros(len) ELSE Set(h[k - 1], to[k - 1], at[k - 1])
    BY <1>5, <2>1
  <2> QED BY <2>2 DEF FillsIn
<1> DEFINE g == CHOOSE s : FillsIn(s, len, to, at)
<1>7. FillsIn(g, len, to, at)
  <2> HIDE DEF h
  <2> QED BY <1>6
<1> HIDE DEF g, h
<1>8. DOMAIN g = 0 .. len /\ g[0] = Zeros(len) /\ g = [k \in 0 .. len |-> g[k]]
  BY <1>1, <1>7 DEF FillsIn
<1>9. \A k \in 0 .. len - 1 : g[k + 1] = Set(g[k], to[k], at[k])
  <2>1. SUFFICES ASSUME NEW k \in 0 .. len - 1 PROVE g[k + 1] = Set(g[k], to[k], at[k])
    OBVIOUS
  <2>2. k + 1 \in 0 .. len /\ k + 1 # 0 /\ (k + 1) - 1 = k
    BY <1>1
  <2>3. g[k + 1] = IF k + 1 = 0 THEN Zeros(len)
                   ELSE Set(g[(k + 1) - 1], to[(k + 1) - 1], at[(k + 1) - 1])
    BY <1>7, <2>2 DEF FillsIn
  <2> QED BY <2>2, <2>3
<1>10. \A k \in 0 .. len : g[k] \in V
  <2> DEFINE S == {k \in Nat : k <= len => g[k] \in V}
  <2>1. 0 \in S
    BY <1>1, <1>8
  <2>2. ASSUME NEW k \in Nat, k \in S PROVE k + 1 \in S
    <3>1. SUFFICES ASSUME k + 1 <= len PROVE g[k + 1] \in V
      OBVIOUS
    <3>2. k \in 0 .. len - 1 /\ k <= len
      BY <1>1, <3>1
    <3> QED BY <1>2, <1>9, <2>2, <3>2
  <2> HIDE DEF S
  <2>3. Nat \subseteq S
    BY <2>1, <2>2, SetInduction
  <2> QED BY <1>1, <2>3 DEF S
<1>11. g \in [0 .. len -> V]
  BY <1>8, <1>10
<1>12. Fill(len, to, at) = g[len]
  BY FillIsLast DEF g
<1> QED BY <1>9, <1>11, <1>12 DEF V

\* Where the loop sets each index once, it leaves at[i] at the index to[i].
LEMMA FillFills ==
  ASSUME NEW len \in Lens, NEW to \in [0 .. len - 1 -> 0 .. len - 1],
         NEW at \in [0 .. len - 1 -> Bit],
         \A i, j \in 0 .. len - 1 : to[i] = to[j] => i = j
  PROVE  /\ Fill(len, to, at) \in String(len)
         /\ \A i \in 0 .. len - 1 : Get(Fill(len, to, at), to[i]) = at[i]
<1>1. PICK g \in [0 .. len -> String(len)] :
        /\ Fill(len, to, at) = g[len]
        /\ \A k \in 0 .. len - 1 : g[k + 1] = Set(g[k], to[k], at[k])
  BY LoopRuns
<1>2. len \in Nat
  BY DEF Lens, Positive
<1> DEFINE S == {k \in Nat : k <= len => \A i \in 0 .. k - 1 : Get(g[k], to[i]) = at[i]}
<1>3. 0 \in S
  OBVIOUS
<1>4. ASSUME NEW k \in Nat, k \in S PROVE k + 1 \in S
  <2>1. SUFFICES ASSUME k + 1 <= len, NEW i \in 0 .. (k + 1) - 1
                 PROVE  Get(g[k + 1], to[i]) = at[i]
    OBVIOUS
  <2>2. k \in 0 .. len - 1 /\ i \in 0 .. len - 1 /\ k \in 0 .. len /\ k <= len
    BY <1>2, <2>1
  <2>3. /\ g[k] \in String(len) /\ to[k] \in 0 .. len - 1 /\ at[k] \in Bit
        /\ to[i] \in 0 .. len - 1
    BY <1>1, <2>2
  <2>4. Get(g[k + 1], to[i]) = IF to[i] = to[k] THEN at[k] ELSE Get(g[k], to[i])
    <3>1. \A str \in String(len), n \in 0 .. len - 1, bit \in Bit :
            \A j \in 0 .. len - 1 :
              Get(Set(str, n, bit), j) = IF j = n THEN bit ELSE Get(str, j)
      BY SetSets
    <3>2. g[k + 1] = Set(g[k], to[k], at[k])
      BY <1>1, <2>2
    <3>3. \A j \in 0 .. len - 1 :
            Get(Set(g[k], to[k], at[k]), j) = IF j = to[k] THEN at[k] ELSE Get(g[k], j)
      BY <2>3, <3>1
    <3> QED BY <2>3, <3>2, <3>3
  <2>5. CASE i = k
    BY <2>4, <2>5
  <2>6. CASE i # k
    <3>1. i \in 0 .. k - 1
      BY <2>1, <2>6
    <3>2. to[i] # to[k]
      BY <2>2, <2>6
    <3> QED BY <1>4, <2>2, <2>4, <3>1, <3>2
  <2> QED BY <2>5, <2>6
<1>5. Nat \subseteq S
  <2> HIDE DEF S
  <2> QED BY <1>3, <1>4, SetInduction
<1>6. \A i \in 0 .. len - 1 : Get(g[len], to[i]) = at[i]
  BY <1>2, <1>5
<1> QED BY <1>1, <1>2, <1>6

-----------------------------------------------------------------------------
(* What the operations make.                                                *)

LEMMA StringsSplit ==
  ASSUME NEW str
  PROVE  str \in Strings <=> /\ str.len \in Lens /\ str.len <= MaxBits
                             /\ str \in String(str.len)
<1>1. MaxBits \in Nat
  BY BitstringAssumption
<1>2. ASSUME str \in Strings
      PROVE  str.len \in Lens /\ str.len <= MaxBits /\ str \in String(str.len)
  <2>1. PICK len \in 1 .. MaxBits : len % CHAR_BIT = 0 /\ str \in String(len)
    BY <1>2 DEF Strings
  <2>2. str.len = len
    BY <2>1, StringFields
  <2> QED BY <1>1, <2>1, <2>2 DEF Lens, Positive
<1>3. ASSUME str.len \in Lens, str.len <= MaxBits, str \in String(str.len)
      PROVE  str \in Strings
  <2>1. str.len \in {n \in 1 .. MaxBits : n % CHAR_BIT = 0}
    BY <1>1, <1>3 DEF Lens, Positive
  <2> QED BY <1>3, <2>1 DEF Strings
<1> QED BY <1>2, <1>3

LEMMA StringOfLen ==
  ASSUME NEW len \in Lens, len <= MaxBits, NEW str \in String(len)
  PROVE  str \in Strings /\ str.len = len /\ str # NULL
BY StringFields, StringsSplit, BitstringAssumption

LEMMA LiveString ==
  ASSUME TypeOK, NEW h \in Live
  PROVE  /\ h \in Handle /\ b[h] \in Strings /\ b[h].len \in Lens /\ b[h].len <= MaxBits
         /\ b[h] \in String(b[h].len)
BY StringsSplit DEF TypeOK, Live

\* alloc_from_int packs the binary form of x, its last bit at the last index.
IntString(x) == Fill(INT_BIT, [i \in 0 .. INT_BIT - 1 |-> IntIndex(i)],
                              [i \in 0 .. INT_BIT - 1 |-> (x \div Pow2[i]) % 2])

LEMMA IntBits ==
  ASSUME NEW x \in 0 .. Pow2[INT_BIT] - 1
  PROVE  /\ INT_BIT \in Lens /\ INT_BIT <= MaxBits /\ IntString(x) \in String(INT_BIT)
         /\ \A j \in 0 .. INT_BIT - 1 :
              Get(IntString(x), j) = (x \div Pow2[INT_BIT - 1 - j]) % 2
<1> DEFINE to == [i \in 0 .. INT_BIT - 1 |-> IntIndex(i)]
           at == [i \in 0 .. INT_BIT - 1 |-> (x \div Pow2[i]) % 2]
<1>1. INT_BIT \in Lens /\ INT_BIT \in Nat /\ INT_BIT <= MaxBits
  BY BitstringAssumption DEF Lens, Positive
<1>2. x \in Nat
  BY <1>1, Powers DEF Positive
<1>3. to \in [0 .. INT_BIT - 1 -> 0 .. INT_BIT - 1]
  BY <1>1 DEF IntIndex
<1>4. \A i, j \in 0 .. INT_BIT - 1 : to[i] = to[j] => i = j
  BY <1>1 DEF IntIndex
<1>5. at \in [0 .. INT_BIT - 1 -> Bit]
  <2>1. ASSUME NEW i \in 0 .. INT_BIT - 1 PROVE (x \div Pow2[i]) % 2 \in Bit
    <3>1. BitOf(x, i) \in Bit
      BY <1>1, <1>2, CharSplit
    <3> QED BY <3>1 DEF BitOf
  <2> QED BY <2>1
<1>6. ASSUME NEW j \in 0 .. INT_BIT - 1
      PROVE  /\ INT_BIT - 1 - j \in 0 .. INT_BIT - 1 /\ to[INT_BIT - 1 - j] = j
             /\ at[INT_BIT - 1 - j] = (x \div Pow2[INT_BIT - 1 - j]) % 2
  BY <1>1 DEF IntIndex
<1>7. IntString(x) = Fill(INT_BIT, to, at)
  BY DEF IntString
<1> HIDE DEF to, at
<1>8. /\ Fill(INT_BIT, to, at) \in String(INT_BIT)
      /\ \A i \in 0 .. INT_BIT - 1 : Get(Fill(INT_BIT, to, at), to[i]) = at[i]
  BY ZenonT(30), <1>1, <1>3, <1>4, <1>5, FillFills
<1> QED BY <1>1, <1>6, <1>7, <1>8

\* The remainder of C differs from n by a multiple of the length.
LEMMA RemainderCongruent ==
  ASSUME NEW len \in Positive, NEW n \in Int
  PROVE  \E q \in Int : n = len * q + Remainder(n, len)
<1>1. CASE n >= 0
  <2>1. n \in Nat
    BY <1>1
  <2>2. n = len * (n \div len) + (n % len) /\ n \div len \in Nat
    BY <2>1, DivMod
  <2> QED BY <1>1, <2>2 DEF Remainder
<1>2. CASE n < 0
  <2> DEFINE m == -n
             q == m \div len
             r == m % len
  <2>1. m \in Nat /\ len \in Nat
    BY <1>2 DEF Positive
  <2>2. m = len * q + r /\ q \in Nat /\ r \in Nat
    BY <2>1, DivMod
  <2>3. Remainder(n, len) = -r
    BY <1>2 DEF Remainder
  <2> HIDE DEF q, r
  <2>4. len * q \in Nat /\ len * (-q) = -(len * q)
    BY <2>1, <2>2
  <2>5. n = len * (-q) + (-r)
    BY <2>2, <2>4
  <2> QED BY <2>2, <2>3, <2>5
<1> QED BY <1>1, <1>2

\* The remainder of any integer is the only one.
LEMMA IntMod ==
  ASSUME NEW len \in Positive, NEW q \in Int, NEW r \in 0 .. len - 1
  PROVE  (len * q + r) % len = r
<1>1. CASE q \in Nat
  BY <1>1, DivUnique DEF Positive
<1>2. CASE q < 0
  <2> DEFINE x == len * q + r
             s == x % len
             p == x \div len
  <2>1. len \in Nat /\ len # 0 /\ len * q \in Int
    BY DEF Positive
  <2>2. p \in Int /\ s \in 0 .. len - 1 /\ x = len * p + s
    BY <2>1
  <2> HIDE DEF p, s
  <2>3. PICK d \in Int : p = q + d
    <3>1. p - q \in Int /\ p = q + (p - q)
      BY <2>2
    <3> QED BY <3>1
  <2>4. len * p = len * q + len * d /\ len * d \in Int
    BY <2>1, <2>3
  <2>5. r = len * d + s
    BY <2>1, <2>2, <2>4
  <2>6. d = 0
    <3>1. CASE d \in Nat /\ d # 0
      <4>1. 1 * len <= d * len
        BY <2>1, <3>1, TimesMonotone
      <4>2. d * len = len * d
        BY <2>1, <2>3
      <4> QED BY <2>1, <2>2, <2>4, <2>5, <4>1, <4>2
    <3>2. CASE d < 0
      <4>1. -d \in Nat /\ 1 <= -d
        BY <2>3, <3>2
      <4>2. 1 * len <= (-d) * len
        BY <2>1, <4>1, TimesMonotone
      <4>3. (-d) * len = -(len * d)
        BY <2>1, <2>3
      <4> QED BY <2>1, <2>2, <2>4, <2>5, <4>2, <4>3
    <3> QED BY <2>3, <3>1, <3>2
  <2>7. s = r
    BY <2>1, <2>2, <2>5, <2>6
  <2> QED BY <2>7 DEF s
<1> QED BY <1>1, <1>2

\* The bit that a rotation by n brings to the index j had the index j - n,
\* around the end.
LEMMA RotateFrom ==
  ASSUME NEW len \in Positive, NEW n \in Int, NEW j \in 0 .. len - 1
  PROVE  /\ (j - n) % len \in 0 .. len - 1
         /\ RotateTo((j - n) % len, Remainder(n, len), len) = j
<1> DEFINE r == Remainder(n, len)
           x == j - r
           i == IF x < 0 THEN x + len ELSE IF x > len - 1 THEN x - len ELSE x
<1>1. r \in Int /\ -len < r /\ r < len /\ len \in Nat
  BY RemainderRange DEF Positive
<1>2. PICK q \in Int : n = len * q + r
  BY RemainderCongruent
<1> HIDE DEF r
<1>3. i \in 0 .. len - 1 /\ RotateTo(i, r, len) = j
  BY <1>1 DEF RotateTo
<1>4. \E p \in Int : j - n = len * p + i
  <2>1. len * q \in Int /\ j - n = x - len * q
    BY <1>1, <1>2
  <2>2. /\ len * (-q) = -(len * q) /\ len * (-q - 1) = -(len * q) - len
        /\ len * (1 - q) = len - len * q
    BY <1>1, <1>2
  <2>3. CASE x < 0
    <3>1. i = x + len
      BY <2>3
    <3> HIDE DEF i
    <3>2. j - n = len * (-q - 1) + i
      BY <1>1, <2>1, <2>2, <3>1
    <3> QED BY <1>2, <3>2
  <2>4. CASE x > len - 1
    <3>1. i = x - len
      BY <1>1, <2>4
    <3> HIDE DEF i
    <3>2. j - n = len * (1 - q) + i
      BY <1>1, <2>1, <2>2, <3>1
    <3> QED BY <1>2, <3>2
  <2>5. CASE x >= 0 /\ x <= len - 1
    <3>1. i = x
      BY <1>1, <2>5
    <3> HIDE DEF i
    <3>2. j - n = len * (-q) + i
      BY <1>1, <2>1, <2>2, <3>1
    <3> QED BY <1>2, <3>2
  <2> QED BY <1>1, <2>3, <2>4, <2>5
<1> HIDE DEF i
<1>5. (j - n) % len = i
  BY <1>3, <1>4, IntMod
<1> QED BY <1>3, <1>5 DEF r

RotatedString(str, n) ==
  Fill(str.len, [i \in 0 .. str.len - 1 |-> RotateTo(i, Remainder(n, str.len), str.len)],
                [i \in 0 .. str.len - 1 |-> Get(str, i)])

LEMMA RotatedBits ==
  ASSUME NEW len \in Lens, NEW str \in String(len), NEW n \in Int
  PROVE  /\ RotatedString(str, n) \in String(len)
         /\ \A i \in 0 .. len - 1 : RotateTo(i, Remainder(n, len), len) \in 0 .. len - 1
         /\ \A j \in 0 .. len - 1 :
              /\ (j - n) % len \in 0 .. len - 1
              /\ Get(RotatedString(str, n), j) = Get(str, (j - n) % len)
<1> DEFINE r == Remainder(n, len)
           to == [i \in 0 .. len - 1 |-> RotateTo(i, r, len)]
           at == [i \in 0 .. len - 1 |-> Get(str, i)]
<1>1. len \in Positive /\ len \in Nat \ {0}
  BY DEF Lens, Positive
<1>2. r \in Int /\ -len < r /\ r < len
  BY <1>1, RemainderRange
<1>3. \A j \in 0 .. len - 1 :
        (j - n) % len \in 0 .. len - 1 /\ RotateTo((j - n) % len, r, len) = j
  BY <1>1, RotateFrom
<1>4. RotatedString(str, n) = Fill(len, to, at)
  BY StringFields DEF RotatedString
<1> HIDE DEF r
<1>5. \A i \in 0 .. len - 1 : RotateTo(i, r, len) \in 0 .. len - 1
  BY <1>1, <1>2, RotateStaysInside
<1>6. \A i, j \in 0 .. len - 1 : to[i] = to[j] => i = j
  BY <1>1, <1>2, RotateInjective
<1>7. to \in [0 .. len - 1 -> 0 .. len - 1]
  BY <1>5
<1>8. at \in [0 .. len - 1 -> Bit]
  BY GetTyped
<1>9. \A j \in 0 .. len - 1 : to[(j - n) % len] = j /\ at[(j - n) % len] = Get(str, (j - n) % len)
  BY <1>3
<1> HIDE DEF to, at
<1>10. /\ Fill(len, to, at) \in String(len)
       /\ \A i \in 0 .. len - 1 : Get(Fill(len, to, at), to[i]) = at[i]
  BY ZenonT(30), <1>6, <1>7, <1>8, FillFills
<1>11. ASSUME NEW j \in 0 .. len - 1
       PROVE  Get(RotatedString(str, n), j) = Get(str, (j - n) % len)
  <2> DEFINE i == (j - n) % len
  <2>1. i \in 0 .. len - 1 /\ to[i] = j /\ at[i] = Get(str, i)
    BY <1>3, <1>9
  <2> HIDE DEF i
  <2>2. Get(Fill(len, to, at), j) = Get(str, i)
    BY <1>10, <2>1
  <2> QED BY <1>4, <2>2 DEF i
<1> QED BY <1>3, <1>4, <1>5, <1>10, <1>11 DEF r

\* The loops that set the bits in their order.
LEMMA FillInPlace ==
  ASSUME NEW len \in Lens, NEW at \in [0 .. len - 1 -> Bit]
  PROVE  /\ Fill(len, InPlace(len), at) \in String(len)
         /\ \A j \in 0 .. len - 1 : Get(Fill(len, InPlace(len), at), j) = at[j]
<1> DEFINE to == InPlace(len)
<1>1. to \in [0 .. len - 1 -> 0 .. len - 1]
  BY DEF InPlace
<1>2. \A i, j \in 0 .. len - 1 : to[i] = to[j] => i = j
  BY DEF InPlace
<1>5. \A i \in 0 .. len - 1 : to[i] = i
  BY DEF InPlace
<1> HIDE DEF to
<1>3. /\ Fill(len, to, at) \in String(len)
      /\ \A i \in 0 .. len - 1 : Get(Fill(len, to, at), to[i]) = at[i]
  BY ZenonT(30), <1>1, <1>2, FillFills
<1>4. \A i \in 0 .. len - 1 : Get(Fill(len, to, at), i) = at[i]
  BY <1>3, <1>5
<1> QED BY <1>3, <1>4 DEF to

ConcatString(str, end) ==
  LET len1 == str.len
      len  == len1 + end.len
  IN Fill(len, InPlace(len), [i \in 0 .. len - 1 |-> IF i < len1 THEN Get(str, i)
                                                     ELSE Get(end, i - len1)])

LEMMA ConcatBits ==
  ASSUME NEW str, NEW end, str.len \in Lens, str \in String(str.len),
         end.len \in Lens, end \in String(end.len), NEW l, l = str.len + end.len
  PROVE  /\ l \in Lens /\ ConcatString(str, end) \in String(l)
         /\ \A j \in 0 .. l - 1 :
              Get(ConcatString(str, end), j) = IF j < str.len THEN Get(str, j)
                                               ELSE Get(end, j - str.len)
<1> DEFINE m == str.len
           n == end.len
           C == CHAR_BIT
           at == [i \in 0 .. l - 1 |-> IF i < m THEN Get(str, i) ELSE Get(end, i - m)]
<1>1. m \in Lens /\ n \in Lens /\ str \in String(m) /\ end \in String(n)
  OBVIOUS
<1>2. ConcatString(str, end) = Fill(l, InPlace(l), at)
  BY DEF ConcatString
<1> HIDE DEF m, n
<1>3. m \in Nat /\ n \in Nat /\ m # 0 /\ m % C = 0 /\ n % C = 0 /\ C \in Positive /\ C \in Nat
  BY <1>1, CharBits DEF Lens, Positive
<1> HIDE DEF C
<1>4. (m + n) % C = 0
  <2>1. n = C * (n \div C) + (n % C) /\ n \div C \in Nat
    BY <1>3, DivMod
  <2> DEFINE k == n \div C
  <2> HIDE DEF k
  <2>2. n = C * k /\ k \in Nat
    <3>1. C * k \in Nat
      BY <1>3, <2>1 DEF k
    <3> QED BY <1>3, <2>1, <3>1 DEF k
  <2>3. (m + C * k) % C = m % C
    BY <1>3, <2>2, DivAdds
  <2> QED BY <1>3, <2>2, <2>3
<1>5. l \in Lens /\ l \in Nat /\ l = m + n
  BY <1>3, <1>4 DEF Lens, Positive, C, m, n
<1>6. at \in [0 .. l - 1 -> Bit]
  <2>1. ASSUME NEW i \in 0 .. l - 1
        PROVE  (IF i < m THEN Get(str, i) ELSE Get(end, i - m)) \in Bit
    <3>1. CASE i < m
      <4>1. i \in 0 .. m - 1
        BY <1>3, <3>1
      <4> QED BY <1>1, <3>1, <4>1, GetTyped
    <3>2. CASE ~(i < m)
      <4>1. i - m \in 0 .. n - 1
        BY <1>3, <1>5, <3>2
      <4> QED BY <1>1, <3>2, <4>1, GetTyped
    <3> QED BY <3>1, <3>2
  <2> QED BY <2>1
<1>7. \A j \in 0 .. l - 1 : at[j] = IF j < m THEN Get(str, j) ELSE Get(end, j - m)
  OBVIOUS
<1> HIDE DEF at
<1>8. /\ Fill(l, InPlace(l), at) \in String(l)
      /\ \A j \in 0 .. l - 1 : Get(Fill(l, InPlace(l), at), j) = at[j]
  BY <1>5, <1>6, FillInPlace
<1>9. /\ l \in Lens /\ ConcatString(str, end) \in String(l)
      /\ \A j \in 0 .. l - 1 :
           Get(ConcatString(str, end), j) = IF j < m THEN Get(str, j) ELSE Get(end, j - m)
  BY <1>2, <1>5, <1>7, <1>8
<1> QED BY <1>9 DEF m

XorString(str, other) ==
  Fill(str.len, InPlace(str.len),
       [i \in 0 .. str.len - 1 |-> IF Get(str, i) = Get(other, i) THEN 0 ELSE 1])

LEMMA XorBits ==
  ASSUME NEW len \in Lens, NEW str \in String(len), NEW other
  PROVE  /\ XorString(str, other) \in String(len)
         /\ \A j \in 0 .. len - 1 :
              Get(XorString(str, other), j) = IF Get(str, j) = Get(other, j) THEN 0 ELSE 1
<1> DEFINE at == [i \in 0 .. len - 1 |-> IF Get(str, i) = Get(other, i) THEN 0 ELSE 1]
<1>1. at \in [0 .. len - 1 -> Bit]
  BY DEF Bit
<1>2. XorString(str, other) = Fill(len, InPlace(len), at)
  BY StringFields DEF XorString
<1>3. \A j \in 0 .. len - 1 : at[j] = IF Get(str, j) = Get(other, j) THEN 0 ELSE 1
  OBVIOUS
<1> HIDE DEF at
<1>4. /\ Fill(len, InPlace(len), at) \in String(len)
      /\ \A j \in 0 .. len - 1 : Get(Fill(len, InPlace(len), at), j) = at[j]
  BY <1>1, FillInPlace
<1> QED BY <1>2, <1>3, <1>4

-----------------------------------------------------------------------------
\* Every pointer the caller has is to a string with all its chars in range, or
\* NULL: no operation of bitstring.c, in whatever order they are called, makes a
\* char of a string too large for a char or a string of the wrong number of chars.
THEOREM BitstringTyped == Spec => []TypeOK
<1>1. Init => TypeOK
  BY DEF Init, TypeOK
<1>2. TypeOK /\ [Next]_vars => TypeOK'
  <2> SUFFICES ASSUME TypeOK, [Next]_vars PROVE TypeOK'
    OBVIOUS
  <2>0. MaxBits \in Nat /\ MaxShift \in Nat
    BY BitstringAssumption
  <2>1. ASSUME NEW h \in Handle, NEW n \in 0 .. MaxBits, Alloc(h, n) PROVE TypeOK'
    <3>1. CASE n > 0 /\ n % CHAR_BIT = 0
      <4>1. n \in Lens /\ n <= MaxBits
        BY <2>0, <3>1 DEF Lens, Positive
      <4>2. Zeros(n) \in Strings
        BY <4>1, ZerosTyped, StringOfLen
      <4> QED BY <2>1, <3>1, <4>2 DEF Alloc, TypeOK
    <3>2. CASE ~(n > 0 /\ n % CHAR_BIT = 0)
      BY <2>1, <3>2 DEF Alloc, TypeOK
    <3> QED BY <3>1, <3>2
  <2>2. ASSUME NEW h \in Handle, NEW x \in 0 .. Pow2[INT_BIT] - 1, AllocFromInt(h, x)
        PROVE  TypeOK'
    <3>1. IntString(x) \in Strings
      BY IntBits, StringOfLen
    <3> QED BY <2>2, <3>1 DEF AllocFromInt, IntString, TypeOK
  <2>3. ASSUME NEW h \in Handle, Free(h) PROVE TypeOK'
    BY <2>3 DEF Free, TypeOK
  <2>4. ASSUME NEW h \in Live, NEW n \in 0 .. MaxBits, NEW bit \in Bit, SetBit(h, n, bit)
        PROVE  TypeOK'
    <3>1. CASE n >= b[h].len
      BY <2>4, <3>1 DEF SetBit, TypeOK
    <3>2. CASE ~(n >= b[h].len)
      <4>1. n \in 0 .. b[h].len - 1
        <5>1. b[h].len \in Nat /\ n \in Nat
          BY <2>0, LiveString DEF Lens, Positive
        <5> QED BY <3>2, <5>1
      <4>2. Set(b[h], n, bit) \in Strings
        BY <4>1, LiveString, SetSets, StringOfLen
      <4> QED BY <2>4, <3>2, <4>2, LiveString DEF SetBit, TypeOK
    <3> QED BY <3>1, <3>2
  <2>5. ASSUME NEW h \in Live, NEW n, GetBadIndex(h, n) PROVE TypeOK'
    BY <2>5 DEF GetBadIndex, TypeOK
  <2>6. ASSUME NEW h \in Live, NEW n \in Shift, Rotate(h, n) PROVE TypeOK'
    <3>1. n \in Int
      BY <2>0 DEF Shift
    <3>2. RotatedString(b[h], n) \in Strings
      BY <3>1, LiveString, RotatedBits, StringOfLen
    <3>3. \/ b' = [b EXCEPT ![h] = RotatedString(b[h], n)] /\ UNCHANGED <<status, ret>>
          \/ status' = "bad index" /\ UNCHANGED <<b, ret>>
      BY <2>6 DEF Rotate, RotatedString
    <3> QED BY <3>2, <3>3, LiveString DEF TypeOK
  <2>7. ASSUME NEW h \in Live, NEW g \in Live, Concat(h, g) PROVE TypeOK'
    <3>1. ConcatString(b[h], b[g]) \in Strings
      <4>1. b[h].len + b[g].len <= MaxBits
        BY <2>7 DEF Concat
      <4> QED BY <4>1, LiveString, ConcatBits, StringOfLen
    <3>2. b' = [b EXCEPT ![h] = ConcatString(b[h], b[g])] /\ UNCHANGED status /\ ret' = 0
      BY <2>7 DEF Concat, ConcatString
    <3> QED BY <3>1, <3>2, LiveString DEF TypeOK
  <2>8. ASSUME NEW h \in Live, NEW g \in Live, NEW res \in Handle, Xor(h, g, res)
        PROVE  TypeOK'
    <3>1. XorString(b[h], b[g]) \in Strings
      BY LiveString, XorBits, StringOfLen
    <3>2. \/ b' = [b EXCEPT ![res] = XorString(b[h], b[g])] /\ UNCHANGED status /\ ret' = 0
          \/ UNCHANGED <<b, status>> /\ ret' = -1
      BY <2>8 DEF Xor, XorString
    <3> QED BY <3>1, <3>2 DEF TypeOK
  <2>9. ASSUME NEW h \in Live, NoMemory(h) PROVE TypeOK'
    BY <2>9 DEF NoMemory, TypeOK
  <2>10. CASE ConcatFails
    BY <2>10 DEF ConcatFails, TypeOK
  <2>11. CASE UNCHANGED vars
    BY <2>11 DEF vars, TypeOK
  <2> QED BY <2>1, <2>2, <2>3, <2>4, <2>5, <2>6, <2>7, <2>8, <2>9, <2>10, <2>11
          DEF Next, Use, Stopped
<1> QED BY <1>1, <1>2, PTL DEF Spec

\* bitstring_rotate (bitstring.c:93-99) gives every bit of a string, whatever
\* its length, a place of its own inside the string, for every shift.
THEOREM RotationPermutes == Spec => []RotatePermutes
BY BitstringTyped, RotatesIfTyped, PTL

-----------------------------------------------------------------------------
(* The sequences of bits the strings stand for.                             *)

Seen(str) == [i \in 1 .. str.len |-> Get(str, i - 1)]
Abstract(x) ==
  [h \in Handle |-> IF x[h] = NULL THEN NULL ELSE [i \in 1 .. x[h].len |-> Get(x[h], i - 1)]]

LEMMA SeenSequence ==
  ASSUME NEW str, str.len \in Lens
  PROVE  /\ Len(Seen(str)) = str.len /\ DOMAIN Seen(str) = 1 .. str.len
         /\ Seen(str) = [i \in 1 .. str.len |-> Seen(str)[i]]
         /\ \A i \in 1 .. str.len : Seen(str)[i] = Get(str, i - 1)
<1>1. str.len \in Nat
  BY DEF Lens, Positive
<1> QED BY <1>1 DEF Seen

LEMMA SeenAt == ASSUME NEW h \in Live, h \in Handle PROVE Abstract(b)[h] = Seen(b[h])
BY DEF Live, Seen, Abstract

\* The calls of BitSequence, of the strings the chars stand for.
LEMMA BitsAlloc ==
  ASSUME NEW h, NEW n, NEW new, new = b'
  PROVE  Bits!Alloc(h, n) <=>
           /\ Abstract(new) = [Abstract(b) EXCEPT
                ![h] = IF n > 0 /\ n % CHAR_BIT = 0 THEN [i \in 1 .. n |-> 0] ELSE NULL]
           /\ UNCHANGED (status = "running")
BY DEF Bits!Alloc, Bits!Becomes, Abstract

LEMMA BitsAllocFromInt ==
  ASSUME NEW h, NEW x, NEW new, new = b'
  PROVE  Bits!AllocFromInt(h, x) <=>
           /\ Abstract(new) = [Abstract(b) EXCEPT
                ![h] = [i \in 1 .. INT_BIT |-> (x \div Pow2[INT_BIT - i]) % 2]]
           /\ UNCHANGED (status = "running")
BY DEF Bits!AllocFromInt, Bits!Becomes, Abstract

LEMMA BitsFree ==
  ASSUME NEW h, NEW new, new = b'
  PROVE  Bits!Free(h) <=> /\ Abstract(new) = [Abstract(b) EXCEPT ![h] = NULL]
                          /\ UNCHANGED (status = "running")
BY DEF Bits!Free, Bits!Becomes, Abstract

LEMMA BitsSetBit ==
  ASSUME NEW h, NEW n, NEW bit, NEW new, new = b'
  PROVE  Bits!SetBit(h, n, bit) <=>
           IF n + 1 \in DOMAIN Abstract(b)[h]
           THEN /\ Abstract(new) = [Abstract(b) EXCEPT ![h] = [Abstract(b)[h] EXCEPT ![n + 1] = bit]]
                /\ UNCHANGED (status = "running")
           ELSE Abstract(new) = Abstract(b) /\ status' # "running"
BY DEF Bits!SetBit, Bits!Becomes, Bits!Stop, Abstract

LEMMA BitsRotate ==
  ASSUME NEW h, NEW n, NEW new, new = b'
  PROVE  Bits!Rotate(h, n) <=>
           /\ Abstract(new) = [Abstract(b) EXCEPT
                ![h] = [i \in 1 .. Len(Abstract(b)[h]) |->
                          Abstract(b)[h][1 + ((i - 1 - n) % Len(Abstract(b)[h]))]]]
           /\ UNCHANGED (status = "running")
BY DEF Bits!Rotate, Bits!Becomes, Abstract

LEMMA BitsConcat ==
  ASSUME NEW h, NEW g, NEW new, new = b'
  PROVE  Bits!Concat(h, g) <=>
           /\ Abstract(new) = [Abstract(b) EXCEPT ![h] = Abstract(b)[h] \o Abstract(b)[g]]
           /\ UNCHANGED (status = "running")
BY DEF Bits!Concat, Bits!Becomes, Abstract

LEMMA BitsXor ==
  ASSUME NEW h, NEW g, NEW r, NEW new, new = b'
  PROVE  Bits!Xor(h, g, r) <=>
           IF Len(Abstract(b)[h]) = Len(Abstract(b)[g])
           THEN /\ Abstract(new) = [Abstract(b) EXCEPT
                     ![r] = [i \in DOMAIN Abstract(b)[h] |->
                               IF Abstract(b)[h][i] = Abstract(b)[g][i] THEN 0 ELSE 1]]
                /\ UNCHANGED (status = "running")
           ELSE Abstract(new) = Abstract(b) /\ UNCHANGED (status = "running")
BY DEF Bits!Xor, Bits!Becomes, Abstract

\* Two functions on Handle that differ at most at h.
LEMMA SameButOne ==
  ASSUME NEW h \in Handle, NEW f, NEW g, NEW v, f = [k \in Handle |-> f[k]],
         g = [k \in Handle |-> g[k]], g[h] = v, \A k \in Handle : k # h => g[k] = f[k]
  PROVE  g = [f EXCEPT ![h] = v]
OBVIOUS

\* A step that gives h a string gives h, in the abstract, the bits of it.
LEMMA NewString ==
  ASSUME TypeOK, NEW h \in Handle, NEW str, str # NULL, NEW new, new = [b EXCEPT ![h] = str]
  PROVE  Abstract(new) = [Abstract(b) EXCEPT ![h] = Seen(str)]
<1> DEFINE f == Abstract(b)
           g == Abstract(new)
<1>1. \A k \in Handle : new[k] = IF k = h THEN str ELSE b[k]
  BY DEF TypeOK
<1>2. g[h] = Seen(str)
  <2>1. new[h] # NULL /\ new[h] = str
    BY <1>1
  <2> QED BY <2>1 DEF Abstract, Seen
<1>3. f = [k \in Handle |-> f[k]] /\ g = [k \in Handle |-> g[k]]
  BY DEF Abstract
<1>4. \A k \in Handle : k # h => g[k] = f[k]
  BY <1>1 DEF Abstract
<1> HIDE DEF f, g
<1>5. g = [f EXCEPT ![h] = Seen(str)]
  BY <1>2, <1>3, <1>4, SameButOne
<1> QED BY <1>5 DEF f, g

LEMMA NoString ==
  ASSUME TypeOK, NEW h \in Handle, NEW new, new = [b EXCEPT ![h] = NULL]
  PROVE  Abstract(new) = [Abstract(b) EXCEPT ![h] = NULL]
<1> DEFINE f == Abstract(b)
           g == Abstract(new)
<1>1. \A k \in Handle : new[k] = IF k = h THEN NULL ELSE b[k]
  BY DEF TypeOK
<1>2. g[h] = NULL
  BY <1>1 DEF Abstract
<1>3. f = [k \in Handle |-> f[k]] /\ g = [k \in Handle |-> g[k]]
  BY DEF Abstract
<1>4. \A k \in Handle : k # h => g[k] = f[k]
  BY <1>1 DEF Abstract
<1> HIDE DEF f, g
<1>5. g = [f EXCEPT ![h] = NULL]
  BY <1>2, <1>3, <1>4, SameButOne
<1> QED BY <1>5 DEF f, g

LEMMA SeenIs ==
  ASSUME NEW len \in Lens, len <= MaxBits, NEW str \in String(len),
         NEW w, w = [i \in 1 .. len |-> w[i]], \A i \in 1 .. len : Get(str, i - 1) = w[i]
  PROVE  Seen(str) = w /\ str # NULL
<1>1. str # NULL /\ str.len = len
  BY StringOfLen
<1>2. Seen(str) = [i \in 1 .. len |-> Get(str, i - 1)]
  BY <1>1 DEF Seen
<1> QED BY <1>1, <1>2

\* One lemma for each call: it does to the bits what BitSequence says.
LEMMA AllocPromised ==
  ASSUME TypeOK, NEW h \in Handle, NEW n \in 0 .. MaxBits, Alloc(h, n)
  PROVE  Bits!Alloc(h, n)
<1>0. PICK new : new = b'
  OBVIOUS
<1>1. UNCHANGED (status = "running")
  BY DEF Alloc
<1> DEFINE zeros == [i \in 1 .. n |-> 0]
           ok    == n > 0 /\ n % CHAR_BIT = 0
<1>2. Abstract(new) = [Abstract(b) EXCEPT ![h] = IF ok THEN zeros ELSE NULL]
  <2>1. CASE ok
    <3>1. n \in Lens /\ n <= MaxBits /\ n \in Nat
      BY <2>1, BitstringAssumption DEF Lens, Positive
    <3>2. Zeros(n) \in String(n) /\ new = [b EXCEPT ![h] = Zeros(n)]
      BY <1>0, <2>1, <3>1, ZerosTyped DEF Alloc
    <3>3. \A i \in 1 .. n : Get(Zeros(n), i - 1) = zeros[i]
      <4>1. ASSUME NEW i \in 1 .. n PROVE Get(Zeros(n), i - 1) = 0
        <5>1. i - 1 \in 0 .. n - 1
          BY <3>1
        <5> QED BY <3>1, <5>1, ZerosGet
      <4> QED BY <4>1
    <3>4. zeros = [i \in 1 .. n |-> zeros[i]]
      OBVIOUS
    <3> HIDE DEF zeros
    <3>5. Seen(Zeros(n)) = zeros /\ Zeros(n) # NULL
      BY <3>1, <3>2, <3>3, <3>4, SeenIs
    <3>6. Abstract(new) = [Abstract(b) EXCEPT ![h] = Seen(Zeros(n))]
      BY <3>2, <3>5, NewString
    <3> QED BY <2>1, <3>5, <3>6
  <2>2. CASE ~ok
    <3>1. new = [b EXCEPT ![h] = NULL]
      BY <1>0, <2>2 DEF Alloc
    <3>2. Abstract(new) = [Abstract(b) EXCEPT ![h] = NULL]
      BY <3>1, NoString
    <3> QED BY <2>2, <3>2
  <2> QED BY <2>1, <2>2
<1> QED BY <1>0, <1>1, <1>2, BitsAlloc

LEMMA AllocFromIntPromised ==
  ASSUME TypeOK, NEW h \in Handle, NEW x \in 0 .. Pow2[INT_BIT] - 1, AllocFromInt(h, x)
  PROVE  Bits!AllocFromInt(h, x)
<1>0. PICK new : new = b'
  OBVIOUS
<1>1. UNCHANGED (status = "running")
  BY DEF AllocFromInt
<1> DEFINE w == [i \in 1 .. INT_BIT |-> (x \div Pow2[INT_BIT - i]) % 2]
<1>2. /\ INT_BIT \in Lens /\ INT_BIT <= MaxBits /\ IntString(x) \in String(INT_BIT)
      /\ \A j \in 0 .. INT_BIT - 1 :
           Get(IntString(x), j) = (x \div Pow2[INT_BIT - 1 - j]) % 2
  BY IntBits
<1>3. \A i \in 1 .. INT_BIT : Get(IntString(x), i - 1) = w[i]
  <2>1. ASSUME NEW i \in 1 .. INT_BIT
        PROVE  Get(IntString(x), i - 1) = (x \div Pow2[INT_BIT - i]) % 2
    <3>1. i - 1 \in 0 .. INT_BIT - 1 /\ INT_BIT - 1 - (i - 1) = INT_BIT - i
      BY BitstringAssumption
    <3> QED BY <1>2, <3>1
  <2> QED BY <2>1
<1>4. w = [i \in 1 .. INT_BIT |-> w[i]]
  OBVIOUS
<1>5. new = [b EXCEPT ![h] = IntString(x)]
  BY <1>0 DEF AllocFromInt, IntString
<1> HIDE DEF w
<1>6. Seen(IntString(x)) = w /\ IntString(x) # NULL
  BY <1>2, <1>3, <1>4, SeenIs
<1>7. Abstract(new) = [Abstract(b) EXCEPT ![h] = w]
  <2>1. Abstract(new) = [Abstract(b) EXCEPT ![h] = Seen(IntString(x))]
    BY <1>5, <1>6, NewString
  <2> QED BY <1>6, <2>1
<1> QED BY <1>0, <1>1, <1>7, BitsAllocFromInt DEF w

LEMMA FreePromised ==
  ASSUME TypeOK, NEW h \in Handle, Free(h)
  PROVE  Bits!Free(h)
<1>0. PICK new : new = b'
  OBVIOUS
<1>1. new = [b EXCEPT ![h] = NULL] /\ UNCHANGED (status = "running")
  BY <1>0 DEF Free
<1>2. Abstract(new) = [Abstract(b) EXCEPT ![h] = NULL]
  BY <1>1, NoString
<1> QED BY <1>0, <1>1, <1>2, BitsFree

\* What is known of a string and of the bits it stands for.
LEMMA LiveSeen ==
  ASSUME TypeOK, NEW h \in Live, NEW len, len = b[h].len
  PROVE  /\ h \in Handle /\ len \in Lens /\ len \in Nat /\ len # 0 /\ len <= MaxBits
         /\ b[h] \in String(len)
         /\ Len(Abstract(b)[h]) = len /\ DOMAIN Abstract(b)[h] = 1 .. len
         /\ Abstract(b)[h] = [i \in 1 .. len |-> Abstract(b)[h][i]]
         /\ \A i \in 1 .. len : Abstract(b)[h][i] = Get(b[h], i - 1)
         /\ Abstract(b)[h] \in Seq(Bit)
<1>1. h \in Handle /\ len \in Lens /\ len <= MaxBits /\ b[h] \in String(len)
  BY LiveString
<1>2. len \in Nat /\ len # 0
  BY <1>1 DEF Lens, Positive
<1> DEFINE s == Abstract(b)[h]
<1>3. s = Seen(b[h])
  BY <1>1, SeenAt
<1> HIDE DEF s
<1>4. /\ Len(s) = len /\ DOMAIN s = 1 .. len /\ s = [i \in 1 .. len |-> s[i]]
      /\ \A i \in 1 .. len : s[i] = Get(b[h], i - 1)
  BY <1>1, <1>3, SeenSequence
<1>5. s \in Seq(Bit)
  <2>1. ASSUME NEW i \in 1 .. len PROVE s[i] \in Bit
    <3>1. i - 1 \in 0 .. len - 1
      BY <1>2
    <3> QED BY <1>1, <1>4, <3>1, GetTyped
  <2>2. s \in [1 .. len -> Bit]
    BY <1>4, <2>1
  <2> QED BY <1>2, <2>2
<1> QED BY <1>1, <1>2, <1>4, <1>5 DEF s

LEMMA SetBitPromised ==
  ASSUME TypeOK, NEW h \in Live, NEW n \in 0 .. MaxBits, NEW bit \in Bit, SetBit(h, n, bit)
  PROVE  Bits!SetBit(h, n, bit)
<1>0. PICK new : new = b'
  OBVIOUS
<1>1. PICK len : len = b[h].len
  OBVIOUS
<1> DEFINE s == Abstract(b)[h]
<1>2. /\ h \in Handle /\ len \in Lens /\ len \in Nat /\ len <= MaxBits /\ b[h] \in String(len)
      /\ DOMAIN s = 1 .. len /\ s = [i \in 1 .. len |-> s[i]]
      /\ \A i \in 1 .. len : s[i] = Get(b[h], i - 1)
  BY <1>1, LiveSeen
<1>3. n \in Nat
  BY BitstringAssumption
<1> HIDE DEF s
<1>4. CASE n >= len
  <2>1. n + 1 \notin DOMAIN s
    BY <1>2, <1>3, <1>4
  <2>2. new = b /\ status' # "running"
    BY <1>0, <1>1, <1>4 DEF SetBit
  <2>3. Abstract(new) = Abstract(b)
    BY <2>2
  <2> QED BY <1>0, <2>1, <2>2, <2>3, BitsSetBit DEF s
<1>5. CASE ~(n >= len)
  <2>1. n \in 0 .. len - 1 /\ n + 1 \in DOMAIN s
    BY <1>2, <1>3, <1>5
  <2> DEFINE str == Set(b[h], n, bit)
             w   == [s EXCEPT ![n + 1] = bit]
  <2>2. new = [b EXCEPT ![h] = str] /\ UNCHANGED (status = "running")
    BY <1>0, <1>1, <1>5 DEF SetBit
  <2>3. str \in String(len)
    BY <1>2, <2>1, SetSets
  <2>4. w = [i \in 1 .. len |-> w[i]] /\ \A i \in 1 .. len : w[i] = IF i = n + 1 THEN bit ELSE s[i]
    BY <1>2
  <2>5. \A i \in 1 .. len : Get(str, i - 1) = w[i]
    <3>1. ASSUME NEW i \in 1 .. len PROVE Get(str, i - 1) = IF i = n + 1 THEN bit ELSE s[i]
      <4>1. i - 1 \in 0 .. len - 1 /\ (i - 1 = n <=> i = n + 1)
        BY <1>2, <1>3
      <4> QED BY <1>2, <2>1, <4>1, SetSets
    <3> QED BY <2>4, <3>1
  <2> HIDE DEF str, w
  <2>6. Seen(str) = w /\ str # NULL
    BY <1>2, <2>3, <2>4, <2>5, SeenIs
  <2>7. Abstract(new) = [Abstract(b) EXCEPT ![h] = w]
    <3>1. Abstract(new) = [Abstract(b) EXCEPT ![h] = Seen(str)]
      BY ZenonT(30), <1>2, <2>2, <2>6, NewString
    <3> QED BY <2>6, <3>1
  <2> QED BY <1>0, <2>1, <2>2, <2>7, BitsSetBit DEF s, w
<1> QED BY <1>4, <1>5

LEMMA RotatePromised ==
  ASSUME TypeOK, NEW h \in Live, NEW n \in Shift, Rotate(h, n)
  PROVE  Bits!Rotate(h, n)
<1>0. PICK new : new = b'
  OBVIOUS
<1>1. PICK len : len = b[h].len
  OBVIOUS
<1> DEFINE s   == Abstract(b)[h]
           str == RotatedString(b[h], n)
           w   == [i \in 1 .. len |-> s[1 + ((i - 1 - n) % len)]]
<1>2. /\ h \in Handle /\ len \in Lens /\ len \in Nat /\ len <= MaxBits /\ b[h] \in String(len)
      /\ Len(s) = len /\ \A i \in 1 .. len : s[i] = Get(b[h], i - 1)
  BY <1>1, LiveSeen
<1>3. n \in Int
  BY BitstringAssumption DEF Shift
<1>4. /\ str \in String(len)
      /\ \A i \in 0 .. len - 1 : RotateTo(i, Remainder(n, len), len) \in 0 .. len - 1
      /\ \A j \in 0 .. len - 1 : /\ (j - n) % len \in 0 .. len - 1
                                 /\ Get(str, j) = Get(b[h], (j - n) % len)
  BY <1>2, <1>3, RotatedBits
<1>5. new = [b EXCEPT ![h] = str] /\ UNCHANGED (status = "running")
  BY <1>0, <1>1, <1>4 DEF Rotate, RotatedString
<1> HIDE DEF s, str
<1>6. \A i \in 1 .. len : Get(str, i - 1) = w[i]
  <2>1. ASSUME NEW i \in 1 .. len PROVE Get(str, i - 1) = s[1 + ((i - 1 - n) % len)]
    <3> DEFINE k == (i - 1 - n) % len
    <3>1. i - 1 \in 0 .. len - 1
      BY <1>2
    <3>2. k \in 0 .. len - 1 /\ Get(str, i - 1) = Get(b[h], k)
      BY <1>4, <3>1
    <3> HIDE DEF k
    <3>3. 1 + k \in 1 .. len /\ (1 + k) - 1 = k
      BY <1>2, <3>2
    <3>4. Get(str, i - 1) = s[1 + k]
      BY <1>2, <3>2, <3>3
    <3> QED BY <3>4 DEF k
  <2> QED BY <2>1
<1>7. w = [i \in 1 .. len |-> w[i]]
  OBVIOUS
<1> HIDE DEF w
<1>8. Seen(str) = w /\ str # NULL
  BY <1>2, <1>4, <1>6, <1>7, SeenIs
<1>9. Abstract(new) = [Abstract(b) EXCEPT ![h] = w]
  <2>1. Abstract(new) = [Abstract(b) EXCEPT ![h] = Seen(str)]
    BY <1>2, <1>5, <1>8, NewString
  <2> QED BY <1>8, <2>1
<1>10. w = [i \in 1 .. Len(s) |-> s[1 + ((i - 1 - n) % Len(s))]]
  BY <1>2 DEF w
<1>11. Abstract(new) = [Abstract(b) EXCEPT
         ![h] = [i \in 1 .. Len(s) |-> s[1 + ((i - 1 - n) % Len(s))]]]
  BY <1>9, <1>10
<1> QED BY <1>0, <1>5, <1>11, BitsRotate DEF s

LEMMA ConcatPromised ==
  ASSUME TypeOK, NEW h \in Live, NEW g \in Live, Concat(h, g)
  PROVE  Bits!Concat(h, g)
<1>0. PICK new : new = b'
  OBVIOUS
<1>1. PICK m : m = b[h].len
  OBVIOUS
<1>2. PICK n : n = b[g].len
  OBVIOUS
<1>3. PICK l : l = m + n
  OBVIOUS
<1> DEFINE s   == Abstract(b)[h]
           t   == Abstract(b)[g]
           str == ConcatString(b[h], b[g])
           w   == s \o t
<1>4. /\ h \in Handle /\ m \in Lens /\ m \in Nat /\ b[h] \in String(m)
      /\ Len(s) = m /\ s \in Seq(Bit) /\ \A i \in 1 .. m : s[i] = Get(b[h], i - 1)
  BY <1>1, LiveSeen
<1>5. /\ n \in Lens /\ n \in Nat /\ b[g] \in String(n)
      /\ Len(t) = n /\ t \in Seq(Bit) /\ \A i \in 1 .. n : t[i] = Get(b[g], i - 1)
  BY <1>2, LiveSeen
<1>6. l <= MaxBits /\ new = [b EXCEPT ![h] = str] /\ UNCHANGED (status = "running")
  BY <1>0, <1>1, <1>2, <1>3 DEF Concat, ConcatString
<1>7. /\ l \in Lens /\ str \in String(l)
      /\ \A j \in 0 .. l - 1 : Get(str, j) = IF j < m THEN Get(b[h], j) ELSE Get(b[g], j - m)
  <2>1. PICK x, y : x = b[h] /\ y = b[g]
    OBVIOUS
  <2>2. /\ x.len \in Lens /\ x \in String(x.len) /\ y.len \in Lens /\ y \in String(y.len)
        /\ l = x.len + y.len
    BY <1>1, <1>2, <1>3, <1>4, <1>5, <2>1
  <2>3. /\ l \in Lens /\ ConcatString(x, y) \in String(l)
        /\ \A j \in 0 .. l - 1 :
             Get(ConcatString(x, y), j) = IF j < x.len THEN Get(x, j) ELSE Get(y, j - x.len)
    BY <2>2, ConcatBits
  <2>4. x.len = m /\ str = ConcatString(x, y)
    BY <1>1, <2>1
  <2> HIDE DEF str
  <2> QED BY <2>1, <2>3, <2>4
<1> HIDE DEF s, t, str
<1>8. /\ w = [i \in 1 .. l |-> w[i]]
      /\ \A i \in 1 .. l : w[i] = IF i <= m THEN s[i] ELSE t[i - m]
  <2>1. /\ w \in Seq(Bit) /\ Len(w) = Len(s) + Len(t)
        /\ \A i \in 1 .. Len(s) + Len(t) : w[i] = IF i <= Len(s) THEN s[i] ELSE t[i - Len(s)]
    BY <1>4, <1>5, ConcatProperties
  <2>2. w \in Seq(Bit) /\ Len(w) = l
    BY <1>3, <1>4, <1>5, <2>1
  <2> HIDE DEF w
  <2>3. w = [i \in 1 .. l |-> w[i]]
    BY <2>2
  <2> QED BY <1>3, <1>4, <1>5, <2>1, <2>3
<1>9. \A i \in 1 .. l : Get(str, i - 1) = w[i]
  <2>1. ASSUME NEW i \in 1 .. l PROVE Get(str, i - 1) = IF i <= m THEN s[i] ELSE t[i - m]
    <3>1. i - 1 \in 0 .. l - 1 /\ (i - 1 < m <=> i <= m)
      BY <1>3, <1>4, <1>5
    <3>2. CASE i <= m
      <4>1. i \in 1 .. m
        BY <1>3, <1>4, <3>2
      <4> QED BY <1>4, <1>7, <3>1, <3>2, <4>1
    <3>3. CASE ~(i <= m)
      <4>1. i - m \in 1 .. n /\ (i - m) - 1 = (i - 1) - m
        BY <1>3, <1>4, <1>5, <3>3
      <4> QED BY <1>5, <1>7, <3>1, <3>3, <4>1
    <3> QED BY <3>2, <3>3
  <2> QED BY <1>8, <2>1
<1> HIDE DEF w
<1>10. Seen(str) = w /\ str # NULL
  BY <1>6, <1>7, <1>8, <1>9, SeenIs
<1>11. Abstract(new) = [Abstract(b) EXCEPT ![h] = w]
  <2>1. Abstract(new) = [Abstract(b) EXCEPT ![h] = Seen(str)]
    BY <1>4, <1>6, <1>10, NewString
  <2> QED BY <1>10, <2>1
<1> QED BY <1>0, <1>6, <1>11, BitsConcat DEF s, t, w

LEMMA XorPromised ==
  ASSUME TypeOK, NEW h \in Live, NEW g \in Live, NEW r \in Handle, Xor(h, g, r)
  PROVE  Bits!Xor(h, g, r)
<1>0. PICK new : new = b'
  OBVIOUS
<1>1. PICK len : len = b[h].len
  OBVIOUS
<1>2. PICK n : n = b[g].len
  OBVIOUS
<1> DEFINE s   == Abstract(b)[h]
           t   == Abstract(b)[g]
           str == XorString(b[h], b[g])
           w   == [i \in 1 .. len |-> IF s[i] = t[i] THEN 0 ELSE 1]
<1>3. /\ len \in Lens /\ len \in Nat /\ len <= MaxBits /\ b[h] \in String(len)
      /\ Len(s) = len /\ DOMAIN s = 1 .. len /\ \A i \in 1 .. len : s[i] = Get(b[h], i - 1)
  BY <1>1, LiveSeen
<1>4. Len(t) = n /\ \A i \in 1 .. n : t[i] = Get(b[g], i - 1)
  BY <1>2, LiveSeen
<1>5. UNCHANGED (status = "running")
  BY DEF Xor
<1> HIDE DEF s, t, str
<1>6. CASE len # n
  <2>1. new = b
    BY <1>0, <1>1, <1>2, <1>6 DEF Xor
  <2>2. Abstract(new) = Abstract(b)
    BY <2>1
  <2> QED BY <1>0, <1>3, <1>4, <1>5, <1>6, <2>2, BitsXor DEF s, t
<1>7. CASE len = n
  <2>1. new = [b EXCEPT ![r] = str]
    BY <1>0, <1>1, <1>2, <1>7 DEF Xor, XorString, str
  <2>2. /\ str \in String(len)
        /\ \A j \in 0 .. len - 1 :
             Get(str, j) = IF Get(b[h], j) = Get(b[g], j) THEN 0 ELSE 1
    BY <1>3, XorBits DEF str
  <2>3. \A i \in 1 .. len : Get(str, i - 1) = w[i]
    <3>1. ASSUME NEW i \in 1 .. len PROVE Get(str, i - 1) = IF s[i] = t[i] THEN 0 ELSE 1
      <4>1. i - 1 \in 0 .. len - 1
        BY <1>3
      <4> QED BY <1>3, <1>4, <1>7, <2>2, <4>1
    <3> QED BY <3>1
  <2>4. w = [i \in 1 .. len |-> w[i]]
    OBVIOUS
  <2>5. w = [i \in DOMAIN s |-> IF s[i] = t[i] THEN 0 ELSE 1]
    BY <1>3
  <2> HIDE DEF w
  <2>6. Seen(str) = w /\ str # NULL
    BY <1>3, <2>2, <2>3, <2>4, SeenIs
  <2>7. Abstract(new) = [Abstract(b) EXCEPT ![r] = w]
    <3>1. Abstract(new) = [Abstract(b) EXCEPT ![r] = Seen(str)]
      BY <2>1, <2>6, NewString
    <3> QED BY <2>6, <3>1
  <2>8. Abstract(new) = [Abstract(b) EXCEPT
          ![r] = [i \in DOMAIN s |-> IF s[i] = t[i] THEN 0 ELSE 1]]
    BY <2>5, <2>7
  <2> QED BY <1>0, <1>3, <1>4, <1>5, <1>7, <2>8, BitsXor DEF s, t
<1> QED BY <1>6, <1>7

\* Every call of bitstring.h (alloc, alloc_from_int, set, rotate, concat, xor,
\* free), on strings made by any calls before it, does to the packed chars what
\* BitSequence says it does to the sequences of bits they stand for.
THEOREM CallsAsPromised == Spec => CallsImplementBits
<1>1. TypeOK => /\ \A h \in Handle : AllocAsPromised(h)
                /\ \A h \in Live : UseAsPromised(h)
  <2> SUFFICES ASSUME TypeOK
               PROVE  /\ \A h \in Handle : AllocAsPromised(h)
                      /\ \A h \in Live : UseAsPromised(h)
    OBVIOUS
  <2>1. ASSUME NEW h \in Handle PROVE AllocAsPromised(h)
    BY AllocPromised, AllocFromIntPromised, FreePromised DEF AllocAsPromised
  <2>2. ASSUME NEW h \in Live PROVE UseAsPromised(h)
    BY SetBitPromised, RotatePromised, ConcatPromised, XorPromised DEF UseAsPromised
  <2> QED BY <2>1, <2>2
<1> QED BY <1>1, BitstringTyped, PTL DEF CallsImplementBits

-----------------------------------------------------------------------------
(* What bitstring_print shows.                                              *)

LEMMA DigitSize ==
  DIGIT_BIT \in Positive /\ DIGIT_BIT \in Nat /\ CHAR_BIT = 2 * DIGIT_BIT
<1>1. CHAR_BIT \in Nat /\ CHAR_BIT # 0 /\ CHAR_BIT % 2 = 0
  BY BitstringAssumption
<1> QED BY <1>1 DEF DIGIT_BIT, Positive

\* The digit of a char is in range, and its bits are those of a half of the char.
LEMMA DigitBits ==
  ASSUME NEW c \in 0 .. Pow2[CHAR_BIT] - 1, NEW k \in Nat
  PROVE  /\ DigitOf(c, k) \in 0 .. Pow2[DIGIT_BIT] - 1
         /\ \A j \in 0 .. DIGIT_BIT - 1 :
              BitOf(DigitOf(c, k), j) = BitOf(c, (k % 2) * DIGIT_BIT + j)
<1> DEFINE D == DIGIT_BIT
           P == Pow2[D]
<1>1. D \in Nat /\ P \in Positive /\ P \in Nat /\ c \in Nat /\ k % 2 \in {0, 1}
  BY DigitSize, Powers DEF Positive
<1>2. Pow2[CHAR_BIT] = P * P
  <2>1. CHAR_BIT = D + D
    BY DigitSize
  <2> QED BY <1>1, <2>1, PowSum
<1> HIDE DEF P
<1> DEFINE q == c \div P
           r == c % P
<1>3. q \in Nat /\ r \in Nat /\ r < P /\ c = P * q + r
  BY <1>1, DivMod
<1> HIDE DEF q, r
<1>4. q < P
  <2>1. SUFFICES ASSUME P <= q PROVE FALSE
    BY <1>1, <1>3
  <2>2. P * P <= q * P
    BY <1>1, <1>3, <2>1, TimesMonotone
  <2>3. q * P = P * q /\ P * q \in Nat /\ P * P \in Nat
    BY <1>1, <1>3
  <2> QED BY <1>2, <1>3, <2>2, <2>3
<1>5. CASE k % 2 = 0
  <2>1. DigitOf(c, k) = r
    BY <1>5 DEF DigitOf, r, P
  <2>2. ASSUME NEW j \in 0 .. D - 1 PROVE BitOf(r, j) = BitOf(c, j)
    <3> DEFINE Q == Pow2[j]
    <3>1. j \in Nat /\ j < D /\ Q \in Positive /\ Q \in Nat
      BY <1>1, Powers DEF Positive
    <3>2. PICK m \in Positive : P = Q * (2 * m)
      BY <1>1, <3>1, PowSplit DEF P
    <3> HIDE DEF Q
    <3>3. m \in Nat /\ m * q \in Nat /\ 2 * (m * q) \in Nat
      BY <1>3, <3>2 DEF Positive
    <3>4. P * q = Q * (2 * (m * q))
      BY <1>3, <3>1, <3>2, <3>3
    <3>5. c = r + Q * (2 * (m * q))
      <4>1. P * q \in Nat
        BY <1>1, <1>3
      <4> QED BY <1>3, <3>4, <4>1
    <3> DEFINE i == m * q
    <3> HIDE DEF i
    <3>6. (r + Q * (2 * i)) \div Q = r \div Q + 2 * i
      BY <1>3, <3>1, <3>3, DivAdds DEF i
    <3>7. r \div Q \in Nat /\ i \in Nat
      BY <1>3, <3>1, <3>3, DivMod DEF i
    <3>8. (r \div Q + 2 * i) % 2 = (r \div Q) % 2
      BY <3>7
    <3>9. (c \div Q) % 2 = (r \div Q) % 2
      BY <3>5, <3>6, <3>8 DEF i
    <3> QED BY <3>9 DEF BitOf, Q
  <2>3. \A j \in 0 .. D - 1 : (k % 2) * D + j = j
    BY <1>1, <1>5
  <2>4. r \in 0 .. P - 1
    BY <1>1, <1>3
  <2> QED BY <2>1, <2>2, <2>3, <2>4 DEF P
<1>6. CASE k % 2 = 1
  <2>1. DigitOf(c, k) = q
    BY <1>6 DEF DigitOf, q, P
  <2>2. ASSUME NEW j \in 0 .. D - 1 PROVE BitOf(q, j) = BitOf(c, D + j)
    <3> DEFINE Q == Pow2[j]
    <3>1. j \in Nat /\ Q \in Positive /\ Pow2[D + j] = P * Q
      BY <1>1, Powers, PowSum DEF P
    <3> HIDE DEF Q
    <3>2. c \div (P * Q) = (c \div P) \div Q
      BY <1>1, <3>1, DivDiv
    <3> QED BY <3>1, <3>2 DEF BitOf, Q, q
  <2>3. \A j \in 0 .. D - 1 : (k % 2) * D + j = D + j
    BY <1>1, <1>6
  <2>4. q \in 0 .. P - 1
    BY <1>1, <1>3, <1>4
  <2> QED BY <2>1, <2>2, <2>3, <2>4 DEF P
<1> QED BY <1>1, <1>5, <1>6

\* The bits a digit of the print stands for, in the char the print takes it from.
LEMMA DigitPlace ==
  ASSUME NEW len \in Lens, NEW str \in String(len), NEW p \in 1 .. len \div DIGIT_BIT,
         NEW j \in 0 .. DIGIT_BIT - 1, NEW k, k = len \div DIGIT_BIT - p
  PROVE  /\ k \in Nat /\ 1 + k \div 2 \in 1 .. len \div CHAR_BIT
         /\ Get(str, (p - 1) * DIGIT_BIT + j) =
              BitOf(str.bytes[1 + k \div 2], (k % 2) * DIGIT_BIT + (DIGIT_BIT - 1 - j))
<1> DEFINE D == DIGIT_BIT
           C == CHAR_BIT
           L == len \div C
           s == k \div 2
           e == k % 2
           i == D - 1 - j
<1>1. /\ D \in Positive /\ D \in Nat /\ C \in Positive /\ C \in Nat /\ C = 2 * D
      /\ len \in Nat /\ len # 0 /\ len % C = 0
  BY DigitSize, CharBits DEF Lens, Positive
<1> HIDE DEF D, C
<1>2. L \in Nat /\ len = C * L
  <2>1. L \in Nat /\ len = C * L + (len % C)
    BY <1>1, DivMod
  <2>2. C * L \in Nat
    BY <1>1, <2>1
  <2> QED BY <1>1, <2>1, <2>2
<1> HIDE DEF L
<1>3. len = D * (2 * L) /\ len \div D = 2 * L
  <2>1. C * L = D * (2 * L)
    BY <1>1, <1>2
  <2>2. 2 * L \in Nat /\ 0 \in Nat /\ 0 < D /\ D * (2 * L) + 0 = D * (2 * L)
    BY <1>1, <1>2 DEF Positive
  <2>3. (D * (2 * L) + 0) \div D = 2 * L
    BY <1>1, <2>2, DivUnique
  <2> QED BY <1>2, <2>1, <2>2, <2>3
<1>4. p \in Int /\ 1 <= p /\ p <= 2 * L /\ k = 2 * L - p /\ k \in Nat
  BY <1>2, <1>3 DEF D
<1>5. s \in Nat /\ e \in {0, 1} /\ k = 2 * s + e /\ s < L
  BY <1>2, <1>4
<1> HIDE DEF s, e
<1>6. i \in 0 .. D - 1 /\ j \in Nat /\ j < D
  BY <1>1 DEF D
<1>7. e * D + i \in Nat /\ e * D + i < C
  BY <1>1, <1>5, <1>6
<1> DEFINE m == len - 1 - ((p - 1) * D + j)
<1>8. m = C * s + (e * D + i)
  <2>1. (p - 1) * D = D * p - D /\ D * p \in Int
    BY <1>1, <1>4
  <2>2. D * (2 * L) = D * k + D * p /\ D * k \in Nat
    BY <1>1, <1>2, <1>4
  <2>3. D * k = C * s + e * D /\ C * s \in Nat /\ e * D \in Nat
    BY <1>1, <1>5
  <2> QED BY <1>1, <1>3, <1>6, <2>1, <2>2, <2>3
<1>9. m \div C = s /\ m % C = e * D + i
  <2> DEFINE o == e * D + i
  <2>1. o \in Nat /\ o < C /\ m = C * s + o
    BY <1>7, <1>8
  <2> HIDE DEF o, m, i
  <2>2. m \div C = s /\ m % C = o
    BY ZenonT(30), <1>1, <1>5, <2>1, DivUnique
  <2> QED BY <2>2 DEF o
<1>10. Get(str, (p - 1) * D + j) = BitOf(str.bytes[1 + m \div C], m % C)
  BY GetIsBitOf DEF C, m
<1>11. 1 + s \in 1 .. L
  BY <1>2, <1>5
<1> HIDE DEF m
<1>12. Get(str, (p - 1) * D + j) = BitOf(str.bytes[1 + s], e * D + i)
  BY <1>9, <1>10
<1> QED BY <1>4, <1>11, <1>12 DEF D, C, L, s, e, i

\* The numbers that Shown goes through.
ShowsIn(g, str, p) ==
  g = [k \in 0 .. DIGIT_BIT |->
         IF k = 0 THEN 0 ELSE 2 * g[k - 1] + Get(str, (p - 1) * DIGIT_BIT + k - 1)]

LEMMA ShownIsLast ==
  ASSUME NEW str, NEW p
  PROVE  Shown(str, p) = (CHOOSE g : ShowsIn(g, str, p))[DIGIT_BIT]
BY DEF Shown, ShowsIn

\* A number is what its bits are the binary form of.
LEMMA BinaryForm ==
  ASSUME NEW str, NEW p, NEW d \in 0 .. Pow2[DIGIT_BIT] - 1,
         \A k \in 1 .. DIGIT_BIT :
           Get(str, (p - 1) * DIGIT_BIT + k - 1) = BitOf(d, DIGIT_BIT - k)
  PROVE  Shown(str, p) = d
<1> DEFINE D == DIGIT_BIT
           h == [k \in 0 .. D |-> d \div Pow2[D - k]]
<1>1. D \in Nat /\ Pow2[D] \in Nat /\ d \in Nat /\ d < Pow2[D]
  BY DigitSize, Powers DEF Positive
<1> HIDE DEF D
<1>2. d \div Pow2[D] = 0 /\ d \div Pow2[0] = d
  <2> DEFINE P == Pow2[D]
  <2>1. P \in Positive /\ P * 0 + d = d
    BY <1>1, Powers
  <2> HIDE DEF P
  <2>2. (P * 0 + d) \div P = 0
    BY <1>1, <2>1, DivUnique DEF P
  <2>3. Pow2[0] = 1 /\ d \div 1 = d
    BY <1>1, Powers
  <2> QED BY <2>1, <2>2, <2>3 DEF P
<1>3. ASSUME NEW k \in 1 .. D
      PROVE  d \div Pow2[D - k] = 2 * (d \div Pow2[D - (k - 1)]) + BitOf(d, D - k)
  <2> DEFINE Q == Pow2[D - k]
             x == d \div Q
  <2>1. D - k \in Nat /\ (D - k) + 1 = D - (k - 1)
    BY <1>1
  <2>2. Q \in Positive /\ Q \in Nat /\ Pow2[D - (k - 1)] = Q * 2
    <3>1. Pow2[(D - k) + 1] = 2 * Q /\ Q \in Positive /\ Q \in Nat
      BY <2>1, Powers DEF Positive
    <3> QED BY <2>1, <3>1
  <2> HIDE DEF Q
  <2>3. d \div (Q * 2) = x \div 2
    <3>1. 2 \in Positive
      BY DEF Positive
    <3> QED BY <1>1, <2>2, <3>1, DivDiv
  <2>4. x \in Nat
    BY <1>1, <2>2, DivMod
  <2>5. BitOf(d, D - k) = x % 2
    BY DEF BitOf, Q
  <2> HIDE DEF x
  <2>6. x = 2 * (x \div 2) + (x % 2)
    BY <2>4
  <2> QED BY <2>2, <2>3, <2>5, <2>6 DEF x, Q
<1>4. ShowsIn(h, str, p)
  <2>1. ASSUME NEW k \in 0 .. D
        PROVE  d \div Pow2[D - k] = IF k = 0 THEN 0
                                    ELSE 2 * h[k - 1] + Get(str, (p - 1) * D + k - 1)
    <3>1. CASE k = 0
      BY <1>1, <1>2, <3>1
    <3>2. CASE k # 0
      <4>1. k \in 1 .. D /\ k - 1 \in 0 .. D
        BY <1>1, <3>2
      <4> QED BY <1>3, <3>2, <4>1 DEF D
    <3> QED BY <3>1, <3>2
  <2> QED BY <2>1 DEF ShowsIn, D
<1> DEFINE g == CHOOSE f : ShowsIn(f, str, p)
<1>5. ShowsIn(g, str, p)
  <2> HIDE DEF h
  <2> QED BY <1>4
<1> HIDE DEF g
<1>6. /\ \A k \in 0 .. D : g[k] = IF k = 0 THEN 0
                                  ELSE 2 * g[k - 1] + Get(str, (p - 1) * D + k - 1)
      /\ \A k \in 0 .. D : h[k] = d \div Pow2[D - k]
  BY <1>5 DEF ShowsIn, D
<1> HIDE DEF h
<1> DEFINE S == {k \in Nat : k <= D => g[k] = d \div Pow2[D - k]}
<1>7. 0 \in S
  BY <1>1, <1>2, <1>6
<1>8. ASSUME NEW k \in Nat, k \in S PROVE k + 1 \in S
  <2>1. SUFFICES ASSUME k + 1 <= D PROVE g[k + 1] = d \div Pow2[D - (k + 1)]
    OBVIOUS
  <2>2. PICK o \in 1 .. D : o = k + 1 /\ o - 1 = k
    BY <1>1, <2>1
  <2>3. g[o] = 2 * g[o - 1] + Get(str, (p - 1) * D + o - 1)
    BY <1>1, <1>6, <2>2
  <2>4. Get(str, (p - 1) * D + o - 1) = BitOf(d, D - o)
    BY DEF D
  <2>5. g[o - 1] = d \div Pow2[D - (o - 1)]
    BY <1>1, <1>8, <2>2
  <2>6. g[o] = d \div Pow2[D - o]
    BY <1>3, <2>3, <2>4, <2>5
  <2> QED BY <2>2, <2>6
<1>9. Nat \subseteq S
  <2> HIDE DEF S
  <2> QED BY <1>7, <1>8, SetInduction
<1>10. g[D] = d
  <2>1. g[D] = d \div Pow2[D - D] /\ D - D = 0
    BY <1>1, <1>9
  <2> QED BY <1>2, <2>1
<1> QED BY <1>10, ShownIsLast DEF D, g

LEMMA DigitShown ==
  ASSUME NEW len \in Lens, NEW str \in String(len), NEW p \in 1 .. len \div DIGIT_BIT
  PROVE  Hex(str)[p] = Shown(str, p)
<1> DEFINE D == DIGIT_BIT
<1>1. D \in Positive /\ D \in Nat
  BY DigitSize
<1>2. PICK k : k = len \div D - p
  OBVIOUS
<1> DEFINE c == str.bytes[1 + k \div 2]
           d == DigitOf(c, k)
<1>3. Hex(str)[p] = d
  BY <1>2, StringFields DEF Hex
<1>4. /\ k \in Nat /\ 1 + k \div 2 \in 1 .. len \div CHAR_BIT
      /\ \A j \in 0 .. D - 1 :
           Get(str, (p - 1) * D + j) = BitOf(c, (k % 2) * D + (D - 1 - j))
  <2>1. 0 \in 0 .. D - 1
    BY <1>1 DEF Positive
  <2>2. ASSUME NEW j \in 0 .. D - 1
        PROVE  /\ k \in Nat /\ 1 + k \div 2 \in 1 .. len \div CHAR_BIT
               /\ Get(str, (p - 1) * D + j) = BitOf(c, (k % 2) * D + (D - 1 - j))
    BY <1>2, DigitPlace
  <2> HIDE DEF c, D
  <2>3. k \in Nat /\ 1 + k \div 2 \in 1 .. len \div CHAR_BIT
    BY <2>1, <2>2
  <2> QED BY <2>2, <2>3
<1>5. c \in 0 .. Pow2[CHAR_BIT] - 1
  <2>1. str.bytes \in [1 .. len \div CHAR_BIT -> 0 .. Pow2[CHAR_BIT] - 1]
    BY StringFields
  <2>2. 1 + k \div 2 \in 1 .. len \div CHAR_BIT
    BY <1>4
  <2> QED BY <2>1, <2>2
<1> HIDE DEF c
<1>6. d \in 0 .. Pow2[D] - 1 /\ \A j \in 0 .. D - 1 : BitOf(d, j) = BitOf(c, (k % 2) * D + j)
  BY <1>4, <1>5, DigitBits
<1> HIDE DEF d
<1>7. ASSUME NEW i \in 1 .. D PROVE Get(str, (p - 1) * D + i - 1) = BitOf(d, D - i)
  <2>1. PICK j \in 0 .. D - 1 : j = i - 1 /\ D - 1 - j = D - i /\ D - i \in 0 .. D - 1
    BY <1>1
  <2>2. (p - 1) * D + i - 1 = (p - 1) * D + j
    <3>1. \A x \in Int : x + i - 1 = x + (i - 1)
      OBVIOUS
    <3>2. (p - 1) * D \in Int
      BY <1>1
    <3> QED BY <2>1, <3>1, <3>2
  <2>3. Get(str, (p - 1) * D + j) = BitOf(c, (k % 2) * D + (D - 1 - j))
    BY <1>4
  <2>4. BitOf(d, D - i) = BitOf(c, (k % 2) * D + (D - i))
    BY <1>6, <2>1
  <2> QED BY <2>1, <2>2, <2>3, <2>4
<1>8. Shown(str, p) = d
  BY <1>6, <1>7, BinaryForm DEF D
<1> QED BY <1>3, <1>8

LEMMA PrintsIfTyped == TypeOK => PrintShowsBits
<1> SUFFICES ASSUME TypeOK, NEW h \in Live, NEW p \in DOMAIN Hex(b[h])
             PROVE  Hex(b[h])[p] = Shown(b[h], p)
  BY DEF PrintShowsBits
<1>1. b[h].len \in Lens /\ b[h] \in String(b[h].len)
  BY LiveString
<1>2. p \in 1 .. b[h].len \div DIGIT_BIT
  BY DEF Hex
<1> QED BY <1>1, <1>2, DigitShown

\* bitstring_print, which reads the chars themselves, shows in every digit the
\* number that bitstring_get reads off the bits, for every string any calls made.
THEOREM PrintedBits == Spec => []PrintShowsBits
BY BitstringTyped, PrintsIfTyped, PTL
=============================================================================
