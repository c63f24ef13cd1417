----------------------- MODULE RunLengthEncodeProofs -----------------------
(***************************************************************************)
(* Proofs about RunLengthEncode for every file, every size of a page,      *)
(* every LENGTH and every length byte the decoder stops at: a file that    *)
(* needs no change at a border is written exactly as it was counted, and   *)
(* the decoder gives it back if it fits the buffers of the decoder.        *)
(* Whatever the file, its sizes and positions stay in their ranges and     *)
(* only bytes are written.                                                 *)
(***************************************************************************)
EXTENDS RunLengthEncode, Arithmetic, FiniteSetTheorems, SequenceTheorems, TLAPS

Value == 0 .. 2 * LENGTH - 1

LEMMA Constants ==
  /\ LENGTH \in Nat /\ LENGTH >= 3 /\ LENGTH \in Positive /\ LENGTH - 1 \in Positive
  /\ PageSize \in Positive /\ taille_max \in Positive
  /\ Newline \in 2 .. LENGTH
  /\ Byte \subseteq Value /\ Value \subseteq Nat
  /\ Unmapped \notin Value
BY EncodeAssumption DEF Positive, taille_max, Value

LEMMA FunctionIsSequence ==
  ASSUME NEW S, NEW n \in Nat, NEW f \in [1 .. n -> S]
  PROVE  f \in Seq(S) /\ Len(f) = n
<1>1. f = [k \in 1 .. n |-> f[k]] /\ \A k \in 1 .. n : f[k] \in S
  OBVIOUS
<1>2. [k \in 1 .. n |-> f[k]] \in Seq(S) /\ Len([k \in 1 .. n |-> f[k]]) = n
  BY <1>1
<1> QED BY <1>1, <1>2, Zenon

-----------------------------------------------------------------------------
(* Writing: Put stores its bytes one after the other.                       *)

Writers == [output : Seq(Value), current : Nat, last : Int, ok : BOOLEAN]

\* A writer after the first k of the bytes.
Written(w, bytes, k) ==
  [output  |-> [q \in 1 .. Len(w.output) |->
                  IF q \in w.current + 1 .. w.current + k THEN bytes[q - w.current]
                  ELSE w.output[q]],
   current |-> w.current + k, last |-> w.last, ok |-> TRUE]

\* There is room for so many bytes, in the file and in the mapping.
HasRoom(w, length) ==
  /\ w \in Writers /\ w.ok
  /\ mapped.from \in Nat /\ mapped.to \in Nat /\ length \in Nat
  /\ mapped.from <= w.current
  /\ w.current + length <= mapped.to /\ w.current + length <= Len(w.output)

PutsIn(g, w, bytes) ==
  g = [k \in 0 .. Len(bytes) |-> IF k = 0 THEN w ELSE PutByte(g[k - 1], bytes[k])]

LEMMA PutIsLast ==
  ASSUME NEW w, NEW bytes
  PROVE  Put(w, bytes) = (CHOOSE g : PutsIn(g, w, bytes))[Len(bytes)]
BY DEF Put, PutsIn

LEMMA WrittenNone ==
  ASSUME NEW w, NEW bytes, HasRoom(w, 0)
  PROVE  Written(w, bytes, 0) = w
<1>1. w \in Writers /\ w.ok = TRUE /\ w.current \in Nat /\ w.output \in Seq(Value)
  BY DEF HasRoom, Writers
<1>2. w.output = [q \in 1 .. Len(w.output) |-> w.output[q]]
  BY <1>1, LenProperties
<1>3. \A q \in 1 .. Len(w.output) : q \notin w.current + 1 .. w.current + 0
  BY <1>1
<1>4. [q \in 1 .. Len(w.output) |->
         IF q \in w.current + 1 .. w.current + 0 THEN bytes[q - w.current] ELSE w.output[q]]
      = w.output
  BY <1>2, <1>3
<1>5. w = [output |-> w.output, current |-> w.current, last |-> w.last, ok |-> w.ok]
  BY <1>1 DEF Writers
<1> QED BY <1>1, <1>4, <1>5 DEF Written

LEMMA WrittenOneMore ==
  ASSUME NEW w, NEW bytes \in Seq(Value), NEW k \in Nat, k < Len(bytes),
         HasRoom(w, Len(bytes))
  PROVE  PutByte(Written(w, bytes, k), bytes[k + 1]) = Written(w, bytes, k + 1)
<1>1. /\ w.current \in Nat /\ w.output \in Seq(Value) /\ Len(bytes) \in Nat
      /\ Len(w.output) \in Nat
      /\ bytes[k + 1] \in Value
  BY LenProperties DEF HasRoom, Writers
<1> DEFINE v == Written(w, bytes, k)
           c == w.current + k
<1>2. /\ c \in Nat /\ c < Len(w.output) /\ c < mapped.to /\ mapped.from <= c
      /\ c + 1 = w.current + (k + 1)
  <2>1. PICK u, l : u = w.current /\ l = Len(bytes)
    OBVIOUS
  <2>2. /\ mapped.from \in Nat /\ mapped.to \in Nat /\ mapped.from <= u
        /\ u + l <= mapped.to /\ u + l <= Len(w.output)
    BY <2>1 DEF HasRoom
  <2>3. u \in Nat /\ l \in Nat /\ k < l /\ c = u + k /\ Len(w.output) \in Nat
    BY <1>1, <2>1
  <2> HIDE DEF c
  <2>4. c + 1 = u + (k + 1)
    BY <2>3
  <2>5. c \in Nat /\ c < Len(w.output) /\ c < mapped.to /\ mapped.from <= c
    BY <2>2, <2>3
  <2> QED BY <2>1, <2>4, <2>5
<1>3. v.current = c /\ v.ok = TRUE /\ v.last = w.last
  BY DEF Written
<1>4. /\ DOMAIN v.output = 1 .. Len(w.output)
      /\ \A q \in 1 .. Len(w.output) : v.output[q] =
           IF q \in w.current + 1 .. w.current + k THEN bytes[q - w.current] ELSE w.output[q]
  BY DEF Written
<1>5. Len(v.output) = Len(w.output)
  BY <1>1, <1>4
<1>6. PutByte(v, bytes[k + 1]) =
        [output |-> Store(v.output, c, bytes[k + 1]), current |-> c + 1,
         last |-> w.last, ok |-> TRUE]
  <2>1. bytes[k + 1] # Unmapped
    BY <1>1, Constants
  <2>2. v = [output |-> v.output, current |-> c, last |-> w.last, ok |-> TRUE]
    BY <1>3 DEF Written
  <2>3. PutByte(v, bytes[k + 1]) = [v EXCEPT !.output = Store(v.output, v.current, bytes[k + 1]),
          !.current = v.current + 1,
          !.ok = v.ok /\ mapped.from <= v.current /\ v.current < mapped.to]
    BY <2>1 DEF PutByte
  <2>4. (v.ok /\ mapped.from <= v.current /\ v.current < mapped.to) = TRUE
    BY <1>2, <1>3
  <2> HIDE DEF v, c
  <2> QED BY <1>3, <2>2, <2>3, <2>4
<1>7. Store(v.output, c, bytes[k + 1]) =
        [q \in 1 .. Len(w.output) |->
           IF q \in w.current + 1 .. w.current + (k + 1) THEN bytes[q - w.current]
           ELSE w.output[q]]
  <2>1. Store(v.output, c, bytes[k + 1]) = [v.output EXCEPT ![c + 1] = bytes[k + 1]]
    BY <1>2, <1>5 DEF Store
  <2> HIDE DEF v
  <2>2. ASSUME NEW q \in 1 .. Len(w.output)
        PROVE  [v.output EXCEPT ![c + 1] = bytes[k + 1]][q] =
                 IF q \in w.current + 1 .. w.current + (k + 1) THEN bytes[q - w.current]
                 ELSE w.output[q]
    <3>1. CASE q = c + 1
      <4>1. q - w.current = k + 1 /\ q \in w.current + 1 .. w.current + (k + 1)
        BY <1>1, <3>1
      <4> QED BY <1>4, <2>2, <3>1, <4>1
    <3>2. CASE q # c + 1
      <4>1. q \in w.current + 1 .. w.current + (k + 1) <=> q \in w.current + 1 .. w.current + k
        <5>1. PICK u : u = w.current
          OBVIOUS
        <5>2. u \in Nat /\ q \in Nat /\ q # u + k + 1
          BY <1>1, <3>2, <5>1
        <5>3. q \in u + 1 .. u + (k + 1) <=> q \in u + 1 .. u + k
          BY <5>2
        <5> QED BY <5>1, <5>3
      <4> HIDE DEF c
      <4> QED BY <1>4, <2>2, <3>2, <4>1
    <3> QED BY <3>1, <3>2
  <2>3. DOMAIN [v.output EXCEPT ![c + 1] = bytes[k + 1]] = 1 .. Len(w.output)
    BY <1>4
  <2> HIDE DEF c
  <2> QED BY <2>1, <2>2, <2>3
<1> QED BY <1>2, <1>6, <1>7 DEF Written

LEMMA PutWrites ==
  ASSUME NEW w, NEW bytes \in Seq(Value), HasRoom(w, Len(bytes))
  PROVE  Put(w, bytes) = Written(w, bytes, Len(bytes))
<1> DEFINE g == CHOOSE s : PutsIn(s, w, bytes)
           h == [k \in 0 .. Len(bytes) |-> Written(w, bytes, k)]
<1>1. Len(bytes) \in Nat /\ Written(w, bytes, 0) = w
  <2>1. Len(bytes) \in Nat /\ w.current \in Nat /\ w.current + 0 <= w.current + Len(bytes)
    BY DEF HasRoom, Writers
  <2>2. Len(w.output) \in Nat
    BY LenProperties DEF HasRoom, Writers
  <2>3. HasRoom(w, 0)
    BY <2>1, <2>2 DEF HasRoom
  <2> QED BY <2>1, <2>3, WrittenNone
<1>2. \A k \in Nat : k < Len(bytes) =>
        PutByte(Written(w, bytes, k), bytes[k + 1]) = Written(w, bytes, k + 1)
  BY WrittenOneMore
<1>3. PutsIn(h, w, bytes)
  <2>1. ASSUME NEW k \in 0 .. Len(bytes), k # 0
        PROVE  Written(w, bytes, k) = PutByte(h[k - 1], bytes[k])
    <3>1. k - 1 \in Nat /\ k - 1 \in 0 .. Len(bytes) /\ k - 1 < Len(bytes) /\ (k - 1) + 1 = k
      BY <1>1, <2>1
    <3>2. h[k - 1] = Written(w, bytes, k - 1)
      BY <3>1
    <3> HIDE DEF h
    <3> QED BY <1>2, <3>1, <3>2
  <2>2. \A k \in 0 .. Len(bytes) :
          Written(w, bytes, k) = IF k = 0 THEN w ELSE PutByte(h[k - 1], bytes[k])
    BY <1>1, <2>1
  <2> QED BY <2>2 DEF PutsIn
<1>4. PutsIn(g, w, bytes)
  <2> HIDE DEF h
  <2> QED BY <1>3
<1> HIDE DEF g, h
<1>5. /\ g[0] = w
      /\ \A k \in Nat : k < Len(bytes) => g[k + 1] = PutByte(g[k], bytes[k + 1])
  <2>1. g = [k \in 0 .. Len(bytes) |-> IF k = 0 THEN w ELSE PutByte(g[k - 1], bytes[k])]
    BY <1>4 DEF PutsIn
  <2>2. \A k \in 0 .. Len(bytes) : g[k] = IF k = 0 THEN w ELSE PutByte(g[k - 1], bytes[k])
    BY <2>1
  <2>3. g[0] = w
    BY <1>1, <2>2
  <2>4. ASSUME NEW k \in Nat, k < Len(bytes) PROVE g[k + 1] = PutByte(g[k], bytes[k + 1])
    <3>1. k + 1 \in 0 .. Len(bytes) /\ k + 1 # 0 /\ (k + 1) - 1 = k
      BY <1>1, <2>4
    <3>2. g[k + 1] = PutByte(g[(k + 1) - 1], bytes[k + 1])
      BY <2>2, <3>1
    <3> QED BY <3>1, <3>2
  <2> QED BY <2>3, <2>4
<1> DEFINE S == {k \in Nat : k <= Len(bytes) => g[k] = Written(w, bytes, k)}
<1>6. 0 \in S
  BY <1>1, <1>5
<1>7. \A k \in Nat : k \in S => k + 1 \in S
  <2>1. ASSUME NEW k \in Nat, k \in S, k + 1 <= Len(bytes)
        PROVE  g[k + 1] = Written(w, bytes, k + 1)
    <3>1. k < Len(bytes) /\ g[k] = Written(w, bytes, k)
      BY <1>1, <2>1
    <3> QED BY <1>2, <1>5, <3>1
  <2> QED BY <2>1
<1>8. Nat \subseteq S
  <2> HIDE DEF S
  <2> QED BY <1>6, <1>7, SetInduction
<1>9. g[Len(bytes)] = Written(w, bytes, Len(bytes))
  BY <1>1, <1>8
<1> QED BY <1>9, PutIsLast DEF g

\* What a reader of the writer may rely on.
LEMMA PutResult ==
  ASSUME NEW w, NEW bytes \in Seq(Value), HasRoom(w, Len(bytes))
  PROVE  /\ Put(w, bytes) \in Writers /\ Put(w, bytes).ok
         /\ Put(w, bytes).last = w.last
         /\ Put(w, bytes).current = w.current + Len(bytes)
         /\ Len(Put(w, bytes).output) = Len(w.output)
         /\ \A q \in 1 .. w.current : Put(w, bytes).output[q] = w.output[q]
         /\ \A k \in 1 .. Len(bytes) : Put(w, bytes).output[w.current + k] = bytes[k]
<1> DEFINE v == Written(w, bytes, Len(bytes))
<1>1. Put(w, bytes) = v
  BY PutWrites
<1>2. /\ w.current \in Nat /\ w.output \in Seq(Value) /\ Len(bytes) \in Nat
      /\ Len(w.output) \in Nat /\ w.last \in Int
      /\ w.current + Len(bytes) <= Len(w.output)
  BY LenProperties DEF HasRoom, Writers
<1>3. v.last = w.last /\ v.current = w.current + Len(bytes) /\ v.ok = TRUE
  BY DEF Written
<1>4. /\ DOMAIN v.output = 1 .. Len(w.output)
      /\ \A q \in 1 .. Len(w.output) : v.output[q] =
           IF q \in w.current + 1 .. w.current + Len(bytes) THEN bytes[q - w.current]
           ELSE w.output[q]
  BY DEF Written
<1>5. v = [output |-> v.output, current |-> v.current, last |-> v.last, ok |-> v.ok]
  BY DEF Written
<1> HIDE DEF v
<1>6. v.output \in Seq(Value) /\ Len(v.output) = Len(w.output)
  <2>1. ASSUME NEW q \in 1 .. Len(w.output) PROVE v.output[q] \in Value
    <3>1. w.output[q] \in Value
      BY <1>2
    <3>2. q \in w.current + 1 .. w.current + Len(bytes) => q - w.current \in 1 .. Len(bytes)
      BY <1>2
    <3>3. \A k \in 1 .. Len(bytes) : bytes[k] \in Value
      OBVIOUS
    <3> QED BY <1>4, <3>1, <3>2, <3>3
  <2>2. v.output = [q \in 1 .. Len(w.output) |-> v.output[q]]
    <3>1. v.output = [q \in DOMAIN v.output |-> v.output[q]]
      BY DEF v, Written
    <3> QED BY <1>4, <3>1
  <2>3. v.output \in [1 .. Len(w.output) -> Value]
    BY <2>1, <2>2
  <2> QED BY <1>2, <2>3, FunctionIsSequence
<1>7. v \in Writers
  <2>1. v.current \in Nat /\ v.last \in Int
    BY <1>2, <1>3
  <2>2. v.ok \in BOOLEAN
    BY <1>3, Zenon
  <2> QED BY <1>5, <1>6, <2>1, <2>2 DEF Writers
<1>8. ASSUME NEW q \in 1 .. w.current PROVE v.output[q] = w.output[q]
  <2>1. q \in 1 .. Len(w.output) /\ q \notin w.current + 1 .. w.current + Len(bytes)
    BY <1>2
  <2> QED BY <1>4, <2>1
<1>9. ASSUME NEW k \in 1 .. Len(bytes) PROVE v.output[w.current + k] = bytes[k]
  <2>1. /\ w.current + k \in 1 .. Len(w.output) /\ (w.current + k) - w.current = k
        /\ w.current + k \in w.current + 1 .. w.current + Len(bytes)
    BY <1>2
  <2> QED BY <1>4, <2>1
<1> QED BY <1>1, <1>3, <1>6, <1>7, <1>8, <1>9

-----------------------------------------------------------------------------
(* What the output of one run, and of literals in a row, consists of.       *)

LEMMA MinOfTwo ==
  ASSUME NEW a \in Int, NEW b \in Int
  PROVE  Min({a, b}) = IF a <= b THEN a ELSE b
<1> DEFINE m == IF a <= b THEN a ELSE b
<1>1. m \in {a, b} /\ \A y \in {a, b} : m <= y
  OBVIOUS
<1>2. \A x \in {a, b} : (\A y \in {a, b} : x <= y) => x = m
  OBVIOUS
<1> HIDE DEF m
<1>3. (CHOOSE x \in {a, b} : \A y \in {a, b} : x <= y) = m
  BY <1>1, <1>2
<1> QED BY <1>3 DEF Min, m

LEMMA MaxOfTwo ==
  ASSUME NEW a \in Int, NEW b \in Int
  PROVE  Max({a, b}) = IF a <= b THEN b ELSE a
<1> DEFINE m == IF a <= b THEN b ELSE a
<1>1. m \in {a, b} /\ \A y \in {a, b} : m >= y
  OBVIOUS
<1>2. \A x \in {a, b} : (\A y \in {a, b} : x >= y) => x = m
  OBVIOUS
<1> HIDE DEF m
<1>3. (CHOOSE x \in {a, b} : \A y \in {a, b} : x >= y) = m
  BY <1>1, <1>2
<1> QED BY <1>3 DEF Max, m

LEMMA StoredInRange ==
  ASSUME NEW len \in 1 .. LENGTH
  PROVE  /\ StoredLength(len) \in Value
         /\ StoredLength(len) = LENGTH + 1 <=> len = 1
         /\ StoredLength(len) = 1 <=> len = Newline
         /\ len # 1 /\ len # Newline => StoredLength(len) = len
BY Constants DEF StoredLength, Value

LEMMA TimesStep ==
  ASSUME NEW m \in Nat, NEW j \in Nat, NEW q \in Nat, j < q
  PROVE  m * j + m <= m * q /\ m * j \in Nat
<1>1. j + 1 \in Nat /\ j + 1 <= q
  OBVIOUS
<1>2. (j + 1) * m <= q * m
  BY <1>1, TimesMonotone
<1>3. (j + 1) * m = m * j + m /\ q * m = m * q /\ m * j \in Nat
  OBVIOUS
<1> QED BY <1>2, <1>3

\* How many of n things the part number j tells, when each part but the last,
\* number q, tells m of them.
Share(n, m, q, j) == IF j < q THEN m ELSE n - m * q

LEMMA Parts ==
  ASSUME NEW n \in Positive, NEW m \in Positive, NEW q, q = (n - 1) \div m
  PROVE  /\ q \in Nat /\ m * q \in Nat /\ m * q < n /\ n <= m * q + m
         /\ \A j \in 0 .. q : Share(n, m, q, j) \in 1 .. m
<1>1. /\ n - 1 \in Nat /\ q \in Nat /\ (n - 1) % m \in Nat /\ (n - 1) % m < m
      /\ n - 1 = m * q + ((n - 1) % m) /\ m \in Nat /\ m # 0
  BY DivMod DEF Positive
<1>2. m * q \in Nat
  BY <1>1
<1>3. m * q < n /\ n <= m * q + m
  BY <1>1, <1>2 DEF Positive
<1> QED BY <1>1, <1>2, <1>3 DEF Share, Positive

LEMMA RepeatedParts ==
  ASSUME NEW b \in Value, NEW n \in Positive, NEW q, q = (n - 1) \div LENGTH
  PROVE  /\ q \in Nat /\ RunSize(n) = 2 * (q + 1)
         /\ Repeated(b, n) \in Seq(Value) /\ Len(Repeated(b, n)) = RunSize(n)
         /\ \A j \in 0 .. q :
              /\ Repeated(b, n)[2 * j + 1] = StoredLength(Share(n, LENGTH, q, j))
              /\ Repeated(b, n)[2 * j + 2] = b
<1>1. q \in Nat /\ \A j \in 0 .. q : Share(n, LENGTH, q, j) \in 1 .. LENGTH
  BY Parts, Constants
<1>2. RunSize(n) = 2 * (q + 1) /\ RunSize(n) \in Nat
  BY <1>1 DEF RunSize, number_time_bigger_then_length
<1>3. Repeated(b, n) = [k \in 1 .. RunSize(n) |->
        IF k % 2 = 0 THEN b
        ELSE IF k <= 2 * q THEN StoredLength(LENGTH)
        ELSE StoredLength(n - q * LENGTH)]
  BY DEF Repeated, RunSize
<1>4. q * LENGTH = LENGTH * q
  BY <1>1, Constants
<1>5. LENGTH \in 1 .. LENGTH /\ Share(n, LENGTH, q, q) = n - q * LENGTH
  BY <1>1, <1>4, Constants DEF Share
<1>6. n - q * LENGTH \in 1 .. LENGTH
  BY <1>1, <1>5
<1>7. \A k \in 1 .. RunSize(n) : Repeated(b, n)[k] \in Value
  BY <1>3, <1>5, <1>6, StoredInRange
<1>8. Repeated(b, n) \in [1 .. RunSize(n) -> Value]
  BY <1>3, <1>7
<1>9. ASSUME NEW j \in 0 .. q
      PROVE  /\ Repeated(b, n)[2 * j + 1] = StoredLength(Share(n, LENGTH, q, j))
             /\ Repeated(b, n)[2 * j + 2] = b
  <2>1. /\ 2 * j + 1 \in 1 .. RunSize(n) /\ 2 * j + 2 \in 1 .. RunSize(n)
        /\ (2 * j + 1) % 2 # 0 /\ (2 * j + 2) % 2 = 0
        /\ 2 * j + 1 <= 2 * q <=> j < q
    BY <1>1, <1>2
  <2>2. Repeated(b, n)[2 * j + 2] = b
    BY <1>3, <2>1
  <2>3. Repeated(b, n)[2 * j + 1] =
          IF j < q THEN StoredLength(LENGTH) ELSE StoredLength(n - q * LENGTH)
    BY <1>3, <2>1
  <2> QED BY <1>4, <2>2, <2>3 DEF Share
<1> QED BY <1>1, <1>2, <1>8, <1>9, FunctionIsSequence

\* The literals that come from the bytes, and their lengths.
\* The lengths among the literals and the bytes they are followed by.
LaidOut(literals, bytes, n, m, q) ==
  \A j \in 0 .. q :
    /\ literals[LENGTH * j + 1] = LENGTH + Share(n, m, q, j)
    /\ \A y \in 1 .. Share(n, m, q, j) :
         literals[LENGTH * j + 1 + y] = bytes[m * j + y]

LEMMA LiteralsIn ==
  ASSUME NEW V, Value \subseteq V, NEW bytes \in Seq(V), NEW n \in Positive, n = Len(bytes),
         NEW q, q = (n - 1) \div (LENGTH - 1)
  PROVE  /\ q \in Nat /\ OnesSize(n) = n + 1 + q
         /\ Literals(bytes) \in Seq(V) /\ Len(Literals(bytes)) = OnesSize(n)
         /\ LaidOut(Literals(bytes), bytes, n, LENGTH - 1, q)
<1> DEFINE m == LENGTH - 1
<1>1. m \in Nat /\ m # 0 /\ m >= 2 /\ LENGTH = m + 1 /\ n \in Nat /\ n # 0
  BY Constants DEF Positive
<1>2. /\ q \in Nat /\ m * q \in Nat /\ m * q < n /\ n <= m * q + m
      /\ \A j \in 0 .. q : Share(n, m, q, j) \in 1 .. m
  BY Parts, Constants
<1> HIDE DEF m
<1>3. OnesSize(n) = n + 1 + q /\ OnesSize(n) \in Nat
  <2>1. OnesSize(n) = n + 1 + q
    BY DEF OnesSize
  <2>2. n \in Nat /\ q \in Nat
    BY <1>1, <1>2
  <2> QED BY <2>1, <2>2
<1>4. Literals(bytes) = [k \in 1 .. OnesSize(n) |->
        LET chunk == (k - 1) \div LENGTH
        IN IF (k - 1) % LENGTH = 0 THEN OnesLength(n - chunk * m)
           ELSE bytes[k - 1 - chunk]]
  <2>1. bytes # <<>>
    BY <1>1
  <2> QED BY <2>1 DEF Literals, m
<1>5. ASSUME NEW j \in 0 .. q, NEW y \in 0 .. Share(n, m, q, j)
      PROVE  /\ LENGTH * j + 1 + y \in 1 .. OnesSize(n)
             /\ (LENGTH * j + y) \div LENGTH = j /\ (LENGTH * j + y) % LENGTH = y
             /\ m * j \in Nat /\ LENGTH * j = m * j + j
             /\ m * j + Share(n, m, q, j) <= n
  <2>1. /\ y \in Nat /\ y <= m /\ j \in Nat /\ j <= q /\ Share(n, m, q, j) \in 1 .. m
        /\ y <= Share(n, m, q, j)
    BY <1>1, <1>2
  <2>2. m * j \in Nat /\ LENGTH * j = m * j + j
    <3>1. (m + 1) * j = m * j + j
      BY <1>1, <2>1
    <3> QED BY <1>1, <2>1, <3>1
  <2>3. j < q => m * j + m <= m * q
    BY <1>1, <1>2, <2>1, TimesStep
  <2>4. m * j + Share(n, m, q, j) <= n
    <3>1. CASE j < q
      BY <1>1, <1>2, <2>2, <2>3, <3>1 DEF Share
    <3>2. CASE j = q
      BY <1>1, <1>2, <2>2, <3>2 DEF Share
    <3> QED BY <1>2, <2>1, <3>1, <3>2
  <2>5. LENGTH * j + 1 + y \in 1 .. OnesSize(n)
    <3> DEFINE a == LENGTH * j
               b == m * j
               h == Share(n, m, q, j)
    <3>1. a = b + j /\ b \in Nat /\ b + h <= n /\ h \in Nat /\ y <= h
      BY <1>1, <2>1, <2>2, <2>4
    <3> HIDE DEF a, b, h
    <3>2. a + 1 + y >= 1 /\ a + 1 + y <= n + 1 + q /\ a + 1 + y \in Int
      BY <1>1, <1>2, <2>1, <3>1
    <3> QED BY <1>3, <3>2 DEF a
  <2>6. y < LENGTH
    BY <1>1, <2>1
  <2>7. (LENGTH * j + y) \div LENGTH = j /\ (LENGTH * j + y) % LENGTH = y
    BY <2>1, <2>6, Constants, DivUnique
  <2> QED BY <2>2, <2>4, <2>5, <2>7
<1>6. ASSUME NEW j \in 0 .. q
      PROVE  /\ Literals(bytes)[LENGTH * j + 1] = LENGTH + Share(n, m, q, j)
             /\ \A y \in 1 .. Share(n, m, q, j) :
                  Literals(bytes)[LENGTH * j + 1 + y] = bytes[m * j + y]
  <2>1. /\ 0 \in 0 .. Share(n, m, q, j) /\ j \in Nat /\ Share(n, m, q, j) \in 1 .. m
        /\ LENGTH * j \in Nat /\ m * j \in Nat
    BY <1>1, <1>2, Constants
  <2>2. Literals(bytes)[LENGTH * j + 1] = OnesLength(n - j * m)
    <3>1. /\ LENGTH * j + 1 + 0 \in 1 .. OnesSize(n)
          /\ (LENGTH * j + 0) \div LENGTH = j /\ (LENGTH * j + 0) % LENGTH = 0
      BY <1>5, <2>1
    <3>2. LENGTH * j + 1 + 0 = LENGTH * j + 1 /\ LENGTH * j + 0 = (LENGTH * j + 1) - 1
      BY <2>1
    <3> QED BY <1>4, <3>1, <3>2
  <2>3. OnesLength(n - j * m) = LENGTH + Share(n, m, q, j)
    <3>1. j * m = m * j /\ n - j * m \in Int
      BY <1>1, <2>1
    <3>2. OnesLength(n - j * m) = LENGTH + (IF n - m * j <= m THEN n - m * j ELSE m)
      <4>1. Min({n - j * m, m}) = IF n - j * m <= m THEN n - j * m ELSE m
        BY <1>1, <3>1, MinOfTwo
      <4> QED BY <3>1, <4>1 DEF OnesLength, m
    <3>3. CASE j < q
      <4>0. j * m = m * j
        BY <1>1, <2>1
      <4>1. m * j + m <= m * q /\ j * m = m * j
        BY <1>1, <1>2, <2>1, <3>3, <4>0, TimesStep
      <4>2. n - j * m > m
        BY <1>1, <1>2, <2>1, <4>1
      <4>3. Min({n - j * m, m}) = m
        BY <1>1, <3>1, <4>2, MinOfTwo
      <4> QED BY <3>3, <4>3 DEF Share, OnesLength, m
    <3>4. CASE j = q
      BY <1>1, <1>2, <2>1, <3>2, <3>4 DEF Share
    <3> QED BY <1>2, <2>1, <3>3, <3>4
  <2>4. ASSUME NEW y \in 1 .. Share(n, m, q, j)
        PROVE  Literals(bytes)[LENGTH * j + 1 + y] = bytes[m * j + y]
    <3>1. y \in 0 .. Share(n, m, q, j) /\ y # 0 /\ y \in Nat
      BY <2>1
    <3>2. /\ LENGTH * j + 1 + y \in 1 .. OnesSize(n)
          /\ (LENGTH * j + y) \div LENGTH = j /\ (LENGTH * j + y) % LENGTH = y
          /\ LENGTH * j = m * j + j
      BY <1>5, <3>1
    <3>3. /\ (LENGTH * j + 1 + y) - 1 = LENGTH * j + y
          /\ LENGTH * j + 1 + y - 1 - j = m * j + y
      <4>1. PICK a, b : a = LENGTH * j /\ b = m * j
        OBVIOUS
      <4>2. a = b + j /\ j \in Nat /\ y \in Nat
        BY <2>1, <3>1, <3>2, <4>1
      <4>3. b \in Nat
        BY <1>5, <3>1, <4>1
      <4>4. (a + 1 + y) - 1 = a + y /\ a + 1 + y - 1 - j = b + y
        BY <4>2, <4>3
      <4> QED BY <4>1, <4>4
    <3> DEFINE k == LENGTH * j + 1 + y
    <3>4. k \in 1 .. OnesSize(n) /\ (k - 1) \div LENGTH = j /\ (k - 1) % LENGTH # 0
      BY <3>1, <3>2, <3>3
    <3>5. Literals(bytes)[k] = bytes[k - 1 - j]
      <4> HIDE DEF k
      <4> QED BY <1>4, <3>4
    <3> HIDE DEF k
    <3>6. k - 1 - j = m * j + y
      <4> DEFINE a == LENGTH * j
                 b == m * j
      <4>1. k = a + 1 + y /\ a = b + j /\ b \in Nat
        BY <2>1, <3>2 DEF k
      <4> HIDE DEF a, b
      <4>2. k - 1 - j = b + y
        BY <2>1, <3>1, <4>1
      <4> QED BY <4>2 DEF b
    <3>7. Literals(bytes)[k] = bytes[m * j + y]
      BY <3>5, <3>6
    <3> QED BY <3>7 DEF k
  <2> QED BY <2>2, <2>3, <2>4
<1>7. \A k \in 1 .. OnesSize(n) : Literals(bytes)[k] \in V
  <2>1. SUFFICES ASSUME NEW k \in 1 .. OnesSize(n) PROVE Literals(bytes)[k] \in V
    OBVIOUS
  <2> DEFINE j == (k - 1) \div LENGTH
             y == (k - 1) % LENGTH
  <2>2. k - 1 \in Nat /\ k - 1 <= n + q
    BY <1>3
  <2>3. j \in Nat /\ y \in Nat /\ y < LENGTH /\ k - 1 = LENGTH * j + y
    BY <2>2, Constants, DivMod
  <2> HIDE DEF j, y
  <2>4. LENGTH * j = m * j + j /\ m * j \in Nat
    <3>1. (m + 1) * j = m * j + j
      BY <1>1, <2>3
    <3> QED BY <1>1, <2>3, <3>1
  <2>5. j <= q
    <3>1. SUFFICES ASSUME q + 1 <= j PROVE FALSE
      BY <1>2, <2>3
    <3>2. q < j
      BY <1>2, <2>3, <3>1
    <3>3. m * q + m <= m * j
      BY <1>1, <1>2, <2>3, <3>2, TimesStep
    <3> DEFINE a == LENGTH * j
               b == m * j
               c == m * q
    <3>4. /\ c + m <= b /\ a = b + j /\ b \in Nat /\ c \in Nat
          /\ k - 1 = a + y /\ n <= c + m
      BY <1>2, <2>3, <2>4, <3>3
    <3> HIDE DEF a, b, c
    <3> QED BY <1>1, <1>2, <2>2, <2>3, <3>1, <3>4
  <2>6. y <= Share(n, m, q, j)
    <3>1. CASE j < q
      BY <1>1, <2>3, <3>1 DEF Share
    <3>2. CASE j = q
      <4> DEFINE a == LENGTH * j
                 b == m * j
      <4>1. a = b + j /\ b \in Nat /\ k - 1 = a + y /\ y \in Nat
        BY <2>3, <2>4
      <4>2. Share(n, m, q, j) = n - b
        BY <3>2 DEF Share
      <4>3. j = q /\ q \in Nat /\ k - 1 <= n + q /\ n \in Nat
        BY <1>1, <1>2, <2>2, <3>2
      <4> HIDE DEF a, b
      <4>4. y <= n - b
        <5>1. PICK x : x = k - 1
          OBVIOUS
        <5>2. x = (b + q) + y /\ x <= n + q /\ q \in Nat /\ n \in Nat /\ b \in Nat /\ y \in Nat
          BY <4>1, <4>3, <5>1
        <5> HIDE DEF y
        <5> QED BY <5>2
      <4> QED BY <4>2, <4>4
    <3> QED BY <1>2, <2>3, <2>5, <3>1, <3>2
  <2>7. j \in 0 .. q /\ Share(n, m, q, j) \in 1 .. m
    BY <1>2, <2>3, <2>5
  <2>8. k = LENGTH * j + 1 + y /\ LENGTH * j \in Nat
    <3>1. LENGTH * j \in Nat
      BY <2>3, Constants
    <3> DEFINE a == LENGTH * j
    <3> HIDE DEF a
    <3>2. a \in Nat /\ k - 1 = a + y
      BY <2>3, <3>1 DEF a
    <3>3. k = a + 1 + y
      BY <1>3, <2>1, <2>3, <3>2
    <3> QED BY <3>1, <3>3 DEF a
  <2>9. CASE y = 0
    <3>1. Literals(bytes)[k] = LENGTH + Share(n, m, q, j)
      BY <1>6, <2>7, <2>8, <2>9
    <3> QED BY <1>1, <2>7, <3>1 DEF Value
  <2>10. CASE y # 0
    <3>1. y \in 1 .. Share(n, m, q, j)
      BY <2>3, <2>6, <2>7, <2>10
    <3>2. Literals(bytes)[k] = bytes[m * j + y]
      BY <1>6, <2>7, <2>8, <3>1
    <3>3. m * j + y \in 1 .. n
      <4>1. m * j + Share(n, m, q, j) <= n
        BY <1>5, <2>7, <3>1, <2>6
      <4> QED BY <1>1, <2>4, <2>7, <3>1, <4>1
    <3> QED BY <3>2, <3>3
  <2> QED BY <2>9, <2>10
<1>8. Literals(bytes) \in [1 .. OnesSize(n) -> V]
  BY <1>4, <1>7
<1>9. Literals(bytes) \in Seq(V) /\ Len(Literals(bytes)) = OnesSize(n)
  BY <1>3, <1>8, FunctionIsSequence
<1>10. LaidOut(Literals(bytes), bytes, n, m, q)
  BY <1>6 DEF LaidOut
<1> QED BY <1>2, <1>3, <1>9, <1>10 DEF m

LEMMA LiteralsParts ==
  ASSUME NEW bytes \in Seq(Value), NEW n \in Positive, n = Len(bytes),
         NEW q, q = (n - 1) \div (LENGTH - 1)
  PROVE  /\ q \in Nat /\ OnesSize(n) = n + 1 + q
         /\ Literals(bytes) \in Seq(Value) /\ Len(Literals(bytes)) = OnesSize(n)
         /\ LaidOut(Literals(bytes), bytes, n, LENGTH - 1, q)
<1>1. Value \subseteq Value
  OBVIOUS
<1> QED BY <1>1, LiteralsIn

-----------------------------------------------------------------------------
(* Decoding: the first at bytes of the output f tell the first told bytes   *)
(* of the input data.                                                       *)

Place(at, told) == [at |-> at, told |-> told]
Places == [at : Nat, told : Nat]

\* The bytes of f between the places are one length and what it is followed by,
\* and tell the bytes of data between them.
Token(data, f, k, l) ==
  LET c == f[k.at + 1]
  IN \/ /\ c \in 1 .. LENGTH /\ c # Newline
        /\ l = Place(k.at + 2, k.told + (IF c = 1 THEN Newline ELSE c))
        /\ \A y \in k.told + 1 .. l.told : data[y] = f[k.at + 2]
     \/ /\ c \in LENGTH + 1 .. 2 * LENGTH - 1
        /\ l = Place(k.at + 1 + (c - LENGTH), k.told + (c - LENGTH))
        /\ \A y \in 1 .. c - LENGTH : data[k.told + y] = f[k.at + 1 + y]

\* The set K has the ends of the tokens of f on the way between the places.
Chain(K, data, f, from, to) ==
  /\ K \subseteq Places /\ from \in K /\ to \in K
  /\ \A k \in K : /\ from.at <= k.at /\ k.at <= to.at
                  /\ k.at = to.at => k = to
                  /\ k.at # to.at => \E l \in K : Token(data, f, k, l)

Coded(data, f, at, told) ==
  /\ at \in Nat /\ told \in Nat
  /\ \E K \in SUBSET Places : Chain(K, data, f, Place(0, 0), Place(at, told))

\* A token does not see the bytes after it.
LEMMA TokenKept ==
  ASSUME NEW data, NEW f, NEW g, NEW k \in Places, NEW l \in Places,
         Token(data, f, k, l), \A q \in 1 .. l.at : g[q] = f[q]
  PROVE  Token(data, g, k, l) /\ k.at < l.at
<1> DEFINE c == f[k.at + 1]
<1>1. k.at \in Nat /\ k.told \in Nat /\ l.at \in Nat /\ l.told \in Nat
  BY DEF Places
<1>2. CASE c \in 1 .. LENGTH
  <2>1. /\ c # Newline /\ l = Place(k.at + 2, k.told + (IF c = 1 THEN Newline ELSE c))
        /\ \A y \in k.told + 1 .. l.told : data[y] = f[k.at + 2]
    BY <1>2, Constants DEF Token
  <2>2. l.at = k.at + 2
    BY <2>1 DEF Place
  <2>3. g[k.at + 1] = c /\ g[k.at + 2] = f[k.at + 2] /\ k.at < l.at
    BY <1>1, <2>2
  <2> HIDE DEF c
  <2> QED BY <1>2, <2>1, <2>3 DEF Token
<1>3. CASE c \notin 1 .. LENGTH
  <2>1. /\ c \in LENGTH + 1 .. 2 * LENGTH - 1
        /\ l = Place(k.at + 1 + (c - LENGTH), k.told + (c - LENGTH))
        /\ \A y \in 1 .. c - LENGTH : data[k.told + y] = f[k.at + 1 + y]
    BY <1>3 DEF Token
  <2>2. l.at = k.at + 1 + (c - LENGTH) /\ c - LENGTH \in Nat /\ c - LENGTH >= 1
    BY <2>1, Constants DEF Place
  <2>3. g[k.at + 1] = c /\ k.at < l.at
    BY <1>1, <2>2
  <2>4. \A y \in 1 .. c - LENGTH : g[k.at + 1 + y] = f[k.at + 1 + y]
    BY <1>1, <2>2
  <2> HIDE DEF c
  <2> QED BY <2>1, <2>3, <2>4 DEF Token
<1> QED BY <1>2, <1>3

\* Nothing is told by nothing.
LEMMA NothingCoded ==
  ASSUME NEW data, NEW f
  PROVE  Coded(data, f, 0, 0)
<1>1. Place(0, 0) \in Places
  BY DEF Place, Places
<1>2. Chain({Place(0, 0)}, data, f, Place(0, 0), Place(0, 0))
  BY <1>1 DEF Chain, Place
<1> QED BY <1>1, <1>2 DEF Coded

\* What was coded stays so when more is written after it.
LEMMA CodedMore ==
  ASSUME NEW data, NEW f, NEW g, NEW at, NEW told, Coded(data, f, at, told),
         \A q \in 1 .. at : g[q] = f[q],
         NEW at2 \in Nat, NEW told2 \in Nat, NEW L \in SUBSET Places,
         Chain(L, data, g, Place(at, told), Place(at2, told2))
  PROVE  Coded(data, g, at2, told2)
<1>1. PICK K \in SUBSET Places : Chain(K, data, f, Place(0, 0), Place(at, told))
  BY DEF Coded
<1> DEFINE o == Place(0, 0)
           m == Place(at, told)
           e == Place(at2, told2)
<1>2. /\ at \in Nat /\ told \in Nat /\ o \in Places /\ m \in Places /\ e \in Places
      /\ o.at = 0 /\ m.at = at /\ e.at = at2
  BY DEF Coded, Place, Places
<1> HIDE DEF o, m, e
<1>3. /\ o \in K /\ m \in K
      /\ \A k \in K : /\ o.at <= k.at /\ k.at <= m.at
                      /\ k.at = m.at => k = m
                      /\ k.at # m.at => \E l \in K : Token(data, f, k, l)
  BY <1>1 DEF Chain, o, m
<1>4. /\ m \in L /\ e \in L
      /\ \A k \in L : /\ m.at <= k.at /\ k.at <= e.at
                      /\ k.at = e.at => k = e
                      /\ k.at # e.at => \E l \in L : Token(data, g, k, l)
  BY DEF Chain, m, e
<1> DEFINE M == K \cup L
<1>5. ASSUME NEW k \in M
      PROVE  /\ o.at <= k.at /\ k.at <= e.at
             /\ k.at = e.at => k = e
             /\ k.at # e.at => \E l \in M : Token(data, g, k, l)
  <2>0. \A p \in Places : p.at \in Nat
    BY DEF Places
  <2>1. CASE k \in L
    BY <1>2, <1>4, <2>0, <2>1
  <2>2. CASE k \in K /\ k # m
    <3>1. k.at # m.at /\ k.at <= m.at /\ m.at <= e.at /\ o.at <= k.at /\ k.at \in Nat
      BY <1>3, <1>4, <2>0, <2>2
    <3>2. PICK l \in K : Token(data, f, k, l)
      BY <1>3, <2>2, <3>1
    <3>3. \A q \in 1 .. l.at : g[q] = f[q]
      BY <1>2, <1>3, <2>0
    <3>4. Token(data, g, k, l)
      BY <2>2, <3>2, <3>3, TokenKept
    <3>5. k.at # e.at /\ k.at <= e.at
      BY <1>2, <3>1
    <3> QED BY <3>1, <3>4, <3>5
  <2>3. CASE k = m
    BY <1>4, <2>1, <2>3
  <2> QED BY <2>1, <2>2, <2>3
<1>6. M \in SUBSET Places /\ o \in M /\ e \in M
  BY <1>3, <1>4
<1>7. Chain(M, data, g, o, e)
  <2> HIDE DEF M
  <2> QED BY <1>5, <1>6 DEF Chain
<1> QED BY <1>6, <1>7 DEF Coded, o, e

LEMMA CodedKept ==
  ASSUME NEW data, NEW f, NEW g, NEW at, NEW told, Coded(data, f, at, told),
         \A q \in 1 .. at : g[q] = f[q]
  PROVE  Coded(data, g, at, told)
<1>1. at \in Nat /\ told \in Nat
  BY DEF Coded
<1>2. Place(at, told) \in Places
  BY <1>1 DEF Place, Places
<1>3. Chain({Place(at, told)}, data, g, Place(at, told), Place(at, told))
  BY <1>1, <1>2 DEF Chain, Place
<1>4. {Place(at, told)} \in SUBSET Places
  BY <1>2
<1> QED BY <1>1, <1>3, <1>4, CodedMore, Zenon

\* Tokens one after the other make a chain.
LEMMA ChainOf ==
  ASSUME NEW data, NEW f, NEW m \in Nat, NEW P \in [0 .. m -> Places],
         \A j \in 0 .. m - 1 : P[j].at < P[j + 1].at /\ Token(data, f, P[j], P[j + 1])
  PROVE  Chain({P[j] : j \in 0 .. m}, data, f, P[0], P[m])
<1> DEFINE K == {P[j] : j \in 0 .. m}
           S == {d \in Nat : \A j \in 0 .. m : j + d <= m => P[j].at + d <= P[j + d].at}
<1>0. \A j \in 0 .. m : P[j].at \in Nat
  BY DEF Places
<1>1. 0 \in S
  <2>1. \A j \in 0 .. m : P[j].at + 0 <= P[j + 0].at
    BY <1>0
  <2> QED BY <2>1
<1>2. \A d \in Nat : d \in S => d + 1 \in S
  <2>1. ASSUME NEW d \in Nat, d \in S, NEW j \in 0 .. m, j + (d + 1) <= m
        PROVE  P[j].at + (d + 1) <= P[j + (d + 1)].at
    <3>1. j + d \in 0 .. m - 1 /\ j + d \in 0 .. m /\ (j + d) + 1 = j + (d + 1)
          /\ j + (d + 1) \in 0 .. m
      BY <2>1
    <3>2. P[j].at + d <= P[j + d].at
      BY <2>1, <3>1
    <3>3. P[j + d].at < P[j + (d + 1)].at
      BY <3>1
    <3> QED BY <1>0, <3>1, <3>2, <3>3
  <2>2. ASSUME NEW d \in Nat, d \in S PROVE d + 1 \in S
    <3>1. \A j \in 0 .. m : j + (d + 1) <= m => P[j].at + (d + 1) <= P[j + (d + 1)].at
      BY <2>1, <2>2
    <3> QED BY <3>1
  <2> QED BY <2>2
<1>3. Nat \subseteq S
  <2> HIDE DEF S
  <2> QED BY <1>1, <1>2, SetInduction
<1>4. \A j \in 0 .. m, k \in 0 .. m : j < k => P[j].at < P[k].at
  <2>1. SUFFICES ASSUME NEW j \in 0 .. m, NEW k \in 0 .. m, j < k PROVE P[j].at < P[k].at
    OBVIOUS
  <2>2. k - j \in Nat /\ k - j > 0 /\ j + (k - j) = k
    BY <2>1
  <2>3. k - j \in S
    BY <1>3, <2>2
  <2>4. P[j].at + (k - j) <= P[j + (k - j)].at
    BY <2>2, <2>3
  <2>5. P[j + (k - j)] = P[k]
    BY <2>2
  <2> QED BY <1>0, <2>2, <2>4, <2>5
<1> HIDE DEF S
<1>5. 0 \in 0 .. m /\ m \in 0 .. m /\ K \subseteq Places /\ P[0] \in K /\ P[m] \in K
  OBVIOUS
<1>6. ASSUME NEW k \in K
      PROVE  /\ P[0].at <= k.at /\ k.at <= P[m].at
             /\ k.at = P[m].at => k = P[m]
             /\ k.at # P[m].at => \E l \in K : Token(data, f, k, l)
  <2>1. PICK j \in 0 .. m : k = P[j]
    OBVIOUS
  <2>2. P[0].at <= k.at
    BY <1>0, <1>4, <1>5, <2>1
  <2>3. CASE j = m
    BY <1>0, <2>1, <2>2, <2>3
  <2>4. CASE j # m
    <3>1. j < m /\ j \in 0 .. m - 1 /\ j + 1 \in 0 .. m
      BY <2>4
    <3>2. k.at < P[m].at
      BY <1>4, <1>5, <2>1, <3>1
    <3>3. P[j + 1] \in K /\ Token(data, f, k, P[j + 1])
      BY <2>1, <3>1
    <3> QED BY <1>0, <1>5, <2>1, <2>2, <3>2, <3>3
  <2> QED BY <2>3, <2>4
<1> HIDE DEF K
<1>7. Chain(K, data, f, P[0], P[m])
  BY <1>5, <1>6 DEF Chain
<1> QED BY <1>7 DEF K

\* How much of the n things the parts before number j have told.
Taken(n, m, q, j) == IF j <= q THEN m * j ELSE n

PartsTaken(n, m, q) ==
  /\ q \in Nat /\ Taken(n, m, q, 0) = 0 /\ Taken(n, m, q, q + 1) = n
  /\ \A j \in 0 .. q + 1 : Taken(n, m, q, j) \in Nat
  /\ \A j \in 0 .. q :
       /\ Share(n, m, q, j) \in 1 .. m
       /\ Taken(n, m, q, j) = m * j
       /\ Taken(n, m, q, j + 1) = Taken(n, m, q, j) + Share(n, m, q, j)
       /\ Taken(n, m, q, j + 1) <= n

LEMMA TakenNext ==
  ASSUME NEW n \in Positive, NEW m \in Positive, NEW q, q = (n - 1) \div m
  PROVE  PartsTaken(n, m, q)
<1>1. /\ q \in Nat /\ m * q \in Nat /\ m * q < n /\ n <= m * q + m
      /\ \A j \in 0 .. q : Share(n, m, q, j) \in 1 .. m
  BY Parts
<1>2. n \in Nat /\ m \in Nat /\ m * 0 = 0 /\ \A j \in Nat : m * j \in Nat
  BY DEF Positive
<1>3. Taken(n, m, q, 0) = 0 /\ Taken(n, m, q, q + 1) = n
  BY <1>1, <1>2 DEF Taken
<1>4. \A j \in 0 .. q + 1 : Taken(n, m, q, j) \in Nat
  BY <1>1, <1>2 DEF Taken
<1>5. ASSUME NEW j \in 0 .. q
      PROVE  /\ Taken(n, m, q, j) = m * j
             /\ Taken(n, m, q, j + 1) = Taken(n, m, q, j) + Share(n, m, q, j)
             /\ Taken(n, m, q, j + 1) <= n
  <2>1. j \in Nat /\ j + 1 \in Nat /\ m * j \in Nat
    BY <1>1, <1>2
  <2>2. Taken(n, m, q, j) = m * j
    BY DEF Taken
  <2>3. CASE j < q
    <3>1. Taken(n, m, q, j + 1) = m * (j + 1) /\ Share(n, m, q, j) = m
      BY <1>1, <2>1, <2>3 DEF Taken, Share
    <3>2. m * (j + 1) = m * j + m
      BY <1>2, <2>1
    <3>3. m * j + m <= m * q
      BY <1>1, <1>2, <2>1, <2>3, TimesStep
    <3>4. Taken(n, m, q, j + 1) <= n
      BY <1>1, <1>2, <3>1, <3>2, <3>3
    <3> QED BY <2>2, <3>1, <3>2, <3>4
  <2>4. CASE j = q
    <3>1. Taken(n, m, q, j + 1) = n /\ Share(n, m, q, j) = n - m * q
      BY <1>1, <2>4 DEF Taken, Share
    <3>2. m * q + (n - m * q) = n
      BY <1>1, <1>2
    <3> QED BY <1>2, <2>2, <2>4, <3>1, <3>2
  <2> QED BY <1>1, <2>3, <2>4
<1> QED BY <1>1, <1>3, <1>4, <1>5 DEF PartsTaken

LEMMA RunToken ==
  ASSUME NEW data, NEW f, NEW a \in Nat, NEW t \in Nat, NEW len \in 1 .. LENGTH,
         f[a + 1] = StoredLength(len),
         \A y \in 1 .. len : data[t + y] = f[a + 2]
  PROVE  Token(data, f, Place(a, t), Place(a + 2, t + len))
<1>1. Place(a, t).at = a /\ Place(a, t).told = t /\ Place(a + 2, t + len).told = t + len
  BY DEF Place
<1>2. \A y \in t + 1 .. t + len : data[y] = f[a + 2]
  <2>1. ASSUME NEW y \in t + 1 .. t + len PROVE data[y] = f[a + 2]
    <3>1. y - t \in 1 .. len /\ t + (y - t) = y
      BY <2>1
    <3> QED BY <3>1
  <2> QED BY <2>1
<1>3. CASE len = 1
  <2>1. f[a + 1] = LENGTH + 1 /\ (LENGTH + 1) - LENGTH = 1 /\ a + 1 + 1 = a + 2
    BY <1>3, StoredInRange, Constants
  <2>2. LENGTH + 1 \in LENGTH + 1 .. 2 * LENGTH - 1
    BY Constants
  <2>3. \A y \in 1 .. 1 : data[t + y] = f[a + 1 + y]
    BY <1>3, <2>1
  <2> QED BY <1>1, <1>3, <2>1, <2>2, <2>3 DEF Token
<1>4. CASE len # 1
  <2>1. /\ f[a + 1] \in 1 .. LENGTH /\ f[a + 1] # Newline
        /\ len = IF f[a + 1] = 1 THEN Newline ELSE f[a + 1]
    BY <1>4, StoredInRange, Constants
  <2> QED BY <1>1, <1>2, <2>1 DEF Token
<1> QED BY <1>3, <1>4

LEMMA OnesToken ==
  ASSUME NEW data, NEW f, NEW a \in Nat, NEW t \in Nat, NEW len \in 1 .. LENGTH - 1,
         f[a + 1] = LENGTH + len,
         \A y \in 1 .. len : data[t + y] = f[a + 1 + y]
  PROVE  Token(data, f, Place(a, t), Place(a + 1 + len, t + len))
<1>1. Place(a, t).at = a /\ Place(a, t).told = t
  BY DEF Place
<1>2. LENGTH + len \in LENGTH + 1 .. 2 * LENGTH - 1 /\ (LENGTH + len) - LENGTH = len
  BY Constants
<1> QED BY <1>1, <1>2 DEF Token

LEMMA RunCoded ==
  ASSUME NEW data, NEW g, NEW at \in Nat, NEW told \in Nat,
         NEW b \in Value, NEW n \in Positive,
         \A k \in 1 .. RunSize(n) : g[at + k] = Repeated(b, n)[k],
         \A y \in 1 .. n : data[told + y] = b
  PROVE  \E L \in SUBSET Places :
           Chain(L, data, g, Place(at, told), Place(at + RunSize(n), told + n))
<1>0. PICK q : q = (n - 1) \div LENGTH
  OBVIOUS
<1> DEFINE P == [j \in 0 .. q + 1 |-> Place(at + 2 * j, told + Taken(n, LENGTH, q, j))]
<1>1. /\ q \in Nat /\ RunSize(n) = 2 * (q + 1)
      /\ \A j \in 0 .. q :
           /\ Repeated(b, n)[2 * j + 1] = StoredLength(Share(n, LENGTH, q, j))
           /\ Repeated(b, n)[2 * j + 2] = b
  BY <1>0, RepeatedParts
<1>2. /\ Taken(n, LENGTH, q, 0) = 0 /\ Taken(n, LENGTH, q, q + 1) = n
      /\ \A j \in 0 .. q + 1 : Taken(n, LENGTH, q, j) \in Nat
      /\ \A j \in 0 .. q :
           /\ Share(n, LENGTH, q, j) \in 1 .. LENGTH
           /\ Taken(n, LENGTH, q, j + 1) = Taken(n, LENGTH, q, j) + Share(n, LENGTH, q, j)
           /\ Taken(n, LENGTH, q, j + 1) <= n
  <2>1. PartsTaken(n, LENGTH, q)
    BY <1>0, TakenNext, Constants
  <2> QED BY <2>1 DEF PartsTaken
<1>3. P \in [0 .. q + 1 -> Places]
  BY <1>1, <1>2 DEF Place, Places
<1>4. P[0] = Place(at, told) /\ P[q + 1] = Place(at + RunSize(n), told + n)
  BY <1>1, <1>2
<1>5. ASSUME NEW j \in 0 .. (q + 1) - 1
      PROVE  P[j].at < P[j + 1].at /\ Token(data, g, P[j], P[j + 1])
  <2> DEFINE a == at + 2 * j
             t == told + Taken(n, LENGTH, q, j)
             len == Share(n, LENGTH, q, j)
  <2>1. /\ j \in 0 .. q /\ j \in Nat /\ j \in 0 .. q + 1 /\ j + 1 \in 0 .. q + 1
        /\ 2 * j + 1 \in 1 .. RunSize(n) /\ 2 * j + 2 \in 1 .. RunSize(n)
    BY <1>1
  <2>2. /\ a \in Nat /\ t \in Nat /\ len \in 1 .. LENGTH
        /\ at + 2 * (j + 1) = a + 2
        /\ told + Taken(n, LENGTH, q, j + 1) = t + len
        /\ a + 1 = at + (2 * j + 1) /\ a + 2 = at + (2 * j + 2)
    BY <1>2, <2>1, Constants
  <2>3. P[j] = Place(a, t) /\ P[j + 1] = Place(a + 2, t + len)
    BY <2>1, <2>2
  <2>4. g[a + 1] = StoredLength(len) /\ g[a + 2] = b
    BY <1>1, <2>1, <2>2
  <2>5. ASSUME NEW y \in 1 .. len PROVE data[t + y] = b
    <3>1. /\ Taken(n, LENGTH, q, j) \in Nat
          /\ Taken(n, LENGTH, q, j) + len <= n
      BY <1>2, <2>1
    <3>2. Taken(n, LENGTH, q, j) + y \in 1 .. n /\ t + y = told + (Taken(n, LENGTH, q, j) + y)
      BY <2>2, <3>1 DEF Positive
    <3> QED BY <3>2
  <2> HIDE DEF a, t, len, P
  <2>6. Token(data, g, Place(a, t), Place(a + 2, t + len))
    BY <2>2, <2>4, <2>5, RunToken
  <2> QED BY <2>2, <2>3, <2>6 DEF Place
<1>6. q + 1 \in Nat
  BY <1>1
<1> HIDE DEF P
<1>7. Chain({P[j] : j \in 0 .. q + 1}, data, g, P[0], P[q + 1])
  BY <1>3, <1>5, <1>6, ChainOf
<1>8. {P[j] : j \in 0 .. q + 1} \in SUBSET Places
  BY <1>3
<1> QED BY <1>4, <1>7, <1>8

LEMMA LaidOutCoded ==
  ASSUME NEW data, NEW g, NEW at \in Nat, NEW told \in Nat,
         NEW bytes, NEW literals, NEW n \in Positive,
         NEW m, m = LENGTH - 1, NEW q \in Nat,
         PartsTaken(n, m, q),
         NEW size, size = n + 1 + q,
         LaidOut(literals, bytes, n, m, q),
         \A k \in 1 .. size : g[at + k] = literals[k],
         \A y \in 1 .. n : data[told + y] = bytes[y]
  PROVE  \E L \in SUBSET Places :
           Chain(L, data, g, Place(at, told), Place(at + size, told + n))
<1> DEFINE Behind(j) == Taken(n, m, q, j) + j
           P == [j \in 0 .. q + 1 |-> Place(at + Behind(j), told + Taken(n, m, q, j))]
<1>2. /\ Taken(n, m, q, 0) = 0 /\ Taken(n, m, q, q + 1) = n
      /\ \A j \in 0 .. q + 1 : Taken(n, m, q, j) \in Nat
      /\ \A j \in 0 .. q :
           /\ Share(n, m, q, j) \in 1 .. m
           /\ Taken(n, m, q, j + 1) = Taken(n, m, q, j) + Share(n, m, q, j)
           /\ Taken(n, m, q, j + 1) <= n
  BY DEF PartsTaken
<1>1. \A j \in 0 .. q : Taken(n, m, q, j) = m * j
  BY DEF PartsTaken
<1>3. m \in Nat /\ LENGTH = m + 1 /\ n \in Nat
  BY Constants DEF Positive
<1>4. P \in [0 .. q + 1 -> Places]
  BY <1>2 DEF Place, Places
<1>5. P[0] = Place(at, told) /\ P[q + 1] = Place(at + size, told + n)
  <2>1. Behind(0) = 0 /\ Behind(q + 1) = size
    BY <1>2, <1>3
  <2>2. 0 \in 0 .. q + 1 /\ q + 1 \in 0 .. q + 1 /\ at + 0 = at /\ told + 0 = told
    OBVIOUS
  <2>3. /\ P[0] = Place(at + Behind(0), told + Taken(n, m, q, 0))
        /\ P[q + 1] = Place(at + Behind(q + 1), told + Taken(n, m, q, q + 1))
    <3> HIDE DEF Behind
    <3> QED BY <2>2
  <2> HIDE DEF Behind, P
  <2> QED BY <1>2, <2>1, <2>2, <2>3
<1>6. ASSUME NEW j \in 0 .. (q + 1) - 1
      PROVE  P[j].at < P[j + 1].at /\ Token(data, g, P[j], P[j + 1])
  <2> DEFINE a == at + Behind(j)
             t == told + Taken(n, m, q, j)
             len == Share(n, m, q, j)
  <2>1. j \in 0 .. q /\ j \in Nat /\ j \in 0 .. q + 1 /\ j + 1 \in 0 .. q + 1
    OBVIOUS
  <2>2. /\ a \in Nat /\ t \in Nat /\ len \in 1 .. m
        /\ at + Behind(j + 1) = a + 1 + len
        /\ told + Taken(n, m, q, j + 1) = t + len
    BY <1>2, <1>3, <2>1
  <2>3. P[j] = Place(a, t) /\ P[j + 1] = Place(a + 1 + len, t + len)
    <3>1. P[j] = Place(a, t) /\ P[j + 1] = Place(at + Behind(j + 1), told + Taken(n, m, q, j + 1))
      BY <2>1
    <3> QED BY <2>2, <3>1
  <2>4. /\ LENGTH * j = Behind(j) /\ Behind(j) \in Nat
        /\ Behind(j) + 1 + len <= size
    <3>1. (m + 1) * j = m * j + j /\ m * j \in Nat
      BY <1>3, <2>1
    <3>2. Taken(n, m, q, j) + len <= n /\ Taken(n, m, q, j) = m * j
      BY <1>1, <1>2, <2>1
    <3>3. Behind(j) = m * j + j
      BY <3>2
    <3>4. LENGTH * j = Behind(j)
      BY <1>3, <3>1, <3>3
    <3> DEFINE c == m * j
    <3>5. c \in Nat /\ Behind(j) = c + j /\ c + len <= n
      BY <3>1, <3>2
    <3> HIDE DEF c, len, Behind
    <3> QED BY <1>3, <2>1, <2>2, <3>4, <3>5
  <2>5. g[a + 1] = LENGTH + len
    <3>1. Behind(j) + 1 \in 1 .. size /\ a + 1 = at + (Behind(j) + 1)
      BY <1>3, <2>2, <2>4
    <3>2. literals[Behind(j) + 1] = LENGTH + len
      BY <2>1, <2>4 DEF LaidOut
    <3> HIDE DEF Behind, a
    <3> QED BY <3>1, <3>2
  <2>6. ASSUME NEW y \in 1 .. len PROVE data[t + y] = g[a + 1 + y]
    <3>1. /\ Behind(j) + 1 + y \in 1 .. size
          /\ a + 1 + y = at + (Behind(j) + 1 + y)
      BY <1>3, <2>2, <2>4
    <3>2. literals[Behind(j) + 1 + y] = bytes[m * j + y]
      BY <2>1, <2>4 DEF LaidOut
    <3>3. /\ Taken(n, m, q, j) \in Nat /\ Taken(n, m, q, j) = m * j
          /\ Taken(n, m, q, j) + len <= n
      BY <1>1, <1>2, <2>1
    <3>4. Taken(n, m, q, j) + y \in 1 .. n /\ t + y = told + (Taken(n, m, q, j) + y)
      BY <1>3, <2>2, <3>3
    <3>5. data[told + (Taken(n, m, q, j) + y)] = bytes[Taken(n, m, q, j) + y]
      BY <3>4
    <3> HIDE DEF Behind, a, t
    <3> QED BY <3>1, <3>2, <3>3, <3>4, <3>5
  <2> HIDE DEF a, t, len, P, Behind
  <2>7. Token(data, g, Place(a, t), Place(a + 1 + len, t + len))
    <3>1. len \in 1 .. LENGTH - 1
      BY <1>3, <2>2
    <3> QED BY <2>2, <2>5, <2>6, <3>1, OnesToken
  <2> QED BY <2>2, <2>3, <2>7 DEF Place
<1>7. q + 1 \in Nat
  OBVIOUS
<1> HIDE DEF P
<1>8. Chain({P[j] : j \in 0 .. q + 1}, data, g, P[0], P[q + 1])
  BY <1>4, <1>6, <1>7, ChainOf
<1>9. {P[j] : j \in 0 .. q + 1} \in SUBSET Places
  BY <1>4
<1> QED BY <1>5, <1>8, <1>9

LEMMA OnesCoded ==
  ASSUME NEW data, NEW g, NEW at \in Nat, NEW told \in Nat,
         NEW bytes \in Seq(Value), NEW n \in Positive, n = Len(bytes),
         \A k \in 1 .. OnesSize(n) : g[at + k] = Literals(bytes)[k],
         \A y \in 1 .. n : data[told + y] = bytes[y]
  PROVE  \E L \in SUBSET Places :
           Chain(L, data, g, Place(at, told), Place(at + OnesSize(n), told + n))
<1>1. PICK m, q, literals, size :
        /\ m = LENGTH - 1 /\ q = (n - 1) \div (LENGTH - 1)
        /\ literals = Literals(bytes) /\ size = OnesSize(n)
  OBVIOUS
<1>2. q \in Nat /\ OnesSize(n) = n + 1 + q /\ LaidOut(Literals(bytes), bytes, n, LENGTH - 1, q)
  BY <1>1, LiteralsParts, Zenon
<1>3. /\ q \in Nat /\ size = n + 1 + q /\ LaidOut(literals, bytes, n, m, q)
      /\ \A k \in 1 .. size : g[at + k] = literals[k]
  BY <1>1, <1>2, Zenon
<1>4. PartsTaken(n, m, q)
  BY <1>1, TakenNext, Constants
<1>5. \E L \in SUBSET Places :
        Chain(L, data, g, Place(at, told), Place(at + size, told + n))
  <2>1. m = LENGTH - 1 /\ size = n + 1 + q /\ q \in Nat
    BY <1>1, <1>3
  <2>2. \A k \in 1 .. size : g[at + k] = literals[k]
    BY <1>3
  <2>3. LaidOut(literals, bytes, n, m, q)
    BY <1>3
  <2> QED BY <1>4, <2>1, <2>2, <2>3, LaidOutCoded, ZenonT(60)
<1> QED BY <1>1, <1>5

-----------------------------------------------------------------------------
(* The window, and the run that starts at a position of it.                 *)

WindowOpen ==
  input \in Seq(Byte) /\ offset_input \in Nat /\ offset_input < Len(input)

LEMMA PagesCover ==
  ASSUME NEW n \in Nat
  PROVE  Pages(n) \in Nat /\ n <= Pages(n)
<1> DEFINE x == n + PageSize - 1
           q == x \div PageSize
           r == x % PageSize
<1>1. PageSize \in Nat /\ PageSize # 0 /\ PageSize \in Positive
  BY Constants DEF Positive
<1>2. x \in Nat
  BY <1>1
<1>3. q \in Nat /\ r \in Nat /\ r < PageSize /\ x = PageSize * q + r
  <2> HIDE DEF x
  <2> QED BY <1>1, <1>2, DivMod
<1>4. Pages(n) = q * PageSize
  BY DEF Pages
<1> HIDE DEF q, r
<1>5. q * PageSize = PageSize * q /\ q * PageSize \in Nat
  BY <1>1, <1>3
<1> DEFINE c == q * PageSize
<1>6. c \in Nat /\ x = c + r
  BY <1>3, <1>5
<1> HIDE DEF c
<1>7. n <= c
  BY <1>1, <1>3, <1>6
<1> QED BY <1>4, <1>6, <1>7 DEF c

LEMMA Window ==
  ASSUME WindowOpen
  PROVE  /\ WindowEnd \in Nat /\ MappingEnd \in Nat
         /\ offset_input < WindowEnd /\ WindowEnd <= Len(input) /\ WindowEnd <= MappingEnd
         /\ WindowEnd <= offset_input + taille_max
         /\ WindowEnd = Len(input) \/ WindowEnd = offset_input + taille_max
         /\ WindowEnd = Min({offset_input + taille_max, Len(input)})
         /\ \A p \in Nat : p < WindowEnd => Memory(p) = input[p + 1] /\ Memory(p) \in Byte
<1>1. /\ offset_input \in Nat /\ Len(input) \in Nat /\ offset_input < Len(input)
      /\ taille_max \in Nat /\ taille_max > 0 /\ input \in Seq(Byte)
  BY Constants DEF WindowOpen, Positive
<1>2. WindowEnd = offset_input + (IF Len(input) - offset_input <= taille_max
                                  THEN Len(input) - offset_input ELSE taille_max)
  <2>1. Min({Len(input) - offset_input, taille_max}) =
          IF Len(input) - offset_input <= taille_max
          THEN Len(input) - offset_input ELSE taille_max
    BY <1>1, MinOfTwo
  <2> QED BY <2>1 DEF WindowEnd
<1>3. Min({offset_input + taille_max, Len(input)}) =
        IF offset_input + taille_max <= Len(input) THEN offset_input + taille_max ELSE Len(input)
  BY <1>1, MinOfTwo
<1>4. /\ WindowEnd \in Nat /\ offset_input < WindowEnd /\ WindowEnd <= Len(input)
      /\ WindowEnd <= offset_input + taille_max
      /\ WindowEnd = Len(input) \/ WindowEnd = offset_input + taille_max
      /\ WindowEnd = Min({offset_input + taille_max, Len(input)})
  BY <1>1, <1>2, <1>3
<1>5. MappingEnd \in Nat /\ WindowEnd <= MappingEnd
  <2>1. WindowEnd - offset_input \in Nat
    BY <1>1, <1>4
  <2>2. Pages(WindowEnd - offset_input) \in Nat
        /\ WindowEnd - offset_input <= Pages(WindowEnd - offset_input)
    BY <2>1, PagesCover
  <2> QED BY <1>1, <1>4, <2>2 DEF MappingEnd
<1>6. ASSUME NEW p \in Nat, p < WindowEnd
      PROVE  Memory(p) = input[p + 1] /\ Memory(p) \in Byte
  <2>1. Memory(p) = input[p + 1]
    BY <1>4, <1>5, <1>6 DEF Memory
  <2>2. p + 1 \in 1 .. Len(input)
    BY <1>1, <1>4, <1>6
  <2> QED BY <1>1, <2>1, <2>2
<1> QED BY <1>4, <1>5, <1>6

\* The run that starts at c ends at e, in the window.
RunIs(c, e) ==
  /\ e \in c + 1 .. WindowEnd
  /\ \A p \in c .. e - 1 : Memory(p) = Memory(c)
  /\ Memory(e) # Memory(c)

LEMMA MaxIs ==
  ASSUME NEW S \in SUBSET Int, NEW m \in S, \A y \in S : y <= m
  PROVE  Max(S) = m
<1>1. \A x \in S : (\A y \in S : x >= y) => x = m
  OBVIOUS
<1>2. m \in S /\ \A y \in S : m >= y
  OBVIOUS
<1>3. (CHOOSE x \in S : \A y \in S : x >= y) = m
  BY <1>1, <1>2
<1> QED BY <1>3 DEF Max

LEMMA RunEndsThere ==
  ASSUME WindowOpen, copi \in Nat, NEW e, RunIs(copi, e)
  PROVE  RunEnd = e
<1>1. /\ e \in Nat /\ copi < e /\ e <= MappingEnd /\ MappingEnd \in Nat
      /\ \A p \in copi .. e - 1 : Memory(p) = Memory(copi)
      /\ Memory(e) # Memory(copi)
  BY Window DEF RunIs
<1> DEFINE S == {p \in copi .. MappingEnd : SameUntil(p)}
<1>2. e - 1 \in S
  BY <1>1 DEF SameUntil
<1>3. ASSUME NEW y \in S PROVE y <= e - 1
  <2>1. y \in Nat /\ \A q \in copi .. y : Memory(q) = Memory(copi)
    BY DEF SameUntil
  <2>2. e \notin copi .. y
    BY <1>1, <2>1
  <2> QED BY <1>1, <2>1, <2>2
<1>4. S \in SUBSET Int
  OBVIOUS
<1> HIDE DEF S
<1>5. Max(S) = e - 1
  BY <1>2, <1>3, <1>4, MaxIs
<1>6. (e - 1) + 1 = e
  BY <1>1
<1> QED BY <1>5, <1>6 DEF RunEnd, S

LEMMA RunEnds ==
  ASSUME WindowOpen, copi \in Nat, copi < WindowEnd
  PROVE  /\ RunEnd \in Nat /\ copi < RunEnd /\ RunEnd <= MappingEnd + 1
         /\ \A p \in copi .. RunEnd - 1 : Memory(p) = Memory(copi)
         /\ RunEnd <= WindowEnd => RunIs(copi, RunEnd)
<1>1. /\ WindowEnd \in Nat /\ MappingEnd \in Nat /\ WindowEnd <= MappingEnd
      /\ copi \in Nat /\ copi < WindowEnd
  BY Window
<1> DEFINE T == {d \in Nat : copi + d = MappingEnd + 1 \/ Memory(copi + d) # Memory(copi)}
<1>2. MappingEnd + 1 - copi \in T
  BY <1>1
<1>3. PICK m \in T : \A k \in T : m <= k
  <2>1. T \subseteq Nat /\ T # {}
    BY <1>2
  <2> HIDE DEF T
  <2> QED BY <2>1, LeastNatural
<1>4. m \in Nat /\ m # 0 /\ m <= MappingEnd + 1 - copi
  <2>1. copi + 0 = copi /\ copi # MappingEnd + 1
    BY <1>1
  <2>2. 0 \notin T
    BY <2>1
  <2>3. m \in Nat /\ m <= MappingEnd + 1 - copi
    BY <1>2, <1>3
  <2> HIDE DEF T
  <2> QED BY <2>2, <2>3
<1>5. ASSUME NEW q \in copi .. copi + m - 1 PROVE Memory(q) = Memory(copi)
  <2>1. q - copi \in Nat /\ q - copi < m /\ copi + (q - copi) = q
    BY <1>1, <1>4
  <2>2. q - copi \notin T
    BY <1>3, <1>4, <2>1
  <2> QED BY <2>1, <2>2
<1>6. copi + m = MappingEnd + 1 \/ Memory(copi + m) # Memory(copi)
  BY <1>3
<1> DEFINE e == copi + m
           S == {p \in copi .. MappingEnd : SameUntil(p)}
<1> HIDE DEF T
<1>7. e - 1 \in S
  BY <1>1, <1>4, <1>5 DEF SameUntil
<1>8. ASSUME NEW y \in S PROVE y <= e - 1
  <2>1. y \in Nat /\ y <= MappingEnd /\ \A q \in copi .. y : Memory(q) = Memory(copi)
    BY DEF SameUntil
  <2>2. SUFFICES ASSUME y >= copi + m PROVE FALSE
    BY <1>1, <1>4, <2>1
  <2>3. Memory(copi + m) # Memory(copi)
    BY <1>1, <1>4, <1>6, <2>1, <2>2
  <2>4. copi + m \in copi .. y
    BY <1>1, <1>4, <2>1, <2>2
  <2> QED BY <2>1, <2>3, <2>4
<1>9. S \in SUBSET Int
  OBVIOUS
<1>10. RunEnd = e
  <2> HIDE DEF e
  <2>1. Max({p \in copi .. MappingEnd : SameUntil(p)}) = e - 1
    <3> HIDE DEF S
    <3>1. Max(S) = e - 1
      BY <1>7, <1>8, <1>9, MaxIs
    <3> QED BY <3>1 DEF S
  <2>2. e \in Nat /\ (e - 1) + 1 = e
    BY <1>1, <1>4 DEF e
  <2> QED BY <2>1, <2>2 DEF RunEnd
<1>11. e \in Nat /\ copi < e /\ e <= MappingEnd + 1
  BY <1>1, <1>4
<1>12. ASSUME e <= WindowEnd PROVE RunIs(copi, e)
  <2>1. Memory(e) # Memory(copi)
    BY <1>1, <1>4, <1>6, <1>12
  <2>2. e \in copi + 1 .. WindowEnd
    BY <1>1, <1>11, <1>12
  <2>3. ASSUME NEW p \in copi .. e - 1 PROVE Memory(p) = Memory(copi)
    <3>1. p \in copi .. copi + m - 1
      BY <1>1, <1>4
    <3> QED BY <1>5, <3>1
  <2> HIDE DEF e
  <2> QED BY <2>1, <2>2, <2>3 DEF RunIs
<1>13. \A p \in copi .. RunEnd - 1 : Memory(p) = Memory(copi)
  <2>1. ASSUME NEW p \in copi .. e - 1 PROVE Memory(p) = Memory(copi)
    <3>1. p \in copi .. copi + m - 1
      BY <1>1, <1>4
    <3> QED BY <1>5, <3>1
  <2> HIDE DEF e
  <2> QED BY <1>10, <2>1
<1> HIDE DEF e
<1> QED BY <1>10, <1>11, <1>12, <1>13

-----------------------------------------------------------------------------
(* What the pass that counts knows at the runs of a window.                 *)

Flush(n) == IF n = 0 THEN 0 ELSE OnesSize(n)

Pass == [at : Nat, size : Nat, ones : Nat]
Passed(at, size, waiting) == [at |-> at, size |-> size, ones |-> waiting]

\* The run from t.at to e was counted.
AfterRun(t, e) ==
  IF e = t.at + 1 THEN Passed(e, t.size, t.ones + 1)
  ELSE Passed(e, t.size + Flush(t.ones) + RunSize(e - t.at), 0)

\* The set T has what the pass knew at each run, the last time z.
Counted(T, z) ==
  /\ T \subseteq Pass /\ z \in T
  /\ offset_input \in Nat /\ Passed(offset_input, 0, 0) \in T
  /\ \A t \in T : /\ offset_input + t.ones <= t.at /\ t.at <= z.at /\ t.size <= z.size
                  /\ t.at = z.at => t = z
                  /\ t.at # z.at => \E e : RunIs(t.at, e) /\ AfterRun(t, e) \in T
  /\ z.at # offset_input => z.size > 0 \/ z.ones > 0

LEMMA FlushSizes ==
  ASSUME NEW n \in Nat
  PROVE  /\ Flush(n) \in Nat /\ (n > 0 => Flush(n) > 0 /\ OnesSize(n) = Flush(n))
         /\ n > 0 => RunSize(n) \in Nat /\ RunSize(n) > 0
<1>1. CASE n = 0
  BY <1>1 DEF Flush
<1>2. CASE n # 0
  <2>1. n \in Positive /\ n - 1 \in Nat
    BY <1>2 DEF Positive
  <2>2. (n - 1) \div (LENGTH - 1) \in Nat /\ (n - 1) \div LENGTH \in Nat
    BY <2>1, Constants, DivMod
  <2>3. OnesSize(n) \in Nat /\ OnesSize(n) > 0 /\ RunSize(n) \in Nat /\ RunSize(n) > 0
    BY <2>1, <2>2 DEF OnesSize, RunSize, number_time_bigger_then_length
  <2> QED BY <1>2, <2>3 DEF Flush
<1> QED BY <1>1, <1>2

LEMMA FlushSizeIs ==
  ASSUME NEW n \in Nat, NEW k
  PROVE  FlushSize(n, 0, k) = Flush(n)
BY DEF FlushSize, Flush

LEMMA CountedNone ==
  ASSUME WindowOpen
  PROVE  Counted({Passed(offset_input, 0, 0)}, Passed(offset_input, 0, 0))
BY DEF Counted, Passed, Pass, WindowOpen

LEMMA AfterRunIs ==
  ASSUME NEW t \in Pass, NEW e \in Nat, t.at < e
  PROVE  /\ AfterRun(t, e) \in Pass /\ AfterRun(t, e).at = e
         /\ t.size <= AfterRun(t, e).size
         /\ AfterRun(t, e).size > 0 \/ AfterRun(t, e).ones > 0
         /\ AfterRun(t, e).ones <= t.ones + 1
<1>1. t.at \in Nat /\ t.size \in Nat /\ t.ones \in Nat
  BY DEF Pass
<1>2. CASE e = t.at + 1
  BY <1>1, <1>2 DEF AfterRun, Passed, Pass
<1>3. CASE e # t.at + 1
  <2>1. e - t.at \in Nat /\ e - t.at > 0
    BY <1>1
  <2>2. /\ Flush(t.ones) \in Nat /\ RunSize(e - t.at) \in Nat /\ RunSize(e - t.at) > 0
    BY <1>1, <2>1, FlushSizes
  <2>3. AfterRun(t, e) = Passed(e, t.size + Flush(t.ones) + RunSize(e - t.at), 0)
    BY <1>3 DEF AfterRun
  <2>4. /\ t.size + Flush(t.ones) + RunSize(e - t.at) \in Nat
        /\ t.size + Flush(t.ones) + RunSize(e - t.at) >= t.size
        /\ t.size + Flush(t.ones) + RunSize(e - t.at) > 0
    BY <1>1, <2>2
  <2> QED BY <1>1, <2>3, <2>4 DEF Passed, Pass
<1> QED BY <1>2, <1>3

LEMMA CountedMore ==
  ASSUME WindowOpen, NEW T, NEW z, Counted(T, z), NEW e, RunIs(z.at, e)
  PROVE  Counted(T \cup {AfterRun(z, e)}, AfterRun(z, e)) /\ AfterRun(z, e).at = e
<1> DEFINE u == AfterRun(z, e)
           U == T \cup {u}
<1>1. /\ T \subseteq Pass /\ z \in T /\ z \in Pass
      /\ offset_input \in Nat /\ Passed(offset_input, 0, 0) \in T
      /\ \A t \in T : /\ offset_input + t.ones <= t.at /\ t.at <= z.at /\ t.size <= z.size
                      /\ t.at = z.at => t = z
                      /\ t.at # z.at => \E s : RunIs(t.at, s) /\ AfterRun(t, s) \in T
  BY DEF Counted
<1>2. \A t \in T : t.at \in Nat /\ t.size \in Nat /\ t.ones \in Nat
  BY <1>1 DEF Pass
<1>3. e \in Nat /\ z.at < e
  BY <1>1, <1>2, Window DEF RunIs
<1>4. u \in Pass /\ u.at = e /\ u.size \in Nat /\ u.ones \in Nat
  <2>1. u \in Pass /\ u.at = e
    BY <1>1, <1>3, AfterRunIs
  <2> QED BY <2>1 DEF Pass
<1>5. z.size <= u.size /\ u.ones <= z.ones + 1 /\ (u.size > 0 \/ u.ones > 0)
  BY <1>1, <1>3, AfterRunIs
<1> HIDE DEF u
<1>6. ASSUME NEW t \in U
      PROVE  /\ offset_input + t.ones <= t.at /\ t.at <= u.at /\ t.size <= u.size
             /\ t.at = u.at => t = u
             /\ t.at # u.at => \E s : RunIs(t.at, s) /\ AfterRun(t, s) \in U
  <2>1. CASE t = u
    <3>1. offset_input + z.ones <= z.at
      BY <1>1
    <3> QED BY <1>1, <1>2, <1>3, <1>4, <1>5, <2>1, <3>1
  <2>2. CASE t \in T /\ t.at # z.at
    <3>1. \E s : RunIs(t.at, s) /\ AfterRun(t, s) \in U
      BY <1>1, <2>2
    <3> QED BY <1>1, <1>2, <1>3, <1>4, <1>5, <2>2, <3>1
  <2>3. CASE t = z
    <3>1. RunIs(t.at, e) /\ AfterRun(t, e) \in U
      BY <2>3 DEF u
    <3> QED BY <1>1, <1>2, <1>3, <1>4, <1>5, <2>3, <3>1
  <2> QED BY <1>1, <2>1, <2>2, <2>3
<1>7. Counted(U, u)
  <2>1. U \subseteq Pass /\ u \in U /\ Passed(offset_input, 0, 0) \in U
    BY <1>1, <1>4
  <2> HIDE DEF U
  <2> QED BY <1>1, <1>5, <1>6, <2>1 DEF Counted
<1> QED BY <1>4, <1>7 DEF u

\* A run that was counted is the current one.
LEMMA CountedNext ==
  ASSUME WindowOpen, NEW T, NEW z, Counted(T, z), NEW t \in T, t.at # z.at, copi = t.at
  PROVE  RunIs(copi, RunEnd) /\ AfterRun(t, RunEnd) \in T
<1>1. PICK e : RunIs(t.at, e) /\ AfterRun(t, e) \in T
  BY DEF Counted
<1>2. copi \in Nat
  BY DEF Counted, Pass
<1>3. RunEnd = e
  BY <1>1, <1>2, RunEndsThere
<1> QED BY <1>1, <1>3

-----------------------------------------------------------------------------
(* The border of two windows, in a file that needs no change there.         *)

\* What is kept of the window that ends at e.
PrecAt(e) ==
  /\ prec.last_byte = input[e]
  /\ prec.repetition \in 1 .. LENGTH
  /\ prec.repetition = 1 => RunBefore(e) % LENGTH = 1

\* The next run is the current one, and in the window.
AtRun ==
  /\ WindowOpen /\ Plain
  /\ copi \in Nat /\ offset_input <= copi /\ copi < WindowEnd /\ RunIs(copi, RunEnd)
  /\ i = 0 => copi = offset_input
  /\ offset_input = 0 => iteration = 0
  /\ offset_input % taille_max = 0

LEMMA RunIsInput ==
  ASSUME WindowOpen, NEW c \in Nat, NEW e, RunIs(c, e)
  PROVE  /\ e \in Nat /\ c < e /\ e <= WindowEnd
         /\ \A y \in c + 1 .. e : input[y] = input[c + 1]
         /\ e < WindowEnd => input[e + 1] # input[c + 1]
         /\ Memory(c) = input[c + 1] /\ Memory(c) \in Byte
<1>1. /\ e \in Nat /\ c < e /\ e <= WindowEnd /\ WindowEnd \in Nat
      /\ \A p \in c .. e - 1 : Memory(p) = Memory(c)
      /\ Memory(e) # Memory(c)
      /\ \A p \in Nat : p < WindowEnd => Memory(p) = input[p + 1] /\ Memory(p) \in Byte
  <2>1. WindowEnd \in Nat
    BY Window
  <2>2. \A p \in Nat : p < WindowEnd => Memory(p) = input[p + 1] /\ Memory(p) \in Byte
    BY Window
  <2> QED BY <2>1, <2>2 DEF RunIs
<1>2. Memory(c) = input[c + 1] /\ Memory(c) \in Byte
  BY <1>1
<1>3. ASSUME NEW y \in c + 1 .. e PROVE input[y] = input[c + 1]
  <2>1. y - 1 \in c .. e - 1 /\ y - 1 \in Nat /\ y - 1 < WindowEnd /\ (y - 1) + 1 = y
    BY <1>1
  <2>2. Memory(y - 1) = Memory(c) /\ Memory(y - 1) = input[(y - 1) + 1]
    BY <1>1, <2>1
  <2> QED BY <1>2, <2>1, <2>2
<1>4. e < WindowEnd => input[e + 1] # input[c + 1]
  BY <1>1, <1>2
<1> QED BY <1>1, <1>2, <1>3, <1>4

LEMMA BorderIsPlain ==
  ASSUME AtRun, NEW e \in {offset_input, WindowEnd}, offset_input # 0 => PrecAt(e), AtBorder
  PROVE  /\ ~same_byte /\ prec.repetition \in 1 .. LENGTH
         /\ num = 1 => prec.repetition # 1
         /\ ~LastRun
<1>1. /\ WindowOpen /\ copi = offset_input /\ offset_input \in Nat /\ offset_input # 0
      /\ offset_input < Len(input) /\ Len(input) \in Nat /\ offset_input % taille_max = 0
      /\ RunIs(copi, RunEnd) /\ copi < WindowEnd /\ WindowEnd \in Nat
  BY Window DEF AtRun, AtBorder, WindowOpen
<1>2. /\ RunEnd \in Nat /\ copi < RunEnd /\ RunEnd <= WindowEnd
      /\ \A y \in copi + 1 .. RunEnd : input[y] = input[copi + 1]
      /\ RunEnd < WindowEnd => input[RunEnd + 1] # input[copi + 1]
      /\ byte = input[copi + 1]
  BY <1>1, RunIsInput DEF byte
<1>3. offset_input \in Border
  BY <1>1 DEF Border
<1>4. PlainBorder(offset_input)
  BY <1>3 DEF AtRun, Plain
<1>5. /\ input[offset_input + 1] \notin {input[offset_input], input[WindowEnd]}
      /\ \/ input[offset_input + 2] = input[offset_input + 1]
         \/ RunBefore(offset_input) % LENGTH # 1 /\ RunBefore(WindowEnd) % LENGTH # 1
  <2>1. WindowEnd = Min({offset_input + taille_max, Len(input)})
    BY <1>1, Window
  <2> QED BY <1>4, <2>1 DEF PlainBorder
<1>6. PrecAt(e)
  BY <1>1
<1>7. ~same_byte /\ prec.repetition \in 1 .. LENGTH
  BY <1>1, <1>2, <1>5, <1>6 DEF PrecAt, same_byte
<1>8. RunEnd # WindowEnd
  <2>1. SUFFICES ASSUME RunEnd = WindowEnd PROVE FALSE
    OBVIOUS
  <2>2. input[WindowEnd] = input[copi + 1]
    BY <1>1, <1>2, <2>1
  <2> QED BY <1>1, <1>5, <2>2
<1>9. ASSUME num = 1 PROVE prec.repetition # 1
  <2>1. RunEnd = copi + 1 /\ RunEnd < WindowEnd
    BY <1>1, <1>2, <1>8, <1>9 DEF num
  <2>2. input[offset_input + 2] # input[offset_input + 1]
    BY <1>1, <1>2, <2>1
  <2>3. RunBefore(e) % LENGTH # 1
    BY <1>5, <2>2
  <2> QED BY <1>6, <2>3 DEF PrecAt
<1> QED BY <1>7, <1>8, <1>9 DEF LastRun

\* So a run is treated as it is inside of a window.
LEMMA TreatedPlainly ==
  ASSUME AtRun, NEW e \in {offset_input, WindowEnd}, offset_input # 0 => PrecAt(e),
         nb_1_successif \in Nat, check_length_last_byte = 0
  PROVE  /\ num \in Nat /\ num > 0 /\ RunEnd = copi + num
         /\ byte = input[copi + 1] /\ byte \in Value
         /\ NumSize = IF num = 1 THEN 0 ELSE RunSize(num)
         /\ NewOnes = IF num = 1 THEN nb_1_successif + 1 ELSE 0
         /\ NewCheck = 0 /\ RepetitionCounted = prec.repetition
         /\ \A w : WriteRun(w) = IF num = 1 THEN w ELSE Put(w, Repeated(byte, num))
<1>1. WindowOpen /\ copi \in Nat /\ RunIs(copi, RunEnd)
  BY DEF AtRun
<1>2. RunEnd \in Nat /\ copi < RunEnd /\ byte = input[copi + 1] /\ byte \in Byte
  BY <1>1, RunIsInput DEF byte
<1>3. num \in Nat /\ num > 0 /\ RunEnd = copi + num
  BY <1>1, <1>2 DEF num
<1>4. byte \in Value
  BY <1>2, Constants
<1>5. AtBorder => /\ ~same_byte /\ prec.repetition \in 1 .. LENGTH
                  /\ num = 1 => prec.repetition # 1
  BY BorderIsPlain
<1> HIDE DEF AtRun, PrecAt
<1>6. JoinsLiterals /\ ~(num = 1 /\ ChecksLastLength)
  BY <1>5 DEF JoinsLiterals, ChecksLastLength, last_byte_repeated, last_byte_succession_1
<1>7. NumSize = IF num = 1 THEN 0 ELSE RunSize(num)
  <2>1. AtBorder => BorderSize = RunSize(num)
    BY <1>5 DEF BorderSize
  <2> QED BY <1>5, <2>1 DEF NumSize
<1>8. NewOnes = IF num = 1 THEN nb_1_successif + 1 ELSE 0
  BY <1>6 DEF NewOnes
<1>9. NewCheck = 0
  <2>1. CASE num = 1
    BY <1>6, <2>1 DEF NewCheck
  <2>2. CASE num # 1
    BY <2>2 DEF NewCheck
  <2> QED BY <2>1, <2>2
<1>10. RepetitionCounted = prec.repetition
  BY <1>5 DEF RepetitionCounted
<1>11. ASSUME NEW w PROVE WriteRun(w) = IF num = 1 THEN w ELSE Put(w, Repeated(byte, num))
  <2>1. AtBorder => WriteRunAtBorder(w) = Put(w, Repeated(byte, num))
    BY <1>5 DEF WriteRunAtBorder
  <2> QED BY <1>5, <2>1 DEF WriteRun
<1> QED BY <1>2, <1>3, <1>4, <1>7, <1>8, <1>9, <1>10, <1>11

\* The last run of a window is all that RunBefore counts.
LEMMA LastRunCounted ==
  ASSUME AtRun, LastRun, copi # offset_input => input[copi] # input[copi + 1]
  PROVE  RunBefore(WindowEnd) = num /\ byte = input[WindowEnd]
<1>1. /\ WindowOpen /\ copi \in Nat /\ RunIs(copi, RunEnd) /\ RunEnd = WindowEnd
      /\ offset_input \in Nat /\ offset_input <= copi /\ copi < WindowEnd
      /\ offset_input % taille_max = 0
  BY DEF AtRun, WindowOpen, LastRun
<1>2. /\ WindowEnd \in Nat /\ offset_input < WindowEnd
      /\ WindowEnd <= offset_input + taille_max
      /\ \A y \in copi + 1 .. WindowEnd : input[y] = input[copi + 1]
      /\ byte = input[copi + 1]
  BY <1>1, Window, RunIsInput DEF byte
<1>3. input[WindowEnd] = input[copi + 1]
  BY <1>1, <1>2
<1> DEFINE start == ((WindowEnd - 1) \div taille_max) * taille_max
<1>4. start = offset_input
  <2>1. PICK d : d = offset_input \div taille_max
    OBVIOUS
  <2>2. PICK r : r = WindowEnd - 1 - offset_input
    OBVIOUS
  <2>3. d \in Nat /\ offset_input = taille_max * d + (offset_input % taille_max)
    BY <1>1, <2>1, Constants, DivMod
  <2>4. taille_max \in Nat /\ taille_max * d \in Nat /\ d * taille_max = taille_max * d
    BY <2>3, Constants DEF Positive
  <2>5. offset_input = taille_max * d
    BY <1>1, <2>3, <2>4
  <2>6. r \in Nat /\ r < taille_max /\ WindowEnd - 1 = offset_input + r
    BY <1>1, <1>2, <2>2, <2>4
  <2>7. (taille_max * d + r) \div taille_max = d
    BY <2>3, <2>6, Constants, DivUnique
  <2>8. (WindowEnd - 1) \div taille_max = d
    BY <2>5, <2>6, <2>7
  <2> QED BY <2>4, <2>5, <2>8
<1> HIDE DEF start
<1>5. {p \in start + 1 .. WindowEnd : \A q \in p .. WindowEnd : input[q] = input[WindowEnd]}
        = copi + 1 .. WindowEnd
  <2>1. ASSUME NEW p \in start + 1 .. WindowEnd
        PROVE  (\A q \in p .. WindowEnd : input[q] = input[WindowEnd]) <=> p \in copi + 1 .. WindowEnd
    <3>1. CASE p \in copi + 1 .. WindowEnd
      BY <1>1, <1>2, <1>3, <3>1
    <3>2. CASE p \notin copi + 1 .. WindowEnd
      <4>1. copi # offset_input /\ copi \in p .. WindowEnd
        BY <1>1, <1>2, <1>4, <3>2
      <4>2. input[copi] # input[WindowEnd]
        BY <1>3, <4>1
      <4> QED BY <3>2, <4>1, <4>2
    <3> QED BY <3>1, <3>2
  <2>2. copi + 1 .. WindowEnd \subseteq start + 1 .. WindowEnd
    BY <1>1, <1>2, <1>4
  <2> QED BY <2>1, <2>2
<1>6. Cardinality(copi + 1 .. WindowEnd) = num
  <2>1. copi + 1 \in Int /\ WindowEnd \in Int /\ ~(copi + 1 > WindowEnd)
        /\ WindowEnd - (copi + 1) + 1 = WindowEnd - copi
    BY <1>1, <1>2
  <2>2. Cardinality(copi + 1 .. WindowEnd) = WindowEnd - (copi + 1) + 1
    BY <2>1, FS_Interval
  <2> QED BY <1>1, <2>1, <2>2 DEF num
<1> QED BY <1>2, <1>3, <1>5, <1>6 DEF RunBefore, start

-----------------------------------------------------------------------------
(* Writing the literals before a run, and a run.                            *)

Extends(w, v, k) ==
  /\ v \in Writers /\ v.ok
  /\ v.current = w.current + k /\ Len(v.output) = Len(w.output)

LEMMA RoomLeft ==
  ASSUME NEW w, NEW k \in Nat, NEW l \in Nat, HasRoom(w, k + l)
  PROVE  /\ HasRoom(w, k)
         /\ \A v : Extends(w, v, k) => HasRoom(v, l)
<1>1. w.current \in Nat /\ Len(w.output) \in Nat
  BY LenProperties DEF HasRoom, Writers
<1>2. HasRoom(w, k)
  BY <1>1 DEF HasRoom
<1>3. ASSUME NEW v, Extends(w, v, k) PROVE HasRoom(v, l)
  BY <1>1, <1>3 DEF HasRoom, Extends
<1> QED BY <1>2, <1>3

LEMMA BeforeIs ==
  ASSUME WindowOpen, NEW p \in Nat, p <= WindowEnd, NEW n \in Nat, offset_input + n <= p,
         NEW first
  PROVE  /\ Before(p, n, first) \in Seq(Value) /\ Len(Before(p, n, first)) = n
         /\ \A y \in 1 .. n : input[(p - n) + y] = Before(p, n, first)[y]
<1>1. /\ offset_input \in Nat /\ WindowEnd \in Nat
  BY Window DEF WindowOpen
<1>2. \A y \in Nat : y < WindowEnd => Memory(y) = input[y + 1] /\ Memory(y) \in Byte
  BY Window
<1>3. ASSUME NEW y \in 1 .. n
      PROVE  /\ Before(p, n, first)[y] = input[(p - n) + y]
             /\ Before(p, n, first)[y] \in Value
  <2>1. /\ p - n + y - 1 \in Nat /\ p - n + y - 1 < WindowEnd
        /\ ~(p - n + y - 1 < offset_input) /\ (p - n + y - 1) + 1 = (p - n) + y
    BY <1>1
  <2>2. Before(p, n, first)[y] = Memory(p - n + y - 1)
    BY <2>1 DEF Before
  <2>3. Memory(p - n + y - 1) = input[(p - n + y - 1) + 1] /\ Memory(p - n + y - 1) \in Byte
    BY <1>2, <2>1
  <2> QED BY <2>1, <2>2, <2>3, Constants
<1>4. Before(p, n, first) = [y \in 1 .. n |-> Before(p, n, first)[y]]
  BY DEF Before
<1>5. Before(p, n, first) \in [1 .. n -> Value]
  BY <1>3, <1>4
<1> QED BY <1>3, <1>5, FunctionIsSequence

LEMMA OnesWritten ==
  ASSUME WindowOpen, NEW p \in Nat, p <= WindowEnd, NEW n \in Nat, offset_input + n <= p,
         NEW first, NEW w, HasRoom(w, Flush(n)),
         Coded(input, w.output, w.current, p - n)
  PROVE  /\ Extends(w, WriteOnes(w, p, n, 0, first), Flush(n))
         /\ WriteOnes(w, p, n, 0, first).last = w.last
         /\ Coded(input, WriteOnes(w, p, n, 0, first).output, w.current + Flush(n), p)
<1>1. w \in Writers /\ w.ok /\ w.current \in Nat
  BY DEF HasRoom, Writers
<1>2. CASE n = 0
  <2>1. WriteOnes(w, p, n, 0, first) = w /\ Flush(n) = 0
    BY <1>2 DEF WriteOnes, Flush
  <2>2. w.current + 0 = w.current /\ p - 0 = p
    BY <1>1
  <2> QED BY <1>1, <1>2, <2>1, <2>2 DEF Extends
<1>3. CASE n # 0
  <2> DEFINE bytes == Before(p, n, first)
             v == Put(w, Literals(bytes))
             told == p - n
  <2>1. WriteOnes(w, p, n, 0, first) = v
    BY <1>3 DEF WriteOnes
  <2>2. /\ bytes \in Seq(Value) /\ Len(bytes) = n
        /\ \A y \in 1 .. n : input[told + y] = bytes[y]
    BY BeforeIs
  <2>3. n \in Positive /\ Flush(n) = OnesSize(n) /\ OnesSize(n) \in Nat
        /\ told \in Nat /\ told + n = p
    <3>1. offset_input \in Nat
      BY DEF WindowOpen
    <3>2. Flush(n) = OnesSize(n) /\ Flush(n) \in Nat
      BY <1>3, FlushSizes
    <3> QED BY <1>3, <3>1, <3>2 DEF Positive
  <2> HIDE DEF bytes, v, told
  <2>4. Literals(bytes) \in Seq(Value) /\ Len(Literals(bytes)) = OnesSize(n)
    <3>1. PICK q : q = (n - 1) \div (LENGTH - 1)
      OBVIOUS
    <3> QED BY <2>2, <2>3, <3>1, LiteralsParts
  <2>5. /\ v \in Writers /\ v.ok /\ v.last = w.last /\ v.current = w.current + OnesSize(n)
        /\ Len(v.output) = Len(w.output)
        /\ \A q \in 1 .. w.current : v.output[q] = w.output[q]
        /\ \A k \in 1 .. OnesSize(n) : v.output[w.current + k] = Literals(bytes)[k]
    <3>1. HasRoom(w, Len(Literals(bytes)))
      BY <2>3, <2>4
    <3> QED BY <2>4, <3>1, PutResult DEF v
  <2>6. \E L \in SUBSET Places :
           Chain(L, input, v.output, Place(w.current, told),
                 Place(w.current + OnesSize(n), told + n))
    BY <1>1, <2>2, <2>3, <2>5, OnesCoded
  <2>7. PICK L \in SUBSET Places :
           Chain(L, input, v.output, Place(w.current, told), Place(w.current + OnesSize(n), p))
    BY <2>3, <2>6
  <2>8. Coded(input, w.output, w.current, told)
    BY DEF told
  <2>9. w.current + OnesSize(n) \in Nat
    BY <1>1, <2>3
  <2>10. Coded(input, v.output, w.current + OnesSize(n), p)
    BY <2>5, <2>7, <2>8, <2>9, CodedMore
  <2> QED BY <2>1, <2>3, <2>5, <2>10 DEF Extends
<1> QED BY <1>2, <1>3

LEMMA RunWritten ==
  ASSUME NEW p \in Nat, NEW n \in Nat, n > 0, NEW b \in Value,
         \A y \in 1 .. n : input[p + y] = b,
         NEW w, HasRoom(w, RunSize(n)),
         Coded(input, w.output, w.current, p)
  PROVE  /\ Extends(w, Put(w, Repeated(b, n)), RunSize(n))
         /\ Put(w, Repeated(b, n)).last = w.last
         /\ Coded(input, Put(w, Repeated(b, n)).output, w.current + RunSize(n), p + n)
<1>1. w \in Writers /\ w.ok /\ w.current \in Nat
  BY DEF HasRoom, Writers
<1> DEFINE v == Put(w, Repeated(b, n))
<1>2. n \in Positive /\ RunSize(n) \in Nat
  BY FlushSizes DEF Positive
<1>3. Repeated(b, n) \in Seq(Value) /\ Len(Repeated(b, n)) = RunSize(n)
  <2>1. PICK q : q = (n - 1) \div LENGTH
    OBVIOUS
  <2> QED BY <1>2, <2>1, RepeatedParts
<1>4. /\ v \in Writers /\ v.ok /\ v.last = w.last /\ v.current = w.current + RunSize(n)
      /\ Len(v.output) = Len(w.output)
      /\ \A q \in 1 .. w.current : v.output[q] = w.output[q]
      /\ \A k \in 1 .. RunSize(n) : v.output[w.current + k] = Repeated(b, n)[k]
  <2>1. HasRoom(w, Len(Repeated(b, n)))
    BY <1>3
  <2> QED BY <1>3, <2>1, PutResult
<1> HIDE DEF v
<1>5. PICK L \in SUBSET Places :
        Chain(L, input, v.output, Place(w.current, p), Place(w.current + RunSize(n), p + n))
  BY <1>1, <1>2, <1>4, RunCoded
<1>6. w.current + RunSize(n) \in Nat /\ p + n \in Nat
  BY <1>1, <1>2
<1>7. Coded(input, v.output, w.current + RunSize(n), p + n)
  BY <1>4, <1>5, <1>6, CodedMore
<1> QED BY <1>4, <1>7 DEF v, Extends

-----------------------------------------------------------------------------
(* The invariant, for a file that needs no change at a border.              *)

Files ==
  /\ input \in Seq(Byte)
  /\ offset_input \in 0 .. Len(input) /\ iteration \in Nat
  /\ offset_input = 0 => iteration = 0
  /\ offset_input < Len(input) => offset_input % taille_max = 0

Kept ==
  /\ i \in Nat /\ nb_1_successif \in Nat /\ check_length_last_byte = 0
  /\ prec \in [last_byte : Int, repetition : Int, nb_1 : Int, offset_last_length : Int]
  /\ taille_out \in Nat /\ output \in Seq(Value) /\ Len(output) = taille_output_tot

\* The output so far tells the input so far.
Mapping ==
  step = "map" => /\ nb_1_successif = 0
                  /\ offset_input # 0 => PrecAt(offset_input)
                  /\ Coded(input, output, taille_output_tot, offset_input)

AtPosition ==
  /\ offset_input < Len(input)
  /\ copi \in offset_input .. WindowEnd
  /\ i = 0 => copi = offset_input
  /\ copi # offset_input /\ copi # WindowEnd => input[copi] # input[copi + 1]

\* The whole window was counted, the last time at z.
WholeCount(T, z) ==
  /\ Counted(T, z) /\ z.at = WindowEnd
  /\ taille_out = z.size + Flush(z.ones)

Counting ==
  step = "count" =>
    /\ AtPosition
    /\ Coded(input, output, taille_output_tot, offset_input)
    /\ copi # WindowEnd =>
         /\ offset_input # 0 => PrecAt(offset_input)
         /\ \E T, z : /\ Counted(T, z) /\ z.at = copi
                      /\ taille_out = z.size /\ nb_1_successif = z.ones
    /\ copi = WindowEnd =>
         /\ PrecAt(WindowEnd) /\ nb_1_successif = 0
         /\ \E T, z : WholeCount(T, z)

\* What was counted is written: the part of the output for this window is filled
\* up to where the pass that counted was at this run.
Compressing ==
  step = "compress" =>
    /\ AtPosition /\ PrecAt(WindowEnd)
    /\ mapped.from \in Nat /\ mapped.to \in Nat /\ current \in Nat
    /\ 0 < taille_out /\ mapped.from + taille_out <= taille_output_tot
    /\ taille_output_tot <= mapped.to
    /\ Coded(input, output, current, copi - nb_1_successif)
    /\ copi # WindowEnd =>
         \E T, z : /\ WholeCount(T, z)
                   /\ \E t \in T : /\ t.at = copi /\ nb_1_successif = t.ones
                                   /\ current + taille_out = taille_output_tot + t.size
    /\ copi = WindowEnd => current = taille_output_tot /\ nb_1_successif = 0

Ending ==
  /\ step # "error"
  /\ step = "crash" => copi < WindowEnd /\ ReadFaults
  /\ step = "done" => Coded(input, output, taille_output_tot, Len(input))

PlainState == Files /\ Kept /\ Mapping /\ Counting /\ Compressing /\ Ending
PlainInv == Plain => PlainState

\* A file and a window that stay the same.
LEMMA WindowKept ==
  ASSUME UNCHANGED <<input, offset_input>>
  PROVE  /\ WindowEnd' = WindowEnd /\ MappingEnd' = MappingEnd
         /\ \A e : RunBefore(e)' = RunBefore(e)
BY DEF WindowEnd, MappingEnd, RunBefore, Pages, taille_max

LEMMA CountKept ==
  ASSUME UNCHANGED file
  PROVE  \A T, z : Counted(T, z) => Counted(T, z)'
<1>1. WindowEnd' = WindowEnd /\ offset_input' = offset_input
  BY WindowKept DEF file
<1>2. \A p : Memory(p)' = Memory(p)
  BY WindowKept DEF file, Memory
<1>3. \A c, e : RunIs(c, e) <=> RunIs(c, e)'
  BY <1>1, <1>2 DEF RunIs
<1>4. SUFFICES ASSUME NEW T, NEW z, Counted(T, z) PROVE Counted(T, z)'
  OBVIOUS
<1>5. /\ T \subseteq Pass /\ z \in T
      /\ offset_input \in Nat /\ Passed(offset_input, 0, 0) \in T
      /\ z.at # offset_input => z.size > 0 \/ z.ones > 0
  BY <1>4 DEF Counted
<1>6. ASSUME NEW t \in T
      PROVE  /\ offset_input + t.ones <= t.at /\ t.at <= z.at /\ t.size <= z.size
             /\ t.at = z.at => t = z
             /\ t.at # z.at => \E e : RunIs(t.at, e)' /\ AfterRun(t, e) \in T
  BY <1>3, <1>4 DEF Counted
<1> QED BY <1>1, <1>5, <1>6 DEF Counted

LEMMA PlainBefore ==
  ASSUME [Next]_vars, Plain'
  PROVE  Plain
<1>1. input' = input /\ (overrun => overrun')
  <2>1. CASE MapWindow
    BY <2>1 DEF MapWindow
  <2>2. CASE CountRun
    BY <2>2 DEF CountRun, file
  <2>3. CASE ReadFault
    BY <2>3 DEF ReadFault, file
  <2>4. CASE ResizeOutput
    BY <2>4 DEF ResizeOutput, file
  <2>5. CASE CompressRun
    BY <2>5 DEF CompressRun, file
  <2>6. CASE UnmapWindow
    BY <2>6 DEF UnmapWindow
  <2>7. CASE Finish
    BY <2>7 DEF Finish, file
  <2>8. CASE Ended \/ UNCHANGED vars
    BY <2>8 DEF Ended, vars, file
  <2> QED BY <2>1, <2>2, <2>3, <2>4, <2>5, <2>6, <2>7, <2>8 DEF Next
<1>2. Border' = Border /\ \A p : PlainBorder(p)' = PlainBorder(p)
  BY <1>1 DEF Border, PlainBorder, RunBefore
<1> QED BY <1>1, <1>2 DEF Plain

LEMMA OpenAt ==
  ASSUME Files, AtPosition
  PROVE  /\ WindowOpen /\ input \in Seq(Byte) /\ offset_input \in Nat /\ Len(input) \in Nat
         /\ copi \in Nat /\ offset_input <= copi /\ copi <= WindowEnd /\ WindowEnd \in Nat
         /\ WindowEnd <= Len(input) /\ offset_input < WindowEnd
<1>1. WindowOpen /\ input \in Seq(Byte) /\ offset_input \in Nat /\ Len(input) \in Nat
  BY LenProperties DEF Files, AtPosition, WindowOpen
<1>2. WindowEnd \in Nat /\ WindowEnd <= Len(input) /\ offset_input < WindowEnd
  BY <1>1, Window
<1> QED BY <1>1, <1>2 DEF AtPosition

LEMMA OnRun ==
  ASSUME Files, AtPosition, Plain, RunIs(copi, RunEnd), copi < WindowEnd
  PROVE  AtRun
<1>1. offset_input % taille_max = 0 /\ (offset_input = 0 => iteration = 0)
  BY DEF Files, AtPosition
<1>2. i = 0 => copi = offset_input
  BY DEF AtPosition
<1> QED BY <1>1, <1>2, OpenAt DEF AtRun

\* A run starts where one ends.
LEMMA NextPosition ==
  ASSUME AtRun, AtPosition, UNCHANGED file, i \in Nat, copi' = RunEnd, i' = i + 1
  PROVE  AtPosition'
<1>1. /\ WindowOpen /\ copi \in Nat /\ RunIs(copi, RunEnd) /\ offset_input <= copi
      /\ offset_input < Len(input) /\ offset_input \in Nat
  BY DEF AtRun, AtPosition, WindowOpen
<1>2. /\ RunEnd \in Nat /\ copi < RunEnd /\ RunEnd <= WindowEnd
      /\ \A y \in copi + 1 .. RunEnd : input[y] = input[copi + 1]
      /\ RunEnd < WindowEnd => input[RunEnd + 1] # input[copi + 1]
  BY <1>1, RunIsInput
<1>3. WindowEnd' = WindowEnd /\ input' = input /\ offset_input' = offset_input
  BY WindowKept DEF file
<1>4. WindowEnd \in Nat
  BY <1>1, Window
<1>5. RunEnd # WindowEnd => input[RunEnd] # input[RunEnd + 1]
  <2>1. input[RunEnd] = input[copi + 1]
    BY <1>1, <1>2
  <2> QED BY <1>2, <1>4, <2>1
<1> QED BY <1>1, <1>2, <1>3, <1>4, <1>5 DEF AtPosition

LEMMA KeptFields ==
  ASSUME NEW p \in [last_byte : Int, repetition : Int, nb_1 : Int, offset_last_length : Int],
         NEW a \in Int, NEW b \in Int, NEW c \in Int
  PROVE  LET r == [p EXCEPT !.last_byte = a, !.repetition = b, !.nb_1 = c]
         IN /\ r.last_byte = a /\ r.repetition = b
            /\ r \in [last_byte : Int, repetition : Int, nb_1 : Int, offset_last_length : Int]
OBVIOUS

\* What the pass that counts adds to the size of the output.
LEMMA CountRunAdds ==
  ASSUME AtRun, Kept, CountRun, offset_input # 0 => PrecAt(offset_input),
         copi # offset_input => input[copi] # input[copi + 1]
  PROVE  /\ taille_out' = taille_out + (IF num = 1 THEN 0 ELSE Flush(nb_1_successif) + RunSize(num))
                            + (IF LastRun THEN Flush(NewOnes) ELSE 0)
         /\ nb_1_successif' = IF LastRun THEN 0 ELSE NewOnes
         /\ check_length_last_byte' = 0
         /\ NewOnes = (IF num = 1 THEN nb_1_successif + 1 ELSE 0)
         /\ prec' \in [last_byte : Int, repetition : Int, nb_1 : Int, offset_last_length : Int]
         /\ LastRun => /\ prec'.last_byte = input[WindowEnd]
                       /\ prec'.repetition \in 1 .. LENGTH
                       /\ prec'.repetition = 1 => RunBefore(WindowEnd) % LENGTH = 1
         /\ ~LastRun => prec' = prec
<1>1. /\ nb_1_successif \in Nat /\ check_length_last_byte = 0 /\ taille_out \in Nat
      /\ prec \in [last_byte : Int, repetition : Int, nb_1 : Int, offset_last_length : Int]
  BY DEF Kept
<1>2. /\ num \in Nat /\ num > 0
      /\ byte \in Value
      /\ NumSize = IF num = 1 THEN 0 ELSE RunSize(num)
      /\ NewOnes = IF num = 1 THEN nb_1_successif + 1 ELSE 0
      /\ NewCheck = 0 /\ RepetitionCounted = prec.repetition
  BY <1>1, TreatedPlainly
<1>3. /\ prec' = LET p == [prec EXCEPT !.repetition = RepetitionCounted]
                 IN IF LastRun THEN LastRunOf(p) ELSE p
      /\ taille_out' = taille_out + NumSize
           + (IF num # 1 THEN FlushSize(nb_1_successif, check_length_last_byte, prec.nb_1) ELSE 0)
           + (IF LastRun THEN FlushSize(NewOnes, NewCheck, NewOnes) ELSE 0)
      /\ nb_1_successif' = IF LastRun THEN 0 ELSE NewOnes
      /\ check_length_last_byte' = IF LastRun THEN 0 ELSE NewCheck
  BY DEF CountRun
<1>4. NewOnes \in Nat /\ Flush(NewOnes) \in Nat /\ Flush(nb_1_successif) \in Nat
      /\ RunSize(num) \in Nat
  <2>1. NewOnes \in Nat
    BY <1>1, <1>2
  <2> QED BY <1>1, <1>2, <2>1, FlushSizes
<1>5. /\ FlushSize(nb_1_successif, check_length_last_byte, prec.nb_1) = Flush(nb_1_successif)
      /\ FlushSize(NewOnes, NewCheck, NewOnes) = Flush(NewOnes)
  BY <1>1, <1>2, <1>4, FlushSizeIs
<1>6. [prec EXCEPT !.repetition = RepetitionCounted] = prec
  BY <1>1, <1>2
<1>7. prec' = IF LastRun THEN LastRunOf(prec) ELSE prec
  BY <1>3, <1>6
<1> DEFINE rest == IF num % LENGTH = 0 THEN LENGTH ELSE num % LENGTH
<1>8. rest \in 1 .. LENGTH /\ (rest = 1 => num % LENGTH = 1)
  <2>1. num % LENGTH \in Nat /\ num % LENGTH < LENGTH
    BY <1>2, Constants, DivMod
  <2> QED BY <2>1, Constants
<1>9. /\ LastRunOf(prec).last_byte = byte /\ LastRunOf(prec).repetition = rest
      /\ LastRunOf(prec) \in [last_byte : Int, repetition : Int, nb_1 : Int, offset_last_length : Int]
  <2>1. byte \in Int /\ rest \in Int
    BY <1>2, <1>8, Constants DEF Value
  <2>2. LastRunOf(prec) = [prec EXCEPT !.last_byte = byte, !.repetition = rest, !.nb_1 = NewOnes]
    BY DEF LastRunOf
  <2>3. NewOnes \in Int
    BY <1>4
  <2> HIDE DEF rest
  <2>4. LET r == [prec EXCEPT !.last_byte = byte, !.repetition = rest, !.nb_1 = NewOnes]
        IN /\ r.last_byte = byte /\ r.repetition = rest
           /\ r \in [last_byte : Int, repetition : Int, nb_1 : Int, offset_last_length : Int]
    BY <1>1, <2>1, <2>3, KeptFields, Zenon
  <2> QED BY <2>2, <2>4
<1>10. LastRun => RunBefore(WindowEnd) = num /\ byte = input[WindowEnd]
  BY LastRunCounted
<1>11. taille_out' = taille_out + (IF num = 1 THEN 0 ELSE Flush(nb_1_successif) + RunSize(num))
                            + (IF LastRun THEN Flush(NewOnes) ELSE 0)
  BY <1>1, <1>2, <1>3, <1>4, <1>5
<1> HIDE DEF rest
<1>12. LastRun => /\ prec'.last_byte = input[WindowEnd]
                  /\ prec'.repetition \in 1 .. LENGTH
                  /\ prec'.repetition = 1 => RunBefore(WindowEnd) % LENGTH = 1
  BY <1>7, <1>8, <1>9, <1>10
<1> QED BY <1>1, <1>2, <1>3, <1>7, <1>9, <1>11, <1>12

LEMMA CountRunKeeps ==
  ASSUME PlainState, Plain, Plain', CountRun
  PROVE  PlainState'
<1>1. Files /\ Kept /\ Counting
  BY DEF PlainState
<1>2. /\ step = "count" /\ copi < WindowEnd /\ copi' = RunEnd /\ i' = i + 1
      /\ overrun' = (overrun \/ RunEnd > WindowEnd)
      /\ step' = step /\ taille_output_tot' = taille_output_tot /\ output' = output
      /\ UNCHANGED file
  BY DEF CountRun, out
<1>3. /\ AtPosition /\ Coded(input, output, taille_output_tot, offset_input)
  BY <1>1, <1>2 DEF Counting
<1>4. /\ WindowOpen /\ copi \in Nat /\ WindowEnd \in Nat /\ copi # WindowEnd
      /\ offset_input \in Nat
  BY <1>1, <1>2, <1>3, OpenAt
<1>5. offset_input # 0 => PrecAt(offset_input)
  BY <1>1, <1>2, <1>4 DEF Counting
<1>6. PICK T, z : /\ Counted(T, z) /\ z.at = copi
                  /\ taille_out = z.size /\ nb_1_successif = z.ones
  BY <1>1, <1>2, <1>4 DEF Counting
<1>7. RunIs(copi, RunEnd) /\ RunEnd \in Nat /\ copi < RunEnd /\ RunEnd <= WindowEnd
  <2>1. RunEnd \in Nat /\ copi < RunEnd /\ (RunEnd <= WindowEnd => RunIs(copi, RunEnd))
    BY <1>2, <1>4, RunEnds
  <2>2. ~(RunEnd > WindowEnd)
    BY <1>2 DEF Plain
  <2> QED BY <1>4, <2>1, <2>2
<1>8. AtRun
  BY <1>1, <1>2, <1>3, <1>7, OnRun
<1>9. /\ taille_out' = taille_out + (IF num = 1 THEN 0 ELSE Flush(nb_1_successif) + RunSize(num))
                         + (IF LastRun THEN Flush(NewOnes) ELSE 0)
      /\ nb_1_successif' = IF LastRun THEN 0 ELSE NewOnes
      /\ check_length_last_byte' = 0
      /\ NewOnes = (IF num = 1 THEN nb_1_successif + 1 ELSE 0)
      /\ prec' \in [last_byte : Int, repetition : Int, nb_1 : Int, offset_last_length : Int]
      /\ LastRun => /\ prec'.last_byte = input[WindowEnd]
                    /\ prec'.repetition \in 1 .. LENGTH
                    /\ prec'.repetition = 1 => RunBefore(WindowEnd) % LENGTH = 1
      /\ ~LastRun => prec' = prec
  <2>1. copi # offset_input => input[copi] # input[copi + 1]
    BY <1>3, <1>4 DEF AtPosition
  <2> QED BY <1>1, <1>5, <1>8, <2>1, CountRunAdds
<1>10. PICK u : u = AfterRun(z, RunEnd)
  OBVIOUS
<1>11. PICK U : U = T \cup {u}
  OBVIOUS
<1>12. Counted(U, u) /\ u.at = RunEnd
  BY <1>4, <1>6, <1>7, <1>10, <1>11, CountedMore
<1>13. z.size \in Nat /\ z.ones \in Nat
  BY <1>6 DEF Counted, Pass
<1>14. /\ num = RunEnd - copi /\ num \in Nat /\ num > 0
       /\ u.ones = NewOnes
       /\ u.size = taille_out + (IF num = 1 THEN 0 ELSE Flush(nb_1_successif) + RunSize(num))
  <2>1. num = RunEnd - copi /\ num \in Nat /\ num > 0 /\ (num = 1 <=> RunEnd = z.at + 1)
    BY <1>4, <1>6, <1>7 DEF num
  <2>2. CASE num = 1
    <3>1. u = Passed(RunEnd, z.size, z.ones + 1)
      BY <1>10, <2>1, <2>2 DEF AfterRun
    <3> QED BY <1>6, <1>9, <1>13, <2>1, <2>2, <3>1 DEF Passed
  <2>3. CASE num # 1
    <3>1. u = Passed(RunEnd, z.size + Flush(z.ones) + RunSize(num), 0)
      BY <1>6, <1>10, <2>1, <2>3 DEF AfterRun
    <3>2. Flush(z.ones) \in Nat /\ RunSize(num) \in Nat
      BY <1>13, <2>1, FlushSizes
    <3> QED BY <1>6, <1>9, <1>13, <2>1, <2>3, <3>1, <3>2 DEF Passed
  <2> QED BY <2>1, <2>2, <2>3
<1>15. u.size \in Nat /\ u.ones \in Nat
  BY <1>12 DEF Counted, Pass
<1>16. Flush(u.ones) \in Nat
  BY <1>15, FlushSizes
<1>17. taille_out' = u.size + (IF LastRun THEN Flush(u.ones) ELSE 0)
  BY <1>9, <1>14
<1>18. Counted(U, u)'
  BY <1>2, <1>12, CountKept
<1>19. /\ WindowEnd' = WindowEnd /\ input' = input /\ offset_input' = offset_input
       /\ iteration' = iteration /\ RunBefore(WindowEnd)' = RunBefore(WindowEnd)
       /\ RunBefore(offset_input)' = RunBefore(offset_input)
  <2>1. WindowEnd' = WindowEnd /\ input' = input /\ offset_input' = offset_input
        /\ iteration' = iteration
    BY <1>2, WindowKept DEF file
  <2> QED BY <2>1 DEF RunBefore
<1>20. Files'
  BY <1>1, <1>19 DEF Files
<1>21. Kept'
  <2>1. nb_1_successif' \in Nat
    BY <1>9, <1>14, <1>15
  <2>2. taille_out' \in Nat
    BY <1>15, <1>16, <1>17
  <2>3. i' \in Nat
    BY <1>1, <1>2 DEF Kept
  <2> QED BY <1>1, <1>2, <1>9, <2>1, <2>2, <2>3 DEF Kept
<1>22. AtPosition'
  BY <1>1, <1>2, <1>3, <1>8, NextPosition DEF Kept
<1>23. Counting'
  <2>1. Coded(input, output, taille_output_tot, offset_input)'
    BY <1>2, <1>3, <1>19
  <2>2. ASSUME (copi # WindowEnd)'
        PROVE  /\ (offset_input # 0 => PrecAt(offset_input))'
               /\ \E Y, y : (/\ Counted(Y, y) /\ y.at = copi
                             /\ taille_out = y.size /\ nb_1_successif = y.ones)'
    <3>1. ~LastRun
      BY <1>2, <1>19, <2>2 DEF LastRun
    <3>2. (offset_input # 0 => PrecAt(offset_input))'
      BY <1>5, <1>9, <1>19, <3>1 DEF PrecAt
    <3>3. u.at = copi' /\ taille_out' = u.size /\ nb_1_successif' = u.ones
      BY <1>2, <1>9, <1>12, <1>14, <1>15, <1>17, <3>1
    <3> QED BY <1>18, <3>2, <3>3
  <2>3. ASSUME (copi = WindowEnd)'
        PROVE  /\ PrecAt(WindowEnd)' /\ (nb_1_successif = 0)'
               /\ \E Y, y : WholeCount(Y, y)'
    <3>1. LastRun
      BY <1>2, <1>19, <2>3 DEF LastRun
    <3>2. PrecAt(WindowEnd)'
      BY <1>9, <1>19, <3>1 DEF PrecAt
    <3>3. WholeCount(U, u)'
      <4>1. u.at = WindowEnd' /\ taille_out' = u.size + Flush(u.ones)
        BY <1>12, <1>17, <1>19, <3>1 DEF LastRun
      <4> QED BY <1>18, <4>1 DEF WholeCount
    <3> QED BY <1>9, <3>1, <3>2, <3>3
  <2> QED BY <1>22, <2>1, <2>2, <2>3 DEF Counting
<1>24. Mapping' /\ Compressing' /\ Ending'
  BY <1>2 DEF Mapping, Compressing, Ending
<1> QED BY <1>20, <1>21, <1>23, <1>24 DEF PlainState

LEMMA InitPlain ==
  ASSUME Init
  PROVE  PlainState
<1>1. PICK n \in 0 .. MaxSize : input \in [1 .. n -> Byte]
  BY DEF Init
<1>2. n \in Nat
  BY <1>1, EncodeAssumption
<1>3. input \in Seq(Byte) /\ Len(input) = n
  BY <1>1, <1>2, FunctionIsSequence
<1>4. /\ step = "map" /\ offset_input = 0 /\ iteration = 0 /\ i = 0
      /\ taille_out = 0 /\ taille_output_tot = 0 /\ output = <<>>
      /\ nb_1_successif = 0 /\ check_length_last_byte = 0
      /\ prec = [last_byte |-> 0, repetition |-> 0, nb_1 |-> 0, offset_last_length |-> 0]
  BY DEF Init
<1>5. Files
  <2>1. 0 % taille_max = 0
    <3>1. taille_max \in Nat /\ taille_max # 0
      BY Constants DEF Positive
    <3> QED BY <3>1
  <2> QED BY <1>2, <1>3, <1>4, <2>1 DEF Files
<1>6. Kept
  <2>1. output \in Seq(Value) /\ Len(output) = 0
    BY <1>4
  <2> QED BY <1>4, <2>1 DEF Kept
<1>7. Mapping
  BY <1>4, NothingCoded DEF Mapping
<1>8. Counting /\ Compressing /\ Ending
  BY <1>4 DEF Counting, Compressing, Ending
<1> QED BY <1>5, <1>6, <1>7, <1>8 DEF PlainState

LEMMA MapWindowKeeps ==
  ASSUME PlainState, MapWindow
  PROVE  PlainState'
<1>1. Files /\ Kept /\ Mapping
  BY DEF PlainState
<1>2. /\ step = "map" /\ offset_input < Len(input) /\ step' = "count"
      /\ taille_out' = 0 /\ copi' = offset_input /\ i' = 0
      /\ input' = input /\ offset_input' = offset_input /\ iteration' = iteration
      /\ taille_output_tot' = taille_output_tot /\ output' = output /\ prec' = prec
      /\ nb_1_successif' = nb_1_successif
      /\ check_length_last_byte' = check_length_last_byte
  BY DEF MapWindow, out, ones
<1>3. /\ nb_1_successif = 0
      /\ offset_input # 0 => PrecAt(offset_input)
      /\ Coded(input, output, taille_output_tot, offset_input)
  BY <1>1, <1>2 DEF Mapping
<1>4. WindowOpen /\ offset_input \in Nat
  BY <1>1, <1>2 DEF Files, WindowOpen
<1>5. WindowEnd' = WindowEnd /\ WindowEnd \in Nat /\ offset_input < WindowEnd
      /\ RunBefore(offset_input)' = RunBefore(offset_input)
  <2>1. WindowEnd' = WindowEnd
    BY <1>2, WindowKept
  <2> QED BY <1>2, <1>4, <2>1, Window DEF RunBefore
<1>6. Files' /\ Kept'
  BY <1>1, <1>2 DEF Files, Kept
<1>7. AtPosition'
  BY <1>2, <1>4, <1>5 DEF AtPosition
<1> DEFINE z == Passed(offset_input, 0, 0)
<1>8. PICK y : y = z
  OBVIOUS
<1>9. y.at = offset_input /\ y.size = 0 /\ y.ones = 0 /\ y \in Pass
  BY <1>4, <1>8 DEF Passed, Pass
<1>10. Counted({y}, y)'
  BY <1>2, <1>4, <1>8, <1>9 DEF Counted
<1>11. (offset_input # 0 => PrecAt(offset_input))'
  BY <1>2, <1>3, <1>5 DEF PrecAt
<1>12. Counting'
  <2>1. (copi # WindowEnd)'
    BY <1>2, <1>4, <1>5
  <2>2. \E Y, x : (/\ Counted(Y, x) /\ x.at = copi
                   /\ taille_out = x.size /\ nb_1_successif = x.ones)'
    BY <1>2, <1>3, <1>9, <1>10
  <2> QED BY <1>2, <1>3, <1>7, <1>11, <2>1, <2>2 DEF Counting
<1>13. Mapping' /\ Compressing' /\ Ending'
  BY <1>2 DEF Mapping, Compressing, Ending
<1> QED BY <1>6, <1>12, <1>13 DEF PlainState

LEMMA FinishKeeps ==
  ASSUME PlainState, Finish
  PROVE  PlainState'
<1>1. Files /\ Kept /\ Mapping
  BY DEF PlainState
<1>2. /\ step = "map" /\ offset_input >= Len(input) /\ step' = "done"
      /\ UNCHANGED <<input, offset_input, iteration, i, nb_1_successif,
                     check_length_last_byte, prec, taille_out, taille_output_tot, output>>
  BY DEF Finish, file, sizes, out, ones
<1>3. offset_input = Len(input)
  BY <1>1, <1>2, LenProperties DEF Files
<1>4. Coded(input, output, taille_output_tot, Len(input))
  BY <1>1, <1>2, <1>3 DEF Mapping
<1>5. Files' /\ Kept'
  BY <1>1, <1>2 DEF Files, Kept
<1>6. Mapping' /\ Counting' /\ Compressing' /\ Ending'
  BY <1>2, <1>4 DEF Mapping, Counting, Compressing, Ending
<1> QED BY <1>5, <1>6 DEF PlainState

LEMMA ReadFaultKeeps ==
  ASSUME PlainState, ReadFault
  PROVE  PlainState'
<1>1. Files /\ Kept
  BY DEF PlainState
<1>2. /\ step' = "crash" /\ copi < WindowEnd /\ ReadFaults
      /\ UNCHANGED <<input, offset_input, iteration, i, nb_1_successif, beyond, copi,
                     check_length_last_byte, prec, taille_out, taille_output_tot, output>>
  BY DEF ReadFault, file, sizes, out, ones
<1>3. Files' /\ Kept'
  BY <1>1, <1>2 DEF Files, Kept
<1>4. (copi < WindowEnd /\ ReadFaults)'
  <2>1. WindowEnd' = WindowEnd /\ MappingEnd' = MappingEnd
    BY <1>2, WindowKept
  <2>2. \A p : Memory(p)' = Memory(p)
    BY <1>2, <2>1 DEF Memory
  <2>3. \A p : SameUntil(p)' <=> SameUntil(p)
    BY <1>2, <2>2 DEF SameUntil
  <2> QED BY <1>2, <2>1, <2>3 DEF ReadFaults
<1>5. Mapping' /\ Counting' /\ Compressing' /\ Ending'
  BY <1>2, <1>4 DEF Mapping, Counting, Compressing, Ending
<1> QED BY <1>3, <1>5 DEF PlainState

LEMMA ResizeOutputKeeps ==
  ASSUME PlainState, ResizeOutput
  PROVE  PlainState'
<1>1. Files /\ Kept /\ Counting
  BY DEF PlainState
<1> DEFINE base == taille_output_tot
           total == taille_output_tot + taille_out
           start == OffsetOutput(taille_output_tot)
<1>2. /\ step = "count" /\ copi >= WindowEnd /\ step' = "compress"
      /\ taille_output_tot' = total
      /\ output' = [q \in 1 .. Max({total, Len(output)}) |->
                      IF q = total \/ q > Len(output) THEN 0 ELSE output[q]]
      /\ mapped' = [from |-> start, to |-> start + Pages(total - start)]
      /\ current' = base /\ nb_1_successif' = 0 /\ copi' = offset_input /\ i' = 0
      /\ taille_out' = taille_out /\ check_length_last_byte' = check_length_last_byte
      /\ prec' = prec /\ UNCHANGED file
  BY DEF ResizeOutput
<1>3. AtPosition /\ Coded(input, output, base, offset_input)
  BY <1>1, <1>2 DEF Counting
<1>4. /\ WindowOpen /\ copi = WindowEnd /\ WindowEnd \in Nat /\ offset_input \in Nat
      /\ offset_input < WindowEnd /\ offset_input < Len(input)
  BY <1>1, <1>2, <1>3, OpenAt DEF AtPosition
<1>5. PrecAt(WindowEnd) /\ \E T, z : WholeCount(T, z)
  BY <1>1, <1>2, <1>4 DEF Counting
<1>6. PICK T, z : WholeCount(T, z)
  BY <1>5
<1>7. /\ Counted(T, z) /\ z.at = WindowEnd /\ taille_out = z.size + Flush(z.ones)
      /\ z.size \in Nat /\ z.ones \in Nat /\ (z.size > 0 \/ z.ones > 0)
      /\ Passed(offset_input, 0, 0) \in T
  BY <1>4, <1>6 DEF WholeCount, Counted, Pass
<1>8. taille_out \in Nat /\ taille_out > 0
  <2>1. Flush(z.ones) \in Nat /\ (z.ones > 0 => Flush(z.ones) > 0)
    BY <1>7, FlushSizes
  <2> QED BY <1>7, <2>1
<1>9. /\ base \in Nat /\ Len(output) = base /\ output \in Seq(Value)
      /\ total \in Nat /\ base < total
  BY <1>1, <1>8, LenProperties DEF Kept
<1>10. Max({total, Len(output)}) = total
  <2> HIDE DEF total, base
  <2>1. total \in Int /\ Len(output) \in Int /\ ~(total <= Len(output))
    BY <1>9
  <2> QED BY <2>1, MaxOfTwo
<1>11. /\ output' \in Seq(Value) /\ Len(output') = total
       /\ \A q \in 1 .. base : output'[q] = output[q]
  <2>1. output' = [q \in 1 .. total |-> IF q = total \/ q > Len(output) THEN 0 ELSE output[q]]
    BY <1>2, <1>10
  <2> HIDE DEF total, base
  <2>2. ASSUME NEW q \in 1 .. total
        PROVE  (IF q = total \/ q > Len(output) THEN 0 ELSE output[q]) \in Value
    <3>1. 0 \in Value
      BY Constants DEF Value
    <3>2. q <= Len(output) => output[q] \in Value
      BY <1>9, <2>2
    <3> QED BY <1>9, <3>1, <3>2
  <2>3. output' \in [1 .. total -> Value]
    BY <2>1, <2>2
  <2>4. output' \in Seq(Value) /\ Len(output') = total
    BY <1>9, <2>3, FunctionIsSequence
  <2>5. \A q \in 1 .. base : output'[q] = output[q]
    BY <1>9, <2>1
  <2> QED BY <2>4, <2>5
<1>12. /\ start \in Nat /\ start <= base
       /\ start + Pages(total - start) \in Nat /\ total <= start + Pages(total - start)
  <2> HIDE DEF total, base
  <2>1. start \in Nat /\ start <= base
    <3>1. base \div PageSize \in Nat /\ base % PageSize \in Nat
          /\ base = PageSize * (base \div PageSize) + (base % PageSize)
      BY <1>9, Constants, DivMod
    <3> DEFINE q == base \div PageSize
               r == base % PageSize
    <3>2. start = q * PageSize
      BY DEF OffsetOutput, base
    <3> HIDE DEF q, r, start
    <3>3. q * PageSize = PageSize * q /\ q * PageSize \in Nat
      BY <3>1, Constants DEF q, Positive
    <3> DEFINE c == q * PageSize
    <3>4. c \in Nat /\ base = c + r /\ r \in Nat
      BY <3>1, <3>3 DEF q, r
    <3> HIDE DEF c
    <3>5. c <= base
      BY <1>9, <3>4
    <3> QED BY <3>2, <3>4, <3>5 DEF c
  <2> HIDE DEF start
  <2>2. total - start \in Nat
    BY <1>9, <2>1
  <2>3. Pages(total - start) \in Nat /\ total - start <= Pages(total - start)
    BY <2>2, PagesCover
  <2> QED BY <1>9, <2>1, <2>2, <2>3
<1> HIDE DEF start
<1>13. /\ WindowEnd' = WindowEnd /\ input' = input /\ offset_input' = offset_input
       /\ iteration' = iteration /\ RunBefore(WindowEnd)' = RunBefore(WindowEnd)
  <2>1. WindowEnd' = WindowEnd /\ input' = input /\ offset_input' = offset_input
        /\ iteration' = iteration
    BY <1>2, WindowKept DEF file
  <2> QED BY <2>1 DEF RunBefore
<1>14. Files'
  BY <1>1, <1>13 DEF Files
<1>15. Kept'
  BY <1>1, <1>2, <1>11 DEF Kept
<1>16. AtPosition'
  BY <1>2, <1>4, <1>13 DEF AtPosition
<1>17. PrecAt(WindowEnd)'
  BY <1>2, <1>5, <1>13 DEF PrecAt
<1>18. (Coded(input, output, current, copi - nb_1_successif))'
  <2>1. Coded(input, output', base, offset_input)
    BY <1>3, <1>11, CodedKept
  <2>2. copi' - nb_1_successif' = offset_input
    BY <1>2, <1>4
  <2> QED BY <1>2, <1>13, <2>1, <2>2
<1>19. WholeCount(T, z)'
  <2>1. Counted(T, z)'
    BY <1>2, <1>7, CountKept
  <2> QED BY <1>2, <1>7, <1>13, <2>1 DEF WholeCount
<1>20. PICK t \in T : t = Passed(offset_input, 0, 0)
  BY <1>7
<1>21. /\ t.at = copi' /\ nb_1_successif' = t.ones
       /\ current' + taille_out' = taille_output_tot' + t.size
  BY <1>2, <1>8, <1>9, <1>20 DEF Passed
<1>22. Compressing'
  <2>1. mapped'.from = start /\ mapped'.to = start + Pages(total - start)
    BY <1>2
  <2>2. /\ mapped'.from \in Nat /\ mapped'.to \in Nat /\ current' \in Nat
        /\ 0 < taille_out' /\ mapped'.from + taille_out' <= taille_output_tot'
        /\ taille_output_tot' <= mapped'.to
    BY <1>2, <1>8, <1>9, <1>12, <2>1
  <2>3. (copi # WindowEnd)'
    BY <1>2, <1>4, <1>13
  <2>4. \E Y, y : (/\ WholeCount(Y, y)
                   /\ \E x \in Y : /\ x.at = copi /\ nb_1_successif = x.ones
                                   /\ current + taille_out = taille_output_tot + x.size)'
    BY <1>19, <1>21
  <2> HIDE DEF total, base
  <2> QED BY <1>16, <1>17, <1>18, <2>2, <2>3, <2>4 DEF Compressing
<1>23. Mapping' /\ Counting' /\ Ending'
  BY <1>2 DEF Mapping, Counting, Ending
<1> QED BY <1>14, <1>15, <1>22, <1>23 DEF PlainState

LEMMA UnmapWindowKeeps ==
  ASSUME PlainState, UnmapWindow
  PROVE  PlainState'
<1>1. Files /\ Kept /\ Compressing
  BY DEF PlainState
<1>2. /\ step = "compress" /\ copi >= WindowEnd /\ nb_1_successif' = 0
      /\ UNCHANGED <<input, i, taille_out, taille_output_tot, output,
                     check_length_last_byte, prec>>
      /\ mapped.from # mapped.to =>
           step' = "map" /\ iteration' = iteration + 1 /\ offset_input' = WindowEnd
  BY DEF UnmapWindow, sizes, out
<1>3. /\ AtPosition /\ PrecAt(WindowEnd)
      /\ mapped.from \in Nat /\ mapped.to \in Nat /\ 0 < taille_out
      /\ mapped.from + taille_out <= taille_output_tot /\ taille_output_tot <= mapped.to
      /\ Coded(input, output, current, copi - nb_1_successif)
      /\ copi = WindowEnd => current = taille_output_tot /\ nb_1_successif = 0
  BY <1>1, <1>2 DEF Compressing
<1>4. taille_out \in Nat /\ taille_output_tot \in Nat
  BY <1>1, LenProperties DEF Kept
<1>5. step' = "map" /\ iteration' = iteration + 1 /\ offset_input' = WindowEnd
  BY <1>2, <1>3, <1>4
<1>6. /\ WindowOpen /\ copi = WindowEnd /\ WindowEnd \in Nat /\ offset_input \in Nat
      /\ offset_input < WindowEnd /\ offset_input < Len(input) /\ WindowEnd <= Len(input)
      /\ Len(input) \in Nat
  BY <1>1, <1>2, <1>3, OpenAt DEF AtPosition
<1>7. WindowEnd < Len(input) => WindowEnd % taille_max = 0
  <2>1. SUFFICES ASSUME WindowEnd < Len(input) PROVE WindowEnd % taille_max = 0
    OBVIOUS
  <2>2. WindowEnd = offset_input + taille_max
    BY <1>6, <2>1, Window
  <2>3. offset_input % taille_max = 0
    BY <1>1, <1>6 DEF Files
  <2>4. (offset_input + taille_max * 1) % taille_max = offset_input % taille_max
    BY <1>6, Constants, DivAdds
  <2>5. taille_max * 1 = taille_max
    BY Constants DEF Positive
  <2> QED BY <2>2, <2>3, <2>4, <2>5
<1>8. Files'
  <2>1. iteration' \in Nat
    BY <1>1, <1>5 DEF Files
  <2> QED BY <1>1, <1>2, <1>5, <1>6, <1>7, <2>1 DEF Files
<1>9. Kept'
  BY <1>1, <1>2 DEF Kept
<1>10. Mapping'
  <2>1. Coded(input, output, taille_output_tot, WindowEnd)
    <3>1. WindowEnd - 0 = WindowEnd
      BY <1>6
    <3> QED BY <1>3, <1>6, <3>1
  <2>2. RunBefore(offset_input)' = RunBefore(WindowEnd)
    BY <1>2, <1>5 DEF RunBefore
  <2>3. PrecAt(offset_input)'
    BY <1>2, <1>3, <1>5, <2>2 DEF PrecAt
  <2> QED BY <1>2, <1>5, <2>1, <2>3 DEF Mapping
<1>11. Counting' /\ Compressing' /\ Ending'
  BY <1>5 DEF Counting, Compressing, Ending
<1> QED BY <1>8, <1>9, <1>10, <1>11 DEF PlainState

LEMMA StutterKeeps ==
  ASSUME PlainState, UNCHANGED vars
  PROVE  PlainState'
<1>1. UNCHANGED <<file, step, copi, i, taille_out, taille_output_tot, output, mapped, current,
                  nb_1_successif, check_length_last_byte, prec>>
  BY DEF vars, sizes, out, ones
<1>2. UNCHANGED <<input, offset_input, iteration, beyond>>
  BY <1>1 DEF file
<1>3. WindowEnd' = WindowEnd /\ MappingEnd' = MappingEnd
  BY <1>2, WindowKept
<1>4. \A T, z : Counted(T, z) => Counted(T, z)'
  BY <1>1, CountKept
<1>6. ReadFaults => ReadFaults'
  <2>1. \A p : Memory(p)' = Memory(p)
    BY <1>2, <1>3 DEF Memory
  <2>2. \A p : SameUntil(p)' <=> SameUntil(p)
    BY <1>1, <2>1 DEF SameUntil
  <2> QED BY <1>2, <1>3, <2>2 DEF ReadFaults
<1>7. (PrecAt(offset_input) => PrecAt(offset_input)') /\ (PrecAt(WindowEnd) => PrecAt(WindowEnd)')
  BY <1>1, <1>2, <1>3 DEF PrecAt, RunBefore
<1>8. \A T, z : WholeCount(T, z) => WholeCount(T, z)'
  BY <1>1, <1>3, <1>4 DEF WholeCount
<1>9. AtPosition => AtPosition'
  BY <1>1, <1>2, <1>3 DEF AtPosition
<1>10. Files' /\ Kept' /\ Mapping' /\ Ending'
  BY <1>1, <1>2, <1>3, <1>6, <1>7 DEF PlainState, Files, Kept, Mapping, Ending
<1>11. Counting'
  BY <1>1, <1>2, <1>3, <1>4, <1>7, <1>8, <1>9 DEF PlainState, Counting
<1>12. Compressing'
  BY <1>1, <1>2, <1>3, <1>7, <1>8, <1>9 DEF PlainState, Compressing
<1> QED BY <1>10, <1>11, <1>12 DEF PlainState

-----------------------------------------------------------------------------
(* The pass that writes.                                                    *)

\* The writer before a run, after the literals in front of it, after the run,
\* and after the literals at the end of the window.
Writer ==
  [output |-> output, current |-> current, last |-> prec.offset_last_length, ok |-> TRUE]
OnesDone(first) ==
  IF num = 1 THEN Writer
  ELSE WriteOnes(Writer, copi, nb_1_successif, check_length_last_byte, first)
RunDone(first) == [WriteRun(OnesDone(first)) EXCEPT !.last = OffsetLastLength]
AllDone(first) ==
  IF LastRun THEN WriteOnes(RunDone(first), RunEnd, NewOnes, NewCheck, first)
  ELSE RunDone(first)

LEMMA CompressRunIs ==
  ASSUME CompressRun
  PROVE  /\ \E first \in Beyond :
              /\ output' = AllDone(first).output /\ current' = AllDone(first).current
              /\ step' = IF AllDone(first).ok THEN step ELSE "crash"
         /\ step = "compress" /\ copi < WindowEnd
         /\ prec' = [prec EXCEPT !.repetition = RepetitionCounted,
                                 !.offset_last_length = OffsetLastLength]
         /\ nb_1_successif' = IF LastRun THEN 0 ELSE NewOnes
         /\ check_length_last_byte' = IF LastRun THEN 0 ELSE NewCheck
         /\ copi' = RunEnd /\ i' = i + 1
         /\ UNCHANGED <<file, taille_out, taille_output_tot, mapped>>
<1>1. PICK first \in Beyond :
        LET w0 == [output |-> output, current |-> current,
                   last |-> prec.offset_last_length, ok |-> TRUE]
            w1 == IF num = 1 THEN w0
                  ELSE WriteOnes(w0, copi, nb_1_successif, check_length_last_byte, first)
            w2 == [WriteRun(w1) EXCEPT !.last = OffsetLastLength]
            w3 == IF LastRun THEN WriteOnes(w2, RunEnd, NewOnes, NewCheck, first) ELSE w2
        IN /\ output' = w3.output /\ current' = w3.current
           /\ step' = IF w3.ok THEN step ELSE "crash"
  BY DEF CompressRun
<1>2. /\ output' = AllDone(first).output /\ current' = AllDone(first).current
      /\ step' = IF AllDone(first).ok THEN step ELSE "crash"
  BY <1>1 DEF AllDone, RunDone, OnesDone, Writer
<1> QED BY <1>2 DEF CompressRun, sizes

\* A writer with another last length.
LEMMA OtherLast ==
  ASSUME NEW w, NEW v, NEW k \in Nat, NEW l \in Int, Extends(w, v, k)
  PROVE  /\ Extends(w, [v EXCEPT !.last = l], k)
         /\ [v EXCEPT !.last = l].output = v.output
         /\ [v EXCEPT !.last = l].current = v.current
<1>1. v \in Writers
  BY DEF Extends
<1>2. /\ [v EXCEPT !.last = l] \in Writers /\ [v EXCEPT !.last = l].ok = v.ok
      /\ [v EXCEPT !.last = l].output = v.output
      /\ [v EXCEPT !.last = l].current = v.current
  BY <1>1 DEF Writers
<1> QED BY <1>2 DEF Extends

LEMMA ExtendsBoth ==
  ASSUME NEW w, NEW v, NEW x, NEW k \in Nat, NEW l \in Nat, w.current \in Nat,
         Extends(w, v, k), Extends(v, x, l)
  PROVE  Extends(w, x, k + l)
BY DEF Extends

\* What a run adds to the output, and how many literals wait after it.
RunGain == IF num = 1 THEN 0 ELSE Flush(nb_1_successif) + RunSize(num)
LastGain == IF LastRun THEN Flush(NewOnes) ELSE 0
Waiting == IF LastRun THEN 0 ELSE NewOnes

LEMMA RunCompressed ==
  ASSUME AtRun, Kept, offset_input # 0 => PrecAt(WindowEnd),
         offset_input + nb_1_successif <= copi,
         HasRoom(Writer, RunGain + LastGain),
         Coded(input, output, current, copi - nb_1_successif),
         NEW first
  PROVE  /\ Extends(Writer, AllDone(first), RunGain + LastGain)
         /\ Coded(input, AllDone(first).output, AllDone(first).current, RunEnd - Waiting)
<1>1. /\ nb_1_successif \in Nat /\ check_length_last_byte = 0
      /\ WindowOpen /\ copi \in Nat /\ copi < WindowEnd /\ RunIs(copi, RunEnd)
      /\ offset_input \in Nat
  BY DEF Kept, AtRun, WindowOpen
<1>2. /\ num \in Nat /\ num > 0 /\ RunEnd = copi + num
      /\ byte = input[copi + 1] /\ byte \in Value
      /\ NewOnes = IF num = 1 THEN nb_1_successif + 1 ELSE 0
      /\ NewCheck = 0
      /\ \A w : WriteRun(w) = IF num = 1 THEN w ELSE Put(w, Repeated(byte, num))
  <2>1. WindowEnd \in {offset_input, WindowEnd}
    OBVIOUS
  <2> QED BY <1>1, <2>1, TreatedPlainly
<1>3. /\ RunEnd \in Nat /\ RunEnd <= WindowEnd /\ WindowEnd \in Nat
      /\ \A y \in copi + 1 .. RunEnd : input[y] = input[copi + 1]
  BY <1>1, RunIsInput, Window
<1>4. Flush(nb_1_successif) \in Nat /\ RunSize(num) \in Nat /\ NewOnes \in Nat
      /\ Flush(NewOnes) \in Nat
  <2>1. NewOnes \in Nat
    BY <1>1, <1>2
  <2> QED BY <1>1, <1>2, <2>1, FlushSizes
<1>5. RunGain \in Nat /\ LastGain \in Nat
  BY <1>4 DEF RunGain, LastGain
<1>6. HasRoom(Writer, RunGain) /\ \A v : Extends(Writer, v, RunGain) => HasRoom(v, LastGain)
  BY <1>5, RoomLeft
<1>7. /\ Writer.output = output /\ Writer.current = current
      /\ Writer \in Writers /\ Writer.ok /\ current \in Nat
  BY DEF Writer, HasRoom, Writers
<1>8. OffsetLastLength \in Int
  <2>1. taille_output_tot \in Nat /\ prec.offset_last_length \in Int
    BY LenProperties DEF Kept
  <2> QED BY <1>4, <2>1 DEF OffsetLastLength
<1>9. /\ Extends(Writer, WriteRun(OnesDone(first)), RunGain)
      /\ Coded(input, WriteRun(OnesDone(first)).output,
               WriteRun(OnesDone(first)).current, RunEnd - NewOnes)
  <2>1. CASE num = 1
    <3>1. WriteRun(OnesDone(first)) = Writer /\ RunGain = 0
      BY <1>2, <2>1 DEF OnesDone, RunGain
    <3>2. RunEnd - NewOnes = copi - nb_1_successif
      BY <1>1, <1>2, <2>1
    <3>3. Extends(Writer, Writer, 0)
      BY <1>7 DEF Extends
    <3> QED BY <1>7, <3>1, <3>2, <3>3
  <2>2. CASE num # 1
    <3> DEFINE v == WriteOnes(Writer, copi, nb_1_successif, 0, first)
               x == Put(v, Repeated(byte, num))
    <3>1. OnesDone(first) = v
      BY <1>1, <2>2 DEF OnesDone
    <3>2. WriteRun(OnesDone(first)) = x
      <4> HIDE DEF v
      <4> QED BY <1>2, <2>2, <3>1
    <3>3. RunGain = Flush(nb_1_successif) + RunSize(num)
      BY <2>2 DEF RunGain
    <3>4. /\ HasRoom(Writer, Flush(nb_1_successif))
          /\ \A y : Extends(Writer, y, Flush(nb_1_successif)) => HasRoom(y, RunSize(num))
      BY <1>4, <1>6, <3>3, RoomLeft
    <3>5. /\ Extends(Writer, v, Flush(nb_1_successif))
          /\ Coded(input, v.output, Writer.current + Flush(nb_1_successif), copi)
      <4>1. copi <= WindowEnd
        BY <1>1, <1>3
      <4>2. Coded(input, Writer.output, Writer.current, copi - nb_1_successif)
        BY <1>7
      <4> QED BY <1>1, <3>4, <4>1, <4>2, OnesWritten
    <3> HIDE DEF v
    <3>6. /\ HasRoom(v, RunSize(num)) /\ v.current = Writer.current + Flush(nb_1_successif)
      BY <3>4, <3>5 DEF Extends
    <3>7. \A y \in 1 .. num : input[copi + y] = byte
      <4>1. SUFFICES ASSUME NEW y \in 1 .. num PROVE input[copi + y] = byte
        OBVIOUS
      <4>2. copi + y \in copi + 1 .. RunEnd
        BY <1>1, <1>2
      <4> QED BY <1>2, <1>3, <4>2
    <3>8. /\ Extends(v, x, RunSize(num))
          /\ Coded(input, x.output, v.current + RunSize(num), copi + num)
      BY <1>1, <1>2, <3>5, <3>6, <3>7, RunWritten
    <3> HIDE DEF x
    <3>9. Extends(Writer, x, RunGain)
      BY <1>4, <1>7, <3>3, <3>5, <3>8, ExtendsBoth
    <3>10. x.current = v.current + RunSize(num) /\ RunEnd - NewOnes = copi + num
      BY <1>1, <1>2, <2>2, <3>8 DEF Extends
    <3> QED BY <3>2, <3>8, <3>9, <3>10
  <2> QED BY <2>1, <2>2
<1>10. /\ Extends(Writer, RunDone(first), RunGain)
       /\ Coded(input, RunDone(first).output, RunDone(first).current, RunEnd - NewOnes)
  <2> DEFINE v == WriteRun(OnesDone(first))
  <2>1. RunDone(first) = [v EXCEPT !.last = OffsetLastLength]
    BY DEF RunDone
  <2>2. Extends(Writer, v, RunGain) /\ Coded(input, v.output, v.current, RunEnd - NewOnes)
    BY <1>9
  <2> HIDE DEF v
  <2>3. /\ Extends(Writer, RunDone(first), RunGain)
        /\ RunDone(first).output = v.output /\ RunDone(first).current = v.current
    BY <1>5, <1>8, <2>1, <2>2, OtherLast
  <2> QED BY <2>2, <2>3
<1>11. CASE ~LastRun
  <2>1. AllDone(first) = RunDone(first) /\ LastGain = 0 /\ Waiting = NewOnes
    BY <1>11 DEF AllDone, LastGain, Waiting
  <2>2. RunGain + 0 = RunGain
    BY <1>5
  <2> QED BY <1>10, <2>1, <2>2
<1>12. CASE LastRun
  <2> DEFINE v == RunDone(first)
             x == WriteOnes(v, RunEnd, NewOnes, 0, first)
  <2>1. AllDone(first) = x /\ LastGain = Flush(NewOnes) /\ Waiting = 0
    BY <1>2, <1>12 DEF AllDone, LastGain, Waiting
  <2>2. Extends(Writer, v, RunGain) /\ Coded(input, v.output, v.current, RunEnd - NewOnes)
    BY <1>10
  <2> HIDE DEF v
  <2>3. HasRoom(v, Flush(NewOnes))
    BY <1>6, <2>1, <2>2
  <2>4. offset_input + NewOnes <= RunEnd
    BY <1>1, <1>2, <1>3 DEF AtRun
  <2>5. /\ Extends(v, x, Flush(NewOnes))
        /\ Coded(input, x.output, v.current + Flush(NewOnes), RunEnd)
    BY <1>1, <1>3, <1>4, <2>2, <2>3, <2>4, OnesWritten
  <2> HIDE DEF x
  <2>6. Extends(Writer, x, RunGain + LastGain)
    BY <1>4, <1>5, <1>7, <2>1, <2>2, <2>5, ExtendsBoth
  <2>7. x.current = v.current + Flush(NewOnes) /\ RunEnd - Waiting = RunEnd
    BY <1>3, <2>1, <2>5 DEF Extends
  <2> QED BY <2>1, <2>5, <2>6, <2>7
<1> QED BY <1>11, <1>12

LEMMA LastLengthKept ==
  ASSUME NEW p \in [last_byte : Int, repetition : Int, nb_1 : Int, offset_last_length : Int],
         NEW l \in Int
  PROVE  LET r == [p EXCEPT !.repetition = p.repetition, !.offset_last_length = l]
         IN /\ r.last_byte = p.last_byte /\ r.repetition = p.repetition
            /\ r \in [last_byte : Int, repetition : Int, nb_1 : Int, offset_last_length : Int]
OBVIOUS

LEMMA CompressRunKeeps ==
  ASSUME PlainState, Plain, CompressRun
  PROVE  PlainState'
<1>1. Files /\ Kept /\ Compressing
  BY DEF PlainState
<1>2. /\ step = "compress" /\ copi < WindowEnd
      /\ prec' = [prec EXCEPT !.repetition = RepetitionCounted,
                              !.offset_last_length = OffsetLastLength]
      /\ nb_1_successif' = IF LastRun THEN 0 ELSE NewOnes
      /\ check_length_last_byte' = IF LastRun THEN 0 ELSE NewCheck
      /\ copi' = RunEnd /\ i' = i + 1
      /\ UNCHANGED <<file, taille_out, taille_output_tot, mapped>>
  BY CompressRunIs
<1>3. PICK first : /\ output' = AllDone(first).output /\ current' = AllDone(first).current
                   /\ step' = IF AllDone(first).ok THEN step ELSE "crash"
  BY CompressRunIs
<1>4. /\ AtPosition /\ PrecAt(WindowEnd)
      /\ mapped.from \in Nat /\ mapped.to \in Nat /\ current \in Nat
      /\ 0 < taille_out /\ mapped.from + taille_out <= taille_output_tot
      /\ taille_output_tot <= mapped.to
      /\ Coded(input, output, current, copi - nb_1_successif)
  BY <1>1, <1>2 DEF Compressing
<1>5. /\ WindowOpen /\ copi \in Nat /\ WindowEnd \in Nat /\ copi # WindowEnd
      /\ offset_input \in Nat
  BY <1>1, <1>2, <1>4, OpenAt
<1>6. PICK T, z : /\ WholeCount(T, z)
                  /\ \E t \in T : /\ t.at = copi /\ nb_1_successif = t.ones
                                  /\ current + taille_out = taille_output_tot + t.size
  BY <1>1, <1>2, <1>5 DEF Compressing
<1>7. PICK t \in T : /\ t.at = copi /\ nb_1_successif = t.ones
                     /\ current + taille_out = taille_output_tot + t.size
  BY <1>6
<1>8. /\ Counted(T, z) /\ z.at = WindowEnd /\ taille_out = z.size + Flush(z.ones)
      /\ offset_input + t.ones <= t.at
      /\ t.size \in Nat /\ t.ones \in Nat /\ z.size \in Nat /\ z.ones \in Nat
      /\ Flush(z.ones) \in Nat
  <2>1. Counted(T, z) /\ z.at = WindowEnd /\ taille_out = z.size + Flush(z.ones)
    BY <1>6 DEF WholeCount
  <2>2. /\ offset_input + t.ones <= t.at
        /\ t.size \in Nat /\ t.ones \in Nat /\ z.size \in Nat /\ z.ones \in Nat
    BY <2>1 DEF Counted, Pass
  <2> QED BY <2>1, <2>2, FlushSizes
<1>9. RunIs(copi, RunEnd) /\ AfterRun(t, RunEnd) \in T
  BY <1>5, <1>7, <1>8, CountedNext
<1>10. RunEnd \in Nat /\ copi < RunEnd /\ RunEnd <= WindowEnd
  BY <1>5, <1>9, RunIsInput
<1>11. AtRun
  BY <1>1, <1>2, <1>4, <1>9, OnRun
<1>12. PICK u \in T : u = AfterRun(t, RunEnd)
  BY <1>9
<1>13. /\ u.at \in Nat /\ u.size \in Nat /\ u.ones \in Nat /\ u.size <= z.size
       /\ u.at = z.at => u = z
  BY <1>8 DEF Counted, Pass
<1>14. /\ nb_1_successif \in Nat /\ check_length_last_byte = 0 /\ taille_out \in Nat
       /\ output \in Seq(Value) /\ Len(output) = taille_output_tot
       /\ taille_output_tot \in Nat /\ i \in Nat
       /\ prec \in [last_byte : Int, repetition : Int, nb_1 : Int, offset_last_length : Int]
  BY <1>1, LenProperties DEF Kept
<1>15. /\ num = RunEnd - copi /\ num \in Nat /\ num > 0
       /\ NewOnes = (IF num = 1 THEN nb_1_successif + 1 ELSE 0)
       /\ NewCheck = 0 /\ RepetitionCounted = prec.repetition
  <2>1. WindowEnd \in {offset_input, WindowEnd}
    OBVIOUS
  <2> QED BY <1>4, <1>11, <1>14, <2>1, TreatedPlainly DEF num
<1>16. /\ u.at = RunEnd /\ u.size = t.size + RunGain /\ u.ones = NewOnes /\ RunGain \in Nat
  <2>1. Flush(nb_1_successif) \in Nat /\ RunSize(num) \in Nat
    BY <1>14, <1>15, FlushSizes
  <2>2. num = 1 <=> RunEnd = t.at + 1
    BY <1>5, <1>7, <1>10, <1>15
  <2>3. CASE num = 1
    <3>1. u = Passed(RunEnd, t.size, t.ones + 1)
      BY <1>12, <2>2, <2>3 DEF AfterRun
    <3> QED BY <1>7, <1>8, <1>15, <2>3, <3>1 DEF Passed, RunGain
  <2>4. CASE num # 1
    <3>1. u = Passed(RunEnd, t.size + Flush(t.ones) + RunSize(num), 0)
      BY <1>7, <1>12, <1>15, <2>2, <2>4 DEF AfterRun
    <3> QED BY <1>7, <1>8, <1>15, <2>1, <2>4, <3>1 DEF Passed, RunGain
  <2> QED BY <2>3, <2>4
<1>17. /\ LastGain \in Nat
       /\ current + (RunGain + LastGain) <= taille_output_tot
       /\ LastRun => current + (RunGain + LastGain) = taille_output_tot
  <2>1. /\ current + (RunGain + 0) <= taille_output_tot
        /\ u.size = z.size => current + (RunGain + Flush(z.ones)) = taille_output_tot
    <3>1. current \in Nat /\ current + taille_out = taille_output_tot + t.size
      BY <1>4, <1>7
    <3>2. /\ taille_out \in Nat /\ taille_output_tot \in Nat /\ t.size \in Nat /\ z.size \in Nat
          /\ RunGain \in Nat /\ Flush(z.ones) \in Nat /\ u.size \in Nat
          /\ taille_out = z.size + Flush(z.ones) /\ u.size = t.size + RunGain
          /\ u.size <= z.size
      BY <1>8, <1>13, <1>14, <1>16
    <3> QED BY <3>1, <3>2
  <2>2. CASE LastRun
    <3>1. u = z
      BY <1>8, <1>13, <1>16, <2>2 DEF LastRun
    <3>2. LastGain = Flush(z.ones)
      BY <1>16, <2>2, <3>1 DEF LastGain
    <3>3. current + (RunGain + LastGain) = taille_output_tot
      BY <2>1, <3>1, <3>2
    <3> QED BY <1>8, <1>14, <3>2, <3>3
  <2>3. CASE ~LastRun
    <3>1. LastGain = 0
      BY <2>3 DEF LastGain
    <3> QED BY <2>1, <2>3, <3>1
  <2> QED BY <2>2, <2>3
<1>18. HasRoom(Writer, RunGain + LastGain)
  <2>1. Writer \in Writers /\ Writer.ok /\ Writer.current = current /\ Writer.output = output
    BY <1>4, <1>14 DEF Writer, Writers
  <2>2. mapped.from <= current
    <3>1. /\ mapped.from \in Nat /\ mapped.from + taille_out <= taille_output_tot
          /\ current \in Nat /\ current + taille_out = taille_output_tot + t.size
          /\ t.size \in Nat /\ taille_out \in Nat /\ taille_output_tot \in Nat
      BY <1>4, <1>7, <1>8, <1>14
    <3> QED BY <3>1
  <2>3. current + (RunGain + LastGain) <= mapped.to
    BY <1>4, <1>14, <1>16, <1>17
  <2> QED BY <1>4, <1>14, <1>16, <1>17, <2>1, <2>2, <2>3 DEF HasRoom
<1>19. /\ Extends(Writer, AllDone(first), RunGain + LastGain)
       /\ Coded(input, AllDone(first).output, AllDone(first).current, RunEnd - Waiting)
  <2>1. offset_input + nb_1_successif <= copi
    BY <1>7, <1>8
  <2> QED BY <1>1, <1>4, <1>11, <1>18, <2>1, RunCompressed
<1>20. /\ step' = "compress" /\ current' = current + (RunGain + LastGain)
       /\ output' \in Seq(Value) /\ Len(output') = taille_output_tot
       /\ Coded(input, output', current', RunEnd - Waiting)
  BY <1>2, <1>3, <1>14, <1>19 DEF Extends, Writer, Writers
<1>21. /\ WindowEnd' = WindowEnd /\ input' = input /\ offset_input' = offset_input
       /\ iteration' = iteration /\ RunBefore(WindowEnd)' = RunBefore(WindowEnd)
  <2>1. WindowEnd' = WindowEnd /\ input' = input /\ offset_input' = offset_input
        /\ iteration' = iteration
    BY <1>2, WindowKept DEF file
  <2> QED BY <2>1 DEF RunBefore
<1>22. nb_1_successif' = Waiting /\ NewOnes \in Nat /\ Waiting \in Nat
  BY <1>2, <1>14, <1>15 DEF Waiting
<1>23. /\ prec'.last_byte = prec.last_byte /\ prec'.repetition = prec.repetition
       /\ prec' \in [last_byte : Int, repetition : Int, nb_1 : Int, offset_last_length : Int]
  <2>1. OffsetLastLength \in Int
    BY <1>14, <1>22 DEF OffsetLastLength
  <2> QED BY <1>2, <1>14, <1>15, <2>1, LastLengthKept
<1>24. Files'
  BY <1>1, <1>21 DEF Files
<1>25. Kept'
  <2>1. i' \in Nat /\ check_length_last_byte' = 0
    BY <1>2, <1>14, <1>15
  <2> QED BY <1>2, <1>14, <1>20, <1>22, <1>23, <2>1 DEF Kept
<1>26. AtPosition'
  BY <1>2, <1>4, <1>11, <1>14, NextPosition
<1>27. PrecAt(WindowEnd)'
  BY <1>4, <1>21, <1>23 DEF PrecAt
<1>28. Counted(T, z)'
  BY <1>2, <1>8, CountKept
<1>29. WholeCount(T, z)'
  BY <1>2, <1>8, <1>21, <1>28 DEF WholeCount
<1>30. Compressing'
  <2>1. ASSUME (copi # WindowEnd)'
        PROVE  /\ u.at = copi' /\ nb_1_successif' = u.ones
               /\ current' + taille_out' = taille_output_tot' + u.size
    <3>1. ~LastRun /\ LastGain = 0 /\ Waiting = NewOnes
      BY <1>2, <1>21, <2>1 DEF LastRun, LastGain, Waiting
    <3>2. (current + RunGain) + taille_out = taille_output_tot + u.size
      <4>1. current \in Nat /\ current + taille_out = taille_output_tot + t.size
        BY <1>4, <1>7
      <4>2. /\ taille_out \in Nat /\ taille_output_tot \in Nat /\ t.size \in Nat /\ z.size \in Nat
            /\ RunGain \in Nat /\ Flush(z.ones) \in Nat /\ u.size \in Nat
            /\ taille_out = z.size + Flush(z.ones) /\ u.size = t.size + RunGain
            /\ u.size <= z.size
        BY <1>8, <1>13, <1>14, <1>16
      <4> QED BY <4>1, <4>2
    <3>3. current' = current + RunGain /\ taille_out' = taille_out
          /\ taille_output_tot' = taille_output_tot
      BY <1>2, <1>4, <1>16, <1>20, <3>1
    <3> QED BY <1>2, <1>16, <1>22, <3>1, <3>2, <3>3
  <2>2. (copi # WindowEnd)' =>
          \E Y, y : (/\ WholeCount(Y, y)
                     /\ \E x \in Y : /\ x.at = copi /\ nb_1_successif = x.ones
                                     /\ current + taille_out = taille_output_tot + x.size)'
    BY <1>29, <2>1
  <2>3. (copi = WindowEnd)' => current' = taille_output_tot' /\ nb_1_successif' = 0
    <3>1. SUFFICES ASSUME (copi = WindowEnd)'
                   PROVE  current' = taille_output_tot' /\ nb_1_successif' = 0
      OBVIOUS
    <3>2. LastRun
      BY <1>2, <1>21, <3>1 DEF LastRun
    <3> QED BY <1>2, <1>17, <1>20, <3>2
  <2>4. current' \in Nat
    BY <1>4, <1>16, <1>17, <1>20
  <2>5. (Coded(input, output, current, copi - nb_1_successif))'
    BY <1>2, <1>20, <1>21, <1>22
  <2>6. /\ mapped'.from \in Nat /\ mapped'.to \in Nat
        /\ 0 < taille_out' /\ mapped'.from + taille_out' <= taille_output_tot'
        /\ taille_output_tot' <= mapped'.to
    BY <1>2, <1>4
  <2> QED BY <1>26, <1>27, <2>2, <2>3, <2>4, <2>5, <2>6 DEF Compressing
<1>31. Mapping' /\ Counting' /\ Ending'
  BY <1>20 DEF Mapping, Counting, Ending
<1> QED BY <1>24, <1>25, <1>30, <1>31 DEF PlainState

LEMMA PlainInvariance == Spec => []PlainInv
<1>1. Init => PlainInv
  BY InitPlain DEF PlainInv
<1>2. PlainInv /\ [Next]_vars => PlainInv'
  <2>1. SUFFICES ASSUME PlainInv, [Next]_vars, Plain' PROVE PlainState'
    BY DEF PlainInv
  <2>2. Plain
    BY <2>1, PlainBefore
  <2>3. PlainState
    BY <2>1, <2>2 DEF PlainInv
  <2>4. CASE MapWindow
    BY <2>3, <2>4, MapWindowKeeps
  <2>5. CASE CountRun
    BY <2>1, <2>2, <2>3, <2>5, CountRunKeeps
  <2>6. CASE ReadFault
    BY <2>3, <2>6, ReadFaultKeeps
  <2>7. CASE ResizeOutput
    BY <2>3, <2>7, ResizeOutputKeeps
  <2>8. CASE CompressRun
    BY <2>2, <2>3, <2>8, CompressRunKeeps
  <2>9. CASE UnmapWindow
    BY <2>3, <2>9, UnmapWindowKeeps
  <2>10. CASE Finish
    BY <2>3, <2>10, FinishKeeps
  <2>11. CASE Ended \/ UNCHANGED vars
    BY <2>3, <2>11, StutterKeeps DEF Ended
  <2> QED BY <2>1, <2>4, <2>5, <2>6, <2>7, <2>8, <2>9, <2>10, <2>11 DEF Next
<1> QED BY <1>1, <1>2, PTL DEF Spec

\* In a file that needs no change at a border the pass that writes fills what
\* the pass that counted asked for, byte for byte, and touches only memory that is
\* mapped: treatement_mmap_input counts and make_encode writes what was counted.
THEOREM SizedExactly == Spec => []SizePassExact
<1>1. PlainInv => SizePassExact
  <2>1. SUFFICES ASSUME Plain, PlainState
        PROVE  /\ step = "compress" => /\ current <= taille_output_tot
                                       /\ copi = WindowEnd => current = taille_output_tot
               /\ step = "crash" => copi < WindowEnd /\ ReadFaults
    BY DEF PlainInv, SizePassExact
  <2>2. ASSUME step = "compress"
        PROVE  /\ current <= taille_output_tot
               /\ copi = WindowEnd => current = taille_output_tot
    <3>1. Kept /\ Compressing
      BY <2>1 DEF PlainState
    <3>2. taille_output_tot \in Nat /\ taille_out \in Nat
      BY <3>1, LenProperties DEF Kept
    <3>3. current \in Nat /\ (copi = WindowEnd => current = taille_output_tot)
      BY <2>2, <3>1 DEF Compressing
    <3>4. CASE copi # WindowEnd
      <4>1. PICK T, z : /\ WholeCount(T, z)
                        /\ \E t \in T : /\ t.at = copi /\ nb_1_successif = t.ones
                                        /\ current + taille_out = taille_output_tot + t.size
        BY <2>2, <3>1, <3>4 DEF Compressing
      <4>2. PICK t \in T : current + taille_out = taille_output_tot + t.size
        BY <4>1
      <4>3. /\ taille_out = z.size + Flush(z.ones) /\ t.size <= z.size
            /\ t.size \in Nat /\ z.size \in Nat /\ z.ones \in Nat
        BY <4>1 DEF WholeCount, Counted, Pass
      <4>4. Flush(z.ones) \in Nat
        BY <4>3, FlushSizes
      <4> QED BY <3>2, <3>3, <4>2, <4>3, <4>4
    <3> QED BY <3>2, <3>3, <3>4
  <2>3. step = "crash" => copi < WindowEnd /\ ReadFaults
    BY <2>1 DEF PlainState, Ending
  <2> QED BY <2>2, <2>3
<1> QED BY <1>1, PlainInvariance, PTL

-----------------------------------------------------------------------------
(* The decoder gives back what a file tells.                                *)

\* What the decoder makes of f from p on with so many bytes in its buffer, when g
\* has what it makes of the rest.
DecodeAt(g, f, p, used) ==
  IF p > Len(f) THEN <<>>
  ELSE IF TokenEnd(f, p) > BlockEnd(f, p) THEN Undecodable
  ELSE LET filled == Pending(f, p, used) + Len(TokenBytes(f, p))
       IN IF filled > OutRoom THEN Undecodable
          ELSE TokenBytes(f, p) \o g[TokenEnd(f, p) + 1][filled]
Rest(g, f, p) == [used \in 0 .. OutRoom |-> DecodeAt(g, f, p, used)]

Positions(f) == 1 .. Len(f) + 1
DecodesIn(g, f) == g = [p \in Positions(f) |-> Rest(g, f, p)]

LEMMA DecodeIsFirst ==
  ASSUME NEW f
  PROVE  Decode(f) = (CHOOSE g : DecodesIn(g, f))[1][0]
BY DEF Decode, DecodesIn, DecodeAt, Rest, Positions

LEMMA TokenEnds ==
  ASSUME NEW f \in Seq(Value), NEW p \in 1 .. Len(f)
  PROVE  f[p] \in Nat /\ TokenEnd(f, p) \in Nat /\ p <= TokenEnd(f, p)
<1>1. f[p] \in Nat /\ LENGTH \in Nat /\ p \in Nat
  <2>1. f[p] \in Value /\ Len(f) \in Nat
    BY LenProperties
  <2>2. f[p] \in Nat /\ LENGTH \in Nat
    BY <2>1, Constants
  <2> QED BY <2>1, <2>2
<1>2. CASE f[p] = Newline
  BY <1>1, <1>2 DEF TokenEnd
<1>3. CASE f[p] # Newline /\ f[p] <= LENGTH
  <2>1. TokenEnd(f, p) = p + 1
    BY <1>3 DEF TokenEnd
  <2> QED BY <1>1, <2>1
<1>4. CASE f[p] # Newline /\ ~(f[p] <= LENGTH)
  <2>1. TokenEnd(f, p) = p + f[p] - LENGTH
    BY <1>4 DEF TokenEnd
  <2> QED BY <1>1, <1>4, <2>1
<1> QED BY <1>2, <1>3, <1>4

LEMMA BufferConstants ==
  InSize \in Positive /\ OutSize \in Positive /\ OutRoom \in Nat /\ InSize \in Nat
BY EncodeAssumption DEF Positive

\* What is read in one go ends with the file.
LEMMA BlockEnds ==
  ASSUME NEW f \in Seq(Value), NEW p \in 1 .. Len(f)
  PROVE  /\ BlockEnd(f, p) <= Len(f)
         /\ Len(f) <= InSize => BlockEnd(f, p) = Len(f)
<1> DEFINE q == (p - 1) \div InSize
<1>1. p - 1 \in Nat /\ Len(f) \in Nat
  BY LenProperties
<1>2. q \in Nat
  BY <1>1, BufferConstants, DivMod
<1> HIDE DEF q
<1>3. PICK e : e = (q + 1) * InSize
  OBVIOUS
<1>4. e \in Nat /\ InSize <= e
  <2>1. 1 * InSize <= (q + 1) * InSize
    <3>1. q + 1 \in Nat /\ 1 <= q + 1
      BY <1>2
    <3> QED BY <3>1, BufferConstants, TimesMonotone
  <2>2. (q + 1) * InSize \in Nat /\ 1 * InSize = InSize
    BY <1>2, BufferConstants
  <2> QED BY <1>3, <2>1, <2>2
<1>5. BlockEnd(f, p) = IF Len(f) <= e THEN Len(f) ELSE e
  <2>1. BlockEnd(f, p) = Min({Len(f), e})
    BY <1>3 DEF BlockEnd, q
  <2> QED BY <1>1, <1>4, <2>1, MinOfTwo
<1> QED BY <1>1, <1>4, <1>5, BufferConstants

\* Nothing is written before a file ends that is read in one go.
LEMMA AllPending ==
  ASSUME NEW f, NEW p \in Nat, 1 <= p, p <= InSize, f[p] # Newline,
         NEW used \in Nat, p = 1 => used = 0
  PROVE  Pending(f, p, used) = used
<1>1. CASE p = 1
  <2>1. used = 0
    BY <1>1
  <2>2. (OutSize * 0 + 0) % OutSize = 0
    <3>1. OutSize \in Positive /\ 0 < OutSize /\ 0 \in Nat
      BY BufferConstants DEF Positive
    <3> QED BY <3>1, DivUnique
  <2>3. OutSize * 0 + 0 = 0
    BY BufferConstants DEF Positive
  <2>4. used % OutSize = used
    BY <2>1, <2>2, <2>3
  <2> QED BY <2>4 DEF Pending
<1>2. CASE p # 1
  <2>1. (InSize * 0 + (p - 1)) % InSize = p - 1
    <3>1. InSize \in Positive /\ p - 1 \in Nat /\ p - 1 < InSize /\ 0 \in Nat
      BY BufferConstants
    <3> QED BY <3>1, DivUnique
  <2>2. InSize * 0 + (p - 1) = p - 1
    BY BufferConstants
  <2>3. (p - 1) % InSize # 0
    BY <1>2, <2>1, <2>2
  <2> QED BY <2>3 DEF Pending, StartsBlock
<1> QED BY <1>1, <1>2

LEMMA RestLooksAhead ==
  ASSUME NEW f \in Seq(Value), NEW p \in Positions(f), NEW g, NEW h,
         \A q \in Positions(f) : q > p => g[q] = h[q]
  PROVE  Rest(g, f, p) = Rest(h, f, p)
<1>1. Len(f) \in Nat /\ p \in Nat /\ p >= 1
  BY LenProperties DEF Positions
<1>2. ASSUME NEW used \in 0 .. OutRoom PROVE DecodeAt(g, f, p, used) = DecodeAt(h, f, p, used)
  <2>1. CASE p > Len(f)
    BY <2>1 DEF DecodeAt
  <2>2. CASE p <= Len(f) /\ TokenEnd(f, p) > BlockEnd(f, p)
    BY <2>2 DEF DecodeAt
  <2>3. CASE p <= Len(f) /\ ~(TokenEnd(f, p) > BlockEnd(f, p))
    <3>1. TokenEnd(f, p) \in Nat /\ p <= TokenEnd(f, p) /\ BlockEnd(f, p) <= Len(f)
      BY <1>1, <2>3, TokenEnds, BlockEnds
    <3>2. BlockEnd(f, p) \in Int
      <4>1. /\ Len(f) \in Int /\ p - 1 \in Nat
            /\ (p - 1) \div InSize \in Nat /\ InSize \in Nat
        BY <1>1, BufferConstants, DivMod
      <4>2. PICK e : e = ((p - 1) \div InSize + 1) * InSize
        OBVIOUS
      <4>3. e \in Int
        BY <4>1, <4>2
      <4> QED BY <4>1, <4>2, <4>3, MinOfTwo DEF BlockEnd
    <3>3. TokenEnd(f, p) + 1 \in Positions(f) /\ TokenEnd(f, p) + 1 > p
      BY <1>1, <2>3, <3>1, <3>2 DEF Positions
    <3>4. g[TokenEnd(f, p) + 1] = h[TokenEnd(f, p) + 1]
      BY <3>3
    <3> QED BY <2>3, <3>4 DEF DecodeAt
  <2> QED BY <1>1, <2>1, <2>2, <2>3
<1> QED BY <1>2 DEF Rest

LEMMA DecoderExists ==
  ASSUME NEW f \in Seq(Value)
  PROVE  \E g : DecodesIn(g, f)
<1> DEFINE D == Positions(f)
<1>1. PICK m \in Nat : D = 1 .. m
  <2>1. Len(f) + 1 \in Nat
    BY LenProperties
  <2> QED BY <2>1 DEF Positions
<1> DEFINE S == {d \in Nat : d <= m =>
                   \E g : /\ g = [p \in D |-> g[p]]
                          /\ \A p \in D : p > m - d => g[p] = Rest(g, f, p)}
<1>2. 0 \in S
  <2> DEFINE g == [p \in D |-> 0]
  <2>1. g = [p \in D |-> g[p]] /\ \A p \in D : ~(p > m - 0)
    BY <1>1
  <2> QED BY <2>1
<1>3. ASSUME NEW d \in Nat, d \in S, d + 1 <= m
      PROVE  \E g : /\ g = [p \in D |-> g[p]]
                    /\ \A p \in D : p > m - (d + 1) => g[p] = Rest(g, f, p)
  <2>1. PICK g : /\ g = [p \in D |-> g[p]]
                 /\ \A p \in D : p > m - d => g[p] = Rest(g, f, p)
    BY <1>1, <1>3
  <2> DEFINE h == [p \in D |-> IF p = m - d THEN Rest(g, f, m - d) ELSE g[p]]
  <2>2. m - d \in D /\ m - d \in Nat
    BY <1>1, <1>3
  <2>3. h[m - d] = Rest(g, f, m - d) /\ \A q \in D : q > m - d => h[q] = g[q]
    BY <1>1, <2>2
  <2>4. h = [p \in D |-> h[p]]
    OBVIOUS
  <2> HIDE DEF h
  <2>5. ASSUME NEW p \in D, p > m - (d + 1) PROVE h[p] = Rest(h, f, p)
    <3>1. p \in Nat /\ p >= m - d
      BY <1>1, <1>3, <2>5
    <3>2. \A q \in Positions(f) : q > p => g[q] = h[q]
      BY <1>1, <2>2, <2>3, <3>1
    <3>3. Rest(g, f, p) = Rest(h, f, p)
      BY <3>2, RestLooksAhead
    <3>4. CASE p = m - d
      BY <2>3, <3>3, <3>4
    <3>5. CASE p > m - d
      BY <2>1, <2>3, <3>3, <3>5
    <3> QED BY <2>2, <3>1, <3>4, <3>5
  <2> QED BY <2>4, <2>5
<1>4. \A d \in Nat : d \in S => d + 1 \in S
  BY <1>3
<1>5. Nat \subseteq S
  <2> HIDE DEF S
  <2> QED BY <1>2, <1>4, SetInduction
<1>6. PICK g : /\ g = [p \in D |-> g[p]]
               /\ \A p \in D : p > m - m => g[p] = Rest(g, f, p)
  BY <1>1, <1>5
<1>7. \A p \in D : g[p] = Rest(g, f, p)
  BY <1>1, <1>6
<1>8. [p \in D |-> g[p]] = [p \in D |-> Rest(g, f, p)]
  BY <1>7
<1>9. DecodesIn(g, f)
  BY <1>6, <1>8 DEF DecodesIn
<1> QED BY <1>9

\* The elements of d after a, up to b.
Part(d, a, b) == SubSeq(d, a + 1, b)

LEMMA PartIs ==
  ASSUME NEW V, NEW d \in Seq(V), NEW a \in Nat, NEW b \in Nat, a <= b, b <= Len(d)
  PROVE  /\ Part(d, a, b) \in Seq(V) /\ Len(Part(d, a, b)) = b - a
         /\ \A k \in 1 .. b - a : Part(d, a, b)[k] = d[a + k]
<1>1. Len(d) \in Nat
  BY LenProperties
<1>2. CASE a = b
  <2>1. a + 1 > b
    BY <1>2
  <2>2. SubSeq(d, a + 1, b) = << >>
    BY <1>1, <2>1, SubSeqProperties
  <2> QED BY <1>2, <2>2 DEF Part
<1>3. CASE a < b
  <2>1. a + 1 \in 1 .. Len(d) /\ b \in a + 1 .. Len(d)
    BY <1>1, <1>3
  <2>2. a + 1 \in 1 .. Len(d) + 1 /\ b \in (a + 1) - 1 .. Len(d)
    BY <1>1, <2>1
  <2>3. /\ SubSeq(d, a + 1, b) \in Seq(V) /\ Len(SubSeq(d, a + 1, b)) = b - (a + 1) + 1
        /\ \A k \in 1 .. b - (a + 1) + 1 : SubSeq(d, a + 1, b)[k] = d[(a + 1) + k - 1]
    BY <1>1, <2>1, <2>2, SubSeqProperties
  <2>4. b - (a + 1) + 1 = b - a /\ \A k \in 1 .. b - a : (a + 1) + k - 1 = a + k
    OBVIOUS
  <2> QED BY <2>3, <2>4 DEF Part
<1> QED BY <1>2, <1>3

LEMMA PartsJoin ==
  ASSUME NEW V, NEW d \in Seq(V), NEW a \in Nat, NEW b \in Nat, a <= b, b <= Len(d)
  PROVE  Part(d, a, b) \o Part(d, b, Len(d)) = Part(d, a, Len(d))
<1>0. PICK m : m = Len(d)
  OBVIOUS
<1>1. m \in Nat /\ a <= m /\ b <= m /\ m <= Len(d)
  BY <1>0, LenProperties
<1>2. PICK r : r = Part(d, a, b)
  OBVIOUS
<1>3. PICK s : s = Part(d, b, m)
  OBVIOUS
<1>4. PICK t : t = Part(d, a, m)
  OBVIOUS
<1>5. r \in Seq(V) /\ Len(r) = b - a /\ \A k \in 1 .. b - a : r[k] = d[a + k]
  BY <1>2, PartIs
<1>6. s \in Seq(V) /\ Len(s) = m - b /\ \A k \in 1 .. m - b : s[k] = d[b + k]
  BY <1>1, <1>3, PartIs
<1>7. t \in Seq(V) /\ Len(t) = m - a /\ \A k \in 1 .. m - a : t[k] = d[a + k]
  BY <1>1, <1>4, PartIs
<1>8. /\ r \o s \in Seq(V) /\ Len(r \o s) = Len(r) + Len(s)
      /\ \A k \in 1 .. Len(r) + Len(s) :
           (r \o s)[k] = IF k <= Len(r) THEN r[k] ELSE s[k - Len(r)]
  BY <1>5, <1>6, ConcatProperties
<1>9. Len(r \o s) = Len(t) /\ Len(r) + Len(s) = m - a
  BY <1>1, <1>5, <1>6, <1>7, <1>8
<1>10. ASSUME NEW k \in 1 .. Len(r \o s) PROVE (r \o s)[k] = t[k]
  <2>1. k \in 1 .. m - a /\ k \in 1 .. Len(r) + Len(s) /\ t[k] = d[a + k]
    BY <1>7, <1>8, <1>9
  <2>2. CASE k <= b - a
    <3>1. k \in 1 .. b - a
      BY <2>1, <2>2
    <3> QED BY <1>5, <1>8, <2>1, <2>2, <3>1
  <2>3. CASE k > b - a
    <3>1. k - (b - a) \in 1 .. m - b /\ b + (k - (b - a)) = a + k
      BY <1>1, <2>1, <2>3
    <3>2. (r \o s)[k] = s[k - (b - a)]
      BY <1>5, <1>8, <2>1, <2>3
    <3> QED BY <1>6, <2>1, <3>1, <3>2
  <2> QED BY <2>1, <2>2, <2>3
<1>11. r \o s = t
  BY <1>7, <1>8, <1>9, <1>10, SeqEqual
<1> QED BY <1>0, <1>2, <1>3, <1>4, <1>11

\* The bytes that come first, in front of the part that follows.
LEMMA ThenPart ==
  ASSUME NEW data \in Seq(Value), NEW a \in Nat, NEW b \in Nat, a <= b, b <= Len(data),
         NEW r \in Seq(Value), Len(r) = b - a, \A y \in 1 .. b - a : r[y] = data[a + y]
  PROVE  r \o Part(data, b, Len(data)) = Part(data, a, Len(data))
<1>1. /\ Part(data, a, b) \in Seq(Value) /\ Len(Part(data, a, b)) = b - a
      /\ \A y \in 1 .. b - a : Part(data, a, b)[y] = data[a + y]
  BY PartIs
<1>2. Part(data, a, b) \o Part(data, b, Len(data)) = Part(data, a, Len(data))
  BY PartsJoin
<1>3. r = Part(data, a, b)
  BY <1>1, SeqEqual
<1> QED BY <1>2, <1>3

LEMMA Repetition ==
  ASSUME NEW V, NEW v \in V, NEW n \in Nat
  PROVE  LET r == [y \in 1 .. n |-> v]
         IN r \in Seq(V) /\ Len(r) = n /\ \A y \in 1 .. n : r[y] = v
<1> DEFINE r == [y \in 1 .. n |-> v]
<1>1. r \in [1 .. n -> V] /\ \A y \in 1 .. n : r[y] = v
  OBVIOUS
<1> HIDE DEF r
<1>2. r \in Seq(V) /\ Len(r) = n
  BY <1>1, FunctionIsSequence
<1> QED BY <1>1, <1>2 DEF r

LEMMA TokenDecoded ==
  ASSUME NEW data \in Seq(Value), NEW f \in Seq(Value), NEW k \in Places, NEW l \in Places,
         Token(data, f, k, l), l.at <= Len(f), l.told <= Len(data),
         Len(f) <= InSize, Len(data) <= OutRoom, k.at = 0 => k.told = 0,
         NEW g, g[l.at + 1][l.told] = Part(data, l.told, Len(data))
  PROVE  /\ DecodeAt(g, f, k.at + 1, k.told) = Part(data, k.told, Len(data))
         /\ k.told <= l.told
<1>1. PICK p, t, u : p = k.at + 1 /\ t = k.told /\ u = l.told
  OBVIOUS
<1>2. PICK c : c = f[p]
  OBVIOUS
<1>3. /\ p \in Nat /\ 1 <= p /\ t \in Nat /\ u \in Nat /\ l.at \in Nat
      /\ Len(f) \in Nat /\ Len(data) \in Nat /\ k.at \in Nat /\ k.told \in Nat
      /\ u <= Len(data)
  BY <1>1, LenProperties DEF Places
<1>4. CASE c \in 1 .. LENGTH
  <2>1. PICK n : n = IF c = 1 THEN Newline ELSE c
    OBVIOUS
  <2>2. /\ c # Newline /\ l = Place(k.at + 2, k.told + n)
        /\ \A y \in k.told + 1 .. l.told : data[y] = f[k.at + 2]
    BY <1>1, <1>2, <1>4, <2>1, Constants DEF Token
  <2>3. l.at = k.at + 2 /\ l.told = k.told + n
    BY <2>2 DEF Place
  <2>4. n \in Nat /\ c \in Nat /\ c <= LENGTH
    BY <1>4, <2>1, Constants
  <2>5. l.at = p + 1 /\ l.at + 1 = p + 2 /\ p + 1 = k.at + 2
    BY <1>1, <1>3, <2>3
  <2>6. u = t + n /\ t <= u /\ u - t = n
    <3>1. u = t + n
      BY <1>1, <2>3
    <3> QED BY <1>3, <2>4, <3>1
  <2>7. ASSUME NEW y \in 1 .. n PROVE data[t + y] = f[p + 1]
    <3>1. t + y \in t + 1 .. u
      BY <1>3, <2>4, <2>6
    <3> QED BY <1>1, <2>2, <2>5, <3>1
  <2>8. PICK v \in Value : v = f[p + 1]
    <3>1. p + 1 \in 1 .. Len(f)
      BY <1>3, <2>5
    <3> QED BY <3>1
  <2>9. PICK r : r = [y \in 1 .. n |-> v]
    OBVIOUS
  <2>10. r \in Seq(Value) /\ Len(r) = n /\ \A y \in 1 .. n : r[y] = v
    BY <2>4, <2>9, Repetition
  <2>11. TokenEnd(f, p) = p + 1 /\ TokenBytes(f, p) = r
    <3>1. f[p] # Newline /\ f[p] <= LENGTH
      BY <1>2, <2>2, <2>4
    <3>2. TokenBytes(f, p) = [y \in 1 .. IF f[p] = 1 THEN Newline ELSE f[p] |-> f[p + 1]]
      BY <3>1 DEF TokenBytes
    <3>3. r = [y \in 1 .. IF f[p] = 1 THEN Newline ELSE f[p] |-> f[p + 1]]
      BY <1>2, <2>1, <2>8, <2>9
    <3>4. TokenEnd(f, p) = p + 1
      BY <3>1 DEF TokenEnd
    <3> QED BY <3>2, <3>3, <3>4
  <2>12. DecodeAt(g, f, p, t) = r \o Part(data, u, Len(data))
    <3>1. /\ p <= Len(f) /\ p + 1 <= Len(f) /\ p + 1 \in Nat /\ p \in 1 .. Len(f)
          /\ p <= InSize
      BY <1>3, <2>5, BufferConstants
    <3>2. BlockEnd(f, p) = Len(f)
      BY <3>1, BlockEnds
    <3>3. Pending(f, p, t) = t
      <4>1. f[p] # Newline /\ (p = 1 => t = 0)
        BY <1>1, <1>2, <1>3, <2>2
      <4> QED BY <1>3, <3>1, <4>1, AllPending
    <3>4. u <= OutRoom
      BY <1>3, BufferConstants
    <3>5. Len(TokenBytes(f, p)) = u - t
      BY <2>6, <2>10, <2>11
    <3>6. DecodeAt(g, f, p, t) = TokenBytes(f, p) \o g[(p + 1) + 1][u]
      <4>1. ~(p > Len(f)) /\ ~(p + 1 > Len(f))
        BY <1>3, <3>1
      <4>2. ~(TokenEnd(f, p) > BlockEnd(f, p))
        BY <2>11, <3>2, <4>1
      <4>3. Pending(f, p, t) + Len(TokenBytes(f, p)) = u
        BY <1>3, <3>3, <3>5
      <4>4. ~(u > OutRoom)
        BY <1>3, <3>4, BufferConstants
      <4>5. DecodeAt(g, f, p, t) = TokenBytes(f, p) \o g[TokenEnd(f, p) + 1][u]
        BY <4>1, <4>2, <4>3, <4>4, Zenon DEF DecodeAt
      <4> QED BY <2>11, <4>5, Zenon
    <3>7. g[(p + 1) + 1][u] = Part(data, u, Len(data))
      BY <1>1, <2>5
    <3> QED BY <2>11, <3>6, <3>7, Zenon
  <2>13. \A y \in 1 .. u - t : r[y] = data[t + y]
    BY <2>6, <2>7, <2>8, <2>10
  <2>14. r \o Part(data, u, Len(data)) = Part(data, t, Len(data))
    <3>1. Len(r) = u - t
      BY <2>6, <2>10
    <3> QED BY <1>3, <2>6, <2>10, <2>13, <3>1, ThenPart
  <2> QED BY <1>1, <2>6, <2>12, <2>14
<1>5. CASE c \notin 1 .. LENGTH
  <2>1. PICK n, q : n = c - LENGTH /\ q = l.at
    OBVIOUS
  <2>2. /\ c \in LENGTH + 1 .. 2 * LENGTH - 1
        /\ l = Place(k.at + 1 + n, k.told + n)
        /\ \A y \in 1 .. n : data[k.told + y] = f[k.at + 1 + y]
    BY <1>1, <1>2, <1>5, <2>1 DEF Token
  <2>3. l.at = k.at + 1 + n /\ l.told = k.told + n
    BY <2>2 DEF Place
  <2>4. n \in Nat /\ c \in Nat /\ c > LENGTH
    BY <2>1, <2>2, Constants
  <2>5. q = p + n /\ q \in Nat /\ p <= q /\ q - p = n /\ q <= Len(f)
    <3>1. q = p + n
      BY <1>1, <2>1, <2>3
    <3>2. q <= Len(f)
      BY <2>1
    <3> QED BY <1>3, <2>4, <3>1, <3>2
  <2>6. u = t + n /\ t <= u /\ u - t = n
    <3>1. u = t + n
      BY <1>1, <2>3
    <3> QED BY <1>3, <2>4, <3>1
  <2>7. \A y \in 1 .. n : data[t + y] = f[p + y]
    BY <1>1, <2>2
  <2>8. PICK r : r = Part(f, p, q)
    OBVIOUS
  <2>9. r \in Seq(Value) /\ Len(r) = q - p /\ \A y \in 1 .. q - p : r[y] = f[p + y]
    <3>1. p \in Nat /\ q \in Nat /\ p <= q /\ q <= Len(f)
      BY <1>3, <2>5
    <3>2. /\ Part(f, p, q) \in Seq(Value) /\ Len(Part(f, p, q)) = q - p
          /\ \A y \in 1 .. q - p : Part(f, p, q)[y] = f[p + y]
      BY <3>1, PartIs, Zenon
    <3> QED BY <2>8, <3>2, Zenon
  <2>10. TokenEnd(f, p) = q /\ TokenBytes(f, p) = r
    <3>1. f[p] # Newline /\ ~(f[p] <= LENGTH)
      BY <1>2, <2>4, Constants
    <3>2. p + f[p] - LENGTH = q
      <4>1. LENGTH \in Nat /\ c = n + LENGTH
        BY <2>1, <2>2, Constants
      <4> QED BY <1>2, <1>3, <2>4, <2>5, <4>1
    <3>3. TokenEnd(f, p) = q
      BY <3>1, <3>2 DEF TokenEnd
    <3>4. TokenBytes(f, p) = SubSeq(f, p + 1, TokenEnd(f, p))
      BY <3>1 DEF TokenBytes
    <3> QED BY <2>8, <3>3, <3>4 DEF Part
  <2>11. DecodeAt(g, f, p, t) = r \o Part(data, u, Len(data))
    <3>1. /\ p <= Len(f) /\ p \in 1 .. Len(f) /\ p <= InSize
      BY <1>3, <2>5, BufferConstants
    <3>2. BlockEnd(f, p) = Len(f)
      BY <3>1, BlockEnds
    <3>3. Pending(f, p, t) = t
      <4>1. f[p] # Newline /\ (p = 1 => t = 0)
        BY <1>1, <1>2, <1>3, <2>4, Constants
      <4> QED BY <1>3, <3>1, <4>1, AllPending
    <3>4. u <= OutRoom
      BY <1>3, BufferConstants
    <3>5. Len(TokenBytes(f, p)) = u - t
      BY <2>5, <2>6, <2>9, <2>10
    <3>6. DecodeAt(g, f, p, t) = TokenBytes(f, p) \o g[q + 1][u]
      <4>1. ~(p > Len(f)) /\ ~(q > Len(f))
        BY <1>3, <2>5, <3>1
      <4>2. ~(TokenEnd(f, p) > BlockEnd(f, p))
        BY <2>10, <3>2, <4>1
      <4>3. Pending(f, p, t) + Len(TokenBytes(f, p)) = u
        BY <1>3, <3>3, <3>5
      <4>4. ~(u > OutRoom)
        BY <1>3, <3>4, BufferConstants
      <4>5. DecodeAt(g, f, p, t) = TokenBytes(f, p) \o g[TokenEnd(f, p) + 1][u]
        BY <4>1, <4>2, <4>3, <4>4, Zenon DEF DecodeAt
      <4> QED BY <2>10, <4>5, Zenon
    <3>7. g[q + 1][u] = Part(data, u, Len(data))
      BY <1>1, <2>1
    <3> QED BY <2>10, <3>6, <3>7, Zenon
  <2>12. \A y \in 1 .. u - t : r[y] = data[t + y]
    BY <2>5, <2>6, <2>7, <2>9
  <2>13. r \o Part(data, u, Len(data)) = Part(data, t, Len(data))
    <3>1. Len(r) = u - t
      BY <2>5, <2>6, <2>9
    <3> QED BY <1>3, <2>6, <2>9, <2>12, <3>1, ThenPart
  <2> QED BY <1>1, <2>6, <2>11, <2>13
<1> QED BY <1>4, <1>5

LEMMA SeqWider ==
  ASSUME NEW V, NEW W, V \subseteq W, NEW d \in Seq(V)
  PROVE  d \in Seq(W)
<1>1. Len(d) \in Nat /\ d \in [1 .. Len(d) -> V]
  BY LenProperties
<1>2. d \in [1 .. Len(d) -> W]
  BY <1>1
<1> QED BY <1>1, <1>2, FunctionIsSequence, Zenon

LEMMA CodedDecodes ==
  ASSUME NEW data \in Seq(Value), NEW f \in Seq(Value), Coded(data, f, Len(f), Len(data)),
         Len(f) <= InSize, Len(data) <= OutRoom
  PROVE  Decode(f) = data
<1> DEFINE n == Len(f)
           e == Place(n, Len(data))
           o == Place(0, 0)
           g == CHOOSE h : DecodesIn(h, f)
<1>1. PICK K \in SUBSET Places : Chain(K, data, f, o, e)
  BY DEF Coded
<1>2. /\ n \in Nat /\ Len(data) \in Nat
      /\ o.at = 0 /\ o.told = 0 /\ e.at = n /\ e.told = Len(data)
  BY LenProperties DEF Place
<1> HIDE DEF o, e
<1>3. /\ o \in K /\ e \in K
      /\ \A k \in K : /\ k.at <= n /\ k.at \in Nat /\ k.told \in Nat
                      /\ k.at = n => k = e
                      /\ k.at # n => \E l \in K : Token(data, f, k, l)
  <2>1. \A k \in K : k.at \in Nat /\ k.told \in Nat
    BY DEF Places
  <2> QED BY <1>1, <1>2, <2>1 DEF Chain
<1>4. DecodesIn(g, f)
  <2>1. \E h : DecodesIn(h, f)
    BY DecoderExists
  <2> QED BY <2>1
<1> HIDE DEF g
<1>5. ASSUME NEW k \in K, k.told <= Len(data)
      PROVE  g[k.at + 1][k.told] = DecodeAt(g, f, k.at + 1, k.told)
  <2>1. k.at + 1 \in Positions(f)
    BY <1>2, <1>3 DEF Positions
  <2>2. g[k.at + 1] = Rest(g, f, k.at + 1)
    BY <1>4, <2>1 DEF DecodesIn
  <2>3. k.told \in 0 .. OutRoom
    BY <1>2, <1>3, <1>5, BufferConstants
  <2> QED BY <2>2, <2>3 DEF Rest
<1> DEFINE Good(k) == /\ k.told <= Len(data)
                      /\ g[k.at + 1][k.told] = Part(data, k.told, Len(data))
           Fits(k) == k.at = 0 => k.told = 0
           S == {d \in Nat : \A k \in K : k.at + d >= n /\ Fits(k) => Good(k)}
<1>6. Good(e)
  <2>1. DecodeAt(g, f, n + 1, Len(data)) = << >>
    BY <1>2 DEF DecodeAt
  <2>2. Part(data, Len(data), Len(data)) = << >>
    BY <1>2, SubSeqEmpty DEF Part
  <2>3. e.at + 1 = n + 1 /\ e.told = Len(data) /\ e.told <= Len(data)
    BY <1>2
  <2> HIDE DEF n
  <2> QED BY <1>3, <1>5, <2>1, <2>2, <2>3
<1> HIDE DEF Good
<1>7. 0 \in S
  BY <1>2, <1>3, <1>6
<1>8. ASSUME NEW d \in Nat, d \in S, NEW k \in K, k.at + (d + 1) >= n, Fits(k) PROVE Good(k)
  <2>1. CASE k.at = n
    BY <1>3, <1>6, <2>1
  <2>2. CASE k.at # n
    <3>1. PICK l \in K : Token(data, f, k, l)
      BY <1>3, <2>2
    <3>2. k \in Places /\ l \in Places
      OBVIOUS
    <3>3. k.at < l.at
      <4>1. \A q \in 1 .. l.at : f[q] = f[q]
        OBVIOUS
      <4> QED BY <3>1, <3>2, <4>1, TokenKept
    <3>4. Good(l)
      <4>1. l.at + d >= n /\ l.at # 0
        BY <1>2, <1>3, <1>8, <3>3
      <4> QED BY <1>8, <4>1
    <3>5. l.at <= Len(f) /\ l.told <= Len(data)
          /\ g[l.at + 1][l.told] = Part(data, l.told, Len(data))
      BY <1>3, <3>4 DEF Good
    <3>6. /\ DecodeAt(g, f, k.at + 1, k.told) = Part(data, k.told, Len(data))
          /\ k.told <= l.told
      BY <1>8, <3>1, <3>2, <3>5, TokenDecoded
    <3>7. k.told <= Len(data)
      BY <1>2, <1>3, <3>5, <3>6
    <3>8. g[k.at + 1][k.told] = Part(data, k.told, Len(data))
      BY <1>5, <3>6, <3>7
    <3> QED BY <3>7, <3>8 DEF Good
  <2> QED BY <2>1, <2>2
<1>9. \A d \in Nat : d \in S => d + 1 \in S
  BY <1>8
<1>10. Nat \subseteq S
  <2> HIDE DEF S
  <2> QED BY <1>7, <1>9, SetInduction
<1>11. Good(o)
  <2>1. n \in S
    BY <1>2, <1>10
  <2>2. o.at + n >= n /\ Fits(o)
    BY <1>2
  <2> QED BY <1>3, <2>1, <2>2
<1>12. g[1][0] = Part(data, 0, Len(data))
  <2>1. o.at + 1 = 1
    BY <1>2
  <2> QED BY <1>2, <1>11, <2>1 DEF Good
<1>13. data = Part(data, 0, Len(data))
  <2>1. PICK r : r = Part(data, 0, Len(data))
    OBVIOUS
  <2>2. PICK m : m = Len(data)
    OBVIOUS
  <2>3. m \in Nat /\ 0 <= m /\ m <= Len(data) /\ 0 \in Nat /\ r = Part(data, 0, m)
    BY <1>2, <2>1, <2>2
  <2>4. r \in Seq(Value) /\ Len(r) = m - 0 /\ \A y \in 1 .. m - 0 : r[y] = data[0 + y]
    BY <2>3, PartIs
  <2>5. \A y \in 1 .. Len(r) : y \in 1 .. m - 0 /\ 0 + y = y
    BY <2>3, <2>4
  <2>6. Len(r) = Len(data) /\ \A y \in 1 .. Len(r) : r[y] = data[y]
    BY <2>2, <2>3, <2>4, <2>5
  <2> QED BY <2>1, <2>4, <2>6, SeqEqual
<1> QED BY <1>12, <1>13, DecodeIsFirst DEF g

\* A file that needs no change at a border and that rle compressed is given back
\* by cat -x, however many windows encode cut it into, if cat reads the compressed
\* file in one block and the file has room in its output buffer; and compressing
\* such a file does not end with an error.
THEOREM PlainFileGivenBack == Spec => []PlainFileDecodes
<1>1. PlainInv => PlainFileDecodes
  <2>1. SUFFICES ASSUME Plain, PlainState
                 PROVE  /\ step # "error"
                        /\ step = "done" /\ FitsBuffers => Decode(output) = input
    BY DEF PlainInv, PlainFileDecodes
  <2>2. Files /\ Kept /\ Ending
    BY <2>1 DEF PlainState
  <2>3. ASSUME step = "done", FitsBuffers PROVE Decode(output) = input
    <3>1. Coded(input, output, Len(output), Len(input)) /\ output \in Seq(Value)
      BY <2>2, <2>3 DEF Ending, Kept
    <3>2. input \in Seq(Value)
      <4>1. input \in Seq(Byte) /\ Byte \subseteq Value
        BY <2>2, Constants DEF Files
      <4> QED BY <4>1, SeqWider
    <3> QED BY <2>3, <3>1, <3>2, CodedDecodes DEF FitsBuffers
  <2> QED BY <2>2, <2>3 DEF Ending
<1> QED BY <1>1, PlainInvariance, PTL

-----------------------------------------------------------------------------
(* Types: what is written is a byte, whatever the file.                     *)

\* What may be read where a byte is expected.
Readable == Value \cup {Unmapped}

TypedWriters ==
  {w \in [output : Seq(Value), current : Nat, last : Nat, ok : BOOLEAN] :
     mapped.from <= w.current}

\* The writers that write went on to v.
WritesOn(w, v) == v \in TypedWriters /\ v.last = w.last

LEMMA TypedFields ==
  ASSUME NEW w \in TypedWriters
  PROVE  /\ w.output \in Seq(Value) /\ w.current \in Nat /\ w.last \in Nat /\ w.ok \in BOOLEAN
         /\ mapped.from <= w.current
BY DEF TypedWriters

LEMMA StoreTyped ==
  ASSUME NEW f \in Seq(Value), NEW q \in Nat, NEW b \in Value
  PROVE  Store(f, q, b) \in Seq(Value)
<1>1. Len(f) \in Nat /\ f \in [1 .. Len(f) -> Value]
  BY LenProperties
<1>2. CASE q < Len(f)
  <2>1. Store(f, q, b) = [f EXCEPT ![q + 1] = b]
    BY <1>2 DEF Store
  <2>2. [f EXCEPT ![q + 1] = b] \in [1 .. Len(f) -> Value]
    BY <1>1
  <2>3. [f EXCEPT ![q + 1] = b] \in Seq(Value)
    BY <1>1, <2>2, FunctionIsSequence
  <2> QED BY <2>1, <2>3
<1>3. CASE ~(q < Len(f))
  BY <1>3 DEF Store
<1> QED BY <1>2, <1>3

LEMMA PutByteTyped ==
  ASSUME NEW w \in TypedWriters, mapped.from \in Nat, NEW b \in Readable
  PROVE  WritesOn(w, PutByte(w, b))
<1>1. /\ w.output \in Seq(Value) /\ w.current \in Nat /\ w.last \in Nat
      /\ w.ok \in BOOLEAN /\ mapped.from <= w.current
  BY TypedFields
<1>2. w \in [output : Seq(Value), current : Nat, last : Nat, ok : BOOLEAN]
  BY DEF TypedWriters
<1>3. CASE b = Unmapped
  <2>1. PICK v : v = [w EXCEPT !.ok = FALSE]
    OBVIOUS
  <2>2. /\ v \in [output : Seq(Value), current : Nat, last : Nat, ok : BOOLEAN]
        /\ v.current = w.current /\ v.last = w.last
    BY <1>2, <2>1
  <2>3. PutByte(w, b) = v
    BY <1>3, <2>1 DEF PutByte
  <2> QED BY <1>1, <2>2, <2>3 DEF WritesOn, TypedWriters
<1>4. CASE b # Unmapped
  <2>1. PICK s, c, o : /\ s = Store(w.output, w.current, b) /\ c = w.current + 1
                       /\ o = (w.ok /\ mapped.from <= w.current /\ w.current < mapped.to)
    OBVIOUS
  <2>2. PutByte(w, b) = [w EXCEPT !.output = s, !.current = c, !.ok = o]
    BY <1>4, <2>1 DEF PutByte
  <2>3. s \in Seq(Value)
    <3>1. b \in Value
      BY <1>4 DEF Readable
    <3> QED BY <1>1, <2>1, <3>1, StoreTyped
  <2>4. c \in Nat /\ mapped.from <= c
    BY <1>1, <2>1
  <2>5. o \in BOOLEAN
    BY <2>1
  <2>6. PICK v : v = [w EXCEPT !.output = s, !.current = c, !.ok = o]
    OBVIOUS
  <2>7. /\ v \in [output : Seq(Value), current : Nat, last : Nat, ok : BOOLEAN]
        /\ v.current = c /\ v.last = w.last
    BY <1>2, <2>3, <2>4, <2>5, <2>6
  <2> QED BY <2>2, <2>4, <2>6, <2>7 DEF WritesOn, TypedWriters
<1> QED BY <1>3, <1>4

LEMMA PutTyped ==
  ASSUME NEW w \in TypedWriters, mapped.from \in Nat, NEW bytes \in Seq(Readable)
  PROVE  WritesOn(w, Put(w, bytes))
<1> DEFINE V == {v \in TypedWriters : v.last = w.last}
           next == [x \in V \X Nat |->
                      IF x[2] < Len(bytes) THEN PutByte(x[1], bytes[x[2] + 1]) ELSE x[1]]
           g == CHOOSE s : PutsIn(s, w, bytes)
<1>1. Len(bytes) \in Nat /\ w \in V
  BY LenProperties
<1>2. \A v \in V, k \in Nat : k < Len(bytes) => PutByte(v, bytes[k + 1]) \in V
  <2>1. SUFFICES ASSUME NEW v \in V, NEW k \in Nat, k < Len(bytes)
                 PROVE  PutByte(v, bytes[k + 1]) \in V
    OBVIOUS
  <2>2. k + 1 \in 1 .. Len(bytes)
    BY <1>1, <2>1
  <2>3. bytes[k + 1] \in Readable
    BY <2>2
  <2>4. v \in TypedWriters /\ v.last = w.last
    OBVIOUS
  <2>5. WritesOn(v, PutByte(v, bytes[k + 1]))
    BY <2>3, <2>4, PutByteTyped
  <2> QED BY <2>4, <2>5 DEF WritesOn
<1> HIDE DEF V
<1>3. next \in [V \X Nat -> V]
  <2>1. ASSUME NEW x \in V \X Nat
        PROVE  (IF x[2] < Len(bytes) THEN PutByte(x[1], bytes[x[2] + 1]) ELSE x[1]) \in V
    <3>1. x[1] \in V /\ x[2] \in Nat
      OBVIOUS
    <3> QED BY <1>2, <3>1
  <2> QED BY <2>1
<1>4. PICK f \in [0 .. Len(bytes) -> V] : Begins(f, Len(bytes), w, next)
  <2> HIDE DEF next
  <2> QED BY <1>1, <1>3, FiniteRecursion
<1>5. /\ f[0] = w
      /\ \A k \in 0 .. Len(bytes) - 1 : f[k + 1] = PutByte(f[k], bytes[k + 1])
  <2>1. SUFFICES ASSUME NEW k \in 0 .. Len(bytes) - 1
                 PROVE  f[k + 1] = PutByte(f[k], bytes[k + 1])
    BY <1>4 DEF Begins
  <2>2. k \in Nat /\ k < Len(bytes) /\ k \in 0 .. Len(bytes)
    BY <1>1
  <2>3. f[k + 1] = next[<<f[k], k>>]
    BY <1>4, <2>1 DEF Begins
  <2>4. f[k] \in V
    BY <1>4, <2>2
  <2> QED BY <2>2, <2>3, <2>4
<1> HIDE DEF next
<1>6. PutsIn(f, w, bytes)
  <2>1. ASSUME NEW k \in 0 .. Len(bytes), k # 0 PROVE f[k] = PutByte(f[k - 1], bytes[k])
    <3>1. k - 1 \in 0 .. Len(bytes) - 1 /\ (k - 1) + 1 = k
      BY <1>1, <2>1
    <3> QED BY <1>5, <3>1
  <2>2. f = [k \in 0 .. Len(bytes) |-> f[k]]
    OBVIOUS
  <2>3. \A k \in 0 .. Len(bytes) : f[k] = IF k = 0 THEN w ELSE PutByte(f[k - 1], bytes[k])
    BY <1>5, <2>1
  <2> QED BY <2>2, <2>3 DEF PutsIn
<1>7. PutsIn(g, w, bytes)
  BY <1>6
<1> HIDE DEF g
<1>8. /\ g[0] = w
      /\ \A k \in Nat : k < Len(bytes) => g[k + 1] = PutByte(g[k], bytes[k + 1])
  <2>1. \A k \in 0 .. Len(bytes) : g[k] = IF k = 0 THEN w ELSE PutByte(g[k - 1], bytes[k])
    BY <1>7 DEF PutsIn
  <2>2. ASSUME NEW k \in Nat, k < Len(bytes) PROVE g[k + 1] = PutByte(g[k], bytes[k + 1])
    <3>1. k + 1 \in 0 .. Len(bytes) /\ k + 1 # 0 /\ (k + 1) - 1 = k
      BY <1>1, <2>2
    <3>2. g[k + 1] = PutByte(g[(k + 1) - 1], bytes[k + 1])
      BY <2>1, <3>1
    <3> QED BY <3>1, <3>2
  <2> QED BY <1>1, <2>1, <2>2
<1> DEFINE S == {k \in Nat : k <= Len(bytes) => g[k] \in V}
<1>9. 0 \in S
  BY <1>1, <1>8
<1>10. \A k \in Nat : k \in S => k + 1 \in S
  <2>1. ASSUME NEW k \in Nat, k \in S, k + 1 <= Len(bytes) PROVE g[k + 1] \in V
    <3>1. k < Len(bytes) /\ g[k] \in V
      BY <1>1, <2>1
    <3> QED BY <1>2, <1>8, <3>1
  <2> QED BY <2>1
<1>11. Nat \subseteq S
  <2> HIDE DEF S
  <2> QED BY <1>9, <1>10, SetInduction
<1>12. g[Len(bytes)] \in V
  BY <1>1, <1>11
<1> QED BY <1>12, PutIsLast DEF g, V, WritesOn

LEMMA PatchTyped ==
  ASSUME NEW w \in TypedWriters, NEW k \in Nat, NEW b \in Value
  PROVE  WritesOn(w, Patch(w, k, b))
<1>1. /\ w.output \in Seq(Value) /\ w.last \in Nat /\ mapped.from <= w.current
  BY TypedFields
<1>2. w \in [output : Seq(Value), current : Nat, last : Nat, ok : BOOLEAN]
  BY DEF TypedWriters
<1>3. CASE PatchedAt(w, k)
  <2>1. PatchOffset(w) \in Nat
    BY <1>1, Constants, DivMod DEF PatchOffset
  <2>2. PICK s : s = Store(w.output, PatchOffset(w) + k, b)
    OBVIOUS
  <2>3. s \in Seq(Value)
    <3>1. PatchOffset(w) + k \in Nat
      BY <2>1
    <3> QED BY <1>1, <2>2, <3>1, StoreTyped
  <2>4. PICK v : v = [w EXCEPT !.output = s]
    OBVIOUS
  <2>5. /\ v \in [output : Seq(Value), current : Nat, last : Nat, ok : BOOLEAN]
        /\ v.current = w.current /\ v.last = w.last
    BY <1>2, <2>3, <2>4
  <2>6. Patch(w, k, b) = v
    BY <1>3, <2>2, <2>4 DEF Patch
  <2> QED BY <1>1, <2>5, <2>6 DEF WritesOn, TypedWriters
<1>4. CASE ~PatchedAt(w, k)
  <2>1. PICK v : v = [w EXCEPT !.ok = FALSE]
    OBVIOUS
  <2>2. /\ v \in [output : Seq(Value), current : Nat, last : Nat, ok : BOOLEAN]
        /\ v.current = w.current /\ v.last = w.last
    BY <1>2, <2>1
  <2>3. Patch(w, k, b) = v
    BY <1>4, <2>1 DEF Patch
  <2> QED BY <1>1, <2>2, <2>3 DEF WritesOn, TypedWriters
<1> QED BY <1>3, <1>4

\* A writer that writes twice.
LEMMA WritesTwice ==
  ASSUME NEW w, NEW v, NEW x, WritesOn(w, v), WritesOn(v, x)
  PROVE  WritesOn(w, x)
BY DEF WritesOn

LEMMA WritesNothing ==
  ASSUME NEW w \in TypedWriters
  PROVE  WritesOn(w, w)
BY DEF WritesOn

LEMMA LastLengthTyped ==
  ASSUME NEW w \in TypedWriters
  PROVE  LastLength(w) \in Value
<1>1. w.output \in Seq(Value) /\ w.last \in Nat /\ Len(w.output) \in Nat
  BY TypedFields, LenProperties
<1>2. PatchOffset(w) \in Nat
  BY <1>1, Constants, DivMod DEF PatchOffset
<1>3. CASE PatchOffset(w) < Len(w.output)
  <2>1. PatchOffset(w) + 1 \in 1 .. Len(w.output)
    BY <1>1, <1>2, <1>3
  <2> QED BY <1>1, <1>3, <2>1 DEF LastLength
<1>4. CASE ~(PatchOffset(w) < Len(w.output))
  BY <1>4, Constants DEF LastLength, Value
<1> QED BY <1>3, <1>4

LEMMA LiteralsTyped ==
  ASSUME NEW bytes \in Seq(Readable)
  PROVE  Literals(bytes) \in Seq(Readable)
<1>1. PICK n : n = Len(bytes)
  OBVIOUS
<1>2. n \in Nat
  BY <1>1, LenProperties
<1>3. CASE n = 0
  <2>1. bytes = <<>>
    BY <1>1, <1>3, EmptySeq
  <2>2. Literals(bytes) \in [1 .. 0 -> Readable]
    BY <2>1 DEF Literals
  <2> QED BY <2>2, FunctionIsSequence
<1>4. CASE n # 0
  <2>1. n \in Positive
    BY <1>2, <1>4 DEF Positive
  <2>2. Value \subseteq Readable
    BY DEF Readable
  <2>3. PICK q : q = (n - 1) \div (LENGTH - 1)
    OBVIOUS
  <2> QED BY <1>1, <2>1, <2>2, <2>3, LiteralsIn
<1> QED BY <1>3, <1>4

LEMMA RepeatedTyped ==
  ASSUME NEW b \in Value, NEW n \in Nat, n # 0
  PROVE  Repeated(b, n) \in Seq(Readable)
<1>1. n \in Positive
  BY DEF Positive
<1>2. PICK q : q = (n - 1) \div LENGTH
  OBVIOUS
<1>3. Repeated(b, n) \in Seq(Value)
  BY <1>1, <1>2, RepeatedParts
<1>4. Value \subseteq Readable
  BY DEF Readable
<1> QED BY <1>3, <1>4, SeqWider

LEMMA MemoryReadable ==
  ASSUME WindowOpen, beyond \in Readable, NEW p \in Nat, p <= MappingEnd
  PROVE  Memory(p) \in Readable
<1>1. WindowEnd \in Nat /\ MappingEnd \in Nat
  BY Window
<1>2. CASE p < WindowEnd
  <2>1. Memory(p) \in Byte
    BY <1>2, Window
  <2> QED BY <2>1, Constants DEF Readable
<1>3. CASE p >= WindowEnd /\ p < MappingEnd
  <2>1. Memory(p) = 0
    BY <1>1, <1>3 DEF Memory
  <2> QED BY <2>1, Constants DEF Readable, Value
<1>4. CASE p >= WindowEnd /\ p = MappingEnd
  <2>1. ~(p < WindowEnd) /\ ~(p < MappingEnd) /\ p = MappingEnd
    BY <1>1, <1>4
  <2>2. Memory(p) = beyond
    BY <2>1 DEF Memory
  <2> QED BY <2>2
<1> QED BY <1>1, <1>2, <1>3, <1>4

LEMMA BeforeTyped ==
  ASSUME WindowOpen, beyond \in Readable, NEW p \in Int, p <= MappingEnd + 1,
         NEW n \in Nat, NEW first \in Readable
  PROVE  Before(p, n, first) \in Seq(Readable) /\ Len(Before(p, n, first)) = n
<1>1. offset_input \in Nat /\ MappingEnd \in Nat
  BY Window DEF WindowOpen
<1>2. ASSUME NEW k \in 1 .. n
      PROVE  (IF p - n + k - 1 < offset_input THEN first ELSE Memory(p - n + k - 1)) \in Readable
  <2>1. CASE p - n + k - 1 < offset_input
    BY <2>1
  <2>2. CASE ~(p - n + k - 1 < offset_input)
    <3>1. PICK q : q = p - n + k - 1
      OBVIOUS
    <3>2. q \in Nat /\ q <= MappingEnd
      BY <1>1, <2>2, <3>1
    <3>3. Memory(q) \in Readable
      BY <3>2, MemoryReadable
    <3> QED BY <2>2, <3>1, <3>3
  <2> QED BY <2>1, <2>2
<1>3. PICK f : f = Before(p, n, first)
  OBVIOUS
<1>4. f \in [1 .. n -> Readable]
  BY <1>2, <1>3 DEF Before
<1>5. f \in Seq(Readable) /\ Len(f) = n
  BY <1>4, FunctionIsSequence
<1> QED BY <1>3, <1>5

LEMMA RoomRange ==
  ASSUME NEW n \in Nat
  PROVE  /\ Precedent(n) \in 0 .. LENGTH - 1 /\ Room(n) \in 0 .. LENGTH - 1
         /\ Precedent(n) + Room(n) = LENGTH - 1
         /\ n # 0 => Room(n) <= LENGTH - 2
<1>1. Precedent(n) \in 0 .. LENGTH - 1 /\ (n # 0 => Precedent(n) >= 1)
  <2>1. CASE n = 0
    BY <2>1, Constants DEF Precedent
  <2>2. CASE n # 0
    <3>1. n - 1 \in Nat
      BY <2>2
    <3>2. (n - 1) % (LENGTH - 1) \in Nat /\ (n - 1) % (LENGTH - 1) < LENGTH - 1
      BY <3>1, Constants, DivMod
    <3>3. Precedent(n) = 1 + ((n - 1) % (LENGTH - 1))
      BY <2>2 DEF Precedent
    <3> QED BY <3>2, <3>3, Constants
  <2> QED BY <2>1, <2>2
<1>2. Room(n) = LENGTH - 1 - Precedent(n)
  BY DEF Room
<1> QED BY <1>1, <1>2, Constants

LEMMA WriteOnesTyped ==
  ASSUME NEW w \in TypedWriters, mapped.from \in Nat, WindowOpen, beyond \in Readable,
         prec.nb_1 \in Nat, NEW p \in Nat, p <= MappingEnd + 1, NEW n \in Nat,
         NEW check \in {0, 1}, NEW first \in Readable
  PROVE  WritesOn(w, WriteOnes(w, p, n, check, first))
<1>1. CASE n = 0
  <2>1. WriteOnes(w, p, n, check, first) = w
    BY <1>1 DEF WriteOnes
  <2> QED BY <2>1, WritesNothing
<1>2. CASE n # 0 /\ check = 0
  <2>1. WriteOnes(w, p, n, check, first) = Put(w, Literals(Before(p, n, first)))
    BY <1>2 DEF WriteOnes
  <2>2. Before(p, n, first) \in Seq(Readable)
    BY BeforeTyped
  <2>3. Literals(Before(p, n, first)) \in Seq(Readable)
    BY <2>2, LiteralsTyped
  <2> QED BY <2>1, <2>3, PutTyped
<1>3. CASE n # 0 /\ check = 1
  <2>1. PICK data, kept : data = Before(p - 1, n, first) /\ kept = Min({n, Room(prec.nb_1)})
    OBVIOUS
  <2>2. PICK x : x = Patch(w, 0, LENGTH + Precedent(prec.nb_1) + kept)
    OBVIOUS
  <2>3. PICK y : y = Put(x, SubSeq(data, 1, kept))
    OBVIOUS
  <2>4. PICK z : z = Put(y, Literals(SubSeq(data, kept + 1, n)))
    OBVIOUS
  <2>5. WriteOnes(w, p, n, check, first) = z
    BY <1>3, <2>1, <2>2, <2>3, <2>4 DEF WriteOnes
  <2>6. MappingEnd \in Nat
    BY Window
  <2>7. data \in Seq(Readable) /\ Len(data) = n
    <3>1. p - 1 \in Int /\ p - 1 <= MappingEnd + 1
      BY <2>6
    <3> QED BY <2>1, <3>1, BeforeTyped
  <2>8. /\ kept \in Nat /\ kept <= n
        /\ LENGTH + Precedent(prec.nb_1) + kept \in Value
    <3>1. PICK r, q : r = Room(prec.nb_1) /\ q = Precedent(prec.nb_1)
      OBVIOUS
    <3>2. r \in 0 .. LENGTH - 1 /\ q \in 0 .. LENGTH - 1 /\ q + r = LENGTH - 1
      BY <3>1, RoomRange
    <3>3. kept = IF n <= r THEN n ELSE r
      BY <2>1, <3>1, <3>2, Constants, MinOfTwo
    <3>4. kept \in Nat /\ kept <= n /\ kept <= r
      BY <3>2, <3>3, Constants
    <3>5. LENGTH + q + kept \in Value
      BY <3>2, <3>4, Constants DEF Value
    <3> QED BY <3>1, <3>4, <3>5
  <2>9. WritesOn(w, x)
    BY <2>2, <2>8, PatchTyped
  <2>10. WritesOn(x, y)
    <3>1. Part(data, 0, kept) \in Seq(Readable)
      BY <2>7, <2>8, PartIs
    <3>2. SubSeq(data, 1, kept) \in Seq(Readable)
      BY <3>1 DEF Part
    <3> QED BY <2>3, <2>9, <3>2, PutTyped DEF WritesOn
  <2>11. WritesOn(y, z)
    <3>1. n <= Len(data)
      BY <2>7
    <3>2. Part(data, kept, n) \in Seq(Readable)
      BY <2>7, <2>8, <3>1, PartIs
    <3>3. SubSeq(data, kept + 1, n) \in Seq(Readable)
      BY <3>2 DEF Part
    <3>4. Literals(SubSeq(data, kept + 1, n)) \in Seq(Readable)
      BY <3>3, LiteralsTyped
    <3> QED BY <2>4, <2>10, <3>4, PutTyped DEF WritesOn
  <2> QED BY <2>5, <2>9, <2>10, <2>11, WritesTwice
<1> QED BY <1>1, <1>2, <1>3

\* One of the passes is at a run of the window.
AtByte == WindowOpen /\ copi \in Nat /\ offset_input <= copi /\ copi < WindowEnd

PrecTyped ==
  prec \in [last_byte : Value, repetition : 0 .. LENGTH, nb_1 : Nat, offset_last_length : Nat]

LEMMA CurrentRun ==
  ASSUME AtByte
  PROVE  /\ RunEnd \in Nat /\ copi < RunEnd /\ RunEnd <= MappingEnd + 1
         /\ num \in Nat /\ num # 0 /\ num = RunEnd - copi
         /\ byte \in Value
         /\ \A p \in copi .. RunEnd - 1 : Memory(p) = Memory(copi)
         /\ RunEnd <= WindowEnd => Memory(RunEnd) # Memory(copi)
         /\ num = 1 => RunEnd = copi + 1 /\ RunEnd <= WindowEnd
<1>1. /\ RunEnd \in Nat /\ copi < RunEnd /\ RunEnd <= MappingEnd + 1
      /\ \A p \in copi .. RunEnd - 1 : Memory(p) = Memory(copi)
      /\ RunEnd <= WindowEnd => RunIs(copi, RunEnd)
  BY RunEnds DEF AtByte
<1>2. num \in Nat /\ num # 0 /\ num = RunEnd - copi
  BY <1>1 DEF num, AtByte
<1>3. byte \in Value
  <2>1. Memory(copi) \in Byte
    BY Window DEF AtByte
  <2> QED BY <2>1, Constants DEF byte
<1>4. num = 1 => RunEnd = copi + 1 /\ RunEnd <= WindowEnd
  <2>1. WindowEnd \in Nat
    BY Window DEF AtByte
  <2> QED BY <1>1, <1>2, <2>1 DEF AtByte
<1> QED BY <1>1, <1>2, <1>3, <1>4 DEF RunIs

LEMMA LengthsTyped == LENGTH \in Value /\ \A n \in 0 .. LENGTH : n \in Value
BY Constants DEF Value

LEMMA TakeLastLiteralTyped ==
  ASSUME NEW w \in TypedWriters, prec.nb_1 \in Nat, NEW n \in Nat
  PROVE  WritesOn(w, TakeLastLiteral(w, n))
<1>1. PICK len : len = Min({n, LENGTH})
  OBVIOUS
<1>2. len \in 0 .. LENGTH
  <2>1. len = IF n <= LENGTH THEN n ELSE LENGTH
    BY <1>1, Constants, MinOfTwo
  <2> QED BY <2>1, Constants
<1>3. len \in Value
  BY <1>2, LengthsTyped
<1>4. CASE LastLengthShared
  <2>1. PICK d : d = (LastLength(w) - 1) % (2 * LENGTH)
    OBVIOUS
  <2>2. PICK v : v = Patch(w, 0, d)
    OBVIOUS
  <2>3. d \in Value
    <3>1. LastLength(w) \in Value
      BY LastLengthTyped
    <3>2. PICK a, m : a = LastLength(w) - 1 /\ m = 2 * LENGTH
      OBVIOUS
    <3>3. a \in Int /\ m \in Nat /\ m > 0
      BY <3>1, <3>2, Constants DEF Value
    <3>4. a % m \in 0 .. m - 1
      BY <3>3
    <3> QED BY <2>1, <3>2, <3>4 DEF Value
  <2>4. WritesOn(w, v)
    BY <2>2, <2>3, PatchTyped
  <2>5. WritesOn(v, Patch(v, prec.nb_1, len))
    BY <1>3, <2>4, PatchTyped DEF WritesOn
  <2>6. TakeLastLiteral(w, n) = Patch(v, prec.nb_1, len)
    BY <1>1, <1>4, <2>1, <2>2 DEF TakeLastLiteral
  <2> QED BY <2>4, <2>5, <2>6, WritesTwice
<1>5. CASE ~LastLengthShared
  <2>1. TakeLastLiteral(w, n) = Patch(w, 0, len)
    BY <1>1, <1>5 DEF TakeLastLiteral
  <2> QED BY <1>3, <2>1, PatchTyped
<1> QED BY <1>4, <1>5

LEMMA PutRepeated ==
  ASSUME NEW w, NEW v, WritesOn(w, v), mapped.from \in Nat, NEW b \in Value,
         NEW n \in Nat, n # 0
  PROVE  WritesOn(w, Put(v, Repeated(b, n)))
<1>1. Repeated(b, n) \in Seq(Readable)
  BY RepeatedTyped
<1>2. WritesOn(v, Put(v, Repeated(b, n)))
  BY <1>1, PutTyped DEF WritesOn
<1> QED BY <1>2, WritesTwice

LEMMA WriteRunAtBorderTyped ==
  ASSUME NEW w \in TypedWriters, mapped.from \in Nat, AtByte, PrecTyped
  PROVE  WritesOn(w, WriteRunAtBorder(w))
<1>1. num \in Nat /\ num # 0 /\ byte \in Value /\ LENGTH \in Nat /\ LENGTH >= 3
  BY CurrentRun, Constants
<1>2. prec.repetition \in 0 .. LENGTH /\ prec.nb_1 \in Nat
  BY DEF PrecTyped
<1>3. WritesOn(w, w) /\ WritesOn(w, Patch(w, 0, LENGTH))
  BY LengthsTyped, WritesNothing, PatchTyped
<1>4. CASE same_byte /\ last_byte_repeated /\ num > LENGTH
  <2>0. ~(num <= LENGTH) /\ ~last_byte_succession_1
    BY <1>1, <1>2, <1>4 DEF last_byte_repeated, last_byte_succession_1
  <2>1. WriteRunAtBorder(w) =
          Put(Patch(w, 0, LENGTH), Repeated(byte, num - (LENGTH - prec.repetition)))
    BY <1>4, <2>0 DEF WriteRunAtBorder
  <2>2. num - (LENGTH - prec.repetition) \in Nat /\ num - (LENGTH - prec.repetition) # 0
    BY <1>1, <1>2, <1>4
  <2> QED BY <1>1, <1>3, <2>1, <2>2, PutRepeated
<1>5. CASE same_byte /\ last_byte_repeated /\ num <= LENGTH
  <2>1. ~(num > LENGTH) /\ ~last_byte_succession_1
    BY <1>1, <1>2, <1>5 DEF last_byte_repeated, last_byte_succession_1
  <2>2. WriteRunAtBorder(w) =
          IF LENGTH - prec.repetition >= num
          THEN Patch(w, 0, prec.repetition)
          ELSE Put(Patch(w, 0, LENGTH), Repeated(byte, num))
    BY <1>5, <2>1 DEF WriteRunAtBorder
  <2>3. WritesOn(w, Patch(w, 0, prec.repetition))
    BY <1>2, LengthsTyped, PatchTyped
  <2>4. WritesOn(w, Put(Patch(w, 0, LENGTH), Repeated(byte, num)))
    BY <1>1, <1>3, PutRepeated
  <2> QED BY <2>2, <2>3, <2>4
<1>6. CASE same_byte /\ last_byte_succession_1
  <2>1. ~last_byte_repeated
    BY <1>6 DEF last_byte_repeated, last_byte_succession_1
  <2>2. PICK v : v = TakeLastLiteral(w, num + 1)
    OBVIOUS
  <2>3. PICK start : start = IF LastLengthShared THEN <<byte>> ELSE <<>>
    OBVIOUS
  <2>4. WriteRunAtBorder(w) =
          IF num < LENGTH THEN v ELSE Put(v, start \o Repeated(byte, num + 1 - LENGTH))
    BY <1>6, <2>1, <2>2, <2>3 DEF WriteRunAtBorder
  <2>5. WritesOn(w, v)
    BY <1>1, <1>2, <2>2, TakeLastLiteralTyped
  <2>6. ASSUME num >= LENGTH
        PROVE  WritesOn(w, Put(v, start \o Repeated(byte, num + 1 - LENGTH)))
    <3>1. num + 1 - LENGTH \in Nat /\ num + 1 - LENGTH # 0
      BY <1>1, <2>6
    <3>2. Repeated(byte, num + 1 - LENGTH) \in Seq(Readable)
      BY <1>1, <3>1, RepeatedTyped
    <3>3. start \in Seq(Readable)
      <4>1. byte \in Readable
        BY <1>1 DEF Readable
      <4>2. <<byte>> \in Seq(Readable) /\ <<>> \in Seq(Readable)
        BY <4>1
      <4> QED BY <2>3, <4>2
    <3>4. start \o Repeated(byte, num + 1 - LENGTH) \in Seq(Readable)
      BY <3>2, <3>3, ConcatProperties
    <3>5. WritesOn(v, Put(v, start \o Repeated(byte, num + 1 - LENGTH)))
      BY <2>5, <3>4, PutTyped DEF WritesOn
    <3> QED BY <2>5, <3>5, WritesTwice
  <2>7. num < LENGTH \/ num >= LENGTH
    BY <1>1
  <2> QED BY <2>4, <2>5, <2>6, <2>7
<1>7. CASE ~same_byte \/ (~last_byte_repeated /\ ~last_byte_succession_1)
  <2>1. WriteRunAtBorder(w) = Put(w, Repeated(byte, num))
    BY <1>7 DEF WriteRunAtBorder
  <2> QED BY <1>1, <1>3, <2>1, PutRepeated
<1>8. num > LENGTH \/ num <= LENGTH
  BY <1>1
<1> QED BY <1>4, <1>5, <1>6, <1>7, <1>8

LEMMA WriteOneAtBorderTyped ==
  ASSUME NEW w \in TypedWriters, mapped.from \in Nat, AtByte, PrecTyped
  PROVE  WritesOn(w, WriteOneAtBorder(w))
<1>1. byte \in Value /\ LENGTH \in Nat
  BY CurrentRun, Constants
<1>2. prec.repetition \in 0 .. LENGTH /\ prec.nb_1 \in Nat
  BY DEF PrecTyped
<1>3. CASE last_byte_repeated /\ prec.repetition = LENGTH
  <2>0. ~last_byte_succession_1
    BY <1>3 DEF last_byte_repeated, last_byte_succession_1
  <2>1. WriteOneAtBorder(w) = Put(w, Repeated(byte, 1))
    BY <1>3, <2>0 DEF WriteOneAtBorder
  <2>2. WritesOn(w, w)
    BY WritesNothing
  <2> QED BY <1>1, <2>1, <2>2, PutRepeated
<1>4. CASE last_byte_repeated /\ prec.repetition # LENGTH
  <2>0. ~last_byte_succession_1
    BY <1>4 DEF last_byte_repeated, last_byte_succession_1
  <2>1. WriteOneAtBorder(w) = Patch(w, 0, prec.repetition + 1)
    BY <1>4, <2>0 DEF WriteOneAtBorder
  <2>2. prec.repetition + 1 \in 0 .. LENGTH
    BY <1>1, <1>2, <1>4
  <2>3. prec.repetition + 1 \in Value
    BY <2>2, LengthsTyped
  <2> QED BY <2>1, <2>3, PatchTyped
<1>5. CASE last_byte_succession_1
  <2>1. ~last_byte_repeated
    BY <1>5 DEF last_byte_repeated, last_byte_succession_1
  <2>2. PICK v : v = TakeLastLiteral(w, 2)
    OBVIOUS
  <2>3. WriteOneAtBorder(w) = IF LastLengthShared THEN PutByte(v, byte) ELSE v
    BY <1>5, <2>1, <2>2 DEF WriteOneAtBorder
  <2>4. WritesOn(w, v)
    BY <1>2, <2>2, TakeLastLiteralTyped
  <2>5. WritesOn(v, PutByte(v, byte))
    BY <1>1, <2>4, PutByteTyped DEF WritesOn, Readable
  <2> QED BY <2>3, <2>4, <2>5, WritesTwice
<1>6. CASE ~last_byte_repeated /\ ~last_byte_succession_1
  <2>1. WriteOneAtBorder(w) = w
    BY <1>6 DEF WriteOneAtBorder
  <2> QED BY <2>1, WritesNothing
<1> QED BY <1>3, <1>4, <1>5, <1>6

LEMMA WriteRunTyped ==
  ASSUME NEW w \in TypedWriters, mapped.from \in Nat, AtByte, PrecTyped
  PROVE  WritesOn(w, WriteRun(w))
<1>1. num \in Nat /\ num # 0 /\ byte \in Value
  BY CurrentRun
<1>2. CASE num # 1 /\ AtBorder
  <2>1. WriteRun(w) = WriteRunAtBorder(w)
    BY <1>2 DEF WriteRun
  <2> QED BY <2>1, WriteRunAtBorderTyped
<1>3. CASE num # 1 /\ ~AtBorder
  <2>1. WriteRun(w) = Put(w, Repeated(byte, num))
    BY <1>3 DEF WriteRun
  <2>2. WritesOn(w, w)
    BY WritesNothing
  <2> QED BY <1>1, <2>1, <2>2, PutRepeated
<1>4. CASE num = 1 /\ AtBorder /\ same_byte
  <2>1. WriteRun(w) = WriteOneAtBorder(w)
    BY <1>4 DEF WriteRun
  <2> QED BY <2>1, WriteOneAtBorderTyped
<1>5. CASE num = 1 /\ ~(AtBorder /\ same_byte)
  <2>1. WriteRun(w) = w
    BY <1>5 DEF WriteRun
  <2> QED BY <2>1, WritesNothing
<1> QED BY <1>2, <1>3, <1>4, <1>5

-----------------------------------------------------------------------------
(* Types: how much a run can add to the size of the output.                 *)

LEMMA RunSizeBounds ==
  ASSUME NEW n \in Nat, n # 0
  PROVE  /\ RunSize(n) \in Nat /\ 2 <= RunSize(n) /\ RunSize(n) <= 2 * n
         /\ n # 1 => RunSize(n) <= 2 * n - 2
         /\ n > LENGTH => RunSize(n) >= 4
         /\ 2 * n <= LENGTH * RunSize(n)
<1>1. PICK q, r : q = (n - 1) \div LENGTH /\ r = (n - 1) % LENGTH
  OBVIOUS
<1>2. n - 1 \in Nat /\ LENGTH \in Nat /\ LENGTH >= 3
  BY Constants
<1>3. q \in Nat /\ r \in Nat /\ r < LENGTH /\ n - 1 = LENGTH * q + r
  BY <1>1, <1>2, Constants, DivMod
<1>4. RunSize(n) = 2 * (1 + q)
  BY <1>1 DEF RunSize, number_time_bigger_then_length
<1>5. PICK p : p = LENGTH * q
  OBVIOUS
<1>6. p \in Nat /\ 3 * q <= p
  <2>1. q * 3 <= q * LENGTH
    <3>1. 3 * q <= LENGTH * q
      BY <1>2, <1>3, TimesMonotone
    <3>2. 3 * q = q * 3 /\ LENGTH * q = q * LENGTH
      BY <1>2, <1>3
    <3> QED BY <3>1, <3>2
  <2>2. LENGTH * q \in Nat /\ q * LENGTH = LENGTH * q
    BY <1>2, <1>3
  <2> QED BY <1>3, <1>5, <2>1, <2>2
<1>7. n - 1 = p + r
  BY <1>3, <1>5
<1>8. n > LENGTH => q # 0
  <2>1. q = 0 => p = 0
    BY <1>2, <1>5
  <2> QED BY <1>2, <1>3, <1>7, <2>1
<1>9. LENGTH * RunSize(n) = 2 * p + 2 * LENGTH
  <2>1. LENGTH * (2 * (1 + q)) = 2 * (LENGTH * q) + 2 * LENGTH
    BY <1>2, <1>3
  <2> QED BY <1>4, <1>5, <2>1
<1>10. RunSize(n) \in Nat /\ 2 <= RunSize(n) /\ RunSize(n) <= 2 * n
  BY <1>3, <1>4, <1>6, <1>7
<1>11. n # 1 => RunSize(n) <= 2 * n - 2
  BY <1>3, <1>4, <1>6, <1>7
<1>12. n > LENGTH => RunSize(n) >= 4
  BY <1>3, <1>4, <1>8
<1>13. 2 * n <= LENGTH * RunSize(n)
  BY <1>2, <1>3, <1>6, <1>7, <1>9
<1> QED BY <1>10, <1>11, <1>12, <1>13

LEMMA OnesSizeBounds ==
  ASSUME NEW n \in Nat, n # 0
  PROVE  OnesSize(n) \in Nat /\ n + 1 <= OnesSize(n) /\ OnesSize(n) <= 2 * n
<1>1. PICK m, q, r : /\ m = LENGTH - 1 /\ q = (n - 1) \div (LENGTH - 1)
                     /\ r = (n - 1) % (LENGTH - 1)
  OBVIOUS
<1>2. n - 1 \in Nat /\ m \in Nat /\ m >= 2
  BY <1>1, Constants
<1>3. q \in Nat /\ r \in Nat /\ n - 1 = m * q + r
  BY <1>1, <1>2, Constants, DivMod
<1>4. PICK p : p = m * q
  OBVIOUS
<1>5. p \in Nat /\ q <= p
  <2>1. 1 * q <= m * q
    BY <1>2, <1>3, TimesMonotone
  <2>2. m * q \in Nat /\ 1 * q = q
    BY <1>2, <1>3
  <2> QED BY <1>4, <2>1, <2>2
<1>6. n - 1 = p + r
  BY <1>3, <1>4
<1>7. OnesSize(n) = n + 1 + q
  BY <1>1 DEF OnesSize
<1> QED BY <1>3, <1>5, <1>6, <1>7

\* The literals that are told by a length of the window before can be fewer
\* than the room it has, but no more.
LEMMA FlushBounds ==
  ASSUME NEW n \in Nat, NEW check \in {0, 1}, NEW k \in Nat
  PROVE  /\ FlushSize(n, check, k) \in Nat /\ FlushSize(n, check, k) <= 2 * n
         /\ n # 0 /\ check = 0 => n + 1 <= FlushSize(n, check, k)
         /\ n # 0 /\ k # 0 => n + 3 - LENGTH <= FlushSize(n, check, k)
<1>1. LENGTH \in Nat /\ LENGTH >= 3
  BY Constants
<1>2. CASE n = 0
  <2>1. FlushSize(n, check, k) = 0
    BY <1>2 DEF FlushSize
  <2> QED BY <1>2, <2>1
<1>3. CASE n # 0 /\ check = 0
  <2>1. FlushSize(n, check, k) = OnesSize(n)
    BY <1>3 DEF FlushSize
  <2> QED BY <1>1, <1>3, <2>1, OnesSizeBounds
<1>4. CASE n # 0 /\ check = 1
  <2>1. PICK r : r = Room(k)
    OBVIOUS
  <2>2. r \in Nat /\ (k # 0 => r <= LENGTH - 2)
    <3>1. Room(k) \in 0 .. LENGTH - 1 /\ (k # 0 => Room(k) <= LENGTH - 2)
      BY RoomRange
    <3> QED BY <1>1, <2>1, <3>1
  <2>3. CASE n <= r
    <3>1. FlushSize(n, check, k) = n
      BY <1>4, <2>1, <2>3 DEF FlushSize
    <3> QED BY <1>1, <1>4, <3>1
  <2>4. CASE ~(n <= r)
    <3>1. FlushSize(n, check, k) = OnesSize(n - r)
      BY <1>4, <2>1, <2>4 DEF FlushSize
    <3>2. n - r \in Nat /\ n - r # 0
      BY <2>2, <2>4
    <3>3. /\ OnesSize(n - r) \in Nat /\ (n - r) + 1 <= OnesSize(n - r)
          /\ OnesSize(n - r) <= 2 * (n - r)
      BY <3>2, OnesSizeBounds
    <3> QED BY <1>1, <1>4, <2>2, <3>1, <3>3
  <2> QED BY <2>3, <2>4
<1> QED BY <1>2, <1>3, <1>4

LEMMA BorderBounds ==
  ASSUME AtByte, PrecTyped, num # 1
  PROVE  BorderSize \in Nat /\ BorderSize <= 2 * num - 2
<1>1. num \in Nat /\ num # 0 /\ LENGTH \in Nat /\ LENGTH >= 3 /\ prec.repetition \in 0 .. LENGTH
  BY CurrentRun, Constants DEF PrecTyped
<1>2. last_byte_repeated => ~last_byte_succession_1
  BY <1>1 DEF last_byte_repeated, last_byte_succession_1
<1>3. RunSize(num) \in Nat /\ RunSize(num) <= 2 * num - 2
  BY <1>1, RunSizeBounds
<1>4. CASE same_byte /\ last_byte_repeated /\ num > LENGTH
  <2>1. PICK k : k = num - (LENGTH - prec.repetition)
    OBVIOUS
  <2>2. k \in Nat /\ k # 0 /\ k <= num
    BY <1>1, <1>4, <2>1
  <2>3. ~(num <= LENGTH)
    BY <1>1, <1>4
  <2>4. BorderSize = RunSize(k)
    BY <1>2, <1>4, <2>1, <2>3 DEF BorderSize
  <2>5. RunSize(k) \in Nat /\ RunSize(k) <= 2 * k /\ (k # 1 => RunSize(k) <= 2 * k - 2)
    BY <2>2, RunSizeBounds
  <2>6. RunSize(k) <= 2 * num - 2
    BY <1>1, <1>4, <2>2, <2>5
  <2> QED BY <2>4, <2>5, <2>6
<1>5. CASE same_byte /\ last_byte_repeated /\ num <= LENGTH
  <2>1. ~(num > LENGTH)
    BY <1>1, <1>5
  <2>2. BorderSize = IF LENGTH - prec.repetition >= num THEN 0 ELSE 2
    BY <1>2, <1>5, <2>1 DEF BorderSize
  <2>3. BorderSize \in {0, 2}
    BY <2>2
  <2> QED BY <1>1, <2>3
<1>6. CASE same_byte /\ last_byte_succession_1 /\ num > LENGTH
  <2>1. ~(num <= LENGTH)
    BY <1>1, <1>6
  <2>2. BorderSize = RunSize(num + 1) - (IF LastLengthShared THEN 2 ELSE 3)
    BY <1>2, <1>6, <2>1 DEF BorderSize
  <2>3. PICK k, d : k = num + 1 /\ d = IF LastLengthShared THEN 2 ELSE 3
    OBVIOUS
  <2>4. k \in Nat /\ k # 0 /\ k # 1 /\ k > LENGTH /\ d \in {2, 3}
    BY <1>1, <1>6, <2>3
  <2>5. RunSize(k) \in Nat /\ RunSize(k) >= 4 /\ RunSize(k) <= 2 * k - 2
    BY <2>4, RunSizeBounds
  <2>6. BorderSize = RunSize(k) - d
    BY <2>2, <2>3
  <2> QED BY <1>1, <2>3, <2>4, <2>5, <2>6
<1>7. CASE same_byte /\ last_byte_succession_1 /\ num <= LENGTH
  <2>1. ~(num > LENGTH)
    BY <1>1, <1>7
  <2>2. BorderSize = (IF num = LENGTH THEN 2 ELSE 0) + (IF LastLengthShared THEN 1 ELSE 0)
    BY <1>2, <1>7, <2>1 DEF BorderSize
  <2>3. PICK c, d : /\ c = (IF num = LENGTH THEN 2 ELSE 0)
                    /\ d = (IF LastLengthShared THEN 1 ELSE 0)
    OBVIOUS
  <2>4. c \in Nat /\ d \in Nat /\ d <= 1 /\ (num = LENGTH => c = 2) /\ (num # LENGTH => c = 0)
    BY <2>3
  <2>5. BorderSize = c + d
    BY <2>2, <2>3
  <2> QED BY <1>1, <2>4, <2>5
<1>8. CASE ~same_byte \/ (~last_byte_repeated /\ ~last_byte_succession_1)
  <2>1. BorderSize = RunSize(num)
    BY <1>8 DEF BorderSize
  <2> QED BY <1>3, <2>1
<1>9. num > LENGTH \/ num <= LENGTH
  BY <1>1
<1> QED BY <1>4, <1>5, <1>6, <1>7, <1>8, <1>9

\* What the current run adds by itself, and whether it is one more literal.
LEMMA NumSizeBounds ==
  ASSUME AtByte, PrecTyped, nb_1_successif \in Nat
  PROVE  /\ NumSize \in Nat /\ NewOnes \in Nat
         /\ num # 1 => NumSize <= 2 * num - 2 /\ NewOnes = 0
         /\ num = 1 => \/ NumSize = 0 /\ NewOnes = nb_1_successif + 1
                       \/ NumSize <= 2 /\ NewOnes = nb_1_successif /\ AtBorder
         /\ num # 1 /\ iteration = 0 => NumSize = RunSize(num)
<1>1. num \in Nat /\ num # 0
  BY CurrentRun
<1>2. CASE num # 1
  <2>1. NewOnes = 0 /\ NumSize = IF AtBorder THEN BorderSize ELSE RunSize(num)
    BY <1>2 DEF NewOnes, NumSize
  <2>2. RunSize(num) \in Nat /\ RunSize(num) <= 2 * num - 2
    BY <1>1, <1>2, RunSizeBounds
  <2>3. BorderSize \in Nat /\ BorderSize <= 2 * num - 2
    BY <1>2, BorderBounds
  <2>4. iteration = 0 => ~AtBorder
    BY DEF AtBorder
  <2> QED BY <1>2, <2>1, <2>2, <2>3, <2>4
<1>3. CASE num = 1 /\ JoinsLiterals
  <2>1. NewOnes = nb_1_successif + 1
    BY <1>3 DEF NewOnes
  <2>2. ~(AtBorder /\ same_byte)
    BY <1>3 DEF JoinsLiterals
  <2>3. NumSize = 0
    BY <1>3, <2>2 DEF NumSize
  <2> QED BY <1>3, <2>1, <2>3
<1>4. CASE num = 1 /\ ~JoinsLiterals
  <2>1. NewOnes = nb_1_successif + 0
    BY <1>4 DEF NewOnes
  <2>2. AtBorder
    BY <1>4 DEF JoinsLiterals
  <2>3. BorderSizeOfOne \in {0, 1, 2}
    <3>1. last_byte_repeated => ~last_byte_succession_1
      BY DEF last_byte_repeated, last_byte_succession_1, PrecTyped
    <3>2. CASE last_byte_repeated
      BY <3>1, <3>2 DEF BorderSizeOfOne
    <3>3. CASE last_byte_succession_1
      BY <3>1, <3>3 DEF BorderSizeOfOne
    <3>4. CASE ~last_byte_repeated /\ ~last_byte_succession_1
      BY <3>4 DEF BorderSizeOfOne
    <3> QED BY <3>2, <3>3, <3>4
  <2>4. NumSize \in {0, 1, 2}
    <3>1. CASE same_byte
      BY <1>4, <2>2, <2>3, <3>1 DEF NumSize
    <3>2. CASE ~same_byte
      BY <1>4, <3>2 DEF NumSize
    <3> QED BY <3>1, <3>2
  <2>5. NumSize \in Nat /\ NumSize <= 2
    BY <2>4
  <2> QED BY <1>4, <2>1, <2>2, <2>5
<1> QED BY <1>2, <1>3, <1>4

LEMMA NewCheckTyped ==
  ASSUME check_length_last_byte \in {0, 1}
  PROVE  /\ NewCheck \in {0, 1}
         /\ iteration = 0 /\ check_length_last_byte = 0 => NewCheck = 0
<1>1. iteration = 0 => ~ChecksLastLength
  BY DEF ChecksLastLength, AtBorder
<1>2. CASE num # 1
  BY <1>2 DEF NewCheck
<1>3. CASE num = 1 /\ ChecksLastLength
  BY <1>1, <1>3 DEF NewCheck
<1>4. CASE num = 1 /\ ~ChecksLastLength
  BY <1>4 DEF NewCheck
<1> QED BY <1>2, <1>3, <1>4

-----------------------------------------------------------------------------
(* Types: the invariant.                                                    *)

\* The byte at p is a run of its own, in its window.
Single(p) ==
  Memory(p + 1) # Memory(p) /\ (p > offset_input => Memory(p - 1) # Memory(p))
AllSingle(a, b) == \A p \in a .. b - 1 : Single(p)

\* The pass that writes may take the first byte of a window for a literal where
\* the pass that counts did not.
Spare == IF iteration = 0 THEN 0 ELSE 1

Placed ==
  /\ Len(input) <= MaxSize /\ iteration <= offset_input
  /\ iteration = 0 <=> offset_input = 0
  /\ offset_input < Len(input) => offset_input % taille_max = 0
  /\ mapped.from \in Nat /\ mapped.to \in Nat
  /\ iteration = 0 => check_length_last_byte = 0
  /\ step = "map" => nb_1_successif = 0

InsideWindow ==
  step \in {"count", "compress"} =>
    /\ offset_input < Len(input)
    /\ copi \in offset_input .. MappingEnd + 1
    /\ i <= copi - offset_input /\ nb_1_successif <= i
    /\ i = 0 => copi = offset_input
    /\ copi # offset_input /\ copi < WindowEnd => input[copi] # input[copi + 1]
    /\ copi >= WindowEnd => nb_1_successif = 0

\* What the first window leaves is never less than this.
EnoughWritten ==
  iteration # 0 /\ offset_input < Len(input) => taille_output_tot >= LENGTH - 1

\* The literals at the end of the window, told by one length, fit into s bytes.
OnesFit(s) ==
  \A m \in 0 .. WindowEnd - offset_input : AllSingle(WindowEnd - m, WindowEnd) => m + 1 <= s

CountSized ==
  step = "count" =>
    /\ taille_out + 2 * nb_1_successif <= 2 * (copi - offset_input)
    /\ taille_out + 2 * nb_1_successif <= 2 * taille_max
    /\ iteration = 0 => 2 * (copi - offset_input) <= LENGTH * (taille_out + nb_1_successif)
    /\ iteration = 0 /\ nb_1_successif = 0 /\ copi # offset_input => taille_out >= 2
    /\ copi < WindowEnd =>
         \A m \in 0 .. copi - offset_input :
           AllSingle(copi - m, copi) => m <= nb_1_successif + Spare
    /\ copi >= WindowEnd => OnesFit(taille_output_tot + taille_out)

CompressSized ==
  step = "compress" =>
    /\ iteration = 0 => 2 * (WindowEnd - offset_input) <= LENGTH * taille_output_tot
    /\ taille_output_tot >= 2 /\ current \in Nat
    /\ copi < WindowEnd => AllSingle(copi - nb_1_successif, copi)
    /\ OnesFit(taille_output_tot)

TypeInv ==
  /\ TypeOK /\ Placed /\ InsideWindow /\ EnoughWritten /\ CountSized /\ CompressSized

LEMMA TypesOpen ==
  ASSUME TypeOK, offset_input < Len(input)
  PROVE  WindowOpen
BY DEF TypeOK, WindowOpen

LEMMA TypesAtByte ==
  ASSUME TypeOK, InsideWindow, step \in {"count", "compress"}, copi < WindowEnd
  PROVE  /\ AtByte /\ PrecTyped /\ beyond \in Readable
         /\ nb_1_successif \in Nat /\ check_length_last_byte \in {0, 1}
         /\ i \in Nat /\ taille_out \in Nat /\ taille_output_tot \in Nat
         /\ offset_input \in Nat /\ iteration \in Nat
<1>1. WindowOpen
  BY TypesOpen DEF InsideWindow
<1>2. offset_input \in Nat /\ MappingEnd \in Nat
  BY <1>1, Window DEF WindowOpen
<1>3. AtByte
  BY <1>1, <1>2 DEF AtByte, InsideWindow
<1>4. PrecTyped
  <2>1. taille_max \in Nat
    BY Constants DEF Positive
  <2>2. prec \in [last_byte : 0 .. 2 * LENGTH - 1, repetition : 0 .. LENGTH,
                  nb_1 : 0 .. taille_max, offset_last_length : Nat]
    BY DEF TypeOK
  <2> HIDE DEF taille_max
  <2> QED BY <2>1, <2>2 DEF PrecTyped, Value
<1>5. beyond \in Readable
  BY EncodeAssumption DEF TypeOK, Readable, Value
<1> QED BY <1>2, <1>3, <1>4, <1>5 DEF TypeOK

LEMMA MappingInPages ==
  ASSUME WindowOpen, offset_input % taille_max = 0, MaxSize \in Nat, Len(input) <= MaxSize
  PROVE  MappingEnd <= Pages(MaxSize) /\ MappingEnd <= offset_input + taille_max
         /\ Pages(MaxSize) \in Nat
<1>1. PICK P, o, w, q, Q :
        /\ P = PageSize /\ o = offset_input /\ w = WindowEnd
        /\ q = (w - o + P - 1) \div P /\ Q = (MaxSize + P - 1) \div P
  OBVIOUS
<1>2. /\ P \in Positive /\ P \in Nat /\ P # 0 /\ o \in Nat /\ w \in Nat /\ o < w
      /\ w <= MaxSize /\ w <= o + taille_max /\ taille_max = 2 * P
  <2>1. Len(input) \in Nat
    BY LenProperties DEF WindowOpen
  <2> QED BY <1>1, <2>1, Constants, Window DEF WindowOpen, Positive, taille_max
<1>3. /\ w - o + P - 1 \in Nat /\ MaxSize + P - 1 \in Nat
  BY <1>2
<1>4. PICK r, R : r = (w - o + P - 1) % P /\ R = (MaxSize + P - 1) % P
  OBVIOUS
<1>5. q \in Nat /\ r \in Nat /\ r < P /\ w - o + P - 1 = P * q + r
  BY <1>1, <1>2, <1>3, <1>4, DivMod
<1>6. Q \in Nat /\ R \in Nat /\ R < P /\ MaxSize + P - 1 = P * Q + R
  BY <1>1, <1>2, <1>3, <1>4, DivMod
<1>7. MappingEnd = o + q * P /\ Pages(MaxSize) = Q * P
  BY <1>1 DEF MappingEnd, Pages
<1>8. PICK c : c \in Nat /\ o = P * c
  <2>1. PICK d : d = o \div taille_max
    OBVIOUS
  <2>2. d \in Nat /\ o = taille_max * d + 0
    BY <1>1, <1>2, <2>1, Constants, DivMod
  <2>3. o = P * (2 * d) /\ 2 * d \in Nat
    <3>1. (2 * P) * d = P * (2 * d) /\ taille_max * d \in Nat
      BY <1>2, <2>2
    <3> QED BY <1>2, <2>2, <3>1
  <2> QED BY <2>3
<1>9. PICK x, X, y : x = P * q /\ X = P * Q /\ y = P * c
  OBVIOUS
<1>10. x \in Nat /\ X \in Nat /\ y \in Nat /\ q * P = x /\ Q * P = X
  BY <1>2, <1>5, <1>6, <1>8, <1>9
<1>11. /\ w - o + P - 1 = x + r /\ MaxSize + P - 1 = X + R /\ o = y
  BY <1>5, <1>6, <1>8, <1>9
<1>12. y + x < X + P
  BY <1>2, <1>5, <1>6, <1>10, <1>11
<1>13. c + q <= Q
  <2>1. SUFFICES ASSUME Q < c + q PROVE FALSE
    BY <1>5, <1>6, <1>8
  <2>2. P * Q + P <= P * (c + q)
    BY <1>2, <1>5, <1>6, <1>8, <2>1, TimesStep
  <2>3. P * (c + q) = P * c + P * q
    BY <1>2, <1>5, <1>8
  <2>4. X + P <= y + x
    BY <1>9, <2>2, <2>3
  <2> QED BY <1>2, <1>10, <1>12, <2>4
<1>14. y + x <= X
  <2>1. (c + q) * P <= Q * P
    BY <1>2, <1>5, <1>6, <1>8, <1>13, TimesMonotone
  <2>2. (c + q) * P = P * c + P * q
    BY <1>2, <1>5, <1>8
  <2> QED BY <1>9, <1>10, <2>1, <2>2
<1>15. x <= 2 * P
  <2>1. x < 3 * P
    BY <1>2, <1>5, <1>10, <1>11
  <2>2. SUFFICES ASSUME 2 < q PROVE FALSE
    <3>1. ASSUME q <= 2 PROVE x <= 2 * P
      <4>1. q * P <= 2 * P
        BY <1>2, <1>5, <3>1, TimesMonotone
      <4> QED BY <1>10, <4>1
    <3> QED BY <1>5, <3>1
  <2>3. P * 2 + P <= P * q
    BY <1>2, <1>5, <2>2, TimesStep
  <2> QED BY <1>2, <1>9, <2>1, <2>3
<1> QED BY <1>1, <1>2, <1>7, <1>10, <1>11, <1>14, <1>15

LEMMA RepetitionTyped ==
  ASSUME PrecTyped
  PROVE  RepetitionCounted \in 0 .. LENGTH
BY Constants DEF PrecTyped, RepetitionCounted

\* Where a run of either pass leads to.
LEMMA RunMoves ==
  ASSUME TypeOK, Placed, InsideWindow, step \in {"count", "compress"}, copi < WindowEnd,
         UNCHANGED file, UNCHANGED mapped, copi' = RunEnd, i' = i + 1, step' # "map",
         nb_1_successif' = IF LastRun THEN 0 ELSE NewOnes,
         check_length_last_byte' = IF LastRun THEN 0 ELSE NewCheck
  PROVE  /\ copi' \in 0 .. Pages(MaxSize) + 1 /\ i' \in 0 .. taille_max
         /\ NewOnes \in 0 .. taille_max /\ NewOnes <= i + 1
         /\ nb_1_successif' \in 0 .. taille_max /\ check_length_last_byte' \in {0, 1}
         /\ Placed' /\ InsideWindow'
<1>1. /\ AtByte /\ PrecTyped /\ nb_1_successif \in Nat /\ check_length_last_byte \in {0, 1}
      /\ i \in Nat /\ offset_input \in Nat /\ iteration \in Nat
  BY TypesAtByte
<1>2. /\ offset_input < Len(input) /\ Len(input) <= MaxSize
      /\ iteration <= offset_input /\ (iteration = 0 <=> offset_input = 0)
      /\ offset_input % taille_max = 0
      /\ mapped.from \in Nat /\ mapped.to \in Nat
      /\ (iteration = 0 => check_length_last_byte = 0)
  BY DEF Placed, InsideWindow
<1>3. /\ copi \in Nat /\ offset_input <= copi /\ copi < WindowEnd
      /\ i <= copi - offset_input /\ nb_1_successif <= i
  BY <1>1 DEF InsideWindow, AtByte
<1>4. /\ WindowOpen /\ WindowEnd \in Nat /\ MappingEnd \in Nat /\ WindowEnd <= MappingEnd
      /\ WindowEnd <= offset_input + taille_max
  BY <1>1, Window DEF AtByte
<1>5. /\ MaxSize \in Nat /\ MappingEnd <= Pages(MaxSize) /\ Pages(MaxSize) \in Nat
      /\ taille_max \in Nat
  BY <1>2, <1>4, MappingInPages, EncodeAssumption, Constants DEF Positive
<1>6. /\ RunEnd \in Nat /\ copi < RunEnd /\ RunEnd <= MappingEnd + 1
      /\ num \in Nat /\ num = RunEnd - copi
      /\ \A p \in copi .. RunEnd - 1 : Memory(p) = Memory(copi)
      /\ RunEnd <= WindowEnd => Memory(RunEnd) # Memory(copi)
      /\ num = 1 => RunEnd = copi + 1 /\ RunEnd <= WindowEnd
  BY <1>1, CurrentRun
<1>7. NewOnes \in Nat /\ NewOnes <= nb_1_successif + 1 /\ (num # 1 => NewOnes = 0)
  BY <1>1, NumSizeBounds
<1>8. NewCheck \in {0, 1} /\ (iteration = 0 /\ check_length_last_byte = 0 => NewCheck = 0)
  BY <1>1, NewCheckTyped
<1>9. NewOnes <= i + 1 /\ NewOnes \in 0 .. taille_max /\ i + 1 \in 0 .. taille_max
  BY <1>1, <1>3, <1>4, <1>5, <1>7
<1>10. copi' \in 0 .. Pages(MaxSize) + 1
  BY <1>4, <1>5, <1>6
<1>11. WindowEnd' = WindowEnd /\ MappingEnd' = MappingEnd
  BY WindowKept DEF file
<1>12. RunEnd >= WindowEnd => nb_1_successif' = 0
  BY <1>4, <1>6, <1>7 DEF LastRun
<1>13. RunEnd < WindowEnd => input[RunEnd] # input[RunEnd + 1]
  <2>1. SUFFICES ASSUME RunEnd < WindowEnd PROVE input[RunEnd] # input[RunEnd + 1]
    OBVIOUS
  <2>2. /\ RunEnd - 1 \in Nat /\ RunEnd - 1 < WindowEnd /\ RunEnd - 1 \in copi .. RunEnd - 1
        /\ (RunEnd - 1) + 1 = RunEnd
    BY <1>3, <1>4, <1>6, <2>1
  <2>3. Memory(RunEnd - 1) = input[RunEnd] /\ Memory(RunEnd) = input[RunEnd + 1]
    BY <1>4, <1>6, <2>1, <2>2, Window
  <2> QED BY <1>4, <1>6, <2>1, <2>2, <2>3
<1>14. nb_1_successif' \in Nat /\ nb_1_successif' <= i + 1
       /\ nb_1_successif' \in 0 .. taille_max
  BY <1>1, <1>5, <1>9
<1>15. check_length_last_byte' \in {0, 1}
       /\ (iteration = 0 => check_length_last_byte' = 0)
  BY <1>2, <1>8
<1>16. Placed'
  BY <1>2, <1>15 DEF Placed, file
<1>17. InsideWindow'
  <2>1. copi' \in offset_input .. MappingEnd + 1 /\ i + 1 <= copi' - offset_input
        /\ copi' # offset_input
    BY <1>1, <1>3, <1>4, <1>6
  <2>2. input' = input /\ offset_input' = offset_input
    BY DEF file
  <2>3. /\ i' <= copi' - offset_input /\ nb_1_successif' <= i' /\ i' # 0
        /\ copi' < WindowEnd => input[copi'] # input[copi' + 1]
        /\ copi' >= WindowEnd => nb_1_successif' = 0
    <3>1. i' <= copi' - offset_input /\ nb_1_successif' <= i' /\ i' # 0
      <4>1. i' = i + 1
        OBVIOUS
      <4>2. i' <= copi' - offset_input
        BY <4>1, <2>1
      <4>3. nb_1_successif' <= i'
        BY <4>1, <1>14
      <4>4. i' # 0
        BY <4>1, <1>1
      <4> QED BY <4>2, <4>3, <4>4
    <3>2. copi' < WindowEnd => input[copi'] # input[copi' + 1]
      BY <1>13
    <3>3. copi' >= WindowEnd => nb_1_successif' = 0
      BY <1>12
    <3> QED BY <3>1, <3>2, <3>3
  <2> QED BY <1>2, <1>11, <2>1, <2>2, <2>3 DEF InsideWindow
<1> QED BY <1>9, <1>10, <1>14, <1>15, <1>16, <1>17

\* What a run adds to the size of the output, against the bytes it takes and the
\* literals that still wait.
CountGrows(g) ==
  /\ taille_out' = taille_out + g
  /\ g + 2 * nb_1_successif' <= 2 * nb_1_successif + 2 * num
  /\ num # 1 => g + 2 * nb_1_successif' <= 2 * nb_1_successif + 2 * num - 2
  /\ iteration = 0 => \E h \in Nat : /\ nb_1_successif + h <= g + nb_1_successif'
                                     /\ 2 * num <= LENGTH * h
  /\ iteration = 0 /\ nb_1_successif' = 0 => 2 <= g
  /\ LastRun /\ NewOnes # 0 => /\ NewOnes + 3 - LENGTH <= g
                               /\ iteration = 0 => NewOnes + 1 <= g

LEMMA CountAdds ==
  ASSUME AtByte, PrecTyped, nb_1_successif \in Nat, check_length_last_byte \in {0, 1},
         taille_out \in Nat, iteration = 0 => check_length_last_byte = 0,
         taille_out' =
           taille_out + NumSize
             + (IF num # 1 THEN FlushSize(nb_1_successif, check_length_last_byte, prec.nb_1) ELSE 0)
             + (IF LastRun THEN FlushSize(NewOnes, NewCheck, NewOnes) ELSE 0),
         nb_1_successif' = IF LastRun THEN 0 ELSE NewOnes
  PROVE  \E g \in Nat : CountGrows(g)
<1>1. PICK a, b, c, n, k, m :
        /\ a = NumSize /\ n = NewOnes /\ k = nb_1_successif /\ m = num
        /\ b = (IF num # 1 THEN FlushSize(nb_1_successif, check_length_last_byte, prec.nb_1) ELSE 0)
        /\ c = (IF LastRun THEN FlushSize(NewOnes, NewCheck, NewOnes) ELSE 0)
  OBVIOUS
<1>2. /\ a \in Nat /\ n \in Nat /\ k \in Nat /\ m \in Nat /\ m # 0
      /\ m # 1 => a <= 2 * m - 2 /\ n = 0
      /\ m = 1 => \/ a = 0 /\ n = k + 1
                  \/ a <= 2 /\ n = k /\ AtBorder
      /\ m # 1 /\ iteration = 0 => a = RunSize(m)
  BY <1>1, CurrentRun, NumSizeBounds
<1>3. iteration = 0 => ~AtBorder
  BY DEF AtBorder
<1>4. NewCheck \in {0, 1} /\ (iteration = 0 => NewCheck = 0)
  BY NewCheckTyped
<1>5. /\ b \in Nat /\ b <= 2 * k /\ (m = 1 => b = 0)
      /\ iteration = 0 /\ m # 1 => k <= b
  <2>1. CASE m = 1
    BY <1>1, <1>2, <2>1
  <2>2. CASE m # 1
    <3>1. b = FlushSize(k, check_length_last_byte, prec.nb_1) /\ prec.nb_1 \in Nat
      BY <1>1, <2>2 DEF PrecTyped
    <3>2. /\ b \in Nat /\ b <= 2 * k
          /\ k # 0 /\ check_length_last_byte = 0 => k + 1 <= b
      BY <1>2, <3>1, FlushBounds
    <3> QED BY <1>2, <2>2, <3>2
  <2> QED BY <2>1, <2>2
<1>6. /\ c \in Nat /\ c <= 2 * n /\ (~LastRun => c = 0)
      /\ LastRun /\ n # 0 => n + 3 - LENGTH <= c /\ (iteration = 0 => n + 1 <= c)
  <2>1. CASE ~LastRun
    BY <1>1, <1>2, <2>1
  <2>2. CASE LastRun
    <3>1. c = FlushSize(n, NewCheck, n)
      BY <1>1, <2>2
    <3>2. /\ c \in Nat /\ c <= 2 * n
          /\ n # 0 /\ NewCheck = 0 => n + 1 <= c
          /\ n # 0 => n + 3 - LENGTH <= c
      BY <1>2, <1>4, <3>1, FlushBounds
    <3> QED BY <1>4, <2>2, <3>2
  <2> QED BY <2>1, <2>2
<1>7. PICK d : /\ d \in Nat /\ nb_1_successif' = d
               /\ (LastRun => d = 0) /\ (~LastRun => d = n)
  BY <1>1, <1>2
<1>8. c + 2 * d <= 2 * n
  BY <1>2, <1>6, <1>7
<1>9. taille_out' = taille_out + (a + b + c) /\ a + b + c \in Nat
  BY <1>1, <1>2, <1>5, <1>6
<1>10. PICK g \in Nat : g = a + b + c /\ taille_out' = taille_out + g
  BY <1>9
<1>11. /\ g + 2 * d <= 2 * k + 2 * m
       /\ m # 1 => g + 2 * d <= 2 * k + 2 * m - 2
  <2>1. g + 2 * d = a + b + (c + 2 * d)
    BY <1>2, <1>5, <1>6, <1>7, <1>10
  <2>2. g + 2 * d <= a + b + 2 * n
    BY <1>2, <1>5, <1>6, <1>7, <1>8, <2>1
  <2>3. CASE m # 1
    BY <1>2, <1>5, <1>7, <1>10, <2>2, <2>3
  <2>4. CASE m = 1
    BY <1>2, <1>5, <1>7, <1>10, <2>2, <2>4
  <2> QED BY <2>3, <2>4
<1>12. ASSUME iteration = 0
       PROVE  \E h \in Nat : k + h <= g + d /\ 2 * m <= LENGTH * h
  <2>1. CASE m # 1
    <3>1. a = RunSize(m) /\ 2 * m <= LENGTH * RunSize(m)
      BY <1>2, <1>12, <2>1, RunSizeBounds
    <3>2. k + a <= g + d
      BY <1>2, <1>5, <1>6, <1>7, <1>10, <1>12, <2>1
    <3> QED BY <1>2, <3>1, <3>2
  <2>2. CASE m = 1
    <3>1. n = k + 1
      BY <1>2, <1>3, <1>12, <2>2
    <3>2. k + 1 <= g + d
      BY <1>2, <1>5, <1>6, <1>7, <1>10, <1>12, <3>1
    <3>3. 2 * m <= LENGTH * 1
      BY <2>2, Constants
    <3> QED BY <3>2, <3>3
  <2> QED BY <2>1, <2>2
<1>13. iteration = 0 /\ d = 0 => 2 <= g
  <2>1. SUFFICES ASSUME iteration = 0, d = 0 PROVE 2 <= g
    OBVIOUS
  <2>2. CASE m # 1
    <3>1. 2 <= a
      BY <1>2, <2>1, <2>2, RunSizeBounds
    <3> QED BY <1>2, <1>5, <1>6, <1>10, <3>1
  <2>3. CASE m = 1
    <3>1. n = k + 1
      BY <1>2, <1>3, <2>1, <2>3
    <3>2. LastRun
      BY <1>2, <1>7, <2>1, <3>1
    <3> QED BY <1>2, <1>5, <1>6, <1>10, <2>1, <3>1, <3>2
  <2> QED BY <2>2, <2>3
<1>14. LastRun /\ n # 0 => n + 3 - LENGTH <= g /\ (iteration = 0 => n + 1 <= g)
  BY <1>2, <1>5, <1>6, <1>10, Constants
<1>15. CountGrows(g)
  BY <1>1, <1>7, <1>10, <1>11, <1>12, <1>13, <1>14 DEF CountGrows
<1> QED BY <1>15

\* In a run of more than one byte none is a run of its own.
LEMMA RunsAreNotSingle ==
  ASSUME AtByte, num # 1, NEW e \in Nat, copi < e, e <= RunEnd,
         NEW m \in Nat, AllSingle(e - m, e)
  PROVE  m = 0
<1>1. SUFFICES ASSUME m # 0 PROVE FALSE
  OBVIOUS
<1>2. /\ RunEnd \in Nat /\ copi \in Nat /\ offset_input \in Nat /\ offset_input <= copi
      /\ copi < RunEnd /\ RunEnd - copi # 1
      /\ \A p \in copi .. RunEnd - 1 : Memory(p) = Memory(copi)
  BY CurrentRun DEF AtByte, WindowOpen
<1>3. e - 1 \in e - m .. e - 1
  BY <1>1
<1>4. Single(e - 1)
  BY <1>3 DEF AllSingle
<1>5. CASE e - 1 > copi
  <2>1. /\ (e - 1) - 1 \in copi .. RunEnd - 1 /\ e - 1 \in copi .. RunEnd - 1
        /\ e - 1 > offset_input
    BY <1>2, <1>5
  <2>2. Memory((e - 1) - 1) # Memory(e - 1)
    BY <1>4, <2>1 DEF Single
  <2> QED BY <1>2, <2>1, <2>2
<1>6. CASE e - 1 = copi
  <2>1. (e - 1) + 1 \in copi .. RunEnd - 1
    BY <1>2, <1>6
  <2>2. Memory((e - 1) + 1) # Memory(copi)
    BY <1>4, <1>6 DEF Single
  <2> QED BY <1>2, <2>1, <2>2
<1> QED BY <1>2, <1>5, <1>6

\* A single byte is one literal more.
LEMMA OneMoreSingle ==
  ASSUME AtByte, num = 1, NEW m \in Nat, m # 0, AllSingle(RunEnd - m, RunEnd)
  PROVE  AllSingle(copi - (m - 1), copi)
<1>1. RunEnd = copi + 1 /\ copi \in Nat
  BY CurrentRun DEF AtByte
<1>2. \A p \in copi - (m - 1) .. copi - 1 : p \in RunEnd - m .. RunEnd - 1
  BY <1>1
<1> QED BY <1>2 DEF AllSingle

\* The pass that counts keeps at least the literals that are there, but for one
\* at the border.
LEMMA OnesCountedWait ==
  ASSUME AtByte, PrecTyped, nb_1_successif \in Nat, num = 1,
         i = 0 => copi = offset_input,
         \A m \in 0 .. copi - offset_input :
           AllSingle(copi - m, copi) => m <= nb_1_successif + Spare,
         NEW m \in 0 .. RunEnd - offset_input, AllSingle(RunEnd - m, RunEnd)
  PROVE  m <= NewOnes + Spare
<1>1. copi \in Nat /\ offset_input \in Nat /\ offset_input <= copi /\ RunEnd = copi + 1
  BY CurrentRun DEF AtByte, WindowOpen
<1>2. NewOnes \in Nat /\ (NewOnes = nb_1_successif + 1 \/ (NewOnes = nb_1_successif /\ AtBorder))
  BY NumSizeBounds
<1>3. Spare \in {0, 1} /\ (AtBorder => Spare = 1)
  BY DEF Spare, AtBorder
<1>4. SUFFICES ASSUME m # 0 PROVE m <= NewOnes + Spare
  BY <1>2, <1>3
<1>5. m - 1 \in 0 .. copi - offset_input /\ m \in Nat
  BY <1>1, <1>4
<1>6. AllSingle(copi - (m - 1), copi)
  BY <1>4, <1>5, OneMoreSingle
<1>7. m - 1 <= nb_1_successif + Spare
  BY <1>5, <1>6
<1>8. CASE NewOnes = nb_1_successif + 1
  BY <1>3, <1>5, <1>7, <1>8
<1>9. CASE NewOnes = nb_1_successif /\ AtBorder
  <2>1. copi = offset_input
    BY <1>9 DEF AtBorder
  <2> QED BY <1>1, <1>3, <1>5, <1>9, <2>1
<1> QED BY <1>2, <1>8, <1>9

\* The literals the pass that writes still holds are runs of their own.
LEMMA OnesHeldAreSingle ==
  ASSUME AtByte, PrecTyped, nb_1_successif \in Nat, num = 1,
         i \in Nat, nb_1_successif <= i, i = 0 => copi = offset_input,
         copi # offset_input => input[copi] # input[copi + 1],
         AllSingle(copi - nb_1_successif, copi)
  PROVE  AllSingle(RunEnd - NewOnes, RunEnd)
<1>1. /\ copi \in Nat /\ offset_input \in Nat /\ offset_input <= copi /\ copi < WindowEnd
      /\ RunEnd = copi + 1 /\ Memory(RunEnd) # Memory(copi)
  BY CurrentRun DEF AtByte, WindowOpen
<1>2. NewOnes \in Nat /\ (NewOnes = nb_1_successif + 1 \/ (NewOnes = nb_1_successif /\ AtBorder))
  BY NumSizeBounds
<1>3. CASE NewOnes = nb_1_successif /\ AtBorder
  <2>1. NewOnes = 0
    BY <1>3 DEF AtBorder
  <2>2. RunEnd - NewOnes .. RunEnd - 1 = {}
    BY <1>1, <2>1
  <2> QED BY <2>2 DEF AllSingle
<1>4. CASE NewOnes = nb_1_successif + 1
  <2>1. Single(copi)
    <3>1. copi > offset_input => Memory(copi - 1) # Memory(copi)
      <4>1. SUFFICES ASSUME copi > offset_input PROVE Memory(copi - 1) # Memory(copi)
        OBVIOUS
      <4>2. copi - 1 \in Nat /\ copi - 1 < WindowEnd /\ (copi - 1) + 1 = copi /\ WindowEnd \in Nat
        BY <1>1, <4>1, Window DEF AtByte
      <4>3. Memory(copi - 1) = input[copi] /\ Memory(copi) = input[copi + 1]
        BY <1>1, <4>2, Window DEF AtByte
      <4> QED BY <1>1, <4>1, <4>3
    <3> QED BY <1>1, <3>1 DEF Single
  <2>2. \A p \in RunEnd - NewOnes .. RunEnd - 1 :
          p = copi \/ p \in copi - nb_1_successif .. copi - 1
    BY <1>1, <1>4
  <2> QED BY <2>1, <2>2 DEF AllSingle
<1> QED BY <1>2, <1>3, <1>4

LEMMA SinglesKept ==
  ASSUME UNCHANGED file
  PROVE  /\ WindowEnd' = WindowEnd /\ MappingEnd' = MappingEnd
         /\ \A p : Single(p)' <=> Single(p)
<1>1. WindowEnd' = WindowEnd /\ MappingEnd' = MappingEnd /\ input' = input /\ beyond' = beyond
      /\ offset_input' = offset_input
  BY WindowKept DEF file
<1>2. \A p : Memory(p)' = Memory(p)
  BY <1>1 DEF Memory
<1>3. \A p : Single(p)' <=> Single(p)
  BY <1>1, <1>2 DEF Single
<1> QED BY <1>1, <1>3

\* Each run adds to the size by its own length, and so do all of them.
LEMMA GrowsEnough ==
  ASSUME NEW x \in Nat, NEW y \in Nat, NEW a \in Nat, NEW h \in Nat, NEW b \in Nat,
         2 * x <= LENGTH * a, 2 * y <= LENGTH * h, a + h <= b
  PROVE  2 * (x + y) <= LENGTH * b
<1>1. LENGTH \in Nat
  BY Constants
<1>2. (a + h) * LENGTH <= b * LENGTH
  BY <1>1, TimesMonotone
<1>3. (a + h) * LENGTH = LENGTH * a + LENGTH * h /\ b * LENGTH = LENGTH * b
  BY <1>1
<1>4. LENGTH * a \in Nat /\ LENGTH * h \in Nat /\ LENGTH * b \in Nat
  BY <1>1
<1> QED BY <1>2, <1>3, <1>4

\* The literals at the end of a window fit when its last run is counted.
LEMMA LastRunFits ==
  ASSUME AtByte, PrecTyped, nb_1_successif \in Nat, taille_out \in Nat, taille_output_tot \in Nat,
         i = 0 => copi = offset_input, RunEnd >= WindowEnd,
         \A m \in 0 .. copi - offset_input :
           AllSingle(copi - m, copi) => m <= nb_1_successif + Spare,
         iteration # 0 => taille_output_tot >= LENGTH - 1,
         NEW g \in Nat, CountGrows(g), nb_1_successif' = 0
  PROVE  OnesFit(taille_output_tot + (taille_out + g))
<1>1. /\ copi \in Nat /\ offset_input \in Nat /\ offset_input <= copi /\ copi < WindowEnd
      /\ RunEnd \in Nat /\ WindowEnd \in Nat
      /\ num = 1 => RunEnd <= WindowEnd
  BY CurrentRun, Window DEF AtByte, WindowOpen
<1>2. /\ iteration = 0 => 2 <= g
      /\ LastRun /\ NewOnes # 0 => /\ NewOnes + 3 - LENGTH <= g
                                   /\ iteration = 0 => NewOnes + 1 <= g
  BY DEF CountGrows
<1>3. LENGTH \in Nat /\ LENGTH >= 3
  BY Constants
<1>4. SUFFICES ASSUME NEW m \in 0 .. WindowEnd - offset_input, AllSingle(WindowEnd - m, WindowEnd)
               PROVE  m + 1 <= taille_output_tot + (taille_out + g)
  BY DEF OnesFit
<1>5. m \in Nat
  OBVIOUS
<1>6. 2 <= taille_output_tot + (taille_out + g)
  BY <1>2, <1>3
<1>7. CASE num # 1
  <2>1. m = 0
    BY <1>1, <1>4, <1>5, <1>7, RunsAreNotSingle
  <2> QED BY <1>6, <2>1
<1>8. CASE num = 1
  <2>1. RunEnd = WindowEnd /\ LastRun
    BY <1>1, <1>8 DEF LastRun
  <2>2. m \in 0 .. RunEnd - offset_input /\ AllSingle(RunEnd - m, RunEnd)
    BY <1>4, <2>1
  <2>3. m <= NewOnes + Spare
    BY <1>8, <2>2, OnesCountedWait
  <2>4. NewOnes \in Nat
    BY NumSizeBounds
  <2>5. CASE iteration = 0
    <3>1. Spare = 0
      BY <2>5 DEF Spare
    <3>2. NewOnes # 0 => NewOnes + 1 <= g
      BY <1>2, <2>1, <2>5
    <3> QED BY <1>5, <1>6, <2>3, <2>4, <3>1, <3>2
  <2>6. CASE iteration # 0
    <3>1. Spare = 1
      BY <2>6 DEF Spare
    <3>2. NewOnes # 0 => NewOnes + 3 - LENGTH <= g
      BY <1>2, <2>1
    <3>3. taille_output_tot >= LENGTH - 1
      BY <2>6
    <3> QED BY <1>3, <1>5, <1>6, <2>3, <2>4, <3>1, <3>2, <3>3
  <2> QED BY <2>5, <2>6
<1> QED BY <1>7, <1>8

\* The size counted so far stays in its bounds.
LEMMA CountRunSized ==
  ASSUME TypeInv, CountRun
  PROVE  /\ CountSized' /\ taille_out' \in 0 .. 2 * taille_max
         /\ copi' \in 0 .. Pages(MaxSize) + 1 /\ i' \in 0 .. taille_max
         /\ NewOnes \in 0 .. taille_max
         /\ nb_1_successif' \in 0 .. taille_max /\ check_length_last_byte' \in {0, 1}
         /\ Placed' /\ InsideWindow'
<1>1. TypeOK /\ Placed /\ InsideWindow /\ EnoughWritten /\ CountSized
  BY DEF TypeInv
<1>2. /\ step = "count" /\ step' = "count" /\ copi < WindowEnd
      /\ copi' = RunEnd /\ i' = i + 1
      /\ nb_1_successif' = IF LastRun THEN 0 ELSE NewOnes
      /\ check_length_last_byte' = IF LastRun THEN 0 ELSE NewCheck
      /\ UNCHANGED file /\ mapped' = mapped /\ taille_output_tot' = taille_output_tot
  BY DEF CountRun, out
<1>3. taille_out' =
        taille_out + NumSize
          + (IF num # 1 THEN FlushSize(nb_1_successif, check_length_last_byte, prec.nb_1) ELSE 0)
          + (IF LastRun THEN FlushSize(NewOnes, NewCheck, NewOnes) ELSE 0)
  BY DEF CountRun
<1>4. /\ AtByte /\ PrecTyped /\ nb_1_successif \in Nat /\ check_length_last_byte \in {0, 1}
      /\ i \in Nat /\ taille_out \in Nat /\ taille_output_tot \in Nat
      /\ offset_input \in Nat /\ iteration \in Nat
  BY <1>1, <1>2, TypesAtByte
<1>5. /\ copi' \in 0 .. Pages(MaxSize) + 1 /\ i' \in 0 .. taille_max
      /\ NewOnes \in 0 .. taille_max
      /\ nb_1_successif' \in 0 .. taille_max /\ check_length_last_byte' \in {0, 1}
      /\ Placed' /\ InsideWindow'
  BY <1>1, <1>2, RunMoves
<1>6. iteration = 0 => check_length_last_byte = 0
  BY <1>1 DEF Placed
<1>7. PICK g \in Nat : CountGrows(g)
  BY <1>2, <1>3, <1>4, <1>6, CountAdds
<1>8. /\ taille_out' = taille_out + g
      /\ g + 2 * nb_1_successif' <= 2 * nb_1_successif + 2 * num
      /\ num # 1 => g + 2 * nb_1_successif' <= 2 * nb_1_successif + 2 * num - 2
      /\ iteration = 0 /\ nb_1_successif' = 0 => 2 <= g
  BY <1>7 DEF CountGrows
<1>9. /\ copi \in Nat /\ offset_input <= copi /\ RunEnd \in Nat /\ copi < RunEnd
      /\ RunEnd <= MappingEnd + 1 /\ num = RunEnd - copi /\ num \in Nat
      /\ (num = 1 => RunEnd <= WindowEnd)
  BY <1>4, CurrentRun DEF AtByte
<1>10. /\ WindowEnd \in Nat /\ MappingEnd \in Nat /\ taille_max \in Nat
       /\ WindowEnd <= offset_input + taille_max
       /\ MappingEnd <= offset_input + taille_max
  <2>1. offset_input % taille_max = 0 /\ Len(input) <= MaxSize /\ WindowOpen
    BY <1>1, <1>2, <1>4 DEF Placed, InsideWindow, AtByte
  <2> QED BY <2>1, Window, MappingInPages, EncodeAssumption, Constants DEF Positive
<1>11. /\ taille_out + 2 * nb_1_successif <= 2 * (copi - offset_input)
       /\ iteration = 0 => 2 * (copi - offset_input) <= LENGTH * (taille_out + nb_1_successif)
       /\ \A m \in 0 .. copi - offset_input :
            AllSingle(copi - m, copi) => m <= nb_1_successif + Spare
  BY <1>1, <1>2 DEF CountSized
<1>12. PICK d \in Nat : nb_1_successif' = d
  BY <1>5, <1>10
<1>13. taille_out' + 2 * d <= 2 * (RunEnd - offset_input)
  BY <1>4, <1>8, <1>9, <1>11, <1>12
<1>21. taille_out' \in Nat
  BY <1>4, <1>8
<1>22. ASSUME NEW x \in Int, x <= taille_max, taille_out' + 2 * d <= 2 * x
       PROVE  taille_out' + 2 * d <= 2 * taille_max
  <2>1. PICK t, y : t = taille_out' /\ y = taille_max
    OBVIOUS
  <2>2. t \in Nat /\ y \in Nat /\ d \in Nat
    BY <1>10, <1>12, <1>21, <2>1
  <2>3. t + 2 * d <= 2 * y
    <3>1. t + 2 * d <= 2 * x
      BY <1>22, <2>1, <2>2
    <3>2. x <= y
      BY <1>22, <2>1, <2>2
    <3>3. x \in Int
      BY <1>22
    <3> QED BY <2>2, <3>1, <3>2, <3>3
  <2> QED BY <2>1, <2>3
<1>14. taille_out' + 2 * d <= 2 * taille_max
  <2>1. CASE num = 1
    <3>1. RunEnd - offset_input <= taille_max
      BY <1>4, <1>9, <1>10, <2>1
    <3>2. RunEnd - offset_input \in Int
      BY <1>4, <1>9
    <3> QED BY <1>10, <1>13, <3>1, <3>2, <1>22
  <2>2. CASE num # 1
    <3>1. taille_out' + 2 * d <= 2 * (RunEnd - offset_input) - 2
      BY <1>4, <1>8, <1>9, <1>11, <1>12, <2>2
    <3>2. PICK x : x = RunEnd - offset_input - 1
      OBVIOUS
    <3>3. x \in Int /\ x <= taille_max
      BY <1>4, <1>9, <1>10, <3>2
    <3>4. 2 * (RunEnd - offset_input) - 2 = 2 * x
      BY <1>4, <1>9, <3>2
    <3>5. taille_out' + 2 * d <= 2 * x
      BY <3>1, <3>4
    <3> QED BY <1>22, <3>3, <3>5
  <2> QED BY <2>1, <2>2
<1>15. ASSUME iteration = 0
       PROVE  2 * (RunEnd - offset_input) <= LENGTH * (taille_out' + d)
  <2>1. PICK h \in Nat : nb_1_successif + h <= g + d /\ 2 * num <= LENGTH * h
    BY <1>7, <1>12, <1>15 DEF CountGrows
  <2>2. PICK x, a, b : /\ x = copi - offset_input /\ a = taille_out + nb_1_successif
                       /\ b = taille_out' + d
    OBVIOUS
  <2>3. /\ x \in Nat /\ a \in Nat /\ b \in Nat /\ a + h <= b
        /\ x + num = RunEnd - offset_input
    BY <1>4, <1>8, <1>9, <1>12, <2>1, <2>2
  <2>4. 2 * x <= LENGTH * a
    BY <1>11, <1>15, <2>2
  <2>5. 2 * (x + num) <= LENGTH * b
    BY <1>9, <2>1, <2>3, <2>4, GrowsEnough
  <2> QED BY <2>2, <2>3, <2>5
<1>16. iteration = 0 /\ d = 0 => taille_out' >= 2
  BY <1>4, <1>8, <1>12
<1>17. ASSUME RunEnd < WindowEnd, NEW m \in 0 .. RunEnd - offset_input,
              AllSingle(RunEnd - m, RunEnd)
       PROVE  m <= d + Spare
  <2>1. d = NewOnes
    BY <1>2, <1>9, <1>10, <1>12, <1>17 DEF LastRun
  <2>2. CASE num = 1
    <3>1. i = 0 => copi = offset_input
      BY <1>1, <1>2 DEF InsideWindow
    <3>2. m <= NewOnes + Spare
      BY <1>4, <1>11, <1>17, <2>2, <3>1, OnesCountedWait
    <3> QED BY <2>1, <3>2
  <2>3. CASE num # 1
    <3>1. m \in Nat
      BY <1>17
    <3>2. m = 0
      BY <1>4, <1>9, <1>17, <2>3, <3>1, RunsAreNotSingle
    <3> QED BY <3>2 DEF Spare
  <2> QED BY <2>2, <2>3
<1>18. ASSUME RunEnd >= WindowEnd PROVE OnesFit(taille_output_tot + (taille_out + g))
  <2>1. i = 0 => copi = offset_input
    BY <1>1, <1>2 DEF InsideWindow
  <2>2. iteration # 0 => taille_output_tot >= LENGTH - 1
    BY <1>1, <1>2 DEF EnoughWritten, InsideWindow
  <2>3. nb_1_successif' = 0
    <3>1. (copi >= WindowEnd)'
      BY <1>2, <1>18, SinglesKept
    <3> QED BY <1>2, <1>5, <3>1 DEF InsideWindow
  <2> QED BY <1>4, <1>7, <1>11, <1>18, <2>1, <2>2, <2>3, LastRunFits
<1>19. CountSized'
  <2>1. /\ WindowEnd' = WindowEnd /\ offset_input' = offset_input /\ iteration' = iteration
        /\ \A p : Single(p)' <=> Single(p)
    BY <1>2, SinglesKept DEF file
  <2>2. Spare' = Spare
    BY <2>1 DEF Spare
  <2>3. \A m \in 0 .. RunEnd - offset_input :
          RunEnd < WindowEnd => ((AllSingle(copi - m, copi))' => m <= d + Spare)
    <3>1. SUFFICES ASSUME NEW m \in 0 .. RunEnd - offset_input, RunEnd < WindowEnd,
                          (AllSingle(copi - m, copi))'
                   PROVE  m <= d + Spare
      OBVIOUS
    <3>2. AllSingle(RunEnd - m, RunEnd)
      BY <1>2, <2>1, <3>1 DEF AllSingle
    <3> QED BY <1>17, <3>1, <3>2
  <2>4. ASSUME RunEnd >= WindowEnd PROVE (OnesFit(taille_output_tot + taille_out))'
    <3>1. OnesFit(taille_output_tot + (taille_out + g))
      BY <1>18, <2>4
    <3>2. (taille_output_tot + taille_out)' = taille_output_tot + (taille_out + g)
      BY <1>2, <1>8
    <3> QED BY <2>1, <3>1, <3>2 DEF OnesFit, AllSingle
  <2> QED BY <1>2, <1>12, <1>13, <1>14, <1>15, <1>16, <2>1, <2>2, <2>3, <2>4 DEF CountSized
<1>20. taille_out' \in 0 .. 2 * taille_max
  BY <1>4, <1>8, <1>10, <1>12, <1>14
<1> QED BY <1>5, <1>19, <1>20

\* The variables named ..._iter_prec.
Precs ==
  [last_byte : 0 .. 2 * LENGTH - 1, repetition : 0 .. LENGTH, nb_1 : 0 .. taille_max,
   offset_last_length : Nat]

LEMMA LastRunTyped ==
  ASSUME AtByte, NewOnes \in 0 .. taille_max, NEW p \in Precs
  PROVE  LastRunOf(p) \in Precs
<1>1. byte \in 0 .. 2 * LENGTH - 1 /\ num \in Nat /\ num # 0
  BY CurrentRun DEF Value
<1>2. PICK r : r = IF num % LENGTH = 0 THEN LENGTH ELSE num % LENGTH
  OBVIOUS
<1>3. r \in 0 .. LENGTH
  <2>1. num % LENGTH \in Nat /\ num % LENGTH < LENGTH /\ LENGTH \in Nat
    BY <1>1, Constants, DivMod
  <2> QED BY <1>2, <2>1
<1>4. LastRunOf(p) = [p EXCEPT !.last_byte = byte, !.repetition = r, !.nb_1 = NewOnes]
  BY <1>2 DEF LastRunOf
<1>5. byte \in 0 .. 2 * LENGTH - 1 /\ NewOnes \in 0 .. taille_max
  BY <1>1
<1> QED BY <1>3, <1>4, <1>5 DEF Precs

LEMMA CountRunTypes ==
  ASSUME TypeInv, CountRun
  PROVE  TypeInv'
<1>1. TypeOK /\ Placed /\ InsideWindow /\ EnoughWritten
  BY DEF TypeInv
<1>2. /\ CountSized' /\ taille_out' \in 0 .. 2 * taille_max
      /\ copi' \in 0 .. Pages(MaxSize) + 1 /\ i' \in 0 .. taille_max
      /\ NewOnes \in 0 .. taille_max
      /\ nb_1_successif' \in 0 .. taille_max /\ check_length_last_byte' \in {0, 1}
      /\ Placed' /\ InsideWindow'
  BY CountRunSized
<1>3. /\ step = "count" /\ step' = "count" /\ copi < WindowEnd
      /\ prec' = (IF LastRun THEN LastRunOf([prec EXCEPT !.repetition = RepetitionCounted])
                  ELSE [prec EXCEPT !.repetition = RepetitionCounted])
      /\ overrun' = (overrun \/ RunEnd > WindowEnd)
      /\ input' = input /\ offset_input' = offset_input /\ iteration' = iteration
      /\ beyond' = beyond /\ taille_output_tot' = taille_output_tot
      /\ output' = output /\ mapped' = mapped /\ current' = current
  BY DEF CountRun, file, out
<1>4. AtByte /\ PrecTyped
  BY <1>1, <1>3, TypesAtByte
<1>5. prec \in Precs
  BY <1>1 DEF TypeOK, Precs
<1>6. [prec EXCEPT !.repetition = RepetitionCounted] \in Precs
  <2>1. RepetitionCounted \in 0 .. LENGTH
    BY <1>4, RepetitionTyped
  <2> QED BY <1>5, <2>1 DEF Precs
<1>7. prec' \in Precs
  BY <1>2, <1>3, <1>4, <1>6, LastRunTyped
<1>8. TypeOK'
  <2>1. overrun' \in BOOLEAN
    BY <1>1, <1>3 DEF TypeOK
  <2>2. prec' \in [last_byte : 0 .. 2 * LENGTH - 1, repetition : 0 .. LENGTH,
                   nb_1 : 0 .. taille_max, offset_last_length : Nat]
    BY <1>7 DEF Precs
  <2> QED BY <1>1, <1>2, <1>3, <2>1, <2>2 DEF TypeOK
<1>9. EnoughWritten' /\ CompressSized'
  BY <1>1, <1>3 DEF EnoughWritten, CompressSized
<1> QED BY <1>2, <1>8, <1>9 DEF TypeInv

\* The last length of the output is not before its first byte.
LEMMA LastLengthIsWritten ==
  ASSUME TypeInv, step = "compress", copi < WindowEnd
  PROVE  OffsetLastLength \in Nat
<1>1. TypeOK /\ Placed /\ InsideWindow /\ CompressSized
  BY DEF TypeInv
<1>2. /\ AtByte /\ PrecTyped /\ nb_1_successif \in Nat /\ i \in Nat
      /\ taille_output_tot \in Nat /\ offset_input \in Nat
  BY <1>1, TypesAtByte
<1>3. /\ taille_output_tot >= 2 /\ OnesFit(taille_output_tot)
      /\ AllSingle(copi - nb_1_successif, copi)
  BY <1>1 DEF CompressSized
<1>4. CASE ~LastRun
  BY <1>2, <1>4 DEF OffsetLastLength, PrecTyped
<1>5. CASE LastRun /\ num # 1
  BY <1>2, <1>3, <1>5 DEF OffsetLastLength
<1>6. CASE LastRun /\ num = 1
  <2>1. /\ copi \in Nat /\ RunEnd = copi + 1 /\ RunEnd = WindowEnd /\ NewOnes \in Nat
        /\ NewOnes <= nb_1_successif + 1
    BY <1>2, <1>6, CurrentRun, NumSizeBounds DEF AtByte, LastRun
  <2>2. /\ nb_1_successif <= i /\ i <= copi - offset_input
        /\ i = 0 => copi = offset_input
        /\ copi # offset_input => input[copi] # input[copi + 1]
    BY <1>1 DEF InsideWindow
  <2>3. AllSingle(RunEnd - NewOnes, RunEnd)
    BY <1>2, <1>3, <1>6, <2>2, OnesHeldAreSingle
  <2>4. NewOnes \in 0 .. WindowEnd - offset_input
    BY <1>2, <2>1, <2>2
  <2>5. NewOnes + 1 <= taille_output_tot
    BY <1>3, <2>1, <2>3, <2>4 DEF OnesFit
  <2> QED BY <1>2, <1>6, <2>1, <2>5 DEF OffsetLastLength
<1> QED BY <1>4, <1>5, <1>6

\* What compress writes of a run.
LEMMA RunWrittenTyped ==
  ASSUME TypeInv, step = "compress", copi < WindowEnd, NEW first \in Beyond
  PROVE  AllDone(first) \in TypedWriters
<1>1. TypeOK /\ Placed /\ InsideWindow /\ CompressSized
  BY DEF TypeInv
<1>2. /\ AtByte /\ PrecTyped /\ beyond \in Readable /\ nb_1_successif \in Nat
      /\ check_length_last_byte \in {0, 1} /\ mapped.from \in Nat
  BY <1>1, TypesAtByte DEF Placed
<1>3. /\ WindowOpen /\ prec.nb_1 \in Nat /\ copi \in Nat /\ copi <= MappingEnd + 1
      /\ RunEnd \in Nat /\ RunEnd <= MappingEnd + 1 /\ NewOnes \in Nat /\ NewCheck \in {0, 1}
  <2>1. WindowOpen /\ prec.nb_1 \in Nat /\ copi \in Nat
    BY <1>2 DEF AtByte, PrecTyped
  <2>2. RunEnd \in Nat /\ copi < RunEnd /\ RunEnd <= MappingEnd + 1 /\ MappingEnd \in Nat
    BY <1>2, <2>1, CurrentRun, Window
  <2>3. NewOnes \in Nat /\ NewCheck \in {0, 1}
    BY <1>2, NumSizeBounds, NewCheckTyped
  <2> QED BY <2>1, <2>2, <2>3
<1>4. first \in Readable
  BY EncodeAssumption DEF Readable, Value
<1>5. Writer \in TypedWriters
  <2>1. /\ output \in Seq(Value) /\ current \in Nat /\ mapped.from <= current
        /\ prec.offset_last_length \in Nat
    BY <1>1, <1>2 DEF TypeOK, CompressSized, Value, PrecTyped
  <2> QED BY <2>1 DEF Writer, TypedWriters
<1>6. OnesDone(first) \in TypedWriters
  <2>1. CASE num = 1
    BY <1>5, <2>1 DEF OnesDone
  <2>2. CASE num # 1
    <3>1. OnesDone(first) =
            WriteOnes(Writer, copi, nb_1_successif, check_length_last_byte, first)
      BY <2>2 DEF OnesDone
    <3>2. WritesOn(Writer, WriteOnes(Writer, copi, nb_1_successif, check_length_last_byte, first))
      BY <1>2, <1>3, <1>4, <1>5, WriteOnesTyped
    <3> QED BY <3>1, <3>2 DEF WritesOn
  <2> QED BY <2>1, <2>2
<1>7. RunDone(first) \in TypedWriters
  <2>1. PICK v : v = WriteRun(OnesDone(first))
    OBVIOUS
  <2>2. v \in TypedWriters
    BY <1>2, <1>6, <2>1, WriteRunTyped DEF WritesOn
  <2>3. RunDone(first) = [v EXCEPT !.last = OffsetLastLength]
    BY <2>1 DEF RunDone
  <2>4. OffsetLastLength \in Nat
    BY LastLengthIsWritten
  <2> QED BY <2>2, <2>3, <2>4 DEF TypedWriters
<1>8. CASE ~LastRun
  BY <1>7, <1>8 DEF AllDone
<1>9. CASE LastRun
  <2>1. AllDone(first) = WriteOnes(RunDone(first), RunEnd, NewOnes, NewCheck, first)
    BY <1>9 DEF AllDone
  <2>2. WritesOn(RunDone(first), WriteOnes(RunDone(first), RunEnd, NewOnes, NewCheck, first))
    BY <1>2, <1>3, <1>4, <1>7, WriteOnesTyped
  <2> QED BY <2>1, <2>2 DEF WritesOn
<1> QED BY <1>8, <1>9

LEMMA CompressRunTypes ==
  ASSUME TypeInv, CompressRun
  PROVE  TypeInv'
<1>1. TypeOK /\ Placed /\ InsideWindow /\ EnoughWritten /\ CompressSized
  BY DEF TypeInv
<1>2. PICK first \in Beyond :
        /\ output' = AllDone(first).output /\ current' = AllDone(first).current
        /\ step' = IF AllDone(first).ok THEN step ELSE "crash"
  BY CompressRunIs
<1>3. /\ step = "compress" /\ copi < WindowEnd
      /\ prec' = [prec EXCEPT !.repetition = RepetitionCounted,
                              !.offset_last_length = OffsetLastLength]
      /\ nb_1_successif' = IF LastRun THEN 0 ELSE NewOnes
      /\ check_length_last_byte' = IF LastRun THEN 0 ELSE NewCheck
      /\ copi' = RunEnd /\ i' = i + 1
      /\ UNCHANGED <<file, taille_out, taille_output_tot, mapped>>
  BY CompressRunIs
<1>4. /\ AtByte /\ PrecTyped /\ nb_1_successif \in Nat /\ i \in Nat
      /\ offset_input \in Nat /\ taille_output_tot \in Nat
  BY <1>1, <1>3, TypesAtByte
<1>5. step' \in {"compress", "crash"}
  BY <1>2, <1>3
<1>6. /\ copi' \in 0 .. Pages(MaxSize) + 1 /\ i' \in 0 .. taille_max
      /\ nb_1_successif' \in 0 .. taille_max /\ check_length_last_byte' \in {0, 1}
      /\ Placed' /\ InsideWindow'
  <2>1. step' # "map" /\ UNCHANGED file /\ UNCHANGED mapped
    BY <1>3, <1>5
  <2> QED BY <1>1, <1>3, <2>1, RunMoves
<1>7. output' \in Seq(Value) /\ current' \in Nat /\ mapped.from <= current'
  <2>1. AllDone(first) \in TypedWriters
    BY <1>3, RunWrittenTyped
  <2> QED BY <1>2, <2>1 DEF TypedWriters
<1>8. prec' \in Precs
  <2>1. prec \in Precs
    BY <1>1 DEF TypeOK, Precs
  <2>2. RepetitionCounted \in 0 .. LENGTH /\ OffsetLastLength \in Nat
    BY <1>3, <1>4, RepetitionTyped, LastLengthIsWritten
  <2> QED BY <1>3, <2>1, <2>2 DEF Precs
<1>9. /\ input' = input /\ offset_input' = offset_input /\ iteration' = iteration
      /\ beyond' = beyond /\ taille_out' = taille_out
      /\ taille_output_tot' = taille_output_tot /\ mapped' = mapped /\ overrun' = overrun
  BY <1>3 DEF file, CompressRun
<1>10. TypeOK'
  <2>1. output' \in Seq(0 .. 2 * LENGTH - 1)
    BY <1>7 DEF Value
  <2>2. prec' \in [last_byte : 0 .. 2 * LENGTH - 1, repetition : 0 .. LENGTH,
                   nb_1 : 0 .. taille_max, offset_last_length : Nat]
    BY <1>8 DEF Precs
  <2>3. mapped'.from <= mapped'.to /\ current' >= mapped'.from
    BY <1>1, <1>7, <1>9 DEF TypeOK, Placed
  <2> QED BY <1>1, <1>5, <1>6, <1>9, <2>1, <2>2, <2>3 DEF TypeOK
<1>11. ASSUME copi' < WindowEnd PROVE (AllSingle(copi - nb_1_successif, copi))'
  <2>1. /\ WindowEnd' = WindowEnd /\ \A p : Single(p)' <=> Single(p)
    BY <1>3, SinglesKept
  <2>2. RunEnd < WindowEnd /\ RunEnd \in Nat /\ WindowEnd \in Nat /\ num \in Nat
    BY <1>3, <1>4, <1>11, CurrentRun, Window DEF AtByte
  <2>3. nb_1_successif' = NewOnes
    BY <1>3, <2>2 DEF LastRun
  <2>4. CASE num = 1
    <3>1. /\ nb_1_successif <= i /\ (i = 0 => copi = offset_input)
          /\ copi # offset_input => input[copi] # input[copi + 1]
          /\ AllSingle(copi - nb_1_successif, copi)
      BY <1>1, <1>3 DEF InsideWindow, CompressSized
    <3>2. AllSingle(RunEnd - NewOnes, RunEnd)
      BY <1>4, <2>4, <3>1, OnesHeldAreSingle
    <3> QED BY <1>3, <2>1, <2>3, <3>2 DEF AllSingle
  <2>5. CASE num # 1
    <3>1. NewOnes = 0
      BY <2>5 DEF NewOnes
    <3>2. \A p \in RunEnd - 0 .. RunEnd - 1 : FALSE
      BY <2>2
    <3> QED BY <1>3, <2>3, <3>1, <3>2 DEF AllSingle
  <2> QED BY <2>4, <2>5
<1>12. CompressSized'
  <2>1. /\ WindowEnd' = WindowEnd /\ \A p : Single(p)' <=> Single(p)
    BY <1>3, SinglesKept
  <2>2. /\ iteration = 0 => 2 * (WindowEnd - offset_input) <= LENGTH * taille_output_tot
        /\ taille_output_tot >= 2 /\ OnesFit(taille_output_tot)
    BY <1>1, <1>3 DEF CompressSized
  <2>3. (OnesFit(taille_output_tot))'
    BY <1>9, <2>1, <2>2 DEF OnesFit, AllSingle
  <2> QED BY <1>7, <1>9, <1>11, <2>1, <2>2, <2>3 DEF CompressSized
<1>13. EnoughWritten' /\ CountSized'
  BY <1>1, <1>5, <1>9 DEF EnoughWritten, CountSized
<1> QED BY <1>6, <1>10, <1>12, <1>13 DEF TypeInv

LEMMA InitTypes ==
  ASSUME Init
  PROVE  TypeInv
<1>1. PICK n \in 0 .. MaxSize : input \in [1 .. n -> Byte]
  BY DEF Init
<1>2. n \in Nat /\ n <= MaxSize /\ MaxSize \in Nat /\ input \in Seq(Byte) /\ Len(input) = n
  BY <1>1, EncodeAssumption, FunctionIsSequence
<1>3. /\ step = "map" /\ offset_input = 0 /\ iteration = 0 /\ copi = 0 /\ i = 0
      /\ beyond = Unmapped /\ taille_out = 0 /\ taille_output_tot = 0
      /\ output = <<>> /\ mapped = [from |-> 0, to |-> 0] /\ current = 0
      /\ nb_1_successif = 0 /\ check_length_last_byte = 0
      /\ prec = [last_byte |-> 0, repetition |-> 0, nb_1 |-> 0, offset_last_length |-> 0]
      /\ overrun = FALSE
  BY DEF Init
<1>4. taille_max \in Nat /\ taille_max # 0 /\ LENGTH \in Nat /\ LENGTH >= 3
  BY Constants DEF Positive
<1>5. 0 % taille_max = 0
  BY <1>4
<1>6. Pages(MaxSize) \in Nat
  BY <1>2, PagesCover
<1>7. TypeOK
  <2>1. prec \in Precs
    BY <1>3, <1>4 DEF Precs
  <2>2. mapped.from <= mapped.to /\ current >= mapped.from
    BY <1>3
  <2> HIDE DEF taille_max
  <2>3. 0 \in 0 .. Pages(MaxSize) + 1 /\ 0 \in 0 .. taille_max /\ 0 \in 0 .. 2 * taille_max
    BY <1>4, <1>6
  <2>4. output \in Seq(0 .. 2 * LENGTH - 1)
    BY <1>3
  <2>5. /\ offset_input \in 0 .. Len(input) /\ iteration \in 0 .. MaxSize
        /\ copi \in 0 .. Pages(MaxSize) + 1 /\ i \in 0 .. taille_max
        /\ taille_out \in 0 .. 2 * taille_max /\ taille_output_tot \in Nat
        /\ nb_1_successif \in 0 .. taille_max
    BY <1>2, <1>3, <2>3
  <2>6. prec \in [last_byte : 0 .. 2 * LENGTH - 1, repetition : 0 .. LENGTH,
                  nb_1 : 0 .. taille_max, offset_last_length : Nat]
    BY <2>1 DEF Precs
  <2>7. step = "map" /\ beyond = Unmapped /\ check_length_last_byte = 0 /\ overrun = FALSE
    BY <1>3
  <2> QED BY <1>2, <2>2, <2>4, <2>5, <2>6, <2>7 DEF TypeOK
<1>8. Placed
  BY <1>2, <1>3, <1>5 DEF Placed
<1>9. InsideWindow /\ EnoughWritten /\ CountSized /\ CompressSized
  BY <1>3 DEF InsideWindow, EnoughWritten, CountSized, CompressSized
<1> QED BY <1>7, <1>8, <1>9 DEF TypeInv

\* A position of the file is one of the windows over it.
LEMMA FileInPages ==
  ASSUME NEW p \in Nat, p <= MaxSize
  PROVE  p \in 0 .. Pages(MaxSize) + 1
<1>1. MaxSize \in Nat
  BY EncodeAssumption
<1>2. Pages(MaxSize) \in Nat /\ MaxSize <= Pages(MaxSize)
  BY <1>1, PagesCover
<1> QED BY <1>1, <1>2

LEMMA MapWindowTypes ==
  ASSUME TypeInv, MapWindow
  PROVE  TypeInv'
<1>1. TypeOK /\ Placed /\ EnoughWritten
  BY DEF TypeInv
<1>2. /\ step = "map" /\ offset_input < Len(input) /\ beyond' \in Beyond /\ step' = "count"
      /\ taille_out' = 0 /\ copi' = offset_input /\ i' = 0
      /\ input' = input /\ offset_input' = offset_input /\ iteration' = iteration
      /\ taille_output_tot' = taille_output_tot /\ output' = output /\ mapped' = mapped
      /\ current' = current /\ nb_1_successif' = nb_1_successif
      /\ check_length_last_byte' = check_length_last_byte /\ prec' = prec
      /\ overrun' = overrun
  BY DEF MapWindow, out, ones
<1>3. nb_1_successif = 0 /\ Len(input) <= MaxSize
  BY <1>1, <1>2 DEF Placed
<1>4. WindowOpen /\ offset_input \in Nat /\ Len(input) \in Nat
  BY <1>1, <1>2, TypesOpen, LenProperties DEF WindowOpen
<1>5. /\ WindowEnd' = WindowEnd /\ MappingEnd' = MappingEnd
      /\ WindowEnd \in Nat /\ MappingEnd \in Nat /\ offset_input < WindowEnd
      /\ WindowEnd <= MappingEnd
  BY <1>2, <1>4, Window, WindowKept
<1>6. taille_max \in Nat /\ LENGTH \in Nat
  BY Constants DEF Positive
<1>7. TypeOK'
  <2>1. offset_input \in 0 .. Pages(MaxSize) + 1
    BY <1>2, <1>3, <1>4, EncodeAssumption, FileInPages
  <2> HIDE DEF taille_max
  <2>2. 0 \in 0 .. taille_max /\ 0 \in 0 .. 2 * taille_max
    BY <1>6
  <2> QED BY <1>1, <1>2, <2>1, <2>2 DEF TypeOK
<1>8. Placed'
  BY <1>1, <1>2 DEF Placed
<1>9. InsideWindow'
  BY <1>2, <1>3, <1>4, <1>5 DEF InsideWindow
<1>10. EnoughWritten' /\ CompressSized'
  BY <1>1, <1>2 DEF EnoughWritten, CompressSized
<1>11. CountSized'
  <2>1. Spare' \in {0, 1}
    BY DEF Spare
  <2>2. \A m \in 0 .. copi' - offset_input' : m <= nb_1_successif' + Spare'
    <3>1. copi' - offset_input' = 0 /\ nb_1_successif' = 0
      BY <1>2, <1>3, <1>4
    <3>2. PICK d, s : d = copi' - offset_input' /\ s = Spare'
      OBVIOUS
    <3>3. d = 0 /\ s \in Nat
      BY <2>1, <3>1, <3>2
    <3>4. \A m \in 0 .. d : m <= 0 + s
      BY <3>3
    <3> QED BY <3>1, <3>2, <3>4
  <2>3. /\ 0 + 2 * nb_1_successif' <= 2 * (copi' - offset_input')
        /\ 0 + 2 * nb_1_successif' <= 2 * taille_max
        /\ 2 * (copi' - offset_input') <= LENGTH * (0 + nb_1_successif')
    BY <1>2, <1>3, <1>4, <1>6
  <2>4. (copi < WindowEnd /\ copi = offset_input)'
    BY <1>2, <1>5
  <2>5. ~(copi >= WindowEnd)'
    BY <1>2, <1>4, <1>5
  <2> QED BY <1>2, <2>2, <2>3, <2>4, <2>5 DEF CountSized
<1> QED BY <1>7, <1>8, <1>9, <1>10, <1>11 DEF TypeInv

LEMMA FinishTypes ==
  ASSUME TypeInv, Finish \/ ReadFault
  PROVE  TypeInv'
<1>1. /\ step' \in {"done", "crash"}
      /\ UNCHANGED <<input, offset_input, iteration, beyond, copi, i, taille_out,
                     taille_output_tot, output, mapped, current, nb_1_successif,
                     check_length_last_byte, prec, overrun>>
  BY DEF Finish, ReadFault, file, sizes, out, ones
<1>2. TypeOK'
  BY <1>1 DEF TypeInv, TypeOK
<1>3. Placed' /\ EnoughWritten'
  BY <1>1 DEF TypeInv, Placed, EnoughWritten
<1>4. InsideWindow' /\ CountSized' /\ CompressSized'
  BY <1>1 DEF InsideWindow, CountSized, CompressSized
<1> QED BY <1>2, <1>3, <1>4 DEF TypeInv

LEMMA StutterTypes ==
  ASSUME TypeInv, UNCHANGED vars
  PROVE  TypeInv'
<1>1. UNCHANGED <<file, step, copi, i, taille_out, taille_output_tot, output, mapped, current,
                  nb_1_successif, check_length_last_byte, prec, overrun>>
  BY DEF vars, sizes, out, ones
<1>2. /\ UNCHANGED <<input, offset_input, iteration, beyond>>
      /\ WindowEnd' = WindowEnd /\ MappingEnd' = MappingEnd
      /\ \A p : Single(p)' <=> Single(p)
  BY <1>1, SinglesKept DEF file
<1>3. TypeOK'
  BY <1>1, <1>2 DEF TypeInv, TypeOK
<1>4. Placed' /\ EnoughWritten' /\ InsideWindow'
  BY <1>1, <1>2 DEF TypeInv, Placed, EnoughWritten, InsideWindow
<1>5. CountSized'
  BY <1>1, <1>2 DEF TypeInv, CountSized, OnesFit, AllSingle, Spare
<1>6. CompressSized'
  BY <1>1, <1>2 DEF TypeInv, CompressSized, OnesFit, AllSingle
<1> QED BY <1>3, <1>4, <1>5, <1>6 DEF TypeInv

\* The page in which the new part of the output starts.
LEMMA PageOf ==
  ASSUME NEW t \in Nat
  PROVE  OffsetOutput(t) \in Nat /\ OffsetOutput(t) <= t
<1>1. PICK q, r : q = t \div PageSize /\ r = t % PageSize
  OBVIOUS
<1>2. q \in Nat /\ r \in Nat /\ t = PageSize * q + r
  BY <1>1, Constants, DivMod
<1>3. PICK c : c = PageSize * q
  OBVIOUS
<1>4. c \in Nat /\ q * PageSize = c
  BY <1>2, <1>3, Constants DEF Positive
<1>5. OffsetOutput(t) = c
  BY <1>1, <1>4 DEF OffsetOutput
<1> QED BY <1>2, <1>3, <1>4, <1>5

LEMMA ResizedTyped ==
  ASSUME NEW total \in Nat, NEW f \in Seq(Value)
  PROVE  [q \in 1 .. Max({total, Len(f)}) |-> IF q = total \/ q > Len(f) THEN 0 ELSE f[q]]
           \in Seq(Value)
<1>1. PICK n : n = Max({total, Len(f)})
  OBVIOUS
<1>2. Len(f) \in Nat
  BY LenProperties
<1>3. n \in Nat
  BY <1>1, <1>2, MaxOfTwo
<1>4. ASSUME NEW q \in 1 .. n
      PROVE  (IF q = total \/ q > Len(f) THEN 0 ELSE f[q]) \in Value
  <2>1. 0 \in Value
    BY Constants DEF Value
  <2>2. q <= Len(f) => f[q] \in Value
    BY <1>2, <1>3, <1>4
  <2> QED BY <1>2, <1>3, <2>1, <2>2
<1>5. PICK g : g = [q \in 1 .. n |-> IF q = total \/ q > Len(f) THEN 0 ELSE f[q]]
  OBVIOUS
<1>6. g \in [1 .. n -> Value]
  BY <1>4, <1>5
<1>7. g \in Seq(Value)
  BY <1>3, <1>6, FunctionIsSequence
<1> QED BY <1>1, <1>5, <1>7

LEMMA ResizeOutputTypes ==
  ASSUME TypeInv, ResizeOutput
  PROVE  TypeInv'
<1>1. TypeOK /\ Placed /\ InsideWindow /\ EnoughWritten /\ CountSized
  BY DEF TypeInv
<1>2. PICK total, start :
        total = taille_output_tot + taille_out /\ start = OffsetOutput(taille_output_tot)
  OBVIOUS
<1>3. /\ step = "count" /\ copi >= WindowEnd /\ step' = "compress"
      /\ taille_output_tot' = total
      /\ output' = [q \in 1 .. Max({total, Len(output)}) |->
                      IF q = total \/ q > Len(output) THEN 0 ELSE output[q]]
      /\ mapped' = [from |-> start, to |-> start + Pages(total - start)]
      /\ current' = taille_output_tot /\ nb_1_successif' = 0 /\ copi' = offset_input /\ i' = 0
      /\ taille_out' = taille_out /\ check_length_last_byte' = check_length_last_byte
      /\ prec' = prec /\ overrun' = overrun /\ UNCHANGED file
  BY <1>2 DEF ResizeOutput
<1>4. /\ input' = input /\ offset_input' = offset_input /\ iteration' = iteration
      /\ beyond' = beyond
  BY <1>3 DEF file
<1>5. /\ offset_input < Len(input) /\ Len(input) <= MaxSize /\ WindowOpen
      /\ offset_input \in Nat /\ iteration \in Nat /\ Len(input) \in Nat
      /\ taille_out \in Nat /\ taille_output_tot \in Nat /\ nb_1_successif = 0
      /\ LENGTH \in Nat /\ LENGTH >= 3 /\ taille_max \in Nat /\ copi \in Int
  <2>1. offset_input < Len(input) /\ Len(input) <= MaxSize /\ nb_1_successif = 0
        /\ copi \in Int
    BY <1>1, <1>3 DEF InsideWindow, Placed
  <2>2. WindowOpen
    BY <1>1, <2>1, TypesOpen
  <2>3. taille_max \in Nat /\ LENGTH \in Nat /\ LENGTH >= 3
    BY Constants DEF Positive
  <2>4. iteration \in Nat /\ taille_out \in Nat /\ taille_output_tot \in Nat
    BY <1>1, EncodeAssumption DEF TypeOK
  <2> QED BY <2>1, <2>2, <2>3, <2>4, LenProperties DEF WindowOpen
<1>6. /\ WindowEnd' = WindowEnd /\ MappingEnd' = MappingEnd /\ \A p : Single(p)' <=> Single(p)
      /\ WindowEnd \in Nat /\ MappingEnd \in Nat /\ offset_input < WindowEnd
      /\ WindowEnd <= MappingEnd
  BY <1>3, <1>5, SinglesKept, Window
<1>7. total \in Nat /\ total >= taille_output_tot /\ total >= taille_out
  BY <1>2, <1>5
<1>8. /\ start \in Nat /\ start <= taille_output_tot /\ Pages(total - start) \in Nat
  <2>1. start \in Nat /\ start <= taille_output_tot
    BY <1>2, <1>5, PageOf
  <2>2. total - start \in Nat
    BY <1>5, <1>7, <2>1
  <2> QED BY <2>1, <2>2, PagesCover
<1>9. /\ mapped'.from = start /\ mapped'.to = start + Pages(total - start)
  BY <1>3
<1>10. TypeOK'
  <2>1. output' \in Seq(0 .. 2 * LENGTH - 1)
    <3>1. output \in Seq(Value)
      BY <1>1 DEF TypeOK, Value
    <3> QED BY <1>3, <1>7, <3>1, ResizedTyped DEF Value
  <2>2. mapped'.from <= mapped'.to /\ current' >= mapped'.from
    BY <1>3, <1>5, <1>8, <1>9
  <2>3. offset_input \in 0 .. Pages(MaxSize) + 1
    BY <1>5, EncodeAssumption, FileInPages
  <2> HIDE DEF taille_max
  <2>4. 0 \in 0 .. taille_max
    BY <1>5
  <2> QED BY <1>1, <1>3, <1>4, <1>7, <2>1, <2>2, <2>3, <2>4 DEF TypeOK
<1>11. Placed'
  <2>1. mapped'.from \in Nat /\ mapped'.to \in Nat
    BY <1>8, <1>9
  <2> QED BY <1>1, <1>3, <1>4, <2>1 DEF Placed
<1>12. InsideWindow'
  BY <1>3, <1>4, <1>5, <1>6 DEF InsideWindow
<1>13. EnoughWritten'
  BY <1>1, <1>3, <1>4, <1>5, <1>7 DEF EnoughWritten
<1>14. CompressSized'
  <2>1. ASSUME iteration = 0 PROVE 2 * (WindowEnd - offset_input) <= LENGTH * total
    <3>1. 2 * (copi - offset_input) <= LENGTH * (taille_out + nb_1_successif)
      BY <1>1, <1>3, <2>1 DEF CountSized
    <3>2. taille_out + nb_1_successif = taille_out
      BY <1>5
    <3>3. taille_out * LENGTH <= total * LENGTH
      BY <1>5, <1>7, TimesMonotone
    <3>4. taille_out * LENGTH = LENGTH * taille_out /\ total * LENGTH = LENGTH * total
      BY <1>5, <1>7
    <3>5. PICK a, b : a = LENGTH * taille_out /\ b = LENGTH * total
      OBVIOUS
    <3>6. a \in Nat /\ b \in Nat /\ a <= b
      BY <1>5, <1>7, <3>3, <3>4, <3>5
    <3>7. 2 * (copi - offset_input) <= a
      BY <3>1, <3>2, <3>5
    <3>8. 2 * (WindowEnd - offset_input) <= b
      BY <1>3, <1>5, <1>6, <3>6, <3>7
    <3> QED BY <3>5, <3>8
  <2>2. total >= 2
    <3>1. CASE iteration = 0
      <4>1. copi # offset_input
        BY <1>3, <1>5, <1>6
      <4>2. taille_out >= 2
        BY <1>1, <1>3, <1>5, <3>1, <4>1 DEF CountSized
      <4> QED BY <1>5, <1>7, <4>2
    <3>2. CASE iteration # 0
      <4>1. taille_output_tot >= LENGTH - 1
        BY <1>1, <1>5, <3>2 DEF EnoughWritten
      <4> QED BY <1>5, <1>7, <4>1
    <3> QED BY <3>1, <3>2
  <2>3. OnesFit(total)
    BY <1>1, <1>2, <1>3 DEF CountSized
  <2>4. (OnesFit(taille_output_tot))'
    BY <1>3, <1>4, <1>6, <2>3 DEF OnesFit, AllSingle
  <2>5. (AllSingle(copi - nb_1_successif, copi))'
    <3>1. \A p \in offset_input - 0 .. offset_input - 1 : FALSE
      BY <1>5
    <3> QED BY <1>3, <3>1 DEF AllSingle
  <2> QED BY <1>3, <1>4, <1>5, <1>6, <2>1, <2>2, <2>4, <2>5 DEF CompressSized
<1>15. CountSized'
  BY <1>3 DEF CountSized
<1> QED BY <1>10, <1>11, <1>12, <1>13, <1>14, <1>15 DEF TypeInv

\* A window that ends before the file does ends where the next one may start.
LEMMA NextWindowAligned ==
  ASSUME WindowOpen, offset_input % taille_max = 0, WindowEnd < Len(input)
  PROVE  WindowEnd % taille_max = 0 /\ WindowEnd = offset_input + taille_max
<1>1. WindowEnd \in Nat /\ Len(input) \in Nat /\ offset_input \in Nat
  BY Window, LenProperties DEF WindowOpen
<1>2. WindowEnd = offset_input + taille_max
  BY <1>1, Window
<1>3. (offset_input + taille_max * 1) % taille_max = offset_input % taille_max
  BY <1>1, Constants, DivAdds
<1>4. taille_max * 1 = taille_max
  BY Constants DEF Positive
<1> QED BY <1>2, <1>3, <1>4

\* A first window that is not the last one is two pages long: its output, at
\* two bytes for LENGTH at the best, leaves room for the longest last length.
LEMMA FirstWindowWritten ==
  ASSUME NEW t \in Nat, 2 * taille_max <= LENGTH * t
  PROVE  t >= LENGTH - 1
<1>1. LENGTH \in Nat /\ LENGTH - 1 \in Nat /\ LENGTH >= 3
  BY Constants
<1>2. LENGTH * (LENGTH - 1) <= LENGTH * t
  <2>1. PICK a, b : a = LENGTH * (LENGTH - 1) /\ b = LENGTH * t
    OBVIOUS
  <2>2. a \in Nat /\ b \in Nat
    BY <1>1, <2>1
  <2>3. a <= 4 * PageSize /\ PageSize \in Nat
    BY <2>1, PagesAssumption, Constants DEF Positive
  <2>4. 2 * (2 * PageSize) <= b
    BY <2>1 DEF taille_max
  <2> QED BY <2>1, <2>2, <2>3, <2>4
<1>3. SUFFICES ASSUME t < LENGTH - 1 PROVE FALSE
  BY <1>1
<1>4. LENGTH * t + LENGTH <= LENGTH * (LENGTH - 1)
  BY <1>1, <1>3, TimesStep
<1>5. PICK a, b : a = LENGTH * (LENGTH - 1) /\ b = LENGTH * t
  OBVIOUS
<1>6. a \in Nat /\ b \in Nat
  BY <1>1, <1>5
<1> QED BY <1>1, <1>2, <1>4, <1>5, <1>6

LEMMA UnmapWindowTypes ==
  ASSUME TypeInv, UnmapWindow
  PROVE  TypeInv'
<1>1. TypeOK /\ Placed /\ InsideWindow /\ EnoughWritten /\ CompressSized
  BY DEF TypeInv
<1>2. /\ step = "compress" /\ copi >= WindowEnd /\ nb_1_successif' = 0
      /\ \/ step' = "error" /\ iteration' = iteration /\ offset_input' = offset_input
         \/ step' = "map" /\ iteration' = iteration + 1 /\ offset_input' = WindowEnd
      /\ UNCHANGED <<input, beyond, copi, i, taille_out, taille_output_tot, output, mapped,
                     current, check_length_last_byte, prec, overrun>>
  BY DEF UnmapWindow, sizes, out
<1>3. /\ offset_input < Len(input) /\ Len(input) <= MaxSize /\ WindowOpen
      /\ offset_input \in Nat /\ iteration \in Nat /\ Len(input) \in Nat
      /\ iteration <= offset_input /\ (iteration = 0 <=> offset_input = 0)
      /\ offset_input % taille_max = 0 /\ taille_output_tot \in Nat
  <2>1. /\ offset_input < Len(input) /\ Len(input) <= MaxSize
        /\ iteration <= offset_input /\ (iteration = 0 <=> offset_input = 0)
        /\ offset_input % taille_max = 0
    BY <1>1, <1>2 DEF InsideWindow, Placed
  <2>2. WindowOpen
    BY <1>1, <2>1, TypesOpen
  <2>3. iteration \in Nat /\ taille_output_tot \in Nat
    BY <1>1, EncodeAssumption DEF TypeOK
  <2> QED BY <2>1, <2>2, <2>3, LenProperties DEF WindowOpen
<1>4. WindowEnd \in Nat /\ offset_input < WindowEnd /\ WindowEnd <= Len(input)
  BY <1>3, Window
<1>5. WindowEnd < Len(input) =>
        WindowEnd % taille_max = 0 /\ WindowEnd = offset_input + taille_max
  BY <1>3, NextWindowAligned
<1>6. WindowEnd < Len(input) => taille_output_tot >= LENGTH - 1
  <2>1. CASE iteration = 0
    <3>1. 2 * (WindowEnd - offset_input) <= LENGTH * taille_output_tot
      BY <1>1, <1>2, <2>1 DEF CompressSized
    <3>2. WindowEnd = offset_input + taille_max => WindowEnd - offset_input = taille_max
      BY <1>3, Constants DEF Positive
    <3> QED BY <1>3, <1>5, <3>1, <3>2, FirstWindowWritten
  <2>2. CASE iteration # 0
    BY <1>1, <1>3, <2>2 DEF EnoughWritten
  <2> QED BY <2>1, <2>2
<1>7. taille_max \in Nat
  BY Constants DEF Positive
<1>8. /\ offset_input' \in 0 .. Len(input) /\ iteration' \in 0 .. MaxSize
      /\ iteration' <= offset_input' /\ (iteration' = 0 <=> offset_input' = 0)
  <2>1. CASE step' = "error"
    BY <1>2, <1>3, <2>1, EncodeAssumption
  <2>2. CASE step' = "map"
    BY <1>2, <1>3, <1>4, <2>2, EncodeAssumption
  <2> QED BY <1>2, <2>1, <2>2
<1>9. TypeOK'
  <2> HIDE DEF taille_max
  <2>1. nb_1_successif' \in 0 .. taille_max
    BY <1>2, <1>7
  <2> QED BY <1>1, <1>2, <1>8, <2>1 DEF TypeOK
<1>10. offset_input' < Len(input) => offset_input' % taille_max = 0
  BY <1>2, <1>3, <1>5
<1>11. iteration' = 0 => check_length_last_byte' = 0
  BY <1>1, <1>2, <1>3 DEF Placed
<1>12. Placed'
  BY <1>1, <1>2, <1>8, <1>10, <1>11 DEF Placed
<1>13. EnoughWritten'
  BY <1>1, <1>2, <1>6 DEF EnoughWritten
<1>14. InsideWindow' /\ CountSized' /\ CompressSized'
  BY <1>2 DEF InsideWindow, CountSized, CompressSized
<1> QED BY <1>9, <1>12, <1>13, <1>14 DEF TypeInv

LEMMA TypeInvariance == Spec => []TypeInv
<1>1. Init => TypeInv
  BY InitTypes
<1>2. TypeInv /\ [Next]_vars => TypeInv'
  <2>1. SUFFICES ASSUME TypeInv, [Next]_vars PROVE TypeInv'
    OBVIOUS
  <2>2. CASE MapWindow
    BY <2>1, <2>2, MapWindowTypes
  <2>3. CASE CountRun
    BY <2>1, <2>3, CountRunTypes
  <2>4. CASE ReadFault \/ Finish
    BY <2>1, <2>4, FinishTypes
  <2>5. CASE ResizeOutput
    BY <2>1, <2>5, ResizeOutputTypes
  <2>6. CASE CompressRun
    BY <2>1, <2>6, CompressRunTypes
  <2>7. CASE UnmapWindow
    BY <2>1, <2>7, UnmapWindowTypes
  <2>8. CASE Ended \/ UNCHANGED vars
    BY <2>1, <2>8, StutterTypes DEF Ended
  <2> QED BY <2>1, <2>2, <2>3, <2>4, <2>5, <2>6, <2>7, <2>8 DEF Next
<1> QED BY <1>1, <1>2, PTL DEF Spec

\* Whatever the file, its borders and what lies behind its windows, encode writes
\* nothing that is no byte, writes nothing in front of its mapping, never counts
\* more than two bytes of output for one of input, and never takes for the last
\* length a position in front of the output: compress stores it before the
\* literals after it are written, as an offset from the size that was counted.
THEOREM EncoderTyped == Spec => []TypeOK
<1>1. TypeInv => TypeOK
  BY DEF TypeInv
<1> QED BY <1>1, TypeInvariance, PTL
=============================================================================
