----------------------------- MODULE Bitstring -----------------------------
(***************************************************************************)
(* The bit strings of projet-1/bitstring.c.  The bits are packed into      *)
(* chars from the last one on: index len - 1 is bit 0 of bytes[0].  All    *)
(* operations go through set and get, which turn the index around; print   *)
(* reads the chars themselves.                                             *)
(***************************************************************************)
EXTENDS Integers, Sequences

CONSTANTS Handle, CHAR_BIT, INT_BIT, MaxBits, MaxShift, NULL

\* 1 << k
Pow2[k \in Nat] == IF k = 0 THEN 1 ELSE 2 * Pow2[k - 1]

\* The structs of len bits: a char for each CHAR_BIT of them.
String(len) ==
  [len : {len}, bytes : [1 .. len \div CHAR_BIT -> 0 .. Pow2[CHAR_BIT] - 1]]
Strings == UNION {String(len) : len \in {n \in 1 .. MaxBits : n % CHAR_BIT = 0}}

ASSUME BitstringAssumption ==
  /\ CHAR_BIT \in Nat \ {0} /\ CHAR_BIT % 2 = 0
  /\ INT_BIT \in 1 .. MaxBits /\ INT_BIT % CHAR_BIT = 0
  /\ MaxBits \in Nat /\ MaxShift \in Nat
  /\ NULL \notin Strings

VARIABLES
  b,         \* b[h]: the struct h points to, or NULL
  status,    \* "running", or why the program was stopped
  ret        \* what the last concat or xor returned

vars == <<b, status, ret>>

Bit == {0, 1}
Shift == -MaxShift .. MaxShift
Live == {h \in Handle : b[h] # NULL}

\* What calloc and malloc give: len zero bits.
Zeros(len) == [len |-> len, bytes |-> [c \in 1 .. len \div CHAR_BIT |-> 0]]

\* bitstring_get.  In a sequence the char with index c is at c + 1.
Get(str, n) ==
  LET m == str.len - 1 - n
  IN (str.bytes[1 + m \div CHAR_BIT] \div Pow2[m % CHAR_BIT]) % 2

\* Mutant: a bit that is already set is set again.
MustFlip_One(str, n, bit) == bit = 1 \/ Get(str, n) # bit

MustFlip(str, n, bit) == Get(str, n) # bit

\* bitstring_set: the bit is flipped if it is not the given one.
Set(str, n, bit) ==
  LET m    == str.len - 1 - n
      mask == Pow2[m % CHAR_BIT]
  IN IF MustFlip(str, n, bit)
     THEN [str EXCEPT !.bytes[1 + m \div CHAR_BIT] = IF bit = 1 THEN @ + mask ELSE @ - mask]
     ELSE str

\* The loop of the operations: the bits at[0], at[1], ... are set at to[0], ...
Fill(len, to, at) ==
  LET str[k \in 0 .. len] ==
        IF k = 0 THEN Zeros(len) ELSE Set(str[k - 1], to[k - 1], at[k - 1])
  IN str[len]
InPlace(len) == [i \in 0 .. len - 1 |-> i]

Init ==
  /\ b = [h \in Handle |-> NULL]
  /\ status = "running"
  /\ ret = 0

\* bitstring_alloc: NULL unless n is a positive multiple of CHAR_BIT.
Alloc(h, n) ==
  /\ b[h] = NULL
  /\ b' = [b EXCEPT ![h] = IF n > 0 /\ n % CHAR_BIT = 0 THEN Zeros(n) ELSE NULL]
  /\ UNCHANGED <<status, ret>>

\* Mutant: the least significant bit gets the lowest index.
IntIndex_Low(i) == i

IntIndex(i) == INT_BIT - 1 - i

\* bitstring_alloc_from_int: bit i of x is set at IntIndex(i).
AllocFromInt(h, x) ==
  /\ b[h] = NULL
  /\ b' = [b EXCEPT ![h] = Fill(INT_BIT, [i \in 0 .. INT_BIT - 1 |-> IntIndex(i)],
                                    [i \in 0 .. INT_BIT - 1 |-> (x \div Pow2[i]) % 2])]
  /\ UNCHANGED <<status, ret>>

SetBit(h, n, bit) ==
  /\ IF n >= b[h].len
     THEN status' = "bad index" /\ UNCHANGED b
     ELSE b' = [b EXCEPT ![h] = Set(b[h], n, bit)] /\ UNCHANGED status
  /\ UNCHANGED ret

\* bitstring_get, called with an index that is not one of the string.
GetBadIndex(h, n) ==
  /\ n \notin 0 .. b[h].len - 1
  /\ status' = "bad index"
  /\ UNCHANGED <<b, ret>>

\* The remainder of C has the sign of n.
Remainder(n, len) == IF n >= 0 THEN n % len ELSE -((-n) % len)

\* Mutant: the index is brought back from above only.
RotateTo_Up(i, n, len) == IF i + n > len - 1 THEN i + n - len ELSE i + n

RotateTo(i, n, len) ==
  CASE i + n < 0       -> len + i + n
    [] i + n > len - 1 -> i + n - len
    [] OTHER           -> i + n

\* bitstring_rotate: the bits are copied into a new string, whose chars replace
\* the old ones.
Rotate(h, n) ==
  /\ LET len == b[h].len
         r   == Remainder(n, len)
     IN IF \A i \in 0 .. len - 1 : RotateTo(i, r, len) \in 0 .. len - 1
        THEN /\ b' = [b EXCEPT ![h] = Fill(len, [i \in 0 .. len - 1 |-> RotateTo(i, r, len)],
                                                [i \in 0 .. len - 1 |-> Get(b[h], i)])]
             /\ UNCHANGED status
        ELSE status' = "bad index" /\ UNCHANGED b
  /\ UNCHANGED ret

\* bitstring_concat
Concat(h, g) ==
  LET len1 == b[h].len
      len  == len1 + b[g].len
  IN /\ len <= MaxBits
     /\ b' = [b EXCEPT ![h] =
                Fill(len, InPlace(len),
                     [i \in 0 .. len - 1 |-> IF i < len1 THEN Get(b[h], i)
                                            ELSE Get(b[g], i - len1)])]
     /\ ret' = 0
     /\ UNCHANGED status

\* One of the strings is NULL, or there is no memory for the new one.
ConcatFails == ret' = -1 /\ UNCHANGED <<b, status>>

\* bitstring_xor
Xor(h, g, res) ==
  IF b[h].len # b[g].len
  THEN ret' = -1 /\ UNCHANGED <<b, status>>
  ELSE /\ b' = [b EXCEPT ![res] =
                  Fill(b[h].len, InPlace(b[h].len),
                       [i \in 0 .. b[h].len - 1 |->
                          IF Get(b[h], i) = Get(b[g], i) THEN 0 ELSE 1])]
       /\ ret' = 0
       /\ UNCHANGED status

Free(h) == b' = [b EXCEPT ![h] = NULL] /\ UNCHANGED <<status, ret>>

\* Without memory alloc_from_int returns NULL, rotate stops the program and xor
\* writes through NULL.
NoMemory(h) ==
  /\ \/ status' = "no memory"
     \/ \E g \in Live : b[g].len = b[h].len /\ status' = "crash"
  /\ UNCHANGED <<b, ret>>

Use ==
  \/ \E h \in Handle :
       \/ \E n \in 0 .. MaxBits : Alloc(h, n)
       \/ \E x \in 0 .. Pow2[INT_BIT] - 1 : AllocFromInt(h, x)
       \/ Free(h)
  \/ \E h \in Live :
       \/ \E n \in 0 .. MaxBits, bit \in Bit : SetBit(h, n, bit)
       \/ \E n \in {-1, MaxBits} : GetBadIndex(h, n)
       \/ \E n \in Shift : Rotate(h, n)
       \/ \E g \in Live : Concat(h, g) \/ \E res \in Handle : Xor(h, g, res)
       \/ NoMemory(h)
  \/ ConcatFails

Stopped == status # "running" /\ UNCHANGED vars

Next == (status = "running" /\ Use) \/ Stopped

Spec == Init /\ [][Next]_vars

-----------------------------------------------------------------------------
(* bitstring_print: two digits for each char, the last char first, into a   *)
(* buffer with room for them and the end; without the room nothing changes. *)

DIGIT_BIT == CHAR_BIT \div 2

\* Mutant: the two digits of a char are exchanged.
DigitOf_Swapped(c, k) == IF k % 2 = 1 THEN c % Pow2[DIGIT_BIT] ELSE c \div Pow2[DIGIT_BIT]

\* Digit k from the right.
DigitOf(c, k) == IF k % 2 = 0 THEN c % Pow2[DIGIT_BIT] ELSE c \div Pow2[DIGIT_BIT]

Hex(str) ==
  LET hexLen == str.len \div DIGIT_BIT
  IN [p \in 1 .. hexLen |->
        DigitOf(str.bytes[1 + (hexLen - p) \div 2], hexLen - p)]

-----------------------------------------------------------------------------
(* Properties.                                                              *)

TypeOK ==
  /\ b \in [Handle -> Strings \cup {NULL}]
  /\ status \in {"running", "bad index", "no memory", "crash"}
  /\ ret \in {0, -1}

\* A rotation by any number of places, to either side, gives every bit a place
\* of its own inside the string.
RotatePermutes ==
  \A h \in Live, n \in Shift :
    LET len == b[h].len
        To(i) == RotateTo(i, Remainder(n, len), len)
    IN /\ \A i \in 0 .. len - 1 : To(i) \in 0 .. len - 1
       /\ \A i, j \in 0 .. len - 1 : To(i) = To(j) => i = j

\* What is printed is the number the bits are the binary form of, the bit with
\* index 0 first: print agrees with set and get on how chars are packed.
Shown(str, p) ==
  LET value[k \in 0 .. DIGIT_BIT] ==
        IF k = 0 THEN 0 ELSE 2 * value[k - 1] + Get(str, (p - 1) * DIGIT_BIT + k - 1)
  IN value[DIGIT_BIT]
PrintShowsBits ==
  \A h \in Live : \A p \in DOMAIN Hex(b[h]) : Hex(b[h])[p] = Shown(b[h], p)

\* Every call does to the packed strings what BitSequence says it does to the
\* sequences of bits they stand for.
Bits == INSTANCE BitSequence WITH
  s <- [h \in Handle |-> IF b[h] = NULL THEN NULL
                         ELSE [i \in 1 .. b[h].len |-> Get(b[h], i - 1)]],
  running <- status = "running"

AllocAsPromised(h) ==
  /\ \A n \in 0 .. MaxBits : Alloc(h, n) => Bits!Alloc(h, n)
  /\ \A x \in 0 .. Pow2[INT_BIT] - 1 : AllocFromInt(h, x) => Bits!AllocFromInt(h, x)
  /\ Free(h) => Bits!Free(h)
UseAsPromised(h) ==
  /\ \A n \in 0 .. MaxBits, bit \in Bit : SetBit(h, n, bit) => Bits!SetBit(h, n, bit)
  /\ \A n \in Shift : Rotate(h, n) => Bits!Rotate(h, n)
  /\ \A g \in Live : /\ Concat(h, g) => Bits!Concat(h, g)
                     /\ \A r \in Handle : Xor(h, g, r) => Bits!Xor(h, g, r)
CallsImplementBits ==
  [][/\ \A h \in Handle : AllocAsPromised(h)
     /\ \A h \in Live : UseAsPromised(h)]_vars
=============================================================================
