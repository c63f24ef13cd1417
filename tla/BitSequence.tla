---------------------------- MODULE BitSequence ----------------------------
(***************************************************************************)
(* What the calls of bitstring.c do, seen from outside: a bit string is a  *)
(* sequence of bits, the one with index 0 first.  One action for each      *)
(* call.  The rotation is the one of the code, of its comment              *)
(* (bitstring.c:89) and of its test; bitstring.h has the opposite one.     *)
(***************************************************************************)
EXTENDS Integers, Sequences

CONSTANTS Handle,    \* the pointers to bit strings the caller keeps
          CHAR_BIT,  \* the bits of a char
          INT_BIT,   \* the bits of an unsigned int
          Pow2,      \* the powers of two
          NULL

VARIABLES s,         \* the strings, or NULL
          running    \* whether the program has not been stopped

Becomes(h, string) == s' = [s EXCEPT ![h] = string] /\ UNCHANGED running

Stop == running' = FALSE /\ UNCHANGED s

\* bitstring_alloc: n zeros, if they fill chars.
Alloc(h, n) ==
  Becomes(h, IF n > 0 /\ n % CHAR_BIT = 0 THEN [i \in 1 .. n |-> 0] ELSE NULL)

\* bitstring_alloc_from_int: the binary form of x.
AllocFromInt(h, x) ==
  Becomes(h, [i \in 1 .. INT_BIT |-> (x \div Pow2[INT_BIT - i]) % 2])

\* The index has to be one of the string.
SetBit(h, n, bit) ==
  IF n + 1 \in DOMAIN s[h] THEN Becomes(h, [s[h] EXCEPT ![n + 1] = bit]) ELSE Stop

\* The bit with index i gets the index i + n, around the end: to the right, as
\* the string is printed.  bitstring.h:48-51 has it to the left.
Rotate(h, n) ==
  LET len == Len(s[h])
  IN Becomes(h, [i \in 1 .. len |-> s[h][1 + ((i - 1 - n) % len)]])

Concat(h, g) == Becomes(h, s[h] \o s[g])

\* Strings of different lengths are refused.
Xor(h, g, r) ==
  IF Len(s[h]) = Len(s[g])
  THEN Becomes(r, [i \in DOMAIN s[h] |-> IF s[h][i] = s[g][i] THEN 0 ELSE 1])
  ELSE UNCHANGED <<s, running>>

Free(h) == Becomes(h, NULL)
=============================================================================
