----------------------------- MODULE ImageChain -----------------------------
(***************************************************************************)
(* What the filters of projet-2 promise, with no thread: the program       *)
(* applies its filters one after the other, each to the whole image.  The  *)
(* image is a sequence of lines.  What a filter computes is left open: a   *)
(* line filtered by f is a term made of f and of the lines f reads.        *)
(***************************************************************************)
EXTENDS Integers

VARIABLES image,     \* image[y]: the contents of line y
          filters,   \* the filters of the command line
          k          \* the filter to apply next, the last one first

\* The matrix of filter.h; outside of the image it reads the line itself.
Above(y, im) == IF y + 1 \in DOMAIN im THEN im[y + 1] ELSE im[y]
Below(y, im) == IF y - 1 \in DOMAIN im THEN im[y - 1] ELSE im[y]

Filtered(f, im) ==
  [y \in DOMAIN im |-> IF f = "blur" THEN <<f, Below(y, im), im[y], Above(y, im)>>
                                     ELSE <<f, im[y]>>]

Init == k + 1 \in Nat /\ DOMAIN filters = 0 .. k

Apply ==
  /\ k >= 0 /\ filters[k] # "wrong"
  /\ image' = Filtered(filters[k], image)
  /\ k' = k - 1
  /\ UNCHANGED filters

\* A word that is no filter leaves the image as it is.
Skip ==
  /\ k >= 0 /\ filters[k] = "wrong"
  /\ k' = k - 1
  /\ UNCHANGED <<image, filters>>

Next == Apply \/ Skip

Spec == Init /\ [][Next]_<<image, filters, k>>
=============================================================================
