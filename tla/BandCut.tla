------------------------------ MODULE BandCut ------------------------------
(***************************************************************************)
(* How a block of images becomes packets: treatBlock (main.c) chooses the  *)
(* number of packets per image, imagesCut (threadpool.c) gives each packet *)
(* its lines begin..finish, and a filter of filters.c works on the lines   *)
(* of its packet that exist.  The threads filter the packets in any order  *)
(* and at the same time, so two packets must never share a line.           *)
(***************************************************************************)
EXTENDS Integers

CONSTANTS NIMAGE,        \* images of the block
          NFILTERS,      \* filters of the command line
          Heights,       \* heights an image may have
          ThreadCounts   \* numbers of threads a filter may be given

\* treatBlock divides by the number of threads (imagesCut), so "-t 0" is out.
ASSUME CutAssumption ==
  /\ NIMAGE \in Nat \ {0}
  /\ NFILTERS \in Nat \ {0}
  /\ Heights \subseteq Nat \ {0}
  /\ ThreadCounts \subseteq Nat \ {0}

Image  == 0 .. NIMAGE - 1
Filter == 0 .. NFILTERS - 1

IsMax(m, S) == m \in S /\ \A x \in S : x <= m
IsMin(m, S) == m \in S /\ \A x \in S : m <= x

\* imagesCut: the height of a band is height/nPack, plus one when the division
\* has a remainder.  Mutant: the remainder is forgotten.
BandHeight_NoRemainder(h, n) == IF h >= n THEN h \div n ELSE 1

BandHeight(h, n) == h \div n + (IF h % n > 0 THEN 1 ELSE 0)

Begin(h, n, j) == j * BandHeight(h, n)

Finish(h, n, j) == (j + 1) * BandHeight(h, n) - 1

VARIABLES
  height,     \* height[i]: lines of image i
  nthreads,   \* nthreads[f]: threads of filter f
  nPack,      \* packets per image, 0 before treatBlock computes it
  mat_buf,    \* packets cut so far: [img, begin, finish]
  done,       \* packets the filter was applied to
  lineFiltered  \* lineFiltered[i][y]: times the filter was applied to line y

cutVars == <<height, nthreads, nPack, mat_buf, done, lineFiltered>>

CutInit ==
  /\ height \in [Image -> Heights]
  /\ nthreads \in [Filter -> ThreadCounts]
  /\ nPack = 0
  /\ mat_buf = {}
  /\ done = {}
  /\ lineFiltered = [i \in Image |-> [y \in 0 .. height[i] - 1 |-> 0]]

\* The most threads of a filter (maxArray), but at most the smallest height.
ChooseNPack ==
  /\ nPack = 0
  /\ \E m \in ThreadCounts, h \in Heights :
       /\ IsMax(m, {nthreads[f] : f \in Filter})
       /\ IsMin(h, {height[i] : i \in Image})
       /\ nPack' = IF m > h THEN h ELSE m
  /\ UNCHANGED <<height, nthreads, mat_buf, done, lineFiltered>>

Packet(i, j) == [img    |-> i, num |-> j,
                 begin  |-> Begin(height[i], nPack, j),
                 finish |-> Finish(height[i], nPack, j)]

\* imagesCut: all the packets of all the images, in one go.
ImagesCut ==
  /\ nPack > 0 /\ mat_buf = {}
  /\ mat_buf' = {Packet(i, j) : i \in Image, j \in 0 .. nPack - 1}
  /\ UNCHANGED <<height, nthreads, nPack, done, lineFiltered>>

\* filterBand_*: the lines begin..finish that exist, i < img->height.
Lines(p) == {y \in p.begin .. p.finish : y < height[p.img]}

ApplyFilter(p) ==
  /\ p \in mat_buf \ done
  /\ lineFiltered' = [lineFiltered EXCEPT ![p.img] =
       [y \in DOMAIN @ |-> IF y \in Lines(p) THEN @[y] + 1 ELSE @[y]]]
  /\ done' = done \cup {p}
  /\ UNCHANGED <<height, nthreads, nPack, mat_buf>>

Finished == nPack > 0 /\ mat_buf # {} /\ done = mat_buf

CutNext ==
  \/ ChooseNPack
  \/ ImagesCut
  \/ \E p \in mat_buf : ApplyFilter(p)
  \/ Finished /\ UNCHANGED cutVars

CutSpec == CutInit /\ [][CutNext]_cutVars

-----------------------------------------------------------------------------
\* Two packets of an image never share a line: the threads that filter them
\* at the same time write different pixels.
PacketsDisjoint ==
  \A p, q \in mat_buf : p.img = q.img /\ p # q => Lines(p) \cap Lines(q) = {}

\* When every packet of the block was filtered, every line of every image was
\* filtered exactly once, whatever the heights and the thread counts.
EveryLineOnce ==
  Finished => \A i \in Image : \A y \in 0 .. height[i] - 1 : lineFiltered[i][y] = 1
=============================================================================
