------------------------ MODULE FilterPipelineProofs ------------------------
(***************************************************************************)
(* Theorems about FilterPipeline, for any number of filters, images,       *)
(* packets and threads.                                                    *)
(***************************************************************************)
EXTENDS FilterPipeline, FiniteSetTheorems, TLAPS

-----------------------------------------------------------------------------
(* Lemmas on the constant operators.                                        *)

\* initializeBlur numbers the blur filters from 1 to NBLUR, so the number
\* minus one is a row of the blur arrays.
LEMMA BlurNumbers ==
  /\ f_isblur \in [Filter -> Nat]
  /\ f_beforeblur \in [Filter -> Nat]
  /\ \A f \in Filter : f_isblur[f] # 0 => f_isblur[f] - 1 \in BlurRow
  /\ \A f \in Filter : f_beforeblur[f] # 0 => f_beforeblur[f] - 1 \in BlurRow
PROOF
<1>1. IsFiniteSet(Blur)
  <2>1. IsFiniteSet(Filter)
    BY ConstantsAssumption, FS_Interval DEF Filter
  <2>2. QED
    BY <2>1, FS_Subset, ConstantsAssumption
<1>2. ASSUME NEW f \in Blur
      PROVE  /\ Cardinality({g \in Blur : g <= f}) \in Nat \ {0}
             /\ Cardinality({g \in Blur : g <= f}) <= Cardinality(Blur)
  <2> DEFINE S == {g \in Blur : g <= f}
  <2>1. /\ IsFiniteSet(S)
        /\ Cardinality(S) <= Cardinality(Blur)
    BY <1>1, FS_Subset
  <2>2. f \in S
    BY ConstantsAssumption DEF Filter
  <2>3. Cardinality(S) \in Nat /\ Cardinality(S) # 0
    BY <2>1, <2>2, FS_CardinalityType, FS_EmptySet
  <2>4. QED
    BY <2>1, <2>3
<1>3. Cardinality(Blur) \in Nat
  BY <1>1, FS_CardinalityType
<1>4. /\ f_isblur \in [Filter -> Nat]
      /\ \A f \in Filter : f_isblur[f] # 0 => f_isblur[f] - 1 \in BlurRow
  BY <1>2, <1>3 DEF f_isblur, BlurRow, NBLUR
<1>5. QED
  BY <1>4 DEF f_beforeblur

\* The numbering of the slots by imagesCut: slot i*PerImage + j holds band j
\* of image i, a bijection between slots and packets.
LEMMA CutSlots ==
  /\ NPACK \in Nat
  /\ \A s \in Slot : <<s \div PerImage, s % PerImage>> \in Packet
  /\ \A p \in Packet : \E s \in Slot : p = <<s \div PerImage, s % PerImage>>
  /\ \A s, q \in Slot :
       <<s \div PerImage, s % PerImage>> = <<q \div PerImage, q % PerImage>> => s = q
PROOF
<1> USE ConstantsAssumption DEF ConstantsAssumption
<1>1. ASSUME NEW s \in Nat
      PROVE  /\ s \div PerImage \in Nat
             /\ s % PerImage \in Pack
             /\ s = PerImage * (s \div PerImage) + (s % PerImage)
  <2>1. PerImage \in Int /\ PerImage > 0
    OBVIOUS
  <2>2. s \div PerImage \in Int /\ s % PerImage \in 0 .. PerImage - 1
    BY <2>1
  <2>3. s = PerImage * (s \div PerImage) + (s % PerImage)
    BY <2>1
  <2>4. s \div PerImage >= 0
    <3> DEFINE d == s \div PerImage
               m == s % PerImage
    <3>1. d \in Int /\ m < PerImage /\ m \in Int /\ s = PerImage * d + m
      BY <2>2, <2>3
    <3> HIDE DEF d, m
    <3>2. ASSUME d < 0 PROVE FALSE
      <4>1. PerImage * d <= PerImage * (-1)
        BY <2>1, <3>1, <3>2
      <4>2. QED
        BY <2>1, <3>1, <4>1
    <3>3. d >= 0
      BY <3>1, <3>2
    <3>4. QED
      BY <3>3 DEF d
  <2>5. QED
    BY <2>2, <2>3, <2>4 DEF Pack
<1>2. NPACK \in Nat
  BY DEF NPACK
<1>3. ASSUME NEW s \in Slot PROVE s \div PerImage \in Image
  <2> DEFINE d == s \div PerImage
  <2>1. s \in Nat /\ s < NPACK /\ d \in Nat /\ PerImage * d <= s
    BY <1>1, <1>2 DEF Slot, Pack
  <2>2. ASSUME d >= NIMAGE PROVE FALSE
    <3>1. PerImage * d >= PerImage * NIMAGE
      BY <2>1, <2>2
    <3>2. QED
      BY <2>1, <3>1 DEF NPACK
  <2>3. QED
    BY <2>1, <2>2 DEF Image
<1>4. ASSUME NEW p \in Packet
      PROVE  \E s \in Slot : p = <<s \div PerImage, s % PerImage>>
  <2>1. PICK i \in Image, j \in Pack : p = <<i, j>>
    BY DEF Packet
  <2> DEFINE s == PerImage * i + j
  <2>2. i \in Nat /\ j \in Nat /\ j < PerImage /\ i + 1 <= NIMAGE
    BY DEF Image, Pack
  <2>3. PerImage * i + PerImage <= NIMAGE * PerImage
    BY <2>2
  <2>4. s \in Slot
    BY <2>2, <2>3, <1>2 DEF Slot, NPACK
  <2>5. s \div PerImage = i /\ s % PerImage = j
    BY <2>2
  <2>6. QED
    BY <2>1, <2>4, <2>5
<1>5. ASSUME NEW s \in Slot
      PROVE  <<s \div PerImage, s % PerImage>> \in Packet
  <2>1. s % PerImage \in Pack
    BY <1>1, <1>2 DEF Slot
  <2>2. QED
    BY <1>3, <2>1 DEF Packet
<1>6. ASSUME NEW s \in Slot, NEW q \in Slot,
             s \div PerImage = q \div PerImage, s % PerImage = q % PerImage
      PROVE  s = q
  <2>1. s \in Nat /\ q \in Nat
    BY <1>2 DEF Slot
  <2>2. /\ s = PerImage * (s \div PerImage) + (s % PerImage)
        /\ q = PerImage * (q \div PerImage) + (q % PerImage)
    BY <1>1, <2>1
  <2>3. QED
    BY <2>2, <1>6
<1>7. QED
  BY <1>2, <1>4, <1>5, <1>6

-----------------------------------------------------------------------------
(* Type correctness.  What a thread's locals hold depends on where it is.   *)

BlurSteps == {"waitCopi", "lockTake", "scan", "repost", "copi", "lockBuf", "memcpy"}
Before    == {"top", "waitCopi", "lockTake", "scan", "exit"}
Carrying  == {"apply", "waitEmpty", "insert", "postFull", "beforeBlur"}

Control ==
  \A t \in Thread :
    /\ pc[t] \in BlurSteps => isblur(t) # 0
    /\ pc[t] \notin Before /\ isblur(t) # 0 => chosen[t] \in Image
    /\ pc[t] \in Carrying => paquet[t] \in Packet
    /\ pc[t] = "beforeBlur" => f_beforeblur[num_filter[t]] # 0

TypeInv == TypeOK /\ Control

LEMMA Sizes ==
  /\ NFILTERS \in Nat /\ NIMAGE \in Nat /\ PerImage \in Nat
  /\ \A i \in Image : i \in 0 .. NIMAGE /\ i + 1 \in 0 .. NIMAGE
  /\ 0 \in 0 .. NIMAGE
PROOF
  BY ConstantsAssumption DEF ConstantsAssumption, Image

LEMMA InitTypeInv == Init => TypeInv
PROOF
<1> SUFFICES ASSUME Init PROVE TypeInv
  OBVIOUS
<1> USE ConstantsAssumption DEF ConstantsAssumption
<1>1. mat_buf \in [Row -> [Slot -> Packet \cup {None}]]
  BY CutSlots DEF Init
<1>2. /\ full \in [Row -> Nat] /\ empty \in [Row -> Nat]
  BY CutSlots DEF Init
<1>3. <<>> \in Seq(Filter)
  OBVIOUS
<1>4. applied \in [Packet -> Seq(Filter)] /\ content \in [CopyId -> [Pack -> Seq(Filter)]]
  BY <1>3 DEF Init
<1>5. TypeOK
  BY <1>1, <1>2, <1>4, Sizes DEF Init, TypeOK, PC
<1>6. Control
  BY DEF Init, Control, BlurSteps, Before, Carrying
<1>7. QED
  BY <1>5, <1>6 DEF TypeInv

\* The constants of a thread: its filter, and its rows when it is a blur or
\* comes before one.
LEMMA ThreadConstants ==
  ASSUME NEW t \in Thread
  PROVE  /\ num_filter[t] \in Filter
         /\ num_filter[t] \in Row
         /\ OutRow(t) \in Row /\ OutRow(t) # num_filter[t]
         /\ isblur(t) # 0 => BlurOf(t) \in BlurRow
         /\ f_beforeblur[num_filter[t]] # 0 => NextBlur(t) \in BlurRow
PROOF
<1>1. num_filter[t] \in Filter
  BY ConstantsAssumption DEF ConstantsAssumption
<1>2. num_filter[t] \in Row /\ OutRow(t) \in Row /\ OutRow(t) # num_filter[t]
  BY <1>1, ConstantsAssumption DEF ConstantsAssumption, Filter, Row, OutRow
<1>3. QED
  BY <1>1, <1>2, BlurNumbers DEF isblur, BlurOf, NextBlur

LEMMA InsertElemType ==
  ASSUME TypeOK, NEW t \in Thread, paquet[t] \in Packet, InsertElem(t)
  PROVE  /\ pc' \in [Thread -> PC] /\ failed' \in BOOLEAN
         /\ mat_buf' \in [Row -> [Slot -> Packet \cup {None}]]
         /\ pc' = pc \/ pc' = [pc EXCEPT ![t] = "postFull"]
PROOF
<1> DEFINE r == OutRow(t)
           free == {s \in Slot : mat_buf[r][s] = None}
<1>1. CASE free = {}
  BY <1>1 DEF InsertElem, TypeOK
<1>2. CASE free # {}
  <2>1. PICK s \in Slot : mat_buf' = [mat_buf EXCEPT ![r][s] = paquet[t]]
    BY <1>2 DEF InsertElem
  <2>2. r \in Row
    BY ThreadConstants
  <2>3. mat_buf' \in [Row -> [Slot -> Packet \cup {None}]]
    BY <2>1, <2>2 DEF TypeOK
  <2>4. pc' = [pc EXCEPT ![t] = "postFull"] /\ UNCHANGED failed
    BY <1>2 DEF InsertElem, Goto
  <2>5. QED
    BY <2>3, <2>4 DEF TypeOK, PC
<1>3. QED
  BY <1>1, <1>2

LEMMA ImageCopiDestroyType ==
  ASSUME copy \in [CopyId -> {"none", "live", "freed", "double"}],
         read_only \in [Packet -> CopyId \cup {None, Garbage}],
         NEW i, NEW row, ImageCopiDestroy(i, row)
  PROVE  /\ copy' \in [CopyId -> {"none", "live", "freed", "double"}]
         /\ read_only' \in [Packet -> CopyId \cup {None, Garbage}]
PROOF
<1> DEFINE visited == {s \in Slot : /\ row[s] # None /\ num_img(row[s]) = i
                                    /\ read_only[row[s]] # None}
<1>1. CASE visited = {}
  BY <1>1 DEF ImageCopiDestroy
<1>2. CASE visited # {}
  <2>1. PICK s \in Slot : copy' = [copy EXCEPT ![read_only[row[s]]] =
                                      IF @ = "live" THEN "freed" ELSE "double"]
    BY <1>2 DEF ImageCopiDestroy
  <2>2. read_only' = [p \in Packet |->
           IF \E q \in visited : row[q] = p THEN None ELSE read_only[p]]
    BY <1>2 DEF ImageCopiDestroy
  <2>3. copy' \in [CopyId -> {"none", "live", "freed", "double"}]
    BY <2>1
  <2>4. read_only' \in [Packet -> CopyId \cup {None, Garbage}]
    BY <2>2
  <2>5. QED
    BY <2>3, <2>4
<1>3. QED
  BY <1>1, <1>2

LEMMA EndPassControl ==
  ASSUME TypeOK, Control, NEW t \in Thread, EndPass(t)
  PROVE  Control'
PROOF
  BY DEF EndPass, Goto, TypeOK, Control, BlurSteps, Before, Carrying, isblur

LEMMA StepTypeInv == TypeInv /\ [Next]_vars => TypeInv'
PROOF
<1> SUFFICES ASSUME TypeInv, [Next]_vars PROVE TypeInv'
  OBVIOUS
<1> USE DEF TypeInv
<1>1. ASSUME NEW t \in Thread, ExitLoop(t) PROVE TypeInv'
  <2>1. TypeOK'
    BY <1>1, ThreadConstants
    DEF ExitLoop, NoPassLeft, TypeOK, Control, At, Goto, PC, BlurSteps, Before, Carrying, local, buffers, choice, copying
  <2>2. Control'
    BY <1>1, ThreadConstants, BlurNumbers
    DEF ExitLoop, NoPassLeft, TypeOK, Control, At, Goto, BlurSteps, Before, Carrying, isblur, local, buffers, choice, copying
  <2>3. QED
    BY <2>1, <2>2
<1>2. ASSUME NEW t \in Thread, Pass(t) PROVE TypeInv'
  <2>1. TypeOK'
    BY <1>2, ThreadConstants
    DEF Pass, NoPassLeft, TypeOK, Control, At, Goto, PC, BlurSteps, Before, Carrying, local, buffers, choice, copying
  <2>2. Control'
    BY <1>2, ThreadConstants, BlurNumbers
    DEF Pass, NoPassLeft, TypeOK, Control, At, Goto, BlurSteps, Before, Carrying, isblur, local, buffers, choice, copying
  <2>3. QED
    BY <2>1, <2>2
<1>3. ASSUME NEW t \in Thread, WaitCanCopi(t) PROVE TypeInv'
  <2>1. TypeOK'
    BY <1>3, ThreadConstants
    DEF WaitCanCopi, TypeOK, Control, At, Goto, PC, BlurSteps, Before, Carrying, local, buffers, choice, copying
  <2>2. Control'
    BY <1>3, ThreadConstants, BlurNumbers
    DEF WaitCanCopi, TypeOK, Control, At, Goto, BlurSteps, Before, Carrying, isblur, local, buffers, choice, copying
  <2>3. QED
    BY <2>1, <2>2
<1>4. ASSUME NEW t \in Thread, LockTake(t) PROVE TypeInv'
  <2>1. pc' \in [Thread -> PC] /\ scan' \in [Thread -> 0 .. NIMAGE]
    BY <1>4, Sizes DEF LockTake, TypeOK, Goto, PC
  <2>2. can_i_take_c_mutex' \in [BlurRow -> Thread \cup {None}]
    BY <1>4, ThreadConstants DEF LockTake, TypeOK
  <2>3. TypeOK'
    BY <1>4, <2>1, <2>2 DEF LockTake, TypeOK, local, buffers, choice, copying
  <2>4. Control'
    BY <1>4, ThreadConstants, BlurNumbers
    DEF LockTake, TypeOK, Control, At, Goto, BlurSteps, Before, Carrying, isblur, local, buffers, choice, copying
  <2>5. QED
    BY <2>3, <2>4
<1>5. ASSUME NEW t \in Thread, CheckLmatBlur(t) PROVE TypeInv'
  <2> DEFINE b == BlurOf(t)
             i == scan[t]
  <2>1. b \in BlurRow /\ pc \in [Thread -> PC] /\ "repost" \in PC
    BY <1>5, ThreadConstants DEF CheckLmatBlur, At, TypeOK, Control, BlurSteps, PC
  <2>2. CASE i \notin Image
    BY <1>5, <2>2 DEF CheckLmatBlur, TypeOK, Control, isblur, local, buffers, choice, copying
  <2>3. CASE i \in Image /\ MayTake(b, i)
    <3>1. /\ chosen' = [chosen EXCEPT ![t] = i]
          /\ can_i_take_c' = [can_i_take_c EXCEPT ![b][i] = @ + 1]
          /\ scan' = [scan EXCEPT ![t] = 0]
          /\ pc' = [pc EXCEPT ![t] = "repost"]
          /\ UNCHANGED failed
      BY <1>5, <2>3 DEF CheckLmatBlur, Goto
    <3>2. /\ pc' \in [Thread -> PC] /\ scan' \in [Thread -> 0 .. NIMAGE]
          /\ chosen' \in [Thread -> Image \cup {None}]
      BY <2>1, <2>3, <3>1, Sizes DEF TypeOK
    <3>3. can_i_take_c' \in [BlurRow -> [Image -> Nat]]
      BY <2>1, <2>3, <3>1 DEF TypeOK
    <3>4. TypeOK'
      BY <1>5, <3>1, <3>2, <3>3 DEF CheckLmatBlur, TypeOK, buffers, copying
    <3>5. Control'
      BY <1>5, <2>3, <3>1 DEF CheckLmatBlur, At, TypeOK, Control, BlurSteps, Before, Carrying, isblur
    <3>6. QED
      BY <3>4, <3>5
  <2>4. CASE i \in Image /\ ~MayTake(b, i)
    <3>1. /\ scan' = [scan EXCEPT ![t] = i + 1]
          /\ UNCHANGED <<pc, chosen, can_i_take_c, failed>>
      BY <1>5, <2>4 DEF CheckLmatBlur
    <3>2. TypeOK'
      BY <1>5, <2>4, <3>1, Sizes DEF CheckLmatBlur, TypeOK, buffers, copying
    <3>3. Control'
      BY <1>5, <3>1 DEF CheckLmatBlur, Control, isblur
    <3>4. QED
      BY <3>2, <3>3
  <2>5. QED
    BY <2>2, <2>3, <2>4
<1>6. ASSUME NEW t \in Thread, Repost(t) PROVE TypeInv'
  <2>1. TypeOK'
    BY <1>6, ThreadConstants
    DEF Repost, MoreToTake, TypeOK, Control, At, Goto, PC, BlurSteps, Before, Carrying, local, buffers, choice, copying
  <2>2. Control'
    BY <1>6, ThreadConstants, BlurNumbers
    DEF Repost, MoreToTake, TypeOK, Control, At, Goto, BlurSteps, Before, Carrying, isblur, local, buffers, choice, copying
  <2>3. QED
    BY <2>1, <2>2
<1>7. ASSUME NEW t \in Thread, CopiAlreadyDone(t) PROVE TypeInv'
  <2>1. TypeOK'
    BY <1>7, ThreadConstants
    DEF CopiAlreadyDone, TypeOK, Control, At, Goto, PC, BlurSteps, Before, Carrying, local, buffers, choice, copying
  <2>2. Control'
    BY <1>7, ThreadConstants, BlurNumbers
    DEF CopiAlreadyDone, TypeOK, Control, At, Goto, BlurSteps, Before, Carrying, isblur, local, buffers, choice, copying
  <2>3. QED
    BY <2>1, <2>2
<1>8. ASSUME NEW t \in Thread, LockCopi(t) PROVE TypeInv'
  <2>1. TypeOK'
    BY <1>8, ThreadConstants
    DEF LockCopi, TypeOK, Control, At, Goto, PC, BlurSteps, Before, Carrying, local, buffers, choice, copying
  <2>2. Control'
    BY <1>8, ThreadConstants, BlurNumbers
    DEF LockCopi, TypeOK, Control, At, Goto, BlurSteps, Before, Carrying, isblur, local, buffers, choice, copying
  <2>3. QED
    BY <2>1, <2>2
<1>9. ASSUME NEW t \in Thread, LockBuf(t) PROVE TypeInv'
  <2>1. TypeOK'
    BY <1>9, ThreadConstants
    DEF LockBuf, TypeOK, Control, At, Goto, PC, BlurSteps, Before, Carrying, local, buffers, choice, copying
  <2>2. Control'
    BY <1>9, ThreadConstants, BlurNumbers
    DEF LockBuf, TypeOK, Control, At, Goto, BlurSteps, Before, Carrying, isblur, local, buffers, choice, copying
  <2>3. QED
    BY <2>1, <2>2
<1>10. ASSUME NEW t \in Thread, EndCopi(t) PROVE TypeInv'
  <2> DEFINE b == BlurOf(t)
             c == chosen[t]
             r == num_filter[t]
  <2>1. b \in BlurRow /\ c \in Image /\ <<b, c>> \in CopyId
    BY <1>10, ThreadConstants DEF EndCopi, At, Control, BlurSteps, Before, CopyId
  <2>2. /\ pc' = [pc EXCEPT ![t] = "waitFull"]
        /\ buf_mutex' = [buf_mutex EXCEPT ![r] = None]
        /\ copi_is_done' = [copi_is_done EXCEPT ![b][c] = @ + 1]
        /\ copi_is_done_mutex' = [copi_is_done_mutex EXCEPT ![b][c] = None]
    BY <1>10 DEF EndCopi, Goto
  <2>3. /\ copy' \in [CopyId -> {"none", "live", "freed", "double"}]
        /\ content' \in [CopyId -> [Pack -> Seq(Filter)]]
        /\ read_only' \in [Packet -> CopyId \cup {None, Garbage}]
    <3>1. CASE SlotsOf(r, c) = {}
      BY <1>10, <3>1 DEF EndCopi, TypeOK
    <3>2. CASE SlotsOf(r, c) # {}
      <4>1. \A j \in Pack : applied[<<c, j>>] \in Seq(Filter)
        BY <2>1 DEF TypeOK, Packet
      <4>2. /\ copy' = [copy EXCEPT ![<<b, c>>] = "live"]
            /\ content' = [content EXCEPT ![<<b, c>>] = [j \in Pack |-> applied[<<c, j>>]]]
            /\ read_only' = [p \in Packet |->
                  IF \E s \in SlotsOf(r, c) : mat_buf[r][s] = p
                  THEN <<b, c>> ELSE read_only[p]]
        BY <1>10, <3>2 DEF EndCopi
      <4>3. QED
        BY <2>1, <4>1, <4>2 DEF TypeOK
    <3>3. QED
      BY <3>1, <3>2
  <2>4. TypeOK'
    <3>1. copi_is_done' \in [BlurRow -> [Image -> Nat]]
      BY <2>1, <2>2 DEF TypeOK
    <3>2. copi_is_done_mutex' \in [BlurRow -> [Image -> Thread \cup {None}]]
      BY <2>1, <2>2 DEF TypeOK
    <3>3. buf_mutex' \in [Row -> Thread \cup {None}] /\ pc' \in [Thread -> PC]
      BY <2>2 DEF TypeOK, PC
    <3>4. QED
      BY <1>10, <2>3, <3>1, <3>2, <3>3 DEF EndCopi, TypeOK, local, choice
  <2>5. Control'
    BY <1>10, <2>1, <2>2
    DEF EndCopi, TypeOK, Control, BlurSteps, Before, Carrying, isblur, local
  <2>6. QED
    BY <2>4, <2>5
<1>11. ASSUME NEW t \in Thread, WaitFull(t) PROVE TypeInv'
  <2>1. TypeOK'
    BY <1>11, ThreadConstants
    DEF WaitFull, TypeOK, Control, At, Goto, PC, BlurSteps, Before, Carrying, local, buffers, choice, copying
  <2>2. Control'
    BY <1>11, ThreadConstants, BlurNumbers
    DEF WaitFull, TypeOK, Control, At, Goto, BlurSteps, Before, Carrying, isblur, local, buffers, choice, copying
  <2>3. QED
    BY <2>1, <2>2
<1>12. ASSUME NEW t \in Thread, Take(t) PROVE TypeInv'
  <2> DEFINE r == num_filter[t]
  <2>1. CASE Wanted(t, r) = {}
    BY <1>12, <2>1 DEF Take, TypeOK, Control, isblur, choice, copying
  <2>2. CASE Wanted(t, r) # {}
    <3>1. PICK s \in Slot : s \in Wanted(t, r) /\ TakeSlot(t, r, s)
      BY <1>12, <2>2 DEF Take, IsFirst
    <3>2. r \in Row /\ mat_buf[r][s] \in Packet
      BY <3>1, ThreadConstants DEF Wanted, SlotsOf, TypeOK
    <3>3. /\ pc' = [pc EXCEPT ![t] = "apply"]
          /\ empty' = [empty EXCEPT ![r] = @ + 1]
          /\ paquet' = [paquet EXCEPT ![t] = mat_buf[r][s]]
          /\ mat_buf' = [mat_buf EXCEPT ![r][s] = None]
          /\ UNCHANGED failed
      BY <1>12, <2>2, <3>1 DEF Take, Goto, TakeSlot
    <3>4. TypeOK'
      <4>1. /\ empty' \in [Row -> Nat] /\ paquet' \in [Thread -> Packet \cup {None}]
            /\ pc' \in [Thread -> PC]
        BY <3>2, <3>3 DEF TypeOK, PC
      <4>2. mat_buf' \in [Row -> [Slot -> Packet \cup {None}]]
        BY <3>2, <3>3 DEF TypeOK
      <4>3. QED
        BY <1>12, <3>3, <4>1, <4>2 DEF Take, TypeOK, choice, copying
    <3>5. pc[t] = "take"
      BY <1>12 DEF Take, At
    <3>6. Control'
      BY <1>12, <3>2, <3>3, <3>5
      DEF Take, TypeOK, Control, BlurSteps, Before, Carrying, isblur
    <3>7. QED
      BY <3>4, <3>6
  <2>3. QED
    BY <2>1, <2>2
<1>13. ASSUME NEW t \in Thread, EndApply(t) PROVE TypeInv'
  <2>1. TypeOK'
    BY <1>13, ThreadConstants
    DEF EndApply, TypeOK, Control, At, Goto, PC, BlurSteps, Before, Carrying, local, buffers, choice, copying
  <2>2. Control'
    BY <1>13, ThreadConstants, BlurNumbers
    DEF EndApply, TypeOK, Control, At, Goto, BlurSteps, Before, Carrying, isblur, local, buffers, choice, copying
  <2>3. QED
    BY <2>1, <2>2
<1>14. ASSUME NEW t \in Thread, WaitEmpty(t) PROVE TypeInv'
  <2>1. TypeOK'
    BY <1>14, ThreadConstants
    DEF WaitEmpty, TypeOK, Control, At, Goto, PC, BlurSteps, Before, Carrying, local, buffers, choice, copying
  <2>2. Control'
    BY <1>14, ThreadConstants, BlurNumbers
    DEF WaitEmpty, TypeOK, Control, At, Goto, BlurSteps, Before, Carrying, isblur, local, buffers, choice, copying
  <2>3. QED
    BY <2>1, <2>2
<1>15. ASSUME NEW t \in Thread, Insert(t) PROVE TypeInv'
  <2>1. pc[t] = "insert" /\ paquet[t] \in Packet /\ OutRow(t) \in Row
    BY <1>15, ThreadConstants DEF Insert, At, Control, Carrying
  <2>2. /\ pc' \in [Thread -> PC] /\ failed' \in BOOLEAN
        /\ mat_buf' \in [Row -> [Slot -> Packet \cup {None}]]
        /\ pc' = pc \/ pc' = [pc EXCEPT ![t] = "postFull"]
    BY <1>15, <2>1, InsertElemType DEF Insert, TypeOK
  <2>3. TypeOK'
    BY <1>15, <2>2 DEF Insert, TypeOK, local, choice, copying
  <2>4. Control'
    BY <1>15, <2>1, <2>2
    DEF Insert, TypeOK, Control, BlurSteps, Before, Carrying, isblur, local
  <2>5. QED
    BY <2>3, <2>4
<1>16. ASSUME NEW t \in Thread, InsertBlurred(t) PROVE TypeInv'
  <2>1. pc[t] = "insert" /\ paquet[t] \in Packet /\ OutRow(t) \in Row
    BY <1>16, ThreadConstants DEF InsertBlurred, At, Control, Carrying
  <2>2. /\ pc' \in [Thread -> PC] /\ failed' \in BOOLEAN
        /\ mat_buf' \in [Row -> [Slot -> Packet \cup {None}]]
        /\ pc' = pc \/ pc' = [pc EXCEPT ![t] = "postFull"]
    BY <1>16, <2>1, InsertElemType DEF InsertBlurred, TypeOK
  <2>3. /\ copy' \in [CopyId -> {"none", "live", "freed", "double"}]
        /\ read_only' \in [Packet -> CopyId \cup {None, Garbage}]
    <3>1. CASE LastBlurred(BlurOf(t), chosen[t])
      <4>1. ImageCopiDestroy(chosen[t], mat_buf[OutRow(t)]')
        BY <1>16, <3>1 DEF InsertBlurred
      <4>2. QED
        BY <4>1, ImageCopiDestroyType DEF TypeOK
    <3>2. CASE ~LastBlurred(BlurOf(t), chosen[t])
      BY <1>16, <3>2 DEF InsertBlurred, TypeOK
    <3>3. QED
      BY <3>1, <3>2
  <2>4. choosen_c' \in [BlurRow -> [Image -> Nat]]
    <3>1. BlurOf(t) \in BlurRow /\ chosen[t] \in Image
      BY <1>16, <2>1, ThreadConstants DEF InsertBlurred, Control, Before
    <3>2. choosen_c' = [choosen_c EXCEPT ![BlurOf(t)][chosen[t]] = @ + 1]
      BY <1>16 DEF InsertBlurred
    <3>3. QED
      BY <3>1, <3>2 DEF TypeOK
  <2>5. TypeOK'
    BY <1>16, <2>2, <2>3, <2>4 DEF InsertBlurred, TypeOK, local, choice
  <2>6. Control'
    BY <1>16, <2>1, <2>2
    DEF InsertBlurred, TypeOK, Control, BlurSteps, Before, Carrying, isblur, local
  <2>7. QED
    BY <2>5, <2>6
<1>17. ASSUME NEW t \in Thread, PostFull(t) PROVE TypeInv'
  <2>1. pc[t] = "postFull" /\ RowToPost(t) \in Row
    BY <1>17, ThreadConstants DEF PostFull, At, RowToPost
  <2>2. full' \in [Row -> Nat]
    BY <1>17, <2>1 DEF PostFull, TypeOK
  <2>3. CASE f_beforeblur[num_filter[t]] # 0
    <3>1. pc' = [pc EXCEPT ![t] = "beforeBlur"] /\ UNCHANGED <<paquet, chosen>>
      BY <1>17, <2>3 DEF PostFull, Goto
    <3>2. TypeOK'
      BY <1>17, <2>2, <3>1 DEF PostFull, TypeOK, PC, buffers, choice, copying
    <3>3. Control'
      BY <1>17, <2>1, <2>3, <3>1 DEF TypeOK, Control, BlurSteps, Before, Carrying, isblur
    <3>4. QED
      BY <3>2, <3>3
  <2>4. CASE f_beforeblur[num_filter[t]] = 0
    <3>1. EndPass(t)
      BY <1>17, <2>4 DEF PostFull
    <3>2. TypeOK'
      BY <1>17, <2>2, <3>1 DEF EndPass, Goto, PostFull, TypeOK, PC, buffers, choice, copying
    <3>3. Control'
      BY <3>1, EndPassControl
    <3>4. QED
      BY <3>2, <3>3
  <2>5. QED
    BY <2>3, <2>4
<1>18. ASSUME NEW t \in Thread, BeforeBlur(t) PROVE TypeInv'
  <2> DEFINE b == NextBlur(t)
             i == num_img(paquet[t])
  <2>1. b \in BlurRow /\ i \in Image
    BY <1>18, ThreadConstants DEF BeforeBlur, At, Control, Carrying, Packet, num_img
  <2>2. mat_blur' = [mat_blur EXCEPT ![b][i] = @ + 1]
    BY <1>18 DEF BeforeBlur
  <2>3. mat_blur' \in [BlurRow -> [Image -> Nat]]
    BY <2>1, <2>2 DEF TypeOK
  <2>4. can_copi' \in [BlurRow -> Nat]
    BY <1>18, <2>1 DEF BeforeBlur, TypeOK
  <2>5. EndPass(t)
    BY <1>18 DEF BeforeBlur
  <2>6. TypeOK'
    BY <1>18, <2>3, <2>4, <2>5 DEF EndPass, Goto, BeforeBlur, TypeOK, PC, buffers, copying
  <2>7. QED
    BY <2>5, <2>6, EndPassControl
<1>19. CASE Join
  BY <1>19 DEF Join, TypeOK, Control, isblur, local, buffers, choice, copying
<1>20. CASE UNCHANGED vars
  BY <1>20 DEF vars, TypeOK, Control, isblur, local, buffers, choice, copying
<1>21. QED
  BY <1>1, <1>2, <1>3, <1>4, <1>5, <1>6, <1>7, <1>8, <1>9, <1>10, <1>11, <1>12, <1>13, <1>14, <1>15, <1>16, <1>17, <1>18, <1>19, <1>20 DEF Next, ThreadStep, Terminated

\* Every variable keeps its type in every behaviour of the pipeline.
THEOREM TypeCorrect == Spec => []TypeOK
PROOF
<1>1. Spec => []TypeInv
  BY InitTypeInv, StepTypeInv, PTL DEF Spec
<1>2. QED
  BY <1>1, PTL DEF TypeInv

-----------------------------------------------------------------------------
(* Packet conservation: TypeInv /\ PacketConservation is inductive.         *)

\* A packet that moves from one place to an empty one keeps the packets
\* apart; all other places stay as they are.
LEMMA MovePacket ==
  ASSUME PacketConservation,
         NEW x \in Places, NEW y \in Places, x # y,
         AtPlace(x) \in Packet, AtPlace(y) = None,
         AtPlace(x)' = None, AtPlace(y)' = AtPlace(x),
         \A z \in Places : z # x /\ z # y => AtPlace(z)' = AtPlace(z)
  PROVE  PacketConservation'
PROOF
<1>1. None \notin Packet
  BY ConstantsAssumption DEF ConstantsAssumption
<1>2. SUFFICES ASSUME NEW p \in Packet
               PROVE  /\ \E z \in Places : AtPlace(z)' = p
                      /\ \A z, w \in Places : AtPlace(z)' = p /\ AtPlace(w)' = p => z = w
  BY DEF PacketConservation, Places
<1>3. CASE p = AtPlace(x)
  BY <1>1, <1>3 DEF PacketConservation
<1>4. CASE p # AtPlace(x)
  BY <1>1, <1>4 DEF PacketConservation
<1>5. QED
  BY <1>3, <1>4

LEMMA SamePlaces ==
  ASSUME PacketConservation, \A z \in Places : AtPlace(z)' = AtPlace(z)
  PROVE  PacketConservation'
PROOF
  BY DEF PacketConservation, Places

\* A thread is not a slot, so AtPlace tells them apart.
LEMMA PlaceKinds ==
  /\ \A t \in Thread : t \in Places /\ AtPlace(t) = IF Holds(t) THEN paquet[t] ELSE None
  /\ \A r \in Row, s \in Slot : /\ <<r, s>> \in Places /\ <<r, s>> \notin Thread
                                /\ AtPlace(<<r, s>>) = mat_buf[r][s]
PROOF
  BY ConstantsAssumption DEF ConstantsAssumption, Places, AtPlace

\* A step that leaves the rows alone, and every thread with what it held,
\* moves no packet.
LEMMA Unmoved ==
  ASSUME PacketConservation, UNCHANGED mat_buf,
         \A u \in Thread : /\ Holds(u)' <=> Holds(u)
                           /\ Holds(u) => paquet'[u] = paquet[u]
  PROVE  PacketConservation'
PROOF
<1>1. ASSUME NEW z \in Places PROVE AtPlace(z)' = AtPlace(z)
  <2>1. CASE z \in Thread /\ Holds(z)
    <3>1. Holds(z)' /\ paquet'[z] = paquet[z]
      BY <2>1
    <3>2. QED
      BY <2>1, <3>1 DEF AtPlace
  <2>2. CASE z \in Thread /\ ~Holds(z)
    <3>1. ~Holds(z)'
      BY <2>2
    <3>2. QED
      BY <2>2, <3>1 DEF AtPlace
  <2>3. CASE z \notin Thread
    BY <2>3 DEF AtPlace
  <2>4. QED
    BY <2>1, <2>2, <2>3
<1>2. QED
  BY <1>1, SamePlaces

LEMMA InitConservation == Init => PacketConservation
PROOF
<1> SUFFICES ASSUME Init, NEW p \in Packet
             PROVE  /\ \E x \in Places : AtPlace(x) = p
                    /\ \A x, y \in Places : AtPlace(x) = p /\ AtPlace(y) = p => x = y
  BY DEF PacketConservation
<1>1. p # None /\ 0 \in Row
  BY ConstantsAssumption DEF ConstantsAssumption, Row
<1>2. \A t \in Thread : ~Holds(t)
  BY DEF Init, Holds
<1>3. \A r \in Row, s \in Slot :
        mat_buf[r][s] = IF r = 0 THEN <<s \div PerImage, s % PerImage>> ELSE None
  BY DEF Init
<1>4. \E x \in Places : AtPlace(x) = p
  <2>1. PICK s \in Slot : p = <<s \div PerImage, s % PerImage>>
    BY CutSlots
  <2>2. AtPlace(<<0, s>>) = p /\ <<0, s>> \in Places
    BY <1>1, <1>3, <2>1, PlaceKinds
  <2>3. QED
    BY <2>2
<1>5. ASSUME NEW x \in Places, AtPlace(x) = p
      PROVE  \E s \in Slot : x = <<0, s>> /\ p = <<s \div PerImage, s % PerImage>>
  <2>1. x \notin Thread
    BY <1>1, <1>2, <1>5 DEF AtPlace
  <2>2. PICK r \in Row, s \in Slot : x = <<r, s>>
    BY <2>1 DEF Places
  <2>3. mat_buf[r][s] = p
    BY <1>5, <2>2, PlaceKinds
  <2>4. r = 0 /\ p = <<s \div PerImage, s % PerImage>>
    BY <1>1, <1>3, <2>3
  <2>5. QED
    BY <2>2, <2>4
<1>6. ASSUME NEW x \in Places, NEW y \in Places, AtPlace(x) = p, AtPlace(y) = p
      PROVE  x = y
  <2>1. PICK s \in Slot : x = <<0, s>> /\ p = <<s \div PerImage, s % PerImage>>
    BY <1>5, <1>6
  <2>2. PICK q \in Slot : y = <<0, q>> /\ p = <<q \div PerImage, q % PerImage>>
    BY <1>5, <1>6
  <2>3. s = q
    BY <2>1, <2>2, CutSlots
  <2>4. QED
    BY <2>1, <2>2, <2>3
<1>7. QED
  BY <1>4, <1>6

\* Take moves a packet from a slot to the thread.
LEMMA TakeConservation ==
  ASSUME TypeInv, PacketConservation, NEW t \in Thread, Take(t)
  PROVE  PacketConservation'
PROOF
<1> DEFINE r == num_filter[t]
<1>1. pc[t] = "take" /\ r \in Row
  BY ThreadConstants DEF Take, At
<1>2. CASE Wanted(t, r) = {}
  BY <1>2, Unmoved DEF Take, Holds
<1>3. CASE Wanted(t, r) # {}
  <2>1. PICK s \in Slot : s \in Wanted(t, r) /\ TakeSlot(t, r, s)
    BY <1>3 DEF Take, IsFirst
  <2> DEFINE x == <<r, s>>
  <2>2. mat_buf[r][s] \in Packet
    BY <1>1, <2>1 DEF Wanted, SlotsOf, TypeInv, TypeOK
  <2>3. /\ pc' = [pc EXCEPT ![t] = "apply"]
        /\ paquet' = [paquet EXCEPT ![t] = mat_buf[r][s]]
        /\ mat_buf' = [mat_buf EXCEPT ![r][s] = None]
    BY <1>3, <2>1 DEF Take, TakeSlot, Goto
  <2>4. pc \in [Thread -> PC] /\ paquet \in [Thread -> Packet \cup {None}]
        /\ mat_buf \in [Row -> [Slot -> Packet \cup {None}]]
    BY DEF TypeInv, TypeOK
  <2>5. x \in Places /\ t \in Places /\ x # t /\ x \notin Thread
    BY <1>1, PlaceKinds
  <2>6. AtPlace(x) = mat_buf[r][s] /\ AtPlace(t) = None
    BY <1>1, PlaceKinds DEF Holds
  <2>7. AtPlace(x)' = None /\ AtPlace(t)' = mat_buf[r][s]
    BY <1>1, <2>3, <2>4, <2>5 DEF AtPlace, Holds
  <2>8. ASSUME NEW z \in Places, z # x, z # t PROVE AtPlace(z)' = AtPlace(z)
    <3>1. CASE z \in Thread
      BY <2>3, <2>4, <2>8, <3>1 DEF AtPlace, Holds
    <3>2. CASE z \notin Thread
      <4>1. PICK q \in Row, n \in Slot : z = <<q, n>>
        BY <3>2 DEF Places
      <4>2. mat_buf'[q][n] = mat_buf[q][n]
        BY <1>1, <2>3, <2>4, <2>8, <4>1
      <4>3. QED
        BY <3>2, <4>1, <4>2 DEF AtPlace
    <3>3. QED
      BY <3>1, <3>2
  <2>9. QED
    BY <2>2, <2>5, <2>6, <2>7, <2>8, MovePacket
<1>4. QED
  BY <1>2, <1>3

\* InsertElem moves the packet of the thread to a free slot, or calls error().
LEMMA InsertConservation ==
  ASSUME TypeInv, PacketConservation, NEW t \in Thread, pc[t] = "insert",
         InsertElem(t), UNCHANGED paquet
  PROVE  PacketConservation'
PROOF
<1> DEFINE r == OutRow(t)
           free == {s \in Slot : mat_buf[r][s] = None}
<1>1. r \in Row /\ paquet[t] \in Packet
  BY ThreadConstants DEF TypeInv, Control, Carrying
<1>2. CASE free = {}
  BY <1>2, Unmoved DEF InsertElem, Holds
<1>3. CASE free # {}
  <2>1. PICK s \in Slot : /\ mat_buf[r][s] = None
                          /\ mat_buf' = [mat_buf EXCEPT ![r][s] = paquet[t]]
    BY <1>3 DEF InsertElem, IsFirst
  <2> DEFINE y == <<r, s>>
  <2>2. pc' = [pc EXCEPT ![t] = "postFull"]
    BY <1>3 DEF InsertElem, Goto
  <2>3. pc \in [Thread -> PC] /\ mat_buf \in [Row -> [Slot -> Packet \cup {None}]]
    BY DEF TypeInv, TypeOK
  <2>4. y \in Places /\ t \in Places /\ y # t /\ y \notin Thread
    BY <1>1, PlaceKinds
  <2>5. AtPlace(y) = None /\ AtPlace(t) = paquet[t]
    BY <1>1, <2>1, PlaceKinds DEF Holds
  <2>6. AtPlace(y)' = paquet[t] /\ AtPlace(t)' = None
    BY <1>1, <2>1, <2>2, <2>3, <2>4 DEF AtPlace, Holds
  <2>7. ASSUME NEW z \in Places, z # y, z # t PROVE AtPlace(z)' = AtPlace(z)
    <3>1. CASE z \in Thread
      BY <2>2, <2>3, <2>7, <3>1 DEF AtPlace, Holds
    <3>2. CASE z \notin Thread
      <4>1. PICK q \in Row, n \in Slot : z = <<q, n>>
        BY <3>2 DEF Places
      <4>2. mat_buf'[q][n] = mat_buf[q][n]
        BY <1>1, <2>1, <2>3, <2>7, <4>1
      <4>3. QED
        BY <3>2, <4>1, <4>2 DEF AtPlace
    <3>3. QED
      BY <3>1, <3>2
  <2>8. QED
    BY <1>1, <2>4, <2>5, <2>6, <2>7, MovePacket
<1>4. QED
  BY <1>2, <1>3

LEMMA StepConservation ==
  TypeInv /\ PacketConservation /\ [Next]_vars => PacketConservation'
PROOF
<1> SUFFICES ASSUME TypeInv, PacketConservation, [Next]_vars
             PROVE  PacketConservation'
  OBVIOUS
<1>0. pc \in [Thread -> PC] /\ paquet \in [Thread -> Packet \cup {None}]
  BY DEF TypeInv, TypeOK
<1>1. ASSUME NEW t \in Thread, ExitLoop(t) PROVE PacketConservation'
  BY <1>0, <1>1, Unmoved DEF ExitLoop, At, Goto, Holds, local, buffers
<1>2. ASSUME NEW t \in Thread, Pass(t) PROVE PacketConservation'
  BY <1>0, <1>2, Unmoved DEF Pass, At, Goto, Holds, local, buffers
<1>3. ASSUME NEW t \in Thread, WaitCanCopi(t) PROVE PacketConservation'
  BY <1>0, <1>3, Unmoved DEF WaitCanCopi, At, Goto, Holds, local, buffers
<1>4. ASSUME NEW t \in Thread, LockTake(t) PROVE PacketConservation'
  BY <1>0, <1>4, Unmoved DEF LockTake, At, Goto, Holds, local, buffers
<1>5. ASSUME NEW t \in Thread, CheckLmatBlur(t) PROVE PacketConservation'
  BY <1>0, <1>5, Unmoved DEF CheckLmatBlur, At, Goto, Holds, local, buffers
<1>6. ASSUME NEW t \in Thread, Repost(t) PROVE PacketConservation'
  BY <1>0, <1>6, Unmoved DEF Repost, At, Goto, Holds, local, buffers
<1>7. ASSUME NEW t \in Thread, CopiAlreadyDone(t) PROVE PacketConservation'
  BY <1>0, <1>7, Unmoved DEF CopiAlreadyDone, At, Goto, Holds, local, buffers
<1>8. ASSUME NEW t \in Thread, LockCopi(t) PROVE PacketConservation'
  BY <1>0, <1>8, Unmoved DEF LockCopi, At, Goto, Holds, local, buffers
<1>9. ASSUME NEW t \in Thread, LockBuf(t) PROVE PacketConservation'
  BY <1>0, <1>9, Unmoved DEF LockBuf, At, Goto, Holds, local, buffers
<1>10. ASSUME NEW t \in Thread, EndCopi(t) PROVE PacketConservation'
  BY <1>0, <1>10, Unmoved DEF EndCopi, At, Goto, Holds, local, buffers
<1>11. ASSUME NEW t \in Thread, WaitFull(t) PROVE PacketConservation'
  BY <1>0, <1>11, Unmoved DEF WaitFull, At, Goto, Holds, local, buffers
<1>12. ASSUME NEW t \in Thread, EndApply(t) PROVE PacketConservation'
  BY <1>0, <1>12, Unmoved DEF EndApply, At, Goto, Holds, local, buffers
<1>13. ASSUME NEW t \in Thread, WaitEmpty(t) PROVE PacketConservation'
  BY <1>0, <1>13, Unmoved DEF WaitEmpty, At, Goto, Holds, local, buffers
<1>14. ASSUME NEW t \in Thread, PostFull(t) PROVE PacketConservation'
  BY <1>0, <1>14, Unmoved DEF PostFull, EndPass, At, Goto, Holds, local, buffers
<1>15. ASSUME NEW t \in Thread, BeforeBlur(t) PROVE PacketConservation'
  BY <1>0, <1>15, Unmoved DEF BeforeBlur, EndPass, At, Goto, Holds, local, buffers
<1>16. ASSUME NEW t \in Thread, Take(t) PROVE PacketConservation'
  BY <1>16, TakeConservation
<1>17. ASSUME NEW t \in Thread, Insert(t) PROVE PacketConservation'
  BY <1>17, InsertConservation DEF Insert, At, local
<1>18. ASSUME NEW t \in Thread, InsertBlurred(t) PROVE PacketConservation'
  BY <1>18, InsertConservation DEF InsertBlurred, At, local
<1>19. CASE Join
  BY <1>19, Unmoved DEF Join, Holds, local, buffers
<1>20. CASE UNCHANGED vars
  BY <1>20, Unmoved DEF vars, Holds, local, buffers
<1>21. QED
  BY <1>1, <1>2, <1>3, <1>4, <1>5, <1>6, <1>7, <1>8, <1>9, <1>10, <1>11, <1>12, <1>13, <1>14, <1>15, <1>16, <1>17, <1>18, <1>19, <1>20 DEF Next, ThreadStep, Terminated

\* Whatever the number of filters, images, packets and threads, every packet
\* is in one slot of mat_buf or in the hands of one thread, and only there.
THEOREM Conservation == Spec => []PacketConservation
PROOF
<1>1. Spec => [](TypeInv /\ PacketConservation)
  BY InitTypeInv, StepTypeInv, InitConservation, StepConservation, PTL DEF Spec
<1>2. QED
  BY <1>1, PTL

-----------------------------------------------------------------------------
(* The order of the filters: TypeInv /\ PacketConservation /\ FiltersInOrder *)
(* is inductive.  Conservation is needed because apply_filter changes the    *)
(* band of one thread only if no slot and no other thread has that packet.   *)

LEMMA StageAppend ==
  ASSUME NEW f \in Filter
  PROVE  Append(Stage(f), f) = Stage(f + 1)
PROOF
<1>1. f \in Nat
  BY ConstantsAssumption DEF ConstantsAssumption, Filter
<1>2. Stage(f) \in Seq(Nat) /\ Len(Stage(f)) = f
  BY <1>1 DEF Stage
<1>3. QED
  BY <1>1, <1>2 DEF Stage

LEMMA InitOrder == Init => FiltersInOrder
PROOF
<1> SUFFICES ASSUME Init PROVE FiltersInOrder
  OBVIOUS
<1>1. ASSUME NEW r \in Row, NEW s \in Slot, mat_buf[r][s] # None
      PROVE  applied[mat_buf[r][s]] = Stage(r)
  <2>1. r = 0 /\ mat_buf[r][s] \in Packet
    BY <1>1, CutSlots DEF Init
  <2>2. applied[mat_buf[r][s]] = <<>>
    BY <2>1 DEF Init
  <2>3. Stage(0) = <<>>
    BY DEF Stage
  <2>4. QED
    BY <2>1, <2>2, <2>3
<1>2. \A t \in Thread : ~Holds(t)
  BY DEF Init, Holds
<1>3. QED
  BY <1>1, <1>2 DEF FiltersInOrder

\* A step that applies nothing and moves no packet, and in which every thread
\* stays before or after its apply_filter.
LEMMA OrderUnchanged ==
  ASSUME FiltersInOrder, UNCHANGED <<mat_buf, applied>>,
         \A u \in Thread : Holds(u)' => /\ Holds(u) /\ paquet'[u] = paquet[u]
                                        /\ pc'[u] = "apply" <=> pc[u] = "apply"
  PROVE  FiltersInOrder'
PROOF
<1>1. ASSUME NEW u \in Thread, Holds(u)'
      PROVE  applied'[paquet'[u]] = Stage(IF pc'[u] = "apply" THEN num_filter[u] ELSE OutRow(u))
  <2>1. Holds(u) /\ paquet'[u] = paquet[u] /\ (pc'[u] = "apply" <=> pc[u] = "apply")
    BY <1>1
  <2>2. applied[paquet[u]] = Stage(IF pc[u] = "apply" THEN num_filter[u] ELSE OutRow(u))
    BY <2>1 DEF FiltersInOrder, At
  <2>3. QED
    BY <2>1, <2>2
<1>2. QED
  BY <1>1 DEF FiltersInOrder, At

LEMMA TakeOrder ==
  ASSUME TypeInv, FiltersInOrder, NEW t \in Thread, Take(t)
  PROVE  FiltersInOrder'
PROOF
<1> DEFINE r == num_filter[t]
<1>1. pc[t] = "take" /\ r \in Row /\ UNCHANGED applied
  BY ThreadConstants DEF Take, At
<1>2. CASE Wanted(t, r) = {}
  BY <1>1, <1>2, OrderUnchanged DEF Take, Holds
<1>3. CASE Wanted(t, r) # {}
  <2>1. PICK s \in Slot : s \in Wanted(t, r) /\ TakeSlot(t, r, s)
    BY <1>3 DEF Take, IsFirst
  <2>2. mat_buf[r][s] # None
    BY <2>1 DEF Wanted, SlotsOf
  <2>3. /\ pc' = [pc EXCEPT ![t] = "apply"]
        /\ paquet' = [paquet EXCEPT ![t] = mat_buf[r][s]]
        /\ mat_buf' = [mat_buf EXCEPT ![r][s] = None]
    BY <1>3, <2>1 DEF Take, TakeSlot, Goto
  <2>4. pc \in [Thread -> PC] /\ paquet \in [Thread -> Packet \cup {None}]
        /\ mat_buf \in [Row -> [Slot -> Packet \cup {None}]]
    BY DEF TypeInv, TypeOK
  <2>5. \A q \in Row, n \in Slot :
          mat_buf'[q][n] # None => mat_buf'[q][n] = mat_buf[q][n]
    BY <1>1, <2>3, <2>4
  <2>6. applied[mat_buf[r][s]] = Stage(r)
    BY <1>1, <2>2 DEF FiltersInOrder
  <2>7. ASSUME NEW u \in Thread, Holds(u)'
        PROVE  applied'[paquet'[u]] = Stage(IF pc'[u] = "apply" THEN num_filter[u] ELSE OutRow(u))
    <3>1. CASE u = t
      BY <1>1, <2>3, <2>4, <2>6, <3>1
    <3>2. CASE u # t
      <4>1. pc'[u] = pc[u] /\ paquet'[u] = paquet[u]
        BY <2>3, <2>4, <3>2
      <4>2. Holds(u)
        BY <2>7, <4>1 DEF Holds
      <4>3. applied[paquet[u]] = Stage(IF pc[u] = "apply" THEN num_filter[u] ELSE OutRow(u))
        BY <4>2 DEF FiltersInOrder, At
      <4>4. QED
        BY <1>1, <4>1, <4>3
    <3>3. QED
      BY <3>1, <3>2
  <2>8. QED
    BY <1>1, <2>5, <2>7 DEF FiltersInOrder, At
<1>4. QED
  BY <1>2, <1>3

LEMMA InsertOrder ==
  ASSUME TypeInv, FiltersInOrder, NEW t \in Thread, pc[t] = "insert",
         InsertElem(t), UNCHANGED <<paquet, applied>>
  PROVE  FiltersInOrder'
PROOF
<1> DEFINE r == OutRow(t)
           free == {s \in Slot : mat_buf[r][s] = None}
<1>1. r \in Row /\ applied[paquet[t]] = Stage(r)
  BY ThreadConstants DEF FiltersInOrder, Holds, At
<1>2. CASE free = {}
  BY <1>2, OrderUnchanged DEF InsertElem, Holds
<1>3. CASE free # {}
  <2>1. PICK s \in Slot : mat_buf' = [mat_buf EXCEPT ![r][s] = paquet[t]]
    BY <1>3 DEF InsertElem, IsFirst
  <2>2. pc' = [pc EXCEPT ![t] = "postFull"]
    BY <1>3 DEF InsertElem, Goto
  <2>3. pc \in [Thread -> PC] /\ mat_buf \in [Row -> [Slot -> Packet \cup {None}]]
    BY DEF TypeInv, TypeOK
  <2>4. ASSUME NEW q \in Row, NEW n \in Slot, mat_buf'[q][n] # None
        PROVE  applied[mat_buf'[q][n]] = Stage(q)
    <3>1. CASE q = r /\ n = s
      BY <1>1, <2>1, <2>3, <3>1
    <3>2. CASE ~(q = r /\ n = s)
      <4>1. mat_buf'[q][n] = mat_buf[q][n]
        BY <1>1, <2>1, <2>3, <3>2
      <4>2. QED
        BY <2>4, <4>1 DEF FiltersInOrder
    <3>3. QED
      BY <3>1, <3>2
  <2>5. ASSUME NEW u \in Thread, Holds(u)'
        PROVE  Holds(u) /\ pc'[u] = pc[u]
    BY <2>2, <2>3, <2>5 DEF Holds
  <2>6. QED
    BY <2>4, <2>5 DEF FiltersInOrder, At
<1>4. QED
  BY <1>2, <1>3

\* apply_filter appends the filter of the thread to its own band; by
\* conservation the packet is nowhere else.
LEMMA ApplyOrder ==
  ASSUME TypeInv, PacketConservation, FiltersInOrder, NEW t \in Thread, EndApply(t)
  PROVE  FiltersInOrder'
PROOF
<1> DEFINE p == paquet[t]
           f == num_filter[t]
<1>1. pc[t] = "apply" /\ Holds(t)
  BY DEF EndApply, At, Holds
<1>2. p \in Packet /\ p # None /\ f \in Filter
  BY <1>1, ThreadConstants, ConstantsAssumption
  DEF TypeInv, Control, Carrying, ConstantsAssumption
<1>3. /\ applied' = [applied EXCEPT ![p] = Append(@, f)]
      /\ pc' = [pc EXCEPT ![t] = "waitEmpty"]
      /\ UNCHANGED <<mat_buf, paquet>>
  BY DEF EndApply, Goto, local, buffers
<1>4. applied \in [Packet -> Seq(Filter)] /\ pc \in [Thread -> PC]
  BY DEF TypeInv, TypeOK
<1>5. applied[p] = Stage(f)
  BY <1>1 DEF FiltersInOrder, At
<1>6. applied'[p] = Stage(OutRow(t))
  BY <1>2, <1>3, <1>4, <1>5, StageAppend DEF OutRow
<1>7. ASSUME NEW x \in Places, x # t, AtPlace(x) # None
      PROVE  applied'[AtPlace(x)] = applied[AtPlace(x)]
  <2>1. AtPlace(t) = p
    BY <1>1, PlaceKinds
  <2>2. t \in Places
    BY PlaceKinds
  <2>3. AtPlace(x) # p
    BY <1>2, <1>7, <2>1, <2>2 DEF PacketConservation
  <2>4. QED
    BY <1>3, <1>4, <2>3
<1>8. ASSUME NEW r \in Row, NEW s \in Slot, mat_buf'[r][s] # None
      PROVE  applied'[mat_buf'[r][s]] = Stage(r)
  <2>1. <<r, s>> \in Places /\ <<r, s>> # t /\ AtPlace(<<r, s>>) = mat_buf[r][s]
    BY PlaceKinds
  <2>2. mat_buf[r][s] # None /\ applied[mat_buf[r][s]] = Stage(r)
    BY <1>3, <1>8 DEF FiltersInOrder
  <2>3. QED
    BY <1>3, <1>7, <2>1, <2>2
<1>9. ASSUME NEW u \in Thread, Holds(u)'
      PROVE  applied'[paquet'[u]] = Stage(IF pc'[u] = "apply" THEN num_filter[u] ELSE OutRow(u))
  <2>1. CASE u = t
    BY <1>3, <1>4, <1>6, <2>1
  <2>2. CASE u # t
    <3>1. pc'[u] = pc[u] /\ paquet'[u] = paquet[u]
      BY <1>3, <1>4, <2>2
    <3>2. Holds(u)
      BY <1>9, <3>1 DEF Holds
    <3>3. applied[paquet[u]] = Stage(IF pc[u] = "apply" THEN num_filter[u] ELSE OutRow(u))
      BY <3>2 DEF FiltersInOrder, At
    <3>4. AtPlace(u) = paquet[u] /\ u \in Places
      BY <3>2, PlaceKinds
    <3>5. paquet[u] # None
      BY <3>2, ConstantsAssumption
      DEF TypeInv, Control, Carrying, Holds, ConstantsAssumption
    <3>6. QED
      BY <1>7, <2>2, <3>1, <3>3, <3>4, <3>5
  <2>3. QED
    BY <2>1, <2>2
<1>10. QED
  BY <1>8, <1>9 DEF FiltersInOrder, At

LEMMA StepOrder ==
  TypeInv /\ PacketConservation /\ FiltersInOrder /\ [Next]_vars => FiltersInOrder'
PROOF
<1> SUFFICES ASSUME TypeInv, PacketConservation, FiltersInOrder, [Next]_vars
             PROVE  FiltersInOrder'
  OBVIOUS
<1>0. pc \in [Thread -> PC] /\ paquet \in [Thread -> Packet \cup {None}]
  BY DEF TypeInv, TypeOK
<1>1. ASSUME NEW t \in Thread, ExitLoop(t) PROVE FiltersInOrder'
  BY <1>0, <1>1, OrderUnchanged DEF ExitLoop, At, Goto, Holds, local, buffers
<1>2. ASSUME NEW t \in Thread, Pass(t) PROVE FiltersInOrder'
  BY <1>0, <1>2, OrderUnchanged DEF Pass, At, Goto, Holds, local, buffers
<1>3. ASSUME NEW t \in Thread, WaitCanCopi(t) PROVE FiltersInOrder'
  BY <1>0, <1>3, OrderUnchanged DEF WaitCanCopi, At, Goto, Holds, local, buffers
<1>4. ASSUME NEW t \in Thread, LockTake(t) PROVE FiltersInOrder'
  BY <1>0, <1>4, OrderUnchanged DEF LockTake, At, Goto, Holds, local, buffers
<1>5. ASSUME NEW t \in Thread, CheckLmatBlur(t) PROVE FiltersInOrder'
  BY <1>0, <1>5, OrderUnchanged DEF CheckLmatBlur, At, Goto, Holds, local, buffers
<1>6. ASSUME NEW t \in Thread, Repost(t) PROVE FiltersInOrder'
  BY <1>0, <1>6, OrderUnchanged DEF Repost, At, Goto, Holds, local, buffers
<1>7. ASSUME NEW t \in Thread, CopiAlreadyDone(t) PROVE FiltersInOrder'
  BY <1>0, <1>7, OrderUnchanged DEF CopiAlreadyDone, At, Goto, Holds, local, buffers
<1>8. ASSUME NEW t \in Thread, LockCopi(t) PROVE FiltersInOrder'
  BY <1>0, <1>8, OrderUnchanged DEF LockCopi, At, Goto, Holds, local, buffers
<1>9. ASSUME NEW t \in Thread, LockBuf(t) PROVE FiltersInOrder'
  BY <1>0, <1>9, OrderUnchanged DEF LockBuf, At, Goto, Holds, local, buffers
<1>10. ASSUME NEW t \in Thread, EndCopi(t) PROVE FiltersInOrder'
  BY <1>0, <1>10, OrderUnchanged DEF EndCopi, At, Goto, Holds, local, buffers
<1>11. ASSUME NEW t \in Thread, WaitFull(t) PROVE FiltersInOrder'
  BY <1>0, <1>11, OrderUnchanged DEF WaitFull, At, Goto, Holds, local, buffers
<1>12. ASSUME NEW t \in Thread, WaitEmpty(t) PROVE FiltersInOrder'
  BY <1>0, <1>12, OrderUnchanged DEF WaitEmpty, At, Goto, Holds, local, buffers
<1>13. ASSUME NEW t \in Thread, PostFull(t) PROVE FiltersInOrder'
  BY <1>0, <1>13, OrderUnchanged DEF PostFull, EndPass, At, Goto, Holds, local, buffers
<1>14. ASSUME NEW t \in Thread, BeforeBlur(t) PROVE FiltersInOrder'
  BY <1>0, <1>14, OrderUnchanged DEF BeforeBlur, EndPass, At, Goto, Holds, local, buffers
<1>15. ASSUME NEW t \in Thread, Take(t) PROVE FiltersInOrder'
  BY <1>15, TakeOrder
<1>16. ASSUME NEW t \in Thread, EndApply(t) PROVE FiltersInOrder'
  BY <1>16, ApplyOrder
<1>17. ASSUME NEW t \in Thread, Insert(t) PROVE FiltersInOrder'
  BY <1>17, InsertOrder DEF Insert, At, local
<1>18. ASSUME NEW t \in Thread, InsertBlurred(t) PROVE FiltersInOrder'
  BY <1>18, InsertOrder DEF InsertBlurred, At, local
<1>19. CASE Join
  BY <1>19, OrderUnchanged DEF Join, Holds, local, buffers
<1>20. CASE UNCHANGED vars
  BY <1>20, OrderUnchanged DEF vars, Holds, local, buffers
<1>21. QED
  BY <1>1, <1>2, <1>3, <1>4, <1>5, <1>6, <1>7, <1>8, <1>9, <1>10, <1>11, <1>12, <1>13, <1>14, <1>15, <1>16, <1>17, <1>18, <1>19, <1>20 DEF Next, ThreadStep, Terminated

\* Every band gets the filters in the order of the command line, each once,
\* for any number of filters and threads.
THEOREM FilterOrder == Spec => []FiltersInOrder
PROOF
<1>1. Spec => [](TypeInv /\ PacketConservation /\ FiltersInOrder)
  BY InitTypeInv, StepTypeInv, InitConservation, StepConservation,
     InitOrder, StepOrder, PTL DEF Spec
<1>2. QED
  BY <1>1, PTL

-----------------------------------------------------------------------------
(***************************************************************************)
(* The pipeline never calls error(), copies an image only while nobody     *)
(* works on it, blurs from finished copies and frees each of them once.    *)
(*                                                                         *)
(* The inductive invariant says what every counter of the program counts.  *)
(* A counter and the threads that are between an operation on it and the   *)
(* access it stands for add up to a number of packets.                     *)
(***************************************************************************)

-----------------------------------------------------------------------------
(* Lemmas on finite sets.                                                   *)

\* Two sets that differ at most in x differ by at most one in size.
LEMMA OneDiffers ==
  ASSUME NEW A, NEW B, NEW x, IsFiniteSet(A), A \ {x} = B \ {x}
  PROVE  /\ IsFiniteSet(B)
         /\ Cardinality(A) \in Nat /\ Cardinality(B) \in Nat
         /\ Cardinality(B) + (IF x \in A THEN 1 ELSE 0)
              = Cardinality(A) + (IF x \in B THEN 1 ELSE 0)
PROOF
<1>1. IsFiniteSet(A \ {x}) /\ Cardinality(A) \in Nat
      /\ Cardinality(A \ {x}) = Cardinality(A) - (IF x \in A THEN 1 ELSE 0)
  BY FS_RemoveElement, FS_CardinalityType
<1>2. B = IF x \in B THEN (A \ {x}) \cup {x} ELSE A \ {x}
  OBVIOUS
<1>3. IsFiniteSet(B) /\ Cardinality(B) = Cardinality(A \ {x}) + (IF x \in B THEN 1 ELSE 0)
  <2>1. CASE x \in B
    BY <1>1, <1>2, <2>1, FS_AddElement
  <2>2. CASE x \notin B
    <3>1. B = A \ {x}
      BY <1>2, <2>2
    <3>2. Cardinality(B) = Cardinality(A \ {x}) /\ Cardinality(B) \in Int
      BY <1>1, <3>1
    <3>3. QED
      BY <1>1, <2>2, <3>1, <3>2
  <2>3. QED
    BY <2>1, <2>2
<1>4. QED
  BY <1>1, <1>3, FS_CardinalityType

\* A part of a finite set that has as many elements as the whole is the whole.
LEMMA WholeSet ==
  ASSUME NEW S, IsFiniteSet(S), NEW T, T \subseteq S
  PROVE  /\ IsFiniteSet(T) /\ Cardinality(T) \in Nat /\ Cardinality(S) \in Nat
         /\ Cardinality(T) <= Cardinality(S)
         /\ Cardinality(T) >= Cardinality(S) => T = S
         /\ \A x \in T : Cardinality(T) > 0
         /\ Cardinality(T) = 0 => T = {}
PROOF
<1>1. IsFiniteSet(T) /\ Cardinality(T) <= Cardinality(S) /\ (Cardinality(S) = Cardinality(T) => S = T)
  BY FS_Subset
<1>2. Cardinality(T) \in Nat /\ Cardinality(S) \in Nat
  BY <1>1, FS_CardinalityType
<1>3. Cardinality(T) = 0 <=> T = {}
  BY <1>1, FS_EmptySet
<1>4. QED
  BY <1>1, <1>2, <1>3

ImagePackets(i) == {p \in Packet : num_img(p) = i}

LEMMA FiniteParts ==
  /\ IsFiniteSet(Thread)
  /\ IsFiniteSet(Packet) /\ Cardinality(Packet) = NPACK
  /\ IsFiniteSet(Slot) /\ Cardinality(Slot) = NPACK
  /\ IsFiniteSet(Image) /\ Cardinality(Image) = NIMAGE
  /\ \A i \in Image : IsFiniteSet(ImagePackets(i)) /\ Cardinality(ImagePackets(i)) = PerImage
  /\ NPACK \in Nat /\ PerImage \in Nat \ {0}
PROOF
<1> USE ConstantsAssumption DEF ConstantsAssumption
<1>1. IsFiniteSet(Thread)
  BY EveryFilterHasAThread DEF EveryFilterHasAThread
<1>2. IsFiniteSet(Image) /\ Cardinality(Image) = NIMAGE
  BY FS_Interval DEF Image
<1>3. IsFiniteSet(Pack) /\ Cardinality(Pack) = PerImage
  BY FS_Interval DEF Pack
<1>4. IsFiniteSet(Packet) /\ Cardinality(Packet) = NPACK
  BY <1>2, <1>3, FS_Product DEF Packet, NPACK
<1>5. IsFiniteSet(Slot) /\ Cardinality(Slot) = NPACK
  <2>1. NPACK \in Nat
    BY DEF NPACK
  <2>2. IsFiniteSet(0 .. NPACK - 1)
        /\ Cardinality(0 .. NPACK - 1) = IF 0 > NPACK - 1 THEN 0 ELSE NPACK - 1 - 0 + 1
    BY <2>1, FS_Interval
  <2>3. QED
    BY <2>1, <2>2 DEF Slot
<1>6. ASSUME NEW i \in Image
      PROVE  IsFiniteSet(ImagePackets(i)) /\ Cardinality(ImagePackets(i)) = PerImage
  <2>1. ImagePackets(i) = {i} \X Pack
    BY DEF ImagePackets, Packet, num_img
  <2>2. IsFiniteSet({i}) /\ Cardinality({i}) = 1
    BY FS_Singleton
  <2>3. QED
    BY <1>3, <2>1, <2>2, FS_Product
<1>7. QED
  BY <1>1, <1>2, <1>4, <1>5, <1>6 DEF NPACK

-----------------------------------------------------------------------------
(* The numbers of the blur filters.                                         *)

BlurNo(f) == f_isblur[f] - 1

\* initializeBlur gives every blur filter a row of the blur arrays of its own,
\* and every row to a filter.
LEMMA BlurRows ==
  /\ Blur \subseteq Filter
  /\ \A f \in Filter : f_isblur[f] # 0 <=> f \in Blur
  /\ \A f \in Blur : BlurNo(f) \in BlurRow
  /\ \A f, g \in Blur : BlurNo(f) = BlurNo(g) => f = g
  /\ \A b \in BlurRow : \E f \in Blur : BlurNo(f) = b
  /\ \A f \in Blur : BlurNo(f) = 0 /\ 0 \in Blur => f = 0
  /\ 0 \in Blur => BlurNo(0) = 0
PROOF
<1> DEFINE Upto(f) == {g \in Blur : g <= f}
<1>1. Blur \subseteq Filter /\ Filter \subseteq Nat
  BY ConstantsAssumption DEF ConstantsAssumption, Filter
<1>2. IsFiniteSet(Blur)
  <2>1. IsFiniteSet(Filter)
    BY ConstantsAssumption, FS_Interval DEF ConstantsAssumption, Filter
  <2>2. QED
    BY <1>1, <2>1, FS_Subset
<1>3. ASSUME NEW f \in Filter PROVE IsFiniteSet(Upto(f)) /\ Cardinality(Upto(f)) \in Nat
  BY <1>2, FS_Subset, FS_CardinalityType
<1>4. \A f \in Filter : f_isblur[f] = IF f \in Blur THEN Cardinality(Upto(f)) ELSE 0
  BY DEF f_isblur
<1>5. ASSUME NEW f \in Blur PROVE Cardinality(Upto(f)) # 0 /\ f \in Filter
  <2>1. f \in Upto(f) /\ f \in Filter
    BY <1>1
  <2>2. QED
    BY <1>3, <2>1, FS_EmptySet
<1>6. \A f \in Filter : f_isblur[f] # 0 <=> f \in Blur
  BY <1>4, <1>5
<1>7. \A f \in Blur : BlurNo(f) \in BlurRow
  BY <1>1, <1>6, BlurNumbers DEF BlurNo
<1>8. ASSUME NEW f \in Blur, NEW g \in Blur, f < g PROVE BlurNo(f) # BlurNo(g)
  <2>1. Upto(f) \subseteq Upto(g) /\ g \in Upto(g) /\ g \notin Upto(f)
    <3>1. f \in Nat /\ g \in Nat /\ \A h \in Blur : h \in Nat
      BY <1>1
    <3>2. \A h \in Blur : h <= f => h <= g
      BY <1>8, <3>1
    <3>3. g <= g /\ ~(g <= f)
      BY <1>8, <3>1
    <3>4. QED
      BY <3>2, <3>3
  <2>2. f \in Filter /\ g \in Filter
    BY <1>1
  <2>3. IsFiniteSet(Upto(g)) /\ Upto(f) # Upto(g)
    BY <1>3, <2>1, <2>2
  <2> HIDE DEF Upto
  <2>4. Cardinality(Upto(f)) # Cardinality(Upto(g))
    BY <2>1, <2>3, FS_Subset
  <2>5. f_isblur[f] = Cardinality(Upto(f)) /\ f_isblur[g] = Cardinality(Upto(g))
    BY <1>4, <2>2
  <2>6. Cardinality(Upto(f)) \in Nat /\ Cardinality(Upto(g)) \in Nat
    BY <1>3, <2>2
  <2>7. QED
    BY <2>4, <2>5, <2>6 DEF BlurNo
<1>9. \A f, g \in Blur : BlurNo(f) = BlurNo(g) => f = g
  BY <1>1, <1>8
<1>10. \A b \in BlurRow : \E f \in Blur : BlurNo(f) = b
  <2> DEFINE h == [f \in Blur |-> BlurNo(f)]
  <2>1. NBLUR \in Nat /\ NBLUR = Cardinality(Blur)
    BY <1>2, FS_CardinalityType DEF NBLUR
  <2>2. IsFiniteSet(BlurRow) /\ Cardinality(BlurRow) = NBLUR
    <3>1. IsFiniteSet(0 .. NBLUR - 1)
          /\ Cardinality(0 .. NBLUR - 1) = IF 0 > NBLUR - 1 THEN 0 ELSE NBLUR - 1 - 0 + 1
      <4>1. NBLUR - 1 \in Int
        BY <2>1
      <4>2. QED
        BY <4>1, FS_Interval
    <3>2. QED
      BY <2>1, <3>1 DEF BlurRow
  <2>3. h \in Injection(Blur, BlurRow)
    BY <1>7, <1>9 DEF Injection, IsInjective
  <2>4. h \in Surjection(Blur, BlurRow)
    BY <2>1, <2>2, <2>3, FS_Injection
  <2>5. QED
    BY <2>4 DEF Surjection
<1>11. 0 \in Blur => BlurNo(0) = 0
  <2>1. SUFFICES ASSUME 0 \in Blur PROVE BlurNo(0) = 0
    OBVIOUS
  <2>2. Upto(0) = {0}
    <3>1. \A g \in Blur : g <= 0 <=> g = 0
      BY <1>1
    <3>2. QED
      BY <2>1, <3>1
  <2>3. Cardinality(Upto(0)) = 1
    BY <2>2, FS_Singleton
  <2>4. 0 \in Filter
    BY <1>1, <2>1
  <2>5. f_isblur[0] = 1
    BY <1>4, <2>1, <2>3, <2>4
  <2>6. QED
    BY <2>5 DEF BlurNo
<1>12. QED
  BY <1>1, <1>6, <1>7, <1>9, <1>10, <1>11

\* The rows a thread uses: its own when it is a blur, and the one of the next
\* filter when that is a blur.
LEMMA ThreadRows ==
  ASSUME NEW t \in Thread
  PROVE  /\ num_filter[t] \in Filter /\ num_filter[t] \in Row /\ num_filter[t] \in Nat
         /\ OutRow(t) = num_filter[t] + 1 /\ OutRow(t) \in Row
         /\ isblur(t) # 0 <=> num_filter[t] \in Blur
         /\ BlurOf(t) = BlurNo(num_filter[t])
         /\ f_beforeblur[num_filter[t]] # 0 <=> num_filter[t] + 1 \in Blur
         /\ num_filter[t] + 1 \in Blur => NextBlur(t) = BlurNo(num_filter[t] + 1)
PROOF
<1>1. num_filter[t] \in Filter /\ num_filter[t] \in Row /\ OutRow(t) \in Row
  BY ThreadConstants
<1>2. num_filter[t] \in Nat
  BY <1>1, ConstantsAssumption DEF Filter, ConstantsAssumption
<1>3. f_beforeblur[num_filter[t]] =
        IF num_filter[t] + 1 \in Filter THEN f_isblur[num_filter[t] + 1] ELSE 0
  BY <1>1 DEF f_beforeblur
<1>4. QED
  BY <1>1, <1>2, <1>3, BlurRows DEF OutRow, isblur, BlurOf, NextBlur, BlurNo

-----------------------------------------------------------------------------
(* The inductive invariant.                                                 *)

GivenSteps   == {"repost", "copi", "lockBuf", "memcpy", "waitFull", "take", "apply"}
PassSteps    == {"waitCopi", "lockTake", "scan"} \cup GivenSteps
CopiedSteps  == {"waitFull", "take", "apply", "waitEmpty", "insert", "postFull", "beforeBlur"}
InsertSteps  == {"waitEmpty", "insert"}
LeavingSteps == {"waitEmpty", "insert", "postFull", "beforeBlur"}

\* The threads of filter f at one of the steps; those that chose image i;
\* those whose packet is of image i.
Of(f, here)       == {t \in Thread : num_filter[t] = f /\ pc[t] \in here}
Chose(f, here, i) == {t \in Thread : num_filter[t] = f /\ pc[t] \in here /\ chosen[t] = i}
Carry(f, here, i) == {t \in Thread : num_filter[t] = f /\ pc[t] \in here /\ num_img(paquet[t]) = i}

\* The packets filter f was applied to, those of image i and all.
Past(f, i) == {p \in Packet : num_img(p) = i /\ Len(applied[p]) > f}
AllPast(f) == {p \in Packet : Len(applied[p]) > f}

\* Only a blur chooses an image, and its packet is of the image it chose.
Locals ==
  \A t \in Thread :
    /\ isblur(t) = 0 => chosen[t] = None
    /\ isblur(t) # 0 /\ pc[t] \in Carrying => num_img(paquet[t]) = chosen[t]

\* full and empty: the packets and the free slots of a row, without those a
\* thread is about to take or to fill, or has just inserted.
RowsCounted ==
  \A r \in Row :
    /\ full[r] + Cardinality(Of(r, {"take"})) + Cardinality(Of(r - 1, {"postFull"}))
         = Cardinality(PacketsIn(r))
    /\ empty[r] + Cardinality(Of(r - 1, {"insert"})) = NPACK - Cardinality(PacketsIn(r))

\* to_pass: the passes that have not applied the filter yet, and the packets
\* the filter was applied to.
PassesCounted ==
  \A f \in Filter :
    to_pass[f] = Cardinality(Of(f, PassSteps)) + Cardinality(AllPast(f))

\* mat_blur and the threads of the filter before with a packet of the image:
\* the packets of the image that had that filter.
ArrivalsCounted ==
  \A f \in Blur, i \in Image :
    mat_blur[BlurNo(f)][i] + Cardinality(Carry(f - 1, LeavingSteps, i)) = Cardinality(Past(f - 1, i))

\* can_i_take_c: the threads that were given the image and have not applied
\* the filter yet, and the packets the filter was applied to.  An image is
\* given to PerImage threads at most, and only when it is complete.
GivenCounted ==
  \A f \in Blur, i \in Image :
    /\ can_i_take_c[BlurNo(f)][i] = Cardinality(Chose(f, GivenSteps, i)) + Cardinality(Past(f, i))
    /\ can_i_take_c[BlurNo(f)][i] <= PerImage
    /\ can_i_take_c[BlurNo(f)][i] > 0 => mat_blur[BlurNo(f)][i] = PerImage

\* choosen_c: the packets the blur was applied to, without those that are not
\* inserted yet.
BlurredCounted ==
  \A f \in Blur, i \in Image :
    choosen_c[BlurNo(f)][i] + Cardinality(Chose(f, InsertSteps, i)) = Cardinality(Past(f, i))

\* can_copi and the threads of the blur that it let in and that did not give
\* the image its last packet: the images a thread may be given.
Ready(f)  == {i \in Image : MayTake(BlurNo(f), i)}
Inside(f) == {t \in Thread :
  /\ num_filter[t] = f
  /\ \/ pc[t] \in {"lockTake", "scan"}
     \/ pc[t] = "repost" /\ can_i_take_c[BlurNo(f)][chosen[t]] < PerImage}

ReadyCounted ==
  \A f \in Blur : can_copi[BlurNo(f)] + Cardinality(Inside(f)) = Cardinality(Ready(f))

\* The image check_lmat_blur looks for is still ahead of it: an image that
\* became complete behind it was not the one can_copi let the thread in for.
ScanFinds ==
  \A t \in Thread :
    /\ pc[t] \in {"scan", "repost"} => can_i_take_c_mutex[BlurOf(t)] = t
    /\ pc[t] = "scan" => \E i \in Image : i >= scan[t] /\ MayTake(BlurOf(t), i)

\* One thread copies an image for a blur, and before it has no thread of the
\* blur takes a packet of the image.
CopyFirst ==
  /\ \A t \in Thread : pc[t] \in {"lockBuf", "memcpy"} =>
       /\ copi_is_done_mutex[BlurOf(t)][chosen[t]] = t
       /\ copi_is_done[BlurOf(t)][chosen[t]] = 0
  /\ \A f \in Blur, i \in Image :
       IF copi_is_done[BlurNo(f)][i] = 0
       THEN Chose(f, CopiedSteps, i) = {} /\ Past(f, i) = {}
       ELSE can_i_take_c[BlurNo(f)][i] > 0

\* A copy lives from the end of image_copi to the insertion of the last packet
\* blurred.  All the while every packet of its image points to it and it holds
\* what the filters before the blur made of the image.
CopyLives ==
  \A f \in Blur, i \in Image :
    LET b == BlurNo(f)
        k == <<b, i>>
    IN /\ copy[k] = IF copi_is_done[b][i] = 0 THEN "none"
                    ELSE IF choosen_c[b][i] < PerImage THEN "live" ELSE "freed"
       /\ copi_is_done[b][i] # 0 /\ choosen_c[b][i] < PerImage =>
            /\ \A p \in ImagePackets(i) : read_only[p] = k
            /\ \A j \in Pack : content[k][j] = Stage(f)

\* A thread leaves its loop when its filter made NPACK passes, and the join
\* waits for all the threads.
AllPassesAtExit ==
  /\ \A t \in Thread : pc[t] = "exit" => to_pass[num_filter[t]] >= NPACK
  /\ joined => \A t \in Thread : pc[t] = "exit"

\* What is proved before about every state.
Known == TypeInv /\ PacketConservation /\ FiltersInOrder

IInv ==
  /\ Known
  /\ NoError
  /\ Locals
  /\ RowsCounted
  /\ PassesCounted
  /\ ArrivalsCounted
  /\ GivenCounted
  /\ BlurredCounted
  /\ ReadyCounted
  /\ ScanFinds
  /\ CopyFirst
  /\ CopyLives
  /\ AllPassesAtExit

-----------------------------------------------------------------------------
(* How the counts change.                                                   *)

\* A step of t leaves the locals of the other threads alone.
OthersStay(t) ==
  \A u \in Thread : u # t => /\ pc'[u] = pc[u] /\ scan'[u] = scan[u]
                             /\ chosen'[u] = chosen[u] /\ paquet'[u] = paquet[u]

LEMMA StepOthersStay ==
  ASSUME TypeInv, NEW t \in Thread, ThreadStep(t)
  PROVE  OthersStay(t)
PROOF
<1> USE DEF OthersStay, Goto, local
<1>0. /\ pc \in [Thread -> PC] /\ scan \in [Thread -> 0 .. NIMAGE]
      /\ chosen \in [Thread -> Image \cup {None}] /\ paquet \in [Thread -> Packet \cup {None}]
  BY DEF TypeInv, TypeOK
<1>1. CASE ExitLoop(t) \/ Pass(t) \/ WaitCanCopi(t) \/ LockTake(t) \/ Repost(t)
  BY <1>0, <1>1 DEF ExitLoop, Pass, WaitCanCopi, LockTake, Repost
<1>2. CASE CheckLmatBlur(t)
  BY <1>0, <1>2 DEF CheckLmatBlur
<1>3. CASE CopiAlreadyDone(t) \/ LockCopi(t) \/ LockBuf(t) \/ EndCopi(t)
  BY <1>0, <1>3 DEF CopiAlreadyDone, LockCopi, LockBuf, EndCopi
<1>4. CASE WaitFull(t) \/ EndApply(t) \/ WaitEmpty(t)
  BY <1>0, <1>4 DEF WaitFull, EndApply, WaitEmpty
<1>5. CASE Take(t)
  BY <1>0, <1>5 DEF Take, TakeSlot
<1>6. CASE Insert(t) \/ InsertBlurred(t)
  BY <1>0, <1>6 DEF Insert, InsertBlurred, InsertElem
<1>7. CASE PostFull(t) \/ BeforeBlur(t)
  BY <1>0, <1>7 DEF PostFull, BeforeBlur, EndPass
<1>8. QED
  BY <1>1, <1>2, <1>3, <1>4, <1>5, <1>6, <1>7 DEF ThreadStep

\* A set of threads loses or gains at most the thread that took the step.
LEMMA OfMoves ==
  ASSUME NEW t \in Thread, OthersStay(t), NEW f, NEW here
  PROVE  /\ Cardinality(Of(f, here)) \in Nat /\ Cardinality(Of(f, here)') \in Nat
         /\ Cardinality(Of(f, here)')
              + (IF num_filter[t] = f /\ pc[t] \in here THEN 1 ELSE 0)
              = Cardinality(Of(f, here))
              + (IF num_filter[t] = f /\ pc'[t] \in here THEN 1 ELSE 0)
PROOF
<1>1. IsFiniteSet(Of(f, here))
  BY FiniteParts, FS_Subset DEF Of
<1>2. Of(f, here) \ {t} = Of(f, here)' \ {t}
  BY DEF Of, OthersStay
<1>3. /\ t \in Of(f, here) <=> num_filter[t] = f /\ pc[t] \in here
      /\ t \in Of(f, here)' <=> num_filter[t] = f /\ pc'[t] \in here
  BY DEF Of
<1>4. QED
  BY <1>1, <1>2, <1>3, OneDiffers

LEMMA ChoseMoves ==
  ASSUME NEW t \in Thread, OthersStay(t), NEW f, NEW here, NEW i
  PROVE  /\ Cardinality(Chose(f, here, i)) \in Nat /\ Cardinality(Chose(f, here, i)') \in Nat
         /\ Cardinality(Chose(f, here, i)')
              + (IF num_filter[t] = f /\ pc[t] \in here /\ chosen[t] = i THEN 1 ELSE 0)
              = Cardinality(Chose(f, here, i))
              + (IF num_filter[t] = f /\ pc'[t] \in here /\ chosen'[t] = i THEN 1 ELSE 0)
PROOF
<1>1. IsFiniteSet(Chose(f, here, i))
  BY FiniteParts, FS_Subset DEF Chose
<1>2. Chose(f, here, i) \ {t} = Chose(f, here, i)' \ {t}
  BY DEF Chose, OthersStay
<1>3. /\ t \in Chose(f, here, i) <=> num_filter[t] = f /\ pc[t] \in here /\ chosen[t] = i
      /\ t \in Chose(f, here, i)' <=> num_filter[t] = f /\ pc'[t] \in here /\ chosen'[t] = i
  BY DEF Chose
<1>4. QED
  BY <1>1, <1>2, <1>3, OneDiffers

LEMMA CarryMoves ==
  ASSUME NEW t \in Thread, OthersStay(t), NEW f, NEW here, NEW i
  PROVE  /\ Cardinality(Carry(f, here, i)) \in Nat /\ Cardinality(Carry(f, here, i)') \in Nat
         /\ Cardinality(Carry(f, here, i)')
              + (IF num_filter[t] = f /\ pc[t] \in here /\ num_img(paquet[t]) = i THEN 1 ELSE 0)
              = Cardinality(Carry(f, here, i))
              + (IF num_filter[t] = f /\ pc'[t] \in here /\ num_img(paquet'[t]) = i THEN 1 ELSE 0)
PROOF
<1>1. IsFiniteSet(Carry(f, here, i))
  BY FiniteParts, FS_Subset DEF Carry
<1>2. Carry(f, here, i) \ {t} = Carry(f, here, i)' \ {t}
  BY DEF Carry, OthersStay
<1>3. /\ t \in Carry(f, here, i) <=> num_filter[t] = f /\ pc[t] \in here /\ num_img(paquet[t]) = i
      /\ t \in Carry(f, here, i)' <=> num_filter[t] = f /\ pc'[t] \in here /\ num_img(paquet'[t]) = i
  BY DEF Carry
<1>4. QED
  BY <1>1, <1>2, <1>3, OneDiffers

\* Sizes of the sets of packets, and the sets a packet belongs to.
LEMMA PastSizes ==
  ASSUME TypeInv, NEW f \in Int, NEW i \in Image
  PROVE  /\ IsFiniteSet(Past(f, i)) /\ Cardinality(Past(f, i)) \in Nat
         /\ IsFiniteSet(AllPast(f)) /\ Cardinality(AllPast(f)) \in Nat
         /\ Cardinality(Past(f, i)) <= PerImage /\ Cardinality(AllPast(f)) <= NPACK
         /\ Cardinality(Past(f, i)) >= PerImage => \A p \in ImagePackets(i) : Len(applied[p]) > f
         /\ Cardinality(AllPast(f)) >= NPACK => \A p \in Packet : Len(applied[p]) > f
PROOF
<1>1. Past(f, i) \subseteq ImagePackets(i) /\ AllPast(f) \subseteq Packet
  BY DEF Past, AllPast, ImagePackets
<1>2. /\ IsFiniteSet(Past(f, i)) /\ Cardinality(Past(f, i)) \in Nat
      /\ Cardinality(Past(f, i)) <= PerImage
      /\ Cardinality(Past(f, i)) >= PerImage => Past(f, i) = ImagePackets(i)
  BY <1>1, FiniteParts, WholeSet
<1>3. /\ IsFiniteSet(AllPast(f)) /\ Cardinality(AllPast(f)) \in Nat
      /\ Cardinality(AllPast(f)) <= NPACK
      /\ Cardinality(AllPast(f)) >= NPACK => AllPast(f) = Packet
  BY <1>1, FiniteParts, WholeSet
<1>4. QED
  BY <1>2, <1>3 DEF Past, AllPast

\* apply_filter adds the packet of the thread to those its filter was applied
\* to, and to no other of these sets.
LEMMA ApplyMoves ==
  ASSUME TypeInv, FiltersInOrder, NEW t \in Thread, EndApply(t)
  PROVE  /\ paquet[t] \in Packet /\ num_img(paquet[t]) \in Image
         /\ \A f \in Int, i \in Image :
              /\ Cardinality(Past(f, i)') = Cardinality(Past(f, i))
                   + (IF f = num_filter[t] /\ i = num_img(paquet[t]) THEN 1 ELSE 0)
              /\ Cardinality(AllPast(f)') = Cardinality(AllPast(f))
                   + (IF f = num_filter[t] THEN 1 ELSE 0)
         /\ \A p \in Packet : p # paquet[t] => applied'[p] = applied[p]
         /\ Len(applied[paquet[t]]) = num_filter[t]
         /\ Len(applied'[paquet[t]]) = num_filter[t] + 1
PROOF
<1> DEFINE p == paquet[t]
           n == num_filter[t]
<1>1. pc[t] = "apply" /\ Holds(t)
  BY DEF EndApply, At, Holds
<1>2. p \in Packet /\ n \in Filter /\ n \in Nat
  BY <1>1, ThreadRows DEF TypeInv, Control, Carrying
<1>3. num_img(p) \in Image
  BY <1>2 DEF Packet, num_img
<1>4. applied' = [applied EXCEPT ![p] = Append(@, n)] /\ applied \in [Packet -> Seq(Filter)]
  BY DEF EndApply, TypeInv, TypeOK
<1>5. applied[p] = Stage(n)
  BY <1>1 DEF FiltersInOrder, At
<1>6. Len(applied[p]) = n
  BY <1>2, <1>5 DEF Stage
<1>7. Len(applied'[p]) = n + 1 /\ \A q \in Packet : q # p => applied'[q] = applied[q]
  BY <1>2, <1>4, <1>6
<1> HIDE DEF p, n
<1>8. ASSUME NEW f \in Int, NEW i \in Image
      PROVE  /\ Cardinality(Past(f, i)') = Cardinality(Past(f, i))
                  + (IF f = n /\ i = num_img(p) THEN 1 ELSE 0)
             /\ Cardinality(AllPast(f)') = Cardinality(AllPast(f)) + (IF f = n THEN 1 ELSE 0)
  <2>1. /\ IsFiniteSet(Past(f, i)) /\ IsFiniteSet(AllPast(f))
        /\ Past(f, i) \ {p} = Past(f, i)' \ {p} /\ AllPast(f) \ {p} = AllPast(f)' \ {p}
    BY <1>7, PastSizes DEF Past, AllPast
  <2>2. /\ p \in Past(f, i) <=> num_img(p) = i /\ n > f
        /\ p \in Past(f, i)' <=> num_img(p) = i /\ n + 1 > f
        /\ p \in AllPast(f) <=> n > f
        /\ p \in AllPast(f)' <=> n + 1 > f
    BY <1>2, <1>6, <1>7 DEF Past, AllPast
  <2>3. /\ Cardinality(Past(f, i)) \in Nat /\ Cardinality(Past(f, i)') \in Nat
        /\ Cardinality(Past(f, i)') + (IF p \in Past(f, i) THEN 1 ELSE 0)
             = Cardinality(Past(f, i)) + (IF p \in Past(f, i)' THEN 1 ELSE 0)
    BY <2>1, OneDiffers
  <2>4. /\ Cardinality(AllPast(f)) \in Nat /\ Cardinality(AllPast(f)') \in Nat
        /\ Cardinality(AllPast(f)') + (IF p \in AllPast(f) THEN 1 ELSE 0)
             = Cardinality(AllPast(f)) + (IF p \in AllPast(f)' THEN 1 ELSE 0)
    BY <2>1, OneDiffers
  <2>5. n > f => n + 1 > f
    BY <1>2
  <2>6. n + 1 > f /\ ~(n > f) <=> f = n
    BY <1>2
  <2>7. QED
    BY <2>2, <2>3, <2>4, <2>5, <2>6
<1>9. QED
  BY <1>2, <1>3, <1>6, <1>7, <1>8 DEF p, n

-----------------------------------------------------------------------------
(* Where the packets are, and why error() is not called.                    *)

\* The number of filters a packet had tells its row, or the filter of the
\* thread that has it in hand.
LEMMA WhereIs ==
  ASSUME Known, NEW p \in Packet
  PROVE  /\ Len(applied[p]) \in Nat
         /\ \/ \E r \in Row, s \in Slot : mat_buf[r][s] = p /\ Len(applied[p]) = r
            \/ \E u \in Thread : /\ Holds(u) /\ paquet[u] = p
                                 /\ Len(applied[p]) =
                                      num_filter[u] + (IF pc[u] = "apply" THEN 0 ELSE 1)
PROOF
<1>1. Len(applied[p]) \in Nat
  <2>1. applied[p] \in Seq(Filter)
    BY DEF Known, TypeInv, TypeOK
  <2>2. QED
    BY <2>1
<1>2. \A n \in Nat : Len(Stage(n)) = n
  BY DEF Stage
<1>3. p # None
  BY ConstantsAssumption DEF ConstantsAssumption
<1>4. PICK x \in Places : AtPlace(x) = p
  BY DEF Known, PacketConservation
<1>5. CASE x \in Thread
  <2>1. Holds(x) /\ paquet[x] = p
    BY <1>3, <1>4, <1>5 DEF AtPlace
  <2>2. applied[p] = Stage(IF pc[x] = "apply" THEN num_filter[x] ELSE OutRow(x))
    BY <1>5, <2>1 DEF Known, FiltersInOrder, At
  <2>3. Len(applied[p]) = num_filter[x] + (IF pc[x] = "apply" THEN 0 ELSE 1)
    BY <1>2, <1>5, <2>2, ThreadRows
  <2>4. QED
    BY <1>1, <1>5, <2>1, <2>3
<1>6. CASE x \notin Thread
  <2>1. PICK r \in Row, s \in Slot : x = <<r, s>>
    BY <1>6 DEF Places
  <2>2. mat_buf[r][s] = p
    BY <1>4, <2>1, PlaceKinds
  <2>3. applied[p] = Stage(r) /\ r \in Nat
    BY <1>3, <2>2, ConstantsAssumption DEF Known, FiltersInOrder, Row, ConstantsAssumption
  <2>4. QED
    BY <1>1, <1>2, <2>2, <2>3
<1>7. QED
  BY <1>5, <1>6

\* When mat_blur says that an image is complete, none of its packets is behind
\* the blur: each is in its row, in the hands of its threads, or past it.
LEMMA ImageComplete ==
  ASSUME Known, ArrivalsCounted, NEW f \in Blur, NEW i \in Image,
         mat_blur[BlurNo(f)][i] = PerImage
  PROVE  /\ \A p \in ImagePackets(i) :
              /\ Len(applied[p]) >= f
              /\ Len(applied[p]) = f =>
                   \/ \E s \in Slot : mat_buf[f][s] = p
                   \/ \E u \in Thread : num_filter[u] = f /\ pc[u] = "apply" /\ paquet[u] = p
         /\ \A u \in Thread : num_filter[u] = f - 1 /\ pc[u] \in LeavingSteps
                                => num_img(paquet[u]) # i
PROOF
<1>1. f \in Filter /\ f \in Nat /\ f \in Row /\ f - 1 \in Int
  BY BlurRows, ConstantsAssumption DEF Filter, Row, ConstantsAssumption
<1> DEFINE C == Carry(f - 1, LeavingSteps, i)
<1>2. IsFiniteSet(C) /\ Cardinality(C) \in Nat
  BY FiniteParts, FS_Subset, FS_CardinalityType DEF Carry
<1>3. /\ PerImage + Cardinality(C) = Cardinality(Past(f - 1, i))
      /\ Cardinality(Past(f - 1, i)) <= PerImage /\ Cardinality(Past(f - 1, i)) \in Nat
  BY <1>1, PastSizes DEF ArrivalsCounted, Known
<1>4. Cardinality(C) = 0 /\ Cardinality(Past(f - 1, i)) >= PerImage
  BY <1>2, <1>3, FiniteParts
<1>5. \A u \in Thread : num_filter[u] = f - 1 /\ pc[u] \in LeavingSteps => num_img(paquet[u]) # i
  <2>1. C = {}
    BY <1>2, <1>4, FS_EmptySet
  <2>2. QED
    BY <2>1 DEF Carry
<1>6. ASSUME NEW p \in ImagePackets(i)
      PROVE  /\ Len(applied[p]) >= f
             /\ Len(applied[p]) = f =>
                  \/ \E s \in Slot : mat_buf[f][s] = p
                  \/ \E u \in Thread : num_filter[u] = f /\ pc[u] = "apply" /\ paquet[u] = p
  <2>1. p \in Packet /\ num_img(p) = i
    BY DEF ImagePackets
  <2>2. Len(applied[p]) > f - 1
    BY <1>1, <1>4, PastSizes DEF Known
  <2>3. Len(applied[p]) \in Nat
    BY <2>1, WhereIs
  <2>4. ASSUME Len(applied[p]) = f
        PROVE  \/ \E s \in Slot : mat_buf[f][s] = p
               \/ \E u \in Thread : num_filter[u] = f /\ pc[u] = "apply" /\ paquet[u] = p
    <3>1. CASE \E r \in Row, s \in Slot : mat_buf[r][s] = p /\ Len(applied[p]) = r
      BY <2>4, <3>1
    <3>2. ASSUME NEW u \in Thread, Holds(u), paquet[u] = p,
                 Len(applied[p]) = num_filter[u] + (IF pc[u] = "apply" THEN 0 ELSE 1)
          PROVE  num_filter[u] = f /\ pc[u] = "apply"
      <4>1. CASE pc[u] = "apply"
        BY <2>4, <3>2, <4>1, ThreadRows
      <4>2. CASE pc[u] # "apply"
        <5>1. num_filter[u] = f - 1 /\ pc[u] \in LeavingSteps
          BY <1>1, <2>4, <3>2, <4>2, ThreadRows DEF Holds, LeavingSteps
        <5>2. QED
          BY <1>5, <2>1, <3>2, <5>1
      <4>3. QED
        BY <4>1, <4>2
    <3>3. QED
      BY <2>1, <3>1, <3>2, WhereIs
  <2>5. QED
    BY <1>1, <2>2, <2>3, <2>4
<1>7. QED
  BY <1>5, <1>6

\* A thread of a blur that has not applied it yet was counted in can_i_take_c:
\* its image is complete, and not all of its packets are past the blur.
LEMMA GivenThread ==
  ASSUME IInv, NEW t \in Thread, num_filter[t] \in Blur, pc[t] \in GivenSteps
  PROVE  /\ chosen[t] \in Image
         /\ mat_blur[BlurOf(t)][chosen[t]] = PerImage
         /\ Cardinality(Past(num_filter[t], chosen[t]))
              + Cardinality(Chose(num_filter[t], GivenSteps, chosen[t])) <= PerImage
         /\ Cardinality(Past(num_filter[t], chosen[t])) \in Nat
         /\ Cardinality(Past(num_filter[t], chosen[t])) < PerImage
PROOF
<1> DEFINE f == num_filter[t]
           i == chosen[t]
           C == Chose(f, GivenSteps, i)
<1>1. i \in Image
  BY ThreadRows DEF IInv, Known, TypeInv, Control, GivenSteps, Before
<1>2. f \in Int /\ Cardinality(Past(f, i)) \in Nat
  BY <1>1, ThreadRows, PastSizes DEF IInv, Known
<1>3. IsFiniteSet(C) /\ Cardinality(C) \in Nat /\ Cardinality(C) > 0
  <2>1. C \subseteq Thread /\ t \in C
    BY DEF Chose
  <2>2. QED
    BY <2>1, FiniteParts, WholeSet
<1>4. /\ can_i_take_c[BlurNo(f)][i] = Cardinality(C) + Cardinality(Past(f, i))
      /\ can_i_take_c[BlurNo(f)][i] <= PerImage
      /\ can_i_take_c[BlurNo(f)][i] > 0 => mat_blur[BlurNo(f)][i] = PerImage
  BY <1>1 DEF IInv, GivenCounted
<1> HIDE DEF C, i
<1>5. mat_blur[BlurNo(f)][i] = PerImage
  BY <1>2, <1>3, <1>4
<1>6. Cardinality(Past(f, i)) + Cardinality(C) <= PerImage /\ Cardinality(Past(f, i)) < PerImage
  BY <1>2, <1>3, <1>4, FiniteParts
<1>7. QED
  BY <1>1, <1>2, <1>5, <1>6, ThreadRows DEF C, i

\* take_elem and take_elem_image find a packet.
LEMMA TakeFinds ==
  ASSUME IInv, NEW t \in Thread, pc[t] = "take"
  PROVE  Wanted(t, num_filter[t]) # {}
PROOF
<1> DEFINE f == num_filter[t]
           i == chosen[t]
<1>1. f \in Row /\ f \in Nat
  BY ThreadRows
<1>2. CASE isblur(t) = 0
  <2>1. chosen[t] = None
    BY <1>2 DEF IInv, Locals
  <2>2. Cardinality(Of(f, {"take"})) \in Nat /\ Cardinality(Of(f, {"take"})) > 0
    <3>1. Of(f, {"take"}) \subseteq Thread /\ t \in Of(f, {"take"})
      BY DEF Of
    <3>2. QED
      BY <3>1, FiniteParts, WholeSet
  <2>3. Cardinality(Of(f - 1, {"postFull"})) \in Nat
    BY FiniteParts, WholeSet DEF Of
  <2>4. full[f] \in Nat
    BY <1>1 DEF IInv, Known, TypeInv, TypeOK
  <2>5. full[f] + Cardinality(Of(f, {"take"})) + Cardinality(Of(f - 1, {"postFull"}))
          = Cardinality(PacketsIn(f))
    BY <1>1 DEF IInv, RowsCounted
  <2>6. PacketsIn(f) # {}
    <3>1. Cardinality(PacketsIn(f)) # 0
      BY <2>2, <2>3, <2>4, <2>5
    <3>2. QED
      BY <3>1, FS_EmptySet
  <2>7. QED
    BY <2>1, <2>6 DEF Wanted, PacketsIn
<1>3. CASE isblur(t) # 0
  <2>1. f \in Blur /\ pc[t] \in GivenSteps /\ BlurOf(t) = BlurNo(f)
    BY <1>3, ThreadRows DEF GivenSteps
  <2>2. i \in Image /\ i # None
    BY <2>1, GivenThread, ConstantsAssumption DEF ConstantsAssumption
  \* Of the packets that are not past the blur not all are in threads' hands.
  <2> DEFINE H == {u \in Chose(f, GivenSteps, i) : pc[u] = "apply"}
             Rem == ImagePackets(i) \ Past(f, i)
  <2>3. ASSUME \A p \in Rem : \E u \in H : paquet[u] = p PROVE FALSE
    <3> DEFINE g == [u \in H |-> paquet[u]]
    <3>1. IsFiniteSet(Chose(f, GivenSteps, i)) /\ H \subseteq Chose(f, GivenSteps, i)
          /\ t \in Chose(f, GivenSteps, i) /\ t \notin H
      BY <2>1, FiniteParts, FS_Subset DEF Chose
    <3>2. IsFiniteSet(H) /\ Cardinality(H) < Cardinality(Chose(f, GivenSteps, i))
          /\ Cardinality(H) \in Nat /\ Cardinality(Chose(f, GivenSteps, i)) \in Nat
      <4> DEFINE C == Chose(f, GivenSteps, i)
      <4>1. H # C
        BY <3>1
      <4> HIDE DEF C, H
      <4>2. Cardinality(H) # Cardinality(C) /\ Cardinality(H) <= Cardinality(C) /\ IsFiniteSet(H)
        BY <3>1, <4>1, FS_Subset DEF C
      <4>3. Cardinality(H) \in Nat /\ Cardinality(C) \in Nat
        BY <3>1, <4>2, FS_CardinalityType DEF C
      <4>4. QED
        BY <4>2, <4>3 DEF C
    <3>3. IsFiniteSet(Rem) /\ Cardinality(Rem) = PerImage - Cardinality(Past(f, i))
      <4>1. Past(f, i) \subseteq ImagePackets(i)
        BY DEF Past, ImagePackets
      <4>2. ImagePackets(i) \cap Past(f, i) = Past(f, i)
        BY <4>1
      <4>3. IsFiniteSet(ImagePackets(i)) /\ Cardinality(ImagePackets(i)) = PerImage
        BY <2>2, FiniteParts
      <4>4. QED
        BY <4>2, <4>3, FS_Difference
    <3> HIDE DEF H, Rem
    <3>4. g \in [H -> {paquet[u] : u \in H}] /\ Rem \subseteq {paquet[u] : u \in H}
      BY <2>3
    <3>5. g \in Surjection(H, {paquet[u] : u \in H})
      BY <3>4 DEF Surjection
    <3>6. Cardinality({paquet[u] : u \in H}) <= Cardinality(H) /\ IsFiniteSet({paquet[u] : u \in H})
      BY <3>2, <3>5, FS_Surjection
    <3>7. Cardinality(Rem) <= Cardinality({paquet[u] : u \in H})
      BY <3>4, <3>6, FS_Subset
    <3>8. Cardinality({paquet[u] : u \in H}) \in Nat
      BY <3>6, FS_CardinalityType
    <3>9. /\ Cardinality(Past(f, i)) + Cardinality(Chose(f, GivenSteps, i)) <= PerImage
          /\ Cardinality(Past(f, i)) \in Nat
      BY <2>1, GivenThread
    <3>10. QED
      BY <3>2, <3>3, <3>6, <3>7, <3>8, <3>9, FiniteParts
  <2>4. PICK p \in Rem : \A u \in H : paquet[u] # p
    BY <2>3
  <2>5. p \in ImagePackets(i) /\ p \in Packet /\ num_img(p) = i /\ ~(Len(applied[p]) > f)
    BY DEF ImagePackets, Past
  <2>6. Len(applied[p]) >= f /\ Len(applied[p]) \in Nat
    BY <2>1, <2>2, <2>5, GivenThread, ImageComplete, WhereIs DEF IInv
  <2>7. Len(applied[p]) = f
    BY <1>1, <2>5, <2>6
  <2>8. ASSUME NEW u \in Thread, num_filter[u] = f, pc[u] = "apply", paquet[u] = p PROVE FALSE
    <3>1. isblur(u) # 0
      BY <2>1, <2>8, ThreadRows
    <3>2. chosen[u] = i
      BY <2>5, <2>8, <3>1 DEF IInv, Locals, Carrying
    <3>3. u \in H
      BY <2>8, <3>2 DEF Chose, GivenSteps
    <3>4. QED
      BY <2>4, <2>8, <3>3
  <2>9. mat_blur[BlurNo(f)][i] = PerImage
    BY <2>1, GivenThread
  <2>10. \E s \in Slot : mat_buf[f][s] = p
    BY <2>1, <2>2, <2>5, <2>7, <2>8, <2>9, ImageComplete DEF IInv
  <2>11. p # None
    BY <2>5, ConstantsAssumption DEF ConstantsAssumption
  <2>12. QED
    BY <2>2, <2>5, <2>10, <2>11 DEF Wanted, SlotsOf
<1>4. QED
  BY <1>2, <1>3

\* insert_elem finds a free slot.
LEMMA InsertFinds ==
  ASSUME IInv, NEW t \in Thread, pc[t] = "insert"
  PROVE  \E s \in Slot : mat_buf[OutRow(t)][s] = None
PROOF
<1> DEFINE r == OutRow(t)
<1>1. r \in Row /\ r - 1 = num_filter[t]
  BY ThreadRows
<1>2. Cardinality(Of(r - 1, {"insert"})) \in Nat /\ Cardinality(Of(r - 1, {"insert"})) > 0
  <2>1. Of(r - 1, {"insert"}) \subseteq Thread /\ t \in Of(r - 1, {"insert"})
    BY <1>1 DEF Of
  <2>2. QED
    BY <2>1, FiniteParts, WholeSet
<1>3. empty[r] \in Nat
  BY <1>1 DEF IInv, Known, TypeInv, TypeOK
<1>4. empty[r] + Cardinality(Of(r - 1, {"insert"})) = NPACK - Cardinality(PacketsIn(r))
  BY <1>1 DEF IInv, RowsCounted
<1>5. SUFFICES ASSUME \A s \in Slot : mat_buf[r][s] # None PROVE FALSE
  OBVIOUS
<1>6. PacketsIn(r) = Slot
  BY <1>5 DEF PacketsIn
<1>7. QED
  BY <1>2, <1>3, <1>4, <1>6, FiniteParts

\* check_lmat_blur has not come to the end of the images.
LEMMA ScanInside ==
  ASSUME IInv, NEW t \in Thread, pc[t] = "scan"
  PROVE  scan[t] \in Image
PROOF
<1>1. PICK i \in Image : i >= scan[t]
  BY DEF IInv, ScanFinds
<1>2. scan[t] \in 0 .. NIMAGE /\ NIMAGE \in Nat
  BY Sizes DEF IInv, Known, TypeInv, TypeOK
<1>3. QED
  BY <1>1, <1>2 DEF Image

-----------------------------------------------------------------------------
(* What the steps that could fail do.                                       *)

LEMMA CheckStep ==
  ASSUME IInv, NEW t \in Thread, CheckLmatBlur(t)
  PROVE  /\ pc[t] = "scan" /\ num_filter[t] \in Blur /\ scan[t] \in Image /\ UNCHANGED failed
         /\ IF MayTake(BlurOf(t), scan[t])
            THEN /\ chosen' = [chosen EXCEPT ![t] = scan[t]]
                 /\ can_i_take_c' = [can_i_take_c EXCEPT ![BlurOf(t)][scan[t]] = @ + 1]
                 /\ pc' = [pc EXCEPT ![t] = "repost"]
            ELSE /\ scan' = [scan EXCEPT ![t] = @ + 1]
                 /\ UNCHANGED <<pc, chosen, can_i_take_c>>
         /\ UNCHANGED <<paquet, buffers, applied, full, empty, to_pass, mat_blur,
                        can_copi, can_i_take_c_mutex, copying, buf_mutex, joined>>
PROOF
<1>1. pc[t] = "scan"
  BY DEF CheckLmatBlur, At
<1>2. scan[t] \in Image
  BY <1>1, ScanInside
<1>3. num_filter[t] \in Blur
  BY <1>1, ThreadRows DEF IInv, Known, TypeInv, Control, BlurSteps
<1>4. QED
  BY <1>1, <1>2, <1>3 DEF CheckLmatBlur, Goto

LEMMA TakeStep ==
  ASSUME IInv, NEW t \in Thread, Take(t)
  PROVE  /\ pc[t] = "take" /\ pc' = [pc EXCEPT ![t] = "apply"]
         /\ \E s \in Slot :
              /\ mat_buf[num_filter[t]][s] \in Packet
              /\ num_filter[t] \in Blur => num_img(mat_buf[num_filter[t]][s]) = chosen[t]
              /\ paquet' = [paquet EXCEPT ![t] = mat_buf[num_filter[t]][s]]
              /\ mat_buf' = [mat_buf EXCEPT ![num_filter[t]][s] = None]
         /\ empty' = [empty EXCEPT ![num_filter[t]] = @ + 1]
         /\ UNCHANGED <<failed, scan, chosen, read_only, applied, full, to_pass, choice,
                        copying, buf_mutex, joined>>
PROOF
<1> DEFINE r == num_filter[t]
<1>1. pc[t] = "take"
  BY DEF Take, At
<1>2. Wanted(t, r) # {}
  BY <1>1, TakeFinds
<1>3. PICK s \in Slot : s \in Wanted(t, r) /\ TakeSlot(t, r, s)
  BY <1>2 DEF Take, IsFirst
<1>4. mat_buf[r][s] \in Packet
  BY <1>3, ThreadRows DEF Wanted, SlotsOf, IInv, Known, TypeInv, TypeOK
<1>5. r \in Blur => num_img(mat_buf[r][s]) = chosen[t]
  <2>1. SUFFICES ASSUME r \in Blur PROVE num_img(mat_buf[r][s]) = chosen[t]
    OBVIOUS
  <2>2. chosen[t] \in Image
    BY <1>1, <2>1, GivenThread DEF GivenSteps
  <2>3. chosen[t] # None
    BY <2>2, ConstantsAssumption DEF ConstantsAssumption
  <2>4. QED
    BY <1>3, <2>3 DEF Wanted, SlotsOf
<1>6. QED
  BY <1>1, <1>2, <1>3, <1>4, <1>5 DEF Take, TakeSlot, Goto

LEMMA InsertStep ==
  ASSUME IInv, NEW t \in Thread, Insert(t) \/ InsertBlurred(t)
  PROVE  /\ pc[t] = "insert" /\ pc' = [pc EXCEPT ![t] = "postFull"]
         /\ \E s \in Slot : /\ mat_buf[OutRow(t)][s] = None
                            /\ mat_buf' = [mat_buf EXCEPT ![OutRow(t)][s] = paquet[t]]
         /\ paquet[t] \in Packet
         /\ UNCHANGED <<failed, local, applied, full, empty, to_pass, choice,
                        copi_is_done, copi_is_done_mutex, content, buf_mutex, joined>>
PROOF
<1>1. pc[t] = "insert" /\ InsertElem(t)
  BY DEF Insert, InsertBlurred, At
<1>2. PICK q \in Slot : mat_buf[OutRow(t)][q] = None
  BY <1>1, InsertFinds
<1> DEFINE free == {s \in Slot : mat_buf[OutRow(t)][s] = None}
<1>3. free # {}
  BY <1>2
<1>4. /\ pc' = [pc EXCEPT ![t] = "postFull"] /\ UNCHANGED failed
      /\ \E s \in Slot : s \in free /\ mat_buf' = [mat_buf EXCEPT ![OutRow(t)][s] = paquet[t]]
  BY <1>1, <1>3 DEF InsertElem, Goto, IsFirst
<1>5. paquet[t] \in Packet
  BY <1>1 DEF IInv, Known, TypeInv, Control, Carrying
<1>6. QED
  BY <1>1, <1>4, <1>5 DEF Insert, InsertBlurred, copying, choice

\* No step of a thread calls error() or joins.
LEMMA StepKeeps ==
  ASSUME IInv, NEW t \in Thread, ThreadStep(t)
  PROVE  UNCHANGED <<failed, joined>>
PROOF
<1>1. CASE ExitLoop(t) \/ Pass(t) \/ WaitCanCopi(t) \/ LockTake(t) \/ Repost(t)
  BY <1>1 DEF ExitLoop, Pass, WaitCanCopi, LockTake, Repost
<1>2. CASE CheckLmatBlur(t)
  BY <1>2, CheckStep
<1>3. CASE CopiAlreadyDone(t) \/ LockCopi(t) \/ LockBuf(t) \/ EndCopi(t)
  BY <1>3 DEF CopiAlreadyDone, LockCopi, LockBuf, EndCopi
<1>4. CASE WaitFull(t) \/ EndApply(t) \/ WaitEmpty(t)
  BY <1>4 DEF WaitFull, EndApply, WaitEmpty
<1>5. CASE Take(t)
  BY <1>5, TakeStep
<1>6. CASE Insert(t) \/ InsertBlurred(t)
  BY <1>6, InsertStep
<1>7. CASE PostFull(t) \/ BeforeBlur(t)
  BY <1>7 DEF PostFull, BeforeBlur
<1>8. QED
  BY <1>1, <1>2, <1>3, <1>4, <1>5, <1>6, <1>7 DEF ThreadStep

-----------------------------------------------------------------------------
(* full and empty count the slots.                                          *)

\* A row that gains or loses the packet of one slot.
LEMMA RowMoves ==
  ASSUME NEW r \in Row, NEW s \in Slot,
         \A q \in Row, m \in Slot : q # r \/ m # s => mat_buf'[q][m] = mat_buf[q][m]
  PROVE  \A q \in Row :
           /\ Cardinality(PacketsIn(q)) \in Nat /\ Cardinality(PacketsIn(q)') \in Nat
           /\ Cardinality(PacketsIn(q)')
                + (IF q = r /\ mat_buf[r][s] # None THEN 1 ELSE 0)
              = Cardinality(PacketsIn(q)) + (IF q = r /\ mat_buf'[r][s] # None THEN 1 ELSE 0)
PROOF
<1>2. SUFFICES ASSUME NEW q \in Row
      PROVE  /\ Cardinality(PacketsIn(q)) \in Nat /\ Cardinality(PacketsIn(q)') \in Nat
             /\ Cardinality(PacketsIn(q)')
                  + (IF q = r /\ mat_buf[r][s] # None THEN 1 ELSE 0)
                = Cardinality(PacketsIn(q)) + (IF q = r /\ mat_buf'[r][s] # None THEN 1 ELSE 0)
  OBVIOUS
<1>3. IsFiniteSet(PacketsIn(q))
  BY FiniteParts, FS_Subset DEF PacketsIn
<1>4. CASE q = r
  <2>1. PacketsIn(q) \ {s} = PacketsIn(q)' \ {s}
    BY <1>4 DEF PacketsIn
  <2>2. (s \in PacketsIn(q) <=> mat_buf[r][s] # None) /\ (s \in PacketsIn(q)' <=> mat_buf'[r][s] # None)
    BY <1>4 DEF PacketsIn
  <2>3. QED
    BY <1>3, <1>4, <2>1, <2>2, OneDiffers
<1>5. CASE q # r
  <2>1. PacketsIn(q)' = PacketsIn(q)
    BY <1>5 DEF PacketsIn
  <2>2. QED
    BY <1>3, <1>5, <2>1, FS_CardinalityType
<1>6. QED
  BY <1>4, <1>5

LEMMA StepRows ==
  ASSUME IInv, NEW t \in Thread, ThreadStep(t)
  PROVE  RowsCounted'
PROOF
<1> DEFINE n == num_filter[t]
<1>1. OthersStay(t) /\ n \in Nat /\ n \in Row /\ OutRow(t) = n + 1 /\ OutRow(t) \in Row
  BY StepOthersStay, ThreadRows DEF IInv, Known
<1>2. /\ pc \in [Thread -> PC] /\ full \in [Row -> Nat] /\ empty \in [Row -> Nat]
      /\ mat_buf \in [Row -> [Slot -> Packet \cup {None}]] /\ None \notin Packet
  BY ConstantsAssumption DEF IInv, Known, TypeInv, TypeOK, ConstantsAssumption
<1>3. SUFFICES ASSUME NEW r \in Row
      PROVE  /\ full'[r] + Cardinality(Of(r, {"take"})') + Cardinality(Of(r - 1, {"postFull"})')
                  = Cardinality(PacketsIn(r)')
             /\ empty'[r] + Cardinality(Of(r - 1, {"insert"})') = NPACK - Cardinality(PacketsIn(r)')
  BY DEF RowsCounted
<1>0. n = r - 1 <=> r = OutRow(t)
  BY <1>1, ConstantsAssumption DEF Row, ConstantsAssumption
<1>4. /\ Cardinality(Of(r, {"take"})) \in Nat /\ Cardinality(Of(r, {"take"})') \in Nat
      /\ Cardinality(Of(r, {"take"})') + (IF n = r /\ pc[t] = "take" THEN 1 ELSE 0)
           = Cardinality(Of(r, {"take"})) + (IF n = r /\ pc'[t] = "take" THEN 1 ELSE 0)
  BY <1>1, OfMoves
<1>5. /\ Cardinality(Of(r - 1, {"postFull"})) \in Nat /\ Cardinality(Of(r - 1, {"postFull"})') \in Nat
      /\ Cardinality(Of(r - 1, {"postFull"})') + (IF r = OutRow(t) /\ pc[t] = "postFull" THEN 1 ELSE 0)
           = Cardinality(Of(r - 1, {"postFull"})) + (IF r = OutRow(t) /\ pc'[t] = "postFull" THEN 1 ELSE 0)
  BY <1>0, <1>1, OfMoves
<1>6. /\ Cardinality(Of(r - 1, {"insert"})) \in Nat /\ Cardinality(Of(r - 1, {"insert"})') \in Nat
      /\ Cardinality(Of(r - 1, {"insert"})') + (IF r = OutRow(t) /\ pc[t] = "insert" THEN 1 ELSE 0)
           = Cardinality(Of(r - 1, {"insert"})) + (IF r = OutRow(t) /\ pc'[t] = "insert" THEN 1 ELSE 0)
  BY <1>0, <1>1, OfMoves
<1>7. Cardinality(PacketsIn(r)) \in Nat /\ (UNCHANGED mat_buf => PacketsIn(r)' = PacketsIn(r))
  BY FiniteParts, WholeSet DEF PacketsIn
<1>8. /\ full[r] + Cardinality(Of(r, {"take"})) + Cardinality(Of(r - 1, {"postFull"}))
           = Cardinality(PacketsIn(r))
      /\ empty[r] + Cardinality(Of(r - 1, {"insert"})) = NPACK - Cardinality(PacketsIn(r))
      /\ NPACK \in Nat /\ r \in Nat
  BY <1>1, FiniteParts, ConstantsAssumption DEF IInv, RowsCounted, Row, ConstantsAssumption
<1>9. full[r] \in Nat /\ empty[r] \in Nat
  BY <1>2
<1>10. CASE /\ UNCHANGED <<full, empty, mat_buf>>
            /\ pc[t] \notin {"take", "postFull", "insert"}
            /\ pc'[t] \notin {"take", "postFull", "insert"}
  <2>1. full'[r] = full[r] /\ empty'[r] = empty[r] /\ PacketsIn(r)' = PacketsIn(r)
    BY <1>7, <1>10
  <2>2. pc[t] # "take" /\ pc'[t] # "take" /\ pc[t] # "postFull" /\ pc'[t] # "postFull"
        /\ pc[t] # "insert" /\ pc'[t] # "insert"
    BY <1>10
  <2>3. QED
    BY <1>4, <1>5, <1>6, <1>7, <1>8, <2>1, <2>2
<1>11. CASE ExitLoop(t) \/ Pass(t) \/ WaitCanCopi(t) \/ LockTake(t) \/ Repost(t)
  BY <1>2, <1>10, <1>11 DEF ExitLoop, Pass, WaitCanCopi, LockTake, Repost, At, Goto, buffers
<1>12. CASE CheckLmatBlur(t)
  BY <1>2, <1>10, <1>12, CheckStep DEF buffers
<1>13. CASE CopiAlreadyDone(t) \/ LockCopi(t) \/ LockBuf(t) \/ EndCopi(t)
  BY <1>2, <1>10, <1>13 DEF CopiAlreadyDone, LockCopi, LockBuf, EndCopi, At, Goto, buffers
<1>14. CASE EndApply(t) \/ BeforeBlur(t)
  BY <1>2, <1>10, <1>14 DEF EndApply, BeforeBlur, EndPass, At, Goto, buffers
<1>15. CASE WaitFull(t)
  <2>1. pc[t] = "waitFull" /\ pc'[t] = "take" /\ UNCHANGED <<empty, mat_buf>>
        /\ full'[r] = IF r = n THEN full[r] - 1 ELSE full[r]
    BY <1>1, <1>2, <1>15 DEF WaitFull, At, Goto, buffers
  <2>2. PacketsIn(r)' = PacketsIn(r) /\ empty'[r] = empty[r]
    BY <1>7, <2>1
  <2>3. full'[r] + Cardinality(Of(r, {"take"})') + Cardinality(Of(r - 1, {"postFull"})')
          = Cardinality(PacketsIn(r)')
    BY <1>4, <1>5, <1>7, <1>8, <1>9, <2>1, <2>2
  <2>4. empty'[r] + Cardinality(Of(r - 1, {"insert"})') = NPACK - Cardinality(PacketsIn(r)')
    BY <1>6, <1>7, <1>8, <1>9, <2>1, <2>2
  <2>5. QED
    BY <2>3, <2>4
<1>16. CASE Take(t)
  <2>1. pc[t] = "take" /\ pc'[t] = "apply" /\ UNCHANGED full
        /\ empty'[r] = IF r = n THEN empty[r] + 1 ELSE empty[r]
    BY <1>1, <1>2, <1>16, TakeStep
  <2>2. Cardinality(PacketsIn(r)') = Cardinality(PacketsIn(r)) - (IF r = n THEN 1 ELSE 0)
    <3>1. PICK s \in Slot : mat_buf[n][s] \in Packet /\ mat_buf' = [mat_buf EXCEPT ![n][s] = None]
      BY <1>16, TakeStep
    <3>2. /\ \A q \in Row, m \in Slot : q # n \/ m # s => mat_buf'[q][m] = mat_buf[q][m]
          /\ mat_buf'[n][s] = None /\ mat_buf[n][s] # None
      BY <1>1, <1>2, <3>1
    <3>3. /\ Cardinality(PacketsIn(r)') \in Nat
          /\ Cardinality(PacketsIn(r)') + (IF r = n /\ mat_buf[n][s] # None THEN 1 ELSE 0)
               = Cardinality(PacketsIn(r)) + (IF r = n /\ mat_buf'[n][s] # None THEN 1 ELSE 0)
      BY <1>1, <3>2, RowMoves
    <3>4. QED
      BY <1>7, <3>2, <3>3
  <2>3. full'[r] + Cardinality(Of(r, {"take"})') + Cardinality(Of(r - 1, {"postFull"})')
          = Cardinality(PacketsIn(r)')
    BY <1>4, <1>5, <1>7, <1>8, <1>9, <2>1, <2>2
  <2>4. empty'[r] + Cardinality(Of(r - 1, {"insert"})') = NPACK - Cardinality(PacketsIn(r)')
    BY <1>6, <1>7, <1>8, <1>9, <2>1, <2>2
  <2>5. QED
    BY <2>3, <2>4
<1>17. CASE WaitEmpty(t)
  <2>1. pc[t] = "waitEmpty" /\ pc'[t] = "insert" /\ UNCHANGED <<full, mat_buf>>
        /\ empty'[r] = IF r = OutRow(t) THEN empty[r] - 1 ELSE empty[r]
    BY <1>1, <1>2, <1>17 DEF WaitEmpty, At, Goto, buffers
  <2>2. PacketsIn(r)' = PacketsIn(r) /\ full'[r] = full[r]
    BY <1>7, <2>1
  <2>3. full'[r] + Cardinality(Of(r, {"take"})') + Cardinality(Of(r - 1, {"postFull"})')
          = Cardinality(PacketsIn(r)')
    BY <1>4, <1>5, <1>7, <1>8, <1>9, <2>1, <2>2
  <2>4. empty'[r] + Cardinality(Of(r - 1, {"insert"})') = NPACK - Cardinality(PacketsIn(r)')
    BY <1>6, <1>7, <1>8, <1>9, <2>1, <2>2
  <2>5. QED
    BY <2>3, <2>4
<1>18. CASE Insert(t) \/ InsertBlurred(t)
  <2>1. pc[t] = "insert" /\ pc'[t] = "postFull" /\ UNCHANGED <<full, empty>>
    BY <1>2, <1>18, InsertStep
  <2>2. Cardinality(PacketsIn(r)') = Cardinality(PacketsIn(r)) + (IF r = OutRow(t) THEN 1 ELSE 0)
    <3>1. PICK s \in Slot : /\ mat_buf[OutRow(t)][s] = None /\ paquet[t] \in Packet
                            /\ mat_buf' = [mat_buf EXCEPT ![OutRow(t)][s] = paquet[t]]
      BY <1>1, <1>18, InsertStep
    <3>0. OutRow(t) \in Row
      BY <1>1
    <3>2. /\ \A q \in Row, m \in Slot : q # OutRow(t) \/ m # s => mat_buf'[q][m] = mat_buf[q][m]
          /\ mat_buf'[OutRow(t)][s] # None /\ mat_buf[OutRow(t)][s] = None
      BY <1>2, <3>0, <3>1
    <3>3. /\ Cardinality(PacketsIn(r)') \in Nat
          /\ Cardinality(PacketsIn(r)') + (IF r = OutRow(t) /\ mat_buf[OutRow(t)][s] # None THEN 1 ELSE 0)
               = Cardinality(PacketsIn(r)) + (IF r = OutRow(t) /\ mat_buf'[OutRow(t)][s] # None THEN 1 ELSE 0)
      BY <3>0, <3>2, RowMoves
    <3>4. QED
      BY <1>7, <3>2, <3>3
  <2>3. full'[r] + Cardinality(Of(r, {"take"})') + Cardinality(Of(r - 1, {"postFull"})')
          = Cardinality(PacketsIn(r)')
    BY <1>4, <1>5, <1>7, <1>8, <1>9, <2>1, <2>2
  <2>4. empty'[r] + Cardinality(Of(r - 1, {"insert"})') = NPACK - Cardinality(PacketsIn(r)')
    BY <1>6, <1>7, <1>8, <1>9, <2>1, <2>2
  <2>5. QED
    BY <2>3, <2>4
<1>19. CASE PostFull(t)
  <2>1. pc[t] = "postFull" /\ pc'[t] \in {"beforeBlur", "top"} /\ UNCHANGED <<empty, mat_buf>>
        /\ full'[r] = IF r = OutRow(t) THEN full[r] + 1 ELSE full[r]
    BY <1>1, <1>2, <1>19 DEF PostFull, EndPass, RowToPost, At, Goto, buffers
  <2>2. PacketsIn(r)' = PacketsIn(r) /\ empty'[r] = empty[r]
    BY <1>7, <2>1
  <2>3. full'[r] + Cardinality(Of(r, {"take"})') + Cardinality(Of(r - 1, {"postFull"})')
          = Cardinality(PacketsIn(r)')
    BY <1>4, <1>5, <1>7, <1>8, <1>9, <2>1, <2>2
  <2>4. empty'[r] + Cardinality(Of(r - 1, {"insert"})') = NPACK - Cardinality(PacketsIn(r)')
    BY <1>6, <1>7, <1>8, <1>9, <2>1, <2>2
  <2>5. QED
    BY <2>3, <2>4
<1>20. QED
  BY <1>11, <1>12, <1>13, <1>14, <1>15, <1>16, <1>17, <1>18, <1>19 DEF ThreadStep

-----------------------------------------------------------------------------
(* The locals and the counts of packets.                                    *)

LEMMA StepLocals ==
  ASSUME IInv, NEW t \in Thread, ThreadStep(t)
  PROVE  Locals'
PROOF
<1>1. /\ pc \in [Thread -> PC] /\ chosen \in [Thread -> Image \cup {None}]
      /\ paquet \in [Thread -> Packet \cup {None}]
  BY DEF IInv, Known, TypeInv, TypeOK
<1>2. SUFFICES /\ isblur(t) = 0 => chosen'[t] = None
               /\ isblur(t) # 0 /\ pc'[t] \in Carrying => num_img(paquet'[t]) = chosen'[t]
  BY StepOthersStay DEF IInv, Known, Locals, OthersStay, isblur
<1>3. /\ isblur(t) = 0 => chosen[t] = None
      /\ isblur(t) # 0 /\ pc[t] \in Carrying => num_img(paquet[t]) = chosen[t]
  BY DEF IInv, Locals
<1>4. CASE /\ chosen'[t] = chosen[t] /\ paquet'[t] = paquet[t]
           /\ pc'[t] \in Carrying => pc[t] \in Carrying
  BY <1>3, <1>4
<1> USE DEF Goto, At, local
<1>5. CASE ExitLoop(t) \/ Pass(t) \/ WaitCanCopi(t) \/ LockTake(t) \/ Repost(t)
  BY <1>1, <1>4, <1>5 DEF ExitLoop, Pass, WaitCanCopi, LockTake, Repost, Carrying
<1>6. CASE CheckLmatBlur(t)
  <2>1. isblur(t) # 0
    BY <1>6, CheckStep, ThreadRows
  <2>2. CASE MayTake(BlurOf(t), scan[t])
    <3>1. pc'[t] = "repost"
      BY <1>1, <1>6, <2>2, CheckStep
    <3>2. QED
      BY <2>1, <3>1 DEF Carrying
  <2>3. CASE ~MayTake(BlurOf(t), scan[t])
    BY <1>4, <1>6, <2>3, CheckStep
  <2>4. QED
    BY <2>2, <2>3
<1>7. CASE CopiAlreadyDone(t) \/ LockCopi(t) \/ LockBuf(t) \/ EndCopi(t)
  BY <1>1, <1>4, <1>7 DEF CopiAlreadyDone, LockCopi, LockBuf, EndCopi, Carrying
<1>8. CASE WaitFull(t) \/ EndApply(t) \/ WaitEmpty(t)
  BY <1>1, <1>4, <1>8 DEF WaitFull, EndApply, WaitEmpty, Carrying
<1>9. CASE Take(t)
  BY <1>1, <1>3, <1>9, TakeStep, ThreadRows
<1>10. CASE Insert(t) \/ InsertBlurred(t)
  BY <1>1, <1>4, <1>10, InsertStep DEF Carrying
<1>11. CASE PostFull(t) \/ BeforeBlur(t)
  <2>1. CASE EndPass(t)
    BY <1>1, <2>1 DEF EndPass, Carrying
  <2>2. CASE ~EndPass(t)
    BY <1>1, <1>4, <1>11, <2>2 DEF PostFull, BeforeBlur, Carrying
  <2>3. QED
    BY <2>1, <2>2
<1>12. QED
  BY <1>5, <1>6, <1>7, <1>8, <1>9, <1>10, <1>11 DEF ThreadStep

LEMMA StepPasses ==
  ASSUME IInv, NEW t \in Thread, ThreadStep(t)
  PROVE  PassesCounted'
PROOF
<1> DEFINE n == num_filter[t]
<1>1. OthersStay(t) /\ n \in Filter
  BY StepOthersStay, ThreadRows DEF IInv, Known
<1>2. pc \in [Thread -> PC] /\ to_pass \in [Filter -> Nat]
  BY DEF IInv, Known, TypeInv, TypeOK
<1>3. SUFFICES ASSUME NEW f \in Filter
      PROVE  to_pass'[f] = Cardinality(Of(f, PassSteps)') + Cardinality(AllPast(f)')
  BY DEF PassesCounted
<1>4. /\ Cardinality(Of(f, PassSteps)) \in Nat /\ Cardinality(Of(f, PassSteps)') \in Nat
      /\ Cardinality(Of(f, PassSteps)') + (IF n = f /\ pc[t] \in PassSteps THEN 1 ELSE 0)
           = Cardinality(Of(f, PassSteps)) + (IF n = f /\ pc'[t] \in PassSteps THEN 1 ELSE 0)
  BY <1>1, OfMoves
<1>5. /\ to_pass[f] = Cardinality(Of(f, PassSteps)) + Cardinality(AllPast(f))
      /\ to_pass[f] \in Nat /\ f \in Int
  BY <1>2, ConstantsAssumption DEF IInv, PassesCounted, Filter, ConstantsAssumption
<1>6. UNCHANGED applied => AllPast(f)' = AllPast(f)
  BY DEF AllPast
<1>7. Cardinality(AllPast(f)) \in Nat
  BY <1>5, FiniteParts, WholeSet DEF AllPast
<1>8. CASE /\ UNCHANGED <<applied, to_pass>>
           /\ pc'[t] \in PassSteps <=> pc[t] \in PassSteps
  <2>1. AllPast(f)' = AllPast(f) /\ to_pass'[f] = to_pass[f]
    BY <1>6, <1>8
  <2>2. QED
    BY <1>4, <1>5, <1>7, <1>8, <2>1
<1> USE DEF Goto, At
<1>9. CASE ExitLoop(t) \/ WaitCanCopi(t) \/ LockTake(t) \/ Repost(t)
  BY <1>2, <1>8, <1>9 DEF ExitLoop, WaitCanCopi, LockTake, Repost, PassSteps, GivenSteps
<1>10. CASE Pass(t)
  <2>1. pc[t] = "top" /\ pc'[t] \in PassSteps /\ UNCHANGED applied
        /\ to_pass'[f] = IF f = n THEN to_pass[f] + 1 ELSE to_pass[f]
    BY <1>1, <1>2, <1>10 DEF Pass, PassSteps, GivenSteps
  <2>2. AllPast(f)' = AllPast(f) /\ pc[t] \notin PassSteps
    BY <1>6, <2>1 DEF PassSteps, GivenSteps
  <2>3. QED
    BY <1>4, <1>5, <1>7, <2>1, <2>2
<1>11. CASE CheckLmatBlur(t)
  BY <1>2, <1>8, <1>11, CheckStep DEF PassSteps, GivenSteps
<1>12. CASE CopiAlreadyDone(t) \/ LockCopi(t) \/ LockBuf(t) \/ EndCopi(t)
  BY <1>2, <1>8, <1>12 DEF CopiAlreadyDone, LockCopi, LockBuf, EndCopi, PassSteps, GivenSteps
<1>13. CASE WaitFull(t) \/ WaitEmpty(t)
  BY <1>2, <1>8, <1>13 DEF WaitFull, WaitEmpty, PassSteps, GivenSteps
<1>14. CASE Take(t)
  BY <1>2, <1>8, <1>14, TakeStep DEF PassSteps, GivenSteps
<1>15. CASE EndApply(t)
  <2>1. pc[t] = "apply" /\ pc'[t] = "waitEmpty" /\ UNCHANGED to_pass
    BY <1>2, <1>15 DEF EndApply
  <2>2. pc[t] \in PassSteps /\ pc'[t] \notin PassSteps
    BY <2>1 DEF PassSteps, GivenSteps
  <2>3. Cardinality(AllPast(f)') = Cardinality(AllPast(f)) + (IF f = n THEN 1 ELSE 0)
    <3>1. num_img(paquet[t]) \in Image
      BY <1>15, ApplyMoves DEF IInv, Known
    <3>2. QED
      BY <1>5, <1>15, <3>1, ApplyMoves DEF IInv, Known
  <2>4. QED
    BY <1>4, <1>5, <1>7, <2>1, <2>2, <2>3
<1>16. CASE Insert(t) \/ InsertBlurred(t)
  BY <1>2, <1>8, <1>16, InsertStep DEF PassSteps, GivenSteps
<1>17. CASE PostFull(t) \/ BeforeBlur(t)
  BY <1>2, <1>8, <1>17 DEF PostFull, BeforeBlur, EndPass, PassSteps, GivenSteps
<1>18. QED
  BY <1>9, <1>10, <1>11, <1>12, <1>13, <1>14, <1>15, <1>16, <1>17 DEF ThreadStep

LEMMA StepArrivals ==
  ASSUME IInv, NEW t \in Thread, ThreadStep(t)
  PROVE  ArrivalsCounted'
PROOF
<1> DEFINE n == num_filter[t]
<1>1. OthersStay(t) /\ n \in Nat
  BY StepOthersStay, ThreadRows DEF IInv, Known
<1>2. /\ pc \in [Thread -> PC] /\ mat_blur \in [BlurRow -> [Image -> Nat]]
      /\ paquet \in [Thread -> Packet \cup {None}]
  BY DEF IInv, Known, TypeInv, TypeOK
<1>3. SUFFICES ASSUME NEW f \in Blur, NEW i \in Image
      PROVE  mat_blur'[BlurNo(f)][i] + Cardinality(Carry(f - 1, LeavingSteps, i)')
               = Cardinality(Past(f - 1, i)')
  <2>1. \A f \in Blur : BlurNo(f)' = BlurNo(f)
    BY DEF BlurNo
  <2>2. QED
    BY <1>3, <2>1 DEF ArrivalsCounted
<1>4. /\ Cardinality(Carry(f - 1, LeavingSteps, i)) \in Nat
      /\ Cardinality(Carry(f - 1, LeavingSteps, i)') \in Nat
      /\ Cardinality(Carry(f - 1, LeavingSteps, i)')
           + (IF n = f - 1 /\ pc[t] \in LeavingSteps /\ num_img(paquet[t]) = i THEN 1 ELSE 0)
           = Cardinality(Carry(f - 1, LeavingSteps, i))
           + (IF n = f - 1 /\ pc'[t] \in LeavingSteps /\ num_img(paquet'[t]) = i THEN 1 ELSE 0)
  BY <1>1, CarryMoves
<1>5. /\ mat_blur[BlurNo(f)][i] + Cardinality(Carry(f - 1, LeavingSteps, i))
           = Cardinality(Past(f - 1, i))
      /\ mat_blur[BlurNo(f)][i] \in Nat /\ f \in Nat /\ f - 1 \in Int /\ BlurNo(f) \in BlurRow
  BY <1>2, BlurRows, ConstantsAssumption DEF IInv, ArrivalsCounted, Filter, ConstantsAssumption
<1>6. UNCHANGED applied => Past(f - 1, i)' = Past(f - 1, i)
  BY DEF Past
<1>7. Cardinality(Past(f - 1, i)) \in Nat
  BY <1>5, PastSizes DEF IInv, Known
<1>8. CASE /\ UNCHANGED <<applied, mat_blur>>
           /\ \/ pc[t] \notin LeavingSteps /\ pc'[t] \notin LeavingSteps
              \/ pc[t] \in LeavingSteps /\ pc'[t] \in LeavingSteps /\ paquet'[t] = paquet[t]
              \/ n # f - 1
  <2>1. Past(f - 1, i)' = Past(f - 1, i) /\ mat_blur'[BlurNo(f)][i] = mat_blur[BlurNo(f)][i]
    BY <1>6, <1>8
  <2>2. QED
    BY <1>4, <1>5, <1>7, <1>8, <2>1
<1> USE DEF Goto, At
<1>9. CASE ExitLoop(t) \/ Pass(t) \/ WaitCanCopi(t) \/ LockTake(t) \/ Repost(t)
  BY <1>2, <1>8, <1>9 DEF ExitLoop, Pass, WaitCanCopi, LockTake, Repost, choice, LeavingSteps
<1>10. CASE CheckLmatBlur(t)
  BY <1>2, <1>8, <1>10, CheckStep DEF LeavingSteps
<1>11. CASE CopiAlreadyDone(t) \/ LockCopi(t) \/ LockBuf(t) \/ EndCopi(t)
  BY <1>2, <1>8, <1>11 DEF CopiAlreadyDone, LockCopi, LockBuf, EndCopi, choice, LeavingSteps
<1>12. CASE WaitFull(t) \/ WaitEmpty(t)
  BY <1>2, <1>8, <1>12 DEF WaitFull, WaitEmpty, choice, local, LeavingSteps
<1>13. CASE Take(t)
  BY <1>2, <1>8, <1>13, TakeStep DEF choice, LeavingSteps
<1>14. CASE EndApply(t)
  <2>1. pc[t] = "apply" /\ pc'[t] = "waitEmpty" /\ UNCHANGED <<mat_blur, paquet>>
    BY <1>2, <1>14 DEF EndApply, choice, local
  <2>2. pc[t] \notin LeavingSteps /\ pc'[t] \in LeavingSteps /\ paquet'[t] = paquet[t]
        /\ mat_blur'[BlurNo(f)][i] = mat_blur[BlurNo(f)][i]
    BY <2>1 DEF LeavingSteps
  <2>3. Cardinality(Past(f - 1, i)') = Cardinality(Past(f - 1, i))
          + (IF f - 1 = n /\ i = num_img(paquet[t]) THEN 1 ELSE 0)
    BY <1>5, <1>14, ApplyMoves DEF IInv, Known
  <2>4. QED
    BY <1>4, <1>5, <1>7, <2>2, <2>3
<1>15. CASE Insert(t) \/ InsertBlurred(t)
  BY <1>2, <1>8, <1>15, InsertStep DEF choice, local, LeavingSteps
<1>16. CASE PostFull(t)
  <2>1. CASE n + 1 \in Blur
    <3>1. f_beforeblur[n] # 0
      BY <2>1, ThreadRows
    <3>2. QED
      BY <1>2, <1>8, <1>16, <3>1 DEF PostFull, choice, LeavingSteps
  <2>2. CASE n + 1 \notin Blur
    <3>1. n # f - 1
      BY <1>1, <1>5, <2>2
    <3>2. QED
      BY <1>8, <1>16, <3>1 DEF PostFull, choice
  <2>3. QED
    BY <2>1, <2>2
<1>17. CASE BeforeBlur(t)
  <2> DEFINE c == num_img(paquet[t])
  <2>1. pc[t] = "beforeBlur" /\ pc'[t] = "top" /\ UNCHANGED applied
        /\ mat_blur' = [mat_blur EXCEPT ![NextBlur(t)][c] = @ + 1]
    BY <1>2, <1>17 DEF BeforeBlur, EndPass
  <2>2. n + 1 \in Blur /\ NextBlur(t) = BlurNo(n + 1) /\ NextBlur(t) \in BlurRow
    BY <2>1, ThreadRows, BlurRows DEF IInv, Known, TypeInv, Control
  <2>3. BlurNo(f) = NextBlur(t) <=> n = f - 1
    <3>1. BlurNo(f) = BlurNo(n + 1) <=> f = n + 1
      BY <2>2, BlurRows
    <3>2. QED
      BY <1>1, <1>5, <2>2, <3>1
  <2>4. pc[t] \in LeavingSteps /\ pc'[t] \notin LeavingSteps /\ Past(f - 1, i)' = Past(f - 1, i)
    BY <1>6, <2>1 DEF LeavingSteps
  <2>5. mat_blur'[BlurNo(f)][i] = mat_blur[BlurNo(f)][i] + (IF n = f - 1 /\ c = i THEN 1 ELSE 0)
    BY <1>2, <1>5, <2>1, <2>2, <2>3
  <2>6. QED
    BY <1>4, <1>5, <1>7, <2>4, <2>5
<1>18. QED
  BY <1>9, <1>10, <1>11, <1>12, <1>13, <1>14, <1>15, <1>16, <1>17 DEF ThreadStep

LEMMA StepBlurred ==
  ASSUME IInv, NEW t \in Thread, ThreadStep(t)
  PROVE  BlurredCounted'
PROOF
<1> DEFINE n == num_filter[t]
<1>1. OthersStay(t) /\ n \in Nat
  BY StepOthersStay, ThreadRows DEF IInv, Known
<1>2. /\ pc \in [Thread -> PC] /\ choosen_c \in [BlurRow -> [Image -> Nat]]
      /\ chosen \in [Thread -> Image \cup {None}]
  BY DEF IInv, Known, TypeInv, TypeOK
<1>3. SUFFICES ASSUME NEW f \in Blur, NEW i \in Image
      PROVE  choosen_c'[BlurNo(f)][i] + Cardinality(Chose(f, InsertSteps, i)')
               = Cardinality(Past(f, i)')
  <2>1. \A f \in Blur : BlurNo(f)' = BlurNo(f)
    BY DEF BlurNo
  <2>2. QED
    BY <1>3, <2>1 DEF BlurredCounted
<1>4. /\ Cardinality(Chose(f, InsertSteps, i)) \in Nat
      /\ Cardinality(Chose(f, InsertSteps, i)') \in Nat
      /\ Cardinality(Chose(f, InsertSteps, i)')
           + (IF n = f /\ pc[t] \in InsertSteps /\ chosen[t] = i THEN 1 ELSE 0)
           = Cardinality(Chose(f, InsertSteps, i))
           + (IF n = f /\ pc'[t] \in InsertSteps /\ chosen'[t] = i THEN 1 ELSE 0)
  BY <1>1, ChoseMoves
<1>5. /\ choosen_c[BlurNo(f)][i] + Cardinality(Chose(f, InsertSteps, i)) = Cardinality(Past(f, i))
      /\ choosen_c[BlurNo(f)][i] \in Nat /\ f \in Int /\ BlurNo(f) \in BlurRow
  BY <1>2, BlurRows, ConstantsAssumption DEF IInv, BlurredCounted, Filter, ConstantsAssumption
<1>6. UNCHANGED applied => Past(f, i)' = Past(f, i)
  BY DEF Past
<1>7. Cardinality(Past(f, i)) \in Nat
  BY <1>5, PastSizes DEF IInv, Known
<1>8. CASE /\ UNCHANGED <<applied, choosen_c>>
           /\ \/ pc[t] \notin InsertSteps /\ pc'[t] \notin InsertSteps
              \/ pc[t] \in InsertSteps /\ pc'[t] \in InsertSteps /\ chosen'[t] = chosen[t]
              \/ n # f
  <2>1. Past(f, i)' = Past(f, i) /\ choosen_c'[BlurNo(f)][i] = choosen_c[BlurNo(f)][i]
    BY <1>6, <1>8
  <2>2. QED
    BY <1>4, <1>5, <1>7, <1>8, <2>1
<1> USE DEF Goto, At
<1>9. CASE ExitLoop(t) \/ Pass(t) \/ WaitCanCopi(t) \/ LockTake(t) \/ Repost(t)
  BY <1>2, <1>8, <1>9 DEF ExitLoop, Pass, WaitCanCopi, LockTake, Repost, copying, InsertSteps
<1>10. CASE CheckLmatBlur(t)
  BY <1>2, <1>8, <1>10, CheckStep DEF copying, InsertSteps
<1>11. CASE CopiAlreadyDone(t) \/ LockCopi(t) \/ LockBuf(t) \/ EndCopi(t)
  BY <1>2, <1>8, <1>11 DEF CopiAlreadyDone, LockCopi, LockBuf, EndCopi, copying, InsertSteps
<1>12. CASE WaitFull(t) \/ WaitEmpty(t)
  BY <1>2, <1>8, <1>12 DEF WaitFull, WaitEmpty, copying, local, InsertSteps
<1>13. CASE Take(t)
  BY <1>2, <1>8, <1>13, TakeStep DEF copying, InsertSteps
<1>14. CASE EndApply(t)
  <2>1. pc[t] = "apply" /\ pc'[t] = "waitEmpty" /\ UNCHANGED <<choosen_c, chosen>>
    BY <1>2, <1>14 DEF EndApply, copying, local
  <2>2. pc[t] \notin InsertSteps /\ pc'[t] \in InsertSteps /\ chosen'[t] = chosen[t]
        /\ choosen_c'[BlurNo(f)][i] = choosen_c[BlurNo(f)][i]
    BY <2>1 DEF InsertSteps
  <2>3. n = f => num_img(paquet[t]) = chosen[t]
    BY <2>1, ThreadRows DEF IInv, Locals, Carrying
  <2>4. Cardinality(Past(f, i)') = Cardinality(Past(f, i))
          + (IF f = n /\ i = num_img(paquet[t]) THEN 1 ELSE 0)
    BY <1>5, <1>14, ApplyMoves DEF IInv, Known
  <2>5. QED
    BY <1>4, <1>5, <1>7, <2>2, <2>3, <2>4
<1>15. CASE Insert(t)
  <2>1. n # f
    BY <1>15, ThreadRows DEF Insert
  <2>2. QED
    BY <1>8, <1>15, <2>1 DEF Insert, copying
<1>16. CASE InsertBlurred(t)
  <2>1. pc[t] = "insert" /\ pc'[t] = "postFull" /\ UNCHANGED applied
    BY <1>2, <1>16, InsertStep
  <2>2. n \in Blur /\ BlurOf(t) = BlurNo(n) /\ chosen[t] \in Image
    BY <1>16, <2>1, ThreadRows DEF InsertBlurred, IInv, Known, TypeInv, Control, Before
  <2>3. choosen_c' = [choosen_c EXCEPT ![BlurNo(n)][chosen[t]] = @ + 1]
    BY <1>16, <2>2 DEF InsertBlurred
  <2>4. choosen_c'[BlurNo(f)][i] = choosen_c[BlurNo(f)][i] + (IF n = f /\ chosen[t] = i THEN 1 ELSE 0)
    <3>1. BlurNo(f) = BlurNo(n) <=> n = f
      BY <2>2, BlurRows
    <3>2. QED
      BY <1>2, <1>5, <2>2, <2>3, <3>1
  <2>5. pc[t] \in InsertSteps /\ pc'[t] \notin InsertSteps /\ Past(f, i)' = Past(f, i)
    BY <1>6, <2>1 DEF InsertSteps
  <2>6. QED
    BY <1>4, <1>5, <1>7, <2>4, <2>5
<1>17. CASE PostFull(t) \/ BeforeBlur(t)
  BY <1>2, <1>8, <1>17 DEF PostFull, BeforeBlur, EndPass, copying, InsertSteps
<1>18. QED
  BY <1>9, <1>10, <1>11, <1>12, <1>13, <1>14, <1>15, <1>16, <1>17 DEF ThreadStep

-----------------------------------------------------------------------------
(* The choice of an image.                                                  *)

\* No packet of a complete image arrives any more.
LEMMA CompleteStays ==
  ASSUME IInv, NEW t \in Thread, ThreadStep(t), NEW f \in Blur, NEW i \in Image,
         mat_blur[BlurNo(f)][i] = PerImage
  PROVE  mat_blur'[BlurNo(f)][i] = PerImage
PROOF
<1>1. /\ mat_blur \in [BlurRow -> [Image -> Nat]] /\ BlurNo(f) \in BlurRow
      /\ num_filter[t] \in Nat /\ f \in Nat
  BY BlurRows, ThreadRows, ConstantsAssumption
  DEF IInv, Known, TypeInv, TypeOK, Filter, ConstantsAssumption
<1>2. CASE UNCHANGED mat_blur
  BY <1>2
<1>3. CASE BeforeBlur(t)
  <2>1. pc[t] = "beforeBlur" /\ mat_blur' = [mat_blur EXCEPT ![NextBlur(t)][num_img(paquet[t])] = @ + 1]
    BY <1>3 DEF BeforeBlur, At
  <2>2. num_filter[t] + 1 \in Blur /\ NextBlur(t) = BlurNo(num_filter[t] + 1)
    BY <2>1, ThreadRows DEF IInv, Known, TypeInv, Control
  <2>3. num_filter[t] = f - 1 => num_img(paquet[t]) # i
    BY <2>1, ImageComplete DEF IInv, LeavingSteps
  <2>4. f = num_filter[t] + 1 => num_filter[t] = f - 1
    BY <1>1
  <2>5. ~(BlurNo(f) = NextBlur(t) /\ num_img(paquet[t]) = i)
    BY <2>2, <2>3, <2>4, BlurRows
  <2>6. QED
    BY <1>1, <2>1, <2>5
<1>4. CASE ~BeforeBlur(t)
  <2>1. CASE ExitLoop(t) \/ Pass(t) \/ WaitCanCopi(t) \/ LockTake(t) \/ Repost(t)
    BY <1>2, <2>1 DEF ExitLoop, Pass, WaitCanCopi, LockTake, Repost, choice
  <2>2. CASE CheckLmatBlur(t)
    BY <1>2, <2>2, CheckStep
  <2>3. CASE CopiAlreadyDone(t) \/ LockCopi(t) \/ LockBuf(t) \/ EndCopi(t)
    BY <1>2, <2>3 DEF CopiAlreadyDone, LockCopi, LockBuf, EndCopi, choice
  <2>4. CASE WaitFull(t) \/ EndApply(t) \/ WaitEmpty(t) \/ PostFull(t) \/ Take(t)
    BY <1>2, <2>4 DEF WaitFull, EndApply, WaitEmpty, PostFull, Take, choice
  <2>5. CASE Insert(t) \/ InsertBlurred(t)
    BY <1>2, <2>5, InsertStep DEF choice
  <2>6. QED
    BY <1>4, <2>1, <2>2, <2>3, <2>4, <2>5 DEF ThreadStep
<1>5. QED
  BY <1>3, <1>4

\* Only check_lmat_blur changes can_i_take_c: it adds one for the image the
\* thread takes.
LEMMA GivenGrows ==
  ASSUME IInv, NEW t \in Thread, ThreadStep(t)
  PROVE  \/ UNCHANGED can_i_take_c
         \/ /\ CheckLmatBlur(t) /\ MayTake(BlurOf(t), scan[t])
            /\ \A f \in Blur, i \in Image :
                 can_i_take_c'[BlurNo(f)][i] = can_i_take_c[BlurNo(f)][i]
                   + (IF f = num_filter[t] /\ i = scan[t] THEN 1 ELSE 0)
PROOF
<1>1. CASE ExitLoop(t) \/ Pass(t) \/ WaitCanCopi(t) \/ LockTake(t) \/ Repost(t)
  BY <1>1 DEF ExitLoop, Pass, WaitCanCopi, LockTake, Repost, choice
<1>2. CASE CheckLmatBlur(t)
  <2>1. CASE ~MayTake(BlurOf(t), scan[t])
    BY <1>2, <2>1, CheckStep
  <2>2. CASE MayTake(BlurOf(t), scan[t])
    <3>1. /\ can_i_take_c' = [can_i_take_c EXCEPT ![BlurOf(t)][scan[t]] = @ + 1]
          /\ num_filter[t] \in Blur /\ BlurOf(t) = BlurNo(num_filter[t]) /\ scan[t] \in Image
      BY <1>2, <2>2, CheckStep, ThreadRows
    <3>2. can_i_take_c \in [BlurRow -> [Image -> Nat]]
      BY DEF IInv, Known, TypeInv, TypeOK
    <3>3. ASSUME NEW f \in Blur, NEW i \in Image
          PROVE  can_i_take_c'[BlurNo(f)][i] = can_i_take_c[BlurNo(f)][i]
                   + (IF f = num_filter[t] /\ i = scan[t] THEN 1 ELSE 0)
      <4>1. BlurNo(f) \in BlurRow /\ (BlurNo(f) = BlurNo(num_filter[t]) <=> f = num_filter[t])
        BY <3>1, BlurRows
      <4>2. QED
        BY <3>1, <3>2, <4>1
    <3>4. QED
      BY <1>2, <2>2, <3>3
  <2>3. QED
    BY <2>1, <2>2
<1>3. CASE CopiAlreadyDone(t) \/ LockCopi(t) \/ LockBuf(t) \/ EndCopi(t)
  BY <1>3 DEF CopiAlreadyDone, LockCopi, LockBuf, EndCopi, choice
<1>4. CASE WaitFull(t) \/ EndApply(t) \/ WaitEmpty(t) \/ PostFull(t) \/ Take(t)
  BY <1>4 DEF WaitFull, EndApply, WaitEmpty, PostFull, Take, choice
<1>5. CASE Insert(t) \/ InsertBlurred(t)
  BY <1>5, InsertStep DEF choice
<1>6. CASE BeforeBlur(t)
  BY <1>6 DEF BeforeBlur
<1>7. QED
  BY <1>1, <1>2, <1>3, <1>4, <1>5, <1>6 DEF ThreadStep

LEMMA StepGiven ==
  ASSUME IInv, NEW t \in Thread, ThreadStep(t)
  PROVE  GivenCounted'
PROOF
<1> DEFINE n == num_filter[t]
<1>1. OthersStay(t) /\ n \in Nat
  BY StepOthersStay, ThreadRows DEF IInv, Known
<1>2. /\ pc \in [Thread -> PC] /\ can_i_take_c \in [BlurRow -> [Image -> Nat]]
      /\ chosen \in [Thread -> Image \cup {None}] /\ mat_blur \in [BlurRow -> [Image -> Nat]]
  BY DEF IInv, Known, TypeInv, TypeOK
<1>3. SUFFICES ASSUME NEW f \in Blur, NEW i \in Image
      PROVE  /\ can_i_take_c'[BlurNo(f)][i]
                  = Cardinality(Chose(f, GivenSteps, i)') + Cardinality(Past(f, i)')
             /\ can_i_take_c'[BlurNo(f)][i] <= PerImage
             /\ can_i_take_c'[BlurNo(f)][i] > 0 => mat_blur'[BlurNo(f)][i] = PerImage
  <2>1. \A f \in Blur : BlurNo(f)' = BlurNo(f)
    BY DEF BlurNo
  <2>2. QED
    BY <1>3, <2>1 DEF GivenCounted
<1>4. /\ Cardinality(Chose(f, GivenSteps, i)) \in Nat
      /\ Cardinality(Chose(f, GivenSteps, i)') \in Nat
      /\ Cardinality(Chose(f, GivenSteps, i)')
           + (IF n = f /\ pc[t] \in GivenSteps /\ chosen[t] = i THEN 1 ELSE 0)
           = Cardinality(Chose(f, GivenSteps, i))
           + (IF n = f /\ pc'[t] \in GivenSteps /\ chosen'[t] = i THEN 1 ELSE 0)
  BY <1>1, ChoseMoves
<1>5. /\ can_i_take_c[BlurNo(f)][i] = Cardinality(Chose(f, GivenSteps, i)) + Cardinality(Past(f, i))
      /\ can_i_take_c[BlurNo(f)][i] <= PerImage
      /\ can_i_take_c[BlurNo(f)][i] > 0 => mat_blur[BlurNo(f)][i] = PerImage
      /\ can_i_take_c[BlurNo(f)][i] \in Nat /\ f \in Int /\ BlurNo(f) \in BlurRow
  BY <1>2, BlurRows, ConstantsAssumption DEF IInv, GivenCounted, Filter, ConstantsAssumption
<1>6. UNCHANGED applied => Past(f, i)' = Past(f, i)
  BY DEF Past
<1>7. Cardinality(Past(f, i)) \in Nat
  BY <1>5, PastSizes DEF IInv, Known
<1>8. can_i_take_c'[BlurNo(f)][i] <= PerImage
      /\ (can_i_take_c'[BlurNo(f)][i] > 0 => mat_blur'[BlurNo(f)][i] = PerImage)
  <2>1. CASE UNCHANGED can_i_take_c
    BY <1>5, <2>1, CompleteStays
  <2>2. CASE /\ CheckLmatBlur(t) /\ MayTake(BlurOf(t), scan[t])
             /\ can_i_take_c'[BlurNo(f)][i] = can_i_take_c[BlurNo(f)][i]
                  + (IF f = n /\ i = scan[t] THEN 1 ELSE 0)
    <3>1. UNCHANGED mat_blur /\ BlurOf(t) = BlurNo(n)
      BY <2>2, CheckStep, ThreadRows
    <3>2. CASE f = n /\ i = scan[t]
      <4>1. mat_blur[BlurNo(f)][i] = PerImage /\ can_i_take_c[BlurNo(f)][i] < PerImage
        BY <2>2, <3>1, <3>2 DEF MayTake
      <4>2. can_i_take_c'[BlurNo(f)][i] = can_i_take_c[BlurNo(f)][i] + 1
        BY <2>2, <3>2
      <4>3. QED
        BY <1>5, <3>1, <4>1, <4>2, FiniteParts
    <3>3. CASE ~(f = n /\ i = scan[t])
      <4>1. can_i_take_c'[BlurNo(f)][i] = can_i_take_c[BlurNo(f)][i]
        BY <1>5, <2>2, <3>3
      <4>2. QED
        BY <1>5, <3>1, <4>1
    <3>4. QED
      BY <3>2, <3>3
  <2>3. QED
    BY <2>1, <2>2, GivenGrows
<1>9. SUFFICES can_i_take_c'[BlurNo(f)][i]
                 = Cardinality(Chose(f, GivenSteps, i)') + Cardinality(Past(f, i)')
  BY <1>8
<1>10. CASE /\ UNCHANGED <<applied, can_i_take_c>>
            /\ \/ pc[t] \notin GivenSteps /\ pc'[t] \notin GivenSteps
               \/ pc[t] \in GivenSteps /\ pc'[t] \in GivenSteps /\ chosen'[t] = chosen[t]
               \/ n # f
  <2>1. Past(f, i)' = Past(f, i) /\ can_i_take_c'[BlurNo(f)][i] = can_i_take_c[BlurNo(f)][i]
    BY <1>6, <1>10
  <2>2. QED
    BY <1>4, <1>5, <1>7, <1>10, <2>1
<1> USE DEF Goto, At
<1>11. CASE ExitLoop(t) \/ WaitCanCopi(t) \/ LockTake(t) \/ Repost(t)
  BY <1>2, <1>10, <1>11 DEF ExitLoop, WaitCanCopi, LockTake, Repost, choice, local, GivenSteps
<1>12. CASE Pass(t)
  <2>1. isblur(t) # 0 => pc[t] = "top" /\ pc'[t] = "waitCopi"
    BY <1>2, <1>12 DEF Pass
  <2>2. isblur(t) = 0 => n # f
    BY ThreadRows
  <2>3. QED
    BY <1>10, <1>12, <2>1, <2>2 DEF Pass, choice, GivenSteps
<1>13. CASE CheckLmatBlur(t)
  <2>1. pc[t] = "scan" /\ UNCHANGED applied
    BY <1>13, CheckStep
  <2>2. CASE ~MayTake(BlurOf(t), scan[t])
    BY <1>10, <1>13, <2>1, <2>2, CheckStep DEF GivenSteps
  <2>3. CASE MayTake(BlurOf(t), scan[t])
    <3>1. pc'[t] = "repost" /\ chosen'[t] = scan[t]
      BY <1>2, <1>13, <2>3, CheckStep
    <3>2. pc[t] \notin GivenSteps /\ pc'[t] \in GivenSteps
      BY <2>1, <3>1 DEF GivenSteps
    <3>3. can_i_take_c'[BlurNo(f)][i] = can_i_take_c[BlurNo(f)][i]
            + (IF f = n /\ i = scan[t] THEN 1 ELSE 0)
      <4>1. CASE UNCHANGED can_i_take_c
        <5>1. can_i_take_c' = [can_i_take_c EXCEPT ![BlurOf(t)][scan[t]] = @ + 1]
              /\ scan[t] \in Image /\ BlurOf(t) \in BlurRow
          BY <1>13, <2>3, CheckStep, BlurRows, ThreadRows
        <5>2. can_i_take_c[BlurOf(t)][scan[t]] \in Nat
          BY <1>2, <5>1
        <5>3. can_i_take_c'[BlurOf(t)][scan[t]] = can_i_take_c[BlurOf(t)][scan[t]] + 1
          BY <1>2, <5>1
        <5>4. QED
          BY <4>1, <5>2, <5>3
      <4>2. QED
        BY <4>1, GivenGrows
    <3>4. Past(f, i)' = Past(f, i)
      BY <1>6, <2>1
    <3>5. CASE f = n /\ i = scan[t]
      BY <1>4, <1>5, <1>7, <3>1, <3>2, <3>3, <3>4, <3>5
    <3>6. CASE ~(f = n /\ i = scan[t])
      <4>1. Cardinality(Chose(f, GivenSteps, i)') = Cardinality(Chose(f, GivenSteps, i))
        BY <1>4, <3>1, <3>2, <3>6
      <4>2. can_i_take_c'[BlurNo(f)][i] = can_i_take_c[BlurNo(f)][i]
        BY <1>5, <3>3, <3>6
      <4>3. QED
        BY <1>5, <3>4, <4>1, <4>2
    <3>7. QED
      BY <3>5, <3>6
  <2>4. QED
    BY <2>2, <2>3
<1>14. CASE CopiAlreadyDone(t) \/ LockCopi(t) \/ LockBuf(t) \/ EndCopi(t)
  BY <1>2, <1>10, <1>14 DEF CopiAlreadyDone, LockCopi, LockBuf, EndCopi, choice, local, GivenSteps
<1>15. CASE WaitFull(t) \/ WaitEmpty(t)
  BY <1>2, <1>10, <1>15 DEF WaitFull, WaitEmpty, choice, local, GivenSteps
<1>16. CASE Take(t)
  BY <1>2, <1>10, <1>16, TakeStep DEF choice, GivenSteps
<1>17. CASE EndApply(t)
  <2>1. pc[t] = "apply" /\ pc'[t] = "waitEmpty" /\ UNCHANGED <<can_i_take_c, chosen>>
    BY <1>2, <1>17 DEF EndApply, choice, local
  <2>2. pc[t] \in GivenSteps /\ pc'[t] \notin GivenSteps
        /\ can_i_take_c'[BlurNo(f)][i] = can_i_take_c[BlurNo(f)][i]
    BY <2>1 DEF GivenSteps
  <2>3. n = f => num_img(paquet[t]) = chosen[t]
    BY <2>1, ThreadRows DEF IInv, Locals, Carrying
  <2>4. Cardinality(Past(f, i)') = Cardinality(Past(f, i))
          + (IF f = n /\ i = num_img(paquet[t]) THEN 1 ELSE 0)
    BY <1>5, <1>17, ApplyMoves DEF IInv, Known
  <2>5. QED
    BY <1>4, <1>5, <1>7, <2>2, <2>3, <2>4
<1>18. CASE Insert(t) \/ InsertBlurred(t)
  BY <1>2, <1>10, <1>18, InsertStep DEF choice, local, GivenSteps
<1>19. CASE PostFull(t) \/ BeforeBlur(t)
  BY <1>2, <1>10, <1>19 DEF PostFull, BeforeBlur, EndPass, choice, GivenSteps
<1>20. QED
  BY <1>11, <1>12, <1>13, <1>14, <1>15, <1>16, <1>17, <1>18, <1>19 DEF ThreadStep

\* check_lmat_blur is run by one thread of a blur at a time.
LEMMA OneScan ==
  ASSUME IInv, NEW t \in Thread, NEW u \in Thread, num_filter[u] = num_filter[t],
         pc[t] \in {"scan", "repost"}, pc[u] \in {"scan", "repost"}
  PROVE  u = t
PROOF
  BY ThreadRows DEF IInv, ScanFinds

LEMMA StepScan ==
  ASSUME IInv, NEW t \in Thread, ThreadStep(t)
  PROVE  ScanFinds'
PROOF
<1> DEFINE n == num_filter[t]
<1>1. OthersStay(t) /\ None \notin Thread
  BY StepOthersStay, ConstantsAssumption DEF IInv, Known, ConstantsAssumption
<1>2. /\ pc \in [Thread -> PC] /\ can_i_take_c_mutex \in [BlurRow -> Thread \cup {None}]
      /\ scan \in [Thread -> 0 .. NIMAGE] /\ can_i_take_c \in [BlurRow -> [Image -> Nat]]
  BY DEF IInv, Known, TypeInv, TypeOK
<1>3. \A u \in Thread : BlurOf(u)' = BlurOf(u)
  BY DEF BlurOf, isblur
<1>4. ASSUME NEW u \in Thread, pc[u] \in BlurSteps
      PROVE  num_filter[u] \in Blur /\ BlurOf(u) = BlurNo(num_filter[u]) /\ BlurOf(u) \in BlurRow
  BY <1>4, ThreadRows, BlurRows DEF IInv, Known, TypeInv, Control
<1>5. ASSUME NEW u \in Thread, u # t, pc[u] \in {"scan", "repost"}
      PROVE  can_i_take_c_mutex'[BlurOf(u)] = u
  <2>1. can_i_take_c_mutex[BlurOf(u)] = u /\ pc[u] \in BlurSteps
    BY <1>5 DEF IInv, ScanFinds, BlurSteps
  <2>2. CASE UNCHANGED can_i_take_c_mutex
    BY <2>1, <2>2
  <2>3. CASE LockTake(t)
    <3>1. can_i_take_c_mutex[BlurOf(t)] = None
          /\ can_i_take_c_mutex' = [can_i_take_c_mutex EXCEPT ![BlurOf(t)] = t]
      BY <2>3 DEF LockTake
    <3>2. BlurOf(u) # BlurOf(t)
      BY <1>1, <2>1, <3>1
    <3>3. QED
      BY <1>2, <2>1, <3>1, <3>2, <1>4
  <2>4. CASE Repost(t)
    <3>1. pc[t] = "repost" /\ can_i_take_c_mutex' = [can_i_take_c_mutex EXCEPT ![BlurOf(t)] = None]
      BY <2>4 DEF Repost, At
    <3>2. can_i_take_c_mutex[BlurOf(t)] = t
      BY <3>1 DEF IInv, ScanFinds
    <3>3. BlurOf(u) # BlurOf(t)
      BY <1>5, <2>1, <3>2
    <3>4. QED
      BY <1>2, <2>1, <3>1, <3>3, <1>4
  <2>5. CASE ~LockTake(t) /\ ~Repost(t)
    <3>1. CASE ExitLoop(t) \/ Pass(t) \/ WaitCanCopi(t)
      BY <2>2, <3>1 DEF ExitLoop, Pass, WaitCanCopi, choice
    <3>2. CASE CheckLmatBlur(t)
      BY <2>2, <3>2, CheckStep
    <3>3. CASE CopiAlreadyDone(t) \/ LockCopi(t) \/ LockBuf(t) \/ EndCopi(t)
      BY <2>2, <3>3 DEF CopiAlreadyDone, LockCopi, LockBuf, EndCopi, choice
    <3>4. CASE WaitFull(t) \/ EndApply(t) \/ WaitEmpty(t) \/ PostFull(t) \/ Take(t)
      BY <2>2, <3>4 DEF WaitFull, EndApply, WaitEmpty, PostFull, Take, choice
    <3>5. CASE Insert(t) \/ InsertBlurred(t)
      BY <2>2, <3>5, InsertStep DEF choice
    <3>6. CASE BeforeBlur(t)
      BY <2>2, <3>6 DEF BeforeBlur
    <3>7. QED
      BY <2>5, <3>1, <3>2, <3>3, <3>4, <3>5, <3>6 DEF ThreadStep
  <2>6. QED
    BY <2>3, <2>4, <2>5
<1>6. ASSUME NEW u \in Thread, u # t, pc[u] = "scan"
      PROVE  \E i \in Image : i >= scan[u] /\ MayTake(BlurOf(u), i)'
  <2>1. num_filter[u] \in Blur /\ BlurOf(u) = BlurNo(num_filter[u])
    BY <1>4, <1>6 DEF BlurSteps
  <2>2. PICK i \in Image : i >= scan[u] /\ MayTake(BlurOf(u), i)
    BY <1>6 DEF IInv, ScanFinds
  <2>3. mat_blur'[BlurOf(u)][i] = PerImage
    BY <2>1, <2>2, CompleteStays DEF MayTake
  <2>4. can_i_take_c'[BlurOf(u)][i] < PerImage
    <3>1. CASE UNCHANGED can_i_take_c
      BY <2>2, <3>1 DEF MayTake
    <3>2. CASE /\ CheckLmatBlur(t)
               /\ \A f \in Blur, j \in Image :
                    can_i_take_c'[BlurNo(f)][j] = can_i_take_c[BlurNo(f)][j]
                      + (IF f = n /\ j = scan[t] THEN 1 ELSE 0)
      <4>1. num_filter[u] # n
        BY <1>6, <3>2, CheckStep, OneScan
      <4>2. can_i_take_c'[BlurOf(u)][i] = can_i_take_c[BlurOf(u)][i] + 0
        BY <2>1, <3>2, <4>1
      <4>3. can_i_take_c[BlurOf(u)][i] \in Nat
        BY <1>2, <2>1, BlurRows
      <4>4. QED
        BY <2>2, <4>2, <4>3 DEF MayTake
    <3>3. QED
      BY <3>1, <3>2, GivenGrows
  <2>5. QED
    BY <1>3, <2>2, <2>3, <2>4 DEF MayTake
<1>7. pc'[t] \in {"scan", "repost"} => LockTake(t) \/ CheckLmatBlur(t)
  <2> USE DEF Goto, At
  <2>1. CASE ExitLoop(t) \/ Pass(t) \/ WaitCanCopi(t) \/ Repost(t)
    BY <1>2, <2>1 DEF ExitLoop, Pass, WaitCanCopi, Repost
  <2>2. CASE CopiAlreadyDone(t) \/ LockCopi(t) \/ LockBuf(t) \/ EndCopi(t)
    BY <1>2, <2>2 DEF CopiAlreadyDone, LockCopi, LockBuf, EndCopi
  <2>3. CASE WaitFull(t) \/ EndApply(t) \/ WaitEmpty(t)
    BY <1>2, <2>3 DEF WaitFull, EndApply, WaitEmpty
  <2>4. CASE Take(t)
    BY <1>2, <2>4, TakeStep
  <2>5. CASE Insert(t) \/ InsertBlurred(t)
    BY <1>2, <2>5, InsertStep
  <2>6. CASE PostFull(t) \/ BeforeBlur(t)
    BY <1>2, <2>6 DEF PostFull, BeforeBlur, EndPass
  <2>7. QED
    BY <2>1, <2>2, <2>3, <2>4, <2>5, <2>6 DEF ThreadStep
<1>8. ASSUME pc'[t] \in {"scan", "repost"}
      PROVE  /\ can_i_take_c_mutex'[BlurOf(t)] = t
             /\ pc'[t] = "scan" => \E i \in Image : i >= scan'[t] /\ MayTake(BlurOf(t), i)'
  <2>1. CASE LockTake(t)
    <3>1. /\ pc[t] = "lockTake" /\ scan' = [scan EXCEPT ![t] = 0]
          /\ can_i_take_c_mutex' = [can_i_take_c_mutex EXCEPT ![BlurOf(t)] = t]
          /\ UNCHANGED <<mat_blur, can_i_take_c>>
      BY <2>1 DEF LockTake, At
    <3>2. n \in Blur /\ BlurOf(t) = BlurNo(n) /\ BlurOf(t) \in BlurRow
      BY <1>4, <3>1 DEF BlurSteps
    <3>3. Ready(n) # {}
      <4>1. Inside(n) \subseteq Thread /\ t \in Inside(n)
        BY <3>1 DEF Inside
      <4>2. Cardinality(Inside(n)) \in Nat /\ Cardinality(Inside(n)) > 0
        BY <4>1, FiniteParts, WholeSet
      <4>3. can_copi[BlurNo(n)] + Cardinality(Inside(n)) = Cardinality(Ready(n))
            /\ can_copi[BlurNo(n)] \in Nat
        BY <3>2 DEF IInv, ReadyCounted, Known, TypeInv, TypeOK
      <4>4. Cardinality(Ready(n)) # 0
        BY <4>2, <4>3
      <4>5. QED
        BY <4>4, FS_EmptySet
    <3>4. PICK i \in Image : MayTake(BlurOf(t), i)
      BY <3>2, <3>3 DEF Ready
    <3>5. MayTake(BlurOf(t), i)' /\ i >= 0 /\ scan'[t] = 0
      BY <1>2, <1>3, <3>1, <3>4 DEF MayTake, Image
    <3>6. QED
      BY <1>2, <3>1, <3>2, <3>5
  <2>2. CASE CheckLmatBlur(t)
    <3>1. pc[t] = "scan" /\ UNCHANGED <<can_i_take_c_mutex, mat_blur>> /\ scan[t] \in Image
      BY <2>2, CheckStep
    <3>2. can_i_take_c_mutex'[BlurOf(t)] = t
      BY <3>1 DEF IInv, ScanFinds
    <3>3. CASE MayTake(BlurOf(t), scan[t])
      BY <1>2, <2>2, <3>2, <3>3, CheckStep
    <3>4. CASE ~MayTake(BlurOf(t), scan[t])
      <4>1. scan'[t] = scan[t] + 1 /\ UNCHANGED can_i_take_c
        BY <1>2, <2>2, <3>4, CheckStep
      <4>2. PICK i \in Image : i >= scan[t] /\ MayTake(BlurOf(t), i)
        BY <3>1 DEF IInv, ScanFinds
      <4>3. i >= scan[t] + 1
        BY <3>1, <3>4, <4>2 DEF Image
      <4>4. MayTake(BlurOf(t), i)'
        BY <1>3, <3>1, <4>1, <4>2 DEF MayTake
      <4>5. QED
        BY <3>2, <4>1, <4>3, <4>4
    <3>5. QED
      BY <3>3, <3>4
  <2>3. QED
    BY <1>7, <1>8, <2>1, <2>2
<1>9. ASSUME NEW u \in Thread
      PROVE  /\ pc'[u] \in {"scan", "repost"} => can_i_take_c_mutex'[BlurOf(u)] = u
             /\ pc'[u] = "scan" => \E i \in Image : i >= scan'[u] /\ MayTake(BlurOf(u), i)'
  <2>1. CASE u = t
    BY <1>8, <2>1
  <2>2. CASE u # t
    BY <1>1, <1>5, <1>6, <2>2 DEF OthersStay
  <2>3. QED
    BY <2>1, <2>2
<1>10. QED
  BY <1>3, <1>9 DEF ScanFinds

\* An image that is the only one whose counts change, and a thread that is the
\* only one whose count of images changes.
LEMMA ReadyMoves ==
  ASSUME NEW f, NEW j \in Image,
         \A i \in Image : i # j =>
           /\ mat_blur'[BlurNo(f)][i] = mat_blur[BlurNo(f)][i]
           /\ can_i_take_c'[BlurNo(f)][i] = can_i_take_c[BlurNo(f)][i]
  PROVE  /\ Cardinality(Ready(f)) \in Nat /\ Cardinality(Ready(f)') \in Nat
         /\ Cardinality(Ready(f)') + (IF MayTake(BlurNo(f), j) THEN 1 ELSE 0)
              = Cardinality(Ready(f))
                + (IF mat_blur'[BlurNo(f)][j] = PerImage /\ can_i_take_c'[BlurNo(f)][j] < PerImage
                   THEN 1 ELSE 0)
PROOF
<1>1. IsFiniteSet(Ready(f))
  BY FiniteParts, FS_Subset DEF Ready
<1>2. BlurNo(f)' = BlurNo(f)
  BY DEF BlurNo
<1>3. Ready(f) \ {j} = Ready(f)' \ {j}
  BY <1>2 DEF Ready, MayTake
<1>4. /\ j \in Ready(f) <=> MayTake(BlurNo(f), j)
      /\ j \in Ready(f)' <=>
           mat_blur'[BlurNo(f)][j] = PerImage /\ can_i_take_c'[BlurNo(f)][j] < PerImage
  BY <1>2 DEF Ready, MayTake
<1>5. QED
  BY <1>1, <1>3, <1>4, OneDiffers

LEMMA InsideMoves ==
  ASSUME NEW t \in Thread, OthersStay(t), NEW f,
         \A u \in Thread : u # t /\ num_filter[u] = f /\ pc[u] = "repost" =>
           can_i_take_c'[BlurNo(f)][chosen[u]] = can_i_take_c[BlurNo(f)][chosen[u]]
  PROVE  /\ Cardinality(Inside(f)) \in Nat /\ Cardinality(Inside(f)') \in Nat
         /\ Cardinality(Inside(f)') + (IF t \in Inside(f) THEN 1 ELSE 0)
              = Cardinality(Inside(f)) + (IF t \in Inside(f)' THEN 1 ELSE 0)
PROOF
<1>1. IsFiniteSet(Inside(f))
  BY FiniteParts, FS_Subset DEF Inside
<1>2. BlurNo(f)' = BlurNo(f)
  BY DEF BlurNo
<1>3. ASSUME NEW u \in Thread, u # t PROVE u \in Inside(f) <=> u \in Inside(f)'
  <2>1. pc'[u] = pc[u] /\ chosen'[u] = chosen[u]
    BY <1>3 DEF OthersStay
  <2>2. QED
    BY <1>2, <1>3, <2>1 DEF Inside
<1>4. Inside(f) \subseteq Thread /\ Inside(f)' \subseteq Thread
  BY DEF Inside
<1>5. Inside(f) \ {t} = Inside(f)' \ {t}
  BY <1>3, <1>4
<1>6. QED
  BY <1>1, <1>5, OneDiffers

LEMMA StepReady ==
  ASSUME IInv, NEW t \in Thread, ThreadStep(t)
  PROVE  ReadyCounted'
PROOF
<1> DEFINE n == num_filter[t]
<1>1. OthersStay(t) /\ n \in Nat
  BY StepOthersStay, ThreadRows DEF IInv, Known
<1>2. /\ pc \in [Thread -> PC] /\ can_i_take_c \in [BlurRow -> [Image -> Nat]]
      /\ chosen \in [Thread -> Image \cup {None}] /\ mat_blur \in [BlurRow -> [Image -> Nat]]
      /\ can_copi \in [BlurRow -> Nat]
  BY DEF IInv, Known, TypeInv, TypeOK
<1>3. SUFFICES ASSUME NEW f \in Blur
      PROVE  can_copi'[BlurNo(f)] + Cardinality(Inside(f)') = Cardinality(Ready(f)')
  <2>1. \A f \in Blur : BlurNo(f)' = BlurNo(f)
    BY DEF BlurNo
  <2>2. QED
    BY <1>3, <2>1 DEF ReadyCounted
<1>4. BlurNo(f)' = BlurNo(f) /\ BlurNo(f) \in BlurRow /\ f \in Nat
  BY BlurRows, ConstantsAssumption DEF BlurNo, Filter, ConstantsAssumption
<1>5. /\ can_copi[BlurNo(f)] + Cardinality(Inside(f)) = Cardinality(Ready(f))
      /\ can_copi[BlurNo(f)] \in Nat
      /\ Cardinality(Inside(f)) \in Nat /\ Cardinality(Ready(f)) \in Nat
  BY <1>2, <1>4, FiniteParts, WholeSet DEF IInv, ReadyCounted, Inside, Ready
<1>6. ASSUME UNCHANGED can_i_take_c
      PROVE  /\ Cardinality(Inside(f)') \in Nat
             /\ Cardinality(Inside(f)') + (IF t \in Inside(f) THEN 1 ELSE 0)
                  = Cardinality(Inside(f)) + (IF t \in Inside(f)' THEN 1 ELSE 0)
  BY <1>1, <1>6, InsideMoves
<1>7. ASSUME UNCHANGED <<mat_blur, can_i_take_c>> PROVE Ready(f)' = Ready(f)
  BY <1>4, <1>7 DEF Ready, MayTake
\* A step that no count and no thread of Inside(f) notices.
<1>8. CASE /\ UNCHANGED <<can_copi, mat_blur, can_i_take_c>>
           /\ t \in Inside(f)' <=> t \in Inside(f)
  <2>1. Ready(f)' = Ready(f) /\ can_copi'[BlurNo(f)] = can_copi[BlurNo(f)]
    BY <1>7, <1>8
  <2>2. QED
    BY <1>5, <1>6, <1>8, <2>1
<1>9. CASE /\ UNCHANGED choice
           /\ pc[t] \notin {"lockTake", "scan", "repost"}
           /\ pc'[t] \notin {"lockTake", "scan", "repost"}
  <2>1. t \notin Inside(f) /\ t \notin Inside(f)'
    BY <1>9 DEF Inside
  <2>2. QED
    BY <1>8, <1>9, <2>1 DEF choice
<1> USE DEF Goto, At
<1>10. CASE ExitLoop(t) \/ Pass(t)
  BY <1>2, <1>9, <1>10 DEF ExitLoop, Pass
<1>11. CASE CopiAlreadyDone(t) \/ LockCopi(t) \/ LockBuf(t) \/ EndCopi(t)
  BY <1>2, <1>9, <1>11 DEF CopiAlreadyDone, LockCopi, LockBuf, EndCopi
<1>12. CASE WaitFull(t) \/ EndApply(t) \/ WaitEmpty(t) \/ PostFull(t)
  BY <1>2, <1>9, <1>12 DEF WaitFull, EndApply, WaitEmpty, PostFull, EndPass
<1>13. CASE Take(t)
  BY <1>2, <1>9, <1>13, TakeStep
<1>14. CASE Insert(t) \/ InsertBlurred(t)
  BY <1>2, <1>9, <1>14, InsertStep
<1>15. ASSUME pc[t] \in BlurSteps
       PROVE  /\ n \in Blur /\ BlurOf(t) = BlurNo(n) /\ BlurOf(t) \in BlurRow
              /\ BlurNo(f) = BlurNo(n) <=> f = n
  BY <1>15, ThreadRows, BlurRows DEF IInv, Known, TypeInv, Control
<1>16. CASE WaitCanCopi(t)
  <2>1. /\ pc[t] = "waitCopi" /\ pc'[t] = "lockTake" /\ UNCHANGED <<mat_blur, can_i_take_c>>
        /\ can_copi[BlurOf(t)] > 0 /\ can_copi' = [can_copi EXCEPT ![BlurOf(t)] = @ - 1]
    BY <1>2, <1>16 DEF WaitCanCopi
  <2>2. BlurOf(t) = BlurNo(n) /\ (BlurNo(f) = BlurNo(n) <=> f = n)
    BY <1>15, <2>1 DEF BlurSteps
  <2>3. can_copi'[BlurNo(f)] = can_copi[BlurNo(f)] - (IF f = n THEN 1 ELSE 0)
    BY <1>2, <1>4, <2>1, <2>2
  <2>4. t \notin Inside(f) /\ (t \in Inside(f)' <=> f = n)
    BY <2>1 DEF Inside
  <2>5. Ready(f)' = Ready(f)
    BY <1>7, <2>1
  <2>6. Cardinality(Inside(f)') = Cardinality(Inside(f)) + (IF f = n THEN 1 ELSE 0)
    BY <1>5, <1>6, <2>1, <2>4
  <2>7. QED
    BY <1>5, <2>3, <2>5, <2>6
<1>17. CASE LockTake(t)
  <2>1. pc[t] = "lockTake" /\ pc'[t] = "scan" /\ UNCHANGED <<can_copi, mat_blur, can_i_take_c>>
    BY <1>2, <1>17 DEF LockTake
  <2>2. t \in Inside(f)' <=> t \in Inside(f)
    BY <2>1 DEF Inside
  <2>3. QED
    BY <1>8, <2>1, <2>2
<1>18. CASE CheckLmatBlur(t)
  <2>1. /\ pc[t] = "scan" /\ UNCHANGED <<can_copi, mat_blur>>
        /\ n \in Blur /\ BlurOf(t) = BlurNo(n) /\ scan[t] \in Image
    BY <1>18, CheckStep, ThreadRows DEF choice
  <2>2. can_copi'[BlurNo(f)] = can_copi[BlurNo(f)]
    BY <2>1
  <2>3. CASE ~MayTake(BlurOf(t), scan[t])
    <3>1. UNCHANGED <<pc, can_i_take_c>>
      BY <1>18, <2>3, CheckStep
    <3>2. t \in Inside(f)' <=> t \in Inside(f)
      BY <2>1, <3>1 DEF Inside
    <3>3. QED
      BY <1>8, <2>1, <3>1, <3>2
  <2>4. CASE MayTake(BlurOf(t), scan[t])
    <3>1. /\ can_i_take_c' = [can_i_take_c EXCEPT ![BlurOf(t)][scan[t]] = @ + 1]
          /\ pc'[t] = "repost" /\ chosen'[t] = scan[t]
      BY <1>2, <1>18, <2>4, CheckStep
    <3>2. CASE f = n
      <4>1. /\ \A i \in Image : i # scan[t] => can_i_take_c'[BlurNo(f)][i] = can_i_take_c[BlurNo(f)][i]
            /\ can_i_take_c'[BlurNo(f)][scan[t]] = can_i_take_c[BlurNo(f)][scan[t]] + 1
        BY <1>2, <1>4, <2>1, <3>1, <3>2
      <4>2. MayTake(BlurNo(f), scan[t]) /\ mat_blur'[BlurNo(f)][scan[t]] = PerImage
        BY <2>1, <2>4, <3>2 DEF MayTake
      <4>3. /\ Cardinality(Ready(f)') \in Nat
            /\ Cardinality(Ready(f)') + 1 = Cardinality(Ready(f))
                 + (IF can_i_take_c'[BlurNo(f)][scan[t]] < PerImage THEN 1 ELSE 0)
        BY <2>1, <4>1, <4>2, ReadyMoves
      <4>4. \A u \in Thread : ~(u # t /\ num_filter[u] = f /\ pc[u] = "repost")
        BY <2>1, <3>2, OneScan
      <4>5. /\ Cardinality(Inside(f)') \in Nat
            /\ Cardinality(Inside(f)') + (IF t \in Inside(f) THEN 1 ELSE 0)
                 = Cardinality(Inside(f)) + (IF t \in Inside(f)' THEN 1 ELSE 0)
        BY <1>1, <4>4, InsideMoves
      <4>6. t \in Inside(f) /\ (t \in Inside(f)' <=> can_i_take_c'[BlurNo(f)][scan[t]] < PerImage)
        BY <1>4, <2>1, <3>1, <3>2 DEF Inside
      <4>7. QED
        BY <1>5, <2>2, <4>3, <4>5, <4>6
    <3>3. CASE f # n
      <4>1. BlurNo(f) # BlurOf(t)
        BY <2>1, <3>3, BlurRows
      <4>2. can_i_take_c'[BlurNo(f)] = can_i_take_c[BlurNo(f)]
        BY <1>2, <1>4, <3>1, <4>1
      <4>3. Ready(f)' = Ready(f)
        BY <1>4, <2>1, <4>2 DEF Ready, MayTake
      <4>4. t \notin Inside(f) /\ t \notin Inside(f)'
        BY <3>3 DEF Inside
      <4>5. Cardinality(Inside(f)') = Cardinality(Inside(f))
        <5>1. /\ Cardinality(Inside(f)') \in Nat
              /\ Cardinality(Inside(f)') + (IF t \in Inside(f) THEN 1 ELSE 0)
                   = Cardinality(Inside(f)) + (IF t \in Inside(f)' THEN 1 ELSE 0)
          BY <1>1, <4>2, InsideMoves
        <5>2. QED
          BY <1>5, <4>4, <5>1
      <4>6. QED
        BY <1>5, <2>2, <4>3, <4>5
    <3>4. QED
      BY <3>2, <3>3
  <2>5. QED
    BY <2>3, <2>4
<1>19. CASE Repost(t)
  <2>1. /\ pc[t] = "repost" /\ pc'[t] = "copi" /\ UNCHANGED <<mat_blur, can_i_take_c>>
        /\ can_copi' = IF can_i_take_c[BlurOf(t)][chosen[t]] < PerImage
                       THEN [can_copi EXCEPT ![BlurOf(t)] = @ + 1] ELSE can_copi
    BY <1>2, <1>19 DEF Repost, MoreToTake
  <2>2. BlurOf(t) = BlurNo(n) /\ (BlurNo(f) = BlurNo(n) <=> f = n)
    BY <1>15, <2>1 DEF BlurSteps
  <2>3. t \in Inside(f) <=> f = n /\ can_i_take_c[BlurOf(t)][chosen[t]] < PerImage
    BY <2>1, <2>2 DEF Inside
  <2>4. can_copi'[BlurNo(f)] = can_copi[BlurNo(f)] + (IF t \in Inside(f) THEN 1 ELSE 0)
    BY <1>2, <1>4, <2>1, <2>2, <2>3
  <2>5. t \notin Inside(f)'
    BY <2>1 DEF Inside
  <2>6. Ready(f)' = Ready(f)
    BY <1>7, <2>1
  <2>7. QED
    BY <1>5, <1>6, <2>1, <2>4, <2>5, <2>6
<1>20. CASE BeforeBlur(t)
  <2> DEFINE c == num_img(paquet[t])
  <2>1. /\ pc[t] = "beforeBlur" /\ pc'[t] = "top" /\ UNCHANGED can_i_take_c
        /\ mat_blur' = [mat_blur EXCEPT ![NextBlur(t)][c] = @ + 1]
        /\ can_copi' = IF mat_blur[NextBlur(t)][c] + 1 = PerImage
                       THEN [can_copi EXCEPT ![NextBlur(t)] = @ + 1] ELSE can_copi
    BY <1>2, <1>20 DEF BeforeBlur, EndPass, Complete
  <2>2. n + 1 \in Blur /\ NextBlur(t) = BlurNo(n + 1) /\ c \in Image
    <3>1. paquet[t] \in Packet
      BY <2>1 DEF IInv, Known, TypeInv, Control, Carrying
    <3>2. QED
      BY <2>1, <3>1, ThreadRows DEF IInv, Known, TypeInv, Control, Packet, num_img
  <2>3. BlurNo(f) = NextBlur(t) <=> f = n + 1
    BY <2>2, BlurRows
  <2>4. t \notin Inside(f) /\ t \notin Inside(f)'
    BY <2>1 DEF Inside
  <2>5. Cardinality(Inside(f)') = Cardinality(Inside(f))
    BY <1>5, <1>6, <2>1, <2>4
  <2>6. CASE f # n + 1
    <3>1. can_copi'[BlurNo(f)] = can_copi[BlurNo(f)] /\ mat_blur'[BlurNo(f)] = mat_blur[BlurNo(f)]
      BY <1>2, <1>4, <2>1, <2>3, <2>6
    <3>2. Ready(f)' = Ready(f)
      BY <1>4, <2>1, <3>1 DEF Ready, MayTake
    <3>3. QED
      BY <1>5, <2>5, <3>1, <3>2
  <2>7. CASE f = n + 1
    <3>1. mat_blur[BlurNo(f)][c] \in Nat /\ mat_blur[BlurNo(f)][c] < PerImage
      <4>1. f - 1 = n /\ f - 1 \in Int
        BY <1>1, <2>7
      <4>2. Carry(f - 1, LeavingSteps, c) \subseteq Thread /\ t \in Carry(f - 1, LeavingSteps, c)
        BY <2>1, <4>1 DEF Carry, LeavingSteps
      <4>3. Cardinality(Carry(f - 1, LeavingSteps, c)) \in Nat
            /\ Cardinality(Carry(f - 1, LeavingSteps, c)) > 0
        BY <4>2, FiniteParts, WholeSet
      <4>4. Cardinality(Past(f - 1, c)) <= PerImage /\ Cardinality(Past(f - 1, c)) \in Nat
        BY <2>2, <4>1, PastSizes DEF IInv, Known
      <4>5. mat_blur[BlurNo(f)][c] + Cardinality(Carry(f - 1, LeavingSteps, c))
              = Cardinality(Past(f - 1, c))
        BY <2>2 DEF IInv, ArrivalsCounted
      <4>6. mat_blur[BlurNo(f)][c] \in Nat
        BY <1>2, <1>4, <2>2
      <4>7. QED
        BY <4>3, <4>4, <4>5, <4>6, FiniteParts
    <3>2. can_i_take_c[BlurNo(f)][c] = 0
      <4>1. can_i_take_c[BlurNo(f)][c] \in Nat
        BY <1>2, <1>4, <2>2
      <4>2. can_i_take_c[BlurNo(f)][c] > 0 => mat_blur[BlurNo(f)][c] = PerImage
        BY <2>2 DEF IInv, GivenCounted
      <4>3. QED
        BY <3>1, <4>1, <4>2, FiniteParts
    <3>3. /\ \A i \in Image : i # c => mat_blur'[BlurNo(f)][i] = mat_blur[BlurNo(f)][i]
          /\ mat_blur'[BlurNo(f)][c] = mat_blur[BlurNo(f)][c] + 1
      BY <1>2, <1>4, <2>1, <2>2, <2>3, <2>7
    <3>4. can_copi'[BlurNo(f)] = can_copi[BlurNo(f)]
            + (IF mat_blur[BlurNo(f)][c] + 1 = PerImage THEN 1 ELSE 0)
      BY <1>2, <1>4, <2>1, <2>2, <2>3, <2>7
    <3>5. /\ Cardinality(Ready(f)') \in Nat
          /\ Cardinality(Ready(f)') + (IF MayTake(BlurNo(f), c) THEN 1 ELSE 0)
               = Cardinality(Ready(f))
                 + (IF mat_blur'[BlurNo(f)][c] = PerImage /\ can_i_take_c'[BlurNo(f)][c] < PerImage
                    THEN 1 ELSE 0)
      <4>1. \A i \in Image : can_i_take_c'[BlurNo(f)][i] = can_i_take_c[BlurNo(f)][i]
        BY <2>1
      <4>2. QED
        BY <2>2, <3>3, <4>1, ReadyMoves
    <3>6. ~MayTake(BlurNo(f), c) /\ can_i_take_c'[BlurNo(f)][c] < PerImage
      BY <2>1, <3>1, <3>2, FiniteParts DEF MayTake
    <3>7. QED
      BY <1>5, <2>5, <3>3, <3>4, <3>5, <3>6
  <2>8. QED
    BY <2>6, <2>7
<1>21. QED
  BY <1>10, <1>11, <1>12, <1>13, <1>14, <1>16, <1>17, <1>18, <1>19, <1>20 DEF ThreadStep

-----------------------------------------------------------------------------
(* The end of the threads.                                                  *)

LEMMA StepExits ==
  ASSUME IInv, NEW t \in Thread, ThreadStep(t)
  PROVE  AllPassesAtExit' /\ pc[t] # "exit"
PROOF
<1> DEFINE n == num_filter[t]
<1>1. OthersStay(t) /\ UNCHANGED joined
  BY StepOthersStay, StepKeeps DEF IInv, Known
<1>2. pc \in [Thread -> PC] /\ to_pass \in [Filter -> Nat] /\ NPACK \in Nat
      /\ \A u \in Thread : num_filter[u] \in Filter
  BY FiniteParts, ThreadRows DEF IInv, Known, TypeInv, TypeOK
<1>3. SUFFICES /\ \A f \in Filter : to_pass'[f] >= to_pass[f]
               /\ pc[t] # "exit"
               /\ pc'[t] = "exit" => to_pass[n] >= NPACK
  <2>1. ASSUME NEW u \in Thread, pc'[u] = "exit" PROVE to_pass'[num_filter[u]] >= NPACK
    <3>1. to_pass[num_filter[u]] >= NPACK
      BY <1>1, <1>3, <2>1 DEF IInv, AllPassesAtExit, OthersStay
    <3>2. to_pass'[num_filter[u]] >= to_pass[num_filter[u]]
          /\ to_pass[num_filter[u]] \in Nat
      BY <1>2, <1>3
    <3>3. to_pass'[num_filter[u]] \in Int
      <4>1. CASE UNCHANGED to_pass
        BY <3>2, <4>1
      <4>2. CASE Pass(t)
        <5>1. to_pass' = [to_pass EXCEPT ![n] = @ + 1]
          BY <4>2 DEF Pass
        <5>2. QED
          BY <1>2, <5>1
      <4>3. QED
        BY <4>1, <4>2, CheckStep, TakeStep, InsertStep
        DEF ThreadStep, ExitLoop, WaitCanCopi, LockTake, Repost, CopiAlreadyDone, LockCopi,
            LockBuf, EndCopi, WaitFull, EndApply, WaitEmpty, PostFull, BeforeBlur
    <3>4. QED
      BY <1>2, <3>1, <3>2, <3>3
  <2>2. ~joined
    BY <1>3 DEF IInv, AllPassesAtExit
  <2>3. QED
    BY <1>1, <1>3, <2>1, <2>2 DEF AllPassesAtExit
<1>4. CASE UNCHANGED to_pass /\ pc[t] # "exit" /\ pc'[t] # "exit"
  BY <1>2, <1>4
<1> USE DEF Goto, At
<1>5. CASE ExitLoop(t)
  BY <1>2, <1>5 DEF ExitLoop, NoPassLeft
<1>6. CASE Pass(t)
  BY <1>2, <1>6 DEF Pass
<1>7. CASE WaitCanCopi(t) \/ LockTake(t) \/ Repost(t)
  BY <1>2, <1>4, <1>7 DEF WaitCanCopi, LockTake, Repost
<1>8. CASE CheckLmatBlur(t)
  BY <1>2, <1>4, <1>8, CheckStep
<1>9. CASE CopiAlreadyDone(t) \/ LockCopi(t) \/ LockBuf(t) \/ EndCopi(t)
  BY <1>2, <1>4, <1>9 DEF CopiAlreadyDone, LockCopi, LockBuf, EndCopi
<1>10. CASE WaitFull(t) \/ EndApply(t) \/ WaitEmpty(t)
  BY <1>2, <1>4, <1>10 DEF WaitFull, EndApply, WaitEmpty
<1>11. CASE Take(t)
  BY <1>2, <1>4, <1>11, TakeStep
<1>12. CASE Insert(t) \/ InsertBlurred(t)
  BY <1>2, <1>4, <1>12, InsertStep
<1>13. CASE PostFull(t) \/ BeforeBlur(t)
  BY <1>2, <1>4, <1>13 DEF PostFull, BeforeBlur, EndPass
<1>14. QED
  BY <1>5, <1>6, <1>7, <1>8, <1>9, <1>10, <1>11, <1>12, <1>13 DEF ThreadStep

-----------------------------------------------------------------------------
(* One thread copies an image, and it does so first.                        *)

\* What a step does to the mutex and the count of the copies of an image.
LEMMA CopyLocks ==
  ASSUME IInv, NEW t \in Thread, ThreadStep(t)
  PROVE  \/ UNCHANGED <<copi_is_done, copi_is_done_mutex>>
         \/ /\ LockCopi(t) /\ num_filter[t] \in Blur /\ chosen[t] \in Image
            /\ UNCHANGED copi_is_done
            /\ copi_is_done_mutex[BlurOf(t)][chosen[t]] = None
            /\ copi_is_done[BlurOf(t)][chosen[t]] = 0
            /\ copi_is_done_mutex' = [copi_is_done_mutex EXCEPT ![BlurOf(t)][chosen[t]] = t]
         \/ /\ EndCopi(t) /\ num_filter[t] \in Blur /\ chosen[t] \in Image
            /\ pc[t] = "memcpy"
            /\ copi_is_done' = [copi_is_done EXCEPT ![BlurOf(t)][chosen[t]] = @ + 1]
            /\ copi_is_done_mutex' = [copi_is_done_mutex EXCEPT ![BlurOf(t)][chosen[t]] = None]
PROOF
<1>1. CASE ExitLoop(t) \/ Pass(t) \/ WaitCanCopi(t) \/ LockTake(t) \/ Repost(t)
  BY <1>1 DEF ExitLoop, Pass, WaitCanCopi, LockTake, Repost, copying
<1>2. CASE CheckLmatBlur(t)
  BY <1>2, CheckStep DEF copying
<1>3. CASE CopiAlreadyDone(t) \/ LockBuf(t)
  BY <1>3 DEF CopiAlreadyDone, LockBuf, copying
<1>4. ASSUME pc[t] \in {"copi", "memcpy"} PROVE num_filter[t] \in Blur /\ chosen[t] \in Image
  BY <1>4, ThreadRows DEF IInv, Known, TypeInv, Control, BlurSteps, Before
<1>5. CASE LockCopi(t)
  BY <1>4, <1>5 DEF LockCopi, At
<1>6. CASE EndCopi(t)
  BY <1>4, <1>6 DEF EndCopi, At
<1>7. CASE WaitFull(t) \/ EndApply(t) \/ WaitEmpty(t) \/ PostFull(t) \/ Take(t)
  BY <1>7 DEF WaitFull, EndApply, WaitEmpty, PostFull, Take, copying
<1>8. CASE Insert(t) \/ InsertBlurred(t)
  BY <1>8, InsertStep
<1>9. CASE BeforeBlur(t)
  BY <1>9 DEF BeforeBlur, copying
<1>10. QED
  BY <1>1, <1>2, <1>3, <1>5, <1>6, <1>7, <1>8, <1>9 DEF ThreadStep

\* How a thread comes to the steps around copi_is_done.
LEMMA CopySteps ==
  ASSUME IInv, NEW t \in Thread, ThreadStep(t)
  PROVE  /\ pc'[t] \in {"lockBuf", "memcpy"} =>
              LockCopi(t) \/ (LockBuf(t) /\ pc[t] = "lockBuf" /\ UNCHANGED copying)
         /\ pc'[t] \in CopiedSteps /\ num_filter[t] \in Blur =>
              \/ pc[t] \in CopiedSteps
              \/ pc[t] \in GivenSteps /\ (CopiAlreadyDone(t) \/ EndCopi(t))
         /\ pc'[t] \in CopiedSteps \cup {"lockBuf", "memcpy"} => chosen'[t] = chosen[t]
PROOF
<1>0. pc \in [Thread -> PC] /\ chosen \in [Thread -> Image \cup {None}]
  BY DEF IInv, Known, TypeInv, TypeOK
<1> USE DEF Goto, At, CopiedSteps, GivenSteps
<1>1. CASE ExitLoop(t) \/ WaitCanCopi(t) \/ LockTake(t) \/ Repost(t)
  BY <1>0, <1>1 DEF ExitLoop, WaitCanCopi, LockTake, Repost
<1>2. CASE Pass(t)
  BY <1>0, <1>2, ThreadRows DEF Pass, local
<1>3. CASE CheckLmatBlur(t)
  BY <1>0, <1>3, CheckStep
<1>4. CASE CopiAlreadyDone(t) \/ EndCopi(t)
  BY <1>0, <1>4 DEF CopiAlreadyDone, EndCopi, local
<1>5. CASE LockCopi(t) \/ LockBuf(t)
  BY <1>0, <1>5 DEF LockCopi, LockBuf, local
<1>6. CASE WaitFull(t) \/ EndApply(t) \/ WaitEmpty(t)
  BY <1>0, <1>6 DEF WaitFull, EndApply, WaitEmpty, local
<1>7. CASE Take(t)
  BY <1>0, <1>7, TakeStep
<1>8. CASE Insert(t) \/ InsertBlurred(t)
  BY <1>0, <1>8, InsertStep DEF local
<1>9. CASE PostFull(t) \/ BeforeBlur(t)
  BY <1>0, <1>9 DEF PostFull, BeforeBlur, EndPass
<1>10. QED
  BY <1>1, <1>2, <1>3, <1>4, <1>5, <1>6, <1>7, <1>8, <1>9 DEF ThreadStep

LEMMA StepCopyFirst ==
  ASSUME IInv, NEW t \in Thread, ThreadStep(t)
  PROVE  CopyFirst'
PROOF
<1> DEFINE n == num_filter[t]
           c == chosen[t]
<1>1. OthersStay(t) /\ None \notin Thread
  BY StepOthersStay, ConstantsAssumption DEF IInv, Known, ConstantsAssumption
<1>2. /\ copi_is_done \in [BlurRow -> [Image -> Nat]]
      /\ copi_is_done_mutex \in [BlurRow -> [Image -> Thread \cup {None}]]
      /\ can_i_take_c \in [BlurRow -> [Image -> Nat]]
      /\ \A f \in Blur : BlurNo(f) \in BlurRow
      /\ n \in Blur => BlurOf(t) = BlurNo(n)
  BY BlurRows, ThreadRows DEF IInv, Known, TypeInv, TypeOK
<1>3. ASSUME NEW u \in Thread, pc[u] \in {"lockBuf", "memcpy"}
      PROVE  /\ BlurOf(u) \in BlurRow /\ chosen[u] \in Image
             /\ copi_is_done_mutex[BlurOf(u)][chosen[u]] = u
             /\ copi_is_done[BlurOf(u)][chosen[u]] = 0
  <2>1. num_filter[u] \in Blur /\ chosen[u] \in Image
    BY <1>3, ThreadRows DEF IInv, Known, TypeInv, Control, BlurSteps, Before
  <2>2. BlurOf(u) \in BlurRow
    BY <1>2, <2>1, ThreadRows
  <2>3. QED
    BY <1>3, <2>1, <2>2 DEF IInv, CopyFirst
<1>4. ASSUME NEW u \in Thread, u # t, pc[u] \in {"lockBuf", "memcpy"}
      PROVE  /\ copi_is_done_mutex'[BlurOf(u)][chosen[u]] = u
             /\ copi_is_done'[BlurOf(u)][chosen[u]] = 0
  <2>1. /\ BlurOf(u) \in BlurRow /\ chosen[u] \in Image
        /\ copi_is_done_mutex[BlurOf(u)][chosen[u]] = u
        /\ copi_is_done[BlurOf(u)][chosen[u]] = 0
    BY <1>3, <1>4
  <2>2. CASE UNCHANGED <<copi_is_done, copi_is_done_mutex>>
    BY <2>1, <2>2
  <2>3. CASE LockCopi(t)
    <3>1. /\ copi_is_done_mutex[BlurOf(t)][c] = None /\ UNCHANGED copi_is_done
          /\ copi_is_done_mutex' = [copi_is_done_mutex EXCEPT ![BlurOf(t)][c] = t]
      BY <2>3 DEF LockCopi
    <3>2. ~(BlurOf(u) = BlurOf(t) /\ chosen[u] = c)
      BY <1>1, <2>1, <3>1
    <3>3. QED
      BY <1>2, <2>1, <3>1, <3>2
  <2>4. CASE EndCopi(t)
    <3>1. /\ pc[t] = "memcpy"
          /\ copi_is_done' = [copi_is_done EXCEPT ![BlurOf(t)][c] = @ + 1]
          /\ copi_is_done_mutex' = [copi_is_done_mutex EXCEPT ![BlurOf(t)][c] = None]
      BY <2>4 DEF EndCopi, At
    <3>2. copi_is_done_mutex[BlurOf(t)][c] = t
      BY <1>3, <3>1
    <3>3. ~(BlurOf(u) = BlurOf(t) /\ chosen[u] = c)
      BY <1>4, <2>1, <3>2
    <3>4. QED
      BY <1>2, <2>1, <3>1, <3>3
  <2>5. QED
    BY <2>2, <2>3, <2>4, CopyLocks
<1>5. ASSUME pc'[t] \in {"lockBuf", "memcpy"}
      PROVE  /\ copi_is_done_mutex'[BlurOf(t)][chosen'[t]] = t
             /\ copi_is_done'[BlurOf(t)][chosen'[t]] = 0
  <2>1. chosen'[t] = c
    BY <1>5, CopySteps
  <2>2. CASE LockCopi(t)
    <3>1. /\ UNCHANGED copi_is_done /\ copi_is_done[BlurOf(t)][c] = 0
          /\ copi_is_done_mutex' = [copi_is_done_mutex EXCEPT ![BlurOf(t)][c] = t]
          /\ pc[t] = "copi"
      BY <2>2 DEF LockCopi, At
    <3>2. n \in Blur /\ c \in Image
      BY <3>1, ThreadRows DEF IInv, Known, TypeInv, Control, BlurSteps, Before
    <3>3. QED
      BY <1>2, <2>1, <3>1, <3>2
  <2>3. CASE pc[t] = "lockBuf" /\ UNCHANGED copying
    BY <1>3, <2>1, <2>3 DEF copying
  <2>4. QED
    BY <1>5, <2>2, <2>3, CopySteps
<1>6. \A u \in Thread : pc'[u] \in {"lockBuf", "memcpy"} =>
        /\ copi_is_done_mutex'[BlurOf(u)][chosen'[u]] = u
        /\ copi_is_done'[BlurOf(u)][chosen'[u]] = 0
  BY <1>1, <1>4, <1>5 DEF OthersStay
<1>7. ASSUME NEW f \in Blur, NEW i \in Image
      PROVE  IF copi_is_done'[BlurNo(f)][i] = 0
             THEN Chose(f, CopiedSteps, i)' = {} /\ Past(f, i)' = {}
             ELSE can_i_take_c'[BlurNo(f)][i] > 0
  <2>1. /\ copi_is_done[BlurNo(f)][i] \in Nat /\ can_i_take_c[BlurNo(f)][i] \in Nat
        /\ IF copi_is_done[BlurNo(f)][i] = 0
           THEN Chose(f, CopiedSteps, i) = {} /\ Past(f, i) = {}
           ELSE can_i_take_c[BlurNo(f)][i] > 0
    BY <1>2 DEF IInv, CopyFirst
  <2>2. can_i_take_c[BlurNo(f)][i] > 0 => can_i_take_c'[BlurNo(f)][i] > 0
    <3>1. CASE UNCHANGED can_i_take_c
      BY <3>1
    <3>2. CASE can_i_take_c'[BlurNo(f)][i] = can_i_take_c[BlurNo(f)][i]
                 + (IF f = n /\ i = scan[t] THEN 1 ELSE 0)
      BY <2>1, <3>2
    <3>3. QED
      BY <3>1, <3>2, GivenGrows
  <2>3. \/ copi_is_done'[BlurNo(f)][i] = copi_is_done[BlurNo(f)][i]
        \/ /\ EndCopi(t) /\ n = f /\ c = i /\ pc[t] = "memcpy"
           /\ copi_is_done'[BlurNo(f)][i] = copi_is_done[BlurNo(f)][i] + 1
    <3>1. CASE UNCHANGED copi_is_done
      BY <3>1
    <3>2. CASE /\ EndCopi(t) /\ n \in Blur /\ c \in Image
               /\ pc[t] = "memcpy"
               /\ copi_is_done' = [copi_is_done EXCEPT ![BlurOf(t)][c] = @ + 1]
      <4>1. BlurNo(f) = BlurOf(t) <=> n = f
        BY <1>2, <3>2, BlurRows
      <4>2. QED
        BY <1>2, <3>2, <4>1
    <3>3. QED
      BY <3>1, <3>2, CopyLocks
  <2>4. CASE copi_is_done'[BlurNo(f)][i] # 0
    <3>1. CASE copi_is_done[BlurNo(f)][i] # 0
      BY <2>1, <2>2, <2>4, <3>1
    <3>2. CASE copi_is_done[BlurNo(f)][i] = 0
      <4>1. n = f /\ c = i /\ pc[t] = "memcpy"
        BY <2>3, <2>4, <3>2
      <4>2. Cardinality(Chose(f, GivenSteps, i)) \in Nat /\ Cardinality(Chose(f, GivenSteps, i)) > 0
        <5>1. Chose(f, GivenSteps, i) \subseteq Thread /\ t \in Chose(f, GivenSteps, i)
          BY <4>1 DEF Chose, GivenSteps
        <5>2. QED
          BY <5>1, FiniteParts, WholeSet
      <4>3. Cardinality(Past(f, i)) \in Nat
        BY BlurRows, PastSizes, ConstantsAssumption DEF IInv, Known, Filter, ConstantsAssumption
      <4>4. can_i_take_c[BlurNo(f)][i] = Cardinality(Chose(f, GivenSteps, i)) + Cardinality(Past(f, i))
        BY DEF IInv, GivenCounted
      <4>5. QED
        BY <2>2, <2>4, <4>2, <4>3, <4>4
    <3>3. QED
      BY <3>1, <3>2
  <2>5. CASE copi_is_done'[BlurNo(f)][i] = 0
    <3>1. copi_is_done[BlurNo(f)][i] = 0 /\ ~(EndCopi(t) /\ n = f /\ c = i)
      <4>1. copi_is_done'[BlurNo(f)][i] = copi_is_done[BlurNo(f)][i]
        BY <2>1, <2>3, <2>5
      <4>2. CASE EndCopi(t) /\ n = f /\ c = i
        <5>1. copi_is_done' = [copi_is_done EXCEPT ![BlurOf(t)][c] = @ + 1]
          BY <4>2 DEF EndCopi
        <5>2. copi_is_done'[BlurNo(f)][i] = copi_is_done[BlurNo(f)][i] + 1
          BY <1>2, <4>2, <5>1
        <5>3. QED
          BY <2>1, <4>1, <5>2
      <4>3. QED
        BY <2>5, <4>1, <4>2
    <3>2. Chose(f, CopiedSteps, i) = {} /\ Past(f, i) = {}
      BY <2>1, <3>1
    <3>3. ASSUME n = f, pc'[t] \in CopiedSteps, chosen'[t] = i PROVE FALSE
      <4>1. c = i
        BY <3>3, CopySteps
      <4>2. pc[t] \notin CopiedSteps
        BY <3>2, <3>3, <4>1 DEF Chose
      <4>3. CopiAlreadyDone(t)
        BY <3>1, <3>3, <4>1, <4>2, CopySteps
      <4>4. copi_is_done[BlurOf(t)][c] # 0
        BY <4>3 DEF CopiAlreadyDone
      <4>5. QED
        BY <1>2, <3>1, <3>3, <4>1, <4>4
    <3>4. Chose(f, CopiedSteps, i)' = {}
      <4>1. \A u \in Thread : u # t => ~(num_filter[u] = f /\ pc'[u] \in CopiedSteps /\ chosen'[u] = i)
        BY <1>1, <3>2 DEF Chose, OthersStay
      <4>2. QED
        BY <3>3, <4>1 DEF Chose
    <3>5. Past(f, i)' = {}
      <4>1. CASE UNCHANGED applied
        BY <3>2, <4>1 DEF Past
      <4>2. CASE EndApply(t)
        <5>1. pc[t] = "apply" /\ f \in Int
          BY <4>2, BlurRows, ConstantsAssumption DEF EndApply, At, Filter, ConstantsAssumption
        <5>2. ~(f = n /\ i = num_img(paquet[t]))
          <6>1. ASSUME f = n, i = num_img(paquet[t]) PROVE t \in Chose(f, CopiedSteps, i)
            <7>1. chosen[t] = i
              BY <5>1, <6>1, ThreadRows DEF IInv, Locals, Carrying
            <7>2. QED
              BY <5>1, <6>1, <7>1 DEF Chose, CopiedSteps
          <6>2. QED
            BY <3>2, <6>1
        <5>3. /\ \A p \in Packet : p # paquet[t] => applied'[p] = applied[p]
              /\ Len(applied[paquet[t]]) = n /\ Len(applied'[paquet[t]]) = n + 1
              /\ paquet[t] \in Packet
          BY <4>2, ApplyMoves DEF IInv, Known
        <5>4. n \in Nat
          BY ThreadRows
        <5>5. ASSUME num_img(paquet[t]) = i, n + 1 > f PROVE FALSE
          <6>1. n > f
            BY <5>1, <5>2, <5>4, <5>5
          <6>2. paquet[t] \in Past(f, i)
            BY <5>3, <5>5, <6>1 DEF Past
          <6>3. QED
            BY <3>2, <6>2
        <5>6. QED
          BY <3>2, <5>3, <5>5 DEF Past
      <4>3. QED
        BY <4>1, <4>2, CheckStep, TakeStep, InsertStep
        DEF ThreadStep, ExitLoop, Pass, WaitCanCopi, LockTake, Repost, CopiAlreadyDone, LockCopi,
            LockBuf, EndCopi, WaitFull, WaitEmpty, PostFull, BeforeBlur
    <3>6. QED
      BY <2>5, <3>4, <3>5
  <2>6. QED
    BY <2>4, <2>5
<1>8. /\ \A u \in Thread : BlurOf(u)' = BlurOf(u)
      /\ \A f \in Blur : BlurNo(f)' = BlurNo(f)
  BY DEF BlurOf, isblur, BlurNo
<1>9. QED
  BY <1>6, <1>7, <1>8 DEF CopyFirst

-----------------------------------------------------------------------------
(* The life of a copy.                                                      *)

\* During the memcpy every packet of the image is in the row, and had exactly
\* the filters before the blur.
LEMMA AtMemcpy ==
  ASSUME IInv, NEW t \in Thread, pc[t] = "memcpy"
  PROVE  /\ num_filter[t] \in Blur /\ chosen[t] \in Image
         /\ BlurOf(t) = BlurNo(num_filter[t])
         /\ copi_is_done_mutex[BlurOf(t)][chosen[t]] = t
         /\ copi_is_done[BlurOf(t)][chosen[t]] = 0
         /\ mat_blur[BlurOf(t)][chosen[t]] = PerImage
         /\ Chose(num_filter[t], CopiedSteps, chosen[t]) = {}
         /\ \A p \in ImagePackets(chosen[t]) :
              /\ \E s \in Slot : mat_buf[num_filter[t]][s] = p
              /\ applied[p] = Stage(num_filter[t])
PROOF
<1> DEFINE f == num_filter[t]
           i == chosen[t]
<1>1. f \in Blur /\ i \in Image /\ BlurOf(t) = BlurNo(f)
  BY ThreadRows DEF IInv, Known, TypeInv, Control, BlurSteps, Before
<1>2. copi_is_done_mutex[BlurOf(t)][i] = t /\ copi_is_done[BlurNo(f)][i] = 0
  BY <1>1 DEF IInv, CopyFirst
<1>3. Chose(f, CopiedSteps, i) = {} /\ Past(f, i) = {}
  BY <1>1, <1>2 DEF IInv, CopyFirst
<1>4. mat_blur[BlurNo(f)][i] = PerImage
  BY <1>1, GivenThread DEF GivenSteps
<1>5. ASSUME NEW p \in ImagePackets(i)
      PROVE  /\ \E s \in Slot : mat_buf[f][s] = p
             /\ applied[p] = Stage(f)
  <2>1. p \in Packet /\ num_img(p) = i /\ p # None
    BY ConstantsAssumption DEF ImagePackets, ConstantsAssumption
  <2>2. Len(applied[p]) = f
    <3>1. Len(applied[p]) >= f /\ Len(applied[p]) \in Nat
      BY <1>1, <1>4, <2>1, ImageComplete, WhereIs DEF IInv
    <3>2. ~(Len(applied[p]) > f)
      BY <1>3, <2>1 DEF Past
    <3>3. QED
      BY <3>1, <3>2, ThreadRows
  <2>3. ASSUME NEW u \in Thread, num_filter[u] = f, pc[u] = "apply", paquet[u] = p PROVE FALSE
    <3>1. chosen[u] = i
      BY <1>1, <2>1, <2>3, ThreadRows DEF IInv, Locals, Carrying
    <3>2. u \in Chose(f, CopiedSteps, i)
      BY <2>3, <3>1 DEF Chose, CopiedSteps
    <3>3. QED
      BY <1>3, <3>2
  <2>4. PICK s \in Slot : mat_buf[f][s] = p
    BY <1>1, <1>4, <2>2, <2>3, ImageComplete DEF IInv
  <2>5. applied[p] = Stage(f)
    BY <2>1, <2>4, ThreadRows DEF IInv, Known, FiltersInOrder
  <2>6. QED
    BY <2>4, <2>5
<1>6. QED
  BY <1>1, <1>2, <1>3, <1>4, <1>5

\* When an image is complete for a blur, every blur before it is done with it.
LEMMA EarlierDone ==
  ASSUME IInv, NEW f \in Blur, NEW g \in Blur, f < g, NEW i \in Image,
         mat_blur[BlurNo(g)][i] = PerImage
  PROVE  choosen_c[BlurNo(f)][i] = PerImage
PROOF
<1>1. f \in Nat /\ g \in Nat /\ f \in Int
  BY BlurRows, ConstantsAssumption DEF Filter, ConstantsAssumption
<1>2. \A p \in ImagePackets(i) : Len(applied[p]) >= g /\ Len(applied[p]) \in Nat
  BY ImageComplete, WhereIs DEF IInv, ImagePackets
<1>3. Past(f, i) = ImagePackets(i)
  <2>1. \A p \in ImagePackets(i) : Len(applied[p]) > f
    BY <1>1, <1>2
  <2>2. QED
    BY <2>1 DEF Past, ImagePackets
<1>4. Chose(f, InsertSteps, i) = {}
  <2>1. SUFFICES ASSUME NEW u \in Thread, num_filter[u] = f, pc[u] \in InsertSteps, chosen[u] = i
                 PROVE  FALSE
    BY DEF Chose
  <2>2. pc[u] \in Carrying /\ Holds(u) /\ pc[u] \in LeavingSteps /\ pc[u] # "apply"
    BY <2>1 DEF InsertSteps, Carrying, Holds, LeavingSteps
  <2>3. num_img(paquet[u]) = i /\ paquet[u] \in Packet
    BY <2>1, <2>2, ThreadRows DEF IInv, Locals, Known, TypeInv, Control
  <2>4. applied[paquet[u]] = Stage(f + 1)
    BY <2>1, <2>2, ThreadRows DEF IInv, Known, FiltersInOrder, At
  <2>5. Len(applied[paquet[u]]) = f + 1
    BY <1>1, <2>4 DEF Stage
  <2>6. f + 1 >= g
    BY <1>2, <2>3, <2>5 DEF ImagePackets
  <2>7. num_filter[u] = g - 1
    BY <1>1, <2>1, <2>6
  <2>8. QED
    BY <2>2, <2>3, <2>7, ImageComplete DEF IInv
<1>5. choosen_c[BlurNo(f)][i] + Cardinality(Chose(f, InsertSteps, i)) = Cardinality(Past(f, i))
  BY DEF IInv, BlurredCounted
<1>6. Cardinality(Chose(f, InsertSteps, i)) = 0 /\ Cardinality(Past(f, i)) = PerImage
  BY <1>3, <1>4, FiniteParts, FS_EmptySet
<1>7. choosen_c[BlurNo(f)][i] \in Nat
  BY BlurRows DEF IInv, Known, TypeInv, TypeOK
<1>8. QED
  BY <1>5, <1>6, <1>7

\* A copied image is complete, and one blur at a time has a copy of it to free.
LEMMA OneLiveCopy ==
  ASSUME IInv, NEW f \in Blur, NEW g \in Blur, f # g, NEW i \in Image,
         copi_is_done[BlurNo(f)][i] # 0, choosen_c[BlurNo(f)][i] < PerImage,
         mat_blur[BlurNo(g)][i] = PerImage, choosen_c[BlurNo(g)][i] < PerImage
  PROVE  FALSE
PROOF
<1>1. mat_blur[BlurNo(f)][i] = PerImage
  BY DEF IInv, CopyFirst, GivenCounted
<1>2. f \in Nat /\ g \in Nat
  BY BlurRows, ConstantsAssumption DEF Filter, ConstantsAssumption
<1>3. choosen_c[BlurNo(f)][i] # PerImage /\ choosen_c[BlurNo(g)][i] # PerImage
  BY FiniteParts, BlurRows DEF IInv, Known, TypeInv, TypeOK
<1>4. CASE f < g
  BY <1>3, <1>4, EarlierDone
<1>5. CASE g < f
  BY <1>1, <1>3, <1>5, EarlierDone
<1>6. QED
  BY <1>2, <1>4, <1>5

\* image_copi_destroy frees the copy that the packets of the image point to.
LEMMA DestroyStep ==
  ASSUME read_only \in [Packet -> CopyId \cup {None, Garbage}],
         NEW c \in Image, NEW row \in [Slot -> Packet \cup {None}], NEW k \in CopyId,
         \A p \in ImagePackets(c) : read_only[p] = k,
         \E s \in Slot : row[s] \in ImagePackets(c),
         ImageCopiDestroy(c, row)
  PROVE  /\ copy' = [copy EXCEPT ![k] = IF @ = "live" THEN "freed" ELSE "double"]
         /\ \A p \in Packet : num_img(p) # c => read_only'[p] = read_only[p]
PROOF
<1> DEFINE visited == {s \in Slot : /\ row[s] # None /\ num_img(row[s]) = c
                                    /\ read_only[row[s]] # None}
<1>0. k # None /\ None \notin Packet
  BY ConstantsAssumption DEF ConstantsAssumption
<1>1. \A s \in Slot : row[s] # None /\ num_img(row[s]) = c => read_only[row[s]] = k
  BY DEF ImagePackets
<1>2. visited # {}
  <2>1. PICK s \in Slot : row[s] \in ImagePackets(c)
    OBVIOUS
  <2>2. s \in visited
    BY <1>0, <2>1 DEF ImagePackets
  <2>3. QED
    BY <2>2
<1>3. PICK s \in visited : copy' = [copy EXCEPT ![read_only[row[s]]] =
                                      IF @ = "live" THEN "freed" ELSE "double"]
  BY <1>2 DEF ImageCopiDestroy, IsFirst
<1>4. read_only[row[s]] = k
  BY <1>1
<1>5. read_only' = [p \in Packet |->
         IF \E q \in visited : row[q] = p THEN None ELSE read_only[p]]
  BY <1>2 DEF ImageCopiDestroy
<1>6. \A p \in Packet : num_img(p) # c => read_only'[p] = read_only[p]
  BY <1>5
<1>7. QED
  BY <1>3, <1>4, <1>6

LEMMA StepCopyLives ==
  ASSUME IInv, NEW t \in Thread, ThreadStep(t)
  PROVE  CopyLives'
PROOF
<1> DEFINE n == num_filter[t]
           c == chosen[t]
           d == <<BlurNo(n), c>>
<1>1. /\ copi_is_done \in [BlurRow -> [Image -> Nat]]
      /\ choosen_c \in [BlurRow -> [Image -> Nat]]
      /\ copy \in [CopyId -> {"none", "live", "freed", "double"}]
      /\ content \in [CopyId -> [Pack -> Seq(Filter)]]
      /\ read_only \in [Packet -> CopyId \cup {None, Garbage}]
      /\ mat_buf \in [Row -> [Slot -> Packet \cup {None}]]
      /\ applied \in [Packet -> Seq(Filter)]
      /\ \A f \in Blur : BlurNo(f) \in BlurRow
      /\ PerImage \in Nat \ {0}
      /\ None \notin Packet
  BY BlurRows, FiniteParts, ConstantsAssumption
  DEF IInv, Known, TypeInv, TypeOK, ConstantsAssumption
<1>2. SUFFICES ASSUME NEW f \in Blur, NEW i \in Image
      PROVE  /\ copy'[<<BlurNo(f), i>>] =
                  IF copi_is_done'[BlurNo(f)][i] = 0 THEN "none"
                  ELSE IF choosen_c'[BlurNo(f)][i] < PerImage THEN "live" ELSE "freed"
             /\ copi_is_done'[BlurNo(f)][i] # 0 /\ choosen_c'[BlurNo(f)][i] < PerImage =>
                  /\ \A p \in ImagePackets(i) : read_only'[p] = <<BlurNo(f), i>>
                  /\ \A j \in Pack : content'[<<BlurNo(f), i>>][j] = Stage(f)
  <2>1. \A f \in Blur : BlurNo(f)' = BlurNo(f)
    BY DEF BlurNo
  <2>2. \A i \in Image : ImagePackets(i)' = ImagePackets(i)
    BY DEF ImagePackets
  <2>3. \A f \in Blur : Stage(f)' = Stage(f)
    BY DEF Stage
  <2>4. QED
    BY <1>2, <2>1, <2>2, <2>3 DEF CopyLives
<1> DEFINE k == <<BlurNo(f), i>>
<1>3. /\ copy[k] = IF copi_is_done[BlurNo(f)][i] = 0 THEN "none"
                   ELSE IF choosen_c[BlurNo(f)][i] < PerImage THEN "live" ELSE "freed"
      /\ copi_is_done[BlurNo(f)][i] # 0 /\ choosen_c[BlurNo(f)][i] < PerImage =>
           /\ \A p \in ImagePackets(i) : read_only[p] = k
           /\ \A j \in Pack : content[k][j] = Stage(f)
      /\ k \in CopyId
  BY <1>1 DEF IInv, CopyLives, CopyId
\* A step that this copy does not notice.
<1>4. CASE /\ copi_is_done'[BlurNo(f)][i] = copi_is_done[BlurNo(f)][i]
           /\ choosen_c'[BlurNo(f)][i] = choosen_c[BlurNo(f)][i]
           /\ copy'[k] = copy[k] /\ content'[k] = content[k]
           /\ copi_is_done[BlurNo(f)][i] # 0 /\ choosen_c[BlurNo(f)][i] < PerImage =>
                \A p \in ImagePackets(i) : read_only'[p] = read_only[p]
  BY <1>3, <1>4
<1>5. CASE UNCHANGED <<copi_is_done, choosen_c, copy, content, read_only>>
  BY <1>4, <1>5
<1>6. ASSUME n \in Blur PROVE k = d <=> f = n /\ i = c
  BY <1>6, BlurRows
<1>7. CASE EndCopi(t)
  <2>1. pc[t] = "memcpy"
    BY <1>7 DEF EndCopi, At
  <2>2. /\ n \in Blur /\ c \in Image /\ BlurOf(t) = BlurNo(n)
        /\ copi_is_done[BlurNo(n)][c] = 0 /\ mat_blur[BlurNo(n)][c] = PerImage
        /\ \A p \in ImagePackets(c) : /\ \E s \in Slot : mat_buf[n][s] = p
                                      /\ applied[p] = Stage(n)
    BY <2>1, AtMemcpy
  <2>3. d \in CopyId
    BY <1>1, <2>2 DEF CopyId
  <2>4. \A p \in Packet : (\E s \in SlotsOf(n, c) : mat_buf[n][s] = p) <=> num_img(p) = c
    <3>1. \A p \in Packet : num_img(p) = c => \E s \in Slot : mat_buf[n][s] = p
      BY <2>2 DEF ImagePackets
    <3>2. None \notin Packet
      BY <1>1
    <3>3. QED
      BY <3>1, <3>2 DEF SlotsOf
  <2>5. \A j \in Pack : <<c, j>> \in ImagePackets(c)
    BY <2>2 DEF ImagePackets, Packet, num_img
  <2>6. SlotsOf(n, c) # {}
    <3>1. 0 \in Pack
      BY <1>1 DEF Pack
    <3>2. PICK s \in Slot : mat_buf[n][s] = <<c, 0>>
      BY <2>2, <2>5, <3>1
    <3>3. <<c, 0>> \in Packet
      BY <2>5, <3>1 DEF ImagePackets
    <3>4. QED
      BY <2>4, <2>5, <3>1, <3>2, <3>3 DEF ImagePackets
  <2>7. /\ copy' = [copy EXCEPT ![d] = "live"]
        /\ content' = [content EXCEPT ![d] = [j \in Pack |-> applied[<<c, j>>]]]
        /\ read_only' = [p \in Packet |->
             IF \E s \in SlotsOf(n, c) : mat_buf[n][s] = p THEN d ELSE read_only[p]]
        /\ copi_is_done' = [copi_is_done EXCEPT ![BlurNo(n)][c] = @ + 1]
        /\ UNCHANGED choosen_c
    BY <1>7, <2>2, <2>6 DEF EndCopi
  <2>8. \A p \in Packet : read_only'[p] = IF num_img(p) = c THEN d ELSE read_only[p]
    BY <2>4, <2>7
  <2>9. choosen_c[BlurNo(n)][c] < PerImage
    <3>1. Cardinality(Past(n, c)) \in Nat /\ Cardinality(Past(n, c)) < PerImage
      BY <2>1, <2>2, GivenThread DEF GivenSteps
    <3>2. Cardinality(Chose(n, InsertSteps, c)) \in Nat
      BY FiniteParts, WholeSet DEF Chose
    <3>3. choosen_c[BlurNo(n)][c] + Cardinality(Chose(n, InsertSteps, c)) = Cardinality(Past(n, c))
      BY <2>2 DEF IInv, BlurredCounted
    <3>4. choosen_c[BlurNo(n)][c] \in Nat
      BY <1>1, <2>2
    <3>5. QED
      BY <1>1, <3>1, <3>2, <3>3, <3>4
  <2>10. CASE f = n /\ i = c
    <3>1. copi_is_done'[BlurNo(f)][i] = 1 /\ copy'[k] = "live" /\ choosen_c'[BlurNo(f)][i] < PerImage
      BY <1>1, <2>2, <2>3, <2>7, <2>9, <2>10
    <3>2. \A p \in ImagePackets(i) : read_only'[p] = k
      BY <2>8, <2>10 DEF ImagePackets
    <3>3. \A j \in Pack : content'[k][j] = Stage(f)
      <4>1. content'[d] = [j \in Pack |-> applied[<<c, j>>]]
        BY <1>1, <2>3, <2>7
      <4>2. QED
        BY <2>2, <2>5, <2>10, <4>1
    <3>4. QED
      BY <3>1, <3>2, <3>3
  <2>11. CASE ~(f = n /\ i = c)
    <3>1. k # d
      BY <1>6, <2>2, <2>11
    <3>2. copy'[k] = copy[k] /\ content'[k] = content[k]
          /\ copi_is_done'[BlurNo(f)][i] = copi_is_done[BlurNo(f)][i]
          /\ choosen_c'[BlurNo(f)][i] = choosen_c[BlurNo(f)][i]
      BY <1>1, <1>3, <2>2, <2>7, <3>1
    <3>3. ASSUME copi_is_done[BlurNo(f)][i] # 0, choosen_c[BlurNo(f)][i] < PerImage
          PROVE  \A p \in ImagePackets(i) : read_only'[p] = read_only[p]
      <4>1. i # c
        BY <2>2, <2>9, <2>11, <3>3, OneLiveCopy
      <4>2. QED
        BY <2>8, <4>1 DEF ImagePackets
    <3>4. QED
      BY <1>4, <3>2, <3>3
  <2>12. QED
    BY <2>10, <2>11
<1>8. CASE InsertBlurred(t)
  <2>1. pc[t] = "insert" /\ isblur(t) # 0
    BY <1>8 DEF InsertBlurred, At
  <2>2. n \in Blur /\ c \in Image /\ BlurOf(t) = BlurNo(n)
    BY <2>1, ThreadRows DEF IInv, Known, TypeInv, Control, Before
  <2>3. d \in CopyId
    BY <1>1, <2>2 DEF CopyId
  <2>4. /\ copi_is_done[BlurNo(n)][c] # 0 /\ mat_blur[BlurNo(n)][c] = PerImage
    <3>1. t \in Chose(n, CopiedSteps, c)
      BY <2>1 DEF Chose, CopiedSteps
    <3>2. QED
      BY <2>2, <3>1 DEF IInv, CopyFirst, GivenCounted
  <2>5. choosen_c[BlurNo(n)][c] < PerImage /\ choosen_c[BlurNo(n)][c] \in Nat
    <3>1. Cardinality(Chose(n, InsertSteps, c)) \in Nat /\ Cardinality(Chose(n, InsertSteps, c)) > 0
      <4>1. Chose(n, InsertSteps, c) \subseteq Thread /\ t \in Chose(n, InsertSteps, c)
        BY <2>1 DEF Chose, InsertSteps
      <4>2. QED
        BY <4>1, FiniteParts, WholeSet
    <3>2. Cardinality(Past(n, c)) \in Nat /\ Cardinality(Past(n, c)) <= PerImage
      BY <2>2, ThreadRows, PastSizes DEF IInv, Known
    <3>3. choosen_c[BlurNo(n)][c] + Cardinality(Chose(n, InsertSteps, c)) = Cardinality(Past(n, c))
      BY <2>2 DEF IInv, BlurredCounted
    <3>4. choosen_c[BlurNo(n)][c] \in Nat
      BY <1>1, <2>2
    <3>5. PerImage \in Nat
      BY <1>1
    <3>6. QED
      BY <3>1, <3>2, <3>3, <3>4, <3>5
  <2>6. copy[d] = "live" /\ \A p \in ImagePackets(c) : read_only[p] = d
    BY <2>2, <2>4, <2>5 DEF IInv, CopyLives
  <2>7. /\ choosen_c' = [choosen_c EXCEPT ![BlurNo(n)][c] = @ + 1]
        /\ UNCHANGED <<copi_is_done, content>>
    BY <1>8, <2>2 DEF InsertBlurred
  <2>8. CASE choosen_c[BlurNo(n)][c] + 1 # PerImage
    <3>1. UNCHANGED <<copy, read_only>>
      BY <1>8, <2>2, <2>8 DEF InsertBlurred, LastBlurred
    <3>2. CASE f = n /\ i = c
      <4>1. choosen_c'[BlurNo(f)][i] < PerImage
        <5>1. choosen_c'[BlurNo(n)][c] = choosen_c[BlurNo(n)][c] + 1
          BY <1>1, <2>2, <2>7
        <5>2. QED
          BY <1>1, <2>5, <2>8, <3>2, <5>1
      <4>2. QED
        BY <1>3, <2>4, <2>5, <2>7, <3>1, <3>2, <4>1
    <3>3. CASE ~(f = n /\ i = c)
      <4>1. choosen_c'[BlurNo(f)][i] = choosen_c[BlurNo(f)][i]
        <5>1. BlurNo(f) # BlurNo(n) \/ i # c
          BY <2>2, <3>3, BlurRows
        <5>2. QED
          BY <1>1, <2>2, <2>7, <5>1
      <4>2. QED
        BY <1>4, <2>7, <3>1, <4>1
    <3>4. QED
      BY <3>2, <3>3
  <2>9. CASE choosen_c[BlurNo(n)][c] + 1 = PerImage
    <3>1. ImageCopiDestroy(c, mat_buf'[OutRow(t)])
      <4>1. ImageCopiDestroy(c, mat_buf[OutRow(t)]')
        BY <1>8, <2>2, <2>9 DEF InsertBlurred, LastBlurred
      <4>2. mat_buf[OutRow(t)]' = mat_buf'[OutRow(t)]
        BY DEF OutRow
      <4>3. QED
        BY <4>1, <4>2
    <3>2. /\ mat_buf'[OutRow(t)] \in [Slot -> Packet \cup {None}]
          /\ \E s \in Slot : mat_buf'[OutRow(t)][s] \in ImagePackets(c)
      <4>1. PICK s \in Slot : /\ mat_buf[OutRow(t)][s] = None /\ paquet[t] \in Packet
                              /\ mat_buf' = [mat_buf EXCEPT ![OutRow(t)][s] = paquet[t]]
        BY <1>8, InsertStep
      <4>2. OutRow(t) \in Row
        BY ThreadRows
      <4>3. num_img(paquet[t]) = c
        BY <2>1 DEF IInv, Locals, Carrying
      <4>4. QED
        BY <1>1, <4>1, <4>2, <4>3 DEF ImagePackets
    <3>3. /\ copy' = [copy EXCEPT ![d] = IF @ = "live" THEN "freed" ELSE "double"]
          /\ \A p \in Packet : num_img(p) # c => read_only'[p] = read_only[p]
      BY <1>1, <2>2, <2>3, <2>6, <3>1, <3>2, DestroyStep
    <3>4. CASE f = n /\ i = c
      <4>1. copy'[k] = "freed"
        BY <1>1, <2>3, <2>6, <3>3, <3>4
      <4>2. choosen_c'[BlurNo(f)][i] = PerImage
        BY <1>1, <2>2, <2>7, <2>9, <3>4
      <4>3. copi_is_done'[BlurNo(f)][i] # 0
        BY <2>4, <2>7, <3>4
      <4>4. QED
        BY <1>1, <4>1, <4>2, <4>3
    <3>5. CASE ~(f = n /\ i = c)
      <4>1. k # d /\ (BlurNo(f) # BlurNo(n) \/ i # c)
        BY <1>6, <2>2, <3>5, BlurRows
      <4>2. choosen_c'[BlurNo(f)][i] = choosen_c[BlurNo(f)][i] /\ copy'[k] = copy[k]
        BY <1>1, <1>3, <2>2, <2>7, <3>3, <4>1
      <4>3. ASSUME copi_is_done[BlurNo(f)][i] # 0, choosen_c[BlurNo(f)][i] < PerImage
            PROVE  \A p \in ImagePackets(i) : read_only'[p] = read_only[p]
        <5>1. i # c
          BY <2>2, <2>4, <2>5, <3>5, <4>3, OneLiveCopy
        <5>2. QED
          BY <3>3, <5>1 DEF ImagePackets
      <4>4. QED
        BY <1>4, <2>7, <4>2, <4>3
    <3>6. QED
      BY <3>4, <3>5
  <2>10. QED
    BY <2>8, <2>9
<1>9. CASE ExitLoop(t) \/ Pass(t) \/ WaitCanCopi(t) \/ LockTake(t) \/ Repost(t)
  BY <1>5, <1>9 DEF ExitLoop, Pass, WaitCanCopi, LockTake, Repost, copying, buffers
<1>10. CASE CheckLmatBlur(t)
  BY <1>5, <1>10, CheckStep DEF copying, buffers
<1>11. CASE CopiAlreadyDone(t) \/ LockCopi(t) \/ LockBuf(t)
  BY <1>5, <1>11 DEF CopiAlreadyDone, LockCopi, LockBuf, copying, buffers
<1>12. CASE WaitFull(t) \/ EndApply(t) \/ WaitEmpty(t) \/ PostFull(t)
  BY <1>5, <1>12 DEF WaitFull, EndApply, WaitEmpty, PostFull, copying, buffers
<1>13. CASE Take(t) \/ Insert(t) \/ BeforeBlur(t)
  BY <1>5, <1>13 DEF Take, Insert, BeforeBlur, copying, buffers
<1>14. QED
  BY <1>7, <1>8, <1>9, <1>10, <1>11, <1>12, <1>13 DEF ThreadStep

-----------------------------------------------------------------------------
(* IInv is an invariant.                                                    *)

LEMMA InitIInv == Init => IInv
PROOF
<1> SUFFICES ASSUME Init PROVE IInv
  OBVIOUS
<1>1. /\ \A t \in Thread : pc[t] = "top" /\ chosen[t] = None
      /\ \A p \in Packet : Len(applied[p]) = 0
      /\ ~failed /\ ~joined
  BY DEF Init
<1>2. /\ \A f \in Blur : f \in Filter /\ f \in Nat /\ BlurNo(f) \in BlurRow
      /\ \A f \in Blur : BlurNo(f) = 0 /\ 0 \in Blur <=> f = 0
  BY BlurRows, ConstantsAssumption DEF Filter, ConstantsAssumption
<1>3. \A f \in Nat : AllPast(f) = {} /\ \A i \in Image : Past(f, i) = {}
  BY <1>1 DEF AllPast, Past
<1>4. \A f, here, i : "top" \notin here =>
        Of(f, here) = {} /\ Chose(f, here, i) = {} /\ Carry(f, here, i) = {}
  BY <1>1 DEF Of, Chose, Carry
<1>5. Cardinality({}) = 0
  BY FS_EmptySet
<1>6. Known
  BY InitTypeInv, InitConservation, InitOrder DEF Known
<1>7. NoError /\ Locals /\ AllPassesAtExit
  BY <1>1 DEF NoError, Locals, Carrying, AllPassesAtExit
<1>8. RowsCounted
  <2>1. SUFFICES ASSUME NEW r \in Row
        PROVE  /\ full[r] + Cardinality(Of(r, {"take"})) + Cardinality(Of(r - 1, {"postFull"}))
                    = Cardinality(PacketsIn(r))
               /\ empty[r] + Cardinality(Of(r - 1, {"insert"})) = NPACK - Cardinality(PacketsIn(r))
    BY DEF RowsCounted
  <2>2. PacketsIn(r) = IF r = 0 THEN Slot ELSE {}
    <3>1. \A s \in Slot : <<s \div PerImage, s % PerImage>> # None
      BY CutSlots, ConstantsAssumption DEF ConstantsAssumption
    <3>2. \A s \in Slot : mat_buf[r][s] = IF r = 0 THEN <<s \div PerImage, s % PerImage>> ELSE None
      BY DEF Init
    <3>3. QED
      BY <3>1, <3>2 DEF PacketsIn
  <2>3. Cardinality(PacketsIn(r)) = IF r = 0 THEN NPACK ELSE 0
    BY <1>5, <2>2, FiniteParts
  <2>4. /\ Cardinality(Of(r, {"take"})) = 0 /\ Cardinality(Of(r - 1, {"postFull"})) = 0
        /\ Cardinality(Of(r - 1, {"insert"})) = 0
    BY <1>4, <1>5
  <2>5. full[r] = (IF r = 0 THEN NPACK ELSE 0) /\ empty[r] = (IF r = 0 THEN 0 ELSE NPACK)
    BY DEF Init
  <2>6. QED
    BY <2>3, <2>4, <2>5, FiniteParts
<1>9. PassesCounted
  <2>1. SUFFICES ASSUME NEW f \in Filter
        PROVE  to_pass[f] = Cardinality(Of(f, PassSteps)) + Cardinality(AllPast(f))
    BY DEF PassesCounted
  <2>2. f \in Nat /\ "top" \notin PassSteps
    BY ConstantsAssumption DEF Filter, ConstantsAssumption, PassSteps, GivenSteps
  <2>3. Cardinality(Of(f, PassSteps)) = 0 /\ Cardinality(AllPast(f)) = 0
    BY <1>3, <1>4, <1>5, <2>2
  <2>4. to_pass[f] = 0
    BY DEF Init
  <2>5. QED
    BY <2>3, <2>4
<1>10. \A f \in Blur, i \in Image : mat_blur[BlurNo(f)][i] = IF f = 0 THEN PerImage ELSE 0
  BY <1>2 DEF Init
<1>11. ArrivalsCounted
  <2>1. SUFFICES ASSUME NEW f \in Blur, NEW i \in Image
        PROVE  mat_blur[BlurNo(f)][i] + Cardinality(Carry(f - 1, LeavingSteps, i))
                 = Cardinality(Past(f - 1, i))
    BY DEF ArrivalsCounted
  <2>2. Cardinality(Carry(f - 1, LeavingSteps, i)) = 0
    BY <1>4, <1>5 DEF LeavingSteps
  <2>3. CASE f = 0
    <3>1. Past(f - 1, i) = ImagePackets(i)
      BY <1>1, <2>3 DEF Past, ImagePackets
    <3>2. QED
      BY <1>10, <2>2, <2>3, <3>1, FiniteParts
  <2>4. CASE f # 0
    <3>1. f - 1 \in Nat
      BY <1>2, <2>4
    <3>2. Cardinality(Past(f - 1, i)) = 0
      BY <1>3, <1>5, <3>1
    <3>3. QED
      BY <1>10, <2>2, <2>4, <3>2
  <2>5. QED
    BY <2>3, <2>4
<1>12. \A f \in Blur, i \in Image :
         /\ can_i_take_c[BlurNo(f)][i] = 0 /\ choosen_c[BlurNo(f)][i] = 0
         /\ copi_is_done[BlurNo(f)][i] = 0
         /\ Chose(f, GivenSteps, i) = {} /\ Chose(f, InsertSteps, i) = {}
         /\ Chose(f, CopiedSteps, i) = {} /\ Past(f, i) = {}
  BY <1>2, <1>3, <1>4 DEF Init, GivenSteps, InsertSteps, CopiedSteps
<1>13. GivenCounted /\ BlurredCounted /\ CopyFirst
  <2>1. \A f \in Blur, i \in Image :
          /\ Cardinality(Chose(f, GivenSteps, i)) = 0 /\ Cardinality(Chose(f, InsertSteps, i)) = 0
          /\ Cardinality(Past(f, i)) = 0
    BY <1>5, <1>12
  <2>2. GivenCounted
    BY <1>12, <2>1, FiniteParts DEF GivenCounted
  <2>3. BlurredCounted
    BY <1>12, <2>1 DEF BlurredCounted
  <2>4. CopyFirst
    BY <1>1, <1>12 DEF CopyFirst
  <2>5. QED
    BY <2>2, <2>3, <2>4
<1>14. ReadyCounted
  <2>1. SUFFICES ASSUME NEW f \in Blur
        PROVE  can_copi[BlurNo(f)] + Cardinality(Inside(f)) = Cardinality(Ready(f))
    BY DEF ReadyCounted
  <2>2. Inside(f) = {}
    BY <1>1 DEF Inside
  <2>3. Ready(f) = IF f = 0 THEN Image ELSE {}
    BY <1>10, <1>12, FiniteParts DEF Ready, MayTake
  <2>4. can_copi[BlurNo(f)] = IF f = 0 THEN NIMAGE ELSE 0
    BY <1>2 DEF Init
  <2>5. Cardinality(Image) = NIMAGE /\ NIMAGE \in Nat
    BY FiniteParts, Sizes
  <2>6. Cardinality(Inside(f)) = 0 /\ Cardinality(Ready(f)) = IF f = 0 THEN NIMAGE ELSE 0
    BY <1>5, <2>2, <2>3, <2>5
  <2>7. QED
    BY <2>4, <2>5, <2>6
<1>15. ScanFinds
  BY <1>1 DEF ScanFinds
<1>16. CopyLives
  <2>1. \A f \in Blur, i \in Image : copy[<<BlurNo(f), i>>] = "none"
    BY <1>2 DEF Init, CopyId
  <2>2. QED
    BY <1>12, <2>1 DEF CopyLives
<1>17. QED
  BY <1>6, <1>7, <1>8, <1>9, <1>11, <1>13, <1>14, <1>15, <1>16 DEF IInv

LEMMA StepIInv == IInv /\ [Next]_vars => IInv'
PROOF
<1> SUFFICES ASSUME IInv, [Next]_vars PROVE IInv'
  OBVIOUS
<1>1. Known'
  BY StepTypeInv, StepConservation, StepOrder DEF IInv, Known
<1>2. ASSUME NEW t \in Thread, ThreadStep(t) PROVE IInv'
  <2>1. NoError' /\ Locals' /\ AllPassesAtExit'
    BY <1>2, StepKeeps, StepLocals, StepExits DEF IInv, NoError
  <2>2. RowsCounted' /\ PassesCounted' /\ ArrivalsCounted' /\ GivenCounted' /\ BlurredCounted'
    BY <1>2, StepRows, StepPasses, StepArrivals, StepGiven, StepBlurred
  <2>3. ReadyCounted' /\ ScanFinds' /\ CopyFirst' /\ CopyLives'
    BY <1>2, StepReady, StepScan, StepCopyFirst, StepCopyLives
  <2>4. QED
    BY <1>1, <2>1, <2>2, <2>3 DEF IInv
<1>3. CASE UNCHANGED vars \/ Join
  <2>1. /\ UNCHANGED <<pc, scan, chosen, paquet, mat_buf, read_only, applied, full, empty,
                       to_pass, mat_blur, can_copi, can_i_take_c, can_i_take_c_mutex,
                       copi_is_done, copi_is_done_mutex, choosen_c, copy, content, failed>>
        /\ UNCHANGED joined \/ \A t \in Thread : pc[t] = "exit"
    BY <1>3 DEF vars, Join, At, local, buffers, choice, copying
  <2>2. NoError' /\ Locals' /\ AllPassesAtExit'
    BY <2>1 DEF IInv, NoError, Locals, AllPassesAtExit, isblur
  <2>3. \A f, here, i : /\ Of(f, here)' = Of(f, here) /\ Chose(f, here, i)' = Chose(f, here, i)
                        /\ Carry(f, here, i)' = Carry(f, here, i)
                        /\ Past(f, i)' = Past(f, i) /\ AllPast(f)' = AllPast(f)
                        /\ PacketsIn(f)' = PacketsIn(f) /\ BlurNo(f)' = BlurNo(f)
                        /\ Ready(f)' = Ready(f) /\ Inside(f)' = Inside(f)
                        /\ BlurOf(f)' = BlurOf(f) /\ ImagePackets(i)' = ImagePackets(i)
                        /\ Stage(f)' = Stage(f)
    BY <2>1 DEF Of, Chose, Carry, Past, AllPast, PacketsIn, BlurNo, Ready, MayTake, Inside,
                BlurOf, isblur, ImagePackets, Stage
  <2>4. RowsCounted' /\ PassesCounted'
    BY <2>1, <2>3 DEF IInv, RowsCounted, PassesCounted
  <2>5. ArrivalsCounted' /\ GivenCounted' /\ BlurredCounted'
    BY <2>1, <2>3 DEF IInv, ArrivalsCounted, GivenCounted, BlurredCounted
  <2>6. ReadyCounted' /\ ScanFinds'
    BY <2>1, <2>3 DEF IInv, ReadyCounted, ScanFinds, MayTake
  <2>7. CopyFirst' /\ CopyLives'
    BY <2>1, <2>3 DEF IInv, CopyFirst, CopyLives
  <2>8. QED
    BY <1>1, <2>2, <2>4, <2>5, <2>6, <2>7 DEF IInv
<1>4. QED
  BY <1>2, <1>3 DEF Next, Terminated

LEMMA Invariance == Spec => []IInv
PROOF
  BY InitIInv, StepIInv, PTL DEF Spec

-----------------------------------------------------------------------------
(* What the invariant says of the pipeline.                                 *)

\* check_lmat_blur always finds an image, take_elem and take_elem_image a
\* packet, and insert_elem a free slot: productor never calls error().
THEOREM NeverFails == Spec => []NoError
PROOF
<1>1. IInv => NoError
  BY DEF IInv
<1>2. QED
  BY <1>1, Invariance, PTL

LEMMA InvSemaphores == IInv => SemaphoresCountSlots
PROOF
<1>1. SUFFICES ASSUME IInv, NEW r \in Row
      PROVE  /\ full[r] + Cardinality(ThreadsAt(r, "take"))
                  + (IF r > 0 THEN Cardinality(ThreadsAt(r - 1, "postFull")) ELSE 0)
                  = Cardinality(PacketsIn(r))
             /\ empty[r] + (IF r > 0 THEN Cardinality(ThreadsAt(r - 1, "insert")) ELSE 0)
                  = NPACK - Cardinality(PacketsIn(r))
  BY DEF SemaphoresCountSlots
<1>2. \A f, here : ThreadsAt(f, here) = Of(f, {here})
  BY DEF ThreadsAt, Of, At
<1>3. r \in Nat
  BY ConstantsAssumption DEF Row, ConstantsAssumption
<1>4. ~(r > 0) => Cardinality(Of(r - 1, {"postFull"})) = 0 /\ Cardinality(Of(r - 1, {"insert"})) = 0
  <2>1. SUFFICES ASSUME r = 0
                 PROVE  Cardinality(Of(r - 1, {"postFull"})) = 0 /\ Cardinality(Of(r - 1, {"insert"})) = 0
    BY <1>3
  <2>2. \A t \in Thread : num_filter[t] # r - 1
    BY <2>1, ThreadRows
  <2>3. Of(r - 1, {"postFull"}) = {} /\ Of(r - 1, {"insert"}) = {}
    BY <2>2 DEF Of
  <2>4. QED
    BY <2>3, FS_EmptySet
<1>5. /\ full[r] + Cardinality(Of(r, {"take"})) + Cardinality(Of(r - 1, {"postFull"}))
           = Cardinality(PacketsIn(r))
      /\ empty[r] + Cardinality(Of(r - 1, {"insert"})) = NPACK - Cardinality(PacketsIn(r))
  BY <1>1 DEF IInv, RowsCounted
<1>6. QED
  BY <1>2, <1>4, <1>5

\* full and empty count the packets and the free slots of every row, up to
\* the threads between a semaphore operation and the access to the row.
THEOREM SemaphoresCount == Spec => []SemaphoresCountSlots
PROOF
  BY InvSemaphores, Invariance, PTL

\* can_copi counts the images a blur thread may be given.
THEOREM CanCopiCounts == Spec => []CanCopiCountsReadyImages
PROOF
<1>1. IInv => CanCopiCountsReadyImages
  BY DEF IInv, ReadyCounted, Inside, Ready, BlurNo, CanCopiCountsReadyImages, At
<1>2. QED
  BY <1>1, Invariance, PTL

LEMMA InvPixels == IInv => NoPixelRace
PROOF
<1>1. SUFFICES ASSUME IInv, NEW t \in Thread, NEW u \in Thread, pc[t] = "memcpy", t # u
      PROVE  /\ pc[u] = "apply" => num_img(paquet[u]) # chosen[t]
             /\ pc[u] = "memcpy" => chosen[u] # chosen[t]
  BY DEF NoPixelRace, At
<1> DEFINE f == num_filter[t]
           i == chosen[t]
<1>2. /\ i \in Image /\ BlurOf(t) = BlurNo(f) /\ f \in Nat /\ f \in Row
      /\ copi_is_done_mutex[BlurOf(t)][i] = t
      /\ \A p \in ImagePackets(i) : /\ \E s \in Slot : mat_buf[f][s] = p
                                    /\ applied[p] = Stage(f)
  BY <1>1, AtMemcpy, ThreadRows
<1>3. ASSUME pc[u] = "apply", num_img(paquet[u]) = i PROVE FALSE
  <2>1. paquet[u] \in ImagePackets(i) /\ paquet[u] \in Packet /\ Holds(u)
    BY <1>1, <1>3 DEF IInv, Known, TypeInv, Control, Carrying, ImagePackets, Holds
  <2>2. PICK s \in Slot : mat_buf[f][s] = paquet[u]
    BY <1>2, <2>1
  <2>3. AtPlace(u) = paquet[u] /\ AtPlace(<<f, s>>) = paquet[u] /\ u # <<f, s>>
        /\ u \in Places /\ <<f, s>> \in Places
    BY <1>2, <2>1, <2>2, PlaceKinds
  <2>4. QED
    BY <1>1, <2>1, <2>3 DEF IInv, Known, PacketConservation
<1>4. ASSUME pc[u] = "memcpy", chosen[u] = i PROVE FALSE
  <2> DEFINE g == num_filter[u]
  <2>1. /\ copi_is_done_mutex[BlurOf(u)][i] = u /\ BlurOf(u) = BlurNo(g) /\ g \in Nat
        /\ \A p \in ImagePackets(i) : applied[p] = Stage(g)
    BY <1>1, <1>4, AtMemcpy, ThreadRows
  <2>2. g = f
    <3>1. ImagePackets(i) # {}
      BY <1>2, FiniteParts, FS_EmptySet
    <3>2. Stage(f) = Stage(g)
      BY <1>2, <2>1, <3>1
    <3>3. Len(Stage(f)) = f /\ Len(Stage(g)) = g
      BY <1>2, <2>1 DEF Stage
    <3>4. QED
      BY <3>2, <3>3
  <2>3. QED
    BY <1>1, <1>2, <2>1, <2>2
<1>5. QED
  BY <1>3, <1>4

\* While image_copi copies the pixels of an image, no thread of any filter is
\* inside apply_filter on a band of the image, and no other thread copies it.
THEOREM PixelsNotRaced == Spec => []NoPixelRace
PROOF
  BY InvPixels, Invariance, PTL

LEMMA InvFinishedCopy == IInv => BlurReadsFinishedCopy
PROOF
<1>1. SUFFICES ASSUME IInv, NEW t \in Thread, pc[t] = "apply", isblur(t) # 0
      PROVE  /\ read_only[paquet[t]] \in CopyId
             /\ read_only[paquet[t]][2] = num_img(paquet[t])
             /\ copy[read_only[paquet[t]]] = "live"
             /\ \A j \in Pack : content[read_only[paquet[t]]][j] = Stage(num_filter[t])
  BY DEF BlurReadsFinishedCopy, At
<1> DEFINE f == num_filter[t]
           i == chosen[t]
<1>2. f \in Blur /\ BlurNo(f) \in BlurRow
  BY <1>1, ThreadRows, BlurRows
<1>3. i \in Image /\ Cardinality(Past(f, i)) \in Nat /\ Cardinality(Past(f, i)) < PerImage
  BY <1>1, <1>2, GivenThread DEF GivenSteps
<1>4. choosen_c[BlurNo(f)][i] < PerImage
  <2>1. choosen_c[BlurNo(f)][i] + Cardinality(Chose(f, InsertSteps, i)) = Cardinality(Past(f, i))
    BY <1>1, <1>2, <1>3 DEF IInv, BlurredCounted
  <2>2. Cardinality(Chose(f, InsertSteps, i)) \in Nat
    BY FiniteParts, WholeSet DEF Chose
  <2>3. choosen_c[BlurNo(f)][i] \in Nat
    BY <1>1, <1>2, <1>3 DEF IInv, Known, TypeInv, TypeOK
  <2>4. QED
    BY <1>3, <2>1, <2>2, <2>3, FiniteParts
<1>5. copi_is_done[BlurNo(f)][i] # 0
  <2>1. t \in Chose(f, CopiedSteps, i)
    BY <1>1 DEF Chose, CopiedSteps
  <2>2. QED
    BY <1>1, <1>2, <1>3, <2>1 DEF IInv, CopyFirst
<1>6. num_img(paquet[t]) = i /\ paquet[t] \in ImagePackets(i)
  BY <1>1 DEF IInv, Locals, Known, TypeInv, Control, Carrying, ImagePackets
<1>7. /\ copy[<<BlurNo(f), i>>] = "live"
      /\ read_only[paquet[t]] = <<BlurNo(f), i>>
      /\ \A j \in Pack : content[<<BlurNo(f), i>>][j] = Stage(f)
  BY <1>1, <1>2, <1>3, <1>4, <1>5, <1>6 DEF IInv, CopyLives
<1>8. <<BlurNo(f), i>> \in CopyId
  BY <1>2, <1>3 DEF CopyId
<1>9. QED
  BY <1>6, <1>7, <1>8

\* filterBand_blur reads a live copy of its image in which every band had
\* exactly the filters before this blur.
THEOREM BlurFromFinishedCopy == Spec => []BlurReadsFinishedCopy
PROOF
  BY InvFinishedCopy, Invariance, PTL

\* After the joins every filter was applied to every packet.
LEMMA AtJoin ==
  ASSUME IInv, joined
  PROVE  /\ \A t \in Thread : pc[t] = "exit"
         /\ \A f \in Filter, p \in Packet : Len(applied[p]) > f
PROOF
<1>1. \A t \in Thread : pc[t] = "exit"
  BY DEF IInv, AllPassesAtExit
<1>2. ASSUME NEW f \in Filter PROVE \A p \in Packet : Len(applied[p]) > f
  <2>1. PICK t \in Thread : num_filter[t] = f
    BY EveryFilterHasAThread DEF EveryFilterHasAThread
  <2>2. to_pass[f] >= NPACK
    BY <1>1, <2>1 DEF IInv, AllPassesAtExit
  <2>3. Cardinality(Of(f, PassSteps)) = 0
    <3>1. Of(f, PassSteps) = {}
      BY <1>1 DEF Of, PassSteps, GivenSteps
    <3>2. QED
      BY <3>1, FS_EmptySet
  <2>4. f \in Int
    BY ConstantsAssumption DEF Filter, ConstantsAssumption
  <2>5. Cardinality(AllPast(f)) \in Nat /\ to_pass[f] = Cardinality(Of(f, PassSteps)) + Cardinality(AllPast(f))
    BY FiniteParts, WholeSet DEF IInv, PassesCounted, AllPast
  <2>6. Cardinality(AllPast(f)) >= NPACK
    BY <2>2, <2>3, <2>5
  <2>7. AllPast(f) = Packet
    <3>1. AllPast(f) \subseteq Packet /\ Cardinality(AllPast(f)) >= Cardinality(Packet)
      BY <2>6, FiniteParts DEF AllPast
    <3>2. QED
      BY <3>1, FiniteParts, WholeSet
  <2>8. QED
    BY <2>7 DEF AllPast
<1>3. QED
  BY <1>1, <1>2

LEMMA InvCopiesFreed == IInv => CopiesFreedOnce
PROOF
<1>1. SUFFICES ASSUME IInv, NEW b \in BlurRow, NEW i \in Image
      PROVE  copy[<<b, i>>] # "double" /\ (joined => copy[<<b, i>>] = "freed")
  BY DEF CopiesFreedOnce, CopyId
<1>2. PICK f \in Blur : BlurNo(f) = b
  BY BlurRows
<1>3. copy[<<b, i>>] = IF copi_is_done[b][i] = 0 THEN "none"
                       ELSE IF choosen_c[b][i] < PerImage THEN "live" ELSE "freed"
  BY <1>1, <1>2 DEF IInv, CopyLives
<1>4. ASSUME joined PROVE copi_is_done[b][i] # 0 /\ ~(choosen_c[b][i] < PerImage)
  <2>1. Past(f, i) = ImagePackets(i)
    BY <1>1, <1>4, AtJoin, BlurRows DEF Past, ImagePackets
  <2>2. Cardinality(Past(f, i)) = PerImage
    BY <2>1, FiniteParts
  <2>3. Past(f, i) # {}
    BY <2>2, FiniteParts, FS_EmptySet
  <2>4. Cardinality(Chose(f, InsertSteps, i)) = 0
    <3>1. Chose(f, InsertSteps, i) = {}
      BY <1>1, <1>4, AtJoin DEF Chose, InsertSteps
    <3>2. QED
      BY <3>1, FS_EmptySet
  <2>5. choosen_c[b][i] + Cardinality(Chose(f, InsertSteps, i)) = Cardinality(Past(f, i))
        /\ choosen_c[b][i] \in Nat
    BY <1>1, <1>2 DEF IInv, BlurredCounted, Known, TypeInv, TypeOK
  <2>6. choosen_c[b][i] = PerImage
    BY <2>2, <2>4, <2>5
  <2>7. copi_is_done[b][i] # 0
    BY <1>1, <1>2, <2>3 DEF IInv, CopyFirst
  <2>8. QED
    BY <2>6, <2>7, FiniteParts
<1>5. QED
  BY <1>3, <1>4

\* image_copi_destroy frees no copy twice, and at the join every copy that
\* image_copi allocated was freed.
THEOREM CopiesFreed == Spec => []CopiesFreedOnce
PROOF
  BY InvCopiesFreed, Invariance, PTL

LEMMA InvAllFiltered == IInv => AllFilteredAtJoin
PROOF
<1>1. SUFFICES ASSUME IInv, joined
      PROVE  /\ \A p \in Packet : /\ applied[p] = Stage(NFILTERS)
                                  /\ \E s \in Slot : mat_buf[NFILTERS][s] = p
             /\ full[NFILTERS] = NPACK
  BY DEF AllFilteredAtJoin
<1>2. NFILTERS \in Nat \ {0} /\ NFILTERS \in Row /\ NFILTERS - 1 \in Filter /\ None \notin Packet
  BY ConstantsAssumption DEF ConstantsAssumption, Row, Filter
<1>3. \A t \in Thread : pc[t] = "exit"
  BY <1>1, AtJoin
<1>4. ASSUME NEW p \in Packet
      PROVE  applied[p] = Stage(NFILTERS) /\ \E s \in Slot : mat_buf[NFILTERS][s] = p
  <2>1. Len(applied[p]) > NFILTERS - 1 /\ Len(applied[p]) \in Nat
    BY <1>1, <1>2, AtJoin, WhereIs DEF IInv
  <2>2. PICK r \in Row, s \in Slot : mat_buf[r][s] = p /\ Len(applied[p]) = r
    BY <1>1, <1>3, WhereIs DEF IInv, Holds
  <2>3. r = NFILTERS
    BY <1>2, <2>1, <2>2 DEF Row
  <2>4. applied[p] = Stage(r)
    BY <1>1, <1>2, <2>2 DEF IInv, Known, FiltersInOrder
  <2>5. QED
    BY <2>2, <2>3, <2>4
<1>5. full[NFILTERS] = NPACK
  <2> DEFINE S == PacketsIn(NFILTERS)
             g == [s \in S |-> mat_buf[NFILTERS][s]]
  <2>1. IsFiniteSet(S) /\ Cardinality(S) \in Nat /\ Cardinality(S) <= NPACK
    BY FiniteParts, WholeSet DEF PacketsIn
  <2>2. g \in Surjection(S, Packet)
    <3>1. \A s \in S : mat_buf[NFILTERS][s] \in Packet
      BY <1>1, <1>2 DEF PacketsIn, IInv, Known, TypeInv, TypeOK
    <3>2. \A p \in Packet : \E s \in S : mat_buf[NFILTERS][s] = p
      BY <1>2, <1>4 DEF PacketsIn
    <3> HIDE DEF S
    <3>3. g \in [S -> Packet] /\ \A p \in Packet : \E s \in S : g[s] = p
      BY <3>1, <3>2
    <3>4. QED
      BY <3>3 DEF Surjection
  <2>3. Cardinality(Packet) <= Cardinality(S)
    BY <2>1, <2>2, FS_Surjection
  <2>4. Cardinality(S) = NPACK
    BY <2>1, <2>3, FiniteParts
  <2>5. Cardinality(Of(NFILTERS, {"take"})) = 0 /\ Cardinality(Of(NFILTERS - 1, {"postFull"})) = 0
    <3>1. Of(NFILTERS, {"take"}) = {} /\ Of(NFILTERS - 1, {"postFull"}) = {}
      BY <1>3 DEF Of
    <3>2. QED
      BY <3>1, FS_EmptySet
  <2>6. /\ full[NFILTERS] + Cardinality(Of(NFILTERS, {"take"}))
             + Cardinality(Of(NFILTERS - 1, {"postFull"})) = Cardinality(S)
        /\ full[NFILTERS] \in Nat
    BY <1>1, <1>2 DEF IInv, RowsCounted, Known, TypeInv, TypeOK
  <2>7. QED
    BY <2>1, <2>4, <2>5, <2>6
<1>6. QED
  BY <1>4, <1>5

\* When image_treatement returns, every band had every filter and lies in the
\* last row.
THEOREM AllFiltered == Spec => []AllFilteredAtJoin
PROOF
  BY InvAllFiltered, Invariance, PTL

-----------------------------------------------------------------------------
(* The pipeline implements FilterStages.                                    *)

LEMMA StepImplements ==
  IInv /\ [Next]_vars => [Stages!Next]_([p \in Packet |-> Len(applied[p])])
PROOF
<1> DEFINE stages == [p \in Packet |-> Len(applied[p])]
<1>1. SUFFICES ASSUME IInv, [Next]_vars PROVE Stages!Next \/ UNCHANGED stages
  OBVIOUS
<1>2. CASE UNCHANGED applied
  BY <1>2
<1>3. ASSUME NEW t \in Thread, EndApply(t) PROVE Stages!Next
  <2> DEFINE n == num_filter[t]
  <2>0. PICK p \in Packet : p = paquet[t]
    BY <1>1, <1>3, ApplyMoves DEF IInv, Known
  <2>1. /\ p \in Packet /\ num_img(p) \in Image
        /\ \A q \in Packet : q # p => applied'[q] = applied[q]
        /\ Len(applied[p]) = n /\ Len(applied'[p]) = n + 1
    BY <1>1, <1>3, <2>0, ApplyMoves DEF IInv, Known
  <2>2. n \in Filter /\ n \in Nat
    BY ThreadRows
  <2>3. ASSUME n \in Blur PROVE \A q \in Packet : num_img(q) = num_img(p) => Len(applied[q]) >= n
    <3>1. pc[t] = "apply"
      BY <1>3 DEF EndApply, At
    <3>2. /\ chosen[t] \in Image /\ num_img(p) = chosen[t]
          /\ mat_blur[BlurNo(n)][chosen[t]] = PerImage
      BY <1>1, <2>0, <2>3, <3>1, GivenThread, ThreadRows DEF GivenSteps, IInv, Locals, Carrying
    <3>3. QED
      BY <1>1, <2>3, <3>2, ImageComplete DEF IInv, ImagePackets
  <2>4. stages' = [stages EXCEPT ![p] = @ + 1]
    BY <2>1
  <2>5. stages[p] = n /\ \A q \in Packet : stages[q] = Len(applied[q])
    BY <2>1
  <2>6. Stages!Apply(p)
    <3>1. stages[p] \in Filter
      BY <2>2, <2>5
    <3>2. stages[p] \in Blur => \A q \in Stages!SameImage(p) : stages[q] >= stages[p]
      BY <2>3, <2>5 DEF Stages!SameImage, num_img
    <3>3. QED
      BY <2>4, <3>1, <3>2 DEF Stages!Apply
  <2>7. QED
    BY <2>6 DEF Stages!Next
<1>4. ASSUME NEW t \in Thread, ThreadStep(t) PROVE EndApply(t) \/ UNCHANGED applied
  BY <1>1, <1>4, CheckStep, TakeStep, InsertStep
  DEF ThreadStep, ExitLoop, Pass, WaitCanCopi, LockTake, Repost, CopiAlreadyDone, LockCopi,
      LockBuf, EndCopi, WaitFull, WaitEmpty, PostFull, BeforeBlur
<1>5. QED
  BY <1>1, <1>2, <1>3, <1>4 DEF Next, Terminated, Join, vars

LEMMA InitImplements == Init => Stages!Init
PROOF
  BY DEF Init, Stages!Init

\* The pipeline does what FilterStages promises: a band gets the next filter
\* only when it had all the filters before, and a blur only when all the bands
\* of its image had them.
THEOREM PipelineImplementsStages == Spec => ImplementsStages
PROOF
<1>1. Stages!Spec <=> Stages!Init /\ [][Stages!Next]_([p \in Packet |-> Len(applied[p])])
  BY DEF Stages!Spec
<1>2. QED
  BY <1>1, StepImplements, InitImplements, Invariance, PTL DEF Spec, ImplementsStages
=============================================================================
