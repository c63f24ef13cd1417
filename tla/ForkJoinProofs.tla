--------------------------- MODULE ForkJoinProofs ---------------------------
(***************************************************************************)
(* Proofs about ForkJoinFilters, for every number of filters, every height *)
(* and all numbers of threads: the bands share no line, and the threads of *)
(* a filter do what the filter does to the whole image, so that the        *)
(* program implements ImageChain.                                          *)
(***************************************************************************)
EXTENDS ForkJoinFilters, Arithmetic, TLAPS

\* The threads main has created and not joined.
Alive(t) ==
  \/ main = "create" /\ t < i
  \/ main = "join" /\ i <= t /\ t < nThread[k]
Joined(t) == main = "join" /\ t < i

\* A thread has treated the lines of its band before the one it is at.
ThreadsInBand ==
  \A t \in Thread :
    /\ threads[t] # NULL <=> Alive(t)
    /\ threads[t] # NULL =>
         /\ threads[t].last = LastLine(t)
         /\ FirstLine(t) <= threads[t].line /\ threads[t].line <= threads[t].last + 1

\* The thread in whose band line y is.
Owner(y) == y \div Band

Treated(y) == \/ Joined(Owner(y))
              \/ threads[Owner(y)] # NULL /\ y < threads[Owner(y)].line

\* Each line is as the filter leaves it, or as it was.
HalfFiltered ==
  main # "next" =>
    \A y \in Line : img[y] = IF Treated(y) THEN Chain!Filtered(filters[k], before)[y]
                                           ELSE before[y]

CopyKept ==
  main # "next" => filters[k] # "wrong" /\ (filters[k] = "blur" => copy = before)

IsImage(f) == f = [y \in Line |-> f[y]]
Images == IsImage(img) /\ IsImage(before)

IInv == TypeOK /\ Images /\ ThreadsInBand /\ HalfFiltered /\ CopyKept

-----------------------------------------------------------------------------
(* The bands.                                                               *)

\* The bands of filter k reach the last line.
LEMMA Bands ==
  ASSUME TypeOK, k \in Filter
  PROVE  /\ nThread[k] \in Positive /\ height \in Positive
         /\ Band \in Positive /\ Band = RoundedUp(height, nThread[k])
         /\ \A t \in 0 .. nThread[k] - 1 : t \in Thread
<1>1. nThread[k] \in ThreadCounts /\ height \in Heights
  BY DEF TypeOK
<1>2. nThread[k] \in Positive /\ height \in Positive
  BY <1>1, ForkAssumption DEF Positive
<1>3. Band = RoundedUp(height, nThread[k])
  BY DEF Band, RoundedUp
<1>4. Band \in Positive
  BY <1>2, <1>3, BandsCover
<1>5. \A t \in 0 .. nThread[k] - 1 : t \in Thread
  BY <1>1 DEF Thread
<1> QED BY <1>2, <1>3, <1>4, <1>5

\* A line is in the band of its owner and in no other.
LEMMA OwnerOfLine ==
  ASSUME TypeOK, k \in Filter, NEW y \in Line
  PROVE  /\ Owner(y) \in 0 .. nThread[k] - 1 /\ Owner(y) \in Thread
         /\ \A t \in 0 .. nThread[k] - 1 :
              FirstLine(t) <= y /\ y <= LastLine(t) <=> t = Owner(y)
<1>1. /\ nThread[k] \in Positive /\ height \in Positive
      /\ Band = RoundedUp(height, nThread[k])
      /\ Band \in Nat /\ nThread[k] \in Nat
  BY Bands DEF Positive
<1>2. /\ Owner(y) \in 0 .. nThread[k] - 1
      /\ \A t \in 0 .. nThread[k] - 1 :
           y \in FirstLine(t) .. LastLine(t) <=> t = Owner(y)
  BY <1>1, InOneBand DEF Owner, FirstLine, LastLine, Line
<1>3. \A t \in 0 .. nThread[k] - 1 : FirstLine(t) \in Int /\ LastLine(t) \in Int
  BY <1>1 DEF FirstLine, LastLine
<1>4. y \in Int
  BY <1>1 DEF Line, Positive
<1> QED BY <1>2, <1>3, <1>4, Bands

\* The numbers of the threads.
LEMMA ThreadNat == \A t \in Thread : t \in Nat
BY ForkAssumption DEF Thread

\* While a filter runs.
LEMMA Running ==
  ASSUME TypeOK, main # "next"
  PROVE  /\ k \in Filter /\ i \in Nat /\ i < nThread[k]
         /\ nThread[k] \in Nat /\ Band \in Nat /\ Band # 0 /\ height \in Nat
<1>1. k \in Filter
  BY ForkAssumption DEF TypeOK, Filter
<1> QED BY <1>1, Bands, ThreadNat DEF TypeOK, Positive

\* The line a running thread is at belongs to it.
LEMMA AtOwnLine ==
  ASSUME IInv, NEW t \in Thread, threads[t] # NULL, ~Ended(t),
         threads[t].line < height
  PROVE  /\ main # "next" /\ k \in Filter /\ t \in 0 .. nThread[k] - 1
         /\ threads[t].line \in Line /\ Owner(threads[t].line) = t
         /\ threads[t].last = LastLine(t) /\ LastLine(t) \in Int
<1>1. TypeOK /\ ThreadsInBand /\ t \in Nat
  BY ForkAssumption DEF IInv, Thread
<1>2. main # "next"
  BY <1>1 DEF ThreadsInBand, Alive
<1>3. /\ k \in Filter /\ i \in Nat /\ i < nThread[k]
      /\ nThread[k] \in Nat /\ Band \in Nat /\ height \in Nat
  BY <1>1, <1>2, Running
<1>4. t \in 0 .. nThread[k] - 1
  BY <1>1, <1>2, <1>3 DEF ThreadsInBand, Alive
<1>5. threads[t] \in [line : Nat, last : Int]
  BY <1>1 DEF TypeOK
<1>6. threads[t].line \in Line
  BY <1>3, <1>5 DEF Line
<1>7. /\ FirstLine(t) <= threads[t].line /\ threads[t].last = LastLine(t)
      /\ threads[t].line <= threads[t].last
  BY <1>1, <1>5 DEF ThreadsInBand, Ended
<1>8. LastLine(t) \in Int
  BY <1>3, <1>4 DEF LastLine
<1> QED BY <1>1, <1>2, <1>3, <1>4, <1>6, <1>7, <1>8, OwnerOfLine

LEMMA InvNoSharedLine == IInv => NoSharedLine
BY AtOwnLine DEF NoSharedLine

-----------------------------------------------------------------------------
(* The invariant holds at the start and is kept by every action.            *)

LEMMA InitInv == Init => IInv
<1> SUFFICES ASSUME Init PROVE IInv
  OBVIOUS
<1>1. 0 \in Filter
  BY ForkAssumption DEF Filter
<1>2. nThread[0] \in ThreadCounts /\ nThread[0] \in Nat \ {0}
  BY <1>1, ForkAssumption DEF Init
<1>3. 0 \in Thread
  <2>1. 0 \in 0 .. nThread[0] - 1
    BY <1>2
  <2> QED BY <1>2, <2>1 DEF Thread
<1>4. k \in -1 .. NFILTERS - 1
  BY ForkAssumption DEF Init, FirstFilter
<1>5. TypeOK
  BY <1>3, <1>4 DEF Init, TypeOK
<1>6. Images /\ ThreadsInBand /\ HalfFiltered /\ CopyKept
  BY DEF Init, Images, IsImage, ThreadsInBand, Alive, HalfFiltered, CopyKept
<1> QED BY <1>5, <1>6 DEF IInv

LEMMA CallFilterInv ==
  ASSUME IInv, CallFilter
  PROVE  IInv'
<1> USE DEF CallFilter, input
<1>1. TypeOK /\ Images /\ ThreadsInBand /\ k \in Filter
  BY ForkAssumption DEF IInv, TypeOK, Filter
<1>2. nThread[k] \in ThreadCounts /\ nThread[k] \in Nat \ {0}
  BY <1>1, ForkAssumption DEF TypeOK
<1>3. 0 \in Thread
  <2>1. 0 \in 0 .. nThread[k] - 1
    BY <1>2
  <2> QED BY <1>2, <2>1 DEF Thread
<1>4. TypeOK'
  BY <1>1, <1>2, <1>3 DEF TypeOK, Line
<1>5. Images'
  BY <1>1 DEF Images, IsImage, Line
<1>6. \A t \in Thread : threads[t] = NULL
  BY <1>1 DEF ThreadsInBand, Alive
<1>7. ThreadsInBand'
  BY <1>6, ThreadNat DEF ThreadsInBand, Alive
<1>8. HalfFiltered'
  <2> SUFFICES ASSUME NEW y \in Line'
               PROVE  img'[y] = IF Treated(y)' THEN Chain!Filtered(filters[k], before)'[y]
                                               ELSE before'[y]
    BY DEF HalfFiltered
  <2>1. Owner(y)' \in Thread
    <3>1. y \in Line /\ Owner(y)' = Owner(y)
      BY DEF Line, Owner, Band
    <3> QED BY <1>1, <3>1, OwnerOfLine
  <2>2. ~Treated(y)'
    BY <1>6, <2>1 DEF Treated, Joined
  <2> QED BY <2>2
<1>9. CopyKept'
  BY DEF CopyKept
<1> QED BY <1>4, <1>5, <1>7, <1>8, <1>9 DEF IInv

LEMMA WrongFilterInv ==
  ASSUME IInv, WrongFilter
  PROVE  IInv'
<1> USE DEF WrongFilter, input
<1>1. TypeOK /\ Images /\ ThreadsInBand
  BY DEF IInv
<1>2. k' \in -1 .. NFILTERS - 1
  BY <1>1, ForkAssumption DEF TypeOK
<1>3. TypeOK' /\ Images'
  BY <1>1, <1>2 DEF TypeOK, Images, IsImage, Line
<1>4. ThreadsInBand' /\ HalfFiltered' /\ CopyKept'
  BY <1>1 DEF ThreadsInBand, Alive, HalfFiltered, CopyKept
<1> QED BY <1>3, <1>4 DEF IInv

\* A step of a filter that runs: the cutting of the image stays the same.
LEMMA SameFilter ==
  ASSUME UNCHANGED <<input, k, before>>
  PROVE  /\ Line' = Line /\ Band' = Band
         /\ \A t : /\ FirstLine(t)' = FirstLine(t) /\ LastLine(t)' = LastLine(t)
                   /\ Owner(t)' = Owner(t)
         /\ Chain!Filtered(filters[k], before)' = Chain!Filtered(filters[k], before)
BY DEF input, Line, Band, FirstLine, LastLine, Owner

LEMMA CreateInv ==
  ASSUME IInv, Create
  PROVE  IInv'
<1> USE DEF Create
<1>1. /\ TypeOK /\ Images /\ ThreadsInBand /\ HalfFiltered /\ CopyKept
      /\ main = "create" /\ UNCHANGED <<input, k, before>> /\ img' = img /\ copy' = copy
  BY DEF IInv
<1>2. /\ k \in Filter /\ i \in Nat /\ i < nThread[k] /\ i \in Thread
      /\ nThread[k] \in Nat /\ Band \in Nat /\ Band # 0 /\ height \in Nat
  BY <1>1, Running DEF TypeOK
<1>3. /\ FirstLine(i) \in Nat /\ LastLine(i) \in Int /\ FirstLine(i) <= LastLine(i) + 1
  <2>1. i * Band \in Nat /\ (i + 1) * Band = i * Band + Band
    BY <1>2
  <2> QED BY <1>2, <2>1 DEF FirstLine, LastLine
<1>4. /\ threads'[i] = [line |-> FirstLine(i), last |-> LastLine(i)]
      /\ threads'[i] # NULL
      /\ \A t \in Thread : t # i => threads'[t] = threads[t]
  BY <1>1, <1>2, <1>3, ForkAssumption DEF TypeOK
<1>5. \/ main' = "create" /\ i' = i + 1 /\ i + 1 < nThread[k]
      \/ main' = "join" /\ i' = 0 /\ i + 1 = nThread[k]
  BY <1>1, <1>2
<1>6. TypeOK'
  <2>1. 0 \in Thread /\ (i + 1 < nThread[k] => i + 1 \in Thread)
    BY <1>1, <1>2, Bands
  <2>2. threads' \in [Thread -> [line : Nat, last : Int] \cup {NULL}]
    BY <1>1, <1>2, <1>3 DEF TypeOK
  <2> HIDE DEF Create
  <2> QED BY <1>1, <1>2, <1>5, <2>1, <2>2, SameFilter DEF TypeOK, input
<1>7. Images' /\ CopyKept'
  BY <1>1, SameFilter DEF Images, IsImage, CopyKept, input
<1> HIDE DEF Create
<1>8. \A t \in Thread : Alive(t)' <=> Alive(t) \/ t = i
  BY <1>1, <1>2, <1>5, ThreadNat DEF Alive, input
<1>9. ThreadsInBand'
  <2> SUFFICES ASSUME NEW t \in Thread
               PROVE  /\ threads'[t] # NULL <=> Alive(t)'
                      /\ threads'[t] # NULL =>
                           /\ threads'[t].last = LastLine(t)
                           /\ FirstLine(t) <= threads'[t].line
                           /\ threads'[t].line <= threads'[t].last + 1
    BY <1>1, SameFilter DEF ThreadsInBand
  <2>1. CASE t = i
    BY <1>3, <1>4, <1>8, <2>1
  <2>2. CASE t # i
    BY <1>1, <1>4, <1>8, <2>2 DEF ThreadsInBand
  <2> QED BY <2>1, <2>2
<1>10. HalfFiltered'
  <2> SUFFICES ASSUME NEW y \in Line
               PROVE  Treated(y)' <=> Treated(y)
    BY <1>1, SameFilter DEF HalfFiltered
  <2>1. Owner(y) \in Thread /\ Owner(y) \in 0 .. nThread[k] - 1 /\ Owner(y)' = Owner(y)
    BY <1>1, <1>2, OwnerOfLine, SameFilter
  <2>2. ~Joined(Owner(y)) /\ ~Joined(Owner(y))'
    BY <1>1, <1>2, <1>5, <2>1, ThreadNat DEF Joined
  <2>3. CASE Owner(y) = i
    <3>1. threads[i] = NULL
      BY <1>1, <1>2 DEF ThreadsInBand, Alive
    <3>2. FirstLine(i) <= y /\ y \in Int
      BY <1>1, <1>2, <2>1, <2>3, OwnerOfLine DEF Line
    <3> QED BY <1>3, <1>4, <2>1, <2>2, <2>3, <3>1, <3>2 DEF Treated
  <2>4. CASE Owner(y) # i
    BY <1>4, <2>1, <2>2, <2>4 DEF Treated
  <2> QED BY <2>3, <2>4
<1> QED BY <1>6, <1>7, <1>9, <1>10 DEF IInv

\* The copy makes a line of the blur what ImageChain says it is.
LEMMA NewLine ==
  ASSUME IInv, main # "next", NEW y \in Line, img[y] = before[y]
  PROVE  (IF filters[k] = "blur" THEN Blur(y) ELSE <<filters[k], img[y]>>)
           = Chain!Filtered(filters[k], before)[y]
<1>1. DOMAIN before = Line /\ height \in Nat
  BY Running DEF IInv, TypeOK
<1>2. /\ y - 1 \in Line <=> y # 0
      /\ y + 1 \in Line <=> y # height - 1
  BY <1>1 DEF Line
<1>3. CASE filters[k] = "blur"
  <2>1. copy = before
    BY <1>3 DEF IInv, CopyKept
  <2> QED BY <1>1, <1>2, <1>3, <2>1
          DEF Blur, Source, Chain!Filtered, Chain!Above, Chain!Below
<1>4. CASE filters[k] # "blur"
  BY <1>1, <1>4 DEF Chain!Filtered
<1> QED BY <1>3, <1>4

LEMMA TreatLineInv ==
  ASSUME IInv, NEW t \in Thread, TreatLine(t)
  PROVE  IInv'
<1> DEFINE l == threads[t].line
<1> USE DEF TreatLine
<1>1. /\ TypeOK /\ Images /\ ThreadsInBand /\ HalfFiltered /\ CopyKept
      /\ threads[t] # NULL /\ ~Ended(t) /\ UNCHANGED <<input, k, before>>
      /\ main' = main /\ i' = i /\ copy' = copy
      /\ threads' = [threads EXCEPT ![t].line = l + 1]
  BY DEF IInv, NextLine
<1>2. main # "next" /\ Alive(t)
  BY <1>1 DEF ThreadsInBand, Alive
<1>3. /\ k \in Filter /\ i \in Nat /\ height \in Nat
      /\ nThread[k] \in Nat /\ Band \in Nat
  BY <1>1, <1>2, Running
<1>4. /\ threads[t] \in [line : Nat, last : Int] /\ l \in Nat
      /\ l <= threads[t].last /\ threads[t].last = LastLine(t)
      /\ FirstLine(t) <= l /\ LastLine(t) \in Int /\ FirstLine(t) \in Int
  <2>1. threads[t] \in [line : Nat, last : Int]
    BY <1>1 DEF TypeOK
  <2>2. LastLine(t) \in Int /\ FirstLine(t) \in Int
    BY <1>3, ThreadNat DEF LastLine, FirstLine
  <2> QED BY <1>1, <2>1, <2>2 DEF ThreadsInBand, Ended
<1>5. /\ threads'[t] = [line |-> l + 1, last |-> threads[t].last]
      /\ threads'[t] # NULL
      /\ \A u \in Thread : u # t => threads'[u] = threads[u]
  <2>1. threads'[t] = [threads[t] EXCEPT !.line = l + 1]
    BY <1>1 DEF TypeOK
  <2>2. threads'[t] = [line |-> l + 1, last |-> threads[t].last]
    BY <1>4, <2>1
  <2>3. threads'[t] # NULL
    BY <1>4, <2>2, ForkAssumption
  <2> QED BY <1>1, <2>2, <2>3 DEF TypeOK
<1>6. /\ img' \in [Line -> {img'[y] : y \in Line}]
      /\ \A y \in Line : y # l => img'[y] = img[y]
      /\ l < height => img'[l] = IF filters[k] = "blur" THEN Blur(l)
                                ELSE <<filters[k], img[l]>>
  <2>1. l < height => l \in Line
    BY <1>3, <1>4 DEF Line
  <2>2. img = [y \in Line |-> img[y]]
    BY <1>1 DEF Images, IsImage
  <2>3. CASE l < height
    <3>1. img' = [img EXCEPT ![l] = IF filters[k] = "blur" THEN Blur(l)
                                    ELSE <<filters[k], img[l]>>]
      BY <2>3
    <3> HIDE DEF TreatLine, l
    <3> QED BY <2>1, <2>2, <2>3, <3>1
  <2>4. CASE ~(l < height)
    <3>1. img' = img
      BY <2>4
    <3> QED BY <2>2, <2>4, <3>1
  <2> QED BY <2>3, <2>4
<1> HIDE DEF TreatLine, l
<1>7. TypeOK'
  <2>1. threads' \in [Thread -> [line : Nat, last : Int] \cup {NULL}]
    <3>1. \A u \in Thread : threads'[u] \in [line : Nat, last : Int] \cup {NULL}
      BY <1>1, <1>4, <1>5 DEF TypeOK
    <3>2. threads' = [u \in Thread |-> threads'[u]]
      BY <1>1 DEF TypeOK
    <3> QED BY <3>1, <3>2
  <2> QED BY <1>1, <1>6, <2>1, SameFilter DEF TypeOK, input
<1>8. Images'
  <2>1. img' = [y \in Line |-> img'[y]]
    BY <1>6
  <2> QED BY <1>1, <2>1, SameFilter DEF Images, IsImage
<1>9. CopyKept'
  BY <1>1 DEF CopyKept, input
<1>10. \A u \in Thread : Alive(u)' <=> Alive(u)
  BY <1>1 DEF Alive, input
<1>11. ThreadsInBand'
  <2> SUFFICES ASSUME NEW u \in Thread
               PROVE  /\ threads'[u] # NULL <=> Alive(u)
                      /\ threads'[u] # NULL =>
                           /\ threads'[u].last = LastLine(u)
                           /\ FirstLine(u) <= threads'[u].line
                           /\ threads'[u].line <= threads'[u].last + 1
    BY <1>1, <1>10, SameFilter DEF ThreadsInBand
  <2>1. CASE u = t
    BY <1>2, <1>4, <1>5, <2>1
  <2>2. CASE u # t
    BY <1>1, <1>5, <2>2 DEF ThreadsInBand
  <2> QED BY <2>1, <2>2
<1>12. HalfFiltered'
  <2> SUFFICES ASSUME NEW y \in Line
               PROVE  img'[y] = IF Treated(y)' THEN Chain!Filtered(filters[k], before)[y]
                                               ELSE before[y]
    BY <1>1, SameFilter DEF HalfFiltered, input
  <2>1. /\ Owner(y) \in Thread /\ Owner(y)' = Owner(y)
        /\ y \in Int /\ y < height
        /\ FirstLine(Owner(y)) <= y /\ y <= LastLine(Owner(y))
    BY <1>1, <1>3, OwnerOfLine, SameFilter DEF Line
  <2>2. Joined(Owner(y))' <=> Joined(Owner(y))
    BY <1>1, <2>1 DEF Joined
  <2>3. CASE y = l
    <3>1. Owner(y) = t
      BY <1>1, <1>4, <2>1, <2>3, AtOwnLine DEF l
    <3>2. ~Treated(y)
      BY <1>2, <1>3, <2>1, <2>3, <3>1, ThreadNat DEF Treated, Joined, Alive, l
    <3>3. img[y] = before[y]
      BY <1>1, <1>2, <3>2 DEF HalfFiltered
    <3>4. img'[y] = Chain!Filtered(filters[k], before)[y]
      BY <1>2, <1>6, <2>1, <2>3, <3>3, NewLine
    <3>5. Treated(y)'
      BY <1>4, <1>5, <2>1, <2>3, <3>1 DEF Treated
    <3> QED BY <3>4, <3>5
  <2>4. CASE y # l
    <3>1. Treated(y)' <=> Treated(y)
      <4>1. CASE Owner(y) = t
        <5>1. y < l + 1 <=> y < l
          BY <1>4, <2>1, <2>4
        <5> QED BY <1>1, <1>5, <2>1, <2>2, <4>1, <5>1 DEF Treated, l
      <4>2. CASE Owner(y) # t
        BY <1>5, <2>1, <2>2, <4>2 DEF Treated
      <4> QED BY <4>1, <4>2
    <3> QED BY <1>1, <1>2, <1>6, <2>4, <3>1 DEF HalfFiltered
  <2> QED BY <2>3, <2>4
<1> QED BY <1>7, <1>8, <1>9, <1>11, <1>12 DEF IInv

\* A thread main may join has treated all the lines it owns.
LEMMA JoinedAreTreated ==
  ASSUME IInv, Join, NEW y \in Line, Owner(y) = i
  PROVE  Treated(y)
<1>1. TypeOK /\ main # "next" /\ ThreadsInBand /\ Ended(i)
  BY DEF IInv, Join
<1>2. k \in Filter /\ nThread[k] \in Nat /\ Band \in Nat /\ height \in Nat
  BY <1>1, Running
<1>3. i \in Thread /\ y <= LastLine(i) /\ y \in Int
  BY <1>1, <1>2, OwnerOfLine DEF Line
<1>4. /\ threads[i] # NULL /\ threads[i].last = LastLine(i)
      /\ threads[i].line > threads[i].last
  BY <1>1, <1>3 DEF Ended, ThreadsInBand
<1>5. threads[i].line \in Nat /\ LastLine(i) \in Int
  BY <1>1, <1>2, <1>3, <1>4, ThreadNat DEF TypeOK, LastLine
<1> QED BY <1>3, <1>4, <1>5 DEF Treated

LEMMA JoinInv ==
  ASSUME IInv, Join
  PROVE  IInv'
<1> USE DEF Join
<1>1. /\ TypeOK /\ Images /\ ThreadsInBand /\ HalfFiltered /\ CopyKept
      /\ main = "join" /\ UNCHANGED <<input, before>> /\ img' = img
      /\ threads' = [threads EXCEPT ![i] = NULL]
  BY DEF IInv
<1>2. /\ k \in Filter /\ i \in Nat /\ i < nThread[k] /\ i \in Thread
      /\ nThread[k] \in Nat
  BY <1>1, Running DEF TypeOK
<1>3. /\ threads'[i] = NULL
      /\ \A t \in Thread : t # i => threads'[t] = threads[t]
  BY <1>1, <1>2 DEF TypeOK
<1>4. threads' \in [Thread -> [line : Nat, last : Int] \cup {NULL}]
  BY <1>1 DEF TypeOK
<1>5. CASE i + 1 < nThread[k]
  <2>1. i' = i + 1 /\ main' = main /\ k' = k /\ copy' = copy
    BY <1>5
  <2> HIDE DEF Join
  <2>2. i + 1 \in Thread
    BY <1>1, <1>2, <1>5, Bands
  <2>3. TypeOK'
    BY <1>1, <1>2, <1>4, <1>5, <2>1, <2>2, SameFilter DEF TypeOK, input
  <2>4. Images' /\ CopyKept'
    BY <1>1, <2>1, SameFilter DEF Images, IsImage, CopyKept, input
  <2>5. ThreadsInBand'
    <3>1. \A t \in Thread : Alive(t)' <=> Alive(t) /\ t # i
      BY <1>1, <1>2, <2>1, ThreadNat DEF Alive, input
    <3> SUFFICES ASSUME NEW t \in Thread
                 PROVE  /\ threads'[t] # NULL <=> Alive(t)'
                        /\ threads'[t] # NULL =>
                             /\ threads'[t].last = LastLine(t)
                             /\ FirstLine(t) <= threads'[t].line
                             /\ threads'[t].line <= threads'[t].last + 1
      BY <1>1, <2>1, SameFilter DEF ThreadsInBand
    <3> QED BY <1>1, <1>3, <3>1 DEF ThreadsInBand
  <2>6. HalfFiltered'
    <3> SUFFICES ASSUME NEW y \in Line PROVE Treated(y)' <=> Treated(y)
      BY <1>1, <2>1, SameFilter DEF HalfFiltered, input
    <3>1. Owner(y) \in Thread /\ Owner(y) \in Nat /\ Owner(y)' = Owner(y)
      BY <1>1, <1>2, <2>1, OwnerOfLine, SameFilter, ThreadNat
    <3>2. CASE Owner(y) = i
      <4>1. Joined(Owner(y))'
        BY <1>1, <1>2, <2>1, <3>1, <3>2 DEF Joined
      <4> QED BY <3>2, <4>1, JoinedAreTreated DEF Treated
    <3>3. CASE Owner(y) # i
      <4>1. Joined(Owner(y))' <=> Joined(Owner(y))
        BY <1>1, <1>2, <2>1, <3>1, <3>3 DEF Joined
      <4> QED BY <1>3, <3>1, <3>3, <4>1 DEF Treated
    <3> QED BY <3>2, <3>3
  <2> QED BY <2>3, <2>4, <2>5, <2>6 DEF IInv
<1>6. CASE ~(i + 1 < nThread[k])
  <2>1. i' = 0 /\ main' = "next" /\ k' = k - 1 /\ copy' = NULL
    BY <1>6
  <2> HIDE DEF Join
  <2>2. 0 \in Thread
    BY <1>1, <1>2, Bands
  <2>3. k' \in -1 .. NFILTERS - 1
    BY <1>2, <2>1, ForkAssumption DEF Filter
  <2>4. TypeOK' /\ Images'
    BY <1>1, <1>4, <2>1, <2>2, <2>3 DEF TypeOK, Images, IsImage, Line, input
  <2>5. ThreadsInBand'
    <3>1. \A t \in Thread : threads'[t] = NULL
      BY <1>1, <1>2, <1>3, <1>6, ThreadNat DEF ThreadsInBand, Alive
    <3> QED BY <2>1, <3>1 DEF ThreadsInBand, Alive
  <2>6. HalfFiltered' /\ CopyKept'
    BY <2>1 DEF HalfFiltered, CopyKept
  <2> QED BY <2>4, <2>5, <2>6 DEF IInv
<1> QED BY <1>5, <1>6

LEMMA Inductive == IInv /\ [Next]_vars => IInv'
<1> SUFFICES ASSUME IInv, [Next]_vars PROVE IInv'
  OBVIOUS
<1>1. CASE UNCHANGED vars
  BY <1>1 DEF IInv, vars, TypeOK, Images, IsImage, ThreadsInBand, HalfFiltered,
              CopyKept, Line, Alive, Joined, Treated, Owner, Band, FirstLine,
              LastLine, Ended
<1> QED BY <1>1, CallFilterInv, WrongFilterInv, CreateInv, JoinInv, TreatLineInv
        DEF Next, MainStep, Written

-----------------------------------------------------------------------------
(* The refinement.                                                          *)

\* The last join finds the whole image filtered.
LEMMA WholeImage ==
  ASSUME IInv, Join, ~(i + 1 < nThread[k])
  PROVE  img = Chain!Filtered(filters[k], before)
<1>1. /\ TypeOK /\ Images /\ HalfFiltered /\ main = "join"
  BY DEF IInv, Join
<1>2. k \in Filter /\ i \in Nat /\ i < nThread[k] /\ nThread[k] \in Nat
  BY <1>1, Running
<1>3. ASSUME NEW y \in Line PROVE Treated(y)
  <2>1. Owner(y) \in 0 .. nThread[k] - 1
    BY <1>1, <1>2, OwnerOfLine
  <2>2. CASE Owner(y) = i
    BY <2>2, JoinedAreTreated
  <2>3. CASE Owner(y) # i
    BY <1>1, <1>2, <2>1, <2>3 DEF Treated, Joined
  <2> QED BY <2>2, <2>3
<1>4. \A y \in Line : img[y] = Chain!Filtered(filters[k], before)[y]
  BY <1>1, <1>3 DEF HalfFiltered
<1>5. DOMAIN before = Line /\ img = [y \in Line |-> img[y]]
  BY <1>1 DEF TypeOK, Images, IsImage
<1> QED BY <1>4, <1>5 DEF Chain!Filtered

LEMMA StepImplements ==
  ASSUME IInv, Next
  PROVE  [Chain!Next]_<<IF main = "next" THEN img ELSE before, filters, k>>
<1>1. CASE CallFilter
  BY <1>1 DEF CallFilter, input
<1>2. CASE WrongFilter
  BY <1>2 DEF WrongFilter, input, Chain!Next, Chain!Skip
<1>3. CASE Create
  BY <1>3 DEF Create, input
<1>4. ASSUME NEW t \in Thread, TreatLine(t)
      PROVE  UNCHANGED <<IF main = "next" THEN img ELSE before, filters, k>>
  <2>1. main # "next"
    BY <1>4 DEF TreatLine, IInv, ThreadsInBand, Alive
  <2> QED BY <1>4, <2>1 DEF TreatLine, input
<1>5. CASE Join
  <2>1. CASE i + 1 < nThread[k]
    BY <1>5, <2>1 DEF Join, input
  <2>2. CASE ~(i + 1 < nThread[k])
    <3>1. img = Chain!Filtered(filters[k], before)
      BY <1>5, <2>2, WholeImage
    <3>2. k >= 0 /\ filters[k] # "wrong"
      BY <1>5, Running, ForkAssumption DEF IInv, Join, Filter, CopyKept
    <3> QED BY <1>5, <2>2, <3>1, <3>2 DEF Join, input, Chain!Next, Chain!Apply
  <2> QED BY <2>1, <2>2
<1>6. CASE Written
  BY <1>6 DEF Written, vars
<1> QED BY <1>1, <1>2, <1>3, <1>4, <1>5, <1>6 DEF Next, MainStep

LEMMA InitImplements == Init => Chain!Init
BY ForkAssumption DEF Init, Chain!Init, Filter, FirstFilter

-----------------------------------------------------------------------------
(* The theorems.                                                            *)

LEMMA Invariance == Spec => []IInv
BY InitInv, Inductive, PTL DEF Spec

\* main and the threads keep the types the code gives them.
THEOREM ForkJoinTyped == Spec => []TypeOK
<1>1. IInv => TypeOK
  BY DEF IInv
<1> QED BY <1>1, Invariance, PTL

\* Two threads of a filter never treat the same line, whatever the height of
\* the image and the number of threads.
THEOREM LinesNotShared == Spec => []NoSharedLine
BY InvNoSharedLine, Invariance, PTL

\* The program does what ImageChain promises: its filters one after the other,
\* each on the whole image, the blur on the image as it was.
THEOREM ForkJoinImplementsChain == Spec => ImplementsChain
<1>1. IInv /\ [Next]_vars =>
        [Chain!Next]_<<IF main = "next" THEN img ELSE before, filters, k>>
  BY StepImplements DEF vars
<1>2. Chain!Spec <=> Chain!Init /\
        [][Chain!Next]_<<IF main = "next" THEN img ELSE before, filters, k>>
  BY DEF Chain!Spec
<1> QED BY <1>1, <1>2, InitImplements, Invariance, PTL DEF Spec, ImplementsChain
=============================================================================
