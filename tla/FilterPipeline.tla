--------------------------- MODULE FilterPipeline ---------------------------
(***************************************************************************)
(* The pipeline of threadpool.c: every filter has its own threads; a       *)
(* thread of filter f takes a packet (a band of lines of one image) from   *)
(* row f of mat_buf, applies the filter to the band and inserts the packet *)
(* in row f+1.  A blur filter reads the neighbouring bands, so it starts   *)
(* on an image only when all the packets of the image are in its row, and  *)
(* reads a private copy of the image (read_only) made at that moment.      *)
(*                                                                         *)
(* A step of a thread is one critical section, one semaphore operation, or *)
(* the beginning or end of one of the two long accesses to the pixels      *)
(* (the memcpy of image_copi and apply_filter).                            *)
(***************************************************************************)
EXTENDS Integers, Sequences, FiniteSets

CONSTANTS NFILTERS,    \* number of filters
          NIMAGE,      \* number of images of the block
          PerImage,    \* number of packets an image is cut into (NPACK/NIMAGE)
          Blur,        \* the filters whose name is "blur"
          Thread,      \* the threads started by image_treatement
          num_filter,  \* the filter a thread works for (prod_param)
          None,        \* the NULL pointer, a free mutex, no value
          Garbage      \* an uninitialised pointer

Filter == 0 .. NFILTERS - 1
Row    == 0 .. NFILTERS
Image  == 0 .. NIMAGE - 1
Pack   == 0 .. PerImage - 1
Packet == Image \X Pack
NPACK  == NIMAGE * PerImage
Slot   == 0 .. NPACK - 1
NBLUR  == Cardinality(Blur)
BlurRow == 0 .. NBLUR - 1

\* The copies of an image: at most one per blur filter and image.
CopyId == BlurRow \X Image

ASSUME ConstantsAssumption ==
  /\ NFILTERS \in Nat \ {0}
  /\ NIMAGE \in Nat \ {0}
  /\ PerImage \in Nat \ {0}
  /\ Blur \subseteq Filter
  /\ num_filter \in [Thread -> Filter]
  /\ None \notin Packet \cup CopyId \cup Image \cup Thread
  /\ Garbage \notin CopyId \cup {None}
  /\ Thread \cap (Row \X Slot) = {}

\* A filter without a thread never empties its row: the program would hang.
ASSUME EveryFilterHasAThread ==
  /\ IsFiniteSet(Thread)
  /\ \A f \in Filter : \E t \in Thread : num_filter[t] = f

num_img(p) == p[1]

\* Mutant: only the first filter of the line is recognised as a blur.
f_isblur_FirstOnly == [f \in Filter |-> IF f \in Blur /\ f = 0 THEN 1 ELSE 0]

\* initializeBlur: the n-th blur filter has number n, the others 0; the filter
\* just before the n-th blur filter has f_beforeblur = n.
f_isblur == [f \in Filter |->
  IF f \in Blur THEN Cardinality({g \in Blur : g <= f}) ELSE 0]
f_beforeblur == [f \in Filter |->
  IF f + 1 \in Filter THEN f_isblur[f + 1] ELSE 0]

isblur(t)   == f_isblur[num_filter[t]]
BlurOf(t)   == isblur(t) - 1
NextBlur(t) == f_beforeblur[num_filter[t]] - 1

\* Mutant: productor inserts in the row it took from.
OutRow_Same(t) == num_filter[t]

OutRow(t) == num_filter[t] + 1

VARIABLES
  pc,                 \* pc[t]: where thread t is in productor
  scan,               \* scan[t]: local i of check_lmat_blur
  chosen,             \* chosen[t]: local c of productor, the image to blur
  paquet,             \* paquet[t]: the packet thread t holds
  mat_buf,            \* mat_buf[r][i]: the packet in slot i of row r
  read_only,          \* read_only[p]: the copy packet p points to
  applied,            \* applied[p]: the filters applied to the band so far
  full, empty,        \* semaphores of the rows
  to_pass,            \* passes started by the threads of a filter
  mat_blur,           \* mat_blur[b][i]: packets of i waiting for blur b
  can_copi,           \* semaphores of the blur filters
  can_i_take_c,       \* threads image i was given to in blur b
  can_i_take_c_mutex, \* owner of the mutex, or None
  copi_is_done,       \* copi_is_done[b][i]: copies made of i for blur b
  copi_is_done_mutex, \* owner of the mutex, or None
  buf_mutex,          \* owner during image_copi, or None
  choosen_c,          \* choosen_c[b][i]: packets of i blurred by b
  copy,               \* copy[k]: heap state of the copy k
  content,            \* content[k][j]: the filters in the j-th band of k
  failed,             \* error() was called
  joined              \* image_treatement joined every thread

local    == <<scan, chosen, paquet>>
buffers  == <<mat_buf, read_only>>
choice   == <<mat_blur, can_copi, can_i_take_c, can_i_take_c_mutex>>
copying  == <<copi_is_done, copi_is_done_mutex, choosen_c, copy, content>>

vars == <<pc, local, buffers, applied, full, empty, to_pass, choice, copying,
          buf_mutex, failed, joined>>

PC == {"top", "waitCopi", "lockTake", "scan", "repost", "copi", "lockBuf",
       "memcpy", "waitFull", "take", "apply", "waitEmpty", "insert",
       "postFull", "beforeBlur", "exit"}

\* imagesCut fills row 0; image_treatement gives every semaphore its value.
Init ==
  /\ pc     = [t \in Thread |-> "top"]
  /\ scan   = [t \in Thread |-> 0]
  /\ chosen = [t \in Thread |-> None]
  /\ paquet = [t \in Thread |-> None]
  /\ mat_buf = [r \in Row |-> [i \in Slot |->
       IF r = 0 THEN <<i \div PerImage, i % PerImage>> ELSE None]]
  /\ read_only = [p \in Packet |-> Garbage]
  /\ applied = [p \in Packet |-> <<>>]
  /\ full  = [r \in Row |-> IF r = 0 THEN NPACK ELSE 0]
  /\ empty = [r \in Row |-> IF r = 0 THEN 0 ELSE NPACK]
  /\ to_pass = [f \in Filter |-> 0]
  /\ mat_blur = [b \in BlurRow |-> [i \in Image |->
       IF b = 0 /\ 0 \in Blur THEN PerImage ELSE 0]]
  /\ can_copi = [b \in BlurRow |-> IF b = 0 /\ 0 \in Blur THEN NIMAGE ELSE 0]
  /\ can_i_take_c = [b \in BlurRow |-> [i \in Image |-> 0]]
  /\ can_i_take_c_mutex = [b \in BlurRow |-> None]
  /\ copi_is_done = [b \in BlurRow |-> [i \in Image |-> 0]]
  /\ copi_is_done_mutex = [b \in BlurRow |-> [i \in Image |-> None]]
  /\ choosen_c = [b \in BlurRow |-> [i \in Image |-> 0]]
  /\ copy = [k \in CopyId |-> "none"]
  /\ content = [k \in CopyId |-> [j \in Pack |-> <<>>]]
  /\ buf_mutex = [r \in Row |-> None]
  /\ failed = FALSE
  /\ joined = FALSE

At(t, here) == pc[t] = here
Goto(t, there) == pc' = [pc EXCEPT ![t] = there]

-----------------------------------------------------------------------------
(* The head of the loop: NPACK passes in all for the threads of a filter.  *)

\* Mutant: the bound counts the packets of one image only.
NoPassLeft_OneImage(t) == to_pass[num_filter[t]] >= PerImage

NoPassLeft(t) == to_pass[num_filter[t]] >= NPACK

ExitLoop(t) ==
  /\ At(t, "top") /\ NoPassLeft(t)
  /\ Goto(t, "exit")
  /\ UNCHANGED <<local, buffers, applied, full, empty, to_pass, choice,
                 copying, buf_mutex, failed, joined>>

Pass(t) ==
  /\ At(t, "top") /\ ~NoPassLeft(t)
  /\ to_pass' = [to_pass EXCEPT ![num_filter[t]] = @ + 1]
  /\ Goto(t, IF isblur(t) # 0 THEN "waitCopi" ELSE "waitFull")
  /\ UNCHANGED <<local, buffers, applied, full, empty, choice, copying,
                 buf_mutex, failed, joined>>

-----------------------------------------------------------------------------
(* A blur thread chooses an image all of whose packets have arrived.        *)

\* Mutant: the semaphore lets one thread too many in.
WaitCanCopi_OneMore(t) ==
  /\ At(t, "waitCopi") /\ can_copi[BlurOf(t)] >= 0
  /\ can_copi' = [can_copi EXCEPT ![BlurOf(t)] = @ - 1]
  /\ Goto(t, "lockTake")
  /\ UNCHANGED <<local, buffers, applied, full, empty, to_pass, mat_blur,
                 can_i_take_c, can_i_take_c_mutex, copying, buf_mutex,
                 failed, joined>>

WaitCanCopi(t) ==
  /\ At(t, "waitCopi") /\ can_copi[BlurOf(t)] > 0
  /\ can_copi' = [can_copi EXCEPT ![BlurOf(t)] = @ - 1]
  /\ Goto(t, "lockTake")
  /\ UNCHANGED <<local, buffers, applied, full, empty, to_pass, mat_blur,
                 can_i_take_c, can_i_take_c_mutex, copying, buf_mutex,
                 failed, joined>>

LockTake(t) ==
  /\ At(t, "lockTake") /\ can_i_take_c_mutex[BlurOf(t)] = None
  /\ can_i_take_c_mutex' = [can_i_take_c_mutex EXCEPT ![BlurOf(t)] = t]
  /\ scan' = [scan EXCEPT ![t] = 0]
  /\ Goto(t, "scan")
  /\ UNCHANGED <<chosen, paquet, buffers, applied, full, empty, to_pass,
                 mat_blur, can_copi, can_i_take_c, copying, buf_mutex,
                 failed, joined>>

\* Mutant: an image qualifies as soon as one of its packets has arrived.
MayTake_Early(b, i) == mat_blur[b][i] > 0 /\ can_i_take_c[b][i] < PerImage

MayTake(b, i) == mat_blur[b][i] = PerImage /\ can_i_take_c[b][i] < PerImage

\* check_lmat_blur visits the images one by one, each under its blur_mutex;
\* when no image qualifies it returns -1 and productor calls error().
CheckLmatBlur(t) ==
  LET b == BlurOf(t)
      i == scan[t]
  IN /\ At(t, "scan")
     /\ IF i \notin Image
        THEN /\ failed' = TRUE
             /\ UNCHANGED <<pc, scan, chosen, can_i_take_c>>
        ELSE /\ UNCHANGED failed
             /\ IF MayTake(b, i)
                THEN /\ chosen' = [chosen EXCEPT ![t] = i]
                     /\ can_i_take_c' = [can_i_take_c EXCEPT ![b][i] = @ + 1]
                     /\ scan' = [scan EXCEPT ![t] = 0]
                     /\ Goto(t, "repost")
                ELSE /\ scan' = [scan EXCEPT ![t] = @ + 1]
                     /\ UNCHANGED <<pc, chosen, can_i_take_c>>
     /\ UNCHANGED <<paquet, buffers, applied, full, empty, to_pass, mat_blur,
                    can_copi, can_i_take_c_mutex, copying, buf_mutex, joined>>

\* Mutants: the repost is not conditional; the repost is missing.
MoreToTake_Always(b, i) == TRUE
MoreToTake_Never(b, i) == FALSE

MoreToTake(b, i) == can_i_take_c[b][i] < PerImage

\* The post that lets the next thread take the same image, and the unlock.
Repost(t) ==
  LET b == BlurOf(t)
  IN /\ At(t, "repost")
     /\ can_copi' = IF MoreToTake(b, chosen[t])
                    THEN [can_copi EXCEPT ![b] = @ + 1] ELSE can_copi
     /\ can_i_take_c_mutex' = [can_i_take_c_mutex EXCEPT ![b] = None]
     /\ Goto(t, "copi")
     /\ UNCHANGED <<local, buffers, applied, full, empty, to_pass, mat_blur,
                    can_i_take_c, copying, buf_mutex, failed, joined>>

-----------------------------------------------------------------------------
(* The first thread that was given the image copies it (image_copi).        *)

\* The slots of row r that hold a packet of image i.
SlotsOf(r, i) == {s \in Slot : mat_buf[r][s] # None /\ num_img(mat_buf[r][s]) = i}

CopiAlreadyDone(t) ==
  /\ At(t, "copi")
  /\ copi_is_done_mutex[BlurOf(t)][chosen[t]] = None
  /\ copi_is_done[BlurOf(t)][chosen[t]] # 0
  /\ Goto(t, "waitFull")
  /\ UNCHANGED <<local, buffers, applied, full, empty, to_pass, choice,
                 copying, buf_mutex, failed, joined>>

\* Mutant: copi_is_done is set before image_copi and the mutex released.
LockCopi_DoneFirst(t) ==
  /\ At(t, "copi") /\ copi_is_done[BlurOf(t)][chosen[t]] = 0
  /\ copi_is_done' = [copi_is_done EXCEPT ![BlurOf(t)][chosen[t]] = 1]
  /\ Goto(t, "lockBuf")
  /\ UNCHANGED <<local, buffers, applied, full, empty, to_pass, choice,
                 copi_is_done_mutex, choosen_c, copy, content, buf_mutex,
                 failed, joined>>

LockCopi(t) ==
  LET b == BlurOf(t)
      c == chosen[t]
  IN /\ At(t, "copi")
     /\ copi_is_done_mutex[b][c] = None /\ copi_is_done[b][c] = 0
     /\ copi_is_done_mutex' = [copi_is_done_mutex EXCEPT ![b][c] = t]
     /\ Goto(t, "lockBuf")
     /\ UNCHANGED <<local, buffers, applied, full, empty, to_pass, choice,
                    copi_is_done, choosen_c, copy, content, buf_mutex,
                    failed, joined>>

LockBuf(t) ==
  /\ At(t, "lockBuf") /\ buf_mutex[num_filter[t]] = None
  /\ buf_mutex' = [buf_mutex EXCEPT ![num_filter[t]] = t]
  /\ Goto(t, "memcpy")
  /\ UNCHANGED <<local, buffers, applied, full, empty, to_pass, choice,
                 copying, failed, joined>>

\* The end of the memcpy: every packet of the image in the row points to the
\* copy; both mutexes are released.  Without a packet in the row nothing is
\* allocated.
EndCopi(t) ==
  LET b == BlurOf(t)
      c == chosen[t]
      r == num_filter[t]
      k == <<b, c>>
  IN /\ At(t, "memcpy")
     /\ IF SlotsOf(r, c) = {}
        THEN UNCHANGED <<copy, content, read_only>>
        ELSE /\ copy' = [copy EXCEPT ![k] = "live"]
             /\ content' = [content EXCEPT ![k] = [j \in Pack |-> applied[<<c, j>>]]]
             /\ read_only' = [p \in Packet |->
                  IF \E s \in SlotsOf(r, c) : mat_buf[r][s] = p
                  THEN k ELSE read_only[p]]
     /\ buf_mutex' = [buf_mutex EXCEPT ![r] = None]
     /\ copi_is_done' = [copi_is_done EXCEPT ![b][c] = @ + 1]
     /\ copi_is_done_mutex' = [copi_is_done_mutex EXCEPT ![b][c] = None]
     /\ Goto(t, "waitFull")
     /\ UNCHANGED <<local, mat_buf, applied, full, empty, to_pass, choice,
                    choosen_c, failed, joined>>

-----------------------------------------------------------------------------
(* consommator: a packet of the row, of image chosen[t] for a blur.         *)

WaitFull(t) ==
  /\ At(t, "waitFull") /\ full[num_filter[t]] > 0
  /\ full' = [full EXCEPT ![num_filter[t]] = @ - 1]
  /\ Goto(t, "take")
  /\ UNCHANGED <<local, buffers, applied, empty, to_pass, choice, copying,
                 buf_mutex, failed, joined>>

\* What take_elem, resp. take_elem_image, looks for in row r.
Wanted(t, r) == IF chosen[t] = None THEN {s \in Slot : mat_buf[r][s] # None}
                                    ELSE SlotsOf(r, chosen[t])

IsFirst(s, S) == s \in S /\ \A q \in S : s <= q

\* Mutant: the slot is not set to NULL.
TakeSlot_Kept(t, r, s) ==
  /\ paquet' = [paquet EXCEPT ![t] = mat_buf[r][s]]
  /\ UNCHANGED mat_buf

TakeSlot(t, r, s) ==
  /\ paquet' = [paquet EXCEPT ![t] = mat_buf[r][s]]
  /\ mat_buf' = [mat_buf EXCEPT ![r][s] = None]

\* Takes the first packet wanted and posts empty; no packet: error().
Take(t) ==
  LET r == num_filter[t]
  IN /\ At(t, "take") /\ buf_mutex[r] = None
     /\ IF Wanted(t, r) = {}
        THEN failed' = TRUE /\ UNCHANGED <<pc, paquet, mat_buf, empty>>
        ELSE /\ \E s \in Slot : IsFirst(s, Wanted(t, r)) /\ TakeSlot(t, r, s)
             /\ empty' = [empty EXCEPT ![r] = @ + 1]
             /\ Goto(t, "apply")
             /\ UNCHANGED failed
     /\ UNCHANGED <<scan, chosen, read_only, applied, full, to_pass, choice,
                    copying, buf_mutex, joined>>

\* The thread is inside apply_filter from Take to this step.
EndApply(t) ==
  /\ At(t, "apply")
  /\ applied' = [applied EXCEPT ![paquet[t]] = Append(@, num_filter[t])]
  /\ Goto(t, "waitEmpty")
  /\ UNCHANGED <<local, buffers, full, empty, to_pass, choice, copying,
                 buf_mutex, failed, joined>>

-----------------------------------------------------------------------------
(* The producer's half: the packet goes to the next row.                    *)

WaitEmpty(t) ==
  /\ At(t, "waitEmpty") /\ empty[OutRow(t)] > 0
  /\ empty' = [empty EXCEPT ![OutRow(t)] = @ - 1]
  /\ Goto(t, "insert")
  /\ UNCHANGED <<local, buffers, applied, full, to_pass, choice, copying,
                 buf_mutex, failed, joined>>

\* insert_elem: the first free slot; error() when there is none.
InsertElem(t) ==
  LET r == OutRow(t)
      free == {s \in Slot : mat_buf[r][s] = None}
  IN IF free = {}
     THEN failed' = TRUE /\ UNCHANGED <<pc, mat_buf>>
     ELSE /\ \E s \in Slot : /\ IsFirst(s, free)
                             /\ mat_buf' = [mat_buf EXCEPT ![r][s] = paquet[t]]
          /\ Goto(t, "postFull")
          /\ UNCHANGED failed

Insert(t) ==
  /\ At(t, "insert") /\ buf_mutex[OutRow(t)] = None /\ isblur(t) = 0
  /\ InsertElem(t)
  /\ UNCHANGED <<local, read_only, applied, full, empty, to_pass, choice,
                 copying, buf_mutex, joined>>

\* image_copi_destroy on a row: frees the copy the first packet of image i in
\* the row points to, and clears the pointer of all of them.  Only packets
\* still in the row are visited.
ImageCopiDestroy(i, row) ==
  LET visited == {s \in Slot : /\ row[s] # None /\ num_img(row[s]) = i
                               /\ read_only[row[s]] # None}
  IN IF visited = {}
     THEN UNCHANGED <<copy, read_only>>
     ELSE /\ \E s \in Slot :
               /\ IsFirst(s, visited)
               /\ copy' = [copy EXCEPT ![read_only[row[s]]] =
                             IF @ = "live" THEN "freed" ELSE "double"]
          /\ read_only' = [p \in Packet |->
               IF \E s \in visited : row[s] = p THEN None ELSE read_only[p]]

\* Mutant: the count is tested before the increment.
LastBlurred_Before(b, i) == choosen_c[b][i] = PerImage

\* Whether the packet just inserted is the last one of its image.
LastBlurred(b, i) == choosen_c[b][i] + 1 = PerImage

\* The same for a blur, which also counts the packets of the image done and
\* destroys the copy with the last one, all under buf_mutex.
InsertBlurred(t) ==
  LET b == BlurOf(t)
      c == chosen[t]
  IN /\ At(t, "insert") /\ buf_mutex[OutRow(t)] = None /\ isblur(t) # 0
     /\ InsertElem(t)
     /\ choosen_c' = [choosen_c EXCEPT ![b][c] = @ + 1]
     /\ IF LastBlurred(b, c)
        THEN ImageCopiDestroy(c, mat_buf[OutRow(t)]')
        ELSE UNCHANGED <<copy, read_only>>
     /\ UNCHANGED <<local, applied, full, empty, to_pass, choice,
                    copi_is_done, copi_is_done_mutex, content, buf_mutex,
                    joined>>

\* The end of a pass: the locals of the loop body are gone.
EndPass(t) ==
  /\ Goto(t, "top")
  /\ paquet' = [paquet EXCEPT ![t] = None]
  /\ chosen' = [chosen EXCEPT ![t] = None]

\* Mutant: the semaphore of the row the packet came from is posted.
RowToPost_Own(t) == num_filter[t]

RowToPost(t) == OutRow(t)

PostFull(t) ==
  /\ At(t, "postFull")
  /\ full' = [full EXCEPT ![RowToPost(t)] = @ + 1]
  /\ IF f_beforeblur[num_filter[t]] # 0
     THEN Goto(t, "beforeBlur") /\ UNCHANGED <<paquet, chosen>>
     ELSE EndPass(t)
  /\ UNCHANGED <<scan, buffers, applied, empty, to_pass, choice, copying,
                 buf_mutex, failed, joined>>

\* Mutant: can_copi is posted for every packet.
Complete_Always(b, i) == TRUE

Complete(b, i) == mat_blur[b][i] + 1 = PerImage

\* Under blur_mutex: one packet more of its image waits for the next blur;
\* the last one posts can_copi.  The packet is already in the next row.
BeforeBlur(t) ==
  LET b == NextBlur(t)
      i == num_img(paquet[t])
  IN /\ At(t, "beforeBlur")
     /\ mat_blur' = [mat_blur EXCEPT ![b][i] = @ + 1]
     /\ can_copi' = IF Complete(b, i)
                    THEN [can_copi EXCEPT ![b] = @ + 1] ELSE can_copi
     /\ EndPass(t)
     /\ UNCHANGED <<scan, buffers, applied, full, empty, to_pass,
                    can_i_take_c, can_i_take_c_mutex, copying, buf_mutex,
                    failed, joined>>

-----------------------------------------------------------------------------
ThreadStep(t) ==
  \/ ExitLoop(t) \/ Pass(t)
  \/ WaitCanCopi(t) \/ LockTake(t) \/ CheckLmatBlur(t) \/ Repost(t)
  \/ CopiAlreadyDone(t) \/ LockCopi(t) \/ LockBuf(t) \/ EndCopi(t)
  \/ WaitFull(t) \/ Take(t) \/ EndApply(t)
  \/ WaitEmpty(t) \/ Insert(t) \/ InsertBlurred(t)
  \/ PostFull(t) \/ BeforeBlur(t)

\* image_treatement joins every thread it started.
Join ==
  /\ ~joined /\ \A t \in Thread : At(t, "exit")
  /\ joined' = TRUE
  /\ UNCHANGED <<pc, local, buffers, applied, full, empty, to_pass, choice,
                 copying, buf_mutex, failed>>

\* The end of the treatment, or of the process after error().
Terminated == (joined \/ failed) /\ UNCHANGED vars

Next ==
  \/ ~failed /\ \E t \in Thread : ThreadStep(t)
  \/ ~failed /\ Join
  \/ Terminated

Spec == Init /\ [][Next]_vars

\* The scheduler runs every thread; every loop is bounded by to_pass, so a
\* semaphore or mutex need not be granted fairly.
FairSpec ==
  /\ Spec
  /\ \A t \in Thread : WF_vars(~failed /\ ThreadStep(t))
  /\ WF_vars(~failed /\ Join)

-----------------------------------------------------------------------------
(* Properties.                                                              *)

TypeOK ==
  /\ pc \in [Thread -> PC]
  /\ scan \in [Thread -> 0 .. NIMAGE]
  /\ chosen \in [Thread -> Image \cup {None}]
  /\ paquet \in [Thread -> Packet \cup {None}]
  /\ mat_buf \in [Row -> [Slot -> Packet \cup {None}]]
  /\ read_only \in [Packet -> CopyId \cup {None, Garbage}]
  /\ applied \in [Packet -> Seq(Filter)]
  /\ full \in [Row -> Nat]
  /\ empty \in [Row -> Nat]
  /\ to_pass \in [Filter -> Nat]
  /\ mat_blur \in [BlurRow -> [Image -> Nat]]
  /\ can_copi \in [BlurRow -> Nat]
  /\ can_i_take_c \in [BlurRow -> [Image -> Nat]]
  /\ can_i_take_c_mutex \in [BlurRow -> Thread \cup {None}]
  /\ copi_is_done \in [BlurRow -> [Image -> Nat]]
  /\ copi_is_done_mutex \in [BlurRow -> [Image -> Thread \cup {None}]]
  /\ buf_mutex \in [Row -> Thread \cup {None}]
  /\ choosen_c \in [BlurRow -> [Image -> Nat]]
  /\ copy \in [CopyId -> {"none", "live", "freed", "double"}]
  /\ content \in [CopyId -> [Pack -> Seq(Filter)]]
  /\ failed \in BOOLEAN
  /\ joined \in BOOLEAN

\* Thread t took its packet out of a row and has not inserted it yet.
Holds(t) == pc[t] \in {"apply", "waitEmpty", "insert"}

\* The places of the pipeline: the slots of the rows and the threads' hands.
Places == (Row \X Slot) \cup Thread
AtPlace(x) == IF x \in Thread THEN IF Holds(x) THEN paquet[x] ELSE None
              ELSE mat_buf[x[1]][x[2]]

\* take_elem, take_elem_image and insert_elem move packets between threads:
\* every packet is always in exactly one slot or in the hands of one thread,
\* so no packet is lost, duplicated or overwritten.
PacketConservation ==
  \A p \in Packet : /\ \E x \in Places : AtPlace(x) = p
                    /\ \A x, y \in Places : AtPlace(x) = p /\ AtPlace(y) = p => x = y

\* The filters a band has had when it leaves filter n-1.
Stage(n) == [k \in 1 .. n |-> k - 1]

\* Every band gets the filters in the order of the command line, each once:
\* row r holds bands that had filters 0..r-1, a thread of filter f holds one
\* that had 0..f-1 (0..f after apply_filter).
FiltersInOrder ==
  /\ \A r \in Row, s \in Slot :
       mat_buf[r][s] # None => applied[mat_buf[r][s]] = Stage(r)
  /\ \A t \in Thread : Holds(t) =>
       applied[paquet[t]] = Stage(IF At(t, "apply") THEN num_filter[t] ELSE OutRow(t))

\* error() is never called: check_lmat_blur finds an image whenever can_copi
\* let the thread in, take_elem finds a packet whenever full did, and
\* insert_elem a free slot whenever empty did.
NoError == ~failed

\* filterBand_blur reads a live copy of the thread's own image, in which every
\* band has had exactly the filters before this blur: no neighbour already
\* blurred, none still missing a filter, nothing freed by another thread.
BlurReadsFinishedCopy ==
  \A t \in Thread : At(t, "apply") /\ isblur(t) # 0 =>
    LET k == read_only[paquet[t]]
    IN /\ k \in CopyId /\ k[2] = num_img(paquet[t])
       /\ copy[k] = "live"
       /\ \A j \in Pack : content[k][j] = Stage(num_filter[t])

\* While image_copi copies the pixels of an image no thread is inside
\* apply_filter on a band of that image, and no two threads copy it.
NoPixelRace ==
  \A t, u \in Thread : At(t, "memcpy") /\ t # u =>
    /\ At(u, "apply") => num_img(paquet[u]) # chosen[t]
    /\ At(u, "memcpy") => chosen[u] # chosen[t]

\* A copy is freed at most once, and at the join every copy made was freed.
CopiesFreedOnce ==
  \A k \in CopyId : copy[k] # "double" /\ (joined => copy[k] = "freed")

ThreadsAt(f, here) == {t \in Thread : num_filter[t] = f /\ At(t, here)}
PacketsIn(r) == {s \in Slot : mat_buf[r][s] # None}

\* full and empty count the packets and the free slots of a row, up to the
\* threads between a semaphore operation and the access to the row.
SemaphoresCountSlots ==
  \A r \in Row :
    /\ full[r] + Cardinality(ThreadsAt(r, "take"))
         + (IF r > 0 THEN Cardinality(ThreadsAt(r - 1, "postFull")) ELSE 0)
         = Cardinality(PacketsIn(r))
    /\ empty[r] + (IF r > 0 THEN Cardinality(ThreadsAt(r - 1, "insert")) ELSE 0)
         = NPACK - Cardinality(PacketsIn(r))

\* can_copi counts the images a blur thread may be given: one unit for each
\* image that is complete and not yet given to PerImage threads, held by the
\* semaphore or by a thread between the wait and the repost.
CanCopiCountsReadyImages ==
  \A f \in Blur :
    LET b == f_isblur[f] - 1
        inside == {t \in Thread : /\ num_filter[t] = f
                                  /\ \/ pc[t] \in {"lockTake", "scan"}
                                     \/ At(t, "repost") /\ can_i_take_c[b][chosen[t]] < PerImage}
    IN can_copi[b] + Cardinality(inside) = Cardinality({i \in Image : MayTake(b, i)})

\* When image_treatement has joined the threads, every band has had every
\* filter and lies in the last row, where free_mat_buf finds it.
AllFilteredAtJoin ==
  joined => /\ \A p \in Packet : applied[p] = Stage(NFILTERS)
            /\ \A p \in Packet : \E s \in Slot : mat_buf[NFILTERS][s] = p
            /\ full[NFILTERS] = NPACK

\* The pipeline implements the promise of FilterStages.
Stages == INSTANCE FilterStages WITH stage <- [p \in Packet |-> Len(applied[p])]
ImplementsStages == Stages!Spec

\* The joins of image_treatement return.
TreatmentEnds == <>joined
=============================================================================
