-------------------------- MODULE ForkJoinFilters --------------------------
(***************************************************************************)
(* The filters of src/projet-2.  main applies the filters of the command   *)
(* line to one image, the last one first.  A filter cuts the image into    *)
(* bands of lines, creates a thread for each band and joins them all; the  *)
(* blur first copies the image, so that its threads read the neighbouring  *)
(* bands as they were.                                                     *)
(*                                                                         *)
(* A step of a thread is the treatment of one line.  The colours of a line *)
(* are left open, as in ImageChain.                                        *)
(***************************************************************************)
EXTENDS Integers

CONSTANTS NFILTERS,       \* filters of the command line
          Filters,        \* their names; "wrong" stands for no filter
          Heights,        \* heights the image may have
          ThreadCounts,   \* numbers of threads a filter may be given
          NULL

\* A filter of 0 threads divides by zero, and an image has a line.
ASSUME ForkAssumption ==
  /\ NFILTERS \in Nat \ {0}
  /\ Heights \subseteq Nat \ {0}
  /\ ThreadCounts \subseteq Nat \ {0}
  /\ NULL \notin [{"line", "last"} -> Int]

Filter == 0 .. NFILTERS - 1
Thread == UNION {0 .. c - 1 : c \in ThreadCounts}

VARIABLES
  height, filters, nThread,   \* the image and the command line
  k,        \* the filter main applies
  main,     \* where main is in applyFilters
  i,        \* the thread main creates or joins
  before,   \* the image as it was when the filter was called
  copy,     \* pixels, the copy the blur allocates, or NULL
  img,      \* img[y]: the contents of line y
  threads   \* threads[t]: the line thread t is at and its last one, or NULL

vars == <<height, filters, nThread, k, main, i, before, copy, img, threads>>
input == <<height, filters, nThread>>

Line == 0 .. height - 1

-----------------------------------------------------------------------------
(* The bands.                                                               *)

\* The lines of a band, rounded up.
Band == height \div nThread[k] + (IF height % nThread[k] > 0 THEN 1 ELSE 0)

FirstLine(t) == t * Band

\* Mutant: the last line is the first one of the next band.
LastLine_Next(t) == (t + 1) * Band

LastLine(t) == (t + 1) * Band - 1

Ended(t) == threads[t] # NULL /\ threads[t].line > threads[t].last

-----------------------------------------------------------------------------
\* Mutant: main begins after the last filter.
FirstFilter_Len == NFILTERS

FirstFilter == NFILTERS - 1

Init ==
  /\ height \in Heights
  /\ filters \in [Filter -> Filters]
  /\ nThread \in [Filter -> ThreadCounts]
  /\ k = FirstFilter
  /\ main = "next" /\ i = 0
  /\ img = [y \in Line |-> <<y>>]
  /\ before = img
  /\ copy = NULL
  /\ threads = [t \in Thread |-> NULL]

\* applyFilters; filter_blur allocates the copy and fills it.
CallFilter ==
  /\ main = "next" /\ k >= 0 /\ filters[k] # "wrong"
  /\ copy' = IF filters[k] = "blur" THEN img ELSE NULL
  /\ before' = img
  /\ main' = "create" /\ i' = 0
  /\ UNCHANGED <<input, k, img, threads>>

\* applyFilters prints "Wrong filter format", and main goes on.
WrongFilter ==
  /\ main = "next" /\ k >= 0 /\ filters[k] = "wrong"
  /\ k' = k - 1
  /\ UNCHANGED <<input, main, i, before, copy, img, threads>>

\* The loop of pthread_create: thread i begins while main goes on.
Create ==
  /\ main = "create"
  /\ threads' = [threads EXCEPT ![i] = [line |-> FirstLine(i), last |-> LastLine(i)]]
  /\ IF i + 1 < nThread[k] THEN i' = i + 1 /\ UNCHANGED main
                           ELSE i' = 0 /\ main' = "join"
  /\ UNCHANGED <<input, k, before, copy, img>>

\* Mutant: the blur reads the image it writes.
Source_Image == img

Source == copy

\* blur: at the border of the image the line itself is read again.
Blur(y) ==
  <<"blur", IF y # 0 THEN Source[y - 1] ELSE Source[y], Source[y],
            IF y # height - 1 THEN Source[y + 1] ELSE Source[y]>>

NextLine(y) == y + 1

\* A thread treats a line of its band, if the image has it.
TreatLine(t) ==
  /\ threads[t] # NULL /\ ~Ended(t)
  /\ LET y == threads[t].line
     IN /\ img' = IF y < height
                  THEN [img EXCEPT ![y] = IF filters[k] = "blur" THEN Blur(y)
                                          ELSE <<filters[k], img[y]>>]
                  ELSE img
        /\ threads' = [threads EXCEPT ![t].line = NextLine(y)]
  /\ UNCHANGED <<input, k, main, i, before, copy>>

\* The loop of pthread_join; the last join ends the filter.  The copy of the
\* blur is lost, not freed.
Join ==
  /\ main = "join" /\ Ended(i)
  /\ threads' = [threads EXCEPT ![i] = NULL]
  /\ IF i + 1 < nThread[k]
     THEN i' = i + 1 /\ UNCHANGED <<main, k, copy>>
     ELSE i' = 0 /\ main' = "next" /\ k' = k - 1 /\ copy' = NULL
  /\ UNCHANGED <<input, before, img>>

\* write_bmp gets the image when no filter is left.
Written == main = "next" /\ k < 0 /\ UNCHANGED vars

MainStep == CallFilter \/ WrongFilter \/ Create \/ Join

Next == MainStep \/ (\E t \in Thread : TreatLine(t)) \/ Written

Spec == Init /\ [][Next]_vars

-----------------------------------------------------------------------------
(* Properties.                                                              *)

TypeOK ==
  /\ height \in Heights
  /\ filters \in [Filter -> Filters]
  /\ nThread \in [Filter -> ThreadCounts]
  /\ k \in -1 .. NFILTERS - 1
  /\ main \in {"next", "create", "join"}
  /\ i \in Thread
  /\ main # "next" => k >= 0 /\ i < nThread[k]
  /\ DOMAIN img = Line /\ DOMAIN before = Line
  /\ copy # NULL => DOMAIN copy = Line
  /\ threads \in [Thread -> [line : Nat, last : Int] \cup {NULL}]

\* Two threads never treat the same line: the bands do not overlap, whatever
\* the height and the number of threads, more threads than lines included.
NoSharedLine ==
  \A t, u \in Thread :
    threads[t] # NULL /\ threads[u] # NULL /\ ~Ended(t) /\ ~Ended(u)
      /\ threads[t].line = threads[u].line /\ threads[t].line < height
    => t = u

\* The threads of a filter together do what the filter does to the whole image,
\* however they interleave; the next filter sees all of it.
Chain == INSTANCE ImageChain WITH
  image <- IF main = "next" THEN img ELSE before
ImplementsChain == Chain!Spec
=============================================================================
