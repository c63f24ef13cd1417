---------------------------- MODULE ImageBlocks ----------------------------
(***************************************************************************)
(* The life of the images in main.c.  The files of the directory are       *)
(* treated in blocks of BLOCK: treatBlock starts a thread per image that   *)
(* loads it into images[i], runs the pipeline, starts a thread per image   *)
(* that saves it, and frees the images.  The last block may have fewer     *)
(* images than the others; images[] keeps its old pointers.                *)
(*                                                                         *)
(* The heap is modelled by the image structures load_bmp allocated: one    *)
(* per file, named by the number of the file.                              *)
(***************************************************************************)
EXTENDS Integers, Sequences, FiniteSets

CONSTANTS fileLen,     \* images found in the directory
          BLOCK,
          Quality,     \* what a file may be like, see quality
          NULL

File == 0 .. fileLen - 1

ASSUME BlocksAssumption ==
  /\ fileLen \in Nat \ {0}
  /\ BLOCK \in Nat \ {0}
  /\ Quality \subseteq {"good", "truncated", "unreadable", "unwritable"}
  /\ NULL \notin Nat

Entry == 0 .. BLOCK - 1

VARIABLES
  quality,   \* quality[f]: truncated, the file ends before its last pixel;
             \* unreadable, it does not open or is no bitmap; unwritable,
             \* the file to save it in cannot be created
  n,         \* the block treatBlock is called for
  phase,     \* where main is in treatBlock
  thread,    \* thread[i]: the loading or saving thread of entry i
  images,    \* images[i]: the structure entry i points to
  object,    \* object[f]: the structure and pixels of file f on the heap
  filtered,  \* filtered[f]: times the filters were applied to file f
  saved,     \* saved[f]: times file f was written, with what contents
  tables,    \* mat_buf and the other tables of threadpool.c are allocated
  outcome    \* how the process ended

vars == <<quality, n, phase, thread, images, object, filtered, saved, tables,
          outcome>>

\* Mutant: every block is full.
NImage_Full(b) == BLOCK

\* main: fileLen/BLOCK full blocks, then one of the fileLen%BLOCK others.
NImage(b) == IF b < fileLen \div BLOCK THEN BLOCK ELSE fileLen % BLOCK
Blocks == fileLen \div BLOCK + (IF fileLen % BLOCK > 0 THEN 1 ELSE 0)

\* Mutant: the number of an image is its entry plus the number of the block.
FileOf_NoBlock(i) == n + i

\* arg[i].n: the file of entry i.
FileOf(i) == n * BLOCK + i

InBlock == 0 .. NImage(n) - 1

Init ==
  /\ quality \in [File -> Quality]
  /\ n = 0
  /\ phase = "load"
  /\ thread = [i \in Entry |-> "ready"]
  /\ images = [i \in Entry |-> NULL]
  /\ object = [f \in File |-> "none"]
  /\ filtered = [f \in File |-> 0]
  /\ saved = [f \in File |-> <<>>]
  /\ tables = FALSE
  /\ outcome = "running"

\* error(): frees everything and exits, but freeStatic reads mat_buf[0] first:
\* without tables that is a read through NULL.
Error == /\ outcome' = IF tables THEN "failure" ELSE "crash"
         /\ UNCHANGED <<quality, n, phase, thread, images, object, filtered, saved,
                         tables>>

-----------------------------------------------------------------------------
(* openImage and load_bmp.                                                  *)

\* The structure is allocated and images[i] points to it, its pixels unset.
BeginLoad(i) ==
  /\ phase = "load" /\ i \in InBlock /\ thread[i] = "ready"
  /\ images' = [images EXCEPT ![i] = FileOf(i)]
  /\ object' = [object EXCEPT ![FileOf(i)] = "unset"]
  /\ thread' = [thread EXCEPT ![i] = "loading"]
  /\ UNCHANGED <<quality, n, phase, filtered, saved, tables, outcome>>

\* load_bmp returns errno when a read comes up short; the end of a file does
\* not set it, so the thread carries on with an image that is not complete.
EndLoad(i) ==
  /\ thread[i] = "loading" /\ quality[FileOf(i)] # "unreadable"
  /\ object' = [object EXCEPT ![FileOf(i)] =
                  IF quality[FileOf(i)] = "truncated" THEN "partial" ELSE "loaded"]
  /\ thread' = [thread EXCEPT ![i] = "ended"]
  /\ UNCHANGED <<quality, n, phase, images, filtered, saved, tables, outcome>>

FailLoad(i) ==
  /\ thread[i] = "loading" /\ quality[FileOf(i)] = "unreadable"
  /\ Error

-----------------------------------------------------------------------------
(* treatBlock.                                                              *)

AllEnded == \A i \in InBlock : thread[i] = "ended"

\* Mutant: the joins of the loading threads are missing.
LoadsJoined_Not == TRUE
LoadsJoined == AllEnded

\* initializeStatic, imagesCut, initializeBlur.
Cut ==
  /\ phase = "load" /\ LoadsJoined
  /\ tables' = TRUE
  /\ phase' = "treat"
  /\ UNCHANGED <<quality, n, thread, images, object, filtered, saved, outcome>>

\* image_treatement and its join, then free_mat_buf and freeStatic.
Treat ==
  /\ phase = "treat"
  /\ filtered' = [f \in File |-> IF \E i \in InBlock : images[i] = f
                                 THEN filtered[f] + 1 ELSE filtered[f]]
  /\ tables' = FALSE
  /\ thread' = [i \in Entry |-> "ready"]
  /\ phase' = "save"
  /\ UNCHANGED <<quality, n, images, object, saved, outcome>>

-----------------------------------------------------------------------------
(* saveImage and write_bmp: save[n] gets the contents of images[i].         *)

BeginSave(i) ==
  /\ phase = "save" /\ i \in InBlock /\ thread[i] = "ready"
  /\ thread' = [thread EXCEPT ![i] = "saving"]
  /\ UNCHANGED <<quality, n, phase, images, object, filtered, saved, tables, outcome>>

Contents(f) == [image |-> f, filtered |-> filtered[f]]

EndSave(i) ==
  /\ thread[i] = "saving" /\ quality[FileOf(i)] # "unwritable"
  /\ saved' = [saved EXCEPT ![FileOf(i)] = Append(@, Contents(images[i]))]
  /\ thread' = [thread EXCEPT ![i] = "ended"]
  /\ UNCHANGED <<quality, n, phase, images, object, filtered, tables, outcome>>

FailSave(i) ==
  /\ thread[i] = "saving" /\ quality[FileOf(i)] = "unwritable"
  /\ Error

-----------------------------------------------------------------------------
(* cleanImage, and the end of treatBlock.                                   *)

\* Mutant: the first entry is skipped.
EntriesToFree_ButFirst == Entry \ {0}

\* All the entries, those the block did not use too.
EntriesToFree == Entry

Pointed == {images[i] : i \in EntriesToFree} \ {NULL}

\* A second free of a structure: the allocator may abort the process, or not.
Clean ==
  /\ phase = "save" /\ AllEnded
  /\ object' = [f \in File |-> IF f \notin Pointed THEN object[f]
                               ELSE IF object[f] \in {"freed", "double"} THEN "double"
                               ELSE "freed"]
  /\ \/ UNCHANGED outcome
     \/ (\E f \in Pointed : object[f] \in {"freed", "double"}) /\ outcome' = "crash"
  /\ thread' = [i \in Entry |-> "ready"]
  /\ phase' = "cleaned"
  /\ UNCHANGED <<quality, n, images, filtered, saved, tables>>

NextBlock ==
  /\ phase = "cleaned"
  /\ IF n + 1 < Blocks
     THEN n' = n + 1 /\ phase' = "load" /\ UNCHANGED outcome
     ELSE outcome' = "done" /\ UNCHANGED <<n, phase>>
  /\ UNCHANGED <<quality, thread, images, object, filtered, saved, tables>>

Step ==
  \/ \E i \in Entry : \/ BeginLoad(i) \/ EndLoad(i) \/ FailLoad(i)
                      \/ BeginSave(i) \/ EndSave(i) \/ FailSave(i)
  \/ Cut \/ Treat \/ Clean \/ NextBlock

Ended == outcome # "running" /\ UNCHANGED vars

Next == (outcome = "running" /\ Step) \/ Ended

Spec == Init /\ [][Next]_vars

-----------------------------------------------------------------------------
(* Properties.                                                              *)

TypeOK ==
  /\ quality \in [File -> Quality]
  /\ n \in 0 .. Blocks - 1
  /\ phase \in {"load", "treat", "save", "cleaned"}
  /\ thread \in [Entry -> {"ready", "loading", "saving", "ended"}]
  /\ images \in [Entry -> File \cup {NULL}]
  /\ object \in [File -> {"none", "unset", "loaded", "partial", "freed", "double"}]
  /\ filtered \in [File -> Nat]
  /\ tables \in BOOLEAN
  /\ outcome \in {"running", "done", "failure", "crash"}

\* The pipeline and the saving threads only see structures that the loading
\* threads finished and that cleanImage has not freed.
ImagesUsable ==
  phase \in {"treat", "save"} =>
    \A i \in InBlock : /\ images[i] = FileOf(i)
                       /\ object[images[i]] \in {"loaded", "partial"}

\* Every image of the directory is filtered once and saved once, under its own
\* name, however the images fall into blocks.
EveryFileSavedOnce ==
  outcome = "done" => \A f \in File :
    Len(saved[f]) = 1 /\ saved[f][1].image = f /\ saved[f][1].filtered = 1

\* The blocks bound the memory: at most BLOCK images are allocated at a time,
\* and none is left at the end.
Allocated == {f \in File : object[f] \in {"unset", "loaded", "partial"}}
MemoryBounded ==
  /\ Cardinality(Allocated) <= BLOCK
  /\ outcome = "done" => Allocated = {}

\* rapport.pdf, page 1: main saves the images "en liberant de la memoire les
\* structures allouees": each structure is freed once.
FreedOnce == \A f \in File : object[f] # "double"
=============================================================================
