------------------------- MODULE ImageBlocksProofs -------------------------
(***************************************************************************)
(* Proofs about ImageBlocks, for every number of files, every size of the  *)
(* blocks and every mixture of files.  The files fall into three parts,    *)
(* those of the blocks before, of the current block and of later blocks;   *)
(* the invariant says what has been done with each.                        *)
(*                                                                         *)
(* The last part is about the images of one block: the packets BandCut     *)
(* makes of an image share no line, and together they cover every line     *)
(* once.                                                                   *)
(***************************************************************************)
EXTENDS ImageBlocks, BandCut, Arithmetic, FiniteSetTheorems, TLAPS

\* The first file of the current block, and the number of its files.
Base == n * BLOCK
Size == NImage(n)

Usable == {"loaded", "partial"}
Gone == {"freed", "double"}

\* What is saved of a file in the end.
Once(f) == <<[image |-> f, filtered |-> 1]>>

SavedType == saved \in [File -> Seq([image : File, filtered : Nat])]

\* The files of the blocks before are done, those of later ones untouched.
PastDone ==
  \A f \in File : f < Base =>
    filtered[f] = 1 /\ saved[f] = Once(f) /\ object[f] \in Gone
LaterUntouched ==
  \A f \in File : f >= Base + Size =>
    filtered[f] = 0 /\ saved[f] = <<>> /\ object[f] = "none"

\* How far the file of entry i is, in each phase.
EntryLoading(i) ==
  LET f == FileOf(i)
  IN /\ filtered[f] = 0 /\ saved[f] = <<>>
     /\ thread[i] \in {"ready", "loading", "ended"}
     /\ thread[i] # "ready" => images[i] = f
     /\ thread[i] = "ended" => object[f] \in Usable
EntryTreated(i) ==
  LET f == FileOf(i)
  IN /\ filtered[f] = 0 /\ saved[f] = <<>>
     /\ images[i] = f /\ object[f] \in Usable
EntrySaving(i) ==
  LET f == FileOf(i)
  IN /\ filtered[f] = 1 /\ images[i] = f /\ object[f] \in Usable
     /\ thread[i] \in {"ready", "saving", "ended"}
     /\ saved[f] = IF thread[i] = "ended" THEN Once(f) ELSE <<>>
EntryCleaned(i) ==
  LET f == FileOf(i)
  IN filtered[f] = 1 /\ saved[f] = Once(f) /\ object[f] \in Gone

Entries ==
  \A i \in InBlock :
    /\ phase = "load" => EntryLoading(i)
    /\ phase = "treat" => EntryTreated(i)
    /\ phase = "save" => EntrySaving(i)
    /\ phase = "cleaned" => EntryCleaned(i)

\* No thread is left over from another phase or another block.
Threads ==
  /\ \A i \in Entry \ InBlock : thread[i] \in {"ready", "ended"}
  /\ phase = "treat" => \A i \in Entry : thread[i] \in {"ready", "ended"}
  /\ phase = "cleaned" => \A i \in Entry : thread[i] = "ready"

\* No entry points to a file of a later block.
Pointers == \A i \in Entry : images[i] # NULL => images[i] < Base + Size

DoneAtEnd == outcome = "done" => phase = "cleaned" /\ n + 1 >= Blocks

IInv ==
  /\ TypeOK /\ SavedType /\ PastDone /\ LaterUntouched /\ Entries /\ Threads
  /\ Pointers /\ DoneAtEnd

-----------------------------------------------------------------------------
(* Arithmetic of the blocks.                                                *)

\* Block b lies inside the directory; the next one begins where it ends, and
\* the last one ends with the last file.
LEMMA BlockBounds ==
  ASSUME NEW b \in 0 .. Blocks - 1
  PROVE  /\ b * BLOCK \in Nat /\ NImage(b) \in 1 .. BLOCK
         /\ b * BLOCK + NImage(b) <= fileLen
         /\ b + 1 < Blocks => (b + 1) * BLOCK = b * BLOCK + NImage(b)
         /\ b + 1 >= Blocks => b * BLOCK + NImage(b) = fileLen
<1> DEFINE q == fileLen \div BLOCK
           r == fileLen % BLOCK
<1>1. fileLen \in Nat /\ fileLen # 0 /\ BLOCK \in Nat /\ BLOCK # 0
  BY BlocksAssumption
<1>2. q \in Nat /\ r \in Nat /\ r < BLOCK /\ fileLen = q * BLOCK + r
  <2>1. BLOCK \in Positive /\ BLOCK * q = q * BLOCK
    BY <1>1, DivMod DEF Positive
  <2> QED BY <1>1, <2>1, DivMod
<1>3. Blocks = q + (IF r > 0 THEN 1 ELSE 0)
  BY DEF Blocks
<1>4. NImage(b) = IF b < q THEN BLOCK ELSE r
  BY DEF NImage
<1> HIDE DEF q, r
<1>5. b \in Nat /\ b <= q /\ b < Blocks
  BY <1>2, <1>3
<1>6. b * BLOCK \in Nat /\ (b + 1) * BLOCK = b * BLOCK + BLOCK
  BY <1>1, <1>5
<1>7. CASE b < q
  <2>1. (b + 1) * BLOCK <= q * BLOCK
    <3>1. b + 1 \in Nat /\ b + 1 <= q
      BY <1>2, <1>5, <1>7
    <3> QED BY <1>1, <1>2, <3>1, TimesMonotone
  <2>2. q * BLOCK \in Nat
    BY <1>1, <1>2
  <2>3. NImage(b) = BLOCK
    BY <1>4, <1>7
  <2>4. b + 1 >= Blocks => r = 0 /\ b + 1 = q
    BY <1>2, <1>3, <1>5, <1>7
  <2>5. b + 1 = q => (b + 1) * BLOCK = q * BLOCK
    OBVIOUS
  <2> HIDE DEF Blocks
  <2> QED BY <1>1, <1>2, <1>6, <2>1, <2>2, <2>3, <2>4, <2>5
<1>8. CASE b = q
  <2>1. r > 0 /\ Blocks = b + 1
    BY <1>2, <1>3, <1>5, <1>8
  <2>2. NImage(b) = r
    BY <1>2, <1>4, <1>8
  <2>3. b * BLOCK = q * BLOCK
    BY <1>8
  <2> QED BY <1>1, <1>2, <1>5, <1>6, <2>1, <2>2, <2>3
<1> QED BY <1>2, <1>5, <1>7, <1>8

\* The same of the current block.
LEMMA CurrentBlock ==
  ASSUME TypeOK
  PROVE  /\ Base \in Nat /\ Size \in 1 .. BLOCK /\ BLOCK \in Nat
         /\ Base + Size <= fileLen /\ fileLen \in Nat
         /\ InBlock = 0 .. Size - 1
         /\ \A i : FileOf(i) = Base + i
         /\ \A i \in InBlock : i \in Entry /\ FileOf(i) \in File
         /\ n + 1 >= Blocks => Base + Size = fileLen
<1>1. n \in 0 .. Blocks - 1
  BY DEF TypeOK
<1>2. /\ Base \in Nat /\ Size \in 1 .. BLOCK /\ Base + Size <= fileLen
      /\ n + 1 >= Blocks => Base + Size = fileLen
  BY <1>1, BlockBounds DEF Base, Size
<1>3. fileLen \in Nat /\ BLOCK \in Nat
  BY BlocksAssumption
<1>4. InBlock = 0 .. Size - 1 /\ \A i : FileOf(i) = Base + i
  BY DEF InBlock, FileOf, Base, Size
<1>5. \A i \in InBlock : i \in Entry /\ FileOf(i) \in File
  BY <1>2, <1>3, <1>4 DEF Entry, File
<1> QED BY <1>2, <1>3, <1>4, <1>5

\* A step that stays in the block keeps the names of its files.
LEMMA SameBlock ==
  ASSUME n' = n
  PROVE  /\ Base' = Base /\ Size' = Size /\ InBlock' = InBlock
         /\ \A i : FileOf(i)' = FileOf(i)
BY DEF Base, Size, NImage, InBlock, FileOf

\* The entries of the block have files of their own, inside the block.
LEMMA EntryFile ==
  ASSUME TypeOK, NEW i \in InBlock
  PROVE  /\ i \in Entry /\ FileOf(i) \in File
         /\ FileOf(i) >= Base /\ FileOf(i) < Base + Size
         /\ \A f \in File : f < Base \/ f >= Base + Size => f # FileOf(i)
         /\ \A j \in InBlock : FileOf(j) = FileOf(i) => j = i
<1>1. /\ Base \in Nat /\ Size \in 1 .. BLOCK /\ BLOCK \in Nat
      /\ InBlock = 0 .. Size - 1 /\ \A j : FileOf(j) = Base + j
      /\ i \in Entry /\ FileOf(i) \in File
  BY CurrentBlock
<1>2. \A f \in File : f \in Int
  BY BlocksAssumption DEF File
<1> QED BY <1>1, <1>2

\* A step in which the files of other blocks keep what they have had, except
\* that a freed structure may be freed again.
LEMMA OthersKept ==
  ASSUME TypeOK, PastDone, LaterUntouched, n' = n,
         \A f \in File : f < Base \/ f >= Base + Size =>
           /\ filtered'[f] = filtered[f] /\ saved'[f] = saved[f]
           /\ \/ object'[f] = object[f]
              \/ f < Base /\ object'[f] \in Gone
  PROVE  PastDone' /\ LaterUntouched'
<1>1. PastDone'
  BY SameBlock DEF PastDone, Once, Gone
<1>2. LaterUntouched'
  <2>1. Base \in Nat /\ Size \in Nat /\ \A f \in File : f \in Int
    BY CurrentBlock, BlocksAssumption DEF File
  <2> QED BY <2>1, SameBlock DEF LaterUntouched
<1> QED BY <1>1, <1>2

-----------------------------------------------------------------------------
(* The invariant holds at the start and is kept by every action.            *)

LEMMA InitInv == Init => IInv
<1> SUFFICES ASSUME Init PROVE IInv
  OBVIOUS
<1>1. fileLen \in Nat /\ fileLen # 0 /\ BLOCK \in Nat /\ BLOCK # 0
  BY BlocksAssumption
<1>2. n \in 0 .. Blocks - 1
  <2> DEFINE q == fileLen \div BLOCK
             r == fileLen % BLOCK
  <2>1. BLOCK \in Nat \ {0}
    BY <1>1
  <2>2. q \in Nat /\ r \in Nat /\ r < BLOCK /\ fileLen = q * BLOCK + r
    BY <1>1, <2>1, DivMod
  <2>3. Blocks = q + (IF r > 0 THEN 1 ELSE 0)
    BY DEF Blocks
  <2> HIDE DEF q, r
  <2>4. q = 0 => q * BLOCK = 0
    BY <1>1
  <2> QED BY <1>1, <2>2, <2>3, <2>4 DEF Init
<1>3. TypeOK
  BY <1>2 DEF Init, TypeOK, File
<1>4. Base = 0
  BY <1>1 DEF Init, Base
<1>5. SavedType
  BY DEF Init, SavedType
<1>6. PastDone /\ LaterUntouched
  BY <1>4 DEF Init, PastDone, LaterUntouched, File
<1>7. Entries
  BY <1>3, CurrentBlock DEF Init, Entries, EntryLoading
<1>8. Threads /\ Pointers /\ DoneAtEnd
  BY DEF Init, Threads, Pointers, DoneAtEnd, Entry
<1> QED BY <1>3, <1>5, <1>6, <1>7, <1>8 DEF IInv

LEMMA BeginLoadInv ==
  ASSUME IInv, NEW i \in Entry, BeginLoad(i)
  PROVE  IInv'
<1> USE DEF BeginLoad
<1>1. TypeOK /\ PastDone /\ LaterUntouched /\ i \in InBlock /\ n' = n
  BY DEF IInv
<1>2. TypeOK'
  BY <1>1, EntryFile DEF TypeOK
<1>3. \A f \in File : f # FileOf(i) => object'[f] = object[f]
  BY <1>1 DEF TypeOK
<1>4. PastDone' /\ LaterUntouched'
  BY <1>1, <1>3, EntryFile, OthersKept
<1>5. Entries'
  BY <1>1, <1>3, SameBlock, EntryFile DEF IInv, Entries, EntryLoading, TypeOK
<1>6. SavedType' /\ DoneAtEnd'
  BY <1>1, SameBlock DEF IInv, SavedType, DoneAtEnd
<1>7. Threads'
  BY <1>1, SameBlock DEF IInv, Threads, TypeOK
<1>8. Pointers'
  BY <1>1, SameBlock, EntryFile DEF IInv, Pointers, TypeOK
<1> QED BY <1>2, <1>4, <1>5, <1>6, <1>7, <1>8 DEF IInv

\* A loading thread belongs to an entry of the block, and a saving one too.
LEMMA BusyThread ==
  ASSUME IInv, NEW i \in Entry, thread[i] \in {"loading", "saving"}
  PROVE  /\ i \in InBlock
         /\ thread[i] = "loading" => phase = "load"
         /\ thread[i] = "saving" => phase = "save"
<1>1. i \in InBlock
  BY DEF IInv, Threads
<1>2. phase \in {"load", "save"}
  BY DEF IInv, Threads, TypeOK
<1> QED BY <1>1, <1>2 DEF IInv, Entries, EntryLoading, EntrySaving

LEMMA EndLoadInv ==
  ASSUME IInv, NEW i \in Entry, EndLoad(i)
  PROVE  IInv'
<1> USE DEF EndLoad
<1>1. /\ TypeOK /\ PastDone /\ LaterUntouched /\ n' = n
      /\ i \in InBlock /\ phase = "load"
  BY BusyThread DEF IInv
<1>2. TypeOK'
  BY <1>1, EntryFile DEF TypeOK
<1>3. /\ \A f \in File : f # FileOf(i) => object'[f] = object[f]
      /\ object'[FileOf(i)] \in Usable
  BY <1>1, EntryFile DEF TypeOK, Usable
<1>4. PastDone' /\ LaterUntouched'
  BY <1>1, <1>3, EntryFile, OthersKept
<1>5. Entries'
  BY <1>1, <1>3, SameBlock, EntryFile DEF IInv, Entries, EntryLoading, TypeOK, Usable
<1>6. SavedType' /\ DoneAtEnd' /\ Pointers'
  BY <1>1, SameBlock DEF IInv, SavedType, DoneAtEnd, Pointers
<1>7. Threads'
  BY <1>1, SameBlock DEF IInv, Threads, TypeOK
<1> QED BY <1>2, <1>4, <1>5, <1>6, <1>7 DEF IInv

LEMMA ErrorInv ==
  ASSUME IInv, Error
  PROVE  IInv'
<1> USE DEF Error
<1>1. TypeOK /\ PastDone /\ LaterUntouched /\ n' = n
  BY DEF IInv
<1>2. TypeOK'
  BY <1>1 DEF TypeOK
<1>3. PastDone' /\ LaterUntouched'
  BY <1>1, OthersKept
<1>4. Entries'
  BY <1>1, SameBlock DEF IInv, Entries, EntryLoading, EntryTreated, EntrySaving,
                         EntryCleaned, Once, Usable, Gone
<1>5. SavedType' /\ DoneAtEnd' /\ Pointers' /\ Threads'
  BY <1>1, SameBlock DEF IInv, SavedType, DoneAtEnd, Pointers, Threads
<1> QED BY <1>2, <1>3, <1>4, <1>5 DEF IInv

LEMMA CutInv ==
  ASSUME IInv, Cut
  PROVE  IInv'
<1> USE DEF Cut
<1>1. TypeOK /\ PastDone /\ LaterUntouched /\ n' = n /\ phase = "load"
  BY DEF IInv
<1>2. TypeOK'
  BY <1>1 DEF TypeOK
<1>3. PastDone' /\ LaterUntouched'
  BY <1>1, OthersKept
<1>4. \A i \in InBlock : thread[i] = "ended"
  BY DEF LoadsJoined, AllEnded
<1>5. Entries'
  BY <1>1, <1>4, SameBlock DEF IInv, Entries, EntryLoading, EntryTreated, Usable
<1>6. SavedType' /\ DoneAtEnd' /\ Pointers'
  BY <1>1, SameBlock DEF IInv, SavedType, DoneAtEnd, Pointers
<1>7. Threads'
  BY <1>1, <1>4, SameBlock DEF IInv, Threads
<1> QED BY <1>2, <1>3, <1>5, <1>6, <1>7 DEF IInv

LEMMA TreatInv ==
  ASSUME IInv, Treat
  PROVE  IInv'
<1> USE DEF Treat
<1>1. TypeOK /\ PastDone /\ LaterUntouched /\ n' = n /\ phase = "treat"
  BY DEF IInv
<1>2. \A i \in InBlock : EntryTreated(i)
  BY <1>1 DEF IInv, Entries
<1>3. TypeOK'
  <2>1. filtered' \in [File -> Nat]
    <3>1. \A f \in File : filtered[f] \in Nat /\ filtered[f] + 1 \in Nat
      BY <1>1 DEF TypeOK
    <3> QED BY <3>1
  <2>2. thread' \in [Entry -> {"ready", "loading", "saving", "ended"}]
    OBVIOUS
  <2> QED BY <1>1, <2>1, <2>2 DEF TypeOK
<1>4. /\ \A f \in File : (\A i \in InBlock : f # FileOf(i)) => filtered'[f] = filtered[f]
      /\ \A i \in InBlock : filtered'[FileOf(i)] = 1
  BY <1>1, <1>2, EntryFile DEF EntryTreated
<1>5. PastDone' /\ LaterUntouched'
  BY <1>1, <1>4, EntryFile, OthersKept
<1>6. Entries'
  BY <1>1, <1>2, <1>4, SameBlock, EntryFile
     DEF Entries, EntryTreated, EntrySaving, Usable
<1>7. SavedType' /\ DoneAtEnd' /\ Pointers'
  BY <1>1, SameBlock DEF IInv, SavedType, DoneAtEnd, Pointers
<1>8. Threads'
  BY <1>1, SameBlock DEF Threads
<1> QED BY <1>3, <1>5, <1>6, <1>7, <1>8 DEF IInv

LEMMA BeginSaveInv ==
  ASSUME IInv, NEW i \in Entry, BeginSave(i)
  PROVE  IInv'
<1> USE DEF BeginSave
<1>1. TypeOK /\ PastDone /\ LaterUntouched /\ i \in InBlock /\ n' = n
  BY DEF IInv
<1>2. TypeOK'
  BY <1>1 DEF TypeOK
<1>3. PastDone' /\ LaterUntouched'
  BY <1>1, OthersKept
<1>4. Entries'
  BY <1>1, SameBlock, EntryFile DEF IInv, Entries, EntrySaving, TypeOK, Once, Usable
<1>5. SavedType' /\ DoneAtEnd' /\ Pointers'
  BY <1>1, SameBlock DEF IInv, SavedType, DoneAtEnd, Pointers
<1>6. Threads'
  BY <1>1, SameBlock DEF IInv, Threads, TypeOK
<1> QED BY <1>2, <1>3, <1>4, <1>5, <1>6 DEF IInv

LEMMA EndSaveInv ==
  ASSUME IInv, NEW i \in Entry, EndSave(i)
  PROVE  IInv'
<1> USE DEF EndSave
<1>1. /\ TypeOK /\ PastDone /\ LaterUntouched /\ n' = n
      /\ i \in InBlock /\ phase = "save"
  BY BusyThread DEF IInv
<1>2. TypeOK'
  BY <1>1 DEF TypeOK
<1>3. /\ FileOf(i) \in File /\ images[i] = FileOf(i) /\ filtered[FileOf(i)] = 1
      /\ saved[FileOf(i)] = <<>>
  BY <1>1, EntryFile DEF IInv, Entries, EntrySaving
<1>4. Append(<<>>, Contents(images[i])) = Once(FileOf(i))
  BY <1>3 DEF Contents, Once
<1>5. /\ \A f \in File : f # FileOf(i) => saved'[f] = saved[f]
      /\ saved'[FileOf(i)] = Once(FileOf(i))
  BY <1>3, <1>4 DEF IInv, SavedType
<1>6. PastDone' /\ LaterUntouched'
  BY <1>1, <1>5, EntryFile, OthersKept
<1>7. Entries'
  <2>1. /\ phase' = "save" /\ images' = images /\ object' = object
        /\ filtered' = filtered
        /\ InBlock' = InBlock /\ \A j : FileOf(j)' = FileOf(j)
    BY <1>1, SameBlock
  <2>2. /\ thread'[i] = "ended"
        /\ \A j \in InBlock : j # i => thread'[j] = thread[j]
    BY <1>1, CurrentBlock DEF TypeOK
  <2>3. \A j \in InBlock : EntrySaving(j)
    BY <1>1 DEF IInv, Entries
  <2>4. \A j \in InBlock : j # i => saved'[FileOf(j)] = saved[FileOf(j)]
    BY <1>1, <1>5, EntryFile
  <2> HIDE DEF EndSave
  <2>5. EntrySaving(i)'
    BY <1>1, <1>5, <2>1, <2>2, <2>3 DEF EntrySaving, Once, Usable
  <2>6. \A j \in InBlock : j # i => EntrySaving(j)'
    BY <2>1, <2>2, <2>3, <2>4 DEF EntrySaving, Once, Usable
  <2> QED BY <2>1, <2>5, <2>6 DEF Entries
<1>8. SavedType'
  BY <1>3, <1>4 DEF IInv, SavedType, Once
<1>9. DoneAtEnd' /\ Pointers'
  BY <1>1, SameBlock DEF IInv, DoneAtEnd, Pointers
<1>10. Threads'
  BY <1>1, SameBlock DEF IInv, Threads, TypeOK
<1> QED BY <1>2, <1>6, <1>7, <1>8, <1>9, <1>10 DEF IInv

LEMMA CleanInv ==
  ASSUME IInv, Clean, outcome = "running"
  PROVE  IInv'
<1> USE DEF Clean
<1>1. TypeOK /\ PastDone /\ LaterUntouched /\ n' = n /\ phase = "save"
  BY DEF IInv
<1>2. \A i \in InBlock : EntrySaving(i) /\ thread[i] = "ended"
  BY <1>1 DEF IInv, Entries, AllEnded
<1>3. TypeOK'
  BY <1>1 DEF TypeOK
<1>4. \A i \in InBlock : FileOf(i) \in Pointed
  <2>1. \A i \in InBlock : i \in Entry /\ FileOf(i) # NULL
    BY <1>1, CurrentBlock, BlocksAssumption DEF File
  <2> QED BY <1>2, <2>1 DEF Pointed, EntriesToFree, EntrySaving
<1>5. \A f \in File : f \in Pointed => f < Base + Size
  BY DEF Pointed, EntriesToFree, IInv, Pointers
<1>6. \A f \in File : f >= Base + Size => object'[f] = object[f]
  <2>1. Base \in Nat /\ Size \in Nat /\ \A f \in File : f \in Int
    BY <1>1, CurrentBlock, BlocksAssumption DEF File
  <2> QED BY <1>5, <2>1
<1>7. \A f \in File : object'[f] = object[f] \/ object'[f] \in Gone
  BY DEF Gone
<1>8. PastDone' /\ LaterUntouched'
  <2>1. \A f \in File : f < Base \/ f >= Base + Size =>
          /\ filtered'[f] = filtered[f] /\ saved'[f] = saved[f]
          /\ \/ object'[f] = object[f]
             \/ f < Base /\ object'[f] \in Gone
    BY <1>6, <1>7
  <2> HIDE DEF Clean
  <2> QED BY <1>1, <2>1, OthersKept
<1>9. Entries'
  <2>1. /\ phase' = "cleaned" /\ filtered' = filtered /\ saved' = saved
        /\ InBlock' = InBlock /\ \A j : FileOf(j)' = FileOf(j)
    BY <1>1, SameBlock
  <2>2. \A i \in InBlock : object'[FileOf(i)] \in Gone
    BY <1>1, <1>4, CurrentBlock DEF Gone
  <2>3. \A i \in InBlock : filtered[FileOf(i)] = 1 /\ saved[FileOf(i)] = Once(FileOf(i))
    BY <1>2 DEF EntrySaving
  <2> HIDE DEF Clean
  <2> QED BY <2>1, <2>2, <2>3 DEF Entries, EntryCleaned, Once, Gone
<1>10. SavedType' /\ DoneAtEnd' /\ Pointers'
  BY <1>1, SameBlock DEF IInv, SavedType, DoneAtEnd, Pointers
<1>11. Threads'
  BY <1>1, SameBlock DEF Threads
<1> QED BY <1>3, <1>8, <1>9, <1>10, <1>11 DEF IInv

\* The files of the block join those done; the next block begins where they
\* end.
LEMMA NextBlockInv ==
  ASSUME IInv, NextBlock
  PROVE  IInv'
<1> USE DEF NextBlock
<1>1. /\ TypeOK /\ PastDone /\ LaterUntouched /\ phase = "cleaned"
      /\ filtered' = filtered /\ saved' = saved /\ object' = object
      /\ images' = images /\ thread' = thread
  BY DEF IInv
<1>2. \A i \in InBlock : EntryCleaned(i)
  BY <1>1 DEF IInv, Entries
<1>3. \A i \in Entry : thread[i] = "ready"
  BY <1>1 DEF IInv, Threads
<1>4. n \in 0 .. Blocks - 1 /\ Blocks \in Nat
  <2>1. fileLen \in Nat /\ fileLen # 0 /\ BLOCK \in Nat \ {0}
    BY BlocksAssumption
  <2>2. fileLen \div BLOCK \in Nat
    BY <2>1, DivMod
  <2> QED BY <1>1, <2>2 DEF TypeOK, Blocks
<1>5. CASE n + 1 < Blocks
  <2>1. n' = n + 1 /\ phase' = "load" /\ outcome' = outcome
    BY <1>5
  <2>2. n' \in 0 .. Blocks - 1
    BY <1>4, <1>5, <2>1
  <2>3. TypeOK'
    BY <1>1, <2>1, <2>2 DEF TypeOK
  <2>4. Base' = Base + Size /\ Base \in Nat /\ Size \in Nat
    <3>1. n * BLOCK \in Nat /\ NImage(n) \in Nat
          /\ (n + 1) * BLOCK = n * BLOCK + NImage(n)
      BY <1>4, <1>5, BlockBounds
    <3> QED BY <2>1, <3>1 DEF Base, Size
  <2>5. /\ Size' \in 1 .. BLOCK /\ BLOCK \in Nat /\ InBlock' = 0 .. Size' - 1
        /\ \A i \in InBlock' : i \in Entry /\ FileOf(i)' \in File
                               /\ FileOf(i)' = Base' + i
    <3>1. Size' = NImage(n') /\ Base' = n' * BLOCK
      BY DEF Size, Base
    <3>2. NImage(n') \in 1 .. BLOCK /\ n' * BLOCK \in Nat
          /\ n' * BLOCK + NImage(n') <= fileLen
      BY <2>2, BlockBounds
    <3>3. InBlock' = 0 .. Size' - 1 /\ \A i : FileOf(i)' = Base' + i
      BY <3>1 DEF InBlock, FileOf
    <3> QED BY <3>1, <3>2, <3>3, BlocksAssumption DEF Entry, File
  <2>6. \A f \in File : f \in Int
    BY BlocksAssumption DEF File
  <2>7. PastDone'
    <3> SUFFICES ASSUME NEW f \in File, f < Base + Size
                 PROVE  filtered[f] = 1 /\ saved[f] = Once(f) /\ object[f] \in Gone
      BY <1>1, <2>4 DEF PastDone, Once, Gone
    <3>1. CASE f < Base
      BY <1>1, <3>1 DEF PastDone
    <3>2. CASE f >= Base
      <4>1. f - Base \in InBlock /\ FileOf(f - Base) = f
        BY <1>1, <2>4, <2>6, <3>2, CurrentBlock
      <4> QED BY <1>2, <4>1 DEF EntryCleaned
    <3> QED BY <2>4, <2>6, <3>1, <3>2
  <2>8. LaterUntouched'
    BY <1>1, <2>4, <2>5, <2>6 DEF LaterUntouched
  <2>9. Entries'
    <3>1. \A i \in InBlock' : filtered[FileOf(i)'] = 0 /\ saved[FileOf(i)'] = <<>>
      <4>1. \A i \in InBlock' : FileOf(i)' \in File /\ FileOf(i)' >= Base + Size
        <5>1. \A i \in InBlock' : i \in Nat
          BY <2>5
        <5>2. \A i \in InBlock' : FileOf(i)' \in File /\ FileOf(i)' = (Base + Size) + i
          BY <2>4, <2>5
        <5> QED BY <2>4, <5>1, <5>2
      <4> QED BY <1>1, <4>1 DEF LaterUntouched
    <3>2. \A i \in InBlock' : thread[i] = "ready"
      BY <1>3, <2>5
    <3> QED BY <1>1, <2>1, <3>1, <3>2 DEF Entries, EntryLoading
  <2>10. Threads'
    BY <1>1, <1>3, <2>1 DEF Threads
  <2>11. Pointers'
    <3>1. \A f \in File : f < Base + Size => f < Base' + Size'
      BY <2>4, <2>5, <2>6
    <3> QED BY <1>1, <3>1 DEF IInv, Pointers, TypeOK
  <2>12. SavedType' /\ DoneAtEnd'
    <3>1. SavedType
      BY DEF IInv
    <3>2. outcome # "done"
      BY <1>4, <1>5 DEF IInv, DoneAtEnd
    <3> QED BY <1>1, <2>1, <3>1, <3>2 DEF SavedType, DoneAtEnd
  <2> QED BY <2>3, <2>7, <2>8, <2>9, <2>10, <2>11, <2>12 DEF IInv
<1>6. CASE n + 1 >= Blocks
  <2>1. n' = n /\ phase' = phase /\ outcome' = "done"
    BY <1>4, <1>6
  <2>2. TypeOK' /\ SavedType' /\ Threads' /\ Pointers'
    BY <1>1, <2>1, SameBlock DEF IInv, TypeOK, SavedType, Threads, Pointers
  <2>3. PastDone' /\ LaterUntouched'
    BY <1>1, <2>1, OthersKept
  <2>4. Entries'
    BY <1>1, <1>2, <2>1, SameBlock DEF Entries, EntryCleaned, Once, Gone
  <2>5. DoneAtEnd'
    BY <1>1, <1>6, <2>1 DEF DoneAtEnd
  <2> QED BY <2>2, <2>3, <2>4, <2>5 DEF IInv
<1> QED BY <1>4, <1>5, <1>6

LEMMA StepInv ==
  ASSUME IInv, outcome = "running", Step
  PROVE  IInv'
<1>1. ASSUME NEW i \in Entry, BeginLoad(i) \/ EndLoad(i) \/ FailLoad(i)
      PROVE  IInv'
  BY <1>1, BeginLoadInv, EndLoadInv, ErrorInv DEF FailLoad
<1>2. ASSUME NEW i \in Entry, BeginSave(i) \/ EndSave(i) \/ FailSave(i)
      PROVE  IInv'
  BY <1>2, BeginSaveInv, EndSaveInv, ErrorInv DEF FailSave
<1> QED BY <1>1, <1>2, CutInv, TreatInv, CleanInv, NextBlockInv DEF Step

LEMMA Inductive == IInv /\ [Next]_vars => IInv'
<1> SUFFICES ASSUME IInv, [Next]_vars PROVE IInv'
  OBVIOUS
<1>1. CASE outcome = "running" /\ Step
  BY <1>1, StepInv
<1>2. CASE UNCHANGED vars
  <2>1. TypeOK /\ PastDone /\ LaterUntouched /\ n' = n
    BY <1>2 DEF IInv, vars
  <2>2. TypeOK' /\ SavedType' /\ Threads' /\ Pointers' /\ DoneAtEnd'
    BY <1>2, <2>1, SameBlock
       DEF IInv, vars, TypeOK, SavedType, Threads, Pointers, DoneAtEnd
  <2>3. PastDone' /\ LaterUntouched'
    BY <1>2, <2>1, OthersKept DEF vars
  <2>4. Entries'
    BY <1>2, <2>1, SameBlock
       DEF IInv, vars, Entries, EntryLoading, EntryTreated, EntrySaving,
           EntryCleaned, Once, Usable, Gone
  <2> QED BY <2>2, <2>3, <2>4 DEF IInv
<1> QED BY <1>1, <1>2 DEF Next, Ended

-----------------------------------------------------------------------------
(* What the invariant implies.                                              *)

LEMMA InvUsable == IInv => ImagesUsable
<1> SUFFICES ASSUME IInv, phase \in {"treat", "save"}, NEW i \in InBlock
             PROVE  images[i] = FileOf(i) /\ object[images[i]] \in {"loaded", "partial"}
  BY DEF ImagesUsable
<1> QED BY DEF IInv, Entries, EntryTreated, EntrySaving, Usable

\* When the process is done all files are: those of the blocks before and
\* those of the last block.
LEMMA AllDone ==
  ASSUME IInv, outcome = "done", NEW f \in File
  PROVE  filtered[f] = 1 /\ saved[f] = Once(f) /\ object[f] \in Gone
<1>1. TypeOK /\ PastDone /\ phase = "cleaned" /\ n + 1 >= Blocks
  BY DEF IInv, DoneAtEnd
<1>2. Base \in Nat /\ Size \in Nat /\ Base + Size = fileLen /\ f \in 0 .. fileLen - 1
  BY <1>1, CurrentBlock DEF File
<1>3. CASE f < Base
  BY <1>1, <1>3 DEF PastDone
<1>4. CASE f >= Base
  <2>1. f - Base \in InBlock /\ FileOf(f - Base) = f
    BY <1>1, <1>2, <1>4, CurrentBlock
  <2>2. EntryCleaned(f - Base)
    BY <1>1, <2>1 DEF IInv, Entries
  <2> QED BY <2>1, <2>2 DEF EntryCleaned
<1> QED BY <1>2, <1>3, <1>4, BlocksAssumption

LEMMA InvSavedOnce == IInv => EveryFileSavedOnce
<1> SUFFICES ASSUME IInv, outcome = "done", NEW f \in File
             PROVE  Len(saved[f]) = 1 /\ saved[f][1].image = f /\ saved[f][1].filtered = 1
  BY DEF EveryFileSavedOnce
<1>1. saved[f] = <<[image |-> f, filtered |-> 1]>>
  BY AllDone DEF Once
<1> QED BY <1>1

\* All that is allocated belongs to the current block.
LEMMA InvMemory == IInv => MemoryBounded
<1> SUFFICES ASSUME IInv PROVE MemoryBounded
  OBVIOUS
<1>1. /\ TypeOK /\ PastDone /\ LaterUntouched
      /\ Base \in Nat /\ Size \in 1 .. BLOCK /\ BLOCK \in Nat
  BY CurrentBlock DEF IInv
<1>2. Allocated \subseteq Base .. Base + Size - 1
  BY <1>1, BlocksAssumption DEF Allocated, PastDone, LaterUntouched, Gone, File
<1>3. IsFiniteSet(Base .. Base + Size - 1)
      /\ Cardinality(Base .. Base + Size - 1) = Size
  BY <1>1, FS_Interval
<1>4. Cardinality(Allocated) <= Size
  <2>1. /\ IsFiniteSet(Allocated)
        /\ Cardinality(Allocated) <= Cardinality(Base .. Base + Size - 1)
    BY <1>2, <1>3, FS_Subset
  <2> QED BY <1>3, <2>1
<1>5. Cardinality(Allocated) <= BLOCK
  <2>1. Cardinality(Allocated) \in Nat
    BY <1>2, <1>3, FS_Subset, FS_CardinalityType
  <2> QED BY <1>1, <1>4, <2>1
<1>6. outcome = "done" => Allocated = {}
  BY AllDone DEF Allocated, Gone
<1> QED BY <1>5, <1>6 DEF MemoryBounded

-----------------------------------------------------------------------------
(* The theorems.                                                            *)

LEMMA Invariance == Spec => []IInv
BY InitInv, Inductive, PTL DEF Spec

\* The threads, the pointers and the structures of the images keep the values
\* the code gives them, in every block of every directory.
THEOREM BlocksTyped == Spec => []TypeOK
<1>1. IInv => TypeOK
  BY DEF IInv
<1> QED BY <1>1, Invariance, PTL

\* The pipeline and the saving threads only use images that are loaded and not
\* freed: the entries of cleanImage and of the last, shorter block included.
THEOREM OnlyUsableImages == Spec => []ImagesUsable
BY InvUsable, Invariance, PTL

\* The blocks of main.c cut the directory exactly: when the process has ended
\* well, each image was filtered once and saved once under its own name.
THEOREM SavedOnce == Spec => []EveryFileSavedOnce
BY InvSavedOnce, Invariance, PTL

\* At most BLOCK images are allocated at any time, and none is left at the end.
THEOREM BlocksBoundMemory == Spec => []MemoryBounded
BY InvMemory, Invariance, PTL

-----------------------------------------------------------------------------
(* The packets of the images of a block: BandCut, for every height, thread  *)
(* count, number of images and number of filters.                           *)

\* imagesCut: line y of an image of height h lies in exactly one of the c bands.
THEOREM LineInOneBand ==
  ASSUME NEW h \in Positive, NEW c \in Positive, NEW y \in 0 .. h - 1
  PROVE  /\ y \div BandHeight(h, c) \in 0 .. c - 1
         /\ \A j \in 0 .. c - 1 :
              y \in Begin(h, c, j) .. Finish(h, c, j) <=> j = y \div BandHeight(h, c)
<1>1. BandHeight(h, c) = RoundedUp(h, c)
  BY DEF BandHeight, RoundedUp
<1> QED BY <1>1, InOneBand DEF Begin, Finish

-----------------------------------------------------------------------------
(* The inductive invariant: the packets are none or all of those imagesCut  *)
(* makes, and a line was filtered once if the packet it lies in is done.    *)

AllPackets == {Packet(i, j) : i \in Image, j \in 0 .. nPack - 1}
PacketOf(i, y) == Packet(i, y \div BandHeight(height[i], nPack))
Times(i, y) == IF PacketOf(i, y) \in done THEN 1 ELSE 0

BandInv ==
  /\ height \in [Image -> Heights]
  /\ nPack \in Nat
  /\ mat_buf \in {{}, AllPackets}
  /\ nPack = 0 => mat_buf = {}
  /\ done \subseteq mat_buf
  /\ lineFiltered = [i \in Image |-> [y \in 0 .. height[i] - 1 |-> Times(i, y)]]

LEMMA InitBandInv == CutInit => BandInv
BY CutAssumption DEF CutInit, BandInv, Times

\* The packet of a line is the only one of its image that has the line.
LEMMA LinesOfPacket ==
  ASSUME BandInv, nPack # 0, NEW i \in Image, NEW j \in 0 .. nPack - 1,
         NEW y \in 0 .. height[i] - 1
  PROVE  /\ y \in Lines(Packet(i, j)) <=> Packet(i, j) = PacketOf(i, y)
         /\ PacketOf(i, y) \in AllPackets
<1>1. height[i] \in Positive /\ nPack \in Positive
  BY CutAssumption DEF BandInv, Positive
<1> DEFINE k == y \div BandHeight(height[i], nPack)
<1>2. /\ k \in 0 .. nPack - 1
      /\ y \in Begin(height[i], nPack, j) .. Finish(height[i], nPack, j) <=> j = k
  BY <1>1, LineInOneBand
<1> HIDE DEF k
<1>3. PacketOf(i, y) = Packet(i, k)
  BY DEF PacketOf, k
<1>4. y \in Lines(Packet(i, j)) <=> y \in Begin(height[i], nPack, j) .. Finish(height[i], nPack, j)
  <2>1. y < height[i]
    BY <1>1 DEF Positive
  <2> QED BY <2>1 DEF Lines, Packet
<1>5. Packet(i, j) = Packet(i, k) <=> j = k
  BY DEF Packet
<1> QED BY <1>2, <1>3, <1>4, <1>5 DEF AllPackets

LEMMA StepBandInv == BandInv /\ [CutNext]_cutVars => BandInv'
<1> SUFFICES ASSUME BandInv, [CutNext]_cutVars PROVE BandInv'
  OBVIOUS
<1>1. CASE ChooseNPack
  <2>1. UNCHANGED <<height, mat_buf, done, lineFiltered>> /\ nPack = 0 /\ nPack' \in Nat
    BY <1>1, CutAssumption DEF ChooseNPack
  <2>2. mat_buf = {} /\ done = {}
    BY <2>1 DEF BandInv
  <2>3. lineFiltered' = [i \in Image |-> [y \in 0 .. height'[i] - 1 |-> Times(i, y)']]
    BY <2>1, <2>2 DEF BandInv, Times
  <2> QED BY <2>1, <2>2, <2>3 DEF BandInv
<1>2. CASE ImagesCut
  <2>1. UNCHANGED <<height, nPack, done, lineFiltered>> /\ nPack # 0
    BY <1>2 DEF ImagesCut
  <2>2. mat_buf' = AllPackets /\ mat_buf = {}
    BY <1>2 DEF ImagesCut, AllPackets
  <2>3. AllPackets' = AllPackets
    BY <2>1 DEF AllPackets, Packet
  <2>4. \A i, y : Times(i, y)' = Times(i, y)
    BY <2>1 DEF Times, PacketOf, Packet
  <2> QED BY <2>1, <2>2, <2>3, <2>4 DEF BandInv
<1>3. ASSUME NEW p \in mat_buf, ApplyFilter(p) PROVE BandInv'
  <2>1. /\ UNCHANGED <<height, nPack, mat_buf>> /\ p \notin done
        /\ done' = done \cup {p} /\ mat_buf = AllPackets /\ nPack # 0
    BY <1>3 DEF ApplyFilter, BandInv
  <2>2. PICK i \in Image, j \in 0 .. nPack - 1 : p = Packet(i, j)
    BY <2>1 DEF AllPackets
  <2>3. p.img = i
    BY <2>2 DEF Packet
  <2>4. AllPackets' = AllPackets
    BY <2>1 DEF AllPackets, Packet
  <2>5. \A a, y : PacketOf(a, y)' = PacketOf(a, y) /\ PacketOf(a, y).img = a
    BY <2>1 DEF PacketOf, Packet
  <2>6. \A a \in Image : a # i => \A y : Times(a, y)' = Times(a, y)
    BY <2>1, <2>3, <2>5 DEF Times
  <2>7. \A y \in 0 .. height[i] - 1 :
          Times(i, y)' = IF y \in Lines(p) THEN Times(i, y) + 1 ELSE Times(i, y)
    <3> TAKE y \in 0 .. height[i] - 1
    <3>1. y \in Lines(p) <=> p = PacketOf(i, y)
      BY <2>1, <2>2, LinesOfPacket
    <3> QED BY <2>1, <2>5, <3>1 DEF Times
  <2>8. lineFiltered' = [lineFiltered EXCEPT ![i] =
          [y \in 0 .. height[i] - 1 |-> IF y \in Lines(p) THEN Times(i, y) + 1 ELSE Times(i, y)]]
    <3>1. lineFiltered[i] = [y \in 0 .. height[i] - 1 |-> Times(i, y)]
      BY DEF BandInv
    <3>2. lineFiltered' = [lineFiltered EXCEPT ![i] = [y \in DOMAIN lineFiltered[i] |->
            IF y \in Lines(p) THEN lineFiltered[i][y] + 1 ELSE lineFiltered[i][y]]]
      BY <1>3, <2>3 DEF ApplyFilter
    <3> DEFINE Before == [y \in 0 .. height[i] - 1 |-> Times(i, y)]
    <3>3. /\ DOMAIN Before = 0 .. height[i] - 1
          /\ \A y \in 0 .. height[i] - 1 : Before[y] = Times(i, y)
      OBVIOUS
    <3>4. lineFiltered[i] = Before
      BY <3>1
    <3> HIDE DEF Before
    <3>5. [y \in DOMAIN lineFiltered[i] |->
            IF y \in Lines(p) THEN lineFiltered[i][y] + 1 ELSE lineFiltered[i][y]]
          = [y \in 0 .. height[i] - 1 |-> IF y \in Lines(p) THEN Times(i, y) + 1 ELSE Times(i, y)]
      BY <3>3, <3>4
    <3> QED BY <3>2, <3>5
  <2>9. lineFiltered' = [a \in Image |-> [y \in 0 .. height'[a] - 1 |-> Times(a, y)']]
    <3>1. [y \in 0 .. height[i] - 1 |-> IF y \in Lines(p) THEN Times(i, y) + 1 ELSE Times(i, y)]
          = [y \in 0 .. height'[i] - 1 |-> Times(i, y)']
      BY <2>1, <2>7
    <3>2. \A a \in Image : a # i =>
            lineFiltered[a] = [y \in 0 .. height'[a] - 1 |-> Times(a, y)']
      BY <2>1, <2>6 DEF BandInv
    <3>3. DOMAIN lineFiltered = Image
      BY DEF BandInv
    <3>4. lineFiltered' = [lineFiltered EXCEPT ![i] = [y \in 0 .. height'[i] - 1 |-> Times(i, y)']]
      BY <2>8, <3>1
    <3>5. lineFiltered' = [a \in Image |-> IF a = i THEN [y \in 0 .. height'[i] - 1 |-> Times(i, y)']
                                       ELSE lineFiltered[a]]
      BY <3>3, <3>4
    <3> QED BY <3>2, <3>5
  <2> QED BY <2>1, <2>4, <2>9 DEF BandInv
<1>4. CASE UNCHANGED cutVars
  <2>1. UNCHANGED <<height, nPack, mat_buf, done, lineFiltered>>
    BY <1>4 DEF cutVars
  <2>2. \A a, y : Times(a, y)' = Times(a, y)
    BY <2>1 DEF Times, PacketOf, Packet
  <2>3. AllPackets' = AllPackets
    BY <2>1 DEF AllPackets, Packet
  <2> QED BY <2>1, <2>2, <2>3 DEF BandInv
<1> QED BY <1>1, <1>2, <1>3, <1>4 DEF CutNext

LEMMA BandInvariance == CutSpec => []BandInv
BY InitBandInv, StepBandInv, PTL DEF CutSpec

-----------------------------------------------------------------------------
\* imagesCut: two packets of an image never share a line, for all heights and
\* all numbers of threads.
THEOREM Disjoint == CutSpec => []PacketsDisjoint
<1>1. BandInv => PacketsDisjoint
  <2> SUFFICES ASSUME BandInv, NEW p \in mat_buf, NEW q \in mat_buf, p.img = q.img, p # q,
                      NEW y \in Lines(p), y \in Lines(q)
               PROVE  FALSE
    BY DEF PacketsDisjoint
  <2>1. mat_buf = AllPackets /\ nPack # 0
    BY DEF BandInv
  <2>2. PICK i \in Image, j \in 0 .. nPack - 1 : p = Packet(i, j)
    BY <2>1 DEF AllPackets
  <2>3. PICK a \in Image, k \in 0 .. nPack - 1 : q = Packet(a, k)
    BY <2>1 DEF AllPackets
  <2>4. a = i
    BY <2>2, <2>3 DEF Packet
  <2>5. height[i] \in Positive /\ nPack \in Positive
    BY <2>1, CutAssumption DEF BandInv, Positive
  <2>6. y \in 0 .. height[i] - 1
    <3>1. y < height[i] /\ y \in Begin(height[i], nPack, j) .. Finish(height[i], nPack, j)
      BY <2>2 DEF Lines, Packet
    <3>2. BandHeight(height[i], nPack) \in Nat /\ j \in Nat
      <4>1. BandHeight(height[i], nPack) = RoundedUp(height[i], nPack)
        BY DEF BandHeight, RoundedUp
      <4> QED BY <2>5, <4>1, BandsCover DEF Positive
    <3>3. Begin(height[i], nPack, j) \in Nat
      BY <3>2 DEF Begin
    <3>4. Finish(height[i], nPack, j) \in Int
      BY <3>2 DEF Finish
    <3> QED BY <2>5, <3>1, <3>3, <3>4 DEF Positive
  <2> QED BY <2>1, <2>2, <2>3, <2>4, <2>6, LinesOfPacket
<1> QED BY <1>1, BandInvariance, PTL

\* treatBlock, imagesCut and the filters: every line of every image is filtered
\* exactly once when all the packets are, for all heights and thread counts.
THEOREM Cover == CutSpec => []EveryLineOnce
<1>1. BandInv => EveryLineOnce
  <2> SUFFICES ASSUME BandInv, Finished, NEW i \in Image, NEW y \in 0 .. height[i] - 1
               PROVE  lineFiltered[i][y] = 1
    BY DEF EveryLineOnce
  <2>1. done = AllPackets /\ nPack # 0 /\ nPack \in Nat
    BY DEF BandInv, Finished
  <2>2. PacketOf(i, y) \in AllPackets
    <3>1. 0 \in 0 .. nPack - 1
      BY <2>1
    <3> QED BY <2>1, <3>1, LinesOfPacket
  <2> QED BY <2>1, <2>2 DEF BandInv, Times
<1> QED BY <1>1, BandInvariance, PTL
=============================================================================
