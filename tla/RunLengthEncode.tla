-------------------------- MODULE RunLengthEncode --------------------------
(***************************************************************************)
(* encode (encode.c) compresses a file through windows of taille_max bytes *)
(* mapped in memory.  For each window one pass over the runs of equal      *)
(* bytes counts the output, the output file is extended by that much, and  *)
(* a second pass writes it.  A run of k bytes is stored as the length k    *)
(* and the byte, at most LENGTH at a time; k bytes that differ from their  *)
(* neighbours (literals) as LENGTH + k and the bytes.  Where a window goes *)
(* on from the one before, both passes change the last length of the       *)
(* output written so far.                                                  *)
(*                                                                         *)
(* A step is the treatment of one run by one of the passes.  Positions     *)
(* count bytes from 0.  The module also holds the decoder of cat -x.       *)
(***************************************************************************)
EXTENDS Integers, Sequences, FiniteSetsExt

CONSTANTS LENGTH,     \* 128: the longest run one length can tell
          Newline,    \* 10: the length byte at which the decoder would stop
          PageSize,   \* getpagesize()
          Byte,       \* the bytes of the input
          MaxSize,    \* bound: the longest input
          Beyond,     \* what the byte after the mapping of a window may be
          Unmapped,   \* no page of memory is there
          InSize,     \* cat: the bytes it reads at a time, insize
          OutSize,    \* cat: the bytes it writes at a time, outsize
          OutRoom     \* cat: the bytes outbuf has room for

ASSUME EncodeAssumption ==
  /\ LENGTH \in Nat \ (0 .. 2) /\ PageSize \in Nat \ {0}
  /\ Newline \in 2 .. LENGTH
  /\ Byte \subseteq 0 .. 2 * LENGTH - 1
  /\ MaxSize \in Nat
  /\ Beyond \subseteq (0 .. 2 * LENGTH - 1) \cup {Unmapped}
  /\ Unmapped \notin Int
  /\ InSize \in Nat \ {0} /\ OutSize \in Nat \ {0} /\ OutRoom \in Nat

\* 128 * 127 <= 4 * 4096: a first window, however well it is compressed, leaves
\* room for the last length of the second one.
ASSUME PagesAssumption == LENGTH * (LENGTH - 1) <= 4 * PageSize

VARIABLES
  input,
  step,          \* what the program does next, or how it ended
  offset_input, iteration,
  copi,          \* the position of the current run
  i,             \* the number of runs treated by this pass
  beyond,        \* the byte after the current mapping of the input
  taille_out, taille_output_tot,
  output,        \* the output file
  mapped,        \* the bytes of the output that are mapped: from, to
  current,       \* current_mmap_output, as a position in the output
  nb_1_successif, check_length_last_byte,
  prec,          \* the variables named ..._iter_prec
  overrun        \* history: a run was followed past the end of its window

file  == <<input, offset_input, iteration, beyond>>
sizes == <<taille_out, taille_output_tot>>
out   == <<output, mapped, current>>
ones  == <<nb_1_successif, check_length_last_byte>>
vars  == <<file, step, copi, i, sizes, out, ones, prec, overrun>>

taille_max == 2 * PageSize
Pages(n) == ((n + PageSize - 1) \div PageSize) * PageSize

Init ==
  /\ input \in UNION {[1 .. n -> Byte] : n \in 0 .. MaxSize}
  /\ step = "map"
  /\ offset_input = 0 /\ iteration = 0
  /\ copi = 0 /\ i = 0
  /\ beyond = Unmapped
  /\ taille_out = 0 /\ taille_output_tot = 0
  /\ output = <<>> /\ mapped = [from |-> 0, to |-> 0] /\ current = 0
  /\ nb_1_successif = 0 /\ check_length_last_byte = 0
  /\ prec = [last_byte |-> 0, repetition |-> 0, nb_1 |-> 0, offset_last_length |-> 0]
  /\ overrun = FALSE

-----------------------------------------------------------------------------
(* The window of the input.                                                 *)

WindowEnd == offset_input + Min({Len(input) - offset_input, taille_max})
MappingEnd == offset_input + Pages(WindowEnd - offset_input)

\* The rest of the last page is zero.  What follows the mapping is a byte of
\* something else, followed by one that differs.
Memory(p) ==
  CASE p < WindowEnd                     -> input[p + 1]
    [] p >= WindowEnd /\ p < MappingEnd  -> 0
    [] p = MappingEnd                    -> beyond
    [] OTHER                             -> -1

\* give_nb_same_byte compares with the next byte until it differs.
SameUntil(p) == \A q \in copi .. p : Memory(q) = Memory(copi)
RunEnd == Max({p \in copi .. MappingEnd : SameUntil(p)}) + 1
ReadFaults == beyond = Unmapped /\ SameUntil(MappingEnd - 1)

num == RunEnd - copi
byte == Memory(copi)

\* The first run of a window that is not the first one.
AtBorder == i = 0 /\ iteration # 0
LastRun == RunEnd = WindowEnd

same_byte == byte = prec.last_byte
last_byte_repeated == prec.repetition > 1
last_byte_succession_1 == prec.repetition = 1

\* The literals at the end of the window before are told by a length of their
\* own, or by one they share with others.
LastLengthShared == prec.nb_1 % (LENGTH - 1) # 1

\* Of n literals before the border, the ones the last length tells, and how
\* many more it could.
Precedent(n) == IF n = 0 THEN 0 ELSE 1 + ((n - 1) % (LENGTH - 1))
Room(n) == LENGTH - 1 - Precedent(n)

-----------------------------------------------------------------------------
(* count_length_output: the size of the output of a window.                 *)

number_time_bigger_then_length(n) == 1 + (n - 1) \div LENGTH

OnesSize(n) == n + 1 + (n - 1) \div (LENGTH - 1)

\* treatement_nb_1_successif: n literals, when nb_1 came before the border.
FlushSize(n, check, nb_1) ==
  CASE n = 0                                  -> 0
    [] n # 0 /\ check = 0                     -> OnesSize(n)
    [] n # 0 /\ check = 1 /\ n <= Room(nb_1)  -> n
    [] OTHER                                  -> OnesSize(n - Room(nb_1))

\* Mutant: a run longer than LENGTH is counted as one.
RunSize_Once(n) == 2

RunSize(n) == 2 * number_time_bigger_then_length(n)

\* treat_case_num_bigger_length, treat_case_num_smaller_length: what a run of
\* more than one byte adds at the border.
BorderSize ==
  CASE same_byte /\ last_byte_repeated /\ num > LENGTH ->
         RunSize(num - (LENGTH - prec.repetition))
    [] same_byte /\ last_byte_repeated /\ num <= LENGTH ->
         IF LENGTH - prec.repetition >= num THEN 0 ELSE 2
    [] same_byte /\ last_byte_succession_1 /\ num > LENGTH ->
         RunSize(num + 1) - (IF LastLengthShared THEN 2 ELSE 3)
    [] same_byte /\ last_byte_succession_1 /\ num <= LENGTH ->
         (IF num = LENGTH THEN 2 ELSE 0) + (IF LastLengthShared THEN 1 ELSE 0)
    [] OTHER -> RunSize(num)

\* treat_case_num_1_length: what a single byte equal to the last one adds.
BorderSizeOfOne ==
  CASE last_byte_repeated      -> IF prec.repetition = LENGTH THEN 2 ELSE 0
    [] last_byte_succession_1  -> IF LastLengthShared THEN 1 ELSE 0
    [] OTHER                   -> 0

\* A single byte at the border joins the literals, unless it is equal to the
\* last byte or there is no last byte.
JoinsLiterals ==
  AtBorder => ~same_byte /\ (last_byte_repeated \/ last_byte_succession_1)
ChecksLastLength == AtBorder /\ JoinsLiterals /\ last_byte_succession_1

NumSize ==
  CASE num # 1             -> IF AtBorder THEN BorderSize ELSE RunSize(num)
    [] num = 1 /\ AtBorder /\ same_byte -> BorderSizeOfOne
    [] OTHER               -> 0

\* The count pass fills the last length before it knows it was not one.
RepetitionCounted ==
  IF /\ AtBorder /\ same_byte /\ last_byte_repeated
     /\ num # 1 /\ LENGTH - prec.repetition < num
  THEN LENGTH ELSE prec.repetition

NewOnes ==
  IF num = 1 THEN nb_1_successif + (IF JoinsLiterals THEN 1 ELSE 0) ELSE 0
NewCheck ==
  CASE num # 1                      -> 0
    [] num = 1 /\ ChecksLastLength  -> 1
    [] num = 1 /\ ~ChecksLastLength -> check_length_last_byte

\* What the pass keeps of the last run of the window.
LastRunOf(p) ==
  [p EXCEPT !.last_byte  = byte,
            !.repetition = IF num % LENGTH = 0 THEN LENGTH ELSE num % LENGTH,
            !.nb_1       = NewOnes]

CountRun ==
  /\ step = "count" /\ copi < WindowEnd /\ ~ReadFaults
  /\ prec' = LET p == [prec EXCEPT !.repetition = RepetitionCounted]
             IN IF LastRun THEN LastRunOf(p) ELSE p
  /\ taille_out' =
       taille_out + NumSize
         + (IF num # 1 THEN FlushSize(nb_1_successif, check_length_last_byte, prec.nb_1) ELSE 0)
         + (IF LastRun THEN FlushSize(NewOnes, NewCheck, NewOnes) ELSE 0)
  /\ nb_1_successif' = IF LastRun THEN 0 ELSE NewOnes
  /\ check_length_last_byte' = IF LastRun THEN 0 ELSE NewCheck
  /\ copi' = RunEnd /\ i' = i + 1
  /\ overrun' = (overrun \/ RunEnd > WindowEnd)
  /\ UNCHANGED <<file, step, taille_output_tot, out>>

-----------------------------------------------------------------------------
(* The windows: treatement and make_encode.                                 *)

\* The next window is mapped, or there is none.
MapWindow ==
  /\ step = "map" /\ offset_input < Len(input)
  /\ beyond' \in Beyond
  /\ step' = "count"
  /\ taille_out' = 0 /\ copi' = offset_input /\ i' = 0
  /\ UNCHANGED <<input, offset_input, iteration, taille_output_tot, out, ones,
                 prec, overrun>>

Finish ==
  /\ step = "map" /\ offset_input >= Len(input)
  /\ step' = "done"
  /\ UNCHANGED <<file, copi, i, sizes, out, ones, prec, overrun>>

\* adjust_offset_output: the page in which the new part of the output starts.
OffsetOutput(tmp) == (tmp \div PageSize) * PageSize

\* lseek and write: the file gets a zero byte at the end of its new size.
ResizeOutput ==
  /\ step = "count" /\ copi >= WindowEnd
  /\ LET total == taille_output_tot + taille_out
         from  == OffsetOutput(taille_output_tot)
     IN /\ taille_output_tot' = total
        /\ output' = [q \in 1 .. Max({total, Len(output)}) |->
                        IF q = total \/ q > Len(output) THEN 0 ELSE output[q]]
        /\ mapped' = [from |-> from, to |-> from + Pages(total - from)]
  /\ current' = taille_output_tot
  /\ nb_1_successif' = 0
  /\ step' = "compress" /\ copi' = offset_input /\ i' = 0
  /\ UNCHANGED <<file, taille_out, check_length_last_byte, prec, overrun>>

\* msync fails when no byte of the output was to be mapped.
UnmapWindow ==
  /\ step = "compress" /\ copi >= WindowEnd
  /\ IF mapped.from = mapped.to
     THEN step' = "error" /\ UNCHANGED <<iteration, offset_input>>
     ELSE /\ step' = "map"
          /\ iteration' = iteration + 1
          /\ offset_input' = WindowEnd
  /\ nb_1_successif' = 0
  /\ UNCHANGED <<input, beyond, copi, i, sizes, out, check_length_last_byte,
                 prec, overrun>>

\* A run reaches the end of the mapping and nothing is mapped there.
ReadFault ==
  /\ step = "count" /\ copi < WindowEnd /\ ReadFaults
  /\ step' = "crash"
  /\ UNCHANGED <<file, copi, i, sizes, out, ones, prec, overrun>>

-----------------------------------------------------------------------------
(* compress: the output of a window.  A writer is the output file, the      *)
(* position of the next byte, offset_last_length_iter_prec, and whether     *)
(* every access was to mapped memory.                                       *)

Store(f, q, b) == IF q < Len(f) THEN [f EXCEPT ![q + 1] = b] ELSE f

\* set_one_output.  In the last page, bytes after the end of the file are lost.
PutByte(w, b) ==
  IF b = Unmapped THEN [w EXCEPT !.ok = FALSE] ELSE
  [w EXCEPT !.output  = Store(w.output, w.current, b),
            !.current = w.current + 1,
            !.ok      = w.ok /\ mapped.from <= w.current /\ w.current < mapped.to]

\* One byte after the other.
Put(w, bytes) ==
  LET after[k \in 0 .. Len(bytes)] ==
        IF k = 0 THEN w ELSE PutByte(after[k - 1], bytes[k])
  IN after[Len(bytes)]

\* set_output_repeated_smaller_length: the length as it is stored.
\* Mutant: the length at which the decoder would stop is stored.
StoredLength_Plain(len) == IF len = 1 THEN LENGTH + 1 ELSE len

StoredLength(len) ==
  CASE len = 1       -> LENGTH + 1
    [] len = Newline -> 1
    [] OTHER         -> len

\* set_output_repeated: n times the byte b.
Repeated(b, n) ==
  LET long == (n - 1) \div LENGTH
  IN [k \in 1 .. 2 * number_time_bigger_then_length(n) |->
        IF k % 2 = 0 THEN b
        ELSE IF k <= 2 * long THEN StoredLength(LENGTH)
        ELSE StoredLength(n - long * LENGTH)]

\* Mutant: a length tells all the literals that are left.
OnesLength_All(n) == LENGTH + n

OnesLength(n) == LENGTH + Min({n, LENGTH - 1})

\* set_output_successif_1: literals, at most LENGTH - 1 after each length.
Literals(bytes) ==
  [k \in 1 .. IF bytes = <<>> THEN 0 ELSE OnesSize(Len(bytes)) |->
     LET chunk == (k - 1) \div LENGTH
     IN IF (k - 1) % LENGTH = 0 THEN OnesLength(Len(bytes) - chunk * (LENGTH - 1))
        ELSE bytes[k - 1 - chunk]]

\* give_ptr_debut_map_prec maps the output again from the number of the page
\* that holds the last length, where its offset is meant; mmap takes multiples
\* of the page size only.
PatchOffset(w) == w.last \div PageSize
PatchedAt(w, k) ==
  /\ mapped.from < mapped.to /\ PatchOffset(w) % PageSize = 0
  /\ k < mapped.to - mapped.from /\ PatchOffset(w) + k < Pages(Len(w.output))

\* The byte k after the last length becomes b.
Patch(w, k, b) ==
  IF PatchedAt(w, k)
  THEN [w EXCEPT !.output = Store(w.output, PatchOffset(w) + k, b)]
  ELSE [w EXCEPT !.ok = FALSE]

LastLength(w) == IF PatchOffset(w) < Len(w.output) THEN w.output[PatchOffset(w) + 1] ELSE 0

\* The last literal of the window before becomes the first byte of a run of n:
\* its length loses one, or is the length of the run.
TakeLastLiteral(w, n) ==
  LET len == Min({n, LENGTH})
  IN IF LastLengthShared
     THEN Patch(Patch(w, 0, (LastLength(w) - 1) % (2 * LENGTH)), prec.nb_1, len)
     ELSE Patch(w, 0, len)

\* The n bytes before position p, also where p is before the window.
Before(p, n, first) ==
  [k \in 1 .. n |-> IF p - n + k - 1 < offset_input THEN first ELSE Memory(p - n + k - 1)]

\* compress_nb_1_successif: the n literals that end before position p.  Where
\* they go on from the window before they are taken one byte too early, the
\* first from before the mapping.
WriteOnes(w, p, n, check, first) ==
  CASE n = 0              -> w
    [] n # 0 /\ check = 0 -> Put(w, Literals(Before(p, n, first)))
    [] OTHER ->
         LET data == Before(p - 1, n, first)
             kept == Min({n, Room(prec.nb_1)})
         IN Put(Put(Patch(w, 0, LENGTH + Precedent(prec.nb_1) + kept),
                    SubSeq(data, 1, kept)),
                Literals(SubSeq(data, kept + 1, n)))

\* compress_case_num_bigger_length, compress_case_num_smaller_length.
WriteRunAtBorder(w) ==
  CASE same_byte /\ last_byte_repeated /\ num > LENGTH ->
         Put(Patch(w, 0, LENGTH), Repeated(byte, num - (LENGTH - prec.repetition)))
    [] same_byte /\ last_byte_repeated /\ num <= LENGTH ->
         IF LENGTH - prec.repetition >= num
         THEN Patch(w, 0, prec.repetition)
         ELSE Put(Patch(w, 0, LENGTH), Repeated(byte, num))
    [] same_byte /\ last_byte_succession_1 ->
         LET v == TakeLastLiteral(w, num + 1)
         IN IF num < LENGTH THEN v
            ELSE Put(v, (IF LastLengthShared THEN <<byte>> ELSE <<>>)
                          \o Repeated(byte, num + 1 - LENGTH))
    [] OTHER -> Put(w, Repeated(byte, num))

\* compress_case_num_1_length, a byte equal to the last one.
WriteOneAtBorder(w) ==
  CASE last_byte_repeated /\ prec.repetition = LENGTH -> Put(w, Repeated(byte, 1))
    [] last_byte_repeated /\ prec.repetition # LENGTH -> Patch(w, 0, prec.repetition + 1)
    [] last_byte_succession_1 ->
         LET v == TakeLastLiteral(w, 2) IN IF LastLengthShared THEN PutByte(v, byte) ELSE v
    [] OTHER -> w

WriteRun(w) ==
  CASE num # 1 /\ AtBorder             -> WriteRunAtBorder(w)
    [] num # 1 /\ ~AtBorder            -> Put(w, Repeated(byte, num))
    [] num = 1 /\ AtBorder /\ same_byte -> WriteOneAtBorder(w)
    [] OTHER                           -> w

\* Where the last length of the window is.  It is set before the last literals
\* are written, which may still change the last length of the window before.
OffsetLastLength ==
  IF LastRun
  THEN IF num = 1 THEN taille_output_tot - 1 - NewOnes ELSE taille_output_tot - 2
  ELSE prec.offset_last_length

CompressRun ==
  /\ step = "compress" /\ copi < WindowEnd
  /\ \E first \in Beyond :
       LET w0 == [output |-> output, current |-> current,
                  last |-> prec.offset_last_length, ok |-> TRUE]
           w1 == IF num = 1 THEN w0
                 ELSE WriteOnes(w0, copi, nb_1_successif, check_length_last_byte, first)
           w2 == [WriteRun(w1) EXCEPT !.last = OffsetLastLength]
           w3 == IF LastRun THEN WriteOnes(w2, RunEnd, NewOnes, NewCheck, first) ELSE w2
       IN /\ output' = w3.output /\ current' = w3.current
          /\ step' = IF w3.ok THEN step ELSE "crash"
  /\ prec' = [prec EXCEPT !.repetition = RepetitionCounted,
                          !.offset_last_length = OffsetLastLength]
  /\ nb_1_successif' = IF LastRun THEN 0 ELSE NewOnes
  /\ check_length_last_byte' = IF LastRun THEN 0 ELSE NewCheck
  /\ copi' = RunEnd /\ i' = i + 1
  /\ UNCHANGED <<file, sizes, mapped, overrun>>

Ended == step \in {"done", "error", "crash"} /\ UNCHANGED vars

Next ==
  \/ MapWindow \/ CountRun \/ ReadFault \/ ResizeOutput \/ CompressRun
  \/ UnmapWindow \/ Finish \/ Ended

Spec == Init /\ [][Next]_vars

-----------------------------------------------------------------------------
(* cat -x: what the decoder makes of a file.  It reads the file in blocks of *)
(* InSize bytes, and a newline is put behind each; a token is a length and  *)
(* the bytes that belong to it.                                             *)

StartsBlock(p) == (p - 1) % InSize = 0
BlockEnd(f, p) == Min({Len(f), ((p - 1) \div InSize + 1) * InSize})

TokenEnd(f, p) ==
  CASE f[p] = Newline                     -> p
    [] f[p] # Newline /\ f[p] <= LENGTH   -> p + 1
    [] OTHER                              -> p + f[p] - LENGTH

TokenBytes(f, p) ==
  CASE f[p] = Newline                     -> <<Newline>>
    [] f[p] # Newline /\ f[p] <= LENGTH   ->
         [k \in 1 .. IF f[p] = 1 THEN Newline ELSE f[p] |-> f[p + 1]]
    [] OTHER                              -> SubSeq(f, p + 1, TokenEnd(f, p))

\* Of the bytes in outbuf, those that are left when the token at p is begun: only
\* at a newline and where a block ends are they written, OutSize bytes at a time.
Pending(f, p, used) == IF f[p] = Newline \/ StartsBlock(p) THEN used % OutSize ELSE used

\* No test ends a token at the end of its block: what comes next is read from the
\* newline behind it and from what the buffer held before.  Nor is there a test
\* for the end of outbuf.  In both cases anything may come out.
Undecodable == <<-1>>

\* from[p][used]: from position p on, with so many bytes in outbuf.
Decode(f) ==
  LET from[p \in 1 .. Len(f) + 1] ==
        [used \in 0 .. OutRoom |->
           IF p > Len(f) THEN <<>>
           ELSE IF TokenEnd(f, p) > BlockEnd(f, p) THEN Undecodable
           ELSE LET filled == Pending(f, p, used) + Len(TokenBytes(f, p))
                IN IF filled > OutRoom THEN Undecodable
                   ELSE TokenBytes(f, p) \o from[TokenEnd(f, p) + 1][filled]]
  IN from[1][0]

-----------------------------------------------------------------------------
(* Properties.                                                              *)

TypeOK ==
  /\ input \in Seq(Byte)
  /\ step \in {"map", "count", "compress", "done", "error", "crash"}
  /\ offset_input \in 0 .. Len(input) /\ iteration \in 0 .. MaxSize
  /\ copi \in 0 .. Pages(MaxSize) + 1 /\ i \in 0 .. taille_max
  /\ beyond \in Beyond \cup {Unmapped}
  /\ taille_out \in 0 .. 2 * taille_max
  /\ taille_output_tot \in Nat
  /\ output \in Seq(0 .. 2 * LENGTH - 1)
  /\ mapped.from <= mapped.to /\ current >= mapped.from
  /\ nb_1_successif \in 0 .. taille_max
  /\ check_length_last_byte \in {0, 1}
  /\ prec \in [last_byte : 0 .. 2 * LENGTH - 1, repetition : 0 .. LENGTH,
               nb_1 : 0 .. taille_max, offset_last_length : Nat]
  /\ overrun \in BOOLEAN

\* The bytes equal to the last one at the end of the window that ends at e.
RunBefore(e) ==
  LET start == ((e - 1) \div taille_max) * taille_max
  IN Cardinality({p \in start + 1 .. e : \A q \in p .. e : input[q] = input[e]})

\* At the border p a run starts that goes on with nothing of the window before
\* and that the end of its own window is not mistaken for.
PlainBorder(p) ==
  LET e == Min({p + taille_max, Len(input)})
  IN /\ input[p + 1] \notin {input[p], input[e]}
     /\ \/ input[p + 2] = input[p + 1]
        \/ RunBefore(p) % LENGTH # 1 /\ RunBefore(e) % LENGTH # 1

Border == {p \in 1 .. Len(input) - 1 : p % taille_max = 0}
Plain == ~overrun /\ \A p \in Border : PlainBorder(p)

\* cat reads what was written in one go and has room for what it tells.
FitsBuffers == Len(output) <= InSize /\ Len(input) <= OutRoom

\* A file that needs no change at a border, of one or more windows, is compressed
\* without an error, and the decoder gives it back if it fits the buffers of the
\* decoder, although every window is sized, placed in the pages of the output and
\* written on its own.
PlainFileDecodes ==
  Plain => step # "error" /\ (step = "done" /\ FitsBuffers => Decode(output) = input)

\* In such a file the pass that writes fills exactly what the pass that counted
\* asked for: no gap is left, nothing is written past it, and no access is outside
\* of a mapping, but for the read that follows a run past the end of a window.
SizePassExact ==
  Plain =>
    /\ step = "compress" => /\ current <= taille_output_tot
                            /\ copi = WindowEnd => current = taille_output_tot
    /\ step = "crash" => copi < WindowEnd /\ ReadFaults

\* No run of equal bytes goes on over a border.
NoRunAcross == \A p \in Border : input[p + 1] # input[p]

\* The usage text, encode.c:98, "Compress the file given by first argument using
\* the run length encoding algorythm": when the program ends with success, what
\* it wrote is the compressed file.  Reads past a window, and runs that go on over
\* a border, are left aside.
CompressedFileDecodes ==
  step = "done" /\ ~overrun /\ NoRunAcross => Decode(output) = input
=============================================================================
