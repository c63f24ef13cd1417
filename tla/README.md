# Verification of the SystInfo1 programs

TLA+ specifications of the concurrent programs of this repository, the TLC
configurations that check them on small instances, and proofs, checked by
TLAPS, of theorems that hold for every instance. Paths are relative to the
root of the repository; `P2` stands for `src/SVN/SINF1252_2013_P2/grp1`.

## 1. The repository

SystInfo1 holds the work of two students in a course on operating systems:
four projects, a few exercises, and two thread pools they tried out. Most of
the files are a vendored copy of coreutils 8.21 (the third project adds one
program to it) and the private copies of Subversion (`.svn`).

### 1.1 Inventory

**Filter pipeline** — `P2/threadpool.c`, `threadpool.h`, `filterBand.h`.
The second project applies a line of filters to all the bitmaps of a directory.
Every filter has its own threads. An image is cut into *packets* (bands of
lines); row `f` of `mat_buf` holds the packets that wait for filter `f`, and a
thread of filter `f` (function `productor`) takes a packet from row `f`,
filters its band and inserts it into row `f+1`.

- State: `mat_buf`, per row the semaphores `full` and `empty` and a mutex
  `buf_mutex`; per filter the counter `to_pass`; per blur filter the counters
  `mat_blur`, `can_i_take_c`, `copi_is_done`, `choosen_c` of each image, the
  semaphore `can_copi` and the mutexes around them; the copy of the image each
  packet points to (`read_only`).
- Operations: `imagesCut`, `initializeBlur`, `image_treatement`, `productor`
  with `check_lmat_blur`, `image_copi`, `take_elem`, `take_elem_image`,
  `insert_elem`, `image_copi_destroy`, and `error`.
- Interactions: threads of two neighbouring filters share a row; a blur reads
  the neighbouring bands, so it waits until all the packets of an image are in
  its row (`can_copi`), the first thread copies the image, all read that copy,
  and the thread that inserts the last blurred packet frees it. `main.c` calls
  `imagesCut` and `image_treatement` for each block of images.
- Hard: everything is interleaving. Semaphores are decremented in one critical
  section and the thing they count is taken in a later one; the copy races with
  the filters of neighbouring rows; a freed copy still has pointers to it; every
  loop is bounded by a counter the threads of a filter share.
- Correct when: no packet is lost, duplicated or overwritten; a band gets the
  filters in order, each once; a blur reads a live copy of a complete image; no
  pixel race; every copy is freed once; no call of `error`; the joins return.

**Block cutting and bands** — `treatBlock` in `P2/main.c`, `imagesCut` in
`P2/threadpool.c`, the functions of `P2/filters.c`. How many packets an image is
cut into (the most threads of a filter, at most the smallest height), which
lines each gets, which lines a filter then touches. Hard: rounding. Correct
when the packets of an image are disjoint and cover every line once.

**Images of a block** — `P2/main.c`, `P2/bitmapio.c`, `P2/bitmap.h`. The files
are treated ten at a time: one thread per image loads it (`openImage`,
`load_bmp`), the pipeline runs, one thread per image saves it (`saveImage`,
`write_bmp`), `cleanImage` frees the structures. State: `images[]`, the heap,
the tables of the pipeline. Hard: the last block is smaller, threads fail while
others run, `error` frees everything from any thread. Correct when every file
is filtered once and saved once under its own name, nothing is freed twice, and
an error ends the program.

**Blocking thread pool** — `src/cthreadpool`. A fixed array of tasks moves
between two ring buffers, the free tasks and the tasks to run, each with a
mutex and a condition variable. `threadpool_add_task` obtains a free task (it
waits, or returns -2), fills it and enqueues it; a worker dequeues it, runs it
and gives it back; `threadpool_free` raises `stop_flag`, wakes all and joins.
Hard: waiters are woken only when a ring stops being empty, `stop_flag` is read
and written outside of the mutex. Correct when a task has one owner, accepted
jobs run in order and once, nobody sleeps while there is something to do, and
`threadpool_free` returns.

**Asynchronous pool** — `src/threadPoolIntel`. An unbounded linked list of
tasks, a mutex and a condition variable, a constructor and a destructor run
around `main`. Hard: `pop` moves `first` and never resets `last`; `terminated`
is tested only after a wait; tasks are freed by `pop`. Correct when every pushed
task is run once, in order, and no freed node is touched.

**Run-length encoder** — `encode.c` in the third project,
`src/SVN/SINF1252_2013_P3/grp19/coreutils-8.21/src`, and its decoder, the option
`-x` of `cat.c`. The input is mapped into memory in windows of two pages; a first
pass over a window computes how far the output grows, a second writes it, and a
run of bytes that crosses the border of two windows is continued in the output
of the window before. Hard: the two passes must agree at each border, in a dozen
cases (repeated byte, sequence of single bytes, full length byte), and a length
of 10 must never be stored as it is, because the decoder stops at a newline; the
decoder reads blocks that know nothing of the lengths in them, into a buffer made for
other options of `cat`.
Correct when the output does not depend on the windows, the computed size is
the size written, and decoding gives the input back.

**Bit strings** — `src/projet-1/bitstring.c`. A packed array of bits with get,
set, rotate, concat, xor and print. Sequential. Hard: indices run backwards
inside the bytes, negative rotations, error paths that leak. Correct when each
operation agrees with the sequence of bits it stands for.

**Fork/join filters** — `src/projet-2`. The predecessor of the pipeline: the
filters of the command line one after the other, the last one first, on one image;
a filter creates a thread per band and joins them all; the blur works on a copy.
Hard: bands rounded up, more threads than lines, a blur whose threads read lines
that others write. Correct when the filters together do what each does to the whole
image in turn.

**Exercises and mini-projects** — `src/Chap1` … `Chap6`, `src/CodeJamQ`,
`src/MiniProjet-2`, `src/TestThread`, `src/valgrind`,
`src/SVN/SINF1252_2013_P0`. Single functions, contest solutions and
demonstrations.

**Vendored and duplicated code** — the rest of coreutils 8.21, all `.svn`
directories, `src/SVN/SINF1252_2013_P1` (the same program as `src/projet-1`).

`PROJECT.json` lists the components with their status, and under `hazards` what
is hard to test in them, line by line, with the properties that cover each.

### 1.2 Sources of the requirements

What the code should do is read from the comments of the headers and of the
functions, and from the report `P2/rapport.pdf`: packets wait in the rows
between consumers and producers, a blur starts on an image when `can_copi` says
that all of it has arrived, and on an error "la fonction error est appelée et
libère toutes les structures allouées sur le tas, avant d'arrêter le programme".

## 2. Modules

| module | models | used with |
|---|---|---|
| `FilterStages` | what the pipeline promises: every filter once per band, in order, a blur only on a complete image | `FilterPipeline` implements it |
| `FilterPipeline` | `productor` and all it calls, `image_treatement` | `MCFilterPipeline` |
| `MCFilterPipeline` | threads as model values, and who works for which filter | `RedBlur`, `BlurChain` |
| `FilterPipelineProofs` | theorems about `FilterPipeline`: types, packets, order of the filters, errors, semaphores, copies, the refinement | |
| `BandCut` | `treatBlock`, `imagesCut` and the lines of a filter | `BandCut` |
| `Arithmetic` | lemmas about natural numbers: induction, functions defined by recursion, division, equal bands; six of the proof modules use it | |
| `ImageBlocks` | the blocks of `main.c`: load, treat, save, clean | `ImageBlocks`, `DoubleFree` |
| `ImageBlocksProofs` | theorems about `ImageBlocks` and `BandCut`, the two that go through `main.c` | |
| `TaskPool` | what a thread pool promises | `CThreadPool` and `AsyncPool` implement it |
| `CThreadPool` | `src/cthreadpool` | `MCThreadPool` |
| `MCThreadPool` | threads and jobs as model values | `CPool` |
| `CThreadPoolProofs` | theorems about `CThreadPool` | |
| `AsyncPool` | `src/threadPoolIntel`: the list, its nodes on the heap, the workers | `AsyncPool`, `AsyncLost` |
| `AsyncPoolProofs` | theorems about `AsyncPool`: types, nodes, wake-ups, the refinement | |
| `RunLengthEncode` | `encode.c`, and the decoder in `cat.c` | `Encode`, `EncodeBorder` |
| `RunLengthEncodeProofs` | theorems about `RunLengthEncode`: the two passes, the decoder, types | |
| `ImageChain` | what the filters of `src/projet-2` promise: one after the other on the whole image | `ForkJoinFilters` implements it |
| `ForkJoinFilters` | `src/projet-2`: the filters, their bands and threads, the copy of the blur | `ForkJoin` |
| `ForkJoinProofs` | theorems about `ForkJoinFilters` | |
| `BitSequence` | what the calls of `bitstring.c` do, on sequences of bits; the rotation is the one of the code, not of `bitstring.h` | `Bitstring` implements it, call by call |
| `Bitstring` | `src/projet-1/bitstring.c`: bits packed into chars | `Bitstring` |
| `BitstringProofs` | theorems about `Bitstring`: chars in range, rotation, the calls, the print | |

The three models of the second project meet at their interfaces: `ImageBlocks`
takes the whole of `image_treatement` as one step (`Treat`) after `Cut`;
`BandCut` says what `Cut` puts into row 0; `FilterPipeline` starts with a full
row 0 and shows what `Treat` does, in every interleaving of the threads, and
that it ends. `BandCut.ApplyFilter` treats the packets in any order, which is
what `PacketConservation` and `FiltersInOrder` allow to assume.

### 2.1 FilterPipeline

`pc[t]` says where thread `t` is in `productor`; the other variables have the
names of the code. A step is one critical section, one semaphore operation, or
the beginning or the end of one of the two long accesses to the pixels (the
`memcpy` of `image_copi`, and `apply_filter`): between these points a thread
touches only its own data. Two accesses are *not* atomic in the model although
a mutex protects them, because another thread can see their middle: the copy,
during which `copi_is_done_mutex` and `buf_mutex` are held, and the scan of
`check_lmat_blur`, which looks at one image per step and locks `blur_mutex`
anew for each.

| action | code (`P2/threadpool.c`) |
|---|---|
| `Pass`, `ExitLoop` | the bound of the loop, `to_pass` against the number of packets |
| `WaitCanCopi`, `LockTake`, `CheckLmatBlur`, `Repost` | a blur thread is given an image: `can_copi`, the scan, the second post for the next thread |
| `LockCopi`, `CopiAlreadyDone`, `LockBuf`, `EndCopi` | the first thread copies it, the others wait for the mutex |
| `WaitFull`, `Take` | `consommator`: any packet of the row, or one of the chosen image |
| `EndApply` | the end of `apply_filter`; the thread is inside it from `Take` on |
| `WaitEmpty`, `Insert`, `InsertBlurred` | the packet goes to the next row; a blur counts it and frees the copy with the last one |
| `PostFull`, `BeforeBlur` | the packet is announced; the last of an image wakes the next blur |
| `Join` | the joins of `image_treatement` |

Pixels are abstracted to what the properties tell apart: `applied[p]` is the
sequence of filters the band `p` has had, `content[k]` what a copy held when it
was made. `read_only` starts as `Garbage`, because the code does not initialise
it, and the heap state of a copy counts the frees. `failed` stands for a call of
`error`: nothing runs after it. Left out: the failures of `malloc` and of the
pthread functions, the allocation and release of the tables, the colours.

### 2.2 BandCut

`ChooseNPack` is the choice of `treatBlock`, `ImagesCut` the cutting,
`ApplyFilter(p)` one filter on one packet. The packets carry `begin` and
`finish` as the code computes them, also past the last line; the filters skip
lines that do not exist (`Lines`).

### 2.3 ImageBlocks

`images[i]` is the pointer of entry `i`, `object[f]` the structure of file `f` on
the heap. `quality` says what each file is like and never changes: TLC starts
from every combination. `Cut` and `Treat` are the pipeline as one step each, the
loading and saving threads are interleaved. A second `free` leaves the process
running or kills it, as an allocator may. `Error` is `error()` of
`threadpool.c`; it reads `mat_buf[0]` before it tests `mat_buf`, so without the
tables of the pipeline it is a crash.

### 2.4 CThreadPool

The two rings are records with the fields of the code. A step is one critical
section, or what a thread does outside of them that others can see: the first
test of `stop_flag`, the end of a routine, raising `stop_flag`. A thread in
`pthread_cond_wait` is at `"wait"`; a broadcast sends it back to the test of its
loop, and so may a spurious wake-up at any time. `Release` includes the loop's
return to the top. Each job is one call of `threadpool_add_task`; a job in
`NullJob` has a `NULL` routine. Callers have returned when `threadpool_free` is
called, as in `example.c`.

### 2.5 AsyncPool

`first`, `last` and `terminated` are the fields of the queue; `next`, `data` and
`heap` are the memory: one entry per address `malloc` may return. A step is one
critical section, or an access to memory outside of one: `BeginPush` allocates and
fills a node, `EndPush` links it and signals; `Pop` unlinks the first node,
`CopyAndFree` copies and frees it after the unlock. `last` still points to the
last node after it was freed, and the next push writes through it. That write is
undefined in C; the model gives it the effect it has in a build with an allocator
that does not move or unmap the memory of a freed node: it sets the `next` field
at that address, whether the address is free or was handed out again. Addresses
are reused at once or later, in every way (`BeginPush` takes any address that is
not in use). `pthread_pool_init` and `pthread_pool_destroy` are declared in the
header and defined nowhere in the repository; `Init` and `Terminate` are what the
header says of them (threads started on an empty queue; the flag, a broadcast and
the joins).

### 2.6 RunLengthEncode

A step is the treatment of one run by one of the passes; the names are those of
the code (`prec` collects the variables `..._iter_prec`). `CountRun` is one turn
of the loop of `count_length_output`, `CompressRun` one of `compress`; between
them `ResizeOutput` extends the output and maps its new part, after them
`UnmapWindow` syncs it. Positions count bytes from 0. Three details of the code
decide how it behaves and are kept:

- *Reading past a window.* `give_nb_same_byte` compares with the next byte until
  it differs. What `mmap` leaves in the rest of the last page is zero; what
  follows the mapping is chosen from `Beyond`, `Unmapped` among it.
- *Writing into the output.* `Store` keeps what lies inside the file; a byte
  written to the rest of the last page, past the end of the file, is lost, as
  `mmap` says. An access outside of a mapping is a crash.
  `Put` stores the bytes one after the other, in a function of their number.
- *Changing the last length.* `give_ptr_debut_map_prec` passes the number of a
  page to `mmap` where the offset of the page is meant; `PatchedAt` says when this
  succeeds, `Patch` where the byte then lands.

`Decode` is what `cat -x` makes of a file. It reads the file in blocks of `InSize` bytes
and puts a newline behind each (`BlockEnd`, `StartsBlock`). A token is a length and the
bytes that belong to it (`TokenEnd`, `TokenBytes`), taken one after the other without a
test for the end of the block; the bytes they stand for go to `outbuf`, again without a
test. `outbuf` is written only at a newline and where a block ends, `OutSize` bytes at a
time (`Pending`). A token that crosses the end of its block takes the newline and then
what the buffer held before, and one that does not fit into `outbuf` is written past it:
of both the model says only that anything may come out (`Undecodable`). `InSize` and
`OutSize` are the `io_blksize` of the file and of the output, 64 KiB or more, and
`OutRoom` is `outsize - 1 + 4 * insize + 20`, less what `ptr_align` takes off; the model
leaves the three free. The file is a regular one: each read but the last is full, and
`FIONREAD` tells the bytes that are left, so nothing else is written before a read.

`LENGTH`, `Newline` and `PageSize` are 128, 10 and `getpagesize()` in the code.
The definitions were compared with the compiled program: with its three constants
set to 3 or 4, 2 and 3, its output on every file of up to 13 bytes whose run
ended normally was the one the definitions give.

### 2.7 Bitstring

`b[h]` is the structure a pointer of the caller points to. All operations are
written over `Get` and `Set`, as in the code, with the index turned around inside
them; `Fill` is the loop with which four of the operations build their result in a
new string: a function of the number of turns, as `Pow2` is of the number of
doublings, so that the proofs can reason about them by induction. `Strings` are the
structs with the right number of chars, each in range; `MaxBits` bounds their length,
and `concat` has no memory for a longer one. `print` is a function of the state and is compared with `get`; its buffer is taken to be
large enough (with a smaller one it returns -1 and changes nothing). The
parameters `CHAR_BIT` and `INT_BIT` stand for the 8 and 32 of the code. Leaving
the program (`exit` after a bad index or without memory, a write through `NULL`
in `xor`) is a value of `status`. In `BitSequence` a string is a sequence of bits
and every call one definition: `CallsImplementBits` asks of each call of
`Bitstring` that the sequences it leaves are those `BitSequence` says. The
rotation is stated there as the code and its comment at line 89 have it
(section 5).

### 2.8 ForkJoinFilters

`main` is where `main.c` is between two filters (`next`) or in the loops of a filter
that create and join its threads, `i` the variable of those loops, `k` that of the
loop over the filters. A step of a thread is one line of the image; a line beyond
the last is passed over, as in the code. The contents of a line are a term: a point
filter makes `<<f, line>>` of it, the blur a term of the line and its two
neighbours in `copy`, so two images are equal only if every line had the same
filters on the same neighbours. `before`, the image a filter was called with, is
read by no action; it is the abstract image while the filter runs. A word that is
no filter (`"wrong"`) is passed over with a message.

## 3. What the runs check

| run | instance | shows |
|---|---|---|
| `red_blur` | a point filter then a blur, two threads each, two images of two packets | packets, bands, semaphores, errors, pixel races, the result |
| `blur_chain` | blur, blur, point filter, blur with 1, 2, 1 and 1 threads, one image of three packets, fair | three generations of copies over the same packets, two blurs in a row: what a blur reads and what is freed; the refinement of `FilterStages`; `TreatmentEnds` |
| `band_cut` | two images of 1 to 5 lines, two filters of 1 to 4 threads | every line once |
| `image_blocks` | five files in blocks of two, every mixture of four kinds of files | images usable, saved once, memory bounded |
| `double_free` | three readable files in blocks of two: a last block smaller than the one before | section 5 |
| `c_pool` | two workers, two callers, two tasks, two jobs and two calls without a routine, `threadpool_free` | ownership, ring errors, lost wake-ups, refinement of `TaskPool`, three liveness properties |
| `async_pool` | two workers, two callers, three tasks, three addresses, fair | no freed node is read, no worker idles beside a task, refinement of `TaskPool`, listed tasks run |
| `async_lost` | as `async_pool` | section 5 |
| `encode` | all files of up to eleven bytes over two values, three windows of four bytes, lengths up to three, `cat` reading in one block | the sizes and the bytes written, across windows, decode to the file |
| `encode_border` | all files of up to nine bytes over two other values | section 5 |
| `fork_join` | three filters, each a point filter, a blur or no filter, of one to three threads, on 1, 2, 3 or 5 lines | no shared line; the refinement of `ImageChain` |
| `bits` | two strings of one or two chars of two bits, shifts from -5 to 5 | every call against `BitSequence`, rotation, printing |

### 3.1 The properties

*Pipeline.* `PacketConservation`: every packet is in exactly one slot or one
thread's hands. `FiltersInOrder`: what a band has had is told by where it is.
`NoError`: whenever a semaphore let a thread through, the thing it counts is
there. `BlurReadsFinishedCopy`: from `Take` to the end of `apply_filter` the
thread's packet points to a live copy of its own image in which every band has
had exactly the filters before this one. `NoPixelRace`: nobody filters a band of
an image while it is copied. `CopiesFreedOnce`: no double free, no leak.
`SemaphoresCountSlots` and `CanCopiCountsReadyImages`: the exact value of every
semaphore, counting the threads between a wait and the access it stands for.
`AllFilteredAtJoin`, `ImplementsStages`, `TreatmentEnds`: the result.

*Bands.* `EveryLineOnce`. `PacketsDisjoint` follows from it in each instance and is
only proved.

*Blocks.* `ImagesUsable`: the pipeline and the saving threads never see a
structure that is not loaded or already freed. `EveryFileSavedOnce`,
`MemoryBounded`.

*Pool.* `OneOwner`: a task is in one place, and in one unless it had no routine.
`NoFailure`: the rings are never full when something is enqueued.
`NoLostWakeup`: a thread sleeps only while its ring is empty, and no worker
after the broadcast of the stop. `ImplementsPool`: first come first served,
once, bounded, nothing started after the stop. `FreeReturns`,
`AcceptedJobsRun`. `AddReturns`: a call of `threadpool_add_task` under way returns,
unless the pool has lost all of its tasks to calls without a routine
(`AllTasksLost`); then a blocking one waits for ever (section 5).

*Asynchronous pool.* `NoUseAfterFree`: although `last` dangles, everything that
can be reached from `first` and everything a worker took is allocated, and no node
is in two hands. `NoIdleWorker`: while a worker sleeps, at least as many workers
as there are tasks in the list are on their way to take one, so one signal per
push is enough. `ImplementsPool`: tasks start in the order they were linked, once.
`ListedTasksRun`: a task that can be reached from `first` is run. What fails is
that every pushed task can be reached (`PendingTasksStored`).

*Encoder.* `SizePassExact`: the pass that writes fills exactly the bytes the pass
that counts asked for and touches no other memory. `PlainFileDecodes`: the program succeeds, and the
decoder gives the input back if the compressed file is read in one block and the input
has room in the output buffer (`FitsBuffers`). Both speak of *plain* files, those of one or more windows
where at each border a run starts that goes on with nothing before it
(`PlainBorder`) and no run was followed past the end of a window; for the others
the code is wrong (`CompressedFileDecodes`).

*Fork/join filters.* `NoSharedLine`: two threads are never at the same line of the
image. `ImplementsChain`: whatever the order of the threads, a filter leaves what it
makes of the whole image, its blur reading the image as it was. That the program ends is left to the
check for deadlock: every step of `ForkJoinFilters` goes forward in a loop.

*Bit strings.* `RotatePermutes`, `PrintShowsBits` and `CallsImplementBits`.

Each property has in `PROJECT.json` a mutant of a definition of the model (a
dropped test, a wrong row, a missing broadcast) under which TLC finds it
violated; the mutated operators stand in the modules before the operators they
change, marked `Mutant`.

### 3.2 The bounds, and why they are enough

- Two threads per filter are the least with two threads at each point of
  `productor` at a time; the threads of a filter share no other distinction than
  the packet and the image they hold, so they are symmetric.
- Two images are needed to choose between images and to mix packets of two
  images in a row; two packets per image for a last packet that is not the
  first; three packets in `blur_chain`, so that a thread is given an image
  when another has finished with it.
- Blur first (`initializeBlur` posts at the start), after a point filter, after
  a blur, and twice in a line all occur in `blur_chain`. Deadlock is checked in
  both runs, so with two images no semaphore post is missing either.
- `band_cut`: heights and thread counts up to 5 and 4 contain every relation
  between a height and a number of packets (less, equal, a divisor, a remainder,
  a last packet without a line).
- `image_blocks`: two full blocks and a smaller one; `BLOCK` is 2 instead of 10.
- `c_pool`: a ring of two cells wraps, becomes full and empty; the four calls
  are two more than the tasks, so that one is refused or waits, and as many of them are
  without a routine as there are tasks, so that the pool may lose all of them.
- `async_pool`: three tasks are the least for a push on a list that was drained, a
  push after that one, and a node in the hands of a worker at the same time; three
  addresses allow each to be new or reused.
- `encode`: three windows of two pages of two bytes, the last partly filled;
  lengths up to three, so that a run of four needs two lengths and so do three
  literals, and 2 in the role of the newline; one of the two values is the zero
  that fills the last page. What follows a mapping is a byte of neither value or nothing:
  a run is followed past its window into the zeros of the page, or faults, and that it goes
  on in the byte behind the mapping is left to the proof of `EncoderTyped`, since the other
  properties set such files aside. Eleven bytes is the shortest length at
  which a plain file has three windows: the last one needs a run of two bytes and another
  run. The output of the later windows starts at every place
  of a page. No plain file is compressed to more than the 14 bytes that `cat` reads in one
  go. `encode_border` has windows of six bytes, room for every case of a
  border.
- `fork_join`: with 1 to 3 threads on 1, 2, 3 and 5 lines the height is less than,
  equal to, a multiple of and no multiple of the number of threads, and a band may be
  wholly outside of the image; three filters have a blur after a blur and between
  point filters.
- `bits`: a char of two bits has two printed digits of one bit; a string of two
  chars has an index turned around over a char border; shifts reach beyond the
  length on both sides.

All state spaces are finite without a state constraint: `to_pass`, the blocks
and the jobs, each given at most once, bound every counter.

### 3.3 Fairness

`FilterPipeline!FairSpec` has weak fairness of the steps of each thread (the
scheduler runs every thread that can run) and of the join. Weak fairness is
enough although the semaphores and mutexes are not fair: the loop of a thread is
bounded by `to_pass`, so a thread can be overtaken only finitely often.
`CThreadPool!FairSpec` has weak fairness of each worker (routines return), of
each call under way and of `threadpool_free` once begun. Nothing forces a caller
to call, the pool to be freed or a wake-up to be spurious. `AsyncPool!FairSpec`
has weak fairness of each worker (the scheduler runs it, routines return) and of
`EndPush`, the rest of a push under way. A spurious wake-up is not a step of the
worker that fairness forces: only the signal of a push has to bring a task to a
worker. Weak fairness is enough, since a mutex is held for one step and the tasks
are finitely many.

Deadlock is checked in every run: the only states without a step of the program
are the end of the treatment, the end of the process and the freed or joining
pool, which stutter explicitly (`Terminated`, `Ended`, `Finished`, `Joining`,
`Stopped`, `Written`).

## 4. What is proved

For every number of filters, images, packets and threads, every choice of blur
filters and every assignment of threads to filters (`ConstantsAssumption`):

- `TypeCorrect`: `Spec => []TypeOK`. `TypeOK` alone is not inductive: that
  `chosen[t]` is an image where it indexes the arrays of the blurs, or that a
  thread at `"insert"` holds a packet, depends on where the thread is. `TypeInv`
  adds this control information (`Control`).
- `Conservation`: `Spec => []PacketConservation`. Besides `TypeInv` it needs no
  strengthening. Its central lemma (`MovePacket`) says that moving a packet from
  one place to an empty one keeps every packet in exactly one place; `Take` and
  `Insert` are such moves, every other action moves nothing. That `Insert` finds
  a free slot is not needed: without one it calls `error`.
- `FilterOrder`: `Spec => []FiltersInOrder`, from `Conservation`: since a packet
  is in one place only, appending a filter to the band a thread holds disturbs no
  other place.

- `NeverFails`, `SemaphoresCount`, `CanCopiCounts`, `PixelsNotRaced`,
  `BlurFromFinishedCopy`, `CopiesFreed` and `AllFiltered`: `Spec => []` of `NoError`,
  `SemaphoresCountSlots`, `CanCopiCountsReadyImages`, `NoPixelRace`,
  `BlurReadsFinishedCopy`, `CopiesFreedOnce` and `AllFilteredAtJoin`; and
  `PipelineImplementsStages`: `Spec => Stages!Spec`. All come from one invariant, `IInv`
  of `FilterPipelineProofs`, because none can be had without the others: a thread finds
  a packet because its image is complete, the image is complete because `can_copi`
  counts, and `can_copi` counts because no thread failed in between.

The parts of this `IInv` say what the counters of `threadpool.h` count, each together
with the threads that are between the operation on the counter and the access it
stands for:

| part | counter | counts |
|---|---|---|
| `RowsCounted` | `full`, `empty` | packets and free slots of a row |
| `PassesCounted` | `to_pass` | passes under way, and the packets the filter was applied to |
| `ArrivalsCounted` | `mat_blur` | packets of the image that had the filter before the blur |
| `GivenCounted` | `can_i_take_c` | threads given the image, and its packets blurred; positive only for complete images |
| `BlurredCounted` | `choosen_c` | packets of the image blurred and inserted |
| `ReadyCounted` | `can_copi` | images that may still be given |

The others are about the threads: `ScanFinds` (the image `can_copi` let a thread in for
is ahead of its search, since one thread searches at a time), `CopyFirst` (the mutex of
a copy, and that nothing of an image is taken for a blur before the copy is made),
`CopyLives` (a copy lives from the end of `image_copi` to the last insertion; meanwhile
all packets of the image point to it and it holds the finished bands), `Locals` and
`AllPassesAtExit`.

The argument that ties them: a thread between the choice of an image and `apply_filter`
is counted in `can_i_take_c`, so the packets of its image that are not yet blurred are
at least as many as such threads; none is behind the blur (`ImageComplete`), and the
ones in hand are fewer than the threads, so one lies in the row (`TakeFinds`). Before
the copy is made none is in hand or blurred, so all of them lie in the row and nobody
is filtering them (`AtMemcpy`). And an image that is complete for a blur is done with
at every blur before it (`EarlierDone`), so the packets never point to two copies.

For every height, thread count, number of images and number of filters
(`CutAssumption`):

- `LineInOneBand`: each line of an image is in exactly one band, from the lemma
  that `n` bands of the rounded-up height reach the end of the image.
- `Disjoint` and `Cover`: `Spec => []PacketsDisjoint`, `Spec => []EveryLineOnce`.
  The invariant says of each line that it was filtered once if the packet it
  lies in is done and never otherwise.

For every number of files, every size of the blocks and every mixture of files
(`BlocksAssumption`):

- `BlocksTyped`, `OnlyUsableImages`, `SavedOnce` and `BlocksBoundMemory`:
  `Spec => []` of `TypeOK`, `ImagesUsable`, `EveryFileSavedOnce` and
  `MemoryBounded`. None is inductive: that a file of the last block is saved once
  rests on nothing having been done to it in the blocks before. `IInv` divides the
  files in those of past blocks (`PastDone`: filtered, saved and freed), of later
  blocks (`LaterUntouched`) and of the current one (`Entries`: for each phase, how
  far an entry is, by the state of its thread), and adds that no thread is left over
  (`Threads`) and no pointer runs ahead (`Pointers`). `object` of a past file may
  still go from freed to freed twice, the double free of section 5, so `PastDone`
  admits both. The arithmetic is one lemma, `BlockBounds`: a block begins where the
  one before ends, and the last one ends with the last file.

For every size of the queues, all workers, callers and jobs (`PoolAssumption`):

- `PoolTyped`, `TasksHaveOneOwner`, `QueuesNeverOverflow` and `NobodySleepsInVain`:
  `Spec => []` of `TypeOK`, `OneOwner`, `NoFailure` and `NoLostWakeup`, all from one
  invariant. `IInv` adds to them that the occupied cells of each ring are those from
  `head` up to `tail` (`Rings`), and what a thread holds, by where it is (`Hands`). A
  step moves a task from one place to an empty one (`MoveTask`) or drops it. That an
  enqueue never fails is the pigeonhole principle: the tasks in the cells of a full
  ring would be all there are, the one the thread is about to enqueue among them
  (`NoFullRing`).
- `PoolImplementsTaskPool`: `Spec => ImplementsPool`, the refinement itself. `Jobs`
  adds which job a task was filled with, by where it is, and that no two tasks have the
  same one. The lemmas on `Elements` turn the ring into the sequence of `TaskPool`;
  that the pool has room for a job when it accepts it (`RoomForJob`) counts the tasks
  queued, running and in the hands of the caller.

For every number of filters, every height and all numbers of threads
(`ForkAssumption`):

- `ForkJoinTyped` and `LinesNotShared`: `Spec => []TypeOK`, `Spec => []NoSharedLine`.
- `ForkJoinImplementsChain`: `Spec => Chain!Spec`, the refinement itself. `IInv` says
  which threads exist at each point of the two loops and how far each is in its band
  (`ThreadsInBand`), that a line is as the filter leaves it once the thread that owns
  it has passed and as it was before (`HalfFiltered`), and that the copy still holds
  the image the filter was called with (`CopyKept`). Every line has one owner
  (`OwnerOfLine`, from `InOneBand`), so the last join finds the whole image filtered
  (`WholeImage`); that step is `Chain!Apply`, all others of the filter stutter.

For all sets of callers, workers and tasks and every finite heap (`AsyncAssumption`):

- `AsyncTyped`, `NodesAreLive` and `NoWorkerIdles`: `Spec => []` of `TypeOK`,
  `NoUseAfterFree` and `NoIdleWorker`; `AsyncPoolImplementsTaskPool`:
  `Spec => ImplementsPool`. The list is found by a walk along `next`, and `last` may
  dangle: a push may write the `next` field of a freed node, or of one that was handed
  out again. `IInv` therefore names the list. `Listing` says that while `first` is not
  `NULL` there is a sequence of different allocated nodes (`Chain`), from `first` to
  `last`, each with its successor in `next` and its task in `data`, none in the hands of
  a thread, and that the nodes to be linked have no successor; once the list has run
  empty, `first` stays `NULL` and nothing is taken any more. `Locals`, `Pushes` and
  `Started` say what a thread holds, by where it is, and that no task is pushed or run
  twice. The walk is then shown to go along this sequence (`WalkIsChain`), by induction
  on its length; it is as long as the heap has nodes, so the heap has to be finite.
- `NoWorkerIdles` needs a count that every step keeps: while one worker waits, those on
  their way to the list are at least as many as the tasks in it (`AwakeForPending`). A
  worker that takes a task lowers both counts by one, a push with its signal raises both,
  and a worker goes to sleep on an empty list only.

For every size of a char, of an int and of a string, and all shifts
(`BitstringAssumption`):

- `BitstringTyped`: `Spec => []TypeOK`. A char never leaves its range, although `set`
  adds and subtracts powers of two: where bit `k` is 0, adding `1 << k` sets that bit,
  carries into no other (`BitAdded`) and stays in a char (`AddedFits`); where it is 1,
  subtracting clears it (`BitSubtracted`). These rest on division with remainder and on
  `PowSum`.
- `CallsAsPromised`: `Spec => CallsImplementBits`, every call of `bitstring.c` against
  `BitSequence`. `SetSets` says what `set` does to all that `get` can see of the string:
  one bit, whatever char it lies in. `FillFills`, by induction on the turns of the loop:
  if no index is set twice, the bits are where the loop put them. Then one lemma per call;
  for the rotation, that `RotateTo` with the remainder of C is addition modulo the length,
  also for negative shifts (`RotateFrom`).
- `PrintedBits`: `Spec => []PrintShowsBits`. The digit is the lower or the upper half of
  a char (`DigitBits`); `BinaryForm` reads it back bit by bit.
- `RotationPermutes`: `Spec => []RotatePermutes`, from the range of the remainder in C
  (`RemainderRange`) and the lemmas about `RotateTo`. `RotateBack`: a rotation by `r` and
  one by `-r` undo each other.

For every file, every size of a page, every `LENGTH` above 2 and every length byte
from 2 to `LENGTH` that stops the decoder (`EncodeAssumption`):

- `SizedExactly`: `Spec => []SizePassExact`, and `PlainFileGivenBack`:
  `Spec => []PlainFileDecodes`. Both come from one invariant, `PlainInv`: while a file is
  plain (`Plain`), `PlainState` holds. The two passes never meet in a state: when the
  second starts, only the total of the first is left of it, while the second decides run
  by run. So the invariant has to bring back what the first pass went through. `Counted(T, z)`
  says that `T` is such a history: it has a record of the position, the size counted and
  the literals waiting for every run of the window, each the successor of the one before
  (`AfterRun`), up to `z`. `Counting` says that there is one that ends at the run the pass
  is at; `Compressing` that there is one for the whole window (`WholeCount`) and that the
  second pass is at one of its records, the bytes still to be written being the total
  less the size there. At the end of the window nothing is left: that is `SizePassExact`.
- What was written is described by `Coded`: a chain of tokens, from the beginning of the
  output to the byte written last, each a length and what it tells (`Token`): a byte
  repeated, or literals. `Mapping` says that the output tells the input up to the border.
  It needs `PutResult` (`Put` stores all of the bytes where there is room for them and
  changes no others), `RunCoded` and `OnesCoded` (`Repeated` and `Literals` are such chains,
  of exactly `RunSize` and `OnesSize` bytes, whatever multiple of `LENGTH` the run is
  long), and that extending and overwriting the file behind a chain keeps it (`CodedKept`).
- That a plain border needs no change is `TreatedPlainly`: none of the branches that look
  back over the border is taken. Two facts about the run that the code finds
  (`RunEnds`) carry it: it ends inside the window, since the file has no overrun, and the
  last run of a window is as long as `RunBefore` says (`LastRunCounted`). The second pass
  takes the same branches although the first has already overwritten the last byte and its
  number of repetitions with those of its own window: that is why `PlainBorder` also speaks
  of the end of the window.
- `PlainFileGivenBack` asks of `cat` what `PlainFileDecodes` does: a compressed file read
  in one block (`Len(output) <= InSize`) and room for the file in `outbuf` (`OutRoom`). Of
  larger files it says only that `encode` does not fail, since `cat` may lose them
  (section 5). Under these two conditions every token ends in its block (`BlockEnds`)
  and nothing is written before the end of the file (`AllPending`).
- `CodedDecodes`: under the same conditions decoding a chain gives the bytes it tells, by
  induction on the number of bytes left (`TokenDecoded` is the step). The decoder is a recursive function, a `CHOOSE` of which only a function that
  satisfies the equation can be had; `DecoderExists` makes one, from the end of the file
  backwards, since the decoder looks ahead only (`RestLooksAhead`).

For every file, plain or not, with the same constants, pages as large against `LENGTH` as
they are in the code (`PagesAssumption`), and whatever lies behind a mapping:

- `EncoderTyped`: `Spec => []TypeOK`. Most of it says what the passes cannot do: write what
  is no byte, write in front of the mapping, count more than two bytes of output for one of
  input, follow a run past the end of the last page by more than a byte. It comes from the
  invariant `TypeInv`. `RunMoves` leads both passes from run to run; `WriteOnesTyped`,
  `WriteRunTyped` and the lemmas under them follow every branch of the second pass, also
  where it changes the last length; `NumSizeBounds` and `FlushBounds` bound what a run adds
  to the size (`CountGrows`).
- One conjunct of `TypeOK` is more than a type: `offset_last_length` is never negative. At
  the end of a window of literals it is the total less 1 less the number of literals, although
  the literals that a length of the window before tells were counted without a length. That
  it holds takes three facts: a first window that another one follows leaves at least
  `LENGTH - 1` bytes (`EnoughWritten`), since it is two pages long and a length tells
  `LENGTH` bytes at most; the literals the second pass will hold are bytes that differ from
  their neighbours (`AllSingle`); and when the first pass ends, that many fit into what it has
  counted (`OnesFit`), although it may have counted one literal less (`Spare`: the second pass
  compares the first byte with a `last_byte` the first pass has overwritten).
- `PagesAssumption`, `LENGTH * (LENGTH - 1) <= 4 * PageSize`, is 128 * 127 <= 4 * 4096 in
  the code, and needed: with a `LENGTH` of 10 and pages of 5 bytes, nine equal bytes and
  another are written as 4 bytes, ten literals after them add 3, and the offset is
  7 - 1 - 10.

Induction and recursion (`Arithmetic`): `SetInduction` says that a set with 0 and with
the successor of each of its numbers contains all natural numbers; it is used with the
set of the `n` for which the claim holds. `Recursion` says that a base and a step define a
function on the natural numbers; with it, what a recursive function of the model computes
follows from its definition as a `CHOOSE`.

Only model-checked:

- the liveness properties `TreatmentEnds`, `FreeReturns`, `AcceptedJobsRun`,
  `AddReturns` and `ListedTasksRun`: the rules for fairness are out of the prover's reach.

The proofs rest on nothing but the assumptions on the constants, which TLC
evaluates in the runs: positive numbers of filters, images and packets; positive
heights and thread counts; a filter without a thread (`-t 0`), which would never
empty its row, is excluded by `EveryFilterHasAThread`. `PoolAssumption` and
`AsyncAssumption` also keep the names of the model apart: `NULL` is no job, no task, no
address and no number, and no thread is the name of a cell of a queue; in
`BitstringAssumption`, `NULL` is no struct, a char has an even number of bits (two digits
each) and an int fits into a string; in `EncodeAssumption`, `Unmapped` is no number.
`PagesAssumption` is used for `EncoderTyped` only.

## 5. Disagreements between the code and what is said of it

Three have a run:

- `double_free`: `cleanImage` frees all ten entries of `images[]` and clears none.
  When the last block is smaller than the one before, the entries it did not use
  are freed twice.
- `async_lost`: `pthread_queue_pop` never resets `last`. The first task pushed
  after the list was drained is linked behind the freed node, `first` stays
  `NULL`, and the task is never run; the same for all later ones.
- `encode_border`: the first pass over a window keeps its last run in the variables
  `..._iter_prec` (`encode.c:464-471`), and the second pass over the same window compares
  its first run with them (`same_byte`, 271-276): it takes the end of its own window for
  the end of the one before. Six bytes 2 and a 4 in a window of its own: the first pass
  asks for two bytes, the second finds the 4 equal to the last byte and changes a length
  instead (829-831), at the first byte of the output, since `give_ptr_debut_map_prec`
  passes the number of a page for its offset (585). The 4 is not written, and the program
  reports success.

Others were met while modelling and have no run:

- `load_bmp` returns `errno` after a short `fread` (`P2/bitmapio.c:125`); at the end
  of a file that is 0, so a truncated image counts as loaded (`EndLoad` makes it
  `"partial"`), where `P2/bitmap.h:26-28` wants a value other than 0 for an error.
- The comment on the field `read_only` (`P2/threadpool.h:11`) wants the copy of an
  image made when the filter before the blur has finished on *all* images; the
  code copies an image as soon as that image is complete. `BlurReadsFinishedCopy`
  shows that this is enough.
- `error()` evaluates `mat_buf[0]` before it tests `mat_buf` (`P2/threadpool.c:155`),
  so an image that cannot be loaded or saved ends the program in a read through
  `NULL` (`ImageBlocks!Error`).
- A task with a `NULL` routine is not given back to the free tasks
  (`cthreadpool/threadpool.c:262`, `GetNullTask`), so the pool can be overloaded
  while nothing is queued or running; after as many such calls as there are tasks a
  blocking call waits for ever (`AllTasksLost`).
- Where a run goes on over the border of two windows, `treatement_num` and `compress_num`
  set `num` to 0 before they add it to the length of the window before
  (`encode.c:330-331`, 722-723), and the length to `LENGTH` before they subtract it
  (334-335, 730-735): the length is wrong even without what `encode_border` shows. Files
  with such a run are left out of the properties (`NoRunAcross`, `PlainBorder`).
- `cat -x` takes the bytes of a token with `*bpin++` (`cat.c:437`,
  446-450) and does not notice the end of its block. A file whose compressed form is
  longer than a block comes back only if each block ends where a token does. With blocks
  of four bytes and a `LENGTH` of 3, three literals are enough: `2 4 2` becomes
  `5 2 4 4 2`, and the second length, 4, is the last byte of a block. The usage text says "decode
  the run length algorithm" (`cat.c:107`).
- `outbuf` has room for four bytes for each byte of a block (`cat.c:807`), and a token of
  two bytes tells up to 128: a well compressed file without a newline is written past its
  end (`Undecodable`, excluded by `FitsBuffers`).
- `bitstring.h:48-51` announces a rotation to the left, with `00111101`
  becoming `11101001` for `n = 3`. In the code the bit with index `i` gets the index
  `i + 3`, and the index 0 is printed first and is the most significant bit of
  `bitstring_alloc_from_int`: the string becomes `10100111`. The comment at
  `bitstring.c:89` and `test.c` agree with the code, and so does `BitSequence`.
- A file whose last page is not full and that ends in zero bytes is followed by
  `encode` into the zeros of the page, which are then part of the compressed file
  (`overrun`).

## 6. Not modelled

- Failing pthread calls, failing `malloc` except in `AsyncPool` and `Bitstring`, and
  the clean-up inside `error` while other threads run: the process ends there, and
  what the clean-up frees is a heap picture the models do not have (listed as
  hazards).
- The parsing of the command lines and the listing of the directory: sequential
  input and output.
- The options of `cat` other than `-x`, and reads that return less than a block: the
  decoder is given a regular file.
- The arithmetic of the colours and the fields of the bitmap headers.
- The exercises and mini-projects: a function each, with nothing to interleave.
- Vendored coreutils, which is nearly all of the code by size: the students' only
  changes to it are `encode.c` and the option `-x` of `cat.c`, both modelled. Models
  of the rest would be about GNU coreutils and not about this repository; the
  Subversion copies repeat files that are modelled where they are in use.

## 7. Plan

Written, in this order: `FilterPipeline` (the most concurrent code and the
largest), `BandCut`, `ImageBlocks`, `CThreadPool`, `AsyncPool`,
`RunLengthEncode`, `Bitstring`, `ForkJoinFilters`, with their abstract specifications and first
theorems.

Every invariant and action property of the passing runs is proved; what is left to TLC is
liveness.

A composition of `ImageBlocks` with `FilterStages` in the place of `Treat` would
join the models of the second project in one run.
