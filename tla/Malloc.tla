------------------------------- MODULE Malloc -------------------------------
(***************************************************************************)
(* The public calls of the C library's allocator (system/libc/src/         *)
(* malloc.c) as a program makes them, one at a time: the library has no    *)
(* locks (USE_LOCKS is 0).                                                 *)
(***************************************************************************)
EXTENDS MallocSys

CONSTANTS
    Requests,       \* the sizes the program asks for
    Alignments,     \* the alignments it asks for
    Groups,         \* the sizes it gives to independent_comalloc
    Callocs,        \* the arguments of calloc
    Limits,         \* the arguments of malloc_set_footprint_limit
    Options,        \* the arguments of mallopt
    CALLOC_SAFE,    \* factors below it cannot overflow size_t (0x10000)
    Warmups,        \* what it did before: the sizes it got, where mmap found
                    \* room for each, which of the blocks it freed again, and
                    \* (a bound) how many calls follow
    MaxLive         \* bound: the blocks it holds at a time

ASSUME MallocAssumption ==
    /\ Requests \subseteq Nat /\ Alignments \subseteq Nat \ {0}
    /\ Groups \subseteq Seq(Nat)
    /\ Callocs \subseteq Nat \X Nat
    /\ Limits \subseteq Nat
    /\ Options \subseteq {"M_TRIM_THRESHOLD", "M_GRANULARITY", "M_MMAP_THRESHOLD"} \X Nat
    /\ CALLOC_SAFE \in Nat /\ CALLOC_SAFE * CALLOC_SAFE <= SIZE_T
    /\ \A w \in Warmups :
          /\ w.sizes \in Seq(Nat) /\ w.freed \subseteq DOMAIN w.sizes /\ w.calls \in Nat
          /\ w.places \in [DOMAIN w.sizes -> {"low", "high"}]
    /\ MaxLive \in Nat

VARIABLES
    m,      \* gm, mparams and the memory they point to
    live,   \* the program's blocks: address to [size, align]
    last,   \* the contents the last call promised, and what it left there
    calls   \* how many calls are left

vars == <<m, live, last, calls>>

NoPromise == [want |-> "any", has |-> "any"]

\* The static _gm_ and mparams, all zero
InitialState ==
    [h |-> <<>>, smallbins |-> <<>>, treebins |-> <<>>,
     dv |-> 0, dvsize |-> 0, top |-> 0, topsize |-> 0,
     seg |-> <<>>, least_addr |-> 0, trim_check |-> 0, release_checks |-> 0,
     footprint |-> 0, max_footprint |-> 0, footprint_limit |-> 0,
     init |-> FALSE, use_mmap |-> FALSE, granularity |-> 0,
     mmap_threshold |-> 0, trim_threshold |-> 0,
     vm |-> {}, aborted |-> FALSE]

-----------------------------------------------------------------------------
(* malloc                                                                  *)

\* The chunk v becomes a block of nb bytes; a remainder that can be a chunk
\* stays free.
CutChunk(s, v, nb, rsize) ==
    IF rsize < MIN_CHUNK_SIZE
    THEN [s EXCEPT !.h = set_inuse_and_pinuse(@, v, nb + rsize)]
    ELSE [s EXCEPT !.h = set_size_and_pinuse_of_free_chunk(
                           set_size_and_pinuse_of_inuse_chunk(@, v, nb), v + nb, rsize)]

\* Nodes of trie t that hold nb bytes, among the paths ps
Fitting(s, t, ps, nb) == {q \in ps : NodeSize(s, t, q) >= nb}

SmallestNode(s, t, ps) ==
    CHOOSE q \in ps : \A r \in ps : NodeSize(s, t, q) <= NodeSize(s, t, r)

\* Mutant: the untaken right subtree is not searched.
SearchTrie_path(s, t, idx, nb) ==
    Fitting(s, t, {PathOf(idx, nb, d) : d \in 0..(bit_for_tree_index(idx) + 1)} \cap DOMAIN t, nb)

\* The nodes tmalloc_large compares in the bin of nb: those on the path of
\* nb, and the leftmost ones of the deepest right subtree not taken
SearchTrie(s, t, idx, nb) ==
    LET onpath == {PathOf(idx, nb, d) : d \in 0..(bit_for_tree_index(idx) + 1)} \cap DOMAIN t
        rights == {q \in onpath : /\ PathOf(idx, nb, Len(q) + 1)[Len(q) + 1] = 0
                                  /\ Append(q, 1) \in DOMAIN t}
        deepest == CHOOSE q \in rights : \A r \in rights : Len(r) <= Len(q)
        below == IF rights = {} THEN {} ELSE LeftmostPath(t, Append(deepest, 1))
    IN  Fitting(s, t, onpath \cup below, nb)

\* The first of the chunks of the smallest of nodes in trie t
SmallestChunk(s, t, nodes) == t[SmallestNode(s, t, nodes)][1]

\* The chunk tmalloc_large settles on, in the bin of nb or in the next one; 0 when
\* there is none
BestChunk(s, nb) ==
    LET idx == compute_tree_index(nb)
        inbin == IF idx \in DOMAIN s.treebins
                 THEN SearchTrie(s, s.treebins[idx], idx, nb) ELSE {}
        left == {i \in DOMAIN s.treebins : i > idx}
        t == s.treebins[Min(left)]
    IN  IF inbin # {} THEN SmallestChunk(s, s.treebins[idx], inbin)
        ELSE IF left = {} THEN 0
        ELSE SmallestChunk(s, t, Fitting(s, t, LeftmostPath(t, <<>>), nb))

\* Chunk v for nb bytes: 0 when dv fits better, or nothing does
TakeTreeChunk(s, v, nb) ==
    LET rsize == chunksize(s.h, v) - nb
        cut == CutChunk(unlink_large_chunk(s, v), v, nb, rsize)
    IN  IF v = 0 \/ rsize >= Wrap(s.dvsize - nb) THEN NoMem(s)
        ELSE IF ~ok_address(s, v) THEN NoMem([s EXCEPT !.aborted = TRUE])
        ELSE [m |-> IF rsize < MIN_CHUNK_SIZE THEN cut ELSE insert_chunk(cut, v + nb, rsize),
              mem |-> chunk2mem(v)]

tmalloc_large(s, nb) == TakeTreeChunk(s, BestChunk(s, nb), nb)

\* The smallest chunk of all the tries
tmalloc_small(s, nb) ==
    LET t == s.treebins[Min(DOMAIN s.treebins)]
        v == SmallestChunk(s, t, LeftmostPath(t, <<>>))
        rsize == chunksize(s.h, v) - nb
        cut == CutChunk(unlink_large_chunk(s, v), v, nb, rsize)
    IN  IF ~ok_address(s, v) THEN NoMem([s EXCEPT !.aborted = TRUE])
        ELSE [m |-> IF rsize < MIN_CHUNK_SIZE THEN cut ELSE replace_dv(cut, v + nb, rsize),
              mem |-> chunk2mem(v)]

\* The first chunk of the marked smallbin i
TakeFromSmallbin(s, i, nb) ==
    LET p == s.smallbins[i][1]
        rsize == small_index2size(i) - nb
        cut == CutChunk(unlink_first_small_chunk(s, i), p, nb, rsize)
    IN  [m |-> IF rsize < MIN_CHUNK_SIZE THEN cut ELSE replace_dv(cut, p + nb, rsize),
         mem |-> chunk2mem(p)]

SplitDv(s, nb) ==
    LET p == s.dv
        rsize == s.dvsize - nb
        cut == CutChunk(s, p, nb, rsize)
    IN  [m |-> [cut EXCEPT !.dv = IF rsize < MIN_CHUNK_SIZE THEN 0 ELSE p + nb,
                           !.dvsize = IF rsize < MIN_CHUNK_SIZE THEN 0 ELSE rsize],
         mem |-> chunk2mem(p)]

\* The chunk size malloc looks for; a request that is too big fails later.
MallocSize(bytes) == IF bytes >= MAX_REQUEST THEN MAX_SIZE_T ELSE request2size(bytes)

\* What the tries gave, else from dv, top or the kernel
DvTopOrSystem(s, tree, nb, os) ==
    IF tree.mem # 0 THEN tree
    ELSE IF nb <= s.dvsize THEN SplitDv(s, nb)
    ELSE IF nb < s.topsize THEN SplitTop(s, nb)
    ELSE sys_alloc(s, nb, os)

dlmalloc(s, bytes, os) ==
    LET small == bytes <= MAX_SMALL_REQUEST
        nb == MallocSize(bytes)
        idx == small_index(nb)
        remainderless == {idx, idx + 1} \cap DOMAIN s.smallbins
        larger == {i \in DOMAIN s.smallbins : i > idx}
        trees == s.treebins # <<>> /\ bytes < MAX_REQUEST /\ (small => nb > s.dvsize)
    IN  IF small /\ remainderless # {}
        THEN TakeFromSmallbin(s, Min(remainderless), nb)
        ELSE IF small /\ nb > s.dvsize /\ larger # {}
        THEN TakeFromSmallbin(s, Min(larger), nb)
        ELSE DvTopOrSystem(s, IF ~trees THEN NoMem(s)
                              ELSE IF small THEN tmalloc_small(s, nb)
                              ELSE tmalloc_large(s, nb), nb, os)

-----------------------------------------------------------------------------
(* free                                                                    *)

\* After free has put a chunk where it belongs: trim, or count down to a release
AfterFree(j, os) ==
    LET counted == [j.m EXCEPT !.release_checks = @ - 1]
    IN  IF j.where = "top" /\ j.size > j.m.trim_check THEN sys_trim(j.m, 0, os)
        ELSE IF j.where = "bin" /\ ~is_small(j.size)
        THEN IF counted.release_checks = 0 THEN release_unused_segments(counted, os)
             ELSE counted
        ELSE j.m

\* c is the chunk, joined with a free one before it.
FreeJoined(s, c, os) ==
    IF c.done THEN c.m
    ELSE IF c.p >= c.next \/ ~pinuse(s.h, c.next) THEN [c.m EXCEPT !.aborted = TRUE]
    ELSE AfterFree(JoinForward(c.m, c.p, c.psize, c.next), os)

dlfree(s, mem, os) ==
    LET p == mem2chunk(mem)
    IN  IF mem = 0 THEN s
        ELSE IF ~ok_address(s, p) \/ ~is_inuse(s.h, p) THEN [s EXCEPT !.aborted = TRUE]
        ELSE IF is_mmapped(s.h, p) THEN UnmapChunk(s, p, os)
        ELSE FreeJoined(s, Consolidate(s, p, chunksize(s.h, p)), os)

\* Entry i of the array: joined with the next one when it is its neighbour
BulkFreeOne(s, array, i, os) ==
    LET p == mem2chunk(array[i])
        psize == chunksize(s.h, p)
        next == p + psize
    IN  IF ~ok_address(s, p) \/ ~is_inuse(s.h, p)
        THEN [m |-> [s EXCEPT !.aborted = TRUE], array |-> array]
        ELSE IF i < Len(array) /\ array[i + 1] = chunk2mem(next)
        THEN [m |-> [s EXCEPT !.h = set_inuse(@, p, psize + chunksize(@, next))],
              array |-> [array EXCEPT ![i + 1] = chunk2mem(p)]]
        ELSE [m |-> dispose_chunk(s, p, psize, os), array |-> array]

TrimIfLarge(s, os) == IF s.topsize > s.trim_check THEN sys_trim(s, 0, os) ELSE s

internal_bulk_free(s, array, os) ==
    TrimIfLarge(FoldLeft(LAMBDA r, i : BulkFreeOne(r.m, r.array, i, os),
                         [m |-> s, array |-> array], [i \in DOMAIN array |-> i]).m, os)

-----------------------------------------------------------------------------
(* realloc, memalign, independent allocations                              *)

\* The chunk p in use becomes nb bytes long, and the rest is freed.
CutTail(s, p, nb, rsize, os) ==
    dispose_chunk([s EXCEPT !.h = set_inuse(set_inuse(@, p, nb), p + nb, rsize)],
                  p + nb, rsize, os)

Moved(s) == [m |-> s, newp |-> 0]

NextIsFree(s, next) == ~cinuse(s.h, next)

\* In place, or newp is 0
try_realloc_chunk(s, p, nb, os) ==
    LET oldsize == chunksize(s.h, p)
        next == p + oldsize
        nextsize == chunksize(s.h, next)
        rsize == oldsize + nextsize - nb
        dsize == oldsize + s.dvsize - nb
        Stay(r) == [m |-> r, newp |-> p]
        ok == ok_address(s, p) /\ is_inuse(s.h, p) /\ p < next /\ pinuse(s.h, next)
        intotop == [s EXCEPT !.top = p + nb, !.topsize = oldsize + @ - nb,
                             !.h = SetHead(set_inuse(@, p, nb), p + nb,
                                           oldsize + s.topsize - nb, TRUE, FALSE)]
        intodv == IF dsize >= MIN_CHUNK_SIZE
                  THEN [s EXCEPT !.dv = p + nb, !.dvsize = dsize,
                                 !.h = clear_pinuse(set_size_and_pinuse_of_free_chunk(
                                                      set_inuse(@, p, nb), p + nb, dsize),
                                                    p + nb + dsize)]
                  ELSE [s EXCEPT !.dv = 0, !.dvsize = 0,
                                 !.h = set_inuse(@, p, oldsize + s.dvsize)]
        alone == unlink_chunk(s, next, nextsize)
        intonext == IF rsize < MIN_CHUNK_SIZE
                    THEN [alone EXCEPT !.h = set_inuse(@, p, oldsize + nextsize)]
                    ELSE CutTail(alone, p, nb, rsize, os)
    IN  IF ~ok THEN Moved([s EXCEPT !.aborted = TRUE])
        ELSE IF is_mmapped(s.h, p) THEN [m |-> s, newp |-> mmap_resize(s, p, nb)]
        ELSE IF oldsize >= nb
        THEN Stay(IF oldsize - nb >= MIN_CHUNK_SIZE THEN CutTail(s, p, nb, oldsize - nb, os) ELSE s)
        ELSE IF next = s.top
        THEN IF oldsize + s.topsize > nb THEN Stay(intotop) ELSE Moved(s)
        ELSE IF next = s.dv
        THEN IF oldsize + s.dvsize >= nb THEN Stay(intodv) ELSE Moved(s)
        ELSE IF NextIsFree(s, next) /\ oldsize + nextsize >= nb THEN Stay(intonext)
        ELSE Moved(s)

\* Mutant: as many bytes are copied as the old chunk has, header and all.
CopyLength_chunk(s, oldp, bytes) == chunksize(s.h, oldp)

\* What realloc copies from the old chunk to the new block
CopyLength(s, oldp, bytes) ==
    Min({chunksize(s.h, oldp) - overhead_for(s.h, oldp), bytes})

\* The old block moves to the fresh one, if there is one.  copied is how many bytes
\* of the old block the new one starts with.
MoveTo(fresh, oldmem, bytes, os) ==
    IF fresh.mem = 0 THEN [m |-> fresh.m, mem |-> 0, copied |-> 0]
    ELSE [m |-> dlfree(fresh.m, oldmem, os), mem |-> fresh.mem,
          copied |-> CopyLength(fresh.m, mem2chunk(oldmem), bytes)]

ReallocTried(tried, oldmem, bytes, os) ==
    IF tried.newp # 0
    THEN [m |-> tried.m, mem |-> chunk2mem(tried.newp), copied |-> bytes]
    ELSE MoveTo(dlmalloc(tried.m, bytes, os), oldmem, bytes, os)

dlrealloc(s, oldmem, bytes, os) ==
    IF bytes >= MAX_REQUEST THEN [m |-> s, mem |-> 0, copied |-> 0]
    ELSE ReallocTried(try_realloc_chunk(s, mem2chunk(oldmem), request2size(bytes), os),
                      oldmem, bytes, os)

InPlace(tried, oldmem) ==
    [m |-> tried.m, mem |-> IF tried.newp = mem2chunk(oldmem) THEN oldmem ELSE 0]

dlrealloc_in_place(s, oldmem, bytes, os) ==
    IF bytes >= MAX_REQUEST THEN NoMem(s)
    ELSE InPlace(try_realloc_chunk(s, mem2chunk(oldmem), request2size(bytes), os), oldmem)

\* The least power of two from 32 up that is no less than a
PowerOfTwo(a) == 2^Min({k \in 5..30 : 2^k >= a})

\* The first aligned place in chunk p whose leader can be a chunk
AlignedPlace(p, alignment) ==
    LET br == mem2chunk(AlignTo(chunk2mem(p), alignment))
    IN  IF br - p >= MIN_CHUNK_SIZE THEN br ELSE br + alignment

\* The chunk p from an aligned place on; the leader is given back.
AlignChunk(s, p, alignment, os) ==
    LET newp == AlignedPlace(p, alignment)
        leadsize == newp - p
        newsize == chunksize(s.h, p) - leadsize
        offset == [prev_foot |-> s.h[p].prev_foot + leadsize, size |-> newsize,
                   pinuse |-> FALSE, cinuse |-> FALSE]
        split == set_inuse(set_inuse(s.h, newp, newsize), p, leadsize)
    IN  IF chunk2mem(p) % alignment = 0 THEN [m |-> s, p |-> p]
        ELSE IF is_mmapped(s.h, p)
        THEN [m |-> [s EXCEPT !.h = SetBin(DropBin(@, p), newp, offset)], p |-> newp]
        ELSE [m |-> dispose_chunk([s EXCEPT !.h = split], p, leadsize, os), p |-> newp]

\* The spare space behind an aligned chunk is given back.
GiveTail(a, nb, os) ==
    LET size == chunksize(a.m.h, a.p)
        spare == ~is_mmapped(a.m.h, a.p) /\ size > nb + MIN_CHUNK_SIZE
    IN  [m |-> IF spare THEN CutTail(a.m, a.p, nb, size - nb, os) ELSE a.m, p |-> a.p]

Aligned(done, nb) ==
    [m |-> [done.m EXCEPT !.aborted = @ \/ chunksize(done.m.h, done.p) < nb],
     mem |-> chunk2mem(done.p)]

AlignBlock(got, alignment, nb, os) ==
    IF got.mem = 0 THEN got
    ELSE Aligned(GiveTail(AlignChunk(got.m, mem2chunk(got.mem), alignment, os), nb, os), nb)

internal_memalign(s, align, bytes, os) ==
    LET alignment == PowerOfTwo(align)
        nb == request2size(bytes)
    IN  IF bytes >= MAX_REQUEST - alignment THEN NoMem(s)
        ELSE AlignBlock(dlmalloc(s, nb + alignment + MIN_CHUNK_SIZE - CHUNK_OVERHEAD, os),
                        alignment, nb, os)

dlmemalign(s, align, bytes, os) ==
    IF align <= MALLOC_ALIGNMENT THEN dlmalloc(s, bytes, os)
    ELSE internal_memalign(s, align, bytes, os)

Total(sizes) == FoldLeft(LAMBDA a, b : a + b, 0, sizes)

\* The blocks of a group lie one after the other in the one chunk that was got,
\* followed by the array of their addresses when the program gave none.
Divide(got, sizes, zero, given, use_mmap) ==
    LET n == Len(sizes)
        chunks == [i \in 1..n |-> request2size(sizes[i])]
        contents == Total(chunks)
        array_size == IF given THEN 0 ELSE request2size(n * SIZE_T_SIZE)
        p == mem2chunk(got.mem)
        whole == chunksize(got.m.h, p)
        room == IF given THEN whole ELSE contents
        offset[i \in 0..n] == IF i = 0 THEN 0 ELSE offset[i - 1] + chunks[i]
        starts == [i \in 1..n |-> p + offset[i - 1]]
        ends == [i \in 1..n |-> p + IF i = n THEN room ELSE offset[i]]
        h0 == IF given THEN got.m.h
              ELSE set_size_and_pinuse_of_inuse_chunk(got.m.h, p + contents, whole - contents)
        h == FoldLeft(LAMBDA g, i : SetHead(g, starts[i], ends[i] - starts[i], TRUE, TRUE),
                      h0, [i \in 1..n |-> i])
        mems == [i \in 1..n |-> chunk2mem(starts[i])]
        enabled == [got.m EXCEPT !.use_mmap = use_mmap]
    IN  IF got.mem = 0 THEN [m |-> enabled, mems |-> <<>>, sizes |-> <<>>, zeroed |-> 0]
        ELSE [m |-> [enabled EXCEPT !.h = h, !.aborted = @ \/ is_mmapped(got.m.h, p)],
              mems |-> IF given THEN mems ELSE Append(mems, chunk2mem(p + contents)),
              sizes |-> IF given THEN sizes ELSE Append(sizes, n * SIZE_T_SIZE),
              zeroed |-> IF zero THEN whole - SIZE_T_SIZE - array_size ELSE 0]

\* The bytes that ialloc asks for: the chunks of the blocks and the array
GroupSize(sizes, given) ==
    LET n == Len(sizes)
    IN  Total([i \in 1..n |-> request2size(sizes[i])])
            + (IF given THEN 0 ELSE request2size(n * SIZE_T_SIZE)) - CHUNK_OVERHEAD

OneEmptyBlock(got) == [m |-> got.m, mems |-> <<got.mem>>, sizes |-> <<0>>, zeroed |-> 0]

\* The chunk of a group is never mapped for itself.
GroupIn(s, sizes, zero, given, os) ==
    IF sizes # <<>>
    THEN Divide(dlmalloc([s EXCEPT !.use_mmap = FALSE], GroupSize(sizes, given), os),
                sizes, zero, given, s.use_mmap)
    ELSE IF given THEN [m |-> s, mems |-> <<>>, sizes |-> <<>>, zeroed |-> 0]
    ELSE OneEmptyBlock(dlmalloc(s, 0, os))

ialloc(s, sizes, zero, given, os) ==
    GroupIn(ensure_initialization(s), sizes, zero, given, os)

\* n * size, or a request that fails when the product does not fit
CallocSize(n, size) ==
    LET req == Wrap(n * size)
    IN  IF n = 0 THEN 0
        ELSE IF (n >= CALLOC_SAFE \/ size >= CALLOC_SAFE) /\ req \div n # size THEN MAX_SIZE_T
        ELSE req

dlmalloc_usable_size(s, mem) ==
    LET p == mem2chunk(mem)
    IN  IF mem # 0 /\ is_inuse(s.h, p) THEN chunksize(s.h, p) - overhead_for(s.h, p) ELSE 0

\* zeroed is how many bytes are zero: memset clears them, except in a chunk
\* that was mapped for itself, whose pages are fresh.
Cleared(got, req) ==
    LET mapped == got.mem # 0 /\ is_mmapped(got.m.h, mem2chunk(got.mem))
    IN  [m |-> got.m, mem |-> got.mem,
         zeroed |-> IF mapped THEN dlmalloc_usable_size(got.m, got.mem) ELSE req]

dlcalloc(s, n, size, os) ==
    Cleared(dlmalloc(s, CallocSize(n, size), os), CallocSize(n, size))

\* EINVAL changes nothing.
dlposix_memalign(s, align, bytes, os) ==
    IF align = MALLOC_ALIGNMENT THEN dlmalloc(s, bytes, os)
    ELSE IF align % SIZE_T_SIZE # 0 \/ ~(\E k \in 3..30 : align = 2^k) THEN NoMem(s)
    ELSE IF bytes > MAX_REQUEST - align THEN NoMem(s)
    ELSE internal_memalign(s, align, bytes, os)

dlvalloc(s, bytes, os) == dlmemalign(ensure_initialization(s), PAGE_SIZE, bytes, os)

dlpvalloc(s, bytes, os) ==
    dlmemalign(ensure_initialization(s), PAGE_SIZE, page_align(bytes), os)

\* A limit given before the first allocation meets a granularity of 0, and
\* a limit of 0 bytes is rounded to 0: both mean no limit.
dlmalloc_set_footprint_limit(s, bytes) ==
    [s EXCEPT !.footprint_limit = IF bytes = MAX_SIZE_T THEN 0 ELSE granularity_align(s, bytes)]

change_mparam(s0, param, val) ==
    LET s == ensure_initialization(s0)
    IN  CASE param = "M_TRIM_THRESHOLD" -> [s EXCEPT !.trim_threshold = val]
          [] param = "M_MMAP_THRESHOLD" -> [s EXCEPT !.mmap_threshold = val]
          [] param = "M_GRANULARITY" ->
               IF val >= PAGE_SIZE /\ \E k \in 0..30 : val = 2^k
               THEN [s EXCEPT !.granularity = val] ELSE s

-----------------------------------------------------------------------------
(* The program.  A block that is not there when a call returns was freed   *)
(* or moved; a call that answers 0 leaves the program's blocks alone.      *)

\* The kernel's answers to mmap and munmap during a call
Answers == [mmap : {"low", "high", "none", "no_direct"}, munmap : BOOLEAN]
MmapAnswers == {os \in Answers : os.munmap}
Cooperative == [mmap |-> "low", munmap |-> TRUE]
MunmapAnswers == {os \in Answers : os.mmap = "low"}

Block(size, align) == [size |-> size, align |-> align]

Give(mem, size, align) == IF mem = 0 THEN live ELSE SetBin(live, mem, Block(size, align))

Take(mems) == [b \in DOMAIN live \ mems |-> live[b]]

Room == Cardinality(DOMAIN live) < MaxLive

\* One more call; after an abort there is none.
Running == ~m.aborted

Call == Running /\ calls > 0 /\ calls' = calls - 1

\* A call answers with a block of this size, or with 0.
Allocates(got, size, align, promise) ==
    /\ Call /\ Room
    /\ m' = got.m
    /\ live' = Give(got.mem, size, align)
    /\ last' = promise

DoMalloc(bytes, os) ==
    Allocates(dlmalloc(m, bytes, os), bytes, MALLOC_ALIGNMENT, NoPromise)

Zero(got, size) ==
    IF got.mem = 0 THEN NoPromise
    ELSE [want |-> "zero", has |-> IF got.zeroed >= size THEN "zero" ELSE "any"]

AllocatesZeroed(got, size) == Allocates(got, size, MALLOC_ALIGNMENT, Zero(got, size))

DoCalloc(n, size, os) == AllocatesZeroed(dlcalloc(m, n, size, os), n * size)

DoFree(mem, os) ==
    /\ Call
    /\ m' = dlfree(m, mem, os)
    /\ live' = Take({mem})
    /\ last' = NoPromise

\* The old block is kept when realloc fails.
Moves(got, mem, bytes) ==
    LET whole == got.copied >= Min({live[mem].size, bytes})
        bounded == got.copied <= dlmalloc_usable_size(got.m, got.mem)
    IN  /\ Call
        /\ m' = got.m
        /\ live' = IF got.mem = 0 THEN live
                   ELSE SetBin(Take({mem}), got.mem, Block(bytes, MALLOC_ALIGNMENT))
        /\ last' = IF got.mem = 0 THEN NoPromise
                   ELSE [want |-> "kept", has |-> IF whole /\ bounded THEN "kept" ELSE "any"]

DoRealloc(mem, bytes, os) == Moves(dlrealloc(m, mem, bytes, os), mem, bytes)

Resizes(got, mem, bytes) ==
    /\ Call
    /\ m' = got.m
    /\ live' = IF got.mem = 0 THEN live ELSE [live EXCEPT ![mem].size = bytes]
    /\ last' = IF got.mem = 0 THEN NoPromise ELSE [want |-> "kept", has |-> "kept"]

DoReallocInPlace(mem, bytes, os) == Resizes(dlrealloc_in_place(m, mem, bytes, os), mem, bytes)

DoMemalign(align, bytes, os) ==
    Allocates(dlmemalign(m, align, bytes, os), bytes, align, NoPromise)

DoPosixMemalign(align, bytes, os) ==
    Allocates(dlposix_memalign(m, align, bytes, os), bytes, align, NoPromise)

DoValloc(bytes, os) == Allocates(dlvalloc(m, bytes, os), bytes, PAGE_SIZE, NoPromise)

DoPvalloc(bytes, os) ==
    Allocates(dlpvalloc(m, bytes, os), page_align(bytes), PAGE_SIZE, NoPromise)

AllocatesGroup(got, sizes, zero) ==
    LET new == [b \in ToSet(got.mems) \ {0} |->
                   Block(got.sizes[CHOOSE i \in DOMAIN got.mems : got.mems[i] = b],
                         MALLOC_ALIGNMENT)]
        cleared == \A i \in 1..Len(sizes) :
                      got.mems[i] + sizes[i] <= got.mems[1] + got.zeroed
    IN  /\ Call /\ Cardinality(DOMAIN live) + Len(sizes) < MaxLive
        /\ m' = got.m
        /\ live' = [b \in DOMAIN live \cup DOMAIN new |->
                      IF b \in DOMAIN new THEN new[b] ELSE live[b]]
        /\ last' = IF zero /\ DOMAIN new # {} /\ sizes # <<>>
                   THEN [want |-> "zero", has |-> IF cleared THEN "zero" ELSE "any"]
                   ELSE NoPromise

\* independent_calloc (zero) with equal sizes, independent_comalloc
DoIalloc(sizes, zero, given, os) ==
    AllocatesGroup(ialloc(m, sizes, zero, given, os), sizes, zero)

DoBulkFree(array, os) ==
    /\ Call
    /\ m' = internal_bulk_free(m, array, os)
    /\ live' = Take(ToSet(array))
    /\ last' = NoPromise

DoTrim(pad, os) ==
    /\ Call
    /\ m' = sys_trim(m, pad, os)
    /\ last' = NoPromise
    /\ UNCHANGED live

DoSetFootprintLimit(bytes) ==
    /\ Call
    /\ m' = dlmalloc_set_footprint_limit(m, bytes)
    /\ last' = NoPromise
    /\ UNCHANGED live

DoMallopt(param, val) ==
    /\ Call
    /\ m' = change_mparam(m, param, val)
    /\ last' = NoPromise
    /\ UNCHANGED live

\* The program has made the calls of a warm-up.
WarmOne(got, mems) == [m |-> got.m, mems |-> Append(mems, got.mem)]

WarmAlloc(w) ==
    FoldLeft(LAMBDA r, i :
               WarmOne(dlmalloc(r.m, w.sizes[i], [mmap |-> w.places[i], munmap |-> TRUE]), r.mems),
             [m |-> InitialState, mems |-> <<>>], [i \in DOMAIN w.sizes |-> i])

Init ==
    \E w \in Warmups : \E got \in {WarmAlloc(w)} :
        LET freed == SetToSortSeq(w.freed, <)
            kept == {i \in DOMAIN w.sizes : i \notin w.freed /\ got.mems[i] # 0}
        IN  /\ m = FoldLeft(LAMBDA s, i : dlfree(s, got.mems[i], Cooperative), got.m, freed)
            /\ live = [b \in {got.mems[i] : i \in kept} |->
                         Block(w.sizes[CHOOSE i \in kept : got.mems[i] = b], MALLOC_ALIGNMENT)]
            /\ last = NoPromise
            /\ calls = w.calls

Next ==
    \/ \E bytes \in Requests, os \in MmapAnswers : DoMalloc(bytes, os)
    \/ \E nsize \in Callocs, os \in MmapAnswers : DoCalloc(nsize[1], nsize[2], os)
    \/ \E mem \in DOMAIN live, os \in MunmapAnswers : DoFree(mem, os)
    \/ \E mem \in DOMAIN live, bytes \in Requests, os \in MmapAnswers \cup MunmapAnswers :
          DoRealloc(mem, bytes, os)
    \/ \E mem \in DOMAIN live, bytes \in Requests, os \in MunmapAnswers :
          DoReallocInPlace(mem, bytes, os)
    \/ \E align \in Alignments, bytes \in Requests, os \in MmapAnswers :
          \/ DoMemalign(align, bytes, os)
          \/ DoPosixMemalign(align, bytes, os)
    \/ \E bytes \in Requests, os \in MmapAnswers : DoValloc(bytes, os) \/ DoPvalloc(bytes, os)
    \/ \E sizes \in Groups, zero, given \in BOOLEAN, os \in MmapAnswers :
          DoIalloc(sizes, zero, given, os)
    \/ \E b, c \in DOMAIN live, os \in MunmapAnswers : b # c /\ DoBulkFree(<<b, c>>, os)
    \/ \E os \in MunmapAnswers : DoTrim(0, os)
    \/ \E bytes \in Limits : DoSetFootprintLimit(bytes)
    \/ \E o \in Options : DoMallopt(o[1], o[2])

MallocSpec == Init /\ [][Next]_vars

-----------------------------------------------------------------------------
(* The checks of the DEBUG build                                           *)

do_check_any_chunk(s, p) == p % MALLOC_ALIGNMENT = 0 /\ ok_address(s, p)

do_check_top_chunk(s) ==
    LET sp == s.seg[segment_holding(s, s.top)]
    IN  /\ \E i \in DOMAIN s.seg : segment_holds(s.seg[i], s.top)
        /\ do_check_any_chunk(s, s.top)
        /\ chunksize(s.h, s.top) = s.topsize
        /\ s.topsize > 0
        /\ s.topsize = sp.base + sp.size - s.top - TOP_FOOT_SIZE
        /\ pinuse(s.h, s.top) /\ ~pinuse(s.h, s.top + s.topsize)

do_check_mmapped_chunk(s, p) ==
    LET sz == chunksize(s.h, p)
    IN  /\ is_mmapped(s.h, p) /\ s.use_mmap
        /\ do_check_any_chunk(s, p)
        /\ ~is_small(sz)
        /\ (sz + s.h[p].prev_foot + MMAP_FOOT_PAD) % PAGE_SIZE = 0
        /\ s.h[p + sz] = FENCEPOST_HEAD

do_check_inuse_chunk(s, p) ==
    /\ do_check_any_chunk(s, p)
    /\ is_inuse(s.h, p)
    /\ pinuse(s.h, next_chunk(s.h, p))
    /\ \/ is_mmapped(s.h, p) \/ pinuse(s.h, p)
       \/ next_chunk(s.h, prev_chunk(s.h, p)) = p
    /\ is_mmapped(s.h, p) => do_check_mmapped_chunk(s, p)

do_check_free_chunk(s, p) ==
    LET sz == chunksize(s.h, p)
        next == p + sz
    IN  /\ do_check_any_chunk(s, p)
        /\ ~is_inuse(s.h, p) /\ ~is_mmapped(s.h, p)
        /\ ~pinuse(s.h, next)
        /\ p \notin {s.dv, s.top} =>
              /\ sz >= MIN_CHUNK_SIZE /\ sz % MALLOC_ALIGNMENT = 0
              /\ s.h[next].prev_foot = sz
              /\ next = s.top \/ is_inuse(s.h, next)

\* A trie: every chain in the bin of its size, on the path of its size
do_check_treebin(s, i) ==
    LET t == s.treebins[i]
    IN  /\ <<>> \in DOMAIN t
        /\ \A q \in DOMAIN t :
              LET sz == NodeSize(s, t, q)
              IN  /\ compute_tree_index(sz) = i
                  /\ sz >= minsize_for_tree_index(i)
                  /\ i = NTREEBINS - 1 \/ sz < minsize_for_tree_index(i + 1)
                  /\ q = PathOf(i, sz, Len(q))
                  /\ q # <<>> => Front(q) \in DOMAIN t
                  /\ \A x \in ToSet(t[q]) :
                        /\ do_check_any_chunk(s, x)
                        /\ chunksize(s.h, x) = sz
                        /\ ~is_inuse(s.h, x) /\ ~pinuse(s.h, next_chunk(s.h, x))
                  /\ \A r \in DOMAIN t \ {q} : NodeSize(s, t, r) # sz

do_check_smallbin(s, i) ==
    \A p \in ToSet(s.smallbins[i]) :
        /\ do_check_free_chunk(s, p)
        /\ small_index(chunksize(s.h, p)) = i
        /\ LET q == next_chunk(s.h, p)
           IN  s.h[q] # FENCEPOST_HEAD => do_check_inuse_chunk(s, q)

\* Where the search for x's size finds x
bin_find(s, x) ==
    LET size == chunksize(s.h, x)
        idx == compute_tree_index(size)
    IN  IF is_small(size)
        THEN small_index(size) \in DOMAIN s.smallbins
             /\ Contains(s.smallbins[small_index(size)], x)
        ELSE /\ idx \in DOMAIN s.treebins
             /\ \E q \in DOMAIN s.treebins[idx] :
                   q = PathOf(idx, size, Len(q)) /\ Contains(s.treebins[idx][q], x)

\* The chunks of segment g before top and the fenceposts
ChunksOf(s, g) ==
    {p \in DOMAIN s.h : segment_holds(g, p) /\ p < s.top + s.topsize /\ s.h[p] # FENCEPOST_HEAD}
        \cup {p \in DOMAIN s.h : segment_holds(g, p) /\ ~segment_holds(g, s.top)
                                   /\ s.h[p] # FENCEPOST_HEAD}

\* Each chunk of segment g, and that the chunks cover it from its base
traverse_and_check(s, g) ==
    /\ g.base \in ChunksOf(s, g) /\ pinuse(s.h, g.base)
    /\ \A q \in ChunksOf(s, g) \ {s.top} :
          LET n == next_chunk(s.h, q)
          IN  /\ n \in ChunksOf(s, g) \/ (n \in DOMAIN s.h /\ s.h[n] = FENCEPOST_HEAD)
              /\ \A r \in DOMAIN s.h : ~(q < r /\ r < n)
              /\ IF is_inuse(s.h, q)
                 THEN ~bin_find(s, q) /\ do_check_inuse_chunk(s, q)
                 ELSE /\ q = s.dv \/ bin_find(s, q)
                      /\ do_check_free_chunk(s, q)
                      /\ n = s.top \/ is_inuse(s.h, n)

do_check_malloc_state(s) ==
    /\ \A i \in DOMAIN s.smallbins : do_check_smallbin(s, i)
    /\ \A i \in DOMAIN s.treebins : do_check_treebin(s, i)
    /\ s.dvsize # 0 =>
          /\ do_check_any_chunk(s, s.dv)
          /\ s.dvsize = chunksize(s.h, s.dv)
          /\ s.dvsize >= MIN_CHUNK_SIZE
          /\ ~bin_find(s, s.dv)
    /\ s.top # 0 => do_check_top_chunk(s) /\ ~bin_find(s, s.top)
    /\ \A i \in DOMAIN s.seg : traverse_and_check(s, s.seg[i])
    /\ s.footprint <= s.max_footprint

-----------------------------------------------------------------------------
(* Properties                                                              *)

\* Every check of do_check_malloc_state holds between calls: boundary tags
\* agree with their neighbours, no two free chunks touch, every free chunk is
\* dv, top or where the search for its size finds it, and the chunks of a
\* segment cover it.  And no run-time check (RTCHECK) or assertion has failed on
\* a legal program, however mmap and munmap answered.
MallocStateOK == Running /\ do_check_malloc_state(m)

\* Every block of the program lies in a chunk of its own that is in use and
\* large enough, and no chunk in use belongs to nobody but the records of the
\* segments: nothing the program holds is on a free list, nothing is leaked.
BlocksHaveChunks ==
    /\ \A b \in DOMAIN live :
          /\ mem2chunk(b) \in DOMAIN m.h
          /\ is_inuse(m.h, mem2chunk(b))
          /\ live[b].size <= dlmalloc_usable_size(m, b)
          /\ PagesOf(mem2chunk(b), chunksize(m.h, mem2chunk(b)) + SIZE_T_SIZE) \subseteq m.vm
    /\ \A p \in DOMAIN m.h :
          is_inuse(m.h, p) /\ m.h[p] # FENCEPOST_HEAD =>
              \/ chunk2mem(p) \in DOMAIN live
              \/ \E i \in DOMAIN m.seg : m.seg[i].at = chunk2mem(p)
              \/ p = m.top + m.topsize

\* The footprint is what the process has from mmap, to the byte, after any
\* number of mappings, trims and releases; the pages of a segment are mapped.
FootprintExact ==
    /\ m.footprint = PAGE_SIZE * Cardinality(m.vm)
    /\ \A i \in DOMAIN m.seg :
          /\ PagesOf(m.seg[i].base, m.seg[i].size) \subseteq m.vm
          /\ \A j \in DOMAIN m.seg \ {i} :
                PagesOf(m.seg[i].base, m.seg[i].size) \cap PagesOf(m.seg[j].base, m.seg[j].size) = {}

FreeChunks == {p \in DOMAIN m.h : ~is_inuse(m.h, p)}

\* malloc fails only when no free chunk is large enough: whatever the shape of
\* the bins, the search does not miss one.
FailsOnlyWhenFull ==
    [][\A bytes \in Requests, os \in MmapAnswers :
          live' = live /\ DoMalloc(bytes, os) =>
              \A p \in FreeChunks :
                  \/ chunksize(m.h, p) < MallocSize(bytes)
                  \/ p = m.top /\ m.topsize = MallocSize(bytes)]_vars

HeapPromise == INSTANCE Heap

\* The allocator keeps the promises of Heap.
ImplementsHeap == HeapPromise!HeapSpec
=============================================================================
