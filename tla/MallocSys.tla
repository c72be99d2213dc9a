----------------------------- MODULE MallocSys -----------------------------
(***************************************************************************)
(* The allocator's dealings with the system (system/libc/src/malloc.c):    *)
(* segments and chunks that are mapped, extended, trimmed and unmapped,    *)
(* and the chunks that go back to the bins on the way.                     *)
(*                                                                         *)
(* m.vm is the set of pages that the process has from mmap.  os is how the *)
(* kernel answers during one call of the library: os.mmap is where mmap    *)
(* finds room ("low" or "high"), "none" for a failure, or "no_direct" for  *)
(* a failure of the mapping of a single chunk only; os.munmap is whether   *)
(* munmap succeeds.                                                        *)
(***************************************************************************)
EXTENDS MallocChunk

CONSTANTS
    Arena,                  \* the pages that mmap can give, as numbers
    DEFAULT_GRANULARITY,
    DEFAULT_MMAP_THRESHOLD,
    DEFAULT_TRIM_THRESHOLD,
    MAX_RELEASE_CHECK_RATE

ASSUME MallocSysAssumption ==
    /\ Arena \subseteq Nat \ {0}
    /\ DEFAULT_GRANULARITY \in Nat /\ DEFAULT_GRANULARITY % PAGE_SIZE = 0
    /\ DEFAULT_MMAP_THRESHOLD \in Nat
    /\ DEFAULT_TRIM_THRESHOLD \in Nat
    /\ MAX_RELEASE_CHECK_RATE \in Nat \ {0}

MFAIL == 0

PagesOf(base, len) == (base \div PAGE_SIZE)..((base + len - 1) \div PAGE_SIZE)

\* The address that mmap answers
MmapPlace(m, len, where) ==
    LET fits == {a \in Arena : PagesOf(a * PAGE_SIZE, len) \subseteq Arena \ m.vm}
    IN  IF fits = {} \/ where = "none" THEN MFAIL
        ELSE PAGE_SIZE * (IF where = "high" THEN Max(fits) ELSE Min(fits))

Mapped(m, base, len) == [m EXCEPT !.vm = @ \cup PagesOf(base, len)]

\* Nothing in the range can be read any more.
Unmapped(m, base, len) ==
    [m EXCEPT !.vm = @ \ PagesOf(base, len),
              !.h = [p \in {q \in DOMAIN @ : q < base \/ q >= base + len} |-> @[p]]]

-----------------------------------------------------------------------------
(* Parameters, segments                                                    *)

init_mparams(m) ==
    [m EXCEPT !.init = TRUE, !.use_mmap = TRUE,
              !.granularity = DEFAULT_GRANULARITY,
              !.mmap_threshold = DEFAULT_MMAP_THRESHOLD,
              !.trim_threshold = DEFAULT_TRIM_THRESHOLD]

ensure_initialization(m) == IF m.init THEN m ELSE init_mparams(m)

granularity_align(m, s) == AlignTo(s, m.granularity)

is_initialized(m) == m.top # 0

ok_address(m, a) == a >= m.least_addr

segment_holds(s, a) == a >= s.base /\ a < s.base + s.size

\* The index in m.seg of the segment that holds a
segment_holding(m, a) == CHOOSE i \in DOMAIN m.seg : segment_holds(m.seg[i], a)

\* m.seg[i].at is where the record of a segment is: 0 for the first one, &m->seg
has_segment_link(m, s) == \E i \in DOMAIN m.seg : segment_holds(s, m.seg[i].at)

LimitExceeded(m, len) ==
    LET fp == Wrap(m.footprint + len)
    IN  m.footprint_limit # 0 /\ (fp <= m.footprint \/ fp > m.footprint_limit)

AddFootprint(m, len) ==
    [m EXCEPT !.footprint = @ + len,
              !.max_footprint = Max({@, m.footprint + len})]

LowerLeastAddr(m, a) ==
    [m EXCEPT !.least_addr = IF @ = 0 \/ a < @ THEN a ELSE @]

\* mmap_align(nb + SIX_SIZE_T_SIZES + CHUNK_ALIGN_MASK)
MmapSize(nb) == page_align(Wrap(nb + 6 * SIZE_T_SIZE + MALLOC_ALIGNMENT - 1))

NoMem(m) == [m |-> m, mem |-> 0]

\* A chunk that is mapped for itself; a page is aligned, so the offset is 0.
mmap_alloc(m, nb, os) ==
    LET mmsize == MmapSize(nb)
        mm == IF os.mmap = "no_direct" THEN MFAIL ELSE MmapPlace(m, mmsize, os.mmap)
        psize == mmsize - MMAP_FOOT_PAD
        placed == AddFootprint(LowerLeastAddr(Mapped(m, mm, mmsize), mm), mmsize)
        head == SetHead(m.h, mm, psize, FALSE, FALSE)
    IN  IF LimitExceeded(m, mmsize) \/ mmsize <= nb \/ mm = MFAIL THEN NoMem(m)
        ELSE [m |-> [placed EXCEPT !.h = SetBin(head, mm + psize, FENCEPOST_HEAD)],
              mem |-> chunk2mem(mm)]

\* There is no mremap: a mapped chunk is kept as it is, or not resized (0).
mmap_resize(m, oldp, nb) ==
    LET oldsize == chunksize(m.h, oldp)
    IN  IF /\ ~is_small(nb)
           /\ oldsize >= nb + SIZE_T_SIZE
           /\ oldsize - nb <= 2 * m.granularity
        THEN oldp ELSE 0

\* The fake chunk after top has no bits set.
init_top(m, p, psize) ==
    LET h == SetHead(m.h, p, psize, TRUE, FALSE)
    IN  [m EXCEPT !.top = p, !.topsize = psize, !.trim_check = m.trim_threshold,
                  !.h = SetHead(h, p + psize, TOP_FOOT_SIZE, FALSE, FALSE)]

\* The front of top
SplitTop(m, nb) ==
    LET p == m.top
        r == p + nb
        h == set_size_and_pinuse_of_inuse_chunk(m.h, p, nb)
    IN  [m |-> [m EXCEPT !.top = r, !.topsize = @ - nb,
                         !.h = SetHead(h, r, m.topsize - nb, TRUE, FALSE)],
         mem |-> chunk2mem(p)]

\* The new space before a segment: nb bytes, and the rest joins what follows.
prepend_alloc(m, newbase, oldbase, nb) ==
    LET p == newbase
        q == p + nb
        qsize == oldbase - p - nb
        h == set_size_and_pinuse_of_inuse_chunk(m.h, p, nb)
        nsize == chunksize(m.h, oldbase)
        free == ~is_inuse(m.h, oldbase)
        joined == IF free THEN unlink_chunk(m, oldbase, nsize) ELSE m
        size == IF free THEN qsize + nsize ELSE qsize
        rest ==
          CASE oldbase = m.top ->
                 [m EXCEPT !.top = q, !.topsize = @ + qsize,
                           !.h = SetHead(h, q, m.topsize + qsize, TRUE, FALSE)]
            [] oldbase = m.dv ->
                 [m EXCEPT !.dv = q, !.dvsize = @ + qsize,
                           !.h = set_size_and_pinuse_of_free_chunk(h, q, m.dvsize + qsize)]
            [] OTHER ->
                 insert_chunk([joined EXCEPT !.h = set_free_with_pinuse(h, q, size, q + size)],
                              q, size)
    IN  [m |-> rest, mem |-> chunk2mem(p)]

\* The record of the first segment moves to the end of old top, behind it
\* fenceposts (only the first is ever read); the rest of old top is binned.
add_segment(m, tbase, tsize) ==
    LET old_top == m.top
        oldsp == m.seg[segment_holding(m, old_top)]
        old_end == oldsp.base + oldsp.size
        ssize == pad_request(32)
        \* rawsp rounded up; old_end is aligned
        asp == old_end - ((ssize + 4 * SIZE_T_SIZE + MALLOC_ALIGNMENT - 1) \div 16) * 16
        csp == IF asp < old_top + MIN_CHUNK_SIZE THEN old_top ELSE asp
        fresh == init_top(m, tbase, tsize - TOP_FOOT_SIZE)
        h == SetBin(set_size_and_pinuse_of_inuse_chunk(fresh.h, csp, ssize),
                    csp + ssize, FENCEPOST_HEAD)
        seg == <<[base |-> tbase, size |-> tsize, at |-> 0],
                 [m.seg[1] EXCEPT !.at = chunk2mem(csp)]>> \o Tail(m.seg)
        linked == [fresh EXCEPT !.h = h, !.seg = seg]
    IN  IF csp = old_top THEN linked
        ELSE insert_chunk([linked EXCEPT !.h = set_free_with_pinuse(h, old_top, csp - old_top, csp)],
                          old_top, csp - old_top)

-----------------------------------------------------------------------------
\* The block is the front of top, now that top has grown.
FrontOfTop(m, nb) == IF nb < m.topsize THEN SplitTop(m, nb) ELSE NoMem(m)

\* m has tsize new bytes at tbase: the first segment, one that grows at its end,
\* one that grows at its front, or one that lies alone
Extend(m, tbase, tsize, nb) ==
    LET before == {i \in DOMAIN m.seg : m.seg[i].base + m.seg[i].size = tbase}
        after == {i \in DOMAIN m.seg : m.seg[i].base = tbase + tsize}
        sp == Min(before)
        np == Min(after)
        lower == LowerLeastAddr(m, tbase)
    IN  IF ~is_initialized(m)
        THEN FrontOfTop(init_top([lower EXCEPT
                                    !.seg = <<[base |-> tbase, size |-> tsize, at |-> 0]>>,
                                    !.release_checks = MAX_RELEASE_CHECK_RATE],
                                 tbase, tsize - TOP_FOOT_SIZE), nb)
        ELSE IF before # {} /\ segment_holds(m.seg[sp], m.top)
        THEN FrontOfTop(init_top([m EXCEPT !.seg[sp].size = @ + tsize],
                                 m.top, m.topsize + tsize), nb)
        ELSE IF after # {}
        THEN prepend_alloc([lower EXCEPT !.seg[np].base = tbase, !.seg[np].size = @ + tsize],
                           tbase, m.seg[np].base, nb)
        ELSE FrontOfTop(add_segment(lower, tbase, tsize), nb)

\* What was mapped for the request alone, or asize bytes at tbase for all
DirectOrExtend(m, direct, tbase, asize, nb) ==
    IF direct.mem # 0 THEN direct
    ELSE IF asize <= nb \/ LimitExceeded(m, asize) \/ tbase = MFAIL THEN NoMem(m)
    ELSE Extend(AddFootprint(Mapped(m, tbase, asize), asize), tbase, asize, nb)

SysAlloc(m, nb, os) ==
    LET asize == granularity_align(m, Wrap(nb + SYS_ALLOC_PADDING))
    IN  DirectOrExtend(m, IF m.use_mmap /\ nb >= m.mmap_threshold /\ m.topsize # 0
                          THEN mmap_alloc(m, nb, os) ELSE NoMem(m),
                       MmapPlace(m, asize, os.mmap), asize, nb)

sys_alloc(m, nb, os) == SysAlloc(ensure_initialization(m), nb, os)

\* Mutant: a segment is unmapped although a block in it is in use.
WholeSegmentFree_first(m, s) == ~is_inuse(m.h, s.base)

\* The first chunk of segment s is free and reaches to its end.
WholeSegmentFree(m, s) ==
    /\ ~is_inuse(m.h, s.base)
    /\ next_chunk(m.h, s.base) >= s.base + s.size - TOP_FOOT_SIZE

\* Segment i of m.seg, when a single free chunk covers it
ReleaseSegment(m, s, os) ==
    LET p == s.base
        psize == chunksize(m.h, p)
        taken == IF p = m.dv THEN [m EXCEPT !.dv = 0, !.dvsize = 0]
                 ELSE unlink_large_chunk(m, p)
        checked == [taken EXCEPT !.aborted = @ \/ ~segment_holds(s, s.at)]
    IN  IF ~WholeSegmentFree(m, s) THEN m
        ELSE IF os.munmap
        THEN [Unmapped(checked, s.base, s.size) EXCEPT
                !.footprint = @ - s.size,
                !.seg = SelectSeq(@, LAMBDA r : r # s)]
        ELSE insert_large_chunk(checked, p, psize)

\* Every segment but the first, in the order of the list
release_unused_segments(m, os) ==
    LET nsegs == Len(m.seg) - 1
        done == FoldLeft(LAMBDA n, s : ReleaseSegment(n, s, os), m, Tail(m.seg))
    IN  [done EXCEPT !.release_checks = Max({nsegs, MAX_RELEASE_CHECK_RATE})]

\* The part of top past pad, in units of the granularity, keeping one
TrimTop(m, pad, os) ==
    LET unit == m.granularity
        extra == ((m.topsize - pad + unit - 1) \div unit - 1) * unit
        i == segment_holding(m, m.top)
        s == m.seg[i]
        less == [Unmapped(m, s.base + s.size - extra, extra) EXCEPT
                   !.seg[i].size = @ - extra, !.footprint = @ - extra]
    IN  IF /\ m.topsize > pad /\ extra # 0
           /\ s.size >= extra /\ ~has_segment_link(m, s) /\ os.munmap
        THEN init_top(less, m.top, m.topsize - extra) ELSE m

\* Nothing could be released: do not try again.
TrimDone(m, done) ==
    IF done.footprint = m.footprint /\ done.topsize > done.trim_check
    THEN [done EXCEPT !.trim_check = MAX_SIZE_T] ELSE done

SysTrim(m, pad, os) ==
    IF pad >= MAX_REQUEST \/ ~is_initialized(m) THEN m
    ELSE TrimDone(m, release_unused_segments(TrimTop(m, pad + TOP_FOOT_SIZE, os), os))

sys_trim(m, pad, os) == SysTrim(ensure_initialization(m), pad, os)

-----------------------------------------------------------------------------
\* Mutant: what pads a mapped chunk is not taken from the footprint.
UnmapChunk_unpadded(m, p, os) ==
    LET len == chunksize(m.h, p) + m.h[p].prev_foot
    IN  IF os.munmap THEN [Unmapped(m, prev_chunk(m.h, p), len) EXCEPT !.footprint = @ - len]
        ELSE m

\* Unmap the chunk p that was mapped for itself.
UnmapChunk(m, p, os) ==
    LET base == prev_chunk(m.h, p)
        len == chunksize(m.h, p) + m.h[p].prev_foot + MMAP_FOOT_PAD
    IN  IF os.munmap THEN [Unmapped(m, base, len) EXCEPT !.footprint = @ - len]
        ELSE [m EXCEPT !.h = [q \in DOMAIN @ \ {p, p + chunksize(m.h, p)} |-> @[q]]]

\* Mutant: the free neighbour behind is not joined.
Consolidate_forward(m, p, psize) ==
    [m |-> m, p |-> p, psize |-> psize, next |-> p + psize, done |-> FALSE]

\* The free chunk before p, unless it is dv and nothing free follows p
Consolidate(m, p, psize) ==
    LET next == p + psize
        prev == prev_chunk(m.h, p)
        prevsize == m.h[p].prev_foot
        size == psize + prevsize
        ok == ok_address(m, prev)
        dvdone == prev = m.dv /\ cinuse(m.h, next) /\ pinuse(m.h, next)
        joined == IF ~ok THEN [m EXCEPT !.aborted = TRUE]
                  ELSE IF prev # m.dv THEN unlink_chunk(m, prev, prevsize)
                  ELSE IF dvdone
                  THEN [m EXCEPT !.dvsize = size,
                                 !.h = set_free_with_pinuse(@, prev, size, next)]
                  ELSE m
    IN  IF pinuse(m.h, p)
        THEN [m |-> m, p |-> p, psize |-> psize, next |-> next, done |-> FALSE]
        ELSE [m |-> joined, p |-> prev, psize |-> size, next |-> next, done |-> ~ok \/ dvdone]

\* The chunk p of psize bytes, with the free chunk after it: in top, in dv,
\* or binned (where)
JoinForward(m, p, psize, next) ==
    LET h == m.h
        nsize == chunksize(h, next)
        tsize == m.topsize + psize
        dsize == m.dvsize + psize
        isdv == p = m.dv
        totop == [m EXCEPT !.top = p, !.topsize = tsize,
                           !.h = SetHead(h, p, tsize, TRUE, FALSE),
                           !.dv = IF isdv THEN 0 ELSE @, !.dvsize = IF isdv THEN 0 ELSE @]
        todv == [m EXCEPT !.dv = p, !.dvsize = dsize,
                          !.h = set_size_and_pinuse_of_free_chunk(h, p, dsize)]
        next_out == unlink_chunk(m, next, nsize)
        both == [next_out EXCEPT !.h = set_size_and_pinuse_of_free_chunk(h, p, psize + nsize)]
        alone == [m EXCEPT !.h = set_free_with_pinuse(h, p, psize, next)]
    IN  CASE cinuse(h, next) -> [m |-> insert_chunk(alone, p, psize), where |-> "bin", size |-> psize]
          [] next = m.top -> [m |-> totop, where |-> "top", size |-> tsize]
          [] next = m.dv -> [m |-> todv, where |-> "dv", size |-> dsize]
          [] OTHER -> IF isdv
                      THEN [m |-> [both EXCEPT !.dvsize = psize + nsize], where |-> "dv",
                            size |-> psize + nsize]
                      ELSE [m |-> insert_chunk(both, p, psize + nsize), where |-> "bin",
                            size |-> psize + nsize]

\* c is the chunk, joined with a free one before it.
DisposeJoined(m, c) ==
    IF c.done THEN c.m
    ELSE IF ~ok_address(m, c.next) THEN [c.m EXCEPT !.aborted = TRUE]
    ELSE JoinForward(c.m, c.p, c.psize, c.next).m

dispose_chunk(m, p, psize, os) ==
    IF is_mmapped(m.h, p) THEN UnmapChunk(m, p, os)
    ELSE DisposeJoined(m, Consolidate(m, p, psize))
=============================================================================
