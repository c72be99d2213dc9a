---------------------------- MODULE MallocChunk ----------------------------
(***************************************************************************)
(* The C library's allocator (system/libc/src/malloc.c), from the bottom:  *)
(* sizes, the heads of chunks, and the bins of free chunks.                *)
(*                                                                         *)
(* An allocator state m is a record.  m.h maps the address of each chunk   *)
(* to its header; the bytes between two headers are the body of a chunk.   *)
(* Writing a header makes what it covers its body, so the headers of       *)
(* chunks that were merged go.  A word that belongs to the user of the     *)
(* chunk before (prev_foot of a chunk whose pinuse is set) reads 0.        *)
(***************************************************************************)
EXTENDS Integers, Sequences, FiniteSetsExt, SequencesExt

CONSTANTS
    SIZE_T,         \* 2 to the number of bits of size_t
    TREEBIN_SHIFT,  \* log2 of the smallest large chunk
    PAGE_SIZE       \* malloc_getpagesize

ASSUME MallocChunkAssumption ==
    /\ SIZE_T \in Nat /\ SIZE_T > 0
    /\ TREEBIN_SHIFT \in Nat /\ TREEBIN_SHIFT >= 6
    /\ PAGE_SIZE \in Nat /\ PAGE_SIZE % 16 = 0 /\ PAGE_SIZE > 128

SIZE_T_SIZE == 8
MALLOC_ALIGNMENT == 16
CHUNK_OVERHEAD == SIZE_T_SIZE
MMAP_CHUNK_OVERHEAD == 2 * SIZE_T_SIZE
MMAP_FOOT_PAD == 4 * SIZE_T_SIZE
MIN_CHUNK_SIZE == 32
MIN_REQUEST == MIN_CHUNK_SIZE - CHUNK_OVERHEAD - 1
MAX_SIZE_T == SIZE_T - 1
MAX_REQUEST == SIZE_T - 4 * MIN_CHUNK_SIZE

\* Unsigned arithmetic
Wrap(n) == n % SIZE_T

\* (S + (u - 1)) & ~(u - 1), for a power of two u, and 0 when u is 0
AlignTo(s, u) == IF u = 0 THEN 0 ELSE LET t == Wrap(s + u - 1) IN (t \div u) * u

page_align(s) == AlignTo(s, PAGE_SIZE)

chunk2mem(p) == p + 2 * SIZE_T_SIZE
mem2chunk(mem) == mem - 2 * SIZE_T_SIZE

pad_request(req) == AlignTo(req + CHUNK_OVERHEAD, MALLOC_ALIGNMENT)

request2size(req) ==
    IF req < MIN_REQUEST THEN MIN_CHUNK_SIZE ELSE pad_request(req)

\* sizeof(struct malloc_segment) is 32
TOP_FOOT_SIZE == pad_request(32) + MIN_CHUNK_SIZE
SYS_ALLOC_PADDING == TOP_FOOT_SIZE + MALLOC_ALIGNMENT

-----------------------------------------------------------------------------
(* Heads                                                                   *)

\* A header at p of size s; a pinuse bit that is cleared keeps prev_foot
SetHead(h, p, s, pin, cin) ==
    [x \in {y \in DOMAIN h : y <= p \/ y >= p + s} \cup {p} |->
        IF x # p THEN h[x]
        ELSE [prev_foot |-> IF ~pin /\ p \in DOMAIN h THEN h[p].prev_foot ELSE 0,
              size |-> s, pinuse |-> pin, cinuse |-> cin]]

FENCEPOST_HEAD ==
    [prev_foot |-> 0, size |-> SIZE_T_SIZE, pinuse |-> TRUE, cinuse |-> TRUE]

pinuse(h, p) == h[p].pinuse
cinuse(h, p) == h[p].cinuse
is_inuse(h, p) == cinuse(h, p) \/ ~pinuse(h, p)
is_mmapped(h, p) == ~cinuse(h, p) /\ ~pinuse(h, p)
chunksize(h, p) == h[p].size
next_chunk(h, p) == p + chunksize(h, p)
prev_chunk(h, p) == p - h[p].prev_foot
overhead_for(h, p) == IF is_mmapped(h, p) THEN MMAP_CHUNK_OVERHEAD ELSE CHUNK_OVERHEAD

clear_pinuse(h, p) == [h EXCEPT ![p].pinuse = FALSE]

\* head |= PINUSE_BIT, also where no header was written yet
OrPinuse(h, p) ==
    IF p \in DOMAIN h THEN [h EXCEPT ![p].pinuse = TRUE, ![p].prev_foot = 0]
    ELSE SetHead(h, p, 0, TRUE, FALSE)

set_foot(h, p, s) == [h EXCEPT ![p + s].prev_foot = s]

set_size_and_pinuse_of_free_chunk(h, p, s) ==
    set_foot(SetHead(h, p, s, TRUE, FALSE), p, s)

set_free_with_pinuse(h, p, s, n) ==
    set_size_and_pinuse_of_free_chunk(clear_pinuse(h, n), p, s)

\* A header that was not written yet is taken to have its pinuse bit off.
set_inuse(h, p, s) ==
    OrPinuse(SetHead(h, p, s, p \in DOMAIN h /\ pinuse(h, p), TRUE), p + s)

set_inuse_and_pinuse(h, p, s) == OrPinuse(SetHead(h, p, s, TRUE, TRUE), p + s)

set_size_and_pinuse_of_inuse_chunk(h, p, s) == SetHead(h, p, s, TRUE, TRUE)

-----------------------------------------------------------------------------
(* Bins.  m.smallbins maps the marked indices of smallmap to the chunks of *)
(* the bin in the order of fd; m.treebins maps the marked indices of       *)
(* treemap to tries.  A trie maps the path from the root to a node, a      *)
(* sequence of child indices, to the chain of chunks of the node's size,   *)
(* the one that has a parent first and the others in the order of fd.      *)

NTREEBINS == 32
SMALLBIN_SHIFT == 3
MIN_LARGE_SIZE == 2^TREEBIN_SHIFT
NSMALLBINS == MIN_LARGE_SIZE \div 2^SMALLBIN_SHIFT
MAX_SMALL_REQUEST == (MIN_LARGE_SIZE - 1) - (MALLOC_ALIGNMENT - 1) - CHUNK_OVERHEAD

small_index(s) == s \div 2^SMALLBIN_SHIFT
small_index2size(i) == i * 2^SMALLBIN_SHIFT
is_small(s) == small_index(s) < NSMALLBINS

compute_tree_index(s) ==
    LET x == s \div 2^TREEBIN_SHIFT
        k == CHOOSE i \in 0..15 : 2^i <= x /\ x < 2^(i + 1)
    IN  CASE x = 0     -> 0
          [] x > 65535 -> NTREEBINS - 1
          [] OTHER     -> 2 * k + ((s \div 2^(k + TREEBIN_SHIFT - 1)) % 2)

minsize_for_tree_index(i) ==
    2^((i \div 2) + TREEBIN_SHIFT) + (i % 2) * 2^((i \div 2) + TREEBIN_SHIFT - 1)

\* The largest resolved bit of bin i, counted from 0
bit_for_tree_index(i) ==
    IF i = NTREEBINS - 1 THEN CHOOSE b \in 0..30 : 2^(b + 1) = SIZE_T
    ELSE (i \div 2) + TREEBIN_SHIFT - 2

\* The first d turns of the search for size s in bin i
PathOf(i, s, d) ==
    [j \in 1..d |-> (s \div 2^(bit_for_tree_index(i) + 1 - j)) % 2]

SetBin(bins, i, b) == [j \in DOMAIN bins \cup {i} |-> IF j = i THEN b ELSE bins[j]]
DropBin(bins, i) == [j \in DOMAIN bins \ {i} |-> bins[j]]

insert_small_chunk(m, p, s) ==
    LET i == small_index(s)
        rest == IF i \in DOMAIN m.smallbins THEN m.smallbins[i] ELSE <<>>
    IN  [m EXCEPT !.smallbins = SetBin(@, i, <<p>> \o rest)]

\* RTCHECK fails when p is not linked in its bin.
unlink_small_chunk(m, p, s) ==
    LET i == small_index(s)
        linked == i \in DOMAIN m.smallbins /\ Contains(m.smallbins[i], p)
        rest == SelectSeq(m.smallbins[i], LAMBDA q : q # p)
    IN  IF ~linked THEN [m EXCEPT !.aborted = TRUE]
        ELSE [m EXCEPT !.smallbins = IF rest = <<>> THEN DropBin(@, i)
                                     ELSE SetBin(@, i, rest)]

unlink_first_small_chunk(m, i) == unlink_small_chunk(m, m.smallbins[i][1], small_index2size(i))

replace_dv(m, p, s) ==
    LET binned == IF m.dvsize = 0 THEN m ELSE insert_small_chunk(m, m.dv, m.dvsize)
    IN  [binned EXCEPT !.dv = p, !.dvsize = s,
                       !.aborted = @ \/ ~is_small(m.dvsize)]

NodeSize(m, t, q) == chunksize(m.h, t[q][1])

\* The node where the search for size s ends in trie t of bin i
InsertPath(m, i, t, s) ==
    PathOf(i, s, Min({d \in 0..(bit_for_tree_index(i) + 1) :
                        LET q == PathOf(i, s, d)
                        IN  q \notin DOMAIN t \/ NodeSize(m, t, q) = s}))

\* x joins the chain of node q, or is a new node.
InsertNode(m, i, t, q, x) ==
    LET chain == IF q \in DOMAIN t THEN <<t[q][1], x>> \o Tail(t[q]) ELSE <<x>>
    IN  [m EXCEPT !.treebins = SetBin(@, i, SetBin(t, q, chain))]

InsertInBin(m, i, x, s) ==
    LET t == IF i \in DOMAIN m.treebins THEN m.treebins[i] ELSE <<>>
    IN  InsertNode(m, i, t, InsertPath(m, i, t, s), x)

insert_large_chunk(m, x, s) == InsertInBin(m, compute_tree_index(s), x, s)

\* The leaf below q that is found by taking child 1 where there is one
RightmostLeaf(t, q) ==
    CHOOSE l \in DOMAIN t :
        /\ IsStrictPrefix(q, l)
        /\ \A k \in (Len(q) + 1)..Len(l) :
              l[k] = 1 \/ Append(SubSeq(l, 1, k - 1), 1) \notin DOMAIN t
        /\ Append(l, 0) \notin DOMAIN t /\ Append(l, 1) \notin DOMAIN t

\* The nodes met from q down by leftmost_child
LeftmostPath(t, q) ==
    {l \in DOMAIN t :
        /\ IsPrefix(q, l)
        /\ \A k \in (Len(q) + 1)..Len(l) :
              l[k] = 0 \/ Append(SubSeq(l, 1, k - 1), 0) \notin DOMAIN t}

\* The chain without x: the node before x (bk) takes the place of its head.
UnlinkFromChain(chain, x) ==
    IF x = chain[1] THEN <<Last(chain)>> \o SubSeq(chain, 2, Len(chain) - 1)
    ELSE SelectSeq(chain, LAMBDA y : y # x)

\* Trie t without x, which is in the chain of node q
UnlinkNode(t, q, x) ==
    IF Len(t[q]) > 1 THEN SetBin(t, q, UnlinkFromChain(t[q], x))
    ELSE IF Append(q, 0) \notin DOMAIN t /\ Append(q, 1) \notin DOMAIN t THEN DropBin(t, q)
    ELSE LET l == RightmostLeaf(t, q) IN SetBin(DropBin(t, l), q, t[l])

SetTrie(m, i, t) ==
    [m EXCEPT !.treebins = IF DOMAIN t = {} THEN DropBin(@, i) ELSE SetBin(@, i, t)]

UnlinkIn(m, at, x) ==
    IF at = {} THEN [m EXCEPT !.aborted = TRUE]
    ELSE LET iq == CHOOSE iq \in at : TRUE
         IN  SetTrie(m, iq[1], UnlinkNode(m.treebins[iq[1]], iq[2], x))

unlink_large_chunk(m, x) ==
    UnlinkIn(m, {iq \in UNION {{<<i, q>> : q \in DOMAIN m.treebins[i]} : i \in DOMAIN m.treebins} :
                    Contains(m.treebins[iq[1]][iq[2]], x)}, x)

insert_chunk(m, p, s) ==
    IF is_small(s) THEN insert_small_chunk(m, p, s) ELSE insert_large_chunk(m, p, s)

unlink_chunk(m, p, s) ==
    IF is_small(s) THEN unlink_small_chunk(m, p, s) ELSE unlink_large_chunk(m, p)
=============================================================================
