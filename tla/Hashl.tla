------------------------------- MODULE Hashl -------------------------------
(***************************************************************************)
(* The hash map in which init keeps the files of its ramdisk               *)
(* (programs/khashl.h): open addressing with linear probing, grown in      *)
(* place by moving every bucket to its new home and carrying on with the   *)
(* bucket that is kicked out there.  Pure operators on a map h.            *)
(*                                                                         *)
(* A key is a pointer to a name: <<name, address>>.  Two keys are equal if *)
(* their names are.                                                        *)
(***************************************************************************)
EXTENDS Integers, FiniteSetsExt

CONSTANTS
    Names,      \* the names of files
    HASH_BITS,  \* the width of a hash: 32
    HashOf      \* the hash of each name, after the multiplication of __kh_h2b

ASSUME HashlAssumption ==
    /\ HASH_BITS \in Nat /\ HASH_BITS > 2
    /\ HashOf \in [Names -> 0..(2^HASH_BITS - 1)]

Pow2(n) == 2^n

\* A bucket of memory that realloc has added
Blank == [key |-> <<0, 0>>, val |-> << >>]

\* The map of prefix_init(): keys and used are null.  Buckets are numbered from 0.
init3 == [bits |-> 0, count |-> 0, used |-> {}, keys |-> [i \in {} |-> Blank]]

\* kh_capacity, kh_end
Capacity(h) == IF DOMAIN h.keys = {} THEN 0 ELSE Pow2(h.bits)

kh_max_count(cap) == cap \div 2 + cap \div 4

\* The home of a key in a table of 2^bits buckets: the top bits of its hash
h2b(key, bits) == HashOf[key[1]] \div Pow2(HASH_BITS - bits)

\* The first bucket from i on, of n, that is not one of passed.  Every caller
\* leaves room.
Probe(i, n, passed) ==
    (i + Min({d \in 0..(n - 1) : (i + d) % n \notin passed})) % n

-----------------------------------------------------------------------------
\* Mutant: the bucket found in the way is lost.
Kick_lost(s, bucket, bits) ==
    LET i == Probe(h2b(bucket.key, bits), Pow2(bits), s.new)
    IN  [s EXCEPT !.new = @ \cup {i}, !.old = @ \ {i}, !.keys[i] = bucket]

\* The kick-out loop of resize: bucket is put into the new table, over the bucket of
\* the old table that is in the way, which is next.
RECURSIVE Kick(_, _, _)
Kick(s, bucket, bits) ==
    LET i == Probe(h2b(bucket.key, bits), Pow2(bits), s.new)
        placed == [s EXCEPT !.new = @ \cup {i}, !.old = @ \ {i}, !.keys[i] = bucket]
    IN  IF i \in s.old THEN Kick(placed, s.keys[i], bits) ELSE placed

\* The buckets of the old table, from number j on
RECURSIVE Rehash(_, _, _, _)
Rehash(s, j, n, bits) ==
    IF j = n THEN s
    ELSE Rehash(IF j \in s.old THEN Kick([s EXCEPT !.old = @ \ {j}], s.keys[j], bits) ELSE s,
                j + 1, n, bits)

\* The number of bits of a table of at least n buckets
NewBits(n) == Min({b \in 2..HASH_BITS : Pow2(b) >= n})

\* resize to more buckets, which is all that put asks for
resize(h, new_n_buckets) ==
    LET bits == NewBits(new_n_buckets)
        n == Capacity(h)
        grown == [i \in 0..(Pow2(bits) - 1) |-> IF i < n THEN h.keys[i] ELSE Blank]
        s == Rehash([old |-> h.used, new |-> {}, keys |-> grown], 0, n, bits)
    IN  [h EXCEPT !.bits = bits, !.used = s.new, !.keys = s.keys]

MustGrow(h) == h.count >= kh_max_count(Capacity(h))

\* The bucket where the search for key ends, in a table that has a free one
Search(h, key) ==
    Probe(h2b(key, h.bits), Capacity(h), {b \in h.used : h.keys[b].key[1] # key[1]})

\* put and the assignment of kh_val, with memory to grow
put(h0, key, val) ==
    LET h == IF MustGrow(h0) THEN resize(h0, Capacity(h0) + 1) ELSE h0
        i == Search(h, key)
    IN  IF i \in h.used THEN [h EXCEPT !.keys[i].val = val]
        ELSE [h EXCEPT !.keys[i] = [key |-> key, val |-> val],
                       !.used = @ \cup {i}, !.count = @ + 1]

\* kh_foreach: what the buckets in use hold
Buckets(h) == {h.keys[i] : i \in h.used}
=============================================================================
