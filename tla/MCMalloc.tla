------------------------------ MODULE MCMalloc ------------------------------
(* A heap of a few small pages.  Headers, overheads and alignments are     *)
(* those of the 64-bit build; large chunks start at 64 bytes.              *)
EXTENDS Malloc

ArenaPages == 1..12

SomeRequests == {20, 130, 500}
SomeGroups == {<<20, 40>>}
SomeCallocs == {<<2, 20>>, <<300, 220>>}
SomeOptions ==
    {<<"M_GRANULARITY", 256>>, <<"M_TRIM_THRESHOLD", 100>>, <<"M_MMAP_THRESHOLD", 100>>}

Low(n) == [i \in 1..n |-> "low"]

\* Nothing yet; a trie whose root is in the middle of its sizes, with a
\* chain; a trie whose root is its smallest, and a
\* short top; small bins and dv; three
\* segments, one of them without a block
SomeWarmups ==
    {[sizes |-> <<>>, places |-> <<>>, freed |-> {}, calls |-> 2],
     [sizes |-> <<136, 20, 168, 20, 120, 20, 152, 20, 152, 20>>, places |-> Low(10),
      freed |-> {1, 3, 5, 7, 9}, calls |-> 2],
     [sizes |-> <<120, 20, 152, 20, 168, 20, 250>>, places |-> Low(7),
      freed |-> {1, 3, 5}, calls |-> 2],
     [sizes |-> <<40, 20, 20, 40, 20, 40, 20, 20>>, places |-> Low(8),
      freed |-> {1, 3, 6}, calls |-> 2],
     [sizes |-> <<200, 300, 100, 300>>, places |-> <<"low", "high", "low", "low">>,
      freed |-> {2, 4}, calls |-> 2]}
=============================================================================
