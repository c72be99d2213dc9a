-------------------------------- MODULE Heap --------------------------------
(***************************************************************************)
(* What malloc, calloc, realloc, memalign and free promise a program: the  *)
(* blocks it holds are aligned, never share a byte, and a call changes     *)
(* only the blocks it names; calloc's blocks are zero and realloc's keep   *)
(* what the old block held.  Any call that hands out memory may fail, and  *)
(* then changes nothing.                                                   *)
(***************************************************************************)
EXTENDS Integers

VARIABLES
    live,   \* the blocks of the program: address to [size, align]
    last    \* what the last call that handed out memory promised, and did

heapVars == <<live, last>>

NoPromise == [want |-> "any", has |-> "any"]

\* A block of no bytes is an address of its own.
Apart(blocks, b, c) ==
    \/ b + blocks[b].size <= c /\ b < c
    \/ c + blocks[c].size <= b /\ c < b

Placed(blocks, new) ==
    \A b \in new :
        /\ b # 0 /\ b % blocks[b].align = 0
        /\ \A c \in DOMAIN blocks \ {b} : Apart(blocks, b, c)

Init == Placed(live, DOMAIN live) /\ last = NoPromise

Untouched(kept) ==
    kept \subseteq DOMAIN live' /\ \A b \in kept : live'[b] = live[b]

\* One block, or the blocks of independent_calloc and independent_comalloc
Allocate ==
    LET new == DOMAIN live' \ DOMAIN live
    IN  /\ new # {}
        /\ Untouched(DOMAIN live)
        /\ Placed(live', new)
        /\ last'.want \in {"any", "zero"} /\ last'.has = last'.want

Release ==
    /\ DOMAIN live' \subseteq DOMAIN live /\ DOMAIN live' # DOMAIN live
    /\ Untouched(DOMAIN live')
    /\ last' = NoPromise

\* The block gets another size, and may get another place.
Resize ==
    \E old \in DOMAIN live : \E new \in DOMAIN live' :
        /\ DOMAIN live' = (DOMAIN live \ {old}) \cup {new}
        /\ Untouched(DOMAIN live \ {old})
        /\ Placed(live', {new})
        /\ last' = [want |-> "kept", has |-> "kept"]

\* A call that fails, or that is not about the program's blocks
Nothing == live' = live /\ last' = NoPromise

Next == Allocate \/ Release \/ Resize \/ Nothing

HeapSpec == Init /\ [][Next]_heapVars
=============================================================================
