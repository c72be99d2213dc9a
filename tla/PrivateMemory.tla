--------------------------- MODULE PrivateMemory ---------------------------
(***************************************************************************)
(* What processes may rely on: each has pages of its own, which hold       *)
(* zeroes when they are mapped and afterwards what the process wrote, or   *)
(* what was delivered to it in a message. A forked process starts with the *)
(* pages of its parent.                                                    *)
(***************************************************************************)
EXTENDS Integers

CONSTANTS
    Procs,
    Page,       \* the pages of user space
    Zeroes,     \* what a new page holds
    PageZero    \* what a message holds whose source is not mapped

VARIABLE mem    \* for each process, what each of its pages holds

Empty == [v \in {} |-> Zeroes]

Init == \E q \in Procs, v \in Page :
            mem = [r \in Procs |-> IF r = q THEN [x \in {v} |-> Zeroes] ELSE Empty]

Map(q, S) ==
    mem' = [mem EXCEPT ![q] =
                [v \in DOMAIN @ \cup S |-> IF v \in S THEN Zeroes ELSE @[v]]]

Unmap(q, S) == mem' = [mem EXCEPT ![q] = [v \in DOMAIN @ \ S |-> @[v]]]

Store(q, v, content) ==
    /\ v \in DOMAIN mem[q]
    /\ mem' = [mem EXCEPT ![q][v] = content]

Fork(q, child) ==
    /\ mem[child] = Empty
    /\ mem' = [mem EXCEPT ![child] = mem[q]]

\* Page w of the source
Sent(source, w) == IF w \in DOMAIN mem[source] THEN mem[source][w] ELSE PageZero

\* A range of pages
Span(b, e) == {v \in Page : b <= v /\ v < e}

Next ==
    \E q \in Procs :
        \/ \E b \in Page, e \in Page : Map(q, Span(b, e + 1)) \/ Unmap(q, Span(b, e + 1))
        \/ \E v \in Page : Store(q, v, <<q, v>>)
        \/ \E child \in Procs : Fork(q, child)
        \/ \E v, w \in Page, source \in Procs : Store(q, v, Sent(source, w))

Spec == Init /\ [][Next]_mem
=============================================================================
