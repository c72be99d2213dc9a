----------------------------- MODULE MCProcess -----------------------------
(* Two processes on a machine whose frames run out. *)
EXTENDS Process

\* Sizes that let only a few objects share a page; the first three share a class, as
\* Process and table_l1l0 do in the kernel
Sizes == [Process |-> 120, VM_area |-> 100, table_l1l0 |-> 128, Thread |-> 20,
          FXSave_region |-> 60]

ThreeRanges == {<<1, 3>>, <<2, 6>>, <<7, 9>>}

TwoProts == {{}, {"READ", "WRITE"}}

\* A kind of use: the frames of the machine, what rng returns, and how many calls
Use(frames, rng, calls) ==
    [frames |-> frames, rng |-> rng, map |-> calls[1], fork |-> calls[2], spawn |-> calls[3],
     open |-> calls[4], store |-> calls[5], copy |-> calls[6], switch |-> calls[7]]

\* Programs that map, fork and write, where pages pass from one to the other; that
\* send; that fork with more and more objects until there is no memory left; that
\* spawn
Uses ==
    {Use(24, {1}, <<2, 1, 0, 0, 2, 0, 1>>), Use(24, {1}, <<1, 1, 0, 0, 1, 1, 0>>)}
        \cup {Use(n, {1}, <<1, 1, 1, 2, 0, 0, 0>>) : n \in 14..21}
        \cup {Use(n, {1, 2, 3}, <<0, 0, 5, 0, 0, 0, 0>>) : n \in {8, 9}}
=============================================================================
