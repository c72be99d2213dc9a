---------------------------- MODULE AddressSpace ----------------------------
(***************************************************************************)
(* What the virtual memory system calls promise (user/vm.cxx seen from a   *)
(* program): every page of a process is free or holds one mode, and a call *)
(* changes one range of pages of one process, all of them to the same      *)
(* thing.  Module Vm is checked to implement it.                           *)
(***************************************************************************)
EXTENDS Integers

CONSTANTS Procs, Page, Mode

\* process -> page -> the modes the page is mapped with: one or none.  A process
\* that does not exist yet has no pages.
VARIABLE space

NoSpace == [p \in {} |-> {}]

Unmapped == [p \in Page |-> {}]

Init == \E first \in Procs : space = [q \in Procs |-> IF q = first THEN Unmapped ELSE NoSpace]

Alive == {q \in Procs : space[q] # NoSpace}

\* The pages from b up to e are free, or mapped with one mode: content is {} or {m}.
Change(q, b, e, content) ==
    space' = [space EXCEPT ![q] =
                [p \in Page |-> IF b <= p /\ p < e THEN content ELSE @[p]]]

\* A new process starts with the pages of the process that forks.
Fork(q, child) ==
    space' = [space EXCEPT ![child] = space[q]]

Next ==
    \E q \in Alive :
        \/ \E b \in Page : \E n \in {p \in Page : b <= p}, m \in Mode : Change(q, b, n + 1, {m})
        \/ \E b \in Page : \E n \in {p \in Page : b <= p} : Change(q, b, n + 1, {})
        \/ \E child \in Procs \ Alive : Fork(q, child)

Spec == Init /\ [][Next]_space
=============================================================================
