-------------------------------- MODULE Lists --------------------------------
(***************************************************************************)
(* The linked lists of the kernel as sequences: the queues of              *)
(* containers/queue.c and the areas of an address space.                   *)
(***************************************************************************)
EXTENDS Integers, Sequences, FiniteSets, Functions, SequencesExt

\* The elements of seq at the places in keep, in their order
Select(seq, keep) ==
    LET rank(i) == Cardinality({j \in keep : j <= i})
    IN  [k \in 1..Cardinality(keep) |-> seq[CHOOSE i \in keep : rank(i) = k]]

\* Each element of seq once, where it is first
Firsts(seq) == Select(seq, {i \in DOMAIN seq : \A j \in DOMAIN seq : seq[j] = seq[i] => i <= j})

\* Each element of seq once, where it is last
Lasts(seq) == Select(seq, {i \in DOMAIN seq : \A j \in DOMAIN seq : seq[j] = seq[i] => j <= i})

\* seq with the elements of the set S unlinked; the others keep their order.
Without(seq, S) == Select(seq, {i \in DOMAIN seq : seq[i] \notin S})

\* seq with no others than those of S
Within(seq, S) == Select(seq, {i \in DOMAIN seq : seq[i] \in S})
=============================================================================
