----------------------------- MODULE Descriptor -----------------------------
(***************************************************************************)
(* The descriptor tables of user processes (user/descriptor.cxx), the      *)
(* reference counts of the handles they hold (user/handle.cxx), and the    *)
(* system calls that open, duplicate, inherit and close descriptors.       *)
(*                                                                         *)
(* A table has L0 entries of its own and L1 second-level tables of L1L0    *)
(* entries, allocated when first needed.                                   *)
(***************************************************************************)
EXTENDS Integers, FiniteSets, Sequences

CONSTANTS
    Procs,          \* every process that can ever be created
    Handles,        \* the handles: IRQ handles, IPC objects, opened modules
    Irqs,           \* those of interrupt lines
    NoHandle,       \* nullptr
    L0, L1, L1L0,   \* the dimensions of Descriptor_table
    MaxRefs         \* bound on the references to one handle

ASSUME DescriptorAssumption ==
    /\ IsFiniteSet(Procs)
    /\ Irqs \subseteq Handles
    /\ NoHandle \notin Handles
    /\ L0 \in Nat /\ L1 \in Nat /\ L1L0 \in Nat \ {0}
    /\ MaxRefs \in Nat \ {0}

\* Where a descriptor lives: <<0, i>> is l0[i], <<j, k>> entry k of the second-level
\* table l1[j - 1].
Slot == ({0} \X (0..(L0 - 1))) \cup ((1..L1) \X (0..(L1L0 - 1)))

Fds == 0..(L0 + L1 * L1L0 - 1)

VARIABLES
    desc,       \* process -> slot -> Descriptor
    tables,     \* process -> the second-level tables it has allocated
    procs,      \* the processes that exist
    ref_count,  \* Handle::ref_count_
    live,       \* the handles that were obtained and not closed since
    ret,        \* what the last system call returned
    desc_ok     \* no assert failed

descVars == <<desc, tables, procs, ref_count, live, ret, desc_ok>>

Closed == [handle |-> NoHandle, cloexec |-> FALSE]

is_open(d) == d.handle # NoHandle

\* A call that returns no descriptor
NoReturn == [proc |-> NoHandle, fd |-> 0, handle |-> NoHandle, lowest |-> FALSE]

-----------------------------------------------------------------------------
Exists(q, s) == s[1] \in {0} \cup tables[q]

Before(s, t) == s[1] < t[1] \/ (s[1] = t[1] /\ s[2] < t[2])

\* The slots where the scan of Descriptor_table::alloc stops: a closed descriptor,
\* or the first of a table not allocated yet
Vacant(q) ==
    {s \in Slot : IF Exists(q, s) THEN ~is_open(desc[q][s]) ELSE s[2] = 0}

\* The slot that alloc finds, if any (EMFILE)
alloc(q) == {s \in Vacant(q) : \A t \in Vacant(q) \ {s} : Before(s, t)}

\* Mutant: second-level tables are counted with the size of the first.
alloc_fd_stride(q, s) == L0 * s[1] + s[2]

\* alloc counts the descriptors it passes.
alloc_fd(q, s) == Cardinality({t \in Slot : Exists(q, t) /\ Before(t, s)})

\* The slot that alloc_overwrite, get and close find for fd
slot_of(fd) ==
    IF fd < L0 THEN <<0, fd>>
    ELSE <<1 + (fd - L0) \div L1L0, (fd - L0) % L1L0>>

\* Descriptor_table::get; EBADF unless this is open
get(q, fd) == IF Exists(q, slot_of(fd)) THEN desc[q][slot_of(fd)] ELSE Closed

\* The second-level tables of q once the one of slot s is there
WithTable(q, s) == [tables EXCEPT ![q] = @ \cup ({s[1]} \ {0})]

-----------------------------------------------------------------------------
\* Handle::release once for every element of a set of descriptors, given as the
\* number of references dropped; the last one closes the handle.
release(n) ==
    /\ ref_count' = [h \in Handles |-> ref_count[h] - n[h]]
    /\ live' = {h \in live : n[h] = 0 \/ ref_count[h] > n[h]}
    /\ desc_ok' = (desc_ok /\ \A h \in Handles : n[h] > 0 => ref_count[h] >= n[h])

One(h) == [x \in Handles |-> IF x = h THEN 1 ELSE 0]

CanCall(q) == desc_ok /\ q \in procs

\* SYSCALL(claim_irq), SYSCALL(open_module), SYSCALL(ipc_create): a handle nobody
\* has is put into a new descriptor.  An interrupt line is claimed close-on-exec.
open(q, h) ==
    /\ CanCall(q)
    /\ h \notin live
    /\ \E s \in alloc(q) :
        /\ tables' = WithTable(q, s)
        /\ desc' = [desc EXCEPT ![q][s] = [handle |-> h, cloexec |-> h \in Irqs]]
        /\ desc_ok' = (~is_open(desc[q][s]) /\ ref_count[h] >= 0)
        /\ ret' = [proc |-> q, fd |-> alloc_fd(q, s), handle |-> h, lowest |-> TRUE]
    /\ ref_count' = [ref_count EXCEPT ![h] = @ + 1]
    /\ live' = live \cup {h}
    /\ UNCHANGED procs

\* The same calls when there is no handle to be had (EBUSY, ENOENT, EFAULT) after
\* alloc has allocated a second-level table
open_refused(q) ==
    /\ CanCall(q)
    /\ \E s \in alloc(q) :
        /\ ~Exists(q, s)
        /\ tables' = WithTable(q, s)
    /\ ret' = NoReturn
    /\ UNCHANGED <<desc, procs, ref_count, live, desc_ok>>

\* SYSCALL(dup) into the lowest free descriptor
dup_any(q, old, cloexec) ==
    LET h == get(q, old).handle
    IN  /\ CanCall(q)
        /\ is_open(get(q, old))
        /\ ref_count[h] < MaxRefs
        /\ \E s \in alloc(q) :
            /\ tables' = WithTable(q, s)
            /\ desc' = [desc EXCEPT ![q][s] = [handle |-> h, cloexec |-> cloexec]]
            /\ desc_ok' = ~is_open(desc[q][s])
            /\ ret' = [proc |-> q, fd |-> alloc_fd(q, s), handle |-> h, lowest |-> TRUE]
        /\ ref_count' = [ref_count EXCEPT ![h] = @ + 1]
        /\ UNCHANGED <<procs, live>>

\* SYSCALL(dup) over a given descriptor, which is closed first if it is open
dup_over(q, old, new, cloexec) ==
    LET h == get(q, old).handle
        victim == get(q, new).handle
        s == slot_of(new)
        count == [x \in Handles |-> ref_count[x] - One(victim)[x]]
    IN  /\ CanCall(q)
        /\ old # new
        /\ is_open(get(q, old))
        /\ ref_count[h] < MaxRefs
        /\ tables' = WithTable(q, s)
        /\ desc' = [desc EXCEPT ![q][s] = [handle |-> h, cloexec |-> cloexec]]
        /\ ref_count' = [count EXCEPT ![h] = @ + 1]
        /\ live' = IF victim # NoHandle /\ count[victim] = 0 THEN live \ {victim} ELSE live
        /\ desc_ok' = \A x \in Handles : count[x] >= 0
        /\ ret' = [proc |-> q, fd |-> new, handle |-> h, lowest |-> FALSE]
        /\ UNCHANGED procs

\* SYSCALL(close)
close(q, fd) ==
    /\ CanCall(q)
    /\ is_open(get(q, fd))
    /\ desc' = [desc EXCEPT ![q][slot_of(fd)] = Closed]
    /\ release(One(get(q, fd).handle))
    /\ ret' = NoReturn
    /\ UNCHANGED <<tables, procs>>

\* Mutant: a handle that several descriptors hold is counted once.
Holds_once(q, S) ==
    [h \in Handles |-> IF \E s \in S : desc[q][s].handle = h THEN 1 ELSE 0]

\* How many descriptors of q among those of the set S hold each handle
Holds(q, S) ==
    [h \in Handles |-> Cardinality({s \in S : desc[q][s].handle = h})]

\* Descriptor_table::cloexec, called by SYSCALL(exec_flush)
cloexec(q) ==
    LET marked == {s \in Slot : Exists(q, s) /\ desc[q][s].cloexec}
    IN  /\ CanCall(q)
        /\ desc' = [desc EXCEPT ![q] =
                        [s \in Slot |-> IF s \in marked THEN Closed ELSE @[s]]]
        /\ release(Holds(q, marked))
        /\ ret' = NoReturn
        /\ UNCHANGED <<tables, procs>>

\* Descriptor_table::clone, called by SYSCALL(fork)
clone(q, child) ==
    LET held == Holds(q, {s \in Slot : Exists(q, s)})
    IN  /\ CanCall(q)
        /\ child \notin procs
        /\ \A h \in Handles : ref_count[h] + held[h] <= MaxRefs
        /\ procs' = procs \cup {child}
        /\ tables' = [tables EXCEPT ![child] = tables[q]]
        /\ desc' = [desc EXCEPT ![child] = desc[q]]
        /\ ref_count' = [h \in Handles |-> ref_count[h] + held[h]]
        /\ desc_ok' = \A s \in Slot : ~is_open(desc[child][s])
        /\ ret' = NoReturn
        /\ UNCHANGED live

-----------------------------------------------------------------------------
\* The first process, before user_init opens its program
DescriptorInit ==
    /\ \E q \in Procs : procs = {q}
    /\ desc = [q \in Procs |-> [s \in Slot |-> Closed]]
    /\ tables = [q \in Procs |-> {}]
    /\ ref_count = [h \in Handles |-> 0]
    /\ live = {}
    /\ ret = NoReturn
    /\ desc_ok = TRUE

DescriptorNext ==
    \E q \in Procs :
        \/ \E h \in Handles : open(q, h)
        \/ open_refused(q)
        \/ \E old \in Fds, mark \in BOOLEAN : dup_any(q, old, mark)
        \/ \E old \in Fds, new \in Fds, mark \in BOOLEAN : dup_over(q, old, new, mark)
        \/ \E fd \in Fds : close(q, fd)
        \/ cloexec(q)
        \/ \E child \in Procs : clone(q, child)

DescriptorSpec == DescriptorInit /\ [][DescriptorNext]_descVars

-----------------------------------------------------------------------------
DescriptorTypeOK ==
    /\ desc \in [Procs -> [Slot -> [handle : Handles \cup {NoHandle}, cloexec : BOOLEAN]]]
    /\ tables \in [Procs -> SUBSET (1..L1)]
    /\ procs \subseteq Procs
    /\ ref_count \in [Handles -> 0..MaxRefs]
    /\ live \subseteq Handles
    /\ ret \in [proc : Procs \cup {NoHandle}, fd : Fds \cup {0},
                handle : Handles \cup {NoHandle}, lowest : BOOLEAN]
    /\ desc_ok \in BOOLEAN

\* The assertions of Descriptor::assign, Descriptor::close, Handle::release and
\* clone hold whatever calls the processes make.
NoDescriptorPanic == desc_ok

\* The reference count of a handle is the number of descriptors of all processes
\* that hold it, so the handle is closed with the last of them: never while a
\* descriptor still leads to it, and never forgotten.  No assertion fails on the
\* way.
HandlesMatchDescriptors ==
    /\ DescriptorTypeOK
    /\ NoDescriptorPanic
    /\ \A h \in Handles :
        ref_count[h] = Cardinality({d \in Procs \X Slot : desc[d[1]][d[2]].handle = h})
    /\ live = {h \in Handles : ref_count[h] > 0}

\* The number a call returns leads to the handle it opened, though alloc counts
\* entries and get divides by the table size; and open and dup take the lowest
\* free number, also when dup over a high number has allocated a later
\* second-level table first.
ReturnedFdFinds ==
    /\ ret # NoReturn => get(ret.proc, ret.fd).handle = ret.handle
    /\ ret.lowest => \A fd \in Fds : fd < ret.fd => is_open(get(ret.proc, fd))
=============================================================================
