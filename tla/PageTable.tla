------------------------------ MODULE PageTable ------------------------------
(***************************************************************************)
(* The translation tables of an address space (x86_64/mmu.c).              *)
(*                                                                         *)
(* A page map pm is a function from the nodes of the tree of tables to the *)
(* frame and flags of the entry that points there. A node is <<depth, i>>: *)
(* <<0, v>> is the frame of page v, <<PT, i>> the page table that holds    *)
(* its entry, up to <<PML4, 0>>, the top. Only the user half is modelled.  *)
(***************************************************************************)
EXTENDS KernelMemory, Lists

CONSTANT TABLE_ENTRY_COUNT

ASSUME PageTableAssumption == TABLE_ENTRY_COUNT \in Nat /\ TABLE_ENTRY_COUNT > 1

PML4 == 4

PDPT == 3

PT == 1

\* The pages below a node of depth d: 1 << virt_shift
PagesBelow(d) ==
    LET n == TABLE_ENTRY_COUNT
    IN  CASE d = 0 -> 1
          [] d = PT -> n
          [] d = 2 -> n * n
          [] d = PDPT -> n * n * n
          [] d = PML4 -> n * n * n * n

\* The entries of the top table that are user space reach up to here.
UserPages == PagesBelow(PML4) \div 2

INTERMEDIATE == {"USER", "WRITE", "EXEC"}

\* The node of depth d on the way to page v: table_index, at every level above
Node(d, v) == <<d, v \div PagesBelow(d)>>

Top == Node(PML4, 0)

Entry(frame, flags) == [frame |-> frame, flags |-> flags]

\* The nodes below the top that assign and clone visit in the pages from b to e: a
\* table before what it holds
TopDown(b, e) ==
    Firsts([i \in 1..(4 * (e - b)) |-> Node(PDPT - ((i - 1) % 4), b + ((i - 1) \div 4))])

\* The same for clear: a table after what it holds
BottomUp(b, e) ==
    Lasts([i \in 1..(4 * (e - b)) |-> Node((i - 1) % 4, b + ((i - 1) \div 4))])

Pages(pm) == {n[2] : n \in {n \in DOMAIN pm : n[1] = 0}}

-----------------------------------------------------------------------------
\* memset of mmu_alloc_page
ZeroPages(k, frames) ==
    [k EXCEPT !.memory = [f \in Frames |-> IF f \in frames THEN Zeroes ELSE @[f]]]

\* mmu_alloc_page once for each node of the sequence. The kernel panics when the
\* list of free frames ends before that: ok is FALSE.
mmu_alloc_pages(k, nodes) ==
    LET n == Len(nodes)
        taken == SubSeq(k.free_list, 1, n)
    IN  IF n > Len(k.free_list)
        THEN [k |-> [k EXCEPT !.free_list = << >>], frame |-> << >>, ok |-> FALSE]
        ELSE [k |-> ZeroPages([k EXCEPT !.free_list = SubSeq(@, n + 1, Len(@))], Range(taken)),
              frame |-> [node \in Range(nodes) |->
                            taken[CHOOSE i \in 1..n : nodes[i] = node]],
              ok |-> TRUE]

\* A fresh top table: the kernel half is copied, the user half is empty.
mmu_create_address_space(k) ==
    LET new == mmu_alloc_pages(k, <<Top>>)
    IN  [k |-> new.k, pm |-> [n \in {Top} |-> Entry(new.frame[n], INTERMEDIATE)], ok |-> new.ok]

\* What a step of mmu.c leaves: the frames, the page map and whether it panicked
Mapped(k, pm, panic) == [k |-> k, pm |-> pm, panic |-> panic]

\* The asserts that every caller of mmu.c has to meet
validate_limits(b, e) == b < e /\ e <= UserPages

\* Frames for the pages from b to e, with the tables on the way that are missing
mmu_assign(k, pm, b, e, flags) ==
    LET new == mmu_alloc_pages(k, Without(TopDown(b, e), DOMAIN pm))
    IN  IF ~validate_limits(b, e) THEN Mapped(k, pm, "assert")
        ELSE IF Pages(pm) \cap (b..(e - 1)) # {} THEN Mapped(k, pm, "exists")
        ELSE IF ~new.ok THEN Mapped(new.k, pm, "oom")
        ELSE Mapped(new.k,
                    [n \in DOMAIN pm \cup DOMAIN new.frame |->
                        IF n \in DOMAIN pm THEN pm[n]
                        ELSE Entry(new.frame[n], IF n[1] = 0 THEN flags ELSE INTERMEDIATE)],
                    "none")

\* Mutant: a table is given back as soon as the range reaches it.
Emptied_any(pm, n, b, e) ==
    \E v \in b..(e - 1) : v \in Pages(pm) /\ Node(n[1], v) = n

\* clear leaves nothing below n: every page there is in the range.
Emptied(pm, n, b, e) ==
    \A v \in Pages(pm) : Node(n[1], v) = n => v \in b..(e - 1)

\* The pages from b to e and the tables that hold nothing else are given back.
mmu_clear(k, pm, b, e) ==
    LET gone == Within(BottomUp(b, e), {n \in DOMAIN pm : Emptied(pm, n, b, e)})
    IN  IF ~validate_limits(b, e) THEN Mapped(k, pm, "assert")
        ELSE Mapped(free_pages(k, [i \in DOMAIN gone |-> pm[gone[i]].frame]),
                    Restrict(pm, DOMAIN pm \ Range(gone)), "none")

mmu_destroy_address_space(k, pm) ==
    free_page(mmu_clear(k, pm, 0, UserPages).k, pm[Top].frame)

\* The copy of each page goes to the frame of its node.
CopyOf(k, pm, frame) ==
    Mapped([k EXCEPT !.memory = [f \in Frames |->
                IF \E v \in Pages(pm) : frame[Node(0, v)] = f
                THEN k.memory[pm[CHOOSE n \in DOMAIN pm : n[1] = 0 /\ frame[n] = f].frame]
                ELSE @[f]]],
           [n \in DOMAIN pm |-> Entry(frame[n], pm[n].flags)], "none")

\* The nodes of the user half in the order in which they are copied
CloneNodes(pm) == <<Top>> \o Within(TopDown(0, UserPages), DOMAIN pm)

\* A copy of the user half, with copies of its pages
mmu_clone_address_space(k, pm) ==
    LET new == mmu_alloc_pages(k, CloneNodes(pm))
    IN  IF ~new.ok THEN Mapped(new.k, pm, "oom") ELSE CopyOf(new.k, pm, new.frame)

\* The walk of the tables: the frame of page v, physical address 0 if there is none
virt_to_phys(pm, v) ==
    IF \A d \in 0..PML4 : Node(d, v) \in DOMAIN pm THEN pm[Node(0, v)].frame ELSE NULL
=============================================================================
