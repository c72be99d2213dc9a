---------------------------- MODULE KernelMemory ----------------------------
(***************************************************************************)
(* The page frames of the machine (mem/pmm.c) and the kernel's pools of    *)
(* small objects (mem/alloc.c), as operators on their state, a record k:   *)
(*                                                                         *)
(*   k.free_list  pmm.free_list, the frames that are free, first to last   *)
(*   k.pools      pools[], the free entries of each size class             *)
(*   k.memory     what each frame holds, as far as programs can read it    *)
(*                                                                         *)
(* Addresses are numbers, and a frame is the address of its first byte.    *)
(***************************************************************************)
EXTENDS Integers, Sequences, FiniteSetsExt, SequencesExt

CONSTANTS
    PAGE_SIZE,
    FrameCount,     \* the most frames that the boot loader's memory map covers
    SizeOf          \* sizeof, for each type of kernel object

ASSUME KernelMemoryAssumption ==
    /\ \E c \in 0..9 : PAGE_SIZE = 8 * 2^c
    /\ FrameCount \in Nat
    /\ \A type \in DOMAIN SizeOf : SizeOf[type] \in 1..PAGE_SIZE

NULL == 0

Frames == {i * PAGE_SIZE : i \in 1..FrameCount}

FrameOf(address) == address - (address % PAGE_SIZE)

\* What programs may find in a page: zeroes, or what debug_memset left there
Zeroes == <<"zeroes">>

Junk == <<"junk">>

-----------------------------------------------------------------------------
\* A range of length frames from start on joins the end of the list
pmm_add_pages(k, start, length) ==
    [k EXCEPT !.free_list = @ \o [i \in 1..length |-> start + (i - 1) * PAGE_SIZE]]

\* An allocation answers with the state it leaves and the address, or NULL.
Answer(k, address) == [k |-> k, at |-> address]

alloc_page(k) ==
    IF k.free_list = << >> THEN Answer(k, NULL)
    ELSE Answer([k EXCEPT !.free_list = Tail(@), !.memory[Head(k.free_list)] = Junk],
                Head(k.free_list))

free_page(k, page) == [k EXCEPT !.free_list = <<page>> \o @, !.memory[page] = Junk]

\* free_page of each, first to last
free_pages(k, pages) ==
    [k EXCEPT !.free_list = Reverse(pages) \o @,
              !.memory = [f \in Frames |-> IF f \in Range(pages) THEN Junk ELSE @[f]]]

-----------------------------------------------------------------------------
\* The class whose entries, of 8 << class bytes, are the least that fit
alloc_calc_size_class(allocation) ==
    CASE allocation < 8         -> 0
      [] allocation > PAGE_SIZE -> -1
      [] OTHER                  -> Min({c \in 0..9 : allocation <= 8 * 2^c})

EntrySize(class) == 8 * 2^class

\* The first entry of a new page is the answer, the others become the pool,
\* the last of them first.
alloc_from_fresh_page(k, class) ==
    LET page == alloc_page(k)
        entries == PAGE_SIZE \div EntrySize(class)
    IN  IF page.at = NULL THEN page
        ELSE Answer([page.k EXCEPT !.pools[class] =
                        [i \in 1..(entries - 1) |-> page.at + (entries - i) * EntrySize(class)]],
                    page.at)

kalloc_class(k, class) ==
    IF k.pools[class] # << >>
    THEN Answer([k EXCEPT !.pools[class] = Tail(@)], Head(k.pools[class]))
    ELSE alloc_from_fresh_page(k, class)

kfree_class(k, address, class) == [k EXCEPT !.pools[class] = <<address>> \o @]

kalloc(k, type) == kalloc_class(k, alloc_calc_size_class(SizeOf[type]))

kfree(k, address, type) == kfree_class(k, address, alloc_calc_size_class(SizeOf[type]))

\* Objects of these types, one after the other until one cannot be had: TRY_ALLOC
Attempt(done, type) ==
    LET object == kalloc(done.k, type)
    IN  IF ~done.ok THEN done
        ELSE IF object.at = NULL THEN [done EXCEPT !.k = object.k, !.ok = FALSE]
        ELSE [done EXCEPT !.k = object.k, !.at = Append(@, object.at)]

kalloc_each(k, types) ==
    LET done[n \in 0..Len(types)] ==
            IF n = 0 THEN [k |-> k, at |-> << >>, ok |-> TRUE]
            ELSE Attempt(done[n - 1], types[n])
    IN  done[Len(types)]

\* kfree of each, first to last
kfree_each(k, addresses, type) ==
    [k EXCEPT !.pools[alloc_calc_size_class(SizeOf[type])] = Reverse(addresses) \o @]

\* bootloader_run_setup: the usable ranges of the boot loader's memory map are free.
\* The map has three entries.
BootMemory(memmap) ==
    LET add(k, entry) ==
            IF entry.type = "usable" THEN pmm_add_pages(k, entry.base, entry.length) ELSE k
        none == [free_list |-> << >>, pools |-> [class \in 0..9 |-> << >>],
                 memory |-> [page \in Frames |-> Junk]]
    IN  add(add(add(none, memmap[1]), memmap[2]), memmap[3])
=============================================================================
