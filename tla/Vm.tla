--------------------------------- MODULE Vm ---------------------------------
(***************************************************************************)
(* The address spaces of user processes (user/vm.cxx): the list of areas   *)
(* of each process and the page map it keeps in step (x86_64/mmu.c), as    *)
(* the system calls virtual_map, virtual_unmap and fork change them.       *)
(*                                                                         *)
(* Addresses and lengths are in pages: the system calls align them.        *)
(***************************************************************************)
EXTENDS VmAreas

CONSTANTS
    Procs,          \* every process that can ever be created
    Prots,          \* the protections that programs ask for
    SplitOverwrite, \* do programs map over the middle of an area?
    TightHint       \* do programs give hints whose gap is too short?

ASSUME VmAssumption ==
    /\ Prots \subseteq Prot
    /\ SplitOverwrite \in BOOLEAN
    /\ TightHint \in BOOLEAN

VARIABLES
    areas,      \* VM::first and what follows, for each process
    page_map,   \* VM::page_map: the present pages and their modes
    alive,      \* the processes that exist
    vm_ok       \* no assert of vm.cxx failed, no panic of mmu.c

vmVars == <<areas, page_map, alive, vm_ok>>

-----------------------------------------------------------------------------
\* mmu_assign: every page of the range gets a frame, and none may have one.
AssignOk(map, b, e) == DOMAIN map \cap (b..(e - 1)) = {}

mmu_assign(map, b, e, mode) ==
    [p \in DOMAIN map \cup (b..(e - 1)) |-> IF p \in b..(e - 1) THEN mode ELSE map[p]]

mmu_clear(map, b, e) == Restrict(map, DOMAIN map \ (b..(e - 1)))

\* Link list as the areas of q and give the range from b to e its pages in map,
\* unless it is mapped without any access.
install(q, list, map, b, e, prot) ==
    /\ areas' = [areas EXCEPT ![q] = list]
    /\ page_map' = [page_map EXCEPT ![q] =
            IF prot = {} THEN map ELSE mmu_assign(map, b, e, prot_to_mode(prot))]
    /\ vm_ok' = (prot = {} \/ AssignOk(map, b, e))
    /\ UNCHANGED alive

-----------------------------------------------------------------------------
CanCall(q) == vm_ok /\ q \in alive

\* With MAP_FIXED_NOREPLACE; EEXIST if the range is taken
alloc_fixed_noreplace(q, b, e, prot) ==
    /\ CanCall(q)
    /\ InLimits(b, e)
    /\ ~Taken(areas[q], b, e)
    /\ install(q, InsertAt(areas[q], InsertSlot(areas[q], b), NewArea(1, b, e, prot)),
               page_map[q], b, e, prot)

\* With MAP_FIXED: what the range holds is replaced.
alloc_fixed_overwrite(q, b, e, prot) ==
    LET route == vm_clear_for_insert(areas[q], b, e)
    IN  /\ CanCall(q)
        /\ InLimits(b, e)
        /\ SplitOverwrite \/ ~Splits(areas[q], b, e)
        /\ install(q, route.before \o <<NewArea(1, b, e, prot)>> \o route.after,
                   mmu_clear(page_map[q], b, e), b, e, prot)

\* VM::free, and what is left of MAP_FIXED when there is no memory
\* for the new area because the spare one went into a split
free(q, b, e) ==
    LET route == vm_clear_for_insert(areas[q], b, e)
    IN  /\ CanCall(q)
        /\ b < e /\ e <= ADDR_MAX
        /\ areas' = [areas EXCEPT ![q] = route.before \o route.after]
        /\ page_map' = [page_map EXCEPT ![q] = mmu_clear(@, b, e)]
        /\ UNCHANGED <<alive, vm_ok>>

\* Without a flag; page 0 is no hint.
alloc_movable(q, asked, n, prot) ==
    LET hint == IF asked < ADDR_MIN \/ asked >= ADDR_MAX THEN DefaultHint ELSE asked
        list == <<ListBegin>> \o areas[q]
    IN  /\ CanCall(q)
        /\ hint + n <= ADDR_MAX
        /\ \E r \in Regions(list, hint, n) :
            LET b == clamp(hint, list[r].end, NextBegin(list, r))
                linked == InsertAt(list, r + 1, NewArea(1, b, b + n, prot))
            IN  /\ TightHint \/ b + n <= NextBegin(list, r)
                /\ install(q, Tail(merge_regions_after(linked, r)), page_map[q], b, b + n, prot)

\* VM::clone, called by SYSCALL(fork)
clone(q, child) ==
    /\ CanCall(q)
    /\ child \notin alive
    /\ alive' = alive \cup {child}
    /\ areas' = [areas EXCEPT ![child] = areas[q]]
    /\ page_map' = [page_map EXCEPT ![child] = page_map[q]]
    /\ UNCHANGED vm_ok

-----------------------------------------------------------------------------
\* VM::init for the first process
VmInit ==
    /\ \E q \in Procs : alive = {q}
    /\ areas = [q \in Procs |-> << >>]
    /\ page_map = [q \in Procs |-> [p \in {} |-> {}]]
    /\ vm_ok = TRUE

\* SYSCALL(virtual_map): the flags choose how the address is meant
virtual_map(q) ==
    \E prot \in Prots, b \in Page :
        \/ \E e \in 1..ADDR_MAX : alloc_fixed_noreplace(q, b, e, prot)
        \/ \E e \in 1..ADDR_MAX : alloc_fixed_overwrite(q, b, e, prot)
        \/ \E n \in 1..ADDR_MAX : alloc_movable(q, b, n, prot)

\* SYSCALL(virtual_unmap)
virtual_unmap(q) == \E b \in Page, e \in 1..ADDR_MAX : free(q, b, e)

VmNext ==
    \E q \in Procs :
        \/ virtual_map(q)
        \/ virtual_unmap(q)
        \/ \E child \in Procs : clone(q, child)

VmSpec == VmInit /\ [][VmNext]_vmVars

-----------------------------------------------------------------------------
VmTypeOK ==
    /\ areas \in [Procs -> Seq(Area)]
    /\ \A q \in Procs : DOMAIN page_map[q] \subseteq Page /\ Range(page_map[q]) \subseteq Mode
    /\ alive \subseteq Procs
    /\ vm_ok \in BOOLEAN

\* No call makes the kernel panic: mmu.c never finds a page table entry in use
\* when it assigns one ("cannot assign over existing page table entry").
NoMapPanic == vm_ok

\* The list is sorted and no areas overlap, however calls split, trim, drop and
\* merge them; every walk over the list relies on it to stop where it does.
AreasOrdered ==
    /\ VmTypeOK
    /\ \A q \in Procs :
        /\ \A i \in DOMAIN areas[q] : areas[q][i].begin < areas[q][i].end
        /\ \A i, j \in DOMAIN areas[q] : i < j => areas[q][i].end <= areas[q][j].begin

\* The areas of q that hold page p
Holding(q, p) ==
    {i \in DOMAIN areas[q] : areas[q][i].begin <= p /\ p < areas[q][i].end}

\* The page map is what the list of areas says: a page is present exactly when it
\* lies in an area with access, and then with that area's mode.  So no call makes
\* mmu.c assign over an entry in use, which panics.
PagesMatchAreas ==
    /\ NoMapPanic
    /\ \A q \in Procs, p \in Page :
        /\ p \in DOMAIN page_map[q] <=>
                \E i \in Holding(q, p) : "USER" \in areas[q][i].flags
        /\ p \in DOMAIN page_map[q] =>
                \A i \in Holding(q, p) : areas[q][i].flags = page_map[q][p]

\* The pages of each process as a program sees them
Mapped ==
    [q \in Procs |->
        IF q \notin alive THEN [p \in {} |-> {}]
        ELSE [p \in Page |-> {areas[q][i].flags : i \in Holding(q, p)}]]

Spaces == INSTANCE AddressSpace WITH
    Mode <- {prot_to_mode(prot) : prot \in Prots}, space <- Mapped

\* Seen from a program, each call changes one range of its own pages, all alike,
\* and nothing else: neither a neighbouring area nor another process.
ImplementsAddressSpace == Spaces!Spec
=============================================================================
