------------------------------- MODULE VmAreas -------------------------------
(***************************************************************************)
(* The sorted list of areas of an address space (struct VM_area of         *)
(* user/vm.cxx): how a range lies to an area, how a range is cleared,      *)
(* where a new area goes and which areas become one. Pure operators on     *)
(* sequences of areas, shared by Vm and Process.                           *)
(*                                                                         *)
(* Addresses and lengths are in pages: the system calls align them.        *)
(***************************************************************************)
EXTENDS Lists, FiniteSetsExt

CONSTANTS
    ADDR_MAX,       \* MEM_LOW_HALF_MAX: the first page past user space
    DefaultHint     \* ADDR_DEFAULT_HINT

ADDR_MIN == 1

ASSUME VmAreasAssumption ==
    /\ ADDR_MAX \in Nat /\ ADDR_MAX > ADDR_MIN
    /\ DefaultHint \in ADDR_MIN..(ADDR_MAX - 1)

Prot == SUBSET {"READ", "WRITE", "EXEC"}

\* mmu_mode: what is set on top of MMU_MODE_DEFAULT
Mode == SUBSET {"USER", "WRITE", "EXEC"}

\* Addresses that can be mapped or unmapped; unmapping may name page 0.
Page == 0..(ADDR_MAX - 1)

\* Where an object can be: not at the null pointer
Address == Int \ {0}

\* `at` is the address of the VM_area object; Vm, which leaves the objects out, has 1.
Area == [at : Address, begin : Page, end : 1..ADDR_MAX, flags : Mode]

prot_to_mode(prot) ==
    (IF prot = {} THEN {} ELSE {"USER"}) \cup (prot \cap {"WRITE", "EXEC"})

-----------------------------------------------------------------------------
\* Mutant: an area is dropped whole when the range covers its begin.
find_overlap_whole(a, b, e) ==
    CASE e <= a.begin                   -> "After"
      [] e > a.begin /\ b >= a.end      -> "Before"
      [] b <= a.begin /\ a.begin < e /\ b < a.end -> "Whole"
      [] OTHER                          -> "Ends_with"

\* How the area a lies to the range from b to e
find_overlap(a, b, e) ==
    CASE e <= a.begin                               -> "After"
      [] e > a.begin /\ b >= a.end                  -> "Before"
      [] b <= a.begin /\ a.begin < e /\ e < a.end   -> "Starts_with"
      [] b <= a.begin /\ a.begin < a.end /\ e >= a.end -> "Whole"
      [] a.begin < b /\ b < a.end /\ e >= a.end     -> "Ends_with"
      [] a.begin < b /\ b < a.end /\ e < a.end      -> "Contains"

\* The first of the places S of list, or the one past its end
FirstOf(list, S) == Min(S \cup {Len(list) + 1})

\* Clear the range from b to e: the list comes back in two parts, with the route
\* where a new area can be linked between them.
vm_clear_for_insert(list, b, e) ==
    LET stop == FirstOf(list, {i \in DOMAIN list :
                    find_overlap(list[i], b, e) \in {"After", "Starts_with", "Contains"}})
        passed == Without(SubSeq(list, 1, stop - 1),
                    {a \in Range(list) : find_overlap(a, b, e) = "Whole"})
        at == list[stop]
        rest == SubSeq(list, stop + 1, Len(list))
    IN  [before |-> [i \in DOMAIN passed |->
                        IF find_overlap(passed[i], b, e) = "Ends_with"
                        THEN [passed[i] EXCEPT !.end = b] ELSE passed[i]],
         after |->
            IF stop > Len(list) THEN << >>
            ELSE CASE find_overlap(at, b, e) = "After" -> <<at>> \o rest
                   [] find_overlap(at, b, e) = "Starts_with" ->
                        <<[at EXCEPT !.begin = e]>> \o rest
                   [] find_overlap(at, b, e) = "Contains" ->
                        <<[at EXCEPT !.end = b], [at EXCEPT !.begin = e]>> \o rest]

\* Where vm_insert_area links a new area
InsertSlot(list, b) == FirstOf(list, {i \in DOMAIN list : b < list[i].end})

\* Mutant: only the begin of the range is compared.
Taken_begin(list, b, e) ==
    LET k == InsertSlot(list, b)
    IN  k <= Len(list) /\ b >= list[k].begin

\* vm_insert_area finds the range taken: EEXIST
Taken(list, b, e) ==
    LET k == InsertSlot(list, b)
    IN  k <= Len(list) /\ (b >= list[k].begin \/ e > list[k].begin)

\* Mutant: areas with the same flags are merged though they do not touch.
merge_regions_apart(list, r) ==
    IF r < Len(list) /\ list[r + 1].flags = list[r].flags
    THEN SubSeq(list, 1, r - 1)
            \o <<[list[r] EXCEPT !.end = list[r + 1].end]>>
            \o SubSeq(list, r + 2, Len(list))
    ELSE list

\* The areas that follow area r of the list, touch and have its flags become part
\* of it.
merge_regions_after(list, r) ==
    LET merged == {j \in (r + 1)..Len(list) : \A k \in (r + 1)..j :
                        list[k - 1].end = list[k].begin /\ list[k].flags = list[r].flags}
        last == Max(merged \cup {r})
    IN  SubSeq(list, 1, r - 1)
            \o <<[list[r] EXCEPT !.end = list[last].end]>>
            \o SubSeq(list, last + 1, Len(list))

-----------------------------------------------------------------------------
NewArea(at, b, e, prot) == [at |-> at, begin |-> b, end |-> e, flags |-> prot_to_mode(prot)]

InLimits(b, e) == ADDR_MIN <= b /\ b < e /\ e <= ADDR_MAX

Splits(list, b, e) == \E i \in DOMAIN list : find_overlap(list[i], b, e) = "Contains"

\* vm_list_begin, the list head of alloc_movable: no area has its flags.
ListBegin == [at |-> 0, begin |-> ADDR_MIN, end |-> ADDR_MIN, flags |-> {"LIST"}]

NextBegin(list, i) == IF i < Len(list) THEN list[i + 1].begin ELSE ADDR_MAX

space_after(list, i) == NextBegin(list, i) - list[i].end

\* The areas of list after which alloc_movable places n pages near hint: one, or
\* none if there is no room (ENOMEM).
Regions(list, hint, n) ==
    LET fit == {i \in DOMAIN list : space_after(list, i) >= n}
        above == {i \in fit : list[i].end >= hint}
        below == {i \in fit : \A j \in above : i < j}
        a == Min(above)
        r == Max(below)
    IN  IF above = {} /\ below = {} THEN {}
        ELSE IF below = {} \/ (above # {} /\ list[a].end - hint < hint - list[r].end)
        THEN {a}
        ELSE {r}

clamp(v, lo, hi) == IF v < lo THEN lo ELSE IF v > hi THEN hi ELSE v
=============================================================================
