------------------------------ MODULE VmProofs ------------------------------
(***************************************************************************)
(* Theorems about address spaces of any size, for any set of processes     *)
(* and protections: areas stay sorted and apart (AreasOrdered), the page   *)
(* map says what they say (PagesMatchAreas), and every call does to the    *)
(* pages what AddressSpace promises.                                       *)
(***************************************************************************)
EXTENDS Vm, AreaLemmas

USE VmAreasAssumption DEF ADDR_MIN

-----------------------------------------------------------------------------
(***************************************************************************)
(* The invariant                                                           *)
(***************************************************************************)
VmInv ==
    /\ areas \in [Procs -> Seq(Area)] /\ \A q \in Procs : Ordered(areas[q])
    /\ page_map = [q \in Procs |-> page_map[q]]
    /\ \A q \in Procs : Match(areas[q], page_map[q])
    /\ alive \subseteq Procs
    /\ vm_ok = TRUE

\* A call changed the range from b to e of the process q, and nothing else.
Altered(q, b, e, content) ==
    /\ VmInv' /\ q \in alive /\ alive' = alive
    /\ b \in Page /\ e \in Nat /\ b < e /\ e <= ADDR_MAX
    /\ areas' = [areas EXCEPT ![q] = areas'[q]]
    /\ Changed(areas[q], b, e, content, areas'[q])

\* The first process has no areas.
LEMMA InitLemma == VmInit => VmInv
<1> SUFFICES ASSUME VmInit PROVE VmInv
  OBVIOUS
<1> USE DEF VmInit
<1>1. << >> \in Seq(Area)
  OBVIOUS
<1>2. \A q \in Procs : areas[q] = << >> /\ page_map[q] = [p \in {} |-> {}]
  OBVIOUS
<1>3. \A q \in Procs : Match(areas[q], page_map[q])
  BY <1>2, EmptyOrdered DEF Match
<1>4. page_map = [q \in Procs |-> page_map[q]]
  OBVIOUS
<1> QED
  BY <1>1, <1>2, <1>3, <1>4, EmptyOrdered DEF VmInv

\* The areas and the pages of one process change in step.
LEMMA StepLemma ==
    ASSUME VmInv, NEW q \in alive, NEW b \in Page, NEW e \in Nat, b < e, e <= ADDR_MAX,
           NEW content, NEW list, NEW map, Match(list, map),
           Changed(areas[q], b, e, content, list),
           areas' = [areas EXCEPT ![q] = list], page_map' = [page_map EXCEPT ![q] = map],
           alive' = alive, vm_ok' = TRUE
    PROVE  Altered(q, b, e, content)
<1>1. q \in Procs /\ Ordered(list) /\ list \in Seq(Area)
  BY DEF VmInv, Changed, Ordered
<1>2. /\ areas' \in [Procs -> Seq(Area)] /\ areas'[q] = list
      /\ \A x \in Procs : x # q => areas'[x] = areas[x]
  BY <1>1 DEF VmInv
<1>3. /\ page_map' = [x \in Procs |-> page_map'[x]] /\ page_map'[q] = map
      /\ \A x \in Procs : x # q => page_map'[x] = page_map[x]
  BY <1>1 DEF VmInv
<1>4. \A x \in Procs : Ordered(areas'[x]) /\ Match(areas'[x], page_map'[x])
  BY <1>1, <1>2, <1>3 DEF VmInv
<1>5. VmInv'
  BY <1>2, <1>3, <1>4 DEF VmInv
<1> QED
  BY <1>2, <1>5 DEF Altered

\* The common end of the three ways to map
LEMMA InstallLemma ==
    ASSUME VmInv, NEW q \in alive, NEW b \in Nat, NEW e \in Nat, InLimits(b, e),
           NEW prot \in Prot, NEW mid, NEW map, Match(mid, map), Unheld(mid, b, e), NEW list,
           Changed(mid, b, e, {prot_to_mode(prot)}, list),
           Changed(areas[q], b, e, {prot_to_mode(prot)}, list),
           install(q, list, map, b, e, prot)
    PROVE  Altered(q, b, e, {prot_to_mode(prot)})
<1> DEFINE got == IF prot = {} THEN map ELSE mmu_assign(map, b, e, prot_to_mode(prot))
<1>1. AssignOk(map, b, e) /\ Match(list, got)
  <2>1. got = IF prot = {} THEN map ELSE MapWith(map, b, e, prot_to_mode(prot))
    BY DEF mmu_assign, MapWith
  <2> HIDE DEF got
  <2> QED
    BY <2>1, AssignMatchLemma DEF AssignOk
<1>2. /\ areas' = [areas EXCEPT ![q] = list] /\ page_map' = [page_map EXCEPT ![q] = got]
      /\ alive' = alive /\ vm_ok' = TRUE
  BY <1>1 DEF install
<1>3. b \in Page /\ b < e /\ e <= ADDR_MAX
  BY DEF InLimits, Page
<1> HIDE DEF got
<1> QED
  BY <1>1, <1>2, <1>3, StepLemma

\* The address that stands for those of all areas
LEMMA AddressLemma == 1 \in Address
  BY DEF Address

\* One lemma for each call
LEMMA NoreplaceStep ==
    ASSUME VmInv, NEW q \in Procs, NEW b \in Page, NEW e \in 1..ADDR_MAX, NEW prot \in Prot,
           alloc_fixed_noreplace(q, b, e, prot)
    PROVE  Altered(q, b, e, {prot_to_mode(prot)})
<1> DEFINE list == InsertAt(areas[q], InsertSlot(areas[q], b), NewArea(1, b, e, prot))
<1>1. /\ q \in alive /\ InLimits(b, e) /\ ~Taken(areas[q], b, e)
      /\ install(q, list, page_map[q], b, e, prot)
  BY DEF alloc_fixed_noreplace, CanCall
<1>2. b \in Nat /\ e \in Nat /\ Ordered(areas[q]) /\ Match(areas[q], page_map[q])
  BY DEF VmInv, Page
<1>3. Unheld(areas[q], b, e) /\ Changed(areas[q], b, e, {prot_to_mode(prot)}, list)
  BY <1>1, <1>2, AddressLemma, NoreplaceLemma
<1> HIDE DEF list
<1> QED
  BY <1>1, <1>2, <1>3, InstallLemma

LEMMA OverwriteStep ==
    ASSUME VmInv, ~SplitOverwrite, NEW q \in Procs, NEW b \in Page, NEW e \in 1..ADDR_MAX,
           NEW prot \in Prot, alloc_fixed_overwrite(q, b, e, prot)
    PROVE  Altered(q, b, e, {prot_to_mode(prot)})
<1> DEFINE s == vm_clear_for_insert(areas[q], b, e).before
           t == vm_clear_for_insert(areas[q], b, e).after
           mid == s \o t
           map == mmu_clear(page_map[q], b, e)
           list == s \o <<NewArea(1, b, e, prot)>> \o t
<1>1. /\ q \in alive /\ InLimits(b, e) /\ ~Splits(areas[q], b, e)
      /\ install(q, list, map, b, e, prot)
  BY DEF alloc_fixed_overwrite, CanCall
<1>2. b \in Nat /\ e \in Nat /\ b < e /\ Ordered(areas[q]) /\ Match(areas[q], page_map[q])
  BY <1>1 DEF VmInv, Page, InLimits
<1>3. Changed(areas[q], b, e, {}, mid)
  BY <1>2, FreeLemma
<1>4. Match(mid, map)
  <2>1. map = MapWithout(page_map[q], b, e)
    BY DEF mmu_clear, Restrict, MapWithout
  <2> HIDE DEF mid, map
  <2> QED
    BY <1>2, <1>3, <2>1, ClearMatchLemma
<1>5. Unheld(mid, b, e) /\ Changed(mid, b, e, {prot_to_mode(prot)}, list)
  <2>1. Leaves(areas[q], b, e, s, t)
    BY <1>2, ClearLemma
  <2> HIDE DEF s, t
  <2> QED
    BY <1>1, <1>2, <2>1, AddressLemma, OverwriteLemma
<1> HIDE DEF mid, map, list
<1>6. Changed(areas[q], b, e, {prot_to_mode(prot)}, list)
  BY <1>3, <1>5 DEF Changed
<1> QED
  BY <1>1, <1>2, <1>4, <1>5, <1>6, InstallLemma

LEMMA FreeStep ==
    ASSUME VmInv, NEW q \in Procs, NEW b \in Page, NEW e \in 1..ADDR_MAX, free(q, b, e)
    PROVE  Altered(q, b, e, {})
<1> DEFINE list == vm_clear_for_insert(areas[q], b, e).before
                     \o vm_clear_for_insert(areas[q], b, e).after
           map == mmu_clear(page_map[q], b, e)
<1>1. /\ q \in alive /\ b < e /\ e <= ADDR_MAX /\ areas' = [areas EXCEPT ![q] = list]
      /\ page_map' = [page_map EXCEPT ![q] = map] /\ alive' = alive /\ vm_ok' = TRUE
  BY DEF free, CanCall, VmInv
<1>2. b \in Nat /\ e \in Nat /\ Ordered(areas[q]) /\ Match(areas[q], page_map[q])
  BY DEF VmInv, Page
<1>3. Changed(areas[q], b, e, {}, list)
  BY <1>1, <1>2, FreeLemma
<1> HIDE DEF list
<1>4. Match(list, map)
  <2>1. map = MapWithout(page_map[q], b, e)
    BY DEF mmu_clear, Restrict, MapWithout
  <2> HIDE DEF map
  <2> QED
    BY <1>2, <1>3, <2>1, ClearMatchLemma
<1> HIDE DEF map
<1> QED
  BY <1>1, <1>2, <1>3, <1>4, StepLemma

LEMMA MovableStep ==
    ASSUME VmInv, ~TightHint, NEW q \in Procs, NEW asked \in Page, NEW n \in 1..ADDR_MAX,
           NEW prot \in Prot, alloc_movable(q, asked, n, prot)
    PROVE  \E b \in Page, e \in Nat : Altered(q, b, e, {prot_to_mode(prot)})
<1> DEFINE hint == IF asked < ADDR_MIN \/ asked >= ADDR_MAX THEN DefaultHint ELSE asked
           headed == <<ListBegin>> \o areas[q]
<1>1. hint \in Nat
  BY DEF Page
<1>2. Ordered(areas[q]) /\ Match(areas[q], page_map[q])
  BY DEF VmInv
<1>3. Headed(headed) /\ \A p \in Nat : \A m : Covers(headed, p, m) <=> Covers(areas[q], p, m)
  BY <1>2, HeadOnLemma, HeadHoldsLemma
<1>4. /\ q \in alive
      /\ \E r \in Regions(headed, hint, n) :
            LET b == clamp(hint, headed[r].end, NextBegin(headed, r))
            IN  /\ b + n <= NextBegin(headed, r)
                /\ install(q, Tail(merge_regions_after(
                        InsertAt(headed, r + 1, NewArea(1, b, b + n, prot)), r)),
                        page_map[q], b, b + n, prot)
  BY DEF alloc_movable, CanCall
<1> HIDE DEF hint, headed
<1>5. PICK r \in Regions(headed, hint, n) :
            LET b == clamp(hint, headed[r].end, NextBegin(headed, r))
            IN  /\ b + n <= NextBegin(headed, r)
                /\ install(q, Tail(merge_regions_after(
                        InsertAt(headed, r + 1, NewArea(1, b, b + n, prot)), r)),
                        page_map[q], b, b + n, prot)
  BY <1>4
<1> DEFINE b == clamp(hint, headed[r].end, NextBegin(headed, r))
           list == Tail(merge_regions_after(InsertAt(headed, r + 1, NewArea(1, b, b + n, prot)), r))
<1>6. b + n <= NextBegin(headed, r) /\ install(q, list, page_map[q], b, b + n, prot)
  BY <1>5
<1>7. r \in 1..Len(headed)
  BY <1>3, RegionsLemma
<1>8. b \in Nat /\ headed[r].end <= b
  <2>1. /\ headed[r].end \in Nat /\ NextBegin(headed, r) \in Nat
        /\ headed[r].end <= NextBegin(headed, r)
    BY <1>3, <1>7, GapLemma
  <2> QED
    BY <1>1, <2>1, ClampLemma
<1> HIDE DEF b
<1>9. n \in Nat /\ n > 0 /\ b + n \in Nat
  BY <1>8
<1>10. /\ InLimits(b, b + n) /\ Unheld(areas[q], b, b + n)
       /\ Changed(areas[q], b, b + n, {prot_to_mode(prot)}, list)
  <2> DEFINE at == 1
  <2>1. at \in Address /\ b + n <= NextBegin(headed, r) /\ n \in Nat /\ n > 0
    BY <1>6, <1>9, AddressLemma
  <2> HIDE DEF at
  <2>2. /\ InLimits(b, b + n) /\ Unheld(areas[q], b, b + n)
        /\ Changed(areas[q], b, b + n, {prot_to_mode(prot)},
                Tail(merge_regions_after(InsertAt(headed, r + 1, NewArea(at, b, b + n, prot)), r)))
    BY ONLY <1>2, <1>3, <1>7, <1>8, <2>1, prot \in Prot, MovableLemma
  <2> QED
    BY <2>2 DEF at
<1> HIDE DEF list
<1>11. Altered(q, b, b + n, {prot_to_mode(prot)})
  BY <1>2, <1>4, <1>6, <1>8, <1>9, <1>10, InstallLemma
<1>12. b \in Page
  BY <1>8, <1>9, <1>10 DEF Page, InLimits
<1> QED
  BY <1>9, <1>11, <1>12

\* fork copies both the list and the page map.
LEMMA CloneStep ==
    ASSUME VmInv, NEW q \in Procs, NEW child \in Procs, clone(q, child)
    PROVE  VmInv'
<1>1. /\ areas' \in [Procs -> Seq(Area)] /\ areas'[child] = areas[q]
      /\ \A x \in Procs : x # child => areas'[x] = areas[x]
  BY DEF VmInv, clone
<1>2. /\ page_map' = [x \in Procs |-> page_map'[x]] /\ page_map'[child] = page_map[q]
      /\ \A x \in Procs : x # child => page_map'[x] = page_map[x]
  BY DEF VmInv, clone
<1>3. \A x \in Procs : Ordered(areas'[x]) /\ Match(areas'[x], page_map'[x])
  BY <1>1, <1>2 DEF VmInv
<1>4. alive' \subseteq Procs /\ vm_ok' = TRUE
  BY DEF VmInv, clone
<1> QED
  BY <1>1, <1>2, <1>3, <1>4 DEF VmInv

\* Every step is one of these.
LEMMA StepCases ==
    ASSUME VmInv, ~SplitOverwrite, ~TightHint, [VmNext]_vmVars
    PROVE  \/ \E q \in Procs, b \in Page, e \in Nat :
                \/ \E prot \in Prots : Altered(q, b, e, {prot_to_mode(prot)})
                \/ Altered(q, b, e, {})
           \/ VmInv' /\ \E q, child \in Procs : clone(q, child)
           \/ VmInv' /\ UNCHANGED vmVars
<1> DEFINE Goal ==
           \/ \E q \in Procs, b \in Page, e \in Nat :
                \/ \E prot \in Prots : Altered(q, b, e, {prot_to_mode(prot)})
                \/ Altered(q, b, e, {})
           \/ VmInv' /\ \E q, child \in Procs : clone(q, child)
           \/ VmInv' /\ UNCHANGED vmVars
<1>1. \A prot \in Prots : prot \in Prot
  BY VmAssumption
<1>2. ASSUME NEW q \in Procs, virtual_map(q)
      PROVE  Goal
  <2>1. PICK prot \in Prots, b \in Page :
            \/ \E e \in 1..ADDR_MAX : alloc_fixed_noreplace(q, b, e, prot)
            \/ \E e \in 1..ADDR_MAX : alloc_fixed_overwrite(q, b, e, prot)
            \/ \E n \in 1..ADDR_MAX : alloc_movable(q, b, n, prot)
    BY <1>2 DEF virtual_map
  <2>2. ASSUME NEW e \in 1..ADDR_MAX, alloc_fixed_noreplace(q, b, e, prot)
        PROVE  Goal
    <3>1. Altered(q, b, e, {prot_to_mode(prot)}) /\ e \in Nat
      BY <1>1, <2>2, NoreplaceStep
    <3> QED
      BY <3>1, Zenon
  <2>3. ASSUME NEW e \in 1..ADDR_MAX, alloc_fixed_overwrite(q, b, e, prot)
        PROVE  Goal
    <3>1. Altered(q, b, e, {prot_to_mode(prot)}) /\ e \in Nat
      BY <1>1, <2>3, OverwriteStep
    <3> QED
      BY <3>1, Zenon
  <2>4. ASSUME NEW n \in 1..ADDR_MAX, alloc_movable(q, b, n, prot)
        PROVE  Goal
    <3>1. \E c \in Page, e \in Nat : Altered(q, c, e, {prot_to_mode(prot)})
      BY <1>1, <2>4, MovableStep
    <3> QED
      BY <3>1
  <2> HIDE DEF Goal
  <2> QED
    BY <2>1, <2>2, <2>3, <2>4
<1>3. ASSUME NEW q \in Procs, virtual_unmap(q)
      PROVE  Goal
  <2>1. PICK b \in Page, e \in 1..ADDR_MAX : free(q, b, e)
    BY <1>3 DEF virtual_unmap
  <2>2. Altered(q, b, e, {})
    BY <2>1, FreeStep
  <2> QED
    BY <2>2
<1>4. ASSUME NEW q \in Procs, NEW child \in Procs, clone(q, child)
      PROVE  Goal
  BY <1>4, CloneStep
<1>5. ASSUME UNCHANGED vmVars
      PROVE  Goal
  BY <1>5 DEF vmVars, VmInv
<1> HIDE DEF Goal
<1>6. Goal
  BY <1>2, <1>3, <1>4, <1>5 DEF VmNext
<1> QED
  BY <1>6 DEF Goal

\* The invariant always holds.
LEMMA VmInvariance == ASSUME ~SplitOverwrite, ~TightHint PROVE VmSpec => []VmInv
<1>1. VmInit => VmInv
  BY InitLemma
<1>2. VmInv /\ [VmNext]_vmVars => VmInv'
  BY StepCases DEF Altered
<1> QED
  BY <1>1, <1>2, PTL DEF VmSpec

-----------------------------------------------------------------------------
(***************************************************************************)
(* The theorems                                                            *)
(***************************************************************************)
\* However calls split, trim, drop and merge areas, each list stays sorted and its
\* areas stay apart, if no call maps over the middle of an area and no hint lies in
\* a gap that is too short (the findings of runs vm_split and vm_hint).
THEOREM AreasStayOrdered ==
    ASSUME ~SplitOverwrite, ~TightHint
    PROVE  VmSpec => []AreasOrdered
<1>1. VmInv => AreasOrdered
  <2> SUFFICES ASSUME VmInv PROVE AreasOrdered
    OBVIOUS
  <2>1. \A q \in Procs : DOMAIN page_map[q] \subseteq Page /\ Range(page_map[q]) \subseteq Mode
    <3> SUFFICES ASSUME NEW q \in Procs, NEW p \in DOMAIN page_map[q]
                 PROVE  p \in Page /\ page_map[q][p] \in Mode
      BY DEF Range
    <3>1. Ordered(areas[q]) /\ Match(areas[q], page_map[q])
      BY DEF VmInv
    <3>2. PICK a \in Range(areas[q]) : a.flags = page_map[q][p]
      BY <3>1 DEF Match, Covers
    <3> QED
      BY <3>1, <3>2, OrderedLemma, AreaLemma DEF Match
  <2>2. VmTypeOK
    BY <2>1 DEF VmTypeOK, VmInv
  <2>3. \A q \in Procs : /\ \A i \in DOMAIN areas[q] : areas[q][i].begin < areas[q][i].end
                         /\ Sorted(areas[q])
    BY DEF VmInv, Ordered, WellFormed
  <2> QED
    BY <2>2, <2>3 DEF AreasOrdered, Sorted
<1> QED
  BY <1>1, VmInvariance, PTL

\* The places Holding names are those of the areas that hold the page.
LEMMA HoldingLemma ==
    ASSUME NEW q \in Procs, NEW p \in Page
    PROVE  \A m : Covers(areas[q], p, m) <=> \E i \in Holding(q, p) : areas[q][i].flags = m
  BY DEF Holding, Covers, Range

\* The page map never departs from what the areas say, so mmu.c never finds a page
\* table entry in use when it assigns one, under the same two conditions.
THEOREM PagesStayMatched ==
    ASSUME ~SplitOverwrite, ~TightHint
    PROVE  VmSpec => []PagesMatchAreas
<1>1. VmInv => PagesMatchAreas
  <2> SUFFICES ASSUME VmInv, NEW q \in Procs, NEW p \in Page
               PROVE  /\ p \in DOMAIN page_map[q] <=>
                            \E i \in Holding(q, p) : "USER" \in areas[q][i].flags
                      /\ p \in DOMAIN page_map[q] =>
                            \A i \in Holding(q, p) : areas[q][i].flags = page_map[q][p]
    BY DEF VmInv, PagesMatchAreas, NoMapPanic
  <2>1. Ordered(areas[q]) /\ Match(areas[q], page_map[q])
    BY DEF VmInv
  <2>2. p \in DOMAIN page_map[q] <=> \E i \in Holding(q, p) : "USER" \in areas[q][i].flags
    <3>1. p \in DOMAIN page_map[q] <=> \E m : Covers(areas[q], p, m) /\ "USER" \in m
      BY <2>1 DEF Match
    <3>2. (\E m : Covers(areas[q], p, m) /\ "USER" \in m)
            <=> \E i \in Holding(q, p) : "USER" \in areas[q][i].flags
      <4>1. \A m : Covers(areas[q], p, m) <=> \E i \in Holding(q, p) : areas[q][i].flags = m
        BY HoldingLemma
      <4> QED
        BY ONLY <4>1, ZenonT(30)
    <3> QED
      BY <3>1, <3>2
  <2>3. ASSUME p \in DOMAIN page_map[q], NEW i \in Holding(q, p)
        PROVE  areas[q][i].flags = page_map[q][p]
    <3>1. PICK j \in Holding(q, p) : areas[q][j].flags = page_map[q][p]
      BY <2>1, <2>3, HoldingLemma DEF Match
    <3>2. areas[q][i] = areas[q][j]
      <4>1. /\ areas[q][i] \in Range(areas[q]) /\ areas[q][j] \in Range(areas[q])
            /\ areas[q][i].begin <= p /\ p < areas[q][i].end
            /\ areas[q][j].begin <= p /\ p < areas[q][j].end
        BY <2>3, <3>1 DEF Holding, Range
      <4>2. p \in Nat
        BY DEF Page
      <4> QED
        BY <2>1, <4>1, <4>2, OneModeLemma
    <3> QED
      BY <3>1, <3>2
  <2> QED
    BY <2>2, <2>3
<1> QED
  BY <1>1, VmInvariance, PTL

-----------------------------------------------------------------------------
(***************************************************************************)
(* The refinement                                                          *)
(***************************************************************************)
\* The modes page p has in a list of areas: one or none
At(list, p) ==
    {list[i].flags : i \in {i \in DOMAIN list : list[i].begin <= p /\ p < list[i].end}}

\* At is Covers as a set.
LEMMA AtLemma ==
    ASSUME NEW list, NEW p
    PROVE  \A m : m \in At(list, p) <=> Covers(list, p, m)
  BY DEF At, Covers, Range

\* The refinement mapping, before a step and after it
LEMMA MappedLemma ==
    /\ DOMAIN Mapped = Procs
    /\ \A q \in Procs : Mapped[q] = IF q \notin alive THEN [p \in {} |-> {}]
                                    ELSE [p \in Page |-> At(areas[q], p)]
  BY DEF Mapped, Holding, At

LEMMA NextMappedLemma ==
    /\ DOMAIN Mapped' = Procs
    /\ \A q \in Procs : Mapped'[q] = IF q \notin alive' THEN [p \in {} |-> {}]
                                     ELSE [p \in Page |-> At(areas'[q], p)]
  BY DEF Mapped, Holding, At

\* A process exists when it has an address space, empty or not.
LEMMA AliveLemma ==
    ASSUME VmInv
    PROVE  Spaces!Alive = alive
<1>1. Page # {}
  <2>1. 0 \in Page
    BY DEF Page
  <2> QED
    BY <2>1
<1>2. \A q \in Procs : Mapped[q] # [p \in {} |-> {}] <=> q \in alive
  <2> TAKE q \in Procs
  <2>1. CASE q \in alive
    <3>1. DOMAIN Mapped[q] = Page
      BY <2>1, MappedLemma
    <3> QED
      BY <1>1, <2>1, <3>1
  <2>2. CASE q \notin alive
    BY <2>2, MappedLemma
  <2> QED
    BY <2>1, <2>2
<1> QED
  BY <1>2 DEF Spaces!Alive, Spaces!NoSpace, VmInv

\* A call that alters a range is Change of the abstract specification.
LEMMA ChangeLemma ==
    ASSUME VmInv, NEW q \in Procs, NEW b \in Page, NEW e \in Nat, NEW content,
           Altered(q, b, e, content)
    PROVE  Spaces!Change(q, b, e, content)
<1> DEFINE new == [p \in Page |-> IF b <= p /\ p < e THEN content ELSE Mapped[q][p]]
<1>1. q \in alive /\ alive' = alive /\ areas \in [Procs -> Seq(Area)]
      /\ areas' = [areas EXCEPT ![q] = areas'[q]]
      /\ Changed(areas[q], b, e, content, areas'[q])
  BY DEF Altered, VmInv
<1>2. Mapped'[q] = new
  <2>1. /\ Mapped[q] = [p \in Page |-> At(areas[q], p)]
        /\ Mapped'[q] = [p \in Page |-> At(areas'[q], p)]
    BY <1>1, MappedLemma, NextMappedLemma
  <2>2. ASSUME NEW p \in Page
        PROVE  At(areas'[q], p) = IF b <= p /\ p < e THEN content ELSE At(areas[q], p)
    <3>1. p \in Nat
      BY DEF Page
    <3>2. \A m : m \in At(areas'[q], p) <=>
                    IF b <= p /\ p < e THEN m \in content ELSE m \in At(areas[q], p)
      BY <1>1, <3>1, AtLemma DEF Changed
    <3> QED
      BY <3>2
  <2> QED
    BY <2>1, <2>2
<1>3. \A x \in Procs : x # q => Mapped'[x] = Mapped[x]
  <2> SUFFICES ASSUME NEW x \in Procs, x # q PROVE Mapped'[x] = Mapped[x]
    OBVIOUS
  <2>1. areas'[x] = areas[x] /\ alive' = alive
    BY <1>1
  <2>2. Mapped[x] = IF x \notin alive THEN [p \in {} |-> {}] ELSE [p \in Page |-> At(areas[x], p)]
    BY MappedLemma
  <2>3. Mapped'[x] = IF x \notin alive' THEN [p \in {} |-> {}]
                     ELSE [p \in Page |-> At(areas'[x], p)]
    BY NextMappedLemma
  <2> QED
    BY ONLY <2>1, <2>2, <2>3
<1>4. Mapped' = [Mapped EXCEPT ![q] = new]
  <2>1. Mapped = [x \in Procs |-> Mapped[x]] /\ Mapped' = [x \in Procs |-> Mapped'[x]]
    BY DEF Mapped
  <2> HIDE DEF new
  <2> QED
    BY <1>2, <1>3, <2>1
<1> QED
  BY <1>4 DEF Spaces!Change

\* clone is Fork of the abstract specification.
LEMMA ForkLemma ==
    ASSUME VmInv, NEW q \in Procs, NEW child \in Procs, clone(q, child)
    PROVE  child \notin alive /\ q \in alive /\ Spaces!Fork(q, child)
<1>1. /\ q \in alive /\ child \notin alive /\ alive' = alive \cup {child}
      /\ areas \in [Procs -> Seq(Area)] /\ areas' = [areas EXCEPT ![child] = areas[q]]
  BY DEF clone, CanCall, VmInv
<1>2. Mapped'[child] = Mapped[q]
  <2>1. areas'[child] = areas[q] /\ child \in alive'
    BY <1>1
  <2>2. Mapped[q] = [p \in Page |-> At(areas[q], p)]
    BY <1>1, MappedLemma
  <2>3. Mapped'[child] = [p \in Page |-> At(areas'[child], p)]
    BY <2>1, NextMappedLemma
  <2> QED
    BY ONLY <2>1, <2>2, <2>3
<1>3. \A x \in Procs : x # child => Mapped'[x] = Mapped[x]
  <2> SUFFICES ASSUME NEW x \in Procs, x # child PROVE Mapped'[x] = Mapped[x]
    OBVIOUS
  <2>1. areas'[x] = areas[x] /\ (x \in alive' <=> x \in alive)
    BY <1>1
  <2>2. Mapped[x] = IF x \notin alive THEN [p \in {} |-> {}] ELSE [p \in Page |-> At(areas[x], p)]
    BY MappedLemma
  <2>3. Mapped'[x] = IF x \notin alive' THEN [p \in {} |-> {}]
                     ELSE [p \in Page |-> At(areas'[x], p)]
    BY NextMappedLemma
  <2> QED
    BY ONLY <2>1, <2>2, <2>3
<1>4. Mapped' = [Mapped EXCEPT ![child] = Mapped[q]]
  <2>1. Mapped = [x \in Procs |-> Mapped[x]] /\ Mapped' = [x \in Procs |-> Mapped'[x]]
    BY DEF Mapped
  <2> QED
    BY <1>2, <1>3, <2>1
<1> QED
  BY <1>1, <1>4 DEF Spaces!Fork

\* Every call changes one range of pages of its own process, all of them to the
\* same thing, and nothing else, under the same two conditions.
THEOREM VmImplementsAddressSpace ==
    ASSUME ~SplitOverwrite, ~TightHint
    PROVE  VmSpec => ImplementsAddressSpace
<1>1. VmInit => Spaces!Init
  <2> SUFFICES ASSUME VmInit PROVE Spaces!Init
    OBVIOUS
  <2>1. PICK first \in Procs : alive = {first}
    BY DEF VmInit
  <2>2. \A p \in Page : At(<< >>, p) = {}
    BY DEF At
  <2>3. \A q \in Procs : areas[q] = << >>
    BY DEF VmInit
  <2>4. \A q \in Procs : Mapped[q] = IF q = first THEN [p \in Page |-> {}] ELSE [p \in {} |-> {}]
    <3> TAKE q \in Procs
    <3>1. CASE q = first
      <4>1. Mapped[q] = [p \in Page |-> At(<< >>, p)]
        BY <2>1, <2>3, <3>1, MappedLemma
      <4> QED
        BY <2>2, <3>1, <4>1
    <3>2. CASE q # first
      BY <2>1, <3>2, MappedLemma
    <3> QED
      BY <3>1, <3>2
  <2>5. Mapped = [q \in Procs |-> IF q = first THEN [p \in Page |-> {}] ELSE [p \in {} |-> {}]]
    <3>1. Mapped = [q \in Procs |-> Mapped[q]]
      BY DEF Mapped
    <3> QED
      BY <2>4, <3>1
  <2> QED
    BY <2>5 DEF Spaces!Init, Spaces!Unmapped, Spaces!NoSpace
<1>2. VmInv /\ [VmNext]_vmVars => [Spaces!Next]_Mapped
  <2> SUFFICES ASSUME VmInv, [VmNext]_vmVars PROVE [Spaces!Next]_Mapped
    OBVIOUS
  <2>1. ASSUME NEW q \in Procs, NEW b \in Page, NEW e \in Nat, NEW content,
               Altered(q, b, e, content)
        PROVE  /\ q \in Spaces!Alive
               /\ \E n \in {p \in Page : b <= p} : Spaces!Change(q, b, n + 1, content)
    <3>1. q \in alive /\ b < e /\ e <= ADDR_MAX /\ b \in Nat
      BY <2>1 DEF Altered, Page
    <3>2. PICK n \in Nat : e = n + 1
      <4>1. e - 1 \in Nat /\ e = (e - 1) + 1
        BY <3>1
      <4> QED
        BY <4>1
    <3>3. n \in {p \in Page : b <= p}
      BY <3>1, <3>2 DEF Page
    <3>4. Spaces!Change(q, b, e, content)
      BY <2>1, ChangeLemma
    <3> QED
      BY <3>1, <3>2, <3>3, <3>4, AliveLemma
  <2>2. ASSUME NEW q \in Procs, NEW b \in Page, NEW e \in Nat, NEW prot \in Prots,
               Altered(q, b, e, {prot_to_mode(prot)})
        PROVE  Spaces!Next
    <3>1. /\ q \in Spaces!Alive
          /\ \E n \in {p \in Page : b <= p} : Spaces!Change(q, b, n + 1, {prot_to_mode(prot)})
      BY <2>1, <2>2
    <3>2. prot_to_mode(prot) \in {prot_to_mode(x) : x \in Prots}
      OBVIOUS
    <3> QED
      BY <3>1, <3>2 DEF Spaces!Next
  <2>3. ASSUME NEW q \in Procs, NEW b \in Page, NEW e \in Nat, Altered(q, b, e, {})
        PROVE  Spaces!Next
    <3>1. /\ q \in Spaces!Alive
          /\ \E n \in {p \in Page : b <= p} : Spaces!Change(q, b, n + 1, {})
      BY <2>1, <2>3
    <3> QED
      BY <3>1 DEF Spaces!Next
  <2>4. ASSUME NEW q \in Procs, NEW child \in Procs, clone(q, child)
        PROVE  Spaces!Next
    <3>1. q \in Spaces!Alive /\ child \in Procs \ Spaces!Alive /\ Spaces!Fork(q, child)
      BY <2>4, ForkLemma, AliveLemma
    <3> QED
      BY <3>1 DEF Spaces!Next
  <2>5. ASSUME UNCHANGED vmVars
        PROVE  UNCHANGED Mapped
    BY <2>5 DEF vmVars, Mapped, Holding
  <2> QED
    BY <2>2, <2>3, <2>4, <2>5, StepCases
<1> QED
  BY <1>1, <1>2, VmInvariance, PTL DEF VmSpec, ImplementsAddressSpace, Spaces!Spec

=============================================================================
