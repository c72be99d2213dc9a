------------------------------- MODULE Process -------------------------------
(***************************************************************************)
(* Processes and their memory: user/process.cxx and user/vm.cxx on top of  *)
(* the page tables of x86_64/mmu.c and the allocators of mem/, with every  *)
(* frame and every kernel object accounted for. What programs see of it,   *)
(* private memory, is PrivateMemory.                                       *)
(*                                                                         *)
(* The kernel is not preempted: a system call is one step. An allocation   *)
(* can fail in the middle of it, and what was done so far is undone by     *)
(* destructors, or stays, or the kernel panics, as the code says.          *)
(***************************************************************************)
EXTENDS PageTable, ThreadTree, VmAreas

CONSTANTS
    Procs,              \* every process that can ever be created
    First,              \* the one that user_init creates
    Ranges,             \* the ranges of pages that programs map and unmap
    Prots,              \* the protections they ask for
    Touched,            \* the pages they write and send
    Budgets,            \* the frames of the machine, what rng can return and bounds
                        \* on the calls of each kind
    OverwriteCached     \* do programs map over pages whose translation is cached?

ASSUME ProcessAssumption ==
    /\ First \in Procs
    /\ ADDR_MAX = UserPages
    /\ \A r \in Ranges : r[1] \in 0..(ADDR_MAX - 1) /\ r[2] \in Nat /\ r[1] < r[2]
    /\ Prots \subseteq Prot
    /\ Touched \subseteq 0..(ADDR_MAX - 1)
    /\ \A u \in Budgets : u.frames \in 1..(FrameCount - 1) /\ u.rng \subseteq Int
    /\ OverwriteCached \in BOOLEAN
    /\ {"Process", "VM_area", "table_l1l0", "Thread", "FXSave_region"} \subseteq DOMAIN SizeOf

VARIABLES
    kmem,       \* the state of pmm.c and alloc.c, and what the frames hold
    proc,       \* the Process objects
    cr3,        \* the process whose address space is loaded
    tlb,        \* the translations of it that the CPU has cached
    status,     \* "running", or why the kernel stopped: "oom", "wild", "endless"
    budget      \* one of Budgets, with the calls that are left

vars == <<kmem, proc, cr3, tlb, status, budget>>

NoTranslation == [v \in {} |-> NULL]

\* No process yet: `at` is the address of the Process object.
NoProcess ==
    [at |-> NULL, page_map |-> [n \in {} |-> {}], areas |-> << >>, threads |-> EmptyTree,
     context |-> [t \in {} |-> {}], tables |-> << >>, cloexec |-> FALSE]

\* Physical page 0 is no frame of the list; the firmware left something there.
PageZero == <<"page zero">>

Holds(frame) == IF frame = NULL THEN PageZero ELSE kmem.memory[frame]

-----------------------------------------------------------------------------
\* What a call leaves of the frames and of the process that made it
Outcome(k, p, panic) == [k |-> k, p |-> p, panic |-> panic]

\* mmu_assign for an area that is linked, unless it is mapped without any access
Assigned(k, p, b, e, prot) ==
    LET m == mmu_assign(k, p.page_map, b, e, prot_to_mode(prot))
    IN  IF prot = {} THEN Outcome(k, p, "none")
        ELSE Outcome(m.k, [p EXCEPT !.page_map = m.pm], m.panic)

alloc_fixed_noreplace(k, p, b, e, prot) ==
    LET new == kalloc(k, "VM_area")
    IN  IF ~InLimits(b, e) \/ new.at = NULL THEN Outcome(k, p, "none")
        ELSE IF Taken(p.areas, b, e) THEN Outcome(kfree(new.k, new.at, "VM_area"), p, "none")
        ELSE Assigned(new.k,
                [p EXCEPT !.areas = InsertAt(@, InsertSlot(@, b), NewArea(new.at, b, e, prot))],
                b, e, prot)

\* The areas that vm_clear_for_insert unlinks
Dropped(list, b, e) == Within(list, {a \in Range(list) : find_overlap(a, b, e) = "Whole"})

\* vm_clear_for_insert and mmu_clear: the spare area is used for a split or given
\* back. The list is left in two parts.
Cleared(k, p, b, e) ==
    LET spare == kalloc(k, "VM_area")
        route == vm_clear_for_insert(p.areas, b, e)
        split == Splits(p.areas, b, e)
        dropped == Dropped(p.areas, b, e)
        freed == kfree_each(spare.k, [i \in DOMAIN dropped |-> dropped[i].at], "VM_area")
        m == mmu_clear(IF split THEN freed ELSE kfree(freed, spare.at, "VM_area"),
                       p.page_map, b, e)
    IN  [ok |-> spare.at # NULL, k |-> m.k, pm |-> m.pm, panic |-> m.panic, before |-> route.before,
         after |-> IF split THEN [route.after EXCEPT ![2].at = spare.at] ELSE route.after]

\* c is what Cleared leaves: with nothing in the range ...
Vacated(c, p) ==
    Outcome(c.k, [p EXCEPT !.page_map = c.pm, !.areas = c.before \o c.after], c.panic)

\* ... or with a new area there, unless there is no memory for it
Replaced(c, p, b, e, prot) ==
    LET new == kalloc(c.k, "VM_area")
        rest == Vacated(c, p)
    IN  IF new.at = NULL \/ c.panic # "none" THEN rest
        ELSE Assigned(new.k,
                [rest.p EXCEPT !.areas = c.before \o <<NewArea(new.at, b, e, prot)>> \o c.after],
                b, e, prot)

alloc_fixed_overwrite(k, p, b, e, prot) ==
    LET c == Cleared(k, p, b, e)
    IN  IF ~InLimits(b, e) \/ ~c.ok THEN Outcome(k, p, "none") ELSE Replaced(c, p, b, e, prot)

\* VM::free
free(k, p, b, e) ==
    LET c == Cleared(k, p, b, e)
    IN  IF e > ADDR_MAX \/ ~c.ok THEN Outcome(k, p, "none") ELSE Vacated(c, p)

\* The place that alloc_movable finds for n pages near hint: the region after which
\* the area goes, and its begin
Places(list, hint, n) ==
    {[r |-> r, b |-> clamp(hint, list[r].end, NextBegin(list, r))] : r \in Regions(list, hint, n)}

\* Page 0 is no hint.
Hint(asked) == IF asked < ADDR_MIN \/ asked >= ADDR_MAX THEN DefaultHint ELSE asked

alloc_movable(k, p, asked, n, prot) ==
    LET hint == Hint(asked)
        list == <<ListBegin>> \o p.areas
        new == kalloc(k, "VM_area")
        place == CHOOSE x \in Places(list, hint, n) : TRUE
        linked == InsertAt(list, place.r + 1, NewArea(new.at, place.b, place.b + n, prot))
        merged == merge_regions_after(linked, place.r)
        a == Assigned(new.k, [p EXCEPT !.areas = Tail(merged)], place.b, place.b + n, prot)
        unlinked == [i \in 1..(Len(linked) - Len(merged)) |-> linked[place.r + i].at]
    IN  IF hint + n > ADDR_MAX \/ new.at = NULL THEN Outcome(k, p, "none")
        ELSE IF Places(list, hint, n) = {}
        THEN Outcome(kfree(new.k, new.at, "VM_area"), p, "none")
        ELSE [a EXCEPT !.k = kfree_each(@, unlinked, "VM_area")]

\* Thread_context: the tables that are loaded when the thread runs, and where its
\* floating point state is kept
cpu_context_initialise_user(top, fpu) == [page_map_top |-> top, fpu |-> fpu]

\* The same for a copy of the thread that runs
cpu_context_clone_current(current, fpu) == [page_map_top |-> current.page_map_top, fpu |-> fpu]

\* Mutant: without memory for its floating point state the thread is not given back.
spawn_thread_kept(k, p, priority) ==
    LET both == kalloc_each(k, <<"Thread", "FXSave_region">>)
        thread == both.at[1]
        context == cpu_context_initialise_user(p.page_map[Top].frame, both.at[2])
    IN  IF ~both.ok THEN Outcome(both.k, p, "none")
        ELSE Outcome(both.k,
                     [p EXCEPT !.threads = insert(@, thread, priority),
                               !.context = [t \in DOMAIN @ \cup {thread} |->
                                                IF t = thread THEN context ELSE @[t]]],
                     "none")

\* A thread, its floating point state and its place in the tree
spawn_thread(k, p, priority) ==
    LET both == kalloc_each(k, <<"Thread", "FXSave_region">>)
        thread == both.at[1]
        context == cpu_context_initialise_user(p.page_map[Top].frame, both.at[2])
    IN  IF ~both.ok THEN Outcome(kfree_each(both.k, both.at, "Thread"), p, "none")
        ELSE Outcome(both.k,
                     [p EXCEPT !.threads = insert(@, thread, priority),
                               !.context = [t \in DOMAIN @ \cup {thread} |->
                                                IF t = thread THEN context ELSE @[t]]],
                     "none")

-----------------------------------------------------------------------------
\* fork allocates these objects, in this order, once the page map is copied.
CloneTypes(p) ==
    [i \in DOMAIN p.areas |-> "VM_area"] \o [i \in DOMAIN p.tables |-> "table_l1l0"]
        \o <<"Thread", "FXSave_region">>

\* ~Thread, then ~Descriptor_table: the objects after those of the areas
Unspawned(k, p, objects) ==
    LET a == Len(p.areas)
        t == Len(p.tables)
        threads == SubSeq(objects, a + t + 1, Len(objects))
        tables == SubSeq(objects, a + 1, Min({a + t, Len(objects)}))
    IN  kfree_each(kfree_each(k, threads, "Thread"), Reverse(tables), "table_l1l0")

\* ~VM: the page map, then the areas
Unmapped(k, p, pm, objects) ==
    kfree_each(mmu_destroy_address_space(k, pm),
               SubSeq(objects, 1, Min({Len(p.areas), Len(objects)})), "VM_area")

\* ~VM of an empty VM: its page map is at physical address 0, which is walked, taken
\* as a map without entries, and freed. This is the list after the first time.
PageZeroFreed(k) == [k EXCEPT !.free_list = <<NULL>> \o @]

\* The destructors after a failure of fork: of the thread, of the descriptor table,
\* of the address space, then the process object itself. Two of them may never return.
\* A handle with its cloexec bit is used as a pointer: "wild". And ~VM ends with
\* *this = {}. By the language that makes an empty VM and destroys it, which ends with
\* *this = {} in turn: "endless", physical page 0 is freed again and again. A compiler
\* that assigns without a temporary, as gcc does, goes on.
Undone(k, p, at, pm, objects, temporary) ==
    LET unspawned == Unspawned(k, p, objects)
        unmapped == Unmapped(unspawned, p, pm, objects)
    IN  IF p.cloexec /\ Len(objects) >= Len(p.areas) THEN Outcome(unspawned, NoProcess, "wild")
        ELSE IF temporary THEN Outcome(PageZeroFreed(unmapped), NoProcess, "endless")
        ELSE Outcome(kfree(unmapped, at, "Process"), NoProcess, "none")

\* The process that a fork without a failure makes of p, whose thread `current` runs
Child(p, current, at, pm, objects, priority) ==
    LET a == Len(p.areas)
        t == Len(p.tables)
        thread == objects[a + t + 1]
        copied == cpu_context_clone_current(p.context[current], objects[a + t + 2])
    IN  [at |-> at, page_map |-> pm,
         areas |-> [i \in DOMAIN p.areas |-> [p.areas[i] EXCEPT !.at = objects[i]]],
         threads |-> insert_root(EmptyTree, thread, priority),
         context |-> [x \in {thread} |-> [copied EXCEPT !.page_map_top = pm[Top].frame]],
         tables |-> SubSeq(objects, a + 1, a + t),
         cloexec |-> p.cloexec]

\* Process::fork
Forked(k, p, current, priority, temporary) ==
    LET new == kalloc(k, "Process")
        m == mmu_clone_address_space(new.k, p.page_map)
        objects == kalloc_each(m.k, CloneTypes(p))
    IN  IF new.at = NULL THEN Outcome(k, NoProcess, "none")
        ELSE IF m.panic # "none" THEN Outcome(m.k, NoProcess, m.panic)
        ELSE IF ~objects.ok THEN Undone(objects.k, p, new.at, m.pm, objects.at, temporary)
        ELSE Outcome(objects.k, Child(p, current, new.at, m.pm, objects.at, priority), "none")

-----------------------------------------------------------------------------
\* try_user_init: a process with a page of stack, a thread and a descriptor of the
\* init program that is closed on exec
UserInit(k, priority) ==
    LET new == kalloc(k, "Process")
        space == mmu_create_address_space(new.k)
        stack == alloc_movable(space.k, [NoProcess EXCEPT !.at = new.at, !.page_map = space.pm],
                               0, 1, {"READ", "WRITE"})
        started == spawn_thread(stack.k, [stack.p EXCEPT !.cloexec = TRUE], priority)
        short == \/ new.at = NULL
                 \/ ~space.ok
                 \/ stack.panic # "none"
                 \/ stack.p.areas = << >>
                 \/ DOMAIN started.p.context = {}
    IN  IF short THEN Outcome(k, NoProcess, "oom") ELSE started

\* A memory map with this many usable frames, and one between them that is not
MemoryMap(frames) ==
    LET half == frames \div 2
    IN  <<[type |-> "usable", base |-> PAGE_SIZE, length |-> half],
          [type |-> "reserved", base |-> (half + 1) * PAGE_SIZE, length |-> 1],
          [type |-> "usable", base |-> (half + 2) * PAGE_SIZE, length |-> frames - half]>>

\* Left out: a machine without the memory to start the init program
Init ==
    /\ budget \in Budgets
    /\ \E priority \in budget.rng :
        \E started \in {UserInit(BootMemory(MemoryMap(budget.frames)), priority)} :
            /\ started.panic = "none"
            /\ kmem = started.k
            /\ proc = [q \in Procs |-> IF q = First THEN started.p ELSE NoProcess]
    /\ cr3 = First
    /\ tlb = NoTranslation
    /\ status = "running"

alive == {q \in Procs : proc[q].at # NULL}

Runs(q) == status = "running" /\ q \in alive /\ cr3 = q

Spend(kind) == budget[kind] > 0 /\ budget' = [budget EXCEPT ![kind] = @ - 1]

Commit(q, r) ==
    /\ kmem' = r.k
    /\ proc' = [proc EXCEPT ![q] = r.p]
    /\ status' = IF r.panic = "none" THEN "running" ELSE r.panic

\* SYSCALL(virtual_map). Left out: the overwrite that splits an area and the hint
\* whose gap is too short, which runs vm_split and vm_hint are about.
virtual_map(q) ==
    /\ Runs(q)
    /\ Spend("map")
    /\ \E r \in Ranges, prot \in Prots :
        \/ Commit(q, alloc_fixed_noreplace(kmem, proc[q], r[1], r[2], prot))
        \/ /\ ~Splits(proc[q].areas, r[1], r[2])
           /\ OverwriteCached \/ DOMAIN tlb \cap (r[1]..(r[2] - 1)) = {}
           /\ Commit(q, alloc_fixed_overwrite(kmem, proc[q], r[1], r[2], prot))
        \/ /\ \A place \in Places(<<ListBegin>> \o proc[q].areas, Hint(r[1]), r[2] - r[1]) :
                place.b + (r[2] - r[1]) <= NextBegin(<<ListBegin>> \o proc[q].areas, place.r)
           /\ Commit(q, alloc_movable(kmem, proc[q], r[1], r[2] - r[1], prot))
    /\ UNCHANGED <<cr3, tlb>>

\* Mutant: the translations stay cached.
Reload_not == tlb

\* mmu_reload_address_space
Reload == NoTranslation

\* SYSCALL(virtual_unmap)
virtual_unmap(q) ==
    /\ Runs(q)
    /\ Spend("map")
    /\ \E r \in Ranges : Commit(q, free(kmem, proc[q], r[1], r[2]))
    /\ tlb' = Reload
    /\ UNCHANGED cr3

\* SYSCALL(thread_spawn)
thread_spawn(q) ==
    /\ Runs(q)
    /\ Spend("spawn")
    /\ \E priority \in budget.rng : Commit(q, spawn_thread(kmem, proc[q], priority))
    /\ UNCHANGED <<cr3, tlb>>

\* SYSCALL(fork)
fork(q, child) ==
    /\ Runs(q)
    /\ child \notin alive
    /\ Spend("fork")
    /\ \E priority \in budget.rng, current \in DOMAIN proc[q].context, temporary \in BOOLEAN :
            Commit(child, Forked(kmem, proc[q], current, priority, temporary))
    /\ UNCHANGED <<cr3, tlb>>

\* Descriptor_table::alloc makes an indirect table when the direct slots are in use.
descriptors_grow(q) ==
    LET new == kalloc(kmem, "table_l1l0")
    IN  /\ Runs(q)
        /\ Spend("open")
        /\ Commit(q, IF new.at = NULL THEN Outcome(kmem, proc[q], "none")
                     ELSE Outcome(new.k, [proc[q] EXCEPT !.tables = Append(@, new.at)], "none"))
        /\ UNCHANGED <<cr3, tlb>>

\* SYSCALL(exec_flush), its descriptors
exec_flush(q) ==
    /\ Runs(q)
    /\ Spend("open")
    /\ proc' = [proc EXCEPT ![q].cloexec = FALSE]
    /\ UNCHANGED <<kmem, cr3, tlb, status>>

\* The scheduler runs another process: mmu_set_address_space_opt
switch(q) ==
    /\ status = "running"
    /\ q \in alive \ {cr3}
    /\ Spend("switch")
    /\ cr3' = q
    /\ tlb' = NoTranslation
    /\ UNCHANGED <<kmem, proc, status>>

\* The frames that an access of q to page v may reach: the one of a cached
\* translation, or the one in the tables
Translations(q, v, cached) ==
    {cached[x] : x \in DOMAIN cached \cap {v}}
        \cup ({virt_to_phys(proc[q].page_map, v)} \ {NULL})

Writable(q, v, cached) ==
    \/ v \in DOMAIN cached
    \/ v \in Pages(proc[q].page_map) /\ "WRITE" \in proc[q].page_map[Node(0, v)].flags

\* A write of content to page v reaches a frame and leaves the translation cached.
WriteTo(q, v, cached, content) ==
    \E frame \in Translations(q, v, cached) :
        /\ kmem' = [kmem EXCEPT !.memory[frame] = content]
        /\ tlb' = [x \in DOMAIN cached \cup {v} |-> IF x = v THEN frame ELSE cached[x]]

\* The program writes to a page of its own: the page's name is what it writes.
store(q, v) ==
    /\ Runs(q)
    /\ Spend("store")
    /\ Writable(q, v, tlb)
    /\ WriteTo(q, v, tlb, <<q, v>>)
    /\ UNCHANGED <<proc, cr3, status>>

\* memcpy_user_user_catch_fault, one page: the destination's address space is
\* loaded, the source is found in the source's tables.
memcpy_user_user(q, v, source, w) ==
    LET cached == IF cr3 = q THEN tlb ELSE NoTranslation
    IN  /\ status = "running"
        /\ {q, source} \subseteq alive /\ q # source
        /\ Spend("copy")
        /\ cr3' = q
        /\ IF Writable(q, v, cached)
           THEN WriteTo(q, v, cached, Holds(virt_to_phys(proc[source].page_map, w)))
           ELSE tlb' = cached /\ UNCHANGED kmem
        /\ UNCHANGED <<proc, status>>

Next ==
    \E q \in Procs :
        \/ virtual_map(q)
        \/ virtual_unmap(q)
        \/ thread_spawn(q)
        \/ \E child \in Procs : fork(q, child)
        \/ descriptors_grow(q)
        \/ exec_flush(q)
        \/ switch(q)
        \/ \E v \in Touched : store(q, v)
        \/ \E source \in Procs, v, w \in Touched : memcpy_user_user(q, v, source, w)

Spec == Init /\ [][Next]_vars

-----------------------------------------------------------------------------
FramesOf(q) == {proc[q].page_map[n].frame : n \in DOMAIN proc[q].page_map}

\* The kernel objects of process q, each with its type
Objects(q) ==
    LET p == proc[q]
    IN  UNION {{<<"Process", p.at>>},
               {<<"VM_area", p.areas[i].at>> : i \in DOMAIN p.areas},
               {<<"table_l1l0", p.tables[i]>> : i \in DOMAIN p.tables},
               {<<"Thread", t>> : t \in DOMAIN p.threads.node},
               {<<"FXSave_region", p.context[t].fpu>> : t \in DOMAIN p.context}}

InUse == UNION {Objects(q) : q \in alive}

ClassOf(type) == alloc_calc_size_class(SizeOf[type])

\* The entries of a class, in use or in the pool
Entries(class) ==
    {o[2] : o \in {o \in InUse : ClassOf(o[1]) = class}} \cup Range(kmem.pools[class])

PoolFrames(class) == {FrameOf(a) : a \in Entries(class)}

\* As long as the kernel runs every frame has exactly one use - it is free, or a
\* page or table of one process, or a page of one pool - and so has every entry of
\* a pool. Calls that fail half-way and return lose none and give none back twice.
\* The exception is a failed fork whose ~VM does not return: it stops the kernel, with
\* page 0 on the list of frames.
MemoryAccounted ==
    status = "running" =>
        /\ IsInjective(kmem.free_list)
        /\ \A class \in 0..9 : IsInjective(kmem.pools[class])
        /\ Len(kmem.free_list)
            + SumFunction([q \in Procs |-> Cardinality(DOMAIN proc[q].page_map)])
            + SumFunction([class \in 0..9 |-> Cardinality(PoolFrames(class))]) = budget.frames
        /\ UNION ({Range(kmem.free_list)} \cup {FramesOf(q) : q \in Procs}
                    \cup {PoolFrames(class) : class \in 0..9})
            = Range(BootMemory(MemoryMap(budget.frames)).free_list)
        /\ \A class \in 0..9 :
            LET used == {o \in InUse : ClassOf(o[1]) = class}
            IN  /\ Entries(class) = UNION {{f + i * EntrySize(class) :
                                        i \in 0..(PAGE_SIZE \div EntrySize(class) - 1)} :
                                    f \in PoolFrames(class)}
                /\ Cardinality(used) + Len(kmem.pools[class]) = Cardinality(Entries(class))

\* The most frames that a fork of q can take: one for each table and page, and one
\* for each object whose pool is empty
ForkFrames(q) ==
    Len(CloneNodes(proc[q].page_map)) + 1 + Len(CloneTypes(proc[q]))

\* The kernel stops only for want of memory: in mmu_alloc_page when every frame is
\* taken, or in the destructors of a fork (an uncounted handle, or ~VM, which may
\* never return) that had fewer frames than its parent's tables, pages and objects.
\* Never does it assign a page that is there, whatever calls failed before.
StopsForMemoryOnly ==
    [][ \/ status' = "running"
        \/ status' = "oom" /\ kmem'.free_list = << >>
        \/ /\ status' \in {"wild", "endless"}
           /\ \E q \in alive : cr3 = q /\ Len(kmem.free_list) < ForkFrames(q) ]_vars

\* The tables of a process are those on the way to its pages and no others, and its
\* pages are those of its areas with access, with their flags.
TablesMatchAreas ==
    status = "running" => \A q \in alive :
        LET p == proc[q]
            held == [v \in 0..(ADDR_MAX - 1) |->
                        {i \in DOMAIN p.areas : p.areas[i].begin <= v /\ v < p.areas[i].end}]
        IN  /\ DOMAIN p.page_map =
                    {Top} \cup {Node(d, v) : d \in 0..PML4, v \in Pages(p.page_map)}
            /\ \A v \in DOMAIN held :
                {p.page_map[n].flags : n \in DOMAIN p.page_map \cap {Node(0, v)}}
                    = {p.areas[i].flags : i \in {i \in held[v] : p.areas[i].flags # {}}}

\* The threads whose addresses are above n
Above(tree, n) == {x \in DOMAIN tree.node : x > n}

\* The threads of every process can be walked in the order of their addresses from
\* begin with next, each once, no thread is below one of lower priority, and all run
\* in the address space of their process.
ThreadTreesSound ==
    \A q \in alive :
        LET tree == proc[q].threads
            threads == DOMAIN tree.node
        IN  /\ threads = DOMAIN proc[q].context
            /\ \A t \in threads : proc[q].context[t].page_map_top = proc[q].page_map[Top].frame
            /\ begin(tree) = Min(threads)
            /\ \A n \in threads :
                /\ next(tree, n) = IF Above(tree, n) = {} THEN NULL ELSE Min(Above(tree, n))
                /\ tree.node[n].parent # NULL =>
                        tree.node[n].priority <= tree.node[tree.node[n].parent].priority

\* What process q finds in its pages
MemoryOf(q) ==
    [v \in Pages(proc[q].page_map) |-> kmem.memory[proc[q].page_map[Node(0, v)].frame]]

Private == INSTANCE PrivateMemory WITH
    Page <- 0..(ADDR_MAX - 1), mem <- [q \in Procs |-> MemoryOf(q)]

\* Every process has memory of its own: what others map, unmap, write or fork never
\* shows in it, whatever frames are handed on between them, and a new page holds
\* nothing of its last user.
ImplementsPrivateMemory == Private!Spec
=============================================================================
