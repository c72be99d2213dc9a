# Verification of fluke

TLA+ modules that model the kernel of this repository (`kernel/src`), its init
program (`programs/init.c`) and the parts of the C library (`system/libc/src`)
that it runs on, TLC configurations that check them on small instances, and
TLAPS proofs for any number of threads, processes, handles and frames. Paths below are relative to the
repository; kernel paths leave out `kernel/src/`.

## The system

fluke is a small x86-64 kernel. It runs on one CPU, and with interrupts
disabled from the moment it is entered (system call or interrupt) until it
leaves for a user thread or the idle loop. So one entry is one atomic step,
and the concurrency is that of user threads, devices and the clock, which meet
between two entries in any order. A failed `assert` or a `panic` stops the
machine.

| Component | State | Operations | Works with |
|---|---|---|---|
| Scheduler (`user/schedule.cxx`, `user/thread.cxx`, `containers/queue.c`) | thread states, run queue, sleep queue with deadlines, wait queues | ready, sleep, wait with timeout, wake, wake all, schedule | everything that blocks |
| Context switch (`x86_64/cpu.c`) | current thread, saved registers | save, restore and exit, idle | scheduler, IPC |
| Kernel entry (`x86_64/entry.c`) | - | timer and device interrupts, system calls | scheduler, IRQ handles |
| IRQ handles (`user/irq.cxx`, `x86_64/ioapic.c`) | claimed, occurred, waiters; mask of the line | claim, enable, wait, receive, close | scheduler, descriptors |
| IPC (`user/ipc.cxx`, `mem/memory.c`) | channel states and queues, who serves whom, closed | call, read, write, listen, respond, close | scheduler, context switch |
| Address spaces (`user/vm.cxx`, `x86_64/mmu.c`) | list of areas, page map | map (three ways), unmap, clone | system calls, fork |
| Descriptors (`user/descriptor.cxx`, `user/handle.cxx`) | two-level tables, close-on-exec marks, reference counts | open, dup, close, clone, cloexec | all handles, fork |
| Processes (`user/process.cxx`, `containers/tree.cxx`) | tree of threads | create, spawn, fork | all of the above |
| Page tables (`x86_64/mmu.c`) | tables of four levels, the TLB | assign, clear, clone, destroy, translate | address spaces, IPC copies |
| Memory (`mem/pmm.c`, `mem/alloc.c`) | free frames, pools | alloc, free | all of the above |
| Module files (`user/module.cxx`) | image, offset | open, read, seek | descriptors, loader, stdio |
| ELF loader (`share/elf_loader.c`) | the address space it fills, while it runs on its stack | map and read segments, flush | address spaces, module files |
| Init (`programs/init.c`, `programs/khashl.h`) | program counters, UART; streams, file map, line | terminal service; run hello, list the ramdisk, commands | IPC, IRQ handles, C library |
| C library: exec and stdio (`unistd/`, `stdio/`) | new stack; streams | `fexecve`, `fdopen`, `fread`, `fseek`, `getline`, ... | system calls |
| C library: malloc (`malloc.c`) | segments, bins, tries, dv, top, footprint | malloc, calloc, realloc, memalign, free, trim, options | mmap, munmap |

What is hard: a timeout that expires in the same entry in which an interrupt or
a close wakes the same thread; hand-offs of the CPU that bypass the run queue
(IPC switches straight from caller to server and back); interrupts lost while a
line is masked; copies between address spaces that fail when both threads have
already left their queues; lists of areas trimmed, split and merged in one
walk; reference counts across dup, fork, exec and close; allocations that fail
half-way through a fork or a map; translations that stay cached after their
frame has gone to somebody else; a program that is replaced by a loader running
on the stack it has just built; and an allocator whose state is spread over
boundary tags, bins and tries. `PROJECT.json` lists these hazards line by line.

What makes each part correct: every thread is linked exactly where its state
says and runs again; a wait ends with the reason that ended it; a call has one
server and one end; the page map is what the areas say; a handle lives exactly
as long as a descriptor leads to it; every frame and every kernel object has
exactly one use; a process sees its own memory and nothing else; a new program
starts with its image, its arguments and nothing of the old one; blocks of the
heap never overlap; and no assertion fails.

## Modules

`Schedule` is the base. Its one variable `sched` is a record of the scheduler's
state, and each C function is an operator from such records to such records
(`schedule_ready`, `set_timeout`, `schedule_wake`, ... under their own names),
composed as the code composes them. The field `ok` is cleared by a failed
assert, and a stopped kernel takes no step. `schedule` and `schedule_or_exit`
end an entry, so they are actions. Deadlines are kept relative to the clock
(`rem`), and a deadline that has passed is -1, which keeps the state finite
without bounding the run. The clock can move inside an entry too: the parameter
`d` is the time between the read in `set_timeout` and the one in
`wakeup_sleepers`.

- `Irq` adds the interrupt handles and the mask of each line. `device_edge` is
  the environment: an edge on a masked line is lost.
- `Ipc` adds one IPC object: channels, `ipc_caller`, and for each thread taking
  part the registers that matter (transfer mode, length, flags). The outcome of
  a copy between address spaces is a choice among those user memory allows.
- `Rpc` is the abstract promise of message passing: a call is accepted by one
  server, and only its response, or giving up before it was accepted, ends it.
  `Ipc` is checked to implement it (`ImplementsRpc`).
- `Tty` composes `Irq` and `Ipc` over one scheduler with the two server threads
  of `programs/init.c`, a client, and a UART.
- `VmAreas` has the operators of `user/vm.cxx` on a list of areas. `Vm` models
  address spaces with it, in pages: the list of areas in its order, and the page
  map as a function on the present pages. `AddressSpace` is its abstract
  promise: a call changes one range of one process, all of it alike.
- `Descriptor` models the two-level descriptor tables with the handles'
  reference counts.
- `KernelMemory` (free list and pools), `PageTable` (tables as a tree of nodes,
  each with its frame) and `ThreadTree` (the treap, with its pointers) are
  operators on their state. `Process` composes them with `VmAreas` into one
  machine: map, unmap, spawn, fork, open, stores, copies between processes, and
  switches of the address space, each call one step in which any allocation may
  fail. `tlb` holds the translations that the CPU may still use. `status` says
  why the kernel stopped: `oom` (`mmu_alloc_page` panics), `wild` or `endless` (a
  destructor of a failed fork, see the oddities below), or an assertion of `mmu.c`,
  which no run and no proof ever reaches. `PrivateMemory` is the abstract promise.
- `MallocChunk` (boundary tags, bins, tries), `MallocSys` (mmap, segments, trim,
  the insertion and removal of free chunks) and `Malloc` (the public calls)
  model `malloc.c` as the library builds it: `USE_LOCKS`, `HAVE_MORECORE`,
  `FOOTERS` and `DEBUG` 0 and no `mremap`. `do_check_malloc_state` and what it
  calls are translated too, as the invariant. `Heap` is the abstract promise.
- `ModuleFile` (module files and the descriptors of one process), `Stdio`
  (streams), `Hashl` (the hash map) and `Exec` (the stack of `fexecve`, the
  loader's reads and maps, what `start_main` finds) are operators; `InitProgram`
  is one process that runs through them from boot to the command loop. After a
  fork it goes on as either process: the two share nothing, which is what run
  `process` shows.
- `Lists` removes elements from a list, and selects the elements before, from and
  within given places, for the queues, the lists of areas and the page tables.
  `QueueLemmas` proves what the operators on sequences do, `AreaLemmas` what those
  of `VmAreas` do to a list of areas.
- `ScheduleProofs`, `IpcProofs`, `VmProofs`, `DescriptorProofs` and
  `ProcessProofs` prove theorems about the module each is named after, `TtyProofs`
  about `Irq` and `Tty`; they are described under Proofs. `MC*`: instances for TLC.
- Definitions commented as `Mutant` are plausible bugs of the code; each
  property is known to fail when one of them takes the place of the original.

## Runs

| Run | Instance | Shows |
|---|---|---|
| `schedule` | 3 threads, waits up to 2 | asserts hold; no thread lost, starved, overtaken, woken early or left oversleeping; sleeps end |
| `irq` | 3 threads, 1 line | the same with waits (`IrqSound`); interrupts latched or handed over, never both; every wait ends, with the right value |
| `ipc` | 3 threads, 1 channel, read and write faults | the same with hand-offs (`IpcSound`); one server per call, no circle, channel state, sizes, error codes, `Rpc` |
| `tty` | client, reader, writer, 2 channels, 1 line | servers keep the protocol; every read returns |
| `vm` | 2 processes, 3 pages to map, 2 modes | sorted areas, agreement of areas and page map, `AddressSpace` |
| `descriptor` | 2 processes, 2 handles, tables of 1 + 2 x 2 | exact reference counts, numbers that lead to their handle and are the lowest |
| `process` | 2 processes, tables of 2 entries, 8 to 24 frames | every frame and pool entry has one use, also after calls that failed half-way and returned; the kernel stops only for want of frames, and where; tables are those the areas need; thread trees are sorted, heap-ordered and walked in order; `PrivateMemory` |
| `malloc` | 12 pages of 256 bytes, five heaps, two calls from each | the checks of the DEBUG build hold; blocks are in chunks of their own and none leaks; the footprint is exact; malloc fails only when nothing fits; `Heap` |
| `init_program` | 16 programs, 26 argument lists, 9 archives, one failing allocation | main gets its image, its arguments, an aligned stack and nothing of the old program; a process ends, or goes wrong, only for want of memory or with an unfit program; the listing is that of the archive, and gives everything back |
| `ipc_relisten`, `vm_split`, `vm_hint` | | violations, see below |

The bounds. Three threads are one running, one waiting and one racing with
both: the longest chain the code has is server, its caller, and that caller's
own caller. One line and one channel suffice because handles and channels share
nothing but the scheduler. Waits of 1 and 2 units with steps of the clock of 0,
1 and 3 give deadlines equal, in order, out of order, and missed. Three pages
are what a split or a merge of neighbours needs. A first table of 1 and second
tables of 2 entries put every edge of the two-level arithmetic within five
numbers. `MaxRefs` bounds references, `RxMax` the UART, `MaxLen` the strings.

`process`: each element of `Budgets` is a machine with its number of frames and
the calls of each kind its programs make. Fourteen to twenty-one frames are
those with which a fork runs out of memory at each of its allocations in turn;
five spawns with three priorities give every rotation of the tree; tables of two
entries are emptied and refilled by single pages. `malloc`: word size, overheads
and alignments are those of the 64-bit build, while pages, granularity and the
thresholds are scaled down so that two calls cross every one of them; the five
heaps (`Warmups`) are an empty one, two with tries of different shapes, one with
small bins and dv, and one with three segments. mmap may fail or place memory
below or above, munmap may fail. `init_program`: one unit stands for a byte or
for a header field; a word is 2 units, a page 20, the new stack 40, `ARG_MAX` 24,
a block 3, with 4 streams and lines from 3 to 5, so that arguments fill the space
exactly and to one unit less, the map grows while it is filled, and getline
reallocates. `MaxFails` = 1 puts one failure at any allocation; `MaxLists` = 2
shows what a listing leaves to the next.

Three constants restrict what programs do, because without them the kernel
panics; each has a run that shows so:

- `RespondFirst`: servers respond before they listen again. Without it
  (`ipc_relisten`) `call_transfer` fails its own assertion
  (`user/ipc.cxx:123`). `Tty` runs with `RespondFirst = FALSE`: the servers of
  init.c keep to it by themselves.
- `SplitOverwrite`: programs do not map over the middle of an area. Without it
  (`vm_split`) the new area is linked before the lower half
  (`user/vm.cxx:87`), the list is unsorted, and a later call panics in
  `x86_64/mmu.c:231`.
- `TightHint`: hints leave room. Without it (`vm_hint`) the address is clamped
  to the begin of the next area (`user/vm.cxx:279`) and the same panic follows.

A fourth, `OverwriteCached`, is FALSE in `process`: programs do not map over a
page that they have used before and not unmapped. `virtual_map` does not reload
the address space (`user/syscall.cxx:206`, `virtual_unmap` does): with it TRUE, a store, a
`MAP_FIXED` over the same page and another store write to a freed frame, and
`ImplementsPrivateMemory` fails in three steps.

Fairness: the APIC timer is periodic and the clock never stops (weak fairness
of the timer interrupt and of `Tick`); nothing is assumed of user threads in
`schedule` and `irq`. In `tty` a pending interrupt is taken, keys are pressed
again and again, and a thread that gets the CPU time after time makes progress
(strong fairness of each program's steps): time slices are much longer than a
system call.

## Proofs

Every theorem holds for any set of threads, processes, handles or channels, any
size of tables and address spaces, and any timing. `PROJECT.json` lists which
property of which run each one states.

| Module | Proved | Assumed |
|---|---|---|
| `ScheduleProofs` | type, no failed assert, `QueuesMatchStates`; `NoOversleep`, `NoEarlyWake`, `RunQueueFifo` | `SchedAssumption` |
| `TtyProofs` | `IrqSound`, `LatchedMeansNoWaiter`; `WakeTellsWhy`, `InterruptReachesUser` | `SchedAssumption`, `IrqAssumption` |
| | `ServersKeepProtocol` | these, `IpcAssumption`, `TtyAssumption`; `Faults = {}` |
| `IpcProofs` | `IpcSound`, `CallingHasOneServer`, `ChannelTellsWhoWaits`, `NoCallCycle`; `DeliveryFits`, `CallEndsTellWhy`; the refinement of `Rpc` | the same for `Ipc`, and `RespondFirst` |
| | the same of the abstract specification: one server per call and no circle (`RpcSafe`) | `Nobody` is no thread |
| `VmProofs` | `AreasOrdered`, `PagesMatchAreas`; the refinement of `AddressSpace` | `VmAreasAssumption`, `VmAssumption`; `~SplitOverwrite`, `~TightHint` |
| `DescriptorProofs` | `HandlesMatchDescriptors`, `ReturnedFdFinds` | `DescriptorAssumption` |
| `ProcessProofs` | `StopsForMemoryOnly`, `TablesMatchAreas`; the refinement of `PrivateMemory` | `KernelMemoryAssumption`, `PageTableAssumption`, `VmAreasAssumption`, `ProcessAssumption`; for the refinement `~OverwriteCached` |

The named assumptions say that constants are numbers and finite sets of the
right kind. Those that restrict programs (`RespondFirst`, no split, no tight hint,
nothing mapped over a page in use) are hypotheses of the theorems, because
without them the properties are false: the runs `ipc_relisten`, `vm_split` and
`vm_hint`, and the three steps above, show it. `TtyAssumption` is what
`tty_setup` sets up (`init.c:104`): two servers, a channel for each, a line that is
no channel. `Faults = {}` says that the buffers of these programs are mapped, as
they are: those of the servers on their stacks, those of the client in its stdio
streams.

**Scheduler.** `SchedInv` says that the state is of its type, no assert has
failed, the queues agree with the thread states (`Consistent`), the sleepers
are sorted by deadline, and no thread is FLOATING. None of these is inductive
alone: asserts compare states with queue membership, membership moves with the
states, and `wakeup_sleepers` stops at the first sleeper that is not due, which
is right only in a sorted queue. All but the last conjunct (`Sound`) are kept by
every operator on its own, also in the middle of an entry when threads are
FLOATING; so there is one lemma per operator that says which threads it takes
up and puts down, and a system call is a composition after which none is left.

**Interrupt handles.** `IrqInv` adds that a latched interrupt has no waiter, and
`WaitersTimed`: whoever waits on a line sleeps too and has EAGAIN in R0 from
the start. The second is what makes `WakeTellsWhy` provable: a timeout leaves R0
alone, so its reason must be there beforehand.

**Message passing.** `IpcInv` adds `CallsAgree`, a conjunction of what the parts
of a call say of each other (threads in a call are not among the sleepers, they
wait on channels only, the state of a channel tells who is parked on it, callers
and servers point to each other, and each has the message of its role), and
`NoCallCycle`. Each operator of `ipc.cxx` is shown to be one of a few kinds of
step (nobody moved, joined a channel, met and delivered, met and failed, ended,
closed); the invariant is kept, and `Rpc` implemented, kind by kind. The loop of
`IPC_handle::close` is a function from numbers to states, and a lemma about sets
of numbers takes the place of induction. No circle can form because a server
accepts a call only while it holds none: it is the member of a set that nobody
in the set serves.

**The terminal.** Here `RespondFirst` is not assumed, so neither `IrqInv` nor
`IpcInv` is an invariant, and servers wait on a line and on channels in turn.
`TtyInv` ties the kernel's state to the programs' positions (`Agreed`): a channel
is empty or has one of its two parties; a server is about to listen, or parked on its
channel, or has the client's call, and which of these its `pc` tells; the client,
when it cannot go on, has the message of the call that its `pc` tells; only a thread
that waits on the line has a timeout. The last is why a reschedule keeps it: a
timeout can wake the reader out of its wait only, which it repeats. A server that
has the CPU and is not about to listen therefore has the client's call, and the client
makes one call at a time; so the other server has none, and each may treat its
own call alone.

**Address spaces.** `VmInv` says that each list is sorted and of well-formed
areas, and that the page map matches it. Every call is shown to be `Altered`: one
range of one process gets new content and all else stays. The lemmas follow the
code: what `find_overlap` answers; clearing a range, as the parts before and
after the area where the walk stops; linking into a gap; merging the areas that
touch, where the least area that ends past a page shows that no page is lost;
the head that `alloc_movable` puts before the list, whose flags keep it from
being merged. `AddressSpace` follows since a page has the modes of the areas
that hold it, and a sorted list holds it once.

**Descriptors.** `DescInv` says that counts are exact: the count of a handle is
the number of slots that hold it, over all processes. It needs that slots of
second-level tables that are not allocated are empty, else allocating one would
change a count, and that processes not yet created hold nothing, else fork
would. A step is a counting argument: one slot changed adds one to one set of
slots and takes one from another. `ReturnedFdFinds` rests on arithmetic: slots
and numbers correspond one to one and in order, for tables of any size, and the
number returned is that of the first closed slot.

**Processes.** `Inv` holds whatever call runs out of memory and wherever it does:
`FramesSound` (nothing is free twice, each page map is a tree whose tables are
exactly those on the way to a page, and the frames of the page maps are neither
free nor those of another process), `AreasFit` (while the kernel runs the pages of
a page map are those of a well-formed list of areas), and `StatusKnown`. The one
exception is written into `FramesSound`: when the status is `endless` all of this is
said of the list without its first element (`Clean`), which is page 0 (`Tainted`).
`StopsForMemoryOnly` is an action property and follows from `Inv` and one step.
It is an argument by counting: an allocation takes one frame at most and fails only
when there is none (`Allocates`), so a fork whose destructors ran had fewer frames
than nodes in its parent's page map, objects to clone and one more for the process
(`Wanted`). No object is at address 0 (`Address`), which tells a process from none. A walk of the
page map is by levels, and `kalloc_each` by a function on numbers; the lemmas say
what the walk leaves of a tree in terms of the places before and after the range,
and take a least counterexample where the code has a loop. A call that takes
frames only from the free list and writes to no frame but its own `Keeps` what
all others have; from that each call is `Called` (the memory of one process changes
in one range, that of no other) or `Bears` (a fork gives its child the content of
its parent), also when it stops half-way or undoes what it did. `PrivateMemory`
needs one thing more, `CachedSound`: what the TLB holds is still true. It is kept
because a page that stays mapped keeps its frame, because every call that takes
pages away reloads the address space, except a mapping over used pages, which
`~OverwriteCached` leaves out.

Only model-checked: liveness (`ReadyRuns`, `SleepEnds`, `IrqWaitEnds`,
`ReadReturns`), since the provers have neither fairness nor ENABLED.
`MemoryAccounted` and `ThreadTreesSound` of `Process`: the one is a sum over pools
and trees of tables, the other about rotations and a walk by recursion, and what
recursion computes needs induction over data, which the provers lack. For the same
reason `Malloc` and `InitProgram` with the modules they are made of.

## What the models keep of the code's oddities

- A failed fork runs the destructors in the order thread, second-level
  descriptor tables, address space, areas, process. A half-built process whose
  table holds a close-on-exec descriptor releases its handle through a pointer
  with the mark still in it (`user/descriptor.hxx:18`): the status `wild`. The misread
  count usually fails the assertion of `user/handle.cxx:35`; what follows is not modelled.
- `~VM` ends with `*this = {}` (`user/vm.cxx:327`). By the language that makes an empty
  VM and destroys it: its `~VM` walks and frees the page map at physical address 0 and
  then makes an empty VM in turn, without end. A compiler may see through the
  assignment: g++ 12, from -O0 to -O2, assigns the members, makes no
  temporary and returns. Both are in the model, as the choice `temporary` of `fork`.
  With a temporary every fork that fails after `owned<Process>::make` stops the
  kernel with page 0 on the list of frames: the status `endless`. `PageZeroFreed` is
  the list after the first turn (later turns tie page 0 to itself), and takes page 0
  for a map without entries; what a machine's firmware left there is unknown.
  `MemoryAccounted` speaks of calls that return, `StopsForMemoryOnly` says when this can
  happen, and `FramesSound` what else holds then.
- An IPC copy from an unmapped page reads physical page 0 (`mem/memory.c:61`);
  `PrivateMemory` allows that one content and no other.
- `malloc_set_footprint_limit(0)` sets no limit instead of the least one (an
  `else` is missing, `malloc.c:5373`), and a limit set before the first
  allocation is lost, since the granularity is still 0.
- `build_stack` clears its jump buffer with the rest of the builder
  (`fexecve.c:158`): arguments that do not fit, or no memory for the stack, end
  in a jump to address 0 (`crashed`).
- `kopen` returns `-ENOENT` where its caller tests for -1; `plus` is not
  initialised in `parse_mode_string`, so the model takes either value; a child
  whose `fexecve` fails goes on as a second init; a failed fork in `tty_setup`
  makes init its own terminal server; names that occur twice in an archive leak;
  when malloc fails for a file, the listing goes on at the wrong offset
  (`garbled`) or ends early.
- An exception of a user program panics the kernel (`x86_64/entry.c:96`): these
  are the ends `halted` (the loader's `fail`), `crashed` and `panicked`.

## Not modelled

Boot and hardware tables (straight-line, before anything runs concurrently);
console, fonts, formatted printing and the writing half of stdio (text for
people); the Forth interpreter (assembly, for debugging). Code without a caller:
`IPC::close`, `Tree::remove`, `mmu_edit`, `mmu_point1`, lookups, deletion and
shrinking of the hash map, mspaces and `malloc_inspect_all`. `fopen` of a path
and `openat` need a file server that the repository does not have. `dup3`, and
the wrappers that only move registers. `mallinfo` and `malloc_stats` only read.
`queue.c` and the lists of areas are sequences, not pointers. The run `process`
leaves out the two kinds of calls of `vm_split` and `vm_hint`.

## Plan

1. `Queue`: `containers/queue.c` at pointer level, shown to implement the
   sequences `Schedule` uses; the timeout list of `set_timeout` and `cancel`
   likewise.
2. The printing half of the C library (`vfprintf`) as a pure algorithm against a
   reference definition.
3. Proofs: the part of `MemoryAccounted` that needs no sum, that no frame has two
   uses, from `FramesSound` and the pools of `KernelMemory`.
