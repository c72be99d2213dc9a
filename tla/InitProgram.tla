---------------------------- MODULE InitProgram ----------------------------
(***************************************************************************)
(* One process from its first instruction on: the loader starts init       *)
(* (user/init.cxx, share/elf_loader.c), init sets up its terminal, forks a *)
(* child that executes hello, lists its ramdisk and reads commands         *)
(* (programs/init.c), through the C library.                               *)
(*                                                                         *)
(* fork makes two processes that share no memory (module Process): the     *)
(* model goes on with either of them.  malloc and the kernel may run out   *)
(* of memory at any call, MaxFails times; what malloc promises otherwise   *)
(* is module Heap.  The terminal answers every read (module Tty).          *)
(***************************************************************************)
EXTENDS Exec, Stdio, Hashl

CONSTANTS
    InitElf,        \* the module of init, as units
    Programs,       \* what the module /hello may be; << >> if there is none
    Archives,       \* what the module /initrd.tar may be
    Args,           \* what hello may be executed with: <<argv, envp>>
    BLOCK,          \* 512: a tar record is name, size and padding
    BootSpare,      \* 128: what try_user_init leaves above the stack pointer
    BootStack,      \* ADDR_DEFAULT_HINT
    StackMin,       \* 0x7e00'0000'0000: create_stack asks for a place above
    MaxFails,       \* bound on the allocations that fail
    MaxLists,       \* bound on the listings
    MaxLine         \* bound on the length of a command line

ASSUME InitProgramAssumption ==
    /\ \A a \in Archives : \A i \in DOMAIN a : a[i] \in Nat
    /\ InitElf \notin Programs
    /\ BLOCK \in Nat /\ BLOCK >= 2
    /\ BootSpare >= 3 * WORD /\ FRAME + BootSpare <= PAGE_SIZE

VARIABLES
    pc,         \* the next step; or how the process ended
    files,      \* the descriptor table
    streams,    \* streams[]
    space,      \* the memory of the process, as far as the loader sets it up
    exe,        \* what is executed: the image, fd, argv, envp, the stack
    load,       \* load_elf_segments: i and last_loaded_address
    ls,         \* ls_ramdisk: the archive, the stream, the map, the record
    heap,       \* the blocks that malloc has given to ls_ramdisk
    line,       \* getdelim: the line so far and its capacity
    fails       \* how many allocations have failed

vars == <<pc, files, streams, space, exe, load, ls, heap, line, fails>>

NoExe == [image |-> << >>, fd |-> Failed, argv |-> << >>, envp |-> << >>,
          sp |-> 0, base |-> 0, top |-> 0, seen |-> << >>]

NoLoad == [i |-> 0, last |-> PAGE_SIZE]

NoList == [n |-> 0, archive |-> << >>, f |-> 0, h |-> init3, name |-> 0, length |-> 0,
           records |-> 0]

NoLine == [text |-> << >>, cap |-> 0]

\* An allocation succeeds, or fails while there are failures left.
Alloc == {TRUE} \cup (IF fails < MaxFails THEN {FALSE} ELSE {})

Count(ok) == fails' = IF ok THEN fails ELSE fails + 1

-----------------------------------------------------------------------------
\* try_user_init: one page of stack, descriptor 0 on the program
ProgramInit ==
    /\ pc = "stage2"
    /\ files = [f \in {0} |-> Module(InitElf, TRUE)]
    /\ streams = [i \in 1..NStreams |-> NoFile]
    /\ space = map([a \in {} |-> 0], BootStack, BootStack + PAGE_SIZE)
    /\ exe = [NoExe EXCEPT !.image = InitElf, !.fd = 0, !.base = BootStack,
                           !.sp = BootStack + PAGE_SIZE - BootSpare,
                           !.top = BootStack + PAGE_SIZE]
    /\ load = NoLoad
    /\ ls = NoList
    /\ heap = {}
    /\ line = NoLine
    /\ fails = 0

\* exec_elf_stage2: the header is read again, and all but the stack is unmapped.
exec_elf_stage2 ==
    LET r == read_into(space, files, exe.fd, EhdrAt(exe.sp), EHSIZE, 0)
        ok == r.ok /\ UnmapOk(0, exe.base) /\ UnmapOk(exe.top, ADDR_MAX)
    IN  /\ pc = "stage2"
        /\ pc' = IF ok THEN "segments" ELSE "halted"
        /\ files' = r.t
        /\ space' = IF ok THEN unmap(unmap(r.space, 0, exe.base), exe.top, ADDR_MAX) ELSE space
        /\ load' = NoLoad
        /\ UNCHANGED <<streams, exe, ls, heap, line, fails>>

\* load_elf_segments reads program header i
read_phdr ==
    LET e == Ehdr(space, exe.sp)
        r == read_into(space, files, exe.fd, PhdrAt(exe.sp), PHSIZE, e.phoff + load.i * PHSIZE)
        p == Phdr(r.space, exe.sp)
        overlap == SegmentBase(p) < load.last
    IN  /\ pc = "segments"
        /\ load.i < e.phnum
        /\ pc' = CASE ~r.ok \/ p.type = PT_INTERP -> "halted"
                   [] r.ok /\ p.type = PT_LOAD -> IF overlap THEN "halted" ELSE "map"
                   [] r.ok /\ p.type \notin {PT_LOAD, PT_INTERP} -> "segments"
        /\ files' = r.t
        /\ space' = r.space
        /\ load' = [i |-> load.i + 1,
                    last |-> IF p.type = PT_LOAD THEN p.vaddr + p.memsz ELSE load.last]
        /\ UNCHANGED <<streams, exe, ls, heap, line, fails>>

\* load_segment: when the new pages replace those of the loader's frame, it has
\* nowhere to return to.
load_segment ==
    LET p == Phdr(space, exe.sp)
        b == SegmentBase(p)
        e == SegmentEnd(p)
    IN  /\ pc = "map"
        /\ \E ok \in Alloc :
            /\ Count(ok)
            /\ IF ~ok \/ ~MapOk(b, e)
               THEN pc' = "halted" /\ UNCHANGED <<files, space>>
               ELSE LET r == read_into(map(space, b, e), files, exe.fd, p.vaddr, p.filesz, p.offset)
                    IN  /\ pc' = IF b < exe.sp /\ exe.sp - FRAME < e THEN "crashed"
                                 ELSE IF r.ok THEN "segments" ELSE "halted"
                        /\ files' = r.t
                        /\ space' = r.space
        /\ UNCHANGED <<streams, exe, load, ls, heap, line>>

\* SYSCALL(exec_flush), and _start
exec_flush ==
    /\ pc = "segments"
    /\ load.i = Ehdr(space, exe.sp).phnum
    /\ files' = cloexec(files)
    /\ pc' = "start"
    /\ UNCHANGED <<streams, space, exe, load, ls, heap, line, fails>>

\* __libc_start_main, up to main
start_main ==
    /\ pc = "start"
    /\ streams' = init_stdio
    /\ exe' = [exe EXCEPT !.seen = Arguments(space, exe.sp)]
    /\ pc' = IF exe.image = InitElf THEN "tty_setup" ELSE "hello"
    /\ UNCHANGED <<files, space, load, ls, heap, line, fails>>

-----------------------------------------------------------------------------
\* fork: what it returns in the process that the model follows; -1 without memory
Forked == {0, 1} \cup (IF fails < MaxFails THEN {-1} ELSE {})

\* main: tty_setup (serial_setup, ipc_create and a fork), then dup2 onto 0, 1 and 2.
\* A process that is not the parent goes on as the terminal's server.
tty_setup ==
    LET irq == With(files, alloc(files), Device("irq", TRUE))
        first == alloc(irq)
        client == With(irq, first, Device("tty", FALSE))
    IN  /\ pc = "tty_setup"
        /\ \E forked \in Forked :
            /\ Count(forked >= 0)
            /\ pc' = IF forked > 0 THEN "hello_process" ELSE "tty_server"
            /\ files' = IF forked > 0
                        THEN dup2(dup2(dup2(client, first, 0), first, 1), first, 2)
                        ELSE client
        /\ UNCHANGED <<streams, space, exe, load, ls, heap, line>>

\* hello_process: the child opens and executes hello, and the parent sleeps.
hello_process ==
    /\ pc = "hello_process"
    /\ \E forked \in Forked :
        /\ Count(forked >= 0)
        /\ pc' = IF forked = 0 THEN "hello_open" ELSE "ls_open"
    /\ UNCHANGED <<files, streams, space, exe, load, ls, heap, line>>

hello_open ==
    /\ pc = "hello_open"
    /\ \E image \in Programs, args \in Args :
        LET r == kopen(files, image)
        IN  /\ files' = r.t
            /\ exe' = [NoExe EXCEPT !.image = image, !.fd = r.fd,
                                    !.argv = args[1], !.envp = args[2]]
    /\ pc' = "fexecve"
    /\ UNCHANGED <<streams, space, load, ls, heap, line, fails>>

\* fexecve: the header is read and checked.
fexecve ==
    LET sought == lseek(files, exe.fd, 0, "SEEK_SET")
        r == read(sought.t, exe.fd, EHSIZE, TRUE)
        ok == sought.n >= 0 /\ r.n = EHSIZE /\ check_elf_valid(r.bytes)
    IN  /\ pc = "fexecve"
        /\ pc' = IF ok THEN "build_stack" ELSE "exec_failed"
        /\ files' = r.t
        /\ UNCHANGED <<streams, space, exe, load, ls, heap, line, fails>>

\* build_stack and exec: memset has cleared the buffer of setjmp, so an error jumps
\* nowhere.
build_stack_exec ==
    /\ pc = "build_stack"
    /\ \E ok \in Alloc, base \in {p * PAGE_SIZE : p \in 0..(ADDR_MAX \div PAGE_SIZE)} :
        LET s == build_stack(space, base, exe.argv, exe.envp)
            done == finish_stack(s)
        IN  /\ Count(ok)
            /\ StackMin <= base /\ base + STACK_SIZE < ADDR_MAX
            /\ IF ~ok \/ s.overflow
               THEN pc' = "crashed" /\ UNCHANGED <<space, exe>>
               ELSE /\ FindsShared("exec_loadelf")
                    /\ pc' = "stage2"
                    /\ space' = done.space
                    /\ exe' = [exe EXCEPT !.base = base, !.top = base + STACK_SIZE,
                                          !.sp = done.sp]
    /\ UNCHANGED <<files, streams, load, ls, heap, line>>

\* fexecve has returned to hello_process, and the child goes on as a second init.
exec_failed ==
    /\ pc = "exec_failed"
    /\ exe' = NoExe
    /\ pc' = "ls_open"
    /\ UNCHANGED <<files, streams, space, load, ls, heap, line, fails>>

-----------------------------------------------------------------------------
\* ls_ramdisk, up to its loop; a null map is written to, a null stream is read.
ls_open ==
    /\ pc = "ls_open"
    /\ ls.n < MaxLists
    /\ \E archive \in Archives, plus \in BOOLEAN, ok \in Alloc :
        LET opened == kopen(files, archive)
            f == fdopen(streams, opened.fd, "r", plus)
        IN  /\ Count(ok)
            /\ files' = opened.t
            /\ streams' = f.streams
            /\ heap' = IF ok THEN heap \cup {<<"map", ls.n + 1, 0>>} ELSE heap
            /\ ls' = [NoList EXCEPT !.n = ls.n + 1, !.archive = archive, !.f = f.f]
            /\ pc' = IF ok /\ f.f # 0 THEN "ls_record" ELSE "crashed"
    /\ UNCHANGED <<space, exe, load, line>>

\* The stream after a read, and the descriptors
Took(r) == streams' = [streams EXCEPT ![ls.f] = r.file] /\ files' = r.t

\* The fields of a tar record that are used
record_name(bytes) == bytes[1]

read_octal_size(bytes) == bytes[2]

\* One record.  Units that are no name show that the loop reads a file's contents.
ls_record ==
    LET r == libc_read(streams[ls.f], files, BLOCK, TRUE)
        more == Items(r.bytes, BLOCK) = 1 /\ record_name(r.bytes) # 0
    IN  /\ pc = "ls_record"
        /\ Took(r)
        /\ pc' = CASE ~more -> "ls_print"
                   [] more /\ record_name(r.bytes) \in Names -> "ls_file"
                   [] more /\ record_name(r.bytes) \notin Names -> "garbled"
        /\ ls' = IF more THEN [ls EXCEPT !.name = record_name(r.bytes), !.length = read_octal_size(r.bytes),
                                         !.records = @ + 1]
                 ELSE ls
        /\ UNCHANGED <<space, exe, load, heap, line, fails>>

\* What malloc leaves in memory that fread does not fill
Junk == -1

\* The contents of a file and its entry in the map.  Without memory for the name the
\* hash function reads a null string, without memory for the map a value is written
\* past its end.
ls_file ==
    LET block(kind) == <<kind, ls.n, ls.records>>
    IN  /\ pc = "ls_file"
        /\ ls.length > 0
        /\ \E data \in Alloc, rest \in Alloc :
            LET r == libc_read(streams[ls.f], files, ls.length, data)
                val == [size |-> ls.length, record |-> ls.records,
                        data |-> IF data THEN [i \in 1..ls.length |->
                                     IF i <= Len(r.bytes) THEN r.bytes[i] ELSE Junk]
                                 ELSE << >>]
            IN  /\ fails' = fails + (IF data THEN 0 ELSE 1) + (IF rest THEN 0 ELSE 1)
                /\ fails' <= MaxFails
                /\ Took(r)
                /\ IF ~rest
                   THEN pc' = "crashed" /\ UNCHANGED <<ls, heap>>
                   ELSE /\ pc' = "ls_skip"
                        /\ ls' = [ls EXCEPT !.h = put(ls.h, <<ls.name, ls.records>>, val)]
                        /\ heap' = heap \cup {block("name")}
                                        \cup (IF data THEN {block("data")} ELSE {})
                                        \cup {<<"keys", ls.n, 0>>, <<"used", ls.n, 0>>}
        /\ UNCHANGED <<space, exe, load, line>>

\* On to the next record: over the padding of the last block
ls_skip ==
    LET blocks == (ls.length + BLOCK - 1) \div BLOCK
    IN  /\ \/ pc = "ls_skip"
           \/ pc = "ls_file" /\ ls.length = 0
        /\ files' = fseek(streams[ls.f], files, blocks * BLOCK - ls.length, "SEEK_CUR")
        /\ pc' = "ls_record"
        /\ UNCHANGED <<streams, space, exe, load, ls, heap, line, fails>>

\* The listing is printed; the stream, the blocks of every entry and the map go.
ls_print ==
    LET closed == fclose(streams, ls.f, files)
        freed == {<<"name", ls.n, b.key[2]>> : b \in Buckets(ls.h)}
                    \cup {<<"data", ls.n, b.val.record>> : b \in Buckets(ls.h)}
    IN  /\ pc = "ls_print"
        /\ streams' = closed.streams
        /\ files' = closed.t
        /\ heap' = {b \in heap \ freed : b[1] \notin {"map", "keys", "used"}}
        /\ pc' = "prompt"
        /\ UNCHANGED <<space, exe, load, ls, line, fails>>

-----------------------------------------------------------------------------
\* The loop of main: fwrite of the prompt, and getline with no line yet
prompt ==
    /\ pc = "prompt"
    /\ line' = NoLine
    /\ pc' = "getline"
    /\ UNCHANGED <<files, streams, space, exe, load, ls, heap, fails>>

\* What the terminal may deliver next: a command comes at the begin of a line, as one
\* unit, and x stands for any other character.  "end" is the end of the input, and
\* "error" an error of the read.
Typed ==
    (IF line.text = << >> THEN {"ls", "exit"} ELSE {})
        \cup (IF Len(line.text) < MaxLine THEN {"x"} ELSE {}) \cup {"newline", "end", "error"}

\* One round of the loop of getdelim.  The stream is at its end once it was; with an
\* empty line, an error or no memory, getline returns -1.
getdelim ==
    LET cap == Grown(Len(line.text), line.cap)
        in == streams[stdin]
    IN  /\ pc = "getline"
        /\ \E ch \in (IF in.eof THEN {"end"} ELSE Typed),
              ok \in (IF cap = line.cap THEN {TRUE} ELSE Alloc) :
            LET stored == IF ch \in {"end", "error"} THEN line.text ELSE Append(line.text, ch)
            IN  /\ Count(ok)
                /\ streams' = IF ~ok THEN streams
                              ELSE [streams EXCEPT ![stdin].eof = @ \/ ch = "end",
                                                   ![stdin].error = @ \/ ch = "error"]
                /\ line' = IF ok THEN [text |-> stored, cap |-> cap] ELSE line
                /\ pc' = CASE ~ok -> "exit"
                          [] ok /\ ch \in {"end", "error"} ->
                                IF streams'[stdin].error \/ stored = << >> THEN "exit"
                                ELSE IF Len(stored) < cap THEN "command" ELSE "crashed"
                          [] ok /\ ch = "newline" ->
                                IF Len(stored) < cap THEN "command" ELSE "crashed"
                          [] ok /\ ch \notin {"end", "error", "newline"} ->
                                IF Len(stored) <= cap THEN "getline" ELSE "crashed"
    /\ UNCHANGED <<files, space, exe, load, ls, heap>>

\* The line without its newline is compared with the commands; the line is freed.
command ==
    LET text == IF Last(line.text) = "newline" THEN Front(line.text) ELSE line.text
    IN  /\ pc = "command"
        /\ pc' = CASE text = <<"ls">> -> "ls_open"
                   [] text = <<"exit">> -> "exit"
                   [] text \notin {<<"ls">>, <<"exit">>} -> "prompt"
        /\ line' = NoLine
        /\ UNCHANGED <<files, streams, space, exe, load, ls, heap, fails>>

\* What __libc_start_main has given to atexit, and the order of __libc_do_atexit
atexit_array == <<"fini", "fini_array">>

do_atexit == Reverse(atexit_array)

\* exit: the destructor of init, in fini_array, panics before any other function runs.
exit ==
    /\ pc = "exit"
    /\ pc' = IF Head(do_atexit) = "fini_array" THEN "panicked" ELSE "exited"
    /\ UNCHANGED <<files, streams, space, exe, load, ls, heap, line, fails>>

\* hello and the terminal's server go on for ever, a panic ends everything, and
\* the model follows init through MaxLists listings.
Ended ==
    \/ pc \in {"hello", "tty_server", "halted", "crashed", "garbled", "panicked"}
    \/ pc = "ls_open" /\ ls.n = MaxLists

stopped == Ended /\ UNCHANGED vars

ProgramNext ==
    \/ exec_elf_stage2 \/ read_phdr \/ load_segment \/ exec_flush \/ start_main
    \/ tty_setup \/ hello_process \/ hello_open \/ fexecve \/ build_stack_exec \/ exec_failed
    \/ ls_open \/ ls_record \/ ls_file \/ ls_skip \/ ls_print
    \/ prompt \/ getdelim \/ command \/ exit
    \/ stopped

ProgramSpec == ProgramInit /\ [][ProgramNext]_vars
-----------------------------------------------------------------------------
\* The program headers of an image, and its segments, as the file has them
Headers(image) ==
    {[type |-> image[o + 1], vaddr |-> image[o + 2], filesz |-> image[o + 3],
      memsz |-> image[o + 4], offset |-> image[o + 5]] :
        o \in {image[3] + i * PHSIZE : i \in 0..(image[4] - 1)}}

HasHeaders(image) ==
    /\ Len(image) >= EHSIZE /\ check_elf_valid(image)
    /\ image[3] + image[4] * PHSIZE <= Len(image)

Segments(image) ==
    IF HasHeaders(image) THEN {p \in Headers(image) : p.type = PT_LOAD} ELSE {}

\* The addresses on the pages of a segment
PagesOf(p) ==
    {a \in 0..(ADDR_MAX - 1) : \E x \in p.vaddr..(p.vaddr + p.memsz - 1) :
                                    a \div PAGE_SIZE = x \div PAGE_SIZE}

Stack == exe.base..(exe.top - 1)

AsksForStack == \E p \in Segments(exe.image) : PagesOf(p) \cap Stack # {}

\* When main is entered, the memory of the process is its stack and the pages of its
\* segments, with the contents of the file and zeroes after them: nothing of the old
\* program is left.  main gets the arguments that fexecve was given, though the loader
\* ran on the same stack, and the stack pointer is aligned to two words.  No
\* descriptor that was to be closed is open.
RunsItsImage ==
    pc \in {"hello", "tty_setup"} =>
        /\ DOMAIN space = Stack \cup UNION {PagesOf(p) : p \in Segments(exe.image)}
        /\ \A p \in Segments(exe.image) : \A a \in PagesOf(p) \ Stack :
            space[a] = IF a \in p.vaddr..(p.vaddr + p.filesz - 1)
                       THEN exe.image[p.offset + a - p.vaddr + 1] ELSE 0
        /\ ~AsksForStack =>
                exe.seen = [argc |-> Len(exe.argv), argv |-> exe.argv, envp |-> exe.envp]
        /\ exe.sp % (2 * WORD) = 0
        /\ \A fd \in DOMAIN files : ~files[fd].cloexec

\* What fexecve may be asked to run: the headers are in the file, there is no
\* interpreter, and the segments are in order, on pages of their own in user space.
Runnable(image) ==
    /\ HasHeaders(image)
    /\ \A p \in Headers(image) : p.type # PT_INTERP
    /\ \A p \in Segments(image) :
        /\ PAGE_SIZE <= p.vaddr /\ p.vaddr + p.memsz <= ADDR_MAX
        /\ p.memsz > 0 /\ p.filesz <= p.memsz
        /\ p.offset + p.filesz <= Len(image)
        /\ \A q \in Segments(image) \ {p} : PagesOf(p) \cap PagesOf(q) = {}

\* The arguments, with their four words more than there are strings, are smaller than
\* ARG_MAX.
ArgsFit(argv, envp) ==
    LET strings == argv \o envp
    IN  WORD * (4 + Len(strings)) + Len(FlattenSeq(strings)) + Len(strings) < ARG_MAX

\* A process only stops, or goes on with the wrong data, for a reason: memory was
\* short, or the program or its arguments were unfit.  Everything else that the loader,
\* the stack builder, the streams and getline do, whatever the boundary, is no reason.
StopsHaveCause ==
    /\ pc = "exec_failed" => ~(Len(exe.image) >= EHSIZE /\ check_elf_valid(exe.image))
    /\ pc = "halted" => fails > 0 \/ ~Runnable(exe.image)
    /\ pc = "crashed" => fails > 0 \/ ~ArgsFit(exe.argv, exe.envp) \/ AsksForStack
    /\ pc = "garbled" => fails > 0

-----------------------------------------------------------------------------
\* The records of an archive from offset o on, up to an empty name or its end
RECURSIVE RecordsFrom(_, _)
RecordsFrom(archive, o) ==
    IF o + BLOCK > Len(archive) \/ archive[o + 1] = 0 THEN << >>
    ELSE <<[name |-> archive[o + 1], size |-> archive[o + 2], at |-> o + BLOCK]>>
            \o RecordsFrom(archive, o + BLOCK + ROUND_UP(archive[o + 2], BLOCK))

\* What a listing shows: of each name that has a record with contents, the last one.
\* The units that the archive lacks are left as malloc gave them.
Listing(archive) ==
    LET records == RecordsFrom(archive, 0)
        full == {i \in DOMAIN records : records[i].size > 0}
        last == {i \in full : \A j \in full : j > i => records[j].name # records[i].name}
    IN  {<<records[i].name, records[i].size,
           [k \in 1..records[i].size |-> IF records[i].at + k > Len(archive) THEN Junk
                                         ELSE archive[records[i].at + k]]>> : i \in last}

\* While memory lasts, ls_ramdisk shows every file of the archive with its contents,
\* each under its name in the map, which grows while it is filled; afterwards it has
\* given back its stream and its memory, but for that of names that occur twice.
ListsArchive ==
    /\ pc = "ls_print" /\ fails = 0 =>
        /\ {<<b.key[1], b.val.size, b.val.data>> : b \in Buckets(ls.h)} = Listing(ls.archive)
        /\ ls.h.count = Cardinality(ls.h.used) /\ ls.h.count = Cardinality(Listing(ls.archive))
        /\ \A i \in ls.h.used : Search(ls.h, ls.h.keys[i].key) = i
    /\ pc = "prompt" /\ fails = 0 =>
        /\ Cardinality({i \in 1..NStreams : streams[i].open}) = 3
        /\ LET records == RecordsFrom(ls.archive, 0)
           IN  \A b \in heap : b[2] = ls.n =>
                \E j \in DOMAIN records \ {b[3]} : records[j].name = records[b[3]].name
=============================================================================
