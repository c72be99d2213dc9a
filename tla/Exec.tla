-------------------------------- MODULE Exec --------------------------------
(***************************************************************************)
(* How a program is started: the stack that fexecve builds for it          *)
(* (libc/src/unistd/fexecve.c), the loader that runs on that stack in the  *)
(* place of the old program (share/elf_loader.c), and what the new program *)
(* finds on the stack (libc/src/start_main.c).  Pure operators; module     *)
(* InitProgram makes the steps.                                            *)
(*                                                                         *)
(* Memory is a function from the mapped addresses to units, as in          *)
(* ModuleFile; a word takes WORD units, its value in the first.            *)
(***************************************************************************)
EXTENDS ModuleFile, SequencesExt

CONSTANTS
    PAGE_SIZE,
    WORD,       \* an eightbyte
    ADDR_MAX,   \* 0x8000'0000'0000: the end of user space
    STACK_SIZE, \* of the stack that fexecve maps: 80 K
    ARG_MAX     \* 32 K

\* An ELF header is valid (stands for the fields that must have one value), e_entry,
\* e_phoff, e_phnum; a program header is p_type, p_vaddr, p_filesz, p_memsz, p_offset.
EHSIZE == 4
PHSIZE == 5

PT_LOAD == 1
PT_INTERP == 3

\* What the loader keeps below the stack pointer: a return address and two headers
FRAME == WORD + EHSIZE + PHSIZE

ASSUME ExecAssumption ==
    /\ {PAGE_SIZE, WORD, ADDR_MAX, STACK_SIZE, ARG_MAX} \subseteq Nat \ {0}
    /\ PAGE_SIZE % (2 * WORD) = 0
    /\ STACK_SIZE % PAGE_SIZE = 0 /\ ADDR_MAX % PAGE_SIZE = 0
    /\ ARG_MAX + 2 * WORD + FRAME <= STACK_SIZE

ROUND_DOWN(x, n) == x - (x % n)

ROUND_UP(x, n) == ROUND_DOWN(x + n - 1, n)

-----------------------------------------------------------------------------
\* virtual_map of the range from b to e: zeroed pages.  The range must be in user
\* space, without page 0.
MapOk(b, e) == PAGE_SIZE <= b /\ b < e /\ e <= ADDR_MAX

map(space, b, e) ==
    [a \in DOMAIN space \cup b..(e - 1) |-> IF a \in b..(e - 1) THEN 0 ELSE space[a]]

\* virtual_unmap
UnmapOk(b, e) == b < e /\ e <= ADDR_MAX

unmap(space, b, e) == Restrict(space, DOMAIN space \ b..(e - 1))

\* memcpy of a sequence to address a
Store(space, a, seq) ==
    [x \in DOMAIN space |-> IF x \in a..(a + Len(seq) - 1) THEN seq[x - a + 1] ELSE space[x]]

Word(v) == [i \in 1..WORD |-> IF i = 1 THEN v ELSE 0]

Load(space, a, n) == [i \in 1..n |-> space[a + i - 1]]

-----------------------------------------------------------------------------
\* The stack builder s of fexecve: base, arg_next and data_area, the memory, and
\* whether it has overflown, upon which nothing more is pushed.
create_stack(space, base) ==
    [base |-> base, arg_next |-> base, data_area |-> base + STACK_SIZE,
     space |-> map(space, base, base + STACK_SIZE), overflow |-> FALSE]

\* check_space succeeds for a push of that many units.
SpaceOk(s, additional) ==
    /\ ~s.overflow
    /\ STACK_SIZE - (s.data_area - s.arg_next) + additional < ARG_MAX

push_arg(s, v) ==
    IF ~SpaceOk(s, WORD) THEN [s EXCEPT !.overflow = TRUE]
    ELSE [s EXCEPT !.space = Store(@, s.arg_next, Word(v)), !.arg_next = @ + WORD]

push_data_string(s, str) ==
    IF ~SpaceOk(s, Len(str) + 1) THEN [s EXCEPT !.overflow = TRUE]
    ELSE LET to == s.data_area - (Len(str) + 1)
         IN  [s EXCEPT !.data_area = to, !.space = Store(@, to, Append(str, 0))]

push_string_arg(s, str) ==
    LET pushed == push_data_string(s, str) IN push_arg(pushed, pushed.data_area)

add_array(s, args) == push_arg(FoldLeft(push_string_arg, s, args), 0)

\* Mutant: the stack pointer is aligned to one word only.
finish_stack_word(s) ==
    LET size == s.arg_next - s.base
        sp == ROUND_DOWN(s.data_area, WORD) - size
    IN  [sp |-> sp, space |-> Store(s.space, sp, Load(s.space, s.base, size))]

\* The words move up to the strings; the stack pointer is a multiple of two words.
finish_stack(s) ==
    LET size == s.arg_next - s.base
        data == ROUND_DOWN(s.data_area, WORD)
        sp == IF (data - size) % (2 * WORD) = 0 THEN data - size ELSE data - WORD - size
    IN  [sp |-> sp, space |-> Store(s.space, sp, Load(s.space, s.base, size))]

\* build_stack, once there is a stack at base
build_stack(space, base, argv, envp) ==
    LET reserved == push_arg(create_stack(space, base), 0)
        args == add_array(reserved, argv)
        argc == (args.arg_next - 2 * WORD - base) \div WORD
        counted == [args EXCEPT !.space = Store(@, base, Word(argc))]
    IN  push_arg(add_array(counted, envp), 0)

\* The objects that the kernel shares with programs
user_share_get_objects == <<"exec_loadelf">>

\* _fluke_user_share_name returns; its loop never goes on to the next object.
FindsShared(name) == name = Head(user_share_get_objects)

-----------------------------------------------------------------------------
\* check_elf_valid on the units of a header
check_elf_valid(ehdr) == \A i \in 1..EHSIZE : ehdr[i] # 0

\* read_into of the loader (seek, then read len units at address to, all mapped):
\* ok unless fail() is reached
read_into(space, t, fd, to, len, offset) ==
    LET sought == lseek(t, fd, offset, "SEEK_SET")
        r == read(sought.t, fd, len, to..(to + len - 1) \subseteq DOMAIN space)
    IN  IF len = 0
        THEN [ok |-> sought.n >= 0, t |-> sought.t, space |-> space]
        ELSE [ok |-> sought.n >= 0 /\ r.n = len, t |-> r.t,
              space |-> IF r.n = len THEN Store(space, to, r.bytes) ELSE space]

\* The two headers in the frame of the loader
EhdrAt(sp) == sp - FRAME

PhdrAt(sp) == sp - FRAME + EHSIZE

Ehdr(space, sp) == LET e == Load(space, EhdrAt(sp), EHSIZE)
                   IN  [entry |-> e[2], phoff |-> e[3], phnum |-> e[4]]

Phdr(space, sp) == LET p == Load(space, PhdrAt(sp), PHSIZE)
                   IN  [type |-> p[1], vaddr |-> p[2], filesz |-> p[3], memsz |-> p[4],
                        offset |-> p[5]]

\* The pages of a segment: base and end of load_segment
SegmentBase(p) == ROUND_DOWN(p.vaddr, PAGE_SIZE)

SegmentEnd(p) == ROUND_UP(p.vaddr + p.memsz, PAGE_SIZE)

-----------------------------------------------------------------------------
\* The string at address a
CString(space, a) ==
    LET n == Min({k \in 0..ADDR_MAX : a + k \in DOMAIN space /\ space[a + k] = 0})
    IN  Load(space, a, n)

\* The strings whose addresses are the words from address a on, up to a null
Strings(space, a) ==
    LET n == Min({k \in 0..ADDR_MAX :
                    a + k * WORD \in DOMAIN space /\ space[a + k * WORD] = 0})
    IN  [i \in 1..n |-> CString(space, space[a + (i - 1) * WORD])]

\* argc, argv and envp that __libc_start_main gives to main, all strings read
Arguments(space, sp) ==
    LET argc == space[sp]
    IN  [argc |-> argc, argv |-> Strings(space, sp + WORD),
         envp |-> Strings(space, sp + WORD + (argc + 1) * WORD)]
=============================================================================
