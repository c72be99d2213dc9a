--------------------------- MODULE MCInitProgram ---------------------------
(* Programs, arguments and archives, good and bad, for a process that runs out of
   memory once. *)
EXTENDS InitProgram

\* An executable with these segments, <<type, vaddr, filesz, memsz, offset>>
Elf(segments, contents) ==
    <<1, 21, EHSIZE, Len(segments)>> \o FlattenSeq(segments) \o contents

Contents(n) == [i \in 1..n |-> 100 + i]

OneSegment == Elf(<<<<PT_LOAD, 22, 2, 3, 9>>>>, Contents(2))

GoodPrograms ==
    {\* two segments in pages of their own, the second with much to be zeroed
     Elf(<<<<PT_LOAD, 20, 3, 3, 19>>, <<6, 0, 5, 5, 4>>, <<PT_LOAD, 45, 2, 20, 22>>>>, Contents(5)),
     \* the first fills its page, the second has nothing in the file
     Elf(<<<<PT_LOAD, 20, 20, 20, 14>>, <<PT_LOAD, 40, 0, 1, 14>>>>, Contents(20))}

BadPrograms ==
    {<< >>, <<1, 21>>, <<1, 0, 4, 1>>,
     \* segments on one page, an interpreter, no more file
     Elf(<<<<PT_LOAD, 20, 1, 5, 14>>, <<PT_LOAD, 30, 1, 1, 14>>>>, Contents(1)),
     Elf(<<<<PT_INTERP, 0, 1, 1, 9>>>>, Contents(1)),
     Elf(<<<<PT_LOAD, 20, 3, 3, 9>>>>, Contents(2)),
     Elf(<<<<PT_LOAD, 20, 1, 1, 30>>>>, Contents(1)),
     <<1, 21, 4, 2, PT_LOAD, 20, 1, 1, 0>>,
     \* nothing to map, page 0, past the end, more in the file than in memory
     Elf(<<<<PT_LOAD, 20, 0, 0, 9>>>>, Contents(1)),
     Elf(<<<<PT_LOAD, 10, 1, 1, 9>>>>, Contents(1)),
     Elf(<<<<PT_LOAD, 170, 1, 20, 9>>>>, Contents(1)),
     Elf(<<<<PT_LOAD, 38, 4, 1, 9>>>>, Contents(4)),
     Elf(<<<<PT_LOAD, 25, 4, 1, 9>>>>, Contents(4)),
     \* where the stack may be
     Elf(<<<<PT_LOAD, 105, 0, 5, 9>>>>, Contents(1))}

AllPrograms == GoodPrograms \cup BadPrograms

\* Arguments that fill the space to one unit less than ARG_MAX, and exactly
Lists == {<< >>, <<<< >>>>, <<<<7>>>>, <<<<7, 8>>, <<9>>>>, <<<<7, 8, 9>>>>}

SomeArgs == (Lists \X Lists) \cup {<<<<<<7, 8, 9>>, <<8>>>>, <<<<7, 8>>>>>>}

\* The file numbered n, with size units of its own
Record(n, size) ==
    <<n, size, 0>> \o [i \in 1..size |-> 10 * n + i] \o
        [i \in 1..(-size % BLOCK) |-> 0]

Tar(files_, tail) == FlattenSeq([i \in DOMAIN files_ |-> Record(files_[i][1], files_[i][2])]) \o tail

TheEnd == <<0, 0, 0, 0, 0, 0>>

Cut(tar, n) == SubSeq(tar, 1, Len(tar) - n)

\* Whole ones; with a name that occurs twice; that end early; none
SomeArchives ==
    {Tar(<<<<1, 1>>, <<2, 2>>, <<3, 3>>, <<4, 4>>, <<5, 1>>>>, TheEnd),
     Tar(<<<<5, 1>>, <<3, 1>>, <<4, 0>>, <<1, 3>>, <<2, 1>>>>, TheEnd),
     Tar(<<<<2, 1>>, <<5, 1>>, <<1, 2>>, <<4, 3>>>>, TheEnd),
     Tar(<<<<4, 1>>, <<3, 1>>, <<2, 1>>, <<5, 1>>, <<1, 1>>>>, TheEnd),
     Tar(<<<<1, 1>>, <<2, 4>>, <<1, 3>>>>, TheEnd),
     Tar(<<<<3, 2>>, <<4, 4>>>>, << >>),
     Cut(Tar(<<<<3, 2>>, <<4, 4>>>>, << >>), 3),
     Cut(Tar(<<<<3, 2>>, <<4, 4>>>>, << >>), 8),
     << >>}

FiveNames == 1..5

\* Homes 0, 0, 3, 3 and 0 of four buckets, and 1, 1, 7, 7 and 0 of eight
FiveHashes == <<2, 3, 15, 14, 0>>
=============================================================================
