----------------------------- MODULE ModuleFile -----------------------------
(***************************************************************************)
(* The files of a process as its system calls see them: boot modules       *)
(* (user/module.cxx), and the terminal and the interrupt line, which can   *)
(* neither be sought nor, here, be read.  Pure operators on a descriptor   *)
(* table t, a function from the open descriptors to their handles.         *)
(*                                                                         *)
(* A handle is [kind, data, offset, cloexec]; data is a sequence of units, *)
(* integers that stand for one byte each or for one field of a header.     *)
(***************************************************************************)
EXTENDS Integers, Sequences, FiniteSetsExt, Functions

\* What a system call or a library function returns in case of an error
Failed == -1

ENOENT == 2

\* Handle objects without seek and read of their own
Device(kind, cloexec) == [kind |-> kind, data |-> << >>, offset |-> 0, cloexec |-> cloexec]

\* handle_open_module
Module(data, cloexec) == [kind |-> "module", data |-> data, offset |-> 0, cloexec |-> cloexec]

\* Descriptor_table::alloc and Descriptor::assign: the lowest number that is free
alloc(t) == Min((0..Cardinality(DOMAIN t)) \ DOMAIN t)

With(t, fd, handle) == [f \in DOMAIN t \cup {fd} |-> IF f = fd THEN handle ELSE t[f]]

-----------------------------------------------------------------------------
\* The images of the modules with the path asked for: one, or none, which is given
\* as an empty one
bootloader_open_module(image) == {image} \ {<< >>}

\* SYSCALL(open_module)
open_module(t, image) ==
    IF bootloader_open_module(image) = {} THEN [fd |-> -ENOENT, t |-> t]
    ELSE [fd |-> alloc(t), t |-> With(t, alloc(t), Module(image, FALSE))]

\* _fluke_kopen, which does not turn the error number into -1
kopen(t, image) == open_module(t, image)

\* Module::read: as much as is left
Module_read(m, len) ==
    SubSeq(m.data, m.offset + 1, m.offset + Min({len, Len(m.data) - m.offset}))

\* copy_to_user into memory that is writable or not
CopyOk(bytes, writable) == bytes = << >> \/ writable

\* SYSCALL(read) and read() of len units
read(t, fd, len, writable) ==
    IF fd \notin DOMAIN t \/ len <= 0
    THEN [n |-> Failed, bytes |-> << >>, t |-> t]
    ELSE LET bytes == Module_read(t[fd], len)
         IN  IF t[fd].kind # "module" \/ ~CopyOk(bytes, writable)
             THEN [n |-> Failed, bytes |-> << >>, t |-> t]
             ELSE [n |-> Len(bytes), bytes |-> bytes,
                   t |-> [t EXCEPT ![fd].offset = @ + Len(bytes)]]

\* Module::seek
SeekTarget(m, offset, whence) ==
    CASE whence = "SEEK_SET" -> offset
      [] whence = "SEEK_CUR" -> offset + m.offset
      [] whence = "SEEK_END" -> offset + Len(m.data)

\* SYSCALL(seek) and lseek(); Handle::seek is ESPIPE
lseek(t, fd, offset, whence) ==
    IF fd \notin DOMAIN t THEN [n |-> Failed, t |-> t]
    ELSE LET to == SeekTarget(t[fd], offset, whence)
         IN  IF t[fd].kind # "module" \/ to < 0 \/ to > Len(t[fd].data)
             THEN [n |-> Failed, t |-> t]
             ELSE [n |-> to, t |-> [t EXCEPT ![fd].offset = to]]

\* SYSCALL(close) and close()
close(t, fd) ==
    IF fd \in DOMAIN t THEN [n |-> 0, t |-> Restrict(t, DOMAIN t \ {fd})]
    ELSE [n |-> Failed, t |-> t]

\* dup2(); a duplicate of a device, which has no offset to share
dup2(t, old, new) ==
    IF old = new \/ new < 0 \/ old \notin DOMAIN t THEN t
    ELSE With(t, new, [t[old] EXCEPT !.cloexec = FALSE])

\* Descriptor_table::cloexec
cloexec(t) == Restrict(t, {fd \in DOMAIN t : ~t[fd].cloexec})
=============================================================================
