------------------------------- MODULE Stdio -------------------------------
(***************************************************************************)
(* The streams of the C library (libc/src/stdio): a fixed array of FILE    *)
(* objects without buffers, each over one descriptor.  Pure operators on   *)
(* the array, a sequence.                                                  *)
(***************************************************************************)
EXTENDS ModuleFile

CONSTANTS
    NStreams,   \* the length of streams[]: 16
    LineMin     \* the least capacity of a line of getdelim: 16

ASSUME StdioAssumption ==
    /\ NStreams \in Nat /\ NStreams >= 3
    /\ LineMin \in Nat /\ LineMin >= 2

\* A FILE that is not open: closefn is null
NoFile == [open |-> FALSE, fd |-> 0, error |-> FALSE, eof |-> FALSE,
           readfn |-> FALSE, writefn |-> FALSE]

\* __libc_alloc_stream: the first that is not open; 0 is EMFILE
alloc_stream(streams) ==
    Min({i \in 1..NStreams : ~streams[i].open} \cup {NStreams + 1}) % (NStreams + 1)

\* __libc_fdopen: flags hold one of O_RDONLY, O_WRONLY and O_RDWR
libc_fdopen(streams, fd, flags) ==
    LET f == alloc_stream(streams)
    IN  [f |-> f,
         streams |-> IF f = 0 THEN streams ELSE [streams EXCEPT ![f] =
            [NoFile EXCEPT !.open = TRUE, !.fd = fd,
                           !.readfn = flags \cap {"O_RDONLY", "O_RDWR"} # {},
                           !.writefn = flags \cap {"O_WRONLY", "O_RDWR"} # {}]]]

\* parse_mode_string for the modes "r", "w" and "a"; whether plus, which is not
\* initialised, is true is up to the compiler.
parse_mode_string(first, plus) ==
    CASE first = "r" -> {IF plus THEN "O_RDWR" ELSE "O_RDONLY"}
      [] first = "w" -> {IF plus THEN "O_RDWR" ELSE "O_WRONLY", "O_CREAT", "O_TRUNC"}
      [] first = "a" -> {IF plus THEN "O_RDWR" ELSE "O_WRONLY", "O_CREAT", "O_APPEND"}

\* fdopen: f is 0 for null
fdopen(streams, fd, mode, plus) ==
    IF fd = Failed THEN [f |-> 0, streams |-> streams]
    ELSE libc_fdopen(streams, fd, parse_mode_string(mode, plus))

\* __libc_init_stdio
init_stdio ==
    LET closed == [i \in 1..NStreams |-> NoFile]
        in == libc_fdopen(closed, 0, {"O_RDONLY"}).streams
        out == libc_fdopen(in, 1, {"O_WRONLY"}).streams
    IN  libc_fdopen(out, 2, {"O_WRONLY"}).streams

stdin == 1

-----------------------------------------------------------------------------
\* __libc_read of size units from stream file over the descriptors t: read() until
\* there are enough, an error, or the end of the file.  A module gives what it has
\* with the first call, and nothing more with the second.
libc_read(file, t, size, writable) ==
    LET none == [file |-> file, t |-> t, bytes |-> << >>]
        r == read(t, file.fd, size, writable)
    IN  CASE file.eof                    -> none
          [] ~file.eof /\ (~file.readfn \/ r.n < 0) -> [none EXCEPT !.file.error = TRUE]
          [] ~file.eof /\ file.readfn /\ r.n >= 0 ->
                [file |-> [file EXCEPT !.eof = r.n < size], t |-> r.t, bytes |-> r.bytes]

\* The number of whole items that fread returns
Items(bytes, item_size) == Len(bytes) \div item_size

\* fseek
fseek(file, t, offset, whence) == lseek(t, file.fd, offset, whence).t

\* Mutant: the stream stays open.
fclose_open(streams, f, t) ==
    [streams |-> streams, t |-> close(t, streams[f].fd).t]

\* fclose, with closefn = close
fclose(streams, f, t) ==
    [streams |-> [streams EXCEPT ![f] = NoFile], t |-> close(t, streams[f].fd).t]

-----------------------------------------------------------------------------
\* The capacity of a line of getdelim that holds len characters and takes one more
Grown(len, cap) ==
    IF len + 1 < cap THEN cap ELSE IF cap < LineMin THEN LineMin ELSE (cap * 3) \div 2
=============================================================================
