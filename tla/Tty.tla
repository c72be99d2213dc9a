-------------------------------- MODULE Tty ---------------------------------
(***************************************************************************)
(* The serial terminal of the init program (programs/init.c): two server   *)
(* threads that answer the reads and writes of a client through IPC, one   *)
(* of them driving the UART with interrupts and a timeout.  Composes Irq   *)
(* and Ipc over one scheduler.                                             *)
(***************************************************************************)
EXTENDS Irq, Ipc

CONSTANTS
    Client, Reader, Writer,     \* main(), tty_listen_read, tty_listen_write
    Line,                       \* the interrupt line of the UART
    ReadLen,                    \* how many characters the client reads at once
    AckWait,                    \* timeout of _fluke_irq_ack_wait
    RxMax                       \* how many characters the UART can hold

ASSUME TtyAssumption ==
    /\ Threads = {Client, Reader, Writer}
    /\ Client # Reader /\ Client # Writer /\ Reader # Writer
    /\ ChannelCount = 2 /\ TransferMap["READ"] = 1 /\ TransferMap["WRITE"] = 2
    /\ Line \in Irqs \ Channels
    /\ ReadLen \in 1..MaxLen
    /\ AckWait \in 1..MaxWait
    /\ RxMax \in Nat \ {0}

VARIABLES
    pc,     \* what each thread does when it next runs
    rx,     \* characters the UART has received and nobody has read
    got     \* characters tty_read has put into its buffer

ttyVars == <<ipcVars, irq, pc, rx, got>>

\* tty_setup() has claimed the line, created the object, forked and spawned; the
\* UART interrupt is still masked.
TtyInit ==
    /\ sched = [ok |-> TRUE,
                state |-> [t \in Threads |-> IF t = Writer THEN "RUNNING" ELSE "READY"],
                runq |-> <<Client, Reader>>,
                sleepq |-> << >>,
                rem |-> [t \in Threads |-> 0],
                waitq |-> [q \in Queues |-> << >>],
                current |-> Writer,
                r0 |-> [t \in Threads |-> "user"]]
    /\ irq = [i \in Irqs |-> [claimed |-> i = Line, occurred |-> FALSE,
                              enabled |-> FALSE, pending |-> FALSE]]
    /\ channel = [c \in Channels |-> "EMPTY"]
    /\ ipc_caller = [t \in Threads |-> Nobody]
    /\ message = [t \in Threads |-> NoMessage]
    /\ closed_call = FALSE
    /\ pc = [t \in Threads |-> IF t = Client THEN "write" ELSE "listen"]
    /\ rx = 0
    /\ got = 0

At(t, label) == InUser /\ sched.current = t /\ pc[t] = label

goto(t, label) == pc' = [pc EXCEPT ![t] = label]

rw(op, len) == [op |-> op, tx |-> FALSE, len |-> len, rx |-> FALSE, frag |-> FALSE]

\* main(): fwrite, then getline
client_write(d) ==
    /\ At(Client, "write")
    /\ ipc_call(rw("write", MaxLen), d)
    /\ goto(Client, "read")
    /\ UNCHANGED <<irq, rx, got>>

client_read(d) ==
    /\ At(Client, "read")
    /\ ipc_call(rw("read", ReadLen), d)
    /\ goto(Client, "write")
    /\ UNCHANGED <<irq, rx, got>>

\* tty_listen_write and tty_write
writer_listen(d) ==
    /\ At(Writer, "listen")
    /\ listen(2, MaxLen, d)
    /\ goto(Writer, "respond")
    /\ UNCHANGED <<irq, rx, got>>

writer_respond ==
    /\ At(Writer, "respond")
    /\ respond
    /\ goto(Writer, "listen")
    /\ UNCHANGED <<irq, rx, got>>

\* tty_listen_read
reader_listen(d) ==
    /\ At(Reader, "listen")
    /\ listen(1, 0, d)
    /\ goto(Reader, "poll")
    /\ got' = 0
    /\ UNCHANGED <<irq, rx>>

\* tty_read: one look at the line status register, and the character if any
reader_poll ==
    /\ At(Reader, "poll")
    /\ got < ReadLen
    /\ IF rx > 0
       THEN rx' = rx - 1 /\ got' = got + 1 /\ UNCHANGED pc
       ELSE goto(Reader, "wait") /\ UNCHANGED <<rx, got>>
    /\ UNCHANGED <<ipcVars, irq>>

\* tty_read: _fluke_irq_ack_wait, which enables the line and waits
reader_ack_wait(d) ==
    /\ At(Reader, "wait")
    /\ ctl_wait_occurred(Line, TRUE) \/ ctl_wait(Line, TRUE, AckWait, d)
    /\ goto(Reader, "poll")
    /\ UNCHANGED <<ipcState, rx, got>>

\* Mutant: the reader goes back to listen and does not respond.
reader_respond_skipped(d) ==
    /\ At(Reader, "poll")
    /\ got = ReadLen
    /\ goto(Reader, "listen")
    /\ UNCHANGED <<ipcVars, irq, rx, got>>

\* tty_read: the answer, once alen characters are there
reader_respond(d) ==
    /\ At(Reader, "poll")
    /\ got = ReadLen
    /\ respond_string(ReadLen, d)
    /\ goto(Reader, "listen")
    /\ UNCHANGED <<irq, rx, got>>

\* External: a character arrives.  The UART holds its line while it has one, so
\* only the first gives an edge, lost if the line is masked at that moment.
receive ==
    /\ sched.ok
    /\ rx < RxMax
    /\ rx' = rx + 1
    /\ irq' = [irq EXCEPT ![Line].pending = @ \/ (rx = 0 /\ irq[Line].enabled)]
    /\ UNCHANGED <<ipcVars, pc, got>>

TtyTimer == \E d \in Elapsed : timer_interrupt(d) /\ UNCHANGED <<ipcState, irq, pc, rx, got>>
TtyTick == Tick /\ UNCHANGED <<ipcState, irq, pc, rx, got>>
TtyInterrupt ==
    \E d \in Elapsed : device_interrupt(Line, d) /\ UNCHANGED <<ipcState, pc, rx, got>>

ClientStep == \E d \in Elapsed : client_write(d) \/ client_read(d)
WriterStep == (\E d \in Elapsed : writer_listen(d)) \/ writer_respond
ReaderStep ==
    \/ \E d \in Elapsed : reader_listen(d) \/ reader_ack_wait(d) \/ reader_respond(d)
    \/ reader_poll

TtyNext ==
    \/ ClientStep
    \/ WriterStep
    \/ ReaderStep
    \/ receive
    \/ TtyInterrupt
    \/ TtyTimer
    \/ TtyTick

(***************************************************************************)
(* The timer and the clock never stop, a pending interrupt is taken, keys  *)
(* are pressed again and again, and a thread that gets the CPU time after  *)
(* time makes progress in its program between two timer interrupts.        *)
(***************************************************************************)
TtyFairness ==
    /\ WF_ttyVars(TtyTimer)
    /\ WF_ttyVars(TtyTick)
    /\ WF_ttyVars(TtyInterrupt)
    /\ WF_ttyVars(receive)
    /\ SF_ttyVars(ClientStep)
    /\ SF_ttyVars(WriterStep)
    /\ SF_ttyVars(ReaderStep)

TtySpec == TtyInit /\ [][TtyNext]_ttyVars /\ TtyFairness

-----------------------------------------------------------------------------
TtyTypeOK ==
    /\ IrqTypeOK
    /\ IpcTypeOK
    /\ pc \in [Threads -> {"write", "read", "listen", "respond", "poll", "wait"}]
    /\ rx \in 0..RxMax
    /\ got \in 0..ReadLen

\* The servers of init.c keep to the protocol: they respond to each call before
\* they listen again, so the assertion of call_transfer holds without any guard
\* of the kernel's, and their answers are never refused.
ServersKeepProtocol ==
    /\ TtyTypeOK
    /\ NoPanic
    /\ pc[Writer] = "listen" => ipc_caller[Writer] = Nobody
    /\ pc[Reader] = "listen" => ipc_caller[Reader] = Nobody
    /\ sched.current = Reader /\ pc[Reader] \in {"poll", "wait"} =>
            /\ ipc_caller[Reader] = Client
            /\ message[Client].rx /\ ReadLen <= message[Client].len

\* Every read of the client returns, though the edge of a character that arrives
\* between the look at the line status and the wait is lost.
ReadReturns ==
    (pc[Client] = "write" /\ sched.state[Client] # "RUNNING")
        ~> (pc[Client] = "write" /\ sched.state[Client] = "RUNNING")
=============================================================================
