-------------------------------- MODULE Ipc ---------------------------------
(***************************************************************************)
(* Synchronous message passing between threads (user/ipc.cxx), over the    *)
(* scheduler: one IPC object with its channels.  A caller and a listener   *)
(* meet on the channel that the object's transfer map assigns to the       *)
(* caller's transfer mode; the first to come is parked on the channel, the *)
(* second delivers the call and switches to the listener directly.         *)
(***************************************************************************)
EXTENDS Schedule

CONSTANTS
    ChannelCount,   \* channel_count
    TransferMap,    \* transfer_map: transfer mode -> channel, 0 for none
    PathMax,        \* PATH_MAX: the longest string of a small transfer
    MaxLen,         \* bound on the length of a string or a buffer
    Requests,       \* the calls that threads make: a set of requests
    Buffers,        \* the buffer lengths that threads listen with
    Faults,         \* the faults user memory can give: "read", "write"
    RespondFirst    \* do servers respond to a call before they listen again?

TransferMode == {"REGISTER", "SMALLSTR", "LARGESTR", "READ", "WRITE"}

Channels == 1..ChannelCount

(***************************************************************************)
(* The registers of a thread that takes part in a call.  role tells which  *)
(* side it is on; mode is the transfer mode (A0); len is CTX_LEN: the      *)
(* length of the string sent or of the buffer offered; rx and frag are the *)
(* flags IPC_CALL_RXSTR and IPC_CALL_FRAGMENT of CTX_MODE.                 *)
(***************************************************************************)
Message == [role : {"none", "call", "listen", "serve"},
            mode : TransferMode, len : 0..MaxLen, rx : BOOLEAN, frag : BOOLEAN]

NoMessage == [role |-> "none", mode |-> "REGISTER", len |-> 0, rx |-> FALSE, frag |-> FALSE]

\* A request as system call arguments: which call it is, whether it transmits a
\* string (IPC_CALL_TXSTR), CTX_LEN, and the other mode flags.
Request == [op : {"ipc_call", "read", "write"}, tx : BOOLEAN,
            len : 0..MaxLen, rx : BOOLEAN, frag : BOOLEAN]

ASSUME IpcAssumption ==
    /\ ChannelCount \in Nat
    /\ Channels \subseteq Queues
    /\ TransferMap \in [TransferMode -> 0..ChannelCount]
    /\ PathMax \in Nat /\ MaxLen \in Nat
    /\ Requests \subseteq Request
    /\ Buffers \subseteq 0..MaxLen
    /\ Faults \subseteq {"read", "write"}
    /\ RespondFirst \in BOOLEAN

VARIABLES
    channel,        \* IPC_channel::state of each channel
    ipc_caller,     \* Thread::ipc_caller: whose call a thread serves
    message,        \* the registers of the threads taking part in a call
    closed_call     \* IPCimpl::closed_call: the last descriptor is closed

ipcState == <<channel, ipc_caller, message, closed_call>>
ipcVars == <<sched, ipcState>>

IpcInit ==
    /\ SchedInit
    /\ channel = [c \in Channels |-> "EMPTY"]
    /\ ipc_caller = [t \in Threads |-> Nobody]
    /\ message = [t \in Threads |-> NoMessage]
    /\ closed_call = FALSE

\* check_user_range refuses an empty range.
RangeOk(len) == len > 0

\* Does the call get past its argument checks (call_transfer_mode, SYSCALL(read),
\* SYSCALL(write))?
Accepted(req) == (req.op # "ipc_call" \/ req.tx) => RangeOk(req.len)

call_transfer_mode(req) ==
    CASE req.op = "read"  -> "READ"
      [] req.op = "write" -> "WRITE"
      [] req.op = "ipc_call" /\ req.tx /\ req.len <= PathMax -> "SMALLSTR"
      [] req.op = "ipc_call" /\ req.tx /\ req.len > PathMax -> "LARGESTR"
      [] OTHER -> "REGISTER"

CallMessage(req) ==
    [role |-> "call", mode |-> call_transfer_mode(req),
     len |-> req.len, rx |-> req.rx, frag |-> req.frag]

\* The outcomes of memcpy_user_user_catch_fault: an empty range counts as a fault
\* of the source; the destination may be unmapped; a source pointer that was not
\* checked before may be bad.
CopyOutcome(len, checked) ==
    IF ~RangeOk(len) THEN {"read"}
    ELSE {"ok"} \cup (IF checked THEN Faults \ {"read"} ELSE Faults)

\* Mutant: only the side at fault is made ready.
transfer_error_one(s, error, guilty, innocent, d) ==
    schedule_or_exit(
        schedule_ready(
            [s EXCEPT !.r0[guilty] = error, !.r0[innocent] = "EIPCIO"],
            guilty),
        d)

transfer_error(s, error, guilty, innocent, d) ==
    schedule_or_exit(
        schedule_ready(
            schedule_ready(
                [s EXCEPT !.r0[guilty] = error, !.r0[innocent] = "EIPCIO"],
                guilty),
            innocent),
        d)

\* copy_string failed: the side at fault gets EFAULT
copy_error(s, fault, source, dest, d) ==
    IF fault = "read" THEN transfer_error(s, "EFAULT", source, dest, d)
                      ELSE transfer_error(s, "EFAULT", dest, source, d)

\* The call is too long for the listener and may not be cut.
TooBig(call, buffer) ==
    call.mode \in {"SMALLSTR", "LARGESTR"} /\ call.len > buffer /\ ~call.frag

CopiesString(call) == call.mode \in {"SMALLSTR", "LARGESTR", "WRITE"}

Shorter(a, b) == IF a < b THEN a ELSE b

\* Mutant: the length is not limited to the buffer.
DeliveredLen_uncut(call, buffer) == call.len

\* What CTX_LEN of the listener becomes
DeliveredLen(call, buffer) ==
    IF CopiesString(call) THEN Shorter(call.len, buffer) ELSE call.len

\* call_transfer, from caller c to listener l; call and buffer are their registers
call_transfer(s, c, l, call, buffer, d) ==
    LET checked == [s EXCEPT !.ok = /\ @
                                    /\ s.state[c] = "FLOATING"
                                    /\ s.state[l] = "FLOATING"
                                    /\ ipc_caller[l] = Nobody]
        len == DeliveredLen(call, buffer)
        failed == message' = [message EXCEPT ![c] = NoMessage, ![l] = NoMessage]
    IN  \/ /\ TooBig(call, buffer)
           /\ transfer_error(checked, "E2BIG", c, l, d)
           /\ failed
           /\ UNCHANGED ipc_caller
        \/ /\ ~TooBig(call, buffer) /\ CopiesString(call)
           /\ \E fault \in CopyOutcome(len, TRUE) \ {"ok"} :
                copy_error(checked, fault, c, l, d)
           /\ failed
           /\ UNCHANGED ipc_caller
        \/ /\ ~TooBig(call, buffer)
           /\ CopiesString(call) => "ok" \in CopyOutcome(len, TRUE)
           /\ sched' = cpu_context_restore_and_exit([checked EXCEPT !.state[c] = "CALLING"], l)
           /\ ipc_caller' = [ipc_caller EXCEPT ![l] = c]
           /\ message' = [message EXCEPT
                ![c] = [call EXCEPT !.rx = CASE call.mode = "WRITE" -> FALSE
                                             [] call.mode = "READ" -> TRUE
                                             [] OTHER -> @],
                ![l] = [call EXCEPT !.role = "serve", !.len = len]]

\* The current thread parks on channel ch, in the role its registers m describe.
park(ch, side, m, d) ==
    /\ channel' = [channel EXCEPT ![ch] = side]
    /\ message' = [message EXCEPT ![sched.current] = m]
    /\ schedule_or_exit(
            push_into(
                [cpu_context_save(sched, "user") EXCEPT
                    !.ok = @ /\ (channel[ch] = "EMPTY") = (sched.waitq[ch] = << >>)],
                sched.current, ch),
            d)

\* The first thread parked on channel ch leaves it to meet the current thread.
Popped(ch) ==
    pop_from([cpu_context_save(sched, "user") EXCEPT !.ok = @ /\ sched.waitq[ch] # << >>], ch)

\* Mutant: a channel counts as empty though others wait on it.
unparked_always(ch) == channel' = [channel EXCEPT ![ch] = "EMPTY"]

unparked(ch) ==
    channel' = IF Len(sched.waitq[ch]) = 1 THEN [channel EXCEPT ![ch] = "EMPTY"] ELSE channel

\* IPC_handle::ipc_call, reached from SYSCALL(ipc_call), SYSCALL(read) and
\* SYSCALL(write) of a thread that holds a descriptor of the object
ipc_call(req, d) ==
    LET call == CallMessage(req)
        ch == TransferMap[call.mode]
    IN  /\ InUser
        /\ ~closed_call
        /\ Accepted(req)
        /\ ch # 0
        /\ \/ channel[ch] \in {"EMPTY", "CALLING"}
              /\ park(ch, "CALLING", call, d)
              /\ UNCHANGED ipc_caller
           \/ channel[ch] = "LISTENING"
              /\ unparked(ch)
              /\ LET l == Head(sched.waitq[ch])
                 IN  call_transfer(Popped(ch), sched.current, l, call, message[l].len, d)
        /\ UNCHANGED closed_call

\* IPC::listen; EPIPE once the call side is closed
listen(ch, buffer, d) ==
    /\ InUser
    /\ ~closed_call
    /\ RespondFirst => ipc_caller[sched.current] = Nobody
    /\ \/ channel[ch] \in {"EMPTY", "LISTENING"}
          /\ park(ch, "LISTENING", [NoMessage EXCEPT !.role = "listen", !.len = buffer], d)
          /\ UNCHANGED ipc_caller
       \/ channel[ch] = "CALLING"
          /\ unparked(ch)
          /\ LET c == Head(sched.waitq[ch])
             IN  call_transfer(Popped(ch), c, sched.current, message[c], buffer, d)
    /\ UNCHANGED closed_call

\* The responder r gives up its caller c, which is FLOATING from here on.
Served(s, c) ==
    [s EXCEPT !.ok = @ /\ s.state[c] = "CALLING",
              !.state[c] = "FLOATING"]

\* Mutant: a response makes every server forget its caller.
callEnds_all(r, c) ==
    /\ ipc_caller' = [t \in Threads |-> Nobody]
    /\ message' = [message EXCEPT ![r] = NoMessage, ![c] = NoMessage]
    /\ UNCHANGED <<channel, closed_call>>

\* Mutant: the responder keeps its caller.
callEnds_keeps(r, c) ==
    /\ message' = [message EXCEPT ![r] = NoMessage, ![c] = NoMessage]
    /\ UNCHANGED <<channel, ipc_caller, closed_call>>

callEnds(r, c) ==
    /\ ipc_caller' = [ipc_caller EXCEPT ![r] = Nobody]
    /\ message' = [message EXCEPT ![r] = NoMessage, ![c] = NoMessage]
    /\ UNCHANGED <<channel, closed_call>>

\* IPC::respond without a string: the responder goes on
respond ==
    LET r == sched.current
        c == ipc_caller[r]
    IN  /\ InUser
        /\ c # Nobody
        /\ sched' = schedule_ready([Served(sched, c) EXCEPT !.r0[c] = "reply"], c)
        /\ callEnds(r, c)

\* IPC::respond with a string that the caller did not ask for or cannot hold: the
\* caller gets EIPCIO, the responder goes on with EINVAL or E2BIG
respond_refused(len) ==
    LET r == sched.current
        c == ipc_caller[r]
    IN  /\ InUser
        /\ c # Nobody
        /\ ~message[c].rx \/ len > message[c].len
        /\ sched' = schedule_ready([Served(sched, c) EXCEPT !.r0[c] = "EIPCIO"], c)
        /\ callEnds(r, c)

\* IPC::respond with a string: copy it and switch to the caller directly
respond_string(len, d) ==
    LET r == sched.current
        c == ipc_caller[r]
        saved == cpu_context_save(Served(sched, c), "user")
    IN  /\ InUser
        /\ c # Nobody
        /\ message[c].rx
        /\ len <= message[c].len
        /\ \/ "ok" \in CopyOutcome(len, FALSE)
              /\ sched' = cpu_context_restore_and_exit(
                            schedule_ready(
                                [saved EXCEPT !.r0[c] = "reply", !.r0[r] = "0"], r),
                            c)
           \/ \E fault \in CopyOutcome(len, FALSE) \ {"ok"} :
                copy_error(saved, fault, r, c, d)
        /\ callEnds(r, c)

\* Mutant: callers get EPIPE and listeners EBADF.
close_channel_swapped(s, ch) ==
    schedule_wake_all(s, ch, IF channel[ch] = "LISTENING" THEN "EBADF" ELSE "EPIPE")

\* One turn of the loop of IPC_handle::close
close_channel(s, ch) ==
    LET woken == schedule_wake_all(s, ch,
                    IF channel[ch] = "LISTENING" THEN "EPIPE" ELSE "EBADF")
    IN  [woken EXCEPT !.ok = @ /\ (channel[ch] = "EMPTY") = (s.waitq[ch] = << >>)]

\* The loop of IPC_handle::close: turn[ch] is the state once channel ch is done.
close_channels(s) ==
    LET turn[ch \in 0..ChannelCount] ==
            IF ch = 0 THEN s ELSE close_channel(turn[ch - 1], ch)
    IN  turn[ChannelCount]

\* IPC_handle::close, when the last descriptor of the object is closed
close ==
    /\ InUser
    /\ ~closed_call
    /\ closed_call' = TRUE
    /\ sched' = close_channels(sched)
    /\ message' = [t \in Threads |->
            IF message[t].role \in {"call", "listen"} /\ sched.state[t] = "WAITING"
            THEN NoMessage ELSE message[t]]
    /\ UNCHANGED <<channel, ipc_caller>>

IpcNext ==
    \/ SchedNext /\ UNCHANGED ipcState
    \/ \E req \in Requests, d \in Elapsed : ipc_call(req, d)
    \/ \E ch \in Channels, buffer \in Buffers, d \in Elapsed : listen(ch, buffer, d)
    \/ respond
    \/ \E len \in 0..MaxLen : respond_refused(len)
    \/ \E len \in 0..MaxLen, d \in Elapsed : respond_string(len, d)
    \/ close

IpcSpec == IpcInit /\ [][IpcNext]_ipcVars
-----------------------------------------------------------------------------
IpcTypeOK ==
    /\ TypeOK
    /\ channel \in [Channels -> {"EMPTY", "LISTENING", "CALLING"}]
    /\ ipc_caller \in [Threads -> Threads \cup {Nobody}]
    /\ message \in [Threads -> Message]
    /\ closed_call \in BOOLEAN

\* Hand-offs between caller and server, failed copies and a close leave every
\* thread linked where its state says, and no assert of ipc.cxx or the scheduler
\* fails on the way.
IpcSound == IpcTypeOK /\ NoPanic /\ QueuesMatchStates

\* No caller is orphaned and none is served twice: a thread is CALLING exactly
\* when one server, and only one, holds it as its ipc_caller.
CallingHasOneServer ==
    \A c \in Threads :
        Cardinality({l \in Threads : ipc_caller[l] = c}) =
            IF sched.state[c] = "CALLING" THEN 1 ELSE 0

\* While the object is open, the state of a channel tells who is parked on it:
\* nobody, only listeners or only callers, so a caller and a listener never both
\* wait on one channel.  Once the object is closed nobody is left parked.
ChannelTellsWhoWaits ==
    \A ch \in Channels :
        IF closed_call THEN sched.waitq[ch] = << >>
        ELSE /\ (channel[ch] = "EMPTY") <=> (sched.waitq[ch] = << >>)
             /\ \A t \in Range(sched.waitq[ch]) :
                    channel[ch] = (IF message[t].role = "call" THEN "CALLING" ELSE "LISTENING")

\* A call is delivered whole, or cut to the listener's buffer where that is
\* allowed: never more than was sent, never more than the buffer holds.
DeliveryFits ==
    [][\A l \in Threads :
        LET c == ipc_caller'[l]
            buffers == IF sched.state[l] = "WAITING" THEN {message[l].len} ELSE Buffers
        IN  c # Nobody /\ c # ipc_caller[l] =>
                /\ message'[l].len <= message'[c].len
                /\ CopiesString(message'[c]) =>
                        /\ 0 < message'[l].len
                        /\ \E b \in buffers : message'[l].len <= b
                /\ message'[l].len < message'[c].len =>
                        message'[c].mode = "WRITE" \/ message'[c].frag
      ]_ipcVars

\* A thread that leaves a call gets an answer or an error the code documents for
\* it: only a served caller gets a reply, only a close gives EPIPE or EBADF.
CallEndsTellWhy ==
    [][\A t \in Threads :
        /\ message[t].role = "call" /\ message'[t].role = "none" =>
            \/ sched.state[t] = "CALLING" /\ sched'.r0[t] \in {"reply", "EIPCIO", "EFAULT"}
            \/ sched.state[t] = "WAITING" /\ sched'.r0[t] \in {"EIPCIO", "EFAULT", "E2BIG"}
            \/ sched'.r0[t] = "EBADF" /\ closed_call' # closed_call
        /\ message[t].role = "listen" /\ message'[t].role = "none" =>
            \/ sched'.r0[t] \in {"EIPCIO", "EFAULT"}
            \/ sched'.r0[t] = "EPIPE" /\ closed_call' # closed_call
      ]_ipcVars

\* Who is where in a call, in the terms of module Rpc
CallPhase(t) ==
    IF sched.state[t] = "CALLING" THEN "served"
    ELSE IF sched.state[t] = "WAITING" /\ message[t].role = "call" THEN "pending"
    ELSE "idle"

Rpcs == INSTANCE Rpc WITH phase <- [t \in Threads |-> CallPhase(t)],
                          serving <- ipc_caller

\* Message passing implements remote calls: a call is accepted by one server, and
\* only that server's response, or a failure before it was accepted, ends it.
ImplementsRpc == Rpcs!Spec

\* Calls that were accepted never wait for each other in a circle.
NoCallCycle == Rpcs!NoCallCycle
=============================================================================
