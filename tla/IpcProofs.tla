------------------------------ MODULE IpcProofs ------------------------------
(***************************************************************************)
(* Proofs about message passing, for any number of threads and channels,   *)
(* any transfer map, and servers that respond before they listen again.    *)
(***************************************************************************)
EXTENDS Ipc, ScheduleProofs, NaturalsInduction, WellFoundedInduction

-----------------------------------------------------------------------------
(***************************************************************************)
(* The loop of IPC_handle::close                                           *)
(***************************************************************************)

\* Induction, for a set of numbers: one that holds 0 and, with each number, the next
\* one.
LEMMA CountLemma ==
    ASSUME NEW S, 0 \in S, \A n \in Nat : n \in S => n + 1 \in S
    PROVE  Nat \subseteq S
<1> SUFFICES ASSUME NEW m \in Nat, m \notin S PROVE FALSE
  OBVIOUS
<1> DEFINE Out == Nat \ S
<1>1. IsWellFoundedOn(OpToRel(<, Nat), Nat)
  BY NatLessThanWellFounded
<1>2. PICK x \in Out : \A y \in Out : ~(<<y, x>> \in OpToRel(<, Nat))
  <2>1. Out \subseteq Nat /\ Out # {}
    OBVIOUS
  <2> HIDE DEF Out
  <2> QED
    BY <1>1, <2>1, WFMin
<1>3. x \in Nat \ {0} /\ x - 1 \in Nat /\ (x - 1) + 1 = x /\ x - 1 < x
  OBVIOUS
<1>4. x - 1 \in Out
  BY <1>3
<1>5. <<x - 1, x>> \in OpToRel(<, Nat)
  BY <1>3 DEF OpToRel
<1> QED
  BY <1>2, <1>4, <1>5

\* The state once i channels are closed, for i up to n
Turns(s, n, turn) ==
    turn = [i \in 0..n |-> IF i = 0 THEN s ELSE close_channel(turn[i - 1], i)]

\* The loop is well defined, however many channels there are.
LEMMA LoopLemma ==
    ASSUME NEW s, NEW n \in Nat
    PROVE  \E turn : Turns(s, n, turn)
<1> DEFINE S == {m \in Nat : \E turn : Turns(s, m, turn)}
<1>1. 0 \in S
  <2> DEFINE g == [i \in 0..0 |-> s]
  <2>1. \A i \in 0..0 : i = 0
    OBVIOUS
  <2>2. Turns(s, 0, g)
    BY <2>1 DEF Turns
  <2> QED
    BY <2>2
<1>2. ASSUME NEW m \in Nat, m \in S
      PROVE  m + 1 \in S
  <2>1. PICK g : Turns(s, m, g)
    BY <1>2
  <2> DEFINE h == [i \in 0..m + 1 |-> IF i <= m THEN g[i] ELSE close_channel(g[m], i)]
             step(i) == IF i = 0 THEN s ELSE close_channel(h[i - 1], i)
  <2>2. \A i \in 0..m : g[i] = IF i = 0 THEN s ELSE close_channel(g[i - 1], i)
    BY <2>1 DEF Turns
  <2>3. \A i \in 0..m + 1 : h[i] = step(i)
    <3> SUFFICES ASSUME NEW i \in 0..m + 1 PROVE h[i] = step(i)
      OBVIOUS
    <3>1. CASE i = 0
      BY <2>2, <3>1
    <3>2. CASE i \in 1..m
      <4>1. i \in 0..m /\ i <= m /\ i - 1 \in 0..m + 1 /\ i - 1 <= m /\ i # 0
        BY <3>2
      <4>2. h[i] = g[i] /\ h[i - 1] = g[i - 1]
        BY <4>1
      <4> QED
        BY <2>2, <4>1, <4>2
    <3>3. CASE i = m + 1
      <4>1. ~(i <= m) /\ i - 1 = m /\ m \in 0..m + 1 /\ i # 0
        BY <3>3
      <4>2. h[i] = close_channel(g[m], i) /\ h[m] = g[m]
        BY <4>1
      <4> QED
        BY <4>1, <4>2
    <3> QED
      BY <3>1, <3>2, <3>3
  <2>4. h = [i \in 0..m + 1 |-> step(i)]
    <3>1. h = [i \in 0..m + 1 |-> h[i]]
      OBVIOUS
    <3> HIDE DEF h, step
    <3> QED
      BY <2>3, <3>1
  <2>5. Turns(s, m + 1, h)
    BY <2>4 DEF Turns
  <2> QED
    BY <2>5
<1> HIDE DEF S
<1>3. Nat \subseteq S
  BY <1>1, <1>2, CountLemma
<1> QED
  BY <1>3 DEF S

\* What close_channels computes.
LEMMA CloseChannelsLemma ==
    ASSUME NEW s
    PROVE  \E turn : Turns(s, ChannelCount, turn) /\ close_channels(s) = turn[ChannelCount]
<1> DEFINE f == CHOOSE turn : Turns(s, ChannelCount, turn)
<1>1. Turns(s, ChannelCount, f)
  BY LoopLemma, IpcAssumption
<1>2. close_channels(s) = f[ChannelCount]
  BY DEF close_channels, Turns
<1> QED
  BY <1>1, <1>2

-----------------------------------------------------------------------------
(***************************************************************************)
(* The parts of the invariant, of a scheduler state s and the calls        *)
(***************************************************************************)

\* Only sleepers have timeouts: nobody waits on a channel with a deadline.
SleepersSleep(s) == \A t \in Range(s.sleepq) : s.state[t] = "SLEEPING"

\* Whoever waits, waits on a channel.
OnlyChannels(s) == \A q \in Queues \ Channels : s.waitq[q] = << >>

\* ChannelTellsWhoWaits, of s
ChannelsTell(s, chan, msg, closed) ==
    \A ch \in Channels :
        IF closed THEN s.waitq[ch] = << >>
        ELSE /\ chan[ch] = "EMPTY" <=> s.waitq[ch] = << >>
             /\ \A t \in Range(s.waitq[ch]) :
                    chan[ch] = IF msg[t].role = "call" THEN "CALLING" ELSE "LISTENING"

\* A thread is CALLING exactly when one server holds it.
ServersMatch(s, callers) ==
    /\ \A c \in Threads : s.state[c] = "CALLING" => \E l \in Threads : callers[l] = c
    /\ \A l \in Threads : callers[l] # Nobody =>
            /\ s.state[callers[l]] = "CALLING"
            /\ \A m \in Threads : callers[m] = callers[l] => m = l

\* The registers of a thread tell what it waits for; whoever listens serves nobody.
RolesMatch(s, callers, msg) ==
    \A t \in Threads :
        /\ msg[t].role = "call" => s.state[t] \in {"WAITING", "CALLING"}
        /\ msg[t].role = "listen" => s.state[t] = "WAITING" /\ callers[t] = Nobody
        /\ s.state[t] = "WAITING" => msg[t].role \in {"call", "listen"}
        /\ s.state[t] = "CALLING" => msg[t].role = "call"

CallsAgree(s, chan, callers, msg, closed) ==
    /\ SleepersSleep(s)
    /\ OnlyChannels(s)
    /\ ChannelsTell(s, chan, msg, closed)
    /\ ServersMatch(s, callers)
    /\ RolesMatch(s, callers, msg)

IpcTypes ==
    /\ channel \in [Channels -> {"EMPTY", "LISTENING", "CALLING"}]
    /\ ipc_caller \in [Threads -> Threads \cup {Nobody}]
    /\ message \in [Threads -> Message]
    /\ closed_call \in BOOLEAN

(***************************************************************************)
(* The inductive invariant                                                 *)
(***************************************************************************)
IpcInv ==
    /\ SchedInv
    /\ IpcTypes
    /\ CallsAgree(sched, channel, ipc_caller, message, closed_call)
    /\ NoCallCycle

-----------------------------------------------------------------------------
\* Thread t is as much in a call in n as it is in s.
Kept(s, n, t) ==
    /\ n.state[t] = "CALLING" <=> s.state[t] = "CALLING"
    /\ n.state[t] = "WAITING" <=> s.state[t] = "WAITING"

\* The calls look the same in s and in n.
Like(s, n) ==
    /\ \A t \in Threads : Kept(s, n, t)
    /\ \A q \in Queues : Range(n.waitq[q]) = Range(s.waitq[q])

\* A reschedule changes nothing for the threads that take part in a call: none of them
\* has a timeout.
LEMMA KeptLemma ==
    ASSUME NEW s, Sound(s), SleepersSleep(s), NEW d, NEW n, Rescheduled(s, d, n)
    PROVE  /\ Like(s, n) /\ SleepersSleep(n)
           /\ \A t \in Threads : t # s.current => n.r0[t] = s.r0[t]
<1>1. /\ Sound(n)
      /\ Range(n.sleepq) = Range(s.sleepq) \ Due(s, d)
      /\ \A q \in Queues : Range(n.waitq[q]) = Range(s.waitq[q]) \ Due(s, d)
      /\ \A t \in Due(s, d) : n.state[t] \in {"READY", "RUNNING"}
      /\ \A t \in Threads \ Due(s, d) : Switched(s.state[t], n.state[t])
      /\ \A t \in Threads : t # s.current => n.r0[t] = s.r0[t]
  BY DEF Rescheduled
<1>2. /\ Range(s.sleepq) \subseteq Threads
      /\ \A t \in Due(s, d) : t \in Threads /\ s.state[t] = "SLEEPING"
  <2>1. s.sleepq \in Seq(Threads)
    BY DEF Sound, SchedState
  <2> QED
    BY <2>1, RangeLemma DEF Due, SleepersSleep
<1>3. \A t \in Threads : Kept(s, n, t)
  BY <1>1, <1>2 DEF Kept, Switched
<1>4. \A q \in Queues : Range(n.waitq[q]) = Range(s.waitq[q])
  <2> SUFFICES ASSUME NEW q \in Queues, NEW t \in Range(s.waitq[q]) PROVE t \notin Due(s, d)
    BY <1>1
  <2>1. s.state[t] = "WAITING"
    BY WaiterLemma
  <2> QED
    BY <1>2, <2>1
<1>5. SleepersSleep(n)
  <2> SUFFICES ASSUME NEW t \in Range(n.sleepq) PROVE n.state[t] = "SLEEPING"
    BY DEF SleepersSleep
  <2>1. t \in Range(s.sleepq) /\ t \notin Due(s, d) /\ t \in Threads
    BY <1>1, <1>2
  <2>2. s.state[t] = "SLEEPING" /\ Switched(s.state[t], n.state[t])
    BY <1>1, <2>1 DEF SleepersSleep
  <2> QED
    BY <2>2 DEF Switched
<1> QED
  BY <1>1, <1>3, <1>4, <1>5 DEF Like

\* What the channels and the callers say of one state, they say of the other.
LEMMA LikeLemma ==
    ASSUME NEW s, NEW n, s \in SchedState, n \in SchedState, Like(s, n),
           NEW chan, NEW callers, NEW msg, NEW closed,
           callers \in [Threads -> Threads \cup {Nobody}],
           OnlyChannels(s), ChannelsTell(s, chan, msg, closed),
           ServersMatch(s, callers), RolesMatch(s, callers, msg)
    PROVE  /\ OnlyChannels(n) /\ ChannelsTell(n, chan, msg, closed)
           /\ ServersMatch(n, callers) /\ RolesMatch(n, callers, msg)
<1>1. \A q \in Queues : n.waitq[q] = << >> <=> s.waitq[q] = << >>
  BY NobodyWaitsLemma DEF Like
<1>2. OnlyChannels(n)
  BY <1>1 DEF OnlyChannels
<1>3. ChannelsTell(n, chan, msg, closed)
  BY <1>1, IpcAssumption DEF ChannelsTell, Like
<1>4. ServersMatch(n, callers)
  BY DEF ServersMatch, Like, Kept
<1>5. RolesMatch(n, callers, msg)
  BY DEF RolesMatch, Like, Kept
<1> QED
  BY <1>2, <1>3, <1>4, <1>5

-----------------------------------------------------------------------------
(***************************************************************************)
(* The kinds of steps, seen from the calls                                 *)
(***************************************************************************)

Others(S) == \A t \in Threads \ S : Kept(sched, sched', t)

Free(t) == sched'.state[t] \notin {"CALLING", "WAITING"}

\* No call is concerned.
Unmoved == Like(sched, sched') /\ UNCHANGED ipcState

\* Thread c parks on channel ch.
Joined(c, ch, side, m) ==
    /\ c \in Threads /\ sched.state[c] = "RUNNING" /\ sched'.state[c] = "WAITING"
    /\ Others({c})
    /\ ch \in Channels /\ ~closed_call /\ channel[ch] \in {"EMPTY", side}
    /\ Range(sched'.waitq[ch]) = Range(sched.waitq[ch]) \cup {c}
    /\ \A q \in Queues \ {ch} : Range(sched'.waitq[q]) = Range(sched.waitq[q])
    /\ m \in Message
    /\ \/ side = "CALLING" /\ m.role = "call"
       \/ side = "LISTENING" /\ m.role = "listen" /\ ipc_caller[c] = Nobody
    /\ channel' = [channel EXCEPT ![ch] = side]
    /\ message' = [message EXCEPT ![c] = m]
    /\ UNCHANGED <<ipc_caller, closed_call>>

\* Thread t, which is parked on channel ch, and the current thread meet: one of them is
\* the caller c, the other the listener l.
Met(c, l, ch, t) ==
    /\ c \in Threads /\ l \in Threads /\ c # l /\ t \in {c, l}
    /\ sched.state[t] = "WAITING"
    /\ \A u \in {c, l} \ {t} : sched.state[u] = "RUNNING"
    /\ Others({c, l})
    /\ ch \in Channels /\ ~closed_call /\ closed_call' = closed_call
    /\ t \in Range(sched.waitq[ch])
    /\ Range(sched'.waitq[ch]) = Range(sched.waitq[ch]) \ {t}
    /\ \A q \in Queues \ {ch} : Range(sched'.waitq[q]) = Range(sched.waitq[q])
    /\ channel[ch] = IF t = c THEN "CALLING" ELSE "LISTENING"
    /\ channel' = IF Range(sched'.waitq[ch]) = {} THEN [channel EXCEPT ![ch] = "EMPTY"]
                                                   ELSE channel
    /\ ipc_caller[l] = Nobody

\* ... and the call is delivered.
Delivered(c, l, call, buffer) ==
    /\ sched'.state[c] = "CALLING" /\ Free(l)
    /\ call \in Message /\ call.role = "call" /\ buffer \in 0..MaxLen
    /\ buffer \in IF sched.state[l] = "WAITING" THEN {message[l].len} ELSE Buffers
    /\ ~TooBig(call, buffer)
    /\ CopiesString(call) => RangeOk(DeliveredLen(call, buffer))
    /\ ipc_caller' = [ipc_caller EXCEPT ![l] = c]
    /\ message' = [message EXCEPT
            ![c] = [call EXCEPT !.rx = CASE call.mode = "WRITE" -> FALSE
                                         [] call.mode = "READ" -> TRUE
                                         [] OTHER -> @],
            ![l] = [call EXCEPT !.role = "serve", !.len = DeliveredLen(call, buffer)]]

\* ... and the call fails.
Failed(c, l) ==
    /\ Free(c) /\ Free(l)
    /\ sched'.r0[c] \in {"EIPCIO", "EFAULT", "E2BIG"}
    /\ sched'.r0[l] \in {"EIPCIO", "EFAULT"}
    /\ message' = [message EXCEPT ![c] = NoMessage, ![l] = NoMessage]
    /\ UNCHANGED ipc_caller

\* Server r ends the call of thread c.
Ended(r, c) ==
    /\ r \in Threads /\ c \in Threads /\ c = ipc_caller[r]
    /\ sched.state[r] = "RUNNING" /\ Free(c)
    /\ Others({c})
    /\ \A q \in Queues : Range(sched'.waitq[q]) = Range(sched.waitq[q])
    /\ sched'.r0[c] \in {"reply", "EIPCIO", "EFAULT"}
    /\ callEnds(r, c)

\* The object is closed.
Closed ==
    /\ ~closed_call /\ closed_call' = TRUE /\ UNCHANGED <<channel, ipc_caller>>
    /\ message' = [t \in Threads |->
            IF message[t].role \in {"call", "listen"} /\ sched.state[t] = "WAITING"
            THEN NoMessage ELSE message[t]]
    /\ \A q \in Queues : sched'.waitq[q] = << >>
    /\ \A t \in Threads :
        /\ sched'.state[t] = "CALLING" <=> sched.state[t] = "CALLING"
        /\ sched'.state[t] # "WAITING"
        /\ sched.state[t] = "WAITING" =>
                /\ message[t].role = "call" => sched'.r0[t] = "EBADF"
                /\ message[t].role = "listen" => sched'.r0[t] = "EPIPE"

IpcStep ==
    \/ Unmoved
    \/ \E c, ch, side, m : Joined(c, ch, side, m)
    \/ \E c, l, ch, t, call, buffer : Met(c, l, ch, t) /\ Delivered(c, l, call, buffer)
    \/ \E c, l, ch, t : Met(c, l, ch, t) /\ Failed(c, l)
    \/ \E r, c : Ended(r, c)
    \/ Closed

-----------------------------------------------------------------------------
(***************************************************************************)
(* Each action is a step of one of these kinds.                            *)
(***************************************************************************)

\* What every action can count on.
LEMMA IpcInvLemma ==
    ASSUME IpcInv
    PROVE  /\ Sound(sched) /\ Floating(sched) = {} /\ sched.ok
           /\ sched \in SchedState
           /\ sched.state \in [Threads -> ThreadState]
           /\ sched.r0 \in [Threads -> R0Value]
           /\ sched.waitq \in [Queues -> Seq(Threads)]
           /\ Range(sched.sleepq) \subseteq Threads
           /\ IpcTypes
           /\ SleepersSleep(sched) /\ OnlyChannels(sched)
           /\ ChannelsTell(sched, channel, message, closed_call)
           /\ ServersMatch(sched, ipc_caller)
           /\ RolesMatch(sched, ipc_caller, message)
<1>1. Sound(sched) /\ Floating(sched) = {}
  BY DEF IpcInv, SchedInv
<1>2. sched \in SchedState /\ sched.ok /\ sched.sleepq \in Seq(Threads)
  BY <1>1 DEF Sound, SchedState
<1>3. Range(sched.sleepq) \subseteq Threads
  BY <1>2, RangeLemma
<1>4. /\ sched.state \in [Threads -> ThreadState]
      /\ sched.r0 \in [Threads -> R0Value]
      /\ sched.waitq \in [Queues -> Seq(Threads)]
  BY <1>2 DEF SchedState
<1> QED
  BY <1>1, <1>2, <1>3, <1>4 DEF IpcInv, CallsAgree

\* Steps of the scheduler alone leave the calls as they are.
LEMMA SchedUnmovedLemma ==
    ASSUME IpcInv, SchedNext, UNCHANGED ipcState
    PROVE  SchedInv' /\ SleepersSleep(sched') /\ Unmoved
<1> USE SchedAssumption
<1>1. /\ SchedInv /\ Sound(sched) /\ SleepersSleep(sched)
      /\ sched.state \in [Threads -> ThreadState]
      /\ Range(sched.sleepq) \subseteq Threads
  BY IpcInvLemma DEF IpcInv
<1>2. SchedInv'
  BY <1>1, SchedNextLemma
<1>3. Like(sched, sched') /\ SleepersSleep(sched')
  <2>1. CASE \E n \in 1..MaxWait, d \in Elapsed : nsleep(n, d)
    <3>1. PICK n \in Nat, d \in Elapsed : nsleep(n, d)
      BY <2>1
    <3> DEFINE c == sched.current
    <3>2. d \in Nat
      OBVIOUS
    <3>3. PICK s : /\ Sound(s) /\ Rescheduled(s, d, sched')
                   /\ s.waitq = sched.waitq
                   /\ Range(s.sleepq) = Range(sched.sleepq) \cup {c}
                   /\ \A t \in Threads \ {c} : s.state[t] = sched.state[t]
                   /\ sched.state[c] = "RUNNING" /\ s.state[c] = "SLEEPING"
      BY <1>1, <3>1, <3>2, NsleepLemma
    <3> HIDE DEF c
    <3>4. SleepersSleep(s)
      BY <1>1, <3>3 DEF SleepersSleep
    <3>5. Like(s, sched') /\ SleepersSleep(sched')
      BY <3>3, <3>4, KeptLemma
    <3>6. Like(sched, s)
      BY <3>3 DEF Like, Kept
    <3> QED
      BY <3>5, <3>6 DEF Like, Kept
  <2>2. CASE \E t \in Threads : thread_spawn(t)
    <3>1. PICK t \in Threads : /\ sched.state[t] = "NONE"
                               /\ sched'.state = [sched.state EXCEPT ![t] = "READY"]
                               /\ sched'.sleepq = sched.sleepq
                               /\ sched'.waitq = sched.waitq
      BY <1>1, <2>2, SpawnLemma
    <3>2. Like(sched, sched')
      BY <1>1, <3>1 DEF Like, Kept
    <3>3. SleepersSleep(sched')
      BY <1>1, <3>1 DEF SleepersSleep
    <3> QED
      BY <3>2, <3>3
  <2>3. CASE \E d \in Elapsed : timer_interrupt(d)
    <3>1. PICK d \in Nat : Rescheduled(sched, d, sched')
      BY <1>1, <2>3, TimerLemma
    <3> QED
      BY <1>1, <3>1, KeptLemma
  <2>4. CASE Tick
    BY <1>1, <2>4, TickLemma DEF Like, Kept, SleepersSleep
  <2> QED
    BY <2>1, <2>2, <2>3, <2>4 DEF SchedNext
<1> QED
  BY <1>2, <1>3 DEF Unmoved

\* A thread that finds no partner is parked, and the kernel reschedules.
LEMMA ParkLemma ==
    ASSUME IpcInv, InUser, ~closed_call,
           NEW ch \in Channels, NEW side, channel[ch] \in {"EMPTY", side},
           NEW m \in Message, NEW d \in Elapsed,
           \/ side = "CALLING" /\ m.role = "call"
           \/ side = "LISTENING" /\ m.role = "listen" /\ ipc_caller[sched.current] = Nobody,
           park(ch, side, m, d), UNCHANGED <<ipc_caller, closed_call>>
    PROVE  SchedInv' /\ SleepersSleep(sched') /\ Joined(sched.current, ch, side, m)
<1> DEFINE c == sched.current
           saved == cpu_context_save(sched, "user")
           checked == [saved EXCEPT !.ok = @ /\ (channel[ch] = "EMPTY") = (sched.waitq[ch] = << >>)]
           x == push_into(checked, c, ch)
<1>1. /\ Sound(sched) /\ Floating(sched) = {} /\ SleepersSleep(sched)
      /\ sched.state \in [Threads -> ThreadState]
      /\ sched.waitq \in [Queues -> Seq(Threads)]
      /\ Range(sched.sleepq) \subseteq Threads
      /\ ChannelsTell(sched, channel, message, closed_call)
      /\ ch \in Queues /\ sched.current # Nobody /\ "user" \in R0Value /\ d \in Nat
  BY IpcInvLemma, IpcAssumption, SchedAssumption DEF InUser, R0Value
<1>2. Saved(sched, "user", saved)
  BY <1>1, EntryLemma
<1>3. /\ Sound(saved) /\ Floating(saved) = {c} /\ saved.state[c] = "FLOATING"
      /\ c \in Threads /\ sched.state[c] = "RUNNING" /\ c \notin Range(sched.sleepq)
      /\ saved.state = [sched.state EXCEPT ![c] = "FLOATING"]
      /\ saved.sleepq = sched.sleepq /\ saved.waitq = sched.waitq
      /\ saved.current = Nobody
  BY <1>2 DEF Saved
<1>5. (channel[ch] = "EMPTY") = (sched.waitq[ch] = << >>)
  BY <1>1 DEF ChannelsTell
<1>6. /\ schedule_or_exit(x, d)
      /\ channel' = [channel EXCEPT ![ch] = side]
      /\ message' = [message EXCEPT ![c] = m]
  BY DEF park
<1> HIDE DEF saved
<1>7. checked = saved
  BY <1>3, <1>5 DEF Sound, SchedState
<1> HIDE DEF checked, c
<1>8. Pushed(saved, c, ch, x)
  BY <1>1, <1>3, <1>7, PushLemma
<1> HIDE DEF x
<1>9. /\ Sound(x) /\ Floating(x) = {} /\ x.current = Nobody
      /\ x.state = [saved.state EXCEPT ![c] = "WAITING"]
      /\ x.sleepq = sched.sleepq
      /\ x.waitq = [sched.waitq EXCEPT ![ch] = Append(@, c)]
      /\ Range(x.waitq[ch]) = Range(sched.waitq[ch]) \cup {c}
  BY <1>3, <1>8 DEF Pushed
<1>10. /\ x.state[c] = "WAITING"
       /\ \A t \in Threads \ {c} : x.state[t] = sched.state[t]
       /\ \A q \in Queues \ {ch} : x.waitq[q] = sched.waitq[q]
  BY <1>1, <1>3, <1>9
<1>11. SleepersSleep(x)
  BY <1>1, <1>3, <1>9, <1>10 DEF SleepersSleep
<1>12. Rescheduled(x, d, sched')
  BY <1>1, <1>6, <1>9, ScheduleOrExitLemma
<1>13. SchedInv'
  BY <1>12, RescheduledInvLemma
<1>14. Like(x, sched') /\ SleepersSleep(sched')
  BY <1>9, <1>11, <1>12, KeptLemma
<1>15. sched'.state[c] = "WAITING" /\ Others({c})
  BY <1>3, <1>10, <1>14 DEF Like, Kept, Others
<1>16. /\ Range(sched'.waitq[ch]) = Range(sched.waitq[ch]) \cup {c}
       /\ \A q \in Queues \ {ch} : Range(sched'.waitq[q]) = Range(sched.waitq[q])
  BY <1>1, <1>9, <1>10, <1>14 DEF Like
<1>17. Joined(c, ch, side, m)
  BY <1>3, <1>6, <1>15, <1>16 DEF Joined, c
<1> QED
  BY <1>13, <1>14, <1>17 DEF c

-----------------------------------------------------------------------------
(***************************************************************************)
(* Two threads in the kernel's hands: a caller and a listener that meet, or *)
(* a server and its caller                                                 *)
(***************************************************************************)

\* a and b are in the kernel's hands, and no other thread.
Handed(s, a, b) ==
    /\ Sound(s) /\ SleepersSleep(s) /\ s.current = Nobody
    /\ a \in Threads /\ b \in Threads /\ a # b /\ Floating(s) = {a, b}

\* In n both can go on, a with error and b with EIPCIO in its R0.
Broken(s, error, a, b, n) ==
    /\ Sound(n) /\ Floating(n) = {} /\ SleepersSleep(n)
    /\ \A t \in {a, b} : n.state[t] \notin {"CALLING", "WAITING"}
    /\ \A t \in Threads \ {a, b} : Kept(s, n, t)
    /\ \A q \in Queues : Range(n.waitq[q]) = Range(s.waitq[q])
    /\ n.r0[a] = error /\ n.r0[b] = "EIPCIO"

\* A copy that fails lets both threads go on.
LEMMA TransferErrorLemma ==
    ASSUME NEW s, NEW a, NEW b, Handed(s, a, b), NEW error \in R0Value, NEW d \in Nat,
           transfer_error(s, error, a, b, d)
    PROVE  Broken(s, error, a, b, sched')
<1> DEFINE told == [s EXCEPT !.r0[a] = error, !.r0[b] = "EIPCIO"]
           half == schedule_ready(told, a)
           both == schedule_ready(half, b)
<1>1. /\ Sound(s) /\ SleepersSleep(s) /\ s.current = Nobody
      /\ a \in Threads /\ b \in Threads /\ a # b /\ Floating(s) = {a, b}
      /\ s \in SchedState /\ s.ok
      /\ s.r0 \in [Threads -> R0Value] /\ "EIPCIO" \in R0Value
      /\ s.state \in [Threads -> ThreadState]
  BY DEF Handed, Sound, SchedState, R0Value
<1>2. /\ told.state = s.state /\ told.runq = s.runq /\ told.sleepq = s.sleepq
      /\ told.rem = s.rem /\ told.waitq = s.waitq /\ told.current = s.current
      /\ told.ok /\ told.r0[a] = error /\ told.r0[b] = "EIPCIO"
      /\ told \in SchedState
  BY <1>1 DEF SchedState
<1>3. schedule_or_exit(both, d)
  BY DEF transfer_error
<1> HIDE DEF told
<1>4. Sound(told) /\ Floating(told) = {a, b} /\ told.state[a] = "FLOATING"
  BY <1>1, <1>2, RegisterLemma DEF Floating
<1>5. /\ Sound(half) /\ Floating(half) = Floating(told) \ {a}
      /\ half.state = [told.state EXCEPT ![a] = "READY"]
      /\ half.sleepq = told.sleepq /\ half.waitq = told.waitq
      /\ half.current = told.current /\ half.r0 = told.r0
  BY <1>1, <1>4, ReadyLemma
<1> HIDE DEF half
<1>6. Floating(half) = {b} /\ half.state[b] = "FLOATING"
  BY <1>1, <1>4, <1>5 DEF Floating
<1>7. /\ Sound(both) /\ Floating(both) = Floating(half) \ {b}
      /\ both.state = [half.state EXCEPT ![b] = "READY"]
      /\ both.sleepq = half.sleepq /\ both.waitq = half.waitq
      /\ both.current = half.current /\ both.r0 = half.r0
  <2>1. Sound(half) /\ b \in Threads /\ half.state[b] = "FLOATING"
    BY <1>1, <1>5, <1>6
  <2> QED
    BY <2>1, ReadyLemma
<1> HIDE DEF both
<1>8. /\ Floating(both) = {} /\ both.current = Nobody
      /\ both.state[a] = "READY" /\ both.state[b] = "READY"
      /\ \A t \in Threads \ {a, b} : both.state[t] = s.state[t]
      /\ both.sleepq = s.sleepq /\ both.waitq = s.waitq
      /\ both.r0[a] = error /\ both.r0[b] = "EIPCIO"
  BY <1>1, <1>2, <1>5, <1>6, <1>7
<1>9. SleepersSleep(both)
  <2> SUFFICES ASSUME NEW t \in Range(s.sleepq) PROVE both.state[t] = "SLEEPING"
    BY <1>8 DEF SleepersSleep
  <2>1. t \in Threads /\ s.state[t] = "SLEEPING"
    <3>1. s.sleepq \in Seq(Threads)
      BY <1>1 DEF SchedState
    <3> QED
      BY <1>1, <3>1, RangeLemma DEF SleepersSleep
  <2>2. s.state[a] = "FLOATING" /\ s.state[b] = "FLOATING"
    BY <1>1 DEF Floating
  <2> QED
    BY <1>8, <2>1, <2>2
<1>10. Rescheduled(both, d, sched')
  BY <1>3, <1>7, <1>8, ScheduleOrExitLemma
<1>11. /\ Sound(sched') /\ Floating(sched') = {}
  BY <1>10 DEF Rescheduled
<1>12. /\ Like(both, sched') /\ SleepersSleep(sched')
       /\ \A t \in Threads : t # both.current => sched'.r0[t] = both.r0[t]
  BY <1>7, <1>9, <1>10, KeptLemma
<1>13. sched'.state[a] \notin {"CALLING", "WAITING"} /\ sched'.state[b] \notin {"CALLING", "WAITING"}
  BY <1>1, <1>8, <1>12 DEF Like, Kept
<1>14. \A t \in Threads \ {a, b} : Kept(s, sched', t)
  BY <1>8, <1>12 DEF Like, Kept
<1>15. \A q \in Queues : Range(sched'.waitq[q]) = Range(s.waitq[q])
  BY <1>8, <1>12 DEF Like
<1>16. sched'.r0[a] = error /\ sched'.r0[b] = "EIPCIO"
  BY <1>1, <1>8, <1>12, SchedAssumption
<1> QED
  BY <1>11, <1>12, <1>13, <1>14, <1>15, <1>16 DEF Broken

\* ... also when the copy of a string is at fault: the side at fault is told EFAULT.
LEMMA CopyErrorLemma ==
    ASSUME NEW s, NEW a, NEW b, Handed(s, a, b), NEW fault, NEW d \in Nat,
           copy_error(s, fault, a, b, d)
    PROVE  Broken(s, "EFAULT", a, b, sched') \/ Broken(s, "EFAULT", b, a, sched')
<1>1. Handed(s, b, a) /\ "EFAULT" \in R0Value
  BY DEF Handed, R0Value
<1>2. CASE fault = "read"
  BY <1>1, <1>2, TransferErrorLemma DEF copy_error
<1>3. CASE fault # "read"
  BY <1>1, <1>3, TransferErrorLemma DEF copy_error
<1> QED
  BY <1>2, <1>3

\* The call goes on: c waits for a response, l runs.
HandedOver(s, c, l, n) ==
    /\ Sound(n) /\ Floating(n) = {} /\ SleepersSleep(n)
    /\ n.state[c] = "CALLING" /\ n.state[l] = "RUNNING"
    /\ \A t \in Threads \ {c, l} : Kept(s, n, t)
    /\ \A q \in Queues : Range(n.waitq[q]) = Range(s.waitq[q])

\* The end of call_transfer
LEMMA HandOverLemma ==
    ASSUME NEW s, NEW c, NEW l, Handed(s, c, l)
    PROVE  HandedOver(s, c, l, cpu_context_restore_and_exit([s EXCEPT !.state[c] = "CALLING"], l))
<1> DEFINE a == [s EXCEPT !.state[c] = "CALLING"]
           n == cpu_context_restore_and_exit(a, l)
<1>1. /\ Sound(s) /\ SleepersSleep(s) /\ s.current = Nobody
      /\ c \in Threads /\ l \in Threads /\ c # l /\ Floating(s) = {c, l}
      /\ s \in SchedState /\ s.ok /\ "CALLING" \in ThreadState
      /\ s.state \in [Threads -> ThreadState] /\ s.sleepq \in Seq(Threads)
      /\ s.state[c] = "FLOATING" /\ s.state[l] = "FLOATING"
  BY DEF Handed, Sound, SchedState, ThreadState, Floating
<1>2. /\ a.state = [s.state EXCEPT ![c] = "CALLING"]
      /\ a.runq = s.runq /\ a.sleepq = s.sleepq /\ a.rem = s.rem
      /\ a.waitq = s.waitq /\ a.current = s.current /\ a.ok
      /\ a \in SchedState
  BY <1>1 DEF SchedState
<1> HIDE DEF a
<1>3. Sound(a)
  BY <1>1, <1>2, UnlinkedLemma
<1>4. Floating(a) = {l} /\ a.state[l] = "FLOATING" /\ a.state[c] = "CALLING"
  BY <1>1, <1>2 DEF Floating
<1>5. /\ Sound(n) /\ Floating(n) = Floating(a) \ {l}
      /\ n.state = [a.state EXCEPT ![l] = "RUNNING"]
      /\ n.sleepq = a.sleepq /\ n.waitq = a.waitq
  <2>1. l \in Threads /\ a.current = Nobody
    BY <1>1, <1>2
  <2> QED
    BY <1>3, <1>4, <2>1, RestoreLemma
<1> HIDE DEF n
<1>6. /\ Floating(n) = {} /\ n.state[c] = "CALLING" /\ n.state[l] = "RUNNING"
      /\ \A t \in Threads \ {c, l} : n.state[t] = s.state[t]
      /\ n.sleepq = s.sleepq /\ n.waitq = s.waitq
  BY <1>1, <1>2, <1>4, <1>5
<1>7. SleepersSleep(n)
  <2> SUFFICES ASSUME NEW t \in Range(s.sleepq) PROVE n.state[t] = "SLEEPING"
    BY <1>6 DEF SleepersSleep
  <2>1. t \in Threads /\ s.state[t] = "SLEEPING"
    BY <1>1, RangeLemma DEF SleepersSleep
  <2> QED
    BY <1>1, <1>6, <2>1
<1>8. HandedOver(s, c, l, n)
  BY <1>5, <1>6, <1>7 DEF HandedOver, Kept
<1> QED
  BY <1>8 DEF n, a

\* Two threads that meet: the call is delivered, or both are told that it failed.
Transferred(s, c, l, call, buffer) ==
    \/ /\ HandedOver(s, c, l, sched')
       /\ ~TooBig(call, buffer)
       /\ CopiesString(call) => RangeOk(DeliveredLen(call, buffer))
       /\ ipc_caller' = [ipc_caller EXCEPT ![l] = c]
       /\ message' = [message EXCEPT
            ![c] = [call EXCEPT !.rx = CASE call.mode = "WRITE" -> FALSE
                                         [] call.mode = "READ" -> TRUE
                                         [] OTHER -> @],
            ![l] = [call EXCEPT !.role = "serve", !.len = DeliveredLen(call, buffer)]]
    \/ /\ \/ \E error \in {"E2BIG", "EFAULT"} : Broken(s, error, c, l, sched')
          \/ Broken(s, "EFAULT", l, c, sched')
       /\ message' = [message EXCEPT ![c] = NoMessage, ![l] = NoMessage]
       /\ UNCHANGED ipc_caller

\* call_transfer: its three asserts are passed whenever the listener serves nobody.
LEMMA TransferLemma ==
    ASSUME NEW s, NEW c, NEW l, Handed(s, c, l), ipc_caller[l] = Nobody,
           NEW call, NEW buffer, NEW d \in Nat,
           call_transfer(s, c, l, call, buffer, d)
    PROVE  Transferred(s, c, l, call, buffer)
<1> DEFINE checked == [s EXCEPT !.ok = /\ @
                                       /\ s.state[c] = "FLOATING"
                                       /\ s.state[l] = "FLOATING"
                                       /\ ipc_caller[l] = Nobody]
           len == DeliveredLen(call, buffer)
           failed == message' = [message EXCEPT ![c] = NoMessage, ![l] = NoMessage]
           delivered == message' = [message EXCEPT
                ![c] = [call EXCEPT !.rx = CASE call.mode = "WRITE" -> FALSE
                                             [] call.mode = "READ" -> TRUE
                                             [] OTHER -> @],
                ![l] = [call EXCEPT !.role = "serve", !.len = len]]
<1>1. checked = s
  <2>1. s.state[c] = "FLOATING" /\ s.state[l] = "FLOATING" /\ s.ok /\ s \in SchedState
    BY DEF Handed, Floating, Sound
  <2> QED
    BY <2>1 DEF SchedState
<1>2. \/ /\ TooBig(call, buffer)
         /\ transfer_error(checked, "E2BIG", c, l, d)
         /\ failed
         /\ UNCHANGED ipc_caller
      \/ /\ ~TooBig(call, buffer) /\ CopiesString(call)
         /\ \E fault \in CopyOutcome(len, TRUE) \ {"ok"} :
                copy_error(checked, fault, c, l, d)
         /\ failed
         /\ UNCHANGED ipc_caller
      \/ /\ ~TooBig(call, buffer)
         /\ CopiesString(call) => "ok" \in CopyOutcome(len, TRUE)
         /\ sched' = cpu_context_restore_and_exit([checked EXCEPT !.state[c] = "CALLING"], l)
         /\ ipc_caller' = [ipc_caller EXCEPT ![l] = c]
         /\ delivered
  BY DEF call_transfer
<1> HIDE DEF checked
<1>3. "ok" \in CopyOutcome(len, TRUE) => RangeOk(len)
  BY DEF CopyOutcome
<1> HIDE DEF failed, delivered
<1>4. CASE TooBig(call, buffer) /\ transfer_error(checked, "E2BIG", c, l, d)
           /\ failed /\ UNCHANGED ipc_caller
  <2>1. Broken(s, "E2BIG", c, l, sched')
    <3>1. "E2BIG" \in R0Value
      BY DEF R0Value
    <3> QED
      BY <1>1, <1>4, <3>1, TransferErrorLemma
  <2> QED
    BY <1>4, <2>1 DEF Transferred, failed
<1>5. CASE (\E fault \in CopyOutcome(len, TRUE) \ {"ok"} : copy_error(checked, fault, c, l, d))
           /\ failed /\ UNCHANGED ipc_caller
  <2>1. Broken(s, "EFAULT", c, l, sched') \/ Broken(s, "EFAULT", l, c, sched')
    BY <1>1, <1>5, CopyErrorLemma
  <2> QED
    BY <1>5, <2>1 DEF Transferred, failed
<1>6. CASE /\ ~TooBig(call, buffer)
           /\ CopiesString(call) => "ok" \in CopyOutcome(len, TRUE)
           /\ sched' = cpu_context_restore_and_exit([checked EXCEPT !.state[c] = "CALLING"], l)
           /\ ipc_caller' = [ipc_caller EXCEPT ![l] = c]
           /\ delivered
  <2>1. HandedOver(s, c, l, sched')
    BY <1>1, <1>6, HandOverLemma
  <2> QED
    BY <1>3, <1>6, <2>1 DEF Transferred, delivered
<1> QED
  BY <1>2, <1>4, <1>5, <1>6

\* The current thread meets the first thread parked on channel ch.
LEMMA MeetLemma ==
    ASSUME IpcInv, InUser, ~closed_call, UNCHANGED closed_call,
           NEW ch \in Channels, NEW t, t = Head(sched.waitq[ch]), NEW c, NEW l,
           \/ channel[ch] = "LISTENING" /\ c = sched.current /\ l = t
           \/ channel[ch] = "CALLING" /\ c = t /\ l = sched.current /\ ipc_caller[l] = Nobody,
           NEW call \in Message, call.role = "call",
           NEW buffer \in IF channel[ch] = "LISTENING" THEN {message[l].len} ELSE Buffers,
           NEW d \in Elapsed,
           unparked(ch), call_transfer(Popped(ch), c, l, call, buffer, d)
    PROVE  /\ SchedInv' /\ SleepersSleep(sched')
           /\ Met(c, l, ch, t)
           /\ Delivered(c, l, call, buffer) \/ Failed(c, l)
<1> DEFINE r == sched.current
           saved == cpu_context_save(sched, "user")
           checked == [saved EXCEPT !.ok = @ /\ sched.waitq[ch] # << >>]
           p == pop_from(checked, ch)
<1>1. /\ Sound(sched) /\ Floating(sched) = {} /\ SleepersSleep(sched)
      /\ sched.state \in [Threads -> ThreadState]
      /\ sched.waitq \in [Queues -> Seq(Threads)]
      /\ Range(sched.sleepq) \subseteq Threads
      /\ ChannelsTell(sched, channel, message, closed_call)
      /\ RolesMatch(sched, ipc_caller, message)
      /\ IpcTypes
      /\ ch \in Queues /\ sched.current # Nobody /\ "user" \in R0Value /\ d \in Nat
      /\ sched \in SchedState
  BY IpcInvLemma, IpcAssumption, SchedAssumption DEF InUser, R0Value
<1>2. /\ sched.waitq[ch] # << >>
      /\ \A u \in Range(sched.waitq[ch]) :
            channel[ch] = IF message[u].role = "call" THEN "CALLING" ELSE "LISTENING"
  BY <1>1 DEF ChannelsTell
<1>3. Saved(sched, "user", saved)
  BY <1>1, EntryLemma
<1>4. /\ Sound(saved) /\ Floating(saved) = {r}
      /\ r \in Threads /\ sched.state[r] = "RUNNING"
      /\ saved.state = [sched.state EXCEPT ![r] = "FLOATING"]
      /\ saved.sleepq = sched.sleepq /\ saved.waitq = sched.waitq
      /\ saved.current = Nobody
  BY <1>3 DEF Saved
<1>5. p = Popped(ch)
  BY DEF Popped
<1> HIDE DEF saved
<1>6. checked = saved
  BY <1>2, <1>4 DEF Sound, SchedState
<1> HIDE DEF checked
<1>7. Taken(saved, t, ch, p)
  BY <1>1, <1>2, <1>4, <1>6, TakeLemma
<1> HIDE DEF p, r
<1>8. /\ Sound(p) /\ Floating(p) = {r, t} /\ t \in Threads /\ t \in Range(sched.waitq[ch])
      /\ p.state = [saved.state EXCEPT ![t] = "FLOATING"]
      /\ Range(p.sleepq) = Range(sched.sleepq) \ {t}
      /\ p.waitq = [sched.waitq EXCEPT ![ch] = Tail(@)]
      /\ Range(p.waitq[ch]) = Range(sched.waitq[ch]) \ {t}
      /\ p.current = Nobody
  BY <1>4, <1>7 DEF Taken
<1>9. sched.state[t] = "WAITING" /\ t # r
  BY <1>1, <1>4, <1>8, WaiterLemma DEF r
<1>10. /\ \A u \in Threads \ {r, t} : p.state[u] = sched.state[u]
       /\ \A q \in Queues \ {ch} : p.waitq[q] = sched.waitq[q]
       /\ p.waitq[ch] = Tail(sched.waitq[ch])
  BY <1>1, <1>4, <1>8
<1>11. SleepersSleep(p)
  <2> SUFFICES ASSUME NEW u \in Range(p.sleepq) PROVE p.state[u] = "SLEEPING"
    BY DEF SleepersSleep
  <2>1. u \in Threads /\ sched.state[u] = "SLEEPING"
    BY <1>1, <1>8 DEF SleepersSleep
  <2> QED
    BY <1>4, <1>9, <1>10, <2>1
<1>12. {c, l} = {r, t} /\ c # l /\ c \in Threads /\ l \in Threads
  BY <1>4, <1>8, <1>9 DEF r
<1>13. Handed(p, c, l)
  BY <1>8, <1>11, <1>12 DEF Handed
<1>14. /\ channel[ch] = IF t = c THEN "CALLING" ELSE "LISTENING"
       /\ ipc_caller[l] = Nobody
  <2>1. CASE channel[ch] = "LISTENING"
    <3>1. c = r /\ l = t
      BY <2>1 DEF r
    <3>2. message[t].role # "call"
      BY <1>2, <1>8, <2>1
    <3>3. ipc_caller[t] = Nobody
      BY <1>1, <1>8, <1>9, <3>2 DEF RolesMatch
    <3> QED
      BY <1>9, <2>1, <3>1, <3>3
  <2>2. CASE channel[ch] = "CALLING"
    BY <2>2
  <2> QED
    BY <2>1, <2>2
<1>15. Transferred(p, c, l, call, buffer)
  BY <1>1, <1>5, <1>13, <1>14, TransferLemma
<1>16. /\ Sound(sched') /\ Floating(sched') = {} /\ SleepersSleep(sched')
       /\ \A u \in Threads \ {c, l} : Kept(p, sched', u)
       /\ \A q \in Queues : Range(sched'.waitq[q]) = Range(p.waitq[q])
  BY <1>15 DEF Transferred, HandedOver, Broken
<1>17. Others({c, l})
  BY <1>10, <1>12, <1>16 DEF Others, Kept
<1>18. channel' = IF Range(sched'.waitq[ch]) = {} THEN [channel EXCEPT ![ch] = "EMPTY"]
                                                  ELSE channel
  <2>1. Len(sched.waitq[ch]) = 1 <=> p.waitq[ch] = << >>
    <3>1. sched.waitq[ch] \in Seq(Threads)
      BY <1>1
    <3> QED
      BY <1>2, <1>10, <3>1, LastLemma
  <2>2. p.waitq[ch] = << >> <=> Range(p.waitq[ch]) = {}
    BY <1>1, <1>8, NobodyWaitsLemma DEF Sound
  <2>3. Range(sched'.waitq[ch]) = Range(p.waitq[ch])
    BY <1>1, <1>16
  <2> QED
    BY <2>1, <2>2, <2>3 DEF unparked
<1>19. Met(c, l, ch, t)
  <2>1. \A u \in {c, l} \ {t} : sched.state[u] = "RUNNING"
    BY <1>4, <1>12
  <2>2. /\ Range(sched'.waitq[ch]) = Range(sched.waitq[ch]) \ {t}
        /\ \A q \in Queues \ {ch} : Range(sched'.waitq[q]) = Range(sched.waitq[q])
    BY <1>1, <1>8, <1>10, <1>16
  <2>3. t \in {c, l}
    BY <1>12
  <2> QED
    BY <1>8, <1>9, <1>12, <1>14, <1>17, <1>18, <2>1, <2>2, <2>3 DEF Met
<1>20. Delivered(c, l, call, buffer) \/ Failed(c, l)
  <2>1. ASSUME HandedOver(p, c, l, sched'),
               ~TooBig(call, buffer),
               CopiesString(call) => RangeOk(DeliveredLen(call, buffer)),
               ipc_caller' = [ipc_caller EXCEPT ![l] = c],
               message' = [message EXCEPT
                    ![c] = [call EXCEPT !.rx = CASE call.mode = "WRITE" -> FALSE
                                                 [] call.mode = "READ" -> TRUE
                                                 [] OTHER -> @],
                    ![l] = [call EXCEPT !.role = "serve", !.len = DeliveredLen(call, buffer)]]
        PROVE  Delivered(c, l, call, buffer)
    <3>1. sched'.state[c] = "CALLING" /\ Free(l)
      BY <2>1 DEF HandedOver, Free
    <3>2. buffer \in IF sched.state[l] = "WAITING" THEN {message[l].len} ELSE Buffers
      BY <1>4, <1>9, <1>12, <1>14
    <3>3. buffer \in 0..MaxLen
      <4>1. message[l].len \in 0..MaxLen
        BY <1>1, <1>12 DEF IpcTypes, Message
      <4> QED
        BY <4>1, IpcAssumption
    <3> QED
      BY <2>1, <3>1, <3>2, <3>3 DEF Delivered
  <2>2. ASSUME \/ \E error \in {"E2BIG", "EFAULT"} : Broken(p, error, c, l, sched')
               \/ Broken(p, "EFAULT", l, c, sched'),
               message' = [message EXCEPT ![c] = NoMessage, ![l] = NoMessage],
               UNCHANGED ipc_caller
        PROVE  Failed(c, l)
    <3>1. Free(c) /\ Free(l)
      BY <2>2 DEF Broken, Free
    <3>2. /\ sched'.r0[c] \in {"EIPCIO", "EFAULT", "E2BIG"}
          /\ sched'.r0[l] \in {"EIPCIO", "EFAULT"}
      BY <2>2 DEF Broken
    <3> QED
      BY <2>2, <3>1, <3>2 DEF Failed
  <2> QED
    BY <1>15, <2>1, <2>2 DEF Transferred
<1>21. SchedInv'
  BY <1>16 DEF SchedInv
<1> QED
  BY <1>16, <1>19, <1>20, <1>21

\* IPC_handle::ipc_call parks the caller, or meets a listener.
LEMMA CallLemma ==
    ASSUME IpcInv, NEW req \in Requests, NEW d \in Elapsed, ipc_call(req, d)
    PROVE  SchedInv' /\ SleepersSleep(sched') /\ IpcStep
<1> DEFINE call == CallMessage(req)
           ch == TransferMap[call.mode]
<1>1. /\ InUser /\ ~closed_call /\ ch # 0 /\ UNCHANGED closed_call
      /\ \/ channel[ch] \in {"EMPTY", "CALLING"}
            /\ park(ch, "CALLING", call, d)
            /\ UNCHANGED ipc_caller
         \/ channel[ch] = "LISTENING"
            /\ unparked(ch)
            /\ LET l == Head(sched.waitq[ch])
               IN  call_transfer(Popped(ch), sched.current, l, call, message[l].len, d)
  BY DEF ipc_call
<1>2. call \in Message /\ call.role = "call" /\ ch \in Channels
  <2>1. req \in Request
    BY IpcAssumption
  <2>2. call_transfer_mode(req) \in TransferMode
    BY DEF call_transfer_mode, TransferMode
  <2>3. call \in Message /\ call.role = "call" /\ call.mode \in TransferMode
    BY <2>1, <2>2 DEF CallMessage, Message, Request
  <2>4. ch \in 0..ChannelCount
    BY <2>3, IpcAssumption
  <2> QED
    BY <1>1, <2>3, <2>4, IpcAssumption DEF Channels
<1> HIDE DEF call, ch
<1>3. CASE channel[ch] \in {"EMPTY", "CALLING"} /\ park(ch, "CALLING", call, d)
           /\ UNCHANGED ipc_caller
  <2>1. SchedInv' /\ SleepersSleep(sched') /\ Joined(sched.current, ch, "CALLING", call)
    BY <1>1, <1>2, <1>3, ParkLemma
  <2> QED
    BY <2>1 DEF IpcStep
<1>4. ASSUME NEW l, l = Head(sched.waitq[ch]),
             channel[ch] = "LISTENING", unparked(ch),
             call_transfer(Popped(ch), sched.current, l, call, message[l].len, d)
      PROVE  SchedInv' /\ SleepersSleep(sched') /\ IpcStep
  <2> DEFINE buffer == message[l].len
             c == sched.current
  <2>1. buffer \in IF channel[ch] = "LISTENING" THEN {message[l].len} ELSE Buffers
    BY <1>4
  <2> HIDE DEF buffer
  <2>2. call_transfer(Popped(ch), c, l, call, buffer, d)
    BY <1>4 DEF buffer
  <2>3. /\ SchedInv' /\ SleepersSleep(sched')
        /\ Met(c, l, ch, l)
        /\ Delivered(c, l, call, buffer) \/ Failed(c, l)
    BY <1>1, <1>2, <1>4, <2>1, <2>2, MeetLemma
  <2> QED
    BY <2>3 DEF IpcStep
<1> QED
  BY <1>1, <1>3, <1>4

\* IPC::listen parks the listener, or meets a caller.
LEMMA ListenLemma ==
    ASSUME IpcInv, RespondFirst, NEW ch \in Channels, NEW buffer \in Buffers,
           NEW d \in Elapsed, listen(ch, buffer, d)
    PROVE  SchedInv' /\ SleepersSleep(sched') /\ IpcStep
<1> DEFINE m == [NoMessage EXCEPT !.role = "listen", !.len = buffer]
<1>1. /\ InUser /\ ~closed_call /\ UNCHANGED closed_call
      /\ ipc_caller[sched.current] = Nobody
      /\ \/ channel[ch] \in {"EMPTY", "LISTENING"}
            /\ park(ch, "LISTENING", m, d)
            /\ UNCHANGED ipc_caller
         \/ channel[ch] = "CALLING"
            /\ unparked(ch)
            /\ LET c == Head(sched.waitq[ch])
               IN  call_transfer(Popped(ch), c, sched.current, message[c], buffer, d)
  BY DEF listen
<1>2. m \in Message /\ m.role = "listen"
  BY IpcAssumption DEF NoMessage, Message, TransferMode
<1> HIDE DEF m
<1>3. CASE channel[ch] \in {"EMPTY", "LISTENING"} /\ park(ch, "LISTENING", m, d)
           /\ UNCHANGED ipc_caller
  <2>1. SchedInv' /\ SleepersSleep(sched') /\ Joined(sched.current, ch, "LISTENING", m)
    BY <1>1, <1>2, <1>3, ParkLemma
  <2> QED
    BY <2>1 DEF IpcStep
<1>4. ASSUME NEW c, c = Head(sched.waitq[ch]),
             channel[ch] = "CALLING", unparked(ch),
             call_transfer(Popped(ch), c, sched.current, message[c], buffer, d)
      PROVE  SchedInv' /\ SleepersSleep(sched') /\ IpcStep
  <2> DEFINE call == message[c]
             l == sched.current
  <2>1. call \in Message /\ call.role = "call"
    <3>1. /\ ChannelsTell(sched, channel, message, closed_call)
          /\ sched.waitq[ch] \in Seq(Threads) /\ message \in [Threads -> Message]
      BY IpcInvLemma, IpcAssumption DEF IpcTypes
    <3>2. sched.waitq[ch] # << >>
      BY <1>1, <1>4, <3>1 DEF ChannelsTell
    <3>3. c \in Threads /\ c \in Range(sched.waitq[ch])
      BY <1>4, <3>1, <3>2, TailLemma
    <3>4. channel[ch] = IF message[c].role = "call" THEN "CALLING" ELSE "LISTENING"
      BY <1>1, <3>1, <3>3 DEF ChannelsTell
    <3> QED
      BY <1>4, <3>1, <3>3, <3>4
  <2>2. buffer \in IF channel[ch] = "LISTENING" THEN {message[l].len} ELSE Buffers
    BY <1>4
  <2> HIDE DEF call
  <2>3. call_transfer(Popped(ch), c, l, call, buffer, d)
    BY <1>4 DEF call
  <2>4. /\ SchedInv' /\ SleepersSleep(sched')
        /\ Met(c, l, ch, c)
        /\ Delivered(c, l, call, buffer) \/ Failed(c, l)
    BY <1>1, <1>4, <2>1, <2>2, <2>3, MeetLemma
  <2> QED
    BY <2>4 DEF IpcStep
<1> QED
  BY <1>1, <1>3, <1>4

\* The caller c of a server in user mode is in the kernel's hands.
Answering(r, c, s) ==
    /\ r \in Threads /\ c \in Threads /\ c # r /\ c = ipc_caller[r]
    /\ sched.state[r] = "RUNNING" /\ sched.state[c] = "CALLING" /\ r = sched.current
    /\ Sound(s) /\ SleepersSleep(s) /\ Floating(s) = {c} /\ s.current = r
    /\ s.state = [sched.state EXCEPT ![c] = "FLOATING"]
    /\ s.sleepq = sched.sleepq /\ s.waitq = sched.waitq /\ s.r0 = sched.r0

\* IPC::respond can always take its caller out of the call: its assert is passed.
LEMMA ServedLemma ==
    ASSUME IpcInv, InUser, ipc_caller[sched.current] # Nobody
    PROVE  Answering(sched.current, ipc_caller[sched.current],
                     Served(sched, ipc_caller[sched.current]))
<1> DEFINE r == sched.current
           c == ipc_caller[r]
           s == Served(sched, c)
<1>1. /\ Sound(sched) /\ Floating(sched) = {} /\ SleepersSleep(sched)
      /\ sched \in SchedState /\ sched.ok
      /\ sched.state \in [Threads -> ThreadState] /\ "FLOATING" \in ThreadState
      /\ Range(sched.sleepq) \subseteq Threads
      /\ ServersMatch(sched, ipc_caller)
      /\ ipc_caller \in [Threads -> Threads \cup {Nobody}]
  BY IpcInvLemma DEF IpcTypes, ThreadState
<1>2. r \in Threads /\ sched.state[r] = "RUNNING"
  BY <1>1, CurrentLemma DEF InUser
<1>3. c \in Threads /\ sched.state[c] = "CALLING" /\ c # r
  BY <1>1, <1>2 DEF ServersMatch
<1> HIDE DEF c, r
<1>4. /\ s.state = [sched.state EXCEPT ![c] = "FLOATING"]
      /\ s.runq = sched.runq /\ s.sleepq = sched.sleepq /\ s.rem = sched.rem
      /\ s.waitq = sched.waitq /\ s.current = sched.current /\ s.r0 = sched.r0
      /\ s.ok /\ s \in SchedState
  BY <1>1, <1>3 DEF Served, SchedState
<1> HIDE DEF s
<1>5. Sound(s)
  BY <1>1, <1>3, <1>4, UnlinkedLemma
<1>6. Floating(s) = {c}
  BY <1>1, <1>3, <1>4 DEF Floating
<1>7. SleepersSleep(s)
  <2> SUFFICES ASSUME NEW t \in Range(sched.sleepq) PROVE s.state[t] = "SLEEPING"
    BY <1>4 DEF SleepersSleep
  <2>1. t \in Threads /\ sched.state[t] = "SLEEPING"
    BY <1>1 DEF SleepersSleep
  <2> QED
    BY <1>1, <1>3, <1>4, <2>1
<1>8. Answering(r, c, s)
  BY <1>2, <1>3, <1>4, <1>5, <1>6, <1>7 DEF Answering, c, r
<1> QED
  BY <1>8 DEF s, c, r

\* IPC::respond without a switch: the caller becomes ready with v in its R0.
LEMMA AnswerLemma ==
    ASSUME NEW r, NEW c, NEW s, Answering(r, c, s),
           NEW v \in {"reply", "EIPCIO"},
           sched' = schedule_ready([s EXCEPT !.r0[c] = v], c),
           callEnds(r, c)
    PROVE  SchedInv' /\ SleepersSleep(sched') /\ Ended(r, c)
<1> DEFINE told == [s EXCEPT !.r0[c] = v]
<1>1. /\ r \in Threads /\ c \in Threads /\ c # r /\ c = ipc_caller[r]
      /\ sched.state[r] = "RUNNING" /\ sched.state[c] = "CALLING"
      /\ Sound(s) /\ SleepersSleep(s) /\ Floating(s) = {c}
      /\ s.state = [sched.state EXCEPT ![c] = "FLOATING"]
      /\ s.sleepq = sched.sleepq /\ s.waitq = sched.waitq
      /\ s \in SchedState /\ s.ok /\ s.r0 \in [Threads -> R0Value] /\ v \in R0Value
      /\ s.state \in [Threads -> ThreadState] /\ s.state[c] = "FLOATING"
      /\ s.sleepq \in Seq(Threads)
  BY DEF Answering, Sound, SchedState, R0Value, Floating
<1>2. /\ told.state = s.state /\ told.runq = s.runq /\ told.sleepq = s.sleepq
      /\ told.rem = s.rem /\ told.waitq = s.waitq /\ told.current = s.current
      /\ told.ok /\ told.r0[c] = v /\ told \in SchedState
  BY <1>1 DEF SchedState
<1>3. sched' = schedule_ready(told, c)
  OBVIOUS
<1> HIDE DEF told
<1>4. Sound(told) /\ Floating(told) = {c} /\ told.state[c] = "FLOATING"
  <2>1. Sound(told) /\ Floating(told) = Floating(s)
    <3>1. Sound(s)
      BY <1>1
    <3> QED
      BY <1>2, <3>1, RegisterLemma
  <2> QED
    BY <1>1, <1>2, <2>1
<1>5. /\ Sound(sched') /\ Floating(sched') = Floating(told) \ {c}
      /\ sched'.state = [told.state EXCEPT ![c] = "READY"]
      /\ sched'.sleepq = told.sleepq /\ sched'.waitq = told.waitq
      /\ sched'.r0 = told.r0
  <2>1. Readied(told, c, schedule_ready(told, c))
    BY <1>1, <1>4, ReadiedLemma
  <2> QED
    BY <1>3, <2>1 DEF Readied
<1>6. /\ sched'.state[c] = "READY"
      /\ \A t \in Threads \ {c} : sched'.state[t] = s.state[t] /\ s.state[t] = sched.state[t]
      /\ sched'.sleepq = s.sleepq /\ sched'.waitq = sched.waitq /\ sched'.r0[c] = v
  BY <1>1, <1>2, <1>5
<1>7. SleepersSleep(sched')
  <2> SUFFICES ASSUME NEW t \in Range(s.sleepq) PROVE sched'.state[t] = "SLEEPING"
    BY <1>6 DEF SleepersSleep
  <2>1. t \in Threads /\ s.state[t] = "SLEEPING"
    BY <1>1, RangeLemma DEF SleepersSleep
  <2> QED
    BY <1>1, <1>6, <2>1
<1>8. Others({c}) /\ Free(c)
  BY <1>6 DEF Others, Kept, Free
<1>9. Ended(r, c)
  BY <1>1, <1>6, <1>8 DEF Ended
<1> QED
  BY <1>4, <1>5, <1>7, <1>9 DEF SchedInv

\* The string is copied from the responder to its caller, which runs next; or the copy
\* fails.
StringCopied(r, c, s, len, d) ==
    LET saved == cpu_context_save(s, "user")
    IN  \/ sched' = cpu_context_restore_and_exit(
                        schedule_ready(
                            [saved EXCEPT !.r0[c] = "reply", !.r0[r] = "0"], r),
                        c)
        \/ \E fault \in CopyOutcome(len, FALSE) \ {"ok"} : copy_error(saved, fault, r, c, d)

\* IPC::respond with a string: the responder enters the scheduler, and both it and its
\* caller are in the kernel's hands while the string is copied.
LEMMA RespondStringLemma ==
    ASSUME NEW r, NEW c, NEW s, Answering(r, c, s), NEW len, NEW d \in Nat,
           StringCopied(r, c, s, len, d), callEnds(r, c)
    PROVE  SchedInv' /\ SleepersSleep(sched') /\ Ended(r, c)
<1> DEFINE saved == cpu_context_save(s, "user")
           told == [saved EXCEPT !.r0[c] = "reply", !.r0[r] = "0"]
           back == schedule_ready(told, r)
<1>1. /\ r \in Threads /\ c \in Threads /\ c # r /\ c = ipc_caller[r]
      /\ sched.state[r] = "RUNNING" /\ sched.state[c] = "CALLING"
      /\ Sound(s) /\ SleepersSleep(s) /\ Floating(s) = {c} /\ s.current = r
      /\ s.state = [sched.state EXCEPT ![c] = "FLOATING"]
      /\ s.sleepq = sched.sleepq /\ s.waitq = sched.waitq
      /\ s.state \in [Threads -> ThreadState]
      /\ s.sleepq \in Seq(Threads)
      /\ s.current # Nobody
  BY SchedAssumption, ZenonT(30) DEF Answering, Sound, SchedState
<1>2. /\ \/ sched' = cpu_context_restore_and_exit(back, c)
         \/ \E fault : copy_error(saved, fault, r, c, d)
  BY DEF StringCopied
<1>3. PutAside(s, r, "user", saved)
  <2>1. "user" \in R0Value
    BY DEF R0Value
  <2> QED
    BY <1>1, <2>1, PutAsideLemma
<1> HIDE DEF saved
<1>4. /\ Floating(saved) = {r, c} /\ saved.current = Nobody
      /\ \A t \in Threads \ {r, c} : saved.state[t] = sched.state[t]
      /\ saved.sleepq = s.sleepq /\ saved.waitq = sched.waitq
      /\ s.state[r] = "RUNNING"
      /\ Sound(saved) /\ saved.state = [s.state EXCEPT ![r] = "FLOATING"]
  BY <1>1, <1>3 DEF PutAside
<1>5. SleepersSleep(saved)
  <2> SUFFICES ASSUME NEW t \in Range(s.sleepq) PROVE saved.state[t] = "SLEEPING"
    BY <1>4 DEF SleepersSleep
  <2>1. t \in Threads /\ s.state[t] = "SLEEPING"
    BY <1>1, RangeLemma DEF SleepersSleep
  <2>2. s.state[c] = "FLOATING" /\ s.state[r] = "RUNNING"
    BY <1>1, <1>4 DEF Floating
  <2> QED
    BY <1>1, <1>4, <2>1, <2>2
<1>6. Handed(saved, r, c)
  BY <1>1, <1>4, <1>5 DEF Handed
<1>7. ASSUME sched' = cpu_context_restore_and_exit(back, c)
      PROVE  SchedInv' /\ SleepersSleep(sched') /\ Ended(r, c)
  <2>1. /\ saved \in SchedState /\ saved.ok /\ saved.r0 \in [Threads -> R0Value]
        /\ saved.state[r] = "FLOATING" /\ saved.state[c] = "FLOATING"
        /\ saved.state \in [Threads -> ThreadState]
    BY <1>1, <1>4, ZenonT(30) DEF Sound, SchedState, Floating
  <2>2. /\ told.state = saved.state /\ told.runq = saved.runq /\ told.sleepq = saved.sleepq
        /\ told.rem = saved.rem /\ told.waitq = saved.waitq /\ told.current = saved.current
        /\ told.ok /\ told.r0[c] = "reply" /\ told \in SchedState
    <3>1. "reply" \in R0Value /\ "0" \in R0Value
      BY DEF R0Value
    <3> QED
      BY <1>1, <2>1, <3>1 DEF SchedState
  <2> HIDE DEF told
  <2>3. Sound(told) /\ Floating(told) = {r, c} /\ told.state[r] = "FLOATING"
    BY <1>4, <2>1, <2>2, RegisterLemma
  <2>4. /\ Sound(back) /\ Floating(back) = Floating(told) \ {r}
        /\ back.state = [told.state EXCEPT ![r] = "READY"]
        /\ back.sleepq = told.sleepq /\ back.waitq = told.waitq
        /\ back.current = told.current /\ back.r0 = told.r0
    <3>1. Sound(told) /\ r \in Threads /\ told.state[r] = "FLOATING"
      BY <1>1, <2>3
    <3> QED
      BY <3>1, ReadyLemma
  <2> HIDE DEF back
  <2>5. /\ Sound(back) /\ back.current = Nobody /\ back.state[c] = "FLOATING"
        /\ Floating(back) = {c}
    BY <1>1, <1>4, <2>1, <2>2, <2>3, <2>4
  <2>6. /\ Sound(sched') /\ Floating(sched') = Floating(back) \ {c}
        /\ sched'.state = [back.state EXCEPT ![c] = "RUNNING"]
        /\ sched'.sleepq = back.sleepq /\ sched'.waitq = back.waitq
        /\ sched'.r0 = back.r0
    <3>1. Sound(back) /\ back.current = Nobody /\ c \in Threads /\ back.state[c] = "FLOATING"
      BY <1>1, <2>5
    <3>2. sched' = cpu_context_restore_and_exit(back, c)
      BY <1>7
    <3> QED
      BY <3>1, <3>2, RestoreLemma
  <2>7. /\ sched'.state[c] = "RUNNING" /\ sched'.state[r] = "READY"
        /\ \A t \in Threads \ {r, c} : sched'.state[t] = sched.state[t]
        /\ sched'.sleepq = saved.sleepq /\ sched'.waitq = sched.waitq
        /\ sched'.r0[c] = "reply"
    BY <1>1, <1>4, <2>1, <2>2, <2>4, <2>6
  <2>8. SleepersSleep(sched')
    <3> SUFFICES ASSUME NEW t \in Range(s.sleepq) PROVE sched'.state[t] = "SLEEPING"
      BY <1>4, <2>7 DEF SleepersSleep
    <3>1. t \in Threads /\ saved.state[t] = "SLEEPING"
      BY <1>1, <1>4, <1>5, RangeLemma DEF SleepersSleep
    <3> QED
      BY <1>4, <2>1, <2>7, <3>1
  <2>9. Others({c}) /\ Free(c)
    BY <1>1, <2>7 DEF Others, Kept, Free
  <2>10. Ended(r, c)
    BY <1>1, <2>7, <2>9 DEF Ended
  <2> QED
    BY <2>5, <2>6, <2>8, <2>10 DEF SchedInv
<1>8. ASSUME NEW fault, copy_error(saved, fault, r, c, d)
      PROVE  SchedInv' /\ SleepersSleep(sched') /\ Ended(r, c)
  <2>1. Broken(saved, "EFAULT", r, c, sched') \/ Broken(saved, "EFAULT", c, r, sched')
    BY <1>6, <1>8, CopyErrorLemma
  <2>2. /\ Sound(sched') /\ Floating(sched') = {} /\ SleepersSleep(sched')
        /\ \A t \in {r, c} : sched'.state[t] \notin {"CALLING", "WAITING"}
        /\ \A t \in Threads \ {r, c} : Kept(saved, sched', t)
        /\ \A q \in Queues : Range(sched'.waitq[q]) = Range(sched.waitq[q])
        /\ sched'.r0[c] \in {"EIPCIO", "EFAULT"}
    BY <1>4, <2>1 DEF Broken
  <2>3. Others({c}) /\ Free(c)
    BY <1>1, <1>4, <2>2 DEF Others, Kept, Free
  <2>4. Ended(r, c)
    BY <1>1, <2>2, <2>3 DEF Ended
  <2> QED
    BY <2>2, <2>4 DEF SchedInv
<1> HIDE DEF back
<1> QED
  BY <1>2, <1>7, <1>8

\* Each way to respond ends the call.
LEMMA RespondsLemma ==
    ASSUME IpcInv,
           \/ respond
           \/ \E len \in 0..MaxLen : respond_refused(len)
           \/ \E len \in 0..MaxLen, d \in Elapsed : respond_string(len, d)
    PROVE  SchedInv' /\ SleepersSleep(sched') /\ IpcStep
<1> DEFINE r == sched.current
           c == ipc_caller[r]
           s == Served(sched, c)
<1>1. InUser /\ c # Nobody
  BY DEF respond, respond_refused, respond_string
<1>2. Answering(r, c, s)
  BY <1>1, ServedLemma
<1>3. CASE respond
  <2>1. sched' = schedule_ready([s EXCEPT !.r0[c] = "reply"], c) /\ callEnds(r, c)
    BY <1>3 DEF respond
  <2> HIDE DEF s, c, r
  <2>2. SchedInv' /\ SleepersSleep(sched') /\ Ended(r, c)
    BY <1>2, <2>1, AnswerLemma
  <2> QED
    BY <2>2 DEF IpcStep
<1>4. CASE \E len \in 0..MaxLen : respond_refused(len)
  <2>1. sched' = schedule_ready([s EXCEPT !.r0[c] = "EIPCIO"], c) /\ callEnds(r, c)
    BY <1>4 DEF respond_refused
  <2> HIDE DEF s, c, r
  <2>2. SchedInv' /\ SleepersSleep(sched') /\ Ended(r, c)
    BY <1>2, <2>1, AnswerLemma
  <2> QED
    BY <2>2 DEF IpcStep
<1>5. ASSUME NEW len \in 0..MaxLen, NEW d \in Elapsed, respond_string(len, d)
      PROVE  SchedInv' /\ SleepersSleep(sched') /\ IpcStep
  <2>1. StringCopied(r, c, s, len, d)
    BY <1>5 DEF respond_string, StringCopied
  <2>2. callEnds(r, c) /\ d \in Nat
    BY <1>5, SchedAssumption DEF respond_string
  <2> HIDE DEF s, c, r
  <2>3. SchedInv' /\ SleepersSleep(sched') /\ Ended(r, c)
    BY <1>2, <2>1, <2>2, RespondStringLemma
  <2> QED
    BY <2>3 DEF IpcStep
<1> QED
  BY <1>3, <1>4, <1>5

\* What a closed channel leaves in R0 of the threads parked on it.
CloseError(ch) == IF channel[ch] = "LISTENING" THEN "EPIPE" ELSE "EBADF"

\* The channels up to i are closed in state s.
ClosedUpTo(i, s) ==
    /\ Sound(s) /\ Floating(s) = {} /\ SleepersSleep(s) /\ OnlyChannels(s)
    /\ \A ch \in Channels : s.waitq[ch] = IF ch <= i THEN << >> ELSE sched.waitq[ch]
    /\ \A t \in Threads :
        s.state[t] = sched.state[t] \/ (sched.state[t] = "WAITING" /\ s.state[t] = "READY")
    /\ \A ch \in Channels : ch <= i =>
        \A t \in Range(sched.waitq[ch]) : s.state[t] = "READY" /\ s.r0[t] = CloseError(ch)

\* One turn of the loop of IPC_handle::close: its assert is passed.
LEMMA TurnLemma ==
    ASSUME IpcInv, ~closed_call, NEW i \in Nat, NEW s, ClosedUpTo(i, s), i + 1 \in Channels
    PROVE  ClosedUpTo(i + 1, close_channel(s, i + 1))
<1> DEFINE q == i + 1
           v == CloseError(q)
           r == schedule_wake_all(s, q, v)
           woken == Range(s.waitq[q])
<1>1. /\ Sound(s) /\ Floating(s) = {} /\ SleepersSleep(s) /\ OnlyChannels(s)
      /\ \A ch \in Channels : s.waitq[ch] = IF ch <= i THEN << >> ELSE sched.waitq[ch]
      /\ \A t \in Threads :
            s.state[t] = sched.state[t] \/ (sched.state[t] = "WAITING" /\ s.state[t] = "READY")
      /\ \A ch \in Channels : ch <= i =>
            \A t \in Range(sched.waitq[ch]) : s.state[t] = "READY" /\ s.r0[t] = CloseError(ch)
  BY DEF ClosedUpTo
<1>2. /\ q \in Queues /\ q \in Channels /\ Channels \subseteq Queues /\ v \in R0Value
      /\ ~(q <= i)
      /\ \A ch \in Channels : ch \in Int
      /\ \A ch \in Channels : ch <= q <=> (ch <= i \/ ch = q)
  BY IpcAssumption DEF CloseError, R0Value, Channels
<1>3. s.waitq[q] = sched.waitq[q]
  BY <1>1, <1>2
<1>4. (channel[q] = "EMPTY") = (s.waitq[q] = << >>)
  BY <1>2, <1>3, IpcInvLemma DEF ChannelsTell
<1> HIDE DEF q
<1>5. AllWoken(s, q, v, r)
  BY <1>1, <1>2, WakeAllLemma
<1>6. close_channel(s, q) = [r EXCEPT !.ok = @ /\ (channel[q] = "EMPTY") = (s.waitq[q] = << >>)]
  BY DEF close_channel, CloseError
<1> HIDE DEF r, v
<1>7. close_channel(s, q) = r
  <2>1. r \in SchedState /\ r.ok
    BY <1>5 DEF AllWoken, Sound
  <2>2. r.ok = TRUE
    BY <2>1 DEF SchedState
  <2>3. [r EXCEPT !.ok = @ /\ (channel[q] = "EMPTY") = (s.waitq[q] = << >>)] = r
    BY <1>4, <2>1, <2>2 DEF SchedState
  <2> QED
    BY <1>6, <2>3
<1>8. /\ Sound(r) /\ Floating(r) = {}
      /\ woken \subseteq Threads
      /\ \A t \in woken : s.state[t] = "WAITING"
      /\ r.state = [t \in Threads |-> IF t \in woken THEN "READY" ELSE s.state[t]]
      /\ Range(r.sleepq) = Range(s.sleepq) \ woken
      /\ r.waitq = [s.waitq EXCEPT ![q] = << >>]
      /\ r.r0 = [t \in Threads |-> IF t \in woken THEN v ELSE s.r0[t]]
  BY <1>1, <1>5 DEF AllWoken
<1>9. /\ r.waitq[q] = << >>
      /\ \A p \in Queues \ {q} : r.waitq[p] = s.waitq[p]
  <2>1. s.waitq \in [Queues -> Seq(Threads)]
    BY <1>1 DEF Sound, SchedState
  <2> QED
    BY <1>2, <1>8, <2>1
<1>10. /\ \A t \in woken : r.state[t] = "READY" /\ r.r0[t] = v
       /\ \A t \in Threads \ woken : r.state[t] = s.state[t] /\ r.r0[t] = s.r0[t]
  BY <1>8
<1> HIDE DEF woken
<1>11. SleepersSleep(r)
  <2> SUFFICES ASSUME NEW t \in Range(r.sleepq) PROVE r.state[t] = "SLEEPING"
    BY DEF SleepersSleep
  <2>1. s.sleepq \in Seq(Threads)
    BY <1>1 DEF Sound, SchedState
  <2>2. t \in Range(s.sleepq) /\ t \notin woken /\ t \in Threads
    BY <1>8, <2>1, RangeLemma
  <2> QED
    BY <1>1, <1>10, <2>2 DEF SleepersSleep
<1>12. OnlyChannels(r)
  BY <1>1, <1>2, <1>9 DEF OnlyChannels
<1>13. \A ch \in Channels : r.waitq[ch] = IF ch <= q THEN << >> ELSE sched.waitq[ch]
  <2> SUFFICES ASSUME NEW ch \in Channels
               PROVE  r.waitq[ch] = IF ch <= q THEN << >> ELSE sched.waitq[ch]
    OBVIOUS
  <2>1. CASE ch = q
    BY <1>2, <1>9, <2>1
  <2>2. CASE ch # q
    <3>1. r.waitq[ch] = s.waitq[ch]
      BY <1>2, <1>9, <2>2
    <3>2. ch <= q <=> ch <= i
      BY <1>2, <2>2
    <3> QED
      BY <1>1, <3>1, <3>2
  <2> QED
    BY <2>1, <2>2
<1>14. \A t \in Threads :
          r.state[t] = sched.state[t] \/ (sched.state[t] = "WAITING" /\ r.state[t] = "READY")
  <2> SUFFICES ASSUME NEW t \in Threads
               PROVE  r.state[t] = sched.state[t]
                      \/ (sched.state[t] = "WAITING" /\ r.state[t] = "READY")
    OBVIOUS
  <2>1. CASE t \in woken
    <3>1. s.state[t] = "WAITING" /\ r.state[t] = "READY"
      BY <1>8, <1>10, <2>1
    <3> QED
      BY <1>1, <3>1
  <2>2. CASE t \notin woken
    BY <1>1, <1>10, <2>2
  <2> QED
    BY <2>1, <2>2
<1>15. ASSUME NEW ch \in Channels, ch <= q, NEW t \in Range(sched.waitq[ch])
       PROVE  r.state[t] = "READY" /\ r.r0[t] = CloseError(ch)
  <2>1. CASE ch = q
    <3>1. t \in woken
      BY <1>3, <1>15, <2>1 DEF woken
    <3> QED
      BY <1>10, <2>1, <3>1 DEF v
  <2>2. CASE ch <= i
    <3>1. s.state[t] = "READY" /\ s.r0[t] = CloseError(ch)
      BY <1>1, <1>15, <2>2
    <3>2. t \notin woken
      BY <1>8, <3>1
    <3>3. t \in Threads
      <4>1. sched.waitq[ch] \in Seq(Threads)
        BY <1>2, IpcInvLemma
      <4> QED
        BY <4>1, <1>15, RangeLemma
    <3> QED
      BY <1>10, <3>1, <3>2, <3>3
  <2> QED
    BY <1>2, <1>15, <2>1, <2>2
<1>16. ClosedUpTo(q, r)
  BY <1>8, <1>11, <1>12, <1>13, <1>14, <1>15 DEF ClosedUpTo
<1> QED
  BY <1>7, <1>16 DEF q

\* IPC_handle::close: every thread that is parked on a channel goes on, and is told the
\* reason that its side of the channel expects.
LEMMA CloseLemma ==
    ASSUME IpcInv, close
    PROVE  SchedInv' /\ SleepersSleep(sched') /\ IpcStep
<1>1. /\ Sound(sched) /\ Floating(sched) = {} /\ SleepersSleep(sched) /\ OnlyChannels(sched)
      /\ ChannelsTell(sched, channel, message, closed_call)
      /\ sched.waitq \in [Queues -> Seq(Threads)] /\ ~closed_call
      /\ ChannelCount \in Nat
  BY IpcInvLemma, IpcAssumption DEF close
<1>2. PICK turn : Turns(sched, ChannelCount, turn) /\ close_channels(sched) = turn[ChannelCount]
  BY CloseChannelsLemma
<1>3. \A i \in 0..ChannelCount :
        turn[i] = IF i = 0 THEN sched ELSE close_channel(turn[i - 1], i)
  BY <1>2 DEF Turns
<1> DEFINE S == {n \in Nat : n <= ChannelCount => ClosedUpTo(n, turn[n])}
<1>4. 0 \in S
  <2>1. turn[0] = sched
    BY <1>1, <1>3
  <2>2. \A ch \in Channels : ~(ch <= 0)
    BY <1>1 DEF Channels
  <2>3. ClosedUpTo(0, sched)
    BY <1>1, <2>2 DEF ClosedUpTo
  <2> QED
    BY <2>1, <2>3
<1>5. ASSUME NEW n \in Nat, n \in S
      PROVE  n + 1 \in S
  <2> SUFFICES ASSUME n + 1 <= ChannelCount
               PROVE  ClosedUpTo(n + 1, turn[n + 1])
    OBVIOUS
  <2>1. /\ n <= ChannelCount /\ n + 1 \in 0..ChannelCount /\ n + 1 # 0 /\ (n + 1) - 1 = n
        /\ n + 1 \in Channels
    BY <1>1 DEF Channels
  <2>2. turn[n + 1] = close_channel(turn[n], n + 1)
    BY <1>3, <2>1
  <2>3. ClosedUpTo(n, turn[n])
    BY <1>5, <2>1
  <2>4. ClosedUpTo(n + 1, close_channel(turn[n], n + 1))
    BY <1>1, <2>1, <2>3, TurnLemma
  <2> QED
    BY <2>2, <2>4
<1> HIDE DEF S
<1>6. ChannelCount \in S
  BY <1>1, <1>4, <1>5, CountLemma
<1>7. ClosedUpTo(ChannelCount, sched')
  <2>1. sched' = turn[ChannelCount]
    BY <1>2 DEF close
  <2> QED
    BY <1>1, <1>6, <2>1 DEF S
<1>8. /\ Sound(sched') /\ Floating(sched') = {} /\ SleepersSleep(sched')
      /\ \A q \in Queues : sched'.waitq[q] = << >>
      /\ \A t \in Threads :
            \/ sched'.state[t] = sched.state[t]
            \/ sched.state[t] = "WAITING" /\ sched'.state[t] = "READY"
      /\ \A ch \in Channels : \A t \in Range(sched.waitq[ch]) : sched'.r0[t] = CloseError(ch)
  <2>1. \A ch \in Channels : ch <= ChannelCount
    BY <1>1 DEF Channels
  <2> QED
    BY <1>7, <2>1 DEF ClosedUpTo, OnlyChannels
<1>9. \A t \in Threads : sched'.state[t] # "WAITING"
  <2> SUFFICES ASSUME NEW t \in Threads, sched'.state[t] = "WAITING" PROVE FALSE
    OBVIOUS
  <2>1. PICK q \in Queues : t \in Range(sched'.waitq[q])
    BY <1>8 DEF Sound, Consistent
  <2> QED
    BY <1>8, <2>1, EmptyLemma
<1>10. ASSUME NEW t \in Threads, sched.state[t] = "WAITING"
       PROVE  /\ message[t].role = "call" => sched'.r0[t] = "EBADF"
              /\ message[t].role = "listen" => sched'.r0[t] = "EPIPE"
  <2>1. PICK q \in Queues : t \in Range(sched.waitq[q])
    BY <1>1, <1>10 DEF Sound, Consistent
  <2>2. q \in Channels
    BY <1>1, <2>1, EmptyLemma DEF OnlyChannels
  <2>3. channel[q] = IF message[t].role = "call" THEN "CALLING" ELSE "LISTENING"
    BY <1>1, <2>1, <2>2 DEF ChannelsTell
  <2>4. sched'.r0[t] = CloseError(q)
    BY <1>8, <2>1, <2>2
  <2> QED
    BY <2>3, <2>4 DEF CloseError
<1>11. /\ closed_call' = TRUE /\ UNCHANGED <<channel, ipc_caller>>
       /\ message' = [t \in Threads |->
            IF message[t].role \in {"call", "listen"} /\ sched.state[t] = "WAITING"
            THEN NoMessage ELSE message[t]]
  BY DEF close
<1>12. Closed
  BY <1>1, <1>8, <1>9, <1>10, <1>11 DEF Closed
<1> QED
  BY <1>8, <1>12 DEF SchedInv, IpcStep

\* Every step of the system is of one of the kinds.
LEMMA IpcStepLemma ==
    ASSUME IpcInv, RespondFirst, IpcNext
    PROVE  SchedInv' /\ SleepersSleep(sched') /\ IpcStep
<1>1. CASE SchedNext /\ UNCHANGED ipcState
  BY <1>1, SchedUnmovedLemma DEF IpcStep
<1>2. CASE \E req \in Requests, d \in Elapsed : ipc_call(req, d)
  BY <1>2, CallLemma
<1>3. CASE \E ch \in Channels, buffer \in Buffers, d \in Elapsed : listen(ch, buffer, d)
  BY <1>3, ListenLemma
<1>4. CASE \/ respond
           \/ \E len \in 0..MaxLen : respond_refused(len)
           \/ \E len \in 0..MaxLen, d \in Elapsed : respond_string(len, d)
  BY <1>4, RespondsLemma
<1>5. CASE close
  BY <1>5, CloseLemma
<1> QED
  BY <1>1, <1>2, <1>3, <1>4, <1>5 DEF IpcNext

-----------------------------------------------------------------------------
(***************************************************************************)
(* Each kind of step keeps the invariant.                                  *)
(***************************************************************************)

\* The parts of the invariant that speak of calls, in the next state
CallsKept ==
    /\ IpcTypes'
    /\ OnlyChannels(sched')
    /\ ChannelsTell(sched', channel', message', closed_call')
    /\ ServersMatch(sched', ipc_caller')
    /\ RolesMatch(sched', ipc_caller', message')
    /\ NoCallCycle'

\* What the calls of this state tell of the next one
LEMMA StepLemma ==
    ASSUME IpcInv, SchedInv'
    PROVE  /\ sched' \in SchedState
           /\ sched.waitq \in [Queues -> Seq(Threads)]
           /\ \A q \in Queues : sched'.waitq[q] = << >> <=> Range(sched'.waitq[q]) = {}
           /\ \A q \in Queues : sched.waitq[q] = << >> <=> Range(sched.waitq[q]) = {}
           /\ \A q \in Queues : \A t \in Range(sched.waitq[q]) :
                    t \in Threads /\ sched.state[t] = "WAITING"
           /\ \A q, p \in Queues : \A t \in Range(sched.waitq[q]) :
                    t \in Range(sched.waitq[p]) => q = p
<1>1. sched \in SchedState /\ Sound(sched) /\ sched' \in SchedState
  BY IpcInvLemma DEF SchedInv, Sound
<1>2. sched.waitq \in [Queues -> Seq(Threads)]
  BY <1>1 DEF SchedState
<1>3. \A q \in Queues : \A t \in Range(sched.waitq[q]) :
            t \in Threads /\ sched.state[t] = "WAITING"
  BY <1>1, WaiterLemma
<1>4. \A q, p \in Queues : \A t \in Range(sched.waitq[q]) :
            t \in Range(sched.waitq[p]) => q = p
  BY <1>1, <1>3 DEF Sound, Consistent
<1>5. \A q \in Queues : sched'.waitq[q] = << >> <=> Range(sched'.waitq[q]) = {}
  BY <1>1, NobodyWaitsLemma
<1>6. \A q \in Queues : sched.waitq[q] = << >> <=> Range(sched.waitq[q]) = {}
  BY <1>1, NobodyWaitsLemma
<1> QED
  BY <1>1, <1>2, <1>3, <1>4, <1>5, <1>6

\* Calls that end, or go on, never make a circle.
LEMMA FewerServersLemma ==
    ASSUME NoCallCycle, \A t \in Threads : ipc_caller'[t] \in {ipc_caller[t], Nobody}
    PROVE  NoCallCycle'
<1> SUFFICES ASSUME NEW S \in SUBSET Threads, S # {}
             PROVE  \E c \in S : \A l \in S : ipc_caller'[l] # c
  BY DEF NoCallCycle, Rpcs!NoCallCycle
<1>1. PICK c \in S : \A l \in S : ipc_caller[l] # c
  BY DEF NoCallCycle, Rpcs!NoCallCycle
<1>2. \A l \in S : ipc_caller'[l] # c
  BY <1>1, SchedAssumption
<1> QED
  BY <1>2

\* The scheduler alone disturbs no call.
LEMMA UnmovedLemma ==
    ASSUME IpcInv, SchedInv', Unmoved
    PROVE  CallsKept
<1>1. /\ sched \in SchedState /\ sched' \in SchedState
      /\ IpcTypes /\ ipc_caller \in [Threads -> Threads \cup {Nobody}]
      /\ OnlyChannels(sched) /\ ChannelsTell(sched, channel, message, closed_call)
      /\ ServersMatch(sched, ipc_caller) /\ RolesMatch(sched, ipc_caller, message)
      /\ NoCallCycle
  BY IpcInvLemma DEF IpcInv, IpcTypes, SchedInv, Sound
<1>2. /\ Like(sched, sched') /\ channel' = channel /\ ipc_caller' = ipc_caller
      /\ message' = message /\ closed_call' = closed_call
  BY DEF Unmoved, ipcState
<1>3. /\ OnlyChannels(sched') /\ ChannelsTell(sched', channel, message, closed_call)
      /\ ServersMatch(sched', ipc_caller) /\ RolesMatch(sched', ipc_caller, message)
  BY <1>1, <1>2, LikeLemma
<1>4. IpcTypes' /\ NoCallCycle'
  BY <1>1, <1>2, FewerServersLemma DEF IpcTypes
<1> QED
  BY <1>2, <1>3, <1>4 DEF CallsKept

\* A thread that parks joins others in the same role, or an empty channel.
LEMMA JoinedLemma ==
    ASSUME IpcInv, SchedInv', NEW c, NEW ch, NEW side, NEW m, Joined(c, ch, side, m)
    PROVE  CallsKept
<1>1. /\ IpcTypes /\ Channels \subseteq Queues
      /\ OnlyChannels(sched) /\ ChannelsTell(sched, channel, message, closed_call)
      /\ ServersMatch(sched, ipc_caller) /\ RolesMatch(sched, ipc_caller, message)
      /\ NoCallCycle
  BY IpcInvLemma, IpcAssumption DEF IpcInv
<1>2. /\ channel \in [Channels -> {"EMPTY", "LISTENING", "CALLING"}]
      /\ message \in [Threads -> Message]
  BY <1>1 DEF IpcTypes
<1>3. /\ c \in Threads /\ sched.state[c] = "RUNNING" /\ sched'.state[c] = "WAITING"
      /\ \A t \in Threads \ {c} : Kept(sched, sched', t)
      /\ ch \in Channels /\ ~closed_call /\ channel[ch] \in {"EMPTY", side}
      /\ Range(sched'.waitq[ch]) = Range(sched.waitq[ch]) \cup {c}
      /\ \A q \in Queues \ {ch} : Range(sched'.waitq[q]) = Range(sched.waitq[q])
      /\ m \in Message
      /\ \/ side = "CALLING" /\ m.role = "call"
         \/ side = "LISTENING" /\ m.role = "listen" /\ ipc_caller[c] = Nobody
      /\ channel' = [channel EXCEPT ![ch] = side]
      /\ message' = [message EXCEPT ![c] = m]
      /\ ipc_caller' = ipc_caller /\ closed_call' = closed_call
  BY DEF Joined, Others
<1>4. /\ channel'[ch] = side /\ \A p \in Channels \ {ch} : channel'[p] = channel[p]
      /\ message'[c] = m /\ \A t \in Threads \ {c} : message'[t] = message[t]
  BY <1>2, <1>3
<1>5. IpcTypes'
  BY <1>1, <1>3 DEF IpcTypes
<1>6. OnlyChannels(sched')
  BY <1>1, <1>3, StepLemma DEF OnlyChannels
<1>7. ASSUME NEW p \in Channels
      PROVE  /\ channel'[p] = "EMPTY" <=> sched'.waitq[p] = << >>
             /\ \A t \in Range(sched'.waitq[p]) :
                  channel'[p] = IF message'[t].role = "call" THEN "CALLING" ELSE "LISTENING"
  <2>1. /\ channel[p] = "EMPTY" <=> sched.waitq[p] = << >>
        /\ \A t \in Range(sched.waitq[p]) :
              /\ channel[p] = IF message[t].role = "call" THEN "CALLING" ELSE "LISTENING"
              /\ message'[t] = message[t]
    <3>1. \A t \in Range(sched.waitq[p]) : t \in Threads \ {c}
      BY <1>1, <1>3, StepLemma
    <3> QED
      BY <1>1, <1>3, <1>4, <3>1 DEF ChannelsTell
  <2>2. CASE p # ch
    <3>1. Range(sched'.waitq[p]) = Range(sched.waitq[p])
      BY <1>1, <1>3, <2>2
    <3> QED
      BY <1>1, <1>4, <2>1, <2>2, <3>1, StepLemma
  <2>3. CASE p = ch
    <3>1. Range(sched'.waitq[p]) = Range(sched.waitq[p]) \cup {c} /\ sched'.waitq[p] # << >>
      BY <1>1, <1>3, <2>3, StepLemma
    <3>2. channel'[p] = side /\ side # "EMPTY"
      BY <1>3, <1>4, <2>3
    <3>3. \A t \in Range(sched.waitq[p]) : channel[p] = side
      BY <1>3, <2>1, <2>3
    <3>4. channel'[p] = IF message'[c].role = "call" THEN "CALLING" ELSE "LISTENING"
      BY <1>3, <1>4, <3>2
    <3> QED
      BY <2>1, <3>1, <3>2, <3>3, <3>4
  <2> QED
    BY <2>2, <2>3
<1>8. ChannelsTell(sched', channel', message', closed_call')
  BY <1>3, <1>7 DEF ChannelsTell
<1>9. ServersMatch(sched', ipc_caller')
  BY <1>1, <1>3 DEF ServersMatch, Kept, IpcTypes
<1>10. RolesMatch(sched', ipc_caller', message')
  BY <1>1, <1>3, <1>4 DEF RolesMatch, Kept
<1>11. NoCallCycle'
  BY <1>1, <1>3, FewerServersLemma
<1> QED
  BY <1>5, <1>6, <1>8, <1>9, <1>10, <1>11 DEF CallsKept

\* When two threads meet, the channel goes on telling who is left on it.
LEMMA MetLemma ==
    ASSUME IpcInv, SchedInv', NEW c, NEW l, NEW ch, NEW t, Met(c, l, ch, t),
           \A u \in Threads \ {c, l} : message'[u] = message[u]
    PROVE  /\ channel' \in [Channels -> {"EMPTY", "LISTENING", "CALLING"}]
           /\ closed_call' \in BOOLEAN
           /\ OnlyChannels(sched')
           /\ ChannelsTell(sched', channel', message', closed_call')
<1>1. /\ IpcTypes /\ Channels \subseteq Queues
      /\ OnlyChannels(sched) /\ ChannelsTell(sched, channel, message, closed_call)
  BY IpcInvLemma, IpcAssumption
<1>2. channel \in [Channels -> {"EMPTY", "LISTENING", "CALLING"}] /\ closed_call \in BOOLEAN
  BY <1>1 DEF IpcTypes
<1>3. /\ t \in {c, l} /\ \A u \in {c, l} \ {t} : sched.state[u] = "RUNNING"
      /\ ch \in Channels /\ ~closed_call /\ closed_call' = closed_call
      /\ t \in Range(sched.waitq[ch])
      /\ Range(sched'.waitq[ch]) = Range(sched.waitq[ch]) \ {t}
      /\ \A q \in Queues \ {ch} : Range(sched'.waitq[q]) = Range(sched.waitq[q])
      /\ channel' = IF Range(sched'.waitq[ch]) = {} THEN [channel EXCEPT ![ch] = "EMPTY"]
                                                     ELSE channel
  BY DEF Met
<1>4. channel' \in [Channels -> {"EMPTY", "LISTENING", "CALLING"}]
  BY <1>2, <1>3
<1>5. OnlyChannels(sched')
  BY <1>1, <1>3, StepLemma DEF OnlyChannels
<1>6. ASSUME NEW p \in Channels
      PROVE  /\ channel'[p] = "EMPTY" <=> sched'.waitq[p] = << >>
             /\ \A u \in Range(sched'.waitq[p]) :
                  channel'[p] = IF message'[u].role = "call" THEN "CALLING" ELSE "LISTENING"
  <2>1. /\ channel[p] = "EMPTY" <=> sched.waitq[p] = << >>
        /\ \A u \in Range(sched.waitq[p]) :
              channel[p] = IF message[u].role = "call" THEN "CALLING" ELSE "LISTENING"
    BY <1>1, <1>3 DEF ChannelsTell
  <2>2. \A u \in Range(sched.waitq[p]) \ {t} : message'[u] = message[u]
    <3>1. \A u \in Range(sched.waitq[p]) : u \in Threads /\ sched.state[u] = "WAITING"
      BY <1>1, StepLemma
    <3> QED
      BY <1>3, <3>1
  <2>3. CASE p # ch
    <3>1. Range(sched'.waitq[p]) = Range(sched.waitq[p]) /\ channel'[p] = channel[p]
      BY <1>1, <1>2, <1>3, <2>3
    <3>2. t \notin Range(sched.waitq[p])
      BY <1>1, <1>3, <2>3, StepLemma
    <3>3. sched'.waitq[p] = << >> <=> sched.waitq[p] = << >>
      BY <1>1, <3>1, StepLemma
    <3> QED
      BY <2>1, <2>2, <3>1, <3>2, <3>3
  <2>4. CASE p = ch /\ Range(sched'.waitq[ch]) = {}
    <3>1. sched'.waitq[p] = << >>
      BY <1>1, <2>4, StepLemma
    <3>2. channel'[p] = "EMPTY"
      BY <1>2, <1>3, <2>4
    <3> QED
      BY <2>4, <3>1, <3>2
  <2>5. CASE p = ch /\ Range(sched'.waitq[ch]) # {}
    <3>1. sched'.waitq[p] # << >> /\ sched.waitq[p] # << >>
      BY <1>1, <1>3, <2>5, StepLemma
    <3>2. channel'[p] = channel[p]
      BY <1>3, <2>5
    <3> QED
      BY <1>3, <2>1, <2>2, <2>5, <3>1, <3>2
  <2> QED
    BY <2>3, <2>4, <2>5
<1>7. ChannelsTell(sched', channel', message', closed_call')
  BY <1>3, <1>6 DEF ChannelsTell
<1> QED
  BY <1>2, <1>3, <1>4, <1>5, <1>7

\* A call that is delivered has one server, which waits for nobody.
LEMMA DeliveredLemma ==
    ASSUME IpcInv, SchedInv', NEW c, NEW l, NEW ch, NEW t, Met(c, l, ch, t),
           NEW call, NEW buffer, Delivered(c, l, call, buffer)
    PROVE  CallsKept
<1> DEFINE sent == [call EXCEPT !.rx = CASE call.mode = "WRITE" -> FALSE
                                         [] call.mode = "READ" -> TRUE
                                         [] OTHER -> @]
           received == [call EXCEPT !.role = "serve", !.len = DeliveredLen(call, buffer)]
<1>1. /\ ServersMatch(sched, ipc_caller) /\ RolesMatch(sched, ipc_caller, message)
      /\ NoCallCycle
      /\ ipc_caller \in [Threads -> Threads \cup {Nobody}]
      /\ message \in [Threads -> Message]
      /\ Nobody \notin Threads
  BY IpcInvLemma, SchedAssumption DEF IpcInv, IpcTypes
<1>2. /\ c \in Threads /\ l \in Threads /\ c # l
      /\ \A u \in {c, l} : sched.state[u] \in {"WAITING", "RUNNING"}
      /\ \A u \in Threads \ {c, l} : Kept(sched, sched', u)
      /\ ipc_caller[l] = Nobody
  BY DEF Met, Others
<1>3. /\ sched'.state[c] = "CALLING" /\ sched'.state[l] \notin {"CALLING", "WAITING"}
      /\ call \in Message /\ call.role = "call" /\ buffer \in 0..MaxLen
      /\ ipc_caller' = [ipc_caller EXCEPT ![l] = c]
      /\ message' = [message EXCEPT ![c] = sent, ![l] = received]
  BY DEF Delivered, Free
<1>4. sent \in Message /\ sent.role = "call" /\ received \in Message /\ received.role = "serve"
  <2>1. DeliveredLen(call, buffer) \in 0..MaxLen
    BY <1>3 DEF DeliveredLen, Shorter, Message
  <2> DEFINE rx == CASE call.mode = "WRITE" -> FALSE
                     [] call.mode = "READ" -> TRUE
                     [] OTHER -> call.rx
             len == DeliveredLen(call, buffer)
  <2>2. rx \in BOOLEAN
    BY <1>3 DEF Message
  <2>3. sent = [call EXCEPT !.rx = rx] /\ received = [call EXCEPT !.role = "serve", !.len = len]
    OBVIOUS
  <2>4. len \in 0..MaxLen
    BY <2>1
  <2> HIDE DEF rx, len, sent, received
  <2> QED
    BY <1>3, <2>2, <2>3, <2>4 DEF Message
<1> HIDE DEF sent, received
<1>5. /\ message'[c] = sent /\ message'[l] = received
      /\ \A u \in Threads \ {c, l} : message'[u] = message[u]
      /\ ipc_caller'[l] = c
      /\ \A u \in Threads \ {l} : ipc_caller'[u] = ipc_caller[u]
  BY <1>1, <1>2, <1>3
<1>6. IpcTypes' /\ OnlyChannels(sched')
      /\ ChannelsTell(sched', channel', message', closed_call')
  <2>1. /\ ipc_caller' \in [Threads -> Threads \cup {Nobody}]
        /\ message' \in [Threads -> Message]
    BY <1>1, <1>2, <1>3, <1>4
  <2> QED
    BY <1>5, <2>1, MetLemma DEF IpcTypes
<1>7. \A u \in Threads : ipc_caller[u] # c /\ ipc_caller[u] # l
  BY <1>1, <1>2 DEF ServersMatch
<1>8. ServersMatch(sched', ipc_caller')
  <2>1. ASSUME NEW x \in Threads, sched'.state[x] = "CALLING"
        PROVE  \E m \in Threads : ipc_caller'[m] = x
    <3>1. CASE x = c
      BY <1>2, <1>5, <3>1
    <3>2. CASE x # c
      <4>1. x # l /\ sched.state[x] = "CALLING"
        BY <1>2, <1>3, <2>1, <3>2 DEF Kept
      <4>2. PICK m \in Threads : ipc_caller[m] = x
        BY <1>1, <4>1 DEF ServersMatch
      <4> QED
        BY <1>1, <1>2, <1>5, <4>2
    <3> QED
      BY <3>1, <3>2
  <2>2. ASSUME NEW k \in Threads, ipc_caller'[k] # Nobody
        PROVE  /\ sched'.state[ipc_caller'[k]] = "CALLING"
               /\ \A m \in Threads : ipc_caller'[m] = ipc_caller'[k] => m = k
    <3>1. CASE k = l
      BY <1>3, <1>5, <1>7, <3>1
    <3>2. CASE k # l
      <4>1. /\ ipc_caller'[k] = ipc_caller[k] /\ ipc_caller[k] \in Threads
            /\ sched.state[ipc_caller[k]] = "CALLING"
            /\ \A m \in Threads : ipc_caller[m] = ipc_caller[k] => m = k
        BY <1>1, <1>5, <2>2, <3>2 DEF ServersMatch
      <4>2. ipc_caller[k] # c /\ ipc_caller[k] # l
        BY <1>7
      <4>3. sched'.state[ipc_caller[k]] = "CALLING"
        BY <1>2, <4>1, <4>2 DEF Kept
      <4> QED
        BY <1>5, <4>1, <4>2, <4>3
    <3> QED
      BY <3>1, <3>2
  <2> QED
    BY <2>1, <2>2 DEF ServersMatch
<1>9. RolesMatch(sched', ipc_caller', message')
  <2> SUFFICES ASSUME NEW u \in Threads
               PROVE  /\ message'[u].role = "call" => sched'.state[u] \in {"WAITING", "CALLING"}
                      /\ message'[u].role = "listen" =>
                            sched'.state[u] = "WAITING" /\ ipc_caller'[u] = Nobody
                      /\ sched'.state[u] = "WAITING" => message'[u].role \in {"call", "listen"}
                      /\ sched'.state[u] = "CALLING" => message'[u].role = "call"
    BY DEF RolesMatch
  <2>1. CASE u = c
    BY <1>3, <1>4, <1>5, <2>1
  <2>2. CASE u = l
    BY <1>3, <1>4, <1>5, <2>2
  <2>3. CASE u \notin {c, l}
    BY <1>1, <1>2, <1>5, <2>3 DEF RolesMatch, Kept
  <2> QED
    BY <2>1, <2>2, <2>3
<1>10. NoCallCycle'
  <2> SUFFICES ASSUME NEW S \in SUBSET Threads, S # {}
               PROVE  \E x \in S : \A m \in S : ipc_caller'[m] # x
    BY DEF NoCallCycle, Rpcs!NoCallCycle
  <2>1. CASE l \in S
    <3>1. \A m \in S : ipc_caller'[m] # l
      BY <1>2, <1>5, <1>7
    <3> QED
      BY <2>1, <3>1
  <2>2. CASE l \notin S
    <3>1. PICK x \in S : \A m \in S : ipc_caller[m] # x
      BY <1>1 DEF NoCallCycle, Rpcs!NoCallCycle
    <3>2. \A m \in S : ipc_caller'[m] # x
      BY <1>5, <2>2, <3>1
    <3> QED
      BY <3>2
  <2> QED
    BY <2>1, <2>2
<1> QED
  BY <1>6, <1>8, <1>9, <1>10 DEF CallsKept

\* A call that fails before it is delivered leaves no trace.
LEMMA FailedLemma ==
    ASSUME IpcInv, SchedInv', NEW c, NEW l, NEW ch, NEW t, Met(c, l, ch, t), Failed(c, l)
    PROVE  CallsKept
<1>1. /\ ServersMatch(sched, ipc_caller) /\ RolesMatch(sched, ipc_caller, message)
      /\ NoCallCycle
      /\ ipc_caller \in [Threads -> Threads \cup {Nobody}]
      /\ message \in [Threads -> Message]
      /\ Nobody \notin Threads
  BY IpcInvLemma, SchedAssumption DEF IpcInv, IpcTypes
<1>2. /\ c \in Threads /\ l \in Threads /\ c # l
      /\ \A u \in {c, l} : sched.state[u] \in {"WAITING", "RUNNING"}
      /\ \A u \in Threads \ {c, l} : Kept(sched, sched', u)
  BY DEF Met, Others
<1>3. /\ \A u \in {c, l} : sched'.state[u] \notin {"CALLING", "WAITING"}
      /\ ipc_caller' = ipc_caller
      /\ message' = [message EXCEPT ![c] = NoMessage, ![l] = NoMessage]
  BY DEF Failed, Free
<1>4. NoMessage \in Message /\ NoMessage.role = "none"
  BY IpcAssumption DEF NoMessage, Message, TransferMode
<1>5. /\ \A u \in {c, l} : message'[u] = NoMessage
      /\ \A u \in Threads \ {c, l} : message'[u] = message[u]
  BY <1>1, <1>2, <1>3
<1>6. IpcTypes' /\ OnlyChannels(sched')
      /\ ChannelsTell(sched', channel', message', closed_call')
  <2>1. /\ ipc_caller' \in [Threads -> Threads \cup {Nobody}]
        /\ message' \in [Threads -> Message]
    BY <1>1, <1>2, <1>3, <1>4
  <2> QED
    BY <1>5, <2>1, MetLemma DEF IpcTypes
<1>7. \A u \in Threads : sched'.state[u] = "CALLING" <=> sched.state[u] = "CALLING"
  BY <1>2, <1>3 DEF Kept
<1>8. ServersMatch(sched', ipc_caller')
  BY <1>1, <1>3, <1>7 DEF ServersMatch
<1>9. RolesMatch(sched', ipc_caller', message')
  BY <1>1, <1>2, <1>3, <1>4, <1>5 DEF RolesMatch, Kept
<1>10. NoCallCycle'
  BY <1>1, <1>3, FewerServersLemma
<1> QED
  BY <1>6, <1>8, <1>9, <1>10 DEF CallsKept

\* A response frees the server and its caller, and no other thread.
LEMMA EndedLemma ==
    ASSUME IpcInv, SchedInv', NEW r, NEW c, Ended(r, c)
    PROVE  CallsKept
<1>1. /\ IpcTypes /\ Channels \subseteq Queues
      /\ OnlyChannels(sched) /\ ChannelsTell(sched, channel, message, closed_call)
      /\ ServersMatch(sched, ipc_caller) /\ RolesMatch(sched, ipc_caller, message)
      /\ NoCallCycle
      /\ ipc_caller \in [Threads -> Threads \cup {Nobody}]
      /\ message \in [Threads -> Message]
      /\ Nobody \notin Threads
  BY IpcInvLemma, IpcAssumption, SchedAssumption DEF IpcInv, IpcTypes
<1>2. /\ r \in Threads /\ c \in Threads /\ c = ipc_caller[r]
      /\ sched.state[r] = "RUNNING"
      /\ sched'.state[c] \notin {"CALLING", "WAITING"}
      /\ \A u \in Threads \ {c} : Kept(sched, sched', u)
      /\ \A q \in Queues : Range(sched'.waitq[q]) = Range(sched.waitq[q])
      /\ ipc_caller' = [ipc_caller EXCEPT ![r] = Nobody]
      /\ message' = [message EXCEPT ![r] = NoMessage, ![c] = NoMessage]
      /\ channel' = channel /\ closed_call' = closed_call
  BY DEF Ended, Free, Others, callEnds
<1>3. sched.state[c] = "CALLING" /\ c # r /\ \A m \in Threads : ipc_caller[m] = c => m = r
  BY <1>1, <1>2 DEF ServersMatch
<1>4. NoMessage \in Message /\ NoMessage.role = "none"
  BY IpcAssumption DEF NoMessage, Message, TransferMode
<1>5. /\ \A u \in {r, c} : message'[u] = NoMessage
      /\ \A u \in Threads \ {r, c} : message'[u] = message[u]
      /\ ipc_caller'[r] = Nobody
      /\ \A u \in Threads \ {r} : ipc_caller'[u] = ipc_caller[u]
  BY <1>1, <1>2
<1>6. IpcTypes'
  <2>1. /\ ipc_caller' \in [Threads -> Threads \cup {Nobody}]
        /\ message' \in [Threads -> Message]
    BY <1>1, <1>2, <1>4
  <2> QED
    BY <1>1, <1>2, <2>1 DEF IpcTypes
<1>7. OnlyChannels(sched')
  BY <1>1, <1>2, StepLemma DEF OnlyChannels
<1>8. ChannelsTell(sched', channel', message', closed_call')
  <2>1. \A p \in Channels : \A u \in Range(sched.waitq[p]) : message'[u] = message[u]
    <3>1. \A p \in Channels : \A u \in Range(sched.waitq[p]) :
            u \in Threads /\ sched.state[u] = "WAITING"
      BY <1>1, StepLemma
    <3> QED
      BY <1>2, <1>3, <1>5, <3>1
  <2>2. \A p \in Channels :
            /\ Range(sched'.waitq[p]) = Range(sched.waitq[p])
            /\ sched'.waitq[p] = << >> <=> sched.waitq[p] = << >>
    BY <1>1, <1>2, StepLemma
  <2>3. /\ ChannelsTell(sched, channel, message, closed_call)
        /\ channel' = channel /\ closed_call' = closed_call
    BY <1>1, <1>2
  <2> QED
    BY <2>1, <2>2, <2>3 DEF ChannelsTell
<1>9. \A u \in Threads : sched'.state[u] = "CALLING" <=> (u # c /\ sched.state[u] = "CALLING")
  BY <1>2 DEF Kept
<1>10. ServersMatch(sched', ipc_caller')
  <2>1. ASSUME NEW x \in Threads, sched'.state[x] = "CALLING"
        PROVE  \E m \in Threads : ipc_caller'[m] = x
    <3>1. PICK m \in Threads : ipc_caller[m] = x
      BY <1>1, <1>9, <2>1 DEF ServersMatch
    <3>2. m # r
      BY <1>2, <1>9, <2>1, <3>1
    <3>3. ipc_caller'[m] = x
      BY <1>5, <3>1, <3>2
    <3> QED
      BY <3>3
  <2>2. ASSUME NEW k \in Threads, ipc_caller'[k] # Nobody
        PROVE  /\ sched'.state[ipc_caller'[k]] = "CALLING"
               /\ \A m \in Threads : ipc_caller'[m] = ipc_caller'[k] => m = k
    <3>1. k # r /\ ipc_caller'[k] = ipc_caller[k] /\ ipc_caller[k] \in Threads
      BY <1>1, <1>5, <2>2
    <3>2. /\ sched.state[ipc_caller[k]] = "CALLING"
          /\ \A m \in Threads : ipc_caller[m] = ipc_caller[k] => m = k
      BY <1>1, <2>2, <3>1 DEF ServersMatch
    <3>3. ipc_caller[k] # c
      BY <1>3, <3>1
    <3> QED
      BY <1>1, <1>5, <1>9, <3>1, <3>2, <3>3
  <2> QED
    BY <2>1, <2>2 DEF ServersMatch
<1>11. RolesMatch(sched', ipc_caller', message')
  <2> SUFFICES ASSUME NEW u \in Threads
               PROVE  /\ message'[u].role = "call" => sched'.state[u] \in {"WAITING", "CALLING"}
                      /\ message'[u].role = "listen" =>
                            sched'.state[u] = "WAITING" /\ ipc_caller'[u] = Nobody
                      /\ sched'.state[u] = "WAITING" => message'[u].role \in {"call", "listen"}
                      /\ sched'.state[u] = "CALLING" => message'[u].role = "call"
    BY DEF RolesMatch
  <2>1. CASE u = c
    BY <1>2, <1>4, <1>5, <2>1
  <2>2. CASE u = r
    BY <1>2, <1>3, <1>4, <1>5, <2>2 DEF Kept
  <2>3. CASE u \notin {c, r}
    BY <1>1, <1>2, <1>5, <2>3 DEF RolesMatch, Kept
  <2> QED
    BY <2>1, <2>2, <2>3
<1>12. NoCallCycle'
  BY <1>1, <1>5, FewerServersLemma
<1> QED
  BY <1>6, <1>7, <1>8, <1>10, <1>11, <1>12 DEF CallsKept

\* A close frees everyone who waits; calls that a server has go on.
LEMMA ClosedLemma ==
    ASSUME IpcInv, SchedInv', Closed
    PROVE  CallsKept
<1>1. /\ IpcTypes /\ Channels \subseteq Queues
      /\ ServersMatch(sched, ipc_caller) /\ RolesMatch(sched, ipc_caller, message)
      /\ NoCallCycle
      /\ message \in [Threads -> Message]
  BY IpcInvLemma, IpcAssumption DEF IpcInv, IpcTypes
<1>2. /\ closed_call' = TRUE /\ channel' = channel /\ ipc_caller' = ipc_caller
      /\ message' = [t \in Threads |->
            IF message[t].role \in {"call", "listen"} /\ sched.state[t] = "WAITING"
            THEN NoMessage ELSE message[t]]
      /\ \A q \in Queues : sched'.waitq[q] = << >>
      /\ \A t \in Threads :
            /\ sched'.state[t] = "CALLING" <=> sched.state[t] = "CALLING"
            /\ sched'.state[t] # "WAITING"
  BY DEF Closed
<1>3. NoMessage \in Message /\ NoMessage.role = "none"
  BY IpcAssumption DEF NoMessage, Message, TransferMode
<1>4. IpcTypes'
  <2>1. message' \in [Threads -> Message]
    BY <1>1, <1>2, <1>3
  <2> QED
    BY <1>1, <1>2, <2>1 DEF IpcTypes
<1>5. OnlyChannels(sched')
  BY <1>2 DEF OnlyChannels
<1>6. ChannelsTell(sched', channel', message', closed_call')
  BY <1>1, <1>2 DEF ChannelsTell
<1>7. ServersMatch(sched', ipc_caller')
  BY <1>1, <1>2 DEF ServersMatch, IpcTypes
<1>8. RolesMatch(sched', ipc_caller', message')
  <2> SUFFICES ASSUME NEW u \in Threads
               PROVE  /\ message'[u].role = "call" => sched'.state[u] \in {"WAITING", "CALLING"}
                      /\ message'[u].role = "listen" =>
                            sched'.state[u] = "WAITING" /\ ipc_caller'[u] = Nobody
                      /\ sched'.state[u] = "WAITING" => message'[u].role \in {"call", "listen"}
                      /\ sched'.state[u] = "CALLING" => message'[u].role = "call"
    BY DEF RolesMatch
  <2>1. CASE message[u].role \in {"call", "listen"} /\ sched.state[u] = "WAITING"
    <3>1. message'[u].role = "none" /\ sched'.state[u] \notin {"WAITING", "CALLING"}
      BY <1>2, <1>3, <2>1
    <3> QED
      BY <3>1
  <2>2. CASE ~(message[u].role \in {"call", "listen"} /\ sched.state[u] = "WAITING")
    <3>1. message'[u] = message[u] /\ sched.state[u] # "WAITING" /\ message[u].role # "listen"
      BY <1>1, <1>2, <2>2 DEF RolesMatch
    <3> QED
      BY <1>1, <1>2, <3>1 DEF RolesMatch
  <2> QED
    BY <2>1, <2>2
<1>9. NoCallCycle'
  BY <1>1, <1>2, FewerServersLemma
<1> QED
  BY <1>4, <1>5, <1>6, <1>7, <1>8, <1>9 DEF CallsKept

\* The invariant is inductive, and each step is of one of the kinds.
LEMMA IpcNextLemma ==
    ASSUME IpcInv, RespondFirst, IpcNext
    PROVE  IpcInv' /\ IpcStep
<1>1. SchedInv' /\ SleepersSleep(sched') /\ IpcStep
  BY IpcStepLemma
<1>2. CallsKept
  BY <1>1, UnmovedLemma, JoinedLemma, DeliveredLemma, FailedLemma, EndedLemma, ClosedLemma
     DEF IpcStep
<1> QED
  BY <1>1, <1>2 DEF IpcInv, CallsKept, CallsAgree, SleepersSleep, OnlyChannels, ChannelsTell,
     ServersMatch, RolesMatch

\* No call is made yet when the system starts.
LEMMA IpcInitLemma == IpcInit => IpcInv
<1> SUFFICES ASSUME IpcInit PROVE IpcInv
  OBVIOUS
<1>1. SchedInv
  BY SchedInitLemma DEF IpcInit
<1>2. /\ channel = [c \in Channels |-> "EMPTY"]
      /\ ipc_caller = [t \in Threads |-> Nobody]
      /\ message = [t \in Threads |-> NoMessage]
      /\ closed_call = FALSE
      /\ NoMessage \in Message /\ NoMessage.role = "none"
  BY IpcAssumption DEF IpcInit, NoMessage, Message, TransferMode
<1>3. /\ sched.sleepq = << >>
      /\ \A q \in Queues : sched.waitq[q] = << >>
      /\ \A t \in Threads : sched.state[t] \in {"RUNNING", "NONE"}
  BY DEF IpcInit, SchedInit
<1>4. /\ Range(sched.sleepq) = {} /\ \A q \in Queues : Range(sched.waitq[q]) = {}
  BY <1>3, EmptyLemma
<1>5. IpcTypes
  BY <1>2 DEF IpcTypes
<1>6. CallsAgree(sched, channel, ipc_caller, message, closed_call)
  <2>1. SleepersSleep(sched) /\ OnlyChannels(sched)
    BY <1>3, <1>4 DEF SleepersSleep, OnlyChannels
  <2>2. ChannelsTell(sched, channel, message, closed_call)
    BY <1>2, <1>3, <1>4, IpcAssumption DEF ChannelsTell
  <2>3. ServersMatch(sched, ipc_caller) /\ RolesMatch(sched, ipc_caller, message)
    BY <1>2, <1>3 DEF ServersMatch, RolesMatch
  <2> QED
    BY <2>1, <2>2, <2>3 DEF CallsAgree
<1>7. NoCallCycle
  BY <1>2, SchedAssumption DEF NoCallCycle, Rpcs!NoCallCycle
<1> QED
  BY <1>1, <1>5, <1>6, <1>7 DEF IpcInv

\* A step that changes nothing keeps the invariant.
LEMMA IpcStutterLemma ==
    ASSUME IpcInv, UNCHANGED ipcVars
    PROVE  IpcInv' /\ IpcStep
<1>1. /\ sched' = sched /\ channel' = channel /\ ipc_caller' = ipc_caller
      /\ message' = message /\ closed_call' = closed_call
  BY DEF ipcVars, ipcState
<1>2. SchedInv'
  BY <1>1, SchedNextLemma DEF IpcInv
<1>3. Unmoved /\ SleepersSleep(sched')
  BY <1>1, IpcInvLemma DEF Unmoved, Like, Kept, ipcState
<1>4. CallsKept
  BY <1>2, <1>3, UnmovedLemma
<1> QED
  BY <1>2, <1>3, <1>4 DEF IpcStep, IpcInv, CallsKept, CallsAgree, SleepersSleep, OnlyChannels,
     ChannelsTell, ServersMatch, RolesMatch

\* The invariant holds in every state, of any number of threads and channels.
LEMMA IpcInvariance ==
    ASSUME RespondFirst
    PROVE  IpcSpec => []IpcInv
<1>1. IpcInit => IpcInv
  BY IpcInitLemma
<1>2. IpcInv /\ [IpcNext]_ipcVars => IpcInv'
  BY IpcNextLemma, IpcStutterLemma
<1> QED
  BY <1>1, <1>2, PTL DEF IpcSpec

-----------------------------------------------------------------------------
(***************************************************************************)
(* Theorems                                                                *)
(***************************************************************************)

\* Hand-offs between callers and servers, failed copies and a close lose no thread, and
\* fail no assert of ipc.cxx or of the scheduler.
THEOREM MessagesAreSound ==
    ASSUME RespondFirst
    PROVE  IpcSpec => []IpcSound
<1>1. IpcInv => IpcSound
  BY SchedInvLemma DEF IpcInv, IpcTypes, IpcSound, IpcTypeOK
<1>2. IpcSpec => []IpcInv
  BY IpcInvariance
<1> QED
  BY <1>1, <1>2, PTL

\* A caller whose call was accepted is held by exactly one server: it is not orphaned,
\* and no two servers respond to it.
THEOREM OneServerPerCall ==
    ASSUME RespondFirst
    PROVE  IpcSpec => []CallingHasOneServer
<1>1. IpcInv => CallingHasOneServer
  <2> SUFFICES ASSUME IpcInv, NEW c \in Threads
               PROVE  Cardinality({l \in Threads : ipc_caller[l] = c}) =
                        IF sched.state[c] = "CALLING" THEN 1 ELSE 0
    BY DEF CallingHasOneServer
  <2> DEFINE servers == {l \in Threads : ipc_caller[l] = c}
  <2>1. ServersMatch(sched, ipc_caller) /\ c # Nobody
    BY IpcInvLemma, SchedAssumption
  <2>2. CASE sched.state[c] = "CALLING"
    <3>1. PICK l \in Threads : ipc_caller[l] = c
      BY <2>1, <2>2 DEF ServersMatch
    <3>2. servers = {l}
      BY <2>1, <3>1 DEF ServersMatch
    <3>3. Cardinality(servers) = 1
      BY <3>2, FS_Singleton
    <3> QED
      BY <2>2, <3>3
  <2>3. CASE sched.state[c] # "CALLING"
    <3>1. servers = {}
      BY <2>1, <2>3 DEF ServersMatch
    <3>2. Cardinality(servers) = 0
      BY <3>1, FS_EmptySet
    <3> QED
      BY <2>3, <3>2
  <2> QED
    BY <2>2, <2>3
<1>2. IpcSpec => []IpcInv
  BY IpcInvariance
<1> QED
  BY <1>1, <1>2, PTL

\* The state of a channel tells who is parked on it, so that a caller and a listener
\* never both wait on one channel; a close leaves nobody behind.
THEOREM NobodyMissesAPartner ==
    ASSUME RespondFirst
    PROVE  IpcSpec => []ChannelTellsWhoWaits
<1>1. IpcInv => ChannelTellsWhoWaits
  <2> SUFFICES ASSUME IpcInv PROVE ChannelTellsWhoWaits
    OBVIOUS
  <2>1. ChannelsTell(sched, channel, message, closed_call)
    BY IpcInvLemma
  <2> QED
    BY <2>1 DEF ChannelsTell, ChannelTellsWhoWaits
<1>2. IpcSpec => []IpcInv
  BY IpcInvariance
<1> QED
  BY <1>1, <1>2, PTL

\* However servers call other servers while they serve, no set of threads ever waits for
\* its own responses: message passing itself makes no deadlock of accepted calls.
THEOREM CallsNeverCircle ==
    ASSUME RespondFirst
    PROVE  IpcSpec => []NoCallCycle
<1>1. IpcInv => NoCallCycle
  BY DEF IpcInv
<1>2. IpcSpec => []IpcInv
  BY IpcInvariance
<1> QED
  BY <1>1, <1>2, PTL

\* The invariant and the kind of step, together
LEMMA IpcActionLemma ==
    ASSUME RespondFirst, IpcInv, [IpcNext]_ipcVars
    PROVE  IpcInv' /\ IpcStep
BY IpcNextLemma, IpcStutterLemma

\* Whoever leaves a call is told an answer or an error that the code documents.
LEMMA EndsLemma ==
    ASSUME IpcInv, IpcStep, NEW t \in Threads
    PROVE  /\ message[t].role = "call" /\ message'[t].role = "none" =>
                \/ sched.state[t] = "CALLING" /\ sched'.r0[t] \in {"reply", "EIPCIO", "EFAULT"}
                \/ sched.state[t] = "WAITING" /\ sched'.r0[t] \in {"EIPCIO", "EFAULT", "E2BIG"}
                \/ sched'.r0[t] = "EBADF" /\ closed_call' # closed_call
           /\ message[t].role = "listen" /\ message'[t].role = "none" =>
                \/ sched'.r0[t] \in {"EIPCIO", "EFAULT"}
                \/ sched'.r0[t] = "EPIPE" /\ closed_call' # closed_call
<1> DEFINE Goal ==
        /\ message[t].role = "call" /\ message'[t].role = "none" =>
                \/ sched.state[t] = "CALLING" /\ sched'.r0[t] \in {"reply", "EIPCIO", "EFAULT"}
                \/ sched.state[t] = "WAITING" /\ sched'.r0[t] \in {"EIPCIO", "EFAULT", "E2BIG"}
                \/ sched'.r0[t] = "EBADF" /\ closed_call' # closed_call
        /\ message[t].role = "listen" /\ message'[t].role = "none" =>
                \/ sched'.r0[t] \in {"EIPCIO", "EFAULT"}
                \/ sched'.r0[t] = "EPIPE" /\ closed_call' # closed_call
<1>1. /\ message \in [Threads -> Message]
      /\ ChannelsTell(sched, channel, message, closed_call)
      /\ ServersMatch(sched, ipc_caller)
      /\ RolesMatch(sched, ipc_caller, message)
      /\ Nobody \notin Threads
  BY IpcInvLemma, SchedAssumption DEF IpcTypes
<1>2. /\ message[t].role = "call" => sched.state[t] \in {"WAITING", "CALLING"}
      /\ message[t].role = "listen" => sched.state[t] = "WAITING"
      /\ sched.state[t] = "CALLING" => message[t].role = "call"
  BY <1>1 DEF RolesMatch
<1>3. message'[t] = message[t] => Goal
  OBVIOUS
<1>4. message'[t].role \in {"call", "listen", "serve"} => Goal
  OBVIOUS
<1>5. ASSUME Unmoved
      PROVE  Goal
  BY <1>3, <1>5 DEF Unmoved, ipcState
<1>6. ASSUME NEW c, NEW ch, NEW side, NEW m, Joined(c, ch, side, m)
      PROVE  Goal
  <2>1. message' = [message EXCEPT ![c] = m] /\ m.role \in {"call", "listen"}
    BY <1>6 DEF Joined
  <2> HIDE DEF Goal
  <2>2. CASE t = c
    BY <1>1, <1>4, <2>1, <2>2
  <2>3. CASE t # c
    BY <1>1, <1>3, <2>1, <2>3
  <2> QED
    BY <2>2, <2>3
<1>7. ASSUME NEW c, NEW l, NEW ch, NEW u, NEW call, NEW buffer,
             Met(c, l, ch, u), Delivered(c, l, call, buffer)
      PROVE  Goal
  <2> DEFINE sent == [call EXCEPT !.rx = CASE call.mode = "WRITE" -> FALSE
                                           [] call.mode = "READ" -> TRUE
                                           [] OTHER -> @]
             received == [call EXCEPT !.role = "serve", !.len = DeliveredLen(call, buffer)]
  <2>1. /\ message' = [message EXCEPT ![c] = sent, ![l] = received]
        /\ c # l /\ call \in Message /\ call.role = "call"
    BY <1>7 DEF Met, Delivered
  <2>2. sent.role = "call" /\ received.role = "serve"
    BY <2>1 DEF Message
  <2> HIDE DEF Goal, sent, received
  <2>3. CASE t \in {c, l}
    <3>1. message'[t] \in {sent, received}
      BY <1>1, <2>1, <2>3
    <3> QED
      BY <1>4, <2>2, <3>1
  <2>4. CASE t \notin {c, l}
    BY <1>1, <1>3, <2>1, <2>4
  <2> QED
    BY <2>3, <2>4
<1>8. ASSUME NEW c, NEW l, NEW ch, NEW u, Met(c, l, ch, u), Failed(c, l)
      PROVE  Goal
  <2>1. /\ u \in {c, l} /\ sched.state[u] = "WAITING"
        /\ \A v \in {c, l} \ {u} : sched.state[v] = "RUNNING"
        /\ ch \in Channels /\ ~closed_call /\ u \in Range(sched.waitq[ch])
        /\ channel[ch] = IF u = c THEN "CALLING" ELSE "LISTENING"
    BY <1>8 DEF Met
  <2>2. /\ sched'.r0[c] \in {"EIPCIO", "EFAULT", "E2BIG"}
        /\ sched'.r0[l] \in {"EIPCIO", "EFAULT"}
        /\ message' = [message EXCEPT ![c] = NoMessage, ![l] = NoMessage]
    BY <1>8 DEF Failed
  <2>3. u = c => message[u].role = "call"
    BY <1>1, <2>1 DEF ChannelsTell
  <2>4. CASE t = u
    BY <1>2, <2>1, <2>2, <2>3, <2>4
  <2>5. CASE t \in {c, l} \ {u}
    BY <1>2, <2>1, <2>5
  <2>6. CASE t \notin {c, l}
    <3>1. message'[t] = message[t]
      BY <1>1, <2>2, <2>6
    <3> QED
      BY <1>3, <3>1
  <2> QED
    BY <2>1, <2>4, <2>5, <2>6
<1>9. ASSUME NEW r, NEW c, Ended(r, c)
      PROVE  Goal
  <2>1. /\ r \in Threads /\ c \in Threads /\ c = ipc_caller[r] /\ sched.state[r] = "RUNNING"
        /\ sched'.r0[c] \in {"reply", "EIPCIO", "EFAULT"}
        /\ message' = [message EXCEPT ![r] = NoMessage, ![c] = NoMessage]
    BY <1>9 DEF Ended, callEnds
  <2>2. sched.state[c] = "CALLING"
    BY <1>1, <2>1 DEF ServersMatch
  <2>3. CASE t = c
    BY <1>2, <2>1, <2>2, <2>3
  <2>4. CASE t = r
    BY <1>2, <2>1, <2>4
  <2>5. CASE t \notin {r, c}
    <3>1. message'[t] = message[t]
      BY <1>1, <2>1, <2>5
    <3> QED
      BY <1>3, <3>1
  <2> QED
    BY <2>3, <2>4, <2>5
<1>10. ASSUME Closed
       PROVE  Goal
  <2>1. /\ ~closed_call /\ closed_call' = TRUE
        /\ message' = [v \in Threads |->
                IF message[v].role \in {"call", "listen"} /\ sched.state[v] = "WAITING"
                THEN NoMessage ELSE message[v]]
        /\ sched.state[t] = "WAITING" =>
                /\ message[t].role = "call" => sched'.r0[t] = "EBADF"
                /\ message[t].role = "listen" => sched'.r0[t] = "EPIPE"
    BY <1>10 DEF Closed
  <2>2. CASE sched.state[t] = "WAITING"
    BY <2>1, <2>2
  <2>3. CASE sched.state[t] # "WAITING"
    <3>1. message'[t] = message[t]
      BY <2>1, <2>3
    <3> QED
      BY <1>3, <3>1
  <2> QED
    BY <2>2, <2>3
<1>11. Goal
  <2> HIDE DEF Goal
  <2> QED
    BY <1>5, <1>6, <1>7, <1>8, <1>9, <1>10 DEF IpcStep
<1> QED
  BY <1>11

\* A thread that leaves a call gets an answer or an error with a reason: only a caller
\* that is served gets a reply, only a close gives EPIPE and EBADF.
THEOREM CallsEndForAReason ==
    ASSUME RespondFirst
    PROVE  IpcSpec => CallEndsTellWhy
<1>1. IpcInv /\ [IpcNext]_ipcVars
        => [\A t \in Threads :
              /\ message[t].role = "call" /\ message'[t].role = "none" =>
                  \/ sched.state[t] = "CALLING" /\ sched'.r0[t] \in {"reply", "EIPCIO", "EFAULT"}
                  \/ sched.state[t] = "WAITING" /\ sched'.r0[t] \in {"EIPCIO", "EFAULT", "E2BIG"}
                  \/ sched'.r0[t] = "EBADF" /\ closed_call' # closed_call
              /\ message[t].role = "listen" /\ message'[t].role = "none" =>
                  \/ sched'.r0[t] \in {"EIPCIO", "EFAULT"}
                  \/ sched'.r0[t] = "EPIPE" /\ closed_call' # closed_call]_ipcVars
  BY IpcActionLemma, EndsLemma
<1>2. IpcSpec => []IpcInv
  BY IpcInvariance
<1> QED
  BY <1>1, <1>2, PTL DEF IpcSpec, CallEndsTellWhy

\* A delivered call fits: no more than was sent, no more than the buffer holds, and cut
\* only where that is allowed.
LEMMA FitsLemma ==
    ASSUME NEW c, NEW l, NEW call, NEW buffer, Delivered(c, l, call, buffer),
           message \in [Threads -> Message], c \in Threads, l \in Threads, c # l
    PROVE  /\ message'[l].len <= message'[c].len
           /\ CopiesString(message'[c]) =>
                /\ 0 < message'[l].len
                /\ message'[l].len <= buffer
           /\ message'[l].len < message'[c].len =>
                message'[c].mode = "WRITE" \/ message'[c].frag
<1> DEFINE rx == CASE call.mode = "WRITE" -> FALSE
                   [] call.mode = "READ" -> TRUE
                   [] OTHER -> call.rx
           len == DeliveredLen(call, buffer)
           sent == [call EXCEPT !.rx = rx]
           received == [call EXCEPT !.role = "serve", !.len = len]
<1>1. /\ call \in Message /\ buffer \in 0..MaxLen /\ ~TooBig(call, buffer)
      /\ CopiesString(call) => RangeOk(len)
      /\ message' = [message EXCEPT ![c] = sent, ![l] = received]
  BY DEF Delivered
<1>2. MaxLen \in Nat /\ call.len \in Nat /\ buffer \in Nat
  BY <1>1, IpcAssumption DEF Message
<1>3. len = IF CopiesString(call) THEN (IF call.len < buffer THEN call.len ELSE buffer)
                                  ELSE call.len
  BY DEF DeliveredLen, Shorter
<1>4. sent.len = call.len /\ sent.mode = call.mode /\ sent.frag = call.frag /\ received.len = len
  BY <1>1 DEF Message
<1> HIDE DEF rx, len, sent, received
<1>5. message'[c] = sent /\ message'[l] = received
  BY <1>1
<1>6. CopiesString(sent) = CopiesString(call)
  BY <1>4 DEF CopiesString
<1>7. len <= call.len
  BY <1>2, <1>3
<1>8. CopiesString(call) => 0 < len /\ len <= buffer
  BY <1>1, <1>2, <1>3 DEF RangeOk
<1>9. len < call.len => call.mode = "WRITE" \/ call.frag
  <2> SUFFICES ASSUME len < call.len, call.mode # "WRITE", ~call.frag PROVE FALSE
    OBVIOUS
  <2>1. CopiesString(call) /\ ~(call.len <= buffer)
    BY <1>2, <1>3
  <2>2. call.mode \in {"SMALLSTR", "LARGESTR"} /\ call.len > buffer
    BY <1>2, <2>1 DEF CopiesString
  <2> QED
    BY <1>1, <2>2 DEF TooBig
<1> QED
  BY <1>4, <1>5, <1>6, <1>7, <1>8, <1>9

\* A server that starts to serve a call has just been delivered it.
LEMMA ServesLemma ==
    ASSUME IpcInv, IpcStep, NEW l \in Threads,
           ipc_caller'[l] # Nobody, ipc_caller'[l] # ipc_caller[l]
    PROVE  \E ch, t, call, buffer : /\ Met(ipc_caller'[l], l, ch, t)
                                    /\ Delivered(ipc_caller'[l], l, call, buffer)
<1>1. ipc_caller \in [Threads -> Threads \cup {Nobody}]
  BY IpcInvLemma DEF IpcTypes
<1>2. ~Unmoved /\ ~Closed
  BY DEF Unmoved, ipcState, Closed
<1>3. \A c, ch, side, m : ~Joined(c, ch, side, m)
  BY DEF Joined
<1>4. \A c, k : ~Failed(c, k)
  BY DEF Failed
<1>5. \A r, c : ~Ended(r, c)
  BY <1>1 DEF Ended, callEnds
<1>6. PICK c, k, ch, t, call, buffer : Met(c, k, ch, t) /\ Delivered(c, k, call, buffer)
  BY <1>2, <1>3, <1>4, <1>5 DEF IpcStep
<1>7. ipc_caller' = [ipc_caller EXCEPT ![k] = c] /\ k \in Threads
  BY <1>6 DEF Met, Delivered
<1>8. k = l /\ c = ipc_caller'[l]
  BY <1>1, <1>7
<1> QED
  BY <1>6, <1>8

\* A call is delivered whole, or cut to the listener's buffer where that is allowed.
THEOREM DeliveriesFit ==
    ASSUME RespondFirst
    PROVE  IpcSpec => DeliveryFits
<1>1. ASSUME IpcInv, IpcStep, NEW l \in Threads
      PROVE  LET c == ipc_caller'[l]
                 buffers == IF sched.state[l] = "WAITING" THEN {message[l].len} ELSE Buffers
             IN  c # Nobody /\ c # ipc_caller[l] =>
                    /\ message'[l].len <= message'[c].len
                    /\ CopiesString(message'[c]) =>
                            /\ 0 < message'[l].len
                            /\ \E b \in buffers : message'[l].len <= b
                    /\ message'[l].len < message'[c].len =>
                            message'[c].mode = "WRITE" \/ message'[c].frag
  <2> DEFINE c == ipc_caller'[l]
             buffers == IF sched.state[l] = "WAITING" THEN {message[l].len} ELSE Buffers
  <2> SUFFICES ASSUME c # Nobody, c # ipc_caller[l]
               PROVE  /\ message'[l].len <= message'[c].len
                      /\ CopiesString(message'[c]) =>
                            /\ 0 < message'[l].len
                            /\ \E b \in buffers : message'[l].len <= b
                      /\ message'[l].len < message'[c].len =>
                            message'[c].mode = "WRITE" \/ message'[c].frag
    OBVIOUS
  <2>1. PICK ch, t, call, buffer : Met(c, l, ch, t) /\ Delivered(c, l, call, buffer)
    BY <1>1, ServesLemma
  <2>2. buffer \in buffers /\ c \in Threads /\ c # l
    BY <2>1 DEF Met, Delivered
  <2>3. message \in [Threads -> Message]
    BY <1>1, IpcInvLemma DEF IpcTypes
  <2> HIDE DEF c, buffers
  <2>4. /\ message'[l].len <= message'[c].len
        /\ CopiesString(message'[c]) =>
                /\ 0 < message'[l].len
                /\ message'[l].len <= buffer
        /\ message'[l].len < message'[c].len =>
                message'[c].mode = "WRITE" \/ message'[c].frag
    BY <2>1, <2>2, <2>3, FitsLemma
  <2> QED
    BY <2>2, <2>4
<1>2. IpcInv /\ [IpcNext]_ipcVars
        => [\A l \in Threads :
              LET c == ipc_caller'[l]
                  buffers == IF sched.state[l] = "WAITING" THEN {message[l].len} ELSE Buffers
              IN  c # Nobody /\ c # ipc_caller[l] =>
                    /\ message'[l].len <= message'[c].len
                    /\ CopiesString(message'[c]) =>
                            /\ 0 < message'[l].len
                            /\ \E b \in buffers : message'[l].len <= b
                    /\ message'[l].len < message'[c].len =>
                            message'[c].mode = "WRITE" \/ message'[c].frag]_ipcVars
  BY <1>1, IpcActionLemma
<1>3. IpcSpec => []IpcInv
  BY IpcInvariance
<1> QED
  BY <1>2, <1>3, PTL DEF IpcSpec, DeliveryFits

-----------------------------------------------------------------------------
(***************************************************************************)
(* Message passing implements remote calls (module Rpc).                   *)
(***************************************************************************)

\* The phases of all the calls: what module Rpc calls phase
Phases == [t \in Threads |-> CallPhase(t)]

\* The phase of a thread changes only when the thread is part of the step.
LEMMA PhaseLemma ==
    ASSUME NEW t \in Threads, Kept(sched, sched', t), message'[t] = message[t]
    PROVE  Phases'[t] = Phases[t]
BY DEF Phases, CallPhase, Kept

\* Every step of message passing is a step of remote calls, or none.
LEMMA RpcStepLemma ==
    ASSUME IpcInv, IpcStep
    PROVE  [Rpcs!Next]_(Rpcs!rpcVars)
<1>1. /\ ipc_caller \in [Threads -> Threads \cup {Nobody}]
      /\ message \in [Threads -> Message]
      /\ ChannelsTell(sched, channel, message, closed_call)
      /\ ServersMatch(sched, ipc_caller)
      /\ RolesMatch(sched, ipc_caller, message)
      /\ Nobody \notin Threads
  BY IpcInvLemma, SchedAssumption DEF IpcTypes
<1>2. /\ DOMAIN Phases = Threads /\ DOMAIN Phases' = Threads
      /\ Phases = [t \in Threads |-> Phases[t]] /\ Phases' = [t \in Threads |-> Phases'[t]]
      /\ \A t \in Threads : Phases[t] \in {"idle", "pending", "served"}
  BY DEF Phases, CallPhase
<1>3. /\ \A t \in Threads : Phases[t] = "served" <=> sched.state[t] = "CALLING"
      /\ \A t \in Threads :
            Phases[t] = "pending" <=> sched.state[t] = "WAITING" /\ message[t].role = "call"
      /\ \A t \in Threads : Phases'[t] = "served" <=> sched'.state[t] = "CALLING"
      /\ \A t \in Threads :
            Phases'[t] = "pending" <=> sched'.state[t] = "WAITING" /\ message'[t].role = "call"
      /\ \A t \in Threads : Phases'[t] \in {"idle", "pending", "served"}
  BY DEF Phases, CallPhase
<1>4. CASE Unmoved
  <2>1. /\ \A t \in Threads : Kept(sched, sched', t) /\ message'[t] = message[t]
        /\ ipc_caller' = ipc_caller
    BY <1>4 DEF Unmoved, Like, ipcState
  <2>2. Phases' = Phases
    <3>1. \A t \in Threads : Phases'[t] = Phases[t]
      BY <2>1, PhaseLemma
    <3> HIDE DEF Phases
    <3> QED
      BY <1>2, <3>1
  <2> QED
    BY <2>1, <2>2 DEF Rpcs!rpcVars, Phases
<1>5. ASSUME NEW c, NEW ch, NEW side, NEW m, Joined(c, ch, side, m)
      PROVE  [Rpcs!Next]_(Rpcs!rpcVars)
  <2>1. /\ c \in Threads /\ sched.state[c] = "RUNNING" /\ sched'.state[c] = "WAITING"
        /\ m.role \in {"call", "listen"}
        /\ ipc_caller' = ipc_caller
        /\ message' = [message EXCEPT ![c] = m]
        /\ \A t \in Threads \ {c} : Kept(sched, sched', t)
    BY <1>5 DEF Joined, Others
  <2>2. message'[c] = m /\ \A t \in Threads \ {c} : message'[t] = message[t]
    BY <1>1, <2>1
  <2>3. \A t \in Threads \ {c} : Phases'[t] = Phases[t]
    BY <2>1, <2>2, PhaseLemma
  <2>4. Phases[c] = "idle"
    BY <1>2, <1>3, <2>1
  <2>5. CASE m.role = "call"
    <3>1. Phases'[c] = "pending"
      BY <1>3, <2>1, <2>2, <2>5
    <3>2. Phases' = [Phases EXCEPT ![c] = "pending"]
      BY <1>2, <2>1, <2>3, <3>1
    <3>3. Rpcs!Call(c)
      BY <2>1, <2>4, <3>2 DEF Rpcs!Call, Phases
    <3> QED
      BY <2>1, <3>3 DEF Rpcs!Next
  <2>6. CASE m.role = "listen"
    <3>1. Phases'[c] = "idle"
      BY <1>3, <2>1, <2>2, <2>6
    <3>2. Phases' = Phases
      BY <1>2, <2>3, <2>4, <3>1
    <3> QED
      BY <2>1, <3>2 DEF Rpcs!rpcVars, Phases
  <2> QED
    BY <2>1, <2>5, <2>6
<1>6. ASSUME NEW c, NEW l, NEW ch, NEW u, Met(c, l, ch, u),
             \A t \in Threads \ {c, l} : message'[t] = message[t]
      PROVE  /\ c \in Threads /\ l \in Threads /\ c # l /\ ipc_caller[l] = Nobody
             /\ Phases[c] \in {"idle", "pending"} /\ Phases[l] = "idle"
             /\ \A t \in Threads \ {c, l} : Phases'[t] = Phases[t]
  <2>1. /\ c \in Threads /\ l \in Threads /\ c # l /\ ipc_caller[l] = Nobody
        /\ u \in {c, l} /\ sched.state[u] = "WAITING"
        /\ \A v \in {c, l} \ {u} : sched.state[v] = "RUNNING"
        /\ \A t \in Threads \ {c, l} : Kept(sched, sched', t)
        /\ ch \in Channels /\ ~closed_call /\ u \in Range(sched.waitq[ch])
        /\ channel[ch] = IF u = c THEN "CALLING" ELSE "LISTENING"
    BY <1>6 DEF Met, Others
  <2>2. u = l => message[u].role # "call"
    BY <1>1, <2>1 DEF ChannelsTell
  <2>3. sched.state[c] # "CALLING" /\ sched.state[l] # "CALLING"
    BY <2>1
  <2>4. ~(sched.state[l] = "WAITING" /\ message[l].role = "call")
    BY <2>1, <2>2
  <2>5. Phases[c] \in {"idle", "pending"} /\ Phases[l] = "idle"
    BY <1>2, <1>3, <2>1, <2>3, <2>4
  <2>6. \A t \in Threads \ {c, l} : Phases'[t] = Phases[t]
    BY <1>6, <2>1, PhaseLemma
  <2> QED
    BY <2>1, <2>5, <2>6
<1>7. ASSUME NEW c, NEW l, NEW ch, NEW u, NEW call, NEW buffer,
             Met(c, l, ch, u), Delivered(c, l, call, buffer)
      PROVE  [Rpcs!Next]_(Rpcs!rpcVars)
  <2>1. /\ \A t \in Threads \ {c, l} : message'[t] = message[t]
        /\ ipc_caller' = [ipc_caller EXCEPT ![l] = c]
        /\ sched'.state[c] = "CALLING" /\ sched'.state[l] \notin {"CALLING", "WAITING"}
    BY <1>1, <1>7 DEF Delivered, Free
  <2>2. /\ c \in Threads /\ l \in Threads /\ c # l /\ ipc_caller[l] = Nobody
        /\ Phases[c] \in {"idle", "pending"} /\ Phases[l] = "idle"
        /\ \A t \in Threads \ {c, l} : Phases'[t] = Phases[t]
    BY <1>6, <1>7, <2>1
  <2>3. Phases'[c] = "served" /\ Phases'[l] = "idle"
    BY <1>3, <2>1, <2>2
  <2>4. Phases' = [Phases EXCEPT ![c] = "served"]
    BY <1>2, <2>2, <2>3
  <2>5. Rpcs!Accept(c, l)
    BY <2>1, <2>2, <2>4 DEF Rpcs!Accept, Phases
  <2> QED
    BY <2>2, <2>5 DEF Rpcs!Next
<1>8. ASSUME NEW S \in SUBSET Threads, \A t \in S : Phases[t] = "pending" /\ Phases'[t] = "idle",
             \A t \in Threads \ S : Phases'[t] = Phases[t], ipc_caller' = ipc_caller
      PROVE  [Rpcs!Next]_(Rpcs!rpcVars)
  <2>1. Phases' = [t \in Threads |-> IF t \in S THEN "idle" ELSE Phases[t]]
    BY <1>2, <1>8
  <2>2. Rpcs!GiveUp(S)
    BY <1>8, <2>1 DEF Rpcs!GiveUp, Phases
  <2> QED
    BY <2>2 DEF Rpcs!Next
<1>9. ASSUME NEW c, NEW l, NEW ch, NEW u, Met(c, l, ch, u), Failed(c, l)
      PROVE  [Rpcs!Next]_(Rpcs!rpcVars)
  <2>1. /\ \A t \in Threads \ {c, l} : message'[t] = message[t]
        /\ ipc_caller' = ipc_caller
        /\ sched'.state[c] \notin {"CALLING", "WAITING"}
        /\ sched'.state[l] \notin {"CALLING", "WAITING"}
    BY <1>1, <1>9 DEF Failed, Free
  <2>2. /\ c \in Threads /\ l \in Threads /\ c # l
        /\ Phases[c] \in {"idle", "pending"} /\ Phases[l] = "idle"
        /\ \A t \in Threads \ {c, l} : Phases'[t] = Phases[t]
    BY <1>6, <1>9, <2>1
  <2>3. Phases'[c] = "idle" /\ Phases'[l] = "idle"
    BY <1>3, <2>1, <2>2
  <2> DEFINE S == {t \in {c} : Phases[t] = "pending"}
  <2>4. /\ S \in SUBSET Threads /\ \A t \in S : Phases[t] = "pending" /\ Phases'[t] = "idle"
        /\ \A t \in Threads \ S : Phases'[t] = Phases[t]
    BY <2>2, <2>3
  <2> HIDE DEF S
  <2> QED
    BY <1>8, <2>1, <2>4
<1>10. ASSUME NEW r, NEW c, Ended(r, c)
       PROVE  [Rpcs!Next]_(Rpcs!rpcVars)
  <2>1. /\ r \in Threads /\ c \in Threads /\ c = ipc_caller[r]
        /\ sched.state[r] = "RUNNING"
        /\ sched'.state[c] \notin {"CALLING", "WAITING"}
        /\ \A u \in Threads \ {c} : Kept(sched, sched', u)
        /\ ipc_caller' = [ipc_caller EXCEPT ![r] = Nobody]
        /\ message' = [message EXCEPT ![r] = NoMessage, ![c] = NoMessage]
    BY <1>10 DEF Ended, Free, Others, callEnds
  <2>2. \A t \in Threads \ {r, c} : message'[t] = message[t]
    BY <1>1, <2>1
  <2>3. \A t \in Threads \ {r, c} : Phases'[t] = Phases[t]
    BY <2>1, <2>2, PhaseLemma
  <2>4. sched.state[c] = "CALLING" /\ c # r
    BY <1>1, <2>1 DEF ServersMatch
  <2>5. sched'.state[r] \notin {"CALLING", "WAITING"}
    BY <2>1, <2>4 DEF Kept
  <2>6. Phases[r] = "idle" /\ Phases'[r] = "idle" /\ Phases'[c] = "idle"
    BY <1>2, <1>3, <2>1, <2>5
  <2>7. Phases' = [Phases EXCEPT ![c] = "idle"]
    BY <1>2, <2>1, <2>3, <2>6
  <2>8. Rpcs!Respond(r)
    BY <1>1, <2>1, <2>6, <2>7 DEF Rpcs!Respond, Phases
  <2> QED
    BY <2>1, <2>8 DEF Rpcs!Next
<1>11. CASE Closed
  <2>1. /\ ipc_caller' = ipc_caller
        /\ \A t \in Threads :
            /\ sched'.state[t] = "CALLING" <=> sched.state[t] = "CALLING"
            /\ sched'.state[t] # "WAITING"
    BY <1>11 DEF Closed
  <2> DEFINE S == {t \in Threads : Phases[t] = "pending"}
  <2>2. /\ S \in SUBSET Threads /\ \A t \in S : Phases[t] = "pending" /\ Phases'[t] = "idle"
        /\ \A t \in Threads \ S : Phases'[t] = Phases[t]
    BY <1>2, <1>3, <2>1
  <2> HIDE DEF S
  <2> QED
    BY <1>8, <2>1, <2>2
<1> QED
  BY <1>4, <1>5, <1>7, <1>9, <1>10, <1>11 DEF IpcStep

\* Message passing keeps the promise of module Rpc, for any number of threads and
\* channels and any transfer map: a call is accepted by one server, and ends with that
\* server's response or with a failure before it was accepted.
THEOREM IpcImplementsRpc ==
    ASSUME RespondFirst
    PROVE  IpcSpec => ImplementsRpc
<1>1. IpcInit => Rpcs!Init
  <2> SUFFICES ASSUME IpcInit PROVE Rpcs!Init
    OBVIOUS
  <2>1. \A t \in Threads : sched.state[t] \in {"RUNNING", "NONE"}
    BY DEF IpcInit, SchedInit
  <2>2. \A t \in Threads : CallPhase(t) = "idle"
    BY <2>1 DEF CallPhase
  <2>3. ipc_caller = [t \in Threads |-> Nobody]
    BY DEF IpcInit
  <2> QED
    BY <2>2, <2>3 DEF Rpcs!Init
<1>2. IpcInv /\ [IpcNext]_ipcVars => [Rpcs!Next]_(Rpcs!rpcVars)
  BY IpcActionLemma, RpcStepLemma
<1>3. IpcSpec => []IpcInv
  BY IpcInvariance
<1> QED
  BY <1>1, <1>2, <1>3, PTL DEF IpcSpec, ImplementsRpc, Rpcs!Spec

-----------------------------------------------------------------------------
(***************************************************************************)
(* The promise itself: remote calls, whatever carries them, are safe for   *)
(* any set of threads. phase and serving are those of module Rpc.          *)
(***************************************************************************)
VARIABLES phase, serving

Calls == INSTANCE Rpc

CallsInv == Calls!TypeOK /\ Calls!OneServer /\ Calls!NoCallCycle

\* The invariant holds before any call is made.
LEMMA RpcInitLemma ==
    ASSUME Nobody \notin Threads, Calls!Init
    PROVE  CallsInv
<1>1. Calls!TypeOK
  BY DEF Calls!Init, Calls!TypeOK
<1>2. Calls!OneServer
  BY DEF Calls!Init, Calls!OneServer
<1>3. Calls!NoCallCycle
  BY DEF Calls!Init, Calls!NoCallCycle
<1> QED
  BY <1>1, <1>2, <1>3 DEF CallsInv

\* When a server accepts a call (call_transfer), the server is a thread that nobody
\* waits for a response to: every set with the server in it keeps a member whose
\* call no member serves.
LEMMA AcceptLemma ==
    ASSUME Nobody \notin Threads, CallsInv,
           NEW c \in Threads, NEW l \in Threads, Calls!Accept(c, l)
    PROVE  CallsInv'
<1> USE DEF CallsInv
<1>1. Calls!TypeOK'
  BY DEF Calls!TypeOK, Calls!Accept
<1>2. \A m \in Threads : serving[m] # c /\ serving[m] # l
  BY DEF Calls!Accept, Calls!OneServer, Calls!TypeOK
<1>3. Calls!OneServer'
  BY <1>2 DEF Calls!Accept, Calls!OneServer, Calls!TypeOK
<1>4. Calls!NoCallCycle'
  <2> SUFFICES ASSUME NEW S \in SUBSET Threads, S # {}
               PROVE  \E x \in S : \A m \in S : serving'[m] # x
    BY DEF Calls!NoCallCycle
  <2>1. CASE l \in S
    <3>1. \A m \in S : serving'[m] # l
      BY <1>2 DEF Calls!Accept, Calls!TypeOK
    <3> QED
      BY <2>1, <3>1
  <2>2. CASE l \notin S
    <3>1. \A m \in S : serving'[m] = serving[m]
      BY <2>2 DEF Calls!Accept, Calls!TypeOK
    <3> QED
      BY <3>1 DEF Calls!NoCallCycle
  <2> QED
    BY <2>1, <2>2
<1> QED
  BY <1>1, <1>3, <1>4

\* When a server responds (IPC::respond), one thread stops serving, and no thread
\* starts.
LEMMA RespondLemma ==
    ASSUME Nobody \notin Threads, CallsInv, NEW l \in Threads, Calls!Respond(l)
    PROVE  CallsInv'
<1> USE DEF CallsInv
<1>1. Calls!TypeOK'
  BY DEF Calls!TypeOK, Calls!Respond
<1>2. Calls!OneServer'
  <2> SUFFICES ASSUME NEW k \in Threads, serving'[k] # Nobody
               PROVE  /\ phase'[serving'[k]] = "served"
                      /\ \A m \in Threads : serving'[m] = serving'[k] => m = k
    BY DEF Calls!OneServer
  <2>1. k # l /\ serving'[k] = serving[k] /\ serving[k] \in Threads
    BY DEF Calls!Respond, Calls!TypeOK
  <2>2. serving[k] # serving[l]
    BY <2>1 DEF Calls!OneServer
  <2>3. phase'[serving[k]] = "served"
    BY <2>1, <2>2 DEF Calls!Respond, Calls!OneServer, Calls!TypeOK
  <2>4. \A m \in Threads : serving'[m] = serving[k] => m = k
    BY <2>1 DEF Calls!Respond, Calls!OneServer, Calls!TypeOK
  <2> QED
    BY <2>1, <2>3, <2>4
<1>3. Calls!NoCallCycle'
  <2> SUFFICES ASSUME NEW S \in SUBSET Threads, S # {}
               PROVE  \E x \in S : \A m \in S : serving'[m] # x
    BY DEF Calls!NoCallCycle
  <2>1. PICK x \in S : \A m \in S : serving[m] # x
    BY DEF Calls!NoCallCycle
  <2>2. \A m \in S : serving'[m] # x
    BY <2>1 DEF Calls!Respond, Calls!TypeOK
  <2> QED
    BY <2>2
<1> QED
  BY <1>1, <1>2, <1>3

\* A call that starts and calls that are given up leave the servers alone, and
\* concern no thread that is being served.
LEMMA PendingLemma ==
    ASSUME Nobody \notin Threads, CallsInv,
           \/ \E c \in Threads : Calls!Call(c)
           \/ \E S \in SUBSET Threads : Calls!GiveUp(S)
    PROVE  CallsInv'
<1> USE DEF CallsInv
<1>1. Calls!TypeOK'
  BY DEF Calls!TypeOK, Calls!Call, Calls!GiveUp
<1>2. serving' = serving
  BY DEF Calls!Call, Calls!GiveUp
<1>3. \A c \in Threads : phase[c] = "served" => phase'[c] = "served"
  BY DEF Calls!TypeOK, Calls!Call, Calls!GiveUp
<1>4. Calls!OneServer'
  BY <1>2, <1>3 DEF Calls!OneServer, Calls!TypeOK
<1>5. Calls!NoCallCycle'
  BY <1>2 DEF Calls!NoCallCycle
<1> QED
  BY <1>1, <1>4, <1>5

\* Remote calls keep their promise for every set of threads: a call is held by at
\* most one server, and accepted calls never wait for each other in a circle,
\* however servers call other servers while they serve.
THEOREM RpcSafe ==
    ASSUME Nobody \notin Threads
    PROVE  Calls!Spec => [](Calls!TypeOK /\ Calls!OneServer /\ Calls!NoCallCycle)
<1>1. Calls!Init => CallsInv
  BY RpcInitLemma
<1>2. CallsInv /\ [Calls!Next]_Calls!rpcVars => CallsInv'
  <2> SUFFICES ASSUME CallsInv, [Calls!Next]_Calls!rpcVars
               PROVE  CallsInv'
    OBVIOUS
  <2>1. CASE UNCHANGED Calls!rpcVars
    BY <2>1 DEF Calls!rpcVars, CallsInv, Calls!TypeOK, Calls!OneServer, Calls!NoCallCycle
  <2>2. CASE Calls!Next
    BY <2>2, AcceptLemma, RespondLemma, PendingLemma DEF Calls!Next
  <2> QED
    BY <2>1, <2>2
<1> QED
  BY <1>1, <1>2, PTL DEF Calls!Spec, CallsInv
=============================================================================
