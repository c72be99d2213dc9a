------------------------------ MODULE Schedule ------------------------------
(***************************************************************************)
(* The scheduler of the kernel (user/schedule.cxx, user/thread.cxx) with   *)
(* the context switch it drives (x86_64/cpu.c) and the timer interrupt     *)
(* that drives it (x86_64/entry.c).                                        *)
(*                                                                         *)
(* The kernel runs on one CPU with interrupts disabled from entry to exit, *)
(* so a system call or an interrupt is one atomic step.  Its functions are *)
(* operators from scheduler states to scheduler states, composed as the C  *)
(* code composes them; a failed assert clears `ok', and the kernel then    *)
(* stops (panic).                                                          *)
(***************************************************************************)
EXTENDS Lists

CONSTANTS
    Threads,    \* every thread that can ever be created
    Queues,     \* the wait queues threads can be parked on
    Nobody,     \* no current thread: this_tls->current_thread == nullptr
    MaxWait,    \* bound on the duration of a wait, in clock units
    Elapsed     \* how far the clock can move between two reads of one entry

ASSUME SchedAssumption ==
    /\ Nobody \notin Threads
    /\ IsFiniteSet(Threads)
    /\ MaxWait \in Nat \ {0}
    /\ Elapsed \subseteq Nat

VARIABLE sched

ThreadState ==
    {"NONE", "FLOATING", "RUNNING", "READY", "WAITING", "SLEEPING", "CALLING"}

\* What the kernel stores in R0 of a saved context: "user" while it leaves the
\* register alone, an error, or a value.
R0Value ==
    {"user", "0", "1", "reply", "EAGAIN", "EBADF", "EPIPE", "EIPCIO", "E2BIG", "EFAULT"}

-----------------------------------------------------------------------------
(***************************************************************************)
(* The state of the scheduler.  state is Thread_context.state, with "NONE" *)
(* for a thread not created yet; runq is run_queue; sleepq is sleep_queue, *)
(* linked through Thread::timeout; rem is timeout.ns minus the clock, kept *)
(* at -1 once it is past; waitq holds the queues of IRQ handles and IPC    *)
(* channels; current is the TLS current_thread.                            *)
(***************************************************************************)
SchedState ==
    [ok : BOOLEAN,
     state : [Threads -> ThreadState],
     runq : Seq(Threads),
     sleepq : Seq(Threads),
     rem : [Threads -> Int],
     waitq : [Queues -> Seq(Threads)],
     current : Threads \cup {Nobody},
     r0 : [Threads -> R0Value]]

\* The node of t is linked in a queue: queue.root is set.
Queued(s, t) ==
    t \in Range(s.runq) \/ \E q \in Queues : t \in Range(s.waitq[q])

\* Mutant: the state of the thread is left FLOATING.
schedule_ready_floating(s, t) ==
    [s EXCEPT !.ok = @ /\ s.state[t] = "FLOATING" /\ ~Queued(s, t),
              !.runq = Append(@, t)]

\* Mutant: the thread is put at the head of the run queue.
schedule_ready_first(s, t) ==
    [s EXCEPT !.ok = @ /\ s.state[t] = "FLOATING" /\ ~Queued(s, t),
              !.state[t] = "READY",
              !.runq = <<t>> \o @]

schedule_ready(s, t) ==
    [s EXCEPT !.ok = @ /\ s.state[t] = "FLOATING" /\ ~Queued(s, t),
              !.state[t] = "READY",
              !.runq = Append(@, t)]

run_queue_pop(s) ==
    [s EXCEPT !.ok = @ /\ s.state[Head(s.runq)] = "READY",
              !.state[Head(s.runq)] = "FLOATING",
              !.runq = Tail(@)]

\* Mutant: timeouts are inserted without looking at the deadlines.
TimeoutSlot_first(s, n) == 1

\* set_timeout walks past the sleepers due no later than n from now.
TimeoutSlot(s, n) ==
    1 + Cardinality({i \in DOMAIN s.sleepq : \A j \in 1..i : s.rem[s.sleepq[j]] <= n})

set_timeout(s, t, n) ==
    [s EXCEPT !.ok = @ /\ t \notin Range(s.sleepq),
              !.rem[t] = n,
              !.sleepq = InsertAt(@, TimeoutSlot(s, n), t)]

\* Mutant: the timeout is cleared but stays in the sleep queue.
cancel_linked(s, t) ==
    [s EXCEPT !.rem[t] = 0]

\* Thread::Timeout::cancel
cancel(s, t) ==
    [s EXCEPT !.sleepq = Without(@, {t}),
              !.rem[t] = 0]

schedule_nanosleep(s, t, n) ==
    set_timeout(
        [s EXCEPT !.ok = @ /\ s.state[t] = "FLOATING" /\ ~Queued(s, t) /\ n > 0,
                  !.state[t] = "SLEEPING"],
        t, n)

\* Thread::push_into
push_into(s, t, q) ==
    [s EXCEPT !.ok = /\ @
                     /\ s.state[t] = "FLOATING"
                     /\ ~Queued(s, t)
                     /\ t \notin Range(s.sleepq),
              !.state[t] = "WAITING",
              !.waitq[q] = Append(@, t)]

queue_pop(s, q) ==
    [s EXCEPT !.waitq[q] = Tail(@)]

\* Thread::pop_from, for a queue that is not empty
pop_from(s, q) ==
    LET t == Head(s.waitq[q])
    IN  cancel(
            [queue_pop(s, q) EXCEPT !.ok = @ /\ s.state[t] = "WAITING",
                                    !.state[t] = "FLOATING"],
            t)

\* Mutant: the thread waits without a timeout.
schedule_queue_forever(s, t, q, n, error) ==
    push_into([s EXCEPT !.r0[t] = error], t, q)

schedule_queue_with_timeout(s, t, q, n, error) ==
    set_timeout(
        push_into(
            [s EXCEPT !.ok = @ /\ n > 0, !.r0[t] = error],
            t, q),
        t, n)

\* Mutant: the value of the wake-up is dropped.
schedule_wake_value(s, t, value) ==
    schedule_ready(cancel([s EXCEPT !.state[t] = "FLOATING"], t), t)

schedule_wake(s, t, value) ==
    schedule_ready(
        cancel(
            [s EXCEPT !.ok = /\ @
                             /\ s.state[t] \in {"SLEEPING", "WAITING"}
                             /\ ~Queued(s, t),
                      !.state[t] = "FLOATING",
                      !.r0[t] = value],
            t),
        t)

queue_drain(s, q) ==
    [s EXCEPT !.waitq[q] = << >>]

\* Every thread of queue q is popped and woken, in order.
schedule_wake_all(s, q, value) ==
    LET woken == Range(s.waitq[q])
    IN  [s EXCEPT
            !.ok = /\ @
                   /\ \A t \in woken :
                        /\ s.state[t] \in {"SLEEPING", "WAITING"}
                        /\ ~Queued(queue_drain(s, q), t),
            !.state = [t \in Threads |-> IF t \in woken THEN "READY" ELSE @[t]],
            !.r0 = [t \in Threads |-> IF t \in woken THEN value ELSE @[t]],
            !.rem = [t \in Threads |-> IF t \in woken THEN 0 ELSE @[t]],
            !.sleepq = Without(@, woken),
            !.waitq[q] = << >>,
            !.runq = @ \o s.waitq[q]]

\* The clock moves d units: every deadline comes nearer, down to past.
Elapse(s, d) ==
    [s EXCEPT !.rem = [t \in Threads |->
        IF t \in Range(s.sleepq) THEN IF @[t] - d < 0 THEN -1 ELSE @[t] - d
                                 ELSE @[t]]]

\* Mutant: a deadline that is now counts as past.
DueCount_early(s) ==
    Cardinality({i \in DOMAIN s.sleepq : \A j \in 1..i : s.rem[s.sleepq[j]] <= 0})

\* How many threads at the head of the sleep queue have timeout.ns < now: the
\* loop of wakeup_sleepers stops at the first that is not due.
DueCount(s) ==
    Cardinality({i \in DOMAIN s.sleepq : \A j \in 1..i : s.rem[s.sleepq[j]] < 0})

wakeup_sleepers(s) ==
    LET n == DueCount(s)
        due == SubSeq(s.sleepq, 1, n)
        woken == Range(due)
    IN  [s EXCEPT
            !.ok = /\ @
                   /\ \A t \in woken :
                        \/ s.state[t] = "WAITING" /\ Queued(s, t)
                        \/ s.state[t] = "SLEEPING" /\ ~Queued(s, t),
            !.state = [t \in Threads |-> IF t \in woken THEN "READY" ELSE @[t]],
            !.rem = [t \in Threads |-> IF t \in woken THEN 0 ELSE @[t]],
            !.waitq = [q \in Queues |-> Without(@[q], woken)],
            !.sleepq = SubSeq(@, n + 1, Len(@)),
            !.runq = @ \o due]

\* The live registers of the current thread are saved; r0 is what R0 holds.
cpu_context_save(s, r0) ==
    [s EXCEPT !.ok = @ /\ s.current # Nobody /\ s.state[s.current] = "RUNNING",
              !.state[s.current] = "FLOATING",
              !.r0[s.current] = r0,
              !.current = Nobody]

cpu_context_restore_and_exit(s, t) ==
    [s EXCEPT !.ok = @ /\ s.current = Nobody /\ s.state[t] = "FLOATING",
              !.state[t] = "RUNNING",
              !.current = t]

cpu_exit_idle(s) ==
    [s EXCEPT !.ok = @ /\ s.current = Nobody]

\* Mutant: schedule() parks the current thread though there is none.
SwitchToNext_unchecked(s) ==
    cpu_context_restore_and_exit(
        schedule_ready(cpu_context_save(run_queue_pop(s), "user"), s.current),
        Head(s.runq))

\* Mutant: schedule() saves the current thread and forgets to queue it.
SwitchToNext_loses(s) ==
    LET popped == run_queue_pop(s)
        parked == IF s.current = Nobody THEN popped ELSE cpu_context_save(popped, "user")
    IN  cpu_context_restore_and_exit(parked, Head(s.runq))

\* The rest of schedule() once a thread has been found: never returns.
SwitchToNext(s) ==
    LET popped == run_queue_pop(s)
        parked == IF s.current = Nobody
                  THEN popped
                  ELSE schedule_ready(cpu_context_save(popped, "user"), s.current)
    IN  cpu_context_restore_and_exit(parked, Head(s.runq))

\* Mutant: schedule() does not look at the sleepers.
schedule_no_wakeup(s, d) ==
    \E now \in {Elapse(s, d)} :
        sched' = IF now.runq = << >> THEN now ELSE SwitchToNext(now)

\* schedule() and schedule_or_exit() end the kernel entry: the state they leave
\* is the next state.  d is the time since the clock was last read.
schedule(s, d) ==
    \E now \in {Elapse(s, d)} : \E awake \in {wakeup_sleepers(now)} :
        sched' = IF awake.runq = << >> THEN awake ELSE SwitchToNext(awake)

schedule_or_exit(s, d) ==
    \E now \in {Elapse(s, d)} : \E awake \in {wakeup_sleepers(now)} :
        sched' = IF awake.runq = << >> THEN cpu_exit_idle(awake) ELSE SwitchToNext(awake)

-----------------------------------------------------------------------------
\* main() leaves the boot code through schedule() with the init thread, the
\* only one there is, in the run queue.
SchedInit ==
    \E t \in Threads :
        sched = [ok |-> TRUE,
                 state |-> [u \in Threads |-> IF u = t THEN "RUNNING" ELSE "NONE"],
                 runq |-> << >>,
                 sleepq |-> << >>,
                 rem |-> [u \in Threads |-> 0],
                 waitq |-> [q \in Queues |-> << >>],
                 current |-> t,
                 r0 |-> [u \in Threads |-> "user"]]

\* A thread in user mode can enter the kernel.
InUser == sched.ok /\ sched.current # Nobody

\* SYSCALL(nsleep), for a duration that is not refused with EINVAL
nsleep(n, d) ==
    /\ InUser
    /\ n > 0
    /\ schedule_or_exit(
            schedule_nanosleep(cpu_context_save(sched, "0"), sched.current, n), d)

\* SYSCALL(thread_spawn) and SYSCALL(fork): the new thread joins the run queue
\* and the caller goes on.
thread_spawn(t) ==
    /\ InUser
    /\ sched.state[t] = "NONE"
    /\ sched' = schedule_ready([sched EXCEPT !.state[t] = "FLOATING"], t)

\* Mutant: the timer only schedules when the CPU is idle.
timer_interrupt_idle(d) ==
    /\ sched.ok
    /\ sched.current = Nobody
    /\ schedule(sched, d)

\* interrupt_entry for the APIC timer
timer_interrupt(d) ==
    /\ sched.ok
    /\ schedule(sched, d)

\* nanoseconds() moves on while the CPU is in user mode or idle.
Tick ==
    /\ sched.ok
    /\ \E t \in Range(sched.sleepq) : sched.rem[t] >= 0
    /\ sched' = Elapse(sched, 1)

SchedNext ==
    \/ \E n \in 1..MaxWait, d \in Elapsed : nsleep(n, d)
    \/ \E t \in Threads : thread_spawn(t)
    \/ \E d \in Elapsed : timer_interrupt(d)
    \/ Tick

\* The APIC timer is periodic and the time stamp counter never stops.
SchedFairness ==
    /\ WF_sched(\E d \in Elapsed : timer_interrupt(d))
    /\ WF_sched(Tick)

SchedSpec == SchedInit /\ [][SchedNext]_sched /\ SchedFairness
-----------------------------------------------------------------------------
(***************************************************************************)
(* Properties                                                              *)
(***************************************************************************)
TypeOK == sched \in SchedState

\* Every assert and panic the scheduler can reach (schedule.cxx, thread.cxx,
\* queue.c, cpu.c) passes on every path that leads to it.
NoPanic == sched.ok

\* The queues of s agree with the thread states: no thread is linked twice in a
\* queue, and each is linked exactly where its state says.
Consistent(s) ==
    /\ IsInjective(s.runq)
    /\ IsInjective(s.sleepq)
    /\ \A q \in Queues : IsInjective(s.waitq[q])
    /\ \A t \in Threads :
        /\ s.state[t] = "READY" <=> t \in Range(s.runq)
        /\ s.state[t] = "WAITING" <=> \E q \in Queues : t \in Range(s.waitq[q])
        /\ \A q, r \in Queues :
                t \in Range(s.waitq[q]) /\ t \in Range(s.waitq[r]) => q = r
        /\ s.state[t] = "SLEEPING" => t \in Range(s.sleepq)
        /\ t \in Range(s.sleepq) => s.state[t] \in {"SLEEPING", "WAITING"}
        /\ s.state[t] = "RUNNING" <=> t = s.current

Floating(s) == {t \in Threads : s.state[t] = "FLOATING"}

\* Outside the kernel every thread is linked exactly where its state says, the
\* running one is the current one, and none is lost: FLOATING, linked nowhere,
\* never to be scheduled again.
QueuesMatchStates == Consistent(sched) /\ Floating(sched) = {}

\* The sleep queue is sorted by deadline, which wakeup_sleepers relies on when it
\* stops at the first thread that is not due.
SleepersSorted(s) ==
    \A i, j \in DOMAIN s.sleepq : i < j => s.rem[s.sleepq[i]] <= s.rem[s.sleepq[j]]

\* Whenever schedule() hands the CPU to another thread, no sleeper whose deadline
\* has passed is left asleep, wherever its timeout was inserted.
NoOversleep ==
    [][sched'.current \notin {sched.current, Nobody} =>
            \A t \in Range(sched'.sleepq) : sched'.rem[t] >= 0]_sched

\* In this step the clock moved far enough to pass the deadline of t, and by no
\* more than the deadlines of those that stay in the sleep queue show.
DeadlinePassed(t) ==
    \E d \in Elapsed :
        /\ sched.rem[t] < d \/ sched.rem[t] < 0
        /\ \A u \in Range(sched.sleepq) \cap Range(sched'.sleepq) :
                sched'.rem[u] = IF sched.rem[u] - d < 0 THEN -1 ELSE sched.rem[u] - d

\* A thread that only sleeps is not woken before its deadline has passed, however
\* the sleepers' timeouts were inserted and the CPU was late to look at them.
NoEarlyWake ==
    [][\A t \in Threads :
            sched.state[t] = "SLEEPING" /\ sched'.state[t] # "SLEEPING" =>
                DeadlinePassed(t)]_sched

\* Round robin: threads leave the run queue from its head only and join it at its
\* tail, so a thread that becomes ready later never runs first.
RunQueueFifo ==
    [][\/ IsPrefix(sched.runq, sched'.runq)
       \/ sched.runq # << >> /\ IsPrefix(Tail(sched.runq), sched'.runq)]_sched

\* No thread starves: once ready it runs, however the others spawn and sleep.
ReadyRuns ==
    \A t \in Threads : (sched.state[t] = "READY") ~> (sched.state[t] = "RUNNING")

\* Every sleep ends: a sleeping thread runs again.
SleepEnds ==
    \A t \in Threads : (sched.state[t] = "SLEEPING") ~> (sched.state[t] = "RUNNING")
=============================================================================
