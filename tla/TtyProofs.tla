------------------------------ MODULE TtyProofs ------------------------------
(***************************************************************************)
(* Proofs about the interrupt handles, for any number of threads, lines    *)
(* and other wait queues, and about the serial terminal that waits on one  *)
(* of them, for any timing and any lengths of reads and writes.            *)
(***************************************************************************)
EXTENDS Tty, ScheduleProofs

(***************************************************************************)
(* The inductive invariant.  WaitersTimed is what makes it one: a thread   *)
(* waits for an interrupt only with a deadline, and EAGAIN is in its R0    *)
(* from the start, since wakeup_sleepers leaves R0 alone.                  *)
(***************************************************************************)
WaitersTimed(s) ==
    \A i \in Irqs : \A t \in Range(s.waitq[i]) :
        t \in Range(s.sleepq) /\ s.r0[t] = "EAGAIN"

IrqInv ==
    /\ SchedInv
    /\ irq \in [Irqs -> IrqState]
    /\ LatchedMeansNoWaiter
    /\ WaitersTimed(sched)

-----------------------------------------------------------------------------
\* A reschedule takes the threads that are due out of the queue of a line, and tells
\* nothing to the others.
LEMMA WaitersKeptLemma ==
    ASSUME NEW s, Sound(s), WaitersTimed(s), NEW d, NEW n, Rescheduled(s, d, n)
    PROVE  /\ WaitersTimed(n)
           /\ \A i \in Irqs : s.waitq[i] = << >> => n.waitq[i] = << >>
           /\ \A i \in Irqs : \A t \in Range(s.waitq[i]) :
                /\ n.r0[t] = "EAGAIN"
                /\ t \notin Range(n.waitq[i]) => t \in Due(s, d)
<1>1. /\ Sound(n)
      /\ Range(n.sleepq) = Range(s.sleepq) \ Due(s, d)
      /\ \A q \in Queues : Range(n.waitq[q]) = Range(s.waitq[q]) \ Due(s, d)
      /\ \A t \in Threads : t # s.current => n.r0[t] = s.r0[t]
  BY DEF Rescheduled
<1>2. \A i \in Irqs : \A t \in Range(s.waitq[i]) : n.r0[t] = "EAGAIN"
  <2> SUFFICES ASSUME NEW i \in Irqs, NEW t \in Range(s.waitq[i])
               PROVE  n.r0[t] = "EAGAIN"
    OBVIOUS
  <2>1. t \in Threads /\ t # s.current
    BY WaiterLemma, IrqAssumption
  <2> QED
    BY <1>1, <2>1 DEF WaitersTimed
<1>3. WaitersTimed(n)
  BY <1>1, <1>2, IrqAssumption DEF WaitersTimed
<1>4. \A i \in Irqs : s.waitq[i] = << >> => n.waitq[i] = << >>
  <2> SUFFICES ASSUME NEW i \in Irqs, s.waitq[i] = << >> PROVE n.waitq[i] = << >>
    OBVIOUS
  <2>1. i \in Queues /\ s \in SchedState /\ n \in SchedState
    BY <1>1, IrqAssumption DEF Sound
  <2>2. Range(s.waitq[i]) = {}
    BY <2>1, NobodyWaitsLemma
  <2>3. Range(n.waitq[i]) = {}
    BY <1>1, <2>1, <2>2
  <2> QED
    BY <2>1, <2>3, NobodyWaitsLemma
<1> QED
  BY <1>1, <1>2, <1>3, <1>4, IrqAssumption

-----------------------------------------------------------------------------
(***************************************************************************)
(* What each step does to the scheduler, in terms of the lines' queues.    *)
(***************************************************************************)

\* No waiter of a line is touched.
Quiet == /\ sched'.waitq = sched.waitq
         /\ sched'.sleepq = sched.sleepq
         /\ \A i \in Irqs : \A t \in Range(sched.waitq[i]) : sched'.r0[t] = sched.r0[t]

\* The step reschedules from state s, in which the waiters of the lines are those of
\* sched, except that a thread has come or gone at line i.
Passes(s, d) ==
    /\ Sound(s) /\ Rescheduled(s, d, sched')
    /\ WaitersTimed(s)
    /\ \A u \in Range(sched.sleepq) \cap Range(s.sleepq) : s.rem[u] = sched.rem[u]

\* Steps of the scheduler alone: none of them makes a thread wait, or wakes one that
\* is not due.
LEMMA SchedStepLemma ==
    ASSUME IrqInv, SchedNext
    PROVE  /\ SchedInv'
           /\ \/ Quiet
              \/ \E s, d : d \in Elapsed /\ Passes(s, d) /\ s.waitq = sched.waitq
<1> USE SchedAssumption
<1>1. SchedInv /\ WaitersTimed(sched) /\ Sound(sched)
  BY DEF IrqInv, SchedInv
<1>2. SchedInv'
  BY <1>1, SchedNextLemma
<1>3. CASE \E n \in 1..MaxWait, d \in Elapsed : nsleep(n, d)
  <2>1. PICK n \in Nat, d \in Elapsed : nsleep(n, d)
    BY <1>3
  <2> DEFINE c == sched.current
  <2>2. d \in Nat /\ sched.current # Nobody
    BY <2>1 DEF nsleep, InUser
  <2>3. PICK s : /\ Sound(s) /\ Rescheduled(s, d, sched')
                 /\ s.waitq = sched.waitq
                 /\ Range(s.sleepq) = Range(sched.sleepq) \cup {c}
                 /\ \A t \in Threads \ {c} : /\ s.rem[t] = sched.rem[t]
                                             /\ s.r0[t] = sched.r0[t]
    BY <1>1, <2>1, <2>2, NsleepLemma
  <2>4. c \notin Range(sched.sleepq)
    BY <1>1, <2>2, CurrentLemma
  <2>5. \A i \in Irqs : \A t \in Range(sched.waitq[i]) : t \in Threads \ {c}
    BY <1>1, WaiterLemma, IrqAssumption
  <2>6. Range(sched.sleepq) \subseteq Threads
    BY <1>1, RangeLemma DEF Sound, SchedState
  <2> HIDE DEF c
  <2>7. WaitersTimed(s)
    BY <1>1, <2>3, <2>5 DEF WaitersTimed
  <2>8. \A u \in Range(sched.sleepq) \cap Range(s.sleepq) : s.rem[u] = sched.rem[u]
    BY <2>3, <2>4, <2>6
  <2> QED
    BY <1>2, <2>3, <2>7, <2>8 DEF Passes
<1>4. CASE \E t \in Threads : thread_spawn(t)
  <2>1. PICK t \in Threads : thread_spawn(t)
    BY <1>4
  <2>2. Quiet
    BY <1>1, <2>1, SpawnLemma DEF Quiet
  <2> QED
    BY <1>2, <2>2
<1>5. CASE \E d \in Elapsed : timer_interrupt(d)
  <2>1. PICK d \in Elapsed : timer_interrupt(d)
    BY <1>5
  <2>2. d \in Nat
    OBVIOUS
  <2>3. Rescheduled(sched, d, sched')
    BY <1>1, <2>1, <2>2, TimerLemma
  <2>4. Passes(sched, d)
    BY <1>1, <2>3 DEF Passes
  <2> QED
    BY <1>2, <2>4
<1>6. CASE Tick
  <2>1. Quiet
    BY <1>1, <1>6, TickLemma DEF Quiet
  <2> QED
    BY <1>2, <2>1
<1> QED
  BY <1>3, <1>4, <1>5, <1>6 DEF SchedNext

\* In s thread t, which had the CPU, waits on line i for at most n, with EAGAIN in R0.
WaitsOn(s, t, i, n) ==
    /\ Sound(s) /\ Floating(s) = {} /\ s.current = Nobody
    /\ t \in Threads /\ sched.state[t] = "RUNNING"
    /\ s.state = [sched.state EXCEPT ![t] = "WAITING"]
    /\ Range(s.sleepq) = Range(sched.sleepq) \cup {t}
    /\ s.rem = [sched.rem EXCEPT ![t] = n]
    /\ s.waitq = [sched.waitq EXCEPT ![i] = Append(@, t)]
    /\ Range(s.waitq[i]) = Range(sched.waitq[i]) \cup {t}
    /\ s.r0 = [sched.r0 EXCEPT ![t] = "EAGAIN"]

\* IRQ_handle::ctl parks the current thread, with a deadline, and reschedules.
LEMMA WaitOnLemma ==
    ASSUME SchedInv, NEW i \in Irqs, NEW ack \in BOOLEAN, NEW n \in Nat, NEW d \in Elapsed,
           ctl_wait(i, ack, n, d)
    PROVE  \E s : WaitsOn(s, sched.current, i, n) /\ Rescheduled(s, d, sched')
<1> DEFINE t == sched.current
           saved == cpu_context_save(sched, "user")
           parked == schedule_queue_with_timeout(saved, t, i, n, "EAGAIN")
<1>1. /\ Sound(sched) /\ Floating(sched) = {}
      /\ sched.current # Nobody /\ n \in Nat \ {0} /\ d \in Nat /\ i \in Queues
      /\ schedule_or_exit(parked, d)
      /\ "user" \in R0Value /\ "EAGAIN" \in R0Value
  BY SchedAssumption, IrqAssumption DEF ctl_wait, InUser, SchedInv, R0Value
<1>2. Saved(sched, "user", saved)
  BY <1>1, EntryLemma
<1>3. /\ Sound(saved) /\ t \in Threads /\ Floating(saved) = {t} /\ sched.state[t] = "RUNNING"
      /\ saved.state = [sched.state EXCEPT ![t] = "FLOATING"] /\ saved.state[t] = "FLOATING"
      /\ saved.sleepq = sched.sleepq
      /\ saved.rem = sched.rem /\ saved.waitq = sched.waitq
      /\ saved.current = Nobody
      /\ saved.r0 = [sched.r0 EXCEPT ![t] = "user"]
  BY <1>2 DEF Saved
<1> HIDE DEF saved
<1>4. Parked(saved, t, i, n, "EAGAIN", parked)
  BY <1>1, <1>3, QueueWithTimeoutLemma
<1>5. sched.state \in [Threads -> ThreadState] /\ sched.r0 \in [Threads -> R0Value]
  BY <1>1 DEF Sound, SchedState
<1> HIDE DEF t, parked
<1>6. /\ Sound(parked) /\ Floating(parked) = {} /\ parked.current = Nobody
      /\ parked.state = [saved.state EXCEPT ![t] = "WAITING"]
      /\ Range(parked.sleepq) = Range(sched.sleepq) \cup {t}
      /\ parked.rem = [sched.rem EXCEPT ![t] = n]
      /\ parked.waitq = [sched.waitq EXCEPT ![i] = Append(@, t)]
      /\ Range(parked.waitq[i]) = Range(sched.waitq[i]) \cup {t}
      /\ parked.r0 = [saved.r0 EXCEPT ![t] = "EAGAIN"]
  BY <1>3, <1>4 DEF Parked
<1>7. /\ parked.state = [sched.state EXCEPT ![t] = "WAITING"]
      /\ parked.r0 = [sched.r0 EXCEPT ![t] = "EAGAIN"]
  BY <1>3, <1>5, <1>6
<1>8. Rescheduled(parked, d, sched')
  BY <1>1, <1>6, ScheduleOrExitLemma
<1>9. WaitsOn(parked, t, i, n)
  BY <1>3, <1>6, <1>7 DEF WaitsOn
<1> QED
  BY <1>8, <1>9 DEF t

\* In s the first waiter of line i is ready, with 1 in its R0.
LineWoken(s, i) ==
    LET t == Head(sched.waitq[i])
    IN  IF sched.waitq[i] = << >> THEN s = sched
        ELSE Woken(sched, t, i, "1", s)

\* user_on_irq_receive wakes the first waiter, if there is one; then the kernel
\* reschedules.
LEMMA ReceiveLemma ==
    ASSUME SchedInv, NEW i \in Irqs, NEW d \in Elapsed, device_interrupt(i, d)
    PROVE  \E s : LineWoken(s, i) /\ Sound(s) /\ Floating(s) = {} /\ Rescheduled(s, d, sched')
<1> DEFINE s == WakeFirst(sched, i)
<1>1. /\ Sound(sched) /\ Floating(sched) = {}
      /\ d \in Nat /\ i \in Queues /\ schedule(s, d) /\ "1" \in R0Value
  BY SchedAssumption, IrqAssumption DEF device_interrupt, SchedInv, R0Value
<1>2. LineWoken(s, i)
  <2>1. CASE sched.waitq[i] = << >>
    BY <2>1 DEF WakeFirst, LineWoken
  <2>2. CASE sched.waitq[i] # << >>
    <3>1. s = schedule_wake(queue_pop(sched, i), Head(sched.waitq[i]), "1")
      BY <2>2 DEF WakeFirst
    <3> QED
      BY <1>1, <2>2, <3>1, WakeLemma DEF LineWoken
  <2> QED
    BY <2>1, <2>2
<1> HIDE DEF s
<1>3. Sound(s) /\ Floating(s) = {}
  BY <1>1, <1>2 DEF LineWoken, Woken
<1>4. Rescheduled(s, d, sched')
  BY <1>1, <1>3, ScheduleLemma
<1> QED
  BY <1>2, <1>3, <1>4

\* A wait keeps the other waiters of the lines as they are.
LEMMA CtlWaitLemma ==
    ASSUME IrqInv, NEW i \in Irqs, NEW ack \in BOOLEAN, NEW n \in Nat, NEW d \in Elapsed,
           ctl_wait(i, ack, n, d)
    PROVE  /\ SchedInv'
           /\ \E s : /\ Passes(s, d)
                     /\ Range(s.waitq[i]) = Range(sched.waitq[i]) \cup {sched.current}
                     /\ \A j \in Irqs \ {i} : s.waitq[j] = sched.waitq[j]
<1> DEFINE t == sched.current
<1>1. /\ SchedInv /\ WaitersTimed(sched) /\ Sound(sched) /\ sched.current # Nobody
  BY DEF ctl_wait, InUser, IrqInv, SchedInv
<1>2. PICK s : WaitsOn(s, t, i, n) /\ Rescheduled(s, d, sched')
  BY <1>1, WaitOnLemma
<1>3. t \notin Range(sched.sleepq)
  BY <1>1, CurrentLemma
<1>4. \A j \in Irqs : \A u \in Range(sched.waitq[j]) : u \in Threads \ {t}
  BY <1>1, WaiterLemma, IrqAssumption
<1>5. Range(sched.sleepq) \subseteq Threads
  BY <1>1, RangeLemma DEF Sound, SchedState
<1>6. /\ sched.rem \in [Threads -> Int] /\ sched.r0 \in [Threads -> R0Value]
      /\ sched.waitq \in [Queues -> Seq(Threads)]
  BY <1>1 DEF Sound, SchedState
<1> HIDE DEF t
<1>7. SchedInv'
  BY <1>2, RescheduledInvLemma
<1>8. \A j \in Irqs \ {i} : s.waitq[j] = sched.waitq[j]
  BY <1>2, <1>6, IrqAssumption DEF WaitsOn
<1>9. s.r0[t] = "EAGAIN" /\ \A u \in Threads \ {t} : s.r0[u] = sched.r0[u]
  BY <1>2, <1>6 DEF WaitsOn
<1>10. WaitersTimed(s)
  BY <1>1, <1>2, <1>4, <1>8, <1>9 DEF WaitersTimed, WaitsOn
<1>11. \A u \in Range(sched.sleepq) \cap Range(s.sleepq) : s.rem[u] = sched.rem[u]
  BY <1>2, <1>3, <1>5, <1>6 DEF WaitsOn
<1>12. Passes(s, d) /\ Range(s.waitq[i]) = Range(sched.waitq[i]) \cup {t}
  BY <1>2, <1>10, <1>11 DEF Passes, WaitsOn
<1> QED
  BY <1>7, <1>8, <1>12 DEF t

\* An interrupt keeps all waiters but the first of its line as they are.
LEMMA DeviceLemma ==
    ASSUME IrqInv, NEW i \in Irqs, NEW d \in Elapsed, device_interrupt(i, d)
    PROVE  /\ SchedInv'
           /\ \E s : /\ Passes(s, d)
                     /\ \A j \in Irqs \ {i} : s.waitq[j] = sched.waitq[j]
                     /\ Range(s.waitq[i]) = Range(sched.waitq[i]) \ {Head(sched.waitq[i])}
                     /\ sched.waitq[i] = << >> => s.waitq[i] = << >>
                     /\ sched.waitq[i] # << >> =>
                            /\ Head(sched.waitq[i]) \in Range(sched.waitq[i])
                            /\ sched'.r0[Head(sched.waitq[i])] = "1"
                            /\ sched'.state[Head(sched.waitq[i])] \in {"READY", "RUNNING"}
<1> DEFINE t == Head(sched.waitq[i])
<1>1. /\ SchedInv /\ WaitersTimed(sched) /\ Sound(sched) /\ Floating(sched) = {}
      /\ d \in Nat /\ i \in Queues
  BY SchedAssumption, IrqAssumption DEF IrqInv, SchedInv
<1>2. /\ sched.rem \in [Threads -> Int] /\ sched.r0 \in [Threads -> R0Value]
      /\ sched.waitq \in [Queues -> Seq(Threads)]
      /\ sched.state \in [Threads -> ThreadState]
      /\ Range(sched.sleepq) \subseteq Threads
  BY <1>1, RangeLemma DEF Sound, SchedState
<1>5. PICK s : LineWoken(s, i) /\ Rescheduled(s, d, sched')
  BY <1>1, ReceiveLemma
<1>3. CASE sched.waitq[i] = << >>
  <2>1. s = sched
    BY <1>3, <1>5 DEF LineWoken
  <2>3. SchedInv' /\ Passes(sched, d)
    BY <1>1, <1>5, <2>1, RescheduledInvLemma DEF Passes
  <2>4. Range(sched.waitq[i]) = Range(sched.waitq[i]) \ {t}
    BY <1>3, EmptyLemma
  <2> QED
    BY <1>3, <2>3, <2>4
<1>4. CASE sched.waitq[i] # << >>
  <2>2. Woken(sched, t, i, "1", s)
    BY <1>4, <1>5 DEF LineWoken
  <2> HIDE DEF t
  <2>3. /\ Sound(s) /\ Floating(s) = {} /\ t \in Threads /\ t \in Range(sched.waitq[i])
        /\ s.state = [sched.state EXCEPT ![t] = "READY"]
        /\ Range(s.sleepq) = Range(sched.sleepq) \ {t}
        /\ s.rem = [sched.rem EXCEPT ![t] = 0]
        /\ s.waitq = [sched.waitq EXCEPT ![i] = Tail(@)]
        /\ Range(s.waitq[i]) = Range(sched.waitq[i]) \ {t}
        /\ s.current = sched.current
        /\ s.r0 = [sched.r0 EXCEPT ![t] = "1"]
    BY <1>1, <2>2 DEF Woken
  <2>4. Rescheduled(s, d, sched')
    BY <1>5
  <2>5. SchedInv'
    BY <2>4, RescheduledInvLemma
  <2>6. \A j \in Irqs \ {i} : s.waitq[j] = sched.waitq[j]
    BY <1>2, <2>3, IrqAssumption
  <2>7. \A j \in Irqs : \A u \in Range(s.waitq[j]) :
            u \in Threads \ {t} /\ u \in Range(sched.waitq[j])
    <3> SUFFICES ASSUME NEW j \in Irqs, NEW u \in Range(s.waitq[j])
                 PROVE  u \in Threads \ {t} /\ u \in Range(sched.waitq[j])
      OBVIOUS
    <3>1. u \in Threads /\ s.state[u] = "WAITING"
      <4>1. j \in Queues /\ Sound(s)
        BY <2>3, IrqAssumption
      <4> QED
        BY <4>1, WaiterLemma
    <3>2. u # t
      BY <1>2, <2>3, <3>1
    <3> QED
      BY <2>3, <2>6, <3>1, <3>2
  <2>8. WaitersTimed(s)
    BY <1>1, <1>2, <2>3, <2>7 DEF WaitersTimed
  <2>9. \A u \in Range(sched.sleepq) \cap Range(s.sleepq) : s.rem[u] = sched.rem[u]
    BY <1>2, <2>3
  <2>10. /\ t # sched.current /\ t \notin Due(s, d)
    <3>1. t # sched.current
      BY <1>1, <2>3, WaiterLemma
    <3> QED
      BY <2>3, <3>1 DEF Due
  <2>11. sched'.r0[t] = "1"
    <3>1. sched'.r0[t] = s.r0[t]
      BY <2>3, <2>4, <2>10 DEF Rescheduled
    <3> QED
      BY <1>2, <2>3, <3>1
  <2>12. sched'.state[t] \in {"READY", "RUNNING"}
    <3>1. s.state[t] = "READY" /\ Switched(s.state[t], sched'.state[t])
      BY <1>2, <2>3, <2>4, <2>10 DEF Rescheduled
    <3> QED
      BY <3>1 DEF Switched
  <2>13. Passes(s, d)
    BY <2>3, <2>4, <2>8, <2>9 DEF Passes
  <2> QED
    BY <1>4, <2>3, <2>5, <2>6, <2>11, <2>12, <2>13 DEF t
<1> QED
  BY <1>3, <1>4

\* IRQ_handle::close wakes every waiter of the line with EBADF.
LEMMA CloseLemma ==
    ASSUME IrqInv, NEW i \in Irqs, irq_close(i)
    PROVE  /\ SchedInv' /\ WaitersTimed(sched')
           /\ sched'.waitq[i] = << >>
           /\ \A t \in Range(sched.waitq[i]) : sched'.r0[t] = "EBADF"
           /\ \A j \in Irqs \ {i} : sched'.waitq[j] = sched.waitq[j]
<1> DEFINE r == schedule_wake_all(sched, i, "EBADF")
           woken == Range(sched.waitq[i])
<1>1. /\ SchedInv /\ WaitersTimed(sched) /\ Sound(sched) /\ Floating(sched) = {}
      /\ i \in Queues /\ sched' = r /\ "EBADF" \in R0Value
  BY IrqAssumption DEF irq_close, IrqInv, SchedInv, R0Value
<1>2. AllWoken(sched, i, "EBADF", r)
  BY <1>1, WakeAllLemma
<1> HIDE DEF r
<1>3. /\ Sound(r) /\ Floating(r) = {}
      /\ woken \subseteq Threads
      /\ Range(r.sleepq) = Range(sched.sleepq) \ woken
      /\ r.waitq = [sched.waitq EXCEPT ![i] = << >>]
      /\ r.r0 = [t \in Threads |-> IF t \in woken THEN "EBADF" ELSE sched.r0[t]]
  BY <1>1, <1>2 DEF AllWoken
<1>4. SchedInv'
  BY <1>1, <1>3 DEF SchedInv, Sound, Consistent, SleepersSorted, Floating
<1>5. sched.waitq \in [Queues -> Seq(Threads)]
  BY <1>1 DEF Sound, SchedState
<1>6. r.waitq[i] = << >> /\ \A j \in Irqs \ {i} : r.waitq[j] = sched.waitq[j]
  BY <1>1, <1>3, <1>5, IrqAssumption
<1>7. \A t \in woken : r.r0[t] = "EBADF"
  BY <1>3
<1>8. WaitersTimed(r)
  <2> SUFFICES ASSUME NEW j \in Irqs, NEW t \in Range(r.waitq[j])
               PROVE  t \in Range(r.sleepq) /\ r.r0[t] = "EAGAIN"
    BY DEF WaitersTimed
  <2>1. j # i
    BY <1>6, EmptyLemma
  <2>2. t \in Range(sched.waitq[j])
    BY <1>6, <2>1
  <2>3. t \in Threads /\ t \notin woken
    BY <1>1, <2>1, <2>2, WaiterLemma, IrqAssumption DEF Sound, Consistent
  <2> QED
    BY <1>1, <1>3, <2>2, <2>3 DEF WaitersTimed
<1> QED
  BY <1>1, <1>4, <1>6, <1>7, <1>8

-----------------------------------------------------------------------------
(***************************************************************************)
(* The invariant                                                           *)
(***************************************************************************)

\* It holds when main() enters user mode.
LEMMA IrqInitLemma == IrqInit => IrqInv
<1> SUFFICES ASSUME IrqInit PROVE IrqInv
  OBVIOUS
<1>1. SchedInv
  BY SchedInitLemma DEF IrqInit
<1>2. irq \in [Irqs -> IrqState] /\ \A i \in Irqs : ~irq[i].occurred
  BY DEF IrqInit, IrqState
<1>3. \A i \in Irqs : sched.waitq[i] = << >>
  BY IrqAssumption DEF IrqInit, SchedInit
<1>4. WaitersTimed(sched)
  BY <1>3, EmptyLemma DEF WaitersTimed
<1> QED
  BY <1>1, <1>2, <1>4 DEF IrqInv, LatchedMeansNoWaiter

\* A step that passes time, or that touches no waiter, keeps WaitersTimed.
LEMMA TimedLemma ==
    ASSUME IrqInv
    PROVE  /\ Quiet => WaitersTimed(sched')
           /\ \A s, d : Passes(s, d) => WaitersTimed(sched')
<1>1. Quiet => WaitersTimed(sched')
  BY DEF IrqInv, WaitersTimed, Quiet
<1>2. ASSUME NEW s, NEW d, Passes(s, d)
      PROVE  WaitersTimed(sched')
  BY <1>2, WaitersKeptLemma DEF Passes
<1> QED
  BY <1>1, <1>2

\* No step latches an interrupt of a line on which a thread waits, or parks a thread
\* on a line that has one latched.
LEMMA IrqNextLemma == IrqInv /\ [IrqNext]_irqVars => IrqInv'
<1> SUFFICES ASSUME IrqInv, [IrqNext]_irqVars PROVE IrqInv'
  OBVIOUS
<1>1. /\ SchedInv /\ Sound(sched) /\ WaitersTimed(sched) /\ LatchedMeansNoWaiter
      /\ irq \in [Irqs -> IrqState]
  BY DEF IrqInv, SchedInv
<1>2. ASSUME UNCHANGED sched, irq' \in [Irqs -> IrqState],
             \A i \in Irqs : irq'[i].occurred => irq[i].occurred
      PROVE  IrqInv'
  BY <1>1, <1>2 DEF IrqInv, SchedInv, Sound, Consistent, SleepersSorted, Floating,
                    WaitersTimed, LatchedMeansNoWaiter
<1>3. CASE SchedNext /\ UNCHANGED irq
  <2>1. SchedInv'
    BY <1>3, SchedStepLemma
  <2>2. CASE Quiet
    BY <1>1, <1>3, <2>1, <2>2, TimedLemma
       DEF IrqInv, Quiet, LatchedMeansNoWaiter, WaitersTimed
  <2>3. CASE \E s, d : d \in Elapsed /\ Passes(s, d) /\ s.waitq = sched.waitq
    <3>1. PICK s, d : Passes(s, d) /\ s.waitq = sched.waitq
      BY <2>3
    <3>2. \A i \in Irqs : s.waitq[i] = << >> => sched'.waitq[i] = << >>
      BY <3>1, WaitersKeptLemma DEF Passes
    <3>3. WaitersTimed(sched')
      BY <3>1, TimedLemma
    <3> QED
      BY <1>1, <1>3, <2>1, <3>1, <3>2, <3>3
         DEF IrqInv, LatchedMeansNoWaiter, WaitersTimed
  <2> QED
    BY <1>3, <2>2, <2>3, SchedStepLemma
<1>4. CASE \E i \in Irqs : irq_claim(i)
  BY <1>1, <1>2, <1>4 DEF irq_claim, IrqState
<1>5. CASE \E i \in Irqs : ctl_enable(i)
  BY <1>1, <1>2, <1>5, ZenonT(30) DEF ctl_enable, IrqState
<1>6. CASE \E i \in Irqs, ack \in BOOLEAN : ctl_wait_occurred(i, ack)
  <2>1. PICK i \in Irqs, ack \in BOOLEAN : ctl_wait_occurred(i, ack)
    BY <1>6
  <2>2. /\ UNCHANGED sched
        /\ irq' = [irq EXCEPT ![i].enabled = @ \/ ack, ![i].occurred = FALSE]
    BY <2>1 DEF ctl_wait_occurred
  <2>3. irq' \in [Irqs -> IrqState]
    BY <1>1, <2>2, ZenonT(30) DEF IrqState
  <2>4. \A j \in Irqs : irq'[j].occurred => irq[j].occurred
    BY <1>1, <2>2 DEF IrqState
  <2> QED
    BY <1>2, <2>2, <2>3, <2>4
<1>7. CASE \E i \in Irqs, ack \in BOOLEAN, n \in 1..MaxWait, d \in Elapsed :
            ctl_wait(i, ack, n, d)
  <2>1. PICK i \in Irqs, ack \in BOOLEAN, n \in Nat, d \in Elapsed : ctl_wait(i, ack, n, d)
    BY <1>7, SchedAssumption
  <2>2. PICK s : /\ Passes(s, d)
                 /\ \A j \in Irqs \ {i} : s.waitq[j] = sched.waitq[j]
    BY <2>1, CtlWaitLemma
  <2>3. SchedInv' /\ WaitersTimed(sched')
    BY <2>1, <2>2, CtlWaitLemma, TimedLemma
  <2>4. \A j \in Irqs \ {i} : sched.waitq[j] = << >> => sched'.waitq[j] = << >>
    BY <2>2, WaitersKeptLemma DEF Passes
  <2>5. irq' = [irq EXCEPT ![i].enabled = @ \/ ack] /\ ~irq[i].occurred
    BY <2>1 DEF ctl_wait
  <2>6. irq' \in [Irqs -> IrqState] /\ \A j \in Irqs : irq'[j].occurred = irq[j].occurred
    BY <1>1, <2>5 DEF IrqState
  <2> QED
    BY <1>1, <2>3, <2>4, <2>5, <2>6 DEF IrqInv, LatchedMeansNoWaiter, WaitersTimed
<1>8. CASE \E i \in Irqs, d \in Elapsed : device_interrupt(i, d)
  <2>1. PICK i \in Irqs, d \in Elapsed : device_interrupt(i, d)
    BY <1>8
  <2>2. PICK s : /\ Passes(s, d)
                 /\ \A j \in Irqs \ {i} : s.waitq[j] = sched.waitq[j]
                 /\ sched.waitq[i] = << >> => s.waitq[i] = << >>
    BY <2>1, DeviceLemma
  <2>3. SchedInv' /\ WaitersTimed(sched')
    BY <2>1, <2>2, DeviceLemma, TimedLemma
  <2>4. \A j \in Irqs : sched.waitq[j] = << >> => sched'.waitq[j] = << >>
    BY <2>2, WaitersKeptLemma DEF Passes
  <2>5. irq' = [irq EXCEPT ![i].pending = FALSE, ![i].enabled = FALSE,
                           ![i].occurred = @ \/ sched.waitq[i] = << >>]
    BY <2>1 DEF device_interrupt
  <2>6. irq' \in [Irqs -> IrqState]
    <3> DEFINE latch == irq[i].occurred \/ sched.waitq[i] = << >>
    <3>1. latch \in BOOLEAN /\ irq[i] \in IrqState
      BY <1>1 DEF IrqState
    <3>2. irq' = [irq EXCEPT ![i] = [irq[i] EXCEPT !.pending = FALSE, !.enabled = FALSE,
                                                  !.occurred = latch]]
      BY <1>1, <2>5
    <3> HIDE DEF latch
    <3> QED
      BY <1>1, <3>1, <3>2 DEF IrqState
  <2>7. \A j \in Irqs : irq'[j].occurred => irq[j].occurred \/ sched.waitq[j] = << >>
    BY <1>1, <2>5 DEF IrqState
  <2> QED
    BY <1>1, <2>3, <2>4, <2>6, <2>7 DEF IrqInv, LatchedMeansNoWaiter, WaitersTimed
<1>9. CASE \E i \in Irqs : irq_close(i)
  <2>1. PICK i \in Irqs : irq_close(i)
    BY <1>9
  <2>2. /\ SchedInv' /\ WaitersTimed(sched') /\ sched'.waitq[i] = << >>
        /\ \A j \in Irqs \ {i} : sched'.waitq[j] = sched.waitq[j]
    BY <2>1, CloseLemma
  <2>3. /\ irq' \in [Irqs -> IrqState]
        /\ \A j \in Irqs : irq'[j].occurred = irq[j].occurred
    BY <1>1, <2>1 DEF irq_close, IrqState
  <2> QED
    BY <1>1, <2>2, <2>3 DEF IrqInv, LatchedMeansNoWaiter, WaitersTimed
<1>10. CASE \E i \in Irqs : device_edge(i)
  BY <1>1, <1>2, <1>10 DEF device_edge, IrqState
<1>11. CASE UNCHANGED irqVars
  BY <1>1, <1>2, <1>11 DEF irqVars
<1> QED
  BY <1>3, <1>4, <1>5, <1>6, <1>7, <1>8, <1>9, <1>10, <1>11 DEF IrqNext

\* The invariant holds whenever the kernel is left.
LEMMA IrqInvariance == IrqSpec => []IrqInv
  BY IrqInitLemma, IrqNextLemma, PTL DEF IrqSpec

-----------------------------------------------------------------------------
(***************************************************************************)
(* Theorems                                                                *)
(***************************************************************************)

\* No wait, wake-up, close or timeout of an IRQ handle leaves a thread linked in a
\* queue it has left, and no assert of irq.cxx or the scheduler fails.
THEOREM IrqsAreSound == IrqSpec => []IrqSound
<1>1. IrqInv => IrqSound
  BY SchedInvLemma DEF IrqInv, IrqSound, IrqTypeOK
<1> QED
  BY <1>1, IrqInvariance, PTL

\* No thread waits on a line whose interrupt has been latched (irq.cxx checks
\* interrupt_occurred before it parks; user_on_irq_receive latches only when the
\* queue is empty).
THEOREM NobodySleepsThroughAnInterrupt == IrqSpec => []LatchedMeansNoWaiter
<1>1. IrqInv => LatchedMeansNoWaiter
  BY DEF IrqInv
<1> QED
  BY <1>1, IrqInvariance, PTL

\* A waiter that a reschedule takes off a line's queue had its deadline passed, and
\* finds EAGAIN.
LEMMA TimedOutLemma ==
    ASSUME IrqInv, NEW s, NEW d \in Elapsed, Passes(s, d),
           NEW i \in Irqs, NEW t \in Range(sched.waitq[i]),
           t \in Range(s.waitq[i]), t \notin Range(sched'.waitq[i])
    PROVE  sched'.r0[t] = "EAGAIN" /\ DeadlinePassed(t)
<1>1. /\ Sound(s) /\ Rescheduled(s, d, sched') /\ WaitersTimed(s)
      /\ \A u \in Range(sched.sleepq) \cap Range(s.sleepq) : s.rem[u] = sched.rem[u]
  BY DEF Passes
<1>2. sched'.r0[t] = "EAGAIN" /\ t \in Due(s, d)
  BY <1>1, WaitersKeptLemma
<1>3. t \in Range(sched.sleepq) /\ SchedInv
  BY DEF IrqInv, WaitersTimed
<1> QED
  BY <1>1, <1>2, <1>3, DeadlineLemma

\* The first waiter finds 1 after an interrupt, all waiters find EBADF after a close,
\* and the others find EAGAIN once their deadline has passed: what user_on_irq_receive,
\* IRQ_handle::close and wakeup_sleepers leave in R0 never gets mixed up.
THEOREM WaitersLearnWhy == IrqSpec => WakeTellsWhy
<1> DEFINE Told(i, t) ==
        LET taken == irq[i].pending /\ ~irq'[i].pending
            closed == irq[i].claimed /\ ~irq'[i].claimed
        IN  CASE taken /\ t = Head(sched.waitq[i]) -> sched'.r0[t] = "1"
              [] closed -> sched'.r0[t] = "EBADF"
              [] OTHER -> sched'.r0[t] = "EAGAIN" /\ DeadlinePassed(t)
<1>1. IrqInv /\ [IrqNext]_irqVars
        => [\A i \in Irqs, t \in Threads :
                t \in Range(sched.waitq[i]) /\ t \notin Range(sched'.waitq[i]) =>
                    Told(i, t)]_irqVars
  <2> SUFFICES ASSUME IrqInv, IrqNext, NEW i \in Irqs, NEW t \in Threads,
                      t \in Range(sched.waitq[i]), t \notin Range(sched'.waitq[i])
               PROVE  Told(i, t)
    OBVIOUS
  <2>1. SchedInv /\ Sound(sched) /\ irq \in [Irqs -> IrqState] /\ i \in Queues
    BY IrqAssumption DEF IrqInv, SchedInv
  <2>2. ASSUME ~(irq[i].pending /\ ~irq'[i].pending) \/ t # Head(sched.waitq[i]),
               ~(irq[i].claimed /\ ~irq'[i].claimed),
               NEW s, NEW d \in Elapsed, Passes(s, d), t \in Range(s.waitq[i])
        PROVE  Told(i, t)
    <3>1. sched'.r0[t] = "EAGAIN" /\ DeadlinePassed(t)
      BY <2>2, TimedOutLemma
    <3> QED
      BY <2>2, <3>1
  <2> HIDE DEF Told
  <2>3. CASE SchedNext /\ UNCHANGED irq
    <3>1. ~Quiet
      BY DEF Quiet
    <3>2. PICK s, d : d \in Elapsed /\ Passes(s, d) /\ s.waitq = sched.waitq
      BY <2>3, <3>1, SchedStepLemma
    <3>3. t \in Range(s.waitq[i])
      BY <3>2
    <3> QED
      BY <2>2, <2>3, <3>2, <3>3
  <2>4. CASE UNCHANGED sched
    BY <2>4
  <2>5. CASE \E j \in Irqs, ack \in BOOLEAN, n \in 1..MaxWait, d \in Elapsed :
                ctl_wait(j, ack, n, d)
    <3>1. PICK j \in Irqs, ack \in BOOLEAN, n \in Nat, d \in Elapsed : ctl_wait(j, ack, n, d)
      BY <2>5, SchedAssumption
    <3>2. PICK s : /\ Passes(s, d)
                   /\ Range(s.waitq[j]) = Range(sched.waitq[j]) \cup {sched.current}
                   /\ \A k \in Irqs \ {j} : s.waitq[k] = sched.waitq[k]
      BY <3>1, CtlWaitLemma
    <3>3. t \in Range(s.waitq[i])
      BY <3>2
    <3>4. irq'[i].pending = irq[i].pending /\ irq'[i].claimed = irq[i].claimed
      BY <2>1, <3>1 DEF ctl_wait, IrqState
    <3> QED
      BY <2>2, <3>2, <3>3, <3>4
  <2>6. CASE \E j \in Irqs, d \in Elapsed : device_interrupt(j, d)
    <3>1. PICK j \in Irqs, d \in Elapsed : device_interrupt(j, d)
      BY <2>6
    <3>2. PICK s : /\ Passes(s, d)
                   /\ \A k \in Irqs \ {j} : s.waitq[k] = sched.waitq[k]
                   /\ Range(s.waitq[j]) = Range(sched.waitq[j]) \ {Head(sched.waitq[j])}
      BY <3>1, DeviceLemma
    <3>3. irq[j].pending
      BY <3>1 DEF device_interrupt
    <3>4. irq' = [irq EXCEPT ![j].pending = FALSE, ![j].enabled = FALSE,
                             ![j].occurred = @ \/ sched.waitq[j] = << >>]
      BY <3>1 DEF device_interrupt
    <3>5. /\ irq'[i].claimed = irq[i].claimed
          /\ i = j => ~irq'[i].pending
          /\ i # j => irq'[i].pending = irq[i].pending
      BY <2>1, <3>4 DEF IrqState
    <3>6. CASE i = j /\ t = Head(sched.waitq[i])
      <4>1. sched.waitq[i] # << >>
        BY EmptyLemma
      <4>2. sched'.r0[t] = "1"
        BY <3>1, <3>6, <4>1, DeviceLemma
      <4> QED
        BY <3>3, <3>5, <3>6, <4>2 DEF Told
    <3>7. CASE i # j \/ t # Head(sched.waitq[i])
      <4>1. t \in Range(s.waitq[i])
        BY <3>2, <3>7
      <4> QED
        BY <2>2, <3>2, <3>5, <3>7, <4>1
    <3> QED
      BY <3>6, <3>7
  <2>7. CASE \E j \in Irqs : irq_close(j)
    <3>1. PICK j \in Irqs : irq_close(j)
      BY <2>7
    <3>2. i = j
      BY <3>1, CloseLemma
    <3>3. sched'.r0[t] = "EBADF"
      BY <3>1, <3>2, CloseLemma
    <3>4. irq'[i].pending = irq[i].pending /\ irq[i].claimed /\ ~irq'[i].claimed
      BY <2>1, <3>1, <3>2 DEF irq_close, IrqState
    <3> QED
      BY <3>3, <3>4 DEF Told
  <2> QED
    BY <2>3, <2>4, <2>5, <2>6, <2>7
       DEF IrqNext, irq_claim, ctl_enable, ctl_wait_occurred, device_edge
<1> QED
  BY <1>1, IrqInvariance, PTL DEF IrqSpec, WakeTellsWhy

\* An interrupt that the CPU takes wakes the first waiter or is latched, and never
\* both (user_on_irq_receive), also when the first waiter's own timeout is due in the
\* same kernel entry.
THEOREM InterruptsReachUsers == IrqSpec => InterruptReachesUser
<1>1. IrqInv /\ [IrqNext]_irqVars
        => [\A i \in Irqs :
                irq[i].pending /\ ~irq'[i].pending =>
                    \/ irq'[i].occurred /\ sched.waitq[i] = << >>
                    \/ /\ sched.waitq[i] # << >>
                       /\ irq'[i].occurred = irq[i].occurred
                       /\ sched'.state[Head(sched.waitq[i])] \in {"READY", "RUNNING"}]_irqVars
  <2> SUFFICES ASSUME IrqInv, IrqNext, NEW i \in Irqs, irq[i].pending, ~irq'[i].pending
               PROVE  \/ irq'[i].occurred /\ sched.waitq[i] = << >>
                      \/ /\ sched.waitq[i] # << >>
                         /\ irq'[i].occurred = irq[i].occurred
                         /\ sched'.state[Head(sched.waitq[i])] \in {"READY", "RUNNING"}
    OBVIOUS
  <2>1. irq \in [Irqs -> IrqState]
    BY DEF IrqInv
  <2>2. ~(SchedNext /\ UNCHANGED irq) /\ ~(\E j \in Irqs : irq_close(j))
    BY <2>1 DEF irq_close, IrqState
  <2>3. /\ ~(\E j \in Irqs : irq_claim(j)) /\ ~(\E j \in Irqs : ctl_enable(j))
        /\ ~(\E j \in Irqs : device_edge(j))
    BY <2>1 DEF irq_claim, ctl_enable, device_edge, IrqState
  <2>4. ~(\E j \in Irqs, ack \in BOOLEAN : ctl_wait_occurred(j, ack))
    <3> SUFFICES ASSUME NEW j \in Irqs, NEW ack \in BOOLEAN, ctl_wait_occurred(j, ack)
                 PROVE  FALSE
      OBVIOUS
    <3>1. irq' = [irq EXCEPT ![j].enabled = @ \/ ack, ![j].occurred = FALSE]
      BY DEF ctl_wait_occurred
    <3>2. irq'[i].pending = irq[i].pending
      BY <2>1, <3>1 DEF IrqState
    <3> QED
      BY <3>2
  <2>5. ~(\E j \in Irqs, ack \in BOOLEAN, n \in 1..MaxWait, d \in Elapsed :
                ctl_wait(j, ack, n, d))
    BY <2>1 DEF ctl_wait, IrqState
  <2>6. PICK j \in Irqs, d \in Elapsed : device_interrupt(j, d)
    BY <2>2, <2>3, <2>4, <2>5 DEF IrqNext
  <2>7. irq' = [irq EXCEPT ![j].pending = FALSE, ![j].enabled = FALSE,
                           ![j].occurred = @ \/ sched.waitq[j] = << >>]
    BY <2>6 DEF device_interrupt
  <2>8. i = j /\ (irq'[i].occurred <=> irq[i].occurred \/ sched.waitq[i] = << >>)
        /\ irq'[i].occurred \in BOOLEAN /\ irq[i].occurred \in BOOLEAN
    BY <2>1, <2>7 DEF IrqState
  <2>9. sched.waitq[i] # << >> => sched'.state[Head(sched.waitq[i])] \in {"READY", "RUNNING"}
    BY <2>6, <2>8, DeviceLemma
  <2> QED
    BY <2>8, <2>9
<1> QED
  BY <1>1, IrqInvariance, PTL DEF IrqSpec, InterruptReachesUser

-----------------------------------------------------------------------------
(***************************************************************************)
(* The terminal.  Its servers do not assume RespondFirst: that they keep   *)
(* to it follows from where they are in their programs (p, for pc).        *)
(***************************************************************************)

Able(s, t) == s.state[t] \in {"READY", "RUNNING"}

InQueue(s, t, q) == t \in Range(s.waitq[q])

\* Only who waits on the line has a timeout: nobody waits on a channel with one.
SleepersWait(s) == \A t \in Range(s.sleepq) : InQueue(s, t, Line)

\* A channel is empty, or one of its two parties is parked on it.
MeetingPoint(s, chan, ch, server) ==
    \/ chan[ch] = "EMPTY" /\ Range(s.waitq[ch]) = {}
    \/ chan[ch] = "LISTENING" /\ Range(s.waitq[ch]) = {server}
    \/ chan[ch] = "CALLING" /\ Range(s.waitq[ch]) = {Client}

\* A server is about to listen, or is parked on its channel, or has the client's call,
\* which is the one that the client makes when its pc is `asked'.
ServerKeeps(s, callers, p, server, ch, asked) ==
    \/ /\ p[server] = "listen" /\ callers[server] = Nobody
       /\ Able(s, server)
    \/ /\ p[server] \in {"poll", "respond"} /\ callers[server] = Nobody
       /\ InQueue(s, server, ch)
    \/ /\ p[server] # "listen" /\ callers[server] = Client
       /\ s.state[Client] = "CALLING" /\ p[Client] = asked
       /\ Able(s, server) \/ InQueue(s, server, Line)

\* The client goes on, or is parked on a channel or in a call, with the message that
\* its pc tells.
ClientWaits(s, msg, p) ==
    \/ Able(s, Client)
    \/ /\ p[Client] = "read"
       /\ s.state[Client] = "CALLING" \/ InQueue(s, Client, 2)
       /\ msg[Client].role = "call" /\ msg[Client].mode = "WRITE" /\ msg[Client].len = MaxLen
    \/ /\ p[Client] = "write"
       /\ (s.state[Client] = "CALLING" /\ msg[Client].rx) \/ InQueue(s, Client, 1)
       /\ msg[Client].role = "call" /\ msg[Client].mode = "READ" /\ msg[Client].len = ReadLen

Agreed(s, chan, callers, msg, p) ==
    /\ SleepersWait(s)
    /\ MeetingPoint(s, chan, 1, Reader) /\ MeetingPoint(s, chan, 2, Writer)
    /\ ServerKeeps(s, callers, p, Reader, 1, "write")
    /\ ServerKeeps(s, callers, p, Writer, 2, "read")
    /\ ClientWaits(s, msg, p)
    /\ chan[2] = "LISTENING" => msg[Writer].len = MaxLen

TtyTypes ==
    /\ irq \in [Irqs -> IrqState]
    /\ channel \in [Channels -> {"EMPTY", "LISTENING", "CALLING"}]
    /\ ipc_caller \in [Threads -> Threads \cup {Nobody}]
    /\ message \in [Threads -> Message]
    /\ pc \in [Threads -> {"write", "read", "listen", "respond", "poll", "wait"}]
    /\ rx \in 0..RxMax
    /\ got \in 0..ReadLen

TtyInv ==
    /\ SchedInv
    /\ TtyTypes
    /\ closed_call = FALSE
    /\ Agreed(sched, channel, ipc_caller, message, pc)

\* What every step can count on.
LEMMA TtyFactsLemma ==
    ASSUME TtyInv
    PROVE  /\ Sound(sched) /\ Floating(sched) = {} /\ sched.ok /\ sched \in SchedState
           /\ sched.state \in [Threads -> ThreadState]
           /\ sched.waitq \in [Queues -> Seq(Threads)]
           /\ Range(sched.sleepq) \subseteq Threads
           /\ TtyTypes /\ closed_call = FALSE
           /\ Agreed(sched, channel, ipc_caller, message, pc)
<1>1. SchedInv /\ TtyTypes /\ closed_call = FALSE /\ Agreed(sched, channel, ipc_caller, message, pc)
  BY DEF TtyInv
<1>2. Sound(sched) /\ Floating(sched) = {}
  BY <1>1 DEF SchedInv
<1>3. sched.ok /\ sched \in SchedState
  BY <1>2 DEF Sound
<1>4. /\ sched.state \in [Threads -> ThreadState]
      /\ sched.waitq \in [Queues -> Seq(Threads)]
      /\ sched.sleepq \in Seq(Threads)
  BY <1>3 DEF SchedState
<1> QED
  BY <1>1, <1>2, <1>3, <1>4, RangeLemma

\* The parties and the places where they meet are different.
LEMMA PartiesLemma ==
    /\ Threads = {Client, Reader, Writer}
    /\ Client # Reader /\ Client # Writer /\ Reader # Writer
    /\ Nobody \notin Threads
    /\ 1 \in Channels /\ 2 \in Channels /\ 1 \in Queues /\ 2 \in Queues
    /\ Line \in Queues /\ Line # 1 /\ Line # 2 /\ Line \in Irqs
<1>1. Channels = {1, 2}
  BY TtyAssumption DEF Channels
<1> QED
  BY <1>1, TtyAssumption, IpcAssumption, IrqAssumption, SchedAssumption

\* A thread is parked on one queue only, and it is WAITING.
LEMMA OnePlaceLemma ==
    ASSUME NEW s, Sound(s), NEW q \in Queues, NEW t, InQueue(s, t, q)
    PROVE  /\ t \in Threads /\ s.state[t] = "WAITING" /\ t # s.current
           /\ \A r \in Queues : InQueue(s, t, r) => r = q
<1>1. t \in Threads /\ s.state[t] = "WAITING" /\ t # s.current
  BY WaiterLemma DEF InQueue
<1>2. \A r \in Queues : InQueue(s, t, r) => r = q
  BY <1>1 DEF InQueue, Sound, Consistent
<1> QED
  BY <1>1, <1>2

\* What the parties know of each other stays true when the kernel reschedules: only the
\* thread that waits on the line can be woken by its timeout.
LEMMA AgreedLemma ==
    ASSUME NEW s, Sound(s), NEW d, NEW n, Rescheduled(s, d, n),
           NEW chan, NEW callers, NEW msg, NEW p, Agreed(s, chan, callers, msg, p)
    PROVE  Agreed(n, chan, callers, msg, p)
<1>1. \A t \in Due(s, d) : t \in Range(s.sleepq) /\ InQueue(s, t, Line)
  BY DEF Due, Agreed, SleepersWait
<1>2. \A t \in Due(s, d) : /\ t \in Threads /\ s.state[t] = "WAITING"
                           /\ ~InQueue(s, t, 1) /\ ~InQueue(s, t, 2)
  BY <1>1, PartiesLemma, OnePlaceLemma
<1>3. /\ Range(n.sleepq) = Range(s.sleepq) \ Due(s, d)
      /\ \A q \in Queues : Range(n.waitq[q]) = Range(s.waitq[q]) \ Due(s, d)
      /\ \A t \in Due(s, d) : n.state[t] \in {"READY", "RUNNING"}
      /\ \A t \in Threads \ Due(s, d) : Switched(s.state[t], n.state[t])
  BY DEF Rescheduled
<1>4. Range(n.waitq[1]) = Range(s.waitq[1]) /\ Range(n.waitq[2]) = Range(s.waitq[2])
  BY <1>2, <1>3, PartiesLemma DEF InQueue
<1>5. \A t \in Threads : Able(s, t) => Able(n, t)
  BY <1>2, <1>3 DEF Able, Switched
<1>6. \A t \in Threads : s.state[t] = "CALLING" => n.state[t] = "CALLING"
  BY <1>2, <1>3 DEF Switched
<1>7. \A t \in Threads : InQueue(s, t, Line) => Able(n, t) \/ InQueue(n, t, Line)
  BY <1>3, PartiesLemma DEF InQueue, Able
<1>8. \A t : /\ InQueue(s, t, 1) => InQueue(n, t, 1)
             /\ InQueue(s, t, 2) => InQueue(n, t, 2)
  BY <1>4 DEF InQueue
<1>9. SleepersWait(n)
  BY <1>1, <1>3, PartiesLemma DEF SleepersWait, Agreed, InQueue
<1>10. MeetingPoint(n, chan, 1, Reader) /\ MeetingPoint(n, chan, 2, Writer)
  BY <1>4 DEF Agreed, MeetingPoint
<1>11. ServerKeeps(n, callers, p, Reader, 1, "write")
  BY <1>5, <1>6, <1>7, <1>8, PartiesLemma DEF Agreed, ServerKeeps
<1>12. ServerKeeps(n, callers, p, Writer, 2, "read")
  BY <1>5, <1>6, <1>7, <1>8, PartiesLemma DEF Agreed, ServerKeeps
<1>13. ClientWaits(n, msg, p)
  BY <1>5, <1>6, <1>8, PartiesLemma DEF Agreed, ClientWaits
<1> QED
  BY <1>9, <1>10, <1>11, <1>12, <1>13 DEF Agreed

-----------------------------------------------------------------------------
(***************************************************************************)
(* What the system calls do to the scheduler                               *)
(***************************************************************************)

\* In s thread t, which had the CPU, is parked on queue q.
ParksAt(s, t, q) ==
    /\ Sound(s) /\ Floating(s) = {}
    /\ t \in Threads /\ sched.state[t] = "RUNNING"
    /\ s.state = [sched.state EXCEPT ![t] = "WAITING"]
    /\ Range(s.waitq[q]) = Range(sched.waitq[q]) \cup {t}
    /\ \A r \in Queues \ {q} : s.waitq[r] = sched.waitq[r]

\* A channel counts as empty exactly when nobody is parked on it.
LEMMA EmptyChannelLemma ==
    ASSUME TtyInv, NEW ch \in {1, 2}
    PROVE  (channel[ch] = "EMPTY") = (sched.waitq[ch] = << >>)
<1>1. MeetingPoint(sched, channel, ch, Reader) \/ MeetingPoint(sched, channel, ch, Writer)
  BY TtyFactsLemma DEF Agreed
<1>2. (channel[ch] = "EMPTY") = (Range(sched.waitq[ch]) = {})
  BY <1>1 DEF MeetingPoint
<1>3. sched.waitq[ch] = << >> <=> Range(sched.waitq[ch]) = {}
  BY TtyFactsLemma, PartiesLemma, NobodyWaitsLemma
<1> QED
  BY <1>2, <1>3

\* A thread that finds no partner is parked, and the kernel reschedules.
LEMMA ParkLemma ==
    ASSUME TtyInv, InUser, NEW ch \in {1, 2}, NEW side, NEW m, NEW d \in Elapsed,
           park(ch, side, m, d)
    PROVE  /\ \E s : /\ ParksAt(s, sched.current, ch) /\ s.sleepq = sched.sleepq
                     /\ Rescheduled(s, d, sched')
           /\ channel' = [channel EXCEPT ![ch] = side]
           /\ message' = [message EXCEPT ![sched.current] = m]
<1> DEFINE c == sched.current
           saved == cpu_context_save(sched, "user")
           checked == [saved EXCEPT !.ok = @ /\ (channel[ch] = "EMPTY") = (sched.waitq[ch] = << >>)]
           x == push_into(checked, c, ch)
<1>1. /\ Sound(sched) /\ Floating(sched) = {}
      /\ ch \in Queues /\ sched.current # Nobody /\ "user" \in R0Value /\ d \in Nat
  BY TtyFactsLemma, PartiesLemma, SchedAssumption DEF InUser, R0Value
<1>2. Saved(sched, "user", saved)
  BY <1>1, EntryLemma
<1>3. /\ Sound(saved) /\ Floating(saved) = {c} /\ saved.state[c] = "FLOATING"
      /\ c \in Threads /\ sched.state[c] = "RUNNING"
      /\ saved.state = [sched.state EXCEPT ![c] = "FLOATING"]
      /\ saved.sleepq = sched.sleepq /\ saved.waitq = sched.waitq
      /\ saved.current = Nobody
  BY <1>2 DEF Saved
<1>4. (channel[ch] = "EMPTY") = (sched.waitq[ch] = << >>)
  BY EmptyChannelLemma
<1>5. /\ schedule_or_exit(x, d)
      /\ channel' = [channel EXCEPT ![ch] = side]
      /\ message' = [message EXCEPT ![c] = m]
  BY DEF park
<1> HIDE DEF saved
<1>6. checked = saved
  BY <1>3, <1>4 DEF Sound, SchedState
<1> HIDE DEF checked, c
<1>7. Pushed(saved, c, ch, x)
  BY <1>1, <1>3, <1>6, PushLemma
<1> HIDE DEF x
<1>8. /\ Sound(x) /\ Floating(x) = {} /\ x.current = Nobody
      /\ x.state = [saved.state EXCEPT ![c] = "WAITING"]
      /\ x.sleepq = sched.sleepq
      /\ x.waitq = [sched.waitq EXCEPT ![ch] = Append(@, c)]
      /\ Range(x.waitq[ch]) = Range(sched.waitq[ch]) \cup {c}
  BY <1>3, <1>7 DEF Pushed
<1>9. Rescheduled(x, d, sched')
  BY <1>1, <1>5, <1>8, ScheduleOrExitLemma
<1>10. sched.waitq \in [Queues -> Seq(Threads)] /\ sched.state \in [Threads -> ThreadState]
  BY TtyFactsLemma
<1>11. x.state = [sched.state EXCEPT ![c] = "WAITING"]
  BY <1>3, <1>8, <1>10
<1>12. \A r \in Queues \ {ch} : x.waitq[r] = sched.waitq[r]
  BY <1>8, <1>10
<1>13. ParksAt(x, c, ch)
  BY <1>3, <1>8, <1>11, <1>12 DEF ParksAt
<1> QED
  BY <1>5, <1>8, <1>9, <1>13 DEF c

\* A list without repetitions of one thread alone has one element.
LEMMA AloneLemma ==
    ASSUME NEW q \in Seq(Threads), IsInjective(q), NEW t, Range(q) = {t}
    PROVE  Len(q) = 1 /\ q # << >> /\ Head(q) = t
<1>1. Len(q) \in Nat /\ DOMAIN q = 1..Len(q)
  OBVIOUS
<1>2. \A i \in 1..Len(q) : q[i] = t
  BY <1>1 DEF Range
<1>3. Len(q) # 0
  BY <1>1 DEF Range
<1>4. ~(2 <= Len(q))
  <2> SUFFICES ASSUME 2 <= Len(q) PROVE FALSE
    OBVIOUS
  <2>1. 1 \in DOMAIN q /\ 2 \in DOMAIN q
    BY <1>1
  <2>2. q[1] = q[2]
    BY <1>1, <1>2, <2>1
  <2> QED
    BY <2>1, <2>2 DEF IsInjective
<1>5. Len(q) = 1
  BY ONLY <1>1, <1>3, <1>4
<1>6. q # << >> /\ Head(q) = q[1]
  BY <1>5
<1> QED
  BY <1>2, <1>5, <1>6

\* The current thread r meets thread t, which is alone on channel ch: in s both are in
\* the kernel's hands.
Meets(s, r, t, ch) ==
    /\ Sound(s) /\ s.current = Nobody /\ Floating(s) = {r, t}
    /\ r \in Threads /\ t \in Threads /\ r # t /\ sched.state[r] = "RUNNING"
    /\ s.state = [sched.state EXCEPT ![r] = "FLOATING", ![t] = "FLOATING"]
    /\ Range(s.sleepq) \subseteq Range(sched.sleepq) /\ t \notin Range(s.sleepq)
    /\ Range(s.waitq[ch]) = {}
    /\ \A q \in Queues \ {ch} : s.waitq[q] = sched.waitq[q]

\* The first thread parked on a channel leaves it.
LEMMA PoppedLemma ==
    ASSUME TtyInv, InUser, NEW ch \in {1, 2}, NEW t, Range(sched.waitq[ch]) = {t},
           unparked(ch)
    PROVE  /\ Meets(Popped(ch), sched.current, t, ch)
           /\ Head(sched.waitq[ch]) = t
           /\ channel' = [channel EXCEPT ![ch] = "EMPTY"]
<1> DEFINE r == sched.current
           saved == cpu_context_save(sched, "user")
           checked == [saved EXCEPT !.ok = @ /\ sched.waitq[ch] # << >>]
           x == pop_from(checked, ch)
<1>1. /\ Sound(sched) /\ Floating(sched) = {}
      /\ ch \in Queues /\ sched.current # Nobody /\ "user" \in R0Value
      /\ sched.waitq \in [Queues -> Seq(Threads)]
      /\ sched.state \in [Threads -> ThreadState]
  BY TtyFactsLemma, PartiesLemma DEF InUser, R0Value
<1>2. IsInjective(sched.waitq[ch]) /\ sched.waitq[ch] \in Seq(Threads)
  BY <1>1 DEF Sound, Consistent
<1>3. Len(sched.waitq[ch]) = 1 /\ sched.waitq[ch] # << >> /\ Head(sched.waitq[ch]) = t
  BY <1>2, AloneLemma
<1>4. Saved(sched, "user", saved)
  BY <1>1, EntryLemma
<1>5. /\ Sound(saved) /\ Floating(saved) = {r}
      /\ r \in Threads /\ sched.state[r] = "RUNNING"
      /\ saved.state = [sched.state EXCEPT ![r] = "FLOATING"]
      /\ saved.sleepq = sched.sleepq /\ saved.waitq = sched.waitq
      /\ saved.current = Nobody
  BY <1>4 DEF Saved
<1>6. x = Popped(ch)
  BY DEF Popped
<1> HIDE DEF saved
<1>7. checked = saved
  BY <1>3, <1>5 DEF Sound, SchedState
<1> HIDE DEF checked
<1>8. Taken(saved, t, ch, x)
  BY <1>1, <1>3, <1>5, <1>7, TakeLemma
<1> HIDE DEF x, r
<1>9. /\ Sound(x) /\ Floating(x) = {r, t} /\ t \in Threads
      /\ x.state = [saved.state EXCEPT ![t] = "FLOATING"]
      /\ Range(x.sleepq) = Range(sched.sleepq) \ {t}
      /\ x.waitq = [sched.waitq EXCEPT ![ch] = Tail(@)]
      /\ Range(x.waitq[ch]) = Range(sched.waitq[ch]) \ {t}
      /\ x.current = Nobody
  BY <1>5, <1>8 DEF Taken
<1>10. t # r
  BY <1>1, WaiterLemma DEF r
<1>11. x.state = [sched.state EXCEPT ![r] = "FLOATING", ![t] = "FLOATING"]
  BY <1>1, <1>5, <1>9
<1>12. \A q \in Queues \ {ch} : x.waitq[q] = sched.waitq[q]
  BY <1>1, <1>9
<1>13. Meets(x, r, t, ch)
  BY <1>5, <1>9, <1>10, <1>11, <1>12 DEF Meets
<1>14. channel' = [channel EXCEPT ![ch] = "EMPTY"]
  BY <1>3 DEF unparked
<1> QED
  BY <1>3, <1>6, <1>13, <1>14 DEF r

\* The calls of the terminal are delivered: their lengths are not 0, and all memory is
\* there.
LEMMA CopyLemma ==
    ASSUME Faults = {}, NEW len, len > 0, NEW checked \in BOOLEAN
    PROVE  CopyOutcome(len, checked) = {"ok"}
  BY DEF CopyOutcome, RangeOk

\* Caller c is CALLING and listener l runs; the two were r and t before.
HandedOver(c, l, ch) ==
    /\ SchedInv'
    /\ sched'.state = [sched.state EXCEPT ![c] = "CALLING", ![l] = "RUNNING"]
    /\ Range(sched'.sleepq) \subseteq Range(sched.sleepq)
    /\ c \notin Range(sched'.sleepq) /\ l \notin Range(sched'.sleepq)
    /\ Range(sched'.waitq[ch]) = {}
    /\ \A q \in Queues \ {ch} : sched'.waitq[q] = sched.waitq[q]

\* The call has been delivered: the caller knows whether to expect a string, and the
\* listener what was sent.
Delivered(c, l, call, len) ==
    /\ ipc_caller' = [ipc_caller EXCEPT ![l] = c]
    /\ message' = [message EXCEPT
        ![c] = [call EXCEPT !.rx = CASE call.mode = "WRITE" -> FALSE
                                     [] call.mode = "READ" -> TRUE
                                     [] OTHER -> @],
        ![l] = [call EXCEPT !.role = "serve", !.len = len]]

\* call_transfer, of a read or a write between the current thread and the one that was
\* parked on the channel
LEMMA TransferLemma ==
    ASSUME TtyInv, InUser, Faults = {}, NEW ch \in {1, 2}, NEW s, NEW r, NEW t, Meets(s, r, t, ch),
           NEW c, NEW l, \/ c = r /\ l = t
                         \/ c = t /\ l = r,
           ipc_caller[l] = Nobody, NEW call, NEW buffer, NEW d,
           call.mode \in {"READ", "WRITE"},
           call.mode = "WRITE" => DeliveredLen(call, buffer) > 0,
           call_transfer(s, c, l, call, buffer, d)
    PROVE  HandedOver(c, l, ch) /\ Delivered(c, l, call, DeliveredLen(call, buffer))
<1> DEFINE checked == [s EXCEPT !.ok = /\ @
                                    /\ s.state[c] = "FLOATING"
                                    /\ s.state[l] = "FLOATING"
                                    /\ ipc_caller[l] = Nobody]
           calling == [s EXCEPT !.state[c] = "CALLING"]
           n == cpu_context_restore_and_exit(calling, l)
<1>1. /\ Sound(s) /\ s.current = Nobody /\ Floating(s) = {c, l}
      /\ c \in Threads /\ l \in Threads /\ c # l
      /\ sched.state \in [Threads -> ThreadState]
      /\ s.state[c] = "FLOATING" /\ s.state[l] = "FLOATING"
  BY TtyFactsLemma DEF Meets
<1>2. checked = s
  BY <1>1 DEF Sound, SchedState
<1> HIDE DEF checked
<1>3. ~TooBig(call, buffer)
  BY DEF TooBig
<1>4. CopiesString(call) => CopyOutcome(DeliveredLen(call, buffer), TRUE) = {"ok"}
  BY CopyLemma DEF CopiesString
<1>5. /\ sched' = cpu_context_restore_and_exit([checked EXCEPT !.state[c] = "CALLING"], l)
      /\ Delivered(c, l, call, DeliveredLen(call, buffer))
  BY <1>3, <1>4 DEF call_transfer, checked, Delivered
<1>6. sched' = n
  BY <1>2, <1>5
<1>7. Sound(calling) /\ Floating(calling) = {l} /\ calling.current = Nobody
      /\ calling.state = [s.state EXCEPT ![c] = "CALLING"]
      /\ calling.sleepq = s.sleepq /\ calling.waitq = s.waitq
  <2>1. /\ s \in SchedState /\ s.ok /\ s.state \in [Threads -> ThreadState]
    BY <1>1 DEF Sound, SchedState
  <2>2. /\ calling \in SchedState /\ calling.ok
        /\ calling.state = [s.state EXCEPT ![c] = "CALLING"]
        /\ calling.runq = s.runq /\ calling.sleepq = s.sleepq /\ calling.rem = s.rem
        /\ calling.waitq = s.waitq /\ calling.current = s.current
    BY <1>1, <2>1 DEF SchedState, ThreadState
  <2> HIDE DEF calling
  <2>3. Sound(calling)
    BY <1>1, <2>2, UnlinkedLemma
  <2>4. Floating(calling) = {l}
    BY <1>1, <2>1, <2>2 DEF Floating
  <2> QED
    BY <1>1, <2>2, <2>3, <2>4
<1> HIDE DEF calling
<1>8. calling.state[l] = "FLOATING"
  BY <1>1, <1>7 DEF Sound, SchedState
<1>9. /\ Sound(n) /\ Floating(n) = {}
      /\ n.state = [calling.state EXCEPT ![l] = "RUNNING"]
      /\ n.sleepq = calling.sleepq /\ n.waitq = calling.waitq
  <2>1. Sound(calling) /\ calling.current = Nobody /\ l \in Threads
    BY <1>1, <1>7
  <2>2. /\ Sound(n) /\ Floating(n) = Floating(calling) \ {l}
        /\ n.state = [calling.state EXCEPT ![l] = "RUNNING"]
        /\ n.sleepq = calling.sleepq /\ n.waitq = calling.waitq
    BY <1>8, <2>1, RestoreLemma
  <2> HIDE DEF n
  <2> QED
    BY <1>7, <2>2
<1> HIDE DEF n
<1>10. sched'.state = [sched.state EXCEPT ![c] = "CALLING", ![l] = "RUNNING"]
  BY <1>1, <1>6, <1>7, <1>9 DEF Meets
<1>11. SchedInv'
  BY <1>6, <1>9 DEF SchedInv
<1>12. /\ Range(sched'.sleepq) \subseteq Range(sched.sleepq)
       /\ Range(sched'.waitq[ch]) = {}
       /\ \A q \in Queues \ {ch} : sched'.waitq[q] = sched.waitq[q]
  BY <1>6, <1>7, <1>9 DEF Meets
<1>13. c \notin Range(sched'.sleepq) /\ l \notin Range(sched'.sleepq)
  BY <1>1, <1>6, <1>7, <1>9, FloatingLemma
<1> QED
  BY <1>5, <1>10, <1>11, <1>12, <1>13 DEF HandedOver

\* The call of c has been answered: c is in the kernel's hands, with v in its R0.
Answered(c, v) == [Served(sched, c) EXCEPT !.r0[c] = v]

\* IPC::respond takes the caller out of its call: its assert is passed.
LEMMA AnsweredLemma ==
    ASSUME TtyInv, NEW c \in Threads, sched.state[c] = "CALLING", NEW v \in R0Value
    PROVE  LET s == Answered(c, v)
           IN  /\ Sound(s) /\ Floating(s) = {c}
               /\ s.state = [sched.state EXCEPT ![c] = "FLOATING"]
               /\ s.sleepq = sched.sleepq /\ s.waitq = sched.waitq
               /\ s.current = sched.current
<1> DEFINE s == Answered(c, v)
<1>1. /\ Sound(sched) /\ Floating(sched) = {} /\ sched \in SchedState /\ sched.ok
      /\ sched.state \in [Threads -> ThreadState] /\ "FLOATING" \in ThreadState
      /\ sched.r0 \in [Threads -> R0Value]
  BY TtyFactsLemma DEF ThreadState, SchedState
<1> DEFINE u == Served(sched, c)
<1>2. /\ u.state = [sched.state EXCEPT ![c] = "FLOATING"]
      /\ u.runq = sched.runq /\ u.sleepq = sched.sleepq /\ u.rem = sched.rem
      /\ u.waitq = sched.waitq /\ u.current = sched.current /\ u.r0 = sched.r0
      /\ u.ok /\ u \in SchedState
  BY <1>1 DEF Served, SchedState
<1> HIDE DEF u
<1>3. Sound(u)
  BY <1>1, <1>2, UnlinkedLemma
<1>4. Floating(u) = {c}
  BY <1>1, <1>2 DEF Floating
<1>5. /\ s.state = u.state /\ s.runq = u.runq /\ s.sleepq = u.sleepq
      /\ s.rem = u.rem /\ s.waitq = u.waitq /\ s.current = u.current
      /\ s.ok /\ s \in SchedState
  BY <1>1, <1>2 DEF Answered, SchedState, u
<1> HIDE DEF s
<1>6. Sound(s) /\ Floating(s) = Floating(u)
  BY <1>3, <1>5, RegisterLemma
<1> QED
  BY <1>2, <1>4, <1>5, <1>6 DEF s

\* IPC::respond without a string: the caller is ready, and the responder goes on.
LEMMA RespondLemma ==
    ASSUME TtyInv, respond, NEW c \in Threads, c = ipc_caller[sched.current],
           sched.state[c] = "CALLING"
    PROVE  /\ SchedInv' /\ sched'.state = [sched.state EXCEPT ![c] = "READY"]
           /\ sched'.sleepq = sched.sleepq /\ sched'.waitq = sched.waitq
           /\ callEnds(sched.current, c)
<1> DEFINE s == Answered(c, "reply")
<1>1. sched' = schedule_ready(s, c) /\ callEnds(sched.current, c)
  BY DEF respond, Answered
<1>2. /\ Sound(s) /\ Floating(s) = {c}
      /\ s.state = [sched.state EXCEPT ![c] = "FLOATING"]
      /\ s.sleepq = sched.sleepq /\ s.waitq = sched.waitq
  BY AnsweredLemma DEF R0Value
<1>3. sched.state \in [Threads -> ThreadState]
  BY TtyFactsLemma
<1> HIDE DEF s
<1>4. s.state[c] = "FLOATING"
  BY <1>2, <1>3
<1>5. Readied(s, c, schedule_ready(s, c))
  BY <1>2, <1>4, ReadiedLemma
<1>6. /\ Sound(sched') /\ Floating(sched') = {}
      /\ sched'.state = [s.state EXCEPT ![c] = "READY"]
      /\ sched'.sleepq = s.sleepq /\ sched'.waitq = s.waitq
  BY <1>1, <1>2, <1>5 DEF Readied
<1>7. sched'.state = [sched.state EXCEPT ![c] = "READY"]
  BY <1>2, <1>3, <1>6
<1> QED
  BY <1>1, <1>2, <1>6, <1>7 DEF SchedInv

\* IPC::respond with a string: the caller runs, and the responder is ready.
LEMMA RespondStringLemma ==
    ASSUME TtyInv, Faults = {}, NEW len \in Nat \ {0}, NEW d, respond_string(len, d),
           NEW c \in Threads, c = ipc_caller[sched.current], sched.state[c] = "CALLING",
           NEW r, r = sched.current
    PROVE  /\ SchedInv' /\ sched'.state = [sched.state EXCEPT ![c] = "RUNNING", ![r] = "READY"]
           /\ sched'.sleepq = sched.sleepq /\ sched'.waitq = sched.waitq
           /\ callEnds(r, c)
<1> DEFINE saved == cpu_context_save(Served(sched, c), "user")
           told == [saved EXCEPT !.r0[c] = "reply", !.r0[r] = "0"]
           back == schedule_ready(told, r)
<1>1. sched' = cpu_context_restore_and_exit(back, c) /\ callEnds(r, c)
  <2>1. CopyOutcome(len, FALSE) = {"ok"}
    BY DEF CopyOutcome, RangeOk
  <2> QED
    BY <2>1 DEF respond_string
<1>2. /\ Sound(sched) /\ Floating(sched) = {} /\ sched.ok /\ sched \in SchedState
      /\ sched.state \in [Threads -> ThreadState] /\ "FLOATING" \in ThreadState
      /\ sched.current # Nobody
  BY TtyFactsLemma DEF ThreadState, respond_string, InUser
<1>3. r \in Threads /\ sched.state[r] = "RUNNING" /\ r # c
  BY <1>2, CurrentLemma
<1> DEFINE u == Served(sched, c)
<1>4. /\ u.state = [sched.state EXCEPT ![c] = "FLOATING"]
      /\ u.runq = sched.runq /\ u.sleepq = sched.sleepq /\ u.rem = sched.rem
      /\ u.waitq = sched.waitq /\ u.current = sched.current
      /\ u.ok /\ u \in SchedState
  BY <1>2 DEF Served, SchedState
<1>5. saved = cpu_context_save(u, "user")
  OBVIOUS
<1> HIDE DEF u
<1>6. Sound(u)
  BY <1>2, <1>4, UnlinkedLemma
<1>7. Floating(u) = {c}
  BY <1>2, <1>4 DEF Floating
<1>8. PutAside(u, r, "user", saved)
  <2>1. "user" \in R0Value /\ u.current # Nobody
    BY <1>2, <1>4 DEF R0Value
  <2>2. PutAside(u, u.current, "user", cpu_context_save(u, "user"))
    BY <1>6, <2>1, PutAsideLemma
  <2> QED
    BY <1>4, <1>5, <2>2
<1> HIDE DEF saved
<1>9. /\ Sound(saved) /\ Floating(saved) = {r, c} /\ saved.current = Nobody
      /\ saved.state = [u.state EXCEPT ![r] = "FLOATING"]
      /\ saved.sleepq = sched.sleepq /\ saved.waitq = sched.waitq
      /\ saved \in SchedState /\ saved.ok
      /\ saved.r0 \in [Threads -> R0Value]
  BY <1>4, <1>7, <1>8 DEF PutAside, Sound, SchedState
<1>10. /\ told.state = saved.state /\ told.runq = saved.runq /\ told.sleepq = saved.sleepq
       /\ told.rem = saved.rem /\ told.waitq = saved.waitq /\ told.current = saved.current
       /\ told.ok /\ told \in SchedState
  <2>1. "reply" \in R0Value /\ "0" \in R0Value
    BY DEF R0Value
  <2> QED
    BY <1>3, <1>9, <2>1 DEF SchedState
<1> HIDE DEF told
<1>11. Sound(told) /\ Floating(told) = {r, c}
  BY <1>9, <1>10, RegisterLemma
<1>12. told.state = [sched.state EXCEPT ![c] = "FLOATING", ![r] = "FLOATING"]
  BY <1>2, <1>3, <1>4, <1>9, <1>10
<1>13. told.state[r] = "FLOATING" /\ told.state[c] = "FLOATING"
  BY <1>2, <1>3, <1>12
<1>14. Readied(told, r, back)
  BY <1>3, <1>11, <1>13, ReadiedLemma
<1> HIDE DEF back
<1>15. /\ Sound(back) /\ Floating(back) = {c} /\ back.current = Nobody
       /\ back.state = [told.state EXCEPT ![r] = "READY"]
       /\ back.sleepq = sched.sleepq /\ back.waitq = sched.waitq
  BY <1>3, <1>9, <1>10, <1>11, <1>14 DEF Readied
<1>16. back.state[c] = "FLOATING"
  BY <1>2, <1>3, <1>12, <1>15
<1> DEFINE n == cpu_context_restore_and_exit(back, c)
<1>17. /\ Sound(n) /\ Floating(n) = Floating(back) \ {c}
       /\ n.state = [back.state EXCEPT ![c] = "RUNNING"]
       /\ n.sleepq = back.sleepq /\ n.waitq = back.waitq
  <2>1. Sound(back) /\ back.current = Nobody
    BY <1>15
  <2> QED
    BY <1>16, <2>1, RestoreLemma
<1>18. sched' = n
  BY <1>1
<1> HIDE DEF n
<1>19. n.state = [sched.state EXCEPT ![c] = "RUNNING", ![r] = "READY"]
  BY <1>2, <1>3, <1>12, <1>15, <1>17
<1>20. Floating(n) = {}
  BY <1>15, <1>17
<1> QED
  BY <1>1, <1>15, <1>17, <1>18, <1>19, <1>20 DEF SchedInv

-----------------------------------------------------------------------------
(***************************************************************************)
(* The invariant of the terminal                                           *)
(***************************************************************************)

\* The thread that has the CPU is parked nowhere and in no call.
LEMMA RunsLemma ==
    ASSUME TtyInv, InUser
    PROVE  LET t == sched.current
           IN  /\ t \in Threads /\ sched.state[t] = "RUNNING" /\ Able(sched, t)
               /\ \A q \in Queues : ~InQueue(sched, t, q)
<1>1. Sound(sched) /\ sched.current # Nobody
  BY TtyFactsLemma DEF InUser
<1> QED
  BY <1>1, CurrentLemma DEF InQueue, Able

\* Who is parked is not able to go on.
LEMMA ParkedLemma ==
    ASSUME TtyInv, NEW t, NEW q \in Queues, InQueue(sched, t, q)
    PROVE  /\ t \in Threads /\ sched.state[t] = "WAITING" /\ ~Able(sched, t)
           /\ \A r \in Queues : InQueue(sched, t, r) => r = q
<1>1. /\ t \in Threads /\ sched.state[t] = "WAITING"
      /\ \A r \in Queues : InQueue(sched, t, r) => r = q
  BY TtyFactsLemma, OnePlaceLemma
<1> QED
  BY <1>1 DEF Able

\* A server that has the CPU is about to listen, or has the client's call.
LEMMA ServerRunsLemma ==
    ASSUME TtyInv, InUser, NEW server, NEW ch \in {1, 2}, NEW asked, server = sched.current,
           ServerKeeps(sched, ipc_caller, pc, server, ch, asked)
    PROVE  IF pc[server] = "listen" THEN ipc_caller[server] = Nobody
           ELSE /\ ipc_caller[server] = Client
                /\ sched.state[Client] = "CALLING" /\ pc[Client] = asked
  BY RunsLemma, PartiesLemma DEF ServerKeeps

\* While the client can go on, no server has its call.
LEMMA ClientAbleLemma ==
    ASSUME TtyInv, Able(sched, Client), NEW server, NEW ch \in {1, 2}, NEW asked,
           ServerKeeps(sched, ipc_caller, pc, server, ch, asked)
    PROVE  /\ ipc_caller[server] = Nobody
           /\ \/ pc[server] = "listen" /\ Able(sched, server)
              \/ pc[server] \in {"poll", "respond"} /\ InQueue(sched, server, ch)
  BY DEF ServerKeeps, Able

\* Reads are served by the reader on channel 1, writes by the writer on channel 2; the
\* client's pc is `asked' while the call is made.
Pair(ch, server, asked, mode, len) ==
    \/ ch = 1 /\ server = Reader /\ asked = "write" /\ mode = "READ" /\ len = ReadLen
    \/ ch = 2 /\ server = Writer /\ asked = "read" /\ mode = "WRITE" /\ len = MaxLen

\* What a pair has agreed on.
LEMMA PairLemma ==
    ASSUME TtyInv, NEW ch, NEW server, NEW asked, NEW mode, NEW len,
           Pair(ch, server, asked, mode, len)
    PROVE  /\ ch \in {1, 2} /\ ch \in Queues /\ ch \in Channels /\ ch # Line
           /\ server \in Threads /\ server # Client
           /\ TransferMap[mode] = ch /\ mode \in TransferMode
           /\ len \in 1..MaxLen
           /\ MeetingPoint(sched, channel, ch, server)
           /\ ServerKeeps(sched, ipc_caller, pc, server, ch, asked)
<1>1. Agreed(sched, channel, ipc_caller, message, pc)
  BY TtyFactsLemma
<1>2. MaxLen \in Nat /\ MaxLen \in 1..MaxLen
  BY TtyAssumption, IpcAssumption
<1>3. TransferMap["READ"] = 1 /\ TransferMap["WRITE"] = 2 /\ ReadLen \in 1..MaxLen
  BY TtyAssumption
<1> QED
  BY <1>1, <1>2, <1>3, PartiesLemma DEF Pair, Agreed, TransferMode

\* The two pairs, the client and the sleepers make up what all agree on.
LEMMA AllAgreeLemma ==
    ASSUME NEW s, NEW chan, NEW callers, NEW msg, NEW p,
           SleepersWait(s), ClientWaits(s, msg, p),
           \A ch, server, asked, mode, len : Pair(ch, server, asked, mode, len) =>
                /\ MeetingPoint(s, chan, ch, server)
                /\ ServerKeeps(s, callers, p, server, ch, asked),
           chan[2] = "LISTENING" => msg[Writer].len = MaxLen
    PROVE  Agreed(s, chan, callers, msg, p)
<1>1. Pair(1, Reader, "write", "READ", ReadLen) /\ Pair(2, Writer, "read", "WRITE", MaxLen)
  BY DEF Pair
<1>2. /\ MeetingPoint(s, chan, 1, Reader)
      /\ ServerKeeps(s, callers, p, Reader, 1, "write")
  BY <1>1
<1>3. /\ MeetingPoint(s, chan, 2, Writer)
      /\ ServerKeeps(s, callers, p, Writer, 2, "read")
  BY <1>1
<1> QED
  BY <1>2, <1>3 DEF Agreed

\* Two pairs are the same or have nothing in common.
LEMMA OtherPairLemma ==
    ASSUME NEW ch, NEW server, NEW asked, NEW mode, NEW len,
           Pair(ch, server, asked, mode, len),
           NEW ch2, NEW server2, NEW asked2, NEW mode2, NEW len2,
           Pair(ch2, server2, asked2, mode2, len2)
    PROVE  \/ ch2 = ch /\ server2 = server /\ asked2 = asked /\ mode2 = mode /\ len2 = len
           \/ ch2 # ch /\ server2 # server /\ asked2 # asked /\ mode2 # mode
  BY PartiesLemma DEF Pair

\* All agree after the client and a server have met.
LEMMA MetLemma ==
    ASSUME TtyInv, NEW ch, NEW server, NEW asked, NEW mode, NEW len,
           Pair(ch, server, asked, mode, len),
           HandedOver(Client, server, ch), sched.state[Client] # "CALLING",
           channel' = [channel EXCEPT ![ch] = "EMPTY"],
           ipc_caller' = [ipc_caller EXCEPT ![server] = Client],
           \A t \in Threads \ {Client, server} : message'[t] = message[t] /\ pc'[t] = pc[t],
           message'[Client].role = "call", message'[Client].mode = mode,
           message'[Client].len = len, mode = "READ" => message'[Client].rx,
           pc'[server] # "listen", pc'[Client] = asked
    PROVE  Agreed(sched', channel', ipc_caller', message', pc')
<1>1. /\ TtyTypes /\ Agreed(sched, channel, ipc_caller, message, pc)
      /\ sched.state \in [Threads -> ThreadState]
  BY TtyFactsLemma
<1>2. /\ channel \in [Channels -> {"EMPTY", "LISTENING", "CALLING"}]
      /\ ipc_caller \in [Threads -> Threads \cup {Nobody}]
  BY <1>1 DEF TtyTypes
<1>3. /\ ch \in {1, 2} /\ ch \in Queues /\ ch # Line /\ ch \in Channels
      /\ server \in Threads /\ server # Client
  BY PairLemma
<1>4. /\ sched'.state[Client] = "CALLING" /\ sched'.state[server] = "RUNNING"
      /\ \A t \in Threads \ {Client, server} : sched'.state[t] = sched.state[t]
      /\ Range(sched'.sleepq) \subseteq Range(sched.sleepq)
      /\ Range(sched'.waitq[ch]) = {}
      /\ \A q \in Queues \ {ch} : sched'.waitq[q] = sched.waitq[q]
  BY <1>1, <1>3, PartiesLemma DEF HandedOver
<1>5. SleepersWait(sched')
  BY <1>1, <1>3, <1>4, PartiesLemma DEF SleepersWait, Agreed, InQueue
<1>6. ClientWaits(sched', message', pc')
  BY <1>4 DEF ClientWaits, Pair
<1>7. channel'[2] = "LISTENING" => message'[Writer].len = MaxLen
  <2>1. CASE ch = 2
    BY <1>2, <1>3, <2>1
  <2>2. CASE ch = 1
    <3>1. server = Reader /\ channel'[2] = channel[2]
      BY <1>2, <2>2 DEF Pair
    <3>2. message'[Writer] = message[Writer]
      BY <3>1, PartiesLemma
    <3> QED
      BY <1>1, <3>1, <3>2 DEF Agreed
  <2> QED
    BY <1>3, <2>1, <2>2
<1>8. ASSUME NEW ch2, NEW server2, NEW asked2, NEW mode2, NEW len2,
             Pair(ch2, server2, asked2, mode2, len2)
      PROVE  /\ MeetingPoint(sched', channel', ch2, server2)
             /\ ServerKeeps(sched', ipc_caller', pc', server2, ch2, asked2)
  <2>1. CASE ch2 = ch
    <3>1. server2 = server /\ asked2 = asked
      BY <1>8, <2>1, OtherPairLemma
    <3>2. channel'[ch] = "EMPTY" /\ ipc_caller'[server] = Client
      BY <1>2, <1>3
    <3>3. MeetingPoint(sched', channel', ch, server)
      BY <1>4, <3>2 DEF MeetingPoint
    <3>4. ServerKeeps(sched', ipc_caller', pc', server, ch, asked)
      BY <1>4, <3>2 DEF ServerKeeps, Able
    <3> QED
      BY <2>1, <3>1, <3>3, <3>4
  <2>2. CASE ch2 # ch
    <3>1. server2 # server /\ ch2 \in Queues \ {ch}
      BY <1>8, <2>2, OtherPairLemma, PairLemma
    <3>2. /\ MeetingPoint(sched, channel, ch2, server2)
          /\ ServerKeeps(sched, ipc_caller, pc, server2, ch2, asked2)
          /\ server2 \in Threads \ {Client, server} /\ ch2 \in Channels
      BY <1>8, <3>1, PairLemma
    <3>3. /\ channel'[ch2] = channel[ch2] /\ ipc_caller'[server2] = ipc_caller[server2]
          /\ pc'[server2] = pc[server2]
          /\ sched'.waitq[ch2] = sched.waitq[ch2] /\ sched'.state[server2] = sched.state[server2]
      BY <1>2, <1>4, <2>2, <3>1, <3>2
    <3>4. MeetingPoint(sched', channel', ch2, server2)
      BY <3>2, <3>3 DEF MeetingPoint
    <3>5. ServerKeeps(sched', ipc_caller', pc', server2, ch2, asked2)
      BY <3>2, <3>3 DEF ServerKeeps, Able, InQueue
    <3> QED
      BY <3>4, <3>5
  <2> QED
    BY <2>1, <2>2
<1> QED
  BY <1>5, <1>6, <1>7, <1>8, AllAgreeLemma

\* A thread that parks changes its own place only.
LEMMA ParksLemma ==
    ASSUME TtyInv, InUser, NEW s, NEW q \in Queues, ParksAt(s, sched.current, q)
    PROVE  /\ \A t \in Threads \ {sched.current} : s.state[t] = sched.state[t]
           /\ s.state[sched.current] = "WAITING"
           /\ InQueue(s, sched.current, q)
           /\ \A t, r : InQueue(sched, t, r) /\ r \in Queues => InQueue(s, t, r)
           /\ \A t \in Threads \ {sched.current} : Able(s, t) <=> Able(sched, t)
<1>1. sched.state \in [Threads -> ThreadState] /\ sched.current \in Threads
  BY TtyFactsLemma, RunsLemma
<1>2. /\ s.state = [sched.state EXCEPT ![sched.current] = "WAITING"]
      /\ Range(s.waitq[q]) = Range(sched.waitq[q]) \cup {sched.current}
      /\ \A r \in Queues \ {q} : s.waitq[r] = sched.waitq[r]
  BY DEF ParksAt
<1>3. /\ \A t \in Threads \ {sched.current} : s.state[t] = sched.state[t]
      /\ s.state[sched.current] = "WAITING"
  BY <1>1, <1>2
<1>4. \A t, r : InQueue(sched, t, r) /\ r \in Queues => InQueue(s, t, r)
  BY <1>2 DEF InQueue
<1> QED
  BY <1>2, <1>3, <1>4 DEF InQueue, Able

\* A call for which no server listens parks the client.
LEMMA ClientParksLemma ==
    ASSUME TtyInv, InUser, sched.current = Client,
           NEW ch, NEW server, NEW asked, NEW mode, NEW len,
           Pair(ch, server, asked, mode, len), channel[ch] \in {"EMPTY", "CALLING"},
           NEW s, ParksAt(s, Client, ch), s.sleepq = sched.sleepq,
           NEW msg, NEW p, \A t \in Threads \ {Client} : msg[t] = message[t] /\ p[t] = pc[t],
           msg[Client].role = "call", msg[Client].mode = mode, msg[Client].len = len,
           p[Client] = asked
    PROVE  Agreed(s, [channel EXCEPT ![ch] = "CALLING"], ipc_caller, msg, p)
<1> DEFINE chan == [channel EXCEPT ![ch] = "CALLING"]
<1>1. /\ channel \in [Channels -> {"EMPTY", "LISTENING", "CALLING"}]
      /\ Agreed(sched, channel, ipc_caller, message, pc)
  BY TtyFactsLemma DEF TtyTypes
<1>2. /\ ch \in {1, 2} /\ ch \in Queues /\ ch # Line /\ ch \in Channels
      /\ server \in Threads /\ server # Client
      /\ MeetingPoint(sched, channel, ch, server)
  BY PairLemma
<1>3. /\ \A t \in Threads \ {Client} : s.state[t] = sched.state[t]
      /\ InQueue(s, Client, ch)
      /\ \A t, r : InQueue(sched, t, r) /\ r \in Queues => InQueue(s, t, r)
      /\ \A t \in Threads \ {Client} : Able(s, t) <=> Able(sched, t)
  BY <1>2, ParksLemma
<1>4. /\ Range(s.waitq[ch]) = Range(sched.waitq[ch]) \cup {Client}
      /\ \A q \in Queues \ {ch} : s.waitq[q] = sched.waitq[q]
  BY DEF ParksAt
<1>5. Able(sched, Client) /\ ~InQueue(sched, Client, ch)
  BY <1>2, RunsLemma
<1>6. chan[ch] = "CALLING" /\ \A c \in Channels \ {ch} : chan[c] = channel[c]
  BY <1>1, <1>2
<1> HIDE DEF chan
<1>7. SleepersWait(s)
  BY <1>1, <1>3, PartiesLemma DEF SleepersWait, Agreed
<1>8. ClientWaits(s, msg, p)
  BY <1>3 DEF ClientWaits, Pair
<1>9. chan[2] = "LISTENING" => msg[Writer].len = MaxLen
  BY <1>1, <1>2, <1>6, PartiesLemma DEF Agreed
<1>10. ASSUME NEW ch2, NEW server2, NEW asked2, NEW mode2, NEW len2,
              Pair(ch2, server2, asked2, mode2, len2)
       PROVE  /\ MeetingPoint(s, chan, ch2, server2)
              /\ ServerKeeps(s, ipc_caller, p, server2, ch2, asked2)
  <2>1. /\ ch2 \in {1, 2} /\ ch2 \in Queues /\ ch2 \in Channels
        /\ server2 \in Threads /\ server2 # Client
        /\ MeetingPoint(sched, channel, ch2, server2)
        /\ ServerKeeps(sched, ipc_caller, pc, server2, ch2, asked2)
    BY <1>10, PairLemma
  <2>2. MeetingPoint(s, chan, ch2, server2)
    <3>1. CASE ch2 = ch
      BY <1>2, <1>4, <1>5, <1>6, <3>1 DEF MeetingPoint, InQueue
    <3>2. CASE ch2 # ch
      <4>1. s.waitq[ch2] = sched.waitq[ch2] /\ chan[ch2] = channel[ch2]
        BY <1>4, <1>6, <2>1, <3>2
      <4> QED
        BY <2>1, <4>1 DEF MeetingPoint
    <3> QED
      BY <3>1, <3>2
  <2>3. /\ ipc_caller[server2] = Nobody
        /\ \/ pc[server2] = "listen" /\ Able(sched, server2)
           \/ pc[server2] \in {"poll", "respond"} /\ InQueue(sched, server2, ch2)
    BY <1>5, <2>1, ClientAbleLemma
  <2>4. ServerKeeps(s, ipc_caller, p, server2, ch2, asked2)
    BY <1>3, <2>1, <2>3 DEF ServerKeeps
  <2> QED
    BY <2>2, <2>4
<1>11. Agreed(s, chan, ipc_caller, msg, p)
  BY <1>7, <1>8, <1>9, <1>10, AllAgreeLemma
<1> QED
  BY <1>11 DEF chan

\* A server for which no client waits is parked.
LEMMA ServerParksLemma ==
    ASSUME TtyInv, InUser,
           NEW ch, NEW server, NEW asked, NEW mode, NEW len,
           Pair(ch, server, asked, mode, len), channel[ch] \in {"EMPTY", "LISTENING"},
           sched.current = server, pc[server] = "listen",
           NEW s, ParksAt(s, server, ch), s.sleepq = sched.sleepq,
           NEW msg, NEW p, \A t \in Threads \ {server} : msg[t] = message[t] /\ p[t] = pc[t],
           ch = 2 => msg[server].len = MaxLen, p[server] \in {"poll", "respond"}
    PROVE  Agreed(s, [channel EXCEPT ![ch] = "LISTENING"], ipc_caller, msg, p)
<1> DEFINE chan == [channel EXCEPT ![ch] = "LISTENING"]
<1>1. /\ channel \in [Channels -> {"EMPTY", "LISTENING", "CALLING"}]
      /\ Agreed(sched, channel, ipc_caller, message, pc)
  BY TtyFactsLemma DEF TtyTypes
<1>2. /\ ch \in {1, 2} /\ ch \in Queues /\ ch # Line /\ ch \in Channels
      /\ server \in Threads /\ server # Client
      /\ MeetingPoint(sched, channel, ch, server)
      /\ ServerKeeps(sched, ipc_caller, pc, server, ch, asked)
  BY PairLemma
<1>3. /\ \A t \in Threads \ {server} : s.state[t] = sched.state[t]
      /\ InQueue(s, server, ch)
      /\ \A t, r : InQueue(sched, t, r) /\ r \in Queues => InQueue(s, t, r)
      /\ \A t \in Threads \ {server} : Able(s, t) <=> Able(sched, t)
  BY <1>2, ParksLemma
<1>4. /\ Range(s.waitq[ch]) = Range(sched.waitq[ch]) \cup {server}
      /\ \A q \in Queues \ {ch} : s.waitq[q] = sched.waitq[q]
  BY DEF ParksAt
<1>5. ~InQueue(sched, server, ch) /\ ipc_caller[server] = Nobody
  BY <1>2, RunsLemma, ServerRunsLemma
<1>6. chan[ch] = "LISTENING" /\ \A c \in Channels \ {ch} : chan[c] = channel[c]
  BY <1>1, <1>2
<1> HIDE DEF chan
<1>7. SleepersWait(s)
  BY <1>1, <1>3, PartiesLemma DEF SleepersWait, Agreed
<1>8. ClientWaits(s, msg, p)
  BY <1>1, <1>2, <1>3, PartiesLemma DEF ClientWaits, Agreed
<1>9. chan[2] = "LISTENING" => msg[Writer].len = MaxLen
  <2>1. CASE ch = 2
    BY <2>1, PartiesLemma DEF Pair
  <2>2. CASE ch = 1
    <3>1. Writer \in Threads \ {server} /\ chan[2] = channel[2]
      BY <1>6, <2>2, PartiesLemma DEF Pair
    <3> QED
      BY <1>1, <3>1 DEF Agreed
  <2> QED
    BY <1>2, <2>1, <2>2
<1>10. ASSUME NEW ch2, NEW server2, NEW asked2, NEW mode2, NEW len2,
              Pair(ch2, server2, asked2, mode2, len2)
       PROVE  /\ MeetingPoint(s, chan, ch2, server2)
              /\ ServerKeeps(s, ipc_caller, p, server2, ch2, asked2)
  <2>1. /\ ch2 \in {1, 2} /\ ch2 \in Queues /\ ch2 \in Channels
        /\ server2 \in Threads /\ server2 # Client
        /\ MeetingPoint(sched, channel, ch2, server2)
        /\ ServerKeeps(sched, ipc_caller, pc, server2, ch2, asked2)
    BY <1>10, PairLemma
  <2>2. CASE ch2 = ch
    <3>1. server2 = server /\ asked2 = asked
      BY <1>10, <2>2, OtherPairLemma
    <3>2. MeetingPoint(s, chan, ch, server)
      BY <1>2, <1>4, <1>5, <1>6 DEF MeetingPoint, InQueue
    <3>3. ServerKeeps(s, ipc_caller, p, server, ch, asked)
      BY <1>3, <1>5 DEF ServerKeeps
    <3> QED
      BY <2>2, <3>1, <3>2, <3>3
  <2>3. CASE ch2 # ch
    <3>1. server2 # server
      BY <1>10, <2>3, OtherPairLemma
    <3>2. s.waitq[ch2] = sched.waitq[ch2] /\ chan[ch2] = channel[ch2]
      BY <1>4, <1>6, <2>1, <2>3
    <3>3. MeetingPoint(s, chan, ch2, server2)
      BY <2>1, <3>2 DEF MeetingPoint
    <3>4. /\ p[server2] = pc[server2] /\ p[Client] = pc[Client]
          /\ s.state[Client] = sched.state[Client]
      BY <1>2, <1>3, <2>1, <3>1, PartiesLemma
    <3>5. ServerKeeps(s, ipc_caller, p, server2, ch2, asked2)
      BY <1>3, <2>1, <3>1, <3>4, PartiesLemma DEF ServerKeeps
    <3> QED
      BY <3>3, <3>5
  <2> QED
    BY <2>2, <2>3
<1>11. Agreed(s, chan, ipc_caller, msg, p)
  BY <1>7, <1>8, <1>9, <1>10, AllAgreeLemma
<1> QED
  BY <1>11 DEF chan

-----------------------------------------------------------------------------
\* The calls of the client.
LEMMA ClientCallLemma ==
    ASSUME TtyInv, Faults = {},
           NEW ch, NEW server, NEW asked, NEW mode, NEW len,
           Pair(ch, server, asked, mode, len),
           NEW op, op = IF mode = "READ" THEN "read" ELSE "write",
           NEW from, At(Client, from), NEW d \in Elapsed, ipc_call(rw(op, len), d),
           goto(Client, asked), UNCHANGED <<irq, rx, got>>
    PROVE  TtyInv'
<1> DEFINE call == CallMessage(rw(op, len))
<1>1. /\ TtyTypes /\ Agreed(sched, channel, ipc_caller, message, pc) /\ closed_call = FALSE
      /\ InUser /\ sched.current = Client
  BY TtyFactsLemma DEF At
<1>2. /\ channel \in [Channels -> {"EMPTY", "LISTENING", "CALLING"}]
      /\ ipc_caller \in [Threads -> Threads \cup {Nobody}]
      /\ message \in [Threads -> Message]
      /\ pc \in [Threads -> {"write", "read", "listen", "respond", "poll", "wait"}]
  BY <1>1 DEF TtyTypes
<1>3. /\ ch \in {1, 2} /\ ch \in Queues /\ ch \in Channels
      /\ server \in Threads /\ server # Client /\ Client \in Threads
      /\ TransferMap[mode] = ch /\ mode \in TransferMode
      /\ len \in 1..MaxLen /\ MaxLen \in Nat
      /\ MeetingPoint(sched, channel, ch, server)
      /\ ServerKeeps(sched, ipc_caller, pc, server, ch, asked)
  BY PairLemma, PartiesLemma, IpcAssumption
<1>4. mode \in {"READ", "WRITE"} /\ (mode = "WRITE" => ch = 2 /\ server = Writer /\ len = MaxLen)
      /\ asked \in {"read", "write"}
  BY DEF Pair
<1>5. /\ call.role = "call" /\ call.mode = mode /\ call.len = len /\ call \in Message
      /\ DOMAIN call = {"role", "mode", "len", "rx", "frag"}
  BY <1>3, <1>4 DEF CallMessage, call_transfer_mode, rw, Message
<1> HIDE DEF call
<1>6. Able(sched, Client) /\ sched.state[Client] # "CALLING"
  BY <1>1, RunsLemma
<1>7. /\ pc' = [pc EXCEPT ![Client] = asked] /\ pc'[Client] = asked
      /\ \A t \in Threads \ {Client} : pc'[t] = pc[t]
      /\ pc' \in [Threads -> {"write", "read", "listen", "respond", "poll", "wait"}]
  BY <1>2, <1>3, <1>4 DEF goto
<1>8. /\ closed_call' = FALSE
      /\ \/ /\ channel[ch] \in {"EMPTY", "CALLING"}
            /\ park(ch, "CALLING", call, d)
            /\ UNCHANGED ipc_caller
         \/ /\ channel[ch] = "LISTENING"
            /\ unparked(ch)
            /\ LET l == Head(sched.waitq[ch])
               IN  call_transfer(Popped(ch), sched.current, l, call, message[l].len, d)
  BY <1>1, <1>3, <1>5 DEF ipc_call, call
<1>9. CASE /\ channel[ch] \in {"EMPTY", "CALLING"}
           /\ park(ch, "CALLING", call, d)
           /\ UNCHANGED ipc_caller
  <2>1. PICK s : /\ ParksAt(s, Client, ch) /\ s.sleepq = sched.sleepq
                 /\ Rescheduled(s, d, sched')
    BY <1>1, <1>3, <1>9, ParkLemma
  <2>2. /\ channel' = [channel EXCEPT ![ch] = "CALLING"]
        /\ message' = [message EXCEPT ![Client] = call]
    BY <1>1, <1>3, <1>9, ParkLemma
  <2>3. /\ \A t \in Threads \ {Client} : message'[t] = message[t]
        /\ message'[Client] = call
        /\ message' \in [Threads -> Message]
        /\ channel' \in [Channels -> {"EMPTY", "LISTENING", "CALLING"}]
    BY <1>2, <1>3, <1>5, <2>2
  <2>4. /\ \A t \in Threads \ {Client} : message'[t] = message[t] /\ pc'[t] = pc[t]
        /\ message'[Client].role = "call" /\ message'[Client].mode = mode
        /\ message'[Client].len = len
    BY <1>5, <1>7, <2>3
  <2>5. channel[ch] \in {"EMPTY", "CALLING"}
    BY <1>9
  <2>6. Agreed(s, [channel EXCEPT ![ch] = "CALLING"], ipc_caller, message', pc')
    <3>1. TtyInv /\ InUser /\ sched.current = Client /\ pc'[Client] = asked
      BY <1>1, <1>7
    <3>2. ParksAt(s, Client, ch) /\ s.sleepq = sched.sleepq
      BY <2>1
    <3>3. Pair(ch, server, asked, mode, len)
      OBVIOUS
    <3> QED
      BY ONLY <2>4, <2>5, <3>1, <3>2, <3>3, ClientParksLemma
  <2>7. Sound(s)
    BY <2>1 DEF ParksAt
  <2>8. Agreed(sched', channel', ipc_caller', message', pc')
    BY <1>9, <2>1, <2>2, <2>6, <2>7, AgreedLemma
  <2>9. SchedInv'
    BY <2>1, RescheduledInvLemma
  <2> QED
    BY <1>1, <1>7, <1>8, <1>9, <2>3, <2>8, <2>9 DEF TtyInv, TtyTypes
<1>10. CASE /\ channel[ch] = "LISTENING"
            /\ unparked(ch)
            /\ LET l == Head(sched.waitq[ch])
               IN  call_transfer(Popped(ch), sched.current, l, call, message[l].len, d)
  <2>1. Range(sched.waitq[ch]) = {server}
    BY <1>3, <1>10 DEF MeetingPoint
  <2>2. /\ Meets(Popped(ch), Client, server, ch)
        /\ Head(sched.waitq[ch]) = server
        /\ channel' = [channel EXCEPT ![ch] = "EMPTY"]
    BY <1>1, <1>3, <1>10, <2>1, PoppedLemma
  <2>3. /\ ipc_caller[server] = Nobody
        /\ pc[server] # "listen"
    <3>1. InQueue(sched, server, ch)
      BY <2>1 DEF InQueue
    <3>2. ~Able(sched, server)
      BY <1>3, <3>1, ParkedLemma
    <3> QED
      BY <1>3, <1>6, <3>2, ClientAbleLemma
  <2> DEFINE buffer == message[server].len
             sent == DeliveredLen(call, buffer)
  <2>4. sent \in 0..MaxLen /\ (call.mode = "WRITE" => sent > 0)
    <3>1. buffer \in 0..MaxLen
      BY <1>2, <1>3 DEF Message
    <3>2. mode = "WRITE" => buffer = MaxLen
      BY <1>1, <1>4, <1>10 DEF Agreed
    <3> HIDE DEF buffer
    <3> QED
      BY <1>3, <1>4, <1>5, <3>1, <3>2 DEF DeliveredLen, CopiesString, Shorter
  <2> HIDE DEF buffer
  <2>5. call_transfer(Popped(ch), Client, server, call, buffer, d)
    BY <1>1, <1>10, <2>2 DEF buffer
  <2>6. /\ HandedOver(Client, server, ch)
        /\ Delivered(Client, server, call, sent)
    <3>1. call.mode \in {"READ", "WRITE"}
      BY <1>4, <1>5
    <3>2. InUser /\ ch \in {1, 2}
      BY <1>1, <1>3
    <3>3. Meets(Popped(ch), Client, server, ch) /\ ipc_caller[server] = Nobody
      BY <2>2, <2>3
    <3>4. call.mode = "WRITE" => DeliveredLen(call, buffer) > 0
      BY <2>4
    <3>5. TtyInv /\ Faults = {}
      OBVIOUS
    <3> QED
      BY ONLY <2>5, <3>1, <3>2, <3>3, <3>4, <3>5, TransferLemma
  <2> HIDE DEF sent
  <2> DEFINE kept == [call EXCEPT !.rx = CASE call.mode = "WRITE" -> FALSE
                                           [] call.mode = "READ" -> TRUE
                                           [] OTHER -> @]
             served == [call EXCEPT !.role = "serve", !.len = sent]
  <2>7. /\ kept \in Message /\ served \in Message
        /\ kept.role = "call" /\ kept.mode = mode /\ kept.len = len
        /\ mode = "READ" => kept.rx
    BY <1>4, <1>5, <2>4 DEF Message
  <2>8. /\ message' = [message EXCEPT ![Client] = kept, ![server] = served]
        /\ ipc_caller' = [ipc_caller EXCEPT ![server] = Client]
    BY <2>6 DEF Delivered
  <2> HIDE DEF kept, served
  <2>9. /\ message'[Client] = kept
        /\ \A t \in Threads \ {Client, server} : message'[t] = message[t]
        /\ message' \in [Threads -> Message]
    BY <1>2, <1>3, <2>7, <2>8
  <2>10. pc'[server] # "listen" /\ pc'[Client] = asked
    BY <1>3, <1>7, <2>3
  <2>11. \A t \in Threads \ {Client, server} : message'[t] = message[t] /\ pc'[t] = pc[t]
    BY <1>7, <2>9
  <2>12. /\ message'[Client].role = "call" /\ message'[Client].mode = mode
         /\ message'[Client].len = len
    BY <2>7, <2>9
  <2>13. mode = "READ" => message'[Client].rx
    BY <2>7, <2>9
  <2>14. Agreed(sched', channel', ipc_caller', message', pc')
    BY <1>6, <2>2, <2>6, <2>8, <2>10, <2>11, <2>12, <2>13, MetLemma
  <2>15. /\ SchedInv'
         /\ ipc_caller' \in [Threads -> Threads \cup {Nobody}]
         /\ channel' \in [Channels -> {"EMPTY", "LISTENING", "CALLING"}]
    BY <1>2, <1>3, <2>2, <2>6, <2>8 DEF HandedOver
  <2> QED
    BY <1>1, <1>7, <1>8, <2>9, <2>14, <2>15 DEF TtyInv, TtyTypes
<1> QED
  BY <1>8, <1>9, <1>10

\* A client parked on a channel has the message of its call in its registers.
LEMMA ClientParkedLemma ==
    ASSUME TtyInv, NEW ch, NEW server, NEW asked, NEW mode, NEW len,
           Pair(ch, server, asked, mode, len), InQueue(sched, Client, ch)
    PROVE  /\ pc[Client] = asked /\ sched.state[Client] = "WAITING"
           /\ message[Client].role = "call" /\ message[Client].mode = mode
           /\ message[Client].len = len
<1>1. ch \in Queues /\ ClientWaits(sched, message, pc)
  BY PairLemma, TtyFactsLemma DEF Agreed
<1>2. /\ sched.state[Client] = "WAITING" /\ ~Able(sched, Client)
      /\ \A r \in Queues : InQueue(sched, Client, r) => r = ch
  BY <1>1, ParkedLemma
<1> QED
  BY <1>1, <1>2, PartiesLemma DEF ClientWaits, Pair

\* The servers' listening.
LEMMA ServerListenLemma ==
    ASSUME TtyInv, Faults = {},
           NEW ch, NEW server, NEW asked, NEW mode, NEW len,
           Pair(ch, server, asked, mode, len),
           NEW next \in {"poll", "respond"}, At(server, "listen"),
           NEW buffer \in 0..MaxLen, ch = 2 => buffer = MaxLen,
           NEW d \in Elapsed, listen(ch, buffer, d), goto(server, next),
           UNCHANGED <<irq, rx>>, got' \in 0..ReadLen
    PROVE  TtyInv'
<1> DEFINE m == [NoMessage EXCEPT !.role = "listen", !.len = buffer]
<1>1. /\ TtyTypes /\ Agreed(sched, channel, ipc_caller, message, pc) /\ closed_call = FALSE
      /\ InUser /\ sched.current = server /\ pc[server] = "listen"
  BY TtyFactsLemma DEF At
<1>2. /\ channel \in [Channels -> {"EMPTY", "LISTENING", "CALLING"}]
      /\ ipc_caller \in [Threads -> Threads \cup {Nobody}]
      /\ message \in [Threads -> Message]
      /\ pc \in [Threads -> {"write", "read", "listen", "respond", "poll", "wait"}]
  BY <1>1 DEF TtyTypes
<1>3. /\ ch \in {1, 2} /\ ch \in Queues /\ ch \in Channels
      /\ server \in Threads /\ server # Client /\ Client \in Threads
      /\ MaxLen \in Nat
      /\ MeetingPoint(sched, channel, ch, server)
      /\ ServerKeeps(sched, ipc_caller, pc, server, ch, asked)
  BY PairLemma, PartiesLemma, IpcAssumption
<1>4. m \in Message /\ m.len = buffer
  BY DEF NoMessage, Message, TransferMode
<1> HIDE DEF m
<1>5. ipc_caller[server] = Nobody
  BY <1>1, <1>3, ServerRunsLemma
<1>6. /\ pc' = [pc EXCEPT ![server] = next] /\ pc'[server] = next /\ pc'[Client] = pc[Client]
      /\ \A t \in Threads \ {server} : pc'[t] = pc[t]
      /\ pc' \in [Threads -> {"write", "read", "listen", "respond", "poll", "wait"}]
  BY <1>2, <1>3 DEF goto
<1>7. /\ closed_call' = FALSE
      /\ \/ /\ channel[ch] \in {"EMPTY", "LISTENING"}
            /\ park(ch, "LISTENING", m, d)
            /\ UNCHANGED ipc_caller
         \/ /\ channel[ch] = "CALLING"
            /\ unparked(ch)
            /\ LET c == Head(sched.waitq[ch])
               IN  call_transfer(Popped(ch), c, sched.current, message[c], buffer, d)
  BY <1>1 DEF listen, m
<1>8. CASE /\ channel[ch] \in {"EMPTY", "LISTENING"}
           /\ park(ch, "LISTENING", m, d)
           /\ UNCHANGED ipc_caller
  <2>1. PICK s : /\ ParksAt(s, server, ch) /\ s.sleepq = sched.sleepq
                 /\ Rescheduled(s, d, sched')
    BY <1>1, <1>3, <1>8, ParkLemma
  <2>2. /\ channel' = [channel EXCEPT ![ch] = "LISTENING"]
        /\ message' = [message EXCEPT ![server] = m]
    BY <1>1, <1>3, <1>8, ParkLemma
  <2>3. /\ message'[server].len = buffer
        /\ message' \in [Threads -> Message]
        /\ channel' \in [Channels -> {"EMPTY", "LISTENING", "CALLING"}]
    BY <1>2, <1>3, <1>4, <2>2
  <2>4. \A t \in Threads \ {server} : message'[t] = message[t] /\ pc'[t] = pc[t]
    BY <1>2, <1>6, <2>2
  <2>5. /\ channel[ch] \in {"EMPTY", "LISTENING"} /\ pc'[server] \in {"poll", "respond"}
        /\ ch = 2 => message'[server].len = MaxLen
    BY <1>6, <1>8, <2>3
  <2>6. Agreed(s, [channel EXCEPT ![ch] = "LISTENING"], ipc_caller, message', pc')
    BY <1>1, <2>1, <2>4, <2>5, ServerParksLemma
  <2>7. Sound(s)
    BY <2>1 DEF ParksAt
  <2>8. Agreed(sched', channel', ipc_caller', message', pc')
    BY <1>8, <2>1, <2>2, <2>6, <2>7, AgreedLemma
  <2>9. SchedInv'
    BY <2>1, RescheduledInvLemma
  <2> QED
    BY <1>1, <1>6, <1>7, <1>8, <2>3, <2>8, <2>9 DEF TtyInv, TtyTypes
<1>9. CASE /\ channel[ch] = "CALLING"
           /\ unparked(ch)
           /\ LET c == Head(sched.waitq[ch])
              IN  call_transfer(Popped(ch), c, sched.current, message[c], buffer, d)
  <2> DEFINE call == message[Client]
             sent == DeliveredLen(call, buffer)
             kept == [call EXCEPT !.rx = CASE call.mode = "WRITE" -> FALSE
                                           [] call.mode = "READ" -> TRUE
                                           [] OTHER -> @]
             served == [call EXCEPT !.role = "serve", !.len = sent]
  <2>1. Range(sched.waitq[ch]) = {Client}
    BY <1>3, <1>9 DEF MeetingPoint
  <2>2. /\ Meets(Popped(ch), server, Client, ch)
        /\ Head(sched.waitq[ch]) = Client
        /\ channel' = [channel EXCEPT ![ch] = "EMPTY"]
    BY <1>1, <1>3, <1>9, <2>1, PoppedLemma
  <2>3. /\ pc[Client] = asked /\ sched.state[Client] # "CALLING"
        /\ call.role = "call" /\ call.mode = mode /\ call.len = len
    <3>1. InQueue(sched, Client, ch)
      BY <2>1 DEF InQueue
    <3> QED
      BY <3>1, ClientParkedLemma
  <2>4. /\ mode \in {"READ", "WRITE"} /\ (mode = "WRITE" => buffer = MaxLen)
        /\ len \in 1..MaxLen /\ call \in Message
    BY <1>2, <1>3, PairLemma DEF Pair
  <2> HIDE DEF call
  <2>5. sent \in 0..MaxLen /\ (call.mode = "WRITE" => sent > 0)
    BY <1>3, <2>3, <2>4 DEF DeliveredLen, CopiesString, Shorter
  <2>6. call_transfer(Popped(ch), Client, server, call, buffer, d)
    BY <1>1, <1>9, <2>2 DEF call
  <2>7. HandedOver(Client, server, ch) /\ Delivered(Client, server, call, sent)
    <3>1. call.mode \in {"READ", "WRITE"}
      BY <2>3, <2>4
    <3>2. InUser /\ ch \in {1, 2}
      BY <1>1, <1>3
    <3>3. call.mode = "WRITE" => DeliveredLen(call, buffer) > 0
      BY <2>5
    <3> QED
      BY <1>5, <2>2, <2>6, <3>1, <3>2, <3>3, TransferLemma
  <2> HIDE DEF sent
  <2>8. /\ kept \in Message /\ served \in Message
        /\ kept.role = "call" /\ kept.mode = mode /\ kept.len = len
        /\ mode = "READ" => kept.rx
    BY <2>3, <2>4, <2>5 DEF Message
  <2>9. /\ message' = [message EXCEPT ![Client] = kept, ![server] = served]
        /\ ipc_caller' = [ipc_caller EXCEPT ![server] = Client]
    BY <2>7 DEF Delivered
  <2> HIDE DEF kept, served
  <2>10. /\ message'[Client] = kept
         /\ \A t \in Threads \ {Client, server} : message'[t] = message[t]
         /\ message' \in [Threads -> Message]
    BY <1>2, <1>3, <2>8, <2>9
  <2>11. pc'[server] # "listen" /\ pc'[Client] = asked
    BY <1>6, <2>3
  <2>12. \A t \in Threads \ {Client, server} : message'[t] = message[t] /\ pc'[t] = pc[t]
    BY <1>6, <2>10
  <2>13. /\ message'[Client].role = "call" /\ message'[Client].mode = mode
         /\ message'[Client].len = len
    BY <2>8, <2>10
  <2>14. mode = "READ" => message'[Client].rx
    BY <2>8, <2>10
  <2>15. Agreed(sched', channel', ipc_caller', message', pc')
    BY <2>2, <2>3, <2>7, <2>9, <2>11, <2>12, <2>13, <2>14, MetLemma
  <2>16. /\ SchedInv'
         /\ ipc_caller' \in [Threads -> Threads \cup {Nobody}]
         /\ channel' \in [Channels -> {"EMPTY", "LISTENING", "CALLING"}]
    BY <1>2, <1>3, <2>2, <2>7, <2>9 DEF HandedOver
  <2> QED
    BY <1>1, <1>6, <1>7, <2>10, <2>15, <2>16 DEF TtyInv, TtyTypes
<1> QED
  BY <1>7, <1>8, <1>9

\* All agree when a server has responded: the client goes on and the server listens next.
LEMMA CallAnsweredLemma ==
    ASSUME TtyInv, InUser,
           NEW ch, NEW server, NEW asked, NEW mode, NEW len,
           Pair(ch, server, asked, mode, len),
           sched.current = server, pc[server] # "listen",
           SchedInv', Able(sched', Client), Able(sched', server),
           \A t \in Threads \ {Client, server} : sched'.state[t] = sched.state[t],
           sched'.sleepq = sched.sleepq, sched'.waitq = sched.waitq,
           callEnds(server, Client), goto(server, "listen"), UNCHANGED <<irq, rx, got>>
    PROVE  TtyInv'
<1>1. TtyTypes /\ Agreed(sched, channel, ipc_caller, message, pc) /\ closed_call = FALSE
  BY TtyFactsLemma
<1>2. /\ ipc_caller \in [Threads -> Threads \cup {Nobody}]
      /\ message \in [Threads -> Message]
      /\ pc \in [Threads -> {"write", "read", "listen", "respond", "poll", "wait"}]
  BY <1>1 DEF TtyTypes
<1>3. /\ ch \in {1, 2} /\ ch \in Queues /\ ch \in Channels
      /\ server \in Threads /\ server # Client /\ Client \in Threads
      /\ ServerKeeps(sched, ipc_caller, pc, server, ch, asked)
  BY PairLemma, PartiesLemma
<1>4. /\ ipc_caller[server] = Client
      /\ sched.state[Client] = "CALLING" /\ pc[Client] = asked
  BY <1>3, ServerRunsLemma
<1>5. /\ pc' = [pc EXCEPT ![server] = "listen"]
      /\ pc'[server] = "listen" /\ \A t \in Threads \ {server} : pc'[t] = pc[t]
      /\ pc' \in [Threads -> {"write", "read", "listen", "respond", "poll", "wait"}]
  BY <1>2, <1>3 DEF goto
<1>6. NoMessage \in Message /\ Nobody \in Threads \cup {Nobody}
  BY IpcAssumption DEF NoMessage, Message, TransferMode
<1>7. /\ ipc_caller' \in [Threads -> Threads \cup {Nobody}]
      /\ ipc_caller'[server] = Nobody
      /\ \A t \in Threads \ {server} : ipc_caller'[t] = ipc_caller[t]
      /\ message' \in [Threads -> Message]
      /\ \A t \in Threads \ {server, Client} : message'[t] = message[t]
      /\ channel' = channel /\ closed_call' = closed_call
  BY <1>2, <1>3, <1>6 DEF callEnds
<1>8. SleepersWait(sched') /\ ClientWaits(sched', message', pc')
  BY <1>1 DEF SleepersWait, InQueue, ClientWaits, Agreed
<1>9. channel'[2] = "LISTENING" => message'[Writer].len = MaxLen
  <2>1. CASE server = Writer
    <3>1. ~InQueue(sched, Writer, 2)
      BY <2>1, RunsLemma, PartiesLemma
    <3>2. channel[2] # "LISTENING"
      BY <1>1, <3>1 DEF Agreed, MeetingPoint, InQueue
    <3> QED
      BY <1>7, <3>2
  <2>2. CASE server # Writer
    BY <1>1, <1>7, <2>2, PartiesLemma DEF Agreed
  <2> QED
    BY <2>1, <2>2
<1>10. ASSUME NEW ch2, NEW server2, NEW asked2, NEW mode2, NEW len2,
              Pair(ch2, server2, asked2, mode2, len2)
       PROVE  /\ MeetingPoint(sched', channel', ch2, server2)
              /\ ServerKeeps(sched', ipc_caller', pc', server2, ch2, asked2)
  <2>1. /\ server2 \in Threads /\ server2 # Client
        /\ MeetingPoint(sched, channel, ch2, server2)
        /\ ServerKeeps(sched, ipc_caller, pc, server2, ch2, asked2)
    BY <1>10, PairLemma
  <2>2. MeetingPoint(sched', channel', ch2, server2)
    BY <1>7, <2>1 DEF MeetingPoint
  <2>3. CASE ch2 = ch
    <3>1. server2 = server
      BY <1>10, <2>3, OtherPairLemma
    <3>2. ServerKeeps(sched', ipc_caller', pc', server2, ch2, asked2)
      BY <1>5, <1>7, <3>1 DEF ServerKeeps
    <3> QED
      BY <2>2, <3>2
  <2>4. CASE ch2 # ch
    <3>1. server2 # server /\ asked2 # asked
      BY <1>10, <2>4, OtherPairLemma
    <3>2. /\ ipc_caller'[server2] = ipc_caller[server2] /\ pc'[server2] = pc[server2]
          /\ sched'.state[server2] = sched.state[server2]
      BY <1>5, <1>7, <2>1, <3>1
    <3>3. ServerKeeps(sched', ipc_caller', pc', server2, ch2, asked2)
      BY <1>4, <2>1, <3>1, <3>2 DEF ServerKeeps, Able, InQueue
    <3> QED
      BY <2>2, <3>3
  <2> QED
    BY <2>3, <2>4
<1>11. Agreed(sched', channel', ipc_caller', message', pc')
  BY <1>8, <1>9, <1>10, AllAgreeLemma
<1> QED
  BY <1>1, <1>5, <1>7, <1>11 DEF TtyInv, TtyTypes

\* tty_write's answer
LEMMA WriterRespondLemma ==
    ASSUME TtyInv, writer_respond
    PROVE  TtyInv'
<1>1. Pair(2, Writer, "read", "WRITE", MaxLen)
  BY DEF Pair
<1>2. /\ InUser /\ sched.current = Writer /\ pc[Writer] # "listen"
      /\ respond /\ goto(Writer, "listen") /\ UNCHANGED <<irq, rx, got>>
  BY DEF writer_respond, At
<1>3. ServerKeeps(sched, ipc_caller, pc, Writer, 2, "read")
  BY <1>1, PairLemma
<1>4. ipc_caller[Writer] = Client /\ sched.state[Client] = "CALLING"
  BY <1>2, <1>3, ServerRunsLemma
<1>5. Client \in Threads /\ Client # Writer /\ sched.state \in [Threads -> ThreadState]
      /\ Client = ipc_caller[sched.current]
  BY <1>2, <1>4, PartiesLemma, TtyFactsLemma
<1>6. /\ SchedInv' /\ sched'.state = [sched.state EXCEPT ![Client] = "READY"]
      /\ sched'.sleepq = sched.sleepq /\ sched'.waitq = sched.waitq
      /\ callEnds(sched.current, Client)
  BY <1>2, <1>4, <1>5, RespondLemma
<1>7. Able(sched', Client) /\ Able(sched', Writer)
  BY <1>2, <1>5, <1>6, RunsLemma DEF Able
<1>8. \A t \in Threads \ {Client, Writer} : sched'.state[t] = sched.state[t]
  BY <1>5, <1>6
<1>9. callEnds(Writer, Client)
  BY <1>2, <1>6
<1> QED
  BY <1>1, <1>2, <1>6, <1>7, <1>8, <1>9, CallAnsweredLemma

\* tty_read's answer
LEMMA ReaderRespondLemma ==
    ASSUME TtyInv, Faults = {}, NEW d, reader_respond(d)
    PROVE  TtyInv'
<1>1. Pair(1, Reader, "write", "READ", ReadLen)
  BY DEF Pair
<1>2. /\ InUser /\ sched.current = Reader /\ pc[Reader] # "listen"
      /\ respond_string(ReadLen, d) /\ goto(Reader, "listen") /\ UNCHANGED <<irq, rx, got>>
  BY DEF reader_respond, At
<1>3. ServerKeeps(sched, ipc_caller, pc, Reader, 1, "write")
  BY <1>1, PairLemma
<1>4. ipc_caller[Reader] = Client /\ sched.state[Client] = "CALLING"
  BY <1>2, <1>3, ServerRunsLemma
<1>5. Client \in Threads /\ Client # Reader /\ sched.state \in [Threads -> ThreadState]
      /\ Reader \in Threads /\ Client = ipc_caller[sched.current] /\ Reader = sched.current
  BY <1>2, <1>4, PartiesLemma, TtyFactsLemma
<1>6. ReadLen \in Nat \ {0}
  BY TtyAssumption, IpcAssumption
<1>7. /\ SchedInv'
      /\ sched'.state = [sched.state EXCEPT ![Client] = "RUNNING", ![Reader] = "READY"]
      /\ sched'.sleepq = sched.sleepq /\ sched'.waitq = sched.waitq
      /\ callEnds(Reader, Client)
  BY <1>2, <1>4, <1>5, <1>6, RespondStringLemma
<1>8. Able(sched', Client) /\ Able(sched', Reader)
  BY <1>5, <1>7 DEF Able
<1>9. \A t \in Threads \ {Client, Reader} : sched'.state[t] = sched.state[t]
  BY <1>5, <1>7
<1> QED
  BY <1>1, <1>2, <1>7, <1>8, <1>9, CallAnsweredLemma

\* tty_read between its call and its answer: the reader keeps the client's call.
LEMMA ReaderKeepsLemma ==
    ASSUME TtyInv, InUser, sched.current = Reader, pc[Reader] \in {"poll", "wait"},
           NEW label \in {"poll", "wait"}, NEW p, p = [pc EXCEPT ![Reader] = label],
           NEW s, s = sched \/ WaitsOn(s, Reader, Line, AckWait)
    PROVE  /\ Agreed(s, channel, ipc_caller, message, p)
           /\ p \in [Threads -> {"write", "read", "listen", "respond", "poll", "wait"}]
<1>1. /\ Agreed(sched, channel, ipc_caller, message, pc)
      /\ pc \in [Threads -> {"write", "read", "listen", "respond", "poll", "wait"}]
      /\ sched.state \in [Threads -> ThreadState]
      /\ sched.waitq \in [Queues -> Seq(Threads)]
  BY TtyFactsLemma DEF TtyTypes
<1>2. /\ p[Reader] = label /\ \A t \in Threads \ {Reader} : p[t] = pc[t]
      /\ p \in [Threads -> {"write", "read", "listen", "respond", "poll", "wait"}]
  BY <1>1, PartiesLemma
<1>3. /\ ipc_caller[Reader] = Client
      /\ sched.state[Client] = "CALLING" /\ pc[Client] = "write"
      /\ Able(sched, Reader)
  BY <1>1, ServerRunsLemma, RunsLemma DEF Agreed
<1>4. /\ \A t \in Threads \ {Reader} : s.state[t] = sched.state[t]
      /\ Able(s, Reader) \/ InQueue(s, Reader, Line)
      /\ Range(s.sleepq) \subseteq Range(sched.sleepq) \cup {Reader}
      /\ Reader \in Range(s.sleepq) => InQueue(s, Reader, Line) \/ s = sched
      /\ \A t : InQueue(sched, t, Line) => InQueue(s, t, Line)
      /\ s.waitq[1] = sched.waitq[1] /\ s.waitq[2] = sched.waitq[2]
  <2>1. CASE s = sched
    BY <1>3, <2>1
  <2>2. CASE WaitsOn(s, Reader, Line, AckWait)
    <3>1. /\ s.state = [sched.state EXCEPT ![Reader] = "WAITING"]
          /\ Range(s.sleepq) = Range(sched.sleepq) \cup {Reader}
          /\ s.waitq = [sched.waitq EXCEPT ![Line] = Append(@, Reader)]
          /\ Range(s.waitq[Line]) = Range(sched.waitq[Line]) \cup {Reader}
      BY <2>2 DEF WaitsOn
    <3>2. s.waitq[1] = sched.waitq[1] /\ s.waitq[2] = sched.waitq[2]
      BY <1>1, <3>1, PartiesLemma
    <3>3. \A t \in Threads \ {Reader} : s.state[t] = sched.state[t]
      BY <1>1, <3>1
    <3> QED
      BY <3>1, <3>2, <3>3 DEF InQueue
  <2> QED
    BY <2>1, <2>2
<1>5. SleepersWait(s)
  BY <1>1, <1>4 DEF SleepersWait, Agreed
<1>6. MeetingPoint(s, channel, 1, Reader) /\ MeetingPoint(s, channel, 2, Writer)
  BY <1>1, <1>4 DEF MeetingPoint, Agreed
<1>7. ServerKeeps(s, ipc_caller, p, Reader, 1, "write")
  BY <1>2, <1>3, <1>4, PartiesLemma DEF ServerKeeps
<1>8. ServerKeeps(s, ipc_caller, p, Writer, 2, "read")
  <2>1. /\ p[Writer] = pc[Writer] /\ p[Client] = pc[Client]
        /\ s.state[Writer] = sched.state[Writer]
    BY <1>2, <1>4, PartiesLemma
  <2> QED
    BY <1>1, <1>3, <1>4, <2>1 DEF ServerKeeps, Agreed, Able, InQueue
<1>9. ClientWaits(s, message, p)
  <2>1. p[Client] = pc[Client] /\ s.state[Client] = sched.state[Client]
    BY <1>2, <1>4, PartiesLemma
  <2> QED
    BY <1>1, <1>4, <2>1 DEF ClientWaits, Agreed, Able, InQueue
<1> QED
  BY <1>1, <1>2, <1>5, <1>6, <1>7, <1>8, <1>9 DEF Agreed

\* One look at the line status register
LEMMA ReaderPollLemma ==
    ASSUME TtyInv, reader_poll
    PROVE  TtyInv'
<1>1. /\ TtyTypes /\ SchedInv /\ closed_call = FALSE
      /\ InUser /\ sched.current = Reader /\ pc[Reader] = "poll"
  BY DEF TtyInv, reader_poll, At
<1>2. /\ rx \in 0..RxMax /\ got \in 0..ReadLen /\ got < ReadLen
      /\ ReadLen \in Nat /\ RxMax \in Nat
      /\ pc \in [Threads -> {"write", "read", "listen", "respond", "poll", "wait"}]
  BY <1>1, TtyAssumption, IpcAssumption DEF TtyTypes, reader_poll
<1>3. PICK label \in {"poll", "wait"} : pc' = [pc EXCEPT ![Reader] = label]
  <2>1. CASE rx > 0
    <3>1. pc' = [pc EXCEPT ![Reader] = "poll"]
      BY <1>1, <1>2, <2>1, PartiesLemma DEF reader_poll
    <3> QED
      BY <3>1
  <2>2. CASE ~(rx > 0)
    BY <2>2 DEF reader_poll, goto
  <2> QED
    BY <2>1, <2>2
<1>4. rx' \in 0..RxMax /\ got' \in 0..ReadLen
  BY <1>2 DEF reader_poll
<1>5. UNCHANGED <<sched, channel, ipc_caller, message, closed_call, irq>>
  BY DEF reader_poll, ipcVars, ipcState
<1>6. /\ Agreed(sched, channel, ipc_caller, message, pc')
      /\ pc' \in [Threads -> {"write", "read", "listen", "respond", "poll", "wait"}]
  BY <1>1, <1>3, ReaderKeepsLemma
<1>7. SchedInv'
  BY <1>1, <1>5 DEF SchedInv, Sound, Consistent, SleepersSorted, Floating
<1> QED
  BY <1>1, <1>4, <1>5, <1>6, <1>7 DEF TtyInv, TtyTypes

\* _fluke_irq_ack_wait
LEMMA ReaderAckWaitLemma ==
    ASSUME TtyInv, NEW d \in Elapsed, reader_ack_wait(d)
    PROVE  TtyInv'
<1>1. /\ TtyTypes /\ SchedInv /\ closed_call = FALSE /\ InUser /\ sched.current = Reader
      /\ pc[Reader] \in {"poll", "wait"} /\ "poll" \in {"poll", "wait"}
      /\ pc' = [pc EXCEPT ![Reader] = "poll"]
  BY DEF TtyInv, reader_ack_wait, At, goto
<1>2. UNCHANGED <<channel, ipc_caller, message, closed_call, rx, got>>
  BY DEF reader_ack_wait, ipcState
<1>3. irq \in [Irqs -> IrqState] /\ Line \in Irqs /\ AckWait \in Nat
  BY <1>1, PartiesLemma, TtyAssumption, SchedAssumption DEF TtyTypes
<1>4. CASE ctl_wait_occurred(Line, TRUE)
  <2>1. irq' \in [Irqs -> IrqState] /\ sched' = sched
    BY <1>3, <1>4 DEF ctl_wait_occurred, IrqState
  <2>2. /\ Agreed(sched, channel, ipc_caller, message, pc')
        /\ pc' \in [Threads -> {"write", "read", "listen", "respond", "poll", "wait"}]
    BY <1>1, ReaderKeepsLemma
  <2>3. SchedInv'
    BY <1>1, <2>1 DEF SchedInv, Sound, Consistent, SleepersSorted, Floating
  <2> QED
    BY <1>1, <1>2, <2>1, <2>2, <2>3 DEF TtyInv, TtyTypes
<1>5. CASE ctl_wait(Line, TRUE, AckWait, d)
  <2>1. irq' \in [Irqs -> IrqState]
    BY <1>3, <1>5 DEF ctl_wait, IrqState
  <2>2. TRUE \in BOOLEAN
    OBVIOUS
  <2>3. PICK s : WaitsOn(s, Reader, Line, AckWait) /\ Rescheduled(s, d, sched')
    BY <1>1, <1>3, <1>5, <2>2, WaitOnLemma
  <2>4. /\ Agreed(s, channel, ipc_caller, message, pc')
        /\ pc' \in [Threads -> {"write", "read", "listen", "respond", "poll", "wait"}]
    BY <1>1, <2>3, ReaderKeepsLemma
  <2>5. Sound(s)
    BY <2>3 DEF WaitsOn
  <2>6. Agreed(sched', channel', ipc_caller', message', pc')
    BY <1>2, <2>3, <2>4, <2>5, AgreedLemma
  <2>7. SchedInv'
    BY <2>3, RescheduledInvLemma
  <2> QED
    BY <1>1, <1>2, <2>1, <2>4, <2>6, <2>7 DEF TtyInv, TtyTypes
<1> QED
  BY <1>4, <1>5 DEF reader_ack_wait

\* What arrives at the UART, and what the kernel does to the threads between their steps.
LEMMA OutsideLemma ==
    ASSUME TtyInv, UNCHANGED <<channel, ipc_caller, message, closed_call, pc, got>>,
           irq' \in [Irqs -> IrqState], rx' \in 0..RxMax,
           SchedInv', Agreed(sched', channel, ipc_caller, message, pc)
    PROVE  TtyInv'
  BY DEF TtyInv, TtyTypes

\* A character arrives.
LEMMA ReceiveCharLemma ==
    ASSUME TtyInv, receive
    PROVE  TtyInv'
<1>1. /\ irq \in [Irqs -> IrqState] /\ Line \in Irqs /\ rx \in 0..RxMax /\ RxMax \in Nat
      /\ SchedInv /\ Agreed(sched, channel, ipc_caller, message, pc)
  BY PartiesLemma, TtyAssumption DEF TtyInv, TtyTypes
<1>2. /\ irq' = [irq EXCEPT ![Line].pending = @ \/ (rx = 0 /\ irq[Line].enabled)]
      /\ rx' = rx + 1 /\ rx < RxMax
      /\ UNCHANGED <<sched, channel, ipc_caller, message, closed_call, pc, got>>
  BY DEF receive, ipcVars, ipcState
<1>3. irq' \in [Irqs -> IrqState]
  <2>1. irq[Line] \in IrqState
    BY <1>1
  <2>2. [irq[Line] EXCEPT !.pending = @ \/ (rx = 0 /\ irq[Line].enabled)] \in IrqState
    BY <2>1 DEF IrqState
  <2> QED
    BY <1>1, <1>2, <2>2
<1>4. SchedInv'
  BY <1>1, <1>2 DEF SchedInv, Sound, Consistent, SleepersSorted, Floating
<1> QED
  BY <1>1, <1>2, <1>3, <1>4, OutsideLemma

\* An interrupt wakes the reader at most, which then goes on.
LEMMA LineWokenLemma ==
    ASSUME TtyInv, NEW s, LineWoken(s, Line)
    PROVE  Agreed(s, channel, ipc_caller, message, pc)
<1> DEFINE t == Head(sched.waitq[Line])
<1>1. /\ Agreed(sched, channel, ipc_caller, message, pc)
      /\ sched.state \in [Threads -> ThreadState]
      /\ sched.waitq \in [Queues -> Seq(Threads)]
  BY TtyFactsLemma
<1>2. CASE s = sched
  BY <1>1, <1>2
<1>3. CASE Woken(sched, t, Line, "1", s)
  <2>1. /\ t \in Threads /\ t \in Range(sched.waitq[Line])
        /\ s.state = [sched.state EXCEPT ![t] = "READY"]
        /\ Range(s.sleepq) = Range(sched.sleepq) \ {t}
        /\ s.waitq = [sched.waitq EXCEPT ![Line] = Tail(@)]
        /\ Range(s.waitq[Line]) = Range(sched.waitq[Line]) \ {t}
    BY <1>3 DEF Woken
  <2> HIDE DEF t
  <2>2. sched.state[t] = "WAITING"
    BY <2>1, ParkedLemma, PartiesLemma DEF InQueue
  <2>3. s.waitq[1] = sched.waitq[1] /\ s.waitq[2] = sched.waitq[2]
    BY <1>1, <2>1, PartiesLemma
  <2>4. \A u \in Threads : /\ Able(sched, u) => Able(s, u)
                           /\ sched.state[u] = "CALLING" => s.state[u] = "CALLING"
                           /\ InQueue(sched, u, Line) => Able(s, u) \/ InQueue(s, u, Line)
    BY <1>1, <2>1, <2>2 DEF Able, InQueue
  <2>5. \A u : /\ InQueue(sched, u, 1) => InQueue(s, u, 1)
               /\ InQueue(sched, u, 2) => InQueue(s, u, 2)
    BY <2>3 DEF InQueue
  <2>6. SleepersWait(s)
    BY <1>1, <2>1 DEF SleepersWait, Agreed, InQueue
  <2>7. MeetingPoint(s, channel, 1, Reader) /\ MeetingPoint(s, channel, 2, Writer)
    BY <1>1, <2>3 DEF Agreed, MeetingPoint
  <2>8. ServerKeeps(s, ipc_caller, pc, Reader, 1, "write")
    BY <1>1, <2>4, <2>5, PartiesLemma DEF Agreed, ServerKeeps
  <2>9. ServerKeeps(s, ipc_caller, pc, Writer, 2, "read")
    BY <1>1, <2>4, <2>5, PartiesLemma DEF Agreed, ServerKeeps
  <2>10. ClientWaits(s, message, pc)
    BY <1>1, <2>4, <2>5, PartiesLemma DEF Agreed, ClientWaits
  <2> QED
    BY <1>1, <2>6, <2>7, <2>8, <2>9, <2>10 DEF Agreed
<1> QED
  BY <1>2, <1>3 DEF LineWoken

\* The UART's interrupt, the timer interrupt and the clock.
LEMMA KernelStepLemma ==
    ASSUME TtyInv, TtyInterrupt \/ TtyTimer \/ TtyTick
    PROVE  TtyInv'
<1>1. /\ irq \in [Irqs -> IrqState] /\ Line \in Irqs /\ rx \in 0..RxMax
      /\ SchedInv /\ Sound(sched) /\ Agreed(sched, channel, ipc_caller, message, pc)
      /\ Elapsed \subseteq Nat
  BY PartiesLemma, SchedAssumption DEF TtyInv, TtyTypes, SchedInv
<1>2. UNCHANGED <<channel, ipc_caller, message, closed_call, pc, rx, got>>
  BY DEF TtyInterrupt, TtyTimer, TtyTick, ipcState
<1>3. rx' \in 0..RxMax
  BY <1>1, <1>2
<1>4. CASE TtyInterrupt
  <2>1. PICK d \in Elapsed : device_interrupt(Line, d)
    BY <1>4 DEF TtyInterrupt
  <2>2. irq' \in [Irqs -> IrqState]
    <3> DEFINE latch == irq[Line].occurred \/ sched.waitq[Line] = << >>
    <3>1. latch \in BOOLEAN /\ irq[Line] \in IrqState
      BY <1>1 DEF IrqState
    <3>2. irq' = [irq EXCEPT ![Line].pending = FALSE, ![Line].enabled = FALSE,
                             ![Line].occurred = @ \/ sched.waitq[Line] = << >>]
      BY <2>1 DEF device_interrupt
    <3>3. irq' = [irq EXCEPT ![Line] = [irq[Line] EXCEPT !.pending = FALSE, !.enabled = FALSE,
                                                         !.occurred = latch]]
      BY <1>1, <3>2
    <3> HIDE DEF latch
    <3> QED
      BY <1>1, <3>1, <3>3 DEF IrqState
  <2>3. PICK s : LineWoken(s, Line) /\ Sound(s) /\ Rescheduled(s, d, sched')
    BY <1>1, <2>1, ReceiveLemma
  <2>4. Agreed(s, channel, ipc_caller, message, pc)
    BY <2>3, LineWokenLemma
  <2>5. Agreed(sched', channel, ipc_caller, message, pc)
    BY <2>3, <2>4, AgreedLemma
  <2>6. SchedInv'
    BY <2>3, RescheduledInvLemma
  <2> QED
    BY <1>2, <1>3, <2>2, <2>5, <2>6, OutsideLemma
<1>5. CASE TtyTimer
  <2>1. PICK d \in Elapsed : timer_interrupt(d)
    BY <1>5 DEF TtyTimer
  <2>2. SchedInv' /\ Rescheduled(sched, d, sched')
    BY <1>1, <2>1, TimerLemma
  <2>3. Agreed(sched', channel, ipc_caller, message, pc)
    BY <1>1, <2>2, AgreedLemma
  <2>4. irq' \in [Irqs -> IrqState]
    BY <1>1, <1>5 DEF TtyTimer
  <2> QED
    BY <1>2, <1>3, <2>2, <2>3, <2>4, OutsideLemma
<1>6. CASE TtyTick
  <2>1. /\ SchedInv' /\ sched'.state = sched.state
        /\ sched'.sleepq = sched.sleepq /\ sched'.waitq = sched.waitq
    BY <1>1, <1>6, TickLemma DEF TtyTick
  <2>2. Agreed(sched', channel, ipc_caller, message, pc)
    BY <1>1, <2>1 DEF Agreed, SleepersWait, MeetingPoint, ServerKeeps, ClientWaits, Able, InQueue
  <2>3. irq' \in [Irqs -> IrqState]
    BY <1>1, <1>6 DEF TtyTick
  <2> QED
    BY <1>2, <1>3, <2>1, <2>2, <2>3, OutsideLemma
<1> QED
  BY <1>4, <1>5, <1>6

\* Every step of the terminal keeps the invariant.
LEMMA TtyNextLemma ==
    ASSUME Faults = {}, TtyInv, [TtyNext]_ttyVars
    PROVE  TtyInv'
<1>1. Pair(1, Reader, "write", "READ", ReadLen) /\ Pair(2, Writer, "read", "WRITE", MaxLen)
  BY DEF Pair
<1>2. CASE \E d \in Elapsed : client_write(d)
  <2>1. PICK d \in Elapsed : client_write(d)
    BY <1>2
  <2>2. /\ At(Client, "write") /\ ipc_call(rw("write", MaxLen), d)
        /\ goto(Client, "read") /\ UNCHANGED <<irq, rx, got>>
    BY <2>1 DEF client_write
  <2>3. "write" = IF "WRITE" = "READ" THEN "read" ELSE "write"
    OBVIOUS
  <2> QED
    BY <1>1, <2>2, <2>3, ClientCallLemma
<1>3. CASE \E d \in Elapsed : client_read(d)
  <2>1. PICK d \in Elapsed : client_read(d)
    BY <1>3
  <2>2. /\ At(Client, "read") /\ ipc_call(rw("read", ReadLen), d)
        /\ goto(Client, "write") /\ UNCHANGED <<irq, rx, got>>
    BY <2>1 DEF client_read
  <2>3. "read" = IF "READ" = "READ" THEN "read" ELSE "write"
    OBVIOUS
  <2> QED
    BY <1>1, <2>2, <2>3, ClientCallLemma
<1>4. CASE \E d \in Elapsed : writer_listen(d)
  <2>1. PICK d \in Elapsed : writer_listen(d)
    BY <1>4
  <2>2. /\ At(Writer, "listen") /\ listen(2, MaxLen, d)
        /\ goto(Writer, "respond") /\ UNCHANGED <<irq, rx>> /\ UNCHANGED got
    BY <2>1 DEF writer_listen
  <2>3. MaxLen \in 0..MaxLen /\ got' \in 0..ReadLen /\ "respond" \in {"poll", "respond"}
    BY <2>2, IpcAssumption DEF TtyInv, TtyTypes
  <2> QED
    BY <1>1, <2>2, <2>3, ServerListenLemma
<1>5. CASE \E d \in Elapsed : reader_listen(d)
  <2>1. PICK d \in Elapsed : reader_listen(d)
    BY <1>5
  <2>2. /\ At(Reader, "listen") /\ listen(1, 0, d)
        /\ goto(Reader, "poll") /\ UNCHANGED <<irq, rx>> /\ got' = 0
    BY <2>1 DEF reader_listen
  <2>3. 0 \in 0..MaxLen /\ got' \in 0..ReadLen /\ "poll" \in {"poll", "respond"}
    BY <2>2, TtyAssumption, IpcAssumption
  <2>4. 1 = 2 => 0 = MaxLen
    OBVIOUS
  <2> QED
    BY <1>1, <2>2, <2>3, <2>4, ServerListenLemma
<1>6. CASE writer_respond
  BY <1>6, WriterRespondLemma
<1>7. CASE reader_poll
  BY <1>7, ReaderPollLemma
<1>8. CASE \E d \in Elapsed : reader_ack_wait(d)
  BY <1>8, ReaderAckWaitLemma
<1>9. CASE \E d \in Elapsed : reader_respond(d)
  BY <1>9, ReaderRespondLemma
<1>10. CASE receive
  BY <1>10, ReceiveCharLemma
<1>11. CASE TtyInterrupt \/ TtyTimer \/ TtyTick
  BY <1>11, KernelStepLemma
<1>12. CASE UNCHANGED ttyVars
  <2>1. UNCHANGED <<sched, channel, ipc_caller, message, closed_call, irq, pc, rx, got>>
    BY <1>12 DEF ttyVars, ipcVars, ipcState
  <2>2. SchedInv'
    BY <2>1 DEF TtyInv, SchedInv, Sound, Consistent, SleepersSorted, Floating
  <2> QED
    BY <2>1, <2>2, OutsideLemma DEF TtyInv, TtyTypes
<1> QED
  BY <1>2, <1>3, <1>4, <1>5, <1>6, <1>7, <1>8, <1>9, <1>10, <1>11, <1>12
  DEF TtyNext, ClientStep, WriterStep, ReaderStep

\* It holds when the terminal has been set up.
LEMMA TtyInitLemma == TtyInit => TtyInv
<1> SUFFICES ASSUME TtyInit PROVE TtyInv
  OBVIOUS
<1>1. /\ sched.ok /\ sched.sleepq = << >> /\ sched.current = Writer
      /\ sched.runq = <<Client, Reader>>
      /\ sched.state = [t \in Threads |-> IF t = Writer THEN "RUNNING" ELSE "READY"]
      /\ sched.rem = [t \in Threads |-> 0]
      /\ sched.waitq = [q \in Queues |-> << >>]
      /\ sched.r0 = [t \in Threads |-> "user"]
  BY DEF TtyInit
<1>2. sched \in SchedState
  <2>1. /\ "RUNNING" \in ThreadState /\ "READY" \in ThreadState /\ "user" \in R0Value
    BY DEF ThreadState, R0Value
  <2>2. <<Client, Reader>> \in Seq(Threads) /\ << >> \in Seq(Threads) /\ Writer \in Threads
    BY PartiesLemma
  <2> QED
    BY <2>1, <2>2 DEF TtyInit, SchedState
<1>3. Range(sched.runq) = {Client, Reader} /\ IsInjective(sched.runq)
  <2>1. DOMAIN sched.runq = 1..2 /\ sched.runq[1] = Client /\ sched.runq[2] = Reader
    BY <1>1
  <2> HIDE DEF TtyInit
  <2>2. 1..2 = {1, 2}
    OBVIOUS
  <2>3. Range(sched.runq) = {Client, Reader}
    BY <2>1, <2>2 DEF Range
  <2>4. IsInjective(sched.runq)
    BY <2>1, <2>2, PartiesLemma DEF IsInjective
  <2> QED
    BY <2>3, <2>4
<1>4. Range(sched.sleepq) = {} /\ \A q \in Queues : Range(sched.waitq[q]) = {}
  BY <1>1, EmptyLemma
<1>5. /\ IsInjective(sched.sleepq) /\ \A q \in Queues : IsInjective(sched.waitq[q])
  BY <1>1, EmptyLemma
<1>6. /\ sched.state[Writer] = "RUNNING"
      /\ sched.state[Client] = "READY" /\ sched.state[Reader] = "READY"
  BY <1>1, PartiesLemma
<1>7. Consistent(sched)
  BY <1>1, <1>3, <1>4, <1>5, <1>6, PartiesLemma DEF Consistent
<1>8. SleepersSorted(sched) /\ Floating(sched) = {}
  BY <1>1, <1>6, PartiesLemma DEF SleepersSorted, Floating
<1>9. SchedInv
  BY <1>1, <1>2, <1>7, <1>8 DEF SchedInv, Sound
<1>10. TtyTypes
  <2>1. NoMessage \in Message
    BY IpcAssumption DEF NoMessage, Message, TransferMode
  <2>2. 0 \in 0..RxMax /\ 0 \in 0..ReadLen
    BY TtyAssumption, IpcAssumption
  <2>3. irq \in [Irqs -> IrqState]
    BY DEF TtyInit, IrqState
  <2> QED
    BY <2>1, <2>2, <2>3 DEF TtyInit, TtyTypes
<1>11. /\ channel[1] = "EMPTY" /\ channel[2] = "EMPTY"
       /\ ipc_caller[Reader] = Nobody /\ ipc_caller[Writer] = Nobody
       /\ pc[Reader] = "listen" /\ pc[Writer] = "listen" /\ closed_call = FALSE
  BY PartiesLemma DEF TtyInit
<1>12. Agreed(sched, channel, ipc_caller, message, pc)
  BY <1>4, <1>6, <1>11, PartiesLemma
  DEF Agreed, SleepersWait, MeetingPoint, ServerKeeps, ClientWaits, Able
<1> QED
  BY <1>9, <1>10, <1>11, <1>12 DEF TtyInv

\* The invariant says that the servers keep to the protocol.
LEMMA TtyInvLemma == TtyInv => ServersKeepProtocol
<1> SUFFICES ASSUME TtyInv PROVE ServersKeepProtocol
  OBVIOUS
<1>1. /\ SchedInv /\ TtyTypes /\ closed_call = FALSE
      /\ Agreed(sched, channel, ipc_caller, message, pc)
  BY DEF TtyInv
<1>2. TypeOK /\ NoPanic
  BY <1>1, SchedInvLemma
<1>3. TtyTypeOK
  BY <1>1, <1>2 DEF TtyTypeOK, TtyTypes, IrqTypeOK, IpcTypeOK
<1>4. /\ pc[Writer] = "listen" => ipc_caller[Writer] = Nobody
      /\ pc[Reader] = "listen" => ipc_caller[Reader] = Nobody
  BY <1>1 DEF Agreed, ServerKeeps
<1>5. ASSUME sched.current = Reader, pc[Reader] \in {"poll", "wait"}
      PROVE  /\ ipc_caller[Reader] = Client
             /\ message[Client].rx /\ ReadLen <= message[Client].len
  <2>1. InUser
    BY <1>2, <1>5, PartiesLemma DEF InUser, NoPanic
  <2>2. /\ ipc_caller[Reader] = Client
        /\ sched.state[Client] = "CALLING" /\ pc[Client] = "write"
    BY <1>1, <1>5, <2>1, ServerRunsLemma DEF Agreed
  <2>3. message[Client].rx /\ message[Client].len = ReadLen
    <3>1. ~Able(sched, Client)
      BY <2>2 DEF Able
    <3>2. ~InQueue(sched, Client, 1) /\ ~InQueue(sched, Client, 2)
      BY <2>2, ParkedLemma, PartiesLemma
    <3> QED
      BY <1>1, <2>2, <3>1, <3>2 DEF Agreed, ClientWaits
  <2>4. ReadLen \in Nat
    BY TtyAssumption, IpcAssumption
  <2> QED
    BY <2>2, <2>3, <2>4
<1> QED
  BY <1>2, <1>3, <1>4, <1>5 DEF ServersKeepProtocol

\* The servers of init.c respond to each call before they listen again, for any timing, any
\* lengths of reads and writes and any number of characters, so that the assertion of
\* call_transfer holds without a guard of the kernel's, provided that the buffers of the
\* programs are mapped, as those of init.c are.
THEOREM ServersKeepTheProtocol ==
    ASSUME Faults = {}
    PROVE  TtySpec => []ServersKeepProtocol
<1>1. TtyInit => TtyInv
  BY TtyInitLemma
<1>2. TtyInv /\ [TtyNext]_ttyVars => TtyInv'
  BY TtyNextLemma
<1>3. TtyInv => ServersKeepProtocol
  BY TtyInvLemma
<1> QED
  BY <1>1, <1>2, <1>3, PTL DEF TtySpec
=============================================================================
