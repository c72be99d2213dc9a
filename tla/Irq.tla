-------------------------------- MODULE Irq ---------------------------------
(***************************************************************************)
(* Interrupts delivered to user threads: the IRQ handles of user/irq.cxx,  *)
(* the IOAPIC mask of x86_64/ioapic.c and the interrupt entry of           *)
(* x86_64/entry.c, over the scheduler.                                     *)
(***************************************************************************)
EXTENDS Schedule

CONSTANT Irqs   \* the interrupt lines; IRQ_handle::waiting is waitq[i]

ASSUME IrqAssumption == Irqs \subseteq Queues

(***************************************************************************)
(* For each line: is_claimed and interrupt_occurred of its handle; whether *)
(* its IOAPIC entry is unmasked (enabled); and whether an interrupt has    *)
(* been accepted by the local APIC and waits for the CPU to leave the      *)
(* kernel (pending).                                                       *)
(***************************************************************************)
VARIABLE irq

irqVars == <<sched, irq>>

IrqState == [claimed : BOOLEAN, occurred : BOOLEAN,
             enabled : BOOLEAN, pending : BOOLEAN]

IrqInit ==
    /\ SchedInit
    /\ irq = [i \in Irqs |-> [claimed |-> FALSE, occurred |-> FALSE,
                              enabled |-> FALSE, pending |-> FALSE]]

\* SYSCALL(claim_irq): EBUSY while another descriptor holds the handle
irq_claim(i) ==
    /\ InUser
    /\ ~irq[i].claimed
    /\ irq' = [irq EXCEPT ![i].claimed = TRUE]
    /\ UNCHANGED sched

\* IRQ_handle::ctl with IRQ_CTL_ENABLE alone
ctl_enable(i) ==
    /\ InUser
    /\ irq[i].claimed
    /\ irq' = [irq EXCEPT ![i].enabled = TRUE]
    /\ UNCHANGED sched

\* IRQ_handle::ctl with IRQ_CTL_WAIT, when an interrupt has already occurred
ctl_wait_occurred(i, ack) ==
    /\ InUser
    /\ irq[i].claimed
    /\ irq[i].occurred
    /\ irq' = [irq EXCEPT ![i].enabled = @ \/ ack, ![i].occurred = FALSE]
    /\ UNCHANGED sched

\* IRQ_handle::ctl with IRQ_CTL_WAIT, when it has to wait; ack is IRQ_CTL_ENABLE
ctl_wait(i, ack, n, d) ==
    /\ InUser
    /\ irq[i].claimed
    /\ ~irq[i].occurred
    /\ n > 0
    /\ irq' = [irq EXCEPT ![i].enabled = @ \/ ack]
    /\ schedule_or_exit(
            schedule_queue_with_timeout(
                cpu_context_save(sched, "user"), sched.current, i, n, "EAGAIN"),
            d)

\* user_on_irq_receive: the scheduler's part
WakeFirst(s, i) ==
    IF s.waitq[i] = << >> THEN s
    ELSE schedule_wake(queue_pop(s, i), Head(s.waitq[i]), "1")

\* Mutant: an interrupt that is handed to a waiter is latched as well.
device_interrupt_latch(i, d) ==
    /\ sched.ok
    /\ irq[i].pending
    /\ irq' = [irq EXCEPT ![i].pending = FALSE, ![i].enabled = FALSE, ![i].occurred = TRUE]
    /\ schedule(WakeFirst(sched, i), d)

\* Mutant: an interrupt nobody waits for is dropped.
device_interrupt_drop(i, d) ==
    /\ sched.ok
    /\ irq[i].pending
    /\ irq' = [irq EXCEPT ![i].pending = FALSE, ![i].enabled = FALSE]
    /\ schedule(WakeFirst(sched, i), d)

\* interrupt_entry for a device: mask the line, hand the interrupt to the first
\* waiter or latch it, reschedule.
device_interrupt(i, d) ==
    /\ sched.ok
    /\ irq[i].pending
    /\ irq' = [irq EXCEPT ![i].pending = FALSE,
                          ![i].enabled = FALSE,
                          ![i].occurred = @ \/ sched.waitq[i] = << >>]
    /\ schedule(WakeFirst(sched, i), d)

\* IRQ_handle::close, when the last descriptor of the handle is closed
irq_close(i) ==
    /\ InUser
    /\ irq[i].claimed
    /\ irq' = [irq EXCEPT ![i].claimed = FALSE]
    /\ sched' = schedule_wake_all(sched, i, "EBADF")

\* External: the device raises its line.  The entry is edge triggered, so an
\* edge on a masked line is lost.
device_edge(i) ==
    /\ sched.ok
    /\ irq[i].enabled
    /\ ~irq[i].pending
    /\ irq' = [irq EXCEPT ![i].pending = TRUE]
    /\ UNCHANGED sched

IrqNext ==
    \/ SchedNext /\ UNCHANGED irq
    \/ \E i \in Irqs : irq_claim(i)
    \/ \E i \in Irqs : ctl_enable(i)
    \/ \E i \in Irqs, ack \in BOOLEAN : ctl_wait_occurred(i, ack)
    \/ \E i \in Irqs, ack \in BOOLEAN, n \in 1..MaxWait, d \in Elapsed : ctl_wait(i, ack, n, d)
    \/ \E i \in Irqs, d \in Elapsed : device_interrupt(i, d)
    \/ \E i \in Irqs : irq_close(i)
    \/ \E i \in Irqs : device_edge(i)

IrqFairness ==
    /\ WF_sched(\E d \in Elapsed : timer_interrupt(d))
    /\ WF_sched(Tick)

IrqSpec == IrqInit /\ [][IrqNext]_irqVars /\ IrqFairness

-----------------------------------------------------------------------------
IrqTypeOK == TypeOK /\ irq \in [Irqs -> IrqState]

\* Waits, wake-ups, closes and timeouts that fall into one kernel entry leave no
\* thread linked in a queue it has left, and no assert of irq.cxx, schedule.cxx
\* or queue.c fails on the way.
IrqSound == IrqTypeOK /\ NoPanic /\ QueuesMatchStates

\* An interrupt is never latched while a thread waits for it, so no thread sleeps
\* through an interrupt that has been received.
LatchedMeansNoWaiter ==
    \A i \in Irqs : irq[i].occurred => sched.waitq[i] = << >>

\* The value a waiter gets tells why its wait ended, also when an interrupt, its
\* timeout and a close race: 1 for the first waiter when an interrupt was taken in
\* this very step, EBADF when the handle was closed, and EAGAIN otherwise, which
\* happens only once its deadline has passed.
WakeTellsWhy ==
    [][\A i \in Irqs, t \in Threads :
        t \in Range(sched.waitq[i]) /\ t \notin Range(sched'.waitq[i]) =>
            LET taken == irq[i].pending /\ ~irq'[i].pending
                closed == irq[i].claimed /\ ~irq'[i].claimed
            IN  CASE taken /\ t = Head(sched.waitq[i]) -> sched'.r0[t] = "1"
                  [] closed -> sched'.r0[t] = "EBADF"
                  [] OTHER -> sched'.r0[t] = "EAGAIN" /\ DeadlinePassed(t)
      ]_irqVars

\* An interrupt taken from the CPU reaches user space: a waiter is woken or the
\* interrupt is latched, and never both.
InterruptReachesUser ==
    [][\A i \in Irqs :
        irq[i].pending /\ ~irq'[i].pending =>
            \/ irq'[i].occurred /\ sched.waitq[i] = << >>
            \/ /\ sched.waitq[i] # << >>
               /\ irq'[i].occurred = irq[i].occurred
               /\ sched'.state[Head(sched.waitq[i])] \in {"READY", "RUNNING"}
      ]_irqVars

\* No wait for an interrupt is endless: even if the line stays silent or its edge
\* was lost, the waiting thread runs again.
IrqWaitEnds ==
    \A t \in Threads : (sched.state[t] = "WAITING") ~> (sched.state[t] = "RUNNING")
=============================================================================
