--------------------------- MODULE ScheduleProofs ---------------------------
(***************************************************************************)
(* Proofs about the scheduler, for any number of threads and wait queues.  *)
(***************************************************************************)
EXTENDS Schedule, QueueLemmas

-----------------------------------------------------------------------------
(***************************************************************************)
(* A sound state: what holds between any two functions of the scheduler.   *)
(* A thread the kernel has in its hands is FLOATING and linked nowhere.    *)
(***************************************************************************)
Sound(s) == s \in SchedState /\ Consistent(s) /\ SleepersSorted(s) /\ s.ok

\* The sleepers whose deadline passes when the clock moves d.
Due(s, d) == {t \in Range(s.sleepq) : s.rem[t] - d < 0}

-----------------------------------------------------------------------------
(***************************************************************************)
(* The sleep queue                                                         *)
(***************************************************************************)

\* Where set_timeout stops: before the first sleeper that is due later.
LEMMA TimeoutSlotLemma ==
    ASSUME NEW s \in SchedState, SleepersSorted(s), NEW n \in Int
    PROVE  /\ TimeoutSlot(s, n) \in 1..Len(s.sleepq) + 1
           /\ \A i \in 1..Len(s.sleepq) :
                s.rem[s.sleepq[i]] <= n <=> i < TimeoutSlot(s, n)
<1> DEFINE len == Len(s.sleepq)
           D == {i \in DOMAIN s.sleepq : \A j \in 1..i : s.rem[s.sleepq[j]] <= n}
<1>1. /\ len \in Nat /\ DOMAIN s.sleepq = 1..len
      /\ \A i \in 1..len : s.rem[s.sleepq[i]] \in Int
  BY DEF SchedState
<1>2. \A i \in 1..len : s.rem[s.sleepq[i]] <= n <=> i \in D
  BY <1>1 DEF SleepersSorted
<1>3. D = 1..Cardinality(D) /\ Cardinality(D) \in 0..len
  <2>1. D \in SUBSET (1..len) /\ \A i \in D : \A j \in 1..i : j \in D
    BY <1>1
  <2> HIDE DEF D, len
  <2> QED
    BY <1>1, <2>1, FrontLemma
<1>4. TimeoutSlot(s, n) = 1 + Cardinality(D)
  BY DEF TimeoutSlot
<1> DEFINE c == Cardinality(D)
<1>5. \A i \in 1..len : i \in D <=> i <= c
  BY <1>1, <1>3
<1> HIDE DEF D, len, c
<1>6. c \in 0..len
  BY <1>3 DEF c
<1>7. TimeoutSlot(s, n) \in 1..len + 1 /\ \A i \in 1..len : i <= c <=> i < TimeoutSlot(s, n)
  BY <1>1, <1>4, <1>6 DEF c
<1> QED
  BY <1>2, <1>5, <1>7 DEF len

\* Where wakeup_sleepers stops: after all the sleepers whose deadline is past.
LEMMA DueCountLemma ==
    ASSUME NEW s \in SchedState, SleepersSorted(s)
    PROVE  /\ DueCount(s) \in 0..Len(s.sleepq)
           /\ \A i \in 1..Len(s.sleepq) :
                s.rem[s.sleepq[i]] < 0 <=> i <= DueCount(s)
<1> DEFINE len == Len(s.sleepq)
           D == {i \in DOMAIN s.sleepq : \A j \in 1..i : s.rem[s.sleepq[j]] < 0}
<1>1. /\ len \in Nat /\ DOMAIN s.sleepq = 1..len
      /\ \A i \in 1..len : s.rem[s.sleepq[i]] \in Int
  BY DEF SchedState
<1>2. \A i \in 1..len : s.rem[s.sleepq[i]] < 0 <=> i \in D
  <2> SUFFICES ASSUME NEW i \in 1..len PROVE s.rem[s.sleepq[i]] < 0 <=> i \in D
    OBVIOUS
  <2>1. i \in D => s.rem[s.sleepq[i]] < 0
    BY <1>1
  <2>2. ASSUME s.rem[s.sleepq[i]] < 0, NEW j \in 1..i
        PROVE  s.rem[s.sleepq[j]] < 0
    <3>1. j \in 1..len /\ (j < i \/ j = i)
      BY <1>1
    <3>2. j < i => s.rem[s.sleepq[j]] <= s.rem[s.sleepq[i]]
      BY <1>1, <3>1 DEF SleepersSorted
    <3> HIDE DEF len
    <3> QED
      BY <1>1, <2>2, <3>1, <3>2
  <2> QED
    BY <1>1, <2>1, <2>2
<1>3. D = 1..Cardinality(D) /\ Cardinality(D) \in 0..len
  <2>1. D \in SUBSET (1..len) /\ \A i \in D : \A j \in 1..i : j \in D
    BY <1>1
  <2> HIDE DEF D, len
  <2> QED
    BY <1>1, <2>1, FrontLemma
<1>4. DueCount(s) = Cardinality(D)
  BY DEF DueCount
<1> DEFINE c == Cardinality(D)
<1>5. \A i \in 1..len : i \in D <=> i <= c
  BY <1>1, <1>3
<1> HIDE DEF D, len, c
<1>6. c \in 0..len /\ DueCount(s) = c
  BY <1>3, <1>4 DEF c
<1> QED
  BY <1>2, <1>5, <1>6 DEF len

\* set_timeout links a thread that has no timeout yet, and keeps the sleep queue
\* sorted by deadline.
LEMMA SetTimeoutLemma ==
    ASSUME NEW s \in SchedState, s.ok, SleepersSorted(s), IsInjective(s.sleepq),
           NEW t \in Threads, t \notin Range(s.sleepq), NEW n \in Nat
    PROVE  LET r == set_timeout(s, t, n)
           IN  /\ r \in SchedState /\ r.ok /\ SleepersSorted(r)
               /\ IsInjective(r.sleepq)
               /\ Range(r.sleepq) = Range(s.sleepq) \cup {t}
               /\ r.rem = [s.rem EXCEPT ![t] = n]
               /\ r.state = s.state /\ r.runq = s.runq /\ r.waitq = s.waitq
               /\ r.current = s.current /\ r.r0 = s.r0
<1> DEFINE len == Len(s.sleepq)
           slot == TimeoutSlot(s, n)
           r == set_timeout(s, t, n)
<1>1. /\ s.sleepq \in Seq(Threads) /\ s.rem \in [Threads -> Int]
      /\ len \in Nat /\ DOMAIN s.sleepq = 1..len /\ n \in Int
      /\ \A i \in 1..len : s.sleepq[i] \in Threads /\ s.sleepq[i] # t
  BY DEF SchedState, Range
<1>2. /\ slot \in 1..len + 1
      /\ \A i \in 1..len : s.rem[s.sleepq[i]] <= n <=> i < slot
  BY <1>1, TimeoutSlotLemma
<1>3. /\ r.ok = TRUE
      /\ r.sleepq = InsertAt(s.sleepq, slot, t)
      /\ r.rem = [s.rem EXCEPT ![t] = n]
      /\ r.state = s.state /\ r.runq = s.runq /\ r.waitq = s.waitq
      /\ r.current = s.current /\ r.r0 = s.r0
  BY DEF set_timeout, SchedState
<1> HIDE DEF slot, len, r
<1>4. /\ r.sleepq \in Seq(Threads) /\ IsInjective(r.sleepq)
      /\ Range(r.sleepq) = Range(s.sleepq) \cup {t}
      /\ Len(r.sleepq) = len + 1
      /\ \A k \in 1..len + 1 :
            r.sleepq[k] = IF k < slot THEN s.sleepq[k]
                          ELSE IF k = slot THEN t ELSE s.sleepq[k - 1]
  <2>1. slot \in 1..Len(s.sleepq) + 1
    BY <1>2 DEF len
  <2> DEFINE q == s.sleepq
             w == InsertAt(q, slot, t)
  <2>2. q \in Seq(Threads) /\ IsInjective(q) /\ t \notin Range(q) /\ slot \in 1..Len(q) + 1
    BY <1>1, <2>1
  <2> HIDE DEF q
  <2>3. /\ w \in Seq(Threads) /\ IsInjective(w)
        /\ Range(w) = Range(q) \cup {t}
    BY <2>2, InsertAtLemma
  <2>4. /\ Len(w) = Len(q) + 1
        /\ \A k \in 1..Len(q) + 1 :
              w[k] = IF k < slot THEN q[k] ELSE IF k = slot THEN t ELSE q[k - 1]
    BY <2>2, InsertAtLemma
  <2> QED
    BY <1>3, <2>3, <2>4 DEF len, q
<1>5. r.rem \in [Threads -> Int]
  BY <1>1, <1>3
<1>6. r \in SchedState
  BY <1>3, <1>4, <1>5 DEF SchedState, set_timeout, r
<1> DEFINE due(k) == r.rem[r.sleepq[k]]
<1>7. \A k \in 1..len + 1 :
        due(k) = IF k < slot THEN s.rem[s.sleepq[k]]
                 ELSE IF k = slot THEN n ELSE s.rem[s.sleepq[k - 1]]
  <2> SUFFICES ASSUME NEW k \in 1..len + 1
               PROVE  due(k) = IF k < slot THEN s.rem[s.sleepq[k]]
                               ELSE IF k = slot THEN n ELSE s.rem[s.sleepq[k - 1]]
    OBVIOUS
  <2>1. CASE k < slot
    <3>1. k \in 1..len
      BY <1>1, <1>2, <2>1
    <3> QED
      BY <1>1, <1>3, <1>4, <2>1, <3>1, SMTT(30)
  <2>2. CASE k = slot
    BY <1>1, <1>2, <1>3, <1>4, <2>2
  <2>3. CASE k > slot
    <3>1. k - 1 \in 1..len /\ ~(k < slot) /\ k # slot
      BY <1>1, <1>2, <2>3
    <3>2. r.sleepq[k] = s.sleepq[k - 1]
      BY <1>4, <3>1
    <3>3. r.rem[s.sleepq[k - 1]] = s.rem[s.sleepq[k - 1]]
      BY <1>1, <1>3, <3>1
    <3> QED
      BY <3>1, <3>2, <3>3
  <2> QED
    BY <1>1, <1>2, <2>1, <2>2, <2>3
<1> DEFINE was(k) == s.rem[s.sleepq[k]]
<1>8. /\ \A k \in 1..len : was(k) \in Int /\ (was(k) <= n <=> k < slot)
      /\ \A i, j \in 1..len : i <= j => was(i) <= was(j)
  <2>1. \A k \in 1..len : was(k) \in Int /\ (was(k) <= n <=> k < slot)
    BY <1>1, <1>2
  <2>2. \A i, j \in 1..len : i < j => was(i) <= was(j)
    BY <1>1 DEF SleepersSorted
  <2> HIDE DEF was
  <2>3. ASSUME NEW i \in 1..len, NEW j \in 1..len, i <= j
        PROVE  was(i) <= was(j)
    BY <1>1, <2>1, <2>2, <2>3
  <2> QED
    BY <2>1, <2>3
<1>9. \A k \in 1..len + 1 :
        due(k) = IF k < slot THEN was(k) ELSE IF k = slot THEN n ELSE was(k - 1)
  BY <1>7
<1> HIDE DEF was, due
<1>10. \A i, j \in 1..len + 1 : i < j => due(i) <= due(j)
  <2> SUFFICES ASSUME NEW i \in 1..len + 1, NEW j \in 1..len + 1, i < j
               PROVE  due(i) <= due(j)
    OBVIOUS
  <2>1. CASE j < slot
    BY <1>1, <1>2, <1>8, <1>9, <2>1
  <2>2. CASE j = slot
    BY <1>1, <1>2, <1>8, <1>9, <2>2
  <2>3. CASE j > slot /\ i < slot
    <3>1. j - 1 \in 1..len /\ i \in 1..len /\ i <= j - 1
      BY <1>1, <1>2, <2>3
    <3> QED
      BY <1>1, <1>2, <1>8, <1>9, <2>3, <3>1
  <2>4. CASE j > slot /\ i = slot
    <3>1. j - 1 \in 1..len /\ ~(j - 1 < slot)
      BY <1>1, <1>2, <2>4
    <3> QED
      BY <1>1, <1>2, <1>8, <1>9, <2>4, <3>1
  <2>5. CASE j > slot /\ i > slot
    <3>1. j - 1 \in 1..len /\ i - 1 \in 1..len /\ i - 1 <= j - 1
      BY <1>1, <1>2, <2>5
    <3> QED
      BY <1>1, <1>2, <1>8, <1>9, <2>5, <3>1
  <2> QED
    BY <1>1, <1>2, <2>1, <2>2, <2>3, <2>4, <2>5
<1>11. SleepersSorted(r)
  <2>1. DOMAIN r.sleepq = 1..len + 1
    BY <1>1, <1>4
  <2> QED
    BY <1>10, <2>1 DEF SleepersSorted, due
<1> QED
  BY <1>3, <1>4, <1>6, <1>11 DEF r

\* Unlinking sleepers keeps the sleep queue sorted.
LEMMA UnlinkLemma ==
    ASSUME NEW s \in SchedState, SleepersSorted(s), IsInjective(s.sleepq), NEW S,
           NEW r, r.sleepq = Without(s.sleepq, S),
           \A t \in Range(s.sleepq) \ S : r.rem[t] = s.rem[t]
    PROVE  SleepersSorted(r)
<1>1. /\ s.sleepq \in Seq(Threads) /\ IsInjective(s.sleepq)
      /\ Without(s.sleepq, S) \in Seq(Threads)
      /\ Range(Without(s.sleepq, S)) = Range(s.sleepq) \ S
  BY WithoutLemma DEF SchedState
<1>2. PICK f \in [DOMAIN r.sleepq -> DOMAIN s.sleepq] :
        /\ \A k \in DOMAIN f : r.sleepq[k] = s.sleepq[f[k]]
        /\ \A k, m \in DOMAIN f : k < m => f[k] < f[m]
  BY <1>1, WithoutLemma, SMTT(30)
<1>3. \A k \in DOMAIN r.sleepq : r.sleepq[k] \in Range(s.sleepq) \ S
  BY <1>1 DEF Range
<1>4. \A k \in DOMAIN r.sleepq : r.rem[r.sleepq[k]] = s.rem[s.sleepq[f[k]]]
  BY <1>2, <1>3
<1> QED
  BY <1>2, <1>4 DEF SleepersSorted

-----------------------------------------------------------------------------
(***************************************************************************)
(* What each function of the scheduler does to a sound state: it leaves it *)
(* sound, passes its assertions, and moves threads in or out of FLOATING.  *)
(***************************************************************************)

\* A FLOATING thread is linked nowhere, so every assert that refuses a linked thread
\* passes.
LEMMA FloatingLemma ==
    ASSUME NEW s, Sound(s), NEW t \in Threads, s.state[t] = "FLOATING"
    PROVE  /\ ~Queued(s, t) /\ t \notin Range(s.runq) /\ t \notin Range(s.sleepq)
           /\ \A q \in Queues : t \notin Range(s.waitq[q])
           /\ t # s.current
  BY DEF Sound, Consistent, Queued

\* The current thread is RUNNING and linked nowhere.
LEMMA CurrentLemma ==
    ASSUME NEW s, Sound(s), s.current # Nobody
    PROVE  /\ s.current \in Threads /\ s.state[s.current] = "RUNNING"
           /\ ~Queued(s, s.current) /\ s.current \notin Range(s.sleepq)
           /\ \A q \in Queues : s.current \notin Range(s.waitq[q])
<1>1. s.current \in Threads
  BY DEF Sound, SchedState
<1>2. s.state[s.current] = "RUNNING"
  BY <1>1 DEF Sound, Consistent
<1> QED
  BY <1>1, <1>2 DEF Sound, Consistent, Queued

\* schedule_ready, given a FLOATING thread, keeps the state sound: the thread leaves
\* FLOATING and is linked in the run queue only.
LEMMA ReadyLemma ==
    ASSUME NEW s, Sound(s), NEW t \in Threads, s.state[t] = "FLOATING"
    PROVE  LET r == schedule_ready(s, t)
           IN  /\ Sound(r) /\ Floating(r) = Floating(s) \ {t}
               /\ r.state = [s.state EXCEPT ![t] = "READY"]
               /\ r.runq = Append(s.runq, t)
               /\ r.sleepq = s.sleepq /\ r.rem = s.rem /\ r.waitq = s.waitq
               /\ r.current = s.current /\ r.r0 = s.r0
<1> DEFINE r == schedule_ready(s, t)
<1>1. s \in SchedState /\ Consistent(s) /\ SleepersSorted(s) /\ s.ok
  BY DEF Sound
<1>2. /\ s.state \in [Threads -> ThreadState] /\ s.runq \in Seq(Threads)
      /\ "READY" \in ThreadState
  BY <1>1 DEF SchedState, ThreadState
<1>3. t \notin Range(s.runq) /\ ~Queued(s, t) /\ t \notin Range(s.sleepq)
  BY <1>1 DEF Consistent, Queued
<1>4. /\ r.ok = TRUE
      /\ r.state = [s.state EXCEPT ![t] = "READY"]
      /\ r.runq = Append(s.runq, t)
      /\ r.sleepq = s.sleepq /\ r.rem = s.rem /\ r.waitq = s.waitq
      /\ r.current = s.current /\ r.r0 = s.r0
  BY <1>1, <1>3 DEF schedule_ready, SchedState
<1>5. /\ r.runq \in Seq(Threads) /\ Range(r.runq) = Range(s.runq) \cup {t}
      /\ IsInjective(r.runq)
  BY <1>1, <1>2, <1>3, <1>4, AppendLemma DEF Consistent
<1>6. r \in SchedState
  BY <1>1, <1>2, <1>4, <1>5 DEF SchedState, schedule_ready
<1> HIDE DEF r
<1>7. Consistent(r)
  BY <1>1, <1>2, <1>3, <1>4, <1>5 DEF Consistent
<1>8. Floating(r) = Floating(s) \ {t}
  BY <1>2, <1>4 DEF Floating
<1>9. SleepersSorted(r)
  BY <1>1, <1>4 DEF SleepersSorted
<1> QED
  BY <1>4, <1>6, <1>7, <1>8, <1>9 DEF Sound, r

\* run_queue_pop makes the head of the run queue FLOATING, and no other thread.
LEMMA PopLemma ==
    ASSUME NEW s, Sound(s), s.runq # << >>
    PROVE  LET r == run_queue_pop(s)
               t == Head(s.runq)
           IN  /\ Sound(r) /\ Floating(r) = Floating(s) \cup {t}
               /\ t \in Threads /\ s.state[t] = "READY"
               /\ r.state = [s.state EXCEPT ![t] = "FLOATING"]
               /\ r.runq = Tail(s.runq) /\ r.runq \in Seq(Threads)
               /\ r.sleepq = s.sleepq /\ r.rem = s.rem /\ r.waitq = s.waitq
               /\ r.current = s.current /\ r.r0 = s.r0
<1> DEFINE r == run_queue_pop(s)
           t == Head(s.runq)
<1>1. s \in SchedState /\ Consistent(s) /\ SleepersSorted(s) /\ s.ok
  BY DEF Sound
<1>2. /\ s.state \in [Threads -> ThreadState] /\ s.runq \in Seq(Threads)
      /\ "FLOATING" \in ThreadState
  BY <1>1 DEF SchedState, ThreadState
<1>3. /\ t \in Threads /\ t \in Range(s.runq)
      /\ Tail(s.runq) \in Seq(Threads) /\ IsInjective(Tail(s.runq))
      /\ Range(Tail(s.runq)) = Range(s.runq) \ {t}
  BY <1>1, <1>2, TailLemma DEF Consistent
<1> HIDE DEF t
<1>4. s.state[t] = "READY"
  BY <1>1, <1>3 DEF Consistent
<1>5. /\ r.ok = TRUE
      /\ r.state = [s.state EXCEPT ![t] = "FLOATING"]
      /\ r.runq = Tail(s.runq)
      /\ r.sleepq = s.sleepq /\ r.rem = s.rem /\ r.waitq = s.waitq
      /\ r.current = s.current /\ r.r0 = s.r0
  BY <1>1, <1>4 DEF run_queue_pop, SchedState, t
<1>6. r \in SchedState
  BY <1>1, <1>2, <1>3, <1>5 DEF SchedState, run_queue_pop
<1> HIDE DEF r
<1>7. Consistent(r)
  BY <1>1, <1>2, <1>3, <1>4, <1>5 DEF Consistent
<1>8. Floating(r) = Floating(s) \cup {t}
  BY <1>2, <1>3, <1>5 DEF Floating
<1>9. SleepersSorted(r)
  BY <1>1, <1>5 DEF SleepersSorted
<1> QED
  BY <1>3, <1>4, <1>5, <1>6, <1>7, <1>8, <1>9 DEF Sound, r, t

\* cpu_context_save makes the current thread FLOATING and leaves the CPU to nobody.
LEMMA SaveLemma ==
    ASSUME NEW s, Sound(s), s.current # Nobody, NEW v \in R0Value
    PROVE  LET r == cpu_context_save(s, v)
               t == s.current
           IN  /\ Sound(r) /\ Floating(r) = Floating(s) \cup {t}
               /\ t \in Threads /\ t \notin Floating(s) /\ s.state[t] = "RUNNING"
               /\ r.state = [s.state EXCEPT ![t] = "FLOATING"]
               /\ r.runq = s.runq /\ r.sleepq = s.sleepq /\ r.rem = s.rem
               /\ r.waitq = s.waitq /\ r.current = Nobody
               /\ r.r0 = [s.r0 EXCEPT ![t] = v]
<1> DEFINE r == cpu_context_save(s, v)
           t == s.current
<1>1. s \in SchedState /\ Consistent(s) /\ SleepersSorted(s) /\ s.ok
  BY DEF Sound
<1>2. /\ s.state \in [Threads -> ThreadState] /\ s.r0 \in [Threads -> R0Value]
      /\ t \in Threads /\ "FLOATING" \in ThreadState
  BY <1>1 DEF SchedState, ThreadState
<1>3. s.state[t] = "RUNNING"
  BY <1>1, <1>2 DEF Consistent
<1>4. /\ r.ok = TRUE
      /\ r.state = [s.state EXCEPT ![t] = "FLOATING"]
      /\ r.runq = s.runq /\ r.sleepq = s.sleepq /\ r.rem = s.rem
      /\ r.waitq = s.waitq /\ r.current = Nobody
      /\ r.r0 = [s.r0 EXCEPT ![t] = v]
  BY <1>1, <1>3 DEF cpu_context_save, SchedState
<1>5. r \in SchedState
  BY <1>1, <1>2, <1>4 DEF SchedState, cpu_context_save
<1> HIDE DEF r
<1>6. Consistent(r)
  BY <1>1, <1>2, <1>3, <1>4, SchedAssumption DEF Consistent
<1>7. Floating(r) = Floating(s) \cup {t} /\ t \notin Floating(s)
  BY <1>2, <1>3, <1>4 DEF Floating
<1>8. SleepersSorted(r)
  BY <1>1, <1>4 DEF SleepersSorted
<1> QED
  BY <1>2, <1>3, <1>4, <1>5, <1>6, <1>7, <1>8 DEF Sound, r

\* cpu_context_restore_and_exit gives a CPU that nobody has to a FLOATING thread.
LEMMA RestoreLemma ==
    ASSUME NEW s, Sound(s), s.current = Nobody,
           NEW t \in Threads, s.state[t] = "FLOATING"
    PROVE  LET r == cpu_context_restore_and_exit(s, t)
           IN  /\ Sound(r) /\ Floating(r) = Floating(s) \ {t}
               /\ r.state = [s.state EXCEPT ![t] = "RUNNING"]
               /\ r.runq = s.runq /\ r.sleepq = s.sleepq /\ r.rem = s.rem
               /\ r.waitq = s.waitq /\ r.current = t /\ r.r0 = s.r0
<1> DEFINE r == cpu_context_restore_and_exit(s, t)
<1>1. s \in SchedState /\ Consistent(s) /\ SleepersSorted(s) /\ s.ok
  BY DEF Sound
<1>2. s.state \in [Threads -> ThreadState] /\ "RUNNING" \in ThreadState
  BY <1>1 DEF SchedState, ThreadState
<1>3. /\ r.ok = TRUE
      /\ r.state = [s.state EXCEPT ![t] = "RUNNING"]
      /\ r.runq = s.runq /\ r.sleepq = s.sleepq /\ r.rem = s.rem
      /\ r.waitq = s.waitq /\ r.current = t /\ r.r0 = s.r0
  BY <1>1 DEF cpu_context_restore_and_exit, SchedState
<1>4. r \in SchedState
  BY <1>1, <1>2, <1>3 DEF SchedState, cpu_context_restore_and_exit
<1> HIDE DEF r
<1>5. Consistent(r)
  BY <1>1, <1>2, <1>3, SchedAssumption DEF Consistent
<1>6. Floating(r) = Floating(s) \ {t}
  BY <1>2, <1>3 DEF Floating
<1>7. SleepersSorted(r)
  BY <1>1, <1>3 DEF SleepersSorted
<1> QED
  BY <1>3, <1>4, <1>5, <1>6, <1>7 DEF Sound, r

\* The passing of time changes deadlines only, and not their order.
LEMMA ElapseLemma ==
    ASSUME NEW s, Sound(s), NEW d \in Nat
    PROVE  LET r == Elapse(s, d)
           IN  /\ Sound(r) /\ Floating(r) = Floating(s)
               /\ r.state = s.state /\ r.runq = s.runq /\ r.sleepq = s.sleepq
               /\ r.waitq = s.waitq /\ r.current = s.current /\ r.r0 = s.r0
               /\ \A t \in Range(s.sleepq) :
                    r.rem[t] = IF s.rem[t] - d < 0 THEN -1 ELSE s.rem[t] - d
<1> DEFINE r == Elapse(s, d)
<1>1. s \in SchedState /\ Consistent(s) /\ SleepersSorted(s) /\ s.ok
  BY DEF Sound
<1>2. s.rem \in [Threads -> Int] /\ Range(s.sleepq) \subseteq Threads
  BY <1>1, RangeLemma DEF SchedState
<1>3. /\ r.ok = s.ok /\ r.state = s.state
      /\ r.runq = s.runq /\ r.sleepq = s.sleepq
      /\ r.waitq = s.waitq /\ r.current = s.current /\ r.r0 = s.r0
      /\ r.rem = [t \in Threads |->
            IF t \in Range(s.sleepq)
            THEN IF s.rem[t] - d < 0 THEN -1 ELSE s.rem[t] - d
            ELSE s.rem[t]]
  BY <1>1 DEF Elapse, SchedState
<1>4. r.rem \in [Threads -> Int]
  BY <1>2, <1>3
<1>5. r \in SchedState
  BY <1>1, <1>3, <1>4 DEF SchedState, Elapse
<1> HIDE DEF r
<1>6. Consistent(r)
  BY <1>1, <1>3 DEF Consistent
<1>7. Floating(r) = Floating(s)
  BY <1>3 DEF Floating
<1>8. \A t \in Range(s.sleepq) :
        /\ s.rem[t] \in Int
        /\ r.rem[t] = IF s.rem[t] - d < 0 THEN -1 ELSE s.rem[t] - d
  BY <1>2, <1>3
<1>9. SleepersSorted(r)
  <2> SUFFICES ASSUME NEW i \in DOMAIN s.sleepq, NEW j \in DOMAIN s.sleepq, i < j
               PROVE  r.rem[s.sleepq[i]] <= r.rem[s.sleepq[j]]
    BY <1>3 DEF SleepersSorted
  <2>1. s.sleepq[i] \in Range(s.sleepq) /\ s.sleepq[j] \in Range(s.sleepq)
    BY DEF Range
  <2>2. s.rem[s.sleepq[i]] <= s.rem[s.sleepq[j]]
    BY <1>1 DEF SleepersSorted
  <2> QED
    BY <1>8, <2>1, <2>2
<1> QED
  BY <1>1, <1>3, <1>5, <1>6, <1>7, <1>8, <1>9 DEF Sound, r

\* schedule_nanosleep takes a FLOATING thread and links it in the sleep queue only.
LEMMA NanosleepLemma ==
    ASSUME NEW s, Sound(s), NEW t \in Threads, s.state[t] = "FLOATING",
           NEW n \in Nat \ {0}
    PROVE  LET r == schedule_nanosleep(s, t, n)
           IN  /\ Sound(r) /\ Floating(r) = Floating(s) \ {t}
               /\ r.state = [s.state EXCEPT ![t] = "SLEEPING"]
               /\ r.runq = s.runq /\ Range(r.sleepq) = Range(s.sleepq) \cup {t}
               /\ r.rem = [s.rem EXCEPT ![t] = n]
               /\ r.waitq = s.waitq /\ r.current = s.current /\ r.r0 = s.r0
<1> DEFINE m == [s EXCEPT !.ok = @ /\ s.state[t] = "FLOATING" /\ ~Queued(s, t) /\ n > 0,
                          !.state[t] = "SLEEPING"]
           r == set_timeout(m, t, n)
<1>1. s \in SchedState /\ Consistent(s) /\ SleepersSorted(s) /\ s.ok
  BY DEF Sound
<1>2. s.state \in [Threads -> ThreadState] /\ "SLEEPING" \in ThreadState
  BY <1>1 DEF SchedState, ThreadState
<1>3. ~Queued(s, t) /\ t \notin Range(s.sleepq) /\ IsInjective(s.sleepq)
  BY <1>1, FloatingLemma DEF Consistent
<1>4. /\ m.ok = TRUE
      /\ m.state = [s.state EXCEPT ![t] = "SLEEPING"]
      /\ m.runq = s.runq /\ m.sleepq = s.sleepq /\ m.rem = s.rem
      /\ m.waitq = s.waitq /\ m.current = s.current /\ m.r0 = s.r0
  BY <1>1, <1>3 DEF SchedState
<1>5. m \in SchedState
  BY <1>1, <1>2, <1>4 DEF SchedState
<1>6. schedule_nanosleep(s, t, n) = r
  BY DEF schedule_nanosleep
<1> HIDE DEF m
<1>7. SleepersSorted(m)
  BY <1>1, <1>4 DEF SleepersSorted
<1>8. /\ r \in SchedState /\ r.ok /\ SleepersSorted(r) /\ IsInjective(r.sleepq)
      /\ Range(r.sleepq) = Range(s.sleepq) \cup {t}
      /\ r.rem = [s.rem EXCEPT ![t] = n]
      /\ r.state = [s.state EXCEPT ![t] = "SLEEPING"]
      /\ r.runq = s.runq /\ r.waitq = s.waitq /\ r.current = s.current /\ r.r0 = s.r0
  BY <1>3, <1>4, <1>5, <1>7, SetTimeoutLemma
<1> HIDE DEF r
<1>9. Consistent(r)
  BY <1>1, <1>2, <1>8 DEF Consistent
<1>10. Floating(r) = Floating(s) \ {t}
  BY <1>2, <1>8 DEF Floating
<1> QED
  BY <1>6, <1>8, <1>9, <1>10 DEF Sound

\* What the kernel writes to the registers of a thread changes nothing else.
LEMMA RegisterLemma ==
    ASSUME NEW s, Sound(s), NEW r \in SchedState, r.ok,
           r.state = s.state, r.runq = s.runq, r.sleepq = s.sleepq, r.rem = s.rem,
           r.waitq = s.waitq, r.current = s.current
    PROVE  Sound(r) /\ Floating(r) = Floating(s)
<1>1. Consistent(r)
  BY DEF Sound, Consistent
<1>2. SleepersSorted(r)
  BY DEF Sound, SleepersSorted
<1>3. Floating(r) = Floating(s)
  BY DEF Floating
<1> QED
  BY <1>1, <1>2, <1>3 DEF Sound

(***************************************************************************)
(* What one function makes of a sound state s, as a relation between s and *)
(* the result r.                                                           *)
(***************************************************************************)

\* t is linked at the tail of wait queue q.
Pushed(s, t, q, r) ==
    /\ Sound(r) /\ Floating(r) = Floating(s) \ {t}
    /\ t \notin Range(r.sleepq)
    /\ r.state = [s.state EXCEPT ![t] = "WAITING"]
    /\ r.runq = s.runq /\ r.sleepq = s.sleepq /\ r.rem = s.rem
    /\ r.waitq = [s.waitq EXCEPT ![q] = Append(@, t)]
    /\ Range(r.waitq[q]) = Range(s.waitq[q]) \cup {t}
    /\ r.current = s.current /\ r.r0 = s.r0

\* t, which waits, has a deadline n from now.
Timed(s, t, n, r) ==
    /\ Sound(r) /\ Floating(r) = Floating(s)
    /\ Range(r.sleepq) = Range(s.sleepq) \cup {t}
    /\ r.rem = [s.rem EXCEPT ![t] = n]
    /\ r.state = s.state /\ r.runq = s.runq /\ r.waitq = s.waitq
    /\ r.current = s.current /\ r.r0 = s.r0

\* t waits in q for at most n.
Parked(s, t, q, n, error, r) ==
    /\ Sound(r) /\ Floating(r) = Floating(s) \ {t}
    /\ r.state = [s.state EXCEPT ![t] = "WAITING"]
    /\ r.runq = s.runq
    /\ Range(r.sleepq) = Range(s.sleepq) \cup {t}
    /\ r.rem = [s.rem EXCEPT ![t] = n]
    /\ r.waitq = [s.waitq EXCEPT ![q] = Append(@, t)]
    /\ Range(r.waitq[q]) = Range(s.waitq[q]) \cup {t}
    /\ r.current = s.current
    /\ r.r0 = [s.r0 EXCEPT ![t] = error]

\* t, the head of wait queue q, has left q and the sleep queue.
Taken(s, t, q, r) ==
    /\ Sound(r) /\ Floating(r) = Floating(s) \cup {t}
    /\ t \in Threads /\ s.state[t] = "WAITING" /\ t \in Range(s.waitq[q])
    /\ r.state = [s.state EXCEPT ![t] = "FLOATING"]
    /\ r.runq = s.runq
    /\ Range(r.sleepq) = Range(s.sleepq) \ {t}
    /\ r.rem = [s.rem EXCEPT ![t] = 0]
    /\ r.waitq = [s.waitq EXCEPT ![q] = Tail(@)]
    /\ Range(r.waitq[q]) = Range(s.waitq[q]) \ {t}
    /\ r.current = s.current /\ r.r0 = s.r0

\* Thread::push_into links a FLOATING thread at the tail of one wait queue.
LEMMA PushLemma ==
    ASSUME NEW s, Sound(s), NEW t \in Threads, s.state[t] = "FLOATING", NEW q \in Queues
    PROVE  Pushed(s, t, q, push_into(s, t, q))
<1> DEFINE r == push_into(s, t, q)
<1>1. s \in SchedState /\ Consistent(s) /\ SleepersSorted(s) /\ s.ok
  BY DEF Sound
<1>2. /\ s.state \in [Threads -> ThreadState] /\ s.waitq \in [Queues -> Seq(Threads)]
      /\ s.waitq[q] \in Seq(Threads) /\ "WAITING" \in ThreadState
  BY <1>1 DEF SchedState, ThreadState
<1>3. /\ ~Queued(s, t) /\ t \notin Range(s.sleepq)
      /\ \A p \in Queues : t \notin Range(s.waitq[p])
  BY FloatingLemma
<1>4. /\ r.ok = TRUE
      /\ r.state = [s.state EXCEPT ![t] = "WAITING"]
      /\ r.runq = s.runq /\ r.sleepq = s.sleepq /\ r.rem = s.rem
      /\ r.waitq = [s.waitq EXCEPT ![q] = Append(s.waitq[q], t)]
      /\ r.current = s.current /\ r.r0 = s.r0
  BY <1>1, <1>3 DEF push_into, SchedState
<1>5. /\ r.waitq[q] \in Seq(Threads) /\ Range(r.waitq[q]) = Range(s.waitq[q]) \cup {t}
      /\ IsInjective(r.waitq[q])
  <2>1. /\ IsInjective(s.waitq[q]) /\ t \notin Range(s.waitq[q])
        /\ r.waitq[q] = Append(s.waitq[q], t)
    BY <1>1, <1>2, <1>3, <1>4 DEF Consistent
  <2> HIDE DEF r
  <2> QED
    BY <1>2, <2>1, AppendLemma
<1>6. \A p \in Queues \ {q} : r.waitq[p] = s.waitq[p]
  BY <1>2, <1>4
<1>7. r.state \in [Threads -> ThreadState] /\ r.waitq \in [Queues -> Seq(Threads)]
  BY <1>2, <1>4, <1>5
<1>8. r \in SchedState
  BY <1>1, <1>4, <1>7 DEF SchedState, push_into
<1> HIDE DEF r
<1>9. Consistent(r)
  <2>1. IsInjective(r.runq) /\ IsInjective(r.sleepq)
    BY <1>1, <1>4 DEF Consistent
  <2>2. \A p \in Queues : IsInjective(r.waitq[p])
    BY <1>1, <1>5, <1>6 DEF Consistent
  <2> SUFFICES ASSUME NEW u \in Threads
        PROVE  /\ r.state[u] = "READY" <=> u \in Range(r.runq)
               /\ r.state[u] = "WAITING" <=> \E p \in Queues : u \in Range(r.waitq[p])
               /\ \A p, o \in Queues :
                    u \in Range(r.waitq[p]) /\ u \in Range(r.waitq[o]) => p = o
               /\ r.state[u] = "SLEEPING" => u \in Range(r.sleepq)
               /\ u \in Range(r.sleepq) => r.state[u] \in {"SLEEPING", "WAITING"}
               /\ r.state[u] = "RUNNING" <=> u = r.current
    BY <2>1, <2>2 DEF Consistent
  <2>3. CASE u = t
    <3>1. /\ r.state[u] = "WAITING" /\ u \in Range(r.waitq[q])
          /\ \A p \in Queues : u \in Range(r.waitq[p]) => p = q
      BY <1>2, <1>3, <1>4, <1>5, <1>6, <2>3
    <3> QED
      BY <1>1, <1>4, <2>3, <3>1 DEF Consistent
  <2>4. CASE u # t
    <3>1. /\ r.state[u] = s.state[u]
          /\ \A p \in Queues : u \in Range(r.waitq[p]) <=> u \in Range(s.waitq[p])
      BY <1>2, <1>4, <1>5, <1>6, <2>4
    <3> QED
      BY <1>1, <1>4, <3>1 DEF Consistent
  <2> QED
    BY <2>3, <2>4
<1>10. Floating(r) = Floating(s) \ {t}
  BY <1>2, <1>4 DEF Floating
<1>11. SleepersSorted(r)
  BY <1>1, <1>4 DEF SleepersSorted
<1> QED
  BY <1>3, <1>4, <1>5, <1>8, <1>9, <1>10, <1>11 DEF Sound, Pushed, r

\* set_timeout gives a WAITING thread a deadline.
LEMMA WaitTimeoutLemma ==
    ASSUME NEW s, Sound(s), NEW t \in Threads, s.state[t] = "WAITING",
           t \notin Range(s.sleepq), NEW n \in Nat
    PROVE  Timed(s, t, n, set_timeout(s, t, n))
<1> DEFINE r == set_timeout(s, t, n)
<1>1. s \in SchedState /\ Consistent(s) /\ SleepersSorted(s) /\ s.ok
  BY DEF Sound
<1>2. /\ r \in SchedState /\ r.ok /\ SleepersSorted(r) /\ IsInjective(r.sleepq)
      /\ Range(r.sleepq) = Range(s.sleepq) \cup {t}
      /\ r.rem = [s.rem EXCEPT ![t] = n]
      /\ r.state = s.state /\ r.runq = s.runq /\ r.waitq = s.waitq
      /\ r.current = s.current /\ r.r0 = s.r0
  <2>1. IsInjective(s.sleepq)
    BY <1>1 DEF Consistent
  <2> QED
    BY <1>1, <2>1, SetTimeoutLemma
<1> HIDE DEF r
<1>3. Consistent(r)
  BY <1>1, <1>2 DEF Consistent
<1>4. Floating(r) = Floating(s)
  BY <1>2 DEF Floating
<1> QED
  BY <1>2, <1>3, <1>4 DEF Sound, Timed, r

\* schedule_queue_with_timeout parks a FLOATING thread on a queue with a deadline, and
\* the error that the timeout will leave in its R0.
LEMMA QueueWithTimeoutLemma ==
    ASSUME NEW s, Sound(s), NEW t \in Threads, s.state[t] = "FLOATING",
           NEW q \in Queues, NEW n \in Nat \ {0}, NEW error \in R0Value
    PROVE  Parked(s, t, q, n, error, schedule_queue_with_timeout(s, t, q, n, error))
<1> DEFINE a == [s EXCEPT !.ok = @ /\ n > 0, !.r0[t] = error]
           b == push_into(a, t, q)
           r == set_timeout(b, t, n)
<1>1. schedule_queue_with_timeout(s, t, q, n, error) = r
  BY DEF schedule_queue_with_timeout
<1>2. /\ a \in SchedState /\ a.ok
      /\ a.state = s.state /\ a.runq = s.runq /\ a.sleepq = s.sleepq /\ a.rem = s.rem
      /\ a.waitq = s.waitq /\ a.current = s.current
      /\ a.r0 = [s.r0 EXCEPT ![t] = error]
  <2>1. s \in SchedState /\ s.ok /\ n > 0
    BY DEF Sound
  <2>2. [s.r0 EXCEPT ![t] = error] \in [Threads -> R0Value]
    BY <2>1 DEF SchedState
  <2> QED
    BY <2>1, <2>2 DEF SchedState
<1> HIDE DEF a
<1>3. Sound(a) /\ Floating(a) = Floating(s)
  BY <1>2, RegisterLemma
<1>4. Pushed(a, t, q, b)
  BY <1>2, <1>3, PushLemma
<1> HIDE DEF b
<1>5. Timed(b, t, n, r)
  <2>1. /\ Sound(b) /\ t \notin Range(b.sleepq)
        /\ b.state = [a.state EXCEPT ![t] = "WAITING"]
    BY <1>4 DEF Pushed
  <2>2. b.state[t] = "WAITING" /\ n \in Nat
    BY <1>3, <2>1 DEF Sound, SchedState
  <2> QED
    BY <2>1, <2>2, WaitTimeoutLemma
<1> HIDE DEF r
<1>6. Parked(s, t, q, n, error, r)
  BY <1>2, <1>3, <1>4, <1>5 DEF Pushed, Timed, Parked
<1> QED
  BY <1>1, <1>6

\* Thread::pop_from takes the head off a wait queue; the thread leaves the sleep queue
\* as well, and is FLOATING from then on.
LEMMA TakeLemma ==
    ASSUME NEW s, Sound(s), NEW q \in Queues, s.waitq[q] # << >>
    PROVE  Taken(s, Head(s.waitq[q]), q, pop_from(s, q))
<1> DEFINE t == Head(s.waitq[q])
           r == pop_from(s, q)
<1>1. s \in SchedState /\ Consistent(s) /\ SleepersSorted(s) /\ s.ok
  BY DEF Sound
<1>2. /\ s.state \in [Threads -> ThreadState] /\ s.sleepq \in Seq(Threads)
      /\ s.waitq \in [Queues -> Seq(Threads)] /\ s.rem \in [Threads -> Int]
      /\ IsInjective(s.sleepq)
  BY <1>1 DEF SchedState, Consistent
<1>3. /\ t \in Threads /\ t \in Range(s.waitq[q])
      /\ Tail(s.waitq[q]) \in Seq(Threads) /\ IsInjective(Tail(s.waitq[q]))
      /\ Range(Tail(s.waitq[q])) = Range(s.waitq[q]) \ {t}
  <2> DEFINE w == s.waitq[q]
  <2>1. w \in Seq(Threads) /\ w # << >> /\ IsInjective(w)
    BY <1>1, <1>2 DEF Consistent
  <2> HIDE DEF w
  <2>2. /\ Head(w) \in Threads /\ Head(w) \in Range(w)
        /\ Tail(w) \in Seq(Threads) /\ IsInjective(Tail(w))
        /\ Range(Tail(w)) = Range(w) \ {Head(w)}
    BY <2>1, TailLemma
  <2> QED
    BY <2>2 DEF w
<1>5. Range(s.sleepq) \subseteq Threads
  BY <1>2, RangeLemma
<1>4. /\ Without(s.sleepq, {t}) \in Seq(Threads)
      /\ IsInjective(Without(s.sleepq, {t}))
      /\ Range(Without(s.sleepq, {t})) = Range(s.sleepq) \ {t}
  BY <1>2, WithoutLemma
<1> HIDE DEF t
<1>8. s.state[t] = "WAITING"
  BY <1>1, <1>3 DEF Consistent
<1>6. /\ r.ok = TRUE
      /\ r.state = [s.state EXCEPT ![t] = "FLOATING"]
      /\ r.runq = s.runq /\ r.sleepq = Without(s.sleepq, {t})
      /\ r.rem = [s.rem EXCEPT ![t] = 0]
      /\ r.waitq = [s.waitq EXCEPT ![q] = Tail(@)]
      /\ r.current = s.current /\ r.r0 = s.r0
  BY <1>1, <1>8 DEF pop_from, queue_pop, cancel, SchedState, t
<1>12. /\ r.state \in [Threads -> ThreadState]
       /\ r.waitq \in [Queues -> Seq(Threads)]
       /\ r.rem \in [Threads -> Int]
  <2>1. "FLOATING" \in ThreadState
    BY DEF ThreadState
  <2> QED
    BY <1>2, <1>3, <1>6, <2>1
<1>13. r \in SchedState
  BY <1>1, <1>4, <1>6, <1>12 DEF SchedState, pop_from, queue_pop, cancel
<1> HIDE DEF r
<1>7. /\ r.waitq[q] = Tail(s.waitq[q])
      /\ \A p \in Queues \ {q} : r.waitq[p] = s.waitq[p]
      /\ r.state[t] = "FLOATING"
      /\ \A u \in Threads \ {t} : r.state[u] = s.state[u]
  BY <1>2, <1>3, <1>6
<1>9. Consistent(r)
  <2>1. IsInjective(r.runq) /\ IsInjective(r.sleepq)
    BY <1>1, <1>4, <1>6 DEF Consistent
  <2>2. \A p \in Queues : IsInjective(r.waitq[p])
    BY <1>1, <1>3, <1>7 DEF Consistent
  <2> SUFFICES ASSUME NEW u \in Threads
        PROVE  /\ r.state[u] = "READY" <=> u \in Range(r.runq)
               /\ r.state[u] = "WAITING" <=> \E p \in Queues : u \in Range(r.waitq[p])
               /\ \A p, o \in Queues :
                    u \in Range(r.waitq[p]) /\ u \in Range(r.waitq[o]) => p = o
               /\ r.state[u] = "SLEEPING" => u \in Range(r.sleepq)
               /\ u \in Range(r.sleepq) => r.state[u] \in {"SLEEPING", "WAITING"}
               /\ r.state[u] = "RUNNING" <=> u = r.current
    BY <2>1, <2>2 DEF Consistent
  <2>3. CASE u = t
    <3>1. \A p \in Queues : t \notin Range(r.waitq[p])
      BY <1>1, <1>3, <1>7 DEF Consistent
    <3>2. t \notin Range(r.runq) /\ t \notin Range(r.sleepq) /\ t # r.current
      BY <1>1, <1>3, <1>4, <1>6, <1>8 DEF Consistent
    <3>3. r.state[u] = "FLOATING"
      BY <1>7, <2>3
    <3> QED
      BY <2>3, <3>1, <3>2, <3>3
  <2>4. CASE u # t
    <3>1. \A p \in Queues : u \in Range(r.waitq[p]) <=> u \in Range(s.waitq[p])
      BY <1>3, <1>7, <2>4
    <3>2. u \in Range(r.sleepq) <=> u \in Range(s.sleepq)
      BY <1>4, <1>6, <2>4
    <3> QED
      BY <1>1, <1>6, <1>7, <2>4, <3>1, <3>2 DEF Consistent
  <2> QED
    BY <2>3, <2>4
<1>10. SleepersSorted(r)
  <2> DEFINE S == {t}
  <2>1. \A u \in Range(s.sleepq) \ S : r.rem[u] = s.rem[u]
    BY <1>2, <1>5, <1>6
  <2>2. /\ s \in SchedState /\ SleepersSorted(s) /\ IsInjective(s.sleepq)
        /\ r.sleepq = Without(s.sleepq, S)
    BY <1>1, <1>2, <1>6
  <2> HIDE DEF S
  <2> QED
    BY <2>1, <2>2, UnlinkLemma
<1>11. Floating(r) = Floating(s) \cup {t}
  BY <1>3, <1>7 DEF Floating
<1>14. Sound(r)
  BY <1>6, <1>9, <1>10, <1>13 DEF Sound
<1> QED
  BY <1>3, <1>4, <1>6, <1>7, <1>8, <1>11, <1>14 DEF Taken, r, t

\* A queue that nobody is in is empty.
LEMMA NobodyWaitsLemma ==
    ASSUME NEW s \in SchedState, NEW q \in Queues
    PROVE  s.waitq[q] = << >> <=> Range(s.waitq[q]) = {}
<1> DEFINE w == s.waitq[q]
<1>1. w \in Seq(Threads)
  BY DEF SchedState
<1> HIDE DEF w
<1>2. w # << >> => Head(w) \in Range(w)
  BY <1>1, TailLemma
<1>3. Range(<< >>) = {}
  BY EmptyLemma
<1> QED
  BY <1>2, <1>3 DEF w

\* A waiter is WAITING and is not the current thread.
LEMMA WaiterLemma ==
    ASSUME NEW s, Sound(s), NEW q \in Queues, NEW t \in Range(s.waitq[q])
    PROVE  t \in Threads /\ s.state[t] = "WAITING" /\ t # s.current
<1>1. s.waitq[q] \in Seq(Threads)
  BY DEF Sound, SchedState
<1>2. t \in Threads
  BY <1>1, RangeLemma
<1> QED
  BY <1>2 DEF Sound, Consistent

\* t, the head of wait queue q, is ready to run with v in its R0.
Woken(s, t, q, v, r) ==
    /\ Sound(r) /\ Floating(r) = Floating(s)
    /\ t \in Threads /\ s.state[t] = "WAITING" /\ t \in Range(s.waitq[q])
    /\ r.state = [s.state EXCEPT ![t] = "READY"]
    /\ r.runq = Append(s.runq, t)
    /\ Range(r.sleepq) = Range(s.sleepq) \ {t}
    /\ r.rem = [s.rem EXCEPT ![t] = 0]
    /\ r.waitq = [s.waitq EXCEPT ![q] = Tail(@)]
    /\ Range(r.waitq[q]) = Range(s.waitq[q]) \ {t}
    /\ r.current = s.current
    /\ r.r0 = [s.r0 EXCEPT ![t] = v]

\* Every thread of wait queue q is ready to run with v in its R0.
AllWoken(s, q, v, r) ==
    LET woken == Range(s.waitq[q])
    IN  /\ Sound(r) /\ Floating(r) = Floating(s)
        /\ woken \subseteq Threads
        /\ \A t \in woken : s.state[t] = "WAITING"
        /\ r.state = [t \in Threads |-> IF t \in woken THEN "READY" ELSE s.state[t]]
        /\ r.runq = s.runq \o s.waitq[q]
        /\ Range(r.sleepq) = Range(s.sleepq) \ woken
        /\ r.rem = [t \in Threads |-> IF t \in woken THEN 0 ELSE s.rem[t]]
        /\ r.waitq = [s.waitq EXCEPT ![q] = << >>]
        /\ r.current = s.current
        /\ r.r0 = [t \in Threads |-> IF t \in woken THEN v ELSE s.r0[t]]

\* queue_pop and schedule_wake: the head of a wait queue becomes ready, and its timeout
\* is cancelled.
LEMMA WakeLemma ==
    ASSUME NEW s, Sound(s), NEW q \in Queues, s.waitq[q] # << >>, NEW v \in R0Value
    PROVE  LET t == Head(s.waitq[q])
           IN  Woken(s, t, q, v, schedule_wake(queue_pop(s, q), t, v))
<1> DEFINE t == Head(s.waitq[q])
           p == pop_from(s, q)
           a == cancel([queue_pop(s, q) EXCEPT
                            !.ok = /\ @
                                   /\ queue_pop(s, q).state[t] \in {"SLEEPING", "WAITING"}
                                   /\ ~Queued(queue_pop(s, q), t),
                            !.state[t] = "FLOATING",
                            !.r0[t] = v],
                       t)
           r == schedule_ready(a, t)
<1>1. Taken(s, t, q, p)
  BY TakeLemma
<1>2. s \in SchedState /\ s.ok /\ p \in SchedState /\ p.ok
  BY <1>1 DEF Taken, Sound
<1>3. schedule_wake(queue_pop(s, q), t, v) = r
  BY DEF schedule_wake
<1>4. /\ Sound(p) /\ t \in Threads /\ s.state[t] = "WAITING"
      /\ p.state = [s.state EXCEPT ![t] = "FLOATING"]
      /\ p.runq = s.runq /\ p.rem = [s.rem EXCEPT ![t] = 0]
      /\ p.waitq = [s.waitq EXCEPT ![q] = Tail(@)]
  BY <1>1 DEF Taken
<1>5. s.state \in [Threads -> ThreadState] /\ s.r0 \in [Threads -> R0Value]
  BY <1>2 DEF SchedState
<1>6. p.state[t] = "FLOATING"
  BY <1>4, <1>5
<1>7. ~Queued(p, t)
  BY <1>4, <1>6, FloatingLemma
<1>8. p.sleepq = Without(s.sleepq, {t}) /\ p.current = s.current
  BY <1>2 DEF pop_from, cancel, queue_pop, SchedState, t
<1> HIDE DEF t, p
<1>9. ~Queued(queue_pop(s, q), t)
  BY <1>2, <1>4, <1>7 DEF Queued, queue_pop, SchedState
<1>10. /\ a.ok = TRUE
       /\ a.state = [s.state EXCEPT ![t] = "FLOATING"]
       /\ a.runq = s.runq /\ a.sleepq = Without(s.sleepq, {t})
       /\ a.rem = [s.rem EXCEPT ![t] = 0]
       /\ a.waitq = [s.waitq EXCEPT ![q] = Tail(@)]
       /\ a.current = s.current
       /\ a.r0 = [s.r0 EXCEPT ![t] = v]
  BY <1>2, <1>4, <1>9 DEF queue_pop, cancel, SchedState
<1>11. a.r0 \in [Threads -> R0Value]
  BY <1>5, <1>10
<1>12. /\ a.state = p.state /\ a.runq = p.runq /\ a.sleepq = p.sleepq /\ a.rem = p.rem
       /\ a.waitq = p.waitq /\ a.current = p.current
  BY <1>4, <1>8, <1>10
<1> HIDE DEF a
<1>14. a \in SchedState
  BY <1>2, <1>10, <1>11, <1>12 DEF SchedState, cancel, queue_pop, a
<1>15. Sound(a) /\ Floating(a) = Floating(p)
  BY <1>4, <1>10, <1>12, <1>14, RegisterLemma
<1>16. /\ Sound(r) /\ Floating(r) = Floating(a) \ {t}
       /\ r.state = [a.state EXCEPT ![t] = "READY"]
       /\ r.runq = Append(a.runq, t)
       /\ r.sleepq = a.sleepq /\ r.rem = a.rem /\ r.waitq = a.waitq
       /\ r.current = a.current /\ r.r0 = a.r0
  <2>1. a.state[t] = "FLOATING"
    BY <1>6, <1>12
  <2> QED
    BY <1>4, <1>15, <2>1, ReadyLemma
<1> HIDE DEF r
<1>17. /\ r.state = [s.state EXCEPT ![t] = "READY"]
       /\ Floating(r) = Floating(s)
  <2>1. t \notin Floating(s)
    BY <1>4 DEF Floating
  <2>2. Floating(p) = Floating(s) \cup {t}
    BY <1>1 DEF Taken
  <2> QED
    BY <1>5, <1>10, <1>15, <1>16, <2>1, <2>2
<1>18. Woken(s, t, q, v, r)
  <2>1. /\ t \in Range(s.waitq[q]) /\ Range(p.sleepq) = Range(s.sleepq) \ {t}
        /\ Range(p.waitq[q]) = Range(s.waitq[q]) \ {t}
    BY <1>1 DEF Taken
  <2> QED
    BY <1>4, <1>10, <1>12, <1>16, <1>17, <2>1 DEF Woken
<1> QED
  BY <1>3, <1>18 DEF t

\* schedule_wake_all: every thread of a wait queue becomes ready, in the order in which
\* they came, and their timeouts are cancelled.
LEMMA WakeAllLemma ==
    ASSUME NEW s, Sound(s), NEW q \in Queues, NEW v \in R0Value
    PROVE  AllWoken(s, q, v, schedule_wake_all(s, q, v))
<1> DEFINE woken == Range(s.waitq[q])
           r == schedule_wake_all(s, q, v)
<1>1. s \in SchedState /\ Consistent(s) /\ SleepersSorted(s) /\ s.ok
  BY DEF Sound
<1>2. /\ s.state \in [Threads -> ThreadState] /\ s.sleepq \in Seq(Threads)
      /\ s.runq \in Seq(Threads) /\ s.waitq \in [Queues -> Seq(Threads)]
      /\ s.rem \in [Threads -> Int] /\ s.r0 \in [Threads -> R0Value]
      /\ "READY" \in ThreadState
      /\ s.waitq[q] \in Seq(Threads) /\ IsInjective(s.waitq[q])
      /\ IsInjective(s.sleepq) /\ IsInjective(s.runq)
  BY <1>1 DEF SchedState, ThreadState, Consistent
<1>3. woken \subseteq Threads
  BY <1>2, RangeLemma
<1>4. \A t \in woken : s.state[t] = "WAITING"
  BY <1>1, <1>3 DEF Consistent
<1>5. \A t \in woken : \A p \in Queues \ {q} : t \notin Range(s.waitq[p])
  BY <1>1, <1>3 DEF Consistent
<1>6. << >> \in Seq(Threads) /\ Range(<< >>) = {} /\ IsInjective(<< >>)
  BY EmptyLemma
<1>7. \A t \in woken : ~Queued(queue_drain(s, q), t)
  <2>1. /\ queue_drain(s, q).runq = s.runq
        /\ queue_drain(s, q).waitq = [s.waitq EXCEPT ![q] = << >>]
    BY <1>1 DEF queue_drain, SchedState
  <2>2. \A t \in woken : t \notin Range(s.runq)
    BY <1>1, <1>3, <1>4 DEF Consistent
  <2> QED
    BY <1>2, <1>5, <1>6, <2>1, <2>2 DEF Queued
<1>8. /\ r.ok = TRUE
      /\ r.state = [t \in Threads |-> IF t \in woken THEN "READY" ELSE s.state[t]]
      /\ r.runq = s.runq \o s.waitq[q]
      /\ r.sleepq = Without(s.sleepq, woken)
      /\ r.rem = [t \in Threads |-> IF t \in woken THEN 0 ELSE s.rem[t]]
      /\ r.waitq = [s.waitq EXCEPT ![q] = << >>]
      /\ r.current = s.current
      /\ r.r0 = [t \in Threads |-> IF t \in woken THEN v ELSE s.r0[t]]
  BY <1>1, <1>4, <1>7 DEF schedule_wake_all, SchedState
<1> HIDE DEF r
<1>10. /\ r.sleepq \in Seq(Threads) /\ IsInjective(r.sleepq)
       /\ Range(r.sleepq) = Range(s.sleepq) \ woken
  BY <1>2, <1>8, WithoutLemma
<1>11. /\ r.runq \in Seq(Threads) /\ IsInjective(r.runq)
       /\ Range(r.runq) = Range(s.runq) \cup woken
  <2> DEFINE a == s.runq
             b == s.waitq[q]
  <2>1. Range(a) \cap Range(b) = {}
    BY <1>1, <1>3, <1>4 DEF Consistent
  <2>2. /\ a \in Seq(Threads) /\ b \in Seq(Threads)
        /\ IsInjective(a) /\ IsInjective(b)
    BY <1>2
  <2> HIDE DEF a, b
  <2>3. a \o b \in Seq(Threads) /\ IsInjective(a \o b) /\ Range(a \o b) = Range(a) \cup Range(b)
    BY <2>1, <2>2, ConcatLemma
  <2> QED
    BY <1>8, <2>3 DEF a, b
<1>12. /\ r.waitq[q] = << >>
       /\ \A p \in Queues \ {q} : r.waitq[p] = s.waitq[p]
       /\ \A t \in woken : r.state[t] = "READY"
       /\ \A t \in Threads \ woken : r.state[t] = s.state[t]
  BY <1>2, <1>3, <1>8
<1>13. /\ r.state \in [Threads -> ThreadState] /\ r.rem \in [Threads -> Int]
       /\ r.waitq \in [Queues -> Seq(Threads)] /\ r.r0 \in [Threads -> R0Value]
  BY <1>2, <1>6, <1>8
<1>14. r \in SchedState
  BY <1>1, <1>8, <1>10, <1>11, <1>13 DEF SchedState, schedule_wake_all, r
<1> HIDE DEF woken
<1>15. Consistent(r)
  <2>2. \A p \in Queues : IsInjective(r.waitq[p])
    BY <1>1, <1>6, <1>12 DEF Consistent
  <2> SUFFICES ASSUME NEW u \in Threads
        PROVE  /\ r.state[u] = "READY" <=> u \in Range(r.runq)
               /\ r.state[u] = "WAITING" <=> \E p \in Queues : u \in Range(r.waitq[p])
               /\ \A p, o \in Queues :
                    u \in Range(r.waitq[p]) /\ u \in Range(r.waitq[o]) => p = o
               /\ r.state[u] = "SLEEPING" => u \in Range(r.sleepq)
               /\ u \in Range(r.sleepq) => r.state[u] \in {"SLEEPING", "WAITING"}
               /\ r.state[u] = "RUNNING" <=> u = r.current
    BY <1>10, <1>11, <2>2 DEF Consistent
  <2>3. CASE u \in woken
    <3>1. \A p \in Queues : u \notin Range(r.waitq[p])
      BY <1>5, <1>6, <1>12, <2>3
    <3>2. r.state[u] = "READY" /\ u \in Range(r.runq) /\ u \notin Range(r.sleepq)
      BY <1>10, <1>11, <1>12, <2>3
    <3>3. u # r.current
      BY <1>1, <1>3, <1>4, <1>8, <2>3 DEF Consistent
    <3> QED
      BY <3>1, <3>2, <3>3
  <2>4. CASE u \notin woken
    <3>1. \A p \in Queues : u \in Range(r.waitq[p]) <=> u \in Range(s.waitq[p])
      BY <1>6, <1>12, <2>4 DEF woken
    <3>2. /\ u \in Range(r.sleepq) <=> u \in Range(s.sleepq)
          /\ u \in Range(r.runq) <=> u \in Range(s.runq)
          /\ r.state[u] = s.state[u] /\ r.current = s.current
      BY <1>8, <1>10, <1>11, <1>12, <2>4
    <3> QED
      BY <1>1, <3>1, <3>2 DEF Consistent
  <2> QED
    BY <2>3, <2>4
<1>16. SleepersSorted(r)
  <2>1. \A u \in Range(s.sleepq) \ woken : r.rem[u] = s.rem[u]
    <3>1. Range(s.sleepq) \subseteq Threads
      BY <1>2, RangeLemma
    <3> QED
      BY <1>8, <3>1
  <2>2. /\ s \in SchedState /\ SleepersSorted(s) /\ IsInjective(s.sleepq)
        /\ r.sleepq = Without(s.sleepq, woken)
    BY <1>1, <1>2, <1>8
  <2> QED
    BY <2>1, <2>2, UnlinkLemma
<1>17. Floating(r) = Floating(s)
  BY <1>3, <1>4, <1>12 DEF Floating
<1>18. Sound(r)
  BY <1>8, <1>14, <1>15, <1>16 DEF Sound
<1> QED
  BY <1>3, <1>4, <1>8, <1>10, <1>17, <1>18 DEF AllWoken, woken, r

\* The thread that enters the kernel is in its hands, and no other is.
Saved(s, v, r) ==
    LET t == s.current
    IN  /\ Sound(r) /\ Floating(r) = {t}
        /\ t \in Threads /\ s.state[t] = "RUNNING" /\ r.state[t] = "FLOATING"
        /\ t \notin Range(s.sleepq)
        /\ r.state = [s.state EXCEPT ![t] = "FLOATING"]
        /\ r.runq = s.runq /\ r.sleepq = s.sleepq /\ r.rem = s.rem
        /\ r.waitq = s.waitq /\ r.current = Nobody
        /\ r.r0 = [s.r0 EXCEPT ![t] = v]

\* cpu_context_save, at the start of a kernel entry
LEMMA EntryLemma ==
    ASSUME NEW s, Sound(s), Floating(s) = {}, s.current # Nobody, NEW v \in R0Value
    PROVE  Saved(s, v, cpu_context_save(s, v))
<1> DEFINE r == cpu_context_save(s, v)
           t == s.current
<1>1. /\ Sound(r) /\ Floating(r) = Floating(s) \cup {t}
      /\ t \in Threads /\ s.state[t] = "RUNNING"
      /\ r.state = [s.state EXCEPT ![t] = "FLOATING"]
      /\ r.runq = s.runq /\ r.sleepq = s.sleepq /\ r.rem = s.rem
      /\ r.waitq = s.waitq /\ r.current = Nobody
      /\ r.r0 = [s.r0 EXCEPT ![t] = v]
  BY SaveLemma
<1>2. t \notin Range(s.sleepq)
  BY CurrentLemma
<1> HIDE DEF r, t
<1>3. Floating(r) = {t} /\ r.state[t] = "FLOATING"
  BY <1>1 DEF Floating
<1> QED
  BY <1>1, <1>2, <1>3 DEF Saved, r, t

\* wakeup_sleepers moves every thread whose deadline is past to the run queue, and
\* no other: its asserts and its panic are passed, and each thread it wakes leaves
\* every queue it was linked in.
LEMMA WakeupLemma ==
    ASSUME NEW s, Sound(s)
    PROVE  LET r == wakeup_sleepers(s)
               woken == {t \in Range(s.sleepq) : s.rem[t] < 0}
           IN  /\ Sound(r) /\ Floating(r) = Floating(s)
               /\ woken \subseteq Threads
               /\ r.state = [t \in Threads |-> IF t \in woken THEN "READY" ELSE s.state[t]]
               /\ \E due \in Seq(Threads) : r.runq = s.runq \o due
               /\ Range(r.sleepq) = Range(s.sleepq) \ woken
               /\ \A t \in Threads \ woken : r.rem[t] = s.rem[t]
               /\ \A q \in Queues : Range(r.waitq[q]) = Range(s.waitq[q]) \ woken
               /\ r.current = s.current /\ r.r0 = s.r0
<1> DEFINE n == DueCount(s)
           len == Len(s.sleepq)
           due == SubSeq(s.sleepq, 1, n)
           rest == SubSeq(s.sleepq, n + 1, Len(s.sleepq))
           woken == Range(due)
           r == wakeup_sleepers(s)
<1>1. s \in SchedState /\ Consistent(s) /\ SleepersSorted(s) /\ s.ok
  BY DEF Sound
<1>2. /\ s.state \in [Threads -> ThreadState] /\ s.sleepq \in Seq(Threads)
      /\ s.runq \in Seq(Threads) /\ s.waitq \in [Queues -> Seq(Threads)]
      /\ s.rem \in [Threads -> Int] /\ "READY" \in ThreadState
  BY <1>1 DEF SchedState, ThreadState
<1>3. /\ due \in Seq(Threads) /\ rest \in Seq(Threads)
      /\ IsInjective(due) /\ IsInjective(rest)
      /\ woken \cup Range(rest) = Range(s.sleepq)
      /\ woken \cap Range(rest) = {}
  <2>1. n \in 0..Len(s.sleepq) /\ IsInjective(s.sleepq)
    BY <1>1, DueCountLemma DEF Consistent
  <2> HIDE DEF n
  <2> QED
    BY <1>2, <2>1, CutLemma
<1>4. woken \subseteq Threads
  BY <1>3, RangeLemma
<1>5. \A t \in woken :
        \/ s.state[t] = "WAITING" /\ Queued(s, t)
        \/ s.state[t] = "SLEEPING" /\ ~Queued(s, t)
  BY <1>1, <1>3, <1>4 DEF Consistent, Queued
<1>6. /\ r.ok = TRUE
      /\ r.state = [t \in Threads |-> IF t \in woken THEN "READY" ELSE s.state[t]]
      /\ r.runq = s.runq \o due
      /\ r.sleepq = rest
      /\ r.rem = [t \in Threads |-> IF t \in woken THEN 0 ELSE s.rem[t]]
      /\ r.waitq = [q \in Queues |-> Without(s.waitq[q], woken)]
      /\ r.current = s.current /\ r.r0 = s.r0
  BY <1>1, <1>5 DEF wakeup_sleepers, SchedState
<1>7. /\ n \in 0..len /\ len \in Nat
      /\ DOMAIN s.sleepq = 1..len
      /\ \A i \in 1..len : s.rem[s.sleepq[i]] < 0 <=> i <= n
      /\ DOMAIN due = 1..n /\ \A i \in 1..n : due[i] = s.sleepq[i]
      /\ DOMAIN rest = 1..len - n /\ \A i \in 1..len - n : rest[i] = s.sleepq[n + i]
  <2>1. n \in 0..len /\ \A i \in 1..len : s.rem[s.sleepq[i]] < 0 <=> i <= n
    BY <1>1, DueCountLemma
  <2> HIDE DEF n
  <2> QED
    BY <1>2, <2>1, SMTT(30)
<1> HIDE DEF n, due, rest, woken, len
<1>8. woken = {t \in Range(s.sleepq) : s.rem[t] < 0}
  <2>1. \A i \in 1..n : i \in 1..len /\ s.rem[s.sleepq[i]] < 0
    BY <1>7
  <2>2. woken \subseteq {t \in Range(s.sleepq) : s.rem[t] < 0}
    BY <1>7, <2>1 DEF woken, Range
  <2>3. \A i \in 1..len : s.rem[s.sleepq[i]] < 0 => i \in 1..n
    BY <1>7
  <2>4. {t \in Range(s.sleepq) : s.rem[t] < 0} \subseteq woken
    BY <1>7, <2>3 DEF woken, Range
  <2> QED
    BY <2>2, <2>4
<1>9. Range(s.runq) \cap woken = {}
  BY <1>1, <1>4, <1>5 DEF Consistent
<1>10. /\ r.runq \in Seq(Threads) /\ IsInjective(r.runq)
       /\ Range(r.runq) = Range(s.runq) \cup woken
  <2>1. IsInjective(s.runq) /\ Range(s.runq) \cap Range(due) = {}
    BY <1>1, <1>9 DEF Consistent, woken
  <2> QED
    BY <1>2, <1>3, <1>6, <2>1, ConcatLemma DEF woken
<1>11. \A q \in Queues :
        /\ r.waitq[q] \in Seq(Threads) /\ IsInjective(r.waitq[q])
        /\ Range(r.waitq[q]) = Range(s.waitq[q]) \ woken
  BY <1>1, <1>2, <1>6, WithoutLemma DEF Consistent
<1>12. /\ r.waitq \in [Queues -> Seq(Threads)]
       /\ r.state \in [Threads -> ThreadState]
       /\ r.rem \in [Threads -> Int]
  BY <1>2, <1>6, <1>11
<1>13. r \in SchedState
  BY <1>1, <1>3, <1>6, <1>10, <1>12 DEF SchedState, wakeup_sleepers
<1> HIDE DEF r
<1>14. Consistent(r)
  <2>1. IsInjective(r.runq) /\ IsInjective(r.sleepq)
    BY <1>3, <1>6, <1>10
  <2>2. \A q \in Queues : IsInjective(r.waitq[q])
    BY <1>11
  <2> SUFFICES ASSUME NEW t \in Threads
        PROVE  /\ r.state[t] = "READY" <=> t \in Range(r.runq)
               /\ r.state[t] = "WAITING" <=> \E q \in Queues : t \in Range(r.waitq[q])
               /\ \A q, p \in Queues :
                    t \in Range(r.waitq[q]) /\ t \in Range(r.waitq[p]) => q = p
               /\ r.state[t] = "SLEEPING" => t \in Range(r.sleepq)
               /\ t \in Range(r.sleepq) => r.state[t] \in {"SLEEPING", "WAITING"}
               /\ r.state[t] = "RUNNING" <=> t = r.current
    BY <2>1, <2>2 DEF Consistent
  <2>3. r.state[t] = IF t \in woken THEN "READY" ELSE s.state[t]
    BY <1>6
  <2>4. CASE t \in woken
    <3>1. /\ r.state[t] = "READY" /\ t \in Range(r.runq) /\ t \notin Range(r.sleepq)
          /\ \A q \in Queues : t \notin Range(r.waitq[q])
      BY <1>3, <1>6, <1>10, <1>11, <2>3, <2>4
    <3>2. t # r.current
      BY <1>1, <1>5, <1>6, <2>4 DEF Consistent
    <3> QED
      BY <3>1, <3>2
  <2>5. CASE t \notin woken
    BY <1>1, <1>3, <1>6, <1>10, <1>11, <2>3, <2>5 DEF Consistent
  <2> QED
    BY <2>4, <2>5
<1>15. Floating(r) = Floating(s)
  BY <1>2, <1>5, <1>6 DEF Floating
<1>16. SleepersSorted(r)
  <2>1. \A i \in DOMAIN rest :
            /\ n + i \in DOMAIN s.sleepq /\ rest[i] = s.sleepq[n + i]
            /\ rest[i] \in Threads /\ rest[i] \notin woken
    <3> SUFFICES ASSUME NEW i \in DOMAIN rest
                 PROVE  /\ n + i \in DOMAIN s.sleepq /\ rest[i] = s.sleepq[n + i]
                        /\ rest[i] \in Threads /\ rest[i] \notin woken
      OBVIOUS
    <3>1. i \in 1..len - n /\ n + i \in 1..len
      BY <1>7
    <3>2. rest[i] \in Range(rest)
      BY DEF Range
    <3>3. rest[i] \in Threads /\ rest[i] \notin woken
      BY <1>2, <1>3, <3>2
    <3>4. n + i \in DOMAIN s.sleepq /\ rest[i] = s.sleepq[n + i]
      BY <1>7, <3>1
    <3> QED
      BY <3>3, <3>4
  <2>2. \A i \in DOMAIN rest : r.rem[rest[i]] = s.rem[s.sleepq[n + i]]
    BY <1>6, <2>1
  <2>3. \A i, j \in DOMAIN rest : i < j => n + i < n + j
    BY <1>7
  <2> QED
    BY <1>1, <1>6, <2>1, <2>2, <2>3 DEF SleepersSorted
<1>17. Range(r.sleepq) = Range(s.sleepq) \ woken
  BY <1>3, <1>6
<1>18. \A t \in Threads \ woken : r.rem[t] = s.rem[t]
  BY <1>6
<1>19. \E x \in Seq(Threads) : r.runq = s.runq \o x
  BY <1>3, <1>6
<1>20. Sound(r)
  BY <1>6, <1>13, <1>14, <1>16 DEF Sound
<1> QED
  BY <1>4, <1>6, <1>8, <1>11, <1>15, <1>17, <1>18, <1>19, <1>20 DEF r

\* A FLOATING thread and a CALLING one are linked nowhere: one can become the other.
LEMMA UnlinkedLemma ==
    ASSUME NEW s, Sound(s), NEW t \in Threads, s.state[t] \in {"FLOATING", "CALLING"},
           NEW v \in {"FLOATING", "CALLING"},
           NEW r \in SchedState, r.ok, r.state = [s.state EXCEPT ![t] = v],
           r.runq = s.runq, r.sleepq = s.sleepq, r.rem = s.rem,
           r.waitq = s.waitq, r.current = s.current
    PROVE  Sound(r)
<1>1. s.state \in [Threads -> ThreadState] /\ Consistent(s) /\ SleepersSorted(s)
  BY DEF Sound, SchedState
<1>2. r.state[t] = v /\ \A u \in Threads \ {t} : r.state[u] = s.state[u]
  BY <1>1
<1>3. SleepersSorted(r)
  BY <1>1 DEF SleepersSorted
<1>4. /\ IsInjective(r.runq) /\ IsInjective(r.sleepq)
      /\ \A q \in Queues : IsInjective(r.waitq[q])
  BY <1>1 DEF Consistent
<1>5. ASSUME NEW u \in Threads
      PROVE  /\ r.state[u] = "READY" <=> u \in Range(r.runq)
             /\ r.state[u] = "WAITING" <=> \E q \in Queues : u \in Range(r.waitq[q])
             /\ \A q, p \in Queues :
                    u \in Range(r.waitq[q]) /\ u \in Range(r.waitq[p]) => q = p
             /\ r.state[u] = "SLEEPING" => u \in Range(r.sleepq)
             /\ u \in Range(r.sleepq) => r.state[u] \in {"SLEEPING", "WAITING"}
             /\ r.state[u] = "RUNNING" <=> u = r.current
  <2>1. /\ s.state[u] = "READY" <=> u \in Range(s.runq)
        /\ s.state[u] = "WAITING" <=> \E q \in Queues : u \in Range(s.waitq[q])
        /\ \A q, p \in Queues :
               u \in Range(s.waitq[q]) /\ u \in Range(s.waitq[p]) => q = p
        /\ s.state[u] = "SLEEPING" => u \in Range(s.sleepq)
        /\ u \in Range(s.sleepq) => s.state[u] \in {"SLEEPING", "WAITING"}
        /\ s.state[u] = "RUNNING" <=> u = s.current
    BY <1>1 DEF Consistent
  <2>2. CASE u # t
    BY <1>2, <2>1, <2>2
  <2>3. CASE u = t
    BY <1>2, <2>1, <2>3
  <2> QED
    BY <2>2, <2>3
<1>6. Consistent(r)
  BY <1>4, <1>5 DEF Consistent
<1> QED
  BY <1>3, <1>6 DEF Sound

\* schedule_ready, as a relation between the state s before and the state r after
Readied(s, t, r) ==
    /\ Sound(r) /\ Floating(r) = Floating(s) \ {t}
    /\ r.state = [s.state EXCEPT ![t] = "READY"]
    /\ r.sleepq = s.sleepq /\ r.waitq = s.waitq
    /\ r.current = s.current /\ r.r0 = s.r0

\* schedule_ready makes a FLOATING thread ready.
LEMMA ReadiedLemma ==
    ASSUME NEW s, Sound(s), NEW t \in Threads, s.state[t] = "FLOATING"
    PROVE  Readied(s, t, schedule_ready(s, t))
BY ReadyLemma DEF Readied

\* cpu_context_save, likewise, for any thread that runs
PutAside(s, t, v, r) ==
    /\ Sound(r) /\ Floating(r) = Floating(s) \cup {t}
    /\ t \in Threads /\ s.state[t] = "RUNNING"
    /\ r.state = [s.state EXCEPT ![t] = "FLOATING"]
    /\ r.sleepq = s.sleepq /\ r.waitq = s.waitq /\ r.current = Nobody

\* cpu_context_save puts the running thread aside.
LEMMA PutAsideLemma ==
    ASSUME NEW s, Sound(s), s.current # Nobody, NEW v \in R0Value
    PROVE  PutAside(s, s.current, v, cpu_context_save(s, v))
BY SaveLemma DEF PutAside

-----------------------------------------------------------------------------
\* A switch makes a READY thread RUNNING and a RUNNING one READY.
Switched(was, is) ==
    was = is \/ (was \in {"READY", "RUNNING"} /\ is \in {"READY", "RUNNING"})

(***************************************************************************)
(* A reschedule: what schedule() and schedule_or_exit() make of a state s  *)
(* in which no thread is FLOATING, when the clock moves d.                 *)
(***************************************************************************)
Rescheduled(s, d, n) ==
    /\ Sound(n) /\ Floating(n) = {}
    /\ Range(n.sleepq) = Range(s.sleepq) \ Due(s, d)
    /\ \A t \in Range(n.sleepq) : n.rem[t] = s.rem[t] - d
    /\ \A q \in Queues : Range(n.waitq[q]) = Range(s.waitq[q]) \ Due(s, d)
    /\ \A t \in Due(s, d) : n.state[t] \in {"READY", "RUNNING"}
    /\ \A t \in Threads \ Due(s, d) : Switched(s.state[t], n.state[t])
    /\ \A t \in Threads : t # s.current => n.r0[t] = s.r0[t]
    /\ \/ IsPrefix(s.runq, n.runq)
       \/ s.runq # << >> /\ IsPrefix(Tail(s.runq), n.runq)

\* schedule() leaves no thread FLOATING, once it has found one to run: the current
\* thread and the head of the run queue change places, and nothing else moves.
LEMMA SwitchLemma ==
    ASSUME NEW s, Sound(s), s.runq # << >>, Floating(s) = {}
    PROVE  LET r == SwitchToNext(s)
           IN  /\ Sound(r) /\ Floating(r) = {}
               /\ r.sleepq = s.sleepq /\ r.rem = s.rem /\ r.waitq = s.waitq
               /\ \A t \in Threads : Switched(s.state[t], r.state[t])
               /\ \A t \in Threads : t # s.current => r.r0[t] = s.r0[t]
               /\ \E x \in Seq(Threads) : r.runq = Tail(s.runq) \o x
<1> DEFINE t == Head(s.runq)
           popped == run_queue_pop(s)
           saved == cpu_context_save(popped, "user")
           parked == IF s.current = Nobody THEN popped ELSE schedule_ready(saved, s.current)
           r == cpu_context_restore_and_exit(parked, t)
<1>1. /\ Sound(popped) /\ t \in Threads /\ s.state[t] = "READY"
      /\ Floating(popped) = {t} /\ popped.current = s.current
      /\ popped.state = [s.state EXCEPT ![t] = "FLOATING"]
      /\ popped.runq = Tail(s.runq) /\ popped.runq \in Seq(Threads)
      /\ popped.sleepq = s.sleepq /\ popped.rem = s.rem /\ popped.waitq = s.waitq
      /\ popped.r0 = s.r0
  BY PopLemma
<1>2. s.state \in [Threads -> ThreadState]
  BY DEF Sound, SchedState
<1> HIDE DEF popped, t
<1>3. /\ Sound(parked) /\ parked.current = Nobody /\ parked.state[t] = "FLOATING"
      /\ Floating(parked) = {t}
      /\ parked.sleepq = s.sleepq /\ parked.rem = s.rem /\ parked.waitq = s.waitq
      /\ \A u \in Threads \ {t} : Switched(s.state[u], parked.state[u])
      /\ \A u \in Threads : u # s.current => parked.r0[u] = s.r0[u]
      /\ \E x \in Seq(Threads) : parked.runq = Tail(s.runq) \o x
  <2>1. CASE s.current = Nobody
    <3>1. parked = popped /\ parked.state[t] = "FLOATING"
      BY <1>1, <1>2, <2>1
    <3>2. << >> \in Seq(Threads) /\ parked.runq = Tail(s.runq) \o << >>
      BY <1>1, <3>1
    <3>3. \A u \in Threads \ {t} : parked.state[u] = s.state[u]
      BY <1>1, <1>2, <3>1
    <3> QED
      BY <1>1, <2>1, <3>1, <3>2, <3>3 DEF Switched
  <2>2. CASE s.current # Nobody
    <3> DEFINE u == s.current
    <3>1. /\ Sound(saved) /\ Floating(saved) = Floating(popped) \cup {popped.current}
          /\ popped.current \in Threads /\ popped.current \notin Floating(popped)
          /\ popped.state[popped.current] = "RUNNING"
          /\ saved.state = [popped.state EXCEPT ![popped.current] = "FLOATING"]
          /\ saved.runq = popped.runq /\ saved.sleepq = popped.sleepq
          /\ saved.rem = popped.rem /\ saved.waitq = popped.waitq
          /\ saved.current = Nobody
          /\ saved.r0 = [popped.r0 EXCEPT ![popped.current] = "user"]
      <4>1. "user" \in R0Value /\ popped.current # Nobody
        BY <1>1, <2>2 DEF R0Value
      <4> QED
        BY <1>1, <4>1, SaveLemma
    <3>2. popped.r0 \in [Threads -> R0Value]
      BY <1>1 DEF Sound, SchedState
    <3>3. /\ saved.state[u] = "FLOATING" /\ u \in Threads /\ u # t
          /\ Floating(saved) = {t, u}
      BY <1>1, <3>1 DEF Floating
    <3> HIDE DEF saved
    <3>4. /\ Sound(parked) /\ parked.current = saved.current
          /\ Floating(parked) = Floating(saved) \ {u}
          /\ parked.state = [saved.state EXCEPT ![u] = "READY"]
          /\ parked.runq = Append(saved.runq, u)
          /\ parked.sleepq = saved.sleepq /\ parked.rem = saved.rem
          /\ parked.waitq = saved.waitq /\ parked.r0 = saved.r0
      BY <2>2, <3>1, <3>3, ReadyLemma, ZenonT(30)
    <3> HIDE DEF parked
    <3>5. Floating(parked) = {t} /\ parked.state[t] = "FLOATING"
      BY <1>1, <3>3, <3>4 DEF Floating
    <3>6. <<u>> \in Seq(Threads) /\ parked.runq = Tail(s.runq) \o <<u>>
      BY <1>1, <3>1, <3>3, <3>4
    <3>7. \A v \in Threads \ {t, u} : parked.state[v] = s.state[v]
      BY <1>1, <1>2, <3>1, <3>4
    <3>8. parked.state[u] = "READY" /\ s.state[u] = "RUNNING"
      BY <1>1, <1>2, <3>1, <3>3, <3>4
    <3>9. \A v \in Threads : v # u => parked.r0[v] = s.r0[v]
      BY <1>1, <3>1, <3>2, <3>4
    <3>10. \A v \in Threads \ {t} : Switched(s.state[v], parked.state[v])
      BY <3>7, <3>8 DEF Switched
    <3> QED
      BY <1>1, <3>1, <3>4, <3>5, <3>6, <3>9, <3>10
  <2> QED
    BY <2>1, <2>2
<1>4. SwitchToNext(s) = r
  BY DEF SwitchToNext, popped, t
<1> HIDE DEF parked
<1>5. /\ Sound(r) /\ Floating(r) = Floating(parked) \ {t}
      /\ r.state = [parked.state EXCEPT ![t] = "RUNNING"]
      /\ r.runq = parked.runq /\ r.sleepq = parked.sleepq /\ r.rem = parked.rem
      /\ r.waitq = parked.waitq /\ r.r0 = parked.r0
  <2>1. Sound(parked) /\ parked.current = Nobody /\ t \in Threads /\ parked.state[t] = "FLOATING"
    BY <1>1, <1>3
  <2> QED
    BY <2>1, RestoreLemma
<1>6. parked.state \in [Threads -> ThreadState]
  BY <1>3 DEF Sound, SchedState
<1>7. r.state[t] = "RUNNING" /\ \A u \in Threads \ {t} : r.state[u] = parked.state[u]
  BY <1>1, <1>5, <1>6
<1> HIDE DEF r
<1>8. \A u \in Threads : Switched(s.state[u], r.state[u])
  BY <1>1, <1>3, <1>7 DEF Switched
<1> QED
  BY <1>3, <1>4, <1>5, <1>8

\* What is common to schedule() and schedule_or_exit(): time passes, the threads that
\* are due wake up, and a switch follows unless nobody is ready.
LEMMA RescheduleLemma ==
    ASSUME NEW s, Sound(s), Floating(s) = {}, NEW d \in Nat,
           NEW r,
           LET awake == wakeup_sleepers(Elapse(s, d))
           IN  r = IF awake.runq = << >> THEN awake ELSE SwitchToNext(awake)
    PROVE  Rescheduled(s, d, r)
<1> DEFINE now == Elapse(s, d)
           woken == {t \in Range(now.sleepq) : now.rem[t] < 0}
           awake == wakeup_sleepers(now)
<1>1. /\ Sound(now) /\ Floating(now) = {}
      /\ now.state = s.state /\ now.runq = s.runq /\ now.sleepq = s.sleepq
      /\ now.waitq = s.waitq /\ now.current = s.current /\ now.r0 = s.r0
      /\ \A t \in Range(s.sleepq) :
            now.rem[t] = IF s.rem[t] - d < 0 THEN -1 ELSE s.rem[t] - d
  BY ElapseLemma
<1>2. /\ s.runq \in Seq(Threads) /\ s.rem \in [Threads -> Int]
      /\ Range(s.sleepq) \subseteq Threads
  BY RangeLemma DEF Sound, SchedState
<1> HIDE DEF now
<1>3. woken = Due(s, d)
  <2>1. \A t \in Range(s.sleepq) : s.rem[t] \in Int
    BY <1>2
  <2> QED
    BY <1>1, <2>1 DEF Due
<1>9. /\ Sound(awake) /\ Floating(awake) = Floating(now)
      /\ woken \subseteq Threads
      /\ awake.state = [t \in Threads |-> IF t \in woken THEN "READY" ELSE now.state[t]]
      /\ \E due \in Seq(Threads) : awake.runq = now.runq \o due
      /\ Range(awake.sleepq) = Range(now.sleepq) \ woken
      /\ \A t \in Threads \ woken : awake.rem[t] = now.rem[t]
      /\ \A q \in Queues : Range(awake.waitq[q]) = Range(now.waitq[q]) \ woken
      /\ awake.current = now.current /\ awake.r0 = now.r0
  BY <1>1, WakeupLemma
<1>4. /\ Sound(awake) /\ Floating(awake) = {}
      /\ woken \subseteq Threads
      /\ awake.state = [t \in Threads |-> IF t \in woken THEN "READY" ELSE s.state[t]]
      /\ \E due \in Seq(Threads) : awake.runq = s.runq \o due
      /\ Range(awake.sleepq) = Range(s.sleepq) \ woken
      /\ \A t \in Threads \ woken : awake.rem[t] = now.rem[t]
      /\ \A q \in Queues : Range(awake.waitq[q]) = Range(s.waitq[q]) \ woken
      /\ awake.current = s.current /\ awake.r0 = s.r0
  <2> HIDE DEF awake, woken
  <2> QED
    BY <1>1, <1>9
<1> HIDE DEF awake, woken
<1>5. \A t \in Range(awake.sleepq) : awake.rem[t] = s.rem[t] - d
  <2> SUFFICES ASSUME NEW t \in Range(awake.sleepq) PROVE awake.rem[t] = s.rem[t] - d
    OBVIOUS
  <2>1. t \in Range(s.sleepq) /\ t \notin Due(s, d) /\ t \in Threads
    BY <1>2, <1>3, <1>4
  <2>2. ~(s.rem[t] - d < 0)
    BY <2>1 DEF Due
  <2> QED
    BY <1>1, <1>3, <1>4, <2>1, <2>2
<1>6. PICK due \in Seq(Threads) : awake.runq = s.runq \o due
  BY <1>4
<1>7. CASE awake.runq = << >>
  <2>1. r = awake
    BY <1>7 DEF awake, now
  <2>2. IsPrefix(s.runq, r.runq)
    BY <1>2, <1>6, <2>1, PrefixLemma
  <2>3. \A t \in Due(s, d) : r.state[t] = "READY"
    BY <1>3, <1>4, <2>1
  <2>4. \A t \in Threads \ Due(s, d) : Switched(s.state[t], r.state[t])
    BY <1>3, <1>4, <2>1 DEF Switched
  <2> QED
    BY <1>3, <1>4, <1>5, <2>1, <2>2, <2>3, <2>4 DEF Rescheduled
<1>8. CASE awake.runq # << >>
  <2> DEFINE z == SwitchToNext(awake)
  <2>1. r = z
    BY <1>8 DEF awake, now
  <2>7. /\ Sound(z) /\ Floating(z) = {}
        /\ z.sleepq = awake.sleepq /\ z.rem = awake.rem /\ z.waitq = awake.waitq
        /\ \A t \in Threads : Switched(awake.state[t], z.state[t])
        /\ \A t \in Threads : t # awake.current => z.r0[t] = awake.r0[t]
        /\ \E x \in Seq(Threads) : z.runq = Tail(awake.runq) \o x
    <3>1. Sound(awake) /\ Floating(awake) = {} /\ awake.runq # << >>
      BY <1>4, <1>8
    <3> QED
      BY <3>1, SwitchLemma
  <2> HIDE DEF z
  <2>2. /\ Sound(r) /\ Floating(r) = {}
        /\ r.sleepq = awake.sleepq /\ r.rem = awake.rem /\ r.waitq = awake.waitq
        /\ \A t \in Threads : Switched(awake.state[t], r.state[t])
        /\ \A t \in Threads : t # awake.current => r.r0[t] = awake.r0[t]
        /\ \E x \in Seq(Threads) : r.runq = Tail(awake.runq) \o x
    BY <2>1, <2>7
  <2>3. PICK x \in Seq(Threads) : r.runq = Tail(awake.runq) \o x
    BY <2>2
  <2>4. IsPrefix(s.runq, r.runq) \/ (s.runq # << >> /\ IsPrefix(Tail(s.runq), r.runq))
    <3>1. CASE s.runq = << >>
      <4> DEFINE x2 == r.runq
      <4>1. x2 \in Seq(Threads)
        BY <2>2 DEF Sound, SchedState
      <4> HIDE DEF x2
      <4>2. << >> \in Seq(Threads) /\ << >> \o x2 = x2
        BY <4>1
      <4>3. IsPrefix(<< >>, x2)
        BY <4>1, <4>2, PrefixLemma
      <4> QED
        BY <3>1, <4>3 DEF x2
    <3>2. CASE s.runq # << >>
      <4>1. Tail(awake.runq) = Tail(s.runq) \o due
        BY <1>2, <1>6, <3>2, TailConcatLemma
      <4> DEFINE rest == Tail(s.runq)
      <4>2. rest \in Seq(Threads) /\ due \o x \in Seq(Threads)
        BY <1>2, <3>2
      <4> HIDE DEF rest
      <4>4. (rest \o due) \o x = rest \o (due \o x)
        BY <4>2
      <4>3. r.runq = Tail(s.runq) \o (due \o x)
        BY <2>3, <4>1, <4>4 DEF rest
      <4> QED
        BY <3>2, <4>2, <4>3, PrefixLemma DEF rest
    <3> QED
      BY <3>1, <3>2
  <2>5. \A t \in Due(s, d) : r.state[t] \in {"READY", "RUNNING"}
    BY <1>3, <1>4, <2>2 DEF Switched
  <2>6. \A t \in Threads \ Due(s, d) : Switched(s.state[t], r.state[t])
    BY <1>3, <1>4, <2>2
  <2> QED
    BY <1>3, <1>4, <1>5, <2>2, <2>4, <2>5, <2>6, ZenonT(30) DEF Rescheduled
<1> QED
  BY <1>7, <1>8

\* schedule() reschedules.
LEMMA ScheduleLemma ==
    ASSUME NEW s, Sound(s), Floating(s) = {}, NEW d \in Nat, schedule(s, d)
    PROVE  Rescheduled(s, d, sched')
  BY RescheduleLemma DEF schedule

\* schedule_or_exit() reschedules when there is no current thread, also when the CPU
\* goes idle.
LEMMA ScheduleOrExitLemma ==
    ASSUME NEW s, Sound(s), Floating(s) = {}, s.current = Nobody, NEW d \in Nat,
           schedule_or_exit(s, d)
    PROVE  Rescheduled(s, d, sched')
<1> DEFINE awake == wakeup_sleepers(Elapse(s, d))
<1>1. Sound(awake) /\ awake.current = Nobody
  BY ElapseLemma, WakeupLemma, ZenonT(30)
<1>2. sched' = IF awake.runq = << >> THEN cpu_exit_idle(awake) ELSE SwitchToNext(awake)
  BY DEF schedule_or_exit
<1>3. cpu_exit_idle(awake) = awake
  <2> HIDE DEF awake
  <2> QED
    BY <1>1 DEF cpu_exit_idle, Sound, SchedState
<1> QED
  BY <1>2, <1>3, RescheduleLemma

\* After a reschedule no sleeper is late, and each one's deadline is as much nearer as
\* the clock has moved.
LEMMA RemainingLemma ==
    ASSUME NEW s, Sound(s), NEW d \in Nat, NEW n, Rescheduled(s, d, n)
    PROVE  \A t \in Range(n.sleepq) :
                /\ t \in Range(s.sleepq) /\ s.rem[t] \in Int
                /\ ~(s.rem[t] - d < 0) /\ n.rem[t] = s.rem[t] - d /\ n.rem[t] >= 0
<1> SUFFICES ASSUME NEW t \in Range(n.sleepq)
             PROVE  /\ t \in Range(s.sleepq) /\ s.rem[t] \in Int
                    /\ ~(s.rem[t] - d < 0) /\ n.rem[t] = s.rem[t] - d /\ n.rem[t] >= 0
  OBVIOUS
<1>1. t \in Range(s.sleepq) /\ t \notin Due(s, d) /\ n.rem[t] = s.rem[t] - d
  BY DEF Rescheduled
<1>2. Range(s.sleepq) \subseteq Threads /\ s.rem \in [Threads -> Int]
  BY RangeLemma DEF Sound, SchedState
<1>3. s.rem[t] \in Int
  BY <1>1, <1>2
<1>4. ~(s.rem[t] - d < 0)
  BY <1>1 DEF Due
<1> QED
  BY <1>1, <1>3, <1>4

-----------------------------------------------------------------------------
(***************************************************************************)
(* The inductive invariant: between two kernel entries the state is sound  *)
(* and no thread is in the kernel's hands.                                 *)
(***************************************************************************)
SchedInv == Sound(sched) /\ Floating(sched) = {}

\* The state in which main() enters user mode is sound.
LEMMA SchedInitLemma == SchedInit => SchedInv
<1> SUFFICES ASSUME SchedInit PROVE SchedInv
  OBVIOUS
<1>1. PICK t \in Threads :
        sched = [ok |-> TRUE,
                 state |-> [u \in Threads |-> IF u = t THEN "RUNNING" ELSE "NONE"],
                 runq |-> << >>,
                 sleepq |-> << >>,
                 rem |-> [u \in Threads |-> 0],
                 waitq |-> [q \in Queues |-> << >>],
                 current |-> t,
                 r0 |-> [u \in Threads |-> "user"]]
  BY DEF SchedInit
<1>2. sched \in SchedState
  BY <1>1 DEF SchedState, ThreadState, R0Value
<1>3. Consistent(sched)
  BY <1>1, EmptyLemma DEF Consistent
<1>4. Floating(sched) = {}
  BY <1>1 DEF Floating
<1>5. SleepersSorted(sched)
  BY <1>1 DEF SleepersSorted
<1> QED
  BY <1>1, <1>2, <1>3, <1>4, <1>5 DEF SchedInv, Sound

\* Whatever reschedules keeps the invariant.
LEMMA RescheduledInvLemma ==
    ASSUME NEW s, NEW d, Rescheduled(s, d, sched')
    PROVE  SchedInv'
<1>1. Sound(sched') /\ Floating(sched') = {}
  BY DEF Rescheduled
<1> QED
  BY <1>1 DEF SchedInv, Sound, Consistent, SleepersSorted, Floating

\* SYSCALL(nsleep): the saved thread is FLOATING only until schedule_nanosleep takes
\* it, then the kernel reschedules.
LEMMA NsleepLemma ==
    ASSUME SchedInv, NEW n \in Nat, NEW d \in Nat, nsleep(n, d)
    PROVE  /\ SchedInv' /\ sched.current \in Threads
           /\ \E s : /\ Sound(s) /\ Rescheduled(s, d, sched')
                     /\ s.runq = sched.runq /\ s.waitq = sched.waitq
                     /\ Range(s.sleepq) = Range(sched.sleepq) \cup {sched.current}
                     /\ \A t \in Threads \ {sched.current} :
                            /\ s.state[t] = sched.state[t]
                            /\ s.rem[t] = sched.rem[t]
                            /\ s.r0[t] = sched.r0[t]
                     /\ sched.state[sched.current] = "RUNNING"
                     /\ s.state[sched.current] = "SLEEPING"
                     /\ s.current = Nobody
<1> DEFINE saved == cpu_context_save(sched, "0")
           t == sched.current
           asleep == schedule_nanosleep(saved, t, n)
<1>1. /\ sched.current # Nobody /\ n \in Nat \ {0}
      /\ schedule_or_exit(asleep, d)
      /\ Sound(sched) /\ Floating(sched) = {}
  BY DEF nsleep, InUser, SchedInv
<1>2. /\ Sound(saved) /\ t \in Threads /\ Floating(saved) = {t}
      /\ sched.state[t] = "RUNNING"
      /\ saved.state = [sched.state EXCEPT ![t] = "FLOATING"]
      /\ saved.runq = sched.runq /\ saved.sleepq = sched.sleepq
      /\ saved.rem = sched.rem /\ saved.waitq = sched.waitq
      /\ saved.current = Nobody
      /\ saved.r0 = [sched.r0 EXCEPT ![t] = "0"]
  <2>1. "0" \in R0Value
    BY DEF R0Value
  <2> QED
    BY <1>1, <2>1, SaveLemma
<1> HIDE DEF saved
<1>3. saved.state[t] = "FLOATING"
  BY <1>2 DEF Floating
<1>4. /\ Sound(asleep) /\ Floating(asleep) = Floating(saved) \ {t}
      /\ asleep.state = [saved.state EXCEPT ![t] = "SLEEPING"]
      /\ asleep.runq = saved.runq
      /\ Range(asleep.sleepq) = Range(saved.sleepq) \cup {t}
      /\ asleep.rem = [saved.rem EXCEPT ![t] = n]
      /\ asleep.waitq = saved.waitq /\ asleep.current = saved.current
      /\ asleep.r0 = saved.r0
  BY <1>1, <1>2, <1>3, NanosleepLemma
<1> HIDE DEF asleep
<1>5. Floating(asleep) = {} /\ asleep.current = Nobody
  BY <1>2, <1>4
<1>6. Rescheduled(asleep, d, sched')
  BY <1>1, <1>4, <1>5, ScheduleOrExitLemma
<1>7. SchedInv'
  BY <1>6, RescheduledInvLemma
<1>8. /\ sched.state \in [Threads -> ThreadState] /\ sched.rem \in [Threads -> Int]
      /\ sched.r0 \in [Threads -> R0Value]
  BY <1>1 DEF Sound, SchedState
<1>9. /\ asleep.state[t] = "SLEEPING"
      /\ \A u \in Threads \ {t} : /\ asleep.state[u] = sched.state[u]
                                  /\ asleep.rem[u] = sched.rem[u]
                                  /\ asleep.r0[u] = sched.r0[u]
  BY <1>2, <1>4, <1>8
<1> QED
  BY <1>2, <1>4, <1>5, <1>6, <1>7, <1>9, ZenonT(30)

\* SYSCALL(thread_spawn) and SYSCALL(fork): a new thread is in no queue before
\* schedule_ready takes it, and joins the run queue at its tail.
LEMMA SpawnLemma ==
    ASSUME SchedInv, NEW t \in Threads, thread_spawn(t)
    PROVE  /\ SchedInv'
           /\ sched.state[t] = "NONE"
           /\ sched'.state = [sched.state EXCEPT ![t] = "READY"]
           /\ sched'.runq = Append(sched.runq, t)
           /\ sched'.sleepq = sched.sleepq /\ sched'.rem = sched.rem
           /\ sched'.waitq = sched.waitq /\ sched'.current = sched.current
           /\ sched'.r0 = sched.r0
<1> DEFINE new == [sched EXCEPT !.state[t] = "FLOATING"]
<1>1. /\ sched \in SchedState /\ Consistent(sched) /\ SleepersSorted(sched)
      /\ sched.ok /\ Floating(sched) = {}
      /\ sched.state[t] = "NONE" /\ sched' = schedule_ready(new, t)
  BY DEF SchedInv, Sound, thread_spawn
<1>2. sched.state \in [Threads -> ThreadState] /\ "FLOATING" \in ThreadState
  BY <1>1 DEF SchedState, ThreadState
<1>3. /\ new.ok = sched.ok
      /\ new.state = [sched.state EXCEPT ![t] = "FLOATING"]
      /\ new.runq = sched.runq /\ new.sleepq = sched.sleepq /\ new.rem = sched.rem
      /\ new.waitq = sched.waitq /\ new.current = sched.current /\ new.r0 = sched.r0
  BY <1>1 DEF SchedState
<1>4. new \in SchedState
  BY <1>1, <1>2, <1>3 DEF SchedState
<1> HIDE DEF new
<1>5. Consistent(new)
  BY <1>1, <1>2, <1>3 DEF Consistent
<1>6. Floating(new) = {t} /\ new.state[t] = "FLOATING"
  BY <1>1, <1>2, <1>3 DEF Floating
<1>7. SleepersSorted(new)
  BY <1>1, <1>3 DEF SleepersSorted
<1>8. Sound(new)
  BY <1>1, <1>3, <1>4, <1>5, <1>7 DEF Sound
<1> DEFINE r == schedule_ready(new, t)
<1>9. /\ Sound(r) /\ Floating(r) = Floating(new) \ {t}
      /\ r.state = [new.state EXCEPT ![t] = "READY"]
      /\ r.runq = Append(new.runq, t)
      /\ r.sleepq = new.sleepq /\ r.rem = new.rem /\ r.waitq = new.waitq
      /\ r.current = new.current /\ r.r0 = new.r0
  BY <1>6, <1>8, ReadyLemma
<1>10. sched' = r
  BY <1>1
<1> HIDE DEF r
<1>11. SchedInv'
  BY <1>6, <1>9, <1>10, ZenonT(30) DEF SchedInv, Sound, Consistent, SleepersSorted, Floating
<1>12. r.state = [sched.state EXCEPT ![t] = "READY"]
  BY <1>2, <1>3, <1>9
<1> QED
  BY <1>1, <1>3, <1>9, <1>10, <1>11, <1>12

\* The timer interrupt reschedules.
LEMMA TimerLemma ==
    ASSUME SchedInv, NEW d \in Nat, timer_interrupt(d)
    PROVE  SchedInv' /\ Rescheduled(sched, d, sched')
<1>1. Rescheduled(sched, d, sched')
  BY ScheduleLemma DEF timer_interrupt, SchedInv
<1> QED
  BY <1>1, RescheduledInvLemma

\* The clock changes deadlines only.
LEMMA TickLemma ==
    ASSUME SchedInv, Tick
    PROVE  /\ SchedInv'
           /\ sched'.state = sched.state /\ sched'.runq = sched.runq
           /\ sched'.sleepq = sched.sleepq /\ sched'.waitq = sched.waitq
           /\ sched'.current = sched.current /\ sched'.r0 = sched.r0
<1> DEFINE r == Elapse(sched, 1)
<1>1. /\ Sound(r) /\ Floating(r) = {}
      /\ r.state = sched.state /\ r.runq = sched.runq /\ r.sleepq = sched.sleepq
      /\ r.waitq = sched.waitq /\ r.current = sched.current /\ r.r0 = sched.r0
  BY ElapseLemma DEF SchedInv
<1>2. sched' = r
  BY DEF Tick
<1> HIDE DEF r
<1> QED
  BY <1>1, <1>2 DEF SchedInv, Sound, Consistent, SleepersSorted, Floating

\* Every step of the scheduler keeps the invariant.
LEMMA SchedNextLemma == SchedInv /\ [SchedNext]_sched => SchedInv'
<1> SUFFICES ASSUME SchedInv, [SchedNext]_sched PROVE SchedInv'
  OBVIOUS
<1> USE SchedAssumption
<1>1. CASE \E n \in 1..MaxWait, d \in Elapsed : nsleep(n, d)
  BY <1>1, NsleepLemma
<1>2. CASE \E t \in Threads : thread_spawn(t)
  BY <1>2, SpawnLemma
<1>3. CASE \E d \in Elapsed : timer_interrupt(d)
  BY <1>3, TimerLemma
<1>4. CASE Tick
  BY <1>4, TickLemma
<1>5. CASE UNCHANGED sched
  BY <1>5 DEF SchedInv, Sound, Consistent, SleepersSorted, Floating
<1> QED
  BY <1>1, <1>2, <1>3, <1>4, <1>5 DEF SchedNext

\* The invariant holds in every state the kernel leaves to user mode or to idle.
LEMMA SchedInvariance == SchedSpec => []SchedInv
  BY SchedInitLemma, SchedNextLemma, PTL DEF SchedSpec

\* The invariant says what the properties of the states say.
LEMMA SchedInvLemma == SchedInv => TypeOK /\ NoPanic /\ QueuesMatchStates
  BY DEF SchedInv, Sound, TypeOK, NoPanic, QueuesMatchStates

-----------------------------------------------------------------------------
(***************************************************************************)
(* Theorems                                                                *)
(***************************************************************************)

\* The state of the scheduler always has its type, for any number of threads.
THEOREM TypeCorrect == SchedSpec => []TypeOK
  BY SchedInvLemma, SchedInvariance, PTL

\* No assertion of schedule.cxx, thread.cxx, queue.c or cpu.c that the scheduler
\* reaches ever fails, for any number of threads and any timing.
THEOREM AssertionsHold == SchedSpec => []NoPanic
  BY SchedInvLemma, SchedInvariance, PTL

\* Every thread is linked exactly where its state says, and none is ever lost.
THEOREM NoThreadIsLost == SchedSpec => []QueuesMatchStates
  BY SchedInvLemma, SchedInvariance, PTL

\* A thread that is due at a reschedule had its deadline passed in this step.
LEMMA DeadlineLemma ==
    ASSUME SchedInv, NEW s, Sound(s), NEW d \in Elapsed, Rescheduled(s, d, sched'),
           \A u \in Range(sched.sleepq) \cap Range(s.sleepq) : s.rem[u] = sched.rem[u],
           NEW t \in Range(sched.sleepq), t \in Due(s, d)
    PROVE  DeadlinePassed(t)
<1>1. d \in Nat
  BY SchedAssumption
<1>2. t \in Range(s.sleepq) /\ s.rem[t] - d < 0 /\ s.rem[t] = sched.rem[t]
  BY DEF Due
<1>3. Range(sched.sleepq) \subseteq Threads /\ sched.rem \in [Threads -> Int]
  BY RangeLemma DEF SchedInv, Sound, SchedState
<1>4. sched.rem[t] \in Int /\ sched.rem[t] < d
  BY <1>1, <1>2, <1>3
<1>5. ASSUME NEW u \in Range(sched.sleepq) \cap Range(sched'.sleepq)
      PROVE  sched'.rem[u] = IF sched.rem[u] - d < 0 THEN -1 ELSE sched.rem[u] - d
  <2>1. u \in Range(s.sleepq) /\ ~(s.rem[u] - d < 0) /\ sched'.rem[u] = s.rem[u] - d
    BY <1>1, RemainingLemma
  <2> QED
    BY <2>1
<1> QED
  BY <1>4, <1>5 DEF DeadlinePassed

\* No sleeper whose deadline has passed is left asleep when the CPU is handed to
\* another thread: wakeup_sleepers stops at the first sleeper that is not due, and
\* set_timeout keeps the sleep queue sorted.
THEOREM SleepersWakeInTime == SchedSpec => NoOversleep
<1>1. SchedInv /\ [SchedNext]_sched
        => [sched'.current \notin {sched.current, Nobody} =>
                \A t \in Range(sched'.sleepq) : sched'.rem[t] >= 0]_sched
  <2> SUFFICES ASSUME SchedInv, SchedNext, sched'.current \notin {sched.current, Nobody}
               PROVE  \A t \in Range(sched'.sleepq) : sched'.rem[t] >= 0
    OBVIOUS
  <2>0. Elapsed \subseteq Nat /\ MaxWait \in Nat
    BY SchedAssumption
  <2>1. CASE \E n \in 1..MaxWait, d \in Elapsed : nsleep(n, d)
    <3>1. PICK n \in 1..MaxWait, d \in Elapsed : nsleep(n, d)
      BY <2>1
    <3>2. n \in Nat /\ d \in Nat
      BY <2>0
    <3>3. PICK s : Sound(s) /\ Rescheduled(s, d, sched')
      BY <3>1, <3>2, NsleepLemma
    <3> QED
      BY <3>2, <3>3, RemainingLemma
  <2>2. CASE \E t \in Threads : thread_spawn(t)
    BY <2>2, SpawnLemma
  <2>3. CASE \E d \in Elapsed : timer_interrupt(d)
    <3>1. PICK d \in Nat : timer_interrupt(d)
      BY <2>0, <2>3
    <3>2. Sound(sched) /\ Rescheduled(sched, d, sched')
      BY <3>1, TimerLemma DEF SchedInv
    <3> QED
      BY <3>2, RemainingLemma
  <2>4. CASE Tick
    BY <2>4, TickLemma
  <2> QED
    BY <2>1, <2>2, <2>3, <2>4 DEF SchedNext
<1> QED
  BY <1>1, SchedInvariance, PTL DEF SchedSpec, NoOversleep

\* A thread that only sleeps (SYSCALL(nsleep)) is not woken before its deadline has
\* passed: wakeup_sleepers takes no thread that is not due.
THEOREM SleepersSleepInFull == SchedSpec => NoEarlyWake
<1>1. SchedInv /\ [SchedNext]_sched
        => [\A t \in Threads :
                sched.state[t] = "SLEEPING" /\ sched'.state[t] # "SLEEPING" =>
                    DeadlinePassed(t)]_sched
  <2> SUFFICES ASSUME SchedInv, SchedNext, NEW t \in Threads,
                      sched.state[t] = "SLEEPING", sched'.state[t] # "SLEEPING"
               PROVE  DeadlinePassed(t)
    OBVIOUS
  <2>0. Elapsed \subseteq Nat /\ MaxWait \in Nat
    BY SchedAssumption
  <2>1. Sound(sched) /\ t \in Range(sched.sleepq)
    BY DEF SchedInv, Sound, Consistent
  <2>2. Range(sched.sleepq) \subseteq Threads
    BY <2>1, RangeLemma DEF Sound, SchedState
  <2>3. CASE \E n \in 1..MaxWait, d \in Elapsed : nsleep(n, d)
    <3>1. PICK n \in Nat, d \in Elapsed : nsleep(n, d)
      BY <2>0, <2>3
    <3> DEFINE c == sched.current
    <3>2. d \in Nat /\ sched.current # Nobody
      BY <2>0, <3>1 DEF nsleep, InUser
    <3>3. PICK s : /\ Sound(s) /\ Rescheduled(s, d, sched')
                   /\ Range(s.sleepq) = Range(sched.sleepq) \cup {c}
                   /\ \A u \in Threads \ {c} : /\ s.state[u] = sched.state[u]
                                               /\ s.rem[u] = sched.rem[u]
                   /\ sched.state[c] = "RUNNING"
      BY <3>1, <3>2, NsleepLemma
    <3>4. c \notin Range(sched.sleepq) /\ t # c
      BY <2>1, <3>2, <3>3, CurrentLemma
    <3> HIDE DEF c
    <3>5. t \in Due(s, d)
      BY <3>3, <3>4 DEF Rescheduled, Switched
    <3>6. \A u \in Range(sched.sleepq) \cap Range(s.sleepq) : s.rem[u] = sched.rem[u]
      BY <2>2, <3>3, <3>4
    <3> QED
      BY <2>1, <3>3, <3>5, <3>6, DeadlineLemma
  <2>4. CASE \E u \in Threads : thread_spawn(u)
    <3>1. PICK u \in Threads : /\ sched.state[u] = "NONE"
                               /\ sched'.state = [sched.state EXCEPT ![u] = "READY"]
      BY <2>4, SpawnLemma
    <3>2. sched.state \in [Threads -> ThreadState]
      BY <2>1 DEF Sound, SchedState
    <3> QED
      BY <3>1, <3>2
  <2>5. CASE \E d \in Elapsed : timer_interrupt(d)
    <3>1. PICK d \in Elapsed : timer_interrupt(d)
      BY <2>5
    <3>2. Rescheduled(sched, d, sched')
      BY <2>0, <3>1, TimerLemma
    <3>3. t \in Due(sched, d)
      BY <3>2 DEF Rescheduled, Switched
    <3> QED
      BY <2>1, <3>2, <3>3, DeadlineLemma
  <2>6. CASE Tick
    BY <2>6, TickLemma
  <2> QED
    BY <2>3, <2>4, <2>5, <2>6 DEF SchedNext
<1> QED
  BY <1>1, SchedInvariance, PTL DEF SchedSpec, NoEarlyWake

\* Threads leave the run queue from its head only and join it at its tail only, in
\* every system call and interrupt of the scheduler.
THEOREM RoundRobin == SchedSpec => RunQueueFifo
<1>1. SchedInv /\ [SchedNext]_sched
        => [\/ IsPrefix(sched.runq, sched'.runq)
            \/ sched.runq # << >> /\ IsPrefix(Tail(sched.runq), sched'.runq)]_sched
  <2> SUFFICES ASSUME SchedInv, SchedNext
               PROVE  \/ IsPrefix(sched.runq, sched'.runq)
                      \/ sched.runq # << >> /\ IsPrefix(Tail(sched.runq), sched'.runq)
    OBVIOUS
  <2>0. Elapsed \subseteq Nat /\ MaxWait \in Nat /\ sched.runq \in Seq(Threads)
    BY SchedAssumption DEF SchedInv, Sound, SchedState
  <2>1. CASE \E n \in 1..MaxWait, d \in Elapsed : nsleep(n, d)
    <3>1. PICK n \in 1..MaxWait, d \in Elapsed : nsleep(n, d)
      BY <2>1
    <3>2. n \in Nat /\ d \in Nat
      BY <2>0
    <3>3. PICK s : Rescheduled(s, d, sched') /\ s.runq = sched.runq
      BY <3>1, <3>2, NsleepLemma
    <3> QED
      BY <3>3 DEF Rescheduled
  <2>2. CASE \E t \in Threads : thread_spawn(t)
    <3>1. PICK t \in Threads : sched'.runq = Append(sched.runq, t)
      BY <2>2, SpawnLemma
    <3>2. << >> \in Seq(Threads)
      OBVIOUS
    <3>3. IsPrefix(sched.runq, Append(sched.runq, t))
      BY <2>0, <3>2, PrefixLemma
    <3> QED
      BY <3>1, <3>3
  <2>3. CASE \E d \in Elapsed : timer_interrupt(d)
    BY <2>0, <2>3, TimerLemma DEF Rescheduled
  <2>4. CASE Tick
    BY <2>0, <2>4, TickLemma, PrefixLemma
  <2> QED
    BY <2>1, <2>2, <2>3, <2>4 DEF SchedNext
<1> QED
  BY <1>1, SchedInvariance, PTL DEF SchedSpec, RunQueueFifo
=============================================================================
