-------------------------- MODULE DescriptorProofs --------------------------
(***************************************************************************)
(* Theorems about descriptors and the handles they hold, for any set of    *)
(* processes and handles and tables of any size: reference counts are      *)
(* exact (HandlesMatchDescriptors) and the numbers calls return lead to    *)
(* their handles (ReturnedFdFinds).                                        *)
(***************************************************************************)
EXTENDS Descriptor, FiniteSetTheorems, TLAPS

Entry == [handle : Handles \cup {NoHandle}, cloexec : BOOLEAN]

Tables == [Procs -> [Slot -> Entry]]

\* The number of a slot: that of l0[i] is i, those of the second level follow.
Number(s) == IF s[1] = 0 THEN s[2] ELSE L0 + (s[1] - 1) * L1L0 + s[2]

-----------------------------------------------------------------------------
(***************************************************************************)
(* Numbers and slots                                                       *)
(***************************************************************************)

\* Division by the table size finds the table and the entry.
LEMMA DivisionLemma ==
    ASSUME NEW m \in Nat \ {0}, NEW a \in Nat, NEW k \in 0..(m - 1)
    PROVE  (a * m + k) \div m = a /\ (a * m + k) % m = k
<1>1. a * m \in Nat
  OBVIOUS
<1> DEFINE n == a * m + k
<1>2. n \in Nat
  BY <1>1
<1> DEFINE d == n \div m
<1>3. /\ d \in Int /\ m * d <= n /\ n < m * d + m
      /\ n % m = n - m * d
  BY <1>2
<1> HIDE DEF d
<1>4. ~(d < a)
  <2> SUFFICES ASSUME d < a PROVE FALSE
    OBVIOUS
  <2>1. m * d + m <= m * a
    BY <1>3
  <2> QED
    BY <1>1, <1>3, <2>1
<1>5. ~(d > a)
  <2> SUFFICES ASSUME d > a PROVE FALSE
    OBVIOUS
  <2>1. m * d >= m * a + m
    BY <1>3
  <2> QED
    BY <1>1, <1>3, <2>1
<1>6. d = a
  BY <1>3, <1>4, <1>5
<1> QED
  BY <1>1, <1>3, <1>6 DEF d


LEMMA NumberLemma ==
    ASSUME NEW s \in Slot
    PROVE  Number(s) \in Fds /\ slot_of(Number(s)) = s
<1> USE DescriptorAssumption
<1>1. CASE s \in {0} \X (0..(L0 - 1))
  <2>1. s[1] = 0 /\ s[2] \in 0..(L0 - 1) /\ s = <<0, s[2]>>
    BY <1>1
  <2>2. L1 * L1L0 \in Nat
    OBVIOUS
  <2> QED
    BY <2>1, <2>2 DEF Number, Fds, slot_of
<1>2. CASE s \in (1..L1) \X (0..(L1L0 - 1))
  <2>1. s[1] \in 1..L1 /\ s[2] \in 0..(L1L0 - 1) /\ s = <<s[1], s[2]>>
    BY <1>2
  <2> DEFINE a == s[1] - 1
             n == a * L1L0 + s[2]
  <2>2. a \in Nat /\ a * L1L0 \in Nat /\ a * L1L0 + L1L0 <= L1 * L1L0
    <3>1. a \in Nat /\ a + 1 <= L1
      BY <2>1
    <3>2. (a + 1) * L1L0 <= L1 * L1L0
      BY <3>1
    <3> QED
      BY <3>1, <3>2
  <2>3. n \div L1L0 = a /\ n % L1L0 = s[2]
    BY <2>1, <2>2, DivisionLemma
  <2>4. Number(s) = L0 + n
    BY <2>1, <2>2 DEF Number
  <2>5. n \in Nat /\ n < L1 * L1L0 /\ L1 * L1L0 \in Nat
    BY <2>1, <2>2
  <2>6. slot_of(Number(s)) = <<1 + n \div L1L0, n % L1L0>>
    <3> HIDE DEF n
    <3>1. ~(L0 + n < L0) /\ (L0 + n) - L0 = n
      BY <2>5
    <3> QED
      BY <2>4, <3>1 DEF slot_of
  <2>7. Number(s) \in Fds
    <3> HIDE DEF n
    <3> QED
      BY <2>4, <2>5 DEF Fds
  <2> HIDE DEF n
  <2> QED
    BY <2>1, <2>3, <2>6, <2>7
<1> QED
  BY <1>1, <1>2 DEF Slot

LEMMA SlotLemma ==
    ASSUME NEW fd \in Fds
    PROVE  slot_of(fd) \in Slot /\ Number(slot_of(fd)) = fd
<1> USE DescriptorAssumption
<1>1. CASE fd < L0
  BY <1>1 DEF slot_of, Slot, Number, Fds
<1>2. CASE ~(fd < L0)
  <2> DEFINE n == fd - L0
             d == n \div L1L0
             r == n % L1L0
  <2>1. n \in Nat /\ n < L1 * L1L0 /\ L1 * L1L0 \in Nat
    BY <1>2 DEF Fds
  <2>2. d \in Nat /\ r \in 0..(L1L0 - 1) /\ n = d * L1L0 + r
    <3> HIDE DEF n
    <3> QED
      BY <2>1
  <2>3. slot_of(fd) = <<1 + d, r>>
    BY <1>2 DEF slot_of
  <2> HIDE DEF d, r
  <2>4. d < L1
    <3> SUFFICES ASSUME d >= L1 PROVE FALSE
      BY <2>2
    <3>1. d * L1L0 >= L1 * L1L0
      BY <2>2
    <3>2. d * L1L0 \in Nat
      BY <2>2
    <3> HIDE DEF n
    <3> QED
      BY <2>1, <2>2, <3>1, <3>2
  <2>5. slot_of(fd) \in Slot
    BY <2>2, <2>3, <2>4 DEF Slot
  <2>6. Number(<<1 + d, r>>) = L0 + d * L1L0 + r
    BY <2>2 DEF Number
  <2>7. d * L1L0 \in Nat
    BY <2>2
  <2>8. fd \in Int
    BY DEF Fds
  <2> QED
    BY <2>2, <2>3, <2>5, <2>6, <2>7, <2>8
<1> QED
  BY <1>1, <1>2

LEMMA OrderLemma ==
    ASSUME NEW s \in Slot, NEW t \in Slot, Number(t) < Number(s)
    PROVE  Before(t, s)
<1> USE DescriptorAssumption
<1>1. /\ s[1] \in 0..L1 /\ s[2] \in Nat /\ t[1] \in 0..L1 /\ t[2] \in Nat
      /\ s[1] = 0 => s[2] < L0
      /\ s[1] # 0 => s[2] < L1L0
  BY DEF Slot
<1>2. CASE t[1] < s[1]
  BY <1>2 DEF Before
<1>3. CASE t[1] = s[1]
  <2>1. t[2] < s[2]
    <3>1. (s[1] - 1) * L1L0 \in Int
      BY <1>1
    <3> QED
      BY <1>1, <1>3, <3>1 DEF Number
  <2> QED
    BY <1>3, <2>1 DEF Before
<1>4. CASE t[1] > s[1]
  <2>1. s[1] <= t[1] - 1 /\ t[1] >= 1
    BY <1>1, <1>4
  <2>2. (t[1] - 1) * L1L0 >= s[1] * L1L0 /\ (t[1] - 1) * L1L0 \in Nat /\ s[1] * L1L0 \in Nat
    BY <1>1, <2>1
  <2>3. (s[1] - 1) * L1L0 = s[1] * L1L0 - L1L0
    BY <1>1
  <2>4. Number(t) = L0 + (t[1] - 1) * L1L0 + t[2]
    BY <2>1, <1>1 DEF Number
  <2>5. Number(s) <= L0 + s[1] * L1L0
    <3>1. CASE s[1] = 0
      BY <1>1, <3>1 DEF Number
    <3>2. CASE s[1] # 0
      BY <1>1, <2>2, <2>3, <3>2 DEF Number
    <3> QED
      BY <3>1, <3>2
  <2>6. Number(t) >= L0 + s[1] * L1L0 /\ Number(s) \in Int /\ Number(t) \in Int
    BY <1>1, <2>2, <2>4, NumberLemma DEF Fds
  <2> QED
    BY <2>2, <2>5, <2>6
<1> QED
  BY <1>1, <1>2, <1>3, <1>4

\* The slots before s are as many as its number.
LEMMA BelowLemma ==
    ASSUME NEW s \in Slot
    PROVE  Cardinality({t \in Slot : Before(t, s)}) = Number(s)
<1> USE DescriptorAssumption
<1> DEFINE n == Number(s)
           Below == {t \in Slot : Before(t, s)}
           f == [i \in 0..(n - 1) |-> slot_of(i)]
<1>1. n \in Fds /\ n \in Nat /\ 0..(n - 1) \subseteq Fds
  <2>1. L1 * L1L0 \in Nat
    OBVIOUS
  <2> HIDE DEF n
  <2>2. n \in Fds
    BY NumberLemma DEF n
  <2> QED
    BY <2>1, <2>2 DEF Fds
<1>2. \A t \in Slot : Before(t, s) <=> Number(t) < n
  <2> TAKE t \in Slot
  <2>1. Before(t, s) => ~Before(s, t) /\ s # t
    BY DEF Before, Slot
  <2>2. Number(s) < Number(t) => Before(s, t)
    BY OrderLemma
  <2>3. Number(t) < Number(s) => Before(t, s)
    BY OrderLemma
  <2>4. Number(s) = Number(t) => s = t
    BY NumberLemma
  <2>5. Number(s) \in Int /\ Number(t) \in Int
    BY NumberLemma DEF Fds
  <2> QED
    BY <2>1, <2>2, <2>3, <2>4, <2>5
<1> HIDE DEF n
<1>3. \A i \in 0..(n - 1) : f[i] \in Below /\ Number(f[i]) = i
  BY <1>1, <1>2, SlotLemma
<1>4. \A t \in Below : Number(t) \in 0..(n - 1) /\ f[Number(t)] = t
  BY <1>1, <1>2, NumberLemma DEF Fds
<1>5. f \in Bijection(0..(n - 1), Below)
  BY <1>3, <1>4 DEF Bijection, Injection, Surjection, IsInjective
<1>6. IsFiniteSet(0..(n - 1)) /\ Cardinality(0..(n - 1)) = n
  <2>1. n - 1 \in Int /\ 0 \in Int
    BY <1>1
  <2>2. /\ IsFiniteSet(0..(n - 1))
        /\ Cardinality(0..(n - 1)) = IF 0 > n - 1 THEN 0 ELSE (n - 1) - 0 + 1
    BY ONLY <2>1, FS_Interval
  <2> QED
    BY <1>1, <2>2
<1> HIDE DEF f, Below
<1>7. ExistsBijection(0..(n - 1), Below)
  BY <1>5 DEF ExistsBijection
<1>8. Cardinality(Below) = n
  BY <1>6, <1>7, FS_Bijection
<1> QED
  BY <1>8 DEF Below, n

LEMMA SlotsFinite == IsFiniteSet(Slot)
<1>1. IsFiniteSet(0..(L0 - 1)) /\ IsFiniteSet(1..L1) /\ IsFiniteSet(0..(L1L0 - 1))
  BY DescriptorAssumption, FS_Interval
<1>2. IsFiniteSet({0})
  BY FS_Singleton
<1>3. IsFiniteSet({0} \X (0..(L0 - 1))) /\ IsFiniteSet((1..L1) \X (0..(L1L0 - 1)))
  BY <1>1, <1>2, FS_Product
<1> QED
  BY <1>3, FS_Union DEF Slot

(***************************************************************************)
(* alloc passes over no free slot, so all slots before the one it finds    *)
(* are open, and none of them is in a table not allocated yet.             *)
(***************************************************************************)
AllOpenBelow(q, s) ==
    \A t \in Slot : Before(t, s) => Exists(q, t) /\ is_open(desc[q][t])

LEMMA AllocLemma ==
    ASSUME NEW q, NEW s \in alloc(q)
    PROVE  /\ s \in Slot /\ AllOpenBelow(q, s) /\ alloc_fd(q, s) = Number(s)
           /\ Exists(q, s) => ~is_open(desc[q][s])
<1>1. /\ s \in Slot /\ s \in Vacant(q)
      /\ \A t \in Vacant(q) : t = s \/ Before(s, t)
  BY DEF alloc, Vacant
<1>2. ASSUME NEW t \in Slot, Before(t, s)
      PROVE  Exists(q, t) /\ is_open(desc[q][t])
  <2>1. \A x \in Slot : Before(x, s) => x \notin Vacant(q)
    BY <1>1 DEF Before, Slot
  <2>2. ~Exists(q, t) => t[2] # 0
    BY <1>2, <2>1 DEF Vacant
  <2>3. ASSUME ~Exists(q, t) PROVE FALSE
    <3> DEFINE x == <<t[1], 0>>
    <3>1. x \in Slot /\ x[1] = t[1] /\ x[2] = 0
      BY <2>3, DescriptorAssumption DEF Slot, Exists
    <3>2. ~Exists(q, x)
      BY <2>3, <3>1 DEF Exists
    <3>3. Before(x, s)
      BY <1>1, <1>2, <3>1 DEF Before, Slot
    <3> QED
      BY <2>1, <3>1, <3>2, <3>3 DEF Vacant
  <2> QED
    BY <1>2, <2>1, <2>3 DEF Vacant
<1>3. {t \in Slot : Exists(q, t) /\ Before(t, s)} = {t \in Slot : Before(t, s)}
  BY <1>2
<1>4. alloc_fd(q, s) = Number(s)
  BY <1>1, <1>3, BelowLemma DEF alloc_fd
<1>5. AllOpenBelow(q, s)
  BY <1>2 DEF AllOpenBelow
<1>6. Exists(q, s) => ~is_open(desc[q][s])
  BY <1>1 DEF Vacant
<1> QED
  BY <1>1, <1>4, <1>5, <1>6

-----------------------------------------------------------------------------
(***************************************************************************)
(* Who holds a handle                                                      *)
(***************************************************************************)

\* The descriptors of all processes that hold h, when the tables are D
Holders(D, h) == {d \in Procs \X Slot : D[d[1]][d[2]].handle = h}

LEMMA HoldersFinite ==
    ASSUME NEW D, NEW h
    PROVE  IsFiniteSet(Holders(D, h)) /\ Cardinality(Holders(D, h)) \in Nat
<1>1. IsFiniteSet(Procs \X Slot)
  BY SlotsFinite, DescriptorAssumption, FS_Product
<1>2. Holders(D, h) \in SUBSET (Procs \X Slot)
  BY DEF Holders
<1>3. IsFiniteSet(Holders(D, h))
  BY <1>1, <1>2, FS_Subset
<1> QED
  BY <1>3, FS_CardinalityType

Indicator(b) == IF b THEN 1 ELSE 0

\* Writing one descriptor takes one holder from the handle it held and gives
\* one to the handle it holds.
LEMMA AssignLemma ==
    ASSUME NEW D \in Tables, NEW q \in Procs, NEW s \in Slot, NEW e \in Entry,
           NEW h \in Handles
    PROVE  Cardinality(Holders([D EXCEPT ![q][s] = e], h)) =
             Cardinality(Holders(D, h)) - Indicator(D[q][s].handle = h)
                                        + Indicator(e.handle = h)
<1> DEFINE E == [D EXCEPT ![q][s] = e]
           was == Holders(D, h)
           rest == was \ {<<q, s>>}
<1>1. \A d \in Procs \X Slot :
        E[d[1]][d[2]] = IF d = <<q, s>> THEN e ELSE D[d[1]][d[2]]
  BY DEF Tables
<1>2. <<q, s>> \in was <=> D[q][s].handle = h
  BY DEF Holders
<1>3. Holders(E, h) = IF e.handle = h THEN rest \cup {<<q, s>>} ELSE rest
  <2> HIDE DEF E
  <2> QED
    BY <1>1 DEF Holders
<1>4. /\ IsFiniteSet(was) /\ Cardinality(was) \in Nat
      /\ IsFiniteSet(rest) /\ Cardinality(rest) \in Nat
  <2>1. IsFiniteSet(was) /\ Cardinality(was) \in Nat
    BY HoldersFinite
  <2> HIDE DEF was
  <2> QED
    BY <2>1, FS_RemoveElement, FS_CardinalityType
<1>5. Cardinality(rest) = Cardinality(was) - Indicator(D[q][s].handle = h)
  <2> HIDE DEF was
  <2> QED
    BY <1>2, <1>4, FS_RemoveElement DEF Indicator
<1>6. <<q, s>> \notin rest
  OBVIOUS
<1>7. Cardinality(Holders(E, h)) = Cardinality(rest) + Indicator(e.handle = h)
  <2> HIDE DEF rest, E
  <2>1. Cardinality(rest \cup {<<q, s>>}) = Cardinality(rest) + 1
    BY <1>4, <1>6, FS_AddElement
  <2> QED
    BY <1>3, <1>4, <2>1 DEF Indicator
<1> HIDE DEF was, rest, E
<1>8. Cardinality(Holders(E, h)) = Cardinality(was) - Indicator(D[q][s].handle = h)
                                        + Indicator(e.handle = h)
  BY <1>5, <1>7
<1> QED
  BY <1>8 DEF E, was

\* The slots of q among S that hold h
Row(D, q, S, h) == {s \in S : D[q][s].handle = h}

\* They are as many as the holders of h they stand for.
LEMMA RowLemma ==
    ASSUME NEW D, NEW q \in Procs, NEW S \in SUBSET Slot, NEW h
    PROVE  /\ IsFiniteSet({q} \X Row(D, q, S, h))
           /\ {q} \X Row(D, q, S, h) \subseteq Holders(D, h)
           /\ Cardinality({q} \X Row(D, q, S, h)) = Cardinality(Row(D, q, S, h))
           /\ Cardinality(Row(D, q, S, h)) \in Nat
<1> DEFINE row == Row(D, q, S, h)
<1>1. row \in SUBSET Slot /\ {q} \X row \subseteq Holders(D, h)
  BY DEF Holders, Row
<1> HIDE DEF row
<1>2. IsFiniteSet(row)
  BY <1>1, SlotsFinite, FS_Subset
<1>3. IsFiniteSet({q}) /\ Cardinality({q}) = 1
  BY FS_Singleton
<1>4. /\ IsFiniteSet({q} \X row)
      /\ Cardinality({q} \X row) = Cardinality({q}) * Cardinality(row)
  BY <1>2, <1>3, FS_Product
<1>5. Cardinality(row) \in Nat
  BY <1>2, FS_CardinalityType
<1>6. Cardinality({q} \X row) = Cardinality(row)
  BY <1>3, <1>4, <1>5
<1> QED
  BY <1>1, <1>4, <1>5, <1>6 DEF row

-----------------------------------------------------------------------------
(***************************************************************************)
(* The inductive invariant.  Exact counts are not enough by themselves:    *)
(* alloc hands out a slot of a table it has yet to allocate without        *)
(* looking at it, and clone copies over the tables of the new process.     *)
(***************************************************************************)
UnallocatedClosed ==
    \A q \in Procs, s \in Slot : ~Exists(q, s) => ~is_open(desc[q][s])

UncreatedEmpty ==
    \A q \in Procs \ procs : tables[q] = {} /\ \A s \in Slot : ~is_open(desc[q][s])

CountsExact ==
    \A h \in Handles : ref_count[h] = Cardinality(Holders(desc, h))

DescInv ==
    /\ DescriptorTypeOK
    /\ desc_ok
    /\ CountsExact
    /\ live = {h \in Handles : ref_count[h] > 0}
    /\ UnallocatedClosed
    /\ UncreatedEmpty

LEMMA DescInvMatches == DescInv => HandlesMatchDescriptors
<1>1. \A h \in Handles : {d \in Procs \X Slot : desc[d[1]][d[2]].handle = h} = Holders(desc, h)
  BY DEF Holders
<1> QED
  BY <1>1 DEF DescInv, HandlesMatchDescriptors, NoDescriptorPanic, CountsExact

\* The tables after a call of q has put e into slot s
PutInto(q, s, e) ==
    /\ tables' = WithTable(q, s)
    /\ desc' = [desc EXCEPT ![q][s] = e]
    /\ procs' = procs

\* What every such call has in common
PutKeeps(q, s, e) ==
    /\ desc' \in Tables /\ tables' \in [Procs -> SUBSET (1..L1)]
    /\ UnallocatedClosed' /\ UncreatedEmpty'
    /\ Exists(q, s)' /\ desc'[q][s] = e
    /\ \A t \in Slot \ {s} :
        Exists(q, t) => Exists(q, t)' /\ desc'[q][t] = desc[q][t]
    /\ \A h \in Handles :
        Cardinality(Holders(desc', h)) =
            Cardinality(Holders(desc, h)) - Indicator(desc[q][s].handle = h)
                                          + Indicator(e.handle = h)

LEMMA PutLemma ==
    ASSUME DescInv, NEW q \in procs, NEW s \in Slot, NEW e \in Entry, PutInto(q, s, e)
    PROVE  PutKeeps(q, s, e)
<1>1. q \in Procs /\ desc \in Tables /\ tables \in [Procs -> SUBSET (1..L1)]
  BY DEF DescInv, DescriptorTypeOK, Tables, Entry
<1>2. {s[1]} \ {0} \in SUBSET (1..L1)
  BY DEF Slot
<1>3. /\ tables' \in [Procs -> SUBSET (1..L1)]
      /\ tables'[q] = tables[q] \cup ({s[1]} \ {0})
      /\ \A p \in Procs \ {q} : tables'[p] = tables[p]
  BY <1>1, <1>2 DEF PutInto, WithTable
<1>4. /\ desc' \in Tables /\ desc'[q][s] = e
      /\ \A p \in Procs, t \in Slot : p # q \/ t # s => desc'[p][t] = desc[p][t]
  BY <1>1 DEF PutInto, Tables
<1>5. /\ \A t \in Slot : Exists(q, t)' <=> Exists(q, t) \/ t[1] = s[1]
      /\ \A p \in Procs \ {q}, t \in Slot : Exists(p, t)' <=> Exists(p, t)
  BY <1>1, <1>3 DEF Exists
<1>6. UnallocatedClosed'
  <2> SUFFICES ASSUME NEW p \in Procs, NEW t \in Slot, ~Exists(p, t)'
               PROVE  ~is_open(desc'[p][t])
    BY DEF UnallocatedClosed
  <2>1. ~Exists(p, t) /\ (p # q \/ t # s)
    BY <1>5
  <2> QED
    BY <1>4, <2>1 DEF DescInv, UnallocatedClosed
<1>7. UncreatedEmpty'
  BY <1>3, <1>4 DEF DescInv, UncreatedEmpty, PutInto
<1>8. \A h \in Handles :
        Cardinality(Holders(desc', h)) =
            Cardinality(Holders(desc, h)) - Indicator(desc[q][s].handle = h)
                                          + Indicator(e.handle = h)
  <2> TAKE h \in Handles
  <2>1. desc' = [desc EXCEPT ![q][s] = e]
    BY DEF PutInto
  <2>2. Cardinality(Holders([desc EXCEPT ![q][s] = e], h)) =
            Cardinality(Holders(desc, h)) - Indicator(desc[q][s].handle = h)
                                          + Indicator(e.handle = h)
    BY <1>1, AssignLemma
  <2> QED
    BY <2>1, <2>2
<1> QED
  BY <1>1, <1>3, <1>4, <1>5, <1>6, <1>7, <1>8 DEF PutKeeps

\* What a call that put a handle into slot s returns
Returns(q, s, h, low) ==
    ret' = [proc |-> q, fd |-> Number(s), handle |-> h, lowest |-> low]

LEMMA ReturnLemma ==
    ASSUME DescInv, NEW q \in procs, NEW s \in Slot, NEW e \in Entry, PutKeeps(q, s, e),
           NEW low \in BOOLEAN, low => AllOpenBelow(q, s), Returns(q, s, e.handle, low)
    PROVE  /\ ReturnedFdFinds'
           /\ ret' \in [proc : Procs \cup {NoHandle}, fd : Fds \cup {0},
                        handle : Handles \cup {NoHandle}, lowest : BOOLEAN]
<1>1. /\ ret'.proc = q /\ ret'.fd = Number(s) /\ ret'.handle = e.handle
      /\ ret'.lowest = low
  BY DEF Returns
<1>2. Number(s) \in Fds /\ slot_of(Number(s)) = s
  BY NumberLemma
<1>3. get(q, Number(s))' = desc'[q][s]
  BY <1>2 DEF PutKeeps, get
<1>4. desc'[q][s].handle = e.handle
  BY DEF PutKeeps
<1>5. ASSUME low, NEW fd \in Fds, fd < Number(s)
      PROVE  is_open(get(q, fd)')
  <2>1. slot_of(fd) \in Slot /\ Number(slot_of(fd)) = fd
    BY SlotLemma
  <2> DEFINE t == slot_of(fd)
  <2>2. Before(t, s) /\ t # s
    <3>1. Number(t) < Number(s)
      BY <1>5, <2>1
    <3> HIDE DEF t
    <3>2. t \in Slot
      BY <2>1 DEF t
    <3>3. Number(s) \in Int
      BY <1>2 DEF Fds
    <3> QED
      BY <3>1, <3>2, <3>3, OrderLemma
  <2>3. Exists(q, t) /\ is_open(desc[q][t])
    BY <1>5, <2>1, <2>2 DEF AllOpenBelow
  <2>4. Exists(q, t)' /\ is_open(desc'[q][t])
    BY <2>1, <2>2, <2>3 DEF PutKeeps
  <2> QED
    BY <2>4 DEF get
<1>6. ReturnedFdFinds'
  BY <1>1, <1>3, <1>4, <1>5 DEF ReturnedFdFinds
<1>7. q \in Procs
  BY DEF DescInv, DescriptorTypeOK
<1> QED
  BY <1>2, <1>6, <1>7 DEF Returns, Entry

-----------------------------------------------------------------------------
(***************************************************************************)
(* The system calls                                                        *)
(***************************************************************************)
Kept == DescInv' /\ ReturnedFdFinds'

RecordOf(h, mark) == [handle |-> h, cloexec |-> mark]

LEMMA OpenLemma ==
    ASSUME DescInv, NEW q \in Procs, NEW h \in Handles, open(q, h)
    PROVE  Kept
<1>1. q \in procs /\ h \notin live /\ procs' = procs
  BY DEF open, CanCall
<1>2. PICK s \in alloc(q) :
        /\ tables' = WithTable(q, s)
        /\ desc' = [desc EXCEPT ![q][s] = [handle |-> h, cloexec |-> h \in Irqs]]
        /\ desc_ok' = (~is_open(desc[q][s]) /\ ref_count[h] >= 0)
        /\ ret' = [proc |-> q, fd |-> alloc_fd(q, s), handle |-> h, lowest |-> TRUE]
  BY DEF open
<1>3. s \in Slot /\ AllOpenBelow(q, s) /\ alloc_fd(q, s) = Number(s) /\ ~is_open(desc[q][s])
  BY AllocLemma DEF DescInv, UnallocatedClosed
<1> DEFINE e == RecordOf(h, h \in Irqs)
<1>4. e \in Entry /\ e.handle = h
  BY DEF Entry, RecordOf
<1>5. PutInto(q, s, e) /\ Returns(q, s, h, TRUE)
  BY <1>1, <1>2, <1>3 DEF PutInto, Returns, RecordOf
<1> HIDE DEF e
<1>6. PutKeeps(q, s, e)
  BY <1>1, <1>3, <1>4, <1>5, PutLemma
<1>7. /\ ReturnedFdFinds'
      /\ ret' \in [proc : Procs \cup {NoHandle}, fd : Fds \cup {0},
                   handle : Handles \cup {NoHandle}, lowest : BOOLEAN]
  <2>1. Returns(q, s, e.handle, TRUE)
    BY <1>4, <1>5
  <2> QED
    BY <1>1, <1>3, <1>4, <1>6, <2>1, ReturnLemma
<1>8. /\ ref_count \in [Handles -> 0..MaxRefs] /\ live = {x \in Handles : ref_count[x] > 0}
      /\ ref_count' = [ref_count EXCEPT ![h] = @ + 1] /\ live' = live \cup {h}
  BY DEF DescInv, DescriptorTypeOK, open
<1>9. ref_count[h] = 0
  BY <1>1, <1>8
<1>10. ref_count' \in [Handles -> 0..MaxRefs] /\ live' = {x \in Handles : ref_count'[x] > 0}
  BY <1>8, <1>9, DescriptorAssumption
<1>11. CountsExact'
  <2> SUFFICES ASSUME NEW x \in Handles
               PROVE  ref_count'[x] = Cardinality(Holders(desc', x))
    BY DEF CountsExact
  <2>1. desc[q][s].handle # x
    BY <1>3, DescriptorAssumption DEF is_open
  <2>2. Cardinality(Holders(desc', x)) = ref_count[x] + Indicator(h = x)
    BY <1>4, <1>6, <1>8, <2>1 DEF PutKeeps, DescInv, CountsExact, Indicator
  <2> QED
    BY <1>8, <2>2 DEF Indicator
<1>12. desc_ok'
  <2>1. ref_count[h] >= 0
    BY <1>9
  <2> QED
    BY <1>2, <1>3, <2>1, Zenon
<1>13. procs' \subseteq Procs /\ live' \subseteq Handles
  BY <1>1, <1>10 DEF DescInv, DescriptorTypeOK
<1> QED
  BY <1>6, <1>7, <1>10, <1>11, <1>12, <1>13
  DEF Kept, DescInv, DescriptorTypeOK, PutKeeps, Tables, Entry

LEMMA NoReturnLemma ==
    ASSUME ret' = NoReturn
    PROVE  /\ ReturnedFdFinds'
           /\ ret' \in [proc : Procs \cup {NoHandle}, fd : Fds \cup {0},
                        handle : Handles \cup {NoHandle}, lowest : BOOLEAN]
BY DEF ReturnedFdFinds, NoReturn

LEMMA OpenRefusedLemma ==
    ASSUME DescInv, NEW q \in Procs, open_refused(q)
    PROVE  Kept
<1>1. PICK s \in alloc(q) : tables' = WithTable(q, s)
  BY DEF open_refused
<1>2. s \in Slot
  BY AllocLemma
<1>3. /\ ret' = NoReturn /\ desc' = desc /\ procs' = procs /\ ref_count' = ref_count
      /\ live' = live /\ desc_ok' = desc_ok /\ q \in procs
  BY DEF open_refused, CanCall
<1>4. /\ tables' \in [Procs -> SUBSET (1..L1)]
      /\ \A p \in Procs : tables[p] \subseteq tables'[p] /\ (p # q => tables'[p] = tables[p])
  <2>1. {s[1]} \ {0} \in SUBSET (1..L1)
    BY <1>2 DEF Slot
  <2> QED
    BY <1>1, <2>1 DEF WithTable, DescInv, DescriptorTypeOK
<1>5. UnallocatedClosed' /\ UncreatedEmpty'
  <2>1. \A p \in Procs, t \in Slot : Exists(p, t) => Exists(p, t)'
    BY <1>4 DEF Exists
  <2> QED
    BY <1>3, <1>4, <2>1 DEF DescInv, UnallocatedClosed, UncreatedEmpty
<1>6. CountsExact'
  BY <1>3 DEF DescInv, CountsExact
<1> QED
  BY <1>3, <1>4, <1>5, <1>6, NoReturnLemma DEF Kept, DescInv, DescriptorTypeOK

\* What get finds is open and held by its slot.
LEMMA GetLemma ==
    ASSUME DescInv, NEW q \in Procs, NEW fd \in Fds, is_open(get(q, fd))
    PROVE  /\ get(q, fd) = desc[q][slot_of(fd)] /\ get(q, fd).handle \in Handles
           /\ slot_of(fd) \in Slot /\ Exists(q, slot_of(fd))
<1>1. slot_of(fd) \in Slot
  BY SlotLemma
<1>2. Exists(q, slot_of(fd))
  BY DEF get, is_open, Closed
<1>3. get(q, fd) = desc[q][slot_of(fd)]
  BY <1>2 DEF get
<1>4. desc[q][slot_of(fd)].handle \in Handles \cup {NoHandle}
  BY <1>1 DEF DescInv, DescriptorTypeOK
<1> QED
  BY <1>1, <1>2, <1>3, <1>4 DEF is_open

\* A descriptor that holds a handle counts.
LEMMA HeldLemma ==
    ASSUME DescInv, NEW q \in Procs, NEW s \in Slot, NEW h \in Handles, desc[q][s].handle = h
    PROVE  ref_count[h] \in Nat /\ ref_count[h] > 0
<1>1. <<q, s>> \in Holders(desc, h)
  BY DEF Holders
<1>2. IsFiniteSet(Holders(desc, h)) /\ Cardinality(Holders(desc, h)) \in Nat
  BY HoldersFinite
<1>3. Cardinality(Holders(desc, h)) # 0
  BY <1>1, <1>2, FS_EmptySet
<1> QED
  BY <1>2, <1>3 DEF DescInv, CountsExact

\* Two of them count twice.
LEMMA HeldTwiceLemma ==
    ASSUME DescInv, NEW q \in Procs, NEW s \in Slot, NEW t \in Slot, NEW h \in Handles,
           s # t, desc[q][s].handle = h, desc[q][t].handle = h
    PROVE  ref_count[h] > 1
<1> DEFINE was == Holders(desc, h)
           rest == was \ {<<q, s>>}
<1>1. <<q, s>> \in was /\ <<q, t>> \in rest
  BY DEF Holders
<1>2. IsFiniteSet(was) /\ Cardinality(was) \in Nat
  BY HoldersFinite
<1>3. Cardinality(was) = ref_count[h]
  BY DEF DescInv, CountsExact
<1> HIDE DEF was
<1>4. IsFiniteSet(rest) /\ Cardinality(rest) = Cardinality(was) - 1
  BY <1>1, <1>2, FS_RemoveElement
<1> HIDE DEF rest
<1>5. Cardinality(rest) \in Nat /\ Cardinality(rest) # 0
  BY <1>1, <1>4, FS_EmptySet, FS_CardinalityType
<1> QED
  BY <1>2, <1>3, <1>4, <1>5

LEMMA DupAnyLemma ==
    ASSUME DescInv, NEW q \in Procs, NEW old \in Fds, NEW mark \in BOOLEAN,
           dup_any(q, old, mark)
    PROVE  Kept
<1> DEFINE h == get(q, old).handle
<1>1. q \in procs /\ is_open(get(q, old)) /\ ref_count[h] < MaxRefs /\ procs' = procs
  BY DEF dup_any, CanCall
<1>2. /\ h \in Handles /\ slot_of(old) \in Slot /\ desc[q][slot_of(old)].handle = h
  BY <1>1, GetLemma
<1>3. PICK s \in alloc(q) :
        /\ tables' = WithTable(q, s)
        /\ desc' = [desc EXCEPT ![q][s] = [handle |-> h, cloexec |-> mark]]
        /\ desc_ok' = ~is_open(desc[q][s])
        /\ ret' = [proc |-> q, fd |-> alloc_fd(q, s), handle |-> h, lowest |-> TRUE]
  BY DEF dup_any
<1>4. live' = live /\ ref_count' = [ref_count EXCEPT ![h] = @ + 1]
  BY DEF dup_any
<1> HIDE DEF h
<1>5. s \in Slot /\ AllOpenBelow(q, s) /\ alloc_fd(q, s) = Number(s) /\ ~is_open(desc[q][s])
  BY AllocLemma DEF DescInv, UnallocatedClosed
<1> DEFINE e == RecordOf(h, mark)
<1>6. e \in Entry /\ e.handle = h
  BY <1>2 DEF Entry, RecordOf
<1>7. PutInto(q, s, e) /\ Returns(q, s, h, TRUE)
  BY <1>1, <1>3, <1>5 DEF PutInto, Returns, RecordOf
<1> HIDE DEF e
<1>8. PutKeeps(q, s, e)
  BY <1>1, <1>5, <1>6, <1>7, PutLemma
<1>9. /\ ReturnedFdFinds'
      /\ ret' \in [proc : Procs \cup {NoHandle}, fd : Fds \cup {0},
                   handle : Handles \cup {NoHandle}, lowest : BOOLEAN]
  <2>1. Returns(q, s, e.handle, TRUE)
    BY <1>6, <1>7
  <2> QED
    BY <1>1, <1>5, <1>6, <1>8, <2>1, ReturnLemma
<1>10. ref_count \in [Handles -> 0..MaxRefs] /\ live = {x \in Handles : ref_count[x] > 0}
  BY DEF DescInv, DescriptorTypeOK
<1>11. ref_count[h] > 0
  BY <1>2, HeldLemma
<1>12. ref_count' \in [Handles -> 0..MaxRefs] /\ live' = {x \in Handles : ref_count'[x] > 0}
  BY <1>1, <1>2, <1>4, <1>10, <1>11, DescriptorAssumption
<1>13. CountsExact'
  <2> SUFFICES ASSUME NEW x \in Handles
               PROVE  ref_count'[x] = Cardinality(Holders(desc', x))
    BY DEF CountsExact
  <2>1. desc[q][s].handle # x
    BY <1>5, DescriptorAssumption DEF is_open
  <2>2. Cardinality(Holders(desc', x)) = ref_count[x] + Indicator(h = x)
    BY <1>6, <1>8, <1>10, <2>1 DEF PutKeeps, DescInv, CountsExact, Indicator
  <2> QED
    BY <1>2, <1>4, <1>10, <2>2 DEF Indicator
<1>14. desc_ok'
  BY <1>3, <1>5, Zenon
<1>15. procs' \subseteq Procs /\ live' \subseteq Handles
  BY <1>1, <1>12 DEF DescInv, DescriptorTypeOK
<1> QED
  BY <1>8, <1>9, <1>12, <1>13, <1>14, <1>15
  DEF Kept, DescInv, DescriptorTypeOK, PutKeeps, Tables, Entry

LEMMA DupOverLemma ==
    ASSUME DescInv, NEW q \in Procs, NEW old \in Fds, NEW new \in Fds, NEW mark \in BOOLEAN,
           dup_over(q, old, new, mark)
    PROVE  Kept
<1> DEFINE h == get(q, old).handle
           victim == get(q, new).handle
           s == slot_of(new)
           t == slot_of(old)
           count == [x \in Handles |-> ref_count[x] - One(victim)[x]]
           e == RecordOf(h, mark)
<1>1. /\ q \in procs /\ old # new /\ is_open(get(q, old)) /\ ref_count[h] < MaxRefs
      /\ procs' = procs
      /\ tables' = WithTable(q, s)
      /\ desc' = [desc EXCEPT ![q][s] = e]
      /\ ref_count' = [count EXCEPT ![h] = @ + 1]
      /\ live' = IF victim # NoHandle /\ count[victim] = 0 THEN live \ {victim} ELSE live
      /\ desc_ok' = \A x \in Handles : count[x] >= 0
      /\ ret' = [proc |-> q, fd |-> new, handle |-> h, lowest |-> FALSE]
  BY DEF dup_over, CanCall, RecordOf
<1>2. /\ h \in Handles /\ t \in Slot /\ desc[q][t].handle = h
  BY <1>1, GetLemma
<1>3. /\ s \in Slot /\ Number(s) = new /\ s # t
  BY <1>1, SlotLemma
<1>4. desc[q][s].handle = victim
  <2>1. CASE Exists(q, s)
    BY <2>1 DEF get
  <2>2. CASE ~Exists(q, s)
    BY <1>3, <2>2 DEF get, DescInv, UnallocatedClosed, is_open, Closed
  <2> QED
    BY <2>1, <2>2
<1>5. victim \in Handles \cup {NoHandle}
  BY <1>3, <1>4 DEF DescInv, DescriptorTypeOK
<1>6. \A x \in Handles : count[x] = ref_count[x] - Indicator(victim = x)
  BY DEF One, Indicator
<1>7. count = [x \in Handles |-> count[x]]
  OBVIOUS
<1> HIDE DEF h, victim, s, t, count
<1>8. e \in Entry /\ e.handle = h
  BY <1>2 DEF Entry, RecordOf
<1>9. PutInto(q, s, e) /\ Returns(q, s, e.handle, FALSE)
  BY <1>1, <1>3, <1>8 DEF PutInto, Returns
<1> HIDE DEF e
<1>10. PutKeeps(q, s, e)
  BY <1>1, <1>3, <1>8, <1>9, PutLemma
<1>11. /\ ReturnedFdFinds'
       /\ ret' \in [proc : Procs \cup {NoHandle}, fd : Fds \cup {0},
                    handle : Handles \cup {NoHandle}, lowest : BOOLEAN]
  BY <1>1, <1>3, <1>8, <1>9, <1>10, ReturnLemma
<1>12. ref_count \in [Handles -> 0..MaxRefs] /\ live = {x \in Handles : ref_count[x] > 0}
  BY DEF DescInv, DescriptorTypeOK
<1>13. ref_count[h] > 0 /\ (victim \in Handles => ref_count[victim] > 0)
  BY <1>2, <1>3, <1>4, HeldLemma
<1>14. victim = h => ref_count[h] > 1
  BY <1>2, <1>3, <1>4, HeldTwiceLemma
<1>15. \A x \in Handles :
         ref_count'[x] = ref_count[x] - Indicator(victim = x) + Indicator(h = x)
  BY <1>1, <1>2, <1>6, <1>7, <1>12 DEF Indicator
<1>16. ref_count' \in [Handles -> 0..MaxRefs]
  <2>1. ref_count' = [x \in Handles |-> ref_count'[x]]
    BY <1>1, <1>7
  <2> SUFFICES ASSUME NEW x \in Handles PROVE ref_count'[x] \in 0..MaxRefs
    BY <2>1
  <2> QED
    BY <1>1, <1>2, <1>12, <1>13, <1>14, <1>15, DescriptorAssumption DEF Indicator
<1>17. live' = {x \in Handles : ref_count'[x] > 0}
  <2>1. CASE victim = NoHandle
    BY <1>1, <1>2, <1>12, <1>13, <1>15, <2>1, DescriptorAssumption DEF Indicator
  <2>2. CASE victim \in Handles
    <3>1. count[victim] = 0 <=> ref_count[victim] = 1
      BY <1>6, <1>12, <2>2 DEF Indicator
    <3>2. victim # NoHandle
      BY <2>2, DescriptorAssumption
    <3>3. \A x \in Handles : ref_count'[x] > 0 <=>
            (ref_count[x] > 0 /\ ~(x = victim /\ ref_count[victim] = 1))
      BY <1>2, <1>12, <1>13, <1>14, <1>15, <2>2 DEF Indicator
    <3> QED
      BY <1>1, <1>12, <3>1, <3>2, <3>3
  <2> QED
    BY <1>5, <2>1, <2>2
<1>18. CountsExact'
  <2> SUFFICES ASSUME NEW x \in Handles
               PROVE  ref_count'[x] = Cardinality(Holders(desc', x))
    BY DEF CountsExact
  <2>1. Cardinality(Holders(desc, x)) = ref_count[x]
    BY DEF DescInv, CountsExact
  <2> QED
    BY <1>4, <1>8, <1>10, <1>15, <2>1 DEF PutKeeps
<1>19. desc_ok'
  <2>1. \A x \in Handles : count[x] >= 0
    BY <1>5, <1>6, <1>12, <1>13 DEF Indicator
  <2> QED
    BY <1>1, <2>1, Zenon
<1>20. procs' \subseteq Procs /\ live' \subseteq Handles
  BY <1>1, <1>17 DEF DescInv, DescriptorTypeOK
<1> QED
  BY <1>10, <1>11, <1>16, <1>17, <1>18, <1>19, <1>20
  DEF Kept, DescInv, DescriptorTypeOK, PutKeeps, Tables, Entry

\* What release makes of the counts when they lose n references and n holders
LEMMA ReleaseLemma ==
    ASSUME DescInv, NEW n \in [Handles -> Nat], release(n),
           \A h \in Handles : /\ n[h] <= ref_count[h]
                              /\ Cardinality(Holders(desc', h)) = ref_count[h] - n[h]
    PROVE  /\ ref_count' \in [Handles -> 0..MaxRefs] /\ CountsExact' /\ desc_ok'
           /\ live' = {h \in Handles : ref_count'[h] > 0}
<1>1. /\ ref_count \in [Handles -> 0..MaxRefs] /\ live = {h \in Handles : ref_count[h] > 0}
      /\ desc_ok
  BY DEF DescInv, DescriptorTypeOK
<1>2. /\ ref_count' = [h \in Handles |-> ref_count[h] - n[h]]
      /\ live' = {h \in live : n[h] = 0 \/ ref_count[h] > n[h]}
      /\ desc_ok' = (desc_ok /\ \A h \in Handles : n[h] > 0 => ref_count[h] >= n[h])
  BY DEF release
<1>3. ref_count' \in [Handles -> 0..MaxRefs]
  BY <1>1, <1>2, DescriptorAssumption
<1>4. \A h \in Handles : ref_count'[h] > 0 <=> h \in live'
  BY <1>1, <1>2
<1>5. live' = {h \in Handles : ref_count'[h] > 0}
  BY <1>1, <1>2, <1>4
<1>6. CountsExact'
  BY <1>2 DEF CountsExact
<1>7. desc_ok'
  <2>1. \A h \in Handles : n[h] > 0 => ref_count[h] >= n[h]
    BY <1>1
  <2> QED
    BY <1>1, <1>2, <2>1, Zenon
<1> QED
  BY <1>3, <1>5, <1>6, <1>7

\* Closing descriptors disturbs nothing else.
LEMMA ClosedLemma ==
    ASSUME DescInv, desc' \in Tables, tables' = tables, procs' = procs,
           \A q \in Procs, s \in Slot : desc'[q][s] = desc[q][s] \/ desc'[q][s] = Closed
    PROVE  UnallocatedClosed' /\ UncreatedEmpty'
<1>1. \A q \in Procs, s \in Slot : is_open(desc'[q][s]) => is_open(desc[q][s])
  BY DEF is_open, Closed
<1>2. \A q \in Procs, s \in Slot : Exists(q, s)' <=> Exists(q, s)
  BY DEF Exists
<1>3. UnallocatedClosed'
  BY <1>1, <1>2 DEF DescInv, UnallocatedClosed
<1>4. UncreatedEmpty'
  BY <1>1 DEF DescInv, UncreatedEmpty
<1> QED
  BY <1>3, <1>4

LEMMA CloseLemma ==
    ASSUME DescInv, NEW q \in Procs, NEW fd \in Fds, close(q, fd)
    PROVE  Kept
<1> DEFINE h == get(q, fd).handle
           s == slot_of(fd)
<1>1. /\ is_open(get(q, fd)) /\ desc' = [desc EXCEPT ![q][s] = Closed]
      /\ release(One(h)) /\ ret' = NoReturn /\ tables' = tables /\ procs' = procs
  BY DEF close
<1>2. h \in Handles /\ s \in Slot /\ desc[q][s].handle = h
  BY <1>1, GetLemma
<1> HIDE DEF h, s
<1>3. desc \in Tables /\ Closed \in Entry
  BY DEF DescInv, DescriptorTypeOK, Tables, Entry, Closed
<1>4. /\ desc' \in Tables
      /\ \A p \in Procs, t \in Slot : desc'[p][t] = desc[p][t] \/ desc'[p][t] = Closed
  BY <1>1, <1>2, <1>3 DEF Tables
<1>5. UnallocatedClosed' /\ UncreatedEmpty'
  BY <1>1, <1>4, ClosedLemma
<1>6. ref_count[h] \in Nat /\ ref_count[h] > 0
  BY <1>2, HeldLemma
<1>7. \A x \in Handles : /\ One(h)[x] = Indicator(h = x) /\ One(h)[x] \in Nat
                         /\ One(h)[x] <= ref_count[x]
                         /\ ref_count[x] = Cardinality(Holders(desc, x))
                         /\ ref_count[x] \in Nat
  BY <1>6 DEF One, Indicator, DescInv, DescriptorTypeOK, CountsExact
<1>8. \A x \in Handles : Cardinality(Holders(desc', x)) = ref_count[x] - One(h)[x]
  <2> TAKE x \in Handles
  <2>1. Cardinality(Holders([desc EXCEPT ![q][s] = Closed], x)) =
          Cardinality(Holders(desc, x)) - Indicator(desc[q][s].handle = x)
                                        + Indicator(Closed.handle = x)
    BY <1>2, <1>3, AssignLemma
  <2>2. Indicator(Closed.handle = x) = 0
    BY DescriptorAssumption DEF Indicator, Closed
  <2>3. Cardinality(Holders(desc', x)) = ref_count[x] - Indicator(h = x) + 0
    BY <1>1, <1>2, <1>7, <2>1, <2>2
  <2>4. Indicator(h = x) \in Int
    BY DEF Indicator
  <2> QED
    BY <1>7, <2>3, <2>4
<1>9. One(h) \in [Handles -> Nat]
  BY DEF One
<1>10. /\ ref_count' \in [Handles -> 0..MaxRefs] /\ CountsExact' /\ desc_ok'
       /\ live' = {x \in Handles : ref_count'[x] > 0}
  BY <1>1, <1>7, <1>8, <1>9, ReleaseLemma
<1> QED
  BY <1>1, <1>4, <1>5, <1>10, NoReturnLemma
  DEF Kept, DescInv, DescriptorTypeOK, Tables, Entry

LEMMA CloexecLemma ==
    ASSUME DescInv, NEW q \in Procs, cloexec(q)
    PROVE  Kept
<1> DEFINE marked == {s \in Slot : Exists(q, s) /\ desc[q][s].cloexec}
           n == Holds(q, marked)
<1>1. /\ desc' = [desc EXCEPT ![q] = [s \in Slot |-> IF s \in marked THEN Closed
                                                   ELSE desc[q][s]]]
      /\ release(n) /\ ret' = NoReturn /\ tables' = tables /\ procs' = procs
  BY DEF cloexec
<1>2. marked \in SUBSET Slot
  OBVIOUS
<1>3. \A h \in Handles : n[h] = Cardinality(Row(desc, q, marked, h))
  BY DEF Holds, Row
<1>4. n = [h \in Handles |-> n[h]]
  BY DEF Holds
<1> HIDE DEF marked, n
<1>5. desc \in Tables /\ Closed \in Entry
  BY DEF DescInv, DescriptorTypeOK, Tables, Entry, Closed
<1>6. /\ desc' \in Tables
      /\ \A p \in Procs, s \in Slot :
            desc'[p][s] = IF p = q /\ s \in marked THEN Closed ELSE desc[p][s]
  BY <1>1, <1>5 DEF Tables
<1>7. UnallocatedClosed' /\ UncreatedEmpty'
  BY <1>1, <1>6, ClosedLemma
<1>8. \A h \in Handles : /\ n[h] \in Nat /\ n[h] <= ref_count[h]
                         /\ Cardinality(Holders(desc', h)) = ref_count[h] - n[h]
  <2> TAKE h \in Handles
  <2> DEFINE row == Row(desc, q, marked, h)
             was == Holders(desc, h)
  <2>1. /\ IsFiniteSet({q} \X row) /\ {q} \X row \subseteq was
        /\ Cardinality({q} \X row) = Cardinality(row) /\ Cardinality(row) \in Nat
    BY <1>2, RowLemma
  <2>2. IsFiniteSet(was) /\ Cardinality(was) = ref_count[h] /\ ref_count[h] \in Nat
    BY HoldersFinite DEF DescInv, CountsExact
  <2>3. Holders(desc', h) = was \ ({q} \X row)
    BY <1>2, <1>6, DescriptorAssumption DEF Holders, Closed, Row
  <2>4. n[h] = Cardinality(row)
    BY <1>3
  <2> HIDE DEF row, was
  <2>5. was \cap ({q} \X row) = {q} \X row
    BY <2>1
  <2>6. Cardinality(was \ ({q} \X row)) = Cardinality(was) - Cardinality(was \cap ({q} \X row))
    BY <2>2, FS_Difference
  <2>7. Cardinality({q} \X row) <= Cardinality(was)
    BY <2>1, <2>2, FS_Subset
  <2> QED
    BY <2>1, <2>2, <2>3, <2>4, <2>5, <2>6, <2>7
<1>9. n \in [Handles -> Nat]
  BY <1>4, <1>8
<1>10. /\ ref_count' \in [Handles -> 0..MaxRefs] /\ CountsExact' /\ desc_ok'
       /\ live' = {x \in Handles : ref_count'[x] > 0}
  BY <1>1, <1>8, <1>9, ReleaseLemma
<1> QED
  BY <1>1, <1>6, <1>7, <1>10, NoReturnLemma
  DEF Kept, DescInv, DescriptorTypeOK, Tables, Entry

LEMMA CloneLemma ==
    ASSUME DescInv, NEW q \in Procs, NEW child \in Procs, clone(q, child)
    PROVE  Kept
<1> DEFINE there == {s \in Slot : Exists(q, s)}
           held == Holds(q, there)
<1>1. /\ q \in procs /\ child \notin procs
      /\ \A h \in Handles : ref_count[h] + held[h] <= MaxRefs
      /\ procs' = procs \cup {child}
      /\ tables' = [tables EXCEPT ![child] = tables[q]]
      /\ desc' = [desc EXCEPT ![child] = desc[q]]
      /\ ref_count' = [h \in Handles |-> ref_count[h] + held[h]]
      /\ desc_ok' = \A s \in Slot : ~is_open(desc[child][s])
      /\ ret' = NoReturn /\ live' = live
  BY DEF clone, CanCall
<1>2. there \in SUBSET Slot /\ \A s \in Slot : s \notin there => ~is_open(desc[q][s])
  BY DEF DescInv, UnallocatedClosed
<1>3. \A h \in Handles : held[h] = Cardinality(Row(desc, q, there, h))
  BY DEF Holds, Row
<1> HIDE DEF there, held
<1>4. desc \in Tables /\ tables \in [Procs -> SUBSET (1..L1)]
  BY DEF DescInv, DescriptorTypeOK, Tables, Entry
<1>5. /\ desc' \in Tables /\ tables' \in [Procs -> SUBSET (1..L1)]
      /\ desc'[child] = desc[q] /\ tables'[child] = tables[q]
      /\ \A p \in Procs \ {child} : desc'[p] = desc[p] /\ tables'[p] = tables[p]
  BY <1>1, <1>4 DEF Tables
<1>6. \A s \in Slot : ~is_open(desc[child][s])
  BY <1>1 DEF DescInv, UncreatedEmpty
<1>7. UnallocatedClosed'
  BY <1>5 DEF DescInv, UnallocatedClosed, Exists
<1>8. UncreatedEmpty'
  BY <1>1, <1>5 DEF DescInv, UncreatedEmpty
<1>9. \A h \in Handles : /\ held[h] \in Nat
                         /\ held[h] <= ref_count[h] /\ ref_count[h] \in Nat
                         /\ Cardinality(Holders(desc', h)) = ref_count[h] + held[h]
  <2> TAKE h \in Handles
  <2> DEFINE row == Row(desc, q, there, h)
             copy == Row(desc', child, there, h)
             was == Holders(desc, h)
  <2>1. copy = row
    BY <1>5 DEF Row
  <2>2. /\ {q} \X row \subseteq was /\ IsFiniteSet({q} \X row)
        /\ Cardinality({q} \X row) = Cardinality(row) /\ Cardinality(row) \in Nat
    BY <1>2, RowLemma
  <2>3. /\ IsFiniteSet({child} \X copy)
        /\ Cardinality({child} \X copy) = Cardinality(copy)
    BY <1>2, RowLemma
  <2>4. IsFiniteSet(was) /\ Cardinality(was) = ref_count[h] /\ ref_count[h] \in Nat
    BY HoldersFinite DEF DescInv, CountsExact
  <2>5. h # NoHandle
    BY DescriptorAssumption
  <2>6. \A s \in Slot : desc[q][s].handle = h => s \in there
    BY <1>2, <2>5 DEF is_open
  <2>7. Holders(desc', h) = was \cup ({child} \X row)
    BY <1>2, <1>5, <1>6, <2>5, <2>6 DEF Holders, is_open, Row
  <2>8. was \cap ({child} \X row) = {}
    BY <1>6, <1>2, <2>5 DEF Holders, is_open, Row
  <2>9. held[h] = Cardinality(row)
    BY <1>3
  <2> HIDE DEF row, was, copy
  <2>10. Cardinality(was \cup ({child} \X row)) =
            Cardinality(was) + Cardinality({child} \X row) - Cardinality(was \cap ({child} \X row))
    BY <2>1, <2>3, <2>4, FS_Union
  <2>11. Cardinality(was \cap ({child} \X row)) = 0
    BY <2>8, FS_EmptySet
  <2>12. Cardinality({q} \X row) <= Cardinality(was)
    BY <2>2, <2>4, FS_Subset
  <2> QED
    BY <2>1, <2>2, <2>3, <2>4, <2>7, <2>9, <2>10, <2>11, <2>12
<1>10. ref_count' \in [Handles -> 0..MaxRefs]
  BY <1>1, <1>9, DescriptorAssumption
<1>11. live' = {h \in Handles : ref_count'[h] > 0}
  <2>1. \A h \in Handles : ref_count'[h] > 0 <=> ref_count[h] > 0
    BY <1>1, <1>9
  <2> QED
    BY <1>1, <2>1 DEF DescInv
<1>12. CountsExact'
  BY <1>1, <1>9 DEF CountsExact
<1>13. desc_ok'
  BY <1>1, <1>6, Zenon
<1>14. procs' \subseteq Procs /\ live' \subseteq Handles
  BY <1>1 DEF DescInv, DescriptorTypeOK
<1> QED
  BY <1>1, <1>5, <1>7, <1>8, <1>10, <1>11, <1>12, <1>13, <1>14, NoReturnLemma
  DEF Kept, DescInv, DescriptorTypeOK, Tables, Entry

-----------------------------------------------------------------------------
LEMMA DescInitLemma == DescriptorInit => DescInv /\ ReturnedFdFinds
<1> SUFFICES ASSUME DescriptorInit PROVE DescInv /\ ReturnedFdFinds
  OBVIOUS
<1>1. PICK q \in Procs : procs = {q}
  BY DEF DescriptorInit
<1>2. /\ desc = [p \in Procs |-> [s \in Slot |-> Closed]]
      /\ tables = [p \in Procs |-> {}] /\ ref_count = [h \in Handles |-> 0]
      /\ live = {} /\ ret = NoReturn /\ desc_ok = TRUE
  BY DEF DescriptorInit
<1>3. DescriptorTypeOK
  BY <1>1, <1>2, DescriptorAssumption DEF DescriptorTypeOK, Closed, NoReturn
<1>4. CountsExact
  <2> SUFFICES ASSUME NEW h \in Handles
               PROVE  ref_count[h] = Cardinality(Holders(desc, h))
    BY DEF CountsExact
  <2>1. Holders(desc, h) = {}
    BY <1>2, DescriptorAssumption DEF Holders, Closed
  <2> QED
    BY <1>2, <2>1, FS_EmptySet
<1>5. UnallocatedClosed /\ UncreatedEmpty
  BY <1>2 DEF UnallocatedClosed, UncreatedEmpty, is_open, Closed
<1>6. live = {h \in Handles : ref_count[h] > 0}
  BY <1>2
<1>7. ReturnedFdFinds
  BY <1>2 DEF ReturnedFdFinds, NoReturn
<1> QED
  BY <1>2, <1>3, <1>4, <1>5, <1>6, <1>7 DEF DescInv

LEMMA DescNextLemma ==
    ASSUME DescInv, ReturnedFdFinds, [DescriptorNext]_descVars
    PROVE  DescInv' /\ ReturnedFdFinds'
<1>1. CASE UNCHANGED descVars
  BY <1>1
  DEF descVars, DescInv, ReturnedFdFinds, DescriptorTypeOK, CountsExact, Holders,
      UnallocatedClosed, UncreatedEmpty, Exists, get
<1>2. CASE DescriptorNext
  <2>1. PICK q \in Procs :
            \/ \E h \in Handles : open(q, h)
            \/ open_refused(q)
            \/ \E old \in Fds, mark \in BOOLEAN : dup_any(q, old, mark)
            \/ \E old \in Fds, new \in Fds, mark \in BOOLEAN : dup_over(q, old, new, mark)
            \/ \E fd \in Fds : close(q, fd)
            \/ cloexec(q)
            \/ \E child \in Procs : clone(q, child)
    BY <1>2 DEF DescriptorNext
  <2>2. CASE \E h \in Handles : open(q, h)
    BY <2>2, OpenLemma DEF Kept
  <2>3. CASE open_refused(q)
    BY <2>3, OpenRefusedLemma DEF Kept
  <2>4. CASE \E old \in Fds, mark \in BOOLEAN : dup_any(q, old, mark)
    BY <2>4, DupAnyLemma DEF Kept
  <2>5. CASE \E old \in Fds, new \in Fds, mark \in BOOLEAN : dup_over(q, old, new, mark)
    BY <2>5, DupOverLemma DEF Kept
  <2>6. CASE \E fd \in Fds : close(q, fd)
    BY <2>6, CloseLemma DEF Kept
  <2>7. CASE cloexec(q)
    BY <2>7, CloexecLemma DEF Kept
  <2>8. CASE \E child \in Procs : clone(q, child)
    BY <2>8, CloneLemma DEF Kept
  <2> QED
    BY <2>1, <2>2, <2>3, <2>4, <2>5, <2>6, <2>7, <2>8
<1> QED
  BY <1>1, <1>2

LEMMA DescInvariance == DescriptorSpec => [](DescInv /\ ReturnedFdFinds)
<1>1. DescriptorInit => DescInv /\ ReturnedFdFinds
  BY DescInitLemma
<1>2. DescInv /\ ReturnedFdFinds /\ [DescriptorNext]_descVars => DescInv' /\ ReturnedFdFinds'
  BY DescNextLemma
<1> QED
  BY <1>1, <1>2, PTL DEF DescriptorSpec

(***************************************************************************)
(* Handle::ref_count_ is the number of descriptors that hold the handle,   *)
(* so the handle is closed with the last of them, neither before nor       *)
(* never, through any sequence of open, dup, dup over an open descriptor,  *)
(* close, fork and exec; and no assertion of descriptor.cxx or handle.cxx  *)
(* fails on the way.                                                       *)
(***************************************************************************)
THEOREM ReferenceCountsExact == DescriptorSpec => []HandlesMatchDescriptors
BY DescInvariance, DescInvMatches, PTL

(***************************************************************************)
(* The number that open and dup return is found again by get, close and    *)
(* dup, whatever the sizes of the tables, and it is the lowest free one.        *)
(***************************************************************************)
THEOREM NumbersLeadToHandles == DescriptorSpec => []ReturnedFdFinds
BY DescInvariance, PTL

=============================================================================
