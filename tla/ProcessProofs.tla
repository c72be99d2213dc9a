---------------------------- MODULE ProcessProofs ----------------------------
(***************************************************************************)
(* Theorems about processes and their memory, for any machine, any sizes   *)
(* of the kernel objects, any number of processes and any page tables of   *)
(* four levels.                                                            *)
(***************************************************************************)
EXTENDS Process, AreaLemmas

USE VmAreasAssumption DEF ADDR_MIN

-----------------------------------------------------------------------------
(***************************************************************************)
(* Frames and kernel objects                                               *)
(***************************************************************************)
Types == {"Process", "VM_area", "table_l1l0", "Thread", "FXSave_region"}

\* What a frame may hold
Contents == {Zeroes, Junk, PageZero} \cup {<<q, v>> : q \in Procs, v \in Touched}

\* The states of pmm.c and alloc.c
Kmem == [free_list : Seq(Frames), pools : [0..9 -> Seq(Address)], memory : [Frames -> Contents]]

\* Kernel objects only take frames from the list, and change no frame in use.
Shrinks(k, new) ==
    /\ new \in Kmem
    /\ Range(new.free_list) \subseteq Range(k.free_list)
    /\ IsInjective(k.free_list) => IsInjective(new.free_list)
    /\ \A f \in Frames : f \notin Range(k.free_list) => new.memory[f] = k.memory[f]

LEMMA ListLemma == \A k \in Kmem : k.free_list \in Seq(Frames) /\ Len(k.free_list) \in Nat
<1>1. \A k \in Kmem : k.free_list \in Seq(Frames)
  BY DEF Kmem
<1> QED
  BY <1>1

LEMMA ShrinksSelf == \A k \in Kmem : Shrinks(k, k)
  BY DEF Shrinks

LEMMA ShrinksChain ==
    ASSUME NEW k, NEW mid, NEW new, Shrinks(k, mid), Shrinks(mid, new)
    PROVE  Shrinks(k, new)
<1>1. \A f \in Frames : f \notin Range(k.free_list) => f \notin Range(mid.free_list)
  BY DEF Shrinks
<1> QED
  BY <1>1 DEF Shrinks

\* The entries of each class have a size.
LEMMA EntrySizeLemma ==
    ASSUME NEW c \in 0..9
    PROVE  EntrySize(c) \in Nat /\ EntrySize(c) > 0
<1>1. c = 0 \/ c = 1 \/ c = 2 \/ c = 3 \/ c = 4 \/ c = 5 \/ c = 6 \/ c = 7 \/ c = 8 \/ c = 9
  OBVIOUS
<1>10. CASE c = 0
  <2>1. 2^0 = 1
    OBVIOUS
  <2>2. 2^c = 1
    BY <1>10, <2>1, Zenon
  <2> QED
    BY <2>2 DEF EntrySize
<1>11. CASE c = 1
  <2>1. 2^1 = 2
    OBVIOUS
  <2>2. 2^c = 2
    BY <1>11, <2>1, Zenon
  <2> QED
    BY <2>2 DEF EntrySize
<1>12. CASE c = 2
  <2>1. 2^2 = 4
    OBVIOUS
  <2>2. 2^c = 4
    BY <1>12, <2>1, Zenon
  <2> QED
    BY <2>2 DEF EntrySize
<1>13. CASE c = 3
  <2>1. 2^3 = 8
    OBVIOUS
  <2>2. 2^c = 8
    BY <1>13, <2>1, Zenon
  <2> QED
    BY <2>2 DEF EntrySize
<1>14. CASE c = 4
  <2>1. 2^4 = 16
    OBVIOUS
  <2>2. 2^c = 16
    BY <1>14, <2>1, Zenon
  <2> QED
    BY <2>2 DEF EntrySize
<1>15. CASE c = 5
  <2>1. 2^5 = 32
    OBVIOUS
  <2>2. 2^c = 32
    BY <1>15, <2>1, Zenon
  <2> QED
    BY <2>2 DEF EntrySize
<1>16. CASE c = 6
  <2>1. 2^6 = 64
    OBVIOUS
  <2>2. 2^c = 64
    BY <1>16, <2>1, Zenon
  <2> QED
    BY <2>2 DEF EntrySize
<1>17. CASE c = 7
  <2>1. 2^7 = 128
    OBVIOUS
  <2>2. 2^c = 128
    BY <1>17, <2>1, Zenon
  <2> QED
    BY <2>2 DEF EntrySize
<1>18. CASE c = 8
  <2>1. 2^8 = 256
    OBVIOUS
  <2>2. 2^c = 256
    BY <1>18, <2>1, Zenon
  <2> QED
    BY <2>2 DEF EntrySize
<1>19. CASE c = 9
  <2>1. 2^9 = 512
    OBVIOUS
  <2>2. 2^c = 512
    BY <1>19, <2>1, Zenon
  <2> QED
    BY <2>2 DEF EntrySize
<1> QED
  BY <1>1, <1>10, <1>11, <1>12, <1>13, <1>14, <1>15, <1>16, <1>17, <1>18, <1>19

LEMMA PageSizeLemma == PAGE_SIZE \in Nat /\ PAGE_SIZE > 0
<1>1. PICK c \in 0..9 : PAGE_SIZE = EntrySize(c)
  BY KernelMemoryAssumption DEF EntrySize
<1> QED
  BY <1>1, EntrySizeLemma

\* No frame is at address 0.
LEMMA FrameLemma == Frames \subseteq Nat \ {NULL}
<1> SUFFICES ASSUME NEW i \in 1..FrameCount PROVE i * PAGE_SIZE \in Nat \ {0}
  BY DEF Frames, NULL
<1> DEFINE size == PAGE_SIZE
<1>1. size \in Nat /\ size > 0 /\ i \in Nat /\ i > 0
  BY PageSizeLemma, KernelMemoryAssumption
<1> HIDE DEF size
<1>2. i * size \in Nat /\ i * size > 0
  BY <1>1
<1> QED
  BY <1>2 DEF size

\* Every type of object has a size class.
LEMMA ClassLemma ==
    ASSUME NEW type \in Types
    PROVE  alloc_calc_size_class(SizeOf[type]) \in 0..9
<1> DEFINE size == SizeOf[type]
           fit == {c \in 0..9 : size <= EntrySize(c)}
<1>1. size \in 1..PAGE_SIZE
  BY ProcessAssumption, KernelMemoryAssumption DEF Types
<1>2. PICK c \in 0..9 : PAGE_SIZE = EntrySize(c)
  BY KernelMemoryAssumption DEF EntrySize
<1>3. c \in fit
  BY <1>1, <1>2
<1>4. fit \in SUBSET Nat /\ fit # {}
  BY <1>3
<1>5. PICK m \in fit : \A x \in fit : m <= x
  BY <1>4, LeastLemma
<1>6. Min(fit) = m
  <2>1. \A x \in fit : (\A y \in fit : x <= y) => x = m
    BY <1>4, <1>5
  <2> HIDE DEF fit
  <2> QED
    BY <1>5, <2>1 DEF Min
<1>7. alloc_calc_size_class(size) = IF size < 8 THEN 0 ELSE Min(fit)
  <2>1. ~(size > PAGE_SIZE)
    BY <1>1, PageSizeLemma
  <2> HIDE DEF size
  <2>2. fit = {x \in 0..9 : size <= 8 * 2^x}
    BY DEF EntrySize
  <2> QED
    BY <2>1, <2>2 DEF alloc_calc_size_class
<1> QED
  BY <1>5, <1>6, <1>7

LEMMA AddressLemma == Frames \subseteq Address /\ NULL \notin Address
  BY FrameLemma DEF Address, NULL

\* What one allocation leaves. It takes one frame at most, and fails without any.
Allocates(k, new) ==
    /\ Shrinks(k, new.k)
    /\ Len(k.free_list) <= Len(new.k.free_list) + 1
    /\ IF new.at = NULL THEN k.free_list = << >> ELSE new.at \in Address

\* alloc_page takes the first frame of the list.
LEMMA AllocPageLemma ==
    ASSUME NEW k \in Kmem
    PROVE  Allocates(k, alloc_page(k)) /\ alloc_page(k).at \in Frames \cup {NULL}
<1>1. CASE k.free_list = << >>
  BY <1>1, ShrinksSelf DEF alloc_page, Answer, Allocates
<1>2. CASE k.free_list # << >>
  <2> DEFINE head == Head(k.free_list)
             new == [k EXCEPT !.free_list = Tail(@), !.memory[head] = Junk]
  <2>1. k.free_list \in Seq(Frames)
    BY DEF Kmem
  <2>2. /\ head \in Frames /\ head \in Range(k.free_list) /\ Tail(k.free_list) \in Seq(Frames)
        /\ IsInjective(k.free_list) => IsInjective(Tail(k.free_list))
    BY <1>2, <2>1, TailLemma
  <2>6. Range(Tail(k.free_list)) \subseteq Range(k.free_list)
    BY <1>2, <2>1 DEF Range
  <2>3. alloc_page(k).k = new /\ alloc_page(k).at = head
    BY <1>2 DEF alloc_page, Answer
  <2>4. new \in Kmem /\ new.free_list = Tail(k.free_list)
        /\ \A f \in Frames : f # head => new.memory[f] = k.memory[f]
    <3> DEFINE memory == [k.memory EXCEPT ![head] = Junk]
    <3>1. memory \in [Frames -> Contents] /\ \A f \in Frames : f # head => memory[f] = k.memory[f]
      BY <2>2 DEF Kmem, Contents
    <3>2. new = [k EXCEPT !.free_list = Tail(k.free_list), !.memory = memory]
      BY DEF Kmem
    <3> HIDE DEF memory, head
    <3> QED
      BY <2>2, <3>1, <3>2 DEF Kmem
  <2> HIDE DEF head, new
  <2>5. head \in Address /\ head # NULL
    BY <2>2, AddressLemma
  <2>7. Len(k.free_list) <= Len(Tail(k.free_list)) + 1
    BY <1>2, <2>1
  <2> QED
    BY <2>2, <2>3, <2>4, <2>5, <2>6, <2>7 DEF Allocates, Shrinks
<1> QED
  BY <1>1, <1>2

\* A pool may change as it likes.
LEMMA PoolLemma ==
    ASSUME NEW k \in Kmem, NEW class \in 0..9, NEW pool \in Seq(Address)
    PROVE  /\ Shrinks(k, [k EXCEPT !.pools[class] = pool])
           /\ [k EXCEPT !.pools[class] = pool].free_list = k.free_list
<1> DEFINE pools == [k.pools EXCEPT ![class] = pool]
           new == [k EXCEPT !.pools = pools]
<1>1. pools \in [0..9 -> Seq(Address)] /\ new = [k EXCEPT !.pools[class] = pool]
  BY DEF Kmem
<1> HIDE DEF pools
<1>2. new \in Kmem /\ new.free_list = k.free_list /\ new.memory = k.memory
  BY <1>1 DEF Kmem
<1> HIDE DEF new
<1> QED
  BY <1>1, <1>2 DEF Shrinks

LEMMA FreshPageLemma ==
    ASSUME NEW k \in Kmem, NEW class \in 0..9
    PROVE  Allocates(k, alloc_from_fresh_page(k, class))
<1> DEFINE page == alloc_page(k)
           size == EntrySize(class)
           entries == PAGE_SIZE \div size
           rest == [i \in 1..(entries - 1) |-> page.at + (entries - i) * size]
<1>1. Allocates(k, page) /\ page.at \in Frames \cup {NULL}
  BY AllocPageLemma
<1>2. size \in Nat /\ size > 0 /\ PAGE_SIZE \in Nat
  BY EntrySizeLemma, PageSizeLemma
<1>3. alloc_from_fresh_page(k, class) = IF page.at = NULL THEN page
        ELSE Answer([page.k EXCEPT !.pools[class] = rest], page.at)
  BY DEF alloc_from_fresh_page
<1> HIDE DEF page, size
<1>4. CASE page.at = NULL
  BY <1>1, <1>3, <1>4
<1>5. CASE page.at # NULL
  <2>1. page.at \in Nat /\ page.at > 0 /\ Shrinks(k, page.k)
    <3>1. page.at \in Frames
      BY <1>1, <1>5
    <3>2. \A f \in Frames : f \in Nat /\ f > 0
      BY FrameLemma DEF NULL
    <3> QED
      BY <1>1, <3>1, <3>2 DEF Allocates
  <2>2. entries \in Int
    BY <1>2
  <2> HIDE DEF entries
  <2>3. \A i \in 1..(entries - 1) : page.at + (entries - i) * size \in Address
    <3>1. ASSUME NEW i \in 1..(entries - 1) PROVE page.at + (entries - i) * size \in Address
      <4>1. entries - i \in Nat
        BY <2>2
      <4>2. (entries - i) * size \in Nat
        BY <1>2, <4>1
      <4> QED
        BY <2>1, <4>2 DEF Address
    <3> QED
      BY <3>1
  <2>4. rest \in Seq(Address)
    <3>1. CASE entries - 1 \in Nat
      BY <2>3, <3>1
    <3>2. CASE entries - 1 \notin Nat
      <4>1. 1..(entries - 1) = {}
        BY <2>2, <3>2
      <4>2. rest = << >>
        BY <4>1
      <4> HIDE DEF rest
      <4> QED
        BY <4>2
    <3> QED
      BY <3>1, <3>2
  <2> HIDE DEF rest
  <2>5. page.k \in Kmem
    BY <2>1 DEF Shrinks
  <2> DEFINE left == [page.k EXCEPT !.pools[class] = rest]
  <2>6. Shrinks(page.k, left) /\ left.free_list = page.k.free_list
    BY <2>4, <2>5, PoolLemma
  <2> HIDE DEF left
  <2>7. Shrinks(k, left)
    BY <2>1, <2>6, ShrinksChain
  <2>8. alloc_from_fresh_page(k, class) = Answer(left, page.at)
    BY <1>3, <1>5 DEF left
  <2> QED
    BY <1>1, <1>5, <2>6, <2>7, <2>8 DEF Allocates, Answer
<1> QED
  BY <1>4, <1>5

LEMMA KallocLemma ==
    ASSUME NEW k \in Kmem, NEW type \in Types
    PROVE  Allocates(k, kalloc(k, type))
<1> DEFINE class == alloc_calc_size_class(SizeOf[type])
<1>1. class \in 0..9 /\ kalloc(k, type) = kalloc_class(k, class)
  BY ClassLemma DEF kalloc
<1> HIDE DEF class
<1>2. k.pools[class] \in Seq(Address)
  BY <1>1 DEF Kmem
<1>3. CASE k.pools[class] # << >>
  <2>1. Head(k.pools[class]) \in Address /\ Tail(k.pools[class]) \in Seq(Address)
    BY <1>2, <1>3
  <2>2. kalloc_class(k, class) =
            Answer([k EXCEPT !.pools[class] = Tail(k.pools[class])], Head(k.pools[class]))
    BY <1>3 DEF kalloc_class
  <2> DEFINE left == [k EXCEPT !.pools[class] = Tail(k.pools[class])]
  <2>3. Shrinks(k, left) /\ left.free_list = k.free_list
    BY <1>1, <2>1, PoolLemma
  <2>4. kalloc(k, type) = Answer(left, Head(k.pools[class]))
    BY <1>1, <2>2
  <2> HIDE DEF left
  <2>5. Len(k.free_list) \in Nat
    BY ListLemma
  <2> QED
    BY <2>1, <2>3, <2>4, <2>5, AddressLemma DEF Answer, Allocates
<1>4. CASE k.pools[class] = << >>
  BY <1>1, <1>4, FreshPageLemma DEF kalloc_class
<1> QED
  BY <1>3, <1>4

LEMMA KfreeLemma ==
    ASSUME NEW k \in Kmem, NEW type \in Types, NEW address \in Address
    PROVE  Shrinks(k, kfree(k, address, type))
<1> DEFINE class == alloc_calc_size_class(SizeOf[type])
<1>1. class \in 0..9 /\ kfree(k, address, type) =
            [k EXCEPT !.pools[class] = <<address>> \o k.pools[class]]
  BY ClassLemma DEF kfree, kfree_class
<1> HIDE DEF class
<1>2. k.pools[class] \in Seq(Address) /\ <<address>> \in Seq(Address)
  <2>1. k.pools[class] \in Seq(Address)
    BY <1>1 DEF Kmem
  <2> QED
    BY <2>1
<1> DEFINE pool == <<address>> \o k.pools[class]
<1>3. pool \in Seq(Address)
  BY <1>2
<1> HIDE DEF pool
<1>4. Shrinks(k, [k EXCEPT !.pools[class] = pool])
  BY <1>1, <1>3, PoolLemma
<1> QED
  BY <1>1, <1>4 DEF pool

LEMMA ReverseLemma ==
    ASSUME NEW T, NEW seq \in Seq(T)
    PROVE  /\ Reverse(seq) \in Seq(T) /\ Len(Reverse(seq)) = Len(seq)
           /\ Range(Reverse(seq)) = Range(seq)
           /\ IsInjective(seq) => IsInjective(Reverse(seq))
<1> DEFINE n == Len(seq)
           new == [j \in 1..n |-> seq[n - j + 1]]
<1>1. n \in Nat /\ DOMAIN seq = 1..n /\ Reverse(seq) = new
  BY DEF Reverse
<1> HIDE DEF n
<1>2. \A j \in 1..n : n - j + 1 \in 1..n /\ n - (n - j + 1) + 1 = j
  BY <1>1
<1>3. new \in Seq(T) /\ Len(new) = n
  BY <1>1, <1>2
<1>4. Range(new) = Range(seq)
  BY <1>1, <1>2 DEF Range
<1>5. IsInjective(seq) => IsInjective(new)
  BY <1>1, <1>2 DEF IsInjective
<1> QED
  BY <1>1, <1>3, <1>4, <1>5 DEF n

LEMMA KfreeEachLemma ==
    ASSUME NEW k \in Kmem, NEW type \in Types, NEW addresses \in Seq(Address)
    PROVE  Shrinks(k, kfree_each(k, addresses, type))
<1> DEFINE class == alloc_calc_size_class(SizeOf[type])
           pool == Reverse(addresses) \o k.pools[class]
<1>1. class \in 0..9 /\ kfree_each(k, addresses, type) = [k EXCEPT !.pools[class] = pool]
  BY ClassLemma DEF kfree_each
<1> HIDE DEF class
<1>2. pool \in Seq(Address)
  <2>1. k.pools[class] \in Seq(Address) /\ Reverse(addresses) \in Seq(Address)
    BY <1>1, ReverseLemma DEF Kmem
  <2> QED
    BY <2>1
<1> HIDE DEF pool
<1> QED
  BY <1>1, <1>2, PoolLemma

\* The objects of one attempt after the other. A frame for each is enough.
Attempted(k, n, done) ==
    /\ Shrinks(k, done.k) /\ done.at \in Seq(Address) /\ done.ok \in BOOLEAN
    /\ IF done.ok THEN Len(done.at) = n /\ Len(k.free_list) <= Len(done.k.free_list) + n
       ELSE Len(k.free_list) < n
    /\ DOMAIN done = {"k", "at", "ok"}

LEMMA AttemptLemma ==
    ASSUME NEW k \in Kmem, NEW n \in Nat, NEW done, Attempted(k, n, done), NEW type \in Types
    PROVE  Attempted(k, n + 1, Attempt(done, type))
<1> DEFINE object == kalloc(done.k, type)
<1>1. done.k \in Kmem
  BY DEF Attempted, Shrinks
<1>2. Allocates(done.k, object)
  BY <1>1, KallocLemma
<1>3. Shrinks(k, object.k)
  BY <1>2, ShrinksChain DEF Attempted, Allocates
<1>4. Attempt(done, type) =
        IF ~done.ok THEN done
        ELSE IF object.at = NULL THEN [done EXCEPT !.k = object.k, !.ok = FALSE]
        ELSE [done EXCEPT !.k = object.k, !.at = Append(done.at, object.at)]
  BY DEF Attempt
<1>5. /\ Len(k.free_list) \in Nat /\ Len(done.k.free_list) \in Nat
      /\ Len(object.k.free_list) \in Nat
  BY <1>1, <1>3, ListLemma DEF Shrinks
<1> HIDE DEF object
<1>6. CASE ~done.ok
  BY <1>4, <1>5, <1>6 DEF Attempted
<1>7. CASE done.ok /\ object.at = NULL
  <2>1. Len(k.free_list) < n + 1
    BY <1>2, <1>5, <1>7 DEF Attempted, Allocates
  <2> QED
    BY <1>3, <1>4, <1>7, <2>1 DEF Attempted
<1>8. CASE done.ok /\ object.at # NULL
  <2>1. /\ Append(done.at, object.at) \in Seq(Address)
        /\ Len(Append(done.at, object.at)) = n + 1
    BY <1>2, <1>8 DEF Attempted, Allocates
  <2>2. Len(k.free_list) <= Len(object.k.free_list) + (n + 1)
    <3>1. Len(k.free_list) <= Len(done.k.free_list) + n
      BY <1>8 DEF Attempted
    <3>2. Len(done.k.free_list) <= Len(object.k.free_list) + 1
      BY <1>2 DEF Allocates
    <3>3. \A x, y, z \in Nat : x <= y + n /\ y <= z + 1 => x <= z + (n + 1)
      OBVIOUS
    <3> QED
      BY <1>5, <3>1, <3>2, <3>3
  <2> QED
    BY <1>3, <1>4, <1>8, <2>1, <2>2 DEF Attempted
<1> QED
  BY <1>6, <1>7, <1>8 DEF Attempted

\* What the n-th attempt leaves, as a function of n that the attempts up to it define
IsRun(k, types, n, f) ==
    f = [i \in 0..n |-> IF i = 0 THEN [k |-> k, at |-> << >>, ok |-> TRUE]
                        ELSE Attempt(f[i - 1], types[i])]

\* There is such a function: the least n without one has a predecessor with one.
LEMMA RunLemma ==
    ASSUME NEW k, NEW types, NEW n \in Nat
    PROVE  \E f : IsRun(k, types, n, f)
<1> DEFINE none == {m \in Nat : ~\E f : IsRun(k, types, m, f)}
<1>1. ASSUME none # {} PROVE FALSE
  <2>1. PICK m \in none : \A x \in none : m <= x
    <3>1. none \in SUBSET Nat
      OBVIOUS
    <3> HIDE DEF none
    <3> QED
      BY <1>1, <3>1, LeastLemma
  <2>2. m # 0
    <3> DEFINE f == [i \in 0..0 |-> [k |-> k, at |-> << >>, ok |-> TRUE]]
    <3>1. IsRun(k, types, 0, f)
      BY DEF IsRun
    <3> QED
      BY <3>1
  <2>3. m - 1 \in Nat /\ ~(m <= m - 1)
    BY <2>2
  <2>4. m - 1 \notin none
    BY <2>1, <2>3
  <2>5. PICK f : IsRun(k, types, m - 1, f)
    BY <2>3, <2>4
  <2> DEFINE g == [i \in 0..m |-> IF i < m THEN f[i] ELSE Attempt(f[m - 1], types[m])]
  <2>6. IsRun(k, types, m, g)
    <3> DEFINE first == [k |-> k, at |-> << >>, ok |-> TRUE]
               step(i) == IF i = 0 THEN first ELSE Attempt(g[i - 1], types[i])
    <3>1. m \in Nat /\ m > 0
      BY <2>2
    <3>2. \A i \in 0..(m - 1) : f[i] = IF i = 0 THEN first ELSE Attempt(f[i - 1], types[i])
      BY <2>5 DEF IsRun
    <3>3. \A i \in 0..m : g[i] = IF i < m THEN f[i] ELSE Attempt(f[m - 1], types[m])
      OBVIOUS
    <3> HIDE DEF g, first
    <3>4. ASSUME NEW i \in 0..m PROVE g[i] = step(i)
      <4>1. CASE i = 0
        <5>1. 0 \in 0..(m - 1) /\ i < m
          BY <3>1, <4>1
        <5> QED
          BY <3>2, <3>3, <4>1, <5>1
      <4>2. CASE 0 < i /\ i < m
        <5>1. i \in 0..(m - 1) /\ i - 1 \in 0..m /\ i - 1 < m /\ i # 0
          BY <3>1, <4>2
        <5>2. g[i - 1] = f[i - 1] /\ g[i] = f[i]
          BY <3>3, <4>2, <5>1
        <5> QED
          BY <3>2, <5>1, <5>2
      <4>3. CASE i = m
        <5>1. i - 1 \in 0..m /\ i - 1 < m /\ i # 0 /\ ~(i < m) /\ i - 1 = m - 1
          BY <3>1, <4>3
        <5>2. g[i - 1] = f[m - 1] /\ g[i] = Attempt(f[m - 1], types[m])
          BY <3>3, <4>3, <5>1
        <5> QED
          BY <4>3, <5>1, <5>2
      <4> QED
        BY <3>1, <4>1, <4>2, <4>3
    <3>5. g = [i \in 0..m |-> g[i]]
      BY DEF g
    <3>6. g = [i \in 0..m |-> step(i)]
      BY <3>4, <3>5
    <3> QED
      BY <3>6 DEF IsRun, first
  <2> QED
    BY <2>1, <2>6
<1> QED
  BY <1>1

LEMMA KallocEachLemma ==
    ASSUME NEW k \in Kmem, NEW types \in Seq(Types)
    PROVE  Attempted(k, Len(types), kalloc_each(k, types))
<1> DEFINE n == Len(types)
           run == CHOOSE f : IsRun(k, types, n, f)
<1>1. n \in Nat /\ DOMAIN types = 1..n
  OBVIOUS
<1>2. IsRun(k, types, n, run)
  BY <1>1, RunLemma
<1>3. kalloc_each(k, types) = run[n]
  BY DEF kalloc_each, IsRun
<1> HIDE DEF run, n
<1>4. \A i \in 0..n : run[i] = IF i = 0 THEN [k |-> k, at |-> << >>, ok |-> TRUE]
                              ELSE Attempt(run[i - 1], types[i])
  BY <1>2 DEF IsRun
<1> DEFINE bad == {i \in 0..n : ~Attempted(k, i, run[i])}
<1>5. ASSUME bad # {} PROVE FALSE
  <2>1. bad \in SUBSET Nat
    BY <1>1
  <2>2. PICK i \in bad : \A j \in bad : i <= j
    <3> HIDE DEF bad
    <3> QED
      BY <1>5, <2>1, LeastLemma
  <2>3. CASE i = 0
    <3>3. 0 \in 0..n
      BY <1>1
    <3>1. run[0] = [k |-> k, at |-> << >>, ok |-> TRUE]
      BY <1>4, <3>3, Zenon
    <3>4. Len(k.free_list) \in Nat
      BY ListLemma
    <3>2. Attempted(k, 0, run[0])
      BY <3>1, <3>4, ShrinksSelf DEF Attempted
    <3> QED
      BY <2>2, <2>3, <3>2
  <2>4. CASE i # 0
    <3>1. i - 1 \in 0..n /\ i - 1 \in Nat /\ ~(i <= i - 1) /\ i \in 1..n /\ (i - 1) + 1 = i
      BY <1>1, <2>4
    <3>2. Attempted(k, i - 1, run[i - 1])
      BY <2>2, <3>1
    <3>3. run[i] = Attempt(run[i - 1], types[i])
      BY <1>4, <2>4, <3>1
    <3>4. types[i] \in Types
      BY <1>1, <3>1
    <3>5. Attempted(k, i, run[i])
      BY <3>1, <3>2, <3>3, <3>4, AttemptLemma
    <3> QED
      BY <2>2, <3>5
  <2> QED
    BY <2>3, <2>4
<1>6. Attempted(k, n, run[n])
  BY <1>1, <1>5
<1> QED
  BY <1>3, <1>6 DEF n

-----------------------------------------------------------------------------
(***************************************************************************)
(* The nodes of the tables                                                 *)
(***************************************************************************)
LEMMA PagesBelowLemma ==
    ASSUME NEW d \in 0..PML4
    PROVE  PagesBelow(d) \in Nat /\ PagesBelow(d) > 0
<1> DEFINE n == TABLE_ENTRY_COUNT
<1>1. n \in Nat /\ n > 0
  BY PageTableAssumption
<1> HIDE DEF n
<1>2. n * n \in Nat /\ n * n > 0
  BY <1>1
<1> DEFINE n2 == n * n
<1>3. n2 \in Nat /\ n2 > 0
  BY <1>2
<1> HIDE DEF n2
<1>4. n2 * n \in Nat /\ n2 * n > 0
  BY <1>1, <1>3
<1> DEFINE n3 == n2 * n
<1>5. n3 \in Nat /\ n3 > 0
  BY <1>4
<1> HIDE DEF n3
<1>6. n3 * n \in Nat /\ n3 * n > 0
  BY <1>1, <1>5
<1>7. PagesBelow(d) \in {1, n, n2, n3, n3 * n}
  <2>1. d = 0 \/ d = 1 \/ d = 2 \/ d = 3 \/ d = 4
    BY DEF PML4
  <2>2. PagesBelow(0) = 1 /\ PagesBelow(1) = n /\ PagesBelow(2) = n2 /\ PagesBelow(3) = n3
        /\ PagesBelow(4) = n3 * n
    BY DEF PagesBelow, PT, PDPT, PML4, n, n2, n3
  <2> QED
    BY <2>1, <2>2
<1> QED
  BY <1>1, <1>3, <1>5, <1>6, <1>7

\* A page is its own node at depth 0, and all pages of user space are below the top.
LEMMA NodeLemma ==
    /\ \A d, v : Node(d, v)[1] = d
    /\ \A v \in Nat : Node(0, v) = <<0, v>> /\ Node(0, v)[2] = v
    /\ \A v \in Page : Node(PML4, v) = Top
    /\ Top[1] = PML4 /\ Page \subseteq Nat
<1>1. \A d, v : Node(d, v)[1] = d
  BY DEF Node
<1>2. ASSUME NEW v \in Nat PROVE Node(0, v) = <<0, v>> /\ Node(0, v)[2] = v
  <2>1. PagesBelow(0) = 1
    BY DEF PagesBelow, PT, PDPT, PML4
  <2>2. v \div 1 = v
    OBVIOUS
  <2> QED
    BY <2>1, <2>2 DEF Node
<1>3. ASSUME NEW v \in Page PROVE Node(PML4, v) = Top
  <2> DEFINE n == PagesBelow(PML4)
  <2>1. n \in Nat /\ n > 0
    BY PagesBelowLemma DEF PML4
  <2>2. v \in Nat /\ v < n \div 2
    BY ProcessAssumption DEF Page, UserPages
  <2> HIDE DEF n
  <2>3. v < n
    BY <2>1, <2>2
  <2>4. v \div n = 0 /\ 0 \div n = 0
    BY <2>1, <2>2, <2>3
  <2> QED
    BY <2>4 DEF Node, Top, n
<1> QED
  BY <1>1, <1>2, <1>3 DEF Top, Page

\* The nodes of the tables for the pages of S
NodesOf(S) == {Top} \cup {Node(d, v) : d \in 0..PML4, v \in S}

\* The nodes below the top that a walk over the pages from b to e visits
Walked(b, e) == {Node(d, v) : d \in 0..PDPT, v \in b..(e - 1)}

LEMMA WalkLemma ==
    ASSUME NEW b \in Nat, NEW e \in Nat
    PROVE  /\ TopDown(b, e) \in Seq(Walked(b, e)) /\ BottomUp(b, e) \in Seq(Walked(b, e))
           /\ Range(TopDown(b, e)) = Walked(b, e) /\ Range(BottomUp(b, e)) = Walked(b, e)
           /\ IsInjective(TopDown(b, e)) /\ IsInjective(BottomUp(b, e))
<1> DEFINE n == 4 * (e - b)
           down == [i \in 1..n |-> Node(PDPT - ((i - 1) % 4), b + ((i - 1) \div 4))]
           up == [i \in 1..n |-> Node((i - 1) % 4, b + ((i - 1) \div 4))]
<1>1. ASSUME NEW i \in 1..n
      PROVE  /\ PDPT - ((i - 1) % 4) \in 0..PDPT /\ (i - 1) % 4 \in 0..PDPT
             /\ b + ((i - 1) \div 4) \in b..(e - 1)
  BY DEF PDPT
<1>2. ASSUME NEW d \in 0..PDPT, NEW v \in b..(e - 1)
      PROVE  \E i \in 1..n : PDPT - ((i - 1) % 4) = d /\ b + ((i - 1) \div 4) = v
  <2> DEFINE i == 4 * (v - b) + (3 - d) + 1
  <2>1. i \in 1..n /\ (i - 1) % 4 = 3 - d /\ (i - 1) \div 4 = v - b
    BY DEF PDPT
  <2> HIDE DEF i
  <2> QED
    BY <2>1 DEF PDPT
<1>3. ASSUME NEW d \in 0..PDPT, NEW v \in b..(e - 1)
      PROVE  \E i \in 1..n : (i - 1) % 4 = d /\ b + ((i - 1) \div 4) = v
  <2> DEFINE i == 4 * (v - b) + d + 1
  <2>1. i \in 1..n /\ (i - 1) % 4 = d /\ (i - 1) \div 4 = v - b
    BY DEF PDPT
  <2> HIDE DEF i
  <2> QED
    BY <2>1
<1>4. \A i \in 1..n : down[i] \in Walked(b, e) /\ up[i] \in Walked(b, e)
  BY <1>1 DEF Walked
<1>5. \A x \in Walked(b, e) : (\E i \in 1..n : down[i] = x) /\ (\E i \in 1..n : up[i] = x)
  <2> SUFFICES ASSUME NEW d \in 0..PDPT, NEW v \in b..(e - 1)
               PROVE  /\ \E i \in 1..n : down[i] = Node(d, v)
                      /\ \E i \in 1..n : up[i] = Node(d, v)
    BY DEF Walked
  <2>1. PICK i \in 1..n : PDPT - ((i - 1) % 4) = d /\ b + ((i - 1) \div 4) = v
    BY <1>2
  <2>2. PICK j \in 1..n : (j - 1) % 4 = d /\ b + ((j - 1) \div 4) = v
    BY <1>3
  <2>3. down[i] = Node(d, v) /\ up[j] = Node(d, v)
    BY <2>1, <2>2
  <2> QED
    BY <2>3
<1>6. DOMAIN down = 1..n /\ DOMAIN up = 1..n
  OBVIOUS
<1>7. TopDown(b, e) = Firsts(down) /\ BottomUp(b, e) = Lasts(up)
  BY DEF TopDown, BottomUp
<1>8. down \in Seq(Walked(b, e)) /\ up \in Seq(Walked(b, e))
  <2>1. n \in Int
    OBVIOUS
  <2> HIDE DEF n
  <2>2. CASE n \in Nat
    BY <1>4, <2>2
  <2>3. CASE n \notin Nat
    <3>1. 1..n = {}
      BY <2>1, <2>3
    <3>2. down = << >> /\ up = << >>
      BY <3>1
    <3> HIDE DEF down, up
    <3> QED
      BY <3>2
  <2> QED
    BY <2>2, <2>3
<1> HIDE DEF n, down, up
<1>9. Range(down) = Walked(b, e) /\ Range(up) = Walked(b, e)
  BY <1>4, <1>5, <1>6 DEF Range
<1> QED
  BY <1>7, <1>8, <1>9, FirstsLemma, LastsLemma

\* The pages that a page map with these nodes has
LEMMA PagesLemma ==
    ASSUME NEW S \in SUBSET Page, NEW pm, DOMAIN pm = NodesOf(S)
    PROVE  Pages(pm) = S
<1>1. \A n \in NodesOf(S) : n[1] = 0 => n[2] \in S
  <2> SUFFICES ASSUME NEW n \in NodesOf(S), n[1] = 0 PROVE n[2] \in S
    OBVIOUS
  <2>1. n # Top
    BY NodeLemma DEF PML4
  <2>2. PICK d \in 0..PML4, v \in S : n = Node(d, v)
    BY <2>1 DEF NodesOf
  <2>3. d = 0 /\ v \in Nat
    BY <2>2, NodeLemma
  <2> QED
    BY <2>2, <2>3, NodeLemma
<1>2. \A v \in S : Node(0, v) \in NodesOf(S) /\ Node(0, v)[1] = 0 /\ Node(0, v)[2] = v
  <2> TAKE v \in S
  <2>1. v \in Nat /\ 0 \in 0..PML4
    BY NodeLemma DEF PML4
  <2> QED
    BY <2>1, NodeLemma DEF NodesOf
<1> QED
  BY <1>1, <1>2 DEF Pages

\* A page is in the tables with its node at depth 0.
LEMMA LeafLemma ==
    ASSUME NEW S \in SUBSET Page, NEW v \in Page
    PROVE  /\ v \in S <=> Node(0, v) \in NodesOf(S)
           /\ v \in S => \A d \in 0..PML4 : Node(d, v) \in NodesOf(S)
<1>1. v \in Nat /\ 0 \in 0..PML4
  BY NodeLemma DEF PML4
<1>2. ASSUME Node(0, v) \in NodesOf(S) PROVE v \in S
  <2>1. Node(0, v) # Top
    BY NodeLemma DEF PML4
  <2>2. PICK d \in 0..PML4, w \in S : Node(0, v) = Node(d, w)
    BY <1>2, <2>1 DEF NodesOf
  <2>3. d = 0 /\ w \in Nat
    BY <2>2, NodeLemma
  <2> QED
    BY <1>1, <2>2, <2>3, NodeLemma
<1> QED
  BY <1>1, <1>2 DEF NodesOf

\* The tables on the way to the pages of a range
LEMMA GrowLemma ==
    ASSUME NEW S \in SUBSET Page, NEW b \in Nat, NEW e \in Nat, b < e, e <= ADDR_MAX
    PROVE  NodesOf(S) \cup Walked(b, e) = NodesOf(S \cup (b..(e - 1)))
<1>1. b..(e - 1) \subseteq Page
  BY DEF Page
<1>2. 0..PML4 = 0..PDPT \cup {PML4}
  BY DEF PML4, PDPT
<1>3. \A v \in b..(e - 1) : Node(PML4, v) = Top
  BY <1>1, NodeLemma
<1> QED
  BY <1>2, <1>3 DEF NodesOf, Walked

\* The nodes that hold no pages but those from b to e
EmptiedNodes(pm, b, e) == {n \in DOMAIN pm : Emptied(pm, n, b, e)}

\* Without the pages of a range and what holds no others
LEMMA ShrinkLemma ==
    ASSUME NEW S \in SUBSET Page, NEW pm, DOMAIN pm = NodesOf(S),
           NEW b \in Nat, NEW e \in Nat, b < e, e <= ADDR_MAX
    PROVE  DOMAIN pm \ (Walked(b, e) \cap EmptiedNodes(pm, b, e)) = NodesOf(S \ (b..(e - 1)))
<1> DEFINE R == b..(e - 1)
           gone == Walked(b, e) \cap EmptiedNodes(pm, b, e)
<1>1. 0..PML4 = 0..PDPT \cup {PML4} /\ PML4 \notin 0..PDPT
  BY DEF PML4, PDPT
<1>2. \A v \in S : Node(PML4, v) = Top
  BY NodeLemma
<1>3. \A n : n \in gone <=> /\ n \in Walked(b, e) /\ n \in NodesOf(S)
                            /\ \A v \in S : Node(n[1], v) = n => v \in R
  BY PagesLemma DEF Emptied, EmptiedNodes
<1> HIDE DEF gone, R
<1>4. ASSUME NEW n \in NodesOf(S), n \notin gone PROVE n \in NodesOf(S \ R)
  <2>1. CASE n = Top
    BY <2>1 DEF NodesOf
  <2>2. CASE n # Top
    <3>1. PICK d \in 0..PML4, v \in S : n = Node(d, v)
      BY <2>2 DEF NodesOf
    <3>2. d \in 0..PDPT /\ n[1] = d
      BY <1>1, <1>2, <2>2, <3>1, NodeLemma
    <3>3. CASE v \notin R
      BY <3>1, <3>3 DEF NodesOf
    <3>4. CASE v \in R
      <4>1. n \in Walked(b, e)
        BY <3>1, <3>2, <3>4 DEF Walked, R
      <4>2. PICK w \in S : Node(d, w) = n /\ w \notin R
        BY <1>3, <1>4, <3>2, <4>1
      <4> QED
        BY <4>2 DEF NodesOf
    <3> QED
      BY <3>3, <3>4
  <2> QED
    BY <2>1, <2>2
<1>5. ASSUME NEW n \in NodesOf(S \ R) PROVE n \in NodesOf(S) /\ n \notin gone
  <2>1. CASE n = Top
    <3>1. n \notin Walked(b, e)
      BY <1>1, <2>1, NodeLemma DEF Walked
    <3> QED
      BY <1>3, <2>1, <3>1 DEF NodesOf
  <2>2. CASE n # Top
    <3>1. PICK d \in 0..PML4, v \in S \ R : n = Node(d, v)
      BY <2>2 DEF NodesOf
    <3>2. n[1] = d
      BY <3>1, NodeLemma
    <3> QED
      BY <1>3, <3>1, <3>2 DEF NodesOf
  <2> QED
    BY <2>1, <2>2
<1> QED
  BY <1>4, <1>5 DEF gone, R

-----------------------------------------------------------------------------
(***************************************************************************)
(* Page maps                                                               *)
(***************************************************************************)
TableEntry == [frame : Frames, flags : Mode]

FramesIn(pm) == {pm[n].frame : n \in DOMAIN pm}

\* The frames that a page map uses or that are free
Held(k, pm) == Range(k.free_list) \cup FramesIn(pm)

\* A free frame is free once, an entry has a frame of its own, and that is not free.
Owned(k, pm) ==
    /\ k \in Kmem /\ IsInjective(k.free_list)
    /\ pm \in [DOMAIN pm -> TableEntry]
    /\ \A n, m \in DOMAIN pm : pm[n].frame = pm[m].frame => n = m
    /\ FramesIn(pm) \cap Range(k.free_list) = {}

\* A page map has the tables on the way to its pages and no others.
Tree(pm) == Pages(pm) \subseteq Page /\ DOMAIN pm = NodesOf(Pages(pm))

ModesIn(pm) == [v \in Pages(pm) |-> pm[Node(0, v)].flags]

View(k, pm) == [v \in Pages(pm) |-> k.memory[pm[Node(0, v)].frame]]

\* A call on one page map neither takes a frame of another nor writes to one.
Keeps(k, pm, newk, newpm) ==
    /\ Held(newk, newpm) \subseteq Held(k, pm)
    /\ \A f \in Frames : f \notin Held(k, pm) => newk.memory[f] = k.memory[f]

LEMMA KeepsChain ==
    ASSUME NEW k1, NEW p1, NEW k2, NEW p2, NEW k3, NEW p3,
           Keeps(k1, p1, k2, p2), Keeps(k2, p2, k3, p3)
    PROVE  Keeps(k1, p1, k3, p3)
<1>1. Held(k3, p3) \subseteq Held(k1, p1)
  BY DEF Keeps
<1>2. ASSUME NEW f \in Frames, f \notin Held(k1, p1) PROVE k3.memory[f] = k1.memory[f]
  BY <1>2 DEF Keeps
<1> QED
  BY <1>1, <1>2 DEF Keeps

\* What an allocation of kernel objects leaves of a page map
LEMMA ShrinksOwned ==
    ASSUME NEW k, NEW pm, Owned(k, pm), NEW new, Shrinks(k, new)
    PROVE  Owned(new, pm) /\ Keeps(k, pm, new, pm)
  BY DEF Owned, Shrinks, Keeps, Held

LEMMA ShrinksView ==
    ASSUME NEW k, NEW pm, Owned(k, pm), Tree(pm), NEW new, Shrinks(k, new)
    PROVE  View(new, pm) = View(k, pm)
<1>1. ASSUME NEW v \in Pages(pm)
      PROVE  new.memory[pm[Node(0, v)].frame] = k.memory[pm[Node(0, v)].frame]
  <2>1. Node(0, v) \in DOMAIN pm
    BY LeafLemma DEF Tree
  <2>2. /\ pm[Node(0, v)].frame \in Frames /\ pm[Node(0, v)].frame \in FramesIn(pm)
    BY <2>1 DEF Owned, TableEntry, FramesIn
  <2> QED
    BY <2>2 DEF Owned, Shrinks
<1> QED
  BY <1>1 DEF View

\* The frames that mmu_alloc_page gave for the nodes, and what it left
Granted(k, nodes, new) ==
    /\ Shrinks(k, new.k) /\ new.ok \in BOOLEAN
    /\ ~new.ok => new.k.free_list = << >>
    /\ new.ok =>
        /\ Len(k.free_list) = Len(new.k.free_list) + Len(nodes)
        /\ new.frame \in [Range(nodes) -> Range(k.free_list)]
        /\ \A n, m \in Range(nodes) : new.frame[n] = new.frame[m] => n = m
        /\ \A n \in Range(nodes) : /\ new.frame[n] \notin Range(new.k.free_list)
                                   /\ new.k.memory[new.frame[n]] = Zeroes

LEMMA AllocPagesLemma ==
    ASSUME NEW k \in Kmem, IsInjective(k.free_list),
           NEW T, NEW nodes \in Seq(T), IsInjective(nodes)
    PROVE  Granted(k, nodes, mmu_alloc_pages(k, nodes))
<1> DEFINE n == Len(nodes)
           list == k.free_list
           taken == SubSeq(list, 1, n)
           left == SubSeq(list, n + 1, Len(list))
           frame == [node \in Range(nodes) |-> taken[CHOOSE i \in 1..n : nodes[i] = node]]
           memory == [f \in Frames |-> IF f \in Range(taken) THEN Zeroes ELSE k.memory[f]]
           new == mmu_alloc_pages(k, nodes)
<1>1. n \in Nat /\ DOMAIN nodes = 1..n /\ list \in Seq(Frames) /\ Len(list) \in Nat
  <2>1. list \in Seq(Frames)
    BY DEF Kmem
  <2> HIDE DEF list
  <2> QED
    BY <2>1
<1>2. CASE n > Len(list)
  <2>1. new = [k |-> [k EXCEPT !.free_list = << >>], frame |-> << >>, ok |-> FALSE]
    BY <1>2 DEF mmu_alloc_pages
  <2> HIDE DEF new, n
  <2>2. Range(<< >>) = {} /\ IsInjective(<< >>) /\ << >> \in Seq(Frames)
    BY EmptyLemma
  <2>3. new.k \in Kmem /\ new.k.free_list = << >> /\ new.k.memory = k.memory /\ new.ok = FALSE
    BY <2>1, <2>2 DEF Kmem
  <2> QED
    BY <2>2, <2>3 DEF Granted, Shrinks, new
<1>3. CASE ~(n > Len(list))
  <2>1. n \in 0..Len(list)
    BY <1>1, <1>3
  <2>2. /\ taken \in Seq(Frames) /\ left \in Seq(Frames)
        /\ IsInjective(taken) /\ IsInjective(left)
        /\ Range(taken) \cup Range(left) = Range(list)
        /\ Range(taken) \cap Range(left) = {}
    BY <1>1, <2>1, CutLemma
  <2>3. new = [k |-> [k EXCEPT !.free_list = left, !.memory = memory],
               frame |-> frame, ok |-> TRUE]
    BY <1>3 DEF mmu_alloc_pages, ZeroPages
  <2>4. DOMAIN taken = 1..n
    BY <1>1, <2>1
  <2> DEFINE place(node) == CHOOSE i \in 1..n : nodes[i] = node
  <2>5. \A node \in Range(nodes) : place(node) \in 1..n /\ nodes[place(node)] = node
    BY <1>1 DEF Range
  <2>6. \A node \in Range(nodes) : frame[node] = taken[place(node)]
    OBVIOUS
  <2>7. DOMAIN frame = Range(nodes)
    OBVIOUS
  <2>8. memory \in [Frames -> Contents]
    BY DEF Kmem, Contents
  <2>9. \A f \in Frames : memory[f] = IF f \in Range(taken) THEN Zeroes ELSE k.memory[f]
    OBVIOUS
  <2> HIDE DEF new, n, list, taken, left, frame, place, memory
  <2>11. \A node \in Range(nodes) : frame[node] \in Range(taken)
    BY <2>4, <2>5, <2>6 DEF Range
  <2>12. /\ new.k \in Kmem /\ new.k.free_list = left /\ new.k.memory = memory
         /\ new.frame = frame /\ new.ok = TRUE
    BY <2>2, <2>3, <2>8 DEF Kmem
  <2>13. Range(taken) \subseteq Range(list) /\ Range(taken) \subseteq Frames
    BY <2>2, RangeLemma
  <2>14. frame \in [Range(nodes) -> Range(list)]
    BY <2>11, <2>13 DEF frame
  <2>15. \A x, y \in Range(nodes) : frame[x] = frame[y] => x = y
    BY <2>2, <2>4, <2>5, <2>6 DEF IsInjective
  <2>16. \A x \in Range(nodes) : frame[x] \notin Range(left) /\ memory[frame[x]] = Zeroes
    BY <2>2, <2>9, <2>11, <2>13
  <2>17. Shrinks(k, new.k)
    BY <2>2, <2>9, <2>12, <2>13 DEF Shrinks, list
  <2>18. Len(list) = Len(left) + n
    BY <1>1, <2>1 DEF left
  <2> QED
    BY <2>12, <2>14, <2>15, <2>16, <2>17, <2>18 DEF Granted, list, new, n
<1> QED
  BY <1>2, <1>3

\* What mmu_assign of free pages with these flags leaves
Assigns(k, pm, b, e, flags, new) ==
    /\ Shrinks(k, new.k)
    /\ new.panic \in {"none", "oom"}
    /\ new.panic = "oom" => new.pm = pm /\ new.k.free_list = << >>
    /\ new.panic = "none" =>
        /\ Owned(new.k, new.pm) /\ Tree(new.pm) /\ Keeps(k, pm, new.k, new.pm)
        /\ \A n \in DOMAIN pm : n \in DOMAIN new.pm /\ new.pm[n] = pm[n]
        /\ ModesIn(new.pm) = MapWith(ModesIn(pm), b, e, flags)
        /\ View(new.k, new.pm) = MapWith(View(k, pm), b, e, Zeroes)

LEMMA AssignLemma ==
    ASSUME NEW k, NEW pm, Owned(k, pm), Tree(pm), NEW b \in Nat, NEW e \in Nat, b < e,
           e <= ADDR_MAX, NEW flags \in Mode, Pages(pm) \cap (b..(e - 1)) = {}
    PROVE  Assigns(k, pm, b, e, flags, mmu_assign(k, pm, b, e, flags))
<1> DEFINE nodes == Without(TopDown(b, e), DOMAIN pm)
           new == mmu_alloc_pages(k, nodes)
           map == [n \in DOMAIN pm \cup DOMAIN new.frame |->
                        IF n \in DOMAIN pm THEN pm[n]
                        ELSE Entry(new.frame[n], IF n[1] = 0 THEN flags ELSE INTERMEDIATE)]
           R == b..(e - 1)
           r == mmu_assign(k, pm, b, e, flags)
<1>1. /\ nodes \in Seq(Walked(b, e)) /\ IsInjective(nodes)
      /\ Range(nodes) = Walked(b, e) \ DOMAIN pm
  <2>1. /\ TopDown(b, e) \in Seq(Walked(b, e)) /\ IsInjective(TopDown(b, e))
        /\ Range(TopDown(b, e)) = Walked(b, e)
    BY WalkLemma
  <2> QED
    BY <2>1, WithoutLemma
<1>2. Granted(k, nodes, new)
  <2>1. k \in Kmem /\ IsInjective(k.free_list)
    BY DEF Owned
  <2> HIDE DEF nodes
  <2> QED
    BY <1>1, <2>1, AllocPagesLemma
<1>3. r = IF ~new.ok THEN Mapped(new.k, pm, "oom") ELSE Mapped(new.k, map, "none")
  <2>1. validate_limits(b, e)
    BY ProcessAssumption DEF validate_limits
  <2> QED
    BY <2>1 DEF mmu_assign
<1>4. R \subseteq Page /\ \A v \in Page : v \in R <=> v \in b..(e - 1)
  BY DEF Page
<1> HIDE DEF nodes, new, r
<1>5. CASE ~new.ok
  <2>1. r.k = new.k /\ r.pm = pm /\ r.panic = "oom"
    BY <1>3, <1>5 DEF Mapped
  <2>2. Shrinks(k, new.k) /\ new.k.free_list = << >>
    BY <1>2, <1>5 DEF Granted
  <2> QED
    BY <2>1, <2>2 DEF Assigns, r
<1>6. CASE new.ok
  <2>1. /\ Shrinks(k, new.k) /\ DOMAIN new.frame = Walked(b, e) \ DOMAIN pm
        /\ \A n \in DOMAIN new.frame :
                /\ new.frame[n] \in Range(k.free_list) /\ new.frame[n] \notin Range(new.k.free_list)
                /\ new.k.memory[new.frame[n]] = Zeroes
        /\ \A n, m \in DOMAIN new.frame : new.frame[n] = new.frame[m] => n = m
    BY <1>1, <1>2, <1>6 DEF Granted
  <2>2. r.k = new.k /\ r.pm = map /\ r.panic = "none"
    BY <1>3, <1>6 DEF Mapped
  <2>3. /\ DOMAIN map = DOMAIN pm \cup DOMAIN new.frame
        /\ \A n \in DOMAIN pm : map[n] = pm[n]
        /\ \A n \in DOMAIN new.frame :
            map[n] = Entry(new.frame[n], IF n[1] = 0 THEN flags ELSE INTERMEDIATE)
    BY <2>1
  <2> HIDE DEF map
  <2>4. DOMAIN map = NodesOf(Pages(pm) \cup R) /\ Pages(pm) \cup R \in SUBSET Page
    <3>1. Pages(pm) \in SUBSET Page /\ DOMAIN pm = NodesOf(Pages(pm))
      BY DEF Tree
    <3>2. DOMAIN map = NodesOf(Pages(pm)) \cup Walked(b, e)
      BY <2>1, <2>3, <3>1
    <3> QED
      BY <1>4, <3>1, <3>2, GrowLemma
  <2>5. Pages(map) = Pages(pm) \cup R
    BY <2>4, PagesLemma
  <2>6. Tree(map)
    BY <2>4, <2>5 DEF Tree
  <2>7. Range(k.free_list) \subseteq Frames
    BY RangeLemma DEF Owned, Kmem
  <2>8. \A n \in DOMAIN new.frame : /\ map[n].frame = new.frame[n] /\ map[n] \in TableEntry
                                    /\ n[1] = 0 => map[n].flags = flags
    <3>1. INTERMEDIATE \in Mode
      BY DEF INTERMEDIATE, Mode
    <3>2. \A f \in Frames, mode \in Mode :
            /\ Entry(f, mode) \in TableEntry /\ Entry(f, mode).frame = f
            /\ Entry(f, mode).flags = mode
      BY DEF Entry, TableEntry
    <3>3. ASSUME NEW n \in DOMAIN new.frame
          PROVE  /\ map[n].frame = new.frame[n] /\ map[n] \in TableEntry
                 /\ n[1] = 0 => map[n].flags = flags
      <4>1. new.frame[n] \in Frames
        BY <2>1, <2>7
      <4>2. CASE n[1] = 0
        <5>1. map[n] = Entry(new.frame[n], flags)
          BY <2>3, <4>2
        <5> QED
          BY <3>2, <4>1, <5>1
      <4>3. CASE n[1] # 0
        <5>1. map[n] = Entry(new.frame[n], INTERMEDIATE)
          BY <2>3, <4>3
        <5> QED
          BY <3>1, <3>2, <4>1, <4>3, <5>1
      <4> QED
        BY <4>2, <4>3
    <3> QED
      BY <3>3
  <2>9. /\ \A n \in DOMAIN pm : pm[n] \in TableEntry /\ pm[n].frame \notin Range(k.free_list)
        /\ \A n, m \in DOMAIN pm : pm[n].frame = pm[m].frame => n = m
    BY DEF Owned, FramesIn
  <2>10. map = [n \in DOMAIN map |-> map[n]]
    BY DEF map
  <2>11. map \in [DOMAIN map -> TableEntry]
    BY <2>3, <2>8, <2>9, <2>10
  <2>12. FramesIn(map) \cap Range(new.k.free_list) = {}
    <3>1. Range(new.k.free_list) \subseteq Range(k.free_list)
      BY <2>1 DEF Shrinks
    <3>2. \A n \in DOMAIN map : map[n].frame \notin Range(new.k.free_list)
      BY <2>1, <2>3, <2>8, <2>9, <3>1
    <3> QED
      BY <3>2 DEF FramesIn
  <2>13. \A n, m \in DOMAIN map : map[n].frame = map[m].frame => n = m
    BY <2>1, <2>3, <2>8, <2>9
  <2>14. Owned(new.k, map)
    BY <2>1, <2>11, <2>12, <2>13 DEF Owned, Shrinks
  <2>15. Keeps(k, pm, new.k, map)
    <3>1. FramesIn(map) \subseteq Held(k, pm)
      BY <2>1, <2>3, <2>8 DEF FramesIn, Held
    <3> QED
      BY <2>1, <3>1 DEF Keeps, Held, Shrinks
  <2>16. ASSUME NEW v \in Pages(map)
         PROVE  IF v \in R
                THEN /\ map[Node(0, v)].flags = flags
                     /\ new.k.memory[map[Node(0, v)].frame] = Zeroes
                ELSE /\ v \in Pages(pm) /\ map[Node(0, v)] = pm[Node(0, v)]
                     /\ new.k.memory[map[Node(0, v)].frame] = k.memory[pm[Node(0, v)].frame]
    <3>1. v \in Page /\ v \in Nat /\ Node(0, v) \in DOMAIN map /\ Node(0, v)[1] = 0
      BY <2>4, <2>5, LeafLemma, NodeLemma
    <3>2. v \in Pages(pm) <=> Node(0, v) \in DOMAIN pm
      BY <3>1, LeafLemma DEF Tree
    <3>3. CASE v \in R
      BY <2>1, <2>3, <2>8, <3>1, <3>2, <3>3
    <3>4. CASE v \notin R
      <4>1. Node(0, v) \in DOMAIN pm /\ v \in Pages(pm)
        BY <2>5, <3>2, <3>4
      <4>2. View(new.k, pm) = View(k, pm)
        BY <2>1, ShrinksView
      <4> QED
        BY <2>3, <3>4, <4>1, <4>2 DEF View
    <3> QED
      BY <3>3, <3>4
  <2>17. ModesIn(map) = MapWith(ModesIn(pm), b, e, flags)
    <3>1. ModesIn(map) = [v \in Pages(pm) \cup R |-> IF v \in R THEN flags ELSE ModesIn(pm)[v]]
      BY <2>5, <2>16 DEF ModesIn
    <3> QED
      BY <3>1 DEF MapWith, ModesIn
  <2>18. View(new.k, map) = MapWith(View(k, pm), b, e, Zeroes)
    <3>1. View(new.k, map) = [v \in Pages(pm) \cup R |-> IF v \in R THEN Zeroes ELSE View(k, pm)[v]]
      BY <2>5, <2>16 DEF View
    <3> QED
      BY <3>1 DEF MapWith, View
  <2> QED
    BY <2>1, <2>2, <2>3, <2>6, <2>14, <2>15, <2>17, <2>18 DEF Assigns, r
<1> QED
  BY <1>5, <1>6

\* The entries of a page map that are given back
Released(k, pm, gone, new) ==
    /\ Owned(new, Restrict(pm, DOMAIN pm \ gone))
    /\ Keeps(k, pm, new, Restrict(pm, DOMAIN pm \ gone))
    /\ \A n \in DOMAIN pm \ gone : new.memory[pm[n].frame] = k.memory[pm[n].frame]

\* Giving frames back in any order; no entry is given back twice.
LEMMA FreePagesLemma ==
    ASSUME NEW k, NEW pm, Owned(k, pm), NEW gone \in Seq(DOMAIN pm), IsInjective(gone)
    PROVE  Released(k, pm, Range(gone),
                    free_pages(k, [i \in DOMAIN gone |-> pm[gone[i]].frame]))
<1> DEFINE pages == [i \in DOMAIN gone |-> pm[gone[i]].frame]
           list == Reverse(pages) \o k.free_list
           memory == [f \in Frames |-> IF f \in Range(pages) THEN Junk ELSE k.memory[f]]
           new == free_pages(k, pages)
           left == Restrict(pm, DOMAIN pm \ Range(gone))
<1>1. new = [k EXCEPT !.free_list = list, !.memory = memory]
  BY DEF free_pages
<1>2. /\ k \in Kmem /\ k.free_list \in Seq(Frames) /\ IsInjective(k.free_list)
      /\ \A n \in DOMAIN pm : pm[n] \in TableEntry /\ pm[n].frame \notin Range(k.free_list)
      /\ \A n, m \in DOMAIN pm : pm[n].frame = pm[m].frame => n = m
  BY DEF Owned, Kmem, FramesIn
<1>3. /\ DOMAIN gone = 1..Len(gone) /\ Len(gone) \in Nat
      /\ \A i \in DOMAIN gone : gone[i] \in DOMAIN pm /\ gone[i] \in Range(gone)
      /\ Range(gone) = {gone[i] : i \in DOMAIN gone}
  BY DEF Range
<1>4. \A n \in DOMAIN pm : pm[n].frame \in Frames
  BY <1>2 DEF TableEntry
<1>5. /\ pages \in Seq(Frames) /\ DOMAIN pages = DOMAIN gone
      /\ \A i \in DOMAIN gone : pages[i] = pm[gone[i]].frame
  <2>1. \A i \in 1..Len(gone) : pm[gone[i]].frame \in Frames
    BY <1>3, <1>4
  <2>2. pages = [i \in 1..Len(gone) |-> pm[gone[i]].frame]
    BY <1>3
  <2> QED
    BY <1>3, <2>1, <2>2
<1> HIDE DEF pages
<1>6. IsInjective(pages)
  BY <1>2, <1>3, <1>5 DEF IsInjective
<1>7. Range(pages) = {pm[n].frame : n \in Range(gone)} /\ Range(pages) \subseteq FramesIn(pm)
  BY <1>3, <1>5 DEF Range, FramesIn
<1>8. Range(pages) \cap Range(k.free_list) = {}
  BY <1>2, <1>3, <1>7
<1>9. /\ list \in Seq(Frames) /\ IsInjective(list)
      /\ Range(list) = Range(pages) \cup Range(k.free_list)
  <2>1. /\ Reverse(pages) \in Seq(Frames) /\ IsInjective(Reverse(pages))
        /\ Range(Reverse(pages)) = Range(pages)
    BY <1>5, <1>6, ReverseLemma
  <2> QED
    BY <1>2, <1>8, <2>1, ConcatLemma
<1>10. memory \in [Frames -> Contents]
  BY <1>2 DEF Kmem, Contents
<1>11. \A f \in Frames : f \notin Range(pages) => memory[f] = k.memory[f]
  OBVIOUS
<1> HIDE DEF list, memory, new
<1>12. new \in Kmem /\ new.free_list = list /\ new.memory = memory
  BY <1>1, <1>2, <1>9, <1>10 DEF Kmem
<1>13. /\ DOMAIN left = DOMAIN pm \ Range(gone) /\ left = [n \in DOMAIN left |-> left[n]]
       /\ \A n \in DOMAIN left : n \in DOMAIN pm /\ n \notin Range(gone) /\ left[n] = pm[n]
  BY DEF Restrict
<1> HIDE DEF left
<1>14. ASSUME NEW n \in DOMAIN left PROVE left[n].frame \notin Range(pages)
  <2>1. \A m \in Range(gone) : m \in DOMAIN pm
    BY <1>3
  <2>2. \A m \in Range(gone) : pm[n].frame # pm[m].frame
    BY <1>2, <1>13, <2>1
  <2> QED
    BY <1>7, <1>13, <2>2
<1>15. \A n \in DOMAIN left : left[n].frame \notin Range(list) /\ left[n] \in TableEntry
  BY <1>2, <1>9, <1>13, <1>14
<1>16. Owned(new, left)
  <2>1. left \in [DOMAIN left -> TableEntry]
    BY <1>13, <1>15
  <2>2. FramesIn(left) \cap Range(list) = {}
    BY <1>15 DEF FramesIn
  <2>3. \A n, m \in DOMAIN left : left[n].frame = left[m].frame => n = m
    BY <1>2, <1>13
  <2> QED
    BY <1>9, <1>12, <2>1, <2>2, <2>3 DEF Owned
<1>17. Keeps(k, pm, new, left)
  <2>1. FramesIn(left) \subseteq FramesIn(pm)
    BY <1>13 DEF FramesIn
  <2> QED
    BY <1>7, <1>9, <1>11, <1>12, <2>1 DEF Keeps, Held
<1>18. \A n \in DOMAIN pm \ Range(gone) : new.memory[pm[n].frame] = k.memory[pm[n].frame]
  BY <1>4, <1>11, <1>12, <1>13, <1>14
<1> QED
  BY <1>16, <1>17, <1>18 DEF Released, new, pages, left

\* What mmu_clear leaves
Clears(k, pm, b, e, new) ==
    /\ new.panic = "none"
    /\ Owned(new.k, new.pm) /\ Tree(new.pm) /\ Keeps(k, pm, new.k, new.pm)
    /\ \A n \in DOMAIN new.pm : n \in DOMAIN pm /\ new.pm[n] = pm[n]
    /\ Top \in DOMAIN new.pm
    /\ ModesIn(new.pm) = MapWithout(ModesIn(pm), b, e)
    /\ View(new.k, new.pm) = MapWithout(View(k, pm), b, e)

LEMMA MmuClearLemma ==
    ASSUME NEW k, NEW pm, Owned(k, pm), Tree(pm), NEW b \in Nat, NEW e \in Nat, b < e,
           e <= ADDR_MAX
    PROVE  Clears(k, pm, b, e, mmu_clear(k, pm, b, e))
<1> DEFINE emptied == EmptiedNodes(pm, b, e)
           gone == Within(BottomUp(b, e), emptied)
           left == Restrict(pm, DOMAIN pm \ Range(gone))
           freed == free_pages(k, [i \in DOMAIN gone |-> pm[gone[i]].frame])
           r == mmu_clear(k, pm, b, e)
           S == Pages(pm) \ (b..(e - 1))
<1>1. IsInjective(gone) /\ Range(gone) = Walked(b, e) \cap emptied /\ gone \in Seq(DOMAIN pm)
  <2>1. /\ BottomUp(b, e) \in Seq(Walked(b, e)) /\ IsInjective(BottomUp(b, e))
        /\ Range(BottomUp(b, e)) = Walked(b, e)
    BY WalkLemma
  <2>2. emptied \subseteq DOMAIN pm
    BY DEF EmptiedNodes
  <2> HIDE DEF emptied
  <2>3. /\ gone \in Seq(Walked(b, e)) /\ Range(gone) = Range(BottomUp(b, e)) \cap emptied
        /\ IsInjective(BottomUp(b, e)) => IsInjective(gone)
    BY <2>1, WithinLemma
  <2> HIDE DEF gone
  <2>4. gone = [i \in 1..Len(gone) |-> gone[i]] /\ DOMAIN gone = 1..Len(gone) /\ Len(gone) \in Nat
    BY <2>3
  <2>5. \A i \in 1..Len(gone) : gone[i] \in DOMAIN pm
    BY <2>1, <2>2, <2>3, <2>4 DEF Range
  <2>6. gone \in Seq(DOMAIN pm)
    BY <2>4, <2>5
  <2> QED
    BY <2>1, <2>3, <2>6
<1>2. r = Mapped(freed, left, "none")
  <2>1. validate_limits(b, e)
    BY ProcessAssumption DEF validate_limits
  <2> QED
    BY <2>1 DEF mmu_clear, EmptiedNodes
<1>3. DOMAIN pm \ Range(gone) = NodesOf(S) /\ S \in SUBSET Page
  <2>1. Pages(pm) \in SUBSET Page /\ DOMAIN pm = NodesOf(Pages(pm))
    BY DEF Tree
  <2>2. ASSUME NEW T \in SUBSET Page, DOMAIN pm = NodesOf(T)
        PROVE  DOMAIN pm \ (Walked(b, e) \cap EmptiedNodes(pm, b, e)) = NodesOf(T \ (b..(e - 1)))
    <3>1. b \in Nat /\ e \in Nat /\ b < e /\ e <= ADDR_MAX
      OBVIOUS
    <3> QED
      BY ONLY <2>2, <3>1, ShrinkLemma
  <2>3. DOMAIN pm \ (Walked(b, e) \cap emptied) = NodesOf(Pages(pm) \ (b..(e - 1)))
    BY <2>1, <2>2
  <2> HIDE DEF gone, emptied
  <2> QED
    BY <1>1, <2>1, <2>3
<1> HIDE DEF gone
<1>4. Released(k, pm, Range(gone), freed)
  BY <1>1, FreePagesLemma
<1>5. /\ DOMAIN left = DOMAIN pm \ Range(gone)
      /\ \A n \in DOMAIN left : n \in DOMAIN pm /\ left[n] = pm[n]
  BY DEF Restrict
<1>6. /\ Owned(freed, left) /\ Keeps(k, pm, freed, left)
      /\ \A n \in DOMAIN left : freed.memory[pm[n].frame] = k.memory[pm[n].frame]
  BY <1>4, <1>5 DEF Released
<1>7. r.k = freed /\ r.pm = left /\ r.panic = "none"
  BY <1>2 DEF Mapped
<1> HIDE DEF left, freed, r
<1>8. Pages(left) = S
  BY <1>3, <1>5, PagesLemma
<1>9. Tree(left) /\ Top \in DOMAIN left
  BY <1>3, <1>5, <1>8 DEF Tree, NodesOf
<1>10. \A v \in S : Node(0, v) \in DOMAIN left /\ v \in Pages(pm)
  BY <1>3, <1>5, LeafLemma
<1>11. \A v \in S : /\ left[Node(0, v)] = pm[Node(0, v)]
                    /\ freed.memory[left[Node(0, v)].frame] = k.memory[pm[Node(0, v)].frame]
  BY <1>5, <1>6, <1>10
<1>12. ModesIn(left) = MapWithout(ModesIn(pm), b, e)
  <2>1. ModesIn(left) = [v \in S |-> ModesIn(pm)[v]]
    BY <1>8, <1>10, <1>11 DEF ModesIn
  <2> QED
    BY <2>1 DEF MapWithout, ModesIn
<1>13. View(freed, left) = MapWithout(View(k, pm), b, e)
  <2>1. View(freed, left) = [v \in S |-> View(k, pm)[v]]
    BY <1>8, <1>10, <1>11 DEF View
  <2> QED
    BY <2>1 DEF MapWithout, View
<1> QED
  BY <1>5, <1>6, <1>7, <1>9, <1>12, <1>13 DEF Clears, r

\* The page map of a process that is not there
NoMap == NoProcess.page_map

LEMMA NoMapLemma ==
    /\ DOMAIN NoMap = {} /\ FramesIn(NoMap) = {} /\ Pages(NoMap) = {}
    /\ \A k \in Kmem : IsInjective(k.free_list) => Owned(k, NoMap)
<1>1. NoMap = [n \in {} |-> {}]
  BY DEF NoMap, NoProcess
<1>2. DOMAIN NoMap = {} /\ NoMap \in [{} -> TableEntry]
  BY <1>1
<1> QED
  BY <1>2 DEF Owned, FramesIn, Pages

\* The state left by a call that took frames for a new page map
LEMMA NewMapLemma ==
    ASSUME NEW k, NEW new, Shrinks(k, new), IsInjective(k.free_list),
           NEW pm, pm \in [DOMAIN pm -> TableEntry],
           FramesIn(pm) \subseteq Range(k.free_list), FramesIn(pm) \cap Range(new.free_list) = {},
           \A n, m \in DOMAIN pm : pm[n].frame = pm[m].frame => n = m
    PROVE  Owned(new, pm) /\ Keeps(k, NoMap, new, pm)
  BY NoMapLemma DEF Owned, Keeps, Held, Shrinks

\* What mmu_create_address_space leaves
Creates(k, new) ==
    /\ Shrinks(k, new.k)
    /\ new.ok \in BOOLEAN
    /\ new.ok => /\ Owned(new.k, new.pm) /\ Tree(new.pm) /\ Keeps(k, NoMap, new.k, new.pm)
                 /\ Pages(new.pm) = {} /\ Top \in DOMAIN new.pm

LEMMA CreateLemma ==
    ASSUME NEW k \in Kmem, IsInjective(k.free_list)
    PROVE  Creates(k, mmu_create_address_space(k))
<1> DEFINE new == mmu_alloc_pages(k, <<Top>>)
           pm == [n \in {Top} |-> Entry(new.frame[n], INTERMEDIATE)]
           r == mmu_create_address_space(k)
<1>1. <<Top>> \in Seq({Top}) /\ IsInjective(<<Top>>) /\ Range(<<Top>>) = {Top}
  BY DEF IsInjective, Range
<1>2. Granted(k, <<Top>>, new)
  <2> HIDE DEF new
  <2> QED
    BY <1>1, AllocPagesLemma DEF new
<1>3. r = [k |-> new.k, pm |-> pm, ok |-> new.ok]
  BY DEF mmu_create_address_space
<1>4. DOMAIN pm = {Top} /\ pm[Top] = Entry(new.frame[Top], INTERMEDIATE)
  OBVIOUS
<1>5. pm = [n \in {Top} |-> pm[n]]
  OBVIOUS
<1>6. r.k = new.k /\ r.pm = pm /\ r.ok = new.ok
  BY <1>3
<1> HIDE DEF new, pm, r
<1>7. Shrinks(k, new.k) /\ new.ok \in BOOLEAN
  BY <1>2 DEF Granted
<1>8. ASSUME new.ok
      PROVE  /\ Owned(new.k, pm) /\ Tree(pm) /\ Keeps(k, NoMap, new.k, pm)
             /\ Pages(pm) = {} /\ Top \in DOMAIN pm
  <2>1. new.frame[Top] \in Range(k.free_list) /\ new.frame[Top] \notin Range(new.k.free_list)
    BY <1>1, <1>2, <1>8 DEF Granted
  <2>2. Range(k.free_list) \subseteq Frames
    BY RangeLemma DEF Kmem
  <2>3. INTERMEDIATE \in Mode
    BY DEF INTERMEDIATE, Mode
  <2>4. pm[Top].frame = new.frame[Top] /\ pm[Top] \in TableEntry
    BY <1>4, <2>1, <2>2, <2>3 DEF Entry, TableEntry
  <2>5. pm \in [DOMAIN pm -> TableEntry]
    BY <1>4, <1>5, <2>4
  <2>6. FramesIn(pm) = {new.frame[Top]}
    BY <1>4, <2>4 DEF FramesIn
  <2>7. \A n, m \in DOMAIN pm : pm[n].frame = pm[m].frame => n = m
    BY <1>4
  <2>8. Owned(new.k, pm) /\ Keeps(k, NoMap, new.k, pm)
    BY <1>7, <2>1, <2>5, <2>6, <2>7, NewMapLemma
  <2>9. NodesOf({}) = {Top}
    BY DEF NodesOf
  <2>10. Pages(pm) = {}
    BY <1>4, <2>9, PagesLemma
  <2> QED
    BY <1>4, <2>8, <2>9, <2>10 DEF Tree
<1> QED
  BY <1>6, <1>7, <1>8 DEF Creates, r

\* What mmu_destroy_address_space leaves
LEMMA DestroyLemma ==
    ASSUME NEW k, NEW pm, Owned(k, pm), Tree(pm)
    PROVE  /\ Owned(mmu_destroy_address_space(k, pm), NoMap)
           /\ Keeps(k, pm, mmu_destroy_address_space(k, pm), NoMap)
<1> DEFINE c == mmu_clear(k, pm, 0, UserPages)
           frame == pm[Top].frame
           new == free_page(c.k, frame)
<1>1. Clears(k, pm, 0, ADDR_MAX, c)
  <2>1. UserPages = ADDR_MAX /\ 0 < ADDR_MAX /\ 0 \in Nat /\ ADDR_MAX \in Nat
    BY ProcessAssumption
  <2>2. Clears(k, pm, 0, ADDR_MAX, mmu_clear(k, pm, 0, ADDR_MAX))
    BY <2>1, MmuClearLemma
  <2> QED
    BY <2>1, <2>2
<1> HIDE DEF c
<1>2. Owned(c.k, c.pm) /\ Keeps(k, pm, c.k, c.pm) /\ Top \in DOMAIN c.pm /\ c.pm[Top] = pm[Top]
  BY <1>1 DEF Clears
<1>3. /\ c.k \in Kmem /\ c.k.free_list \in Seq(Frames) /\ IsInjective(c.k.free_list)
      /\ frame \in Frames /\ frame \notin Range(c.k.free_list) /\ frame \in FramesIn(c.pm)
  BY <1>2 DEF Owned, Kmem, FramesIn, TableEntry
<1> HIDE DEF frame
<1> DEFINE list == <<frame>> \o c.k.free_list
           memory == [c.k.memory EXCEPT ![frame] = Junk]
<1>4. list \in Seq(Frames) /\ IsInjective(list) /\ Range(list) = {frame} \cup Range(c.k.free_list)
  <2>1. /\ <<frame>> \in Seq(Frames) /\ IsInjective(<<frame>>) /\ Range(<<frame>>) = {frame}
    BY <1>3 DEF IsInjective, Range
  <2> DEFINE old == c.k.free_list
             one == <<frame>>
  <2>2. /\ Range(one) \cap Range(old) = {} /\ old \in Seq(Frames) /\ IsInjective(old)
        /\ one \in Seq(Frames) /\ IsInjective(one)
    BY <1>3, <2>1
  <2> HIDE DEF old, one
  <2>3. one \o old \in Seq(Frames) /\ IsInjective(one \o old)
        /\ Range(one \o old) = Range(one) \cup Range(old)
    BY <2>2, ConcatLemma
  <2> QED
    BY <2>1, <2>3 DEF one, old
<1>5. memory \in [Frames -> Contents] /\ \A f \in Frames : f # frame => memory[f] = c.k.memory[f]
  <2>1. Junk \in Contents
    BY DEF Contents
  <2>2. c.k.memory \in [Frames -> Contents]
    BY <1>3 DEF Kmem
  <2> QED
    BY <2>1, <2>2
<1>6. new = [c.k EXCEPT !.free_list = list, !.memory = memory]
  BY DEF free_page
<1> HIDE DEF list, memory, new
<1>7. new \in Kmem /\ new.free_list = list /\ new.memory = memory
  BY <1>3, <1>4, <1>5, <1>6 DEF Kmem
<1>8. Owned(new, NoMap)
  BY <1>4, <1>7, NoMapLemma
<1>9. Keeps(c.k, c.pm, new, NoMap)
  BY <1>3, <1>4, <1>5, <1>7, NoMapLemma DEF Keeps, Held
<1>10. Keeps(k, pm, new, NoMap)
  BY <1>2, <1>9, KeepsChain
<1> QED
  BY <1>8, <1>10 DEF mmu_destroy_address_space, new, c, frame

\* What mmu_clone_address_space leaves
Clones(k, pm, new) ==
    /\ Shrinks(k, new.k)
    /\ new.panic \in {"none", "oom"}
    /\ new.panic = "oom" => new.k.free_list = << >>
    /\ new.panic = "none" =>
        /\ Len(k.free_list) = Len(new.k.free_list) + Len(CloneNodes(pm))
        /\ Owned(new.k, new.pm) /\ Tree(new.pm) /\ Keeps(k, NoMap, new.k, new.pm)
        /\ Top \in DOMAIN new.pm
        /\ ModesIn(new.pm) = ModesIn(pm)
        /\ View(new.k, new.pm) = View(k, pm)

\* mmu_clone_address_space copies every node once.
LEMMA CloneNodesLemma ==
    ASSUME NEW pm, Tree(pm)
    PROVE  /\ CloneNodes(pm) \in Seq(DOMAIN pm) /\ IsInjective(CloneNodes(pm))
           /\ Range(CloneNodes(pm)) = DOMAIN pm
<1> DEFINE down == TopDown(0, UserPages)
           rest == Within(down, DOMAIN pm)
           first == <<Top>>
<1>1. /\ down \in Seq(Walked(0, ADDR_MAX)) /\ IsInjective(down)
      /\ Range(down) = Walked(0, ADDR_MAX)
  <2>1. UserPages = ADDR_MAX /\ 0 \in Nat /\ ADDR_MAX \in Nat
    BY ProcessAssumption
  <2> QED
    BY <2>1, WalkLemma
<1>2. /\ Pages(pm) \in SUBSET Page /\ DOMAIN pm = NodesOf(Pages(pm))
      /\ Page = 0..(ADDR_MAX - 1)
  BY DEF Tree, Page
<1> HIDE DEF down
<1>3. /\ rest \in Seq(Walked(0, ADDR_MAX)) /\ IsInjective(rest)
      /\ Range(rest) = Walked(0, ADDR_MAX) \cap DOMAIN pm
  BY <1>1, WithinLemma
<1>4. Top \in DOMAIN pm /\ Top \notin Walked(0, ADDR_MAX)
  <2>1. PML4 \notin 0..PDPT
    BY DEF PML4, PDPT
  <2> QED
    BY <1>2, <2>1, NodeLemma DEF NodesOf, Walked
<1>5. {Top} \cup (Walked(0, ADDR_MAX) \cap DOMAIN pm) = DOMAIN pm
  <2>1. 0..PML4 = 0..PDPT \cup {PML4}
    BY DEF PML4, PDPT
  <2>2. ASSUME NEW n \in DOMAIN pm, n # Top PROVE n \in Walked(0, ADDR_MAX)
    <3>1. PICK d \in 0..PML4, v \in Pages(pm) : n = Node(d, v)
      BY <1>2, <2>2 DEF NodesOf
    <3>2. d \in 0..PDPT /\ v \in Page
      BY <1>2, <2>1, <2>2, <3>1, NodeLemma
    <3> QED
      BY <1>2, <3>1, <3>2 DEF Walked
  <2> QED
    BY <1>4, <2>2
<1> HIDE DEF rest
<1>6. rest \in Seq(DOMAIN pm)
  <2>1. rest = [i \in 1..Len(rest) |-> rest[i]] /\ DOMAIN rest = 1..Len(rest) /\ Len(rest) \in Nat
    BY <1>3
  <2>2. \A i \in 1..Len(rest) : rest[i] \in DOMAIN pm
    BY <1>3, <2>1 DEF Range
  <2> QED
    BY <2>1, <2>2
<1>7. /\ first \in Seq(DOMAIN pm) /\ IsInjective(first) /\ Range(first) = {Top}
  BY <1>4 DEF IsInjective, Range
<1> HIDE DEF first
<1>8. Range(first) \cap Range(rest) = {}
  BY <1>3, <1>4, <1>7
<1>9. /\ first \o rest \in Seq(DOMAIN pm) /\ IsInjective(first \o rest)
      /\ Range(first \o rest) = Range(first) \cup Range(rest)
  BY <1>3, <1>6, <1>7, <1>8, ConcatLemma
<1> QED
  BY <1>3, <1>5, <1>7, <1>9 DEF CloneNodes, first, rest, down

LEMMA CloneLemma ==
    ASSUME NEW k, NEW pm, Owned(k, pm), Tree(pm)
    PROVE  Clones(k, pm, mmu_clone_address_space(k, pm))
<1> DEFINE new == mmu_alloc_pages(k, CloneNodes(pm))
           frame == new.frame
           memory == [f \in Frames |->
                IF \E v \in Pages(pm) : frame[Node(0, v)] = f
                THEN new.k.memory[pm[CHOOSE n \in DOMAIN pm : n[1] = 0 /\ frame[n] = f].frame]
                ELSE new.k.memory[f]]
           map == [n \in DOMAIN pm |-> Entry(frame[n], pm[n].flags)]
           k2 == [new.k EXCEPT !.memory = memory]
           r == mmu_clone_address_space(k, pm)
<1>1. Granted(k, CloneNodes(pm), new)
  <2>1. k \in Kmem /\ IsInjective(k.free_list)
    BY DEF Owned
  <2> QED
    BY <2>1, CloneNodesLemma, AllocPagesLemma
<1>2. r = IF ~new.ok THEN Mapped(new.k, pm, "oom") ELSE Mapped(k2, map, "none")
  BY DEF mmu_clone_address_space, CloneNodes, CopyOf
<1> HIDE DEF r
<1>3. CASE ~new.ok
  <2>1. r.k = new.k /\ r.panic = "oom"
    BY <1>2, <1>3 DEF Mapped
  <2> HIDE DEF new
  <2>2. Shrinks(k, new.k) /\ new.k.free_list = << >>
    BY <1>1, <1>3 DEF Granted
  <2> QED
    BY <2>1, <2>2 DEF Clones, r
<1>4. CASE new.ok
  <2>1. r.k = k2 /\ r.pm = map /\ r.panic = "none"
    BY <1>2, <1>4 DEF Mapped
  <2> HIDE DEF new
  <2>2. Shrinks(k, new.k)
    BY <1>1 DEF Granted
  <2>3. /\ \A n \in DOMAIN pm : /\ frame[n] \in Range(k.free_list)
                                /\ frame[n] \notin Range(new.k.free_list)
        /\ \A n, m \in DOMAIN pm : frame[n] = frame[m] => n = m
    BY <1>1, <1>4, CloneNodesLemma DEF Granted
  <2>4. Range(k.free_list) \subseteq Frames /\ k \in Kmem /\ IsInjective(k.free_list)
    BY RangeLemma DEF Owned, Kmem
  <2>5. DOMAIN map = DOMAIN pm /\ \A n \in DOMAIN pm : map[n] = Entry(frame[n], pm[n].flags)
    OBVIOUS
  <2>6. map = [n \in DOMAIN map |-> map[n]]
    OBVIOUS
  <2> HIDE DEF map
  <2>7. \A n \in DOMAIN pm : /\ pm[n].frame \in Frames /\ pm[n].flags \in Mode
                             /\ pm[n].frame \notin Range(k.free_list)
    BY DEF Owned, TableEntry, FramesIn
  <2>8. \A n \in DOMAIN pm : /\ map[n].frame = frame[n] /\ map[n].flags = pm[n].flags
                             /\ map[n] \in TableEntry
    BY <2>3, <2>4, <2>5, <2>7 DEF Entry, TableEntry
  <2>9. map \in [DOMAIN map -> TableEntry]
    BY <2>5, <2>6, <2>8
  <2>10. \A v \in Pages(pm) : Node(0, v) \in DOMAIN pm /\ Node(0, v)[1] = 0
    BY LeafLemma, NodeLemma DEF Tree
  <2>11. \A f \in Frames : memory[f] =
            IF \E v \in Pages(pm) : frame[Node(0, v)] = f
            THEN new.k.memory[pm[CHOOSE n \in DOMAIN pm : n[1] = 0 /\ frame[n] = f].frame]
            ELSE new.k.memory[f]
    OBVIOUS
  <2> DEFINE source(f) == CHOOSE n \in DOMAIN pm : n[1] = 0 /\ frame[n] = f
  <2>12. ASSUME NEW v \in Pages(pm) PROVE memory[frame[Node(0, v)]] = k.memory[pm[Node(0, v)].frame]
    <3> DEFINE n == Node(0, v)
    <3>1. n \in DOMAIN pm /\ n[1] = 0 /\ frame[n] \in Frames
      BY <2>3, <2>4, <2>10
    <3> HIDE DEF n, frame
    <3>2. source(frame[n]) = n
      BY <2>3, <3>1
    <3>3. \E w \in Pages(pm) : frame[Node(0, w)] = frame[n]
      BY DEF n
    <3>4. memory[frame[n]] = new.k.memory[pm[source(frame[n])].frame]
      BY <2>11, <3>1, <3>3
    <3>5. new.k.memory[pm[n].frame] = k.memory[pm[n].frame]
      BY <2>2, <2>7, <3>1 DEF Shrinks
    <3> QED
      BY <3>2, <3>4, <3>5 DEF n
  <2>13. memory \in [Frames -> Contents]
    <3>1. new.k.memory \in [Frames -> Contents]
      BY <2>2 DEF Shrinks, Kmem
    <3>2. ASSUME NEW f \in Frames, NEW v \in Pages(pm), frame[Node(0, v)] = f
          PROVE  pm[source(f)].frame \in Frames
      <4>1. source(f) \in DOMAIN pm
        BY <2>10, <3>2
      <4> QED
        BY <2>7, <4>1
    <3>3. \A f \in Frames : memory[f] \in Contents
      BY <2>11, <3>1, <3>2
    <3> QED
      BY <3>3
  <2>14. \A f \in Frames : f \notin Range(k.free_list) => memory[f] = k.memory[f]
    <3>1. ASSUME NEW f \in Frames, f \notin Range(k.free_list) PROVE memory[f] = k.memory[f]
      <4>1. ~\E v \in Pages(pm) : frame[Node(0, v)] = f
        BY <2>3, <2>10, <3>1
      <4> QED
        BY <2>2, <2>11, <3>1, <4>1 DEF Shrinks
    <3> QED
      BY <3>1
  <2> HIDE DEF memory
  <2>15. Shrinks(k, k2) /\ k2.free_list = new.k.free_list /\ k2.memory = memory
    BY <2>2, <2>13, <2>14 DEF Shrinks, Kmem
  <2> HIDE DEF k2
  <2>16. FramesIn(map) = {frame[n] : n \in DOMAIN pm}
    BY <2>5, <2>8 DEF FramesIn
  <2>17. Owned(k2, map) /\ Keeps(k, NoMap, k2, map)
    <3>1. FramesIn(map) \subseteq Range(k.free_list) /\ FramesIn(map) \cap Range(k2.free_list) = {}
      BY <2>3, <2>15, <2>16
    <3>2. \A n, m \in DOMAIN map : map[n].frame = map[m].frame => n = m
      BY <2>3, <2>5, <2>8
    <3> QED
      BY <2>4, <2>9, <2>15, <3>1, <3>2, NewMapLemma
  <2>18. Pages(map) = Pages(pm) /\ Tree(map)
    BY <2>5, PagesLemma DEF Tree
  <2>19. Top \in DOMAIN map
    BY <2>18 DEF Tree, NodesOf
  <2>20. ModesIn(map) = ModesIn(pm)
    BY <2>8, <2>10, <2>18 DEF ModesIn
  <2>21. View(k2, map) = View(k, pm)
    BY <2>8, <2>10, <2>12, <2>15, <2>18 DEF View
  <2>22. Len(k.free_list) = Len(k2.free_list) + Len(CloneNodes(pm))
    BY <1>1, <1>4, <2>15 DEF Granted
  <2> QED
    BY <2>1, <2>15, <2>17, <2>18, <2>19, <2>20, <2>21, <2>22 DEF Clones, r
<1> QED
  BY <1>3, <1>4

-----------------------------------------------------------------------------
(***************************************************************************)
(* Calls that change the memory of one process                             *)
(***************************************************************************)
Fields == {"at", "page_map", "areas", "threads", "context", "tables", "cloexec"}

\* A process whose page map and frames are in order
Mapping(k, p) ==
    /\ DOMAIN p = Fields /\ p.at \in Address /\ p.tables \in Seq(Address)
    /\ Owned(k, p.page_map) /\ Tree(p.page_map)

\* A page that is mapped with any access is for the user.
UserFlags(list) == \A v \in Nat : \A m : Covers(list, v, m) => m = {} \/ "USER" \in m

\* The page map has the pages of the areas with access, with their flags.
Fits(p, list) ==
    Ordered(list) /\ UserFlags(list) /\ Match(list, ModesIn(p.page_map))

\* What a call may do to the pages of a process, as far as the process can see
Effect(view, new) ==
    \/ new = view
    \/ \E b \in Nat, e \in Nat :
        b < e /\ e <= ADDR_MAX /\ new \in {MapWithout(view, b, e), MapWith(view, b, e, Zeroes)}

\* The pages out of R stay where they are.
Stay(pm, R, new) ==
    \A v \in Pages(pm) : v \notin R => /\ v \in Pages(new)
                                       /\ new[Node(0, v)].frame = pm[Node(0, v)].frame

\* What a call of process p leaves that can change the pages of R
Called(k, p, R, r) ==
    /\ Mapping(r.k, r.p) /\ r.p.at = p.at
    /\ Keeps(k, p.page_map, r.k, r.p.page_map)
    /\ Effect(View(k, p.page_map), View(r.k, r.p.page_map))
    /\ Stay(p.page_map, R, r.p.page_map)
    /\ r.panic \in {"none", "oom"}
    /\ r.panic = "oom" => r.k.free_list = << >>
    /\ r.panic = "none" => Fits(r.p, r.p.areas)

\* The kernel objects that the call allocates and frees
LEMMA MappingShrinks ==
    ASSUME NEW k, NEW p, Mapping(k, p), NEW new, Shrinks(k, new)
    PROVE  /\ Mapping(new, p) /\ Keeps(k, p.page_map, new, p.page_map)
           /\ View(new, p.page_map) = View(k, p.page_map)
  BY ShrinksOwned, ShrinksView DEF Mapping

\* A call that does nothing but that
LEMMA UnchangedCalled ==
    ASSUME NEW k, NEW p, Mapping(k, p), Fits(p, p.areas), NEW new, Shrinks(k, new), NEW R
    PROVE  Called(k, p, R, Outcome(new, p, "none"))
  BY MappingShrinks DEF Called, Outcome, Effect, Stay

\* The same before or after a call
LEMMA CalledAfter ==
    ASSUME NEW k, NEW p, Mapping(k, p), NEW mid, Shrinks(k, mid), NEW R, NEW r,
           Called(mid, p, R, r)
    PROVE  Called(k, p, R, r)
<1>1. Keeps(k, p.page_map, mid, p.page_map) /\ View(mid, p.page_map) = View(k, p.page_map)
  BY MappingShrinks
<1>2. Keeps(k, p.page_map, r.k, r.p.page_map)
  BY <1>1, KeepsChain DEF Called
<1> QED
  BY <1>1, <1>2 DEF Called

LEMMA CalledBefore ==
    ASSUME NEW k, NEW p, NEW R, NEW newk, NEW newp, NEW panic,
           Called(k, p, R, Outcome(newk, newp, panic)), NEW new, Shrinks(newk, new)
    PROVE  Called(k, p, R, Outcome(new, newp, panic))
<1>1. /\ Outcome(newk, newp, panic).k = newk /\ Outcome(newk, newp, panic).p = newp
      /\ Outcome(newk, newp, panic).panic = panic /\ Outcome(new, newp, panic).k = new
      /\ Outcome(new, newp, panic).p = newp /\ Outcome(new, newp, panic).panic = panic
  BY DEF Outcome
<1>2. Mapping(newk, newp) /\ Keeps(k, p.page_map, newk, newp.page_map)
  BY <1>1 DEF Called
<1>3. /\ Mapping(new, newp) /\ Keeps(newk, newp.page_map, new, newp.page_map)
      /\ View(new, newp.page_map) = View(newk, newp.page_map)
  BY <1>2, MappingShrinks
<1>4. Keeps(k, p.page_map, new, newp.page_map)
  BY <1>2, <1>3, KeepsChain
<1>5. panic = "oom" => new.free_list = << >>
  <2> SUFFICES ASSUME panic = "oom" PROVE new.free_list = << >>
    OBVIOUS
  <2>1. newk.free_list = << >>
    BY <1>1 DEF Called
  <2>2. Range(new.free_list) = {} /\ new \in Kmem
    BY <2>1, EmptyLemma DEF Shrinks
  <2>3. \A seq \in Seq(Frames) : Range(seq) = {} => seq = << >>
    <3> SUFFICES ASSUME NEW seq \in Seq(Frames), Range(seq) = {} PROVE seq = << >>
      OBVIOUS
    <3>1. DOMAIN seq = {}
      BY DEF Range
    <3> QED
      BY <3>1
  <2> QED
    BY <2>2, <2>3, ListLemma
<1> QED
  BY <1>1, <1>3, <1>4, <1>5 DEF Called

LEMMA UserFlagsLemma ==
    ASSUME NEW list, UserFlags(list), NEW b, NEW e, NEW prot \in Prot, NEW content, NEW new,
           content \in {{}, {prot_to_mode(prot)}}, Changed(list, b, e, content, new)
    PROVE  UserFlags(new)
<1>1. prot_to_mode(prot) = {} \/ "USER" \in prot_to_mode(prot)
  BY Zenon DEF prot_to_mode, Prot
<1> QED
  BY <1>1 DEF UserFlags, Changed

\* The area of a new mapping is linked, then its pages are assigned.
LEMMA AssignedLemma ==
    ASSUME NEW k, NEW p, Mapping(k, p), NEW b \in Nat, NEW e \in Nat, InLimits(b, e),
           NEW prot \in Prot, NEW list, Fits(p, list), Unheld(list, b, e),
           Changed(list, b, e, {prot_to_mode(prot)}, p.areas)
    PROVE  /\ Called(k, p, {}, Assigned(k, p, b, e, prot))
           /\ View(Assigned(k, p, b, e, prot).k, Assigned(k, p, b, e, prot).p.page_map)
                \in {View(k, p.page_map), MapWith(View(k, p.page_map), b, e, Zeroes)}
<1> DEFINE flags == prot_to_mode(prot)
           pm == p.page_map
           m == mmu_assign(k, pm, b, e, flags)
           r == Assigned(k, p, b, e, prot)
<1>1. b < e /\ e <= ADDR_MAX /\ flags \in Mode
  BY ModeLemma DEF InLimits
<1>2. /\ Pages(pm) \cap (b..(e - 1)) = {}
      /\ Match(p.areas, IF prot = {} THEN ModesIn(pm) ELSE MapWith(ModesIn(pm), b, e, flags))
  <2>1. Match(list, ModesIn(pm)) /\ DOMAIN ModesIn(pm) = Pages(pm)
    BY DEF Fits, ModesIn
  <2> QED
    BY <2>1, AssignMatchLemma
<1>3. UserFlags(p.areas) /\ Ordered(p.areas)
  <2>1. UserFlags(list) /\ {flags} \in {{}, {flags}}
    BY DEF Fits
  <2>2. UserFlags(p.areas)
    BY <2>1, UserFlagsLemma
  <2> QED
    BY <2>2 DEF Changed
<1>4. Owned(k, pm) /\ Tree(pm) /\ DOMAIN p = Fields /\ p.at \in Address /\ p.tables \in Seq(Address)
  BY DEF Mapping
<1>5. Assigns(k, pm, b, e, flags, m)
  <2> HIDE DEF flags, pm
  <2> QED
    BY <1>1, <1>2, <1>4, AssignLemma
<1>6. k \in Kmem
  BY <1>4 DEF Owned
<1>7. r = IF prot = {} THEN Outcome(k, p, "none")
          ELSE Outcome(m.k, [p EXCEPT !.page_map = m.pm], m.panic)
  BY DEF Assigned
<1> HIDE DEF r, m, flags
<1>8. CASE prot = {}
  <2>1. r = Outcome(k, p, "none")
    BY <1>7, <1>8
  <2>2. Fits(p, p.areas)
    BY <1>2, <1>3, <1>8 DEF Fits
  <2>3. Shrinks(k, k)
    BY <1>6, ShrinksSelf
  <2>4. r.k = k /\ r.p = p
    BY <2>1 DEF Outcome
  <2> QED
    BY <2>1, <2>2, <2>3, <2>4, UnchangedCalled DEF r
<1>9. CASE prot # {} /\ m.panic = "oom"
  <2>1. m.pm = pm /\ Shrinks(k, m.k) /\ m.k.free_list = << >>
    BY <1>5, <1>9 DEF Assigns
  <2>2. r.k = m.k /\ r.p = [p EXCEPT !.page_map = m.pm] /\ r.panic = "oom"
    BY <1>7, <1>9 DEF Outcome
  <2>3. r.p.page_map = pm /\ r.p.at = p.at /\ r.p.tables = p.tables /\ DOMAIN r.p = Fields
    BY <1>4, <2>1, <2>2 DEF Fields
  <2>4. /\ Mapping(m.k, p) /\ Keeps(k, pm, m.k, pm) /\ View(m.k, pm) = View(k, pm)
    BY <2>1, MappingShrinks
  <2>5. Mapping(r.k, r.p)
    BY <2>2, <2>3, <2>4 DEF Mapping
  <2> QED
    BY <2>1, <2>2, <2>3, <2>4, <2>5 DEF Called, Effect, Stay, r
<1>10. CASE prot # {} /\ m.panic = "none"
  <2>1. /\ Owned(m.k, m.pm) /\ Tree(m.pm) /\ Keeps(k, pm, m.k, m.pm)
        /\ \A n \in DOMAIN pm : n \in DOMAIN m.pm /\ m.pm[n] = pm[n]
        /\ ModesIn(m.pm) = MapWith(ModesIn(pm), b, e, flags)
        /\ View(m.k, m.pm) = MapWith(View(k, pm), b, e, Zeroes)
    BY <1>5, <1>10 DEF Assigns
  <2>2. r.k = m.k /\ r.p = [p EXCEPT !.page_map = m.pm] /\ r.panic = "none"
    BY <1>7, <1>10 DEF Outcome
  <2>3. /\ r.p.page_map = m.pm /\ r.p.at = p.at /\ r.p.tables = p.tables
        /\ r.p.areas = p.areas /\ DOMAIN r.p = Fields
    BY <1>4, <2>2 DEF Fields
  <2>4. Mapping(r.k, r.p)
    BY <1>4, <2>1, <2>2, <2>3 DEF Mapping
  <2>5. Fits(r.p, r.p.areas)
    BY <1>2, <1>3, <1>10, <2>1, <2>3 DEF Fits
  <2>6. Stay(pm, {}, m.pm)
    <3>1. ASSUME NEW v \in Pages(pm)
          PROVE  v \in Pages(m.pm) /\ m.pm[Node(0, v)].frame = pm[Node(0, v)].frame
      <4>1. Node(0, v) \in DOMAIN pm /\ v \in Page
        BY <1>4, LeafLemma DEF Tree
      <4> QED
        BY <2>1, <4>1, LeafLemma DEF Tree
    <3> QED
      BY <3>1 DEF Stay
  <2>7. Effect(View(k, pm), View(m.k, m.pm))
    BY <1>1, <2>1 DEF Effect
  <2> QED
    BY <2>1, <2>2, <2>3, <2>4, <2>5, <2>6, <2>7 DEF Called, r
<1> QED
  BY <1>5, <1>8, <1>9, <1>10 DEF Assigns

\* The same process with another list of areas
LEMMA RelistLemma ==
    ASSUME NEW k, NEW p, Mapping(k, p), NEW list
    PROVE  /\ Mapping(k, [p EXCEPT !.areas = list])
           /\ [p EXCEPT !.areas = list].areas = list
           /\ [p EXCEPT !.areas = list].at = p.at
           /\ [p EXCEPT !.areas = list].page_map = p.page_map
           /\ \A old : Fits(p, old) => Fits([p EXCEPT !.areas = list], old)
<1> DEFINE new == [p EXCEPT !.areas = list]
<1>1. /\ DOMAIN new = Fields /\ new.areas = list /\ new.at = p.at
      /\ new.page_map = p.page_map /\ new.tables = p.tables
  BY DEF Mapping, Fields
<1> HIDE DEF new
<1> QED
  BY <1>1 DEF Mapping, Fits, new

LEMMA RelistCalled ==
    ASSUME NEW k, NEW p, Mapping(k, p), NEW list, NEW R, NEW r,
           Called(k, [p EXCEPT !.areas = list], R, r)
    PROVE  Called(k, p, R, r)
  BY RelistLemma DEF Called

\* VM::alloc_fixed_noreplace
LEMMA NoreplaceCalled ==
    ASSUME NEW k, NEW p, Mapping(k, p), Fits(p, p.areas), NEW b \in Nat, NEW e \in Nat,
           NEW prot \in Prot
    PROVE  Called(k, p, {}, alloc_fixed_noreplace(k, p, b, e, prot))
<1> DEFINE new == kalloc(k, "VM_area")
           list == InsertAt(p.areas, InsertSlot(p.areas, b), NewArea(new.at, b, e, prot))
           linked == [p EXCEPT !.areas = list]
           r == alloc_fixed_noreplace(k, p, b, e, prot)
<1>1. k \in Kmem /\ "VM_area" \in Types
  BY DEF Mapping, Owned, Types
<1>2. (new.at # NULL => new.at \in Address) /\ Shrinks(k, new.k)
  BY <1>1, KallocLemma DEF Allocates
<1>3. r = IF ~InLimits(b, e) \/ new.at = NULL THEN Outcome(k, p, "none")
          ELSE IF Taken(p.areas, b, e)
          THEN Outcome(kfree(new.k, new.at, "VM_area"), p, "none")
          ELSE Assigned(new.k, linked, b, e, prot)
  BY DEF alloc_fixed_noreplace
<1> HIDE DEF new, r
<1>4. CASE ~InLimits(b, e) \/ new.at = NULL
  <2>1. r = Outcome(k, p, "none") /\ Shrinks(k, k)
    BY <1>1, <1>3, <1>4, ShrinksSelf
  <2> QED
    BY <2>1, UnchangedCalled DEF r
<1>5. CASE InLimits(b, e) /\ new.at # NULL /\ Taken(p.areas, b, e)
  <2>1. Shrinks(new.k, kfree(new.k, new.at, "VM_area"))
    <3>1. new.k \in Kmem /\ new.at \in Address
      BY <1>2, <1>5 DEF Shrinks
    <3> QED
      BY <1>1, <3>1, KfreeLemma
  <2>2. Shrinks(k, kfree(new.k, new.at, "VM_area"))
    BY <1>2, <2>1, ShrinksChain
  <2>3. r = Outcome(kfree(new.k, new.at, "VM_area"), p, "none")
    BY <1>3, <1>5
  <2> QED
    BY <2>2, <2>3, UnchangedCalled DEF r
<1>6. CASE InLimits(b, e) /\ new.at # NULL /\ ~Taken(p.areas, b, e)
  <2>1. Ordered(p.areas)
    BY DEF Fits
  <2>2. /\ Unheld(p.areas, b, e)
        /\ Changed(p.areas, b, e, {prot_to_mode(prot)}, list)
    BY <1>2, <1>6, <2>1, NoreplaceLemma
  <2> HIDE DEF list
  <2>3. Mapping(new.k, p)
    BY <1>2, MappingShrinks
  <2>4. /\ Mapping(new.k, linked) /\ linked.areas = list /\ Fits(linked, p.areas)
    BY <2>3, RelistLemma
  <2> HIDE DEF linked
  <2>5. Called(new.k, linked, {}, Assigned(new.k, linked, b, e, prot))
    BY <1>6, <2>2, <2>4, AssignedLemma
  <2>6. r = Assigned(new.k, linked, b, e, prot)
    BY <1>3, <1>6
  <2>7. Called(new.k, p, {}, r)
    BY <2>3, <2>5, <2>6, RelistCalled DEF linked
  <2> QED
    BY <1>2, <2>7, CalledAfter DEF r
<1> QED
  BY <1>4, <1>5, <1>6

\* What vm_clear_for_insert and mmu_clear leave, if there is memory for the spare area
Clearing(k, p, b, e, c) ==
    /\ c.ok \in BOOLEAN
    /\ c.ok => /\ Clears(k, p.page_map, b, e, [k |-> c.k, pm |-> c.pm, panic |-> c.panic])
               /\ Changed(p.areas, b, e, {}, c.before \o c.after)
               /\ ~Splits(p.areas, b, e) => Leaves(p.areas, b, e, c.before, c.after)

\* The areas that are unlinked have an address each.
LEMMA DroppedLemma ==
    ASSUME NEW list \in Seq(Area), NEW b, NEW e
    PROVE  [i \in DOMAIN Dropped(list, b, e) |-> Dropped(list, b, e)[i].at] \in Seq(Address)
<1> DEFINE dropped == Dropped(list, b, e)
<1>1. dropped \in Seq(Area)
  BY WithinLemma DEF Dropped
<1> HIDE DEF dropped
<1>2. DOMAIN dropped = 1..Len(dropped) /\ Len(dropped) \in Nat
  BY <1>1
<1>3. \A i \in 1..Len(dropped) : dropped[i].at \in Address
  <2>1. \A i \in 1..Len(dropped) : dropped[i] \in Area
    BY <1>1, <1>2
  <2>2. \A a \in Area : a.at \in Address
    BY DEF Area
  <2> QED
    BY <2>1, <2>2
<1>4. [i \in 1..Len(dropped) |-> dropped[i].at] \in Seq(Address)
  BY <1>2, <1>3
<1> QED
  BY <1>2, <1>4 DEF dropped

\* The upper half of a split area is the spare one.
LEMMA SplitLemma ==
    ASSUME NEW s, NEW t, Ordered(s), Ordered(t), Ordered(s \o t), NEW at \in Address
    PROVE  /\ Ordered(s \o [t EXCEPT ![2].at = at])
           /\ \A v \in Nat : \A m :
                Covers(s \o [t EXCEPT ![2].at = at], v, m) <=> Covers(s \o t, v, m)
<1> DEFINE u == [t EXCEPT ![2].at = at]
           n == Len(t)
<1>1. /\ s \in Seq(Area) /\ t \in Seq(Area) /\ n \in Nat /\ DOMAIN t = 1..n /\ Len(s) \in Nat
      /\ \A i \in 1..n : t[i] \in Area
  BY DEF Ordered
<1>2. \A a \in Area : /\ [a EXCEPT !.at = at] \in Area
                      /\ [a EXCEPT !.at = at].begin = a.begin
                      /\ [a EXCEPT !.at = at].end = a.end
                      /\ [a EXCEPT !.at = at].flags = a.flags
  BY DEF Area
<1>3. u = [i \in 1..n |-> IF i = 2 THEN [t[2] EXCEPT !.at = at] ELSE t[i]]
  BY <1>1
<1> HIDE DEF u, n
<1>4. \A i \in 1..n : /\ u[i] \in Area /\ u[i].begin = t[i].begin /\ u[i].end = t[i].end
                      /\ u[i].flags = t[i].flags
  BY <1>1, <1>2, <1>3
<1>5. u \in Seq(Area) /\ Len(u) = n
  <2>1. u = [i \in 1..n |-> u[i]]
    BY <1>3
  <2>2. \A w : w = [i \in 1..n |-> u[i]] => w \in Seq(Area) /\ Len(w) = n
    BY <1>1, <1>4
  <2> QED
    BY <2>1, <2>2
<1>6. /\ s \o u \in Seq(Area) /\ Len(s \o u) = Len(s) + n
      /\ \A i \in 1..Len(s) : (s \o u)[i] = s[i]
      /\ \A i \in 1..n : (s \o u)[Len(s) + i] = u[i]
  <2>1. s \in Seq(Area) /\ u \in Seq(Area)
    BY <1>1, <1>5
  <2>2. /\ s \o u \in Seq(Area) /\ Len(s \o u) = Len(s) + Len(u)
        /\ \A i \in 1..Len(s) : (s \o u)[i] = s[i]
        /\ \A i \in 1..Len(u) : (s \o u)[Len(s) + i] = u[i]
    BY ONLY <2>1, JoinLemma
  <2> QED
    BY <1>5, <2>2
<1>7. /\ s \o t \in Seq(Area) /\ Len(s \o t) = Len(s) + n
      /\ \A i \in 1..Len(s) : (s \o t)[i] = s[i]
      /\ \A i \in 1..n : (s \o t)[Len(s) + i] = t[i]
  BY <1>1, JoinLemma DEF n
<1> DEFINE x == s \o t
           y == s \o u
<1>8. ASSUME NEW i \in 1..Len(x)
      PROVE  y[i].begin = x[i].begin /\ y[i].end = x[i].end /\ y[i].flags = x[i].flags
  <2>1. CASE i \in 1..Len(s)
    BY <1>6, <1>7, <2>1
  <2>2. CASE i \notin 1..Len(s)
    <3> DEFINE j == i - Len(s)
    <3>1. j \in 1..n /\ i = Len(s) + j
      BY <1>1, <1>7, <2>2
    <3> HIDE DEF j
    <3> QED
      BY <1>4, <1>6, <1>7, <3>1
  <2> QED
    BY <2>1, <2>2
<1>9. y \in Seq(Area) /\ Len(y) = Len(x) /\ Ordered(x)
  BY <1>6, <1>7
<1> HIDE DEF x, y
<1>10. Ordered(y) /\ \A v \in Nat : \A m : Covers(y, v, m) <=> Covers(x, v, m)
  BY <1>8, <1>9, ReatLemma
<1> QED
  BY <1>10 DEF x, y, u

LEMMA ClearedLemma ==
    ASSUME NEW k, NEW p, Mapping(k, p), Fits(p, p.areas), NEW b \in Nat, NEW e \in Nat,
           b < e, e <= ADDR_MAX
    PROVE  Clearing(k, p, b, e, Cleared(k, p, b, e))
<1> DEFINE spare == kalloc(k, "VM_area")
           route == vm_clear_for_insert(p.areas, b, e)
           split == Splits(p.areas, b, e)
           dropped == Dropped(p.areas, b, e)
           ats == [i \in DOMAIN dropped |-> dropped[i].at]
           freed == kfree_each(spare.k, ats, "VM_area")
           left == IF split THEN freed ELSE kfree(freed, spare.at, "VM_area")
           m == mmu_clear(left, p.page_map, b, e)
           after == IF split THEN [route.after EXCEPT ![2].at = spare.at] ELSE route.after
           c == Cleared(k, p, b, e)
<1>1. c = [ok |-> spare.at # NULL, k |-> m.k, pm |-> m.pm, panic |-> m.panic,
           before |-> route.before, after |-> after]
  BY DEF Cleared
<1>2. k \in Kmem /\ "VM_area" \in Types
  BY DEF Mapping, Owned, Types
<1>3. (spare.at # NULL => spare.at \in Address) /\ Shrinks(k, spare.k)
  BY <1>2, KallocLemma DEF Allocates
<1>4. Ordered(p.areas) /\ p.areas \in Seq(Area)
  BY DEF Fits, Ordered
<1>5. ats \in Seq(Address)
  BY <1>4, DroppedLemma
<1> HIDE DEF spare, ats, c, dropped
<1>6. Shrinks(k, freed)
  <2>1. Shrinks(spare.k, freed)
    BY <1>2, <1>3, <1>5, KfreeEachLemma DEF Shrinks
  <2> QED
    BY <1>3, <2>1, ShrinksChain
<1> HIDE DEF freed
<1>7. ASSUME spare.at # NULL PROVE Shrinks(k, left)
  <2>1. Shrinks(freed, kfree(freed, spare.at, "VM_area"))
    <3>1. freed \in Kmem /\ spare.at \in Address
      BY <1>3, <1>6, <1>7 DEF Shrinks
    <3> QED
      BY <1>2, <3>1, KfreeLemma
  <2>2. Shrinks(k, kfree(freed, spare.at, "VM_area"))
    BY <1>6, <2>1, ShrinksChain
  <2> QED
    BY <1>6, <2>2
<1> HIDE DEF left
<1>8. spare.at # NULL =>
        /\ Mapping(left, p) /\ Keeps(k, p.page_map, left, p.page_map)
        /\ View(left, p.page_map) = View(k, p.page_map)
  BY <1>7, MappingShrinks
<1>9. spare.at # NULL => Clears(left, p.page_map, b, e, m)
  BY <1>8, MmuClearLemma DEF Mapping
<1> HIDE DEF m
<1>10. Leaves(p.areas, b, e, route.before, route.after)
  BY <1>4, ClearLemma
<1>11. Changed(p.areas, b, e, {}, route.before \o route.after)
  BY <1>4, FreeLemma
<1> HIDE DEF route
<1>12. CASE split /\ spare.at # NULL
  <2>1. /\ c.k = m.k /\ c.pm = m.pm /\ c.panic = m.panic /\ c.ok = (spare.at # NULL)
        /\ c.before = route.before /\ c.after = [route.after EXCEPT ![2].at = spare.at]
    BY <1>1, <1>12
  <2> DEFINE old == route.before \o route.after
             list == route.before \o [route.after EXCEPT ![2].at = spare.at]
  <2>2. Ordered(list) /\ \A v \in Nat : \A mode : Covers(list, v, mode) <=> Covers(old, v, mode)
    <3>1. Ordered(route.before) /\ Ordered(route.after) /\ Ordered(old)
      BY <1>10 DEF Leaves
    <3> QED
      BY <1>3, <1>12, <3>1, SplitLemma
  <2>3. Changed(p.areas, b, e, {}, old)
    BY <1>11
  <2> HIDE DEF list, old
  <2>4. Changed(p.areas, b, e, {}, list)
    BY <2>2, <2>3 DEF Changed
  <2>5. Clears(k, p.page_map, b, e, [k |-> c.k, pm |-> c.pm, panic |-> c.panic])
    BY <1>8, <1>9, <1>12, <2>1, KeepsChain DEF Clears
  <2>6. c.before \o c.after = list
    BY <2>1 DEF list
  <2> QED
    BY <1>12, <2>1, <2>4, <2>5, <2>6 DEF Clearing, c
<1>13. CASE ~split /\ spare.at # NULL
  <2>1. /\ c.k = m.k /\ c.pm = m.pm /\ c.panic = m.panic /\ c.ok = (spare.at # NULL)
        /\ c.before = route.before /\ c.after = route.after
    BY <1>1, <1>13
  <2>2. Clears(k, p.page_map, b, e, [k |-> c.k, pm |-> c.pm, panic |-> c.panic])
    BY <1>8, <1>9, <1>13, <2>1, KeepsChain DEF Clears
  <2> QED
    BY <1>10, <1>11, <2>1, <2>2 DEF Clearing, c
<1>14. CASE spare.at = NULL
  <2>1. c.ok = FALSE
    BY <1>1, <1>14
  <2> QED
    BY <2>1 DEF Clearing, c
<1> QED
  BY <1>12, <1>13, <1>14

\* The process whose range was cleared, with another list of areas
LEMMA ClearedCalled ==
    ASSUME NEW k, NEW p, Mapping(k, p), Fits(p, p.areas), NEW b \in Nat, NEW e \in Nat,
           b < e, e <= ADDR_MAX, NEW c, Clearing(k, p, b, e, c), c.ok
    PROVE  /\ c.panic = "none"
           /\ Called(k, p, b..(e - 1), Vacated(c, p))
<1> DEFINE list == c.before \o c.after
           new == [p EXCEPT !.page_map = c.pm, !.areas = list]
           pm == p.page_map
<1>1. /\ c.panic = "none" /\ Owned(c.k, c.pm) /\ Tree(c.pm) /\ Keeps(k, pm, c.k, c.pm)
      /\ \A n \in DOMAIN c.pm : n \in DOMAIN pm /\ c.pm[n] = pm[n]
      /\ ModesIn(c.pm) = MapWithout(ModesIn(pm), b, e)
      /\ View(c.k, c.pm) = MapWithout(View(k, pm), b, e)
      /\ Changed(p.areas, b, e, {}, list)
  BY DEF Clearing, Clears
<1>2. /\ new.page_map = c.pm /\ new.areas = list /\ new.at = p.at /\ new.tables = p.tables
      /\ DOMAIN new = Fields
  BY DEF Mapping, Fields
<1> HIDE DEF new, list
<1>3. Mapping(c.k, new)
  BY <1>1, <1>2 DEF Mapping
<1>4. Fits(new, list)
  <2>1. UserFlags(p.areas) /\ Match(p.areas, ModesIn(pm))
    BY DEF Fits
  <2>2. UserFlags(list)
    BY <1>1, <2>1 DEF UserFlags, Changed
  <2>3. Match(list, ModesIn(c.pm))
    <3>1. Match(list, MapWithout(ModesIn(pm), b, e))
      BY <1>1, <2>1, ClearMatchLemma
    <3> QED
      BY <1>1, <3>1
  <2> QED
    BY <1>1, <1>2, <2>2, <2>3 DEF Fits, Changed
<1>5. Stay(pm, b..(e - 1), c.pm)
  <2>1. DOMAIN ModesIn(c.pm) = Pages(c.pm) /\ DOMAIN ModesIn(pm) = Pages(pm)
    BY DEF ModesIn
  <2>2. Pages(c.pm) = Pages(pm) \ (b..(e - 1))
    BY <1>1, <2>1 DEF MapWithout
  <2>3. ASSUME NEW v \in Pages(pm), v \notin b..(e - 1)
        PROVE  v \in Pages(c.pm) /\ c.pm[Node(0, v)].frame = pm[Node(0, v)].frame
    <3>1. v \in Pages(c.pm) /\ Node(0, v) \in DOMAIN c.pm
      BY <1>1, <2>2, <2>3, LeafLemma DEF Tree
    <3> QED
      BY <1>1, <3>1
  <2> QED
    BY <2>3 DEF Stay
<1>6. Effect(View(k, pm), View(c.k, c.pm))
  BY <1>1 DEF Effect
<1>7. Called(k, p, b..(e - 1), Outcome(c.k, new, "none"))
  BY <1>1, <1>2, <1>3, <1>4, <1>5, <1>6 DEF Called, Outcome
<1> QED
  BY <1>1, <1>7 DEF new, list, Vacated

\* VM::free
LEMMA FreeCalled ==
    ASSUME NEW k, NEW p, Mapping(k, p), Fits(p, p.areas), NEW b \in Nat, NEW e \in Nat, b < e
    PROVE  Called(k, p, b..(e - 1), free(k, p, b, e))
<1> DEFINE c == Cleared(k, p, b, e)
           r == free(k, p, b, e)
<1>1. r = IF e > ADDR_MAX \/ ~c.ok THEN Outcome(k, p, "none")
          ELSE Vacated(c, p)
  BY DEF free
<1> HIDE DEF r
<1>2. CASE e > ADDR_MAX \/ ~c.ok
  <2>1. r = Outcome(k, p, "none")
    BY <1>1, <1>2
  <2>2. Shrinks(k, k)
    BY ShrinksSelf DEF Mapping, Owned
  <2> QED
    BY <2>1, <2>2, UnchangedCalled DEF r
<1>3. CASE e <= ADDR_MAX /\ c.ok
  <2>1. Clearing(k, p, b, e, c)
    BY <1>3, ClearedLemma
  <2> HIDE DEF c
  <2>2. /\ c.panic = "none"
        /\ Called(k, p, b..(e - 1), Vacated(c, p))
    BY <1>3, <2>1, ClearedCalled
  <2>3. r = Vacated(c, p)
    BY <1>1, <1>3
  <2> QED
    BY <2>2, <2>3 DEF r
<1> QED
  BY <1>2, <1>3

LEMMA MapAgainLemma ==
    ASSUME NEW map, NEW b, NEW e, NEW x
    PROVE  MapWith(MapWithout(map, b, e), b, e, x) = MapWith(map, b, e, x)
<1> DEFINE R == b..(e - 1)
<1>1. DOMAIN MapWithout(map, b, e) = DOMAIN map \ R
  BY DEF MapWithout
<1>2. \A v \in DOMAIN map \ R : MapWithout(map, b, e)[v] = map[v]
  BY DEF MapWithout
<1> HIDE DEF R
<1>3. (DOMAIN map \ R) \cup R = DOMAIN map \cup R
  OBVIOUS
<1>4. MapWith(MapWithout(map, b, e), b, e, x) =
        [v \in DOMAIN map \cup R |-> IF v \in R THEN x ELSE MapWithout(map, b, e)[v]]
  BY <1>1, <1>3 DEF MapWith, R
<1>5. MapWith(map, b, e, x) = [v \in DOMAIN map \cup R |-> IF v \in R THEN x ELSE map[v]]
  BY DEF MapWith, R
<1> QED
  BY <1>2, <1>4, <1>5

\* VM::alloc_fixed_overwrite, when no area is split
LEMMA OverwriteCalled ==
    ASSUME NEW k, NEW p, Mapping(k, p), Fits(p, p.areas), NEW b \in Nat, NEW e \in Nat,
           NEW prot \in Prot, ~Splits(p.areas, b, e)
    PROVE  Called(k, p, b..(e - 1), alloc_fixed_overwrite(k, p, b, e, prot))
<1> DEFINE c == Cleared(k, p, b, e)
           new == kalloc(c.k, "VM_area")
           rest == [p EXCEPT !.page_map = c.pm, !.areas = c.before \o c.after]
           list == c.before \o <<NewArea(new.at, b, e, prot)>> \o c.after
           linked == [rest EXCEPT !.areas = list]
           a == Assigned(new.k, linked, b, e, prot)
           r == alloc_fixed_overwrite(k, p, b, e, prot)
           R == b..(e - 1)
           pm == p.page_map
<1>1. r = IF ~InLimits(b, e) \/ ~c.ok THEN Outcome(k, p, "none")
          ELSE IF new.at = NULL \/ c.panic # "none" THEN Outcome(c.k, rest, c.panic)
          ELSE a
  <2>1. Vacated(c, p) = Outcome(c.k, rest, c.panic)
    BY DEF Vacated
  <2>2. Vacated(c, p).p = rest
    BY <2>1 DEF Outcome
  <2> HIDE DEF rest
  <2>3. Replaced(c, p, b, e, prot) =
          IF new.at = NULL \/ c.panic # "none" THEN Outcome(c.k, rest, c.panic) ELSE a
    BY <2>1, <2>2 DEF Replaced
  <2> QED
    BY <2>3 DEF alloc_fixed_overwrite
<1> HIDE DEF r, c
<1>2. CASE ~InLimits(b, e) \/ ~c.ok
  <2>1. r = Outcome(k, p, "none")
    BY <1>1, <1>2
  <2>2. Shrinks(k, k)
    BY ShrinksSelf DEF Mapping, Owned
  <2> QED
    BY <2>1, <2>2, UnchangedCalled DEF r
<1>3. CASE InLimits(b, e) /\ c.ok
  <2>1. b < e /\ e <= ADDR_MAX
    BY <1>3 DEF InLimits
  <2>2. Clearing(k, p, b, e, c)
    BY <2>1, ClearedLemma DEF c
  <2>3. /\ c.panic = "none" /\ Called(k, p, R, Outcome(c.k, rest, "none"))
        /\ View(c.k, c.pm) = MapWithout(View(k, pm), b, e)
    <3>1. c.ok
      BY <1>3
    <3>2. /\ c.panic = "none"
          /\ Called(k, p, b..(e - 1), Vacated(c, p))
      BY <2>1, <2>2, <3>1, ClearedCalled
    <3>3. View(c.k, c.pm) = MapWithout(View(k, p.page_map), b, e)
      BY <2>2, <3>1 DEF Clearing, Clears
    <3> QED
      BY <3>2, <3>3 DEF Vacated
  <2>4. rest.page_map = c.pm /\ rest.areas = c.before \o c.after /\ rest.at = p.at
    BY DEF Mapping, Fields
  <2> HIDE DEF rest
  <2>5. Outcome(c.k, rest, "none").k = c.k /\ Outcome(c.k, rest, "none").p = rest
        /\ Outcome(c.k, rest, "none").panic = "none"
    BY DEF Outcome
  <2>6. /\ Mapping(c.k, rest) /\ Fits(rest, rest.areas) /\ Keeps(k, pm, c.k, rest.page_map)
        /\ Stay(pm, R, rest.page_map)
    BY <2>3, <2>5 DEF Called
  <2>7. CASE new.at = NULL
    BY <1>1, <1>3, <2>3, <2>7 DEF r
  <2>8. CASE new.at # NULL
    <3>1. c.k \in Kmem /\ "VM_area" \in Types
      BY <2>6 DEF Mapping, Owned, Types
    <3>2. new.at \in Address /\ Shrinks(c.k, new.k)
      BY <2>8, <3>1, KallocLemma DEF Allocates
    <3> HIDE DEF new
    <3>3. /\ Mapping(new.k, rest) /\ View(new.k, rest.page_map) = View(c.k, rest.page_map)
          /\ Keeps(c.k, rest.page_map, new.k, rest.page_map)
      BY <2>6, <3>2, MappingShrinks
    <3>4. Ordered(p.areas) /\ Leaves(p.areas, b, e, c.before, c.after)
      BY <1>3, <2>2 DEF Fits, Clearing
    <3>5. Unheld(rest.areas, b, e) /\ Changed(rest.areas, b, e, {prot_to_mode(prot)}, list)
      BY <1>3, <2>4, <3>2, <3>4, OverwriteLemma
    <3> HIDE DEF list
    <3>6. /\ Mapping(new.k, linked) /\ linked.areas = list /\ Fits(linked, rest.areas)
          /\ linked.at = rest.at /\ linked.page_map = rest.page_map
      <4>1. Mapping(new.k, rest)
        BY <3>3
      <4>2. Mapping(new.k, linked)
        BY <4>1, RelistLemma
      <4>4. linked.areas = list
        BY <4>1, RelistLemma
      <4>5. linked.at = rest.at /\ linked.page_map = rest.page_map
        BY <4>1, RelistLemma
      <4>3. Fits(linked, rest.areas)
        BY <2>6, <4>1, RelistLemma
      <4> QED
        BY <4>2, <4>3, <4>4, <4>5
    <3> HIDE DEF linked
    <3>7. /\ Called(new.k, linked, {}, a)
          /\ View(a.k, a.p.page_map) \in {View(new.k, linked.page_map),
                                          MapWith(View(new.k, linked.page_map), b, e, Zeroes)}
      BY <1>3, <3>5, <3>6, AssignedLemma
    <3> HIDE DEF a
    <3>8. View(new.k, linked.page_map) = MapWithout(View(k, pm), b, e)
      BY <2>3, <2>4, <3>3, <3>6
    <3>9. View(a.k, a.p.page_map) \in {MapWithout(View(k, pm), b, e),
                                       MapWith(View(k, pm), b, e, Zeroes)}
      BY <3>7, <3>8, MapAgainLemma
    <3>10. Effect(View(k, pm), View(a.k, a.p.page_map))
      BY <2>1, <3>9 DEF Effect
    <3>11. Keeps(k, pm, a.k, a.p.page_map)
      <4>1. Keeps(new.k, rest.page_map, a.k, a.p.page_map)
        BY <3>6, <3>7 DEF Called
      <4>2. Keeps(c.k, rest.page_map, a.k, a.p.page_map)
        BY <3>3, <4>1, KeepsChain
      <4> QED
        BY <2>6, <4>2, KeepsChain
    <3>12. Stay(pm, R, a.p.page_map)
      <4>1. Stay(rest.page_map, {}, a.p.page_map)
        BY <3>6, <3>7 DEF Called
      <4> QED
        BY <2>6, <4>1 DEF Stay
    <3>13. Called(k, p, R, a)
      BY <2>4, <3>6, <3>7, <3>10, <3>11, <3>12 DEF Called
    <3>14. r = a
      BY <1>1, <1>3, <2>3, <2>8
    <3> QED
      BY <3>13, <3>14 DEF r
  <2> QED
    BY <2>7, <2>8
<1> QED
  BY <1>2, <1>3

\* The merged areas have an address each.
LEMMA UnlinkedLemma ==
    ASSUME NEW list, Headed(list), NEW r \in 1..Len(list)
    PROVE  [i \in 1..(Len(list) - Len(merge_regions_after(list, r))) |-> list[r + i].at]
                \in Seq(Address)
<1> DEFINE T == Area \cup {ListBegin}
           m == Len(merge_regions_after(list, r))
           d == Len(list) - m
<1>1. \A x \in Area : x.at \in Address
  BY DEF Area
<1>2. /\ Len(list) \in Nat /\ DOMAIN list = 1..Len(list)
      /\ \A i \in 1..Len(list) : i > 1 => list[i] \in Area
  <2>1. list \in Seq(T)
    BY DEF Headed
  <2> HIDE DEF T
  <2>2. Len(list) \in Nat /\ DOMAIN list = 1..Len(list)
    BY <2>1
  <2>3. \A i \in 1..Len(list) : i > 1 => WellFormed(list[i])
    BY <2>2 DEF Headed
  <2> QED
    BY <2>2, <2>3 DEF WellFormed
<1>3. m \in Nat /\ r <= m
  BY MergeLemma DEF Headed
<1> HIDE DEF T, m
<1>4. \A i \in 1..d : r + i \in 1..Len(list) /\ r + i > 1
  BY <1>2, <1>3
<1>5. \A i \in 1..d : list[r + i].at \in Address
  BY <1>1, <1>2, <1>4
<1>6. d \in Int /\ \A j \in 1..d : d \in Nat
  BY <1>2, <1>3
<1> HIDE DEF d
<1>7. CASE d \in Nat
  BY <1>5, <1>7 DEF d, m
<1>8. CASE d \notin Nat
  <2>1. 1..d = {}
    BY <1>6, <1>8
  <2> DEFINE none == [i \in 1..d |-> list[r + i].at]
  <2>2. none = << >>
    BY <2>1
  <2> HIDE DEF none
  <2>3. none \in Seq(Address)
    BY <2>2
  <2> QED
    BY <2>3 DEF none, d, m
<1> QED
  BY <1>7, <1>8

\* The gap that alloc_movable chooses is long enough.
RoomyHint(p, asked, n) ==
    \A place \in Places(<<ListBegin>> \o p.areas, Hint(asked), n) :
        place.b + n <= NextBegin(<<ListBegin>> \o p.areas, place.r)

\* The new area has n pages and the others are as they were, unless there is no new one.
Placed(p, n, prot, r) ==
    r.p.areas # p.areas =>
        \E b \in Nat : Changed(p.areas, b, b + n, {prot_to_mode(prot)}, r.p.areas)

\* VM::alloc_movable
LEMMA MovableCalled ==
    ASSUME NEW k, NEW p, Mapping(k, p), Fits(p, p.areas), NEW asked \in Nat, NEW n \in Nat, n > 0,
           NEW prot \in Prot, RoomyHint(p, asked, n)
    PROVE  /\ Called(k, p, {}, alloc_movable(k, p, asked, n, prot))
           /\ Placed(p, n, prot, alloc_movable(k, p, asked, n, prot))
<1> DEFINE hint == Hint(asked)
           list == <<ListBegin>> \o p.areas
           new == kalloc(k, "VM_area")
           place == CHOOSE x \in Places(list, hint, n) : TRUE
           x == NewArea(new.at, place.b, place.b + n, prot)
           linked == InsertAt(list, place.r + 1, x)
           merged == merge_regions_after(linked, place.r)
           with == [p EXCEPT !.areas = Tail(merged)]
           a == Assigned(new.k, with, place.b, place.b + n, prot)
           unlinked == [i \in 1..(Len(linked) - Len(merged)) |-> linked[place.r + i].at]
           r == alloc_movable(k, p, asked, n, prot)
<1>1. r = IF hint + n > ADDR_MAX \/ new.at = NULL THEN Outcome(k, p, "none")
          ELSE IF Places(list, hint, n) = {}
          THEN Outcome(kfree(new.k, new.at, "VM_area"), p, "none")
          ELSE [a EXCEPT !.k = kfree_each(a.k, unlinked, "VM_area")]
  BY DEF alloc_movable
<1>2. k \in Kmem /\ "VM_area" \in Types
  BY DEF Mapping, Owned, Types
<1>3. (new.at # NULL => new.at \in Address) /\ Shrinks(k, new.k)
  BY <1>2, KallocLemma DEF Allocates
<1>4. Ordered(p.areas) /\ hint \in Nat
  BY DEF Fits, Hint
<1>5. Headed(list) /\ \A v \in Nat : \A m : Covers(list, v, m) <=> Covers(p.areas, v, m)
  BY <1>4, HeadOnLemma, HeadHoldsLemma
<1> HIDE DEF r, new, hint
<1>6. CASE hint + n > ADDR_MAX \/ new.at = NULL
  <2>1. r = Outcome(k, p, "none") /\ Shrinks(k, k)
    BY <1>1, <1>2, <1>6, ShrinksSelf
  <2>2. Called(k, p, {}, r)
    BY <2>1, UnchangedCalled
  <2>3. Placed(p, n, prot, r)
    BY <2>1 DEF Placed, Outcome
  <2> QED
    BY <2>2, <2>3 DEF r
<1>7. CASE ~(hint + n > ADDR_MAX \/ new.at = NULL) /\ Places(list, hint, n) = {}
  <2>1. Shrinks(new.k, kfree(new.k, new.at, "VM_area"))
    <3>1. new.k \in Kmem /\ new.at \in Address
      BY <1>3, <1>7 DEF Shrinks
    <3> QED
      BY <1>2, <3>1, KfreeLemma
  <2>2. Shrinks(k, kfree(new.k, new.at, "VM_area"))
    BY <1>3, <2>1, ShrinksChain
  <2>3. r = Outcome(kfree(new.k, new.at, "VM_area"), p, "none")
    BY <1>1, <1>7
  <2>4. Called(k, p, {}, r)
    BY <2>2, <2>3, UnchangedCalled
  <2>5. Placed(p, n, prot, r)
    BY <2>3 DEF Placed, Outcome
  <2> QED
    BY <2>4, <2>5 DEF r
<1>8. CASE ~(hint + n > ADDR_MAX \/ new.at = NULL) /\ Places(list, hint, n) # {}
  <2>1. place \in Places(list, hint, n)
    BY <1>8
  <2>2. place.b + n <= NextBegin(list, place.r)
    BY <2>1 DEF RoomyHint, hint
  <2>3. PICK i \in Regions(list, hint, n) :
            place = [r |-> i, b |-> clamp(hint, list[i].end, NextBegin(list, i))]
    BY <2>1 DEF Places
  <2>4. r = [a EXCEPT !.k = kfree_each(a.k, unlinked, "VM_area")]
    BY <1>1, <1>8
  <2> HIDE DEF place
  <2>5. place.r = i /\ place.b = clamp(hint, list[i].end, NextBegin(list, i))
    BY <2>3
  <2>6. i \in 1..Len(list)
    BY <1>5, <2>3, RegionsLemma
  <2>7. place.b \in Nat /\ list[i].end <= place.b
    <3>1. /\ list[i].end \in Nat /\ NextBegin(list, i) \in Nat
          /\ list[i].end <= NextBegin(list, i)
      BY <1>5, <2>6, GapLemma
    <3>2. /\ clamp(hint, list[i].end, NextBegin(list, i)) \in Nat
          /\ list[i].end <= clamp(hint, list[i].end, NextBegin(list, i))
      BY <1>4, <3>1, ClampLemma
    <3> QED
      BY <2>5, <3>2
  <2> DEFINE b == place.b
             e == b + n
  <2>8. b + n <= NextBegin(list, i)
    BY <2>2, <2>5
  <2>9. i = place.r /\ b \in Nat /\ list[i].end <= b
    BY <2>5, <2>7
  <2>10. /\ InLimits(b, e) /\ Unheld(p.areas, b, e)
         /\ Changed(p.areas, b, e, {prot_to_mode(prot)}, Tail(merged))
    <3> DEFINE at == new.at
               headed == list
    <3>1. at \in Address
      BY <1>3, <1>8
    <3> HIDE DEF at, b, headed
    <3>2. /\ InLimits(b, b + n) /\ Unheld(p.areas, b, b + n)
          /\ Changed(p.areas, b, b + n, {prot_to_mode(prot)},
                Tail(merge_regions_after(InsertAt(headed, i + 1, NewArea(at, b, b + n, prot)), i)))
      <4>1. /\ Headed(headed) /\ i \in 1..Len(headed) /\ headed[i].end <= b
            /\ \A v \in Nat : \A m : Covers(headed, v, m) <=> Covers(p.areas, v, m)
            /\ b + n <= NextBegin(headed, i) /\ b \in Nat /\ n > 0 /\ n \in Nat
        BY <1>5, <2>6, <2>8, <2>9 DEF headed
      <4> QED
        BY ONLY <1>4, <3>1, <4>1, prot \in Prot, MovableLemma
    <3> QED
      BY <2>9, <3>2 DEF at, b, headed
  <2>11. /\ Headed(linked) /\ place.r \in 1..Len(linked)
    <3>1. WellFormed(x) /\ x.begin = b /\ x.end = e
      <4>1. b \in Nat /\ e \in Nat
        BY <2>9
      <4> QED
        BY <1>3, <1>8, <2>10, <4>1, NewAreaLemma
    <3> HIDE DEF x, list
    <3>2. Headed(InsertAt(list, i + 1, x)) /\ Len(InsertAt(list, i + 1, x)) = Len(list) + 1
      BY <1>5, <2>6, <2>8, <2>9, <3>1, LinkHeadedLemma
    <3>3. Len(list) \in Nat
      BY <1>5 DEF Headed
    <3> QED
      BY <2>6, <2>9, <3>2, <3>3
  <2> HIDE DEF x, linked
  <2>12. unlinked \in Seq(Address)
    BY <2>11, UnlinkedLemma
  <2> DEFINE areas == Tail(merged)
  <2>13. Changed(p.areas, b, e, {prot_to_mode(prot)}, areas)
    BY <2>10
  <2> HIDE DEF unlinked, areas
  <2>14. Mapping(new.k, p)
    BY <1>3, MappingShrinks
  <2>15. Mapping(new.k, with) /\ with.areas = areas
    <3>1. Mapping(new.k, with)
      BY <2>14, RelistLemma
    <3>2. with.areas = Tail(merged)
      BY <2>14, RelistLemma
    <3> QED
      BY <3>1, <3>2 DEF areas
  <2>16. Fits(with, p.areas)
    BY <2>14, RelistLemma
  <2>17. with = [p EXCEPT !.areas = areas]
    BY DEF areas
  <2> HIDE DEF with
  <2>18. Called(new.k, with, {}, a)
    <3>1. b \in Nat /\ e \in Nat
      BY <2>9
    <3>2. /\ InLimits(b, e) /\ Unheld(p.areas, b, e)
          /\ Changed(p.areas, b, e, {prot_to_mode(prot)}, with.areas)
      BY <2>10, <2>13, <2>15
    <3> QED
      BY <2>15, <2>16, <3>1, <3>2, AssignedLemma
  <2>19. Called(new.k, p, {}, a)
    BY <2>14, <2>17, <2>18, RelistCalled
  <2>20. Called(k, p, {}, a)
    BY <1>3, <2>19, CalledAfter
  <2>21. a = Outcome(a.k, a.p, a.panic)
    BY DEF Assigned, Outcome
  <2>22. a.p.areas = areas
    <3>1. with.areas = areas /\ "areas" \in DOMAIN with
      BY <2>15 DEF Mapping, Fields
    <3> QED
      BY <3>1 DEF Assigned, Outcome
  <2> DEFINE k2 == kfree_each(a.k, unlinked, "VM_area")
  <2>23. r = Outcome(k2, a.p, a.panic)
    <3>1. \A ak, ap, apanic : [Outcome(ak, ap, apanic) EXCEPT !.k = k2] = Outcome(k2, ap, apanic)
      BY DEF Outcome
    <3> HIDE DEF a
    <3>2. [Outcome(a.k, a.p, a.panic) EXCEPT !.k = k2] = Outcome(k2, a.p, a.panic)
      BY <3>1
    <3> QED
      BY <2>4, <2>21, <3>2
  <2> HIDE DEF a
  <2>24. Shrinks(a.k, k2)
    <3>1. a.k \in Kmem
      BY <2>20 DEF Called, Mapping, Owned
    <3> QED
      BY <1>2, <2>12, <3>1, KfreeEachLemma
  <2>25. Called(k, p, {}, Outcome(a.k, a.p, a.panic))
    BY <2>20, <2>21
  <2> HIDE DEF k2
  <2>26. Called(k, p, {}, Outcome(k2, a.p, a.panic))
    BY <2>24, <2>25, CalledBefore
  <2>27. Placed(p, n, prot, r)
    <3>1. r.p.areas = areas
      BY <2>23, <2>22 DEF Outcome
    <3>2. Changed(p.areas, b, b + n, {prot_to_mode(prot)}, areas) /\ b \in Nat
      BY <2>9, <2>13
    <3> QED
      BY <3>1, <3>2 DEF Placed
  <2> QED
    BY <2>23, <2>26, <2>27 DEF r
<1> QED
  BY <1>6, <1>7, <1>8

\* A call that changes nothing of the process but its threads, tables and descriptors
LEMMA SameMemoryCalled ==
    ASSUME NEW k, NEW p, Mapping(k, p), Fits(p, p.areas), NEW new, Shrinks(k, new), NEW np,
           DOMAIN np = Fields, np.at = p.at, np.page_map = p.page_map, np.areas = p.areas,
           np.tables \in Seq(Address)
    PROVE  Called(k, p, {}, Outcome(new, np, "none"))
<1>1. /\ Mapping(new, p) /\ Keeps(k, p.page_map, new, p.page_map)
      /\ View(new, p.page_map) = View(k, p.page_map)
  BY MappingShrinks
<1>2. Mapping(new, np) /\ Fits(np, np.areas)
  BY <1>1 DEF Mapping, Fits
<1>3. Stay(p.page_map, {}, np.page_map)
  BY DEF Stay
<1> QED
  BY <1>1, <1>2, <1>3 DEF Called, Outcome, Effect

\* spawn_thread
LEMMA SpawnCalled ==
    ASSUME NEW k, NEW p, Mapping(k, p), Fits(p, p.areas), NEW priority
    PROVE  /\ Called(k, p, {}, spawn_thread(k, p, priority))
           /\ Shrinks(k, spawn_thread(k, p, priority).k)
           /\ spawn_thread(k, p, priority).p.page_map = p.page_map
<1> DEFINE types == <<"Thread", "FXSave_region">>
           both == kalloc_each(k, types)
           thread == both.at[1]
           context == cpu_context_initialise_user(p.page_map[Top].frame, both.at[2])
           np == [p EXCEPT !.threads = insert(p.threads, thread, priority),
                           !.context = [t \in DOMAIN p.context \cup {thread} |->
                                            IF t = thread THEN context ELSE p.context[t]]]
           r == spawn_thread(k, p, priority)
<1>1. r = IF ~both.ok THEN Outcome(kfree_each(both.k, both.at, "Thread"), p, "none")
          ELSE Outcome(both.k, np, "none")
  BY DEF spawn_thread
<1>2. types \in Seq(Types) /\ k \in Kmem /\ "Thread" \in Types
  BY DEF Types, Mapping, Owned
<1> HIDE DEF types, r
<1>3. Attempted(k, Len(types), both)
  BY <1>2, KallocEachLemma
<1> HIDE DEF both
<1>4. Shrinks(k, both.k) /\ both.at \in Seq(Address)
  BY <1>3 DEF Attempted
<1>5. CASE ~both.ok
  <2>1. Shrinks(both.k, kfree_each(both.k, both.at, "Thread"))
    BY <1>2, <1>4, KfreeEachLemma DEF Shrinks
  <2>2. Shrinks(k, kfree_each(both.k, both.at, "Thread"))
    BY <1>4, <2>1, ShrinksChain
  <2>3. r = Outcome(kfree_each(both.k, both.at, "Thread"), p, "none")
    BY <1>1, <1>5
  <2>4. Called(k, p, {}, r)
    BY <2>2, <2>3, UnchangedCalled
  <2>5. Shrinks(k, r.k) /\ r.p.page_map = p.page_map
    BY <2>2, <2>3 DEF Outcome
  <2> QED
    BY <2>4, <2>5 DEF r
<1>6. CASE both.ok
  <2>1. /\ DOMAIN np = Fields /\ np.at = p.at /\ np.page_map = p.page_map
        /\ np.areas = p.areas /\ np.tables = p.tables /\ p.tables \in Seq(Address)
    BY DEF Mapping, Fields
  <2>2. r = Outcome(both.k, np, "none")
    BY <1>1, <1>6
  <2> HIDE DEF np
  <2>3. Called(k, p, {}, r)
    BY <1>4, <2>1, <2>2, SameMemoryCalled
  <2>4. Shrinks(k, r.k) /\ r.p.page_map = p.page_map
    BY <1>4, <2>1, <2>2 DEF Outcome
  <2> QED
    BY <2>3, <2>4 DEF r
<1> QED
  BY <1>5, <1>6

-----------------------------------------------------------------------------
(***************************************************************************)
(* fork and the first process                                              *)
(***************************************************************************)
LEMMA SubSeqLemma ==
    ASSUME NEW T, NEW seq \in Seq(T), NEW i \in Nat, i > 0, NEW j \in Int, j <= Len(seq)
    PROVE  SubSeq(seq, i, j) \in Seq(T)
<1>1. CASE i > j
  <2>1. SubSeq(seq, i, j) = << >>
    BY <1>1
  <2> QED
    BY <2>1, EmptyLemma
<1>2. CASE i <= j
  BY <1>2
<1> QED
  BY <1>1, <1>2

LEMMA MinLemma ==
    ASSUME NEW i \in Nat, NEW j \in Nat
    PROVE  Min({i, j}) \in Nat /\ Min({i, j}) <= j
<1> DEFINE S == {i, j}
<1>1. S \in SUBSET Nat /\ S # {} /\ j \in S
  OBVIOUS
<1> HIDE DEF S
<1>2. \E m \in S : \A x \in S : m <= x
  BY <1>1, LeastLemma
<1>3. Min(S) \in S /\ \A x \in S : Min(S) <= x
  BY <1>2 DEF Min
<1> QED
  BY <1>1, <1>3 DEF S

\* The frames without page 0, which a ~VM that does not return put first
Clean(k, panic) == IF panic = "endless" THEN [k EXCEPT !.free_list = Tail(@)] ELSE k

\* Nothing else was put on the list.
Tainted(k, panic) == panic = "endless" => k = PageZeroFreed(Clean(k, panic))

LEMMA CleanLemma ==
    ASSUME NEW k \in Kmem
    PROVE  /\ Clean(PageZeroFreed(k), "endless") = k
           /\ Tainted(PageZeroFreed(k), "endless")
<1> DEFINE list == k.free_list
           longer == <<NULL>> \o list
           new == [k EXCEPT !.free_list = longer]
<1>1. list \in Seq(Frames) /\ PageZeroFreed(k) = new
  BY ListLemma DEF PageZeroFreed
<1>2. Tail(longer) = list
  <2> DEFINE T == Frames \cup {NULL}
  <2>1. list \in Seq(T) /\ <<NULL>> \in Seq(T) /\ <<NULL>> # << >>
    BY <1>1
  <2> HIDE DEF list, T
  <2>2. Tail(<<NULL>> \o list) = Tail(<<NULL>>) \o list
    BY <2>1, TailConcatLemma
  <2>3. Tail(<<NULL>>) = << >> /\ << >> \o list = list
    BY <2>1
  <2> QED
    BY <2>2, <2>3
<1> HIDE DEF longer
<1>3. [new EXCEPT !.free_list = Tail(new.free_list)] = k
  BY <1>2 DEF Kmem
<1> HIDE DEF new
<1> QED
  BY <1>1, <1>3 DEF Clean, Tainted

\* The frames that fork of process p takes at most
Wanted(p) == Len(CloneNodes(p.page_map)) + 1 + Len(CloneTypes(p))

\* What fork of process p leaves: no child and no memory of it but what a destructor
\* that does not return kept, or a child with copies of the pages
Bears(k, p, r) ==
    /\ Owned(Clean(r.k, r.panic), r.p.page_map)
    /\ Keeps(k, NoMap, Clean(r.k, r.panic), r.p.page_map)
    /\ r.panic \in {"none", "oom", "wild", "endless"} /\ Tainted(r.k, r.panic)
    /\ r.panic = "oom" => r.k.free_list = << >>
    /\ r.panic \in {"wild", "endless"} => Len(k.free_list) < Wanted(p)
    /\ \/ r.p = NoProcess
       \/ /\ r.panic = "none" /\ r.p.at # NULL
          /\ Mapping(r.k, r.p) /\ Fits(r.p, r.p.areas)
          /\ View(r.k, r.p.page_map) = View(k, p.page_map)

\* fork without a child
LEMMA StillbornLemma ==
    ASSUME NEW k, NEW p, NEW new, Owned(new, NoMap), Keeps(k, NoMap, new, NoMap),
           NEW panic \in {"none", "oom"}, panic = "oom" => new.free_list = << >>
    PROVE  Bears(k, p, Outcome(new, NoProcess, panic))
  BY DEF Bears, Outcome, NoMap, Clean, Tainted

\* fork asks for as many objects as the child needs.
LEMMA CloneTypesLemma ==
    ASSUME NEW p, p.areas \in Seq(Area), p.tables \in Seq(Address)
    PROVE  /\ CloneTypes(p) \in Seq(Types)
           /\ Len(CloneTypes(p)) = Len(p.areas) + Len(p.tables) + 2
<1> DEFINE a == [i \in DOMAIN p.areas |-> "VM_area"]
           t == [i \in DOMAIN p.tables |-> "table_l1l0"]
           c == <<"Thread", "FXSave_region">>
<1>1. "VM_area" \in Types /\ "table_l1l0" \in Types /\ c \in Seq(Types) /\ Len(c) = 2
  BY DEF Types
<1>2. a \in Seq(Types) /\ Len(a) = Len(p.areas) /\ Len(a) \in Nat
  BY <1>1
<1>3. t \in Seq(Types) /\ Len(t) = Len(p.tables) /\ Len(t) \in Nat
  BY <1>1
<1> HIDE DEF a, t, c
<1>4. a \o t \in Seq(Types) /\ Len(a \o t) = Len(a) + Len(t)
  BY <1>2, <1>3, JoinLemma
<1>5. (a \o t) \o c \in Seq(Types) /\ Len((a \o t) \o c) = Len(a \o t) + Len(c)
  BY <1>1, <1>4, JoinLemma
<1>6. CloneTypes(p) = (a \o t) \o c
  BY DEF CloneTypes, a, t, c
<1> QED
  BY <1>1, <1>2, <1>3, <1>4, <1>5, <1>6

\* What the destructors of a half-built process with page map pm leave
Unmade(k, pm, r) ==
    /\ r.p = NoProcess /\ r.panic \in {"none", "wild", "endless"} /\ Tainted(r.k, r.panic)
    /\ Owned(Clean(r.k, r.panic), NoMap) /\ Keeps(k, pm, Clean(r.k, r.panic), NoMap)

LEMMA UndoneLemma ==
    ASSUME NEW k, NEW p, p.areas \in Seq(Area), p.tables \in Seq(Address), NEW pm, Owned(k, pm),
           Tree(pm), NEW at \in Address, NEW objects \in Seq(Address), NEW temporary
    PROVE  Unmade(k, pm, Undone(k, p, at, pm, objects, temporary))
<1> DEFINE a == Len(p.areas)
           t == Len(p.tables)
           threads == SubSeq(objects, a + t + 1, Len(objects))
           tables == SubSeq(objects, a + 1, Min({a + t, Len(objects)}))
           areas == SubSeq(objects, 1, Min({a, Len(objects)}))
           k1 == kfree_each(k, threads, "Thread")
           k2 == kfree_each(k1, Reverse(tables), "table_l1l0")
           k3 == mmu_destroy_address_space(k2, pm)
           k4 == kfree_each(k3, areas, "VM_area")
           k5 == kfree(k4, at, "Process")
           r == Undone(k, p, at, pm, objects, temporary)
<1>1. /\ "Thread" \in Types /\ "table_l1l0" \in Types /\ "VM_area" \in Types
      /\ "Process" \in Types
  BY DEF Types
<1>2. a \in Nat /\ t \in Nat /\ Len(objects) \in Nat /\ k \in Kmem
  BY DEF Owned
<1>3. r = IF p.cloexec /\ Len(objects) >= a THEN Outcome(k2, NoProcess, "wild")
          ELSE IF temporary THEN Outcome(PageZeroFreed(k4), NoProcess, "endless")
          ELSE Outcome(k5, NoProcess, "none")
  BY DEF Undone, Unspawned, Unmapped
<1> HIDE DEF a, t, r
<1>4. threads \in Seq(Address)
  BY <1>2, SubSeqLemma
<1>5. tables \in Seq(Address)
  <2>1. a + t \in Nat /\ a + 1 \in Nat /\ a + 1 > 0
    BY <1>2
  <2> DEFINE last == Min({a + t, Len(objects)})
  <2>2. last \in Nat /\ last <= Len(objects)
    BY <1>2, <2>1, MinLemma
  <2> HIDE DEF last
  <2>3. SubSeq(objects, a + 1, last) \in Seq(Address)
    BY <2>1, <2>2, SubSeqLemma
  <2> QED
    BY <2>3 DEF last
<1>6. areas \in Seq(Address)
  <2> DEFINE last == Min({a, Len(objects)})
  <2>1. last \in Nat /\ last <= Len(objects)
    BY <1>2, MinLemma
  <2> HIDE DEF last
  <2>2. SubSeq(objects, 1, last) \in Seq(Address)
    BY <2>1, SubSeqLemma
  <2> QED
    BY <2>2 DEF last
<1>7. Reverse(tables) \in Seq(Address)
  <2> HIDE DEF tables
  <2> QED
    BY <1>5, ReverseLemma
<1> HIDE DEF threads, tables, areas
<1>8. Shrinks(k, k1)
  BY <1>1, <1>2, <1>4, KfreeEachLemma
<1> HIDE DEF k1
<1>9. Shrinks(k, k2)
  <2>1. Shrinks(k1, k2)
    BY <1>1, <1>7, <1>8, KfreeEachLemma DEF Shrinks
  <2> QED
    BY <1>8, <2>1, ShrinksChain
<1> HIDE DEF k2
<1>10. Owned(k2, pm) /\ Keeps(k, pm, k2, pm)
  BY <1>9, ShrinksOwned
<1>11. Owned(k3, NoMap) /\ Keeps(k2, pm, k3, NoMap)
  BY <1>10, DestroyLemma
<1> HIDE DEF k3
<1>12. Shrinks(k3, k4)
  <2>1. k3 \in Kmem
    BY <1>11 DEF Owned
  <2> QED
    BY <1>1, <1>6, <2>1, KfreeEachLemma
<1> HIDE DEF k4
<1>13. Shrinks(k3, k5)
  <2>1. Shrinks(k4, k5)
    BY <1>1, <1>12, KfreeLemma DEF Shrinks
  <2> QED
    BY <1>12, <2>1, ShrinksChain
<1> HIDE DEF k5
<1>14. ASSUME NEW new, Shrinks(k3, new) PROVE Owned(new, NoMap) /\ Keeps(k, pm, new, NoMap)
  <2>1. Keeps(k, pm, k3, NoMap)
    BY <1>10, <1>11, KeepsChain
  <2>2. Owned(new, NoMap) /\ Keeps(k3, NoMap, new, NoMap)
    BY <1>11, <1>14, ShrinksOwned
  <2> QED
    BY <2>1, <2>2, KeepsChain
<1>15. ASSUME r = Outcome(k2, NoProcess, "wild") PROVE Unmade(k, pm, r)
  <2>1. k2 \in Kmem /\ IsInjective(k2.free_list) /\ Held(k2, NoMap) \subseteq Held(k2, pm)
    BY <1>10, NoMapLemma DEF Owned, Held
  <2>2. Owned(k2, NoMap) /\ Keeps(k, pm, k2, NoMap)
    BY <1>10, <2>1, NoMapLemma DEF Keeps
  <2> QED
    BY <1>15, <2>2 DEF Unmade, Outcome, Clean, Tainted
<1>16. ASSUME r = Outcome(PageZeroFreed(k4), NoProcess, "endless") PROVE Unmade(k, pm, r)
  <2>1. k4 \in Kmem
    BY <1>12 DEF Shrinks
  <2>2. Owned(k4, NoMap) /\ Keeps(k, pm, k4, NoMap)
    BY <1>12, <1>14
  <2> QED
    BY <1>16, <2>1, <2>2, CleanLemma DEF Unmade, Outcome
<1>17. ASSUME r = Outcome(k5, NoProcess, "none") PROVE Unmade(k, pm, r)
  <2>1. Owned(k5, NoMap) /\ Keeps(k, pm, k5, NoMap)
    BY <1>13, <1>14
  <2> QED
    BY <1>17, <2>1 DEF Unmade, Outcome, Clean, Tainted
<1> QED
  BY <1>3, <1>15, <1>16, <1>17 DEF r

\* The list of areas of a child: copies with the addresses of new objects
LEMMA CopiedLemma ==
    ASSUME NEW list, Ordered(list), NEW objects \in Seq(Address), Len(list) <= Len(objects)
    PROVE  /\ Ordered([i \in DOMAIN list |-> [list[i] EXCEPT !.at = objects[i]]])
           /\ \A v \in Nat : \A m :
                Covers([i \in DOMAIN list |-> [list[i] EXCEPT !.at = objects[i]]], v, m)
                    <=> Covers(list, v, m)
<1> DEFINE n == Len(list)
           new == [i \in DOMAIN list |-> [list[i] EXCEPT !.at = objects[i]]]
<1>1. /\ n \in Nat /\ DOMAIN list = 1..n /\ \A i \in 1..n : list[i] \in Area
      /\ \A i \in 1..n : objects[i] \in Address
  BY DEF Ordered
<1>2. \A a \in Area, at \in Address : /\ [a EXCEPT !.at = at] \in Area
                                      /\ [a EXCEPT !.at = at].begin = a.begin
                                      /\ [a EXCEPT !.at = at].end = a.end
                                      /\ [a EXCEPT !.at = at].flags = a.flags
  BY DEF Area
<1>3. new = [i \in 1..n |-> [list[i] EXCEPT !.at = objects[i]]]
  BY <1>1
<1> HIDE DEF new, n
<1>4. \A i \in 1..n : /\ new[i] \in Area /\ new[i].begin = list[i].begin
                      /\ new[i].end = list[i].end /\ new[i].flags = list[i].flags
  BY <1>1, <1>2, <1>3
<1>5. new \in Seq(Area) /\ Len(new) = n
  <2>1. new = [i \in 1..n |-> new[i]]
    BY <1>3
  <2>2. \A w : w = [i \in 1..n |-> new[i]] => w \in Seq(Area) /\ Len(w) = n
    BY <1>1, <1>4
  <2> QED
    BY <2>1, <2>2
<1>6. Ordered(new) /\ \A v \in Nat : \A m : Covers(new, v, m) <=> Covers(list, v, m)
  BY <1>4, <1>5, ReatLemma DEF n
<1> QED
  BY <1>6 DEF new

\* Process c, whose object is at `at`, has page map pm.
Made(k, at, pm, c) == Mapping(k, c) /\ c.at = at /\ c.page_map = pm /\ Fits(c, c.areas)

\* The process that fork makes
LEMMA ChildLemma ==
    ASSUME NEW k, NEW p, Mapping(k, p), Fits(p, p.areas), NEW current, NEW priority,
           NEW at \in Address, NEW pm, NEW new, Owned(new, pm), Tree(pm),
           ModesIn(pm) = ModesIn(p.page_map),
           NEW objects \in Seq(Address), Len(objects) = Len(p.areas) + Len(p.tables) + 2
    PROVE  Made(new, at, pm, Child(p, current, at, pm, objects, priority))
<1> DEFINE a == Len(p.areas)
           t == Len(p.tables)
           list == p.areas
           copied == [i \in DOMAIN list |-> [list[i] EXCEPT !.at = objects[i]]]
           tables == SubSeq(objects, a + 1, a + t)
           c == Child(p, current, at, pm, objects, priority)
<1>1. /\ DOMAIN c = Fields /\ c.at = at /\ c.page_map = pm
      /\ c.areas = copied /\ c.tables = tables
  BY DEF Child, Fields
<1>2. a \in Nat /\ t \in Nat /\ Len(objects) = a + t + 2 /\ Ordered(list)
  BY DEF Mapping, Fits, Ordered
<1> HIDE DEF c, a, t, list
<1> DEFINE n == Len(objects)
           first == a + 1
           last == a + t
<1>3. a \in Nat /\ t \in Nat /\ n = a + t + 2
  BY <1>2
<1> HIDE DEF n
<1>4. first \in Nat /\ first > 0 /\ last \in Int /\ last <= n /\ a <= n
  BY ONLY <1>3
<1>5. tables \in Seq(Address)
  <2>1. objects \in Seq(Address) /\ last <= Len(objects)
    BY <1>4 DEF n
  <2> HIDE DEF first, last
  <2>2. SubSeq(objects, first, last) \in Seq(Address)
    BY ONLY <1>4, <2>1, SubSeqLemma
  <2> QED
    BY <2>2 DEF first, last
<1>6. Ordered(copied) /\ \A v \in Nat : \A m : Covers(copied, v, m) <=> Covers(list, v, m)
  <2>1. Len(list) <= Len(objects)
    <3>1. a <= Len(objects)
      BY <1>4 DEF n
    <3> QED
      BY <3>1 DEF a, list
  <2> QED
    BY <1>2, <2>1, CopiedLemma
<1> HIDE DEF copied, tables
<1>7. Mapping(new, c)
  BY <1>1, <1>5 DEF Mapping
<1>8. UserFlags(copied)
  BY <1>6 DEF UserFlags, Fits, list
<1>9. Match(copied, ModesIn(pm))
  <2>1. Match(list, ModesIn(pm))
    BY DEF Fits, list
  <2>2. Page \subseteq Nat
    BY DEF Page
  <2> QED
    BY <1>6, <2>1, <2>2 DEF Match
<1>10. Fits(c, c.areas)
  BY <1>1, <1>6, <1>8, <1>9 DEF Fits
<1> QED
  BY <1>1, <1>7, <1>10 DEF c, Made

\* Process::fork
LEMMA ForkedLemma ==
    ASSUME NEW k, NEW p, Mapping(k, p), Fits(p, p.areas), NEW current, NEW priority, NEW temporary
    PROVE  Bears(k, p, Forked(k, p, current, priority, temporary))
<1> DEFINE new == kalloc(k, "Process")
           m == mmu_clone_address_space(new.k, p.page_map)
           types == CloneTypes(p)
           objects == kalloc_each(m.k, types)
           undone == Undone(objects.k, p, new.at, m.pm, objects.at, temporary)
           child == Child(p, current, new.at, m.pm, objects.at, priority)
           r == Forked(k, p, current, priority, temporary)
<1>1. r = IF new.at = NULL THEN Outcome(k, NoProcess, "none")
          ELSE IF m.panic # "none" THEN Outcome(m.k, NoProcess, m.panic)
          ELSE IF ~objects.ok THEN undone
          ELSE Outcome(objects.k, child, "none")
  BY DEF Forked
<1>2. /\ "Process" \in Types /\ k \in Kmem /\ IsInjective(k.free_list)
      /\ p.areas \in Seq(Area) /\ p.tables \in Seq(Address)
  BY DEF Types, Mapping, Owned, Fits, Ordered
<1>3. /\ new.at # NULL => new.at \in Address
      /\ Shrinks(k, new.k) /\ Len(k.free_list) <= Len(new.k.free_list) + 1
  BY <1>2, KallocLemma DEF Allocates
<1>4. /\ Mapping(new.k, p) /\ View(new.k, p.page_map) = View(k, p.page_map)
  BY <1>3, MappingShrinks
<1> HIDE DEF r, new
<1>5. Clones(new.k, p.page_map, m)
  BY <1>4, CloneLemma DEF Mapping
<1>6. types \in Seq(Types) /\ Len(types) = Len(p.areas) + Len(p.tables) + 2
  BY <1>2, CloneTypesLemma
<1> HIDE DEF m, types
<1>7. Shrinks(k, m.k) /\ m.panic \in {"none", "oom"}
  BY <1>3, <1>5, ShrinksChain DEF Clones
<1>8. Owned(k, NoMap)
  BY <1>2, NoMapLemma
<1>9. ASSUME NEW k2, Shrinks(k, k2) PROVE Owned(k2, NoMap) /\ Keeps(k, NoMap, k2, NoMap)
  BY <1>8, <1>9, ShrinksOwned
<1>10. CASE new.at = NULL
  <2>1. r = Outcome(k, NoProcess, "none") /\ Shrinks(k, k)
    BY <1>1, <1>2, <1>10, ShrinksSelf
  <2> QED
    BY <1>9, <2>1, StillbornLemma DEF r
<1>11. CASE new.at # NULL /\ m.panic # "none"
  <2>1. /\ r = Outcome(m.k, NoProcess, m.panic) /\ m.panic \in {"none", "oom"}
        /\ m.panic = "oom" => m.k.free_list = << >>
    BY <1>1, <1>5, <1>7, <1>11 DEF Clones
  <2> QED
    BY <1>7, <1>9, <2>1, StillbornLemma DEF r
<1>12. CASE new.at # NULL /\ m.panic = "none"
  <2>1. /\ Owned(m.k, m.pm) /\ Tree(m.pm) /\ Keeps(new.k, NoMap, m.k, m.pm)
        /\ ModesIn(m.pm) = ModesIn(p.page_map) /\ View(m.k, m.pm) = View(new.k, p.page_map)
    BY <1>5, <1>12 DEF Clones
  <2>2. Keeps(k, NoMap, m.k, m.pm)
    BY <1>3, <1>9, <2>1, KeepsChain
  <2>3. m.k \in Kmem
    BY <2>1 DEF Owned
  <2>4. Attempted(m.k, Len(types), objects)
    BY <1>6, <2>3, KallocEachLemma
  <2> HIDE DEF objects
  <2>5. Shrinks(m.k, objects.k) /\ objects.at \in Seq(Address)
    BY <2>4 DEF Attempted
  <2>6. Owned(objects.k, m.pm) /\ Keeps(m.k, m.pm, objects.k, m.pm)
    BY <2>1, <2>5, ShrinksOwned
  <2>7. Keeps(k, NoMap, objects.k, m.pm)
    BY <2>2, <2>6, KeepsChain
  <2>8. CASE ~objects.ok
    <3>1. r = undone /\ new.at \in Address
      BY <1>1, <1>3, <1>12, <2>8
    <3>2. Unmade(objects.k, m.pm, undone)
      BY <1>2, <2>6, <2>1, <2>5, <3>1, UndoneLemma
    <3> HIDE DEF undone
    <3>3. Keeps(k, NoMap, Clean(undone.k, undone.panic), NoMap)
      BY <2>7, <3>2, KeepsChain DEF Unmade
    <3>4. Len(k.free_list) < Wanted(p)
      <4>1. /\ Len(k.free_list) <= Len(new.k.free_list) + 1
            /\ Len(new.k.free_list) = Len(m.k.free_list) + Len(CloneNodes(p.page_map))
            /\ Len(m.k.free_list) < Len(types)
        BY <1>3, <1>5, <1>12, <2>4, <2>8 DEF Clones, Attempted
      <4>2. /\ Len(k.free_list) \in Nat /\ Len(new.k.free_list) \in Nat
            /\ Len(m.k.free_list) \in Nat /\ Len(types) \in Nat
            /\ Len(CloneNodes(p.page_map)) \in Nat
        <5>1. k \in Kmem /\ new.k \in Kmem /\ m.k \in Kmem
          BY <1>2, <1>3, <2>3 DEF Shrinks
        <5>2. CloneNodes(p.page_map) \in Seq(DOMAIN p.page_map)
          BY CloneNodesLemma DEF Mapping
        <5>3. \A T : \A s \in Seq(T) : Len(s) \in Nat
          OBVIOUS
        <5> QED
          BY <1>6, <5>1, <5>2, <5>3, ListLemma
      <4>3. \A x, y, z, n, t \in Nat : x <= y + 1 /\ y = z + n /\ z < t => x < n + 1 + t
        OBVIOUS
      <4>4. Wanted(p) = Len(CloneNodes(p.page_map)) + 1 + Len(types)
        BY DEF Wanted, types
      <4> QED
        BY <4>1, <4>2, <4>3, <4>4
    <3>5. NoProcess.page_map = NoMap
      BY DEF NoMap
    <3> QED
      BY <3>1, <3>2, <3>3, <3>4, <3>5 DEF Bears, Unmade, r
  <2>9. CASE objects.ok
    <3>1. r = Outcome(objects.k, child, "none")
      BY <1>1, <1>12, <2>9
    <3>2. Len(objects.at) = Len(p.areas) + Len(p.tables) + 2
      BY <1>6, <2>4, <2>9 DEF Attempted
    <3>3. Made(objects.k, new.at, m.pm, child)
      <4>1. Mapping(new.k, p) /\ Fits(p, p.areas) /\ new.at \in Address
        BY <1>3, <1>4, <1>12
      <4>2. Owned(objects.k, m.pm) /\ Tree(m.pm) /\ ModesIn(m.pm) = ModesIn(p.page_map)
        BY <2>1, <2>6
      <4>3. objects.at \in Seq(Address)
        BY <2>5
      <4> QED
        BY ONLY <3>2, <4>1, <4>2, <4>3, ChildLemma DEF child
    <3> HIDE DEF child
    <3>4. View(objects.k, m.pm) = View(k, p.page_map)
      BY <1>4, <2>1, <2>5, ShrinksView
    <3> QED
      BY <1>12, <2>6, <2>7, <3>1, <3>3, <3>4 DEF Bears, Outcome, r, Made, Clean, Tainted
  <2> QED
    BY <2>8, <2>9
<1> QED
  BY <1>10, <1>11, <1>12

LEMMA ScaleLemma ==
    ASSUME NEW size \in Nat, size > 0, NEW i \in Nat, NEW j \in Nat, i < j
    PROVE  i * size < j * size
<1>1. /\ j - i \in Nat /\ j - i > 0 /\ (j - i) * size = j * size - i * size
      /\ i * size \in Nat /\ j * size \in Nat
  OBVIOUS
<1> DEFINE d == j - i
           s == d * size
<1>2. s \in Nat /\ s > 0
  <2>1. d \in Nat /\ d > 0
    BY <1>1
  <2> HIDE DEF d
  <2> QED
    BY <2>1
<1> HIDE DEF s
<1>3. s = j * size - i * size
  BY <1>1 DEF s
<1> QED
  BY <1>1, <1>2, <1>3

\* The frames that the boot loader gives to the kernel
LEMMA BootLemma ==
    ASSUME NEW n \in 1..(FrameCount - 1)
    PROVE  /\ BootMemory(MemoryMap(n)) \in Kmem
           /\ IsInjective(BootMemory(MemoryMap(n)).free_list)
<1> DEFINE size == PAGE_SIZE
           half == n \div 2
           low == [i \in 1..half |-> size + (i - 1) * size]
           high == [i \in 1..(n - half) |-> (half + 2) * size + (i - 1) * size]
           pools == [class \in 0..9 |-> << >>]
           memory == [page \in Frames |-> Junk]
           list == (<< >> \o low) \o high
           k == BootMemory(MemoryMap(n))
<1>1. n \in Nat /\ FrameCount \in Nat /\ n + 1 <= FrameCount /\ size \in Nat /\ size > 0
  BY KernelMemoryAssumption, PageSizeLemma
<1>2. half \in Nat /\ n - half \in Nat /\ half <= n
  BY <1>1
<1>3. k = [free_list |-> list, pools |-> pools, memory |-> memory]
  BY DEF BootMemory, MemoryMap, pmm_add_pages
<1> HIDE DEF half, k
<1>4. Frames = {i * size : i \in 1..FrameCount}
  BY DEF Frames
<1> HIDE DEF size
<1>5. \A i \in 1..half : low[i] = i * size /\ i * size \in Frames
  <2> TAKE i \in 1..half
  <2>1. i \in 1..FrameCount /\ i \in Nat
    BY <1>1, <1>2
  <2>2. size + (i - 1) * size = i * size
    BY <1>1, <2>1
  <2> QED
    BY <1>4, <2>1, <2>2
<1>6. \A i \in 1..(n - half) : /\ high[i] = (half + 1 + i) * size
                               /\ (half + 1 + i) * size \in Frames
  <2> TAKE i \in 1..(n - half)
  <2>1. half + 1 + i \in 1..FrameCount /\ i \in Nat
    BY <1>1, <1>2
  <2>2. (half + 2) * size + (i - 1) * size = (half + 1 + i) * size
    BY <1>1, <1>2, <2>1
  <2> QED
    BY <1>4, <2>1, <2>2
<1>7. low \in Seq(Frames) /\ high \in Seq(Frames)
  BY <1>2, <1>5, <1>6
<1>8. Len(low) = half /\ Len(high) = n - half
  BY <1>2
<1> HIDE DEF low, high
<1>9. \A i, j \in Nat : i # j => i * size # j * size
  <2> SUFFICES ASSUME NEW i \in Nat, NEW j \in Nat, i # j PROVE i * size # j * size
    OBVIOUS
  <2>1. i < j \/ j < i
    OBVIOUS
  <2>2. i * size \in Nat /\ j * size \in Nat
    BY <1>1
  <2>3. CASE i < j
    BY <1>1, <2>2, <2>3, ScaleLemma
  <2>4. CASE j < i
    BY <1>1, <2>2, <2>4, ScaleLemma
  <2> QED
    BY <2>1, <2>3, <2>4
<1>10. DOMAIN low = 1..half /\ DOMAIN high = 1..(n - half)
  BY <1>7, <1>8
<1>11. IsInjective(low) /\ IsInjective(high) /\ Range(low) \cap Range(high) = {}
  <2>1. \A i, j \in 1..half : low[i] = low[j] => i = j
    BY <1>2, <1>5, <1>9
  <2>2. ASSUME NEW i \in 1..(n - half), NEW j \in 1..(n - half), i # j
        PROVE  high[i] # high[j]
    <3>1. half + 1 + i \in Nat /\ half + 1 + j \in Nat /\ half + 1 + i # half + 1 + j
      BY <1>2, <2>2
    <3> QED
      BY <1>6, <1>9, <3>1
  <2>3. ASSUME NEW i \in 1..half, NEW j \in 1..(n - half)
        PROVE  low[i] # high[j]
    <3>1. i \in Nat /\ half + 1 + j \in Nat /\ i # half + 1 + j
      BY <1>2
    <3> QED
      BY <1>5, <1>6, <1>9, <3>1
  <2> QED
    BY <1>10, <2>1, <2>2, <2>3 DEF IsInjective, Range
<1>12. << >> \o low = low
  BY <1>7
<1>13. low \o high \in Seq(Frames) /\ IsInjective(low \o high)
  BY <1>7, <1>11, ConcatLemma
<1>14. list \in Seq(Frames) /\ IsInjective(list)
  BY <1>12, <1>13
<1>15. pools \in [0..9 -> Seq(Address)] /\ memory \in [Frames -> Contents]
  <2>1. << >> \in Seq(Address) /\ Junk \in Contents
    BY EmptyLemma DEF Contents
  <2> QED
    BY <2>1
<1> HIDE DEF list, pools, memory
<1>16. k \in Kmem /\ k.free_list = list
  BY <1>3, <1>14, <1>15 DEF Kmem
<1> QED
  BY <1>14, <1>16 DEF k

\* The first area of an empty address space fits.
LEMMA FirstHintLemma ==
    ASSUME NEW p, p.areas = << >>
    PROVE  RoomyHint(p, 0, 1)
<1> DEFINE list == <<ListBegin>> \o p.areas
<1>1. Len(list) = 1 /\ list[1] = ListBegin /\ DOMAIN list = {1}
  <2>1. list = <<ListBegin>>
    OBVIOUS
  <2> QED
    BY <2>1
<1>2. Hint(0) = DefaultHint
  BY DEF Hint
<1> HIDE DEF list
<1>3. NextBegin(list, 1) = ADDR_MAX /\ list[1].end = ADDR_MIN
  BY <1>1 DEF NextBegin, ListBegin
<1>4. Regions(list, DefaultHint, 1) \subseteq {1}
  <2>1. Headed(list)
    <3>1. << >> \in Seq(Area) /\ Ordered(<< >>)
      BY EmptyLemma DEF Ordered, Sorted
    <3> QED
      BY <3>1, HeadOnLemma DEF list
  <2>2. Regions(list, DefaultHint, 1) \subseteq 1..Len(list)
    BY <2>1, RegionsLemma
  <2> QED
    BY <1>1, <2>2
<1>5. clamp(DefaultHint, ADDR_MIN, ADDR_MAX) = DefaultHint
  BY DEF clamp
<1>6. \A x \in Places(list, DefaultHint, 1) : x.b = DefaultHint /\ x.r = 1
  BY <1>3, <1>4, <1>5 DEF Places
<1>7. DefaultHint + 1 <= ADDR_MAX
  OBVIOUS
<1> QED
  BY <1>2, <1>3, <1>6, <1>7 DEF RoomyHint, list

\* A process with a page of stack and nothing else
Newborn(k, p) ==
    /\ Mapping(k, p) /\ Fits(p, p.areas) /\ p.at # NULL
    /\ \E v \in Page : View(k, p.page_map) = [x \in {v} |-> Zeroes]

\* The pages of one new area
LEMMA StackLemma ==
    ASSUME NEW pm, NEW list, Match(list, ModesIn(pm)), NEW prot \in Prot, prot # {}, NEW b \in Nat,
           Changed(<< >>, b, b + 1, {prot_to_mode(prot)}, list)
    PROVE  Pages(pm) = {b} /\ b \in Page
<1>1. DOMAIN ModesIn(pm) = Pages(pm)
  BY DEF ModesIn
<1>2. "USER" \in prot_to_mode(prot)
  BY Zenon DEF prot_to_mode
<1>3. \A v \in Nat : \A m : ~Covers(<< >>, v, m)
  BY EmptyLemma DEF Covers
<1>4. \A v \in Nat : \A m : Covers(list, v, m) <=> v = b /\ m = prot_to_mode(prot)
  <2> TAKE v \in Nat
  <2> TAKE m
  <2>1. b <= v /\ v < b + 1 <=> v = b
    OBVIOUS
  <2> QED
    BY <1>3, <2>1 DEF Changed
<1>5. Page \subseteq Nat
  BY DEF Page
<1>6. \A v \in Page : v \in Pages(pm) <=> v = b
  BY <1>1, <1>2, <1>4, <1>5 DEF Match
<1>7. b \in Page
  <2>1. Covers(list, b, prot_to_mode(prot))
    BY <1>4
  <2>2. PICK i \in DOMAIN list : list[i].begin <= b /\ b < list[i].end
    BY <2>1 DEF Covers, Range
  <2>3. list[i] \in Area
    BY <2>2 DEF Changed, Ordered
  <2>4. list[i].end \in Nat /\ list[i].end <= ADDR_MAX
    BY <2>3 DEF Area
  <2> QED
    BY <2>2, <2>4 DEF Page
<1>8. Pages(pm) \subseteq Page
  BY <1>1 DEF Match
<1> QED
  BY <1>6, <1>7, <1>8

\* try_user_init, with the memory for it
LEMMA UserInitLemma ==
    ASSUME NEW k \in Kmem, IsInjective(k.free_list), NEW priority,
           UserInit(k, priority).panic = "none"
    PROVE  Newborn(UserInit(k, priority).k, UserInit(k, priority).p)
<1> DEFINE new == kalloc(k, "Process")
           space == mmu_create_address_space(new.k)
           p0 == [NoProcess EXCEPT !.at = new.at, !.page_map = space.pm]
           prot == {"READ", "WRITE"}
           stack == alloc_movable(space.k, p0, 0, 1, prot)
           p1 == [stack.p EXCEPT !.cloexec = TRUE]
           r == spawn_thread(stack.k, p1, priority)
<1>1. /\ UserInit(k, priority) = r /\ new.at # NULL /\ space.ok /\ stack.panic = "none"
      /\ stack.p.areas # << >>
  <2>1. Outcome(k, NoProcess, "oom").panic = "oom"
    BY DEF Outcome
  <2>2. \/ UserInit(k, priority) = Outcome(k, NoProcess, "oom")
        \/ /\ UserInit(k, priority) = r /\ new.at # NULL /\ space.ok /\ stack.panic = "none"
           /\ stack.p.areas # << >>
    BY DEF UserInit
  <2> HIDE DEF r
  <2> QED
    BY <2>1, <2>2
<1>2. "Process" \in Types /\ prot \in Prot /\ prot # {}
  BY DEF Types, Prot
<1>3. Shrinks(k, new.k) /\ new.at \in Address
  BY <1>1, <1>2, KallocLemma DEF Allocates
<1> HIDE DEF new
<1>4. new.k \in Kmem /\ IsInjective(new.k.free_list)
  BY <1>3 DEF Shrinks
<1>5. Creates(new.k, space)
  BY <1>4, CreateLemma
<1> HIDE DEF space
<1>6. Owned(space.k, space.pm) /\ Tree(space.pm) /\ Pages(space.pm) = {}
  BY <1>1, <1>5 DEF Creates
<1>7. /\ DOMAIN p0 = Fields /\ p0.at = new.at /\ p0.page_map = space.pm /\ p0.areas = << >>
      /\ p0.tables = << >>
  BY DEF NoProcess, Fields
<1> HIDE DEF p0, prot
<1>8. Mapping(space.k, p0)
  <2>1. << >> \in Seq(Address)
    BY EmptyLemma
  <2> QED
    BY <1>3, <1>6, <1>7, <2>1 DEF Mapping
<1>9. Fits(p0, p0.areas)
  <2>1. Ordered(<< >>) /\ \A v \in Nat : \A m : ~Covers(<< >>, v, m)
    BY EmptyLemma DEF Ordered, Sorted, Covers
  <2>2. DOMAIN ModesIn(space.pm) = {}
    BY <1>6 DEF ModesIn
  <2>3. Match(<< >>, ModesIn(space.pm))
    BY <2>1, <2>2 DEF Match, Page
  <2> QED
    BY <1>7, <2>1, <2>3 DEF Fits, UserFlags
<1>10. RoomyHint(p0, 0, 1)
  BY <1>7, FirstHintLemma
<1>11. Called(space.k, p0, {}, stack)
  BY <1>2, <1>8, <1>9, <1>10, MovableCalled
<1>12. Placed(p0, 1, prot, stack)
  BY <1>2, <1>8, <1>9, <1>10, MovableCalled
<1> HIDE DEF stack
<1>13. /\ Mapping(stack.k, stack.p) /\ Fits(stack.p, stack.p.areas) /\ stack.p.at = new.at
       /\ Effect(View(space.k, space.pm), View(stack.k, stack.p.page_map))
  BY <1>1, <1>7, <1>11 DEF Called
<1>14. PICK b \in Nat : Changed(<< >>, b, b + 1, {prot_to_mode(prot)}, stack.p.areas)
  BY <1>1, <1>7, <1>12 DEF Placed
<1>15. Match(stack.p.areas, ModesIn(stack.p.page_map))
  BY <1>13 DEF Fits
<1>16. Pages(stack.p.page_map) = {b} /\ b \in Page
  BY <1>2, <1>14, <1>15, StackLemma
<1>17. View(stack.k, stack.p.page_map) = [x \in {b} |-> Zeroes]
  <2> DEFINE view == View(stack.k, stack.p.page_map)
             none == View(space.k, space.pm)
  <2>1. DOMAIN view = {b} /\ DOMAIN none = {}
    BY <1>6, <1>16 DEF View
  <2>2. view = [x \in DOMAIN view |-> view[x]]
    BY DEF View
  <2> HIDE DEF view, none
  <2>3. view # none
    BY <2>1
  <2>4. PICK i \in Nat, j \in Nat : view \in {MapWithout(none, i, j), MapWith(none, i, j, Zeroes)}
    BY <1>13, <2>3 DEF Effect, view, none
  <2>5. view # MapWithout(none, i, j)
    BY <2>1 DEF MapWithout
  <2>6. view[b] = Zeroes
    BY <2>1, <2>4, <2>5 DEF MapWith
  <2> QED
    BY <2>1, <2>2, <2>6 DEF view
<1>18. /\ DOMAIN p1 = Fields /\ p1.at = stack.p.at /\ p1.page_map = stack.p.page_map
       /\ p1.areas = stack.p.areas /\ p1.tables = stack.p.tables
  BY <1>13 DEF Mapping, Fields
<1> HIDE DEF p1
<1>19. Mapping(stack.k, p1) /\ Fits(p1, p1.areas)
  BY <1>13, <1>18 DEF Mapping, Fits
<1>20. Called(stack.k, p1, {}, r)
  BY <1>19, SpawnCalled
<1>21. Shrinks(stack.k, r.k) /\ r.p.page_map = p1.page_map
  BY <1>19, SpawnCalled
<1> HIDE DEF r
<1>22. r.panic = "none"
  BY <1>1
<1>23. Mapping(r.k, r.p) /\ r.p.at = new.at /\ Fits(r.p, r.p.areas)
  BY <1>13, <1>18, <1>20, <1>22 DEF Called
<1>24. View(r.k, r.p.page_map) = View(stack.k, stack.p.page_map)
  BY <1>18, <1>19, <1>21, MappingShrinks
<1> QED
  BY <1>1, <1>16, <1>17, <1>23, <1>24 DEF Newborn

-----------------------------------------------------------------------------
(***************************************************************************)
(* The invariant                                                           *)
(***************************************************************************)
\* In k every free frame is listed once, every process has its page map in order, and
\* no frame in common with another.
InOrder(k) ==
    /\ proc = [q \in Procs |-> proc[q]]
    /\ k \in Kmem /\ IsInjective(k.free_list)
    /\ \A q \in Procs : IF q \in alive THEN Mapping(k, proc[q]) ELSE proc[q] = NoProcess
    /\ \A q, r \in Procs :
            q # r => FramesIn(proc[q].page_map) \cap FramesIn(proc[r].page_map) = {}

\* The frames are in order, but for page 0 in front of the list once a ~VM does not
\* return.
FramesSound == InOrder(Clean(kmem, status)) /\ Tainted(kmem, status)

AreasFit == status = "running" => \A q \in alive : Fits(proc[q], proc[q].areas)

StatusKnown == status \in {"running", "oom", "wild", "endless"}

Inv == FramesSound /\ AreasFit /\ StatusKnown

LEMMA RunningLemma ==
    ASSUME Inv, status = "running"
    PROVE  InOrder(kmem)
  BY DEF Inv, FramesSound, Clean

LEMMA OwnedLemma ==
    ASSUME NEW k, InOrder(k), NEW q \in Procs
    PROVE  Owned(k, proc[q].page_map)
  BY NoMapLemma DEF InOrder, Mapping, NoMap

\* What a call for one page map leaves of another
LEMMA OtherLemma ==
    ASSUME NEW k, NEW pm, NEW new, NEW newpm, Owned(new, newpm), Keeps(k, pm, new, newpm),
           NEW other, Owned(k, other), FramesIn(other) \cap FramesIn(pm) = {}
    PROVE  /\ Owned(new, other) /\ FramesIn(other) \cap FramesIn(newpm) = {}
           /\ Tree(other) \/ other = NoMap => View(new, other) = View(k, other)
<1>1. FramesIn(other) \cap Held(k, pm) = {}
  BY DEF Owned, Held
<1>2. FramesIn(other) \cap Held(new, newpm) = {}
  BY <1>1 DEF Keeps
<1>3. Owned(new, other) /\ FramesIn(other) \cap FramesIn(newpm) = {}
  BY <1>2 DEF Owned, Held
<1>4. ASSUME Tree(other) \/ other = NoMap, NEW v \in Pages(other)
      PROVE  new.memory[other[Node(0, v)].frame] = k.memory[other[Node(0, v)].frame]
  <2>1. Node(0, v) \in DOMAIN other
    BY <1>4, LeafLemma, NoMapLemma DEF Tree
  <2>2. other[Node(0, v)].frame \in Frames /\ other[Node(0, v)].frame \in FramesIn(other)
    BY <2>1 DEF Owned, TableEntry, FramesIn
  <2> QED
    BY <1>1, <2>2 DEF Keeps
<1> QED
  BY <1>3, <1>4 DEF View

\* What a step that commits r for process s has to leave
Settles(s, r) ==
    /\ Owned(Clean(r.k, r.panic), r.p.page_map) /\ Tainted(r.k, r.panic)
    /\ Keeps(kmem, proc[s].page_map, Clean(r.k, r.panic), r.p.page_map)
    /\ r.panic \in {"none", "oom", "wild", "endless"}
    /\ IF r.p.at # NULL THEN Mapping(Clean(r.k, r.panic), r.p) ELSE r.p = NoProcess
    /\ r.panic = "none" /\ r.p.at # NULL => Fits(r.p, r.p.areas)

LEMMA CommitLemma ==
    ASSUME Inv, status = "running", NEW s \in Procs, NEW r, Commit(s, r), Settles(s, r)
    PROVE  Inv' /\ \A q \in Procs : q # s => MemoryOf(q)' = MemoryOf(q)
<1> DEFINE k == Clean(r.k, r.panic)
<1>1. /\ kmem' = r.k /\ proc' = [proc EXCEPT ![s] = r.p]
      /\ status' = IF r.panic = "none" THEN "running" ELSE r.panic
  BY DEF Commit
<1>2. k \in Kmem /\ IsInjective(k.free_list)
  BY DEF Settles, Owned
<1>3. Clean(kmem', status') = k /\ Tainted(kmem', status')
  BY <1>1 DEF Settles, Clean, Tainted
<1>4. k.memory = kmem'.memory
  <2>1. CASE r.panic # "endless"
    BY <1>1, <2>1 DEF Clean
  <2>2. CASE r.panic = "endless"
    <3>1. r.k = PageZeroFreed(k)
      BY <2>2 DEF Settles, Tainted
    <3> HIDE DEF k
    <3> QED
      BY <1>1, <1>2, <3>1 DEF Kmem, PageZeroFreed
  <2> QED
    BY <2>1, <2>2
<1>5. /\ Owned(k, r.p.page_map) /\ Keeps(kmem, proc[s].page_map, k, r.p.page_map)
       /\ IF r.p.at # NULL THEN Mapping(k, r.p) ELSE r.p = NoProcess
  BY DEF Settles
<1> HIDE DEF k
<1>6. /\ proc = [q \in Procs |-> proc[q]] /\ IsInjective(kmem.free_list)
      /\ \A q \in Procs : IF q \in alive THEN Mapping(kmem, proc[q]) ELSE proc[q] = NoProcess
      /\ \A q, t \in Procs :
            q # t => FramesIn(proc[q].page_map) \cap FramesIn(proc[t].page_map) = {}
      /\ \A q \in alive : Fits(proc[q], proc[q].areas)
      /\ alive \subseteq Procs /\ InOrder(kmem)
  BY RunningLemma DEF Inv, InOrder, AreasFit, alive
<1>7. /\ proc'[s] = r.p /\ proc' = [q \in Procs |-> proc'[q]]
      /\ \A q \in Procs : q # s => proc'[q] = proc[q]
  BY <1>1, <1>6
<1>8. \A q \in Procs : q \in alive' <=> proc'[q].at # NULL
  BY DEF alive
<1>9. \A q \in Procs : q # s => (q \in alive' <=> q \in alive)
  BY <1>7, <1>8 DEF alive
<1>10. ASSUME NEW q \in Procs, q # s
      PROVE  /\ Owned(k, proc[q].page_map)
             /\ FramesIn(proc[q].page_map) \cap FramesIn(r.p.page_map) = {}
             /\ View(k, proc[q].page_map) = View(kmem, proc[q].page_map)
  <2>1. Owned(kmem, proc[q].page_map)
    BY <1>6, OwnedLemma
  <2>2. Tree(proc[q].page_map) \/ proc[q].page_map = NoMap
    BY <1>6 DEF Mapping, NoMap
  <2>3. FramesIn(proc[q].page_map) \cap FramesIn(proc[s].page_map) = {}
    BY <1>6, <1>10
  <2>4. Owned(k, r.p.page_map) /\ Keeps(kmem, proc[s].page_map, k, r.p.page_map)
    BY <1>5
  <2>5. /\ Owned(k, proc[q].page_map)
        /\ FramesIn(proc[q].page_map) \cap FramesIn(r.p.page_map) = {}
    BY ONLY <2>1, <2>3, <2>4, OtherLemma
  <2>6. View(k, proc[q].page_map) = View(kmem, proc[q].page_map)
    BY ONLY <2>1, <2>2, <2>3, <2>4, OtherLemma
  <2> QED
    BY <2>5, <2>6
<1>11. \A q \in Procs : IF q \in alive' THEN Mapping(k, proc'[q]) ELSE proc'[q] = NoProcess
  <2> SUFFICES ASSUME NEW q \in Procs
               PROVE  IF q \in alive' THEN Mapping(k, proc'[q]) ELSE proc'[q] = NoProcess
    OBVIOUS
  <2>1. CASE q = s
    BY <1>7, <1>8, <1>5, <2>1
  <2>2. CASE q # s
    <3>1. CASE q \in alive
      <4>1. Mapping(kmem, proc[q]) /\ Owned(k, proc[q].page_map)
        BY <1>6, <1>10, <2>2, <3>1
      <4> QED
        BY <1>7, <1>9, <2>2, <3>1, <4>1 DEF Mapping
    <3>2. CASE q \notin alive
      BY <1>6, <1>7, <1>9, <2>2, <3>2
    <3> QED
      BY <3>1, <3>2
  <2> QED
    BY <2>1, <2>2
<1>12. ASSUME NEW q \in Procs, NEW t \in Procs, q # t
      PROVE  FramesIn(proc'[q].page_map) \cap FramesIn(proc'[t].page_map) = {}
  BY <1>6, <1>7, <1>10, <1>12
<1>13. FramesSound'
  BY <1>7, <1>11, <1>12, <1>2, <1>3 DEF FramesSound, InOrder
<1>14. AreasFit'
  <2> SUFFICES ASSUME status' = "running", NEW q \in alive'
               PROVE  Fits(proc'[q], proc'[q].areas)
    BY DEF AreasFit
  <2>1. r.panic = "none"
    BY <1>1 DEF Settles
  <2>2. q \in Procs /\ proc'[q].at # NULL
    BY <1>8 DEF alive
  <2> QED
    BY <1>6, <1>7, <1>9, <2>1, <2>2 DEF Settles
<1>15. StatusKnown'
  BY <1>1 DEF StatusKnown, Settles
<1>16. \A q \in Procs : q # s => MemoryOf(q)' = MemoryOf(q)
  BY <1>7, <1>10, <1>4 DEF MemoryOf, View
<1> QED
  BY <1>13, <1>14, <1>15, <1>16 DEF Inv

\* A call of a process that is alive, and the birth of one that is not
LEMMA CalledSettles ==
    ASSUME Inv, NEW q \in alive, NEW R, NEW r, Called(kmem, proc[q], R, r)
    PROVE  Settles(q, r)
<1>1. proc[q].at # NULL
  BY DEF alive
<1> QED
  BY <1>1 DEF Called, Settles, Mapping, Clean, Tainted

LEMMA BearsSettles ==
    ASSUME Inv, status = "running", NEW q \in alive, NEW s \in Procs, s \notin alive, NEW r,
           Bears(kmem, proc[q], r)
    PROVE  Settles(s, r)
<1>1. proc[s].page_map = NoMap /\ NoProcess.at = NULL
  BY RunningLemma DEF InOrder, NoMap, NoProcess
<1> QED
  BY <1>1 DEF Bears, Settles, Clean

LEMMA InitLemma == Init => Inv
<1> SUFFICES ASSUME Init PROVE Inv
  OBVIOUS
<1>1. budget.frames \in 1..(FrameCount - 1)
  BY ProcessAssumption DEF Init
<1> DEFINE n == budget.frames
           k == BootMemory(MemoryMap(n))
<1>2. k \in Kmem /\ IsInjective(k.free_list)
  BY <1>1, BootLemma
<1> HIDE DEF k
<1>3. PICK priority \in budget.rng :
        /\ UserInit(k, priority).panic = "none"
        /\ kmem = UserInit(k, priority).k
        /\ proc = [q \in Procs |-> IF q = First THEN UserInit(k, priority).p ELSE NoProcess]
  BY DEF Init, k
<1>4. Newborn(kmem, UserInit(k, priority).p)
  BY <1>2, <1>3, UserInitLemma
<1> DEFINE p == UserInit(k, priority).p
<1>5. Newborn(kmem, p) /\ proc = [q \in Procs |-> IF q = First THEN p ELSE NoProcess]
  BY <1>3, <1>4
<1> HIDE DEF p
<1>6. NoProcess.at = NULL /\ FramesIn(NoProcess.page_map) = {} /\ First \in Procs
  BY NoMapLemma, ProcessAssumption DEF NoProcess, NoMap
<1>7. \A q \in Procs : proc[q] = IF q = First THEN p ELSE NoProcess
  BY <1>5
<1>8. alive = {First}
  BY <1>5, <1>6, <1>7 DEF alive, Newborn
<1>9. InOrder(kmem)
  BY <1>5, <1>6, <1>7, <1>8 DEF InOrder, Newborn, Mapping, Owned
<1>10. FramesSound
  BY <1>9 DEF Init, FramesSound, Clean, Tainted
<1>11. AreasFit /\ StatusKnown
  BY <1>5, <1>6, <1>7, <1>8 DEF AreasFit, StatusKnown, Newborn, Init
<1> QED
  BY <1>10, <1>11 DEF Inv

\* A system call of process q that can change the pages of R
Change(q) ==
    /\ status = "running" /\ q \in alive /\ cr3 = q /\ cr3' = q
    /\ \E R, r : /\ Commit(q, r) /\ Called(kmem, proc[q], R, r)
                 /\ \/ tlb' = NoTranslation
                    \/ tlb' = tlb /\ (OverwriteCached \/ DOMAIN tlb \cap R = {})

\* fork
Birth(q, s) ==
    /\ status = "running" /\ q \in alive /\ cr3 = q /\ s \in Procs /\ s \notin alive
    /\ UNCHANGED <<cr3, tlb>>
    /\ \E r : Commit(s, r) /\ Bears(kmem, proc[q], r)

LEMMA AliveLemma ==
    ASSUME Inv, status = "running", NEW q \in alive
    PROVE  /\ q \in Procs /\ Mapping(kmem, proc[q]) /\ Fits(proc[q], proc[q].areas)
           /\ kmem \in Kmem
  BY RunningLemma DEF Inv, InOrder, AreasFit, alive

LEMMA VirtualMapStep ==
    ASSUME Inv, NEW q \in Procs, virtual_map(q)
    PROVE  Change(q)
<1>1. status = "running" /\ q \in alive /\ cr3 = q /\ cr3' = q /\ tlb' = tlb
  BY DEF virtual_map, Runs
<1>2. Mapping(kmem, proc[q]) /\ Fits(proc[q], proc[q].areas)
  BY <1>1, AliveLemma
<1>3. PICK range \in Ranges, prot \in Prots :
        \/ Commit(q, alloc_fixed_noreplace(kmem, proc[q], range[1], range[2], prot))
        \/ /\ ~Splits(proc[q].areas, range[1], range[2])
           /\ OverwriteCached \/ DOMAIN tlb \cap (range[1]..(range[2] - 1)) = {}
           /\ Commit(q, alloc_fixed_overwrite(kmem, proc[q], range[1], range[2], prot))
        \/ /\ \A place \in Places(<<ListBegin>> \o proc[q].areas, Hint(range[1]),
                                  range[2] - range[1]) :
                place.b + (range[2] - range[1])
                    <= NextBegin(<<ListBegin>> \o proc[q].areas, place.r)
           /\ Commit(q, alloc_movable(kmem, proc[q], range[1], range[2] - range[1], prot))
  BY DEF virtual_map
<1> DEFINE b == range[1]
           e == range[2]
           n == e - b
<1>4. b \in Nat /\ e \in Nat /\ b < e /\ n \in Nat /\ n > 0 /\ prot \in Prot
  BY ProcessAssumption
<1>5. CASE Commit(q, alloc_fixed_noreplace(kmem, proc[q], b, e, prot))
  <2>1. Called(kmem, proc[q], {}, alloc_fixed_noreplace(kmem, proc[q], b, e, prot))
    BY <1>2, <1>4, NoreplaceCalled
  <2>2. DOMAIN tlb \cap {} = {}
    OBVIOUS
  <2> QED
    BY <1>1, <1>5, <2>1, <2>2 DEF Change
<1>6. CASE /\ ~Splits(proc[q].areas, b, e)
           /\ OverwriteCached \/ DOMAIN tlb \cap (b..(e - 1)) = {}
           /\ Commit(q, alloc_fixed_overwrite(kmem, proc[q], b, e, prot))
  <2>1. Called(kmem, proc[q], b..(e - 1), alloc_fixed_overwrite(kmem, proc[q], b, e, prot))
    BY <1>2, <1>4, <1>6, OverwriteCalled
  <2> QED
    BY <1>1, <1>6, <2>1 DEF Change
<1>7. CASE /\ \A place \in Places(<<ListBegin>> \o proc[q].areas, Hint(b), n) :
                place.b + n <= NextBegin(<<ListBegin>> \o proc[q].areas, place.r)
           /\ Commit(q, alloc_movable(kmem, proc[q], b, n, prot))
  <2>1. RoomyHint(proc[q], b, n)
    BY <1>7 DEF RoomyHint
  <2> HIDE DEF b, n
  <2>2. Called(kmem, proc[q], {}, alloc_movable(kmem, proc[q], b, n, prot))
    BY <1>2, <1>4, <2>1, MovableCalled
  <2>3. DOMAIN tlb \cap {} = {}
    OBVIOUS
  <2> QED
    BY <1>1, <1>7, <2>2, <2>3 DEF Change
<1> QED
  BY <1>3, <1>5, <1>6, <1>7

LEMMA VirtualUnmapStep ==
    ASSUME Inv, NEW q \in Procs, virtual_unmap(q)
    PROVE  Change(q)
<1>1. status = "running" /\ q \in alive /\ cr3 = q /\ cr3' = q /\ tlb' = NoTranslation
  BY DEF virtual_unmap, Runs, Reload
<1>2. Mapping(kmem, proc[q]) /\ Fits(proc[q], proc[q].areas)
  BY <1>1, AliveLemma
<1>3. PICK range \in Ranges : Commit(q, free(kmem, proc[q], range[1], range[2]))
  BY DEF virtual_unmap
<1>4. range[1] \in Nat /\ range[2] \in Nat /\ range[1] < range[2]
  BY ProcessAssumption
<1>5. Called(kmem, proc[q], range[1]..(range[2] - 1), free(kmem, proc[q], range[1], range[2]))
  BY <1>2, <1>4, FreeCalled
<1> QED
  BY <1>1, <1>3, <1>5 DEF Change

LEMMA ThreadSpawnStep ==
    ASSUME Inv, NEW q \in Procs, thread_spawn(q)
    PROVE  Change(q)
<1>1. status = "running" /\ q \in alive /\ cr3 = q /\ cr3' = q /\ tlb' = tlb
  BY DEF thread_spawn, Runs
<1>2. Mapping(kmem, proc[q]) /\ Fits(proc[q], proc[q].areas)
  BY <1>1, AliveLemma
<1>3. PICK priority \in budget.rng : Commit(q, spawn_thread(kmem, proc[q], priority))
  BY DEF thread_spawn
<1>4. Called(kmem, proc[q], {}, spawn_thread(kmem, proc[q], priority))
  BY <1>2, SpawnCalled
<1>5. DOMAIN tlb \cap {} = {}
  OBVIOUS
<1> QED
  BY <1>1, <1>3, <1>4, <1>5 DEF Change

LEMMA DescriptorsGrowStep ==
    ASSUME Inv, NEW q \in Procs, descriptors_grow(q)
    PROVE  Change(q)
<1> DEFINE p == proc[q]
           new == kalloc(kmem, "table_l1l0")
           np == [p EXCEPT !.tables = Append(p.tables, new.at)]
           r == IF new.at = NULL THEN Outcome(kmem, p, "none") ELSE Outcome(new.k, np, "none")
<1>1. status = "running" /\ q \in alive /\ cr3 = q /\ cr3' = q /\ tlb' = tlb /\ Commit(q, r)
  BY DEF descriptors_grow, Runs
<1>2. Mapping(kmem, p) /\ Fits(p, p.areas) /\ kmem \in Kmem /\ "table_l1l0" \in Types
  BY <1>1, AliveLemma DEF Types
<1> HIDE DEF p
<1>3. Shrinks(kmem, new.k) /\ (new.at # NULL => new.at \in Address)
  BY <1>2, KallocLemma DEF Allocates
<1>4. Called(kmem, p, {}, r)
  <2>1. CASE new.at = NULL
    <3>1. Shrinks(kmem, kmem) /\ r = Outcome(kmem, p, "none")
      BY <1>2, <2>1, ShrinksSelf
    <3> HIDE DEF r, new
    <3> QED
      BY <1>2, <3>1, UnchangedCalled
  <2>2. CASE new.at # NULL
    <3>1. r = Outcome(new.k, np, "none")
      BY <2>2
    <3> HIDE DEF new, r
    <3>2. Append(p.tables, new.at) \in Seq(Address)
      BY <1>2, <1>3, <2>2 DEF Mapping
    <3>3. /\ DOMAIN np = Fields /\ np.at = p.at /\ np.page_map = p.page_map
          /\ np.areas = p.areas /\ np.tables \in Seq(Address)
      BY <1>2, <3>2 DEF Mapping, Fields
    <3> HIDE DEF np
    <3> QED
      BY <1>2, <1>3, <3>1, <3>3, SameMemoryCalled
  <2> QED
    BY <2>1, <2>2
<1> HIDE DEF r
<1>5. DOMAIN tlb \cap {} = {}
  OBVIOUS
<1> QED
  BY <1>1, <1>4, <1>5 DEF Change, p

LEMMA ExecFlushStep ==
    ASSUME Inv, NEW q \in Procs, exec_flush(q)
    PROVE  Change(q)
<1> DEFINE p == proc[q]
           np == [p EXCEPT !.cloexec = FALSE]
           r == Outcome(kmem, np, "none")
<1>1. /\ status = "running" /\ q \in alive /\ cr3 = q /\ cr3' = q /\ tlb' = tlb
      /\ kmem' = kmem /\ proc' = [proc EXCEPT ![q] = np] /\ status' = "running"
  BY DEF exec_flush, Runs
<1>2. Mapping(kmem, p) /\ Fits(p, p.areas) /\ kmem \in Kmem
  BY <1>1, AliveLemma
<1>3. Commit(q, r)
  BY <1>1 DEF Commit, Outcome
<1> HIDE DEF p
<1>4. /\ DOMAIN np = Fields /\ np.at = p.at /\ np.page_map = p.page_map
      /\ np.areas = p.areas /\ np.tables = p.tables /\ p.tables \in Seq(Address)
  BY <1>2 DEF Mapping, Fields
<1> HIDE DEF np
<1>5. Called(kmem, p, {}, r)
  BY <1>2, <1>4, ShrinksSelf, SameMemoryCalled
<1> HIDE DEF r
<1>6. DOMAIN tlb \cap {} = {}
  OBVIOUS
<1> QED
  BY <1>1, <1>3, <1>5, <1>6 DEF Change, p

LEMMA ForkStep ==
    ASSUME Inv, NEW q \in Procs, NEW s \in Procs, fork(q, s)
    PROVE  Birth(q, s)
<1>1. /\ status = "running" /\ q \in alive /\ cr3 = q /\ UNCHANGED <<cr3, tlb>>
      /\ s \notin alive
  BY DEF fork, Runs
<1>2. Mapping(kmem, proc[q]) /\ Fits(proc[q], proc[q].areas)
  BY <1>1, AliveLemma
<1>3. PICK priority \in budget.rng, current \in DOMAIN proc[q].context, temporary \in BOOLEAN :
            Commit(s, Forked(kmem, proc[q], current, priority, temporary))
  BY DEF fork
<1>4. Bears(kmem, proc[q], Forked(kmem, proc[q], current, priority, temporary))
  BY <1>2, ForkedLemma
<1> QED
  BY <1>1, <1>3, <1>4 DEF Birth

\* The walk of the tables finds the frame of a page.
LEMMA VirtToPhysLemma ==
    ASSUME NEW k, NEW pm, Owned(k, pm), Tree(pm), NEW v \in Page
    PROVE  /\ v \in Pages(pm) =>
                /\ virt_to_phys(pm, v) = pm[Node(0, v)].frame /\ Node(0, v) \in DOMAIN pm
                /\ pm[Node(0, v)].frame \in Frames /\ pm[Node(0, v)].frame # NULL
           /\ v \notin Pages(pm) => virt_to_phys(pm, v) = NULL
<1>1. 0 \in 0..PML4
  BY DEF PML4
<1>2. v \in Pages(pm) <=> Node(0, v) \in DOMAIN pm
  BY LeafLemma DEF Tree
<1>3. v \in Pages(pm) => \A d \in 0..PML4 : Node(d, v) \in DOMAIN pm
  BY LeafLemma DEF Tree
<1>4. v \in Pages(pm) => pm[Node(0, v)].frame \in Frames
  BY <1>2 DEF Owned, TableEntry
<1> QED
  BY <1>1, <1>2, <1>3, <1>4, FrameLemma DEF virt_to_phys

\* A write to one frame leaves the frames and the areas in order.
LEMMA WrittenLemma ==
    ASSUME Inv, status = "running", NEW frame, NEW content \in Contents,
           UNCHANGED <<proc, status>>, kmem' = [kmem EXCEPT !.memory[frame] = content]
    PROVE  Inv'
<1>1. kmem \in Kmem /\ IsInjective(kmem.free_list) /\ InOrder(kmem)
  BY RunningLemma DEF InOrder
<1>2. kmem' \in Kmem /\ kmem'.free_list = kmem.free_list
  BY <1>1 DEF Kmem
<1>3. \A p : Mapping(kmem, p) => Mapping(kmem', p)
  BY <1>1, <1>2 DEF Mapping, Owned
<1>4. alive' = alive
  BY DEF alive
<1>5. FramesSound'
  BY <1>1, <1>2, <1>3, <1>4 DEF InOrder, FramesSound, Clean, Tainted
<1>6. AreasFit' /\ StatusKnown'
  BY <1>4 DEF Inv, AreasFit, StatusKnown
<1> QED
  BY <1>5, <1>6 DEF Inv

\* What a program can send
LEMMA SentLemma ==
    ASSUME Inv, status = "running", NEW s \in alive, NEW w \in Page
    PROVE  /\ Holds(virt_to_phys(proc[s].page_map, w)) \in Contents
           /\ Holds(virt_to_phys(proc[s].page_map, w)) =
                IF w \in Pages(proc[s].page_map)
                THEN View(kmem, proc[s].page_map)[w] ELSE PageZero
<1>1. kmem \in Kmem /\ Owned(kmem, proc[s].page_map) /\ Tree(proc[s].page_map)
  BY AliveLemma DEF Mapping
<1>2. CASE w \in Pages(proc[s].page_map)
  <2> DEFINE f == proc[s].page_map[Node(0, w)].frame
  <2>1. virt_to_phys(proc[s].page_map, w) = f /\ f \in Frames /\ f # NULL
    BY <1>1, <1>2, VirtToPhysLemma
  <2>2. View(kmem, proc[s].page_map)[w] = kmem.memory[f]
    BY <1>2 DEF View
  <2>3. kmem.memory[f] \in Contents
    BY <1>1, <2>1 DEF Kmem
  <2> QED
    BY <1>2, <2>1, <2>2, <2>3 DEF Holds
<1>3. CASE w \notin Pages(proc[s].page_map)
  <2>1. virt_to_phys(proc[s].page_map, w) = NULL
    BY <1>1, <1>3, VirtToPhysLemma
  <2> QED
    BY <1>3, <2>1 DEF Holds, Contents
<1> QED
  BY <1>2, <1>3

LEMMA StoreStep ==
    ASSUME Inv, NEW q \in Procs, NEW v \in Touched, store(q, v)
    PROVE  Inv'
<1>1. PICK frame : kmem' = [kmem EXCEPT !.memory[frame] = <<q, v>>]
  BY DEF store, WriteTo
<1>2. <<q, v>> \in Contents /\ UNCHANGED <<proc, status>> /\ status = "running"
  BY DEF Contents, store, Runs
<1> QED
  BY <1>1, <1>2, WrittenLemma

LEMMA MemcpyStep ==
    ASSUME Inv, NEW q \in Procs, NEW v \in Touched, NEW s \in Procs, NEW w \in Touched,
           memcpy_user_user(q, v, s, w)
    PROVE  Inv'
<1> DEFINE content == Holds(virt_to_phys(proc[s].page_map, w))
<1>1. UNCHANGED <<proc, status>> /\ status = "running" /\ s \in alive /\ w \in Page
  BY ProcessAssumption DEF memcpy_user_user, Page
<1>2. content \in Contents
  BY <1>1, SentLemma
<1>3. \/ \E frame : kmem' = [kmem EXCEPT !.memory[frame] = content]
      \/ kmem' = kmem
  BY DEF memcpy_user_user, WriteTo
<1> HIDE DEF content
<1>4. CASE \E frame : kmem' = [kmem EXCEPT !.memory[frame] = content]
  BY <1>1, <1>2, <1>4, WrittenLemma
<1>5. CASE kmem' = kmem
  BY <1>1, <1>5 DEF Inv, FramesSound, InOrder, AreasFit, StatusKnown, alive
<1> QED
  BY <1>3, <1>4, <1>5

\* One step of the processes
LEMMA StepLemma == Inv /\ [Next]_vars => Inv'
<1> SUFFICES ASSUME Inv, [Next]_vars PROVE Inv'
  OBVIOUS
<1>1. ASSUME NEW q \in Procs, Change(q) PROVE Inv'
  <2>1. PICK R, r : Commit(q, r) /\ Called(kmem, proc[q], R, r)
    BY <1>1 DEF Change
  <2>2. q \in alive /\ status = "running"
    BY <1>1 DEF Change
  <2>3. Settles(q, r)
    BY <2>1, <2>2, CalledSettles
  <2> QED
    BY <2>1, <2>2, <2>3, CommitLemma
<1>2. ASSUME NEW q \in Procs, NEW s \in Procs, Birth(q, s) PROVE Inv'
  <2>1. PICK r : Commit(s, r) /\ Bears(kmem, proc[q], r)
    BY <1>2 DEF Birth
  <2>2. q \in alive /\ status = "running" /\ s \notin alive
    BY <1>2 DEF Birth
  <2>3. Settles(s, r)
    BY <2>1, <2>2, BearsSettles
  <2> QED
    BY <2>1, <2>2, <2>3, CommitLemma
<1>3. ASSUME NEW q \in Procs, virtual_map(q) PROVE Inv'
  BY <1>1, <1>3, VirtualMapStep
<1>4. ASSUME NEW q \in Procs, virtual_unmap(q) PROVE Inv'
  BY <1>1, <1>4, VirtualUnmapStep
<1>5. ASSUME NEW q \in Procs, thread_spawn(q) PROVE Inv'
  BY <1>1, <1>5, ThreadSpawnStep
<1>6. ASSUME NEW q \in Procs, NEW s \in Procs, fork(q, s) PROVE Inv'
  BY <1>2, <1>6, ForkStep
<1>7. ASSUME NEW q \in Procs, descriptors_grow(q) PROVE Inv'
  BY <1>1, <1>7, DescriptorsGrowStep
<1>8. ASSUME NEW q \in Procs, exec_flush(q) PROVE Inv'
  BY <1>1, <1>8, ExecFlushStep
<1>9. ASSUME UNCHANGED <<kmem, proc, status>> PROVE Inv'
  BY <1>9 DEF Inv, FramesSound, InOrder, AreasFit, StatusKnown, alive
<1>10. ASSUME NEW q \in Procs, switch(q) PROVE Inv'
  BY <1>9, <1>10 DEF switch
<1>11. ASSUME NEW q \in Procs, NEW v \in Touched, store(q, v) PROVE Inv'
  BY <1>11, StoreStep
<1>12. ASSUME NEW q \in Procs, NEW v \in Touched, NEW s \in Procs, NEW w \in Touched,
              memcpy_user_user(q, v, s, w)
       PROVE  Inv'
  BY <1>12, MemcpyStep
<1>13. CASE UNCHANGED vars
  BY <1>9, <1>13 DEF vars
<1>14. CASE Next
  BY <1>3, <1>4, <1>5, <1>6, <1>7, <1>8, <1>10, <1>11, <1>12, <1>14 DEF Next
<1> QED
  BY <1>13, <1>14

\* The kernel keeps frames, page maps and areas in order after any calls, also
\* those that fail half-way for want of a frame and undo what they did: every free frame
\* is listed once and belongs to no page map, those of two processes share none, and
\* as long as the kernel runs the page maps match the areas. The exception is the
\* destructor ~VM that does not return, which puts page 0 in front of the list.
THEOREM ProcessInvariant == Spec => []Inv
  BY InitLemma, StepLemma, PTL DEF Spec

\* One step that stops the kernel
LEMMA StopLemma ==
    ASSUME Inv, [Next]_vars
    PROVE  [ \/ status' = "running"
             \/ status' = "oom" /\ kmem'.free_list = << >>
             \/ /\ status' \in {"wild", "endless"}
                /\ \E q \in alive : cr3 = q /\ Len(kmem.free_list) < ForkFrames(q) ]_vars
<1> DEFINE Stop == \/ status' = "running"
                   \/ status' = "oom" /\ kmem'.free_list = << >>
                   \/ /\ status' \in {"wild", "endless"}
                      /\ \E q \in alive : cr3 = q /\ Len(kmem.free_list) < ForkFrames(q)
<1>1. ASSUME NEW q \in Procs, Change(q) PROVE Stop
  <2>1. PICK R, r : Commit(q, r) /\ Called(kmem, proc[q], R, r)
    BY <1>1 DEF Change
  <2>2. r.panic \in {"none", "oom"} /\ (r.panic = "oom" => r.k.free_list = << >>)
    BY <2>1 DEF Called
  <2>3. kmem' = r.k /\ status' = IF r.panic = "none" THEN "running" ELSE r.panic
    BY <2>1 DEF Commit
  <2> QED
    BY <2>2, <2>3
<1>2. ASSUME NEW q \in Procs, NEW s \in Procs, Birth(q, s) PROVE Stop
  <2>1. PICK r : Commit(s, r) /\ Bears(kmem, proc[q], r)
    BY <1>2 DEF Birth
  <2>2. /\ r.panic \in {"none", "oom", "wild", "endless"}
        /\ r.panic = "oom" => r.k.free_list = << >>
        /\ r.panic \in {"wild", "endless"} => Len(kmem.free_list) < Wanted(proc[q])
    BY <2>1 DEF Bears
  <2>3. kmem' = r.k /\ status' = IF r.panic = "none" THEN "running" ELSE r.panic
    BY <2>1 DEF Commit
  <2>4. q \in alive /\ cr3 = q /\ Wanted(proc[q]) = ForkFrames(q)
    BY <1>2 DEF Birth, Wanted, ForkFrames
  <2> QED
    BY <2>2, <2>3, <2>4
<1>3. ASSUME NEW q \in Procs,
             \/ virtual_map(q) \/ virtual_unmap(q) \/ thread_spawn(q)
             \/ descriptors_grow(q) \/ exec_flush(q)
      PROVE  Stop
  <2>1. Change(q)
    BY <1>3, VirtualMapStep, VirtualUnmapStep, ThreadSpawnStep, DescriptorsGrowStep, ExecFlushStep
  <2> QED
    BY <1>1, <2>1
<1>4. ASSUME NEW q \in Procs, NEW s \in Procs, fork(q, s) PROVE Stop
  BY <1>2, <1>4, ForkStep
<1>5. ASSUME NEW q \in Procs, switch(q) PROVE Stop
  BY <1>5 DEF switch
<1>6. ASSUME NEW q \in Procs, NEW v \in Touched, store(q, v) PROVE Stop
  BY <1>6 DEF store, Runs
<1>7. ASSUME NEW q \in Procs, NEW v \in Touched, NEW s \in Procs, NEW w \in Touched,
             memcpy_user_user(q, v, s, w)
      PROVE  Stop
  BY <1>7 DEF memcpy_user_user
<1> HIDE DEF Stop
<1>8. Next => Stop
  BY <1>3, <1>4, <1>5, <1>6, <1>7 DEF Next
<1> QED
  BY <1>8 DEF Stop

\* The kernel stops only for want of frames: in mmu_alloc_page when none is left, or in
\* the destructors of a fork that had fewer than its parent's tables, pages and objects.
\* The asserts of mmu.c hold: no page is assigned that is already there.
THEOREM ProcessStops == Spec => StopsForMemoryOnly
  BY ProcessInvariant, StopLemma, PTL DEF Spec, StopsForMemoryOnly

\* No page is in two areas.
LEMMA CoversOnceLemma ==
    ASSUME NEW list, Ordered(list), NEW v \in Nat, NEW m, NEW n, Covers(list, v, m),
           Covers(list, v, n)
    PROVE  m = n
<1>1. PICK i \in DOMAIN list : list[i].begin <= v /\ v < list[i].end /\ list[i].flags = m
  BY DEF Covers, Range
<1>2. PICK j \in DOMAIN list : list[j].begin <= v /\ v < list[j].end /\ list[j].flags = n
  BY DEF Covers, Range
<1>3. /\ list[i].begin \in Nat /\ list[i].end \in Nat /\ list[j].begin \in Nat
      /\ list[j].end \in Nat /\ i \in Nat /\ j \in Nat
  <2>1. DOMAIN list = 1..Len(list) /\ list[i] \in Area /\ list[j] \in Area /\ Len(list) \in Nat
    BY DEF Ordered
  <2>2. \A a \in Area : a.begin \in Nat /\ a.end \in Nat
    BY DEF Area, Page
  <2> QED
    BY <2>1, <2>2
<1>4. ~(i < j) /\ ~(j < i)
  BY <1>1, <1>2, <1>3 DEF Ordered, Sorted
<1> QED
  BY <1>1, <1>2, <1>3, <1>4

LEMMA TablesLemma == Inv => TablesMatchAreas
<1> SUFFICES ASSUME Inv, status = "running", NEW q \in alive
             PROVE  LET p == proc[q]
                        held == [v \in 0..(ADDR_MAX - 1) |-> {i \in DOMAIN p.areas :
                                    p.areas[i].begin <= v /\ v < p.areas[i].end}]
                    IN  /\ DOMAIN p.page_map =
                                {Top} \cup {Node(d, v) : d \in 0..PML4, v \in Pages(p.page_map)}
                        /\ \A v \in DOMAIN held :
                            {p.page_map[n].flags : n \in DOMAIN p.page_map \cap {Node(0, v)}}
                                = {p.areas[i].flags :
                                        i \in {i \in held[v] : p.areas[i].flags # {}}}
  BY DEF TablesMatchAreas
<1> DEFINE p == proc[q]
           pm == p.page_map
           list == p.areas
           held(v) == {i \in DOMAIN list : list[i].begin <= v /\ v < list[i].end}
<1>1. Mapping(kmem, p) /\ Fits(p, p.areas)
  BY AliveLemma
<1>2. DOMAIN pm = {Top} \cup {Node(d, v) : d \in 0..PML4, v \in Pages(pm)}
  BY <1>1 DEF Mapping, Tree, NodesOf
<1>3. /\ UserFlags(list) /\ DOMAIN ModesIn(pm) \subseteq Page
      /\ \A v \in Page : v \in DOMAIN ModesIn(pm) <=> \E m : Covers(list, v, m) /\ "USER" \in m
      /\ \A v \in DOMAIN ModesIn(pm) : Covers(list, v, ModesIn(pm)[v])
      /\ Ordered(list)
  BY <1>1 DEF Fits, Match
<1>4. /\ DOMAIN ModesIn(pm) = Pages(pm)
      /\ \A v \in Pages(pm) : ModesIn(pm)[v] = pm[Node(0, v)].flags
  BY DEF ModesIn
<1>5. \A v \in Page : v \in Pages(pm) <=> Node(0, v) \in DOMAIN pm
  BY <1>1, LeafLemma DEF Mapping, Tree
<1> HIDE DEF p
<1>6. ASSUME NEW v \in Page
      PROVE  {pm[n].flags : n \in DOMAIN pm \cap {Node(0, v)}}
                = {list[i].flags : i \in {i \in held(v) : list[i].flags # {}}}
  <2>1. v \in Nat
    BY DEF Page
  <2>2. \A m : Covers(list, v, m) <=> \E i \in held(v) : list[i].flags = m
    BY DEF Covers, Range
  <2>3. \A i, j \in held(v) : list[i].flags = list[j].flags
    <3> SUFFICES ASSUME NEW i \in held(v), NEW j \in held(v)
                 PROVE  list[i].flags = list[j].flags
      OBVIOUS
    <3>1. Covers(list, v, list[i].flags) /\ Covers(list, v, list[j].flags)
      BY <2>2
    <3> QED
      BY <1>3, <2>1, <3>1, CoversOnceLemma
  <2>4. CASE v \in Pages(pm)
    <3>1. /\ Node(0, v) \in DOMAIN pm /\ Covers(list, v, pm[Node(0, v)].flags)
          /\ \E m : Covers(list, v, m) /\ "USER" \in m
      BY <1>3, <1>4, <1>5, <2>4
    <3>2. PICK i \in held(v) : list[i].flags = pm[Node(0, v)].flags
      BY <2>2, <3>1
    <3>3. pm[Node(0, v)].flags # {}
      <4>1. PICK m : Covers(list, v, m) /\ "USER" \in m
        BY <3>1
      <4>2. PICK j \in held(v) : list[j].flags = m
        BY <2>2, <4>1
      <4> QED
        BY <2>3, <3>2, <4>1, <4>2
    <3>4. {pm[n].flags : n \in DOMAIN pm \cap {Node(0, v)}} = {pm[Node(0, v)].flags}
      BY <3>1
    <3>5. {list[j].flags : j \in {j \in held(v) : list[j].flags # {}}} = {pm[Node(0, v)].flags}
      BY <2>3, <3>2, <3>3
    <3> QED
      BY <3>4, <3>5
  <2>5. CASE v \notin Pages(pm)
    <3>1. Node(0, v) \notin DOMAIN pm /\ \A m : Covers(list, v, m) => "USER" \notin m
      BY <1>3, <1>4, <1>5, <2>5
    <3>2. \A i \in held(v) : list[i].flags = {}
      BY <1>3, <2>1, <2>2, <3>1 DEF UserFlags
    <3> QED
      BY <3>1, <3>2
  <2> QED
    BY <2>4, <2>5
<1> QED
  BY <1>2, <1>6 DEF p, Page

\* The tables of a process are those on the way to its pages and no others, and its
\* pages are those of its areas with access, with their flags.
THEOREM ProcessTables == Spec => []TablesMatchAreas
  BY TablesLemma, ProcessInvariant, PTL

-----------------------------------------------------------------------------
(***************************************************************************)
(* Private memory                                                          *)
(***************************************************************************)
\* These translations are those of the page map.
Valid(pm, cached) ==
    \A v \in DOMAIN cached : v \in Pages(pm) /\ cached[v] = pm[Node(0, v)].frame

\* What the CPU has cached is true as long as no program maps over what is cached.
CachedSound == cr3 \in alive /\ Valid(proc[cr3].page_map, tlb)

\* The memory of all processes: what PrivateMemory is about
Memories == [q \in Procs |-> MemoryOf(q)]

LEMMA MemoriesLemma ==
    /\ \A q \in Procs : Memories[q] = View(kmem, proc[q].page_map)
    /\ \A q \in Procs : Memories'[q] = View(kmem', proc'[q].page_map)
    /\ DOMAIN Memories = Procs
  BY DEF Memories, MemoryOf, View

\* The memory of one process alone changes.
LEMMA OneMemoryLemma ==
    ASSUME NEW s \in Procs, \A q \in Procs : q # s => MemoryOf(q)' = MemoryOf(q), NEW view,
           MemoryOf(s)' = view
    PROVE  Memories' = [Memories EXCEPT ![s] = view]
<1>1. Memories = [q \in Procs |-> Memories[q]] /\ \A q \in Procs : Memories[q] = MemoryOf(q)
  BY DEF Memories
<1>2. Memories' = [q \in Procs |-> MemoryOf(q)']
  BY DEF Memories
<1> QED
  BY <1>1, <1>2

\* What a call does to the memory of its process is a step of PrivateMemory.
LEMMA EffectLemma ==
    ASSUME NEW q \in Procs, NEW view, Effect(Memories[q], view),
           Memories' = [Memories EXCEPT ![q] = view]
    PROVE  [Private!Next]_Memories
<1>1. Memories = [r \in Procs |-> Memories[r]]
  BY DEF Memories
<1>2. CASE view = Memories[q]
  BY <1>1, <1>2
<1>3. ASSUME NEW b \in Nat, NEW e \in Nat, b < e, e <= ADDR_MAX,
             view \in {MapWithout(Memories[q], b, e), MapWith(Memories[q], b, e, Zeroes)}
      PROVE  Private!Next
  <2> DEFINE last == e - 1
  <2>1. b \in 0..(ADDR_MAX - 1) /\ last \in 0..(ADDR_MAX - 1) /\ last + 1 = e
    BY <1>3
  <2>2. Private!Span(b, e) = b..(e - 1)
    BY <1>3 DEF Private!Span
  <2>3. CASE view = MapWithout(Memories[q], b, e)
    <3>1. Private!Unmap(q, Private!Span(b, e))
      BY <2>2, <2>3 DEF Private!Unmap, MapWithout, Memories
    <3> QED
      BY <2>1, <3>1 DEF Private!Next
  <2>4. CASE view = MapWith(Memories[q], b, e, Zeroes)
    <3>1. Private!Map(q, Private!Span(b, e))
      BY <2>2, <2>4 DEF Private!Map, MapWith, Memories
    <3> QED
      BY <2>1, <3>1 DEF Private!Next
  <2> QED
    BY <1>3, <2>3, <2>4
<1> QED
  BY <1>2, <1>3 DEF Effect

\* A call keeps the translations that stay cached true, for its pages stay.
LEMMA ChangePrivate ==
    ASSUME Inv, CachedSound, ~OverwriteCached, NEW q \in Procs, Change(q)
    PROVE  [Private!Next]_Memories /\ CachedSound'
<1>1. PICK R, r : /\ Commit(q, r) /\ Called(kmem, proc[q], R, r)
                  /\ tlb' = NoTranslation \/ (tlb' = tlb /\ DOMAIN tlb \cap R = {})
  BY DEF Change
<1>2. status = "running" /\ q \in alive /\ cr3 = q /\ cr3' = q
  BY DEF Change
<1>3. Settles(q, r)
  BY <1>1, <1>2, CalledSettles
<1>4. \A s \in Procs : s # q => MemoryOf(s)' = MemoryOf(s)
  BY <1>1, <1>2, <1>3, CommitLemma
<1>5. proc'[q] = r.p /\ kmem' = r.k
  BY <1>1, <1>2, RunningLemma DEF Commit, InOrder
<1>6. MemoryOf(q)' = View(r.k, r.p.page_map)
  BY <1>5 DEF MemoryOf, View
<1>7. [Private!Next]_Memories
  <2>1. Effect(Memories[q], View(r.k, r.p.page_map))
    BY <1>1, MemoriesLemma DEF Called
  <2>2. Memories' = [Memories EXCEPT ![q] = View(r.k, r.p.page_map)]
    BY <1>4, <1>6, OneMemoryLemma
  <2> QED
    BY <2>1, <2>2, EffectLemma
<1>8. Valid(r.p.page_map, tlb')
  <2>1. CASE tlb' = NoTranslation
    BY <2>1 DEF Valid, NoTranslation
  <2>2. CASE tlb' = tlb /\ DOMAIN tlb \cap R = {}
    <3>1. Valid(proc[q].page_map, tlb) /\ Stay(proc[q].page_map, R, r.p.page_map)
      BY <1>1, <1>2 DEF CachedSound, Called
    <3> QED
      BY <2>2, <3>1 DEF Valid, Stay
  <2> QED
    BY <1>1, <2>1, <2>2
<1>9. q \in alive'
  BY <1>1, <1>2, <1>5 DEF alive, Called
<1> QED
  BY <1>2, <1>5, <1>7, <1>8, <1>9 DEF CachedSound

\* A fork that fails leaves all memory as it is.
LEMMA BirthPrivate ==
    ASSUME Inv, CachedSound, NEW q \in Procs, NEW s \in Procs, Birth(q, s)
    PROVE  [Private!Next]_Memories /\ CachedSound'
<1>1. PICK r : Commit(s, r) /\ Bears(kmem, proc[q], r)
  BY DEF Birth
<1>2. /\ status = "running" /\ q \in alive /\ s \notin alive /\ cr3' = cr3 /\ tlb' = tlb
      /\ cr3 = q
  BY DEF Birth
<1>3. Settles(s, r)
  BY <1>1, <1>2, BearsSettles
<1>4. \A t \in Procs : t # s => MemoryOf(t)' = MemoryOf(t)
  BY <1>1, <1>2, <1>3, CommitLemma
<1>5. proc'[s] = r.p /\ kmem' = r.k /\ \A t \in Procs : t # s => proc'[t] = proc[t]
  BY <1>1, <1>2, RunningLemma DEF Commit, InOrder
<1>6. Memories[s] = Private!Empty
  <2>1. proc[s].page_map = NoMap
    BY <1>2, RunningLemma DEF InOrder, NoMap
  <2>2. Memories[s] = [v \in {} |-> kmem.memory[NoMap[Node(0, v)].frame]]
    BY <2>1, MemoriesLemma, NoMapLemma DEF View
  <2> QED
    BY <2>2 DEF Private!Empty
<1>7. MemoryOf(s)' = View(r.k, r.p.page_map)
  BY <1>5 DEF MemoryOf, View
<1>8. Memories' = [Memories EXCEPT ![s] = View(r.k, r.p.page_map)]
  BY <1>4, <1>7, OneMemoryLemma
<1>9. [Private!Next]_Memories
  <2>1. CASE r.p = NoProcess
    <3>1. View(r.k, r.p.page_map) = Private!Empty
      <4>1. View(r.k, NoMap) = [v \in {} |-> r.k.memory[NoMap[Node(0, v)].frame]]
        BY NoMapLemma DEF View
      <4> QED
        BY <2>1, <4>1 DEF NoMap, Private!Empty
    <3>2. Memories' = Memories
      <4>1. Memories = [t \in Procs |-> Memories[t]]
        BY DEF Memories
      <4> QED
        BY <1>6, <1>8, <3>1, <4>1
    <3> QED
      BY <3>2
  <2>2. CASE View(r.k, r.p.page_map) = View(kmem, proc[q].page_map)
    <3>1. Memories' = [Memories EXCEPT ![s] = Memories[q]]
      BY <1>8, <2>2, MemoriesLemma
    <3>2. Private!Fork(q, s)
      BY <1>6, <3>1 DEF Private!Fork, Memories
    <3> QED
      BY <3>2 DEF Private!Next
  <2> QED
    BY <1>1, <2>1, <2>2 DEF Bears
<1>10. CachedSound'
  <2>1. q # s /\ proc'[q] = proc[q]
    BY <1>2, <1>5
  <2> QED
    BY <1>2, <2>1 DEF CachedSound, alive
<1> QED
  BY <1>9, <1>10

\* A write through translations that are true reaches the page, and no other page of
\* any process.
LEMMA WrittenPrivate ==
    ASSUME Inv, status = "running", NEW q \in alive, NEW v \in Page, NEW cached,
           Valid(proc[q].page_map, cached), Writable(q, v, cached), NEW content,
           WriteTo(q, v, cached, content), proc' = proc
    PROVE  /\ v \in DOMAIN Memories[q]
           /\ Memories' = [Memories EXCEPT ![q][v] = content]
           /\ Valid(proc'[q].page_map, tlb')
<1> DEFINE pm == proc[q].page_map
           f == pm[Node(0, v)].frame
<1>1. Owned(kmem, pm) /\ Tree(pm) /\ q \in Procs /\ kmem \in Kmem /\ InOrder(kmem)
  BY RunningLemma DEF InOrder, Mapping, alive
<1>2. v \in Pages(pm)
  BY DEF Writable, Valid
<1>3. Node(0, v) \in DOMAIN pm /\ f \in Frames /\ virt_to_phys(pm, v) = f
  BY <1>1, <1>2, VirtToPhysLemma
<1>4. \A x \in Translations(q, v, cached) : x = f
  BY <1>3 DEF Translations, Valid
<1>5. PICK frame \in Translations(q, v, cached) :
        /\ kmem' = [kmem EXCEPT !.memory[frame] = content]
        /\ tlb' = [x \in DOMAIN cached \cup {v} |-> IF x = v THEN frame ELSE cached[x]]
  BY DEF WriteTo
<1>6. frame = f
  BY <1>4, <1>5
<1>7. /\ kmem'.memory[f] = content
      /\ \A x \in Frames : x # f => kmem'.memory[x] = kmem.memory[x]
  BY <1>1, <1>3, <1>5, <1>6 DEF Kmem
<1> HIDE DEF f
<1>8. ASSUME NEW s \in Procs, NEW w \in Pages(proc[s].page_map), s # q \/ w # v
      PROVE  kmem'.memory[proc[s].page_map[Node(0, w)].frame]
                = kmem.memory[proc[s].page_map[Node(0, w)].frame]
  <2> DEFINE other == proc[s].page_map
             g == other[Node(0, w)].frame
  <2>1. Owned(kmem, other) /\ (Tree(other) \/ other = NoMap)
    BY <1>1, OwnedLemma DEF InOrder, Mapping, NoMap
  <2>2. Node(0, w) \in DOMAIN other /\ w \in Page
    BY <2>1, LeafLemma, NoMapLemma DEF Tree
  <2>3. g \in Frames /\ g \in FramesIn(other)
    BY <2>1, <2>2 DEF Owned, TableEntry, FramesIn
  <2>4. g # f
    <3>1. CASE s # q
      <4>1. f \in FramesIn(pm)
        BY <1>3 DEF FramesIn, f
      <4> QED
        BY <1>1, <2>3, <3>1, <4>1 DEF InOrder
    <3>2. CASE s = q
      <4>1. Node(0, w) # Node(0, v)
        <5>1. w # v /\ v \in Nat /\ w \in Nat
          BY <1>8, <2>2, <3>2 DEF Page
        <5> QED
          BY <2>2, <5>1, NodeLemma
      <4> QED
        BY <1>1, <1>3, <2>2, <3>2, <4>1 DEF Owned, f
    <3> QED
      BY <3>1, <3>2
  <2> QED
    BY <1>7, <2>3, <2>4
<1>9. \A s \in Procs : s # q => MemoryOf(s)' = MemoryOf(s)
  BY <1>8 DEF MemoryOf
<1>10. Memories[q] = MemoryOf(q) /\ DOMAIN MemoryOf(q) = Pages(pm)
  BY <1>1 DEF Memories, MemoryOf
<1>11. MemoryOf(q)' = [MemoryOf(q) EXCEPT ![v] = content]
  <2>1. MemoryOf(q) = [w \in Pages(pm) |-> kmem.memory[pm[Node(0, w)].frame]]
    BY DEF MemoryOf
  <2>2. MemoryOf(q)' = [w \in Pages(pm) |-> kmem'.memory[pm[Node(0, w)].frame]]
    BY DEF MemoryOf
  <2>3. \A w \in Pages(pm) : kmem'.memory[pm[Node(0, w)].frame] =
            IF w = v THEN content ELSE kmem.memory[pm[Node(0, w)].frame]
    BY <1>1, <1>7, <1>8 DEF f
  <2> QED
    BY <1>2, <2>1, <2>2, <2>3
<1>12. Memories' = [Memories EXCEPT ![q] = [MemoryOf(q) EXCEPT ![v] = content]]
  BY <1>1, <1>9, <1>11, OneMemoryLemma
<1>13. Memories' = [Memories EXCEPT ![q][v] = content]
  BY <1>10, <1>12
<1>14. Valid(pm, tlb')
  BY <1>2, <1>5, <1>6 DEF Valid, f
<1> QED
  BY <1>2, <1>10, <1>13, <1>14

LEMMA StorePrivate ==
    ASSUME Inv, CachedSound, NEW q \in Procs, NEW v \in Touched, store(q, v)
    PROVE  [Private!Next]_Memories /\ CachedSound'
<1>1. /\ q \in alive /\ cr3 = q /\ cr3' = q /\ v \in Page /\ proc' = proc /\ status = "running"
      /\ Valid(proc[q].page_map, tlb) /\ Writable(q, v, tlb) /\ WriteTo(q, v, tlb, <<q, v>>)
  BY ProcessAssumption DEF store, Runs, CachedSound, Page
<1>2. v \in DOMAIN Memories[q] /\ Memories' = [Memories EXCEPT ![q][v] = <<q, v>>]
  BY <1>1, WrittenPrivate
<1>3. Valid(proc'[q].page_map, tlb')
  BY <1>1, WrittenPrivate
<1>4. Private!Store(q, v, <<q, v>>)
  BY <1>2 DEF Private!Store, Memories
<1>5. v \in 0..(ADDR_MAX - 1)
  BY <1>1 DEF Page
<1> QED
  BY <1>1, <1>3, <1>4, <1>5 DEF Private!Next, CachedSound, alive

LEMMA MemcpyPrivate ==
    ASSUME Inv, CachedSound, NEW q \in Procs, NEW v \in Touched, NEW s \in Procs, NEW w \in Touched,
           memcpy_user_user(q, v, s, w)
    PROVE  [Private!Next]_Memories /\ CachedSound'
<1> DEFINE cached == IF cr3 = q THEN tlb ELSE NoTranslation
           content == Holds(virt_to_phys(proc[s].page_map, w))
<1>1. /\ q \in alive /\ s \in alive /\ cr3' = q /\ v \in Page /\ w \in Page /\ proc' = proc
      /\ status = "running"
      /\ IF Writable(q, v, cached) THEN WriteTo(q, v, cached, content)
         ELSE tlb' = cached /\ UNCHANGED kmem
  BY ProcessAssumption DEF memcpy_user_user, Page
<1>2. Valid(proc[q].page_map, cached)
  BY DEF CachedSound, Valid, NoTranslation
<1> HIDE DEF cached
<1>3. content = Private!Sent(s, w)
  <2>1. content = IF w \in Pages(proc[s].page_map)
                  THEN View(kmem, proc[s].page_map)[w] ELSE PageZero
    BY <1>1, SentLemma
  <2>2. Memories[s] = View(kmem, proc[s].page_map)
        /\ DOMAIN View(kmem, proc[s].page_map) = Pages(proc[s].page_map)
    BY MemoriesLemma DEF View
  <2> HIDE DEF content
  <2> QED
    BY <2>1, <2>2 DEF Private!Sent, Memories
<1> HIDE DEF content
<1>4. CASE Writable(q, v, cached)
  <2>1. WriteTo(q, v, cached, content)
    BY <1>1, <1>4
  <2>2. v \in DOMAIN Memories[q] /\ Memories' = [Memories EXCEPT ![q][v] = content]
    BY <1>1, <1>2, <1>4, <2>1, WrittenPrivate
  <2>3. Valid(proc'[q].page_map, tlb')
    BY <1>1, <1>2, <1>4, <2>1, WrittenPrivate
  <2>4. Private!Store(q, v, Private!Sent(s, w))
    BY <1>3, <2>2 DEF Private!Store, Memories
  <2>5. v \in 0..(ADDR_MAX - 1) /\ w \in 0..(ADDR_MAX - 1)
    BY <1>1 DEF Page
  <2>6. Private!Next
    BY <2>4, <2>5 DEF Private!Next
  <2> QED
    BY <1>1, <2>3, <2>6 DEF CachedSound, alive
<1>5. CASE ~Writable(q, v, cached)
  <2>1. tlb' = cached /\ kmem' = kmem
    BY <1>1, <1>5
  <2>2. Memories' = Memories
    BY <1>1, <2>1 DEF Memories, MemoryOf
  <2> QED
    BY <1>1, <1>2, <2>1, <2>2 DEF CachedSound, alive
<1> QED
  BY <1>4, <1>5

LEMMA InitPrivate == Init => Private!Init /\ CachedSound
<1> SUFFICES ASSUME Init PROVE Private!Init /\ CachedSound
  OBVIOUS
<1>1. PICK p : /\ Newborn(kmem, p)
               /\ proc = [q \in Procs |-> IF q = First THEN p ELSE NoProcess]
  <2> DEFINE n == budget.frames
             k == BootMemory(MemoryMap(n))
  <2>1. k \in Kmem /\ IsInjective(k.free_list)
    <3>1. n \in 1..(FrameCount - 1)
      BY ProcessAssumption DEF Init
    <3> QED
      BY <3>1, BootLemma
  <2> HIDE DEF k
  <2>2. PICK priority \in budget.rng :
            /\ UserInit(k, priority).panic = "none"
            /\ kmem = UserInit(k, priority).k
            /\ proc = [q \in Procs |-> IF q = First THEN UserInit(k, priority).p ELSE NoProcess]
    BY DEF Init, k
  <2>3. Newborn(kmem, UserInit(k, priority).p)
    BY <2>1, <2>2, UserInitLemma
  <2> QED
    BY <2>2, <2>3
<1>2. PICK v \in Page : View(kmem, p.page_map) = [x \in {v} |-> Zeroes]
  BY <1>1 DEF Newborn
<1>3. First \in Procs /\ v \in 0..(ADDR_MAX - 1)
  BY <1>2, ProcessAssumption DEF Page
<1>4. \A q \in Procs : MemoryOf(q) = IF q = First THEN [x \in {v} |-> Zeroes] ELSE Private!Empty
  <2> SUFFICES ASSUME NEW q \in Procs
               PROVE  MemoryOf(q) = IF q = First THEN [x \in {v} |-> Zeroes] ELSE Private!Empty
    OBVIOUS
  <2>1. MemoryOf(q) = View(kmem, proc[q].page_map)
    BY DEF MemoryOf, View
  <2>2. CASE q = First
    BY <1>1, <1>2, <2>1, <2>2
  <2>3. CASE q # First
    <3>1. proc[q].page_map = NoMap
      BY <1>1, <2>3 DEF NoMap
    <3>2. View(kmem, NoMap) = [x \in {} |-> kmem.memory[NoMap[Node(0, x)].frame]]
      BY NoMapLemma DEF View
    <3> QED
      BY <2>1, <2>3, <3>1, <3>2 DEF Private!Empty
  <2> QED
    BY <2>2, <2>3
<1>5. Private!Init
  BY <1>3, <1>4 DEF Private!Init
<1>6. CachedSound
  BY <1>1, <1>3 DEF CachedSound, Valid, Init, NoTranslation, alive, Newborn
<1> QED
  BY <1>5, <1>6

LEMMA StepPrivate ==
    ~OverwriteCached /\ Inv /\ CachedSound /\ [Next]_vars
        => [Private!Next]_Memories /\ CachedSound'
<1> SUFFICES ASSUME ~OverwriteCached, Inv, CachedSound, [Next]_vars
             PROVE  [Private!Next]_Memories /\ CachedSound'
  OBVIOUS
<1>1. ASSUME NEW q \in Procs,
             \/ virtual_map(q) \/ virtual_unmap(q) \/ thread_spawn(q)
             \/ descriptors_grow(q) \/ exec_flush(q)
      PROVE  [Private!Next]_Memories /\ CachedSound'
  <2>1. Change(q)
    BY <1>1, VirtualMapStep, VirtualUnmapStep, ThreadSpawnStep, DescriptorsGrowStep, ExecFlushStep
  <2> QED
    BY <2>1, ChangePrivate
<1>2. ASSUME NEW q \in Procs, NEW s \in Procs, fork(q, s)
      PROVE  [Private!Next]_Memories /\ CachedSound'
  BY <1>2, ForkStep, BirthPrivate
<1>3. ASSUME NEW q \in Procs, switch(q)
      PROVE  [Private!Next]_Memories /\ CachedSound'
  <2>1. /\ kmem' = kmem /\ proc' = proc /\ q \in alive /\ cr3' = q /\ tlb' = NoTranslation
    BY <1>3 DEF switch
  <2>2. Memories' = Memories
    BY <2>1 DEF Memories, MemoryOf
  <2> QED
    BY <2>1, <2>2 DEF CachedSound, Valid, NoTranslation, alive
<1>4. ASSUME NEW q \in Procs, NEW v \in Touched, store(q, v)
      PROVE  [Private!Next]_Memories /\ CachedSound'
  BY <1>4, StorePrivate
<1>5. ASSUME NEW q \in Procs, NEW v \in Touched, NEW s \in Procs, NEW w \in Touched,
             memcpy_user_user(q, v, s, w)
      PROVE  [Private!Next]_Memories /\ CachedSound'
  BY <1>5, MemcpyPrivate
<1>6. CASE UNCHANGED vars
  BY <1>6 DEF vars, Memories, MemoryOf, CachedSound, Valid, alive
<1>7. CASE Next
  BY <1>1, <1>2, <1>3, <1>4, <1>5, <1>7 DEF Next
<1> QED
  BY <1>6, <1>7

\* Every process has memory of its own: what others map, unmap, write or fork never
\* shows in it, whatever frames are handed on between them, and a new page holds
\* nothing of its last user. Programs that map over pages whose translation is cached
\* are left out.
THEOREM ProcessImplementsPrivateMemory ==
    ASSUME ~OverwriteCached
    PROVE  Spec => ImplementsPrivateMemory
<1>1. Init => Private!Init /\ Inv /\ CachedSound
  BY InitLemma, InitPrivate
<1>2. Inv /\ CachedSound /\ [Next]_vars => [Private!Next]_Memories /\ Inv' /\ CachedSound'
  BY StepLemma, StepPrivate
<1>3. QED
  BY <1>1, <1>2, PTL DEF Spec, ImplementsPrivateMemory, Private!Spec, Memories
=============================================================================
