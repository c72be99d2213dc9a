----------------------------- MODULE QueueLemmas ----------------------------
(***************************************************************************)
(* Lemmas about lists: the run queue, the wait queues and the sleep queue  *)
(* of the scheduler, and the areas of an address space, as sequences       *)
(* without repetition.                                                     *)
(***************************************************************************)
EXTENDS Lists, FiniteSetTheorems, TLAPS

-----------------------------------------------------------------------------
(***************************************************************************)
(* Places in a list                                                        *)
(***************************************************************************)
\* A set of naturals that is not empty has a least element.
LEMMA LeastLemma ==
    ASSUME NEW S \in SUBSET Nat, S # {}
    PROVE  \E m \in S : \A k \in S : m <= k
<1> DEFINE R == {ss \in Nat \X Nat : ss[1] < ss[2]}
<1>1. IsWellFoundedOn(R, Nat)
  BY NatLessThanWellFounded DEF OpToRel
<1> HIDE DEF R
<1>2. PICK m \in S : \A k \in S : ~(<<k, m>> \in R)
  BY <1>1, WFMin
<1>3. \A k \in S : ~(k < m)
  <2> SUFFICES ASSUME NEW k \in S, k < m PROVE FALSE
    OBVIOUS
  <2>1. <<k, m>> \in R
    BY DEF R
  <2> QED
    BY <1>2, <2>1
<1> QED
  BY <1>3

\* A set of places that holds every place before one of its own is the front of the
\* list, and as long as it has elements.
LEMMA FrontLemma ==
    ASSUME NEW n \in Nat, NEW D \in SUBSET (1..n),
           \A i \in D : \A j \in 1..i : j \in D
    PROVE  D = 1..Cardinality(D) /\ Cardinality(D) \in 0..n
<1> DEFINE out == {k \in Nat : k + 1 \notin D}
<1>1. n \in out
  OBVIOUS
<1>2. PICK m \in out : \A k \in out : m <= k
  BY <1>1, LeastLemma
<1>3. m \in Nat /\ m <= n /\ m + 1 \notin D
  BY <1>1, <1>2
<1>4. \A i \in 1..m : i \in D
  <2> SUFFICES ASSUME NEW i \in 1..m, i \notin D PROVE FALSE
    OBVIOUS
  <2>1. i - 1 \in out /\ i - 1 < m
    BY <1>3
  <2> QED
    BY <1>2, <1>3, <2>1
<1>5. \A i \in D : i \in 1..m
  BY <1>3
<1>6. D = 1..m
  BY <1>4, <1>5
<1> HIDE DEF out
<1>7. Cardinality(1..m) = m
  <2>1. 1 \in Int /\ m \in Int
    BY <1>3
  <2>2. Cardinality(1..m) = IF 1 > m THEN 0 ELSE m - 1 + 1
    BY <2>1, FS_Interval
  <2> QED
    BY <1>3, <2>2
<1> QED
  BY <1>3, <1>6, <1>7
-----------------------------------------------------------------------------
(***************************************************************************)
(* Sequences without repetition                                            *)
(***************************************************************************)

\* The elements at a set of places, in the order they had
Selected(seq, keep, new) ==
    /\ Range(new) = {seq[i] : i \in keep}
    /\ Len(new) = Cardinality(keep)
    /\ \E f \in [DOMAIN new -> keep] :
        /\ \A k \in DOMAIN f : new[k] = seq[f[k]]
        /\ \A k, m \in DOMAIN f : k < m => f[k] < f[m]

\* Select picks the elements at the places, each once and in their order.
LEMMA SelectLemma ==
    ASSUME NEW T, NEW seq \in Seq(T), NEW keep \in SUBSET (DOMAIN seq)
    PROVE  Select(seq, keep) \in Seq(T) /\ Selected(seq, keep, Select(seq, keep))
<1> DEFINE below(i) == {j \in keep : j <= i}
           rank == [i \in keep |-> Cardinality(below(i))]
           n == Cardinality(keep)
           at(k) == CHOOSE i \in keep : Cardinality(below(i)) = k
<1>1. DOMAIN seq = 1..Len(seq) /\ Len(seq) \in Nat
  OBVIOUS
<1>2. IsFiniteSet(keep) /\ n \in Nat /\ keep \subseteq 1..Len(seq)
  <2>1. IsFiniteSet(1..Len(seq))
    BY <1>1, FS_Interval
  <2>2. keep \in SUBSET (1..Len(seq))
    BY <1>1
  <2> QED
    BY <2>1, <2>2, FS_Subset, FS_CardinalityType
<1>3. ASSUME NEW i \in keep
      PROVE  /\ IsFiniteSet(below(i))
             /\ Cardinality(below(i)) \in 1..n
  <2>1. below(i) \in SUBSET keep
    OBVIOUS
  <2>2. IsFiniteSet(below(i)) /\ Cardinality(below(i)) <= n /\ Cardinality(below(i)) \in Nat
    BY <1>2, <2>1, FS_Subset, FS_CardinalityType
  <2>3. i \in below(i)
    BY <1>2
  <2>4. Cardinality(below(i)) # 0
    BY <2>2, <2>3, FS_EmptySet
  <2> QED
    BY <1>2, <2>2, <2>4
<1>4. ASSUME NEW i \in keep, NEW j \in keep, i < j
      PROVE  Cardinality(below(i)) # Cardinality(below(j))
  <2>1. below(i) \in SUBSET below(j)
    BY <1>2, <1>4
  <2>2. j \in below(j) /\ j \notin below(i)
    BY <1>2, <1>4
  <2>3. below(i) # below(j)
    BY <2>2
  <2> QED
    BY <1>3, <2>1, <2>3, FS_Subset
<1>5. rank \in Injection(keep, 1..n)
  <2>1. rank \in [keep -> 1..n]
    BY <1>3
  <2>2. ASSUME NEW i \in keep, NEW j \in keep, rank[i] = rank[j]
        PROVE  i = j
    <3>1. ~(i < j) /\ ~(j < i)
      BY <1>4, <2>2
    <3>2. i \in Nat /\ j \in Nat
      BY <1>2
    <3> QED
      BY <3>1, <3>2
  <2>3. IsInjective(rank)
    BY <2>2 DEF IsInjective
  <2> QED
    BY <2>1, <2>3 DEF Injection
<1>6. rank \in Surjection(keep, 1..n)
  <2>1. IsFiniteSet(1..n) /\ Cardinality(1..n) = n
    BY <1>2, FS_Interval
  <2> QED
    BY <1>5, <2>1, FS_Injection
<1>7. ASSUME NEW k \in 1..n
      PROVE  at(k) \in keep /\ Cardinality(below(at(k))) = k
  <2>1. \E i \in keep : rank[i] = k
    BY <1>6 DEF Surjection
  <2> QED
    BY <2>1
<1>8. PICK f \in [1..n -> keep] :
        /\ \A k \in 1..n : Cardinality(below(f[k])) = k
        /\ Select(seq, keep) = [k \in 1..n |-> seq[f[k]]]
  <2> DEFINE g == [k \in 1..n |-> at(k)]
  <2>1. g \in [1..n -> keep] /\ \A k \in 1..n : Cardinality(below(g[k])) = k
    BY <1>7
  <2>2. Select(seq, keep) = [k \in 1..n |-> seq[g[k]]]
    BY DEF Select
  <2> QED
    BY <2>1, <2>2
<1> HIDE DEF n, at, rank
<1>9. Select(seq, keep) \in Seq(T)
  <2>1. \A k \in 1..n : f[k] \in keep /\ seq[f[k]] \in T
    BY <1>1, <1>8
  <2> QED
    BY <1>2, <1>8, <2>1
<1>10. ASSUME NEW i \in keep
       PROVE  \E k \in 1..n : f[k] = i
  <2> DEFINE k == Cardinality(below(i))
  <2>1. k \in 1..n
    BY <1>3
  <2>2. f[k] \in keep /\ Cardinality(below(f[k])) = k
    BY <1>8, <2>1
  <2>3. ~(f[k] < i) /\ ~(i < f[k])
    BY <1>4, <2>2
  <2>4. f[k] = i
    BY <1>2, <2>2, <2>3
  <2> QED
    BY <2>1, <2>4
<1>11. Range(Select(seq, keep)) = {seq[i] : i \in keep}
  <2>1. Range(Select(seq, keep)) = {seq[f[k]] : k \in 1..n}
    BY <1>8 DEF Range
  <2>2. \A k \in 1..n : f[k] \in keep
    BY <1>8
  <2> QED
    BY <1>10, <2>1, <2>2
<1>12. ASSUME NEW k \in 1..n, NEW m \in 1..n, k < m
       PROVE  f[k] < f[m]
  <2>1. /\ f[k] \in keep /\ Cardinality(below(f[k])) = k
        /\ f[m] \in keep /\ Cardinality(below(f[m])) = m
        /\ f[k] \in Nat /\ f[m] \in Nat
    BY <1>2, <1>8
  <2>2. ASSUME f[m] <= f[k]
        PROVE  FALSE
    <3>1. below(f[m]) \in SUBSET below(f[k])
      BY <1>2, <2>1, <2>2
    <3>2. Cardinality(below(f[m])) <= Cardinality(below(f[k]))
      BY <1>3, <2>1, <3>1, FS_Subset
    <3> QED
      BY <1>2, <1>12, <2>1, <3>2
  <2> QED
    BY <2>1, <2>2
<1>13. /\ Len(Select(seq, keep)) = n
       /\ f \in [DOMAIN Select(seq, keep) -> keep]
       /\ \A k \in DOMAIN f : Select(seq, keep)[k] = seq[f[k]]
       /\ \A k, m \in DOMAIN f : k < m => f[k] < f[m]
  BY <1>2, <1>8, <1>12
<1> QED
  BY <1>9, <1>11, <1>13 DEF Selected, n

\* Places of a sequence without repetition hold a sequence without repetition.
LEMMA SelectInjectiveLemma ==
    ASSUME NEW T, NEW seq \in Seq(T), NEW keep \in SUBSET (DOMAIN seq),
           \A i, j \in keep : seq[i] = seq[j] => i = j
    PROVE  IsInjective(Select(seq, keep))
<1> DEFINE new == Select(seq, keep)
<1>1. new \in Seq(T) /\ Selected(seq, keep, new)
  BY SelectLemma
<1> HIDE DEF new
<1>2. PICK f \in [DOMAIN new -> keep] :
        /\ \A k \in DOMAIN f : new[k] = seq[f[k]]
        /\ \A k, m \in DOMAIN f : k < m => f[k] < f[m]
  BY <1>1 DEF Selected
<1>3. ASSUME NEW k \in DOMAIN new, NEW m \in DOMAIN new, new[k] = new[m], k < m
      PROVE  FALSE
  <2>1. f[k] \in keep /\ f[m] \in keep /\ f[k] < f[m] /\ seq[f[k]] = seq[f[m]]
    BY <1>2, <1>3
  <2>2. f[k] \in Nat
    BY <2>1
  <2> QED
    BY <2>1, <2>2
<1>4. DOMAIN new = 1..Len(new) /\ Len(new) \in Nat
  BY <1>1
<1>5. \A k, m \in DOMAIN new : k < m \/ m < k \/ k = m
  BY <1>4
<1> QED
  BY <1>3, <1>5 DEF IsInjective, new

\* Unlinking a set of elements leaves exactly the others, still without repetition
\* and in the order they had.
LEMMA WithoutLemma ==
    ASSUME NEW T, NEW seq \in Seq(T), IsInjective(seq), NEW S
    PROVE  /\ Without(seq, S) \in Seq(T)
           /\ IsInjective(Without(seq, S))
           /\ Range(Without(seq, S)) = Range(seq) \ S
           /\ \E f \in [DOMAIN Without(seq, S) -> DOMAIN seq] :
                /\ \A k \in DOMAIN f : Without(seq, S)[k] = seq[f[k]]
                /\ \A k, m \in DOMAIN f : k < m => f[k] < f[m]
<1> DEFINE keep == {i \in DOMAIN seq : seq[i] \notin S}
           new == Without(seq, S)
<1>1. keep \in SUBSET (DOMAIN seq) /\ new = Select(seq, keep)
  BY DEF Without
<1>2. {seq[i] : i \in keep} = Range(seq) \ S
  BY DEF Range
<1>3. \A i, j \in keep : seq[i] = seq[j] => i = j
  BY DEF IsInjective
<1> HIDE DEF keep, new
<1>4. new \in Seq(T) /\ Selected(seq, keep, new)
  BY <1>1, SelectLemma
<1>5. IsInjective(new)
  BY <1>1, <1>3, SelectInjectiveLemma
<1>6. PICK f \in [DOMAIN new -> keep] :
        /\ \A k \in DOMAIN f : new[k] = seq[f[k]]
        /\ \A k, m \in DOMAIN f : k < m => f[k] < f[m]
  BY <1>4 DEF Selected
<1>7. f \in [DOMAIN new -> DOMAIN seq]
  BY <1>1, <1>6
<1>8. Range(new) = Range(seq) \ S
  BY <1>2, <1>4 DEF Selected
<1> QED
  BY <1>4, <1>5, <1>6, <1>7, <1>8 DEF new

\* Keeping only the elements of a set
LEMMA WithinLemma ==
    ASSUME NEW T, NEW seq \in Seq(T), NEW S
    PROVE  /\ Within(seq, S) \in Seq(T)
           /\ Range(Within(seq, S)) = Range(seq) \cap S
           /\ IsInjective(seq) => IsInjective(Within(seq, S))
<1> DEFINE keep == {i \in DOMAIN seq : seq[i] \in S}
<1>1. keep \in SUBSET (DOMAIN seq) /\ Within(seq, S) = Select(seq, keep)
  BY DEF Within
<1>2. {seq[i] : i \in keep} = Range(seq) \cap S
  BY DEF Range
<1>3. IsInjective(seq) => \A i, j \in keep : seq[i] = seq[j] => i = j
  BY DEF IsInjective
<1> HIDE DEF keep
<1>4. Select(seq, keep) \in Seq(T) /\ Range(Select(seq, keep)) = {seq[i] : i \in keep}
  BY <1>1, SelectLemma DEF Selected
<1>5. ASSUME IsInjective(seq) PROVE IsInjective(Select(seq, keep))
  BY <1>1, <1>3, <1>5, SelectInjectiveLemma
<1> QED
  BY <1>1, <1>2, <1>4, <1>5

\* Keeping each element where it is first
LEMMA FirstsLemma ==
    ASSUME NEW T, NEW seq \in Seq(T)
    PROVE  /\ Firsts(seq) \in Seq(T)
           /\ Range(Firsts(seq)) = Range(seq)
           /\ IsInjective(Firsts(seq))
<1> DEFINE keep == {i \in DOMAIN seq : \A j \in DOMAIN seq : seq[j] = seq[i] => i <= j}
<1>1. keep \in SUBSET (DOMAIN seq) /\ Firsts(seq) = Select(seq, keep)
  BY DEF Firsts
<1>2. DOMAIN seq \subseteq Nat
  OBVIOUS
<1>3. \A i, j \in keep : seq[i] = seq[j] => i = j
  BY <1>2
<1>4. ASSUME NEW i \in DOMAIN seq PROVE \E j \in keep : seq[j] = seq[i]
  <2> DEFINE same == {j \in DOMAIN seq : seq[j] = seq[i]}
  <2>1. same \in SUBSET Nat /\ same # {}
    BY <1>2
  <2>2. PICK j \in same : \A k \in same : j <= k
    BY <2>1, LeastLemma
  <2> QED
    BY <2>2
<1>5. {seq[i] : i \in keep} = Range(seq)
  BY <1>1, <1>4 DEF Range
<1> HIDE DEF keep
<1>6. Select(seq, keep) \in Seq(T) /\ Range(Select(seq, keep)) = {seq[i] : i \in keep}
  BY <1>1, SelectLemma DEF Selected
<1>7. IsInjective(Select(seq, keep))
  BY <1>1, <1>3, SelectInjectiveLemma
<1> QED
  BY <1>1, <1>5, <1>6, <1>7

\* Keeping each element where it is last
LEMMA LastsLemma ==
    ASSUME NEW T, NEW seq \in Seq(T)
    PROVE  /\ Lasts(seq) \in Seq(T)
           /\ Range(Lasts(seq)) = Range(seq)
           /\ IsInjective(Lasts(seq))
<1> DEFINE keep == {i \in DOMAIN seq : \A j \in DOMAIN seq : seq[j] = seq[i] => j <= i}
<1>1. keep \in SUBSET (DOMAIN seq) /\ Lasts(seq) = Select(seq, keep)
  BY DEF Lasts
<1>2. DOMAIN seq = 1..Len(seq) /\ Len(seq) \in Nat
  OBVIOUS
<1>3. \A i, j \in keep : seq[i] = seq[j] => i = j
  BY <1>2
<1>4. ASSUME NEW i \in DOMAIN seq PROVE \E j \in keep : seq[j] = seq[i]
  <2> DEFINE after == {k \in Nat : \E j \in DOMAIN seq : seq[j] = seq[i] /\ k = Len(seq) - j}
  <2>1. Len(seq) - i \in after
    BY <1>2
  <2>2. after \in SUBSET Nat /\ after # {}
    BY <2>1
  <2>3. PICK k \in after : \A m \in after : k <= m
    BY <2>2, LeastLemma
  <2>4. PICK j \in DOMAIN seq : seq[j] = seq[i] /\ k = Len(seq) - j
    BY <2>3
  <2>5. ASSUME NEW m \in DOMAIN seq, seq[m] = seq[j] PROVE m <= j
    <3>1. Len(seq) - m \in after
      BY <1>2, <2>4, <2>5
    <3>2. Len(seq) - j <= Len(seq) - m
      BY <2>3, <2>4, <3>1
    <3> QED
      BY <1>2, <3>2
  <2> QED
    BY <2>4, <2>5
<1>5. {seq[i] : i \in keep} = Range(seq)
  BY <1>1, <1>4 DEF Range
<1> HIDE DEF keep
<1>6. Select(seq, keep) \in Seq(T) /\ Range(Select(seq, keep)) = {seq[i] : i \in keep}
  BY <1>1, SelectLemma DEF Selected
<1>7. IsInjective(Select(seq, keep))
  BY <1>1, <1>3, SelectInjectiveLemma
<1> QED
  BY <1>1, <1>5, <1>6, <1>7

\* Pushing a thread that is not in a queue.
LEMMA AppendLemma ==
    ASSUME NEW T, NEW seq \in Seq(T), NEW x \in T
    PROVE  /\ Append(seq, x) \in Seq(T)
           /\ Range(Append(seq, x)) = Range(seq) \cup {x}
           /\ IsInjective(seq) /\ x \notin Range(seq) => IsInjective(Append(seq, x))
<1>1. Append(seq, x) \in Seq(T)
  OBVIOUS
<1>2. /\ DOMAIN Append(seq, x) = 1..Len(seq) + 1
      /\ DOMAIN seq = 1..Len(seq) /\ Len(seq) \in Nat
      /\ \A i \in 1..Len(seq) : Append(seq, x)[i] = seq[i]
      /\ Append(seq, x)[Len(seq) + 1] = x
  OBVIOUS
<1> QED
  BY <1>1, <1>2 DEF Range, IsInjective

\* Popping the head of a queue that is not empty.
LEMMA TailLemma ==
    ASSUME NEW T, NEW seq \in Seq(T), seq # << >>
    PROVE  /\ Tail(seq) \in Seq(T)
           /\ Head(seq) \in T
           /\ Head(seq) \in Range(seq)
           /\ IsInjective(seq) => /\ IsInjective(Tail(seq))
                                 /\ Range(Tail(seq)) = Range(seq) \ {Head(seq)}
<1>1. /\ Tail(seq) \in Seq(T) /\ Head(seq) \in T
      /\ Head(seq) = seq[1]
      /\ DOMAIN seq = 1..Len(seq) /\ Len(seq) \in Nat \ {0}
      /\ DOMAIN Tail(seq) = 1..Len(seq) - 1
      /\ \A i \in 1..Len(seq) - 1 : Tail(seq)[i] = seq[i + 1]
  OBVIOUS
<1>2. Head(seq) \in Range(seq)
  BY <1>1 DEF Range
<1>3. ASSUME IsInjective(seq)
      PROVE  IsInjective(Tail(seq))
  BY <1>1, <1>3 DEF IsInjective
<1>4. ASSUME IsInjective(seq)
      PROVE  Range(Tail(seq)) = Range(seq) \ {Head(seq)}
  <2>1. ASSUME NEW i \in DOMAIN Tail(seq)
        PROVE  Tail(seq)[i] \in Range(seq) \ {Head(seq)}
    <3>1. Tail(seq)[i] = seq[i + 1] /\ i + 1 \in DOMAIN seq /\ i + 1 # 1 /\ 1 \in DOMAIN seq
      BY <1>1
    <3>2. seq[i + 1] # seq[1]
      BY <1>4, <3>1 DEF IsInjective
    <3> QED
      BY <1>1, <3>1, <3>2 DEF Range
  <2>2. ASSUME NEW i \in DOMAIN seq, seq[i] # Head(seq)
        PROVE  seq[i] \in Range(Tail(seq))
    <3>1. i - 1 \in DOMAIN Tail(seq) /\ Tail(seq)[i - 1] = seq[i]
      BY <1>1, <2>2
    <3> QED
      BY <3>1 DEF Range
  <2> QED
    BY <2>1, <2>2 DEF Range
<1> QED
  BY <1>1, <1>2, <1>3, <1>4

LEMMA JoinLemma ==
    ASSUME NEW T, NEW a \in Seq(T), NEW b \in Seq(T)
    PROVE  /\ a \o b \in Seq(T) /\ Len(a \o b) = Len(a) + Len(b)
           /\ \A k \in 1..Len(a) : (a \o b)[k] = a[k]
           /\ \A k \in 1..Len(b) : (a \o b)[Len(a) + k] = b[k]
  OBVIOUS

Splice(seq, x, i, j) == SubSeq(seq, 1, i) \o <<x>> \o SubSeq(seq, j, Len(seq))

\* r is seq with one element x in place of those after i and before j.
Spliced(r, seq, x, i, j) ==
    /\ Len(r) = i + 1 + (Len(seq) - j + 1)
    /\ \A k \in 1..Len(r) :
        r[k] = IF k <= i THEN seq[k] ELSE IF k = i + 1 THEN x ELSE seq[k - (i + 2) + j]

LEMMA SpliceLemma ==
    ASSUME NEW T, NEW seq \in Seq(T), NEW x \in T,
           NEW i \in 0..Len(seq), NEW j \in 1..Len(seq) + 1
    PROVE  Splice(seq, x, i, j) \in Seq(T) /\ Spliced(Splice(seq, x, i, j), seq, x, i, j)
<1> DEFINE r == Splice(seq, x, i, j)
           n == Len(seq)
           d == n - j + 1
           a == SubSeq(seq, 1, i)
           b == SubSeq(seq, j, n)
           c == a \o <<x>>
<1>1. n \in Nat /\ DOMAIN seq = 1..n /\ i \in Nat /\ j \in Nat /\ d \in Nat
  OBVIOUS
<1>2. a \in Seq(T) /\ Len(a) = i /\ \A k \in 1..i : a[k] = seq[k]
  BY <1>1
<1>3. b \in Seq(T) /\ Len(b) = d /\ \A k \in 1..d : b[k] = seq[j + k - 1]
  BY <1>1
<1>4. /\ c \in Seq(T) /\ Len(c) = i + 1
      /\ \A k \in 1..i : c[k] = seq[k]
      /\ c[i + 1] = x
  <2> HIDE DEF a
  <2> QED
    BY <1>1, <1>2
<1>5. r = c \o b
  BY DEF Splice
<1> HIDE DEF a, b, c, r
<1>6. /\ r \in Seq(T) /\ Len(r) = i + 1 + d
      /\ \A k \in 1..i + 1 : r[k] = c[k]
      /\ \A k \in 1..d : r[i + 1 + k] = b[k]
  <2> HIDE DEF d
  <2>1. /\ c \o b \in Seq(T) /\ Len(c \o b) = Len(c) + Len(b)
        /\ \A k \in 1..Len(c) : (c \o b)[k] = c[k]
        /\ \A k \in 1..Len(b) : (c \o b)[Len(c) + k] = b[k]
    <3>1. c \in Seq(T) /\ b \in Seq(T)
      BY <1>3, <1>4
    <3> QED
      BY ONLY <3>1, JoinLemma
  <2> QED
    BY <1>1, <1>3, <1>4, <1>5, <2>1
<1>7. ASSUME NEW k \in 1..Len(r), ~(k <= i + 1)
      PROVE  r[k] = seq[k - (i + 2) + j]
  <2> DEFINE l == k - (i + 1)
  <2>1. l \in 1..d /\ i + 1 + l = k /\ j + l - 1 = k - (i + 2) + j
    <3>1. k \in Nat /\ k <= i + 1 + d /\ ~(k <= i + 1)
      BY <1>1, <1>6, <1>7
    <3> HIDE DEF d
    <3> QED
      BY ONLY <1>1, <3>1
  <2> HIDE DEF l
  <2>2. r[i + 1 + l] = b[l] /\ b[l] = seq[j + l - 1]
    BY <1>3, <1>6, <2>1
  <2> QED
    BY <2>1, <2>2
<1>8. \A k \in 1..Len(r) :
        r[k] = IF k <= i THEN seq[k] ELSE IF k = i + 1 THEN x ELSE seq[k - (i + 2) + j]
  <2> TAKE k \in 1..Len(r)
  <2>1. CASE k <= i
    <3>1. k \in 1..i /\ k \in 1..i + 1
      BY <1>1, <2>1
    <3> QED
      BY <1>4, <1>6, <2>1, <3>1
  <2>2. CASE k = i + 1
    <3>1. k \in 1..i + 1 /\ ~(k <= i)
      BY <1>1, <2>2
    <3> QED
      BY <1>4, <1>6, <2>2, <3>1
  <2>3. CASE ~(k <= i) /\ k # i + 1
    <3>1. ~(k <= i + 1)
      BY <1>1, <2>3
    <3> QED
      BY <1>7, <2>3, <3>1
  <2> QED
    BY <2>1, <2>2, <2>3
<1> QED
  BY <1>6, <1>8 DEF Spliced, r

\* Linking a thread into a list at some place.
LEMMA InsertAtLemma ==
    ASSUME NEW T, NEW seq \in Seq(T), NEW x \in T, NEW i \in 1..Len(seq) + 1,
           IsInjective(seq), x \notin Range(seq)
    PROVE  /\ InsertAt(seq, i, x) \in Seq(T)
           /\ IsInjective(InsertAt(seq, i, x))
           /\ Range(InsertAt(seq, i, x)) = Range(seq) \cup {x}
           /\ Len(InsertAt(seq, i, x)) = Len(seq) + 1
           /\ \A k \in 1..Len(seq) + 1 :
                InsertAt(seq, i, x)[k] = IF k < i THEN seq[k]
                                         ELSE IF k = i THEN x ELSE seq[k - 1]
<1> DEFINE r == InsertAt(seq, i, x)
           n == Len(seq)
<1>1. n \in Nat /\ DOMAIN seq = 1..n
  OBVIOUS
<1>2. /\ r \in Seq(T)
      /\ Len(r) = n + 1
      /\ \A k \in 1..n + 1 :
            r[k] = IF k < i THEN seq[k] ELSE IF k = i THEN x ELSE seq[k - 1]
  <2> DEFINE h == i - 1
  <2>1. h \in 0..n /\ i \in 1..n + 1 /\ i = h + 1
    BY <1>1
  <2>2. r = Splice(seq, x, h, i)
    BY DEF InsertAt, Splice
  <2> HIDE DEF r, h
  <2>3. r \in Seq(T) /\ Spliced(r, seq, x, h, i)
    BY <2>1, <2>2, SpliceLemma
  <2>4. \A k \in 1..n + 1 : k - (h + 2) + i = k - 1 /\ (k <= h <=> k < i) /\ (k = h + 1 <=> k = i)
    BY <1>1, <2>1
  <2>5. Len(r) = n + 1
    BY <1>1, <2>1, <2>3 DEF Spliced
  <2> QED
    BY <2>3, <2>4, <2>5 DEF Spliced
<1>3. DOMAIN r = 1..n + 1
  BY <1>2
<1> HIDE DEF r
<1>4. IsInjective(r)
  <2> SUFFICES ASSUME NEW k \in 1..n + 1, NEW m \in 1..n + 1, k < m, r[k] = r[m]
               PROVE  FALSE
    BY <1>1, <1>3 DEF IsInjective
  <2>1. CASE k < i /\ m < i
    BY <1>1, <1>2, <2>1 DEF IsInjective
  <2>2. CASE k < i /\ m = i
    BY <1>1, <1>2, <2>2 DEF Range
  <2>3. CASE k < i /\ m > i
    <3>1. k \in DOMAIN seq /\ m - 1 \in DOMAIN seq /\ k # m - 1 /\ seq[k] = seq[m - 1]
      BY <1>1, <1>2, <2>3
    <3> QED
      BY <3>1 DEF IsInjective
  <2>4. CASE k = i
    <3>1. m - 1 \in DOMAIN seq /\ x = seq[m - 1]
      BY <1>1, <1>2, <2>4
    <3> QED
      BY <3>1 DEF Range
  <2>5. CASE k > i
    <3>1. /\ k - 1 \in DOMAIN seq /\ m - 1 \in DOMAIN seq
          /\ k - 1 # m - 1 /\ seq[k - 1] = seq[m - 1]
      BY <1>1, <1>2, <2>5
    <3> QED
      BY <3>1 DEF IsInjective
  <2> QED
    BY <1>1, <2>1, <2>2, <2>3, <2>4, <2>5
<1>5. \A k \in 1..n + 1 : r[k] \in Range(seq) \cup {x}
  <2> SUFFICES ASSUME NEW k \in 1..n + 1 PROVE r[k] \in Range(seq) \cup {x}
    OBVIOUS
  <2>1. CASE k < i
    <3>1. k \in DOMAIN seq /\ r[k] = seq[k]
      BY <1>1, <1>2, <2>1
    <3> QED
      BY <3>1 DEF Range
  <2>2. CASE k = i
    BY <1>1, <1>2, <2>2
  <2>3. CASE k > i
    <3>1. k - 1 \in DOMAIN seq /\ r[k] = seq[k - 1]
      BY <1>1, <1>2, <2>3
    <3> QED
      BY <3>1 DEF Range
  <2> QED
    BY <1>1, <2>1, <2>2, <2>3
<1>6. \A k \in 1..n : \E m \in 1..n + 1 : r[m] = seq[k]
  <2> SUFFICES ASSUME NEW k \in 1..n PROVE \E m \in 1..n + 1 : r[m] = seq[k]
    OBVIOUS
  <2>1. CASE k < i
    BY <1>1, <1>2, <2>1
  <2>2. CASE ~(k < i)
    <3>1. k + 1 \in 1..n + 1 /\ r[k + 1] = seq[k]
      BY <1>1, <1>2, <2>2
    <3> QED
      BY <3>1
  <2> QED
    BY <2>1, <2>2
<1>7. r[i] = x
  BY <1>1, <1>2
<1>8. Range(r) = Range(seq) \cup {x}
  BY <1>1, <1>3, <1>5, <1>6, <1>7 DEF Range
<1> QED
  BY <1>2, <1>4, <1>8 DEF r

\* Joining two queues that share no thread.
LEMMA ConcatLemma ==
    ASSUME NEW T, NEW a \in Seq(T), NEW b \in Seq(T),
           IsInjective(a), IsInjective(b), Range(a) \cap Range(b) = {}
    PROVE  /\ a \o b \in Seq(T)
           /\ IsInjective(a \o b)
           /\ Range(a \o b) = Range(a) \cup Range(b)
<1> DEFINE r == a \o b
<1>1. /\ Len(a) \in Nat /\ DOMAIN a = 1..Len(a)
      /\ Len(b) \in Nat /\ DOMAIN b = 1..Len(b)
      /\ r \in Seq(T) /\ DOMAIN r = 1..Len(a) + Len(b)
      /\ \A k \in 1..Len(a) : r[k] = a[k]
      /\ \A k \in Len(a) + 1..Len(a) + Len(b) : r[k] = b[k - Len(a)]
  OBVIOUS
<1> HIDE DEF r
<1>4. \A k \in DOMAIN r : k > Len(a) => k - Len(a) \in DOMAIN b /\ r[k] = b[k - Len(a)]
  BY <1>1
<1>5. \A k \in DOMAIN r : ~(k > Len(a)) => k \in DOMAIN a /\ r[k] = a[k]
  BY <1>1
<1>2. IsInjective(r)
  <2> SUFFICES ASSUME NEW k \in DOMAIN r, NEW m \in DOMAIN r, r[k] = r[m]
               PROVE  k = m
    BY DEF IsInjective
  <2>1. CASE ~(k > Len(a)) /\ ~(m > Len(a))
    BY <1>5, <2>1 DEF IsInjective
  <2>2. CASE k > Len(a) /\ m > Len(a)
    <3>1. k - Len(a) = m - Len(a)
      BY <1>4, <2>2 DEF IsInjective
    <3> QED
      BY <1>1, <3>1
  <2>3. CASE ~(k > Len(a)) /\ m > Len(a)
    BY <1>4, <1>5, <2>3 DEF Range
  <2>4. CASE k > Len(a) /\ ~(m > Len(a))
    BY <1>4, <1>5, <2>4 DEF Range
  <2> QED
    BY <2>1, <2>2, <2>3, <2>4
<1>3. Range(r) = Range(a) \cup Range(b)
  <2>1. \A k \in DOMAIN b : k + Len(a) \in DOMAIN r /\ (k + Len(a)) - Len(a) = k
                             /\ k + Len(a) > Len(a)
    BY <1>1
  <2>2. \A k \in DOMAIN a : k \in DOMAIN r /\ ~(k > Len(a))
    BY <1>1
  <2>3. Range(b) \subseteq Range(r)
    <3> SUFFICES ASSUME NEW k \in DOMAIN b PROVE b[k] \in Range(r)
      BY DEF Range
    <3>1. r[k + Len(a)] = b[k] /\ k + Len(a) \in DOMAIN r
      BY <1>4, <2>1
    <3> QED
      BY <3>1 DEF Range
  <2>4. Range(a) \subseteq Range(r)
    BY <1>5, <2>2 DEF Range
  <2>5. Range(r) \subseteq Range(a) \cup Range(b)
    BY <1>4, <1>5 DEF Range
  <2> QED
    BY <2>3, <2>4, <2>5
<1> QED
  BY <1>1, <1>2, <1>3 DEF r

\* Cutting a list in two.
LEMMA CutLemma ==
    ASSUME NEW T, NEW seq \in Seq(T), IsInjective(seq), NEW n \in 0..Len(seq)
    PROVE  LET front == SubSeq(seq, 1, n)
               back == SubSeq(seq, n + 1, Len(seq))
           IN  /\ front \in Seq(T) /\ back \in Seq(T)
               /\ IsInjective(front) /\ IsInjective(back)
               /\ Range(front) \cup Range(back) = Range(seq)
               /\ Range(front) \cap Range(back) = {}
<1> DEFINE front == SubSeq(seq, 1, n)
           back == SubSeq(seq, n + 1, Len(seq))
<1>1. /\ Len(seq) \in Nat /\ DOMAIN seq = 1..Len(seq) /\ n \in Nat
      /\ front \in Seq(T) /\ DOMAIN front = 1..n
      /\ back \in Seq(T) /\ DOMAIN back = 1..Len(seq) - n
      /\ \A k \in 1..n : front[k] = seq[k]
      /\ \A k \in 1..Len(seq) - n : back[k] = seq[n + k]
  OBVIOUS
<1> HIDE DEF front, back
<1>5. \A k \in DOMAIN front : k \in DOMAIN seq /\ front[k] = seq[k] /\ k <= n
  BY <1>1
<1>6. \A k \in DOMAIN back : n + k \in DOMAIN seq /\ back[k] = seq[n + k] /\ ~(n + k <= n)
  BY <1>1
<1>2. IsInjective(front) /\ IsInjective(back)
  <2>1. IsInjective(front)
    BY <1>5 DEF IsInjective
  <2>2. ASSUME NEW k \in DOMAIN back, NEW m \in DOMAIN back, back[k] = back[m]
        PROVE  k = m
    <3>1. n + k = n + m
      BY <1>6, <2>2 DEF IsInjective
    <3> QED
      BY <1>1, <3>1
  <2> QED
    BY <2>1, <2>2 DEF IsInjective
<1>3. Range(front) \cap Range(back) = {}
  <2> SUFFICES ASSUME NEW k \in DOMAIN front, NEW m \in DOMAIN back, front[k] = back[m]
               PROVE  FALSE
    BY DEF Range
  <2>1. k = n + m
    BY <1>5, <1>6 DEF IsInjective
  <2> QED
    BY <1>5, <1>6, <2>1
<1>4. Range(front) \cup Range(back) = Range(seq)
  <2>1. \A k \in n + 1..Len(seq) : back[k - n] = seq[k] /\ k - n \in 1..Len(seq) - n
    BY <1>1
  <2>2. \A k \in DOMAIN seq : k \in 1..n \/ k \in n + 1..Len(seq)
    BY <1>1
  <2>3. Range(front) \cup Range(back) \subseteq Range(seq)
    BY <1>5, <1>6 DEF Range
  <2>4. Range(seq) \subseteq Range(front) \cup Range(back)
    BY <1>1, <2>1, <2>2 DEF Range
  <2> QED
    BY <2>3, <2>4
<1> QED
  BY <1>1, <1>2, <1>3, <1>4 DEF front, back

\* The empty queue.
LEMMA EmptyLemma ==
    ASSUME NEW T
    PROVE  << >> \in Seq(T) /\ Range(<< >>) = {} /\ IsInjective(<< >>)
<1>1. << >> \in Seq(T) /\ DOMAIN << >> = {}
  OBVIOUS
<1> QED
  BY <1>1 DEF Range, IsInjective

\* A queue holds only what its type says.
LEMMA RangeLemma ==
    ASSUME NEW T, NEW seq \in Seq(T)
    PROVE  Range(seq) \subseteq T
  BY DEF Range

\* A queue is a prefix of what it becomes when others join at its tail.
LEMMA PrefixLemma ==
    ASSUME NEW T, NEW a \in Seq(T), NEW b \in Seq(T)
    PROVE  /\ IsPrefix(a, a)
           /\ IsPrefix(a, a \o b)
           /\ \A x \in T : IsPrefix(a, Append(a, x))
<1>1. SubSeq(a, 1, Len(a)) = a /\ Len(a) \in Nat /\ Len(b) \in Nat
  OBVIOUS
<1>2. Len(a \o b) = Len(a) + Len(b) /\ SubSeq(a \o b, 1, Len(a)) = a
  OBVIOUS
<1>3. \A x \in T : Len(Append(a, x)) = Len(a) + 1 /\ SubSeq(Append(a, x), 1, Len(a)) = a
  OBVIOUS
<1> QED
  BY <1>1, <1>2, <1>3 DEF IsPrefix

\* The last element of a queue leaves it empty.
LEMMA LastLemma ==
    ASSUME NEW T, NEW seq \in Seq(T), seq # << >>
    PROVE  Len(seq) = 1 <=> Tail(seq) = << >>
<1> DEFINE r == Tail(seq)
<1>1. r \in Seq(T) /\ Len(r) = Len(seq) - 1 /\ Len(seq) \in Nat
  OBVIOUS
<1> HIDE DEF r
<1>2. r = << >> <=> Len(r) = 0
  BY <1>1, SMTT(30)
<1> QED
  BY <1>1, <1>2 DEF r

\* What joins at the tail of a queue does not change its head.
LEMMA TailConcatLemma ==
    ASSUME NEW T, NEW a \in Seq(T), NEW b \in Seq(T), a # << >>
    PROVE  Head(a \o b) = Head(a) /\ Tail(a \o b) = Tail(a) \o b
<1>1. Len(a) \in Nat \ {0} /\ Len(b) \in Nat
  OBVIOUS
<1>2. Head(a \o b) = Head(a)
  BY <1>1
<1>3. /\ Tail(a \o b) \in Seq(T) /\ Tail(a) \o b \in Seq(T)
      /\ Len(Tail(a \o b)) = Len(a) - 1 + Len(b)
      /\ Len(Tail(a) \o b) = Len(a) - 1 + Len(b)
  BY <1>1
<1>4. \A k \in 1..Len(a) - 1 + Len(b) : Tail(a \o b)[k] = (Tail(a) \o b)[k]
  BY <1>1
<1> QED
  BY <1>2, <1>3, <1>4
=============================================================================
