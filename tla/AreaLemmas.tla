----------------------------- MODULE AreaLemmas -----------------------------
(***************************************************************************)
(* Lemmas about the sorted list of areas (VmAreas), for an address space   *)
(* of any size: what clearing a range, linking a new area, merging areas   *)
(* and looking for a gap do to the pages that the areas cover.             *)
(***************************************************************************)
EXTENDS VmAreas, QueueLemmas

USE VmAreasAssumption DEF ADDR_MIN

-----------------------------------------------------------------------------
(***************************************************************************)
(* Sorted lists of areas                                                   *)
(***************************************************************************)
WellFormed(a) == a \in Area /\ ADDR_MIN <= a.begin /\ a.begin < a.end

\* Earlier areas end before later ones begin.
Sorted(list) == \A i, j \in DOMAIN list : i < j => list[i].end <= list[j].begin

Ordered(list) ==
    list \in Seq(Area) /\ (\A i \in DOMAIN list : WellFormed(list[i])) /\ Sorted(list)

\* Page p lies in an area with the flags m.
Covers(list, p, m) ==
    \E a \in Range(list) : a.begin <= p /\ p < a.end /\ a.flags = m

\* The numbers in an area
LEMMA AreaLemma ==
    ASSUME NEW a, WellFormed(a)
    PROVE  /\ a.begin \in Nat /\ a.end \in Nat /\ a.begin < a.end /\ 0 < a.begin
           /\ a.end <= ADDR_MAX /\ a.flags \in Mode
  BY DEF WellFormed, Area, Page

\* The areas of a sorted list are all different.
LEMMA OrderedLemma ==
    ASSUME NEW list, Ordered(list)
    PROVE  /\ Len(list) \in Nat /\ DOMAIN list = 1..Len(list)
           /\ \A i \in 1..Len(list) : WellFormed(list[i]) /\ list[i] \in Range(list)
           /\ \A a \in Range(list) : WellFormed(a)
           /\ IsInjective(list) /\ list \in Seq(Area)
<1>1. /\ Len(list) \in Nat /\ DOMAIN list = 1..Len(list) /\ list \in Seq(Area)
  BY DEF Ordered
<1>2. \A i \in 1..Len(list) : WellFormed(list[i]) /\ list[i] \in Range(list)
  BY <1>1 DEF Ordered, Range
<1>3. \A a \in Range(list) : WellFormed(a)
  BY <1>1, <1>2 DEF Range
<1>4. ASSUME NEW i \in 1..Len(list), NEW j \in 1..Len(list), i < j
      PROVE  list[i] # list[j]
  <2>1. list[i].end <= list[j].begin
    BY <1>1, <1>4 DEF Ordered, Sorted
  <2>2. list[j].begin < list[j].end /\ list[j].begin \in Nat /\ list[j].end \in Nat
    BY <1>2, AreaLemma
  <2> QED
    BY <2>1, <2>2
<1>5. IsInjective(list)
  BY <1>1, <1>4 DEF IsInjective
<1> QED
  BY <1>1, <1>2, <1>3, <1>5

\* The list of a new process
LEMMA EmptyOrdered == Ordered(<< >>) /\ \A p, m : ~Covers(<< >>, p, m)
  BY EmptyLemma DEF Ordered, Sorted, Covers

\* A list of one area
LEMMA SingleOrdered ==
    ASSUME NEW a, WellFormed(a)
    PROVE  Ordered(<<a>>) /\ Range(<<a>>) = {a}
<1>1. <<a>> \in Seq(Area) /\ DOMAIN <<a>> = {1} /\ <<a>>[1] = a
  BY DEF WellFormed
<1> QED
  BY <1>1 DEF Ordered, Sorted, Range

\* The two halves of an area that is split
LEMMA PairOrdered ==
    ASSUME NEW a, NEW c, WellFormed(a), WellFormed(c), a.end <= c.begin
    PROVE  Ordered(<<a, c>>) /\ Range(<<a, c>>) = {a, c}
<1>1. /\ <<a, c>> \in Seq(Area) /\ DOMAIN <<a, c>> = {1, 2}
      /\ <<a, c>>[1] = a /\ <<a, c>>[2] = c
  BY DEF WellFormed
<1> QED
  BY <1>1 DEF Ordered, Sorted, Range

\* One sorted list put after another that lies below it
LEMMA JoinOrdered ==
    ASSUME NEW s, NEW t, Ordered(s), Ordered(t),
           \A x \in Range(s), y \in Range(t) : x.end <= y.begin
    PROVE  Ordered(s \o t) /\ Range(s \o t) = Range(s) \cup Range(t)
<1> DEFINE r == s \o t
<1>1. /\ Len(s) \in Nat /\ DOMAIN s = 1..Len(s) /\ s \in Seq(Area)
      /\ Len(t) \in Nat /\ DOMAIN t = 1..Len(t) /\ t \in Seq(Area)
  BY DEF Ordered
<1>2. /\ r \in Seq(Area) /\ DOMAIN r = 1..Len(s) + Len(t)
      /\ \A k \in 1..Len(s) : r[k] = s[k]
      /\ \A k \in Len(s) + 1..Len(s) + Len(t) : r[k] = t[k - Len(s)]
  BY <1>1
<1> HIDE DEF r
<1>3. \A k \in DOMAIN r : k > Len(s) => k - Len(s) \in DOMAIN t /\ r[k] = t[k - Len(s)]
  BY <1>1, <1>2
<1>4. \A k \in DOMAIN r : ~(k > Len(s)) => k \in DOMAIN s /\ r[k] = s[k]
  BY <1>1, <1>2
<1>5. \A k \in DOMAIN r : WellFormed(r[k])
  BY <1>3, <1>4 DEF Ordered
<1>6. ASSUME NEW i \in DOMAIN r, NEW j \in DOMAIN r, i < j
      PROVE  r[i].end <= r[j].begin
  <2>1. CASE i > Len(s)
    <3>1. j > Len(s) /\ i - Len(s) < j - Len(s)
      BY <1>1, <1>2, <1>6, <2>1
    <3> QED
      BY <1>3, <2>1, <3>1 DEF Ordered, Sorted
  <2>2. CASE ~(i > Len(s)) /\ j > Len(s)
    <3>1. r[i] \in Range(s) /\ r[j] \in Range(t)
      BY <1>3, <1>4, <2>2 DEF Range
    <3> QED
      BY <3>1
  <2>3. CASE ~(j > Len(s))
    <3>1. ~(i > Len(s))
      BY <1>1, <1>2, <1>6, <2>3
    <3> QED
      BY <1>4, <1>6, <2>3, <3>1 DEF Ordered, Sorted
  <2> QED
    BY <2>1, <2>2, <2>3
<1>7. Ordered(r)
  BY <1>2, <1>5, <1>6 DEF Ordered, Sorted
<1>8. Range(r) \subseteq Range(s) \cup Range(t)
  BY <1>3, <1>4 DEF Range
<1>9. Range(s) \subseteq Range(r)
  <2>1. \A k \in DOMAIN s : k \in DOMAIN r /\ r[k] = s[k]
    BY <1>1, <1>2
  <2> QED
    BY <2>1 DEF Range
<1>10. Range(t) \subseteq Range(r)
  <2>1. \A k \in DOMAIN t : Len(s) + k \in DOMAIN r /\ r[Len(s) + k] = t[k]
    BY <1>1, <1>2
  <2> QED
    BY <2>1 DEF Range
<1>11. Range(r) = Range(s) \cup Range(t)
  BY <1>8, <1>9, <1>10
<1> QED
  BY <1>7, <1>11 DEF r

\* A part of a sorted list
LEMMA PartOrdered ==
    ASSUME NEW list, Ordered(list), NEW i \in 1..Len(list) + 1, NEW j \in 0..Len(list)
    PROVE  /\ Ordered(SubSeq(list, i, j))
           /\ Range(SubSeq(list, i, j)) = {list[k] : k \in i..j}
<1> DEFINE r == SubSeq(list, i, j)
           n == IF i <= j THEN j - i + 1 ELSE 0
<1>1. /\ Len(list) \in Nat /\ DOMAIN list = 1..Len(list) /\ list \in Seq(Area)
  BY DEF Ordered
<1>2. /\ r \in Seq(Area) /\ DOMAIN r = 1..n /\ n \in Nat
      /\ \A k \in 1..n : r[k] = list[i + k - 1] /\ i + k - 1 \in i..j
  BY <1>1
<1>3. \A k \in i..j : k - i + 1 \in 1..n /\ r[k - i + 1] = list[k]
  BY <1>1, <1>2
<1>4. i..j \subseteq 1..Len(list)
  BY <1>1
<1> HIDE DEF r, n
<1>5. \A k \in DOMAIN r : WellFormed(r[k])
  BY <1>1, <1>2, <1>4 DEF Ordered
<1>6. Sorted(r)
  <2> SUFFICES ASSUME NEW k \in 1..n, NEW l \in 1..n, k < l
               PROVE  r[k].end <= r[l].begin
    BY <1>2 DEF Sorted
  <2>1. i + k - 1 < i + l - 1
    BY <1>2
  <2> QED
    BY <1>1, <1>2, <1>4, <2>1 DEF Ordered, Sorted
<1>7. Range(r) = {list[k] : k \in i..j}
  <2>1. Range(r) \subseteq {list[k] : k \in i..j}
    BY <1>2 DEF Range
  <2>2. \A k \in i..j : list[k] \in Range(r)
    <3> TAKE k \in i..j
    <3>1. k - i + 1 \in DOMAIN r /\ r[k - i + 1] = list[k]
      BY <1>2, <1>3
    <3> QED
      BY <3>1 DEF Range
  <2> QED
    BY <2>1, <2>2
<1> QED
  BY <1>2, <1>5, <1>6, <1>7 DEF r, Ordered

\* The first of some places of a list, and the last
LEMMA FirstLemma ==
    ASSUME NEW list \in Seq(Area), NEW S \in SUBSET (DOMAIN list)
    PROVE  /\ FirstOf(list, S) \in 1..Len(list) + 1 /\ \A i \in S : FirstOf(list, S) <= i
           /\ FirstOf(list, S) \in S \/ FirstOf(list, S) = Len(list) + 1
<1> DEFINE R == S \cup {Len(list) + 1}
<1>1. Len(list) \in Nat /\ DOMAIN list = 1..Len(list)
  OBVIOUS
<1>2. R \in SUBSET Nat /\ R # {} /\ R \subseteq 1..Len(list) + 1
  BY <1>1
<1>3. \E m \in R : \A k \in R : m <= k
  <2> HIDE DEF R
  <2> QED
    BY <1>2, LeastLemma
<1>4. Min(R) \in R /\ \A k \in R : Min(R) <= k
  <2> HIDE DEF R
  <2> QED
    BY <1>3 DEF Min
<1> QED
  BY <1>1, <1>2, <1>4 DEF FirstOf

\* The greatest of some places
LEMMA LastOfLemma ==
    ASSUME NEW n \in Nat, NEW S \in SUBSET (1..n), S # {}
    PROVE  Max(S) \in S /\ \A k \in S : k <= Max(S)
<1> DEFINE R == {n - k : k \in S}
<1>1. R \in SUBSET Nat /\ R # {}
  <2>1. \A k \in S : n - k \in Nat /\ n - k \in R
    OBVIOUS
  <2> QED
    BY <2>1
<1>2. PICK m \in R : \A k \in R : m <= k
  <2> HIDE DEF R
  <2> QED
    BY <1>1, LeastLemma
<1>3. PICK x \in S : m = n - x
  BY <1>2
<1>4. \A k \in S : x >= k
  BY <1>2, <1>3
<1> QED
  BY <1>4 DEF Max

-----------------------------------------------------------------------------
(***************************************************************************)
(* Clearing a range                                                        *)
(***************************************************************************)
\* find_overlap answers one of six, and what each means.
LEMMA OverlapLemma ==
    ASSUME NEW a, WellFormed(a), NEW b \in Nat, NEW e \in Nat, b < e
    PROVE  /\ find_overlap(a, b, e) = "After" <=> e <= a.begin
           /\ find_overlap(a, b, e) = "Before" <=> b >= a.end
           /\ find_overlap(a, b, e) = "Starts_with" <=>
                b <= a.begin /\ a.begin < e /\ e < a.end
           /\ find_overlap(a, b, e) = "Whole" <=> b <= a.begin /\ e >= a.end
           /\ find_overlap(a, b, e) = "Ends_with" <=>
                a.begin < b /\ b < a.end /\ e >= a.end
           /\ find_overlap(a, b, e) = "Contains" <=> a.begin < b /\ e < a.end
  BY AreaLemma DEF find_overlap

\* What clearing the range from b to e leaves of a list, in two parts
Leaves(list, b, e, s, t) ==
    /\ Ordered(s) /\ Ordered(t) /\ Ordered(s \o t)
    /\ \A p \in Nat : \A m : Covers(s \o t, p, m) <=> Covers(list, p, m) /\ ~(b <= p /\ p < e)
    /\ ~Splits(list, b, e) =>
        /\ \A x \in Range(s) : x.end <= b
        /\ \A x \in Range(t) : e <= x.begin

\* What is left of an area that is passed and not dropped
Trimmed(a, b, e) == IF find_overlap(a, b, e) = "Ends_with" THEN [a EXCEPT !.end = b] ELSE a

\* Its pages are those before the range.
LEMMA TrimmedLemma ==
    ASSUME NEW a, WellFormed(a), NEW b \in Nat, NEW e \in Nat, b < e,
           find_overlap(a, b, e) \in {"Before", "Ends_with"}
    PROVE  /\ WellFormed(Trimmed(a, b, e))
           /\ Trimmed(a, b, e).begin = a.begin /\ Trimmed(a, b, e).flags = a.flags
           /\ Trimmed(a, b, e).end <= a.end /\ Trimmed(a, b, e).end <= b
           /\ \A p \in Nat : p < Trimmed(a, b, e).end <=> p < a.end /\ p < b
<1> DEFINE t == Trimmed(a, b, e)
<1>1. CASE find_overlap(a, b, e) = "Ends_with"
  <2>1. a.begin < b /\ b < a.end
    BY <1>1, OverlapLemma
  <2>2. t = [a EXCEPT !.end = b]
    BY <1>1 DEF Trimmed
  <2>3. t \in Area /\ t.begin = a.begin /\ t.flags = a.flags /\ t.end = b
    BY <2>1, <2>2, AreaLemma DEF WellFormed, Area
  <2> HIDE DEF t
  <2>4. /\ WellFormed(t) /\ t.end <= a.end /\ t.end <= b
        /\ \A p \in Nat : p < t.end <=> p < a.end /\ p < b
    BY <2>1, <2>3, AreaLemma DEF WellFormed
  <2> QED
    BY <2>3, <2>4 DEF t
<1>2. CASE find_overlap(a, b, e) = "Before"
  <2>1. b >= a.end
    BY <1>2, OverlapLemma
  <2>2. t = a
    BY <1>2 DEF Trimmed
  <2> QED
    BY <2>1, <2>2, AreaLemma
<1> QED
  BY <1>1, <1>2

\* What is left of the area where the walk stops
AtCut(a, b, e) ==
    CASE find_overlap(a, b, e) = "After" -> <<a>>
      [] find_overlap(a, b, e) = "Starts_with" -> <<[a EXCEPT !.begin = e]>>
      [] find_overlap(a, b, e) = "Contains" -> <<[a EXCEPT !.end = b], [a EXCEPT !.begin = e]>>

\* Its pages are those outside the range.
LEMMA AtCutLemma ==
    ASSUME NEW a, WellFormed(a), NEW b \in Nat, NEW e \in Nat, b < e,
           find_overlap(a, b, e) \in {"After", "Starts_with", "Contains"}
    PROVE  /\ Ordered(AtCut(a, b, e))
           /\ \A y \in Range(AtCut(a, b, e)) : a.begin <= y.begin /\ y.end <= a.end
           /\ \A p \in Nat : \A m : Covers(AtCut(a, b, e), p, m) <=>
                a.begin <= p /\ p < a.end /\ a.flags = m /\ ~(b <= p /\ p < e)
           /\ find_overlap(a, b, e) # "Contains" =>
                \A y \in Range(AtCut(a, b, e)) : e <= y.begin
<1> DEFINE lower == [a EXCEPT !.end = b]
           upper == [a EXCEPT !.begin = e]
<1>1. CASE find_overlap(a, b, e) = "After"
  <2>1. AtCut(a, b, e) = <<a>> /\ e <= a.begin
    BY <1>1, OverlapLemma DEF AtCut
  <2> QED
    BY <1>1, <2>1, SingleOrdered, AreaLemma DEF Covers
<1>2. CASE find_overlap(a, b, e) = "Starts_with"
  <2>1. AtCut(a, b, e) = <<upper>> /\ b <= a.begin /\ a.begin < e /\ e < a.end
    BY <1>2, OverlapLemma DEF AtCut
  <2>2. upper \in Area /\ upper.begin = e /\ upper.end = a.end /\ upper.flags = a.flags
    BY <2>1, AreaLemma DEF WellFormed, Area, Page
  <2> HIDE DEF upper
  <2>3. WellFormed(upper)
    BY <2>1, <2>2, AreaLemma DEF WellFormed
  <2> QED
    BY <1>2, <2>1, <2>2, <2>3, SingleOrdered, AreaLemma DEF Covers
<1>3. CASE find_overlap(a, b, e) = "Contains"
  <2>1. AtCut(a, b, e) = <<lower, upper>> /\ a.begin < b /\ e < a.end
    BY <1>3, OverlapLemma DEF AtCut
  <2>2. /\ upper \in Area /\ upper.begin = e /\ upper.end = a.end /\ upper.flags = a.flags
        /\ lower \in Area /\ lower.begin = a.begin /\ lower.end = b /\ lower.flags = a.flags
    BY <2>1, AreaLemma DEF WellFormed, Area, Page
  <2> HIDE DEF lower, upper
  <2>3. WellFormed(upper) /\ WellFormed(lower)
    BY <2>1, <2>2, AreaLemma DEF WellFormed
  <2>5. lower.end <= upper.begin
    BY <2>2
  <2>8. Ordered(<<lower, upper>>) /\ Range(<<lower, upper>>) = {lower, upper}
    BY <2>3, <2>5, PairOrdered
  <2> QED
    BY <1>3, <2>1, <2>2, <2>8, AreaLemma DEF Covers
<1> QED
  BY <1>1, <1>2, <1>3

\* vm_clear_for_insert removes the range and no other page, and a new area fits
\* between the two parts unless one area held the whole range.
LEMMA ClearLemma ==
    ASSUME NEW list, Ordered(list), NEW b \in Nat, NEW e \in Nat, b < e
    PROVE  Leaves(list, b, e, vm_clear_for_insert(list, b, e).before,
                              vm_clear_for_insert(list, b, e).after)
<1> DEFINE n == Len(list)
           stops == {i \in DOMAIN list :
                        find_overlap(list[i], b, e) \in {"After", "Starts_with", "Contains"}}
           stop == FirstOf(list, stops)
           front == SubSeq(list, 1, stop - 1)
           whole == {a \in Range(list) : find_overlap(a, b, e) = "Whole"}
           passed == Without(front, whole)
           at == list[stop]
           rest == SubSeq(list, stop + 1, n)
           s == [i \in DOMAIN passed |->
                    IF find_overlap(passed[i], b, e) = "Ends_with"
                    THEN [passed[i] EXCEPT !.end = b] ELSE passed[i]]
           t == IF stop > n THEN << >> ELSE AtCut(at, b, e) \o rest
<1>1. /\ n \in Nat /\ DOMAIN list = 1..n /\ list \in Seq(Area)
      /\ \A i \in 1..n : WellFormed(list[i]) /\ list[i] \in Range(list)
      /\ \A a \in Range(list) : WellFormed(a)
      /\ Range(list) = {list[i] : i \in 1..n}
  BY OrderedLemma DEF Range
<1>2. /\ stop \in 1..n + 1 /\ \A i \in stops : stop <= i
      /\ stop \in stops \/ stop = n + 1
  <2>1. stops \in SUBSET (DOMAIN list)
    OBVIOUS
  <2> HIDE DEF stops
  <2> QED
    BY <1>1, <2>1, FirstLemma
<1>3. /\ stop \in 1..n => find_overlap(at, b, e) \in {"After", "Starts_with", "Contains"}
      /\ \A i \in 1..(stop - 1) :
            find_overlap(list[i], b, e) \notin {"After", "Starts_with", "Contains"}
  <2>1. /\ stop \in 1..n => stop \in stops
        /\ \A i \in 1..(stop - 1) : i \in DOMAIN list /\ i \notin stops
    <3> HIDE DEF stop, stops
    <3> QED
      BY <1>1, <1>2
  <2> HIDE DEF stop
  <2> QED
    BY <2>1
<1>4. s = [i \in DOMAIN passed |-> Trimmed(passed[i], b, e)]
  BY DEF Trimmed
<1>5. /\ vm_clear_for_insert(list, b, e).before = s
      /\ vm_clear_for_insert(list, b, e).after = t
  <2>1. t = IF stop > n THEN << >>
            ELSE CASE find_overlap(at, b, e) = "After" -> <<at>> \o rest
                   [] find_overlap(at, b, e) = "Starts_with" ->
                        <<[at EXCEPT !.begin = e]>> \o rest
                   [] find_overlap(at, b, e) = "Contains" ->
                        <<[at EXCEPT !.end = b], [at EXCEPT !.begin = e]>> \o rest
    <3> HIDE DEF stop, at, rest
    <3> QED
      BY <1>2, <1>3 DEF AtCut
  <2> QED
    BY <2>1 DEF vm_clear_for_insert
<1> HIDE DEF s, t, stops, stop
<1>6. /\ Ordered(front) /\ Range(front) = {list[k] : k \in 1..(stop - 1)}
  <2>1. 1 \in 1..n + 1 /\ stop - 1 \in 0..n
    BY <1>1, <1>2
  <2> QED
    BY <2>1, PartOrdered
<1>7. \A a \in Range(front) : /\ a \in Range(list) /\ WellFormed(a)
                              /\ find_overlap(a, b, e) \in {"Before", "Whole", "Ends_with"}
  <2> SUFFICES ASSUME NEW k \in 1..(stop - 1)
               PROVE  /\ list[k] \in Range(list) /\ WellFormed(list[k])
                      /\ find_overlap(list[k], b, e) \in {"Before", "Whole", "Ends_with"}
    BY <1>6
  <2>1. k \in 1..n
    BY <1>1, <1>2
  <2>2. WellFormed(list[k])
    BY <1>1, <2>1
  <2>3. find_overlap(list[k], b, e) \notin {"After", "Starts_with", "Contains"}
    BY <1>3
  <2>4. find_overlap(list[k], b, e) \in {"Before", "Whole", "Ends_with"}
    <3> DEFINE a == list[k]
    <3>1. WellFormed(a)
      BY <2>2
    <3>2. find_overlap(a, b, e) \notin {"After", "Starts_with", "Contains"}
      BY <2>3
    <3> HIDE DEF a
    <3>3. find_overlap(a, b, e) \in {"Before", "Whole", "Ends_with"}
      BY <3>1, <3>2, OverlapLemma, AreaLemma
    <3> QED
      BY <3>3 DEF a
  <2> QED
    BY <1>1, <2>1, <2>2, <2>4

<1>8. /\ passed \in Seq(Area) /\ Range(passed) = Range(front) \ whole
      /\ \E f \in [DOMAIN passed -> DOMAIN front] :
            /\ \A k \in DOMAIN f : passed[k] = front[f[k]]
            /\ \A k, m \in DOMAIN f : k < m => f[k] < f[m]
  <2>1. front \in Seq(Area) /\ IsInjective(front)
    BY <1>6, OrderedLemma
  <2> HIDE DEF front, whole
  <2> QED
    BY <2>1, WithoutLemma
<1>9. \A a \in Range(passed) : /\ a \in Range(front) /\ WellFormed(a)
                               /\ find_overlap(a, b, e) \in {"Before", "Ends_with"}
  <2>1. \A a \in Range(front) \ whole : find_overlap(a, b, e) # "Whole"
    BY <1>7
  <2> HIDE DEF front, whole, passed
  <2> QED
    BY <1>7, <1>8, <2>1
<1> HIDE DEF front, passed
<1>10. \A k \in DOMAIN passed : passed[k] \in Range(passed)
  BY DEF Range
<1>11. /\ DOMAIN s = DOMAIN passed
       /\ \A k \in DOMAIN s : s[k] = Trimmed(passed[k], b, e)
  BY <1>4
<1>12. \A k \in DOMAIN s :
          /\ WellFormed(s[k]) /\ s[k].end <= b /\ s[k].end <= passed[k].end
          /\ s[k].begin = passed[k].begin /\ s[k].flags = passed[k].flags
          /\ \A p \in Nat : p < s[k].end <=> p < passed[k].end /\ p < b
  BY <1>9, <1>10, <1>11, TrimmedLemma
<1>13. Ordered(s)
  <2>1. Len(passed) \in Nat /\ DOMAIN passed = 1..Len(passed)
    BY <1>8
  <2>2. s \in Seq(Area)
    <3>1. s = [k \in 1..Len(passed) |-> s[k]]
      BY <1>4, <2>1
    <3>2. \A k \in 1..Len(passed) : s[k] \in Area
      BY <1>11, <1>12, <2>1 DEF WellFormed
    <3> QED
      BY <2>1, <3>1, <3>2
  <2>3. Sorted(s)
    <3> SUFFICES ASSUME NEW i \in DOMAIN s, NEW j \in DOMAIN s, i < j
                 PROVE  s[i].end <= s[j].begin
      BY DEF Sorted
    <3>1. PICK f \in [DOMAIN passed -> DOMAIN front] :
            /\ \A k \in DOMAIN f : passed[k] = front[f[k]]
            /\ \A k, m \in DOMAIN f : k < m => f[k] < f[m]
      BY <1>8
    <3>2. passed[i].end <= passed[j].begin
      BY <1>6, <1>11, <3>1 DEF Ordered, Sorted
    <3>3. WellFormed(passed[i]) /\ WellFormed(passed[j]) /\ WellFormed(s[i])
      BY <1>9, <1>10, <1>11, <1>12
    <3> QED
      BY <1>12, <3>2, <3>3, AreaLemma
  <2> QED
    BY <1>12, <2>2, <2>3 DEF Ordered
<1>14. \A x \in Range(s) : /\ x.end <= b
                           /\ \E a \in Range(front) : x.end <= a.end /\ WellFormed(a)
  BY <1>7, <1>9, <1>10, <1>11, <1>12 DEF Range
<1>15. \A p \in Nat : \A m : Covers(s, p, m) <=> Covers(front, p, m) /\ ~(b <= p /\ p < e)
  <2> SUFFICES ASSUME NEW p \in Nat, NEW m
               PROVE  Covers(s, p, m) <=> Covers(front, p, m) /\ ~(b <= p /\ p < e)
    OBVIOUS
  <2>1. ASSUME Covers(s, p, m) PROVE Covers(front, p, m) /\ p < b
    <3>1. PICK k \in DOMAIN s : s[k].begin <= p /\ p < s[k].end /\ s[k].flags = m
      BY <2>1 DEF Covers, Range
    <3>2. passed[k] \in Range(front)
      BY <1>9, <1>10, <1>11
    <3> QED
      BY <1>12, <3>1, <3>2 DEF Covers
  <2>2. ASSUME Covers(front, p, m), ~(b <= p /\ p < e) PROVE Covers(s, p, m)
    <3>1. PICK a \in Range(front) : a.begin <= p /\ p < a.end /\ a.flags = m
      BY <2>2 DEF Covers
    <3>2. WellFormed(a) /\ find_overlap(a, b, e) \in {"Before", "Whole", "Ends_with"}
      BY <1>7
    <3>3. a.end <= e
      BY <3>2, OverlapLemma, AreaLemma
    <3>4. p < b /\ find_overlap(a, b, e) # "Whole"
      BY <2>2, <3>1, <3>2, <3>3, OverlapLemma, AreaLemma
    <3>5. a \notin whole
      BY <3>4
    <3>6. PICK k \in DOMAIN passed : passed[k] = a
      BY <1>8, <3>1, <3>5 DEF Range
    <3>7. s[k] \in Range(s)
      BY <1>11 DEF Range
    <3> QED
      BY <1>11, <1>12, <3>1, <3>4, <3>6, <3>7 DEF Covers
  <2> QED
    BY <2>1, <2>2
<1> HIDE DEF whole
<1>16. CASE stop > n
  <2>1. t = << >>
    BY <1>16 DEF t
  <2>2. stop - 1 = n
    BY <1>1, <1>2, <1>16
  <2>3. Range(front) = Range(list)
    BY <1>1, <1>6, <2>2
  <2>4. Ordered(t) /\ Range(t) = {}
    BY <2>1, EmptyOrdered, EmptyLemma
  <2>5. Ordered(s \o t) /\ Range(s \o t) = Range(s)
    BY <1>13, <2>4, JoinOrdered
  <2>6. \A p \in Nat : \A m : Covers(s \o t, p, m) <=> Covers(list, p, m) /\ ~(b <= p /\ p < e)
    BY <1>15, <2>3, <2>5 DEF Covers
  <2>7. Leaves(list, b, e, s, t)
    BY <1>13, <1>14, <2>4, <2>5, <2>6 DEF Leaves
  <2> QED
    BY <1>5, <2>7
<1>17. CASE stop \in 1..n
  <2> DEFINE cut == AtCut(at, b, e)
  <2>1. WellFormed(at) /\ find_overlap(at, b, e) \in {"After", "Starts_with", "Contains"}
    BY <1>1, <1>3, <1>17
  <2>2. t = cut \o rest
    <3>1. ~(stop > n)
      BY <1>1, <1>17
    <3> HIDE DEF n, at, rest
    <3> QED
      BY <3>1 DEF t
  <2>3. Ordered(rest) /\ Range(rest) = {list[k] : k \in (stop + 1)..n}
    <3>1. stop + 1 \in 1..n + 1 /\ n \in 0..n
      BY <1>1, <1>17
    <3> QED
      BY <3>1, PartOrdered
  <2>4. Range(list) = Range(front) \cup {at} \cup Range(rest)
    <3>1. 1..n = 1..(stop - 1) \cup {stop} \cup (stop + 1)..n
      BY <1>1, <1>17, SMTT(30)
    <3> QED
      BY <1>1, <1>6, <2>3, <3>1
  <2>5. \A x \in Range(rest) : at.end <= x.begin
    <3> SUFFICES ASSUME NEW k \in (stop + 1)..n PROVE at.end <= list[k].begin
      BY <2>3
    <3>1. stop < k /\ k \in 1..n
      BY <1>1, <1>17
    <3> QED
      BY <1>1, <1>17, <3>1 DEF Ordered, Sorted
  <2>6. \A x \in Range(front) : x.end <= at.begin
    <3> SUFFICES ASSUME NEW k \in 1..(stop - 1) PROVE list[k].end <= at.begin
      BY <1>6
    <3>1. k < stop /\ k \in 1..n
      BY <1>1, <1>17
    <3> QED
      BY <1>1, <1>17, <3>1 DEF Ordered, Sorted
  <2>7. at.begin \in Nat /\ at.end \in Nat /\ at.begin < at.end /\ e < at.end
    BY <2>1, AreaLemma, OverlapLemma
  <2> HIDE DEF at, rest
  <2>8. /\ Ordered(cut)
        /\ \A y \in Range(cut) : at.begin <= y.begin /\ y.end <= at.end
        /\ \A p \in Nat : \A m : Covers(cut, p, m) <=>
             at.begin <= p /\ p < at.end /\ at.flags = m /\ ~(b <= p /\ p < e)
        /\ find_overlap(at, b, e) # "Contains" => \A y \in Range(cut) : e <= y.begin
    BY <2>1, AtCutLemma
  <2> HIDE DEF cut
  <2>9. \A x \in Range(rest) : WellFormed(x) /\ x.begin \in Nat /\ e <= x.begin
    <3> TAKE x \in Range(rest)
    <3>1. WellFormed(x)
      BY <2>3, OrderedLemma
    <3>2. x.begin \in Nat /\ at.end <= x.begin
      BY <2>5, <3>1, AreaLemma
    <3> QED
      BY <2>7, <3>1, <3>2
  <2>10. \A y \in Range(cut) : WellFormed(y) /\ y.begin \in Nat /\ y.end \in Nat
    BY <2>8, OrderedLemma, AreaLemma
  <2>11. Ordered(t) /\ Range(t) = Range(cut) \cup Range(rest)
    <3>1. \A x \in Range(cut), y \in Range(rest) : x.end <= y.begin
      BY <2>5, <2>7, <2>8, <2>9, <2>10
    <3>2. Ordered(cut \o rest) /\ Range(cut \o rest) = Range(cut) \cup Range(rest)
      BY <2>3, <2>8, <3>1, JoinOrdered
    <3> QED
      BY <2>2, <3>2
  <2>12. Ordered(s \o t) /\ Range(s \o t) = Range(s) \cup Range(t)
    <3>1. \A x \in Range(s), y \in Range(t) : x.end <= y.begin
      <4> SUFFICES ASSUME NEW x \in Range(s), NEW y \in Range(t)
                   PROVE  x.end <= y.begin
        OBVIOUS
      <4>1. x.end \in Nat
        BY <1>13, OrderedLemma, AreaLemma
      <4>2. PICK a \in Range(front) : x.end <= a.end /\ WellFormed(a)
        BY <1>14
      <4>3. a.end <= at.begin /\ a.end \in Nat
        BY <2>6, <4>2, AreaLemma
      <4>4. y.begin \in Nat /\ at.begin <= y.begin
        BY <2>5, <2>7, <2>8, <2>9, <2>10, <2>11
      <4> QED
        BY <2>7, <4>1, <4>2, <4>3, <4>4
    <3> QED
      BY <1>13, <2>11, <3>1, JoinOrdered
  <2>13. ASSUME NEW p \in Nat, NEW m
         PROVE  Covers(s \o t, p, m) <=> Covers(list, p, m) /\ ~(b <= p /\ p < e)
    <3>1. Covers(s \o t, p, m) <=> Covers(s, p, m) \/ Covers(cut, p, m) \/ Covers(rest, p, m)
      BY <2>11, <2>12 DEF Covers
    <3>2. Covers(list, p, m) <=>
            Covers(front, p, m) \/ (at.begin <= p /\ p < at.end /\ at.flags = m)
                               \/ Covers(rest, p, m)
      BY <2>4 DEF Covers
    <3>3. Covers(rest, p, m) => ~(b <= p /\ p < e)
      BY <2>9 DEF Covers
    <3> QED
      BY <1>15, <2>8, <3>1, <3>2, <3>3
  <2>14. ASSUME ~Splits(list, b, e)
         PROVE  \A x \in Range(t) : e <= x.begin
    <3>1. find_overlap(at, b, e) # "Contains"
      BY <1>1, <1>17, <2>14 DEF Splits, at
    <3> QED
      BY <2>8, <2>9, <2>11, <3>1
  <2>15. Leaves(list, b, e, s, t)
    BY <1>13, <1>14, <2>11, <2>12, <2>13, <2>14 DEF Leaves
  <2> QED
    BY <1>5, <2>15
<1> QED
  BY <1>1, <1>2, <1>16, <1>17

-----------------------------------------------------------------------------
(***************************************************************************)
(* Linking and merging.  alloc_movable works on the list with a head of    *)
(* its own, which holds no page and has flags no area has.                 *)
(***************************************************************************)
Headed(list) ==
    /\ list \in Seq(Area \cup {ListBegin}) /\ Len(list) \in Nat \ {0}
    /\ list[1] = ListBegin
    /\ \A i \in 2..Len(list) : WellFormed(list[i])
    /\ Sorted(list)

\* The numbers in a list with a head
LEMMA HeadedLemma ==
    ASSUME NEW list, Headed(list)
    PROVE  /\ DOMAIN list = 1..Len(list)
           /\ \A i \in 1..Len(list) :
                /\ list[i].begin \in Nat /\ list[i].end \in Nat /\ 0 < list[i].begin
                /\ list[i].begin <= list[i].end /\ list[i].end <= ADDR_MAX
<1>1. DOMAIN list = 1..Len(list)
  BY DEF Headed
<1>2. ASSUME NEW i \in 1..Len(list)
      PROVE  /\ list[i].begin \in Nat /\ list[i].end \in Nat /\ 0 < list[i].begin
             /\ list[i].begin <= list[i].end /\ list[i].end <= ADDR_MAX
  <2>1. CASE i = 1
    BY <2>1 DEF Headed, ListBegin
  <2>2. CASE i # 1
    <3>1. WellFormed(list[i])
      BY <2>2 DEF Headed
    <3> QED
      BY <3>1, AreaLemma
  <2> QED
    BY <2>1, <2>2
<1> QED
  BY <1>1, <1>2

\* Giving a list a head, and taking it off
LEMMA HeadOnLemma ==
    ASSUME NEW list, Ordered(list)
    PROVE  /\ Headed(<<ListBegin>> \o list) /\ Len(<<ListBegin>> \o list) = Len(list) + 1
           /\ \A i \in 1..Len(list) : (<<ListBegin>> \o list)[i + 1] = list[i]
<1> DEFINE T == Area \cup {ListBegin}
           h == <<ListBegin>>
           r == <<ListBegin>> \o list
<1>1. h \in Seq(T) /\ list \in Seq(T) /\ Len(h) = 1 /\ h[1] = ListBegin /\ Len(list) \in Nat
  BY DEF Ordered
<1>2. /\ r \in Seq(T) /\ Len(r) = Len(h) + Len(list)
      /\ \A k \in 1..Len(h) : r[k] = h[k]
      /\ \A k \in 1..Len(list) : r[Len(h) + k] = list[k]
  <2> HIDE DEF T
  <2> QED
    BY <1>1, JoinLemma
<1> HIDE DEF h, r, T
<1>3. /\ Len(r) = Len(list) + 1 /\ DOMAIN r = 1..Len(list) + 1 /\ r[1] = ListBegin
      /\ \A k \in 1..Len(list) : r[k + 1] = list[k]
  BY <1>1, <1>2
<1>4. \A i \in 2..Len(r) : i - 1 \in 1..Len(list) /\ r[i] = list[i - 1]
  <2> TAKE i \in 2..Len(r)
  <2>1. i - 1 \in 1..Len(list) /\ (i - 1) + 1 = i
    BY <1>1, <1>3
  <2> QED
    BY <1>3, <2>1
<1>5. \A i \in 2..Len(r) : WellFormed(r[i])
  BY <1>4, OrderedLemma
<1>6. Sorted(r)
  <2> SUFFICES ASSUME NEW i \in 1..Len(r), NEW j \in 1..Len(r), i < j
               PROVE  r[i].end <= r[j].begin
    BY <1>3 DEF Sorted
  <2>1. j \in 2..Len(r)
    BY <1>1, <1>3
  <2>2. CASE i = 1
    <3>1. r[i].end = 1 /\ WellFormed(r[j])
      BY <1>3, <1>5, <2>1, <2>2 DEF ListBegin
    <3> QED
      BY <3>1, AreaLemma
  <2>3. CASE i # 1
    <3>1. i \in 2..Len(r) /\ i - 1 < j - 1
      BY <1>1, <1>3, <2>3
    <3>2. /\ i - 1 \in DOMAIN list /\ j - 1 \in DOMAIN list
          /\ r[i] = list[i - 1] /\ r[j] = list[j - 1]
      BY <1>4, <2>1, <3>1, OrderedLemma
    <3> QED
      BY <3>1, <3>2 DEF Ordered, Sorted
  <2> QED
    BY <2>2, <2>3
<1>7. Headed(r)
  BY <1>1, <1>2, <1>3, <1>5, <1>6 DEF Headed, T
<1> QED
  BY <1>3, <1>7 DEF r

LEMMA HeadOffLemma ==
    ASSUME NEW list, Headed(list)
    PROVE  /\ Ordered(Tail(list))
           /\ \A p \in Nat : \A m : Covers(Tail(list), p, m) <=> Covers(list, p, m)
<1> DEFINE r == Tail(list)
           n == Len(list)
<1>1. /\ n \in Nat \ {0} /\ list # << >> /\ list \in Seq(Area \cup {ListBegin})
      /\ DOMAIN list = 1..n
  BY DEF Headed
<1>2. /\ Len(r) = n - 1 /\ DOMAIN r = 1..(n - 1)
      /\ \A k \in 1..(n - 1) : r[k] = list[k + 1] /\ k + 1 \in 2..n
  BY <1>1
<1> HIDE DEF r
<1>3. \A k \in 1..(n - 1) : WellFormed(r[k])
  BY <1>2 DEF Headed
<1>4. r \in Seq(Area)
  <2>1. r = [k \in 1..(n - 1) |-> r[k]]
    <3> DEFINE T == Area \cup {ListBegin}
    <3>1. r \in Seq(T)
      <4> HIDE DEF T
      <4>1. list \in Seq(T)
        BY <1>1 DEF T
      <4> QED
        BY <1>1, <4>1 DEF r
    <3> HIDE DEF T
    <3> QED
      BY ONLY <1>2, <3>1
  <2>2. \A k \in 1..(n - 1) : r[k] \in Area
    BY <1>3 DEF WellFormed
  <2> QED
    BY <1>1, <2>1, <2>2
<1>5. Sorted(r)
  <2> SUFFICES ASSUME NEW i \in 1..(n - 1), NEW j \in 1..(n - 1), i < j
               PROVE  r[i].end <= r[j].begin
    BY <1>2 DEF Sorted
  <2>1. i + 1 < j + 1 /\ i + 1 \in DOMAIN list /\ j + 1 \in DOMAIN list
    BY <1>1, <1>2
  <2> QED
    BY <1>2, <2>1 DEF Headed, Sorted
<1>6. Ordered(r)
  BY <1>2, <1>3, <1>4, <1>5 DEF Ordered
<1>7. ASSUME NEW p \in Nat, NEW m
      PROVE  Covers(r, p, m) <=> Covers(list, p, m)
  <2>1. ASSUME Covers(r, p, m) PROVE Covers(list, p, m)
    <3>1. PICK k \in 1..(n - 1) : r[k].begin <= p /\ p < r[k].end /\ r[k].flags = m
      BY <1>2, <2>1 DEF Covers, Range
    <3>2. k + 1 \in DOMAIN list /\ list[k + 1] = r[k]
      BY <1>1, <1>2
    <3> QED
      BY <3>1, <3>2 DEF Covers, Range
  <2>2. ASSUME Covers(list, p, m) PROVE Covers(r, p, m)
    <3>1. PICK k \in 1..n : list[k].begin <= p /\ p < list[k].end /\ list[k].flags = m
      BY <1>1, <2>2 DEF Covers, Range
    <3>2. k # 1
      BY <3>1 DEF Headed, ListBegin
    <3>3. k - 1 \in 1..(n - 1) /\ (k - 1) + 1 = k
      BY <1>1, <3>2
    <3>4. k - 1 \in DOMAIN r /\ r[k - 1] = list[k]
      BY <1>2, <3>3
    <3> QED
      BY <3>1, <3>4 DEF Covers, Range
  <2> QED
    BY <2>1, <2>2
<1> QED
  BY <1>6, <1>7 DEF r

\* What a list holds when x is added
Gains(list, x, new) ==
    \A p \in Nat : \A m :
        Covers(new, p, m) <=> Covers(list, p, m) \/ (x.begin <= p /\ p < x.end /\ x.flags = m)

\* A new area linked into the gap before place k
LEMMA LinkLemma ==
    ASSUME NEW list, Ordered(list), NEW x, WellFormed(x), NEW k \in 1..Len(list) + 1,
           \A i \in 1..Len(list) : IF i < k THEN list[i].end <= x.begin
                                   ELSE x.end <= list[i].begin
    PROVE  Ordered(InsertAt(list, k, x)) /\ Gains(list, x, InsertAt(list, k, x))
<1> DEFINE n == Len(list)
           a == SubSeq(list, 1, k - 1)
           c == SubSeq(list, k, n)
<1>1. n \in Nat /\ DOMAIN list = 1..n /\ Range(list) = {list[i] : i \in 1..n}
  BY OrderedLemma DEF Range
<1>2. /\ Ordered(a) /\ Range(a) = {list[i] : i \in 1..(k - 1)}
      /\ Ordered(c) /\ Range(c) = {list[i] : i \in k..n}
  <2>1. 1 \in 1..n + 1 /\ k - 1 \in 0..n /\ n \in 0..n
    BY <1>1
  <2> QED
    BY <2>1, PartOrdered
<1>3. Ordered(<<x>>) /\ Range(<<x>>) = {x}
  BY SingleOrdered
<1>4. InsertAt(list, k, x) = (a \o <<x>>) \o c
  BY DEF InsertAt
<1>5. \A y \in Range(a) : y.end <= x.begin
  <2> SUFFICES ASSUME NEW i \in 1..(k - 1) PROVE list[i].end <= x.begin
    BY <1>2
  <2>1. i \in 1..n /\ i < k
    BY <1>1
  <2> QED
    BY <2>1
<1>6. \A y \in Range(c) : x.end <= y.begin
  <2> SUFFICES ASSUME NEW i \in k..n PROVE x.end <= list[i].begin
    BY <1>2
  <2>1. i \in 1..n /\ ~(i < k)
    BY <1>1
  <2> QED
    BY <2>1
<1>7. Range(list) = Range(a) \cup Range(c)
  <2>1. 1..n = 1..(k - 1) \cup k..n
    BY <1>1
  <2> QED
    BY <1>1, <1>2, <2>1
<1> HIDE DEF a, c
<1>8. Ordered(a \o <<x>>) /\ Range(a \o <<x>>) = Range(a) \cup {x}
  BY <1>2, <1>3, <1>5, JoinOrdered
<1>9. \A y \in Range(a \o <<x>>), z \in Range(c) : y.end <= z.begin
  <2> SUFFICES ASSUME NEW y \in Range(a), NEW z \in Range(c) PROVE y.end <= z.begin
    BY <1>6, <1>8
  <2>1. WellFormed(y) /\ WellFormed(z)
    BY <1>2, OrderedLemma
  <2> QED
    BY <1>5, <1>6, <2>1, AreaLemma
<1>10. /\ Ordered((a \o <<x>>) \o c)
       /\ Range((a \o <<x>>) \o c) = Range(a) \cup {x} \cup Range(c)
  BY <1>2, <1>8, <1>9, JoinOrdered
<1>11. Gains(list, x, InsertAt(list, k, x))
  BY <1>4, <1>7, <1>10 DEF Gains, Covers
<1> QED
  BY <1>4, <1>10, <1>11

\* The same after place r of a list with a head
LEMMA LinkHeadedLemma ==
    ASSUME NEW list, Headed(list), NEW x, WellFormed(x), NEW r \in 1..Len(list),
           list[r].end <= x.begin, x.end <= NextBegin(list, r)
    PROVE  /\ Headed(InsertAt(list, r + 1, x)) /\ Gains(list, x, InsertAt(list, r + 1, x))
           /\ Len(InsertAt(list, r + 1, x)) = Len(list) + 1
<1> DEFINE T == Area \cup {ListBegin}
           n == Len(list)
           new == InsertAt(list, r + 1, x)
<1>1. n \in Nat \ {0} /\ DOMAIN list = 1..n /\ list \in Seq(T) /\ x \in T
  BY DEF Headed, WellFormed
<1>2. new = Splice(list, x, r, r + 1)
  <2>1. new = Splice(list, x, (r + 1) - 1, r + 1)
    BY DEF InsertAt, Splice
  <2>2. (r + 1) - 1 = r
    BY <1>1
  <2> HIDE DEF new
  <2>3. ASSUME NEW h, new = Splice(list, x, h, r + 1), h = r
        PROVE  new = Splice(list, x, r, r + 1)
    BY ONLY <2>3
  <2> QED
    BY ONLY <2>1, <2>2, <2>3
<1> HIDE DEF T, new
<1>3. new \in Seq(T) /\ Spliced(new, list, x, r, r + 1)
  <2>1. r \in 0..n /\ r + 1 \in 1..n + 1
    BY <1>1
  <2>2. /\ Splice(list, x, r, r + 1) \in Seq(T)
        /\ Spliced(Splice(list, x, r, r + 1), list, x, r, r + 1)
    BY <1>1, <2>1, SpliceLemma
  <2> QED
    BY <1>2, <2>2
<1>4. /\ Len(new) = n + 1 /\ DOMAIN new = 1..n + 1
      /\ \A i \in 1..n + 1 :
            new[i] = IF i <= r THEN list[i] ELSE IF i = r + 1 THEN x ELSE list[i - 1]
  <2>1. Len(new) = n + 1
    BY <1>1, <1>3 DEF Spliced
  <2>2. \A i \in 1..n + 1 : i - (r + 2) + (r + 1) = i - 1
    BY <1>1
  <2> QED
    BY <1>3, <2>1, <2>2 DEF Spliced
<1>5. \A i \in 1..n : i <= r => list[i].end <= x.begin
  <2> SUFFICES ASSUME NEW i \in 1..n, i < r PROVE list[i].end <= x.begin
    BY <1>1
  <2>1. list[i].end <= list[r].begin
    BY <1>1 DEF Headed, Sorted
  <2> QED
    BY <1>1, <2>1, AreaLemma, HeadedLemma, SMTT(30)
<1>6. \A i \in 1..n : r < i => x.end <= list[i].begin
  <2> SUFFICES ASSUME NEW i \in 1..n, r < i PROVE x.end <= list[i].begin
    OBVIOUS
  <2>1. r + 1 \in 1..n /\ x.end <= list[r + 1].begin
    BY <1>1 DEF NextBegin
  <2>2. CASE i = r + 1
    BY <2>1, <2>2
  <2>3. CASE r + 1 < i
    <3>1. list[r + 1].end <= list[i].begin
      BY <1>1, <2>1, <2>3 DEF Headed, Sorted
    <3>2. x.end \in Nat
      BY AreaLemma
    <3> QED
      BY <1>1, <2>1, <3>1, <3>2, HeadedLemma, SMTT(30)
  <2> QED
    BY <1>1, <2>2, <2>3
<1>7. \A i \in 2..n + 1 : WellFormed(new[i])
  <2> TAKE i \in 2..n + 1
  <2>1. CASE i <= r
    BY <1>1, <1>4, <2>1 DEF Headed
  <2>2. CASE i = r + 1
    BY <1>1, <1>4, <2>2
  <2>3. CASE r + 1 < i
    <3>1. i - 1 \in 2..n /\ new[i] = list[i - 1]
      BY <1>1, <1>4, <2>3
    <3> QED
      BY <3>1 DEF Headed
  <2> QED
    BY <1>1, <2>1, <2>2, <2>3
<1>8. Sorted(new)
  <2> SUFFICES ASSUME NEW i \in 1..n + 1, NEW j \in 1..n + 1, i < j
               PROVE  new[i].end <= new[j].begin
    BY <1>4 DEF Sorted
  <2>1. CASE j <= r
    <3>1. i \in 1..n /\ j \in 1..n /\ new[i] = list[i] /\ new[j] = list[j]
      BY <1>1, <1>4, <2>1
    <3> QED
      BY <1>1, <3>1 DEF Headed, Sorted
  <2>2. CASE j = r + 1
    <3>1. i \in 1..n /\ i <= r /\ new[i] = list[i] /\ new[j] = x
      BY <1>1, <1>4, <2>2
    <3> QED
      BY <1>5, <3>1
  <2>3. CASE r + 1 < j
    <3>1. j - 1 \in 1..n /\ r < j - 1 /\ new[j] = list[j - 1]
      BY <1>1, <1>4, <2>3
    <3>2. CASE i <= r
      <4>1. i \in 1..n /\ i < j - 1 /\ new[i] = list[i]
        BY <1>1, <1>4, <2>3, <3>2
      <4> QED
        BY <1>1, <3>1, <4>1 DEF Headed, Sorted
    <3>3. CASE i = r + 1
      <4>1. new[i] = x
        BY <1>1, <1>4, <3>3
      <4>2. x.end <= list[j - 1].begin
        BY <1>6, <3>1
      <4> QED
        BY <3>1, <4>1, <4>2
    <3>4. CASE r + 1 < i
      <4>1. i - 1 \in 1..n /\ i - 1 < j - 1 /\ new[i] = list[i - 1]
        BY <1>1, <1>4, <3>4
      <4> QED
        BY <1>1, <3>1, <4>1 DEF Headed, Sorted
    <3> QED
      BY <1>1, <3>2, <3>3, <3>4
  <2> QED
    BY <1>1, <2>1, <2>2, <2>3
<1>9. Range(new) = Range(list) \cup {x}
  <2>1. Range(new) \subseteq Range(list) \cup {x}
    <3> SUFFICES ASSUME NEW i \in 1..n + 1 PROVE new[i] \in Range(list) \cup {x}
      BY <1>4 DEF Range
    <3>1. i <= r => i \in DOMAIN list
      BY <1>1
    <3>2. r + 1 < i => i - 1 \in DOMAIN list
      BY <1>1
    <3> QED
      BY <1>1, <1>4, <3>1, <3>2 DEF Range
  <2>2. x \in Range(new)
    <3>1. r + 1 \in DOMAIN new /\ new[r + 1] = x
      BY <1>1, <1>4
    <3> QED
      BY <3>1 DEF Range
  <2>3. Range(list) \subseteq Range(new)
    <3> SUFFICES ASSUME NEW i \in 1..n PROVE list[i] \in Range(new)
      BY <1>1 DEF Range
    <3>1. CASE i <= r
      <4>1. i \in DOMAIN new /\ new[i] = list[i]
        BY <1>1, <1>4, <3>1
      <4> QED
        BY <4>1 DEF Range
    <3>2. CASE ~(i <= r)
      <4>1. i + 1 \in 1..n + 1 /\ ~(i + 1 <= r) /\ i + 1 # r + 1 /\ (i + 1) - 1 = i
        BY <1>1, <3>2
      <4>2. i + 1 \in DOMAIN new /\ new[i + 1] = list[i]
        BY <1>4, <4>1
      <4> QED
        BY <4>2 DEF Range
    <3> QED
      BY <3>1, <3>2
  <2> QED
    BY <2>1, <2>2, <2>3
<1>10. new[1] = ListBegin
  BY <1>1, <1>4 DEF Headed
<1>11. Headed(new)
  BY <1>1, <1>3, <1>4, <1>7, <1>8, <1>10 DEF Headed, T
<1>12. Gains(list, x, new)
  BY <1>9 DEF Gains, Covers
<1> QED
  BY <1>4, <1>11, <1>12 DEF new

\* Merging changes no page, and the head, whose flags no area has, stays apart.
LEMMA MergeLemma ==
    ASSUME NEW list, Headed(list), NEW r \in 1..Len(list)
    PROVE  /\ Headed(merge_regions_after(list, r))
           /\ \A p \in Nat : \A m :
                Covers(merge_regions_after(list, r), p, m) <=> Covers(list, p, m)
           /\ r <= Len(merge_regions_after(list, r))
<1> DEFINE T == Area \cup {ListBegin}
           n == Len(list)
           merged == {j \in (r + 1)..n : \A k \in (r + 1)..j :
                        list[k - 1].end = list[k].begin /\ list[k].flags = list[r].flags}
           last == Max(merged \cup {r})
           y == [list[r] EXCEPT !.end = list[last].end]
           new == merge_regions_after(list, r)
<1>1. n \in Nat \ {0} /\ DOMAIN list = 1..n /\ list \in Seq(T)
  BY DEF Headed
<1>2. last \in r..n /\ (last = r \/ last \in merged)
  <2>1. merged \cup {r} \in SUBSET (1..n) /\ merged \cup {r} # {} /\ n \in Nat
    BY <1>1
  <2>2. last \in merged \cup {r}
    <3> HIDE DEF merged
    <3> QED
      BY <2>1, LastOfLemma
  <2>3. merged \subseteq r..n /\ r \in r..n
    BY <1>1
  <2> HIDE DEF last, merged
  <2> QED
    BY <2>2, <2>3
<1>3. \A k \in (r + 1)..last : list[k - 1].end = list[k].begin /\ list[k].flags = list[r].flags
  <2> HIDE DEF last
  <2> QED
    BY <1>1, <1>2
<1>4. new = Splice(list, y, r - 1, last + 1)
  BY DEF merge_regions_after, Splice
<1> HIDE DEF merged, last, new
<1>5. r \in Nat /\ last \in Nat /\ r >= 1 /\ r <= last /\ last <= n /\ last \in 1..n
  BY <1>1, <1>2
<1>6. r = 1 => last = 1
  <2> SUFFICES ASSUME r = 1, last # 1 PROVE FALSE
    OBVIOUS
  <2>1. 2 \in (r + 1)..last /\ 2 \in 2..n
    BY <1>1, <1>5
  <2>2. list[2].flags = {"LIST"}
    BY <1>3, <2>1 DEF Headed, ListBegin
  <2>3. list[2].flags \in Mode
    <3>1. WellFormed(list[2])
      BY <2>1 DEF Headed
    <3> QED
      BY <3>1, AreaLemma
  <2>4. "LIST" \notin {"USER", "WRITE", "EXEC"}
    OBVIOUS
  <2> QED
    BY <2>2, <2>3, <2>4, Zenon DEF Mode
<1>7. \A k \in r..last : /\ k \in 1..n /\ list[r].begin <= list[k].begin
                         /\ list[k].end <= list[last].end /\ list[k].flags = list[r].flags
  <2> TAKE k \in r..last
  <2>1. k \in 1..n
    BY <1>1, <1>5
  <2>2. list[k].flags = list[r].flags
    BY <1>3, <1>5
  <2>3. list[r].begin <= list[k].begin
    <3>1. CASE k = r
      BY <2>1, <3>1, HeadedLemma
    <3>2. CASE r < k
      <4>1. list[r].end <= list[k].begin
        BY <1>1, <2>1, <3>2 DEF Headed, Sorted
      <4> QED
        BY <1>1, <2>1, <4>1, HeadedLemma
    <3> QED
      BY <1>5, <3>1, <3>2
  <2>4. list[k].end <= list[last].end
    <3>1. CASE k = last
      BY <1>5, <2>1, <3>1, HeadedLemma
    <3>2. CASE k < last
      <4>1. list[k].end <= list[last].begin
        BY <1>1, <1>5, <2>1, <3>2 DEF Headed, Sorted
      <4> QED
        BY <1>1, <1>5, <2>1, <4>1, HeadedLemma
    <3> QED
      BY <1>5, <3>1, <3>2
  <2> QED
    BY <2>1, <2>2, <2>3, <2>4
<1>8. y.begin = list[r].begin /\ y.end = list[last].end /\ y.flags = list[r].flags
  <2>1. list[r] \in T
    BY <1>1
  <2>2. DOMAIN list[r] = {"at", "begin", "end", "flags"}
    BY <2>1 DEF Area, ListBegin
  <2> QED
    BY <2>2
<1>9. IF r = 1 THEN y = ListBegin ELSE WellFormed(y)
  <2>1. CASE r = 1
    <3>1. y = [ListBegin EXCEPT !.end = ADDR_MIN]
      BY <1>6, <2>1 DEF Headed, ListBegin
    <3> QED
      BY <2>1, <3>1 DEF ListBegin
  <2>2. CASE r # 1
    <3>1. WellFormed(list[r]) /\ WellFormed(list[last])
      BY <1>1, <1>5, <2>2 DEF Headed
    <3>2. list[r].end <= list[last].end
      BY <1>5, <1>7
    <3>3. list[r] \in Area /\ list[last].end \in 1..ADDR_MAX
      BY <3>1 DEF WellFormed, Area
    <3>4. y \in Area
      BY <3>3 DEF Area
    <3> HIDE DEF y
    <3> QED
      BY <1>8, <2>2, <3>1, <3>2, <3>4, AreaLemma DEF WellFormed
  <2> QED
    BY <2>1, <2>2
<1> HIDE DEF y
<1>10. y \in T
  BY <1>9 DEF WellFormed
<1>11. new \in Seq(T) /\ Spliced(new, list, y, r - 1, last + 1)
  <2>1. r - 1 \in 0..n /\ last + 1 \in 1..n + 1
    BY <1>1, <1>5
  <2> HIDE DEF T
  <2>2. /\ Splice(list, y, r - 1, last + 1) \in Seq(T)
        /\ Spliced(Splice(list, y, r - 1, last + 1), list, y, r - 1, last + 1)
    BY <1>1, <1>10, <2>1, SpliceLemma
  <2> QED
    BY <1>4, <2>2
<1> DEFINE d == last - r
<1>12. d \in Nat /\ n - d \in Nat /\ r <= n - d /\ r + d = last
  BY <1>1, <1>5
<1>13. /\ Len(new) = n - d /\ DOMAIN new = 1..(n - d)
       /\ \A k \in 1..(n - d) :
            new[k] = IF k < r THEN list[k] ELSE IF k = r THEN y ELSE list[k + d]
  <2>1. Len(new) = n - d
    <3>1. Len(new) = (r - 1) + 1 + (n - (last + 1) + 1)
      BY <1>11 DEF Spliced
    <3> QED
      BY <1>1, <1>5, <3>1
  <2>2. \A k \in 1..(n - d) : /\ k - ((r - 1) + 2) + (last + 1) = k + d
                              /\ k <= r - 1 <=> k < r
                              /\ k = (r - 1) + 1 <=> k = r
    BY <1>1, <1>5, <1>12
  <2>3. DOMAIN new = 1..Len(new)
    BY <1>11
  <2>4. \A k \in 1..(n - d) : new[k] = IF k <= r - 1 THEN list[k]
                                       ELSE IF k = (r - 1) + 1 THEN y
                                       ELSE list[k - ((r - 1) + 2) + (last + 1)]
    BY <1>11, <2>1 DEF Spliced
  <2> HIDE DEF d
  <2> QED
    BY <2>1, <2>2, <2>3, <2>4
<1> HIDE DEF d
<1>14. \A k \in 1..(n - d) : IF k < r THEN k \in 1..n
                             ELSE k > r => k + d \in 1..n /\ k + d > last
  BY <1>1, <1>5, <1>12
<1>15. \A i \in 2..(n - d) : WellFormed(new[i])
  <2> TAKE i \in 2..(n - d)
  <2>1. CASE i < r
    <3>1. i \in 2..n /\ new[i] = list[i]
      BY <1>1, <1>12, <1>13, <2>1
    <3> QED
      BY <3>1 DEF Headed
  <2>2. CASE i = r
    BY <1>9, <1>12, <1>13, <2>2
  <2>3. CASE i > r
    <3>1. i + d \in 2..n /\ new[i] = list[i + d]
      BY <1>1, <1>5, <1>12, <1>13, <2>3
    <3> QED
      BY <3>1 DEF Headed
  <2> QED
    BY <1>5, <2>1, <2>2, <2>3
<1>16. Sorted(new)
  <2> SUFFICES ASSUME NEW i \in 1..(n - d), NEW j \in 1..(n - d), i < j
               PROVE  new[i].end <= new[j].begin
    BY <1>13 DEF Sorted
  <2>1. CASE j < r
    <3>1. i < r /\ i \in 1..n /\ j \in 1..n /\ new[i] = list[i] /\ new[j] = list[j]
      BY <1>5, <1>12, <1>13, <1>14, <2>1
    <3> QED
      BY <1>1, <3>1 DEF Headed, Sorted
  <2>2. CASE j = r
    <3>1. i < r /\ i \in 1..n /\ new[i] = list[i] /\ new[j].begin = list[r].begin
      BY <1>5, <1>8, <1>12, <1>13, <1>14, <2>2
    <3> QED
      BY <1>1, <3>1 DEF Headed, Sorted
  <2>3. CASE j > r
    <3>1. j + d \in 1..n /\ j + d > last /\ new[j] = list[j + d]
      <4>1. ~(j < r) /\ j # r
        BY <1>5, <2>3
      <4>2. new[j] = list[j + d]
        BY <1>13, <4>1
      <4> QED
        BY <1>14, <2>3, <4>1, <4>2
    <3>2. CASE i < r
      <4>1. i \in 1..n /\ i < j + d /\ new[i] = list[i]
        BY <1>5, <1>12, <1>13, <1>14, <3>1, <3>2
      <4> QED
        BY <1>1, <3>1, <4>1 DEF Headed, Sorted
    <3>3. CASE i = r
      <4>1. new[i].end = list[last].end
        BY <1>8, <1>12, <1>13, <3>3
      <4> QED
        BY <1>1, <1>5, <3>1, <4>1 DEF Headed, Sorted
    <3>4. CASE i > r
      <4>1. i + d \in 1..n /\ i + d < j + d /\ new[i] = list[i + d]
        BY <1>5, <1>12, <1>13, <1>14, <3>4
      <4> QED
        BY <1>1, <3>1, <4>1 DEF Headed, Sorted
    <3> QED
      BY <1>5, <3>2, <3>3, <3>4
  <2> QED
    BY <1>5, <2>1, <2>2, <2>3
<1>17. Headed(new)
  <2>1. new[1] = ListBegin
    BY <1>5, <1>9, <1>12, <1>13 DEF Headed
  <2>2. Len(new) \in Nat \ {0}
    BY <1>5, <1>12, <1>13
  <2> QED
    BY <1>11, <1>13, <1>15, <1>16, <2>1, <2>2 DEF Headed, T
<1>18. ASSUME NEW p \in Nat, y.begin <= p, p < y.end
       PROVE  \E k \in r..last : list[k].begin <= p /\ p < list[k].end
  <2> DEFINE S == {j \in r..last : p < list[j].end}
  <2>1. last \in S /\ S \in SUBSET Nat
    BY <1>5, <1>8, <1>18
  <2> HIDE DEF S
  <2>2. PICK j \in S : \A i \in S : j <= i
    BY <2>1, LeastLemma
  <2>3. j \in r..last /\ p < list[j].end /\ j \in 1..n
    BY <1>7, <2>2 DEF S
  <2>4. CASE j = r
    BY <1>8, <1>18, <2>3, <2>4
  <2>5. CASE j # r
    <3>1. j \in (r + 1)..last /\ j - 1 \in r..last /\ j - 1 \in 1..n
      BY <1>5, <2>3, <2>5
    <3>2. ~(p < list[j - 1].end)
      <4>1. j - 1 \notin S
        BY <2>2, <2>3
      <4> QED
        BY <3>1, <4>1 DEF S
    <3>3. list[j - 1].end = list[j].begin /\ list[j - 1].end \in Nat
      BY <1>3, <3>1, HeadedLemma
    <3>4. list[j].begin <= p
      BY <3>2, <3>3
    <3> QED
      BY <2>3, <3>4
  <2> QED
    BY <2>4, <2>5
<1>19. ASSUME NEW p \in Nat, NEW m
       PROVE  Covers(new, p, m) <=> Covers(list, p, m)
  <2>1. ASSUME Covers(new, p, m) PROVE Covers(list, p, m)
    <3>1. PICK k \in 1..(n - d) : new[k].begin <= p /\ p < new[k].end /\ new[k].flags = m
      BY <1>13, <2>1 DEF Covers, Range
    <3>2. CASE k < r
      <4>1. k \in DOMAIN list /\ list[k] = new[k]
        BY <1>1, <1>13, <1>14, <3>2
      <4> QED
        BY <3>1, <4>1 DEF Covers, Range
    <3>3. CASE k > r
      <4>1. k + d \in DOMAIN list /\ list[k + d] = new[k]
        BY <1>1, <1>5, <1>13, <1>14, <3>3
      <4> QED
        BY <3>1, <4>1 DEF Covers, Range
    <3>4. CASE k = r
      <4>1. y.begin <= p /\ p < y.end /\ y.flags = m
        BY <1>13, <3>1, <3>4
      <4>2. PICK j \in r..last : list[j].begin <= p /\ p < list[j].end
        BY <1>18, <4>1
      <4>3. j \in DOMAIN list /\ list[j].flags = m
        BY <1>1, <1>7, <1>8, <4>1
      <4> QED
        BY <4>2, <4>3 DEF Covers, Range
    <3> QED
      BY <1>5, <3>2, <3>3, <3>4
  <2>2. ASSUME Covers(list, p, m) PROVE Covers(new, p, m)
    <3>1. PICK k \in 1..n : list[k].begin <= p /\ p < list[k].end /\ list[k].flags = m
      BY <1>1, <2>2 DEF Covers, Range
    <3>2. CASE k < r
      <4>1. k \in DOMAIN new /\ new[k] = list[k]
        BY <1>1, <1>5, <1>12, <1>13, <3>2
      <4> QED
        BY <3>1, <4>1 DEF Covers, Range
    <3>3. CASE k > last
      <4>1. k - d \in 1..(n - d) /\ ~(k - d < r) /\ k - d # r /\ (k - d) + d = k
        BY <1>1, <1>5, <1>12, <3>3
      <4>2. k - d \in DOMAIN new /\ new[k - d] = list[k]
        BY <1>13, <4>1
      <4> QED
        BY <3>1, <4>2 DEF Covers, Range
    <3>4. CASE k \in r..last
      <4>1. y.begin <= p /\ p < y.end /\ y.flags = m
        <5>1. /\ list[r].begin \in Nat /\ list[k].begin \in Nat
              /\ list[k].end \in Nat /\ list[last].end \in Nat
          BY <1>5, HeadedLemma
        <5> QED
          BY <1>7, <1>8, <3>1, <3>4, <5>1
      <4>2. r \in DOMAIN new /\ new[r] = y
        BY <1>5, <1>12, <1>13
      <4> QED
        BY <4>1, <4>2 DEF Covers, Range
    <3> QED
      BY <1>5, <3>2, <3>3, <3>4
  <2> QED
    BY <2>1, <2>2
<1>20. r <= Len(new)
  BY <1>12, <1>13
<1> QED
  BY <1>17, <1>19, <1>20 DEF new

-----------------------------------------------------------------------------
(***************************************************************************)
(* What each call does to the list of areas                                *)
(***************************************************************************)
\* Only a range mapped without access is not for the user.
LEMMA ModeLemma ==
    ASSUME NEW prot \in Prot
    PROVE  /\ prot_to_mode(prot) \in Mode
           /\ "USER" \in prot_to_mode(prot) <=> prot # {}
<1>1. prot \subseteq {"READ", "WRITE", "EXEC"} /\ "USER" \notin {"READ", "WRITE", "EXEC"}
  BY DEF Prot
<1>2. prot_to_mode(prot) \subseteq {"USER", "WRITE", "EXEC"}
  BY Zenon DEF prot_to_mode
<1> QED
  BY <1>1, <1>2, Zenon DEF prot_to_mode, Mode

\* The area a call makes
LEMMA NewAreaLemma ==
    ASSUME NEW at \in Address, NEW b \in Nat, NEW e \in Nat, InLimits(b, e), NEW prot \in Prot
    PROVE  /\ WellFormed(NewArea(at, b, e, prot))
           /\ NewArea(at, b, e, prot).begin = b /\ NewArea(at, b, e, prot).end = e
           /\ NewArea(at, b, e, prot).flags = prot_to_mode(prot)
<1>1. b \in Page /\ e \in 1..ADDR_MAX
  BY DEF InLimits, Page
<1> QED
  BY <1>1, ModeLemma DEF NewArea, InLimits, WellFormed, Area

\* The range from b to e of the new list holds content, and the rest what it did.
Changed(list, b, e, content, new) ==
    /\ Ordered(new)
    /\ \A p \in Nat : \A m : Covers(new, p, m) <=>
            IF b <= p /\ p < e THEN m \in content ELSE Covers(list, p, m)

Unheld(list, b, e) == \A p \in Nat : \A m : b <= p /\ p < e => ~Covers(list, p, m)

\* Where nothing was mapped, a new area changes its range alone.
LEMMA GainsLemma ==
    ASSUME NEW at \in Address, NEW b \in Nat, NEW e \in Nat, InLimits(b, e), NEW prot \in Prot,
           NEW list, NEW new,
           Unheld(list, b, e), Ordered(new), Gains(list, NewArea(at, b, e, prot), new)
    PROVE  Changed(list, b, e, {prot_to_mode(prot)}, new)
  BY NewAreaLemma DEF Changed, Unheld, Gains

\* MAP_FIXED_NOREPLACE, when the range is free
LEMMA NoreplaceLemma ==
    ASSUME NEW list, Ordered(list), NEW b \in Nat, NEW e \in Nat, InLimits(b, e),
           NEW prot \in Prot, NEW at \in Address, ~Taken(list, b, e)
    PROVE  /\ Unheld(list, b, e)
           /\ Changed(list, b, e, {prot_to_mode(prot)},
                      InsertAt(list, InsertSlot(list, b), NewArea(at, b, e, prot)))
<1> DEFINE k == InsertSlot(list, b)
           S == {i \in DOMAIN list : b < list[i].end}
           x == NewArea(at, b, e, prot)
<1>1. /\ k \in 1..Len(list) + 1 /\ (\A i \in S : k <= i) /\ (k \in S \/ k = Len(list) + 1)
  <2>1. list \in Seq(Area) /\ S \in SUBSET (DOMAIN list)
    BY OrderedLemma
  <2> HIDE DEF S
  <2>2. /\ FirstOf(list, S) \in 1..Len(list) + 1 /\ \A i \in S : FirstOf(list, S) <= i
        /\ FirstOf(list, S) \in S \/ FirstOf(list, S) = Len(list) + 1
    BY <2>1, FirstLemma
  <2>3. k = FirstOf(list, S)
    BY DEF InsertSlot, S
  <2> HIDE DEF k
  <2> QED
    BY <2>2, <2>3
<1>2. k <= Len(list) => e <= list[k].begin
  <2> SUFFICES ASSUME k <= Len(list) PROVE e <= list[k].begin
    OBVIOUS
  <2>1. ~(e > list[k].begin)
    BY DEF Taken
  <2>2. list[k].begin \in Nat
    BY <1>1, OrderedLemma, AreaLemma
  <2> QED
    BY <2>1, <2>2
<1> HIDE DEF k
<1>3. Len(list) \in Nat /\ DOMAIN list = 1..Len(list)
  BY OrderedLemma
<1>4. \A i \in 1..Len(list) : IF i < k THEN list[i].end <= b ELSE e <= list[i].begin
  <2> TAKE i \in 1..Len(list)
  <2>1. list[i].begin \in Nat /\ list[i].end \in Nat
    BY OrderedLemma, AreaLemma
  <2>2. CASE i < k
    <3>1. i \notin S
      BY <1>1, <1>3, <2>2
    <3> QED
      BY <1>3, <2>1, <2>2, <3>1
  <2>3. CASE i = k
    BY <1>2, <1>3, <2>3
  <2>4. CASE k < i
    <3>1. k \in 1..Len(list) /\ e <= list[k].begin
      BY <1>1, <1>2, <1>3, <2>4
    <3>2. list[k].end <= list[i].begin
      BY <1>3, <2>4, <3>1 DEF Ordered, Sorted
    <3>3. WellFormed(list[k])
      BY <3>1, OrderedLemma
    <3> QED
      BY <2>1, <2>4, <3>1, <3>2, <3>3, AreaLemma
  <2> QED
    BY <1>1, <1>3, <2>2, <2>3, <2>4
<1>5. WellFormed(x) /\ x.begin = b /\ x.end = e
  BY NewAreaLemma
<1> HIDE DEF x
<1>6. Ordered(InsertAt(list, k, x)) /\ Gains(list, x, InsertAt(list, k, x))
  BY <1>1, <1>4, <1>5, LinkLemma
<1>7. Unheld(list, b, e)
  <2> SUFFICES ASSUME NEW p \in Nat, b <= p, p < e, NEW a \in Range(list), a.begin <= p, p < a.end
               PROVE  FALSE
    BY DEF Unheld, Covers
  <2>1. PICK i \in 1..Len(list) : a = list[i]
    BY <1>3 DEF Range
  <2>2. a.begin \in Nat /\ a.end \in Nat
    BY OrderedLemma, AreaLemma
  <2> QED
    BY <1>4, <2>1, <2>2
<1> QED
  BY <1>6, <1>7, GainsLemma DEF k, x

\* virtual_unmap
LEMMA FreeLemma ==
    ASSUME NEW list, Ordered(list), NEW b \in Nat, NEW e \in Nat, b < e
    PROVE  Changed(list, b, e, {}, vm_clear_for_insert(list, b, e).before
                                     \o vm_clear_for_insert(list, b, e).after)
  BY ClearLemma DEF Leaves, Changed

\* MAP_FIXED, when no area is split
LEMMA OverwriteLemma ==
    ASSUME NEW list, Ordered(list), NEW b \in Nat, NEW e \in Nat, InLimits(b, e),
           NEW prot \in Prot, NEW at \in Address, ~Splits(list, b, e),
           NEW s, NEW t, Leaves(list, b, e, s, t)
    PROVE  /\ Unheld(s \o t, b, e)
           /\ Changed(s \o t, b, e, {prot_to_mode(prot)}, s \o <<NewArea(at, b, e, prot)>> \o t)
<1> DEFINE x == NewArea(at, b, e, prot)
<1>1. Unheld(s \o t, b, e)
  BY DEF Leaves, Unheld
<1>2. /\ Ordered(s) /\ Ordered(t) /\ \A y \in Range(s) : y.end <= b
      /\ \A z \in Range(t) : e <= z.begin
  BY DEF Leaves
<1>3. WellFormed(x) /\ x.begin = b /\ x.end = e
  BY NewAreaLemma
<1> HIDE DEF x
<1>4. Ordered(<<x>>) /\ Range(<<x>>) = {x}
  BY <1>3, SingleOrdered
<1>5. Ordered(s \o <<x>>) /\ Range(s \o <<x>>) = Range(s) \cup {x}
  BY <1>2, <1>3, <1>4, JoinOrdered
<1>6. b < e
  BY DEF InLimits
<1>7. \A y \in Range(s \o <<x>>), z \in Range(t) : y.end <= z.begin
  <2> SUFFICES ASSUME NEW y \in Range(s) \cup {x}, NEW z \in Range(t) PROVE y.end <= z.begin
    BY <1>5
  <2>1. y.end \in Nat /\ y.end <= e
    <3>1. CASE y = x
      BY <1>3, <3>1
    <3>2. CASE y \in Range(s)
      <4>1. WellFormed(y) /\ y.end <= b
        BY <1>2, <3>2, OrderedLemma
      <4> QED
        BY <1>6, <4>1, AreaLemma
    <3> QED
      BY <3>1, <3>2
  <2>2. WellFormed(z) /\ e <= z.begin
    BY <1>2, OrderedLemma
  <2> QED
    BY <2>1, <2>2, AreaLemma
<1>8. /\ Ordered((s \o <<x>>) \o t)
      /\ Range((s \o <<x>>) \o t) = Range(s) \cup {x} \cup Range(t)
  BY <1>2, <1>5, <1>7, JoinOrdered
<1>9. Range(s \o t) = Range(s) \cup Range(t)
  <2>1. \A y \in Range(s), z \in Range(t) : y.end <= z.begin
    <3> SUFFICES ASSUME NEW y \in Range(s), NEW z \in Range(t) PROVE y.end <= z.begin
      OBVIOUS
    <3>1. WellFormed(y) /\ WellFormed(z) /\ y.end <= b /\ e <= z.begin
      BY <1>2, OrderedLemma
    <3> QED
      BY <1>6, <3>1, AreaLemma
  <2> QED
    BY <1>2, <2>1, JoinOrdered
<1>10. Gains(s \o t, x, (s \o <<x>>) \o t)
  BY <1>8, <1>9 DEF Gains, Covers
<1> QED
  BY <1>1, <1>8, <1>10, GainsLemma DEF x

\* alloc_movable places an area after one that is in the list.
LEMMA RegionsLemma ==
    ASSUME NEW list, Headed(list), NEW hint, NEW n, NEW x \in Regions(list, hint, n)
    PROVE  x \in 1..Len(list)
<1> DEFINE fit == {i \in DOMAIN list : space_after(list, i) >= n}
           above == {i \in fit : list[i].end >= hint}
           below == {i \in fit : \A j \in above : i < j}
           a == Min(above)
           r == Max(below)
<1>1. DOMAIN list = 1..Len(list) /\ Len(list) \in Nat
  BY HeadedLemma DEF Headed
<1>2. above \in SUBSET (1..Len(list)) /\ below \in SUBSET (1..Len(list))
  BY <1>1
<1>3. ~(above = {} /\ below = {})
  BY DEF Regions
<1>4. (x = a /\ above # {}) \/ (x = r /\ below # {})
  BY <1>3 DEF Regions
<1> HIDE DEF above, below
<1>5. above # {} => a \in above
  <2> SUFFICES ASSUME above # {} PROVE a \in above
    OBVIOUS
  <2>1. above \in SUBSET Nat
    BY <1>2
  <2>2. \E m \in above : \A k \in above : m <= k
    BY <2>1, LeastLemma
  <2> QED
    BY <2>2 DEF Min
<1>6. below # {} => r \in below
  BY <1>1, <1>2, LastOfLemma
<1> QED
  BY <1>2, <1>4, <1>5, <1>6

\* The bounds of the gap after place r
LEMMA GapLemma ==
    ASSUME NEW list, Headed(list), NEW r \in 1..Len(list)
    PROVE  /\ list[r].end \in Nat /\ 0 < list[r].end /\ NextBegin(list, r) \in Nat
           /\ list[r].end <= NextBegin(list, r) /\ NextBegin(list, r) <= ADDR_MAX
           /\ \A i \in 1..Len(list) : IF i <= r THEN list[i].end <= list[r].end
                                      ELSE NextBegin(list, r) <= list[i].begin
<1>1. DOMAIN list = 1..Len(list) /\ Len(list) \in Nat
  BY HeadedLemma DEF Headed
<1>2. \A i \in 1..Len(list) :
            /\ list[i].begin \in Nat /\ list[i].end \in Nat /\ 0 < list[i].begin
            /\ list[i].begin <= list[i].end /\ list[i].end <= ADDR_MAX
  BY HeadedLemma
<1>3. \A i, j \in 1..Len(list) : i < j => list[i].end <= list[j].begin
  BY <1>1 DEF Headed, Sorted
<1>4. r < Len(list) => r + 1 \in 1..Len(list) /\ NextBegin(list, r) = list[r + 1].begin
  BY <1>1 DEF NextBegin
<1>5. ~(r < Len(list)) => NextBegin(list, r) = ADDR_MAX
  BY DEF NextBegin
<1>6. /\ list[r].end \in Nat /\ 0 < list[r].end /\ NextBegin(list, r) \in Nat
      /\ list[r].end <= NextBegin(list, r) /\ NextBegin(list, r) <= ADDR_MAX
  <2>1. CASE r < Len(list)
    <3>1. list[r].end <= list[r + 1].begin
      BY <1>1, <1>3, <1>4, <2>1
    <3>2. list[r + 1].begin \in Nat /\ list[r + 1].begin <= ADDR_MAX
      <4>1. /\ list[r + 1].begin \in Nat /\ list[r + 1].end \in Nat
            /\ list[r + 1].begin <= list[r + 1].end /\ list[r + 1].end <= ADDR_MAX
        BY <1>2, <1>4, <2>1
      <4> QED
        BY <4>1
    <3> QED
      BY <1>2, <1>4, <2>1, <3>1, <3>2
  <2>2. CASE ~(r < Len(list))
    BY <1>2, <1>5, <2>2
  <2> QED
    BY <2>1, <2>2
<1>7. ASSUME NEW i \in 1..Len(list), i <= r
      PROVE  list[i].end <= list[r].end
  <2>1. CASE i = r
    BY <1>2, <2>1
  <2>2. CASE i < r
    <3>1. list[i].end <= list[r].begin
      BY <1>3, <2>2
    <3> QED
      BY <1>2, <3>1
  <2> QED
    BY <1>1, <1>7, <2>1, <2>2
<1>8. ASSUME NEW i \in 1..Len(list), ~(i <= r)
      PROVE  NextBegin(list, r) <= list[i].begin
  <2>1. r + 1 \in 1..Len(list) /\ NextBegin(list, r) = list[r + 1].begin
    BY <1>1, <1>4, <1>8
  <2>2. CASE i = r + 1
    BY <1>2, <2>1, <2>2
  <2>3. CASE i # r + 1
    <3>1. list[r + 1].end <= list[i].begin
      <4>1. r + 1 < i
        BY <1>1, <1>8, <2>3
      <4> QED
        BY <1>3, <2>1, <4>1
    <3>2. /\ list[i].begin \in Nat /\ list[r + 1].end \in Nat /\ list[r + 1].begin \in Nat
          /\ list[r + 1].begin <= list[r + 1].end
      BY <1>2, <2>1
    <3> QED
      BY <2>1, <3>1, <3>2
  <2> QED
    BY <2>2, <2>3
<1> QED
  BY <1>6, <1>7, <1>8

\* An area placed in that gap and merged with what follows
LEMMA PlaceLemma ==
    ASSUME NEW list, Headed(list), NEW r \in 1..Len(list), NEW x, WellFormed(x),
           list[r].end <= x.begin, x.end <= NextBegin(list, r)
    PROVE  /\ Unheld(list, x.begin, x.end)
           /\ Ordered(Tail(merge_regions_after(InsertAt(list, r + 1, x), r)))
           /\ Gains(list, x, Tail(merge_regions_after(InsertAt(list, r + 1, x), r)))
<1> DEFINE linked == InsertAt(list, r + 1, x)
           merged == merge_regions_after(linked, r)
<1>1. Headed(linked) /\ Gains(list, x, linked) /\ Len(linked) = Len(list) + 1
  BY LinkHeadedLemma
<1> HIDE DEF linked
<1>2. r \in 1..Len(linked)
  BY <1>1 DEF Headed
<1>3. Headed(merged) /\ \A p \in Nat : \A m : Covers(merged, p, m) <=> Covers(linked, p, m)
  BY <1>1, <1>2, MergeLemma
<1> HIDE DEF merged
<1>4. /\ Ordered(Tail(merged))
      /\ \A p \in Nat : \A m : Covers(Tail(merged), p, m) <=> Covers(merged, p, m)
  BY <1>3, HeadOffLemma
<1>5. Gains(list, x, Tail(merged))
  BY <1>1, <1>3, <1>4 DEF Gains
<1>6. Unheld(list, x.begin, x.end)
  <2> SUFFICES ASSUME NEW p \in Nat, x.begin <= p, p < x.end, NEW a \in Range(list),
                      a.begin <= p, p < a.end
               PROVE  FALSE
    BY DEF Unheld, Covers
  <2>1. PICK i \in 1..Len(list) : a = list[i]
    BY HeadedLemma DEF Range
  <2>2. a.begin \in Nat /\ a.end \in Nat
    BY <2>1, HeadedLemma
  <2>3. /\ list[r].end \in Nat /\ NextBegin(list, r) \in Nat
        /\ IF i <= r THEN a.end <= list[r].end ELSE NextBegin(list, r) <= a.begin
    BY <2>1, GapLemma
  <2>4. x.begin \in Nat /\ x.end \in Nat
    BY AreaLemma
  <2> QED
    BY <2>2, <2>3, <2>4, SMTT(30)
<1> QED
  BY <1>4, <1>5, <1>6 DEF linked, merged

\* The head holds no page.
LEMMA HeadHoldsLemma ==
    ASSUME NEW list, Ordered(list), NEW p \in Nat, NEW m
    PROVE  Covers(<<ListBegin>> \o list, p, m) <=> Covers(list, p, m)
<1> DEFINE headed == <<ListBegin>> \o list
<1>1. /\ Len(headed) = Len(list) + 1 /\ Len(list) \in Nat /\ DOMAIN list = 1..Len(list)
      /\ DOMAIN headed = 1..Len(headed)
      /\ \A i \in 1..Len(list) : headed[i + 1] = list[i]
      /\ headed[1] = ListBegin
  <2>1. /\ Headed(headed) /\ Len(headed) = Len(list) + 1
        /\ \A i \in 1..Len(list) : headed[i + 1] = list[i]
    BY HeadOnLemma
  <2> HIDE DEF headed
  <2> QED
    BY <2>1, HeadedLemma, OrderedLemma DEF Headed
<1> HIDE DEF headed
<1>2. ASSUME Covers(headed, p, m) PROVE Covers(list, p, m)
  <2>1. PICK i \in 1..Len(headed) : headed[i].begin <= p /\ p < headed[i].end /\ headed[i].flags = m
    BY <1>1, <1>2 DEF Covers, Range
  <2>2. i # 1
    BY <1>1, <2>1 DEF ListBegin
  <2>3. i - 1 \in 1..Len(list) /\ (i - 1) + 1 = i
    BY <1>1, <2>2
  <2>4. i - 1 \in DOMAIN list /\ list[i - 1] = headed[i]
    BY <1>1, <2>3
  <2> QED
    BY <2>1, <2>4 DEF Covers, Range
<1>3. ASSUME Covers(list, p, m) PROVE Covers(headed, p, m)
  <2>1. PICK i \in 1..Len(list) : list[i].begin <= p /\ p < list[i].end /\ list[i].flags = m
    BY <1>1, <1>3 DEF Covers, Range
  <2>2. i + 1 \in DOMAIN headed /\ headed[i + 1] = list[i]
    BY <1>1
  <2> QED
    BY <2>1, <2>2 DEF Covers, Range
<1> QED
  BY <1>2, <1>3 DEF headed

\* clamp stays in its bounds.
LEMMA ClampLemma ==
    ASSUME NEW v \in Nat, NEW lo \in Nat, NEW hi \in Nat, lo <= hi
    PROVE  clamp(v, lo, hi) \in Nat /\ lo <= clamp(v, lo, hi)
  BY DEF clamp

\* alloc_movable, when the gap it finds is long enough
LEMMA MovableLemma ==
    ASSUME NEW list, Ordered(list), NEW headed, Headed(headed),
           \A p \in Nat : \A m : Covers(headed, p, m) <=> Covers(list, p, m),
           NEW r \in 1..Len(headed), NEW n \in Nat, n > 0, NEW prot \in Prot, NEW at \in Address,
           NEW b \in Nat, headed[r].end <= b, b + n <= NextBegin(headed, r)
    PROVE  /\ InLimits(b, b + n) /\ Unheld(list, b, b + n)
           /\ Changed(list, b, b + n, {prot_to_mode(prot)},
                Tail(merge_regions_after(InsertAt(headed, r + 1, NewArea(at, b, b + n, prot)), r)))
<1> DEFINE x == NewArea(at, b, b + n, prot)
           new == Tail(merge_regions_after(InsertAt(headed, r + 1, x), r))
<1>1. /\ headed[r].end \in Nat /\ 0 < headed[r].end /\ NextBegin(headed, r) \in Nat
      /\ headed[r].end <= NextBegin(headed, r) /\ NextBegin(headed, r) <= ADDR_MAX
  BY GapLemma
<1>2. b + n \in Nat /\ InLimits(b, b + n)
  BY <1>1 DEF InLimits
<1>3. WellFormed(x) /\ x.begin = b /\ x.end = b + n
  BY <1>2, NewAreaLemma
<1> HIDE DEF x
<1>4. Unheld(headed, x.begin, x.end) /\ Ordered(new) /\ Gains(headed, x, new)
  BY <1>3, PlaceLemma
<1> HIDE DEF new
<1>5. Unheld(list, b, b + n) /\ Gains(list, x, new)
  BY <1>3, <1>4 DEF Unheld, Gains
<1>6. Changed(list, b, b + n, {prot_to_mode(prot)}, new)
  BY <1>2, <1>4, <1>5, GainsLemma DEF x
<1> QED
  BY <1>2, <1>5, <1>6 DEF new, x

-----------------------------------------------------------------------------
(***************************************************************************)
(* The page map                                                            *)
(***************************************************************************)
\* A page is present exactly when it lies in an area with access, with its mode.
Match(list, map) ==
    /\ DOMAIN map \subseteq Page
    /\ \A p \in Page : p \in DOMAIN map <=> \E m : Covers(list, p, m) /\ "USER" \in m
    /\ \A p \in DOMAIN map : Covers(list, p, map[p])

\* A page lies in one area at most.
LEMMA OneModeLemma ==
    ASSUME NEW list, Ordered(list), NEW p \in Nat, NEW a \in Range(list), NEW c \in Range(list),
           a.begin <= p, p < a.end, c.begin <= p, p < c.end
    PROVE  a = c
<1>1. PICK i \in 1..Len(list), j \in 1..Len(list) : a = list[i] /\ c = list[j]
  BY OrderedLemma DEF Range
<1>2. \A k \in 1..Len(list) : list[k].begin \in Nat /\ list[k].end \in Nat
  BY OrderedLemma, AreaLemma
<1>3. ~(i < j)
  <2> SUFFICES ASSUME i < j PROVE FALSE
    OBVIOUS
  <2>1. list[i].end <= list[j].begin
    BY OrderedLemma DEF Ordered, Sorted
  <2> QED
    BY <1>1, <1>2, <2>1
<1>4. ~(j < i)
  <2> SUFFICES ASSUME j < i PROVE FALSE
    OBVIOUS
  <2>1. list[j].end <= list[i].begin
    BY OrderedLemma DEF Ordered, Sorted
  <2> QED
    BY <1>1, <1>2, <2>1
<1> QED
  BY <1>1, <1>3, <1>4

\* mmu_clear and mmu_assign, as far as the pages go
MapWithout(map, b, e) == [p \in DOMAIN map \ (b..(e - 1)) |-> map[p]]

MapWith(map, b, e, mode) ==
    [p \in DOMAIN map \cup (b..(e - 1)) |-> IF p \in b..(e - 1) THEN mode ELSE map[p]]

\* mmu_clear follows the list that was cleared.
LEMMA ClearMatchLemma ==
    ASSUME NEW list, NEW map, Match(list, map), NEW b \in Nat, NEW e \in Nat,
           NEW new, Changed(list, b, e, {}, new)
    PROVE  Match(new, MapWithout(map, b, e))
<1> DEFINE cleared == MapWithout(map, b, e)
<1>1. /\ DOMAIN cleared = {p \in DOMAIN map : ~(b <= p /\ p < e)}
      /\ \A p \in DOMAIN cleared : cleared[p] = map[p]
  <2>1. DOMAIN cleared = DOMAIN map \ (b..(e - 1)) /\ \A p \in DOMAIN cleared : cleared[p] = map[p]
    BY DEF MapWithout
  <2>2. \A p \in Page : p \in b..(e - 1) <=> b <= p /\ p < e
    BY DEF Page
  <2>3. DOMAIN map \subseteq Page
    BY DEF Match
  <2> HIDE DEF cleared
  <2> QED
    BY <2>1, <2>2, <2>3
<1> HIDE DEF cleared
<1>2. Page \subseteq Nat
  BY DEF Page
<1>3. \A p \in Nat : \A m : Covers(new, p, m) <=> Covers(list, p, m) /\ ~(b <= p /\ p < e)
  BY DEF Changed
<1> QED
  BY <1>1, <1>2, <1>3 DEF Match, cleared

\* mmu_assign finds no entry in use and follows the list that gained an area.
LEMMA AssignMatchLemma ==
    ASSUME NEW list, NEW map, Match(list, map), NEW b \in Nat, NEW e \in Nat, InLimits(b, e),
           NEW prot \in Prot, Unheld(list, b, e),
           NEW new, Changed(list, b, e, {prot_to_mode(prot)}, new)
    PROVE  /\ DOMAIN map \cap (b..(e - 1)) = {}
           /\ Match(new, IF prot = {} THEN map ELSE MapWith(map, b, e, prot_to_mode(prot)))
<1> DEFINE mode == prot_to_mode(prot)
           assigned == MapWith(map, b, e, mode)
<1>1. Page \subseteq Nat /\ b..(e - 1) \subseteq Page
      /\ \A p \in Page : p \in b..(e - 1) <=> b <= p /\ p < e
  BY DEF Page, InLimits
<1>2. "USER" \in mode <=> prot # {}
  BY ModeLemma
<1>3. /\ DOMAIN assigned = DOMAIN map \cup (b..(e - 1))
      /\ \A p \in DOMAIN assigned : assigned[p] = IF p \in b..(e - 1) THEN mode ELSE map[p]
  BY DEF MapWith
<1> HIDE DEF mode, assigned
<1>4. \A p \in Page : \A m :
        Covers(new, p, m) <=> IF b <= p /\ p < e THEN m = mode ELSE Covers(list, p, m)
  BY <1>1 DEF Changed, mode
<1>5. DOMAIN map \cap (b..(e - 1)) = {}
  BY <1>1 DEF Match, Unheld
<1>6. \A p \in DOMAIN map : p \in Page /\ ~(b <= p /\ p < e)
  BY <1>1, <1>5 DEF Match
<1>7. CASE prot = {}
  <2>1. \A p \in Page : \A m : "USER" \in m => (Covers(new, p, m) <=> Covers(list, p, m))
    BY <1>1, <1>2, <1>4, <1>7 DEF Unheld
  <2>2. \A p \in DOMAIN map : Covers(new, p, map[p])
    BY <1>4, <1>6 DEF Match
  <2>3. Match(new, map)
    BY <2>1, <2>2 DEF Match
  <2> QED
    BY <1>5, <1>7, <2>3
<1>8. CASE prot # {}
  <2>1. DOMAIN assigned \subseteq Page
    BY <1>1, <1>3 DEF Match
  <2>2. \A p \in DOMAIN assigned : Covers(new, p, assigned[p])
    BY <1>1, <1>3, <1>4, <1>6 DEF Match
  <2>3. \A p \in Page : p \in DOMAIN assigned <=> \E m : Covers(new, p, m) /\ "USER" \in m
    <3> TAKE p \in Page
    <3>1. CASE b <= p /\ p < e
      BY <1>1, <1>2, <1>3, <1>4, <1>8, <3>1
    <3>2. CASE ~(b <= p /\ p < e)
      BY <1>1, <1>3, <1>4, <3>2 DEF Match
    <3> QED
      BY <3>1, <3>2
  <2>4. Match(new, assigned)
    BY <2>1, <2>2, <2>3 DEF Match
  <2> QED
    BY <1>5, <1>8, <2>4 DEF assigned, mode
<1> QED
  BY <1>7, <1>8

\* The addresses of the objects do not matter.
LEMMA ReatLemma ==
    ASSUME NEW list, Ordered(list), NEW new \in Seq(Area), Len(new) = Len(list),
           \A i \in 1..Len(list) : /\ new[i].begin = list[i].begin /\ new[i].end = list[i].end
                                   /\ new[i].flags = list[i].flags
    PROVE  Ordered(new) /\ \A p \in Nat : \A m : Covers(new, p, m) <=> Covers(list, p, m)
<1>1. /\ Len(list) \in Nat /\ DOMAIN list = 1..Len(list) /\ DOMAIN new = 1..Len(list)
      /\ \A i \in 1..Len(list) : WellFormed(list[i]) /\ new[i] \in Area
  BY OrderedLemma
<1>2. \A i \in 1..Len(list) : WellFormed(new[i])
  BY <1>1 DEF WellFormed
<1>3. Sorted(new)
  BY <1>1 DEF Sorted, Ordered
<1>4. \A p, m : Covers(new, p, m) <=> Covers(list, p, m)
  BY <1>1 DEF Covers, Range
<1> QED
  BY <1>1, <1>2, <1>3, <1>4 DEF Ordered
=============================================================================
