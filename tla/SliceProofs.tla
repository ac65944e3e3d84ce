----------------------------- MODULE SliceProofs -----------------------------
(***************************************************************************)
(* Facts about slice and filter (Slices) and about sets of numbers, for    *)
(* the proofs about the queues that are kept with them.                    *)
(*                                                                         *)
(* What is shown by induction is stated as a set of numbers: a set that    *)
(* has an element has a least one, since Nat is well-founded.              *)
(***************************************************************************)
EXTENDS Slices, Integers, FiniteSetTheorems, SequenceTheorems, WellFoundedInduction, TLAPS

(* A set of numbers that has an element has a least one: induction for     *)
(* whatever can be said as a set of numbers.                               *)
LEMMA LeastNumber ==
    ASSUME NEW T \in SUBSET Nat, T # {}
    PROVE  \E x \in T : \A y \in T : x <= y
<1> DEFINE R == {ss \in Nat \X Nat : ss[1] < ss[2]}
<1>1. IsWellFoundedOn(R, Nat)
    BY NatLessThanWellFounded DEF OpToRel
<1>2. PICK x \in T : \A y \in T : ~(<< y, x >> \in R)
    <2> HIDE DEF R
    <2> QED BY <1>1, WFMin
<1>3. ASSUME NEW y \in T PROVE x <= y
    <2>1. x \in Nat /\ y \in Nat OBVIOUS
    <2>2. ~(<< y, x >> \in R) BY <1>2
    <2>3. << y, x >> \in Nat \X Nat BY <2>1
    <2>4. ~(y < x) BY <2>2, <2>3
    <2> HIDE DEF R
    <2> QED BY <2>1, <2>4
<1> QED BY <1>3

(* Induction: a set that has 0 and with each number the next one has all.  *)
LEMMA AllNumbers ==
    ASSUME NEW T, 0 \in T, \A n \in Nat : n \in T => n + 1 \in T
    PROVE  \A n \in Nat : n \in T
<1> SUFFICES ASSUME Nat \ T # {} PROVE FALSE OBVIOUS
<1>1. PICK x \in Nat \ T : \A y \in Nat \ T : x <= y BY LeastNumber
<1>2. x # 0 OBVIOUS
<1>3. x - 1 \in Nat BY <1>2
<1>4. x - 1 \in T BY <1>1, <1>3
<1>5. (x - 1) + 1 \in T BY <1>3, <1>4
<1> QED BY <1>5

(* A finite set of indices has a greatest one.                             *)
LEMMA GreatestNumber ==
    ASSUME NEW n \in Nat, NEW T \in SUBSET (1..n), T # {}
    PROVE  \E x \in T : \A y \in T : y <= x
<1> DEFINE U == {n - x : x \in T}
<1>1. \A x \in T : x \in Int /\ n - x \in Nat OBVIOUS
<1>2. U \in SUBSET Nat BY <1>1
<1>3. U # {} OBVIOUS
<1>4. PICK u \in U : \A v \in U : u <= v BY <1>2, <1>3, LeastNumber
<1>5. PICK x \in T : u = n - x OBVIOUS
<1>6. ASSUME NEW y \in T PROVE y <= x
    <2>1. n - y \in U OBVIOUS
    <2>2. n - x <= n - y BY <1>4, <1>5, <2>1
    <2> QED BY <2>2
<1> QED BY <1>6

(* A strictly increasing sequence of numbers grows by one at least.        *)
LEMMA GrowsByOne ==
    ASSUME NEW n \in Nat, NEW f \in [1..n -> Nat],
           \A i, k \in 1..n : i < k => f[i] < f[k],
           NEW i \in 1..n, NEW k \in 1..n, i <= k
    PROVE  f[i] + (k - i) <= f[k]
<1> DEFINE T == {m \in Nat : i + m <= n => f[i] + m <= f[i + m]}
<1>1. 0 \in T OBVIOUS
<1>2. ASSUME NEW m \in Nat, m \in T PROVE m + 1 \in T
    <2> SUFFICES ASSUME i + (m + 1) <= n PROVE f[i] + (m + 1) <= f[i + (m + 1)] OBVIOUS
    <2>1. i + m \in 1..n /\ i + (m + 1) \in 1..n /\ i + m < i + (m + 1) OBVIOUS
    <2>2. f[i] + m <= f[i + m] BY <1>2
    <2>3. f[i + m] < f[i + (m + 1)] BY <2>1
    <2>4. f[i] \in Nat /\ f[i + m] \in Nat /\ f[i + (m + 1)] \in Nat BY <2>1
    <2> QED BY <2>2, <2>3, <2>4
<1> HIDE DEF T
<1>3. \A m \in Nat : m \in T BY <1>1, <1>2, AllNumbers
<1>4. k - i \in Nat /\ i + (k - i) = k /\ k <= n OBVIOUS
<1>5. k - i \in T BY <1>3, <1>4
<1> QED BY <1>4, <1>5 DEF T

-----------------------------------------------------------------------------
(* slice(-n) leaves the end of a sequence, and n elements unless it was    *)
(* shorter.                                                                *)
LEMMA LastOfProperties ==
    ASSUME NEW S, NEW s \in Seq(S), NEW n \in Nat \ {0}
    PROVE  /\ LastOf(s, n) \in Seq(S) /\ Len(LastOf(s, n)) <= n
           /\ \E d \in Nat :
                /\ d + Len(LastOf(s, n)) = Len(s)
                /\ d # 0 => Len(LastOf(s, n)) = n
                /\ \A i \in 1..Len(LastOf(s, n)) : LastOf(s, n)[i] = s[d + i]
<1>1. Len(s) \in Nat BY LenProperties
<1>2. CASE Len(s) <= n
    <2>1. LastOf(s, n) = s BY <1>2 DEF LastOf
    <2>2. 0 + Len(s) = Len(s) /\ \A i \in 1..Len(s) : s[i] = s[0 + i] BY <1>1
    <2> QED BY <1>1, <1>2, <2>1, <2>2
<1>3. CASE ~(Len(s) <= n)
    <2> DEFINE d == Len(s) - n
    <2>1. LastOf(s, n) = SubSeq(s, d + 1, Len(s)) BY <1>1, <1>3 DEF LastOf
    <2>2. d \in Nat /\ d + n = Len(s) BY <1>1, <1>3
    <2>3. \A i \in (d + 1)..Len(s) : s[i] \in S BY <1>1, <2>2, ElementOfSeq
    <2>4. /\ SubSeq(s, d + 1, Len(s)) \in Seq(S)
          /\ Len(SubSeq(s, d + 1, Len(s))) =
                IF d + 1 <= Len(s) THEN Len(s) - (d + 1) + 1 ELSE 0
          /\ \A i \in 1..(Len(s) - (d + 1) + 1) : SubSeq(s, d + 1, Len(s))[i] = s[d + 1 + i - 1]
        <3> HIDE DEF d
        <3> QED BY <1>1, <2>2, <2>3, SubSeqProperties
    <2>5. Len(LastOf(s, n)) = n BY <1>1, <2>1, <2>2, <2>4
    <2>6. \A i \in 1..n : LastOf(s, n)[i] = s[d + i]
        <3> HIDE DEF d
        <3>1. Len(s) - (d + 1) + 1 = n BY <1>1, <2>2
        <3>2. \A i \in 1..n : d + 1 + i - 1 = d + i BY <2>2
        <3> QED BY <2>1, <2>4, <3>1, <3>2
    <2> HIDE DEF d
    <2> QED BY <2>1, <2>2, <2>4, <2>5, <2>6
<1> QED BY <1>2, <1>3

-----------------------------------------------------------------------------
(* The kept indices, counted: Nth lists them in ascending order.           *)
LEMMA BeforeIsCounted ==
    ASSUME NEW kept \in SUBSET Nat, IsFiniteSet(kept), NEW i \in kept
    PROVE  /\ IsFiniteSet(Before(kept, i))
           /\ Cardinality(Before(kept, i)) \in 0..(Cardinality(kept) - 1)
           /\ \A k \in kept : i < k =>
                  Cardinality(Before(kept, i)) < Cardinality(Before(kept, k))
<1>1. \A k \in kept : IsFiniteSet(Before(kept, k)) /\ Cardinality(Before(kept, k)) \in Nat
    <2> SUFFICES ASSUME NEW k \in kept
                 PROVE  IsFiniteSet(Before(kept, k)) /\ Cardinality(Before(kept, k)) \in Nat
        OBVIOUS
    <2>1. Before(kept, k) \subseteq kept BY DEF Before
    <2>2. IsFiniteSet(Before(kept, k)) BY <2>1, FS_Subset
    <2> QED BY <2>2, FS_CardinalityType
<1>2. Cardinality(kept) \in Nat BY FS_CardinalityType
<1> DEFINE B == Before(kept, i) \cup {i}
<1>3. i \notin Before(kept, i) BY DEF Before
<1>4. IsFiniteSet(B) /\ Cardinality(B) = Cardinality(Before(kept, i)) + 1
    BY <1>1, <1>3, FS_AddElement
<1>5. Cardinality(Before(kept, i)) + 1 <= Cardinality(kept)
    <2>1. B \subseteq kept BY DEF Before
    <2> QED BY <1>4, <2>1, FS_Subset
<1>6. ASSUME NEW k \in kept, i < k
      PROVE  Cardinality(Before(kept, i)) < Cardinality(Before(kept, k))
    <2>1. B \subseteq Before(kept, k)
        <3>1. \A x \in kept : x \in Nat OBVIOUS
        <3>2. \A x \in kept : x < i => x < k BY <3>1, <1>6
        <3> QED BY <3>2, <1>6 DEF Before
    <2>2. Cardinality(B) <= Cardinality(Before(kept, k)) BY <1>1, <2>1, FS_Subset
    <2> HIDE DEF B
    <2> QED BY <1>1, <1>4, <2>2
<1> HIDE DEF B
<1> QED BY <1>1, <1>2, <1>5, <1>6

LEMMA NthProperties ==
    ASSUME NEW kept \in SUBSET Nat, IsFiniteSet(kept)
    PROVE  /\ Cardinality(kept) \in Nat
           /\ \A n \in 1..Cardinality(kept) : Nth(kept, n) \in kept
           /\ \A n, m \in 1..Cardinality(kept) : n < m => Nth(kept, n) < Nth(kept, m)
           /\ \A i \in kept : \E n \in 1..Cardinality(kept) : Nth(kept, n) = i
<1> DEFINE c == Cardinality(kept)
           rank == [i \in kept |-> Cardinality(Before(kept, i)) + 1]
<1>1. c \in Nat BY FS_CardinalityType
<1>2. ASSUME NEW i \in kept
      PROVE  /\ rank[i] \in 1..c
             /\ \A k \in kept : i < k => rank[i] < rank[k]
    <2>1. Cardinality(Before(kept, i)) \in 0..(Cardinality(kept) - 1) BY BeforeIsCounted
    <2>2. \A k \in kept : Cardinality(Before(kept, k)) \in 0..(Cardinality(kept) - 1)
        BY BeforeIsCounted
    <2>3. \A k \in kept : i < k => Cardinality(Before(kept, i)) < Cardinality(Before(kept, k))
        BY BeforeIsCounted
    <2> QED BY <1>1, <2>1, <2>2, <2>3
<1>3. \A i, k \in kept : rank[i] = rank[k] => i = k
    <2> SUFFICES ASSUME NEW i \in kept, NEW k \in kept, rank[i] = rank[k], i # k PROVE FALSE
        OBVIOUS
    <2>1. i \in Nat /\ k \in Nat OBVIOUS
    <2>2. i < k \/ k < i BY <2>1
    <2>3. rank[i] \in 1..c /\ rank[k] \in 1..c BY <1>2
    <2>4. i < k => rank[i] < rank[k] BY <1>2
    <2>5. k < i => rank[k] < rank[i] BY <1>2
    <2> HIDE DEF rank
    <2> QED BY <2>2, <2>3, <2>4, <2>5
<1>4. rank \in Injection(kept, 1..c)
    BY <1>2, <1>3 DEF Injection, IsInjective
<1>5. IsFiniteSet(1..c) /\ Cardinality(1..c) = c
    BY <1>1, FS_Interval
<1>6. rank \in Surjection(kept, 1..c)
    BY <1>4, <1>5, FS_Injection
<1>7. \A n \in 1..c : \E i \in kept : rank[i] = n
    BY <1>6 DEF Surjection
<1>8. ASSUME NEW n \in 1..c PROVE Nth(kept, n) \in kept /\ rank[Nth(kept, n)] = n
    <2>1. PICK i \in kept : rank[i] = n BY <1>7
    <2>2. Cardinality(Before(kept, i)) = n - 1
        <3>1. Cardinality(Before(kept, i)) \in 0..(Cardinality(kept) - 1) BY BeforeIsCounted
        <3> QED BY <1>1, <2>1, <3>1
    <2>3. Nth(kept, n) \in kept /\ Cardinality(Before(kept, Nth(kept, n))) = n - 1
        BY <2>2 DEF Nth
    <2> QED BY <1>1, <2>3
<1>9. ASSUME NEW n \in 1..c, NEW m \in 1..c, n < m PROVE Nth(kept, n) < Nth(kept, m)
    <2> DEFINE i == Nth(kept, n)
               k == Nth(kept, m)
    <2>1. i \in kept /\ k \in kept /\ rank[i] = n /\ rank[k] = m BY <1>8
    <2>2. i \in Nat /\ k \in Nat BY <2>1
    <2>3. k < i => rank[k] < rank[i] BY <1>2, <2>1
    <2>4. i # k BY <1>9, <2>1
    <2>5. i < k
        <3> HIDE DEF i, k, rank
        <3> QED BY <1>9, <2>1, <2>2, <2>3, <2>4
    <2> QED BY <2>5
<1>10. ASSUME NEW i \in kept PROVE \E n \in 1..c : Nth(kept, n) = i
    <2>1. rank[i] \in 1..c BY <1>2
    <2>2. Nth(kept, rank[i]) \in kept /\ rank[Nth(kept, rank[i])] = rank[i] BY <1>8, <2>1
    <2>3. Nth(kept, rank[i]) = i
        <3> HIDE DEF rank
        <3> QED BY <1>3, <2>2
    <2> QED BY <2>1, <2>3
<1> QED BY <1>1, <1>8, <1>9, <1>10

(* filter keeps what it keeps, in the order it was in.                     *)
LEMMA FilterProperties ==
    ASSUME NEW S, NEW s \in Seq(S), NEW kept \in SUBSET (1..Len(s))
    PROVE  /\ Filter(s, kept) \in Seq(S)
           /\ Len(Filter(s, kept)) <= Len(s)
           /\ \A n \in 1..Len(Filter(s, kept)) : \E i \in kept : Filter(s, kept)[n] = s[i]
           /\ \A i \in kept : \E n \in 1..Len(Filter(s, kept)) : Filter(s, kept)[n] = s[i]
           /\ \A n, m \in 1..Len(Filter(s, kept)) : n < m =>
                 \E i, k \in kept :
                     i < k /\ Filter(s, kept)[n] = s[i] /\ Filter(s, kept)[m] = s[k]
<1> DEFINE c == Cardinality(kept)
           f == Filter(s, kept)
<1>1. Len(s) \in Nat BY LenProperties
<1>2. IsFiniteSet(1..Len(s)) /\ Cardinality(1..Len(s)) = Len(s) BY <1>1, FS_Interval
<1>3. IsFiniteSet(kept) /\ c <= Len(s) BY <1>2, FS_Subset
<1>4. kept \in SUBSET Nat OBVIOUS
<1>5. /\ c \in Nat
      /\ \A n \in 1..c : Nth(kept, n) \in kept
      /\ \A n, m \in 1..c : n < m => Nth(kept, n) < Nth(kept, m)
      /\ \A i \in kept : \E n \in 1..c : Nth(kept, n) = i
    BY <1>3, <1>4, NthProperties
<1>6. f = [n \in 1..c |-> s[Nth(kept, n)]] BY DEF Filter
<1>7. \A i \in kept : s[i] \in S BY ElementOfSeq
<1>8. f \in [1..c -> S] BY <1>5, <1>6, <1>7
<1>9. f \in Seq(S) /\ Len(f) = c
    BY <1>5, <1>6, <1>8, SeqDef, LenProperties
<1>10. \A n \in 1..c : f[n] = s[Nth(kept, n)] BY <1>6
<1> HIDE DEF c, f
<1>11. \A n, m \in 1..c : n < m =>
                 \E i, k \in kept : i < k /\ f[n] = s[i] /\ f[m] = s[k]
    BY <1>5, <1>10
<1>12. \A n \in 1..c : \E i \in kept : f[n] = s[i] BY <1>5, <1>10
<1>13. \A i \in kept : \E n \in 1..c : f[n] = s[i] BY <1>5, <1>10
<1>14. /\ f \in Seq(S) /\ Len(f) <= Len(s)
       /\ \A n \in 1..Len(f) : \E i \in kept : f[n] = s[i]
       /\ \A i \in kept : \E n \in 1..Len(f) : f[n] = s[i]
       /\ \A n, m \in 1..Len(f) : n < m =>
                 \E i, k \in kept : i < k /\ f[n] = s[i] /\ f[m] = s[k]
    BY <1>3, <1>9, <1>11, <1>12, <1>13
<1> QED BY <1>14, Zenon DEF f

-----------------------------------------------------------------------------
Elements(s) == {s[i] : i \in 1..Len(s)}

LEMMA ElementsTyped ==
    ASSUME NEW S, NEW s \in Seq(S)
    PROVE  Elements(s) \subseteq S /\ Len(s) \in Nat
<1>1. Len(s) \in Nat /\ \A i \in 1..Len(s) : s[i] \in S BY LenProperties, ElementOfSeq
<1> QED BY <1>1 DEF Elements

LEMMA LastOfIsPart ==
    ASSUME NEW S, NEW s \in Seq(S), NEW n \in Nat \ {0}
    PROVE  Elements(LastOf(s, n)) \subseteq Elements(s)
<1> DEFINE l == LastOf(s, n)
<1>1. l \in Seq(S) /\ \E d \in Nat : d + Len(l) = Len(s) /\ \A i \in 1..Len(l) : l[i] = s[d + i]
    BY LastOfProperties
<1> HIDE DEF l
<1>2. PICK d \in Nat : d + Len(l) = Len(s) /\ \A i \in 1..Len(l) : l[i] = s[d + i] BY <1>1
<1>3. Len(l) \in Nat /\ Len(s) \in Nat BY <1>1, LenProperties
<1>4. \A i \in 1..Len(l) : d + i \in 1..Len(s) BY <1>2, <1>3
<1>5. Elements(l) \subseteq Elements(s) BY <1>2, <1>4 DEF Elements
<1> QED BY <1>5 DEF l

LEMMA JoinedElements ==
    ASSUME NEW S, NEW a \in Seq(S), NEW b \in Seq(S)
    PROVE  /\ a \o b \in Seq(S) /\ Len(a \o b) = Len(a) + Len(b)
           /\ Elements(a \o b) = Elements(a) \cup Elements(b)
           /\ \A i \in 1..Len(a \o b) :
                 \/ i \in 1..Len(a) /\ (a \o b)[i] = a[i]
                 \/ i - Len(a) \in 1..Len(b) /\ (a \o b)[i] = b[i - Len(a)] /\ Len(a) < i
           /\ \A i \in 1..Len(a) : i \in 1..Len(a \o b) /\ (a \o b)[i] = a[i]
           /\ \A i \in 1..Len(b) : Len(a) + i \in 1..Len(a \o b) /\ (a \o b)[Len(a) + i] = b[i]
<1> DEFINE s == a \o b
<1>1. /\ s \in Seq(S) /\ Len(s) = Len(a) + Len(b)
      /\ \A i \in 1..(Len(a) + Len(b)) : s[i] = IF i <= Len(a) THEN a[i] ELSE b[i - Len(a)]
    BY ConcatProperties
<1>2. Len(a) \in Nat /\ Len(b) \in Nat BY LenProperties
<1> HIDE DEF s
<1>3. \A i \in 1..Len(s) : \/ i \in 1..Len(a) /\ s[i] = a[i]
                           \/ i - Len(a) \in 1..Len(b) /\ s[i] = b[i - Len(a)] /\ Len(a) < i
    BY <1>1, <1>2
<1>4. \A i \in 1..Len(a) : i \in 1..Len(s) /\ s[i] = a[i] BY <1>1, <1>2
<1>5. \A i \in 1..Len(b) : Len(a) + i \in 1..Len(s) /\ s[Len(a) + i] = b[i] BY <1>1, <1>2
<1>6. Elements(s) \subseteq Elements(a) \cup Elements(b) BY <1>3 DEF Elements
<1>7. Elements(a) \cup Elements(b) \subseteq Elements(s) BY <1>4, <1>5 DEF Elements
<1> QED BY <1>1, <1>3, <1>4, <1>5, <1>6, <1>7 DEF s

LEMMA AppendedElements ==
    ASSUME NEW S, NEW a \in Seq(S), NEW x \in S
    PROVE  /\ Append(a, x) \in Seq(S) /\ Len(Append(a, x)) = Len(a) + 1
           /\ Elements(Append(a, x)) = Elements(a) \cup {x}
           /\ \A i \in 1..Len(a) : Append(a, x)[i] = a[i]
           /\ Append(a, x)[Len(a) + 1] = x
<1> DEFINE s == Append(a, x)
<1>1. /\ s \in Seq(S) /\ Len(s) = Len(a) + 1 /\ Len(a) \in Nat
      /\ \A i \in 1..Len(a) : s[i] = a[i]
      /\ s[Len(a) + 1] = x
    BY AppendProperties, LenProperties
<1> HIDE DEF s
<1>2. \A i \in 1..Len(s) : i \in 1..Len(a) \/ i = Len(a) + 1 BY <1>1
<1>3. \A i \in 1..Len(a) : i \in 1..Len(s) BY <1>1
<1>4. Len(a) + 1 \in 1..Len(s) BY <1>1
<1>5. Elements(s) \subseteq Elements(a) \cup {x} BY <1>1, <1>2 DEF Elements
<1>6. Elements(a) \cup {x} \subseteq Elements(s) BY <1>1, <1>3, <1>4 DEF Elements
<1> QED BY <1>1, <1>5, <1>6 DEF s
=============================================================================
