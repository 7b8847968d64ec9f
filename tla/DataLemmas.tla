----------------------------- MODULE DataLemmas -----------------------------
(***************************************************************************)
(* What the operations of Deque preserve, for sequences of any length, and  *)
(* the laws of sums over finite sets.  The sums are those of the recursive  *)
(* function MapThenFoldSet defines; an induction over the sizes of sets is  *)
(* an argument about the least size at which the claim would fail.          *)
(***************************************************************************)
EXTENDS Deque, FiniteSetTheorems, SequenceTheorems, TLAPS

(* Ranking a finite set of naturals numbers its elements 1..Cardinality: what *)
(* lets retain rebuild the queue from the positions it keeps.               *)
LEMMA Ranking ==
    ASSUME NEW K \in SUBSET Nat, IsFiniteSet(K)
    PROVE  \A j \in 1..Cardinality(K) :
             \E i \in K : Cardinality({k \in K : k <= i}) = j
<1> DEFINE below(i) == {k \in K : k <= i}
           rank == [i \in K |-> Cardinality(below(i))]
           n == Cardinality(K)
<1>1. n \in Nat
  BY FS_CardinalityType
<1>2. ASSUME NEW i \in K
      PROVE  IsFiniteSet(below(i)) /\ rank[i] \in 1..n
  <2>1. below(i) \in SUBSET K
    OBVIOUS
  <2>2. /\ IsFiniteSet(below(i)) /\ Cardinality(below(i)) <= n
    BY <2>1, FS_Subset
  <2>3. Cardinality(below(i)) \in Nat
    BY <2>2, FS_CardinalityType
  <2>4. i \in below(i)
    OBVIOUS
  <2>5. Cardinality(below(i)) # 0
    BY <2>2, <2>4, FS_EmptySet
  <2> QED  BY <1>1, <2>2, <2>3, <2>5
<1>3. ASSUME NEW i \in K, NEW j \in K, i < j
      PROVE  rank[i] # rank[j]
  <2>0. \A k \in K : k <= i => k <= j
    BY <1>3
  <2>1. below(i) \in SUBSET below(j)
    BY <2>0
  <2>2. j \in below(j) /\ j \notin below(i)
    BY <1>3
  <2>3. IsFiniteSet(below(j))
    BY <1>2
  <2>4. Cardinality(below(i)) = Cardinality(below(j)) => below(i) = below(j)
    BY <2>1, <2>3, FS_Subset
  <2> QED  BY <2>2, <2>4
<1>4. rank \in Injection(K, 1..n)
  <2>1. rank \in [K -> 1..n]
    BY <1>2
  <2>2. \A a, b \in K : rank[a] = rank[b] => a = b
    BY <1>3
  <2> QED  BY <2>1, <2>2 DEF Injection, IsInjective
<1>5. IsFiniteSet(1..n) /\ Cardinality(1..n) = n
  BY <1>1, FS_Interval
<1>6. rank \in Surjection(K, 1..n)
  BY <1>4, <1>5, FS_Injection
<1> QED  BY <1>6 DEF Surjection

(* Every non-empty set of naturals has a least element.                      *)
LEMMA NatMinimum ==
    ASSUME NEW S \in SUBSET Nat, S # {}
    PROVE  \E n \in S : \A j \in S : n <= j
<1>1. PICK m \in S : TRUE
  OBVIOUS
<1> DEFINE K == {k \in S : k <= m}
<1>2. IsFiniteSet(K) /\ K \in SUBSET Nat /\ m \in K
  <2>1. m \in Nat /\ m \in K
    BY <1>1
  <2>3. \A k \in K : k \in Nat /\ k \in 0..m
    BY <2>1
  <2>2. IsFiniteSet(0..m)
    BY <2>1, FS_Interval
  <2>4. K \in SUBSET (0..m) /\ K \in SUBSET Nat
    BY <2>3
  <2> QED  BY <2>1, <2>2, <2>4, FS_Subset
<1>3. Cardinality(K) \in Nat /\ Cardinality(K) # 0
  BY <1>2, FS_CardinalityType, FS_EmptySet
<1>4. 1 \in 1..Cardinality(K)
  BY <1>3
<1> HIDE DEF K
<1>5. PICK n \in K : Cardinality({k \in K : k <= n}) = 1
  BY <1>2, <1>4, Ranking
<1>6. {k \in K : k <= n} = {n}
  <2>1. {k \in K : k <= n} \in SUBSET K /\ n \in {k \in K : k <= n}
    BY <1>2
  <2>2. IsFiniteSet({k \in K : k <= n})
    BY <1>2, <2>1, FS_Subset
  <2>3. PICK x : {k \in K : k <= n} = {x}
    BY <1>5, <2>2, FS_Singleton
  <2> QED  BY <2>1, <2>3
<1>7. \A k \in K : n <= k
  <2> SUFFICES ASSUME NEW k \in K, k <= n PROVE n <= k
    BY <1>2
  <2> QED  BY <1>2, <1>6
<1>8. n \in S /\ \A j \in S : n <= j
  BY <1>2, <1>7 DEF K
<1> QED  BY <1>8

(* A nonempty finite set of naturals has a largest element: what evict and   *)
(* lookup pick when they take the freshest, or the latest, entry.           *)
LEMMA FiniteMaximum ==
    ASSUME NEW K \in SUBSET Nat, IsFiniteSet(K), K # {}
    PROVE  \E m \in K : \A k \in K : k <= m
<1> DEFINE below(i) == {k \in K : k <= i}
<1>1. Cardinality(K) \in 1..Cardinality(K)
  BY FS_CardinalityType, FS_EmptySet
<1>2. PICK m \in K : Cardinality(below(m)) = Cardinality(K)
  BY <1>1, Ranking
<1>3. below(m) \in SUBSET K
  OBVIOUS
<1>4. below(m) = K
  BY <1>2, <1>3, FS_Subset
<1> QED  BY <1>4

(* The positions of the elements of s that are in keep, and their number.    *)
Occurring(s, keep) == {i \in DOMAIN s : s[i] \in keep}
Count(s, keep) == Cardinality(Occurring(s, keep))

(* retain numbers the positions it keeps, in their order.                    *)
LEMMA RetainNumbering ==
    ASSUME NEW S, NEW s \in Seq(S), NEW keep
    PROVE  /\ IsFiniteSet(Occurring(s, keep)) /\ Occurring(s, keep) \in SUBSET Nat
           /\ Count(s, keep) \in Nat /\ Count(s, keep) <= Len(s)
           /\ Retain(s, keep) \in Seq(S) /\ Len(Retain(s, keep)) = Count(s, keep)
           /\ \E from \in [1..Count(s, keep) -> Occurring(s, keep)] :
                 /\ \A j \in 1..Count(s, keep) : Retain(s, keep)[j] = s[from[j]]
                 /\ \A j, k \in 1..Count(s, keep) : j < k => from[j] < from[k]
                 /\ \A i \in Occurring(s, keep) : \E j \in 1..Count(s, keep) : from[j] = i
<1> DEFINE kept == {i \in DOMAIN s : s[i] \in keep}
           below(i) == {k \in kept : k <= i}
           rank(i) == Cardinality(below(i))
           n == Cardinality(kept)
           from(j) == CHOOSE i \in kept : rank(i) = j
           t == [j \in 1..n |-> s[from(j)]]
<1>1. Len(s) \in Nat /\ DOMAIN s = 1..Len(s)
  BY LenProperties
<1>2. kept \in SUBSET (1..Len(s)) /\ kept \in SUBSET Nat
  BY <1>1
<1>3. /\ IsFiniteSet(1..Len(s)) /\ Cardinality(1..Len(s)) = Len(s)
  BY <1>1, FS_Interval
<1>4. IsFiniteSet(kept) /\ n <= Len(s) /\ n \in Nat
  BY <1>2, <1>3, FS_Subset, FS_CardinalityType
<1>5. \A j \in 1..n : from(j) \in kept /\ rank(from(j)) = j
  BY <1>2, <1>4, Ranking
<1>6. \A i \in kept : rank(i) \in 1..n
  <2> TAKE i \in kept
  <2>1. below(i) \in SUBSET kept
    OBVIOUS
  <2>2. IsFiniteSet(below(i)) /\ rank(i) <= n
    BY <2>1, <1>4, FS_Subset
  <2>3. i \in below(i)
    BY <1>2
  <2>4. rank(i) \in Nat /\ rank(i) # 0
    BY <2>2, <2>3, FS_CardinalityType, FS_EmptySet
  <2> QED  BY <2>2, <2>4, <1>4
<1>7. ASSUME NEW i \in kept, NEW k \in kept, i < k
      PROVE  rank(i) < rank(k)
  <2>1. below(i) \in SUBSET below(k) /\ k \in below(k) /\ k \notin below(i)
    BY <1>2, <1>7
  <2>2. IsFiniteSet(below(k)) /\ IsFiniteSet(below(i))
    BY <1>4, FS_Subset
  <2>3. /\ Cardinality(below(i)) = Cardinality(below(k)) => below(i) = below(k)
        /\ Cardinality(below(i)) <= Cardinality(below(k))
    BY <2>1, <2>2, FS_Subset
  <2>4. rank(i) \in Nat /\ rank(k) \in Nat
    BY <2>2, FS_CardinalityType
  <2>5. rank(i) # rank(k) /\ rank(i) <= rank(k)
    BY <2>1, <2>3
  <2> QED  BY <2>4, <2>5
<1> HIDE DEF rank
<1>8. ASSUME NEW i \in 1..n, NEW k \in 1..n, i < k
      PROVE  from(i) < from(k)
  <2>1. PICK a \in kept, b \in kept : /\ a = from(i) /\ b = from(k)
                                     /\ rank(a) = i /\ rank(b) = k
    BY <1>5
  <2> HIDE DEF from, kept
  <2>3. a = b \/ a < b \/ b < a
    BY <1>2, <2>1
  <2>4. ~(b < a)
    <3> SUFFICES ASSUME b < a PROVE FALSE
      OBVIOUS
    <3>1. rank(b) < rank(a)
      BY <1>7, <2>1
    <3>2. k < i
      BY <3>1, <2>1
    <3> QED  BY <3>2, <1>8, <1>4
  <2>5. a # b
    BY <2>1, <1>8, <1>4
  <2> QED  BY <2>1, <2>3, <2>4, <2>5
<1>9. \A i \in kept : from(rank(i)) = i
  <2> TAKE i \in kept
  <2>1. PICK a \in kept : a = from(rank(i)) /\ rank(a) = rank(i)
    BY <1>5, <1>6
  <2>2. a = i \/ a < i \/ i < a
    BY <1>2
  <2>3. rank(i) \in Nat
    <3>1. rank(i) \in 1..n
      BY <1>6
    <3> QED  BY <3>1, <1>4
  <2> QED  BY <2>1, <2>2, <2>3, <1>7
<1>10. Retain(s, keep) = t
  BY DEF Retain, rank
<1>11. \A j \in 1..n : s[from(j)] \in S
  <2> TAKE j \in 1..n
  <2>1. from(j) \in 1..Len(s)
    BY <1>2, <1>5
  <2> HIDE DEF from
  <2> QED  BY <2>1, ElementOfSeq
<1>12. t \in Seq(S) /\ Len(t) = n
  <2> HIDE DEF from, n
  <2>1. t \in [1..n -> S]
    BY <1>11
  <2>2. t \in Seq(S)
    BY <2>1, <1>4, SeqDef
  <2> QED  BY <2>1, <2>2, <1>4, LenProperties
<1> DEFINE f == [j \in 1..n |-> from(j)]
<1>13. /\ f \in [1..n -> kept]
       /\ \A j \in 1..n : t[j] = s[f[j]]
       /\ \A j, k \in 1..n : j < k => f[j] < f[k]
       /\ \A i \in kept : \E j \in 1..n : f[j] = i
  <2>1. \A j \in 1..n : f[j] = from(j) /\ from(j) \in kept /\ t[j] = s[from(j)]
    BY <1>5
  <2>2. \A i \in kept : rank(i) \in 1..n /\ f[rank(i)] = i
    BY <1>6, <1>9, <2>1
  <2> HIDE DEF from, n, rank, t
  <2>3. f \in [1..n -> kept]
    BY <2>1
  <2>4. \A j, k \in 1..n : j < k => f[j] < f[k]
    BY <1>8, <2>1
  <2> HIDE DEF f, kept
  <2> QED  BY <2>1, <2>2, <2>3, <2>4
<1> HIDE DEF f, from, t
<1> QED  BY <1>2, <1>4, <1>10, <1>12, <1>13 DEF Occurring, Count

(* retain yields a sequence over the same elements, no longer than before,  *)
(* that holds exactly the elements kept and repeats none that did not.      *)
LEMMA RetainProperties ==
    ASSUME NEW S, NEW s \in Seq(S), NEW keep
    PROVE  /\ Retain(s, keep) \in Seq(S)
           /\ Len(Retain(s, keep)) <= Len(s)
           /\ Elements(Retain(s, keep)) = Elements(s) \cap keep
           /\ Distinct(s) => Distinct(Retain(s, keep))
<1> DEFINE kept == Occurring(s, keep)
           n == Count(s, keep)
           t == Retain(s, keep)
<1>1. PICK from \in [1..n -> kept] :
         /\ \A j \in 1..n : t[j] = s[from[j]]
         /\ \A j, k \in 1..n : j < k => from[j] < from[k]
         /\ \A i \in kept : \E j \in 1..n : from[j] = i
  BY RetainNumbering
<1>2. t \in Seq(S) /\ Len(t) = n /\ n \in Nat /\ n <= Len(s) /\ kept \in SUBSET Nat
  BY RetainNumbering
<1>3. DOMAIN t = 1..n
  BY <1>2, LenProperties
<1>4. \A i : i \in kept <=> i \in DOMAIN s /\ s[i] \in keep
  BY DEF Occurring
<1> HIDE DEF t, kept, n
<1>5. Elements(t) = Elements(s) \cap keep
  <2>1. ASSUME NEW x \in Elements(t)
        PROVE  x \in Elements(s) \cap keep
    <3>1. PICK j \in 1..n : x = t[j]
      BY <1>3 DEF Elements
    <3>2. from[j] \in kept /\ x = s[from[j]]
      BY <1>1, <3>1
    <3> QED  BY <3>2, <1>4 DEF Elements
  <2>2. ASSUME NEW x \in Elements(s) \cap keep
        PROVE  x \in Elements(t)
    <3>1. PICK i \in DOMAIN s : s[i] = x
      BY DEF Elements
    <3>2. PICK j \in 1..n : from[j] = i
      BY <1>1, <1>4, <3>1
    <3> QED  BY <1>1, <1>3, <3>1, <3>2 DEF Elements
  <2> QED  BY <2>1, <2>2
<1>6. ASSUME Distinct(s)
      PROVE  Distinct(t)
  <2> SUFFICES ASSUME NEW i \in 1..n, NEW j \in 1..n, t[i] = t[j]
               PROVE  i = j
    BY <1>3 DEF Distinct
  <2>1. from[i] \in kept /\ from[j] \in kept /\ s[from[i]] = s[from[j]]
    BY <1>1
  <2>2. from[i] = from[j]
    BY <2>1, <1>4, <1>6 DEF Distinct
  <2>3. from[i] \in Nat
    BY <2>1, <1>2
  <2>4. ~(i < j) /\ ~(j < i)
    BY <1>1, <2>2, <2>3
  <2> QED  BY <2>4, <1>2
<1> QED  BY <1>2, <1>5, <1>6 DEF t

(* push_back adds one element at the end.                                   *)
LEMMA PushProperties ==
    ASSUME NEW S, NEW s \in Seq(S), NEW e \in S
    PROVE  /\ Append(s, e) \in Seq(S)
           /\ Len(Append(s, e)) = Len(s) + 1
           /\ DOMAIN Append(s, e) = DOMAIN s \cup {Len(s) + 1}
           /\ Len(s) + 1 \notin DOMAIN s
           /\ \A i \in DOMAIN s : Append(s, e)[i] = s[i]
           /\ Append(s, e)[Len(s) + 1] = e
           /\ Elements(Append(s, e)) = Elements(s) \cup {e}
           /\ Distinct(s) /\ e \notin Elements(s) => Distinct(Append(s, e))
<1> DEFINE t == Append(s, e)
<1>1. Len(s) \in Nat /\ DOMAIN s = 1..Len(s)
  BY LenProperties
<1>2. /\ t \in Seq(S) /\ Len(t) = Len(s) + 1
      /\ \A i \in 1..Len(s) : t[i] = s[i]
      /\ t[Len(s) + 1] = e
  BY AppendProperties
<1>3. DOMAIN t = 1..(Len(s) + 1)
  BY <1>2, LenProperties
<1> HIDE DEF t
<1>4. DOMAIN t = DOMAIN s \cup {Len(s) + 1} /\ Len(s) + 1 \notin DOMAIN s
  BY <1>1, <1>3
<1>5. Elements(t) = Elements(s) \cup {e}
  <2>1. \A i \in DOMAIN s : t[i] = s[i]
    BY <1>1, <1>2
  <2> QED  BY <2>1, <1>2, <1>4 DEF Elements
<1>6. ASSUME Distinct(s), e \notin Elements(s)
      PROVE  Distinct(t)
  BY <1>1, <1>2, <1>3, <1>6 DEF Distinct, Elements
<1> QED  BY <1>1, <1>2, <1>4, <1>5, <1>6 DEF t

(* pop_front takes the first element and leaves the others in order.         *)
LEMMA PopProperties ==
    ASSUME NEW S, NEW s \in Seq(S), s # <<>>
    PROVE  /\ Head(s) \in S /\ Tail(s) \in Seq(S)
           /\ Len(Tail(s)) = Len(s) - 1
           /\ Head(s) = s[1] /\ 1 \in DOMAIN s
           /\ \A i \in DOMAIN s : i = 1 \/ (i - 1 \in DOMAIN Tail(s) /\ s[i] = Tail(s)[i - 1])
           /\ \A i \in DOMAIN Tail(s) : /\ i \in Nat /\ i + 1 \in DOMAIN s
                                       /\ i + 1 # 1 /\ Tail(s)[i] = s[i + 1]
           /\ Elements(s) = {Head(s)} \cup Elements(Tail(s))
           /\ Distinct(s) => Distinct(Tail(s)) /\ Head(s) \notin Elements(Tail(s))
<1> DEFINE t == Tail(s)
<1>1. Len(s) \in Nat \ {0} /\ DOMAIN s = 1..Len(s)
  BY LenProperties, EmptySeq
<1>2. /\ Head(s) \in S /\ t \in Seq(S) /\ Len(t) = Len(s) - 1
      /\ \A i \in 1..Len(t) : t[i] = s[i + 1]
  BY HeadTailProperties
<1>3. DOMAIN t = 1..(Len(s) - 1)
  BY <1>2, LenProperties
<1>4. Head(s) = s[1]
  BY <1>1
<1> HIDE DEF t
<1>5. \A i \in DOMAIN s : i = 1 \/ (i - 1 \in DOMAIN t /\ s[i] = t[i - 1])
  BY <1>1, <1>2, <1>3
<1>6. \A i \in DOMAIN t : /\ i \in Nat /\ i + 1 \in DOMAIN s /\ i + 1 # 1
                          /\ t[i] = s[i + 1]
  BY <1>1, <1>2, <1>3
<1>7. 1 \in DOMAIN s
  BY <1>1
<1>8. Elements(s) = {Head(s)} \cup Elements(t)
  BY <1>4, <1>5, <1>6, <1>7 DEF Elements
<1>9. ASSUME Distinct(s)
      PROVE  Distinct(t) /\ Head(s) \notin Elements(t)
  <2>1. Distinct(t)
    BY <1>9, <1>6, <1>3, <1>1 DEF Distinct
  <2>2. Head(s) \notin Elements(t)
    BY <1>9, <1>4, <1>6, <1>7 DEF Distinct, Elements
  <2> QED  BY <2>1, <2>2
<1> QED  BY <1>2, <1>4, <1>5, <1>6, <1>7, <1>8, <1>9 DEF t

------------------------------------------------------------------------------
(* How many elements of a queue are in a set, and whether earlier elements   *)
(* relate to later ones as R says, across the operations of a queue.         *)

InOrder(R, s) == \A i, j \in DOMAIN s : i < j => <<s[i], s[j]>> \in R

(* The elements of a queue are of its kind.                                  *)
LEMMA ElementsIn ==
    ASSUME NEW S, NEW s \in Seq(S)
    PROVE  Elements(s) \subseteq S
BY ElementOfSeq, LenProperties DEF Elements

(* A count is a number, at most the length, and zero if nothing is counted.  *)
LEMMA CountType ==
    ASSUME NEW S, NEW s \in Seq(S), NEW keep
    PROVE  /\ Count(s, keep) \in Nat /\ Count(s, keep) <= Len(s)
           /\ Count(s, keep) = 0 <=> \A x \in Elements(s) : x \notin keep
           /\ IsFiniteSet(Occurring(s, keep))
<1>1. /\ Count(s, keep) \in Nat /\ Count(s, keep) <= Len(s)
      /\ IsFiniteSet(Occurring(s, keep))
  BY RetainNumbering
<1>2. Count(s, keep) = 0 <=> Occurring(s, keep) = {}
  BY <1>1, FS_EmptySet DEF Count
<1>3. Occurring(s, keep) = {} <=> \A x \in Elements(s) : x \notin keep
  BY DEF Occurring, Elements
<1> QED  BY <1>1, <1>2, <1>3

(* Counting, membership and order of two queues behind each other.           *)
LEMMA ConcatCounts ==
    ASSUME NEW S, NEW s \in Seq(S), NEW t \in Seq(S)
    PROVE  /\ s \o t \in Seq(S) /\ Len(s \o t) = Len(s) + Len(t)
           /\ Elements(s \o t) = Elements(s) \cup Elements(t)
           /\ \A keep : Count(s \o t, keep) = Count(s, keep) + Count(t, keep)
           /\ \A R : InOrder(R, s \o t) <=>
                       /\ InOrder(R, s) /\ InOrder(R, t)
                       /\ \A x \in Elements(s), y \in Elements(t) : <<x, y>> \in R
<1> DEFINE u == s \o t
           m == Len(s)
           k == Len(t)
<1>1. m \in Nat /\ k \in Nat /\ DOMAIN s = 1..m /\ DOMAIN t = 1..k
  BY LenProperties
<1>2. /\ u \in Seq(S) /\ Len(u) = m + k
      /\ \A i \in 1..(m + k) : u[i] = IF i <= m THEN s[i] ELSE t[i - m]
  BY ConcatProperties
<1>3. DOMAIN u = 1..(m + k)
  BY <1>2, LenProperties
<1> HIDE DEF u, m, k
<1>4. \A i \in DOMAIN s : i \in DOMAIN u /\ u[i] = s[i] /\ i \in Nat /\ i <= m
  BY <1>1, <1>2, <1>3
<1>5. \A i \in DOMAIN t : i + m \in DOMAIN u /\ u[i + m] = t[i] /\ i \in Nat /\ i > 0
  <2> TAKE i \in DOMAIN t
  <2>1. i \in Nat /\ i + m \in 1..(m + k) /\ ~(i + m <= m) /\ (i + m) - m = i
    BY <1>1
  <2> QED  BY <2>1, <1>2, <1>3
<1>6. \A i \in DOMAIN u : \/ i \in DOMAIN s
                          \/ \E j \in DOMAIN t : i = j + m
  <2> TAKE i \in DOMAIN u
  <2>1. CASE i <= m
    BY <2>1, <1>1, <1>3
  <2>2. CASE ~(i <= m)
    <3>1. i - m \in DOMAIN t /\ i = (i - m) + m
      BY <2>2, <1>1, <1>3
    <3> QED  BY <3>1
  <2> QED  BY <2>1, <2>2
<1>7. Elements(u) = Elements(s) \cup Elements(t)
  <2>1. ASSUME NEW x \in Elements(u)
        PROVE  x \in Elements(s) \cup Elements(t)
    BY <1>4, <1>5, <1>6 DEF Elements
  <2>2. ASSUME NEW x \in Elements(s)
        PROVE  x \in Elements(u)
    BY <1>4 DEF Elements
  <2>3. ASSUME NEW x \in Elements(t)
        PROVE  x \in Elements(u)
    BY <1>5 DEF Elements
  <2> QED  BY <2>1, <2>2, <2>3
<1>8. ASSUME NEW keep
      PROVE  Count(u, keep) = Count(s, keep) + Count(t, keep)
  <2> DEFINE A == Occurring(s, keep)
             B == Occurring(t, keep)
             C == {i + m : i \in B}
             f == [i \in B |-> i + m]
  <2>1. /\ IsFiniteSet(A) /\ IsFiniteSet(B)
        /\ Cardinality(A) \in Nat /\ Cardinality(B) \in Nat
    BY CountType DEF Count
  <2>2. A \subseteq DOMAIN s /\ B \subseteq DOMAIN t
    BY DEF Occurring
  <2>3. f \in Bijection(B, C)
    <3>1. f \in [B -> C] /\ \A c \in C : \E i \in B : f[i] = c
      OBVIOUS
    <3>2. \A i, j \in B : f[i] = f[j] => i = j
      BY <1>1, <1>5, <2>2
    <3> HIDE DEF f, C
    <3> QED  BY <3>1, <3>2 DEF Bijection, Injection, Surjection, IsInjective
  <2>4. IsFiniteSet(C) /\ Cardinality(C) = Cardinality(B)
    <3>1. ExistsBijection(B, C)
      BY <2>3 DEF ExistsBijection
    <3> QED  BY <3>1, <2>1, FS_Bijection
  <2>5. Occurring(u, keep) = A \cup C
    <3>1. ASSUME NEW i \in Occurring(u, keep)
          PROVE  i \in A \cup C
      <4>1. i \in DOMAIN u /\ u[i] \in keep
        BY DEF Occurring
      <4>2. CASE i \in DOMAIN s
        BY <4>1, <4>2, <1>4 DEF Occurring
      <4>3. ASSUME NEW j \in DOMAIN t, i = j + m
            PROVE  i \in C
        <5>1. j \in B
          BY <4>1, <4>3, <1>5 DEF Occurring
        <5> QED  BY <5>1, <4>3
      <4> QED  BY <4>1, <4>2, <4>3, <1>6
    <3>2. ASSUME NEW i \in A
          PROVE  i \in Occurring(u, keep)
      BY <1>4 DEF Occurring
    <3>3. ASSUME NEW j \in B
          PROVE  j + m \in Occurring(u, keep)
      BY <1>5 DEF Occurring
    <3> QED  BY <3>1, <3>2, <3>3
  <2>6. A \cap C = {}
    <3> SUFFICES ASSUME NEW j \in B, j + m \in A PROVE FALSE
      OBVIOUS
    <3>1. j \in Nat /\ j > 0 /\ j + m <= m
      BY <1>4, <1>5, <2>2
    <3> QED  BY <3>1, <1>1
  <2>7. Cardinality(A \cup C) = Cardinality(A) + Cardinality(C) - Cardinality(A \cap C)
    BY <2>1, <2>4, FS_Union
  <2>8. Cardinality(A \cap C) = 0
    BY <2>6, FS_EmptySet
  <2> HIDE DEF A, B, C
  <2>9. Cardinality(A \cup C) = Cardinality(A) + Cardinality(B)
    BY <2>1, <2>4, <2>7, <2>8
  <2> QED  BY <2>5, <2>9 DEF Count, A, B
<1>9. ASSUME NEW R
      PROVE  InOrder(R, u) <=> /\ InOrder(R, s) /\ InOrder(R, t)
                               /\ \A x \in Elements(s), y \in Elements(t) : <<x, y>> \in R
  <2>1. ASSUME InOrder(R, u)
        PROVE  InOrder(R, s) /\ InOrder(R, t)
    <3>1. ASSUME NEW i \in DOMAIN s, NEW j \in DOMAIN s, i < j
          PROVE  <<s[i], s[j]>> \in R
      BY <2>1, <3>1, <1>4 DEF InOrder
    <3>2. ASSUME NEW i \in DOMAIN t, NEW j \in DOMAIN t, i < j
          PROVE  <<t[i], t[j]>> \in R
      <4>1. i + m < j + m
        BY <3>2, <1>5, <1>1
      <4> QED  BY <2>1, <4>1, <1>5 DEF InOrder
    <3> QED  BY <3>1, <3>2 DEF InOrder
  <2>2. ASSUME InOrder(R, u), NEW x \in Elements(s), NEW y \in Elements(t)
        PROVE  <<x, y>> \in R
    <3>1. PICK i \in DOMAIN s : x = s[i]
      BY DEF Elements
    <3>2. PICK j \in DOMAIN t : y = t[j]
      BY DEF Elements
    <3>3. i < j + m
      BY <1>1, <1>4, <1>5
    <3> QED  BY <2>2, <3>1, <3>2, <3>3, <1>4, <1>5 DEF InOrder
  <2>3. ASSUME InOrder(R, s), InOrder(R, t),
               \A x \in Elements(s), y \in Elements(t) : <<x, y>> \in R
        PROVE  InOrder(R, u)
    <3> SUFFICES ASSUME NEW i \in DOMAIN u, NEW j \in DOMAIN u, i < j
                 PROVE  <<u[i], u[j]>> \in R
      BY DEF InOrder
    <3>1. CASE i \in DOMAIN s /\ j \in DOMAIN s
      BY <2>3, <3>1, <1>4 DEF InOrder
    <3>2. ASSUME i \in DOMAIN s, NEW b \in DOMAIN t, j = b + m
          PROVE  <<u[i], u[j]>> \in R
      <4>1. u[i] \in Elements(s) /\ u[j] \in Elements(t)
        BY <3>2, <1>4, <1>5 DEF Elements
      <4> QED  BY <4>1, <2>3
    <3>3. ASSUME NEW a \in DOMAIN t, i = a + m, NEW b \in DOMAIN t, j = b + m
          PROVE  <<u[i], u[j]>> \in R
      <4>1. a < b
        BY <3>3, <1>1, <1>5
      <4> QED  BY <4>1, <3>3, <2>3, <1>5 DEF InOrder
    <3>4. ASSUME NEW a \in DOMAIN t, i = a + m, j \in DOMAIN s
          PROVE  FALSE
      BY <3>4, <1>1, <1>4, <1>5
    <3> QED  BY <3>1, <3>2, <3>3, <3>4, <1>6
  <2> QED  BY <2>1, <2>2, <2>3
<1> QED  BY <1>2, <1>7, <1>8, <1>9 DEF u, m, k

(* A queue of one element.                                                   *)
LEMMA SingleCount ==
    ASSUME NEW S, NEW e \in S
    PROVE  /\ <<e>> \in Seq(S) /\ Len(<<e>>) = 1 /\ Elements(<<e>>) = {e}
           /\ \A keep : Count(<<e>>, keep) = IF e \in keep THEN 1 ELSE 0
           /\ \A R : InOrder(R, <<e>>)
<1> DEFINE s == <<e>>
<1>1. s \in Seq(S) /\ Len(s) = 1 /\ DOMAIN s = {1} /\ s[1] = e
  OBVIOUS
<1> HIDE DEF s
<1>2. Elements(s) = {e}
  BY <1>1 DEF Elements
<1>3. ASSUME NEW keep
      PROVE  Count(s, keep) = IF e \in keep THEN 1 ELSE 0
  <2>1. CASE e \in keep
    <3>1. Occurring(s, keep) = {1}
      BY <1>1, <2>1 DEF Occurring
    <3>2. Cardinality({1}) = 1
      BY FS_Singleton
    <3> QED  BY <2>1, <3>1, <3>2 DEF Count
  <2>2. CASE e \notin keep
    BY <1>1, <1>2, <2>2, CountType
  <2> QED  BY <2>1, <2>2
<1>4. \A R : InOrder(R, s)
  BY <1>1 DEF InOrder
<1> QED  BY <1>1, <1>2, <1>3, <1>4 DEF s

(* push_back and pop_front: one element more at the end, one less in front.  *)
LEMMA PushCount ==
    ASSUME NEW S, NEW s \in Seq(S), NEW e \in S
    PROVE  /\ \A keep : Count(Append(s, e), keep)
                          = Count(s, keep) + IF e \in keep THEN 1 ELSE 0
           /\ \A R : InOrder(R, Append(s, e)) <=>
                       InOrder(R, s) /\ \A x \in Elements(s) : <<x, e>> \in R
<1>1. Append(s, e) = s \o <<e>>
  BY AppendIsConcat
<1>2. /\ <<e>> \in Seq(S) /\ Elements(<<e>>) = {e}
      /\ \A keep : Count(<<e>>, keep) = IF e \in keep THEN 1 ELSE 0
      /\ \A R : InOrder(R, <<e>>)
  BY SingleCount
<1> DEFINE t == <<e>>
<1> HIDE DEF t
<1>3. t \in Seq(S)
  BY <1>2 DEF t
<1>4. \A keep : Count(s \o t, keep) = Count(s, keep) + Count(t, keep)
  BY <1>3, ConcatCounts
<1>5. \A R : InOrder(R, s \o t) <=>
                /\ InOrder(R, s) /\ InOrder(R, t)
                /\ \A x \in Elements(s), y \in Elements(t) : <<x, y>> \in R
  BY <1>3, ConcatCounts
<1> QED  BY <1>1, <1>2, <1>4, <1>5 DEF t

LEMMA PopCount ==
    ASSUME NEW S, NEW s \in Seq(S), s # <<>>
    PROVE  /\ \A keep : Count(s, keep)
                          = Count(Tail(s), keep) + IF Head(s) \in keep THEN 1 ELSE 0
           /\ \A R : InOrder(R, s) =>
                       /\ InOrder(R, Tail(s))
                       /\ \A x \in Elements(Tail(s)) : <<Head(s), x>> \in R
<1> DEFINE e == Head(s)
           t == Tail(s)
<1>1. e \in S /\ t \in Seq(S)
  BY PopProperties
<1>2. s = <<e>> \o t
  OBVIOUS
<1> HIDE DEF e, t
<1>3. <<e>> \in Seq(S) /\ Elements(<<e>>) = {e}
  BY <1>1, SingleCount
<1>4. \A keep : Count(<<e>> \o t, keep) = Count(<<e>>, keep) + Count(t, keep)
  BY <1>1, <1>3, ConcatCounts
<1>5. ASSUME NEW keep
      PROVE  Count(s, keep) = Count(t, keep) + IF e \in keep THEN 1 ELSE 0
  <2>1. Count(<<e>>, keep) = IF e \in keep THEN 1 ELSE 0
    BY <1>1, SingleCount
  <2>2. Count(t, keep) \in Nat
    BY <1>1, CountType
  <2> QED  BY <1>2, <1>4, <2>1, <2>2
<1>6. \A R : InOrder(R, <<e>> \o t) =>
               InOrder(R, t) /\ \A x \in Elements(t) : <<e, x>> \in R
  BY <1>1, <1>3, ConcatCounts
<1> QED  BY <1>2, <1>5, <1>6 DEF e, t

(* A queue cut in two.                                                       *)
LEMMA CutCount ==
    ASSUME NEW S, NEW s \in Seq(S), NEW n \in 0..Len(s)
    PROVE  /\ FirstOf(s, n) \in Seq(S) /\ Behind(s, n) \in Seq(S)
           /\ s = FirstOf(s, n) \o Behind(s, n)
           /\ Len(FirstOf(s, n)) = n /\ Len(Behind(s, n)) = Len(s) - n
           /\ \A i \in 1..n : FirstOf(s, n)[i] = s[i]
           /\ \A i \in 1..(Len(s) - n) : Behind(s, n)[i] = s[n + i]
           /\ Elements(s) = Elements(FirstOf(s, n)) \cup Elements(Behind(s, n))
           /\ \A keep : Count(s, keep)
                         = Count(FirstOf(s, n), keep) + Count(Behind(s, n), keep)
           /\ \A R : InOrder(R, s) <=>
                       /\ InOrder(R, FirstOf(s, n)) /\ InOrder(R, Behind(s, n))
                       /\ \A x \in Elements(FirstOf(s, n)), y \in Elements(Behind(s, n)) :
                             <<x, y>> \in R
<1>0. PICK a, b : a = FirstOf(s, n) /\ b = Behind(s, n)
  OBVIOUS
<1>1. Len(s) \in Nat /\ \A i \in 1..Len(s) : s[i] \in S
  BY LenProperties, ElementOfSeq
<1>2. n \in Nat /\ n <= Len(s)
  BY <1>1
<1>3. a \in Seq(S) /\ Len(a) = n /\ \A i \in 1..n : a[i] = s[i]
  <2>1. \A i \in 1..n : s[i] \in S
    BY <1>1, <1>2
  <2>2. /\ SubSeq(s, 1, n) \in Seq(S)
        /\ Len(SubSeq(s, 1, n)) = IF 1 <= n THEN n - 1 + 1 ELSE 0
        /\ \A i \in 1..(n - 1 + 1) : SubSeq(s, 1, n)[i] = s[1 + i - 1]
    BY <2>1, <1>2, SubSeqProperties
  <2>3. \A i \in 1..n : i \in 1..(n - 1 + 1) /\ 1 + i - 1 = i
    BY <1>2
  <2>4. (IF 1 <= n THEN n - 1 + 1 ELSE 0) = n
    BY <1>2
  <2> QED  BY <1>0, <2>2, <2>3, <2>4 DEF FirstOf
<1>4. /\ b \in Seq(S) /\ Len(b) = Len(s) - n
      /\ \A i \in 1..(Len(s) - n) : b[i] = s[n + i]
  <2>1. \A i \in (n + 1)..Len(s) : s[i] \in S
    BY <1>1, <1>2
  <2>2. n + 1 \in Int /\ Len(s) \in Int
    BY <1>1, <1>2
  <2>3. /\ SubSeq(s, n + 1, Len(s)) \in Seq(S)
        /\ Len(SubSeq(s, n + 1, Len(s)))
             = IF n + 1 <= Len(s) THEN Len(s) - (n + 1) + 1 ELSE 0
        /\ \A i \in 1..(Len(s) - (n + 1) + 1) :
              SubSeq(s, n + 1, Len(s))[i] = s[(n + 1) + i - 1]
    BY <2>1, <2>2, SubSeqProperties
  <2>4. \A i \in 1..(Len(s) - n) : /\ i \in 1..(Len(s) - (n + 1) + 1)
                                   /\ (n + 1) + i - 1 = n + i
    BY <1>1, <1>2
  <2>5. (IF n + 1 <= Len(s) THEN Len(s) - (n + 1) + 1 ELSE 0) = Len(s) - n
    BY <1>1, <1>2
  <2> QED  BY <1>0, <2>3, <2>4, <2>5 DEF Behind
<1>5. s = a \o b
  <2>1. 1 \in 1..(Len(s) + 1) /\ n \in (1 - 1)..Len(s) /\ Len(s) \in n..Len(s)
    BY <1>1, <1>2
  <2>2. SubSeq(s, 1, n) \o SubSeq(s, n + 1, Len(s)) = SubSeq(s, 1, Len(s))
    BY <2>1, ConcatAdjacentSubSeq
  <2>3. SubSeq(s, 1, Len(s)) = s
    BY SubSeqFull
  <2> QED  BY <1>0, <2>2, <2>3 DEF FirstOf, Behind
<1>6. a \in Seq(S) /\ b \in Seq(S)
  BY <1>3, <1>4
<1>7. \A u, v \in Seq(S) : Elements(u \o v) = Elements(u) \cup Elements(v)
  BY ConcatCounts
<1>8. \A u, v \in Seq(S) :
        \A keep : Count(u \o v, keep) = Count(u, keep) + Count(v, keep)
  BY ConcatCounts
<1>9. \A u, v \in Seq(S) :
        \A R : InOrder(R, u \o v) <=>
                /\ InOrder(R, u) /\ InOrder(R, v)
                /\ \A x \in Elements(u), y \in Elements(v) : <<x, y>> \in R
  BY ConcatCounts
<1>10. /\ \A keep : Count(s, keep) = Count(a, keep) + Count(b, keep)
       /\ Elements(s) = Elements(a) \cup Elements(b)
  BY <1>5, <1>6, <1>7, <1>8
<1>11. \A R : InOrder(R, s) <=>
                /\ InOrder(R, a) /\ InOrder(R, b)
                /\ \A x \in Elements(a), y \in Elements(b) : <<x, y>> \in R
  BY <1>5, <1>6, <1>9
<1> QED  BY <1>0, <1>3, <1>4, <1>5, <1>10, <1>11

(* retain counts what is kept, and keeps the order.                          *)
LEMMA RetainCount ==
    ASSUME NEW S, NEW s \in Seq(S), NEW keep
    PROVE  /\ \A K : Count(Retain(s, keep), K) = Count(s, keep \cap K)
           /\ \A R : InOrder(R, s) => InOrder(R, Retain(s, keep))
<1> DEFINE kept == Occurring(s, keep)
           n == Count(s, keep)
           t == Retain(s, keep)
<1>1. PICK from \in [1..n -> kept] :
         /\ \A j \in 1..n : t[j] = s[from[j]]
         /\ \A j, k \in 1..n : j < k => from[j] < from[k]
         /\ \A i \in kept : \E j \in 1..n : from[j] = i
  BY RetainNumbering
<1>2. t \in Seq(S) /\ Len(t) = n /\ n \in Nat /\ kept \in SUBSET Nat
  BY RetainNumbering
<1>3. DOMAIN t = 1..n
  BY <1>2, LenProperties
<1>4. \A i : i \in kept <=> i \in DOMAIN s /\ s[i] \in keep
  BY DEF Occurring
<1> HIDE DEF t, kept, n
<1>5. ASSUME NEW K
      PROVE  Count(t, K) = Count(s, keep \cap K)
  <2> DEFINE A == Occurring(t, K)
             B == Occurring(s, keep \cap K)
             f == [j \in A |-> from[j]]
  <2>1. \A j : j \in A <=> j \in 1..n /\ t[j] \in K
    BY <1>3 DEF Occurring
  <2>2. \A i : i \in B <=> i \in kept /\ s[i] \in K
    BY <1>4 DEF Occurring
  <2>3. IsFiniteSet(A)
    BY <1>2, CountType
  <2> HIDE DEF A, B
  <2>4. \A j \in A : f[j] = from[j] /\ from[j] \in B
    BY <2>1, <2>2, <1>1
  <2>5. f \in [A -> B]
    BY <2>4
  <2>6. \A i \in B : \E j \in A : f[j] = i
    <3> TAKE i \in B
    <3>1. PICK j \in 1..n : from[j] = i
      BY <1>1, <2>2
    <3>2. j \in A
      BY <3>1, <2>1, <2>2, <1>1
    <3> QED  BY <3>1, <3>2
  <2>7. \A j, k \in A : f[j] = f[k] => j = k
    <3> SUFFICES ASSUME NEW j \in A, NEW k \in A, from[j] = from[k]
                 PROVE  j = k
      BY <2>4
    <3>1. j \in 1..n /\ k \in 1..n /\ from[j] \in Nat
      BY <2>1, <1>1, <1>2
    <3>2. ~(j < k) /\ ~(k < j)
      BY <1>1, <3>1
    <3> QED  BY <3>1, <3>2, <1>2
  <2> HIDE DEF f
  <2>8. ExistsBijection(A, B)
    BY <2>5, <2>6, <2>7
    DEF ExistsBijection, Bijection, Injection, Surjection, IsInjective
  <2>9. Cardinality(B) = Cardinality(A)
    BY <2>3, <2>8, FS_Bijection
  <2> QED  BY <2>9 DEF Count, A, B
<1>6. ASSUME NEW R, InOrder(R, s)
      PROVE  InOrder(R, t)
  <2> SUFFICES ASSUME NEW i \in 1..n, NEW j \in 1..n, i < j
               PROVE  <<t[i], t[j]>> \in R
    BY <1>3 DEF InOrder
  <2>1. /\ from[i] \in DOMAIN s /\ from[j] \in DOMAIN s /\ from[i] < from[j]
        /\ t[i] = s[from[i]] /\ t[j] = s[from[j]]
    BY <1>1, <1>4
  <2> QED  BY <2>1, <1>6 DEF InOrder
<1> QED  BY <1>5, <1>6 DEF t

------------------------------------------------------------------------------
(* Sums over finite sets, as the folds of the community modules compute      *)
(* them: the total of a set is the weight of a chosen element and the total  *)
(* of the others.  The induction over the size of the set that the facts     *)
(* need is an argument about the smallest counterexample.                    *)

Chosen(T) == CHOOSE x \in T : TRUE
IsTotal(g, w, S) ==
    /\ DOMAIN g = SUBSET S
    /\ \A T \in SUBSET S :
          g[T] = IF T = {} THEN 0 ELSE w[Chosen(T)] + g[T \ {Chosen(T)}]
Total(w, S) == (CHOOSE g : IsTotal(g, w, S))[S]

(* A finite set without one of its elements has one element less.            *)
LEMMA Smaller ==
    ASSUME NEW T, IsFiniteSet(T), NEW x \in T
    PROVE  /\ IsFiniteSet(T \ {x}) /\ Cardinality(T) \in Nat
           /\ Cardinality(T \ {x}) = Cardinality(T) - 1 /\ Cardinality(T) > 0
<1>1. IsFiniteSet(T \ {x}) /\ Cardinality(T \ {x}) = Cardinality(T) - 1
  BY FS_RemoveElement
<1>2. Cardinality(T) \in Nat /\ Cardinality(T) # 0
  BY FS_CardinalityType, FS_EmptySet
<1> QED  BY <1>1, <1>2

(* The chosen element of a set is one of its elements.                       *)
LEMMA ChosenIn == \A T : T # {} => Chosen(T) \in T
  BY DEF Chosen

(* Every finite set has the function that adds its subsets up.               *)
LEMMA TotalExists ==
    ASSUME NEW w, NEW S, IsFiniteSet(S)
    PROVE  \E g : IsTotal(g, w, S)
<1> DEFINE part(n) == {T \in SUBSET S : Cardinality(T) <= n}
           next(g, T) == IF T = {} THEN 0 ELSE w[Chosen(T)] + g[T \ {Chosen(T)}]
           ok(g, n) == DOMAIN g = part(n) /\ \A T \in part(n) : g[T] = next(g, T)
           K == {n \in Nat : ~\E g : ok(g, n)}
<1>0. \A T \in SUBSET S : IsFiniteSet(T) /\ Cardinality(T) \in Nat
  BY FS_Subset, FS_CardinalityType
<1>1. \A T \in SUBSET S : T # {} =>
          /\ T \ {Chosen(T)} \in SUBSET S /\ Cardinality(T) > 0
          /\ Cardinality(T \ {Chosen(T)}) = Cardinality(T) - 1
  BY <1>0, Smaller, ChosenIn
<1>2. \A T \in SUBSET S : Cardinality(T) = 0 <=> T = {}
  BY <1>0, FS_EmptySet
<1>3. ok([T \in part(0) |-> 0], 0)
  BY <1>0, <1>2
<1>4. ASSUME NEW n \in Nat, NEW g, ok(g, n)
      PROVE  \E h : ok(h, n + 1)
  <2> DEFINE h == [T \in part(n + 1) |-> next(g, T)]
  <2>1. \A T \in part(n) : T \in part(n + 1) /\ h[T] = g[T]
    BY <1>0, <1>4
  <2>2. \A T \in part(n + 1) : T # {} => T \ {Chosen(T)} \in part(n)
    BY <1>0, <1>1
  <2>3. ASSUME NEW T \in part(n + 1)
        PROVE  h[T] = next(h, T)
    <3>1. h[T] = next(g, T)
      OBVIOUS
    <3>2. T # {} => h[T \ {Chosen(T)}] = g[T \ {Chosen(T)}]
      BY <2>1, <2>2
    <3> HIDE DEF h
    <3> QED  BY <3>1, <3>2
  <2>4. ok(h, n + 1)
    BY <2>3
  <2> QED  BY <2>4
<1>5. \A n \in Nat : \E g : ok(g, n)
  <2> HIDE DEF ok
  <2> SUFFICES ASSUME K # {} PROVE FALSE
    OBVIOUS
  <2>1. PICK m \in K : \A k \in K : m <= k
    BY NatMinimum
  <2>2. m # 0
    BY <1>3
  <2>3. m - 1 \in Nat /\ m - 1 \notin K
    BY <2>1, <2>2
  <2>4. PICK g : ok(g, m - 1)
    BY <2>3
  <2>5. \E h : ok(h, m - 1 + 1)
    BY <1>4, <2>3, <2>4
  <2>6. m - 1 + 1 = m
    BY <2>1
  <2> QED  BY <2>1, <2>5, <2>6
<1>6. PICK g : ok(g, Cardinality(S))
  BY <1>0, <1>5
<1>7. part(Cardinality(S)) = SUBSET S
  BY FS_Subset
<1> QED  BY <1>6, <1>7 DEF IsTotal

(* Two such functions agree wherever both are defined and the weights agree.  *)
LEMMA TotalAgree ==
    ASSUME NEW g, NEW w, NEW S, IsTotal(g, w, S),
           NEW h, NEW v, NEW R, IsTotal(h, v, R),
           NEW T, T \subseteq S, T \subseteq R, IsFiniteSet(T), \A e \in T : w[e] = v[e]
    PROVE  g[T] = h[T]
<1> DEFINE K == {n \in Nat : \E U \in SUBSET T : Cardinality(U) = n /\ g[U] # h[U]}
<1>0. \A U \in SUBSET T : IsFiniteSet(U) /\ Cardinality(U) \in Nat
  BY FS_Subset, FS_CardinalityType
<1> SUFFICES ASSUME K # {} PROVE FALSE
  BY <1>0
<1>1. PICK m \in K : \A k \in K : m <= k
  BY NatMinimum
<1>2. PICK U \in SUBSET T : Cardinality(U) = m /\ g[U] # h[U]
  OBVIOUS
<1>3. U # {}
  BY <1>2 DEF IsTotal
<1>4. PICK x \in U : x = Chosen(U)
  BY <1>3, ChosenIn
<1>5. g[U \ {x}] # h[U \ {x}]
  BY <1>2, <1>3, <1>4 DEF IsTotal
<1>6. U \ {x} \in SUBSET T /\ Cardinality(U \ {x}) = m - 1 /\ m - 1 \in Nat
  BY <1>0, <1>2, Smaller
<1>7. m - 1 \in K
  BY <1>5, <1>6
<1> QED  BY <1>1, <1>7

(* Any element may be taken first: the order of the additions is immaterial.  *)
LEMMA TotalSteps ==
    ASSUME NEW g, NEW w, NEW S, IsTotal(g, w, S), IsFiniteSet(S),
           \A e \in S : w[e] \in Nat
    PROVE  \A T \in SUBSET S : /\ g[T] \in Nat
                               /\ \A e \in T : g[T] = w[e] + g[T \ {e}]
<1> DEFINE P(T) == g[T] \in Nat /\ \A e \in T : g[T] = w[e] + g[T \ {e}]
           K == {n \in Nat : \E T \in SUBSET S : Cardinality(T) = n /\ ~P(T)}
<1>0. \A T \in SUBSET S : IsFiniteSet(T) /\ Cardinality(T) \in Nat
  BY FS_Subset, FS_CardinalityType
<1> SUFFICES ASSUME K # {} PROVE FALSE
  BY <1>0
<1>1. PICK m \in K : \A k \in K : m <= k
  BY NatMinimum
<1>2. PICK T \in SUBSET S : Cardinality(T) = m /\ ~P(T)
  OBVIOUS
<1>3. ASSUME NEW x \in T
      PROVE  T \ {x} \in SUBSET S /\ P(T \ {x})
  <2>1. T \ {x} \in SUBSET S /\ Cardinality(T \ {x}) = m - 1 /\ m - 1 \in Nat
    BY <1>0, <1>2, Smaller
  <2>2. m - 1 \notin K
    BY <1>1, <2>1
  <2> QED  BY <2>1, <2>2
<1>4. T # {}
  <2> SUFFICES ASSUME T = {} PROVE FALSE
    OBVIOUS
  <2>1. g[T] = 0
    BY DEF IsTotal
  <2> QED  BY <1>2, <2>1
<1>5. PICK x \in T : x = Chosen(T)
  BY <1>4, ChosenIn
<1>6. g[T] = w[x] + g[T \ {x}] /\ g[T \ {x}] \in Nat /\ w[x] \in Nat
  BY <1>3, <1>4, <1>5 DEF IsTotal
<1>7. ASSUME NEW e \in T
      PROVE  g[T] = w[e] + g[T \ {e}]
  <2> SUFFICES ASSUME e # x PROVE g[T] = w[e] + g[T \ {e}]
    BY <1>6
  <2>1. g[T \ {x}] = w[e] + g[(T \ {x}) \ {e}]
    BY <1>3
  <2>2. g[T \ {e}] = w[x] + g[(T \ {e}) \ {x}]
    BY <1>3
  <2>3. (T \ {e}) \ {x} = (T \ {x}) \ {e}
    OBVIOUS
  <2>4. g[(T \ {x}) \ {e}] \in Nat
    <3>1. PICK U : U = T \ {x}
      OBVIOUS
    <3>2. U \in SUBSET S /\ e \in U /\ Cardinality(U) = m - 1
      BY <1>0, <1>2, <3>1, Smaller
    <3>3. U \ {e} \in SUBSET S /\ Cardinality(U \ {e}) = m - 2 /\ m - 2 \in Nat
      <4>1. IsFiniteSet(U) /\ m - 1 \in Nat
        BY <1>0, <3>2
      <4>2. Cardinality(U \ {e}) = m - 1 - 1 /\ m - 1 > 0
        BY <3>2, <4>1, Smaller
      <4> QED  BY <3>2, <4>1, <4>2
    <3>4. m - 2 \notin K
      BY <1>1, <3>3
    <3> QED  BY <3>1, <3>3, <3>4
  <2>5. w[e] \in Nat
    OBVIOUS
  <2>6. g[T \ {e}] = w[x] + g[(T \ {x}) \ {e}]
    BY <2>2, <2>3
  <2>7. g[T] = w[x] + (w[e] + g[(T \ {x}) \ {e}])
    BY <1>6, <2>1
  <2>8. w[x] \in Nat
    BY <1>6
  <2> HIDE DEF P, K
  <2> QED  BY <2>4, <2>5, <2>6, <2>7, <2>8
<1> QED  BY <1>2, <1>6, <1>7

(* Total(w, S) is the value at S of a function that adds the chosen elements. *)
LEMMA TotalIs ==
    ASSUME NEW w, NEW S, IsFiniteSet(S)
    PROVE  \E g : IsTotal(g, w, S) /\ Total(w, S) = g[S]
  BY TotalExists DEF Total

(* A total depends on the weights of the elements only.                      *)
LEMMA TotalEqual ==
    ASSUME NEW w, NEW v, NEW S, IsFiniteSet(S), \A e \in S : w[e] = v[e]
    PROVE  Total(w, S) = Total(v, S)
<1>1. PICK g : IsTotal(g, w, S) /\ Total(w, S) = g[S]
  BY TotalIs
<1>2. PICK h : IsTotal(h, v, S) /\ Total(v, S) = h[S]
  BY TotalIs
<1> QED  BY <1>1, <1>2, TotalAgree

(* Nothing weighs nothing.                                                    *)
LEMMA TotalEmpty == \A w : Total(w, {}) = 0
<1> SUFFICES ASSUME NEW w PROVE Total(w, {}) = 0
  OBVIOUS
<1>1. PICK g : IsTotal(g, w, {}) /\ Total(w, {}) = g[{}]
  BY TotalIs, FS_EmptySet
<1> QED  BY <1>1 DEF IsTotal

(* Taking an element out of a set takes its weight out of the total.         *)
LEMMA TotalRemove ==
    ASSUME NEW w, NEW S, IsFiniteSet(S), \A e \in S : w[e] \in Nat
    PROVE  /\ Total(w, S) \in Nat
           /\ \A e \in S : Total(w, S) = w[e] + Total(w, S \ {e})
<1>1. PICK g : IsTotal(g, w, S) /\ Total(w, S) = g[S]
  BY TotalIs
<1>2. g[S] \in Nat /\ \A e \in S : g[S] = w[e] + g[S \ {e}]
  BY <1>1, TotalSteps
<1>3. ASSUME NEW e \in S
      PROVE  g[S \ {e}] = Total(w, S \ {e})
  <2>1. PICK T : T = S \ {e}
    OBVIOUS
  <2>2. T \subseteq S /\ IsFiniteSet(T)
    BY <2>1, FS_Subset
  <2>3. PICK h : IsTotal(h, w, T) /\ Total(w, T) = h[T]
    BY <2>2, TotalIs
  <2>4. g[T] = h[T]
    BY <1>1, <2>2, <2>3, TotalAgree
  <2> QED  BY <2>1, <2>3, <2>4
<1> QED  BY <1>1, <1>2, <1>3

(* Adding an element adds its weight.                                        *)
LEMMA TotalAdd ==
    ASSUME NEW w, NEW S, IsFiniteSet(S), NEW x, x \notin S, w[x] \in Nat,
           \A e \in S : w[e] \in Nat
    PROVE  Total(w, S \cup {x}) = w[x] + Total(w, S)
<1>1. PICK T : T = S \cup {x}
  OBVIOUS
<1>2. IsFiniteSet(T) /\ x \in T /\ T \ {x} = S /\ \A e \in T : w[e] \in Nat
  BY <1>1, FS_AddElement
<1> QED  BY <1>1, <1>2, TotalRemove

(* The total of a set is that of a part and that of the rest.                *)
LEMMA TotalSplit ==
    ASSUME NEW w, NEW S, IsFiniteSet(S), \A e \in S : w[e] \in Nat,
           NEW R \in SUBSET S
    PROVE  /\ Total(w, S) = Total(w, R) + Total(w, S \ R)
           /\ Total(w, S) \in Nat /\ Total(w, R) \in Nat /\ Total(w, S \ R) \in Nat
<1> DEFINE P(T) == Total(w, S) = Total(w, T) + Total(w, S \ T)
           K == {n \in Nat : \E T \in SUBSET S : Cardinality(T) = n /\ ~P(T)}
<1>0. \A T \in SUBSET S : /\ IsFiniteSet(T) /\ Cardinality(T) \in Nat
                          /\ Total(w, T) \in Nat
  <2> TAKE T \in SUBSET S
  <2>1. IsFiniteSet(T) /\ \A e \in T : w[e] \in Nat
    BY FS_Subset
  <2> QED  BY <2>1, FS_CardinalityType, TotalRemove
<1>1. P(R)
  <2> SUFFICES ASSUME K # {} PROVE FALSE
    BY <1>0
  <2>1. PICK m \in K : \A k \in K : m <= k
    BY NatMinimum
  <2>2. PICK T \in SUBSET S : Cardinality(T) = m /\ ~P(T)
    OBVIOUS
  <2>3. T # {}
    <3>1. S \ {} = S /\ Total(w, {}) = 0
      BY TotalEmpty
    <3> QED  BY <1>0, <2>2, <3>1
  <2>4. PICK x \in T : TRUE
    BY <2>3
  <2>5. PICK U : U = T \ {x}
    OBVIOUS
  <2>6. U \in SUBSET S /\ Cardinality(U) = m - 1 /\ m - 1 \in Nat
    BY <1>0, <2>2, <2>5, Smaller
  <2>7. m - 1 \notin K
    BY <2>1, <2>6
  <2>8. P(U)
    BY <2>6, <2>7
  <2>9. Total(w, T) = w[x] + Total(w, U)
    BY <1>0, <2>5, TotalRemove
  <2>10. Total(w, S \ U) = w[x] + Total(w, S \ T)
    <3>1. PICK V : V = S \ U
      OBVIOUS
    <3>2. V \in SUBSET S /\ x \in V /\ V \ {x} = S \ T
      BY <2>5, <3>1
    <3> QED  BY <1>0, <3>1, <3>2, TotalRemove
  <2>11. w[x] \in Nat /\ Total(w, U) \in Nat /\ Total(w, S \ T) \in Nat
    BY <1>0, <2>6
  <2> QED  BY <2>2, <2>8, <2>9, <2>10, <2>11
<1> QED  BY <1>0, <1>1

(* A part totals no more than the whole.                                     *)
LEMMA TotalPart ==
    ASSUME NEW w, NEW S, IsFiniteSet(S), \A e \in S : w[e] \in Nat,
           NEW R \in SUBSET S
    PROVE  /\ Total(w, S) \in Nat /\ Total(w, R) \in Nat
           /\ Total(w, R) <= Total(w, S)
<1>1. PICK T : T = S \ R
  OBVIOUS
<1>2. /\ Total(w, S) = Total(w, R) + Total(w, S \ R)
      /\ Total(w, S) \in Nat /\ Total(w, R) \in Nat /\ Total(w, S \ R) \in Nat
  BY TotalSplit
<1>3. Total(w, S) = Total(w, R) + Total(w, T) /\ Total(w, T) \in Nat
  BY <1>1, <1>2
<1> QED  BY <1>2, <1>3
==============================================================================
