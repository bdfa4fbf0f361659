-------------------------- MODULE DiscoveryProofs --------------------------
(***************************************************************************)
(* Proofs about Discovery, for any tree, any patterns and any order of the *)
(* scan: keys name one file each, a test gets its own directory's sources  *)
(* in order, and listed files keep the order they are listed in.           *)
(***************************************************************************)
EXTENDS Discovery, FiniteSetTheorems, SequenceTheorems, NaturalsInduction, TLAPS

-----------------------------------------------------------------------------
(* The order of paths                                                       *)

LEMMA LeastNumber ==
    ASSUME NEW A \in SUBSET Nat, A # {}
    PROVE  \E m \in A : \A k \in A : m <= k
<1>1. IsWellFoundedOn(OpToRel(<, Nat), Nat)  BY NatLessThanWellFounded
<1>2. PICK m \in A : \A k \in A : ~(<<k, m>> \in OpToRel(<, Nat))  BY <1>1, WFMin
<1>3. \A k \in A : ~(k < m)  BY <1>2 DEF OpToRel
<1> QED  BY <1>3

LEMMA BeforeIrreflexive ==
    ASSUME NEW p \in Paths
    PROVE  ~Before(p, p)
<1>1. \A i \in 1..Len(p) : p[i] \in Nat /\ i <= Len(p) /\ Len(p) \in Nat /\ i \in Nat
      BY DEF Paths
<1>2. \A i \in 1..Len(p) : ~(i > Len(p)) /\ ~(p[i] < p[i])  BY <1>1
<1> QED  BY <1>2 DEF Before

LEMMA BeforeTransitive ==
    ASSUME NEW p \in Paths, NEW q \in Paths, NEW r \in Paths, Before(p, q), Before(q, r)
    PROVE  Before(p, r)
<1> DEFINE At(s, t, i) == /\ \A j \in 1..(i - 1) : j <= Len(s) /\ s[j] = t[j]
                          /\ i > Len(s) \/ s[i] < t[i]
<1>0. Len(p) \in Nat /\ Len(q) \in Nat /\ Len(r) \in Nat  BY DEF Paths
<1>n. /\ \A i \in 1..Len(p) : p[i] \in Nat
      /\ \A i \in 1..Len(q) : q[i] \in Nat
      /\ \A i \in 1..Len(r) : r[i] \in Nat
      BY DEF Paths
<1>1. PICK i \in 1..Len(q) : At(p, q, i)  BY DEF Before
<1>2. PICK k \in 1..Len(r) : At(q, r, k)  BY DEF Before
<1>3. i \in Nat /\ k \in Nat /\ i >= 1 /\ k >= 1 /\ i <= Len(q) /\ k <= Len(r)  BY <1>0
<1>4. CASE i < k
  <2>1. i \in 1..Len(r) /\ i \in 1..(k - 1)  BY <1>0, <1>3, <1>4
  <2>2. q[i] = r[i]  BY <1>2, <2>1
  <2>3. \A j \in 1..(i - 1) : j \in 1..(k - 1)  BY <1>3, <1>4
  <2>4. At(p, r, i)  BY <1>1, <1>2, <2>2, <2>3
  <2> QED  BY <2>1, <2>4 DEF Before
<1>5. CASE k < i
  <2>1. k \in 1..(i - 1) /\ k \in 1..Len(q) /\ ~(k > Len(q))  BY <1>0, <1>3, <1>5
  <2>2. k <= Len(p) /\ p[k] = q[k]  BY <1>1, <2>1
  <2>3. q[k] < r[k]  BY <1>2, <2>1
  <2>4. \A j \in 1..(k - 1) : j \in 1..(i - 1)  BY <1>3, <1>5
  <2>5. At(p, r, k)  BY <1>1, <1>2, <2>2, <2>3, <2>4
  <2> QED  BY <2>5 DEF Before
<1>6. CASE i = k
  <2>1. ~(k > Len(q)) /\ k \in 1..Len(q)  BY <1>0, <1>3, <1>6
  <2>2. q[k] < r[k]  BY <1>2, <2>1
  <2>3. k > Len(p) \/ (k \in 1..Len(p) /\ p[k] < q[k])
    <3>1. k > Len(p) \/ p[k] < q[k]  BY <1>1, <1>6
    <3>2. ~(k > Len(p)) => k \in 1..Len(p)  BY <1>0, <1>3
    <3> QED  BY <3>1, <3>2
  <2>4. k > Len(p) \/ p[k] < r[k]
    <3>1. ASSUME NEW a \in Nat, NEW b \in Nat, NEW c \in Nat, a < b, b < c
          PROVE  a < c
          BY <3>1
    <3>2. k \in 1..Len(p) /\ p[k] < q[k] => p[k] < r[k]  BY <1>n, <2>1, <2>2, <3>1
    <3> QED  BY <2>3, <3>2
  <2>5. At(p, r, k)  BY <1>1, <1>2, <1>6, <2>4
  <2> QED  BY <2>5 DEF Before
<1> QED  BY <1>3, <1>4, <1>5, <1>6

LEMMA BeforeTotal ==
    ASSUME NEW p \in Paths, NEW q \in Paths, p # q
    PROVE  Before(p, q) \/ Before(q, p)
<1>0. Len(p) \in Nat /\ Len(q) \in Nat  BY DEF Paths
<1>n. /\ \A i \in 1..Len(p) : p[i] \in Nat
      /\ \A i \in 1..Len(q) : q[i] \in Nat
      BY DEF Paths
<1> DEFINE A == {i \in Nat : i >= 1 /\ (i > Len(p) \/ i > Len(q) \/ p[i] # q[i])}
<1>1. Len(p) + 1 \in A  BY <1>0
<1>2. PICK i \in A : \A k \in A : i <= k  BY <1>1, LeastNumber
<1>3. \A j \in 1..(i - 1) : j <= Len(p) /\ j <= Len(q) /\ p[j] = q[j]
  <2> TAKE j \in 1..(i - 1)
  <2>1. j \in Nat /\ j >= 1 /\ ~(i <= j) /\ i \in Nat  OBVIOUS
  <2>2. j \notin A  BY <1>2, <2>1
  <2>3. ~(j > Len(p)) /\ ~(j > Len(q)) /\ p[j] = q[j]  BY <2>1, <2>2
  <2> QED  BY <1>0, <2>1, <2>3
<1>4. i \in Nat /\ i >= 1 /\ (i > Len(p) \/ i > Len(q) \/ p[i] # q[i])  OBVIOUS
<1> HIDE DEF A
<1>5. CASE i > Len(p) /\ i > Len(q)
  <2>1. Len(p) = i - 1
    <3>1. i - 1 <= Len(p)
      <4>1. CASE i = 1  BY <1>0, <4>1
      <4>2. CASE i > 1
        <5>1. i - 1 \in 1..(i - 1)  BY <1>4, <4>2
        <5> QED  BY <1>3, <5>1
      <4> QED  BY <1>4, <4>1, <4>2
    <3> QED  BY <1>0, <1>4, <1>5, <3>1
  <2>2. Len(q) = i - 1
    <3>1. i - 1 <= Len(q)
      <4>1. CASE i = 1  BY <1>0, <4>1
      <4>2. CASE i > 1
        <5>1. i - 1 \in 1..(i - 1)  BY <1>4, <4>2
        <5> QED  BY <1>3, <5>1
      <4> QED  BY <1>4, <4>1, <4>2
    <3> QED  BY <1>0, <1>4, <1>5, <3>1
  <2>3. p \in Seq(Nat \ {Up}) /\ q \in Seq(Nat \ {Up})  BY DEF Paths
  <2>4. p = q  BY <2>1, <2>2, <2>3, <1>3, SeqEqual
  <2> QED  BY <2>4
<1>6. CASE i > Len(p) /\ ~(i > Len(q))
  <2>1. i \in 1..Len(q)  BY <1>0, <1>4, <1>6
  <2> QED  BY <1>3, <1>6, <2>1 DEF Before
<1>7. CASE i > Len(q) /\ ~(i > Len(p))
  <2>1. i \in 1..Len(p)  BY <1>0, <1>4, <1>7
  <2> QED  BY <1>3, <1>7, <2>1 DEF Before
<1>8. CASE ~(i > Len(p)) /\ ~(i > Len(q))
  <2>1. i \in 1..Len(p) /\ i \in 1..Len(q) /\ p[i] # q[i]  BY <1>0, <1>4, <1>8
  <2>2. p[i] < q[i] \/ q[i] < p[i]
    <3>1. p[i] \in Nat /\ q[i] \in Nat  BY <1>n, <2>1
    <3> QED  BY <2>1, <3>1
  <2> QED  BY <1>3, <2>1, <2>2 DEF Before
<1> QED  BY <1>5, <1>6, <1>7, <1>8

\* Sorted lists a set, each member once, in order: there is a member for each number of
\* predecessors.
LEMMA SortedLists ==
    ASSUME NEW S \in SUBSET Paths, IsFiniteSet(S)
    PROVE  /\ Sorted(S) \in Seq(S)
           /\ ToSet(Sorted(S)) = S
           /\ \A i, j \in DOMAIN Sorted(S) : i < j => Before(Sorted(S)[i], Sorted(S)[j])
<1> DEFINE n == Cardinality(S)
           Below(f) == {g \in S : Before(g, f)}
           rank == [f \in S |-> Cardinality(Below(f))]
           s == Sorted(S)
<1>1. n \in Nat  BY FS_CardinalityType
<1>2. ASSUME NEW f \in S
      PROVE  IsFiniteSet(Below(f)) /\ rank[f] \in 0..(n - 1)
  <2>1. f \notin Below(f)  BY BeforeIrreflexive
  <2>2. Below(f) \in SUBSET (S \ {f})  BY <2>1
  <2>3. IsFiniteSet(S \ {f}) /\ Cardinality(S \ {f}) = n - 1  BY FS_RemoveElement
  <2>4. IsFiniteSet(Below(f)) /\ Cardinality(Below(f)) <= n - 1  BY <2>2, <2>3, FS_Subset
  <2>5. Cardinality(Below(f)) \in Nat  BY <2>4, FS_CardinalityType
  <2>6. rank[f] = Cardinality(Below(f))  OBVIOUS
  <2> HIDE DEF n, rank, Below
  <2> QED  BY <1>1, <2>4, <2>5, <2>6
<1>3. ASSUME NEW f \in S, NEW h \in S, Before(f, h)
      PROVE  rank[f] < rank[h]
  <2>1. \A g \in S : Before(g, f) => Before(g, h)  BY <1>3, BeforeTransitive
  <2>2. Below(f) \in SUBSET Below(h) /\ f \in Below(h) /\ f \notin Below(f)
        BY <1>3, <2>1, BeforeIrreflexive
  <2>3. IsFiniteSet(Below(h))  BY <1>2
  <2>4. Cardinality(Below(f)) <= Cardinality(Below(h)) /\ Cardinality(Below(h)) # Cardinality(Below(f))
        BY <2>2, <2>3, FS_Subset
  <2>5. rank[f] = Cardinality(Below(f)) /\ rank[h] = Cardinality(Below(h))  OBVIOUS
  <2>6. rank[f] \in 0..(n - 1) /\ rank[h] \in 0..(n - 1)  BY <1>2
  <2> HIDE DEF n, rank, Below
  <2> QED  BY <1>1, <2>4, <2>5, <2>6
<1>4. ASSUME NEW f \in S, NEW h \in S, rank[f] = rank[h]
      PROVE  f = h
  <2>1. ASSUME f # h
        PROVE  FALSE
    <3>1. Before(f, h) \/ Before(h, f)  BY <2>1, BeforeTotal
    <3>2. rank[f] < rank[h] \/ rank[h] < rank[f]  BY <1>3, <3>1
    <3>3. rank[f] \in Nat /\ rank[h] \in Nat
      <4>1. rank[f] \in 0..(n - 1) /\ rank[h] \in 0..(n - 1)  BY <1>2
      <4> HIDE DEF rank, n
      <4> QED  BY <4>1
    <3> HIDE DEF rank
    <3> QED  BY <1>4, <3>2, <3>3
  <2> QED  BY <2>1
<1>5. rank \in Surjection(S, 0..(n - 1))
  <2>1. rank \in [S -> 0..(n - 1)]
    <3>1. rank = [f \in S |-> rank[f]]  OBVIOUS
    <3> HIDE DEF rank
    <3> QED  BY <1>2, <3>1
  <2>2. rank \in Injection(S, 0..(n - 1))
    <3> HIDE DEF rank
    <3> QED  BY <1>4, <2>1 DEF Injection, IsInjective
  <2>3. IsFiniteSet(0..(n - 1)) /\ Cardinality(0..(n - 1)) = n
    <3>1. 0 \in Int /\ n - 1 \in Int  BY <1>1
    <3>2. /\ IsFiniteSet(0..(n - 1))
          /\ Cardinality(0..(n - 1)) = IF 0 > n - 1 THEN 0 ELSE (n - 1) - 0 + 1
          BY <3>1, FS_Interval
    <3> HIDE DEF n
    <3> QED  BY <1>1, <3>2
  <2> HIDE DEF rank
  <2> QED  BY <2>2, <2>3, FS_Injection
<1>6. ASSUME NEW i \in 1..n
      PROVE  s[i] \in S /\ rank[s[i]] = i - 1
  <2>1. i - 1 \in 0..(n - 1)  BY <1>1
  <2>2. \E f \in S : rank[f] = i - 1
    <3> HIDE DEF rank, n
    <3> QED  BY <1>5, <2>1 DEF Surjection
  <2>3. \E f \in S : Cardinality(Below(f)) = i - 1  BY <2>2
  <2>4. s[i] = CHOOSE f \in S : Cardinality(Below(f)) = i - 1  BY DEF Sorted
  <2>5. s[i] \in S /\ Cardinality(Below(s[i])) = i - 1
    <3> HIDE DEF Below, s
    <3> QED  BY <2>3, <2>4
  <2> QED  BY <2>5
<1>7. DOMAIN s = 1..n  BY DEF Sorted
<1>8. s \in Seq(S)
  <2>1. s = [i \in 1..n |-> s[i]]
    <3>1. s = [i \in 1..n |-> CHOOSE f \in S : Cardinality(Below(f)) = i - 1]  BY DEF Sorted
    <3> HIDE DEF s, n, rank, Below
    <3> QED  BY <3>1
  <2>2. s \in [1..n -> S]
    <3> HIDE DEF s, n, rank
    <3> QED  BY <1>6, <2>1
  <2> HIDE DEF s, n
  <2> QED  BY <1>1, <2>2
<1>9. ToSet(s) = S
  <2>1. ASSUME NEW f \in S
        PROVE  \E i \in 1..n : s[i] = f
    <3>1. rank[f] \in 0..(n - 1)  BY <1>2
    <3> DEFINE i == rank[f] + 1
    <3>2. i \in 1..n /\ i - 1 = rank[f]
      <4> HIDE DEF rank, n
      <4> QED  BY <1>1, <3>1
    <3>3. s[i] \in S /\ rank[s[i]] = rank[f]  BY <1>6, <3>2
    <3>4. s[i] = f  BY <1>4, <3>3
    <3> HIDE DEF i
    <3> QED  BY <3>2, <3>4
  <2> HIDE DEF s, n, rank
  <2> QED  BY <1>6, <1>7, <2>1 DEF ToSet
<1>10. ASSUME NEW i \in 1..n, NEW j \in 1..n, i < j
       PROVE  Before(s[i], s[j])
  <2>1. s[i] \in S /\ rank[s[i]] = i - 1 /\ s[j] \in S /\ rank[s[j]] = j - 1  BY <1>6
  <2>2. i \in Nat /\ j \in Nat  BY <1>1
  <2> HIDE DEF s, rank, n
  <2>3. s[i] # s[j]  BY <1>10, <2>1, <2>2
  <2>4. ~(rank[s[j]] < rank[s[i]])  BY <1>10, <2>1, <2>2
  <2>5. ~Before(s[j], s[i])  BY <1>3, <2>1, <2>4
  <2>6. s[i] \in Paths /\ s[j] \in Paths  BY <2>1
  <2> QED  BY <2>3, <2>5, <2>6, BeforeTotal
<1> HIDE DEF s, n
<1>11. \A i, j \in DOMAIN s : i < j => Before(s[i], s[j])  BY <1>7, <1>10
<1> QED  BY <1>8, <1>9, <1>11 DEF s

-----------------------------------------------------------------------------
(* Relative paths                                                           *)

LEMMA PrefixAgrees ==
    ASSUME NEW c \in Seq(Nat), NEW t \in Paths, IsPrefix(c, t)
    PROVE  Len(c) <= Len(t) /\ \A i \in 1..Len(c) : c[i] = t[i]
<1>1. Len(c) \in Nat /\ Len(t) \in Nat /\ t \in Seq(Nat)  BY DEF Paths
<1>2. Len(c) <= Len(t) /\ SubSeq(c, 1, Len(c)) = SubSeq(t, 1, Len(c))  BY DEF IsPrefix
<1>3. \A i \in 1..Len(c) : SubSeq(c, 1, Len(c))[i] = c[i] /\ SubSeq(t, 1, Len(c))[i] = t[i]
      BY <1>1, <1>2
<1> QED  BY <1>2, <1>3

\* There is a longest common prefix.
LEMMA LongestPrefix ==
    ASSUME NEW p \in Paths, NEW q \in Paths
    PROVE  \E n \in Nat : /\ n = Len(LongestCommonPrefix({p, q}))
                          /\ n <= Len(p) /\ n <= Len(q)
                          /\ \A i \in 1..n : p[i] = q[i]
<1> DEFINE C == CommonPrefixes({p, q})
<1>1. p \in Seq(Nat) /\ q \in Seq(Nat) /\ Len(p) \in Nat /\ Len(q) \in Nat  BY DEF Paths
<1>2. ASSUME NEW c \in C
      PROVE  c \in Seq(Nat) /\ IsPrefix(c, p) /\ IsPrefix(c, q)
  <2>1. PICK t \in {p, q} : c \in Prefixes(t)  BY DEF CommonPrefixes
  <2>2. PICK l \in 0..Len(t) : c = SubSeq(t, 1, l)  BY <2>1 DEF Prefixes
  <2>3. c \in Seq(Nat)  BY <1>1, <2>2
  <2> QED  BY <2>3 DEF CommonPrefixes
<1>3. ASSUME NEW c \in C
      PROVE  Len(c) \in Nat /\ Len(c) <= Len(p)
  <2>1. c \in Seq(Nat) /\ IsPrefix(c, p)  BY <1>2
  <2>2. Len(c) \in Nat  BY <2>1
  <2>3. Len(c) <= Len(p)  BY <2>1, PrefixAgrees
  <2> QED  BY <2>2, <2>3
<1>4. <<>> \in C
  <2>1. SubSeq(p, 1, 0) = <<>> /\ 0 \in 0..Len(p)  BY <1>1
  <2>2. <<>> \in Prefixes(p)  BY <2>1 DEF Prefixes
  <2>3. \A t \in Seq(Nat) : IsPrefix(<<>>, t)  BY DEF IsPrefix
  <2> QED  BY <1>1, <2>2, <2>3 DEF CommonPrefixes
<1> DEFINE A == {Len(p) - Len(c) : c \in C}
<1>5. A \in SUBSET Nat /\ A # {}
  <2> HIDE DEF C
  <2>1. \A c \in C : Len(p) - Len(c) \in Nat  BY <1>1, <1>3
  <2> QED  BY <1>4, <2>1
<1>6. PICK m \in A : \A k \in A : m <= k  BY <1>5, LeastNumber
<1>7. PICK longest \in C : m = Len(p) - Len(longest)  BY <1>6
<1>8. \A c \in C : Len(c) <= Len(longest)
  <2> TAKE c \in C
  <2>1. m <= Len(p) - Len(c)  BY <1>6
  <2>2. Len(c) \in Nat /\ Len(longest) \in Nat  BY <1>3
  <2> QED  BY <1>1, <1>7, <2>1, <2>2
<1>9. LongestCommonPrefix({p, q}) \in C
  <2>1. \E c \in C : \A d \in C : Len(d) <= Len(c)  BY <1>8
  <2> QED  BY <2>1 DEF LongestCommonPrefix
<1> DEFINE l == LongestCommonPrefix({p, q})
<1>10. l \in Seq(Nat) /\ IsPrefix(l, p) /\ IsPrefix(l, q)  BY <1>2, <1>9
<1> HIDE DEF l
<1>11. Len(l) \in Nat  BY <1>10
<1>12. Len(l) <= Len(p) /\ Len(l) <= Len(q) /\ \A i \in 1..Len(l) : l[i] = p[i] /\ l[i] = q[i]
       BY <1>10, PrefixAgrees
<1> QED  BY <1>11, <1>12 DEF l

\* k leaves base for the directory that holds its first n names, and goes down to f.
Leads(k, base, f, n) ==
    /\ n <= Len(base) /\ n <= Len(f)
    /\ \A i \in 1..n : base[i] = f[i]
    /\ Len(k) = (Len(base) - n) + (Len(f) - n)
    /\ \A i \in 1..(Len(base) - n) : k[i] = Up
    /\ \A i \in 1..(Len(f) - n) : k[Len(base) - n + i] = f[n + i]

LEMMA RelLeads ==
    ASSUME NEW base \in Paths, NEW f \in Paths
    PROVE  \E n \in Nat : Leads(Rel(base, f), base, f, n)
<1> DEFINE k == Rel(base, f)
<1>1. PICK n \in Nat : /\ n = Len(LongestCommonPrefix({base, f}))
                       /\ n <= Len(base) /\ n <= Len(f)
                       /\ \A i \in 1..n : base[i] = f[i]
      BY LongestPrefix
<1> DEFINE a == [i \in 1..(Len(base) - n) |-> Up]
           b == SubSeq(f, n + 1, Len(f))
<1>2. k = a \o b  BY <1>1 DEF Rel
<1> HIDE DEF k
<1>3. base \in Seq(Nat) /\ f \in Seq(Nat) /\ Len(base) \in Nat /\ Len(f) \in Nat  BY DEF Paths
<1>4. a \in Seq(Nat) /\ Len(a) = Len(base) - n /\ \A i \in 1..(Len(base) - n) : a[i] = Up
      BY <1>1, <1>3 DEF Up
<1>5. b \in Seq(Nat) /\ Len(b) = Len(f) - n /\ \A i \in 1..(Len(f) - n) : b[i] = f[n + i]
      BY <1>1, <1>3
<1> HIDE DEF a, b
<1>6. /\ Len(a \o b) = Len(a) + Len(b)
      /\ \A i \in 1..(Len(a) + Len(b)) : (a \o b)[i] = IF i <= Len(a) THEN a[i] ELSE b[i - Len(a)]
      BY <1>4, <1>5, ConcatProperties
<1>7. /\ Len(k) = (Len(base) - n) + (Len(f) - n)
      /\ \A i \in 1..((Len(base) - n) + (Len(f) - n)) :
             k[i] = IF i <= Len(base) - n THEN a[i] ELSE b[i - (Len(base) - n)]
      BY <1>2, <1>4, <1>5, <1>6
<1> DEFINE x == Len(base) - n
           y == Len(f) - n
<1>8. x \in Nat /\ y \in Nat  BY <1>1, <1>3
<1>9. ASSUME NEW i \in 1..x
      PROVE  k[i] = Up
  <2>1. i \in 1..(x + y) /\ i <= x
    <3> HIDE DEF x, y
    <3> QED  BY <1>8
  <2> QED  BY <1>4, <1>7, <2>1
<1>10. ASSUME NEW i \in 1..y
       PROVE  k[x + i] = f[n + i]
  <2>1. x + i \in 1..(x + y) /\ ~(x + i <= x) /\ (x + i) - x = i
    <3> HIDE DEF x, y
    <3> QED  BY <1>8
  <2>2. k[x + i] = b[i]
    <3>1. k[x + i] = IF x + i <= x THEN a[x + i] ELSE b[(x + i) - x]  BY <1>7, <2>1
    <3> HIDE DEF x, y
    <3> QED  BY <2>1, <3>1
  <2>3. b[i] = f[n + i]  BY <1>5
  <2> QED  BY <2>2, <2>3
<1>11. Leads(k, base, f, n)  BY <1>1, <1>7, <1>9, <1>10 DEF Leads
<1> QED  BY <1>11 DEF k

\* One relative path names one file, as no file is named "..".
LEMMA RelInjective ==
    ASSUME NEW base \in Paths, NEW f \in Paths, NEW g \in Paths, Rel(base, f) = Rel(base, g)
    PROVE  f = g
<1>0. PICK k : k = Rel(base, f) /\ k = Rel(base, g)  OBVIOUS
<1>1a. PICK n \in Nat : Leads(k, base, f, n)  BY <1>0, RelLeads
<1>2a. PICK m \in Nat : Leads(k, base, g, m)  BY <1>0, RelLeads
<1>1. /\ n <= Len(base) /\ n <= Len(f)
      /\ \A i \in 1..n : base[i] = f[i]
      /\ Len(k) = (Len(base) - n) + (Len(f) - n)
      /\ \A i \in 1..(Len(base) - n) : k[i] = Up
      /\ \A i \in 1..(Len(f) - n) : k[Len(base) - n + i] = f[n + i]
      BY <1>1a DEF Leads
<1>2. /\ m <= Len(base) /\ m <= Len(g)
      /\ \A i \in 1..m : base[i] = g[i]
      /\ Len(k) = (Len(base) - m) + (Len(g) - m)
      /\ \A i \in 1..(Len(base) - m) : k[i] = Up
      /\ \A i \in 1..(Len(g) - m) : k[Len(base) - m + i] = g[m + i]
      BY <1>2a DEF Leads
<1>3. Len(base) \in Nat /\ Len(f) \in Nat /\ Len(g) \in Nat  BY DEF Paths
<1>4. /\ \A i \in 1..Len(f) : f[i] # Up
      /\ \A i \in 1..Len(g) : g[i] # Up
      BY DEF Paths
<1>l. (Len(base) - n) + (Len(f) - n) = (Len(base) - m) + (Len(g) - m)  BY <1>1, <1>2
<1>b. n <= Len(f) /\ m <= Len(g)  BY <1>1, <1>2
<1>5. ~(m < n)
  <2> SUFFICES ASSUME m < n
               PROVE  FALSE
      OBVIOUS
  <2>2. CASE Len(f) = n  BY <1>b, <1>l, <1>3, <2>2
  <2>3. CASE Len(f) # n
    <3>1. Len(base) - n + 1 \in 1..(Len(base) - m) /\ 1 \in 1..(Len(f) - n) /\ n + 1 \in 1..Len(f)
          BY <1>1, <1>2, <1>3, <2>3
    <3> QED  BY <1>1, <1>2, <1>4, <3>1
  <2> QED  BY <2>2, <2>3
<1>6. ~(n < m)
  <2> SUFFICES ASSUME n < m
               PROVE  FALSE
      OBVIOUS
  <2>1. CASE Len(g) = m  BY <1>b, <1>l, <1>3, <2>1
  <2>2. CASE Len(g) # m
    <3>1. Len(base) - m + 1 \in 1..(Len(base) - n) /\ 1 \in 1..(Len(g) - m) /\ m + 1 \in 1..Len(g)
          BY <1>1, <1>2, <1>3, <2>2
    <3> QED  BY <1>1, <1>2, <1>4, <3>1
  <2> QED  BY <2>1, <2>2
<1>7. m = n  BY <1>5, <1>6
<1>8. Len(f) = Len(g)  BY <1>l, <1>3, <1>7
<1>9. \A i \in 1..Len(f) : f[i] = g[i]
  <2> TAKE i \in 1..Len(f)
  <2>1. CASE i <= n
    <3>1. i \in 1..n  BY <1>3, <2>1
    <3> QED  BY <1>1, <1>2, <1>7, <3>1
  <2>2. CASE i > n
    <3>1. i - n \in 1..(Len(f) - n) /\ n + (i - n) = i  BY <1>3, <2>2
    <3>2. k[Len(base) - n + (i - n)] = f[n + (i - n)]  BY <1>1, <3>1
    <3>3. k[Len(base) - n + (i - n)] = g[n + (i - n)]  BY <1>2, <1>7, <1>8, <3>1
    <3> QED  BY <3>1, <3>2, <3>3
  <2> QED  BY <1>3, <2>1, <2>2
<1> QED  BY <1>8, <1>9, SeqEqual DEF Paths

-----------------------------------------------------------------------------
(* The inductive invariant                                                  *)

Entry(f) == [path |-> f, key |-> Rel(Root, f)]

TypesOK ==
    /\ files \subseteq Paths /\ IsFiniteSet(files)
    /\ \A f \in files : f # <<>>
    /\ unreadable \subseteq Paths
    /\ sourceArgs \in Seq(DOMAIN Globs) /\ setupArgs \in Seq(DOMAIN Globs)
    /\ nextPattern \in Nat \ {0}
    /\ matched \in Seq(files)
    /\ testFiles \in Seq(files)
    /\ sourceFiles \in Seq({Entry(f) : f \in files})

\* No source is listed twice.
SourcesDistinct ==
    \A i, j \in DOMAIN SourcePaths : i # j => SourcePaths[i] # SourcePaths[j]

\* What the patterns taken so far have listed.
PatternsOK ==
    /\ pc \in {"tests", "colocated"} => nextPattern = 1 /\ matched = <<>>
    /\ pc = "explicit" => /\ sourceArgs # <<>> /\ sourceFiles = <<>>
                          /\ nextPattern <= Len(sourceArgs) + 1
                          /\ ListedAsGiven(matched, sourceArgs, nextPattern - 1)
    /\ pc = "setup" => /\ nextPattern <= Len(setupArgs) + 1
                       /\ ListedAsGiven(matched, setupArgs, nextPattern - 1)
    /\ pc \in {"setup", "ready"} /\ sourceArgs # <<>> =>
           ListedAsGiven(SourcePaths, sourceArgs, Len(sourceArgs))
    /\ pc = "ready" => ListedAsGiven(setupSQL, setupArgs, Len(setupArgs))

\* The sources below the test directories that are scanned.
Scanned ==
    {f \in files : IsSource(f) /\ \E t \in ToSet(testFiles) :
                       Dir(t) \notin testDirs /\ f \in Walked(Dir(t))}

\* What the scans so far have found: those of one directory are found by the same scan.
ScansOK ==
    /\ pc = "tests" => sourceFiles = <<>>
    /\ pc = "colocated" => sourceArgs = <<>>
    /\ pc \in {"colocated", "setup", "ready"} /\ sourceArgs = <<>> =>
           /\ ToSet(testFiles) \subseteq Walked(Root)
           /\ testDirs \subseteq {Dir(t) : t \in ToSet(testFiles)}
           /\ pc # "colocated" => testDirs = {}
           /\ ToSet(SourcePaths) = Scanned
           /\ \A i, j \in DOMAIN SourcePaths :
                  i < j /\ Dir(SourcePaths[i]) = Dir(SourcePaths[j])
                      => Before(SourcePaths[i], SourcePaths[j])

DInv == TypesOK /\ SourcesDistinct /\ PatternsOK /\ ScansOK

-----------------------------------------------------------------------------
(* Lists and walks                                                          *)

LEMMA ToSetConcat ==
    ASSUME NEW S, NEW a \in Seq(S), NEW b \in Seq(S)
    PROVE  ToSet(a \o b) = ToSet(a) \cup ToSet(b)
<1>1. /\ Len(a \o b) = Len(a) + Len(b)
      /\ \A i \in 1..(Len(a) + Len(b)) : (a \o b)[i] = IF i <= Len(a) THEN a[i] ELSE b[i - Len(a)]
      BY ConcatProperties
<1>2. Len(a) \in Nat /\ Len(b) \in Nat /\ a \o b \in Seq(S)  OBVIOUS
<1>3. ASSUME NEW i \in 1..(Len(a) + Len(b))
      PROVE  (a \o b)[i] \in ToSet(a) \cup ToSet(b)
  <2>1. CASE i <= Len(a)
    <3>1. i \in 1..Len(a)  BY <1>2, <2>1
    <3>2. (a \o b)[i] = a[i]  BY <1>1, <2>1
    <3> QED  BY <1>2, <3>1, <3>2 DEF ToSet
  <2>2. CASE ~(i <= Len(a))
    <3>1. i - Len(a) \in 1..Len(b)  BY <1>2, <2>2
    <3>2. (a \o b)[i] = b[i - Len(a)]  BY <1>1, <2>2
    <3> QED  BY <1>2, <3>1, <3>2 DEF ToSet
  <2> QED  BY <2>1, <2>2
<1>4. ASSUME NEW i \in 1..Len(a)
      PROVE  a[i] \in ToSet(a \o b)
  <2>1. i \in 1..(Len(a) + Len(b)) /\ i <= Len(a)  BY <1>2
  <2>2. (a \o b)[i] = a[i]  BY <1>1, <2>1
  <2> QED  BY <1>1, <1>2, <2>1, <2>2 DEF ToSet
<1>5. ASSUME NEW i \in 1..Len(b)
      PROVE  b[i] \in ToSet(a \o b)
  <2>1. Len(a) + i \in 1..(Len(a) + Len(b)) /\ ~(Len(a) + i <= Len(a)) /\ (Len(a) + i) - Len(a) = i
        BY <1>2
  <2>2. (a \o b)[Len(a) + i] = b[i]  BY <1>1, <2>1
  <2> QED  BY <1>1, <1>2, <2>1, <2>2 DEF ToSet
<1>6. DOMAIN a = 1..Len(a) /\ DOMAIN b = 1..Len(b) /\ DOMAIN (a \o b) = 1..(Len(a) + Len(b))
      BY <1>1, <1>2
<1> QED  BY <1>3, <1>4, <1>5, <1>6 DEF ToSet

LEMMA NoneListed ==
    ASSUME NEW listing
    PROVE  ListedAsGiven(<<>>, listing, 0)
BY DEF ListedAsGiven, ToSet

\* A list in the order of its patterns holds no file twice.
LEMMA ListedDistinct ==
    ASSUME NEW result \in Seq(Paths), NEW listing, NEW n \in Nat,
           ListedAsGiven(result, listing, n),
           NEW i \in DOMAIN result, NEW j \in DOMAIN result, i < j
    PROVE  result[i] # result[j]
<1> SUFFICES ASSUME result[i] = result[j]
             PROVE  FALSE
    OBVIOUS
<1> DEFINE f == result[i]
<1>1. PICK k \in 1..n : \E l \in 1..n : /\ FirstMatch(listing, f, k) /\ FirstMatch(listing, f, l)
                                        /\ k < l \/ (k = l /\ Before(f, f))
      BY DEF ListedAsGiven
<1>2. PICK l \in 1..n : /\ FirstMatch(listing, f, k) /\ FirstMatch(listing, f, l)
                        /\ k < l \/ (k = l /\ Before(f, f))
      BY <1>1
<1>3. f \in Paths  OBVIOUS
<1>4. k < l  BY <1>2, <1>3, BeforeIrreflexive
<1>5. k \in 1..(l - 1)  BY <1>4
<1> QED  BY <1>2, <1>5 DEF FirstMatch

\* The next pattern adds, in order, what no pattern before it matches.
LEMMA ExtendListing ==
    ASSUME files \subseteq Paths, IsFiniteSet(files),
           NEW r \in Seq(files), NEW listing, NEW k \in Nat \ {0},
           ListedAsGiven(r, listing, k - 1),
           NEW new, new = Sorted(Glob(listing[k]) \ ToSet(r))
    PROVE  /\ r \o new \in Seq(files)
           /\ ListedAsGiven(r \o new, listing, k)
<1> DEFINE X == Glob(listing[k]) \ ToSet(r)
<1>1. X \in SUBSET files /\ X \in SUBSET Paths /\ IsFiniteSet(X)
  <2>1. X \in SUBSET files  BY DEF Glob
  <2> HIDE DEF X
  <2> QED  BY <2>1, FS_Subset
<1>2. new \in Seq(X)  BY <1>1, SortedLists
<1>3. ToSet(new) = X  BY <1>1, SortedLists
<1>4. \A i, j \in DOMAIN new : i < j => Before(new[i], new[j])  BY <1>1, SortedLists
<1>5. new \in Seq(files)
  <2> HIDE DEF X
  <2> QED  BY <1>1, <1>2
<1>6. /\ Len(r \o new) = Len(r) + Len(new)
      /\ \A i \in 1..(Len(r) + Len(new)) : (r \o new)[i] = IF i <= Len(r) THEN r[i] ELSE new[i - Len(r)]
      BY <1>5, ConcatProperties
<1>7. ToSet(r \o new) = ToSet(r) \cup X
  <2>1. ToSet(r \o new) = ToSet(r) \cup ToSet(new)  BY <1>5, ToSetConcat
  <2> HIDE DEF X
  <2> QED  BY <1>3, <2>1
<1>8. ASSUME NEW f
      PROVE  (\E l \in 1..k : f \in Globs[listing[l]])
                 <=> (\E l \in 1..(k - 1) : f \in Globs[listing[l]]) \/ f \in Globs[listing[k]]
  <2>1. \A l : l \in 1..k <=> l \in 1..(k - 1) \/ l = k  OBVIOUS
  <2> HIDE DEF X
  <2> QED  BY <2>1
<1>9. ToSet(r) = {f \in files : \E l \in 1..(k - 1) : f \in Globs[listing[l]]}  BY DEF ListedAsGiven
<1>10. ToSet(r \o new) = {f \in files : \E l \in 1..k : f \in Globs[listing[l]]}
       BY <1>7, <1>8, <1>9 DEF Glob
<1>11. ASSUME NEW f \in X
       PROVE  FirstMatch(listing, f, k)
  <2>1. f \in files /\ f \in Globs[listing[k]] /\ f \notin ToSet(r)  BY DEF Glob
  <2> QED  BY <1>9, <2>1 DEF FirstMatch
<1>12. \A j \in DOMAIN new : new[j] \in X
  <2> HIDE DEF X
  <2> QED  BY <1>2
<1>d. /\ r \o new \in Seq(files) /\ DOMAIN r = 1..Len(r) /\ DOMAIN new = 1..Len(new)
      /\ DOMAIN (r \o new) = 1..(Len(r) + Len(new)) /\ Len(r) \in Nat /\ Len(new) \in Nat
      BY <1>5, <1>6
<1> DEFINE Orders(f, g, n) == \E a, b \in 1..n : /\ FirstMatch(listing, f, a)
                                                 /\ FirstMatch(listing, g, b)
                                                 /\ a < b \/ (a = b /\ Before(f, g))
<1>13. ASSUME NEW i \in DOMAIN (r \o new), NEW j \in DOMAIN (r \o new), i < j
       PROVE  Orders((r \o new)[i], (r \o new)[j], k)
  <2>1. i \in 1..(Len(r) + Len(new)) /\ j \in 1..(Len(r) + Len(new))  BY <1>d
  <2>2. CASE j <= Len(r)
    <3>1. i \in DOMAIN r /\ j \in DOMAIN r /\ i <= Len(r)  BY <1>13, <1>d, <2>1, <2>2
    <3>2. (r \o new)[i] = r[i] /\ (r \o new)[j] = r[j]  BY <1>6, <2>1, <2>2, <3>1
    <3>3. Orders(r[i], r[j], k - 1)  BY <1>13, <3>1 DEF ListedAsGiven
    <3>4. \A a \in 1..(k - 1) : a \in 1..k  OBVIOUS
    <3>5. Orders(r[i], r[j], k)  BY <3>3, <3>4
    <3> QED  BY <3>2, <3>5
  <2>3. CASE i <= Len(r) /\ ~(j <= Len(r))
    <3>1. i \in DOMAIN r /\ j - Len(r) \in DOMAIN new  BY <1>d, <2>1, <2>3
    <3>2. (r \o new)[i] = r[i] /\ (r \o new)[j] = new[j - Len(r)]  BY <1>6, <2>1, <2>3
    <3>3. FirstMatch(listing, new[j - Len(r)], k)  BY <1>11, <1>12, <3>1
    <3>4. r[i] \in ToSet(r)  BY <3>1 DEF ToSet
    <3>5. \E a \in 1..(k - 1) : FirstMatch(listing, r[i], a)
      <4> DEFINE A == {a \in 1..(k - 1) : r[i] \in Globs[listing[a]]}
      <4>1. A \in SUBSET Nat /\ A # {}  BY <1>9, <3>4
      <4>2. PICK a \in A : \A b \in A : a <= b  BY <4>1, LeastNumber
      <4>3. a \in 1..(k - 1) /\ r[i] \in Globs[listing[a]]  BY <4>2
      <4>4. ASSUME NEW b \in 1..(a - 1)
            PROVE  r[i] \notin Globs[listing[b]]
        <5>1. b \in 1..(k - 1) /\ ~(a <= b)  BY <4>3
        <5> QED  BY <4>2, <5>1
      <4> QED  BY <4>3, <4>4 DEF FirstMatch
    <3>6. PICK a \in 1..(k - 1) : FirstMatch(listing, r[i], a)  BY <3>5
    <3>7. a \in 1..k /\ k \in 1..k /\ a < k  OBVIOUS
    <3>8. Orders(r[i], new[j - Len(r)], k)  BY <3>3, <3>6, <3>7
    <3> QED  BY <3>2, <3>8
  <2>4. CASE ~(i <= Len(r))
    <3>1. i - Len(r) \in DOMAIN new /\ j - Len(r) \in DOMAIN new /\ i - Len(r) < j - Len(r)
          /\ ~(j <= Len(r))
          BY <1>13, <1>d, <2>1, <2>4
    <3>2. (r \o new)[i] = new[i - Len(r)] /\ (r \o new)[j] = new[j - Len(r)]  BY <1>6, <2>1, <2>4, <3>1
    <3>3. FirstMatch(listing, new[i - Len(r)], k) /\ FirstMatch(listing, new[j - Len(r)], k)
          BY <1>11, <1>12, <3>1
    <3>4. Before(new[i - Len(r)], new[j - Len(r)])  BY <1>4, <3>1
    <3>5. k \in 1..k  OBVIOUS
    <3>6. Orders(new[i - Len(r)], new[j - Len(r)], k)  BY <3>3, <3>4, <3>5
    <3> QED  BY <3>2, <3>6
  <2> QED  BY <2>2, <2>3, <2>4
<1>14. ListedAsGiven(r \o new, listing, k)
  <2> HIDE DEF X
  <2> QED  BY <1>10, <1>13 DEF ListedAsGiven
<1> QED  BY <1>d, <1>14

LEMMA DirIsPath ==
    ASSUME NEW f \in Paths, f # <<>>
    PROVE  Dir(f) \in Paths
<1>1. f \in Seq(Nat \ {Up}) /\ Len(f) \in Nat \ {0}  BY DEF Paths
<1>2. SubSeq(f, 1, Len(f) - 1) \in Seq(Nat \ {Up})  BY <1>1
<1> QED  BY <1>2 DEF Dir, Front, Paths

\* A walk sees all the sources of a directory or none of them.
LEMMA SeenTogether ==
    ASSUME NEW d, NEW f \in Walked(d), NEW g \in files, IsSource(g), Dir(f) = Dir(g)
    PROVE  g \in Walked(d)
BY DEF Walked, IsSource

\* The directory of a test that was found can be read, and so its sources are found.
LEMMA OwnSourcesSeen ==
    ASSUME TypesOK, Root \in Paths, NEW t \in Walked(Root),
           NEW f \in files, IsSource(f), Dir(f) = Dir(t)
    PROVE  f \in Walked(Dir(t))
<1>1. t \in files /\ IsPrefix(Root, Dir(t))  BY DEF Walked
<1>2. \A d \in unreadable : ~(IsPrefix(Root, d) /\ IsPrefix(d, Dir(t)))  BY DEF Walked
<1>3. Dir(t) \in Paths  BY <1>1, DirIsPath DEF TypesOK
<1>4. IsPrefix(Dir(t), Dir(t))
  <2>1. Len(Dir(t)) \in Nat  BY <1>3 DEF Paths
  <2> QED  BY <2>1 DEF IsPrefix
<1>5. ASSUME NEW d \in unreadable, IsPrefix(Dir(t), d), IsPrefix(d, Dir(t))
      PROVE  d = Dir(t)
  <2>1. d \in Paths  BY DEF TypesOK
  <2>2. d \in Seq(Nat) /\ Dir(t) \in Seq(Nat) /\ Len(d) \in Nat /\ Len(Dir(t)) \in Nat
        BY <1>3, <2>1 DEF Paths
  <2>3. Len(Dir(t)) <= Len(d)  BY <1>5 DEF IsPrefix
  <2>4. Len(d) <= Len(Dir(t))  BY <1>5 DEF IsPrefix
  <2>5. Len(d) = Len(Dir(t))  BY <2>2, <2>3, <2>4
  <2>6. \A i \in 1..Len(d) : d[i] = Dir(t)[i]  BY <1>3, <1>5, <2>2, PrefixAgrees
  <2> QED  BY <2>2, <2>5, <2>6, SeqEqual
<1>6. \A d \in unreadable : ~(IsPrefix(Dir(t), d) /\ IsPrefix(d, Dir(t)))  BY <1>1, <1>2, <1>5
<1> QED  BY <1>4, <1>6 DEF Walked, IsSource

-----------------------------------------------------------------------------
(* Each step keeps the invariant                                            *)

LEMMA ConcatAt ==
    ASSUME NEW S, NEW a \in Seq(S), NEW b \in Seq(S), NEW i \in DOMAIN (a \o b)
    PROVE  \/ i \in DOMAIN a /\ (a \o b)[i] = a[i]
           \/ i - Len(a) \in DOMAIN b /\ i > Len(a) /\ (a \o b)[i] = b[i - Len(a)]
<1>1. /\ Len(a \o b) = Len(a) + Len(b)
      /\ \A k \in 1..(Len(a) + Len(b)) : (a \o b)[k] = IF k <= Len(a) THEN a[k] ELSE b[k - Len(a)]
      BY ConcatProperties
<1>2. Len(a) \in Nat /\ Len(b) \in Nat /\ a \o b \in Seq(S)  OBVIOUS
<1>3. DOMAIN a = 1..Len(a) /\ DOMAIN b = 1..Len(b) /\ i \in 1..(Len(a) + Len(b))  BY <1>1, <1>2
<1>4. CASE i <= Len(a)
  <2>1. i \in 1..Len(a)  BY <1>2, <1>3, <1>4
  <2> QED  BY <1>1, <1>3, <1>4, <2>1
<1>5. CASE ~(i <= Len(a))
  <2>1. i - Len(a) \in 1..Len(b) /\ i > Len(a)  BY <1>2, <1>3, <1>5
  <2> QED  BY <1>1, <1>3, <1>5, <2>1
<1> QED  BY <1>4, <1>5

LEMMA SourcePathsType ==
    ASSUME TypesOK
    PROVE  /\ SourcePaths \in Seq(files)
           /\ DOMAIN SourcePaths = DOMAIN sourceFiles
           /\ \A i \in DOMAIN sourceFiles : sourceFiles[i] = Entry(SourcePaths[i])
<1>1. sourceFiles \in Seq({Entry(f) : f \in files})  BY DEF TypesOK
<1>2. \A i \in DOMAIN sourceFiles : \E f \in files : sourceFiles[i] = Entry(f)  BY <1>1
<1>3. \A i \in DOMAIN sourceFiles : /\ sourceFiles[i].path \in files
                                    /\ sourceFiles[i] = Entry(sourceFiles[i].path)
      BY <1>2 DEF Entry
<1>4. DOMAIN sourceFiles = 1..Len(sourceFiles) /\ Len(sourceFiles) \in Nat  BY <1>1
<1>5. SourcePaths \in [1..Len(sourceFiles) -> files]  BY <1>3, <1>4 DEF SourcePaths
<1>6. SourcePaths \in Seq(files)  BY <1>4, <1>5
<1> QED  BY <1>3, <1>6 DEF SourcePaths

LEMMA WalkedFinite ==
    ASSUME TypesOK, NEW d, NEW X \in SUBSET Walked(d)
    PROVE  X \in SUBSET files /\ X \in SUBSET Paths /\ IsFiniteSet(X)
<1>1. X \in SUBSET files  BY DEF Walked
<1> QED  BY <1>1, FS_Subset DEF TypesOK

\* The list of sources is lengthened by the entries of new files.
LEMMA AppendSources ==
    ASSUME TypesOK, files' = files, NEW new \in Seq(files),
           sourceFiles' = sourceFiles \o [i \in DOMAIN new |-> Entry(new[i])]
    PROVE  /\ SourcePaths' = SourcePaths \o new
           /\ sourceFiles' \in Seq({Entry(f) : f \in files'})
<1> DEFINE E == {Entry(f) : f \in files}
           add == [i \in DOMAIN new |-> Entry(new[i])]
<1>1. DOMAIN new = 1..Len(new) /\ Len(new) \in Nat /\ \A i \in DOMAIN new : new[i] \in files  OBVIOUS
<1>2. add \in Seq(E) /\ Len(add) = Len(new) /\ DOMAIN add = DOMAIN new
  <2>1. add \in [1..Len(new) -> E]  BY <1>1
  <2>2. add \in Seq(E) /\ DOMAIN add = 1..Len(new)
    <3> HIDE DEF add, E
    <3> QED  BY <1>1, <2>1
  <2>3. Len(add) \in Nat /\ DOMAIN add = 1..Len(add)
    <3> HIDE DEF add, E
    <3> QED  BY <2>2
  <2>4. Len(add) = Len(new)
    <3> HIDE DEF add, E
    <3> QED  BY <1>1, <2>2, <2>3
  <2> QED  BY <1>1, <2>2, <2>4
<1>3. sourceFiles \in Seq(E)  BY DEF TypesOK
<1>4. sourceFiles' \in Seq(E) /\ Len(sourceFiles') = Len(sourceFiles) + Len(new)
  <2> HIDE DEF add, E
  <2>1. sourceFiles' = sourceFiles \o add  BY DEF add
  <2>2. sourceFiles \o add \in Seq(E)  BY <1>2, <1>3
  <2>3. Len(sourceFiles \o add) = Len(sourceFiles) + Len(add)  BY <1>2, <1>3, ConcatProperties
  <2> QED  BY <1>2, <2>1, <2>2, <2>3
<1>5. \A i \in DOMAIN add : add[i].path = new[i]  BY <1>2 DEF Entry
<1>6. SourcePaths \in Seq(files) /\ DOMAIN SourcePaths = DOMAIN sourceFiles  BY SourcePathsType
<1>7. Len(sourceFiles) \in Nat /\ DOMAIN sourceFiles = 1..Len(sourceFiles)  BY <1>3
<1>8. Len(SourcePaths) = Len(sourceFiles)
  <2>1. DOMAIN SourcePaths = 1..Len(SourcePaths) /\ Len(SourcePaths) \in Nat  BY <1>6
  <2> QED  BY <1>6, <1>7, <2>1
<1>9. SourcePaths' = [i \in 1..(Len(sourceFiles) + Len(new)) |-> sourceFiles'[i].path]
  <2>1. DOMAIN sourceFiles' = 1..(Len(sourceFiles) + Len(new))
    <3> HIDE DEF E
    <3> QED  BY <1>4
  <2> QED  BY <2>1 DEF SourcePaths
<1>10. /\ SourcePaths \o new \in Seq(files)
       /\ Len(SourcePaths \o new) = Len(sourceFiles) + Len(new)
       /\ \A i \in 1..(Len(sourceFiles) + Len(new)) :
              (SourcePaths \o new)[i] = IF i <= Len(sourceFiles) THEN SourcePaths[i] ELSE new[i - Len(sourceFiles)]
  <2>1. SourcePaths \o new \in Seq(files)  BY <1>6
  <2>2. Len(SourcePaths \o new) = Len(SourcePaths) + Len(new)  BY <1>6, ConcatProperties
  <2>3. \A i \in 1..(Len(SourcePaths) + Len(new)) :
            (SourcePaths \o new)[i] = IF i <= Len(SourcePaths) THEN SourcePaths[i] ELSE new[i - Len(SourcePaths)]
        BY <1>6, ConcatProperties
  <2> QED  BY <1>8, <2>1, <2>2, <2>3
<1>11. ASSUME NEW i \in 1..(Len(sourceFiles) + Len(new))
       PROVE  sourceFiles'[i].path = (SourcePaths \o new)[i]
  <2>1. sourceFiles'[i] = IF i <= Len(sourceFiles) THEN sourceFiles[i] ELSE add[i - Len(sourceFiles)]
    <3>1. sourceFiles' = sourceFiles \o add  OBVIOUS
    <3> HIDE DEF add, E
    <3> QED  BY <1>2, <1>3, <3>1, ConcatProperties
  <2>2. CASE i <= Len(sourceFiles)
    <3>1. i \in DOMAIN sourceFiles  BY <1>7, <2>2
    <3> QED  BY <1>10, <2>1, <2>2, <3>1 DEF SourcePaths
  <2>3. CASE ~(i <= Len(sourceFiles))
    <3>1. i - Len(sourceFiles) \in DOMAIN new  BY <1>1, <1>7, <2>3
    <3>2. add[i - Len(sourceFiles)].path = new[i - Len(sourceFiles)]  BY <1>2, <1>5, <3>1
    <3> HIDE DEF add
    <3> QED  BY <1>10, <2>1, <2>3, <3>2
  <2> QED  BY <2>2, <2>3
<1>12. SourcePaths' = SourcePaths \o new
  <2>2. DOMAIN (SourcePaths \o new) = 1..(Len(sourceFiles) + Len(new))  BY <1>10
  <2>3. SourcePaths \o new = [i \in 1..(Len(sourceFiles) + Len(new)) |-> (SourcePaths \o new)[i]]
    <3>1. SourcePaths \o new \in [1..Len(SourcePaths \o new) -> files]  BY <1>10, LenProperties
    <3> QED  BY <1>10, <3>1
  <2>4. [i \in 1..(Len(sourceFiles) + Len(new)) |-> sourceFiles'[i].path]
            = [i \in 1..(Len(sourceFiles) + Len(new)) |-> (SourcePaths \o new)[i]]
        BY <1>11
  <2> QED  BY <1>9, <2>3, <2>4
<1> QED  BY <1>4, <1>12

LEMMA FailureKeeps ==
    ASSUME TypesOK', SourcesDistinct, UNCHANGED sourceFiles, pc' \in {"failed", "noTests"}
    PROVE  DInv'
<1>1. SourcesDistinct'  BY DEF SourcesDistinct, SourcePaths
<1>2. PatternsOK'  BY DEF PatternsOK
<1>3. ScansOK'  BY DEF ScansOK
<1> QED  BY <1>1, <1>2, <1>3 DEF DInv

LEMMA FindTestsKeeps ==
    ASSUME DInv, FindTests
    PROVE  DInv'
<1> DEFINE T == {f \in Walked(Root) : IsTest(f)}
<1>1. TypesOK /\ SourcesDistinct /\ PatternsOK /\ ScansOK  BY DEF DInv
<1>2. pc = "tests" /\ nextPattern = 1 /\ matched = <<>> /\ sourceFiles = <<>>
      BY <1>1 DEF FindTests, PatternsOK, ScansOK
<1>3. UNCHANGED <<args, loop, sourceFiles, setupSQL>>  BY DEF FindTests
<1>4. T \in SUBSET files /\ T \in SUBSET Paths /\ IsFiniteSet(T)
  <2>1. T \in SUBSET Walked(Root)  OBVIOUS
  <2> HIDE DEF T
  <2> QED  BY <1>1, <2>1, WalkedFinite
<1>5. DiscoverTests \in Seq(T) /\ ToSet(DiscoverTests) = T
  <2>1. DiscoverTests = Sorted(T)  BY DEF DiscoverTests
  <2> HIDE DEF T
  <2>2. Sorted(T) \in Seq(T)  BY <1>4, SortedLists
  <2>3. ToSet(Sorted(T)) = T  BY <1>4, SortedLists
  <2> QED  BY <2>1, <2>2, <2>3
<1>6. SourcesDistinct'  BY <1>1, <1>3 DEF SourcesDistinct, SourcePaths
<1>7. ASSUME UNCHANGED testFiles, pc' = "failed"
      PROVE  DInv'
  <2>1. TypesOK'  BY <1>1, <1>3, <1>7 DEF TypesOK, args, loop
  <2> QED  BY <1>1, <1>3, <1>7, <2>1, FailureKeeps
<1>8. ASSUME testFiles' = DiscoverTests,
             testDirs' = {Dir(t) : t \in ToSet(DiscoverTests)},
             pc' = IF testFiles' = <<>> THEN "noTests"
                   ELSE IF sourceArgs # <<>> THEN "explicit" ELSE "colocated"
      PROVE  DInv'
  <2>1. testFiles' \in Seq(files)
    <3> HIDE DEF T
    <3> QED  BY <1>4, <1>5, <1>8
  <2>2. TypesOK'  BY <1>1, <1>3, <2>1 DEF TypesOK, args, loop
  <2>3. PatternsOK'
    <3>1. ListedAsGiven(<<>>, sourceArgs, 0)'  BY DEF ListedAsGiven, ToSet
    <3>2. pc' \in {"noTests", "explicit", "colocated"} /\ (pc' = "explicit" => sourceArgs # <<>>)
          BY <1>8
    <3>3. sourceArgs' = sourceArgs /\ nextPattern' = 1 /\ matched' = <<>> /\ sourceFiles' = <<>>
          BY <1>2, <1>3 DEF args, loop
    <3>4. Len(sourceArgs) \in Nat  BY <1>1 DEF TypesOK
    <3>5. nextPattern' <= Len(sourceArgs') + 1 /\ nextPattern' - 1 = 0  BY <3>3, <3>4
    <3>6. ListedAsGiven(matched, sourceArgs, nextPattern - 1)'  BY <3>1, <3>3, <3>5
    <3> QED  BY <3>2, <3>3, <3>5, <3>6 DEF PatternsOK
  <2>4. ScansOK'
    <3>1. ToSet(testFiles') = T /\ testDirs' = {Dir(t) : t \in T}  BY <1>5, <1>8
    <3>2. Walked(Root)' = Walked(Root)  BY <1>3 DEF Walked, args
    <3>3. ToSet(testFiles') \subseteq Walked(Root)'  BY <3>1, <3>2
    <3>4. testDirs' = {Dir(t) : t \in ToSet(testFiles')}  BY <1>5, <1>8
    <3>5. Scanned' = {}
      <4> HIDE DEF T
      <4> QED  BY <3>4 DEF Scanned
    <3>6. DOMAIN SourcePaths' = {} /\ ToSet(SourcePaths') = {}  BY <1>2, <1>3 DEF SourcePaths, ToSet
    <3>7. (ToSet(SourcePaths) = Scanned)'
      <4>1. ToSet(SourcePaths)' = ToSet(SourcePaths')  BY DEF ToSet
      <4> QED  BY <3>5, <3>6, <4>1
    <3>8. pc' \in {"noTests", "explicit", "colocated"} /\ (pc' = "colocated" => sourceArgs = <<>>)
          BY <1>8
    <3>9. sourceArgs' = sourceArgs  BY <1>3 DEF args
    <3> HIDE DEF T
    <3> QED  BY <3>3, <3>4, <3>6, <3>7, <3>8, <3>9 DEF ScansOK
  <2> QED  BY <1>6, <2>2, <2>3, <2>4 DEF DInv
<1> QED  BY <1>7, <1>8 DEF FindTests

LEMMA ScanTestDirKeeps ==
    ASSUME DInv, NEW d \in testDirs, ScanTestDir(d)
    PROVE  DInv'
<1> DEFINE N == {f \in Walked(d) : IsSource(f) /\ f \notin ToSet(SourcePaths)}
           new == NewSources(d)
<1>1. TypesOK /\ SourcesDistinct /\ PatternsOK /\ ScansOK  BY DEF DInv
<1>2. /\ pc = "colocated" /\ sourceArgs = <<>> /\ nextPattern = 1 /\ matched = <<>>
      /\ testDirs' = testDirs \ {d} /\ UNCHANGED <<args, loop, testFiles, setupSQL>>
      BY <1>1 DEF ScanTestDir, PatternsOK, ScansOK
<1>3. CASE pc' = "failed" /\ UNCHANGED sourceFiles
  <2>1. TypesOK'  BY <1>1, <1>2, <1>3 DEF TypesOK, args, loop
  <2> QED  BY <1>1, <1>3, <2>1, FailureKeeps
<1>4. ASSUME sourceFiles' = sourceFiles \o [i \in DOMAIN new |-> Entry(new[i])],
             UNCHANGED pc
      PROVE  DInv'
  <2>1. N \in SUBSET files /\ N \in SUBSET Paths /\ IsFiniteSet(N)
    <3>1. N \in SUBSET Walked(d)  OBVIOUS
    <3> HIDE DEF N
    <3> QED  BY <1>1, <3>1, WalkedFinite
  <2>2. new = Sorted(N)  BY DEF NewSources
  <2> HIDE DEF new
  <2>3. new \in Seq(N)
    <3> HIDE DEF N
    <3> QED  BY <2>1, <2>2, SortedLists
  <2>4. ToSet(new) = N
    <3> HIDE DEF N
    <3> QED  BY <2>1, <2>2, SortedLists
  <2>5. \A i, j \in DOMAIN new : i < j => Before(new[i], new[j])
    <3> HIDE DEF N
    <3> QED  BY <2>1, <2>2, SortedLists
  <2>6. new \in Seq(files) /\ \A i \in DOMAIN new : new[i] \in N
    <3> HIDE DEF N
    <3> QED  BY <2>1, <2>3
  <2>7. files' = files  BY <1>2 DEF args
  <2>8. SourcePaths' = SourcePaths \o new  BY <1>1, <1>4, <2>6, <2>7, AppendSources
  <2>9. sourceFiles' \in Seq({Entry(f) : f \in files'})  BY <1>1, <1>4, <2>6, <2>7, AppendSources
  <2>10. TypesOK'  BY <1>1, <1>2, <2>9 DEF TypesOK, args, loop
  <2>11. SourcePaths \in Seq(files)  BY <1>1, SourcePathsType
  <2>12. \A i \in DOMAIN SourcePaths : SourcePaths[i] \in ToSet(SourcePaths)  BY DEF ToSet
  <2>13. \A i, j \in DOMAIN new : i # j => new[i] # new[j]
    <3> TAKE i, j \in DOMAIN new
    <3>1. i \in Nat /\ j \in Nat /\ new[i] \in Paths
      <4>1. new[i] \in files  BY <2>6
      <4>2. i \in Nat /\ j \in Nat  BY <2>6
      <4> QED  BY <1>1, <4>1, <4>2 DEF TypesOK
    <3>2. CASE i < j  BY <2>5, <3>1, <3>2, BeforeIrreflexive
    <3>3. CASE j < i  BY <2>5, <3>1, <3>3, BeforeIrreflexive
    <3> QED  BY <3>1, <3>2, <3>3
  <2> DEFINE m == Len(SourcePaths)
             At(i) == \/ i \in DOMAIN SourcePaths /\ SourcePaths'[i] = SourcePaths[i]
                      \/ i - m \in DOMAIN new /\ i > m /\ SourcePaths'[i] = new[i - m]
  <2>14. \A i \in DOMAIN SourcePaths' : At(i)  BY <2>6, <2>8, <2>11, ConcatAt
  <2>15. m \in Nat /\ DOMAIN SourcePaths = 1..m /\ DOMAIN SourcePaths' \subseteq Nat
         BY <2>6, <2>8, <2>11
  <2>16. ASSUME NEW i \in DOMAIN SourcePaths', NEW j \in DOMAIN SourcePaths', i # j
         PROVE  SourcePaths'[i] # SourcePaths'[j]
    <3>1. At(i) /\ At(j)  BY <2>14
    <3>2. i - m = j - m => i = j  BY <2>15
    <3>3. i - m \in DOMAIN new /\ j - m \in DOMAIN new => new[i - m] # new[j - m]  BY <2>13, <2>16, <3>2
    <3>4. \A k \in DOMAIN new : new[k] \notin ToSet(SourcePaths)  BY <2>6
    <3>5. i \in DOMAIN SourcePaths /\ j \in DOMAIN SourcePaths => SourcePaths[i] # SourcePaths[j]
          BY <1>1, <2>16 DEF SourcesDistinct
    <3> HIDE DEF m
    <3> QED  BY <2>12, <3>1, <3>3, <3>4, <3>5
  <2>17. SourcesDistinct'  BY <2>16 DEF SourcesDistinct
  <2>18. PatternsOK'  BY <1>2, <1>4 DEF PatternsOK, args, loop
  <2>19. ASSUME NEW i \in DOMAIN SourcePaths', NEW j \in DOMAIN SourcePaths', i < j,
                Dir(SourcePaths'[i]) = Dir(SourcePaths'[j])
         PROVE  Before(SourcePaths'[i], SourcePaths'[j])
    <3>1. At(i) /\ At(j)  BY <2>14
    <3>2. i - m < j - m /\ (j \in DOMAIN SourcePaths => ~(i > m))  BY <2>15, <2>19
    <3>3. CASE i \in DOMAIN SourcePaths /\ j \in DOMAIN SourcePaths /\ SourcePaths'[i] = SourcePaths[i]
               /\ SourcePaths'[j] = SourcePaths[j]
          BY <1>1, <1>2, <2>19, <3>3 DEF ScansOK
    <3>4. CASE /\ i - m \in DOMAIN new /\ SourcePaths'[i] = new[i - m]
               /\ j - m \in DOMAIN new /\ SourcePaths'[j] = new[j - m]
          BY <2>5, <3>2, <3>4
    <3>5. CASE /\ i \in DOMAIN SourcePaths /\ SourcePaths'[i] = SourcePaths[i]
               /\ j - m \in DOMAIN new /\ SourcePaths'[j] = new[j - m]
      <4>1. SourcePaths[i] \in Scanned  BY <1>1, <1>2, <2>12, <3>5 DEF ScansOK
      <4>2. PICK t \in ToSet(testFiles) : Dir(t) \notin testDirs /\ SourcePaths[i] \in Walked(Dir(t))
            BY <4>1 DEF Scanned
      <4>3. new[j - m] \in files /\ IsSource(new[j - m]) /\ new[j - m] \notin ToSet(SourcePaths)
        <5>1. new[j - m] \in N  BY <2>6, <3>5
        <5> QED  BY <2>1, <5>1
      <4>4. new[j - m] \in Walked(Dir(t))  BY <2>19, <3>5, <4>2, <4>3, SeenTogether
      <4>5. new[j - m] \in Scanned  BY <4>2, <4>3, <4>4 DEF Scanned
      <4> QED  BY <1>1, <1>2, <4>3, <4>5 DEF ScansOK
    <3> HIDE DEF m
    <3> QED  BY <3>1, <3>2, <3>3, <3>4, <3>5
  <2>20. \A e : Walked(e)' = Walked(e)  BY <1>2 DEF Walked, args
  <2>21. PICK u \in ToSet(testFiles) : d = Dir(u)  BY <1>1, <1>2 DEF ScansOK
  <2>22. ToSet(SourcePaths)' = ToSet(SourcePaths) \cup N
    <3>1. ToSet(SourcePaths)' = ToSet(SourcePaths')  BY DEF ToSet
    <3>2. ToSet(SourcePaths \o new) = ToSet(SourcePaths) \cup ToSet(new)  BY <2>6, <2>11, ToSetConcat
    <3> HIDE DEF N
    <3> QED  BY <2>4, <2>8, <3>1, <3>2
  <2>23. Scanned' = Scanned \cup N
    <3>1. ToSet(testFiles)' = ToSet(testFiles)  BY <1>2 DEF ToSet
    <3>2. ASSUME NEW f \in files, IsSource(f), NEW t \in ToSet(testFiles),
                 Dir(t) \notin testDirs \ {d}, f \in Walked(Dir(t))
          PROVE  f \in Scanned \cup N
      <4>1. CASE Dir(t) \notin testDirs  BY <3>2, <4>1 DEF Scanned
      <4>2. CASE Dir(t) = d
        <5>1. ToSet(SourcePaths) = Scanned  BY <1>1, <1>2 DEF ScansOK
        <5> QED  BY <3>2, <4>2, <5>1
      <4> QED  BY <3>2, <4>1, <4>2
    <3>3. ASSUME NEW f \in N
          PROVE  f \in files /\ IsSource(f) /\ f \in Walked(Dir(u)) /\ Dir(u) \notin testDirs \ {d}
          BY <2>1, <2>21
    <3>4. Scanned' = {f \in files : IsSource(f) /\ \E t \in ToSet(testFiles) :
                         Dir(t) \notin testDirs \ {d} /\ f \in Walked(Dir(t))}
          BY <1>2, <2>7, <2>20, <3>1 DEF Scanned
    <3> HIDE DEF N
    <3> QED  BY <2>21, <3>2, <3>3, <3>4 DEF Scanned
  <2>24. (ToSet(SourcePaths) = Scanned)'
    <3>1. ToSet(SourcePaths) = Scanned  BY <1>1, <1>2 DEF ScansOK
    <3> HIDE DEF N
    <3> QED  BY <2>22, <2>23, <3>1
  <2>25. /\ ToSet(testFiles)' = ToSet(testFiles) /\ Walked(Root)' = Walked(Root)
         /\ ToSet(testFiles) \subseteq Walked(Root)
         /\ testDirs \subseteq {Dir(t) : t \in ToSet(testFiles)}
         BY <1>1, <1>2, <2>20 DEF ScansOK, ToSet
  <2>26. /\ (ToSet(testFiles) \subseteq Walked(Root))'
         /\ (testDirs \subseteq {Dir(t) : t \in ToSet(testFiles)})'
         BY <1>2, <2>25
  <2>27. pc' = "colocated" /\ sourceArgs' = <<>>  BY <1>2, <1>4 DEF args
  <2>28. ScansOK'  BY <2>19, <2>24, <2>26, <2>27 DEF ScansOK
  <2> QED  BY <2>10, <2>17, <2>18, <2>28 DEF DInv
<1> QED  BY <1>3, <1>4 DEF ScanTestDir, RelativePath, Entry

LEMMA AllScannedKeeps ==
    ASSUME DInv, AllScanned
    PROVE  DInv'
<1>1. TypesOK /\ SourcesDistinct /\ PatternsOK /\ ScansOK  BY DEF DInv
<1>2. /\ pc = "colocated" /\ sourceArgs = <<>> /\ nextPattern = 1 /\ matched = <<>>
      /\ testDirs = {} /\ pc' = "setup" /\ UNCHANGED <<args, loop, found>>
      BY <1>1 DEF AllScanned, PatternsOK, ScansOK
<1>3. TypesOK'  BY <1>1, <1>2 DEF TypesOK, args, loop, found
<1>4. SourcesDistinct'  BY <1>1, <1>2 DEF SourcesDistinct, SourcePaths, found
<1>5. PatternsOK'
  <2>1. ListedAsGiven(<<>>, setupArgs, 0)'  BY DEF ListedAsGiven, ToSet
  <2>2. /\ sourceArgs' = <<>> /\ setupArgs' = setupArgs /\ nextPattern' = 1 /\ matched' = <<>>
        /\ pc' = "setup" /\ Len(setupArgs) \in Nat
        BY <1>1, <1>2 DEF args, loop, TypesOK
  <2>3. nextPattern' <= Len(setupArgs') + 1 /\ nextPattern' - 1 = 0  BY <2>2
  <2>4. ListedAsGiven(matched, setupArgs, nextPattern - 1)'  BY <2>1, <2>2, <2>3
  <2> QED  BY <2>2, <2>3, <2>4 DEF PatternsOK
<1>6. ScansOK'
  <2>1. \A e : Walked(e)' = Walked(e)  BY <1>2 DEF Walked, args
  <2>2. /\ ToSet(testFiles)' = ToSet(testFiles) /\ SourcePaths' = SourcePaths
        /\ ToSet(SourcePaths)' = ToSet(SourcePaths)
        BY <1>2 DEF ToSet, SourcePaths, found
  <2>3. Scanned' = Scanned  BY <1>2, <2>1, <2>2 DEF Scanned, args, found
  <2> QED  BY <1>1, <1>2, <2>1, <2>2, <2>3 DEF ScansOK, args, found
<1> QED  BY <1>3, <1>4, <1>5, <1>6 DEF DInv

\* Either loop over patterns: one more is matched, or the run fails.
LEMMA ExpandPatternStep ==
    ASSUME TypesOK, NEW listing, ExpandPattern(listing),
           ListedAsGiven(matched, listing, nextPattern - 1)
    PROVE  /\ TypesOK'
           /\ pc' # "failed" =>
                 /\ UNCHANGED pc
                 /\ nextPattern' = nextPattern + 1
                 /\ ListedAsGiven(matched', listing, nextPattern' - 1)
<1>1. UNCHANGED <<args, found>>  BY DEF ExpandPattern
<1>2. CASE pc' = "failed" /\ UNCHANGED loop
      BY <1>1, <1>2 DEF TypesOK, args, found, loop
<1>3. ASSUME matched' = matched \o NewMatches(listing[nextPattern]),
             nextPattern' = nextPattern + 1, UNCHANGED pc
      PROVE  /\ TypesOK' /\ nextPattern' = nextPattern + 1
             /\ ListedAsGiven(matched', listing, nextPattern' - 1)
  <2>1. /\ files \subseteq Paths /\ IsFiniteSet(files) /\ matched \in Seq(files)
        /\ nextPattern \in Nat \ {0}
        BY DEF TypesOK
  <2>2. NewMatches(listing[nextPattern]) = Sorted(Glob(listing[nextPattern]) \ ToSet(matched))
        BY DEF NewMatches
  <2>3. matched' \in Seq(files)  BY <1>3, <2>1, <2>2, ExtendListing
  <2>4. ListedAsGiven(matched', listing, nextPattern)  BY <1>3, <2>1, <2>2, ExtendListing
  <2>5. nextPattern' - 1 = nextPattern /\ nextPattern' \in Nat \ {0}  BY <1>3, <2>1
  <2>6. TypesOK'  BY <1>1, <2>3, <2>5 DEF TypesOK, args, found
  <2> QED  BY <1>3, <2>4, <2>5, <2>6
<1> QED  BY <1>2, <1>3 DEF ExpandPattern

LEMMA MatchSourcesKeeps ==
    ASSUME DInv, MatchSources
    PROVE  DInv'
<1>1. TypesOK /\ SourcesDistinct /\ PatternsOK /\ ScansOK  BY DEF DInv
<1>2. /\ pc = "explicit" /\ sourceArgs # <<>> /\ sourceFiles = <<>>
      /\ ListedAsGiven(matched, sourceArgs, nextPattern - 1)
      /\ ExpandPattern(sourceArgs)
      BY <1>1 DEF MatchSources, PatternsOK
<1>3. UNCHANGED <<args, found>> /\ nextPattern <= Len(sourceArgs)  BY <1>2 DEF ExpandPattern
<1>4. TypesOK'  BY <1>1, <1>2, ExpandPatternStep
<1>5. CASE pc' = "failed"  BY <1>1, <1>3, <1>4, <1>5, FailureKeeps DEF found
<1>6. CASE pc' # "failed"
  <2>1. /\ pc' = "explicit" /\ nextPattern' = nextPattern + 1
        /\ ListedAsGiven(matched', sourceArgs, nextPattern' - 1)
        BY <1>1, <1>2, <1>6, ExpandPatternStep
  <2>2. nextPattern' <= Len(sourceArgs) + 1
    <3>1. nextPattern \in Nat /\ Len(sourceArgs) \in Nat  BY <1>1 DEF TypesOK
    <3> QED  BY <1>3, <2>1, <3>1
  <2>3. files' = files /\ sourceArgs' = sourceArgs /\ sourceFiles' = <<>>  BY <1>2, <1>3 DEF args, found
  <2>4. ListedAsGiven(matched, sourceArgs, nextPattern - 1)'  BY <2>1, <2>3 DEF ListedAsGiven
  <2>5. PatternsOK'  BY <1>2, <2>1, <2>2, <2>3, <2>4 DEF PatternsOK
  <2>6. SourcesDistinct'  BY <1>1, <1>2, <2>3 DEF SourcesDistinct, SourcePaths
  <2>7. ScansOK'  BY <2>1, <2>3 DEF ScansOK
  <2> QED  BY <1>4, <2>5, <2>6, <2>7 DEF DInv
<1> QED  BY <1>5, <1>6

LEMMA MatchSetupKeeps ==
    ASSUME DInv, MatchSetup
    PROVE  DInv'
<1>1. TypesOK /\ SourcesDistinct /\ PatternsOK /\ ScansOK  BY DEF DInv
<1>2. /\ pc = "setup" /\ ListedAsGiven(matched, setupArgs, nextPattern - 1)
      /\ ExpandPattern(setupArgs)
      BY <1>1 DEF MatchSetup, PatternsOK
<1>3. UNCHANGED <<args, found>> /\ nextPattern <= Len(setupArgs)  BY <1>2 DEF ExpandPattern
<1>4. TypesOK'  BY <1>1, <1>2, ExpandPatternStep
<1>5. CASE pc' = "failed"  BY <1>1, <1>3, <1>4, <1>5, FailureKeeps DEF found
<1>6. CASE pc' # "failed"
  <2>1. /\ pc' = "setup" /\ nextPattern' = nextPattern + 1
        /\ ListedAsGiven(matched', setupArgs, nextPattern' - 1)
        BY <1>1, <1>2, <1>6, ExpandPatternStep
  <2>2. nextPattern' <= Len(setupArgs) + 1
    <3>1. nextPattern \in Nat /\ Len(setupArgs) \in Nat  BY <1>1 DEF TypesOK
    <3> QED  BY <1>3, <2>1, <3>1
  <2>3. /\ files' = files /\ unreadable' = unreadable /\ sourceArgs' = sourceArgs
        /\ setupArgs' = setupArgs /\ sourceFiles' = sourceFiles
        /\ testFiles' = testFiles /\ testDirs' = testDirs
        BY <1>3 DEF args, found
  <2>4. SourcePaths' = SourcePaths  BY <2>3 DEF SourcePaths
  <2>5. ListedAsGiven(matched, setupArgs, nextPattern - 1)'  BY <2>1, <2>3 DEF ListedAsGiven
  <2>6. sourceArgs # <<>> => ListedAsGiven(SourcePaths, sourceArgs, Len(sourceArgs))'
        BY <1>1, <1>2, <2>3, <2>4 DEF PatternsOK, ListedAsGiven
  <2>7. PatternsOK'  BY <2>1, <2>2, <2>3, <2>5, <2>6 DEF PatternsOK
  <2>8. SourcesDistinct'  BY <1>1, <2>4 DEF SourcesDistinct
  <2>9. ScansOK'
    <3>1. \A e : Walked(e)' = Walked(e)  BY <2>3 DEF Walked
    <3>2. /\ ToSet(testFiles)' = ToSet(testFiles) /\ ToSet(SourcePaths)' = ToSet(SourcePaths)
          BY <2>3, <2>4 DEF ToSet
    <3>3. Scanned' = Scanned  BY <2>3, <3>1, <3>2 DEF Scanned
    <3> QED  BY <1>1, <1>2, <2>1, <2>3, <2>4, <3>1, <3>2, <3>3 DEF ScansOK
  <2> QED  BY <1>4, <2>7, <2>8, <2>9 DEF DInv
<1> QED  BY <1>5, <1>6

LEMMA ListSourcesKeeps ==
    ASSUME DInv, ListSources
    PROVE  DInv'
<1>1. TypesOK /\ SourcesDistinct /\ PatternsOK /\ ScansOK  BY DEF DInv
<1>2. /\ pc = "explicit" /\ sourceArgs # <<>> /\ sourceFiles = <<>>
      /\ nextPattern <= Len(sourceArgs) + 1 /\ nextPattern > Len(sourceArgs)
      /\ ListedAsGiven(matched, sourceArgs, nextPattern - 1)
      /\ UNCHANGED <<args, testFiles, testDirs, setupSQL>>
      BY <1>1 DEF ListSources, AllExpanded, PatternsOK
<1>3. CASE pc' = "failed" /\ UNCHANGED <<sourceFiles, loop>>
  <2>1. TypesOK'  BY <1>1, <1>2, <1>3 DEF TypesOK, args, loop
  <2> QED  BY <1>1, <1>3, <2>1, FailureKeeps
<1>4. ASSUME sourceFiles' = [i \in DOMAIN matched |-> Entry(matched[i])],
             pc' = "setup", nextPattern' = 1, matched' = <<>>
      PROVE  DInv'
  <2>1. /\ matched \in Seq(files) /\ files' = files /\ sourceArgs' = sourceArgs
        /\ setupArgs' = setupArgs /\ files \subseteq Paths
        BY <1>1, <1>2 DEF TypesOK, args
  <2>2. DOMAIN matched = 1..Len(matched) /\ Len(matched) \in Nat
        /\ \A i \in DOMAIN matched : matched[i] \in files
        BY <2>1
  <2>3. sourceFiles' \in Seq({Entry(f) : f \in files})
    <3>1. sourceFiles' \in [1..Len(matched) -> {Entry(f) : f \in files}]  BY <1>4, <2>2
    <3> QED  BY <2>2, <3>1
  <2>4. SourcePaths' = matched
    <3>1. \A i \in DOMAIN matched : sourceFiles'[i].path = matched[i]  BY <1>4 DEF Entry
    <3>2. DOMAIN sourceFiles' = DOMAIN matched  BY <1>4
    <3>3. SourcePaths' = [i \in DOMAIN matched |-> matched[i]]  BY <3>1, <3>2 DEF SourcePaths
    <3> QED  BY <2>1, <3>3
  <2>5. TypesOK'  BY <1>1, <1>2, <1>4, <2>1, <2>3 DEF TypesOK, args
  <2>6. nextPattern - 1 = Len(sourceArgs)
    <3>1. nextPattern \in Nat /\ Len(sourceArgs) \in Nat  BY <1>1 DEF TypesOK
    <3> QED  BY <1>2, <3>1
  <2>7. ListedAsGiven(matched, sourceArgs, Len(sourceArgs)) /\ Len(sourceArgs) \in Nat
        BY <1>1, <1>2, <2>6 DEF TypesOK
  <2>8. matched \in Seq(Paths)  BY <2>1
  <2>9. \A i, j \in DOMAIN matched : i # j => matched[i] # matched[j]
    <3> TAKE i, j \in DOMAIN matched
    <3>1. i \in Nat /\ j \in Nat  BY <2>2
    <3>2. CASE i < j  BY <2>7, <2>8, <3>2, ListedDistinct
    <3>3. CASE j < i  BY <2>7, <2>8, <3>3, ListedDistinct
    <3> QED  BY <3>1, <3>2, <3>3
  <2>10. SourcesDistinct'  BY <2>4, <2>9 DEF SourcesDistinct
  <2>11. PatternsOK'
    <3>1. ListedAsGiven(SourcePaths, sourceArgs, Len(sourceArgs))'
          BY <2>1, <2>4, <2>7 DEF ListedAsGiven
    <3>2. ListedAsGiven(<<>>, setupArgs, 0)'  BY DEF ListedAsGiven, ToSet
    <3>3. nextPattern' - 1 = 0 /\ nextPattern' <= Len(setupArgs') + 1
      <4>1. Len(setupArgs) \in Nat  BY <1>1 DEF TypesOK
      <4> QED  BY <1>4, <2>1, <4>1
    <3>4. ListedAsGiven(matched, setupArgs, nextPattern - 1)'  BY <1>4, <3>2, <3>3
    <3> QED  BY <1>4, <3>1, <3>3, <3>4 DEF PatternsOK
  <2>12. ScansOK'  BY <1>2, <1>4, <2>1 DEF ScansOK
  <2> QED  BY <2>5, <2>10, <2>11, <2>12 DEF DInv
<1> QED  BY <1>3, <1>4 DEF ListSources, RelativePath, Entry

LEMMA LoadSetupScriptsKeeps ==
    ASSUME DInv, LoadSetupScripts
    PROVE  DInv'
<1>1. TypesOK /\ SourcesDistinct /\ PatternsOK /\ ScansOK  BY DEF DInv
<1>2. /\ pc = "setup" /\ ListedAsGiven(matched, setupArgs, nextPattern - 1)
      /\ nextPattern <= Len(setupArgs) + 1 /\ nextPattern > Len(setupArgs)
      /\ UNCHANGED <<args, loop, testFiles, testDirs, sourceFiles>>
      BY <1>1 DEF LoadSetupScripts, AllExpanded, PatternsOK
<1>3. TypesOK'  BY <1>1, <1>2 DEF TypesOK, args, loop
<1>4. CASE pc' = "failed"  BY <1>1, <1>2, <1>3, <1>4, FailureKeeps
<1>5. CASE pc' = "ready" /\ setupSQL' = matched
  <2>1. nextPattern - 1 = Len(setupArgs)
    <3>1. nextPattern \in Nat /\ Len(setupArgs) \in Nat  BY <1>1 DEF TypesOK
    <3> QED  BY <1>2, <3>1
  <2>2. files' = files /\ unreadable' = unreadable /\ sourceArgs' = sourceArgs /\ setupArgs' = setupArgs
        BY <1>2 DEF args
  <2>3. ListedAsGiven(setupSQL, setupArgs, Len(setupArgs))'
        BY <1>2, <1>5, <2>1, <2>2 DEF ListedAsGiven
  <2>4. SourcePaths' = SourcePaths  BY <1>2 DEF SourcePaths
  <2>5. sourceArgs # <<>> => ListedAsGiven(SourcePaths, sourceArgs, Len(sourceArgs))'
        BY <1>1, <1>2, <2>2, <2>4 DEF PatternsOK, ListedAsGiven
  <2>6. PatternsOK'  BY <1>5, <2>2, <2>3, <2>5 DEF PatternsOK
  <2>7. SourcesDistinct'  BY <1>1, <2>4 DEF SourcesDistinct
  <2>8. ScansOK'
    <3>1. \A e : Walked(e)' = Walked(e)  BY <2>2 DEF Walked
    <3>2. ToSet(testFiles)' = ToSet(testFiles) /\ ToSet(SourcePaths)' = ToSet(SourcePaths)
          BY <1>2, <2>4 DEF ToSet
    <3>3. Scanned' = Scanned  BY <1>2, <2>2, <3>1, <3>2 DEF Scanned
    <3> QED  BY <1>1, <1>2, <1>5, <2>2, <2>4, <3>1, <3>2, <3>3 DEF ScansOK
  <2> QED  BY <1>3, <2>6, <2>7, <2>8 DEF DInv
<1> QED  BY <1>4, <1>5 DEF LoadSetupScripts

LEMMA StutterKeeps ==
    ASSUME DInv, UNCHANGED vars
    PROVE  DInv'
<1>1. /\ UNCHANGED <<files, unreadable, sourceArgs, setupArgs, pc, nextPattern, matched>>
      /\ UNCHANGED <<testFiles, testDirs, sourceFiles, setupSQL>>
      BY DEF vars, args, loop, found
<1>2. \A e : Walked(e)' = Walked(e)  BY <1>1 DEF Walked
<1>3. /\ SourcePaths' = SourcePaths /\ ToSet(testFiles)' = ToSet(testFiles)
      /\ ToSet(SourcePaths)' = ToSet(SourcePaths)
      BY <1>1 DEF SourcePaths, ToSet
<1>4. Scanned' = Scanned  BY <1>1, <1>2, <1>3 DEF Scanned
<1>5. TypesOK'  BY <1>1 DEF DInv, TypesOK
<1>6. SourcesDistinct'  BY <1>3 DEF DInv, SourcesDistinct
<1>7. PatternsOK'  BY <1>1, <1>3 DEF DInv, PatternsOK, ListedAsGiven
<1>8. ScansOK'  BY <1>1, <1>2, <1>3, <1>4 DEF DInv, ScansOK
<1> QED  BY <1>5, <1>6, <1>7, <1>8 DEF DInv

LEMMA DInvInit == Init => DInv
<1> SUFFICES ASSUME Init
             PROVE  DInv
    OBVIOUS
<1> USE DEF Init
<1>1. TypesOK
  <2>1. <<>> \in Seq(files) /\ <<>> \in Seq({Entry(f) : f \in files})  OBVIOUS
  <2>2. /\ IsFiniteSet(files) /\ files \subseteq Paths /\ \A f \in files : f # <<>>
        /\ unreadable \subseteq Paths
        BY DiscoveryAssumption
  <2>3. sourceArgs \in Seq(DOMAIN Globs) /\ setupArgs \in Seq(DOMAIN Globs)
        BY DiscoveryAssumption
  <2> QED  BY <2>1, <2>2, <2>3 DEF TypesOK
<1>2. DOMAIN SourcePaths = {}  BY DEF SourcePaths
<1>3. SourcesDistinct  BY <1>2 DEF SourcesDistinct
<1>4. PatternsOK  BY DEF PatternsOK
<1>5. ScansOK  BY DEF ScansOK
<1> QED  BY <1>1, <1>3, <1>4, <1>5 DEF DInv

LEMMA DInvStep == DInv /\ [Next]_vars => DInv'
<1> SUFFICES ASSUME DInv, [Next]_vars
             PROVE  DInv'
    OBVIOUS
<1>1. CASE FindTests  BY <1>1, FindTestsKeeps
<1>2. CASE AllScanned  BY <1>2, AllScannedKeeps
<1>3. CASE MatchSources  BY <1>3, MatchSourcesKeeps
<1>4. CASE ListSources  BY <1>4, ListSourcesKeeps
<1>5. CASE MatchSetup  BY <1>5, MatchSetupKeeps
<1>6. CASE LoadSetupScripts  BY <1>6, LoadSetupScriptsKeeps
<1>7. ASSUME NEW d \in testDirs, ScanTestDir(d)
      PROVE  DInv'
      BY <1>7, ScanTestDirKeeps
<1>8. CASE Finished  BY <1>8, StutterKeeps DEF Finished
<1>9. CASE UNCHANGED vars  BY <1>9, StutterKeeps
<1> QED  BY <1>1, <1>2, <1>3, <1>4, <1>5, <1>6, <1>7, <1>8, <1>9 DEF Next

-----------------------------------------------------------------------------
(* The results                                                              *)

LEMMA InvariantHolds == Spec => []DInv
BY DInvInit, DInvStep, PTL DEF Spec

\* A key names one file, whatever the tree, the root and the order of the scans: the
\* relative path that discover.go and explicitSources key coverage by tells files apart.
THEOREM KeysNameOneFile == Spec => []KeysIdentifyFiles
<1>1. DInv => KeysIdentifyFiles
  <2> SUFFICES ASSUME DInv, NEW i \in DOMAIN sourceFiles, NEW j \in DOMAIN sourceFiles, i # j
               PROVE  sourceFiles[i].key # sourceFiles[j].key
      BY DEF KeysIdentifyFiles
  <2>1. TypesOK /\ SourcesDistinct  BY DEF DInv
  <2>2. SourcePaths \in Seq(files)  BY <2>1, SourcePathsType
  <2>3. DOMAIN SourcePaths = DOMAIN sourceFiles  BY <2>1, SourcePathsType
  <2>4. sourceFiles[i] = Entry(SourcePaths[i]) /\ sourceFiles[j] = Entry(SourcePaths[j])
        BY <2>1, SourcePathsType
  <2>5. SourcePaths[i] \in Paths /\ SourcePaths[j] \in Paths
        BY <2>1, <2>2, <2>3 DEF TypesOK
  <2>6. SourcePaths[i] # SourcePaths[j]  BY <2>1, <2>3 DEF SourcesDistinct
  <2>7. Rel(Root, SourcePaths[i]) # Rel(Root, SourcePaths[j])
        BY <2>5, <2>6, RelInjective, DiscoveryAssumption
  <2> QED  BY <2>4, <2>7 DEF Entry
<1> QED  BY <1>1, InvariantHolds, PTL

\* What DiscoverCoLocatedSources collects, in whatever order it scans the directories of
\* the tests, gives each test all the sources of its directory, in the order of names.
THEOREM TestsGetTheirDirectory == Spec => []LoadsItsDirectoryInOrder
<1>1. DInv => LoadsItsDirectoryInOrder
  <2> SUFFICES ASSUME DInv, pc = "ready", sourceArgs = <<>>, NEW t \in ToSet(testFiles)
               PROVE  /\ {sourceFiles[i].path : i \in LoadedWith(t)}
                             = {f \in files : IsSource(f) /\ Dir(f) = Dir(t)}
                      /\ \A i, j \in LoadedWith(t) :
                             i < j => Before(sourceFiles[i].path, sourceFiles[j].path)
      BY DEF LoadsItsDirectoryInOrder
  <2>1. /\ TypesOK /\ t \in Walked(Root) /\ testDirs = {}
        /\ ToSet(SourcePaths) = Scanned
        /\ \A i, j \in DOMAIN SourcePaths :
               i < j /\ Dir(SourcePaths[i]) = Dir(SourcePaths[j])
                   => Before(SourcePaths[i], SourcePaths[j])
        BY DEF DInv, ScansOK
  <2>2. /\ DOMAIN SourcePaths = DOMAIN sourceFiles
        /\ \A i \in DOMAIN sourceFiles : SourcePaths[i] = sourceFiles[i].path
        BY DEF SourcePaths
  <2>3. LoadedWith(t) = {i \in DOMAIN sourceFiles : Dir(sourceFiles[i].path) = Dir(t)}
        BY DEF LoadedWith
  <2>4. \A i, j \in LoadedWith(t) : i < j => Before(sourceFiles[i].path, sourceFiles[j].path)
        BY <2>1, <2>2, <2>3
  <2>5. ASSUME NEW i \in LoadedWith(t)
        PROVE  sourceFiles[i].path \in {f \in files : IsSource(f) /\ Dir(f) = Dir(t)}
    <3>1. sourceFiles[i].path \in ToSet(SourcePaths)  BY <2>2, <2>3 DEF ToSet
    <3> QED  BY <2>1, <2>3, <3>1 DEF Scanned
  <2>6. ASSUME NEW f \in files, IsSource(f), Dir(f) = Dir(t)
        PROVE  \E i \in LoadedWith(t) : sourceFiles[i].path = f
    <3>1. f \in Walked(Dir(t))  BY <2>1, <2>6, OwnSourcesSeen, DiscoveryAssumption
    <3>2. f \in ToSet(SourcePaths)  BY <2>1, <2>6, <3>1 DEF Scanned
    <3>3. PICK i \in DOMAIN SourcePaths : SourcePaths[i] = f  BY <3>2 DEF ToSet
    <3> QED  BY <2>2, <2>3, <2>6, <3>3
  <2>7. {sourceFiles[i].path : i \in LoadedWith(t)} = {f \in files : IsSource(f) /\ Dir(f) = Dir(t)}
        BY <2>5, <2>6
  <2> QED  BY <2>4, <2>7
<1> QED  BY <1>1, InvariantHolds, PTL

\* expandPatterns lists, for any patterns, the files they match, each at the first pattern
\* that matches it: the order setup scripts run in and listed sources are loaded in.
THEOREM ListedFilesInOrder == Spec => []PatternsKeepTheirOrder
<1>1. DInv => PatternsKeepTheirOrder  BY DEF DInv, PatternsOK, PatternsKeepTheirOrder
<1> QED  BY <1>1, InvariantHolds, PTL

=============================================================================
