------------------------------ MODULE ListProofs ------------------------------
(***************************************************************************)
(* Lemmas about the lists of Lists, and about sums and numbers, that the   *)
(* proofs about questions and about documents both rest on: what a prefix, *)
(* a sublist, a filter, a running total of a list of any length is.        *)
(***************************************************************************)
EXTENDS Lists, SequencesExt, SequenceTheorems, FiniteSetTheorems,
        WellFoundedInduction, TLAPS

(* Induction, about a set of numbers.                                      *)
LEMMA Inductive ==
  ASSUME NEW n \in Nat, NEW S, 0 \in S, \A i \in 1..n : i - 1 \in S => i \in S
  PROVE  0..n \subseteq S
<1> DEFINE T == {i \in 0..n : i \notin S}
<1> SUFFICES ASSUME T # {} PROVE FALSE
  OBVIOUS
<1>1. \E x \in T : \A y \in T : ~(y < x)
  <2>1. T \subseteq Nat
    OBVIOUS
  <2>2. PICK x \in T : \A y \in T : <<y, x>> \notin OpToRel(<, Nat)
    <3> HIDE DEF T
    <3> QED BY <2>1, WFMin, NatLessThanWellFounded
  <2>3. \A y \in T : ~(y < x)
    <3> HIDE DEF T
    <3> QED BY <2>1, <2>2 DEF OpToRel
  <2> QED BY <2>3
<1>2. PICK x \in T : \A y \in T : ~(y < x)
  BY <1>1
<1>3. x \in 0..n /\ x \notin S
  OBVIOUS
<1>4. x # 0
  BY <1>3
<1>5. x \in 1..n /\ x - 1 \in 0..n /\ x - 1 < x
  BY <1>3, <1>4
<1>6. x - 1 \in S
  BY <1>2, <1>5
<1> QED BY <1>3, <1>5, <1>6

\* Multiplication keeps an order.
LEMMA Multiples ==
  ASSUME NEW x \in Nat, NEW y \in Nat, NEW z \in Nat, x <= y PROVE x * z <= y * z
<1> DEFINE d == y - x
<1>1. d \in Nat /\ y = x + d
  OBVIOUS
<1> HIDE DEF d
<1>2. y * z = x * z + d * z
  BY <1>1
<1>3. d * z \in Nat /\ x * z \in Nat
  BY <1>1
<1> QED BY <1>2, <1>3

\* A quotient and a remainder are numbers.
LEMMA Division ==
  ASSUME NEW n \in Nat \ {0}, NEW h \in Nat PROVE h \div n \in Nat /\ h % n \in 0..(n - 1)
  OBVIOUS

\* Dividing undoes multiplying.
LEMMA Quotient ==
  ASSUME NEW n \in Nat \ {0}, NEW a \in Nat, NEW r \in 0..(n - 1)
  PROVE  a * n + r \in Nat /\ (a * n + r) \div n = a /\ (a * n + r) % n = r
<1> DEFINE x == a * n + r
           q == x \div n
           m == x % n
<1>1. x \in Nat /\ a * n \in Nat /\ r \in Nat /\ r < n
  OBVIOUS
<1> HIDE DEF x
<1>2. q \in Nat /\ m \in 0..(n - 1) /\ x = n * q + m
  BY <1>1
<1> HIDE DEF q, m
<1>3. q * n \in Nat /\ x = q * n + m /\ x = a * n + r
  BY <1>2 DEF x
<1>4. ASSUME q < a PROVE FALSE
  <2>1. q + 1 \in Nat /\ q + 1 <= a
    BY <1>2, <1>4
  <2>2. (q + 1) * n <= a * n
    BY <2>1, Multiples
  <2>3. (q + 1) * n = q * n + n
    BY <1>2
  <2> QED BY <1>1, <1>2, <1>3, <2>2, <2>3
<1>5. ASSUME a < q PROVE FALSE
  <2>1. a + 1 \in Nat /\ a + 1 <= q
    BY <1>2, <1>5
  <2>2. (a + 1) * n <= q * n
    BY <1>2, <2>1, Multiples
  <2>3. (a + 1) * n = a * n + n
    OBVIOUS
  <2> QED BY <1>1, <1>2, <1>3, <2>2, <2>3
<1>6. q = a
  BY <1>2, <1>4, <1>5
<1>7. m = r
  BY <1>1, <1>2, <1>3, <1>6
<1> QED BY <1>1, <1>6, <1>7 DEF q, m, x

(* What runs along a list exists, and stays where each step stays.         *)
Follows(run, n, A, base, grow) ==
  /\ run \in [0..n -> A] /\ run[0] = base
  /\ \A i \in 1..n : run[i - 1] \in A /\ run[i] = grow[<<run[i - 1], i>>]

\* From every start there is a run.
LEMMA RunExists ==
  ASSUME NEW n \in Nat, NEW A, NEW base \in A, NEW grow \in [A \X (1..n) -> A]
  PROVE  \E run : Follows(run, n, A, base, grow)
<1> DEFINE Run(k, f) == f[0] = base /\ \A i \in 1..k : f[i] = grow[<<f[i - 1], i>>]
           S == {k \in 0..n : \E f \in [0..k -> A] : Run(k, f)}
<1>1. 0 \in S
  <2> DEFINE f == [i \in 0..0 |-> base]
  <2>1. f \in [0..0 -> A]
    OBVIOUS
  <2>2. Run(0, f)
    OBVIOUS
  <2>3. 0 \in 0..n
    OBVIOUS
  <2>4. \E g \in [0..0 -> A] : Run(0, g)
    BY <2>1, <2>2
  <2> HIDE DEF Run
  <2> QED BY <2>3, <2>4
<1>2. ASSUME NEW k \in 1..n, k - 1 \in S PROVE k \in S
  <2>1. PICK f \in [0..(k - 1) -> A] : Run(k - 1, f)
    BY <1>2
  <2> DEFINE g == [i \in 0..k |-> IF i < k THEN f[i] ELSE grow[<<f[k - 1], k>>]]
  <2>2. grow[<<f[k - 1], k>>] \in A
    OBVIOUS
  <2>3. g \in [0..k -> A]
    <3>1. \A i \in 0..k : i < k => i \in 0..(k - 1)
      OBVIOUS
    <3> QED BY <2>1, <2>2, <3>1
  <2>4. Run(k, g)
    <3>1. g[0] = base
      BY <2>1
    <3>2. ASSUME NEW i \in 1..k PROVE g[i] = grow[<<g[i - 1], i>>]
      <4>1. CASE i = k
        <5>1. g[k] = grow[<<f[k - 1], k>>] /\ g[k - 1] = f[k - 1]
          OBVIOUS
        <5> HIDE DEF g
        <5> QED BY <4>1, <5>1
      <4>2. CASE i # k
        <5>1. i \in 1..(k - 1) /\ i - 1 < k /\ i < k /\ i \in 0..k /\ i - 1 \in 0..k
          BY <4>2
        <5>2. f[i] = grow[<<f[i - 1], i>>]
          BY <2>1, <5>1
        <5>3. g[i] = f[i] /\ g[i - 1] = f[i - 1]
          BY <5>1
        <5> HIDE DEF g
        <5> QED BY <5>2, <5>3
      <4> QED BY <4>1, <4>2
    <3> QED BY <3>1, <3>2
  <2>5. \E h \in [0..k -> A] : Run(k, h)
    <3> HIDE DEF Run
    <3> QED BY <2>3, <2>4
  <2> HIDE DEF Run
  <2> QED BY <2>5
<1>3. n \in S
  <2> HIDE DEF S
  <2> QED BY <1>1, <1>2, Inductive
<1>4. PICK run \in [0..n -> A] : Run(n, run)
  BY <1>3
<1>5. \A i \in 1..n : i - 1 \in 0..n
  OBVIOUS
<1>6. Follows(run, n, A, base, grow)
  BY <1>4, <1>5 DEF Follows
<1> QED BY <1>6

\* A run stays in what each of its steps stays in.
LEMMA RunStays ==
  ASSUME NEW n \in Nat, NEW run, NEW A, run[0] \in A[0],
         \A i \in 1..n : run[i - 1] \in A[i - 1] => run[i] \in A[i]
  PROVE  \A i \in 0..n : run[i] \in A[i]
<1> DEFINE S == {k \in 0..n : run[k] \in A[k]}
<1>1. 0 \in S
  OBVIOUS
<1>2. ASSUME NEW k \in 1..n, k - 1 \in S PROVE k \in S
  BY <1>2
<1> HIDE DEF S
<1> QED BY <1>1, <1>2, Inductive DEF S

(* A finite set in a strict order has an n-th element for each n, and one  *)
(* only.                                                                   *)
Below(R, S, i) == {j \in S : <<j, i>> \in R}
LEMMA Ranks ==
  ASSUME NEW S, IsFiniteSet(S), NEW R,
         \A i \in S : <<i, i>> \notin R,
         \A i, j, k \in S : <<i, j>> \in R /\ <<j, k>> \in R => <<i, k>> \in R,
         \A i, j \in S : i = j \/ <<i, j>> \in R \/ <<j, i>> \in R
  PROVE  /\ Cardinality(S) \in Nat
         /\ \A i \in S : Cardinality(Below(R, S, i)) \in 0..(Cardinality(S) - 1)
         /\ \A i, j \in S : <<i, j>> \in R => Cardinality(Below(R, S, i)) < Cardinality(Below(R, S, j))
         /\ \A n \in 1..Cardinality(S) : \E i \in S : Cardinality(Below(R, S, i)) = n - 1
<1>1. Cardinality(S) \in Nat
  BY FS_CardinalityType
<1>2. ASSUME NEW i \in S
      PROVE  /\ IsFiniteSet(Below(R, S, i)) /\ Cardinality(Below(R, S, i)) \in 0..(Cardinality(S) - 1)
  <2>1. Below(R, S, i) \in SUBSET S /\ Below(R, S, i) # S
    BY DEF Below
  <2>2. IsFiniteSet(Below(R, S, i)) /\ Cardinality(Below(R, S, i)) <= Cardinality(S) /\ Cardinality(Below(R, S, i)) # Cardinality(S)
    BY <2>1, FS_Subset
  <2>3. Cardinality(Below(R, S, i)) \in Nat
    BY <2>2, FS_CardinalityType
  <2> QED BY <1>1, <2>2, <2>3
<1>3. ASSUME NEW i \in S, NEW j \in S, <<i, j>> \in R
      PROVE  Cardinality(Below(R, S, i)) < Cardinality(Below(R, S, j))
  <2>1. Below(R, S, i) \in SUBSET Below(R, S, j) /\ i \in Below(R, S, j) /\ i \notin Below(R, S, i)
    BY <1>3 DEF Below
  <2>2. Cardinality(Below(R, S, i)) <= Cardinality(Below(R, S, j)) /\ Cardinality(Below(R, S, i)) # Cardinality(Below(R, S, j))
    BY <2>1, <1>2, FS_Subset
  <2> QED BY <2>2, <1>2
<1> DEFINE rank == [i \in S |-> Cardinality(Below(R, S, i))]
           T == 0..(Cardinality(S) - 1)
<1>4. rank \in [S -> T]
  BY <1>2
<1>9. ASSUME NEW i \in S, NEW j \in S, rank[i] = rank[j] PROVE i = j
  <2>1. Cardinality(Below(R, S, i)) = Cardinality(Below(R, S, j)) /\ Cardinality(Below(R, S, i)) \in Int
    BY <1>2, <1>9
  <2>2. ASSUME <<i, j>> \in R PROVE FALSE
    BY <1>3, <2>1, <2>2
  <2>3. ASSUME <<j, i>> \in R PROVE FALSE
    BY <1>3, <2>1, <2>3
  <2> QED BY <2>2, <2>3
<1>5. rank \in Injection(S, T)
  BY <1>4, <1>9 DEF Injection, IsInjective
<1>6. IsFiniteSet(T) /\ Cardinality(T) = Cardinality(S)
  <2>1. 0 \in Int /\ Cardinality(S) - 1 \in Int
    BY <1>1
  <2>2. IsFiniteSet(T) /\ Cardinality(T) = IF 0 > Cardinality(S) - 1 THEN 0 ELSE (Cardinality(S) - 1) - 0 + 1
    BY <2>1, FS_Interval
  <2> QED BY <1>1, <2>2
<1>7. rank \in Surjection(S, T)
  <2> HIDE DEF rank, T
  <2> QED BY <1>5, <1>6, FS_Injection
<1>8. \A n \in 1..Cardinality(S) : \E i \in S : Cardinality(Below(R, S, i)) = n - 1
  <2>1. ASSUME NEW n \in 1..Cardinality(S) PROVE \E i \in S : Cardinality(Below(R, S, i)) = n - 1
    <3>1. n - 1 \in T
      BY <1>1
    <3>2. PICK i \in S : rank[i] = n - 1
      BY <3>1, <1>7 DEF Surjection
    <3> QED BY <3>2
  <2> QED BY <2>1
<1> QED BY <1>1, <1>2, <1>3, <1>8

(* Positions in order, and what stands there.                              *)
LEMMA NthIs ==
  ASSUME NEW I, IsFiniteSet(I), I \subseteq Int
  PROVE  /\ Cardinality(I) \in Nat
         /\ \A n \in 1..Cardinality(I) : Nth(I, n) \in I
         /\ \A m, n \in 1..Cardinality(I) : m < n => Nth(I, m) < Nth(I, n)
         /\ \A i \in I : \E n \in 1..Cardinality(I) : Nth(I, n) = i
<1> DEFINE R == {p \in I \X I : p[1] < p[2]}
<1>1. \A i, j \in I : <<i, j>> \in R <=> i < j
  OBVIOUS
<1>2. \A i \in I : {j \in I : j < i} = Below(R, I, i)
  BY <1>1 DEF Below
<1>3. /\ \A i \in I : <<i, i>> \notin R
      /\ \A i, j, k \in I : <<i, j>> \in R /\ <<j, k>> \in R => <<i, k>> \in R
      /\ \A i, j \in I : i = j \/ <<i, j>> \in R \/ <<j, i>> \in R
  BY <1>1
<1> HIDE DEF R
<1>4. /\ Cardinality(I) \in Nat
      /\ \A i \in I : Cardinality({j \in I : j < i}) \in 0..(Cardinality(I) - 1)
      /\ \A i, j \in I : i < j => Cardinality({k \in I : k < i}) < Cardinality({k \in I : k < j})
      /\ \A n \in 1..Cardinality(I) : \E i \in I : Cardinality({j \in I : j < i}) = n - 1
  <2>1. /\ Cardinality(I) \in Nat
        /\ \A i \in I : Cardinality(Below(R, I, i)) \in 0..(Cardinality(I) - 1)
        /\ \A i, j \in I : <<i, j>> \in R => Cardinality(Below(R, I, i)) < Cardinality(Below(R, I, j))
        /\ \A n \in 1..Cardinality(I) : \E i \in I : Cardinality(Below(R, I, i)) = n - 1
    BY <1>3, Ranks, Zenon
  <2> QED BY <1>1, <1>2, <2>1
<1>5. ASSUME NEW n \in 1..Cardinality(I)
      PROVE  Nth(I, n) \in I /\ Cardinality({j \in I : j < Nth(I, n)}) = n - 1
  BY <1>4 DEF Nth
<1>6. ASSUME NEW m \in 1..Cardinality(I), NEW n \in 1..Cardinality(I), m < n PROVE Nth(I, m) < Nth(I, n)
  <2> DEFINE a == Nth(I, m)
             b == Nth(I, n)
  <2>1. a \in I /\ b \in I /\ a \in Int /\ b \in Int
    BY <1>5
  <2>2. Cardinality({j \in I : j < a}) = m - 1 /\ Cardinality({j \in I : j < b}) = n - 1
    BY <1>5
  <2> HIDE DEF a, b
  <2>3. ASSUME b < a PROVE FALSE
    BY <2>1, <2>2, <2>3, <1>4, <1>6
  <2>4. ASSUME a = b PROVE FALSE
    BY <2>2, <2>4, <1>4, <1>6
  <2>5. a < b
    BY <2>1, <2>3, <2>4
  <2> QED BY <2>5 DEF a, b
<1>7. ASSUME NEW i \in I PROVE \E n \in 1..Cardinality(I) : Nth(I, n) = i
  <2> DEFINE n == Cardinality({j \in I : j < i}) + 1
             b == Nth(I, n)
  <2>1. n \in 1..Cardinality(I) /\ Cardinality({j \in I : j < i}) = n - 1
    BY <1>4
  <2> HIDE DEF n
  <2>2. b \in I /\ Cardinality({j \in I : j < b}) = n - 1 /\ b \in Int /\ i \in Int
    BY <2>1, <1>5
  <2> HIDE DEF b
  <2>3. ASSUME b < i PROVE FALSE
    <3>1. Cardinality({j \in I : j < b}) < Cardinality({j \in I : j < i})
      BY <2>2, <2>3, <1>4
    <3>2. n - 1 \in Int
      BY <2>1
    <3> QED BY <2>1, <2>2, <3>1, <3>2
  <2>4. ASSUME i < b PROVE FALSE
    <3>1. Cardinality({j \in I : j < i}) < Cardinality({j \in I : j < b})
      BY <2>2, <2>4, <1>4
    <3>2. n - 1 \in Int
      BY <2>1
    <3> QED BY <2>1, <2>2, <3>1, <3>2
  <2>5. b = i
    BY <2>2, <2>3, <2>4
  <2> QED BY <2>1, <2>5 DEF b
<1> QED BY <1>4, <1>5, <1>6, <1>7

\* 1..n has n elements.
LEMMA Interval ==
  ASSUME NEW n \in Nat PROVE IsFiniteSet(1..n) /\ Cardinality(1..n) = n
<1>1. n \in Int /\ 1 \in Int
  OBVIOUS
<1>2. IsFiniteSet(1..n) /\ Cardinality(1..n) = IF 1 > n THEN 0 ELSE n - 1 + 1
  BY <1>1, FS_Interval
<1>3. Cardinality(1..n) = n
  BY <1>1, <1>2
<1> QED BY <1>2, <1>3

\* A sublist has the elements at its positions, in order.
LEMMA SublistIs ==
  ASSUME NEW S, NEW list \in Seq(S), NEW I \in SUBSET DOMAIN list
  PROVE  /\ Sublist(list, I) \in Seq(S) /\ Len(Sublist(list, I)) = Cardinality(I)
         /\ IsFiniteSet(I) /\ Cardinality(I) \in 0..Len(list)
         /\ \A n \in 1..Cardinality(I) : Nth(I, n) \in I /\ Sublist(list, I)[n] = list[Nth(I, n)]
         /\ \A m, n \in 1..Cardinality(I) : m < n => Nth(I, m) < Nth(I, n)
         /\ \A i \in I : \E n \in 1..Cardinality(I) : Nth(I, n) = i
<1>1. DOMAIN list = 1..Len(list) /\ Len(list) \in Nat /\ \A i \in DOMAIN list : list[i] \in S
  BY LenProperties, ElementOfSeq
<1>2. IsFiniteSet(I) /\ Cardinality(I) <= Len(list) /\ I \subseteq Int
  <2>1. IsFiniteSet(1..Len(list)) /\ Cardinality(1..Len(list)) = Len(list)
    BY <1>1, Interval
  <2> QED BY <1>1, <2>1, FS_Subset
<1>3. /\ Cardinality(I) \in Nat
      /\ \A n \in 1..Cardinality(I) : Nth(I, n) \in I
      /\ \A m, n \in 1..Cardinality(I) : m < n => Nth(I, m) < Nth(I, n)
      /\ \A i \in I : \E n \in 1..Cardinality(I) : Nth(I, n) = i
  BY <1>2, NthIs
<1>4. \A n \in 1..Cardinality(I) : list[Nth(I, n)] \in S
  BY <1>1, <1>3
<1>5. Sublist(list, I) \in [1..Cardinality(I) -> S]
  BY <1>4 DEF Sublist
<1>6. Sublist(list, I) \in Seq(S) /\ Len(Sublist(list, I)) = Cardinality(I)
  BY <1>3, <1>5, LenProperties, SeqDef
<1> QED BY <1>1, <1>2, <1>3, <1>6 DEF Sublist

\* A prefix is the list up to n elements.
LEMMA PrefixIs ==
  ASSUME NEW S, NEW list \in Seq(S), NEW n \in Nat
  PROVE  /\ Prefix(list, n) \in Seq(S) /\ Len(Prefix(list, n)) \in 0..n
         /\ Len(Prefix(list, n)) = IF n < Len(list) THEN n ELSE Len(list)
         /\ \A i \in 1..Len(Prefix(list, n)) : i \in 1..Len(list) /\ Prefix(list, n)[i] = list[i]
<1> DEFINE m == IF n < Len(list) THEN n ELSE Len(list)
<1>1. Len(list) \in Nat /\ m \in 0..Len(list) /\ m \in 0..n /\ \A i \in 1..m : list[i] \in S
  BY LenProperties, ElementOfSeq
<1> HIDE DEF m
<1>2. /\ SubSeq(list, 1, m) \in Seq(S) /\ Len(SubSeq(list, 1, m)) = m
      /\ \A i \in 1..m : SubSeq(list, 1, m)[i] = list[i]
  <2>1. /\ SubSeq(list, 1, m) \in Seq(S)
        /\ Len(SubSeq(list, 1, m)) = IF 1 <= m THEN m - 1 + 1 ELSE 0
        /\ \A i \in 1..(m - 1 + 1) : SubSeq(list, 1, m)[i] = list[1 + i - 1]
    BY <1>1, SubSeqProperties
  <2> QED BY <1>1, <2>1
<1>3. Prefix(list, n) = SubSeq(list, 1, m)
  BY DEF Prefix, m
<1>4. m = IF n < Len(list) THEN n ELSE Len(list)
  BY DEF m
<1> QED BY <1>1, <1>2, <1>3, <1>4

(* A list whose elements stand for lists is a list of all of theirs.       *)
JoinsAs(f, lists, S) ==
  /\ f[0] = <<>> /\ \A i \in 1..Len(lists) : f[i] = f[i - 1] \o lists[i]
  /\ \A i \in 0..Len(lists) : f[i] \in Seq(S)

\* Joined is the last of such lists.
LEMMA JoinedRuns ==
  ASSUME NEW S, NEW lists \in Seq(Seq(S))
  PROVE  \E f : JoinsAs(f, lists, S) /\ Joined(lists) = f[Len(lists)]
<1> DEFINE n == Len(lists)
           A == Seq(S)
           base == <<>>
           grow == [p \in A \X (1..n) |-> p[1] \o lists[p[2]]]
           Is(f) == f = [k \in 0..n |-> IF k = 0 THEN <<>> ELSE f[k - 1] \o lists[k]]
<1>1. n \in Nat /\ \A i \in 1..n : lists[i] \in A
  BY LenProperties, ElementOfSeq
<1>2. grow \in [A \X (1..n) -> A] /\ base \in A
  <2>1. ASSUME NEW p \in A \X (1..n) PROVE p[1] \o lists[p[2]] \in A
    BY <1>1, ConcatProperties
  <2> QED BY <2>1, EmptySeq
<1>3. \E f : Is(f)
  <2>1. PICK run : Follows(run, n, A, base, grow)
    <3>1. n \in Nat
      BY <1>1
    <3> HIDE DEF grow, A, n, base
    <3> QED BY <3>1, <1>2, RunExists
  <2>2. ASSUME NEW i \in 1..n PROVE run[i] = run[i - 1] \o lists[i]
    <3>1. run[i - 1] \in A /\ run[i] = grow[<<run[i - 1], i>>]
      BY <2>1 DEF Follows
    <3> HIDE DEF A, n
    <3>2. <<run[i - 1], i>> \in A \X (1..n)
      BY <3>1
    <3> QED BY <3>1, <3>2
  <2>3. run[0] = <<>> /\ run \in [0..n -> A]
    BY <2>1 DEF Follows
  <2> HIDE DEF A, n
  <2>4. Is(run)
    <3>1. \A k \in 0..n : run[k] = IF k = 0 THEN <<>> ELSE run[k - 1] \o lists[k]
      <4>1. ASSUME NEW k \in 0..n, k # 0 PROVE k \in 1..n
        BY <1>1, <4>1
      <4> QED BY <4>1, <2>2, <2>3
    <3>2. run = [k \in 0..n |-> run[k]]
      BY <2>3
    <3> QED BY <3>1, <3>2
  <2> QED BY <2>4
<1> DEFINE f == CHOOSE f : Is(f)
<1>4. Is(f)
  <2> HIDE DEF Is
  <2> QED BY <1>3
<1>5. Joined(lists) = f[n]
  BY DEF Joined
<1> HIDE DEF f
<1>6. f[0] = <<>> /\ \A i \in 1..n : f[i] = f[i - 1] \o lists[i]
  <2> HIDE DEF n
  <2>1. \A k \in 0..n : f[k] = IF k = 0 THEN <<>> ELSE f[k - 1] \o lists[k]
    BY <1>4
  <2>2. f[0] = <<>>
    <3>1. 0 \in 0..n
      BY <1>1
    <3> QED BY <2>1, <3>1
  <2>3. ASSUME NEW i \in 1..n PROVE f[i] = f[i - 1] \o lists[i]
    <3>1. i \in 0..n /\ i # 0
      BY <1>1
    <3> QED BY <2>1, <3>1
  <2> QED BY <2>2, <2>3
<1>7. \A i \in 0..n : f[i] \in A
  <2> DEFINE B == [k \in 0..n |-> A]
  <2>1. f[0] \in B[0]
    BY <1>6, <1>1, <1>2
  <2>2. ASSUME NEW i \in 1..n, f[i - 1] \in B[i - 1] PROVE f[i] \in B[i]
    <3>1. f[i - 1] \in A /\ lists[i] \in A
      BY <2>2, <1>1
    <3>2. f[i] \in A
      BY <1>6, <3>1, ConcatProperties
    <3> HIDE DEF A
    <3> QED BY <1>1, <3>2
  <2>3. \A i \in 0..n : f[i] \in B[i]
    <3> HIDE DEF n, A, B
    <3> QED BY <2>1, <2>2, <1>1, RunStays
  <2> HIDE DEF A
  <2> QED BY <2>3
<1>8. JoinsAs(f, lists, S)
  BY <1>6, <1>7 DEF JoinsAs
<1> QED BY <1>5, <1>8

\* Lists of elements of S join to one of them.
LEMMA JoinedIs ==
  ASSUME NEW S, NEW lists \in Seq(Seq(S))
  PROVE  Joined(lists) \in Seq(S)
<1>1. PICK f : JoinsAs(f, lists, S) /\ Joined(lists) = f[Len(lists)]
  BY JoinedRuns
<1>2. Len(lists) \in 0..Len(lists)
  BY LenProperties
<1> QED BY <1>1, <1>2 DEF JoinsAs

\* Of lists of at most one element each, none comes later than its list.
LEMMA JoinedPlaces ==
  ASSUME NEW S, NEW lists \in Seq(Seq(S)), \A k \in 1..Len(lists) : Len(lists[k]) \in {0, 1}
  PROVE  \A k \in 1..Len(lists) : Len(lists[k]) = 1 =>
           \E p \in 1..Len(Joined(lists)) : p <= k /\ Joined(lists)[p] = lists[k][1]
<1> DEFINE n == Len(lists)
<1>1. PICK f : JoinsAs(f, lists, S) /\ Joined(lists) = f[n]
  BY JoinedRuns
<1>2. /\ n \in Nat /\ f[0] = <<>> /\ \A i \in 1..n : f[i] = f[i - 1] \o lists[i] /\ lists[i] \in Seq(S)
      /\ \A i \in 0..n : f[i] \in Seq(S)
  BY <1>1, LenProperties, ElementOfSeq DEF JoinsAs
<1> DEFINE Stood(k, j) == \E p \in 1..Len(f[k]) : p <= j /\ f[k][p] = lists[j][1]
           T == {k \in 0..n : Len(f[k]) <= k /\ \A j \in 1..k : Len(lists[j]) = 1 => Stood(k, j)}
<1> HIDE DEF n
<1>3. 0 \in T
  <2>1. Len(f[0]) = 0 /\ 0 \in 0..n
    BY <1>2, EmptySeq
  <2>2. 1..0 = {}
    OBVIOUS
  <2> HIDE DEF Stood
  <2> QED BY <2>1, <2>2
<1>4. ASSUME NEW k \in 1..n, k - 1 \in T PROVE k \in T
  <2> DEFINE a == f[k - 1]
             b == lists[k]
  <2>1. k - 1 \in 0..n /\ k \in 0..n /\ k \in Nat /\ k - 1 \in Nat
    BY <1>2
  <2>2. a \in Seq(S) /\ b \in Seq(S) /\ f[k] = a \o b /\ Len(b) \in {0, 1}
    BY <1>2, <2>1 DEF n
  <2>3. Len(a) <= k - 1 /\ \A j \in 1..(k - 1) : Len(lists[j]) = 1 => Stood(k - 1, j)
    BY <1>4
  <2> HIDE DEF a, b
  <2>4. /\ Len(f[k]) = Len(a) + Len(b) /\ Len(a) \in Nat /\ Len(b) \in Nat
        /\ \A p \in 1..(Len(a) + Len(b)) : f[k][p] = IF p <= Len(a) THEN a[p] ELSE b[p - Len(a)]
    BY <2>2, ConcatProperties, LenProperties
  <2>5. Len(f[k]) <= k
    <3>1. \A x, y, z \in Nat : x <= z - 1 /\ y \in {0, 1} => x + y <= z
      OBVIOUS
    <3>2. Len(a) + Len(b) <= k
      BY <2>1, <2>2, <2>3, <2>4, <3>1
    <3> QED BY <2>4, <3>2
  <2>6. ASSUME NEW j \in 1..(k - 1), Len(lists[j]) = 1 PROVE Stood(k, j)
    <3>1. PICK p \in 1..Len(a) : p <= j /\ a[p] = lists[j][1]
      BY <2>3, <2>6 DEF a
    <3>2. p \in 1..Len(f[k]) /\ f[k][p] = a[p]
      BY <2>4, <3>1
    <3> QED BY <3>1, <3>2
  <2>7. ASSUME Len(b) = 1 PROVE Stood(k, k)
    <3> DEFINE p == Len(a) + 1
    <3>1. p \in 1..Len(f[k]) /\ p <= k
      BY <2>1, <2>3, <2>4, <2>7
    <3>2. f[k][p] = b[1]
      BY <2>4, <3>1
    <3> HIDE DEF p
    <3> QED BY <3>1, <3>2 DEF b
  <2> HIDE DEF Stood
  <2>8. \A j \in 1..k : Len(lists[j]) = 1 => Stood(k, j)
    <3>1. ASSUME NEW j \in 1..k, Len(lists[j]) = 1 PROVE Stood(k, j)
      <4>1. j = k \/ j \in 1..(k - 1)
        BY <2>1
      <4> QED BY <2>6, <2>7, <3>1, <4>1 DEF b
    <3> QED BY <3>1
  <2> QED BY <2>1, <2>5, <2>8
<1>5. 0..n \subseteq T
  <2> HIDE DEF T
  <2> QED BY <1>2, <1>3, <1>4, Inductive
<1>6. n \in T
  BY <1>2, <1>5
<1> QED BY <1>1, <1>6 DEF n

(* The sum of a list, term by term.                                        *)
Sums(f, list) ==
  /\ f[0] = 0 /\ \A i \in 1..Len(list) : f[i] = f[i - 1] + list[i]
  /\ \A i \in 0..Len(list) : f[i] \in Nat

\* Total is the last of such sums.
LEMMA TotalRuns ==
  ASSUME NEW list \in Seq(Nat)
  PROVE  \E f : Sums(f, list) /\ Total(list) = f[Len(list)]
<1> DEFINE n == Len(list)
           base == 0
           grow == [p \in Nat \X (1..n) |-> p[1] + list[p[2]]]
           Is(f) == f = [k \in 0..n |-> IF k = 0 THEN 0 ELSE f[k - 1] + list[k]]
<1>1. n \in Nat /\ \A i \in 1..n : list[i] \in Nat
  BY LenProperties, ElementOfSeq
<1>2. grow \in [Nat \X (1..n) -> Nat] /\ base \in Nat
  BY <1>1
<1>3. \E f : Is(f)
  <2>1. PICK run : Follows(run, n, Nat, base, grow)
    <3>1. n \in Nat
      BY <1>1
    <3> HIDE DEF grow, n, base
    <3> QED BY <3>1, <1>2, RunExists
  <2>2. ASSUME NEW i \in 1..n PROVE run[i] = run[i - 1] + list[i]
    BY <2>1, <1>1 DEF Follows
  <2>3. run[0] = 0 /\ run \in [0..n -> Nat]
    BY <2>1 DEF Follows
  <2> HIDE DEF n
  <2>4. \A k \in 0..n : run[k] = IF k = 0 THEN 0 ELSE run[k - 1] + list[k]
    BY <1>1, <2>2, <2>3
  <2>5. run = [k \in 0..n |-> run[k]]
    BY <2>3
  <2>6. Is(run)
    BY <2>4, <2>5
  <2> QED BY <2>6
<1> DEFINE f == CHOOSE f : Is(f)
<1>4. Is(f)
  <2> HIDE DEF Is
  <2> QED BY <1>3
<1>5. Total(list) = f[n]
  BY DEF Total
<1> HIDE DEF f
<1>6. f[0] = 0 /\ \A i \in 1..n : f[i] = f[i - 1] + list[i]
  <2> HIDE DEF n
  <2>1. \A k \in 0..n : f[k] = IF k = 0 THEN 0 ELSE f[k - 1] + list[k]
    BY <1>4
  <2> QED BY <1>1, <2>1
<1>7. \A i \in 0..n : f[i] \in Nat
  <2> DEFINE B == [k \in 0..n |-> Nat]
  <2>1. f[0] \in B[0]
    BY <1>6, <1>1
  <2>2. ASSUME NEW i \in 1..n, f[i - 1] \in B[i - 1] PROVE f[i] \in B[i]
    BY <2>2, <1>1, <1>6
  <2>3. \A i \in 0..n : f[i] \in B[i]
    <3> HIDE DEF n, B
    <3> QED BY <2>1, <2>2, <1>1, RunStays
  <2> QED BY <2>3
<1>8. Sums(f, list)
  BY <1>6, <1>7 DEF Sums
<1> QED BY <1>5, <1>8

\* The sum of no number, and of one more.
LEMMA TotalIs ==
  /\ Total(<<>>) = 0
  /\ \A list \in Seq(Nat), x \in Nat : Total(list) \in Nat /\ Total(Append(list, x)) = Total(list) + x
<1>1. Total(<<>>) = 0
  <2>1. <<>> \in Seq(Nat) /\ Len(<<>>) = 0
    BY EmptySeq
  <2> QED BY <2>1, TotalRuns DEF Sums
<1>2. ASSUME NEW list \in Seq(Nat), NEW x \in Nat
      PROVE  Total(list) \in Nat /\ Total(Append(list, x)) = Total(list) + x
  <2> DEFINE n == Len(list)
             more == Append(list, x)
  <2>1. /\ n \in Nat /\ more \in Seq(Nat) /\ Len(more) = n + 1 /\ more[n + 1] = x
        /\ \A i \in 1..n : more[i] = list[i]
    BY AppendProperties, LenProperties
  <2>2. PICK f : Sums(f, list) /\ Total(list) = f[n]
    BY TotalRuns
  <2>3. PICK g : Sums(g, more) /\ Total(more) = g[n + 1]
    BY <2>1, TotalRuns
  <2>4. \A i \in 0..n : g[i] = f[i]
    <3> DEFINE B == [k \in 0..n |-> {f[k]}]
    <3>1. g[0] \in B[0]
      BY <2>1, <2>2, <2>3 DEF Sums
    <3>2. ASSUME NEW i \in 1..n, g[i - 1] \in B[i - 1] PROVE g[i] \in B[i]
      <4>1. i \in 0..n /\ i - 1 \in 0..n /\ i \in 1..(n + 1)
        BY <2>1
      <4>2. g[i - 1] = f[i - 1]
        BY <4>1, <3>2
      <4>3. g[i] = f[i]
        <5> HIDE DEF n, more
        <5>1. f[i] = f[i - 1] + list[i]
          BY <2>2 DEF Sums, n
        <5>2. g[i] = g[i - 1] + more[i]
          BY <4>1, <2>1, <2>3 DEF Sums
        <5> QED BY <5>1, <5>2, <4>2, <2>1
      <4> QED BY <4>1, <4>3
    <3>3. \A i \in 0..n : g[i] \in B[i]
      <4> HIDE DEF B, n
      <4> QED BY <3>1, <3>2, <2>1, RunStays
    <3> QED BY <3>3
  <2>5. g[n + 1] = g[n] + x
    <3>1. n + 1 \in 1..(n + 1) /\ (n + 1) - 1 = n
      BY <2>1
    <3> HIDE DEF n, more
    <3>2. g[n + 1] = g[(n + 1) - 1] + more[n + 1]
      BY <3>1, <2>1, <2>3 DEF Sums
    <3> QED BY <3>1, <3>2, <2>1
  <2>6. g[n] = f[n] /\ f[n] \in Nat
    BY <2>4, <2>1, <2>2 DEF Sums
  <2> HIDE DEF n, more
  <2>7. Total(list) \in Nat /\ Total(more) = Total(list) + x
    BY <2>2, <2>3, <2>5, <2>6
  <2> QED BY <2>7 DEF more
<1> QED BY <1>1, <1>2

(* A finite set of numbers that is not empty has a largest one.            *)
LEMMA LargestIs ==
  ASSUME NEW S, S \subseteq Int, S # {}, IsFiniteSet(S)
  PROVE  Largest(S) \in S /\ \A y \in S : y <= Largest(S)
<1>1. /\ Cardinality(S) \in Nat
      /\ \A n \in 1..Cardinality(S) : Nth(S, n) \in S
      /\ \A m, n \in 1..Cardinality(S) : m < n => Nth(S, m) < Nth(S, n)
      /\ \A i \in S : \E n \in 1..Cardinality(S) : Nth(S, n) = i
  BY NthIs
<1> DEFINE c == Cardinality(S)
           x == Nth(S, c)
<1>2. c \in 1..c
  <2>1. c # 0
    BY FS_EmptySet
  <2> QED BY <2>1, <1>1
<1>3. x \in S
  BY <1>1, <1>2
<1>4. ASSUME NEW y \in S PROVE y <= x
  <2>1. PICK n \in 1..c : Nth(S, n) = y
    BY <1>1
  <2>2. n = c \/ n < c
    BY <1>2, <2>1
  <2>3. y = x \/ y < x
    BY <2>1, <2>2, <1>1, <1>2
  <2>4. x \in Int /\ y \in Int
    BY <1>3
  <2> QED BY <2>3, <2>4
<1> HIDE DEF x
<1> QED BY <1>3, <1>4 DEF Largest
=============================================================================
